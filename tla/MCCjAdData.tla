----------------------------- MODULE MCCjAdData -----------------------------
(* Constants of the TLC run of CjAdData. *)
EXTENDS CjAdData

(* Up to two ads with up to two headers, each with at most one thing wrong  *)
(* in each place; for several slots fewer of them.                         *)
UpTo(n, S) == UNION {[1 .. k -> S] : k \in 0 .. n}
Good == [object |-> TRUE, key |-> "text", value |-> "text"]
SomeHeaders == {Good, [Good EXCEPT !.object = FALSE], [Good EXCEPT !.key = "empty"],
            [Good EXCEPT !.value = "empty"], [Good EXCEPT !.value = "none"]}
Plain == [typed |-> TRUE, uniqueId |-> "text", headers |-> <<>>]
SomeAds == {Plain, [Plain EXCEPT !.typed = FALSE], [Plain EXCEPT !.uniqueId = "empty"],
            [Plain EXCEPT !.headers = <<Good>>],
            [Plain EXCEPT !.headers = <<Good, [Good EXCEPT !.key = "empty"]>>]}
ManyAds == SomeAds \cup {[Plain EXCEPT !.headers = headers] : headers \in UpTo(2, SomeHeaders)}

AdAnswers   == UpTo(2, ManyAds)
SlotAnswers == UpTo(2, [name : Text, object : BOOLEAN, ads : UpTo(1, SomeAds)])

(* Attributes that hide a field, that are not converted, that do neither.  *)
SomeKeys   == {"adId", "mute", "x"}
SomeExtras == UpTo(2, [key : SomeKeys, value : BOOLEAN])
=============================================================================
