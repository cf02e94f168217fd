--------------------------- MODULE MCAdsServiceRpc ---------------------------
(* Constants of the TLC runs of AdsServiceRpc, and the text of its replies. *)
EXTENDS AdsServiceRpc, AdsJson

CONSTANTS r1, r2, u1, u2

Callers == (r1 :> u1) @@ (r2 :> u2)

Good    == [adId |-> "text", adType |-> 8, adWidth |-> 300, adHeight |-> Undefined]
BadType == [Good EXCEPT !.adType = 2]
BadSize == [Good EXCEPT !.adWidth = 0]
Id(k)   == [Good EXCEPT !.adId = k]

Single(shape, slots) == [multi |-> FALSE, token |-> TRUE, shape |-> shape, slots |-> slots]
Multi(shape, slots)  == [multi |-> TRUE, token |-> TRUE, shape |-> shape, slots |-> slots]

(* Each way a message can be, one of each kind.                            *)
Messages ==
  {[Single("text", <<>>) EXCEPT !.token = FALSE],
   Single("null", <<>>), Single("array", <<Good>>),
   Single("object", <<Good>>), Single("object", <<BadSize>>),
   Single("object", <<Id("none")>>), Single("object", <<Id("number")>>),
   Multi("text", <<>>), Multi("object", <<Good>>), Multi("array", <<>>),
   Multi("array", <<Good, BadType>>), Multi("array", <<BadType, Good>>),
   Multi("array", <<Id("blank"), Id("number")>>),
   Multi("array", <<Id("number"), Id("blank")>>),
   Multi("array", <<Good, Id("none")>>)}

Node(kind, items) == [kind |-> kind, items |-> items, keys |-> [i \in DOMAIN items |-> "key"]]
Break(v, i) == [v EXCEPT !.keys[i] = "brokenKey"]

Leaf     == Node("leaf", <<>>)
Raw      == Node("raw", <<>>)
Null     == Node("null", <<>>)
Function == Node("function", <<>>)
Plain    == Node("plain", <<Leaf, Raw>>)
Empty    == Node("instance", <<>>)

(* An ad with its reward configuration, a function, under a broken key     *)
(* something that is not written, and the last field missing; a plain      *)
(* object; an ad of which nothing is known; ads of which one part is no    *)
(* JSON: a width that is NaN, a function, a key.                           *)
Rewards  == Node("map", <<Leaf, Empty>>)
Whole    == Break(Node("instance", <<Leaf, Rewards, Function, Empty, Null>>), 4)
NaN      == Node("instance", <<Raw, Leaf>>)
Callable == Node("map", <<Function>>)
BadKey   == Node("instance", <<Break(Rewards, 1)>>)
Ads      == {Whole, Plain, Empty, NaN, Callable, BadKey}

(* Answers that are here for their text only.                              *)
Unreadable == {<<<<NaN>>>>, <<<<Callable>>>>, <<<<BadKey>>>>}

Answers ==
  {<<<<>>>>, <<<<>>, <<Plain>>>>, <<<<Whole, Null, Whole>>>>, <<<<Empty, Whole>>, <<Empty>>>>}
  \cup Unreadable

(* They are given to a request alone, and once.                            *)
UnreadableAlone ==
  \A r \in Request : \A i \in DOMAIN calls'[r] :
    calls'[r][i] \in Unreadable =>
      Len(calls'[r]) = 1 /\ \A q \in Request \ {r} : pc'[q] = "new"

AdsOrNull == Ads \cup {Null}

(* The names of an answer's slots are the service's.                       *)
Names(ads) == [DOMAIN ads -> Key]

Lists  == {a[1] : a \in Answers} \cup {a[2] : a \in {b \in Answers : Len(b) = 2}}
Arrays == {Node("array", l) : l \in Lists}
Replies == {<<TRUE, a>> : a \in Answers} \cup {<<FALSE, <<l>>>> : l \in Lists}
Trees  == AdsOrNull \cup {Leaf, Raw, Function, Rewards, Break(Rewards, 1)} \cup Arrays
          \cup UNION {{AdsTree(t[1], names, t[2]) : names \in Names(t[2])} : t \in Replies}

(* The client can read the text of such a reply exactly if all of it can   *)
(* be written, whatever the names of its slots.                            *)
ReadIfWritable(multi, ads) ==
  \A names \in Names(ads) :
    LET data == AdsTree(multi, names, ads) IN Parses(ToJSON[data]) = ~Unwritable[data]

AsWritten == {t \in Replies : ReadIfWritable(t[1], t[2])}

(* The client can read every reply of success, unless the service put into *)
(* it what toJSON writes wrongly: NaN, a function, a key that has to be    *)
(* escaped, or next to other ads one of which nothing is known.            *)
ReplyParses ==
  \A r \in Request : \A i \in DOMAIN replies[r] :
    replies[r][i].code = CODE_SUCCESS => <<msg[r].multi, replies[r][i].ads>> \in AsWritten
=============================================================================
