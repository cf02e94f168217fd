---------------------------- MODULE MCAdEndToEnd ----------------------------
(* Constants of the TLC run of AdEndToEnd. *)
EXTENDS AdEndToEnd, MCAdLoadPipeline

CONSTANTS u1, u2

Callers == [r \in {single, multi} |-> IF r = single THEN u1 ELSE u2]

(* The height is missing, as AdsServiceRpc has it.                         *)
Good  == [adId |-> "text", adType |-> 8, adWidth |-> 300, adHeight |-> -2]
Bad   == [Good EXCEPT !.adType = 2]
Id(k) == [Good EXCEPT !.adId = k]

Object(slot) == [multi |-> FALSE, token |-> TRUE, shape |-> "object", slots |-> <<slot>>]
Array(slots) == [multi |-> TRUE, token |-> TRUE, shape |-> "array", slots |-> slots]

(* One that is accepted and one that is refused of each kind, and one that *)
(* makes the handler throw.                                                *)
Messages == {Object(Good), Object(Bad), Array(<<Good, Good>>), Array(<<Good, Id("none")>>),
             Array(<<Id("number")>>)}

Leaf  == [kind |-> "leaf", items |-> <<>>, keys |-> <<>>]
Plain == [kind |-> "plain", items |-> <<Leaf>>, keys |-> <<"key">>]
Empty == [kind |-> "instance", items |-> <<>>, keys |-> <<>>]
Ads   == {Plain, Empty}

(* No ads; ads in the second slot; one ad; two whose text does not parse.  *)
Answers == {<<<<>>>>, <<<<>>, <<Plain>>>>, <<<<Plain>>>>, <<<<Empty, Plain>>>>}

(* A reply to a single slot has the first list of an answer.               *)
Texts == ({TRUE} \X Answers) \cup ({FALSE} \X {<<a[1]>> : a \in Answers})

(* The names of slots have nothing to escape.                              *)
Names(ads) == [i \in DOMAIN ads |-> "key"]

(* For AdsTree, which is about no Tree.                                    *)
J == INSTANCE AdsJson WITH Tree <- {}

Arrays == {J!AdsTree(FALSE, <<>>, t[2]) : t \in Texts}
          \cup UNION {{J!AdsTree(FALSE, <<>>, <<t[2][i]>>) : i \in DOMAIN t[2]} : t \in Texts}
Trees  == Ads \cup {Leaf} \cup Arrays \cup {J!AdsTree(TRUE, Names(t[2]), t[2]) : t \in Texts}

Json == INSTANCE AdsJson WITH Tree <- Trees

ParsableReplies ==
  {t \in Texts : Json!Parses(Json!ToJSON[Json!AdsTree(t[1], Names(t[2]), t[2])])}

(* Requests share the configuration only, and loads the handler's thread:  *)
(* a load of several slots is made alone, of a single one next to a body.  *)
MultiAlone == call'[multi] = "idle" \/ (call'[single] = "idle" /\ call'[body] = "idle")
=============================================================================
