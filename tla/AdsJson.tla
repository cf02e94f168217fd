------------------------------- MODULE AdsJson -------------------------------
(***************************************************************************)
(* toJSON, which writes the ads of a reply as text.  A value is a tree; a  *)
(* text is a sequence of tokens, in which a whole text that JSON.stringify *)
(* wrote, what a value is as a string, or a member's key with its quotes   *)
(* and colon, is one token.                                                *)
(***************************************************************************)
EXTENDS Integers, Sequences, SequencesExt

CONSTANT Tree    \* the values there are, with all their parts

(* "plain" is an object without a class; "instance" one of a class; "null" *)
(* is undefined too.  A "leaf" is JSON as a string, or is quoted; a "raw"  *)
(* value is written as no JSON: NaN, Infinity, a boxed string.  One that   *)
(* is empty is written as nothing, like an instance without fields.        *)
ValueKind == {"leaf", "raw", "null", "function", "plain", "instance", "array", "map"}

(* A key is not escaped: one with a quote, say, is broken.                 *)
Key == {"key", "brokenKey"}

(* The items of an object or a map are its values, under its keys.         *)
ASSUME AdsJsonAssumption ==
  \A v \in Tree :
    /\ v.kind \in ValueKind
    /\ \A i \in DOMAIN v.items : v.items[i] \in Tree
    /\ v.kind \in {"map", "instance"} => v.keys \in [DOMAIN v.items -> Key]

(* Fault: the comma after the last element is kept.                        *)
FormatJsonStr_Keeps(s) == s

(* formatJsonStr: a comma at the end is dropped.                           *)
FormatJsonStr(s) == IF s # <<>> /\ Last(s) = "," THEN Front(s) ELSE s

Enclosed(open, s, close) == FormatJsonStr(<<open>> \o s) \o <<close>>

(* What a part adds to an object's text: nothing when it has none itself.  *)
Member(key, s) == IF s = <<>> THEN <<>> ELSE <<key>> \o s \o <<",">>

(* toJSON with mapToJson, objectToJson and arrayToJson.  An instance of no *)
(* fields has no text; a function is written as its source.                *)
ToJSON[v \in Tree] ==
  LET text  == [i \in DOMAIN v.items |-> ToJSON[v.items[i]]]
      parts == SelectSeq([i \in DOMAIN v.items |-> i], LAMBDA i : v.items[i].kind # "null")
      written == SelectSeq(parts, LAMBDA i : v.items[i].kind # "function")
      members(which) == FlattenSeq([k \in DOMAIN which |-> Member(v.keys[which[k]], text[which[k]])])
  IN CASE v.kind \in {"leaf", "plain"} -> <<"text">>
       [] v.kind = "raw"      -> <<"raw">>
       [] v.kind = "null"     -> <<>>
       [] v.kind = "function" -> <<"source">>
       [] v.kind = "array"    -> Enclosed("[", FlattenSeq([k \in DOMAIN parts |-> text[parts[k]] \o <<",">>]), "]")
       [] v.kind = "map"      -> Enclosed("{", members(parts), "}")
       [] v.kind = "instance" -> IF v.items = <<>> THEN <<>> ELSE Enclosed("{", members(written), "}")

(* The value that is written for a reply of success: the lists of all      *)
(* slots under their names, or the list of the only one.                   *)
AdsTree(multi, names, ads) ==
  LET list(s) == [kind |-> "array", items |-> s, keys |-> <<>>]
  IN IF multi THEN [kind |-> "map", items |-> [i \in DOMAIN ads |-> list(ads[i])], keys |-> names]
     ELSE list(ads[1])

(* JSON.parse takes the text: it has no token that is no JSON, and no      *)
(* comma that does not stand between two values.                           *)
Parses(s) ==
  /\ s # <<>>
  /\ \A i \in DOMAIN s :
       /\ s[i] \notin {"source", "raw", "brokenKey"}
       /\ s[i] = "," =>
            /\ 1 < i /\ s[i - 1] \notin {",", "[", "{"}
            /\ i < Len(s) /\ s[i + 1] \notin {",", "]", "}"}

Wordless(v) == v.kind = "instance" /\ v.items = <<>>

(* The value has, outside of plain objects, which JSON.stringify writes: a *)
(* raw value; a function that is not an instance's field; something under  *)
(* a broken key; or in an array something wordless next to another.        *)
Unwritable[v \in Tree] ==
  LET there == {i \in DOMAIN v.items : v.items[i].kind # "null"}
      is(i, kind) == v.items[i].kind = kind
  IN \/ v.kind = "raw"
     \/ v.kind \in {"array", "map"} /\ \E i \in there : is(i, "function")
     \/ /\ v.kind \in {"map", "instance"}
        /\ \E i \in there : /\ v.keys[i] = "brokenKey" /\ ~Wordless(v.items[i])
                            /\ ~(v.kind = "instance" /\ is(i, "function"))
     \/ v.kind = "array" /\ \E i, j \in there : i # j /\ Wordless(v.items[i])
     \/ v.kind \in {"array", "map", "instance"} /\ \E i \in there : Unwritable[v.items[i]]
=============================================================================
