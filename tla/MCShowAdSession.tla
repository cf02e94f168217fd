--------------------------- MODULE MCShowAdSession ---------------------------
(* Constants of the TLC run of ShowAdSession.                              *)
EXTENDS ShowAdSession

(* All names, one that is no text, none.                                   *)
Files ==
  {[n \in Name |-> "name"], [n \in Name |-> IF n = "uea" THEN "other" ELSE "name"],
   [n \in Name |-> "missing"]}
=============================================================================
