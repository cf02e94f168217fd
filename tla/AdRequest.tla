------------------------------ MODULE AdRequest ------------------------------
(***************************************************************************)
(* What the library promises an application about one request, whichever   *)
(* route the request takes through JavaScript, worker threads and the      *)
(* provider's process: it is told an outcome at most once, in one turn of  *)
(* its event loop, never before it asked, and "success" only if the        *)
(* provider granted the request.  A request may also be dropped without a  *)
(* word; that it may is part of the promise, which is why this module      *)
(* states no fairness.                                                     *)
(***************************************************************************)
EXTENDS Sequences

CONSTANTS
  Request,   \* requests an application may make
  Promise    \* those whose outcome settles a promise; the others call a listener

VARIABLES
  stage,     \* [Request -> Stage], what has become of the request
  told       \* [Request -> Seq({"success", "failure"})], what the application saw

vars == <<stage, told>>

Stage == {"idle", "asked", "refused", "granted", "denied", "closed"}

(* A listener whose success handler throws is told of a failure as well,   *)
(* within the same turn; a promise settles one way.                        *)
Outcomes(r) ==
  IF stage[r] = "granted"
  THEN {<<"success">>, <<"failure">>}
         \cup (IF r \in Promise THEN {} ELSE {<<"success", "failure">>})
  ELSE IF stage[r] \in {"refused", "denied"} THEN {<<"failure">>} ELSE {}

Init ==
  /\ stage = [r \in Request |-> "idle"]
  /\ told  = [r \in Request |-> <<>>]

Move(r, from, to) ==
  /\ stage[r] = from
  /\ stage' = [stage EXCEPT ![r] = to]

(* A parameter error: thrown to the caller, or the promise is rejected.    *)
Reject(r) ==
  /\ Move(r, "idle", "closed")
  /\ told' = IF r \in Promise THEN [told EXCEPT ![r] = <<"failure">>] ELSE told

Ask(r)       == Move(r, "idle", "asked")     /\ UNCHANGED told
Drop(r)      == Move(r, "asked", "closed")   /\ UNCHANGED told
Refuse(r)    == Move(r, "asked", "refused")  /\ UNCHANGED told
Answer(r, a) == Move(r, "asked", a)          /\ UNCHANGED told

Tell(r) ==
  /\ told[r] = <<>>
  /\ \E outcome \in Outcomes(r) : told' = [told EXCEPT ![r] = outcome]
  /\ UNCHANGED stage

Next ==
  \E r \in Request :
    \/ Reject(r) \/ Ask(r) \/ Drop(r) \/ Refuse(r)
    \/ Answer(r, "granted") \/ Answer(r, "denied")
    \/ Tell(r)

Spec == Init /\ [][Next]_vars
=============================================================================
