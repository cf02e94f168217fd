------------------------------ MODULE MCCjAdLoad ------------------------------
(* Constants of the TLC run of CjAdLoad. *)
EXTENDS CjAdLoad

AllNames == [bundle |-> "provider", ext |-> "AdsCoreService", api |-> "AdsApiService"]

(* What a configuration may give: every name, one service for both         *)
(* purposes, no name at all.                                               *)
Elements == {AllNames, [AllNames EXCEPT !.api = AllNames.ext], NoElement}

(* Requests share nothing but the configuration, so a run has a load or a   *)
(* body, never both: once one is made the other is not.  The constraint     *)
(* disables starting a call and nothing the fairness is about.              *)
OneIsMade ==
  \A r, s \in Request : call'[r] # "idle" /\ call'[s] # "idle" => r = s
=============================================================================
