-------------------------- MODULE MCAdServiceConfig --------------------------
(* Constants of the TLC runs of AdServiceConfig. *)
EXTENDS AdServiceConfig

AllNames == [bundle |-> "provider", ext |-> "AdsCoreService", api |-> "AdsApiService"]

(* A later file, of another provider.                                      *)
OtherNames == [bundle |-> "other", ext |-> "OtherService", api |-> "OtherService"]

(* The shipped file has no providerApiAbilityName; in others the first     *)
(* ability is not a string, or is the empty one.                           *)
Shipped == [AllNames EXCEPT !.api = Unusable]
NoExt   == [AllNames EXCEPT !.ext = NotString]
Blank   == [AllNames EXCEPT !.ext = NoName]

Files == {AllNames, OtherNames, Shipped, NoExt, Blank}
=============================================================================
