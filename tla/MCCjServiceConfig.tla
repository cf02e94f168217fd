-------------------------- MODULE MCCjServiceConfig --------------------------
(* Constants of the TLC run of CjServiceConfig. *)
EXTENDS CjServiceConfig

AllNames == [bundle |-> "provider", ext |-> "AdsCoreService", api |-> "AdsApiService"]

(* A later file, of another provider; one that lacks an array; one whose    *)
(* first ability is not a string, or is empty, which leaves the element    *)
(* half assigned.                                                          *)
OtherNames == [bundle |-> "other", ext |-> "OtherService", api |-> "OtherService"]
Shipped    == [AllNames EXCEPT !.api = Unusable]
NoExt      == [AllNames EXCEPT !.ext = NotString]
Blank      == [AllNames EXCEPT !.ext = NoName]

Files == {AllNames, OtherNames, Shipped, NoExt, Blank}
=============================================================================
