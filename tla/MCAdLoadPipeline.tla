-------------------------- MODULE MCAdLoadPipeline --------------------------
(* Constants of the TLC runs of AdLoadPipeline. *)
EXTENDS AdLoadPipeline

CONSTANTS single, multi, body   \* one request of each kind

(* A kind for each request of the run.                                     *)
KindOf == [r \in Request |-> CASE r = single -> "single"
                               [] r = multi  -> "multi"
                               [] r = body   -> "body"]

AllNames == [bundle |-> "provider", ext |-> "AdsCoreService", api |-> "AdsApiService"]

(* The file this repository ships: it has no providerApiAbilityName.       *)
Shipped == [AllNames EXCEPT !.api = Unusable]

(* One service for both purposes.                                          *)
OneService == [AllNames EXCEPT !.api = AllNames.ext]

(* One whose last name is not a string.                                    *)
NoApi == [AllNames EXCEPT !.api = NotString]

UsableFiles == {AllNames, OneService, NoApi}
OneFile    == {AllNames}
Files      == {AllNames, Shipped}
=============================================================================
