---------------------------- MODULE MCAdConnection ----------------------------
(* Constants of the TLC runs of AdConnection. *)
EXTENDS AdConnection, TLC

(* All components show one ad.                                             *)
OneAd == [c \in Component |-> CHOOSE a \in Ad : TRUE]

Nobody   == {}
Everyone == Component

(* Success, the code that disconnects, any other.                          *)
Codes == {CODE_SUCCESS, -1, 100}

(* Main components that are alike may be exchanged.                        *)
MainAlike == Permutations(MainType)

(* A component that reports its mounting is used besides only while it is  *)
(* alone.                                                                  *)
UsesAlone ==
  \A c \in Component :
    Len(SelectSeq(events'[c], LAMBDA e : e.kind = "use")) > 1
      => \A d \in Component \ {c} : life'[d] = "new"
=============================================================================
