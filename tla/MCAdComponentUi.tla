--------------------------- MODULE MCAdComponentUi ---------------------------
(* Constants of the TLC run of AdComponentUi. *)
EXTENDS AdComponentUi

(* All components show one ad.                                             *)
OneAd == [c \in Component |-> CHOOSE a \in Ad : TRUE]

Nobody   == {}
Everyone == Component

(* Success, the code that disconnects, any other.                          *)
Codes == {CODE_SUCCESS, -1, 100}

(* The extension and what is seen of it are followed only while its        *)
(* component is on the page and asked for two connections at most; the     *)
(* answer to INIT or to a use may disconnect and so take the proxy.        *)
TwoConnections ==
  extension' # "none" \/ area' # "hidden"
    => life'[Watched] = "appeared" /\ Len(links') <= 2
=============================================================================
