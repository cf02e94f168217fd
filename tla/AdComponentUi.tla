---------------------------- MODULE AdComponentUi ----------------------------
(***************************************************************************)
(* The components of AdConnection, and the extension that draws the ad of  *)
(* one of them.  The two meet where a disconnection ends: its finally takes *)
(* the component's proxy, although the component may still be on the page  *)
(* and its extension alive, as when an answer with code -1 disconnects.    *)
(* An ad that renders itself has such an extension too as long as the      *)
(* application gives the component no renderer of its own.                 *)
(***************************************************************************)
EXTENDS AdConnection, AdUiExtension

CONSTANT Watched   \* the component whose extension is followed

ASSUME WatchedAssumption == Watched \in Component

componentVars == <<vars, uiVars>>

ComponentInit == Init /\ UiInit

(* Fault: the proxy of an extension that is to register again goes too.    *)
DisconnectionEnds_LosesKept(c) ==
  /\ DisconnectSettles(c)
  /\ IF c = Watched
     THEN /\ remoteProxy' = FALSE /\ beforeReady' = "hidden"
          /\ UNCHANGED <<extension, area, remoteSees, gap>>
     ELSE UNCHANGED uiVars

(* The whole finally of disconnectServiceExtAbility.                       *)
DisconnectionEnds(c) ==
  /\ DisconnectSettles(c)
  /\ IF c = Watched THEN ProxyDropped ELSE UNCHANGED uiVars

(* The extension's callbacks; its area changes while it is on the page.    *)
UiStep ==
  /\ Idle /\ showComponent[Watched]
  /\ \/ RemoteReady \/ ReceiverRegisters \/ ExtensionDies
     \/ life[Watched] = "appeared" /\ \E a \in Area : UiAreaChange(a)
  /\ UNCHANGED vars

ComponentNext ==
  \/ Step /\ UNCHANGED uiVars
  \/ \E c \in Component : DisconnectionEnds(c)
  \/ UiStep

ComponentSpec == ComponentInit /\ [][ComponentNext]_componentVars

(* Nothing is assumed of the extension.                                    *)
FairComponentSpec == ComponentSpec /\ Fairness
=============================================================================
