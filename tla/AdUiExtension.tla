---------------------------- MODULE AdUiExtension ----------------------------
(***************************************************************************)
(* The extension process that draws an ad, as AdComponent and              *)
(* AutoAdComponent see it: both are handed a proxy when the extension is   *)
(* ready, and tell it how much of it can be seen.  What was seen before    *)
(* the proxy came is kept, and sent once the extension has registered its  *)
(* receiver.  AdComponent may lose its proxy again while the extension     *)
(* lives: AdComponentUi says when.  AutoAdComponent keeps its own.  All    *)
(* callbacks run in one JavaScript thread.                                 *)
(***************************************************************************)

VARIABLES
  extension,     \* external: the process, one of Extension
  remoteProxy,   \* a proxy is held (uiExtProxy in AdComponent)
  beforeReady,   \* isVisibleBeforeRemoteReady, currentRatioBeforeRemoteReady
  area,          \* what is seen of the extension now
  remoteSees,    \* history: what the extension was told last
  gap            \* history: the last change fell between proxy and receiver,
                 \* or came when the proxy was gone

uiVars == <<extension, remoteProxy, beforeReady, area, remoteSees, gap>>

(* "up": the proxy was handed out; "listening": its receiver is registered. *)
Extension == {"none", "up", "listening", "dead"}

(* What onVisibleAreaChange says, isVisible and currentRatio together; two *)
(* values tell a newer one from an older one.                              *)
Area == {"hidden", "shown"}

UiTypeOK ==
  /\ extension \in Extension
  /\ remoteProxy \in BOOLEAN
  /\ beforeReady \in Area
  /\ area \in Area
  /\ remoteSees \in Area \cup {"nothing"}
  /\ gap \in BOOLEAN

UiInit ==
  /\ extension = "none"
  /\ remoteProxy = FALSE
  /\ beforeReady = "hidden"
  /\ area = "hidden"
  /\ remoteSees = "nothing"
  /\ gap = FALSE

(* Fault: the proxy is used and not kept.                                  *)
RemoteReady_Unkept ==
  /\ extension = "none"
  /\ extension' = "up"
  /\ UNCHANGED <<remoteProxy, beforeReady, area, remoteSees, gap>>

(* onRemoteReady: the proxy is kept, and the receiver's callback is set.   *)
RemoteReady ==
  /\ extension = "none"
  /\ extension' = "up"
  /\ remoteProxy' = TRUE
  /\ UNCHANGED <<beforeReady, area, remoteSees, gap>>

(* asyncReceiverRegister: the value kept is sent, whatever was sent since. *)
ReceiverRegisters ==
  /\ extension = "up"
  /\ extension' = "listening"
  /\ remoteSees' = beforeReady
  /\ UNCHANGED <<remoteProxy, beforeReady, area, gap>>

(* A change now is not kept although the receiver is still to come, or is  *)
(* kept although it has come.                                              *)
InGap == (extension = "up" /\ remoteProxy) \/ (extension = "listening" /\ ~remoteProxy)

(* onVisibleAreaChange: sent if a proxy is held, and kept otherwise.       *)
UiAreaChange(a) ==
  /\ area' = a
  /\ gap' = InGap
  /\ \/ remoteProxy /\ remoteSees' = a /\ UNCHANGED beforeReady
     \/ ~remoteProxy /\ beforeReady' = a /\ UNCHANGED remoteSees
  /\ UNCHANGED <<extension, remoteProxy>>

(* The finally of disconnectServiceExtAbility sets uiExtProxy to null.     *)
ProxyDropped ==
  /\ remoteProxy' = FALSE
  /\ UNCHANGED <<extension, beforeReady, area, remoteSees, gap>>

(* onError: the process died; the proxy is kept.                           *)
ExtensionDies ==
  /\ extension \in {"up", "listening"}
  /\ extension' = "dead"
  /\ UNCHANGED <<remoteProxy, beforeReady, area, remoteSees, gap>>

(* An extension that listens was told last what is seen of it now, unless  *)
(* that changed last after the proxy came and before the receiver          *)
(* registered (the value kept from before the proxy is then sent after the *)
(* newer one), or once the proxy was gone (the value is kept and no        *)
(* receiver registers again).  A proxy that goes and an extension that     *)
(* listens late are told apart: what changes between them is not lost.     *)
RemoteSeesArea == extension = "listening" /\ ~gap => remoteSees = area

(* The inductive invariant behind it: a value kept is the newest one until *)
(* the receiver takes it.                                                  *)
UiInv ==
  /\ extension = "none" => ~remoteProxy /\ ~gap
  /\ extension \in {"none", "up"} /\ ~gap => beforeReady = area
  /\ RemoteSeesArea
=============================================================================
