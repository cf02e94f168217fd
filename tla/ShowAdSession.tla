---------------------------- MODULE ShowAdSession ----------------------------
(***************************************************************************)
(* showAd: an ad shown by the provider's UI extension in a modal page over *)
(* the application's window.  The page prohibits going back, so it is up   *)
(* to the callbacks of its session (UIExtensionCallback) to close it when  *)
(* the extension ends, and they know it by the id its creation returned.   *)
(*                                                                         *)
(* The callbacks run in the UI thread.  A call of the JavaScript library   *)
(* occupies that thread until it returns; one of the CJ library may come   *)
(* from any thread, and registers no callback but OnRelease.               *)
(***************************************************************************)
EXTENDS Integers, FiniteSets

CONSTANTS
  Show,    \* calls of showAd
  Cj,      \* those made through the CJ library
  File     \* what the configuration file may say of each name

Name == {"bundle", "ability", "uea"}

(* A name is the first of an array, the array begins with something else,  *)
(* or there is none; all are missing when there is no file.                *)
ASSUME ShowAdAssumption ==
  /\ Cj \subseteq Show
  /\ File \subseteq [Name -> {"name", "other", "missing"}]

VARIABLES
  stage,      \* [Show -> Stage], where the call is
  provider,   \* [Show -> SUBSET Name], names the call found
  created,    \* [Show -> Nat], the session CreateModalUIExtension made, or 0
  sessionId_, \* [Show -> Nat], what the callback object knows, 0 at first
  modals,     \* external: sessions whose page covers the window
  window,     \* external: the context has a UIContent
  posted,     \* [Show -> SUBSET Event], on their way to the UI thread
  heard,      \* history: [Show -> SUBSET Event], callbacks that have run
  early       \* history: calls whose callback ran before SetSessionId

vars == <<stage, provider, created, sessionId_, modals, window, posted, heard, early>>

(* "thrown": a parameter error; "ended": nothing was shown, and nobody is  *)
(* told; "creating": the session exists and its id has not been passed on. *)
Stage == {"idle", "thrown", "ended", "creating", "shown"}

(* "data" is onReceive with the code of a failed display.                  *)
Event == {"release", "result", "data", "error"}

TypeOK ==
  /\ stage \in [Show -> Stage]
  /\ provider \in [Show -> SUBSET Name]
  /\ created \in [Show -> Nat]
  /\ sessionId_ \in [Show -> Nat]
  /\ modals \subseteq Nat
  /\ window \in BOOLEAN
  /\ posted \in [Show -> SUBSET Event]
  /\ heard \in [Show -> SUBSET Event]
  /\ early \subseteq Show

Init ==
  /\ stage = [s \in Show |-> "idle"]
  /\ provider = [s \in Show |-> {}]
  /\ created = [s \in Show |-> 0]
  /\ sessionId_ = [s \in Show |-> 0]
  /\ modals = {}
  /\ window \in BOOLEAN
  /\ posted = [s \in Show |-> {}]
  /\ heard = [s \in Show |-> {}]
  /\ early = {}

(* Fault: the JavaScript library does not register OnError.                *)
Registered_NoError(s) == IF s \in Cj THEN {"release"} ELSE Event \ {"error"}

(* The callbacks given to CreateModalUIExtension.                          *)
Registered(s) == IF s \in Cj THEN {"release"} ELSE Event

(* The UI thread is in a call of the JavaScript library.                   *)
UiBusy == \E s \in Show \ Cj : stage[s] = "creating"

Goto(s, p) == stage' = [stage EXCEPT ![s] = p]

-----------------------------------------------------------------------------
(* The call.                                                               *)

Begins(s) == stage[s] = "idle" /\ (s \notin Cj => ~UiBusy)

(* GetAdConfigItem, into the call's own CloudServiceProvider.              *)
GetAdConfigItem(file) ==
  IF \E n \in Name : file[n] = "missing" THEN {} ELSE {n \in Name : file[n] = "name"}

(* The options or the ad do not parse.                                     *)
ShowAdThrows(s) ==
  /\ Begins(s)
  /\ Goto(s, "thrown")
  /\ UNCHANGED <<provider, created, sessionId_, modals, window, posted, heard, early>>

(* No context of the stage model, no UIContent, or a session that could    *)
(* not be created: the call returns as if the ad were shown.               *)
ShowAdEnds(s) ==
  /\ Begins(s)
  /\ Goto(s, "ended")
  /\ UNCHANGED <<provider, created, sessionId_, modals, window, posted, heard, early>>

(* From reading the configuration to the return of CreateModalUIExtension: *)
(* a page is opened whatever names were found.                             *)
CreateModalUIExtension(s) ==
  /\ Begins(s)
  /\ window
  /\ Goto(s, "creating")
  /\ \E file \in File : provider' = [provider EXCEPT ![s] = GetAdConfigItem(file)]
  /\ LET id == Cardinality({t \in Show : created[t] # 0}) + 1
     IN created' = [created EXCEPT ![s] = id] /\ modals' = modals \cup {id}
  /\ UNCHANGED <<sessionId_, window, posted, heard, early>>

(* Fault: the id is not passed on.                                         *)
SetSessionId_Not(s) ==
  /\ stage[s] = "creating"
  /\ Goto(s, "shown")
  /\ UNCHANGED <<provider, created, sessionId_, modals, window, posted, heard, early>>

(* SetSessionId.                                                           *)
SetSessionId(s) ==
  /\ stage[s] = "creating"
  /\ Goto(s, "shown")
  /\ sessionId_' = [sessionId_ EXCEPT ![s] = created[s]]
  /\ UNCHANGED <<provider, created, modals, window, posted, heard, early>>

-----------------------------------------------------------------------------
(* The session.                                                            *)

(* The extension ends, dies, or says that it cannot show the ad; one whose *)
(* names are not known cannot be started.                                  *)
ExtensionPosts(s, e) ==
  /\ created[s] # 0 /\ e \notin posted[s] \cup heard[s]
  /\ {"bundle", "uea"} \subseteq provider[s] \/ e = "error"
  /\ posted' = [posted EXCEPT ![s] = @ \cup {e}]
  /\ UNCHANGED <<stage, provider, created, sessionId_, modals, window, heard, early>>

(* Fault: without a session id every page is closed.                       *)
CloseModalUI_All(s) ==
  modals' = IF window THEN IF sessionId_[s] = 0 THEN {} ELSE modals \ {sessionId_[s]} ELSE modals

(* CloseModalUI; no session has the id 0.                                  *)
CloseModalUI(s) == modals' = IF window THEN modals \ {sessionId_[s]} ELSE modals

(* OnRelease, OnResult, OnReceive and OnError.                             *)
Callback(s, e) ==
  /\ ~UiBusy
  /\ e \in posted[s]
  /\ posted' = [posted EXCEPT ![s] = @ \ {e}]
  /\ heard' = [heard EXCEPT ![s] = @ \cup {e}]
  /\ IF e \in Registered(s) THEN CloseModalUI(s) ELSE UNCHANGED modals
  /\ early' = early \cup {t \in {s} : e \in Registered(s) /\ stage[s] = "creating"}
  /\ UNCHANGED <<stage, provider, created, sessionId_, window>>

(* The window is closed, and its pages with it.                            *)
WindowCloses ==
  /\ window /\ ~UiBusy
  /\ window' = FALSE
  /\ modals' = {}
  /\ UNCHANGED <<stage, provider, created, sessionId_, posted, heard, early>>

-----------------------------------------------------------------------------

Next ==
  \/ \E s \in Show :
       \/ ShowAdThrows(s) \/ ShowAdEnds(s)
       \/ CreateModalUIExtension(s) \/ SetSessionId(s)
       \/ \E e \in Event : ExtensionPosts(s, e) \/ Callback(s, e)
  \/ WindowCloses

Spec == Init /\ [][Next]_vars

(* A call that was begun returns, and the UI thread runs what is posted.   *)
FairSpec ==
  Spec /\ \A s \in Show : WF_vars(SetSessionId(s)) /\ \A e \in Event : WF_vars(Callback(s, e))

-----------------------------------------------------------------------------

Closing(s) == heard[s] \cap Registered(s) # {}

(* Sessions are not mixed up, and the page of one is closed as soon as a   *)
(* callback of it has run, whether the ad was released, failed or died.    *)
(* A callback that runs before SetSessionId closes nothing, and the page   *)
(* stays; that happens to CJ calls only, and of those only to such as are  *)
(* overtaken so: a release after SetSessionId closes the page of any.      *)
ClosedOnceHeard ==
  \A s \in Show :
    /\ Closing(s) /\ created[s] \in modals => s \in early
    /\ s \in early => s \in Cj /\ Closing(s)
    /\ sessionId_[s] \in {0, created[s]}
    /\ created[s] # 0 => \A t \in Show \ {s} : created[t] # created[s]

(* A page goes only because a callback of its own session has run, or the  *)
(* window is gone: ads shown one over the other do not close each other.   *)
ClosedByOwnCallback ==
  [][\A s \in Show : created[s] \in modals \ modals' => Closing(s)' \/ ~window']_vars

(* Whatever ends an extension shown from JavaScript, its page is closed in *)
(* the end; with the CJ library that goes for a release the call has       *)
(* returned before.                                                        *)
PageIsClosed ==
  \A s \in Show :
    /\ s \notin Cj /\ posted[s] # {} ~> created[s] \notin modals
    /\ stage[s] = "shown" /\ "release" \in posted[s] ~> created[s] \notin modals
=============================================================================
