-------------------------------- MODULE AutoAd --------------------------------
(***************************************************************************)
(* AutoAdComponent: loads ads when it appears, shows the first it gets,    *)
(* and then loads again with every tick of a timer, which stops while the  *)
(* component cannot be seen.  Timers, answers, visibility changes and the  *)
(* extension's callbacks come in any order; each runs to its end.  An      *)
(* answer may be late, come out of order or twice, and outlive the         *)
(* component: AdLoader keeps the listener.                                 *)
(***************************************************************************)
EXTENDS Integers, FiniteSets, AdUiExtension

CONSTANTS
  RefreshTime,  \* displayOptions.refreshTime; 0 for none or not a number
  MaxLoads,     \* bound: calls of loadAd
  MaxTimers,    \* bound: timers set
  MaxAnswers    \* bound: answers of the loader

MIN_REFRESH_TIME == 30000
MAX_REFRESH_TIME == 120000

ASSUME AutoAdAssumption ==
  /\ RefreshTime \subseteq Int
  /\ MaxLoads \in Nat /\ MaxTimers \in Nat /\ MaxAnswers \in Nat

VARIABLES
  life,           \* "new", "appeared", "gone"
  refreshTime,    \* 0 for undefined
  isTaskRunning,
  timeoutId,      \* the timer set last, 0 for undefined
  timers,         \* timers that have neither fired nor been cleared
  rowArea,        \* what onVisibleAreaChange of the row said last
  asked,          \* calls of loadAd
  answers,        \* answers that came
  isFirstLoad, showComponent,
  ads,            \* the call of loadAd whose ads are shown, 0 for none
  want,           \* the ads in want, 0 while it is undefined
  told,           \* history: calls of onStatusChanged with each status
  threw           \* history: the last call with 'onAdLoad' threw

timerVars == <<refreshTime, isTaskRunning, timeoutId, timers>>
showVars  == <<isFirstLoad, showComponent, ads, want>>
toldVars == <<told, threw>>
vars == <<uiVars, life, timerVars, rowArea, asked, answers, showVars, toldVars>>

Status == {"onAdLoad", "onAdFail", "onAdClose"}

isAutoRefresh == refreshTime # 0

TypeOK ==
  /\ UiTypeOK
  /\ life \in {"new", "appeared", "gone"}
  /\ refreshTime \in {0} \cup MIN_REFRESH_TIME .. MAX_REFRESH_TIME
  /\ isTaskRunning \in BOOLEAN
  /\ timeoutId \in 0 .. MaxTimers
  /\ timers \subseteq 1 .. MaxTimers
  /\ rowArea \in Area \cup {"unknown"}
  /\ asked \in 0 .. MaxLoads /\ answers \in 0 .. MaxAnswers
  /\ isFirstLoad \in BOOLEAN /\ showComponent \in BOOLEAN
  /\ ads \in 0 .. MaxLoads /\ want \in 0 .. MaxLoads
  /\ told \in [Status -> Nat]
  /\ threw \in BOOLEAN

Init ==
  /\ UiInit
  /\ life = "new" /\ refreshTime = 0
  /\ isTaskRunning = FALSE /\ timeoutId = 0 /\ timers = {}
  /\ rowArea = "unknown"
  /\ asked = 0 /\ answers = 0
  /\ isFirstLoad = TRUE /\ showComponent = FALSE
  /\ ads = 0 /\ want = 0
  /\ told = [s \in Status |-> 0] /\ threw = FALSE

-----------------------------------------------------------------------------
(* The timer.                                                              *)

(* initRefreshTime.                                                        *)
InitRefreshTime(t) ==
  IF t <= 0 THEN 0
  ELSE IF t < MIN_REFRESH_TIME THEN MIN_REFRESH_TIME
  ELSE IF t > MAX_REFRESH_TIME THEN MAX_REFRESH_TIME
  ELSE t

(* refreshAd: pending are the timers there are, period is refreshTime.     *)
RefreshAd(pending, period) ==
  IF period # 0
    THEN /\ timeoutId < MaxTimers
         /\ isTaskRunning' = TRUE
         /\ timeoutId' = timeoutId + 1
         /\ timers' = pending \cup {timeoutId + 1}
    ELSE timers' = pending /\ UNCHANGED <<isTaskRunning, timeoutId>>

(* loadAd: the request is handed to the loader, and the timer set.         *)
LoadAd(pending, period) ==
  /\ asked < MaxLoads
  /\ asked' = asked + 1
  /\ RefreshAd(pending, period)

(* clearTimeout(timeoutId), and the task is over.                          *)
StopTask ==
  /\ timers' = timers \ {timeoutId}
  /\ isTaskRunning' = FALSE

(* aboutToAppear.                                                          *)
Appear(t) ==
  /\ life = "new"
  /\ life' = "appeared"
  /\ refreshTime' = InitRefreshTime(t)
  /\ LoadAd(timers, InitRefreshTime(t))
  /\ UNCHANGED <<uiVars, rowArea, answers, showVars, toldVars>>

(* The callback of a timer.                                                *)
TimerFires ==
  /\ \E id \in timers : LoadAd(timers \ {id}, refreshTime)
  /\ UNCHANGED <<uiVars, life, refreshTime, rowArea, answers, showVars, toldVars>>

(* Fault: the task is not marked as ended.                                 *)
Hidden_StillRunning ==
  /\ life = "appeared"
  /\ rowArea' = "hidden"
  /\ timers' = timers \ {timeoutId}
  /\ UNCHANGED <<uiVars, life, refreshTime, isTaskRunning, timeoutId, asked, answers, showVars, toldVars>>

(* visibleAreaChange with nothing to be seen.                              *)
Hidden ==
  /\ life = "appeared"
  /\ rowArea' = "hidden"
  /\ StopTask
  /\ UNCHANGED <<uiVars, life, refreshTime, timeoutId, asked, answers, showVars, toldVars>>

(* Fault: the timer is set again although one runs.                        *)
Shown_SetsAgain ==
  /\ life = "appeared"
  /\ rowArea' = "shown"
  /\ RefreshAd(timers, refreshTime)
  /\ UNCHANGED <<uiVars, life, refreshTime, asked, answers, showVars, toldVars>>

(* visibleAreaChange with 0.9 or more to be seen; any other does nothing.  *)
Shown ==
  /\ life = "appeared"
  /\ rowArea' = "shown"
  /\ IF isTaskRunning THEN UNCHANGED <<isTaskRunning, timeoutId, timers>>
     ELSE RefreshAd(timers, refreshTime)
  /\ UNCHANGED <<uiVars, life, refreshTime, asked, answers, showVars, toldVars>>

(* aboutToDisappear.                                                       *)
Disappear ==
  /\ life = "appeared"
  /\ life' = "gone"
  /\ IF timeoutId # 0 THEN StopTask ELSE UNCHANGED <<timers, isTaskRunning>>
  /\ UNCHANGED <<uiVars, refreshTime, timeoutId, rowArea, asked, answers, showVars, toldVars>>

-----------------------------------------------------------------------------
(* Answers.                                                                *)

Tell(S) == told' = [s \in Status |-> IF s \in S THEN told[s] + 1 ELSE told[s]]

(* An answer to the call l of loadAd.                                      *)
Answer(l) ==
  /\ l <= asked
  /\ answers < MaxAnswers
  /\ answers' = answers + 1
  /\ UNCHANGED <<uiVars, life, timerVars, rowArea, asked>>

(* onAdLoadFailure.                                                        *)
LoadFails(l) ==
  /\ Answer(l)
  /\ Tell({"onAdFail"})
  /\ UNCHANGED <<showVars, threw>>

(* onSingleSlotAdLoadSuccessProxy catches what onAdLoadSuccess throws and  *)
(* calls onAdLoadFailure: by then the success has been told.               *)
TellBoth == Tell({"onAdLoad", "onAdFail"})

(* onAdLoadSuccess: the application's onStatusChanged throws when it is    *)
(* told of the success, and the rest is left out.                          *)
ListenerThrows(l) ==
  /\ Answer(l)
  /\ TellBoth /\ threw' = TRUE
  /\ UNCHANGED showVars

(* getConfigJsonData and setWant: want is assigned if the configuration    *)
(* file could be read.                                                     *)
SetWant(l) == want' \in {l, want}

(* onAdLoadSuccess of the first ads; looking for the configuration file is *)
(* outside of the try of getConfigJsonData, and may throw.                 *)
FirstAds(l) ==
  /\ isFirstLoad
  /\ Answer(l)
  /\ threw' = FALSE
  /\ ads' = l
  /\ showComponent' = TRUE
  /\ isFirstLoad' = FALSE
  /\ \/ Tell({"onAdLoad"}) /\ SetWant(l)
     \/ TellBoth /\ UNCHANGED want

(* onAdLoadSuccess of later ads, sent to the extension while the task      *)
(* runs; a call of send may throw, and one without a proxy does.           *)
LaterAds(l) ==
  /\ ~isFirstLoad
  /\ Answer(l)
  /\ threw' = FALSE
  /\ UNCHANGED <<isFirstLoad, showComponent, want>>
  /\ \/ ~isTaskRunning /\ Tell({"onAdLoad"}) /\ UNCHANGED ads
     \/ isTaskRunning /\ remoteProxy /\ Tell({"onAdLoad"}) /\ ads' = l
     \/ /\ isTaskRunning
        /\ ~remoteProxy \/ extension = "dead"
        /\ TellBoth
        /\ UNCHANGED ads

-----------------------------------------------------------------------------
(* The extension, created with want when the component is first shown.     *)

UiStep == showComponent /\ UNCHANGED <<life, timerVars, rowArea, asked, answers, showVars>>

OnRemoteReady == want # 0 /\ UiStep /\ RemoteReady /\ UNCHANGED toldVars

OnReceiverRegister == UiStep /\ ReceiverRegisters /\ UNCHANGED toldVars

OnUiAreaChange == UiStep /\ life = "appeared" /\ (\E a \in Area : UiAreaChange(a)) /\ UNCHANGED toldVars

OnError == UiStep /\ ExtensionDies /\ Tell({"onAdClose"}) /\ UNCHANGED threw

-----------------------------------------------------------------------------

Next ==
  \/ \E t \in RefreshTime : Appear(t)
  \/ TimerFires \/ Hidden \/ Shown \/ Disappear
  \/ \E l \in 1 .. MaxLoads : LoadFails(l) \/ ListenerThrows(l) \/ FirstAds(l) \/ LaterAds(l)
  \/ OnRemoteReady \/ OnReceiverRegister \/ OnUiAreaChange \/ OnError

Spec == Init /\ [][Next]_vars

(* Timers of the event loop fire.                                          *)
FairSpec == Spec /\ WF_vars(TimerFires)

-----------------------------------------------------------------------------

(* The component is to refresh itself, and is not reported hidden.         *)
Refreshing == life = "appeared" /\ isAutoRefresh /\ rowArea # "hidden"

(* isTaskRunning says whether a timer is pending, there is never a second  *)
(* one, the pending one is the one timeoutId would clear, and there is one *)
(* exactly while the component is to refresh itself: none once it was      *)
(* reported hidden or has disappeared, and none lost by hiding and showing *)
(* it in any order.                                                        *)
OneTimer ==
  /\ timers \subseteq {timeoutId}
  /\ isTaskRunning <=> timers # {}
  /\ Refreshing <=> timers # {}

(* An answer is told as a success and as a failure only if no extension    *)
(* was there to take the ads, or if the application itself threw when it   *)
(* was told of the success; then it is not a failure to load.              *)
ToldOneWay ==
  [][told'["onAdLoad"] > told["onAdLoad"] /\ told'["onAdFail"] > told["onAdFail"]
       => extension \in {"none", "dead"} \/ threw']_vars

(* Behind it: the extension is created with the first ads, and its proxy   *)
(* is kept for good.                                                       *)
ExtensionInv ==
  /\ isFirstLoad => ~showComponent
  /\ ~showComponent => extension = "none"
  /\ remoteProxy <=> extension # "none"

(* A component that refreshes itself and is not reported hidden goes on    *)
(* loading, to the bounds, however often it was hidden and shown before.   *)
LoadsAgain == Refreshing ~> ~Refreshing \/ asked = MaxLoads \/ timeoutId = MaxTimers
=============================================================================
