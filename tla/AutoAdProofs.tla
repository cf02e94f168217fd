----------------------------- MODULE AutoAdProofs -----------------------------
(***************************************************************************)
(* Theorems about AutoAd, for any refresh times and bounds.                *)
(***************************************************************************)
EXTENDS AutoAd, TLAPS

(* Nothing is seen of a component before it appears.                       *)
TimerInv ==
  /\ OneTimer
  /\ life = "new" => rowArea = "unknown"

-----------------------------------------------------------------------------

LEMMA RefreshTimeType ==
  ASSUME NEW t \in Int
  PROVE  InitRefreshTime(t) \in {0} \cup MIN_REFRESH_TIME .. MAX_REFRESH_TIME
<1>1. MIN_REFRESH_TIME \in Int /\ MAX_REFRESH_TIME \in Int /\ MIN_REFRESH_TIME <= MAX_REFRESH_TIME
  BY DEF MIN_REFRESH_TIME, MAX_REFRESH_TIME
<1>2. CASE t <= 0
  BY <1>2 DEF InitRefreshTime
<1>3. CASE 0 < t /\ t < MIN_REFRESH_TIME
  BY <1>1, <1>3 DEF InitRefreshTime
<1>4. CASE 0 < t /\ ~(t < MIN_REFRESH_TIME)
  BY <1>1, <1>4 DEF InitRefreshTime
<1> QED
  BY <1>2, <1>3, <1>4

TimerType ==
  /\ refreshTime \in {0} \cup MIN_REFRESH_TIME .. MAX_REFRESH_TIME
  /\ isTaskRunning \in BOOLEAN
  /\ timeoutId \in 0 .. MaxTimers
  /\ timers \subseteq 1 .. MaxTimers
  /\ asked \in 0 .. MaxLoads

LEMMA RefreshAdType ==
  ASSUME TimerType, NEW pending \in SUBSET (1 .. MaxTimers), NEW period, RefreshAd(pending, period)
  PROVE  /\ isTaskRunning' \in BOOLEAN
         /\ timeoutId' \in 0 .. MaxTimers
         /\ timers' \subseteq 1 .. MaxTimers
<1> USE AutoAdAssumption DEF TimerType
<1>1. CASE period # 0
  <2>1. timeoutId + 1 \in 1 .. MaxTimers
    BY <1>1 DEF RefreshAd
  <2>2. isTaskRunning' = TRUE /\ timeoutId' = timeoutId + 1 /\ timers' = pending \cup {timeoutId + 1}
    BY <1>1 DEF RefreshAd
  <2>3. timeoutId + 1 \in 0 .. MaxTimers
    BY <2>1
  <2> QED BY <2>1, <2>2, <2>3
<1>2. CASE period = 0
  BY <1>2 DEF RefreshAd
<1> QED
  BY <1>1, <1>2

LEMMA LoadAdType ==
  ASSUME TimerType, NEW pending \in SUBSET (1 .. MaxTimers), NEW period, LoadAd(pending, period)
  PROVE  /\ isTaskRunning' \in BOOLEAN
         /\ timeoutId' \in 0 .. MaxTimers
         /\ timers' \subseteq 1 .. MaxTimers
         /\ asked' \in 0 .. MaxLoads
<1>1. asked' \in 0 .. MaxLoads
  BY AutoAdAssumption DEF LoadAd, TimerType
<1> QED
  BY <1>1, RefreshAdType DEF LoadAd

LEMMA TellType ==
  ASSUME TypeOK, NEW S, Tell(S) PROVE told' \in [Status -> Nat]
BY DEF Tell, TypeOK

LEMMA AutoTypeStep == TypeOK /\ [Next]_vars => TypeOK'
<1> SUFFICES ASSUME TypeOK, [Next]_vars PROVE TypeOK'
  OBVIOUS
<1>t. TimerType
  BY DEF TypeOK, TimerType
<1>1. ASSUME NEW t \in RefreshTime, Appear(t) PROVE TypeOK'
  <2>1. t \in Int
    BY AutoAdAssumption
  <2>2. refreshTime' \in {0} \cup MIN_REFRESH_TIME .. MAX_REFRESH_TIME
    BY <1>1, <2>1, RefreshTimeType DEF Appear
  <2>3. /\ isTaskRunning' \in BOOLEAN /\ timeoutId' \in 0 .. MaxTimers
        /\ timers' \subseteq 1 .. MaxTimers /\ asked' \in 0 .. MaxLoads
    BY <1>1, <1>t, LoadAdType DEF Appear, TimerType
  <2> QED BY <1>1, <2>2, <2>3 DEF Appear, TypeOK, UiTypeOK, uiVars, showVars, toldVars
<1>2. ASSUME TimerFires PROVE TypeOK'
  <2>1. PICK id \in timers : LoadAd(timers \ {id}, refreshTime)
    BY <1>2 DEF TimerFires
  <2>2. /\ isTaskRunning' \in BOOLEAN /\ timeoutId' \in 0 .. MaxTimers
        /\ timers' \subseteq 1 .. MaxTimers /\ asked' \in 0 .. MaxLoads
    BY <1>t, <2>1, LoadAdType DEF TimerType
  <2> QED BY <1>2, <2>2 DEF TimerFires, TypeOK, UiTypeOK, uiVars, showVars, toldVars
<1>3. ASSUME Hidden \/ Disappear PROVE TypeOK'
  <2>1. timers' \subseteq timers /\ isTaskRunning' \in BOOLEAN
    BY <1>3 DEF Hidden, Disappear, StopTask, TypeOK
  <2>2. life' \in {"new", "appeared", "gone"} /\ rowArea' \in Area \cup {"unknown"}
    BY <1>3 DEF Hidden, Disappear, TypeOK, Area
  <2>3. UNCHANGED <<uiVars, refreshTime, timeoutId, asked, answers, showVars, toldVars>>
    BY <1>3 DEF Hidden, Disappear
  <2> QED BY <2>1, <2>2, <2>3 DEF TypeOK, UiTypeOK, uiVars, showVars, toldVars
<1>4. ASSUME Shown PROVE TypeOK'
  <2>1. /\ isTaskRunning' \in BOOLEAN /\ timeoutId' \in 0 .. MaxTimers
        /\ timers' \subseteq 1 .. MaxTimers
    <3>1. CASE isTaskRunning
      BY <1>4, <3>1 DEF Shown, TypeOK
    <3>2. CASE ~isTaskRunning
      BY <1>4, <1>t, <3>2, RefreshAdType DEF Shown, TimerType
    <3> QED BY <3>1, <3>2
  <2> QED BY <1>4, <2>1 DEF Shown, TypeOK, UiTypeOK, uiVars, showVars, toldVars, Area
<1>5. ASSUME NEW l \in 1 .. MaxLoads,
             LoadFails(l) \/ ListenerThrows(l) \/ FirstAds(l) \/ LaterAds(l)
      PROVE  TypeOK'
  <2>1. answers' \in 0 .. MaxAnswers
    BY <1>5, AutoAdAssumption DEF LoadFails, ListenerThrows, FirstAds, LaterAds, Answer, TypeOK
  <2>2. told' \in [Status -> Nat] /\ threw' \in BOOLEAN
    BY <1>5, TellType DEF LoadFails, ListenerThrows, FirstAds, LaterAds, TellBoth, TypeOK
  <2>3. /\ isFirstLoad' \in BOOLEAN /\ showComponent' \in BOOLEAN
        /\ ads' \in 0 .. MaxLoads /\ want' \in 0 .. MaxLoads
    <3>1. l \in 0 .. MaxLoads
      BY AutoAdAssumption
    <3>2. /\ isFirstLoad \in BOOLEAN /\ showComponent \in BOOLEAN
          /\ ads \in 0 .. MaxLoads /\ want \in 0 .. MaxLoads
      BY DEF TypeOK
    <3>3. CASE LoadFails(l) \/ ListenerThrows(l)
      BY <3>2, <3>3 DEF LoadFails, ListenerThrows, showVars
    <3>4. CASE FirstAds(l)
      BY <3>1, <3>2, <3>4 DEF FirstAds, SetWant
    <3>5. CASE LaterAds(l)
      BY <3>1, <3>2, <3>5 DEF LaterAds
    <3> QED BY <1>5, <3>3, <3>4, <3>5
  <2>4. UNCHANGED <<uiVars, life, timerVars, rowArea, asked>>
    BY <1>5 DEF LoadFails, ListenerThrows, FirstAds, LaterAds, Answer
  <2> QED BY <2>1, <2>2, <2>3, <2>4 DEF TypeOK, UiTypeOK, uiVars, timerVars
<1>6. ASSUME OnRemoteReady \/ OnReceiverRegister \/ OnUiAreaChange \/ OnError PROVE TypeOK'
  <2>1. told' \in [Status -> Nat] /\ threw' = threw
    BY <1>6, TellType DEF OnRemoteReady, OnReceiverRegister, OnUiAreaChange, OnError, TypeOK, toldVars
  <2>2. UNCHANGED <<life, timerVars, rowArea, asked, answers, showVars>>
    BY <1>6 DEF OnRemoteReady, OnReceiverRegister, OnUiAreaChange, OnError, UiStep
  <2>3. UiTypeOK'
    <3>0. UiTypeOK
      BY DEF TypeOK
    <3>1. ASSUME NEW a \in Area, UiAreaChange(a) PROVE UiTypeOK'
      BY <3>0, <3>1 DEF UiAreaChange, InGap, UiTypeOK
    <3>2. ASSUME RemoteReady \/ ReceiverRegisters \/ ExtensionDies PROVE UiTypeOK'
      BY <3>0, <3>2 DEF RemoteReady, ReceiverRegisters, ExtensionDies, UiTypeOK, Extension
    <3> QED BY <1>6, <3>1, <3>2 DEF OnRemoteReady, OnReceiverRegister, OnUiAreaChange, OnError
  <2> QED BY <2>1, <2>2, <2>3 DEF TypeOK, timerVars, showVars
<1>7. CASE UNCHANGED vars
  BY <1>7 DEF vars, TypeOK, UiTypeOK, uiVars, timerVars, showVars, toldVars
<1> QED
  BY <1>1, <1>2, <1>3, <1>4, <1>5, <1>6, <1>7 DEF Next

(* refreshAd where no timer is pending.                                    *)
LEMMA RefreshAdTimers ==
  ASSUME NEW period, RefreshAd({}, period)
  PROVE  /\ timers' \subseteq {timeoutId'}
         /\ period # 0 => timers' # {} /\ isTaskRunning' = TRUE
         /\ period = 0 => timers' = {} /\ isTaskRunning' = isTaskRunning
BY DEF RefreshAd

LEMMA TimerStep == TypeOK /\ TimerInv /\ [Next]_vars => TimerInv'
<1> SUFFICES ASSUME TypeOK, TimerInv, [Next]_vars PROVE TimerInv'
  OBVIOUS
<1>1. ASSUME NEW t \in RefreshTime, Appear(t) PROVE TimerInv'
  <2>1. timers = {} /\ rowArea = "unknown" /\ ~isTaskRunning
    BY <1>1 DEF Appear, TimerInv, OneTimer, Refreshing, isAutoRefresh
  <2>2. RefreshAd({}, refreshTime')
    BY <1>1, <2>1 DEF Appear, LoadAd
  <2>3. life' = "appeared" /\ rowArea' = rowArea
    BY <1>1 DEF Appear
  <2> QED BY <2>1, <2>2, <2>3, RefreshAdTimers DEF TimerInv, OneTimer, Refreshing, isAutoRefresh
<1>2. ASSUME TimerFires PROVE TimerInv'
  <2>1. PICK id \in timers : LoadAd(timers \ {id}, refreshTime)
    BY <1>2 DEF TimerFires
  <2>2. timers \ {id} = {} /\ refreshTime # 0
    BY <2>1 DEF TimerInv, OneTimer, Refreshing, isAutoRefresh
  <2>3. RefreshAd({}, refreshTime)
    BY <2>1, <2>2 DEF LoadAd
  <2>4. UNCHANGED <<life, refreshTime, rowArea>>
    BY <1>2 DEF TimerFires
  <2>5. ~(rowArea = "hidden" \/ life = "gone" \/ life = "new")
    BY <2>1 DEF TimerInv, OneTimer, Refreshing, isAutoRefresh
  <2> QED BY <2>2, <2>3, <2>4, <2>5, RefreshAdTimers DEF TimerInv, OneTimer, Refreshing, isAutoRefresh
<1>3. ASSUME Hidden PROVE TimerInv'
  BY <1>3 DEF Hidden, StopTask, TimerInv, OneTimer, Refreshing, isAutoRefresh
<1>4. ASSUME Shown PROVE TimerInv'
  <2>1. life' = "appeared" /\ rowArea' = "shown" /\ refreshTime' = refreshTime
    BY <1>4 DEF Shown
  <2>2. CASE isTaskRunning
    BY <1>4, <2>1, <2>2 DEF Shown, TimerInv, OneTimer, Refreshing, isAutoRefresh
  <2>3. CASE ~isTaskRunning
    <3>1. timers = {}
      BY <2>3 DEF TimerInv, OneTimer, Refreshing, isAutoRefresh
    <3>2. RefreshAd({}, refreshTime)
      BY <1>4, <2>3, <3>1 DEF Shown
    <3> QED BY <2>1, <2>3, <3>2, RefreshAdTimers DEF TimerInv, OneTimer, Refreshing, isAutoRefresh
  <2> QED BY <2>2, <2>3
<1>5. ASSUME Disappear PROVE TimerInv'
  <2>1. life' = "gone" /\ UNCHANGED <<refreshTime, timeoutId, rowArea>>
    BY <1>5 DEF Disappear
  <2>2. timeoutId = 0 => timers = {}
    BY DEF TimerInv, OneTimer, Refreshing, isAutoRefresh, TypeOK
  <2>3. timers' = {} /\ ~isTaskRunning'
    BY <1>5, <2>2 DEF Disappear, StopTask, TimerInv, OneTimer, Refreshing, isAutoRefresh
  <2> QED BY <2>1, <2>3 DEF TimerInv, OneTimer, Refreshing, isAutoRefresh
<1>6. CASE UNCHANGED <<life, timerVars, rowArea>>
  BY <1>6 DEF timerVars, TimerInv, OneTimer, Refreshing, isAutoRefresh
<1>7. \/ \E t \in RefreshTime : Appear(t)
      \/ TimerFires \/ Hidden \/ Shown \/ Disappear
      \/ UNCHANGED <<life, timerVars, rowArea>>
  BY DEF Next, LoadFails, ListenerThrows, FirstAds, LaterAds, Answer, OnRemoteReady, OnReceiverRegister,
         OnUiAreaChange, OnError, UiStep, vars
<1> QED
  BY <1>1, <1>2, <1>3, <1>4, <1>5, <1>6, <1>7

LEMMA UiInvStep == ExtensionInv /\ UiInv /\ [Next]_vars => UiInv'
<1> SUFFICES ASSUME ExtensionInv, UiInv, [Next]_vars PROVE UiInv'
  OBVIOUS
<1> USE DEF UiInv, RemoteSeesArea
<1>1. CASE UNCHANGED uiVars
  BY <1>1 DEF uiVars
<1>2. CASE RemoteReady
  BY <1>2 DEF RemoteReady
<1>3. CASE ReceiverRegisters
  BY <1>3 DEF ReceiverRegisters
<1>4. ASSUME NEW a \in Area, UiAreaChange(a) PROVE UiInv'
  BY <1>4 DEF UiAreaChange, InGap
<1>5. CASE ExtensionDies
  BY <1>5 DEF ExtensionDies
<1>6. \/ UNCHANGED uiVars \/ RemoteReady \/ ReceiverRegisters \/ ExtensionDies
      \/ \E a \in Area : UiAreaChange(a)
  BY DEF Next, Appear, TimerFires, Hidden, Shown, Disappear, LoadFails, ListenerThrows, FirstAds,
         LaterAds, Answer, OnRemoteReady, OnReceiverRegister, OnUiAreaChange, OnError, vars
<1> QED
  BY <1>1, <1>2, <1>3, <1>4, <1>5, <1>6

LEMMA ExtensionStep == ExtensionInv /\ [Next]_vars => ExtensionInv'
<1> SUFFICES ASSUME ExtensionInv, [Next]_vars PROVE ExtensionInv'
  OBVIOUS
<1> USE DEF ExtensionInv
<1>1. CASE UNCHANGED <<uiVars, isFirstLoad, showComponent>>
  BY <1>1 DEF uiVars
<1>2. ASSUME NEW l \in 1 .. MaxLoads, FirstAds(l) PROVE ExtensionInv'
  BY <1>2 DEF FirstAds, Answer, uiVars
<1>3. CASE UiStep /\ (RemoteReady \/ ReceiverRegisters \/ ExtensionDies \/ \E a \in Area : UiAreaChange(a))
  BY <1>3 DEF UiStep, showVars, RemoteReady, ReceiverRegisters, ExtensionDies, UiAreaChange
<1>4. \/ UNCHANGED <<uiVars, isFirstLoad, showComponent>>
      \/ \E l \in 1 .. MaxLoads : FirstAds(l)
      \/ UiStep /\ (RemoteReady \/ ReceiverRegisters \/ ExtensionDies \/ \E a \in Area : UiAreaChange(a))
  BY DEF Next, Appear, TimerFires, Hidden, Shown, Disappear, LoadFails, ListenerThrows,
         LaterAds, Answer, OnRemoteReady, OnReceiverRegister, OnUiAreaChange, OnError, vars, showVars
<1> QED
  BY <1>1, <1>2, <1>3, <1>4

AutoInv == TypeOK /\ TimerInv /\ UiInv /\ ExtensionInv

(* Types are kept, the refresh time within its limits among them, and the  *)
(* invariants behind the theorems below hold.                              *)
THEOREM AutoAdInvariant == Spec => []AutoInv
<1>1. Init => AutoInv
  <2> SUFFICES ASSUME Init PROVE AutoInv
    OBVIOUS
  <2>1. TypeOK
    <3>1. 0 \in 0 .. MaxTimers /\ 0 \in 0 .. MaxLoads /\ 0 \in 0 .. MaxAnswers
      BY AutoAdAssumption
    <3>2. UiTypeOK
      BY DEF Init, UiInit, UiTypeOK, Extension, Area
    <3>3. told \in [Status -> Nat]
      BY DEF Init
    <3> QED BY <3>1, <3>2, <3>3 DEF Init, TypeOK
  <2>2. TimerInv /\ UiInv /\ ExtensionInv
    BY DEF Init, UiInit, TimerInv, OneTimer, Refreshing, UiInv, RemoteSeesArea, ExtensionInv
  <2> QED BY <2>1, <2>2 DEF AutoInv
<1>2. AutoInv /\ [Next]_vars => AutoInv'
  BY AutoTypeStep, TimerStep, UiInvStep, ExtensionStep DEF AutoInv
<1> QED
  BY <1>1, <1>2, PTL DEF Spec

(* One timer at most is pending, the one timeoutId would clear, and there  *)
(* is one exactly while the component is to refresh itself.                *)
THEOREM OneTimerCorrect == Spec => []OneTimer
<1>1. AutoInv => OneTimer
  BY DEF AutoInv, TimerInv
<1> QED
  BY <1>1, AutoAdInvariant, PTL

(* An extension that listens knows what is seen of it, but for the gap     *)
(* between its proxy and its receiver: AutoAdComponent keeps its proxy.    *)
THEOREM RemoteSeesAreaCorrect == Spec => []RemoteSeesArea
<1>1. AutoInv => RemoteSeesArea
  BY DEF AutoInv, UiInv
<1> QED
  BY <1>1, AutoAdInvariant, PTL

(* One answer is told as a success and as a failure only if no extension   *)
(* was there to take its ads, or if the application threw when told of the *)
(* success.                                                                *)
THEOREM ToldOneWayCorrect == Spec => ToldOneWay
<1> DEFINE OneWay ==
      told'["onAdLoad"] > told["onAdLoad"] /\ told'["onAdFail"] > told["onAdFail"]
        => extension \in {"none", "dead"} \/ threw'
<1>1. AutoInv /\ [Next]_vars => [OneWay]_vars
  <2> SUFFICES ASSUME TypeOK, ExtensionInv, Next,
                      told'["onAdLoad"] > told["onAdLoad"], told'["onAdFail"] > told["onAdFail"]
               PROVE  extension \in {"none", "dead"} \/ threw'
    BY DEF AutoInv
  <2>t. /\ told["onAdLoad"] \in Nat /\ told["onAdFail"] \in Nat
        /\ "onAdLoad" \in Status /\ "onAdFail" \in Status
    BY DEF TypeOK, Status
  <2>1. ASSUME told' = told PROVE FALSE
    BY <2>1, <2>t
  <2>2. ASSUME NEW S \in SUBSET Status, Tell(S), ~({"onAdLoad", "onAdFail"} \subseteq S) PROVE FALSE
    <3>1. /\ told'["onAdLoad"] = IF "onAdLoad" \in S THEN told["onAdLoad"] + 1 ELSE told["onAdLoad"]
          /\ told'["onAdFail"] = IF "onAdFail" \in S THEN told["onAdFail"] + 1 ELSE told["onAdFail"]
      BY <2>2, <2>t DEF Tell
    <3> QED BY <2>2, <2>t, <3>1
  <2>3. {"onAdLoad"} \in SUBSET Status /\ {"onAdFail"} \in SUBSET Status /\ {"onAdClose"} \in SUBSET Status
    BY DEF Status
  <2>4. ASSUME NEW l \in 1 .. MaxLoads, LaterAds(l) PROVE extension \in {"none", "dead"}
    BY <2>2, <2>3, <2>4 DEF LaterAds, ExtensionInv
  <2>5. ASSUME NEW l \in 1 .. MaxLoads, FirstAds(l) PROVE extension = "none"
    BY <2>5 DEF FirstAds, ExtensionInv
  <2>6. ASSUME NEW l \in 1 .. MaxLoads, ListenerThrows(l) PROVE threw'
    BY <2>6 DEF ListenerThrows
  <2>7. ASSUME NEW l \in 1 .. MaxLoads, LoadFails(l) PROVE FALSE
    BY <2>2, <2>3, <2>7 DEF LoadFails
  <2>8. ASSUME OnError PROVE FALSE
    BY <2>2, <2>3, <2>8 DEF OnError
  <2>9. ASSUME \/ \E t \in RefreshTime : Appear(t)
               \/ TimerFires \/ Hidden \/ Shown \/ Disappear
               \/ OnRemoteReady \/ OnReceiverRegister \/ OnUiAreaChange
        PROVE  FALSE
    BY <2>1, <2>9 DEF Appear, TimerFires, Hidden, Shown, Disappear, OnRemoteReady,
                      OnReceiverRegister, OnUiAreaChange, toldVars
  <2> QED BY <2>4, <2>5, <2>6, <2>7, <2>8, <2>9 DEF Next
<1> QED
  BY <1>1, AutoAdInvariant, PTL DEF ToldOneWay, Spec
=============================================================================
