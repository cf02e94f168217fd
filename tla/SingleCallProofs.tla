---------------------------- MODULE SingleCallProofs ----------------------------
(***************************************************************************)
(* Theorems about the calls that stand alone: showAd (ShowAdSession), and  *)
(* parseAdResponse and invokeAsync (OneShotConnection), for any calls and  *)
(* any configuration files.                                                *)
(***************************************************************************)
EXTENDS ShowAdSession, OneShotConnection, FiniteSetTheorems, TLAPS

Made == {s \in Show : created[s] # 0}

(* Sessions are numbered in the order they are made.                       *)
NumbersOK ==
  /\ IsFiniteSet(Made)
  /\ \A s \in Show : created[s] <= Cardinality(Made)
  /\ \A s, t \in Show : created[s] # 0 /\ created[s] = created[t] => s = t

(* How far a call is fits its session and what its callbacks know of it.   *)
StageOK ==
  \A s \in Show :
    /\ created[s] # 0 <=> stage[s] \in {"creating", "shown"}
    /\ sessionId_[s] = IF stage[s] = "shown" THEN created[s] ELSE 0
    /\ created[s] = 0 => posted[s] = {} /\ heard[s] = {}

(* No session has the id 0, and no page outlives its window.               *)
PagesOK == 0 \notin modals /\ (~window => modals = {})

(* Unless its callback came early, which it does for CJ calls only.        *)
StaysClosed ==
  \A s \in Show :
    /\ Closing(s) /\ s \notin early => created[s] \notin modals
    /\ s \in early => s \in Cj /\ Closing(s)

ShowInv == NumbersOK /\ StageOK /\ PagesOK /\ StaysClosed

-----------------------------------------------------------------------------

LEMMA NewNumber ==
  ASSUME TypeOK, NumbersOK
  PROVE  Cardinality(Made) \in Nat
BY FS_CardinalityType DEF NumbersOK

LEMMA ShowTypeStep == TypeOK /\ ShowInv /\ [Next]_vars => TypeOK'
<1> SUFFICES ASSUME TypeOK, ShowInv, [Next]_vars PROVE TypeOK'
  OBVIOUS
<1> USE DEF TypeOK, Goto, Stage
<1>1. ASSUME NEW s \in Show, ShowAdThrows(s) \/ ShowAdEnds(s) \/ SetSessionId(s) PROVE TypeOK'
  BY <1>1 DEF ShowAdThrows, ShowAdEnds, SetSessionId
<1>2. ASSUME NEW s \in Show, CreateModalUIExtension(s) PROVE TypeOK'
  <2>1. Cardinality(Made) + 1 \in Nat
    BY NewNumber DEF ShowInv
  <2>2. /\ created' = [created EXCEPT ![s] = Cardinality(Made) + 1]
        /\ modals' = modals \cup {Cardinality(Made) + 1}
    BY <1>2 DEF CreateModalUIExtension, Made
  <2>3. \E names \in SUBSET Name : provider' = [provider EXCEPT ![s] = names]
    BY <1>2 DEF CreateModalUIExtension, GetAdConfigItem
  <2> QED BY <1>2, <2>1, <2>2, <2>3 DEF CreateModalUIExtension
<1>3. ASSUME NEW s \in Show, NEW e \in Event, ExtensionPosts(s, e) PROVE TypeOK'
  BY <1>3 DEF ExtensionPosts
<1>4. ASSUME NEW s \in Show, NEW e \in Event, Callback(s, e) PROVE TypeOK'
  <2>1. modals' \subseteq modals
    BY <1>4 DEF Callback, CloseModalUI
  <2> QED BY <1>4, <2>1 DEF Callback
<1>5. CASE WindowCloses
  BY <1>5 DEF WindowCloses
<1>6. CASE UNCHANGED vars
  BY <1>6 DEF vars
<1> QED
  BY <1>1, <1>2, <1>3, <1>4, <1>5, <1>6 DEF Next

(* Where no session is made, the numbers stay.                             *)
LEMMA NumbersStay == NumbersOK /\ created' = created => NumbersOK'
BY DEF NumbersOK, Made

LEMMA CreateStep ==
  ASSUME TypeOK, ShowInv, NEW s \in Show, CreateModalUIExtension(s)
  PROVE  ShowInv'
<1> DEFINE id == Cardinality(Made) + 1
<1>1. /\ created' = [created EXCEPT ![s] = id] /\ modals' = modals \cup {id}
      /\ stage[s] = "idle" /\ stage' = [stage EXCEPT ![s] = "creating"] /\ window
      /\ UNCHANGED <<sessionId_, window, posted, heard, early>>
  BY DEF CreateModalUIExtension, Begins, Goto, Made
<1>2. id \in Nat /\ id # 0 /\ Cardinality(Made) = id - 1
  BY NewNumber DEF ShowInv
<1>3. created[s] = 0 /\ sessionId_[s] = 0 /\ heard[s] = {} /\ posted[s] = {}
  BY <1>1 DEF ShowInv, StageOK
<1>4. \A t \in Show : created[t] <= id - 1 /\ created[t] \in Nat
  BY <1>2 DEF ShowInv, NumbersOK, TypeOK
<1>5. Made' = Made \cup {s} /\ s \notin Made
  <2> HIDE DEF id
  <2> QED BY <1>1, <1>2, <1>3 DEF Made, TypeOK
<1>6. Cardinality(Made') = id /\ IsFiniteSet(Made')
  <2>1. IsFiniteSet(Made)
    BY DEF ShowInv, NumbersOK
  <2>2. IsFiniteSet(Made \cup {s}) /\ Cardinality(Made \cup {s}) = Cardinality(Made) + 1
    BY <2>1, <1>5, FS_AddElement
  <2> QED BY <1>5, <2>2
<1> HIDE DEF id
<1>7. NumbersOK'
  <2>1. \A t \in Show : created'[t] = IF t = s THEN id ELSE created[t]
    BY <1>1 DEF TypeOK
  <2>2. \A t \in Show : created'[t] <= id
    BY <1>2, <1>4, <2>1
  <2>3. ASSUME NEW t \in Show, NEW u \in Show, created'[t] # 0, created'[t] = created'[u]
        PROVE  t = u
    BY <1>2, <1>4, <2>1, <2>3 DEF ShowInv, NumbersOK
  <2> QED BY <1>6, <2>2, <2>3 DEF NumbersOK
<1>8. StageOK'
  BY <1>1, <1>2, <1>3 DEF ShowInv, StageOK, TypeOK
<1>9. PagesOK'
  BY <1>1, <1>2 DEF ShowInv, PagesOK
<1>10. StaysClosed'
  <2>1. \A t \in Show : Closing(t)' <=> Closing(t)
    BY <1>1 DEF Closing, Registered
  <2>2. ASSUME NEW t \in Show, Closing(t), t \notin early PROVE created'[t] \notin modals'
    <3>1. t # s
      BY <1>3, <2>2 DEF Closing
    <3>2. created'[t] = created[t]
      BY <1>1, <3>1 DEF TypeOK
    <3> QED BY <1>1, <1>2, <1>4, <2>2, <3>2 DEF ShowInv, StaysClosed
  <2> QED BY <1>1, <2>1, <2>2 DEF ShowInv, StaysClosed
<1> QED
  BY <1>7, <1>8, <1>9, <1>10 DEF ShowInv

LEMMA CallbackStep ==
  ASSUME TypeOK, ShowInv, NEW s \in Show, NEW e \in Event, Callback(s, e)
  PROVE  ShowInv'
<1>1. /\ ~UiBusy /\ e \in posted[s]
      /\ posted' = [posted EXCEPT ![s] = @ \ {e}]
      /\ heard' = [heard EXCEPT ![s] = @ \cup {e}]
      /\ UNCHANGED <<stage, created, sessionId_, window>>
      /\ modals' \subseteq modals
  BY DEF Callback, CloseModalUI
<1>2. NumbersOK'
  BY <1>1, NumbersStay DEF ShowInv
<1>3. StageOK'
  BY <1>1 DEF ShowInv, StageOK, TypeOK
<1>4. PagesOK'
  BY <1>1 DEF ShowInv, PagesOK
<1>5. StaysClosed'
  <2>0. heard \in [Show -> SUBSET Event] /\ early \subseteq Show
    BY DEF TypeOK
  <2>1. \A t \in Show \ {s} : (Closing(t)' <=> Closing(t)) /\ (t \in early' <=> t \in early)
    BY <1>1, <2>0 DEF Callback, Closing, Registered
  <2>2. Closing(s)' <=> Closing(s) \/ e \in Registered(s)
    BY <1>1, <2>0 DEF Closing, Registered
  <2>3. s \in early' <=> s \in early \/ (e \in Registered(s) /\ stage[s] = "creating")
    BY DEF Callback
  <2>4. stage[s] \in {"creating", "shown"} /\ (stage[s] = "creating" => s \in Cj)
    BY <1>1 DEF ShowInv, StageOK, UiBusy
  <2>5. ASSUME NEW t \in Show, Closing(t)', t \notin early' PROVE created[t] \notin modals'
    <3>1. CASE t # s \/ Closing(t)
      BY <1>1, <2>1, <2>3, <2>5, <3>1 DEF ShowInv, StaysClosed
    <3>2. CASE t = s /\ ~Closing(t)
      <4>1. e \in Registered(s) /\ stage[s] = "shown"
        BY <2>2, <2>3, <2>4, <2>5, <3>2
      <4>2. sessionId_[s] = created[s]
        BY <4>1 DEF ShowInv, StageOK
      <4>3. modals' = IF window THEN modals \ {created[s]} ELSE modals
        BY <4>1, <4>2 DEF Callback, CloseModalUI
      <4> QED BY <3>2, <4>3 DEF ShowInv, PagesOK
    <3> QED BY <3>1, <3>2
  <2>6. ASSUME NEW t \in Show, t \in early' PROVE t \in Cj /\ Closing(t)'
    BY <2>1, <2>2, <2>3, <2>4, <2>6 DEF ShowInv, StaysClosed
  <2> QED BY <1>1, <2>5, <2>6 DEF StaysClosed
<1> QED
  BY <1>2, <1>3, <1>4, <1>5 DEF ShowInv

LEMMA ShowStep == TypeOK /\ ShowInv /\ [Next]_vars => ShowInv'
<1> SUFFICES ASSUME TypeOK, ShowInv, [Next]_vars PROVE ShowInv'
  OBVIOUS
<1>1. ASSUME NEW s \in Show, ShowAdThrows(s) \/ ShowAdEnds(s) PROVE ShowInv'
  <2>1. /\ stage[s] = "idle" /\ \E p \in {"thrown", "ended"} : stage' = [stage EXCEPT ![s] = p]
        /\ UNCHANGED <<created, sessionId_, modals, window, posted, heard, early>>
    BY <1>1 DEF ShowAdThrows, ShowAdEnds, Begins, Goto
  <2>2. StageOK'
    BY <2>1 DEF ShowInv, StageOK, TypeOK
  <2>3. PagesOK' /\ StaysClosed'
    BY <2>1 DEF ShowInv, PagesOK, StaysClosed, Closing, Registered
  <2> QED BY <2>1, <2>2, <2>3, NumbersStay DEF ShowInv
<1>2. ASSUME NEW s \in Show, CreateModalUIExtension(s) PROVE ShowInv'
  BY <1>2, CreateStep
<1>3. ASSUME NEW s \in Show, SetSessionId(s) PROVE ShowInv'
  <2>1. /\ stage[s] = "creating" /\ stage' = [stage EXCEPT ![s] = "shown"]
        /\ sessionId_' = [sessionId_ EXCEPT ![s] = created[s]]
        /\ UNCHANGED <<created, modals, window, posted, heard, early>>
    BY <1>3 DEF SetSessionId, Goto
  <2>2. StageOK'
    BY <2>1 DEF ShowInv, StageOK, TypeOK
  <2>3. PagesOK' /\ StaysClosed'
    BY <2>1 DEF ShowInv, PagesOK, StaysClosed, Closing, Registered
  <2> QED BY <2>1, <2>2, <2>3, NumbersStay DEF ShowInv
<1>4. ASSUME NEW s \in Show, NEW e \in Event, ExtensionPosts(s, e) PROVE ShowInv'
  <2>1. /\ created[s] # 0 /\ posted' = [posted EXCEPT ![s] = @ \cup {e}]
        /\ UNCHANGED <<stage, created, sessionId_, modals, window, heard, early>>
    BY <1>4 DEF ExtensionPosts
  <2>2. StageOK'
    BY <2>1 DEF ShowInv, StageOK, TypeOK
  <2>3. PagesOK' /\ StaysClosed'
    BY <2>1 DEF ShowInv, PagesOK, StaysClosed, Closing, Registered
  <2> QED BY <2>1, <2>2, <2>3, NumbersStay DEF ShowInv
<1>5. ASSUME NEW s \in Show, NEW e \in Event, Callback(s, e) PROVE ShowInv'
  BY <1>5, CallbackStep
<1>6. CASE WindowCloses
  <2>1. modals' = {} /\ UNCHANGED <<stage, created, sessionId_, posted, heard, early>>
    BY <1>6 DEF WindowCloses
  <2>2. StageOK' /\ PagesOK' /\ StaysClosed'
    BY <2>1 DEF ShowInv, StageOK, PagesOK, StaysClosed, Closing, Registered
  <2> QED BY <2>1, <2>2, NumbersStay DEF ShowInv
<1>7. CASE UNCHANGED vars
  <2>1. StageOK' /\ PagesOK' /\ StaysClosed' /\ created' = created
    BY <1>7 DEF vars, ShowInv, StageOK, PagesOK, StaysClosed, Closing, Registered
  <2> QED BY <2>1, NumbersStay DEF ShowInv
<1> QED
  BY <1>1, <1>2, <1>3, <1>4, <1>5, <1>6, <1>7 DEF Next

(* Types are kept, and the invariant behind the theorems below holds.      *)
THEOREM ShowInvariant == Spec => [](TypeOK /\ ShowInv)
<1>1. Init => TypeOK /\ ShowInv
  <2> SUFFICES ASSUME Init PROVE TypeOK /\ ShowInv
    OBVIOUS
  <2>1. TypeOK
    BY DEF Init, TypeOK, Stage
  <2>2. Made = {} /\ IsFiniteSet({}) /\ Cardinality({}) = 0
    BY FS_EmptySet DEF Init, Made
  <2>3. NumbersOK
    BY <2>2 DEF Init, NumbersOK
  <2>4. StageOK /\ PagesOK /\ StaysClosed
    BY DEF Init, StageOK, PagesOK, StaysClosed, Closing
  <2> QED BY <2>1, <2>3, <2>4 DEF ShowInv
<1>2. TypeOK /\ ShowInv /\ [Next]_vars => (TypeOK /\ ShowInv)'
  BY ShowTypeStep, ShowStep
<1> QED
  BY <1>1, <1>2, PTL DEF Spec

(* Every callback closes the page of its own session, unless it ran before *)
(* SetSessionId, which no callback of a call from JavaScript does.         *)
THEOREM ClosedOnceHeardCorrect == Spec => []ClosedOnceHeard
<1>1. TypeOK /\ ShowInv => ClosedOnceHeard
  BY DEF ShowInv, NumbersOK, StageOK, StaysClosed, ClosedOnceHeard
<1> QED
  BY <1>1, ShowInvariant, PTL

(* A page is closed by nothing but a callback of its own session, or with  *)
(* its window.                                                             *)
THEOREM ClosedByOwnCallbackCorrect == Spec => ClosedByOwnCallback
<1>1. (TypeOK /\ ShowInv) /\ [Next]_vars
        => [\A s \in Show : created[s] \in modals \ modals' => Closing(s)' \/ ~window']_vars
  <2> SUFFICES ASSUME TypeOK, ShowInv, Next, NEW s \in Show, created[s] \in modals \ modals'
               PROVE  Closing(s)' \/ ~window'
    OBVIOUS
  <2>1. CASE WindowCloses
    BY <2>1 DEF WindowCloses
  <2>2. ASSUME NEW t \in Show, NEW e \in Event, Callback(t, e) PROVE Closing(s)'
    <3>1. e \in Registered(t) /\ created[s] = sessionId_[t]
      BY <2>2 DEF Callback, CloseModalUI
    <3>2. created[s] # 0
      BY DEF ShowInv, PagesOK
    <3>3. created[s] = created[t]
      BY <3>1, <3>2 DEF ShowInv, StageOK
    <3>4. s = t
      BY <3>2, <3>3 DEF ShowInv, NumbersOK
    <3>5. e \in heard'[s]
      BY <2>2, <3>4 DEF Callback, TypeOK
    <3> QED BY <3>1, <3>4, <3>5 DEF Closing, Registered
  <2>3. ASSUME NEW t \in Show,
               \/ ShowAdThrows(t) \/ ShowAdEnds(t) \/ SetSessionId(t)
               \/ CreateModalUIExtension(t) \/ \E e \in Event : ExtensionPosts(t, e)
        PROVE  FALSE
    BY <2>3 DEF ShowAdThrows, ShowAdEnds, SetSessionId, CreateModalUIExtension, ExtensionPosts
  <2> QED BY <2>1, <2>2, <2>3 DEF Next
<1> QED
  BY <1>1, ShowInvariant, PTL DEF ClosedByOwnCallback, Spec
-----------------------------------------------------------------------------
(* OneShotConnection: parseAdResponse and the JavaScript bridge.           *)

(* A call's end, its connection and what its callback was given.           *)
EndOK(c) ==
  /\ result[c] = "none" => link[c] = "none" /\ told[c] = <<>>
  /\ link[c] # "none" =>
       /\ result[c] = "returned"
       /\ c \in Page => asked[c].hears = "callable"
       /\ \A i \in DOMAIN told[c] : told[c][i] # NullReport
  /\ link[c] = "none" =>
       /\ \A i \in DOMAIN told[c] : told[c][i] = NullReport
       /\ Len(told[c]) <= 2
       /\ result[c] = "returned" /\ told[c] = <<>> =>
            c \in Page /\ (asked[c].text # "ok" \/ asked[c].hears # "callable")
  /\ link[c] \notin {"sent", "down"} => replies[c] = <<>>

(* Where each answer of a call is: on its way, heard, or one that nobody   *)
(* can hear; what was heard of it, and what the provider got for it.       *)
AnswerOK(c) ==
  /\ \A m \in inbox : m.call = c =>
       /\ m.no \in DOMAIN replies[c]
       /\ \A i \in DOMAIN told[c] : told[c][i].no # m.no
  /\ \A i \in DOMAIN told[c] : told[c][i] = NullReport \/ SaysWhatItIs(c, told[c][i])
  /\ \A i, j \in DOMAIN told[c] :
       told[c][i].no = told[c][j].no /\ told[c][i].no # 0 => i = j
  /\ acks[c] \subseteq DOMAIN replies[c]
  /\ \A no \in acks[c] :
       asked[c].hears = "undefined" \/ \E i \in DOMAIN told[c] : told[c][i].no = no
  /\ \A no \in DOMAIN replies[c] :
       \/ \E m \in inbox : m.call = c /\ m.no = no
       \/ told[c] # <<>>
       \/ asked[c].hears # "callable"
       \/ Unreadable(c, replies[c][no])

CallOK(c) == EndOK(c) /\ AnswerOK(c)

OneShotInv == \A c \in Call : CallOK(c)

(* What is known of a call that has not been made.                         *)
LEMMA NotMade ==
  ASSUME OneShotTypeOK, NEW c \in Call, CallOK(c), result[c] = "none"
  PROVE  /\ link[c] = "none" /\ told[c] = <<>> /\ replies[c] = <<>> /\ acks[c] = {}
         /\ \A m \in inbox : m.call # c
BY DEF CallOK, EndOK, AnswerOK

LEMMA OneShotTypeStep ==
  OneShotTypeOK /\ OneShotInv /\ [OneShotNext]_oneShotVars => OneShotTypeOK'
<1> SUFFICES ASSUME OneShotTypeOK, OneShotInv, [OneShotNext]_oneShotVars PROVE OneShotTypeOK'
  OBVIOUS
<1> USE DEF OneShotTypeOK, kitVars
<1>0. NullReport \in Report /\ <<NullReport>> \in Seq(Report)
      /\ <<NullReport, NullReport>> \in Seq(Report)
  <2>1. NullReport \in Report
    BY DEF NullReport, Report, Undefined
  <2> QED BY <2>1
<1>1. ASSUME NEW on \in BOOLEAN, SetProxy(on) PROVE OneShotTypeOK'
  <2>1. control' \in [registered : BOOLEAN, page : BOOLEAN,
                      last : {"none", "refreshed", "kept", "thrown"}]
    BY <1>1 DEF SetProxy
  <2> QED BY <1>1, <2>1 DEF SetProxy
<1>2. CASE PageLoads
  BY <1>2 DEF PageLoads
<1>3. ASSUME NEW c \in Call,
             \/ ParseRefuses(c) \/ ParseFails(c) \/ InvokeRefuses(c)
             \/ InvokeFindsNoName(c) \/ InvokeFails(c) \/ Connects(c)
      PROVE  OneShotTypeOK'
  <2>1. asked' \in [Call -> Input] /\ UNCHANGED <<control, replies, inbox, acks>>
    <3>1. PICK input \in Input : Starts(c, input)
      BY <1>3 DEF ParseRefuses, ParseFails, InvokeRefuses, InvokeFindsNoName, InvokeFails,
         Connects, Acceptable
    <3> QED BY <3>1 DEF Starts
  <2>2. \E how \in Result : Ends(c, how)
    BY <1>3 DEF ParseRefuses, ParseFails, InvokeRefuses, InvokeFindsNoName, InvokeFails,
       Connects, Result
  <2>r. result' \in [Call -> Result]
    BY <2>2 DEF Ends
  <2>3. link' \in [Call -> Link]
    BY <1>3 DEF ParseRefuses, ParseFails, InvokeRefuses, InvokeFindsNoName, InvokeFails,
       Connects, Link
  <2>4. told' \in [Call -> Seq(Report)]
    BY <1>0, <1>3 DEF ParseRefuses, ParseFails, InvokeRefuses, InvokeFindsNoName, InvokeFails,
       Connects
  <2> QED BY <2>1, <2>r, <2>3, <2>4
<1>4. ASSUME NEW c \in Call, OnConnect(c) \/ OnFailed(c) \/ OnDisconnect(c) PROVE OneShotTypeOK'
  BY <1>4 DEF OnConnect, OnFailed, OnDisconnect, LinkMoves, Link
<1>5. ASSUME NEW c \in Call, ProviderAnswers(c) PROVE OneShotTypeOK'
  <2>1. PICK reply \in Reply : replies' = [replies EXCEPT ![c] = Append(@, reply)]
    BY <1>5 DEF ProviderAnswers
  <2>2. [call |-> c, no |-> Len(replies[c]) + 1] \in [call : Call, no : Nat]
    OBVIOUS
  <2>3. replies' \in [Call -> Seq(Reply)]
    BY <2>1
  <2>4. inbox' \subseteq [call : Call, no : Nat]
    BY <1>5, <2>2 DEF ProviderAnswers
  <2> QED BY <1>5, <2>3, <2>4 DEF ProviderAnswers
<1>6. ASSUME NEW m \in inbox, OnRemoteMessageRequest(m) PROVE OneShotTypeOK'
  <2>1. m.call \in Call /\ m.no \in Nat
    OBVIOUS
  <2>2. CASE told' = told
    BY <1>6, <2>1, <2>2 DEF OnRemoteMessageRequest
  <2>3. CASE told' # told
    <3>1. PICK reply : reply = replies[m.call][m.no]
      OBVIOUS
    <3>2. reply \in Reply
      BY <2>1, <3>1 DEF OneShotInv, CallOK, AnswerOK
    <3>3. PICK what \in {"success", "failure"} :
            told' = [told EXCEPT ![m.call] =
                       Append(@, [what |-> what, code |-> reply.code, no |-> m.no])]
      BY <1>6, <2>3, <3>1 DEF OnRemoteMessageRequest, Heard
    <3>4. [what |-> what, code |-> reply.code, no |-> m.no] \in Report
      BY <2>1, <3>2, OneShotAssumption DEF Report, Reply
    <3>5. told' \in [Call -> Seq(Report)]
      BY <2>1, <3>3, <3>4
    <3> QED BY <1>6, <2>1, <3>5 DEF OnRemoteMessageRequest
  <2> QED BY <2>2, <2>3
<1>7. CASE UNCHANGED oneShotVars
  BY <1>7 DEF oneShotVars
<1> QED
  BY <1>1, <1>2, <1>3, <1>4, <1>5, <1>6, <1>7
     DEF OneShotNext, RegisterWebAdInterface, DeleteWebAdInterface

(* A step that does not concern a call leaves it as it is.                 *)
LEMMA Untouched ==
  ASSUME NEW c \in Call, CallOK(c),
         asked'[c] = asked[c], result'[c] = result[c], link'[c] = link[c],
         replies'[c] = replies[c], acks'[c] = acks[c], told'[c] = told[c],
         \A m : m.call = c => (m \in inbox' <=> m \in inbox)
  PROVE  CallOK(c)'
<1>1. EndOK(c)'
  BY DEF CallOK, EndOK
<1>2. AnswerOK(c)'
  BY DEF CallOK, AnswerOK, SaysWhatItIs, Unreadable
<1> QED
  BY <1>1, <1>2 DEF CallOK

(* A call that is made.                                                    *)
LEMMA MadeStep ==
  ASSUME OneShotTypeOK, OneShotInv, NEW c \in Call,
         \/ ParseRefuses(c) \/ ParseFails(c) \/ InvokeRefuses(c)
         \/ InvokeFindsNoName(c) \/ InvokeFails(c) \/ Connects(c)
  PROVE  OneShotInv'
<1> USE DEF OneShotTypeOK, kitVars
<1>1. /\ result[c] = "none" /\ UNCHANGED <<replies, inbox, acks>>
      /\ \A q \in Call : q # c => /\ asked'[q] = asked[q] /\ result'[q] = result[q]
                                  /\ link'[q] = link[q] /\ told'[q] = told[q]
  BY DEF ParseRefuses, ParseFails, InvokeRefuses, InvokeFindsNoName, InvokeFails,
     Connects, Starts, Ends
<1>2. ASSUME NEW q \in Call, q # c PROVE CallOK(q)'
  BY <1>1, <1>2, Untouched DEF OneShotInv
<1>3. /\ link[c] = "none" /\ told[c] = <<>> /\ replies[c] = <<>> /\ acks[c] = {}
      /\ \A m \in inbox : m.call # c
  BY <1>1, NotMade DEF OneShotInv
<1>4. /\ \A i \in DOMAIN <<>> : FALSE
      /\ \A i \in DOMAIN <<NullReport>> : <<NullReport>>[i] = NullReport
      /\ \A i \in DOMAIN <<NullReport, NullReport>> : <<NullReport, NullReport>>[i] = NullReport
      /\ Len(<<>>) <= 2 /\ Len(<<NullReport>>) <= 2 /\ Len(<<NullReport, NullReport>>) <= 2
      /\ <<NullReport>> # <<>> /\ <<NullReport, NullReport>> # <<>>
  OBVIOUS
<1>5. \/ /\ link'[c] = "none" /\ told'[c] \in {<<NullReport>>, <<NullReport, NullReport>>}
         /\ result'[c] # "none"
      \/ /\ link'[c] = "none" /\ told'[c] = <<>> /\ result'[c] # "none"
         /\ result'[c] = "returned" =>
              c \in Page /\ (asked'[c].text # "ok" \/ asked'[c].hears # "callable")
      \/ /\ link'[c] = "opening" /\ told'[c] = <<>> /\ result'[c] = "returned"
         /\ c \in Page => asked'[c].hears = "callable"
  BY <1>1, <1>3 DEF ParseRefuses, ParseFails, InvokeRefuses, InvokeFindsNoName, InvokeFails,
     Connects, Starts, Ends, Acceptable
<1>6. EndOK(c)'
  BY <1>1, <1>3, <1>4, <1>5 DEF EndOK
<1>7. \A i \in DOMAIN told'[c] : told'[c][i] = NullReport
  BY <1>4, <1>5
<1>8. AnswerOK(c)'
  BY <1>1, <1>3, <1>7 DEF AnswerOK, NullReport
<1> QED
  BY <1>2, <1>6, <1>8 DEF OneShotInv, CallOK

(* The connection's callbacks: only a sent message can be answered.        *)
LEMMA LinkStep ==
  ASSUME OneShotTypeOK, OneShotInv, NEW c \in Call,
         OnConnect(c) \/ OnFailed(c) \/ OnDisconnect(c)
  PROVE  OneShotInv'
<1> USE DEF OneShotTypeOK, kitVars
<1>1. /\ UNCHANGED <<asked, result, replies, inbox, acks, told>>
      /\ \A q \in Call : q # c => link'[q] = link[q]
      /\ link[c] # "none" /\ link'[c] # "none"
      /\ link'[c] \notin {"sent", "down"} => link[c] \notin {"sent", "down"}
  BY DEF OnConnect, OnFailed, OnDisconnect, LinkMoves
<1>2. ASSUME NEW q \in Call, q # c PROVE CallOK(q)'
  BY <1>1, <1>2, Untouched DEF OneShotInv
<1>3. EndOK(c)'
  BY <1>1 DEF OneShotInv, CallOK, EndOK
<1>4. AnswerOK(c)'
  BY <1>1 DEF OneShotInv, CallOK, AnswerOK, SaysWhatItIs, Unreadable
<1> QED
  BY <1>2, <1>3, <1>4 DEF OneShotInv, CallOK

(* The provider answers: one more answer is on its way.                    *)
LEMMA AnswersStep ==
  ASSUME OneShotTypeOK, OneShotInv, NEW c \in Call, ProviderAnswers(c)
  PROVE  OneShotInv'
<1> USE DEF OneShotTypeOK
<1>1. /\ UNCHANGED <<asked, result, link, acks, told>>
      /\ link[c] \in {"sent", "down"}
  BY DEF ProviderAnswers
<1>2. PICK reply \in Reply : replies' = [replies EXCEPT ![c] = Append(@, reply)]
  BY DEF ProviderAnswers
<1>3. PICK n \in Nat : n = Len(replies[c]) + 1
  OBVIOUS
<1>4. PICK new : new = [call |-> c, no |-> n]
  OBVIOUS
<1>5. inbox' = inbox \cup {new} /\ new.call = c /\ new.no = n
  BY <1>3, <1>4 DEF ProviderAnswers
<1>6. ASSUME NEW q \in Call, q # c PROVE CallOK(q)'
  BY <1>1, <1>2, <1>5, <1>6, Untouched DEF OneShotInv
<1>7. EndOK(c)'
  BY <1>1 DEF OneShotInv, CallOK, EndOK
<1>8. /\ DOMAIN replies'[c] = DOMAIN replies[c] \cup {n} /\ n \notin DOMAIN replies[c]
      /\ \A i \in DOMAIN replies[c] : replies'[c][i] = replies[c][i]
  BY <1>2, <1>3
<1>9. AnswerOK(c)'
  <2>1. AnswerOK(c) /\ \A i \in DOMAIN told[c] : told[c][i] # NullReport
    BY <1>1 DEF OneShotInv, CallOK, EndOK
  <2>2. \A m \in inbox' : m.call = c =>
          /\ m.no \in DOMAIN replies'[c]
          /\ \A i \in DOMAIN told'[c] : told'[c][i].no # m.no
    BY <1>1, <1>5, <1>8, <2>1 DEF AnswerOK, SaysWhatItIs
  <2>3. \A i \in DOMAIN told'[c] : told'[c][i] = NullReport \/ SaysWhatItIs(c, told[c][i])'
    BY <1>1, <1>8, <2>1 DEF AnswerOK, SaysWhatItIs
  <2>4. \A no \in DOMAIN replies'[c] :
          \/ \E m \in inbox' : m.call = c /\ m.no = no
          \/ told'[c] # <<>>
          \/ asked'[c].hears # "callable"
          \/ Unreadable(c, replies[c][no])'
    BY <1>1, <1>5, <1>8, <2>1 DEF AnswerOK, Unreadable
  <2>5. /\ acks'[c] \subseteq DOMAIN replies'[c]
        /\ \A no \in acks'[c] :
             asked'[c].hears = "undefined" \/ \E i \in DOMAIN told'[c] : told'[c][i].no = no
        /\ \A i, j \in DOMAIN told'[c] :
             told'[c][i].no = told'[c][j].no /\ told'[c][i].no # 0 => i = j
    BY <1>1, <1>8, <2>1 DEF AnswerOK
  <2> QED BY <2>2, <2>3, <2>4, <2>5 DEF AnswerOK, SaysWhatItIs, Unreadable
<1> QED
  BY <1>6, <1>7, <1>9 DEF OneShotInv, CallOK

(* An answer is taken: it is heard or it is one nobody hears.              *)
LEMMA TakenStep ==
  ASSUME OneShotTypeOK, OneShotInv, NEW m \in inbox, OnRemoteMessageRequest(m)
  PROVE  OneShotInv'
<1> USE DEF OneShotTypeOK
<1>1. PICK c \in Call, no \in Nat : c = m.call /\ no = m.no
  OBVIOUS
<1>2. PICK reply : reply = replies[c][no]
  OBVIOUS
<1>3. CallOK(c) /\ no \in DOMAIN replies[c] /\ reply \in Reply
  BY <1>1, <1>2 DEF OneShotInv, CallOK, AnswerOK
<1>4. /\ UNCHANGED <<asked, result, link, replies>> /\ inbox' = inbox \ {m}
      /\ \A q \in Call : q # c => acks'[q] = acks[q] /\ told'[q] = told[q]
  BY <1>1 DEF OnRemoteMessageRequest
<1>5. ASSUME NEW q \in Call, q # c PROVE CallOK(q)'
  BY <1>1, <1>4, <1>5, Untouched DEF OneShotInv
<1>6. link[c] # "none"
  BY <1>3 DEF CallOK, EndOK
(* Nothing is called.                                                      *)
<1>7. ASSUME told'[c] = told[c], asked[c].hears # "callable" \/ Unreadable(c, reply),
             \/ acks'[c] = acks[c]
             \/ asked[c].hears = "undefined" /\ acks'[c] = acks[c] \cup {no}
      PROVE  CallOK(c)'
  <2>1. EndOK(c)'
    BY <1>3, <1>4, <1>7 DEF CallOK, EndOK
  <2>2. \A k \in DOMAIN replies'[c] :
          \/ \E a \in inbox' : a.call = c /\ a.no = k
          \/ told'[c] # <<>>
          \/ asked'[c].hears # "callable"
          \/ Unreadable(c, replies[c][k])'
    BY <1>1, <1>2, <1>3, <1>4, <1>7 DEF CallOK, AnswerOK, Unreadable
  <2>3. /\ acks'[c] \subseteq DOMAIN replies'[c]
        /\ \A k \in acks'[c] :
             asked'[c].hears = "undefined" \/ \E i \in DOMAIN told'[c] : told'[c][i].no = k
    BY <1>3, <1>4, <1>7 DEF CallOK, AnswerOK
  <2>4. AnswerOK(c)'
    BY <1>3, <1>4, <1>7, <2>2, <2>3 DEF CallOK, AnswerOK, SaysWhatItIs, Unreadable
  <2> QED BY <2>1, <2>4 DEF CallOK
(* The listener or the callback is called.                                 *)
<1>8. ASSUME NEW what \in Heard(c, reply), reply.right,
             told'[c] = Append(told[c], [what |-> what, code |-> reply.code, no |-> no]),
             acks'[c] = acks[c] \/ acks'[c] = acks[c] \cup {no}
      PROVE  CallOK(c)'
  <2>1. PICK new : new = [what |-> what, code |-> reply.code, no |-> no]
    OBVIOUS
  <2>2. new.what = what /\ new.code = reply.code /\ new.no = no /\ no # 0
    BY <1>3, <2>1
  <2>3. new \in Report
    <3>1. what \in {"success", "failure"} /\ reply.code \in Int
      BY <1>3, <1>8, OneShotAssumption DEF Heard, Reply
    <3> QED BY <2>1, <3>1 DEF Report
  <2>4. PICK n \in Nat : n = Len(told[c]) + 1
    OBVIOUS
  <2>5. /\ DOMAIN told'[c] = DOMAIN told[c] \cup {n} /\ n \notin DOMAIN told[c]
        /\ \A i \in DOMAIN told[c] : told'[c][i] = told[c][i]
        /\ told'[c][n] = new /\ told'[c] # <<>>
    <3>1. told[c] \in Seq(Report) /\ told'[c] = Append(told[c], new)
      BY <1>8, <2>1
    <3>2. /\ Len(told'[c]) = n /\ DOMAIN told'[c] = 1..n /\ DOMAIN told[c] = 1..n-1
          /\ told'[c][n] = new /\ \A i \in 1..n-1 : told'[c][i] = told[c][i]
      BY <2>3, <2>4, <3>1
    <3>3. told'[c] # <<>>
      BY <2>4, <3>2
    <3> QED BY <2>4, <3>2, <3>3
  <2>6. new # NullReport
    BY <2>2 DEF NullReport
  <2>7. EndOK(c)'
    BY <1>3, <1>4, <1>6, <2>5, <2>6 DEF CallOK, EndOK
  <2>8. SaysWhatItIs(c, new)
    BY <1>2, <1>3, <1>8, <2>2 DEF SaysWhatItIs, Heard
  <2>9. \A i \in DOMAIN told[c] : told[c][i].no # no
    BY <1>1, <1>3 DEF CallOK, AnswerOK
  <2>10. \A a \in inbox' : a.call = c =>
           /\ a.no \in DOMAIN replies'[c]
           /\ \A i \in DOMAIN told'[c] : told'[c][i].no # a.no
    <3>1. ASSUME NEW a \in inbox', a.call = c PROVE a.no # no
      <4>1. a \in inbox /\ a # m
        BY <1>4
      <4>2. a = [call |-> a.call, no |-> a.no] /\ m = [call |-> m.call, no |-> m.no]
        BY <4>1
      <4> QED BY <1>1, <3>1, <4>1, <4>2
    <3> QED BY <1>3, <1>4, <2>2, <2>5, <3>1 DEF CallOK, AnswerOK
  <2>11. \A i \in DOMAIN told'[c] : told'[c][i] = NullReport \/ SaysWhatItIs(c, told[c][i])'
    BY <1>3, <1>4, <2>5, <2>8 DEF CallOK, AnswerOK, SaysWhatItIs
  <2>12. \A i, j \in DOMAIN told'[c] :
           told'[c][i].no = told'[c][j].no /\ told'[c][i].no # 0 => i = j
    BY <1>3, <2>2, <2>5, <2>9 DEF CallOK, AnswerOK
  <2>13. /\ acks'[c] \subseteq DOMAIN replies'[c]
         /\ \A k \in acks'[c] :
              asked'[c].hears = "undefined" \/ \E i \in DOMAIN told'[c] : told'[c][i].no = k
    BY <1>3, <1>4, <1>8, <2>2, <2>5 DEF CallOK, AnswerOK
  <2>14. AnswerOK(c)'
    BY <2>5, <2>10, <2>11, <2>12, <2>13 DEF AnswerOK, SaysWhatItIs
  <2> QED BY <2>7, <2>14 DEF CallOK
<1>9. ASSUME reply.right /\ asked[c].hears = "callable" /\ Heard(c, reply) # {}
      PROVE  CallOK(c)'
  <2>1. PICK what \in Heard(c, reply) : Heard(c, reply) = {what}
    BY <1>9 DEF Heard
  <2>2. told' = [told EXCEPT ![c] =
          Append(@, [what |-> what, code |-> reply.code, no |-> no])]
    <3>1. (CHOOSE w \in Heard(c, reply) : TRUE) = what
      BY <2>1
    <3> QED BY <1>1, <1>2, <1>9, <3>1 DEF OnRemoteMessageRequest
  <2>3. acks' = acks \/ acks' = [acks EXCEPT ![c] = @ \cup {no}]
    BY <1>1 DEF OnRemoteMessageRequest
  <2>4. told'[c] = Append(told[c], [what |-> what, code |-> reply.code, no |-> no])
    BY <2>2
  <2>5. acks'[c] = acks[c] \/ acks'[c] = acks[c] \cup {no}
    BY <2>3
  <2> QED BY <1>8, <1>9, <2>1, <2>4, <2>5
<1>10. ASSUME ~(reply.right /\ asked[c].hears = "callable" /\ Heard(c, reply) # {})
       PROVE  CallOK(c)'
  <2>1. told' = told
    BY <1>1, <1>2, <1>10 DEF OnRemoteMessageRequest
  <2>2. \/ acks' = acks
        \/ asked[c].hears = "undefined" /\ acks' = [acks EXCEPT ![c] = @ \cup {no}]
    BY <1>1, <1>2, <1>10 DEF OnRemoteMessageRequest
  <2>3. asked[c].hears # "callable" \/ Unreadable(c, reply)
    BY <1>3, <1>10 DEF Heard, Unreadable, Reply
  <2>4. \/ acks'[c] = acks[c]
        \/ asked[c].hears = "undefined" /\ acks'[c] = acks[c] \cup {no}
    BY <2>2
  <2> QED BY <1>7, <2>1, <2>3, <2>4
<1> QED
  BY <1>5, <1>9, <1>10 DEF OneShotInv

LEMMA OneShotStep ==
  OneShotTypeOK /\ OneShotInv /\ [OneShotNext]_oneShotVars => OneShotInv'
<1> SUFFICES ASSUME OneShotTypeOK, OneShotInv, [OneShotNext]_oneShotVars PROVE OneShotInv'
  OBVIOUS
<1>1. CASE UNCHANGED <<asked, result, link, replies, inbox, acks, told>>
  BY <1>1, Untouched DEF OneShotInv
<1>2. CASE RegisterWebAdInterface \/ DeleteWebAdInterface \/ PageLoads \/ UNCHANGED oneShotVars
  BY <1>1, <1>2 DEF RegisterWebAdInterface, DeleteWebAdInterface, SetProxy, PageLoads,
     oneShotVars, kitVars
<1> QED
  BY <1>2, MadeStep, LinkStep, AnswersStep, TakenStep DEF OneShotNext

(* The type invariant, and what the calls' own invariants rest on: where   *)
(* each call, each answer and each report of it is.                        *)
THEOREM OneShotInvariant == OneShotSpec => [](OneShotTypeOK /\ OneShotInv)
<1>1. OneShotInit => OneShotTypeOK /\ OneShotInv
  <2> SUFFICES ASSUME OneShotInit PROVE OneShotTypeOK /\ OneShotInv
    OBVIOUS
  <2>1. OneShotTypeOK
    BY DEF OneShotInit, OneShotTypeOK, Nothing, Input, Result, Link
  <2>2. OneShotInv
    BY DEF OneShotInit, OneShotInv, CallOK, EndOK, AnswerOK
  <2> QED BY <2>1, <2>2
<1>2. (OneShotTypeOK /\ OneShotInv) /\ [OneShotNext]_oneShotVars => (OneShotTypeOK /\ OneShotInv)'
  BY OneShotTypeStep, OneShotStep
<1> QED
  BY <1>1, <1>2, PTL DEF OneShotSpec

(* The page and the web controller disagree about the bridge only after a  *)
(* registration or deletion that was told not to refresh, or threw.        *)
THEOREM PageFollowsControllerCorrect == OneShotSpec => []PageFollowsController
<1>1. OneShotInit => PageFollowsController
  BY DEF OneShotInit, PageFollowsController
<1>2. OneShotTypeOK /\ PageFollowsController /\ [OneShotNext]_oneShotVars => PageFollowsController'
  <2> SUFFICES ASSUME OneShotTypeOK, PageFollowsController, [OneShotNext]_oneShotVars
               PROVE  PageFollowsController'
    OBVIOUS
  <2>1. ASSUME NEW on \in BOOLEAN, SetProxy(on) PROVE PageFollowsController'
    BY <2>1 DEF SetProxy, Refreshes, PageFollowsController, OneShotTypeOK
  <2>2. CASE PageLoads
    BY <2>2 DEF PageLoads, PageFollowsController, OneShotTypeOK
  <2>3. CASE UNCHANGED control
    BY <2>3 DEF PageFollowsController
  <2>4. \/ RegisterWebAdInterface \/ DeleteWebAdInterface \/ PageLoads \/ UNCHANGED control
    BY DEF OneShotNext, ParseRefuses, ParseFails, InvokeRefuses, InvokeFindsNoName, InvokeFails,
       Connects, Starts, OnConnect, OnFailed, OnDisconnect, LinkMoves, ProviderAnswers,
       OnRemoteMessageRequest, oneShotVars
  <2> QED BY <2>1, <2>2, <2>3, <2>4 DEF RegisterWebAdInterface, DeleteWebAdInterface
<1> QED
  BY <1>1, <1>2, OneShotInvariant, PTL DEF OneShotSpec

(* Whatever the provider does, a call that threw or whose callback was     *)
(* given null has no connection and hears no answer, and null comes at     *)
(* most twice.                                                             *)
THEOREM RefusedIsFinalCorrect == OneShotSpec => []RefusedIsFinal
<1>1. OneShotTypeOK /\ OneShotInv => RefusedIsFinal
  BY DEF OneShotTypeOK, OneShotInv, CallOK, EndOK, RefusedIsFinal
<1> QED
  BY <1>1, OneShotInvariant, PTL

(* In whatever order and however often the provider answers, each answer   *)
(* is heard at most once, as what it says, and TRUE goes back only for one *)
(* that was heard or that nobody was there to hear.                        *)
THEOREM AnswersHeardCorrect == OneShotSpec => []AnswersHeard
<1>1. OneShotInv => AnswersHeard
  BY DEF OneShotInv, CallOK, AnswerOK, AnswersHeard
<1> QED
  BY <1>1, OneShotInvariant, PTL

(* The silent ends of parseAdResponse and invokeAsync are the ones that    *)
(* SilenceHasCause lists: no answer that could be heard is lost.           *)
THEOREM SilenceHasCauseCorrect == OneShotSpec => []SilenceHasCause
<1>1. OneShotTypeOK /\ OneShotInv => SilenceHasCause
  <2> SUFFICES ASSUME OneShotTypeOK, OneShotInv, NEW c \in Call,
                      result[c] = "returned", told[c] = <<>>, \A m \in inbox : m.call # c,
                      asked[c].hears = "callable",
                      link[c] \in {"sent", "down"}
               PROVE  \A i \in DOMAIN replies[c] : Unreadable(c, replies[c][i])
    BY DEF OneShotTypeOK, OneShotInv, CallOK, EndOK, SilenceHasCause, Link
  <2> QED BY DEF OneShotInv, CallOK, AnswerOK
<1> QED
  BY <1>1, OneShotInvariant, PTL
=============================================================================
