---------------------------- MODULE CjAdLoadProofs ----------------------------
(***************************************************************************)
(* Theorems about CjAdLoad, for any requests, elements, codes and any      *)
(* number of answers.                                                      *)
(***************************************************************************)
EXTENDS CjAdLoad, FiniteSetTheorems, TLAPS

(* Answers on their way are answers that were given.                       *)
InboxOK ==
  \A m \in inbox :
    /\ m.seq \in 1 .. Len(replies[m.req])
    /\ conn[m.req] \notin {"none", "refused"}

(* How far a call is fits its connection, a promise is settled only once   *)
(* the connection was accepted, and the provider's death is watched only   *)
(* once it was made.                                                       *)
StageOK ==
  \A r \in Request :
    /\ call[r] \in {"idle", "calling"} => conn[r] = "none"
    /\ call[r] = "failing" => conn[r] = "refused"
    /\ call[r] \in {"connected", "waiting"} => conn[r] \notin {"none", "refused"}
    /\ conn[r] \in {"none", "refused"} => settled[r] = <<>>
    /\ conn[r] \in {"none", "refused", "connecting"} => watch[r] = "none"

ReturnedOK ==
  \A r \in Body :
    /\ call[r] # "returned" => body[r] = "empty"
    /\ call[r] = "returned" => conn[r] = "refused" \/ settled[r] # <<>>

CjLoadInv == InboxOK /\ StageOK /\ ReturnedOK

-----------------------------------------------------------------------------
(* Operators.                                                              *)

LEMMA SettledType ==
  ASSUME TypeOK, NEW r \in Request, NEW outcome \in Outcome
  PROVE  Settled(r, outcome) \in [Request -> Seq(Outcome)]
BY DEF Settled, TypeOK

LEMMA SettledEffect ==
  ASSUME TypeOK, NEW r \in Request, NEW outcome \in Outcome
  PROVE  /\ Settled(r, outcome)[r] # <<>>
         /\ settled[r] # <<>> => Settled(r, outcome)[r] = settled[r]
         /\ settled[r] = <<>> => Head(Settled(r, outcome)[r]) = outcome
         /\ \A q \in Request : q # r => Settled(r, outcome)[q] = settled[q]
BY DEF Settled, TypeOK

LEMMA FailOutcome ==
  ASSUME NEW code \in Int
  PROVE  [code |-> code, payload |-> "empty"] \in Outcome
BY DEF Outcome, Payload

(* The answer a binder thread takes.                                       *)
LEMMA ReplyType ==
  ASSUME TypeOK, InboxOK, NEW m \in inbox
  PROVE  m.req \in Request /\ replies[m.req][m.seq] \in Outcome
<1>1. replies[m.req][m.seq] \in Reply
  BY DEF TypeOK, InboxOK
<1> QED
  BY <1>1, CjLoadAssumption DEF TypeOK, Reply, Outcome

LEMMA Codes == INNER_ERR \in Int /\ ERR_SEND_OK \in Int /\ REQUEST_FAIL \in Int
            /\ ERR_AD_COMMON_AD_CONNECT_KIT_ERROR \in Int
BY DEF INNER_ERR, ERR_SEND_OK, REQUEST_FAIL, ERR_AD_COMMON_AD_CONNECT_KIT_ERROR

LEMMA ToldType ==
  ASSUME TypeOK, NEW r \in Request, NEW event \in Event
  PROVE  Told(r, event) \in [Request -> Seq(Event)]
BY DEF Told, TypeOK

LEMMA FailureType == ASSUME NEW code \in Int PROVE Failure(code) \in Event
BY DEF Failure, Event

LEMMA FailType ==
  ASSUME TypeOK, NEW r \in Request, NEW code \in Int, Fail(r, code)
  PROVE  told' \in [Request -> Seq(Event)] /\ settled' \in [Request -> Seq(Outcome)]
<1>1. CASE r \in Body
  BY <1>1, FailOutcome, SettledType DEF Fail, TypeOK
<1>2. CASE r \notin Body
  BY <1>2, FailureType, ToldType DEF Fail, TypeOK
<1> QED
  BY <1>1, <1>2

-----------------------------------------------------------------------------
(* Types.                                                                  *)

LEMMA CjLoadTypeStep == TypeOK /\ InboxOK /\ [Next]_vars => TypeOK'
<1> SUFFICES ASSUME TypeOK, InboxOK, [Next]_vars PROVE TypeOK'
  OBVIOUS
<1> USE CjLoadAssumption, Codes
        DEF TypeOK, CallStage, ConnStage, Watch, Payload, callVars, linkVars, kitVars, toldVars
<1>1. ASSUME NEW r \in Request, NoLoader(r) \/ Call(r) \/ ReturnOk(r) PROVE TypeOK'
  BY <1>1 DEF NoLoader, Call, ReturnOk, Advance
<1>2. ASSUME NEW r \in Request, Connect(r) PROVE TypeOK'
  BY <1>2 DEF Connect, Advance
<1>3. ASSUME NEW r \in Request, ConnectRefused(r) PROVE TypeOK'
  BY <1>3, FailureType, ToldType DEF ConnectRefused, Advance
<1>4. ASSUME NEW r \in Request, ReturnError(r) PROVE TypeOK'
  <2>1. Told(r, Failure(ERR_AD_COMMON_AD_CONNECT_KIT_ERROR)) \in [Request -> Seq(Event)]
    BY FailureType, ToldType
  <2>2. told' \in [Request -> Seq(Event)]
    BY <1>4, <2>1 DEF ReturnError
  <2> QED BY <1>4, <2>2 DEF ReturnError, Advance
<1>5. ASSUME NEW r \in Request, WaitAdBodyResult(r) PROVE TypeOK'
  <2>1. settled[r] \in Seq(Outcome) /\ settled[r] # <<>>
    BY <1>5 DEF WaitAdBodyResult
  <2>2. Head(settled[r]) \in Outcome
    BY <2>1
  <2>3. Head(settled[r]).payload \in Payload
    BY <2>2 DEF Outcome
  <2> QED BY <1>5, <2>3 DEF WaitAdBodyResult, Advance
<1>6. ASSUME NEW r \in Request, OnAbilityConnectDone(r) \/ Send(r) \/ SendFails(r) \/ RemoteDies(r)
      PROVE  TypeOK'
  BY <1>6 DEF OnAbilityConnectDone, Send, SendFails, RemoteDies, Link
<1>7. ASSUME NEW r \in Request, OnAbilityDisconnectDone(r) PROVE TypeOK'
  BY <1>7 DEF OnAbilityDisconnectDone
<1>8. ASSUME NEW r \in Request, NotAnyService(r) \/ ConnectDoneFails(r) PROVE TypeOK'
  <2>1. \E code \in Int : Fail(r, code)
    BY <1>8 DEF NotAnyService, ConnectDoneFails
  <2>2. told' \in [Request -> Seq(Event)] /\ settled' \in [Request -> Seq(Outcome)]
    BY <2>1, FailType
  <2> QED BY <1>8, <2>2 DEF NotAnyService, ConnectDoneFails, Link
<1>9. ASSUME NEW r \in Request, OnRemoteDied(r) PROVE TypeOK'
  <2>1. told' \in [Request -> Seq(Event)] /\ settled' \in [Request -> Seq(Outcome)]
    BY <1>9, FailType DEF OnRemoteDied
  <2> QED BY <1>9, <2>1 DEF OnRemoteDied
<1>10. ASSUME NEW r \in Request, KitReplies(r) PROVE TypeOK'
  BY <1>10 DEF KitReplies
<1>11. ASSUME NEW m \in inbox, OnRemoteRequest(m) PROVE TypeOK'
  <2>1. m.req \in Request /\ replies[m.req][m.seq] \in Outcome
    BY ReplyType
  <2>2. LoadResult(replies[m.req][m.seq]) \in Event
    BY <2>1 DEF LoadResult, Success, Failure, Event, Outcome
  <2>3. /\ Settled(m.req, replies[m.req][m.seq]) \in [Request -> Seq(Outcome)]
        /\ Told(m.req, LoadResult(replies[m.req][m.seq])) \in [Request -> Seq(Event)]
    BY <2>1, <2>2, SettledType, ToldType
  <2>4. told' \in [Request -> Seq(Event)] /\ settled' \in [Request -> Seq(Outcome)]
    BY <1>11, <2>3 DEF OnRemoteRequest
  <2> QED BY <1>11, <2>4 DEF OnRemoteRequest
<1>12. CASE UNCHANGED vars
  BY <1>12 DEF vars
<1> QED
  BY <1>1, <1>2, <1>3, <1>4, <1>5, <1>6, <1>7, <1>8, <1>9, <1>10, <1>11, <1>12
     DEF Next, ReturnCall, Proceed

-----------------------------------------------------------------------------
(* The invariant.                                                          *)

(* A promise is settled by a step of a binder thread, on an accepted       *)
(* connection, and only if it was not settled before.                      *)
LEMMA SettlingStep ==
  ASSUME TypeOK, CjLoadInv, [Next]_vars, NEW q \in Request, settled'[q] # settled[q]
  PROVE  /\ settled[q] = <<>> /\ settled'[q] # <<>>
         /\ conn[q] \notin {"none", "refused"}
         /\ UNCHANGED callVars
<1> DEFINE Goal == /\ settled[q] = <<>> /\ settled'[q] # <<>>
                   /\ conn[q] \notin {"none", "refused"}
                   /\ UNCHANGED callVars
<1>1. ASSUME NEW r \in Request, NEW code \in Int, Fail(r, code),
             conn[r] \notin {"none", "refused"}, UNCHANGED callVars
      PROVE  Goal
  <2>1. r \in Body /\ settled' = Settled(r, [code |-> code, payload |-> "empty"])
    BY <1>1 DEF Fail
  <2> QED BY <1>1, <2>1, FailOutcome, SettledEffect
<1>2. ASSUME NEW r \in Request, NotAnyService(r) \/ ConnectDoneFails(r) PROVE Goal
  <2>1. PICK code \in Int : Fail(r, code)
    BY <1>2, Codes, CjLoadAssumption DEF NotAnyService, ConnectDoneFails
  <2>2. conn[r] \notin {"none", "refused"} /\ UNCHANGED callVars
    BY <1>2 DEF NotAnyService, ConnectDoneFails, Link
  <2> HIDE DEF Goal
  <2> QED BY <1>1, <2>1, <2>2
<1>3. ASSUME NEW r \in Request, OnRemoteDied(r) PROVE Goal
  <2>1. conn[r] \notin {"none", "refused"} /\ Fail(r, INNER_ERR) /\ UNCHANGED callVars
    BY <1>3 DEF OnRemoteDied, CjLoadInv, StageOK
  <2> HIDE DEF Goal
  <2> QED BY <1>1, <2>1, Codes
<1>4. ASSUME NEW m \in inbox, OnRemoteRequest(m) PROVE Goal
  <2>1. m.req \in Request /\ replies[m.req][m.seq] \in Outcome
    BY ReplyType DEF CjLoadInv
  <2>2. settled' = Settled(m.req, replies[m.req][m.seq])
    BY <1>4 DEF OnRemoteRequest
  <2>3. conn[m.req] \notin {"none", "refused"} /\ UNCHANGED callVars
    BY <1>4 DEF OnRemoteRequest, CjLoadInv, InboxOK
  <2>4. m.req = q
    BY <2>1, <2>2, SettledEffect
  <2> QED BY <2>1, <2>2, <2>3, <2>4, SettledEffect
<1>5. ASSUME NEW r \in Request,
             \/ NoLoader(r) \/ Call(r) \/ Connect(r) \/ ConnectRefused(r) \/ ReturnError(r)
             \/ ReturnOk(r) \/ WaitAdBodyResult(r)
      PROVE  FALSE
  BY <1>5 DEF NoLoader, Call, Connect, ConnectRefused, ReturnError, ReturnOk,
              WaitAdBodyResult, toldVars
<1>6. ASSUME NEW r \in Request,
             \/ OnAbilityConnectDone(r) \/ Send(r) \/ SendFails(r)
             \/ OnAbilityDisconnectDone(r) \/ RemoteDies(r) \/ KitReplies(r)
      PROVE  FALSE
  BY <1>6 DEF OnAbilityConnectDone, Send, SendFails, OnAbilityDisconnectDone, RemoteDies,
              KitReplies, toldVars
<1>7. ASSUME UNCHANGED vars PROVE Goal
  BY <1>7 DEF vars, toldVars
<1>8. Goal
  <2> HIDE DEF Goal
  <2> QED
    BY <1>2, <1>3, <1>4, <1>5, <1>6, <1>7 DEF Next, ReturnCall, Proceed
<1> QED
  BY <1>8

LEMMA InboxStep == TypeOK /\ CjLoadInv /\ [Next]_vars => InboxOK'
<1> SUFFICES ASSUME TypeOK, CjLoadInv, [Next]_vars, NEW m \in inbox'
             PROVE  /\ m.seq \in 1 .. Len(replies'[m.req])
                    /\ conn'[m.req] \notin {"none", "refused"}
  BY DEF InboxOK
<1> DEFINE Goal == /\ m.seq \in 1 .. Len(replies'[m.req])
                   /\ conn'[m.req] \notin {"none", "refused"}
<1> USE DEF TypeOK, CjLoadInv, InboxOK, StageOK, linkVars, kitVars
<1>1. ASSUME NEW r \in Request, \/ NoLoader(r) \/ Call(r) \/ ReturnError(r) \/ ReturnOk(r)
                                \/ WaitAdBodyResult(r)
      PROVE  Goal
  BY <1>1 DEF NoLoader, Call, ReturnError, ReturnOk, WaitAdBodyResult
<1>2. ASSUME NEW r \in Request, Connect(r) PROVE Goal
  BY <1>2 DEF Connect, Advance
<1>3. ASSUME NEW r \in Request, ConnectRefused(r) PROVE Goal
  BY <1>3 DEF ConnectRefused, Advance
<1>4. ASSUME NEW r \in Request, OnAbilityConnectDone(r) \/ Send(r) \/ SendFails(r) PROVE Goal
  BY <1>4 DEF OnAbilityConnectDone, Send, SendFails, Link
<1>5. ASSUME NEW r \in Request, NotAnyService(r) \/ ConnectDoneFails(r) PROVE Goal
  BY <1>5 DEF NotAnyService, ConnectDoneFails, Link
<1>6. ASSUME NEW r \in Request, OnAbilityDisconnectDone(r) PROVE Goal
  BY <1>6 DEF OnAbilityDisconnectDone
<1>7. ASSUME NEW r \in Request, RemoteDies(r) \/ OnRemoteDied(r) PROVE Goal
  BY <1>7 DEF RemoteDies, OnRemoteDied
<1>8. ASSUME NEW r \in Request, KitReplies(r) PROVE Goal
  BY <1>8 DEF KitReplies
<1>9. ASSUME NEW n \in inbox, OnRemoteRequest(n) PROVE Goal
  BY <1>9 DEF OnRemoteRequest
<1>10. ASSUME UNCHANGED vars PROVE Goal
  BY <1>10 DEF vars
<1>11. Goal
  <2> HIDE DEF Goal
  <2> QED
    BY <1>1, <1>2, <1>3, <1>4, <1>5, <1>6, <1>7, <1>8, <1>9, <1>10
       DEF Next, ReturnCall, Proceed
<1> QED
  BY <1>11

LEMMA StageStep == TypeOK /\ CjLoadInv /\ [Next]_vars => StageOK'
<1> DEFINE Fits(q) ==
      /\ call[q] \in {"idle", "calling"} => conn[q] = "none"
      /\ call[q] = "failing" => conn[q] = "refused"
      /\ call[q] \in {"connected", "waiting"} => conn[q] \notin {"none", "refused"}
      /\ conn[q] \in {"none", "refused"} => settled[q] = <<>>
      /\ conn[q] \in {"none", "refused", "connecting"} => watch[q] = "none"
<1> SUFFICES ASSUME TypeOK, CjLoadInv, [Next]_vars, NEW q \in Request PROVE Fits(q)'
  BY DEF StageOK
<1> USE DEF TypeOK, CjLoadInv, StageOK, callVars, linkVars, toldVars
<1>1. ASSUME NEW r \in Request, NoLoader(r) \/ Call(r) \/ ReturnError(r) \/ WaitAdBodyResult(r)
      PROVE  Fits(q)'
  BY <1>1 DEF NoLoader, Call, ReturnError, WaitAdBodyResult, Advance
<1>2. ASSUME NEW r \in Request, ReturnOk(r) PROVE Fits(q)'
  BY <1>2 DEF ReturnOk, Advance
<1>3. ASSUME NEW r \in Request, Connect(r) PROVE Fits(q)'
  BY <1>3 DEF Connect, Advance
<1>4. ASSUME NEW r \in Request, ConnectRefused(r) PROVE Fits(q)'
  BY <1>4 DEF ConnectRefused, Advance
<1>5. ASSUME NEW r \in Request, OnAbilityConnectDone(r) \/ Send(r) \/ SendFails(r)
      PROVE  Fits(q)'
  BY <1>5 DEF OnAbilityConnectDone, Send, SendFails, Link
<1>6. ASSUME NEW r \in Request, OnAbilityDisconnectDone(r) \/ RemoteDies(r) \/ KitReplies(r)
      PROVE  Fits(q)'
  BY <1>6 DEF OnAbilityDisconnectDone, RemoteDies, KitReplies
<1>7. ASSUME NEW r \in Request, NotAnyService(r) \/ ConnectDoneFails(r) PROVE Fits(q)'
  BY <1>7, SettlingStep DEF NotAnyService, ConnectDoneFails, Link
<1>8. ASSUME NEW r \in Request, OnRemoteDied(r) PROVE Fits(q)'
  BY <1>8, SettlingStep DEF OnRemoteDied
<1>9. ASSUME NEW m \in inbox, OnRemoteRequest(m) PROVE Fits(q)'
  BY <1>9, SettlingStep DEF OnRemoteRequest
<1>10. CASE UNCHANGED vars
  BY <1>10 DEF vars
<1> HIDE DEF Fits
<1> QED
  BY <1>1, <1>2, <1>3, <1>4, <1>5, <1>6, <1>7, <1>8, <1>9, <1>10
     DEF Next, ReturnCall, Proceed

LEMMA ReturnedStep == TypeOK /\ CjLoadInv /\ [Next]_vars => ReturnedOK'
<1> DEFINE Fits(q) ==
      /\ call[q] # "returned" => body[q] = "empty"
      /\ call[q] = "returned" => conn[q] = "refused" \/ settled[q] # <<>>
<1> SUFFICES ASSUME TypeOK, CjLoadInv, [Next]_vars, NEW q \in Body PROVE Fits(q)'
  BY DEF ReturnedOK
<1>q. q \in Request
  BY CjLoadAssumption
<1>1. settled[q] # <<>> => settled'[q] # <<>>
  BY <1>q, SettlingStep
<1>2. conn[q] = "refused" => conn'[q] = "refused" \/ settled[q] # <<>>
  BY <1>q DEF Next, Proceed, ReturnCall, NoLoader, Call, Connect, ConnectRefused, ReturnError,
     ReturnOk, WaitAdBodyResult, OnAbilityConnectDone, Send, SendFails, NotAnyService,
     ConnectDoneFails, OnAbilityDisconnectDone, RemoteDies, OnRemoteDied, KitReplies,
     OnRemoteRequest, vars, linkVars, Link, Advance, TypeOK, CjLoadInv, StageOK
<1>3. CASE call'[q] = call[q] /\ body'[q] = body[q]
  BY <1>1, <1>2, <1>3 DEF CjLoadInv, ReturnedOK
<1> USE DEF TypeOK, CjLoadInv, ReturnedOK, callVars
<1>4. ASSUME NEW r \in Request, NoLoader(r) \/ Call(r) \/ ReturnOk(r) PROVE Fits(q)'
  BY <1>q, <1>3, <1>4 DEF NoLoader, Call, ReturnOk, Advance
<1>5. ASSUME NEW r \in Request, Connect(r) \/ ConnectRefused(r) PROVE Fits(q)'
  BY <1>q, <1>3, <1>5 DEF Connect, ConnectRefused, Advance
<1>6. ASSUME NEW r \in Request, ReturnError(r) PROVE Fits(q)'
  BY <1>q, <1>3, <1>6 DEF ReturnError, Advance, StageOK, linkVars
<1>7. ASSUME NEW r \in Request, WaitAdBodyResult(r) PROVE Fits(q)'
  BY <1>q, <1>3, <1>7 DEF WaitAdBodyResult, Advance, toldVars
<1>8. ASSUME UNCHANGED callVars PROVE Fits(q)'
  BY <1>3, <1>8
<1> HIDE DEF Fits
<1> QED
  BY <1>4, <1>5, <1>6, <1>7, <1>8
     DEF Next, ReturnCall, Proceed, OnAbilityConnectDone, Send, SendFails, NotAnyService,
         ConnectDoneFails, OnAbilityDisconnectDone, RemoteDies, OnRemoteDied, KitReplies,
         OnRemoteRequest, vars

(* Types are kept and the invariant behind the theorems below holds.       *)
THEOREM CjLoadInvariant == Spec => [](TypeOK /\ CjLoadInv)
<1>1. Init => TypeOK /\ CjLoadInv
  <2> SUFFICES ASSUME Init PROVE TypeOK /\ CjLoadInv
    OBVIOUS
  <2>1. TypeOK
    BY DEF Init, TypeOK, CallStage, ConnStage, Watch, Payload, Element, NoElement
  <2>2. InboxOK /\ StageOK /\ ReturnedOK
    BY CjLoadAssumption DEF Init, InboxOK, StageOK, ReturnedOK
  <2> QED BY <2>1, <2>2 DEF CjLoadInv
<1>2. TypeOK /\ CjLoadInv /\ [Next]_vars => (TypeOK /\ CjLoadInv)'
  BY CjLoadTypeStep, InboxStep, StageStep, ReturnedStep DEF CjLoadInv
<1> QED
  BY <1>1, <1>2, PTL DEF Spec

(* However many threads race to settle a body's promise, it is settled     *)
(* once (compare_exchange_strong in getAdRequestBody).                     *)
THEOREM PromiseSettledOnce == Spec => SettledOnce
<1>1. (TypeOK /\ CjLoadInv) /\ [Next]_vars
        => [\A r \in Body : settled[r] # <<>> => settled'[r] = settled[r]]_vars
  BY SettlingStep, CjLoadAssumption
<1> QED
  BY <1>1, CjLoadInvariant, PTL DEF Spec, SettledOnce

-----------------------------------------------------------------------------
(* getAdRequestBody implements AdRequest.                                  *)

Stages == [q \in Body |-> StageOf(q)]
Shown  == [q \in Body |-> Returned(q)]

SameRefusals == \A q \in Request : conn'[q] = "refused" <=> conn[q] = "refused"

(* What AdRequest sees of a request depends on this much of it.            *)
LEMMA Unmoved ==
  ASSUME NEW q \in Request, call'[q] = call[q], body'[q] = body[q],
         settled'[q] = settled[q], conn'[q] = "refused" <=> conn[q] = "refused"
  PROVE  StageOf(q)' = StageOf(q) /\ Returned(q)' = Returned(q)
BY DEF StageOf, Returned

(* A step that concerns one request changes one value of each mapping.     *)
LEMMA OneMoves ==
  ASSUME NEW r \in Body,
         \A q \in Body : q # r => /\ call'[q] = call[q] /\ body'[q] = body[q]
                                  /\ settled'[q] = settled[q]
                                  /\ conn'[q] = "refused" <=> conn[q] = "refused"
  PROVE  /\ Stages' = [Stages EXCEPT ![r] = StageOf(r)']
         /\ Shown'  = [Shown EXCEPT ![r] = Returned(r)']
<1>1. \A q \in Body : q # r => StageOf(q)' = StageOf(q) /\ Returned(q)' = Returned(q)
  BY Unmoved, CjLoadAssumption
<1> QED
  BY <1>1 DEF Stages, Shown

LEMMA NoneMoves ==
  ASSUME \A q \in Body : /\ call'[q] = call[q] /\ body'[q] = body[q]
                         /\ settled'[q] = settled[q]
                         /\ conn'[q] = "refused" <=> conn[q] = "refused"
  PROVE  UNCHANGED Promised!vars
<1>1. \A q \in Body : StageOf(q)' = StageOf(q) /\ Returned(q)' = Returned(q)
  BY Unmoved, CjLoadAssumption
<1> QED
  BY <1>1 DEF Promised!vars

(* The steps of AdRequest in terms of the mappings.                        *)
LEMMA MoveMaps ==
  ASSUME NEW r \in Body, NEW s, NEW t, StageOf(r) = s,
         Stages' = [Stages EXCEPT ![r] = t], Shown' = Shown,
         \/ s = "idle"  /\ t = "asked"
         \/ s = "asked" /\ t \in {"refused", "granted", "denied"}
  PROVE  Promised!Next
BY DEF Stages, Shown, Promised!Next, Promised!Ask, Promised!Refuse, Promised!Answer,
       Promised!Move

LEMMA TellMaps ==
  ASSUME NEW r \in Body, Returned(r) = <<>>, Stages' = Stages,
         \/ StageOf(r) \in {"refused", "denied", "granted"}
              /\ Shown' = [Shown EXCEPT ![r] = <<"failure">>]
         \/ StageOf(r) = "granted"
              /\ Shown' = [Shown EXCEPT ![r] = <<"success">>]
  PROVE  Promised!Next
<1>1. Promised!Tell(r)
  BY DEF Stages, Shown, Promised!Tell, Promised!Outcomes
<1> QED
  BY <1>1 DEF Promised!Next

(* The first outcome that reaches a promise is the provider's answer; any  *)
(* later one changes nothing.                                              *)
LEMMA SettleMaps ==
  ASSUME TypeOK, CjLoadInv, NEW r \in Body, NEW outcome \in Outcome,
         conn[r] \notin {"none", "refused"},
         settled' = Settled(r, outcome), UNCHANGED callVars, SameRefusals
  PROVE  [Promised!Next]_(Promised!vars)
<1> r \in Request /\ Body \subseteq Request
  BY CjLoadAssumption
<1>1. CASE settled[r] # <<>>
  <2>1. settled' = settled
    BY <1>1 DEF Settled
  <2> QED BY <2>1, NoneMoves DEF callVars, SameRefusals
<1>2. CASE settled[r] = <<>>
  <2>1. settled'[r] # <<>> /\ \A q \in Request : q # r => settled'[q] = settled[q]
    BY SettledEffect
  <2>2. /\ Stages' = [Stages EXCEPT ![r] = StageOf(r)']
        /\ Shown'  = [Shown EXCEPT ![r] = Returned(r)']
    BY <2>1, OneMoves DEF callVars, SameRefusals
  <2>3. call[r] # "idle"
    BY DEF CjLoadInv, StageOK
  <2>4. StageOf(r) = "asked" /\ StageOf(r)' \in {"granted", "denied"}
    BY <1>2, <2>1, <2>3 DEF StageOf, callVars, SameRefusals
  <2>5. Returned(r)' = Returned(r)
    BY DEF Returned, callVars
  <2>6. Shown' = Shown
    BY <2>2, <2>5 DEF Shown
  <2> QED BY <2>2, <2>4, <2>6, MoveMaps
<1> QED
  BY <1>1, <1>2

LEMMA FailMaps ==
  ASSUME TypeOK, CjLoadInv, NEW r \in Request, NEW code \in Int, Fail(r, code),
         conn[r] \notin {"none", "refused"}, UNCHANGED callVars, SameRefusals
  PROVE  [Promised!Next]_(Promised!vars)
<1>1. CASE r \in Body
  BY <1>1, FailOutcome, SettleMaps DEF Fail
<1>2. CASE r \notin Body
  BY <1>2, NoneMoves, CjLoadAssumption DEF Fail, callVars, SameRefusals
<1> QED
  BY <1>1, <1>2

LEMMA CallerMaps ==
  ASSUME TypeOK, CjLoadInv, NEW r \in Request,
         \/ NoLoader(r) \/ Call(r) \/ Connect(r) \/ ConnectRefused(r)
         \/ ReturnError(r) \/ ReturnOk(r) \/ WaitAdBodyResult(r)
  PROVE  [Promised!Next]_(Promised!vars)
<1> Body \subseteq Request
  BY CjLoadAssumption
<1> DEFINE Others == \A q \in Request : q # r =>
                       /\ call'[q] = call[q] /\ body'[q] = body[q]
                       /\ settled'[q] = settled[q]
                       /\ conn'[q] = "refused" <=> conn[q] = "refused"
<1>1. Others
  BY DEF NoLoader, Call, Connect, ConnectRefused, ReturnError, ReturnOk, WaitAdBodyResult,
         Advance, linkVars, toldVars, TypeOK
<1>2. CASE r \notin Body
  BY <1>1, <1>2, NoneMoves
<1>3. CASE r \in Body
  <2>1. /\ Stages' = [Stages EXCEPT ![r] = StageOf(r)']
        /\ Shown'  = [Shown EXCEPT ![r] = Returned(r)']
    BY <1>1, <1>3, OneMoves
  <2> HIDE DEF Others
  <2> USE <1>3 DEF StageOf, Returned, Advance, linkVars, toldVars, TypeOK, CjLoadInv, StageOK,
                   ReturnedOK
  <2>2. CASE Call(r)
    <3>1. StageOf(r) = "idle" /\ StageOf(r)' = "asked" /\ Returned(r)' = Returned(r)
      BY <2>2 DEF Call
    <3>2. Shown' = Shown
      BY <2>1, <3>1 DEF Shown
    <3> HIDE DEF StageOf, Returned
    <3> QED BY <2>1, <3>1, <3>2, MoveMaps
  <2>3. CASE ConnectRefused(r)
    <3>1. StageOf(r) = "asked" /\ StageOf(r)' = "refused" /\ Returned(r)' = Returned(r)
      BY <2>3 DEF ConnectRefused
    <3>2. Shown' = Shown
      BY <2>1, <3>1 DEF Shown
    <3> HIDE DEF StageOf, Returned
    <3> QED BY <2>1, <3>1, <3>2, MoveMaps
  <2>4. CASE Connect(r) \/ ReturnOk(r)
    <3>1. StageOf(r)' = StageOf(r) /\ Returned(r)' = Returned(r)
      BY <2>4 DEF Connect, ReturnOk
    <3> HIDE DEF StageOf, Returned
    <3>2. Stages' = Stages /\ Shown' = Shown
      BY <2>1, <3>1 DEF Stages, Shown
    <3> QED BY <3>2 DEF Stages, Shown, Promised!vars
  <2>5. CASE ReturnError(r)
    <3>1. StageOf(r) = "refused" /\ StageOf(r)' = "refused"
      BY <2>5 DEF ReturnError
    <3>2. Returned(r) = <<>> /\ Returned(r)' = <<"failure">>
      BY <2>5 DEF ReturnError
    <3>3. Stages' = Stages
      BY <2>1, <3>1 DEF Stages
    <3> HIDE DEF StageOf, Returned
    <3> QED BY <2>1, <3>1, <3>2, <3>3, TellMaps
  <2>6. CASE WaitAdBodyResult(r)
    <3>1. StageOf(r) \in {"granted", "denied"} /\ StageOf(r)' = StageOf(r)
      BY <2>6 DEF WaitAdBodyResult
    <3>2. Returned(r) = <<>>
      BY <2>6 DEF WaitAdBodyResult
    <3>3. \/ Returned(r)' = <<"failure">>
          \/ Returned(r)' = <<"success">> /\ StageOf(r) = "granted"
      BY <2>6 DEF WaitAdBodyResult
    <3>4. Stages' = Stages
      BY <2>1, <3>1 DEF Stages
    <3> HIDE DEF StageOf, Returned
    <3> QED BY <2>1, <3>1, <3>2, <3>3, <3>4, TellMaps
  <2>7. ~NoLoader(r)
    BY DEF NoLoader
  <2> QED BY <2>2, <2>3, <2>4, <2>5, <2>6, <2>7
<1> QED
  BY <1>2, <1>3

LEMMA PromiseStep ==
  TypeOK /\ CjLoadInv /\ [Next]_vars => [Promised!Next]_(Promised!vars)
<1> SUFFICES ASSUME TypeOK, CjLoadInv, [Next]_vars
             PROVE  [Promised!Next]_(Promised!vars)
  OBVIOUS
<1> DEFINE Goal == [Promised!Next]_(Promised!vars)
<1> USE DEF SameRefusals
<1>1. ASSUME NEW r \in Request,
             \/ NoLoader(r) \/ Call(r) \/ Connect(r) \/ ConnectRefused(r)
             \/ ReturnError(r) \/ ReturnOk(r) \/ WaitAdBodyResult(r)
      PROVE  Goal
  BY <1>1, CallerMaps
<1>2. ASSUME NEW r \in Request,
             \/ OnAbilityConnectDone(r) \/ Send(r) \/ SendFails(r)
             \/ OnAbilityDisconnectDone(r) \/ RemoteDies(r) \/ KitReplies(r)
      PROVE  Goal
  <2>1. UNCHANGED <<callVars, settled>> /\ SameRefusals
    BY <1>2 DEF OnAbilityConnectDone, Send, SendFails, OnAbilityDisconnectDone, RemoteDies,
                KitReplies, Link, linkVars, toldVars, TypeOK
  <2> QED BY <2>1, NoneMoves, CjLoadAssumption DEF callVars
<1>3. ASSUME NEW r \in Request, NotAnyService(r) \/ ConnectDoneFails(r) PROVE Goal
  <2>1. PICK code \in Int : Fail(r, code)
    BY <1>3, Codes, CjLoadAssumption DEF NotAnyService, ConnectDoneFails
  <2>2. conn[r] \notin {"none", "refused"} /\ UNCHANGED callVars /\ SameRefusals
    BY <1>3 DEF NotAnyService, ConnectDoneFails, Link, TypeOK
  <2> QED BY <2>1, <2>2, FailMaps
<1>4. ASSUME NEW r \in Request, OnRemoteDied(r) PROVE Goal
  <2>1. /\ conn[r] \notin {"none", "refused"} /\ UNCHANGED callVars /\ SameRefusals
        /\ Fail(r, INNER_ERR)
    BY <1>4 DEF OnRemoteDied, CjLoadInv, StageOK
  <2> QED BY <2>1, Codes, FailMaps
<1>5. ASSUME NEW m \in inbox, OnRemoteRequest(m) PROVE Goal
  <2>1. m.req \in Request /\ replies[m.req][m.seq] \in Outcome
    BY ReplyType DEF CjLoadInv
  <2>2. conn[m.req] \notin {"none", "refused"}
    BY DEF CjLoadInv, InboxOK
  <2>3. UNCHANGED callVars /\ SameRefusals
    BY <1>5 DEF OnRemoteRequest, linkVars
  <2>4. CASE m.req \in Body
    <3>1. settled' = Settled(m.req, replies[m.req][m.seq])
      BY <1>5, <2>4 DEF OnRemoteRequest
    <3> QED BY <2>1, <2>2, <2>3, <2>4, <3>1, SettleMaps
  <2>5. CASE m.req \notin Body
    <3>1. settled' = settled
      BY <1>5, <2>5 DEF OnRemoteRequest
    <3> QED BY <2>3, <3>1, NoneMoves, CjLoadAssumption DEF callVars
  <2> QED BY <2>4, <2>5
<1>6. ASSUME UNCHANGED vars PROVE Goal
  BY <1>6, NoneMoves DEF vars, callVars, linkVars, toldVars
<1>7. Goal
  <2> HIDE DEF Goal
  <2> QED
    BY <1>1, <1>2, <1>3, <1>4, <1>5, <1>6 DEF Next, ReturnCall, Proceed
<1> QED
  BY <1>7

(* Whichever thread ends the wait, getAdRequestBody keeps the promise of    *)
(* AdRequest: one result for each call, a body only if the provider        *)
(* granted one.                                                            *)
THEOREM BodyKeepsPromiseCorrect == Spec => BodyKeepsPromise
<1>1. Init => Promised!Init
  BY CjLoadAssumption DEF Init, Promised!Init, StageOf, Returned
<1>2. (TypeOK /\ CjLoadInv) /\ [Next]_vars => [Promised!Next]_(Promised!vars)
  BY PromiseStep
<1> QED
  BY <1>1, <1>2, CjLoadInvariant, PTL DEF Spec, BodyKeepsPromise, Promised!Spec

-----------------------------------------------------------------------------
(* What is told has a cause.                                               *)

(* Refusals, failures, obituaries and answers stay what they are.          *)
LEMMA CausesStay ==
  ASSUME TypeOK, CjLoadInv, [Next]_vars, NEW q \in Request
  PROVE  /\ conn[q] = "refused" => conn'[q] = "refused"
         /\ conn[q] = "failed"  => conn'[q] = "failed"
         /\ watch[q] = "fired"  => watch'[q] = "fired"
         /\ \A i \in DOMAIN replies[q] :
              i \in DOMAIN replies'[q] /\ replies'[q][i] = replies[q][i]
<1> USE DEF TypeOK, CjLoadInv, StageOK
<1> DEFINE Goal ==
      /\ conn[q] = "refused" => conn'[q] = "refused"
      /\ conn[q] = "failed"  => conn'[q] = "failed"
      /\ watch[q] = "fired"  => watch'[q] = "fired"
      /\ \A i \in DOMAIN replies[q] :
           i \in DOMAIN replies'[q] /\ replies'[q][i] = replies[q][i]
<1>1. ASSUME NEW r \in Request,
             \/ NoLoader(r) \/ Call(r) \/ ReturnCall(r) \/ WaitAdBodyResult(r)
      PROVE  Goal
  BY <1>1 DEF NoLoader, Call, ReturnCall, ReturnError, ReturnOk, WaitAdBodyResult, linkVars, kitVars
<1>2. ASSUME NEW r \in Request, Connect(r) \/ ConnectRefused(r) PROVE Goal
  BY <1>2 DEF Connect, ConnectRefused, Advance, kitVars
<1>3. ASSUME NEW r \in Request, OnAbilityConnectDone(r) PROVE Goal
  BY <1>3 DEF OnAbilityConnectDone, Link, kitVars
<1>4. ASSUME NEW r \in Request, Proceed(r) \/ ConnectDoneFails(r) PROVE Goal
  BY <1>4 DEF Proceed, Send, SendFails, NotAnyService, ConnectDoneFails, Link, kitVars
<1>5. ASSUME NEW r \in Request, OnAbilityDisconnectDone(r) PROVE Goal
  BY <1>5 DEF OnAbilityDisconnectDone, kitVars
<1>6. ASSUME NEW r \in Request, RemoteDies(r) \/ OnRemoteDied(r) PROVE Goal
  BY <1>6 DEF RemoteDies, OnRemoteDied, kitVars
<1>7. ASSUME NEW r \in Request, KitReplies(r) PROVE Goal
  BY <1>7 DEF KitReplies, linkVars
<1>8. ASSUME NEW m \in inbox, OnRemoteRequest(m) PROVE Goal
  BY <1>8 DEF OnRemoteRequest, linkVars
<1>9. ASSUME UNCHANGED vars PROVE Goal
  BY <1>9 DEF vars, linkVars, kitVars
<1>10. Goal
  <2> HIDE DEF Goal
  <2> QED
    BY <1>1, <1>2, <1>3, <1>4, <1>5, <1>6, <1>7, <1>8, <1>9 DEF Next
<1> QED
  BY <1>10

LEMMA LoadCauseStays ==
  ASSUME TypeOK, CjLoadInv, [Next]_vars, NEW q \in Request, NEW event, LoadCause(q, event)
  PROVE  LoadCause(q, event)'
BY CausesStay DEF LoadCause, FailureCause

LEMMA BodyCauseStays ==
  ASSUME TypeOK, CjLoadInv, [Next]_vars, NEW q \in Request, NEW outcome, BodyCause(q, outcome)
  PROVE  BodyCause(q, outcome)'
BY CausesStay DEF BodyCause, FailureCause

(* What Fail does, where the failure has a cause.                          *)
LEMMA FailEffect ==
  ASSUME TypeOK, NEW r \in Request, NEW code \in Int, Fail(r, code), FailureCause(r, code)',
         NEW q \in Request
  PROVE  /\ \/ told'[q] = told[q]
            \/ \E event \in Event : told'[q] = Append(told[q], event) /\ LoadCause(q, event)'
         /\ \/ settled'[q] = settled[q]
            \/ \E outcome \in Outcome :
                 settled'[q] = <<outcome>> /\ BodyCause(q, outcome)'
<1>1. CASE r \in Body
  <2> DEFINE o == [code |-> code, payload |-> "empty"]
  <2>1. o \in Outcome /\ o.code = code /\ o.payload = "empty"
    BY FailOutcome
  <2>2. told' = told /\ settled' = Settled(r, o)
    BY <1>1 DEF Fail
  <2>3. BodyCause(r, o)'
    BY <2>1 DEF BodyCause
  <2> HIDE DEF o
  <2>4. settled'[q] = settled[q] \/ (q = r /\ settled'[q] = <<o>>)
    BY <2>2 DEF Settled, TypeOK
  <2> QED BY <2>1, <2>2, <2>3, <2>4
<1>2. CASE r \notin Body
  <2>1. Failure(code) \in Event /\ Failure(code).what = "failure" /\ Failure(code).code = code
    BY FailureType DEF Failure
  <2>2. settled' = settled /\ told' = Told(r, Failure(code))
    BY <1>2 DEF Fail
  <2>3. LoadCause(r, Failure(code))'
    BY <2>1 DEF LoadCause
  <2>4. told'[q] = told[q] \/ (q = r /\ told'[q] = Append(told[q], Failure(code)))
    BY <2>2 DEF Told, TypeOK
  <2> QED BY <2>1, <2>2, <2>3, <2>4
<1> QED
  BY <1>1, <1>2

(* Every call of a listener and every value of a promise has its cause when *)
(* it is made.                                                             *)
LEMMA NewVerdict ==
  ASSUME TypeOK, CjLoadInv, [Next]_vars, NEW q \in Request
  PROVE  /\ \/ told'[q] = told[q]
            \/ \E event \in Event : told'[q] = Append(told[q], event) /\ LoadCause(q, event)'
         /\ \/ settled'[q] = settled[q]
            \/ \E outcome \in Outcome :
                 settled'[q] = <<outcome>> /\ BodyCause(q, outcome)'
<1> DEFINE Goal ==
      /\ \/ told'[q] = told[q]
         \/ \E event \in Event : told'[q] = Append(told[q], event) /\ LoadCause(q, event)'
      /\ \/ settled'[q] = settled[q]
         \/ \E outcome \in Outcome : settled'[q] = <<outcome>> /\ BodyCause(q, outcome)'
<1> DEFINE Refusal == Failure(ERR_AD_COMMON_AD_CONNECT_KIT_ERROR)
<1>0. /\ Refusal \in Event
      /\ Refusal.what = "failure" /\ Refusal.code = ERR_AD_COMMON_AD_CONNECT_KIT_ERROR
  BY FailureType, Codes DEF Failure
<1>1. ASSUME NEW r \in Request, conn'[r] = "refused", told' = Told(r, Refusal), settled' = settled
      PROVE  Goal
  <2> HIDE DEF Refusal
  <2>1. LoadCause(r, Refusal)'
    BY <1>0, <1>1 DEF LoadCause, FailureCause
  <2>2. told'[q] = told[q] \/ (q = r /\ told'[q] = Append(told[q], Refusal))
    BY <1>1 DEF Told, TypeOK
  <2> QED BY <1>0, <1>1, <2>1, <2>2
<1>2. ASSUME UNCHANGED toldVars PROVE Goal
  BY <1>2 DEF toldVars
<1>3. ASSUME NEW r \in Request, ConnectRefused(r) PROVE Goal
  <2>1. conn'[r] = "refused" /\ settled' = settled
    BY <1>3 DEF ConnectRefused, TypeOK
  <2>2. told' = told \/ told' = Told(r, Refusal)
    BY <1>3 DEF ConnectRefused
  <2>3. CASE told' = told
    BY <2>1, <2>3
  <2>4. CASE told' = Told(r, Refusal)
    <3> HIDE DEF Goal, Refusal
    <3> QED BY <1>1, <2>1, <2>4
  <2> HIDE DEF Goal, Refusal
  <2> QED BY <2>2, <2>3, <2>4
<1>4. ASSUME NEW r \in Request, ReturnError(r) PROVE Goal
  <2>1. conn'[r] = "refused" /\ settled' = settled
    BY <1>4 DEF ReturnError, Advance, linkVars, TypeOK, CjLoadInv, StageOK
  <2>2. told' = told \/ told' = Told(r, Refusal)
    BY <1>4 DEF ReturnError
  <2>3. CASE told' = told
    BY <2>1, <2>3
  <2>4. CASE told' = Told(r, Refusal)
    <3> HIDE DEF Goal, Refusal
    <3> QED BY <1>1, <2>1, <2>4
  <2> HIDE DEF Goal, Refusal
  <2> QED BY <2>2, <2>3, <2>4
<1>5. ASSUME NEW r \in Request, NotAnyService(r) PROVE Goal
  <2>1. Fail(r, INNER_ERR) /\ conn'[r] = "failed"
    BY <1>5 DEF NotAnyService, Link, TypeOK
  <2>2. FailureCause(r, INNER_ERR)'
    BY <2>1 DEF FailureCause
  <2> QED BY <2>1, <2>2, FailEffect, Codes
<1>6. ASSUME NEW r \in Request, ConnectDoneFails(r) PROVE Goal
  <2>1. PICK code \in ConnectCode : Fail(r, code)
    BY <1>6 DEF ConnectDoneFails
  <2>2. conn'[r] = "failed"
    BY <1>6 DEF ConnectDoneFails, Link, TypeOK
  <2>3. FailureCause(r, code)'
    BY <2>2 DEF FailureCause
  <2>4. code \in Int
    BY CjLoadAssumption
  <2> QED BY <2>1, <2>3, <2>4, FailEffect
<1>7. ASSUME NEW r \in Request, OnRemoteDied(r) PROVE Goal
  <2>1. Fail(r, INNER_ERR) /\ watch'[r] = "fired"
    BY <1>7 DEF OnRemoteDied, TypeOK
  <2>2. FailureCause(r, INNER_ERR)'
    BY <2>1 DEF FailureCause
  <2> QED BY <2>1, <2>2, FailEffect, Codes
<1>8. ASSUME NEW m \in inbox, OnRemoteRequest(m) PROVE Goal
  <2>1. PICK reply : reply = replies[m.req][m.seq]
    OBVIOUS
  <2>2. m.req \in Request /\ reply \in Outcome
    BY <2>1, ReplyType DEF CjLoadInv
  <2>3. /\ m.seq \in DOMAIN replies'[m.req] /\ replies'[m.req][m.seq] = reply
    BY <1>8, <2>1 DEF OnRemoteRequest, CjLoadInv, InboxOK, TypeOK
  <2>4. CASE m.req \in Body
    <3>1. told' = told /\ settled' = Settled(m.req, reply)
      BY <1>8, <2>1, <2>4 DEF OnRemoteRequest
    <3>2. BodyCause(m.req, reply)'
      BY <2>3 DEF BodyCause
    <3>3. settled'[q] = settled[q] \/ (q = m.req /\ settled'[q] = <<reply>>)
      BY <2>2, <3>1 DEF Settled, TypeOK
    <3> QED BY <2>2, <3>1, <3>2, <3>3
  <2>5. CASE m.req \notin Body
    <3>1. settled' = settled /\ told' = Told(m.req, LoadResult(reply))
      BY <1>8, <2>1, <2>5 DEF OnRemoteRequest
    <3>2. LoadCause(m.req, LoadResult(reply))'
      <4>1. replies[m.req][m.seq] \in Reply
        BY DEF CjLoadInv, InboxOK, TypeOK
      <4>2. CASE reply.code # LOAD_AD_SUCCESS
        BY <2>3, <4>2 DEF LoadCause, LoadResult
      <4>3. CASE reply.code = LOAD_AD_SUCCESS /\ reply.payload = "valid"
        <5>1. reply = [code |-> LOAD_AD_SUCCESS, payload |-> "valid"]
          BY <2>2, <4>3 DEF Outcome
        <5>2. LoadResult(reply) = Success
          BY <4>3 DEF LoadResult
        <5> QED BY <2>3, <5>1, <5>2 DEF LoadCause
      <4>4. CASE reply.code = LOAD_AD_SUCCESS /\ reply.payload # "valid"
        <5>1. LoadResult(reply) = Failure(REQUEST_FAIL)
          BY <4>4 DEF LoadResult
        <5> QED BY <2>3, <4>4, <5>1 DEF LoadCause
      <4> QED BY <4>2, <4>3, <4>4
    <3>3. LoadResult(reply) \in Event
      BY <2>2, Codes DEF LoadResult, Success, Failure, Event, Outcome
    <3>4. told'[q] = told[q] \/ (q = m.req /\ told'[q] = Append(told[q], LoadResult(reply)))
      BY <2>2, <3>1 DEF Told, TypeOK
    <3> QED BY <2>2, <3>1, <3>2, <3>3, <3>4
  <2> HIDE DEF Goal
  <2> QED BY <2>4, <2>5
<1>9. \/ UNCHANGED toldVars
      \/ \E r \in Request : \/ ConnectRefused(r) \/ ReturnError(r) \/ NotAnyService(r)
                            \/ ConnectDoneFails(r) \/ OnRemoteDied(r)
      \/ \E m \in inbox : OnRemoteRequest(m)
  BY DEF Next, Proceed, ReturnCall, NoLoader, Call, Connect, ReturnOk, WaitAdBodyResult,
         OnAbilityConnectDone, Send, SendFails, OnAbilityDisconnectDone, RemoteDies, KitReplies,
         toldVars, vars
<1>10. Goal
  <2> HIDE DEF Goal
  <2> QED BY <1>2, <1>3, <1>4, <1>5, <1>6, <1>7, <1>8, <1>9
<1> QED
  BY <1>10

(* What a listener is told, and what a promise is settled with, comes from  *)
(* what happened to that request: the provider's answer, its death, or a   *)
(* connection that was refused or failed.                                  *)
THEOREM CjVerdictCorrect == Spec => []VerdictHasCause
<1>1. Init => VerdictHasCause
  BY CjLoadAssumption DEF Init, VerdictHasCause
<1>2. TypeOK /\ CjLoadInv /\ VerdictHasCause /\ [Next]_vars => VerdictHasCause'
  <2> SUFFICES ASSUME TypeOK, CjLoadInv, VerdictHasCause, [Next]_vars PROVE VerdictHasCause'
    OBVIOUS
  <2>1. ASSUME NEW q \in Request, NEW i \in DOMAIN told'[q]
        PROVE  \E event : event = told'[q][i] /\ LoadCause(q, event)'
    <3>1. \A k \in DOMAIN told[q] : LoadCause(q, told[q][k])
      BY DEF VerdictHasCause
    <3>2. ASSUME NEW event, LoadCause(q, event) PROVE LoadCause(q, event)'
      BY <3>2, LoadCauseStays
    <3>3. PICK event : event = told'[q][i]
      OBVIOUS
    <3>4. \/ told'[q] = told[q]
          \/ \E new \in Event : told'[q] = Append(told[q], new) /\ LoadCause(q, new)'
      BY NewVerdict
    <3>5. CASE told'[q] = told[q]
      BY <2>1, <3>1, <3>2, <3>3, <3>5
    <3>6. ASSUME NEW new \in Event, told'[q] = Append(told[q], new), LoadCause(q, new)'
          PROVE  LoadCause(q, event)'
      <4>1. told[q] \in Seq(Event)
        BY DEF TypeOK
      <4>2. (i \in DOMAIN told[q] /\ event = told[q][i]) \/ event = new
        BY <2>1, <3>3, <3>6, <4>1
      <4> QED BY <3>1, <3>2, <3>6, <4>2
    <3> QED BY <3>3, <3>4, <3>5, <3>6
  <2>2. ASSUME NEW q \in Request, NEW i \in DOMAIN settled'[q]
        PROVE  \E outcome : outcome = settled'[q][i] /\ BodyCause(q, outcome)'
    <3>1. \A k \in DOMAIN settled[q] : BodyCause(q, settled[q][k])
      BY DEF VerdictHasCause
    <3>2. ASSUME NEW outcome, BodyCause(q, outcome) PROVE BodyCause(q, outcome)'
      BY <3>2, BodyCauseStays
    <3>3. PICK outcome : outcome = settled'[q][i]
      OBVIOUS
    <3>4. \/ settled'[q] = settled[q]
          \/ \E new \in Outcome : settled'[q] = <<new>> /\ BodyCause(q, new)'
      BY NewVerdict
    <3>5. CASE settled'[q] = settled[q]
      BY <2>2, <3>1, <3>2, <3>3, <3>5
    <3>6. ASSUME NEW new \in Outcome, settled'[q] = <<new>>, BodyCause(q, new)'
          PROVE  BodyCause(q, outcome)'
      <4>1. outcome = new
        BY <2>2, <3>3, <3>6
      <4> QED BY <3>6, <4>1
    <3> QED BY <3>3, <3>4, <3>5, <3>6
  <2> QED BY <2>1, <2>2 DEF VerdictHasCause, LoadCause, BodyCause, FailureCause
<1> QED
  BY <1>1, <1>2, CjLoadInvariant, PTL DEF Spec

-----------------------------------------------------------------------------
(* Each cause is told, once.                                               *)

Waiting(q) == {m \in inbox : m.req = q}

(* What EachCauseToldOnce counts, and that it can be counted.              *)
CountInv ==
  /\ IsFiniteSet(inbox)
  /\ \A q \in Body : Causes(q) \in Nat
  /\ EachCauseToldOnce

(* One more cause was told: the listener, or the promise.                  *)
Heard(q) ==
  IF q \in Body THEN settled'[q] # <<>> ELSE Len(told'[q]) = Len(told[q]) + 1

SameCauses(q) == Causes(q)' = Causes(q) /\ told'[q] = told[q] /\ settled'[q] = settled[q]
MoreCauses(q) == Causes(q)' = Causes(q) + 1 /\ Heard(q)

LEMMA InboxFinite == TypeOK /\ IsFiniteSet(inbox) /\ [Next]_vars => IsFiniteSet(inbox)'
<1> SUFFICES ASSUME IsFiniteSet(inbox), [Next]_vars PROVE IsFiniteSet(inbox')
  OBVIOUS
<1>1. \/ inbox' = inbox
      \/ \E m : inbox' = inbox \cup {m}
      \/ \E m : inbox' = inbox \ {m}
  BY DEF Next, Proceed, ReturnCall, NoLoader, Call, Connect, ConnectRefused, ReturnError, ReturnOk,
         WaitAdBodyResult, OnAbilityConnectDone, Send, SendFails, NotAnyService, ConnectDoneFails,
         OnAbilityDisconnectDone, RemoteDies, OnRemoteDied, KitReplies, OnRemoteRequest, kitVars, vars
<1> QED
  BY <1>1, FS_AddElement, FS_RemoveElement

(* Nothing that is counted changes.                                        *)
LEMMA CountSame ==
  ASSUME NEW q \in Request,
         replies'[q] = replies[q], Waiting(q)' = Waiting(q),
         watch'[q] = "fired" <=> watch[q] = "fired",
         conn'[q] = "failed" <=> conn[q] = "failed"
  PROVE  Causes(q)' = Causes(q)
BY DEF Causes, Taken, Count, Waiting

LEMMA TakenType ==
  ASSUME TypeOK, IsFiniteSet(inbox), NEW q \in Request
  PROVE  Cardinality(Waiting(q)) \in Nat /\ Taken(q) \in Int /\ IsFiniteSet(Waiting(q))
<1>1. IsFiniteSet(Waiting(q))
  BY FS_Subset DEF Waiting
<1>2. Cardinality(Waiting(q)) \in Nat
  BY <1>1, FS_CardinalityType
<1> QED
  BY <1>1, <1>2 DEF Taken, Waiting, TypeOK

(* A failure is told: one more cause, and it is heard.                     *)
LEMMA CountFailure ==
  ASSUME TypeOK, IsFiniteSet(inbox), NEW q \in Request,
         NEW r \in Request, NEW code \in Int, Fail(r, code), UNCHANGED kitVars,
         r # q => conn'[q] = conn[q] /\ watch'[q] = watch[q],
         r = q => \/ /\ conn[q] # "failed" /\ conn'[q] = "failed" /\ watch'[q] = watch[q]
                  \/ /\ watch[q] # "fired" /\ watch'[q] = "fired" /\ conn'[q] = conn[q]
  PROVE  SameCauses(q) \/ MoreCauses(q)
<1>1. Waiting(q)' = Waiting(q) /\ replies' = replies
  BY DEF Waiting, kitVars
<1>2. CASE r # q
  <2>1. told'[q] = told[q]
    BY <1>2 DEF Fail, Told, TypeOK
  <2>2. settled'[q] = settled[q]
    BY <1>2 DEF Fail, Settled, TypeOK
  <2> QED BY <1>1, <1>2, <2>1, <2>2, CountSame DEF SameCauses
<1>3. CASE r = q
  <2>1. Taken(q)' = Taken(q) /\ Taken(q) \in Int
    BY <1>1, TakenType DEF Taken, Waiting
  <2>2. Causes(q)' = Causes(q) + 1
    BY <1>3, <2>1 DEF Causes, Count
  <2>3. CASE q \in Body
    <3>1. settled'[q] # <<>>
      BY <1>3, <2>3, FailOutcome, SettledEffect DEF Fail
    <3> QED BY <2>2, <2>3, <3>1 DEF MoreCauses, Heard
  <2>4. CASE q \notin Body
    <3>1. told' = Told(q, Failure(code))
      BY <1>3, <2>4 DEF Fail
    <3>2. told'[q] = Append(told[q], Failure(code))
      BY <3>1 DEF Told, TypeOK
    <3>3. Failure(code) \in Event
      BY FailureType
    <3>4. Len(told'[q]) = Len(told[q]) + 1
      BY <3>2, <3>3 DEF TypeOK
    <3> QED BY <2>2, <2>4, <3>4 DEF MoreCauses, Heard
  <2> QED BY <2>3, <2>4
<1> QED
  BY <1>2, <1>3

(* A step is no cause and tells nothing, or is one and tells it.  A        *)
(* refused load is left out: it is told of its refusal.                    *)
LEMMA CountStep ==
  ASSUME TypeOK, CjLoadInv, CountInv, [Next]_vars,
         NEW q \in Request, q \in Body \/ conn'[q] # "refused"
  PROVE  SameCauses(q) \/ MoreCauses(q)
<1> DEFINE Goal == SameCauses(q) \/ MoreCauses(q)
<1>s. ASSUME told'[q] = told[q], settled'[q] = settled[q], UNCHANGED kitVars,
             watch'[q] = "fired" <=> watch[q] = "fired",
             conn'[q] = "failed" <=> conn[q] = "failed"
      PROVE  Goal
  <2>1. Waiting(q)' = Waiting(q) /\ replies' = replies
    BY <1>s DEF Waiting, kitVars
  <2> QED BY <1>s, <2>1, CountSame DEF SameCauses
<1>1. ASSUME NEW r \in Request,
             NoLoader(r) \/ Call(r) \/ ReturnOk(r) \/ WaitAdBodyResult(r) \/ RemoteDies(r)
      PROVE  Goal
  BY <1>s, <1>1 DEF NoLoader, Call, ReturnOk, WaitAdBodyResult, RemoteDies, linkVars, toldVars
<1>2. ASSUME NEW r \in Request, Connect(r) PROVE Goal
  <2>1. told' = told /\ settled' = settled /\ watch' = watch /\ UNCHANGED kitVars
    BY <1>2 DEF Connect, toldVars
  <2>2. conn'[q] = "failed" <=> conn[q] = "failed"
    BY <1>2 DEF Connect, Advance, TypeOK, CjLoadInv, StageOK
  <2> QED BY <1>s, <2>1, <2>2
<1>3. ASSUME NEW r \in Request, ConnectRefused(r) \/ ReturnError(r) PROVE Goal
  <2>1. r # q \/ q \in Body
    BY <1>3 DEF ConnectRefused, ReturnError, Advance, linkVars, TypeOK, CjLoadInv, StageOK
  <2>2. told'[q] = told[q] /\ settled' = settled /\ watch' = watch /\ UNCHANGED kitVars
    BY <1>3, <2>1 DEF ConnectRefused, ReturnError, Told, linkVars, TypeOK
  <2>3. conn'[q] = "failed" <=> conn[q] = "failed"
    BY <1>3 DEF ConnectRefused, ReturnError, Advance, linkVars, TypeOK, CjLoadInv, StageOK
  <2> QED BY <1>s, <2>2, <2>3
<1>4. ASSUME NEW r \in Request, OnAbilityConnectDone(r) PROVE Goal
  <2>1. told' = told /\ settled' = settled /\ UNCHANGED kitVars
    BY <1>4 DEF OnAbilityConnectDone, toldVars
  <2>2. /\ conn'[q] = "failed" <=> conn[q] = "failed"
        /\ watch'[q] = "fired" <=> watch[q] = "fired"
    BY <1>4 DEF OnAbilityConnectDone, Link, TypeOK, CjLoadInv, StageOK
  <2> QED BY <1>s, <2>1, <2>2
<1>5. ASSUME NEW r \in Request, Send(r) \/ SendFails(r) PROVE Goal
  <2>1. told' = told /\ settled' = settled /\ UNCHANGED kitVars /\ watch' = watch
    BY <1>5 DEF Send, SendFails, toldVars
  <2>2. conn'[q] = "failed" <=> conn[q] = "failed"
    BY <1>5 DEF Send, SendFails, Link, TypeOK
  <2> QED BY <1>s, <2>1, <2>2
<1>6. ASSUME NEW r \in Request, OnAbilityDisconnectDone(r) PROVE Goal
  <2>1. told' = told /\ settled' = settled /\ UNCHANGED kitVars
    BY <1>6 DEF OnAbilityDisconnectDone, toldVars
  <2>2. /\ conn'[q] = "failed" <=> conn[q] = "failed"
        /\ watch'[q] = "fired" <=> watch[q] = "fired"
    BY <1>6 DEF OnAbilityDisconnectDone, TypeOK
  <2> QED BY <1>s, <2>1, <2>2
<1>7. ASSUME NEW r \in Request, NotAnyService(r) \/ ConnectDoneFails(r) PROVE Goal
  <2>1. PICK code \in Int : Fail(r, code)
    BY <1>7, Codes, CjLoadAssumption DEF NotAnyService, ConnectDoneFails
  <2>2. /\ conn[r] \in {"linked", "connecting"} /\ conn' = [conn EXCEPT ![r] = "failed"]
        /\ watch' = watch /\ UNCHANGED kitVars
    BY <1>7 DEF NotAnyService, ConnectDoneFails, Link
  <2> QED BY <2>1, <2>2, CountFailure DEF TypeOK, CountInv
<1>8. ASSUME NEW r \in Request, OnRemoteDied(r) PROVE Goal
  <2>1. /\ Fail(r, INNER_ERR) /\ INNER_ERR \in Int
        /\ watch[r] = "armed" /\ watch' = [watch EXCEPT ![r] = "fired"]
        /\ conn' = conn /\ UNCHANGED kitVars
    BY <1>8, Codes DEF OnRemoteDied
  <2> QED BY <2>1, CountFailure DEF TypeOK, CountInv
<1>9. ASSUME NEW r \in Request, KitReplies(r) PROVE Goal
  <2>1. told' = told /\ settled' = settled /\ conn' = conn /\ watch' = watch
    BY <1>9 DEF KitReplies, linkVars, toldVars
  <2>2. PICK new : new = [req |-> r, seq |-> Len(replies[r]) + 1]
    OBVIOUS
  <2>3. inbox' = inbox \cup {new} /\ new.req = r /\ new.seq = Len(replies[r]) + 1
    BY <1>9, <2>2 DEF KitReplies
  <2>4. CASE r # q
    <3>1. Waiting(q)' = Waiting(q)
      BY <2>3, <2>4 DEF Waiting
    <3>2. replies'[q] = replies[q]
      BY <1>9, <2>4 DEF KitReplies, TypeOK
    <3> QED BY <2>1, <3>1, <3>2, CountSame DEF SameCauses
  <2>5. CASE r = q
    <3>1. Waiting(q)' = Waiting(q) \cup {new} /\ new \notin Waiting(q)
      BY <2>3, <2>5 DEF Waiting, CjLoadInv, InboxOK, TypeOK
    <3>2. IsFiniteSet(Waiting(q)) /\ Cardinality(Waiting(q)) \in Nat
      BY TakenType DEF CountInv
    <3>3. Cardinality(Waiting(q) \cup {new}) = Cardinality(Waiting(q)) + 1
      BY <3>1, <3>2, FS_AddElement
    <3>4. Len(replies'[q]) = Len(replies[q]) + 1 /\ Len(replies[q]) \in Nat
      BY <1>9, <2>5 DEF KitReplies, TypeOK
    <3>5. Taken(q)' = Taken(q) /\ Taken(q) \in Int
      <4>1. Taken(q)' = Len(replies'[q]) - Cardinality(Waiting(q)')
        BY DEF Taken, Waiting
      <4>2. Taken(q) = Len(replies[q]) - Cardinality(Waiting(q))
        BY DEF Taken, Waiting
      <4> QED BY <3>1, <3>2, <3>3, <3>4, <4>1, <4>2
    <3> QED BY <2>1, <3>5 DEF SameCauses, Causes, Count
  <2> QED BY <2>4, <2>5
<1>10. ASSUME NEW m \in inbox, OnRemoteRequest(m) PROVE Goal
  <2>1. conn' = conn /\ watch' = watch /\ replies' = replies /\ inbox' = inbox \ {m}
    BY <1>10 DEF OnRemoteRequest, linkVars
  <2>2. m.req \in Request /\ replies[m.req][m.seq] \in Outcome
    BY ReplyType DEF CjLoadInv
  <2>3. CASE m.req # q
    <3>1. Waiting(q)' = Waiting(q)
      BY <2>1, <2>3 DEF Waiting
    <3>2. told'[q] = told[q]
      BY <1>10, <2>2, <2>3 DEF OnRemoteRequest, Told, TypeOK
    <3>3. settled'[q] = settled[q]
      BY <1>10, <2>2, <2>3 DEF OnRemoteRequest, Settled, TypeOK
    <3> QED BY <2>1, <3>1, <3>2, <3>3, CountSame DEF SameCauses
  <2>4. CASE m.req = q
    <3>1. Waiting(q)' = Waiting(q) \ {m} /\ m \in Waiting(q)
      BY <2>1, <2>4 DEF Waiting
    <3>2. IsFiniteSet(Waiting(q)) /\ Cardinality(Waiting(q)) \in Nat
      BY TakenType DEF CountInv
    <3>3. Cardinality(Waiting(q) \ {m}) = Cardinality(Waiting(q)) - 1
      BY <3>1, <3>2, FS_RemoveElement
    <3>4. ASSUME q \in Body PROVE Heard(q)
      BY <1>10, <2>2, <2>4, <3>4, SettledEffect DEF OnRemoteRequest, Heard
    <3>5. ASSUME q \notin Body PROVE Heard(q)
      <4>1. PICK event : event = LoadResult(replies[q][m.seq])
        OBVIOUS
      <4>2. event \in Event
        BY <2>2, <2>4, <4>1, Codes DEF LoadResult, Success, Failure, Event, Outcome
      <4>3. told' = Told(q, event)
        BY <1>10, <2>4, <3>5, <4>1 DEF OnRemoteRequest
      <4>4. Len(told'[q]) = Len(told[q]) + 1
        BY <4>2, <4>3 DEF Told, TypeOK
      <4> QED BY <3>5, <4>4 DEF Heard
    <3>6. Heard(q)
      BY <3>4, <3>5
    <3>7. Taken(q)' = Taken(q) + 1 /\ Taken(q) \in Int
      <4>1. Taken(q)' = Len(replies[q]) - Cardinality(Waiting(q)')
        BY <2>1 DEF Taken, Waiting
      <4>2. Taken(q) = Len(replies[q]) - Cardinality(Waiting(q))
        BY DEF Taken, Waiting
      <4>3. Len(replies[q]) \in Nat
        BY DEF TypeOK
      <4> QED BY <3>1, <3>2, <3>3, <4>1, <4>2, <4>3
    <3> QED BY <2>1, <3>6, <3>7 DEF MoreCauses, Causes, Count
  <2> QED BY <2>3, <2>4
<1>11. ASSUME UNCHANGED vars PROVE Goal
  BY <1>s, <1>11 DEF vars, linkVars, toldVars
<1>12. Goal
  <2> HIDE DEF Goal
  <2> QED
    BY <1>1, <1>2, <1>3, <1>4, <1>5, <1>6, <1>7, <1>8, <1>9, <1>10, <1>11
       DEF Next, Proceed, ReturnCall
<1> QED
  BY <1>12

LEMMA CountInvStep == TypeOK /\ CjLoadInv /\ CountInv /\ [Next]_vars => CountInv'
<1> SUFFICES ASSUME TypeOK, CjLoadInv, CountInv, [Next]_vars PROVE CountInv'
  OBVIOUS
<1>1. IsFiniteSet(inbox)'
  BY InboxFinite DEF CountInv
<1>2. ASSUME NEW q \in Body PROVE q \in Request /\ Causes(q) \in Nat
  BY CjLoadAssumption DEF CountInv
<1>3. ASSUME NEW q \in Body PROVE Causes(q)' \in Nat
  BY <1>2, CountStep DEF SameCauses, MoreCauses
<1>4. ASSUME NEW q \in Request \ Body, conn'[q] # "refused" PROVE Len(told'[q]) = Causes(q)'
  <2>1. Len(told[q]) = Causes(q)
    BY <1>4, CausesStay DEF CountInv, EachCauseToldOnce
  <2> QED BY <1>4, <2>1, CountStep DEF SameCauses, MoreCauses, Heard
<1>5. ASSUME NEW q \in Body PROVE settled'[q] = <<>> <=> Causes(q)' = 0
  <2>1. q \in Request /\ Causes(q) \in Nat
    BY <1>2
  <2>2. settled[q] = <<>> <=> Causes(q) = 0
    BY DEF CountInv, EachCauseToldOnce
  <2>3. SameCauses(q) \/ MoreCauses(q)
    BY <2>1, CountStep
  <2>4. Causes(q)' = Causes(q) + 1 => Causes(q)' # 0
    BY <2>1
  <2> QED BY <2>2, <2>3, <2>4 DEF SameCauses, MoreCauses, Heard
<1> QED
  BY <1>1, <1>3, <1>4, <1>5 DEF CountInv, EachCauseToldOnce

(* The listener of an accepted load is called as often as an answer was    *)
(* taken, the provider died or its connection failed; a body's promise is  *)
(* settled exactly if one of these happened.                               *)
THEOREM EachCauseToldOnceCorrect == Spec => []EachCauseToldOnce
<1>1. Init => CountInv
  <2> SUFFICES ASSUME Init PROVE CountInv
    OBVIOUS
  <2>1. IsFiniteSet(inbox) /\ inbox = {}
    BY FS_EmptySet DEF Init
  <2>2. ASSUME NEW q \in Request PROVE Causes(q) = 0 /\ Len(told[q]) = 0 /\ settled[q] = <<>>
    <3>1. {m \in inbox : m.req = q} = {}
      BY <2>1
    <3>2. Cardinality({m \in inbox : m.req = q}) = 0
      BY <3>1, FS_EmptySet
    <3>3. /\ Len(told[q]) = 0 /\ Len(replies[q]) = 0 /\ settled[q] = <<>>
          /\ watch[q] = "none" /\ conn[q] = "none"
      BY DEF Init
    <3> QED BY <3>2, <3>3 DEF Causes, Taken, Count
  <2>3. Body \subseteq Request
    BY CjLoadAssumption
  <2> QED BY <2>1, <2>2, <2>3 DEF CountInv, EachCauseToldOnce
<1>2. CountInv => EachCauseToldOnce
  BY DEF CountInv
<1> QED
  BY <1>1, <1>2, CountInvStep, CjLoadInvariant, PTL DEF Spec
=============================================================================
