------------------------ MODULE AdLoadPipelineProofs ------------------------
(***************************************************************************)
(* Theorems about AdLoadPipeline, for any set of requests, any codes of    *)
(* the provider and any configuration file, and about AdEndToEnd, for any  *)
(* messages, answers and texts too.                                        *)
(***************************************************************************)
EXTENDS AdEndToEnd, TLAPS

-----------------------------------------------------------------------------
(* Types.                                                                  *)

(* Converting a code gives a number.                                       *)
LEMMA ErrCodeConvertType ==
  ASSUME NEW code \in Int
  PROVE  ErrCodeConvert(code) \in Int
BY DEF ErrCodeConvert, PARAM_ERR, REQUEST_FAIL, DEVICE_ERR, INNER_ERR,
       AD_LOAD_PARAMS_ERROR, AD_LOAD_FAIL, DEVICE_NOT_SUPPORT_ERROR

(* What the stubs make of an answer is an event.                           *)
LEMMA StubResultType ==
  ASSUME NEW r \in Request, NEW reply \in Reply
  PROVE  StubResult(r, reply) \in Event
<1>1. reply.code \in Int
  BY PipelineAssumption DEF Reply
<1> QED
  BY <1>1, ErrCodeConvertType DEF StubResult, Event, Success, Failure, ERR_SEND_OK

(* What an application is told of posted work is a sequence of events.     *)
LEMMA TellType ==
  ASSUME NEW w \in Work,
         NEW events \in IF IsLoad(w.req) THEN TellLoad(w) ELSE TellBody(w)
  PROVE  events \in Seq(Event)
<1>1. Success \in Event /\ \A c \in Int : Failure(c) \in Event
  BY DEF Event, Success, Failure, ERR_SEND_OK
<1>2. Undefined \in Int /\ w.code \in Int
  BY DEF Undefined, Work
<1>3. events \in {<<Failure(w.code)>>, <<Failure(Undefined)>>, <<Success>>,
                  <<Success, Failure(Undefined)>>}
  BY DEF TellLoad, TellBody, Work
<1>4. \A e \in Event, f \in Event : <<e>> \in Seq(Event) /\ <<e, f>> \in Seq(Event)
  OBVIOUS
<1> QED
  BY <1>1, <1>2, <1>3, <1>4

(* Reading a file leaves an element of names.                              *)
LEMMA ParsedType ==
  ASSUME NEW f \in File, NEW e \in Element
  PROVE  Parsed(f, e) \in Element
<1>1. CASE Usable(f)
  BY <1>1 DEF Parsed, File, Element, Usable
<1>2. CASE ~Usable(f)
  BY <1>2 DEF Parsed
<1> QED
  BY <1>1, <1>2

LEMMA TypeInit == Init => TypeOK
<1> SUFFICES ASSUME Init PROVE TypeOK
  OBVIOUS
<1> USE DEF Init
<1>1. NoElement \in Element
  BY DEF NoElement, Element
<1>2. call \in [Request -> CallStage] /\ listener \in [Request -> Listener]
      /\ conn \in [Request -> ConnStage]
  BY DEF CallStage, Listener, ConnStage
<1>3. err \in [Request -> Int] /\ target \in [Request -> Element]
  BY <1>1 DEF ERR_SEND_OK
<1>4. replies \in [Request -> Seq(Reply)] /\ heard \in [Request -> Seq(Event)]
  OBVIOUS
<1> QED
  BY <1>1, <1>2, <1>3, <1>4 DEF TypeOK

LEMMA TypeStep == TypeOK /\ InboxOK /\ [Next]_vars => TypeOK'
<1> SUFFICES ASSUME TypeOK, InboxOK, [Next]_vars PROVE TypeOK'
  OBVIOUS
<1> USE DEF TypeOK, callVars, connVars
<1>1. ASSUME NEW r \in Request, ThrowParamError(r) PROVE TypeOK'
  <2>1. Failure(PARAM_ERR) \in Event
    BY DEF Failure, Event, PARAM_ERR
  <2> QED BY <1>1, <2>1 DEF ThrowParamError, CallStage
<1>2. ASSUME NEW r \in Request, CheckParamAndLoad(r) PROVE TypeOK'
  BY <1>2 DEF CheckParamAndLoad, CallStage
<1>3. ASSUME NEW r \in Request, LoadAd(r) PROVE TypeOK'
  BY <1>3 DEF LoadAd, CallStage
<1>4. ASSUME NEW r \in Request, GetAdRequestBody(r) PROVE TypeOK'
  <2>1. Failure(PARAM_ERROR_TEXT) \in Event
    BY DEF Failure, Event, PARAM_ERROR_TEXT
  <2>2. <<Failure(PARAM_ERROR_TEXT)>> \in Seq(Event)
    BY <2>1
  <2>3. listener' \in [Request -> Listener] /\ call' \in [Request -> CallStage]
    BY <1>4 DEF GetAdRequestBody, Listener, CallStage
  <2>4. CASE heard' = heard
    BY <1>4, <2>3, <2>4 DEF GetAdRequestBody
  <2>5. CASE heard' = [heard EXCEPT ![r] = <<Failure(PARAM_ERROR_TEXT)>>]
    BY <1>4, <2>2, <2>3, <2>5 DEF GetAdRequestBody
  <2> QED BY <1>4, <2>4, <2>5 DEF GetAdRequestBody
<1>5. ASSUME NEW r \in Request, ReadConfig(r) PROVE TypeOK'
  <2>1. file \in File
    BY PipelineAssumption
  <2>2. element' \in Element
    BY <1>5, <2>1, ParsedType DEF ReadConfig
  <2> QED BY <1>5, <2>2 DEF ReadConfig, CallStage
<1>6. ASSUME NEW r \in Request, Execute(r) PROVE TypeOK'
  <2>1. CASE ReturnWithoutCallback(r)
    BY <2>1 DEF ReturnWithoutCallback, Executed, CallStage,
                ERR_AD_COMMON_AD_SA_REMOTE_OBJECT_ERROR
  <2>2. CASE Connect(r)
    BY <2>2 DEF Connect, Executed, CallStage, ConnStage, ERR_SEND_OK
  <2>3. CASE ConnectRefused(r)
    <3> DEFINE refusal == [req |-> r, seq |-> 0, what |-> "failure",
                           code |-> ErrCodeConvert(ERR_AD_COMMON_AD_CONNECT_KIT_ERROR),
                           payload |-> "valid"]
    <3>1. refusal \in Work
      BY ErrCodeConvertType DEF Work, ERR_AD_COMMON_AD_CONNECT_KIT_ERROR, Payload
    <3> HIDE DEF refusal
    <3>2. posted' = posted \cup {refusal} \/ posted' = posted
      BY <2>3 DEF ConnectRefused, refusal
    <3>3. call' \in [Request -> CallStage] /\ conn' \in [Request -> ConnStage]
      BY <2>3 DEF ConnectRefused, Executed, CallStage, ConnStage
    <3>4. err' \in [Request -> Int]
      BY <2>3 DEF ConnectRefused, Executed, INNER_ERR, ERR_AD_COMMON_AD_CONNECT_KIT_ERROR
    <3>5. UNCHANGED <<file, element, listener, target, replies, inbox, heard>>
      BY <2>3 DEF ConnectRefused
    <3> QED BY <3>1, <3>2, <3>3, <3>4, <3>5
  <2> QED BY <1>6, <2>1, <2>2, <2>3 DEF Execute
<1>7. ASSUME NEW r \in Request, Complete(r) PROVE TypeOK'
  <2>1. Failure(err[r]) \in Event
    BY DEF Failure, Event
  <2>2. Append(heard[r], Failure(err[r])) \in Seq(Event)
    BY <2>1
  <2> QED BY <1>7, <2>2 DEF Complete, CallStage
<1>8. ASSUME NEW r \in Request,
             OnAbilityConnectDone(r) \/ ConnectDoneFails(r) \/ OnAbilityDisconnectDone(r)
      PROVE TypeOK'
  BY <1>8 DEF OnAbilityConnectDone, ConnectDoneFails, OnAbilityDisconnectDone, ConnStage
<1>9. ASSUME NEW r \in Request, KitReplies(r) PROVE TypeOK'
  <2>1. Len(replies[r]) + 1 \in Nat
    OBVIOUS
  <2>2. inbox' \subseteq [req : Request, seq : Nat]
    BY <1>9, <2>1 DEF KitReplies, KitSends
  <2>3. replies' \in [Request -> Seq(Reply)]
    BY <1>9 DEF KitReplies, KitSends
  <2> QED BY <1>9, <2>2, <2>3 DEF KitReplies, KitSends
<1>10. ASSUME NEW m \in inbox, OnRemoteRequest(m) PROVE TypeOK'
  <2> DEFINE reply  == replies[m.req][m.seq]
             result == StubResult(m.req, reply)
  <2>1. m.req \in Request /\ m.seq \in Nat /\ reply \in Reply
    BY DEF InboxOK
  <2>2. result \in Event
    BY <2>1, StubResultType
  <2>3. reply.payload \in Payload
    BY <2>1 DEF Reply
  <2>4. [req |-> m.req, seq |-> m.seq, what |-> result.what,
         code |-> result.code, payload |-> reply.payload] \in Work
    BY <2>1, <2>2, <2>3 DEF Work, Event
  <2> HIDE DEF reply, result
  <2>5. /\ inbox' = inbox \ {m}
        /\ posted' = posted \cup {[req |-> m.req, seq |-> m.seq, what |-> result.what,
                                   code |-> result.code, payload |-> reply.payload]}
        /\ UNCHANGED <<file, element, call, listener, err, target, conn, replies, heard>>
    BY <1>10 DEF OnRemoteRequest, reply, result
  <2> QED BY <2>4, <2>5
<1>11. ASSUME NEW w \in posted, UvQueueWork(w) PROVE TypeOK'
  <2>1. w \in Work /\ w.req \in Request
    BY DEF Work
  <2>2. PICK events \in IF IsLoad(w.req) THEN TellLoad(w) ELSE TellBody(w) :
          heard' = IF listener[w.req] = "bound"
                   THEN [heard EXCEPT ![w.req] = @ \o events] ELSE heard
    BY <1>11 DEF UvQueueWork
  <2>3. heard[w.req] \o events \in Seq(Event)
    BY <2>1, TellType
  <2>4. heard' \in [Request -> Seq(Event)]
    BY <2>1, <2>2, <2>3
  <2> QED BY <1>11, <2>4 DEF UvQueueWork
<1>12. CASE UNCHANGED vars
  BY <1>12 DEF vars
<1> QED
  BY <1>1, <1>2, <1>3, <1>4, <1>5, <1>6, <1>7, <1>8, <1>9, <1>10, <1>11, <1>12 DEF Next, LibraryNext

LEMMA InboxStep == TypeOK /\ InboxOK /\ [Next]_vars => InboxOK'
<1> SUFFICES ASSUME TypeOK, InboxOK, [Next]_vars PROVE InboxOK'
  OBVIOUS
<1> USE DEF TypeOK, InboxOK, callVars, connVars
<1>1. ASSUME NEW r \in Request, KitReplies(r) PROVE InboxOK'
  <2>1. PICK reply \in Reply : replies' = [replies EXCEPT ![r] = Append(@, reply)]
    BY <1>1 DEF KitReplies, KitSends
  <2>2. ASSUME NEW m \in inbox PROVE m.seq \in DOMAIN replies'[m.req]
    BY <2>1
  <2>3. Len(replies[r]) + 1 \in DOMAIN replies'[r]
    BY <2>1
  <2> QED BY <1>1, <2>2, <2>3 DEF KitReplies, KitSends
<1>2. ASSUME NEW m \in inbox, OnRemoteRequest(m) PROVE InboxOK'
  BY <1>2 DEF OnRemoteRequest
<1>3. CASE UNCHANGED <<inbox, replies>>
  BY <1>3
<1>4. ASSUME NEW r \in Request,
             \/ ThrowParamError(r) \/ CheckParamAndLoad(r) \/ LoadAd(r)
             \/ GetAdRequestBody(r) \/ ReadConfig(r) \/ Execute(r) \/ Complete(r)
             \/ OnAbilityConnectDone(r) \/ ConnectDoneFails(r)
             \/ OnAbilityDisconnectDone(r)
      PROVE UNCHANGED <<inbox, replies>>
  BY <1>4 DEF ThrowParamError, CheckParamAndLoad, LoadAd, GetAdRequestBody, ReadConfig,
     Execute, ReturnWithoutCallback, Connect, ConnectRefused, Complete,
     OnAbilityConnectDone, ConnectDoneFails, OnAbilityDisconnectDone
<1>5. ASSUME NEW w \in posted, UvQueueWork(w) PROVE UNCHANGED <<inbox, replies>>
  BY <1>5 DEF UvQueueWork
<1>6. CASE UNCHANGED vars
  BY <1>6 DEF vars
<1> QED
  BY <1>1, <1>2, <1>3, <1>4, <1>5, <1>6 DEF Next, LibraryNext

(* Every variable keeps its type, and an answer under way was sent.        *)
THEOREM TypeCorrect == Spec => [](TypeOK /\ InboxOK)
<1>1. Init => TypeOK /\ InboxOK
  BY TypeInit DEF Init, InboxOK
<1>2. (TypeOK /\ InboxOK) /\ [Next]_vars => (TypeOK /\ InboxOK)'
  BY TypeStep, InboxStep
<1> QED
  BY <1>1, <1>2, PTL DEF Spec

-----------------------------------------------------------------------------
(* What holds however often the provider answers.                          *)

(* How far each request has got stays consistent.                          *)
LEMMA StagesStep == TypeOK /\ StagesOK /\ [Next]_vars => StagesOK'
<1> SUFFICES ASSUME TypeOK, StagesOK, [Next]_vars, NEW q \in Request
             PROVE  ProgressOK(q)'
  BY DEF StagesOK
<1> USE DEF TypeOK, callVars, connVars
<1>q. ProgressOK(q)
  BY DEF StagesOK
<1>1. ASSUME NEW r \in Request, ThrowParamError(r) PROVE ProgressOK(q)'
  BY <1>q, <1>1 DEF ThrowParamError, BeforeConnect, ProgressOK
<1>2. ASSUME NEW r \in Request, CheckParamAndLoad(r) PROVE ProgressOK(q)'
  BY <1>q, <1>2 DEF CheckParamAndLoad, BeforeConnect, ProgressOK
<1>3. ASSUME NEW r \in Request, LoadAd(r) PROVE ProgressOK(q)'
  BY <1>q, <1>3 DEF LoadAd, BeforeConnect, ProgressOK
<1>4. ASSUME NEW r \in Request, GetAdRequestBody(r) PROVE ProgressOK(q)'
  BY <1>q, <1>4 DEF GetAdRequestBody, BeforeConnect, ProgressOK
<1>5. ASSUME NEW r \in Request, ReadConfig(r) PROVE ProgressOK(q)'
  BY <1>q, <1>5 DEF ReadConfig, BeforeConnect, ProgressOK
<1>6. ASSUME NEW r \in Request, Execute(r) PROVE ProgressOK(q)'
  <2>1. CASE ReturnWithoutCallback(r)
    BY <1>q, <2>1 DEF ReturnWithoutCallback, Executed, BeforeConnect, ProgressOK
  <2>2. CASE Connect(r)
    BY <1>q, <2>2 DEF Connect, Executed, BeforeConnect, ProgressOK
  <2>3. CASE ConnectRefused(r)
    <3>1. /\ call[r] = "running"
          /\ listener[r] # "null"
          /\ conn' = [conn EXCEPT ![r] = "refused"]
          /\ call' = [call EXCEPT ![r] = "executed"]
          /\ err' = [err EXCEPT ![r] = IF IsLoad(r) THEN ERR_AD_COMMON_AD_CONNECT_KIT_ERROR
                                       ELSE INNER_ERR]
          /\ UNCHANGED <<listener, replies>>
      BY <2>3 DEF ConnectRefused, Executed
    <3> QED BY <1>q, <3>1 DEF BeforeConnect, ProgressOK
  <2> QED BY <1>6, <2>1, <2>2, <2>3 DEF Execute
<1>7. ASSUME NEW r \in Request, Complete(r) PROVE ProgressOK(q)'
  BY <1>q, <1>7 DEF Complete, BeforeConnect, ProgressOK
<1>8. ASSUME NEW r \in Request,
             OnAbilityConnectDone(r) \/ ConnectDoneFails(r) \/ OnAbilityDisconnectDone(r)
      PROVE ProgressOK(q)'
  BY <1>q, <1>8 DEF OnAbilityConnectDone, ConnectDoneFails, OnAbilityDisconnectDone,
     BeforeConnect, ProgressOK
<1>9. ASSUME NEW r \in Request, KitReplies(r) PROVE ProgressOK(q)'
  BY <1>q, <1>9 DEF KitReplies, KitSends, ProgressOK
<1>10. CASE UNCHANGED <<call, listener, err, conn, replies>>
  BY <1>q, <1>10 DEF ProgressOK
<1>11. ASSUME NEW m \in inbox, OnRemoteRequest(m)
       PROVE UNCHANGED <<call, listener, err, conn, replies>>
  BY <1>11 DEF OnRemoteRequest
<1>12. ASSUME NEW w \in posted, UvQueueWork(w)
       PROVE UNCHANGED <<call, listener, err, conn, replies>>
  BY <1>12 DEF UvQueueWork
<1>13. CASE UNCHANGED vars
  BY <1>10, <1>13 DEF vars
<1> QED
  BY <1>1, <1>2, <1>3, <1>4, <1>5, <1>6, <1>7, <1>8, <1>9, <1>10, <1>11, <1>12, <1>13
     DEF Next, LibraryNext

(* What a step never takes back: an answer, a refused connection, a thrown *)
(* error, the callback object of a request.                                *)
LEMMA Monotone ==
  ASSUME TypeOK, StagesOK, [Next]_vars, NEW q \in Request
  PROVE  /\ \A i \in DOMAIN replies[q] :
              i \in DOMAIN replies'[q] /\ replies'[q][i] = replies[q][i]
         /\ conn[q] = "refused" => conn'[q] = "refused"
         /\ call[q] = "thrown" => call'[q] = "thrown"
         /\ listener[q] # "null" => listener'[q] = listener[q]
<1> USE DEF TypeOK, callVars, connVars
<1> DEFINE Kept == /\ \A i \in DOMAIN replies[q] :
                        i \in DOMAIN replies'[q] /\ replies'[q][i] = replies[q][i]
                   /\ conn[q] = "refused" => conn'[q] = "refused"
                   /\ call[q] = "thrown" => call'[q] = "thrown"
                   /\ listener[q] # "null" => listener'[q] = listener[q]
<1>q. /\ conn[q] = "refused" => call[q] # "running"
      /\ call[q] \in {"idle", "asking"} => listener[q] = "null"
  BY DEF StagesOK, ProgressOK, BeforeConnect
<1>1. ASSUME NEW r \in Request,
             \/ ThrowParamError(r) \/ CheckParamAndLoad(r) \/ ReadConfig(r)
             \/ Complete(r) \/ ReturnWithoutCallback(r)
      PROVE  Kept
  BY <1>1 DEF ThrowParamError, CheckParamAndLoad, ReadConfig, Complete,
     ReturnWithoutCallback, Executed
<1>2. ASSUME NEW r \in Request, LoadAd(r) \/ GetAdRequestBody(r) PROVE Kept
  BY <1>q, <1>2 DEF LoadAd, GetAdRequestBody
<1>3. ASSUME NEW r \in Request, Connect(r) PROVE Kept
  BY <1>q, <1>3 DEF Connect, Executed
<1>4. ASSUME NEW r \in Request, ConnectRefused(r) PROVE Kept
  <2>1. /\ call[r] = "running" /\ call' = [call EXCEPT ![r] = "executed"]
        /\ conn' = [conn EXCEPT ![r] = "refused"]
        /\ UNCHANGED <<listener, replies>>
    BY <1>4 DEF ConnectRefused, Executed
  <2> QED BY <2>1
<1>5. ASSUME NEW r \in Request,
             OnAbilityConnectDone(r) \/ ConnectDoneFails(r) \/ OnAbilityDisconnectDone(r)
      PROVE  Kept
  BY <1>5 DEF OnAbilityConnectDone, ConnectDoneFails, OnAbilityDisconnectDone
<1>6. ASSUME NEW r \in Request, KitReplies(r) PROVE Kept
  <2>1. PICK reply \in Reply : replies' = [replies EXCEPT ![r] = Append(@, reply)]
    BY <1>6 DEF KitReplies, KitSends
  <2> QED BY <1>6, <2>1 DEF KitReplies, KitSends
<1>7. CASE UNCHANGED <<replies, conn, call, listener>>
  BY <1>7
<1>8. ASSUME NEW m \in inbox, OnRemoteRequest(m)
      PROVE  UNCHANGED <<replies, conn, call, listener>>
  BY <1>8 DEF OnRemoteRequest
<1>9. ASSUME NEW w \in posted, UvQueueWork(w)
      PROVE  UNCHANGED <<replies, conn, call, listener>>
  BY <1>9 DEF UvQueueWork
<1>10. CASE UNCHANGED vars
  BY <1>10 DEF vars
<1>11. Kept
  BY <1>1, <1>2, <1>3, <1>4, <1>5, <1>6, <1>7, <1>8, <1>9, <1>10 DEF Next, LibraryNext, Execute
<1> QED
  BY <1>11 DEF Kept

(* Posted work keeps reporting a refusal or an answer: neither goes away.  *)
LEMMA PostedStep ==
  TypeOK /\ InboxOK /\ StagesOK /\ PostedOK /\ [Next]_vars => PostedOK'
<1> SUFFICES ASSUME TypeOK, InboxOK, StagesOK, PostedOK, [Next]_vars
             PROVE  PostedOK'
  OBVIOUS
<1> USE DEF callVars, connVars
<1>1. ASSUME NEW w \in posted PROVE (ReportsRefusal(w) \/ ReportsAnswer(w))'
  <2>1. w.req \in Request
    BY DEF TypeOK, Work
  <2>2. /\ \A i \in DOMAIN replies[w.req] :
             i \in DOMAIN replies'[w.req] /\ replies'[w.req][i] = replies[w.req][i]
        /\ conn[w.req] = "refused" => conn'[w.req] = "refused"
    BY <2>1, Monotone
  <2>3. CASE ReportsRefusal(w)
    BY <2>2, <2>3 DEF ReportsRefusal
  <2>4. CASE ReportsAnswer(w)
    BY <2>2, <2>4 DEF ReportsAnswer
  <2> QED BY <2>3, <2>4 DEF PostedOK
<1>2. CASE posted' \subseteq posted
  BY <1>1, <1>2 DEF PostedOK
<1>3. ASSUME NEW r \in Request,
             \/ ThrowParamError(r) \/ CheckParamAndLoad(r) \/ LoadAd(r)
             \/ GetAdRequestBody(r) \/ ReadConfig(r) \/ Complete(r)
             \/ ReturnWithoutCallback(r) \/ Connect(r) \/ OnAbilityConnectDone(r)
             \/ ConnectDoneFails(r) \/ OnAbilityDisconnectDone(r) \/ KitReplies(r)
      PROVE  posted' \subseteq posted
  BY <1>3 DEF ThrowParamError, CheckParamAndLoad, LoadAd, GetAdRequestBody, ReadConfig,
     Complete, ReturnWithoutCallback, Connect, OnAbilityConnectDone, ConnectDoneFails,
     OnAbilityDisconnectDone, KitReplies, KitSends
<1>4. ASSUME NEW r \in Request, ConnectRefused(r) PROVE PostedOK'
  <2> DEFINE refusal == [req |-> r, seq |-> 0, what |-> "failure",
                         code |-> ErrCodeConvert(ERR_AD_COMMON_AD_CONNECT_KIT_ERROR),
                         payload |-> "valid"]
  <2>1. /\ conn' = [conn EXCEPT ![r] = "refused"]
        /\ IF IsLoad(r) THEN posted' = posted \cup {refusal} ELSE UNCHANGED posted
    BY <1>4 DEF ConnectRefused
  <2>2. ASSUME IsLoad(r) PROVE ReportsRefusal(refusal)'
    BY <2>1, <2>2 DEF TypeOK, ReportsRefusal, IsLoad, ErrCodeConvert, INNER_ERR,
       ERR_AD_COMMON_AD_CONNECT_KIT_ERROR, AD_LOAD_PARAMS_ERROR, AD_LOAD_FAIL,
       DEVICE_NOT_SUPPORT_ERROR
  <2> HIDE DEF refusal
  <2> QED BY <1>1, <2>1, <2>2 DEF PostedOK
<1>5. ASSUME NEW m \in inbox, OnRemoteRequest(m) PROVE PostedOK'
  <2> DEFINE reply  == replies[m.req][m.seq]
             result == StubResult(m.req, reply)
             answer == [req |-> m.req, seq |-> m.seq, what |-> result.what,
                        code |-> result.code, payload |-> reply.payload]
  <2>1. posted' = posted \cup {answer} /\ UNCHANGED <<conn, replies>>
    BY <1>5 DEF OnRemoteRequest
  <2>2. ReportsAnswer(answer)
    BY DEF ReportsAnswer, InboxOK
  <2>3. ReportsAnswer(answer)'
    BY <2>1, <2>2 DEF ReportsAnswer
  <2>4. answer' = answer
    BY <2>1
  <2> HIDE DEF answer
  <2> QED BY <1>1, <2>1, <2>3, <2>4 DEF PostedOK
<1>6. ASSUME NEW w \in posted, UvQueueWork(w) PROVE posted' \subseteq posted
  BY <1>6 DEF UvQueueWork
<1>7. CASE UNCHANGED vars
  BY <1>2, <1>7 DEF vars
<1> QED
  BY <1>2, <1>3, <1>4, <1>5, <1>6, <1>7 DEF Next, LibraryNext, Execute

(* A reported outcome keeps its cause.                                     *)
LEMMA CauseStays ==
  ASSUME TypeOK, StagesOK, [Next]_vars, NEW q \in Request,
         NEW event, HasCause(q, event)
  PROVE  HasCause(q, event)'
<1>1. /\ \A i \in DOMAIN replies[q] :
           i \in DOMAIN replies'[q] /\ replies'[q][i] = replies[q][i]
      /\ conn[q] = "refused" => conn'[q] = "refused"
      /\ call[q] = "thrown" => call'[q] = "thrown"
      /\ listener[q] = "unbound" => listener'[q] = "unbound"
  BY Monotone
<1>2. \A code : Answered(q, code) => Answered(q, code)'
  BY <1>1 DEF Answered
<1>3. CASE IsLoad(q)
  <2>1. LoadVerdictHasCause(q, event)
    BY <1>3 DEF HasCause
  <2>2. LoadVerdictHasCause(q, event)'
    BY <1>1, <1>2, <2>1 DEF LoadVerdictHasCause
  <2> QED BY <1>3, <2>2 DEF HasCause
<1>4. CASE ~IsLoad(q)
  <2>1. BodyVerdictHasCause(q, event)
    BY <1>4 DEF HasCause
  <2>2. BodyVerdictHasCause(q, event)'
    BY <1>1, <1>2, <2>1 DEF BodyVerdictHasCause
  <2> QED BY <1>4, <2>2 DEF HasCause
<1> QED
  BY <1>3, <1>4

(* What the event loop makes of posted work has a cause.                   *)
LEMMA ToldHasCause ==
  ASSUME TypeOK, PostedOK, NEW w \in posted,
         NEW events \in IF IsLoad(w.req) THEN TellLoad(w) ELSE TellBody(w),
         NEW k \in DOMAIN events
  PROVE  HasCause(w.req, events[k])
<1> DEFINE r == w.req
           reply == replies[r][w.seq]
<1>1. r \in Request /\ w \in Work
  BY DEF TypeOK, Work
<1>2. CASE ReportsRefusal(w)
  <2>1. events = <<Failure(INNER_ERR)>>
    BY <1>2 DEF ReportsRefusal, TellLoad
  <2>2. events[k] = Failure(INNER_ERR)
    BY <2>1
  <2> QED BY <1>2, <2>2 DEF ReportsRefusal, HasCause, LoadVerdictHasCause
<1>3. CASE ReportsAnswer(w)
  <2>1. w.seq \in DOMAIN replies[r] /\ reply \in Reply
    BY <1>1, <1>3 DEF ReportsAnswer, TypeOK
  <2>2. /\ w.payload = reply.payload
        /\ w.what = StubResult(r, reply).what
        /\ w.code = StubResult(r, reply).code
    BY <1>3 DEF ReportsAnswer
  <2>3. CASE IsLoad(r)
    <3>1. CASE reply.code = LOAD_AD_SUCCESS
      <4>1. w.what = "success" /\ Answered(r, LOAD_AD_SUCCESS)
        BY <2>1, <2>2, <2>3, <3>1 DEF StubResult, Success, Answered
      <4>2. CASE w.payload = "valid"
        <5>1. reply = [code |-> LOAD_AD_SUCCESS, payload |-> "valid"]
          BY <2>1, <2>2, <3>1, <4>2 DEF Reply
        <5>2. events[k] \in {Success, Failure(Undefined)}
          BY <2>3, <4>1, <4>2 DEF TellLoad
        <5> QED BY <2>1, <2>3, <4>1, <5>1, <5>2 DEF HasCause, LoadVerdictHasCause
      <4>3. CASE w.payload # "valid"
        <5>1. events[k] = Failure(Undefined)
          BY <2>3, <4>1, <4>3 DEF TellLoad
        <5> QED BY <2>3, <4>1, <5>1 DEF HasCause, LoadVerdictHasCause
      <4> QED BY <4>2, <4>3
    <3>2. CASE reply.code # LOAD_AD_SUCCESS
      <4>1. w.what = "failure" /\ w.code = ErrCodeConvert(reply.code)
        BY <2>2, <2>3, <3>2 DEF StubResult, Failure
      <4>2. events[k] = Failure(ErrCodeConvert(reply.code))
        BY <2>3, <4>1 DEF TellLoad
      <4>3. Answered(r, reply.code)
        BY <2>1 DEF Answered
      <4> QED BY <2>1, <2>3, <3>2, <4>2, <4>3
           DEF HasCause, LoadVerdictHasCause, ErrCodeConvert
    <3> QED BY <3>1, <3>2
  <2>4. CASE ~IsLoad(r)
    <3>1. reply.code # ERR_SEND_OK
      BY <2>1, PipelineAssumption DEF Reply
    <3>2. CASE reply.code = LOAD_AD_SUCCESS /\ reply.payload # "empty"
      <4>1. events[k] = Success
        BY <2>2, <2>4, <3>2 DEF StubResult, Success, TellBody
      <4> QED BY <2>1, <2>4, <3>2, <4>1 DEF HasCause, BodyVerdictHasCause
    <3>3. CASE ~(reply.code = LOAD_AD_SUCCESS /\ reply.payload # "empty")
      <4>1. w.code = reply.code
        BY <2>2, <2>4, <3>3 DEF StubResult, Failure
      <4>2. events[k] = Failure(reply.code)
        BY <2>4, <3>1, <4>1 DEF TellBody
      <4>3. Answered(r, reply.code)
        BY <2>1 DEF Answered
      <4>4. events[k].what = "failure" /\ events[k].code = reply.code
        BY <4>2 DEF Failure
      <4> QED BY <2>4, <4>3, <4>4 DEF HasCause, BodyVerdictHasCause
    <3> QED BY <3>2, <3>3
  <2> QED BY <2>3, <2>4
<1> QED
  BY <1>2, <1>3 DEF PostedOK

LEMMA VerdictStep ==
  TypeOK /\ StagesOK /\ PostedOK /\ VerdictHasCause /\ [Next]_vars => VerdictHasCause'
<1> SUFFICES ASSUME TypeOK, StagesOK, PostedOK, VerdictHasCause, [Next]_vars,
                    NEW q \in Request, NEW i \in DOMAIN heard'[q],
                    NEW event, event = heard'[q][i]
             PROVE  HasCause(q, event)'
  BY DEF VerdictHasCause
<1> USE DEF callVars, connVars
<1>1. CASE i \in DOMAIN heard[q] /\ heard'[q][i] = heard[q][i]
  <2>1. HasCause(q, event)
    BY <1>1 DEF VerdictHasCause
  <2> QED BY <2>1, CauseStays
<1>2. ASSUME NEW r \in Request, ThrowParamError(r) PROVE HasCause(q, event)'
  <2>1. CASE q = r /\ ~IsLoad(r)
    <3>1. event = Failure(PARAM_ERR) /\ call'[q] = "thrown"
      BY <1>2, <2>1 DEF ThrowParamError, TypeOK
    <3> QED BY <2>1, <3>1 DEF HasCause, BodyVerdictHasCause
  <2>2. CASE ~(q = r /\ ~IsLoad(r))
    BY <1>1, <1>2, <2>2 DEF ThrowParamError, TypeOK
  <2> QED BY <2>1, <2>2
<1>3. ASSUME NEW r \in Request, GetAdRequestBody(r) PROVE HasCause(q, event)'
  <2>1. CASE q = r /\ listener'[r] = "unbound"
    <3>1. event = Failure(PARAM_ERROR_TEXT) /\ ~IsLoad(q)
      BY <1>3, <2>1 DEF GetAdRequestBody, TypeOK
    <3> QED BY <2>1, <3>1 DEF HasCause, BodyVerdictHasCause
  <2>2. CASE ~(q = r /\ listener'[r] = "unbound")
    BY <1>1, <1>3, <2>2 DEF GetAdRequestBody, TypeOK
  <2> QED BY <2>1, <2>2
<1>4. ASSUME NEW r \in Request, Complete(r) PROVE HasCause(q, event)'
  <2>1. CASE q = r /\ heard' # heard /\ i \notin DOMAIN heard[q]
    <3>1. ~IsLoad(r) /\ err[r] # ERR_SEND_OK
      BY <1>4, <2>1 DEF Complete
    <3>2. err[r] = INNER_ERR /\ conn'[r] = "refused"
      BY <1>4, <3>1 DEF Complete, StagesOK, ProgressOK
    <3>3. event = Failure(INNER_ERR)
      BY <1>4, <2>1, <3>2 DEF Complete, TypeOK
    <3> QED BY <2>1, <3>1, <3>2, <3>3 DEF HasCause, BodyVerdictHasCause
  <2>2. CASE ~(q = r /\ heard' # heard /\ i \notin DOMAIN heard[q])
    BY <1>1, <1>4, <2>2 DEF Complete, TypeOK
  <2> QED BY <2>1, <2>2
<1>5. ASSUME NEW w \in posted, UvQueueWork(w) PROVE HasCause(q, event)'
  <2>1. PICK events \in IF IsLoad(w.req) THEN TellLoad(w) ELSE TellBody(w) :
          heard' = IF listener[w.req] = "bound"
                   THEN [heard EXCEPT ![w.req] = @ \o events] ELSE heard
    BY <1>5 DEF UvQueueWork
  <2>2. w \in Work /\ heard[q] \in Seq(Event) /\ events \in Seq(Event)
    BY TellType DEF TypeOK
  <2>3. CASE q = w.req /\ listener[w.req] = "bound" /\ i \notin DOMAIN heard[q]
    <3>1. heard'[q] = heard[q] \o events
      BY <2>1, <2>3 DEF TypeOK
    <3>2. /\ i - Len(heard[q]) \in DOMAIN events
          /\ heard'[q][i] = events[i - Len(heard[q])]
      BY <2>2, <2>3, <3>1
    <3>3. HasCause(q, event)
      BY <2>3, <3>2, ToldHasCause
    <3> QED BY <3>3, CauseStays
  <2>4. CASE ~(q = w.req /\ listener[w.req] = "bound") \/ i \in DOMAIN heard[q]
    BY <1>1, <2>1, <2>2, <2>4 DEF TypeOK
  <2> QED BY <2>3, <2>4
<1>6. CASE UNCHANGED heard
  BY <1>1, <1>6
<1>7. ASSUME NEW r \in Request,
             \/ CheckParamAndLoad(r) \/ LoadAd(r) \/ ReadConfig(r)
             \/ ReturnWithoutCallback(r) \/ Connect(r) \/ ConnectRefused(r)
             \/ OnAbilityConnectDone(r) \/ ConnectDoneFails(r)
             \/ OnAbilityDisconnectDone(r) \/ KitReplies(r)
      PROVE  UNCHANGED heard
  BY <1>7 DEF CheckParamAndLoad, LoadAd, ReadConfig, ReturnWithoutCallback, Connect,
     ConnectRefused, OnAbilityConnectDone, ConnectDoneFails, OnAbilityDisconnectDone,
     KitReplies, KitSends
<1>8. ASSUME NEW m \in inbox, OnRemoteRequest(m) PROVE UNCHANGED heard
  BY <1>8 DEF OnRemoteRequest
<1>9. CASE UNCHANGED vars
  BY <1>6, <1>9 DEF vars
<1> QED
  BY <1>2, <1>3, <1>4, <1>5, <1>6, <1>7, <1>8, <1>9 DEF Next, LibraryNext, Execute

(* The parts of PipelineInv that say what was sent, answered and posted.   *)
BaseInv == TypeOK /\ InboxOK /\ StagesOK /\ PostedOK

LEMMA BaseInvariant == Spec => []BaseInv
<1>1. Init => BaseInv
  <2>1. Init => TypeOK /\ InboxOK /\ PostedOK
    BY TypeInit DEF Init, InboxOK, PostedOK
  <2>2. Init => StagesOK
    BY DEF Init, StagesOK, ProgressOK, ERR_SEND_OK
  <2> QED BY <2>1, <2>2 DEF BaseInv
<1>2. BaseInv /\ [Next]_vars => BaseInv'
  BY TypeStep, InboxStep, StagesStep, PostedStep DEF BaseInv
<1> QED
  BY <1>1, <1>2, PTL DEF Spec

(* What an application is told follows from what happened to its request,  *)
(* through the stubs, the conversion of codes and the event loop, and      *)
(* however many requests run at once and however often they are answered.  *)
THEOREM VerdictCorrect == Spec => []VerdictHasCause
<1>1. Init => VerdictHasCause
  BY DEF Init, VerdictHasCause
<1>2. BaseInv /\ VerdictHasCause /\ [Next]_vars => VerdictHasCause'
  BY VerdictStep DEF BaseInv
<1> QED
  BY <1>1, <1>2, BaseInvariant, PTL DEF Spec

-----------------------------------------------------------------------------
(* Nothing is lost.                                                        *)

(* The event loop says something about whatever was posted to it.          *)
LEMMA ToldSomething ==
  ASSUME NEW w, NEW events \in IF IsLoad(w.req) THEN TellLoad(w) ELSE TellBody(w)
  PROVE  events # <<>>
BY DEF TellLoad, TellBody

LEMMA AtMostOne == \A s, e : s = <<>> \/ s = <<e>> => Len(s) <= 1
<1>1. \A s : s = <<>> => Len(s) <= 1
  OBVIOUS
<1>2. \A s, e : s = <<e>> => Len(s) <= 1
  OBVIOUS
<1> QED
  BY <1>1, <1>2

LEMMA AppendedNotEmpty ==
  ASSUME NEW S, NEW s \in Seq(S), NEW e \in S
  PROVE  Append(s, e) # <<>> /\ <<e>> # <<>>
<1>1. Len(Append(s, e)) = Len(s) + 1 /\ Len(s) \in Nat
  OBVIOUS
<1> QED
  BY <1>1

(* Once something was heard it stays heard.                                *)
LEMMA StillHeard ==
  ASSUME TypeOK, StagesOK, [Next]_vars, NEW q \in Request, heard[q] # <<>>
  PROVE  heard'[q] # <<>>
<1> USE DEF TypeOK
<1>1. ASSUME NEW r \in Request,
             ThrowParamError(r) \/ GetAdRequestBody(r) \/ Complete(r)
      PROVE  heard'[q] # <<>>
  <2>1. /\ Failure(PARAM_ERR) \in Event /\ Failure(PARAM_ERROR_TEXT) \in Event
        /\ Failure(err[r]) \in Event
    BY DEF Failure, Event, PARAM_ERR, PARAM_ERROR_TEXT
  <2>2. /\ <<Failure(PARAM_ERR)>> # <<>> /\ <<Failure(PARAM_ERROR_TEXT)>> # <<>>
        /\ Append(heard[r], Failure(err[r])) # <<>>
    BY <2>1, AppendedNotEmpty
  <2> QED BY <1>1, <2>2 DEF ThrowParamError, GetAdRequestBody, Complete
<1>2. ASSUME NEW w \in posted, UvQueueWork(w) PROVE heard'[q] # <<>>
  <2>1. PICK events \in IF IsLoad(w.req) THEN TellLoad(w) ELSE TellBody(w) :
          heard' = IF listener[w.req] = "bound"
                   THEN [heard EXCEPT ![w.req] = @ \o events] ELSE heard
    BY <1>2 DEF UvQueueWork
  <2>2. events \in Seq(Event) /\ heard[q] \in Seq(Event)
    BY TellType
  <2>3. heard[q] \o events # <<>>
    BY <2>2
  <2> QED BY <2>1, <2>3
<1>3. ASSUME NEW r \in Request,
             \/ CheckParamAndLoad(r) \/ LoadAd(r) \/ ReadConfig(r)
             \/ ReturnWithoutCallback(r) \/ Connect(r) \/ ConnectRefused(r)
             \/ OnAbilityConnectDone(r) \/ ConnectDoneFails(r)
             \/ OnAbilityDisconnectDone(r) \/ KitReplies(r)
      PROVE  UNCHANGED heard
  BY <1>3 DEF CheckParamAndLoad, LoadAd, ReadConfig, ReturnWithoutCallback, Connect,
     ConnectRefused, OnAbilityConnectDone, ConnectDoneFails, OnAbilityDisconnectDone,
     KitReplies, KitSends
<1>4. ASSUME NEW m \in inbox, OnRemoteRequest(m) PROVE UNCHANGED heard
  BY <1>4 DEF OnRemoteRequest
<1>5. CASE UNCHANGED heard
  BY <1>5
<1>6. CASE UNCHANGED vars
  BY <1>6 DEF vars
<1> QED
  BY <1>1, <1>2, <1>3, <1>4, <1>5, <1>6 DEF Next, LibraryNext, Execute

LEMMA AccountedStep == BaseInv /\ AccountedFor /\ [Next]_vars => AccountedFor'
<1> SUFFICES ASSUME BaseInv, AccountedFor, [Next]_vars, NEW q \in Request,
                    listener'[q] = "bound", Due(q)'
             PROVE  heard'[q] # <<>> \/ UnderWay(q)'
  BY DEF AccountedFor
<1> DEFINE Goal == heard'[q] # <<>> \/ UnderWay(q)'
<1> USE DEF BaseInv, TypeOK, callVars, connVars
<1>q. heard[q] # <<>> => heard'[q] # <<>>
  BY StillHeard
<1>p. ProgressOK(q)
  BY DEF StagesOK
(* A step that creates no new debt and takes nothing from the way.         *)
<1>1. CASE listener[q] = "bound" /\ Due(q) /\ inbox \subseteq inbox' /\ posted \subseteq posted'
  <2>1. UnderWay(q) => UnderWay(q)'
    BY <1>1 DEF UnderWay
  <2> QED BY <1>1, <1>q, <2>1 DEF AccountedFor
<1>2. CASE UNCHANGED <<call, listener, conn, replies, inbox, posted>>
  BY <1>1, <1>2 DEF Due
<1>3. ASSUME NEW r \in Request,
             \/ ThrowParamError(r) \/ CheckParamAndLoad(r) \/ ReadConfig(r)
             \/ ReturnWithoutCallback(r)
      PROVE  Goal
  BY <1>1, <1>3 DEF ThrowParamError, CheckParamAndLoad, ReadConfig,
     ReturnWithoutCallback, Executed, Due
<1>4. ASSUME NEW r \in Request, LoadAd(r) \/ GetAdRequestBody(r) PROVE Goal
  <2>1. CASE q = r
    <3>1. call[q] \in {"idle", "asking"} /\ UNCHANGED <<conn, replies>> /\ call'[q] = "queued"
      BY <1>4, <2>1 DEF LoadAd, GetAdRequestBody
    <3> QED BY <1>p, <3>1 DEF ProgressOK, BeforeConnect, Due
  <2>2. CASE q # r
    BY <1>1, <1>4, <2>2 DEF LoadAd, GetAdRequestBody, Due
  <2> QED BY <2>1, <2>2
<1>5. ASSUME NEW r \in Request, Connect(r) PROVE Goal
  BY <1>1, <1>5 DEF Connect, Executed, Due
<1>6. ASSUME NEW r \in Request, ConnectRefused(r) PROVE Goal
  <2>1. /\ call[r] = "running" /\ call' = [call EXCEPT ![r] = "executed"]
        /\ conn' = [conn EXCEPT ![r] = "refused"]
        /\ UNCHANGED <<listener, replies, inbox>>
        /\ posted \subseteq posted'
    BY <1>6 DEF ConnectRefused, Executed
  <2>2. CASE q = r /\ IsLoad(r)
    <3> DEFINE refusal == [req |-> r, seq |-> 0, what |-> "failure",
                           code |-> ErrCodeConvert(ERR_AD_COMMON_AD_CONNECT_KIT_ERROR),
                           payload |-> "valid"]
    <3>1. refusal \in posted' /\ refusal.req = r
      BY <1>6, <2>2 DEF ConnectRefused
    <3> QED BY <2>2, <3>1 DEF UnderWay
  <2>3. CASE ~(q = r /\ IsLoad(r))
    BY <1>1, <2>1, <2>3 DEF Due
  <2> QED BY <2>2, <2>3
<1>7. ASSUME NEW r \in Request, Complete(r) PROVE Goal
  <2>1. CASE Due(q)
    BY <1>1, <1>7, <2>1 DEF Complete
  <2>2. CASE ~Due(q)
    <3>1. q = r /\ ~IsLoad(r) /\ conn[r] = "refused" /\ listener[r] = "bound"
      BY <1>7, <2>2 DEF Complete, Due
    <3>2. err[r] # ERR_SEND_OK
      BY <1>p, <3>1 DEF ProgressOK, INNER_ERR, ERR_SEND_OK
    <3>3. heard'[r] = Append(heard[r], Failure(err[r]))
      BY <1>7, <3>1, <3>2 DEF Complete
    <3>4. Failure(err[r]) \in Event
      BY DEF Failure, Event
    <3> QED BY <3>1, <3>3, <3>4, AppendedNotEmpty
  <2> QED BY <2>1, <2>2
<1>8. ASSUME NEW r \in Request,
             OnAbilityConnectDone(r) \/ ConnectDoneFails(r) \/ OnAbilityDisconnectDone(r)
      PROVE  Goal
  BY <1>1, <1>8 DEF OnAbilityConnectDone, ConnectDoneFails, OnAbilityDisconnectDone, Due
<1>9. ASSUME NEW r \in Request, KitReplies(r) PROVE Goal
  <2>1. CASE q = r
    <3> DEFINE answer == [req |-> r, seq |-> Len(replies[r]) + 1]
    <3>1. answer \in inbox' /\ answer.req = r
      BY <1>9 DEF KitReplies, KitSends
    <3> QED BY <2>1, <3>1 DEF UnderWay
  <2>2. CASE q # r
    BY <1>1, <1>9, <2>2 DEF KitReplies, KitSends, Due
  <2> QED BY <2>1, <2>2
<1>10. ASSUME NEW m \in inbox, OnRemoteRequest(m) PROVE Goal
  <2> DEFINE reply  == replies[m.req][m.seq]
             result == StubResult(m.req, reply)
             answer == [req |-> m.req, seq |-> m.seq, what |-> result.what,
                        code |-> result.code, payload |-> reply.payload]
  <2>1. /\ inbox' = inbox \ {m} /\ posted' = posted \cup {answer}
        /\ answer.req = m.req
        /\ UNCHANGED <<call, listener, conn, replies>>
    BY <1>10 DEF OnRemoteRequest
  <2> HIDE DEF answer
  <2>2. heard[q] # <<>> \/ UnderWay(q)
    BY <2>1 DEF AccountedFor, Due
  <2>3. UnderWay(q) => UnderWay(q)'
    BY <2>1 DEF UnderWay
  <2> QED BY <1>q, <2>2, <2>3
<1>11. ASSUME NEW w \in posted, UvQueueWork(w) PROVE Goal
  <2>1. /\ posted' = posted \ {w}
        /\ UNCHANGED <<call, listener, conn, replies, inbox>>
    BY <1>11 DEF UvQueueWork
  <2>2. CASE q = w.req
    <3>1. PICK events \in IF IsLoad(w.req) THEN TellLoad(w) ELSE TellBody(w) :
            heard' = [heard EXCEPT ![q] = @ \o events]
      BY <1>11, <2>1, <2>2 DEF UvQueueWork
    <3>2. events \in Seq(Event) /\ events # <<>> /\ heard[q] \in Seq(Event)
      BY TellType, ToldSomething
    <3>3. heard[q] \o events # <<>>
      BY <3>2
    <3> QED BY <3>1, <3>3
  <2>3. CASE q # w.req
    <3>1. heard[q] # <<>> \/ UnderWay(q)
      BY <2>1 DEF AccountedFor, Due
    <3>2. UnderWay(q) => UnderWay(q)'
      BY <2>1, <2>3 DEF UnderWay
    <3> QED BY <1>q, <3>1, <3>2
  <2> QED BY <2>2, <2>3
<1>12. CASE UNCHANGED vars
  BY <1>2, <1>12 DEF vars
<1> QED
  BY <1>3, <1>4, <1>5, <1>6, <1>7, <1>8, <1>9, <1>10, <1>11, <1>12 DEF Next, LibraryNext, Execute

LEMMA AccountedInvariant == Spec => [](BaseInv /\ AccountedFor)
<1>1. Init => AccountedFor
  BY DEF Init, AccountedFor
<1>2. BaseInv /\ AccountedFor /\ [Next]_vars => AccountedFor'
  BY AccountedStep
<1> QED
  BY <1>1, <1>2, BaseInvariant, PTL DEF Spec

(* A request whose caller hears nothing, though everything it caused in    *)
(* the library has run, is one the provider never answered and whose       *)
(* connection the ability manager accepted.                                *)
THEOREM SilenceCorrect == Spec => []SilenceIsExplained
<1>1. BaseInv /\ AccountedFor => SilenceIsExplained
  <2> SUFFICES ASSUME BaseInv, AccountedFor, NEW r \in Request, AtRest(r),
                      listener[r] = "bound", heard[r] = <<>>
               PROVE  /\ replies[r] = <<>>
                      /\ conn[r] \in {"connecting", "sent", "failed", "disconnected"}
    BY DEF SilenceIsExplained
  <2>1. ~Due(r)
    BY DEF AccountedFor, AtRest, UnderWay
  <2>2. conn[r] # "none"
    BY DEF BaseInv, StagesOK, ProgressOK, AtRest
  <2>3. conn[r] \in ConnStage
    BY DEF BaseInv, TypeOK
  <2> QED BY <2>1, <2>2, <2>3 DEF Due, AtRest, ConnStage
<1> QED
  BY <1>1, AccountedInvariant, PTL

-----------------------------------------------------------------------------
(* Nothing is said twice, if the provider answers at most once.            *)

(* A request that was neither answered nor refused has nothing under way.  *)
LEMMA NothingUnderWay ==
  ASSUME BaseInv, NEW q \in Request, replies[q] = <<>>,
         conn[q] # "refused" \/ ~IsLoad(q)
  PROVE  ~UnderWay(q)
<1>1. ASSUME NEW m \in inbox, m.req = q PROVE FALSE
  BY <1>1 DEF BaseInv, InboxOK
<1>2. ASSUME NEW w \in posted, w.req = q PROVE FALSE
  BY <1>2 DEF BaseInv, PostedOK, ReportsRefusal, ReportsAnswer
<1> QED
  BY <1>1, <1>2 DEF UnderWay

(* Nothing is under way before the connection is made.                     *)
LEMMA NothingYet ==
  ASSUME BaseInv, NEW q \in Request, call[q] \in BeforeConnect
  PROVE  ~UnderWay(q) /\ ~Due(q)
<1>1. replies[q] = <<>> /\ conn[q] = "none"
  BY DEF BaseInv, StagesOK, ProgressOK
<1>2. ~Due(q)
  BY <1>1 DEF Due
<1> QED
  BY <1>1, <1>2, NothingUnderWay

LEMMA OneUnderWayStep ==
  ASSUME MaxReplies <= 1, BaseInv, OneUnderWay, [Next]_vars
  PROVE  OneUnderWay'
<1> USE DEF callVars, connVars
<1>1. CASE inbox' \subseteq inbox /\ posted' \subseteq posted
  BY <1>1 DEF OneUnderWay
<1>2. ASSUME NEW r \in Request,
             \/ ThrowParamError(r) \/ CheckParamAndLoad(r) \/ LoadAd(r)
             \/ GetAdRequestBody(r) \/ ReadConfig(r) \/ Complete(r)
             \/ ReturnWithoutCallback(r) \/ Connect(r) \/ OnAbilityConnectDone(r)
             \/ ConnectDoneFails(r) \/ OnAbilityDisconnectDone(r)
      PROVE  inbox' \subseteq inbox /\ posted' \subseteq posted
  BY <1>2 DEF ThrowParamError, CheckParamAndLoad, LoadAd, GetAdRequestBody, ReadConfig,
     Complete, ReturnWithoutCallback, Connect, OnAbilityConnectDone, ConnectDoneFails,
     OnAbilityDisconnectDone
<1>3. ASSUME NEW r \in Request, ConnectRefused(r) PROVE OneUnderWay'
  <2> DEFINE refusal == [req |-> r, seq |-> 0, what |-> "failure",
                         code |-> ErrCodeConvert(ERR_AD_COMMON_AD_CONNECT_KIT_ERROR),
                         payload |-> "valid"]
  <2>1. /\ inbox' = inbox /\ posted' \subseteq posted \cup {refusal}
        /\ refusal.req = r /\ call[r] \in BeforeConnect
    BY <1>3 DEF ConnectRefused, BeforeConnect
  <2>2. ~UnderWay(r)
    BY <2>1, NothingYet
  <2> HIDE DEF refusal
  <2> QED BY <2>1, <2>2 DEF OneUnderWay, UnderWay
<1>4. ASSUME NEW r \in Request, KitReplies(r) PROVE OneUnderWay'
  <2> DEFINE answer == [req |-> r, seq |-> Len(replies[r]) + 1]
  <2>1. /\ inbox' = inbox \cup {answer} /\ posted' = posted /\ answer.req = r
        /\ conn[r] # "refused" /\ Len(replies[r]) < MaxReplies
    BY <1>4 DEF KitReplies, KitSends
  <2>2. replies[r] = <<>>
    BY <2>1, PipelineAssumption DEF BaseInv, TypeOK
  <2>3. ~UnderWay(r)
    BY <2>1, <2>2, NothingUnderWay
  <2> HIDE DEF answer
  <2> QED BY <2>1, <2>3 DEF OneUnderWay, UnderWay
<1>5. ASSUME NEW m \in inbox, OnRemoteRequest(m) PROVE OneUnderWay'
  <2> DEFINE reply  == replies[m.req][m.seq]
             result == StubResult(m.req, reply)
             answer == [req |-> m.req, seq |-> m.seq, what |-> result.what,
                        code |-> result.code, payload |-> reply.payload]
  <2>1. /\ inbox' = inbox \ {m} /\ posted' = posted \cup {answer}
        /\ answer.req = m.req
    BY <1>5 DEF OnRemoteRequest
  <2> HIDE DEF answer
  <2> QED BY <2>1 DEF OneUnderWay
<1>6. ASSUME NEW w \in posted, UvQueueWork(w)
      PROVE  inbox' \subseteq inbox /\ posted' \subseteq posted
  BY <1>6 DEF UvQueueWork
<1>7. CASE UNCHANGED vars
  BY <1>1, <1>7 DEF vars
<1> QED
  BY <1>1, <1>2, <1>3, <1>4, <1>5, <1>6, <1>7 DEF Next, LibraryNext, Execute

(* What a step may do to one request, so that it is heard at most once.    *)
HeardOK(q) ==
  /\ call[q] \in {"idle", "asking"} => heard[q] = <<>>
  /\ listener[q] = "bound" /\ (UnderWay(q) \/ ~Due(q)) => heard[q] = <<>>
  /\ listener[q] # "bound" => Len(heard[q]) <= 1
  /\ \/ Len(heard[q]) <= 1
     \/ IsLoad(q) /\ heard[q] = <<Success, Failure(Undefined)>>

LEMMA HeardStep ==
  ASSUME MaxReplies <= 1, TypeOK, BaseInv, OneUnderWay, [Next]_vars,
         NEW q \in Request, HeardOK(q)
  PROVE  HeardOK(q)'
<1> USE DEF TypeOK, callVars, connVars
<1>p. ProgressOK(q)
  BY DEF BaseInv, StagesOK
(* A step that only moves what is under way, or creates a first debt.      *)
<1>1. CASE /\ UNCHANGED <<listener, heard>>
           /\ call'[q] \in {"idle", "asking"} => call[q] \in {"idle", "asking"}
           /\ UnderWay(q)' => UnderWay(q) \/ ~Due(q)
           /\ ~Due(q)' => ~Due(q)
  BY <1>1 DEF HeardOK
<1>2. CASE UNCHANGED <<call, listener, conn, replies, inbox, posted, heard>>
  <2>1. (UnderWay(q)' <=> UnderWay(q)) /\ (Due(q)' <=> Due(q))
    BY <1>2 DEF UnderWay, Due
  <2> QED BY <1>1, <1>2, <2>1
<1>3. ASSUME NEW r \in Request, ThrowParamError(r) PROVE HeardOK(q)'
  <2>1. (UnderWay(q)' <=> UnderWay(q)) /\ (Due(q)' <=> Due(q))
    BY <1>3 DEF ThrowParamError, UnderWay, Due
  <2>2. CASE q = r
    <3>1. call'[q] = "thrown" /\ listener'[q] = "null" /\ Len(heard'[q]) <= 1
      BY <1>p, <1>3, <2>2 DEF ThrowParamError, ProgressOK, HeardOK
    <3> QED BY <3>1 DEF HeardOK
  <2>3. CASE q # r
    BY <1>3, <2>1, <2>3 DEF ThrowParamError, HeardOK
  <2> QED BY <2>2, <2>3
<1>4. ASSUME NEW r \in Request,
             \/ CheckParamAndLoad(r) \/ ReadConfig(r) \/ ReturnWithoutCallback(r)
             \/ Connect(r) \/ OnAbilityConnectDone(r) \/ ConnectDoneFails(r)
             \/ OnAbilityDisconnectDone(r)
      PROVE  HeardOK(q)'
  <2>1. /\ UNCHANGED <<listener, heard, replies, inbox, posted>>
        /\ call'[q] \in {"idle", "asking"} => call[q] \in {"idle", "asking"}
        /\ call'[q] = "completed" <=> call[q] = "completed"
    BY <1>4 DEF CheckParamAndLoad, ReadConfig, ReturnWithoutCallback, Connect,
       OnAbilityConnectDone, ConnectDoneFails, OnAbilityDisconnectDone, Executed
  <2>2. conn[q] = "refused" => conn'[q] = "refused"
    BY Monotone DEF BaseInv
  <2>3. Due(q) => Due(q)'
    BY <2>1, <2>2 DEF Due
  <2>4. UnderWay(q)' => UnderWay(q)
    BY <2>1 DEF UnderWay
  <2> QED BY <1>1, <2>1, <2>3, <2>4
<1>5. ASSUME NEW r \in Request, LoadAd(r) \/ GetAdRequestBody(r) PROVE HeardOK(q)'
  <2>1. (UnderWay(q)' <=> UnderWay(q)) /\ (Due(q)' <=> Due(q))
    BY <1>5 DEF LoadAd, GetAdRequestBody, UnderWay, Due
  <2>2. CASE q = r
    <3>1. heard[q] = <<>> /\ call'[q] = "queued"
      BY <1>5, <2>2 DEF LoadAd, GetAdRequestBody, HeardOK
    <3>2. \/ heard'[q] = <<>>
          \/ listener'[q] = "unbound" /\ heard'[q] = <<Failure(PARAM_ERROR_TEXT)>>
      BY <1>5, <2>2, <3>1 DEF LoadAd, GetAdRequestBody
    <3>3. Len(heard'[q]) <= 1
      BY <3>2, AtMostOne
    <3> QED BY <3>1, <3>2, <3>3 DEF HeardOK
  <2>3. CASE q # r
    BY <1>5, <2>1, <2>3 DEF LoadAd, GetAdRequestBody, HeardOK
  <2> QED BY <2>2, <2>3
<1>6. ASSUME NEW r \in Request, ConnectRefused(r) PROVE HeardOK(q)'
  <2> DEFINE refusal == [req |-> r, seq |-> 0, what |-> "failure",
                         code |-> ErrCodeConvert(ERR_AD_COMMON_AD_CONNECT_KIT_ERROR),
                         payload |-> "valid"]
  <2>1. /\ inbox' = inbox /\ posted' \subseteq posted \cup {refusal}
        /\ refusal.req = r /\ call[r] \in BeforeConnect
        /\ conn' = [conn EXCEPT ![r] = "refused"]
        /\ call[r] = "running" /\ call' = [call EXCEPT ![r] = "executed"]
        /\ UNCHANGED <<listener, heard, replies>>
    BY <1>6 DEF ConnectRefused, Executed, BeforeConnect
  <2> HIDE DEF refusal
  <2>2. Due(q) => Due(q)'
    BY <2>1 DEF Due
  <2>3. CASE q = r
    BY <1>1, <2>1, <2>2, <2>3, NothingYet
  <2>4. CASE q # r
    <3>1. UnderWay(q)' => UnderWay(q)
      BY <2>1, <2>4 DEF UnderWay
    <3> QED BY <1>1, <2>1, <2>2, <2>4, <3>1
  <2> QED BY <2>3, <2>4
<1>7. ASSUME NEW r \in Request, Complete(r) PROVE HeardOK(q)'
  <2>1. /\ call' = [call EXCEPT ![r] = "completed"]
        /\ UNCHANGED <<listener, conn, replies, inbox, posted>>
    BY <1>7 DEF Complete
  <2>2. (UnderWay(q)' <=> UnderWay(q)) /\ (Due(q) => Due(q)')
    BY <2>1 DEF UnderWay, Due
  <2>3. CASE heard'[q] = heard[q]
    BY <2>1, <2>2, <2>3 DEF HeardOK
  <2>4. CASE heard'[q] # heard[q]
    <3>1. /\ q = r /\ ~IsLoad(r) /\ err[r] # ERR_SEND_OK /\ listener[r] = "bound"
          /\ call[r] = "executed"
          /\ heard'[r] = Append(heard[r], Failure(err[r]))
      BY <1>7, <2>4 DEF Complete
    <3>2. conn[q] = "refused" /\ replies[q] = <<>>
      BY <1>p, <3>1 DEF ProgressOK
    <3>3. ~UnderWay(q) /\ ~Due(q) /\ Due(q)'
      BY <2>1, <3>1, <3>2, NothingUnderWay DEF Due
    <3>4. heard[q] = <<>>
      BY <3>1, <3>3 DEF HeardOK
    <3>5. Len(heard'[q]) <= 1
      BY <3>1, <3>4
    <3> QED BY <2>1, <2>2, <3>1, <3>3, <3>5 DEF HeardOK
  <2> QED BY <2>3, <2>4
<1>8. ASSUME NEW r \in Request, KitReplies(r) PROVE HeardOK(q)'
  <2> DEFINE answer == [req |-> r, seq |-> Len(replies[r]) + 1]
  <2>1. /\ inbox' = inbox \cup {answer} /\ answer.req = r
        /\ conn[r] # "refused" /\ Len(replies[r]) < MaxReplies
        /\ UNCHANGED <<call, listener, conn, posted, heard>>
    BY <1>8 DEF KitReplies, KitSends
  <2>2. replies[r] = <<>> /\ ~Due(r)
    BY <2>1, PipelineAssumption DEF Due
  <2>3. PICK reply \in Reply : replies' = [replies EXCEPT ![r] = Append(@, reply)]
    BY <1>8 DEF KitReplies, KitSends
  <2>4. Due(q) => Due(q)'
    BY <2>1, <2>2, <2>3 DEF Due
  <2> HIDE DEF answer
  <2>5. UnderWay(q)' => UnderWay(q) \/ q = r
    BY <2>1 DEF UnderWay
  <2> QED BY <1>1, <2>1, <2>2, <2>4, <2>5
<1>9. ASSUME NEW m \in inbox, OnRemoteRequest(m) PROVE HeardOK(q)'
  <2> DEFINE reply  == replies[m.req][m.seq]
             result == StubResult(m.req, reply)
             answer == [req |-> m.req, seq |-> m.seq, what |-> result.what,
                        code |-> result.code, payload |-> reply.payload]
  <2>1. /\ inbox' = inbox \ {m} /\ posted' = posted \cup {answer}
        /\ answer.req = m.req
        /\ UNCHANGED <<call, listener, conn, replies, heard>>
    BY <1>9 DEF OnRemoteRequest
  <2> HIDE DEF answer
  <2>2. (UnderWay(q)' => UnderWay(q)) /\ (Due(q)' <=> Due(q))
    BY <2>1 DEF UnderWay, Due
  <2> QED BY <1>1, <2>1, <2>2
<1>10. ASSUME NEW w \in posted, UvQueueWork(w) PROVE HeardOK(q)'
  <2>1. /\ posted' = posted \ {w}
        /\ UNCHANGED <<call, listener, conn, replies, inbox>>
    BY <1>10 DEF UvQueueWork
  <2>2. (UnderWay(q)' => UnderWay(q)) /\ (Due(q)' <=> Due(q))
    BY <2>1 DEF UnderWay, Due
  <2>3. CASE heard'[q] = heard[q]
    BY <2>1, <2>2, <2>3 DEF HeardOK
  <2>4. CASE heard'[q] # heard[q]
    <3>1. PICK events \in IF IsLoad(q) THEN TellLoad(w) ELSE TellBody(w) :
            /\ q = w.req /\ listener[q] = "bound"
            /\ heard'[q] = heard[q] \o events
      BY <1>10, <2>4 DEF UvQueueWork
    <3>2. UnderWay(q) /\ heard[q] = <<>> /\ listener[q] # "null"
      BY <3>1 DEF UnderWay, HeardOK
    <3>3. ~UnderWay(q)' /\ call[q] \notin {"idle", "asking"}
      BY <1>p, <2>1, <3>1, <3>2 DEF OneUnderWay, UnderWay, ProgressOK
    <3>4. Due(q)'
      BY <2>1, <2>2, <3>1 DEF BaseInv, PostedOK, ReportsRefusal, ReportsAnswer, Due
    <3>5. events \in Seq(Event)
      BY <3>1, TellType
    <3>6. heard'[q] = events
      BY <3>1, <3>2, <3>5
    <3>7. \/ Len(events) <= 1
          \/ IsLoad(q) /\ events = <<Success, Failure(Undefined)>>
      <4>1. CASE IsLoad(q)
        <5>1. events \in {<<Failure(w.code)>>, <<Failure(Undefined)>>, <<Success>>,
                          <<Success, Failure(Undefined)>>}
          BY <4>1 DEF TellLoad
        <5> QED BY <4>1, <5>1, AtMostOne
      <4>2. CASE ~IsLoad(q)
        <5>1. events \in {<<Success>>, <<Failure(w.code)>>}
          BY <4>2 DEF TellBody
        <5> QED BY <5>1, AtMostOne
      <4> QED BY <4>1, <4>2
    <3> QED BY <2>1, <3>1, <3>3, <3>4, <3>6, <3>7 DEF HeardOK
  <2> QED BY <2>3, <2>4
<1>11. CASE UNCHANGED vars
  BY <1>2, <1>11 DEF vars
<1> QED
  BY <1>3, <1>4, <1>5, <1>6, <1>7, <1>8, <1>9, <1>10, <1>11 DEF Next, LibraryNext, Execute

Heard == \A q \in Request : HeardOK(q)

(* The invariant of a provider that answers at most once.                  *)
LEMMA HeardInvariant ==
  ASSUME MaxReplies <= 1
  PROVE  Spec => [](BaseInv /\ OneUnderWay /\ Heard)
<1>1. Init => OneUnderWay /\ Heard
  BY DEF Init, OneUnderWay, Heard, HeardOK, UnderWay
<1>2. BaseInv /\ OneUnderWay /\ Heard /\ [Next]_vars => (OneUnderWay /\ Heard)'
  BY OneUnderWayStep, HeardStep DEF BaseInv, Heard
<1> QED
  BY <1>1, <1>2, BaseInvariant, PTL DEF Spec

(* If the provider answers each request at most once, no request is        *)
(* reported twice: the completion callback, the binder threads and the     *)
(* failures that the JavaScript proxies add never report the same request. *)
THEOREM OneVerdictCorrect == ASSUME MaxReplies <= 1 PROVE Spec => []OneVerdict
<1>1. Heard => OneVerdict
  BY DEF Heard, HeardOK, OneVerdict
<1> QED
  BY <1>1, HeardInvariant, PTL

-----------------------------------------------------------------------------
(* The pipeline implements AdRequest, if the provider answers at most once. *)

Promises  == {r \in Request : ~IsLoad(r)}
ToldOf(s) == [i \in DOMAIN s |-> s[i].what]
Stages    == [r \in Request |-> StageOf(r)]
Shown     == [r \in Request |-> ToldOf(heard[r])]

(* How the events an application hears are told.                           *)
LEMMA ToldOfNothing == ToldOf(<<>>) = <<>>
BY DEF ToldOf

LEMMA ToldOfOne ==
  ASSUME NEW e
  PROVE  ToldOf(<<e>>) = <<e.what>>
BY DEF ToldOf

LEMMA ToldOfTwo ==
  ASSUME NEW e, NEW f
  PROVE  ToldOf(<<e, f>>) = <<e.what, f.what>>
BY DEF ToldOf

LEMMA AppendToNothing ==
  ASSUME NEW S, NEW e \in S
  PROVE  Append(<<>>, e) = <<e>>
OBVIOUS

(* An answer numbered in the sequence of a provider that answers once is   *)
(* the first.                                                              *)
LEMMA AnsweredOnceStep ==
  ASSUME TypeOK, [Next]_vars, \A q \in Request : Len(replies[q]) <= MaxReplies
  PROVE  \A q \in Request : Len(replies'[q]) <= MaxReplies
<1>1. ASSUME NEW r \in Request, KitReplies(r) PROVE \A q \in Request : Len(replies'[q]) <= MaxReplies
  <2>1. PICK reply \in Reply : replies' = [replies EXCEPT ![r] = Append(@, reply)]
    BY <1>1 DEF KitReplies, KitSends
  <2>2. Len(Append(replies[r], reply)) = Len(replies[r]) + 1 /\ Len(replies[r]) \in Nat
    BY DEF TypeOK
  <2>3. Len(replies[r]) < MaxReplies
    BY <1>1 DEF KitReplies, KitSends
  <2>4. Len(replies'[r]) = Len(replies[r]) + 1
    BY <2>1, <2>2 DEF TypeOK
  <2> QED BY <2>1, <2>2, <2>3, <2>4, PipelineAssumption DEF TypeOK
<1>2. CASE replies' = replies
  BY <1>2
<1>3. replies' = replies \/ \E r \in Request : KitReplies(r)
  BY DEF Next, LibraryNext, ThrowParamError, CheckParamAndLoad, LoadAd, GetAdRequestBody, ReadConfig,
     Execute, ReturnWithoutCallback, Connect, ConnectRefused, Complete,
     OnAbilityConnectDone, ConnectDoneFails, OnAbilityDisconnectDone, OnRemoteRequest,
     UvQueueWork, vars
<1> QED
  BY <1>1, <1>2, <1>3

(* What AdRequest sees of a request depends on this much of it.            *)
LEMMA Unmoved ==
  ASSUME NEW q \in Request, call'[q] = call[q], listener'[q] = listener[q],
         conn'[q] = conn[q], replies'[q] = replies[q], heard'[q] = heard[q]
  PROVE  StageOf(q)' = StageOf(q) /\ ToldOf(heard[q])' = ToldOf(heard[q])
BY DEF StageOf, ToldOf

(* A step that concerns one request changes one value of each mapping.     *)
LEMMA OneMoves ==
  ASSUME NEW r \in Request,
         \A q \in Request : q # r =>
           /\ call'[q] = call[q] /\ listener'[q] = listener[q]
           /\ conn'[q] = conn[q] /\ replies'[q] = replies[q] /\ heard'[q] = heard[q]
  PROVE  /\ Stages' = [Stages EXCEPT ![r] = StageOf(r)']
         /\ Shown'  = [Shown EXCEPT ![r] = ToldOf(heard[r])']
<1>1. \A q \in Request : q # r => StageOf(q)' = StageOf(q) /\ ToldOf(heard[q])' = ToldOf(heard[q])
  BY Unmoved
<1> QED
  BY <1>1 DEF Stages, Shown

(* The steps of AdRequest in terms of the mappings.                        *)
LEMMA StutterMaps ==
  ASSUME NEW r \in Request, StageOf(r)' = StageOf(r), heard'[r] = heard[r],
         Stages' = [Stages EXCEPT ![r] = StageOf(r)'],
         Shown' = [Shown EXCEPT ![r] = ToldOf(heard[r])']
  PROVE  [Abstract!Next]_(Abstract!vars)
<1>1. Stages' = Stages
  BY DEF Stages
<1>2. ToldOf(heard[r])' = ToldOf(heard[r])
  BY DEF ToldOf
<1>3. Shown' = Shown
  BY <1>2 DEF Shown
<1> QED
  BY <1>1, <1>3 DEF Abstract!vars, Stages, Shown, ToldOf

LEMMA MoveMaps ==
  ASSUME NEW r \in Request, NEW s, NEW t, StageOf(r) = s, StageOf(r)' = t,
         heard'[r] = heard[r],
         Stages' = [Stages EXCEPT ![r] = StageOf(r)'],
         Shown' = [Shown EXCEPT ![r] = ToldOf(heard[r])'],
         \/ s = "idle"  /\ t = "asked"
         \/ s = "asked" /\ t \in {"closed", "refused", "granted", "denied"}
  PROVE  [Abstract!Next]_(Abstract!vars)
<1>1. Stages[r] = s /\ Stages' = [Stages EXCEPT ![r] = t]
  BY DEF Stages
<1>2. ToldOf(heard[r])' = ToldOf(heard[r])
  BY DEF ToldOf
<1>3. Shown' = Shown
  BY <1>2 DEF Shown
<1>4. Abstract!Ask(r) \/ Abstract!Drop(r) \/ Abstract!Refuse(r)
      \/ Abstract!Answer(r, "granted") \/ Abstract!Answer(r, "denied")
  BY <1>1, <1>3 DEF Abstract!Ask, Abstract!Drop, Abstract!Refuse, Abstract!Answer,
     Abstract!Move, Stages, Shown, ToldOf
<1> QED
  BY <1>4 DEF Abstract!Next

LEMMA RejectMaps ==
  ASSUME NEW r \in Request, StageOf(r) = "idle", StageOf(r)' = "closed",
         Stages' = [Stages EXCEPT ![r] = StageOf(r)'],
         Shown' = [Shown EXCEPT ![r] = ToldOf(heard[r])'],
         IF IsLoad(r) THEN heard'[r] = heard[r]
                      ELSE \E code : heard'[r] = <<Failure(code)>>
  PROVE  [Abstract!Next]_(Abstract!vars)
<1>1. Stages[r] = "idle" /\ Stages' = [Stages EXCEPT ![r] = "closed"]
  BY DEF Stages
<1>2. Shown' = IF r \in Promises THEN [Shown EXCEPT ![r] = <<"failure">>] ELSE Shown
  <2>1. CASE IsLoad(r)
    <3>1. ToldOf(heard[r])' = ToldOf(heard[r])
      BY <2>1 DEF ToldOf
    <3> QED BY <2>1, <3>1 DEF Shown, Promises
  <2>2. CASE ~IsLoad(r)
    <3>1. PICK code : heard'[r] = <<Failure(code)>>
      BY <2>2
    <3>2. ToldOf(heard'[r]) = <<Failure(code).what>> /\ Failure(code).what = "failure"
      BY <3>1, ToldOfOne DEF Failure
    <3>3. ToldOf(heard[r])' = <<"failure">>
      BY <3>2 DEF ToldOf
    <3> QED BY <2>2, <3>3 DEF Promises
  <2> QED BY <2>1, <2>2
<1>3. Abstract!Reject(r)
  BY <1>1, <1>2 DEF Abstract!Reject, Abstract!Move, Stages, Shown, ToldOf, Promises
<1> QED
  BY <1>3 DEF Abstract!Next

LEMMA TellMaps ==
  ASSUME NEW r \in Request, heard[r] = <<>>, StageOf(r)' = StageOf(r),
         Stages' = [Stages EXCEPT ![r] = StageOf(r)'],
         Shown' = [Shown EXCEPT ![r] = ToldOf(heard[r])'],
         \/ /\ StageOf(r) \in {"refused", "denied", "granted"}
            /\ \E code : heard'[r] = <<Failure(code)>>
         \/ StageOf(r) = "granted" /\ heard'[r] = <<Success>>
         \/ /\ StageOf(r) = "granted" /\ IsLoad(r)
            /\ \E code : heard'[r] = <<Success, Failure(code)>>
  PROVE  [Abstract!Next]_(Abstract!vars)
<1>1. Stages' = Stages
  BY DEF Stages
<1>2. Shown[r] = <<>>
  BY ToldOfNothing DEF Shown
<1>3. \/ /\ StageOf(r) \in {"refused", "denied", "granted"}
         /\ ToldOf(heard'[r]) = <<"failure">>
      \/ StageOf(r) = "granted" /\ ToldOf(heard'[r]) = <<"success">>
      \/ /\ StageOf(r) = "granted" /\ r \notin Promises
         /\ ToldOf(heard'[r]) = <<"success", "failure">>
  <2>1. Success.what = "success" /\ \A code : Failure(code).what = "failure"
    BY DEF Success, Failure
  <2>2. \A code : ToldOf(<<Failure(code)>>) = <<"failure">>
    BY <2>1, ToldOfOne
  <2>3. ToldOf(<<Success>>) = <<"success">>
    BY <2>1, ToldOfOne
  <2>4. \A code : ToldOf(<<Success, Failure(code)>>) = <<"success", "failure">>
    BY <2>1, ToldOfTwo
  <2>5. CASE StageOf(r) \in {"refused", "denied", "granted"} /\ \E code : heard'[r] = <<Failure(code)>>
    BY <2>2, <2>5
  <2>6. CASE StageOf(r) = "granted" /\ heard'[r] = <<Success>>
    BY <2>3, <2>6
  <2>7. CASE StageOf(r) = "granted" /\ IsLoad(r) /\ \E code : heard'[r] = <<Success, Failure(code)>>
    BY <2>4, <2>7 DEF Promises
  <2> QED BY <2>5, <2>6, <2>7
<1>4. ToldOf(heard'[r]) = ToldOf(heard[r])'
  BY DEF ToldOf
<1>5. PICK outcome : outcome = ToldOf(heard'[r]) /\ Shown' = [Shown EXCEPT ![r] = outcome]
  BY <1>4
<1>6. Abstract!Tell(r)
  <2>1. outcome \in Abstract!Outcomes(r)
    BY <1>3, <1>5 DEF Abstract!Outcomes, Promises
  <2> QED BY <1>1, <1>2, <1>5, <2>1 DEF Abstract!Tell, Stages, Shown, ToldOf
<1> QED
  BY <1>6 DEF Abstract!Next

(* Steps that do not change what AdRequest sees.                           *)
LEMMA QuietMaps ==
  ASSUME TypeOK, StagesOK, NEW r \in Request,
         \/ ReadConfig(r) \/ ReturnWithoutCallback(r) \/ Connect(r)
         \/ OnAbilityConnectDone(r) \/ OnAbilityDisconnectDone(r)
  PROVE  [Abstract!Next]_(Abstract!vars)
<1> USE DEF TypeOK, callVars, connVars
<1>1. /\ UNCHANGED <<listener, replies, heard>>
      /\ \A q \in Request : q # r => call'[q] = call[q] /\ conn'[q] = conn[q]
  BY DEF ReadConfig, ReturnWithoutCallback, Connect, OnAbilityConnectDone,
     OnAbilityDisconnectDone, Executed
<1>2. /\ call'[r] = call[r] \/ {call[r], call'[r]} \subseteq {"queued", "running", "executed"}
      /\ conn'[r] = conn[r] \/ {conn[r], conn'[r]} \subseteq {"none", "connecting", "sent", "disconnected"}
  BY DEF ReadConfig, ReturnWithoutCallback, Connect, OnAbilityConnectDone,
     OnAbilityDisconnectDone, Executed, StagesOK, ProgressOK, BeforeConnect
<1>3. StageOf(r)' = StageOf(r) /\ heard'[r] = heard[r]
  BY <1>1, <1>2 DEF StageOf
<1>4. /\ Stages' = [Stages EXCEPT ![r] = StageOf(r)']
      /\ Shown' = [Shown EXCEPT ![r] = ToldOf(heard[r])']
  BY <1>1, OneMoves
<1> QED
  BY <1>3, <1>4, StutterMaps

(* The application's call.                                                 *)
LEMMA CallMaps ==
  ASSUME TypeOK, StagesOK, Heard, NEW r \in Request,
         ThrowParamError(r) \/ CheckParamAndLoad(r) \/ LoadAd(r) \/ GetAdRequestBody(r)
  PROVE  [Abstract!Next]_(Abstract!vars)
<1> USE DEF TypeOK, callVars, connVars
<1>1. /\ UNCHANGED <<conn, replies>>
      /\ \A q \in Request : q # r => /\ call'[q] = call[q] /\ listener'[q] = listener[q]
                                   /\ heard'[q] = heard[q]
  BY DEF ThrowParamError, CheckParamAndLoad, LoadAd, GetAdRequestBody
<1>2. /\ Stages' = [Stages EXCEPT ![r] = StageOf(r)']
      /\ Shown' = [Shown EXCEPT ![r] = ToldOf(heard[r])']
  BY <1>1, OneMoves
<1>3. call[r] \in {"idle", "asking"} => conn[r] = "none" /\ replies[r] = <<>> /\ listener[r] = "null"
  BY DEF StagesOK, ProgressOK, BeforeConnect
<1>4. CASE ThrowParamError(r)
  <2>1. StageOf(r) = "idle" /\ StageOf(r)' = "closed"
    BY <1>3, <1>4 DEF ThrowParamError, StageOf
  <2>2. IF IsLoad(r) THEN heard'[r] = heard[r] ELSE heard'[r] = <<Failure(PARAM_ERR)>>
    BY <1>4 DEF ThrowParamError
  <2> QED BY <1>2, <2>1, <2>2, RejectMaps
<1>5. CASE CheckParamAndLoad(r)
  <2>1. StageOf(r) = "idle" /\ StageOf(r)' = "asked" /\ heard'[r] = heard[r]
    BY <1>3, <1>5 DEF CheckParamAndLoad, StageOf
  <2> QED BY <1>2, <2>1, MoveMaps
<1>6. CASE LoadAd(r)
  <2>1. StageOf(r) = "asked" /\ StageOf(r)' \in {"asked", "closed"} /\ heard'[r] = heard[r]
    BY <1>1, <1>3, <1>6 DEF LoadAd, StageOf
  <2> QED BY <1>2, <2>1, MoveMaps, StutterMaps
<1>7. CASE GetAdRequestBody(r)
  <2>1. StageOf(r) = "idle" /\ ~IsLoad(r)
    BY <1>7 DEF GetAdRequestBody, StageOf
  <2>2. \/ StageOf(r)' = "asked" /\ heard'[r] = heard[r]
        \/ StageOf(r)' = "closed" /\ heard'[r] = <<Failure(PARAM_ERROR_TEXT)>>
    BY <1>1, <1>3, <1>7 DEF GetAdRequestBody, StageOf
  <2> QED BY <1>2, <2>1, <2>2, MoveMaps, RejectMaps
<1> QED
  BY <1>4, <1>5, <1>6, <1>7

(* The connection that is refused or fails, and the answer.                *)
LEMMA LinkMaps ==
  ASSUME TypeOK, StagesOK, MaxReplies <= 1, NEW r \in Request,
         ConnectRefused(r) \/ ConnectDoneFails(r) \/ KitReplies(r)
  PROVE  [Abstract!Next]_(Abstract!vars)
<1> USE DEF TypeOK, callVars, connVars
<1>1. /\ UNCHANGED <<listener, heard>>
      /\ \A q \in Request : q # r => /\ call'[q] = call[q] /\ conn'[q] = conn[q]
                                   /\ replies'[q] = replies[q]
  BY DEF ConnectRefused, ConnectDoneFails, KitReplies, KitSends, Executed
<1>2. /\ Stages' = [Stages EXCEPT ![r] = StageOf(r)']
      /\ Shown' = [Shown EXCEPT ![r] = ToldOf(heard[r])']
  BY <1>1, OneMoves
<1>3. /\ call[r] \notin {"idle", "asking"} /\ call'[r] \notin {"idle", "asking"}
      /\ conn[r] # "refused"
  BY DEF ConnectRefused, ConnectDoneFails, KitReplies, KitSends, Executed, StagesOK, ProgressOK,
     BeforeConnect
<1>4. replies[r] = <<>>
  <2>1. CASE KitReplies(r)
    <3>1. Len(replies[r]) < MaxReplies /\ replies[r] \in Seq(Reply)
      BY <2>1 DEF KitReplies, KitSends
    <3> QED BY <3>1, PipelineAssumption
  <2>2. CASE ConnectRefused(r) \/ ConnectDoneFails(r)
    BY <2>2 DEF ConnectRefused, ConnectDoneFails, StagesOK, ProgressOK, BeforeConnect
  <2> QED BY <2>1, <2>2
<1>5. CASE listener[r] # "bound"
  <2>1. StageOf(r) = "closed" /\ StageOf(r)' = "closed"
    BY <1>1, <1>3, <1>5 DEF StageOf
  <2> QED BY <1>1, <1>2, <2>1, StutterMaps
<1>6. CASE listener[r] = "bound"
  <2>1. conn[r] # "failed" /\ StageOf(r) = "asked"
    BY <1>3, <1>4, <1>6 DEF StageOf, ConnectRefused, ConnectDoneFails, KitReplies, KitSends,
       StagesOK, ProgressOK, BeforeConnect
  <2>2. CASE ConnectRefused(r)
    <3>1. conn' = [conn EXCEPT ![r] = "refused"]
      BY <2>2 DEF ConnectRefused
    <3>2. StageOf(r)' = "refused"
      BY <1>1, <1>3, <1>6, <3>1 DEF StageOf
    <3> QED BY <1>1, <1>2, <2>1, <3>2, MoveMaps
  <2>3. CASE ConnectDoneFails(r)
    <3>1. conn' = [conn EXCEPT ![r] = "failed"] /\ replies' = replies
      BY <2>3 DEF ConnectDoneFails
    <3>2. StageOf(r)' = "closed"
      BY <1>1, <1>3, <1>4, <1>6, <3>1 DEF StageOf
    <3> QED BY <1>1, <1>2, <2>1, <3>2, MoveMaps
  <2>4. CASE KitReplies(r)
    <3>1. PICK reply \in Reply : replies' = [replies EXCEPT ![r] = Append(@, reply)]
      BY <2>4 DEF KitReplies, KitSends
    <3>2. replies'[r] = <<reply>>
      BY <1>4, <3>1, AppendToNothing
    <3>3. <<reply>> # <<>> /\ <<reply>>[1] = reply
      BY AppendedNotEmpty
    <3>4. StageOf(r)' \in {"granted", "denied"}
      BY <1>1, <1>3, <1>6, <2>4, <3>2, <3>3 DEF KitReplies, KitSends, StageOf
    <3> QED BY <1>1, <1>2, <2>1, <3>4, MoveMaps
  <2> QED BY <2>2, <2>3, <2>4
<1> QED
  BY <1>5, <1>6

(* The completion callback rejects the promise of a refused body.          *)
LEMMA CompleteMaps ==
  ASSUME TypeOK, BaseInv, Heard, NEW r \in Request, Complete(r)
  PROVE  [Abstract!Next]_(Abstract!vars)
<1> USE DEF TypeOK, callVars, connVars
<1>1. /\ call' = [call EXCEPT ![r] = "completed"] /\ call[r] = "executed"
      /\ UNCHANGED <<listener, conn, replies>>
      /\ \A q \in Request : q # r => heard'[q] = heard[q]
  BY DEF Complete
<1>2. /\ Stages' = [Stages EXCEPT ![r] = StageOf(r)']
      /\ Shown' = [Shown EXCEPT ![r] = ToldOf(heard[r])']
  BY <1>1, OneMoves
<1>3. StageOf(r)' = StageOf(r)
  BY <1>1 DEF StageOf
<1>4. CASE heard'[r] = heard[r]
  BY <1>2, <1>3, <1>4, StutterMaps
<1>5. CASE heard'[r] # heard[r]
  <2>1. /\ ~IsLoad(r) /\ err[r] # ERR_SEND_OK /\ listener[r] = "bound"
        /\ heard'[r] = Append(heard[r], Failure(err[r]))
    BY <1>5 DEF Complete
  <2>2. conn[r] = "refused" /\ replies[r] = <<>>
    BY <2>1 DEF BaseInv, StagesOK, ProgressOK
  <2>3. ~Due(r)
    BY <1>1, <2>1, <2>2 DEF Due
  <2>4. heard[r] = <<>>
    BY <2>1, <2>3 DEF Heard, HeardOK
  <2>5. Failure(err[r]) \in Event
    BY DEF Failure, Event
  <2>6. heard'[r] = <<Failure(err[r])>>
    BY <2>1, <2>4, <2>5, AppendToNothing
  <2>7. StageOf(r) = "refused"
    BY <1>1, <2>1, <2>2 DEF StageOf
  <2> QED BY <1>2, <1>3, <2>4, <2>6, <2>7, TellMaps
<1> QED
  BY <1>4, <1>5

(* The event loop tells what was posted: the refusal or the one answer.    *)
LEMMA UvMaps ==
  ASSUME TypeOK, BaseInv, Heard, MaxReplies <= 1,
         \A q \in Request : Len(replies[q]) <= MaxReplies,
         NEW w \in posted, UvQueueWork(w)
  PROVE  [Abstract!Next]_(Abstract!vars)
<1> DEFINE r == w.req
<1> USE DEF TypeOK, callVars, connVars
<1>0. w \in Work /\ r \in Request
  BY DEF Work
<1>1. /\ UNCHANGED <<call, listener, conn, replies>>
      /\ \A q \in Request : q # r => heard'[q] = heard[q]
  BY DEF UvQueueWork
<1>2. /\ Stages' = [Stages EXCEPT ![r] = StageOf(r)']
      /\ Shown' = [Shown EXCEPT ![r] = ToldOf(heard[r])']
  BY <1>0, <1>1, OneMoves
<1>3. StageOf(r)' = StageOf(r)
  BY <1>1 DEF StageOf
<1>4. CASE heard'[r] = heard[r]
  BY <1>0, <1>2, <1>3, <1>4, StutterMaps
<1>5. CASE heard'[r] # heard[r]
  <2>1. PICK events \in IF IsLoad(r) THEN TellLoad(w) ELSE TellBody(w) :
          listener[r] = "bound" /\ heard'[r] = heard[r] \o events
    BY <1>0, <1>5 DEF UvQueueWork
  <2>2. heard[r] = <<>>
    BY <1>0, <2>1 DEF Heard, HeardOK, UnderWay
  <2>3. events \in Seq(Event)
    BY <1>0, <2>1, TellType
  <2>4. heard'[r] = events
    BY <2>1, <2>2, <2>3
  <2>5. call[r] \notin {"idle", "asking"}
    BY <1>0, <2>1 DEF BaseInv, StagesOK, ProgressOK
  <2> HIDE DEF r
  <2>6. CASE ReportsRefusal(w)
    <3>1. StageOf(r) = "refused" /\ IsLoad(r)
      BY <2>1, <2>5, <2>6 DEF ReportsRefusal, StageOf, r
    <3>2. events = <<Failure(w.code)>>
      BY <2>1, <2>6, <3>1 DEF ReportsRefusal, TellLoad
    <3> QED BY <1>0, <1>2, <1>3, <2>2, <2>4, <3>1, <3>2, TellMaps
  <2>7. CASE ReportsAnswer(w)
    <3>1. PICK reply : reply = replies[r][w.seq]
      OBVIOUS
    <3>2. w.seq = 1 /\ replies[r] # <<>>
      <4>1. w.seq \in DOMAIN replies[r] /\ replies[r] \in Seq(Reply)
        BY <1>0, <2>7 DEF ReportsAnswer, r
      <4>2. Len(replies[r]) <= 1 /\ DOMAIN replies[r] = 1..Len(replies[r]) /\ Len(replies[r]) \in Nat
        BY <1>0, <4>1, PipelineAssumption
      <4> QED BY <4>1, <4>2
    <3>3. reply \in Reply
      BY <1>0, <2>7, <3>1 DEF ReportsAnswer, r
    <3>4. conn[r] # "refused"
      BY <1>0, <3>2 DEF BaseInv, StagesOK, ProgressOK
    <3>5. StageOf(r) = IF reply.code = LOAD_AD_SUCCESS THEN "granted" ELSE "denied"
      BY <2>1, <2>5, <3>1, <3>2, <3>4 DEF StageOf
    <3>6. w.what = StubResult(r, reply).what /\ w.code = StubResult(r, reply).code
      BY <2>7, <3>1 DEF ReportsAnswer, r
    <3>7. CASE IsLoad(r)
      <4>1. w.what = "success" => reply.code = LOAD_AD_SUCCESS
        BY <3>6, <3>7 DEF StubResult, Failure
      <4>2. events \in TellLoad(w)
        BY <2>1, <3>7
      <4>3. \/ \E code : events = <<Failure(code)>>
            \/ events = <<Success>> /\ w.what # "failure"
            \/ events = <<Success, Failure(Undefined)>> /\ w.what # "failure"
        BY <4>2 DEF TellLoad
      <4>4. w.what # "failure" => w.what = "success"
        BY <1>0 DEF Work
      <4>5. \/ /\ StageOf(r) \in {"refused", "denied", "granted"}
               /\ \E code : heard'[r] = <<Failure(code)>>
            \/ StageOf(r) = "granted" /\ heard'[r] = <<Success>>
            \/ /\ StageOf(r) = "granted" /\ IsLoad(r)
               /\ \E code : heard'[r] = <<Success, Failure(code)>>
        BY <2>4, <3>5, <3>7, <4>1, <4>3, <4>4
      <4> QED BY <1>0, <1>2, <1>3, <2>2, <4>5, TellMaps
    <3>8. CASE ~IsLoad(r)
      <4>1. events = IF w.code = ERR_SEND_OK THEN <<Success>> ELSE <<Failure(w.code)>>
        BY <2>1, <3>8 DEF TellBody
      <4>2. reply.code # ERR_SEND_OK
        BY <3>3, PipelineAssumption DEF Reply
      <4>3. w.code = ERR_SEND_OK => reply.code = LOAD_AD_SUCCESS
        BY <3>6, <3>8, <4>2 DEF StubResult, Failure
      <4>4. \/ /\ StageOf(r) \in {"refused", "denied", "granted"}
               /\ \E code : heard'[r] = <<Failure(code)>>
            \/ StageOf(r) = "granted" /\ heard'[r] = <<Success>>
        BY <2>4, <3>5, <4>1, <4>3
      <4> QED BY <1>0, <1>2, <1>3, <2>2, <4>4, TellMaps
    <3> QED BY <3>7, <3>8
  <2> QED BY <2>6, <2>7 DEF BaseInv, PostedOK
<1> QED
  BY <1>4, <1>5

LEMMA PromiseStep ==
  ASSUME MaxReplies <= 1, BaseInv, OneUnderWay, Heard, [Next]_vars,
         \A q \in Request : Len(replies[q]) <= MaxReplies
  PROVE  [Abstract!Next]_(Abstract!vars)
<1> DEFINE Goal == [Abstract!Next]_(Abstract!vars)
<1> TypeOK /\ StagesOK
  BY DEF BaseInv
<1>1. ASSUME NEW r \in Request,
             ThrowParamError(r) \/ CheckParamAndLoad(r) \/ LoadAd(r) \/ GetAdRequestBody(r)
      PROVE  Goal
  BY <1>1, CallMaps
<1>2. ASSUME NEW r \in Request,
             \/ ReadConfig(r) \/ ReturnWithoutCallback(r) \/ Connect(r)
             \/ OnAbilityConnectDone(r) \/ OnAbilityDisconnectDone(r)
      PROVE  Goal
  BY <1>2, QuietMaps
<1>3. ASSUME NEW r \in Request, ConnectRefused(r) \/ ConnectDoneFails(r) \/ KitReplies(r)
      PROVE  Goal
  BY <1>3, LinkMaps
<1>4. ASSUME NEW r \in Request, Complete(r) PROVE Goal
  BY <1>4, CompleteMaps
<1>5. ASSUME NEW w \in posted, UvQueueWork(w) PROVE Goal
  BY <1>5, UvMaps
<1>6. ASSUME UNCHANGED <<call, listener, conn, replies, heard>> PROVE Goal
  BY <1>6 DEF Abstract!vars, StageOf
<1>7. ASSUME NEW m \in inbox, OnRemoteRequest(m)
      PROVE  UNCHANGED <<call, listener, conn, replies, heard>>
  BY <1>7 DEF OnRemoteRequest, callVars, connVars
<1>8. Goal
  <2> HIDE DEF Goal
  <2> QED
    BY <1>1, <1>2, <1>3, <1>4, <1>5, <1>6, <1>7 DEF Next, LibraryNext, Execute, vars
<1> QED
  BY <1>8

(* The pipeline keeps the promise of AdRequest whatever route a request    *)
(* takes through JavaScript, the worker threads and the provider's         *)
(* process, if the provider answers at most once: an outcome at most once, *)
(* in one turn of the event loop, never before the application asked, and  *)
(* success only where the provider granted it.                             *)
THEOREM KeepsPromiseCorrect == ASSUME MaxReplies <= 1 PROVE Spec => KeepsPromise
<1> DEFINE Once == \A q \in Request : Len(replies[q]) <= MaxReplies
<1>1. Init => Once /\ Abstract!Init
  <2> SUFFICES ASSUME Init PROVE Once /\ Abstract!Init
    OBVIOUS
  <2>1. Once
    BY PipelineAssumption DEF Init
  <2>2. \A r \in Request : StageOf(r) = "idle" /\ ToldOf(heard[r]) = <<>>
    BY ToldOfNothing DEF Init, StageOf
  <2> QED BY <2>1, <2>2 DEF Abstract!Init, ToldOf
<1>2. BaseInv /\ Once /\ [Next]_vars => Once'
  BY AnsweredOnceStep DEF BaseInv
<1>3. BaseInv /\ OneUnderWay /\ Heard /\ Once /\ [Next]_vars
        => [Abstract!Next]_(Abstract!vars)
  BY PromiseStep
<1> HIDE DEF Once
<1> QED
  BY <1>1, <1>2, <1>3, HeardInvariant, PTL DEF Spec, KeepsPromise, Abstract!Spec

-----------------------------------------------------------------------------
(* The library and a provider's handler together (AdEndToEnd).             *)

RpcP == INSTANCE AdsServiceRpcProofs WITH
  Request <- Load, MaxAnswers <- MaxReplies, replies <- sent

(* What is assumed of the system is what the handler's theorems assume.    *)
LEMMA ServiceAssumption == RpcP!AdsServiceAssumption
BY EndToEndAssumption, PipelineAssumption
   DEF RpcP!AdsServiceAssumption, Rpc!MessageType, RpcP!MessageType, Rpc!Slot, RpcP!Slot

(* The instance the theorems are about is the one the system is made of.   *)
LEMMA SameHandler ==
  /\ Rpc!Spec => RpcP!Spec
  /\ Rpc!TypeOK <=> RpcP!TypeOK
<1>1. Rpc!Init => RpcP!Init
  BY DEF Rpc!Init, RpcP!Init
<1>2. Rpc!Next <=> RpcP!Next
  BY DEF Rpc!Next, RpcP!Next, Rpc!Receive, RpcP!Receive, Rpc!NameFails,
         RpcP!NameFails, Rpc!TokenFails, RpcP!TokenFails, Rpc!ValidateThrows,
         RpcP!ValidateThrows, Rpc!Refuse, RpcP!Refuse, Rpc!Hand, RpcP!Hand,
         Rpc!Respond, RpcP!Respond, Rpc!Return, RpcP!Return, Rpc!ServiceThrows,
         RpcP!ServiceThrows, Rpc!Resumes, RpcP!Resumes, Rpc!OuterCatch,
         RpcP!OuterCatch, Rpc!Goto, RpcP!Goto, Rpc!NoneServing, RpcP!NoneServing,
         Rpc!SendMsgReq, RpcP!SendMsgReq, Rpc!BizAdsReqCallback,
         RpcP!BizAdsReqCallback, Rpc!HasAds, RpcP!HasAds, Rpc!Throws,
         RpcP!Throws, Rpc!Valid, RpcP!Valid, Rpc!HasIds, RpcP!HasIds, Rpc!Fits,
         RpcP!Fits, Rpc!IsValidAdSize, RpcP!IsValidAdSize, Rpc!IsValidAdType,
         RpcP!IsValidAdType, Rpc!Undefined, RpcP!Undefined, Rpc!CODE_SUCCESS,
         RpcP!CODE_SUCCESS, Rpc!CODE_INVALID_PARAMETERS,
         RpcP!CODE_INVALID_PARAMETERS, Rpc!CODE_DEVICE_NOT_SUPPORT,
         RpcP!CODE_DEVICE_NOT_SUPPORT, Rpc!CODE_INTERNAL_ERROR,
         RpcP!CODE_INTERNAL_ERROR, Rpc!CODE_LOAD_ADS_FAILURE,
         RpcP!CODE_LOAD_ADS_FAILURE
<1>3. [Rpc!Next]_(Rpc!vars) => [RpcP!Next]_(RpcP!vars)
  BY <1>2 DEF Rpc!vars, RpcP!vars
<1>4. Rpc!TypeOK <=> RpcP!TypeOK
  BY DEF Rpc!TypeOK, RpcP!TypeOK, Rpc!Pc, RpcP!Pc, Rpc!Reply, RpcP!Reply, 
         Rpc!CODE_SUCCESS, RpcP!CODE_SUCCESS, Rpc!CODE_INVALID_PARAMETERS,
         RpcP!CODE_INVALID_PARAMETERS, Rpc!CODE_DEVICE_NOT_SUPPORT,
         RpcP!CODE_DEVICE_NOT_SUPPORT, Rpc!CODE_INTERNAL_ERROR,
         RpcP!CODE_INTERNAL_ERROR, Rpc!CODE_LOAD_ADS_FAILURE,
         RpcP!CODE_LOAD_ADS_FAILURE
<1>5. Rpc!Spec => RpcP!Spec
  BY <1>1, <1>3, PTL DEF Rpc!Spec, RpcP!Spec
<1> QED
  BY <1>4, <1>5

(* In the system, whatever the library and other providers do, each load   *)
(* is handled as AdsServiceRpc has it, so all its theorems hold here.      *)
THEOREM HandlerCorrect == SystemSpec => Rpc!Spec
<1>1. SystemInit => Rpc!Init
  BY DEF SystemInit
<1>2. [SystemNext]_systemVars => [Rpc!Next]_(Rpc!vars)
  <2> SUFFICES ASSUME [SystemNext]_systemVars PROVE Rpc!Next \/ UNCHANGED Rpc!vars
    OBVIOUS
  <2>1. ASSUME UNCHANGED serviceVars PROVE UNCHANGED Rpc!vars
    BY <2>1 DEF serviceVars, Rpc!vars
  <2>2. CASE LibraryStep \/ (\E r \in Request : OtherReplies(r)) \/ UNCHANGED systemVars
    BY <2>1, <2>2 DEF LibraryStep, OtherReplies, systemVars
  <2>3. ASSUME NEW r \in Load, NEW m \in Message, TakeRequest(r, m) PROVE Rpc!Next
    BY <2>3 DEF TakeRequest, Rpc!Next
  <2>4. ASSUME NEW r \in Load,
               EndsSilently(r) \/ ReplyRefusal(r) \/ GiveToService(r) \/ ServiceReturns(r)
        PROVE  Rpc!Next
    BY <2>4 DEF EndsSilently, ReplyRefusal, GiveToService, ServiceReturns, Rpc!Next
  <2>5. ASSUME NEW r \in Load, NEW d \in RespData, ReplyOfService(r, d) PROVE Rpc!Next
    BY <2>5 DEF ReplyOfService, Rpc!Next
  <2>6. ASSUME NEW r \in Load, NEW code \in {Rpc!CODE_DEVICE_NOT_SUPPORT, Rpc!CODE_INTERNAL_ERROR},
               ReplyException(r, code)
        PROVE  Rpc!Next
    BY <2>6 DEF ReplyException, Rpc!Next
  <2> QED BY <2>2, <2>3, <2>4, <2>5, <2>6 DEF SystemNext
<1> QED
  BY <1>1, <1>2, PTL DEF SystemSpec, Rpc!Spec

(* What is known of the handler in the system.                             *)
ServiceInv == Rpc!TypeOK /\ RpcP!RpcInv /\ RpcP!RepliesHaveCause

LEMMA ServiceInvariant == SystemSpec => []ServiceInv
<1>1. RpcP!Spec => [](RpcP!TypeOK /\ RpcP!RpcInv)
  BY RpcP!RpcInvariant, ServiceAssumption
<1>2. RpcP!Spec => []RpcP!RepliesHaveCause
  BY RpcP!RepliesHaveCauseCorrect, ServiceAssumption
<1>3. RpcP!TypeOK <=> Rpc!TypeOK
  BY SameHandler
<1>4. SystemSpec => RpcP!Spec
  BY HandlerCorrect, SameHandler
<1> QED
  BY <1>1, <1>2, <1>3, <1>4, PTL DEF ServiceInv

-----------------------------------------------------------------------------
(* What passes between the two.                                            *)

LEMMA WireType ==
  ASSUME NEW r \in Load, NEW reply \in Rpc!Reply
  PROVE  Wire(r, reply) \in Reply
<1>1. reply.code \in KitCode
  BY EndToEndAssumption DEF Rpc!Reply, HandlerCode
<1> QED
  BY <1>1 DEF Wire, Reply, Payload, Rpc!CODE_SUCCESS, LOAD_AD_SUCCESS

(* What the steps that send leave behind: one reply more on both sides.    *)
Passed(r) ==
  \E e \in Rpc!Reply :
    /\ sent' = [sent EXCEPT ![r] = Append(sent[r], e)]
    /\ KitSends(r, Wire(r, e))

LEMMA SendsPasses ==
  ASSUME Rpc!TypeOK, NEW r \in Load, NEW code, NEW ads,
         [code |-> code, ads |-> ads] \in Rpc!Reply, Rpc!SendMsgReq(r, code, ads), Sends(r)
  PROVE  Passed(r)
<1> DEFINE e == [code |-> code, ads |-> ads]
<1>1. sent \in [Load -> Seq(Rpc!Reply)]
  BY DEF Rpc!TypeOK
<1>2. sent' = [sent EXCEPT ![r] = Append(sent[r], e)]
  BY DEF Rpc!SendMsgReq
<1>3. sent[r] \in Seq(Rpc!Reply) /\ sent'[r] = Append(sent[r], e)
  BY <1>1, <1>2
<1>4. e \in Rpc!Reply
  OBVIOUS
<1> HIDE DEF e
<1>5. sent'[r][Len(sent'[r])] = e
  BY <1>3, <1>4
<1>6. KitSends(r, Wire(r, e))
  BY <1>5 DEF Sends
<1> QED
  BY <1>2, <1>4, <1>6 DEF Passed, e

(* Each step that sends something sends a reply.                           *)
LEMMA RefusalPasses ==
  ASSUME Rpc!TypeOK, NEW r \in Load, ReplyRefusal(r) PROVE Passed(r)
<1>1. [code |-> Rpc!CODE_INVALID_PARAMETERS, ads |-> <<>>] \in Rpc!Reply
  BY DEF Rpc!Reply
<1>2. Rpc!SendMsgReq(r, Rpc!CODE_INVALID_PARAMETERS, <<>>) /\ Sends(r)
  BY DEF ReplyRefusal, Rpc!Refuse
<1> QED
  BY <1>1, <1>2, SendsPasses

LEMMA AnswerPasses ==
  ASSUME Rpc!TypeOK, NEW r \in Load, NEW d \in RespData, ReplyOfService(r, d) PROVE Passed(r)
<1>1. Rpc!BizAdsReqCallback(r, d) /\ Sends(r)
  BY DEF ReplyOfService, Rpc!Respond
<1>2. d \in Seq(Seq(Ad))
  BY EndToEndAssumption
<1>3. CASE Rpc!HasAds(d)
  <2>1. 1 \in DOMAIN d /\ d[1] \in Seq(Ad)
    BY <1>2, <1>3 DEF Rpc!HasAds
  <2>2. d \in Seq(Seq(Ad)) /\ <<d[1]>> \in Seq(Seq(Ad))
    BY <1>2, <2>1
  <2>3. PICK ads \in Seq(Seq(Ad)) : Rpc!SendMsgReq(r, Rpc!CODE_SUCCESS, ads)
    BY <1>1, <1>3, <2>2 DEF Rpc!BizAdsReqCallback
  <2>4. [code |-> Rpc!CODE_SUCCESS, ads |-> ads] \in Rpc!Reply
    BY <2>3 DEF Rpc!Reply
  <2> QED BY <1>1, <2>3, <2>4, SendsPasses
<1>4. CASE ~Rpc!HasAds(d)
  <2>1. [code |-> Rpc!CODE_LOAD_ADS_FAILURE, ads |-> <<>>] \in Rpc!Reply
    BY DEF Rpc!Reply
  <2>2. Rpc!SendMsgReq(r, Rpc!CODE_LOAD_ADS_FAILURE, <<>>)
    BY <1>1, <1>4 DEF Rpc!BizAdsReqCallback
  <2> QED BY <1>1, <2>1, <2>2, SendsPasses
<1> QED
  BY <1>3, <1>4

LEMMA ExceptionPasses ==
  ASSUME Rpc!TypeOK, NEW r \in Load, NEW code, ReplyException(r, code),
         code \in {Rpc!CODE_DEVICE_NOT_SUPPORT, Rpc!CODE_INTERNAL_ERROR}
  PROVE  Passed(r)
<1>1. [code |-> code, ads |-> <<>>] \in Rpc!Reply
  BY DEF Rpc!Reply
<1>2. Rpc!SendMsgReq(r, code, <<>>) /\ Sends(r)
  BY DEF ReplyException, Rpc!ServiceThrows
<1> QED
  BY <1>1, <1>2, SendsPasses

(* Nothing a handler sends is new to the library: it is a provider as any, *)
(* so what AdLoadPipeline promises holds with it.                          *)
THEOREM SystemIsPipeline == SystemSpec => Spec
<1>1. SystemInit => Init
  BY DEF SystemInit
<1>2. ServiceInv /\ [SystemNext]_systemVars => [Next]_vars
  <2> SUFFICES ASSUME ServiceInv, [SystemNext]_systemVars PROVE Next \/ UNCHANGED vars
    OBVIOUS
  <2>t. Rpc!TypeOK
    BY DEF ServiceInv
  <2>1. ASSUME NEW r \in Load, Passed(r) PROVE Next
    <3>1. PICK e \in Rpc!Reply : KitSends(r, Wire(r, e))
      BY <2>1 DEF Passed
    <3>2. KitReplies(r) /\ r \in Request
      BY <3>1, WireType DEF KitReplies, Load
    <3> QED BY <3>2 DEF Next
  <2>2. CASE LibraryStep
    BY <2>2 DEF LibraryStep, Next
  <2>3. ASSUME NEW r \in Request, OtherReplies(r) PROVE Next
    BY <2>3 DEF OtherReplies, Next
  <2>4. ASSUME NEW r \in Load,
               \/ \E m \in Message : TakeRequest(r, m)
               \/ EndsSilently(r) \/ GiveToService(r) \/ ServiceReturns(r)
        PROVE  UNCHANGED vars
    BY <2>4 DEF TakeRequest, EndsSilently, GiveToService, ServiceReturns
  <2>5. ASSUME NEW r \in Load, ReplyRefusal(r) PROVE Next
    BY <2>t, <2>1, <2>5, RefusalPasses
  <2>6. ASSUME NEW r \in Load, NEW d \in RespData, ReplyOfService(r, d) PROVE Next
    BY <2>t, <2>1, <2>6, AnswerPasses
  <2>7. ASSUME NEW r \in Load, NEW code \in {Rpc!CODE_DEVICE_NOT_SUPPORT, Rpc!CODE_INTERNAL_ERROR},
               ReplyException(r, code)
        PROVE  Next
    BY <2>t, <2>1, <2>7, ExceptionPasses
  <2>8. CASE UNCHANGED systemVars
    BY <2>8 DEF systemVars
  <2> QED BY <2>2, <2>3, <2>4, <2>5, <2>6, <2>7, <2>8 DEF SystemNext
<1> QED
  BY <1>1, <1>2, ServiceInvariant, PTL DEF SystemSpec, Spec

(* What ties the two halves of load r together once a handler has it.      *)
LinkInv(r) ==
  pc[r] # "new" =>
    /\ conn[r] \in {"sent", "disconnected"}
    /\ pc[r] # "refused" /\ Sendable(r, msg[r])
    /\ Len(replies[r]) = Len(sent[r])
    /\ \A i \in DOMAIN sent[r] : replies[r][i] = Wire(r, sent[r][i])

Linked == \A r \in Load : LinkInv(r)

(* The library leaves answers alone, and a request that was sent is so.    *)
LEMMA LibraryKeeps ==
  ASSUME TypeOK, StagesOK, LibraryNext, NEW q \in Request
  PROVE  /\ replies'[q] = replies[q]
         /\ conn[q] \in {"sent", "disconnected"} => conn'[q] \in {"sent", "disconnected"}
<1> USE DEF callVars, connVars
<1> DEFINE Kept == /\ replies'[q] = replies[q]
                   /\ conn[q] \in {"sent", "disconnected"} => conn'[q] \in {"sent", "disconnected"}
<1>t. conn \in [Request -> ConnStage]
  BY DEF TypeOK
<1>q. conn[q] \in {"sent", "disconnected"} => call[q] # "running"
  BY DEF StagesOK, ProgressOK, BeforeConnect
<1>1. ASSUME NEW r \in Request,
             \/ ThrowParamError(r) \/ CheckParamAndLoad(r) \/ LoadAd(r) \/ GetAdRequestBody(r)
             \/ ReadConfig(r) \/ ReturnWithoutCallback(r) \/ Complete(r)
      PROVE  Kept
  BY <1>1 DEF ThrowParamError, CheckParamAndLoad, LoadAd, GetAdRequestBody, ReadConfig,
              ReturnWithoutCallback, Complete
<1>2. ASSUME NEW r \in Request, Connect(r) \/ ConnectRefused(r) PROVE Kept
  <2>1. /\ call[r] = "running" /\ UNCHANGED replies
        /\ \E s : conn' = [conn EXCEPT ![r] = s]
    BY <1>2 DEF Connect, ConnectRefused
  <2> QED BY <1>t, <1>q, <2>1
<1>3. ASSUME NEW r \in Request,
             OnAbilityConnectDone(r) \/ ConnectDoneFails(r) \/ OnAbilityDisconnectDone(r)
      PROVE  Kept
  BY <1>3, <1>t DEF OnAbilityConnectDone, ConnectDoneFails, OnAbilityDisconnectDone
<1>4. ASSUME NEW m \in inbox, OnRemoteRequest(m) PROVE Kept
  BY <1>4 DEF OnRemoteRequest
<1>5. ASSUME NEW w \in posted, UvQueueWork(w) PROVE Kept
  BY <1>5 DEF UvQueueWork
<1>6. Kept
  <2> HIDE DEF Kept
  <2> QED BY <1>1, <1>2, <1>3, <1>4, <1>5 DEF LibraryNext, Execute
<1> QED
  BY <1>6

(* A step that sends nothing for load q.                                   *)
LEMMA QuietLinked ==
  ASSUME NEW q \in Load, LinkInv(q), UNCHANGED <<msg[q], sent[q], replies[q]>>,
         conn[q] \in {"sent", "disconnected"} => conn'[q] \in {"sent", "disconnected"},
         pc'[q] = pc[q] \/ (pc[q] # "new" /\ pc'[q] # "refused")
  PROVE  LinkInv(q)'
BY DEF LinkInv, Wire, Readable, Sendable

(* A step that does.                                                       *)
LEMMA PassedLinked ==
  ASSUME TypeOK, Rpc!TypeOK, Linked, NEW r \in Load, Passed(r), UNCHANGED msg,
         pc[r] # "new", pc'[r] # "refused", \A q \in Load \ {r} : pc'[q] = pc[q]
  PROVE  Linked'
<1>1. PICK e \in Rpc!Reply :
        /\ sent' = [sent EXCEPT ![r] = Append(sent[r], e)]
        /\ KitSends(r, Wire(r, e))
  BY DEF Passed
<1>2. /\ replies' = [replies EXCEPT ![r] = Append(replies[r], Wire(r, e))]
      /\ UNCHANGED conn
  BY <1>1 DEF KitSends, connVars
<1>3. /\ r \in Request /\ replies[r] \in Seq(Reply) /\ sent[r] \in Seq(Rpc!Reply)
      /\ replies \in [Request -> Seq(Reply)] /\ sent \in [Load -> Seq(Rpc!Reply)]
  BY DEF Load, TypeOK, Rpc!TypeOK
<1>4. Wire(r, e) \in Reply
  BY WireType
<1>5. /\ replies'[r] = Append(replies[r], Wire(r, e)) /\ sent'[r] = Append(sent[r], e)
      /\ \A q \in Load \ {r} : replies'[q] = replies[q] /\ sent'[q] = sent[q]
  BY <1>1, <1>2, <1>3 DEF Load
<1>6. ASSUME NEW q \in Load \ {r} PROVE LinkInv(q)'
  BY <1>2, <1>5, QuietLinked DEF Linked
<1>7. LinkInv(r)'
  <2>1. /\ conn[r] \in {"sent", "disconnected"} /\ Sendable(r, msg[r])
        /\ Len(replies[r]) = Len(sent[r])
        /\ \A i \in DOMAIN sent[r] : replies[r][i] = Wire(r, sent[r][i])
    BY DEF Linked, LinkInv
  <2>2. /\ Len(sent[r]) \in Nat
        /\ DOMAIN sent[r] = 1 .. Len(sent[r]) /\ DOMAIN sent'[r] = 1 .. Len(sent[r]) + 1
        /\ Len(sent'[r]) = Len(sent[r]) + 1
        /\ sent'[r][Len(sent[r]) + 1] = e
        /\ \A i \in 1 .. Len(sent[r]) : sent'[r][i] = sent[r][i]
    BY <1>3, <1>5
  <2>3. PICK w \in Reply : w = Wire(r, e)
    BY <1>4
  <2>4. /\ Len(replies'[r]) = Len(replies[r]) + 1
        /\ replies'[r][Len(replies[r]) + 1] = w
        /\ \A i \in 1 .. Len(replies[r]) : replies'[r][i] = replies[r][i]
    BY <1>3, <1>5, <2>3
  <2>5. ASSUME NEW i \in DOMAIN sent'[r] PROVE replies'[r][i] = Wire(r, sent'[r][i])
    <3>1. CASE i \in 1 .. Len(sent[r])
      BY <2>1, <2>2, <2>4, <3>1
    <3>2. CASE i = Len(sent[r]) + 1
      BY <2>1, <2>2, <2>3, <2>4, <3>2
    <3> QED BY <2>2, <3>1, <3>2
  <2>6. \A s : Wire(r, s)' = Wire(r, s)
    BY DEF Wire, Readable
  <2>7. Sendable(r, msg[r])'
    BY <2>1 DEF Sendable
  <2>8. Len(replies'[r]) = Len(sent'[r])
    BY <2>1, <2>2, <2>4
  <2> QED BY <1>2, <2>1, <2>5, <2>6, <2>7, <2>8 DEF LinkInv, Wire, Readable
<1> QED
  BY <1>6, <1>7 DEF Linked

LEMMA LinkedStep == BaseInv /\ ServiceInv /\ Linked /\ [SystemNext]_systemVars => Linked'
<1> SUFFICES ASSUME BaseInv, ServiceInv, Linked, [SystemNext]_systemVars PROVE Linked'
  OBVIOUS
<1>t. /\ TypeOK /\ StagesOK /\ Rpc!TypeOK
      /\ pc \in [Load -> Rpc!Pc] /\ msg \in [Load -> Message \cup {None}]
      /\ replies \in [Request -> Seq(Reply)]
  BY DEF BaseInv, ServiceInv, TypeOK, Rpc!TypeOK
<1>l. ASSUME NEW q \in Load PROVE q \in Request /\ IsLoad(q) /\ LinkInv(q)
  BY DEF Load, Linked
<1>i. ASSUME NEW q \in Load
      PROVE  /\ pc[q] \in {"new", "awaiting"} => handed[q] = None /\ sent[q] = <<>>
             /\ handed[q] # None => pc[q] # "refused"
  BY <1>l DEF ServiceInv, RpcP!RpcInv, RpcP!StageInv, LinkInv
<1>g. ASSUME NEW q \in Load, NEW p \in Rpc!Pc, Rpc!Goto(q, p)
      PROVE  pc'[q] = p /\ \A o \in Load \ {q} : pc'[o] = pc[o]
  BY <1>t, <1>g DEF Rpc!Goto
<1>q. ASSUME \A q \in Load :
               /\ UNCHANGED <<msg[q], sent[q], replies[q], conn[q]>>
               /\ pc'[q] = pc[q] \/ (pc[q] # "new" /\ pc'[q] # "refused")
      PROVE  Linked'
  BY <1>l, <1>q, QuietLinked DEF Linked
<1>1. CASE LibraryStep
  <2>1. UNCHANGED <<msg, sent, pc>>
    BY <1>1 DEF LibraryStep, serviceVars
  <2>2. ASSUME NEW q \in Load
        PROVE  /\ replies'[q] = replies[q]
               /\ conn[q] \in {"sent", "disconnected"} => conn'[q] \in {"sent", "disconnected"}
    BY <1>1, <1>t, <1>l, LibraryKeeps DEF LibraryStep
  <2> QED BY <1>l, <2>1, <2>2, QuietLinked DEF Linked
<1>2. ASSUME NEW r \in Request, OtherReplies(r) PROVE Linked'
  <2>1. UNCHANGED <<msg, sent, pc, conn>>
    BY <1>2 DEF OtherReplies, KitReplies, KitSends, serviceVars, connVars
  <2>2. PICK reply \in Reply : replies' = [replies EXCEPT ![r] = Append(@, reply)]
    BY <1>2 DEF OtherReplies, KitReplies, KitSends
  <2>3. ASSUME NEW q \in Load PROVE LinkInv(q)'
    <3>1. CASE q = r
      BY <1>2, <1>l, <2>1, <3>1 DEF OtherReplies, LinkInv
    <3>2. CASE q # r
      BY <1>t, <1>l, <2>1, <2>2, <3>2, QuietLinked
    <3> QED BY <3>1, <3>2
  <2> QED BY <2>3 DEF Linked
<1>3. ASSUME NEW r \in Load, NEW m \in Message, TakeRequest(r, m) PROVE Linked'
  <2>1. /\ conn[r] \in {"sent", "disconnected"} /\ replies[r] = <<>> /\ Sendable(r, m)
        /\ UNCHANGED <<conn, replies, sent>>
    BY <1>3 DEF TakeRequest, Rpc!Receive, vars, connVars
  <2>2. pc[r] = "new" /\ msg' = [msg EXCEPT ![r] = m] /\ Rpc!Goto(r, "awaiting")
    BY <1>3 DEF TakeRequest, Rpc!Receive
  <2>3. pc'[r] = "awaiting" /\ \A q \in Load \ {r} : pc'[q] = pc[q]
    BY <1>g, <2>2 DEF Rpc!Pc
  <2>4. sent[r] = <<>>
    BY <1>i, <2>2
  <2>5. LinkInv(r)'
    <3>1. msg'[r] = m
      BY <1>t, <2>2
    <3>2. Sendable(r, msg[r])'
      BY <2>1, <3>1 DEF Sendable
    <3>3. DOMAIN sent'[r] = {} /\ Len(replies'[r]) = Len(sent'[r])
      BY <2>1, <2>4
    <3> QED BY <2>1, <2>3, <3>2, <3>3 DEF LinkInv
  <2>6. ASSUME NEW q \in Load \ {r} PROVE LinkInv(q)'
    BY <1>t, <1>l, <2>1, <2>2, <2>3, QuietLinked
  <2> QED BY <2>5, <2>6 DEF Linked
<1>4. ASSUME NEW r \in Load, EndsSilently(r) \/ GiveToService(r) \/ ServiceReturns(r) PROVE Linked'
  <2>1. UNCHANGED <<msg, sent, replies, conn>>
    BY <1>4 DEF EndsSilently, GiveToService, ServiceReturns, Rpc!NameFails, Rpc!ValidateThrows,
                Rpc!Hand, Rpc!Return, Rpc!Resumes, Rpc!OuterCatch, vars, connVars
  <2>2. pc[r] # "new" /\ \E p \in {"rejected", "serving", "handled"} : Rpc!Goto(r, p)
    BY <1>4 DEF EndsSilently, GiveToService, ServiceReturns, Rpc!NameFails, Rpc!ValidateThrows,
                Rpc!Hand, Rpc!Return, Rpc!Resumes, Rpc!OuterCatch
  <2>3. pc'[r] # "refused" /\ \A q \in Load \ {r} : pc'[q] = pc[q]
    BY <1>g, <2>2 DEF Rpc!Pc
  <2> QED BY <1>q, <2>1, <2>2, <2>3
<1>5. ASSUME NEW r \in Load, ReplyRefusal(r) PROVE Linked'
  <2>1. UNCHANGED msg /\ pc[r] = "awaiting" /\ Rpc!Goto(r, "handled")
    BY <1>5 DEF ReplyRefusal, Rpc!Refuse, Rpc!Resumes
  <2>2. pc'[r] = "handled" /\ \A q \in Load \ {r} : pc'[q] = pc[q]
    BY <1>g, <2>1 DEF Rpc!Pc
  <2> QED BY <1>t, <1>5, <2>1, <2>2, RefusalPasses, PassedLinked
<1>6. ASSUME NEW r \in Load, NEW d \in RespData, ReplyOfService(r, d) PROVE Linked'
  <2>1. UNCHANGED <<msg, pc>> /\ handed[r] # None
    BY <1>6 DEF ReplyOfService, Rpc!Respond
  <2>2. pc[r] # "new" /\ pc[r] # "refused"
    BY <1>i, <2>1
  <2> QED BY <1>t, <1>6, <2>1, <2>2, AnswerPasses, PassedLinked
<1>7. ASSUME NEW r \in Load, NEW code \in {Rpc!CODE_DEVICE_NOT_SUPPORT, Rpc!CODE_INTERNAL_ERROR},
             ReplyException(r, code)
      PROVE  Linked'
  <2>1. UNCHANGED msg /\ pc[r] = "serving" /\ Rpc!Goto(r, "thrown")
    BY <1>7 DEF ReplyException, Rpc!ServiceThrows
  <2>2. pc'[r] = "thrown" /\ \A q \in Load \ {r} : pc'[q] = pc[q]
    BY <1>g, <2>1 DEF Rpc!Pc
  <2> QED BY <1>t, <1>7, <2>1, <2>2, ExceptionPasses, PassedLinked
<1>8. CASE UNCHANGED systemVars
  BY <1>q, <1>8 DEF systemVars, serviceVars, vars, connVars
<1> QED
  BY <1>1, <1>2, <1>3, <1>4, <1>5, <1>6, <1>7, <1>8 DEF SystemNext

(* A load its handler has was sent as the library builds it, so its token  *)
(* is right, and the library has been sent what the handler replied, in    *)
(* its order and nothing else, as much of it as the stubs read.            *)
THEOREM LinkedCorrect == SystemSpec => []Linked
<1>1. SystemInit => Linked
  BY DEF SystemInit, Rpc!Init, Linked, LinkInv
<1>2. SystemSpec => []BaseInv
  BY SystemIsPipeline, BaseInvariant
<1>3. BaseInv /\ ServiceInv /\ Linked /\ [SystemNext]_systemVars => Linked'
  BY LinkedStep
<1> QED
  BY <1>1, <1>2, <1>3, ServiceInvariant, PTL DEF SystemSpec

-----------------------------------------------------------------------------

(* What the library is told of a served load stands for what happened.     *)
LEMMA CauseOfReply ==
  ASSUME ServiceInv, Linked, TypeOK, NEW r \in Load, pc[r] # "new", NEW i \in DOMAIN replies[r]
  PROVE  /\ i \in DOMAIN sent[r]
         /\ replies[r][i] = Wire(r, sent[r][i])
         /\ replies[r][i].code = sent[r][i].code
         /\ RpcP!ReplyCause(r, sent[r][i])
<1>1. replies[r] \in Seq(Reply) /\ sent[r] \in Seq(Rpc!Reply)
  BY DEF TypeOK, ServiceInv, Rpc!TypeOK, Load
<1>2. DOMAIN replies[r] = 1 .. Len(replies[r]) /\ DOMAIN sent[r] = 1 .. Len(sent[r])
  BY <1>1
<1>3. i \in DOMAIN sent[r] /\ replies[r][i] = Wire(r, sent[r][i])
  BY <1>2 DEF Linked, LinkInv
<1> QED
  BY <1>3 DEF ServiceInv, RpcP!RepliesHaveCause, Wire

LEMMA SameValid == \A m : Rpc!Valid(m) <=> RpcP!Valid(m)
BY DEF Rpc!Valid, RpcP!Valid, Rpc!HasIds, RpcP!HasIds, Rpc!Fits, RpcP!Fits,
         Rpc!IsValidAdSize, RpcP!IsValidAdSize, Rpc!IsValidAdType,
         RpcP!IsValidAdType, Rpc!Undefined, RpcP!Undefined

LEMMA SameAds == \A d : Rpc!HasAds(d) <=> RpcP!HasAds(d)
BY DEF Rpc!HasAds, RpcP!HasAds

LEMMA ToldHasServiceCause ==
  ASSUME ServiceInv, Linked, TypeOK, NEW r \in Load, pc[r] # "new", NEW event,
         LoadVerdictHasCause(r, event)
  PROVE  ServiceCause(r, event)
<1> USE DEF LOAD_AD_SUCCESS, AD_LOAD_PARAMS_ERROR, DEVICE_NOT_SUPPORT_ERROR, AD_LOAD_FAIL,
            Rpc!CODE_SUCCESS, RpcP!CODE_SUCCESS, RpcP!CODE_INVALID_PARAMETERS,
            RpcP!CODE_DEVICE_NOT_SUPPORT, RpcP!CODE_INTERNAL_ERROR, RpcP!CODE_LOAD_ADS_FAILURE
<1>c. conn[r] # "refused"
  BY DEF Linked, LinkInv
<1>1. ASSUME NEW i \in DOMAIN replies[r], replies[r][i].code = 200
      PROVE  \E c \in DOMAIN calls[r] : Rpc!HasAds(calls[r][c])
  <2>1. sent[r][i].code = 200 /\ RpcP!ReplyCause(r, sent[r][i])
    BY <1>1, CauseOfReply
  <2>2. \E c \in DOMAIN calls[r] : RpcP!HasAds(calls[r][c])
    BY <2>1 DEF RpcP!ReplyCause
  <2> QED BY <2>2, SameAds
<1>2. ASSUME event = Success,
             NEW i \in DOMAIN replies[r], replies[r][i] = [code |-> LOAD_AD_SUCCESS, payload |-> "valid"]
      PROVE  ServiceCause(r, event)
  <2>1. /\ i \in DOMAIN sent[r] /\ replies[r][i] = Wire(r, sent[r][i])
        /\ replies[r][i].code = 200 /\ sent[r][i].code = 200
    BY <1>2, CauseOfReply
  <2>2. Wire(r, sent[r][i]).payload = "valid"
    BY <1>2, <2>1
  <2>3. Readable(r, sent[r][i].ads)
    BY <2>1, <2>2 DEF Wire
  <2> QED BY <1>1, <1>2, <2>1, <2>3 DEF ServiceCause
<1>3. ASSUME event = Failure(Undefined), Answered(r, LOAD_AD_SUCCESS) PROVE ServiceCause(r, event)
  BY <1>1, <1>3 DEF Answered, ServiceCause
<1>4. ASSUME event = Failure(PARAM_ERR), Answered(r, AD_LOAD_PARAMS_ERROR)
      PROVE  ServiceCause(r, event)
  <2>1. PICK i \in DOMAIN replies[r] : replies[r][i].code = 401
    BY <1>4 DEF Answered
  <2>2. pc[r] = "handled" /\ handed[r] = None /\ ~RpcP!Valid(msg[r])
    <3>1. sent[r][i].code = replies[r][i].code /\ RpcP!ReplyCause(r, sent[r][i])
      BY CauseOfReply
    <3> QED BY <2>1, <3>1 DEF RpcP!ReplyCause
  <2> QED BY <1>4, <2>2, SameValid DEF ServiceCause
<1>5. ASSUME event = Failure(DEVICE_ERR), Answered(r, DEVICE_NOT_SUPPORT_ERROR)
      PROVE  ServiceCause(r, event)
  <2>1. PICK i \in DOMAIN replies[r] : replies[r][i].code = 801
    BY <1>5 DEF Answered
  <2>2. pc[r] = "thrown"
    <3>1. sent[r][i].code = replies[r][i].code /\ RpcP!ReplyCause(r, sent[r][i])
      BY CauseOfReply
    <3> QED BY <2>1, <3>1 DEF RpcP!ReplyCause
  <2> QED BY <1>5, <2>2 DEF ServiceCause
<1>6. ASSUME event = Failure(REQUEST_FAIL), Answered(r, AD_LOAD_FAIL) PROVE ServiceCause(r, event)
  <2>1. PICK i \in DOMAIN replies[r] : replies[r][i].code = 100003
    BY <1>6 DEF Answered
  <2>2. sent[r][i].code = 100003 /\ RpcP!ReplyCause(r, sent[r][i])
    BY <2>1, CauseOfReply
  <2>3. \E c \in DOMAIN calls[r] : ~RpcP!HasAds(calls[r][c])
    BY <2>2 DEF RpcP!ReplyCause
  <2>4. \E c \in DOMAIN calls[r] : ~Rpc!HasAds(calls[r][c])
    BY <2>3, SameAds
  <2> QED BY <1>6, <2>4 DEF ServiceCause
<1>7. ASSUME event = Failure(INNER_ERR),
             \E i \in DOMAIN replies[r] :
               replies[r][i].code \notin {LOAD_AD_SUCCESS, AD_LOAD_PARAMS_ERROR,
                                          DEVICE_NOT_SUPPORT_ERROR, AD_LOAD_FAIL}
      PROVE  ServiceCause(r, event)
  <2>1. PICK i \in DOMAIN replies[r] : replies[r][i].code \notin {200, 401, 801, 100003}
    BY <1>7
  <2>2. pc[r] = "thrown"
    <3>1. sent[r][i].code = replies[r][i].code /\ RpcP!ReplyCause(r, sent[r][i])
      BY CauseOfReply
    <3> QED BY <2>1, <3>1 DEF RpcP!ReplyCause
  <2> QED BY <1>7, <2>2 DEF ServiceCause
<1> QED
  BY <1>c, <1>2, <1>3, <1>4, <1>5, <1>6, <1>7 DEF LoadVerdictHasCause

(* Through both processes and four tables of codes, an application hears   *)
(* of a load what the provider's service did with it, and of a load that   *)
(* stays silent the service was not reached or did not call back.          *)
THEOREM ToldWhatServiceDidCorrect == SystemSpec => []ToldWhatServiceDid
<1>1. BaseInv /\ ServiceInv /\ Linked /\ VerdictHasCause /\ SilenceIsExplained
        => ToldWhatServiceDid
  <2> SUFFICES ASSUME BaseInv, ServiceInv, Linked, VerdictHasCause, SilenceIsExplained,
                      NEW r \in Request, Served(r)
               PROVE  /\ \A i \in DOMAIN heard[r] : ServiceCause(r, heard[r][i])
                      /\ AtRest(r) /\ listener[r] = "bound" /\ heard[r] = <<>> => Unanswered(r)
    BY DEF ToldWhatServiceDid
  <2>1. TypeOK /\ r \in Load /\ pc[r] # "new" /\ IsLoad(r)
    BY DEF BaseInv, Served, Load
  <2>2. ASSUME NEW i \in DOMAIN heard[r] PROVE ServiceCause(r, heard[r][i])
    <3>1. LoadVerdictHasCause(r, heard[r][i])
      BY <2>1 DEF VerdictHasCause, HasCause
    <3> QED BY <2>1, <3>1, ToldHasServiceCause
  <2>3. ASSUME AtRest(r), listener[r] = "bound", heard[r] = <<>> PROVE Unanswered(r)
    <3>1. replies[r] = <<>>
      BY <2>3 DEF SilenceIsExplained
    <3>2. /\ pc[r] # "refused" /\ Len(sent[r]) = 0
          /\ sent[r] \in Seq(Rpc!Reply) /\ calls[r] \in Seq(RespData) /\ pc[r] \in Rpc!Pc
      BY <2>1, <3>1 DEF Linked, LinkInv, ServiceInv, Rpc!TypeOK
    <3>3. sent[r] = <<>>
      BY <3>2
    <3>4. RpcP!StageInv(r)
      BY <2>1 DEF ServiceInv, RpcP!RpcInv
    <3>5. pc[r] # "thrown" /\ (pc[r] \in {"serving", "handled"} => handed[r] # None)
      BY <3>3, <3>4 DEF RpcP!StageInv
    <3>6. pc[r] \in {"serving", "handled"} => handed[r] = UidOf[r] /\ calls[r] = <<>>
      <4> SUFFICES ASSUME pc[r] \in {"serving", "handled"}
                   PROVE  handed[r] = UidOf[r] /\ calls[r] = <<>>
        OBVIOUS
      <4>1. handed[r] = UidOf[r] /\ RpcP!OwnReplies(r) = 0
        BY <3>4, <3>5 DEF RpcP!StageInv, RpcP!OwnReplies
      <4>2. Len(sent[r]) = Len(calls[r]) + RpcP!OwnReplies(r)
        BY <3>4 DEF RpcP!StageInv
      <4>3. Len(calls[r]) \in Nat
        BY <3>2
      <4>4. Len(calls[r]) = 0
        BY <3>2, <4>1, <4>2, <4>3
      <4> QED BY <3>2, <4>1, <4>4
    <3> QED BY <2>1, <3>2, <3>5, <3>6 DEF Unanswered, Rpc!Pc
  <2> QED BY <2>2, <2>3
<1>2. SystemSpec => [](BaseInv /\ VerdictHasCause /\ SilenceIsExplained)
  BY SystemIsPipeline, BaseInvariant, VerdictCorrect, SilenceCorrect, PTL
<1> QED
  BY <1>1, <1>2, ServiceInvariant, LinkedCorrect, PTL
=============================================================================
