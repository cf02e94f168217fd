--------------------------- MODULE AdLoadPipeline ---------------------------
(***************************************************************************)
(* An ad request of the JavaScript API, from the application's call to the *)
(* handler or promise that reports its outcome.                            *)
(*                                                                         *)
(*   application's event loop   AdLoader (advertising.js), the N-API calls *)
(*                              of advertising.cpp, completion of the      *)
(*                              asynchronous work, uv callbacks            *)
(*   worker threads             AdLoadService::LoadAd / RequestAdBody      *)
(*   binder threads             AdRequestConnection's callbacks and the    *)
(*                              stubs that receive the provider's answer   *)
(*   the ability manager and the provider ("kit") are external             *)
(*                                                                         *)
(* Each step below is what one of these threads does between two points at *)
(* which another may run.  Allocation failures of the C++ runtime are left *)
(* out.                                                                    *)
(***************************************************************************)
EXTENDS AdErrorCodes, AdServiceElement, Sequences, FiniteSets

CONSTANTS
  Request,     \* requests the application makes
  Kind,        \* [Request -> {"single", "multi", "body"}], the API each one uses
  KitCode,     \* result codes the provider may answer with
  MaxReplies,  \* answers the provider may send to one request
  ConfigFile   \* contents the configuration file may have

(* The provider answers with a code of its own protocol, none of which is  *)
(* zero: ERR_SEND_OK is the library's private marker of a resolved body.   *)
ASSUME PipelineAssumption ==
  /\ Kind \in [Request -> {"single", "multi", "body"}]
  /\ KitCode \subseteq Int \ {ERR_SEND_OK}
  /\ MaxReplies \in Nat
  /\ ConfigFile \subseteq File

IsLoad(r) == Kind[r] \in {"single", "multi"}

VARIABLES
  file,      \* contents of the configuration file
  element,   \* AdLoadService::adServiceElementName_
  call,      \* [Request -> CallStage]: the application's call and its async work
  listener,  \* [Request -> Listener]: the native callback object made for it
  err,       \* [Request -> Int]: errCode in the work's context
  target,    \* [Request -> Element]: the connection's currAdServiceElementName_
  conn,      \* [Request -> ConnStage]
  replies,   \* [Request -> Seq(Reply)]: what the provider has answered
  inbox,     \* answers on their way to the client process
  posted,    \* work posted to the application's event loop
  heard      \* [Request -> Seq(Event)]: what the application has been told

callVars == <<call, listener, err>>
connVars == <<target, conn>>
vars == <<file, element, call, listener, err, target, conn, replies, inbox,
          posted, heard>>

CallStage == {"idle", "thrown", "asking", "queued", "running", "executed",
              "completed"}

(* "null": no callback object could be made; "unbound": it was made without *)
(* references to the application's handlers, or belongs to a promise the    *)
(* application never saw; "bound": it reaches the application.              *)
Listener == {"null", "unbound", "bound"}

ConnStage == {"none", "refused", "connecting", "sent", "failed", "disconnected"}

Payload == {"valid", "malformed", "empty"}

(* The payload of a failure is a message nobody looks into.                *)
Reply ==
  {reply \in [code : KitCode, payload : Payload] :
     reply.code # LOAD_AD_SUCCESS => reply.payload = "valid"}

Event == [what : {"success", "failure"}, code : Int]
Success == [what |-> "success", code |-> ERR_SEND_OK]
Failure(code) == [what |-> "failure", code |-> code]

Work == [req : Request, seq : Nat, what : {"success", "failure"}, code : Int,
         payload : Payload]

-----------------------------------------------------------------------------
(* The application's event loop: making the call.                          *)

(* processParamsNull, or the checks of getAdRequestBody, find a parameter  *)
(* missing.  getAdRequestBody is an async function: its caller sees a      *)
(* rejected promise; the others throw.                                     *)
ThrowParamError(r) ==
  /\ call[r] = "idle"
  /\ call' = [call EXCEPT ![r] = "thrown"]
  /\ heard' = IF IsLoad(r) THEN heard
              ELSE [heard EXCEPT ![r] = <<Failure(PARAM_ERR)>>]
  /\ UNCHANGED <<file, element, listener, err, connVars, replies, inbox, posted>>

(* checkParamAndLoad, up to the permission dialog.                         *)
CheckParamAndLoad(r) ==
  /\ IsLoad(r)
  /\ call[r] = "idle"
  /\ call' = [call EXCEPT ![r] = "asking"]
  /\ UNCHANGED <<file, element, listener, err, connVars, replies, inbox, posted,
                 heard>>

(* The permission dialog is answered, either way: loaderLoad calls the     *)
(* native LoadAd or LoadAdWithMultiSlots.  A request or options that do not *)
(* parse leave the callback null, a listener without onAdLoadFailure       *)
(* leaves it without references; the work is queued whatever happened.     *)
LoadAd(r) ==
  /\ call[r] = "asking"
  /\ call' = [call EXCEPT ![r] = "queued"]
  /\ \E made \in Listener : listener' = [listener EXCEPT ![r] = made]
  /\ UNCHANGED <<file, element, err, connVars, replies, inbox, posted, heard>>

(* The native GetAdRequestBody.  When its parameters do not parse it throws *)
(* an error that rejects the application's promise, and still queues the    *)
(* work: the deferred it settles later belongs to a promise nobody holds.   *)
GetAdRequestBody(r) ==
  /\ ~IsLoad(r)
  /\ call[r] = "idle"
  /\ call' = [call EXCEPT ![r] = "queued"]
  /\ \/ /\ listener' = [listener EXCEPT ![r] = "bound"]
        /\ UNCHANGED heard
     \/ /\ listener' = [listener EXCEPT ![r] = "unbound"]
        /\ heard' = [heard EXCEPT ![r] = <<Failure(PARAM_ERROR_TEXT)>>]
  /\ UNCHANGED <<file, element, err, connVars, replies, inbox, posted>>

-----------------------------------------------------------------------------
(* Worker threads.                                                         *)

(* Every request starts by reading the configuration if no usable element  *)
(* has been read yet.  AdServiceConfig has the locking.                    *)
ReadConfig(r) ==
  /\ call[r] = "queued"
  /\ call' = [call EXCEPT ![r] = "running"]
  /\ element' = IF IsConfigEmpty(element) THEN Parsed(file, element) ELSE element
  /\ UNCHANGED <<file, listener, err, connVars, replies, inbox, posted, heard>>

(* The ability a request connects to.                                      *)
AbilityOf(r, e) == IF IsLoad(r) THEN e["ext"] ELSE e["api"]

Executed(r, code) ==
  /\ call' = [call EXCEPT ![r] = "executed"]
  /\ err'  = [err EXCEPT ![r] = code]

(* LoadAd returns before it connects when there is no callback object.     *)
ReturnWithoutCallback(r) ==
  /\ call[r] = "running"
  /\ listener[r] = "null"
  /\ Executed(r, ERR_AD_COMMON_AD_SA_REMOTE_OBJECT_ERROR)
  /\ UNCHANGED <<file, element, listener, connVars, replies, inbox, posted, heard>>

(* The ability manager accepts the connection; the connection object keeps *)
(* the snapshot of the element it was made with.                           *)
Connect(r) ==
  /\ call[r] = "running"
  /\ listener[r] # "null"
  /\ element["bundle"] # NoName /\ AbilityOf(r, element) # NoName
  /\ target' = [target EXCEPT ![r] = element]
  /\ conn'   = [conn EXCEPT ![r] = "connecting"]
  /\ Executed(r, ERR_SEND_OK)
  /\ UNCHANGED <<file, element, listener, replies, inbox, posted, heard>>

(* Fault: LoadAd returns the error of a refused connection without calling *)
(* the callback.                                                           *)
ConnectRefused_Silent(r) ==
  /\ call[r] = "running"
  /\ listener[r] # "null"
  /\ conn' = [conn EXCEPT ![r] = "refused"]
  /\ Executed(r, IF IsLoad(r) THEN ERR_AD_COMMON_AD_CONNECT_KIT_ERROR ELSE INNER_ERR)
  /\ UNCHANGED <<file, element, listener, target, replies, inbox, posted, heard>>

(* The ability manager refuses.  LoadAd reports it through the callback    *)
(* itself; RequestAdBody leaves it to CompleteCBWithPromise.               *)
ConnectRefused(r) ==
  /\ call[r] = "running"
  /\ listener[r] # "null"
  /\ conn' = [conn EXCEPT ![r] = "refused"]
  /\ IF IsLoad(r)
     THEN /\ Executed(r, ERR_AD_COMMON_AD_CONNECT_KIT_ERROR)
          /\ posted' = posted \cup
               {[req |-> r, seq |-> 0, what |-> "failure",
                 code |-> ErrCodeConvert(ERR_AD_COMMON_AD_CONNECT_KIT_ERROR),
                 payload |-> "valid"]}
     ELSE /\ Executed(r, INNER_ERR)
          /\ UNCHANGED posted
  /\ UNCHANGED <<file, element, listener, target, replies, inbox, heard>>

(* Faults: the promise is rejected whatever the worker returned; a load    *)
(* whose worker failed is reported a second time.                          *)
Complete_AlwaysRejects(r) ==
  /\ call[r] = "executed"
  /\ call' = [call EXCEPT ![r] = "completed"]
  /\ heard' = IF ~IsLoad(r) /\ listener[r] = "bound"
              THEN [heard EXCEPT ![r] = Append(@, Failure(err[r]))]
              ELSE heard
  /\ UNCHANGED <<file, element, listener, err, connVars, replies, inbox, posted>>

Complete_ReportsLoads(r) ==
  /\ call[r] = "executed"
  /\ call' = [call EXCEPT ![r] = "completed"]
  /\ heard' = IF err[r] # ERR_SEND_OK /\ listener[r] = "bound"
              THEN [heard EXCEPT ![r] = Append(@, Failure(err[r]))]
              ELSE heard
  /\ UNCHANGED <<file, element, listener, err, connVars, replies, inbox, posted>>

(* The completion callback, on the event loop: frees the context.  For a   *)
(* body it also rejects the promise if the worker's step failed.           *)
Complete(r) ==
  /\ call[r] = "executed"
  /\ call' = [call EXCEPT ![r] = "completed"]
  /\ heard' = IF ~IsLoad(r) /\ err[r] # ERR_SEND_OK /\ listener[r] = "bound"
              THEN [heard EXCEPT ![r] = Append(@, Failure(err[r]))]
              ELSE heard
  /\ UNCHANGED <<file, element, listener, err, connVars, replies, inbox, posted>>

-----------------------------------------------------------------------------
(* Binder threads.                                                         *)

(* Which of the two proxies OnAbilityConnectDone makes, by the name of the *)
(* ability that was connected: the load service is compared first.         *)
ProxyFor(r) ==
  IF AbilityOf(r, target[r]) = target[r]["ext"] THEN "load" ELSE "body"

(* A connection made for a body has no load callback to send, and the      *)
(* other way round.                                                        *)
ProxyFits(r) == ProxyFor(r) = IF IsLoad(r) THEN "load" ELSE "body"

(* OnAbilityConnectDone with ERR_OK: the request is sent to the provider.  *)
OnAbilityConnectDone(r) ==
  /\ conn[r] = "connecting"
  /\ ProxyFits(r)
  /\ conn' = [conn EXCEPT ![r] = "sent"]
  /\ UNCHANGED <<file, element, callVars, target, replies, inbox, posted, heard>>

(* OnAbilityConnectDone with an error, with an ability that no proxy fits, *)
(* or whose SendRequest fails: in each case it returns and says nothing.   *)
ConnectDoneFails(r) ==
  /\ conn[r] = "connecting"
  /\ conn' = [conn EXCEPT ![r] = "failed"]
  /\ UNCHANGED <<file, element, callVars, target, replies, inbox, posted, heard>>

(* OnAbilityDisconnectDone: the provider's service has gone, only the      *)
(* proxy is dropped.                                                       *)
OnAbilityDisconnectDone(r) ==
  /\ conn[r] = "sent"
  /\ conn' = [conn EXCEPT ![r] = "disconnected"]
  /\ UNCHANGED <<file, element, callVars, target, replies, inbox, posted, heard>>

(* External: the provider answers, or answers again.  It holds the         *)
(* callback it was sent, and its process may outlive its service.          *)
KitSends(r, reply) ==
  /\ conn[r] \in {"sent", "disconnected"}
  /\ Len(replies[r]) < MaxReplies
  /\ replies' = [replies EXCEPT ![r] = Append(@, reply)]
  /\ inbox' = inbox \cup {[req |-> r, seq |-> Len(replies[r]) + 1]}
  /\ UNCHANGED <<file, element, callVars, connVars, posted, heard>>

KitReplies(r) == \E reply \in Reply : KitSends(r, reply)

(* Fault: a load's failure code reaches the application unconverted.       *)
StubResult_RawCode(r, reply) ==
  IF reply.code = LOAD_AD_SUCCESS /\ (IsLoad(r) \/ reply.payload # "empty")
  THEN Success ELSE Failure(reply.code)

(* The stubs.  A load answer is a success iff its code says so, and its    *)
(* failure codes are converted.  A body must also be non-empty, and its    *)
(* failures keep the provider's code.                                      *)
StubResult(r, reply) ==
  IF IsLoad(r)
  THEN IF reply.code = LOAD_AD_SUCCESS THEN Success
       ELSE Failure(ErrCodeConvert(reply.code))
  ELSE IF reply.code = LOAD_AD_SUCCESS /\ reply.payload # "empty" THEN Success
       ELSE Failure(reply.code)

(* A binder thread takes answer m from the provider and posts its result.  *)
OnRemoteRequest(m) ==
  LET reply  == replies[m.req][m.seq]
      result == StubResult(m.req, reply)
  IN /\ inbox' = inbox \ {m}
     /\ posted' = posted \cup
          {[req |-> m.req, seq |-> m.seq, what |-> result.what,
            code |-> result.code, payload |-> reply.payload]}
     /\ UNCHANGED <<file, element, callVars, connVars, replies, heard>>

-----------------------------------------------------------------------------
(* The application's event loop: reporting the outcome.                    *)

(* Fault: nothing catches an answer that does not parse.                   *)
TellLoad_NoCatch(w) ==
  IF w.what = "failure" THEN {<<Failure(w.code)>>}
  ELSE IF w.payload = "valid" THEN {<<Success>>} ELSE {<<>>}

(* What the application sees of posted work w.  The success proxies of     *)
(* advertising.js parse the ads and call the listener; whatever throws on  *)
(* the way, the listener's own handler included, ends in a call of         *)
(* onAdLoadFailure with the error's code.  A body is told by its code.     *)
TellLoad(w) ==
  IF w.what = "failure" THEN {<<Failure(w.code)>>}
  ELSE {<<Failure(Undefined)>>}
         \cup IF w.payload = "valid"
              THEN {<<Success>>, <<Success, Failure(Undefined)>>} ELSE {}

TellBody(w) ==
  IF w.code = ERR_SEND_OK THEN {<<Success>>} ELSE {<<Failure(w.code)>>}

UvQueueWork(w) ==
  /\ posted' = posted \ {w}
  /\ \E events \in IF IsLoad(w.req) THEN TellLoad(w) ELSE TellBody(w) :
       heard' = IF listener[w.req] = "bound"
                THEN [heard EXCEPT ![w.req] = @ \o events]
                ELSE heard
  /\ UNCHANGED <<file, element, callVars, connVars, replies, inbox>>

-----------------------------------------------------------------------------
Init ==
  /\ file \in ConfigFile
  /\ element  = NoElement
  /\ call     = [r \in Request |-> "idle"]
  /\ listener = [r \in Request |-> "null"]
  /\ err      = [r \in Request |-> ERR_SEND_OK]
  /\ target   = [r \in Request |-> NoElement]
  /\ conn     = [r \in Request |-> "none"]
  /\ replies  = [r \in Request |-> <<>>]
  /\ inbox    = {}
  /\ posted   = {}
  /\ heard    = [r \in Request |-> <<>>]

(* The steps of the thread that runs the work of request r.                *)
Execute(r) ==
  \/ ReturnWithoutCallback(r)
  \/ Connect(r)
  \/ ConnectRefused(r)

(* What the library and the ability manager do, and what the provider does. *)
LibraryNext ==
  \/ \E r \in Request :
       \/ ThrowParamError(r)
       \/ CheckParamAndLoad(r)
       \/ LoadAd(r)
       \/ GetAdRequestBody(r)
       \/ ReadConfig(r)
       \/ Execute(r)
       \/ Complete(r)
       \/ OnAbilityConnectDone(r)
       \/ ConnectDoneFails(r)
       \/ OnAbilityDisconnectDone(r)
  \/ \E m \in inbox : OnRemoteRequest(m)
  \/ \E w \in posted : UvQueueWork(w)

Next == LibraryNext \/ \E r \in Request : KitReplies(r)

Spec == Init /\ [][Next]_vars

(* Work that was queued runs, a worker's calls return, answers that reached *)
(* the process are taken by a binder thread, and the event loop gets round  *)
(* to what was posted.  Nothing is assumed of the user who answers the      *)
(* permission dialog, of the ability manager or of the provider.            *)
Fairness ==
  \A r \in Request :
    /\ WF_vars(ReadConfig(r))
    /\ WF_vars(Execute(r))
    /\ WF_vars(Complete(r))
    /\ WF_vars(\E m \in inbox : m.req = r /\ OnRemoteRequest(m))
    /\ WF_vars(\E w \in posted : w.req = r /\ UvQueueWork(w))

FairSpec == Spec /\ Fairness

-----------------------------------------------------------------------------
(* Every variable has the type its comment gives.                          *)
TypeOK ==
  /\ file \in ConfigFile
  /\ element  \in Element
  /\ call     \in [Request -> CallStage]
  /\ listener \in [Request -> Listener]
  /\ err      \in [Request -> Int]
  /\ target   \in [Request -> Element]
  /\ conn     \in [Request -> ConnStage]
  /\ replies  \in [Request -> Seq(Reply)]
  /\ inbox    \subseteq [req : Request, seq : Nat]
  /\ posted   \subseteq Work
  /\ heard    \in [Request -> Seq(Event)]

(* No request is reported twice (advertising.cpp rejects a promise in      *)
(* CompleteCBWithPromise, ad_load_napi_common.cpp settles it or calls the  *)
(* listener from uv work, advertising.js adds failures of its own).  The   *)
(* one exception: a listener whose success handler throws is told of a     *)
(* failure after the success.  It rests on the provider's answering once.  *)
OneVerdict ==
  \A r \in Request :
    \/ Len(heard[r]) <= 1
    \/ IsLoad(r) /\ heard[r] = <<Success, Failure(Undefined)>>

Answered(r, code) == \E i \in DOMAIN replies[r] : replies[r][i].code = code

(* What an application is told follows from what happened to that request: *)
(* a success from a usable answer with the success code, a failure code    *)
(* from the answer or the refusal it stands for.  It ties the end of the   *)
(* pipeline, across the three processes' conversions, to its beginning.    *)
LoadVerdictHasCause(r, event) ==
  \/ /\ event = Success
     /\ \E i \in DOMAIN replies[r] :
          replies[r][i] = [code |-> LOAD_AD_SUCCESS, payload |-> "valid"]
  \/ event = Failure(Undefined)    /\ Answered(r, LOAD_AD_SUCCESS)
  \/ event = Failure(PARAM_ERR)    /\ Answered(r, AD_LOAD_PARAMS_ERROR)
  \/ event = Failure(DEVICE_ERR)   /\ Answered(r, DEVICE_NOT_SUPPORT_ERROR)
  \/ event = Failure(REQUEST_FAIL) /\ Answered(r, AD_LOAD_FAIL)
  \/ event = Failure(INNER_ERR)    /\ conn[r] = "refused"
  \/ /\ event = Failure(INNER_ERR)
     /\ \E i \in DOMAIN replies[r] :
          replies[r][i].code \notin {LOAD_AD_SUCCESS, AD_LOAD_PARAMS_ERROR,
                                    DEVICE_NOT_SUPPORT_ERROR, AD_LOAD_FAIL}

BodyVerdictHasCause(r, event) ==
  \/ /\ event = Success
     /\ \E i \in DOMAIN replies[r] :
          /\ replies[r][i].code = LOAD_AD_SUCCESS
          /\ replies[r][i].payload # "empty"
  \/ /\ event = Failure(INNER_ERR)
     /\ conn[r] = "refused"
  \/ event = Failure(PARAM_ERR)        /\ call[r] = "thrown"
  \/ event = Failure(PARAM_ERROR_TEXT) /\ listener[r] = "unbound"
  \/ /\ event.what = "failure"
     /\ Answered(r, event.code)

HasCause(r, event) ==
  IF IsLoad(r) THEN LoadVerdictHasCause(r, event) ELSE BodyVerdictHasCause(r, event)

VerdictHasCause ==
  \A r \in Request : \A i \in DOMAIN heard[r] : HasCause(r, heard[r][i])

(* When the library is done with a request whose caller can be told, the   *)
(* caller has been told, unless the provider still has the request, failed *)
(* to get it, or went away with it: the silent ends are these and no other. *)
AtRest(r) ==
  /\ call[r] = "completed"
  /\ \A m \in inbox : m.req # r
  /\ \A w \in posted : w.req # r

SilenceIsExplained ==
  \A r \in Request :
    AtRest(r) /\ listener[r] = "bound" /\ heard[r] = <<>> =>
      /\ replies[r] = <<>>
      /\ conn[r] \in {"connecting", "sent", "failed", "disconnected"}

(* The inductive strengthening of the invariants above, in parts.          *)

(* An answer under way was sent.                                           *)
InboxOK == \A m \in inbox : m.seq \in DOMAIN replies[m.req]

(* Posted work reports a refused load, or what the stub made of an answer. *)
ReportsRefusal(w) ==
  /\ w.seq = 0
  /\ IsLoad(w.req)
  /\ conn[w.req] = "refused"
  /\ w.what = "failure" /\ w.code = INNER_ERR

ReportsAnswer(w) ==
  /\ w.seq \in DOMAIN replies[w.req]
  /\ w.payload = replies[w.req][w.seq].payload
  /\ w.what = StubResult(w.req, replies[w.req][w.seq]).what
  /\ w.code = StubResult(w.req, replies[w.req][w.seq]).code

PostedOK == \A w \in posted : ReportsRefusal(w) \/ ReportsAnswer(w)

(* How far the connection, the error and the callback object of a request  *)
(* can have got.                                                           *)
BeforeConnect == {"idle", "thrown", "asking", "queued", "running"}

ProgressOK(r) ==
  /\ call[r] \in BeforeConnect => conn[r] = "none"
  /\ call[r] \in {"idle", "thrown", "asking"} => listener[r] = "null"
  /\ call[r] \in {"executed", "completed"} /\ conn[r] = "none" => listener[r] = "null"
  /\ conn[r] \in {"none", "refused", "connecting", "failed"} => replies[r] = <<>>
  /\ ~IsLoad(r) =>
       /\ call[r] # "asking"
       /\ call[r] \notin {"idle", "thrown"} => listener[r] # "null"
       /\ err[r] = IF conn[r] = "refused" THEN INNER_ERR ELSE ERR_SEND_OK

StagesOK == \A r \in Request : ProgressOK(r)

UnderWay(r) == (\E m \in inbox : m.req = r) \/ (\E w \in posted : w.req = r)

(* Something the application must hear was heard or is under way.          *)
Due(r) ==
  \/ replies[r] # <<>>
  \/ conn[r] = "refused" /\ (IsLoad(r) \/ call[r] = "completed")

AccountedFor ==
  \A r \in Request : listener[r] = "bound" /\ Due(r) => heard[r] # <<>> \/ UnderWay(r)

(* And not both, nor twice, as long as the provider answers once.          *)
OneUnderWay ==
  /\ \A m1, m2 \in inbox : m1.req = m2.req => m1 = m2
  /\ \A w1, w2 \in posted : w1.req = w2.req => w1 = w2
  /\ \A m \in inbox, w \in posted : m.req # w.req

NotYetHeard ==
  \A r \in Request :
    /\ call[r] \in {"idle", "asking"} => heard[r] = <<>>
    /\ listener[r] = "bound" /\ (UnderWay(r) \/ ~Due(r)) => heard[r] = <<>>
    /\ listener[r] # "bound" => Len(heard[r]) <= 1

(* All of it: PipelineInv is what the steps preserve.                      *)
PipelineInv ==
  /\ InboxOK
  /\ PostedOK
  /\ StagesOK
  /\ AccountedFor
  /\ OneUnderWay
  /\ NotYetHeard

(* A refused connection or an answer of the provider is reported in the    *)
(* end, whatever other requests do.                                        *)
EveryCauseIsReported ==
  \A r \in Request :
    (listener[r] = "bound" /\ (conn[r] = "refused" \/ replies[r] # <<>>))
      ~> (heard[r] # <<>>)

(* The pipeline keeps the promise of AdRequest.                            *)
StageOf(r) ==
  IF call[r] = "idle" THEN "idle"
  ELSE IF call[r] = "asking" THEN "asked"
  ELSE IF listener[r] # "bound" THEN "closed"
  ELSE IF conn[r] = "refused" THEN "refused"
  ELSE IF replies[r] # <<>>
       THEN IF replies[r][1].code = LOAD_AD_SUCCESS THEN "granted" ELSE "denied"
  ELSE IF conn[r] = "failed" THEN "closed"
  ELSE "asked"

Abstract == INSTANCE AdRequest WITH
  Promise <- {r \in Request : ~IsLoad(r)},
  stage   <- [r \in Request |-> StageOf(r)],
  told    <- [r \in Request |-> [i \in DOMAIN heard[r] |-> heard[r][i].what]]

KeepsPromise == Abstract!Spec

-----------------------------------------------------------------------------
(* What the repository says and the code does not do.                      *)

(* README.md:185 tells applications that onAdLoadFailure is "Called when   *)
(* an ad request fails."                                                   *)
EveryFailureReported ==
  \A r \in Request :
    (IsLoad(r) /\ listener[r] = "bound" /\ conn[r] = "failed")
      ~> (heard[r] # <<>>)

(* README.md:141-143: providerBundleName and providerAbilityName name the  *)
(* component that loads ads.                                               *)
DocumentedConfigIsUsed ==
  \A r \in Request :
    call[r] \in {"running", "executed", "completed"} =>
      element["bundle"] = file["bundle"] /\ element["ext"] = file["ext"]
=============================================================================
