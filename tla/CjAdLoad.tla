------------------------------- MODULE CjAdLoad -------------------------------
(***************************************************************************)
(* An ad request of the CJ binding.  A load tells its listener from        *)
(* whichever thread learns something: the caller's own, or a binder thread *)
(* that takes the provider's answer, the end of a connection attempt or    *)
(* the provider's obituary.  getAdRequestBody blocks its caller on a       *)
(* future that the first of these settles.                                 *)
(*                                                                         *)
(* CjServiceConfig has the reading of the configuration; here a request    *)
(* finds one of the elements that may come of it.  Allocation failures,    *)
(* the only way in which converting the parameters fails, are left out.    *)
(***************************************************************************)
EXTENDS AdErrorCodes, AdServiceElement, Sequences, FiniteSets

CONSTANTS
  Request,     \* requests the application makes
  Body,        \* those made by getAdRequestBody; the others are loads
  Found,       \* elements a request may find
  KitCode,     \* result codes the provider may answer with
  ConnectCode, \* errors with which a connection attempt may end
  MaxReplies   \* answers the provider may send to one request

ASSUME CjLoadAssumption ==
  /\ Body \subseteq Request
  /\ Found \subseteq Element
  /\ KitCode \subseteq Int /\ ConnectCode \subseteq Int \ {LOAD_AD_SUCCESS}
  /\ MaxReplies \in Nat

VARIABLES
  call,     \* [Request -> CallStage], where the application's call is
  target,   \* [Request -> Element], currAdServiceElementName_
  conn,     \* [Request -> ConnStage]
  remote,   \* [Request -> {"alive", "dead"}], the provider's end of it
  watch,    \* [Request -> Watch], the death recipient
  replies,  \* [Request -> Seq(Reply)], what the provider has answered
  inbox,    \* answers on their way to the client process
  told,     \* [Request -> Seq(Event)], calls of a load's listener
  settled,  \* [Request -> Seq(Outcome)], values put into a body's promise
  body      \* [Request -> Payload], what getAdRequestBody returned

callVars == <<call, body>>
linkVars == <<target, conn, remote, watch>>
kitVars  == <<replies, inbox>>
toldVars == <<told, settled>>
vars == <<callVars, linkVars, kitVars, toldVars>>

CallStage == {"idle", "calling", "connected", "failing", "waiting", "returned"}
Watch     == {"none", "armed", "fired"}

(* "linked": between the two halves of OnAbilityConnectDone; "unsent": the  *)
(* request did not get to the provider and nobody was told; "failed":      *)
(* NotifyFailure was called.                                               *)
ConnStage == {"none", "refused", "connecting", "linked", "sent", "unsent",
              "failed", "disconnected"}

Payload == {"valid", "malformed", "empty"}
Reply   == [code : KitCode, payload : Payload]
Outcome == [code : Int, payload : Payload]

Event == [what : {"success", "failure"}, code : Int]
Success == [what |-> "success", code |-> ERR_SEND_OK]
Failure(code) == [what |-> "failure", code |-> code]

Advance(r, from, to) ==
  /\ call[r] = from
  /\ call' = [call EXCEPT ![r] = to]

(* Fault: whoever comes later overwrites the promise's value.              *)
Settled_Again(r, outcome) == [settled EXCEPT ![r] = <<outcome>>]

(* The lambda given to AdRequestBodyAsync: the first to exchange satisfied *)
(* sets the promise's value.                                               *)
Settled(r, outcome) ==
  IF settled[r] = <<>> THEN [settled EXCEPT ![r] = <<outcome>>] ELSE settled

Told(r, event) == [told EXCEPT ![r] = Append(@, event)]

(* Both callbacks' failure: the load's listener, or the body's promise.    *)
Fail(r, code) ==
  IF r \in Body
  THEN settled' = Settled(r, [code |-> code, payload |-> "empty"]) /\ UNCHANGED told
  ELSE told' = Told(r, Failure(code)) /\ UNCHANGED settled

-----------------------------------------------------------------------------
(* The thread that makes the request.                                      *)

(* The loader's handle is no longer valid: nobody is told.                 *)
NoLoader(r) ==
  /\ r \notin Body
  /\ Advance(r, "idle", "returned")
  /\ UNCHANGED <<body, linkVars, kitVars, toldVars>>

(* loadAd, loadAdWithMultiSlots and getAdRequestBody convert parameters    *)
(* and make the callback.                                                  *)
Call(r) ==
  /\ Advance(r, "idle", "calling")
  /\ UNCHANGED <<body, linkVars, kitVars, toldVars>>

AbilityOf(r, e) == IF r \in Body THEN e["api"] ELSE e["ext"]

(* The ability manager accepts the connection ConnectAdKit or RequestAdBody *)
(* asks for.  From here on binder threads may be faster than the caller.   *)
Connect(r) ==
  /\ Advance(r, "calling", "connected")
  /\ \E e \in Found :
       /\ e["bundle"] # NoName /\ AbilityOf(r, e) # NoName
       /\ target' = [target EXCEPT ![r] = e]
  /\ conn' = [conn EXCEPT ![r] = "connecting"]
  /\ UNCHANGED <<body, remote, watch, kitVars, toldVars>>

(* It refuses.  LoadAd tells the listener; RequestAdBody does not.         *)
ConnectRefused(r) ==
  /\ Advance(r, "calling", "failing")
  /\ conn' = [conn EXCEPT ![r] = "refused"]
  /\ told' = IF r \in Body THEN told
             ELSE Told(r, Failure(ERR_AD_COMMON_AD_CONNECT_KIT_ERROR))
  /\ UNCHANGED <<body, target, remote, watch, kitVars, settled>>

(* LoadAd or RequestAdBody returned an error.  loadAd tells its listener a *)
(* second time, through a pointer whose object has lost its last owner:    *)
(* the call may or may not arrive.                                         *)
ReturnError(r) ==
  /\ Advance(r, "failing", "returned")
  /\ \/ UNCHANGED told
     \/ /\ r \notin Body
        /\ told' = Told(r, Failure(ERR_AD_COMMON_AD_CONNECT_KIT_ERROR))
  /\ UNCHANGED <<body, linkVars, kitVars, settled>>

(* Fault: loadAd reports whatever code LoadAd returned, no error included. *)
ReturnOk_Reports(r) ==
  /\ Advance(r, "connected", IF r \in Body THEN "waiting" ELSE "returned")
  /\ told' = IF r \in Body THEN told ELSE Told(r, Failure(ERR_SEND_OK))
  /\ UNCHANGED <<body, linkVars, kitVars, settled>>

(* A load returns; getAdRequestBody goes on to wait for its future.        *)
ReturnOk(r) ==
  /\ Advance(r, "connected", IF r \in Body THEN "waiting" ELSE "returned")
  /\ UNCHANGED <<body, linkVars, kitVars, toldVars>>

(* Fault: the body is returned whatever the result code says.              *)
WaitAdBodyResult_AnyCode(r) ==
  /\ settled[r] # <<>>
  /\ Advance(r, "waiting", "returned")
  /\ body' = [body EXCEPT ![r] = Head(settled[r]).payload]
  /\ UNCHANGED <<linkVars, kitVars, toldVars>>

(* The future is ready.  An error ends as an empty body.  The connection   *)
(* is also given up, which shows as an OnAbilityDisconnectDone.            *)
WaitAdBodyResult(r) ==
  /\ settled[r] # <<>>
  /\ Advance(r, "waiting", "returned")
  /\ body' = [body EXCEPT ![r] =
       IF Head(settled[r]).code = LOAD_AD_SUCCESS THEN Head(settled[r]).payload ELSE "empty"]
  /\ UNCHANGED <<linkVars, kitVars, toldVars>>

-----------------------------------------------------------------------------
(* Binder threads.  The ability manager's calls of one connection object   *)
(* are one-way and come one after the other.                               *)

Link(r, from, to) ==
  /\ conn[r] = from
  /\ conn' = [conn EXCEPT ![r] = to]

(* OnAbilityConnectDone with ERR_OK, first half: the death recipient is    *)
(* added, which a provider that is already dead does not take.             *)
OnAbilityConnectDone(r) ==
  /\ Link(r, "connecting", "linked")
  /\ watch' = [watch EXCEPT ![r] = IF remote[r] = "alive" THEN "armed" ELSE "none"]
  /\ UNCHANGED <<callVars, target, remote, kitVars, toldVars>>

(* Which proxy fits is decided by the ability's name, the load service     *)
(* first; a body's connection has no callback for the load proxy to send.  *)
ProxyFits(r) == r \in Body => target[r]["api"] # target[r]["ext"]

(* Second half: the request is sent.                                       *)
Send(r) ==
  /\ Link(r, "linked", "sent")
  /\ ProxyFits(r) /\ remote[r] = "alive"
  /\ UNCHANGED <<callVars, target, remote, watch, kitVars, toldVars>>

(* Second half: SendRequest fails, or the proxy finds no callback.         *)
SendFails(r) ==
  /\ Link(r, "linked", "unsent")
  /\ UNCHANGED <<callVars, target, remote, watch, kitVars, toldVars>>

(* Second half: no name matches, as the element was copied unlocked.       *)
NotAnyService(r) ==
  /\ Link(r, "linked", "failed")
  /\ Fail(r, INNER_ERR)
  /\ UNCHANGED <<callVars, target, remote, watch, kitVars>>

(* Fault: a failed connection is not reported (as in the N-API library).   *)
ConnectDoneFails_Silent(r) ==
  /\ Link(r, "connecting", "failed")
  /\ UNCHANGED <<callVars, target, remote, watch, kitVars, toldVars>>

(* OnAbilityConnectDone with an error.                                     *)
ConnectDoneFails(r) ==
  /\ Link(r, "connecting", "failed")
  /\ \E code \in ConnectCode : Fail(r, code)
  /\ UNCHANGED <<callVars, target, remote, watch, kitVars>>

(* OnAbilityDisconnectDone lets go of the provider's proxy.  If nothing    *)
(* else holds it the death recipient goes with it.                         *)
OnAbilityDisconnectDone(r) ==
  /\ conn[r] \in {"sent", "unsent", "failed"}
  /\ conn' = [conn EXCEPT ![r] = IF @ = "sent" THEN "disconnected" ELSE @]
  /\ \E kept \in BOOLEAN :
       watch' = [watch EXCEPT ![r] = IF @ = "fired" \/ kept THEN @ ELSE "none"]
  /\ UNCHANGED <<callVars, target, remote, kitVars, toldVars>>

(* External: the provider's process dies.                                  *)
RemoteDies(r) ==
  /\ conn[r] \notin {"none", "refused"}
  /\ remote[r] = "alive"
  /\ remote' = [remote EXCEPT ![r] = "dead"]
  /\ UNCHANGED <<callVars, target, conn, watch, kitVars, toldVars>>

(* The death recipient is called, once.                                    *)
OnRemoteDied(r) ==
  /\ remote[r] = "dead"
  /\ watch[r] = "armed"
  /\ watch' = [watch EXCEPT ![r] = "fired"]
  /\ Fail(r, INNER_ERR)
  /\ UNCHANGED <<callVars, target, conn, remote, kitVars>>

(* External: the provider answers, or answers again.                       *)
KitReplies(r) ==
  /\ conn[r] \in {"sent", "disconnected"}
  /\ remote[r] = "alive"
  /\ Len(replies[r]) < MaxReplies
  /\ \E reply \in Reply : replies' = [replies EXCEPT ![r] = Append(@, reply)]
  /\ inbox' = inbox \cup {[req |-> r, seq |-> Len(replies[r]) + 1]}
  /\ UNCHANGED <<callVars, linkVars, toldVars>>

(* Fault: an answer that does not parse is passed on as a success.         *)
LoadResult_Unparsed(reply) ==
  IF reply.code = LOAD_AD_SUCCESS THEN Success ELSE Failure(reply.code)

(* OnAdLoadSuccess parses the ads; a failure keeps the provider's code.    *)
LoadResult(reply) ==
  IF reply.code # LOAD_AD_SUCCESS THEN Failure(reply.code)
  ELSE IF reply.payload = "valid" THEN Success ELSE Failure(REQUEST_FAIL)

(* The stubs take an answer and call the listener, or settle the promise,  *)
(* in the same thread.                                                     *)
OnRemoteRequest(m) ==
  LET reply == replies[m.req][m.seq]
  IN /\ inbox' = inbox \ {m}
     /\ IF m.req \in Body
        THEN settled' = Settled(m.req, reply) /\ UNCHANGED told
        ELSE told' = Told(m.req, LoadResult(reply)) /\ UNCHANGED settled
     /\ UNCHANGED <<callVars, linkVars, replies>>

-----------------------------------------------------------------------------
Init ==
  /\ call    = [r \in Request |-> "idle"]
  /\ target  = [r \in Request |-> NoElement]
  /\ conn    = [r \in Request |-> "none"]
  /\ remote  = [r \in Request |-> "alive"]
  /\ watch   = [r \in Request |-> "none"]
  /\ replies = [r \in Request |-> <<>>]
  /\ inbox   = {}
  /\ told    = [r \in Request |-> <<>>]
  /\ settled = [r \in Request |-> <<>>]
  /\ body    = [r \in Request |-> "empty"]

(* What goes on without the application, the provider or the ability       *)
(* manager doing anything more.                                            *)
Proceed(r)    == Send(r) \/ SendFails(r) \/ NotAnyService(r)
ReturnCall(r) == ReturnError(r) \/ ReturnOk(r)

Next ==
  \/ \E r \in Request :
       \/ NoLoader(r)
       \/ Call(r)
       \/ Connect(r)
       \/ ConnectRefused(r)
       \/ ReturnCall(r)
       \/ WaitAdBodyResult(r)
       \/ OnAbilityConnectDone(r)
       \/ Proceed(r)
       \/ ConnectDoneFails(r)
       \/ OnAbilityDisconnectDone(r)
       \/ RemoteDies(r)
       \/ OnRemoteDied(r)
       \/ KitReplies(r)
  \/ \E m \in inbox : OnRemoteRequest(m)

Spec == Init /\ [][Next]_vars

(* The caller's thread and the binder threads run: a ready future is seen, *)
(* answers that reached the process are taken, and a death recipient that  *)
(* is still there is called.  Nothing is assumed of the ability manager or *)
(* of the provider.                                                        *)
Fairness ==
  \A r \in Request :
    /\ WF_vars(ReturnCall(r))
    /\ WF_vars(WaitAdBodyResult(r))
    /\ WF_vars(Proceed(r))
    /\ WF_vars(OnRemoteDied(r))
    /\ WF_vars(\E m \in inbox : m.req = r /\ OnRemoteRequest(m))

FairSpec == Spec /\ Fairness

-----------------------------------------------------------------------------
(* Every variable has the type its comment gives.                          *)
TypeOK ==
  /\ call    \in [Request -> CallStage]
  /\ target  \in [Request -> Element]
  /\ conn    \in [Request -> ConnStage]
  /\ remote  \in [Request -> {"alive", "dead"}]
  /\ watch   \in [Request -> Watch]
  /\ replies \in [Request -> Seq(Reply)]
  /\ inbox   \subseteq [req : Request, seq : Nat]
  /\ told    \in [Request -> Seq(Event)]
  /\ settled \in [Request -> Seq(Outcome)]
  /\ body    \in [Request -> Payload]

Taken(r)   == Len(replies[r]) - Cardinality({m \in inbox : m.req = r})
Count(cond) == IF cond THEN 1 ELSE 0
Causes(r)  == Taken(r) + Count(watch[r] = "fired") + Count(conn[r] = "failed")

(* A listener of an accepted load is called once for each thing that       *)
(* happened to it, never more and never less: an answer, the provider's    *)
(* death, a failed connection.  So an answer followed by the provider's    *)
(* death is told twice, and the application must be ready for it.  The     *)
(* caller of getAdRequestBody goes on waiting exactly while none of these  *)
(* has happened: none is lost, whichever thread brings it.                 *)
EachCauseToldOnce ==
  /\ \A r \in Request \ Body : conn[r] # "refused" => Len(told[r]) = Causes(r)
  /\ \A r \in Body : settled[r] = <<>> <=> Causes(r) = 0

(* What a listener is told, and what a promise is settled with, comes from  *)
(* what happened to that request.  The provider's codes are passed on as    *)
(* they are.                                                               *)
FailureCause(r, code) ==
  \/ conn[r] = "refused" /\ code = ERR_AD_COMMON_AD_CONNECT_KIT_ERROR
  \/ conn[r] = "failed"  /\ code \in ConnectCode \cup {INNER_ERR}
  \/ watch[r] = "fired"  /\ code = INNER_ERR

LoadCause(r, event) ==
  \/ event.what = "failure" /\ FailureCause(r, event.code)
  \/ \E i \in DOMAIN replies[r] :
       LET reply == replies[r][i] IN
         \/ event = Success /\ reply = [code |-> LOAD_AD_SUCCESS, payload |-> "valid"]
         \/ /\ event = Failure(REQUEST_FAIL)
            /\ reply.code = LOAD_AD_SUCCESS /\ reply.payload # "valid"
         \/ event = Failure(reply.code) /\ reply.code # LOAD_AD_SUCCESS

BodyCause(r, outcome) ==
  \/ outcome.payload = "empty" /\ FailureCause(r, outcome.code)
  \/ \E i \in DOMAIN replies[r] : replies[r][i] = outcome

VerdictHasCause ==
  \A r \in Request :
    /\ \A i \in DOMAIN told[r]    : LoadCause(r, told[r][i])
    /\ \A i \in DOMAIN settled[r] : BodyCause(r, settled[r][i])

(* Answers, the obituary and a failed connection race to settle a body's   *)
(* promise from different threads; the first value stays, as a second one  *)
(* would throw in the binder thread (getAdRequestBody's lambda).           *)
SettledOnce ==
  [][\A r \in Body : settled[r] # <<>> => settled'[r] = settled[r]]_vars

(* Whichever thread settles it, getAdRequestBody keeps the promise of       *)
(* AdRequest: a body only if the provider granted one, one result for each *)
(* call.                                                                   *)
StageOf(r) ==
  IF call[r] = "idle" THEN "idle"
  ELSE IF conn[r] = "refused" THEN "refused"
  ELSE IF settled[r] = <<>> THEN "asked"
  ELSE IF Head(settled[r]).code = LOAD_AD_SUCCESS THEN "granted" ELSE "denied"

Returned(r) ==
  IF call[r] # "returned" THEN <<>>
  ELSE IF body[r] = "empty" THEN <<"failure">> ELSE <<"success">>

Promised == INSTANCE AdRequest WITH
  Request <- Body,
  Promise <- Body,
  stage   <- [r \in Body |-> StageOf(r)],
  told    <- [r \in Body |-> Returned(r)]

BodyKeepsPromise == Promised!Spec

(* A caller blocked in getAdRequestBody gets its answer, is told of a      *)
(* connection that failed, and of a provider that died, unless the          *)
(* connection was given up first.  It waits for ever in what is left: the   *)
(* future has no timeout, so a provider that keeps silent, or a request     *)
(* that could not be sent, blocks it.  A load is told of its answer.       *)
HasEnded(r) == replies[r] # <<>> \/ conn[r] = "failed" \/ watch[r] = "fired"

EndIsReported ==
  /\ \A r \in Body :
       /\ HasEnded(r) ~> call[r] = "returned"
       /\ remote[r] = "dead" /\ watch[r] = "armed"
            ~> call[r] = "returned" \/ watch[r] = "none"
  /\ \A r \in Request \ Body : HasEnded(r) ~> told[r] # <<>>
=============================================================================
