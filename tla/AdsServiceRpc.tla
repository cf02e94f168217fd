---------------------------- MODULE AdsServiceRpc ----------------------------
(***************************************************************************)
(* The provider's side of a load request: the remote object an             *)
(* AdsServiceExtensionAbility returns from onConnect.  It validates a      *)
(* message, hands it to the service's onLoadAd or onLoadAdWithMultiSlots,  *)
(* and turns what the service does into replies to the client.             *)
(*                                                                         *)
(* One JavaScript thread handles all requests, but each handler awaits the *)
(* name of its caller: others are handled meanwhile.                       *)
(***************************************************************************)
EXTENDS Integers, Sequences

CONSTANTS
  Request,      \* messages that arrive, each at most once
  Uid, UidOf,   \* callers, and the caller of each request
  Message,      \* what a request may say, records of MessageType
  Ad,           \* what an ad may be
  RespData,     \* what the service may answer: a list of ads for each slot
  None,         \* nobody, no message
  MaxAnswers    \* bound: calls of one request's respCallback

CODE_SUCCESS            == 200
CODE_INVALID_PARAMETERS == 401
CODE_DEVICE_NOT_SUPPORT == 801
CODE_INTERNAL_ERROR     == 100001
CODE_LOAD_ADS_FAILURE   == 100003

(* null or missing, where a number is expected.                            *)
Undefined == -2

(* "blank": only spaces; "number": what has no trim.                       *)
Slot == [adId : {"none", "blank", "number", "text"},
         adType : Int, adWidth : Int, adHeight : Int]

(* What adRequestParams is: no JSON, null, one object or an array.         *)
MessageType ==
  [multi : BOOLEAN, token : BOOLEAN,
   shape : {"text", "null", "object", "array"}, slots : Seq(Slot)]

ASSUME AdsServiceAssumption ==
  /\ UidOf \in [Request -> Uid]
  /\ None \notin Uid
  /\ \A m \in Message :
       /\ m \in MessageType
       /\ m.shape = "object" => Len(m.slots) = 1
  /\ \A d \in RespData : d \in Seq(Seq(Ad))
  /\ MaxAnswers \in Nat

VARIABLES
  callingUid,   \* whose message the thread took last (getCallingUid)
  pc,           \* [Request -> Pc]
  msg,          \* [Request -> Message \cup {None}]
  uid,          \* [Request -> Uid \cup {None}], the local variable
  handed,       \* [Request -> Uid \cup {None}], packageName given to the service
  calls,        \* [Request -> Seq(RespData)], calls of respCallback
  replies       \* [Request -> Seq(Reply)], sent to the client

vars == <<callingUid, pc, msg, uid, handed, calls, replies>>

(* The promise of onRemoteMessageRequest settles with true in "handled",   *)
(* with false in "refused", and is rejected in "rejected"; "serving" is    *)
(* inside the service's function, "thrown" is handled after that threw.    *)
Pc == {"new", "awaiting", "serving", "handled", "thrown", "refused", "rejected"}

Reply == [code : {CODE_SUCCESS, CODE_INVALID_PARAMETERS, CODE_DEVICE_NOT_SUPPORT,
                  CODE_INTERNAL_ERROR, CODE_LOAD_ADS_FAILURE},
          ads : Seq(Seq(Ad))]

TypeOK ==
  /\ callingUid \in Uid \cup {None}
  /\ pc \in [Request -> Pc]
  /\ msg \in [Request -> Message \cup {None}]
  /\ uid \in [Request -> Uid \cup {None}]
  /\ handed \in [Request -> Uid \cup {None}]
  /\ calls \in [Request -> Seq(RespData)]
  /\ replies \in [Request -> Seq(Reply)]

Init ==
  /\ callingUid = None
  /\ pc = [r \in Request |-> "new"]
  /\ msg = [r \in Request |-> None]
  /\ uid = [r \in Request |-> None]
  /\ handed = [r \in Request |-> None]
  /\ calls = [r \in Request |-> <<>>]
  /\ replies = [r \in Request |-> <<>>]

-----------------------------------------------------------------------------
(* Validation.                                                             *)

(* isValidAdType.                                                          *)
IsValidAdType(t) == t \in {Undefined, -1, 8, 1, 3, 60, 7, 9, 12, 18}

(* isValidAdSize.                                                          *)
IsValidAdSize(n) == n = Undefined \/ n > 0

Fits(s) == IsValidAdType(s.adType) /\ IsValidAdSize(s.adWidth) /\ IsValidAdSize(s.adHeight)

(* What throws a TypeError in validate: a property of null, an object      *)
(* without some, an adId without trim before one that is missing.          *)
Throws(m) ==
  \/ m.shape = "null"
  \/ /\ m.multi
     /\ \/ m.shape = "object"
        \/ \E i \in DOMAIN m.slots :
             /\ m.slots[i].adId = "number"
             /\ \A j \in 1 .. i - 1 : m.slots[j].adId = "text"

(* Every slot has an identifier.  A single slot's may be blank.            *)
HasIds(m) ==
  IF m.multi
  THEN m.shape = "array" /\ m.slots # <<>> /\ \A i \in DOMAIN m.slots : m.slots[i].adId = "text"
  ELSE m.shape = "object" /\ m.slots[1].adId # "none"

(* validateSingleSlotsReq, validateMultiSlotsReq.                          *)
Valid(m) == HasIds(m) /\ Fits(m.slots[1])

-----------------------------------------------------------------------------
(* Replies.                                                                *)

(* sendMsgReq.                                                             *)
SendMsgReq(r, code, ads) ==
  replies' = [replies EXCEPT ![r] = Append(@, [code |-> code, ads |-> ads])]

(* Some slot has ads.                                                      *)
HasAds(d) == \E i \in DOMAIN d : d[i] # <<>>

(* Fault: an answer with no ads at all passes for ads.                     *)
BizAdsReqCallback_Any(r, d) ==
  IF d # <<>>
  THEN SendMsgReq(r, CODE_SUCCESS, IF msg[r].multi THEN d ELSE <<d[1]>>)
  ELSE SendMsgReq(r, CODE_LOAD_ADS_FAILURE, <<>>)

(* bizAdsReqCallback: of a single-slot request the first list is sent.     *)
BizAdsReqCallback(r, d) ==
  IF HasAds(d)
  THEN SendMsgReq(r, CODE_SUCCESS, IF msg[r].multi THEN d ELSE <<d[1]>>)
  ELSE SendMsgReq(r, CODE_LOAD_ADS_FAILURE, <<>>)

-----------------------------------------------------------------------------
(* The handler.                                                            *)

(* The service's functions run without interruption.                       *)
NoneServing == \A r \in Request : pc[r] # "serving"

Goto(r, p) == pc' = [pc EXCEPT ![r] = p]

(* onRemoteMessageRequest up to its await.                                 *)
Receive(r, m) ==
  /\ NoneServing
  /\ pc[r] = "new"
  /\ Goto(r, "awaiting")
  /\ callingUid' = UidOf[r]
  /\ msg' = [msg EXCEPT ![r] = m]
  /\ uid' = [uid EXCEPT ![r] = UidOf[r]]
  /\ UNCHANGED <<handed, calls, replies>>

Resumes(r) == NoneServing /\ pc[r] = "awaiting" /\ UNCHANGED <<callingUid, msg, uid, calls>>

(* The outer catch: replyRpcObj is not in its scope, so it throws.         *)
OuterCatch(r) == Goto(r, "rejected") /\ UNCHANGED <<handed, replies>>

(* getBundleNameByUid rejects, as for a caller that was uninstalled.       *)
NameFails(r) == Resumes(r) /\ OuterCatch(r)

(* The token is not the descriptor.                                        *)
TokenFails(r) == Resumes(r) /\ ~msg[r].token /\ Goto(r, "refused") /\ UNCHANGED <<handed, replies>>

ValidateThrows(r) == Resumes(r) /\ msg[r].token /\ Throws(msg[r]) /\ OuterCatch(r)

(* The parameters are refused.                                             *)
Refuse(r) ==
  /\ Resumes(r)
  /\ msg[r].token /\ ~Throws(msg[r]) /\ ~Valid(msg[r])
  /\ SendMsgReq(r, CODE_INVALID_PARAMETERS, <<>>)
  /\ Goto(r, "handled")
  /\ UNCHANGED handed

(* Fault: the caller is asked for after the await.                         *)
Hand_CallingUid(r) ==
  /\ Resumes(r)
  /\ msg[r].token /\ ~Throws(msg[r]) /\ Valid(msg[r])
  /\ handed' = [handed EXCEPT ![r] = callingUid]
  /\ Goto(r, "serving")
  /\ UNCHANGED replies

(* parseAdRequestParams puts the caller's name into every slot, and the    *)
(* service's function is called.                                           *)
Hand(r) ==
  /\ Resumes(r)
  /\ msg[r].token /\ ~Throws(msg[r]) /\ Valid(msg[r])
  /\ handed' = [handed EXCEPT ![r] = uid[r]]
  /\ Goto(r, "serving")
  /\ UNCHANGED replies

(* The service calls respCallback, before or after its function returns.   *)
Respond(r, d) ==
  /\ handed[r] # None
  /\ pc[r] # "serving" => NoneServing
  /\ Len(calls[r]) < MaxAnswers
  /\ calls' = [calls EXCEPT ![r] = Append(@, d)]
  /\ BizAdsReqCallback(r, d)
  /\ UNCHANGED <<callingUid, pc, msg, uid, handed>>

Return(r) ==
  /\ pc[r] = "serving"
  /\ Goto(r, "handled")
  /\ UNCHANGED <<callingUid, msg, uid, handed, calls, replies>>

(* Fault: only the device error is passed on.                              *)
ServiceThrows_DeviceOnly(r, code) ==
  /\ pc[r] = "serving"
  /\ Goto(r, "thrown")
  /\ IF code = CODE_DEVICE_NOT_SUPPORT THEN SendMsgReq(r, code, <<>>) ELSE UNCHANGED replies
  /\ UNCHANGED <<callingUid, msg, uid, handed, calls>>

(* The service's function throws, with the code of a device that is not    *)
(* supported or any other.  It may have called back, and still may.        *)
ServiceThrows(r, code) ==
  /\ pc[r] = "serving"
  /\ Goto(r, "thrown")
  /\ SendMsgReq(r, code, <<>>)
  /\ UNCHANGED <<callingUid, msg, uid, handed, calls>>

-----------------------------------------------------------------------------

Next ==
  \E r \in Request :
    \/ \E m \in Message : Receive(r, m)
    \/ NameFails(r) \/ TokenFails(r) \/ ValidateThrows(r) \/ Refuse(r) \/ Hand(r)
    \/ \E d \in RespData : Respond(r, d)
    \/ Return(r)
    \/ \E code \in {CODE_DEVICE_NOT_SUPPORT, CODE_INTERNAL_ERROR} : ServiceThrows(r, code)

Spec == Init /\ [][Next]_vars

-----------------------------------------------------------------------------

Codes(r) == {replies[r][i].code : i \in DOMAIN replies[r]}

(* The service is given the name of the caller who sent the request,       *)
(* whoever's messages arrived while its handler awaited that name.         *)
OwnPackage == \A r \in Request : handed[r] \in {None, UidOf[r]}

(* What the handler itself replies: a refusal, or the service's exception. *)
OwnReplies(r) == IF pc[r] = "thrown" \/ (pc[r] = "handled" /\ handed[r] = None) THEN 1 ELSE 0

(* A refusal is the only reply to its request, which the service does not  *)
(* see.  Any other client gets one reply for each time the service calls   *)
(* back and one if the service's function throws, so two if it does both,  *)
(* and none if its token is wrong, or on an exception outside the          *)
(* service's function.                                                     *)
RefusedOrAnswered ==
  \A r \in Request :
    /\ CODE_INVALID_PARAMETERS \in Codes(r) => Len(replies[r]) = 1 /\ handed[r] = None
    /\ Len(replies[r]) = Len(calls[r]) + OwnReplies(r)

(* A reply of success carries ads, unless the service answered a           *)
(* single-slot request with ads in lists after an empty first one.         *)
SuccessHasAds ==
  \A r \in Request : \A i \in DOMAIN replies[r] :
    LET reply == replies[r][i] IN
      reply.code = CODE_SUCCESS =>
        \/ \E k \in DOMAIN reply.ads : reply.ads[k] # <<>>
        \/ ~msg[r].multi /\ \E c \in DOMAIN calls[r] : \E k \in DOMAIN calls[r][c] :
             k > 1 /\ calls[r][c][1] = <<>> /\ calls[r][c][k] # <<>>

(* An internal error is reported to the client, as the outer catch of the  *)
(* handler has it.                                                         *)
InternalErrorReported ==
  \A r \in Request : pc[r] = "rejected" => CODE_INTERNAL_ERROR \in Codes(r)
=============================================================================
