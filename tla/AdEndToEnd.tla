----------------------------- MODULE AdEndToEnd -----------------------------
(***************************************************************************)
(* A load on its whole way: the library (AdLoadPipeline), the handler of a *)
(* provider that extends AdsServiceExtensionAbility (AdsServiceRpc), and   *)
(* the text of its reply.  What the library sends is what the handler      *)
(* receives, and what the handler sends is what the library's stubs read.  *)
(* A provider need not be built that way: of any other, and of the one     *)
(* that builds request bodies, nothing is known (KitReplies).              *)
(***************************************************************************)
EXTENDS AdLoadPipeline

CONSTANTS
  Uid, UidOf, Message, Ad, RespData, None,   \* as in AdsServiceRpc
  Parsable   \* <<multi, ads>> of a reply whose text the client can parse (AdsJson)

VARIABLES
  callingUid, pc, msg, uid, handed, calls,   \* as in AdsServiceRpc
  sent                                       \* what its handlers have replied

serviceVars == <<callingUid, pc, msg, uid, handed, calls, sent>>
systemVars  == <<vars, serviceVars>>

Load == {r \in Request : IsLoad(r)}

Rpc == INSTANCE AdsServiceRpc WITH
  Request <- Load, MaxAnswers <- MaxReplies, replies <- sent

HandlerCode == {Rpc!CODE_SUCCESS, Rpc!CODE_INVALID_PARAMETERS, Rpc!CODE_DEVICE_NOT_SUPPORT,
                Rpc!CODE_INTERNAL_ERROR, Rpc!CODE_LOAD_ADS_FAILURE}

ASSUME EndToEndAssumption ==
  /\ UidOf \in [Load -> Uid]
  /\ None \notin Uid
  /\ \A m \in Message :
       /\ m \in Rpc!MessageType
       /\ m.shape = "object" => Len(m.slots) = 1
  /\ \A d \in RespData : d \in Seq(Seq(Ad))
  /\ HandlerCode \subseteq KitCode

-----------------------------------------------------------------------------
(* Between the two processes.                                              *)

(* What the library sends for a load: its own token, which is the          *)
(* handler's descriptor, and one object, or an array of at least one.      *)
(* A size or a type of 0 is not written.                                   *)
Sendable(r, m) ==
  /\ m.token
  /\ m.multi = (Kind[r] = "multi")
  /\ m.shape = IF m.multi THEN "array" ELSE "object"
  /\ m.slots # <<>>
  /\ \A i \in DOMAIN m.slots : 0 \notin {m.slots[i].adType, m.slots[i].adWidth, m.slots[i].adHeight}

(* A reply as the library's stub reads it: the code, and the text of the   *)
(* ads, of which it matters whether the client can parse it.               *)
Readable(r, ads) == <<msg[r].multi, ads>> \in Parsable

Wire(r, reply) ==
  [code    |-> reply.code,
   payload |-> IF reply.code = Rpc!CODE_SUCCESS /\ ~Readable(r, reply.ads)
               THEN "malformed" ELSE "valid"]

-----------------------------------------------------------------------------
(* The library and providers of another make.                              *)

LibraryStep == LibraryNext /\ UNCHANGED serviceVars

OtherReplies(r) ==
  /\ IsLoad(r) => pc[r] = "new"
  /\ KitReplies(r)
  /\ UNCHANGED serviceVars

(* The handler of a provider that was not answered for already.            *)
TakeRequest(r, m) ==
  /\ conn[r] \in {"sent", "disconnected"}
  /\ replies[r] = <<>>
  /\ Sendable(r, m)
  /\ Rpc!Receive(r, m)
  /\ UNCHANGED vars

(* Steps that send nothing, the first of which end the request.            *)
EndsSilently(r)   == (Rpc!NameFails(r) \/ Rpc!ValidateThrows(r)) /\ UNCHANGED vars
GiveToService(r)  == Rpc!Hand(r) /\ UNCHANGED vars
ServiceReturns(r) == Rpc!Return(r) /\ UNCHANGED vars

(* Steps that send a reply, which is then under way to the library.        *)
Sends(r) == KitSends(r, Wire(r, sent'[r][Len(sent'[r])]))

ReplyRefusal(r)         == Rpc!Refuse(r) /\ Sends(r)
ReplyOfService(r, d)    == Rpc!Respond(r, d) /\ Sends(r)
ReplyException(r, code) == Rpc!ServiceThrows(r, code) /\ Sends(r)

SystemInit == Init /\ Rpc!Init

SystemNext ==
  \/ LibraryStep
  \/ \E r \in Request : OtherReplies(r)
  \/ \E r \in Load :
       \/ \E m \in Message : TakeRequest(r, m)
       \/ EndsSilently(r)
       \/ ReplyRefusal(r)
       \/ GiveToService(r)
       \/ \E d \in RespData : ReplyOfService(r, d)
       \/ ServiceReturns(r)
       \/ \E code \in {Rpc!CODE_DEVICE_NOT_SUPPORT, Rpc!CODE_INTERNAL_ERROR} : ReplyException(r, code)

SystemSpec == SystemInit /\ [][SystemNext]_systemVars

(* The library's threads are as fair as before; nothing is assumed of the  *)
(* provider's.                                                             *)
FairSystemSpec == SystemSpec /\ Fairness

-----------------------------------------------------------------------------
(* The request was taken by a handler.                                     *)
Served(r) == IsLoad(r) /\ pc[r] # "new"

(* What the service, or the handler before it, did that event stands for.  *)
ServiceCause(r, event) ==
  \/ /\ event = Success
     /\ \E c \in DOMAIN calls[r] : Rpc!HasAds(calls[r][c])
     /\ \E i \in DOMAIN sent[r] : sent[r][i].code = Rpc!CODE_SUCCESS /\ Readable(r, sent[r][i].ads)
  \/ event = Failure(Undefined)    /\ \E c \in DOMAIN calls[r] : Rpc!HasAds(calls[r][c])
  \/ event = Failure(REQUEST_FAIL) /\ \E c \in DOMAIN calls[r] : ~Rpc!HasAds(calls[r][c])
  \/ event = Failure(PARAM_ERR)    /\ pc[r] = "handled" /\ handed[r] = None /\ ~Rpc!Valid(msg[r])
  \/ event \in {Failure(DEVICE_ERR), Failure(INNER_ERR)} /\ pc[r] = "thrown"

(* A request that stays without a word: the name of its caller is not      *)
(* there, or the handler threw on the way, or the service was given it and *)
(* has not called back.                                                    *)
Unanswered(r) ==
  \/ pc[r] \in {"awaiting", "rejected"}
  \/ pc[r] \in {"serving", "handled"} /\ handed[r] = UidOf[r] /\ calls[r] = <<>>

(* An application hears of a load what the provider's service did with it, *)
(* across the message, the handler, the reply's text and four tables of    *)
(* codes: success only if the service answered with ads in a text that     *)
(* parses, 401 only if the application's own parameters are not valid,     *)
(* 21800003 if there were no ads, 801 or 21800001 if the service threw.    *)
(* When all is at rest it has heard nothing only if the service was not    *)
(* reached or did not call back.                                           *)
ToldWhatServiceDid ==
  \A r \in Request : Served(r) =>
    /\ \A i \in DOMAIN heard[r] : ServiceCause(r, heard[r][i])
    /\ AtRest(r) /\ listener[r] = "bound" /\ heard[r] = <<>> => Unanswered(r)
=============================================================================
