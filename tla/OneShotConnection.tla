-------------------------- MODULE OneShotConnection --------------------------
(***************************************************************************)
(* The calls of advertising.js that connect to the provider for one        *)
(* message: parseAdResponse, called by the application, and invokeAsync of *)
(* AdsJsBridge, called by a web page through the proxy that                *)
(* registerWebAdInterface gives its controller.  Each hands the provider   *)
(* an object to answer on, and nothing is kept of the call but that object *)
(* and the callbacks of the connection.                                    *)
(*                                                                         *)
(* Everything runs in one JavaScript thread.  What a page of an earlier    *)
(* load still hears is left to the web component.                          *)
(***************************************************************************)
EXTENDS AdErrorCodes, Sequences

CONSTANTS
  Call,      \* calls of parseAdResponse and of invokeAsync
  Page,      \* those of invokeAsync
  Disk,      \* what a call may find: the extended configuration and the base one
  RespCode,  \* codes the provider may answer parseAdResponse with
  MaxReplies \* answers the provider may send to one call

CODE_SUCCESS         == 200
PARSE_RESPONSE_ERROR == 21800005

ConfigName == {"bundle", "apiAbility", "jsAbility"}

(* One that cannot be opened or read has no names.                         *)
ConfigJson == [exists : BOOLEAN, names : SUBSET ConfigName]

ASSUME OneShotAssumption ==
  /\ Page \subseteq Call
  /\ Disk \subseteq [ext : ConfigJson, base : ConfigJson]
  /\ RespCode \subseteq Int
  /\ MaxReplies \in Nat

VARIABLES
  control,  \* the web controller: its proxy, the page's, its last call
  asked,    \* [Call -> Input], what the call was given
  result,   \* [Call -> Result], how the call ended for its caller
  link,     \* [Call -> Link], its connection
  replies,  \* [Call -> Seq(Reply)], what the provider has answered
  inbox,    \* answers on their way to the JavaScript thread
  acks,     \* [Call -> SUBSET Nat], answers the provider got TRUE for
  told      \* [Call -> Seq(Report)], calls of the listener or callback

kitVars == <<replies, inbox, acks>>
oneShotVars == <<control, asked, result, link, kitVars, told>>

(* A value the application passes.  "null" is any of the parameters being   *)
(* null, "other" a value that cannot be called, or lacks the method.       *)
Input == [text : {"null", "undefined", "long", "ok"},
          hears : {"null", "undefined", "other", "callable"}]
Nothing == [text |-> "null", hears |-> "null"]

(* "returned" or the kind of what was thrown; "app" is an error of the     *)
(* application's own callback.                                             *)
Result == {"none", "returned", "TypeError", "app", "PARAM_ERR", "INNER_ERR"}

(* "unsent": connected, and the message did not get to the provider.       *)
Link == {"none", "opening", "failed", "unsent", "sent", "down"}

(* "right": the code the object answers to.  An answer to invokeAsync has  *)
(* no code of its own.                                                     *)
Reply == [right : BOOLEAN, code : RespCode, data : {"valid", "malformed"}]

(* no is the answer it comes from, 0 if from none.                         *)
Report == [what : {"success", "failure"}, code : Int, no : Nat]
NullReport == [what |-> "failure", code |-> Undefined, no |-> 0]

OneShotTypeOK ==
  /\ control \in [registered : BOOLEAN, page : BOOLEAN,
                  last : {"none", "refreshed", "kept", "thrown"}]
  /\ asked \in [Call -> Input]
  /\ result \in [Call -> Result]
  /\ link \in [Call -> Link]
  /\ replies \in [Call -> Seq(Reply)]
  /\ inbox \subseteq [call : Call, no : Nat]
  /\ acks \in [Call -> SUBSET Nat]
  /\ told \in [Call -> Seq(Report)]

-----------------------------------------------------------------------------
(* registerWebAdInterface and deleteWebAdInterface.                        *)

(* Fault: needRefresh has no default.                                      *)
Refreshes_NoDefault(needRefresh) == needRefresh = "true"

Refreshes(needRefresh) == needRefresh \in {"undefined", "true"}

(* The controller takes the new registration, the page the next time it is *)
(* loaded.  Either of the controller's calls may throw; "kept": the caller *)
(* asked for no refresh.  A controller that is null changes nothing.       *)
SetProxy(on) ==
  /\ \E needRefresh \in {"undefined", "true", "false"} :
       control' \in
         {[control EXCEPT !.last = "thrown"],
          [control EXCEPT !.registered = on,
                          !.last = IF Refreshes(needRefresh) THEN "thrown" ELSE "kept"],
          [control EXCEPT !.registered = on,
                          !.page = IF Refreshes(needRefresh) THEN on ELSE @,
                          !.last = IF needRefresh = "false" THEN "kept" ELSE "refreshed"]}
  /\ UNCHANGED <<asked, result, link, kitVars, told>>

RegisterWebAdInterface == SetProxy(TRUE)
DeleteWebAdInterface   == SetProxy(FALSE)

(* External: the page is loaded again.                                     *)
PageLoads ==
  /\ control.page # control.registered
  /\ control' = [control EXCEPT !.page = control.registered]
  /\ UNCHANGED <<asked, result, link, kitVars, told>>

-----------------------------------------------------------------------------
(* The calls.                                                              *)

Starts(c, input) ==
  /\ result[c] = "none"
  /\ c \in Page => control.page
  /\ asked' = [asked EXCEPT ![c] = input]
  /\ UNCHANGED <<control, kitVars>>

Ends(c, how) == result' = [result EXCEPT ![c] = how]

IsNull(input) == input.text = "null" \/ input.hears = "null"

(* getConfigJsonData: an extended configuration hides the base one, also    *)
(* where it lacks a name.                                                  *)
GetConfigJsonData(disk) ==
  IF disk.ext.exists THEN disk.ext.names
  ELSE IF disk.base.exists THEN disk.base.names ELSE {}

HasNames(c, disk) ==
  {"bundle", IF c \in Page THEN "jsAbility" ELSE "apiAbility"} \subseteq GetConfigJsonData(disk)

(* validateParams throws; a text that is undefined has no length.          *)
ParseRefuses(c) ==
  \E input \in Input :
    /\ c \notin Page
    /\ Starts(c, input)
    /\ \/ /\ IsNull(input) \/ input.text = "long"
          /\ Ends(c, "PARAM_ERR")
       \/ /\ ~IsNull(input) /\ input.text = "undefined"
          /\ Ends(c, "TypeError")
    /\ UNCHANGED <<link, told>>

Acceptable(c) ==
  {input \in Input : /\ input.text = "ok" /\ input.hears # "null"
                     /\ c \in Page => input.hears = "callable"}

(* Fault: the connection is made before its names are looked at.           *)
ParseFails_Connected(c) ==
  /\ c \notin Page
  /\ \E input \in Acceptable(c) : Starts(c, input)
  /\ Ends(c, "INNER_ERR")
  /\ link' = [link EXCEPT ![c] = "opening"]
  /\ UNCHANGED told

(* A name is missing, or the connection is refused.                        *)
ParseFails(c) ==
  /\ c \notin Page
  /\ \E input \in Acceptable(c) : Starts(c, input)
  /\ Ends(c, "INNER_ERR")
  /\ UNCHANGED <<link, told>>

(* invokeAsync returns without a word, but for a text without a length.    *)
InvokeRefuses(c) ==
  \E input \in Input :
    /\ c \in Page
    /\ Starts(c, input)
    /\ \/ /\ input.text = "null" \/ input.hears # "callable" \/ input.text = "long"
          /\ Ends(c, "returned")
       \/ /\ input.text = "undefined" /\ input.hears = "callable"
          /\ Ends(c, "TypeError")
    /\ UNCHANGED <<link, told>>

(* A name is missing: the callback is given null inside the try, and if it *)
(* throws, the catch calls it again.  The second time an error of it goes  *)
(* to the page.                                                            *)
InvokeFindsNoName(c) ==
  /\ c \in Page
  /\ \E input \in Acceptable(c) : Starts(c, input)
  /\ \E disk \in Disk : ~HasNames(c, disk)
  /\ \/ told' = [told EXCEPT ![c] = <<NullReport>>] /\ Ends(c, "returned")
     \/ /\ told' = [told EXCEPT ![c] = <<NullReport, NullReport>>]
        /\ Ends(c, "returned") \/ Ends(c, "app")
  /\ UNCHANGED link

(* The connection is refused: the catch gives null to the callback.        *)
InvokeFails(c) ==
  /\ c \in Page
  /\ \E input \in Acceptable(c) : Starts(c, input)
  /\ told' = [told EXCEPT ![c] = <<NullReport>>]
  /\ Ends(c, "returned") \/ Ends(c, "app")
  /\ UNCHANGED link

(* connectServiceExtensionAbility takes the connection.                    *)
Connects(c) ==
  /\ \E input \in Acceptable(c) : Starts(c, input)
  /\ \E disk \in Disk : HasNames(c, disk)
  /\ Ends(c, "returned")
  /\ link' = [link EXCEPT ![c] = "opening"]
  /\ UNCHANGED told

-----------------------------------------------------------------------------
(* The connection and the answers.                                         *)

LinkMoves(c, from, to) ==
  /\ link[c] = from
  /\ link' = [link EXCEPT ![c] = to]
  /\ UNCHANGED <<control, asked, result, kitVars, told>>

(* onConnect sends the message; where that fails only a log has it, or an  *)
(* error thrown to nobody.                                                 *)
OnConnect(c) == LinkMoves(c, "opening", "sent") \/ LinkMoves(c, "opening", "unsent")

(* onFailed and onDisconnect: nobody who could be told is.                 *)
OnFailed(c) == LinkMoves(c, "opening", "failed")

OnDisconnect(c) == LinkMoves(c, "sent", "down")

(* External: the provider answers on the object it was given, as often as  *)
(* it likes and whatever became of the connection.                         *)
ProviderAnswers(c) ==
  /\ link[c] \in {"sent", "down"}
  /\ Len(replies[c]) < MaxReplies
  /\ \E reply \in Reply :
       /\ c \in Page => reply.code = CODE_SUCCESS
       /\ replies' = [replies EXCEPT ![c] = Append(@, reply)]
  /\ inbox' = inbox \cup {[call |-> c, no |-> Len(replies[c]) + 1]}
  /\ UNCHANGED <<control, asked, result, link, acks, told>>

(* Fault: every answer is taken for ads.                                   *)
Heard_AnySuccess(c, reply) == IF reply.data = "valid" THEN {"success"} ELSE {}

(* Fault: only the failures that have a text of their own are passed on.   *)
Heard_KnownCodes(c, reply) ==
  IF c \in Page \/ reply.code = CODE_SUCCESS
  THEN IF reply.data = "valid" THEN {"success"} ELSE {}
  ELSE IF reply.code \in {DEVICE_ERR, PARSE_RESPONSE_ERROR} THEN {"failure"} ELSE {}

(* What the answer calls; nothing if it cannot be read.                    *)
Heard(c, reply) ==
  IF c \in Page \/ reply.code = CODE_SUCCESS
  THEN IF reply.data = "valid" THEN {"success"} ELSE {}
  ELSE {"failure"}

(* onRemoteMessageRequest of AdsJsClientRpcObj and ParseAdResponseRpcObj.  *)
(* A listener that is undefined is passed over, what was meant for it not  *)
(* even parsed; an error of the listener's makes the answer FALSE.         *)
OnRemoteMessageRequest(m) ==
  LET c     == m.call
      reply == replies[c][m.no]
      skips == reply.right /\ asked[c].hears = "undefined"
      calls == IF reply.right /\ asked[c].hears = "callable" THEN Heard(c, reply) ELSE {}
  IN /\ inbox' = inbox \ {m}
     /\ IF calls = {} THEN UNCHANGED told
        ELSE told' = [told EXCEPT ![c] =
               Append(@, [what |-> CHOOSE what \in calls : TRUE, code |-> reply.code, no |-> m.no])]
     /\ \E throws \in BOOLEAN :
          acks' = IF skips \/ (calls # {} /\ ~throws)
                  THEN [acks EXCEPT ![c] = @ \cup {m.no}] ELSE acks
     /\ UNCHANGED <<control, asked, result, link, replies>>

-----------------------------------------------------------------------------
OneShotInit ==
  /\ control = [registered |-> FALSE, page |-> FALSE, last |-> "none"]
  /\ asked   = [c \in Call |-> Nothing]
  /\ result  = [c \in Call |-> "none"]
  /\ link    = [c \in Call |-> "none"]
  /\ replies = [c \in Call |-> <<>>]
  /\ inbox   = {}
  /\ acks    = [c \in Call |-> {}]
  /\ told    = [c \in Call |-> <<>>]

OneShotNext ==
  \/ RegisterWebAdInterface \/ DeleteWebAdInterface \/ PageLoads
  \/ \E c \in Call :
       \/ ParseRefuses(c) \/ ParseFails(c)
       \/ InvokeRefuses(c) \/ InvokeFindsNoName(c) \/ InvokeFails(c)
       \/ Connects(c)
       \/ OnConnect(c) \/ OnFailed(c) \/ OnDisconnect(c)
       \/ ProviderAnswers(c)
  \/ \E m \in inbox : OnRemoteMessageRequest(m)

OneShotSpec == OneShotInit /\ [][OneShotNext]_oneShotVars

-----------------------------------------------------------------------------
(* The page has the bridge its controller has, unless the last of          *)
(* registerWebAdInterface and deleteWebAdInterface was told not to refresh *)
(* it, or threw: then its registration may have been done all the same.    *)
PageFollowsController ==
  control.page # control.registered => control.last \in {"kept", "thrown"}

(* A call that threw, or gave its callback null, is over: no connection    *)
(* was made and no answer comes after it.  Null comes at most twice: a     *)
(* callback that throws when it is given null is given it once more.       *)
RefusedIsFinal ==
  \A c \in Call :
    result[c] \notin {"none", "returned"} \/ (\E i \in DOMAIN told[c] : told[c][i] = NullReport)
    => /\ link[c] = "none"
       /\ \A i \in DOMAIN told[c] : told[c][i] = NullReport
       /\ Len(told[c]) <= 2

(* Each answer is heard at most once, as what it says, in whatever order   *)
(* answers are taken; the provider gets TRUE only for an answer that was   *)
(* heard, or that had nobody to hear it.  FALSE does not mean that it was  *)
(* not heard: a provider that answers again then is heard again.           *)
SaysWhatItIs(c, event) ==
  LET reply == replies[c][event.no] IN
  /\ event.no \in DOMAIN replies[c] /\ reply.right
  /\ event.code = reply.code
  /\ event.what = "success" <=> (c \in Page \/ reply.code = CODE_SUCCESS)
  /\ event.what = "success" => reply.data = "valid"

AnswersHeard ==
  \A c \in Call :
    /\ \A i \in DOMAIN told[c] : told[c][i] = NullReport \/ SaysWhatItIs(c, told[c][i])
    /\ \A i, j \in DOMAIN told[c] :
         told[c][i].no = told[c][j].no /\ told[c][i].no # 0 => i = j
    /\ \A no \in acks[c] :
         asked[c].hears = "undefined" \/ \E i \in DOMAIN told[c] : told[c][i].no = no

(* A call that returned, and of which nothing more is on its way, was      *)
(* silent for one of these reasons and no other: invokeAsync did not like  *)
(* its parameters, the connection failed, the message was not sent, nobody *)
(* listens, or the provider gave no answer that can be read.               *)
Unreadable(c, reply) ==
  ~reply.right \/ (reply.data = "malformed" /\ (c \in Page \/ reply.code = CODE_SUCCESS))

SilenceHasCause ==
  \A c \in Call :
    result[c] = "returned" /\ told[c] = <<>> /\ (\A m \in inbox : m.call # c)
    => \/ c \in Page /\ (asked[c].text # "ok" \/ asked[c].hears # "callable")
       \/ link[c] \in {"opening", "failed", "unsent"}
       \/ c \notin Page /\ asked[c].hears # "callable"
       \/ /\ link[c] \in {"sent", "down"}
          /\ \A i \in DOMAIN replies[c] : Unreadable(c, replies[c][i])
=============================================================================
