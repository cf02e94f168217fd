------------------------- MODULE AdsServiceRpcProofs -------------------------
(***************************************************************************)
(* Theorems about AdsServiceRpc, for any requests, callers, messages and   *)
(* answers of the service.                                                 *)
(***************************************************************************)
EXTENDS AdsServiceRpc, TLAPS

(* How far request r is, and what it can have been given and sent by then. *)
StageInv(r) ==
  /\ pc[r] # "new" => uid[r] = UidOf[r]
  /\ pc[r] \in {"new", "awaiting"} => handed[r] = None /\ replies[r] = <<>>
  /\ handed[r] \in {None, UidOf[r]}
  /\ handed[r] = None =>
       /\ calls[r] = <<>> /\ Len(replies[r]) <= 1
       /\ pc[r] \notin {"serving", "thrown"}
       /\ pc[r] = "handled" => replies[r] # <<>>
  /\ handed[r] # None => \A i \in DOMAIN replies[r] : replies[r][i].code # CODE_INVALID_PARAMETERS
  /\ pc[r] = "thrown" => replies[r] # <<>>
  /\ Len(replies[r]) = Len(calls[r]) + OwnReplies(r)

(* What SuccessHasAds says of one reply.                                   *)
Justified(r, reply) ==
  reply.code = CODE_SUCCESS =>
    \/ \E k \in DOMAIN reply.ads : reply.ads[k] # <<>>
    \/ ~msg[r].multi /\ \E c \in DOMAIN calls[r] : \E k \in DOMAIN calls[r][c] :
         k > 1 /\ calls[r][c][1] = <<>> /\ calls[r][c][k] # <<>>

ReplyInv(r) == \A i \in DOMAIN replies[r] : Justified(r, replies[r][i])

RpcInv == \A r \in Request : StageInv(r) /\ ReplyInv(r)

-----------------------------------------------------------------------------

LEMMA Appended ==
  ASSUME NEW S, NEW s \in Seq(S), NEW e \in S
  PROVE  /\ Append(s, e) \in Seq(S)
         /\ Append(s, e) # <<>>
         /\ Len(Append(s, e)) = Len(s) + 1
         /\ DOMAIN Append(s, e) = 1 .. Len(s) + 1
         /\ \A i \in 1 .. Len(s) : Append(s, e)[i] = s[i]
         /\ Append(s, e)[Len(s) + 1] = e
OBVIOUS

(* What a reply adds to the replies to request r.                          *)
LEMMA Sent ==
  ASSUME TypeOK, NEW r \in Request, NEW code, NEW ads,
         [code |-> code, ads |-> ads] \in Reply, SendMsgReq(r, code, ads)
  PROVE  /\ replies' \in [Request -> Seq(Reply)]
         /\ replies'[r] # <<>> /\ Len(replies'[r]) = Len(replies[r]) + 1
         /\ Len(replies[r]) \in Nat
         /\ DOMAIN replies[r] = 1 .. Len(replies[r])
         /\ DOMAIN replies'[r] = 1 .. Len(replies[r]) + 1
         /\ \A i \in 1 .. Len(replies[r]) : replies'[r][i] = replies[r][i]
         /\ replies'[r][Len(replies[r]) + 1] = [code |-> code, ads |-> ads]
         /\ \A q \in Request \ {r} : replies'[q] = replies[q]
<1>1. replies \in [Request -> Seq(Reply)]
  BY DEF TypeOK
<1>2. replies[r] \in Seq(Reply)
  BY <1>1
<1>3. replies' = [replies EXCEPT ![r] = Append(replies[r], [code |-> code, ads |-> ads])]
  BY DEF SendMsgReq
<1> DEFINE e == [code |-> code, ads |-> ads]
<1>4. replies'[r] = Append(replies[r], e)
  BY <1>1, <1>3
<1>5. e \in Reply
  OBVIOUS
<1>6. \A q \in Request \ {r} : replies'[q] = replies[q]
  BY <1>1, <1>3
<1> HIDE DEF e
<1>7. Append(replies[r], e) \in Seq(Reply)
  BY <1>2, <1>5, Appended
<1>8. replies' \in [Request -> Seq(Reply)]
  BY <1>1, <1>3, <1>7 DEF e
<1>9. Len(replies[r]) \in Nat /\ DOMAIN replies[r] = 1 .. Len(replies[r])
  BY <1>2
<1>10. /\ replies'[r] # <<>> /\ Len(replies'[r]) = Len(replies[r]) + 1
       /\ DOMAIN replies'[r] = 1 .. Len(replies[r]) + 1
       /\ \A i \in 1 .. Len(replies[r]) : replies'[r][i] = replies[r][i]
       /\ replies'[r][Len(replies[r]) + 1] = e
  BY <1>2, <1>4, <1>5, Appended
<1> QED
  BY <1>6, <1>8, <1>9, <1>10 DEF e

(* bizAdsReqCallback sends one reply, an error or ads.                     *)
LEMMA Answered ==
  ASSUME TypeOK, NEW r \in Request, NEW d \in RespData, BizAdsReqCallback(r, d)
  PROVE  \E code, ads :
           /\ [code |-> code, ads |-> ads] \in Reply
           /\ SendMsgReq(r, code, ads)
           /\ code = IF HasAds(d) THEN CODE_SUCCESS ELSE CODE_LOAD_ADS_FAILURE
           /\ code # CODE_INVALID_PARAMETERS
           /\ code = CODE_SUCCESS =>
                \/ \E k \in DOMAIN ads : ads[k] # <<>>
                \/ ~msg[r].multi /\ \E k \in DOMAIN d : k > 1 /\ d[1] = <<>> /\ d[k] # <<>>
<1>1. d \in Seq(Seq(Ad))
  BY AdsServiceAssumption
<1>2. CASE HasAds(d)
  <2>1. PICK i \in DOMAIN d : d[i] # <<>>
    BY <1>2 DEF HasAds
  <2>2. 1 \in DOMAIN d /\ i \in Nat /\ i >= 1 /\ d[1] \in Seq(Ad)
    BY <1>1, <2>1
  <2>3. CASE msg[r].multi
    <3>1. [code |-> CODE_SUCCESS, ads |-> d] \in Reply
      BY <1>1 DEF Reply
    <3>2. SendMsgReq(r, CODE_SUCCESS, d)
      BY <1>2, <2>3 DEF BizAdsReqCallback
    <3> QED BY <1>2, <2>1, <3>1, <3>2 DEF CODE_SUCCESS, CODE_INVALID_PARAMETERS
  <2>4. CASE ~msg[r].multi
    <3>1. [code |-> CODE_SUCCESS, ads |-> <<d[1]>>] \in Reply
      BY <2>2 DEF Reply
    <3>2. SendMsgReq(r, CODE_SUCCESS, <<d[1]>>)
      BY <1>2, <2>4 DEF BizAdsReqCallback
    <3>3. \/ \E k \in DOMAIN <<d[1]>> : <<d[1]>>[k] # <<>>
          \/ \E k \in DOMAIN d : k > 1 /\ d[1] = <<>> /\ d[k] # <<>>
      <4>1. CASE d[1] = <<>>
        BY <2>1, <2>2, <4>1
      <4>2. CASE d[1] # <<>>
        <5>1. 1 \in DOMAIN <<d[1]>> /\ <<d[1]>>[1] = d[1]
          OBVIOUS
        <5> QED BY <4>2, <5>1
      <4> QED BY <4>1, <4>2
    <3> QED BY <1>2, <2>4, <3>1, <3>2, <3>3 DEF CODE_SUCCESS, CODE_INVALID_PARAMETERS
  <2> QED BY <2>3, <2>4
<1>3. CASE ~HasAds(d)
  <2>1. [code |-> CODE_LOAD_ADS_FAILURE, ads |-> <<>>] \in Reply
    BY DEF Reply
  <2>2. SendMsgReq(r, CODE_LOAD_ADS_FAILURE, <<>>)
    BY <1>3 DEF BizAdsReqCallback
  <2> QED BY <1>3, <2>1, <2>2 DEF CODE_SUCCESS, CODE_INVALID_PARAMETERS, CODE_LOAD_ADS_FAILURE
<1> QED
  BY <1>2, <1>3

-----------------------------------------------------------------------------

LEMMA RpcTypeStep == TypeOK /\ [Next]_vars => TypeOK'
<1> SUFFICES ASSUME TypeOK, [Next]_vars PROVE TypeOK'
  OBVIOUS
<1>g. ASSUME NEW r \in Request, NEW p \in Pc, Goto(r, p) PROVE pc' \in [Request -> Pc]
  BY <1>g DEF Goto, TypeOK
<1>1. ASSUME NEW r \in Request, NEW m \in Message, Receive(r, m) PROVE TypeOK'
  <2>1. UidOf[r] \in Uid
    BY AdsServiceAssumption
  <2>2. pc' \in [Request -> Pc]
    BY <1>1, <1>g DEF Receive, Pc
  <2> QED BY <1>1, <2>1, <2>2 DEF Receive, TypeOK
<1>2. ASSUME NEW r \in Request, NameFails(r) \/ TokenFails(r) \/ ValidateThrows(r) PROVE TypeOK'
  <2>1. pc' \in [Request -> Pc]
    BY <1>2, <1>g DEF NameFails, TokenFails, ValidateThrows, OuterCatch, Pc
  <2> QED BY <1>2, <2>1 DEF NameFails, TokenFails, ValidateThrows, OuterCatch, Resumes, TypeOK
<1>3. ASSUME NEW r \in Request, Refuse(r) PROVE TypeOK'
  <2>1. pc' \in [Request -> Pc]
    BY <1>3, <1>g DEF Refuse, Pc
  <2>2. [code |-> CODE_INVALID_PARAMETERS, ads |-> <<>>] \in Reply
    BY DEF Reply
  <2>3. replies' \in [Request -> Seq(Reply)]
    BY <1>3, <2>2, Sent DEF Refuse
  <2> QED BY <1>3, <2>1, <2>3 DEF Refuse, Resumes, TypeOK
<1>4. ASSUME NEW r \in Request, Hand(r) PROVE TypeOK'
  <2>1. pc' \in [Request -> Pc]
    BY <1>4, <1>g DEF Hand, Pc
  <2> QED BY <1>4, <2>1 DEF Hand, Resumes, TypeOK
<1>5. ASSUME NEW r \in Request, NEW d \in RespData, Respond(r, d) PROVE TypeOK'
  <2>1. replies' \in [Request -> Seq(Reply)]
    BY <1>5, Answered, Sent DEF Respond
  <2>2. calls' \in [Request -> Seq(RespData)]
    BY <1>5 DEF Respond, TypeOK
  <2> QED BY <1>5, <2>1, <2>2 DEF Respond, TypeOK
<1>6. ASSUME NEW r \in Request, Return(r) PROVE TypeOK'
  <2>1. pc' \in [Request -> Pc]
    BY <1>6, <1>g DEF Return, Pc
  <2> QED BY <1>6, <2>1 DEF Return, TypeOK
<1>7. ASSUME NEW r \in Request, NEW code \in {CODE_DEVICE_NOT_SUPPORT, CODE_INTERNAL_ERROR},
             ServiceThrows(r, code)
      PROVE  TypeOK'
  <2>1. pc' \in [Request -> Pc]
    BY <1>7, <1>g DEF ServiceThrows, Pc
  <2>2. [code |-> code, ads |-> <<>>] \in Reply
    BY DEF Reply
  <2>3. replies' \in [Request -> Seq(Reply)]
    BY <1>7, <2>2, Sent DEF ServiceThrows
  <2> QED BY <1>7, <2>1, <2>3 DEF ServiceThrows, TypeOK
<1>8. CASE UNCHANGED vars
  BY <1>8 DEF vars, TypeOK
<1> QED
  BY <1>1, <1>2, <1>3, <1>4, <1>5, <1>6, <1>7, <1>8 DEF Next

-----------------------------------------------------------------------------

(* A step of one request leaves what holds of another.                     *)
Same(q) == UNCHANGED <<pc[q], msg[q], uid[q], handed[q], calls[q], replies[q]>>

LEMMA SameKeeps ==
  ASSUME NEW q \in Request, StageInv(q) /\ ReplyInv(q), Same(q)
  PROVE  (StageInv(q) /\ ReplyInv(q))'
BY DEF Same, StageInv, ReplyInv, Justified, OwnReplies

(* No step of request r but a call of respCallback changes what its        *)
(* replies are judged by, unless there is none yet.                        *)
LEMMA NewReply ==
  ASSUME TypeOK, NEW r \in Request, ReplyInv(r), NEW code, NEW ads,
         [code |-> code, ads |-> ads] \in Reply, SendMsgReq(r, code, ads),
         code # CODE_SUCCESS, calls'[r] = calls[r], msg'[r] = msg[r]
  PROVE  ReplyInv(r)'
<1> SUFFICES ASSUME NEW i \in DOMAIN replies'[r] PROVE Justified(r, replies[r][i])'
  BY DEF ReplyInv
<1>1. CASE i \in 1 .. Len(replies[r])
  <2>1. Justified(r, replies[r][i]) /\ replies'[r][i] = replies[r][i]
    BY <1>1, Sent DEF ReplyInv
  <2> QED BY <2>1 DEF Justified
<1>2. CASE i = Len(replies[r]) + 1
  <2>1. replies'[r][i].code = code
    BY <1>2, Sent
  <2> QED BY <2>1 DEF Justified
<1>3. i \in 1 .. Len(replies[r]) \/ i = Len(replies[r]) + 1
  BY Sent
<1> QED
  BY <1>1, <1>2, <1>3

LEMMA RpcStep == TypeOK /\ RpcInv /\ [Next]_vars => RpcInv'
<1> SUFFICES ASSUME TypeOK, RpcInv, [Next]_vars PROVE RpcInv'
  OBVIOUS
<1>t. /\ pc \in [Request -> Pc] /\ uid \in [Request -> Uid \cup {None}]
      /\ handed \in [Request -> Uid \cup {None}] /\ msg \in [Request -> Message \cup {None}]
      /\ calls \in [Request -> Seq(RespData)] /\ replies \in [Request -> Seq(Reply)]
  BY DEF TypeOK
<1>n. ASSUME NEW r \in Request PROVE UidOf[r] # None
  BY AdsServiceAssumption
<1>p. ASSUME NEW r \in Request, NEW p \in Pc, Goto(r, p)
      PROVE  pc'[r] = p /\ \A q \in Request \ {r} : pc'[q] = pc[q]
  BY <1>t, <1>p DEF Goto
<1>i. ASSUME NEW r \in Request PROVE StageInv(r) /\ ReplyInv(r)
  BY DEF RpcInv
<1>o. ASSUME NEW r \in Request, \A q \in Request \ {r} : Same(q),
             StageInv(r)', ReplyInv(r)'
      PROVE  RpcInv'
  <2> SUFFICES ASSUME NEW q \in Request PROVE (StageInv(q) /\ ReplyInv(q))'
    BY DEF RpcInv
  <2>1. CASE q = r
    BY <1>o, <2>1
  <2>2. CASE q # r
    BY <1>o, <1>i, <2>2, SameKeeps
  <2> QED BY <2>1, <2>2
<1>1. ASSUME NEW r \in Request, NEW m \in Message, Receive(r, m) PROVE RpcInv'
  <2>1. /\ pc[r] = "new" /\ pc'[r] = "awaiting" /\ \A q \in Request \ {r} : pc'[q] = pc[q]
    BY <1>1, <1>p DEF Receive, Pc
  <2>2. /\ uid'[r] = UidOf[r] /\ \A q \in Request \ {r} : uid'[q] = uid[q] /\ msg'[q] = msg[q]
        /\ UNCHANGED <<handed, calls, replies>>
    BY <1>1, <1>t DEF Receive
  <2>3. StageInv(r)' /\ replies'[r] = <<>>
    BY <1>i, <2>1, <2>2 DEF StageInv, OwnReplies
  <2>4. ReplyInv(r)'
    BY <2>3 DEF ReplyInv
  <2>5. \A q \in Request \ {r} : Same(q)
    BY <2>1, <2>2 DEF Same
  <2> QED BY <1>o, <2>3, <2>4, <2>5
<1>2. ASSUME NEW r \in Request, NameFails(r) \/ TokenFails(r) \/ ValidateThrows(r) PROVE RpcInv'
  <2>1. /\ pc[r] = "awaiting" /\ pc'[r] \in {"refused", "rejected"}
        /\ \A q \in Request \ {r} : pc'[q] = pc[q]
    BY <1>2, <1>p DEF NameFails, TokenFails, ValidateThrows, OuterCatch, Resumes, Pc
  <2>2. UNCHANGED <<msg, uid, handed, calls, replies>>
    BY <1>2 DEF NameFails, TokenFails, ValidateThrows, OuterCatch, Resumes
  <2>3. StageInv(r)' /\ ReplyInv(r)'
    BY <1>i, <2>1, <2>2 DEF StageInv, ReplyInv, Justified, OwnReplies
  <2>4. \A q \in Request \ {r} : Same(q)
    BY <2>1, <2>2 DEF Same
  <2> QED BY <1>o, <2>3, <2>4
<1>3. ASSUME NEW r \in Request, Refuse(r) PROVE RpcInv'
  <2>1. /\ pc[r] = "awaiting" /\ pc'[r] = "handled" /\ \A q \in Request \ {r} : pc'[q] = pc[q]
    BY <1>3, <1>p DEF Refuse, Resumes, Pc
  <2>2. UNCHANGED <<msg, uid, handed, calls>> /\ SendMsgReq(r, CODE_INVALID_PARAMETERS, <<>>)
    BY <1>3 DEF Refuse, Resumes
  <2>3. [code |-> CODE_INVALID_PARAMETERS, ads |-> <<>>] \in Reply
    BY DEF Reply
  <2>4. /\ replies'[r] # <<>> /\ Len(replies'[r]) = Len(replies[r]) + 1
        /\ \A q \in Request \ {r} : replies'[q] = replies[q]
    BY <2>2, <2>3, Sent
  <2>5. /\ uid[r] = UidOf[r] /\ handed[r] = None /\ calls[r] = <<>> /\ Len(replies[r]) = 0
    BY <1>i, <2>1 DEF StageInv, OwnReplies
  <2>6. Len(replies'[r]) = 1 /\ Len(calls'[r]) = 0
    BY <2>2, <2>4, <2>5
  <2>7. StageInv(r)'
    BY <2>1, <2>2, <2>4, <2>5, <2>6 DEF StageInv, OwnReplies
  <2>8. ReplyInv(r)'
    BY <1>i, <2>2, <2>3, NewReply DEF CODE_SUCCESS, CODE_INVALID_PARAMETERS
  <2>9. \A q \in Request \ {r} : Same(q)
    BY <2>1, <2>2, <2>4 DEF Same
  <2> QED BY <1>o, <2>7, <2>8, <2>9
<1>4. ASSUME NEW r \in Request, Hand(r) PROVE RpcInv'
  <2>1. /\ pc[r] = "awaiting" /\ pc'[r] = "serving" /\ \A q \in Request \ {r} : pc'[q] = pc[q]
    BY <1>4, <1>p DEF Hand, Resumes, Pc
  <2>2. /\ UNCHANGED <<msg, uid, calls, replies>> /\ handed'[r] = uid[r]
        /\ \A q \in Request \ {r} : handed'[q] = handed[q]
    BY <1>4, <1>t DEF Hand, Resumes
  <2>3. /\ uid[r] = UidOf[r] /\ replies[r] = <<>> /\ Len(replies[r]) = Len(calls[r])
    BY <1>i, <1>t, <2>1 DEF StageInv, OwnReplies
  <2>4. StageInv(r)'
    BY <1>n, <2>1, <2>2, <2>3 DEF StageInv, OwnReplies
  <2>5. ReplyInv(r)'
    BY <2>2, <2>3 DEF ReplyInv
  <2>6. \A q \in Request \ {r} : Same(q)
    BY <2>1, <2>2 DEF Same
  <2> QED BY <1>o, <2>4, <2>5, <2>6
<1>5. ASSUME NEW r \in Request, NEW d \in RespData, Respond(r, d) PROVE RpcInv'
  <2>1. /\ handed[r] # None /\ BizAdsReqCallback(r, d) /\ UNCHANGED <<pc, msg, uid, handed>>
        /\ calls' = [calls EXCEPT ![r] = Append(@, d)]
    BY <1>5 DEF Respond
  <2>2. /\ calls[r] \in Seq(RespData) /\ calls'[r] = Append(calls[r], d)
        /\ \A q \in Request \ {r} : calls'[q] = calls[q]
    BY <1>t, <2>1
  <2>3. /\ Len(calls'[r]) = Len(calls[r]) + 1 /\ Len(calls[r]) \in Nat
        /\ DOMAIN calls[r] = 1 .. Len(calls[r]) /\ DOMAIN calls'[r] = 1 .. Len(calls[r]) + 1
        /\ \A c \in 1 .. Len(calls[r]) : calls'[r][c] = calls[r][c]
        /\ calls'[r][Len(calls[r]) + 1] = d
    BY <2>2, Appended
  <2>4. PICK code, ads :
           /\ [code |-> code, ads |-> ads] \in Reply
           /\ SendMsgReq(r, code, ads)
           /\ code = IF HasAds(d) THEN CODE_SUCCESS ELSE CODE_LOAD_ADS_FAILURE
           /\ code # CODE_INVALID_PARAMETERS
           /\ code = CODE_SUCCESS =>
                \/ \E k \in DOMAIN ads : ads[k] # <<>>
                \/ ~msg[r].multi /\ \E k \in DOMAIN d : k > 1 /\ d[1] = <<>> /\ d[k] # <<>>
    BY <2>1, Answered
  <2>5. /\ replies'[r] # <<>> /\ Len(replies'[r]) = Len(replies[r]) + 1 /\ Len(replies[r]) \in Nat
        /\ DOMAIN replies[r] = 1 .. Len(replies[r]) /\ DOMAIN replies'[r] = 1 .. Len(replies[r]) + 1
        /\ \A i \in 1 .. Len(replies[r]) : replies'[r][i] = replies[r][i]
        /\ replies'[r][Len(replies[r]) + 1] = [code |-> code, ads |-> ads]
        /\ \A q \in Request \ {r} : replies'[q] = replies[q]
    BY <2>4, Sent
  <2>6. StageInv(r)'
    <3>1. /\ handed'[r] # None /\ handed'[r] \in {None, UidOf[r]}
          /\ pc'[r] # "new" => uid'[r] = UidOf[r]
          /\ pc'[r] \notin {"new", "awaiting"}
      BY <1>i, <2>1 DEF StageInv
    <3>2. \A i \in DOMAIN replies'[r] : replies'[r][i].code # CODE_INVALID_PARAMETERS
      <4> SUFFICES ASSUME NEW i \in DOMAIN replies'[r]
                   PROVE  replies'[r][i].code # CODE_INVALID_PARAMETERS
        OBVIOUS
      <4>1. CASE i \in 1 .. Len(replies[r])
        BY <1>i, <2>1, <2>5, <4>1 DEF StageInv
      <4>2. CASE i = Len(replies[r]) + 1
        BY <2>4, <2>5, <4>2
      <4> QED BY <2>5, <4>1, <4>2
    <3>3. Len(replies'[r]) = Len(calls'[r]) + OwnReplies(r)'
      <4>1. OwnReplies(r)' = OwnReplies(r) /\ OwnReplies(r) \in Nat
        BY <2>1 DEF OwnReplies
      <4>2. Len(replies[r]) = Len(calls[r]) + OwnReplies(r)
        BY <1>i DEF StageInv
      <4> QED BY <2>3, <2>5, <4>1, <4>2
    <3> QED BY <2>5, <3>1, <3>2, <3>3 DEF StageInv
  <2>7. ReplyInv(r)'
    <3> SUFFICES ASSUME NEW i \in DOMAIN replies'[r] PROVE Justified(r, replies[r][i])'
      BY DEF ReplyInv
    <3>1. CASE i \in 1 .. Len(replies[r])
      <4>1. Justified(r, replies[r][i]) /\ replies'[r][i] = replies[r][i]
        BY <1>i, <2>5, <3>1 DEF ReplyInv
      <4>2. \A c \in DOMAIN calls[r] : c \in DOMAIN calls'[r] /\ calls'[r][c] = calls[r][c]
        BY <2>3
      <4>3. msg'[r] = msg[r]
        BY <2>1
      <4> QED BY <4>1, <4>2, <4>3 DEF Justified
    <3>2. CASE i = Len(replies[r]) + 1
      <4>1. replies'[r][i].code = code /\ replies'[r][i].ads = ads
        BY <2>5, <3>2
      <4>2. Len(calls[r]) + 1 \in DOMAIN calls'[r] /\ calls'[r][Len(calls[r]) + 1] = d
        BY <2>3
      <4>3. msg'[r] = msg[r]
        BY <2>1
      <4> QED BY <2>4, <4>1, <4>2, <4>3 DEF Justified
    <3> QED BY <2>5, <3>1, <3>2
  <2>8. \A q \in Request \ {r} : Same(q)
    BY <2>1, <2>2, <2>5 DEF Same
  <2> QED BY <1>o, <2>6, <2>7, <2>8
<1>6. ASSUME NEW r \in Request, Return(r) PROVE RpcInv'
  <2>1. /\ pc[r] = "serving" /\ pc'[r] = "handled" /\ \A q \in Request \ {r} : pc'[q] = pc[q]
    BY <1>6, <1>p DEF Return, Pc
  <2>2. UNCHANGED <<msg, uid, handed, calls, replies>>
    BY <1>6 DEF Return
  <2>3. StageInv(r)' /\ ReplyInv(r)'
    BY <1>i, <2>1, <2>2 DEF StageInv, ReplyInv, Justified, OwnReplies
  <2>4. \A q \in Request \ {r} : Same(q)
    BY <2>1, <2>2 DEF Same
  <2> QED BY <1>o, <2>3, <2>4
<1>7. ASSUME NEW r \in Request, NEW code \in {CODE_DEVICE_NOT_SUPPORT, CODE_INTERNAL_ERROR},
             ServiceThrows(r, code)
      PROVE  RpcInv'
  <2>1. /\ pc[r] = "serving" /\ pc'[r] = "thrown" /\ \A q \in Request \ {r} : pc'[q] = pc[q]
    BY <1>7, <1>p DEF ServiceThrows, Pc
  <2>2. UNCHANGED <<msg, uid, handed, calls>> /\ SendMsgReq(r, code, <<>>)
    BY <1>7 DEF ServiceThrows
  <2>3. [code |-> code, ads |-> <<>>] \in Reply
    BY DEF Reply
  <2>4. code # CODE_SUCCESS /\ code # CODE_INVALID_PARAMETERS
    BY DEF CODE_SUCCESS, CODE_INVALID_PARAMETERS, CODE_DEVICE_NOT_SUPPORT, CODE_INTERNAL_ERROR
  <2>5. /\ replies'[r] # <<>> /\ Len(replies'[r]) = Len(replies[r]) + 1 /\ Len(replies[r]) \in Nat
        /\ DOMAIN replies[r] = 1 .. Len(replies[r]) /\ DOMAIN replies'[r] = 1 .. Len(replies[r]) + 1
        /\ \A i \in 1 .. Len(replies[r]) : replies'[r][i] = replies[r][i]
        /\ replies'[r][Len(replies[r]) + 1] = [code |-> code, ads |-> <<>>]
        /\ \A q \in Request \ {r} : replies'[q] = replies[q]
    BY <2>2, <2>3, Sent
  <2>6. StageInv(r)'
    <3>1. /\ handed'[r] # None /\ handed'[r] \in {None, UidOf[r]}
          /\ uid'[r] = UidOf[r]
      BY <1>i, <2>1, <2>2 DEF StageInv
    <3>2. \A i \in DOMAIN replies'[r] : replies'[r][i].code # CODE_INVALID_PARAMETERS
      <4> SUFFICES ASSUME NEW i \in DOMAIN replies'[r]
                   PROVE  replies'[r][i].code # CODE_INVALID_PARAMETERS
        OBVIOUS
      <4>1. CASE i \in 1 .. Len(replies[r])
        BY <1>i, <2>2, <2>5, <3>1, <4>1 DEF StageInv
      <4>2. CASE i = Len(replies[r]) + 1
        BY <2>4, <2>5, <4>2
      <4> QED BY <2>5, <4>1, <4>2
    <3>3. Len(replies'[r]) = Len(calls'[r]) + OwnReplies(r)'
      <4>1. Len(calls[r]) \in Nat /\ Len(replies[r]) = Len(calls[r])
        BY <1>t, <1>i, <2>1 DEF StageInv, OwnReplies
      <4> QED BY <2>1, <2>2, <2>5, <4>1 DEF OwnReplies
    <3> QED BY <2>1, <2>5, <3>1, <3>2, <3>3 DEF StageInv
  <2>7. ReplyInv(r)'
    BY <1>i, <2>2, <2>3, <2>4, NewReply
  <2>8. \A q \in Request \ {r} : Same(q)
    BY <2>1, <2>2, <2>5 DEF Same
  <2> QED BY <1>o, <2>6, <2>7, <2>8
<1>8. CASE UNCHANGED vars
  <2>1. \A q \in Request : Same(q)
    BY <1>8 DEF vars, Same
  <2> QED BY <1>i, <2>1, SameKeeps DEF RpcInv
<1> QED
  BY <1>1, <1>2, <1>3, <1>4, <1>5, <1>6, <1>7, <1>8 DEF Next

-----------------------------------------------------------------------------

(* Types are kept, and each request has been given and sent only what its  *)
(* handler's place in onRemoteMessageRequest accounts for.                 *)
THEOREM RpcInvariant == Spec => [](TypeOK /\ RpcInv)
<1>1. Init => TypeOK /\ RpcInv
  BY DEF Init, TypeOK, RpcInv, StageInv, ReplyInv, Pc, OwnReplies
<1>2. TypeOK /\ RpcInv /\ [Next]_vars => (TypeOK /\ RpcInv)'
  BY RpcTypeStep, RpcStep
<1> QED
  BY <1>1, <1>2, PTL DEF Spec

(* The service is given the name of the caller whose request it is, though *)
(* messages of others arrive while the handler awaits that name.           *)
THEOREM OwnPackageCorrect == Spec => []OwnPackage
<1>1. RpcInv => OwnPackage
  BY DEF RpcInv, StageInv, OwnPackage
<1> QED
  BY <1>1, RpcInvariant, PTL

(* A refused request has one reply and never reaches the service; another  *)
(* gets a reply for each call of respCallback and for an exception.        *)
THEOREM RefusedOrAnsweredCorrect == Spec => []RefusedOrAnswered
<1>1. TypeOK /\ RpcInv => RefusedOrAnswered
  <2> SUFFICES ASSUME TypeOK, RpcInv, NEW r \in Request, CODE_INVALID_PARAMETERS \in Codes(r)
               PROVE  Len(replies[r]) = 1 /\ handed[r] = None
    BY DEF RefusedOrAnswered, RpcInv, StageInv
  <2>1. StageInv(r) /\ replies[r] \in Seq(Reply)
    BY DEF RpcInv, TypeOK
  <2>2. PICK i \in DOMAIN replies[r] : replies[r][i].code = CODE_INVALID_PARAMETERS
    BY DEF Codes
  <2>3. handed[r] = None /\ Len(replies[r]) <= 1
    BY <2>1, <2>2 DEF StageInv
  <2>4. Len(replies[r]) # 0 /\ Len(replies[r]) \in Nat
    BY <2>1, <2>2
  <2>5. \A n \in Nat : n # 0 /\ n <= 1 => n = 1
    OBVIOUS
  <2> QED BY <2>3, <2>4, <2>5
<1> QED
  BY <1>1, RpcInvariant, PTL

(* Success has ads, unless they are in lists after an empty first one of   *)
(* an answer to a single slot.                                             *)
THEOREM SuccessHasAdsCorrect == Spec => []SuccessHasAds
<1>1. RpcInv => SuccessHasAds
  BY DEF RpcInv, ReplyInv, Justified, SuccessHasAds
<1> QED
  BY <1>1, RpcInvariant, PTL

-----------------------------------------------------------------------------
(* Each reply has its cause.                                               *)

(* What the handler or the service did that a reply to request r says.     *)
ReplyCause(r, reply) ==
  \/ /\ reply.code = CODE_INVALID_PARAMETERS
     /\ pc[r] = "handled" /\ handed[r] = None /\ ~Valid(msg[r])
  \/ reply.code = CODE_SUCCESS           /\ \E c \in DOMAIN calls[r] : HasAds(calls[r][c])
  \/ reply.code = CODE_LOAD_ADS_FAILURE  /\ \E c \in DOMAIN calls[r] : ~HasAds(calls[r][c])
  \/ reply.code \in {CODE_DEVICE_NOT_SUPPORT, CODE_INTERNAL_ERROR} /\ pc[r] = "thrown"

RepliesHaveCause == \A r \in Request : \A i \in DOMAIN replies[r] : ReplyCause(r, replies[r][i])

(* A cause stays: a call is never taken back, a handler's end is its last. *)
LEMMA ReplyCauseStays ==
  ASSUME TypeOK, RpcInv, [Next]_vars, NEW q \in Request, replies[q] # <<>>,
         NEW reply, ReplyCause(q, reply)
  PROVE  ReplyCause(q, reply)'
<1>t. /\ pc \in [Request -> Pc] /\ handed \in [Request -> Uid \cup {None}]
      /\ msg \in [Request -> Message \cup {None}] /\ calls \in [Request -> Seq(RespData)]
  BY DEF TypeOK
<1>i. StageInv(q) /\ pc[q] \notin {"new", "awaiting"}
  BY DEF RpcInv, StageInv
<1>1. ASSUME NEW r \in Request, NEW m \in Message, Receive(r, m)
      PROVE  UNCHANGED <<pc[q], handed[q], msg[q], calls[q]>>
  BY <1>1, <1>t, <1>i DEF Receive, Goto
<1>2. ASSUME NEW r \in Request,
             NameFails(r) \/ TokenFails(r) \/ ValidateThrows(r) \/ Refuse(r) \/ Hand(r)
      PROVE  UNCHANGED <<pc[q], handed[q], msg[q], calls[q]>>
  BY <1>2, <1>t, <1>i DEF NameFails, TokenFails, ValidateThrows, Refuse, Hand, OuterCatch,
                          Resumes, Goto
<1>3. ASSUME UNCHANGED <<pc[q], handed[q], msg[q], calls[q]>> PROVE ReplyCause(q, reply)'
  BY <1>3 DEF ReplyCause
<1>4. ASSUME NEW r \in Request, NEW d \in RespData, Respond(r, d) PROVE ReplyCause(q, reply)'
  <2>1. UNCHANGED <<pc, msg, handed>> /\ calls' = [calls EXCEPT ![r] = Append(calls[r], d)]
    BY <1>4 DEF Respond
  <2>2. \A c \in DOMAIN calls[q] : c \in DOMAIN calls'[q] /\ calls'[q][c] = calls[q][c]
    <3>1. CASE q = r
      <4>1. calls[q] \in Seq(RespData) /\ calls'[q] = Append(calls[q], d)
        BY <1>t, <2>1, <3>1
      <4> QED BY <4>1, Appended
    <3>2. CASE q # r
      BY <1>t, <2>1, <3>2
    <3> QED BY <3>1, <3>2
  <2> QED BY <2>1, <2>2 DEF ReplyCause
<1>5. ASSUME NEW r \in Request, Return(r) PROVE ReplyCause(q, reply)'
  <2>1. pc[r] = "serving" /\ handed[r] # None /\ UNCHANGED <<msg, handed, calls>>
    BY <1>5 DEF Return, RpcInv, StageInv
  <2>2. pc' = [pc EXCEPT ![r] = "handled"]
    BY <1>5 DEF Return, Goto
  <2>3. pc[q] \in {"handled", "thrown"} => pc'[q] = pc[q]
    BY <1>t, <2>1, <2>2
  <2> QED BY <2>1, <2>3 DEF ReplyCause
<1>6. ASSUME NEW r \in Request, NEW code \in {CODE_DEVICE_NOT_SUPPORT, CODE_INTERNAL_ERROR},
             ServiceThrows(r, code)
      PROVE  ReplyCause(q, reply)'
  <2>1. pc[r] = "serving" /\ UNCHANGED <<msg, handed, calls>>
    BY <1>6 DEF ServiceThrows
  <2>2. pc' = [pc EXCEPT ![r] = "thrown"]
    BY <1>6 DEF ServiceThrows, Goto
  <2>3. pc[q] \in {"handled", "thrown"} => pc'[q] = pc[q]
    BY <1>t, <2>1, <2>2
  <2> QED BY <2>1, <2>3 DEF ReplyCause
<1>7. CASE UNCHANGED vars
  BY <1>3, <1>7 DEF vars
<1> QED
  BY <1>1, <1>2, <1>3, <1>4, <1>5, <1>6, <1>7 DEF Next

(* A step sends at most one reply, whose cause is there at the same moment. *)
LEMMA NewReplyCause ==
  ASSUME TypeOK, RpcInv, [Next]_vars, NEW q \in Request, replies'[q] # replies[q]
  PROVE  \E code, ads :
           /\ [code |-> code, ads |-> ads] \in Reply
           /\ SendMsgReq(q, code, ads)
           /\ ReplyCause(q, [code |-> code, ads |-> ads])'
<1> DEFINE Goal == \E code, ads :
                     /\ [code |-> code, ads |-> ads] \in Reply
                     /\ SendMsgReq(q, code, ads)
                     /\ ReplyCause(q, [code |-> code, ads |-> ads])'
<1>t. /\ pc \in [Request -> Pc] /\ calls \in [Request -> Seq(RespData)]
      /\ replies \in [Request -> Seq(Reply)]
  BY DEF TypeOK
<1>o. ASSUME NEW r \in Request, NEW code, NEW ads, [code |-> code, ads |-> ads] \in Reply,
             SendMsgReq(r, code, ads)
      PROVE  r = q
  BY <1>o, Sent
<1>1. ASSUME NEW r \in Request, Refuse(r) PROVE Goal
  <2>1. SendMsgReq(r, CODE_INVALID_PARAMETERS, <<>>)
    BY <1>1 DEF Refuse
  <2>2. [code |-> CODE_INVALID_PARAMETERS, ads |-> <<>>] \in Reply
    BY DEF Reply
  <2>3. r = q
    BY <1>o, <2>1, <2>2
  <2>4. handed'[q] = handed[q] /\ msg'[q] = msg[q] /\ ~Valid(msg[q]) /\ pc[q] = "awaiting"
    BY <1>1, <2>3 DEF Refuse, Resumes
  <2>5. pc'[q] = "handled" /\ handed[q] = None
    BY <1>1, <1>t, <2>3, <2>4 DEF Refuse, Goto, RpcInv, StageInv
  <2>6. ReplyCause(q, [code |-> CODE_INVALID_PARAMETERS, ads |-> <<>>])'
    BY <2>4, <2>5 DEF ReplyCause
  <2> QED BY <2>1, <2>2, <2>3, <2>6
<1>2. ASSUME NEW r \in Request, NEW d \in RespData, Respond(r, d) PROVE Goal
  <2>1. BizAdsReqCallback(r, d) /\ calls' = [calls EXCEPT ![r] = Append(calls[r], d)]
    BY <1>2 DEF Respond
  <2>2. PICK code, ads :
           /\ [code |-> code, ads |-> ads] \in Reply
           /\ SendMsgReq(r, code, ads)
           /\ code = IF HasAds(d) THEN CODE_SUCCESS ELSE CODE_LOAD_ADS_FAILURE
    BY <2>1, Answered
  <2>3. r = q
    BY <1>o, <2>2
  <2>4. calls[q] \in Seq(RespData) /\ calls'[q] = Append(calls[q], d)
    BY <1>t, <2>1, <2>3
  <2>5. Len(calls[q]) + 1 \in DOMAIN calls'[q] /\ calls'[q][Len(calls[q]) + 1] = d
    BY <2>4, Appended
  <2>6. ReplyCause(q, [code |-> code, ads |-> ads])'
    BY <2>2, <2>5 DEF ReplyCause
  <2> QED BY <2>2, <2>3, <2>6
<1>3. ASSUME NEW r \in Request, NEW code \in {CODE_DEVICE_NOT_SUPPORT, CODE_INTERNAL_ERROR},
             ServiceThrows(r, code)
      PROVE  Goal
  <2>1. SendMsgReq(r, code, <<>>)
    BY <1>3 DEF ServiceThrows
  <2>2. [code |-> code, ads |-> <<>>] \in Reply
    BY DEF Reply
  <2>3. r = q
    BY <1>o, <2>1, <2>2
  <2>4. pc'[q] = "thrown"
    BY <1>3, <1>t, <2>3 DEF ServiceThrows, Goto
  <2>5. ReplyCause(q, [code |-> code, ads |-> <<>>])'
    BY <2>4 DEF ReplyCause
  <2> QED BY <2>1, <2>2, <2>3, <2>5
<1>4. ASSUME NEW r \in Request,
             \/ \E m \in Message : Receive(r, m)
             \/ NameFails(r) \/ TokenFails(r) \/ ValidateThrows(r) \/ Hand(r) \/ Return(r)
      PROVE  UNCHANGED replies
  BY <1>4 DEF Receive, NameFails, TokenFails, ValidateThrows, OuterCatch, Hand, Return
<1>5. Goal
  <2> HIDE DEF Goal
  <2> QED BY <1>1, <1>2, <1>3, <1>4 DEF Next, vars
<1> QED
  BY <1>5

(* Whatever the handler sends follows from what it found or from what the  *)
(* service did for that request: 401 only for parameters that are refused, *)
(* 200 and 100003 only after the service called back, with and without     *)
(* ads, 801 and 100001 only if its function threw.                         *)
THEOREM RepliesHaveCauseCorrect == Spec => []RepliesHaveCause
<1>1. Init => RepliesHaveCause
  BY DEF Init, RepliesHaveCause
<1>2. TypeOK /\ RpcInv /\ RepliesHaveCause /\ [Next]_vars => RepliesHaveCause'
  <2> SUFFICES ASSUME TypeOK, RpcInv, RepliesHaveCause, [Next]_vars,
                      NEW q \in Request, NEW i \in DOMAIN replies'[q]
               PROVE  ReplyCause(q, replies[q][i])'
    BY DEF RepliesHaveCause
  <2>1. ASSUME i \in DOMAIN replies[q], replies'[q][i] = replies[q][i]
        PROVE  ReplyCause(q, replies[q][i])'
    <3>1. replies[q] # <<>> /\ ReplyCause(q, replies[q][i])
      BY <2>1 DEF RepliesHaveCause
    <3>2. PICK reply : reply = replies[q][i]
      OBVIOUS
    <3>3. ReplyCause(q, reply)'
      BY <3>1, <3>2, ReplyCauseStays
    <3> QED BY <2>1, <3>2, <3>3 DEF ReplyCause
  <2>2. CASE replies'[q] = replies[q]
    BY <2>1, <2>2
  <2>3. CASE replies'[q] # replies[q]
    <3>1. PICK code, ads :
             /\ [code |-> code, ads |-> ads] \in Reply
             /\ SendMsgReq(q, code, ads)
             /\ ReplyCause(q, [code |-> code, ads |-> ads])'
      BY <2>3, NewReplyCause
    <3>2. /\ DOMAIN replies[q] = 1 .. Len(replies[q])
          /\ DOMAIN replies'[q] = 1 .. Len(replies[q]) + 1
          /\ Len(replies[q]) \in Nat
          /\ \A k \in 1 .. Len(replies[q]) : replies'[q][k] = replies[q][k]
          /\ replies'[q][Len(replies[q]) + 1] = [code |-> code, ads |-> ads]
      BY <3>1, Sent
    <3>3. CASE i \in DOMAIN replies[q]
      BY <2>1, <3>2, <3>3
    <3>4. CASE i = Len(replies[q]) + 1
      BY <3>1, <3>2, <3>4 DEF ReplyCause
    <3> QED BY <3>2, <3>3, <3>4
  <2> QED BY <2>2, <2>3
<1> QED
  BY <1>1, <1>2, RpcInvariant, PTL DEF Spec

-----------------------------------------------------------------------------
(* The provider the pipeline assumes where it promises one verdict.        *)

CallsBounded == \A r \in Request : Len(calls[r]) <= MaxAnswers

LEMMA CallsStep == TypeOK /\ CallsBounded /\ [Next]_vars => CallsBounded'
<1> SUFFICES ASSUME TypeOK, CallsBounded, [Next]_vars PROVE CallsBounded'
  OBVIOUS
<1>1. ASSUME NEW r \in Request, NEW d \in RespData, Respond(r, d) PROVE CallsBounded'
  <2>1. calls' = [calls EXCEPT ![r] = Append(calls[r], d)] /\ Len(calls[r]) < MaxAnswers
    BY <1>1 DEF Respond
  <2>2. /\ calls \in [Request -> Seq(RespData)] /\ Len(calls[r]) \in Nat
        /\ Len(Append(calls[r], d)) = Len(calls[r]) + 1
    BY DEF TypeOK
  <2>3. Len(calls'[r]) <= MaxAnswers
    BY <2>1, <2>2, AdsServiceAssumption
  <2> QED BY <2>1, <2>2, <2>3 DEF CallsBounded
<1>2. CASE calls' = calls
  BY <1>2 DEF CallsBounded
<1>3. calls' = calls \/ \E r \in Request, d \in RespData : Respond(r, d)
  BY DEF Next, Receive, NameFails, TokenFails, ValidateThrows, Refuse, Hand, Return,
         ServiceThrows, Resumes, vars
<1> QED
  BY <1>1, <1>2, <1>3

(* One reply to each request, unless the service calls back and throws.    *)
OneReply ==
  \A r \in Request : Len(replies[r]) <= 1 \/ (pc[r] = "thrown" /\ Len(replies[r]) = 2)

(* A service that calls respCallback at most once for each request makes   *)
(* the provider that OneVerdict of AdLoadPipeline assumes (MaxReplies is   *)
(* 1), but for one that throws after its call, or calls after it threw.    *)
THEOREM OneReplyCorrect == ASSUME MaxAnswers <= 1 PROVE Spec => []OneReply
<1>1. Init => CallsBounded
  <2> SUFFICES ASSUME Init, NEW r \in Request PROVE Len(calls[r]) <= MaxAnswers
    BY DEF CallsBounded
  <2>1. calls[r] = <<>>
    BY DEF Init
  <2>2. Len(calls[r]) = 0
    BY <2>1
  <2>3. MaxAnswers \in Nat
    BY AdsServiceAssumption
  <2> QED BY <2>2, <2>3
<1>2. TypeOK /\ RpcInv /\ CallsBounded => OneReply
  <2> SUFFICES ASSUME TypeOK, RpcInv, CallsBounded, NEW r \in Request
               PROVE  Len(replies[r]) <= 1 \/ (pc[r] = "thrown" /\ Len(replies[r]) = 2)
    BY DEF OneReply
  <2>1. /\ StageInv(r) /\ Len(calls[r]) <= 1
        /\ calls[r] \in Seq(RespData) /\ Len(calls[r]) \in Nat
    BY AdsServiceAssumption DEF RpcInv, TypeOK, CallsBounded
  <2>2. Len(replies[r]) = Len(calls[r]) + OwnReplies(r)
    BY <2>1 DEF StageInv
  <2>3. CASE pc[r] = "thrown"
    <3>1. Len(replies[r]) = Len(calls[r]) + 1
      BY <2>2, <2>3 DEF OwnReplies
    <3> QED BY <2>1, <2>3, <3>1
  <2>4. CASE pc[r] # "thrown" /\ handed[r] = None
    BY <2>1, <2>4 DEF StageInv
  <2>5. CASE pc[r] # "thrown" /\ handed[r] # None
    <3>1. Len(replies[r]) = Len(calls[r]) + 0
      BY <2>2, <2>5 DEF OwnReplies
    <3> QED BY <2>1, <3>1
  <2> QED BY <2>3, <2>4, <2>5
<1> QED
  BY <1>1, <1>2, CallsStep, RpcInvariant, PTL DEF Spec
=============================================================================
