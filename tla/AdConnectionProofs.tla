-------------------------- MODULE AdConnectionProofs --------------------------
(***************************************************************************)
(* Theorems about AdConnection and AdComponentUi, for any components, ads, *)
(* answers and any bounds on connections and events.                       *)
(***************************************************************************)
EXTENDS AdComponentUi, TLAPS

Fate    == {"pending", "answered", "lost"}
Pending(kind) == [kind |-> kind, fate |-> "pending"]

-----------------------------------------------------------------------------
(* Queues.                                                                 *)

LEMMA InAppend ==
  ASSUME NEW q \in Seq(Nat), NEW n \in Nat, NEW no \in Nat
  PROVE  In(Append(q, n), no) <=> In(q, no) \/ no = n
<1>1. DOMAIN Append(q, n) = 1 .. Len(q) + 1 /\ DOMAIN q = 1 .. Len(q) /\ Len(q) \in Nat
  OBVIOUS
<1>2. Append(q, n)[Len(q) + 1] = n /\ \A k \in 1 .. Len(q) : Append(q, n)[k] = q[k]
  OBVIOUS
<1> QED
  BY <1>1, <1>2 DEF In

LEMMA InTail ==
  ASSUME NEW q \in Seq(Nat), q # <<>>, NEW no \in Nat
  PROVE  In(q, no) <=> In(Tail(q), no) \/ no = Head(q)
<1>1. /\ Len(q) \in Nat \ {0} /\ DOMAIN q = 1 .. Len(q)
      /\ DOMAIN Tail(q) = 1 .. Len(q) - 1 /\ Head(q) = q[1]
  OBVIOUS
<1>2. \A k \in 1 .. Len(q) - 1 : Tail(q)[k] = q[k + 1]
  OBVIOUS
<1>3. ASSUME NEW k \in DOMAIN q, k # 1 PROVE k - 1 \in DOMAIN Tail(q) /\ Tail(q)[k - 1] = q[k]
  BY <1>1, <1>2, <1>3
<1>4. ASSUME In(q, no), no # Head(q) PROVE In(Tail(q), no)
  <2>1. PICK k \in DOMAIN q : q[k] = no
    BY <1>4 DEF In
  <2>2. k - 1 \in DOMAIN Tail(q) /\ Tail(q)[k - 1] = no
    BY <1>1, <1>3, <1>4, <2>1
  <2> QED BY <2>2 DEF In
<1>5. ASSUME In(Tail(q), no) PROVE In(q, no)
  <2>1. PICK k \in DOMAIN Tail(q) : Tail(q)[k] = no
    BY <1>5 DEF In
  <2>2. k + 1 \in DOMAIN q /\ q[k + 1] = no
    BY <1>1, <1>2, <2>1
  <2> QED BY <2>2 DEF In
<1>6. In(q, Head(q))
  BY <1>1 DEF In
<1> QED
  BY <1>4, <1>5, <1>6

Distinct(q) == \A j, k \in DOMAIN q : q[j] = q[k] => j = k

LEMMA DistinctAppend ==
  ASSUME NEW q \in Seq(Nat), NEW n \in Nat, Distinct(q), ~In(q, n)
  PROVE  Distinct(Append(q, n))
<1>1. DOMAIN Append(q, n) = 1 .. Len(q) + 1 /\ DOMAIN q = 1 .. Len(q) /\ Len(q) \in Nat
  OBVIOUS
<1>2. Append(q, n)[Len(q) + 1] = n /\ \A k \in 1 .. Len(q) : Append(q, n)[k] = q[k]
  OBVIOUS
<1> QED
  BY <1>1, <1>2 DEF In, Distinct

LEMMA DistinctTail ==
  ASSUME NEW q \in Seq(Nat), q # <<>>, Distinct(q)
  PROVE  Distinct(Tail(q)) /\ ~In(Tail(q), Head(q)) /\ In(q, Head(q))
<1>1. /\ Len(q) \in Nat \ {0} /\ DOMAIN q = 1 .. Len(q)
      /\ DOMAIN Tail(q) = 1 .. Len(q) - 1 /\ Head(q) = q[1]
  OBVIOUS
<1>2. \A k \in 1 .. Len(q) - 1 : Tail(q)[k] = q[k + 1]
  OBVIOUS
<1>3. \A j, k \in 1 .. Len(q) - 1 : q[j + 1] = q[k + 1] => j = k
  BY <1>1 DEF Distinct
<1>4. \A k \in 1 .. Len(q) - 1 : q[k + 1] # q[1]
  BY <1>1 DEF Distinct
<1> QED
  BY <1>1, <1>2, <1>3, <1>4 DEF In, Distinct

-----------------------------------------------------------------------------
(* Accounted, for one component: its events, queue and calls under way.    *)

(* What Accounted says, with the positions in the queue left out.          *)
Kept(all, queue, sent) ==
  /\ \A no \in DOMAIN all :
       /\ (all[no].fate = "pending") <=> (In(queue, no) \/ OnItsWay(sent, no))
       /\ ~(In(queue, no) /\ OnItsWay(sent, no))
  /\ \A no \in Nat : In(queue, no) \/ OnItsWay(sent, no) => no \in DOMAIN all
  /\ Distinct(queue)
  /\ \A f, g \in sent : f.no = g.no => f = g

LEMMA AccountedIsKept ==
  ASSUME NEW all \in Seq(AdEvent), NEW queue \in Seq(Nat), NEW sent \in SUBSET Flight
  PROVE  Accounted(all, queue, sent) <=> Kept(all, queue, sent)
<1>1. \A k \in DOMAIN queue : queue[k] \in Nat
  OBVIOUS
<1>2. \A f \in sent : f.no \in Nat
  BY DEF Flight
<1>3. (\A k \in DOMAIN queue : queue[k] \in DOMAIN all)
      <=> \A no \in Nat : In(queue, no) => no \in DOMAIN all
  BY <1>1 DEF In
<1>4. (\A f \in sent : f.no \in DOMAIN all)
      <=> \A no \in Nat : OnItsWay(sent, no) => no \in DOMAIN all
  BY <1>2 DEF OnItsWay
<1> QED
  BY <1>3, <1>4 DEF Accounted, Kept, Distinct

LEMMA AppendEvent ==
  ASSUME NEW all \in Seq(AdEvent), NEW kind \in {"init", "close", "use"}
  PROVE  /\ Append(all, Pending(kind)) \in Seq(AdEvent)
         /\ DOMAIN Append(all, Pending(kind)) = DOMAIN all \cup {Len(all) + 1}
         /\ Len(all) + 1 \in Nat \ DOMAIN all
         /\ Append(all, Pending(kind))[Len(all) + 1] = Pending(kind)
         /\ \A no \in DOMAIN all : Append(all, Pending(kind))[no] = all[no]
<1>1. Pending(kind) \in AdEvent
  BY DEF Pending, AdEvent
<1> QED
  BY <1>1

LEMMA OnItsWayAlso ==
  ASSUME NEW sent, NEW new, NEW then, NEW no
  PROVE  OnItsWay(sent \cup {[no |-> new, then |-> then]}, no) <=> OnItsWay(sent, no) \/ no = new
<1> DEFINE f == [no |-> new, then |-> then]
<1>1. f.no = new
  OBVIOUS
<1> HIDE DEF f
<1>2. (\E g \in sent \cup {f} : g.no = no) <=> (\E g \in sent : g.no = no) \/ no = new
  BY <1>1
<1> QED
  BY <1>2 DEF OnItsWay, f

(* A new event goes out ...                                                *)
LEMMA KeptSent ==
  ASSUME NEW all \in Seq(AdEvent), NEW queue \in Seq(Nat), NEW sent \in SUBSET Flight,
         NEW kind \in {"init", "close", "use"}, NEW then \in Turn,
         Kept(all, queue, sent)
  PROVE  Kept(Append(all, Pending(kind)), queue, sent \cup {[no |-> Len(all) + 1, then |-> then]})
<1> DEFINE new == Len(all) + 1
           ev  == Append(all, Pending(kind))
           out == sent \cup {[no |-> new, then |-> then]}
<1>1. /\ DOMAIN ev = DOMAIN all \cup {new} /\ new \in Nat \ DOMAIN all
      /\ ev[new].fate = "pending" /\ \A no \in DOMAIN all : ev[no] = all[no]
  BY AppendEvent DEF Pending
<1>2. \A no : OnItsWay(out, no) <=> OnItsWay(sent, no) \/ no = new
  BY OnItsWayAlso
<1>3. ~In(queue, new) /\ ~OnItsWay(sent, new)
  BY <1>1 DEF Kept
<1>4. \A f, g \in out : f.no = g.no => f = g
  BY <1>3 DEF Kept, OnItsWay
<1> HIDE DEF new, ev, out
<1>5. Kept(ev, queue, out)
  BY <1>1, <1>2, <1>3, <1>4 DEF Kept
<1> QED
  BY <1>5 DEF new, ev, out

(* ... or into the queue.                                                  *)
LEMMA KeptQueued ==
  ASSUME NEW all \in Seq(AdEvent), NEW queue \in Seq(Nat), NEW sent \in SUBSET Flight,
         NEW kind \in {"init", "close", "use"},
         Kept(all, queue, sent)
  PROVE  Kept(Append(all, Pending(kind)), Append(queue, Len(all) + 1), sent)
<1> DEFINE new == Len(all) + 1
           ev  == Append(all, Pending(kind))
           q   == Append(queue, new)
<1>1. /\ DOMAIN ev = DOMAIN all \cup {new} /\ new \in Nat \ DOMAIN all
      /\ ev[new].fate = "pending" /\ \A no \in DOMAIN all : ev[no] = all[no]
  BY AppendEvent DEF Pending
<1>2. \A no \in Nat : In(q, no) <=> In(queue, no) \/ no = new
  BY <1>1, InAppend
<1>3. ~In(queue, new) /\ ~OnItsWay(sent, new)
  BY <1>1 DEF Kept
<1>4. Distinct(q)
  BY <1>1, <1>3, DistinctAppend DEF Kept
<1>5. DOMAIN all \subseteq Nat
  OBVIOUS
<1> HIDE DEF new, ev, q
<1>6. Kept(ev, q, sent)
  BY <1>1, <1>2, <1>3, <1>4, <1>5 DEF Kept
<1> QED
  BY <1>6 DEF new, ev, q

Fated(all, no, fate) == [all EXCEPT ![no].fate = fate]

LEMMA FatedEvent ==
  ASSUME NEW all \in Seq(AdEvent), NEW no \in DOMAIN all, NEW fate \in Fate
  PROVE  /\ Fated(all, no, fate) \in Seq(AdEvent)
         /\ DOMAIN Fated(all, no, fate) = DOMAIN all
         /\ Fated(all, no, fate)[no].fate = fate
         /\ \A n \in DOMAIN all : Fated(all, no, fate)[n].kind = all[n].kind
         /\ \A n \in DOMAIN all \ {no} : Fated(all, no, fate)[n] = all[n]
<1> DEFINE e == [all[no] EXCEPT !.fate = fate]
<1>1. all[no] \in AdEvent
  OBVIOUS
<1>2. e \in AdEvent /\ e.fate = fate /\ e.kind = all[no].kind
  BY <1>1 DEF AdEvent, Fate
<1>3. Fated(all, no, fate) = [all EXCEPT ![no] = e]
  BY DEF Fated
<1> HIDE DEF e
<1>4. [all EXCEPT ![no] = e] \in Seq(AdEvent)
  BY <1>2
<1> QED
  BY <1>2, <1>3, <1>4

(* An answer comes ...                                                     *)
LEMMA KeptAnswered ==
  ASSUME NEW all \in Seq(AdEvent), NEW queue \in Seq(Nat), NEW sent \in SUBSET Flight,
         NEW f \in sent, Kept(all, queue, sent)
  PROVE  Kept(Fated(all, f.no, "answered"), queue, sent \ {f})
<1> DEFINE ev == Fated(all, f.no, "answered")
           out == sent \ {f}
<1>1. f.no \in DOMAIN all /\ ~In(queue, f.no)
  BY DEF Kept, OnItsWay, Flight
<1>2. /\ DOMAIN ev = DOMAIN all /\ ev[f.no].fate = "answered"
      /\ \A no \in DOMAIN all \ {f.no} : ev[no] = all[no]
  BY <1>1, FatedEvent DEF Fate
<1>3. \A no : OnItsWay(out, no) <=> OnItsWay(sent, no) /\ no # f.no
  BY DEF OnItsWay, Kept
<1>4. \A g, h \in out : g.no = h.no => g = h
  BY DEF Kept
<1> HIDE DEF ev, out
<1>5. Kept(ev, queue, out)
  BY <1>1, <1>2, <1>3, <1>4 DEF Kept
<1> QED
  BY <1>5 DEF ev, out

(* ... or the call throws and the event is queued.                         *)
LEMMA KeptThrown ==
  ASSUME NEW all \in Seq(AdEvent), NEW queue \in Seq(Nat), NEW sent \in SUBSET Flight,
         NEW f \in sent, Kept(all, queue, sent)
  PROVE  Kept(all, Append(queue, f.no), sent \ {f})
<1> DEFINE q == Append(queue, f.no)
           out == sent \ {f}
<1>1. f.no \in DOMAIN all /\ ~In(queue, f.no) /\ f.no \in Nat
  BY DEF Kept, OnItsWay, Flight
<1>2. \A no \in Nat : In(q, no) <=> In(queue, no) \/ no = f.no
  BY <1>1, InAppend
<1>3. Distinct(q)
  BY <1>1, DistinctAppend DEF Kept
<1>4. \A no : OnItsWay(out, no) <=> OnItsWay(sent, no) /\ no # f.no
  BY DEF OnItsWay, Kept
<1>5. \A g, h \in out : g.no = h.no => g = h
  BY DEF Kept
<1>6. DOMAIN all \subseteq Nat
  OBVIOUS
<1>7. OnItsWay(sent, f.no)
  BY DEF OnItsWay
<1> HIDE DEF q, out
<1>8. Kept(all, q, out)
  BY <1>1, <1>2, <1>3, <1>4, <1>5, <1>6, <1>7 DEF Kept
<1> QED
  BY <1>8 DEF q, out

(* The loop takes the first event from the queue and sends it ...          *)
LEMMA KeptResent ==
  ASSUME NEW all \in Seq(AdEvent), NEW queue \in Seq(Nat), NEW sent \in SUBSET Flight,
         NEW then \in Turn, queue # <<>>, Kept(all, queue, sent)
  PROVE  Kept(all, Tail(queue), sent \cup {[no |-> Head(queue), then |-> then]})
<1> DEFINE q == Tail(queue)
           h == Head(queue)
           out == sent \cup {[no |-> h, then |-> then]}
<1>1. h \in Nat
  OBVIOUS
<1>2. Distinct(q) /\ ~In(q, h) /\ In(queue, h)
  BY DistinctTail DEF Kept
<1>3. \A no \in Nat : In(queue, no) <=> In(q, no) \/ no = h
  BY InTail
<1>4. ~OnItsWay(sent, h) /\ h \in DOMAIN all
  BY <1>1, <1>2 DEF Kept
<1>5. \A no : OnItsWay(out, no) <=> OnItsWay(sent, no) \/ no = h
  BY OnItsWayAlso
<1>6. \A f, g \in out : f.no = g.no => f = g
  BY <1>4 DEF Kept, OnItsWay
<1>7. DOMAIN all \subseteq Nat
  OBVIOUS
<1> HIDE DEF q, h, out
<1>8. Kept(all, q, out)
  BY <1>1, <1>2, <1>3, <1>4, <1>5, <1>6, <1>7 DEF Kept
<1> QED
  BY <1>8 DEF q, h, out

(* ... or puts it back.                                                    *)
LEMMA KeptPutBack ==
  ASSUME NEW all \in Seq(AdEvent), NEW queue \in Seq(Nat), NEW sent \in SUBSET Flight,
         queue # <<>>, Kept(all, queue, sent)
  PROVE  Kept(all, Append(Tail(queue), Head(queue)), sent)
<1> DEFINE t == Tail(queue)
           h == Head(queue)
           q == Append(t, h)
<1>1. h \in Nat /\ t \in Seq(Nat)
  OBVIOUS
<1>2. Distinct(t) /\ ~In(t, h)
  BY DistinctTail DEF Kept
<1>3. Distinct(q)
  BY <1>1, <1>2, DistinctAppend
<1>4. \A no \in Nat : In(queue, no) <=> In(t, no) \/ no = h
  BY InTail
<1>5. \A no \in Nat : In(q, no) <=> In(t, no) \/ no = h
  BY <1>1, InAppend
<1>6. DOMAIN all \subseteq Nat
  OBVIOUS
<1> HIDE DEF t, h, q
<1>7. Kept(all, q, sent)
  BY <1>3, <1>4, <1>5, <1>6 DEF Kept
<1> QED
  BY <1>7 DEF t, h, q

(* The queue is dropped.                                                   *)
LEMMA KeptDropped ==
  ASSUME NEW all \in Seq(AdEvent), NEW queue \in Seq(Nat), NEW sent \in SUBSET Flight,
         Kept(all, queue, sent)
  PROVE  Kept(Dropped(all, queue), <<>>, sent)
<1> DEFINE ev == Dropped(all, queue)
<1>1. DOMAIN ev = DOMAIN all
  BY DEF Dropped
<1>2. \A no \in DOMAIN all : ev[no].fate = IF In(queue, no) THEN "lost" ELSE all[no].fate
  BY DEF Dropped, AdEvent
<1>3. \A no : ~In(<<>>, no)
  BY DEF In
<1>4. Distinct(<<>>)
  BY DEF Distinct
<1> HIDE DEF ev
<1>5. Kept(ev, <<>>, sent)
  BY <1>1, <1>2, <1>3, <1>4 DEF Kept
<1> QED
  BY <1>5 DEF ev

-----------------------------------------------------------------------------
(* Types.                                                                  *)

SharedType ==
  /\ links \in Seq(Link)
  /\ connection \in 0 .. Len(links) /\ remoteObj \in 0 .. Len(links)
  /\ connectCount \in Nat /\ disconnects \in [Component -> Nat]

EventType ==
  /\ isReconnecting \in [Component -> BOOLEAN]
  /\ eventQueue \in [Component -> Seq(Nat)]
  /\ events \in [Component -> Seq(AdEvent)]
  /\ flight \in [Component -> SUBSET Flight]

ViewType ==
  /\ life \in [Component -> Life]
  /\ isAdRenderer \in [Component -> BOOLEAN]
  /\ showComponent \in [Component -> BOOLEAN]
  /\ adMainCounter \in [Ad -> Nat]
  /\ turn \in [Component -> Turn]

LEMMA TypeParts == TypeOK <=> SharedType /\ EventType /\ ViewType
BY DEF TypeOK, SharedType, EventType, ViewType

LEMMA OpenType ==
  ASSUME SharedType, NEW c \in Component, NEW kind \in {"connect", "reconnect"}, Open(c, kind),
         UNCHANGED remoteObj
  PROVE  /\ links' \in Seq(Link)
         /\ connection' \in 0 .. Len(links') /\ remoteObj' \in 0 .. Len(links')
<1> DEFINE link == [owner |-> c, kind |-> kind, state |-> "opening"]
<1>1. link \in Link
  BY DEF Link
<1>2. links' = Append(links, link) /\ connection' = Len(links) + 1
  BY DEF Open
<1> HIDE DEF link
<1>3. links' \in Seq(Link) /\ Len(links') = Len(links) + 1 /\ Len(links) \in Nat
  BY <1>1, <1>2 DEF SharedType
<1> QED
  BY <1>2, <1>3 DEF SharedType

LEMMA DisconnectType ==
  ASSUME SharedType, NEW c \in Component, DisconnectServiceExtAbility(c), UNCHANGED links
  PROVE  SharedType'
BY DEF SharedType, DisconnectServiceExtAbility, NoLink

LEMMA RequeueType ==
  ASSUME SharedType, EventType, NEW c \in Component, NEW no \in Nat, NEW q \in Seq(Nat),
         Requeue(c, no, q), UNCHANGED remoteObj
  PROVE  /\ isReconnecting' \in [Component -> BOOLEAN]
         /\ eventQueue' \in [Component -> Seq(Nat)]
         /\ links' \in Seq(Link)
         /\ connection' \in 0 .. Len(links') /\ remoteObj' \in 0 .. Len(links')
<1>1. Append(q, no) \in Seq(Nat)
  OBVIOUS
<1>2. isReconnecting' \in [Component -> BOOLEAN] /\ eventQueue' \in [Component -> Seq(Nat)]
  BY <1>1 DEF Requeue, EventType
<1>3. CASE isReconnecting[c]
  BY <1>2, <1>3 DEF Requeue, SharedType
<1>4. CASE ~isReconnecting[c]
  BY <1>2, <1>4, OpenType DEF Requeue
<1> QED
  BY <1>3, <1>4

LEMMA SendDataRequestType ==
  ASSUME SharedType, EventType, NEW c \in Component, NEW no \in Nat, NEW q \in Seq(Nat),
         NEW then \in Turn, SendDataRequest(c, no, q, then), UNCHANGED remoteObj
  PROVE  /\ isReconnecting' \in [Component -> BOOLEAN]
         /\ eventQueue' \in [Component -> Seq(Nat)]
         /\ flight' \in [Component -> SUBSET Flight]
         /\ links' \in Seq(Link)
         /\ connection' \in 0 .. Len(links') /\ remoteObj' \in 0 .. Len(links')
<1>1. CASE remoteObj # NoLink
  <2> DEFINE f == [no |-> no, then |-> then]
  <2>1. f \in Flight
    BY DEF Flight
  <2>2. /\ flight' = [flight EXCEPT ![c] = @ \cup {f}]
        /\ eventQueue' = [eventQueue EXCEPT ![c] = q]
        /\ UNCHANGED <<isReconnecting, connection, links>>
    BY <1>1 DEF SendDataRequest
  <2> HIDE DEF f
  <2> QED BY <2>1, <2>2 DEF SharedType, EventType
<1>2. CASE remoteObj = NoLink
  <2>1. Requeue(c, no, q) /\ UNCHANGED flight
    BY <1>2 DEF SendDataRequest
  <2> QED BY <2>1, RequeueType DEF EventType
<1> QED
  BY <1>1, <1>2

LEMMA SubmitType ==
  ASSUME SharedType, EventType, NEW c \in Component, NEW kind \in {"init", "close", "use"},
         NEW then \in Turn, Submit(c, kind, then), UNCHANGED remoteObj
  PROVE  /\ EventType'
         /\ links' \in Seq(Link)
         /\ connection' \in 0 .. Len(links') /\ remoteObj' \in 0 .. Len(links')
<1>1. events[c] \in Seq(AdEvent) /\ eventQueue[c] \in Seq(Nat)
  BY DEF EventType
<1>2. Append(events[c], Pending(kind)) \in Seq(AdEvent) /\ Len(events[c]) + 1 \in Nat
  BY <1>1, AppendEvent
<1>3. events' \in [Component -> Seq(AdEvent)]
  BY <1>2 DEF Submit, EventType, Pending
<1>4. SendDataRequest(c, Len(events[c]) + 1, eventQueue[c], then)
  BY DEF Submit
<1> QED
  BY <1>1, <1>2, <1>3, <1>4, SendDataRequestType DEF EventType

(* Calls under way are about events there are.                             *)
FlightOK == \A c \in Component : \A f \in flight[c] : f.no \in DOMAIN events[c]

LEMMA FlightOfAccounted == EventsAccounted => FlightOK
BY DEF EventsAccounted, Accounted, FlightOK

LEMMA DroppedType ==
  ASSUME NEW all \in Seq(AdEvent), NEW queue
  PROVE  Dropped(all, queue) \in Seq(AdEvent)
<1>1. ASSUME NEW no \in DOMAIN all PROVE Dropped(all, queue)[no] \in AdEvent
  <2>1. all[no] \in AdEvent
    OBVIOUS
  <2>2. [all[no] EXCEPT !.fate = "lost"] \in AdEvent
    BY <2>1 DEF AdEvent
  <2> QED BY <2>1, <2>2 DEF Dropped
<1>2. DOMAIN all = 1 .. Len(all) /\ Len(all) \in Nat
  OBVIOUS
<1>3. Dropped(all, queue) \in [1 .. Len(all) -> AdEvent]
  BY <1>1, <1>2 DEF Dropped
<1> QED
  BY <1>2, <1>3

LEMMA ConnectionTypeStep == TypeOK /\ FlightOK /\ [Next]_vars => TypeOK'
<1> SUFFICES ASSUME TypeOK, FlightOK, [Next]_vars PROVE TypeOK'
  OBVIOUS
<1>0. SharedType /\ EventType /\ ViewType
  BY TypeParts
<1> SUFFICES SharedType' /\ EventType' /\ ViewType'
  BY DEF TypeOK, SharedType, EventType, ViewType
<1> USE DEF viewVars, adConnectionManager, eventVars, sysVars
<1>1. ASSUME NEW c \in Component, Appear(c) PROVE SharedType' /\ EventType' /\ ViewType'
  <2>1. ViewType'
    BY <1>1, <1>0, AdConnectionAssumption DEF Appear, ViewType, Life, Turn
  <2>2. ConnectServiceExtAbility(c) /\ UNCHANGED disconnects
    BY <1>1 DEF Appear
  <2>3. CASE connectCount' = connectCount + 1 /\ Submit(c, "init", "idle") /\ UNCHANGED remoteObj
    BY <1>0, <2>1, <2>2, <2>3, SubmitType DEF SharedType, Turn
  <2>4. CASE connectCount' = connectCount + 1 /\ UNCHANGED <<connection, eventVars, links, remoteObj>>
    BY <1>0, <2>1, <2>2, <2>4 DEF SharedType, EventType
  <2>5. CASE Open(c, "connect") /\ UNCHANGED <<remoteObj, connectCount, eventVars>>
    BY <1>0, <2>1, <2>2, <2>5, OpenType DEF SharedType, EventType
  <2> QED BY <2>2, <2>3, <2>4, <2>5 DEF ConnectServiceExtAbility
<1>2. ASSUME NEW c \in Component, AppearDuplicate(c) PROVE SharedType' /\ EventType' /\ ViewType'
  BY <1>2, <1>0, AdConnectionAssumption DEF AppearDuplicate, SharedType, EventType, ViewType, Life
<1>3. ASSUME NEW c \in Component, Mount(c) PROVE SharedType' /\ EventType' /\ ViewType'
  <2>1. Submit(c, "use", "idle") /\ UNCHANGED <<remoteObj, connectCount, disconnects>>
    BY <1>3 DEF Mount
  <2>2. ViewType'
    BY <1>3, <1>0 DEF Mount, ViewType, Turn
  <2> QED BY <1>0, <2>1, <2>2, SubmitType DEF SharedType, Turn
<1>4. ASSUME NEW c \in Component, Use(c) PROVE SharedType' /\ EventType' /\ ViewType'
  <2>1. Submit(c, "use", "idle") /\ UNCHANGED <<remoteObj, connectCount, disconnects>>
    BY <1>4 DEF Use
  <2>2. ViewType'
    BY <1>4, <1>0 DEF Use, ViewType
  <2> QED BY <1>0, <2>1, <2>2, SubmitType DEF SharedType, Turn
<1>5. ASSUME NEW c \in Component, NEW f \in flight[c], Answered(c, f)
      PROVE  SharedType' /\ EventType' /\ ViewType'
  <2>1. f.no \in DOMAIN events[c] /\ f \in Flight /\ events[c] \in Seq(AdEvent)
    BY <1>0 DEF FlightOK, EventType
  <2>2. Fated(events[c], f.no, "answered") \in Seq(AdEvent)
    BY <2>1, FatedEvent DEF Fate
  <2>3. EventType'
    BY <1>5, <1>0, <2>2 DEF Answered, FateOf, Fated, EventType
  <2>4. ViewType'
    BY <1>5, <1>0, <2>1 DEF Answered, ViewType, Flight
  <2>5. SharedType'
    <3>1. CASE DisconnectServiceExtAbility(c)
      BY <1>5, <1>0, <3>1, DisconnectType DEF Answered
    <3>2. CASE UNCHANGED <<adConnectionManager, disconnects>>
      BY <1>5, <1>0, <3>2 DEF Answered, SharedType
    <3> QED BY <1>5, <3>1, <3>2 DEF Answered
  <2> QED BY <2>3, <2>4, <2>5
<1>6. ASSUME NEW c \in Component, NEW f \in flight[c], Throws(c, f)
      PROVE  SharedType' /\ EventType' /\ ViewType'
  <2>1. f \in Flight /\ f.no \in Nat /\ f.then \in Turn /\ eventQueue[c] \in Seq(Nat)
    BY <1>0 DEF EventType, Flight
  <2>2. Requeue(c, f.no, eventQueue[c]) /\ UNCHANGED <<remoteObj, connectCount, disconnects>>
    BY <1>6 DEF Throws
  <2>3. ViewType'
    BY <1>6, <1>0, <2>1 DEF Throws, ViewType
  <2>4. flight' \in [Component -> SUBSET Flight] /\ events' = events
    BY <1>6, <1>0 DEF Throws, EventType
  <2> QED BY <1>0, <2>1, <2>2, <2>3, <2>4, RequeueType DEF SharedType, EventType
<1>7. ASSUME NEW c \in Component, ResendNext(c) PROVE SharedType' /\ EventType' /\ ViewType'
  <2>1. eventQueue[c] \in Seq(Nat) /\ eventQueue[c] # <<>>
    BY <1>7, <1>0 DEF ResendNext, EventType
  <2>2. Head(eventQueue[c]) \in Nat /\ Tail(eventQueue[c]) \in Seq(Nat)
    BY <2>1
  <2>3. ViewType'
    BY <1>7, <1>0 DEF ResendNext, Awaited, ViewType, Turn
  <2>4. /\ SendDataRequest(c, Head(eventQueue[c]), Tail(eventQueue[c]), "loop")
        /\ UNCHANGED <<remoteObj, connectCount, events, disconnects>>
    BY <1>7 DEF ResendNext
  <2>5. "loop" \in Turn
    BY DEF Turn
  <2> QED BY <1>0, <2>2, <2>3, <2>4, <2>5, SendDataRequestType DEF SharedType, EventType
<1>8. ASSUME NEW c \in Component, ResendDone(c) PROVE SharedType' /\ EventType' /\ ViewType'
  BY <1>8, <1>0 DEF ResendDone, SharedType, EventType, ViewType, Turn
<1>9. ASSUME NEW c \in Component, Disappear(c) PROVE SharedType' /\ EventType' /\ ViewType'
  <2>1. SharedType'
    BY <1>9, <1>0, DisconnectType DEF Disappear
  <2> QED
    BY <1>9, <1>0, <2>1, AdConnectionAssumption
       DEF Disappear, ClearMainAdCounter, EventType, ViewType, Life
<1>10. ASSUME NEW c \in Component, SendClose(c) PROVE SharedType' /\ EventType' /\ ViewType'
  <2>1. Submit(c, "close", "leave") /\ UNCHANGED <<remoteObj, connectCount, disconnects>>
    BY <1>10 DEF SendClose
  <2>2. ViewType'
    BY <1>10, <1>0, AdConnectionAssumption
       DEF SendClose, ClearMainAdCounter, Awaited, ViewType, Life, Turn
  <2> QED BY <1>0, <2>1, <2>2, SubmitType DEF SharedType, Turn
<1>11. ASSUME NEW c \in Component, Leave(c) PROVE SharedType' /\ EventType' /\ ViewType'
  <2>1. SharedType'
    BY <1>11, <1>0, DisconnectType DEF Leave
  <2> QED BY <1>11, <1>0, <2>1 DEF Leave, EventType, ViewType, Life, Turn
<1>12. ASSUME NEW i \in DOMAIN links, CallBack(i) PROVE SharedType' /\ EventType' /\ ViewType'
  <2> DEFINE c == links[i].owner
  <2>0. links[i] \in Link
    BY <1>0 DEF SharedType
  <2>1. links[i] \in Link /\ c \in Component
    BY <2>0 DEF Link
  <2>2. i \in 1 .. Len(links)
    BY <1>0 DEF SharedType
  <2>3. ViewType'
    BY <1>12, <1>0 DEF CallBack, OnConnect, OnReconnect, OnConnectNull, OnFailedOrDisconnect, ViewType
  <2>4. links' \in Seq(Link) /\ Len(links') = Len(links)
    <3>1. ASSUME NEW to \in {"up", "mute", "down"}
          PROVE  /\ [links EXCEPT ![i].state = to] \in Seq(Link)
                 /\ Len([links EXCEPT ![i].state = to]) = Len(links)
      <4> DEFINE link == [links[i] EXCEPT !.state = to]
      <4>1. link \in Link
        BY <2>1 DEF Link
      <4>2. [links EXCEPT ![i].state = to] = [links EXCEPT ![i] = link]
        OBVIOUS
      <4>3. links \in Seq(Link)
        BY <1>0 DEF SharedType
      <4> HIDE DEF link
      <4> QED BY <2>2, <4>1, <4>2, <4>3
    <3>2. \E to \in {"up", "mute", "down"} : links' = [links EXCEPT ![i].state = to]
      BY <1>12 DEF CallBack, OnConnect, OnReconnect, OnConnectNull, OnFailedOrDisconnect, LinkMoves
    <3> QED BY <3>1, <3>2
  <2>5. /\ connection' \in {NoLink, connection} /\ remoteObj' \in {i, remoteObj}
        /\ connectCount' \in {1, connectCount + 1, connectCount} /\ UNCHANGED disconnects
    BY <1>12 DEF CallBack, OnConnect, OnReconnect, OnConnectNull, OnFailedOrDisconnect
  <2>6. SharedType'
    BY <1>0, <2>2, <2>4, <2>5 DEF SharedType, NoLink
  <2>7. events[c] \in Seq(AdEvent) /\ eventQueue[c] \in Seq(Nat)
    BY <1>0, <2>1 DEF EventType
  <2>8. ASSUME OnConnect(i) \/ OnReconnect(i) PROVE EventType'
    <3>1. Append(events[c], Pending("init")) \in Seq(AdEvent) /\ Len(events[c]) + 1 \in Nat
      BY <2>7, AppendEvent
    <3>2. \A then \in Turn : [no |-> Len(events[c]) + 1, then |-> then] \in Flight
      BY <3>1 DEF Flight
    <3>3. "idle" \in Turn /\ "loop" \in Turn
      BY DEF Turn
    <3>4. events' \in [Component -> Seq(AdEvent)]
      BY <2>8, <1>0, <2>1, <3>1 DEF OnConnect, OnReconnect, EventType, Pending
    <3>5. flight' \in [Component -> SUBSET Flight]
      <4> DEFINE idle == [no |-> Len(events[c]) + 1, then |-> "idle"]
                 loop == [no |-> Len(events[c]) + 1, then |-> "loop"]
      <4>1. idle \in Flight /\ loop \in Flight
        BY <3>2, <3>3
      <4>2. \/ UNCHANGED flight
            \/ flight' = [flight EXCEPT ![c] = @ \cup {idle}]
            \/ flight' = [flight EXCEPT ![c] = @ \cup {loop}]
        BY <2>8 DEF OnConnect, OnReconnect
      <4> HIDE DEF idle, loop, c
      <4> QED BY <4>1, <4>2, <1>0, <2>1 DEF EventType
    <3>6. UNCHANGED <<isReconnecting, eventQueue>>
      BY <2>8 DEF OnConnect, OnReconnect
    <3> QED BY <1>0, <3>4, <3>5, <3>6 DEF EventType
  <2>9. ASSUME OnFailedOrDisconnect(i) PROVE EventType'
    <3>1. Dropped(events[c], eventQueue[c]) \in Seq(AdEvent)
      BY <2>7, DroppedType
    <3>2. CASE links[i].kind = "reconnect"
      <4>1. /\ isReconnecting' = [isReconnecting EXCEPT ![c] = FALSE]
            /\ eventQueue' = [eventQueue EXCEPT ![c] = <<>>]
            /\ events' = [events EXCEPT ![c] = Dropped(@, eventQueue[c])]
            /\ UNCHANGED flight
        BY <2>9, <3>2 DEF OnFailedOrDisconnect
      <4> QED BY <4>1, <1>0, <2>1, <3>1 DEF EventType
    <3>3. CASE links[i].kind # "reconnect"
      BY <2>9, <1>0, <3>3 DEF OnFailedOrDisconnect, EventType
    <3> QED BY <3>2, <3>3
  <2>10. ASSUME OnConnectNull(i) PROVE EventType'
    BY <2>10, <1>0 DEF OnConnectNull, EventType
  <2> QED BY <1>12, <2>3, <2>6, <2>8, <2>9, <2>10 DEF CallBack
<1>13. ASSUME NEW c \in Component, DisconnectSettles(c) PROVE SharedType' /\ EventType' /\ ViewType'
  BY <1>13, <1>0 DEF DisconnectSettles, SharedType, EventType, ViewType, NoLink
<1>14. CASE UNCHANGED vars
  BY <1>14, <1>0 DEF vars, SharedType, EventType, ViewType
<1> QED
  BY <1>1, <1>2, <1>3, <1>4, <1>5, <1>6, <1>7, <1>8, <1>9, <1>10, <1>11, <1>12, <1>13, <1>14
     DEF Next, Step, Settle, Resend

-----------------------------------------------------------------------------
(* No event is forgotten or kept twice.                                    *)

LEMMA NowKept ==
  ASSUME TypeOK, EventsAccounted, NEW c \in Component
  PROVE  Kept(events[c], eventQueue[c], flight[c])
BY AccountedIsKept DEF TypeOK, EventsAccounted

(* A step moves the events of one component only.                          *)
LEMMA OneMoves ==
  ASSUME TypeOK, TypeOK', EventsAccounted, NEW c \in Component,
         Kept(events'[c], eventQueue'[c], flight'[c]),
         \A d \in Component \ {c} : /\ events'[d] = events[d]
                                    /\ eventQueue'[d] = eventQueue[d]
                                    /\ flight'[d] = flight[d]
  PROVE  EventsAccounted'
<1>1. events'[c] \in Seq(AdEvent) /\ eventQueue'[c] \in Seq(Nat) /\ flight'[c] \in SUBSET Flight
  BY DEF TypeOK
<1>2. Accounted(events'[c], eventQueue'[c], flight'[c])
  BY <1>1, AccountedIsKept
<1>3. \A d \in Component \ {c} : Accounted(events'[d], eventQueue'[d], flight'[d])
  BY DEF EventsAccounted
<1> QED
  BY <1>2, <1>3 DEF EventsAccounted

LEMMA NoneMoves ==
  ASSUME EventsAccounted, UNCHANGED <<events, eventQueue, flight>>
  PROVE  EventsAccounted'
BY DEF EventsAccounted

(* What SendDataRequest does to the component's queue and calls.           *)
LEMMA SendEffect ==
  ASSUME TypeOK, NEW c \in Component, NEW no, NEW q, NEW then, SendDataRequest(c, no, q, then)
  PROVE  /\ \/ /\ flight'[c] = flight[c] \cup {[no |-> no, then |-> then]}
               /\ eventQueue'[c] = q
            \/ /\ flight'[c] = flight[c]
               /\ eventQueue'[c] = Append(q, no)
         /\ \A d \in Component \ {c} : eventQueue'[d] = eventQueue[d] /\ flight'[d] = flight[d]
<1> DEFINE f == [no |-> no, then |-> then]
<1> HIDE DEF f
<1>1. CASE /\ flight' = [flight EXCEPT ![c] = @ \cup {f}]
           /\ eventQueue' = [eventQueue EXCEPT ![c] = q]
  BY <1>1 DEF TypeOK, f
<1>2. CASE /\ eventQueue' = [eventQueue EXCEPT ![c] = Append(q, no)]
           /\ UNCHANGED flight
  BY <1>2 DEF TypeOK
<1> QED
  BY <1>1, <1>2 DEF SendDataRequest, Requeue, f

LEMMA SubmitAccounted ==
  ASSUME TypeOK, TypeOK', EventsAccounted, NEW c \in Component,
         NEW kind \in {"init", "close", "use"}, NEW then \in Turn, Submit(c, kind, then)
  PROVE  EventsAccounted'
<1>1. Kept(events[c], eventQueue[c], flight[c])
  BY NowKept
<1>2. /\ events[c] \in Seq(AdEvent) /\ eventQueue[c] \in Seq(Nat) /\ flight[c] \in SUBSET Flight
  BY DEF TypeOK
<1>3. /\ events'[c] = Append(events[c], Pending(kind))
      /\ \A d \in Component \ {c} : events'[d] = events[d]
  BY DEF Submit, TypeOK, Pending
<1>4. SendDataRequest(c, Len(events[c]) + 1, eventQueue[c], then)
  BY DEF Submit
<1>5. Kept(events'[c], eventQueue'[c], flight'[c])
  <2>1. CASE /\ flight'[c] = flight[c] \cup {[no |-> Len(events[c]) + 1, then |-> then]}
             /\ eventQueue'[c] = eventQueue[c]
    <3>1. Kept(Append(events[c], Pending(kind)), eventQueue[c],
               flight[c] \cup {[no |-> Len(events[c]) + 1, then |-> then]})
      BY <1>1, <1>2, KeptSent
    <3> QED BY <2>1, <1>3, <3>1
  <2>2. CASE /\ flight'[c] = flight[c]
             /\ eventQueue'[c] = Append(eventQueue[c], Len(events[c]) + 1)
    BY <2>2, <1>1, <1>2, <1>3, KeptQueued
  <2> QED BY <2>1, <2>2, <1>4, SendEffect
<1> QED
  BY <1>3, <1>4, <1>5, SendEffect, OneMoves

LEMMA AccountedStep == TypeOK /\ EventsAccounted /\ [Next]_vars => EventsAccounted'
<1> SUFFICES ASSUME TypeOK, EventsAccounted, [Next]_vars PROVE EventsAccounted'
  OBVIOUS
<1>0. TypeOK'
  BY ConnectionTypeStep, FlightOfAccounted
<1>t. "idle" \in Turn /\ "loop" \in Turn /\ "leave" \in Turn
  BY DEF Turn
<1> USE DEF eventVars
<1>1. ASSUME NEW c \in Component, Appear(c) PROVE EventsAccounted'
  <2>1. Submit(c, "init", "idle") \/ UNCHANGED eventVars
    BY <1>1 DEF Appear, ConnectServiceExtAbility
  <2> QED BY <2>1, <1>0, <1>t, SubmitAccounted, NoneMoves
<1>2. ASSUME NEW c \in Component, Mount(c) \/ Use(c) PROVE EventsAccounted'
  <2>1. Submit(c, "use", "idle")
    BY <1>2 DEF Mount, Use
  <2> QED BY <2>1, <1>0, <1>t, SubmitAccounted
<1>3. ASSUME NEW c \in Component, SendClose(c) PROVE EventsAccounted'
  <2>1. Submit(c, "close", "leave")
    BY <1>3 DEF SendClose
  <2> QED BY <2>1, <1>0, <1>t, SubmitAccounted
<1>4. ASSUME NEW c \in Component, AppearDuplicate(c) \/ Disappear(c) \/ Leave(c)
      PROVE  EventsAccounted'
  BY <1>4, NoneMoves DEF AppearDuplicate, Disappear, Leave
<1>5. ASSUME NEW c \in Component, NEW f \in flight[c], Answered(c, f) PROVE EventsAccounted'
  <2>1. events[c] \in Seq(AdEvent) /\ eventQueue[c] \in Seq(Nat) /\ flight[c] \in SUBSET Flight
    BY DEF TypeOK
  <2>2. Kept(Fated(events[c], f.no, "answered"), eventQueue[c], flight[c] \ {f})
    BY <2>1, NowKept, KeptAnswered
  <2>3. /\ events'[c] = Fated(events[c], f.no, "answered")
        /\ flight'[c] = flight[c] \ {f} /\ eventQueue'[c] = eventQueue[c]
        /\ \A d \in Component \ {c} : /\ events'[d] = events[d]
                                      /\ eventQueue'[d] = eventQueue[d]
                                      /\ flight'[d] = flight[d]
    BY <1>5 DEF Answered, FateOf, Fated, TypeOK
  <2> QED BY <2>2, <2>3, <1>0, OneMoves
<1>6. ASSUME NEW c \in Component, NEW f \in flight[c], Throws(c, f) PROVE EventsAccounted'
  <2>1. events[c] \in Seq(AdEvent) /\ eventQueue[c] \in Seq(Nat) /\ flight[c] \in SUBSET Flight
    BY DEF TypeOK
  <2>2. Kept(events[c], Append(eventQueue[c], f.no), flight[c] \ {f})
    BY <2>1, NowKept, KeptThrown
  <2>3. /\ events' = events
        /\ flight'[c] = flight[c] \ {f} /\ eventQueue'[c] = Append(eventQueue[c], f.no)
        /\ \A d \in Component \ {c} : /\ eventQueue'[d] = eventQueue[d]
                                      /\ flight'[d] = flight[d]
    BY <1>6 DEF Throws, Requeue, TypeOK
  <2> QED BY <2>2, <2>3, <1>0, OneMoves
<1>7. ASSUME NEW c \in Component, ResendNext(c) PROVE EventsAccounted'
  <2> DEFINE h == Head(eventQueue[c])
             t == Tail(eventQueue[c])
  <2>1. /\ events[c] \in Seq(AdEvent) /\ eventQueue[c] \in Seq(Nat) /\ flight[c] \in SUBSET Flight
        /\ eventQueue[c] # <<>>
    BY <1>7 DEF TypeOK, ResendNext
  <2>2. SendDataRequest(c, h, t, "loop") /\ events' = events
    BY <1>7 DEF ResendNext
  <2>3. Kept(events[c], t, flight[c] \cup {[no |-> h, then |-> "loop"]})
    BY <2>1, <1>t, NowKept, KeptResent
  <2>4. Kept(events[c], Append(t, h), flight[c])
    BY <2>1, NowKept, KeptPutBack
  <2>5. Kept(events'[c], eventQueue'[c], flight'[c])
    BY <2>2, <2>3, <2>4, SendEffect
  <2> QED BY <2>2, <2>5, <1>0, SendEffect, OneMoves
<1>8. ASSUME NEW c \in Component, ResendDone(c) PROVE EventsAccounted'
  BY <1>8, NoneMoves DEF ResendDone
<1>9. ASSUME NEW i \in DOMAIN links, CallBack(i) PROVE EventsAccounted'
  <2> DEFINE c == links[i].owner
  <2>0. links[i] \in Link
    BY DEF TypeOK
  <2>1. c \in Component
    BY <2>0 DEF Link
  <2>2. events[c] \in Seq(AdEvent) /\ eventQueue[c] \in Seq(Nat) /\ flight[c] \in SUBSET Flight
    BY <2>1 DEF TypeOK
  <2>3. Kept(events[c], eventQueue[c], flight[c])
    BY <2>1, NowKept
  <2>4. ASSUME NEW then \in Turn,
               /\ events' = [events EXCEPT ![c] = Append(@, Pending("init"))]
               /\ flight' = [flight EXCEPT ![c] = @ \cup {[no |-> Len(events[c]) + 1, then |-> then]}]
               /\ UNCHANGED eventQueue
        PROVE  EventsAccounted'
    <3> DEFINE f == [no |-> Len(events[c]) + 1, then |-> then]
    <3>1. Kept(Append(events[c], Pending("init")), eventQueue[c], flight[c] \cup {f})
      BY <2>2, <2>3, KeptSent
    <3>2. flight' = [flight EXCEPT ![c] = @ \cup {f}]
      BY <2>4
    <3> HIDE DEF f, c
    <3>3. /\ events'[c] = Append(events[c], Pending("init")) /\ flight'[c] = flight[c] \cup {f}
          /\ \A d \in Component \ {c} : events'[d] = events[d] /\ flight'[d] = flight[d]
      BY <2>1, <2>4, <3>2 DEF TypeOK
    <3> QED BY <2>1, <2>4, <3>1, <3>3, <1>0, OneMoves
  <2>5. ASSUME OnConnect(i) PROVE EventsAccounted'
    <3>1. CASE isAdRenderer[c]
      BY <2>5, <3>1, <2>4, <1>t DEF OnConnect, Pending
    <3>2. CASE ~isAdRenderer[c]
      BY <2>5, <3>2, NoneMoves DEF OnConnect
    <3> QED BY <3>1, <3>2
  <2>6. ASSUME OnReconnect(i) PROVE EventsAccounted'
    BY <2>6, <2>4, <1>t DEF OnReconnect, Pending
  <2>7. ASSUME OnConnectNull(i) PROVE EventsAccounted'
    BY <2>7, NoneMoves DEF OnConnectNull
  <2>8. ASSUME OnFailedOrDisconnect(i) PROVE EventsAccounted'
    <3>1. CASE links[i].kind = "reconnect"
      <4>1. Kept(Dropped(events[c], eventQueue[c]), <<>>, flight[c])
        BY <2>2, <2>3, KeptDropped
      <4>2. /\ eventQueue' = [eventQueue EXCEPT ![c] = <<>>]
            /\ events' = [events EXCEPT ![c] = Dropped(@, eventQueue[c])]
            /\ UNCHANGED flight
        BY <2>8, <3>1 DEF OnFailedOrDisconnect
      <4>3. /\ events'[c] = Dropped(events[c], eventQueue[c]) /\ eventQueue'[c] = <<>>
            /\ \A d \in Component \ {c} : events'[d] = events[d] /\ eventQueue'[d] = eventQueue[d]
        BY <2>1, <4>2 DEF TypeOK
      <4> QED BY <2>1, <4>1, <4>2, <4>3, <1>0, OneMoves
    <3>2. CASE links[i].kind # "reconnect"
      BY <2>8, <3>2, NoneMoves DEF OnFailedOrDisconnect
    <3> QED BY <3>1, <3>2
  <2> QED BY <1>9, <2>5, <2>6, <2>7, <2>8 DEF CallBack
<1>10. ASSUME NEW c \in Component, DisconnectSettles(c) PROVE EventsAccounted'
  BY <1>10, NoneMoves DEF DisconnectSettles
<1>11. CASE UNCHANGED vars
  BY <1>11, NoneMoves DEF vars
<1> QED
  BY <1>1, <1>2, <1>3, <1>4, <1>5, <1>6, <1>7, <1>8, <1>9, <1>10, <1>11 DEF Next, Step, Settle, Resend

LEMMA ConnectionInit == Init => TypeOK /\ EventsAccounted
<1> SUFFICES ASSUME Init PROVE TypeOK /\ EventsAccounted
  OBVIOUS
<1>1. TypeOK
  BY DEF Init, TypeOK, Life, Turn, NoLink, Link
<1>2. ASSUME NEW c \in Component PROVE Kept(events[c], eventQueue[c], flight[c])
  BY DEF Init, Kept, In, OnItsWay, Distinct
<1> QED
  BY <1>1, <1>2, AccountedIsKept DEF EventsAccounted, TypeOK

(* Every variable keeps its type, connectCount a natural number included,  *)
(* which a second disconnect may not push below 0.                         *)
THEOREM ConnectionTypeCorrect == Spec => []TypeOK
<1>1. TypeOK /\ EventsAccounted /\ [Next]_vars => TypeOK' /\ EventsAccounted'
  BY ConnectionTypeStep, FlightOfAccounted, AccountedStep
<1> QED
  BY <1>1, ConnectionInit, PTL DEF Spec

(* For any components, however many connections overlap: an event that was *)
(* not answered nor dropped is in the queue once, or under way once.       *)
THEOREM EventsAccountedCorrect == Spec => []EventsAccounted
<1>1. TypeOK /\ EventsAccounted /\ [Next]_vars => TypeOK' /\ EventsAccounted'
  BY ConnectionTypeStep, FlightOfAccounted, AccountedStep
<1> QED
  BY <1>1, ConnectionInit, PTL DEF Spec

-----------------------------------------------------------------------------
(* No remote object outlives its count.                                    *)

LEMMA StaleStep == TypeOK /\ NoStaleRemote /\ [Next]_vars => NoStaleRemote'
<1> SUFFICES ASSUME TypeOK, NoStaleRemote, [Next]_vars PROVE NoStaleRemote'
  OBVIOUS
<1>0. connectCount \in Nat /\ disconnects \in [Component -> Nat]
  BY DEF TypeOK
<1> USE DEF NoStaleRemote, adConnectionManager, sysVars
<1>1. ASSUME NEW c \in Component, DisconnectServiceExtAbility(c) PROVE NoStaleRemote'
  BY <1>0, <1>1 DEF DisconnectServiceExtAbility
<1>2. ASSUME UNCHANGED <<remoteObj, connectCount, disconnects>> PROVE NoStaleRemote'
  BY <1>2
<1>3. ASSUME NEW c \in Component, Appear(c) PROVE NoStaleRemote'
  BY <1>0, <1>3 DEF Appear, ConnectServiceExtAbility
<1>4. ASSUME NEW c \in Component,
             AppearDuplicate(c) \/ Mount(c) \/ Use(c) \/ Resend(c) \/ SendClose(c)
      PROVE  NoStaleRemote'
  BY <1>2, <1>4 DEF AppearDuplicate, Mount, Use, Resend, ResendNext, ResendDone, SendClose
<1>5. ASSUME NEW c \in Component, Settle(c) PROVE NoStaleRemote'
  BY <1>1, <1>2, <1>5 DEF Settle, Answered, Throws
<1>6. ASSUME NEW c \in Component, Disappear(c) \/ Leave(c) PROVE NoStaleRemote'
  BY <1>1, <1>6 DEF Disappear, Leave
<1>7. ASSUME NEW i \in DOMAIN links, CallBack(i) PROVE NoStaleRemote'
  BY <1>0, <1>7 DEF CallBack, OnConnect, OnReconnect, OnConnectNull, OnFailedOrDisconnect
<1>8. ASSUME NEW c \in Component, DisconnectSettles(c) PROVE NoStaleRemote'
  BY <1>0, <1>8 DEF DisconnectSettles
<1>9. CASE UNCHANGED vars
  BY <1>9 DEF vars
<1> QED
  BY <1>3, <1>4, <1>5, <1>6, <1>7, <1>8, <1>9 DEF Next, Step

(* Whatever the order of disconnections and late onConnects: a remote      *)
(* object nobody counts goes with a disconnection that is under way.       *)
THEOREM NoStaleRemoteCorrect == Spec => []NoStaleRemote
<1>1. Init => NoStaleRemote
  BY DEF Init, NoStaleRemote
<1> QED
  BY <1>1, StaleStep, ConnectionTypeCorrect, PTL DEF Spec

-----------------------------------------------------------------------------
(* Somebody will look at the queue.                                        *)

Served(c) == Opening(c) \/ Resending(c) \/ Mute(c)

(* Only a component that reconnects has a queue, and its reconnection, or  *)
(* a later one, has not ended.                                             *)
QueueInv ==
  \A c \in Component :
    /\ eventQueue[c] # <<>> => isReconnecting[c]
    /\ isReconnecting[c] => Served(c)

LEMMA LinksGrow ==
  ASSUME TypeOK, NEW c \in Component, NEW kind \in {"connect", "reconnect"}, Open(c, kind)
  PROVE  /\ \A d : Opening(d) => Opening(d)'
         /\ \A d : Mute(d) => Mute(d)'
         /\ kind = "reconnect" => Opening(c)'
<1> DEFINE link == [owner |-> c, kind |-> kind, state |-> "opening"]
<1>0. link.owner = c /\ link.kind = kind /\ link.state = "opening" /\ link \in Link
  BY DEF Link
<1>1. links' = Append(links, link) /\ links \in Seq(Link)
  BY DEF Open, TypeOK
<1> HIDE DEF link
<1>2. /\ DOMAIN links' = DOMAIN links \cup {Len(links) + 1}
      /\ links'[Len(links) + 1] = link
      /\ \A i \in DOMAIN links : links'[i] = links[i]
  BY <1>0, <1>1
<1> QED
  BY <1>0, <1>2 DEF Opening, Mute

LEMMA RequeueServes ==
  ASSUME TypeOK, QueueInv, NEW c \in Component, NEW no, NEW q, Requeue(c, no, q)
  PROVE  /\ isReconnecting'[c] /\ (isReconnecting[c] \/ Opening(c)')
         /\ \A d \in Component \ {c} :
              isReconnecting'[d] = isReconnecting[d] /\ eventQueue'[d] = eventQueue[d]
         /\ \A d : (Opening(d) => Opening(d)') /\ (Mute(d) => Mute(d)')
<1>1. /\ isReconnecting'[c]
      /\ \A d \in Component \ {c} :
           isReconnecting'[d] = isReconnecting[d] /\ eventQueue'[d] = eventQueue[d]
  BY DEF Requeue, TypeOK
<1>2. CASE isReconnecting[c]
  BY <1>1, <1>2 DEF Requeue, Opening, Mute
<1>3. CASE ~isReconnecting[c]
  <2>1. Open(c, "reconnect")
    BY <1>3 DEF Requeue
  <2> QED BY <1>1, <2>1, LinksGrow
<1> QED
  BY <1>2, <1>3

(* A step that requeues, and lets no loop go but one that goes on.         *)
LEMMA RequeueStep ==
  ASSUME TypeOK, QueueInv, NEW c \in Component, NEW no, NEW q, Requeue(c, no, q),
         \A d \in Component : Resending(d) => Resending(d)'
  PROVE  QueueInv'
<1>1. \A d \in Component : Served(d) => Served(d)'
  BY RequeueServes DEF Served
<1>2. isReconnecting'[c] /\ Served(c)'
  BY <1>1, RequeueServes DEF QueueInv, Served
<1>3. \A d \in Component \ {c} :
        isReconnecting'[d] = isReconnecting[d] /\ eventQueue'[d] = eventQueue[d]
  BY RequeueServes
<1> QED
  BY <1>1, <1>2, <1>3 DEF QueueInv

(* A step that leaves reconnections, and lets no loop go.                  *)
LEMMA QuietStep ==
  ASSUME QueueInv, UNCHANGED <<isReconnecting, eventQueue, links>>,
         \A d \in Component : Resending(d) => Resending(d)'
  PROVE  QueueInv'
BY DEF QueueInv, Served, Opening, Mute

LEMMA SubmitServes ==
  ASSUME TypeOK, QueueInv, NEW c \in Component, NEW kind, NEW then, Submit(c, kind, then),
         \A d \in Component : turn[d] = "loop" => turn'[d] = "loop"
  PROVE  QueueInv'
<1>1. SendDataRequest(c, Len(events[c]) + 1, eventQueue[c], then)
  BY DEF Submit
<1>2. \A d \in Component : flight[d] \subseteq flight'[d]
  BY <1>1, SendEffect
<1>3. \A d \in Component : Resending(d) => Resending(d)'
  BY <1>2 DEF Resending
<1>4. CASE Requeue(c, Len(events[c]) + 1, eventQueue[c])
  BY <1>3, <1>4, RequeueStep
<1>5. CASE /\ eventQueue' = [eventQueue EXCEPT ![c] = eventQueue[c]]
           /\ UNCHANGED <<isReconnecting, connection, links>>
  <2>1. eventQueue' = eventQueue
    BY <1>5 DEF TypeOK
  <2> QED BY <1>3, <1>5, <2>1, QuietStep
<1> QED
  BY <1>1, <1>4, <1>5 DEF SendDataRequest

(* A step that settles a call passes its loop on to the thread.            *)
LEMMA SettleResends ==
  ASSUME TypeOK, Idle, NEW c \in Component, NEW f \in flight[c],
         flight' = [flight EXCEPT ![c] = @ \ {f}],
         turn' = [turn EXCEPT ![c] = f.then]
  PROVE  \A d \in Component : Resending(d) => Resending(d)'
<1> SUFFICES ASSUME NEW d \in Component, Resending(d) PROVE Resending(d)'
  OBVIOUS
<1>1. PICK g \in flight[d] : g.then = "loop"
  BY DEF Idle, Resending
<1>2. CASE d = c /\ g = f
  BY <1>1, <1>2 DEF Resending, TypeOK
<1>3. CASE d # c \/ g # f
  <2>1. g \in flight'[d]
    BY <1>1, <1>3 DEF TypeOK
  <2> QED BY <1>1, <2>1 DEF Resending
<1> QED
  BY <1>2, <1>3

LEMMA QueueStep == TypeOK /\ QueueInv /\ [Next]_vars => QueueInv'
<1> SUFFICES ASSUME TypeOK, QueueInv, [Next]_vars PROVE QueueInv'
  OBVIOUS
<1> USE DEF eventVars, sysVars, adConnectionManager
<1>1. ASSUME NEW c \in Component, Appear(c) PROVE QueueInv'
  <2>1. \A d \in Component : turn[d] = "loop" => turn'[d] = "loop"
    BY <1>1 DEF Appear, Idle
  <2>2. CASE Submit(c, "init", "idle")
    BY <2>1, <2>2, SubmitServes
  <2>3. CASE UNCHANGED <<eventVars, links>>
    BY <2>1, <2>3, QuietStep DEF Resending
  <2>4. CASE Open(c, "connect") /\ UNCHANGED eventVars
    <3>1. \A d \in Component : Served(d) => Served(d)'
      BY <2>1, <2>4, LinksGrow DEF Served, Resending
    <3> QED BY <2>4, <3>1 DEF QueueInv
  <2> QED BY <1>1, <2>2, <2>3, <2>4 DEF Appear, ConnectServiceExtAbility
<1>2. ASSUME NEW c \in Component, Mount(c) \/ Use(c) \/ SendClose(c) PROVE QueueInv'
  <2>1. \A d \in Component : turn[d] = "loop" => turn'[d] = "loop"
    BY <1>2 DEF Mount, Use, SendClose, Idle, TypeOK
  <2>2. Submit(c, "use", "idle") \/ Submit(c, "close", "leave")
    BY <1>2 DEF Mount, Use, SendClose
  <2> QED BY <2>1, <2>2, SubmitServes
<1>3. ASSUME NEW c \in Component, AppearDuplicate(c) \/ Disappear(c) \/ Leave(c) PROVE QueueInv'
  <2>1. \A d \in Component : Resending(d) => Resending(d)'
    BY <1>3 DEF AppearDuplicate, Disappear, Leave, Resending, TypeOK
  <2> QED BY <1>3, <2>1, QuietStep DEF AppearDuplicate, Disappear, Leave
<1>4. ASSUME NEW c \in Component, NEW f \in flight[c], Answered(c, f) PROVE QueueInv'
  BY <1>4, SettleResends, QuietStep DEF Answered
<1>5. ASSUME NEW c \in Component, NEW f \in flight[c], Throws(c, f) PROVE QueueInv'
  BY <1>5, SettleResends, RequeueStep DEF Throws
<1>6. ASSUME NEW c \in Component, ResendNext(c) PROVE QueueInv'
  <2> DEFINE h == Head(eventQueue[c])
             t == Tail(eventQueue[c])
  <2>1. SendDataRequest(c, h, t, "loop") /\ turn' = [turn EXCEPT ![c] = Awaited("loop")]
    BY <1>6 DEF ResendNext
  <2>2. isReconnecting[c]
    BY <1>6 DEF ResendNext, QueueInv
  <2>3. CASE remoteObj = NoLink
    <3>1. Requeue(c, h, t) /\ UNCHANGED flight /\ turn' = [turn EXCEPT ![c] = "loop"]
      BY <2>1, <2>3 DEF SendDataRequest, Awaited
    <3>2. \A d \in Component : Resending(d) => Resending(d)'
      BY <3>1 DEF Resending, TypeOK
    <3> QED BY <3>1, <3>2, RequeueStep
  <2>4. CASE remoteObj # NoLink
    <3> DEFINE f == [no |-> h, then |-> "loop"]
    <3>1. /\ flight' = [flight EXCEPT ![c] = @ \cup {f}]
          /\ eventQueue' = [eventQueue EXCEPT ![c] = t]
          /\ UNCHANGED <<isReconnecting, links>> /\ turn' = [turn EXCEPT ![c] = "idle"]
      BY <2>1, <2>4 DEF SendDataRequest, Awaited
    <3>2. f.then = "loop"
      OBVIOUS
    <3> HIDE DEF f, t
    <3>3. Resending(c)'
      BY <3>1, <3>2 DEF Resending, TypeOK
    <3>4. \A d \in Component \ {c} :
            Served(d) => Served(d)' /\ eventQueue'[d] = eventQueue[d]
      BY <3>1 DEF Served, Opening, Mute, Resending, TypeOK
    <3>5. \A d \in Component \ {c} : eventQueue'[d] = eventQueue[d]
      BY <3>1 DEF TypeOK
    <3> QED BY <2>2, <3>1, <3>3, <3>4, <3>5 DEF QueueInv, Served
  <2> QED BY <2>3, <2>4
<1>7. ASSUME NEW c \in Component, ResendDone(c) PROVE QueueInv'
  <2>1. /\ eventQueue' = eventQueue /\ eventQueue[c] = <<>> /\ ~isReconnecting'[c]
        /\ \A d \in Component \ {c} :
             isReconnecting'[d] = isReconnecting[d] /\ (Served(d) => Served(d)')
    BY <1>7 DEF ResendDone, Served, Opening, Mute, Resending, TypeOK
  <2> QED BY <2>1 DEF QueueInv
<1>8. ASSUME NEW i \in DOMAIN links, CallBack(i) PROVE QueueInv'
  <2>0. links[i] \in Link
    BY DEF TypeOK
  <2>1. PICK c \in Component : c = links[i].owner
    BY <2>0 DEF Link
  <2>2. \A d \in Component : Resending(d) => \E f \in flight'[d] : f.then = "loop"
    <3>1. \A d \in Component : flight[d] \subseteq flight'[d]
      <4>0. flight \in [Component -> SUBSET Flight]
        BY DEF TypeOK
      <4>1. CASE OnConnect(i) \/ OnReconnect(i)
        <5>1. UNCHANGED flight \/ \E f : flight' = [flight EXCEPT ![c] = @ \cup {f}]
          BY <2>1, <4>1 DEF OnConnect, OnReconnect
        <5> QED BY <4>0, <5>1
      <4>2. CASE OnConnectNull(i) \/ OnFailedOrDisconnect(i)
        BY <4>2 DEF OnConnectNull, OnFailedOrDisconnect, eventVars
      <4> QED BY <1>8, <4>1, <4>2 DEF CallBack
    <3>2. Idle
      BY <1>8 DEF CallBack, OnConnect, OnReconnect, OnConnectNull, OnFailedOrDisconnect, LinkMoves
    <3> QED BY <3>1, <3>2 DEF Idle, Resending
  <2>3. ASSUME NEW from, NEW to, LinkMoves(i, from, to), links[i].state \in from
        PROVE  /\ DOMAIN links' = DOMAIN links
               /\ \A j \in DOMAIN links \ {i} : links'[j] = links[j]
               /\ links'[i].owner = c /\ links'[i].kind = links[i].kind /\ links'[i].state = to
    <3>1. links[i].owner = c /\ links' = [links EXCEPT ![i] = [links[i] EXCEPT !.state = to]]
      BY <2>1, <2>3 DEF LinkMoves
    <3>2. /\ [links[i] EXCEPT !.state = to].owner = c
          /\ [links[i] EXCEPT !.state = to].kind = links[i].kind
          /\ [links[i] EXCEPT !.state = to].state = to
      BY <2>0, <2>1 DEF Link
    <3> QED BY <3>1, <3>2 DEF TypeOK
  <2>4. ASSUME OnConnect(i) PROVE QueueInv'
    <3>1. /\ LinkMoves(i, {"opening"}, "up") /\ links[i].kind = "connect"
          /\ UNCHANGED <<isReconnecting, eventQueue>>
      BY <2>4 DEF OnConnect
    <3>2. \A d \in Component : (Opening(d) => Opening(d)') /\ (Mute(d) => Mute(d)')
      BY <2>1, <3>1, <2>3 DEF Opening, Mute, LinkMoves
    <3>3. \A d \in Component : Served(d) => Served(d)'
      BY <2>2, <3>2 DEF Served, Resending
    <3> QED BY <3>1, <3>3 DEF QueueInv
  <2>5. ASSUME OnReconnect(i) PROVE QueueInv'
    <3> DEFINE f == [no |-> Len(events[c]) + 1, then |-> "loop"]
    <3>1. /\ LinkMoves(i, {"opening"}, "up") /\ flight' = [flight EXCEPT ![c] = @ \cup {f}]
          /\ UNCHANGED <<isReconnecting, eventQueue>>
      BY <2>1, <2>5 DEF OnReconnect
    <3>2. f.then = "loop"
      OBVIOUS
    <3> HIDE DEF f
    <3>3. Resending(c)'
      <4>1. f \in flight'[c]
        BY <2>1, <3>1 DEF TypeOK
      <4> QED BY <4>1, <3>2 DEF Resending
    <3>4. \A d \in Component \ {c} : (Opening(d) => Opening(d)') /\ (Mute(d) => Mute(d)')
      BY <2>1, <3>1, <2>3 DEF Opening, Mute, LinkMoves
    <3>5. \A d \in Component : Resending(d) => Resending(d)'
      BY <2>2 DEF Resending
    <3>6. \A d \in Component : Served(d) => Served(d)'
      BY <3>3, <3>4, <3>5 DEF Served
    <3> QED BY <3>1, <3>6 DEF QueueInv
  <2>6. ASSUME OnConnectNull(i) PROVE QueueInv'
    <3>1. LinkMoves(i, {"opening"}, "mute") /\ UNCHANGED <<isReconnecting, eventQueue>>
      BY <2>6 DEF OnConnectNull
    <3>2. \A d \in Component : Opening(d) \/ Mute(d) => Opening(d)' \/ Mute(d)'
      BY <2>1, <3>1, <2>3 DEF Opening, Mute, LinkMoves
    <3>3. \A d \in Component : Served(d) => Served(d)'
      BY <2>2, <3>2 DEF Served, Resending
    <3> QED BY <3>1, <3>3 DEF QueueInv
  <2>7. ASSUME OnFailedOrDisconnect(i) PROVE QueueInv'
    <3>1. LinkMoves(i, {"opening", "up", "mute"}, "down")
      BY <2>7 DEF OnFailedOrDisconnect
    <3>2. ASSUME links[i].kind = "reconnect" PROVE QueueInv'
      <4>1. /\ isReconnecting' = [isReconnecting EXCEPT ![c] = FALSE]
            /\ eventQueue' = [eventQueue EXCEPT ![c] = <<>>]
        BY <2>1, <2>7, <3>2 DEF OnFailedOrDisconnect
      <4>2. /\ ~isReconnecting'[c] /\ eventQueue'[c] = <<>>
            /\ \A d \in Component \ {c} :
                 isReconnecting'[d] = isReconnecting[d] /\ eventQueue'[d] = eventQueue[d]
        BY <2>1, <4>1 DEF TypeOK
      <4>3. \A d \in Component \ {c} : (Opening(d) => Opening(d)') /\ (Mute(d) => Mute(d)')
        BY <2>1, <3>1, <2>3 DEF Opening, Mute, LinkMoves
      <4>4. \A d \in Component \ {c} : Served(d) => Served(d)'
        BY <2>2, <4>3 DEF Served, Resending
      <4> QED BY <4>2, <4>4 DEF QueueInv
    <3>3. ASSUME links[i].kind # "reconnect" PROVE QueueInv'
      <4>1. UNCHANGED <<isReconnecting, eventQueue>>
        BY <2>7, <3>3 DEF OnFailedOrDisconnect
      <4>2. \A d \in Component : (Opening(d) => Opening(d)') /\ (Mute(d) => Mute(d)')
        BY <2>1, <3>1, <3>3, <2>3 DEF Opening, Mute, LinkMoves
      <4>3. \A d \in Component : Served(d) => Served(d)'
        BY <2>2, <4>2 DEF Served, Resending
      <4> QED BY <4>1, <4>3 DEF QueueInv
    <3> QED BY <3>2, <3>3
  <2> QED BY <1>8, <2>4, <2>5, <2>6, <2>7 DEF CallBack
<1>9. ASSUME NEW c \in Component, DisconnectSettles(c) PROVE QueueInv'
  BY <1>9, QuietStep DEF DisconnectSettles, Resending
<1>10. CASE UNCHANGED vars
  BY <1>10, QuietStep DEF vars, Resending
<1> QED
  BY <1>1, <1>2, <1>3, <1>4, <1>5, <1>6, <1>7, <1>8, <1>9, <1>10 DEF Next, Step, Settle, Resend

(* However reconnections overlap and whichever of them ends first: events  *)
(* in a queue have a reconnection under way or a loop that will take them, *)
(* or their component's reconnection was given a null remote object.       *)
THEOREM QueueIsServedCorrect == Spec => []QueueIsServed
<1>1. Init => QueueInv
  BY DEF Init, QueueInv
<1>2. QueueInv => QueueIsServed
  BY DEF QueueInv, QueueIsServed, Served
<1> QED
  BY <1>1, <1>2, QueueStep, ConnectionTypeCorrect, PTL DEF Spec

-----------------------------------------------------------------------------
(* A component is shown only after its INIT was answered.                  *)

InitAnswered(c) ==
  \E no \in DOMAIN events[c] : events[c][no].kind = "init" /\ events[c][no].fate = "answered"

Owner(c) == \E i \in DOMAIN links : links[i].owner = c

(* Nothing is done for a component that was not let through.               *)
FreshInv ==
  \A c \in Component : life[c] \in {"new", "duplicate"} =>
    ~isAdRenderer[c] /\ ~showComponent[c] /\ turn[c] = "idle" /\ flight[c] = {} /\ ~Owner(c)

ShownInv == \A c \in Component : showComponent[c] /\ isAdRenderer[c] => InitAnswered(c)

LEMMA OpenOwners ==
  ASSUME TypeOK, NEW c \in Component, NEW kind \in {"connect", "reconnect"}, Open(c, kind)
  PROVE  \A d \in Component \ {c} : Owner(d)' => Owner(d)
<1> DEFINE link == [owner |-> c, kind |-> kind, state |-> "opening"]
<1>0. link.owner = c /\ link \in Link
  BY DEF Link
<1>1. links' = Append(links, link) /\ links \in Seq(Link)
  BY DEF Open, TypeOK
<1> HIDE DEF link
<1>2. /\ DOMAIN links' = DOMAIN links \cup {Len(links) + 1}
      /\ links'[Len(links) + 1] = link
      /\ \A i \in DOMAIN links : links'[i] = links[i]
  BY <1>0, <1>1
<1> QED
  BY <1>0, <1>2 DEF Owner

LEMMA RequeueOwners ==
  ASSUME TypeOK, NEW c \in Component, NEW no, NEW q, Requeue(c, no, q)
  PROVE  \A d \in Component \ {c} : Owner(d)' => Owner(d)
BY OpenOwners DEF Requeue, Owner

LEMMA SendOwners ==
  ASSUME TypeOK, NEW c \in Component, NEW no, NEW q, NEW then, SendDataRequest(c, no, q, then)
  PROVE  \A d \in Component \ {c} : (Owner(d)' => Owner(d)) /\ flight'[d] = flight[d]
<1>1. \A d \in Component \ {c} : flight'[d] = flight[d]
  BY SendEffect
<1>2. CASE Requeue(c, no, q)
  BY <1>1, <1>2, RequeueOwners
<1>3. CASE UNCHANGED links
  BY <1>1, <1>3 DEF Owner
<1> QED
  BY <1>2, <1>3 DEF SendDataRequest

(* A step of c that leaves everything else as it is.                       *)
LEMMA FreshStep ==
  ASSUME FreshInv, NEW c \in Component, life'[c] \notin {"new", "duplicate"},
         \A d \in Component \ {c} :
           /\ life'[d] = life[d] /\ isAdRenderer'[d] = isAdRenderer[d]
           /\ showComponent'[d] = showComponent[d] /\ turn'[d] = turn[d]
           /\ flight'[d] = flight[d] /\ (Owner(d)' => Owner(d))
  PROVE  FreshInv'
BY DEF FreshInv

LEMMA FreshNext == TypeOK /\ FreshInv /\ [Next]_vars => FreshInv'
<1> SUFFICES ASSUME TypeOK, FreshInv, [Next]_vars PROVE FreshInv'
  OBVIOUS
<1> USE DEF viewVars, eventVars, sysVars, adConnectionManager
<1>1. ASSUME NEW c \in Component, Appear(c) PROVE FreshInv'
  <2>1. /\ life'[c] = "appeared"
        /\ \A d \in Component \ {c} :
             /\ life'[d] = life[d] /\ isAdRenderer'[d] = isAdRenderer[d]
             /\ showComponent'[d] = showComponent[d] /\ turn'[d] = turn[d]
    BY <1>1 DEF Appear, TypeOK
  <2>2. \A d \in Component \ {c} : flight'[d] = flight[d] /\ (Owner(d)' => Owner(d))
    <3>1. CASE Submit(c, "init", "idle")
      BY <3>1, SendOwners DEF Submit
    <3>2. CASE UNCHANGED <<flight, links>>
      BY <3>2 DEF Owner
    <3>3. CASE Open(c, "connect") /\ UNCHANGED flight
      BY <3>3, OpenOwners
    <3> QED BY <1>1, <3>1, <3>2, <3>3 DEF Appear, ConnectServiceExtAbility
  <2> QED BY <2>1, <2>2, FreshStep
<1>2. ASSUME NEW c \in Component, AppearDuplicate(c) PROVE FreshInv'
  <2>1. /\ \A d \in Component : life'[d] \in {"new", "duplicate"} => life[d] \in {"new", "duplicate"}
        /\ UNCHANGED <<isAdRenderer, showComponent, turn, flight, links>>
    BY <1>2 DEF AppearDuplicate, TypeOK
  <2> QED BY <2>1 DEF FreshInv, Owner
<1>3. ASSUME NEW c \in Component, Mount(c) \/ Use(c) \/ SendClose(c) PROVE FreshInv'
  <2>1. /\ life'[c] \notin {"new", "duplicate"}
        /\ \A d \in Component \ {c} :
             /\ life'[d] = life[d] /\ isAdRenderer'[d] = isAdRenderer[d]
             /\ showComponent'[d] = showComponent[d] /\ turn'[d] = turn[d]
    BY <1>3 DEF Mount, Use, SendClose, FreshInv, TypeOK
  <2>2. \E kind, then : Submit(c, kind, then)
    BY <1>3 DEF Mount, Use, SendClose
  <2>3. \A d \in Component \ {c} : flight'[d] = flight[d] /\ (Owner(d)' => Owner(d))
    BY <2>2, SendOwners DEF Submit
  <2> QED BY <2>1, <2>3, FreshStep
<1>4. ASSUME NEW c \in Component, NEW f \in flight[c], Answered(c, f) \/ Throws(c, f)
      PROVE  FreshInv'
  <2>1. /\ life'[c] \notin {"new", "duplicate"}
        /\ \A d \in Component \ {c} :
             /\ life'[d] = life[d] /\ isAdRenderer'[d] = isAdRenderer[d]
             /\ showComponent'[d] = showComponent[d] /\ turn'[d] = turn[d]
             /\ flight'[d] = flight[d]
    BY <1>4 DEF Answered, Throws, FreshInv, TypeOK
  <2>2. \A d \in Component \ {c} : Owner(d)' => Owner(d)
    <3>1. CASE Answered(c, f)
      BY <3>1 DEF Answered, Owner
    <3>2. CASE Throws(c, f)
      BY <3>2, RequeueOwners DEF Throws
    <3> QED BY <1>4, <3>1, <3>2
  <2> QED BY <2>1, <2>2, FreshStep
<1>5. ASSUME NEW c \in Component, ResendNext(c) PROVE FreshInv'
  <2>1. /\ life'[c] \notin {"new", "duplicate"}
        /\ \A d \in Component \ {c} :
             /\ life'[d] = life[d] /\ isAdRenderer'[d] = isAdRenderer[d]
             /\ showComponent'[d] = showComponent[d] /\ turn'[d] = turn[d]
    BY <1>5 DEF ResendNext, FreshInv, TypeOK
  <2>2. \A d \in Component \ {c} : flight'[d] = flight[d] /\ (Owner(d)' => Owner(d))
    BY <1>5, SendOwners DEF ResendNext
  <2> QED BY <2>1, <2>2, FreshStep
<1>6. ASSUME NEW c \in Component, ResendDone(c) \/ Disappear(c) \/ Leave(c) PROVE FreshInv'
  <2>1. /\ life'[c] \notin {"new", "duplicate"}
        /\ \A d \in Component \ {c} :
             /\ life'[d] = life[d] /\ isAdRenderer'[d] = isAdRenderer[d]
             /\ showComponent'[d] = showComponent[d] /\ turn'[d] = turn[d]
             /\ flight'[d] = flight[d] /\ (Owner(d)' => Owner(d))
    BY <1>6 DEF ResendDone, Disappear, Leave, FreshInv, TypeOK, Owner
  <2> QED BY <2>1, FreshStep
<1>7. ASSUME NEW i \in DOMAIN links, CallBack(i) PROVE FreshInv'
  <2>0. links[i] \in Link
    BY DEF TypeOK
  <2>1. PICK c \in Component : c = links[i].owner
    BY <2>0 DEF Link
  <2>2. life[c] \notin {"new", "duplicate"}
    BY <2>1 DEF FreshInv, Owner
  <2>3. /\ UNCHANGED viewVars /\ UNCHANGED turn
        /\ \A d \in Component \ {c} : flight'[d] = flight[d]
    BY <1>7, <2>1 DEF CallBack, OnConnect, OnReconnect, OnConnectNull, OnFailedOrDisconnect, TypeOK
  <2>4. \A d : Owner(d)' => Owner(d)
    <3>1. PICK to \in {"up", "mute", "down"} : links' = [links EXCEPT ![i] = [links[i] EXCEPT !.state = to]]
      BY <1>7 DEF CallBack, OnConnect, OnReconnect, OnConnectNull, OnFailedOrDisconnect, LinkMoves
    <3>2. [links[i] EXCEPT !.state = to].owner = links[i].owner
      BY <2>0 DEF Link
    <3>3. DOMAIN links' = DOMAIN links /\ \A j \in DOMAIN links : links'[j].owner = links[j].owner
      BY <3>1, <3>2
    <3> QED BY <3>3 DEF Owner
  <2> QED BY <2>2, <2>3, <2>4, FreshStep
<1>8. ASSUME NEW c \in Component, DisconnectSettles(c) PROVE FreshInv'
  BY <1>8 DEF DisconnectSettles, FreshInv, Owner
<1>9. CASE UNCHANGED vars
  BY <1>9 DEF vars, FreshInv, Owner
<1> QED
  BY <1>1, <1>2, <1>3, <1>4, <1>5, <1>6, <1>7, <1>8, <1>9 DEF Next, Step, Settle, Resend

LEMMA AnsweredEvent ==
  ASSUME NEW all \in Seq(AdEvent), NEW no \in DOMAIN all
  PROVE  LET ev == Fated(all, no, "answered") IN
         /\ DOMAIN ev = DOMAIN all
         /\ ev[no].fate = "answered"
         /\ \A n \in DOMAIN all : ev[n].kind = all[n].kind
         /\ \A n \in DOMAIN all : all[n].fate = "answered" => ev[n].fate = "answered"
<1>1. "answered" \in Fate
  BY DEF Fate
<1>2. /\ DOMAIN Fated(all, no, "answered") = DOMAIN all
      /\ Fated(all, no, "answered")[no].fate = "answered"
      /\ \A n \in DOMAIN all : Fated(all, no, "answered")[n].kind = all[n].kind
      /\ \A n \in DOMAIN all \ {no} : Fated(all, no, "answered")[n] = all[n]
  BY <1>1, FatedEvent
<1> QED
  BY <1>2

(* Events that were answered stay so.                                      *)
LEMMA SubmitKeepsAnswers ==
  ASSUME TypeOK, NEW c \in Component, NEW d \in Component, NEW kind \in {"init", "close", "use"},
         events' = [events EXCEPT ![c] = Append(@, Pending(kind))], InitAnswered(d)
  PROVE  InitAnswered(d)'
<1>1. events[c] \in Seq(AdEvent)
  BY DEF TypeOK
<1>2. CASE d = c
  <2>1. events'[c] = Append(events[c], Pending(kind))
    BY DEF TypeOK
  <2>2. \A no \in DOMAIN events[c] : no \in DOMAIN events'[c] /\ events'[c][no] = events[c][no]
    BY <1>1, <2>1, AppendEvent
  <2> QED BY <1>2, <2>2 DEF InitAnswered
<1>3. CASE d # c
  <2>1. events'[d] = events[d]
    BY <1>3 DEF TypeOK
  <2> QED BY <2>1 DEF InitAnswered
<1> QED
  BY <1>2, <1>3

LEMMA AnswersStay ==
  ASSUME TypeOK, EventsAccounted, [Next]_vars, NEW d \in Component, InitAnswered(d)
  PROVE  InitAnswered(d)'
<1>0. ASSUME UNCHANGED events PROVE InitAnswered(d)'
  BY <1>0 DEF InitAnswered
<1> USE DEF eventVars
<1>1. ASSUME NEW c \in Component,
             Appear(c) \/ Mount(c) \/ Use(c) \/ SendClose(c)
      PROVE  InitAnswered(d)'
  <2>1. \/ \E kind \in {"init", "close", "use"} :
             events' = [events EXCEPT ![c] = Append(@, Pending(kind))]
        \/ UNCHANGED events
    BY <1>1 DEF Appear, ConnectServiceExtAbility, Mount, Use, SendClose, Submit, Pending
  <2> QED BY <2>1, <1>0, SubmitKeepsAnswers
<1>2. ASSUME NEW c \in Component,
             AppearDuplicate(c) \/ Disappear(c) \/ Leave(c) \/ Resend(c)
      PROVE  InitAnswered(d)'
  BY <1>0, <1>2 DEF AppearDuplicate, Disappear, Leave, Resend, ResendNext, ResendDone
<1>3. ASSUME NEW c \in Component, NEW f \in flight[c], Answered(c, f) PROVE InitAnswered(d)'
  <2>1. events[c] \in Seq(AdEvent) /\ f.no \in DOMAIN events[c]
    BY FlightOfAccounted DEF TypeOK, FlightOK
  <2>2. /\ events'[c] = Fated(events[c], f.no, "answered")
        /\ \A e \in Component \ {c} : events'[e] = events[e]
    BY <1>3 DEF Answered, FateOf, Fated, TypeOK
  <2>3. \A no \in DOMAIN events[c] :
          /\ no \in DOMAIN events'[c] /\ events'[c][no].kind = events[c][no].kind
          /\ events[c][no].fate = "answered" => events'[c][no].fate = "answered"
    BY <2>1, <2>2, AnsweredEvent
  <2> QED BY <2>2, <2>3 DEF InitAnswered
<1>4. ASSUME NEW c \in Component, NEW f \in flight[c], Throws(c, f) PROVE InitAnswered(d)'
  BY <1>0, <1>4 DEF Throws
<1>5. ASSUME NEW i \in DOMAIN links, CallBack(i) PROVE InitAnswered(d)'
  <2>0. links[i] \in Link
    BY DEF TypeOK
  <2>1. PICK c \in Component : c = links[i].owner
    BY <2>0 DEF Link
  <2>2. CASE OnConnect(i) \/ OnReconnect(i) \/ OnConnectNull(i)
    <3>1. events' = [events EXCEPT ![c] = Append(@, Pending("init"))] \/ UNCHANGED events
      BY <2>1, <2>2 DEF OnConnect, OnReconnect, OnConnectNull, Pending
    <3> QED BY <3>1, <1>0, SubmitKeepsAnswers
  <2>3. CASE OnFailedOrDisconnect(i)
    <3>1. \/ UNCHANGED events
          \/ events' = [events EXCEPT ![c] = Dropped(@, eventQueue[c])]
      BY <2>1, <2>3 DEF OnFailedOrDisconnect
    <3>2. CASE events' = [events EXCEPT ![c] = Dropped(@, eventQueue[c])]
      <4>1. /\ events'[c] = Dropped(events[c], eventQueue[c])
            /\ \A e \in Component \ {c} : events'[e] = events[e]
        BY <3>2 DEF TypeOK
      <4>2. Kept(events[c], eventQueue[c], flight[c])
        BY NowKept
      <4>3. \A no \in DOMAIN events[c] :
              no \in DOMAIN events'[c]
              /\ (events[c][no].fate = "answered" => events'[c][no] = events[c][no])
        BY <4>1, <4>2 DEF Kept, Dropped
      <4> QED BY <4>1, <4>3 DEF InitAnswered
    <3> QED BY <3>1, <3>2, <1>0
  <2> QED BY <1>5, <2>2, <2>3 DEF CallBack
<1>6. ASSUME NEW c \in Component, DisconnectSettles(c) PROVE InitAnswered(d)'
  BY <1>0, <1>6 DEF DisconnectSettles
<1>7. CASE UNCHANGED vars
  BY <1>0, <1>7 DEF vars
<1> QED
  BY <1>1, <1>2, <1>3, <1>4, <1>5, <1>6, <1>7 DEF Next, Step, Settle

LEMMA ShownNext == TypeOK /\ EventsAccounted /\ ShownInv /\ [Next]_vars => ShownInv'
<1> SUFFICES ASSUME TypeOK, EventsAccounted, ShownInv, [Next]_vars,
                    NEW d \in Component, showComponent'[d], isAdRenderer'[d]
             PROVE  InitAnswered(d)'
  BY DEF ShownInv
<1>0. ASSUME showComponent[d], isAdRenderer[d] PROVE InitAnswered(d)'
  BY <1>0, AnswersStay DEF ShownInv
<1> USE DEF viewVars
<1>1. ASSUME NEW c \in Component, Appear(c) PROVE InitAnswered(d)'
  <2>1. CASE d = c
    BY <1>1, <2>1 DEF Appear, TypeOK
  <2>2. CASE d # c
    BY <1>0, <1>1, <2>2 DEF Appear, TypeOK
  <2> QED BY <2>1, <2>2
<1>2. ASSUME UNCHANGED <<showComponent, isAdRenderer>> PROVE InitAnswered(d)'
  BY <1>0, <1>2
<1>3. ASSUME NEW c \in Component, NEW f \in flight[c], Answered(c, f) PROVE InitAnswered(d)'
  <2>1. /\ UNCHANGED isAdRenderer
        /\ showComponent' = [showComponent EXCEPT ![c] = @ \/ events[c][f.no].kind = "init"]
    BY <1>3 DEF Answered
  <2>2. CASE d = c /\ events[c][f.no].kind = "init"
    <3>1. events[c] \in Seq(AdEvent) /\ f.no \in DOMAIN events[c]
      BY FlightOfAccounted DEF TypeOK, FlightOK
    <3>2. events'[c] = Fated(events[c], f.no, "answered")
      BY <1>3 DEF Answered, FateOf, Fated, TypeOK
    <3>3. /\ f.no \in DOMAIN events'[c]
          /\ events'[c][f.no].kind = "init" /\ events'[c][f.no].fate = "answered"
      BY <2>2, <3>1, <3>2, AnsweredEvent
    <3> QED BY <2>2, <3>3 DEF InitAnswered
  <2>3. CASE ~(d = c /\ events[c][f.no].kind = "init")
    <3>1. showComponent[d]
      BY <2>1, <2>3 DEF TypeOK
    <3> QED BY <1>0, <2>1, <3>1
  <2> QED BY <2>2, <2>3
<1>4. ASSUME NEW c \in Component,
             AppearDuplicate(c) \/ Mount(c) \/ Use(c) \/ Resend(c)
             \/ Disappear(c) \/ SendClose(c) \/ Leave(c)
      PROVE  InitAnswered(d)'
  BY <1>2, <1>4 DEF AppearDuplicate, Mount, Use, Resend, ResendNext, ResendDone,
                    Disappear, SendClose, Leave
<1>5. ASSUME NEW c \in Component, NEW f \in flight[c], Throws(c, f) PROVE InitAnswered(d)'
  BY <1>2, <1>5 DEF Throws
<1>6. ASSUME NEW i \in DOMAIN links, CallBack(i) PROVE InitAnswered(d)'
  BY <1>2, <1>6 DEF CallBack, OnConnect, OnReconnect, OnConnectNull, OnFailedOrDisconnect
<1>7. ASSUME NEW c \in Component, DisconnectSettles(c) PROVE InitAnswered(d)'
  BY <1>2, <1>7 DEF DisconnectSettles
<1>8. CASE UNCHANGED vars
  BY <1>2, <1>8 DEF vars
<1> QED
  BY <1>1, <1>3, <1>4, <1>5, <1>6, <1>7, <1>8 DEF Next, Step, Settle

(* Whatever others do with the shared connection: a component that renders *)
(* itself is shown only after an INIT of its own was answered, and a       *)
(* refused duplicate never.                                                *)
THEOREM ShownAfterInitCorrect == Spec => []ShownAfterInit
<1>1. Init => FreshInv /\ ShownInv
  BY DEF Init, FreshInv, ShownInv, Owner
<1>2. FreshInv /\ ShownInv => ShownAfterInit
  BY DEF FreshInv, ShownInv, ShownAfterInit, InitAnswered
<1> QED
  BY <1>1, <1>2, FreshNext, ShownNext, ConnectionTypeCorrect, EventsAccountedCorrect, PTL DEF Spec

-----------------------------------------------------------------------------
(* Main components.                                                        *)

Left(ad) == \E e \in MainType : AdOf[e] = ad /\ life[e] \in {"leaving", "gone"}

(* Until a main component of an ad has left, its counter knows whether one *)
(* has been let through.                                                   *)
Counted ==
  \A c \in MainType : life[c] = "appeared" => Left(AdOf[c]) \/ adMainCounter[AdOf[c]] > 0

MainInv == Counted /\ OneMainUntilOneLeaves

(* The steps that change what pages see of a component's life.             *)
LEMMA LifeSteps ==
  ASSUME [Next]_vars
  PROVE  \/ UNCHANGED <<life, adMainCounter>>
         \/ \E c \in Component :
              \/ Appear(c) \/ AppearDuplicate(c) \/ Disappear(c) \/ SendClose(c) \/ Leave(c)
BY DEF Next, Step, Mount, Use, Settle, Answered, Throws, Resend, ResendNext, ResendDone, CallBack,
       OnConnect, OnReconnect, OnConnectNull, OnFailedOrDisconnect, DisconnectSettles, viewVars, vars

(* Whoever left stays away.                                                *)
LEMMA LeftStays == ASSUME TypeOK, [Next]_vars, NEW ad, Left(ad) PROVE Left(ad)'
<1>1. PICK e \in MainType : AdOf[e] = ad /\ life[e] \in {"leaving", "gone"}
  BY DEF Left
<1>2. e \in Component
  BY AdConnectionAssumption
<1>3. life'[e] \in {"leaving", "gone"}
  BY <1>1, <1>2, LifeSteps DEF Appear, AppearDuplicate, Disappear, SendClose, Leave, TypeOK
<1> QED
  BY <1>1, <1>3 DEF Left

LEMMA MainStep == TypeOK /\ MainInv /\ [Next]_vars => MainInv'
<1> SUFFICES ASSUME TypeOK, MainInv, [Next]_vars PROVE MainInv'
  OBVIOUS
<1> USE AdConnectionAssumption
<1>1. CASE UNCHANGED <<life, adMainCounter>>
  BY <1>1 DEF MainInv, Counted, OneMainUntilOneLeaves, Left
<1>2. ASSUME NEW c \in Component, Disappear(c) \/ SendClose(c) \/ Leave(c) PROVE MainInv'
  <2>1. /\ \A d \in Component : life'[d] = "appeared" => life[d] = "appeared"
        /\ life'[c] \in {"leaving", "gone"}
    BY <1>2 DEF Disappear, SendClose, Leave, TypeOK
  <2>2. \A ad \in Ad : adMainCounter'[ad] = adMainCounter[ad] \/ (c \in MainType /\ ad = AdOf[c])
    BY <1>2 DEF Disappear, SendClose, Leave, ClearMainAdCounter, TypeOK
  <2>3. ASSUME c \in MainType PROVE Left(AdOf[c])'
    BY <2>1, <2>3 DEF Left
  <2>4. Counted'
    <3> SUFFICES ASSUME NEW d \in MainType, life'[d] = "appeared"
                 PROVE  Left(AdOf[d])' \/ adMainCounter'[AdOf[d]] > 0
      BY DEF Counted
    <3>1. Left(AdOf[d]) \/ adMainCounter[AdOf[d]] > 0
      BY <2>1 DEF MainInv, Counted
    <3>2. CASE Left(AdOf[d])
      BY <3>2, LeftStays
    <3>3. CASE adMainCounter[AdOf[d]] > 0 /\ adMainCounter'[AdOf[d]] = adMainCounter[AdOf[d]]
      BY <3>3
    <3>4. CASE c \in MainType /\ AdOf[d] = AdOf[c]
      BY <2>3, <3>4
    <3>5. AdOf[d] \in Ad
      OBVIOUS
    <3> QED BY <2>2, <3>1, <3>2, <3>3, <3>4, <3>5
  <2>5. OneMainUntilOneLeaves'
    <3> SUFFICES ASSUME NEW d \in MainType, NEW e \in MainType,
                        AdOf[d] = AdOf[e], life'[d] = "appeared", life'[e] = "appeared", d # e
                 PROVE  Left(AdOf[d])'
      BY DEF OneMainUntilOneLeaves, Left
    <3>1. Left(AdOf[d])
      BY <2>1 DEF MainInv, OneMainUntilOneLeaves, Left
    <3> QED BY <3>1, LeftStays
  <2> QED BY <2>4, <2>5 DEF MainInv
<1>3. ASSUME NEW c \in Component, Appear(c) \/ AppearDuplicate(c) PROVE MainInv'
  <2>1. /\ \A d \in Component \ {c} : life'[d] = life[d]
        /\ c \in MainType /\ life'[c] = "appeared" => adMainCounter[AdOf[c]] = 0
    <3>1. CASE Appear(c)
      BY <3>1 DEF Appear, TypeOK
    <3>2. CASE AppearDuplicate(c)
      BY <3>2 DEF AppearDuplicate, TypeOK
    <3> QED BY <1>3, <3>1, <3>2
  <2>0. \/ adMainCounter' = adMainCounter /\ c \notin MainType
        \/ \E n \in Nat \ {0} : adMainCounter' = [adMainCounter EXCEPT ![AdOf[c]] = n]
    <3>1. CASE Appear(c)
      <4>1. 1 \in Nat \ {0}
        OBVIOUS
      <4> QED BY <3>1, <4>1 DEF Appear
    <3>2. CASE AppearDuplicate(c)
      <4>1. adMainCounter[AdOf[c]] + 1 \in Nat \ {0}
        BY <3>2 DEF AppearDuplicate, TypeOK
      <4> QED BY <3>2, <4>1 DEF AppearDuplicate
    <3> QED BY <1>3, <3>1, <3>2
  <2>m. adMainCounter \in [Ad -> Nat] /\ AdOf[c] \in Ad
    BY DEF TypeOK
  <2>2. ASSUME NEW ad \in Ad, adMainCounter[ad] > 0 PROVE adMainCounter'[ad] > 0
    <3>1. CASE adMainCounter' = adMainCounter
      BY <2>2, <3>1
    <3>2. ASSUME NEW n \in Nat \ {0}, adMainCounter' = [adMainCounter EXCEPT ![AdOf[c]] = n]
          PROVE  adMainCounter'[ad] > 0
      BY <2>2, <2>m, <3>2
    <3> QED BY <2>0, <3>1, <3>2
  <2>3. c \in MainType => adMainCounter'[AdOf[c]] > 0
    <3>1. ASSUME NEW n \in Nat \ {0}, adMainCounter' = [adMainCounter EXCEPT ![AdOf[c]] = n]
          PROVE  adMainCounter'[AdOf[c]] > 0
      BY <2>m, <3>1
    <3> QED BY <2>0, <3>1
  <2>4. Counted'
    <3> SUFFICES ASSUME NEW d \in MainType, life'[d] = "appeared"
                 PROVE  Left(AdOf[d])' \/ adMainCounter'[AdOf[d]] > 0
      BY DEF Counted
    <3>1. CASE d = c
      BY <2>3, <3>1
    <3>2. CASE d # c
      <4>1. Left(AdOf[d]) \/ adMainCounter[AdOf[d]] > 0
        BY <2>1, <3>2 DEF MainInv, Counted
      <4>2. AdOf[d] \in Ad
        OBVIOUS
      <4> QED BY <2>2, <4>1, <4>2, LeftStays
    <3> QED BY <3>1, <3>2
  <2>5. OneMainUntilOneLeaves'
    <3> SUFFICES ASSUME NEW d \in MainType, NEW e \in MainType,
                        AdOf[d] = AdOf[e], life'[d] = "appeared", life'[e] = "appeared", d # e
                 PROVE  Left(AdOf[d])'
      BY DEF OneMainUntilOneLeaves, Left
    <3>1. CASE d # c /\ e # c
      <4>1. Left(AdOf[d])
        BY <2>1, <3>1 DEF MainInv, OneMainUntilOneLeaves, Left
      <4> QED BY <4>1, LeftStays
    <3>2. ASSUME NEW o \in MainType, o # c, AdOf[o] = AdOf[c], life'[o] = "appeared",
                 c \in MainType, life'[c] = "appeared"
          PROVE  Left(AdOf[c])'
      <4>1. life[o] = "appeared" /\ adMainCounter[AdOf[o]] = 0
        BY <2>1, <3>2
      <4>2. Left(AdOf[c])
        BY <3>2, <4>1 DEF MainInv, Counted
      <4> QED BY <4>2, LeftStays
    <3>3. CASE d = c
      BY <3>2, <3>3
    <3>4. CASE e = c
      BY <3>2, <3>4
    <3> QED BY <3>1, <3>3, <3>4
  <2> QED BY <2>4, <2>5 DEF MainInv
<1> QED
  BY <1>1, <1>2, <1>3, LifeSteps

(* Until a main component of an ad has disappeared one at most is let      *)
(* through, however components appear, are refused and share connections.  *)
THEOREM OneMainCorrect == Spec => []OneMainUntilOneLeaves
<1>1. Init => MainInv
  BY AdConnectionAssumption DEF Init, MainInv, Counted, OneMainUntilOneLeaves
<1>2. MainInv => OneMainUntilOneLeaves
  BY DEF MainInv
<1> QED
  BY <1>1, <1>2, MainStep, ConnectionTypeCorrect, PTL DEF Spec

-----------------------------------------------------------------------------
(* A component and its extension.                                          *)

LEMMA StepIsNext ==
  /\ Step => Next
  /\ \A c \in Component : DisconnectSettles(c) => Next
  /\ UiStep => UNCHANGED vars
BY DEF Next, UiStep

(* The extension changes nothing of the components: every behaviour with   *)
(* one is a behaviour of AdConnection, whose theorems hold of it too.      *)
THEOREM ExtensionApart == ComponentSpec => Spec
<1>1. ComponentInit => Init
  BY DEF ComponentInit
<1>2. [ComponentNext]_componentVars => [Next]_vars
  <2>1. ASSUME NEW c \in Component, DisconnectionEnds(c) PROVE Next
    BY <2>1, StepIsNext DEF DisconnectionEnds
  <2>2. CASE UNCHANGED componentVars
    BY <2>2 DEF componentVars
  <2> QED BY <2>1, <2>2, StepIsNext DEF ComponentNext
<1> QED
  BY <1>1, <1>2, PTL DEF ComponentSpec, Spec

(* What the extension knows, by its own callbacks and by the component's.  *)
LEMMA SeesStep == UiTypeOK /\ UiInv /\ [ComponentNext]_componentVars => UiTypeOK' /\ UiInv'
<1> SUFFICES ASSUME UiTypeOK, UiInv, [ComponentNext]_componentVars PROVE UiTypeOK' /\ UiInv'
  OBVIOUS
<1> USE DEF UiTypeOK, UiInv, RemoteSeesArea, Extension, Area
<1>1. ASSUME UNCHANGED uiVars PROVE UiTypeOK' /\ UiInv'
  BY <1>1 DEF uiVars
<1>2. CASE RemoteReady
  BY <1>2 DEF RemoteReady
<1>3. CASE ReceiverRegisters
  BY <1>3 DEF ReceiverRegisters
<1>4. CASE ExtensionDies
  BY <1>4 DEF ExtensionDies
<1>5. ASSUME NEW a \in Area, UiAreaChange(a) PROVE UiTypeOK' /\ UiInv'
  BY <1>5 DEF UiAreaChange, InGap
<1>6. ASSUME NEW c \in Component, DisconnectionEnds(c) PROVE UiTypeOK' /\ UiInv'
  <2>1. CASE ProxyDropped
    BY <2>1 DEF ProxyDropped
  <2> QED BY <1>1, <1>6, <2>1 DEF DisconnectionEnds
<1>7. CASE UNCHANGED componentVars
  BY <1>1, <1>7 DEF componentVars
<1> QED
  BY <1>1, <1>2, <1>3, <1>4, <1>5, <1>6, <1>7 DEF ComponentNext, UiStep

(* For any components and answers: an extension that listens was told last *)
(* what is seen of it, but for a change in the gap before its receiver, or *)
(* one after a disconnection took the component's proxy.                   *)
THEOREM ComponentSeesArea == ComponentSpec => []RemoteSeesArea
<1>1. ComponentInit => UiTypeOK /\ UiInv
  BY DEF ComponentInit, UiInit, UiTypeOK, UiInv, RemoteSeesArea, Extension, Area
<1>2. UiInv => RemoteSeesArea
  BY DEF UiInv
<1> QED
  BY <1>1, <1>2, SeesStep, PTL DEF ComponentSpec
=============================================================================
