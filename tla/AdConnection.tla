----------------------------- MODULE AdConnection -----------------------------
(***************************************************************************)
(* The components that show ads in the application's pages (AdComponent)   *)
(* and the one connection to the provider's API service they share.        *)
(*                                                                         *)
(* All of it runs in one JavaScript thread, but sendDataRequest awaits     *)
(* each answer, and connections come, fail and go as callbacks: between    *)
(* any two steps another component, or another event of the same one, may  *)
(* have changed the shared connection.  What a handler still has to do     *)
(* after an await that needs no answer is done before any other callback;  *)
(* turn says what that is, and all other actions wait for it.              *)
(***************************************************************************)
EXTENDS Integers, Sequences, FiniteSets

CONSTANTS
  Component,      \* the components of the application's pages
  Ad, AdOf,       \* ads, and the one each component shows
  MainType,       \* components with displayOptions.type = 'main'
  SelfRendering,  \* those whose ad has canSelfRendering
  Sensor,         \* those that report their mounting (a sensor interaction)
  ReplyCode,      \* codes the provider may answer with
  MaxLinks,       \* bound: connections asked for
  MaxUses         \* bound: clicks, touches and exposures of a component

CODE_SUCCESS == 200

ASSUME AdConnectionAssumption ==
  /\ AdOf \in [Component -> Ad]
  /\ MainType \subseteq Component
  /\ SelfRendering \subseteq Component
  /\ Sensor \subseteq Component
  /\ ReplyCode \subseteq Int
  /\ MaxLinks \in Nat /\ MaxUses \in Nat

VARIABLES
  life,           \* [Component -> Life]
  isAdRenderer,   \* [Component -> BOOLEAN]
  showComponent,  \* [Component -> BOOLEAN]
  adMainCounter,  \* [Ad -> Nat], AdMainCounterMap; 0 when there is no entry
  connection,     \* the shared handle: a link, or NoLink for -1
  remoteObj,      \* the link whose remote object is held, or NoLink for null
  connectCount,
  isReconnecting, \* [Component -> BOOLEAN]
  eventQueue,     \* [Component -> Seq(Nat)], numbers of the events to resend
  events,         \* [Component -> Seq(AdEvent)], all events, in order
  flight,         \* [Component -> SUBSET Flight], sent and not yet answered
  turn,           \* [Component -> Turn], what the thread still has to do
  links,          \* Seq(Link), the connections asked for, in order
  disconnects     \* [Component -> Nat], its disconnections not yet settled

viewVars  == <<life, isAdRenderer, showComponent, adMainCounter>>
adConnectionManager == <<connection, remoteObj, connectCount>>
eventVars == <<isReconnecting, eventQueue, events, flight>>
sysVars   == <<links, disconnects>>
vars == <<viewVars, adConnectionManager, eventVars, turn, sysVars>>

NoLink == 0

(* "duplicate": a second main component of its ad, which was refused.      *)
Life == {"new", "duplicate", "appeared", "leaving", "gone"}

(* "init" and "close" are INIT and CLOSE; "use" is any other event.        *)
AdEvent == [kind : {"init", "close", "use"}, fate : {"pending", "answered", "lost"}]

(* "mount": initAdRender has to send its mount event; "loop": the loop     *)
(* over the queue goes on; "leave": aboutToDisappear goes on.              *)
Turn   == {"idle", "mount", "loop", "leave"}
Flight == [no : Nat, then : Turn]

(* "mute": onConnect was given a null remote object.                       *)
Link == [owner : Component, kind : {"connect", "reconnect"},
         state : {"opening", "up", "mute", "down"}]

Idle == \A c \in Component : turn[c] = "idle"

-----------------------------------------------------------------------------
(* The shared connection.                                                  *)

(* connectServiceExtensionAbility returns the handle of a new connection.  *)
Open(c, kind) ==
  /\ Len(links) < MaxLinks
  /\ links' = Append(links, [owner |-> c, kind |-> kind, state |-> "opening"])
  /\ connection' = Len(links) + 1

(* disconnectServiceExtAbility of c.  The count is kept, but the           *)
(* connection is given up whatever it says.                                *)
DisconnectServiceExtAbility(c) ==
  \/ /\ connection = NoLink
     /\ remoteObj' = NoLink
     /\ connectCount' = 0
     /\ UNCHANGED <<connection, disconnects>>
  \/ /\ connection # NoLink
     /\ connectCount' = IF connectCount > 0 THEN connectCount - 1 ELSE 0
     /\ disconnects' = [disconnects EXCEPT ![c] = @ + 1]
     /\ UNCHANGED <<connection, remoteObj>>

(* Fault: the remote object is kept.                                       *)
DisconnectSettles_KeepsRemote(c) ==
  /\ Idle
  /\ disconnects[c] > 0
  /\ disconnects' = [disconnects EXCEPT ![c] = @ - 1]
  /\ connection' = NoLink
  /\ UNCHANGED <<viewVars, remoteObj, connectCount, eventVars, turn, links>>

(* The finally of a disconnection of c, whichever way it ended.  It also   *)
(* takes c's proxy of the extension that draws its ad: see AdComponentUi.  *)
DisconnectSettles(c) ==
  /\ Idle
  /\ disconnects[c] > 0
  /\ disconnects' = [disconnects EXCEPT ![c] = @ - 1]
  /\ connection' = NoLink
  /\ remoteObj' = IF connectCount = 0 THEN NoLink ELSE remoteObj
  /\ UNCHANGED <<viewVars, connectCount, eventVars, turn, links>>

-----------------------------------------------------------------------------
(* Events.                                                                 *)

(* The reconnect of an event that could not be sent, unless one is going   *)
(* on.  q is the queue as the caller has left it.                          *)
Requeue(c, no, q) ==
  /\ eventQueue' = [eventQueue EXCEPT ![c] = Append(q, no)]
  /\ isReconnecting' = [isReconnecting EXCEPT ![c] = TRUE]
  /\ IF isReconnecting[c] THEN UNCHANGED <<connection, links>> ELSE Open(c, "reconnect")

(* sendDataRequest up to its await.  Without a remote object the event is  *)
(* queued; then is what the caller does once sendDataRequest is done.      *)
SendDataRequest(c, no, q, then) ==
  \/ /\ remoteObj # NoLink
     /\ flight' = [flight EXCEPT ![c] = @ \cup {[no |-> no, then |-> then]}]
     /\ eventQueue' = [eventQueue EXCEPT ![c] = q]
     /\ UNCHANGED <<isReconnecting, connection, links>>
  \/ /\ remoteObj = NoLink
     /\ Requeue(c, no, q)
     /\ UNCHANGED flight

(* A new event is sent.                                                    *)
Submit(c, kind, then) ==
  /\ events' = [events EXCEPT ![c] = Append(@, [kind |-> kind, fate |-> "pending"])]
  /\ SendDataRequest(c, Len(events[c]) + 1, eventQueue[c], then)

(* Fault: a sendDataRequest that queued its event never returns.           *)
Awaited_Never(then) == "idle"

(* What the caller of an awaited sendDataRequest does next at once.        *)
Awaited(then) == IF remoteObj = NoLink THEN then ELSE "idle"

(* A click, touch, feedback or change of the visible area of a component   *)
(* that renders itself.                                                    *)
Use(c) ==
  /\ Idle
  /\ life[c] = "appeared" /\ showComponent[c] /\ isAdRenderer[c]
  /\ Cardinality({no \in DOMAIN events[c] : events[c][no].kind = "use"}) < MaxUses
  /\ Submit(c, "use", "idle")
  /\ UNCHANGED <<viewVars, remoteObj, connectCount, turn, disconnects>>

FateOf(c, no, fate) == [events EXCEPT ![c][no].fate = fate]

(* Fault: the answer to any event shows the component.                     *)
Answered_ShowsAny(c, f) ==
  /\ Idle
  /\ events' = FateOf(c, f.no, "answered")
  /\ flight' = [flight EXCEPT ![c] = @ \ {f}]
  /\ turn' = [turn EXCEPT ![c] = f.then]
  /\ showComponent' = [showComponent EXCEPT ![c] = TRUE]
  /\ UNCHANGED <<life, isAdRenderer, adMainCounter, adConnectionManager,
                 isReconnecting, eventQueue, sysVars>>

(* The provider answers.  Code -1, or the success of CLOSE, disconnects;   *)
(* any answer to INIT shows the component.                                 *)
Answered(c, f) ==
  /\ Idle
  /\ events' = FateOf(c, f.no, "answered")
  /\ flight' = [flight EXCEPT ![c] = @ \ {f}]
  /\ turn' = [turn EXCEPT ![c] = f.then]
  /\ showComponent' = [showComponent EXCEPT ![c] = @ \/ events[c][f.no].kind = "init"]
  /\ \E code \in ReplyCode :
       IF code = -1 \/ (events[c][f.no].kind = "close" /\ code = CODE_SUCCESS)
       THEN DisconnectServiceExtAbility(c)
       ELSE UNCHANGED <<adConnectionManager, disconnects>>
  /\ UNCHANGED <<life, isAdRenderer, adMainCounter, isReconnecting, eventQueue, links>>

(* sendMessageRequest, or reading its answer, throws.                      *)
Throws(c, f) ==
  /\ Idle
  /\ flight' = [flight EXCEPT ![c] = @ \ {f}]
  /\ turn' = [turn EXCEPT ![c] = f.then]
  /\ Requeue(c, f.no, eventQueue[c])
  /\ UNCHANGED <<viewVars, remoteObj, connectCount, events, disconnects>>

(* Fault: the event is looked at and not taken from the queue.             *)
ResendNext_Peeks(c) ==
  /\ turn[c] = "loop"
  /\ eventQueue[c] # <<>>
  /\ SendDataRequest(c, Head(eventQueue[c]), eventQueue[c], "loop")
  /\ turn' = [turn EXCEPT ![c] = Awaited("loop")]
  /\ UNCHANGED <<viewVars, remoteObj, connectCount, events, disconnects>>

(* The loop of a reconnection's onConnect takes the next event ...         *)
ResendNext(c) ==
  /\ turn[c] = "loop"
  /\ eventQueue[c] # <<>>
  /\ SendDataRequest(c, Head(eventQueue[c]), Tail(eventQueue[c]), "loop")
  /\ turn' = [turn EXCEPT ![c] = Awaited("loop")]
  /\ UNCHANGED <<viewVars, remoteObj, connectCount, events, disconnects>>

(* ... or ends.                                                            *)
ResendDone(c) ==
  /\ turn[c] = "loop"
  /\ eventQueue[c] = <<>>
  /\ isReconnecting' = [isReconnecting EXCEPT ![c] = FALSE]
  /\ turn' = [turn EXCEPT ![c] = "idle"]
  /\ UNCHANGED <<viewVars, adConnectionManager, eventQueue, events, flight, sysVars>>

-----------------------------------------------------------------------------
(* The life of a component.                                                *)

(* connectServiceExtAbility: a pending or counted connection is shared.    *)
ConnectServiceExtAbility(c) ==
  \/ /\ connection # NoLink \/ connectCount > 0
     /\ connectCount' = connectCount + 1
     /\ IF c \in SelfRendering THEN Submit(c, "init", "idle")
        ELSE UNCHANGED <<connection, eventVars, links>>
     /\ UNCHANGED remoteObj
  \/ /\ connection = NoLink /\ connectCount = 0
     /\ Open(c, "connect")
     /\ UNCHANGED <<remoteObj, connectCount, eventVars>>

(* Fault: a main component is not counted.                                 *)
Appear_Uncounted(c) ==
  /\ Idle
  /\ life[c] = "new"
  /\ c \notin MainType \/ adMainCounter[AdOf[c]] = 0
  /\ life' = [life EXCEPT ![c] = "appeared"]
  /\ isAdRenderer' = [isAdRenderer EXCEPT ![c] = c \in SelfRendering]
  /\ showComponent' = [showComponent EXCEPT ![c] = c \notin SelfRendering]
  /\ ConnectServiceExtAbility(c)
  /\ turn' = [turn EXCEPT ![c] = IF c \in SelfRendering \cap Sensor THEN "mount" ELSE "idle"]
  /\ UNCHANGED <<adMainCounter, disconnects>>

(* aboutToAppear, down to initAdRender.                                    *)
Appear(c) ==
  /\ Idle
  /\ life[c] = "new"
  /\ c \notin MainType \/ adMainCounter[AdOf[c]] = 0
  /\ adMainCounter' =
       IF c \in MainType THEN [adMainCounter EXCEPT ![AdOf[c]] = 1] ELSE adMainCounter
  /\ life' = [life EXCEPT ![c] = "appeared"]
  /\ isAdRenderer' = [isAdRenderer EXCEPT ![c] = c \in SelfRendering]
  /\ showComponent' = [showComponent EXCEPT ![c] = c \notin SelfRendering]
  /\ ConnectServiceExtAbility(c)
  /\ turn' = [turn EXCEPT ![c] = IF c \in SelfRendering \cap Sensor THEN "mount" ELSE "idle"]
  /\ UNCHANGED disconnects

(* checkMainAdDuplicate refuses the component: onAdFail, 'multi main ad'.  *)
AppearDuplicate(c) ==
  /\ Idle
  /\ life[c] = "new"
  /\ c \in MainType /\ adMainCounter[AdOf[c]] > 0
  /\ adMainCounter' = [adMainCounter EXCEPT ![AdOf[c]] = @ + 1]
  /\ life' = [life EXCEPT ![c] = "duplicate"]
  /\ UNCHANGED <<isAdRenderer, showComponent, adConnectionManager, eventVars, turn, sysVars>>

(* sendInteractionSensorMountEvent, the end of initAdRender.               *)
Mount(c) ==
  /\ turn[c] = "mount"
  /\ Submit(c, "use", "idle")
  /\ turn' = [turn EXCEPT ![c] = "idle"]
  /\ UNCHANGED <<viewVars, remoteObj, connectCount, disconnects>>

ClearMainAdCounter(c) ==
  adMainCounter' = IF c \in MainType THEN [adMainCounter EXCEPT ![AdOf[c]] = 0] ELSE adMainCounter

(* aboutToDisappear of a component that does not render itself: it gives   *)
(* up the connection, a duplicate too.                                     *)
Disappear(c) ==
  /\ Idle
  /\ life[c] \in {"appeared", "duplicate"} /\ ~isAdRenderer[c]
  /\ ClearMainAdCounter(c)
  /\ life' = [life EXCEPT ![c] = "gone"]
  /\ DisconnectServiceExtAbility(c)
  /\ UNCHANGED <<isAdRenderer, showComponent, eventVars, turn, links>>

(* aboutToDisappear of one that does sends CLOSE and waits for its answer. *)
SendClose(c) ==
  /\ Idle
  /\ life[c] = "appeared" /\ isAdRenderer[c]
  /\ ClearMainAdCounter(c)
  /\ life' = [life EXCEPT ![c] = "leaving"]
  /\ Submit(c, "close", "leave")
  /\ turn' = [turn EXCEPT ![c] = Awaited("leave")]
  /\ UNCHANGED <<isAdRenderer, showComponent, remoteObj, connectCount, disconnects>>

(* The rest of aboutToDisappear.                                           *)
Leave(c) ==
  /\ turn[c] = "leave"
  /\ life' = [life EXCEPT ![c] = "gone"]
  /\ DisconnectServiceExtAbility(c)
  /\ turn' = [turn EXCEPT ![c] = "idle"]
  /\ UNCHANGED <<isAdRenderer, showComponent, adMainCounter, eventVars, links>>

-----------------------------------------------------------------------------
(* The ability manager's callbacks for one connection.                     *)

LinkMoves(i, from, to) ==
  /\ Idle
  /\ links[i].state \in from
  /\ links' = [links EXCEPT ![i].state = to]

(* onConnect of connectServiceExtAbility.                                  *)
OnConnect(i) ==
  LET c == links[i].owner IN
  /\ links[i].kind = "connect"
  /\ LinkMoves(i, {"opening"}, "up")
  /\ remoteObj' = i
  /\ connectCount' = 1
  /\ IF isAdRenderer[c]
     THEN /\ events' = [events EXCEPT ![c] = Append(@, [kind |-> "init", fate |-> "pending"])]
          /\ flight' = [flight EXCEPT ![c] = @ \cup {[no |-> Len(events[c]) + 1, then |-> "idle"]}]
     ELSE UNCHANGED <<events, flight>>
  /\ UNCHANGED <<viewVars, connection, isReconnecting, eventQueue, turn, disconnects>>

(* onConnect of reconnectServiceExtAbility: INIT first, then the queue.    *)
OnReconnect(i) ==
  LET c == links[i].owner IN
  /\ links[i].kind = "reconnect"
  /\ LinkMoves(i, {"opening"}, "up")
  /\ remoteObj' = i
  /\ connectCount' = connectCount + 1
  /\ events' = [events EXCEPT ![c] = Append(@, [kind |-> "init", fate |-> "pending"])]
  /\ flight' = [flight EXCEPT ![c] = @ \cup {[no |-> Len(events[c]) + 1, then |-> "loop"]}]
  /\ UNCHANGED <<viewVars, connection, isReconnecting, eventQueue, turn, disconnects>>

(* Either onConnect with a null remote object: nothing is done.            *)
OnConnectNull(i) ==
  /\ LinkMoves(i, {"opening"}, "mute")
  /\ UNCHANGED <<viewVars, adConnectionManager, eventVars, turn, disconnects>>

In(queue, no) == \E k \in DOMAIN queue : queue[k] = no

Dropped(all, queue) ==
  [no \in DOMAIN all |-> IF In(queue, no) THEN [all[no] EXCEPT !.fate = "lost"] ELSE all[no]]

(* Fault: a failed reconnection leaves the queue.                          *)
OnFailedOrDisconnect_KeepsQueue(i) ==
  /\ LinkMoves(i, {"opening", "up", "mute"}, "down")
  /\ connection' = NoLink
  /\ IF links[i].kind = "reconnect"
     THEN isReconnecting' = [isReconnecting EXCEPT ![links[i].owner] = FALSE]
     ELSE UNCHANGED isReconnecting
  /\ UNCHANGED <<viewVars, remoteObj, connectCount, eventQueue, events, flight, turn, disconnects>>

(* onFailed and onDisconnect.  Those of a reconnection drop the queue;     *)
(* only its onFailed says so (onAdFail).                                   *)
OnFailedOrDisconnect(i) ==
  LET c == links[i].owner IN
  /\ LinkMoves(i, {"opening", "up", "mute"}, "down")
  /\ connection' = NoLink
  /\ IF links[i].kind = "reconnect"
     THEN /\ isReconnecting' = [isReconnecting EXCEPT ![c] = FALSE]
          /\ eventQueue' = [eventQueue EXCEPT ![c] = <<>>]
          /\ events' = [events EXCEPT ![c] = Dropped(@, eventQueue[c])]
     ELSE UNCHANGED <<isReconnecting, eventQueue, events>>
  /\ UNCHANGED <<viewVars, remoteObj, connectCount, flight, turn, disconnects>>

-----------------------------------------------------------------------------
Init ==
  /\ life           = [c \in Component |-> "new"]
  /\ isAdRenderer   = [c \in Component |-> FALSE]
  /\ showComponent  = [c \in Component |-> FALSE]
  /\ adMainCounter  = [a \in Ad |-> 0]
  /\ connection     = NoLink
  /\ remoteObj      = NoLink
  /\ connectCount   = 0
  /\ isReconnecting = [c \in Component |-> FALSE]
  /\ eventQueue     = [c \in Component |-> <<>>]
  /\ events         = [c \in Component |-> <<>>]
  /\ flight         = [c \in Component |-> {}]
  /\ turn           = [c \in Component |-> "idle"]
  /\ links          = <<>>
  /\ disconnects    = [c \in Component |-> 0]

Resend(c)   == ResendNext(c) \/ ResendDone(c)
Settle(c)   == \E f \in flight[c] : Answered(c, f) \/ Throws(c, f)
CallBack(i) == OnConnect(i) \/ OnReconnect(i) \/ OnConnectNull(i) \/ OnFailedOrDisconnect(i)

(* Everything but the end of a disconnection.                              *)
Step ==
  \/ \E c \in Component :
       \/ Appear(c) \/ AppearDuplicate(c) \/ Mount(c)
       \/ Use(c)
       \/ Settle(c)
       \/ Resend(c)
       \/ Disappear(c) \/ SendClose(c) \/ Leave(c)
  \/ \E i \in DOMAIN links : CallBack(i)

Next == Step \/ \E c \in Component : DisconnectSettles(c)

Spec == Init /\ [][Next]_vars

(* Each call to the provider is answered or fails, disconnections end, and *)
(* the thread goes on.  Strong fairness, as an answer waits for its turn   *)
(* while the thread runs something else, and the thread's event loop       *)
(* passes over nothing.  Nothing is assumed of pages or connections.       *)
Fairness ==
  /\ \A c \in Component :
       /\ WF_vars(Mount(c)) /\ WF_vars(Resend(c)) /\ WF_vars(Leave(c))
       /\ \A then \in Turn :
            SF_vars(\E f \in flight[c] : f.then = then /\ (Answered(c, f) \/ Throws(c, f)))
  /\ \A c \in Component : WF_vars(DisconnectSettles(c))

FairSpec == Spec /\ Fairness

-----------------------------------------------------------------------------
(* Every variable has the type its comment gives.                          *)
TypeOK ==
  /\ life \in [Component -> Life]
  /\ isAdRenderer \in [Component -> BOOLEAN]
  /\ showComponent \in [Component -> BOOLEAN]
  /\ adMainCounter \in [Ad -> Nat]
  /\ links \in Seq(Link)
  /\ connection \in 0 .. Len(links)
  /\ remoteObj \in 0 .. Len(links)
  /\ connectCount \in Nat
  /\ isReconnecting \in [Component -> BOOLEAN]
  /\ eventQueue \in [Component -> Seq(Nat)]
  /\ events \in [Component -> Seq(AdEvent)]
  /\ flight \in [Component -> SUBSET Flight]
  /\ turn \in [Component -> Turn]
  /\ disconnects \in [Component -> Nat]

(* An event was sent, and its answer has not come.                         *)
OnItsWay(sent, no) == \E f \in sent : f.no = no

(* Of one component: all its events, its queue, and what is on its way.    *)
Accounted(all, queue, sent) ==
  /\ \A no \in DOMAIN all :
       /\ (all[no].fate = "pending") <=> (In(queue, no) \/ OnItsWay(sent, no))
       /\ ~(In(queue, no) /\ OnItsWay(sent, no))
  /\ \A k \in DOMAIN queue : queue[k] \in DOMAIN all
  /\ \A j, k \in DOMAIN queue : queue[j] = queue[k] => j = k
  /\ \A f \in sent : f.no \in DOMAIN all
  /\ \A f, g \in sent : f.no = g.no => f = g

(* No event is forgotten and none is in two places, however answers,       *)
(* failures and the loop over the queue interleave: one that is pending is *)
(* in the queue, once, or on its way, once; no other event is in either    *)
(* (sendDataRequest, reconnectServiceExtAbility).                          *)
EventsAccounted == \A c \in Component : Accounted(events[c], eventQueue[c], flight[c])

(* Somebody will look at the queue of a component again: a reconnection    *)
(* that has not been answered, or the loop of one, which runs or waits for *)
(* an answer.                                                              *)
Opening(c) ==
  \E i \in DOMAIN links :
    links[i].owner = c /\ links[i].kind = "reconnect" /\ links[i].state = "opening"
Resending(c) == turn[c] = "loop" \/ \E f \in flight[c] : f.then = "loop"
Mute(c) ==
  \E i \in DOMAIN links :
    links[i].owner = c /\ links[i].kind = "reconnect" /\ links[i].state = "mute"

(* A component with events to resend waits for something that is under     *)
(* way, whichever of several overlapping reconnections ended first, unless *)
(* one of them was given a null remote object.                             *)
QueueIsServed ==
  \A c \in Component : eventQueue[c] # <<>> => Opening(c) \/ Resending(c) \/ Mute(c)

(* A remote object that no component counts is about to be dropped, in     *)
(* whatever order disconnections end and late onConnects come: it does not *)
(* outlive them (disconnectServiceExtAbility, AdConnectionManager.reset).  *)
NoStaleRemote ==
  remoteObj # NoLink /\ connectCount = 0 => \E c \in Component : disconnects[c] > 0

(* A component that renders itself is shown only once the provider has     *)
(* answered an INIT of its own, although others share the connection, and  *)
(* a duplicate is never shown.                                             *)
ShownAfterInit ==
  \A c \in Component : showComponent[c] =>
    /\ life[c] \notin {"new", "duplicate"}
    /\ isAdRenderer[c] => \E no \in DOMAIN events[c] :
         events[c][no].kind = "init" /\ events[c][no].fate = "answered"

(* While none of them has disappeared, one main component of an ad is let  *)
(* through (checkMainAdDuplicate).  Afterwards any number may be: see      *)
(* OneMain.                                                                *)
OneMainUntilOneLeaves ==
  \A c, d \in MainType :
    AdOf[c] = AdOf[d] /\ life[c] = "appeared" /\ life[d] = "appeared" /\ c # d
    => \E e \in MainType : AdOf[e] = AdOf[c] /\ life[e] \in {"leaving", "gone"}

(* The loop takes an event that goes back into the queue at once.          *)
Spinning ==
  \E c \in Component : turn[c] = "loop" /\ eventQueue[c] # <<>> /\ remoteObj = NoLink

(* aboutToDisappear comes to its end once it waits for CLOSE to be         *)
(* answered, also if CLOSE had to be queued, failed or was resent; unless  *)
(* the thread turns in the loop of some reconnection for ever.             *)
LeavingEnds ==
  \A c \in Component : life[c] = "leaving" ~> life[c] = "gone" \/ Spinning

-----------------------------------------------------------------------------
(* What messages of the code say, and the code does not do.                *)

(* "main ad duplicate, trigger onAdFail" (checkMainAdDuplicate): of the    *)
(* main components of an ad one at most is let through.                    *)
OneMain ==
  \A c, d \in MainType :
    AdOf[c] = AdOf[d] /\ life[c] = "appeared" /\ life[d] = "appeared" => c = d

(* "connectCount=0, reset connection manager" (disconnectServiceExtAbility): *)
(* a remote object whose connection is up is not dropped while a component *)
(* that appeared counts on it.                                             *)
ResetWhenUnused ==
  [][remoteObj # NoLink /\ remoteObj' = NoLink /\ links[remoteObj].state = "up" =>
       \A c \in Component : life'[c] # "appeared"]_vars

(* "sendDataRequest pendingEvent done" (reconnectServiceExtAbility): the    *)
(* loop that resends the queue lets the thread go on.                      *)
LoopEnds == \A c \in Component : turn[c] = "loop" ~> turn[c] # "loop"
=============================================================================
