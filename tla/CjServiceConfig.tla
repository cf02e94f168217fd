--------------------------- MODULE CjServiceConfig ---------------------------
(***************************************************************************)
(* How the threads of the CJ binding share its AdLoadService's             *)
(* adServiceElementName_.  Writers are kept apart by configLock_; readers   *)
(* take no lock and rely on configInitialized_, which is set, for good, by *)
(* the writer that completes the element.  A thread that found no usable   *)
(* file reads the element all the same, and may do so while another is     *)
(* assigning to it: a data race, whose outcome is the name before, the     *)
(* name after, or neither (Torn).                                          *)
(***************************************************************************)
EXTENDS AdServiceElement, FiniteSets

CONSTANTS
  Thread,      \* threads that call loadAd or getAdRequestBody
  ConfigFile,  \* contents the configuration file may have
  Nobody       \* holder of a free lock

Torn == "torn"

ASSUME CjConfigAssumption ==
  /\ ConfigFile \subseteq File
  /\ Nobody \notin Thread
  /\ Torn \notin ServiceName

VARIABLES
  file,     \* contents of the configuration file
  element,  \* adServiceElementName_
  ready,    \* configInitialized_
  holder,   \* who holds configLock_
  pc,       \* [Thread -> Step]
  root,     \* [Thread -> SUBSET File], the contents the thread has parsed
  knows,    \* [Thread -> BOOLEAN], the thread has seen or set configInitialized_
  copy      \* [Thread -> Copy], what the thread connects to

vars == <<file, element, ready, holder, pc, root, knows, copy>>

(* Names are written, and later read, one after the other.                 *)
Writing == {"bundle", "ext", "api"}
Reading == {"readBundle", "readExt", "readApi"}
Step == {"check", "find", "recheck", "lock", "again", "open", "publish",
         "unlock", "done"} \cup Writing \cup Reading

NextWrite(f) == IF f = "bundle" THEN "ext" ELSE IF f = "ext" THEN "api" ELSE "publish"
NextRead(s) ==
  IF s = "readBundle" THEN "readExt" ELSE IF s = "readExt" THEN "readApi" ELSE "done"
FieldOf(s) ==
  IF s = "readBundle" THEN "bundle" ELSE IF s = "readExt" THEN "ext" ELSE "api"

Copy == [Fields -> ServiceName \cup {NoName, Torn}]

Init ==
  /\ file \in ConfigFile
  /\ element = NoElement
  /\ ready   = FALSE
  /\ holder  = Nobody
  /\ pc      = [t \in Thread |-> "check"]
  /\ root    = [t \in Thread |-> {}]
  /\ knows   = [t \in Thread |-> FALSE]
  /\ copy    = [t \in Thread |-> NoElement]

Goto(t, to) == pc' = [pc EXCEPT ![t] = to]

(* A thread at step "at" looks at configInitialized_.                      *)
LookAtFlag(t, at, ifSet, ifNot) ==
  /\ pc[t] = at
  /\ Goto(t, IF ready THEN ifSet ELSE ifNot)
  /\ knows' = [knows EXCEPT ![t] = ready]
  /\ UNCHANGED <<file, element, ready, root, copy>>

(* LoadAd and RequestAdBody, before they read the configuration.           *)
Check(t) == LookAtFlag(t, "check", "readBundle", "find") /\ UNCHANGED holder

(* GetAdServiceElement finds a file to read, or none.                      *)
Find(t) ==
  /\ pc[t] = "find"
  /\ \/ Goto(t, "recheck")
     \/ ~Usable(file) /\ Goto(t, "readBundle")
  /\ UNCHANGED <<file, element, ready, holder, root, knows, copy>>

(* GetConfigItem, before it takes the lock.                                *)
Recheck(t) == LookAtFlag(t, "recheck", "readBundle", "lock") /\ UNCHANGED holder

Lock(t) ==
  /\ pc[t] = "lock"
  /\ holder = Nobody
  /\ holder' = t
  /\ Goto(t, "again")
  /\ UNCHANGED <<file, element, ready, root, knows, copy>>

(* Fault: the flag is not looked at again under the lock.                  *)
Again_Skipped(t) ==
  /\ pc[t] = "again"
  /\ Goto(t, "open")
  /\ UNCHANGED <<file, element, ready, holder, root, knows, copy>>

(* GetConfigItem, once it has the lock.                                    *)
Again(t) == LookAtFlag(t, "again", "unlock", "open") /\ UNCHANGED holder

(* The file is read and parsed; one without the three arrays is left.      *)
Open(t) ==
  /\ pc[t] = "open"
  /\ root' = [root EXCEPT ![t] = {file}]
  /\ Goto(t, IF Usable(file) THEN "bundle" ELSE "unlock")
  /\ UNCHANGED <<file, element, ready, holder, knows, copy>>

(* ParseConfigFromJson assigns one name after the other.                   *)
Assign(t) ==
  /\ pc[t] \in Writing
  /\ Goto(t, NextWrite(pc[t]))
  /\ \E contents \in root[t] :
       element' = IF contents[pc[t]] = NotString THEN element
                  ELSE [element EXCEPT ![pc[t]] = contents[pc[t]]]
  /\ UNCHANGED <<file, ready, holder, root, knows, copy>>

(* Fault: the flag is set whether or not all the names are there.          *)
Publish_Always(t) ==
  /\ pc[t] = "publish"
  /\ ready' = TRUE
  /\ knows' = [knows EXCEPT ![t] = TRUE]
  /\ Goto(t, "unlock")
  /\ UNCHANGED <<file, element, holder, root, copy>>

(* The flag is set if the element is complete.                             *)
Publish(t) ==
  /\ pc[t] = "publish"
  /\ ready' = (ready \/ ~IsConfigEmpty(element))
  /\ knows' = [knows EXCEPT ![t] = ~IsConfigEmpty(element)]
  /\ Goto(t, "unlock")
  /\ UNCHANGED <<file, element, holder, root, copy>>

Unlock(t) ==
  /\ pc[t] = "unlock"
  /\ holder' = Nobody
  /\ Goto(t, "readBundle")
  /\ UNCHANGED <<file, element, ready, root, knows, copy>>

(* Names a read of field f may see: the one there is, or, while another    *)
(* thread is assigning it, the one that will be there, or neither.         *)
Seen(f) ==
  {element[f]} \cup
    UNION {{contents[f], Torn} : contents \in
             {c \in UNION {root[q] : q \in {p \in Thread : pc[p] = f}} : c[f] # NotString}}

(* ConnectAdKit and RequestAdBody read the element without the lock.       *)
Read(t) ==
  /\ pc[t] \in Reading
  /\ Goto(t, NextRead(pc[t]))
  /\ \E name \in Seen(FieldOf(pc[t])) :
       copy' = [copy EXCEPT ![t] = [@ EXCEPT ![FieldOf(pc[t])] = name]]
  /\ UNCHANGED <<file, element, ready, holder, root, knows>>

(* External: another file takes the place of the one that was there.       *)
ReplaceFile ==
  /\ file' \in ConfigFile
  /\ UNCHANGED <<element, ready, holder, pc, root, knows, copy>>

Work(t) ==
  \/ Check(t) \/ Find(t) \/ Recheck(t) \/ Lock(t) \/ Again(t) \/ Open(t)
  \/ Assign(t) \/ Publish(t) \/ Unlock(t) \/ Read(t)

Next == ReplaceFile \/ \E t \in Thread : Work(t)

Spec == Init /\ [][Next]_vars

-----------------------------------------------------------------------------
(* Every variable has the type its comment gives.                          *)
TypeOK ==
  /\ file \in ConfigFile
  /\ element \in Element
  /\ ready \in BOOLEAN
  /\ holder \in Thread \cup {Nobody}
  /\ pc \in [Thread -> Step]
  /\ root \in [Thread -> SUBSET ConfigFile]
  /\ knows \in [Thread -> BOOLEAN]
  /\ copy \in [Thread -> Copy]

(* Once configInitialized_ is set nobody assigns to the element again, so   *)
(* reading it without the lock is safe: this is what the second look at    *)
(* the flag, under the lock, is for (GetConfigItem).                       *)
FrozenOnceReady == [][ready => ready' /\ element' = element]_vars

(* A thread that saw the flag, or set it, connects to the complete names   *)
(* of the published element: it never reads during an assignment.          *)
ReadSoFar(step) ==
  IF step = "readExt" THEN {"bundle"}
  ELSE IF step = "readApi" THEN {"bundle", "ext"}
  ELSE IF step = "done" THEN Fields ELSE {}

ReaderSeesPublished ==
  \A t \in Thread : knows[t] =>
    /\ ~IsConfigEmpty(element)
    /\ \A f \in ReadSoFar(pc[t]) : copy[t][f] = element[f]

(* The inductive invariant behind both.                                    *)
Inside == {"again", "open", "publish", "unlock"} \cup Writing

HolderOK == \A t \in Thread : holder = t <=> pc[t] \in Inside

ReadyOK ==
  ready => /\ ~IsConfigEmpty(element)
           /\ \A t \in Thread : pc[t] \notin Writing \cup {"open", "publish"}

KnowsOK == \A t \in Thread : knows[t] => ready

ParsedOK ==
  \A t \in Thread : pc[t] \in Writing => \A contents \in root[t] : Usable(contents)

CjConfigInv == HolderOK /\ ReadyOK /\ KnowsOK /\ ParsedOK /\ ReaderSeesPublished
=============================================================================
