--------------------------- MODULE AdServiceConfig ---------------------------
(***************************************************************************)
(* How the worker threads of AdLoadService share adServiceElementName_:    *)
(* each one checks it, reads the configuration file into it if it is not   *)
(* complete, and copies it for its connection, with configLock_ taken and  *)
(* dropped on the way.  The lock does not cover the check and the read     *)
(* together, and the file may be replaced at any time (a carrier's file    *)
(* appears, an update rewrites it).                                        *)
(***************************************************************************)
EXTENDS AdServiceElement, FiniteSets

CONSTANTS
  Thread,      \* worker threads, one for each request
  ConfigFile,  \* contents the configuration file may have
  Nobody       \* holder of a free lock

ASSUME ConfigAssumption ==
  /\ ConfigFile \subseteq File
  /\ Nobody \notin Thread

VARIABLES
  file,      \* contents of the configuration file
  element,   \* adServiceElementName_
  holder,    \* who holds configLock_
  pc,        \* [Thread -> Step]
  root,      \* [Thread -> SUBSET File], the contents the thread has parsed
  copy       \* [Thread -> SUBSET Element], localElement, if it was made

vars == <<file, element, holder, pc, root, copy>>

Step == {"check", "recheck", "lock", "open", "bundle", "ext", "api", "unlock",
         "copy", "copied"}

(* The fields are assigned one by one, in this order.                      *)
Writing == {"bundle", "ext", "api"}
After(f) == IF f = "bundle" THEN "ext" ELSE IF f = "ext" THEN "api" ELSE "unlock"

Init ==
  /\ file \in ConfigFile
  /\ element = NoElement
  /\ holder  = Nobody
  /\ pc      = [t \in Thread |-> "check"]
  /\ root    = [t \in Thread |-> {}]
  /\ copy    = [t \in Thread |-> {}]

Goto(t, from, to) ==
  /\ pc[t] = from
  /\ pc' = [pc EXCEPT ![t] = to]

(* LoadAd and RequestAdBody ask IsConfigEmpty, which takes the lock.       *)
Check(t) ==
  /\ holder = Nobody
  /\ Goto(t, "check", IF IsConfigEmpty(element) THEN "recheck" ELSE "copy")
  /\ UNCHANGED <<file, element, holder, root, copy>>

(* GetConfigItem asks again before it takes the lock itself; the mutex is  *)
(* not recursive.  A file that is absent ends here too, as an unusable one. *)
Recheck(t) ==
  /\ holder = Nobody
  /\ Goto(t, "recheck", IF IsConfigEmpty(element) THEN "lock" ELSE "copy")
  /\ UNCHANGED <<file, element, holder, root, copy>>

(* Fault: the lock is taken before IsConfigEmpty is asked again.           *)
Lock_Early(t) ==
  /\ holder = Nobody
  /\ holder' = t
  /\ Goto(t, "lock", "recheck")
  /\ UNCHANGED <<file, element, root, copy>>

Lock(t) ==
  /\ holder = Nobody
  /\ holder' = t
  /\ Goto(t, "lock", "open")
  /\ UNCHANGED <<file, element, root, copy>>

(* The file is read and parsed; one without the three arrays is left at    *)
(* once.                                                                   *)
Open(t) ==
  /\ Goto(t, "open", IF Usable(file) THEN "bundle" ELSE "unlock")
  /\ root' = [root EXCEPT ![t] = {file}]
  /\ UNCHANGED <<file, element, holder, copy>>

Assign(t) ==
  /\ pc[t] \in Writing
  /\ pc' = [pc EXCEPT ![t] = After(pc[t])]
  /\ \E contents \in root[t] :
       element' = IF contents[pc[t]] = NotString THEN element
                  ELSE [element EXCEPT ![pc[t]] = contents[pc[t]]]
  /\ UNCHANGED <<file, holder, root, copy>>

Unlock(t) ==
  /\ Goto(t, "unlock", "copy")
  /\ holder' = Nobody
  /\ UNCHANGED <<file, element, root, copy>>

(* Fault: the element is copied without the lock.                          *)
Copy_Unlocked(t) ==
  /\ Goto(t, "copy", "copied")
  /\ copy' = [copy EXCEPT ![t] = {element}]
  /\ UNCHANGED <<file, element, holder, root>>

(* ConnectAdKit and RequestAdBody copy the element under the lock.         *)
Copy(t) ==
  /\ holder = Nobody
  /\ Goto(t, "copy", "copied")
  /\ copy' = [copy EXCEPT ![t] = {element}]
  /\ UNCHANGED <<file, element, holder, root>>

(* External: another file takes the place of the one that was there.       *)
ReplaceFile ==
  /\ file' \in ConfigFile
  /\ UNCHANGED <<element, holder, pc, root, copy>>

Work(t) ==
  \/ Check(t) \/ Recheck(t) \/ Lock(t) \/ Open(t)
  \/ Assign(t) \/ Unlock(t) \/ Copy(t)

Next == ReplaceFile \/ \E t \in Thread : Work(t)

Spec == Init /\ [][Next]_vars

(* Threads run.  Each takes the lock a bounded number of times, so it is    *)
(* free for good in the end and weak fairness is enough to get it.         *)
FairSpec == Spec /\ \A t \in Thread : WF_vars(Work(t))

-----------------------------------------------------------------------------
(* Every variable has the type its comment gives.                          *)
TypeOK ==
  /\ file \in ConfigFile
  /\ element \in Element
  /\ holder \in Thread \cup {Nobody}
  /\ pc \in [Thread -> Step]
  /\ root \in [Thread -> SUBSET ConfigFile]
  /\ copy \in [Thread -> SUBSET Element]

(* A request goes out without a name only if the file its own thread read  *)
(* has none, or if some thread read a file in which that name is empty:    *)
(* the names another thread was just writing are not missed, and an        *)
(* element that was complete loses a name to such a file only.             *)
(* IsConfigEmpty and GetConfigItem check and write under separate holds of *)
(* the lock.                                                               *)
Lacks(contents, f) == ~Usable(contents) \/ contents[f] \in {NotString, NoName}

Blanked(f) ==
  \E t \in Thread : \E contents \in root[t] : Usable(contents) /\ contents[f] = NoName

CopyIsComplete ==
  \A t \in Thread : \A e \in copy[t], f \in Fields :
    e[f] = NoName =>
      \/ root[t] # {} /\ \A contents \in root[t] : Lacks(contents, f)
      \/ Blanked(f)

(* Who holds the lock, and what the holder has assigned so far.            *)
Inside == {"open", "unlock"} \cup Writing

Assigned(step) ==
  IF step = "ext" THEN {"bundle"}
  ELSE IF step = "api" THEN {"bundle", "ext"}
  ELSE IF step \in {"unlock", "copy", "copied"} THEN Fields ELSE {}

LockOK == \A t \in Thread : holder = t <=> pc[t] \in Inside

RootOK ==
  \A t \in Thread :
    /\ pc[t] \in {"check", "recheck", "lock", "open"} => root[t] = {}
    /\ pc[t] \in Writing \cup {"unlock"} => \E contents \in ConfigFile : root[t] = {contents}
    /\ pc[t] \in Writing => \A contents \in root[t] : Usable(contents)
    /\ pc[t] # "copied" => copy[t] = {}

WrittenOK ==
  \A t \in Thread : \A contents \in root[t] :
    Usable(contents) =>
      \A f \in Assigned(pc[t]) :
        contents[f] # NotString =>
          /\ element[f] # NoName \/ Blanked(f)
          /\ pc[t] \in Inside => element[f] = contents[f]

(* A thread that did not read the file found the element complete.         *)
ReadOrComplete ==
  \A t \in Thread :
    pc[t] \in {"copy", "copied"} /\ root[t] = {} =>
      \A f \in Fields : element[f] # NoName \/ Blanked(f)

ConfigInv == LockOK /\ RootOK /\ WrittenOK /\ ReadOrComplete

(* Reading under the lock looks like one step of AdServiceCell, taken when *)
(* the file is opened: whoever copies the element sees all of it or none.  *)
Committed ==
  IF \E t \in Thread : pc[t] \in Writing
  THEN LET t == CHOOSE t \in Thread : pc[t] \in Writing
       IN Parsed(CHOOSE contents \in root[t] : TRUE, element)
  ELSE element

Cell == INSTANCE AdServiceCell WITH element <- Committed

ReadsAtOnce == Cell!Spec

(* Every request gets its copy: nobody waits for a lock that is never      *)
(* dropped.                                                                *)
EveryThreadCopies == \A t \in Thread : <>(pc[t] = "copied")
=============================================================================
