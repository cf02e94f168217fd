------------------------ MODULE AdServiceConfigProofs ------------------------
(***************************************************************************)
(* Theorems about AdServiceConfig, for any number of worker threads and    *)
(* any configuration files.                                                *)
(***************************************************************************)
EXTENDS AdServiceConfig, TLAPS

(* What the thread that writes does to the element.                        *)
LEMMA AssignEffect ==
  ASSUME TypeOK, ConfigInv, NEW t \in Thread, Assign(t)
  PROVE  \E contents \in ConfigFile :
           /\ root[t] = {contents} /\ contents \in File /\ Usable(contents)
           /\ pc[t] \in Fields /\ (contents[pc[t]] # NoName \/ Blanked(pc[t]))
           /\ element' = IF contents[pc[t]] = NotString THEN element
                         ELSE [element EXCEPT ![pc[t]] = contents[pc[t]]]
<1>1. PICK contents \in ConfigFile : root[t] = {contents}
  BY DEF Assign, ConfigInv, RootOK
<1>2. contents \in File /\ Usable(contents) /\ pc[t] \in Fields
  BY <1>1, ConfigAssumption DEF Assign, ConfigInv, RootOK, Writing, Fields
<1>3. contents[pc[t]] # NoName \/ Blanked(pc[t])
  BY <1>1, <1>2 DEF Blanked
<1> QED
  BY <1>1, <1>2, <1>3 DEF Assign

LEMMA TypeStep == TypeOK /\ ConfigInv /\ [Next]_vars => TypeOK'
<1> SUFFICES ASSUME TypeOK, ConfigInv, [Next]_vars PROVE TypeOK'
  OBVIOUS
<1> USE DEF TypeOK
<1>1. ASSUME NEW t \in Thread,
             \/ Check(t) \/ Recheck(t) \/ Lock(t) \/ Open(t) \/ Unlock(t) \/ Copy(t)
      PROVE  TypeOK'
  BY <1>1 DEF Check, Recheck, Lock, Open, Unlock, Copy, Goto, Step
<1>2. ASSUME NEW t \in Thread, Assign(t) PROVE TypeOK'
  <2>1. PICK contents \in ConfigFile :
          /\ contents \in File /\ Usable(contents) /\ pc[t] \in Fields
          /\ element' = IF contents[pc[t]] = NotString THEN element
                        ELSE [element EXCEPT ![pc[t]] = contents[pc[t]]]
    BY <1>2, AssignEffect
  <2>2. contents[pc[t]] = NotString \/ contents[pc[t]] \in ServiceName \cup {NoName}
    BY <2>1 DEF File, Usable
  <2>3. element' \in Element
    BY <2>1, <2>2 DEF Element
  <2>4. After(pc[t]) \in Step
    BY DEF After, Step
  <2> QED BY <1>2, <2>3, <2>4 DEF Assign
<1>3. CASE ReplaceFile
  BY <1>3 DEF ReplaceFile
<1>4. CASE UNCHANGED vars
  BY <1>4 DEF vars
<1> QED
  BY <1>1, <1>2, <1>3, <1>4 DEF Next, Work

LEMMA LockStep == TypeOK /\ LockOK /\ [Next]_vars => LockOK'
<1> SUFFICES ASSUME TypeOK, LockOK, [Next]_vars, NEW q \in Thread
             PROVE  (holder = q <=> pc[q] \in Inside)'
  BY DEF LockOK
<1> USE DEF TypeOK, LockOK, Inside, Writing
<1>1. ASSUME NEW t \in Thread, Check(t) \/ Recheck(t) \/ Copy(t)
      PROVE  (holder = q <=> pc[q] \in Inside)'
  BY <1>1 DEF Check, Recheck, Copy, Goto
<1>2. ASSUME NEW t \in Thread, Lock(t) PROVE (holder = q <=> pc[q] \in Inside)'
  BY <1>2, ConfigAssumption DEF Lock, Goto
<1>3. ASSUME NEW t \in Thread, Open(t) PROVE (holder = q <=> pc[q] \in Inside)'
  BY <1>3 DEF Open, Goto
<1>4. ASSUME NEW t \in Thread, Assign(t) PROVE (holder = q <=> pc[q] \in Inside)'
  BY <1>4 DEF Assign, After
<1>5. ASSUME NEW t \in Thread, Unlock(t) PROVE (holder = q <=> pc[q] \in Inside)'
  BY <1>5, ConfigAssumption DEF Unlock, Goto
<1>6. CASE ReplaceFile
  BY <1>6 DEF ReplaceFile
<1>7. CASE UNCHANGED vars
  BY <1>7 DEF vars
<1> QED
  BY <1>1, <1>2, <1>3, <1>4, <1>5, <1>6, <1>7 DEF Next, Work

LEMMA RootStep == TypeOK /\ RootOK /\ [Next]_vars => RootOK'
<1> DEFINE RootOf(q) ==
      /\ pc[q] \in {"check", "recheck", "lock", "open"} => root[q] = {}
      /\ pc[q] \in Writing \cup {"unlock"} => \E contents \in ConfigFile : root[q] = {contents}
      /\ pc[q] \in Writing => \A contents \in root[q] : Usable(contents)
      /\ pc[q] # "copied" => copy[q] = {}
<1> SUFFICES ASSUME TypeOK, RootOK, [Next]_vars, NEW q \in Thread
             PROVE  RootOf(q)'
  BY DEF RootOK
<1> USE DEF TypeOK, RootOK, Writing
<1>1. ASSUME NEW t \in Thread, Check(t) \/ Recheck(t) \/ Lock(t) \/ Unlock(t) \/ Copy(t)
      PROVE  RootOf(q)'
  BY <1>1 DEF Check, Recheck, Lock, Unlock, Copy, Goto
<1>2. ASSUME NEW t \in Thread, Open(t) PROVE RootOf(q)'
  BY <1>2 DEF Open, Goto
<1>3. ASSUME NEW t \in Thread, Assign(t) PROVE RootOf(q)'
  BY <1>3 DEF Assign, After
<1>4. CASE ReplaceFile
  BY <1>4 DEF ReplaceFile
<1>5. CASE UNCHANGED vars
  BY <1>5 DEF vars
<1> QED
  BY <1>1, <1>2, <1>3, <1>4, <1>5 DEF Next, Work

(* What has been read stays read, so an empty name stays known.            *)
LEMMA BlankedStays ==
  ASSUME TypeOK, ConfigInv, [Next]_vars, NEW f \in Fields, Blanked(f)
  PROVE  Blanked(f)'
<1>1. PICK q \in Thread : \E c \in root[q] : Usable(c) /\ c[f] = NoName
  BY DEF Blanked
<1>2. ASSUME NEW t \in Thread, Open(t) PROVE root'[q] = root[q]
  BY <1>1, <1>2 DEF Open, Goto, TypeOK, ConfigInv, RootOK
<1>3. ASSUME NEW t \in Thread,
             Check(t) \/ Recheck(t) \/ Lock(t) \/ Assign(t) \/ Unlock(t) \/ Copy(t)
      PROVE  root'[q] = root[q]
  BY <1>3 DEF Check, Recheck, Lock, Assign, Unlock, Copy
<1>4. CASE ReplaceFile
  BY <1>1, <1>4 DEF ReplaceFile, Blanked
<1>5. CASE UNCHANGED vars
  BY <1>1, <1>5 DEF vars, Blanked
<1> QED
  BY <1>1, <1>2, <1>3, <1>4, <1>5 DEF Next, Work, Blanked

(* Only a file with an empty name takes a name out of the element.         *)
LEMMA NamesStay ==
  ASSUME TypeOK, ConfigInv, [Next]_vars, NEW f \in Fields,
         element[f] # NoName \/ Blanked(f)
  PROVE  element'[f] # NoName \/ Blanked(f)'
<1> SUFFICES ASSUME element[f] # NoName, ~Blanked(f)'
             PROVE  element'[f] # NoName
  BY BlankedStays
<1>0. ~Blanked(f)
  BY BlankedStays
<1>1. ASSUME NEW t \in Thread, Assign(t) PROVE element'[f] # NoName
  <2>1. PICK contents \in ConfigFile :
          /\ pc[t] \in Fields /\ (contents[pc[t]] # NoName \/ Blanked(pc[t]))
          /\ element' = IF contents[pc[t]] = NotString THEN element
                        ELSE [element EXCEPT ![pc[t]] = contents[pc[t]]]
    BY <1>1, AssignEffect
  <2>2. CASE f = pc[t]
    BY <1>0, <2>1, <2>2 DEF TypeOK, Element
  <2>3. CASE f # pc[t]
    BY <2>1, <2>3 DEF TypeOK, Element
  <2> QED BY <2>2, <2>3
<1>2. ASSUME NEW t \in Thread,
             \/ Check(t) \/ Recheck(t) \/ Lock(t) \/ Open(t) \/ Unlock(t) \/ Copy(t)
      PROVE  UNCHANGED element
  BY <1>2 DEF Check, Recheck, Lock, Open, Unlock, Copy
<1>3. CASE ReplaceFile
  BY <1>3 DEF ReplaceFile
<1>4. CASE UNCHANGED vars
  BY <1>4 DEF vars
<1> QED
  BY <1>1, <1>2, <1>3, <1>4 DEF Next, Work

LEMMA WrittenStep == TypeOK /\ ConfigInv /\ [Next]_vars => WrittenOK'
<1> SUFFICES ASSUME TypeOK, ConfigInv, [Next]_vars, NEW q \in Thread,
                    NEW contents \in root'[q], Usable(contents),
                    NEW f \in Assigned(pc'[q]), contents[f] # NotString
             PROVE  /\ element'[f] # NoName \/ Blanked(f)'
                    /\ pc'[q] \in Inside => element'[f] = contents[f]
  BY DEF WrittenOK
<1> DEFINE Goal == /\ element'[f] # NoName \/ Blanked(f)'
                   /\ pc'[q] \in Inside => element'[f] = contents[f]
<1> USE DEF TypeOK
<1>f. f \in Fields
  BY DEF Assigned, Fields
(* Nothing the thread has done or read so far changes.                     *)
<1>1. CASE /\ contents \in root[q] /\ f \in Assigned(pc[q])
           /\ pc'[q] \in Inside => pc[q] \in Inside /\ element'[f] = element[f]
  <2>1. /\ element[f] # NoName \/ Blanked(f)
        /\ pc[q] \in Inside => element[f] = contents[f]
    BY <1>1 DEF ConfigInv, WrittenOK
  <2>2. element'[f] # NoName \/ Blanked(f)'
    BY <1>f, <2>1, NamesStay
  <2> QED BY <1>1, <2>1, <2>2
<1>2. ASSUME NEW t \in Thread, Check(t) \/ Recheck(t) PROVE Goal
  BY <1>1, <1>2 DEF Check, Recheck, Goto, ConfigInv, RootOK, Inside, Writing
<1>3. ASSUME NEW t \in Thread, Lock(t) \/ Open(t) PROVE Goal
  BY <1>1, <1>3 DEF Lock, Open, Goto, Assigned
<1>4. ASSUME NEW t \in Thread, Assign(t) PROVE Goal
  <2>1. PICK c \in ConfigFile :
          /\ root[t] = {c} /\ Usable(c) /\ pc[t] \in Fields
          /\ c[pc[t]] # NoName \/ Blanked(pc[t])
          /\ element' = IF c[pc[t]] = NotString THEN element
                        ELSE [element EXCEPT ![pc[t]] = c[pc[t]]]
    BY <1>4, AssignEffect
  <2>2. element \in [Fields -> ServiceName \cup {NoName}]
    BY DEF Element
  <2>3. CASE q = t
    <3>1. contents = c /\ pc' = [pc EXCEPT ![t] = After(pc[t])]
      BY <1>4, <2>1, <2>3 DEF Assign
    <3>2. CASE f = pc[t]
      <4>1. element'[f] = contents[f] /\ (contents[f] # NoName \/ Blanked(f))
        BY <1>f, <2>1, <2>2, <3>1, <3>2
      <4> QED BY <1>f, <4>1, BlankedStays
    <3>3. CASE f # pc[t]
      <4>1. f \in Assigned(pc[t])
        BY <2>1, <2>3, <3>1, <3>3 DEF Assigned, After, Fields
      <4>2. element'[f] = element[f] /\ pc[t] \in Inside
        BY <1>4, <2>1, <2>2, <3>3 DEF Assign, Inside
      <4> QED BY <1>1, <1>4, <2>3, <4>1, <4>2 DEF Assign
    <3> QED BY <3>2, <3>3
  <2>4. CASE q # t
    <3>1. pc'[q] = pc[q] /\ root' = root
      BY <1>4, <2>4 DEF Assign
    <3>2. pc[q] \notin Inside
      BY <1>4, <2>4 DEF ConfigInv, LockOK, Assign, Inside
    <3> QED BY <1>1, <3>1, <3>2
  <2> QED BY <2>3, <2>4
<1>5. ASSUME NEW t \in Thread, Unlock(t) \/ Copy(t) PROVE Goal
  BY <1>1, <1>5 DEF Unlock, Copy, Goto, Assigned, Inside, Writing
<1>6. CASE ReplaceFile
  BY <1>1, <1>6 DEF ReplaceFile
<1>7. CASE UNCHANGED vars
  BY <1>1, <1>7 DEF vars
<1> QED
  BY <1>2, <1>3, <1>4, <1>5, <1>6, <1>7 DEF Next, Work

LEMMA ReadOrCompleteStep == TypeOK /\ ConfigInv /\ [Next]_vars => ReadOrComplete'
<1> DEFINE Goal == \A f \in Fields : element[f] # NoName \/ Blanked(f)
<1> SUFFICES ASSUME TypeOK, ConfigInv, [Next]_vars, NEW q \in Thread,
                    pc'[q] \in {"copy", "copied"}, root'[q] = {}
             PROVE  Goal'
  BY DEF ReadOrComplete
<1> USE DEF TypeOK
<1>1. CASE pc[q] \in {"copy", "copied"} /\ root[q] = {}
  <2>1. Goal
    BY <1>1 DEF ConfigInv, ReadOrComplete
  <2>2. ASSUME NEW f \in Fields PROVE element'[f] # NoName \/ Blanked(f)'
    BY <2>1, NamesStay
  <2> QED BY <2>2
<1>2. ASSUME NEW t \in Thread, Check(t) \/ Recheck(t) PROVE Goal'
  <2>1. UNCHANGED <<element, root>>
    BY <1>2 DEF Check, Recheck
  <2>2. CASE q = t
    BY <1>2, <2>1, <2>2 DEF Check, Recheck, Goto, IsConfigEmpty
  <2>3. CASE q # t
    BY <1>1, <1>2, <2>3 DEF Check, Recheck, Goto
  <2> QED BY <2>2, <2>3
<1>3. ASSUME NEW t \in Thread, Lock(t) \/ Open(t) \/ Copy(t) PROVE Goal'
  BY <1>1, <1>3 DEF Lock, Open, Copy, Goto
<1>4. ASSUME NEW t \in Thread, Assign(t) PROVE Goal'
  BY <1>1, <1>4 DEF Assign, After
<1>5. ASSUME NEW t \in Thread, Unlock(t) PROVE Goal'
  <2>1. \E contents \in ConfigFile : root[t] = {contents}
    BY <1>5 DEF Unlock, Goto, ConfigInv, RootOK
  <2>2. q # t
    BY <1>5, <2>1 DEF Unlock
  <2> QED BY <1>1, <1>5, <2>2 DEF Unlock, Goto
<1>6. CASE ReplaceFile
  BY <1>1, <1>6 DEF ReplaceFile
<1>7. CASE UNCHANGED vars
  BY <1>1, <1>7 DEF vars
<1> QED
  BY <1>2, <1>3, <1>4, <1>5, <1>6, <1>7 DEF Next, Work

(* Types are kept and the inductive invariant holds: who holds configLock_, *)
(* what each thread has parsed, and that a name once assigned stays until   *)
(* a file is read in which it is empty.                                    *)
THEOREM ConfigInvariant == Spec => [](TypeOK /\ ConfigInv)
<1>1. Init => TypeOK /\ ConfigInv
  <2> SUFFICES ASSUME Init PROVE TypeOK /\ ConfigInv
    OBVIOUS
  <2>1. TypeOK
    BY DEF Init, TypeOK, NoElement, Element, Step
  <2>2. LockOK
    BY ConfigAssumption DEF Init, LockOK, Inside, Writing
  <2>3. RootOK /\ WrittenOK /\ ReadOrComplete
    BY DEF Init, RootOK, WrittenOK, ReadOrComplete, Writing
  <2> QED BY <2>1, <2>2, <2>3 DEF ConfigInv
<1>2. (TypeOK /\ ConfigInv) /\ [Next]_vars => (TypeOK /\ ConfigInv)'
  BY TypeStep, LockStep, RootStep, WrittenStep, ReadOrCompleteStep DEF ConfigInv
<1> QED
  BY <1>1, <1>2, PTL DEF Spec

(* No request goes out without a name that its thread could have known,    *)
(* unless a thread read a file in which that name is empty: short of such  *)
(* a file, checking and reading under separate holds of the lock is enough. *)
THEOREM CopyComplete == Spec => []CopyIsComplete
<1>1. Init => CopyIsComplete
  BY DEF Init, CopyIsComplete
<1>2. TypeOK /\ ConfigInv /\ CopyIsComplete /\ [Next]_vars => CopyIsComplete'
  <2> SUFFICES ASSUME TypeOK, ConfigInv, CopyIsComplete, [Next]_vars,
                      NEW q \in Thread, NEW e \in copy'[q], NEW f \in Fields,
                      e[f] = NoName
               PROVE  \/ root'[q] # {} /\ \A contents \in root'[q] : Lacks(contents, f)
                      \/ Blanked(f)'
    BY DEF CopyIsComplete
  <2> USE DEF TypeOK
  <2>1. CASE e \in copy[q] /\ root'[q] = root[q]
    BY <2>1, BlankedStays DEF CopyIsComplete
  <2>2. ASSUME NEW t \in Thread, Copy(t)
        PROVE  \/ root'[q] # {} /\ \A contents \in root'[q] : Lacks(contents, f)
               \/ Blanked(f)'
    <3>1. CASE q = t
      <4>1. e = element /\ pc[q] = "copy" /\ root' = root
        BY <2>2, <3>1 DEF Copy, Goto
      <4>2. root[q] # {} \/ Blanked(f)
        BY <4>1 DEF ConfigInv, ReadOrComplete
      <4>3. (\A contents \in root[q] : Lacks(contents, f)) \/ Blanked(f)
        BY <4>1 DEF ConfigInv, WrittenOK, Assigned, Lacks
      <4> QED BY <4>1, <4>2, <4>3, BlankedStays
    <3>2. CASE q # t
      BY <2>1, <2>2, <3>2 DEF Copy
    <3> QED BY <3>1, <3>2
  <2>3. ASSUME NEW t \in Thread, Open(t) PROVE e \in copy[q] /\ root'[q] = root[q]
    BY <2>3 DEF Open, Goto, ConfigInv, RootOK
  <2>4. ASSUME NEW t \in Thread,
               Check(t) \/ Recheck(t) \/ Lock(t) \/ Assign(t) \/ Unlock(t)
        PROVE  e \in copy[q] /\ root'[q] = root[q]
    BY <2>4 DEF Check, Recheck, Lock, Assign, Unlock
  <2>5. CASE ReplaceFile
    BY <2>1, <2>5 DEF ReplaceFile
  <2>6. CASE UNCHANGED vars
    BY <2>1, <2>6 DEF vars
  <2> QED
    BY <2>1, <2>2, <2>3, <2>4, <2>5, <2>6 DEF Next, Work
<1> QED
  BY <1>1, <1>2, ConfigInvariant, PTL DEF Spec

-----------------------------------------------------------------------------
(* Reading under the lock is one step for everybody else.                  *)

LEMMA TheWriter ==
  ASSUME NEW p, NEW t \in Thread, p[t] \in Writing,
         \A q \in Thread : p[q] \in Writing => q = t
  PROVE  /\ \E q \in Thread : p[q] \in Writing
         /\ (CHOOSE q \in Thread : p[q] \in Writing) = t
OBVIOUS

LEMMA TheContents == \A contents : (CHOOSE c \in {contents} : TRUE) = contents
OBVIOUS

(* Nobody else is writing while a thread is inside, nor when nobody is.    *)
LEMMA OneWriter ==
  ASSUME ConfigInv
  PROVE  /\ \A t, q \in Thread : pc[t] \in Inside /\ pc[q] \in Writing => q = t
         /\ holder = Nobody => \A q \in Thread : pc[q] \notin Writing
BY ConfigAssumption DEF ConfigInv, LockOK, Inside

(* AdServiceCell reads a file into the element in the same way, from the   *)
(* same empty one.                                                         *)
LEMMA SameElement ==
  /\ Cell!NoElement = NoElement
  /\ \A c, e : Cell!Parsed(c, e) = Parsed(c, e)
<1>1. Cell!Fields = Fields
  BY DEF Cell!Fields, Fields
<1>2. Cell!NoElement = NoElement
  BY <1>1 DEF Cell!NoElement, NoElement, Cell!NoName, NoName
<1>3. ASSUME NEW c, NEW e PROVE Cell!Parsed(c, e) = Parsed(c, e)
  <2>1. Cell!Usable(c) <=> Usable(c)
    BY <1>1 DEF Cell!Usable, Usable, Cell!Unusable, Unusable
  <2> QED
    BY <1>1, <2>1 DEF Cell!Parsed, Parsed, Cell!NotString, NotString
<1> QED BY <1>2, <1>3

LEMMA CellStep ==
  ASSUME TypeOK, ConfigInv, [Next]_vars
  PROVE  [Cell!Next]_(Cell!vars)
<1> USE DEF TypeOK
<1>1. ASSUME \A q \in Thread : pc[q] \notin Writing,
             \A q \in Thread : pc'[q] \notin Writing
      PROVE  Committed = element /\ Committed' = element'
  BY <1>1 DEF Committed
<1>2. ASSUME NEW t \in Thread, Check(t) \/ Recheck(t) \/ Lock(t)
      PROVE  UNCHANGED Cell!vars
  <2>1. \A q \in Thread : pc[q] \notin Writing /\ pc'[q] \notin Writing
    BY <1>2, OneWriter DEF Check, Recheck, Lock, Goto, Writing
  <2> QED BY <1>1, <1>2, <2>1 DEF Check, Recheck, Lock, Cell!vars
<1>3. ASSUME NEW t \in Thread, Open(t) PROVE [Cell!Next]_(Cell!vars)
  <2>1. /\ pc' = [pc EXCEPT ![t] = IF Usable(file) THEN "bundle" ELSE "unlock"]
        /\ pc[t] = "open" /\ root' = [root EXCEPT ![t] = {file}]
        /\ UNCHANGED <<file, element, copy>>
    BY <1>3 DEF Open, Goto
  <2>2. \A q \in Thread : pc[q] \notin Writing
    BY <2>1, OneWriter DEF Inside, Writing
  <2>3. CASE Usable(file)
    <3>1. Committed' = Parsed(file, element)
      <4>1. pc'[t] \in Writing /\ \A q \in Thread : pc'[q] \in Writing => q = t
        BY <2>1, <2>2, <2>3 DEF Writing
      <4>2. /\ \E q \in Thread : pc'[q] \in Writing
            /\ (CHOOSE q \in Thread : pc'[q] \in Writing) = t
        BY <4>1, TheWriter
      <4>3. root'[t] = {file} /\ element' = element
        BY <2>1
      <4> QED BY <4>2, <4>3, TheContents DEF Committed
    <3>2. Committed = element
      BY <2>2 DEF Committed
    <3>3. Committed' = Cell!Parsed(file, Committed)
      BY <3>1, <3>2, SameElement
    <3>4. Cell!Read
      BY <2>1, <3>3 DEF Cell!Read
    <3> QED BY <3>4 DEF Cell!Next
  <2>4. CASE ~Usable(file)
    <3>1. \A q \in Thread : pc'[q] \notin Writing
      BY <2>1, <2>2, <2>4 DEF Writing
    <3> QED BY <1>1, <2>1, <2>2, <3>1 DEF Cell!vars
  <2> QED BY <2>3, <2>4
<1>4. ASSUME NEW t \in Thread, Assign(t) PROVE UNCHANGED Cell!vars
  <2>1. PICK c \in ConfigFile :
          /\ root[t] = {c} /\ c \in File /\ Usable(c) /\ pc[t] \in Fields
          /\ element' = IF c[pc[t]] = NotString THEN element
                        ELSE [element EXCEPT ![pc[t]] = c[pc[t]]]
    BY <1>4, AssignEffect
  <2>2. /\ pc[t] \in Writing /\ pc' = [pc EXCEPT ![t] = After(pc[t])]
        /\ root' = root
        /\ UNCHANGED <<file, copy>>
    BY <1>4 DEF Assign
  <2>3. \A q \in Thread : pc[q] \in Writing => q = t
    BY <2>2, OneWriter DEF Inside
  <2>4. Committed = Parsed(c, element)
    <3>1. /\ \E q \in Thread : pc[q] \in Writing
          /\ (CHOOSE q \in Thread : pc[q] \in Writing) = t
      BY <2>2, <2>3, TheWriter
    <3> QED BY <2>1, <3>1, TheContents DEF Committed
  <2>5. element \in [Fields -> ServiceName \cup {NoName}] /\ element' \in [Fields -> ServiceName \cup {NoName}]
    BY <1>4, TypeStep DEF Element, Next, Work
  <2>6. Parsed(c, element') = Parsed(c, element)
    BY <2>1, <2>5 DEF Parsed
  <2>7. CASE pc[t] # "api"
    <3>1. pc'[t] \in Writing /\ \A q \in Thread : pc'[q] \in Writing => q = t
      BY <2>2, <2>3, <2>7 DEF After, Writing
    <3>2. /\ \E q \in Thread : pc'[q] \in Writing
          /\ (CHOOSE q \in Thread : pc'[q] \in Writing) = t
      BY <3>1, TheWriter
    <3>3. root'[t] = {c}
      BY <2>1, <2>2
    <3>4. Committed' = Parsed(CHOOSE contents \in root'[t] : TRUE, element')
      BY <3>2 DEF Committed
    <3>5. Committed' = Parsed(c, element')
      BY <3>3, <3>4, TheContents
    <3> QED BY <2>2, <2>4, <2>6, <3>5 DEF Cell!vars
  <2>8. CASE pc[t] = "api"
    <3>1. \A q \in Thread : pc'[q] \notin Writing
      BY <2>2, <2>3, <2>8 DEF After, Writing
    <3>2. Committed' = element'
      BY <3>1 DEF Committed
    <3>3. \A f \in {"bundle", "ext"} : c[f] # NotString => element[f] = c[f]
      BY <2>1, <2>8 DEF ConfigInv, WrittenOK, Assigned, Inside, Writing
    <3>4. \A f \in Fields : element'[f] = IF c[f] = NotString THEN element[f] ELSE c[f]
      BY <2>1, <2>5, <2>8, <3>3 DEF Fields
    <3>5. element' = Parsed(c, element)
      BY <2>1, <2>5, <3>4 DEF Parsed
    <3> QED BY <2>2, <2>4, <3>2, <3>5 DEF Cell!vars
  <2> QED BY <2>7, <2>8
<1>5. ASSUME NEW t \in Thread, Unlock(t) PROVE UNCHANGED Cell!vars
  <2>1. \A q \in Thread : pc[q] \notin Writing /\ pc'[q] \notin Writing
    BY <1>5, OneWriter DEF Unlock, Goto, Inside, Writing
  <2> QED BY <1>1, <1>5, <2>1 DEF Unlock, Cell!vars
<1>6. ASSUME NEW t \in Thread, Copy(t) PROVE Cell!Next
  <2>1. \A q \in Thread : pc[q] \notin Writing /\ pc'[q] \notin Writing
    BY <1>6, OneWriter DEF Copy, Goto, Writing
  <2>2. copy[t] = {}
    BY <1>6 DEF Copy, Goto, ConfigInv, RootOK
  <2> QED BY <1>1, <1>6, <2>1, <2>2 DEF Copy, Cell!Next, Cell!Copy
<1>7. CASE ReplaceFile
  <2>1. Committed' = Committed
    BY <1>7 DEF ReplaceFile, Committed
  <2> QED BY <1>7, <2>1 DEF ReplaceFile, Cell!Next, Cell!ReplaceFile
<1>8. CASE UNCHANGED vars
  BY <1>8 DEF vars, Committed, Cell!vars
<1> QED
  BY <1>2, <1>3, <1>4, <1>5, <1>6, <1>7, <1>8 DEF Next, Work

(* The threads of AdLoadService use the element as if reading the file and *)
(* copying the element were single steps: AdServiceConfig implements       *)
(* AdServiceCell, which is how AdLoadPipeline treats the configuration.    *)
THEOREM ReadsAtOnceCorrect == Spec => ReadsAtOnce
<1>1. Init => Cell!Init
  <2> SUFFICES ASSUME Init PROVE Cell!Init
    OBVIOUS
  <2>1. Committed = element
    BY DEF Init, Committed, Writing
  <2> QED BY <2>1, SameElement DEF Init, Cell!Init
<1>2. (TypeOK /\ ConfigInv) /\ [Next]_vars => [Cell!Next]_(Cell!vars)
  BY CellStep
<1> QED
  BY <1>1, <1>2, ConfigInvariant, PTL DEF Spec, ReadsAtOnce, Cell!Spec
=============================================================================
