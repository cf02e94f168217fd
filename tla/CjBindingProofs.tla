-------------------------- MODULE CjBindingProofs --------------------------
(***************************************************************************)
(* Theorems about the CJ binding: CjServiceConfig, for any number of       *)
(* threads and any configuration files, and CjAdData, for any requests and *)
(* answers and whichever allocations fail.                                 *)
(***************************************************************************)
EXTENDS CjServiceConfig, CjAdData, TLAPS

(* The names a file has where they are strings.                            *)
LEMMA NameOfFile ==
  ASSUME NEW contents \in File, NEW f \in Fields, Usable(contents), contents[f] # NotString
  PROVE  contents[f] \in ServiceName \cup {NoName}
BY DEF File, Usable

(* What a thread may see in a field is a name, or Torn.                    *)
LEMMA SeenType ==
  ASSUME TypeOK, ParsedOK, NEW f \in Fields
  PROVE  Seen(f) \subseteq ServiceName \cup {NoName, Torn}
<1> SUFFICES ASSUME NEW name \in Seen(f), name # element[f], name # Torn
             PROVE  name \in ServiceName \cup {NoName}
  BY DEF TypeOK, Element
<1>1. PICK q \in Thread : pc[q] = f /\ \E contents \in root[q] :
        contents[f] # NotString /\ name = contents[f]
  BY DEF Seen
<1>2. PICK contents \in root[q] : contents[f] # NotString /\ name = contents[f]
  BY <1>1
<1>3. contents \in File /\ Usable(contents)
  BY <1>1, <1>2, CjConfigAssumption DEF TypeOK, ParsedOK, Writing, Fields
<1> QED
  BY <1>2, <1>3, NameOfFile

(* Once the element is published a read sees it as it is.                  *)
LEMMA SeenPublished ==
  ASSUME ReadyOK, ready, NEW f \in Fields
  PROVE  Seen(f) = {element[f]}
<1>1. {p \in Thread : pc[p] = f} = {}
  BY DEF ReadyOK, Writing, Fields
<1> QED
  BY <1>1 DEF Seen

LEMMA CjTypeStep == TypeOK /\ ParsedOK /\ [Next]_vars => TypeOK'
<1> SUFFICES ASSUME TypeOK, ParsedOK, [Next]_vars PROVE TypeOK'
  OBVIOUS
<1> USE DEF TypeOK
<1>1. ASSUME NEW t \in Thread, Check(t) \/ Recheck(t) \/ Again(t) PROVE TypeOK'
  BY <1>1 DEF Check, Recheck, Again, LookAtFlag, Goto, Step, Reading
<1>2. ASSUME NEW t \in Thread, Find(t) \/ Lock(t) \/ Open(t) \/ Unlock(t) PROVE TypeOK'
  BY <1>2 DEF Find, Lock, Open, Unlock, Goto, Step, Reading, Writing
<1>3. ASSUME NEW t \in Thread, Publish(t) PROVE TypeOK'
  BY <1>3 DEF Publish, Goto, Step, IsConfigEmpty
<1>4. ASSUME NEW t \in Thread, Assign(t) PROVE TypeOK'
  <2>1. PICK contents \in root[t] :
          element' = IF contents[pc[t]] = NotString THEN element
                     ELSE [element EXCEPT ![pc[t]] = contents[pc[t]]]
    BY <1>4 DEF Assign
  <2>2. contents \in File /\ Usable(contents) /\ pc[t] \in Fields
    BY <1>4, CjConfigAssumption DEF Assign, ParsedOK, Writing, Fields
  <2>3. contents[pc[t]] = NotString \/ contents[pc[t]] \in ServiceName \cup {NoName}
    BY <2>2, NameOfFile
  <2>4. element' \in Element
    BY <2>1, <2>3 DEF Element
  <2>5. NextWrite(pc[t]) \in Step
    BY DEF NextWrite, Step, Writing
  <2> QED BY <1>4, <2>4, <2>5 DEF Assign, Goto
<1>5. ASSUME NEW t \in Thread, Read(t) PROVE TypeOK'
  <2>1. NextRead(pc[t]) \in Step /\ FieldOf(pc[t]) \in Fields
    BY DEF NextRead, FieldOf, Step, Reading, Fields
  <2>2. PICK name \in Seen(FieldOf(pc[t])) :
          copy' = [copy EXCEPT ![t] = [@ EXCEPT ![FieldOf(pc[t])] = name]]
    BY <1>5 DEF Read
  <2>3. name \in ServiceName \cup {NoName, Torn}
    BY <2>1, <2>2, SeenType
  <2>4. copy' \in [Thread -> Copy]
    BY <2>1, <2>2, <2>3 DEF Copy
  <2> QED BY <1>5, <2>1, <2>4 DEF Read, Goto
<1>6. CASE ReplaceFile
  BY <1>6 DEF ReplaceFile
<1>7. CASE UNCHANGED vars
  BY <1>7 DEF vars
<1> QED
  BY <1>1, <1>2, <1>3, <1>4, <1>5, <1>6, <1>7 DEF Next, Work

LEMMA CjHolderStep == TypeOK /\ HolderOK /\ [Next]_vars => HolderOK'
<1> SUFFICES ASSUME TypeOK, HolderOK, [Next]_vars, NEW q \in Thread
             PROVE  (holder = q <=> pc[q] \in Inside)'
  BY DEF HolderOK
<1> USE CjConfigAssumption DEF TypeOK, HolderOK, Inside, Writing
<1>1. ASSUME NEW t \in Thread, Check(t) \/ Recheck(t) \/ Again(t)
      PROVE  (holder = q <=> pc[q] \in Inside)'
  BY <1>1 DEF Check, Recheck, Again, LookAtFlag, Goto
<1>2. ASSUME NEW t \in Thread, Lock(t) \/ Unlock(t)
      PROVE  (holder = q <=> pc[q] \in Inside)'
  BY <1>2 DEF Lock, Unlock, Goto
<1>3. ASSUME NEW t \in Thread, Find(t) \/ Open(t) \/ Publish(t)
      PROVE  (holder = q <=> pc[q] \in Inside)'
  BY <1>3 DEF Find, Open, Publish, Goto
<1>4. ASSUME NEW t \in Thread, Assign(t) PROVE (holder = q <=> pc[q] \in Inside)'
  BY <1>4 DEF Assign, NextWrite, Goto
<1>5. ASSUME NEW t \in Thread, Read(t) PROVE (holder = q <=> pc[q] \in Inside)'
  BY <1>5 DEF Read, Reading, NextRead, Goto
<1>6. CASE ReplaceFile
  BY <1>6 DEF ReplaceFile
<1>7. CASE UNCHANGED vars
  BY <1>7 DEF vars
<1> QED
  BY <1>1, <1>2, <1>3, <1>4, <1>5, <1>6, <1>7 DEF Next, Work

LEMMA CjParsedStep == TypeOK /\ ParsedOK /\ [Next]_vars => ParsedOK'
<1> SUFFICES ASSUME TypeOK, ParsedOK, [Next]_vars, NEW q \in Thread, pc'[q] \in Writing,
                    NEW contents \in root'[q]
             PROVE  Usable(contents)
  BY DEF ParsedOK
<1> USE DEF TypeOK, ParsedOK, Writing
<1>1. ASSUME NEW t \in Thread, Open(t) PROVE Usable(contents)
  BY <1>1 DEF Open, Goto
<1>2. ASSUME NEW t \in Thread, Assign(t) PROVE Usable(contents)
  BY <1>2 DEF Assign, NextWrite, Goto
<1>3. ASSUME NEW t \in Thread, Check(t) \/ Recheck(t) \/ Again(t) PROVE Usable(contents)
  BY <1>3 DEF Check, Recheck, Again, LookAtFlag, Goto
<1>4. ASSUME NEW t \in Thread, Find(t) \/ Lock(t) \/ Publish(t) \/ Unlock(t)
      PROVE  Usable(contents)
  BY <1>4 DEF Find, Lock, Publish, Unlock, Goto
<1>5. ASSUME NEW t \in Thread, Read(t) PROVE Usable(contents)
  BY <1>5 DEF Read, Reading, NextRead, Goto
<1>6. CASE ReplaceFile
  BY <1>6 DEF ReplaceFile
<1>7. CASE UNCHANGED vars
  BY <1>7 DEF vars
<1> QED
  BY <1>1, <1>2, <1>3, <1>4, <1>5, <1>6, <1>7 DEF Next, Work

(* Once the flag is set no step clears it or touches the element.          *)
LEMMA FrozenStep ==
  ASSUME ReadyOK, [Next]_vars, ready
  PROVE  ready' /\ element' = element
<1>1. ASSUME NEW t \in Thread, Assign(t) PROVE FALSE
  BY <1>1 DEF Assign, ReadyOK
<1>2. ASSUME NEW t \in Thread, Publish(t) PROVE ready' /\ element' = element
  BY <1>2 DEF Publish
<1>3. ASSUME NEW t \in Thread,
             \/ Check(t) \/ Find(t) \/ Recheck(t) \/ Lock(t) \/ Again(t) \/ Open(t)
             \/ Unlock(t) \/ Read(t)
      PROVE  ready' /\ element' = element
  BY <1>3 DEF Check, Find, Recheck, Lock, Again, Open, Unlock, Read, LookAtFlag
<1>4. CASE ReplaceFile
  BY <1>4 DEF ReplaceFile
<1>5. CASE UNCHANGED vars
  BY <1>5 DEF vars
<1> QED
  BY <1>1, <1>2, <1>3, <1>4, <1>5 DEF Next, Work

LEMMA CjReadyStep == TypeOK /\ CjConfigInv /\ [Next]_vars => ReadyOK'
<1> SUFFICES ASSUME TypeOK, CjConfigInv, [Next]_vars, ready' PROVE ReadyOK'
  BY DEF ReadyOK
<1> DEFINE Idle(p) == \A q \in Thread : p[q] \notin Writing \cup {"open", "publish"}
<1>1. CASE ready
  <2>1. element' = element /\ ~IsConfigEmpty(element) /\ Idle(pc)
    BY <1>1, FrozenStep DEF CjConfigInv, ReadyOK
  <2>2. ASSUME NEW t \in Thread, Check(t) \/ Recheck(t) \/ Again(t) PROVE Idle(pc')
    BY <1>1, <2>1, <2>2 DEF Check, Recheck, Again, LookAtFlag, Goto, TypeOK, Writing
  <2>3. ASSUME NEW t \in Thread, Find(t) \/ Lock(t) \/ Unlock(t) PROVE Idle(pc')
    BY <2>1, <2>3 DEF Find, Lock, Unlock, Goto, TypeOK, Writing
  <2>4. ASSUME NEW t \in Thread, Read(t) PROVE Idle(pc')
    BY <2>1, <2>4 DEF Read, Reading, NextRead, Goto, TypeOK, Writing
  <2>5. ASSUME NEW t \in Thread, Open(t) \/ Assign(t) \/ Publish(t) PROVE FALSE
    BY <2>1, <2>5 DEF Open, Assign, Publish
  <2>6. ASSUME pc' = pc PROVE Idle(pc')
    BY <2>1, <2>6
  <2>7. Idle(pc')
    <3> HIDE DEF Idle
    <3> QED
      BY <2>2, <2>3, <2>4, <2>5, <2>6 DEF Next, Work, ReplaceFile, vars
  <2> QED BY <2>1, <2>7 DEF ReadyOK, IsConfigEmpty
<1>2. CASE ~ready
  <2>1. PICK t \in Thread : Publish(t)
    BY <1>2 DEF Next, Work, Check, Find, Recheck, Lock, Again, Open, Assign, Unlock, Read,
             LookAtFlag, ReplaceFile, vars
  <2>2. ~IsConfigEmpty(element) /\ element' = element
    BY <1>2, <2>1 DEF Publish
  <2>3. \A q \in Thread : q # t => pc[q] \notin Inside
    BY <2>1 DEF Publish, CjConfigInv, HolderOK, Inside
  <2>4. Idle(pc')
    BY <2>1, <2>3 DEF Publish, Goto, Inside, Writing, TypeOK
  <2> QED BY <2>2, <2>4 DEF ReadyOK, IsConfigEmpty
<1> QED
  BY <1>1, <1>2

LEMMA CjKnowsStep == TypeOK /\ CjConfigInv /\ [Next]_vars => KnowsOK'
<1> SUFFICES ASSUME TypeOK, CjConfigInv, [Next]_vars, NEW q \in Thread, knows'[q]
             PROVE  ready'
  BY DEF KnowsOK
<1> USE DEF TypeOK, CjConfigInv, KnowsOK
<1>1. CASE knows[q]
  BY <1>1, FrozenStep
<1>2. ASSUME NEW t \in Thread, Check(t) \/ Recheck(t) \/ Again(t) PROVE ready'
  BY <1>1, <1>2 DEF Check, Recheck, Again, LookAtFlag
<1>3. ASSUME NEW t \in Thread, Publish(t) PROVE ready'
  BY <1>1, <1>3 DEF Publish
<1>4. ASSUME NEW t \in Thread,
             \/ Find(t) \/ Lock(t) \/ Open(t) \/ Assign(t) \/ Unlock(t) \/ Read(t)
      PROVE  ready'
  BY <1>1, <1>4 DEF Find, Lock, Open, Assign, Unlock, Read
<1>5. CASE ReplaceFile
  BY <1>1, <1>5 DEF ReplaceFile
<1>6. CASE UNCHANGED vars
  BY <1>1, <1>6 DEF vars
<1> QED
  BY <1>2, <1>3, <1>4, <1>5, <1>6 DEF Next, Work

LEMMA CjReaderStep == TypeOK /\ CjConfigInv /\ [Next]_vars => ReaderSeesPublished'
<1> SUFFICES ASSUME TypeOK, CjConfigInv, [Next]_vars PROVE ReaderSeesPublished'
  OBVIOUS
<1> SUFFICES ASSUME NEW q \in Thread, knows'[q], NEW f \in ReadSoFar(pc'[q])
             PROVE  copy'[q][f] = element'[f]
  <2>1. ReadyOK' /\ KnowsOK'
    BY CjReadyStep, CjKnowsStep
  <2> QED BY <2>1 DEF ReadyOK, KnowsOK, ReaderSeesPublished, IsConfigEmpty
<1> USE DEF TypeOK
<1>f. f \in Fields
  BY DEF ReadSoFar, Fields
(* The thread knew already, had read the field, and its copy stays.        *)
<1>1. CASE knows[q] /\ f \in ReadSoFar(pc[q]) /\ copy'[q] = copy[q]
  <2>1. ready /\ copy[q][f] = element[f]
    BY <1>1 DEF CjConfigInv, KnowsOK, ReaderSeesPublished
  <2>2. element' = element
    BY <2>1, FrozenStep DEF CjConfigInv
  <2> QED BY <1>1, <2>1, <2>2
<1>2. ASSUME NEW t \in Thread, Check(t) \/ Recheck(t) \/ Again(t)
      PROVE  copy'[q][f] = element'[f]
  BY <1>1, <1>2 DEF Check, Recheck, Again, LookAtFlag, Goto, ReadSoFar
<1>3. ASSUME NEW t \in Thread, Find(t) \/ Lock(t) \/ Open(t) \/ Unlock(t)
      PROVE  copy'[q][f] = element'[f]
  BY <1>1, <1>3 DEF Find, Lock, Open, Unlock, Goto, ReadSoFar
<1>4. ASSUME NEW t \in Thread, Assign(t) \/ Publish(t)
      PROVE  copy'[q][f] = element'[f]
  BY <1>1, <1>4 DEF Assign, Publish, NextWrite, Writing, Goto, ReadSoFar
<1>5. ASSUME NEW t \in Thread, Read(t)
      PROVE  copy'[q][f] = element'[f]
  <2>1. knows' = knows /\ element' = element
    BY <1>5 DEF Read
  <2>2. CASE q # t
    BY <1>1, <1>5, <2>1, <2>2 DEF Read, Goto
  <2>3. CASE q = t
    <3>1. pc[t] \in Reading /\ pc'[t] = NextRead(pc[t])
      BY <1>5 DEF Read, Goto
    <3>2. PICK name \in Seen(FieldOf(pc[t])) :
            copy' = [copy EXCEPT ![t] = [@ EXCEPT ![FieldOf(pc[t])] = name]]
      BY <1>5 DEF Read
    <3>3. FieldOf(pc[t]) \in Fields
      BY DEF FieldOf, Fields
    <3>4. ready
      BY <2>1, <2>3 DEF CjConfigInv, KnowsOK
    <3>5. name = element[FieldOf(pc[t])]
      BY <3>2, <3>3, <3>4, SeenPublished DEF CjConfigInv
    <3>6. copy[t] \in [Fields -> ServiceName \cup {NoName, Torn}]
      BY DEF Copy
    <3>7. copy'[t] = [copy[t] EXCEPT ![FieldOf(pc[t])] = name]
      BY <3>2
    <3>8. CASE f = FieldOf(pc[t])
      BY <1>f, <2>1, <2>3, <3>5, <3>6, <3>7, <3>8
    <3>9. CASE f # FieldOf(pc[t])
      <4>1. f \in ReadSoFar(pc[t])
        BY <2>3, <3>1, <3>9 DEF ReadSoFar, NextRead, FieldOf, Reading, Fields
      <4>2. copy[t][f] = element[f]
        BY <2>1, <2>3, <4>1 DEF CjConfigInv, ReaderSeesPublished
      <4> QED BY <1>f, <2>1, <2>3, <3>6, <3>7, <3>9, <4>2
    <3> QED BY <3>8, <3>9
  <2> QED BY <2>2, <2>3
<1>6. CASE ReplaceFile
  BY <1>1, <1>6 DEF ReplaceFile
<1>7. CASE UNCHANGED vars
  BY <1>1, <1>7 DEF vars
<1> QED
  BY <1>2, <1>3, <1>4, <1>5, <1>6, <1>7 DEF Next, Work

(* Types are kept and the inductive invariant holds: the lock has one      *)
(* holder, and the flag is set only with the element complete and nobody   *)
(* writing.                                                                *)
THEOREM CjConfigInvariant == Spec => [](TypeOK /\ CjConfigInv)
<1>1. Init => TypeOK /\ CjConfigInv
  <2> SUFFICES ASSUME Init PROVE TypeOK /\ CjConfigInv
    OBVIOUS
  <2>1. TypeOK
    BY DEF Init, TypeOK, Step, Element, NoElement, Copy
  <2>2. HolderOK /\ ReadyOK /\ KnowsOK /\ ParsedOK
    BY CjConfigAssumption DEF Init, HolderOK, ReadyOK, KnowsOK, ParsedOK, Inside, Writing
  <2>3. ReaderSeesPublished
    BY DEF Init, ReaderSeesPublished
  <2> QED BY <2>1, <2>2, <2>3 DEF CjConfigInv
<1>2. TypeOK /\ CjConfigInv /\ [Next]_vars => (TypeOK /\ CjConfigInv)'
  <2> SUFFICES ASSUME TypeOK, CjConfigInv, [Next]_vars PROVE (TypeOK /\ CjConfigInv)'
    OBVIOUS
  <2>1. TypeOK' /\ HolderOK' /\ ParsedOK'
    BY CjTypeStep, CjHolderStep, CjParsedStep DEF CjConfigInv
  <2>2. ReadyOK' /\ KnowsOK' /\ ReaderSeesPublished'
    BY CjReadyStep, CjKnowsStep, CjReaderStep
  <2> QED BY <2>1, <2>2 DEF CjConfigInv
<1> QED
  BY <1>1, <1>2, PTL DEF Spec

(* A thread that saw configInitialized_ connects to the published names    *)
(* although it takes no lock (RequestAdBody, ConnectAdKit).                *)
THEOREM UnlockedReadIsSafe == Spec => []ReaderSeesPublished
<1>1. CjConfigInv => ReaderSeesPublished
  BY DEF CjConfigInv
<1> QED
  BY <1>1, CjConfigInvariant, PTL

(* Once set the flag stays set, and the element never changes again.       *)
THEOREM PublishedIsFrozen == Spec => FrozenOnceReady
<1>1. CjConfigInv /\ [Next]_vars => [ready => ready' /\ element' = element]_vars
  BY FrozenStep DEF CjConfigInv
<1> QED
  BY <1>1, CjConfigInvariant, PTL DEF Spec, FrozenOnceReady
(* The blocks there are when the slots before the present one are          *)
(* converted, ...                                                          *)
WholePairs(N) == UNION {WholePair(n) : n \in N}

SlotsSoFar ==
  IF Several THEN {Block(0, 0, 0, "slots")} \cup WholePairs(1 .. slot - 1) ELSE {}

(* ... when this slot's own are allocated, ...                             *)
PairSoFar ==
  SlotsSoFar \cup IF Several THEN {Block(slot, 0, 0, "name"), Block(slot, 0, 0, "value")} ELSE {}

(* ... when the ads before the present one are, and so are the headers     *)
(* before the present header.                                              *)
AdsSoFar == PairSoFar \cup WholeArr(slot, 1 .. ad - 1)

HeadersSoFar ==
  AdsSoFar \cup {Block(slot, ad, 0, "uniqueId"), Block(slot, ad, 0, "headers")}
    \cup WholeHeaders(slot, ad, 1 .. header - 1)

HeaderHere == WholeHeaders(slot, ad, {header})

Outside == {"idle", "fields", "extras", "written", "slots", "failed", "told"}
InPair  == {"value", "array", "ad", "headers", "header", "text"}
InArray == {"ad", "headers", "header", "text"}
InAd    == {"headers", "header", "text"}
Refused == {"adFailed", "arrayFailed", "pairFailed", "slotsFailed", "failed"}

(* What is allocated at each place, to the block.                          *)
LiveOK ==
  /\ at \in Outside => live = {}
  /\ at \in {"pair", "slotsFailed"} => live = SlotsSoFar
  /\ at = "value" => live = SlotsSoFar \cup {Block(slot, 0, 0, "name")}
  /\ at = "pairFailed" => SlotsSoFar \subseteq live /\ live \subseteq PairSoFar
  /\ at = "array" => live = PairSoFar
  /\ at \in {"ad", "arrayFailed"} => live = AdsSoFar
  /\ at = "headers" => live = AdsSoFar \cup {Block(slot, ad, 0, "uniqueId")}
  /\ at = "header" => live = HeadersSoFar
  /\ at = "text" => live \in {HeadersSoFar, HeadersSoFar \cup {Block(slot, ad, header, "key")}}
  /\ at = "adFailed" => HeadersSoFar \subseteq live /\ live \subseteq HeadersSoFar \cup HeaderHere
  /\ at = "read" => live = Complete

(* Where in the answer each place can be.                                  *)
PositionOK ==
  /\ at = "idle" => slot = 0
  /\ at \in {"slots", "pair", "value", "pairFailed", "slotsFailed"} => Several
  /\ at = "pair" => answer # <<>>
  /\ at \in {"pair", "slotsFailed"} => slot \in 1 .. Len(answer) + 1
  /\ at \in InPair \cup {"pairFailed", "arrayFailed", "adFailed"} => slot \in DOMAIN answer
  /\ at = "ad" => ad \in 1 .. Len(Ads) + 1
  /\ at \in InAd \cup {"adFailed", "arrayFailed"} => ad \in DOMAIN Ads
  /\ at \in {"header", "text", "adFailed"} => Headers # <<>>
  /\ at = "header" => header \in 1 .. Len(Headers) + 1
  /\ at \in {"text", "adFailed"} => header \in DOMAIN Headers

(* What was read so far is well formed.                                    *)
WellSoFar ==
  /\ at \in InPair \cup {"pair"} /\ Several => \A n \in 1 .. slot - 1 : WellSlot(answer[n])
  /\ at \in InPair /\ Several => answer[slot].name = "text"
  /\ at \in InPair \ {"value"} /\ Several => answer[slot].object
  /\ at \in InArray => Ads # <<>> /\ \A i \in 1 .. ad - 1 : WellAd(Ads[i])
  /\ at \in InAd => Ads[ad].typed /\ Ads[ad].uniqueId = "text"
  /\ at \in {"header", "text"} => \A k \in 1 .. header - 1 : WellHeader(Headers[k])
  /\ at = "text" =>
       /\ Headers[header].object /\ "none" \notin {Headers[header].key, Headers[header].value}
       /\ IF Block(slot, ad, header, "key") \in live THEN Headers[header].key = "text" /\ ~short
          ELSE Headers[header].key = "empty" \/ short

(* A refusal has a cause, and without a refusal no allocation failed.      *)
VerdictOK ==
  /\ at \in Refused => ~WellFormed \/ short
  /\ at = "read" => WellFormed
  /\ short => at \in Refused \cup {"text", "told"}

AnswerInv == LiveOK /\ PositionOK /\ WellSoFar /\ VerdictOK

(* The last member of a name is the one a parser keeps.                    *)
Says(key, value) ==
  \E i \in DOMAIN json : json[i] = Member(key, value) /\ \A j \in DOMAIN json : json[j].key = key => j <= i

Wanted == (Required(request.kind) \cup request.given) \ {"adSearchKeyword"}

(* What the members written so far say of a field that was written.        *)
SaidByFields(field, upto) ==
  IF field = "adId" /\ "adSearchKeyword" \in request.given /\ upto > 6 THEN "adSearchKeyword" ELSE field

SaidByExtras(field, upto) ==
  IF \E i \in DOMAIN request.extra : i < upto /\ request.extra[i].key = field /\ request.extra[i].value
  THEN "extra" ELSE SaidByFields(field, 7)

RequestInv ==
  /\ at \in {"fields", "extras"} => request.kind \in Kinds /\ next >= 1
  /\ request.kind \in Kinds => request.given \subseteq Optional(request.kind)
  /\ at = "fields" =>
       \A p \in DOMAIN FieldsOf(request.kind) :
         p < next /\ FieldsOf(request.kind)[p] \in Wanted
         => Says(FieldsOf(request.kind)[p], SaidByFields(FieldsOf(request.kind)[p], next))
  /\ at \in {"extras", "written"} /\ request.kind \in Kinds =>
       \A field \in Wanted : Says(field, SaidByExtras(field, next))
  /\ at = "written" /\ request.kind \in Kinds => next >= 1 /\ next \notin DOMAIN request.extra
  /\ at = "written" /\ request.kind = "root" =>
       request.slots >= 1 /\ json = ConvertCAdRequestParamsArr2CJSON(request.slots)

-----------------------------------------------------------------------------
(* Sets of blocks.                                                         *)

LEMMA BlocksApart ==
  \A n, i, k, f, m, j, l, g :
    Block(n, i, k, f) = Block(m, j, l, g) <=> n = m /\ i = j /\ k = l /\ f = g
BY DEF Block

LEMMA BlockIn ==
  ASSUME NEW n \in Nat, NEW i \in Nat, NEW k \in Nat,
         NEW f \in {"slots", "name", "value", "head", "uniqueId", "headers", "key"}
  PROVE  Block(n, i, k, f) \in
           [slot : Nat, ad : Nat, header : Nat,
            field : {"slots", "name", "value", "head", "uniqueId", "headers", "key"}]
BY DEF Block

(* A block says whose it is.                                               *)
LEMMA WhereHeaders ==
  ASSUME NEW n, NEW i, NEW K, NEW b \in WholeHeaders(n, i, K)
  PROVE  b.slot = n /\ b.ad = i /\ b.header \in K /\ b.field \in {"key", "value"}
BY DEF WholeHeaders, Block

LEMMA WhereAd ==
  ASSUME NEW n, NEW i, NEW b \in WholeAd(n, i)
  PROVE  b.slot = n /\ b.ad = i
BY WhereHeaders DEF WholeAd, Block

LEMMA WhereArr ==
  ASSUME NEW n, NEW I, NEW b \in WholeArr(n, I)
  PROVE  b.slot = n /\ b.ad \in I \cup {0} /\ b.field # "name"
         /\ (b.field = "value" => b.ad \in I)
<1>1. CASE b = Block(n, 0, 0, "head")
  BY <1>1 DEF Block
<1>2. ASSUME NEW i \in I, b \in WholeAd(n, i)
      PROVE  b.slot = n /\ b.ad = i /\ b.field # "name"
  BY <1>2, WhereHeaders DEF WholeAd, Block
<1> QED
  BY <1>1, <1>2 DEF WholeArr

LEMMA WherePair ==
  ASSUME NEW n, NEW b \in WholePair(n)
  PROVE  b.slot = n
BY WhereArr DEF WholePair, Block

LEMMA WhereSlots ==
  ASSUME slot \in Nat, slot # 0, NEW b \in SlotsSoFar
  PROVE  b.slot \in Nat /\ b.slot < slot
<1>1. CASE b = Block(0, 0, 0, "slots")
  BY <1>1 DEF Block
<1>2. ASSUME NEW n \in 1 .. slot - 1, b \in WholePair(n)
      PROVE  b.slot \in Nat /\ b.slot < slot
  BY <1>2, WherePair
<1> QED
  BY <1>1, <1>2 DEF SlotsSoFar, WholePairs

(* Each cleanup finds the blocks it is meant for.                          *)
LEMMA FoundAd ==
  ASSUME NEW n, NEW i
  PROVE  WholeAd(n, i) \subseteq AdBlocks(n, i)
BY DEF WholeAd, WholeHeaders, AdBlocks

LEMMA FoundArr ==
  ASSUME NEW n
  PROVE  WholeArr(n, DOMAIN answer[n].ads) \subseteq ArrBlocks(n)
BY FoundAd DEF WholeArr, ArrBlocks

LEMMA FoundPair ==
  ASSUME NEW n
  PROVE  WholePair(n) \subseteq PairBlocks(n)
BY FoundArr DEF WholePair, PairBlocks

LEMMA FoundSlots ==
  ASSUME Several
  PROVE  Complete \subseteq SlotBlocks
BY FoundPair DEF Complete, SlotBlocks

LEMMA WhereFound ==
  ASSUME NEW n, NEW i, NEW b \in AdBlocks(n, i)
  PROVE  b.slot = n /\ b.ad = i
BY DEF AdBlocks, Block

LEMMA WhereFoundArr ==
  ASSUME NEW n, NEW b \in ArrBlocks(n)
  PROVE  b.slot = n
BY WhereFound DEF ArrBlocks, Block

LEMMA WhereFoundPair ==
  ASSUME NEW n, NEW b \in PairBlocks(n)
  PROVE  b.slot = n
BY WhereFoundArr DEF PairBlocks, Block

(* One more header, ad or slot.                                            *)
LEMMA NextHeader ==
  ASSUME NEW n, NEW i, NEW k \in Nat \ {0}
  PROVE  WholeHeaders(n, i, 1 .. k) =
           WholeHeaders(n, i, 1 .. k - 1) \cup {Block(n, i, k, "key"), Block(n, i, k, "value")}
<1>1. 1 .. k = (1 .. k - 1) \cup {k}
  OBVIOUS
<1> QED
  BY <1>1 DEF WholeHeaders

LEMMA NextAd ==
  ASSUME NEW n, NEW i \in Nat \ {0}
  PROVE  WholeArr(n, 1 .. i) = WholeArr(n, 1 .. i - 1) \cup WholeAd(n, i)
<1>1. 1 .. i = (1 .. i - 1) \cup {i}
  OBVIOUS
<1> QED
  BY <1>1 DEF WholeArr

LEMMA NextSlot ==
  ASSUME NEW n \in Nat \ {0}
  PROVE  WholePairs(1 .. n) = WholePairs(1 .. n - 1) \cup WholePair(n)
<1>1. 1 .. n = (1 .. n - 1) \cup {n}
  OBVIOUS
<1> QED
  BY <1>1 DEF WholePairs

(* What a step that leaves the answer, or the position, alone leaves alone. *)
LEMMA SameAnswer ==
  ASSUME answer' = answer
  PROVE  /\ Several' = Several /\ WellFormed' = WellFormed /\ Complete' = Complete
         /\ ArrayRefused' = ArrayRefused
         /\ \A n, K : WholeArr(n, K)' = WholeArr(n, K)
         /\ \A n, i : WholeAd(n, i)' = WholeAd(n, i)
         /\ \A n : WholePair(n)' = WholePair(n)
<1>1. Several' = Several
  BY DEF Several
<1>2. WellFormed' = WellFormed
  BY <1>1 DEF WellFormed
<1>3. \A n, i : WholeAd(n, i)' = WholeAd(n, i)
  BY DEF WholeAd
<1>4. \A n, K : WholeArr(n, K)' = WholeArr(n, K)
  BY <1>3 DEF WholeArr
<1>5. \A n : WholePair(n)' = WholePair(n)
  BY <1>4 DEF WholePair
<1>6. Complete' = Complete
  BY <1>1, <1>4, <1>5 DEF Complete
<1>7. ArrayRefused' = ArrayRefused
  BY <1>1 DEF ArrayRefused
<1> QED
  BY <1>1, <1>2, <1>3, <1>4, <1>5, <1>6, <1>7

LEMMA SameSlot ==
  ASSUME answer' = answer, slot' = slot
  PROVE  SlotsSoFar' = SlotsSoFar /\ PairSoFar' = PairSoFar /\ Ads' = Ads
<1>1. SlotsSoFar' = SlotsSoFar
  BY SameAnswer DEF SlotsSoFar, WholePairs
<1>2. PairSoFar' = PairSoFar
  BY <1>1, SameAnswer DEF PairSoFar
<1> QED
  BY <1>1, <1>2 DEF Ads

LEMMA SameAd ==
  ASSUME answer' = answer, slot' = slot, ad' = ad
  PROVE  AdsSoFar' = AdsSoFar /\ Headers' = Headers
BY SameAnswer, SameSlot DEF AdsSoFar, Headers

LEMMA SameHeader ==
  ASSUME answer' = answer, position' = position
  PROVE  /\ SlotsSoFar' = SlotsSoFar /\ PairSoFar' = PairSoFar /\ Ads' = Ads
         /\ AdsSoFar' = AdsSoFar /\ Headers' = Headers
         /\ HeadersSoFar' = HeadersSoFar /\ HeaderHere' = HeaderHere
<1>1. slot' = slot /\ ad' = ad /\ header' = header
  BY DEF position
<1>2. AdsSoFar' = AdsSoFar
  BY <1>1, SameAd
<1>3. HeadersSoFar' = HeadersSoFar /\ HeaderHere' = HeaderHere
  BY <1>1, <1>2 DEF HeadersSoFar, HeaderHere, WholeHeaders
<1> QED
  BY <1>1, <1>2, <1>3, SameSlot, SameAd

-----------------------------------------------------------------------------
(* Types.                                                                  *)

LEMMA FieldsAreTexts ==
  ASSUME NEW kind \in Kinds
  PROVE  /\ Optional(kind) \subseteq FieldName /\ kind # "root"
         /\ \A i \in DOMAIN FieldsOf(kind) :
              FieldsOf(kind)[i] \in FieldName /\ KeyOf(FieldsOf(kind)[i]) \in FieldName
<1>1. \A i \in DOMAIN FieldsOf(kind) : FieldsOf(kind)[i] \in FieldName
  BY DEF FieldName
<1>2. "adId" \in FieldName
  <2>1. "request" \in Kinds /\ 1 \in DOMAIN FieldsOf("request") /\ FieldsOf("request")[1] = "adId"
    BY DEF Kinds, FieldsOf
  <2> QED BY <2>1 DEF FieldName
<1> QED
  BY <1>1, <1>2 DEF Optional, KeyOf, Kinds

LEMMA RequestTypeStep ==
  ASSUME ConvertTypeOK, RequestInv,
         \/ \E kind \in Kinds : WriteObject(kind)
         \/ WriteField \/ WriteExtra \/ WriteSlots
  PROVE  RequestTypeOK'
<1> USE DEF ConvertTypeOK, RequestTypeOK
<1>1. ASSUME NEW kind \in Kinds, WriteObject(kind) PROVE RequestTypeOK'
  <2>1. PICK given \in SUBSET Optional(kind), extra \in Extras :
          request' = [kind |-> kind, given |-> given, extra |-> extra, slots |-> 0]
    BY <1>1 DEF WriteObject
  <2>2. /\ request'.kind = kind /\ request'.given = given
        /\ request'.extra = extra /\ request'.slots = 0
    BY <2>1
  <2>3. given \subseteq FieldName /\ extra \in Seq(Attribute)
    BY FieldsAreTexts, CjDataAssumption
  <2>4. json' \in Seq(FieldMember) /\ kind # "root"
    BY <1>1 DEF WriteObject, Kinds
  <2> QED BY <1>1, <2>2, <2>3, <2>4 DEF WriteObject
<1>2. ASSUME WriteField PROVE RequestTypeOK'
  <2>1. request.kind \in Kinds /\ request' = request
    BY <1>2 DEF WriteField, RequestInv
  <2>2. CASE next \in DOMAIN FieldsOf(request.kind)
    <3>1. Member(KeyOf(FieldsOf(request.kind)[next]), FieldsOf(request.kind)[next])
            \in FieldMember
      BY <2>1, <2>2, FieldsAreTexts DEF Member, FieldMember
    <3>2. json' \in Seq(FieldMember)
      <4>1. json \in Seq(FieldMember)
        BY <2>1, FieldsAreTexts
      <4>2. Append(json, Member(KeyOf(FieldsOf(request.kind)[next]), FieldsOf(request.kind)[next]))
              \in Seq(FieldMember)
        BY <3>1, <4>1
      <4> QED BY <1>2, <2>2, <4>1, <4>2 DEF WriteField
    <3> QED BY <1>2, <2>1, <2>2, <3>2, FieldsAreTexts DEF WriteField
  <2>3. CASE next \notin DOMAIN FieldsOf(request.kind)
    BY <1>2, <2>1, <2>3 DEF WriteField
  <2> QED BY <2>2, <2>3
<1>3. ASSUME WriteExtra PROVE RequestTypeOK'
  <2>1. request.kind \in Kinds /\ request' = request /\ request.kind # "root"
    BY <1>3, FieldsAreTexts DEF WriteExtra, RequestInv
  <2>2. CASE next \in DOMAIN request.extra
    <3>0. request.extra[next] \in Attribute
      BY <2>2
    <3>1. Member(request.extra[next].key, "extra") \in FieldMember
      BY <3>0 DEF Member, Attribute, FieldMember
    <3>2. json' \in Seq(FieldMember)
      BY <1>3, <2>1, <2>2, <3>1 DEF WriteExtra, Adparameters2CJSONObject
    <3> QED BY <1>3, <2>1, <2>2, <3>2 DEF WriteExtra
  <2>3. CASE next \notin DOMAIN request.extra
    BY <1>3, <2>1, <2>3 DEF WriteExtra
  <2> QED BY <2>2, <2>3
<1>4. ASSUME WriteSlots PROVE RequestTypeOK'
  <2>1. PICK n \in 1 .. MaxSlots : /\ request' = [NoRequest EXCEPT !.slots = n]
                                   /\ json' = ConvertCAdRequestParamsArr2CJSON(n)
    BY <1>4 DEF WriteSlots
  <2>2. /\ request'.kind = "root" /\ request'.given = {} /\ request'.extra = <<>>
        /\ request'.slots = n /\ n \in Nat
    BY <2>1, CjDataAssumption DEF NoRequest
  <2> DEFINE S == [key : {Unnamed}, value : Nat]
  <2>3. json' \in Seq(S)
    <3>1. \A i \in 1 .. n : Member(Unnamed, i) \in S
      BY DEF Member
    <3>2. json' = [i \in 1 .. n |-> Member(Unnamed, i)]
      BY <2>1 DEF ConvertCAdRequestParamsArr2CJSON
    <3> HIDE DEF S
    <3>3. json' \in [1 .. n -> S]
      BY <3>1, <3>2
    <3> QED BY <2>2, <3>3
  <2>4. next' \in Nat
    BY <1>4 DEF WriteSlots
  <2>5. {} \subseteq FieldName /\ <<>> \in Seq(Attribute)
    OBVIOUS
  <2> QED BY <2>2, <2>3, <2>4, <2>5
<1> QED
  BY <1>1, <1>2, <1>3, <1>4

LEMMA AnswerTypeStep ==
  ASSUME ConvertTypeOK, [ConvertNext]_convertVars
  PROVE  AnswerTypeOK'
<1> USE DEF ConvertTypeOK, AnswerTypeOK
<1>1. ASSUME reading' = reading PROVE AnswerTypeOK'
  BY <1>1 DEF reading, position, Several
<1>2. ASSUME NEW block, NEW done, NEW failed, Malloc(block, done, failed)
      PROVE  live' \subseteq live \cup {block} /\ short' \in BOOLEAN
  BY <1>2 DEF Malloc
<1>3. ASSUME NEW block, NEW text, NEW done, NEW failed, MallocCString(block, text, done, failed)
      PROVE  live' \subseteq live \cup {block} /\ short' \in BOOLEAN
  BY <1>2, <1>3 DEF MallocCString
<1>4. ASSUME answer' = answer, slot' \in Nat, ad' \in Nat, header' \in Nat, short' \in BOOLEAN,
             live' \subseteq live
      PROVE  AnswerTypeOK'
  BY <1>4 DEF Several
<1>5. ASSUME NEW block \in [slot : Nat, ad : Nat, header : Nat,
                            field : {"slots", "name", "value", "head", "uniqueId", "headers", "key"}],
             answer' = answer, slot' \in Nat, ad' \in Nat, header' \in Nat, short' \in BOOLEAN,
             live' \subseteq live \cup {block}
      PROVE  AnswerTypeOK'
  BY <1>5 DEF Several
<1>6. ASSUME ReadAds PROVE AnswerTypeOK'
  <2>1. PICK ads \in AdLists :
          answer' = [n \in {0} |-> [name |-> "none", object |-> TRUE, ads |-> ads]]
    BY <1>6 DEF ReadAds
  <2>2. answer' \in [{0} -> Slot] /\ 0 \in DOMAIN answer'
    BY <2>1, CjDataAssumption DEF Slot, Text
  <2> QED BY <1>6, <2>2 DEF ReadAds, position, Several
<1>7. ASSUME ReadSlots PROVE AnswerTypeOK'
  <2>1. answer' \in Seq(Slot) /\ 0 \notin DOMAIN answer'
    BY <1>7, CjDataAssumption DEF ReadSlots
  <2> QED BY <1>7, <2>1 DEF ReadSlots, position, Several
<1>8. ASSUME InitHashStrArrHeaders PROVE AnswerTypeOK'
  BY <1>2, <1>4, <1>5, <1>8, BlockIn DEF InitHashStrArrHeaders
<1>9. ASSUME ParseName PROVE AnswerTypeOK'
  BY <1>3, <1>4, <1>5, <1>9, BlockIn DEF ParseName, position
<1>10. ASSUME AllocValue PROVE AnswerTypeOK'
  BY <1>2, <1>5, <1>10, BlockIn DEF AllocValue, position
<1>11. ASSUME AllocHead PROVE AnswerTypeOK'
  BY <1>2, <1>4, <1>5, <1>11, BlockIn DEF AllocHead
<1>12. ASSUME EndArray PROVE AnswerTypeOK'
  BY <1>4, <1>12 DEF EndArray
<1>13. ASSUME JsonStr2CAdvertisement PROVE AnswerTypeOK'
  BY <1>3, <1>4, <1>5, <1>13, BlockIn DEF JsonStr2CAdvertisement, position
<1>14. ASSUME ParseRewardVerifyConfig PROVE AnswerTypeOK'
  <2>1. answer' = answer /\ slot' \in Nat /\ ad' \in Nat /\ header' \in Nat
    BY <1>14 DEF ParseRewardVerifyConfig
  <2>3. short' \in BOOLEAN
    BY <1>14 DEF ParseRewardVerifyConfig
  <2>2. live' \subseteq live \/ live' \subseteq live \cup {Block(slot, ad, 0, "headers")}
    BY <1>14 DEF ParseRewardVerifyConfig
  <2> QED BY <1>4, <1>5, <2>1, <2>2, <2>3, BlockIn
<1>15. ASSUME EndHeaders PROVE AnswerTypeOK'
  BY <1>4, <1>15 DEF EndHeaders
<1>16. ASSUME ParseKey PROVE AnswerTypeOK'
  BY <1>3, <1>4, <1>5, <1>16, BlockIn DEF ParseKey, position
<1>17. ASSUME ParseValue PROVE AnswerTypeOK'
  <2>1. PICK done : MallocCString(Block(slot, ad, header, "value"), Headers[header].value,
                                  done, "adFailed")
    BY <1>17 DEF ParseValue
  <2>2. live' \subseteq live \cup {Block(slot, ad, header, "value")} /\ short' \in BOOLEAN
    BY <1>3, <2>1
  <2>3. answer' = answer /\ slot' \in Nat /\ ad' \in Nat /\ header' \in Nat
    BY <1>17 DEF ParseValue
  <2> QED BY <1>5, <2>2, <2>3, BlockIn
<1>18. ASSUME \/ CleanupCAdvertisementOnFailure \/ CleanupArray \/ CleanupPair
              \/ CleanupSlots \/ TellAndFree
       PROVE  AnswerTypeOK'
  BY <1>4, <1>18 DEF CleanupCAdvertisementOnFailure, CleanupArray, CleanupPair, CleanupSlots,
                     TellAndFree, position
<1>19. ASSUME Done PROVE AnswerTypeOK'
  <2>1. answer' = <<>> /\ 0 \notin DOMAIN answer' /\ answer' \in Seq(Slot)
    BY <1>19 DEF Done
  <2> QED BY <1>19, <2>1 DEF Done, Several
<1> QED
  BY <1>1, <1>6, <1>7, <1>8, <1>9, <1>10, <1>11, <1>12, <1>13, <1>14, <1>15, <1>16, <1>17,
     <1>18, <1>19
     DEF ConvertNext, convertVars, WriteObject, WriteField, WriteExtra, WriteSlots

-----------------------------------------------------------------------------
(* Requests.                                                               *)

LEMMA SaysNew ==
  ASSUME NEW S, json \in Seq(S), NEW key, NEW value, json' = Append(json, Member(key, value))
  PROVE  Says(key, value)'
<1>1. /\ DOMAIN json' = 1 .. Len(json) + 1 /\ Len(json) \in Nat
      /\ json'[Len(json) + 1] = Member(key, value)
  OBVIOUS
<1>2. Len(json) + 1 \in DOMAIN json' /\ \A j \in DOMAIN json' : j <= Len(json) + 1
  BY <1>1
<1> QED
  BY <1>1, <1>2 DEF Says

LEMMA SaysStill ==
  ASSUME NEW S, json \in Seq(S), NEW k, NEW v, json' = Append(json, Member(k, v)),
         NEW key, NEW value, key # k, Says(key, value)
  PROVE  Says(key, value)'
<1>1. PICK i \in DOMAIN json :
        json[i] = Member(key, value) /\ \A j \in DOMAIN json : json[j].key = key => j <= i
  BY DEF Says
<1>2. /\ DOMAIN json' = DOMAIN json \cup {Len(json) + 1}
      /\ \A j \in DOMAIN json : json'[j] = json[j]
      /\ json'[Len(json) + 1] = Member(k, v)
  OBVIOUS
<1>3. Member(k, v).key = k
  BY DEF Member
<1>4. i \in DOMAIN json' /\ json'[i] = Member(key, value)
  BY <1>1, <1>2
<1>5. \A j \in DOMAIN json' : json'[j].key = key => j <= i
  BY <1>1, <1>2, <1>3
<1> QED
  BY <1>4, <1>5 DEF Says

LEMMA SaysSame ==
  ASSUME json' = json, NEW key, NEW value
  PROVE  Says(key, value)' <=> Says(key, value)
BY DEF Says

LEMMA FieldsApart ==
  ASSUME NEW kind \in Kinds
  PROVE  LET fields == FieldsOf(kind) IN
         /\ DOMAIN fields \subseteq 1 .. 6
         /\ \A p, q \in DOMAIN fields : fields[p] = fields[q] => p = q
         /\ \A p \in DOMAIN fields : fields[p] = "adSearchKeyword" <=> p = 6
         /\ \A p \in DOMAIN fields : fields[p] = "adId" => p = 1 /\ DOMAIN fields = 1 .. 6
         /\ \A m \in Nat : m >= 1 /\ m \notin DOMAIN fields => \A p \in DOMAIN fields : p < m
         /\ Required(kind) \subseteq {fields[p] : p \in DOMAIN fields}
<1>1. CASE kind = "request"
  BY <1>1 DEF FieldsOf, Required
<1>2. CASE kind = "options"
  BY <1>2 DEF FieldsOf, Required
<1>3. CASE kind = "display"
  BY <1>3 DEF FieldsOf, Required
<1> QED
  BY <1>1, <1>2, <1>3 DEF Kinds

LEMMA WriteFieldStep ==
  ASSUME ConvertTypeOK, RequestInv, WriteField
  PROVE  RequestInv'
<1>0. PICK kind, n, fields, g :
        kind = request.kind /\ n = next /\ fields = FieldsOf(kind) /\ g = fields[n]
  OBVIOUS
<1>1. /\ kind \in Kinds /\ kind # "root" /\ request' = request /\ at = "fields"
      /\ n >= 1 /\ n \in Nat /\ json \in Seq(FieldMember)
      /\ request.given \subseteq Optional(kind) /\ Wanted' = Wanted
  BY <1>0, FieldsAreTexts DEF WriteField, RequestInv, ConvertTypeOK, RequestTypeOK, Wanted
<1>2. ASSUME NEW p \in DOMAIN fields, p < n, fields[p] \in Wanted
      PROVE  Says(fields[p], SaidByFields(fields[p], n))
  BY <1>0, <1>1, <1>2 DEF RequestInv
<1>f. /\ DOMAIN fields \subseteq 1 .. 6
      /\ \A p, q \in DOMAIN fields : fields[p] = fields[q] => p = q
      /\ \A p \in DOMAIN fields : fields[p] = "adSearchKeyword" <=> p = 6
      /\ \A p \in DOMAIN fields : fields[p] = "adId" => p = 1 /\ DOMAIN fields = 1 .. 6
      /\ \A m \in Nat : m >= 1 /\ m \notin DOMAIN fields => \A p \in DOMAIN fields : p < m
      /\ Required(kind) \subseteq {fields[p] : p \in DOMAIN fields}
  BY <1>0, <1>1, FieldsApart
<1>3. CASE n \in DOMAIN fields
  <2>1. next' = n + 1 /\ at' = "fields"
    BY <1>0, <1>1, <1>3 DEF WriteField
  <2>2. ASSUME NEW p \in DOMAIN fields, p < n + 1, fields[p] \in Wanted
        PROVE  Says(fields[p], SaidByFields(fields[p], n + 1))'
    <3>0. fields[p] # "adSearchKeyword" /\ fields[p] \in Required(kind) \cup request.given
      BY <1>0, <2>2 DEF Wanted
    <3>1. CASE g \in Required(kind) \cup request.given
      <4>1. json' = Append(json, Member(KeyOf(g), g))
        BY <1>0, <1>1, <1>3, <3>1 DEF WriteField
      <4>2. CASE p = n
        <5>1. fields[p] = g /\ KeyOf(g) = g
          BY <1>0, <3>0, <4>2 DEF KeyOf
        <5>2. SaidByFields(g, n + 1)' = g
          BY <1>0, <1>1, <1>f, <4>2, <5>1 DEF SaidByFields
        <5>3. Says(g, g)'
          BY <1>0, <1>1, <4>1, <5>1, SaysNew
        <5> QED BY <5>1, <5>2, <5>3 DEF Says
      <4>3. CASE p # n /\ g = "adSearchKeyword" /\ fields[p] = "adId"
        <5>1. KeyOf(g) = fields[p] /\ n = 6 /\ g \in request.given
          BY <1>0, <1>f, <1>3, <3>0, <3>1, <4>3 DEF KeyOf, Required
        <5>2. SaidByFields(fields[p], n + 1)' = g
          BY <1>0, <1>1, <4>3, <5>1 DEF SaidByFields
        <5>3. Says(fields[p], g)'
          BY <1>0, <1>1, <4>1, <5>1, SaysNew
        <5> QED BY <5>2, <5>3 DEF Says
      <4>4. CASE p # n /\ ~(g = "adSearchKeyword" /\ fields[p] = "adId")
        <5>1. KeyOf(g) # fields[p]
          BY <1>0, <1>f, <1>3, <2>2, <4>4 DEF KeyOf
        <5>2. SaidByFields(fields[p], n + 1)' = SaidByFields(fields[p], n)
          BY <1>0, <1>1, <1>f, <1>3, <2>2, <4>4 DEF SaidByFields
        <5>3. Says(fields[p], SaidByFields(fields[p], n))
          BY <1>0, <1>1, <1>2, <2>2, <4>4, <1>f
        <5>4. PICK value : value = SaidByFields(fields[p], n)
          OBVIOUS
        <5>5. Says(fields[p], value)'
          BY <1>0, <1>1, <4>1, <5>1, <5>3, <5>4, SaysStill
        <5> QED BY <5>2, <5>4, <5>5 DEF Says
      <4> QED BY <4>2, <4>3, <4>4
    <3>2. CASE g \notin Required(kind) \cup request.given
      <4>1. json' = json
        BY <1>0, <1>1, <1>3, <3>2 DEF WriteField
      <4>2. p < n
        BY <1>0, <1>1, <1>f, <2>2, <3>0, <3>2
      <4>3. SaidByFields(fields[p], n + 1)' = SaidByFields(fields[p], n)
        BY <1>0, <1>1, <1>f, <1>3, <2>2, <3>2 DEF SaidByFields
      <4>4. Says(fields[p], SaidByFields(fields[p], n))
        BY <1>0, <1>2, <2>2, <4>2
      <4> QED BY <4>1, <4>3, <4>4 DEF Says
    <3> QED BY <3>1, <3>2
  <2>3. \A p \in DOMAIN fields : p < next' /\ fields[p] \in Wanted'
          => Says(fields[p], SaidByFields(fields[p], next))'
    BY <1>0, <1>1, <2>1, <2>2 DEF Says, SaidByFields
  <2> QED BY <1>0, <1>1, <2>1, <2>3 DEF RequestInv
<1>4. CASE n \notin DOMAIN fields
  <2>1. next' = 1 /\ at' = "extras" /\ json' = json
    BY <1>0, <1>1, <1>4 DEF WriteField
  <2>2. ASSUME NEW field \in Wanted
        PROVE  Says(field, SaidByExtras(field, 1))'
    <3>1. PICK p \in DOMAIN fields : field = fields[p]
      BY <1>0, <1>1, <1>f DEF Wanted, Optional
    <3>2. p < n
      BY <1>0, <1>1, <1>f, <1>4
    <3>3. Says(field, SaidByFields(field, n))
      BY <1>0, <1>2, <3>1, <3>2
    <3>4. SaidByFields(field, n) = SaidByFields(field, 7)
      BY <1>0, <1>1, <1>f, <1>4, <3>1 DEF SaidByFields
    <3>5. SaidByExtras(field, 1)' = SaidByFields(field, 7)
      BY <1>0, <1>1 DEF SaidByExtras, SaidByFields, ConvertTypeOK, RequestTypeOK
    <3> QED BY <2>1, <3>3, <3>4, <3>5 DEF Says
  <2>3. \A field \in Wanted' : Says(field, SaidByExtras(field, next))'
    BY <1>0, <1>1, <2>1, <2>2 DEF Says, SaidByExtras
  <2> QED BY <1>0, <1>1, <2>1, <2>3 DEF RequestInv
<1> QED
  BY <1>0, <1>3, <1>4

LEMMA WriteExtraStep ==
  ASSUME ConvertTypeOK, RequestInv, WriteExtra
  PROVE  RequestInv'
<1>0. PICK extra, n, attribute :
        extra = request.extra /\ n = next /\ attribute = extra[n]
  OBVIOUS
<1>1. /\ request.kind \in Kinds /\ request.kind # "root" /\ request' = request /\ at = "extras"
      /\ n >= 1 /\ n \in Nat /\ json \in Seq(FieldMember) /\ extra \in Seq(Attribute)
      /\ request.given \subseteq Optional(request.kind) /\ Wanted' = Wanted
  BY <1>0, FieldsAreTexts DEF WriteExtra, RequestInv, ConvertTypeOK, RequestTypeOK, Wanted
<1>2. ASSUME NEW field \in Wanted
      PROVE  Says(field, SaidByExtras(field, n))
  BY <1>0, <1>1, <1>2 DEF RequestInv
<1>3. CASE n \in DOMAIN extra
  <2>1. /\ next' = n + 1 /\ at' = "extras"
        /\ json' = IF attribute.value THEN Append(json, Member(attribute.key, "extra")) ELSE json
    BY <1>0, <1>1, <1>3 DEF WriteExtra, Adparameters2CJSONObject
  <2>2. ASSUME NEW field \in Wanted
        PROVE  Says(field, SaidByExtras(field, n + 1))'
    <3>1. CASE attribute.value /\ attribute.key = field
      <4>1. SaidByExtras(field, n + 1)' = "extra"
        BY <1>0, <1>1, <1>3, <3>1 DEF SaidByExtras
      <4>2. Says(field, "extra")'
        BY <1>1, <2>1, <3>1, SaysNew
      <4> QED BY <4>1, <4>2 DEF Says
    <3>2. CASE ~(attribute.value /\ attribute.key = field)
      <4>1. \A i \in DOMAIN extra :
              i < n + 1 /\ extra[i].key = field /\ extra[i].value
              <=> i < n /\ extra[i].key = field /\ extra[i].value
        BY <1>0, <1>1, <3>2
      <4>2. SaidByExtras(field, n + 1)' = SaidByExtras(field, n)
        BY <1>0, <1>1, <4>1 DEF SaidByExtras, SaidByFields
      <4>3. PICK value : value = SaidByExtras(field, n)
        OBVIOUS
      <4>4. Says(field, value)
        BY <1>2, <4>3
      <4>5. Says(field, value)'
        BY <1>1, <2>1, <3>2, <4>4, SaysStill, SaysSame
      <4> QED BY <4>2, <4>3, <4>5 DEF Says
    <3> QED BY <3>1, <3>2
  <2>3. \A field \in Wanted' : Says(field, SaidByExtras(field, next))'
    BY <1>1, <2>1, <2>2 DEF Says, SaidByExtras
  <2> QED BY <1>1, <2>1, <2>3 DEF RequestInv
<1>4. CASE n \notin DOMAIN extra
  <2>1. next' = next /\ at' = "written" /\ json' = json /\ request' = request
    BY <1>0, <1>1, <1>4 DEF WriteExtra
  <2>2. \A field \in Wanted' : Says(field, SaidByExtras(field, next))'
    BY <1>0, <1>1, <1>2, <2>1 DEF Says, SaidByExtras, SaidByFields
  <2> QED BY <1>0, <1>1, <1>4, <2>1, <2>2 DEF RequestInv
<1> QED
  BY <1>3, <1>4

(* Reading an answer leaves the request alone.                             *)
ReadsAnswer ==
  \/ ReadAds \/ ReadSlots
  \/ InitHashStrArrHeaders \/ ParseName \/ AllocValue
  \/ AllocHead \/ EndArray
  \/ JsonStr2CAdvertisement \/ ParseRewardVerifyConfig
  \/ EndHeaders \/ ParseKey \/ ParseValue
  \/ CleanupCAdvertisementOnFailure \/ CleanupArray \/ CleanupPair \/ CleanupSlots
  \/ TellAndFree

LEMMA ReadingApart ==
  ASSUME ReadsAnswer
  PROVE  at' \notin {"fields", "extras", "written"} /\ writing' = writing
<1>1. ASSUME NEW block, NEW done, NEW failed, Malloc(block, done, failed)
      PROVE  at' \in {done, failed}
  BY <1>1 DEF Malloc
<1>2. ASSUME NEW block, NEW text, NEW done, NEW failed, MallocCString(block, text, done, failed)
      PROVE  at' \in {done, failed}
  BY <1>1, <1>2 DEF MallocCString
<1> DEFINE Apart == at' \notin {"fields", "extras", "written"} /\ writing' = writing
<1>3. ASSUME ReadAds \/ ReadSlots PROVE Apart
  BY <1>3 DEF ReadAds, ReadSlots
<1>4. ASSUME InitHashStrArrHeaders PROVE Apart
  BY <1>1, <1>4 DEF InitHashStrArrHeaders
<1>5. ASSUME ParseName PROVE Apart
  BY <1>2, <1>5 DEF ParseName
<1>6. ASSUME AllocValue PROVE Apart
  BY <1>1, <1>6 DEF AllocValue
<1>7. ASSUME AllocHead PROVE Apart
  BY <1>1, <1>7 DEF AllocHead, ArrayRefused
<1>8. ASSUME EndArray \/ EndHeaders PROVE Apart
  BY <1>8 DEF EndArray, EndHeaders
<1>9. ASSUME JsonStr2CAdvertisement PROVE Apart
  BY <1>2, <1>9 DEF JsonStr2CAdvertisement
<1>10. ASSUME ParseRewardVerifyConfig PROVE Apart
  BY <1>10 DEF ParseRewardVerifyConfig
<1>11. ASSUME ParseKey PROVE Apart
  BY <1>2, <1>11 DEF ParseKey
<1>12. ASSUME ParseValue PROVE Apart
  BY <1>2, <1>12 DEF ParseValue
<1>13. ASSUME CleanupCAdvertisementOnFailure \/ CleanupArray \/ CleanupPair \/ CleanupSlots
       PROVE  Apart
  BY <1>13 DEF CleanupCAdvertisementOnFailure, CleanupArray, CleanupPair, CleanupSlots,
               ArrayRefused
<1>14. ASSUME TellAndFree PROVE Apart
  BY <1>14 DEF TellAndFree
<1> QED
  BY <1>3, <1>4, <1>5, <1>6, <1>7, <1>8, <1>9, <1>10, <1>11, <1>12, <1>13, <1>14 DEF ReadsAnswer

LEMMA RequestStep ==
  ASSUME ConvertTypeOK, RequestInv, [ConvertNext]_convertVars
  PROVE  RequestInv'
<1> USE DEF RequestInv
<1>1. ASSUME NEW kind \in Kinds, WriteObject(kind) PROVE RequestInv'
  <2>1. PICK given \in SUBSET Optional(kind), extra \in Extras :
          request' = [kind |-> kind, given |-> given, extra |-> extra, slots |-> 0]
    BY <1>1 DEF WriteObject
  <2>2. request'.kind = kind /\ request'.given = given /\ at' = "fields" /\ next' = 1
    BY <1>1, <2>1 DEF WriteObject
  <2>3. ~ \E p \in DOMAIN FieldsOf(kind) : p < 1
    BY DEF FieldsOf
  <2> QED BY <2>2, <2>3
<1>2. ASSUME WriteSlots PROVE RequestInv'
  <2>1. PICK n \in 1 .. MaxSlots : /\ request' = [NoRequest EXCEPT !.slots = n]
                                   /\ json' = ConvertCAdRequestParamsArr2CJSON(n)
    BY <1>2 DEF WriteSlots
  <2>2. request'.kind = "root" /\ request'.slots = n /\ n >= 1 /\ at' = "written"
    BY <1>2, <2>1 DEF NoRequest, WriteSlots
  <2>3. "root" \notin Kinds
    BY DEF Kinds
  <2> QED BY <2>1, <2>2, <2>3 DEF ConvertCAdRequestParamsArr2CJSON
<1>3. ASSUME ReadsAnswer PROVE RequestInv'
  BY <1>3, ReadingApart DEF writing
<1>4. ASSUME Done PROVE RequestInv'
  <2>1. request'.kind \notin Kinds /\ at' = "idle"
    BY <1>4 DEF Done, NoRequest, Kinds
  <2> QED BY <2>1
<1>5. ASSUME UNCHANGED convertVars PROVE RequestInv'
  BY <1>5 DEF convertVars, writing, Says, SaidByFields, SaidByExtras, Wanted
<1> QED
  BY <1>1, <1>2, <1>3, <1>4, <1>5, WriteFieldStep, WriteExtraStep DEF ConvertNext, ReadsAnswer

LEMMA SaysParsed ==
  ASSUME NEW S, json \in Seq(S), NEW key, NEW value, Says(key, value)
  PROVE  key \in DOMAIN JsonParse(json) /\ JsonParse(json)[key] = value
<1> DEFINE Last(i) == /\ i \in DOMAIN json /\ json[i].key = key
                      /\ \A j \in DOMAIN json : json[j].key = key => j <= i
<1>1. PICK i \in DOMAIN json :
        json[i] = Member(key, value) /\ \A j \in DOMAIN json : json[j].key = key => j <= i
  BY DEF Says
<1>2. Last(i) /\ json[i].value = value
  BY <1>1 DEF Member
<1>3. \A j : Last(j) => j = i
  BY <1>2
<1>4. (CHOOSE j \in DOMAIN json : json[j].key = key
         /\ \A l \in DOMAIN json : json[l].key = key => l <= j) = i
  BY <1>2, <1>3
<1> QED
  BY <1>2, <1>4 DEF JsonParse

LEMMA RequestArrivesFollows ==
  ASSUME ConvertTypeOK, RequestInv
  PROVE  RequestArrives
<1> SUFFICES ASSUME at = "written"
             PROVE  IF request.kind = "root"
                    THEN JsonParse(json) = [key \in {Unnamed} |-> request.slots]
                    ELSE \A field \in Wanted : FieldArrives(field)
  BY DEF RequestArrives, Wanted
<1>1. CASE request.kind = "root"
  <2>1. PICK n \in Nat : n = request.slots /\ n >= 1 /\ json = [i \in 1 .. n |-> Member(Unnamed, i)]
    BY <1>1 DEF RequestInv, ConvertCAdRequestParamsArr2CJSON, ConvertTypeOK, RequestTypeOK
  <2>2. DOMAIN json = 1 .. n /\ \A i \in 1 .. n : json[i].key = Unnamed
    BY <2>1 DEF Member
  <2>3. Says(Unnamed, n)
    BY <2>1, <2>2 DEF Says
  <2>4. JsonParse(json)[Unnamed] = n
    BY <1>1, <2>3, SaysParsed DEF ConvertTypeOK, RequestTypeOK
  <2>5. {json[i].key : i \in DOMAIN json} = {Unnamed}
    BY <2>1, <2>2
  <2>6. DOMAIN JsonParse(json) = {Unnamed}
    BY <2>5 DEF JsonParse
  <2>7. JsonParse(json) = [key \in DOMAIN JsonParse(json) |-> JsonParse(json)[key]]
    BY DEF JsonParse
  <2> QED BY <1>1, <2>1, <2>4, <2>6, <2>7
<1>2. ASSUME request.kind # "root", NEW field \in Wanted PROVE FieldArrives(field)
  <2>1. request.kind \in Kinds /\ json \in Seq(FieldMember) /\ request.extra \in Seq(Attribute)
    BY <1>2 DEF ConvertTypeOK, RequestTypeOK
  <2>2. Says(field, SaidByExtras(field, next))
    BY <2>1, <1>2 DEF RequestInv
  <2>3. \A i \in DOMAIN request.extra : i < next
    BY <2>1 DEF RequestInv, ConvertTypeOK, RequestTypeOK
  <2>4. field \in DOMAIN JsonParse(json) /\ JsonParse(json)[field] = SaidByExtras(field, next)
    BY <2>1, <2>2, SaysParsed
  <2> QED BY <2>3, <2>4 DEF FieldArrives, SaidByExtras, SaidByFields, Overwritten
<1> QED
  BY <1>1, <1>2

-----------------------------------------------------------------------------
(* Answers.                                                                *)

(* What the position stands for.                                           *)
LEMMA AnswerAt ==
  ASSUME ConvertTypeOK, slot \in DOMAIN answer
  PROVE  /\ answer[slot] \in Slot /\ Ads \in Seq(Ad)
         /\ Several => slot >= 1 /\ DOMAIN answer = 1 .. Len(answer) /\ Len(answer) \in Nat
         /\ ~Several => slot = 0 /\ DOMAIN answer = {0}
<1>1. CASE Several
  <2>1. answer \in Seq(Slot)
    BY <1>1 DEF ConvertTypeOK, AnswerTypeOK
  <2>2. answer[slot] \in Slot /\ slot >= 1 /\ DOMAIN answer = 1 .. Len(answer) /\ Len(answer) \in Nat
    BY <2>1
  <2> QED BY <1>1, <2>2 DEF Slot, Ads
<1>2. CASE ~Several
  BY <1>2 DEF ConvertTypeOK, AnswerTypeOK, Slot, Ads
<1> QED
  BY <1>1, <1>2

LEMMA AdAt ==
  ASSUME ConvertTypeOK, slot \in DOMAIN answer, ad \in DOMAIN Ads
  PROVE  Ads[ad] \in Ad /\ Headers \in Seq(Header) /\ ad \in Nat \ {0}
<1>1. Ads \in Seq(Ad)
  BY AnswerAt
<1>2. Ads[ad] \in Ad /\ ad \in Nat \ {0}
  BY <1>1
<1> QED
  BY <1>2 DEF Ad, Headers

(* The blocks so far are those of other ads, of other headers, ...         *)
LEMMA FreshPair ==
  ASSUME ConvertTypeOK, slot \in DOMAIN answer, NEW b \in PairSoFar
  PROVE  b.slot = slot => b.ad = 0 /\ b.field \in {"name", "value"} /\ b.header = 0
<1>1. CASE ~Several
  BY <1>1 DEF PairSoFar, SlotsSoFar
<1>2. CASE Several
  <2>1. slot \in Nat /\ slot # 0
    BY <1>2, AnswerAt DEF ConvertTypeOK, AnswerTypeOK
  <2>2. CASE b \in SlotsSoFar
    BY <2>1, <2>2, WhereSlots
  <2>3. CASE b \in {Block(slot, 0, 0, "name"), Block(slot, 0, 0, "value")}
    BY <2>3 DEF Block
  <2> QED BY <1>2, <2>2, <2>3 DEF PairSoFar
<1> QED
  BY <1>1, <1>2

LEMMA FreshAd ==
  ASSUME ConvertTypeOK, slot \in DOMAIN answer, ad # 0, NEW b \in AdsSoFar
  PROVE  ~(b.slot = slot /\ b.ad = ad)
<1>1. ad \in Nat
  BY DEF ConvertTypeOK, AnswerTypeOK
<1>2. CASE b \in PairSoFar
  BY <1>2, FreshPair
<1>3. CASE b \in WholeArr(slot, 1 .. ad - 1)
  BY <1>1, <1>3, WhereArr
<1> QED
  BY <1>2, <1>3 DEF AdsSoFar

LEMMA FreshHeader ==
  ASSUME ConvertTypeOK, slot \in DOMAIN answer, ad # 0, header # 0, NEW f,
         Block(slot, ad, header, f) \in HeadersSoFar
  PROVE  FALSE
<1>1. header \in Nat
  BY DEF ConvertTypeOK, AnswerTypeOK
<1>2. CASE Block(slot, ad, header, f) \in AdsSoFar
  BY <1>2, FreshAd DEF Block
<1>3. CASE Block(slot, ad, header, f) \in {Block(slot, ad, 0, "uniqueId"), Block(slot, ad, 0, "headers")}
  BY <1>3, BlocksApart
<1>4. CASE Block(slot, ad, header, f) \in WholeHeaders(slot, ad, 1 .. header - 1)
  <2>1. Block(slot, ad, header, f).header \in 1 .. header - 1
    BY <1>4, WhereHeaders
  <2> QED BY <1>1, <2>1 DEF Block
<1> QED
  BY <1>2, <1>3, <1>4 DEF HeadersSoFar

(* ... and a whole header, ad or slot adds what the next has before it.    *)
LEMMA WholeHere ==
  ASSUME ConvertTypeOK, slot \in DOMAIN answer, ad \in DOMAIN Ads
  PROVE  /\ Headers = <<>> => WholeAd(slot, ad) = {Block(slot, ad, 0, "uniqueId")}
         /\ header = Len(Headers) + 1 /\ Headers # <<>>
            => HeadersSoFar = AdsSoFar \cup WholeAd(slot, ad)
<1>1. Headers = answer[slot].ads[ad].headers
  BY DEF Headers, Ads
<1>2. DOMAIN Headers = 1 .. Len(Headers) /\ Len(Headers) \in Nat
  BY AdAt
<1>3. ASSUME header = Len(Headers) + 1, Headers # <<>>
      PROVE  HeadersSoFar = AdsSoFar \cup WholeAd(slot, ad)
  <2>1. 1 .. header - 1 = DOMAIN Headers
    BY <1>2, <1>3
  <2>2. WholeAd(slot, ad) = {Block(slot, ad, 0, "uniqueId")} \cup
          ({Block(slot, ad, 0, "headers")} \cup WholeHeaders(slot, ad, 1 .. header - 1))
    BY <1>1, <1>3, <2>1 DEF WholeAd
  <2> QED BY <2>2 DEF HeadersSoFar
<1>4. ASSUME Headers = <<>> PROVE WholeAd(slot, ad) = {Block(slot, ad, 0, "uniqueId")}
  BY <1>1, <1>4 DEF WholeAd
<1> QED
  BY <1>3, <1>4

LEMMA AdEnds ==
  ASSUME ConvertTypeOK, slot \in DOMAIN answer, ad \in DOMAIN Ads,
         answer' = answer, slot' = slot, ad' = ad + 1
  PROVE  AdsSoFar' = AdsSoFar \cup WholeAd(slot, ad)
<1>1. ad \in Nat \ {0} /\ ad' - 1 = ad
  BY AdAt
<1>2. AdsSoFar' = PairSoFar \cup WholeArr(slot, 1 .. ad)
  BY <1>1, SameAnswer, SameSlot DEF AdsSoFar
<1> QED
  BY <1>1, <1>2, NextAd DEF AdsSoFar

LEMMA ArrayEnds ==
  ASSUME ConvertTypeOK, slot \in DOMAIN answer, ad = Len(Ads) + 1
  PROVE  AdsSoFar = PairSoFar \cup WholeArr(slot, DOMAIN answer[slot].ads)
<1>1. 1 .. ad - 1 = DOMAIN Ads
  BY AnswerAt
<1> QED
  BY <1>1 DEF AdsSoFar, Ads

LEMMA SlotEnds ==
  ASSUME ConvertTypeOK, slot \in DOMAIN answer, Several, ad = Len(Ads) + 1,
         answer' = answer, slot' = slot + 1
  PROVE  SlotsSoFar' = AdsSoFar
<1>1. slot \in Nat \ {0} /\ slot' - 1 = slot
  BY AnswerAt DEF ConvertTypeOK, AnswerTypeOK
<1>2. \A N : WholePairs(N)' = WholePairs(N)
  BY SameAnswer DEF WholePairs
<1>3. SlotsSoFar' = {Block(0, 0, 0, "slots")} \cup WholePairs(1 .. slot)
  BY <1>1, <1>2, SameAnswer DEF SlotsSoFar
<1>4. AdsSoFar = SlotsSoFar \cup WholePair(slot)
  BY ArrayEnds DEF PairSoFar, WholePair
<1> QED
  BY <1>1, <1>3, <1>4, NextSlot DEF SlotsSoFar

LEMMA AnswerEnds ==
  ASSUME ConvertTypeOK
  PROVE  /\ Several /\ slot = Len(answer) + 1 => SlotsSoFar = Complete
         /\ ~Several /\ slot \in DOMAIN answer /\ ad = Len(Ads) + 1 => AdsSoFar = Complete
<1>1. ASSUME Several, slot = Len(answer) + 1 PROVE SlotsSoFar = Complete
  <2>1. 1 .. slot - 1 = DOMAIN answer
    BY <1>1 DEF ConvertTypeOK, AnswerTypeOK
  <2> QED BY <1>1, <2>1 DEF SlotsSoFar, WholePairs, Complete
<1>2. ASSUME ~Several, slot \in DOMAIN answer, ad = Len(Ads) + 1 PROVE AdsSoFar = Complete
  <2>1. slot = 0 /\ PairSoFar = {}
    BY <1>2, AnswerAt DEF PairSoFar, SlotsSoFar
  <2> QED BY <1>2, <2>1, ArrayEnds DEF Complete
<1> QED
  BY <1>1, <1>2

(* Each cleanup takes away what its level added, and no more.              *)
LEMMA AdFreed ==
  ASSUME ConvertTypeOK, slot \in DOMAIN answer, ad \in DOMAIN Ads, header \in DOMAIN Headers,
         HeadersSoFar \subseteq live, live \subseteq HeadersSoFar \cup HeaderHere
  PROVE  live \ AdBlocks(slot, ad) = AdsSoFar
<1>1. \A b \in AdsSoFar : b \notin AdBlocks(slot, ad)
  BY AdAt, FreshAd, WhereFound
<1>2. Headers = answer[slot].ads[ad].headers /\ Headers \in Seq(Header) /\ header \in Nat
  BY AdAt DEF Headers, Ads, ConvertTypeOK, AnswerTypeOK
<1>3. 1 .. header - 1 \subseteq DOMAIN Headers
  BY <1>2
<1>4. WholeHeaders(slot, ad, 1 .. header - 1) \subseteq AdBlocks(slot, ad)
  BY <1>2, <1>3 DEF WholeHeaders, AdBlocks
<1>5. HeaderHere \subseteq AdBlocks(slot, ad)
  BY <1>2 DEF HeaderHere, WholeHeaders, AdBlocks
<1>6. {Block(slot, ad, 0, "uniqueId"), Block(slot, ad, 0, "headers")} \subseteq AdBlocks(slot, ad)
  BY DEF AdBlocks
<1> QED
  BY <1>1, <1>4, <1>5, <1>6 DEF HeadersSoFar

LEMMA ArrayFreed ==
  ASSUME ConvertTypeOK, slot \in DOMAIN answer, ad \in DOMAIN Ads
  PROVE  (AdsSoFar \ UNION {AdBlocks(slot, i) : i \in 1 .. ad - 1}) \ {Block(slot, 0, 0, "head")}
           = PairSoFar
<1>1. ad \in Nat \ {0}
  BY AdAt
<1>2. \A b \in PairSoFar : b # Block(slot, 0, 0, "head")
  BY FreshPair DEF Block
<1>3. \A b \in PairSoFar, i \in 1 .. ad - 1 : b \notin AdBlocks(slot, i)
  BY <1>1, FreshPair, WhereFound
<1>4. \A i \in 1 .. ad - 1 : WholeAd(slot, i) \subseteq AdBlocks(slot, i)
  BY FoundAd
<1> QED
  BY <1>2, <1>3, <1>4 DEF AdsSoFar, WholeArr

LEMMA PairFreed ==
  ASSUME ConvertTypeOK, slot \in DOMAIN answer, Several,
         SlotsSoFar \subseteq live, live \subseteq PairSoFar
  PROVE  live \ PairBlocks(slot) = SlotsSoFar
<1>1. slot \in Nat /\ slot # 0
  BY AnswerAt DEF ConvertTypeOK, AnswerTypeOK
<1>2. \A b \in SlotsSoFar : b \notin PairBlocks(slot)
  BY <1>1, WhereSlots, WhereFoundPair
<1>3. {Block(slot, 0, 0, "name"), Block(slot, 0, 0, "value")} \subseteq PairBlocks(slot)
  BY DEF PairBlocks
<1> QED
  BY <1>2, <1>3 DEF PairSoFar

LEMMA SlotsFreed ==
  ASSUME ConvertTypeOK, Several, slot \in 1 .. Len(answer) + 1
  PROVE  SlotsSoFar \subseteq SlotBlocks
<1>1. 1 .. slot - 1 \subseteq DOMAIN answer
  BY DEF ConvertTypeOK, AnswerTypeOK
<1>2. \A n : WholePair(n) \subseteq PairBlocks(n)
  BY FoundPair
<1> QED
  BY <1>1, <1>2 DEF SlotsSoFar, WholePairs, SlotBlocks

(* One step of a conversion.                                               *)
LEMMA StartStep ==
  ASSUME ConvertTypeOK, AnswerInv, ReadAds \/ ReadSlots
  PROVE  AnswerInv'
<1> USE DEF AnswerInv, Outside, InPair, InArray, InAd, Refused
<1>1. at = "idle" /\ live = {} /\ ~short /\ live' = live /\ short' = short
  BY DEF ReadAds, ReadSlots, LiveOK, VerdictOK
<1>2. ASSUME ReadAds PROVE AnswerInv'
  <2>1. at' = "array" /\ slot' = 0
    BY <1>1, <1>2 DEF ReadAds, PositionOK, position
  <2>2. DOMAIN answer' = {0} /\ ~Several'
    BY <1>2 DEF ReadAds, Several
  <2>3. PairSoFar' = {}
    BY <2>2 DEF PairSoFar, SlotsSoFar
  <2>4. LiveOK'
    BY <1>1, <2>1, <2>3 DEF LiveOK
  <2>5. PositionOK'
    BY <2>1, <2>2 DEF PositionOK
  <2>6. WellSoFar' /\ VerdictOK'
    BY <1>1, <2>1, <2>2 DEF WellSoFar, VerdictOK
  <2> QED BY <2>4, <2>5, <2>6
<1>3. ASSUME ReadSlots PROVE AnswerInv'
  <2>1. at' = "slots"
    BY <1>3 DEF ReadSlots
  <2>2. Several'
    BY <1>3, CjDataAssumption DEF ReadSlots, Several
  <2> QED BY <1>1, <2>1, <2>2 DEF LiveOK, PositionOK, WellSoFar, VerdictOK
<1> QED
  BY <1>2, <1>3

LEMMA SlotsStep ==
  ASSUME ConvertTypeOK, AnswerInv, InitHashStrArrHeaders
  PROVE  AnswerInv'
<1> USE DEF AnswerInv, Outside, InPair, InArray, InAd, Refused
<1>1. at = "slots" /\ live = {} /\ ~short /\ slot' = 1 /\ answer' = answer /\ Several
  BY DEF InitHashStrArrHeaders, LiveOK, PositionOK, VerdictOK
<1>2. Several' /\ answer \in Seq(Slot)
  BY <1>1, SameAnswer DEF ConvertTypeOK, AnswerTypeOK
<1>3. CASE at' = "failed"
  <2>1. live' = {} /\ (short' \/ answer = <<>>)
    BY <1>1, <1>3 DEF InitHashStrArrHeaders, Malloc
  <2>2. answer = <<>> => ~WellFormed
    BY <1>1 DEF WellFormed
  <2>3. ~WellFormed' \/ short'
    BY <1>1, <2>1, <2>2, SameAnswer
  <2> QED BY <1>3, <2>1, <2>3 DEF LiveOK, PositionOK, WellSoFar, VerdictOK
<1>4. CASE at' = "pair"
  <2>1. live' = {Block(0, 0, 0, "slots")} /\ ~short' /\ answer # <<>>
    BY <1>1, <1>4 DEF InitHashStrArrHeaders, Malloc
  <2>2. 1 .. slot' - 1 = {}
    BY <1>1
  <2>3. SlotsSoFar' = {Block(0, 0, 0, "slots")}
    BY <1>2, <2>2 DEF SlotsSoFar, WholePairs
  <2>4. LiveOK'
    BY <1>4, <2>1, <2>3 DEF LiveOK
  <2>5. PositionOK'
    BY <1>1, <1>2, <1>4, <2>1 DEF PositionOK
  <2>6. WellSoFar' /\ VerdictOK'
    BY <1>4, <2>1, <2>2 DEF WellSoFar, VerdictOK
  <2> QED BY <2>4, <2>5, <2>6
<1> QED
  BY <1>1, <1>3, <1>4 DEF InitHashStrArrHeaders, Malloc

LEMMA NameStep ==
  ASSUME ConvertTypeOK, AnswerInv, ParseName
  PROVE  AnswerInv'
<1> USE DEF AnswerInv, Outside, InPair, InArray, InAd, Refused
<1>1. /\ at = "pair" /\ live = SlotsSoFar /\ ~short /\ slot \in 1 .. Len(answer) + 1 /\ Several
      /\ \A n \in 1 .. slot - 1 : WellSlot(answer[n])
  BY DEF ParseName, LiveOK, PositionOK, WellSoFar, VerdictOK
<1>2. answer \in Seq(Slot) /\ answer' = answer /\ position' = position /\ slot' = slot /\ Several'
  BY <1>1, SameAnswer DEF ParseName, position, ConvertTypeOK, AnswerTypeOK
<1>3. SlotsSoFar' = SlotsSoFar /\ WellFormed' = WellFormed /\ Complete' = Complete
  BY <1>2, SameHeader, SameAnswer
<1>4. CASE slot > Len(answer)
  <2>1. at' = "read" /\ live' = live /\ ~short' /\ slot = Len(answer) + 1
    BY <1>1, <1>2, <1>4 DEF ParseName
  <2>2. WellFormed /\ live' = Complete'
    <3>1. 1 .. slot - 1 = DOMAIN answer /\ (answer = <<>> => slot = 1)
      BY <1>2, <2>1
    <3>2. answer # <<>>
      BY <1>1, <2>1 DEF PositionOK
    <3> QED BY <1>1, <1>3, <2>1, <3>1, <3>2, AnswerEnds DEF WellFormed
  <2> QED BY <1>3, <2>1, <2>2 DEF LiveOK, PositionOK, WellSoFar, VerdictOK
<1>5. CASE slot <= Len(answer)
  <2>1. slot \in DOMAIN answer
    BY <1>1, <1>2, <1>5
  <2>2. CASE at' = "slotsFailed"
    <3>1. live' = live /\ (short' \/ answer[slot].name # "text")
      BY <1>1, <1>5, <2>2 DEF ParseName, MallocCString, Malloc
    <3>2. answer[slot].name # "text" => ~WellFormed
      BY <1>1, <2>1 DEF WellFormed, WellSlot
    <3>3. ~WellFormed' \/ short'
      BY <1>3, <3>1, <3>2
    <3> QED BY <1>1, <1>2, <1>3, <2>2, <3>1, <3>3 DEF LiveOK, PositionOK, WellSoFar, VerdictOK
  <2>3. CASE at' = "value"
    <3>1. /\ live' = live \cup {Block(slot, 0, 0, "name")} /\ ~short'
          /\ answer[slot].name \notin {"none", "empty"}
      BY <1>1, <1>5, <2>3 DEF ParseName, MallocCString, Malloc
    <3>2. answer[slot].name = "text"
      BY <2>1, <3>1, AnswerAt DEF Slot, Text
    <3>3. LiveOK'
      BY <1>1, <1>2, <1>3, <2>3, <3>1 DEF LiveOK
    <3>4. PositionOK'
      BY <1>2, <2>1, <2>3 DEF PositionOK
    <3>5. WellSoFar' /\ VerdictOK'
      BY <1>1, <1>2, <2>3, <3>1, <3>2 DEF WellSoFar, VerdictOK
    <3> QED BY <3>3, <3>4, <3>5
  <2>4. at' \in {"slotsFailed", "value"}
    BY <1>5, <1>2, <1>1 DEF ParseName, MallocCString, Malloc
  <2> QED BY <2>2, <2>3, <2>4
<1> QED
  BY <1>1, <1>2, <1>4, <1>5

LEMMA ValueStep ==
  ASSUME ConvertTypeOK, AnswerInv, AllocValue
  PROVE  AnswerInv'
<1> USE DEF AnswerInv, Outside, InPair, InArray, InAd, Refused
<1>1. /\ at = "value" /\ live = SlotsSoFar \cup {Block(slot, 0, 0, "name")} /\ ~short
      /\ slot \in DOMAIN answer /\ Several /\ answer[slot].name = "text"
      /\ \A n \in 1 .. slot - 1 : WellSlot(answer[n])
  BY DEF AllocValue, LiveOK, PositionOK, WellSoFar, VerdictOK
<1>2. answer' = answer /\ position' = position /\ slot' = slot /\ Several'
  BY <1>1, SameAnswer DEF AllocValue, position
<1>3. SlotsSoFar' = SlotsSoFar /\ PairSoFar' = PairSoFar /\ WellFormed' = WellFormed
  BY <1>2, SameHeader, SameAnswer
<1>4. PairSoFar = SlotsSoFar \cup {Block(slot, 0, 0, "name"), Block(slot, 0, 0, "value")}
  BY <1>1 DEF PairSoFar
<1>5. CASE at' = "array"
  <2>1. answer[slot].object /\ ~short' /\ live' = live \cup {Block(slot, 0, 0, "value")}
    BY <1>1, <1>5, AnswerAt DEF AllocValue, Malloc, Slot
  <2>2. LiveOK'
    BY <1>1, <1>3, <1>4, <1>5, <2>1 DEF LiveOK
  <2>3. PositionOK'
    BY <1>1, <1>2, <1>5 DEF PositionOK
  <2>4. WellSoFar' /\ VerdictOK'
    BY <1>1, <1>2, <1>5, <2>1 DEF WellSoFar, VerdictOK
  <2> QED BY <2>2, <2>3, <2>4
<1>6. CASE at' = "pairFailed"
  <2>1. short' \/ ~answer[slot].object
    BY <1>1, <1>6 DEF AllocValue, Malloc
  <2>2. ~answer[slot].object => ~WellFormed
    BY <1>1 DEF WellFormed, WellSlot
  <2>3. live' \subseteq live \cup {Block(slot, 0, 0, "value")} /\ live \subseteq live'
    BY <1>1, <1>6 DEF AllocValue, Malloc
  <2>4. LiveOK'
    BY <1>1, <1>3, <1>4, <1>6, <2>3 DEF LiveOK
  <2>5. ~WellFormed' \/ short'
    BY <1>3, <2>1, <2>2
  <2> QED BY <1>1, <1>2, <1>6, <2>4, <2>5 DEF PositionOK, WellSoFar, VerdictOK
<1> QED
  BY <1>1, <1>5, <1>6 DEF AllocValue, Malloc

LEMMA HeadStep ==
  ASSUME ConvertTypeOK, AnswerInv, AllocHead
  PROVE  AnswerInv'
<1> USE DEF AnswerInv, Outside, InPair, InArray, InAd, Refused
<1>1. /\ at = "array" /\ live = PairSoFar /\ ~short /\ slot \in DOMAIN answer
      /\ Several => /\ answer[slot].name = "text" /\ answer[slot].object
                    /\ \A n \in 1 .. slot - 1 : WellSlot(answer[n])
  BY DEF AllocHead, LiveOK, PositionOK, WellSoFar, VerdictOK
<1>2. answer' = answer /\ slot' = slot /\ ad' = 1 /\ Several' = Several /\ Ads' = Ads
  BY SameAnswer, SameSlot DEF AllocHead
<1>3. PairSoFar' = PairSoFar /\ SlotsSoFar' = SlotsSoFar /\ WellFormed' = WellFormed
  BY <1>2, SameSlot, SameAnswer
<1>4. Ads \in Seq(Ad) /\ (~Several => slot = 0)
  BY <1>1, AnswerAt
<1>5. CASE at' = ArrayRefused
  <2>1. live' = live /\ (short' \/ Ads = <<>>)
    BY <1>1, <1>5 DEF AllocHead, Malloc, ArrayRefused
  <2>2. Ads = <<>> => ~WellFormed
    BY <1>1, <1>4 DEF WellFormed, WellSlot, WellAds, Ads
  <2>3. ~WellFormed' \/ short'
    BY <1>3, <2>1, <2>2
  <2>4. CASE Several
    <3>1. at' = "pairFailed"
      BY <1>5, <2>4 DEF ArrayRefused
    <3>2. LiveOK'
      BY <1>1, <1>3, <2>1, <3>1 DEF LiveOK, PairSoFar
    <3> QED BY <1>1, <1>2, <2>3, <2>4, <3>1, <3>2 DEF PositionOK, WellSoFar, VerdictOK
  <2>5. CASE ~Several
    <3>1. at' = "failed" /\ live' = {}
      BY <1>1, <1>5, <2>1, <2>5 DEF ArrayRefused, PairSoFar, SlotsSoFar
    <3> QED BY <2>3, <3>1 DEF LiveOK, PositionOK, WellSoFar, VerdictOK
  <2> QED BY <2>4, <2>5
<1>6. CASE at' = "ad"
  <2>1. Ads # <<>> /\ ~short' /\ live' = live \cup {Block(slot, 0, 0, "head")}
    BY <1>1, <1>6 DEF AllocHead, Malloc, ArrayRefused
  <2>2. 1 .. ad' - 1 = {}
    BY <1>2
  <2>3. WholeArr(slot, {}) = {Block(slot, 0, 0, "head")}
    BY DEF WholeArr
  <2>4. AdsSoFar' = PairSoFar \cup {Block(slot, 0, 0, "head")}
    <3>1. WholeArr(slot, 1 .. ad - 1)' = WholeArr(slot, {})
      BY <1>2, <2>2, SameAnswer DEF WholeArr
    <3> QED BY <1>3, <2>3, <3>1 DEF AdsSoFar
  <2>5. LiveOK'
    BY <1>1, <1>6, <2>1, <2>4 DEF LiveOK
  <2>6. PositionOK'
    BY <1>1, <1>2, <1>4, <1>6 DEF PositionOK
  <2>7. WellSoFar' /\ VerdictOK'
    BY <1>1, <1>2, <1>6, <2>1, <2>2 DEF WellSoFar, VerdictOK
  <2> QED BY <2>5, <2>6, <2>7
<1> QED
  BY <1>5, <1>6 DEF AllocHead, Malloc

LEMMA EndArrayStep ==
  ASSUME ConvertTypeOK, AnswerInv, EndArray
  PROVE  AnswerInv'
<1> USE DEF AnswerInv, Outside, InPair, InArray, InAd, Refused
<1>1. /\ at = "ad" /\ live = AdsSoFar /\ ~short /\ slot \in DOMAIN answer /\ ad > Len(Ads)
      /\ ad \in 1 .. Len(Ads) + 1 /\ Ads # <<>> /\ \A i \in 1 .. ad - 1 : WellAd(Ads[i])
      /\ Several => /\ answer[slot].name = "text" /\ answer[slot].object
                    /\ \A n \in 1 .. slot - 1 : WellSlot(answer[n])
  BY DEF EndArray, LiveOK, PositionOK, WellSoFar, VerdictOK
<1>2. answer' = answer /\ Several' = Several /\ live' = live /\ short' = short
  BY SameAnswer DEF EndArray
<1>3. Ads \in Seq(Ad) /\ ad = Len(Ads) + 1 /\ 1 .. ad - 1 = DOMAIN Ads
  BY <1>1, AnswerAt
<1>4. WellAds(answer[slot].ads)
  BY <1>1, <1>3 DEF WellAds, Ads
<1>5. WellFormed' = WellFormed /\ Complete' = Complete
  BY <1>2, SameAnswer
<1>6. CASE Several
  <2>1. at' = "pair" /\ slot' = slot + 1
    BY <1>6 DEF EndArray
  <2>2. SlotsSoFar' = live'
    BY <1>1, <1>2, <1>3, <1>6, <2>1, SlotEnds
  <2>3. slot' \in 1 .. Len(answer') + 1 /\ answer' # <<>> /\ 1 .. slot' - 1 = (1 .. slot - 1) \cup {slot}
    BY <1>1, <1>2, <1>6, <2>1, AnswerAt DEF ConvertTypeOK, AnswerTypeOK
  <2>4. \A n \in 1 .. slot' - 1 : WellSlot(answer'[n])
    BY <1>1, <1>2, <1>4, <1>6, <2>3 DEF WellSlot
  <2>5. LiveOK'
    BY <2>1, <2>2 DEF LiveOK
  <2>6. PositionOK'
    BY <1>2, <1>6, <2>1, <2>3 DEF PositionOK
  <2>7. WellSoFar' /\ VerdictOK'
    BY <1>1, <1>2, <2>1, <2>4 DEF WellSoFar, VerdictOK
  <2> QED BY <2>5, <2>6, <2>7
<1>7. CASE ~Several
  <2>1. at' = "read" /\ slot = 0
    BY <1>1, <1>7, AnswerAt DEF EndArray
  <2>2. live' = Complete'
    BY <1>1, <1>2, <1>3, <1>5, <1>7, AnswerEnds
  <2>3. WellFormed'
    BY <1>4, <1>5, <1>7, <2>1 DEF WellFormed
  <2> QED BY <1>1, <1>2, <2>1, <2>2, <2>3 DEF LiveOK, PositionOK, WellSoFar, VerdictOK
<1> QED
  BY <1>6, <1>7

(* What holds of an array, and of the slots before it, while one of its    *)
(* ads is read.                                                            *)
ArrayWell ==
  /\ Ads # <<>> /\ \A i \in 1 .. ad - 1 : WellAd(Ads[i])
  /\ Several => /\ answer[slot].name = "text" /\ answer[slot].object
                /\ \A n \in 1 .. slot - 1 : WellSlot(answer[n])

LEMMA IllAd ==
  ASSUME ConvertTypeOK, slot \in DOMAIN answer, ad \in DOMAIN Ads, ~WellAd(Ads[ad])
  PROVE  ~WellFormed
<1>1. ~WellAds(answer[slot].ads)
  BY DEF WellAds, Ads
<1> QED
  BY <1>1, AnswerAt DEF WellFormed, WellSlot

LEMMA IllHeader ==
  ASSUME ConvertTypeOK, slot \in DOMAIN answer, ad \in DOMAIN Ads, header \in DOMAIN Headers,
         ~WellHeader(Headers[header])
  PROVE  ~WellFormed
BY IllAd DEF WellAd, Headers

LEMMA AdStep ==
  ASSUME ConvertTypeOK, AnswerInv, JsonStr2CAdvertisement
  PROVE  AnswerInv'
<1> USE DEF AnswerInv, Outside, InPair, InArray, InAd, Refused
<1>1. /\ at = "ad" /\ live = AdsSoFar /\ ~short /\ slot \in DOMAIN answer /\ ad <= Len(Ads)
      /\ ad \in 1 .. Len(Ads) + 1 /\ ArrayWell
  BY DEF JsonStr2CAdvertisement, LiveOK, PositionOK, WellSoFar, VerdictOK, ArrayWell
<1>2. /\ answer' = answer /\ position' = position /\ slot' = slot /\ ad' = ad
      /\ Several' = Several /\ Ads' = Ads /\ AdsSoFar' = AdsSoFar /\ WellFormed' = WellFormed
  BY SameAnswer, SameHeader DEF JsonStr2CAdvertisement, position
<1>3. ad \in DOMAIN Ads
  BY <1>1, AnswerAt
<1>4. Ads[ad] \in Ad
  BY <1>1, <1>3, AdAt
<1>5. CASE at' = "arrayFailed"
  <2>1. live' = live /\ (short' \/ ~Ads[ad].typed \/ Ads[ad].uniqueId = "empty")
    BY <1>1, <1>5 DEF JsonStr2CAdvertisement, MallocCString, Malloc
  <2>2. ~WellFormed' \/ short'
    BY <1>1, <1>2, <1>3, <2>1, IllAd DEF WellAd
  <2> QED BY <1>1, <1>2, <1>3, <1>5, <2>1, <2>2 DEF LiveOK, PositionOK, WellSoFar, VerdictOK
<1>6. CASE at' = "headers"
  <2>1. /\ Ads[ad].typed /\ Ads[ad].uniqueId # "empty" /\ ~short'
        /\ live' = live \cup {Block(slot, ad, 0, "uniqueId")}
    BY <1>1, <1>6 DEF JsonStr2CAdvertisement, MallocCString, Malloc
  <2>2. Ads[ad].uniqueId = "text"
    BY <1>4, <2>1 DEF Ad
  <2>3. LiveOK'
    BY <1>1, <1>2, <1>6, <2>1 DEF LiveOK
  <2>4. PositionOK'
    BY <1>1, <1>2, <1>3, <1>6 DEF PositionOK
  <2>5. WellSoFar' /\ VerdictOK'
    BY <1>1, <1>2, <1>6, <2>1, <2>2 DEF WellSoFar, VerdictOK, ArrayWell
  <2> QED BY <2>3, <2>4, <2>5
<1> QED
  BY <1>1, <1>5, <1>6 DEF JsonStr2CAdvertisement, MallocCString, Malloc

(* An ad that is read to its end makes the ads so far one more.            *)
LEMMA NextAdStep ==
  ASSUME ConvertTypeOK, slot \in DOMAIN answer, ad \in DOMAIN Ads, ArrayWell, WellAd(Ads[ad]),
         live = AdsSoFar \cup WholeAd(slot, ad), ~short,
         answer' = answer, slot' = slot, ad' = ad + 1, at' = "ad", live' = live, short' = short
  PROVE  AnswerInv'
<1> USE DEF AnswerInv, Outside, InPair, InArray, InAd, Refused
<1>1. Several' = Several /\ Ads' = Ads /\ AdsSoFar' = live'
  BY SameAnswer, SameSlot, AdEnds
<1>2. Ads \in Seq(Ad) /\ ad \in Nat
  BY AnswerAt, AdAt
<1>3. ad' \in 1 .. Len(Ads) + 1 /\ 1 .. ad' - 1 = (1 .. ad - 1) \cup {ad}
  BY <1>2
<1>4. LiveOK'
  BY <1>1 DEF LiveOK
<1>5. PositionOK'
  BY <1>1, <1>3 DEF PositionOK
<1>6. \A i \in 1 .. ad' - 1 : WellAd(Ads[i])
  BY <1>3 DEF ArrayWell
<1>7. WellSoFar' /\ VerdictOK'
  BY <1>1, <1>6 DEF WellSoFar, VerdictOK, ArrayWell
<1> QED
  BY <1>4, <1>5, <1>7

LEMMA HeadersStep ==
  ASSUME ConvertTypeOK, AnswerInv, ParseRewardVerifyConfig
  PROVE  AnswerInv'
<1> USE DEF AnswerInv, Outside, InPair, InArray, InAd, Refused
<1>1. /\ at = "headers" /\ live = AdsSoFar \cup {Block(slot, ad, 0, "uniqueId")} /\ ~short
      /\ slot \in DOMAIN answer /\ ad \in DOMAIN Ads /\ ArrayWell
      /\ Ads[ad].typed /\ Ads[ad].uniqueId = "text"
  BY DEF ParseRewardVerifyConfig, LiveOK, PositionOK, WellSoFar, VerdictOK, ArrayWell
<1>2. /\ answer' = answer /\ slot' = slot /\ header' = 1
      /\ Several' = Several /\ Ads' = Ads /\ WellFormed' = WellFormed
  BY SameAnswer, SameSlot DEF ParseRewardVerifyConfig
<1>3. Headers \in Seq(Header) /\ ad # 0
  BY <1>1, AdAt
<1>4. CASE Headers = <<>>
  <2>1. ad' = ad + 1 /\ at' = "ad" /\ live' = live /\ short' = short
    BY <1>4 DEF ParseRewardVerifyConfig
  <2>2. WellAd(Ads[ad])
    BY <1>1, <1>4 DEF WellAd, Headers
  <2>3. live = AdsSoFar \cup WholeAd(slot, ad)
    BY <1>1, <1>4, WholeHere
  <2> QED BY <1>1, <1>2, <2>1, <2>2, <2>3, NextAdStep
<1>5. CASE Headers # <<>>
  <2>1. ad' = ad /\ Headers' = Headers /\ AdsSoFar' = AdsSoFar
    BY <1>2, <1>5, SameAd DEF ParseRewardVerifyConfig
  <2>2. CASE at' = "header"
    <3>1. live' = live \cup {Block(slot, ad, 0, "headers")} /\ ~short'
      BY <1>1, <1>5, <2>2 DEF ParseRewardVerifyConfig
    <3>2. 1 .. header' - 1 = {}
      BY <1>2
    <3>3. WholeHeaders(slot, ad, 1 .. header - 1)' = {}
      BY <3>2 DEF WholeHeaders
    <3>4. HeadersSoFar' = live'
      BY <1>1, <1>2, <2>1, <3>1, <3>3 DEF HeadersSoFar, Block
    <3>5. LiveOK'
      BY <2>2, <3>4 DEF LiveOK
    <3>6. PositionOK'
      BY <1>1, <1>2, <1>3, <1>5, <2>1, <2>2 DEF PositionOK
    <3>7. WellSoFar' /\ VerdictOK'
      BY <1>1, <1>2, <2>1, <2>2, <3>1, <3>2 DEF WellSoFar, VerdictOK, ArrayWell
    <3> QED BY <3>5, <3>6, <3>7
  <2>3. CASE at' = "arrayFailed"
    <3>1. live' = live \ {Block(slot, ad, 0, "uniqueId")} /\ short'
      BY <1>1, <1>5, <2>3 DEF ParseRewardVerifyConfig
    <3>2. Block(slot, ad, 0, "uniqueId") \notin AdsSoFar
      BY <1>1, <1>3, FreshAd DEF Block
    <3>3. live' = AdsSoFar'
      BY <1>1, <2>1, <3>1, <3>2
    <3> QED BY <1>1, <1>2, <2>1, <2>3, <3>1, <3>3 DEF LiveOK, PositionOK, WellSoFar, VerdictOK
  <2> QED BY <1>5, <2>2, <2>3 DEF ParseRewardVerifyConfig
<1> QED
  BY <1>4, <1>5

LEMMA EndHeadersStep ==
  ASSUME ConvertTypeOK, AnswerInv, EndHeaders
  PROVE  AnswerInv'
<1>1. /\ at = "header" /\ live = HeadersSoFar /\ ~short
      /\ slot \in DOMAIN answer /\ ad \in DOMAIN Ads /\ Headers # <<>>
      /\ header \in 1 .. Len(Headers) + 1 /\ header > Len(Headers)
      /\ \A k \in 1 .. header - 1 : WellHeader(Headers[k])
  BY DEF EndHeaders, AnswerInv, LiveOK, PositionOK, WellSoFar, VerdictOK, Outside, InPair, InArray,
         InAd, Refused
<1>2. ArrayWell /\ Ads[ad].typed /\ Ads[ad].uniqueId = "text"
  BY <1>1 DEF AnswerInv, WellSoFar, ArrayWell, InPair, InArray, InAd
<1>3. Headers \in Seq(Header)
  BY <1>1, AdAt
<1>4. header = Len(Headers) + 1 /\ 1 .. header - 1 = DOMAIN Headers
  BY <1>1, <1>3
<1>5. WellAd(Ads[ad])
  BY <1>1, <1>2, <1>4 DEF WellAd, Headers
<1>6. live = AdsSoFar \cup WholeAd(slot, ad)
  BY <1>1, <1>4, WholeHere
<1> QED
  BY <1>1, <1>2, <1>5, <1>6, NextAdStep DEF EndHeaders

LEMMA KeyStep ==
  ASSUME ConvertTypeOK, AnswerInv, ParseKey
  PROVE  AnswerInv'
<1> USE DEF AnswerInv, Outside, InPair, InArray, InAd, Refused
<1> DEFINE key == Block(slot, ad, header, "key")
<1>1. /\ at = "header" /\ live = HeadersSoFar /\ ~short /\ header <= Len(Headers)
      /\ slot \in DOMAIN answer /\ ad \in DOMAIN Ads /\ Headers # <<>> /\ ArrayWell
      /\ header \in 1 .. Len(Headers) + 1 /\ Ads[ad].typed /\ Ads[ad].uniqueId = "text"
      /\ \A k \in 1 .. header - 1 : WellHeader(Headers[k])
  BY DEF ParseKey, LiveOK, PositionOK, WellSoFar, VerdictOK, ArrayWell
<1>2. answer' = answer /\ position' = position /\ slot' = slot /\ ad' = ad /\ header' = header
  BY DEF ParseKey, position
<1>3. /\ Several' = Several /\ Ads' = Ads /\ Headers' = Headers /\ WellFormed' = WellFormed
      /\ AdsSoFar' = AdsSoFar /\ HeadersSoFar' = HeadersSoFar /\ HeaderHere' = HeaderHere
  BY <1>2, SameAnswer, SameHeader
<1>4. /\ header \in DOMAIN Headers /\ Headers[header] \in Header
      /\ ad # 0 /\ header # 0 /\ key \notin live
  BY <1>1, AdAt, FreshHeader
<1>5. CASE at' = "adFailed"
  <2>1. /\ live' = live /\ short' = short
        /\ ~Headers[header].object \/ "none" \in {Headers[header].key, Headers[header].value}
    BY <1>1, <1>5 DEF ParseKey, MallocCString, Malloc
  <2>2. ~WellFormed'
    BY <1>1, <1>3, <1>4, <2>1, IllHeader DEF WellHeader
  <2>3. LiveOK'
    BY <1>1, <1>3, <1>5, <2>1 DEF LiveOK
  <2>4. PositionOK'
    BY <1>1, <1>2, <1>3, <1>4, <1>5 DEF PositionOK
  <2> QED BY <1>1, <1>5, <2>1, <2>2, <2>3, <2>4 DEF WellSoFar, VerdictOK
<1>6. CASE at' = "text"
  <2>1. /\ Headers[header].object /\ "none" \notin {Headers[header].key, Headers[header].value}
        /\ MallocCString(key, Headers[header].key, "text", "text")
    BY <1>1, <1>6 DEF ParseKey
  <2>2. \/ live' = live \cup {key} /\ Headers[header].key # "empty" /\ ~short'
        \/ live' = live /\ (Headers[header].key = "empty" \/ short')
    BY <1>1, <2>1 DEF MallocCString, Malloc
  <2>3. LiveOK'
    BY <1>1, <1>2, <1>3, <1>6, <2>2 DEF LiveOK
  <2>4. PositionOK'
    BY <1>1, <1>2, <1>3, <1>4, <1>6 DEF PositionOK
  <2>5. IF key \in live' THEN Headers[header].key = "text" /\ ~short'
        ELSE Headers[header].key = "empty" \/ short'
    BY <1>4, <2>1, <2>2 DEF Header, Text
  <2>6. Block(slot, ad, header, "key")' = key
    BY <1>2 DEF Block
  <2>7. /\ Headers[header].object' = Headers[header].object
        /\ Headers[header].key' = Headers[header].key
        /\ Headers[header].value' = Headers[header].value
    BY <1>2, <1>3
  <2>8. WellSoFar'
    BY <1>1, <1>2, <1>3, <1>6, <2>1, <2>5, <2>6, <2>7 DEF WellSoFar, ArrayWell
  <2>9. VerdictOK'
    BY <1>6 DEF VerdictOK
  <2> QED BY <2>3, <2>4, <2>8, <2>9
<1> QED
  BY <1>1, <1>5, <1>6 DEF ParseKey, MallocCString, Malloc

LEMMA TextStep ==
  ASSUME ConvertTypeOK, AnswerInv, ParseValue
  PROVE  AnswerInv'
<1> USE DEF AnswerInv, Outside, InPair, InArray, InAd, Refused
<1> DEFINE key   == Block(slot, ad, header, "key")
           value == Block(slot, ad, header, "value")
           pair  == Headers[header]
<1>1. /\ at = "text" /\ live \in {HeadersSoFar, HeadersSoFar \cup {key}}
      /\ slot \in DOMAIN answer /\ ad \in DOMAIN Ads /\ Headers # <<>> /\ ArrayWell
      /\ header \in DOMAIN Headers /\ Ads[ad].typed /\ Ads[ad].uniqueId = "text"
      /\ \A k \in 1 .. header - 1 : WellHeader(Headers[k])
  BY DEF ParseValue, LiveOK, PositionOK, WellSoFar, VerdictOK, ArrayWell
<1>2. /\ pair.object /\ "none" \notin {pair.key, pair.value}
      /\ IF key \in live THEN pair.key = "text" /\ ~short ELSE pair.key = "empty" \/ short
  BY <1>1 DEF WellSoFar
<1>3. answer' = answer /\ slot' = slot /\ ad' = ad
  BY DEF ParseValue
<1>4. /\ Several' = Several /\ Ads' = Ads /\ Headers' = Headers /\ WellFormed' = WellFormed
      /\ AdsSoFar' = AdsSoFar
  BY <1>3, SameAnswer, SameSlot, SameAd
<1>5. Headers \in Seq(Header) /\ pair \in Header /\ header \in Nat \ {0}
  BY <1>1, AdAt DEF ConvertTypeOK, AnswerTypeOK
<1>6. CASE at' = "header"
  <2>1. /\ key \in live /\ pair.value # "empty" /\ header' = header + 1
        /\ live' = live \cup {value} /\ short' = short
    BY <1>6 DEF ParseValue, MallocCString, Malloc
  <2>2. WellHeader(pair) /\ ~short'
    BY <1>2, <1>5, <2>1 DEF WellHeader, Header, Text
  <2>3. header' \in 1 .. Len(Headers) + 1 /\ 1 .. header' - 1 = (1 .. header - 1) \cup {header}
        /\ header' - 1 = header
    BY <1>1, <1>5, <2>1
  <2>4. \A k \in 1 .. header' - 1 : WellHeader(Headers[k])
    BY <1>1, <2>2, <2>3
  <2>5. HeadersSoFar' = HeadersSoFar \cup {key, value}
    <3>1. WholeHeaders(slot, ad, 1 .. header - 1)' = WholeHeaders(slot, ad, 1 .. header)
      <4>1. PICK K : K = 1 .. header' - 1
        OBVIOUS
      <4>2. WholeHeaders(slot, ad, 1 .. header - 1)'
              = {[slot |-> slot, ad |-> ad, header |-> k, field |-> field] :
                   k \in K, field \in {"key", "value"}}
        BY <1>3, <4>1 DEF WholeHeaders, Block
      <4>3. K = 1 .. header
        BY <2>3, <4>1
      <4> QED BY <4>2, <4>3 DEF WholeHeaders, Block
    <3>2. {Block(slot, ad, 0, "uniqueId"), Block(slot, ad, 0, "headers")}'
            = {Block(slot, ad, 0, "uniqueId"), Block(slot, ad, 0, "headers")}
      BY <1>3 DEF Block
    <3>3. WholeHeaders(slot, ad, 1 .. header)
            = WholeHeaders(slot, ad, 1 .. header - 1) \cup {key, value}
      BY <1>5, NextHeader
    <3>4. HeadersSoFar' = AdsSoFar \cup {Block(slot, ad, 0, "uniqueId"), Block(slot, ad, 0, "headers")}
                            \cup WholeHeaders(slot, ad, 1 .. header)
      BY <1>4, <3>1, <3>2 DEF HeadersSoFar
    <3> QED BY <3>3, <3>4 DEF HeadersSoFar
  <2>6. live' = HeadersSoFar'
    BY <1>1, <2>1, <2>5
  <2>7. LiveOK'
    BY <1>6, <2>6 DEF LiveOK
  <2>8. PositionOK'
    BY <1>1, <1>3, <1>4, <1>6, <2>3 DEF PositionOK
  <2>9. WellSoFar'
    BY <1>1, <1>3, <1>4, <1>6, <2>4 DEF WellSoFar, ArrayWell
  <2>10. VerdictOK'
    BY <1>6, <2>2 DEF VerdictOK
  <2> QED BY <2>7, <2>8, <2>9, <2>10
<1>7. CASE at' = "adFailed"
  <2>1. header' = header
    BY <1>7 DEF ParseValue
  <2>2. live \subseteq live' /\ live' \subseteq live \cup {value}
    BY <1>7 DEF ParseValue, MallocCString, Malloc
  <2>3. key \notin live \/ pair.value = "empty" \/ short'
    BY <1>7 DEF ParseValue, MallocCString, Malloc
  <2>4. short => short'
    BY <1>7 DEF ParseValue, MallocCString, Malloc, ConvertTypeOK, AnswerTypeOK
  <2>5. ~WellFormed' \/ short'
    BY <1>1, <1>2, <1>4, <2>3, <2>4, IllHeader DEF WellHeader
  <2>6. HeadersSoFar' = HeadersSoFar /\ HeaderHere' = HeaderHere
    BY <1>3, <2>1, SameHeader DEF position
  <2>7. key \in HeaderHere /\ value \in HeaderHere
    BY DEF HeaderHere, WholeHeaders
  <2>8. LiveOK'
    BY <1>1, <1>7, <2>2, <2>6, <2>7 DEF LiveOK
  <2>9. PositionOK'
    BY <1>1, <1>3, <1>4, <1>7, <2>1 DEF PositionOK
  <2> QED BY <1>7, <2>5, <2>8, <2>9 DEF WellSoFar, VerdictOK
<1> QED
  BY <1>6, <1>7 DEF ParseValue, MallocCString, Malloc

LEMMA CleanupStep ==
  ASSUME ConvertTypeOK, AnswerInv,
         CleanupCAdvertisementOnFailure \/ CleanupArray \/ CleanupPair \/ CleanupSlots
  PROVE  AnswerInv'
<1> USE DEF AnswerInv, Outside, InPair, InArray, InAd, Refused
<1>1. answer' = answer /\ position' = position /\ short' = short /\ slot' = slot /\ ad' = ad
  BY DEF CleanupCAdvertisementOnFailure, CleanupArray, CleanupPair, CleanupSlots, position
<1>2. /\ Several' = Several /\ Ads' = Ads /\ WellFormed' = WellFormed
      /\ SlotsSoFar' = SlotsSoFar /\ PairSoFar' = PairSoFar /\ AdsSoFar' = AdsSoFar
  BY <1>1, SameAnswer, SameHeader
<1>3. ~WellFormed' \/ short'
  BY <1>1, <1>2
     DEF CleanupCAdvertisementOnFailure, CleanupArray, CleanupPair, CleanupSlots, VerdictOK
<1>4. ASSUME CleanupCAdvertisementOnFailure PROVE AnswerInv'
  <2>1. /\ slot \in DOMAIN answer /\ ad \in DOMAIN Ads /\ header \in DOMAIN Headers
        /\ HeadersSoFar \subseteq live /\ live \subseteq HeadersSoFar \cup HeaderHere
        /\ at' = "arrayFailed" /\ live' = live \ AdBlocks(slot, ad)
    BY <1>4 DEF CleanupCAdvertisementOnFailure, LiveOK, PositionOK
  <2>2. live' = AdsSoFar'
    BY <1>2, <2>1, AdFreed
  <2> QED BY <1>1, <1>2, <1>3, <2>1, <2>2 DEF LiveOK, PositionOK, WellSoFar, VerdictOK
<1>5. ASSUME CleanupArray PROVE AnswerInv'
  <2>1. /\ slot \in DOMAIN answer /\ ad \in DOMAIN Ads /\ live = AdsSoFar /\ at' = ArrayRefused
        /\ live' = (live \ UNION {AdBlocks(slot, i) : i \in 1 .. ad - 1}) \ {Block(slot, 0, 0, "head")}
    BY <1>5 DEF CleanupArray, LiveOK, PositionOK
  <2>2. live' = PairSoFar'
    BY <1>2, <2>1, ArrayFreed
  <2>3. CASE Several
    <3>1. at' = "pairFailed" /\ SlotsSoFar' \subseteq PairSoFar'
      BY <1>2, <2>1, <2>3 DEF ArrayRefused, PairSoFar
    <3> QED BY <1>1, <1>2, <1>3, <2>1, <2>2, <2>3, <3>1 DEF LiveOK, PositionOK, WellSoFar, VerdictOK
  <2>4. CASE ~Several
    <3>1. at' = "failed" /\ live' = {}
      BY <1>2, <2>1, <2>2, <2>4 DEF ArrayRefused, PairSoFar, SlotsSoFar
    <3> QED BY <1>3, <3>1 DEF LiveOK, PositionOK, WellSoFar, VerdictOK
  <2> QED BY <2>3, <2>4
<1>6. ASSUME CleanupPair PROVE AnswerInv'
  <2>1. /\ slot \in DOMAIN answer /\ Several /\ SlotsSoFar \subseteq live /\ live \subseteq PairSoFar
        /\ at' = "slotsFailed" /\ live' = live \ PairBlocks(slot)
    BY <1>6 DEF CleanupPair, LiveOK, PositionOK
  <2>2. live' = SlotsSoFar'
    BY <1>2, <2>1, PairFreed
  <2>3. slot' \in 1 .. Len(answer') + 1
    BY <1>1, <2>1, AnswerAt DEF ConvertTypeOK, AnswerTypeOK
  <2> QED BY <1>2, <1>3, <2>1, <2>2, <2>3 DEF LiveOK, PositionOK, WellSoFar, VerdictOK
<1>7. ASSUME CleanupSlots PROVE AnswerInv'
  <2>1. /\ Several /\ slot \in 1 .. Len(answer) + 1 /\ live = SlotsSoFar
        /\ at' = "failed" /\ live' = live \ SlotBlocks
    BY <1>7 DEF CleanupSlots, LiveOK, PositionOK
  <2>2. live' = {}
    BY <2>1, SlotsFreed
  <2> QED BY <1>3, <2>1, <2>2 DEF LiveOK, PositionOK, WellSoFar, VerdictOK
<1> QED
  BY <1>4, <1>5, <1>6, <1>7

LEMMA TellStep ==
  ASSUME ConvertTypeOK, AnswerInv, TellAndFree
  PROVE  AnswerInv'
<1> USE DEF AnswerInv, Outside, InPair, InArray, InAd, Refused
<1>1. at' = "told"
  BY DEF TellAndFree
<1>2. live' = {}
  <2>1. CASE at = "failed"
    BY <2>1 DEF TellAndFree, LiveOK
  <2>2. CASE at = "read"
    <3>1. live = Complete /\ live' = live \ (IF Several THEN SlotBlocks ELSE ArrBlocks(0))
      BY <2>2 DEF TellAndFree, LiveOK
    <3>2. Complete \subseteq IF Several THEN SlotBlocks ELSE ArrBlocks(0)
      BY FoundSlots, FoundArr DEF Complete
    <3> QED BY <3>1, <3>2
  <2> QED BY <2>1, <2>2 DEF TellAndFree
<1> QED
  BY <1>1, <1>2 DEF LiveOK, PositionOK, WellSoFar, VerdictOK

LEMMA OtherStep ==
  ASSUME ConvertTypeOK, AnswerInv,
         \/ \E kind \in Kinds : WriteObject(kind)
         \/ WriteField \/ WriteExtra \/ WriteSlots \/ Done
  PROVE  AnswerInv'
<1> USE DEF AnswerInv, Outside, InPair, InArray, InAd, Refused
<1>1. live = {} /\ live' = {}
  BY DEF WriteObject, WriteField, WriteExtra, WriteSlots, Done, reading, LiveOK
<1>2. ASSUME Done PROVE AnswerInv'
  <2>1. at' = "idle" /\ slot' = 0 /\ ~short'
    BY <1>2 DEF Done
  <2> QED BY <1>1, <2>1 DEF LiveOK, PositionOK, WellSoFar, VerdictOK
<1>3. ASSUME \/ \E kind \in Kinds : WriteObject(kind)
             \/ WriteField \/ WriteExtra \/ WriteSlots
      PROVE  AnswerInv'
  <2>1. at' \in {"fields", "extras", "written"} /\ ~short'
    BY <1>3 DEF WriteObject, WriteField, WriteExtra, WriteSlots, reading, VerdictOK
  <2> QED BY <1>1, <2>1 DEF LiveOK, PositionOK, WellSoFar, VerdictOK
<1> QED
  BY <1>2, <1>3

LEMMA AnswerStutter ==
  ASSUME AnswerInv, UNCHANGED convertVars
  PROVE  AnswerInv'
<1>1. answer' = answer /\ position' = position /\ live' = live /\ short' = short /\ at' = at
      /\ slot' = slot /\ ad' = ad /\ header' = header
  BY DEF convertVars, reading, position
<1>2. LiveOK'
  BY <1>1, SameAnswer, SameHeader DEF AnswerInv, LiveOK, Block
<1>3. PositionOK'
  BY <1>1, SameAnswer, SameHeader DEF AnswerInv, PositionOK
<1>4. WellSoFar'
  BY <1>1, SameAnswer, SameHeader DEF AnswerInv, WellSoFar, Block
<1>5. VerdictOK'
  BY <1>1, SameAnswer DEF AnswerInv, VerdictOK
<1> QED
  BY <1>2, <1>3, <1>4, <1>5 DEF AnswerInv

LEMMA AnswerStep ==
  ASSUME ConvertTypeOK, AnswerInv, [ConvertNext]_convertVars
  PROVE  AnswerInv'
BY StartStep, SlotsStep, NameStep, ValueStep, HeadStep, EndArrayStep, AdStep, HeadersStep,
   EndHeadersStep, KeyStep, TextStep, CleanupStep, TellStep, OtherStep, AnswerStutter
   DEF ConvertNext

-----------------------------------------------------------------------------
LEMMA PlaceStep ==
  ASSUME ConvertTypeOK, [ConvertNext]_convertVars
  PROVE  at' \in Place
<1> USE DEF Place
<1>1. ASSUME NEW block, NEW done, NEW failed, Malloc(block, done, failed)
      PROVE  at' \in {done, failed}
  BY <1>1 DEF Malloc
<1>2. ASSUME NEW block, NEW text, NEW done, NEW failed, MallocCString(block, text, done, failed)
      PROVE  at' \in {done, failed}
  BY <1>1, <1>2 DEF MallocCString
<1>3. ASSUME \/ \E kind \in Kinds : WriteObject(kind)
             \/ WriteField \/ WriteExtra \/ WriteSlots \/ ReadAds \/ ReadSlots \/ Done
      PROVE  at' \in Place
  BY <1>3 DEF WriteObject, WriteField, WriteExtra, WriteSlots, ReadAds, ReadSlots, Done
<1>4. ASSUME InitHashStrArrHeaders PROVE at' \in Place
  BY <1>1, <1>4 DEF InitHashStrArrHeaders
<1>5. ASSUME ParseName PROVE at' \in Place
  BY <1>2, <1>5 DEF ParseName
<1>6. ASSUME AllocValue PROVE at' \in Place
  BY <1>1, <1>6 DEF AllocValue
<1>7. ASSUME AllocHead PROVE at' \in Place
  BY <1>1, <1>7 DEF AllocHead, ArrayRefused
<1>8. ASSUME EndArray \/ EndHeaders PROVE at' \in Place
  BY <1>8 DEF EndArray, EndHeaders
<1>9. ASSUME JsonStr2CAdvertisement PROVE at' \in Place
  BY <1>2, <1>9 DEF JsonStr2CAdvertisement
<1>10. ASSUME ParseRewardVerifyConfig PROVE at' \in Place
  BY <1>10 DEF ParseRewardVerifyConfig
<1>11. ASSUME ParseKey PROVE at' \in Place
  BY <1>2, <1>11 DEF ParseKey
<1>12. ASSUME ParseValue PROVE at' \in Place
  BY <1>2, <1>12 DEF ParseValue
<1>13. ASSUME CleanupCAdvertisementOnFailure \/ CleanupArray \/ CleanupPair \/ CleanupSlots
       PROVE  at' \in Place
  BY <1>13 DEF CleanupCAdvertisementOnFailure, CleanupArray, CleanupPair, CleanupSlots,
               ArrayRefused
<1>14. ASSUME TellAndFree PROVE at' \in Place
  BY <1>14 DEF TellAndFree
<1>15. ASSUME UNCHANGED convertVars PROVE at' \in Place
  BY <1>15 DEF convertVars, ConvertTypeOK
<1> QED
  BY <1>3, <1>4, <1>5, <1>6, <1>7, <1>8, <1>9, <1>10, <1>11, <1>12, <1>13, <1>14, <1>15
     DEF ConvertNext

LEMMA ConvertTypeStep ==
  ASSUME ConvertTypeOK, RequestInv, [ConvertNext]_convertVars
  PROVE  ConvertTypeOK'
<1>1. RequestTypeOK'
  <2>1. ASSUME writing' = writing PROVE RequestTypeOK'
    BY <2>1 DEF writing, ConvertTypeOK, RequestTypeOK
  <2>2. ASSUME Done PROVE RequestTypeOK'
    <3>1. /\ request'.kind = "root" /\ request'.given = {} /\ request'.extra = <<>>
          /\ request'.slots = 0 /\ next' = 1 /\ json' = <<>>
      BY <2>2 DEF Done, NoRequest
    <3> QED BY <3>1 DEF RequestTypeOK
  <2>3. ASSUME UNCHANGED convertVars PROVE RequestTypeOK'
    BY <2>1, <2>3 DEF convertVars
  <2>4. ASSUME ReadsAnswer PROVE RequestTypeOK'
    BY <2>1, <2>4, ReadingApart
  <2> QED BY <2>2, <2>3, <2>4, RequestTypeStep DEF ConvertNext, ReadsAnswer
<1> QED
  BY <1>1, PlaceStep, AnswerTypeStep DEF ConvertTypeOK

(* Every variable keeps its type, what was written so far says of each     *)
(* field what a parser would read, and the blocks that are allocated are    *)
(* known, one by one, at each place of the conversion: for any fields, any *)
(* answers, and whichever allocations fail.                                *)
THEOREM ConvertInvariant == ConvertSpec => [](ConvertTypeOK /\ RequestInv /\ AnswerInv)
<1>1. ConvertInit => ConvertTypeOK /\ RequestInv /\ AnswerInv
  <2> SUFFICES ASSUME ConvertInit PROVE ConvertTypeOK /\ RequestInv /\ AnswerInv
    OBVIOUS
  <2> USE DEF ConvertInit
  <2>1. /\ request.kind = "root" /\ request.given = {} /\ request.extra = <<>>
        /\ request.slots = 0
    BY DEF NoRequest
  <2>2. ConvertTypeOK
    <3>1. at \in Place
      BY DEF Place
    <3>2. RequestTypeOK
      <4>1. {} \subseteq FieldName /\ <<>> \in Seq(Attribute)
            /\ json \in Seq([key : {Unnamed}, value : Nat]) /\ next \in Nat
        OBVIOUS
      <4> QED BY <2>1, <4>1 DEF RequestTypeOK
    <3>3. AnswerTypeOK
      <4>1. Several /\ answer \in Seq(Slot)
        BY DEF Several
      <4> QED BY <4>1 DEF AnswerTypeOK
    <3> QED BY <3>1, <3>2, <3>3 DEF ConvertTypeOK
  <2>3. RequestInv
    BY <2>1 DEF RequestInv, Kinds
  <2>4. AnswerInv
    BY DEF AnswerInv, LiveOK, PositionOK, WellSoFar, VerdictOK, Outside, InPair, InArray, InAd,
           Refused
  <2> QED BY <2>2, <2>3, <2>4
<1>2. /\ ConvertTypeOK /\ RequestInv /\ AnswerInv /\ [ConvertNext]_convertVars
      => (ConvertTypeOK /\ RequestInv /\ AnswerInv)'
  BY ConvertTypeStep, RequestStep, AnswerStep
<1> QED
  BY <1>1, <1>2, PTL DEF ConvertSpec

(* An answer of any length is passed on to a CJ listener exactly if all of *)
(* it is well formed and no allocation failed, and then it is complete:    *)
(* JsonStr2CAdvertisementArr and JsonStr2CAdvertisementHashStrArr.         *)
THEOREM AcceptsExactlyCorrect == ConvertSpec => []AcceptsExactly
<1>1. ConvertTypeOK /\ RequestInv /\ AnswerInv => AcceptsExactly
  BY DEF AnswerInv, LiveOK, VerdictOK, AcceptsExactly, Refused
<1> QED
  BY <1>1, ConvertInvariant, PTL

(* No block outlives an answer, whichever allocation or field fails: what  *)
(* the cleanups of the four levels free is what was allocated.             *)
THEOREM NothingLeaksCorrect == ConvertSpec => []NothingLeaks
<1>1. ConvertTypeOK /\ RequestInv /\ AnswerInv => NothingLeaks
  BY DEF AnswerInv, LiveOK, NothingLeaks, Outside
<1> QED
  BY <1>1, ConvertInvariant, PTL

(* Each field of a request is read back under its name, whatever extra     *)
(* attributes follow, but for those they overwrite and for the search      *)
(* keyword: ConvertCAdRequestParams2CJSON and its siblings.                *)
THEOREM RequestArrivesCorrect == ConvertSpec => []RequestArrives
<1>1. ConvertTypeOK /\ RequestInv /\ AnswerInv => RequestArrives
  BY RequestArrivesFollows
<1> QED
  BY <1>1, ConvertInvariant, PTL

=============================================================================
