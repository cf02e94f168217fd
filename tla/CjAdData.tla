------------------------------- MODULE CjAdData -------------------------------
(***************************************************************************)
(* The data of the CJ binding on both ways: the parameters of a request,   *)
(* written as JSON, and the provider's answer, parsed into C structures    *)
(* the listener reads and that are freed behind it.                        *)
(*                                                                         *)
(* The structure of an answer is the set of its blocks of memory that are  *)
(* allocated, and each of these allocations may fail.  Writing a request   *)
(* has the memory it needs.  A text is told apart only where it is empty   *)
(* or no text at all; a field's value is its name.                         *)
(***************************************************************************)
EXTENDS Integers, Sequences

CONSTANTS
  AdLists,   \* answers to a load of one slot
  SlotLists, \* answers to a load of several
  ExtraKeys, \* names of extra attributes, ...
  Extras,    \* ... and those a request may carry
  MaxSlots   \* slots of a request

Text   == {"none", "empty", "text"}
Header == [object : BOOLEAN, key : Text, value : Text]

(* typed: all fields of an advertisement are there and have their type.    *)
Ad == [typed : BOOLEAN, uniqueId : {"empty", "text"}, headers : Seq(Header)]

(* An element of the answer for several slots: an array of two, a name and *)
(* an object whose members are ads.  In a map of arrays of ads, which      *)
(* FormatJsonStr of the service extension writes, there is no name.        *)
Slot == [name : Text, object : BOOLEAN, ads : Seq(Ad)]

(* value is FALSE for a value of a type that is not converted.             *)
Attribute == [key : ExtraKeys, value : BOOLEAN]

ASSUME CjDataAssumption ==
  /\ AdLists \subseteq Seq(Ad) /\ SlotLists \subseteq Seq(Slot)
  /\ Extras \subseteq Seq(Attribute)
  /\ MaxSlots \in Nat

VARIABLES
  at,      \* where the thread is
  request, \* the parameters it writes, ...
  next,    \* the next of them, ...
  json,    \* and the members that are written
  answer,  \* the slots of the answer it reads; 0 is the only slot of an array of ads
  slot, ad, header, \* where it is in the answer
  live,    \* the blocks that are allocated
  short    \* an allocation failed

writing     == <<request, next, json>>
position    == <<slot, ad, header>>
reading     == <<answer, position, live, short>>
convertVars == <<at, writing, reading>>

-----------------------------------------------------------------------------
(* Requests.                                                               *)

Kinds == {"request", "options", "display"}

FieldsOf(kind) ==
  IF kind = "request"
  THEN <<"adId", "adType", "adCount", "adHeight", "adWidth", "adSearchKeyword">>
  ELSE IF kind = "options"
  THEN <<"tagForChildProtection", "adContentClassification", "nonPersonalizedAd">>
  ELSE <<"customData", "userId", "useMobileDataReminder", "mute", "audioFocusType">>

Required(kind) ==
  IF kind = "request" THEN {"adId"} ELSE IF kind = "options" THEN {"tagForChildProtection"} ELSE {}

FieldName == UNION {{FieldsOf(kind)[i] : i \in DOMAIN FieldsOf(kind)} : kind \in Kinds}

Optional(kind) == {FieldsOf(kind)[i] : i \in DOMAIN FieldsOf(kind)} \ Required(kind)

(* The search keyword is written under the name of the ad's id.            *)
KeyOf(field) == IF field = "adSearchKeyword" THEN "adId" ELSE field

Member(key, value) == [key |-> key, value |-> value]

(* The root for n slots is an object too; its members are written under    *)
(* the empty name.                                                         *)
Unnamed == "unnamed"

ConvertCAdRequestParamsArr2CJSON(n) == [i \in 1 .. n |-> Member(Unnamed, i)]

(* External: what JSON.parse of the provider makes of an object: of the     *)
(* members of one name the last.                                           *)
JsonParse(members) ==
  [key \in {members[i].key : i \in DOMAIN members} |->
     members[CHOOSE i \in DOMAIN members :
               /\ members[i].key = key
               /\ \A j \in DOMAIN members : members[j].key = key => j <= i].value]

NoRequest == [kind |-> "root", given |-> {}, extra |-> <<>>, slots |-> 0]

(* loadAd, showAd and getAdRequestBody write what they were given: the     *)
(* fields of parameters, options or display options, in order, ...         *)
WriteObject(kind) ==
  /\ at = "idle" /\ at' = "fields" /\ next' = 1 /\ json' = <<>>
  /\ \E given \in SUBSET Optional(kind), extra \in Extras :
       request' = [kind |-> kind, given |-> given, extra |-> extra, slots |-> 0]
  /\ UNCHANGED reading

WriteField ==
  /\ at = "fields"
  /\ UNCHANGED <<request, reading>>
  /\ LET fields == FieldsOf(request.kind) IN
     \/ /\ next \in DOMAIN fields
        /\ json' = IF fields[next] \in Required(request.kind) \cup request.given
                   THEN Append(json, Member(KeyOf(fields[next]), fields[next])) ELSE json
        /\ next' = next + 1 /\ UNCHANGED at
     \/ next \notin DOMAIN fields /\ next' = 1 /\ at' = "extras" /\ UNCHANGED json

(* Fault: an attribute of another type is written all the same.            *)
Adparameters2CJSONObject_All(attribute) == Append(json, Member(attribute.key, "extra"))

(* ... and the extra attributes, but those of another type; a name may     *)
(* occur twice.                                                            *)
Adparameters2CJSONObject(attribute) ==
  IF attribute.value THEN Append(json, Member(attribute.key, "extra")) ELSE json

WriteExtra ==
  /\ at = "extras"
  /\ UNCHANGED <<request, reading>>
  /\ \/ /\ next \in DOMAIN request.extra
        /\ json' = Adparameters2CJSONObject(request.extra[next])
        /\ next' = next + 1 /\ UNCHANGED at
     \/ next \notin DOMAIN request.extra /\ at' = "written" /\ UNCHANGED <<next, json>>

WriteSlots ==
  /\ at = "idle" /\ at' = "written"
  /\ \E n \in 1 .. MaxSlots :
       /\ request' = [NoRequest EXCEPT !.slots = n]
       /\ json' = ConvertCAdRequestParamsArr2CJSON(n)
  /\ UNCHANGED <<next, reading>>

-----------------------------------------------------------------------------
(* Answers.                                                                *)

Block(n, i, k, field) == [slot |-> n, ad |-> i, header |-> k, field |-> field]

Malloc(block, done, failed) ==
  \/ live' = live \cup {block} /\ at' = done /\ UNCHANGED short
  \/ short' = TRUE /\ at' = failed /\ UNCHANGED live

(* An empty text is a null pointer, like one there is no memory for.       *)
MallocCString(block, text, done, failed) ==
  \/ text # "empty" /\ Malloc(block, done, failed)
  \/ text = "empty" /\ at' = failed /\ UNCHANGED <<live, short>>

(* What FreeCAdvertisement, FreeCAdvertisementArr and                      *)
(* FreeCAdvertisementHashStrArr look for, freeing what they find.          *)
AdBlocks(n, i) ==
  {Block(n, i, 0, "uniqueId"), Block(n, i, 0, "headers")}
    \cup {Block(n, i, k, field) : k \in DOMAIN answer[n].ads[i].headers, field \in {"key", "value"}}

ArrBlocks(n) == {Block(n, 0, 0, "head")} \cup UNION {AdBlocks(n, i) : i \in DOMAIN answer[n].ads}

PairBlocks(n) == {Block(n, 0, 0, "name"), Block(n, 0, 0, "value")} \cup ArrBlocks(n)

SlotBlocks == {Block(0, 0, 0, "slots")} \cup UNION {PairBlocks(n) : n \in DOMAIN answer}

Several == 0 \notin DOMAIN answer
Ads     == answer[slot].ads
Headers == Ads[ad].headers

(* Where the failure of an array of ads is noticed.                        *)
ArrayRefused == IF Several THEN "pairFailed" ELSE "failed"

(* OnAdLoadSuccess and OnAdLoadMultiSlotsSuccess convert; a text that is   *)
(* no JSON they refuse as they do an empty list.                           *)
ReadAds ==
  /\ at = "idle" /\ at' = "array"
  /\ \E ads \in AdLists :
       answer' = [n \in {0} |-> [name |-> "none", object |-> TRUE, ads |-> ads]]
  /\ UNCHANGED <<position, live, short, writing>>

ReadSlots ==
  /\ at = "idle" /\ at' = "slots"
  /\ answer' \in SlotLists
  /\ UNCHANGED <<position, live, short, writing>>

(* JsonStr2CAdvertisementHashStrArr, up to its loop over the slots.        *)
InitHashStrArrHeaders ==
  /\ at = "slots" /\ slot' = 1
  /\ \/ answer = <<>> /\ at' = "failed" /\ UNCHANGED <<live, short>>
     \/ answer # <<>> /\ Malloc(Block(0, 0, 0, "slots"), "pair", "failed")
  /\ UNCHANGED <<answer, ad, header, writing>>

(* ParseHashStrArrPair, if there is another slot; the name, ...            *)
ParseName ==
  /\ at = "pair"
  /\ \/ slot > Len(answer) /\ at' = "read" /\ UNCHANGED <<live, short>>
     \/ /\ slot <= Len(answer)
        /\ LET name == answer[slot].name IN
           \/ name = "none" /\ at' = "slotsFailed" /\ UNCHANGED <<live, short>>
           \/ name # "none" /\ MallocCString(Block(slot, 0, 0, "name"), name, "value", "slotsFailed")
  /\ UNCHANGED <<answer, position, writing>>

(* ... then the structure of its ads.                                      *)
AllocValue ==
  /\ at = "value"
  /\ Malloc(Block(slot, 0, 0, "value"),
            IF answer[slot].object THEN "array" ELSE "pairFailed", "pairFailed")
  /\ UNCHANGED <<answer, position, writing>>

(* JsonStr2CAdvertisementArr, up to its loop over the ads.                 *)
AllocHead ==
  /\ at = "array" /\ ad' = 1
  /\ \/ Ads = <<>> /\ at' = ArrayRefused /\ UNCHANGED <<live, short>>
     \/ Ads # <<>> /\ Malloc(Block(slot, 0, 0, "head"), "ad", ArrayRefused)
  /\ UNCHANGED <<answer, slot, header, writing>>

(* All ads are there: the next slot, or the end.                           *)
EndArray ==
  /\ at = "ad" /\ ad > Len(Ads)
  /\ \/ Several /\ slot' = slot + 1 /\ at' = "pair"
     \/ ~Several /\ at' = "read" /\ UNCHANGED slot
  /\ UNCHANGED <<answer, ad, header, live, short, writing>>

(* Fault: the fields' types are not looked at.                             *)
JsonStr2CAdvertisement_Untyped ==
  /\ at = "ad" /\ ad <= Len(Ads)
  /\ MallocCString(Block(slot, ad, 0, "uniqueId"), Ads[ad].uniqueId, "headers", "arrayFailed")
  /\ UNCHANGED <<answer, position, writing>>

JsonStr2CAdvertisement ==
  /\ at = "ad" /\ ad <= Len(Ads)
  /\ \/ ~Ads[ad].typed /\ at' = "arrayFailed" /\ UNCHANGED <<live, short>>
     \/ /\ Ads[ad].typed
        /\ MallocCString(Block(slot, ad, 0, "uniqueId"), Ads[ad].uniqueId, "headers", "arrayFailed")
  /\ UNCHANGED <<answer, position, writing>>

(* Without memory for the array of headers the unique id is freed here.    *)
ParseRewardVerifyConfig ==
  /\ at = "headers" /\ header' = 1
  /\ \/ Headers = <<>> /\ ad' = ad + 1 /\ at' = "ad" /\ UNCHANGED <<live, short>>
     \/ /\ Headers # <<>> /\ UNCHANGED ad
        /\ \/ live' = live \cup {Block(slot, ad, 0, "headers")} /\ at' = "header" /\ UNCHANGED short
           \/ live' = live \ {Block(slot, ad, 0, "uniqueId")} /\ at' = "arrayFailed" /\ short' = TRUE
  /\ UNCHANGED <<answer, slot, writing>>

EndHeaders ==
  /\ at = "header" /\ header > Len(Headers)
  /\ ad' = ad + 1 /\ at' = "ad"
  /\ UNCHANGED <<answer, slot, header, live, short, writing>>

(* Key and value are both allocated before either is looked at.            *)
ParseKey ==
  /\ at = "header" /\ header <= Len(Headers)
  /\ LET pair == Headers[header] IN
     \/ /\ ~pair.object \/ "none" \in {pair.key, pair.value}
        /\ at' = "adFailed" /\ UNCHANGED <<live, short>>
     \/ /\ pair.object /\ "none" \notin {pair.key, pair.value}
        /\ MallocCString(Block(slot, ad, header, "key"), pair.key, "text", "text")
  /\ UNCHANGED <<answer, position, writing>>

ParseValue ==
  /\ at = "text"
  /\ MallocCString(Block(slot, ad, header, "value"), Headers[header].value,
       IF Block(slot, ad, header, "key") \in live THEN "header" ELSE "adFailed", "adFailed")
  /\ header' = IF at' = "header" THEN header + 1 ELSE header
  /\ UNCHANGED <<answer, slot, ad, writing>>

(* Fault: the header that failed is not freed.                             *)
CleanupCAdvertisementOnFailure_LeavesText ==
  /\ at = "adFailed" /\ at' = "arrayFailed"
  /\ live' = live \ {Block(slot, ad, 0, "uniqueId"), Block(slot, ad, 0, "headers")}
  /\ UNCHANGED <<answer, position, short, writing>>

CleanupCAdvertisementOnFailure ==
  /\ at = "adFailed" /\ at' = "arrayFailed"
  /\ live' = live \ AdBlocks(slot, ad)
  /\ UNCHANGED <<answer, position, short, writing>>

(* The ads before the one that failed are freed, and the array.            *)
CleanupArray ==
  /\ at = "arrayFailed" /\ at' = ArrayRefused
  /\ live' = (live \ UNION {AdBlocks(slot, i) : i \in 1 .. ad - 1}) \ {Block(slot, 0, 0, "head")}
  /\ UNCHANGED <<answer, position, short, writing>>

CleanupPair ==
  /\ at = "pairFailed" /\ at' = "slotsFailed"
  /\ live' = live \ PairBlocks(slot)
  /\ UNCHANGED <<answer, position, short, writing>>

CleanupSlots ==
  /\ at = "slotsFailed" /\ at' = "failed"
  /\ live' = live \ SlotBlocks
  /\ UNCHANGED <<answer, position, short, writing>>

(* The listener is told of a structure, which is freed behind it, or of a  *)
(* failure.                                                                *)
TellAndFree ==
  /\ \/ /\ at = "read"
        /\ live' = live \ (IF Several THEN SlotBlocks ELSE ArrBlocks(0))
     \/ at = "failed" /\ UNCHANGED live
  /\ at' = "told"
  /\ UNCHANGED <<answer, position, short, writing>>

-----------------------------------------------------------------------------
(* One thread; conversions share nothing.                                  *)
Done ==
  /\ at \in {"written", "told"} /\ at' = "idle"
  /\ request' = NoRequest /\ next' = 1 /\ json' = <<>>
  /\ answer' = <<>> /\ slot' = 0 /\ ad' = 0 /\ header' = 0 /\ short' = FALSE
  /\ UNCHANGED live

ConvertInit ==
  /\ at = "idle"
  /\ request = NoRequest /\ next = 1 /\ json = <<>>
  /\ answer = <<>> /\ slot = 0 /\ ad = 0 /\ header = 0
  /\ live = {} /\ short = FALSE

ConvertNext ==
  \/ \E kind \in Kinds : WriteObject(kind)
  \/ WriteField \/ WriteExtra \/ WriteSlots
  \/ ReadAds \/ ReadSlots
  \/ InitHashStrArrHeaders \/ ParseName \/ AllocValue
  \/ AllocHead \/ EndArray
  \/ JsonStr2CAdvertisement \/ ParseRewardVerifyConfig
  \/ EndHeaders \/ ParseKey \/ ParseValue
  \/ CleanupCAdvertisementOnFailure \/ CleanupArray \/ CleanupPair \/ CleanupSlots
  \/ TellAndFree \/ Done

ConvertSpec == ConvertInit /\ [][ConvertNext]_convertVars

-----------------------------------------------------------------------------
Place ==
  {"idle", "fields", "extras", "written", "slots", "pair", "value", "array", "ad",
   "headers", "header", "text", "adFailed", "arrayFailed", "pairFailed", "slotsFailed",
   "failed", "read", "told"}

FieldMember == [key : FieldName \cup ExtraKeys, value : FieldName \cup {"extra"}]

RequestTypeOK ==
  /\ request.kind \in Kinds \cup {"root"} /\ request.given \subseteq FieldName
  /\ request.extra \in Seq(Attribute) /\ request.slots \in Nat
  /\ next \in Nat
  /\ request.kind = "root" => json \in Seq([key : {Unnamed}, value : Nat])
  /\ request.kind # "root" => json \in Seq(FieldMember)

AnswerTypeOK ==
  /\ answer \in IF Several THEN Seq(Slot) ELSE [{0} -> Slot]
  /\ slot \in Nat /\ ad \in Nat /\ header \in Nat
  /\ live \subseteq [slot : Nat, ad : Nat, header : Nat,
                     field : {"slots", "name", "value", "head", "uniqueId", "headers", "key"}]
  /\ short \in BOOLEAN

(* A request of one of the four kinds is written, an answer of one slot or *)
(* of several is read into blocks of the eight kinds.                      *)
ConvertTypeOK == at \in Place /\ RequestTypeOK /\ AnswerTypeOK

(* What a complete structure consists of, and when an answer has one.      *)
WholeHeaders(n, i, K) == {Block(n, i, k, field) : k \in K, field \in {"key", "value"}}

WholeAd(n, i) ==
  LET headers == answer[n].ads[i].headers IN
  {Block(n, i, 0, "uniqueId")}
    \cup (IF headers = <<>> THEN {}
          ELSE {Block(n, i, 0, "headers")} \cup WholeHeaders(n, i, DOMAIN headers))

WholeArr(n, I) == {Block(n, 0, 0, "head")} \cup UNION {WholeAd(n, i) : i \in I}

WholePair(n) ==
  {Block(n, 0, 0, "name"), Block(n, 0, 0, "value")} \cup WholeArr(n, DOMAIN answer[n].ads)

Complete ==
  IF Several THEN {Block(0, 0, 0, "slots")} \cup UNION {WholePair(n) : n \in DOMAIN answer}
  ELSE WholeArr(0, DOMAIN answer[0].ads)

WellHeader(pair) == pair.object /\ pair.key = "text" /\ pair.value = "text"

WellAd(advertisement) ==
  /\ advertisement.typed /\ advertisement.uniqueId = "text"
  /\ \A k \in DOMAIN advertisement.headers : WellHeader(advertisement.headers[k])

WellAds(ads) == ads # <<>> /\ \A i \in DOMAIN ads : WellAd(ads[i])

WellSlot(part) == part.name = "text" /\ part.object /\ WellAds(part.ads)

WellFormed ==
  IF Several THEN answer # <<>> /\ \A n \in DOMAIN answer : WellSlot(answer[n])
  ELSE WellAds(answer[0].ads)

(* An answer is passed on to a CJ listener exactly if all of it is well     *)
(* formed and there was memory for all of it; then the structure is        *)
(* complete.  So one ad without a field, or with one empty text, hides the *)
(* others, and a map of arrays of ads is never passed on.                  *)
AcceptsExactly ==
  /\ at = "read" => WellFormed /\ ~short /\ live = Complete
  /\ at = "failed" => ~WellFormed \/ short

(* Whichever allocation or field fails first, and also if none does, no    *)
(* block outlives the answer: each level frees what it had allocated, and  *)
(* relies on the levels below to have freed theirs.                        *)
NothingLeaks == at \in {"idle", "failed", "told"} => live = {}

(* The provider finds each field a request gives, under its name, unless   *)
(* an extra attribute has that name; but a search keyword it finds in      *)
(* place of the ad's id, and of several slots the last, in no array.       *)
Overwritten(field) ==
  \E i \in DOMAIN request.extra : request.extra[i].key = field /\ request.extra[i].value

FieldArrives(field) ==
  LET read == JsonParse(json) IN
  field \in DOMAIN read /\ read[field] =
    IF Overwritten(field) THEN "extra"
    ELSE IF field = "adId" /\ "adSearchKeyword" \in request.given THEN "adSearchKeyword"
    ELSE field

RequestArrives ==
  at = "written" =>
    IF request.kind = "root" THEN JsonParse(json) = [key \in {Unnamed} |-> request.slots]
    ELSE \A field \in (Required(request.kind) \cup request.given) \ {"adSearchKeyword"} :
           FieldArrives(field)
=============================================================================
