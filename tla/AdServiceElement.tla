-------------------------- MODULE AdServiceElement --------------------------
(***************************************************************************)
(* The name of the provider's services, and what reading a configuration   *)
(* file does to it: AdServiceElementName, AdLoadService::IsConfigEmpty and *)
(* the assignments of AdLoadService::GetConfigItem.                        *)
(***************************************************************************)
CONSTANT ServiceName   \* non-empty names of bundles and abilities

(* What a file may hold under a key besides an array whose first item is a *)
(* name: the key is missing or its value is no array (Unusable: the whole  *)
(* file is then ignored, which also stands for a file that is absent or is *)
(* not JSON), or the array's first item is not a string, or it is the      *)
(* empty string, NoName, which is assigned like any other.                 *)
NoName    == "empty"
Unusable  == "unusable"
NotString == "notString"

ASSUME ServiceNameAssumption == ServiceName \cap {NoName, Unusable, NotString} = {}

(* bundle: providerBundleName; ext: providerAbilityName, the service that  *)
(* loads ads; api: providerApiAbilityName, the one that builds request     *)
(* bodies.                                                                 *)
Fields  == {"bundle", "ext", "api"}
Element == [Fields -> ServiceName \cup {NoName}]
File    == [Fields -> ServiceName \cup {NoName, Unusable, NotString}]

NoElement == [f \in Fields |-> NoName]

(* Fault: only one of the names is looked at.                              *)
IsConfigEmpty_BundleOnly(e) == e["bundle"] = NoName

IsConfigEmpty(e) == \E f \in Fields : e[f] = NoName

Usable(contents) == \A f \in Fields : contents[f] # Unusable

(* The element e after GetConfigItem has parsed a file's contents.         *)
Parsed(contents, e) ==
  IF Usable(contents)
  THEN [f \in Fields |-> IF contents[f] = NotString THEN e[f] ELSE contents[f]]
  ELSE e
=============================================================================
