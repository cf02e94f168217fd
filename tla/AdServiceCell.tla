---------------------------- MODULE AdServiceCell ----------------------------
(***************************************************************************)
(* What AdLoadPipeline takes for granted of the shared service element:    *)
(* that reading the configuration is one step and copying the element is   *)
(* another, whatever the worker threads do.                                *)
(***************************************************************************)
EXTENDS AdServiceElement

CONSTANTS
  Thread,      \* worker threads, one for each request
  ConfigFile   \* contents the configuration file may have

VARIABLES
  file,      \* contents of the configuration file
  element,   \* adServiceElementName_
  copy       \* [Thread -> SUBSET Element], the copy a thread made, if any

vars == <<file, element, copy>>

Init ==
  /\ file \in ConfigFile
  /\ element = NoElement
  /\ copy    = [t \in Thread |-> {}]

ReplaceFile ==
  /\ file' \in ConfigFile
  /\ UNCHANGED <<element, copy>>

Read ==
  /\ element' = Parsed(file, element)
  /\ UNCHANGED <<file, copy>>

Copy(t) ==
  /\ copy[t] = {}
  /\ copy' = [copy EXCEPT ![t] = {element}]
  /\ UNCHANGED <<file, element>>

Next == ReplaceFile \/ Read \/ \E t \in Thread : Copy(t)

Spec == Init /\ [][Next]_vars
=============================================================================
