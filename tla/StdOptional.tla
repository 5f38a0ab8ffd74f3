---------------------------- MODULE StdOptional ----------------------------
(***************************************************************************)
(* What std::optional promises of objects that are assigned, copied, moved *)
(* and written through: each is empty or holds a value.  jg_optional.h:7   *)
(* calls itself a drop-in replacement for it.                              *)
(***************************************************************************)
EXTENDS Sequences

CONSTANTS Objects, Values
VARIABLES
    holds,   \* per object: <<>> or <<value>>
    call     \* the latest call: its name and arguments

vars == <<holds, call>>

Init == holds = [o \in Objects |-> <<>>] /\ call = <<>>

Clear(o) == holds' = [holds EXCEPT ![o] = <<>>] /\ call' = <<"clear", o>>
Assign(o, v) == holds' = [holds EXCEPT ![o] = <<v>>] /\ call' = <<"assign", o, v>>
Copy(o, p) == holds' = [holds EXCEPT ![o] = holds[p]] /\ call' = <<"copy", o, p>>

(* The source of a move keeps its state; its value is unspecified.         *)
Move(o, p) ==
    /\ call' = <<"move", o, p>>
    /\ \/ holds[p] = <<>> /\ holds' = [holds EXCEPT ![o] = <<>>]
       \/ \E left \in Values :
            /\ holds[p] # <<>>
            /\ holds' = [[holds EXCEPT ![o] = holds[p]] EXCEPT ![p] = <<left>>]

(* A reference to the value is taken only where there is one.              *)
Modify(o, v) ==
    /\ holds[o] # <<>>
    /\ holds' = [holds EXCEPT ![o] = <<v>>] /\ call' = <<"modify", o, v>>

Next == \E o, p \in Objects, v \in Values :
    Clear(o) \/ Assign(o, v) \/ Copy(o, p) \/ Move(o, p) \/ Modify(o, v)

Spec == Init /\ [][Next]_vars
=============================================================================
