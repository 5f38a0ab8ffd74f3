----------------------------- MODULE CallLedger -----------------------------
(***************************************************************************)
(* What count() of a mock promises a test, whichever kind of mock it is:   *)
(* the number of calls since the last reset(), give or take those still in *)
(* progress. A call in progress may be counted already or not yet, and one *)
(* that was in progress at the reset() may be counted after it or not.     *)
(*                                                                         *)
(* inc/jg_mock.h keeps the promise in two ways: mock_impl counts a call    *)
(* when it ends (Mock), mock_simple_aux when it begins (MockSimple).       *)
(***************************************************************************)
EXTENDS Naturals

VARIABLES
    open,     \* calls in progress
    begun,    \* calls begun since the last reset
    carried,  \* calls that were in progress at the last reset
    count     \* what count() returns

Init == open = 0 /\ begun = 0 /\ carried = 0 /\ count = 0

(* The counts a test may see.                                              *)
Fair(n) == n <= begun + carried /\ n + open >= begun

(* A call begins: counted at once or not.                                  *)
Begin ==
    /\ open' = open + 1
    /\ begun' = begun + 1
    /\ carried' = carried
    /\ count' \in {count, count + 1}
    /\ Fair(count)'

(* A call ends, by returning or by throwing: counted now or earlier.       *)
End ==
    /\ open > 0
    /\ open' = open - 1
    /\ UNCHANGED <<begun, carried>>
    /\ count' \in {count, count + 1}
    /\ Fair(count)'

(* A call that runs no code of the test begins and ends in one step.       *)
Call ==
    /\ begun' = begun + 1
    /\ count' = count + 1
    /\ UNCHANGED <<open, carried>>

Reset ==
    /\ begun' = 0
    /\ carried' = open
    /\ count' = 0
    /\ UNCHANGED open

vars == <<open, begun, carried, count>>
Next == Begin \/ End \/ Call \/ Reset
Spec == Init /\ [][Next]_vars
=============================================================================
