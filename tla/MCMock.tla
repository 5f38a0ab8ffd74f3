------------------------------- MODULE MCMock -------------------------------
(***************************************************************************)
(* A mock used freely, of every kind and in every build, and the mock that *)
(* the test cases of MockedTests use: they differ in Init, and in who is   *)
(* next.  Two parameter lists, two result values.                          *)
(***************************************************************************)
EXTENDS MockedTests

CONSTANTS a1, a2, v1, v2

MCArgs == {a1, a2}
MCValues == {v1, v2}
MCKinds == AllKinds

Free == -1   \* no test case will run

MCInit ==
    \/ Init /\ case = Free /\ step = 1 /\ mock_assert = "none" /\ ran = <<>> /\ failed = {}
    \/ TestsInit

MCNext ==
    \/ case = Free /\ Next /\ UNCHANGED control
    \/ case # Free /\ TestsNext

MCSpec == MCInit /\ [][MCNext]_<<vars, control>>
=============================================================================
