---------------------------- MODULE MockedTests ----------------------------
(***************************************************************************)
(* The test cases of tests/mock_tests.cpp on the free function it mocks,   *)
(* lines 40 to 105, run one after another on one Mock: its auxiliary data  *)
(* is a global.  test_run() takes the cases in the file's order; here in   *)
(* any order, each as often as it likes, as after a second test_run(), a   *)
(* case moved or one left out.                                             *)
(***************************************************************************)
EXTENDS Mock

CONSTANT MaxCases  \* bound: cases run

ASSUME MockedTestsAssumption == MaxCases \in Nat

(* bool is left as it was by a move; the tests are built with a            *)
(* JG_VERIFY_ASSERTION that returns, and without ..._NOT_IMPLEMENTED.      *)
TestsKinds == {[returns |-> "scalar", throws |-> FALSE, stops |-> FALSE]}

VARIABLES
    case, step,     \* the case running, or 0, and where it stands
    mock_assert,    \* param<1>() of the mock that is JG_VERIFY_ASSERTION:
                    \* "true" or "false", or "none" after its reset()
    ran,            \* history: the cases begun, in order
    failed          \* history: indices in ran of those with a failed assertion

control == <<case, step, mock_assert, ran, failed>>

(* Lines of assertions that look at the same state are one step.           *)
Body == <<
    <<"reset_assert", "reset", "call", "unset">>,
    <<"reset", "empty", "no_result", "no_func">>,
    <<"reset", "result", "func", "call_true", "reset", "empty", "kept">>,
    <<"reset", "result", "call_true", "call_true", "call_true", "three">>,
    <<"reset", "func", "call_true", "call_true", "call_true", "three">> >>

Op == Body[case][step]

TestsInit ==
    /\ Init /\ ~m_stub   \* JG_MOCK_REF_EX
    /\ kind \in TestsKinds
    /\ case = 0 /\ step = 1 /\ mock_assert = "none" /\ ran = <<>> /\ failed = {}

BeginCase(c) ==
    /\ case = 0 /\ Len(ran) < MaxCases
    /\ case' = c /\ step' = 1 /\ ran' = Append(ran, c)
    /\ UNCHANGED <<vars, mock_assert, failed>>

Goes ==
    IF step = Len(Body[case]) THEN case' = 0 /\ step' = 1
    ELSE case' = case /\ step' = step + 1

Verified == IF assigned THEN "true" ELSE "false"
Asserts(condition) ==
    failed' = IF condition THEN failed ELSE failed \cup {Len(ran)}

(* What is set, and mock_assert_.reset().                                  *)
Configure ==
    /\ \/ Op = "reset" /\ Reset /\ UNCHANGED mock_assert
       \/ Op = "result" /\ (\E v \in Values : SetResult(v)) /\ UNCHANGED mock_assert
       \/ Op = "func" /\ SetFunc(TRUE) /\ UNCHANGED mock_assert
       \/ Op = "reset_assert" /\ mock_assert' = "none" /\ UNCHANGED vars
    /\ Goes /\ UNCHANGED <<ran, failed>>

(* A call: verify() calls mock_assert with its condition, also a true one. *)
Call ==
    /\ Op \in {"call", "call_true"}
    /\ \E p \in Args :
         \/ CallRuns(p) /\ UNCHANGED control
         \/ /\ CallReturnsResult(p) /\ mock_assert' = Verified
            /\ Asserts(Op = "call_true" => result \in Values)
            /\ Goes /\ UNCHANGED ran

(* func returns true.                                                      *)
CallReturns ==
    /\ CallableEnds("returned")
    /\ Goes /\ UNCHANGED <<mock_assert, ran, failed>>

(* jg_test_assert on what the mock holds; reading result verifies too.     *)
Look ==
    /\ \/ Op = "unset" /\ Asserts(m_count > 0 /\ mock_assert = "false")
       \/ Op = "empty" /\ Asserts(m_count = 0 /\ params = NoArgs)
       \/ Op = "no_func" /\ Asserts(~func)
       \/ Op = "three" /\ Asserts(m_count = 3 /\ params \in Args)
    /\ Goes /\ UNCHANGED <<vars, mock_assert, ran>>

LookAtResult ==
    /\ Op \in {"no_result", "kept"} /\ ReadResult
    /\ mock_assert' = Verified
    /\ Asserts(IF Op = "kept" THEN result \in Values /\ func ELSE result = DEFAULT)
    /\ Goes /\ UNCHANGED ran

TestsNext ==
    \/ \E c \in DOMAIN Body : BeginCase(c)
    \/ case # 0 /\ \/ frames = <<>> /\ (Configure \/ Call \/ Look \/ LookAtResult)
                   \/ CallReturns

TestsSpec == TestsInit /\ [][TestsNext]_<<vars, control>>

-----------------------------------------------------------------------------
(* Properties                                                              *)

(* jg_mock.h:597-599: data of a global mock "must be reset() in each test  *)
(* case".  reset() is enough for cases that set what they use; the first   *)
(* two, which expect nothing to be set, pass in the file's order.  They    *)
(* fail exactly after a case that sets result or func, which outlive       *)
(* reset(), however many cases are in between.                             *)
OrderMattersToFirstTwo ==
    \A i \in 1..Len(ran) : i < Len(ran) \/ case = 0 =>
        (i \in failed <=> /\ ran[i] \in {1, 2}
                          /\ \E j \in 1..(i - 1) : ran[j] \in {3, 4, 5})
=============================================================================
