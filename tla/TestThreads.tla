---------------------------- MODULE TestThreads ----------------------------
(***************************************************************************)
(* Assertions of inc/jg_test.h made by threads that a test body starts,    *)
(* while test_run() goes on.  test_assert_prolog and test_assert_epilog    *)
(* take no lock: here they are cut wherever another thread can change what *)
(* they read.  TestRun has the same handlers for one thread and in full;   *)
(* this module keeps what threads can disturb: the pointers, the failure   *)
(* counters and the vector of records.  The counter that decides main()'s  *)
(* result is read and written in two steps; the case's counter, which only *)
(* chooses the headings, in one.                                           *)
(*                                                                         *)
(* A null pointer followed, a record pushed while another one is pushed,   *)
(* or back() of an empty vector is undefined behaviour: `undefined' is     *)
(* set, and nothing is said of what comes after.                           *)
(***************************************************************************)
EXTENDS Integers, FiniteSets, TwosComplement

CONSTANTS
    Main,        \* the thread that executes main() and test_run()
    Workers,     \* threads that test bodies start
    CaseCount,   \* the cases, 1 .. CaseCount, all in one suite
    NULL,        \* the null pointer, and "no case"
    INT_MAX,     \* the largest int; size_t counters are taken as unbounded
    Programs,    \* how test code is written: a subset of AllPrograms
    MaxAsserts   \* bound: assertions made by one thread

ASSUME ThreadsAssumption ==
    /\ Main \notin Workers /\ IsFiniteSet(Workers)
    /\ CaseCount \in Nat /\ NULL \notin Nat
    /\ Programs \subseteq [joined : BOOLEAN, locked : BOOLEAN]
    /\ INT_MAX \in Nat /\ MaxAsserts \in Nat

(* joined: test bodies join their threads before they end; locked: test    *)
(* code makes its assertions under a lock of its own.                      *)
AllPrograms == [joined : BOOLEAN, locked : BOOLEAN]
Joining == {p \in AllPrograms : p.joined}

Cases == 1..CaseCount
Threads == {Main} \cup Workers

VARIABLES
    program,         \* one of Programs
    pc,              \* test_run(): "before", "cases", "body", "summary", "after"
    entered,         \* cases entered so far
    current_state,   \* whether the static test_state* is set
    current_suite,   \* whether test_state::current_suite is set
    current_case,    \* test_state::current_case
    step,            \* per thread: where its assertion stands
    holds,           \* per thread: the value of the asserted expression
    home,            \* per thread: the case whose body started it
    tmp,             \* per thread: the total it has read and not yet written
    made,            \* per thread: assertions begun
    records,         \* per case: size of test_case::assertions
    fail_count,      \* per case: test_case::assertion_fail_count
    total,           \* test_metrics::assertion_fail_count
    failures,        \* history: per case, assertions of its threads that failed
    ended,           \* how test_run() ended, if it has, and what it returned
    undefined        \* undefined behaviour has happened

runner == <<program, pc, entered, current_state, current_suite, current_case, ended>>
books == <<records, fail_count, total, failures>>
vars == <<runner, step, holds, home, tmp, made, books, undefined>>

NotEnded == [how |-> "not", value |-> 0]

Init ==
    /\ program \in Programs
    /\ pc = "before" /\ entered = 0 /\ ended = NotEnded
    /\ current_state = FALSE /\ current_suite = FALSE /\ current_case = NULL
    /\ step = [t \in Threads |-> IF t = Main THEN "ready" ELSE "off"]
    /\ holds = [t \in Threads |-> TRUE]
    /\ home = [t \in Threads |-> NULL]
    /\ tmp = [t \in Threads |-> 0]
    /\ made = [t \in Threads |-> 0]
    /\ records = [c \in Cases |-> 0]
    /\ fail_count = [c \in Cases |-> 0]
    /\ total = 0
    /\ failures = [c \in Cases |-> 0]
    /\ undefined = FALSE

-----------------------------------------------------------------------------
(* test_run(), on the main thread; between assertions of its own           *)

Runs(at) == pc = at /\ step[Main] = "ready"
OnlyRunner == UNCHANGED <<holds, tmp, made, books, undefined>>

RunBegin ==
    /\ Runs("before") /\ pc' = "cases"
    /\ current_state' = TRUE /\ current_suite' = TRUE
    /\ UNCHANGED <<program, entered, current_case, ended, step, home>> /\ OnlyRunner

SameCase == current_case  \* mutant: no scope for the current case
FirstCase == 1            \* mutant: the scope takes the address of cases[0]
NextCase == entered + 1

EnterCase ==
    /\ Runs("cases") /\ entered < CaseCount /\ pc' = "body"
    /\ entered' = entered + 1
    /\ current_case' = NextCase
    /\ home' = [home EXCEPT ![Main] = entered + 1]
    /\ UNCHANGED <<program, current_state, current_suite, ended, step>> /\ OnlyRunner

(* The test body starts a thread, or a thread it started ends.             *)
ThreadStarts(t) ==
    /\ Runs("body") /\ step[t] = "off"
    /\ step' = [step EXCEPT ![t] = "ready"]
    /\ home' = [home EXCEPT ![t] = entered]
    /\ UNCHANGED runner /\ OnlyRunner

ThreadEnds(t) ==
    /\ t # Main /\ step[t] = "ready"
    /\ step' = [step EXCEPT ![t] = "done"]
    /\ UNCHANGED <<runner, home>> /\ OnlyRunner

BodyMayEnd ==
    Runs("body") /\ (program.joined => \A t \in Workers : step[t] \in {"off", "done"})

LeaveCase ==
    /\ BodyMayEnd /\ pc' = "cases"
    /\ current_case' = NULL
    /\ home' = [home EXCEPT ![Main] = NULL]
    /\ UNCHANGED <<program, entered, current_state, current_suite, ended, step>> /\ OnlyRunner

(* The end of the suite's scope; the summary; the end of the run's scope.  *)
LeaveSuite ==
    /\ Runs("cases") /\ entered = CaseCount /\ pc' = "summary"
    /\ current_suite' = FALSE
    /\ UNCHANGED <<program, entered, current_state, current_case, ended, step, home>> /\ OnlyRunner

(* static_cast<int>(state.metrics.assertion_fail_count)                    *)
ReturnValue == ToSigned(total, INT_MAX)

RunReturn ==
    /\ Runs("summary") /\ pc' = "after"
    /\ current_state' = FALSE
    /\ ended' = [how |-> "returned", value |-> ReturnValue]
    /\ UNCHANGED <<program, entered, current_suite, current_case, step, home>> /\ OnlyRunner

(* The body throws: the four scopes end on the way out.                    *)
RunThrows ==
    /\ BodyMayEnd /\ pc' = "after"
    /\ current_state' = FALSE /\ current_suite' = FALSE /\ current_case' = NULL
    /\ ended' = [how |-> "threw", value |-> 0]
    /\ home' = [home EXCEPT ![Main] = NULL]
    /\ UNCHANGED <<program, entered, step>> /\ OnlyRunner

-----------------------------------------------------------------------------
(* An assertion, on any thread                                             *)

InAssertion(t) == step[t] \notin {"off", "ready", "done"}
Goes(t, to) == step' = [step EXCEPT ![t] = to]
Afterwards(t) == IF holds'[t] THEN "ready" ELSE "epilog"

(* test_assert_prolog, its test: without a test_state, a runaway line.     *)
AssertBegins(t) ==
    /\ step[t] = "ready" /\ made[t] < MaxAsserts
    /\ t = Main => pc \in {"before", "body", "after"}
    /\ program.locked => \A u \in Threads : ~InAssertion(u)
    /\ \E value \in BOOLEAN : holds' = [holds EXCEPT ![t] = value]
    /\ made' = [made EXCEPT ![t] = @ + 1]
    /\ Goes(t, IF current_state THEN "push" ELSE Afterwards(t))
    /\ UNCHANGED <<runner, home, tmp, books, undefined>>

(* current_case->assertions.push_back(...), which takes its time.          *)
PushBegins(t) ==
    /\ step[t] = "push"
    /\ undefined' = (~current_state \/ current_case = NULL
                     \/ \E u \in Threads : step[u] = "pushing")
    /\ records' = IF undefined' THEN records
                  ELSE [records EXCEPT ![current_case] = @ + 1]
    /\ Goes(t, "pushing")
    /\ UNCHANGED <<runner, holds, home, tmp, made, fail_count, total, failures>>

PushEnds(t) ==
    /\ step[t] = "pushing"
    /\ step' = [step EXCEPT ![t] = IF holds[t] THEN "ready" ELSE "epilog"]
    /\ UNCHANGED <<runner, holds, home, tmp, made, books, undefined>>

(* test_assert_epilog, its test of current_state().                        *)
StateIsSet == current_state

EpilogTests(t) ==
    /\ step[t] = "epilog"
    /\ Goes(t, IF StateIsSet THEN "blame" ELSE "ready")
    /\ UNCHANGED <<runner, holds, home, tmp, made, books, undefined>>

(* The headers, back().succeeded and the case's counter.                   *)
EpilogBlames(t) ==
    /\ step[t] = "blame"
    /\ undefined' = (~current_state \/ ~current_suite \/ current_case = NULL
                     \/ (current_case # NULL /\ records[current_case] = 0)
                     \/ \E u \in Threads : step[u] = "pushing")
    /\ fail_count' = IF undefined' THEN fail_count
                     ELSE [fail_count EXCEPT ![current_case] = @ + 1]
    /\ failures' = IF home[t] = NULL THEN failures
                   ELSE [failures EXCEPT ![home[t]] = @ + 1]
    /\ Goes(t, "read")
    /\ UNCHANGED <<runner, holds, home, tmp, made, records, total>>

(* metrics.assertion_fail_count++: a read and a write.                     *)
EpilogReads(t) ==
    /\ step[t] = "read"
    /\ undefined' = ~current_state
    /\ tmp' = [tmp EXCEPT ![t] = total]
    /\ Goes(t, "write")
    /\ UNCHANGED <<runner, holds, home, made, books>>

Rewritten(t) == tmp[t]  \* mutant: x = x++
Incremented(t) == tmp[t] + 1

EpilogWrites(t) ==
    /\ step[t] = "write"
    /\ undefined' = ~current_state
    /\ total' = Incremented(t)
    /\ Goes(t, "ready")
    /\ UNCHANGED <<runner, holds, home, tmp, made, records, fail_count, failures>>

Assertion(t) ==
    \/ AssertBegins(t) \/ PushBegins(t) \/ PushEnds(t)
    \/ EpilogTests(t) \/ EpilogBlames(t) \/ EpilogReads(t) \/ EpilogWrites(t)

Next ==
    /\ ~undefined
    /\ \/ RunBegin \/ EnterCase \/ LeaveCase \/ LeaveSuite \/ RunReturn \/ RunThrows
       \/ \E t \in Workers : ThreadStarts(t) \/ ThreadEnds(t)
       \/ \E t \in Threads : Assertion(t)

Spec == Init /\ [][Next]_vars
-----------------------------------------------------------------------------
(* Properties                                                              *)

(* Threads that are joined by the body that started them, and asserts under *)
(* one lock, are enough: no pointer of the test state that is null is      *)
(* followed, and no two push_back on a vector of records overlap.          *)
Careful == program.joined /\ program.locked
NoUndefinedUse == Careful => ~undefined

(* A failure is charged to the case whose body started the thread that     *)
(* made the assertion, although it is charged through the pointer to the   *)
(* case that happens to be current.                                        *)
ChargedToHome == Careful => fail_count = failures

(* The failures of all cases, numbered within each.                        *)
FailedAssertions == UNION {{c} \X (1 .. failures[c]) : c \in Cases}
AllFailures == Cardinality(FailedAssertions)

(* Between two assertions the metrics count each failure once, and what    *)
(* test_run() returns is that count, as long as an int can be, and         *)
(* congruent to it beyond: no increment of two threads is lost.            *)
Returned == ended.how = "returned"
ReturnCountsFailures == Careful =>
    /\ (\A t \in Threads : ~InAssertion(t)) => total = AllFailures
    /\ Returned => /\ ended.value % Modulus(INT_MAX) = AllFailures % Modulus(INT_MAX)
                   /\ AllFailures <= INT_MAX => ended.value = AllFailures

(* Without a lock increments are lost, never all of them, and none is      *)
(* gained: as long as the behaviour is defined, main() returns 0 only if   *)
(* no assertion of a case failed, or so many that int may have wrapped     *)
(* around, and otherwise no more than have failed.                         *)
ZeroMeansClean ==
    Returned /\ program.joined /\ ~undefined =>
       /\ AllFailures <= INT_MAX => ended.value \in 0 .. AllFailures
       /\ ended.value = 0 => AllFailures = 0 \/ AllFailures >= Modulus(INT_MAX)

(* jg_test.h:158-160: an assertion outside of test cases is detected by the *)
(* unset current state, and logged.  Between two cases it is not: the      *)
(* state is set, and the assertion goes on to the null current_case.       *)
RunawayIsLogged ==
    [][\A t \in Threads :
         AssertBegins(t) /\ current_case = NULL => step'[t] # "push"]_vars
=============================================================================
