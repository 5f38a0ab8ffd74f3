------------------------------ MODULE TestRun ------------------------------
(***************************************************************************)
(* The test runner of inc/jg_test.h: the registry that test_adder fills    *)
(* before main(), the three nested loops of test_run(), the pointers that  *)
(* its state_scope_value objects set and clear, and the bookkeeping that   *)
(* jg_test_assert and jg_test_assert_exception do from inside a test case. *)
(*                                                                         *)
(* A test body is user code: here it makes any sequence of assertions,     *)
(* nests exception assertions, and ends by returning or by throwing.       *)
(* Everything happens on one thread.                                       *)
(***************************************************************************)
EXTENDS Integers, Sequences, FiniteSets, TwosComplement

CONSTANTS
    SetIds,      \* the test_suite_set objects, one per global test_adder
    SuiteIds,    \* the test_suite objects
    CaseIds,     \* the test_case objects
    SuitesOf,    \* SuitesOf[s]: the vector of suites of set s
    CasesOf,     \* CasesOf[u]: the vector of cases of suite u
    NULL,        \* the null pointer
    INT_MAX,     \* the largest int; size_t counters are taken as unbounded
    MaxAsserts,  \* bound: assertions made during one test_run()
    MaxDepth,    \* bound: exception assertions open at the same time
    MaxRuns,     \* bound: calls of test_run() by main()
    MaxRunaways  \* bound: assertions made while no test_run() is active

CasesIn(u) == {CasesOf[u][i] : i \in DOMAIN CasesOf[u]}

(***************************************************************************)
(* The vectors own their elements: a suite belongs to one place of one     *)
(* set, a case to one place of one suite.                                  *)
(***************************************************************************)
ASSUME LayoutAssumption ==
    /\ IsFiniteSet(CaseIds)
    /\ NULL \notin SetIds \cup SuiteIds \cup CaseIds
    /\ SuitesOf \in [SetIds -> Seq(SuiteIds)]
    /\ CasesOf \in [SuiteIds -> Seq(CaseIds)]
    /\ \A u, v \in SuiteIds : \A i \in DOMAIN CasesOf[u], j \in DOMAIN CasesOf[v] :
          CasesOf[u][i] = CasesOf[v][j] => u = v /\ i = j
    /\ \A s, t \in SetIds : \A i \in DOMAIN SuitesOf[s], j \in DOMAIN SuitesOf[t] :
          SuitesOf[s][i] = SuitesOf[t][j] => s = t /\ i = j

ASSUME BoundsAssumption ==
    /\ INT_MAX \in Nat
    /\ MaxAsserts \in Nat
    /\ MaxDepth \in Nat
    /\ MaxRuns \in Nat
    /\ MaxRunaways \in Nat

VARIABLES
    suite_sets,            \* suite_sets(): the registered sets, in order
    runs,                  \* calls of test_run() so far
    pc,                    \* where test_run() stands, "idle" when not active
    pos,                   \* the positions of its three range-for loops
    current_state,         \* the static test_state*: 0, or the run it points at
    cur,                   \* test_state::current_set, _suite and _case
    metrics,               \* test_state::metrics
    assertions,            \* test_case::assertions, each entry its succeeded flag
    assertion_fail_count,  \* test_case::assertion_fail_count
    case_fail_count,       \* test_suite::case_fail_count
    frames,                \* open exception assertions: the entry of each
    suite_headers,         \* "Failed test suite" lines printed, per suite
    case_headers,          \* "Failed test case" lines printed, per case
    heading,               \* the case named by the last such line of this run
    runaways,              \* "Runaway test assertion" lines printed
    stray_failures,        \* history: assertions that failed outside every run
    ended,                 \* how the last run ended, what it returned and printed
    actual,                \* history: what each assertion really found
    ran,                   \* history: cases entered by this run, in order
    start                  \* history: assertion_fail_count when this run began

registry == <<suite_sets, runs>>
control == <<pc, pos, current_state, cur>>
objects == <<assertions, assertion_fail_count, case_fail_count>>
headers == <<suite_headers, case_headers, heading>>
strays == <<runaways, stray_failures>>
history == <<actual, ran, start>>
vars == <<registry, control, metrics, objects, frames, headers, strays, ended,
          history>>

NoMetrics == [suite_count |-> 0, case_count |-> 0, assertion_count |-> 0,
              case_fail_count |-> 0, assertion_fail_count |-> 0]
NoPointers == [set |-> NULL, suite |-> NULL, case |-> NULL]
LoopStart == [set |-> 0, suite |-> 0, case |-> 0]

Init ==
    /\ suite_sets = <<>>
    /\ runs = 0
    /\ pc = "idle"
    /\ pos = LoopStart
    /\ current_state = 0
    /\ cur = NoPointers
    /\ metrics = NoMetrics
    /\ assertions = [c \in CaseIds |-> <<>>]
    /\ assertion_fail_count = [c \in CaseIds |-> 0]
    /\ case_fail_count = [u \in SuiteIds |-> 0]
    /\ frames = <<>>
    /\ suite_headers = [u \in SuiteIds |-> 0]
    /\ case_headers = [c \in CaseIds |-> 0]
    /\ heading = NULL
    /\ runaways = 0
    /\ stray_failures = 0
    /\ ended = [how |-> "never", value |-> 0, verdict |-> "none"]
    /\ actual = [c \in CaseIds |-> <<>>]
    /\ ran = <<>>
    /\ start = [c \in CaseIds |-> 0]

-----------------------------------------------------------------------------
(* Registration and the loops of test_run()                                *)

(***************************************************************************)
(* test_add(), called by the constructor of a global test_adder: each      *)
(* registers its set once, in an order the linker decides.                 *)
(***************************************************************************)
TestAdd(s) ==
    /\ pc = "idle" /\ runs = 0
    /\ \A i \in DOMAIN suite_sets : suite_sets[i] # s
    /\ suite_sets' = Append(suite_sets, s)
    /\ UNCHANGED <<runs, control, metrics, objects, frames, headers, strays,
                   ended, history>>

(* test_run() up to its outer loop: a fresh test_state, published by       *)
(* test_state_scope.  Its output begins: no header stands in it yet.       *)
RunBegin ==
    /\ pc = "idle" /\ runs < MaxRuns
    /\ runs' = runs + 1
    /\ current_state' = runs + 1
    /\ metrics' = NoMetrics
    /\ cur' = NoPointers
    /\ pos' = LoopStart
    /\ pc' = "sets"
    /\ ran' = <<>>
    /\ start' = assertion_fail_count
    /\ heading' = NULL
    /\ UNCHANGED <<suite_sets, objects, frames, suite_headers, case_headers,
                   strays, ended, actual>>

(* The next set, the next suite: the loops inside begin at their start.    *)
NextSetOnly(p) == [p EXCEPT !.set = @ + 1]  \* mutant: inner loops not restarted
NextSet(p) == [set |-> p.set + 1, suite |-> 0, case |-> 0]
NextSuite(p) == [set |-> p.set, suite |-> p.suite + 1, case |-> 0]

EnterSet ==
    /\ pc = "sets" /\ pos.set < Len(suite_sets)
    /\ LET s == suite_sets[pos.set + 1] IN
         /\ metrics' = [metrics EXCEPT !.suite_count = @ + Len(SuitesOf[s])]
         /\ cur' = [cur EXCEPT !.set = s]
    /\ pos' = NextSet(pos)
    /\ pc' = "suites"
    /\ UNCHANGED <<registry, current_state, objects, frames, headers, strays,
                   ended, history>>

EnterSuite ==
    /\ pc = "suites" /\ pos.suite < Len(SuitesOf[cur.set])
    /\ LET u == SuitesOf[cur.set][pos.suite + 1] IN
         /\ metrics' = [metrics EXCEPT !.case_count = @ + Len(CasesOf[u])]
         /\ cur' = [cur EXCEPT !.suite = u]
    /\ pos' = NextSuite(pos)
    /\ pc' = "cases"
    /\ UNCHANGED <<registry, current_state, objects, frames, headers, strays,
                   ended, history>>

(* test_case_scope, then the call of test.func().                          *)
EnterCase ==
    /\ pc = "cases" /\ pos.case < Len(CasesOf[cur.suite])
    /\ LET c == CasesOf[cur.suite][pos.case + 1] IN
         /\ cur' = [cur EXCEPT !.case = c]
         /\ ran' = Append(ran, c)
    /\ pos' = [pos EXCEPT !.case = @ + 1]
    /\ pc' = "body"
    /\ UNCHANGED <<registry, current_state, metrics, objects, frames, headers,
                   strays, ended, actual, start>>

(* if (test.assertion_fail_count > 0)                                      *)
AnyFailed == metrics.assertion_fail_count > 0  \* mutant: the run's counter
CaseFailed == assertion_fail_count[cur.case] > 0

(* test.func() returns; the case is counted, then test_case_scope ends.    *)
LeaveCase ==
    /\ pc = "body" /\ frames = <<>>
    /\ metrics' = IF CaseFailed
                  THEN [metrics EXCEPT !.case_fail_count = @ + 1]
                  ELSE metrics
    /\ cur' = [cur EXCEPT !.case = NULL]
    /\ pc' = "cases"
    /\ UNCHANGED <<registry, pos, current_state, objects, frames, headers,
                   strays, ended, history>>

CasesOverrun == pos.case = Len(CasesOf[cur.suite]) + 1  \* mutant: off by one
CasesDone == pos.case = Len(CasesOf[cur.suite])

LeaveSuite ==
    /\ pc = "cases" /\ CasesDone
    /\ cur' = [cur EXCEPT !.suite = NULL]
    /\ pc' = "suites"
    /\ UNCHANGED <<registry, pos, current_state, metrics, objects, frames,
                   headers, strays, ended, history>>

LeaveSet ==
    /\ pc = "suites" /\ pos.suite = Len(SuitesOf[cur.set])
    /\ cur' = [cur EXCEPT !.set = NULL]
    /\ pc' = "sets"
    /\ UNCHANGED <<registry, pos, current_state, metrics, objects, frames,
                   headers, strays, ended, history>>

(* The line test_run() prints about the whole run.                         *)
Verdict ==
    IF metrics.case_count = 0 THEN "no_test_cases"
    ELSE IF metrics.assertion_fail_count > 0 THEN "none"
    ELSE "all_succeeded"

(* static_cast<int>(state.metrics.assertion_fail_count)                    *)
FailedCases == ToSigned(metrics.case_fail_count, INT_MAX)  \* mutant: the wrong metric
ReturnValue == ToSigned(metrics.assertion_fail_count, INT_MAX)

(* The summary, the return value, and the end of test_state_scope.         *)
RunReturn ==
    /\ pc = "sets" /\ pos.set = Len(suite_sets)
    /\ ended' = [how |-> "returned", value |-> ReturnValue, verdict |-> Verdict]
    /\ current_state' = 0
    /\ pc' = "idle"
    /\ UNCHANGED <<registry, pos, cur, metrics, objects, frames, headers,
                   strays, history>>

(* The destructors of the state_scope_value objects that are open.         *)
StateScopeOpen == cur' = NoPointers /\ UNCHANGED current_state  \* mutant: not reset
ScopesEnd == cur' = NoPointers /\ current_state' = 0

(***************************************************************************)
(* The body of a test case throws outside every exception assertion: the   *)
(* exception leaves test.func() and test_run(), the destructors of the     *)
(* four scopes run on the way, nothing is counted, printed or returned.    *)
(* Its caller, which here goes on, must have caught it.                    *)
(***************************************************************************)
RunThrows ==
    /\ pc = "body" /\ frames = <<>>
    /\ ended' = [how |-> "threw", value |-> 0, verdict |-> "none"]
    /\ ScopesEnd
    /\ pc' = "idle"
    /\ UNCHANGED <<registry, pos, metrics, objects, frames, headers, strays,
                   history>>

-----------------------------------------------------------------------------
(* Assertions made by the body of the running case                         *)

(* test_assert_prolog: one more entry, taken to have succeeded.            *)
Counted(m) == [m EXCEPT !.assertion_count = @ + 1]
PushedUnset(entries) == Append(entries, FALSE)  \* mutant: bool succeeded{}
Pushed(entries) == Append(entries, TRUE)

(* test_assert_epilog: assertions.back().succeeded = false.                *)
FailCounted(m) == [m EXCEPT !.assertion_fail_count = @ + 1]
BackFailed(entries) == [entries EXCEPT ![Len(entries)] = FALSE]

(* The tests that guard the two header lines of test_assert_epilog.        *)
FirstOfRun(u) == metrics.case_fail_count = 0  \* mutant: the run's counter
FirstOfSuite(u) == case_fail_count[u] = 0

EachFailure(c) == TRUE  \* mutant: the guard dropped
WithSuite(c) == FirstOfSuite(cur.suite)  \* mutant: the suite's guard for the case
FirstOfCase(c) == assertion_fail_count[c] = 0

(* test_assert_epilog: headers and counters of the current suite and case. *)
CountFailure ==
    LET c == cur.case
        u == cur.suite
    IN  /\ suite_headers' = IF FirstOfSuite(u)
                            THEN [suite_headers EXCEPT ![u] = @ + 1]
                            ELSE suite_headers
        /\ case_fail_count' = IF FirstOfCase(c)
                              THEN [case_fail_count EXCEPT ![u] = @ + 1]
                              ELSE case_fail_count
        /\ case_headers' = IF FirstOfCase(c)
                           THEN [case_headers EXCEPT ![c] = @ + 1]
                           ELSE case_headers
        /\ heading' = IF FirstOfCase(c) THEN c ELSE heading
        /\ assertion_fail_count' = [assertion_fail_count EXCEPT ![c] = @ + 1]

InBody == pc = "body" /\ current_state # 0
MayAssert == InBody /\ metrics.assertion_count < MaxAsserts

(* test_assert_impl with an expression that is true: the prolog only.      *)
AssertHolds ==
    /\ MayAssert
    /\ metrics' = Counted(metrics)
    /\ assertions' = [assertions EXCEPT ![cur.case] = Pushed(@)]
    /\ actual' = [actual EXCEPT ![cur.case] = Append(@, TRUE)]
    /\ UNCHANGED <<registry, control, assertion_fail_count, case_fail_count,
                   frames, headers, strays, ended, ran, start>>

(* test_assert_impl with an expression that is false: prolog and epilog.   *)
AssertFails ==
    /\ MayAssert
    /\ metrics' = FailCounted(Counted(metrics))
    /\ assertions' = [assertions EXCEPT ![cur.case] = BackFailed(Pushed(@))]
    /\ actual' = [actual EXCEPT ![cur.case] = Append(@, FALSE)]
    /\ CountFailure
    /\ UNCHANGED <<registry, control, frames, strays, ended, ran, start>>

(* test_assert_exception_impl up to the call of expr_func(), which may     *)
(* itself assert before it returns or throws.                              *)
ExpectBegin ==
    /\ MayAssert /\ Len(frames) < MaxDepth
    /\ metrics' = Counted(metrics)
    /\ assertions' = [assertions EXCEPT ![cur.case] = Pushed(@)]
    /\ actual' = [actual EXCEPT ![cur.case] = Append(@, TRUE)]
    /\ frames' = Append(frames, Len(assertions[cur.case]) + 1)
    /\ UNCHANGED <<registry, control, assertion_fail_count, case_fail_count,
                   headers, strays, ended, ran, start>>

InnermostClosed == SubSeq(frames, 1, Len(frames) - 1)

(* expr_func() threw the expected exception type.                          *)
ExpectHolds ==
    /\ InBody /\ frames # <<>>
    /\ frames' = InnermostClosed
    /\ UNCHANGED <<registry, control, metrics, objects, headers, strays, ended,
                   history>>

(* expr_func() returned, or threw something else: catch(...), then epilog. *)
ExpectFails ==
    /\ InBody /\ frames # <<>>
    /\ frames' = InnermostClosed
    /\ metrics' = FailCounted(metrics)
    /\ assertions' = [assertions EXCEPT ![cur.case] = BackFailed(@)]
    /\ actual' = [actual EXCEPT ![cur.case][frames[Len(frames)]] = FALSE]
    /\ CountFailure
    /\ UNCHANGED <<registry, control, strays, ended, ran, start>>

(***************************************************************************)
(* An assertion while current_state() is null: the prolog prints the       *)
(* runaway line whatever the expression is, the epilog returns at once.    *)
(***************************************************************************)
AssertRunaway(holds) ==
    /\ pc = "idle" /\ current_state = 0 /\ runaways < MaxRunaways
    /\ runaways' = runaways + 1
    /\ stray_failures' = IF holds THEN stray_failures ELSE stray_failures + 1
    /\ UNCHANGED <<registry, control, metrics, objects, frames, headers, ended,
                   history>>

-----------------------------------------------------------------------------

RunnerStep ==
    \/ EnterSet \/ EnterSuite \/ EnterCase
    \/ LeaveCase \/ LeaveSuite \/ LeaveSet
    \/ RunReturn \/ RunThrows
    \/ AssertHolds \/ AssertFails
    \/ ExpectBegin \/ ExpectHolds \/ ExpectFails

Next ==
    \/ \E s \in SetIds : TestAdd(s)
    \/ RunBegin
    \/ RunnerStep
    \/ \E holds \in BOOLEAN : AssertRunaway(holds)

Spec == Init /\ [][Next]_vars

(* A run that has begun keeps executing: a test body is assumed to end.    *)
FairSpec == Spec /\ WF_vars(RunnerStep)

-----------------------------------------------------------------------------
(* Properties                                                              *)

PCs == {"idle", "sets", "suites", "cases", "body"}

LoopTypes ==
    /\ suite_sets \in Seq(SetIds)
    /\ runs \in Nat
    /\ pc \in PCs
    /\ pos \in [set : Nat, suite : Nat, case : Nat]
    /\ current_state \in Nat
    /\ cur \in [set : SetIds \cup {NULL}, suite : SuiteIds \cup {NULL},
                case : CaseIds \cup {NULL}]
    /\ ran \in Seq(CaseIds)
    /\ ended \in [how : {"never", "returned", "threw"}, value : Int,
                  verdict : {"none", "no_test_cases", "all_succeeded"}]
BookTypes ==
    /\ metrics \in [suite_count : Nat, case_count : Nat, assertion_count : Nat,
                    case_fail_count : Nat, assertion_fail_count : Nat]
    /\ assertion_fail_count \in [CaseIds -> Nat]
    /\ case_fail_count \in [SuiteIds -> Nat]
    /\ start \in [CaseIds -> Nat]
LineTypes ==
    /\ suite_headers \in [SuiteIds -> Nat]
    /\ case_headers \in [CaseIds -> Nat]
    /\ heading \in CaseIds \cup {NULL}
    /\ runaways \in Nat
    /\ stray_failures \in Nat
RecordTypes ==
    /\ assertions \in [CaseIds -> Seq(BOOLEAN)]
    /\ actual \in [CaseIds -> Seq(BOOLEAN)]
    /\ frames \in Seq(Nat \ {0})

(* Every variable keeps the type of the C++ object it stands for.          *)
TypeOK == LoopTypes /\ BookTypes /\ LineTypes /\ RecordTypes

(***************************************************************************)
(* The pointers that assertions dereference agree with the loops at every  *)
(* step, whichever way the previous run ended: test_assert_prolog and      *)
(* test_assert_epilog test only current_state() before they follow         *)
(* current_case and current_suite, and no pointer to the dead test_state   *)
(* of an ended or unwound run stays behind.                                *)
(***************************************************************************)
InSets == pc \in {"suites", "cases", "body"}
InSuites == pc \in {"cases", "body"}
InCases == pc = "body"
PointersFollowLoops ==
    /\ current_state = IF pc = "idle" THEN 0 ELSE runs
    /\ pc # "idle" => runs > 0
    /\ ~InSets => cur.set = NULL
    /\ InSets => pos.set \in DOMAIN suite_sets /\ cur.set = suite_sets[pos.set]
    /\ ~InSuites => cur.suite = NULL
    /\ InSuites => pos.suite \in DOMAIN SuitesOf[cur.set]
                   /\ cur.suite = SuitesOf[cur.set][pos.suite]
    /\ ~InCases => cur.case = NULL /\ frames = <<>>
    /\ InCases => pos.case \in DOMAIN CasesOf[cur.suite]
                  /\ cur.case = CasesOf[cur.suite][pos.case]

(***************************************************************************)
(* test_suite::case_fail_count, which test_assert_epilog increments only   *)
(* when a case fails its first assertion, is the number of the suite's     *)
(* cases that have ever failed, over any number of runs.                   *)
(***************************************************************************)
FailingCases(u) == {c \in CasesIn(u) : assertion_fail_count[c] > 0}
SuiteCountsItsFailingCases ==
    \A u \in SuiteIds : case_fail_count[u] = Cardinality(FailingCases(u))

(***************************************************************************)
(* A suite or case that ever failed was announced by exactly one header    *)
(* line, and one that never failed by none: the two counters that guard    *)
(* the headers are updated on different paths of test_assert_epilog.       *)
(***************************************************************************)
HeadersOnce ==
    /\ \A c \in CaseIds :
          case_headers[c] = IF assertion_fail_count[c] > 0 THEN 1 ELSE 0
    /\ \A u \in SuiteIds :
          suite_headers[u] = IF FailingCases(u) # {} THEN 1 ELSE 0

(***************************************************************************)
(* A case's records and its counter agree on whether it ever failed, even  *)
(* when exception assertions nest and the wrong record is marked.          *)
(***************************************************************************)
RecordsAgreeOnFailure ==
    \A c \in CaseIds :
       assertion_fail_count[c] > 0 <=>
          \E i \in DOMAIN assertions[c] : ~assertions[c][i]

(***************************************************************************)
(* The failed assertions of a run: those that the counter of their case    *)
(* has numbered since it began.  Counters of cases survive from run to     *)
(* run, test_state::metrics do not.                                        *)
(***************************************************************************)
FailuresOf(c) == {c} \X ((start[c] + 1) .. assertion_fail_count[c])
RunFailures == UNION {FailuresOf(c) : c \in CaseIds}
Returned == ended.how = "returned" /\ pc = "idle"

(***************************************************************************)
(* What main() passes to the system: a run in which nothing failed returns *)
(* zero and says so.  One in which an assertion failed, in any case, never *)
(* says that all succeeded, and returns zero only after so many failures   *)
(* that int has wrapped around.                                            *)
(***************************************************************************)
ZeroMeansClean ==
    Returned =>
       IF assertion_fail_count = start
       THEN ended.value = 0 /\ ended.verdict # "none"
       ELSE /\ ended.verdict # "all_succeeded"
            /\ ended.value = 0 => Cardinality(RunFailures) >= Modulus(INT_MAX)

(***************************************************************************)
(* The return value counts every failed assertion of the run once, as long *)
(* as an int can: what a larger count leaves of itself is congruent to it. *)
(***************************************************************************)
ReturnCountsFailures ==
    Returned =>
       /\ ended.value \in Signed(INT_MAX)
       /\ ended.value % Modulus(INT_MAX) = Cardinality(RunFailures) % Modulus(INT_MAX)
       /\ Cardinality(RunFailures) <= INT_MAX => ended.value = Cardinality(RunFailures)

(***************************************************************************)
(* In the output of a run, the failure line of a case that never failed    *)
(* before stands under the header of that case.  One of a case that failed *)
(* in an earlier run gets no header and never stands under its own: the    *)
(* header above it, if there is one, names another case.                   *)
(***************************************************************************)
FailuresUnderOwnHeading ==
    [][\A c \in CaseIds :
         assertion_fail_count'[c] > assertion_fail_count[c] =>
            (heading' = c <=> start[c] = 0)]_vars

(***************************************************************************)
(* test_metrics::case_fail_count counts the cases left so far whose object *)
(* has a failure, including one left over from an earlier run.             *)
(***************************************************************************)
CasesLeft == IF pc = "body" THEN Len(ran) - 1 ELSE Len(ran)
FailedCasesTallied ==
    pc # "idle" =>
       metrics.case_fail_count =
          Cardinality({i \in 1..CasesLeft : assertion_fail_count[ran[i]] > 0})

(***************************************************************************)
(* A run that returns has run every case of every registered set, once and *)
(* in the order of registration, and its metrics count exactly those.      *)
(***************************************************************************)
SuitesIn(s) == {SuitesOf[s][j] : j \in DOMAIN SuitesOf[s]}
SuitesRegistered == UNION {SuitesIn(suite_sets[i]) : i \in DOMAIN suite_sets}

PlacesIn(i, j) == {[set |-> i, suite |-> j, case |-> k] :
                      k \in DOMAIN CasesOf[SuitesOf[suite_sets[i]][j]]}
Places == UNION {UNION {PlacesIn(i, j) : j \in DOMAIN SuitesOf[suite_sets[i]]} :
                    i \in DOMAIN suite_sets}
CaseAt(p) == CasesOf[SuitesOf[suite_sets[p.set]][p.suite]][p.case]
Before(p, q) ==
    \/ p.set < q.set
    \/ p.set = q.set /\ p.suite < q.suite
    \/ p.set = q.set /\ p.suite = q.suite /\ p.case < q.case

EachRan == \A p \in Places : \E n \in DOMAIN ran : ran[n] = CaseAt(p)
OnlyRegisteredRan == \A n \in DOMAIN ran : \E p \in Places : ran[n] = CaseAt(p)
RanInOrder ==
    \A n \in DOMAIN ran : \A m \in 1 .. (n - 1) : \E p, q \in Places :
       ran[m] = CaseAt(p) /\ ran[n] = CaseAt(q) /\ Before(p, q)
EveryCaseRunsOnce ==
    ended.how = "returned" /\ pc = "idle" =>
       /\ EachRan /\ OnlyRegisteredRan /\ RanInOrder
       /\ metrics.case_count = Len(ran)
       /\ metrics.suite_count = Cardinality(SuitesRegistered)

(* Every run of test_run() ends, by returning or by throwing.              *)
RunEnds == pc # "idle" ~> pc = "idle"

-----------------------------------------------------------------------------
(* What the comments of jg_test.h say and the code does not do             *)

(***************************************************************************)
(* "The implementation will add assertion information here" (line 36): a   *)
(* record of a finished case says what its own assertion found.            *)
(***************************************************************************)
RecordsAreActual == frames = <<>> => assertions = actual

(***************************************************************************)
(* "can be used both on its own in simple test files ... only output error *)
(* information" (lines 118-120): outside a run, lines are printed for      *)
(* assertions that fail.                                                   *)
(***************************************************************************)
OwnUsePrintsErrorsOnly == runaways = stray_failures
=============================================================================
