# Verification of the jg headers

`jg` is a set of C++ headers (`src/inc/`): a unit test runner with assertions, mock functions, a logger,
and small helpers. This directory holds TLA+ models of the parts that keep state and make promises, TLC
configurations for small instances, and TLAPS proofs of the main properties for all instances.

    tlc -config MCTestRun.cfg MCTestRun        # check one configuration
    tlapm TestRunProofs.tla                    # check the proofs of one module

## Inventory

| component | file | state | operations | who interacts with it |
|---|---|---|---|---|
| test runner | `jg_test.h` | registry `suite_sets()`, static `current_state()`, one `test_state` per run (metrics, pointers to current set, suite, case), records and counters inside every case and suite | `test_add`, `test_run` | `test_adder` constructors before `main()`, `main()`, test bodies |
| assertions | `jg_test.h` | none of their own | `jg_test_assert`, `jg_test_assert_exception` | test bodies and the threads they start; reach the runner through `current_state()` |
| state scopes | `jg_state_scope.h` | pointer and exit value, or exit action | constructor, destructor | `test_run` (four of them), test bodies |
| mock functions | `jg_mock.h` | `mock_aux`: func, func0, result, stub flag, last parameters, counter | configure, call, read, `reset()` | test bodies, code under test, callables that call the mock again |
| simple mock functions | `jg_mock.h` | `mock_simple_aux`: func, func0, stub flag, counter | as above, without result and parameters | as above |
| mocking macros | `jg_mock.h` | none: the preprocessor | a macro for each kind of function, parameter counting | declarations in test code |
| tests of the mocks | `tests/mock_tests.cpp` | a mock that is a global | five test cases | mock functions, a mocked `JG_VERIFY_ASSERTION` |
| verify | `jg_verify.h` | none | `verify(condition)` | `verified<T>` of the mocks, `optional` |
| logger | `jg_simple_logger.h` | configuration (enabled, level, stream), `ostream_line` objects | `jg::log*`, `jg_log*` macros, setters | every thread of a program |
| timestamps | `jg_simple_logger.h`, `jg_os.h` | none: pure | `to_string(timestamp)`, `localtime_safe` | logger |
| optional | `jg_optional.h` | value, flag | constructors, assignments, accessors | `verify` |
| string helpers | `jg_string.h` | none: pure | `trim`, `starts_with`, `split`, `join`, `ostream_join`, `from_chars` | mocks use `trim`, arguments `starts_with` |
| arguments | `jg_args.h` | none: pure | `args_key_value`, `args_has_key` | `find_if` |
| algorithms | `jg_algorithm.h` | none: pure | `find_if`, `for_each`, average, median, deviations | arguments, benchmark |
| benchmark, stopwatch | `jg_benchmark.h`, `jg_stopwatch.h` | samples, a clock | `benchmark` | algorithms |
| coloured output | `jg_ostream_color.h` | the stream of an object, the stream's colours | `<<`, destructor | runner |
| stack trace | `jg_stacktrace.h` | a static mutex, DbgHelp's symbols, the frames | `skip`, `take`, `capture` | every thread |
| allocator, span, source location, os, callable traits | one header each | none that changes | | |

What is hard here, and therefore what the models are for:

* **callbacks**: a test body asserts from inside an assertion, a mock's callable calls the mock again or
  resets it, an argument of a log line logs or configures the logger. State read before is used after.
* **exceptions**: a body may throw out of three loops and four scopes; a callable may throw through a mock; a
  scope's actions and `capture()` may throw half way, or end the program.
* **state that survives and state that does not**: metrics live for one run, case counters for the whole
  process; `reset()` clears a mock's counter and parameters but not its callables, result or stub flag, so test
  cases that share a mock can depend on their order.
* **threads**: assertions, log statements and stack traces are made by several threads, the first two without a lock.
* **builds and boundaries**: `verify()` stops or returns, macros change meaning, integers wrap, `npos + 1` is 0.

What makes each component correct: the runner's pointers agree with its loops, its counters, headers and
return value with the assertions that failed; a mock's counter with the calls made, its parameters and its
result with what was last given; a stub can always be called; a global is what it was before a scope; a log
line is whole, on one stream; `optional` behaves as `std::optional`; the pure functions return what their
definitions say. The hazards, with their lines and the properties that cover them, are in `PROJECT.json`.

## Modules

| module | what it is |
|---|---|
| `TestRun` | the runner and the assertions on one thread, whole handlers of `jg_test.h`, with the scopes of `test_run` |
| `MCTestRun` | an instance of it: two sets, three suites (one empty), three cases |
| `TestRunProofs` | inductive invariant and theorems about `TestRun` |
| `TestThreads` | the assertions of threads that test bodies start, cut where threads can disturb each other |
| `TestThreadsProofs` | inductive invariant and theorems about `TestThreads` |
| `CallLedger` | abstract: what `count()` promises, for either kind of mock |
| `Mock` | a `JG_MOCK`/`JG_STUB` function with its auxiliary data; implements `CallLedger` |
| `MockedTests` | extends `Mock`: the five test cases of `tests/mock_tests.cpp` on one global mock, in any order |
| `MCMock` | every kind of mock and build used freely, and the test cases; two parameter lists, two values |
| `MockProofs` | inductive invariants of `Mock` and `MockedTests`; `Mock` implements `CallLedger` |
| `MockSimple` | a `JG_MOCK_SIMPLE`/`JG_STUB_SIMPLE` function; implements `CallLedger` |
| `MockSimpleProofs` | inductive invariant of `MockSimple`; `MockSimple` implements `CallLedger` |
| `TwosComplement` | the signed integers of a build, and what a conversion to them leaves of a number |
| `DataLemmas` | lemmas the proofs share: popping a stack, the first and the last of some positions, folds, remainders and conversions of integers |
| `MockMacros` | the bodies of the macros, which of them a name means in each build, and how parameters are counted |
| `Logger` | configuration, log statements and `ostream_line` objects of several threads |
| `LoggerProofs` | inductive invariant and theorems about `Logger` |
| `Timestamp` | `to_string(timestamp)`, to the character |
| `StateScopes` | scopes opened in each other on one global, with exceptions, also of their own actions |
| `StdOptional` | abstract: what `std::optional` promises |
| `Optional` | `jg::optional` with `verify()` by build; it implements `StdOptional` |
| `Strings` | the functions of `jg_string.h` as operators, with `std::string_view`'s `find` and `substr` (external) |
| `Split` | the loop of `split<N>`, one iteration a step; extends `Strings` |
| `Args` | the lookups, with `find_if`'s loop; extends `Strings` |
| `Benchmark` | measuring, then the statistics, in integers up to `REP_MAX` that wrap |
| `StackTrace` | `capture()` by several threads on Windows |
| `OstreamColor` | `ostream_color` objects on several streams |
| `TextProofs` | theorems about `Timestamp` and `Split`, which are about text |
| `LibraryProofs` | theorems about `Optional`, `StackTrace`, `OstreamColor`, `MockMacros`, `Args`, `StateScopes` and `Benchmark` |
| `MCLibrary` | one instance of the eleven modules above, from `MockSimple` on, that have variables of their own and share none |

Operators marked `mutant` in a comment are used by no specification: each is a definition next to it with a
plausible bug, and `PROJECT.json` names the property that finds it.

### TestRun

State: `suite_sets`, `current_state` (0 for null, otherwise the number of the run it points at), `cur` (the
three pointers of `test_state`), `metrics`, `assertions` (per case, the `succeeded` flag of each record), the
two surviving counters, the printed header lines, and `frames`, the exception assertions that have begun and
not ended. `pos` holds the positions of the three range-for loops and `pc` which of them is executing. History
variables (`actual`, `ran`, `start`) record what happened and are read by properties only.

Actions: `TestAdd` is the whole of `test_add`; `RunBegin`, `EnterSet` to `LeaveSet`, `RunReturn` are `test_run`
cut at the points where other code can run; `RunThrows` is the unwinding of a run by an exception; `AssertHolds`
and `AssertFails` are `test_assert_impl`; `ExpectBegin`, `ExpectHolds`, `ExpectFails` are
`test_assert_exception_impl` cut where it calls the tested expression; `AssertRunaway` is an assertion made while
no run is active. A test body is user code: it makes any of these in any order.

`heading` is the case named by the last header line of the run's own output. `ReturnValue` is the total as the code
converts it, `static_cast<int>`: in the instances `INT_MAX` is small, so that totals beyond it occur. The counters
themselves are `size_t` and taken as unbounded.

Left out: the wording and colours of lines, the stopwatch, `source_location`.

### TestThreads

The same handlers, reduced to what threads disturb (three pointers, two counters, the size of the records) and
cut in steps: the prolog's test of `current_state()`, the beginning and the end of `push_back`, the epilog's test,
the marking of `back()` with the case's counter, and the read and the write of
`metrics.assertion_fail_count++`. `program` says how test code is written: whether bodies join the threads they
start, and whether assertions are made under a lock of the tests' own. Undefined behaviour (a null pointer
followed, two `push_back` on one vector at once, `back()` of an empty one) sets `undefined`, after which nothing is
stated. Joined and locked programs are correct; without the lock, the total can be too small, never zero. `ended` is the
returned value, narrowed as in `TestRun`.

### Mock, MockedTests and MockMacros

State: the members of `mock_aux` and its bases (`func`, `func0` only as set or not), `frames`, the calls that
are running a callable, and `process`, which `verify` may stop. `kind` fixes return type and build:
`verify(false)` may stop the process (`stops`) or return (NDEBUG, or a `JG_VERIFY_ASSERTION` that returns, as in
`tests/mock_tests.cpp`), and `JG_MOCK_THROW_NOT_IMPLEMENTED` may be defined (`throws`). "class" is a return type
which moving leaves empty, as `std::string`.

Actions: `SetFunc`, `SetFunc0`, `SetResult`, `Stub`, `Reset`, `ReadResult` are what tests do; a call takes one of
`CallThrows`, `CallRuns` ... `CallableEnds`, `CallDoesNothing`, `CallReturnsResult`, by the code's order of tests.
Between `CallRuns` and `CallableEnds` every action may happen, calls of the same mock included. Replacing a
callable while it runs is excluded (undefined behaviour).

`CallLedger` is the abstract counter. `Mock` counts when a call ends, `MockSimple` when it begins; both implement
it with `open` mapped to the calls in progress (in `Mock` a call that stopped the process stays open).

`MockedTests` composes `Mock` with the test cases of lines 40 to 105 of `tests/mock_tests.cpp`: `Body` lists their
statements, and each step of a case is an action of `Mock` with what the case asserts about it. In `MockMacros` a
macro name is its parts (`JG_STUB_COM_C` is `STUB`, `COM`, `C`), and tables transcribe, macro by macro, what its body
has that others do not: the lambda that calls `stub()`, `...`, `const`, the suffix, the calling convention, the kind of
auxiliary data, the end of the prototype text. Two more tables are the names that mean another macro, in builds without
`STDMETHODCALLTYPE` and among the short ones. An argument is what the preprocessor sees of it; one behaviour defines a
mock, counts the parameters the way MSVC or another compiler does, and calls it.

### Logger and Timestamp

`lines[l].wrote` is the sequence of pieces of statement `l`, each with the stream it went to. `open[t]` are the
statements and `ostream_line` objects of a thread, innermost last: an argument that logs opens one above.
A statement checks the configuration, reads the stream, writes time, level and arguments in separate steps, and
other threads' setters and pieces may come between any two. `Moves` adds moved-from lines, which are the finding;
without them no line is lost. The macros `jg_log_warning_line`, `_error_line` and `_fatal_line`
(`jg_simple_logger.h:167-169`) expand to functions that do not exist, so they have no statements.

`Timestamp` is `to_string` on char codes. The earlier implementations that the file keeps under `#if 0` are not compiled,
and not modelled.

### The helpers

`StateScopes`: constructors and destructors of both classes. An `enter_action` that throws (`EnterThrew`) has undone its
change or leaves it; `half` remembers the scopes in which it was left, until code sets the global again. An
`exit_action` that throws does so in a destructor, which is `noexcept`: the program is `terminated` (`ExitThrew`).
`Saves` says whether exit values are the values found, as in the header's example.
`Optional` records the latest call in `call`, so that its refinement of `StdOptional` relates each call to the effect
it has there. `Strings`, `Split` and `Args` use sequences for strings and 15 for `npos`, which wraps to 0. `Benchmark` computes in
two's complement with division toward zero, each difference, square and sum wrapping on its own; the root is a set,
`Roots`, for it goes through a double: it can come out one too large above `Precision`, and for a negative sum, which
only wrapping makes, it is what builds do with the cast of a NaN. `StackTrace` has the mutex,
`SymInitialize`/`SymCleanup` (external) and `bad_alloc`, which escapes between them, or before the lock. `OstreamColor` has objects that die in any nesting order the language allows.

## Runs

| run | asks | instance and size |
|---|---|---|
| `runner` | do counters, headers, records and return value agree at every step of `TestRun`? | 3 cases, 2 runs, 3 assertions per run, 2 nested exception assertions, `INT_MAX` = 1: about 1.7 million states |
| `runner_live` | does every run end, and are pointers and return value undisturbed by an assertion outside the runs? | one assertion less, one runaway assertion: about 240,000 states |
| `runner_records` | finding: records are marked through `back()` | counterexample with one nested assertion |
| `runner_own_use` | finding: a true assertion outside a run prints an error line | one step |
| `threads` | which test programs with threads are counted right, and what survives in the others? | two worker threads and the main one, 2 cases, 2 assertions each |
| `threads_runaway` | finding: an assertion between two cases is not detected | one worker, one case |
| `mock` | do counter, parameters and result agree, can stubs always be called, and which test cases depend on order? | all kinds, 3 calls between resets, 3 nested; up to 5 test cases |
| `mock_persist` | finding: a class-typed result is moved out when read | two steps |
| `mock_called_params` | finding: called but without parameters after `reset()` in a callable | four steps |
| `library` | does each header that shares no state, and does a simple mock, keep its promises, for every order of calls, input and build within bounds? | eleven parts, below: about 570,000 states |
| `scopes_half` | finding: an `enter_action` that throws half way is not undone | two steps |
| `logger_moved` | finding: a moved-from `ostream_line` writes through null | one thread, one line |

The headers of `library` share no state, so a product of them would show nothing more than their union: variable `header`
chooses one and the others stay put (`MCSpec`), with the fairness of each. Its bounds, part by part:

| part | bounds | why they are enough |
|---|---|---|
| logger | 2 threads, 2 streams, 2 levels, 2 lines of up to 3 pieces, 1 setter call, 2 line objects per thread | two lines interleave piece by piece, or one is nested in the other's arguments, around the change of stream, level or flag |
| timestamps | every boundary of the digit counts, the day's wrap in a zone of one hour, ten instants around and before 1970 | the code branches on digit counts and signs only |
| scopes | 3 values, depth 3 | inner, middle and outer scope hold different values |
| optional | 2 objects, 3 values, all builds | source and target; moved-from, old and new value differ |
| strings | 3 characters, length up to 5, 1 to 4 tokens | empty tokens at both ends, too few and too many, blanks only |
| arguments | 4 items of 5, keys equal to, prefixes of and unlike them | a prefix match before an equal one |
| benchmark | 4 samples of 8 bits, elapsed up to 120 per 2 calls, clocks set back, doubles of 4 bits | even count, equal samples; sums and squares that fit, that wrap, that wrap and come back, and that end negative |
| stack trace | 2 threads, 4 frames, 2 captures each | a capture waits for, and follows, one that failed or threw, under the lock or before it |
| colours | 2 streams, 2 objects | nested objects on one stream, one object on two |
| simple mocks | both builds, 4 calls between resets, 3 nested | as for mocks |
| macros | up to 10 parameters, 1 parenthesized, all names and builds | the code's own limit of 10 |

Bounds of the other runs. Two runs are the least in which a counter can survive from one to the next. Two cases in
one suite, a second suite and an empty one in a second set reach every header and every loop end. Two nested exception
assertions and three assertions are the least in which an inner one lies between the prolog and the epilog of an
outer one. For mocks, three calls and depth three let a call be counted at each of the outer, middle and inner level
around a `reset()`; five cases put any case before, between and after any other. Two workers and the main thread let
one increment be lost to two others, and two cases let a failure be charged to the wrong one.

Deadlock is not checked where the system stops by itself: after the last run or case, after `verify` ended
the process, after undefined behaviour, and when a function has returned.

Fairness. `FairSpec` of `TestRun` has weak fairness of the runner's steps, since one thread executes `test_run` without
waiting for anything; with the bound on assertions this states the one thing assumed of user code: that a test body
ends. `StackTrace` (`CapturesEnd`) has weak fairness of each thread inside `capture()`, which waits for
nothing but the mutex. Bounded captures make the mutex free again and again and finally for good, so
no fairness of the mutex is needed. Nothing else is assumed live.

Type invariants (`TypeOK` and its namesakes) are part of each inductive invariant and so proved for all instances, in
the module of the component or, where only the proof needs one, in the module of the proofs; no run lists one.

## Findings

* `runner_records`: `assertions.back().succeeded = false` (`jg_test.h:268`) marks the last record, which is another
  assertion's when an exception assertion's body asserted.
* `runner_own_use`: on its own (outside `test_run`), `jg_test_assert` reports true assertions as runaways and never
  says that one failed; the comment at `jg_test.h:120` says it outputs error information.
* `threads_runaway`: between two cases `current_state()` is set and `current_case` is null, so an assertion of a thread
  that outlives its case is not logged as a runaway (`jg_test.h:158-160`) but follows the null pointer.
* `mock_persist`: `operator T()` moves `m_value` out (`jg_mock.h:162`): a mock that returns a `std::string` returns the
  configured value once.
* `mock_called_params`: a `reset()` made while the callable runs is followed by the count of that same call
  (`jg_mock.h:336`).
* `scopes_half`: `state_scope_action` promises a reset "even in the presence of exceptions" (`jg_state_scope.h:68-69`); after an
  `enter_action` that changes the state and throws (`jg_state_scope.h:103`) there is no object whose exit would undo it.
* `logger_moved`: the destructor of a moved-from `ostream_line` dereferences the null stream that the move left
  (`jg_simple_logger.h:131`).

Seen while modelling, and stated as exceptions in the properties or in the modules' comments:

* `JG_STUB_COM_EX` without `STDMETHODCALLTYPE` defines no stub, the short names `MOCK_COM` and `STUB_COM` are defined
  twice, the second time as constant functions, and the prototype texts of `JG_MOCK_VA_C` and `JG_STUB_VA_C` lack the
  `const` (`MockIsAsNamed`).
* on a second run a case that had failed in the first gets no header, so its failure lines stand under the header of
  another case (`FailuresUnderOwnHeading` says exactly when).
* a benchmark's sums wrap unnoticed: 1000 samples in 64-bit nanoseconds that deviate by 0.1 s are enough
  (`StatisticsAreSound` says exactly which statistics survive).
* an `ostream_color` inserted into two streams resets the second only (`ColorsOfLiving`).
* an `exit_action` that throws ends the program, being called by a destructor (`ExitThrew`).
* a `capture()` that runs out of memory under the lock leaves DbgHelp's symbols loaded, and every later `capture()` of
  the process is empty (`OneOwnerOfDbgHelp`).
* `to_string` of an instant before 1970 writes negative milliseconds with their sign, and on Windows the time of day is
  then 00:00:00, so that only a midnight is right (`TextIsExact`; the exception for midnights came out of its proof).
* `jg::log_info()` and its siblings, called without the macro, do not ask `log_set_enabled` (`MacrosObeyConfiguration`).
* a `test_run()` made by a test body leaves the outer run without `current_state()`: its scope resets to `nullptr`, not to
  what it found (`InnerScopesLeaveNoTrace` is false with `Saves = FALSE`).

## Proofs

Every safety invariant, action property and refinement of the passing runs is also a theorem, but for `MockIsAsNamed`: what
a run checks on its instance holds for every value of the constants that the module's assumption allows. Where a theorem
needs more, its `ASSUME` says so (those of `StateScopes` do). What a proof needs beyond
the property itself is in an inductive invariant, a conjunction of named parts.

**`TestRunProofs`**: `Spec => []IInv` for every layout that satisfies `LayoutAssumption` (vectors own their elements;
`CaseIds` is finite).

* `FramesMarkEntries`: every open exception assertion has its record in the running case. Without it
  `BackFailed` could mark nothing, and `RecordsAgreeOnFailure` is not inductive.
* `Totals`: during a run the counters of the cases have only grown, and the run's total is zero exactly when they
  have not. What is returned is that total as an int (`SignedKeeps`: congruent to it, and equal if it fits), so it is zero
  only for no failures or a multiple of `Modulus(INT_MAX)` of them: `ZeroMeansClean`.
* `RegisteredOnce`, `LoopsFinished`, `RanFollowsLoops`, `FailedHaveRun`, `HeadingIsCurrent`: a set is registered
  once, so the cases entered are those the three loops have passed, each once and in their order. So at a case's first
  failure in the run its header is printed, and it is the last one, exactly if it had never failed before; if it had, no
  header of the run names it: `FailuresUnderOwnHeading`. When the
  outer loop ends nothing is left to enter: `EveryCaseRunsOnce`.
* `FailuresCounted`, `CasesCounted`, `SuitesCounted`: the counters of `metrics` are the cardinalities of the sets of
  things they count (the failures of this run, the cases and suites reached), which is how a sum along the loops
  becomes something one step changes by one. `ReturnCountsFailures` and `FailedCasesTallied` follow.

**`TestThreadsProofs`**: for any finite number of threads. A program that does not join its threads reaches
undefined behaviour, so the invariant has two halves: types and the mutual `Exclusion` of a locked program always hold;
`Joined` (where threads can be when no body runs), `Recorded` (a thread past its `push_back` has a record to mark),
`Totals` and `Result` hold of joining programs until something is undefined. With the lock nothing ever is. `Totals` bounds
what increments can lose: the total and the threads between their read and their write are together at most the failures,
exactly the failures with the lock, and somebody has counted or is counting as soon as there is one. Hence the
two properties of the result: exact with the lock, never zero by mistake without it, as far as an int reaches.

**`LoggerProofs`**: for any threads, streams and nesting. `FramesOK` says what a line looks like to the statement that
writes it, `OneActive` that a line has at most one frame, of all threads, that can write to it, and `Ended` that a line has
its end exactly if nobody can. A step of one thread therefore disturbs no line of another (`LinesAreWhole`,
also with moved-from lines). `AllChecked` says that what a macro's check found is the configuration still, unless a
setter was called since (`MacrosDoObey`).

**`MockProofs`**: `CountExact` (calls counted + open = begun + carried over `reset()`), `ParamsOfLastBegun`,
`StubHasResult` (`on_stub()` ran for every stub) and `StoppedByCall`; the rest of `Mock`'s properties follow, for any
arguments, values, kinds and nesting, and `CountsCorrect` is the refinement `Spec => Ledger!Spec`. `OrderMatters` is about the
five test cases of `tests/mock_tests.cpp`, in any order and any number: `Leftovers` says what cases leave in the
global mock (a callable or a result, exactly if one of the last three has run), `Prepared` what the statements so
far make the next assertion find.

**`MockSimpleProofs`**: the invariant is only `m_count = begun`, for a simple mock counts a call as it begins: a
`reset()` forgets the calls in progress, where `Mock` counts them later. `CallLedger` allows both.

**`LibraryProofs`**:

* `Optional`: `OptionalSpec => Std!Spec` (`OptionalCorrect`) with `holds[o]` mapped to `<<m_value[o]>>` if `m_set[o]` and to `<<>>` otherwise. An access to an
  empty object is a stutter, because what it writes is hidden until `m_set` is set together with another value.
* `StateScopes`, when `Saves`: each open scope's exit value is what the global was just outside of it (`Chained`),
  so that closing the innermost scope restores what the next one saw. What an `enter_action` left in a scope (`half`)
  breaks the chain in no other.
* `StackTrace`: whoever is between `SymInitialize` and the return of the mutex owns the mutex, and symbols are loaded while
  one thread reads frames or for good.
* `OstreamColor`: with the types of the objects, `ColorsOfLiving` is inductive.
* `MockMacros`: the macro that counts by shifting its arguments finds the length of any list of up to ten.
* `Args`: `find_if`'s loop has passed only items that do not match; `jg::starts_with` and the rest of
  the item split it where the key ends.
* `Benchmark`: the samples are a permutation of what was measured, and `nth_element` splits any permutation at the same value
  (`HalvesAreTrue`). `StatisticsDescribe` has no hypothesis on the samples: sums that wrap differ from the true ones by a
  multiple of the modulus however they are formed (`SumsAgree`, `SquareKept`), so they are the true ones if these fit
  the type; and a true sum that does not fit has another average than any that does (`OnlyIfHeld`).

**`TextProofs`**:

* `Timestamp`: numbers of two and three digits are filled up to their width, so the fields stand at fixed places and
  read back the time (`DaysWrap`: days wrap alike in seconds and in milliseconds); before 1970 the sign takes a digit's
  place.
* `Split`: until the end, the tokens joined, a delimiter and what is left are the input, and the input has as
  many delimiters as tokens so far and what is left (`StillLeft`); no token contains one (`TokensSoFar`).
* `Trim`: what was erased is the blanks before the first and after the last other character, for every string.

Data inductions are not available in the prover. `DataLemmas` has what replaces them: a non-empty set of numbers up
to `n` has a least element (`LeastExists`, from the well-foundedness of finite subsets), so a statement about every
position of a sequence is proved of its first counterexample. `FoldExists` builds the function that `FoldLeft` chooses,
and `Folds` describes it one element at a time; joins, sums and counts are then reasoned about through it.

Assumptions: besides those named above, the proofs rest on the `ASSUME` of each module only: `LayoutAssumption`,
`ThreadsAssumption`, `LoggerAssumption` and their namesakes keep sentinels apart from data, give constants their types,
bound levels and parameters as the code does, and make strings shorter than `npos`. TLC evaluates all of them.

Only model-checked: liveness (`RunEnds`, `CapturesEnd`), which needs `ENABLED` and is out of the prover's reach; and
`MockIsAsNamed`, a statement about 26 macros, two names and eight builds, of which TLC tries every one.

## Plan

1. Liveness as far as it is a safety question: a measure that every step of a run, and of a `capture()`, decreases.
2. Refinements for the pure parts that have none: an abstract `split` and an abstract logger that a step implements.
3. Shorter proofs where two components need the same facts.

## Not modelled, and why

* the logging allocator (`jg_logging_allocator.h`) forwards to `operator new` and `delete` and prints; source location and span
  hold data with one-line accessors; callable traits are type functions without behaviour at run time.
* `from_chars` is `std::from_chars` and a cast, which ignores what follows the number; `for_each` and `for_each_true` are
  loops no header uses; of `jg_os.h` only `localtime_safe` is more than a definition of a name.
* `debug_verify`, `verified()` and the text that `verify` prints.
* the sample programs, and the other test files, which are uses of the headers.
* lifetimes of objects that tests hand to a `verified<T&>`, mocks called by several threads, `test_add` during `test_run`,
  and `func` replaced by itself: undefined behaviour of which nothing could be stated afterwards.
