------------------------- MODULE TestThreadsProofs -------------------------
(***************************************************************************)
(* Theorems about TestThreads, for any number of threads, cases and        *)
(* assertions, and any mixture of programs.                                *)
(*                                                                         *)
(* A program that does not join its threads reaches undefined behaviour,   *)
(* so the inductive invariant has two halves: what holds of every program  *)
(* (types, and the mutual exclusion that a lock of the tests' own gives),  *)
(* and what holds of a joining program as long as nothing undefined has    *)
(* happened (pointers, records, totals).  With the lock the second half    *)
(* implies that nothing undefined happens.                                 *)
(***************************************************************************)
EXTENDS TestThreads, DataLemmas

-----------------------------------------------------------------------------
(* The inductive invariant                                                 *)

Steps == {"off", "ready", "done", "push", "pushing", "epilog", "blame", "read", "write"}

RunnerTypes ==
    /\ program \in AllPrograms
    /\ pc \in {"before", "cases", "body", "summary", "after"}
    /\ entered \in 0 .. CaseCount /\ (pc = "body" => entered \in Cases)
    /\ current_state \in BOOLEAN /\ current_suite \in BOOLEAN
    /\ current_case \in Cases \cup {NULL}
    /\ ended \in [how : {"not", "returned", "threw"}, value : Int]
    /\ undefined \in BOOLEAN
ThreadTypes ==
    /\ step \in [Threads -> Steps]
    /\ holds \in [Threads -> BOOLEAN]
    /\ home \in [Threads -> Cases \cup {NULL}]
    /\ tmp \in [Threads -> Nat]
    /\ made \in [Threads -> Nat]
BookTypes ==
    /\ records \in [Cases -> Nat]
    /\ fail_count \in [Cases -> Nat]
    /\ failures \in [Cases -> Nat]
    /\ total \in Nat
TypeOK == RunnerTypes /\ ThreadTypes /\ BookTypes

(* A lock of the tests' own lets one thread assert at a time.              *)
Exclusion ==
    program.locked => \A t, u \in Threads : InAssertion(t) /\ InAssertion(u) => t = u

(* Where the runner and its threads can be when test bodies join their     *)
(* threads, and what the pointers are there.                               *)
Joined ==
    /\ current_state <=> pc \in {"cases", "body", "summary"}
    /\ pc \in {"cases", "body"} => current_suite
    /\ pc = "body" => current_case = entered /\ home[Main] = entered
    /\ pc # "body" => \A t \in Workers : step[t] \in {"off", "done"}
    /\ pc # "body" => step[Main] \in {"ready", "epilog"}
    /\ pc \in {"cases", "summary"} => step[Main] = "ready"
    /\ \A t \in Workers : step[t] \notin {"off", "done"} => home[t] = entered

(* A thread past its push_back has a record to mark.                       *)
Recorded ==
    pc = "body" =>
       \A t \in Threads :
          step[t] \in {"pushing", "epilog", "blame", "read", "write"} => records[entered] > 0

Counting == {t \in Threads : step[t] \in {"read", "write"}}
Pending == Cardinality(Counting)

(* The failures that are blamed and not yet counted are at most missing.   *)
Totals ==
    /\ fail_count = failures
    /\ IsFiniteSet(FailedAssertions)
    /\ total + Pending <= AllFailures
    /\ \A t \in Threads : step[t] = "write" => tmp[t] + Pending <= AllFailures
    /\ AllFailures = 0 \/ total > 0 \/ Counting # {}
    /\ program.locked => /\ total + Pending = AllFailures
                         /\ \A t \in Threads : step[t] = "write" => tmp[t] = total

(* What is returned is what an int keeps of a count that is zero only if   *)
(* no assertion failed, and under the lock the number of those that did.   *)
ReturnOf(n) ==
    /\ ended.value = ToSigned(n, INT_MAX)
    /\ n <= AllFailures /\ (n = 0 <=> AllFailures = 0)
    /\ program.locked => n = AllFailures
Result ==
    /\ pc # "after" => ended.how = "not"
    /\ Returned => \E n \in Nat : ReturnOf(n)

JoinedInv == program.joined /\ ~undefined => Joined /\ Recorded /\ Totals /\ Result

IInv == TypeOK /\ Exclusion /\ NoUndefinedUse /\ JoinedInv

-----------------------------------------------------------------------------
(* Types                                                                   *)

LEMMA CasesAreNumbers == Cases \subseteq Nat /\ NULL \notin Cases /\ \A c \in Cases : c > 0
  BY ThreadsAssumption DEF Cases

(* The runner's variables keep their types.                                *)
LEMMA RunnerTypesStep ==
  ASSUME TypeOK, [Next]_vars
  PROVE  RunnerTypes'
<1>. USE DEF TypeOK, RunnerTypes, BookTypes, runner, books, OnlyRunner
<1>1. CASE RunBegin
  BY <1>1 DEF RunBegin
<1>2. CASE EnterCase
  <2>1. entered' \in 1 .. CaseCount /\ current_case' = entered'
    BY <1>2, ThreadsAssumption DEF EnterCase, NextCase
  <2>2. /\ pc' = "body"
        /\ UNCHANGED <<program, current_state, current_suite, ended, undefined>>
    BY <1>2 DEF EnterCase
  <2>. QED BY <2>1, <2>2, ThreadsAssumption DEF Cases
<1>3. CASE LeaveCase \/ LeaveSuite
  BY <1>3 DEF LeaveCase, LeaveSuite
<1>4. CASE RunReturn
  <2>1. /\ ended' = [how |-> "returned", value |-> ReturnValue]
        /\ current_state' = FALSE /\ pc' = "after"
    BY <1>4 DEF RunReturn
  <2>2. UNCHANGED <<program, entered, current_suite, current_case, undefined>>
    BY <1>4 DEF RunReturn
  <2>3. ReturnValue \in Int
    BY SignedKeeps, ThreadsAssumption DEF ReturnValue
  <2>. QED BY <2>1, <2>2, <2>3
<1>8. CASE RunThrows
  <2>1. ended' = [how |-> "threw", value |-> 0]
    BY <1>8 DEF RunThrows
  <2>2. /\ ~current_state' /\ ~current_suite' /\ current_state' \in BOOLEAN
        /\ current_suite' \in BOOLEAN /\ current_case' = NULL /\ pc' = "after"
        /\ UNCHANGED <<program, entered, undefined>>
    BY <1>8 DEF RunThrows
  <2>. QED BY <2>1, <2>2
<1>5. ASSUME NEW t \in Workers, ThreadStarts(t) \/ ThreadEnds(t)
      PROVE  RunnerTypes'
  BY <1>5 DEF ThreadStarts, ThreadEnds
<1>6. ASSUME NEW t \in Threads, Assertion(t)
      PROVE  RunnerTypes'
  <2>1. UNCHANGED runner
    BY <1>6 DEF Assertion, AssertBegins, PushBegins, PushEnds, EpilogTests,
                EpilogBlames, EpilogReads, EpilogWrites
  <2>2. undefined' \in BOOLEAN
    BY <1>6 DEF Assertion, AssertBegins, PushBegins, PushEnds, EpilogTests,
                EpilogBlames, EpilogReads, EpilogWrites
  <2>. QED BY <2>1, <2>2
<1>7. CASE UNCHANGED vars
  BY <1>7 DEF vars
<1>. QED BY <1>1, <1>2, <1>3, <1>4, <1>5, <1>6, <1>7, <1>8 DEF Next

(* An assertion moves its own thread, and no other.                        *)
LEMMA OneThreadMoves ==
  ASSUME TypeOK, NEW t \in Threads, Assertion(t)
  PROVE  \E to \in Steps \ {"off", "done"} : step' = [step EXCEPT ![t] = to]
<1>1. CASE AssertBegins(t)
  <2> DEFINE to == IF current_state THEN "push" ELSE Afterwards(t)
  <2>1. step' = [step EXCEPT ![t] = to]
    BY <1>1 DEF AssertBegins, Goes
  <2>2. to \in {"push", "ready", "epilog"}
    BY DEF Afterwards
  <2> HIDE DEF to
  <2>. QED BY <2>1, <2>2 DEF Steps
<1>2. CASE PushBegins(t) \/ EpilogBlames(t) \/ EpilogReads(t) \/ EpilogWrites(t)
  BY <1>2 DEF PushBegins, EpilogBlames, EpilogReads, EpilogWrites, Goes, Steps
<1>3. CASE PushEnds(t)
  BY <1>3 DEF PushEnds, Steps
<1>4. CASE EpilogTests(t)
  BY <1>4 DEF EpilogTests, Goes, Steps
<1>. QED BY <1>1, <1>2, <1>3, <1>4 DEF Assertion

(* The variables of the threads keep their types.                          *)
LEMMA ThreadTypesStep ==
  ASSUME TypeOK, [Next]_vars
  PROVE  ThreadTypes'
<1>. USE DEF TypeOK, ThreadTypes, runner, books, OnlyRunner
<1>0. Main \in Threads /\ Workers \subseteq Threads
  BY DEF Threads
<1>1. CASE RunBegin \/ LeaveSuite \/ RunReturn
  BY <1>1 DEF RunBegin, LeaveSuite, RunReturn
<1>2. CASE LeaveCase \/ RunThrows
  BY <1>0, <1>2 DEF LeaveCase, RunThrows
<1>3. CASE EnterCase
  <2>1. entered + 1 \in Cases
    BY <1>3, ThreadsAssumption DEF EnterCase, RunnerTypes, Cases
  <2>2. home' = [home EXCEPT ![Main] = entered + 1] /\ UNCHANGED <<step, holds, tmp, made>>
    BY <1>3 DEF EnterCase
  <2>. QED BY <1>0, <2>1, <2>2
<1>4. ASSUME NEW t \in Workers, ThreadStarts(t)
      PROVE  ThreadTypes'
  <2>1. pc = "body" /\ UNCHANGED <<holds, tmp, made>>
        /\ step' = [step EXCEPT ![t] = "ready"] /\ home' = [home EXCEPT ![t] = entered]
    BY <1>4 DEF ThreadStarts, Runs
  <2>2. entered \in Cases
    BY <2>1 DEF RunnerTypes
  <2>. QED BY <1>0, <2>1, <2>2 DEF Steps
<1>5. ASSUME NEW t \in Workers, ThreadEnds(t)
      PROVE  ThreadTypes'
  BY <1>0, <1>5 DEF ThreadEnds, Steps
<1>6. ASSUME NEW t \in Threads, Assertion(t)
      PROVE  ThreadTypes'
  <2>1. step' \in [Threads -> Steps]
    BY <1>6, OneThreadMoves
  <2>2. home' = home /\ holds' \in [Threads -> BOOLEAN] /\ made' \in [Threads -> Nat]
    <3>1. CASE AssertBegins(t)
      BY <3>1 DEF AssertBegins
    <3>2. CASE ~AssertBegins(t)
      BY <1>6, <3>2 DEF Assertion, PushBegins, PushEnds, EpilogTests, EpilogBlames,
                        EpilogReads, EpilogWrites
    <3>. QED BY <3>1, <3>2
  <2>3. tmp' \in [Threads -> Nat]
    BY <1>6 DEF Assertion, AssertBegins, PushBegins, PushEnds, EpilogTests,
                EpilogBlames, EpilogReads, EpilogWrites, BookTypes
  <2>. QED BY <2>1, <2>2, <2>3
<1>7. CASE UNCHANGED vars
  BY <1>7 DEF vars
<1>. QED BY <1>1, <1>2, <1>3, <1>4, <1>5, <1>6, <1>7 DEF Next

(* The counters stay natural numbers.                                      *)
LEMMA BookTypesStep ==
  ASSUME TypeOK, [Next]_vars
  PROVE  BookTypes'
<1>. USE DEF TypeOK, BookTypes, runner, books, OnlyRunner
<1>1. CASE UNCHANGED books
  BY <1>1
<1>2. CASE RunBegin \/ EnterCase \/ LeaveCase \/ LeaveSuite \/ RunReturn \/ RunThrows
  BY <1>1, <1>2 DEF RunBegin, EnterCase, LeaveCase, LeaveSuite, RunReturn, RunThrows
<1>3. CASE \E t \in Workers : ThreadStarts(t) \/ ThreadEnds(t)
  BY <1>1, <1>3 DEF ThreadStarts, ThreadEnds
<1>4. ASSUME NEW t \in Threads,
             AssertBegins(t) \/ PushEnds(t) \/ EpilogTests(t) \/ EpilogReads(t)
      PROVE  BookTypes'
  BY <1>1, <1>4 DEF AssertBegins, PushEnds, EpilogTests, EpilogReads
<1>5. ASSUME NEW t \in Threads, PushBegins(t)
      PROVE  BookTypes'
  <2>1. undefined' \/ current_case \in Cases
    BY <1>5 DEF PushBegins, RunnerTypes
  <2>2. UNCHANGED <<fail_count, failures, total>>
        /\ records' = IF undefined' THEN records ELSE [records EXCEPT ![current_case] = @ + 1]
    BY <1>5 DEF PushBegins
  <2>. QED BY <2>1, <2>2
<1>6. ASSUME NEW t \in Threads, EpilogBlames(t)
      PROVE  BookTypes'
  <2>1. undefined' \/ current_case \in Cases
    BY <1>6 DEF EpilogBlames, RunnerTypes
  <2>2. /\ UNCHANGED <<records, total>>
        /\ fail_count' = IF undefined' THEN fail_count
                         ELSE [fail_count EXCEPT ![current_case] = @ + 1]
        /\ failures' = IF home[t] = NULL THEN failures
                       ELSE [failures EXCEPT ![home[t]] = @ + 1]
    BY <1>6 DEF EpilogBlames
  <2>3. home[t] = NULL \/ home[t] \in Cases
    BY DEF ThreadTypes
  <2>. QED BY <2>1, <2>2, <2>3
<1>7. ASSUME NEW t \in Threads, EpilogWrites(t)
      PROVE  BookTypes'
  BY <1>7 DEF EpilogWrites, Incremented, ThreadTypes
<1>8. CASE UNCHANGED vars
  BY <1>1, <1>8 DEF vars
<1>. QED BY <1>2, <1>3, <1>4, <1>5, <1>6, <1>7, <1>8 DEF Next, Assertion

(* No step changes the program, and one step moves at most one thread; the *)
(* runner moves none.                                                      *)
LEMMA RunnerMovesNobody ==
  ASSUME RunBegin \/ EnterCase \/ LeaveCase \/ LeaveSuite \/ RunReturn \/ RunThrows
  PROVE  UNCHANGED <<program, step, tmp, books, undefined>>
<1>. USE DEF OnlyRunner
<1>1. CASE RunBegin
  BY <1>1 DEF RunBegin
<1>2. CASE EnterCase
  BY <1>2 DEF EnterCase
<1>3. CASE LeaveCase
  BY <1>3 DEF LeaveCase
<1>4. CASE LeaveSuite
  BY <1>4 DEF LeaveSuite
<1>5. CASE RunReturn
  BY <1>5 DEF RunReturn
<1>6. CASE RunThrows
  BY <1>6 DEF RunThrows
<1>. QED BY <1>1, <1>2, <1>3, <1>4, <1>5, <1>6

(* What the starts and the ends of workers have in common.                 *)
LEMMA WorkerStartsOrEnds ==
  ASSUME NEW t \in Workers, ThreadStarts(t) \/ ThreadEnds(t)
  PROVE  /\ UNCHANGED <<runner, tmp, books, undefined>>
         /\ \E to \in {"ready", "done"} : step' = [step EXCEPT ![t] = to]
         /\ step[t] \in {"off", "ready"}
  BY DEF ThreadStarts, ThreadEnds, OnlyRunner

(* Assertions change nothing that the runner's loops own.                  *)
LEMMA AssertionLeavesRunner ==
  ASSUME NEW t \in Threads, Assertion(t)
  PROVE  /\ UNCHANGED <<runner, home>>
         /\ step[t] \notin {"off", "done"}
         /\ AssertBegins(t) \/ InAssertion(t)
  BY DEF Assertion, AssertBegins, PushBegins, PushEnds, EpilogTests,
         EpilogBlames, EpilogReads, EpilogWrites, InAssertion

-----------------------------------------------------------------------------
(* The lock                                                                *)

(* The tests' own lock stays exclusive.                                    *)
LEMMA ExclusionStep ==
  ASSUME TypeOK, Exclusion, [Next]_vars
  PROVE  Exclusion'
<1>. USE DEF TypeOK, ThreadTypes
<1>1. CASE UNCHANGED <<program, step>>
  BY <1>1 DEF Exclusion, InAssertion
<1>2. ASSUME NEW t \in Workers, ThreadStarts(t) \/ ThreadEnds(t)
      PROVE  Exclusion'
  <2>1. program' = program
    BY <1>2, WorkerStartsOrEnds DEF runner
  <2>2. PICK to \in {"ready", "done"} : step' = [step EXCEPT ![t] = to]
    BY <1>2, WorkerStartsOrEnds
  <2>3. \A u \in Threads : InAssertion(u)' => InAssertion(u)
    BY <2>2 DEF InAssertion
  <2>. QED BY <2>1, <2>3 DEF Exclusion
<1>3. ASSUME NEW t \in Threads, Assertion(t)
      PROVE  Exclusion'
  <2>1. program' = program
    BY <1>3, AssertionLeavesRunner DEF runner
  <2>2. PICK to \in Steps : step' = [step EXCEPT ![t] = to]
    BY <1>3, OneThreadMoves
  <2>3. \A u \in Threads : u # t => (InAssertion(u)' => InAssertion(u))
    BY <2>2 DEF InAssertion
  <2>4. program.locked => \A u \in Threads : InAssertion(u) => u = t
    <3>1. CASE AssertBegins(t)
      BY <3>1 DEF AssertBegins
    <3>2. CASE InAssertion(t)
      BY <3>2 DEF Exclusion
    <3>. QED BY <1>3, <3>1, <3>2, AssertionLeavesRunner
  <2>. QED BY <2>1, <2>3, <2>4 DEF Exclusion
<1>. QED
  <2>1. CASE UNCHANGED vars
    BY <1>1, <2>1 DEF vars, runner
  <2>2. CASE RunBegin \/ EnterCase \/ LeaveCase \/ LeaveSuite \/ RunReturn \/ RunThrows
    BY <1>1, <2>2, RunnerMovesNobody
  <2>. QED BY <1>2, <1>3, <2>1, <2>2 DEF Next

-----------------------------------------------------------------------------
(* The pointers                                                            *)

(* Where test bodies join their threads, an assertion is made in a body,   *)
(* or by the main thread before or after the run, when it only logs.       *)
LEMMA AssertionsAreInBodies ==
  ASSUME TypeOK, Joined, NEW t \in Threads, Assertion(t)
  PROVE  \/ pc = "body"
         \/ /\ t = Main /\ pc \in {"before", "after"}
            /\ AssertBegins(t) \/ EpilogTests(t)
            /\ \E to \in {"ready", "epilog"} : step' = [step EXCEPT ![t] = to]
<1>. SUFFICES ASSUME pc # "body"
              PROVE  /\ t = Main /\ pc \in {"before", "after"}
                     /\ AssertBegins(t) \/ EpilogTests(t)
                     /\ \E to \in {"ready", "epilog"} : step' = [step EXCEPT ![t] = to]
  OBVIOUS
<1>1. t = Main
  BY AssertionLeavesRunner DEF Threads, Joined
<1>2. step[Main] \in {"ready", "epilog"}
  BY DEF Joined
<1>3. AssertBegins(t) \/ EpilogTests(t)
  BY <1>1, <1>2 DEF Assertion, PushBegins, PushEnds, EpilogBlames, EpilogReads, EpilogWrites
<1>4. pc \in {"before", "after"}
  <2>1. CASE AssertBegins(t)
    BY <1>1, <2>1 DEF AssertBegins
  <2>2. CASE EpilogTests(t)
    BY <1>1, <2>2 DEF EpilogTests, Joined, TypeOK, RunnerTypes
  <2>. QED BY <1>3, <2>1, <2>2
<1>5. ~current_state
  BY <1>4 DEF Joined
<1>6. \E to \in {"ready", "epilog"} : step' = [step EXCEPT ![t] = to]
  <2>1. CASE AssertBegins(t)
    BY <1>5, <2>1 DEF AssertBegins, Goes, Afterwards
  <2>2. CASE EpilogTests(t)
    BY <1>5, <2>2 DEF EpilogTests, Goes, StateIsSet
  <2>. QED BY <1>3, <2>1, <2>2
<1>. QED BY <1>1, <1>3, <1>4, <1>6

(* The pointers follow the runner.                                         *)
LEMMA JoinedStep ==
  ASSUME TypeOK, program.joined, Joined, [Next]_vars
  PROVE  Joined'
<1>. USE DEF TypeOK, RunnerTypes, ThreadTypes, Joined
<1>0. Main \in Threads /\ Workers \subseteq Threads /\ Main \notin Workers
  BY ThreadsAssumption DEF Threads
<1>1. CASE RunBegin
  BY <1>1 DEF RunBegin, Runs
<1>2. CASE EnterCase
  <2>1. /\ Runs("cases") /\ pc' = "body" /\ entered' = entered + 1
        /\ current_case' = entered' /\ home' = [home EXCEPT ![Main] = entered']
        /\ UNCHANGED <<current_state, current_suite, step>>
    BY <1>2 DEF EnterCase, NextCase
  <2>2. current_suite
    BY <2>1 DEF Runs
  <2>. QED BY <1>0, <2>1, <2>2 DEF Runs
<1>3. CASE LeaveCase
  BY <1>0, <1>3 DEF LeaveCase, BodyMayEnd, Runs
<1>4. CASE LeaveSuite
  BY <1>4 DEF LeaveSuite, Runs
<1>5. CASE RunReturn
  BY <1>5 DEF RunReturn, Runs
<1>6. CASE RunThrows
  BY <1>0, <1>6 DEF RunThrows, BodyMayEnd, Runs
<1>7. ASSUME NEW t \in Workers, ThreadStarts(t)
      PROVE  Joined'
  BY <1>0, <1>7 DEF ThreadStarts, Runs, runner
<1>8. ASSUME NEW t \in Workers, ThreadEnds(t)
      PROVE  Joined'
  BY <1>0, <1>8 DEF ThreadEnds, runner
<1>9. ASSUME NEW t \in Threads, Assertion(t)
      PROVE  Joined'
  <2>1. UNCHANGED <<pc, entered, current_state, current_suite, current_case, home>>
        /\ step[t] \notin {"off", "done"}
    BY <1>9, AssertionLeavesRunner DEF runner
  <2>2. CASE pc = "body"
    <3>1. PICK to \in Steps \ {"off", "done"} : step' = [step EXCEPT ![t] = to]
      BY <1>9, OneThreadMoves
    <3>. QED BY <1>0, <2>1, <2>2, <3>1
  <2>3. CASE t = Main /\ pc \in {"before", "after"}
             /\ \E to \in {"ready", "epilog"} : step' = [step EXCEPT ![t] = to]
    BY <1>0, <2>1, <2>3
  <2>. QED BY <1>9, <2>2, <2>3, AssertionsAreInBodies
<1>10. CASE UNCHANGED vars
  BY <1>10 DEF vars, runner
<1>. QED BY <1>1, <1>2, <1>3, <1>4, <1>5, <1>6, <1>7, <1>8, <1>9, <1>10 DEF Next

(* A thread past its push_back has a record.                               *)
LEMMA RecordedStep ==
  ASSUME TypeOK, Joined, Recorded, [Next]_vars, ~undefined'
  PROVE  Recorded'
<1>. USE DEF TypeOK, RunnerTypes, ThreadTypes, BookTypes
<1> DEFINE Past == {"pushing", "epilog", "blame", "read", "write"}
<1>1. CASE UNCHANGED <<pc, entered, step, records>>
  BY <1>1 DEF Recorded
<1>2. CASE EnterCase
  <2>1. step' = step /\ pc = "cases"
    BY <1>2 DEF EnterCase, Runs
  <2>2. \A t \in Threads : step'[t] \notin Past
    BY <2>1 DEF Joined, Threads
  <2>. QED BY <2>2 DEF Recorded
<1>3. CASE RunBegin \/ LeaveCase \/ LeaveSuite \/ RunReturn \/ RunThrows
  <2>1. pc' # "body"
    BY <1>3 DEF RunBegin, LeaveCase, LeaveSuite, RunReturn, RunThrows
  <2>. QED BY <2>1 DEF Recorded
<1>4. ASSUME NEW t \in Workers, ThreadStarts(t) \/ ThreadEnds(t)
      PROVE  Recorded'
  <2>1. UNCHANGED <<pc, entered, records>>
    BY <1>4, WorkerStartsOrEnds DEF runner, books
  <2>2. PICK to \in {"ready", "done"} : step' = [step EXCEPT ![t] = to]
    BY <1>4, WorkerStartsOrEnds
  <2>. QED BY <2>1, <2>2 DEF Recorded
<1>5. ASSUME NEW t \in Threads, Assertion(t), pc' = "body"
      PROVE  \A u \in Threads : step'[u] \in Past => records'[entered'] > 0
  <2>1. pc = "body" /\ entered' = entered /\ entered \in Cases /\ current_case = entered
        /\ current_state
    BY <1>5, AssertionLeavesRunner DEF runner, Joined
  <2>2. PICK to \in Steps : step' = [step EXCEPT ![t] = to]
    BY <1>5, OneThreadMoves
  <2>3. CASE PushBegins(t)
    <3>1. records' = [records EXCEPT ![entered] = @ + 1]
      BY <2>1, <2>3 DEF PushBegins
    <3>. QED BY <2>1, <3>1
  <2>4. CASE AssertBegins(t)
    <3>1. step'[t] = "push" /\ records' = records
      BY <2>1, <2>4 DEF AssertBegins, Goes, books
    <3>. QED BY <2>1, <2>2, <3>1 DEF Recorded
  <2>5. CASE ~PushBegins(t) /\ ~AssertBegins(t)
    <3>1. records' = records /\ (step'[t] \in Past => step[t] \in Past)
      BY <1>5, <2>5 DEF Assertion, PushEnds, EpilogTests, EpilogBlames, EpilogReads,
                        EpilogWrites, Goes, books
    <3>. QED BY <2>1, <2>2, <3>1 DEF Recorded
  <2>. QED BY <2>3, <2>4, <2>5
<1>. QED
  <2>1. CASE UNCHANGED vars
    BY <1>1, <2>1 DEF vars, runner, books
  <2>2. ASSUME NEW t \in Threads, Assertion(t)
        PROVE  Recorded'
    BY <1>5, <2>2 DEF Recorded
  <2>. QED BY <1>2, <1>3, <1>4, <2>1, <2>2 DEF Next

(* With joined threads and a lock, no step is undefined.                   *)
LEMMA CarefulStep ==
  ASSUME TypeOK, Exclusion, Careful, Joined, Recorded, [Next]_vars, ~undefined
  PROVE  ~undefined'
<1>. USE DEF TypeOK, RunnerTypes, ThreadTypes, BookTypes
<1>1. CASE UNCHANGED undefined
  BY <1>1
<1>2. ASSUME NEW t \in Threads, Assertion(t)
      PROVE  ~undefined'
  <2>1. CASE pc = "body"
    <3>1. current_state /\ current_suite /\ current_case = entered /\ entered \in Cases
          /\ current_case # NULL
      BY <2>1, CasesAreNumbers DEF Joined
    <3>2. InAssertion(t) => \A u \in Threads : InAssertion(u) => u = t
      BY DEF Exclusion, Careful
    <3>3. step[t] \in {"push", "blame"} => \A u \in Threads : step[u] # "pushing"
      BY <3>2 DEF InAssertion
    <3>4. CASE PushBegins(t)
      BY <3>1, <3>3, <3>4 DEF PushBegins
    <3>5. CASE EpilogBlames(t)
      <4>1. records[current_case] > 0
        BY <2>1, <3>1, <3>5 DEF EpilogBlames, Recorded
      <4>2. records[current_case] # 0
        BY <3>1, <4>1
      <4>. QED BY <3>1, <3>3, <3>5, <4>2 DEF EpilogBlames
    <3>6. CASE ~PushBegins(t) /\ ~EpilogBlames(t)
      BY <1>2, <3>1, <3>6 DEF Assertion, AssertBegins, PushEnds, EpilogTests, EpilogReads,
                              EpilogWrites
    <3>. QED BY <3>4, <3>5, <3>6
  <2>2. CASE AssertBegins(t) \/ EpilogTests(t)
    BY <2>2 DEF AssertBegins, EpilogTests
  <2>. QED BY <1>2, <2>1, <2>2, AssertionsAreInBodies
<1>. QED
  <2>1. CASE UNCHANGED vars
    BY <2>1 DEF vars
  <2>2. CASE RunBegin \/ EnterCase \/ LeaveCase \/ LeaveSuite \/ RunReturn \/ RunThrows
    BY <2>2, RunnerMovesNobody
  <2>3. CASE \E t \in Workers : ThreadStarts(t) \/ ThreadEnds(t)
    BY <2>3, WorkerStartsOrEnds
  <2>. QED BY <1>1, <1>2, <2>1, <2>2, <2>3 DEF Next

-----------------------------------------------------------------------------
(* Counting                                                                *)

(* One failure more of a case adds one failure.                            *)
LEMMA FailuresGrow ==
  ASSUME TypeOK, IsFiniteSet(FailedAssertions), NEW c \in Cases,
         failures' = [failures EXCEPT ![c] = @ + 1]
  PROVE  IsFiniteSet(FailedAssertions') /\ AllFailures' = AllFailures + 1
<1> DEFINE new == <<c, failures[c] + 1>>
<1>1. /\ failures[c] \in Nat /\ failures'[c] = failures[c] + 1
      /\ \A d \in Cases : d # c => failures'[d] = failures[d]
  BY DEF TypeOK, BookTypes
<1>2. 1 .. (failures[c] + 1) = (1 .. failures[c]) \cup {failures[c] + 1}
  BY <1>1
<1>3. new \notin FailedAssertions
  <2>1. SUFFICES ASSUME NEW d \in Cases, new \in {d} \X (1 .. failures[d])
                 PROVE  FALSE
    BY DEF FailedAssertions
  <2>2. d = c /\ failures[c] + 1 \in 1 .. failures[d]
    BY <2>1
  <2>. QED BY <1>1, <2>2
<1>4. FailedAssertions' = FailedAssertions \cup {new}
  <2>1. {c} \X (1 .. failures'[c]) = ({c} \X (1 .. failures[c])) \cup {new}
    BY <1>1, <1>2
  <2>2. \A d \in Cases : d # c => {d} \X (1 .. failures'[d]) = {d} \X (1 .. failures[d])
    BY <1>1
  <2>3. ASSUME NEW p \in FailedAssertions'
        PROVE  p \in FailedAssertions \cup {new}
    <3>1. PICK d \in Cases : p \in {d} \X (1 .. failures'[d])
      BY <2>3 DEF FailedAssertions
    <3>. QED BY <2>1, <2>2, <3>1 DEF FailedAssertions
  <2>4. ASSUME NEW p \in FailedAssertions \cup {new}
        PROVE  p \in FailedAssertions'
    <3>1. CASE p = new
      BY <2>1, <3>1 DEF FailedAssertions
    <3>2. CASE p \in FailedAssertions
      <4>1. PICK d \in Cases : p \in {d} \X (1 .. failures[d])
        BY <3>2 DEF FailedAssertions
      <4>. QED BY <2>1, <2>2, <4>1 DEF FailedAssertions
    <3>. QED BY <2>4, <3>1, <3>2
  <2>. QED BY <2>3, <2>4
<1>. QED BY <1>3, <1>4, FS_AddElement DEF AllFailures

(* Finitely many failed assertions are counted by a number.                *)
LEMMA AllFailuresIsNat ==
  ASSUME IsFiniteSet(FailedAssertions)
  PROVE  AllFailures \in Nat
  BY FS_CardinalityType DEF AllFailures

(* Finitely many threads are between read and write of the total.          *)
LEMMA CountingIsFinite == IsFiniteSet(Counting) /\ Pending \in Nat
<1>1. IsFiniteSet(Threads)
  BY ThreadsAssumption, FS_Singleton, FS_Union DEF Threads
<1>2. IsFiniteSet(Counting)
  BY <1>1, FS_Subset DEF Counting
<1>. QED BY <1>2, FS_CardinalityType DEF Pending

(* Nobody between the two, nothing pending.                                *)
LEMMA NobodyCounts ==
  ASSUME \A t \in Threads : step[t] \notin {"read", "write"}
  PROVE  Counting = {} /\ Pending = 0
<1>1. Counting = {}
  BY DEF Counting
<1>. QED BY <1>1, FS_EmptySet DEF Pending

(* A thread that blames waits to be counted; one that writes is counted.   *)
LEMMA CountingGrows ==
  ASSUME TypeOK, NEW t \in Threads, step[t] = "blame",
         step' = [step EXCEPT ![t] = "read"]
  PROVE  Counting' # {} /\ Pending' = Pending + 1
<1>1. Counting' = Counting \cup {t} /\ t \notin Counting
  BY DEF Counting, TypeOK, ThreadTypes
<1>. QED BY <1>1, CountingIsFinite, FS_AddElement DEF Pending

(* The write ends one thread's increment.                                  *)
LEMMA CountingShrinks ==
  ASSUME TypeOK, NEW t \in Threads, step[t] = "write",
         step' = [step EXCEPT ![t] = "ready"]
  PROVE  Pending' = Pending - 1
<1>1. Counting' = Counting \ {t} /\ t \in Counting
  BY DEF Counting, TypeOK, ThreadTypes
<1>. QED BY <1>1, CountingIsFinite, FS_RemoveElement DEF Pending

(* A step that neither blames, reads nor writes leaves the totals alone.   *)
LEMMA TotalsKept ==
  ASSUME TypeOK, Totals, UNCHANGED <<program, fail_count, total, failures, tmp>>,
         \A t \in Threads : \A at \in {"read", "write"} : step'[t] = at <=> step[t] = at
  PROVE  Totals'
<1>1. Counting' = Counting
  BY DEF Counting
<1>2. Pending' = Pending
  BY <1>1 DEF Pending
<1>3. FailedAssertions' = FailedAssertions
  BY DEF FailedAssertions
<1>4. AllFailures' = AllFailures
  BY <1>3 DEF AllFailures
<1>. QED BY <1>1, <1>2, <1>3, <1>4 DEF Totals

(* A case's counter is marked, and the increment of the total is pending.  *)
LEMMA TotalsBlamed ==
  ASSUME TypeOK, Joined, Totals, ~undefined', NEW t \in Threads, EpilogBlames(t)
  PROVE  Totals'
<1>. USE DEF TypeOK, RunnerTypes, ThreadTypes, BookTypes
<1>1. pc = "body"
  BY DEF EpilogBlames, Joined, Threads
<1>2. current_case = entered /\ entered \in Cases /\ home[t] = entered
  BY <1>1 DEF Joined, Threads, EpilogBlames
<1>3. /\ fail_count' = [fail_count EXCEPT ![entered] = @ + 1]
      /\ failures' = [failures EXCEPT ![entered] = @ + 1]
      /\ step[t] = "blame" /\ step' = [step EXCEPT ![t] = "read"]
      /\ UNCHANGED <<program, tmp, total>>
  BY <1>2, CasesAreNumbers DEF EpilogBlames, Goes, runner
<1>4. IsFiniteSet(FailedAssertions') /\ AllFailures' = AllFailures + 1
  BY <1>2, <1>3, FailuresGrow DEF Totals
<1>5. Counting' # {} /\ Pending' = Pending + 1
  BY <1>3, CountingGrows
<1>6. AllFailures \in Nat /\ Pending \in Nat
  BY AllFailuresIsNat, CountingIsFinite DEF Totals
<1>7. \A u \in Threads : step'[u] = "write" => step[u] = "write" /\ tmp'[u] = tmp[u]
  BY <1>3
<1>8. fail_count' = failures'
  BY <1>3 DEF Totals
<1>9. total' + Pending' <= AllFailures'
      /\ (program'.locked => total' + Pending' = AllFailures')
  BY <1>3, <1>4, <1>5, <1>6 DEF Totals
<1>10. ASSUME NEW u \in Threads, step'[u] = "write"
       PROVE  /\ tmp'[u] + Pending' <= AllFailures'
              /\ program'.locked => tmp'[u] = total'
  <2>1. tmp[u] + Pending <= AllFailures /\ (program.locked => tmp[u] = total)
    BY <1>7, <1>10 DEF Totals
  <2>2. tmp[u] \in Nat
    OBVIOUS
  <2>. QED BY <1>3, <1>4, <1>5, <1>6, <2>1, <2>2
<1>. QED BY <1>4, <1>5, <1>8, <1>9, <1>10 DEF Totals

(* The read of the total changes neither side.                             *)
LEMMA TotalsRead ==
  ASSUME TypeOK, Totals, NEW t \in Threads, EpilogReads(t)
  PROVE  Totals'
<1>. USE DEF TypeOK, ThreadTypes, BookTypes
<1>1. /\ tmp' = [tmp EXCEPT ![t] = total]
      /\ step[t] = "read" /\ step' = [step EXCEPT ![t] = "write"]
      /\ UNCHANGED <<program, fail_count, total, failures>>
  BY DEF EpilogReads, Goes, runner, books
<1>2. Counting' = Counting
  BY <1>1 DEF Counting
<1>3. Pending' = Pending
  BY <1>2 DEF Pending
<1>4. FailedAssertions' = FailedAssertions
  BY <1>1 DEF FailedAssertions
<1>5. AllFailures' = AllFailures
  BY <1>4 DEF AllFailures
<1>6. ASSUME NEW u \in Threads, step'[u] = "write"
      PROVE  /\ tmp'[u] + Pending' <= AllFailures'
             /\ program'.locked => tmp'[u] = total'
  <2>1. CASE u = t
    <3>1. tmp'[u] = total
      BY <1>1, <2>1
    <3>. QED BY <1>1, <1>3, <1>5, <3>1 DEF Totals
  <2>2. CASE u # t
    <3>1. step[u] = "write" /\ tmp'[u] = tmp[u]
      BY <1>1, <1>6, <2>2
    <3>. QED BY <1>1, <1>3, <1>5, <3>1 DEF Totals
  <2>. QED BY <2>1, <2>2
<1>. QED BY <1>1, <1>2, <1>3, <1>4, <1>5, <1>6 DEF Totals

(* Under the lock the write is of what was read, plus one.                 *)
LEMMA TotalsWritten ==
  ASSUME TypeOK, Exclusion, Totals, NEW t \in Threads, EpilogWrites(t)
  PROVE  Totals'
<1>. USE DEF TypeOK, ThreadTypes, BookTypes
<1>1. /\ total' = tmp[t] + 1
      /\ step[t] = "write" /\ step' = [step EXCEPT ![t] = "ready"]
      /\ UNCHANGED <<program, tmp, fail_count, failures>>
  BY DEF EpilogWrites, Incremented, Goes, runner
<1>2. Pending' = Pending - 1
  BY <1>1, CountingShrinks
<1>3. FailedAssertions' = FailedAssertions
  BY <1>1 DEF FailedAssertions
<1>4. AllFailures' = AllFailures
  BY <1>3 DEF AllFailures
<1>5. AllFailures \in Nat /\ Pending \in Nat /\ tmp[t] \in Nat
  BY AllFailuresIsNat, CountingIsFinite DEF Totals
<1>6. /\ tmp[t] + Pending <= AllFailures
      /\ program.locked => tmp[t] = total /\ total + Pending = AllFailures
  BY <1>1 DEF Totals
<1>7. /\ total' + Pending' <= AllFailures' /\ total' > 0
      /\ program'.locked => total' + Pending' = AllFailures'
  BY <1>1, <1>2, <1>4, <1>5, <1>6
<1>8. ASSUME NEW u \in Threads, step'[u] = "write"
      PROVE  /\ tmp'[u] + Pending' <= AllFailures'
             /\ program'.locked => tmp'[u] = total'
  <2>1. u # t /\ step[u] = "write" /\ tmp'[u] = tmp[u] /\ tmp[u] \in Nat
    BY <1>1, <1>8
  <2>2. tmp[u] + Pending <= AllFailures
    BY <2>1 DEF Totals
  <2>3. ~program.locked
    BY <1>1, <2>1 DEF Exclusion, InAssertion
  <2>. QED BY <1>1, <1>2, <1>4, <1>5, <2>1, <2>2, <2>3
<1>. QED BY <1>1, <1>3, <1>7, <1>8 DEF Totals

(* No failure is counted twice, and with a lock none is lost.              *)
LEMMA TotalsStep ==
  ASSUME TypeOK, Exclusion, Joined, Totals, [Next]_vars, ~undefined'
  PROVE  Totals'
<1>. USE DEF TypeOK, ThreadTypes
<1>1. CASE UNCHANGED <<program, step, tmp, books>>
  BY <1>1, TotalsKept DEF books
<1>2. ASSUME NEW t \in Workers, ThreadStarts(t) \/ ThreadEnds(t)
      PROVE  Totals'
  <2>1. UNCHANGED <<program, fail_count, total, failures, tmp>>
        /\ step[t] \in {"off", "ready"}
    BY <1>2, WorkerStartsOrEnds DEF runner, books
  <2>2. PICK to \in {"ready", "done"} : step' = [step EXCEPT ![t] = to]
    BY <1>2, WorkerStartsOrEnds
  <2>3. \A u \in Threads : \A at \in {"read", "write"} : step'[u] = at <=> step[u] = at
    BY <2>1, <2>2
  <2>. QED BY <2>1, <2>3, TotalsKept
<1>3. ASSUME NEW t \in Threads,
             AssertBegins(t) \/ PushBegins(t) \/ PushEnds(t) \/ EpilogTests(t)
      PROVE  Totals'
  <2>1. UNCHANGED <<program, tmp, fail_count, total, failures>>
        /\ step[t] \notin {"read", "write"}
    BY <1>3 DEF AssertBegins, PushBegins, PushEnds, EpilogTests, runner, books
  <2>2. \E to \in {"ready", "push", "pushing", "epilog", "blame"} :
           step' = [step EXCEPT ![t] = to]
    <3>1. CASE AssertBegins(t)
      <4> DEFINE to == IF current_state THEN "push" ELSE Afterwards(t)
      <4>1. step' = [step EXCEPT ![t] = to]
        BY <3>1 DEF AssertBegins, Goes
      <4>2. to \in {"push", "ready", "epilog"}
        BY DEF Afterwards
      <4> HIDE DEF to
      <4>. QED BY <4>1, <4>2
    <3>2. CASE PushBegins(t)
      BY <3>2 DEF PushBegins, Goes
    <3>3. CASE PushEnds(t)
      BY <3>3 DEF PushEnds
    <3>4. CASE EpilogTests(t)
      BY <3>4 DEF EpilogTests, Goes
    <3>. QED BY <1>3, <3>1, <3>2, <3>3, <3>4
  <2>3. \A u \in Threads : \A at \in {"read", "write"} : step'[u] = at <=> step[u] = at
    <3>1. PICK to \in {"ready", "push", "pushing", "epilog", "blame"} :
                  step' = [step EXCEPT ![t] = to]
      BY <2>2
    <3>. QED BY <2>1, <3>1
  <2>4. UNCHANGED <<program, fail_count, total, failures, tmp>>
    BY <2>1
  <2>. QED BY <2>3, <2>4, TotalsKept
<1>. QED
  <2>1. CASE UNCHANGED vars
    BY <1>1, <2>1 DEF vars, runner
  <2>2. CASE RunBegin \/ EnterCase \/ LeaveCase \/ LeaveSuite \/ RunReturn \/ RunThrows
    BY <1>1, <2>2, RunnerMovesNobody
  <2>3. ASSUME NEW t \in Threads, Assertion(t)
        PROVE  Totals'
    BY <1>3, <2>3, TotalsBlamed, TotalsRead, TotalsWritten DEF Assertion
  <2>. QED BY <1>2, <2>1, <2>2, <2>3 DEF Next

(* test_run() returns when nobody asserts, and nothing fails afterwards.   *)
LEMMA ResultStep ==
  ASSUME TypeOK, Joined, Totals, Result, [Next]_vars, ~undefined'
  PROVE  Result'
<1>. USE DEF TypeOK, RunnerTypes, ThreadTypes, BookTypes
<1>1. ASSUME UNCHANGED <<program, pc, ended, failures>>
      PROVE  Result'
  <2>1. AllFailures' = AllFailures
    BY <1>1 DEF AllFailures, FailedAssertions
  <2>2. \A n \in Nat : ReturnOf(n)' <=> ReturnOf(n)
    BY <1>1, <2>1 DEF ReturnOf
  <2>. QED BY <1>1, <2>2 DEF Result, Returned
<1>2. CASE RunBegin \/ EnterCase \/ LeaveCase \/ LeaveSuite
  <2>1. ended' = ended /\ pc # "after"
    BY <1>2 DEF RunBegin, EnterCase, LeaveCase, LeaveSuite, BodyMayEnd, Runs
  <2>. QED BY <2>1 DEF Result, Returned
<1>3. CASE RunReturn
  <2>1. /\ pc = "summary" /\ step[Main] = "ready" /\ pc' = "after"
        /\ ended' = [how |-> "returned", value |-> ReturnValue]
        /\ UNCHANGED <<program, failures>>
    BY <1>3 DEF RunReturn, Runs, OnlyRunner, books
  <2>2. \A t \in Threads : step[t] \notin {"read", "write"}
    BY <2>1 DEF Joined, Threads
  <2>3. Counting = {} /\ Pending = 0
    BY <2>2, NobodyCounts
  <2>4. AllFailures' = AllFailures /\ AllFailures \in Nat
    BY <2>1, AllFailuresIsNat DEF AllFailures, FailedAssertions, Totals
  <2>5. total <= AllFailures /\ (AllFailures = 0 \/ total > 0)
        /\ (program.locked => total = AllFailures)
    BY <2>3, <2>4 DEF Totals
  <2>6. total = 0 <=> AllFailures = 0
    BY <2>4, <2>5
  <2>7. PICK n \in Nat : n = total
    OBVIOUS
  <2>8. ReturnOf(n)'
    BY <2>1, <2>4, <2>5, <2>6, <2>7 DEF ReturnOf, ReturnValue
  <2>. QED BY <2>1, <2>8 DEF Result
<1>4. CASE RunThrows
  BY <1>4 DEF RunThrows, Result, Returned
<1>5. ASSUME NEW t \in Threads, Assertion(t)
      PROVE  Result'
  <2>1. UNCHANGED <<program, pc, ended>>
    BY <1>5, AssertionLeavesRunner DEF runner
  <2>2. CASE ~EpilogBlames(t)
    <3>1. failures' = failures
      BY <1>5, <2>2 DEF Assertion, AssertBegins, PushBegins, PushEnds, EpilogTests,
                        EpilogReads, EpilogWrites, books
    <3>. QED BY <1>1, <2>1, <3>1
  <2>3. CASE EpilogBlames(t)
    <3>1. pc = "body"
      BY <2>3 DEF EpilogBlames, Joined, Threads
    <3>. QED BY <2>1, <3>1 DEF Result, Returned
  <2>. QED BY <2>2, <2>3
<1>6. ASSUME NEW t \in Workers, ThreadStarts(t) \/ ThreadEnds(t)
      PROVE  Result'
  BY <1>1, <1>6, WorkerStartsOrEnds DEF runner, books
<1>7. CASE UNCHANGED vars
  BY <1>1, <1>7 DEF vars, runner, books
<1>. QED BY <1>2, <1>3, <1>4, <1>5, <1>6, <1>7 DEF Next

-----------------------------------------------------------------------------
(* The theorems                                                            *)

LEMMA IInvInit == Init => IInv
<1>. SUFFICES ASSUME Init
              PROVE  IInv
  OBVIOUS
<1>. USE DEF Init
<1>0. Main \in Threads /\ Workers \subseteq Threads /\ Main \notin Workers
  BY ThreadsAssumption DEF Threads
<1>1. RunnerTypes
  <2>1. program \in AllPrograms
    BY ThreadsAssumption DEF AllPrograms
  <2>2. /\ ended \in [how : {"not", "returned", "threw"}, value : Int]
        /\ entered \in 0 .. CaseCount
    BY ThreadsAssumption DEF NotEnded
  <2>. QED BY <2>1, <2>2 DEF RunnerTypes
<1>2. ThreadTypes
  BY DEF ThreadTypes, Steps
<1>3. BookTypes
  BY DEF BookTypes
<1>4. Exclusion
  BY DEF Exclusion, InAssertion
<1>5. Joined
  BY <1>0 DEF Joined
<1>6. Recorded
  BY DEF Recorded
<1>7. Counting = {} /\ Pending = 0
  <2>1. \A t \in Threads : step[t] \notin {"read", "write"}
    OBVIOUS
  <2>. QED BY <2>1, NobodyCounts
<1>8. FailedAssertions = {}
  BY DEF FailedAssertions
<1>9. IsFiniteSet(FailedAssertions) /\ AllFailures = 0
  BY <1>8, FS_EmptySet DEF AllFailures
<1>10. Totals
  BY <1>7, <1>9 DEF Totals
<1>11. Result
  BY DEF Result, Returned, NotEnded
<1>. QED BY <1>1, <1>2, <1>3, <1>4, <1>5, <1>6, <1>10, <1>11
         DEF IInv, TypeOK, NoUndefinedUse, JoinedInv

(* Every step keeps the invariant.                                         *)
LEMMA IInvStep == IInv /\ [Next]_vars => IInv'
<1>. SUFFICES ASSUME IInv, [Next]_vars
              PROVE  IInv'
  OBVIOUS
<1>1. TypeOK'
  BY RunnerTypesStep, ThreadTypesStep, BookTypesStep DEF IInv, TypeOK
<1>2. Exclusion'
  BY ExclusionStep DEF IInv
<1>3. program' = program
  BY RunnerMovesNobody, WorkerStartsOrEnds, AssertionLeavesRunner DEF Next, vars, runner
<1>4. CASE Next
  <2>1. ~undefined
    BY <1>4 DEF Next
  <2>2. NoUndefinedUse'
    BY <1>3, <2>1, CarefulStep DEF IInv, NoUndefinedUse, JoinedInv, Careful
  <2>3. JoinedInv'
    BY <1>3, <2>1, JoinedStep, RecordedStep, TotalsStep, ResultStep DEF IInv, JoinedInv
  <2>. QED BY <1>1, <1>2, <2>2, <2>3 DEF IInv
<1>5. CASE UNCHANGED vars
  <2>1. UNCHANGED undefined
    BY <1>5 DEF vars
  <2>2. NoUndefinedUse'
    BY <1>3, <2>1 DEF IInv, NoUndefinedUse, Careful
  <2>3. JoinedInv'
    BY <1>3, <2>1, JoinedStep, RecordedStep, TotalsStep, ResultStep DEF IInv, JoinedInv
  <2>. QED BY <1>1, <1>2, <2>2, <2>3 DEF IInv
<1>. QED BY <1>4, <1>5

(* The invariant holds of every program, joined or not, locked or not.     *)
THEOREM Invariance == Spec => []IInv
  BY IInvInit, IInvStep, PTL DEF Spec

(* However many threads the tests start, threads that are joined by their  *)
(* bodies and assert under one lock of the tests' own follow no null       *)
(* pointer of the test state and push no two records at once.              *)
THEOREM LockedIsDefined == Spec => []NoUndefinedUse
<1>1. IInv => NoUndefinedUse
  BY DEF IInv
<1>. QED BY <1>1, Invariance, PTL

(* Their failures are charged to the cases whose bodies started them.      *)
THEOREM ChargesAreRight == Spec => []ChargedToHome
<1>1. IInv => ChargedToHome
  BY DEF IInv, NoUndefinedUse, JoinedInv, ChargedToHome, Careful, Totals
<1>. QED BY <1>1, Invariance, PTL

(* None of their increments is lost: the metrics are the number of         *)
(* failures, and the value that test_run() returns is that number up to    *)
(* INT_MAX, and congruent to it beyond.                                    *)
THEOREM NoIncrementLost == Spec => []ReturnCountsFailures
<1>1. IInv => ReturnCountsFailures
  <2>. SUFFICES ASSUME IInv, Careful
                PROVE  /\ (\A t \in Threads : ~InAssertion(t)) => total = AllFailures
                       /\ Returned =>
                            /\ ended.value % Modulus(INT_MAX) = AllFailures % Modulus(INT_MAX)
                            /\ AllFailures <= INT_MAX => ended.value = AllFailures
    BY DEF ReturnCountsFailures
  <2>1. Totals /\ Result /\ program.locked /\ total \in Nat
    BY DEF IInv, NoUndefinedUse, JoinedInv, Careful, TypeOK, BookTypes
  <2>2. ASSUME \A t \in Threads : ~InAssertion(t)
        PROVE  total = AllFailures
    <3>1. Pending = 0
      BY <2>2, NobodyCounts DEF InAssertion
    <3>2. total + Pending = AllFailures
      BY <2>1 DEF Totals
    <3>. QED BY <2>1, <3>1, <3>2
  <2>3. ASSUME Returned
        PROVE  /\ ended.value % Modulus(INT_MAX) = AllFailures % Modulus(INT_MAX)
               /\ AllFailures <= INT_MAX => ended.value = AllFailures
    <3>1. AllFailures \in Nat /\ ended.value = ToSigned(AllFailures, INT_MAX)
      BY <2>1, <2>3 DEF Result, ReturnOf
    <3>2. AllFailures <= INT_MAX => AllFailures \in Signed(INT_MAX)
      BY <3>1, ThreadsAssumption DEF Signed
    <3>. QED BY <3>1, <3>2, SignedKeeps, ThreadsAssumption
  <2>. QED BY <2>2, <2>3
<1>. QED BY <1>1, Invariance, PTL

(* Without the lock increments are lost, never all of them, and none is    *)
(* gained: as long as the behaviour is defined, 0 is returned only if no   *)
(* assertion failed or as many as int has values, and what is returned for *)
(* up to INT_MAX failures is no more than them.                            *)
THEOREM ZeroIsClean == Spec => []ZeroMeansClean
<1>1. IInv => ZeroMeansClean
  <2>. SUFFICES ASSUME IInv, Returned, program.joined, ~undefined
                PROVE  /\ AllFailures <= INT_MAX => ended.value \in 0 .. AllFailures
                       /\ ended.value = 0 => AllFailures = 0 \/ AllFailures >= Modulus(INT_MAX)
    BY DEF ZeroMeansClean
  <2>1. Totals /\ Result
    BY DEF IInv, JoinedInv
  <2>2. PICK n \in Nat : ReturnOf(n)
    BY <2>1 DEF Result
  <2>3. /\ ended.value = ToSigned(n, INT_MAX) /\ n <= AllFailures
        /\ n = 0 <=> AllFailures = 0
    BY <2>2 DEF ReturnOf
  <2>4. AllFailures \in Nat
    BY <2>1, AllFailuresIsNat DEF Totals
  <2>5. n <= INT_MAX => ended.value = n
    <3>1. n <= INT_MAX => n \in Signed(INT_MAX)
      BY ThreadsAssumption DEF Signed
    <3>. QED BY <2>3, <3>1, SignedKeeps, ThreadsAssumption
  <2>6. ended.value = 0 => n = 0 \/ n >= Modulus(INT_MAX)
    BY <2>3, KeptAsZero, ThreadsAssumption
  <2>7. Modulus(INT_MAX) \in Nat
    BY ThreadsAssumption DEF Modulus
  <2>. QED BY <2>3, <2>4, <2>5, <2>6, <2>7, ThreadsAssumption
<1>. QED BY <1>1, Invariance, PTL
=============================================================================
