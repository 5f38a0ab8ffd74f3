--------------------------- MODULE TestRunProofs ---------------------------
(***************************************************************************)
(* Theorems about TestRun, for every registry of sets, suites and cases    *)
(* and every value of the bounds.                                          *)
(*                                                                         *)
(* The inductive invariant is a conjunction of parts, each with a lemma    *)
(* that every step preserves it: types, pointers, and then the books.      *)
(***************************************************************************)
EXTENDS TestRun, FunctionTheorems, DataLemmas

-----------------------------------------------------------------------------
(* Facts about the operators of TestRun                                    *)

(***************************************************************************)
(* An open exception assertion has an entry of the running case, and       *)
(* entries are added in step with the history: BackFailed always has an    *)
(* entry to mark.                                                          *)
(***************************************************************************)
FramesMarkEntries ==
    /\ \A c \in CaseIds : Len(assertions[c]) = Len(actual[c])
    /\ \A i \in DOMAIN frames : frames[i] <= Len(assertions[cur.case])

(* While a loop runs, the object it points at is of the registry.          *)
LEMMA CurrentObjects ==
  ASSUME LoopTypes, PointersFollowLoops
  PROVE  /\ InSets => cur.set \in SetIds
         /\ InSuites => cur.suite \in SuiteIds
         /\ InCases => cur.case \in CaseIds
  BY LayoutAssumption
  DEF LoopTypes, PointersFollowLoops, InSets, InSuites, InCases, PCs

(* The next object of a loop is of the registry.                           *)
LEMMA NextObjects ==
  ASSUME LoopTypes, PointersFollowLoops
  PROVE  /\ EnterSuite => SuitesOf[cur.set][pos.suite + 1] \in SuiteIds
         /\ EnterCase => CasesOf[cur.suite][pos.case + 1] \in CaseIds
<1>1. pos.suite + 1 \in Nat \ {0} /\ pos.case + 1 \in Nat \ {0}
  BY DEF LoopTypes
<1>2. ASSUME EnterSuite PROVE SuitesOf[cur.set][pos.suite + 1] \in SuiteIds
  <2>1. SuitesOf[cur.set] \in Seq(SuiteIds)
    BY <1>2, CurrentObjects, LayoutAssumption DEF EnterSuite, InSets
  <2>2. pos.suite < Len(SuitesOf[cur.set])
    BY <1>2 DEF EnterSuite
  <2>3. pos.suite + 1 \in 1 .. Len(SuitesOf[cur.set])
    BY <1>1, <2>1, <2>2 DEF LoopTypes
  <2>. QED BY <2>1, <2>3
<1>3. ASSUME EnterCase PROVE CasesOf[cur.suite][pos.case + 1] \in CaseIds
  <2>1. CasesOf[cur.suite] \in Seq(CaseIds)
    BY <1>3, CurrentObjects, LayoutAssumption DEF EnterCase, InSuites
  <2>2. pos.case < Len(CasesOf[cur.suite])
    BY <1>3 DEF EnterCase
  <2>3. pos.case + 1 \in 1 .. Len(CasesOf[cur.suite])
    BY <1>1, <2>1, <2>2 DEF LoopTypes
  <2>. QED BY <2>1, <2>3
<1>. QED BY <1>2, <1>3

(* test_assert_epilog changes no record but the last, and adds none.       *)
LEMMA BackFailedType ==
  ASSUME NEW entries \in Seq(BOOLEAN), Len(entries) > 0
  PROVE  /\ BackFailed(entries) \in Seq(BOOLEAN)
         /\ Len(BackFailed(entries)) = Len(entries)
         /\ ~BackFailed(entries)[Len(entries)]
  BY DEF BackFailed

(* test_assert_prolog adds one record, which says succeeded.               *)
LEMMA PushedType ==
  ASSUME NEW entries \in Seq(BOOLEAN)
  PROVE  /\ Pushed(entries) \in Seq(BOOLEAN)
         /\ Len(Pushed(entries)) = Len(entries) + 1
  BY DEF Pushed

(* test_assert_prolog keeps the records that were there.                   *)
LEMMA PushedEntries ==
  ASSUME NEW entries \in Seq(BOOLEAN)
  PROVE  /\ \A i \in 1 .. Len(entries) : Pushed(entries)[i] = entries[i]
         /\ Pushed(entries)[Len(entries) + 1] = TRUE
<1>1. PICK value \in BOOLEAN : value = TRUE
  OBVIOUS
<1>2. /\ \A i \in 1 .. Len(entries) : Append(entries, value)[i] = entries[i]
      /\ Append(entries, value)[Len(entries) + 1] = value
  OBVIOUS
<1>3. Pushed(entries) = Append(entries, value)
  BY <1>1, Zenon DEF Pushed
<1>. QED BY <1>1, <1>2, <1>3, Zenon

(* Closing the innermost exception assertion keeps the others.             *)
LEMMA InnermostClosedType ==
  ASSUME frames \in Seq(Nat \ {0}), frames # <<>>
  PROVE  /\ InnermostClosed \in Seq(Nat \ {0})
         /\ DOMAIN InnermostClosed = 1 .. (Len(frames) - 1)
         /\ \A i \in DOMAIN InnermostClosed : InnermostClosed[i] = frames[i]
  BY DEF InnermostClosed

-----------------------------------------------------------------------------
(* Types and pointers                                                      *)

(* The loop variables and pointers keep their types.                       *)
LEMMA LoopTypesStep ==
  ASSUME LoopTypes, BookTypes, PointersFollowLoops, [Next]_vars
  PROVE  LoopTypes'
<1>. USE DEF registry, control, objects, headers, strays, history, PCs
<1>1. ASSUME NEW s \in SetIds, TestAdd(s) PROVE LoopTypes'
  BY <1>1 DEF LoopTypes, TestAdd
<1>2. CASE RunBegin
  BY <1>2 DEF LoopTypes, RunBegin, NoPointers, LoopStart
<1>3. CASE EnterSet
  <2>1. suite_sets[pos.set + 1] \in SetIds
    BY <1>3 DEF EnterSet, LoopTypes
  <2>2. cur' = [cur EXCEPT !.set = suite_sets[pos.set + 1]]
    BY <1>3 DEF EnterSet
  <2>3. cur' \in [set : SetIds \cup {NULL}, suite : SuiteIds \cup {NULL},
                  case : CaseIds \cup {NULL}]
    BY <2>1, <2>2 DEF LoopTypes
  <2>. QED BY <1>3, <2>3 DEF EnterSet, LoopTypes, NextSet
<1>4. CASE EnterSuite
  <2>1. SuitesOf[cur.set][pos.suite + 1] \in SuiteIds
    BY <1>4, NextObjects
  <2>2. cur' = [cur EXCEPT !.suite = SuitesOf[cur.set][pos.suite + 1]]
    BY <1>4 DEF EnterSuite
  <2>3. cur' \in [set : SetIds \cup {NULL}, suite : SuiteIds \cup {NULL},
                  case : CaseIds \cup {NULL}]
    BY <2>1, <2>2 DEF LoopTypes
  <2>4. pos' \in [set : Nat, suite : Nat, case : Nat]
    BY <1>4 DEF EnterSuite, LoopTypes, NextSuite
  <2>. QED BY <1>4, <2>3, <2>4 DEF EnterSuite, LoopTypes
<1>5. CASE EnterCase
  <2>1. CasesOf[cur.suite][pos.case + 1] \in CaseIds
    BY <1>5, NextObjects
  <2>2. cur' = [cur EXCEPT !.case = CasesOf[cur.suite][pos.case + 1]]
    BY <1>5 DEF EnterCase
  <2>3. cur' \in [set : SetIds \cup {NULL}, suite : SuiteIds \cup {NULL},
                  case : CaseIds \cup {NULL}]
    BY <2>1, <2>2 DEF LoopTypes
  <2>4. pos' \in [set : Nat, suite : Nat, case : Nat]
    <3>1. pos' = [pos EXCEPT !.case = @ + 1]
      BY <1>5 DEF EnterCase
    <3>. QED BY <3>1 DEF LoopTypes
  <2>5. ran' \in Seq(CaseIds)
    BY <1>5, <2>1 DEF EnterCase, LoopTypes
  <2>6. pc' \in PCs /\ UNCHANGED <<suite_sets, runs, current_state, ended>>
    BY <1>5 DEF EnterCase
  <2>. QED BY <2>3, <2>4, <2>5, <2>6 DEF LoopTypes
<1>6. CASE LeaveCase
  <2>1. /\ cur' = [cur EXCEPT !.case = NULL] /\ pc' = "cases"
        /\ UNCHANGED <<suite_sets, runs, pos, current_state, ran, ended>>
    BY <1>6 DEF LeaveCase
  <2>. QED BY <2>1 DEF LoopTypes
<1>7. CASE LeaveSuite
  <2>1. /\ cur' = [cur EXCEPT !.suite = NULL] /\ pc' = "suites"
        /\ UNCHANGED <<suite_sets, runs, pos, current_state, ran, ended>>
    BY <1>7 DEF LeaveSuite
  <2>. QED BY <2>1 DEF LoopTypes
<1>8. CASE LeaveSet
  <2>1. /\ cur' = [cur EXCEPT !.set = NULL] /\ pc' = "sets"
        /\ UNCHANGED <<suite_sets, runs, pos, current_state, ran, ended>>
    BY <1>8 DEF LeaveSet
  <2>. QED BY <2>1 DEF LoopTypes
<1>9. CASE RunReturn
  <2>1. ReturnValue \in Int
    BY SignedKeeps, BoundsAssumption DEF BookTypes, ReturnValue
  <2>. QED BY <1>9, <2>1 DEF RunReturn, LoopTypes, Verdict
<1>10. CASE RunThrows
  BY <1>10 DEF RunThrows, LoopTypes, NoPointers, ScopesEnd
<1>11. CASE AssertHolds \/ AssertFails \/ ExpectBegin \/ ExpectHolds \/ ExpectFails
  BY <1>11
  DEF LoopTypes, AssertHolds, AssertFails, ExpectBegin, ExpectHolds, ExpectFails
<1>12. ASSUME NEW h \in BOOLEAN, AssertRunaway(h) PROVE LoopTypes'
  BY <1>12 DEF LoopTypes, AssertRunaway
<1>13. CASE UNCHANGED vars
  BY <1>13 DEF LoopTypes, vars
<1>. QED
  BY <1>1, <1>2, <1>3, <1>4, <1>5, <1>6, <1>7, <1>8, <1>9, <1>10, <1>11,
     <1>12, <1>13
  DEF Next, RunnerStep

(* The pointers of test_state follow the loops through every step.         *)
LEMMA PointersStep ==
  ASSUME LoopTypes, PointersFollowLoops, [Next]_vars
  PROVE  PointersFollowLoops'
<1>. USE DEF registry, control, objects, headers, strays, history, PCs,
             LoopTypes, PointersFollowLoops, InSets, InSuites, InCases
<1>1. ASSUME NEW s \in SetIds, TestAdd(s) PROVE PointersFollowLoops'
  BY <1>1 DEF TestAdd
<1>2. CASE RunBegin
  BY <1>2 DEF RunBegin, NoPointers, LoopStart
<1>3. CASE EnterSet
  BY <1>3 DEF EnterSet, NextSet
<1>4. CASE EnterSuite
  BY <1>4, LayoutAssumption DEF EnterSuite, NextSuite
<1>5. CASE EnterCase
  BY <1>5, LayoutAssumption DEF EnterCase
<1>6. CASE LeaveCase
  BY <1>6 DEF LeaveCase
<1>7. CASE LeaveSuite
  BY <1>7 DEF LeaveSuite
<1>8. CASE LeaveSet
  BY <1>8 DEF LeaveSet
<1>9. CASE RunReturn
  BY <1>9 DEF RunReturn
<1>10. CASE RunThrows
  BY <1>10 DEF RunThrows, NoPointers, ScopesEnd
<1>11. CASE AssertHolds \/ AssertFails \/ ExpectBegin \/ ExpectHolds \/ ExpectFails
  BY <1>11
  DEF AssertHolds, AssertFails, ExpectBegin, ExpectHolds, ExpectFails,
      MayAssert, InBody
<1>12. ASSUME NEW h \in BOOLEAN, AssertRunaway(h) PROVE PointersFollowLoops'
  BY <1>12 DEF AssertRunaway
<1>13. CASE UNCHANGED vars
  BY <1>13 DEF vars
<1>. QED
  BY <1>1, <1>2, <1>3, <1>4, <1>5, <1>6, <1>7, <1>8, <1>9, <1>10, <1>11,
     <1>12, <1>13
  DEF Next, RunnerStep

-----------------------------------------------------------------------------
(* The counters, the printed lines and the records                         *)

(* The counters of the suites, the cases and the run are natural numbers.  *)
LEMMA BookTypesStep ==
  ASSUME LoopTypes, PointersFollowLoops, BookTypes, [Next]_vars
  PROVE  BookTypes'
<1>. USE DEF registry, control, objects, headers, strays, history, BookTypes
<1>. DEFINE MetricsType == [suite_count : Nat, case_count : Nat,
              assertion_count : Nat, case_fail_count : Nat,
              assertion_fail_count : Nat]
<1>1. CASE RunBegin
  BY <1>1 DEF RunBegin, NoMetrics
<1>2. CASE EnterSet
  <2>. DEFINE n == Len(SuitesOf[suite_sets[pos.set + 1]])
  <2>1. suite_sets[pos.set + 1] \in SetIds
    BY <1>2 DEF EnterSet, LoopTypes
  <2>2. n \in Nat
    BY <2>1, LayoutAssumption
  <2>3. metrics' = [metrics EXCEPT !.suite_count = @ + n]
    BY <1>2 DEF EnterSet
  <2>4. UNCHANGED <<assertion_fail_count, case_fail_count, start>>
    BY <1>2 DEF EnterSet
  <2>. HIDE DEF n
  <2>. QED BY <2>2, <2>3, <2>4
<1>3. CASE EnterSuite
  <2>. DEFINE n == Len(CasesOf[SuitesOf[cur.set][pos.suite + 1]])
  <2>1. SuitesOf[cur.set][pos.suite + 1] \in SuiteIds
    BY <1>3, NextObjects
  <2>2. n \in Nat
    BY <2>1, LayoutAssumption
  <2>3. metrics' = [metrics EXCEPT !.case_count = @ + n]
    BY <1>3 DEF EnterSuite
  <2>4. UNCHANGED <<assertion_fail_count, case_fail_count, start>>
    BY <1>3 DEF EnterSuite
  <2>. HIDE DEF n
  <2>. QED BY <2>2, <2>3, <2>4
<1>4. CASE LeaveCase
  <2>1. UNCHANGED <<assertion_fail_count, case_fail_count, start>>
    BY <1>4 DEF LeaveCase
  <2>2. metrics' = metrics \/ metrics' = [metrics EXCEPT !.case_fail_count = @ + 1]
    BY <1>4 DEF LeaveCase
  <2>. QED BY <2>1, <2>2
<1>5. CASE AssertHolds \/ ExpectBegin
  <2>1. UNCHANGED <<assertion_fail_count, case_fail_count, start>>
    BY <1>5 DEF AssertHolds, ExpectBegin
  <2>2. metrics' = Counted(metrics)
    BY <1>5 DEF AssertHolds, ExpectBegin
  <2>. QED BY <2>1, <2>2 DEF Counted
<1>6. CASE AssertFails \/ ExpectFails
  <2>1. start' = start /\ CountFailure /\ pc = "body"
    BY <1>6 DEF AssertFails, ExpectFails, MayAssert, InBody
  <2>2. cur.suite \in SuiteIds /\ cur.case \in CaseIds
    BY <2>1, CurrentObjects DEF InSuites, InCases
  <2>3. /\ assertion_fail_count' \in [CaseIds -> Nat]
        /\ case_fail_count' \in [SuiteIds -> Nat]
    BY <2>1, <2>2 DEF CountFailure
  <2>4. PICK m \in {metrics, Counted(metrics)} : metrics' = FailCounted(m)
    BY <1>6 DEF AssertFails, ExpectFails
  <2>5. m \in MetricsType
    BY <2>4 DEF Counted
  <2>6. metrics' \in MetricsType
    BY <2>4, <2>5 DEF FailCounted
  <2>. QED BY <2>1, <2>3, <2>6
<1>7. CASE UNCHANGED <<metrics, assertion_fail_count, case_fail_count, start>>
  BY <1>7
<1>8. CASE \E s \in SetIds : TestAdd(s)
  BY <1>7, <1>8 DEF TestAdd
<1>9. CASE LeaveSuite \/ LeaveSet \/ RunReturn \/ RunThrows \/ ExpectHolds
  BY <1>7, <1>9 DEF LeaveSuite, LeaveSet, RunReturn, RunThrows, ExpectHolds
<1>10. CASE EnterCase \/ \E h \in BOOLEAN : AssertRunaway(h)
  BY <1>7, <1>10 DEF EnterCase, AssertRunaway
<1>11. CASE UNCHANGED vars
  BY <1>7, <1>11 DEF vars
<1>. QED
  BY <1>1, <1>2, <1>3, <1>4, <1>5, <1>6, <1>8, <1>9, <1>10, <1>11
  DEF Next, RunnerStep

(* What is printed is counted by natural numbers.                          *)
LEMMA LineTypesStep ==
  ASSUME LoopTypes, PointersFollowLoops, LineTypes, [Next]_vars
  PROVE  LineTypes'
<1>. USE DEF registry, control, objects, headers, strays, history, LineTypes
<1>1. CASE AssertFails \/ ExpectFails
  <2>1. UNCHANGED strays /\ CountFailure /\ pc = "body"
    BY <1>1 DEF AssertFails, ExpectFails, MayAssert, InBody
  <2>2. cur.suite \in SuiteIds /\ cur.case \in CaseIds
    BY <2>1, CurrentObjects DEF InSuites, InCases
  <2>. QED BY <2>1, <2>2 DEF CountFailure
<1>2. ASSUME NEW h \in BOOLEAN, AssertRunaway(h) PROVE LineTypes'
  BY <1>2 DEF AssertRunaway
<1>3. CASE UNCHANGED <<headers, strays>>
  BY <1>3
<1>4. CASE (\E s \in SetIds : TestAdd(s)) \/ RunBegin
  BY <1>4 DEF TestAdd, RunBegin
<1>5. CASE EnterSet \/ EnterSuite \/ EnterCase
  BY <1>3, <1>5 DEF EnterSet, EnterSuite, EnterCase
<1>6. CASE LeaveCase \/ LeaveSuite \/ LeaveSet \/ RunReturn \/ RunThrows
  BY <1>3, <1>6 DEF LeaveCase, LeaveSuite, LeaveSet, RunReturn, RunThrows
<1>7. CASE AssertHolds \/ ExpectBegin \/ ExpectHolds
  BY <1>3, <1>7 DEF AssertHolds, ExpectBegin, ExpectHolds
<1>8. CASE UNCHANGED vars
  BY <1>3, <1>8 DEF vars
<1>. QED
  BY <1>1, <1>2, <1>4, <1>5, <1>6, <1>7, <1>8 DEF Next, RunnerStep

(* Records are added and marked, and open exception assertions are within  *)
(* the records of the running case.                                        *)
LEMMA RecordsStep ==
  ASSUME LoopTypes, PointersFollowLoops, RecordTypes, FramesMarkEntries,
         [Next]_vars
  PROVE  RecordTypes' /\ FramesMarkEntries'
<1>. USE DEF registry, control, objects, headers, strays, history
<1>1. CASE UNCHANGED <<assertions, actual, frames, cur>>
  BY <1>1 DEF RecordTypes, FramesMarkEntries
<1>2. ASSUME frames = <<>>, UNCHANGED <<assertions, actual, frames>>
      PROVE  RecordTypes' /\ FramesMarkEntries'
  BY <1>2 DEF RecordTypes, FramesMarkEntries
<1>3. CASE (\E s \in SetIds : TestAdd(s)) \/ RunBegin
  BY <1>2, <1>3
  DEF TestAdd, RunBegin, PointersFollowLoops, InCases
<1>4. CASE EnterSet \/ EnterSuite \/ EnterCase
  BY <1>2, <1>4
  DEF EnterSet, EnterSuite, EnterCase, PointersFollowLoops, InCases
<1>5. CASE LeaveCase \/ LeaveSuite \/ LeaveSet \/ RunReturn \/ RunThrows
  BY <1>2, <1>5
  DEF LeaveCase, LeaveSuite, LeaveSet, RunReturn, RunThrows,
      PointersFollowLoops, InCases
<1>6. CASE AssertHolds \/ AssertFails \/ ExpectBegin \/ ExpectHolds \/ ExpectFails
  <2>. DEFINE c == cur.case
              old == assertions[c]
  <2>1. c \in CaseIds
    BY <1>6, CurrentObjects
    DEF InCases, AssertHolds, AssertFails, ExpectBegin, ExpectHolds,
        ExpectFails, MayAssert, InBody
  <2>2. old \in Seq(BOOLEAN) /\ actual[c] \in Seq(BOOLEAN)
    BY <2>1 DEF RecordTypes
  <2>3. ASSUME NEW new \in Seq(BOOLEAN), NEW found \in Seq(BOOLEAN),
               Len(new) = Len(found), Len(new) \in {Len(old), Len(old) + 1},
               assertions' = [assertions EXCEPT ![c] = new],
               actual' = [actual EXCEPT ![c] = found],
               UNCHANGED cur,
               frames' \in Seq(Nat \ {0}),
               \A i \in DOMAIN frames' :
                  frames'[i] <= Len(new)
        PROVE  RecordTypes' /\ FramesMarkEntries'
    <3>1. RecordTypes'
      BY <2>1, <2>3 DEF RecordTypes
    <3>2. FramesMarkEntries'
      BY <2>1, <2>3 DEF RecordTypes, FramesMarkEntries
    <3>. QED BY <3>1, <3>2
  <2>4. Len(old) = Len(actual[c]) /\ \A i \in DOMAIN frames : frames[i] <= Len(old)
    BY <2>1 DEF FramesMarkEntries
  <2>5. frames \in Seq(Nat \ {0})
    BY DEF RecordTypes
  <2>6. UNCHANGED cur
    BY <1>6 DEF AssertHolds, AssertFails, ExpectBegin, ExpectHolds, ExpectFails
  <2>7. /\ Pushed(old) \in Seq(BOOLEAN)
        /\ Len(Pushed(old)) = Len(old) + 1
        /\ BackFailed(Pushed(old)) \in Seq(BOOLEAN)
        /\ Len(BackFailed(Pushed(old))) = Len(old) + 1
    <3>. DEFINE new == Pushed(old)
    <3>1. new \in Seq(BOOLEAN) /\ Len(new) = Len(old) + 1
      BY <2>2, PushedType
    <3>2. Len(new) > 0
      BY <2>2, <3>1
    <3>. HIDE DEF new
    <3>3. BackFailed(new) \in Seq(BOOLEAN) /\ Len(BackFailed(new)) = Len(new)
      BY <3>1, <3>2, BackFailedType
    <3>. QED BY <3>1, <3>3 DEF new
  <2>8. ASSUME NEW b \in BOOLEAN
        PROVE  /\ Append(actual[c], b) \in Seq(BOOLEAN)
               /\ Len(Append(actual[c], b)) = Len(old) + 1
    BY <2>2, <2>4
  <2>9. ASSUME frames # <<>>
         PROVE  /\ InnermostClosed \in Seq(Nat \ {0})
                /\ \A i \in DOMAIN InnermostClosed : InnermostClosed[i] <= Len(old)
    <3>1. /\ InnermostClosed \in Seq(Nat \ {0})
          /\ DOMAIN InnermostClosed = 1 .. (Len(frames) - 1)
          /\ \A i \in DOMAIN InnermostClosed : InnermostClosed[i] = frames[i]
      BY <2>5, <2>9, InnermostClosedType
    <3>2. 1 .. (Len(frames) - 1) \subseteq DOMAIN frames
      BY <2>5
    <3>. QED BY <2>4, <3>1, <3>2
  <2>10. CASE AssertHolds
    <3>1. /\ assertions' = [assertions EXCEPT ![c] = Pushed(old)]
          /\ actual' = [actual EXCEPT ![c] = Append(actual[c], TRUE)]
          /\ frames' = frames
      BY <2>10 DEF AssertHolds
    <3>2. \A i \in DOMAIN frames' : frames'[i] <= Len(Pushed(old))
      BY <2>2, <2>4, <2>5, <2>7, <3>1
    <3>. QED BY <2>3, <2>5, <2>6, <2>7, <2>8, <3>1, <3>2
  <2>11. CASE AssertFails
    <3>1. /\ assertions' = [assertions EXCEPT ![c] = BackFailed(Pushed(old))]
          /\ actual' = [actual EXCEPT ![c] = Append(actual[c], FALSE)]
          /\ frames' = frames
      BY <2>11 DEF AssertFails
    <3>2. \A i \in DOMAIN frames' : frames'[i] <= Len(BackFailed(Pushed(old)))
      BY <2>2, <2>4, <2>5, <2>7, <3>1
    <3>. QED BY <2>3, <2>5, <2>6, <2>7, <2>8, <3>1, <3>2
  <2>12. CASE ExpectBegin
    <3>1. /\ assertions' = [assertions EXCEPT ![c] = Pushed(old)]
          /\ actual' = [actual EXCEPT ![c] = Append(actual[c], TRUE)]
          /\ frames' = Append(frames, Len(old) + 1)
      BY <2>12 DEF ExpectBegin
    <3>2. frames' \in Seq(Nat \ {0})
      BY <2>2, <2>5, <3>1
    <3>3. \A i \in DOMAIN frames' : frames'[i] <= Len(Pushed(old))
      BY <2>2, <2>4, <2>5, <2>7, <3>1
    <3>. QED BY <2>3, <2>6, <2>7, <2>8, <3>1, <3>2, <3>3
  <2>13. CASE ExpectHolds
    <3>1. frames' = InnermostClosed /\ frames # <<>> /\ UNCHANGED <<assertions, actual>>
      BY <2>13 DEF ExpectHolds
    <3>2. /\ frames' \in Seq(Nat \ {0})
          /\ \A i \in DOMAIN frames' : frames'[i] <= Len(old)
      BY <3>1, <2>9
    <3>. QED BY <2>1, <2>6, <3>1, <3>2 DEF RecordTypes, FramesMarkEntries
  <2>14. CASE ExpectFails
    <3>. DEFINE k == frames[Len(frames)]
                found == [actual[c] EXCEPT ![k] = FALSE]
    <3>1. /\ assertions' = [assertions EXCEPT ![c] = BackFailed(old)]
          /\ actual' = [actual EXCEPT ![c] = found]
          /\ frames' = InnermostClosed /\ frames # <<>>
      BY <2>14 DEF ExpectFails
    <3>2. k \in 1 .. Len(old)
      BY <2>2, <2>4, <2>5, <3>1
    <3>3. found \in Seq(BOOLEAN) /\ Len(found) = Len(old)
      BY <2>2, <2>4, <3>2
    <3>4. BackFailed(old) \in Seq(BOOLEAN) /\ Len(BackFailed(old)) = Len(old)
      BY <2>2, <3>2, BackFailedType
    <3>5. /\ frames' \in Seq(Nat \ {0})
          /\ \A i \in DOMAIN frames' : frames'[i] <= Len(old)
      BY <3>1, <2>9
    <3>. HIDE DEF found
    <3>. QED BY <2>3, <2>6, <3>1, <3>3, <3>4, <3>5
  <2>. QED BY <1>6, <2>10, <2>11, <2>12, <2>13, <2>14
<1>7. CASE \E h \in BOOLEAN : AssertRunaway(h)
  BY <1>1, <1>7 DEF AssertRunaway
<1>8. CASE UNCHANGED vars
  BY <1>1, <1>8 DEF vars
<1>. QED
  BY <1>3, <1>4, <1>5, <1>6, <1>7, <1>8 DEF Next, RunnerStep

-----------------------------------------------------------------------------
(* The books: what test_assert_epilog keeps of failures                    *)

(* The steps that end or make an assertion that fails.                     *)
FailureStep == AssertFails \/ ExpectFails

(* Only a failing assertion changes the counters and headers it guards.    *)
LEMMA BooksUnchanged ==
  ASSUME [Next]_vars, ~FailureStep
  PROVE  UNCHANGED <<assertion_fail_count, case_fail_count, suite_headers, case_headers>>
<1>. USE DEF registry, control, objects, headers, strays, history
<1>1. CASE (\E s \in SetIds : TestAdd(s)) \/ RunBegin \/ EnterSet \/ EnterSuite
  BY <1>1 DEF TestAdd, RunBegin, EnterSet, EnterSuite
<1>2. CASE EnterCase \/ LeaveCase \/ LeaveSuite \/ LeaveSet
  BY <1>2 DEF EnterCase, LeaveCase, LeaveSuite, LeaveSet
<1>3. CASE RunReturn \/ RunThrows \/ \E h \in BOOLEAN : AssertRunaway(h)
  BY <1>3 DEF RunReturn, RunThrows, AssertRunaway
<1>4. CASE AssertHolds \/ ExpectBegin \/ ExpectHolds \/ UNCHANGED vars
  BY <1>4 DEF AssertHolds, ExpectBegin, ExpectHolds, vars
<1>. QED BY <1>1, <1>2, <1>3, <1>4 DEF Next, RunnerStep, FailureStep

(* A failing assertion is counted for the current case and suite.          *)
LEMMA FailureIsCounted ==
  ASSUME LoopTypes, PointersFollowLoops, FailureStep
  PROVE  /\ pc = "body" /\ pc' = "body"
         /\ cur.suite \in SuiteIds
         /\ cur.case \in CasesIn(cur.suite)
         /\ cur.case \in CaseIds
         /\ CountFailure
         /\ UNCHANGED <<start, cur, ended>>
<1>1. pc = "body" /\ CountFailure /\ UNCHANGED <<pc, start, cur, ended>>
  BY DEF FailureStep, AssertFails, ExpectFails, MayAssert, InBody, control
<1>2. cur.suite \in SuiteIds /\ cur.case \in CaseIds
  BY <1>1, CurrentObjects DEF InSuites, InCases
<1>3. cur.case \in CasesIn(cur.suite)
  BY <1>1 DEF PointersFollowLoops, InCases, CasesIn
<1>. QED BY <1>1, <1>2, <1>3

(* The failing cases of a suite are finitely many.                         *)
LEMMA FailingCasesFinite ==
  ASSUME NEW u \in SuiteIds
  PROVE  IsFiniteSet(FailingCases(u))
<1>1. CasesIn(u) \subseteq CaseIds
  BY LayoutAssumption DEF CasesIn
<1>2. FailingCases(u) \in SUBSET CaseIds
  BY <1>1 DEF FailingCases
<1>. QED BY <1>2, LayoutAssumption, FS_Subset

(***************************************************************************)
(* What one failure of case c in suite u does to the sets of failing       *)
(* cases: c joins those of u, the other suites' are as before.             *)
(***************************************************************************)
LEMMA FailingCasesStep ==
  ASSUME BookTypes, NEW u \in SuiteIds, NEW c \in CaseIds, c \in CasesIn(u),
         assertion_fail_count' = [assertion_fail_count EXCEPT ![c] = @ + 1]
  PROVE  /\ FailingCases(u)' = FailingCases(u) \cup {c}
         /\ \A v \in SuiteIds \ {u} : FailingCases(v)' = FailingCases(v)
<1>1. ASSUME NEW d \in CaseIds, d # c
      PROVE  assertion_fail_count'[d] = assertion_fail_count[d]
  BY <1>1 DEF BookTypes
<1>2. assertion_fail_count'[c] = assertion_fail_count[c] + 1
      /\ assertion_fail_count[c] \in Nat
  BY DEF BookTypes
<1>3. \A v \in SuiteIds : CasesIn(v) \subseteq CaseIds
  BY LayoutAssumption DEF CasesIn
<1>4. \A v \in SuiteIds \ {u} : c \notin CasesIn(v)
  BY LayoutAssumption DEF CasesIn
<1>5. FailingCases(u)' = FailingCases(u) \cup {c}
  BY <1>1, <1>2, <1>3 DEF FailingCases
<1>6. ASSUME NEW v \in SuiteIds \ {u} PROVE FailingCases(v)' = FailingCases(v)
  BY <1>1, <1>3, <1>4 DEF FailingCases
<1>. QED BY <1>5, <1>6

(* The suites' counters stay the number of their failing cases.            *)
LEMMA SuiteCountsStep ==
  ASSUME LoopTypes, BookTypes, PointersFollowLoops, SuiteCountsItsFailingCases,
         [Next]_vars
  PROVE  SuiteCountsItsFailingCases'
<1>1. CASE ~FailureStep
  BY <1>1, BooksUnchanged DEF SuiteCountsItsFailingCases, FailingCases
<1>2. CASE FailureStep
  <2>1. PICK u \in SuiteIds, c \in CaseIds :
          u = cur.suite /\ c = cur.case /\ c \in CasesIn(u) /\ CountFailure
    BY <1>2, FailureIsCounted
  <2>2. /\ assertion_fail_count' = [assertion_fail_count EXCEPT ![c] = @ + 1]
        /\ case_fail_count' = IF FirstOfCase(c)
                              THEN [case_fail_count EXCEPT ![u] = @ + 1]
                              ELSE case_fail_count
    BY <2>1 DEF CountFailure
  <2>3. /\ FailingCases(u)' = FailingCases(u) \cup {c}
        /\ \A v \in SuiteIds \ {u} : FailingCases(v)' = FailingCases(v)
    BY <2>1, <2>2, FailingCasesStep
  <2>4. FirstOfCase(c) <=> c \notin FailingCases(u)
    BY <2>1 DEF FirstOfCase, FailingCases, BookTypes
  <2>5. Cardinality(FailingCases(u) \cup {c}) =
           IF c \in FailingCases(u) THEN Cardinality(FailingCases(u))
                                    ELSE Cardinality(FailingCases(u)) + 1
    BY <2>1, FailingCasesFinite, FS_AddElement
  <2>6. case_fail_count'[u] = Cardinality(FailingCases(u)')
    BY <2>1, <2>2, <2>3, <2>4, <2>5 DEF SuiteCountsItsFailingCases, BookTypes
  <2>7. ASSUME NEW v \in SuiteIds \ {u}
        PROVE  case_fail_count'[v] = Cardinality(FailingCases(v)')
    BY <2>1, <2>2, <2>3 DEF SuiteCountsItsFailingCases, BookTypes
  <2>. QED BY <2>6, <2>7 DEF SuiteCountsItsFailingCases
<1>. QED BY <1>1, <1>2

(* The header lines stay one for each case and suite that ever failed.     *)
LEMMA HeadersStep ==
  ASSUME LoopTypes, BookTypes, LineTypes, PointersFollowLoops,
         SuiteCountsItsFailingCases, HeadersOnce, [Next]_vars
  PROVE  HeadersOnce'
<1>1. CASE ~FailureStep
  BY <1>1, BooksUnchanged DEF HeadersOnce, FailingCases
<1>2. CASE FailureStep
  <2>1. PICK u \in SuiteIds, c \in CaseIds :
          u = cur.suite /\ c = cur.case /\ c \in CasesIn(u) /\ CountFailure
    BY <1>2, FailureIsCounted
  <2>2. /\ assertion_fail_count' = [assertion_fail_count EXCEPT ![c] = @ + 1]
        /\ suite_headers' = IF FirstOfSuite(u)
                            THEN [suite_headers EXCEPT ![u] = @ + 1]
                            ELSE suite_headers
        /\ case_headers' = IF FirstOfCase(c)
                           THEN [case_headers EXCEPT ![c] = @ + 1]
                           ELSE case_headers
    BY <2>1 DEF CountFailure
  <2>3. /\ FailingCases(u)' = FailingCases(u) \cup {c}
        /\ \A v \in SuiteIds \ {u} : FailingCases(v)' = FailingCases(v)
    BY <2>1, <2>2, FailingCasesStep
  <2>4. FirstOfSuite(u) <=> FailingCases(u) = {}
    BY <2>1, FailingCasesFinite, FS_EmptySet
    DEF FirstOfSuite, SuiteCountsItsFailingCases
  <2>5. ASSUME NEW d \in CaseIds
        PROVE  case_headers'[d] = IF assertion_fail_count'[d] > 0 THEN 1 ELSE 0
    BY <2>1, <2>2 DEF HeadersOnce, FirstOfCase, BookTypes, LineTypes
  <2>6. suite_headers'[u] = 1
    BY <2>1, <2>2, <2>4 DEF HeadersOnce, LineTypes
  <2>7. ASSUME NEW v \in SuiteIds
        PROVE  suite_headers'[v] = IF FailingCases(v)' # {} THEN 1 ELSE 0
    <3>1. CASE v = u
      BY <2>3, <2>6, <3>1
    <3>2. CASE v # u
      BY <2>1, <2>2, <2>3, <3>2 DEF HeadersOnce, LineTypes
    <3>. QED BY <3>1, <3>2
  <2>. QED BY <2>5, <2>7 DEF HeadersOnce
<1>. QED BY <1>1, <1>2

(* Only these steps touch records.                                         *)
LEMMA RecordsUnchanged ==
  ASSUME [Next]_vars, ~FailureStep, ~AssertHolds, ~ExpectBegin
  PROVE  UNCHANGED assertions
<1>. USE DEF registry, control, objects, headers, strays, history
<1>1. CASE (\E s \in SetIds : TestAdd(s)) \/ RunBegin \/ EnterSet \/ EnterSuite
  BY <1>1 DEF TestAdd, RunBegin, EnterSet, EnterSuite
<1>2. CASE EnterCase \/ LeaveCase \/ LeaveSuite \/ LeaveSet
  BY <1>2 DEF EnterCase, LeaveCase, LeaveSuite, LeaveSet
<1>3. CASE RunReturn \/ RunThrows \/ \E h \in BOOLEAN : AssertRunaway(h)
  BY <1>3 DEF RunReturn, RunThrows, AssertRunaway
<1>4. CASE ExpectHolds \/ UNCHANGED vars
  BY <1>4 DEF ExpectHolds, vars
<1>. QED BY <1>1, <1>2, <1>3, <1>4 DEF Next, RunnerStep, FailureStep

(* A case has a failed record exactly when its counter is positive.        *)
LEMMA RecordsAgreeStep ==
  ASSUME LoopTypes, BookTypes, RecordTypes, PointersFollowLoops,
         FramesMarkEntries, RecordsAgreeOnFailure, [Next]_vars
  PROVE  RecordsAgreeOnFailure'
<1>. DEFINE Marked(entries) == \E i \in DOMAIN entries : ~entries[i]
<1>1. CASE ~FailureStep /\ ~AssertHolds /\ ~ExpectBegin
  BY <1>1, BooksUnchanged, RecordsUnchanged DEF RecordsAgreeOnFailure
<1>2. CASE AssertHolds \/ ExpectBegin
  <2>1. PICK c \in CaseIds :
          /\ assertions' = [assertions EXCEPT ![c] = Pushed(@)]
          /\ UNCHANGED assertion_fail_count
    BY <1>2, CurrentObjects
    DEF AssertHolds, ExpectBegin, MayAssert, InBody, InCases
  <2>2. PICK old \in Seq(BOOLEAN) : old = assertions[c]
    BY <2>1 DEF RecordTypes
  <2>3. Marked(Pushed(old)) <=> Marked(old)
    <3>1. /\ DOMAIN Pushed(old) = 1 .. (Len(old) + 1)
          /\ DOMAIN old = 1 .. Len(old)
          /\ Len(old) \in Nat
      BY PushedType
    <3>2. Pushed(old)[Len(old) + 1]
      BY PushedEntries
    <3>3. \A i \in 1 .. Len(old) : Pushed(old)[i] = old[i]
      BY PushedEntries
    <3>. QED BY <3>1, <3>2, <3>3
  <2>4. assertions'[c] = Pushed(old)
    BY <2>1, <2>2 DEF RecordTypes
  <2>5. \A d \in CaseIds \ {c} : assertions'[d] = assertions[d]
    BY <2>1 DEF RecordTypes
  <2>6. \A d \in CaseIds : Marked(assertions'[d]) <=> Marked(assertions[d])
    BY <2>2, <2>3, <2>4, <2>5
  <2>. QED BY <2>1, <2>6 DEF RecordsAgreeOnFailure
<1>3. CASE FailureStep
  <2>1. PICK c \in CaseIds : c = cur.case /\ CountFailure
    BY <1>3, FailureIsCounted
  <2>2. assertion_fail_count' = [assertion_fail_count EXCEPT ![c] = @ + 1]
    BY <2>1 DEF CountFailure
  <2>3. PICK old \in Seq(BOOLEAN) :
          Len(old) > 0 /\ assertions' = [assertions EXCEPT ![c] = BackFailed(old)]
    <3>1. assertions[c] \in Seq(BOOLEAN)
      BY DEF RecordTypes
    <3>2. CASE AssertFails
      <4>1. Pushed(assertions[c]) \in Seq(BOOLEAN) /\ Len(Pushed(assertions[c])) > 0
        BY <3>1, PushedType
      <4>. QED BY <2>1, <3>2, <4>1 DEF AssertFails
    <3>3. CASE ExpectFails
      <4>1. frames # <<>> /\ frames \in Seq(Nat \ {0})
        BY <3>3 DEF ExpectFails, RecordTypes
      <4>2. Len(assertions[c]) > 0
        BY <2>1, <3>1, <4>1 DEF FramesMarkEntries
      <4>. QED BY <2>1, <3>1, <3>3, <4>2 DEF ExpectFails
    <3>. QED BY <1>3, <3>2, <3>3 DEF FailureStep
  <2>4. Marked(BackFailed(old))
    BY <2>3, BackFailedType
  <2>5. /\ Marked(assertions'[c])
        /\ \A d \in CaseIds \ {c} : assertions'[d] = assertions[d]
    BY <2>3, <2>4 DEF RecordTypes
  <2>6. /\ assertion_fail_count'[c] > 0
        /\ \A d \in CaseIds \ {c} : assertion_fail_count'[d] = assertion_fail_count[d]
    BY <2>2 DEF BookTypes
  <2>. QED BY <2>5, <2>6 DEF RecordsAgreeOnFailure
<1>. QED BY <1>1, <1>2, <1>3

(***************************************************************************)
(* The run's own total and the cases' counters agree on whether anything   *)
(* failed since the run began.                                             *)
(***************************************************************************)
Totals ==
    /\ \A c \in CaseIds : assertion_fail_count[c] >= start[c]
    /\ pc # "idle" => (metrics.assertion_fail_count = 0 <=> assertion_fail_count = start)

(* Every step keeps the run's total and the cases' counters in agreement.  *)
LEMMA TotalsStep ==
  ASSUME LoopTypes, BookTypes, PointersFollowLoops, Totals, [Next]_vars
  PROVE  Totals'
<1>. USE DEF registry, control, objects, headers, strays, history, Totals
<1>1. CASE RunBegin
  BY <1>1 DEF RunBegin, NoMetrics, BookTypes
<1>2. CASE RunReturn
  BY <1>2 DEF RunReturn
<1>3. CASE RunThrows
  BY <1>3 DEF RunThrows
<1>4. CASE FailureStep
  <2>1. PICK c \in CaseIds :
          /\ pc = "body" /\ pc' = "body"
          /\ assertion_fail_count' = [assertion_fail_count EXCEPT ![c] = @ + 1]
          /\ UNCHANGED start
    BY <1>4, FailureIsCounted DEF CountFailure
  <2>2. metrics'.assertion_fail_count = metrics.assertion_fail_count + 1
    BY <1>4 DEF FailureStep, AssertFails, ExpectFails, Counted, FailCounted, BookTypes
  <2>3. metrics'.assertion_fail_count # 0
    BY <2>2 DEF BookTypes
  <2>4. /\ \A d \in CaseIds : assertion_fail_count'[d] >= start'[d]
        /\ assertion_fail_count'[c] > start'[c]
    BY <2>1 DEF BookTypes
  <2>5. assertion_fail_count' # start'
    BY <2>1, <2>4 DEF BookTypes
  <2>. QED BY <2>1, <2>3, <2>4, <2>5
<1>5. ASSUME /\ UNCHANGED <<assertion_fail_count, start, ended>>
             /\ pc # "idle" => metrics'.assertion_fail_count = metrics.assertion_fail_count
             /\ pc = "idle" <=> pc' = "idle"
      PROVE  Totals'
  BY <1>5
<1>6. CASE (\E s \in SetIds : TestAdd(s)) \/ \E h \in BOOLEAN : AssertRunaway(h)
  BY <1>5, <1>6 DEF TestAdd, AssertRunaway
<1>7. CASE EnterSet
  BY <1>5, <1>7 DEF EnterSet, BookTypes
<1>8. CASE EnterSuite
  BY <1>5, <1>8 DEF EnterSuite, BookTypes
<1>9. CASE EnterCase \/ LeaveSuite \/ LeaveSet \/ ExpectHolds \/ UNCHANGED vars
  BY <1>5, <1>9 DEF EnterCase, LeaveSuite, LeaveSet, ExpectHolds, InBody, vars
<1>10. CASE LeaveCase
  BY <1>5, <1>10 DEF LeaveCase, BookTypes
<1>11. CASE AssertHolds \/ ExpectBegin
  BY <1>5, <1>11 DEF AssertHolds, ExpectBegin, Counted, BookTypes
<1>. QED
  BY <1>1, <1>2, <1>3, <1>4, <1>6, <1>7, <1>8, <1>9, <1>10, <1>11
  DEF Next, RunnerStep, FailureStep

-----------------------------------------------------------------------------
(* The order of the cases: what the loops have reached is what has run     *)

RegisteredOnce ==
    \A i, j \in DOMAIN suite_sets : suite_sets[i] = suite_sets[j] => i = j

(* A loop that has ended, or was left, stands at the end of its vector.    *)
LoopsFinished ==
    /\ pc = "sets" /\ pos.set > 0 =>
          /\ pos.set \in DOMAIN suite_sets
          /\ pos.suite = Len(SuitesOf[suite_sets[pos.set]])
    /\ pc \in {"sets", "suites"} /\ pos.set > 0 /\ pos.suite > 0 =>
          pos.case = Len(CasesOf[SuitesOf[suite_sets[pos.set]][pos.suite]])
    /\ pc = "sets" /\ pos.set = 0 => pos = LoopStart

(* The loops have come to place p.                                         *)
Reached(p) == p = pos \/ Before(p, pos)

(* ran lists the cases at the places the loops have reached, in order.     *)
RanIsReached ==
    /\ \A n \in DOMAIN ran : \E p \in Places : ran[n] = CaseAt(p) /\ Reached(p)
    /\ \A p \in Places : Reached(p) => \E n \in DOMAIN ran : ran[n] = CaseAt(p)
    /\ RanInOrder
    /\ pc = "body" => Len(ran) > 0 /\ ran[Len(ran)] = cur.case
RanFollowsLoops == pc # "idle" => RanIsReached

(* The set of places, spelled out.                                         *)
LEMMA PlacesMembers ==
  ASSUME LoopTypes
  PROVE  \A p : p \in Places <=>
            /\ p \in [set : Nat, suite : Nat, case : Nat]
            /\ p.set \in DOMAIN suite_sets
            /\ p.suite \in DOMAIN SuitesOf[suite_sets[p.set]]
            /\ p.case \in DOMAIN CasesOf[SuitesOf[suite_sets[p.set]][p.suite]]
<1>1. \A p : p \in Places <=>
         \E i \in DOMAIN suite_sets : \E j \in DOMAIN SuitesOf[suite_sets[i]] :
         \E k \in DOMAIN CasesOf[SuitesOf[suite_sets[i]][j]] :
            p = [set |-> i, suite |-> j, case |-> k]
  BY DEF Places, PlacesIn
<1>2. \A i \in DOMAIN suite_sets : i \in Nat /\ suite_sets[i] \in SetIds
  BY DEF LoopTypes
<1>3. \A t \in SetIds : \A j \in DOMAIN SuitesOf[t] : j \in Nat /\ SuitesOf[t][j] \in SuiteIds
  BY LayoutAssumption
<1>4. \A u \in SuiteIds : \A k \in DOMAIN CasesOf[u] : k \in Nat
  BY LayoutAssumption
<1>5. ASSUME NEW p \in Places
      PROVE  /\ p \in [set : Nat, suite : Nat, case : Nat]
             /\ p.set \in DOMAIN suite_sets
             /\ p.suite \in DOMAIN SuitesOf[suite_sets[p.set]]
             /\ p.case \in DOMAIN CasesOf[SuitesOf[suite_sets[p.set]][p.suite]]
  <2>1. PICK i \in DOMAIN suite_sets : \E j \in DOMAIN SuitesOf[suite_sets[i]] :
             \E k \in DOMAIN CasesOf[SuitesOf[suite_sets[i]][j]] :
                p = [set |-> i, suite |-> j, case |-> k]
    BY <1>1
  <2>2. PICK j \in DOMAIN SuitesOf[suite_sets[i]] :
             \E k \in DOMAIN CasesOf[SuitesOf[suite_sets[i]][j]] :
                p = [set |-> i, suite |-> j, case |-> k]
    BY <2>1
  <2>3. PICK k \in DOMAIN CasesOf[SuitesOf[suite_sets[i]][j]] :
                p = [set |-> i, suite |-> j, case |-> k]
    BY <2>2
  <2>4. i \in Nat /\ j \in Nat /\ k \in Nat
    BY <1>2, <1>3, <1>4
  <2>. QED BY <2>3, <2>4
<1>6. ASSUME NEW p \in [set : Nat, suite : Nat, case : Nat],
             p.set \in DOMAIN suite_sets,
             p.suite \in DOMAIN SuitesOf[suite_sets[p.set]],
             p.case \in DOMAIN CasesOf[SuitesOf[suite_sets[p.set]][p.suite]]
      PROVE  p \in Places
  <2>1. p = [set |-> p.set, suite |-> p.suite, case |-> p.case]
    OBVIOUS
  <2>. QED BY <1>1, <1>6, <2>1
<1>. QED BY <1>5, <1>6

(* A case is registered at one place only.                                 *)
LEMMA PlacesApart ==
  ASSUME LoopTypes, RegisteredOnce, NEW p \in Places, NEW q \in Places,
         CaseAt(p) = CaseAt(q)
  PROVE  p = q
<1>1. /\ p \in [set : Nat, suite : Nat, case : Nat]
      /\ q \in [set : Nat, suite : Nat, case : Nat]
      /\ p.set \in DOMAIN suite_sets /\ q.set \in DOMAIN suite_sets
      /\ p.suite \in DOMAIN SuitesOf[suite_sets[p.set]]
      /\ q.suite \in DOMAIN SuitesOf[suite_sets[q.set]]
      /\ p.case \in DOMAIN CasesOf[SuitesOf[suite_sets[p.set]][p.suite]]
      /\ q.case \in DOMAIN CasesOf[SuitesOf[suite_sets[q.set]][q.suite]]
  BY PlacesMembers
<1>2. suite_sets[p.set] \in SetIds /\ suite_sets[q.set] \in SetIds
  BY <1>1 DEF LoopTypes
<1>3. /\ SuitesOf[suite_sets[p.set]][p.suite] \in SuiteIds
      /\ SuitesOf[suite_sets[q.set]][q.suite] \in SuiteIds
  BY <1>1, <1>2, LayoutAssumption
<1>4. /\ SuitesOf[suite_sets[p.set]][p.suite] = SuitesOf[suite_sets[q.set]][q.suite]
      /\ p.case = q.case
  <2>1. \A u, v \in SuiteIds : \A i \in DOMAIN CasesOf[u], j \in DOMAIN CasesOf[v] :
          CasesOf[u][i] = CasesOf[v][j] => u = v /\ i = j
    BY LayoutAssumption
  <2>. QED BY <1>1, <1>3, <2>1 DEF CaseAt
<1>5. suite_sets[p.set] = suite_sets[q.set] /\ p.suite = q.suite
  <2>1. \A t, u \in SetIds : \A i \in DOMAIN SuitesOf[t], j \in DOMAIN SuitesOf[u] :
          SuitesOf[t][i] = SuitesOf[u][j] => t = u /\ i = j
    BY LayoutAssumption
  <2>. QED BY <1>1, <1>2, <1>4, <2>1
<1>6. p.set = q.set
  BY <1>1, <1>5 DEF RegisteredOnce
<1>. QED BY <1>1, <1>4, <1>5, <1>6

(* Where a place stands in the vectors it indexes.                         *)
LEMMA PlaceBounds ==
  ASSUME LoopTypes, NEW p \in Places
  PROVE  /\ p.set \in Nat /\ p.suite \in Nat /\ p.case \in Nat
         /\ p.set >= 1 /\ p.suite >= 1 /\ p.case >= 1
         /\ Len(SuitesOf[suite_sets[p.set]]) \in Nat
         /\ p.suite <= Len(SuitesOf[suite_sets[p.set]])
         /\ Len(CasesOf[SuitesOf[suite_sets[p.set]][p.suite]]) \in Nat
         /\ p.case <= Len(CasesOf[SuitesOf[suite_sets[p.set]][p.suite]])
<1>1. /\ p \in [set : Nat, suite : Nat, case : Nat]
      /\ p.set \in DOMAIN suite_sets
      /\ p.suite \in DOMAIN SuitesOf[suite_sets[p.set]]
      /\ p.case \in DOMAIN CasesOf[SuitesOf[suite_sets[p.set]][p.suite]]
  BY PlacesMembers
<1>2. p.set >= 1 /\ suite_sets[p.set] \in SetIds
  BY <1>1 DEF LoopTypes
<1>3. SuitesOf[suite_sets[p.set]] \in Seq(SuiteIds)
  BY <1>2, LayoutAssumption
<1>4. SuitesOf[suite_sets[p.set]][p.suite] \in SuiteIds
  BY <1>1, <1>3
<1>5. CasesOf[SuitesOf[suite_sets[p.set]][p.suite]] \in Seq(CaseIds)
  BY <1>4, LayoutAssumption
<1>. QED BY <1>1, <1>2, <1>3, <1>5

(* A set is registered by one test_adder.                                  *)
LEMMA RegisteredOnceStep ==
  ASSUME LoopTypes, RegisteredOnce, [Next]_vars
  PROVE  RegisteredOnce'
<1>. USE DEF registry, control, objects, headers, strays, history, RegisteredOnce
<1>1. ASSUME NEW s \in SetIds, TestAdd(s) PROVE RegisteredOnce'
  BY <1>1 DEF TestAdd, LoopTypes
<1>2. CASE RunBegin \/ EnterSet \/ EnterSuite \/ EnterCase \/ LeaveCase
  BY <1>2 DEF RunBegin, EnterSet, EnterSuite, EnterCase, LeaveCase
<1>3. CASE LeaveSuite \/ LeaveSet \/ RunReturn \/ RunThrows \/ \E h \in BOOLEAN : AssertRunaway(h)
  BY <1>3 DEF LeaveSuite, LeaveSet, RunReturn, RunThrows, AssertRunaway
<1>4. CASE AssertHolds \/ AssertFails \/ ExpectBegin \/ ExpectHolds \/ ExpectFails \/ UNCHANGED vars
  BY <1>4 DEF AssertHolds, AssertFails, ExpectBegin, ExpectHolds, ExpectFails, vars
<1>. QED BY <1>1, <1>2, <1>3, <1>4 DEF Next, RunnerStep

(* The registry does not change while a run is active.                     *)
LEMMA RegistryStays ==
  ASSUME [Next]_vars, pc # "idle"
  PROVE  UNCHANGED <<suite_sets, start>>
<1>. USE DEF registry, history
<1>1. CASE EnterSet \/ EnterSuite \/ EnterCase \/ LeaveCase \/ LeaveSuite \/ LeaveSet
  BY <1>1 DEF EnterSet, EnterSuite, EnterCase, LeaveCase, LeaveSuite, LeaveSet
<1>2. CASE AssertHolds \/ AssertFails \/ ExpectBegin \/ ExpectHolds \/ ExpectFails \/ UNCHANGED vars
  BY <1>2 DEF AssertHolds, AssertFails, ExpectBegin, ExpectHolds, ExpectFails, vars
<1>3. CASE RunReturn \/ RunThrows
  BY <1>3 DEF RunReturn, RunThrows
<1>. QED BY <1>1, <1>2, <1>3 DEF Next, RunnerStep, TestAdd, RunBegin, AssertRunaway

(* A run begins by RunBegin only.                                          *)
LEMMA RunsBegin ==
  ASSUME [Next]_vars, pc = "idle", pc' # "idle"
  PROVE  RunBegin
  BY DEF Next, RunnerStep, TestAdd, EnterSet, EnterSuite, EnterCase, LeaveCase,
         LeaveSuite, LeaveSet, RunReturn, RunThrows, AssertHolds, AssertFails,
         ExpectBegin, ExpectHolds, ExpectFails, MayAssert, InBody, AssertRunaway,
         control, vars

(* The loops move in the Enter actions only.                               *)
LEMMA LoopsStand ==
  ASSUME [Next]_vars, ~RunBegin, ~EnterSet, ~EnterSuite, ~EnterCase
  PROVE  /\ UNCHANGED <<pos, ran>>
         /\ pc' = "body" => pc = "body" /\ cur' = cur
<1>. USE DEF registry, control, history
<1>1. CASE (\E s \in SetIds : TestAdd(s)) \/ LeaveCase \/ LeaveSuite \/ LeaveSet
  BY <1>1 DEF TestAdd, LeaveCase, LeaveSuite, LeaveSet
<1>2. CASE RunReturn \/ RunThrows \/ \E h \in BOOLEAN : AssertRunaway(h)
  BY <1>2 DEF RunReturn, RunThrows, AssertRunaway
<1>3. CASE AssertHolds \/ AssertFails \/ ExpectBegin
  BY <1>3 DEF AssertHolds, AssertFails, ExpectBegin
<1>4. CASE ExpectHolds \/ ExpectFails \/ UNCHANGED vars
  BY <1>4 DEF ExpectHolds, ExpectFails, vars
<1>. QED BY <1>1, <1>2, <1>3, <1>4 DEF Next, RunnerStep

(* Loops are left at the end of their vectors.                             *)
LEMMA LoopsFinishedStep ==
  ASSUME LoopTypes, PointersFollowLoops, LoopsFinished, [Next]_vars
  PROVE  LoopsFinished'
<1>. USE DEF registry, control, history, LoopsFinished
<1>1. CASE pc' \notin {"sets", "suites"}
  BY <1>1
<1>2. CASE RunBegin
  BY <1>2 DEF RunBegin, LoopStart
<1>3. CASE EnterSet
  BY <1>3 DEF EnterSet, NextSet
<1>4. CASE LeaveSuite
  <2>1. pos.case = Len(CasesOf[cur.suite]) /\ pc = "cases" /\ pc' = "suites"
        /\ UNCHANGED <<pos, suite_sets>>
    BY <1>4 DEF LeaveSuite, CasesDone
  <2>2. cur.suite = SuitesOf[suite_sets[pos.set]][pos.suite]
    BY <2>1 DEF PointersFollowLoops, InSets, InSuites
  <2>. QED BY <2>1, <2>2
<1>5. CASE LeaveSet
  <2>1. pos.suite = Len(SuitesOf[cur.set]) /\ pc = "suites" /\ pc' = "sets"
        /\ UNCHANGED <<pos, suite_sets>>
    BY <1>5 DEF LeaveSet
  <2>2. pos.set \in DOMAIN suite_sets /\ cur.set = suite_sets[pos.set]
    BY <2>1 DEF PointersFollowLoops, InSets
  <2>3. pos.set > 0
    BY <2>2 DEF LoopTypes
  <2>. QED BY <2>1, <2>2, <2>3
<1>6. CASE UNCHANGED <<pc, pos, suite_sets>>
  BY <1>6
<1>7. CASE pc' \in {"sets", "suites"} /\ pc' = pc
  <2>1. CASE EnterSet \/ EnterSuite \/ EnterCase \/ RunBegin
    BY <1>7, <2>1 DEF EnterSet, EnterSuite, EnterCase, RunBegin
  <2>2. CASE ~(EnterSet \/ EnterSuite \/ EnterCase \/ RunBegin)
    BY <1>6, <1>7, <2>2, LoopsStand, RegistryStays
  <2>. QED BY <2>1, <2>2
<1>8. CASE pc' \in {"sets", "suites"} /\ pc' # pc /\ ~RunBegin /\ ~EnterSet
  <2>1. LeaveSuite \/ LeaveSet
    BY <1>8
    DEF Next, RunnerStep, TestAdd, EnterSuite, EnterCase, LeaveCase,
        RunReturn, RunThrows, AssertHolds, AssertFails,
        ExpectBegin, ExpectHolds, ExpectFails, AssertRunaway, vars
  <2>. QED BY <1>4, <1>5, <2>1
<1>. QED BY <1>1, <1>2, <1>3, <1>7, <1>8

(* Entering a set or a suite reaches no case that was not reached before.  *)
LEMMA NothingReached ==
  ASSUME LoopTypes, PointersFollowLoops, LoopsFinished, EnterSet \/ EnterSuite,
         NEW p \in Places
  PROVE  Reached(p)' <=> Reached(p)
<1>1. /\ p.set \in Nat /\ p.suite \in Nat /\ p.case \in Nat
      /\ p.set >= 1 /\ p.suite >= 1 /\ p.case >= 1
      /\ p.suite <= Len(SuitesOf[suite_sets[p.set]])
      /\ p.case <= Len(CasesOf[SuitesOf[suite_sets[p.set]][p.suite]])
  BY PlaceBounds
<1>2. p = pos <=> p.set = pos.set /\ p.suite = pos.suite /\ p.case = pos.case
  BY PlacesMembers DEF LoopTypes
<1>3. pos.set \in Nat /\ pos.suite \in Nat /\ pos.case \in Nat
  BY DEF LoopTypes
<1>4. CASE EnterSet
  <2>1. pos'.set = pos.set + 1 /\ pos'.suite = 0 /\ pos'.case = 0 /\ pc = "sets"
    BY <1>4 DEF EnterSet, NextSet
  <2>2. Reached(p)' <=> p.set <= pos.set
    BY <1>1, <1>3, <2>1 DEF Reached, Before
  <2>3. ASSUME p.set = pos.set PROVE Reached(p)
    <3>1. p.suite <= pos.suite
      BY <1>1, <1>3, <2>1, <2>3 DEF LoopsFinished
    <3>2. p.suite = pos.suite => p.case <= pos.case
      BY <1>1, <1>3, <2>1, <2>3 DEF LoopsFinished
    <3>. QED BY <1>1, <1>2, <1>3, <2>3, <3>1, <3>2 DEF Reached, Before
  <2>4. p.set < pos.set => Reached(p)
    BY DEF Reached, Before
  <2>5. Reached(p) => p.set <= pos.set
    BY <1>1, <1>2, <1>3 DEF Reached, Before
  <2>. QED BY <1>1, <1>3, <2>2, <2>3, <2>4, <2>5
<1>5. CASE EnterSuite
  <2>1. pos'.set = pos.set /\ pos'.suite = pos.suite + 1 /\ pos'.case = 0 /\ pc = "suites"
    BY <1>5 DEF EnterSuite, NextSuite
  <2>2. Reached(p)' <=> p.set < pos.set \/ (p.set = pos.set /\ p.suite <= pos.suite)
    BY <1>1, <1>3, <2>1 DEF Reached, Before
  <2>3. ASSUME p.set = pos.set, p.suite = pos.suite PROVE p.case <= pos.case
    BY <1>1, <1>3, <2>1, <2>3 DEF LoopsFinished
  <2>. QED BY <1>1, <1>2, <1>3, <2>2, <2>3 DEF Reached, Before
<1>. QED BY <1>4, <1>5

(* Entering a case reaches its place, which comes after all others reached.*)
LEMMA CaseReached ==
  ASSUME LoopTypes, PointersFollowLoops, EnterCase
  PROVE  /\ pos' \in Places
         /\ CaseAt(pos') = CasesOf[cur.suite][pos.case + 1]
         /\ cur'.case = CasesOf[cur.suite][pos.case + 1]
         /\ \A p \in Places : Reached(p) => Before(p, pos')
         /\ \A p \in Places : Reached(p)' <=> Reached(p) \/ p = pos'
<1>1. /\ pc = "cases" /\ pos.case < Len(CasesOf[cur.suite]) /\ pos.case \in Nat
      /\ pos' = [pos EXCEPT !.case = @ + 1]
      /\ cur' = [cur EXCEPT !.case = CasesOf[cur.suite][pos.case + 1]]
  BY DEF EnterCase, LoopTypes
<1>2. /\ pos' \in [set : Nat, suite : Nat, case : Nat]
      /\ pos'.set = pos.set /\ pos'.suite = pos.suite /\ pos'.case = pos.case + 1
  <2>1. PICK k \in Nat : k = pos.case + 1
    BY <1>1
  <2>2. pos \in [set : Nat, suite : Nat, case : Nat]
    BY DEF LoopTypes
  <2>3. pos' = [pos EXCEPT !.case = k]
    BY <1>1, <2>1, <2>2
  <2>4. pos'.set = pos.set /\ pos'.suite = pos.suite /\ pos'.case = k
    BY <2>2, <2>3
  <2>5. pos' \in [set : Nat, suite : Nat, case : Nat]
    BY <2>2, <2>3
  <2>. QED BY <2>1, <2>4, <2>5
<1>3. cur.suite \in SuiteIds
  BY <1>1, CurrentObjects DEF InSuites
<1>4. pos.case + 1 \in DOMAIN CasesOf[cur.suite]
  BY <1>1, <1>3, LayoutAssumption
<1>5. /\ pos.set \in DOMAIN suite_sets /\ cur.set = suite_sets[pos.set]
      /\ pos.suite \in DOMAIN SuitesOf[cur.set]
      /\ cur.suite = SuitesOf[cur.set][pos.suite]
  BY <1>1 DEF PointersFollowLoops, InSets, InSuites
<1>6. pos' \in Places
  BY <1>2, <1>4, <1>5, PlacesMembers
<1>7. CaseAt(pos') = CasesOf[cur.suite][pos.case + 1]
  BY <1>2, <1>5 DEF CaseAt
<1>8. cur'.case = CasesOf[cur.suite][pos.case + 1]
  BY <1>1 DEF LoopTypes
<1>9. ASSUME NEW p \in Places
      PROVE  /\ Reached(p) => Before(p, pos')
             /\ Reached(p)' <=> Reached(p) \/ p = pos'
  <2>1. /\ p \in [set : Nat, suite : Nat, case : Nat]
        /\ pos \in [set : Nat, suite : Nat, case : Nat]
    BY PlacesMembers DEF LoopTypes
  <2>2. /\ p.set \in Nat /\ p.suite \in Nat /\ p.case \in Nat
        /\ pos.set \in Nat /\ pos.suite \in Nat /\ pos.case \in Nat
    BY <2>1
  <2>3. /\ p = pos <=> p.set = pos.set /\ p.suite = pos.suite /\ p.case = pos.case
        /\ p = pos' <=> p.set = pos'.set /\ p.suite = pos'.suite /\ p.case = pos'.case
    BY <1>2, <2>1
  <2>. QED BY <1>2, <2>2, <2>3 DEF Reached, Before
<1>. QED BY <1>6, <1>7, <1>8, <1>9

(* Every step keeps what has run and what the loops have reached the same. *)
LEMMA RanFollowsLoopsStep ==
  ASSUME LoopTypes, PointersFollowLoops, LoopsFinished, RanFollowsLoops, [Next]_vars
  PROVE  RanFollowsLoops'
<1>1. CASE pc' = "idle"
  BY <1>1 DEF RanFollowsLoops
<1>2. CASE pc = "idle" /\ pc' # "idle"
  <2>1. /\ ran' = <<>> /\ pos' = LoopStart /\ suite_sets' = suite_sets /\ pc' = "sets"
    BY <1>2, RunsBegin DEF RunBegin
  <2>2. Places' = Places
    BY <2>1 DEF Places, PlacesIn
  <2>3. ASSUME NEW p \in Places PROVE ~Reached(p)'
    BY <2>1, PlaceBounds DEF Reached, Before, LoopStart
  <2>4. DOMAIN ran' = {}
    BY <2>1
  <2>5. RanInOrder'
    BY <2>4 DEF RanInOrder
  <2>. QED BY <2>1, <2>2, <2>3, <2>4, <2>5 DEF RanFollowsLoops, RanIsReached
<1>3. CASE pc # "idle" /\ pc' # "idle"
  <2>1. UNCHANGED suite_sets
    BY <1>3, RegistryStays
  <2>2. Places' = Places /\ \A p : CaseAt(p)' = CaseAt(p)
    BY <2>1 DEF Places, PlacesIn, CaseAt
  <2>3. RanIsReached
    BY <1>3 DEF RanFollowsLoops
  <2>4. CASE EnterCase
    <3>. DEFINE len == Len(ran)
    <3>1. ran \in Seq(CaseIds) /\ len \in Nat /\ DOMAIN ran = 1 .. len
      BY DEF LoopTypes
    <3>2. PICK c \in CaseIds : ran' = Append(ran, c) /\ cur'.case = c /\ CaseAt(pos') = c
      BY <2>4, CaseReached, NextObjects DEF EnterCase
    <3>3. /\ pos' \in Places
          /\ \A p \in Places : Reached(p) => Before(p, pos')
          /\ \A p \in Places : Reached(p)' <=> Reached(p) \/ p = pos'
      BY <2>4, CaseReached
    <3>4. /\ DOMAIN ran' = 1 .. (len + 1) /\ Len(ran') = len + 1
          /\ \A n \in 1 .. len : ran'[n] = ran[n]
          /\ ran'[len + 1] = c
      BY <3>1, <3>2
    <3>. HIDE DEF len
    <3>5. ASSUME NEW n \in DOMAIN ran'
          PROVE  \E p \in Places : ran'[n] = CaseAt(p) /\ Reached(p)'
      <4>1. CASE n \in 1 .. len
        BY <2>3, <3>1, <3>3, <3>4, <4>1 DEF RanIsReached
      <4>2. CASE n = len + 1
        BY <3>2, <3>3, <3>4, <4>2
      <4>. QED BY <3>1, <3>4, <4>1, <4>2
    <3>6. ASSUME NEW p \in Places, Reached(p)'
          PROVE  \E n \in DOMAIN ran' : ran'[n] = CaseAt(p)
      <4>1. CASE Reached(p)
        <5>1. PICK n \in DOMAIN ran : ran[n] = CaseAt(p)
          BY <2>3, <4>1 DEF RanIsReached
        <5>. QED BY <3>1, <3>4, <5>1
      <4>2. CASE p = pos'
        <5>1. len + 1 \in DOMAIN ran' /\ ran'[len + 1] = CaseAt(p)
          BY <3>1, <3>2, <3>4, <4>2
        <5>. QED BY <5>1
      <4>. QED BY <3>3, <3>6, <4>1, <4>2
    <3>7. ASSUME NEW n \in DOMAIN ran', NEW m \in 1 .. (n - 1)
          PROVE  \E p, q \in Places : ran'[m] = CaseAt(p) /\ ran'[n] = CaseAt(q) /\ Before(p, q)
      <4>1. CASE n \in 1 .. len
        <5>1. m \in 1 .. len /\ ran'[m] = ran[m] /\ ran'[n] = ran[n]
          BY <3>1, <3>4, <4>1
        <5>. QED BY <2>3, <3>1, <4>1, <5>1 DEF RanIsReached, RanInOrder
      <4>2. CASE n = len + 1
        <5>1. m \in 1 .. len /\ ran'[m] = ran[m] /\ ran'[n] = c
          BY <3>1, <3>4, <4>2
        <5>2. PICK p \in Places : ran[m] = CaseAt(p) /\ Reached(p)
          BY <2>3, <3>1, <5>1 DEF RanIsReached
        <5>. QED BY <3>2, <3>3, <5>1, <5>2
      <4>. QED BY <3>1, <3>4, <4>1, <4>2
    <3>8. RanInOrder'
      BY <2>2, <3>7 DEF RanInOrder
    <3>9. Len(ran') > 0 /\ ran'[Len(ran')] = cur'.case
      BY <3>1, <3>2, <3>4
    <3>. QED BY <2>2, <3>5, <3>6, <3>8, <3>9 DEF RanFollowsLoops, RanIsReached
  <2>5. CASE EnterSet \/ EnterSuite
    <3>1. ran' = ran /\ pc' # "body"
      BY <2>5 DEF EnterSet, EnterSuite, history
    <3>2. \A p \in Places : Reached(p)' <=> Reached(p)
      BY <2>5, NothingReached
    <3>3. RanInOrder'
      BY <2>2, <2>3, <3>1 DEF RanInOrder, RanIsReached
    <3>. QED BY <2>2, <2>3, <3>1, <3>2, <3>3 DEF RanFollowsLoops, RanIsReached
  <2>6. CASE ~EnterCase /\ ~EnterSet /\ ~EnterSuite
    <3>1. /\ UNCHANGED <<pos, ran>>
          /\ pc' = "body" => pc = "body" /\ cur' = cur
      BY <1>3, <2>6, LoopsStand DEF RunBegin
    <3>2. \A p : Reached(p)' <=> Reached(p)
      BY <3>1 DEF Reached, Before
    <3>3. RanInOrder'
      BY <2>2, <2>3, <3>1 DEF RanInOrder, RanIsReached
    <3>. QED BY <2>2, <2>3, <3>1, <3>2, <3>3 DEF RanFollowsLoops, RanIsReached
  <2>. QED BY <2>4, <2>5, <2>6
<1>. QED BY <1>1, <1>2, <1>3

(* No case runs twice in a run.                                            *)
LEMMA RanOnce ==
  ASSUME LoopTypes, RegisteredOnce, RanInOrder,
         NEW n \in DOMAIN ran, NEW m \in 1 .. (n - 1)
  PROVE  ran[m] # ran[n]
<1>1. PICK p \in Places, q \in Places :
        ran[m] = CaseAt(p) /\ ran[n] = CaseAt(q) /\ Before(p, q)
  BY DEF RanInOrder
<1>2. p # q
  BY <1>1, PlaceBounds DEF Before
<1>. QED BY <1>1, <1>2, PlacesApart

(* The case that the runner enters has not run in this run.                *)
LEMMA EnteredCaseIsNew ==
  ASSUME LoopTypes, PointersFollowLoops, RegisteredOnce, RanFollowsLoops, EnterCase
  PROVE  \A n \in DOMAIN ran : ran[n] # cur'.case
<1>1. /\ pos' \in Places /\ CaseAt(pos') = cur'.case
      /\ \A p \in Places : Reached(p) => Before(p, pos')
  BY CaseReached
<1>2. RanIsReached
  BY DEF RanFollowsLoops, EnterCase
<1>3. SUFFICES ASSUME NEW n \in DOMAIN ran, ran[n] = cur'.case
               PROVE  FALSE
  OBVIOUS
<1>4. PICK p \in Places : ran[n] = CaseAt(p) /\ Reached(p)
  BY <1>2 DEF RanIsReached
<1>5. Before(p, pos') /\ p = pos'
  BY <1>1, <1>3, <1>4, PlacesApart
<1>. QED BY <1>4, <1>5, PlaceBounds DEF Before

-----------------------------------------------------------------------------
(* Headings: a case's first failure of a run is its first failure in it    *)

(* Only cases that this run has entered have failed in it.                 *)
FailedHaveRun ==
    pc # "idle" => \A c \in CaseIds :
       assertion_fail_count[c] # start[c] => \E n \in DOMAIN ran : ran[n] = c

(* While a case that had never failed before this run fails, the header    *)
(* that stands is its own; that of a case that had stands nowhere.         *)
HeadingIsCurrent ==
    /\ pc = "body" /\ start[cur.case] = 0 /\ assertion_fail_count[cur.case] > 0
          => heading = cur.case
    /\ pc # "idle" => \A c \in CaseIds : heading = c => start[c] = 0


(* A case that fails in a run is one the run has entered.                  *)
LEMMA FailedHaveRunStep ==
  ASSUME LoopTypes, BookTypes, PointersFollowLoops, RanFollowsLoops,
         FailedHaveRun, [Next]_vars
  PROVE  FailedHaveRun'
<1>1. CASE pc' = "idle"
  BY <1>1 DEF FailedHaveRun
<1>2. CASE pc = "idle" /\ pc' # "idle"
  BY <1>2, RunsBegin DEF RunBegin, FailedHaveRun, objects
<1>3. CASE pc # "idle" /\ pc' # "idle"
  <2>1. start' = start
    BY <1>3, RegistryStays
  <2>2. \A c : (\E n \in DOMAIN ran : ran[n] = c) => \E n \in DOMAIN ran' : ran'[n] = c
    <3>1. CASE EnterCase
      <4>1. PICK c \in CaseIds : ran' = Append(ran, c)
        BY <3>1, NextObjects DEF EnterCase
      <4>2. ran \in Seq(CaseIds)
        BY DEF LoopTypes
      <4>3. DOMAIN ran \subseteq DOMAIN ran' /\ \A n \in DOMAIN ran : ran'[n] = ran[n]
        BY <4>1, <4>2
      <4>. QED BY <4>3
    <3>2. CASE ~EnterCase
      <4>1. ran' = ran
        BY <1>3, <3>2, LoopsStand DEF EnterSet, EnterSuite, RunBegin, history
      <4>. QED BY <4>1
    <3>. QED BY <3>1, <3>2
  <2>3. CASE ~FailureStep
    BY <1>3, <2>1, <2>2, <2>3, BooksUnchanged DEF FailedHaveRun
  <2>4. CASE FailureStep
    <3>1. PICK c \in CaseIds :
            /\ c = cur.case /\ pc = "body"
            /\ assertion_fail_count' = [assertion_fail_count EXCEPT ![c] = @ + 1]
      BY <2>4, FailureIsCounted DEF CountFailure
    <3>2. Len(ran) \in DOMAIN ran /\ ran[Len(ran)] = c
      BY <3>1 DEF RanFollowsLoops, RanIsReached, LoopTypes
    <3>3. \A d \in CaseIds \ {c} : assertion_fail_count'[d] = assertion_fail_count[d]
      BY <3>1 DEF BookTypes
    <3>. QED BY <1>3, <2>1, <2>2, <3>2, <3>3 DEF FailedHaveRun
  <2>. QED BY <2>3, <2>4
<1>. QED BY <1>1, <1>2, <1>3

(* The case that the runner enters has not failed in this run.             *)
LEMMA EnteredCaseIsFresh ==
  ASSUME LoopTypes, PointersFollowLoops, RegisteredOnce, RanFollowsLoops,
         FailedHaveRun, EnterCase
  PROVE  assertion_fail_count[cur'.case] = start[cur'.case]
<1>1. cur'.case \in CaseIds /\ pc # "idle"
  BY CaseReached, NextObjects DEF EnterCase
<1>. QED BY <1>1, EnteredCaseIsNew DEF FailedHaveRun

(* Every step keeps the standing header that of the running case, if new.  *)
LEMMA HeadingIsCurrentStep ==
  ASSUME LoopTypes, BookTypes, PointersFollowLoops, Totals, RegisteredOnce,
         RanFollowsLoops, FailedHaveRun, HeadingIsCurrent, [Next]_vars
  PROVE  HeadingIsCurrent'
<1>1. CASE pc' = "idle"
  BY <1>1 DEF HeadingIsCurrent
<1>2. CASE EnterCase
  <2>1. assertion_fail_count[cur'.case] = start[cur'.case]
    BY <1>2, EnteredCaseIsFresh
  <2>2. UNCHANGED <<assertion_fail_count, start, heading>> /\ pc # "idle"
    BY <1>2 DEF EnterCase, objects, headers, history
  <2>3. ~(start'[cur'.case] = 0 /\ assertion_fail_count'[cur'.case] > 0)
    BY <2>1, <2>2
  <2>. QED BY <2>2, <2>3 DEF HeadingIsCurrent
<1>3. CASE FailureStep
  <2>1. PICK c \in CaseIds :
          /\ c = cur.case /\ pc = "body" /\ cur' = cur /\ start' = start
          /\ heading' = IF FirstOfCase(c) THEN c ELSE heading
    BY <1>3, FailureIsCounted DEF CountFailure
  <2>2. FirstOfCase(c) => start[c] = 0
    BY DEF FirstOfCase, Totals, BookTypes
  <2>. QED BY <2>1, <2>2 DEF HeadingIsCurrent, FirstOfCase, BookTypes
<1>4. CASE RunBegin
  <2>1. heading' = NULL /\ pc' = "sets"
    BY <1>4 DEF RunBegin
  <2>. QED BY <2>1, LayoutAssumption DEF HeadingIsCurrent
<1>5. CASE pc' # "idle" /\ ~EnterCase /\ ~FailureStep /\ ~RunBegin
  <2>1. pc # "idle" /\ UNCHANGED <<start, heading, assertion_fail_count>>
    BY <1>5
    DEF Next, RunnerStep, TestAdd, EnterSet, EnterSuite, LeaveCase,
        LeaveSuite, LeaveSet, RunReturn, RunThrows, AssertHolds, FailureStep,
        ExpectBegin, ExpectHolds, MayAssert, InBody, AssertRunaway,
        control, objects, headers, history, vars
  <2>2. pc' = "body" => pc = "body" /\ cur' = cur
    BY <1>5
    DEF Next, RunnerStep, TestAdd, EnterSet, EnterSuite, LeaveCase,
        LeaveSuite, LeaveSet, RunReturn, RunThrows, AssertHolds, FailureStep,
        ExpectBegin, ExpectHolds, MayAssert, InBody, AssertRunaway,
        control, vars
  <2>. QED BY <2>1, <2>2 DEF HeadingIsCurrent
<1>. QED BY <1>1, <1>2, <1>3, <1>4, <1>5

-----------------------------------------------------------------------------
(* What the run counts: its failures, its cases and its suites             *)

(* Outside a run nothing of the last one changes.                          *)
LEMMA OutsideRuns ==
  ASSUME [Next]_vars, pc = "idle", pc' = "idle"
  PROVE  /\ UNCHANGED <<runs, metrics, ended, ran, start, assertion_fail_count>>
         /\ suite_sets' = suite_sets \/ runs = 0
<1>. USE DEF registry, control, objects, history
<1>1. CASE (\E s \in SetIds : TestAdd(s)) \/ \E h \in BOOLEAN : AssertRunaway(h)
  BY <1>1 DEF TestAdd, AssertRunaway
<1>2. CASE UNCHANGED vars
  BY <1>2 DEF vars
<1>. QED BY <1>1, <1>2
     DEF Next, RunnerStep, RunBegin, EnterSet, EnterSuite, EnterCase, LeaveCase,
         LeaveSuite, LeaveSet, RunReturn, RunThrows, AssertHolds, AssertFails,
         ExpectBegin, ExpectHolds, ExpectFails, MayAssert, InBody

(* A run ends by returning or by throwing.                                 *)
LEMMA RunsEnd ==
  ASSUME [Next]_vars, pc # "idle", pc' = "idle"
  PROVE  /\ RunReturn \/ RunThrows
         /\ UNCHANGED <<suite_sets, runs, pos, metrics, assertion_fail_count,
                        start, ran>>
<1>1. RunReturn \/ RunThrows
  BY DEF Next, RunnerStep, TestAdd, RunBegin, EnterSet, EnterSuite, EnterCase,
         LeaveCase, LeaveSuite, LeaveSet, AssertHolds, AssertFails, ExpectBegin,
         ExpectHolds, ExpectFails, AssertRunaway, MayAssert, InBody, control, vars
<1>. QED BY <1>1 DEF RunReturn, RunThrows, registry, objects, history

(* The failures that the cases' counters have numbered, one by one.        *)
LEMMA RunFailuresMembers ==
  \A x : x \in RunFailures <=>
     \E c \in CaseIds : \E n \in (start[c] + 1) .. assertion_fail_count[c] : x = <<c, n>>
  BY DEF RunFailures, FailuresOf

(* The run's counter is the number of its failures.                        *)
FailuresCounted ==
    pc # "idle" => /\ IsFiniteSet(RunFailures)
                   /\ metrics.assertion_fail_count = Cardinality(RunFailures)

(* Only a failing assertion changes the run's failure counter.             *)
LEMMA RunCounterUnchanged ==
  ASSUME BookTypes, [Next]_vars, pc # "idle", ~FailureStep
  PROVE  metrics'.assertion_fail_count = metrics.assertion_fail_count
<1>1. CASE EnterSet \/ EnterSuite \/ LeaveCase
  BY <1>1 DEF EnterSet, EnterSuite, LeaveCase, BookTypes
<1>2. CASE AssertHolds \/ ExpectBegin
  BY <1>2 DEF AssertHolds, ExpectBegin, Counted, BookTypes
<1>3. CASE EnterCase \/ LeaveSuite \/ LeaveSet \/ ExpectHolds \/ RunReturn \/ RunThrows
  BY <1>3 DEF EnterCase, LeaveSuite, LeaveSet, ExpectHolds, RunReturn, RunThrows
<1>. QED BY <1>1, <1>2, <1>3
     DEF Next, RunnerStep, FailureStep, TestAdd, RunBegin, AssertRunaway, vars

(* Every step keeps the run's counter the number of its failures.          *)
LEMMA FailuresCountedStep ==
  ASSUME LoopTypes, BookTypes, PointersFollowLoops, Totals, FailuresCounted,
         [Next]_vars
  PROVE  FailuresCounted'
<1>1. CASE pc' = "idle"
  BY <1>1 DEF FailuresCounted
<1>2. CASE pc = "idle" /\ pc' # "idle"
  <2>1. /\ start' = assertion_fail_count /\ metrics' = NoMetrics
        /\ assertion_fail_count' = assertion_fail_count
    BY <1>2, RunsBegin DEF RunBegin, objects
  <2>2. \A c \in CaseIds : (start'[c] + 1) .. assertion_fail_count'[c] = {}
    BY <2>1 DEF BookTypes
  <2>3. RunFailures' = {}
    BY <2>2 DEF RunFailures, FailuresOf
  <2>. QED BY <2>1, <2>3, FS_EmptySet DEF FailuresCounted, NoMetrics
<1>3. CASE pc # "idle" /\ pc' # "idle"
  <2>1. start' = start
    BY <1>3, RegistryStays
  <2>2. CASE ~FailureStep
    <3>1. assertion_fail_count' = assertion_fail_count
      BY <2>2, BooksUnchanged
    <3>2. RunFailures' = RunFailures
      BY <2>1, <3>1 DEF RunFailures, FailuresOf
    <3>. QED BY <1>3, <2>2, <3>2, RunCounterUnchanged DEF FailuresCounted
  <2>3. CASE FailureStep
    <3>1. PICK c \in CaseIds :
            assertion_fail_count' = [assertion_fail_count EXCEPT ![c] = @ + 1]
      BY <2>3, FailureIsCounted DEF CountFailure
    <3>. DEFINE n == assertion_fail_count[c] + 1
    <3>2. n \in Nat /\ start[c] \in Nat /\ start[c] < n /\ assertion_fail_count'[c] = n
      BY <3>1 DEF BookTypes, Totals
    <3>3. \A d \in CaseIds \ {c} : assertion_fail_count'[d] = assertion_fail_count[d]
      BY <3>1 DEF BookTypes
    <3>4. (start[c] + 1) .. n = ((start[c] + 1) .. assertion_fail_count[c]) \cup {n}
      BY <3>2 DEF BookTypes
    <3>5. n \notin (start[c] + 1) .. assertion_fail_count[c]
      BY <3>2 DEF BookTypes
    <3>6. FailuresOf(c)' = FailuresOf(c) \cup {<<c, n>>}
      BY <2>1, <3>2, <3>4 DEF FailuresOf
    <3>7. \A d \in CaseIds \ {c} : FailuresOf(d)' = FailuresOf(d)
      BY <2>1, <3>3 DEF FailuresOf
    <3>. HIDE DEF n
    <3>8. RunFailures' = RunFailures \cup {<<c, n>>}
      BY <3>6, <3>7 DEF RunFailures
    <3>9. <<c, n>> \notin RunFailures
      BY <3>5, RunFailuresMembers
    <3>10. metrics'.assertion_fail_count = metrics.assertion_fail_count + 1
      BY <2>3 DEF FailureStep, AssertFails, ExpectFails, Counted, FailCounted, BookTypes
    <3>. QED BY <1>3, <3>8, <3>9, <3>10, FS_AddElement DEF FailuresCounted
  <2>. QED BY <2>2, <2>3
<1>. QED BY <1>1, <1>2, <1>3

(* What a run returned stays what an int keeps of the number of failures,  *)
(* and what it printed stays true.                                         *)
LEMMA ReturnsStep ==
  ASSUME BookTypes, Totals, FailuresCounted, ReturnCountsFailures, ZeroMeansClean,
         [Next]_vars
  PROVE  ReturnCountsFailures' /\ ZeroMeansClean'
<1>. USE DEF Returned
<1>1. CASE pc' # "idle"
  BY <1>1 DEF ReturnCountsFailures, ZeroMeansClean
<1>2. CASE pc = "idle" /\ pc' = "idle"
  <2>1. UNCHANGED <<ended, start, assertion_fail_count>>
    BY <1>2, OutsideRuns
  <2>2. RunFailures' = RunFailures
    BY <2>1 DEF RunFailures, FailuresOf
  <2>. QED BY <1>2, <2>1, <2>2 DEF ReturnCountsFailures, ZeroMeansClean
<1>3. CASE RunThrows
  BY <1>3 DEF RunThrows, ReturnCountsFailures, ZeroMeansClean
<1>4. CASE RunReturn
  <2>. DEFINE n == Cardinality(RunFailures)
              v == ToSigned(n, INT_MAX)
  <2>1. UNCHANGED <<start, assertion_fail_count>> /\ pc # "idle"
    BY <1>4 DEF RunReturn, objects, history
  <2>2. RunFailures' = RunFailures
    BY <2>1 DEF RunFailures, FailuresOf
  <2>3. /\ metrics.assertion_fail_count = n /\ n \in Nat
        /\ n = 0 <=> assertion_fail_count = start
    BY <2>1 DEF FailuresCounted, Totals, BookTypes
  <2>4. ended' = [how |-> "returned", value |-> v, verdict |-> Verdict]
    BY <1>4, <2>3 DEF RunReturn, ReturnValue
  <2>5. /\ Verdict = "all_succeeded" => n = 0
        /\ Verdict = "none" => n # 0
    BY <2>3 DEF Verdict
  <2>. HIDE DEF n
  <2>6. /\ v \in Signed(INT_MAX) /\ v % Modulus(INT_MAX) = n % Modulus(INT_MAX)
        /\ n \in Signed(INT_MAX) => v = n
    BY <2>3, SignedKeeps, BoundsAssumption
  <2>7. n <= INT_MAX => n \in Signed(INT_MAX)
    BY <2>3, BoundsAssumption DEF Signed
  <2>8. v = 0 => n = 0 \/ n >= Modulus(INT_MAX)
    BY <2>3, KeptAsZero, BoundsAssumption
  <2>9. n = 0 => n <= INT_MAX
    BY BoundsAssumption
  <2>. HIDE DEF v
  <2>10. ended'.value = v /\ ended'.verdict = Verdict /\ Cardinality(RunFailures)' = n
    BY <2>2, <2>4 DEF n
  <2>11. ReturnCountsFailures'
    BY <2>6, <2>7, <2>10 DEF ReturnCountsFailures
  <2>12. (assertion_fail_count' = start') <=> n = 0
    BY <2>1, <2>3
  <2>13. ZeroMeansClean'
    BY <2>5, <2>6, <2>7, <2>8, <2>9, <2>10, <2>12 DEF ZeroMeansClean
  <2>. QED BY <2>11, <2>13
<1>. QED BY <1>1, <1>2, <1>3, <1>4, RunsEnd

(* Only a case that is left changes the run's count of failed cases.       *)
LEMMA FailedCasesUnchanged ==
  ASSUME BookTypes, [Next]_vars, pc # "idle", ~LeaveCase
  PROVE  metrics'.case_fail_count = metrics.case_fail_count
<1>1. CASE EnterSet \/ EnterSuite
  BY <1>1 DEF EnterSet, EnterSuite, BookTypes
<1>2. CASE AssertHolds \/ AssertFails \/ ExpectBegin \/ ExpectFails
  BY <1>2 DEF AssertHolds, AssertFails, ExpectBegin, ExpectFails, Counted,
              FailCounted, BookTypes
<1>3. CASE EnterCase \/ LeaveSuite \/ LeaveSet \/ ExpectHolds \/ RunReturn \/ RunThrows
  BY <1>3 DEF EnterCase, LeaveSuite, LeaveSet, ExpectHolds, RunReturn, RunThrows
<1>. QED BY <1>1, <1>2, <1>3
     DEF Next, RunnerStep, TestAdd, RunBegin, AssertRunaway, vars

(***************************************************************************)
(* The run's count of failed cases stays the number of cases left that     *)
(* have failed: a case left does not fail again in the run, for it is not  *)
(* entered again.                                                          *)
(***************************************************************************)
LEMMA FailedCasesTalliedStep ==
  ASSUME LoopTypes, BookTypes, PointersFollowLoops, RegisteredOnce,
         RanFollowsLoops, FailedCasesTallied, [Next]_vars
  PROVE  FailedCasesTallied'
<1>. DEFINE Failed == {i \in 1 .. CasesLeft : assertion_fail_count[ran[i]] > 0}
<1>0. /\ ran \in Seq(CaseIds) /\ Len(ran) \in Nat /\ DOMAIN ran = 1 .. Len(ran)
      /\ \A i \in 1 .. Len(ran) : ran[i] \in CaseIds
  BY DEF LoopTypes
<1>1. CASE pc' = "idle"
  BY <1>1 DEF FailedCasesTallied
<1>2. CASE pc = "idle" /\ pc' # "idle"
  <2>1. ran' = <<>> /\ metrics' = NoMetrics /\ pc' = "sets"
    BY <1>2, RunsBegin DEF RunBegin
  <2>2. Failed' = {}
    BY <2>1 DEF CasesLeft
  <2>. QED BY <2>1, <2>2, FS_EmptySet DEF FailedCasesTallied, NoMetrics
<1>3. CASE pc # "idle" /\ pc' # "idle"
  <2>1. metrics.case_fail_count = Cardinality(Failed)
    BY <1>3 DEF FailedCasesTallied
  <2>2. CASE LeaveCase
    <3>1. /\ pc = "body" /\ pc' = "cases" /\ UNCHANGED <<ran, assertion_fail_count>>
          /\ metrics' = IF CaseFailed
                        THEN [metrics EXCEPT !.case_fail_count = @ + 1]
                        ELSE metrics
      BY <2>2 DEF LeaveCase, objects, history
    <3>2. Len(ran) > 0 /\ ran[Len(ran)] = cur.case
      BY <3>1 DEF RanFollowsLoops, RanIsReached
    <3>3. CasesLeft = Len(ran) - 1 /\ CasesLeft' = Len(ran)
      BY <3>1 DEF CasesLeft
    <3>4. Failed' = {i \in 1 .. Len(ran) : assertion_fail_count[ran[i]] > 0}
      BY <3>1, <3>3
    <3>5. Failed' = IF CaseFailed THEN Failed \cup {Len(ran)} ELSE Failed
      BY <1>0, <3>2, <3>3, <3>4 DEF CaseFailed
    <3>6. IsFiniteSet(Failed) /\ Len(ran) \notin Failed
      <4>1. Failed \in SUBSET (1 .. Len(ran))
        BY <1>0, <3>3
      <4>2. IsFiniteSet(1 .. Len(ran))
        BY <1>0, FS_Interval
      <4>. QED BY <1>0, <3>3, <4>1, <4>2, FS_Subset
    <3>7. metrics'.case_fail_count = IF CaseFailed THEN metrics.case_fail_count + 1
                                                   ELSE metrics.case_fail_count
      BY <3>1 DEF BookTypes
    <3>. HIDE DEF Failed
    <3>8. metrics'.case_fail_count = Cardinality(Failed')
      BY <2>1, <3>5, <3>6, <3>7, FS_AddElement
    <3>. QED BY <3>8 DEF FailedCasesTallied, Failed
  <2>3. CASE ~LeaveCase
    <3>1. metrics'.case_fail_count = metrics.case_fail_count
      BY <1>3, <2>3, FailedCasesUnchanged
    <3>2. Failed' = Failed
      <4>1. CASE EnterCase
        <5>1. PICK c \in CaseIds : ran' = Append(ran, c)
          BY <4>1, NextObjects DEF EnterCase
        <5>2. pc = "cases" /\ pc' = "body" /\ assertion_fail_count' = assertion_fail_count
          BY <4>1 DEF EnterCase, objects
        <5>3. CasesLeft = Len(ran) /\ CasesLeft' = Len(ran)
          BY <1>0, <5>1, <5>2 DEF CasesLeft
        <5>4. \A i \in 1 .. Len(ran) : ran'[i] = ran[i]
          BY <1>0, <5>1
        <5>. QED BY <5>2, <5>3, <5>4
      <4>2. CASE FailureStep
        <5>1. PICK c \in CaseIds :
                /\ c = cur.case /\ pc = "body" /\ pc' = "body"
                /\ assertion_fail_count' = [assertion_fail_count EXCEPT ![c] = @ + 1]
          BY <4>2, FailureIsCounted DEF CountFailure
        <5>2. ran' = ran
          BY <4>2 DEF FailureStep, AssertFails, ExpectFails
        <5>3. Len(ran) > 0 /\ ran[Len(ran)] = c /\ RanInOrder
          BY <5>1 DEF RanFollowsLoops, RanIsReached
        <5>4. \A i \in 1 .. (Len(ran) - 1) : ran[i] # c
          BY <1>0, <5>3, RanOnce
        <5>5. \A i \in 1 .. (Len(ran) - 1) :
                assertion_fail_count'[ran[i]] = assertion_fail_count[ran[i]]
          BY <1>0, <5>1, <5>4 DEF BookTypes
        <5>6. CasesLeft = Len(ran) - 1 /\ CasesLeft' = Len(ran) - 1
          BY <5>1, <5>2 DEF CasesLeft
        <5>. QED BY <5>2, <5>5, <5>6
      <4>3. CASE ~EnterCase /\ ~FailureStep
        <5>1. assertion_fail_count' = assertion_fail_count
          BY <4>3, BooksUnchanged
        <5>2. ran' = ran
          BY <1>3, <4>3, LoopsStand DEF EnterSet, EnterSuite, RunBegin, history
        <5>3. pc' = "body" <=> pc = "body"
          BY <1>3, <2>3, <4>3
          DEF Next, RunnerStep, FailureStep, TestAdd, RunBegin, EnterSet,
              EnterSuite, LeaveSuite, LeaveSet, RunReturn, RunThrows, AssertHolds,
              ExpectBegin, ExpectHolds, AssertRunaway, control, vars
        <5>. QED BY <5>1, <5>2, <5>3 DEF CasesLeft
      <4>. QED BY <4>1, <4>2, <4>3
    <3>. QED BY <1>3, <2>1, <3>1, <3>2 DEF FailedCasesTallied
  <2>. QED BY <2>2, <2>3
<1>. QED BY <1>1, <1>2, <1>3

(* The cases of the current suite that are still to run.                   *)
CasesToCome == IF InSuites THEN Len(CasesOf[cur.suite]) - pos.case ELSE 0
CasesCounted == pc # "idle" => metrics.case_count = Len(ran) + CasesToCome

SuitesReached == UNION {SuitesIn(suite_sets[i]) : i \in 1 .. pos.set}
SuitesCounted ==
    pc # "idle" => /\ IsFiniteSet(SuitesReached)
                   /\ metrics.suite_count = Cardinality(SuitesReached)

(* What no other step than the ones named changes of these counts.         *)
LEMMA CountsUnchanged ==
  ASSUME BookTypes, [Next]_vars, pc # "idle"
  PROVE  /\ ~EnterSuite => metrics'.case_count = metrics.case_count
         /\ ~EnterSet => metrics'.suite_count = metrics.suite_count
<1>1. CASE EnterSet \/ EnterSuite \/ LeaveCase
  BY <1>1 DEF EnterSet, EnterSuite, LeaveCase, BookTypes
<1>2. CASE AssertHolds \/ AssertFails \/ ExpectBegin \/ ExpectFails
  BY <1>2 DEF AssertHolds, AssertFails, ExpectBegin, ExpectFails, Counted,
              FailCounted, BookTypes
<1>3. CASE EnterCase \/ LeaveSuite \/ LeaveSet \/ ExpectHolds \/ RunReturn \/ RunThrows
  BY <1>3 DEF EnterCase, LeaveSuite, LeaveSet, ExpectHolds, RunReturn, RunThrows
<1>. QED BY <1>1, <1>2, <1>3
     DEF Next, RunnerStep, TestAdd, RunBegin, AssertRunaway, vars

(* The cases counted stay those that ran and those to come in the suite.   *)
LEMMA CasesCountedStep ==
  ASSUME LoopTypes, BookTypes, PointersFollowLoops, CasesCounted, [Next]_vars
  PROVE  CasesCounted'
<1>0. ran \in Seq(CaseIds) /\ Len(ran) \in Nat /\ pos.case \in Nat /\ metrics.case_count \in Nat
  BY DEF LoopTypes, BookTypes
<1>1. CASE pc' = "idle"
  BY <1>1 DEF CasesCounted
<1>2. CASE pc = "idle" /\ pc' # "idle"
  BY <1>2, RunsBegin DEF RunBegin, CasesCounted, CasesToCome, NoMetrics, InSuites
<1>3. CASE pc # "idle" /\ pc' # "idle"
  <2>1. CASE EnterSuite
    <3>. DEFINE u == SuitesOf[cur.set][pos.suite + 1]
    <3>1. u \in SuiteIds
      BY <2>1, NextObjects
    <3>2. Len(CasesOf[u]) \in Nat
      BY <3>1, LayoutAssumption
    <3>3. /\ metrics' = [metrics EXCEPT !.case_count = @ + Len(CasesOf[u])]
          /\ cur' = [cur EXCEPT !.suite = u] /\ pos' = NextSuite(pos)
          /\ pc = "suites" /\ pc' = "cases" /\ ran' = ran
      BY <2>1 DEF EnterSuite, history
    <3>. HIDE DEF u
    <3>4. cur'.suite = u /\ pos'.case = 0
      BY <3>3 DEF LoopTypes, NextSuite
    <3>5. metrics'.case_count = metrics.case_count + Len(CasesOf[u])
      BY <3>3 DEF BookTypes
    <3>6. metrics.case_count = Len(ran)
      BY <1>0, <3>3 DEF CasesCounted, CasesToCome, InSuites
    <3>7. CasesToCome' = Len(CasesOf[u])
      BY <3>2, <3>3, <3>4 DEF CasesToCome, InSuites
    <3>. QED BY <1>3, <3>3, <3>5, <3>6, <3>7 DEF CasesCounted
  <2>2. CASE EnterCase
    <3>1. PICK c \in CaseIds : ran' = Append(ran, c)
      BY <2>2, NextObjects DEF EnterCase
    <3>2. Len(ran') = Len(ran) + 1
      BY <1>0, <3>1
    <3>3. /\ pc = "cases" /\ pc' = "body" /\ metrics' = metrics
          /\ cur' = [cur EXCEPT !.case = CasesOf[cur.suite][pos.case + 1]]
          /\ pos' = [pos EXCEPT !.case = @ + 1]
      BY <2>2 DEF EnterCase
    <3>4. cur'.suite = cur.suite /\ pos'.case = pos.case + 1
      BY <3>3 DEF LoopTypes
    <3>5. Len(CasesOf[cur.suite]) \in Nat
      BY <3>3, CurrentObjects, LayoutAssumption DEF InSuites
    <3>6. CasesToCome' = CasesToCome - 1 /\ CasesToCome \in Int
      BY <1>0, <3>3, <3>4, <3>5 DEF CasesToCome, InSuites
    <3>. QED BY <1>0, <1>3, <3>2, <3>3, <3>6 DEF CasesCounted
  <2>3. CASE ~EnterSuite /\ ~EnterCase
    <3>1. metrics'.case_count = metrics.case_count
      BY <1>3, <2>3, CountsUnchanged
    <3>2. ran' = ran
      BY <1>3, <2>3, LoopsStand DEF EnterSet, RunBegin, history
    <3>3. CasesToCome' = CasesToCome
      <4>1. CASE EnterSet
        BY <4>1 DEF EnterSet, CasesToCome, InSuites
      <4>2. CASE LeaveSuite
        <5>1. CasesDone /\ pc = "cases" /\ pc' = "suites"
          BY <4>2 DEF LeaveSuite
        <5>. QED BY <1>0, <5>1 DEF CasesToCome, CasesDone, InSuites
      <4>3. CASE LeaveCase
        <5>1. /\ cur' = [cur EXCEPT !.case = NULL] /\ pos' = pos
              /\ pc = "body" /\ pc' = "cases"
          BY <4>3 DEF LeaveCase
        <5>. QED BY <5>1 DEF CasesToCome, InSuites, LoopTypes
      <4>4. CASE LeaveSet
        BY <4>4 DEF LeaveSet, CasesToCome, InSuites
      <4>5. CASE UNCHANGED <<pc, cur, pos>>
        BY <4>5 DEF CasesToCome, InSuites
      <4>6. CASE ~EnterSet /\ ~LeaveSuite /\ ~LeaveCase /\ ~LeaveSet
        BY <1>3, <2>3, <4>5, <4>6
        DEF Next, RunnerStep, TestAdd, RunBegin, RunReturn, RunThrows, AssertHolds,
            AssertFails, ExpectBegin, ExpectHolds, ExpectFails, AssertRunaway,
            control, vars
      <4>. QED BY <4>1, <4>2, <4>3, <4>4, <4>6
    <3>. QED BY <1>3, <3>1, <3>2, <3>3 DEF CasesCounted
  <2>. QED BY <2>1, <2>2, <2>3
<1>. QED BY <1>1, <1>2, <1>3

(* A set has as many suites as its vector is long.                         *)
LEMMA SuitesOfSet ==
  ASSUME NEW s \in SetIds
  PROVE  /\ IsFiniteSet(SuitesIn(s))
         /\ Cardinality(SuitesIn(s)) = Len(SuitesOf[s])
<1>. DEFINE n == Len(SuitesOf[s])
            F == [j \in 1 .. n |-> SuitesOf[s][j]]
<1>1. SuitesOf[s] \in Seq(SuiteIds) /\ n \in Nat /\ DOMAIN SuitesOf[s] = 1 .. n
  BY LayoutAssumption
<1>2. SuitesIn(s) = {SuitesOf[s][j] : j \in 1 .. n}
  BY <1>1 DEF SuitesIn
<1>3. F \in [1 .. n -> SuitesIn(s)]
  BY <1>2
<1>4. \A i, j \in 1 .. n : F[i] = F[j] => i = j
  <2>1. \A i, j \in DOMAIN SuitesOf[s] : SuitesOf[s][i] = SuitesOf[s][j] => i = j
    BY LayoutAssumption
  <2>. QED BY <1>1, <2>1
<1>5. \A u \in SuitesIn(s) : \E j \in 1 .. n : F[j] = u
  BY <1>2
<1>6. F \in Bijection(1 .. n, SuitesIn(s))
  <2>. HIDE DEF F
  <2>. QED BY <1>3, <1>4, <1>5, Fun_IsBij
<1>7. ExistsBijection(1 .. n, SuitesIn(s))
  BY <1>6 DEF ExistsBijection
<1>8. IsFiniteSet(1 .. n) /\ Cardinality(1 .. n) = n
  BY <1>1, FS_Interval
<1>. QED BY <1>7, <1>8, FS_Bijection

(* The suites counted stay those of the sets that the run has entered.     *)
LEMMA SuitesCountedStep ==
  ASSUME LoopTypes, BookTypes, PointersFollowLoops, RegisteredOnce,
         SuitesCounted, [Next]_vars
  PROVE  SuitesCounted'
<1>0. pos.set \in Nat
  BY DEF LoopTypes
<1>1. CASE pc' = "idle"
  BY <1>1 DEF SuitesCounted
<1>2. CASE pc = "idle" /\ pc' # "idle"
  <2>1. pos' = LoopStart /\ metrics' = NoMetrics
    BY <1>2, RunsBegin DEF RunBegin
  <2>2. SuitesReached' = {}
    BY <2>1 DEF SuitesReached, LoopStart
  <2>. QED BY <2>1, <2>2, FS_EmptySet DEF SuitesCounted, NoMetrics
<1>3. CASE pc # "idle" /\ pc' # "idle"
  <2>1. suite_sets' = suite_sets
    BY <1>3, RegistryStays
  <2>2. CASE EnterSet
    <3>. DEFINE i == pos.set + 1
                s == suite_sets[i]
    <3>1. /\ i \in DOMAIN suite_sets /\ s \in SetIds /\ pos'.set = i
          /\ metrics' = [metrics EXCEPT !.suite_count = @ + Len(SuitesOf[s])]
      BY <2>2, <1>0 DEF EnterSet, LoopTypes, NextSet
    <3>2. 1 .. i = (1 .. pos.set) \cup {i}
      BY <1>0
    <3>. HIDE DEF i
    <3>3. SuitesReached' = SuitesReached \cup SuitesIn(s)
      BY <2>1, <3>1, <3>2 DEF SuitesReached
    <3>4. SuitesReached \cap SuitesIn(s) = {}
      <4>1. \A h \in 1 .. pos.set : h \in DOMAIN suite_sets /\ h # i
        BY <1>0, <3>1 DEF LoopTypes, i
      <4>2. \A h \in 1 .. pos.set : suite_sets[h] \in SetIds /\ suite_sets[h] # s
        BY <3>1, <4>1 DEF RegisteredOnce, LoopTypes
      <4>3. \A t, u \in SetIds : \A j \in DOMAIN SuitesOf[t], k \in DOMAIN SuitesOf[u] :
              SuitesOf[t][j] = SuitesOf[u][k] => t = u
        BY LayoutAssumption
      <4>. QED BY <3>1, <4>2, <4>3 DEF SuitesReached, SuitesIn
    <3>5. /\ IsFiniteSet(SuitesReached) /\ IsFiniteSet(SuitesIn(s))
          /\ Cardinality(SuitesIn(s)) = Len(SuitesOf[s])
          /\ metrics.suite_count = Cardinality(SuitesReached)
      BY <1>3, <3>1, SuitesOfSet DEF SuitesCounted
    <3>6. metrics'.suite_count = metrics.suite_count + Len(SuitesOf[s])
      BY <3>1 DEF BookTypes
    <3>7. metrics.suite_count \in Nat /\ Len(SuitesOf[s]) \in Nat
      BY <3>1, LayoutAssumption DEF BookTypes
    <3>8. /\ IsFiniteSet(SuitesReached \cup SuitesIn(s))
          /\ Cardinality(SuitesReached \cup SuitesIn(s)) =
                metrics.suite_count + Len(SuitesOf[s]) - Cardinality({})
      BY <3>4, <3>5, FS_Union
    <3>9. Cardinality({}) = 0
      BY FS_EmptySet
    <3>. QED BY <3>3, <3>6, <3>7, <3>8, <3>9 DEF SuitesCounted
  <2>3. CASE ~EnterSet
    <3>1. metrics'.suite_count = metrics.suite_count
      BY <1>3, <2>3, CountsUnchanged
    <3>2. pos'.set = pos.set
      BY <1>3, <2>3, LoopsStand DEF EnterSuite, NextSuite, EnterCase, RunBegin, LoopTypes
    <3>3. SuitesReached' = SuitesReached
      BY <2>1, <3>2 DEF SuitesReached
    <3>. QED BY <1>3, <3>1, <3>3 DEF SuitesCounted
  <2>. QED BY <2>2, <2>3
<1>. QED BY <1>1, <1>2, <1>3

(* When the outermost loop is over, every place has been reached.          *)
LEMMA AllReached ==
  ASSUME LoopTypes, LoopsFinished, pc = "sets", pos.set = Len(suite_sets),
         NEW p \in Places
  PROVE  Reached(p)
<1>1. /\ p.set \in Nat /\ p.suite \in Nat /\ p.case \in Nat
      /\ p.set >= 1 /\ p.suite >= 1 /\ p.case >= 1
      /\ p.suite <= Len(SuitesOf[suite_sets[p.set]])
      /\ p.case <= Len(CasesOf[SuitesOf[suite_sets[p.set]][p.suite]])
  BY PlaceBounds
<1>2. p = pos <=> p.set = pos.set /\ p.suite = pos.suite /\ p.case = pos.case
  BY PlacesMembers DEF LoopTypes
<1>3. pos.set \in Nat /\ pos.suite \in Nat /\ pos.case \in Nat
  BY DEF LoopTypes
<1>4. p.set <= pos.set
  BY PlacesMembers DEF LoopTypes
<1>5. ASSUME p.set = pos.set PROVE Reached(p)
  <2>1. p.suite <= pos.suite
    BY <1>1, <1>3, <1>5 DEF LoopsFinished
  <2>2. p.suite = pos.suite => p.case <= pos.case
    BY <1>1, <1>3, <1>5 DEF LoopsFinished
  <2>. QED BY <1>1, <1>2, <1>3, <1>5, <2>1, <2>2 DEF Reached, Before
<1>. QED BY <1>1, <1>3, <1>4, <1>5 DEF Reached, Before

(* A program that has not run its tests has no result.                     *)
EndedMeansRun == ended.how # "never" => runs > 0

(* Only a run that has begun returns or throws.                            *)
LEMMA EndedMeansRunStep ==
  ASSUME LoopTypes, PointersFollowLoops, EndedMeansRun, [Next]_vars
  PROVE  EndedMeansRun'
<1>1. CASE pc' # "idle"
  BY <1>1, PointersStep DEF PointersFollowLoops, EndedMeansRun
<1>2. CASE pc = "idle" /\ pc' = "idle"
  BY <1>2, OutsideRuns DEF EndedMeansRun
<1>3. CASE pc # "idle" /\ pc' = "idle"
  BY <1>3, RunsEnd DEF PointersFollowLoops, EndedMeansRun
<1>. QED BY <1>1, <1>2, <1>3

(* What a run that returned has run, and counted, stays so until the next. *)
LEMMA EveryCaseRunsOnceStep ==
  ASSUME LoopTypes, LoopsFinished, RanFollowsLoops, CasesCounted, SuitesCounted,
         EndedMeansRun, EveryCaseRunsOnce, [Next]_vars
  PROVE  EveryCaseRunsOnce'
<1>0. ASSUME UNCHANGED <<suite_sets, ran>>
      PROVE  /\ EachRan' = EachRan /\ OnlyRegisteredRan' = OnlyRegisteredRan
             /\ RanInOrder' = RanInOrder /\ SuitesRegistered' = SuitesRegistered
  <2>1. Places' = Places /\ \A p : CaseAt(p)' = CaseAt(p)
    BY <1>0 DEF Places, PlacesIn, CaseAt
  <2>. QED BY <1>0, <2>1
       DEF EachRan, OnlyRegisteredRan, RanInOrder, SuitesRegistered
<1>1. CASE pc' # "idle"
  BY <1>1 DEF EveryCaseRunsOnce
<1>2. CASE pc = "idle" /\ pc' = "idle"
  <2>1. UNCHANGED <<runs, ended, ran, metrics>> /\ (suite_sets' = suite_sets \/ runs = 0)
    BY <1>2, OutsideRuns
  <2>2. CASE suite_sets' = suite_sets
    BY <1>0, <1>2, <2>1, <2>2 DEF EveryCaseRunsOnce
  <2>3. CASE runs = 0
    BY <2>1, <2>3 DEF EndedMeansRun, EveryCaseRunsOnce
  <2>. QED BY <2>1, <2>2, <2>3
<1>3. CASE RunReturn
  <2>1. /\ pc = "sets" /\ pos.set = Len(suite_sets)
        /\ UNCHANGED <<suite_sets, ran, metrics>>
    BY <1>3 DEF RunReturn, registry, history
  <2>2. RanIsReached
    BY <2>1 DEF RanFollowsLoops
  <2>3. EachRan
    BY <2>1, <2>2, AllReached DEF EachRan, RanIsReached
  <2>4. OnlyRegisteredRan /\ RanInOrder
    BY <2>2 DEF OnlyRegisteredRan, RanIsReached
  <2>5. metrics.case_count = Len(ran)
    BY <2>1 DEF CasesCounted, CasesToCome, InSuites, LoopTypes
  <2>6. SuitesReached = SuitesRegistered
    BY <2>1 DEF SuitesReached, SuitesRegistered, LoopTypes
  <2>7. metrics.suite_count = Cardinality(SuitesRegistered)
    BY <2>1, <2>6 DEF SuitesCounted
  <2>. QED BY <1>0, <2>1, <2>3, <2>4, <2>5, <2>7 DEF EveryCaseRunsOnce
<1>4. CASE RunThrows
  BY <1>4 DEF RunThrows, EveryCaseRunsOnce
<1>. QED BY <1>1, <1>2, <1>3, <1>4, RunsEnd

-----------------------------------------------------------------------------
(* The inductive invariant and the theorems                                *)

IInv ==
    /\ TypeOK
    /\ PointersFollowLoops
    /\ FramesMarkEntries
    /\ SuiteCountsItsFailingCases
    /\ HeadersOnce
    /\ RecordsAgreeOnFailure
    /\ Totals
    /\ RegisteredOnce
    /\ LoopsFinished
    /\ RanFollowsLoops
    /\ FailedHaveRun
    /\ HeadingIsCurrent
    /\ FailuresCounted
    /\ ReturnCountsFailures
    /\ ZeroMeansClean
    /\ FailedCasesTallied
    /\ CasesCounted
    /\ SuitesCounted
    /\ EndedMeansRun
    /\ EveryCaseRunsOnce

(* Before main() nothing has run, failed or been printed.                  *)
LEMMA IInvInit == Init => IInv
<1>. SUFFICES ASSUME Init PROVE IInv
  OBVIOUS
<1>. USE DEF Init
<1>1. TypeOK
  BY DEF TypeOK, LoopTypes, BookTypes, LineTypes, RecordTypes, LoopStart,
         NoPointers, NoMetrics, PCs
<1>2. PointersFollowLoops
  BY DEF PointersFollowLoops, NoPointers, InSets, InSuites, InCases
<1>3. FramesMarkEntries
  BY DEF FramesMarkEntries
<1>4. \A u \in SuiteIds : FailingCases(u) = {}
  BY LayoutAssumption DEF FailingCases, CasesIn
<1>5. SuiteCountsItsFailingCases
  BY <1>4, FS_EmptySet DEF SuiteCountsItsFailingCases
<1>6. HeadersOnce
  BY <1>4 DEF HeadersOnce
<1>7. RecordsAgreeOnFailure
  BY DEF RecordsAgreeOnFailure
<1>8. Totals
  BY DEF Totals
<1>9. /\ RegisteredOnce /\ LoopsFinished /\ RanFollowsLoops
      /\ FailedHaveRun /\ HeadingIsCurrent
  BY DEF RegisteredOnce, LoopsFinished, LoopStart, RanFollowsLoops,
         FailedHaveRun, HeadingIsCurrent
<1>10. FailuresCounted /\ FailedCasesTallied /\ CasesCounted /\ SuitesCounted
  BY DEF FailuresCounted, FailedCasesTallied, CasesCounted, SuitesCounted
<1>11. /\ ReturnCountsFailures /\ ZeroMeansClean
       /\ EndedMeansRun /\ EveryCaseRunsOnce
  BY DEF ReturnCountsFailures, ZeroMeansClean, Returned, EndedMeansRun, EveryCaseRunsOnce
<1>. QED BY <1>1, <1>2, <1>3, <1>5, <1>6, <1>7, <1>8, <1>9, <1>10, <1>11 DEF IInv

(* Every step of the runner, and every stutter, preserves the invariant.   *)
LEMMA IInvStep == IInv /\ [Next]_vars => IInv'
<1>. SUFFICES ASSUME IInv, [Next]_vars PROVE IInv'
  OBVIOUS
<1>. USE DEF IInv, TypeOK
<1>1. LoopTypes' /\ BookTypes' /\ LineTypes'
  BY LoopTypesStep, BookTypesStep, LineTypesStep
<1>2. RecordTypes' /\ FramesMarkEntries'
  BY RecordsStep
<1>3. PointersFollowLoops'
  BY PointersStep
<1>4. SuiteCountsItsFailingCases'
  BY SuiteCountsStep
<1>5. HeadersOnce'
  BY HeadersStep
<1>6. RecordsAgreeOnFailure'
  BY RecordsAgreeStep
<1>7. Totals'
  BY TotalsStep
<1>8. RegisteredOnce' /\ LoopsFinished' /\ RanFollowsLoops'
  BY RegisteredOnceStep, LoopsFinishedStep, RanFollowsLoopsStep
<1>9. FailedHaveRun' /\ HeadingIsCurrent'
  BY FailedHaveRunStep, HeadingIsCurrentStep
<1>10. FailuresCounted' /\ ReturnCountsFailures' /\ ZeroMeansClean'
  BY FailuresCountedStep, ReturnsStep
<1>11. FailedCasesTallied'
  BY FailedCasesTalliedStep
<1>12. CasesCounted' /\ SuitesCounted'
  BY CasesCountedStep, SuitesCountedStep
<1>13. EndedMeansRun' /\ EveryCaseRunsOnce'
  BY EndedMeansRunStep, EveryCaseRunsOnceStep
<1>. QED BY <1>1, <1>2, <1>3, <1>4, <1>5, <1>6, <1>7, <1>8, <1>9, <1>10, <1>11,
            <1>12, <1>13

(* The invariant holds of every behaviour of the runner.                   *)
THEOREM Invariance == Spec => []IInv
  BY IInvInit, IInvStep, PTL DEF Spec

(***************************************************************************)
(* Every variable keeps its type, and the pointers the assertions follow   *)
(* agree with the loops of test_run() at every step.                       *)
(***************************************************************************)
THEOREM TypesAndPointers == Spec => [](TypeOK /\ PointersFollowLoops)
<1>1. IInv => TypeOK /\ PointersFollowLoops
  BY DEF IInv
<1>. QED BY <1>1, Invariance, PTL

(***************************************************************************)
(* test_suite::case_fail_count is the number of the suite's failing cases, *)
(* whatever the bodies assert, throw, and however often test_run() runs.   *)
(***************************************************************************)
THEOREM SuiteCountsCorrect == Spec => []SuiteCountsItsFailingCases
<1>1. IInv => SuiteCountsItsFailingCases
  BY DEF IInv
<1>. QED BY <1>1, Invariance, PTL

(***************************************************************************)
(* test_assert_epilog announces each suite and case that fails once and    *)
(* announces no other.                                                     *)
(***************************************************************************)
THEOREM HeadersCorrect == Spec => []HeadersOnce
<1>1. IInv => HeadersOnce
  BY DEF IInv
<1>. QED BY <1>1, Invariance, PTL

(***************************************************************************)
(* However exception assertions nest, a case has a record of a failure     *)
(* exactly when its assertion_fail_count is positive.                      *)
(***************************************************************************)
THEOREM RecordsCorrect == Spec => []RecordsAgreeOnFailure
<1>1. IInv => RecordsAgreeOnFailure
  BY DEF IInv
<1>. QED BY <1>1, Invariance, PTL

(***************************************************************************)
(* A run in which nothing failed returns zero.  One in which an assertion  *)
(* failed never prints that all succeeded, and returns zero only after as  *)
(* many failures as int has values, or more: how many cases, suites and    *)
(* earlier runs there are does not matter.                                 *)
(***************************************************************************)
THEOREM ReturnValueCorrect == Spec => []ZeroMeansClean
<1>1. IInv => ZeroMeansClean
  BY DEF IInv
<1>. QED BY <1>1, Invariance, PTL

(***************************************************************************)
(* The value test_run() returns is the number of assertions that failed    *)
(* during it, however many cases failed in earlier runs, up to INT_MAX of  *)
(* them, and congruent to that number beyond.                              *)
(***************************************************************************)
THEOREM ReturnIsFailures == Spec => []ReturnCountsFailures
<1>1. IInv => ReturnCountsFailures
  BY DEF IInv
<1>. QED BY <1>1, Invariance, PTL

(***************************************************************************)
(* test_metrics::case_fail_count is the number of the cases left so far    *)
(* whose object has a failure: none is counted twice, and none that was    *)
(* left fails later in the run.                                            *)
(***************************************************************************)
THEOREM TallyCorrect == Spec => []FailedCasesTallied
<1>1. IInv => FailedCasesTallied
  BY DEF IInv
<1>. QED BY <1>1, Invariance, PTL

(***************************************************************************)
(* A run that returns has run every case of every registered set once, in  *)
(* the order of registration, and has counted those cases and suites.      *)
(***************************************************************************)
THEOREM EveryCaseRan == Spec => []EveryCaseRunsOnce
<1>1. IInv => EveryCaseRunsOnce
  BY DEF IInv
<1>. QED BY <1>1, Invariance, PTL

(***************************************************************************)
(* The failure line of a case that never failed before a run stands under  *)
(* the header of that case; that of a case that did never stands under its *)
(* own, which an earlier run printed.                                      *)
(***************************************************************************)
THEOREM HeadingCorrect == Spec => FailuresUnderOwnHeading
<1>. DEFINE Fine == \A c \in CaseIds :
                      assertion_fail_count'[c] > assertion_fail_count[c] =>
                         (heading' = c <=> start[c] = 0)
<1>1. ASSUME IInv, [Next]_vars PROVE [Fine]_vars
  <2>1. CASE ~FailureStep
    <3>1. assertion_fail_count' = assertion_fail_count
      BY <1>1, <2>1, BooksUnchanged
    <3>. QED BY <1>1, <3>1 DEF IInv, TypeOK, BookTypes
  <2>2. CASE FailureStep
    <3>1. PICK c \in CaseIds :
            /\ c = cur.case /\ pc = "body"
            /\ heading' = IF FirstOfCase(c) THEN c ELSE heading
            /\ assertion_fail_count' = [assertion_fail_count EXCEPT ![c] = @ + 1]
      BY <1>1, <2>2, FailureIsCounted DEF IInv, TypeOK, CountFailure
    <3>2. assertion_fail_count[c] \in Nat /\ start[c] \in Nat
      BY <1>1 DEF IInv, TypeOK, BookTypes
    <3>3. heading' = c <=> start[c] = 0
      <4>1. start[c] <= assertion_fail_count[c]
        BY <1>1, <3>2 DEF IInv, Totals
      <4>2. FirstOfCase(c) => start[c] = 0
        BY <3>2, <4>1 DEF FirstOfCase
      <4>3. ~FirstOfCase(c) => (heading = c <=> start[c] = 0)
        BY <1>1, <3>1, <3>2 DEF IInv, HeadingIsCurrent, FirstOfCase
      <4>. QED BY <3>1, <4>2, <4>3
    <3>4. \A d \in CaseIds \ {c} :
            /\ assertion_fail_count[d] \in Nat
            /\ assertion_fail_count'[d] = assertion_fail_count[d]
      BY <1>1, <3>1 DEF IInv, TypeOK, BookTypes
    <3>. QED BY <3>3, <3>4
  <2>. QED BY <2>1, <2>2
<1>. QED BY <1>1, Invariance, PTL DEF Spec, FailuresUnderOwnHeading
=============================================================================
