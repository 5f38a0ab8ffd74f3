----------------------------- MODULE MockProofs -----------------------------
(***************************************************************************)
(* Theorems about Mock, for every set of parameter lists, of values and of *)
(* kinds, and for calls nested to any depth.                               *)
(*                                                                         *)
(* The inductive invariant IInv relates the counter to the calls begun     *)
(* (CountExact) and the parameters to the same calls (ParamsOfLastBegun),  *)
(* so that what a test reads between two calls follows. That Mock          *)
(* implements CallLedger needs only TypeOK and CountExact.                 *)
(***************************************************************************)
EXTENDS MockedTests, DataLemmas

(* A process stopped by a call runs nothing more.                          *)
StoppedByCall == outcome = "stopped" => process = "stopped"

(* Every call begun, since reset() or in progress then, is counted or open. *)
CountExact == m_count + Open = begun + carried

(* The parameters are those of a call begun since reset(), if one was.     *)
ParamsOfLastBegun == begun > 0 <=> params # NoArgs

(* on_stub() has given a stub its result.                                  *)
StubHasResult == m_stub /\ HasResult => assigned


IInv == /\ TypeOK
        /\ StoppedByCall
        /\ CountExact
        /\ ParamsOfLastBegun
        /\ StubHasResult
        /\ ResultIsLatest
        /\ ThrowsRatherThanDefaults

-----------------------------------------------------------------------------
(* One lemma for each kind of step: what a test sets, what it reads and    *)
(* resets, and what a call does.                                           *)

(* The lengths of the stack of calls in progress.                          *)
LEMMA FrameLengths ==
    ASSUME TypeOK
    PROVE  /\ Len(frames) \in Nat
           /\ \A m \in {"func", "func0"} :
                 /\ Append(frames, m) \in Seq({"func", "func0"})
                 /\ Len(Append(frames, m)) = Len(frames) + 1
           /\ frames # <<>> =>
                 /\ SubSeq(frames, 1, Len(frames) - 1) \in Seq({"func", "func0"})
                 /\ Len(SubSeq(frames, 1, Len(frames) - 1)) = Len(frames) - 1
                 /\ Len(frames) > 0
<1>1. frames \in Seq({"func", "func0"}) /\ Len(frames) \in Nat
    BY DEF TypeOK
<1>2. ASSUME NEW m \in {"func", "func0"}
      PROVE  /\ Append(frames, m) \in Seq({"func", "func0"})
             /\ Len(Append(frames, m)) = Len(frames) + 1
    BY <1>1, AppendProperties
<1>3. ASSUME frames # <<>>
      PROVE  /\ SubSeq(frames, 1, Len(frames) - 1) \in Seq({"func", "func0"})
             /\ Len(SubSeq(frames, 1, Len(frames) - 1)) = Len(frames) - 1
             /\ Len(frames) > 0
    BY <1>1, <1>3, ButLast
<1> QED BY <1>1, <1>2, <1>3

(* The open calls before and after a callable begins.                      *)
LEMMA CallableBegins ==
    ASSUME IInv, NEW p \in Args, CallRuns(p)
    PROVE  /\ frames' \in Seq({"func", "func0"}) /\ outcome' = outcome
           /\ Open \in Nat /\ Open' = Open + 1 /\ outcome # "stopped"
<1>1. outcome # "stopped" /\ outcome' = outcome
    BY DEF IInv, StoppedByCall, CallRuns, CallBegins, Running
<1>2. PICK m \in {"func", "func0"} : frames' = Append(frames, m)
    BY DEF CallRuns
<1>3. Open = Len(frames) /\ Open' = Len(frames')
    BY <1>1, FrameLengths DEF Open, IInv
<1> QED BY <1>1, <1>2, <1>3, FrameLengths DEF IInv

(* The open calls before and after a callable returns or throws.           *)
LEMMA CallableOver ==
    ASSUME IInv, NEW how \in {"returned", "threw"}, CallableEnds(how)
    PROVE  /\ frames' \in Seq({"func", "func0"}) /\ outcome' = how
           /\ Open \in Nat \ {0} /\ Open' = Open - 1 /\ outcome # "stopped"
<1>1. outcome # "stopped" /\ outcome' = how
    BY DEF IInv, StoppedByCall, CallableEnds, CallEnds, Running
<1>2. frames' = SubSeq(frames, 1, Len(frames) - 1) /\ frames # <<>>
    BY DEF CallableEnds
<1>3. Open = Len(frames) /\ Open' = Len(frames')
    BY <1>1, FrameLengths DEF Open, IInv
<1> QED BY <1>1, <1>2, <1>3, FrameLengths DEF IInv

(* The initial states satisfy the invariant.                               *)
LEMMA InitIInv == Init => IInv
<1> SUFFICES ASSUME Init PROVE IInv
    OBVIOUS
<1>1. m_stub \in BOOLEAN /\ assigned \in BOOLEAN /\ StubHasResult
    BY DEF Init, StubHasResult, HasResult
<1>2. TypeOK
    BY <1>1, EmptySeq DEF Init, NoCalls, TypeOK
<1>3. CountExact
    BY EmptySeq DEF Init, NoCalls, CountExact, Open
<1> QED
    BY <1>1, <1>2, <1>3
       DEF Init, IInv, StoppedByCall, ParamsOfLastBegun, ResultIsLatest,
           ThrowsRatherThanDefaults

(* Setting func, func0 or result, and stub().                              *)
LEMMA SetStep ==
    ASSUME IInv,
           \/ \E on \in BOOLEAN : SetFunc(on) \/ SetFunc0(on)
           \/ \E v \in Values : SetResult(v)
           \/ Stub
    PROVE  IInv'
<1> USE DEF IInv
<1>1. ASSUME NEW on \in BOOLEAN, SetFunc(on) \/ SetFunc0(on)
      PROVE  IInv'
    BY <1>1 DEF SetFunc, SetFunc0, fixed, returned, recorded, calls, history,
           TypeOK, StoppedByCall, CountExact, Open, ParamsOfLastBegun,
           StubHasResult, ResultIsLatest, ThrowsRatherThanDefaults, HasResult
<1>2. ASSUME NEW v \in Values, SetResult(v)
      PROVE  IInv'
    BY <1>2 DEF SetResult, Assign, fixed, callable, recorded, calls, history,
           TypeOK, StoppedByCall, CountExact, Open, ParamsOfLastBegun,
           StubHasResult, ResultIsLatest, ThrowsRatherThanDefaults, HasResult
<1>3. ASSUME Stub
      PROVE  IInv'
    BY <1>3 DEF Stub, Assign, fixed, callable, recorded, calls, history,
           TypeOK, StoppedByCall, CountExact, Open, ParamsOfLastBegun,
           StubHasResult, ResultIsLatest, ThrowsRatherThanDefaults, HasResult
<1> QED BY <1>1, <1>2, <1>3

(* Reading result, and reset(). A running process has no call that stopped *)
(* it, so the calls in progress at reset() are the frames.                 *)
LEMMA ReadStep == ASSUME IInv, ReadResult \/ Reset PROVE IInv'
<1> USE DEF IInv
<1>1. CASE ReadResult
    <2>1. PICK stopped \in BOOLEAN : Convert(stopped)
        BY <1>1 DEF ReadResult
    <2>2. result' \in Values \cup {DEFAULT} /\ process' \in {"running", "stopped"}
        BY <2>1 DEF Convert, LeftByRead, TypeOK
    <2>3. ResultIsLatest'
        BY <1>1, <2>1 DEF ReadResult, Convert, LeftByRead, ResultIsLatest, fixed
    <2>4. StoppedByCall'
        BY <1>1, <2>1 DEF ReadResult, Convert, StoppedByCall, calls, Running
    <2> QED
        BY <1>1, <2>2, <2>3, <2>4
           DEF ReadResult, fixed, callable, recorded, calls, history, TypeOK,
               CountExact, Open, ParamsOfLastBegun, StubHasResult,
               ThrowsRatherThanDefaults, HasResult
<1>2. CASE Reset
    BY <1>2, FrameLengths
       DEF Reset, Running, fixed, callable, returned, calls, TypeOK,
           StoppedByCall, CountExact, Open, ParamsOfLastBegun, StubHasResult,
           ResultIsLatest, ThrowsRatherThanDefaults, HasResult
<1> QED BY <1>1, <1>2

(* The steps of calls.                                                     *)
LEMMA CallStep ==
    ASSUME IInv,
           \/ \E p \in Args : \/ CallThrows(p) \/ CallRuns(p)
                              \/ CallDoesNothing(p) \/ CallReturnsResult(p)
           \/ \E how \in {"returned", "threw"} : CallableEnds(how)
    PROVE  IInv'
<1> USE DEF IInv
<1>1. ASSUME NEW p \in Args, CallThrows(p)
      PROVE  IInv'
    BY <1>1, ValuesAssumption, FrameLengths
       DEF CallThrows, CallBegins, CallEnds, Running, fixed, callable, returned,
           TypeOK, StoppedByCall, CountExact, Open, ParamsOfLastBegun,
           StubHasResult, ResultIsLatest, ThrowsRatherThanDefaults, HasResult
<1>2. ASSUME NEW p \in Args, CallRuns(p)
      PROVE  IInv'
    <2>1. /\ frames' \in Seq({"func", "func0"}) /\ outcome' = outcome
          /\ Open \in Nat /\ Open' = Open + 1 /\ outcome # "stopped"
        BY <1>2, CallableBegins
    <2>2. params' = p /\ begun' = begun + 1 /\ carried' = carried
          /\ UNCHANGED <<fixed, callable, returned, m_count, outcome, process>>
        BY <1>2 DEF CallRuns, CallBegins
    <2>3. TypeOK'
        BY <2>1, <2>2 DEF fixed, callable, returned, TypeOK
    <2>4. ParamsOfLastBegun'
        BY <2>2, ValuesAssumption DEF TypeOK, ParamsOfLastBegun
    <2>5. CountExact' /\ StoppedByCall'
        BY <2>1, <2>2 DEF TypeOK, CountExact, StoppedByCall
    <2>6. StubHasResult' /\ ResultIsLatest' /\ ThrowsRatherThanDefaults'
        BY <2>1, <2>2 DEF fixed, callable, returned, StubHasResult, ResultIsLatest,
                          ThrowsRatherThanDefaults, HasResult
    <2> QED BY <2>3, <2>4, <2>5, <2>6
<1>3. ASSUME NEW p \in Args, CallDoesNothing(p)
      PROVE  IInv'
    BY <1>3, ValuesAssumption, FrameLengths
       DEF CallDoesNothing, CallBegins, CallEnds, Running, fixed, callable,
           returned, TypeOK, StoppedByCall, CountExact, Open, ParamsOfLastBegun,
           StubHasResult, ResultIsLatest, ThrowsRatherThanDefaults, HasResult
<1>4. ASSUME NEW p \in Args, CallReturnsResult(p)
      PROVE  IInv'
    <2>1. CallBegins(p) /\ Running /\ outcome # "stopped"
        BY <1>4 DEF CallReturnsResult, CallBegins, Running, StoppedByCall
    <2>2. ~assigned => ~kind.throws
        BY <1>4 DEF CallReturnsResult, NotImplemented, StubHasResult
    <2>3. CASE Convert(TRUE) /\ outcome' = "stopped" /\ m_count' = m_count
        BY <1>4, <2>1, <2>2, <2>3, ValuesAssumption, FrameLengths
           DEF CallReturnsResult, Convert, CallBegins, fixed, callable,
               TypeOK, StoppedByCall, CountExact, Open, ParamsOfLastBegun,
               StubHasResult, ResultIsLatest, ThrowsRatherThanDefaults, HasResult
    <2>4. CASE Convert(FALSE) /\ CallEnds(IF assigned THEN "returned" ELSE "unset")
        <3>1. result' \in Values \cup {DEFAULT} /\ ResultIsLatest'
            BY <1>4, <2>4 DEF CallReturnsResult, Convert, LeftByRead, TypeOK,
                              ResultIsLatest, fixed
        <3> QED
            BY <1>4, <2>1, <2>2, <2>4, <3>1, ValuesAssumption, FrameLengths
               DEF CallReturnsResult, Convert, CallBegins, CallEnds, fixed,
                   callable, TypeOK, StoppedByCall, CountExact, Open,
                   ParamsOfLastBegun, StubHasResult, ThrowsRatherThanDefaults,
                   HasResult
    <2> QED BY <1>4, <2>3, <2>4 DEF CallReturnsResult
<1>5. ASSUME NEW how \in {"returned", "threw"}, CallableEnds(how)
      PROVE  IInv'
    BY <1>5, CallableOver
       DEF CallableEnds, CallEnds, Running, fixed, callable, returned, history,
           TypeOK, StoppedByCall, CountExact, ParamsOfLastBegun,
           StubHasResult, ResultIsLatest, ThrowsRatherThanDefaults, HasResult
<1> QED BY <1>1, <1>2, <1>3, <1>4, <1>5

(* A stuttering step.                                                      *)
LEMMA StutterStep == ASSUME IInv, UNCHANGED vars PROVE IInv'
BY DEF IInv, vars, fixed, callable, returned, recorded, calls, history, TypeOK,
       StoppedByCall, CountExact, Open, ParamsOfLastBegun, StubHasResult,
       ResultIsLatest, ThrowsRatherThanDefaults, HasResult

(* IInv is an invariant.                                                   *)
THEOREM Invariance == Spec => []IInv
<1>1. IInv /\ [Next]_vars => IInv'
    BY SetStep, ReadStep, CallStep, StutterStep DEF Next
<1> QED BY InitIInv, <1>1, PTL DEF Spec

-----------------------------------------------------------------------------
(* What a test may rely on.                                                *)

(* The types, the value result holds, and that a build defining            *)
(* JG_MOCK_THROW_NOT_IMPLEMENTED never returns a value nobody set.         *)
THEOREM ResultsCorrect ==
    Spec => [](TypeOK /\ ResultIsLatest /\ ThrowsRatherThanDefaults)
<1>1. IInv => TypeOK /\ ResultIsLatest /\ ThrowsRatherThanDefaults
    BY DEF IInv
<1> QED BY Invariance, <1>1, PTL

(* Between calls called() tells whether param<N>() holds arguments.        *)
THEOREM ParamsCorrect == Spec => []ParamsTellCalled
<1>1. IInv => ParamsTellCalled
    <2> SUFFICES ASSUME IInv, Running, frames = <<>>, carried = 0
                 PROVE  m_count > 0 <=> params # NoArgs
        BY DEF ParamsTellCalled
    <2>1. Open = 0
        BY DEF Open, Running, IInv, StoppedByCall
    <2>2. m_count = begun
        BY <2>1 DEF IInv, CountExact, TypeOK
    <2> QED BY <2>2 DEF IInv, ParamsOfLastBegun
<1> QED BY Invariance, <1>1, PTL

(* No call of a stub fails for want of something set.                      *)
THEOREM StubsCorrect == Spec => StubsNeverFail
<1>1. ASSUME IInv, [Next]_vars, m_stub, outcome' # outcome
      PROVE  outcome' \in {"returned", "threw"}
    <2>1. ASSUME NEW p \in Args, CallReturnsResult(p)
          PROVE  outcome' = "returned"
        <3>1. assigned
            BY <1>1, <2>1 DEF IInv, StubHasResult, CallReturnsResult
        <3> QED BY <2>1, <3>1 DEF CallReturnsResult, Convert, CallEnds
    <2> QED
        BY <1>1, <2>1
           DEF Next, vars, calls, SetFunc, SetFunc0, SetResult, Stub, Reset,
               ReadResult, CallThrows, NotImplemented, CallRuns, CallDoesNothing,
               CallEnds, CallableEnds
<1> QED BY Invariance, <1>1, PTL DEF Spec, StubsNeverFail

-----------------------------------------------------------------------------
(* Mock implements CallLedger. *)

(* Every step of a mock is a step of the ledger or leaves it alone.        *)
LEMMA LedgerStep ==
    ASSUME IInv, IInv', [Next]_vars
    PROVE  [Ledger!Next]_(Ledger!vars)
<1> USE DEF IInv, Ledger!vars, Ledger!Next, calls, history, recorded
<1>1. CASE \/ UNCHANGED vars
           \/ \E on \in BOOLEAN : SetFunc(on) \/ SetFunc0(on)
           \/ \E v \in Values : SetResult(v)
           \/ Stub \/ ReadResult
    BY <1>1 DEF vars, SetFunc, SetFunc0, SetResult, Stub, ReadResult, Open
<1>2. CASE Reset
    BY <1>2 DEF Reset, Running, StoppedByCall, Open, Ledger!Reset
<1>3. ASSUME NEW p \in Args, CallThrows(p) \/ CallDoesNothing(p)
      PROVE  Ledger!Call
    BY <1>3 DEF CallThrows, CallDoesNothing, CallBegins, CallEnds, Running,
                StoppedByCall, Open, Ledger!Call
<1>4. ASSUME NEW p \in Args, CallRuns(p)
      PROVE  Ledger!Begin
    BY <1>4, CallableBegins
       DEF CallRuns, CallBegins, CountExact, TypeOK, Ledger!Begin, Ledger!Fair
<1>5. ASSUME NEW p \in Args, CallReturnsResult(p)
      PROVE  Ledger!Call \/ Ledger!Begin
    <2>1. /\ outcome # "stopped" /\ Open = Len(frames) /\ Len(frames) \in Nat
          /\ begun' = begun + 1 /\ carried' = carried /\ frames' = frames
        BY <1>5, FrameLengths
           DEF CallReturnsResult, CallBegins, Running, StoppedByCall, Open
    <2>2. ASSUME outcome' = "stopped", m_count' = m_count
          PROVE  Ledger!Begin
        <3>1. Open' = Open + 1
            BY <2>1, <2>2 DEF Open
        <3>2. Open \in Nat
            BY <2>1
        <3> QED BY <2>1, <2>2, <3>1, <3>2
               DEF CountExact, TypeOK, Ledger!Begin, Ledger!Fair
    <2>3. ASSUME CallEnds(IF assigned THEN "returned" ELSE "unset")
          PROVE  Ledger!Call
        BY <2>1, <2>3 DEF CallEnds, Open, Ledger!Call
    <2> QED BY <1>5, <2>2, <2>3 DEF CallReturnsResult
<1>6. ASSUME NEW how \in {"returned", "threw"}, CallableEnds(how)
      PROVE  Ledger!End
    BY <1>6, CallableOver
       DEF CallableEnds, CallEnds, CountExact, TypeOK, Ledger!End, Ledger!Fair
<1> QED BY <1>1, <1>2, <1>3, <1>4, <1>5, <1>6 DEF Next

(* The counter of a mock counts calls as CallLedger promises.              *)
THEOREM CountsCorrect == Spec => CountsCalls
<1>1. Init => Ledger!Init
    BY DEF Init, NoCalls, Ledger!Init, Open
<1>2. IInv /\ IInv' /\ [Next]_vars => [Ledger!Next]_(Ledger!vars)
    BY LedgerStep
<1> QED BY <1>1, <1>2, Invariance, PTL DEF Spec, CountsCalls, Ledger!Spec

-----------------------------------------------------------------------------
(* The test cases of MockedTests                                           *)

(* The mock they share: what reset() leaves are func and result.           *)
SharedMock ==
    /\ kind \in TestsKinds
    /\ func \in BOOLEAN /\ assigned \in BOOLEAN /\ ~func0 /\ ~m_stub
    /\ IF assigned THEN result \in Values ELSE result = DEFAULT
    /\ m_count \in Nat /\ Running

(* Where the case stands.  Its callable makes no calls.                    *)
InScript ==
    /\ ran \in Seq(DOMAIN Body) /\ failed \subseteq 1 .. Len(ran)
    /\ case = 0 => frames = <<>>
    /\ case # 0 => /\ case \in DOMAIN Body /\ step \in 1 .. Len(Body[case])
                   /\ Len(ran) > 0 /\ ran[Len(ran)] = case
    /\ frames = <<>> \/ (frames = <<"func">> /\ func /\ Op \in {"call", "call_true"})

(* What cases have left behind, and what this one has set.                 *)
SetBefore == \E j \in 1 .. Len(ran) : ran[j] \in {3, 4, 5}
Leftovers ==
    /\ case \in {0, 1, 2} => (func \/ assigned <=> SetBefore)
    /\ case \in {3, 4} /\ step > 2 => assigned
    /\ (case = 3 /\ step > 3) \/ (case = 5 /\ step > 2) => func

(* What the case's assertions will find.                                   *)
Prepared ==
    /\ case = 1 /\ step \in {2, 3} => mock_assert = "none"
    /\ case = 1 /\ step = 4 =>
          m_count > 0 /\ (mock_assert = "false" <=> ~func /\ ~assigned)
    /\ (case = 2 /\ step > 1) \/ (case = 3 /\ step = 6) => m_count = 0 /\ params = NoArgs
    /\ case \in {4, 5} /\ step > 1 => m_count = IF step = 2 THEN 0 ELSE step - 3
    /\ case \in {4, 5} /\ (step > 3 \/ frames # <<>>) => params \in Args

(* An assertion of the case has failed.                                    *)
FailedSoFar ==
    case # 0 => (Len(ran) \in failed <=> case = 2 /\ step = 4 /\ assigned)

TestsInv ==
    SharedMock /\ InScript /\ Leftovers /\ Prepared /\ FailedSoFar /\ OrderMattersToFirstTwo

(* The statements of the test cases.                                       *)
LEMMA Statements ==
  /\ DOMAIN Body = 1 .. 5
  /\ Len(Body[1]) = 4 /\ Len(Body[2]) = 4 /\ Len(Body[3]) = 7
  /\ Len(Body[4]) = 6 /\ Len(Body[5]) = 6
  /\ Body[1][1] = "reset_assert" /\ Body[1][2] = "reset" /\ Body[1][3] = "call"
  /\ Body[1][4] = "unset"
  /\ Body[2][1] = "reset" /\ Body[2][2] = "empty" /\ Body[2][3] = "no_result"
  /\ Body[2][4] = "no_func"
  /\ Body[3][1] = "reset" /\ Body[3][2] = "result" /\ Body[3][3] = "func"
  /\ Body[3][4] = "call_true" /\ Body[3][5] = "reset" /\ Body[3][6] = "empty"
  /\ Body[3][7] = "kept"
  /\ Body[4][1] = "reset" /\ Body[4][2] = "result" /\ Body[4][3] = "call_true"
  /\ Body[4][4] = "call_true" /\ Body[4][5] = "call_true" /\ Body[4][6] = "three"
  /\ Body[5][1] = "reset" /\ Body[5][2] = "func" /\ Body[5][3] = "call_true"
  /\ Body[5][4] = "call_true" /\ Body[5][5] = "call_true" /\ Body[5][6] = "three"
BY DEF Body

(* What a statement of a test case does to the mock the cases share.       *)
Untouched == UNCHANGED <<func, assigned, result, m_count, params, frames>>
Done ==
    \/ Op = "reset" /\ Goes /\ m_count' = 0 /\ params' = NoArgs
         /\ UNCHANGED <<func, assigned, result, frames, mock_assert, failed>>
    \/ Op = "result" /\ Goes /\ assigned' = TRUE /\ result' \in Values
         /\ UNCHANGED <<func, m_count, params, frames, mock_assert, failed>>
    \/ Op = "func" /\ Goes /\ func' = TRUE
         /\ UNCHANGED <<assigned, result, m_count, params, frames, mock_assert, failed>>
    \/ Op = "reset_assert" /\ Goes /\ mock_assert' = "none" /\ Untouched /\ UNCHANGED failed
Called ==
    \/ func /\ frames' = <<"func">> /\ params' \in Args
         /\ UNCHANGED <<case, step, func, assigned, result, m_count, mock_assert, failed>>
    \/ ~func /\ Goes /\ params' \in Args /\ m_count' = m_count + 1
         /\ mock_assert' = Verified /\ Asserts(Op = "call_true" => result \in Values)
         /\ UNCHANGED <<func, assigned, result, frames>>
Returned ==
    /\ frames' = <<>> /\ m_count' = m_count + 1 /\ Goes
    /\ UNCHANGED <<func, assigned, result, params, mock_assert, failed>>
Looked ==
    /\ Goes /\ Untouched
    /\ \/ Op = "unset" /\ Asserts(m_count > 0 /\ mock_assert = "false") /\ UNCHANGED mock_assert
       \/ Op = "empty" /\ Asserts(m_count = 0 /\ params = NoArgs) /\ UNCHANGED mock_assert
       \/ Op = "no_func" /\ Asserts(~func) /\ UNCHANGED mock_assert
       \/ Op = "three" /\ Asserts(m_count = 3 /\ params \in Args) /\ UNCHANGED mock_assert
       \/ Op = "no_result" /\ Asserts(result = DEFAULT)
       \/ Op = "kept" /\ Asserts(result \in Values /\ func)
Effect ==
    /\ \/ frames = <<>> /\ (Done \/ Looked)
       \/ frames = <<>> /\ Op \in {"call", "call_true"} /\ Called
       \/ frames # <<>> /\ Returned
    /\ UNCHANGED <<ran, kind, func0, m_stub, process>>

LEMMA StatementEffect ==
  ASSUME SharedMock, InScript, case # 0,
         (frames = <<>> /\ (Configure \/ Call \/ Look \/ LookAtResult)) \/ CallReturns
  PROVE  Effect
<1>. USE DEF TestsKinds
<1>1. /\ kind.returns = "scalar" /\ kind.throws = FALSE /\ kind.stops = FALSE
      /\ HasResult /\ ~NotImplemented /\ LeftByRead = result
  BY DEF SharedMock, HasResult, NotImplemented, LeftByRead
<1>2. CASE frames = <<>> /\ Configure
  <2>1. CASE Op = "reset" /\ Reset /\ UNCHANGED mock_assert
    BY <1>2, <2>1 DEF Configure, Reset, fixed, callable, returned, calls, Effect, Done
  <2>2. CASE Op = "result" /\ (\E v \in Values : SetResult(v)) /\ UNCHANGED mock_assert
    BY <1>2, <2>2 DEF Configure, SetResult, Assign, fixed, callable, recorded, calls, history,
       Effect, Done
  <2>3. CASE Op = "func" /\ SetFunc(TRUE) /\ UNCHANGED mock_assert
    BY <1>2, <2>3 DEF Configure, SetFunc, fixed, returned, recorded, calls, history, Effect, Done
  <2>4. CASE Op = "reset_assert" /\ mock_assert' = "none" /\ UNCHANGED vars
    BY <1>2, <2>4 DEF Configure, vars, fixed, callable, returned, recorded, calls, history,
       Effect, Done, Untouched
  <2>. QED BY <1>2, <2>1, <2>2, <2>3, <2>4 DEF Configure
<1>3. CASE frames = <<>> /\ Call
  <2>1. PICK p \in Args :
           \/ CallRuns(p) /\ UNCHANGED control
           \/ /\ CallReturnsResult(p) /\ mock_assert' = Verified
              /\ Asserts(Op = "call_true" => result \in Values)
              /\ Goes /\ UNCHANGED ran
    BY <1>3 DEF Call
  <2>2. CASE CallRuns(p) /\ UNCHANGED control
    <3>1. func /\ frames' = Append(frames, "func") /\ params' = p
      BY <2>2 DEF CallRuns, CallBegins, SharedMock
    <3>2. frames' = <<"func">>
      BY <1>3, <3>1
    <3>. QED BY <1>3, <2>2, <3>1, <3>2 DEF Call, CallRuns, fixed, callable, returned,
           control, Effect, Called
  <2>3. CASE /\ CallReturnsResult(p) /\ mock_assert' = Verified
             /\ Asserts(Op = "call_true" => result \in Values)
             /\ Goes /\ UNCHANGED ran
    <3>1. ~func /\ params' = p /\ UNCHANGED <<kind, func, func0, m_stub, assigned, frames>>
      BY <2>3 DEF CallReturnsResult, CallBegins, fixed, callable
    <3>2. Convert(FALSE) /\ m_count' = m_count + 1
      BY <1>1, <2>3 DEF CallReturnsResult, CallEnds, Convert
    <3>3. result' = result /\ process' = process
      BY <1>1, <3>2 DEF Convert
    <3>. QED BY <1>3, <2>1, <2>3, <3>1, <3>2, <3>3 DEF Call, Effect, Called
  <2>. QED BY <2>1, <2>2, <2>3
<1>4. CASE frames = <<>> /\ Look
  <2>1. Untouched /\ UNCHANGED <<ran, kind, func0, m_stub, process, mock_assert>> /\ Goes
    BY <1>4 DEF Look, vars, fixed, callable, returned, recorded, calls, history, Untouched
  <2>. QED BY <1>4, <2>1 DEF Look, Effect, Looked
<1>5. CASE frames = <<>> /\ LookAtResult
  <2>1. /\ UNCHANGED <<kind, func, func0, m_stub, assigned, m_count, params, frames, ran>>
        /\ Goes /\ \E stopped \in BOOLEAN : Convert(stopped)
    BY <1>5 DEF LookAtResult, ReadResult, fixed, callable, recorded, calls
  <2>2. result' = result /\ process' = process
    BY <1>1, <2>1 DEF Convert
  <2>. QED BY <1>5, <2>1, <2>2 DEF LookAtResult, Effect, Looked, Untouched
<1>6. CASE CallReturns
  <2>1. frames = <<"func">>
    BY <1>6 DEF CallReturns, CallableEnds, InScript
  <2>2. frames' = <<>>
    BY <1>6, <2>1 DEF CallReturns, CallableEnds
  <2>. QED BY <1>6, <2>1, <2>2 DEF CallReturns, CallableEnds, CallEnds, fixed, callable, returned,
         Effect, Returned
<1>. QED BY <1>2, <1>3, <1>4, <1>5, <1>6

(* The mock of the cases keeps what SharedMock says of it.                 *)
LEMMA SharedMockKept ==
  ASSUME SharedMock, Effect
  PROVE  SharedMock'
<1>1. m_count' \in Nat
  BY DEF SharedMock, Effect, Done, Looked, Called, Returned, Untouched
<1>2. func' \in BOOLEAN /\ assigned' \in BOOLEAN
  BY DEF SharedMock, Effect, Done, Looked, Called, Returned, Untouched
<1>3. IF assigned' THEN result' \in Values ELSE result' = DEFAULT
  BY DEF SharedMock, Effect, Done, Looked, Called, Returned, Untouched
<1>. QED BY <1>1, <1>2, <1>3 DEF SharedMock, Effect, Running

(* A case goes on to its next statement, ends, or waits for its callable;  *)
(* it fails itself, and no case before it.                                 *)
LEMMA ScriptGoesOn ==
  ASSUME InScript, case # 0, Effect
  PROVE  /\ InScript'
         /\ ran' = ran /\ (Goes \/ UNCHANGED <<case, step>>)
         /\ \A i \in 1 .. Len(ran) - 1 : i \in failed' <=> i \in failed
<1>1. Len(Body[case]) \in {4, 6, 7} /\ case \in 1 .. 5 /\ step \in 1 .. Len(Body[case])
  BY Statements DEF InScript
<1>2. ran' = ran /\ Len(ran) \in Nat /\ Len(ran) > 0
  BY LenProperties DEF Effect, InScript
<1>3. failed' = failed \/ failed' = failed \cup {Len(ran)}
  BY DEF Effect, Done, Looked, Called, Returned, Asserts
<1>4. failed' \subseteq 1 .. Len(ran)
  <2>1. Len(ran) \in 1 .. Len(ran) /\ failed \subseteq 1 .. Len(ran)
    BY <1>2 DEF InScript
  <2>. QED BY <1>3, <2>1
<1>5. \A i \in 1 .. Len(ran) - 1 : i \in failed' <=> i \in failed
  BY <1>2, <1>3
<1>6. \/ Goes /\ frames' = <<>>
      \/ UNCHANGED <<case, step>> /\ Op \in {"call", "call_true"} /\ func /\ func' = func
           /\ frames' = <<"func">>
  BY DEF Effect, Done, Looked, Called, Returned, Untouched
<1>7. CASE Goes /\ frames' = <<>>
  <2>1. \/ case' = 0
        \/ case' = case /\ step' \in 1 .. Len(Body[case])
    BY <1>1, <1>7 DEF Goes
  <2>. QED BY <1>1, <1>2, <1>4, <1>5, <1>7, <2>1 DEF InScript
<1>8. CASE /\ UNCHANGED <<case, step>> /\ Op \in {"call", "call_true"} /\ func /\ func' = func
           /\ frames' = <<"func">>
  <2>1. Op' = Op
    BY <1>8 DEF Op
  <2>. QED BY <1>1, <1>2, <1>4, <1>5, <1>8, <2>1 DEF InScript
<1>. QED BY <1>6, <1>7, <1>8

(* Why a case that ends has failed or not.                                 *)
Verdict == case' = 0 => (Len(ran) \in failed' <=> case \in {1, 2} /\ SetBefore)

LEMMA NoArgsNotArgs == \A p \in Args : p # NoArgs
BY ValuesAssumption

(* A call of the first case gets to verify() unless func is set.           *)
LEMMA FirstCase ==
  ASSUME TestsInv, Effect, case = 1
  PROVE  Leftovers' /\ Prepared' /\ FailedSoFar' /\ Verdict
<1>. USE DEF TestsInv, SharedMock
<1>1. step \in {1, 2, 3, 4} /\ Len(Body[case]) = 4 /\ Op = Body[1][step] /\ ran' = ran
  BY Statements DEF InScript, Op, Effect
<1>2. CASE step = 1
  <2>1. Op = "reset_assert"
    BY <1>1, <1>2, Statements
  <2>2. /\ case' = 1 /\ step' = 2 /\ mock_assert' = "none"
        /\ UNCHANGED <<func, assigned, failed>>
    BY <1>1, <1>2, <2>1 DEF Effect, Done, Looked, Called, Returned, Goes, Untouched, InScript
  <2>. QED BY <1>1, <1>2, <2>2 DEF Leftovers, Prepared, FailedSoFar, Verdict, SetBefore
<1>3. CASE step = 2
  <2>1. Op = "reset"
    BY <1>1, <1>3, Statements
  <2>2. /\ case' = 1 /\ step' = 3 /\ mock_assert' = mock_assert
        /\ UNCHANGED <<func, assigned, failed>>
    BY <1>1, <1>3, <2>1 DEF Effect, Done, Looked, Called, Returned, Goes, Untouched, InScript
  <2>. QED BY <1>1, <1>3, <2>2 DEF Leftovers, Prepared, FailedSoFar, Verdict, SetBefore
<1>4. CASE step = 3
  <2>1. Op = "call"
    BY <1>1, <1>4, Statements
  <2>2. UNCHANGED <<func, assigned>> /\ failed' = failed
    BY <1>1, <1>4, <2>1 DEF Effect, Done, Looked, Called, Returned, Goes, Untouched, InScript, Asserts
  <2>3. \/ case' = 1 /\ step' = 3 /\ mock_assert' = mock_assert
        \/ case' = 1 /\ step' = 4 /\ func /\ mock_assert' = mock_assert /\ m_count' = m_count + 1
        \/ case' = 1 /\ step' = 4 /\ ~func /\ mock_assert' = Verified /\ m_count' = m_count + 1
    BY <1>1, <1>4, <2>1 DEF Effect, Done, Looked, Called, Returned, Goes, Untouched, InScript
  <2>4. mock_assert = "none" /\ (Verified = "false" <=> ~assigned)
    BY <1>4 DEF Prepared, Verified
  <2>5. Leftovers' /\ FailedSoFar' /\ Verdict
    BY <1>1, <1>4, <2>2, <2>3 DEF Leftovers, FailedSoFar, Verdict, SetBefore
  <2>. QED BY <1>4, <2>2, <2>3, <2>4, <2>5 DEF Prepared
<1>5. CASE step = 4
  <2>1. Op = "unset"
    BY <1>1, <1>5, Statements
  <2>2. /\ case' = 0 /\ UNCHANGED <<func, assigned>>
        /\ Asserts(m_count > 0 /\ mock_assert = "false")
    BY <1>1, <1>5, <2>1 DEF Effect, Done, Looked, Called, Returned, Goes, Untouched, InScript
  <2>3. Len(ran) \in failed' <=> func \/ assigned
    BY <1>5, <2>2 DEF Prepared, FailedSoFar, Asserts
  <2>. QED BY <1>1, <1>5, <2>2, <2>3 DEF Leftovers, Prepared, FailedSoFar, Verdict, SetBefore
<1>. QED BY <1>1, <1>2, <1>3, <1>4, <1>5

(* The second case looks at result, then at func.                          *)
LEMMA SecondCase ==
  ASSUME TestsInv, Effect, case = 2
  PROVE  Leftovers' /\ Prepared' /\ FailedSoFar' /\ Verdict
<1>. USE DEF TestsInv, SharedMock
<1>1. step \in {1, 2, 3, 4} /\ Len(Body[case]) = 4 /\ Op = Body[2][step] /\ ran' = ran
  BY Statements DEF InScript, Op, Effect
<1>2. CASE step = 1
  <2>1. Op = "reset"
    BY <1>1, <1>2, Statements
  <2>2. /\ case' = 2 /\ step' = 2 /\ m_count' = 0 /\ params' = NoArgs
        /\ UNCHANGED <<func, assigned, failed>>
    BY <1>1, <1>2, <2>1 DEF Effect, Done, Looked, Called, Returned, Goes, Untouched, InScript
  <2>. QED BY <1>1, <1>2, <2>2 DEF Leftovers, Prepared, FailedSoFar, Verdict, SetBefore
<1>3. CASE step = 2
  <2>1. Op = "empty"
    BY <1>1, <1>3, Statements
  <2>2. /\ case' = 2 /\ step' = 3 /\ UNCHANGED <<func, assigned, m_count, params>>
        /\ Asserts(m_count = 0 /\ params = NoArgs)
    BY <1>1, <1>3, <2>1 DEF Effect, Done, Looked, Called, Returned, Goes, Untouched, InScript
  <2>3. failed' = failed
    BY <1>1, <1>3, <2>2 DEF Asserts, Prepared
  <2>. QED BY <1>1, <1>3, <2>2, <2>3 DEF Leftovers, Prepared, FailedSoFar, Verdict, SetBefore
<1>4. CASE step = 3
  <2>1. Op = "no_result"
    BY <1>1, <1>4, Statements
  <2>2. /\ case' = 2 /\ step' = 4 /\ UNCHANGED <<func, assigned, m_count, params>>
        /\ Asserts(result = DEFAULT)
    BY <1>1, <1>4, <2>1 DEF Effect, Done, Looked, Called, Returned, Goes, Untouched, InScript
  <2>3. Len(ran) \in failed' <=> assigned
    BY <1>1, <1>4, <2>2, ValuesAssumption DEF Asserts, FailedSoFar
  <2>. QED BY <1>1, <1>4, <2>2, <2>3 DEF Leftovers, Prepared, FailedSoFar, Verdict, SetBefore
<1>5. CASE step = 4
  <2>1. Op = "no_func"
    BY <1>1, <1>5, Statements
  <2>2. case' = 0 /\ UNCHANGED <<func, assigned>> /\ Asserts(~func)
    BY <1>1, <1>5, <2>1 DEF Effect, Done, Looked, Called, Returned, Goes, Untouched, InScript
  <2>3. Len(ran) \in failed' <=> func \/ assigned
    BY <1>1, <1>5, <2>2 DEF FailedSoFar, Asserts
  <2>. QED BY <1>1, <1>5, <2>2, <2>3 DEF Leftovers, Prepared, FailedSoFar, Verdict, SetBefore
<1>. QED BY <1>1, <1>2, <1>3, <1>4, <1>5

(* The third case sets what it looks at.                                   *)
LEMMA ThirdCase ==
  ASSUME TestsInv, Effect, case = 3
  PROVE  Leftovers' /\ Prepared' /\ FailedSoFar' /\ Verdict
<1>. USE DEF TestsInv, SharedMock
<1>1. step \in 1 .. 7 /\ Len(Body[case]) = 7 /\ Op = Body[3][step] /\ ran' = ran
  BY Statements DEF InScript, Op, Effect
<1>2. CASE step = 1
  <2>1. Op = "reset"
    BY <1>1, <1>2, Statements
  <2>2. case' = 3 /\ step' = 2 /\ UNCHANGED failed
    BY <1>1, <1>2, <2>1 DEF Effect, Done, Looked, Called, Returned, Goes, Untouched, InScript
  <2>. QED BY <1>1, <1>2, <2>2 DEF Leftovers, Prepared, FailedSoFar, Verdict, SetBefore
<1>3. CASE step = 2
  <2>1. Op = "result"
    BY <1>1, <1>3, Statements
  <2>2. case' = 3 /\ step' = 3 /\ assigned' /\ UNCHANGED failed
    BY <1>1, <1>3, <2>1 DEF Effect, Done, Looked, Called, Returned, Goes, Untouched, InScript
  <2>. QED BY <1>1, <1>3, <2>2 DEF Leftovers, Prepared, FailedSoFar, Verdict, SetBefore
<1>4. CASE step = 3
  <2>1. Op = "func"
    BY <1>1, <1>4, Statements
  <2>2. case' = 3 /\ step' = 4 /\ func' /\ UNCHANGED <<assigned, failed>>
    BY <1>1, <1>4, <2>1 DEF Effect, Done, Looked, Called, Returned, Goes, Untouched, InScript
  <2>. QED BY <1>1, <1>4, <2>2 DEF Leftovers, Prepared, FailedSoFar, Verdict, SetBefore
<1>5. CASE step = 4
  <2>1. Op = "call_true" /\ func /\ assigned
    BY <1>1, <1>5, Statements DEF Leftovers
  <2>2. Called \/ Returned
    BY <2>1 DEF Effect, Done, Looked
  <2>3. case' = 3 /\ step' \in {4, 5} /\ UNCHANGED <<func, assigned, failed>>
    <3>1. CASE Called
      BY <1>5, <2>1, <3>1 DEF Called
    <3>2. CASE Returned
      <4>1. Goes /\ UNCHANGED <<func, assigned, failed>>
        BY <3>2 DEF Returned
      <4>. QED BY <1>1, <1>5, <4>1 DEF Goes
    <3>. QED BY <2>2, <3>1, <3>2
  <2>. QED BY <1>1, <1>5, <2>1, <2>2, <2>3
           DEF Leftovers, Prepared, FailedSoFar, Verdict, SetBefore
<1>6. CASE step = 5
  <2>1. Op = "reset"
    BY <1>1, <1>6, Statements
  <2>2. /\ case' = 3 /\ step' = 6 /\ m_count' = 0 /\ params' = NoArgs
        /\ UNCHANGED <<func, assigned, failed>>
    BY <1>1, <1>6, <2>1 DEF Effect, Done, Looked, Called, Returned, Goes, Untouched, InScript
  <2>. QED BY <1>1, <1>6, <2>2 DEF Leftovers, Prepared, FailedSoFar, Verdict, SetBefore
<1>7. CASE step = 6
  <2>1. Op = "empty"
    BY <1>1, <1>7, Statements
  <2>2. /\ case' = 3 /\ step' = 7 /\ UNCHANGED <<func, assigned>>
        /\ Asserts(m_count = 0 /\ params = NoArgs)
    BY <1>1, <1>7, <2>1 DEF Effect, Done, Looked, Called, Returned, Goes, Untouched, InScript
  <2>3. failed' = failed
    BY <1>1, <1>7, <2>2 DEF Asserts, Prepared
  <2>. QED BY <1>1, <1>7, <2>2, <2>3 DEF Leftovers, Prepared, FailedSoFar, Verdict, SetBefore
<1>8. CASE step = 7
  <2>1. Op = "kept" /\ func /\ assigned
    BY <1>1, <1>8, Statements DEF Leftovers
  <2>2. /\ case' = 0 /\ UNCHANGED <<func, assigned>>
        /\ Asserts(result \in Values /\ func)
    BY <1>1, <1>8, <2>1 DEF Effect, Done, Looked, Called, Returned, Goes, Untouched, InScript
  <2>3. failed' = failed
    BY <2>1, <2>2 DEF Asserts
  <2>4. SetBefore
    BY <1>1 DEF SetBefore, InScript
  <2>. QED BY <1>1, <1>8, <2>1, <2>2, <2>3, <2>4
           DEF Leftovers, Prepared, FailedSoFar, Verdict, SetBefore
<1>. QED BY <1>1, <1>2, <1>3, <1>4, <1>5, <1>6, <1>7, <1>8

(* The last two cases count three calls, with result and with func.        *)
LEMMA CountingCases ==
  ASSUME TestsInv, Effect, case \in {4, 5}
  PROVE  Leftovers' /\ Prepared' /\ FailedSoFar' /\ Verdict
<1>. USE DEF TestsInv, SharedMock
<1>1. step \in 1 .. 6 /\ Len(Body[case]) = 6 /\ Op = Body[case][step] /\ ran' = ran
  BY Statements DEF InScript, Op, Effect
<1>2. CASE step = 1
  <2>1. Op = "reset"
    BY <1>1, <1>2, Statements
  <2>2. /\ case' = case /\ step' = 2 /\ frames' = <<>> /\ UNCHANGED failed
        /\ m_count' = 0
    BY <1>1, <1>2, <2>1 DEF Effect, Done, Looked, Called, Returned, Goes, Untouched, InScript
  <2>. QED BY <1>1, <1>2, <2>2 DEF Leftovers, Prepared, FailedSoFar, Verdict, SetBefore
<1>3. CASE step = 2
  <2>1. Op = IF case = 4 THEN "result" ELSE "func"
    BY <1>1, <1>3, Statements
  <2>2. /\ case' = case /\ step' = 3 /\ frames' = <<>> /\ UNCHANGED <<failed, m_count>>
        /\ IF case = 4 THEN assigned' ELSE func'
    BY <1>1, <1>3, <2>1 DEF Effect, Done, Looked, Called, Returned, Goes, Untouched, InScript
  <2>. QED BY <1>1, <1>3, <2>2 DEF Leftovers, Prepared, FailedSoFar, Verdict, SetBefore
<1>4. CASE step \in {3, 4, 5}
  <2>1. /\ Op = "call_true" /\ (IF case = 4 THEN assigned ELSE func)
        /\ m_count = step - 3
    BY <1>1, <1>4, Statements DEF Leftovers, Prepared
  <2>2. UNCHANGED <<func, assigned>>
    BY <1>1, <1>4, <2>1 DEF Effect, Done, Looked, Called, Returned, Untouched
  <2>3. CASE frames = <<>> /\ func
    <3>1. Called
      BY <2>1, <2>3 DEF Effect, Done, Looked
    <3>2. /\ case' = case /\ step' = step /\ params' \in Args
          /\ UNCHANGED <<m_count, failed>>
      BY <2>3, <3>1 DEF Called
    <3>. QED BY <1>1, <1>4, <2>1, <2>2, <3>2
             DEF Leftovers, Prepared, FailedSoFar, Verdict, SetBefore
  <2>4. CASE frames = <<>> /\ ~func
    <3>1. /\ case' = case /\ step' = step + 1 /\ frames' = <<>> /\ params' \in Args
          /\ m_count' = m_count + 1 /\ Asserts(result \in Values)
      BY <1>1, <1>4, <2>1, <2>4 DEF Effect, Done, Looked, Called, Goes, Untouched, Asserts
    <3>2. failed' = failed
      BY <2>1, <2>4, <3>1 DEF Asserts
    <3>. QED BY <1>1, <1>4, <2>1, <2>2, <3>1, <3>2
             DEF Leftovers, Prepared, FailedSoFar, Verdict, SetBefore
  <2>5. CASE frames # <<>>
    <3>1. /\ case' = case /\ step' = step + 1 /\ frames' = <<>> /\ m_count' = m_count + 1
          /\ UNCHANGED <<params, failed>>
      BY <1>1, <1>4, <2>1, <2>5 DEF Effect, Returned, Goes
    <3>2. params \in Args
      BY <2>5 DEF Prepared
    <3>. QED BY <1>1, <1>4, <2>1, <2>2, <3>1, <3>2
             DEF Leftovers, Prepared, FailedSoFar, Verdict, SetBefore
  <2>. QED BY <2>3, <2>4, <2>5
<1>5. CASE step = 6
  <2>1. /\ Op = "three" /\ (IF case = 4 THEN assigned ELSE func)
        /\ m_count = 3 /\ params \in Args
    BY <1>1, <1>5, Statements DEF Leftovers, Prepared
  <2>2. case' = 0 /\ UNCHANGED <<func, assigned>> /\ Asserts(m_count = 3 /\ params \in Args)
    BY <1>1, <1>5, <2>1 DEF Effect, Done, Looked, Called, Returned, Goes, Untouched, InScript
  <2>3. failed' = failed
    BY <2>1, <2>2 DEF Asserts
  <2>4. SetBefore
    BY <1>1 DEF SetBefore, InScript
  <2>. QED BY <1>1, <1>5, <2>1, <2>2, <2>3, <2>4
           DEF Leftovers, Prepared, FailedSoFar, Verdict, SetBefore
<1>. QED BY <1>1, <1>2, <1>3, <1>4, <1>5

(* A case that begins has failed nothing, and finds what is left.          *)
LEMMA CaseBegins ==
  ASSUME TestsInv, NEW c \in DOMAIN Body, BeginCase(c)
  PROVE  TestsInv'
<1>1. /\ case = 0 /\ frames = <<>> /\ case' = c /\ step' = 1 /\ UNCHANGED <<vars, mock_assert, failed>>
      /\ c \in 1 .. 5 /\ ran \in Seq(1 .. 5) /\ Len(ran) \in Nat
  BY Statements, LenProperties DEF BeginCase, TestsInv, InScript
<1>2. /\ ran' \in Seq(1 .. 5) /\ Len(ran') = Len(ran) + 1 /\ ran'[Len(ran) + 1] = c
      /\ \A i \in 1 .. Len(ran) : ran'[i] = ran[i]
  BY <1>1, AppendProperties DEF BeginCase
<1>3. UNCHANGED <<kind, func, func0, m_stub, assigned, result, m_count, params, frames, process>>
  BY <1>1 DEF vars, fixed, callable, returned, recorded, calls
<1>4. SharedMock'
  BY <1>3 DEF TestsInv, SharedMock, Running
<1>5. InScript'
  <2>1. Len(Body[c]) \in {4, 6, 7}
    BY <1>1, Statements
  <2>2. failed' \subseteq 1 .. Len(ran')
    BY <1>1, <1>2 DEF TestsInv, InScript
  <2>. QED BY <1>1, <1>2, <1>3, <2>1, <2>2, Statements DEF InScript
<1>6. Leftovers'
  <2>1. c \in {1, 2} => (SetBefore' <=> SetBefore)
    <3>1. \A i \in 1 .. Len(ran') : i \in 1 .. Len(ran) \/ i = Len(ran) + 1
      BY <1>1, <1>2
    <3>2. \A i \in 1 .. Len(ran) : i \in 1 .. Len(ran')
      BY <1>1, <1>2
    <3>. QED BY <1>2, <3>1, <3>2 DEF SetBefore
  <2>. QED BY <1>1, <1>3, <2>1 DEF TestsInv, Leftovers
<1>7. Prepared'
  BY <1>1, <1>3 DEF Prepared
<1>8. FailedSoFar'
  <2>1. Len(ran) + 1 \notin failed
    BY <1>1 DEF TestsInv, InScript
  <2>. QED BY <1>1, <1>2, <2>1 DEF FailedSoFar
<1>9. OrderMattersToFirstTwo'
  <2>. SUFFICES ASSUME NEW i \in 1 .. Len(ran'), i < Len(ran') \/ case' = 0
                PROVE  i \in failed' <=> /\ ran'[i] \in {1, 2}
                                         /\ \E j \in 1..(i - 1) : ran'[j] \in {3, 4, 5}
    BY DEF OrderMattersToFirstTwo
  <2>1. i \in 1 .. Len(ran)
    BY <1>1, <1>2
  <2>2. i \in failed <=> /\ ran[i] \in {1, 2}
                         /\ \E j \in 1..(i - 1) : ran[j] \in {3, 4, 5}
    BY <1>1, <2>1 DEF TestsInv, OrderMattersToFirstTwo
  <2>3. \A j \in 1 .. (i - 1) : ran'[j] = ran[j]
    BY <1>1, <1>2, <2>1
  <2>. QED BY <1>1, <1>2, <2>1, <2>2, <2>3
<1>. QED BY <1>4, <1>5, <1>6, <1>7, <1>8, <1>9 DEF TestsInv

(* A statement of a case; the verdict on it when it was the last.          *)
LEMMA CaseGoesOn ==
  ASSUME TestsInv, case # 0, Effect
  PROVE  TestsInv'
<1>1. /\ InScript' /\ ran' = ran /\ (Goes \/ UNCHANGED <<case, step>>)
      /\ \A i \in 1 .. Len(ran) - 1 : i \in failed' <=> i \in failed
  BY ScriptGoesOn DEF TestsInv
<1>2. case \in {1, 2, 3, 4, 5}
  BY Statements DEF TestsInv, InScript
<1>3. Leftovers' /\ Prepared' /\ FailedSoFar' /\ Verdict
  BY <1>2, FirstCase, SecondCase, ThirdCase, CountingCases
<1>4. /\ Len(ran) \in Nat /\ Len(ran) > 0 /\ ran[Len(ran)] = case
  BY LenProperties DEF TestsInv, InScript
<1>5. OrderMattersToFirstTwo'
  <2>. SUFFICES ASSUME NEW i \in 1 .. Len(ran), i < Len(ran) \/ case' = 0
                PROVE  i \in failed' <=> /\ ran[i] \in {1, 2}
                                         /\ \E j \in 1..(i - 1) : ran[j] \in {3, 4, 5}
    BY <1>1 DEF OrderMattersToFirstTwo
  <2>1. CASE i < Len(ran)
    <3>1. i \in 1 .. Len(ran) - 1
      BY <1>4, <2>1
    <3>. QED BY <1>1, <2>1, <3>1 DEF TestsInv, OrderMattersToFirstTwo
  <2>2. CASE i = Len(ran)
    <3>1. i \in failed' <=> case \in {1, 2} /\ SetBefore
      BY <1>3, <2>2 DEF Verdict
    <3>2. case \in {1, 2} => (SetBefore <=> \E j \in 1..(i - 1) : ran[j] \in {3, 4, 5})
      <4>1. \A j \in 1 .. Len(ran) : j \in 1 .. i - 1 \/ j = i
        BY <1>4, <2>2
      <4>2. \A j \in 1 .. i - 1 : j \in 1 .. Len(ran)
        BY <1>4, <2>2
      <4>3. ASSUME case \in {1, 2}
            PROVE  ran[i] \notin {3, 4, 5}
        BY <1>4, <2>2, <4>3
      <4>. QED BY <4>1, <4>2, <4>3 DEF SetBefore
    <3>. QED BY <1>4, <2>2, <3>1, <3>2
  <2>. QED BY <1>4, <2>1, <2>2
<1>6. SharedMock'
  BY SharedMockKept DEF TestsInv
<1>. QED BY <1>1, <1>3, <1>5, <1>6 DEF TestsInv

(* The test cases of tests/mock_tests.cpp on one global mock: of those run, *)
(* in any order and as often as one likes, exactly the first two fail, and  *)
(* exactly after a case that set what reset() leaves.                       *)
THEOREM OrderMatters == TestsSpec => []OrderMattersToFirstTwo
<1>1. TestsInit => TestsInv
  <2>. SUFFICES ASSUME TestsInit
                PROVE  TestsInv
    OBVIOUS
  <2>1. /\ ran = <<>> /\ failed = {} /\ case = 0 /\ frames = <<>> /\ Len(ran) = 0
        /\ ran \in Seq(DOMAIN Body)
    BY EmptySeq DEF TestsInit, Init
  <2>2. SharedMock
    BY DEF TestsInit, Init, SharedMock, TestsKinds, NoCalls, Running
  <2>3. ~func /\ ~assigned
    BY DEF TestsInit, Init
  <2>. QED BY <2>1, <2>2, <2>3 DEF TestsInv, InScript, Leftovers, SetBefore, Prepared,
              FailedSoFar, OrderMattersToFirstTwo
<1>2. TestsInv /\ [TestsNext]_<<vars, control>> => TestsInv'
  <2>. SUFFICES ASSUME TestsInv, [TestsNext]_<<vars, control>>
                PROVE  TestsInv'
    OBVIOUS
  <2>1. CASE UNCHANGED <<vars, control>>
    <3>. USE <2>1 DEF vars, control, fixed, callable, returned, recorded, calls, history
    <3>1. SharedMock' /\ Leftovers' /\ Prepared'
      BY DEF TestsInv, SharedMock, Running, Leftovers, SetBefore, Prepared
    <3>2. InScript' /\ FailedSoFar' /\ OrderMattersToFirstTwo'
      BY DEF TestsInv, InScript, Op, FailedSoFar, OrderMattersToFirstTwo
    <3>. QED BY <3>1, <3>2 DEF TestsInv
  <2>2. ASSUME NEW c \in DOMAIN Body, BeginCase(c)
        PROVE  TestsInv'
    BY <2>2, CaseBegins
  <2>3. CASE /\ case # 0
             /\ \/ frames = <<>> /\ (Configure \/ Call \/ Look \/ LookAtResult)
                \/ CallReturns
    <3>1. Effect
      BY <2>3, StatementEffect DEF TestsInv
    <3>. QED BY <2>3, <3>1, CaseGoesOn
  <2>. QED BY <2>1, <2>2, <2>3 DEF TestsNext
<1>3. TestsInv => OrderMattersToFirstTwo
  BY DEF TestsInv
<1>. QED BY <1>1, <1>2, <1>3, PTL DEF TestsSpec
=============================================================================
