-------------------------- MODULE MockSimpleProofs --------------------------
(***************************************************************************)
(* MockSimple implements CallLedger, for calls nested to any depth.        *)
(***************************************************************************)
EXTENDS MockSimple, DataLemmas

(* A call is counted as it begins, so the counter is that of calls begun,  *)
(* whatever was in progress at reset().                                    *)
CountsBegun == m_count = begun

IInv == TypeOK /\ CountsBegun

(* A callable begins.                                                      *)
LEMMA CallableBegins ==
    ASSUME IInv, CallRuns
    PROVE  frames' \in Seq({"func", "func0"}) /\ Len(frames') = Len(frames) + 1
<1>1. PICK m \in {"func", "func0"} : frames' = Append(frames, m)
    BY DEF CallRuns
<1> QED BY <1>1, AppendProperties DEF IInv, TypeOK

(* The innermost callable returns or throws.                               *)
LEMMA CallableOver ==
    ASSUME IInv, NEW how \in {"returned", "threw"}, CallableEnds(how)
    PROVE  /\ frames' \in Seq({"func", "func0"})
           /\ Len(frames) \in Nat \ {0} /\ Len(frames') = Len(frames) - 1
BY ButLast DEF IInv, TypeOK, CallableEnds

(* The invariant holds in the beginning.                                   *)
LEMMA InitIInv == SimpleInit => IInv
<1> SUFFICES ASSUME SimpleInit PROVE IInv
    OBVIOUS
<1>1. frames \in Seq({"func", "func0"})
    BY EmptySeq DEF SimpleInit
<1> QED BY <1>1 DEF SimpleInit, NoCalls, IInv, TypeOK, CountsBegun

(* Every step keeps it.                                                    *)
LEMMA StepIInv == ASSUME IInv, [SimpleNext]_simpleVars PROVE IInv'
<1> USE DEF IInv, TypeOK, CountsBegun, fixed, callable, history
<1>1. CASE \/ UNCHANGED simpleVars
           \/ \E on \in BOOLEAN : SetFunc(on) \/ SetFunc0(on)
           \/ Stub
    BY <1>1 DEF simpleVars, SetFunc, SetFunc0, Stub
<1>2. CASE Reset
    BY <1>2 DEF Reset
<1>3. CASE CallThrows \/ CallReturnsDefault
    BY <1>3 DEF CallThrows, CallReturnsDefault, CallBegins
<1>4. CASE CallRuns
    BY <1>4, CallableBegins DEF CallRuns, CallBegins
<1>5. ASSUME NEW how \in {"returned", "threw"}, CallableEnds(how)
      PROVE  IInv'
    BY <1>5, CallableOver DEF CallableEnds
<1> QED BY <1>1, <1>2, <1>3, <1>4, <1>5 DEF SimpleNext

(* IInv is an invariant.                                                   *)
THEOREM Invariance == SimpleSpec => []IInv
BY InitIInv, StepIInv, PTL DEF SimpleSpec

(* The counter of a simple mock is a number, its frames are callables.     *)
THEOREM TypesCorrect == SimpleSpec => []TypeOK
<1>1. IInv => TypeOK
    BY DEF IInv
<1> QED BY <1>1, Invariance, PTL

(* Every step is a step of the ledger or leaves it alone.                  *)
LEMMA LedgerStep ==
    ASSUME IInv, IInv', [SimpleNext]_simpleVars
    PROVE  [Ledger!Next]_(Ledger!vars)
<1> USE DEF IInv, TypeOK, CountsBegun, fixed, callable, history, Ledger!Next,
            Ledger!vars
<1>1. CASE \/ UNCHANGED simpleVars
           \/ \E on \in BOOLEAN : SetFunc(on) \/ SetFunc0(on)
           \/ Stub
    BY <1>1 DEF simpleVars, SetFunc, SetFunc0, Stub
<1>2. CASE Reset
    BY <1>2 DEF Reset, Ledger!Reset
<1>3. CASE CallThrows \/ CallReturnsDefault
    BY <1>3 DEF CallThrows, CallReturnsDefault, CallBegins, Ledger!Call
<1>4. CASE CallRuns
    <2>1. Len(frames') = Len(frames) + 1 /\ Len(frames') \in Nat
        BY <1>4, CallableBegins
    <2> QED
        BY <1>4, <2>1 DEF CallRuns, CallBegins, Ledger!Begin, Ledger!Fair
<1>5. ASSUME NEW how \in {"returned", "threw"}, CallableEnds(how)
      PROVE  Ledger!End
    BY <1>5, CallableOver DEF CallableEnds, Ledger!End, Ledger!Fair
<1> QED BY <1>1, <1>2, <1>3, <1>4, <1>5 DEF SimpleNext

(* The counter of a simple mock counts calls as CallLedger promises: those *)
(* that throw included, those in progress at reset() left out.             *)
THEOREM CountsCorrect == SimpleSpec => CountsCalls
<1>1. SimpleInit => Ledger!Init
    BY EmptySeq DEF SimpleInit, NoCalls, Ledger!Init
<1>2. IInv /\ IInv' /\ [SimpleNext]_simpleVars => [Ledger!Next]_(Ledger!vars)
    BY LedgerStep
<1> QED BY <1>1, <1>2, Invariance, PTL DEF SimpleSpec, CountsCalls, Ledger!Spec
=============================================================================
