----------------------------- MODULE MockSimple -----------------------------
(***************************************************************************)
(* One function defined by JG_MOCK_SIMPLE or JG_STUB_SIMPLE: mock_simple_aux *)
(* of inc/jg_mock.h. It holds no parameters and no result, and counts a    *)
(* call before it does anything else of it.                                *)
(***************************************************************************)
EXTENDS Integers, Sequences

CONSTANTS
    MaxCalls,  \* bound: calls begun between two resets
    MaxNested   \* bound: calls of func or func0 in progress

ASSUME SimpleBounds == MaxCalls \in Nat /\ MaxNested \in Nat

VARIABLES
    throws,   \* is JG_MOCK_THROW_NOT_IMPLEMENTED defined, fixed
    func,     \* is mock_simple_aux::func set
    func0,    \* is mock_simple_aux::func0 set
    m_stub,   \* mock_simple_aux::m_stub
    m_count,  \* mock_simple_aux::m_count
    frames,   \* calls in progress: the member each runs
    ended_by,  \* how the last call that ended did
    begun,    \* history: calls begun since the last reset
    carried   \* history: calls in progress at the last reset

fixed    == throws
callable == <<func, func0>>
history  == <<begun, carried>>
simpleVars == <<fixed, callable, m_stub, m_count, frames, ended_by, history>>

(* size_t m_count{}                                                        *)
NoCalls == 0

(* JG_STUB_SIMPLE calls stub() before anything else.                       *)
SimpleInit ==
    /\ throws \in BOOLEAN
    /\ func = FALSE /\ func0 = FALSE /\ m_stub \in BOOLEAN
    /\ m_count = NoCalls
    /\ frames = <<>> /\ ended_by = "none"
    /\ begun = 0 /\ carried = 0

-----------------------------------------------------------------------------
(* What a test sets. All of it persists through reset(). A member is not   *)
(* assigned while it runs: that would destroy the running callable.        *)

InUse(member) == \E i \in DOMAIN frames : frames[i] = member

SetFunc(on) ==
    /\ ~InUse("func")
    /\ func' = on
    /\ UNCHANGED <<fixed, func0, m_stub, m_count, frames, ended_by, history>>

SetFunc0(on) ==
    /\ ~InUse("func0")
    /\ func0' = on
    /\ UNCHANGED <<fixed, func, m_stub, m_count, frames, ended_by, history>>

Stub ==
    /\ m_stub' = TRUE
    /\ UNCHANGED <<fixed, callable, m_count, frames, ended_by, history>>

Reset ==
    /\ m_count' = 0
    /\ begun' = 0 /\ carried' = Len(frames)
    /\ UNCHANGED <<fixed, callable, m_stub, frames, ended_by>>

-----------------------------------------------------------------------------
(* Calls                                                                   *)

CallBegins ==
    /\ begun < MaxCalls
    /\ m_count' = m_count + 1
    /\ begun' = begun + 1 /\ carried' = carried

(* The test of JG_MOCK_THROW_NOT_IMPLEMENTED.                              *)
NotImplemented == throws /\ ~func /\ ~func0 /\ ~m_stub

(* Mutant: a call is counted once it is known to go on.                   *)
CountedIfImplemented ==
    /\ begun < MaxCalls /\ NotImplemented
    /\ begun' = begun + 1
    /\ ended_by' = "not_implemented"
    /\ UNCHANGED <<fixed, callable, m_stub, m_count, frames, carried>>

CallThrows ==
    /\ CallBegins /\ NotImplemented
    /\ ended_by' = "not_implemented"
    /\ UNCHANGED <<fixed, callable, m_stub, frames>>

(* func(...) or else func0(): the callable begins.                         *)
CallRuns ==
    /\ CallBegins /\ ~NotImplemented /\ Len(frames) < MaxNested
    /\ func \/ func0
    /\ frames' = Append(frames, IF func THEN "func" ELSE "func0")
    /\ UNCHANGED <<fixed, callable, m_stub, ended_by>>

(* The innermost callable returns, or throws through the mock function.    *)
CallableEnds(how) ==
    /\ frames # <<>>
    /\ frames' = SubSeq(frames, 1, Len(frames) - 1)
    /\ ended_by' = how
    /\ UNCHANGED <<fixed, callable, m_stub, m_count, history>>

(* Nothing set: a void function does nothing, another returns T{}.         *)
CallReturnsDefault ==
    /\ CallBegins /\ ~NotImplemented /\ ~func /\ ~func0
    /\ ended_by' = "returned"
    /\ UNCHANGED <<fixed, callable, m_stub, frames>>

-----------------------------------------------------------------------------
SimpleNext ==
    \/ \E on \in BOOLEAN : SetFunc(on) \/ SetFunc0(on)
    \/ Stub \/ Reset
    \/ CallThrows \/ CallRuns \/ CallReturnsDefault
    \/ \E how \in {"returned", "threw"} : CallableEnds(how)

SimpleSpec == SimpleInit /\ [][SimpleNext]_simpleVars

-----------------------------------------------------------------------------
(* Properties                                                              *)

(* The types of the mock and of the history.                               *)
TypeOK ==
    /\ throws \in BOOLEAN /\ func \in BOOLEAN /\ func0 \in BOOLEAN
    /\ m_stub \in BOOLEAN
    /\ m_count \in Nat /\ begun \in Nat /\ carried \in Nat
    /\ frames \in Seq({"func", "func0"})
    /\ ended_by \in {"none", "returned", "threw", "not_implemented"}

Ledger == INSTANCE CallLedger WITH open <- Len(frames), count <- m_count

(* count() counts calls as CallLedger promises: a call that throws for want *)
(* of an implementation is counted, and one in progress at reset() is not. *)
CountsCalls == Ledger!Spec
=============================================================================
