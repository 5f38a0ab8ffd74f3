-------------------------------- MODULE Mock --------------------------------
(***************************************************************************)
(* One function defined by JG_MOCK or JG_STUB and its auxiliary data, of   *)
(* inc/jg_mock.h: mock_aux, mock_aux_parameters, verified, mock_impl.      *)
(*                                                                         *)
(* Test code configures the mock, calls it (through the code under test),  *)
(* reads it and resets it. When func or func0 is set, a call runs test     *)
(* code again: calls nest, and that code may do everything test code does. *)
(* A callable that replaces func while func runs is not modelled: assigning *)
(* to a std::function destroys the callable it is running.                 *)
(***************************************************************************)
EXTENDS Integers, Sequences

CONSTANTS
    Args,      \* the parameter lists a call can be made with
    Values,    \* values a test can give result
    DEFAULT,   \* T{}, and what a moved-from object is left with
    NoArgs,    \* the parameters after reset(): value-initialized
    Kinds,     \* the kinds of mock and of build considered
    MaxCalls,  \* bound: calls begun between two resets
    MaxDepth   \* bound: calls of func or func0 in progress

(***************************************************************************)
(* returns: the return type is void, a type that moving leaves as it was,  *)
(* a class type that moving empties, or a reference.                       *)
(* throws: JG_MOCK_THROW_NOT_IMPLEMENTED is defined.                       *)
(* stops: verify(false) ends the process; otherwise it does nothing        *)
(* (NDEBUG) or calls a JG_VERIFY_ASSERTION that returns.                   *)
(***************************************************************************)
AllKinds == [returns : {"void", "scalar", "class", "reference"},
             throws : BOOLEAN, stops : BOOLEAN]

ASSUME KindsAssumption == Kinds \subseteq AllKinds
ASSUME ValuesAssumption == DEFAULT \notin Values /\ NoArgs \notin Args
ASSUME MockBounds == MaxCalls \in Nat /\ MaxDepth \in Nat

VARIABLES
    kind,        \* the kind of this mock, fixed
    func,        \* is mock_aux::func set
    func0,       \* is mock_aux::func0 set
    m_stub,      \* mock_aux_return_base::m_stub
    result,      \* verified::m_value
    assigned,    \* verified::m_assigned
    configured,  \* history: the value result was last given
    params,      \* mock_aux_parameters::m_params
    m_count,     \* mock_aux::m_count
    frames,      \* calls in progress: the member each runs
    process,     \* "running", or "stopped" by verify or by a null reference
    outcome,     \* how the last call that ended did
    begun,       \* history: calls begun since the last reset
    carried      \* history: calls in progress at the last reset

fixed    == kind
callable == <<func, func0>>
returned == <<m_stub, result, assigned, configured>>
recorded == <<params, m_count>>
calls    == <<frames, outcome>>
history  == <<begun, carried>>
vars == <<fixed, callable, returned, recorded, calls, process, history>>

HasResult == kind.returns # "void"

(* mock_aux(prototype): m_count(0)                                        *)
NoCalls == 0

(* JG_MOCK declares it plain, JG_STUB calls stub() before anything else.   *)
Init ==
    /\ kind \in Kinds
    /\ func = FALSE /\ func0 = FALSE
    /\ m_stub \in IF kind.returns = "reference" THEN {FALSE} ELSE BOOLEAN
    /\ result = DEFAULT
    /\ assigned = (m_stub /\ HasResult)
    /\ configured = DEFAULT
    /\ params = NoArgs /\ m_count = NoCalls
    /\ frames = <<>> /\ outcome = "none"
    /\ process = "running"
    /\ begun = 0 /\ carried = 0

Running == process = "running"
InUse(member) == \E i \in DOMAIN frames : frames[i] = member

-----------------------------------------------------------------------------
(* What a test sets. All of it persists through reset().                   *)

SetFunc(on) ==
    /\ Running /\ ~InUse("func")
    /\ func' = on
    /\ UNCHANGED <<fixed, func0, returned, recorded, calls, process, history>>

SetFunc0(on) ==
    /\ Running /\ ~InUse("func0")
    /\ func0' = on
    /\ UNCHANGED <<fixed, func, returned, recorded, calls, process, history>>

(* verified::operator=                                                     *)
Assign(v) == result' = v /\ configured' = v /\ assigned' = TRUE

SetResult(v) ==
    /\ Running /\ HasResult
    /\ Assign(v)
    /\ UNCHANGED <<fixed, callable, m_stub, recorded, calls, process, history>>

(* Mutant: stub() without on_stub().                                      *)
FlagOnly ==
    /\ Running /\ kind.returns # "reference"
    /\ m_stub' = TRUE
    /\ UNCHANGED <<fixed, callable, result, assigned, configured, recorded,
                   calls, process, history>>

(* stub(), and on_stub(): result = T{}. It does not compile for references. *)
Stub ==
    /\ Running /\ kind.returns # "reference"
    /\ m_stub' = TRUE
    /\ IF HasResult THEN Assign(DEFAULT)
                    ELSE UNCHANGED <<result, configured, assigned>>
    /\ UNCHANGED <<fixed, callable, recorded, calls, process, history>>

(* Mutant: the parameters outlive reset().                                *)
CountOnly ==
    /\ Running
    /\ m_count' = 0 /\ params' = params
    /\ begun' = 0 /\ carried' = Len(frames)
    /\ UNCHANGED <<fixed, callable, returned, calls, process>>

(* mock_aux::reset(): the counter and the parameters, nothing else.        *)
Reset ==
    /\ Running
    /\ m_count' = 0 /\ params' = NoArgs
    /\ begun' = 0 /\ carried' = Len(frames)
    /\ UNCHANGED <<fixed, callable, returned, calls, process>>

-----------------------------------------------------------------------------
(* Reading the result                                                      *)

(* Mutant: the value read goes to the caller for good.                    *)
MovedAlways == DEFAULT

(* What operator T() leaves in m_value: std::move(m_value) empties a class. *)
LeftByRead == IF kind.returns = "class" THEN DEFAULT ELSE result

(***************************************************************************)
(* verified::operator T(). verify(m_assigned) may stop the process; if it  *)
(* does not, an unassigned value is T{}, and an unassigned reference is    *)
(* bound to a null pointer: the process stops, or goes on with it.         *)
(***************************************************************************)
Convert(stopped) ==
    /\ stopped => ~assigned /\ (kind.stops \/ kind.returns = "reference")
    /\ ~stopped => assigned \/ ~kind.stops
    /\ process' = IF stopped THEN "stopped" ELSE process
    /\ result' = IF stopped THEN result ELSE LeftByRead

(* A test reads result itself, as in jg_test_assert(foo_.result == v).     *)
ReadResult ==
    /\ Running /\ HasResult
    /\ \E stopped \in BOOLEAN : Convert(stopped)
    /\ UNCHANGED <<fixed, callable, m_stub, assigned, configured, recorded,
                   calls, history>>

-----------------------------------------------------------------------------
(* Calls                                                                   *)

(* set_params, before anything else a call does.                           *)
CallBegins(p) ==
    /\ Running /\ begun < MaxCalls
    /\ params' = p
    /\ begun' = begun + 1 /\ carried' = carried

(* ~mock_impl: the call is over, whether impl() returned or threw.         *)
CallEnds(how) == outcome' = how /\ m_count' = m_count + 1

(* Mutant: a call of a non-void mock never throws.                        *)
OnlyVoid == kind.throws /\ ~HasResult /\ ~func /\ ~func0 /\ ~m_stub

(* The test of JG_MOCK_THROW_NOT_IMPLEMENTED.                              *)
NotImplemented == kind.throws /\ ~func /\ ~func0 /\ ~assigned /\ ~m_stub

CallThrows(p) ==
    /\ CallBegins(p) /\ NotImplemented
    /\ CallEnds("not_implemented")
    /\ UNCHANGED <<fixed, callable, returned, frames, process>>

(* aux.func(...) or else aux.func0(): the callable begins.                 *)
CallRuns(p) ==
    /\ CallBegins(p) /\ ~NotImplemented /\ Len(frames) < MaxDepth
    /\ func \/ func0
    /\ frames' = Append(frames, IF func THEN "func" ELSE "func0")
    /\ UNCHANGED <<fixed, callable, returned, m_count, outcome, process>>

(* Mutant: the counter is stepped after impl() has returned.              *)
CountedIfReturned(how) ==
    /\ Running /\ frames # <<>>
    /\ frames' = SubSeq(frames, 1, Len(frames) - 1)
    /\ outcome' = how
    /\ m_count' = IF how = "returned" THEN m_count + 1 ELSE m_count
    /\ UNCHANGED <<fixed, callable, returned, params, process, history>>

(* The innermost callable returns, or throws through the mock function.    *)
CallableEnds(how) ==
    /\ Running /\ frames # <<>>
    /\ frames' = SubSeq(frames, 1, Len(frames) - 1)
    /\ CallEnds(how)
    /\ UNCHANGED <<fixed, callable, returned, params, process, history>>

CallDoesNothing(p) ==
    /\ CallBegins(p) /\ ~NotImplemented /\ ~func /\ ~func0 /\ ~HasResult
    /\ CallEnds("returned")
    /\ UNCHANGED <<fixed, callable, returned, frames, process>>

(* return aux.result. A call that stops the process never ends.            *)
CallReturnsResult(p) ==
    /\ CallBegins(p) /\ ~NotImplemented /\ ~func /\ ~func0 /\ HasResult
    /\ \/ /\ Convert(TRUE)
          /\ outcome' = "stopped" /\ m_count' = m_count
       \/ /\ Convert(FALSE)
          /\ CallEnds(IF assigned THEN "returned" ELSE "unset")
    /\ UNCHANGED <<fixed, callable, m_stub, assigned, configured, frames>>

-----------------------------------------------------------------------------
Next ==
    \/ \E on \in BOOLEAN : SetFunc(on) \/ SetFunc0(on)
    \/ \E v \in Values : SetResult(v)
    \/ Stub \/ Reset \/ ReadResult
    \/ \E p \in Args : \/ CallThrows(p) \/ CallRuns(p)
                       \/ CallDoesNothing(p) \/ CallReturnsResult(p)
    \/ \E how \in {"returned", "threw"} : CallableEnds(how)

Spec == Init /\ [][Next]_vars

-----------------------------------------------------------------------------
(* Properties                                                              *)

(* The types of the mock and of the history.                               *)
TypeOK ==
    /\ kind \in Kinds
    /\ func \in BOOLEAN /\ func0 \in BOOLEAN
    /\ m_stub \in BOOLEAN /\ assigned \in BOOLEAN
    /\ result \in Values \cup {DEFAULT} /\ configured \in Values \cup {DEFAULT}
    /\ params \in Args \cup {NoArgs}
    /\ m_count \in Nat /\ begun \in Nat /\ carried \in Nat
    /\ frames \in Seq({"func", "func0"})
    /\ process \in {"running", "stopped"}
    /\ outcome \in {"none", "returned", "threw", "unset", "not_implemented",
                    "stopped"}

(* The calls a test has begun and not ended. One that stopped the process  *)
(* stays open.                                                             *)
Open == Len(frames) + (IF outcome = "stopped" THEN 1 ELSE 0)

Ledger == INSTANCE CallLedger WITH open <- Open, count <- m_count

(* count() counts calls as CallLedger promises: ~mock_impl steps the       *)
(* counter whichever way a call ends, at any depth, across reset().        *)
CountsCalls == Ledger!Spec

(* A stub can be called: no call of it throws for want of an implementation, *)
(* fails verify() or returns a value nobody set (comment of stub()).       *)
StubsNeverFail ==
    [][m_stub /\ outcome' # outcome => outcome' \in {"returned", "threw"}]_vars

(* Where JG_MOCK_THROW_NOT_IMPLEMENTED is defined, a call that nothing was *)
(* set for throws: it neither stops the process nor returns a value nobody *)
(* set.                                                                    *)
ThrowsRatherThanDefaults == kind.throws => outcome \notin {"unset", "stopped"}

(* result is the value last given it, or, of a class type, emptied by the  *)
(* last conversion: never an earlier value, whatever was called and reset. *)
ResultIsLatest ==
    assigned => \/ result = configured
                \/ kind.returns = "class" /\ result = DEFAULT

(* Between calls, and unless reset() was called during one, called() tells *)
(* exactly whether param<N>() holds the arguments of a call.               *)
ParamsTellCalled ==
    Running /\ frames = <<>> /\ carried = 0 => (m_count > 0 <=> params # NoArgs)

(* "Setting the mock result is a persistent change": the comment of result *)
(* says that a result once set remains. operator T() moves it out.         *)
ResultPersists == assigned => result = configured

(* "holding the actual N parameters the function was last called with": in *)
(* a mock that was called(), param<N>() holds the arguments of a call. A   *)
(* reset() made by the callable is followed by the count of that very call. *)
CalledShowsParams == m_count > 0 => params # NoArgs
=============================================================================
