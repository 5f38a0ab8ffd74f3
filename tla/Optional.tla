------------------------------ MODULE Optional ------------------------------
(***************************************************************************)
(* jg::optional<T> of inc/jg_optional.h, whose accessors check with        *)
(* verify() of inc/jg_verify.h.  In some builds verify() returns although  *)
(* there is no value; the reference then is to m_value all the same, and   *)
(* may be written through.  Objects are constructed in place.              *)
(***************************************************************************)
EXTENDS Integers, Sequences

CONSTANTS
    Objects,    \* the optionals of a program
    Values,     \* the values of T
    Default     \* T{}

ASSUME OptionalAssumption == Default \in Values

(* NDEBUG, JG_VERIFY_ENABLE_TERMINATE; JG_VERIFY_ASSERTION as the tests    *)
(* define it: a mock, which returns.                                       *)
Builds == [ndebug : BOOLEAN, terminate : BOOLEAN, assertion : BOOLEAN]

VARIABLES
    build,      \* how the program is compiled
    m_value,    \* per object
    m_set,      \* per object
    stopped,    \* verify() has ended the process
    call        \* history: the latest call, but for those of an accessor on an
                \* empty object

optionalVars == <<build, m_value, m_set, stopped, call>>

OptionalInit ==
    /\ build \in Builds
    /\ m_value = [o \in Objects |-> Default]
    /\ m_set = [o \in Objects |-> FALSE]
    /\ stopped = FALSE /\ call = <<>>

(* verify(condition) does not return.                                      *)
Stops(condition) ==
    ~condition /\ (build.terminate \/ (~build.assertion /\ ~build.ndebug))

-----------------------------------------------------------------------------

(* optional(), in the place of an object that is gone.                     *)
Construct(o) ==
    /\ m_value' = [m_value EXCEPT ![o] = Default]
    /\ m_set' = [m_set EXCEPT ![o] = FALSE]
    /\ call' = <<"clear", o>>
    /\ UNCHANGED <<build, stopped>>

(* optional(const T&), optional(T&&) and operator= of either.              *)
AssignValue(o, v) ==
    /\ m_value' = [m_value EXCEPT ![o] = v]
    /\ m_set' = [m_set EXCEPT ![o] = TRUE]
    /\ call' = <<"assign", o, v>>
    /\ UNCHANGED <<build, stopped>>

SetForGood(o, p) == m_set[o] \/ m_set[p]  \* mutant: an empty source forgotten
SetAs(o, p) == m_set[p]

(* optional(const optional&) and operator=, also of an object to itself.   *)
Copy(o, p) ==
    /\ m_value' = [m_value EXCEPT ![o] = m_value[p]]
    /\ m_set' = [m_set EXCEPT ![o] = SetAs(o, p)]
    /\ call' = <<"copy", o, p>>
    /\ UNCHANGED <<build, stopped>>

(* optional(optional&&) and operator=: the value is moved, m_set copied,   *)
(* and the source left with m_set and whatever T's move leaves.            *)
Move(o, p) ==
    /\ \E left \in Values :
         m_value' = [[m_value EXCEPT ![o] = m_value[p]] EXCEPT ![p] = left]
    /\ m_set' = [m_set EXCEPT ![o] = SetAs(o, p)]
    /\ call' = <<"move", o, p>>
    /\ UNCHANGED <<build, stopped>>

(* value(), operator*, operator->, and what is written through them.       *)
Access(o) ==
    /\ stopped' = Stops(m_set[o])
    /\ IF stopped' THEN UNCHANGED <<m_value, call>>
       ELSE \E v \in Values :
              /\ m_value' = [m_value EXCEPT ![o] = v]
              /\ call' = IF m_set[o] THEN <<"modify", o, v>> ELSE call
    /\ UNCHANGED <<build, m_set>>

OptionalNext ==
    /\ ~stopped
    /\ \E o, p \in Objects :
         \/ Construct(o) \/ Copy(o, p) \/ Move(o, p) \/ Access(o)
         \/ \E v \in Values : AssignValue(o, v)

OptionalSpec == OptionalInit /\ [][OptionalNext]_optionalVars

-----------------------------------------------------------------------------
(* Properties                                                              *)

OptionalTypeOK ==
    /\ build \in Builds
    /\ m_value \in [Objects -> Values] /\ m_set \in [Objects -> BOOLEAN]
    /\ stopped \in BOOLEAN

(* jg_optional.h:7: a "drop-in ... replacement for std::optional".  It is  *)
(* one in every build, for every order of calls, each with the effect the  *)
(* call has there: a value written through an accessor of an empty object  *)
(* never turns up.                                                         *)
Std == INSTANCE StdOptional WITH
    holds <- [o \in Objects |-> IF m_set[o] THEN <<m_value[o]>> ELSE <<>>]
IsStdOptional == Std!Spec
=============================================================================
