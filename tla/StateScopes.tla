---------------------------- MODULE StateScopes ----------------------------
(***************************************************************************)
(* inc/jg_state_scope.h: objects that set a global on construction and     *)
(* reset it on destruction, opened in each other by one thread, left by    *)
(* return or by an exception, for one global.  state_scope_value is given  *)
(* both values; state_scope_action runs test code for either, and that     *)
(* code may throw.                                                         *)
(***************************************************************************)
EXTENDS Integers, Sequences

CONSTANTS
    States,    \* what the global can hold
    Start,     \* what it holds to start with
    Saves,     \* every exit value is the value found on entry, as in the
               \* example at line 84 and in test_run(); otherwise any value
    MaxDepth   \* bound: scopes open at once

ASSUME ScopesAssumption ==
    Start \in States /\ Saves \in BOOLEAN /\ MaxDepth \in Nat

VARIABLES
    instance,    \* the global
    scopes,      \* m_exit_value or m_exit_action of the open scopes, innermost last
    entering,    \* enter_action has changed the global and not yet returned
    unwinding,   \* an exception is on its way
    terminated,  \* std::terminate() has ended the program
    outside,     \* history: what code outside of all scopes set the global to
    entered,     \* history: what each open scope, or code in it, set it to
    half         \* history: the numbers of open scopes at which an enter_action
                 \* threw and the global still is what it has left there

histories == <<outside, entered, half>>
scopesVars == <<instance, scopes, entering, unwinding, terminated, histories>>

Nothing == <<>>
Idle == entering = Nothing /\ ~unwinding

ScopesInit ==
    /\ instance = Start /\ outside = Start
    /\ scopes = <<>> /\ entered = <<>>
    /\ entering = Nothing /\ unwinding = FALSE /\ terminated = FALSE
    /\ half = {}

AnExitFor(found) == IF Saves THEN {found} ELSE States

(* state_scope_value's constructor: the exit value is kept, then the enter *)
(* value assigned.                                                         *)
OpenValue ==
    /\ Idle /\ Len(scopes) < MaxDepth
    /\ \E value \in States, exit \in AnExitFor(instance) :
         /\ scopes' = Append(scopes, exit)
         /\ instance' = value
         /\ entered' = Append(entered, value)
    /\ UNCHANGED <<entering, unwinding, terminated, outside, half>>

(* state_scope_action's constructor: the object exists once enter_action   *)
(* has returned.  So does a state_scope_value whose T throws as it is      *)
(* assigned.                                                               *)
OpenAction ==
    /\ Idle /\ Len(scopes) < MaxDepth
    /\ \E value \in States, exit \in AnExitFor(instance) :
         /\ entering' = <<exit>>
         /\ instance' = value
    /\ UNCHANGED <<scopes, unwinding, terminated, histories>>

EnterReturns ==
    /\ entering # Nothing
    /\ scopes' = scopes \o entering /\ entering' = Nothing
    /\ entered' = Append(entered, instance)
    /\ UNCHANGED <<instance, unwinding, terminated, outside, half>>

(* enter_action throws: the object was never constructed and no destructor *)
(* runs.  The change stands, unless enter_action has undone it itself.     *)
EnterThrew ==
    /\ entering # Nothing
    /\ entering' = Nothing /\ unwinding' = TRUE
    /\ \/ instance' = entering[1] /\ UNCHANGED half
       \/ UNCHANGED instance /\ half' = half \cup {Len(scopes)}
    /\ UNCHANGED <<scopes, terminated, outside, entered>>

(* The global is set by code in the innermost scope, or outside of all.    *)
CodeSets ==
    /\ Idle
    /\ \E value \in States :
         /\ instance' = value
         /\ IF scopes = <<>> THEN outside' = value /\ UNCHANGED entered
            ELSE entered' = [entered EXCEPT ![Len(entered)] = value] /\ UNCHANGED outside
    /\ half' = half \ {Len(scopes)}
    /\ UNCHANGED <<scopes, entering, unwinding, terminated>>

Throw == Idle /\ unwinding' = TRUE
         /\ UNCHANGED <<instance, scopes, entering, terminated, histories>>

Catch == unwinding /\ unwinding' = FALSE
         /\ UNCHANGED <<instance, scopes, entering, terminated, histories>>

OnReturn(exit) == IF unwinding THEN instance ELSE exit  \* mutant: reset by hand
ResetTo(exit) == exit

(* The destructors, on return or on the way of an exception.               *)
Close ==
    /\ entering = Nothing /\ scopes # <<>>
    /\ instance' = ResetTo(scopes[Len(scopes)])
    /\ scopes' = SubSeq(scopes, 1, Len(scopes) - 1)
    /\ entered' = SubSeq(entered, 1, Len(entered) - 1)
    /\ half' = half \ {Len(scopes)}
    /\ UNCHANGED <<entering, unwinding, terminated, outside>>

(* exit_action throws.  Destructors are noexcept, and the program ends:    *)
(* what has become of the global nobody sees.                              *)
ExitThrew ==
    /\ entering = Nothing /\ scopes # <<>>
    /\ terminated' = TRUE
    /\ UNCHANGED <<instance, scopes, entering, unwinding, histories>>

ScopesNext ==
    /\ ~terminated
    /\ \/ OpenValue \/ OpenAction \/ EnterReturns \/ EnterThrew
       \/ CodeSets \/ Throw \/ Catch \/ Close \/ ExitThrew

ScopesSpec == ScopesInit /\ [][ScopesNext]_scopesVars

-----------------------------------------------------------------------------
(* Properties                                                              *)

ScopesTypeOK ==
    /\ instance \in States /\ outside \in States
    /\ scopes \in Seq(States) /\ Len(entered) = Len(scopes)
    /\ entering \in {Nothing} \cup {<<v>> : v \in States}
    /\ unwinding \in BOOLEAN /\ terminated \in BOOLEAN
    /\ half \subseteq 0 .. Len(scopes)

(* jg_state_scope.h:12-13: when no scope is open the global is what code   *)
(* outside of all scopes last set, whatever was opened, set, thrown and    *)
(* caught in between.  Only an enter_action that threw half way outside of *)
(* all scopes, with nothing set since, may have left something else there; *)
(* what one has left inside a scope is gone with that scope.               *)
ResetAfterAll ==
    scopes = <<>> /\ entering = Nothing /\ 0 \notin half => instance = outside

(* Scopes nest: whatever was opened and closed inside, also by exceptions  *)
(* caught in between, the innermost open scope sees the value it was given *)
(* or code in it set, with the same exception.  Exit values that are not   *)
(* those found on entry break this: test_run() resets current_state() to   *)
(* nullptr, so one called by a test body leaves the outer run without a    *)
(* state.                                                                  *)
InnerScopesLeaveNoTrace ==
    scopes # <<>> /\ entering = Nothing /\ Len(scopes) \notin half =>
       instance = entered[Len(entered)]

(* jg_state_scope.h:68-69, of state_scope_action: "2) the correct state    *)
(* will be reset even in the presence of exceptions".  The exception of    *)
(* its own enter_action is one that it does not survive.                   *)
ResetDespiteExceptions ==
    scopes = <<>> /\ entering = Nothing => instance = outside
=============================================================================
