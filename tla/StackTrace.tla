----------------------------- MODULE StackTrace -----------------------------
(***************************************************************************)
(* stack_trace::capture() of inc/jg_stacktrace.h on Windows, by several    *)
(* threads.  DbgHelp keeps its symbols per process and is single-threaded; *)
(* its calls are external: what they do is what the code relies on.        *)
(***************************************************************************)
EXTENDS Integers, SequencesExt

CONSTANTS
    Capturers,
    Depth,      \* frames on a thread's stack, below capture() itself
    Skips, Takes,   \* what skip() and take() are given
    NoThread,
    MaxCaptures \* bound: calls of capture() by one thread

ASSUME StackTraceAssumption ==
    /\ Depth \in Nat /\ Skips \subseteq Nat /\ Takes \subseteq Nat
    /\ NoThread \notin Capturers

VARIABLES
    at,           \* per thread: "idle", "lock", "init", "frames", "cleanup", "unlock"
    m_skip, m_take, \* per thread: of its stack_trace
    back_trace,   \* per thread: frames whose symbols are still to be looked up
    stack_frames, \* per thread: the frames found
    captures,     \* per thread: calls so far
    dbghlp_mutex, \* its owner
    initialized,  \* DbgHelp holds symbols of the process
    threw         \* history: a capture() ended by bad_alloc while it held the mutex

traceVars == <<at, m_skip, m_take, back_trace, stack_frames, captures, dbghlp_mutex, initialized, threw>>

Goes(t, to) == at' = [at EXCEPT ![t] = to]
NoFrames == [t \in Capturers |-> <<>>]

TraceInit ==
    /\ at = [t \in Capturers |-> "idle"]
    /\ m_skip = [t \in Capturers |-> 0] /\ m_take = [t \in Capturers |-> 0]
    /\ back_trace = NoFrames /\ stack_frames = NoFrames
    /\ captures = [t \in Capturers |-> 0]
    /\ dbghlp_mutex = NoThread /\ initialized = FALSE /\ threw = FALSE

(* The addresses of a window; frame 0 is capture() itself.                 *)
Window(skip, take) == [j \in 1..Max({0, Min({take, Depth - skip})}) |-> skip + j]

(* Its vector, or stack_frames for it, may not fit in memory: bad_alloc    *)
(* ends capture() before the lock, as if there were no frames.             *)
Addresses(skip, take) == {Window(skip, take)} \cup (IF take = 0 THEN {} ELSE {<<>>})

(* skip() and take() on a new stack_trace, then capture() on it.           *)
SkipTake(t, skip, take) ==
    m_skip' = [m_skip EXCEPT ![t] = skip] /\ m_take' = [m_take EXCEPT ![t] = take]

CaptureStackBackTrace(t) ==
    /\ at[t] = "idle" /\ captures[t] < MaxCaptures
    /\ captures' = [captures EXCEPT ![t] = @ + 1]
    /\ stack_frames' = [stack_frames EXCEPT ![t] = <<>>]
    /\ \E skip \in Skips, take \in Takes :
         /\ SkipTake(t, skip, take)
         /\ \E window \in Addresses(skip, take) : back_trace' = [back_trace EXCEPT ![t] = window]
    /\ Goes(t, IF back_trace'[t] = <<>> THEN "idle" ELSE "lock")
    /\ UNCHANGED <<dbghlp_mutex, initialized, threw>>

Unguarded(t) == TRUE  \* mutant: a mutex for each call, not a static one
Free(t) == dbghlp_mutex = NoThread

Lock(t) ==
    /\ at[t] = "lock" /\ Free(t)
    /\ dbghlp_mutex' = t /\ Goes(t, "init")
    /\ UNCHANGED <<back_trace, stack_frames, captures, initialized, threw>>

(* SymInitialize() fails if the process is initialized already.            *)
SymInitialize(t) ==
    /\ at[t] = "init"
    /\ \/ ~initialized /\ initialized' = TRUE /\ Goes(t, "frames")
       \/ UNCHANGED initialized /\ Goes(t, "unlock")
    /\ UNCHANGED <<back_trace, stack_frames, captures, dbghlp_mutex, threw>>

(* SymFromAddr() for the next address, which may have no symbol.           *)
SymFromAddr(t) ==
    /\ at[t] = "frames" /\ back_trace[t] # <<>>
    /\ back_trace' = [back_trace EXCEPT ![t] = Tail(@)]
    /\ \/ stack_frames' = [stack_frames EXCEPT ![t] = Append(@, Head(back_trace[t]))]
       \/ UNCHANGED stack_frames
    /\ UNCHANGED <<at, captures, dbghlp_mutex, initialized, threw>>

StillOwned == dbghlp_mutex  \* mutant: lock() without unlock()
Released == NoThread

(* A name does not fit in memory: bad_alloc passes SymCleanup() by.        *)
BadAlloc(t) ==
    /\ at[t] = "frames" /\ back_trace[t] # <<>>
    /\ threw' = TRUE
    /\ stack_frames' = [stack_frames EXCEPT ![t] = <<>>]
    /\ dbghlp_mutex' = Released /\ Goes(t, "idle")
    /\ UNCHANGED <<back_trace, captures, initialized>>

CleanedUp == FALSE

SymCleanup(t) ==
    /\ at[t] = "frames" /\ back_trace[t] = <<>>
    /\ initialized' = CleanedUp /\ Goes(t, "unlock")
    /\ UNCHANGED <<back_trace, stack_frames, captures, dbghlp_mutex, threw>>

Unlock(t) ==
    /\ at[t] = "unlock"
    /\ dbghlp_mutex' = Released /\ Goes(t, "idle")
    /\ UNCHANGED <<back_trace, stack_frames, captures, initialized, threw>>

Capturing(t) ==
    \/ Lock(t) \/ SymInitialize(t) \/ SymFromAddr(t) \/ BadAlloc(t)
    \/ SymCleanup(t) \/ Unlock(t)

CapturesOn(t) == Capturing(t) /\ UNCHANGED <<m_skip, m_take>>

TraceNext == \E t \in Capturers : CaptureStackBackTrace(t) \/ CapturesOn(t)

(* A thread that can go on does.  No order is assumed in which the mutex   *)
(* is granted: a program makes a finite number of captures.                *)
TraceSpec == TraceInit /\ [][TraceNext]_traceVars /\ \A t \in Capturers : WF_traceVars(CapturesOn(t))

-----------------------------------------------------------------------------
(* Properties                                                              *)

(* jg_stacktrace.h:90: DbgHelp is single-threaded.  Only the owner of the  *)
(* mutex is between SymInitialize() and SymCleanup(), and it releases the  *)
(* symbols before the mutex: only a capture() that ended by an exception   *)
(* there can leave them loaded.  It does leave them, for good: no later    *)
(* capture(), of any thread, gets to look up a symbol again.               *)
OneOwnerOfDbgHelp ==
    /\ \A t \in Capturers : at[t] \in {"init", "frames"} => dbghlp_mutex = t
    /\ initialized <=> threw \/ \E t \in Capturers : at[t] = "frames"
    /\ threw => \A t \in Capturers : at[t] # "frames"

(* Every capture() ends, also when others fail or throw.                   *)
CapturesEnd == \A t \in Capturers : at[t] # "idle" ~> at[t] = "idle"
=============================================================================
