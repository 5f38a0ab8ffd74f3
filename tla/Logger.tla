------------------------------ MODULE Logger ------------------------------
(***************************************************************************)
(* inc/jg_simple_logger.h: a process-wide configuration that any thread    *)
(* reads and sets without a lock, and log statements that write a line in  *)
(* pieces: the time, the level, the arguments (which may log themselves)   *)
(* and, for the _line forms, an end of line when the ostream_line dies.    *)
(*                                                                         *)
(* lines[l] is the l-th statement and what it wrote, in order, with the    *)
(* stream each piece went to; text is left out.  Levels are the            *)
(* enumerators' values.                                                    *)
(***************************************************************************)
EXTENDS Integers, Sequences

CONSTANTS
    Threads,
    Streams,     \* the streams log_set_ostream is given
    cout,        \* std::cout, the stream to start with
    Levels,      \* log_level's enumerators, 0 for info up to 3 for fatal
    NULL,        \* the null stream
    Moves,       \* whether the program moves ostream_line objects
    Direct,      \* whether it calls jg::log...() besides the macros
    MaxLines,    \* bound: log statements begun
    MaxPieces,   \* bound: pieces of one line
    MaxOpen,     \* bound: ostream_line objects of a thread after a move
    MaxSets      \* bound: changes of the configuration

ASSUME LoggerAssumption ==
    /\ cout \in Streams /\ NULL \notin Streams
    /\ Levels \subseteq 0..3 /\ 0 \in Levels
    /\ Moves \in BOOLEAN /\ Direct \in BOOLEAN
    /\ {MaxLines, MaxPieces, MaxOpen, MaxSets} \subseteq Nat

VARIABLES
    configuration,  \* log_configuration: enabled, ostream, level
    open,           \* per thread: its statements under way, innermost last,
                    \* and (history) the value of sets when each was checked
    lines,          \* the statements begun, each with the pieces it wrote
    sets,           \* changes of the configuration so far
    crashed         \* a null stream was written to

loggerVars == <<configuration, open, lines, sets, crashed>>

NoLevel == -1   \* jg::log(), which names no level

(* A statement: a macro or a direct call, with or without an ostream_line. *)
(* The _line macros above info expand to functions that do not exist.      *)
Statements ==
    {s \in [level : Levels \cup {NoLevel}, macro : BOOLEAN, ends : BOOLEAN] :
        IF s.macro THEN s.ends => s.level <= 0 ELSE Direct}

Initially == [enabled |-> TRUE, ostream |-> cout, level |-> 0]

LoggerInit ==
    /\ configuration = Initially
    /\ open = [t \in Threads |-> <<>>]
    /\ lines = <<>>
    /\ sets = 0
    /\ crashed = FALSE

Innermost(s) == s[Len(s)]
Top(t) == Innermost(open[t])
Is(t) == lines[Top(t).line].is
At(t, phase) == open[t] # <<>> /\ Top(t).phase = phase
Becomes(t, frame) == open' = [open EXCEPT ![t] = Append(SubSeq(@, 1, Len(@) - 1), frame)]
Closes(t) == open' = [open EXCEPT ![t] = SubSeq(@, 1, Len(@) - 1)]
Writes(line, stream, part) ==
    lines' = [lines EXCEPT ![line].wrote = Append(@, [on |-> stream, part |-> part])]

-----------------------------------------------------------------------------
(* log_set_enabled, log_set_ostream, log_set_level                         *)

Set(t) ==
    /\ open[t] = <<>> \/ At(t, "args")
    /\ sets < MaxSets /\ sets' = sets + 1
    /\ \/ \E b \in BOOLEAN : configuration' = [configuration EXCEPT !.enabled = b]
       \/ \E s \in Streams : configuration' = [configuration EXCEPT !.ostream = s]
       \/ \E l \in Levels : configuration' = [configuration EXCEPT !.level = l]
    /\ UNCHANGED <<open, lines, crashed>>

-----------------------------------------------------------------------------
(* A log statement                                                         *)

Begins(t) ==
    /\ open[t] = <<>> \/ At(t, "args")
    /\ Len(lines) < MaxLines
    /\ \E s \in Statements :
         /\ lines' = Append(lines, [is |-> s, wrote |-> <<>>])
         /\ open' = [open EXCEPT ![t] = Append(@,
              [line |-> Len(lines'), stream |-> NULL, checked |-> sets,
               phase |-> IF s.macro THEN "check" ELSE "time"])]
    /\ UNCHANGED <<configuration, sets, crashed>>

AnyLevel(level) == configuration.enabled  \* mutant: log_enabled() for all
LogEnabled(level) ==
    configuration.enabled /\ (level # NoLevel => level >= configuration.level)

Checks(t) ==
    /\ At(t, "check")
    /\ IF LogEnabled(Is(t).level)
       THEN Becomes(t, [Top(t) EXCEPT !.phase = "time", !.checked = sets])
       ELSE Closes(t)
    /\ UNCHANGED <<configuration, lines, sets, crashed>>

(* log(): the time goes to the configured stream, which is returned.       *)
LogTime(t) ==
    /\ At(t, "time")
    /\ LET next == IF Is(t).level = NoLevel THEN "args" ELSE "level" IN
         Becomes(t, [Top(t) EXCEPT !.stream = configuration.ostream, !.phase = next])
    /\ Writes(Top(t).line, configuration.ostream, "time")
    /\ UNCHANGED <<configuration, sets, crashed>>

Configured(frame) == configuration.ostream  \* mutant: read again
LevelGoesTo(frame) == frame.stream

(* log_info() and its siblings: the level goes to what log() returned.     *)
LogLevel(t) ==
    /\ At(t, "level")
    /\ Becomes(t, [Top(t) EXCEPT !.phase = "args"])
    /\ Writes(Top(t).line, LevelGoesTo(Top(t)), "level")
    /\ UNCHANGED <<configuration, sets, crashed>>

Dereferences(t, part) ==
    IF Top(t).stream = NULL
    THEN crashed' = TRUE /\ UNCHANGED lines
    ELSE UNCHANGED crashed /\ Writes(Top(t).line, Top(t).stream, part)

(* operator<< of ostream_line, or of the stream log_info() returned.       *)
Argument(t) ==
    /\ At(t, "args") /\ Len(lines[Top(t).line].wrote) < MaxPieces
    /\ Dereferences(t, "arg")
    /\ UNCHANGED <<configuration, open, sets>>

SourceLeft(stream) == NULL

(* ostream_line(ostream_line&&), into an object that dies first.           *)
Moved(t) ==
    /\ Moves /\ At(t, "args") /\ Is(t).ends /\ ~Is(t).macro
    /\ Len(open[t]) < MaxOpen
    /\ LET source == [Top(t) EXCEPT !.stream = SourceLeft(@)] IN
         open' = [open EXCEPT ![t] = SubSeq(@, 1, Len(@) - 1) \o <<source, Top(t)>>]
    /\ UNCHANGED <<configuration, lines, sets, crashed>>

(* ~ostream_line, or the end of a statement without one.                   *)
Ends(t) ==
    /\ At(t, "args")
    /\ Closes(t)
    /\ IF Is(t).ends THEN Dereferences(t, "end") ELSE UNCHANGED <<lines, crashed>>
    /\ UNCHANGED <<configuration, sets>>

LoggerNext ==
    /\ ~crashed
    /\ \E t \in Threads :
         \/ Set(t) \/ Begins(t) \/ Checks(t) \/ LogTime(t) \/ LogLevel(t)
         \/ Argument(t) \/ Moved(t) \/ Ends(t)

LoggerSpec == LoggerInit /\ [][LoggerNext]_loggerVars

-----------------------------------------------------------------------------
(* Properties                                                              *)

(* A line is whole, whatever other threads, the line's own arguments and   *)
(* log_set_ostream do meanwhile: all on the stream it began on, the time   *)
(* first, the level right after it.  A line that ends has its end exactly  *)
(* when no ostream_line holds its stream any more, however often it was    *)
(* moved, and then gets no other piece.                                    *)
LinesWhole ==
    \A l \in 1..Len(lines) : LET pieces == lines[l].wrote IN
        /\ \A i \in 1..Len(pieces) :
            /\ pieces[i].on = pieces[1].on
            /\ (pieces[i].part = "time") <=> (i = 1)
            /\ pieces[i].part = "level" => i = 2
            /\ pieces[i].part = "end" => i = Len(pieces)
        /\ lines[l].is.ends /\ pieces # <<>> =>
            (Innermost(pieces).part = "end") <=>
            \A t \in Threads : \A i \in 1..Len(open[t]) :
                open[t][i].line = l => open[t][i].stream = NULL

(* jg_simple_logger.h:84: log_set_enabled "Enables or disables logging."   *)
(* What a macro writes is enabled, at its level, when its first piece is   *)
(* written, also when the arguments of a line around it have changed the   *)
(* configuration; unless it is changed between the macro's check and that  *)
(* piece.  (jg::log_info() and its siblings, called directly, ask nothing.) *)
MacrosObeyConfiguration ==
    [][\A t \in Threads :
         LogTime(t) /\ Is(t).macro =>
             \/ configuration.enabled /\ Is(t).level \in configuration.level..3 \cup {NoLevel}
             \/ sets > Top(t).checked]_loggerVars

(* jg_simple_logger.h:108: an ostream_line "Outputs end-of-line to the     *)
(* contained stream when going out of scope."; one that was moved from     *)
(* contains no stream and writes to it all the same.                       *)
EveryLineEndsSafely == ~crashed
=============================================================================
