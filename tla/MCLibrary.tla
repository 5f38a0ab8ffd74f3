----------------------------- MODULE MCLibrary -----------------------------
(***************************************************************************)
(* The headers that share no state, and a simple mock, in one run of TLC:  *)
(* `header' says which one is used, and the others rest.  The behaviours   *)
(* of each are those of its own specification, its fairness included.      *)
(***************************************************************************)
EXTENDS Logger, Timestamp, StateScopes, Optional, Split, Args, Benchmark,
        StackTrace, OstreamColor, MockMacros, MockSimple

VARIABLE header

(* Items and keys of up to three characters: keys are proper prefixes of   *)
(* items, equal to them, and empty.                                        *)
MCItems == {<<>>, <<"k">>, <<"k", "v">>, <<"v">>, <<"k", "v", "v">>}
MCKeys == MCItems

(* Every boundary of the formatting code, on 1 January 1970 and the day    *)
(* after, and the last seconds before 1970.                                *)
MCInstants ==
    {2 * (1000 * (3600 * h + 60 * m + s) + ms) + tick :
        h \in {0, 9, 10, 23, 24}, m \in {9, 10}, s \in {9, 59},
        ms \in {0, 9, 10, 99, 100, 999}, tick \in {0, 1}}
    \cup {0, -1, -2, -19, -20, -200, -1000, -1999, -2000, -4000}

(* How far the clock may get, or be set back, while a function runs: sums  *)
(* of four samples, and of their squares, that their type holds or not.    *)
MCElapsed == {0, 1, 5, 20, 120, -2}

(* Headers whose functions take arguments rest before a call with the      *)
(* simplest ones, or after it.                                             *)
MCInit ==
    /\ header \in {"logger", "timestamp", "scopes", "optional", "string",
                   "args", "benchmark", "stacktrace", "color", "macros",
                   "simple"}
    /\ LoggerInit /\ ScopesInit /\ BenchmarkInit /\ TraceInit /\ ColorInit
    /\ IF header = "simple" THEN SimpleInit ELSE throws = FALSE /\ m_stub = FALSE /\ SimpleInit
    /\ IF header = "timestamp" THEN TimestampInit ELSE now = 0 /\ TimestampInit
    /\ IF header = "optional" THEN OptionalInit
       ELSE /\ build = [ndebug |-> FALSE, terminate |-> FALSE, assertion |-> FALSE]
            /\ OptionalInit
    /\ IF header = "string" THEN SplitInit
       ELSE input = <<>> /\ NumTokens = 1 /\ SplitInit
    /\ IF header = "args" THEN ArgsInit
       ELSE /\ args = <<>> /\ key = <<>> /\ first = 0 /\ looking = "no"
            /\ key_value = <<{}>> /\ has_key = <<FALSE>>
    /\ IF header = "macros" THEN MacrosInit
       ELSE /\ name = [macro |-> <<"MOCK">>, short |-> FALSE]
            /\ compiler = [msvc |-> FALSE, com |-> FALSE, throws |-> FALSE]
            /\ params = <<>>
            /\ MacrosInit

OthersRest ==
    /\ UNCHANGED header
    /\ IF header = "logger" THEN TRUE ELSE UNCHANGED loggerVars
    /\ IF header = "timestamp" THEN TRUE ELSE UNCHANGED timestampVars
    /\ IF header = "scopes" THEN TRUE ELSE UNCHANGED scopesVars
    /\ IF header = "optional" THEN TRUE ELSE UNCHANGED optionalVars
    /\ IF header = "string" THEN TRUE ELSE UNCHANGED splitVars
    /\ IF header = "args" THEN TRUE ELSE UNCHANGED argsVars
    /\ IF header = "benchmark" THEN TRUE ELSE UNCHANGED benchmarkVars
    /\ IF header = "stacktrace" THEN TRUE ELSE UNCHANGED traceVars
    /\ IF header = "color" THEN TRUE ELSE UNCHANGED colorVars
    /\ IF header = "macros" THEN TRUE ELSE UNCHANGED macrosVars
    /\ IF header = "simple" THEN TRUE ELSE UNCHANGED simpleVars

MCNext ==
    /\ \/ header = "logger" /\ LoggerNext
       \/ header = "timestamp" /\ TimestampNext
       \/ header = "scopes" /\ ScopesNext
       \/ header = "optional" /\ OptionalNext
       \/ header = "string" /\ SplitNext
       \/ header = "args" /\ ArgsNext
       \/ header = "benchmark" /\ BenchmarkNext
       \/ header = "stacktrace" /\ TraceNext
       \/ header = "color" /\ ColorNext
       \/ header = "macros" /\ MacrosNext
       \/ header = "simple" /\ SimpleNext
    /\ OthersRest

MCVars == <<header, loggerVars, timestampVars, scopesVars, optionalVars,
            splitVars, argsVars, benchmarkVars,
            traceVars, colorVars, macrosVars, simpleVars>>

MCSpec ==
    /\ MCInit /\ [][MCNext]_MCVars
    /\ \A t \in Capturers :
         WF_MCVars(header = "stacktrace" /\ CapturesOn(t) /\ OthersRest)
=============================================================================
