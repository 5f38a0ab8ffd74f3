--------------------------- MODULE LibraryProofs ---------------------------
(***************************************************************************)
(* Theorems about the headers that share no state, for every value of      *)
(* their constants: jg::optional implements std::optional; who owns        *)
(* DbgHelp; which colours stay on a stream; what lookups in a command line *)
(* agree on; how the mocking macros count; that state scopes leave no      *)
(* trace; when the statistics of a benchmark are those of its samples.     *)
(* Each component has an invariant of its own, a type invariant and what   *)
(* its property needs to be inductive.                                     *)
(***************************************************************************)
EXTENDS Optional, StateScopes, StackTrace, OstreamColor, Args, MockMacros,
        Benchmark, DataLemmas, FunctionTheorems

-----------------------------------------------------------------------------
(* Optional                                                                *)

(* Every access leaves each object with a value of T.                      *)
LEMMA AccessTypes ==
  ASSUME OptionalTypeOK, NEW o \in Objects, Access(o)
  PROVE  OptionalTypeOK'
BY DEF Access, Stops, OptionalTypeOK, Builds

(* Every step keeps it.                                                    *)
LEMMA OptionalTypesStep == ASSUME OptionalTypeOK, [OptionalNext]_optionalVars PROVE OptionalTypeOK'
<1> USE DEF OptionalTypeOK
<1>1. CASE UNCHANGED optionalVars
    BY <1>1 DEF optionalVars
<1>2. ASSUME NEW o \in Objects, NEW p \in Objects, NEW v \in Values,
             Construct(o) \/ Copy(o, p) \/ AssignValue(o, v)
      PROVE  OptionalTypeOK'
    <2>1. CASE Construct(o)
        BY <2>1, OptionalAssumption DEF Construct
    <2>2. CASE Copy(o, p)
        BY <2>2 DEF Copy, SetAs
    <2>3. CASE AssignValue(o, v)
        BY <2>3 DEF AssignValue
    <2> QED BY <1>2, <2>1, <2>2, <2>3
<1>3. ASSUME NEW o \in Objects, NEW p \in Objects, Move(o, p)
      PROVE  OptionalTypeOK'
    <2>1. PICK rest \in Values :
              m_value' = [[m_value EXCEPT ![o] = m_value[p]] EXCEPT ![p] = rest]
        BY <1>3 DEF Move
    <2>2. m_value' \in [Objects -> Values]
        BY <2>1
    <2> QED BY <1>3, <2>2 DEF Move, SetAs
<1> QED BY <1>1, <1>2, <1>3, AccessTypes, OptionalAssumption DEF OptionalNext

(* Copies, moves and writes leave every optional with a value of T.        *)
THEOREM OptionalTypesCorrect == OptionalSpec => []OptionalTypeOK
<1>1. OptionalInit => OptionalTypeOK
    BY OptionalAssumption DEF OptionalInit, OptionalTypeOK
<1> QED BY <1>1, OptionalTypesStep, PTL DEF OptionalSpec

-----------------------------------------------------------------------------
(* What a std::optional in the place of these would hold.                  *)
Held == [o \in Objects |-> IF m_set[o] THEN <<m_value[o]>> ELSE <<>>]

(* Construction and assignment of a value.                                 *)
LEMMA AssignIsStd ==
    ASSUME OptionalTypeOK, NEW o \in Objects, NEW v \in Values, Construct(o) \/ AssignValue(o, v)
    PROVE  Std!Clear(o) \/ Std!Assign(o, v)
BY DEF OptionalTypeOK, Construct, AssignValue, Std!Clear, Std!Assign

(* Copies.                                                                 *)
LEMMA CopyIsStd ==
    ASSUME OptionalTypeOK, NEW o \in Objects, NEW p \in Objects, Copy(o, p)
    PROVE  Std!Copy(o, p)
BY DEF OptionalTypeOK, Copy, SetAs, Std!Copy

(* Moves: the source keeps being set, with another value.                  *)
LEMMA MoveIsStd ==
    ASSUME OptionalTypeOK, NEW o \in Objects, NEW p \in Objects, Move(o, p)
    PROVE  Std!Move(o, p)
<1>1. PICK rest \in Values :
          m_value' = [[m_value EXCEPT ![o] = m_value[p]] EXCEPT ![p] = rest]
    BY DEF Move
<1>2. m_set' = [m_set EXCEPT ![o] = m_set[p]] /\ call' = <<"move", o, p>>
    BY DEF Move, SetAs
<1>3. CASE m_set[p]
    <2>1. Held' = [[Held EXCEPT ![o] = Held[p]] EXCEPT ![p] = <<rest>>]
        BY <1>1, <1>2, <1>3 DEF Held, OptionalTypeOK
    <2>2. Held[p] # <<>>
        BY <1>3 DEF Held
    <2> QED BY <1>2, <2>1, <2>2 DEF Std!Move, Held
<1>4. CASE ~m_set[p]
    <2>1. Held' = [Held EXCEPT ![o] = <<>>]
        BY <1>1, <1>2, <1>4 DEF Held, OptionalTypeOK
    <2>2. Held[p] = <<>>
        BY <1>4 DEF Held
    <2> QED BY <1>2, <2>1, <2>2 DEF Std!Move, Held
<1> QED BY <1>3, <1>4

(* A write through an accessor changes a value that is there, or one that  *)
(* nobody will see.                                                        *)
LEMMA AccessIsStd ==
    ASSUME OptionalTypeOK, NEW o \in Objects, Access(o)
    PROVE  (\E v \in Values : Std!Modify(o, v)) \/ (Held' = Held /\ call' = call)
<1>1. CASE UNCHANGED <<m_value, m_set, call>>
    BY <1>1 DEF Held
<1>2. ASSUME NEW v \in Values, m_value' = [m_value EXCEPT ![o] = v], m_set' = m_set,
             call' = IF m_set[o] THEN <<"modify", o, v>> ELSE call
      PROVE  Std!Modify(o, v) \/ (Held' = Held /\ call' = call)
    <2>1. CASE m_set[o]
        BY <1>2, <2>1 DEF OptionalTypeOK, Std!Modify
    <2>2. CASE ~m_set[o]
        BY <1>2, <2>2 DEF OptionalTypeOK, Held
    <2> QED BY <2>1, <2>2
<1>3. \/ UNCHANGED <<m_value, m_set, call>>
      \/ \E v \in Values :
           /\ m_value' = [m_value EXCEPT ![o] = v] /\ m_set' = m_set
           /\ call' = IF m_set[o] THEN <<"modify", o, v>> ELSE call
    BY DEF Access
<1> QED BY <1>1, <1>2, <1>3

(* jg::optional does what std::optional does, in every build.              *)
THEOREM OptionalCorrect == OptionalSpec => IsStdOptional
<1>1. OptionalInit => Std!Init
    BY DEF OptionalInit, Std!Init
<1>2. ASSUME OptionalTypeOK, [OptionalNext]_optionalVars
      PROVE  [Std!Next]_(Std!vars)
    <2>1. CASE UNCHANGED optionalVars
        BY <2>1 DEF optionalVars, Std!vars
    <2>2. ASSUME NEW o \in Objects, NEW p \in Objects, NEW v \in Values,
                 Construct(o) \/ AssignValue(o, v) \/ Copy(o, p) \/ Move(o, p)
          PROVE  Std!Next
        BY <1>2, <2>2, AssignIsStd, CopyIsStd, MoveIsStd DEF Std!Next
    <2>3. ASSUME NEW o \in Objects, Access(o)
          PROVE  Std!Next \/ (Held' = Held /\ call' = call)
        BY <1>2, <2>3, OptionalAssumption, AccessIsStd DEF Std!Next
    <2>4. Held' = Held /\ call' = call => UNCHANGED (Std!vars)
        BY DEF Std!vars, Held
    <2> QED BY <1>2, <2>1, <2>2, <2>3, <2>4, OptionalAssumption DEF OptionalNext
<1> QED BY <1>1, <1>2, OptionalTypesCorrect, PTL DEF OptionalSpec, IsStdOptional, Std!Spec

-----------------------------------------------------------------------------
(* Stack traces                                                            *)

Holding == {"init", "frames", "unlock"}
TraceTypeOK ==
    /\ at \in [Capturers -> {"idle", "lock"} \cup Holding]
    /\ dbghlp_mutex \in Capturers \cup {NoThread}
    /\ initialized \in BOOLEAN /\ threw \in BOOLEAN

(* Who is at DbgHelp owns the mutex, and the owner is at DbgHelp.          *)
Owned ==
    /\ \A t \in Capturers : at[t] \in Holding => dbghlp_mutex = t
    /\ dbghlp_mutex # NoThread => at[dbghlp_mutex] \in Holding

(* Symbols are loaded while a thread reads frames, or for good after a     *)
(* capture() that threw, and then none does.                               *)
Loaded ==
    /\ initialized <=> threw \/ \E t \in Capturers : at[t] = "frames"
    /\ threw => \A t \in Capturers : at[t] # "frames"

TraceInv == TraceTypeOK /\ Owned /\ Loaded

(* Nobody is at DbgHelp before the first capture.                          *)
LEMMA TraceInvInit == TraceInit => TraceInv
  BY DEF TraceInit, TraceInv, TraceTypeOK, Owned, Loaded, Holding

(* Only Lock gives the mutex away, and to one thread.                      *)
LEMMA TraceInvStep == TraceInv /\ [TraceNext]_traceVars => TraceInv'
<1>. SUFFICES ASSUME TraceInv, [TraceNext]_traceVars
              PROVE  TraceInv'
  OBVIOUS
<1>. USE DEF TraceInv, TraceTypeOK, Owned, Loaded, Holding
<1>1. CASE UNCHANGED traceVars
  BY <1>1 DEF traceVars
<1>2. ASSUME NEW t \in Capturers, CaptureStackBackTrace(t)
      PROVE  TraceInv'
  <2>1. PICK to \in {"idle", "lock"} : at' = [at EXCEPT ![t] = to]
    BY <1>2 DEF CaptureStackBackTrace, Goes
  <2>2. at[t] = "idle" /\ UNCHANGED <<dbghlp_mutex, initialized, threw>>
    BY <1>2 DEF CaptureStackBackTrace
  <2>. QED BY <2>1, <2>2
<1>3. ASSUME NEW t \in Capturers, Lock(t)
      PROVE  TraceInv'
  BY <1>3, StackTraceAssumption DEF Lock, Free, Goes
<1>4. ASSUME NEW t \in Capturers, SymInitialize(t)
      PROVE  TraceInv'
  <2>1. at[t] = "init" /\ dbghlp_mutex = t /\ t # NoThread
        /\ UNCHANGED <<dbghlp_mutex, threw>>
    BY <1>4, StackTraceAssumption DEF SymInitialize
  <2>2. CASE ~initialized /\ initialized' = TRUE /\ at' = [at EXCEPT ![t] = "frames"]
    BY <2>1, <2>2
  <2>3. CASE initialized' = initialized /\ at' = [at EXCEPT ![t] = "unlock"]
    BY <2>1, <2>3
  <2>. QED BY <1>4, <2>2, <2>3 DEF SymInitialize, Goes
<1>5. ASSUME NEW t \in Capturers, SymFromAddr(t)
      PROVE  TraceInv'
  BY <1>5 DEF SymFromAddr
<1>6. ASSUME NEW t \in Capturers, BadAlloc(t)
      PROVE  TraceInv'
  BY <1>6, StackTraceAssumption DEF BadAlloc, Released, Goes
<1>7. ASSUME NEW t \in Capturers, SymCleanup(t)
      PROVE  TraceInv'
  BY <1>7, StackTraceAssumption DEF SymCleanup, CleanedUp, Goes
<1>8. ASSUME NEW t \in Capturers, Unlock(t)
      PROVE  TraceInv'
  BY <1>8, StackTraceAssumption DEF Unlock, Released, Goes
<1>. QED BY <1>1, <1>2, <1>3, <1>4, <1>5, <1>6, <1>7, <1>8
         DEF TraceNext, CapturesOn, Capturing

(* However many threads capture, one at a time is between SymInitialize()  *)
(* and SymCleanup(), and symbols stay loaded without an owner exactly when *)
(* a capture() threw there, after which no symbol is looked up any more.   *)
THEOREM DbgHelpHasOneOwner == TraceSpec => []OneOwnerOfDbgHelp
<1>1. TraceInv => OneOwnerOfDbgHelp
  BY DEF TraceInv, Owned, Loaded, Holding, OneOwnerOfDbgHelp
<1>. QED BY <1>1, TraceInvInit, TraceInvStep, PTL DEF TraceSpec

-----------------------------------------------------------------------------
(* Colours                                                                 *)

ColorObjects == [m_stream : ColoredStreams \cup {nullptr}, m_fg : Colors, m_bg : Colors \cup {nullptr}]
Shown == Colors \cup {DefaultColor}
ColorTypeOK ==
    /\ objects \in Seq(ColorObjects)
    /\ shows \in [ColoredStreams -> [fg : Shown, bg : Shown]]

(* No object, and every stream as it was opened.                           *)
LEMMA ColorTypesInit == ColorInit => ColorTypeOK /\ ColorsOfLiving
  BY EmptySeq DEF ColorInit, ColorTypeOK, ColorsOfLiving, NoColors, Shown

(* An object inserted: the others are what they were, and it shows.        *)
LEMMA InsertKeeps ==
  ASSUME ColorTypeOK, ColorsOfLiving, NEW i \in 1 .. Len(objects), NEW s \in ColoredStreams,
         Insert(i, s)
  PROVE  ColorTypeOK' /\ ColorsOfLiving'
<1> DEFINE fg == objects[i].m_fg
           bg == IF objects[i].m_bg = nullptr THEN shows[s].bg ELSE objects[i].m_bg
           moved == [objects[i] EXCEPT !.m_stream = s]
<1>1. objects[i] \in ColorObjects /\ Len(objects) \in Nat
  BY ElementOfSeq, LenProperties DEF ColorTypeOK
<1>2. /\ moved \in ColorObjects /\ moved.m_stream = s
      /\ moved.m_fg = objects[i].m_fg /\ moved.m_bg = objects[i].m_bg
  BY <1>1 DEF ColorObjects
<1>3. objects' = [objects EXCEPT ![i] = moved]
  BY DEF Insert
<1> HIDE DEF moved
<1>4. /\ objects' \in Seq(ColorObjects) /\ Len(objects') = Len(objects)
      /\ \A j \in 1 .. Len(objects) : objects'[j] = IF j = i THEN moved ELSE objects[j]
  BY <1>2, <1>3, ExceptSeq DEF ColorTypeOK
<1>5. fg \in Shown /\ bg \in Shown
  BY <1>1, ColorAssumption DEF ColorObjects, Shown, ColorTypeOK
<1>6. shows' = [shows EXCEPT ![s] = [fg |-> fg, bg |-> bg]]
  BY DEF Insert
<1> HIDE DEF fg, bg
<1>7. /\ shows'[s].fg = fg /\ shows'[s].bg = bg
      /\ \A r \in ColoredStreams : r # s => shows'[r] = shows[r]
      /\ shows' \in [ColoredStreams -> [fg : Shown, bg : Shown]]
  BY <1>5, <1>6 DEF ColorTypeOK
<1>8. left' = left \cup ({objects[i].m_stream} \ {nullptr, s})
  BY DEF Insert
<1>9. ASSUME NEW r \in ColoredStreams, r \notin left', r # s
      PROVE  \A j \in 1 .. Len(objects) : objects[j].m_stream = r => objects'[j] = objects[j]
  BY <1>4, <1>8, <1>9, ColorAssumption
<1>10. ASSUME NEW r \in ColoredStreams, r \notin left', r # s
       PROVE  /\ shows'[r].fg # DefaultColor =>
                   \E j \in 1 .. Len(objects') :
                      objects'[j].m_stream = r /\ objects'[j].m_fg = shows'[r].fg
              /\ shows'[r].bg # DefaultColor =>
                   \E j \in 1 .. Len(objects') :
                      objects'[j].m_stream = r /\ objects'[j].m_bg = shows'[r].bg
  <2>1. r \notin left /\ shows'[r] = shows[r] /\ Len(objects') = Len(objects)
    BY <1>4, <1>7, <1>8, <1>10
  <2>. QED BY <1>9, <1>10, <2>1 DEF ColorsOfLiving
<1>11. objects'[i].m_stream = s /\ objects'[i].m_fg = shows'[s].fg /\ i \in 1 .. Len(objects')
  BY <1>2, <1>4, <1>7 DEF fg
<1>12. ASSUME s \notin left', shows'[s].bg # DefaultColor
       PROVE  \E j \in 1 .. Len(objects') :
                 objects'[j].m_stream = s /\ objects'[j].m_bg = shows'[s].bg
  <2>1. CASE objects[i].m_bg = nullptr
    <3>1. shows'[s].bg = shows[s].bg /\ s \notin left
      BY <1>7, <1>8, <1>12, <2>1 DEF bg
    <3>2. PICK j \in 1 .. Len(objects) : objects[j].m_stream = s /\ objects[j].m_bg = shows[s].bg
      BY <1>12, <3>1 DEF ColorsOfLiving
    <3>3. objects'[j].m_stream = s /\ objects'[j].m_bg = shows'[s].bg
      BY <1>2, <1>4, <3>1, <3>2
    <3>. QED BY <1>4, <3>3
  <2>2. CASE objects[i].m_bg # nullptr
    <3>1. objects'[i].m_bg = shows'[s].bg
      BY <1>2, <1>4, <1>7, <2>2 DEF bg
    <3>. QED BY <1>11, <3>1
  <2>. QED BY <2>1, <2>2
<1>. QED BY <1>4, <1>7, <1>10, <1>11, <1>12 DEF ColorTypeOK, ColorsOfLiving

(* The youngest object dies: its stream is reset, others keep their own.   *)
LEMMA DestroyKeeps ==
  ASSUME ColorTypeOK, ColorsOfLiving, Destroy
  PROVE  ColorTypeOK' /\ ColorsOfLiving'
<1>1. /\ objects # <<>> /\ left' = left
      /\ objects' = SubSeq(objects, 1, Len(objects) - 1)
  BY DEF Destroy
<1>2. /\ objects' \in Seq(ColorObjects) /\ Len(objects') = Len(objects) - 1
      /\ Len(objects) \in Nat \ {0}
  BY <1>1, ButLast DEF ColorTypeOK
<1>3. \A j \in 1 .. Len(objects) - 1 : objects'[j] = objects[j]
  BY <1>1, SubSeqElements DEF ColorTypeOK
<1> DEFINE stream == objects[Len(objects)].m_stream
<1>4. shows' = [s \in ColoredStreams |-> IF s = stream THEN NoColors ELSE shows[s]]
  BY DEF Destroy, ResetFrom
<1>5. shows' \in [ColoredStreams -> [fg : Shown, bg : Shown]]
  BY <1>4 DEF ColorTypeOK, NoColors, Shown
<1>6. ASSUME NEW r \in ColoredStreams, r \notin left
      PROVE  /\ shows'[r].fg # DefaultColor =>
                  \E j \in 1 .. Len(objects') :
                     objects'[j].m_stream = r /\ objects'[j].m_fg = shows'[r].fg
             /\ shows'[r].bg # DefaultColor =>
                  \E j \in 1 .. Len(objects') :
                     objects'[j].m_stream = r /\ objects'[j].m_bg = shows'[r].bg
  <2>1. CASE r = stream
    BY <1>4, <2>1 DEF NoColors
  <2>2. CASE r # stream
    <3>1. shows'[r] = shows[r]
      BY <1>4, <2>2
    <3>2. \A j \in 1 .. Len(objects) :
             objects[j].m_stream = r => j \in 1 .. Len(objects') /\ objects'[j] = objects[j]
      BY <1>2, <1>3, <2>2
    <3>. QED BY <1>6, <3>1, <3>2 DEF ColorsOfLiving
  <2>. QED BY <2>1, <2>2
<1>. QED BY <1>1, <1>2, <1>5, <1>6 DEF ColorTypeOK, ColorsOfLiving

(* A new object shows nothing yet.                                         *)
LEMMA ConstructKeeps ==
  ASSUME ColorTypeOK, ColorsOfLiving, ConstructColor
  PROVE  ColorTypeOK' /\ ColorsOfLiving'
<1>1. PICK fg \in Colors, bg \in Colors \cup {nullptr} :
         objects' = Append(objects, [m_stream |-> nullptr, m_fg |-> fg, m_bg |-> bg])
  BY DEF ConstructColor
<1> DEFINE new == [m_stream |-> nullptr, m_fg |-> fg, m_bg |-> bg]
<1>2. new \in ColorObjects
  BY DEF ColorObjects
<1> HIDE DEF new
<1>3. objects' = Append(objects, new)
  BY <1>1 DEF new
<1>4. /\ objects' \in Seq(ColorObjects) /\ Len(objects') = Len(objects) + 1
      /\ \A j \in 1 .. Len(objects) : objects'[j] = objects[j]
      /\ Len(objects) \in Nat
  BY <1>2, <1>3, AppendProperties, LenProperties DEF ColorTypeOK
<1>5. \A j \in 1 .. Len(objects) : j \in 1 .. Len(objects') /\ objects'[j] = objects[j]
  BY <1>4
<1>6. UNCHANGED <<shows, left>>
  BY DEF ConstructColor
<1>. QED BY <1>4, <1>5, <1>6 DEF ColorTypeOK, ColorsOfLiving

(* Construction, insertion and destruction keep the colours right.         *)
LEMMA ColorsStep ==
  ColorTypeOK /\ ColorsOfLiving /\ [ColorNext]_colorVars => (ColorTypeOK /\ ColorsOfLiving)'
<1>1. CASE UNCHANGED colorVars
  BY <1>1 DEF colorVars, ColorTypeOK, ColorsOfLiving
<1>. QED BY <1>1, InsertKeeps, DestroyKeeps, ConstructKeeps DEF ColorNext

(* However many objects are nested, over however many streams, the colours *)
(* of a stream are those of an object that lives and was inserted there.   *)
THEOREM ColorsEnd == ColorSpec => []ColorsOfLiving
  BY ColorTypesInit, ColorsStep, PTL DEF ColorSpec

-----------------------------------------------------------------------------
(* Macros                                                                  *)

(* Both ways of counting give the number of parameters.                    *)
LEMMA CountIsLength ==
  ASSUME NEW ps \in Seq(Shapes), Len(ps) \in 0 .. 10
  PROVE  NumArgs(ArgsOf(ps)) = Len(ps) /\ NumArgsMsvc(ArgsOf(ps)) = Len(ps)
<1> DEFINE arguments == ArgsOf(ps)
           n == Len(arguments)
           Parts == Shapes \cup {"empty", "unused"} \cup Nat
<1>1. /\ arguments \in Seq(Parts) /\ n \in 1 .. 10 /\ arguments[1] \in Shapes \cup {"empty"}
      /\ \/ arguments = <<"empty">> /\ Len(ps) = 0
         \/ arguments # <<"empty">> /\ Len(ps) = n /\ (n = 1 => arguments[1] # "empty")
  <2>1. CASE ps = <<>>
    BY <2>1 DEF ArgsOf
  <2>2. CASE ps # <<>>
    <3>1. arguments = ps
      BY <2>2 DEF ArgsOf
    <3>2. Len(ps) \in 1 .. 10
      BY <2>2, EmptySeq
    <3>3. ps[1] \in Shapes
      BY <3>2, ElementOfSeq
    <3>4. ps[1] # "empty"
      BY <3>3 DEF Shapes
    <3>5. ps # <<"empty">>
      BY <3>4
    <3>6. ps \in Seq(Parts)
      BY SeqMonotonic
    <3>. QED BY <3>1, <3>2, <3>3, <3>4, <3>5, <3>6
  <2>. QED BY <2>1, <2>2
<1> HIDE DEF arguments, n, Parts
<1>2. NumArgs(arguments) = Len(ps)
  <2> DEFINE rseq == [i \in 1 .. 17 |-> IF i <= 15 THEN 17 - i ELSE ZeroOrOne(arguments)]
  <2>1. ZeroOrOne(arguments) \in {0, 1}
    BY DEF ZeroOrOne
  <2>2. rseq \in Seq(Parts) /\ Len(rseq) = 17
    <3>1. \A i \in 1 .. 17 : rseq[i] \in Nat
      BY <2>1
    <3>2. rseq \in Seq(Nat) /\ Len(rseq) = 17
      BY <3>1
    <3>. QED BY <3>2, SeqMonotonic DEF Parts
  <2>3. rseq[17 - n] = IF n > 1 THEN n ELSE ZeroOrOne(arguments)
    BY <1>1
  <2>4. NumArgs(arguments) = (arguments \o rseq)[17]
    BY DEF NumArgs
  <2> HIDE DEF rseq
  <2>5. \A i \in 1 .. Len(arguments) + Len(rseq) :
           (arguments \o rseq)[i] = IF i <= Len(arguments) THEN arguments[i]
                                    ELSE rseq[i - Len(arguments)]
    BY <1>1, <2>2, ConcatProperties
  <2>6. 17 \in 1 .. n + 17 /\ ~(17 <= n)
    BY <1>1
  <2>7. NumArgs(arguments) = IF n > 1 THEN n ELSE ZeroOrOne(arguments)
    BY <2>2, <2>3, <2>4, <2>5, <2>6 DEF n
  <2>8. n = 1 => ZeroOrOne(arguments) = IF arguments[1] = "empty" THEN 0 ELSE 1
    BY <1>1 DEF ZeroOrOne, IsEmpty, Shapes, n
  <2>9. arguments = <<"empty">> => n = 1 /\ arguments[1] = "empty"
    BY DEF n
  <2>. QED BY <1>1, <2>7, <2>8, <2>9
<1>3. NumArgsMsvc(arguments) = Len(ps)
  <2> DEFINE rest == IF arguments = <<"empty">> THEN <<>> ELSE arguments
             all == <<"unused">> \o rest
             rseq == [i \in 1 .. 11 |-> 11 - i]
  <2>1. rest \in Seq(Parts) /\ Len(rest) = Len(ps)
    BY <1>1, EmptySeq DEF n
  <2>2. all \in Seq(Parts) /\ Len(all) = 1 + Len(ps)
    <3>1. <<"unused">> \in Seq(Parts) /\ Len(<<"unused">>) = 1
      BY DEF Parts
    <3>. QED BY <2>1, <3>1, ConcatProperties
  <2>3. rseq \in Seq(Parts) /\ Len(rseq) = 11
    <3>1. \A i \in 1 .. 11 : rseq[i] \in Nat
      OBVIOUS
    <3>2. rseq \in Seq(Nat) /\ Len(rseq) = 11
      BY <3>1
    <3>. QED BY <3>2, SeqMonotonic DEF Parts
  <2>5. rseq[12 - (1 + Len(ps))] = Len(ps)
    <3>1. \A k \in 0 .. 10 : rseq[12 - (1 + k)] = k
      OBVIOUS
    <3>. QED BY <3>1
  <2>6. NumArgsMsvc(arguments) = (all \o rseq)[12]
    BY DEF NumArgsMsvc
  <2> HIDE DEF all, rseq
  <2>7. \A i \in 1 .. Len(all) + Len(rseq) :
           (all \o rseq)[i] = IF i <= Len(all) THEN all[i] ELSE rseq[i - Len(all)]
    <3>1. all \in Seq(Parts) /\ rseq \in Seq(Parts)
      BY <2>2, <2>3
    <3>. QED BY <3>1, ConcatProperties
  <2>8. 12 \in 1 .. (1 + Len(ps)) + 11 /\ ~(12 <= 1 + Len(ps))
    <3>1. \A k \in 0 .. 10 : 12 \in 1 .. (1 + k) + 11 /\ ~(12 <= 1 + k)
      OBVIOUS
    <3>. QED BY <3>1
  <2>. QED BY <2>2, <2>3, <2>5, <2>6, <2>7, <2>8
<1>. QED BY <1>2, <1>3 DEF arguments

(* The parameters stay, and are counted.                                   *)
MacrosInv ==
    /\ params \in Seq(Shapes) /\ Len(params) \in 0 .. 10
    /\ count = -1 \/ count = Len(params)

(* Nothing is defined or counted yet.                                      *)
LEMMA MacrosInvInit == MacrosInit => MacrosInv
<1>. SUFFICES ASSUME MacrosInit
              PROVE  MacrosInv
  OBVIOUS
<1>1. params \in Seq(Shapes) /\ Len(params) \in 0 .. 10
  <2>1. PICK n \in 0 .. MaxParams : params \in [1 .. n -> Shapes]
    BY DEF MacrosInit, Declarable, BoundedSeq, SeqOf
  <2>2. n \in Nat /\ n \in 0 .. 10
    BY <2>1, MacrosAssumption
  <2>3. params \in Seq(Shapes)
    BY <2>1, <2>2, SeqDef
  <2>4. Len(params) = n
    BY <2>1, <2>2, <2>3, LenProperties
  <2>. QED BY <2>2, <2>3, <2>4
<1>. QED BY <1>1 DEF MacrosInit, MacrosInv

(* Only the declaration counts.                                            *)
LEMMA MacrosInvStep == MacrosInv /\ [MacrosNext]_macrosVars => MacrosInv'
<1>. SUFFICES ASSUME MacrosInv, [MacrosNext]_macrosVars
              PROVE  MacrosInv'
  OBVIOUS
<1>1. CASE UNCHANGED macrosVars
  BY <1>1 DEF macrosVars, MacrosInv
<1>2. CASE Declare
  <2>1. count' = Len(params) /\ params' = params
    BY <1>2, CountIsLength DEF Declare, MacrosInv
  <2>. QED BY <2>1 DEF MacrosInv
<1>3. CASE Call
  BY <1>3 DEF Call, MacrosInv
<1>. QED BY <1>1, <1>2, <1>3 DEF MacrosNext

(* The preprocessor counts the parameters that are declared, whichever of  *)
(* the two ways is compiled.                                               *)
THEOREM ParametersAreCounted == MacrosSpec => []ParametersCounted
<1>1. MacrosInv => ParametersCounted
  BY DEF MacrosInv, ParametersCounted
<1>. QED BY <1>1, MacrosInvInit, MacrosInvStep, PTL DEF MacrosSpec

-----------------------------------------------------------------------------
(* The command line                                                        *)

(* Items and keys are strings, and npos is longer than each item.          *)
LEMMA StringLengths ==
  ASSUME NEW item \in Items, NEW k \in Keys
  PROVE  /\ item \in Seq(STRING) /\ k \in Seq(STRING)
         /\ Len(item) \in Nat /\ Len(k) \in Nat /\ Len(item) < npos /\ npos \in Nat
<1>1. item \in Seq(STRING) /\ k \in Seq(STRING)
  BY ArgsAssumption
<1>. QED BY <1>1, ArgsAssumption, LenProperties

(* rfind() at position 0 alone finds a prefix, and it alone.               *)
LEMMA StartsWithIsPrefix ==
  ASSUME NEW item \in Items, NEW k \in Keys
  PROVE  StartsWith(item, k) <=> IsPrefix(k, item)
<1> DEFINE places == {p \in 0 .. (Len(item) - Len(k)) :
                         p <= 0 /\ SubSeq(item, p + 1, p + Len(k)) = k}
<1>1. /\ item \in Seq(STRING) /\ k \in Seq(STRING)
      /\ Len(item) \in Nat /\ Len(k) \in Nat /\ npos # 0
  BY StringLengths
<1>2. SubSeq(k, 1, Len(k)) = k
  BY <1>1, SubSeqFull
<1>3. IsPrefix(k, item) <=> Len(k) <= Len(item) /\ SubSeq(item, 1, Len(k)) = k
  BY <1>2 DEF IsPrefix
<1>4. 0 + 1 = 1 /\ 0 + Len(k) = Len(k)
  BY <1>1
<1>5. CASE IsPrefix(k, item)
  <2>1. places = {0}
    <3>1. 0 \in 0 .. (Len(item) - Len(k))
      BY <1>1, <1>3, <1>5
    <3>2. 0 \in places
      BY <1>3, <1>4, <1>5, <3>1
    <3>3. \A p \in places : p = 0
      OBVIOUS
    <3> HIDE DEF places
    <3>. QED BY <3>2, <3>3
  <2>2. Max({0}) = 0
    BY DEF Max
  <2>3. Final(places) = 0
    BY <2>1, <2>2 DEF Final
  <2>. QED BY <1>5, <2>3 DEF StartsWith, Rfind
<1>6. CASE ~IsPrefix(k, item)
  <2>1. places = {}
    <3>1. SUFFICES ASSUME NEW p \in places
                   PROVE  FALSE
      OBVIOUS
    <3>2. p = 0 /\ p \in 0 .. (Len(item) - Len(k))
      OBVIOUS
    <3>3. Len(k) <= Len(item)
      BY <1>1, <3>2
    <3>4. SubSeq(item, 1, Len(k)) = k
      BY <1>4, <3>2
    <3>. QED BY <1>3, <1>6, <3>3, <3>4
  <2>2. Final(places) = npos
    BY <2>1 DEF Final
  <2>. QED BY <1>1, <1>6, <2>2 DEF StartsWith, Rfind
<1>. QED BY <1>5, <1>6

(* substr() to the end is what follows the key.                            *)
LEMMA RemainderFollows ==
  ASSUME NEW item \in Items, key \in Keys
  PROVE  Remainder(item) = SubSeq(item, Len(key) + 1, Len(item))
<1>1. Len(item) \in Nat /\ Len(key) \in Nat /\ Len(item) <= Len(key) + npos /\ npos \in Nat
  BY StringLengths
<1>2. Min({Len(item), Len(key) + npos}) = Len(item)
  BY <1>1, MinOfTwo
<1>. QED BY <1>2 DEF Remainder, Substr

Follows(a) == SubSeq(args[a], Len(key) + 1, Len(args[a]))
Matches(a) == IsPrefix(key, args[a])

(* What has been returned, and the items that were passed over.            *)
ArgsInv ==
    /\ args \in Seq(Items) /\ key \in Keys
    /\ first \in 0 .. Len(args) /\ looking \in {"value", "key", "no"}
    /\ looking = "value" => key_value = None /\ \A a \in 1 .. first : ~Matches(a)
    /\ looking # "no" => has_key = None
    /\ looking # "value" =>
         \/ key_value = <<{}>> /\ \A a \in 1 .. Len(args) : ~Matches(a)
         \/ \E a \in 1 .. Len(args) :
              /\ Matches(a) /\ \A b \in 1 .. Len(args) : Matches(b) => a <= b
              /\ key_value = <<{Follows(a)}>>
    /\ has_key = <<TRUE>> => \E b \in 1 .. Len(args) : args[b] = key

(* No lookup has begun.                                                    *)
LEMMA ArgsInvInit == ArgsInit => ArgsInv
<1>. SUFFICES ASSUME ArgsInit
              PROVE  ArgsInv
  OBVIOUS
<1>1. PICK n \in 0 .. MaxArgs : args \in [1 .. n -> Items]
  BY DEF ArgsInit, BoundedSeq, SeqOf
<1>2. n \in Nat
  BY <1>1, ArgsAssumption
<1>3. args \in Seq(Items)
  BY <1>1, <1>2, SeqDef
<1>4. Len(args) \in Nat
  BY <1>3, LenProperties
<1>5. has_key # <<TRUE>>
  BY DEF ArgsInit, None
<1>6. first \in 0 .. Len(args) /\ \A a \in 1 .. first : ~Matches(a)
  BY <1>4 DEF ArgsInit
<1>7. /\ key \in Keys /\ looking = "value"
      /\ key_value = None /\ has_key = None
  BY DEF ArgsInit
<1>. QED BY <1>3, <1>5, <1>6, <1>7 DEF ArgsInv

(* find_if's loop has passed only items that do not match.                 *)
LEMMA ArgsInvStep == ArgsInv /\ [ArgsNext]_argsVars => ArgsInv'
<1>. SUFFICES ASSUME ArgsInv, [ArgsNext]_argsVars
              PROVE  ArgsInv'
  OBVIOUS
<1>0. /\ args \in Seq(Items) /\ key \in Keys /\ Len(args) \in Nat
      /\ \A a \in 1 .. Len(args) : args[a] \in Items
  BY ElementOfSeq, LenProperties DEF ArgsInv
<1>1. \A a \in 1 .. Len(args) : StartsWith(args[a], key) <=> Matches(a)
  BY <1>0, StartsWithIsPrefix DEF Matches
<1>2. CASE UNCHANGED argsVars
  BY <1>2 DEF argsVars, ArgsInv, Matches, Follows
<1>3. CASE FindIfStep
  <2>1. /\ UNCHANGED <<args, key, looking, key_value, has_key>>
        /\ first' = first + 1 /\ first # Len(args) /\ ~Pred(args[first + 1]) /\ looking # "no"
    BY <1>3 DEF FindIfStep, AtEnd, Found, Advanced
  <2>2. first' \in 0 .. Len(args') /\ first + 1 \in 1 .. Len(args) /\ first \in Nat
    BY <1>0, <2>1 DEF ArgsInv
  <2>3. ASSUME looking = "value"
        PROVE  \A a \in 1 .. first' : ~Matches(a)
    <3>1. ~Matches(first + 1)
      BY <1>1, <2>1, <2>2, <2>3 DEF Pred
    <3>2. \A a \in 1 .. first' : a \in 1 .. first \/ a = first + 1
      BY <2>1, <2>2
    <3>. QED BY <2>3, <3>1, <3>2 DEF ArgsInv
  <2>. QED BY <2>1, <2>2, <2>3 DEF ArgsInv, Matches, Follows
<1>4. CASE KeyValue
  <2>0. /\ UNCHANGED <<args, key, has_key>> /\ looking = "value" /\ looking' = "key"
        /\ first' = 0
    BY <1>4 DEF KeyValue
  <2>1. /\ Found \/ AtEnd
        /\ key_value' = <<IF Found THEN {Remainder(args[first + 1])} ELSE {}>>
    BY <1>4 DEF KeyValue
  <2>2. \A a \in 1 .. first : ~Matches(a)
    BY <2>0 DEF ArgsInv
  <2>5. /\ args' \in Seq(Items) /\ key' \in Keys /\ first' \in 0 .. Len(args')
        /\ looking' # "value" /\ looking' \in {"value", "key", "no"}
    BY <1>0, <2>0
  <2>6. has_key' = None /\ has_key' # <<TRUE>>
    <3>1. has_key = None
      BY <2>0 DEF ArgsInv
    <3>. QED BY <2>0, <3>1 DEF None
  <2>3. CASE Found
    <3>1. first + 1 \in 1 .. Len(args) /\ first \in Nat
      BY <1>0, <2>3 DEF Found, AtEnd, ArgsInv
    <3>2. Matches(first + 1)
      BY <1>1, <2>0, <2>3, <3>1 DEF Found, Pred
    <3>3. key_value' = <<{Follows(first + 1)}>>
      BY <1>0, <2>1, <2>3, <3>1, RemainderFollows DEF Follows
    <3>4. \A b \in 1 .. Len(args) : Matches(b) => first + 1 <= b
      BY <1>0, <2>2, <3>1
    <3>. QED BY <2>0, <2>5, <2>6, <3>1, <3>2, <3>3, <3>4 DEF ArgsInv, Matches, Follows
  <2>4. CASE ~Found
    <3>1. first = Len(args) /\ key_value' = <<{}>>
      BY <2>1, <2>4 DEF AtEnd
    <3>. QED BY <2>0, <2>2, <2>5, <2>6, <3>1 DEF ArgsInv, Matches, Follows
  <2>. QED BY <2>3, <2>4
<1>5. CASE HasKey
  <2>1. /\ UNCHANGED <<args, key, first, key_value>> /\ looking = "key" /\ looking' = "no"
        /\ Found \/ AtEnd
    BY <1>5 DEF HasKey
  <2>2. PICK value \in BOOLEAN : has_key' = <<value>> /\ (value <=> ~AtEnd)
    BY <1>5 DEF HasKey
  <2>3. ASSUME has_key' = <<TRUE>>
        PROVE  \E b \in 1 .. Len(args) : args[b] = key
    <3>0. value = TRUE
      <4>1. <<value>> = <<TRUE>>
        BY <2>2, <2>3
      <4>. QED BY <4>1
    <3>1. ~AtEnd
      BY <2>2, <3>0
    <3>2. first + 1 \in 1 .. Len(args) /\ args[first + 1] = key
      BY <1>0, <2>1, <3>1 DEF Found, AtEnd, Pred, ArgsInv
    <3>. QED BY <3>2
  <2>. QED BY <2>1, <2>3 DEF ArgsInv, Matches, Follows
<1>. QED BY <1>2, <1>3, <1>4, <1>5 DEF ArgsNext

(* The value of a key follows it in the first item that starts with it,    *)
(* and a key that is present has a value: for any command line.            *)
THEOREM LookupsDoAgree == ArgsSpec => []LookupsAgree
<1>1. ArgsInv => LookupsAgree
  <2>. SUFFICES ASSUME ArgsInv
                PROVE  LookupsAgree
    OBVIOUS
  <2> DEFINE matches == {a \in 1 .. Len(args) : IsPrefix(key, args[a])}
             firsts == {b \in matches : \A c \in matches : b <= c}
  <2>1. ASSUME key_value # None
        PROVE  key_value[1] = {Follows(a) : a \in firsts}
    <3>1. CASE key_value = <<{}>> /\ \A a \in 1 .. Len(args) : ~Matches(a)
      BY <3>1 DEF Matches
    <3>2. ASSUME NEW a \in 1 .. Len(args), Matches(a),
                 \A b \in 1 .. Len(args) : Matches(b) => a <= b,
                 key_value = <<{Follows(a)}>>
          PROVE  key_value[1] = {Follows(b) : b \in firsts}
      <4>1. a \in firsts
        BY <3>2 DEF Matches
      <4>2. \A b \in firsts : b = a
        BY <3>2 DEF Matches
      <4> HIDE DEF firsts
      <4>. QED BY <3>2, <4>1, <4>2
    <3>. QED BY <2>1, <3>1, <3>2 DEF ArgsInv
  <2>2. ASSUME has_key = <<TRUE>>
        PROVE  /\ key_value[1] # {}
               /\ key_value[1] = {<<>>} \/ \E a, b \in 1 .. Len(args) :
                    a < b /\ args[b] = key /\ IsStrictPrefix(key, args[a])
    <3>1. PICK b \in 1 .. Len(args) : args[b] = key
      BY <2>2 DEF ArgsInv
    <3>2. key \in Seq(STRING) /\ Len(key) \in Nat
      BY ArgsAssumption, LenProperties DEF ArgsInv
    <3>3. Matches(b)
      BY <3>1, <3>2 DEF Matches, IsPrefix
    <3>4. looking # "value"
      BY <2>2 DEF ArgsInv, None
    <3>5. PICK a \in 1 .. Len(args) :
             /\ Matches(a) /\ key_value = <<{Follows(a)}>>
             /\ \A c \in 1 .. Len(args) : Matches(c) => a <= c
      BY <3>3, <3>4 DEF ArgsInv
    <3>6. CASE args[a] = key
      <4>1. Follows(a) = <<>>
        BY <3>2, <3>6, SubSeqEmpty DEF Follows
      <4>. QED BY <3>5, <4>1
    <3>7. CASE args[a] # key
      <4>1. a < b /\ IsStrictPrefix(key, args[a])
        BY <3>1, <3>3, <3>5, <3>7 DEF Matches, IsStrictPrefix
      <4>. QED BY <3>1, <3>5, <4>1
    <3>. QED BY <3>6, <3>7
  <2>. QED BY <2>1, <2>2 DEF LookupsAgree, Follows
<1>. QED BY <1>1, ArgsInvInit, ArgsInvStep, PTL DEF ArgsSpec

-----------------------------------------------------------------------------
(* State scopes: those that save what they find restore the global at any  *)
(* depth, whatever throws but the enter_action of a scope at that depth.   *)

(* What code sees when the scopes open have set e: the innermost value, or *)
(* the one from outside.                                                   *)
Seen(e, o) == IF e = <<>> THEN o ELSE e[Len(e)]

(* Every exit value is what the scope around it set, unless an enter       *)
(* action had left something else there.                                   *)
Chained(s, e, o, h) ==
    /\ Len(s) = Len(e) /\ h \subseteq 0 .. Len(s)
    /\ \A i \in 1..Len(s) :
          i - 1 \notin h => s[i] = IF i = 1 THEN o ELSE e[i - 1]

(* A scope that saves what is seen continues the chain.                    *)
LEMMA OpenChained ==
    ASSUME NEW s \in Seq(States), NEW e \in Seq(States), NEW o \in States, NEW h,
           NEW v \in States, NEW x \in States, Chained(s, e, o, h),
           Len(s) \notin h => x = Seen(e, o)
    PROVE  /\ Chained(Append(s, x), Append(e, v), o, h)
           /\ Append(s, x) \in Seq(States) /\ Append(e, v) \in Seq(States)
           /\ Len(Append(s, x)) = Len(s) + 1 /\ Len(s) + 1 \notin h
           /\ Seen(Append(e, v), o) = v
<1>1. Len(e) \in Nat /\ Len(s) = Len(e) /\ h \subseteq 0 .. Len(s)
    BY DEF Chained
<1>3. /\ Append(e, v) \in Seq(States) /\ Len(Append(e, v)) = Len(e) + 1
      /\ \A i \in 1..Len(e) : Append(e, v)[i] = e[i]
      /\ Append(e, v)[Len(e) + 1] = v
    BY AppendProperties
<1>4. /\ Append(s, x) \in Seq(States) /\ Len(Append(s, x)) = Len(s) + 1
      /\ \A i \in 1..Len(s) : Append(s, x)[i] = s[i]
      /\ Append(s, x)[Len(s) + 1] = x
    BY AppendProperties
<1>5. Append(e, v) # <<>>
    <2>1. Len(Append(e, v)) # 0
        BY <1>1, <1>3
    <2> QED BY <1>3, <2>1, EmptySeq
<1>6. Seen(Append(e, v), o) = v
    BY <1>3, <1>5 DEF Seen
<1>7. ASSUME NEW i \in 1..(Len(s) + 1), i - 1 \notin h
      PROVE  Append(s, x)[i] = IF i = 1 THEN o ELSE Append(e, v)[i - 1]
    <2>1. CASE i <= Len(s)
        BY <1>1, <1>3, <1>4, <1>7, <2>1 DEF Chained
    <2>2. CASE i = Len(s) + 1
        <3>1. x = Seen(e, o)
            BY <1>1, <1>7, <2>2
        <3> QED BY <1>1, <1>3, <1>4, <2>2, <3>1, EmptySeq DEF Seen
    <2> QED BY <1>1, <2>1, <2>2
<1>8. h \subseteq 0 .. (Len(s) + 1) /\ Len(s) + 1 \notin h
    BY <1>1
<1> QED BY <1>1, <1>3, <1>4, <1>6, <1>7, <1>8 DEF Chained

(* When the innermost scope ends, what it saved is seen again, and what an *)
(* enter action left in it is gone.                                        *)
LEMMA CloseChained ==
    ASSUME NEW s \in Seq(States), NEW e \in Seq(States), NEW o \in States, NEW h,
           Chained(s, e, o, h), s # <<>>
    PROVE  /\ Chained(SubSeq(s, 1, Len(s) - 1), SubSeq(e, 1, Len(e) - 1), o, h \ {Len(s)})
           /\ SubSeq(s, 1, Len(s) - 1) \in Seq(States)
           /\ SubSeq(e, 1, Len(e) - 1) \in Seq(States)
           /\ Len(SubSeq(s, 1, Len(s) - 1)) = Len(s) - 1
           /\ Len(s) - 1 \notin h => Seen(SubSeq(e, 1, Len(e) - 1), o) = s[Len(s)]
<1>1. Len(s) \in Nat \ {0} /\ Len(e) = Len(s) /\ e # <<>> /\ h \subseteq 0 .. Len(s)
    BY EmptySeq DEF Chained
<1> DEFINE s2 == SubSeq(s, 1, Len(s) - 1)
           e2 == SubSeq(e, 1, Len(e) - 1)
<1>2. /\ s2 \in Seq(States) /\ Len(s2) = Len(s) - 1
      /\ e2 \in Seq(States) /\ Len(e2) = Len(e) - 1
    BY <1>1, ButLast
<1>3. \A i \in 1..(Len(s) - 1) : s2[i] = s[i] /\ e2[i] = e[i]
    BY <1>1, SubSeqProperties
<1> HIDE DEF s2, e2
<1>4. Chained(s2, e2, o, h \ {Len(s)})
    <2>1. h \ {Len(s)} \subseteq 0 .. (Len(s) - 1)
        <3>1. \A i \in 0 .. Len(s) : i # Len(s) => i \in 0 .. (Len(s) - 1)
            BY <1>1
        <3> QED BY <1>1, <3>1
    <2>2. ASSUME NEW i \in 1..(Len(s) - 1), i - 1 \notin h \ {Len(s)}
          PROVE  s2[i] = IF i = 1 THEN o ELSE e2[i - 1]
        <3>1. i \in 1..Len(s) /\ i - 1 # Len(s) /\ i - 1 \notin h
            BY <1>1, <2>2
        <3>2. i # 1 => i - 1 \in 1..(Len(s) - 1)
            BY <1>1
        <3> QED BY <1>3, <3>1, <3>2 DEF Chained
    <2> QED BY <1>1, <1>2, <2>1, <2>2 DEF Chained
<1>5. ASSUME Len(s) - 1 \notin h PROVE Seen(e2, o) = s[Len(s)]
    <2>0. s[Len(s)] = IF Len(s) = 1 THEN o ELSE e[Len(s) - 1]
        BY <1>1, <1>5 DEF Chained
    <2>1. CASE Len(s) = 1
        BY <1>1, <1>2, <2>0, <2>1, EmptySeq DEF Seen
    <2>2. CASE Len(s) > 1
        <3>1. e2 # <<>> /\ Len(e2) \in 1..(Len(s) - 1)
            BY <1>1, <1>2, <2>2, EmptySeq
        <3> QED BY <1>1, <1>2, <1>3, <2>0, <2>2, <3>1 DEF Seen
    <2> QED BY <1>1, <2>1, <2>2
<1> QED BY <1>2, <1>4, <1>5 DEF s2, e2

(* A value set in the innermost scope is seen, and saved by none.          *)
LEMMA SetChained ==
    ASSUME NEW s \in Seq(States), NEW e \in Seq(States), NEW o \in States, NEW h,
           NEW v \in States, Chained(s, e, o, h), s # <<>>
    PROVE  /\ Chained(s, [e EXCEPT ![Len(e)] = v], o, h \ {Len(s)})
           /\ [e EXCEPT ![Len(e)] = v] \in Seq(States)
           /\ Seen([e EXCEPT ![Len(e)] = v], o) = v
<1>1. Len(s) \in Nat \ {0} /\ Len(e) = Len(s) /\ h \subseteq 0 .. Len(s)
    BY EmptySeq DEF Chained
<1> DEFINE e2 == [e EXCEPT ![Len(e)] = v]
<1>2. /\ e2 \in Seq(States) /\ Len(e2) = Len(e) /\ e2[Len(e)] = v
      /\ \A i \in 1..(Len(e) - 1) : e2[i] = e[i]
    BY <1>1, ExceptSeq
<1> HIDE DEF e2
<1>3. e2 # <<>>
    BY <1>1, <1>2, EmptySeq
<1>4. Chained(s, e2, o, h \ {Len(s)})
    <2>1. ASSUME NEW i \in 1..Len(s), i - 1 \notin h \ {Len(s)}
          PROVE  s[i] = IF i = 1 THEN o ELSE e2[i - 1]
        <3>1. i - 1 # Len(s) /\ i - 1 \notin h
            BY <1>1, <2>1
        <3>2. i # 1 => i - 1 \in 1..(Len(e) - 1)
            BY <1>1
        <3> QED BY <1>2, <3>1, <3>2 DEF Chained
    <2> QED BY <1>1, <1>2, <2>1 DEF Chained
<1>5. Seen(e2, o) = v
    BY <1>2, <1>3 DEF Seen
<1> QED BY <1>2, <1>4, <1>5 DEF e2

-----------------------------------------------------------------------------
(* The scopes are chained, and the global is what the innermost one set,   *)
(* or an enter action under way knows what that was.                       *)
ScopesInv ==
    /\ ScopesTypeOK
    /\ entered \in Seq(States)
    /\ Chained(scopes, entered, outside, half)
    /\ Len(scopes) \notin half =>
          /\ entering = Nothing => instance = Seen(entered, outside)
          /\ entering # Nothing => entering = <<Seen(entered, outside)>>

(* The invariant holds in the beginning.                                   *)
LEMMA ScopesInvInit == ScopesInit => ScopesInv
<1> SUFFICES ASSUME ScopesInit PROVE ScopesInv
    OBVIOUS
<1>1. scopes \in Seq(States) /\ entered \in Seq(States) /\ Len(scopes) = 0
    BY EmptySeq DEF ScopesInit
<1>2. Chained(scopes, entered, outside, half)
    BY <1>1 DEF ScopesInit, Chained
<1> QED BY <1>1, <1>2, ScopesAssumption DEF ScopesInit, ScopesInv, ScopesTypeOK, Seen, Nothing

(* A scope opens, or an enter action begins or returns.                    *)
LEMMA OpenStep ==
    ASSUME Saves, ScopesInv, OpenValue \/ OpenAction \/ EnterReturns
    PROVE  ScopesInv'
<1> USE DEF ScopesInv, ScopesTypeOK
<1>1. ASSUME OpenValue PROVE ScopesInv'
    <2>1. PICK v \in States : /\ scopes' = Append(scopes, instance)
                              /\ instance' = v /\ entered' = Append(entered, v)
        BY <1>1 DEF OpenValue, AnExitFor
    <2>2. /\ entering = Nothing
          /\ UNCHANGED <<entering, unwinding, terminated, outside, half>>
        BY <1>1 DEF OpenValue, Idle
    <2>3. Len(scopes) \notin half => instance = Seen(entered, outside)
        BY <2>2
    <2>4. /\ Chained(scopes', entered', outside, half) /\ Seen(entered', outside) = v
          /\ scopes' \in Seq(States) /\ entered' \in Seq(States)
        BY <2>1, <2>3, OpenChained
    <2>5. Len(entered') = Len(scopes') /\ half \subseteq 0 .. Len(scopes')
        BY <2>4 DEF Chained
    <2> QED BY <2>1, <2>2, <2>4, <2>5
<1>2. ASSUME OpenAction PROVE ScopesInv'
    <2>1. PICK v \in States : entering' = <<instance>> /\ instance' = v
        BY <1>2 DEF OpenAction, AnExitFor
    <2>2. /\ entering = Nothing
          /\ UNCHANGED <<scopes, unwinding, terminated, outside, entered, half>>
        BY <1>2 DEF OpenAction, Idle, histories
    <2>3. entering' # Nothing
        BY <2>1 DEF Nothing
    <2> QED BY <2>1, <2>2, <2>3
<1>3. ASSUME EnterReturns PROVE ScopesInv'
    <2>1. PICK x \in States : /\ entering = <<x>>
                              /\ Len(scopes) \notin half => x = Seen(entered, outside)
        BY <1>3 DEF EnterReturns, Nothing
    <2>2. /\ scopes' = scopes \o <<x>> /\ entering' = Nothing
          /\ entered' = Append(entered, instance)
          /\ UNCHANGED <<instance, unwinding, terminated, outside, half>>
        BY <1>3, <2>1 DEF EnterReturns
    <2>3. scopes \o <<x>> = Append(scopes, x)
        BY AppendIsConcat
    <2>4. /\ Chained(scopes', entered', outside, half)
          /\ Seen(entered', outside) = instance
          /\ scopes' \in Seq(States) /\ entered' \in Seq(States)
        <3>1. /\ Chained(Append(scopes, x), Append(entered, instance), outside, half)
              /\ Seen(Append(entered, instance), outside) = instance
              /\ Append(scopes, x) \in Seq(States)
              /\ Append(entered, instance) \in Seq(States)
            BY <2>1, OpenChained
        <3> QED BY <2>2, <2>3, <3>1, Zenon
    <2>5. Len(entered') = Len(scopes') /\ half \subseteq 0 .. Len(scopes')
        BY <2>4 DEF Chained
    <2> QED BY <2>2, <2>4, <2>5
<1> QED BY <1>1, <1>2, <1>3

(* A scope ends.                                                           *)
LEMMA CloseStep == ASSUME ScopesInv, Close PROVE ScopesInv'
<1>1. /\ instance' = scopes[Len(scopes)]
      /\ scopes' = SubSeq(scopes, 1, Len(scopes) - 1)
      /\ entered' = SubSeq(entered, 1, Len(entered) - 1)
      /\ half' = half \ {Len(scopes)}
      /\ UNCHANGED <<entering, unwinding, terminated, outside>>
      /\ entering = Nothing /\ scopes # <<>>
    BY DEF Close, ResetTo
<1>2. scopes[Len(scopes)] \in States
    BY <1>1, EmptySeq DEF ScopesInv, ScopesTypeOK
<1>3. /\ Chained(scopes', entered', outside, half') /\ scopes' \in Seq(States)
      /\ entered' \in Seq(States) /\ Len(scopes') = Len(scopes) - 1
      /\ Len(scopes) - 1 \notin half => Seen(entered', outside) = instance'
    BY <1>1, CloseChained DEF ScopesInv, ScopesTypeOK
<1>4. Len(entered') = Len(scopes') /\ half' \subseteq 0 .. Len(scopes')
    BY <1>3 DEF Chained
<1>5. Len(scopes') \notin half' => Len(scopes) - 1 \notin half
    <2>1. Len(scopes) \in Nat
        BY DEF ScopesInv, ScopesTypeOK
    <2> QED BY <1>1, <1>3, <2>1
<1> QED BY <1>1, <1>2, <1>3, <1>4, <1>5 DEF ScopesInv, ScopesTypeOK

(* Code in a scope, or outside of all, sets the global.                    *)
LEMMA SetStep == ASSUME ScopesInv, CodeSets PROVE ScopesInv'
<1> USE DEF ScopesInv, ScopesTypeOK
<1>1. PICK v \in States :
        /\ instance' = v
        /\ IF scopes = <<>> THEN outside' = v /\ UNCHANGED entered
           ELSE entered' = [entered EXCEPT ![Len(entered)] = v] /\ UNCHANGED outside
    BY DEF CodeSets
<1>2. /\ entering' = Nothing /\ half' = half \ {Len(scopes)}
      /\ UNCHANGED <<scopes, unwinding, terminated>>
    BY DEF CodeSets, Idle
<1>3. CASE scopes = <<>>
    <2>1. entered = <<>> /\ Len(scopes) = 0
        BY <1>3, EmptySeq
    <2> QED BY <1>1, <1>2, <1>3, <2>1 DEF Chained, Seen
<1>4. CASE scopes # <<>>
    <2>1. /\ Chained(scopes, entered', outside, half') /\ entered' \in Seq(States)
          /\ Seen(entered', outside) = v /\ outside' = outside
        <3>1. entered' = [entered EXCEPT ![Len(entered)] = v] /\ outside' = outside
            BY <1>1, <1>4
        <3> DEFINE e == [entered EXCEPT ![Len(entered)] = v]
        <3>2. /\ Chained(scopes, e, outside, half \ {Len(scopes)})
              /\ e \in Seq(States) /\ Seen(e, outside) = v
            BY <1>4, SetChained
        <3> HIDE DEF e
        <3>3. entered' = e
            BY <3>1 DEF e
        <3> QED BY <1>2, <3>1, <3>2, <3>3, Zenon
    <2>2. Len(entered') = Len(scopes)
        BY <2>1 DEF Chained
    <2> QED BY <1>1, <1>2, <2>1, <2>2
<1> QED BY <1>3, <1>4

(* An enter action throws, having undone its change or not.                *)
LEMMA ThrewStep == ASSUME ScopesInv, EnterThrew PROVE ScopesInv'
<1> USE DEF ScopesInv, ScopesTypeOK
<1>1. PICK x \in States : /\ entering = <<x>>
                          /\ Len(scopes) \notin half => x = Seen(entered, outside)
    BY DEF EnterThrew, Nothing
<1>2. /\ entering' = Nothing /\ unwinding' = TRUE
      /\ UNCHANGED <<scopes, terminated, outside, entered>>
    BY DEF EnterThrew
<1>3. CASE instance' = entering[1] /\ UNCHANGED half
    BY <1>1, <1>2, <1>3
<1>4. CASE UNCHANGED instance /\ half' = half \cup {Len(scopes)}
    <2>1. Len(scopes) \in 0 .. Len(scopes)
        OBVIOUS
    <2>2. half' \subseteq 0 .. Len(scopes) /\ Len(scopes) \in half'
        BY <1>4, <2>1
    <2>3. Chained(scopes, entered, outside, half')
        BY <1>4, <2>2 DEF Chained
    <2> QED BY <1>2, <1>4, <2>2, <2>3
<1> QED BY <1>3, <1>4 DEF EnterThrew

(* Every step keeps the invariant.                                         *)
LEMMA ScopesInvStep == ASSUME Saves, ScopesInv, [ScopesNext]_scopesVars PROVE ScopesInv'
<1>1. CASE UNCHANGED scopesVars \/ Throw \/ Catch \/ ExitThrew
    BY <1>1 DEF scopesVars, histories, Throw, Catch, ExitThrew, ScopesInv, ScopesTypeOK
<1> QED BY <1>1, OpenStep, ThrewStep, CloseStep, SetStep DEF ScopesNext

(* ScopesInv is an invariant of scopes that save what they find.           *)
THEOREM ScopesInvariance == ASSUME Saves PROVE ScopesSpec => []ScopesInv
BY ScopesInvInit, ScopesInvStep, PTL DEF ScopesSpec

(* No scope is open without its exit value, also after an enter action     *)
(* that throws.                                                            *)
THEOREM ScopesTypesCorrect == ASSUME Saves PROVE ScopesSpec => []ScopesTypeOK
<1>1. ScopesInv => ScopesTypeOK
    BY DEF ScopesInv
<1> QED BY <1>1, ScopesInvariance, PTL

(* When no scope is open the global is what code outside set, unless an    *)
(* enter action that threw half way has left something else there.         *)
THEOREM ResetCorrect == ASSUME Saves PROVE ScopesSpec => []ResetAfterAll
<1>1. ScopesInv => ResetAfterAll
    <2> SUFFICES ASSUME ScopesInv, scopes = <<>>, entering = Nothing, 0 \notin half
                 PROVE  instance = outside
        BY DEF ResetAfterAll
    <2>1. Len(scopes) = 0 /\ entered = <<>>
        BY EmptySeq DEF ScopesInv, ScopesTypeOK
    <2> QED BY <2>1 DEF ScopesInv, Seen
<1> QED BY <1>1, ScopesInvariance, PTL

(* The innermost open scope sees what it was given, with that exception.   *)
THEOREM NestingCorrect ==
    ASSUME Saves PROVE ScopesSpec => []InnerScopesLeaveNoTrace
<1>1. ScopesInv => InnerScopesLeaveNoTrace
    <2> SUFFICES ASSUME ScopesInv, scopes # <<>>, entering = Nothing,
                        Len(scopes) \notin half
                 PROVE  instance = entered[Len(entered)]
        BY DEF InnerScopesLeaveNoTrace
    <2>1. entered # <<>>
        BY EmptySeq DEF ScopesInv, ScopesTypeOK
    <2> QED BY <2>1 DEF ScopesInv, Seen
<1> QED BY <1>1, ScopesInvariance, PTL

-----------------------------------------------------------------------------
(* Benchmark                                                               *)

(* What a clock reading of Elapsed becomes.                                *)
Measures == {Sample(ns) : ns \in Elapsed}

(* What is kept of an integer is one, and so is every sample.              *)
LEMMA MachineIntegers == (\A x \in Int : Wrapped(x) \in Int) /\ Measures \subseteq Int
<1>1. REP_MAX \in Nat /\ Modulus(REP_MAX) \in Nat \ {0}
  BY BenchmarkAssumption DEF Modulus
<1>2. \A x \in Int : Wrapped(x) \in Int
  BY <1>1, SignedKeeps DEF Wrapped
<1>3. ASSUME NEW ns \in Elapsed PROVE Sample(ns) \in Int
  <2>1. ns \in Int
    BY BenchmarkAssumption
  <2>2. ns % Modulus(REP_MAX) \in Int
    BY <1>1, <2>1
  <2>3. (ns % Modulus(REP_MAX)) \div func_internal_count \in Int
    BY <2>2, BenchmarkAssumption
  <2> QED BY <1>2, <2>3 DEF Sample
<1> QED BY <1>2, <1>3 DEF Measures

(* What the machine keeps of an integer.                                   *)
LEMMA KeptIs ==
  ASSUME NEW n \in Int
  PROVE  /\ Wrapped(n) \in Int /\ Wrapped(n) \in Signed(REP_MAX)
         /\ Holds(n) => Wrapped(n) = n
         /\ \E k \in Int : Wrapped(n) = n + (k * Modulus(REP_MAX))
<1>1. REP_MAX \in Nat
  BY BenchmarkAssumption
<1>. QED BY <1>1, SignedKeeps, Zenon DEF Wrapped, Holds

(* Deviations are the same either way.                                     *)
LEMMA AbsDiffSymmetric == \A a, b \in Int : abs_diff(a, b) = abs_diff(b, a)
BY DEF abs_diff

(* A set that a bijection maps into another is no larger.                  *)
LEMMA MappedIsNoLarger ==
  ASSUME NEW N \in Nat, NEW p \in Bijection(1..N, 1..N),
         NEW A \in SUBSET (1..N), NEW B \in SUBSET (1..N), \A j \in A : p[j] \in B
  PROVE  Cardinality(A) <= Cardinality(B)
<1> DEFINE f == [j \in A |-> p[j]]
<1>1. IsFiniteSet(B)
  <2>1. IsFiniteSet(1..N)
    BY FS_Interval
  <2> QED BY <2>1, FS_Subset, Zenon
<1>2. f \in Injection(A, B)
  BY DEF Bijection, Injection, IsInjective
<1> QED BY <1>1, <1>2, FS_Injection, Zenon

(* N elements around the one at their middle.                              *)
LEMMA Halves ==
  ASSUME NEW N \in Nat \ {0}, NEW n, n = N \div 2
  PROVE  /\ n \in Nat /\ n + 1 <= N
         /\ 2 * Cardinality(1..(n + 1)) >= N /\ 2 * Cardinality((n + 1)..N) >= N
<1>1. n \in Nat /\ n + 1 <= N /\ 2 * (n + 1) >= N /\ 2 * (N - n) >= N
  OBVIOUS
<1>2. Cardinality(1..(n + 1)) = n + 1
  BY <1>1, FS_Interval
<1>3. Cardinality((n + 1)..N) = N - n
  BY <1>1, FS_Interval
<1> QED BY <1>1, <1>2, <1>3

(* Where t is split at its middle, half of the elements of any permutation *)
(* of it are on either side.                                               *)
SplitAt(t, N, middle) ==
  /\ middle = t[(N \div 2) + 1]
  /\ \A j \in 1..((N \div 2) + 1) : t[j] <= middle
  /\ \A j \in ((N \div 2) + 1)..N : middle <= t[j]

(* t has the elements of s in the order of p.                              *)
Reorders(p, N, s, t) == p \in Bijection(1..N, 1..N) /\ \A j \in 1..N : t[j] = s[p[j]]

(* At least half of the elements are no larger, and half no smaller.       *)
HalvedAt(s, N, middle) ==
  /\ 2 * Cardinality({j \in 1..N : s[j] <= middle}) >= N
  /\ 2 * Cardinality({j \in 1..N : s[j] >= middle}) >= N

(* A reordering of samples that is split at the middle halves them there.  *)
LEMMA HalvesOfPermuted ==
  ASSUME NEW N \in Nat \ {0}, NEW p, NEW s, NEW t, NEW middle,
         SplitAt(t, N, middle), Reorders(p, N, s, t)
  PROVE  HalvedAt(s, N, middle)
<1> p \in Bijection(1..N, 1..N) /\ \A j \in 1..N : t[j] = s[p[j]]
  BY DEF Reorders
<1> DEFINE n == N \div 2
           Low == {j \in 1..N : s[j] <= middle}
           High == {j \in 1..N : s[j] >= middle}
<1>1. n \in Nat /\ n + 1 <= N
      /\ 2 * Cardinality(1..(n + 1)) >= N /\ 2 * Cardinality((n + 1)..N) >= N
  BY Halves, Zenon
<1>2. \A j \in 1..N : p[j] \in 1..N
  BY DEF Bijection, Injection
<1>3. \A j \in 1..(n + 1) : p[j] \in Low
  BY <1>1, <1>2 DEF SplitAt
<1>4. \A j \in (n + 1)..N : p[j] \in High
  BY <1>1, <1>2 DEF SplitAt
<1>5. 1..(n + 1) \in SUBSET (1..N) /\ (n + 1)..N \in SUBSET (1..N)
  BY <1>1
<1>6. Low \in SUBSET (1..N) /\ High \in SUBSET (1..N)
  OBVIOUS
<1>7. /\ Cardinality(Low) \in Nat /\ Cardinality(High) \in Nat
      /\ Cardinality(1..(n + 1)) \in Nat /\ Cardinality((n + 1)..N) \in Nat
  <2>1. IsFiniteSet(1..N)
    BY FS_Interval
  <2>2. \A A \in SUBSET (1..N) : Cardinality(A) \in Nat
    BY <2>1, FS_Subset, FS_CardinalityType, Zenon
  <2> QED BY <1>5, <1>6, <2>2
<1> HIDE DEF Low, High, n
<1>8. Cardinality(1..(n + 1)) <= Cardinality(Low)
  BY <1>3, <1>5, <1>6, MappedIsNoLarger
<1>9. Cardinality((n + 1)..N) <= Cardinality(High)
  BY <1>4, <1>5, <1>6, MappedIsNoLarger
<1>10. 2 * Cardinality(Low) >= N /\ 2 * Cardinality(High) >= N
  BY <1>1, <1>7, <1>8, <1>9
<1> QED BY <1>10 DEF Low, High, HalvedAt

(* What nth_element leaves: the same elements, split at the middle.        *)
Splits(t, S, s, N) ==
  /\ t \in Seq(S) /\ Len(t) = N /\ SplitAt(t, N, t[Nth(s) + 1])
  /\ \E q : Reorders(q, N, s, t)

(* nth_element returns such a reordering.                                  *)
LEMMA NthElementSplits ==
  ASSUME NEW S, NEW s \in Seq(S), NEW N, N = Len(s), N # 0, NEW t \in NthElement(s, Nth(s))
  PROVE  Splits(t, S, s, N)
<1>1. N \in Nat \ {0} /\ DOMAIN s = 1..N
  OBVIOUS
<1>2. PICK q \in Bijection(1..N, 1..N) : t = [j \in 1..N |-> s[q[j]]]
  BY <1>1 DEF NthElement, Permuted
<1>3. \A j \in 1..N : q[j] \in 1..N
  BY DEF Bijection, Injection
<1>4. t \in [1..N -> S]
  BY <1>1, <1>2, <1>3
<1>5. t \in Seq(S)
  BY <1>1, <1>4, SeqDef, Zenon
<1>6. Len(t) = N
  BY <1>1, <1>4, <1>5
<1>7. \A j \in 1..N : t[j] = s[q[j]]
  BY <1>2
<1> DEFINE n == N \div 2
<1>8. n \in Nat /\ n + 1 <= N /\ Nth(s) = n
  BY <1>1 DEF Nth
<1>9. /\ \A j \in 1..n : t[j] <= t[n + 1]
      /\ \A j \in (n + 1)..N : t[n + 1] <= t[j]
  BY <1>6, <1>8 DEF NthElement
<1> HIDE DEF n
<1>10. \A j \in 1..(n + 1) : t[j] <= t[n + 1]
  <2>1. t[n + 1] <= t[n + 1]
    BY <1>8, <1>9
  <2>2. \A j \in 1..(n + 1) : j \in 1..n \/ j = n + 1
    BY <1>8
  <2> QED BY <1>9, <2>1, <2>2, Zenon
<1>11. SplitAt(t, N, t[n + 1])
  BY <1>9, <1>10 DEF SplitAt, n
<1>12. Reorders(q, N, s, t)
  BY <1>7, Zenon DEF Reorders
<1> QED BY <1>5, <1>6, <1>8, <1>11, <1>12, Zenon DEF Splits

Deviations == [j \in DOMAIN samples |-> abs_diff(median, samples[j])]

(* The samples are those measured, in another order from median() on,      *)
(* which splits them at the median; so are the deviations of the last step.*)
BenchmarkInv ==
  /\ samples \in Seq(Measures) /\ measured \in Seq(Measures)
  /\ Len(measured) = Len(samples) /\ Len(samples) <= sample_count
  /\ computing \in {"sample", "median", "deviation", "mad", "done"}
  /\ computing = "sample" => samples = measured
  /\ computing # "sample" => Len(samples) = sample_count
  /\ \E p : Reorders(p, Len(samples), measured, samples)
  /\ computing \in {"deviation", "mad", "done"} => SplitAt(samples, Len(samples), median)
  /\ computing = "done" =>
       \E t \in NthElement(Deviations, Nth(Deviations)) :
          median_abs_deviation = t[Nth(Deviations) + 1]

(* Nothing is in another order yet.                                        *)
LEMMA SameOrder == ASSUME NEW s, NEW N PROVE \E p : Reorders(p, N, s, s)
<1> DEFINE p == [j \in 1..N |-> j]
<1>1. p \in Bijection(1..N, 1..N)
  <2>1. p \in [1..N -> 1..N] /\ (\A a, b \in 1..N : p[a] = p[b] => a = b)
        /\ \A b \in 1..N : \E a \in 1..N : p[a] = b
    OBVIOUS
  <2> HIDE DEF p
  <2> QED BY <2>1 DEF Bijection, Injection, Surjection, IsInjective
<1>2. \A j \in 1..N : s[j] = s[p[j]]
  OBVIOUS
<1> QED BY <1>1, <1>2, Zenon DEF Reorders

(* An order of an order.                                                   *)
LEMMA ReordersTwice ==
  ASSUME NEW N, NEW s, NEW t, NEW u, NEW p, NEW q, Reorders(p, N, s, t), Reorders(q, N, t, u)
  PROVE  \E r : Reorders(r, N, s, u)
<1> DEFINE r == [j \in 1..N |-> p[q[j]]]
<1>1. p \in Bijection(1..N, 1..N) /\ q \in Bijection(1..N, 1..N)
  BY DEF Reorders
<1>2. r \in Bijection(1..N, 1..N)
  BY <1>1, Fun_BijTransitive
<1>3. \A j \in 1..N : q[j] \in 1..N
  BY <1>1 DEF Bijection, Injection
<1>4. \A j \in 1..N : u[j] = s[r[j]]
  BY <1>3 DEF Reorders
<1> HIDE DEF r
<1> QED BY <1>2, <1>4, Zenon DEF Reorders

(* The invariant holds in the beginning.                                   *)
LEMMA BenchmarkInvInit == BenchmarkInit => BenchmarkInv
<1>1. SUFFICES ASSUME BenchmarkInit PROVE BenchmarkInv
  OBVIOUS
<1>2. \E p : Reorders(p, Len(samples), measured, samples)
  <2>1. samples = measured
    BY <1>1 DEF BenchmarkInit
  <2> QED BY <2>1, SameOrder
<1> QED BY <1>1, <1>2, BenchmarkAssumption DEF BenchmarkInit, BenchmarkInv

(* Every step keeps it.                                                    *)
LEMMA BenchmarkInvStep == BenchmarkInv /\ [BenchmarkNext]_benchmarkVars => BenchmarkInv'
<1> SUFFICES ASSUME BenchmarkInv, [BenchmarkNext]_benchmarkVars PROVE BenchmarkInv'
  OBVIOUS
<1>1. CASE Measure
  <2>1. PICK ns \in Elapsed : /\ samples' = Append(samples, Sample(ns))
                              /\ measured' = Append(measured, Sample(ns))
    BY <1>1 DEF Measure
  <2>2. computing = "sample" /\ computing' = "sample" /\ Len(samples) < sample_count
    BY <1>1 DEF Measure
  <2>3. samples \in Seq(Measures) /\ samples = measured
    BY <2>2 DEF BenchmarkInv
  <2>4. samples' \in Seq(Measures) /\ samples' = measured' /\ Len(samples') = Len(samples) + 1
    BY <2>1, <2>3 DEF Measures
  <2>5. \E p : Reorders(p, Len(samples'), measured', samples')
    BY <2>4, SameOrder
  <2>6. Len(samples') <= sample_count
    BY <2>2, <2>3, <2>4, BenchmarkAssumption
  <2> QED BY <2>2, <2>4, <2>5, <2>6 DEF BenchmarkInv
<1>2. CASE Average
  BY <1>2 DEF Average, BenchmarkInv
<1>3. CASE Median
  <2> DEFINE N == Len(samples)
  <2>1. /\ samples \in Seq(Measures) /\ N = sample_count /\ N # 0 /\ N \in Nat
        /\ measured \in Seq(Measures) /\ Len(measured) = N
    BY <1>3, BenchmarkAssumption DEF Median, BenchmarkInv
  <2>2. PICK p : Reorders(p, N, measured, samples)
    BY DEF BenchmarkInv
  <2>3. /\ samples' \in NthElement(samples, Nth(samples))
        /\ median' = samples'[Nth(samples) + 1]
        /\ computing' = "deviation" /\ measured' = measured
    BY <1>3 DEF Median
  <2> HIDE DEF N
  <2>4. Splits(samples', Measures, samples, N)
    BY <2>1, <2>3, NthElementSplits DEF N
  <2>5. PICK q : Reorders(q, N, samples, samples')
    BY <2>4, Zenon DEF Splits
  <2>6. \E r : Reorders(r, N, measured, samples')
    BY <2>2, <2>5, ReordersTwice, Zenon
  <2>7. samples' \in Seq(Measures) /\ Len(samples') = N
    BY <2>4, Zenon DEF Splits
  <2>8. SplitAt(samples', N, median')
    BY <2>3, <2>4, Zenon DEF Splits
  <2> QED BY <2>1, <2>3, <2>6, <2>7, <2>8 DEF BenchmarkInv
<1>4. CASE StandardDeviation
  BY <1>4 DEF StandardDeviation, BenchmarkInv
<1>5. CASE MedianAbsoluteDeviation
  <2>1. /\ UNCHANGED <<samples, measured, median>> /\ computing = "mad" /\ computing' = "done"
        /\ \E t \in NthElement(Deviations, Nth(Deviations)) :
              median_abs_deviation' = t[Nth(Deviations) + 1]
    BY <1>5 DEF MedianAbsoluteDeviation, Deviations
  <2>2. Deviations' = Deviations
    BY <2>1 DEF Deviations
  <2> QED BY <2>1, <2>2 DEF BenchmarkInv
<1>6. CASE UNCHANGED benchmarkVars
  BY <1>6 DEF benchmarkVars, BenchmarkInv, Deviations
<1> QED BY <1>1, <1>2, <1>3, <1>4, <1>5, <1>6 DEF BenchmarkNext

(* The median and the median absolute deviation that benchmark() returns   *)
(* split the samples it measured, and their deviations, in halves: for any *)
(* number of samples, and for clocks that go back.                         *)
THEOREM HalvesAreTrue == BenchmarkSpec => []HalvesAreHalves
<1>1. BenchmarkInv => HalvesAreHalves
  <2>1. SUFFICES ASSUME BenchmarkInv, computing = "done" PROVE HalvesAreHalves
    BY DEF HalvesAreHalves
  <2> DEFINE N == sample_count
  <2>2. /\ N \in Nat \ {0} /\ samples \in Seq(Measures) /\ measured \in Seq(Measures)
        /\ Len(samples) = N /\ Len(measured) = N
        /\ SplitAt(samples, N, median)
    BY <2>1, BenchmarkAssumption DEF BenchmarkInv
  <2>3. PICK p : Reorders(p, N, measured, samples)
    BY <2>1, <2>2 DEF BenchmarkInv
  <2>4. PICK t \in NthElement(Deviations, Nth(Deviations)) :
          median_abs_deviation = t[Nth(Deviations) + 1]
    BY <2>1 DEF BenchmarkInv
  <2>5. /\ \A j \in 1..N : samples[j] \in Int /\ measured[j] \in Int
        /\ median \in Int
    <3>1. (N \div 2) + 1 \in 1..N
      BY <2>2
    <3>2. \A j \in 1..N : samples[j] \in Measures /\ measured[j] \in Measures
      BY <2>2
    <3>3. \A j \in 1..N : samples[j] \in Int /\ measured[j] \in Int
      BY <3>2, MachineIntegers, Zenon
    <3> QED BY <2>2, <3>1, <3>3 DEF SplitAt
  <2> HIDE DEF N
  <2>6. HalvedAt(measured, N, median)
    BY <2>2, <2>3, HalvesOfPermuted
  <2> DEFINE d == [j \in 1..N |-> abs_diff(measured[j], median)]
             S == {d[j] : j \in 1..N}
  <2>7. \A j \in 1..N : p[j] \in 1..N
    BY <2>3 DEF Reorders, Bijection, Injection
  <2>8. Deviations \in [1..N -> S] /\ \A j \in 1..N : Deviations[j] = d[p[j]]
    <3>1. \A j \in 1..N : abs_diff(median, samples[j]) = d[p[j]]
      BY <2>3, <2>5, <2>7, AbsDiffSymmetric DEF Reorders
    <3>2. Deviations = [j \in 1..N |-> abs_diff(median, samples[j])]
      BY <2>2 DEF Deviations
    <3> QED BY <2>7, <3>1, <3>2
  <2> HIDE DEF S, d
  <2>9. Deviations \in Seq(S)
    <3>1. N \in Nat
      BY <2>2
    <3> QED BY <2>8, <3>1, SeqDef, Zenon
  <2>10. Len(Deviations) = N /\ N # 0
    BY <2>2, <2>8, <2>9
  <2>11. Splits(t, S, Deviations, N)
    BY <2>9, <2>10, NthElementSplits
  <2>12. PICK q : Reorders(q, N, Deviations, t)
    BY <2>11, Zenon DEF Splits
  <2>13. Reorders(p, N, d, Deviations)
    BY <2>3, <2>8, Zenon DEF Reorders
  <2>14. PICK r : Reorders(r, N, d, t)
    BY <2>12, <2>13, ReordersTwice, Zenon
  <2>15. SplitAt(t, N, median_abs_deviation)
    BY <2>4, <2>11, Zenon DEF Splits
  <2>16. HalvedAt(d, N, median_abs_deviation)
    BY <2>2, <2>14, <2>15, HalvesOfPermuted
  <2>17. /\ {j \in 1..N : d[j] <= median_abs_deviation}
              = {j \in 1..N : abs_diff(measured[j], median) <= median_abs_deviation}
         /\ {j \in 1..N : d[j] >= median_abs_deviation}
              = {j \in 1..N : abs_diff(measured[j], median) >= median_abs_deviation}
    BY DEF d
  <2>18. 1..Len(measured) = 1..N
    BY <2>2
  <2> QED BY <2>6, <2>16, <2>17, <2>18, Zenon DEF HalvedAt, HalvesAreHalves, HowMany, N
<1> QED BY <1>1, BenchmarkInvInit, BenchmarkInvStep, PTL DEF BenchmarkSpec

(* A sum so far with one more sample.                                      *)
Adding == [sum \in Int |-> [x \in Int |-> Wrapped(sum + x)]]
Totalling == [sum \in Int |-> [x \in Int |-> sum + x]]

(* accumulate() is a fold.                                                 *)
LEMMA AccumulateFolds ==
  ASSUME NEW s \in Seq(Int)
  PROVE  \E h : Folds(h, Int, Adding, 0, s) /\ Accumulate(s) = h[1..Len(s)]
<1> DEFINE n == Len(s)
           J(h) == h = [S \in SUBSET DOMAIN s |->
                          IF S = {} THEN 0 ELSE Wrapped(h[S \ {Max(S)}] + s[Max(S)])]
<1>1. Accumulate(s) = (CHOOSE h : J(h))[DOMAIN s]
  BY Zenon DEF Accumulate, FoldLeft, MapThenFoldSet
<1>2. DOMAIN s = 1..n /\ n \in Nat /\ 0 \in Int
  OBVIOUS
<1>3. /\ Adding \in [Int -> [Int -> Int]]
      /\ \A sum, x \in Int : Adding[sum][x] = Wrapped(sum + x)
  <2>1. \A sum, x \in Int : Wrapped(sum + x) \in Int
    BY MachineIntegers
  <2> QED BY <2>1 DEF Adding
<1>4. \E g : J(g)
  <2>1. PICK g : FoldUpto(g, Int, Adding, 0, s, n)
    BY <1>2, <1>3, FoldExists
  <2>2. ASSUME NEW S \in SUBSET (1..n)
        PROVE  g[S] = IF S = {} THEN 0 ELSE Wrapped(g[S \ {Max(S)}] + s[Max(S)])
    <3>1. g[S] = IF S = {} THEN 0 ELSE Adding[g[S \ {Max(S)}]][s[Max(S)]]
      BY <2>1 DEF FoldUpto, FoldsAt
    <3>2. ASSUME S # {} PROVE g[S \ {Max(S)}] \in Int /\ s[Max(S)] \in Int
      <4>1. Max(S) \in 1..n
        BY <1>2, <3>2, MaxIs
      <4>2. S \ {Max(S)} \in SUBSET (1..n)
        OBVIOUS
      <4>3. g \in [SUBSET (1..n) -> Int]
        BY <2>1 DEF FoldUpto
      <4>4. s[Max(S)] \in Int
        BY <1>2, <4>1, ElementOfSeq
      <4> QED BY <4>2, <4>3, <4>4
    <3> QED BY <1>3, <3>1, <3>2, Zenon
  <2>3. g = [S \in SUBSET (1..n) |-> g[S]]
    BY <2>1, Zenon DEF FoldUpto
  <2>4. J(g)
    BY <1>2, <2>2, <2>3, Zenon
  <2> QED BY <2>4, Zenon
<1>5. PICK h : J(h) /\ Accumulate(s) = h[DOMAIN s]
  <2> HIDE DEF J
  <2> QED BY <1>1, <1>4, Zenon
<1>6. \A S \in SUBSET (1..n) :
        h[S] = IF S = {} THEN 0 ELSE Wrapped(h[S \ {Max(S)}] + s[Max(S)])
  BY <1>2, <1>5, Zenon
<1>7. h[{}] = 0
  BY <1>6
<1>8. ASSUME NEW k \in 1..n, h[1..(k - 1)] \in Int
      PROVE  h[1..k] = Adding[h[1..(k - 1)]][s[k]]
  <2>1. Max(1..k) = k /\ (1..k) \ {k} = 1..(k - 1) /\ 1..k \in SUBSET (1..n) /\ 1..k # {}
    BY <1>2, MaxOfFirst
  <2>2. h[1..k] = Wrapped(h[1..(k - 1)] + s[k])
    BY <1>6, <2>1, Zenon
  <2>3. s[k] \in Int
    BY <1>2, ElementOfSeq
  <2> QED BY <1>3, <1>8, <2>2, <2>3, Zenon
<1>9. Folds(h, Int, Adding, 0, s)
  BY <1>7, <1>8, Zenon DEF Folds
<1> QED BY <1>2, <1>5, <1>9, Zenon

(* So is the sum without a limit.                                          *)
LEMMA TotalFolds ==
  ASSUME NEW s \in Seq(Int)
  PROVE  \E h : Folds(h, Int, Totalling, 0, s) /\ Total(s) = h[1..Len(s)]
<1> DEFINE n == Len(s)
           J(h) == h = [S \in SUBSET DOMAIN s |->
                          IF S = {} THEN 0 ELSE h[S \ {Max(S)}] + s[Max(S)]]
<1>1. Total(s) = (CHOOSE h : J(h))[DOMAIN s]
  BY Zenon DEF Total, FoldLeft, MapThenFoldSet
<1>2. DOMAIN s = 1..n /\ n \in Nat /\ 0 \in Int
  OBVIOUS
<1>3. /\ Totalling \in [Int -> [Int -> Int]]
      /\ \A sum, x \in Int : Totalling[sum][x] = sum + x
  <2>1. \A sum, x \in Int : sum + x \in Int
    OBVIOUS
  <2> QED BY <2>1 DEF Totalling
<1>4. \E g : J(g)
  <2>1. PICK g : FoldUpto(g, Int, Totalling, 0, s, n)
    BY <1>2, <1>3, FoldExists
  <2>2. ASSUME NEW S \in SUBSET (1..n)
        PROVE  g[S] = IF S = {} THEN 0 ELSE g[S \ {Max(S)}] + s[Max(S)]
    <3>1. g[S] = IF S = {} THEN 0 ELSE Totalling[g[S \ {Max(S)}]][s[Max(S)]]
      BY <2>1 DEF FoldUpto, FoldsAt
    <3>2. ASSUME S # {} PROVE g[S \ {Max(S)}] \in Int /\ s[Max(S)] \in Int
      <4>1. Max(S) \in 1..n
        BY <1>2, <3>2, MaxIs
      <4>2. S \ {Max(S)} \in SUBSET (1..n)
        OBVIOUS
      <4>3. g \in [SUBSET (1..n) -> Int]
        BY <2>1 DEF FoldUpto
      <4>4. s[Max(S)] \in Int
        BY <1>2, <4>1, ElementOfSeq
      <4> QED BY <4>2, <4>3, <4>4
    <3> QED BY <1>3, <3>1, <3>2, Zenon
  <2>3. g = [S \in SUBSET (1..n) |-> g[S]]
    BY <2>1, Zenon DEF FoldUpto
  <2>4. J(g)
    BY <1>2, <2>2, <2>3, Zenon
  <2> QED BY <2>4, Zenon
<1>5. PICK h : J(h) /\ Total(s) = h[DOMAIN s]
  <2> HIDE DEF J
  <2> QED BY <1>1, <1>4, Zenon
<1>6. \A S \in SUBSET (1..n) :
        h[S] = IF S = {} THEN 0 ELSE h[S \ {Max(S)}] + s[Max(S)]
  BY <1>2, <1>5, Zenon
<1>7. h[{}] = 0
  BY <1>6
<1>8. ASSUME NEW k \in 1..n, h[1..(k - 1)] \in Int
      PROVE  h[1..k] = Totalling[h[1..(k - 1)]][s[k]]
  <2>1. Max(1..k) = k /\ (1..k) \ {k} = 1..(k - 1) /\ 1..k \in SUBSET (1..n) /\ 1..k # {}
    BY <1>2, MaxOfFirst
  <2>2. h[1..k] = h[1..(k - 1)] + s[k]
    BY <1>6, <2>1, Zenon
  <2>3. s[k] \in Int
    BY <1>2, ElementOfSeq
  <2> QED BY <1>3, <1>8, <2>2, <2>3, Zenon
<1>9. Folds(h, Int, Totalling, 0, s)
  BY <1>7, <1>8, Zenon DEF Folds
<1> QED BY <1>2, <1>5, <1>9, Zenon

(* Terms that differ by multiples of the modulus add up to a sum that does:*)
(* wrapping on the way changes nothing.                                    *)
LEMMA SumsAgree ==
  ASSUME NEW W \in {Int, Nat}, NEW s \in Seq(Int), NEW u \in Seq(W), Len(s) = Len(u),
         \A j \in 1..Len(s) : \E k \in Int : s[j] = u[j] + (k * Modulus(REP_MAX))
  PROVE  Total(u) \in W /\ Accumulate(s) = Wrapped(Total(u))
<1> DEFINE n == Len(s)
<1>1. u \in Seq(Int) /\ n \in Nat /\ REP_MAX \in Nat /\ Modulus(REP_MAX) \in Nat \ {0}
      /\ \A j \in 1..n : s[j] \in Int /\ u[j] \in W /\ u[j] \in Int
  <2>1. u \in Seq(Int)
    <3>1. W \subseteq Int
      OBVIOUS
    <3> QED BY <3>1, SeqMonotonic
  <2>2. REP_MAX \in Nat /\ Modulus(REP_MAX) \in Nat \ {0}
    BY BenchmarkAssumption DEF Modulus
  <2>3. \A j \in 1..n : s[j] \in Int /\ u[j] \in W /\ u[j] \in Int
    BY <2>1, ElementOfSeq
  <2> QED BY <2>1, <2>2, <2>3
<1>2. PICK h : Folds(h, Int, Adding, 0, s) /\ Accumulate(s) = h[1..n]
  BY AccumulateFolds
<1>3. PICK g : Folds(g, Int, Totalling, 0, u) /\ Total(u) = g[1..n]
  BY <1>1, TotalFolds
<1> DEFINE Agrees(k) == g[1..k] \in W /\ h[1..k] = Wrapped(g[1..k])
           T == {k \in 0..n : ~Agrees(k)}
<1>4. ASSUME T # {} PROVE FALSE
  <2>1. PICK k \in T : \A y \in T : k <= y
    <3>1. T \in SUBSET (0..n)
      OBVIOUS
    <3> HIDE DEF T, n
    <3> QED BY <1>1, <1>4, <3>1, LeastExists
  <2>2. k \in 0..n /\ ~Agrees(k)
    OBVIOUS
  <2>3. CASE k = 0
    <3>1. 1..k = {}
      BY <2>3
    <3>2. h[1..k] = 0 /\ g[1..k] = 0
      BY <1>2, <1>3, <3>1 DEF Folds
    <3>3. Wrapped(0) = 0
      <4>1. 0 \in Signed(REP_MAX)
        BY <1>1 DEF Signed
      <4> QED BY <1>1, <4>1, SignedKeeps DEF Wrapped
    <3>4. Agrees(k)
      BY <3>2, <3>3
    <3> QED BY <2>2, <3>4
  <2>4. CASE k # 0
    <3>1. k \in 1..n /\ k \in Nat /\ k <= n /\ k - 1 \in 0..n /\ ~(k <= k - 1)
      <4>1. k \in 0..n
        BY <2>2
      <4> HIDE DEF n, T
      <4> QED BY <1>1, <2>4, <4>1
    <3>2. k - 1 \notin T
      <4> HIDE DEF T, n
      <4> QED BY <2>1, <3>1
    <3>3. Agrees(k - 1)
      BY <3>1, <3>2
    <3> DEFINE a == g[1..(k - 1)]
               b == h[1..(k - 1)]
               x == u[k]
               y == s[k]
               m == Modulus(REP_MAX)
    <3>4. a \in W /\ a \in Int /\ b = Wrapped(a) /\ b \in Int
      <4>1. a \in W /\ b = Wrapped(a)
        BY <3>3, Zenon
      <4> HIDE DEF a, b, T, n
      <4>2. a \in Int
        BY <4>1
      <4> QED BY <4>1, <4>2, KeptIs
    <3>5. x \in W /\ x \in Int /\ y \in Int /\ m \in Int
      BY <1>1, <3>1
    <3>6. g[1..k] = a + x
      BY <1>3, <3>1, <3>4, <3>5 DEF Folds, Totalling
    <3>7. h[1..k] = Wrapped(b + y)
      BY <1>2, <3>1, <3>4, <3>5 DEF Folds, Adding
    <3>8. PICK i \in Int : b = a + (i * m)
      <4> HIDE DEF a, b, T, n
      <4> QED BY <3>4, KeptIs
    <3>9. PICK j \in Int : y = x + (j * m)
      BY <3>1
    <3> HIDE DEF a, b, x, y, m, n, T
    <3>10. b + y = (a + x) + ((i + j) * m) /\ i + j \in Int /\ a + x \in Int /\ b + y \in Int
      BY <3>4, <3>5, <3>8, <3>9
    <3>11. Wrapped(b + y) = Wrapped(a + x)
      BY <1>1, <3>10, KeptAlike DEF Wrapped, m
    <3>12. a + x \in W
      BY <3>4, <3>5
    <3> QED BY <2>2, <3>6, <3>7, <3>11, <3>12
  <2> QED BY <2>3, <2>4
<1>5. Agrees(n)
  <2>1. n \in 0..n
    BY <1>1
  <2>2. n \notin T
    <3> HIDE DEF T
    <3> QED BY <1>4
  <2> QED BY <2>1, <2>2
<1> QED BY <1>2, <1>3, <1>5

(* Division toward zero.                                                   *)
LEMMA QuotientIs ==
  ASSUME NEW a \in Int, NEW n \in Nat \ {0}
  PROVE  /\ Quotient(a, n) \in Int
         /\ a >= 0 => /\ Quotient(a, n) = a \div n /\ Quotient(a, n) >= 0
                      /\ n * Quotient(a, n) <= a /\ a < n * Quotient(a, n) + n
         /\ a < 0 => /\ Quotient(a, n) <= 0
                     /\ a <= n * Quotient(a, n) /\ n * Quotient(a, n) - n < a
<1>1. CASE a >= 0
  BY <1>1 DEF Quotient
<1>2. CASE a < 0
  <2> DEFINE b == -a
             q == b \div n
  <2>1. b \in Nat /\ q \in Nat /\ n * q <= b /\ b < n * q + n
    BY <1>2
  <2>2. Quotient(a, n) = -q
    BY <1>2 DEF Quotient
  <2>3. n * (-q) = -(n * q)
    BY <2>1
  <2> QED BY <1>2, <2>1, <2>2, <2>3
<1> QED BY <1>1, <1>2

(* A sum that the type does not hold has another average than what is kept *)
(* of it.                                                                  *)
LEMMA OnlyIfHeld ==
  ASSUME NEW sum \in Int, NEW n \in 1..REP_MAX
  PROVE  Quotient(Wrapped(sum), n) = Quotient(sum, n) <=> Holds(sum)
<1> DEFINE v == Wrapped(sum)
           m == Modulus(REP_MAX)
           p == Quotient(sum, n)
<1>1. /\ REP_MAX \in Nat /\ m = 2 * (REP_MAX + 1) /\ m \in Nat \ {0}
      /\ n \in Nat \ {0} /\ n <= REP_MAX
  BY BenchmarkAssumption DEF Modulus
<1>2. v \in Int /\ -(REP_MAX + 1) <= v /\ v <= REP_MAX /\ (Holds(sum) => v = sum)
  BY <1>1, KeptIs DEF Signed
<1>3. PICK k \in Int : v = sum + (k * m)
  BY KeptIs
<1>4. ASSUME ~Holds(sum), Quotient(v, n) = p PROVE FALSE
  <2>1. sum > REP_MAX \/ sum < -(REP_MAX + 1)
    BY <1>1, <1>4 DEF Holds, Signed
  <2> DEFINE np == n * p
  <2>2. /\ p \in Int /\ np \in Int
        /\ sum >= 0 => np <= sum /\ sum < np + n
        /\ sum < 0 => sum <= np /\ np - n < sum
        /\ v >= 0 => p >= 0 /\ np <= v /\ v < np + n
        /\ v < 0 => p <= 0 /\ v <= np /\ np - n < v
    <3>1. Quotient(v, n) = p
      BY <1>4
    <3>2. p = Quotient(sum, n)
      OBVIOUS
    <3>3. n \in Nat \ {0} /\ n \in Int /\ sum \in Int /\ v \in Int
      BY <1>1, <1>2
    <3> HIDE DEF v, p
    <3>4. p \in Int
      BY <3>2, <3>3, QuotientIs
    <3>5. /\ sum >= 0 => n * p <= sum /\ sum < n * p + n
          /\ sum < 0 => sum <= n * p /\ n * p - n < sum
      BY <3>2, <3>3, QuotientIs
    <3>6. /\ v >= 0 => p >= 0 /\ n * p <= v /\ v < n * p + n
          /\ v < 0 => p <= 0 /\ v <= n * p /\ n * p - n < v
      BY <3>1, <3>3, QuotientIs
    <3>7. n * p \in Int
      BY <3>3, <3>4
    <3> QED BY <3>4, <3>5, <3>6, <3>7
  <2>3. /\ np > 0 => p > 0
        /\ np < 0 => p < 0
    BY <1>1, <2>2
  <2> HIDE DEF v, m, p, np
  <2>4. CASE sum > REP_MAX
    <3>1. np > 0
      BY <1>1, <2>2, <2>4
    <3>2. v >= 0
      BY <1>2, <2>2, <2>3, <3>1
    <3>3. -m < v - sum /\ v - sum < m
      BY <1>1, <1>2, <2>2, <2>4, <3>2
    <3> DEFINE d == k * m
    <3>4. -m < d /\ d < m
      <4>1. d = v - sum
        <5>1. d \in Int
          BY <1>1
        <5> HIDE DEF d
        <5> QED BY <1>2, <1>3, <5>1 DEF d
      <4> HIDE DEF d
      <4> QED BY <3>3, <4>1
    <3>5. k = 0
      BY <1>1, <3>4, SmallMultiple
    <3> QED BY <1>1, <1>2, <1>3, <2>4, <3>5
  <2>5. CASE sum < -(REP_MAX + 1)
    <3>1. np < 0
      BY <1>1, <2>2, <2>5
    <3>2. v < 0
      BY <1>2, <2>2, <2>3, <3>1
    <3>3. -m < v - sum /\ v - sum < m
      BY <1>1, <1>2, <2>2, <2>5, <3>2
    <3> DEFINE d == k * m
    <3>4. -m < d /\ d < m
      <4>1. d = v - sum
        <5>1. d \in Int
          BY <1>1
        <5> HIDE DEF d
        <5> QED BY <1>2, <1>3, <5>1 DEF d
      <4> HIDE DEF d
      <4> QED BY <3>3, <4>1
    <3>5. k = 0
      BY <1>1, <3>4, SmallMultiple
    <3> QED BY <1>1, <1>2, <1>3, <2>5, <3>5
  <2> QED BY <2>1, <2>4, <2>5
<1> QED BY <1>2, <1>4

(* What is kept of the square of what is kept of a difference.             *)
LEMMA SquareKept ==
  ASSUME NEW a \in Int, NEW b \in Int
  PROVE  /\ abs_diff_squared(a, b) \in Int /\ (a - b) * (a - b) \in Nat
         /\ \E k \in Int : abs_diff_squared(a, b) = (a - b) * (a - b) + (k * Modulus(REP_MAX))
<1> DEFINE m == Modulus(REP_MAX)
           d == abs_diff(a, b)
<1>1. REP_MAX \in Nat /\ m \in Int
  BY BenchmarkAssumption DEF Modulus
<1>2. PICK e \in {a - b, b - a} : d = Wrapped(e)
  BY DEF abs_diff
<1>3. e \in Int /\ e * e = (a - b) * (a - b) /\ e * e \in Nat
  <2>1. CASE e = a - b
    <3>1. e \in Int
      BY <2>1
    <3>2. e * e \in Nat
      BY <3>1
    <3> QED BY <2>1, <3>1, <3>2
  <2>2. CASE e = b - a
    <3>1. e \in Int /\ a - b = -e
      BY <2>2
    <3>2. e * e \in Nat /\ e * e = (-e) * (-e)
      BY <3>1
    <3> QED BY <3>1, <3>2
  <2> QED BY <1>2, <2>1, <2>2
<1>4. PICK i \in Int : d = e + (i * m)
  BY <1>2, <1>3, KeptIs
<1> HIDE DEF d, m
<1>5. d \in Int /\ d * d \in Int
  BY <1>1, <1>3, <1>4
<1>6. PICK j \in Int : Wrapped(d * d) = d * d + (j * m)
  BY <1>5, KeptIs DEF m
<1> DEFINE im == i * m
           k == 2 * (e * i) + (i * im) + j
<1>7. k \in Int
  BY <1>1, <1>3
<1>8. d * d + (j * m) = e * e + (k * m)
  <2>1. d * d = e * e + 2 * (e * im) + (im * im)
    <3>1. d = e + im /\ im \in Int
      BY <1>1, <1>4
    <3> HIDE DEF im
    <3> QED BY <1>3, <3>1
  <2>2. k * m = 2 * ((e * i) * m) + ((i * im) * m) + (j * m)
    BY <1>1, <1>3
  <2>3. e * im = (e * i) * m /\ im * im = (i * im) * m
    BY <1>1, <1>3
  <2>4. e * e \in Int /\ e * im \in Int /\ im * im \in Int /\ j * m \in Int
    BY <1>1, <1>3
  <2> QED BY <2>1, <2>2, <2>3, <2>4
<1> HIDE DEF k
<1>9. abs_diff_squared(a, b) = Wrapped(d * d) /\ Wrapped(d * d) \in Int
  BY <1>5, MachineIntegers DEF abs_diff_squared, d
<1> QED BY <1>3, <1>6, <1>7, <1>8, <1>9 DEF m

(* The two halves of StatisticsAreSound.                                   *)
AverageSound ==
  average = Quotient(Total(measured), sample_count) <=> Holds(Total(measured))
DeviationSound ==
  Holds(Squares) =>
    \/ IsRoot(std_deviation, Squares \div sample_count)
    \/ /\ Squares \div sample_count > Precision
       /\ IsRoot(std_deviation - 1, Squares \div sample_count)

(* The average of a sequence of samples.                                   *)
LEMMA AverageIs ==
  ASSUME NEW s \in Seq(Int), Len(s) = sample_count
  PROVE  /\ Averaged(s) \in Int
         /\ Averaged(s) = Quotient(Total(s), sample_count) <=> Holds(Total(s))
<1>1. sample_count \in 1..REP_MAX /\ sample_count \in Nat \ {0}
  BY BenchmarkAssumption
<1>2. Total(s) \in Int /\ Accumulate(s) = Wrapped(Total(s))
  <2>1. \A j \in 1..Len(s) : \E k \in Int : s[j] = s[j] + (k * Modulus(REP_MAX))
    <3>1. \A j \in 1..Len(s) : s[j] = s[j] + (0 * Modulus(REP_MAX))
      <4>1. Modulus(REP_MAX) \in Int
        BY BenchmarkAssumption DEF Modulus
      <4>2. \A j \in 1..Len(s) : s[j] \in Int
        BY ElementOfSeq
      <4> QED BY <4>1, <4>2
    <3> QED BY <3>1
  <2>2. Int \in {Int, Nat}
    OBVIOUS
  <2> QED BY <2>1, <2>2, SumsAgree
<1>3. Wrapped(Total(s)) \in Int
  BY <1>2, MachineIntegers
<1>4. Averaged(s) = Quotient(Wrapped(Total(s)), sample_count)
  BY <1>2 DEF Averaged
<1> QED BY <1>1, <1>2, <1>3, <1>4, QuotientIs, OnlyIfHeld

(* The standard deviation of what median() left.                           *)
LEMMA DeviationIs ==
  ASSUME samples \in Seq(Int), Len(samples) = sample_count, average \in Int,
         std_deviation' \in StandardDeviations(samples, average),
         samples' = samples, average' = average
  PROVE  DeviationSound'
<1> DEFINE n == sample_count
           t == [j \in DOMAIN samples |-> abs_diff_squared(average, samples[j])]
           u == [j \in DOMAIN samples |-> (average - samples[j]) * (average - samples[j])]
<1>1. n \in Nat \ {0} /\ REP_MAX \in Nat /\ DOMAIN samples = 1..n
  BY BenchmarkAssumption
<1>2. \A j \in 1..n : samples[j] \in Int
  BY <1>1, ElementOfSeq
<1>3. t \in [1..n -> Int] /\ u \in [1..n -> Nat]
  BY <1>1, <1>2, SquareKept
<1>4. t \in Seq(Int) /\ u \in Seq(Nat) /\ Len(t) = n /\ Len(u) = n
  <2> HIDE DEF t, u
  <2>1. n \in Nat
    BY <1>1
  <2>2. t \in Seq(Int) /\ u \in Seq(Nat)
    <3>1. Seq(Int) = UNION {[1..i -> Int] : i \in Nat} /\ Seq(Nat) = UNION {[1..i -> Nat] : i \in Nat}
      BY SeqDef
    <3> QED BY <1>3, <2>1, <3>1, Zenon
  <2> QED BY <1>3, <2>1, <2>2
<1>5. \A j \in 1..n : \E k \in Int : t[j] = u[j] + (k * Modulus(REP_MAX))
  BY <1>1, <1>2, SquareKept
<1>6. Total(u) \in Nat /\ Accumulate(t) = Wrapped(Total(u))
  <2> HIDE DEF t, u
  <2>1. Nat \in {Int, Nat} /\ Len(t) = Len(u)
    BY <1>4
  <2> QED BY <1>4, <1>5, <2>1, SumsAgree
<1>7. Squares' = Total(u)
  BY DEF Squares
<1> DEFINE sum == Total(u)
           q == sum \div n
<1>8. std_deviation' \in Roots(Quotient(Wrapped(sum), n))
  <2>1. Averaged(t) = Quotient(Wrapped(sum), n)
    <3> HIDE DEF t, u
    <3> QED BY <1>4, <1>6 DEF Averaged
  <2> QED BY <2>1 DEF StandardDeviations
<1> HIDE DEF t, u, sum
<1>9. SUFFICES ASSUME Holds(sum)
      PROVE  IsRoot(std_deviation', q) \/ (q > Precision /\ IsRoot(std_deviation' - 1, q))
  BY <1>7 DEF DeviationSound, sum, IsRoot, Holds
<1>10. Wrapped(sum) = sum /\ sum \in Nat
  BY <1>1, <1>6, <1>9, SignedKeeps DEF Wrapped, Holds, sum
<1>11. Quotient(sum, n) = q /\ q >= 0 /\ q \in Int
  BY <1>1, <1>10 DEF Quotient
<1> HIDE DEF q
<1>12. std_deviation' \in {r \in 0..(q + 1) : IsRoot(r, q) \/ RoundsUpTo(r, q)}
  BY <1>8, <1>10, <1>11 DEF Roots
<1> QED BY <1>12 DEF RoundsUpTo

(* What is true of the statistics computed so far.                         *)
StatisticsInv ==
  /\ computing # "sample" => average \in Int /\ AverageSound
  /\ computing \in {"mad", "done"} => DeviationSound

(* Every step keeps it.                                                    *)
LEMMA StatisticsInvStep ==
  ASSUME BenchmarkInv, StatisticsInv, [BenchmarkNext]_benchmarkVars
  PROVE  StatisticsInv'
<1>1. /\ samples \in Seq(Int) /\ (computing = "sample" => samples = measured)
      /\ (computing # "sample" => Len(samples) = sample_count)
  <2>1. samples \in Seq(Measures)
    BY DEF BenchmarkInv
  <2> QED BY <2>1, MachineIntegers, SeqMonotonic DEF BenchmarkInv
<1>2. CASE Measure
  BY <1>2 DEF Measure, StatisticsInv
<1>3. CASE Average
  <2>1. /\ computing = "sample" /\ Len(measured) = sample_count /\ measured \in Seq(Int)
        /\ average' = Averaged(measured) /\ computing' = "median" /\ measured' = measured
    BY <1>1, <1>3 DEF Average
  <2>2. average' \in Int /\ AverageSound'
    BY <2>1, AverageIs DEF AverageSound
  <2> QED BY <2>1, <2>2 DEF StatisticsInv
<1>4. CASE Median
  BY <1>4 DEF Median, StatisticsInv, AverageSound
<1>5. CASE StandardDeviation
  <2>1. /\ computing = "deviation" /\ computing' = "mad"
        /\ std_deviation' \in StandardDeviations(samples, average)
        /\ UNCHANGED <<samples, average, measured>>
    BY <1>5 DEF StandardDeviation
  <2>2. DeviationSound'
    BY <1>1, <2>1, DeviationIs DEF StatisticsInv
  <2> QED BY <2>1, <2>2 DEF StatisticsInv, AverageSound
<1>6. CASE MedianAbsoluteDeviation
  BY <1>6 DEF MedianAbsoluteDeviation, StatisticsInv, AverageSound, DeviationSound, Squares
<1>7. CASE UNCHANGED benchmarkVars
  BY <1>7 DEF benchmarkVars, StatisticsInv, AverageSound, DeviationSound, Squares
<1> QED BY <1>2, <1>3, <1>4, <1>5, <1>6, <1>7 DEF BenchmarkNext

(* For any number of samples of any size: the average is that of the       *)
(* samples exactly when their type holds their sum, and the deviation is a *)
(* root of the average square whenever it holds the sum of the squares.    *)
THEOREM StatisticsDescribe == BenchmarkSpec => []StatisticsAreSound
<1>1. BenchmarkInit => StatisticsInv
  BY DEF BenchmarkInit, StatisticsInv
<1>2. BenchmarkInv /\ StatisticsInv /\ [BenchmarkNext]_benchmarkVars => StatisticsInv'
  BY StatisticsInvStep
<1>3. StatisticsInv => StatisticsAreSound
  BY DEF StatisticsInv, StatisticsAreSound, AverageSound, DeviationSound
<1> QED BY <1>1, <1>2, <1>3, BenchmarkInvInit, BenchmarkInvStep, PTL DEF BenchmarkSpec
=============================================================================
