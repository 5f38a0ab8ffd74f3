---------------------------- MODULE LoggerProofs ----------------------------
(***************************************************************************)
(* Lines of the simple logger are whole, and what its macros write was     *)
(* enabled, for any threads, streams and bounds.  LoggerInv is inductive:  *)
(* each line has at most one frame that will write to it or can, that      *)
(* frame knows which pieces the line has and on which stream it began, and *)
(* a line that ends has its end once no frame holds its stream.            *)
(***************************************************************************)
EXTENDS Logger, DataLemmas

Phases == {"check", "time", "level", "args"}
Pieces == [on : Streams, part : {"time", "level", "arg", "end"}]
LogFrames == [line : Nat, stream : Streams \cup {NULL}, checked : Nat, phase : Phases]
LogLines == [is : Statements, wrote : Seq(Pieces)]
LoggerTypeOK ==
    /\ configuration \in [enabled : BOOLEAN, ostream : Streams, level : Levels]
    /\ open \in [Threads -> Seq(LogFrames)]
    /\ lines \in Seq(LogLines)
    /\ sets \in Nat

(* What a line in progress looks like to the statement, or the ostream_line *)
(* that a frame stands for.                                                *)
FrameOK(f) ==
    /\ f.line \in 1 .. Len(lines)
    /\ f.phase \in {"check", "time"} => lines[f.line].wrote = <<>> /\ f.stream = NULL
    /\ f.phase = "level" => Len(lines[f.line].wrote) = 1 /\ f.stream # NULL
    /\ f.phase = "args" => lines[f.line].wrote # <<>>
    /\ f.stream # NULL => lines[f.line].wrote[1].on = f.stream
FramesOK == \A t \in Threads : \A i \in 1 .. Len(open[t]) : FrameOK(open[t][i])

(* A frame that will write, or can.  Each line has at most one.            *)
Active(f) == f.phase # "args" \/ f.stream # NULL
OneActive ==
    \A t, u \in Threads : \A i \in 1 .. Len(open[t]) : \A j \in 1 .. Len(open[u]) :
       open[t][i].line = open[u][j].line /\ Active(open[t][i]) /\ Active(open[u][j])
          => t = u /\ i = j

(* The pieces of a line, and the end of one that ends.                     *)
Whole(w) ==
    \A i \in 1 .. Len(w) :
       /\ w[i].on = w[1].on
       /\ w[i].part = "time" <=> i = 1
       /\ w[i].part = "level" => i = 2
       /\ w[i].part = "end" => i = Len(w)
LineOK(line) ==
    /\ Whole(line.wrote)
    /\ \A i \in 1 .. Len(line.wrote) : line.wrote[i].part = "end" => line.is.ends
Live(l) ==
    \E t \in Threads : \E i \in 1 .. Len(open[t]) :
       open[t][i].line = l /\ open[t][i].stream # NULL
Ended(l) ==
    lines[l].is.ends /\ lines[l].wrote # <<>> =>
       (Innermost(lines[l].wrote).part = "end" <=> ~Live(l))
LinesOK == \A l \in 1 .. Len(lines) : LineOK(lines[l]) /\ Ended(l)

(* What the check of a macro found still holds when it writes the time,    *)
(* unless the configuration was set since.                                 *)
Checked(f) ==
    f.phase = "time" /\ lines[f.line].is.macro =>
       /\ f.checked <= sets
       /\ f.checked = sets => LogEnabled(lines[f.line].is.level)
AllChecked == \A t \in Threads : \A i \in 1 .. Len(open[t]) : Checked(open[t][i])

LoggerInv == LoggerTypeOK /\ FramesOK /\ OneActive /\ LinesOK

(* A program that has not logged.                                          *)
LEMMA LoggerInvInit == LoggerInit => LoggerInv /\ AllChecked
<1>. SUFFICES ASSUME LoggerInit
              PROVE  LoggerInv /\ AllChecked
  OBVIOUS
<1>1. open \in [Threads -> Seq(LogFrames)] /\ \A t \in Threads : Len(open[t]) = 0
  BY EmptySeq DEF LoggerInit
<1>2. lines \in Seq(LogLines) /\ Len(lines) = 0
  BY EmptySeq DEF LoggerInit
<1>3. configuration \in [enabled : BOOLEAN, ostream : Streams, level : Levels]
  BY LoggerAssumption DEF LoggerInit, Initially
<1>4. sets \in Nat
  BY DEF LoggerInit
<1>5. LoggerTypeOK
  BY <1>1, <1>2, <1>3, <1>4 DEF LoggerTypeOK
<1>. QED BY <1>1, <1>2, <1>5 DEF LoggerInv, FramesOK, OneActive, LinesOK, AllChecked

(* The innermost frame of a thread with a statement under way.             *)
LEMMA TopIsFrame ==
  ASSUME LoggerInv, NEW t \in Threads, open[t] # <<>>
  PROVE  /\ Len(open[t]) \in 1 .. Len(open[t]) /\ Len(open[t]) \in Nat \ {0}
         /\ Top(t) = open[t][Len(open[t])] /\ Top(t) \in LogFrames /\ FrameOK(Top(t))
         /\ lines[Top(t).line] \in LogLines
<1>1. open[t] \in Seq(LogFrames) /\ lines \in Seq(LogLines)
  BY DEF LoggerInv, LoggerTypeOK
<1>2. Len(open[t]) \in Nat \ {0}
  BY <1>1, EmptySeq
<1>3. Len(open[t]) \in 1 .. Len(open[t])
  BY <1>2
<1>4. Top(t) = open[t][Len(open[t])]
  BY DEF Top, Innermost
<1>5. Top(t) \in LogFrames /\ FrameOK(Top(t))
  BY <1>1, <1>3, <1>4, ElementOfSeq DEF LoggerInv, FramesOK
<1>6. lines[Top(t).line] \in LogLines
  BY <1>1, <1>5, ElementOfSeq DEF FrameOK
<1>. QED BY <1>2, <1>3, <1>4, <1>5, <1>6

(* The innermost frame is replaced, or goes.                               *)
LEMMA BecomesShape ==
  ASSUME LoggerTypeOK, NEW t \in Threads, open[t] # <<>>, NEW f \in LogFrames, Becomes(t, f)
  PROVE  /\ open' \in [Threads -> Seq(LogFrames)]
         /\ \A u \in Threads : u # t => open'[u] = open[u]
         /\ Len(open'[t]) = Len(open[t]) /\ open'[t][Len(open[t])] = f
         /\ \A i \in 1 .. Len(open[t]) - 1 : open'[t][i] = open[t][i]
<1> DEFINE s == open[t]
           r == SubSeq(s, 1, Len(s) - 1)
<1>1. s \in Seq(LogFrames) /\ s # <<>>
  BY DEF LoggerTypeOK
<1>2. r \in Seq(LogFrames) /\ Len(r) = Len(s) - 1 /\ Len(s) \in Nat \ {0}
  BY <1>1, ButLast
<1>3. \A i \in 1 .. Len(s) - 1 : r[i] = s[i]
  BY <1>1, <1>2, SubSeqElements
<1>4. open' = [open EXCEPT ![t] = Append(r, f)]
  BY DEF Becomes
<1> HIDE DEF r
<1>5. /\ Append(r, f) \in Seq(LogFrames) /\ Len(Append(r, f)) = Len(s)
      /\ Append(r, f)[Len(s)] = f /\ \A i \in 1 .. Len(s) - 1 : Append(r, f)[i] = r[i]
  BY <1>2, AppendProperties
<1>6. /\ open'[t] = Append(r, f) /\ \A u \in Threads : u # t => open'[u] = open[u]
      /\ open' \in [Threads -> Seq(LogFrames)]
  BY <1>4, <1>5 DEF LoggerTypeOK
<1>. QED BY <1>3, <1>5, <1>6

(* The innermost frame goes; those below it stay.                          *)
LEMMA ClosesShape ==
  ASSUME LoggerTypeOK, NEW t \in Threads, open[t] # <<>>, Closes(t)
  PROVE  /\ open' \in [Threads -> Seq(LogFrames)]
         /\ \A u \in Threads : u # t => open'[u] = open[u]
         /\ Len(open'[t]) = Len(open[t]) - 1
         /\ \A i \in 1 .. Len(open[t]) - 1 : open'[t][i] = open[t][i]
<1> DEFINE s == open[t]
           r == SubSeq(s, 1, Len(s) - 1)
<1>1. s \in Seq(LogFrames) /\ s # <<>>
  BY DEF LoggerTypeOK
<1>2. r \in Seq(LogFrames) /\ Len(r) = Len(s) - 1
  BY <1>1, ButLast
<1>3. \A i \in 1 .. Len(s) - 1 : r[i] = s[i]
  BY <1>1, SubSeqElements
<1>4. open' = [open EXCEPT ![t] = r]
  BY DEF Closes
<1> HIDE DEF r
<1>5. /\ open'[t] = r /\ \A u \in Threads : u # t => open'[u] = open[u]
      /\ open' \in [Threads -> Seq(LogFrames)]
  BY <1>2, <1>4 DEF LoggerTypeOK
<1>. QED BY <1>2, <1>3, <1>5

(* A piece is written: its line grows by it, the others stay.              *)
LEMMA WriteShape ==
  ASSUME LoggerTypeOK, NEW l \in 1 .. Len(lines), NEW p \in Pieces,
         lines' = [lines EXCEPT ![l].wrote = Append(@, p)]
  PROVE  /\ lines' \in Seq(LogLines) /\ Len(lines') = Len(lines)
         /\ \A k \in 1 .. Len(lines) : k # l => lines'[k] = lines[k]
         /\ lines[l] \in LogLines /\ lines'[l].is = lines[l].is
         /\ lines'[l].wrote = Append(lines[l].wrote, p)
<1>1. lines \in Seq(LogLines) /\ lines[l] \in LogLines
  BY ElementOfSeq DEF LoggerTypeOK
<1>2. lines[l].wrote \in Seq(Pieces) /\ lines[l].is \in Statements
  BY <1>1 DEF LogLines
<1>3. PICK w : w = Append(lines[l].wrote, p)
  OBVIOUS
<1>4. w \in Seq(Pieces)
  BY <1>2, <1>3, AppendProperties
<1>5. PICK new : new = [is |-> lines[l].is, wrote |-> w]
  OBVIOUS
<1>6. new \in LogLines /\ new.is = lines[l].is /\ new.wrote = w
  BY <1>2, <1>4, <1>5 DEF LogLines
<1>7. [lines[l] EXCEPT !.wrote = w] = new
  BY <1>1, <1>5 DEF LogLines
<1>8. lines' = [lines EXCEPT ![l] = new]
  BY <1>3, <1>7
<1>9. PICK s : s = [lines EXCEPT ![l] = new]
  OBVIOUS
<1>10. /\ s \in Seq(LogLines) /\ Len(s) = Len(lines)
       /\ \A k \in 1 .. Len(lines) : s[k] = IF k = l THEN new ELSE lines[k]
  BY <1>1, <1>6, <1>9, ExceptSeq
<1>11. lines' = s
  BY <1>8, <1>9
<1>. QED BY <1>1, <1>3, <1>6, <1>10, <1>11

(* Whole lines stay whole when a piece is added in its place.              *)
LEMMA WholeGrows ==
  ASSUME NEW w \in Seq(Pieces), NEW p \in Pieces, Whole(w),
         w = <<>> <=> p.part = "time",
         p.part = "level" => Len(w) = 1,
         w # <<>> => p.on = w[1].on /\ w[Len(w)].part # "end"
  PROVE  /\ Whole(Append(w, p)) /\ Append(w, p) # <<>> /\ Len(Append(w, p)) = Len(w) + 1
         /\ Append(w, p)[Len(w) + 1] = p
         /\ \A i \in 1 .. Len(w) : Append(w, p)[i] = w[i] /\ w[i].part # "end"
<1> DEFINE v == Append(w, p)
<1>1. /\ Len(v) = Len(w) + 1 /\ v[Len(w) + 1] = p /\ v # <<>>
      /\ \A i \in 1 .. Len(w) : v[i] = w[i]
      /\ Len(w) \in Nat
  BY AppendProperties, LenProperties
<1> HIDE DEF v
<1>2. w = <<>> <=> Len(w) = 0
  BY EmptySeq
<1>3. \A i \in 1 .. Len(w) : w[i].part # "end"
  <2>. SUFFICES ASSUME NEW i \in 1 .. Len(w), w[i].part = "end"
                PROVE  FALSE
    OBVIOUS
  <2>1. i = Len(w)
    BY DEF Whole
  <2>2. w # <<>>
    BY <1>1, <1>2
  <2>. QED BY <2>1, <2>2
<1>4. ASSUME NEW i \in 1 .. Len(v)
      PROVE  /\ v[i].on = v[1].on
             /\ v[i].part = "time" <=> i = 1
             /\ v[i].part = "level" => i = 2
             /\ v[i].part = "end" => i = Len(v)
  <2>1. CASE i \in 1 .. Len(w)
    <3>1. v[i] = w[i] /\ v[1] = w[1]
      BY <1>1, <2>1
    <3>. QED BY <1>3, <2>1, <3>1 DEF Whole
  <2>2. CASE i = Len(w) + 1
    <3>1. v[i] = p /\ (i = 1 <=> w = <<>>)
      BY <1>1, <1>2, <2>2
    <3>2. w # <<>> => v[1] = w[1]
      BY <1>1, <1>2
    <3>. QED BY <1>1, <1>2, <2>2, <3>1, <3>2
  <2>. QED BY <1>1, <2>1, <2>2
<1>. QED BY <1>1, <1>3, <1>4 DEF v, Whole

(* A line that somebody can still write to has not ended.                  *)
LEMMA LiveHasNotEnded ==
  ASSUME LoggerInv, NEW l \in 1 .. Len(lines), Live(l), lines[l].wrote # <<>>
  PROVE  lines[l].wrote[Len(lines[l].wrote)].part # "end"
<1>0. lines[l] \in LogLines
  BY ElementOfSeq DEF LoggerInv, LoggerTypeOK
<1>1. lines[l].wrote \in Seq(Pieces)
  BY <1>0 DEF LogLines
<1>2. Len(lines[l].wrote) \in 1 .. Len(lines[l].wrote)
  BY <1>1, EmptySeq
<1>3. LineOK(lines[l]) /\ Ended(l)
  BY DEF LoggerInv, LinesOK
<1>. QED BY <1>2, <1>3 DEF LineOK, Ended, Innermost

(* What a statement writes leaves the frames of others as they should be.  *)
LEMMA Written ==
  ASSUME LoggerInv, NEW l \in 1 .. Len(lines), NEW p \in Pieces,
         lines' = [lines EXCEPT ![l].wrote = Append(@, p)],
         lines[l].wrote = <<>> <=> p.part = "time",
         p.part = "level" => Len(lines[l].wrote) = 1,
         lines[l].wrote # <<>> =>
            p.on = lines[l].wrote[1].on /\ lines[l].wrote[Len(lines[l].wrote)].part # "end",
         p.part = "end" => lines[l].is.ends
  PROVE  /\ lines' \in Seq(LogLines) /\ Len(lines') = Len(lines)
         /\ lines'[l].is = lines[l].is /\ lines'[l].wrote # <<>>
         /\ Len(lines'[l].wrote) = Len(lines[l].wrote) + 1
         /\ Innermost(lines'[l].wrote) = p
         /\ lines'[l].wrote[1].on = p.on
         /\ LineOK(lines'[l])
         /\ \A k \in 1 .. Len(lines) : k # l => lines'[k] = lines[k]
         /\ \A g \in LogFrames :
               FrameOK(g) /\ (g.line = l => ~Active(g)) => FrameOK(g)'
<1> DEFINE w == lines[l].wrote
           v == Append(w, p)
<1>1. /\ lines' \in Seq(LogLines) /\ Len(lines') = Len(lines)
      /\ \A k \in 1 .. Len(lines) : k # l => lines'[k] = lines[k]
      /\ lines[l] \in LogLines /\ lines'[l].is = lines[l].is
      /\ lines'[l].wrote = v
  BY WriteShape DEF LoggerInv
<1>2. w \in Seq(Pieces) /\ LineOK(lines[l])
  BY <1>1 DEF LogLines, LoggerInv, LinesOK
<1>3. /\ Whole(v) /\ v # <<>> /\ Len(v) = Len(w) + 1 /\ v[Len(w) + 1] = p
      /\ \A i \in 1 .. Len(w) : v[i] = w[i] /\ w[i].part # "end"
  BY <1>2, WholeGrows DEF LineOK
<1>4. Len(w) \in Nat /\ (w = <<>> <=> Len(w) = 0)
  BY <1>2, LenProperties, EmptySeq
<1> HIDE DEF v
<1>5. v[1].on = p.on
  BY <1>3, <1>4
<1>6. \A i \in 1 .. Len(v) : v[i].part = "end" => lines[l].is.ends
  <2>1. \A i \in 1 .. Len(v) : i \in 1 .. Len(w) \/ i = Len(w) + 1
    BY <1>3, <1>4
  <2>. QED BY <1>3, <2>1
<1>7. ASSUME NEW g \in LogFrames, FrameOK(g), g.line = l => ~Active(g)
      PROVE  FrameOK(g)'
  <2>1. g.line \in 1 .. Len(lines')
    BY <1>1, <1>7 DEF FrameOK
  <2>2. CASE g.line = l
    BY <1>1, <1>3, <1>7, <2>1, <2>2 DEF FrameOK, Active
  <2>3. CASE g.line # l
    BY <1>1, <1>7, <2>1, <2>3 DEF FrameOK
  <2>. QED BY <2>2, <2>3
<1>. QED BY <1>1, <1>3, <1>5, <1>6, <1>7 DEF LineOK, Innermost

(* Lines other than one stay, and so does who can write to them.           *)
LEMMA LinesElsewhere ==
  ASSUME LoggerInv, NEW m \in 1 .. Len(lines), Len(lines') = Len(lines),
         \A l \in 1 .. Len(lines) : l # m => lines'[l] = lines[l] /\ (Live(l)' <=> Live(l)),
         LineOK(lines'[m]), Ended(m)'
  PROVE  LinesOK'
<1>1. ASSUME NEW l \in 1 .. Len(lines), l # m
      PROVE  LineOK(lines'[l]) /\ Ended(l)'
  <2>1. lines'[l] = lines[l] /\ (Live(l)' <=> Live(l)) /\ LineOK(lines[l]) /\ Ended(l)
    BY <1>1 DEF LoggerInv, LinesOK
  <2>. QED BY <2>1 DEF Ended
<1>. QED BY <1>1 DEF LinesOK

(* The innermost frame of a thread is replaced by one of the same line.    *)
LEMMA TopReplaced ==
  ASSUME LoggerInv, NEW t \in Threads, open[t] # <<>>, NEW f \in LogFrames, Becomes(t, f),
         f.line = Top(t).line, Active(f) => Active(Top(t))
  PROVE  /\ open' \in [Threads -> Seq(LogFrames)]
         /\ OneActive'
         /\ \A l : l # f.line => (Live(l)' <=> Live(l))
         /\ f.stream # NULL => Live(f.line)'
         /\ (f.stream = NULL <=> Top(t).stream = NULL) => (Live(f.line)' <=> Live(f.line))
         /\ \A u \in Threads : \A i \in 1 .. Len(open'[u]) :
               \/ open'[u][i] = f
               \/ /\ i \in 1 .. Len(open[u]) /\ open'[u][i] = open[u][i]
                  /\ Active(Top(t)) /\ open[u][i].line = f.line => ~Active(open[u][i])
<1> DEFINE n == Len(open[t])
<1>1. /\ open' \in [Threads -> Seq(LogFrames)]
      /\ \A u \in Threads : u # t => open'[u] = open[u]
      /\ Len(open'[t]) = n /\ open'[t][n] = f
      /\ \A i \in 1 .. n - 1 : open'[t][i] = open[t][i]
  BY BecomesShape DEF LoggerInv
<1>2. n \in 1 .. n /\ n \in Nat \ {0} /\ Top(t) = open[t][n]
  BY TopIsFrame
<1> HIDE DEF n
<1>3. \A u \in Threads : Len(open'[u]) = Len(open[u])
  BY <1>1 DEF n
<1>4. \A u \in Threads : \A i \in 1 .. Len(open[u]) :
         open'[u][i] = IF u = t /\ i = n THEN f ELSE open[u][i]
  <2>1. \A i \in 1 .. n : i \in 1 .. n - 1 \/ i = n
    BY <1>2
  <2>. QED BY <1>1, <2>1 DEF n
<1>5. n \in 1 .. Len(open[t])
  BY <1>2 DEF n
<1>6. ASSUME NEW u \in Threads, NEW i \in 1 .. Len(open[u]), ~(u = t /\ i = n),
             Active(Top(t)), open[u][i].line = f.line
      PROVE  ~Active(open[u][i])
  BY <1>2, <1>5, <1>6 DEF LoggerInv, OneActive
<1>7. OneActive'
  <2>. SUFFICES ASSUME NEW u \in Threads, NEW v \in Threads,
                       NEW i \in 1 .. Len(open[u]), NEW j \in 1 .. Len(open[v]),
                       open'[u][i].line = open'[v][j].line,
                       Active(open'[u][i]), Active(open'[v][j])
                PROVE  u = v /\ i = j
    BY <1>3 DEF OneActive, Active
  <2>1. /\ open[u][i].line = open'[u][i].line /\ Active(open[u][i])
        /\ open[v][j].line = open'[v][j].line /\ Active(open[v][j])
    BY <1>2, <1>4
  <2>. QED BY <2>1 DEF LoggerInv, OneActive
<1>8. ASSUME NEW l, l # f.line
      PROVE  Live(l)' <=> Live(l)
  <2>1. \A u \in Threads : \A i \in 1 .. Len(open[u]) :
           (open'[u][i].line = l /\ open'[u][i].stream # NULL)
             <=> (open[u][i].line = l /\ open[u][i].stream # NULL)
    BY <1>2, <1>4, <1>8
  <2>. QED BY <1>3, <2>1 DEF Live
<1>9. f.stream # NULL => Live(f.line)'
  BY <1>3, <1>4, <1>5 DEF Live
<1>10. ASSUME f.stream = NULL <=> Top(t).stream = NULL
       PROVE  Live(f.line)' <=> Live(f.line)
  <2>1. \A u \in Threads : \A i \in 1 .. Len(open[u]) :
           (open'[u][i].line = f.line /\ open'[u][i].stream # NULL)
             <=> (open[u][i].line = f.line /\ open[u][i].stream # NULL)
    BY <1>2, <1>4, <1>10
  <2>. QED BY <1>3, <2>1 DEF Live
<1>11. ASSUME NEW u \in Threads, NEW i \in 1 .. Len(open'[u])
       PROVE  \/ open'[u][i] = f
              \/ /\ i \in 1 .. Len(open[u]) /\ open'[u][i] = open[u][i]
                 /\ Active(Top(t)) /\ open[u][i].line = f.line => ~Active(open[u][i])
  BY <1>3, <1>4, <1>6
<1>. QED BY <1>1, <1>7, <1>8, <1>9, <1>10, <1>11

(* The innermost frame of a thread goes.                                   *)
LEMMA TopClosed ==
  ASSUME LoggerInv, NEW t \in Threads, open[t] # <<>>, Closes(t)
  PROVE  /\ open' \in [Threads -> Seq(LogFrames)]
         /\ OneActive'
         /\ \A l : l # Top(t).line \/ Top(t).stream = NULL => (Live(l)' <=> Live(l))
         /\ \A l : l = Top(t).line /\ Active(Top(t)) => ~Live(l)'
         /\ \A u \in Threads : \A i \in 1 .. Len(open'[u]) :
               /\ i \in 1 .. Len(open[u]) /\ open'[u][i] = open[u][i]
               /\ Active(Top(t)) /\ open[u][i].line = Top(t).line => ~Active(open[u][i])
<1> DEFINE n == Len(open[t])
<1>1. /\ open' \in [Threads -> Seq(LogFrames)]
      /\ \A u \in Threads : u # t => open'[u] = open[u]
      /\ Len(open'[t]) = n - 1
      /\ \A i \in 1 .. n - 1 : open'[t][i] = open[t][i]
  BY ClosesShape DEF LoggerInv
<1>2. n \in Nat \ {0} /\ Top(t) = open[t][n] /\ n \in 1 .. Len(open[t])
  BY TopIsFrame
<1> HIDE DEF n
<1>3. \A u \in Threads : \A i \in 1 .. Len(open'[u]) :
         i \in 1 .. Len(open[u]) /\ open'[u][i] = open[u][i] /\ ~(u = t /\ i = n)
  <2>1. \A i \in 1 .. n - 1 : i \in 1 .. n /\ i # n
    BY <1>2
  <2>. QED BY <1>1, <2>1 DEF n
<1>4. \A u \in Threads : \A i \in 1 .. Len(open[u]) :
         i \in 1 .. Len(open'[u]) \/ (u = t /\ i = n)
  <2>1. \A i \in 1 .. n : i \in 1 .. n - 1 \/ i = n
    BY <1>2
  <2>. QED BY <1>1, <2>1 DEF n
<1>5. ASSUME NEW u \in Threads, NEW i \in 1 .. Len(open'[u]),
             Active(Top(t)), open[u][i].line = Top(t).line
      PROVE  ~Active(open[u][i])
  BY <1>2, <1>3, <1>5 DEF LoggerInv, OneActive
<1>6. OneActive'
  <2>. SUFFICES ASSUME NEW u \in Threads, NEW v \in Threads,
                       NEW i \in 1 .. Len(open'[u]), NEW j \in 1 .. Len(open'[v]),
                       open'[u][i].line = open'[v][j].line,
                       Active(open'[u][i]), Active(open'[v][j])
                PROVE  u = v /\ i = j
    BY DEF OneActive, Active
  <2>1. /\ i \in 1 .. Len(open[u]) /\ open[u][i] = open'[u][i]
        /\ j \in 1 .. Len(open[v]) /\ open[v][j] = open'[v][j]
    BY <1>3
  <2>2. /\ Active(open[u][i]) /\ Active(open[v][j])
        /\ open[u][i].line = open[v][j].line
    BY <2>1
  <2>3. OneActive
    BY DEF LoggerInv
  <2>. QED BY <2>1, <2>2, <2>3 DEF OneActive
<1>7. ASSUME NEW l, l # Top(t).line \/ Top(t).stream = NULL
      PROVE  Live(l)' <=> Live(l)
  <2>1. Live(l)' => Live(l)
    BY <1>3 DEF Live
  <2>2. ASSUME Live(l)
        PROVE  Live(l)'
    <3>1. PICK u \in Threads : \E i \in 1 .. Len(open[u]) :
                  open[u][i].line = l /\ open[u][i].stream # NULL
      BY <2>2 DEF Live
    <3>2. PICK i \in 1 .. Len(open[u]) : open[u][i].line = l /\ open[u][i].stream # NULL
      BY <3>1
    <3>3. ~(u = t /\ i = n)
      BY <1>2, <1>7, <3>2
    <3>4. i \in 1 .. Len(open'[u]) /\ open'[u][i] = open[u][i]
      BY <1>3, <1>4, <3>3
    <3>. QED BY <3>2, <3>4 DEF Live
  <2>. QED BY <2>1, <2>2
<1>8. ASSUME NEW l, l = Top(t).line, Active(Top(t))
      PROVE  ~Live(l)'
  <2>. SUFFICES ASSUME NEW u \in Threads, NEW i \in 1 .. Len(open'[u]), open'[u][i].line = l
                PROVE  open'[u][i].stream = NULL
    BY DEF Live
  <2>1. open'[u][i] = open[u][i] /\ ~Active(open[u][i])
    BY <1>3, <1>5, <1>8
  <2>. QED BY <2>1 DEF Active
<1>. QED BY <1>1, <1>3, <1>5, <1>6, <1>7, <1>8

-----------------------------------------------------------------------------
(* The logger's steps                                                      *)

LEMMA FramesAreOK ==
  ASSUME \A u \in Threads : \A i \in 1 .. Len(open'[u]) : \E g : g = open'[u][i] /\ FrameOK(g)'
  PROVE  FramesOK'
BY DEF FramesOK, FrameOK

(* Steps that touch neither lines nor frames.                              *)
LEMMA NothingLogged ==
  ASSUME LoggerInv, UNCHANGED <<open, lines>>
  PROVE  FramesOK' /\ OneActive' /\ LinesOK'
<1>1. \A l : Live(l)' <=> Live(l)
  BY DEF Live
<1>2. \A l \in 1 .. Len(lines) : Ended(l)' <=> Ended(l)
  BY <1>1 DEF Ended
<1>. QED BY <1>2 DEF LoggerInv, FramesOK, FrameOK, OneActive, LinesOK

(* The setters change no line, whoever is writing one.                     *)
LEMMA SetKeeps ==
  ASSUME LoggerInv, NEW t \in Threads, Set(t)
  PROVE  LoggerInv'
<1>1. configuration' \in [enabled : BOOLEAN, ostream : Streams, level : Levels]
  <2>1. configuration \in [enabled : BOOLEAN, ostream : Streams, level : Levels]
    BY DEF LoggerInv, LoggerTypeOK
  <2>2. CASE \E b \in BOOLEAN : configuration' = [configuration EXCEPT !.enabled = b]
    BY <2>1, <2>2
  <2>3. CASE \E s \in Streams : configuration' = [configuration EXCEPT !.ostream = s]
    BY <2>1, <2>3
  <2>4. CASE \E l \in Levels : configuration' = [configuration EXCEPT !.level = l]
    BY <2>1, <2>4
  <2>. QED BY <2>2, <2>3, <2>4 DEF Set
<1>2. UNCHANGED <<open, lines>> /\ sets' \in Nat
  BY DEF Set, LoggerInv, LoggerTypeOK
<1>3. LoggerTypeOK'
  BY <1>1, <1>2 DEF LoggerInv, LoggerTypeOK
<1>. QED BY <1>2, <1>3, NothingLogged DEF LoggerInv

(* A new line has one frame, and is empty.                                 *)
LEMMA BeginsShape ==
  ASSUME LoggerInv, NEW t \in Threads, Begins(t)
  PROVE  \E f \in LogFrames, line \in LogLines :
            /\ lines' \in Seq(LogLines) /\ Len(lines') = Len(lines) + 1
            /\ \A l \in 1 .. Len(lines) : lines'[l] = lines[l]
            /\ lines'[Len(lines) + 1] = line /\ line.wrote = <<>>
            /\ open' \in [Threads -> Seq(LogFrames)]
            /\ \A u \in Threads : u # t => open'[u] = open[u]
            /\ Len(open'[t]) = Len(open[t]) + 1 /\ open'[t][Len(open[t]) + 1] = f
            /\ \A i \in 1 .. Len(open[t]) : open'[t][i] = open[t][i]
            /\ f.line = Len(lines) + 1 /\ f.stream = NULL
            /\ f.phase = IF line.is.macro THEN "check" ELSE "time"
            /\ UNCHANGED <<configuration, sets, crashed>>
<1>1. PICK s \in Statements :
         /\ lines' = Append(lines, [is |-> s, wrote |-> <<>>])
         /\ open' = [open EXCEPT ![t] = Append(@,
              [line |-> Len(lines'), stream |-> NULL, checked |-> sets,
               phase |-> IF s.macro THEN "check" ELSE "time"])]
         /\ UNCHANGED <<configuration, sets, crashed>>
  BY DEF Begins
<1>2. lines \in Seq(LogLines) /\ Len(lines) \in Nat /\ open[t] \in Seq(LogFrames)
      /\ sets \in Nat
  BY LenProperties DEF LoggerInv, LoggerTypeOK
<1>3. PICK line : line = [is |-> s, wrote |-> <<>>]
  OBVIOUS
<1>4. <<>> \in Seq(Pieces)
  BY EmptySeq
<1>5. line \in LogLines /\ line.wrote = <<>> /\ line.is = s
  BY <1>3, <1>4 DEF LogLines
<1>6. /\ lines' \in Seq(LogLines) /\ Len(lines') = Len(lines) + 1
      /\ \A l \in 1 .. Len(lines) : lines'[l] = lines[l]
      /\ lines'[Len(lines) + 1] = line
  BY <1>1, <1>2, <1>3, <1>5, AppendProperties
<1>7. PICK f : f = [line |-> Len(lines) + 1, stream |-> NULL, checked |-> sets,
                    phase |-> IF s.macro THEN "check" ELSE "time"]
  OBVIOUS
<1>8. /\ f \in LogFrames /\ f.line = Len(lines) + 1 /\ f.stream = NULL
      /\ f.phase = IF s.macro THEN "check" ELSE "time"
  BY <1>2, <1>7 DEF LogFrames, Phases
<1>9. open' = [open EXCEPT ![t] = Append(@, f)]
  BY <1>1, <1>6, <1>7
<1>10. /\ Append(open[t], f) \in Seq(LogFrames)
       /\ Len(Append(open[t], f)) = Len(open[t]) + 1
       /\ Append(open[t], f)[Len(open[t]) + 1] = f
       /\ \A i \in 1 .. Len(open[t]) : Append(open[t], f)[i] = open[t][i]
  BY <1>2, <1>8, AppendProperties
<1>11. /\ open'[t] = Append(open[t], f)
       /\ \A u \in Threads : u # t => open'[u] = open[u]
       /\ open' \in [Threads -> Seq(LogFrames)]
  BY <1>9, <1>10 DEF LoggerInv, LoggerTypeOK
<1>. QED BY <1>1, <1>5, <1>6, <1>8, <1>10, <1>11

(* A statement that begins, also in the arguments of another.              *)
LEMMA BeginsKeeps ==
  ASSUME LoggerInv, NEW t \in Threads, Begins(t)
  PROVE  LoggerInv'
<1>1. PICK f \in LogFrames, line \in LogLines :
         /\ lines' \in Seq(LogLines) /\ Len(lines') = Len(lines) + 1
         /\ \A l \in 1 .. Len(lines) : lines'[l] = lines[l]
         /\ lines'[Len(lines) + 1] = line /\ line.wrote = <<>>
         /\ open' \in [Threads -> Seq(LogFrames)]
         /\ \A u \in Threads : u # t => open'[u] = open[u]
         /\ Len(open'[t]) = Len(open[t]) + 1 /\ open'[t][Len(open[t]) + 1] = f
         /\ \A i \in 1 .. Len(open[t]) : open'[t][i] = open[t][i]
         /\ f.line = Len(lines) + 1 /\ f.stream = NULL
         /\ f.phase = IF line.is.macro THEN "check" ELSE "time"
         /\ UNCHANGED <<configuration, sets, crashed>>
  BY BeginsShape
<1>2. /\ Len(lines) \in Nat /\ \A u \in Threads : Len(open[u]) \in Nat
      /\ \A u \in Threads : \A i \in 1 .. Len(open[u]) :
            FrameOK(open[u][i]) /\ open[u][i].line # f.line
  <2>1. Len(lines) \in Nat /\ \A u \in Threads : Len(open[u]) \in Nat
    BY LenProperties DEF LoggerInv, LoggerTypeOK
  <2>2. ASSUME NEW u \in Threads, NEW i \in 1 .. Len(open[u])
        PROVE  FrameOK(open[u][i]) /\ open[u][i].line # f.line
    <3>1. FrameOK(open[u][i]) /\ open[u][i].line \in 1 .. Len(lines)
      BY DEF LoggerInv, FramesOK, FrameOK
    <3>. QED BY <1>1, <2>1, <3>1
  <2>. QED BY <2>1, <2>2
<1>3. \A u \in Threads : \A i \in 1 .. Len(open'[u]) :
         \/ u = t /\ i = Len(open[t]) + 1 /\ open'[u][i] = f
         \/ i \in 1 .. Len(open[u]) /\ open'[u][i] = open[u][i]
  <2>1. \A i \in 1 .. Len(open'[t]) : i \in 1 .. Len(open[t]) \/ i = Len(open[t]) + 1
    BY <1>1, <1>2
  <2>. QED BY <1>1, <2>1
<1>4. \A u \in Threads : \A i \in 1 .. Len(open[u]) :
         i \in 1 .. Len(open'[u]) /\ open'[u][i] = open[u][i]
  <2>1. \A i \in 1 .. Len(open[t]) : i \in 1 .. Len(open'[t])
    BY <1>1, <1>2
  <2>. QED BY <1>1, <2>1
<1>5. LoggerTypeOK'
  BY <1>1 DEF LoggerInv, LoggerTypeOK
<1>6. FramesOK'
  <2>1. FrameOK(f)'
    <3>1. f.line \in 1 .. Len(lines') /\ lines'[f.line].wrote = <<>>
      BY <1>1, <1>2
    <3>. QED BY <1>1, <3>1 DEF FrameOK
  <2>2. ASSUME NEW g \in LogFrames, FrameOK(g)
        PROVE  FrameOK(g)'
    <3>1. g.line \in 1 .. Len(lines') /\ lines'[g.line] = lines[g.line]
      BY <1>1, <1>2, <2>2 DEF FrameOK
    <3>. QED BY <2>2, <3>1 DEF FrameOK
  <2>3. ASSUME NEW u \in Threads, NEW i \in 1 .. Len(open'[u])
        PROVE  \E g : g = open'[u][i] /\ FrameOK(g)'
    <3>1. CASE open'[u][i] = f
      BY <2>1, <3>1
    <3>2. CASE i \in 1 .. Len(open[u]) /\ open'[u][i] = open[u][i]
      <4>1. open[u][i] \in LogFrames
        BY <3>2, ElementOfSeq DEF LoggerInv, LoggerTypeOK
      <4>. QED BY <1>2, <2>2, <3>2, <4>1
    <3>. QED BY <1>3, <3>1, <3>2
  <2>. QED BY <2>3, FramesAreOK
<1>7. OneActive'
  <2>. SUFFICES ASSUME NEW u \in Threads, NEW v \in Threads,
                       NEW i \in 1 .. Len(open'[u]), NEW j \in 1 .. Len(open'[v]),
                       open'[u][i].line = open'[v][j].line,
                       Active(open'[u][i]), Active(open'[v][j])
                PROVE  u = v /\ i = j
    BY DEF OneActive, Active
  <2>1. CASE u = t /\ i = Len(open[t]) + 1 /\ open'[u][i] = f
    BY <1>2, <1>3, <2>1
  <2>2. CASE v = t /\ j = Len(open[t]) + 1 /\ open'[v][j] = f
    BY <1>2, <1>3, <2>2
  <2>3. CASE /\ i \in 1 .. Len(open[u]) /\ open'[u][i] = open[u][i]
             /\ j \in 1 .. Len(open[v]) /\ open'[v][j] = open[v][j]
    <3>1. open[u][i].line = open[v][j].line /\ Active(open[u][i]) /\ Active(open[v][j])
      BY <2>3
    <3>. QED BY <2>3, <3>1 DEF LoggerInv, OneActive
  <2>. QED BY <1>3, <2>1, <2>2, <2>3
<1>8. ASSUME NEW l
      PROVE  Live(l)' <=> Live(l)
  <2>1. ASSUME NEW u \in Threads, NEW i \in 1 .. Len(open'[u]), open'[u][i].stream # NULL
        PROVE  i \in 1 .. Len(open[u]) /\ open'[u][i] = open[u][i]
    BY <1>1, <1>3, <2>1
  <2>2. ASSUME Live(l)'
        PROVE  Live(l)
    <3>1. PICK u \in Threads : \E i \in 1 .. Len(open'[u]) :
                  open'[u][i].line = l /\ open'[u][i].stream # NULL
      BY <2>2 DEF Live
    <3>2. PICK i \in 1 .. Len(open'[u]) : open'[u][i].line = l /\ open'[u][i].stream # NULL
      BY <3>1
    <3>. QED BY <2>1, <3>2 DEF Live
  <2>3. ASSUME Live(l)
        PROVE  Live(l)'
    <3>1. PICK u \in Threads : \E i \in 1 .. Len(open[u]) :
                  open[u][i].line = l /\ open[u][i].stream # NULL
      BY <2>3 DEF Live
    <3>2. PICK i \in 1 .. Len(open[u]) : open[u][i].line = l /\ open[u][i].stream # NULL
      BY <3>1
    <3>. QED BY <1>4, <3>2 DEF Live
  <2>. QED BY <2>2, <2>3
<1>9. LinesOK'
  <2>1. ASSUME NEW l \in 1 .. Len(lines)
        PROVE  LineOK(lines'[l]) /\ Ended(l)'
    <3>1. lines'[l] = lines[l] /\ (Live(l)' <=> Live(l)) /\ LineOK(lines[l]) /\ Ended(l)
      BY <1>1, <1>8 DEF LoggerInv, LinesOK
    <3>. QED BY <3>1 DEF Ended
  <2>2. ASSUME NEW l, l = Len(lines) + 1
        PROVE  LineOK(lines'[l]) /\ Ended(l)'
    <3>1. lines'[l].wrote = <<>> /\ Len(<<>>) = 0
      BY <1>1, <2>2, EmptySeq
    <3>. QED BY <3>1 DEF LineOK, Whole, Ended
  <2>3. \A l \in 1 .. Len(lines') : l \in 1 .. Len(lines) \/ l = Len(lines) + 1
    BY <1>1, <1>2
  <2>. QED BY <2>1, <2>2, <2>3 DEF LinesOK
<1>. QED BY <1>5, <1>6, <1>7, <1>9 DEF LoggerInv

(* A macro's check goes on to the time, or gives up an empty line.         *)
LEMMA ChecksKeeps ==
  ASSUME LoggerInv, NEW t \in Threads, Checks(t)
  PROVE  LoggerInv'
<1>1. /\ open[t] # <<>> /\ Top(t).phase = "check"
      /\ UNCHANGED <<configuration, lines, sets, crashed>>
  BY DEF Checks, At
<1>2. Top(t) \in LogFrames /\ FrameOK(Top(t)) /\ sets \in Nat
  BY <1>1, TopIsFrame DEF LoggerInv, LoggerTypeOK
<1>3. Active(Top(t)) /\ Top(t).stream = NULL
  BY <1>1, <1>2 DEF FrameOK, Active
<1>4. /\ \A g : FrameOK(g) => FrameOK(g)'
      /\ \A l \in 1 .. Len(lines) : LineOK(lines'[l]) /\ Ended(l)
  BY <1>1 DEF FrameOK, LoggerInv, LinesOK
<1>5. CASE Becomes(t, [Top(t) EXCEPT !.phase = "time", !.checked = sets])
  <2>1. PICK f : f = [Top(t) EXCEPT !.phase = "time", !.checked = sets]
    OBVIOUS
  <2>2. /\ f \in LogFrames /\ f.line = Top(t).line /\ f.stream = Top(t).stream
        /\ f.phase = "time"
    BY <1>2, <2>1 DEF LogFrames, Phases
  <2>3. FrameOK(f)
    BY <1>1, <1>2, <2>2 DEF FrameOK
  <2>. Becomes(t, f)
    BY <1>5, <2>1
  <2>4. /\ open' \in [Threads -> Seq(LogFrames)] /\ OneActive'
        /\ \A u \in Threads : \A i \in 1 .. Len(open'[u]) :
              \/ open'[u][i] = f
              \/ i \in 1 .. Len(open[u]) /\ open'[u][i] = open[u][i]
        /\ \A l : l # f.line => (Live(l)' <=> Live(l))
        /\ \A l : l = f.line => (Live(l)' <=> Live(l))
    BY <1>1, <1>3, <2>2, TopReplaced
  <2>5. FramesOK'
    <3>1. ASSUME NEW u \in Threads, NEW i \in 1 .. Len(open'[u])
          PROVE  \E g : g = open'[u][i] /\ FrameOK(g)'
      BY <1>4, <2>3, <2>4 DEF LoggerInv, FramesOK
    <3>. QED BY <3>1, FramesAreOK
  <2>6. LinesOK'
    BY <1>1, <1>4, <2>4 DEF LinesOK, Ended
  <2>. QED BY <1>1, <2>4, <2>5, <2>6 DEF LoggerInv, LoggerTypeOK
<1>6. CASE Closes(t)
  <2>1. /\ open' \in [Threads -> Seq(LogFrames)] /\ OneActive'
        /\ \A l : Live(l)' <=> Live(l)
        /\ \A u \in Threads : \A i \in 1 .. Len(open'[u]) :
              i \in 1 .. Len(open[u]) /\ open'[u][i] = open[u][i]
    BY <1>1, <1>3, <1>6, TopClosed
  <2>2. FramesOK'
    <3>1. ASSUME NEW u \in Threads, NEW i \in 1 .. Len(open'[u])
          PROVE  \E g : g = open'[u][i] /\ FrameOK(g)'
      BY <1>4, <2>1 DEF LoggerInv, FramesOK
    <3>. QED BY <3>1, FramesAreOK
  <2>3. LinesOK'
    BY <1>1, <1>4, <2>1 DEF LinesOK, Ended
  <2>. QED BY <1>1, <2>1, <2>2, <2>3 DEF LoggerInv, LoggerTypeOK
<1>. QED BY <1>5, <1>6 DEF Checks

(* The time or the level is written, and the innermost frame goes on.      *)
LEMMA TopWrites ==
  ASSUME LoggerInv, NEW t \in Threads, open[t] # <<>>, Active(Top(t)),
         NEW f \in LogFrames, Becomes(t, f), f.line = Top(t).line,
         NEW p \in Pieces, f.stream = p.on, p.part # "end", p.on # NULL,
         lines' = [lines EXCEPT ![Top(t).line].wrote = Append(@, p)],
         lines[Top(t).line].wrote = <<>> <=> p.part = "time",
         p.part = "level" => Len(lines[Top(t).line].wrote) = 1,
         lines[Top(t).line].wrote # <<>> =>
            /\ p.on = lines[Top(t).line].wrote[1].on
            /\ lines[Top(t).line].wrote[Len(lines[Top(t).line].wrote)].part # "end",
         (f.phase = "level" /\ p.part = "time") \/ f.phase = "args",
         UNCHANGED <<configuration, sets>>
  PROVE  LoggerInv'
<1>1. PICK m : m = Top(t).line
  OBVIOUS
<1>2. m \in 1 .. Len(lines) /\ Len(<<>>) = 0
  BY <1>1, TopIsFrame, EmptySeq DEF FrameOK
<1>3. /\ lines' \in Seq(LogLines) /\ Len(lines') = Len(lines)
      /\ lines'[m].wrote # <<>> /\ Len(lines'[m].wrote) = Len(lines[m].wrote) + 1
      /\ Innermost(lines'[m].wrote) = p /\ lines'[m].wrote[1].on = p.on
      /\ LineOK(lines'[m])
      /\ \A k \in 1 .. Len(lines) : k # m => lines'[k] = lines[k]
      /\ \A g \in LogFrames : FrameOK(g) /\ (g.line = m => ~Active(g)) => FrameOK(g)'
  <2>. /\ lines' = [lines EXCEPT ![m].wrote = Append(@, p)]
       /\ lines[m].wrote = <<>> <=> p.part = "time"
       /\ p.part = "level" => Len(lines[m].wrote) = 1
       /\ lines[m].wrote # <<>> =>
            p.on = lines[m].wrote[1].on /\ lines[m].wrote[Len(lines[m].wrote)].part # "end"
    BY <1>1
  <2>. QED BY <1>2, Written
<1>4. /\ open' \in [Threads -> Seq(LogFrames)] /\ OneActive'
      /\ \A l : l # m => (Live(l)' <=> Live(l))
      /\ Live(m)'
      /\ \A u \in Threads : \A i \in 1 .. Len(open'[u]) :
            \/ open'[u][i] = f
            \/ /\ i \in 1 .. Len(open[u]) /\ open'[u][i] = open[u][i]
               /\ open[u][i].line = m => ~Active(open[u][i])
  BY <1>1, TopReplaced
<1>5. FrameOK(f)'
  <2>1. /\ f.line = m /\ f.line \in 1 .. Len(lines') /\ f.phase \notin {"check", "time"}
        /\ lines'[f.line].wrote # <<>> /\ lines'[f.line].wrote[1].on = f.stream
        /\ f.stream # NULL
    BY <1>1, <1>2, <1>3
  <2>2. f.phase = "level" => Len(lines'[f.line].wrote) = 1
    BY <1>1, <1>2, <1>3
  <2>. QED BY <2>1, <2>2 DEF FrameOK
<1>6. FramesOK'
  <2>1. ASSUME NEW u \in Threads, NEW i \in 1 .. Len(open'[u])
        PROVE  \E g : g = open'[u][i] /\ FrameOK(g)'
    <3>1. CASE open'[u][i] = f
      BY <1>5, <3>1
    <3>2. CASE /\ i \in 1 .. Len(open[u]) /\ open'[u][i] = open[u][i]
               /\ open[u][i].line = m => ~Active(open[u][i])
      <4>1. open[u][i] \in LogFrames /\ FrameOK(open[u][i])
        BY <3>2, ElementOfSeq DEF LoggerInv, LoggerTypeOK, FramesOK
      <4>. QED BY <1>3, <3>2, <4>1
    <3>. QED BY <1>4, <3>1, <3>2
  <2>. QED BY <2>1, FramesAreOK
<1>7. Ended(m)'
  BY <1>3, <1>4 DEF Ended
<1>8. LinesOK'
  BY <1>2, <1>3, <1>4, <1>7, LinesElsewhere
<1>. QED BY <1>3, <1>4, <1>6, <1>8 DEF LoggerInv, LoggerTypeOK

(* The first piece, on the stream configured now.                          *)
LEMMA LogTimeKeeps ==
  ASSUME LoggerInv, NEW t \in Threads, LogTime(t)
  PROVE  LoggerInv'
<1>1. /\ open[t] # <<>> /\ Top(t).phase = "time"
      /\ UNCHANGED <<configuration, sets, crashed>>
  BY DEF LogTime, At
<1>2. /\ Top(t) \in LogFrames /\ FrameOK(Top(t))
      /\ configuration.ostream \in Streams /\ configuration.ostream # NULL
  BY <1>1, TopIsFrame, LoggerAssumption DEF LoggerInv, LoggerTypeOK
<1>3. PICK f : f = [Top(t) EXCEPT !.stream = configuration.ostream,
                       !.phase = IF Is(t).level = NoLevel THEN "args" ELSE "level"]
  OBVIOUS
<1>4. /\ f \in LogFrames /\ f.line = Top(t).line /\ f.stream = configuration.ostream
      /\ f.phase = "level" \/ f.phase = "args"
  BY <1>2, <1>3 DEF LogFrames, Phases
<1>5. PICK p : p = [on |-> configuration.ostream, part |-> "time"]
  OBVIOUS
<1>6. p \in Pieces /\ p.on = configuration.ostream /\ p.part = "time"
  BY <1>2, <1>5 DEF Pieces
<1>7. Becomes(t, f) /\ lines' = [lines EXCEPT ![Top(t).line].wrote = Append(@, p)]
  BY <1>3, <1>5 DEF LogTime, Writes
<1>8. lines[Top(t).line].wrote = <<>> /\ Active(Top(t))
  BY <1>1, <1>2 DEF FrameOK, Active
<1>. QED BY <1>1, <1>2, <1>4, <1>6, <1>7, <1>8, TopWrites

(* A frame that has a stream can write to its line, which has not ended.   *)
LEMMA TopWritable ==
  ASSUME LoggerInv, NEW t \in Threads, open[t] # <<>>, Top(t).stream # NULL
  PROVE  /\ Top(t).line \in 1 .. Len(lines) /\ Live(Top(t).line)
         /\ lines[Top(t).line].wrote # <<>>
         /\ lines[Top(t).line].wrote[1].on = Top(t).stream
         /\ lines[Top(t).line].wrote[Len(lines[Top(t).line].wrote)].part # "end"
<1>1. /\ Len(open[t]) \in 1 .. Len(open[t]) /\ Top(t) = open[t][Len(open[t])]
      /\ FrameOK(Top(t)) /\ Top(t) \in LogFrames
      /\ lines[Top(t).line] \in LogLines
  BY TopIsFrame
<1>2. Top(t).line \in 1 .. Len(lines) /\ lines[Top(t).line].wrote[1].on = Top(t).stream
  BY <1>1 DEF FrameOK
<1>3. lines[Top(t).line].wrote # <<>>
  BY <1>1, EmptySeq DEF FrameOK, LogFrames, Phases
<1>4. Live(Top(t).line)
  BY <1>1 DEF Live
<1>. QED BY <1>2, <1>3, <1>4, LiveHasNotEnded

(* The level follows the time, on the same stream.                         *)
LEMMA LogLevelKeeps ==
  ASSUME LoggerInv, NEW t \in Threads, LogLevel(t)
  PROVE  LoggerInv'
<1>1. /\ open[t] # <<>> /\ Top(t).phase = "level"
      /\ UNCHANGED <<configuration, sets, crashed>>
  BY DEF LogLevel, At
<1>2. /\ Top(t) \in LogFrames /\ FrameOK(Top(t)) /\ Top(t).stream # NULL
      /\ Len(lines[Top(t).line].wrote) = 1
  BY <1>1, TopIsFrame DEF FrameOK
<1>3. PICK f : f = [Top(t) EXCEPT !.phase = "args"]
  OBVIOUS
<1>4. /\ f \in LogFrames /\ f.line = Top(t).line /\ f.stream = Top(t).stream
      /\ f.phase = "args"
  BY <1>2, <1>3 DEF LogFrames, Phases
<1>5. PICK p : p = [on |-> Top(t).stream, part |-> "level"]
  OBVIOUS
<1>6. p \in Pieces /\ p.on = Top(t).stream /\ p.part = "level"
  BY <1>2, <1>5 DEF Pieces, LogFrames
<1>7. Becomes(t, f) /\ lines' = [lines EXCEPT ![Top(t).line].wrote = Append(@, p)]
  BY <1>3, <1>5 DEF LogLevel, LevelGoesTo, Writes
<1>8. Active(Top(t))
  BY <1>1 DEF Active
<1>. QED BY <1>1, <1>2, <1>4, <1>6, <1>7, <1>8, TopWritable, TopWrites

(* An argument, or a write through a null stream.                          *)
LEMMA ArgumentKeeps ==
  ASSUME LoggerInv, NEW t \in Threads, Argument(t)
  PROVE  LoggerInv'
<1>1. /\ open[t] # <<>> /\ Top(t).phase = "args"
      /\ Dereferences(t, "arg") /\ UNCHANGED <<configuration, open, sets>>
  BY DEF Argument, At
<1>2. CASE Top(t).stream = NULL
  <2>1. UNCHANGED lines
    BY <1>1, <1>2 DEF Dereferences
  <2>. QED BY <1>1, <2>1, NothingLogged DEF LoggerInv, LoggerTypeOK
<1>3. CASE Top(t).stream # NULL
  <2>1. PICK m : m = Top(t).line
    OBVIOUS
  <2>2. /\ m \in 1 .. Len(lines) /\ Live(m) /\ lines[m].wrote # <<>>
        /\ lines[m].wrote[1].on = Top(t).stream
        /\ lines[m].wrote[Len(lines[m].wrote)].part # "end"
    BY <1>1, <1>3, <2>1, TopWritable
  <2>3. PICK p : p = [on |-> Top(t).stream, part |-> "arg"]
    OBVIOUS
  <2>4. p \in Pieces /\ p.on = Top(t).stream /\ p.part = "arg"
    BY <1>1, <1>3, <2>3, TopIsFrame DEF Pieces, LogFrames
  <2>5. lines' = [lines EXCEPT ![m].wrote = Append(@, p)]
    BY <1>1, <1>3, <2>1, <2>3 DEF Dereferences, Writes
  <2>6. /\ lines' \in Seq(LogLines) /\ Len(lines') = Len(lines)
        /\ Innermost(lines'[m].wrote) = p /\ LineOK(lines'[m])
        /\ lines'[m].wrote # <<>> /\ lines'[m].wrote[1].on = p.on
        /\ \A k \in 1 .. Len(lines) : k # m => lines'[k] = lines[k]
        /\ \A g \in LogFrames : FrameOK(g) /\ (g.line = m => ~Active(g)) => FrameOK(g)'
    BY <2>2, <2>4, <2>5, Written
  <2>7. \A l : Live(l)' <=> Live(l)
    BY <1>1 DEF Live
  <2>8. FramesOK'
    <3>1. ASSUME NEW u \in Threads, NEW i \in 1 .. Len(open'[u])
          PROVE  \E g : g = open'[u][i] /\ FrameOK(g)'
      <4>1. PICK g : g = open[u][i]
        OBVIOUS
      <4>2. g = open'[u][i] /\ g \in LogFrames /\ FrameOK(g)
        BY <1>1, <4>1, ElementOfSeq DEF LoggerInv, LoggerTypeOK, FramesOK
      <4>3. CASE g.line = m /\ Active(g)
        <5>1. g = Top(t)
          BY <1>1, <1>3, <2>1, <4>1, <4>3, TopIsFrame DEF LoggerInv, OneActive, Active
        <5>2. FrameOK(g)'
          BY <1>1, <2>2, <2>4, <2>6, <4>3, <5>1 DEF FrameOK
        <5>. QED BY <4>2, <5>2
      <4>4. CASE ~(g.line = m /\ Active(g))
        BY <2>6, <4>2, <4>4
      <4>. QED BY <4>3, <4>4
    <3>. QED BY <3>1, FramesAreOK
  <2>9. Ended(m)'
    BY <2>2, <2>4, <2>6, <2>7 DEF Ended
  <2>10. LinesOK'
    BY <2>2, <2>6, <2>7, <2>9, LinesElsewhere
  <2>11. OneActive'
    BY <1>1 DEF LoggerInv, OneActive
  <2>. QED BY <1>1, <2>6, <2>8, <2>10, <2>11 DEF LoggerInv, LoggerTypeOK
<1>. QED BY <1>2, <1>3

(* The end of a statement: the last piece of a line that ends.             *)
LEMMA EndsKeeps ==
  ASSUME LoggerInv, NEW t \in Threads, Ends(t)
  PROVE  LoggerInv'
<1>1. /\ open[t] # <<>> /\ Top(t).phase = "args" /\ Closes(t)
      /\ IF Is(t).ends THEN Dereferences(t, "end") ELSE UNCHANGED <<lines, crashed>>
      /\ UNCHANGED <<configuration, sets>>
  BY DEF Ends, At
<1>2. PICK m : m = Top(t).line
  OBVIOUS
<1>3. /\ open' \in [Threads -> Seq(LogFrames)] /\ OneActive'
      /\ \A l : l # m \/ Top(t).stream = NULL => (Live(l)' <=> Live(l))
      /\ Active(Top(t)) => \A l : l = m => ~Live(l)'
      /\ \A u \in Threads : \A i \in 1 .. Len(open'[u]) :
            /\ i \in 1 .. Len(open[u]) /\ open'[u][i] = open[u][i]
            /\ Active(Top(t)) /\ open[u][i].line = m => ~Active(open[u][i])
  BY <1>1, <1>2, TopClosed
<1>4. m \in 1 .. Len(lines) /\ Is(t) = lines[m].is
  BY <1>1, <1>2, TopIsFrame DEF FrameOK, Is
<1>5. CASE UNCHANGED lines /\ (Top(t).stream = NULL \/ ~lines[m].is.ends)
  <2>1. \A g : FrameOK(g) => FrameOK(g)'
    BY <1>5 DEF FrameOK
  <2>2. FramesOK'
    <3>1. ASSUME NEW u \in Threads, NEW i \in 1 .. Len(open'[u])
          PROVE  \E g : g = open'[u][i] /\ FrameOK(g)'
      BY <1>3, <2>1 DEF LoggerInv, FramesOK
    <3>. QED BY <3>1, FramesAreOK
  <2>3. LinesOK'
    <3>1. ASSUME NEW l \in 1 .. Len(lines)
          PROVE  LineOK(lines'[l]) /\ Ended(l)'
      <4>1. lines' = lines /\ LineOK(lines[l]) /\ Ended(l)
        BY <1>5 DEF LoggerInv, LinesOK
      <4>2. lines[l].is.ends => (Live(l)' <=> Live(l))
        BY <1>3, <1>5
      <4>. QED BY <4>1, <4>2 DEF Ended
    <3>. QED BY <1>5, <3>1 DEF LinesOK
  <2>. QED BY <1>1, <1>3, <1>5, <2>2, <2>3 DEF LoggerInv, LoggerTypeOK
<1>6. CASE lines[m].is.ends /\ Top(t).stream # NULL
  <2>1. /\ Live(m) /\ lines[m].wrote # <<>>
        /\ lines[m].wrote[1].on = Top(t).stream
        /\ lines[m].wrote[Len(lines[m].wrote)].part # "end"
    BY <1>1, <1>2, <1>6, TopWritable
  <2>2. PICK p : p = [on |-> Top(t).stream, part |-> "end"]
    OBVIOUS
  <2>3. p \in Pieces /\ p.on = Top(t).stream /\ p.part = "end"
    BY <1>1, <1>6, <2>2, TopIsFrame DEF Pieces, LogFrames
  <2>4. lines' = [lines EXCEPT ![m].wrote = Append(@, p)]
    BY <1>1, <1>2, <1>4, <1>6, <2>2 DEF Dereferences, Writes
  <2>5. /\ lines' \in Seq(LogLines) /\ Len(lines') = Len(lines)
        /\ Innermost(lines'[m].wrote) = p /\ LineOK(lines'[m])
        /\ \A k \in 1 .. Len(lines) : k # m => lines'[k] = lines[k]
        /\ \A g \in LogFrames : FrameOK(g) /\ (g.line = m => ~Active(g)) => FrameOK(g)'
    BY <1>4, <1>6, <2>1, <2>3, <2>4, Written
  <2>6. Active(Top(t))
    BY <1>6 DEF Active
  <2>7. FramesOK'
    <3>1. ASSUME NEW u \in Threads, NEW i \in 1 .. Len(open'[u])
          PROVE  \E g : g = open'[u][i] /\ FrameOK(g)'
      <4>1. /\ i \in 1 .. Len(open[u]) /\ open'[u][i] = open[u][i]
            /\ open[u][i].line = m => ~Active(open[u][i])
        BY <1>3, <2>6
      <4>2. open[u][i] \in LogFrames /\ FrameOK(open[u][i])
        BY <4>1, ElementOfSeq DEF LoggerInv, LoggerTypeOK, FramesOK
      <4>. QED BY <2>5, <4>1, <4>2
    <3>. QED BY <3>1, FramesAreOK
  <2>8. Ended(m)'
    BY <1>3, <2>3, <2>5, <2>6 DEF Ended
  <2>9. LinesOK'
    BY <1>3, <1>4, <2>5, <2>8, LinesElsewhere
  <2>. QED BY <1>1, <1>3, <2>5, <2>7, <2>9 DEF LoggerInv, LoggerTypeOK
<1>. QED BY <1>1, <1>2, <1>4, <1>5, <1>6 DEF Dereferences

(* The moved-from ostream_line stays, below the one that took its stream.  *)
LEMMA MovedShape ==
  ASSUME LoggerInv, NEW t \in Threads, Moved(t)
  PROVE  \E f \in LogFrames :
            /\ open' \in [Threads -> Seq(LogFrames)]
            /\ \A u \in Threads : u # t => open'[u] = open[u]
            /\ Len(open'[t]) = Len(open[t]) + 1
            /\ open'[t][Len(open[t])] = f /\ open'[t][Len(open[t]) + 1] = Top(t)
            /\ \A i \in 1 .. Len(open[t]) - 1 : open'[t][i] = open[t][i]
            /\ f.line = Top(t).line /\ f.stream = NULL /\ f.phase = "args"
<1> DEFINE n == Len(open[t])
           r == SubSeq(open[t], 1, n - 1)
<1>1. /\ open[t] # <<>> /\ Top(t).phase = "args" /\ open[t] \in Seq(LogFrames)
      /\ Top(t) \in LogFrames
  BY TopIsFrame DEF Moved, At, LoggerInv, LoggerTypeOK
<1>2. r \in Seq(LogFrames) /\ Len(r) = n - 1 /\ n \in Nat \ {0}
  BY <1>1, ButLast
<1>3. \A i \in 1 .. n - 1 : r[i] = open[t][i]
  BY <1>1, <1>2, SubSeqElements
<1>4. PICK f : f = [Top(t) EXCEPT !.stream = NULL]
  OBVIOUS
<1>5. f \in LogFrames /\ f.line = Top(t).line /\ f.stream = NULL /\ f.phase = "args"
  BY <1>1, <1>4 DEF LogFrames
<1>6. open' = [open EXCEPT ![t] = r \o <<f, Top(t)>>]
  BY <1>4 DEF Moved, SourceLeft
<1> HIDE DEF r
<1>7. PICK v, s : v = <<f, Top(t)>> /\ s = r \o v
  OBVIOUS
<1>8. v \in Seq(LogFrames) /\ Len(v) = 2 /\ v[1] = f /\ v[2] = Top(t)
  BY <1>1, <1>5, <1>7
<1>9. PICK k : k = n - 1
  OBVIOUS
<1> HIDE DEF n
<1>10. k \in Nat /\ n = k + 1 /\ Len(r) = k
  BY <1>2, <1>9
<1>11. /\ s \in Seq(LogFrames) /\ Len(s) = k + 2
       /\ \A i \in 1 .. k + 2 : s[i] = IF i <= k THEN r[i] ELSE v[i - k]
  <2>1. /\ r \o v \in Seq(LogFrames) /\ Len(r \o v) = Len(r) + Len(v)
        /\ \A i \in 1 .. Len(r) + Len(v) :
              (r \o v)[i] = IF i <= Len(r) THEN r[i] ELSE v[i - Len(r)]
    BY <1>2, <1>8, ConcatProperties
  <2>. QED BY <1>7, <1>8, <1>10, <2>1
<1>12. /\ Len(s) = n + 1 /\ s[n] = f /\ s[n + 1] = Top(t)
       /\ \A i \in 1 .. n - 1 : s[i] = open[t][i]
  BY <1>3, <1>8, <1>10, <1>11
<1>13. /\ open'[t] = s /\ \A u \in Threads : u # t => open'[u] = open[u]
       /\ open' \in [Threads -> Seq(LogFrames)]
  BY <1>6, <1>7, <1>11 DEF LoggerInv, LoggerTypeOK
<1>. QED BY <1>5, <1>12, <1>13 DEF n

(* Of two ostream_line objects only the new one has the stream.            *)
LEMMA MovedKeeps ==
  ASSUME LoggerInv, NEW t \in Threads, Moved(t)
  PROVE  LoggerInv'
<1>1. PICK f \in LogFrames :
         /\ open' \in [Threads -> Seq(LogFrames)]
         /\ \A u \in Threads : u # t => open'[u] = open[u]
         /\ Len(open'[t]) = Len(open[t]) + 1
         /\ open'[t][Len(open[t])] = f /\ open'[t][Len(open[t]) + 1] = Top(t)
         /\ \A i \in 1 .. Len(open[t]) - 1 : open'[t][i] = open[t][i]
         /\ f.line = Top(t).line /\ f.stream = NULL /\ f.phase = "args"
  BY MovedShape
<1>2. PICK n : n = Len(open[t])
  OBVIOUS
<1>3. /\ UNCHANGED <<configuration, lines, sets, crashed>> /\ open[t] # <<>>
      /\ Top(t).phase = "args"
  BY DEF Moved, At
<1>4. n \in Nat \ {0} /\ n \in 1 .. Len(open[t]) /\ Top(t) = open[t][n] /\ FrameOK(Top(t))
  BY <1>2, <1>3, TopIsFrame
<1>5. ~Active(f) /\ FrameOK(f)
  BY <1>1, <1>3, <1>4 DEF FrameOK, Active
<1>6. \A u \in Threads : \A i \in 1 .. Len(open'[u]) :
         \/ u = t /\ i = n + 1 /\ open'[u][i] = Top(t)
         \/ u = t /\ i = n /\ open'[u][i] = f
         \/ i \in 1 .. Len(open[u]) /\ ~(u = t /\ i = n) /\ open'[u][i] = open[u][i]
  <2>1. \A i \in 1 .. n + 1 : i = n + 1 \/ i = n \/ (i \in 1 .. n - 1 /\ i \in 1 .. n)
    BY <1>4
  <2>. QED BY <1>1, <1>2, <2>1
<1>7. \A u \in Threads : \A i \in 1 .. Len(open[u]) :
         \/ u = t /\ i = n
         \/ i \in 1 .. Len(open'[u]) /\ open'[u][i] = open[u][i]
  <2>1. \A i \in 1 .. n : i = n \/ (i \in 1 .. n - 1 /\ i \in 1 .. n + 1)
    BY <1>4
  <2>. QED BY <1>1, <1>2, <2>1
<1>8. n + 1 \in 1 .. Len(open'[t]) /\ open'[t][n + 1] = Top(t)
  BY <1>1, <1>2, <1>4
<1>9. FramesOK'
  <2>1. \A g : FrameOK(g) => FrameOK(g)'
    BY <1>3 DEF FrameOK
  <2>2. ASSUME NEW u \in Threads, NEW i \in 1 .. Len(open'[u])
        PROVE  \E g : g = open'[u][i] /\ FrameOK(g)'
    BY <1>4, <1>5, <1>6, <2>1 DEF LoggerInv, FramesOK
  <2>. QED BY <2>2, FramesAreOK
<1>10. OneActive'
  <2>. SUFFICES ASSUME NEW u \in Threads, NEW v \in Threads,
                       NEW i \in 1 .. Len(open'[u]), NEW j \in 1 .. Len(open'[v]),
                       open'[u][i].line = open'[v][j].line,
                       Active(open'[u][i]), Active(open'[v][j])
                PROVE  u = v /\ i = j
    BY DEF OneActive, Active
  <2>1. PICK a \in 1 .. Len(open[u]) :
           open[u][a] = open'[u][i] /\ (IF u = t /\ a = n THEN i = n + 1 ELSE i = a)
    BY <1>4, <1>5, <1>6
  <2>2. PICK b \in 1 .. Len(open[v]) :
           open[v][b] = open'[v][j] /\ (IF v = t /\ b = n THEN j = n + 1 ELSE j = b)
    BY <1>4, <1>5, <1>6
  <2>3. open[u][a].line = open[v][b].line /\ Active(open[u][a]) /\ Active(open[v][b])
    BY <2>1, <2>2
  <2>4. u = v /\ a = b
    BY <2>3 DEF LoggerInv, OneActive
  <2>. QED BY <2>1, <2>2, <2>4
<1>11. ASSUME NEW l
       PROVE  Live(l)' <=> Live(l)
  <2>1. ASSUME Live(l)'
        PROVE  Live(l)
    <3>1. PICK u \in Threads : \E i \in 1 .. Len(open'[u]) :
                  open'[u][i].line = l /\ open'[u][i].stream # NULL
      BY <2>1 DEF Live
    <3>2. PICK i \in 1 .. Len(open'[u]) : open'[u][i].line = l /\ open'[u][i].stream # NULL
      BY <3>1
    <3>3. \E a \in 1 .. Len(open[u]) : open[u][a] = open'[u][i]
      BY <1>1, <1>4, <1>6, <3>2
    <3>. QED BY <3>2, <3>3 DEF Live
  <2>2. ASSUME Live(l)
        PROVE  Live(l)'
    <3>1. PICK u \in Threads : \E i \in 1 .. Len(open[u]) :
                  open[u][i].line = l /\ open[u][i].stream # NULL
      BY <2>2 DEF Live
    <3>2. PICK i \in 1 .. Len(open[u]) : open[u][i].line = l /\ open[u][i].stream # NULL
      BY <3>1
    <3>3. \E a \in 1 .. Len(open'[u]) : open'[u][a] = open[u][i]
      BY <1>4, <1>7, <1>8, <3>2
    <3>. QED BY <3>2, <3>3 DEF Live
  <2>. QED BY <2>1, <2>2
<1>12. LinesOK'
  BY <1>3, <1>11 DEF LoggerInv, LinesOK, Ended
<1>. QED BY <1>1, <1>3, <1>9, <1>10, <1>12 DEF LoggerInv, LoggerTypeOK

(* Every step keeps the invariant.                                         *)
LEMMA LoggerInvStep == LoggerInv /\ [LoggerNext]_loggerVars => LoggerInv'
<1>. SUFFICES ASSUME LoggerInv, [LoggerNext]_loggerVars
              PROVE  LoggerInv'
  OBVIOUS
<1>1. CASE UNCHANGED loggerVars
  BY <1>1, NothingLogged DEF loggerVars, LoggerInv, LoggerTypeOK
<1>2. CASE LoggerNext
  BY <1>2, SetKeeps, BeginsKeeps, ChecksKeeps, LogTimeKeeps, LogLevelKeeps,
     ArgumentKeeps, MovedKeeps, EndsKeeps DEF LoggerNext
<1>. QED BY <1>1, <1>2

(* A line of jg_simple_logger.h is whole, however threads, arguments that   *)
(* log and log_set_ostream interleave, and gets its end of line once.      *)
THEOREM LinesAreWhole == LoggerSpec => []LinesWhole
<1>1. LoggerInv => LinesWhole
  <2>. SUFFICES ASSUME LoggerInv, NEW l \in 1 .. Len(lines)
                PROVE  /\ Whole(lines[l].wrote)
                       /\ lines[l].is.ends /\ lines[l].wrote # <<>> =>
                             (Innermost(lines[l].wrote).part = "end" <=>
                              \A t \in Threads : \A i \in 1 .. Len(open[t]) :
                                 open[t][i].line = l => open[t][i].stream = NULL)
    BY DEF LinesWhole, Whole
  <2>1. LineOK(lines[l]) /\ Ended(l)
    BY DEF LoggerInv, LinesOK
  <2>. QED BY <2>1 DEF LineOK, Ended, Live
<1>. QED BY <1>1, LoggerInvInit, LoggerInvStep, PTL DEF LoggerSpec

(* A step that writes, at most, to a line keeps what statements asked for.  *)
LEMMA StatementsStay ==
  ASSUME LoggerInv, NEW t \in Threads, open[t] # <<>>,
         \/ UNCHANGED lines
         \/ \E p \in Pieces : lines' = [lines EXCEPT ![Top(t).line].wrote = Append(@, p)]
  PROVE  \A l \in 1 .. Len(lines) : lines'[l].is = lines[l].is
<1>1. CASE \E p \in Pieces : lines' = [lines EXCEPT ![Top(t).line].wrote = Append(@, p)]
  <2>1. PICK l : l = Top(t).line
    OBVIOUS
  <2>2. l \in 1 .. Len(lines)
    BY <2>1, TopIsFrame DEF FrameOK
  <2>3. PICK p \in Pieces : lines' = [lines EXCEPT ![l].wrote = Append(@, p)]
    BY <1>1, <2>1
  <2>. QED BY <2>2, <2>3, WriteShape DEF LoggerInv
<1>. QED BY <1>1

(* Frames that were checked stay so if the configuration does.             *)
LEMMA CheckedStays ==
  ASSUME LoggerInv, AllChecked, UNCHANGED <<configuration, sets>>,
         \A l \in 1 .. Len(lines) : lines'[l].is = lines[l].is,
         \A u \in Threads : \A i \in 1 .. Len(open'[u]) :
            \/ open'[u][i].phase # "time"
            \/ ~lines'[open'[u][i].line].is.macro
            \/ \E j \in 1 .. Len(open[u]) : open'[u][i] = open[u][j]
  PROVE  AllChecked'
<1>1. ASSUME NEW u \in Threads, NEW j \in 1 .. Len(open[u])
      PROVE  /\ Checked(open[u][j])
             /\ lines'[open[u][j].line].is = lines[open[u][j].line].is
  BY DEF AllChecked, LoggerInv, FramesOK, FrameOK
<1>2. ASSUME NEW u \in Threads, NEW i \in 1 .. Len(open'[u])
      PROVE  \E g : g = open'[u][i] /\ Checked(g)'
  <2>1. CASE \E j \in 1 .. Len(open[u]) : open'[u][i] = open[u][j]
    <3>1. PICK j \in 1 .. Len(open[u]) : open'[u][i] = open[u][j]
      BY <2>1
    <3>2. PICK g : g = open[u][j]
      OBVIOUS
    <3>3. Checked(g) /\ lines'[g.line].is = lines[g.line].is
      BY <1>1, <3>2
    <3>4. Checked(g)'
      BY <3>3 DEF Checked, LogEnabled
    <3>. QED BY <3>1, <3>2, <3>4
  <2>2. CASE open'[u][i].phase # "time" \/ ~lines'[open'[u][i].line].is.macro
    <3>1. PICK g : g = open'[u][i]
      OBVIOUS
    <3>2. Checked(g)'
      BY <2>2, <3>1 DEF Checked
    <3>. QED BY <3>1, <3>2
  <2>. QED BY <2>1, <2>2
<1>. QED BY <1>2 DEF AllChecked, Checked, LogEnabled

(* What the checks found stays true, or the configuration was set since.   *)
LEMMA AllCheckedStep == LoggerInv /\ AllChecked /\ [LoggerNext]_loggerVars => AllChecked'
<1>. SUFFICES ASSUME LoggerInv, AllChecked, [LoggerNext]_loggerVars
              PROVE  AllChecked'
  OBVIOUS
<1>1. CASE UNCHANGED loggerVars
  BY <1>1 DEF loggerVars, AllChecked, Checked, LogEnabled
<1>2. ASSUME NEW t \in Threads, Set(t)
      PROVE  AllChecked'
  <2>1. sets \in Nat /\ sets' = sets + 1 /\ UNCHANGED <<open, lines>>
    BY <1>2 DEF Set, LoggerInv, LoggerTypeOK
  <2>2. ASSUME NEW u \in Threads, NEW i \in 1 .. Len(open[u])
        PROVE  Checked(open[u][i]) /\ open[u][i].checked \in Nat
    <3>1. open[u][i] \in LogFrames
      BY ElementOfSeq DEF LoggerInv, LoggerTypeOK
    <3>. QED BY <3>1 DEF AllChecked, LogFrames
  <2>. QED BY <2>1, <2>2 DEF AllChecked, Checked
<1>3. ASSUME NEW t \in Threads, Begins(t)
      PROVE  AllChecked'
  <2>1. PICK f \in LogFrames, line \in LogLines :
           /\ lines' \in Seq(LogLines) /\ Len(lines') = Len(lines) + 1
           /\ \A l \in 1 .. Len(lines) : lines'[l] = lines[l]
           /\ lines'[Len(lines) + 1] = line /\ line.wrote = <<>>
           /\ open' \in [Threads -> Seq(LogFrames)]
           /\ \A u \in Threads : u # t => open'[u] = open[u]
           /\ Len(open'[t]) = Len(open[t]) + 1 /\ open'[t][Len(open[t]) + 1] = f
           /\ \A i \in 1 .. Len(open[t]) : open'[t][i] = open[t][i]
           /\ f.line = Len(lines) + 1 /\ f.stream = NULL
           /\ f.phase = IF line.is.macro THEN "check" ELSE "time"
           /\ UNCHANGED <<configuration, sets, crashed>>
    BY <1>3, BeginsShape
  <2>2. Len(open[t]) \in Nat
    BY LenProperties DEF LoggerInv, LoggerTypeOK
  <2>3. f.phase # "time" \/ ~lines'[f.line].is.macro
    BY <2>1
  <2>4. ASSUME NEW u \in Threads, NEW i \in 1 .. Len(open'[u])
        PROVE  \/ open'[u][i].phase # "time"
               \/ ~lines'[open'[u][i].line].is.macro
               \/ \E j \in 1 .. Len(open[u]) : open'[u][i] = open[u][j]
    <3>1. CASE u = t /\ i = Len(open[t]) + 1
      BY <2>1, <2>3, <3>1
    <3>2. CASE ~(u = t /\ i = Len(open[t]) + 1)
      BY <2>1, <2>2, <3>2
    <3>. QED BY <3>1, <3>2
  <2>. QED BY <2>1, <2>4, CheckedStays
<1>4. ASSUME NEW t \in Threads, Checks(t)
      PROVE  AllChecked'
  <2>1. /\ open[t] # <<>> /\ UNCHANGED <<configuration, lines, sets>>
        /\ Is(t) = lines[Top(t).line].is
        /\ Top(t) \in LogFrames /\ sets \in Nat
    BY <1>4, TopIsFrame DEF Checks, At, Is, LoggerInv, LoggerTypeOK
  <2>2. \A g : Checked(g) => Checked(g)'
    BY <2>1 DEF Checked, LogEnabled
  <2>3. CASE /\ LogEnabled(Is(t).level)
             /\ Becomes(t, [Top(t) EXCEPT !.phase = "time", !.checked = sets])
    <3>1. PICK f : f = [Top(t) EXCEPT !.phase = "time", !.checked = sets]
      OBVIOUS
    <3>2. f \in LogFrames /\ f.line = Top(t).line /\ f.checked = sets
      BY <2>1, <3>1 DEF LogFrames, Phases
    <3>3. Becomes(t, f)
      BY <2>3, <3>1
    <3>4. Checked(f)
      BY <2>1, <2>3, <3>2 DEF Checked
    <3>5. /\ \A u \in Threads : u # t => open'[u] = open[u]
          /\ Len(open'[t]) = Len(open[t]) /\ open'[t][Len(open[t])] = f
          /\ \A i \in 1 .. Len(open[t]) - 1 : open'[t][i] = open[t][i]
      BY <2>1, <3>2, <3>3, BecomesShape DEF LoggerInv
    <3>6. \A i \in 1 .. Len(open[t]) : i \in 1 .. Len(open[t]) - 1 \/ i = Len(open[t])
      BY <2>1, TopIsFrame
    <3>7. ASSUME NEW u \in Threads, NEW i \in 1 .. Len(open'[u])
          PROVE  \E g : g = open'[u][i] /\ Checked(g)
      BY <3>4, <3>5, <3>6 DEF AllChecked
    <3>8. \A u \in Threads : \A i \in 1 .. Len(open'[u]) :
             \E g : g = open'[u][i] /\ Checked(g)'
      BY <2>2, <3>7
    <3>. QED BY <3>8 DEF AllChecked, Checked, LogEnabled
  <2>4. CASE Closes(t)
    <3>1. \A u \in Threads : \A i \in 1 .. Len(open'[u]) :
             i \in 1 .. Len(open[u]) /\ open'[u][i] = open[u][i]
      BY <2>1, <2>4, TopClosed
    <3>. QED BY <2>1, <3>1, CheckedStays
  <2>. QED BY <1>4, <2>3, <2>4 DEF Checks
<1>5. ASSUME NEW t \in Threads, LogTime(t) \/ LogLevel(t)
      PROVE  AllChecked'
  <2>1. /\ open[t] # <<>> /\ UNCHANGED <<configuration, sets>>
        /\ Top(t) \in LogFrames /\ FrameOK(Top(t)) /\ configuration.ostream \in Streams
    BY <1>5, TopIsFrame DEF LogTime, LogLevel, At, LoggerInv, LoggerTypeOK
  <2>2. PICK f \in LogFrames : Becomes(t, f) /\ f.phase # "time"
    <3>1. CASE LogTime(t)
      <4>1. PICK f : f = [Top(t) EXCEPT !.stream = configuration.ostream,
                            !.phase = IF Is(t).level = NoLevel THEN "args" ELSE "level"]
        OBVIOUS
      <4>2. f \in LogFrames /\ f.phase # "time"
        BY <2>1, <4>1 DEF LogFrames, Phases
      <4>. QED BY <3>1, <4>1, <4>2 DEF LogTime
    <3>2. CASE LogLevel(t)
      <4>1. PICK f : f = [Top(t) EXCEPT !.phase = "args"]
        OBVIOUS
      <4>2. f \in LogFrames /\ f.phase # "time"
        BY <2>1, <4>1 DEF LogFrames, Phases
      <4>. QED BY <3>2, <4>1, <4>2 DEF LogLevel
    <3>. QED BY <1>5, <3>1, <3>2
  <2>3. \E p \in Pieces : lines' = [lines EXCEPT ![Top(t).line].wrote = Append(@, p)]
    <3>1. CASE LogTime(t)
      <4>1. PICK p : p = [on |-> configuration.ostream, part |-> "time"]
        OBVIOUS
      <4>2. p \in Pieces
        BY <2>1, <4>1 DEF Pieces
      <4>. QED BY <3>1, <4>1, <4>2 DEF LogTime, Writes
    <3>2. CASE LogLevel(t)
      <4>1. PICK p : p = [on |-> Top(t).stream, part |-> "level"]
        OBVIOUS
      <4>2. Top(t).stream # NULL
        BY <2>1, <3>2 DEF LogLevel, At, FrameOK
      <4>3. p \in Pieces
        BY <2>1, <4>1, <4>2 DEF Pieces, LogFrames
      <4>. QED BY <3>2, <4>1, <4>3 DEF LogLevel, LevelGoesTo, Writes
    <3>. QED BY <1>5, <3>1, <3>2
  <2>4. \A l \in 1 .. Len(lines) : lines'[l].is = lines[l].is
    BY <2>1, <2>3, StatementsStay
  <2>5. /\ \A u \in Threads : u # t => open'[u] = open[u]
        /\ Len(open'[t]) = Len(open[t]) /\ open'[t][Len(open[t])] = f
        /\ \A i \in 1 .. Len(open[t]) - 1 : open'[t][i] = open[t][i]
    BY <2>1, <2>2, BecomesShape DEF LoggerInv
  <2>6. \A i \in 1 .. Len(open[t]) : i \in 1 .. Len(open[t]) - 1 \/ i = Len(open[t])
    BY <2>1, TopIsFrame
  <2>7. ASSUME NEW u \in Threads, NEW i \in 1 .. Len(open'[u])
        PROVE  \/ open'[u][i].phase # "time"
               \/ \E j \in 1 .. Len(open[u]) : open'[u][i] = open[u][j]
    BY <2>2, <2>5, <2>6
  <2>. QED BY <2>1, <2>4, <2>7, CheckedStays
<1>6. ASSUME NEW t \in Threads, Argument(t) \/ Ends(t)
      PROVE  AllChecked'
  <2>1. /\ open[t] # <<>> /\ UNCHANGED <<configuration, sets>>
        /\ Top(t) \in LogFrames
        /\ UNCHANGED lines \/ Dereferences(t, "arg") \/ Dereferences(t, "end")
    BY <1>6, TopIsFrame DEF Argument, Ends, At
  <2>2. \/ UNCHANGED lines
        \/ \E p \in Pieces : lines' = [lines EXCEPT ![Top(t).line].wrote = Append(@, p)]
    <3>1. ASSUME NEW part \in {"arg", "end"}, Dereferences(t, part), Top(t).stream # NULL
          PROVE  \E p \in Pieces : lines' = [lines EXCEPT ![Top(t).line].wrote = Append(@, p)]
      <4>1. PICK p : p = [on |-> Top(t).stream, part |-> part]
        OBVIOUS
      <4>2. p \in Pieces
        BY <2>1, <3>1, <4>1 DEF Pieces, LogFrames
      <4>. QED BY <3>1, <4>1, <4>2 DEF Dereferences, Writes
    <3>. QED BY <2>1, <3>1 DEF Dereferences
  <2>3. \A l \in 1 .. Len(lines) : lines'[l].is = lines[l].is
    BY <2>1, <2>2, StatementsStay
  <2>4. \A u \in Threads : \A i \in 1 .. Len(open'[u]) :
           i \in 1 .. Len(open[u]) /\ open'[u][i] = open[u][i]
    <3>1. CASE Argument(t)
      BY <3>1 DEF Argument
    <3>2. CASE Ends(t)
      BY <2>1, <3>2, TopClosed DEF Ends
    <3>. QED BY <1>6, <3>1, <3>2
  <2>. QED BY <2>1, <2>3, <2>4, CheckedStays
<1>7. ASSUME NEW t \in Threads, Moved(t)
      PROVE  AllChecked'
  <2>1. PICK f \in LogFrames :
           /\ open' \in [Threads -> Seq(LogFrames)]
           /\ \A u \in Threads : u # t => open'[u] = open[u]
           /\ Len(open'[t]) = Len(open[t]) + 1
           /\ open'[t][Len(open[t])] = f /\ open'[t][Len(open[t]) + 1] = Top(t)
           /\ \A i \in 1 .. Len(open[t]) - 1 : open'[t][i] = open[t][i]
           /\ f.line = Top(t).line /\ f.stream = NULL /\ f.phase = "args"
    BY <1>7, MovedShape
  <2>2. UNCHANGED <<configuration, lines, sets>> /\ open[t] # <<>> /\ Top(t).phase = "args"
    BY <1>7 DEF Moved, At
  <2>3. \A i \in 1 .. Len(open[t]) + 1 :
           \/ i \in 1 .. Len(open[t]) - 1 /\ i \in 1 .. Len(open[t])
           \/ i = Len(open[t]) \/ i = Len(open[t]) + 1
    BY <2>2, TopIsFrame
  <2>4. ASSUME NEW u \in Threads, NEW i \in 1 .. Len(open'[u])
        PROVE  \/ open'[u][i].phase # "time"
               \/ \E j \in 1 .. Len(open[u]) : open'[u][i] = open[u][j]
    BY <2>1, <2>2, <2>3
  <2>. QED BY <2>2, <2>4, CheckedStays
<1>. QED BY <1>1, <1>2, <1>3, <1>4, <1>5, <1>6, <1>7 DEF LoggerNext

(* What a logging macro of jg_simple_logger.h writes was enabled, at its    *)
(* level, unless the configuration was set after the macro's check.        *)
THEOREM MacrosDoObey == LoggerSpec => MacrosObeyConfiguration
<1>1. ASSUME LoggerInv, AllChecked, NEW t \in Threads, LogTime(t), Is(t).macro
      PROVE  \/ /\ configuration.enabled
                /\ Is(t).level \in configuration.level .. 3 \cup {NoLevel}
             \/ sets > Top(t).checked
  <2>1. open[t] # <<>> /\ Top(t).phase = "time"
    BY <1>1 DEF LogTime, At
  <2>2. /\ Top(t) \in LogFrames /\ Len(open[t]) \in 1 .. Len(open[t])
        /\ Top(t) = open[t][Len(open[t])] /\ lines[Top(t).line] \in LogLines
        /\ Is(t) = lines[Top(t).line].is
    BY <1>1, <2>1, TopIsFrame DEF Is
  <2>3. Checked(Top(t))
    BY <1>1, <2>2 DEF AllChecked
  <2>4. /\ Top(t).checked \in Nat /\ sets \in Nat /\ configuration.level \in 0..3
        /\ Is(t).level \in 0..3 \cup {NoLevel}
    BY <1>1, <2>2, LoggerAssumption
       DEF LogFrames, LogLines, Statements, LoggerInv, LoggerTypeOK
  <2>5. Top(t).checked <= sets /\ (Top(t).checked = sets => LogEnabled(Is(t).level))
    BY <1>1, <2>1, <2>2, <2>3 DEF Checked
  <2>. QED BY <2>4, <2>5 DEF LogEnabled
<1>2. LoggerInv /\ AllChecked =>
        [\A t \in Threads :
           LogTime(t) /\ Is(t).macro =>
             \/ configuration.enabled /\ Is(t).level \in configuration.level..3 \cup {NoLevel}
             \/ sets > Top(t).checked]_loggerVars
  BY <1>1
<1>. QED BY <1>2, LoggerInvInit, LoggerInvStep, AllCheckedStep, PTL
         DEF LoggerSpec, MacrosObeyConfiguration
=============================================================================
