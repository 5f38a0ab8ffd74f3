---------------------------- MODULE OstreamColor ----------------------------
(***************************************************************************)
(* ostream_color of inc/jg_ostream_color.h: objects, temporaries or named, *)
(* that switch the colours of the stream they are inserted into, and reset *)
(* them when they die, the last one first.                                 *)
(***************************************************************************)
EXTENDS Integers, Sequences

CONSTANTS
    ColoredStreams, nullptr,
    Colors, DefaultColor,  \* the colours, and what code 0 sets both to
    MaxObjects        \* bound: objects alive

ASSUME ColorAssumption ==
    nullptr \notin ColoredStreams /\ DefaultColor \notin Colors /\ MaxObjects \in Nat

VARIABLES
    objects,  \* those alive, the youngest last: m_stream, m_fg and m_bg
    shows,    \* per stream: the colours text appears in
    left      \* history: streams whose object went to another stream since

colorVars == <<objects, shows, left>>
NoColors == [fg |-> DefaultColor, bg |-> DefaultColor]

ColorInit ==
    objects = <<>> /\ shows = [s \in ColoredStreams |-> NoColors] /\ left = {}

ConstructColor ==
    /\ Len(objects) < MaxObjects
    /\ \E fg \in Colors, bg \in Colors \cup {nullptr} :
         objects' = Append(objects, [m_stream |-> nullptr, m_fg |-> fg, m_bg |-> bg])
    /\ UNCHANGED <<shows, left>>

(* operator<<; without a background the one in effect stays.               *)
Insert(i, s) ==
    /\ objects' = [objects EXCEPT ![i].m_stream = s]
    /\ shows' = [shows EXCEPT ![s] =
         [fg |-> objects[i].m_fg,
          bg |-> IF objects[i].m_bg = nullptr THEN @.bg ELSE objects[i].m_bg]]
    /\ left' = left \cup ({objects[i].m_stream} \ {nullptr, s})

ForegroundOnly(colors) == [colors EXCEPT !.fg = DefaultColor]  \* mutant: code 39
ResetFrom(colors) == NoColors

Destroy ==
    /\ objects # <<>>
    /\ LET stream == objects[Len(objects)].m_stream IN
         shows' = [s \in ColoredStreams |-> IF s = stream THEN ResetFrom(shows[s]) ELSE shows[s]]
    /\ objects' = SubSeq(objects, 1, Len(objects) - 1)
    /\ UNCHANGED left

ColorNext ==
    \/ ConstructColor \/ Destroy
    \/ \E i \in 1..Len(objects), s \in ColoredStreams : Insert(i, s)

ColorSpec == ColorInit /\ [][ColorNext]_colorVars

-----------------------------------------------------------------------------
(* Properties                                                              *)

(* jg_ostream_color.h:57-59: "the ending color code is inserted when the   *)
(* instance goes out of scope".  A foreground that is on was chosen by an  *)
(* object that lives and was inserted there, and a background too: objects *)
(* nested in each other never leave the colour of a dead one.  This is     *)
(* lost only for a stream whose object was inserted into another one       *)
(* since, for an object remembers one stream.                              *)
ColorsOfLiving ==
    \A s \in ColoredStreams \ left :
        /\ shows[s].fg # DefaultColor =>
             \E i \in 1..Len(objects) : objects[i].m_stream = s /\ objects[i].m_fg = shows[s].fg
        /\ shows[s].bg # DefaultColor =>
             \E i \in 1..Len(objects) : objects[i].m_stream = s /\ objects[i].m_bg = shows[s].bg
=============================================================================
