------------------------------ MODULE Strings ------------------------------
(***************************************************************************)
(* The string functions of inc/jg_string.h.                                *)
(* A string is a sequence of characters; positions count from zero and     *)
(* wrap, as size_t does, at npos.                                          *)
(***************************************************************************)
EXTENDS Integers, SequencesExt

CONSTANTS npos, Blank   \* size_t(-1); the characters that trim removes

Next1(position) == (position + 1) % (npos + 1)

(* External: std::string as the code uses it.                              *)
First(positions) == IF positions = {} THEN npos ELSE Min(positions)
Final(positions) == IF positions = {} THEN npos ELSE Max(positions)
Find(s, c) == First({p \in 0..(Len(s) - 1) : s[p + 1] = c})
FindFirstNotOf(s, chars) == First({p \in 0..(Len(s) - 1) : s[p + 1] \notin chars})
FindLastNotOf(s, chars) == Final({p \in 0..(Len(s) - 1) : s[p + 1] \notin chars})
Rfind(s, t, position) ==
    Final({p \in 0..(Len(s) - Len(t)) :
             p <= position /\ SubSeq(s, p + 1, p + Len(t)) = t})
Substr(s, position, count) == SubSeq(s, position + 1, Min({Len(s), position + count}))
Erase(s, position, count) == Substr(s, 0, position) \o Substr(s, Min({Len(s), position + count}), npos)

TrimLeft(s) == Erase(s, 0, FindFirstNotOf(s, Blank))
TrimRightAt(s) == Erase(s, FindLastNotOf(s, Blank), npos)  \* mutant: no + 1
TrimRight(s) == Erase(s, Next1(FindLastNotOf(s, Blank)), npos)
Trim(s) == TrimLeft(TrimRight(s))

Occurs(s, start) == Rfind(s, start, npos) # npos  \* mutant: rfind without 0
StartsWith(s, start) == Rfind(s, start, 0) = 0

Join(tokens, delimiter) ==
    IF tokens = <<>> THEN <<>>
    ELSE FoldLeft(LAMBDA joined, t : joined \o delimiter \o t, tokens[1], Tail(tokens))

OstreamJoin(tokens, delimiter) ==
    FoldLeft(LAMBDA out, t :
                 [separate |-> TRUE,
                  text |-> out.text \o (IF out.separate THEN delimiter ELSE <<>>) \o t],
             [separate |-> FALSE, text |-> <<>>], tokens).text
=============================================================================
