------------------------------- MODULE Split -------------------------------
(***************************************************************************)
(* split<NumTokens> of inc/jg_string.h, one iteration of its loop a step,  *)
(* and the other functions of Strings on the same inputs.                  *)
(***************************************************************************)
EXTENDS Strings

CONSTANTS
    Chars,      \* the characters of a string
    Delimiter,
    MaxLength,  \* bound: length of the string
    MaxTokens   \* bound: NumTokens

ASSUME SplitAssumption ==
    /\ Delimiter \in Chars /\ Blank \subseteq Chars
    /\ npos \in Nat /\ MaxLength \in Nat /\ MaxLength < npos /\ MaxTokens \in Nat

VARIABLES
    input, NumTokens,  \* the arguments
    string,            \* what is left of the input
    i, tokens,
    result             \* "none" yet, "tokens" or "nullopt"

splitVars == <<input, NumTokens, string, i, tokens, result>>

SplitInit ==
    /\ input \in BoundedSeq(Chars, MaxLength) /\ NumTokens \in 1..MaxTokens
    /\ string = input /\ i = 0 /\ tokens = <<>> /\ result = "none"

offset == Find(string, Delimiter)

TooMany ==  \* a delimiter after the last token
    /\ result = "none" /\ offset # npos /\ i = NumTokens - 1
    /\ result' = "nullopt"
    /\ UNCHANGED <<input, NumTokens, string, i, tokens>>

TooFew ==   \* none before the last token
    /\ result = "none" /\ offset = npos /\ i # NumTokens - 1
    /\ result' = "nullopt"
    /\ UNCHANGED <<input, NumTokens, string, i, tokens>>

Kept(s) == Substr(s, offset, npos)  \* mutant: the delimiter stays
Rest(s) == IF offset = npos THEN s ELSE Substr(s, offset + 1, npos)

Token ==
    /\ result = "none"
    /\ (offset = npos) <=> (i = NumTokens - 1)
    /\ tokens' = Append(tokens, Substr(string, 0, offset))
    /\ string' = Rest(string)
    /\ i' = i + 1
    /\ result' = IF i' = NumTokens THEN "tokens" ELSE "none"
    /\ UNCHANGED <<input, NumTokens>>

SplitNext == TooMany \/ TooFew \/ Token
SplitSpec == SplitInit /\ [][SplitNext]_splitVars

-----------------------------------------------------------------------------
(* Properties                                                              *)

(* split() gives tokens exactly when the string has NumTokens of them, and *)
(* they are the string: joined again, as a string or into a stream, it     *)
(* has lost and gained nothing, also with empty tokens at either end, one  *)
(* token or no delimiter.                                                  *)
Delimiters == Cardinality({p \in 1..Len(input) : input[p] = Delimiter})
SplitIsExact ==
    /\ result = "tokens" => /\ Len(tokens) = NumTokens
                            /\ \A t \in ToSet(tokens) : ~Contains(t, Delimiter)
                            /\ Join(tokens, <<Delimiter>>) = input
                            /\ OstreamJoin(tokens, <<Delimiter>>) = input
    /\ result # "none" => (result = "tokens" <=> Delimiters = NumTokens - 1)

(* trim() removes blanks at both ends, all of them, and nothing else: also *)
(* of a string of blanks only, where npos + 1 wraps to zero.               *)
TrimIsExact ==
    LET t == Trim(input) IN
    /\ \E p \in 0..Len(input) :
         /\ SubSeq(input, p + 1, p + Len(t)) = t
         /\ \A q \in (1..p) \cup ((p + Len(t) + 1)..Len(input)) : input[q] \in Blank
    /\ t # <<>> => t[1] \notin Blank /\ Last(t) \notin Blank
=============================================================================
