------------------------------- MODULE Args -------------------------------
(***************************************************************************)
(* Lookups in the command line, inc/jg_args.h, with the find_if() of       *)
(* inc/jg_algorithm.h, one item a step.  An item is a string.              *)
(***************************************************************************)
EXTENDS Strings

CONSTANTS
    Items,    \* the strings a command line may hold
    Keys,     \* the keys that are looked up
    MaxArgs   \* bound: argc

ASSUME ArgsAssumption ==
    /\ Items \cup Keys \subseteq Seq(STRING) /\ MaxArgs \in Nat
    /\ npos \in Nat /\ \A item \in Items : Len(item) < npos

VARIABLES
    args, key,          \* the arguments of the lookups
    first,              \* find_if's iterator, an offset from argv
    looking,            \* "value" in args_key_value(), "key" in args_has_key(), or "no"
    key_value, has_key  \* what they returned last for the key

argsVars == <<args, key, first, looking, key_value, has_key>>

None == <<>>   \* nothing returned yet

ArgsInit ==
    /\ args \in BoundedSeq(Items, MaxArgs) /\ key \in Keys
    /\ first = 0 /\ looking = "value"
    /\ key_value = None /\ has_key = None

Pred(item) == IF looking = "value" THEN StartsWith(item, key) ELSE item = key
AtEnd == first = Len(args)
Found == ~AtEnd /\ Pred(args[first + 1])

Advanced(it) == it + 1
FindIfStep ==
    /\ looking # "no" /\ ~AtEnd /\ ~Found
    /\ first' = Advanced(first)
    /\ UNCHANGED <<args, key, looking, key_value, has_key>>

Remainder(item) == Substr(item, Len(key), npos)

(* args_key_value() returns; std::nullopt is the empty set of values.      *)
KeyValue ==
    /\ looking = "value" /\ (Found \/ AtEnd)
    /\ key_value' = <<IF Found THEN {Remainder(args[first + 1])} ELSE {}>>
    /\ looking' = "key" /\ first' = 0
    /\ UNCHANGED <<args, key, has_key>>

HasKey ==
    /\ looking = "key" /\ (Found \/ AtEnd)
    /\ has_key' = <<~AtEnd>>
    /\ looking' = "no"
    /\ UNCHANGED <<args, key, first, key_value>>

ArgsNext == FindIfStep \/ KeyValue \/ HasKey
ArgsSpec == ArgsInit /\ [][ArgsNext]_argsVars

-----------------------------------------------------------------------------
(* Properties                                                              *)

(* The value of a key is what follows it in the first item that starts     *)
(* with it; only if there is none, there is no value.  So a key that is    *)
(* present has a value too, which is empty unless an earlier item only     *)
(* starts with the key.                                                    *)
LookupsAgree ==
    /\ key_value # None =>
        LET matches == {a \in 1..Len(args) : IsPrefix(key, args[a])} IN
        key_value[1] = {SubSeq(args[a], Len(key) + 1, Len(args[a])) :
                          a \in {b \in matches : \A c \in matches : b <= c}}
    /\ has_key = <<TRUE>> =>
        /\ key_value[1] # {}
        /\ key_value[1] = {<<>>} \/ \E a, b \in 1..Len(args) :
               a < b /\ args[b] = key /\ IsStrictPrefix(key, args[a])
=============================================================================
