----------------------------- MODULE Timestamp -----------------------------
(***************************************************************************)
(* to_string(timestamp) of inc/jg_simple_logger.h, as the logger uses it   *)
(* at one instant after another.  A text is the sequence of its char       *)
(* codes.  A time point counts ticks of half a millisecond since 1970, so  *)
(* that both conversions of the code truncate.                             *)
(***************************************************************************)
EXTENDS Integers, Sequences

CONSTANTS
    Instants,   \* the time points at which something is logged
    Zone,       \* external: the seconds localtime adds to UTC
    Windows     \* localtime_s, which fails before 1970, or localtime_r

ASSUME TimestampAssumption ==
    Instants \subseteq Int /\ Zone \in Int /\ Windows \in BOOLEAN

VARIABLES now, shown   \* the time point, and its text
timestampVars == <<now, shown>>

(* Division of C++: toward zero.                                           *)
Quot(a, b) == IF a < 0 THEN -((-a) \div b) ELSE a \div b
Char(v) == (48 + v) % 256   \* '0' + static_cast<char>(v)

Seconds(t) == Quot(t, 2000)                      \* to_time_t
Milliseconds(t) == Quot(t - 2000 * Seconds(t), 2)

TimeOfDay(s) == [hour |-> s \div 3600, min |-> (s % 3600) \div 60, sec |-> s % 60]
LocaltimeSafe(s) ==
    TimeOfDay(IF Windows /\ s < 0 THEN 0 ELSE (s + Zone) % 86400)

Digits(v) ==
    IF v < 10 THEN <<Char(v)>>
    ELSE IF v < 100 THEN <<Char(v \div 10), Char(v % 10)>>
    ELSE <<Char(v \div 100), Char((v \div 10) % 10), Char(v % 10)>>
Decimal(v) == IF v < 0 THEN <<45>> \o Digits(-v) ELSE Digits(v)

(* std::setw(n) with std::setfill('0'): fills on the left, never cuts.     *)
Setw(n, v) == [i \in 1..(n - Len(Decimal(v))) |-> 48] \o Decimal(v)

PutTime(tm) == Setw(2, tm.hour) \o <<58>> \o Setw(2, tm.min) \o <<58>> \o Setw(2, tm.sec)
UnsetWidth(t) ==  \* mutant: setw and setfill forgotten
    PutTime(LocaltimeSafe(Seconds(t))) \o <<46>> \o Decimal(Milliseconds(t)) \o <<32>>
to_string(t) ==
    PutTime(LocaltimeSafe(Seconds(t))) \o <<46>> \o Setw(3, Milliseconds(t)) \o <<32>>

-----------------------------------------------------------------------------
(* Logging at one instant after another; the clock may be set back.        *)

TimestampInit == now \in Instants /\ shown = to_string(now)
Log == now' \in Instants \ {now} /\ shown' = to_string(now')
TimestampNext == Log
TimestampSpec == TimestampInit /\ [][TimestampNext]_timestampVars

-----------------------------------------------------------------------------
(* Properties                                                              *)

(* jg_simple_logger.h:37: to_string "Formats a timestamp into a 24-hour    *)
(* hh:mm:ss.mmm string".  From 1970 on, the text is exact: read back, it   *)
(* is the local time of day, rounded down to a millisecond.  Before 1970   *)
(* it still is at whole seconds, and at no other time: the milliseconds    *)
(* are negative and written with their sign.  (On Windows the time of day  *)
(* is then midnight, which is right on midnight only.)                     *)
Reads(text) ==
    LET d(i) == text[i] - 48 IN
    3600000 * (10 * d(1) + d(2)) + 60000 * (10 * d(4) + d(5))
        + 1000 * (10 * d(7) + d(8)) + 100 * d(10) + 10 * d(11) + d(12)
TextIsExact ==
    LET exact == /\ Len(shown) = 13
                 /\ \A i \in {1, 2, 4, 5, 7, 8, 10, 11, 12} : shown[i] \in 48..57
                 /\ Reads(shown) = (now \div 2 + 1000 * Zone) % 86400000
        midnight == (now \div 2000 + Zone) % 86400 = 0
    IN exact <=> (now >= 0 \/ (now % 2000 = 0 /\ (Windows => midnight)))
=============================================================================
