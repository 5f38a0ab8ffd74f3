----------------------------- MODULE Benchmark -----------------------------
(***************************************************************************)
(* benchmark() of inc/jg_benchmark.h: measure with the stopwatch of        *)
(* inc/jg_stopwatch.h, then reduce the samples with the statistics of      *)
(* inc/jg_algorithm.h, which compute in the samples' own integer type.  A   *)
(* sum that overflows it wraps, as builds make it: nothing checks it.      *)
(***************************************************************************)
EXTENDS TwosComplement, SequencesExt

CONSTANTS
    sample_count,
    func_internal_count,
    REP_MAX,     \* the largest sample_type
    Precision,   \* of a double: 2^52, above which a root may round up
    Elapsed      \* nanoseconds the clock may advance while func runs

ASSUME BenchmarkAssumption ==
    /\ REP_MAX \in Nat \ {0} /\ Precision \in Nat \ {0} /\ Elapsed \subseteq Int
    /\ sample_count \in 1..REP_MAX          \* verify() and reserve(), lines 24 and 29
    /\ func_internal_count \in Nat \ {0}    \* verify(), line 25

VARIABLES
    computing,        \* the next assignment to a member of the result
    samples, average, median, std_deviation, median_abs_deviation,
    measured   \* history: the samples as they were pushed

benchmarkVars == <<computing, samples, average, median, std_deviation, median_abs_deviation, measured>>

(* Arithmetic of the machine, which divides toward zero.                   *)
Wrapped(n) == ToSigned(n, REP_MAX)
Quotient(a, b) == IF a < 0 THEN -((-a) \div b) ELSE a \div b
abs_diff(a, b) == IF a >= b THEN Wrapped(a - b) ELSE Wrapped(b - a)
abs_diff_squared(a, b) == Wrapped(abs_diff(a, b) * abs_diff(a, b))
Accumulate(s) == FoldLeft(LAMBDA sum, x : Wrapped(sum + x), 0, s)

BesselAverage(s) == Quotient(Accumulate(s), Len(s) - 1)  \* mutant
Averaged(s) == Quotient(Accumulate(s), Len(s))

(* What static_cast makes of sqrt(q).  A negative q, of a sum that wrapped,*)
(* has no root, and the cast of a NaN is undefined: builds give the lowest *)
(* integer or zero.  The root of q is truncated, but q as a double and the *)
(* root as a double are each rounded to 1 / (2 * Precision) of themselves, *)
(* which reaches a whole number that much above the root.                  *)
IsRoot(r, q) == r * r <= q /\ q < (r + 1) * (r + 1)
RoundsUpTo(r, q) ==
    q > Precision /\ IsRoot(r - 1, q) /\ 2 * (r * r - q) * Precision <= 3 * r * r
Roots(q) ==
    IF q < 0 THEN {-(REP_MAX + 1), 0}
    ELSE {r \in 0..(q + 1) : IsRoot(r, q) \/ RoundsUpTo(r, q)}

StandardDeviations(s, mean) ==
    Roots(Averaged([j \in DOMAIN s |-> abs_diff_squared(mean, s[j])]))

(* External: std::nth_element(first, first + n, last), any order it may    *)
(* leave the elements in.                                                  *)
Permuted(s) == {[j \in DOMAIN s |-> s[p[j]]] : p \in Bijection(DOMAIN s, DOMAIN s)}
NthElement(s, n) ==
    {t \in Permuted(s) : /\ \A j \in 1..n : t[j] <= t[n + 1]
                         /\ \A j \in (n + 1)..Len(t) : t[n + 1] <= t[j]}
Nearest(s) == Len(s) - 1  \* mutant: the last instead of the middle
Nth(s) == Len(s) \div 2

BenchmarkInit ==
    /\ computing = "sample" /\ samples = <<>> /\ measured = <<>>
    /\ average = 0 /\ median = 0 /\ std_deviation = 0 /\ median_abs_deviation = 0

(* One iteration of the loop: sw.ns(), negative if the clock was set back, *)
(* is converted to size_t and divided.                                     *)
Sample(ns) == Wrapped((ns % Modulus(REP_MAX)) \div func_internal_count)

Measure ==
    /\ computing = "sample" /\ Len(samples) < sample_count
    /\ \E ns \in Elapsed :
         /\ samples' = Append(samples, Sample(ns))
         /\ measured' = Append(measured, Sample(ns))
    /\ UNCHANGED <<computing, average, median, std_deviation, median_abs_deviation>>

Average ==
    /\ computing = "sample" /\ Len(samples) = sample_count
    /\ average' = Averaged(samples)
    /\ computing' = "median"
    /\ UNCHANGED <<samples, median, std_deviation, median_abs_deviation, measured>>

(* median() works in the samples themselves.                               *)
Median ==
    /\ computing = "median"
    /\ samples' \in NthElement(samples, Nth(samples))
    /\ median' = samples'[Nth(samples) + 1]
    /\ computing' = "deviation"
    /\ UNCHANGED <<average, std_deviation, median_abs_deviation, measured>>

StandardDeviation ==
    /\ computing = "deviation"
    /\ std_deviation' \in StandardDeviations(samples, average)
    /\ computing' = "mad"
    /\ UNCHANGED <<samples, average, median, median_abs_deviation, measured>>

(* median_absolute_deviation(): the median of a vector of its own.         *)
MedianAbsoluteDeviation ==
    /\ computing = "mad"
    /\ LET deviations == [j \in DOMAIN samples |-> abs_diff(median, samples[j])] IN
         /\ \E t \in NthElement(deviations, Nth(deviations)) :
              median_abs_deviation' = t[Nth(deviations) + 1]
    /\ computing' = "done"
    /\ UNCHANGED <<samples, average, median, std_deviation, measured>>

BenchmarkNext == Measure \/ Average \/ Median \/ StandardDeviation \/ MedianAbsoluteDeviation
BenchmarkSpec == BenchmarkInit /\ [][BenchmarkNext]_benchmarkVars

-----------------------------------------------------------------------------
(* Properties                                                              *)

HowMany(Test(_)) == Cardinality({j \in 1..Len(measured) : Test(measured[j])})

(* Sums without a limit, and whether the type of the samples holds one.    *)
Total(s) == FoldLeft(LAMBDA sum, x : sum + x, 0, s)
Squares == Total([j \in DOMAIN samples |-> (average - samples[j]) * (average - samples[j])])
Holds(sum) == sum \in Signed(REP_MAX)

(* The average is that of the samples exactly when their type holds their  *)
(* sum, whatever the sums on the way to it did; the standard deviation is  *)
(* right whenever the type holds the sum of the squares, though each       *)
(* difference, square and sum on the way wraps.  It is truncated, or one   *)
(* more beyond the precision of a double.  Nothing warns of the other sums,*)
(* which a thousand samples that deviate by a tenth of a second reach.     *)
StatisticsAreSound ==
    computing = "done" =>
        /\ average = Quotient(Total(measured), sample_count) <=> Holds(Total(measured))
        /\ LET variance == Squares \div sample_count IN
             Holds(Squares) =>
                \/ IsRoot(std_deviation, variance)
                \/ variance > Precision /\ IsRoot(std_deviation - 1, variance)

(* At least half of the samples are on either side of the median, and half *)
(* lie within the median absolute deviation of it, in whatever order       *)
(* nth_element left them.                                                  *)
HalvesAreHalves ==
    computing = "done" =>
        /\ 2 * HowMany(LAMBDA x : x <= median) >= sample_count
        /\ 2 * HowMany(LAMBDA x : x >= median) >= sample_count
        /\ 2 * HowMany(LAMBDA x : abs_diff(x, median) <= median_abs_deviation)
             >= sample_count
        /\ 2 * HowMany(LAMBDA x : abs_diff(x, median) >= median_abs_deviation)
             >= sample_count
=============================================================================
