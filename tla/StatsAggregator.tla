-------------------------- MODULE StatsAggregator --------------------------
(***************************************************************************)
(* The statistics that print_time_stats (http-test.py) prints over the     *)
(* response codes and request times of one run.  The code delegates to     *)
(* scipy.stats.itemfreq, numpy.mean/median/std and                         *)
(* scipy.stats.scoreatpercentile; each operator below is what that call    *)
(* computes, in exact integer arithmetic.  Latencies are whole             *)
(* milliseconds.  Fractional results are kept exact by scaling:            *)
(*   Score100(t, p) = 100 * scoreatpercentile(t, p)                        *)
(*   Median2(t)     = 2 * numpy.median(t)                                  *)
(*   Mean(t), PopVariance(t) are fractions [num, den].                     *)
(***************************************************************************)
EXTENDS Integers, Sequences, SequencesExt, FiniteSets

\* The percentiles print_time_stats asks for, in the order it prints them.
Percentiles == <<25, 50, 75, 90, 95, 99>>

\* numpy.sort / the sort inside scoreatpercentile: ascending order.
Sorted(t) == SortSeq(t, <)

SeqSum(t) == FoldSeq(+, 0, t)

\* Number of occurrences of v in the sequence t.
Occurrences(v, t) == Cardinality({i \in DOMAIN t : t[i] = v})

(***************************************************************************)
(* scipy.stats.itemfreq(ret_codes): one pair <<code, count>> per distinct  *)
(* code, in ascending code order (the loop at http-test.py:105 prints them *)
(* in that order).                                                         *)
(***************************************************************************)
ItemFreq(codes) ==
    LET u == SetToSortSeq(ToSet(codes), <)
    IN  [k \in DOMAIN u |-> <<u[k], Occurrences(u[k], codes)>>]

\* min(times) and max(times); the caller guarantees times # << >>.
SeqMin(t) == Sorted(t)[1]
SeqMax(t) == Sorted(t)[Len(t)]

\* numpy.mean(times) as a fraction.
Mean(t) == [num |-> SeqSum(t), den |-> Len(t)]

(***************************************************************************)
(* numpy.median: the middle element of the sorted times, or the mean of    *)
(* the two middle ones when their number is even.  Scaled by 2.            *)
(***************************************************************************)
Median2(t) ==
    LET s == Sorted(t)
        n == Len(s)
    IN  IF n % 2 = 1 THEN 2 * s[(n + 1) \div 2]
                     ELSE s[n \div 2] + s[n \div 2 + 1]

(***************************************************************************)
(* numpy.std(times) uses ddof = 0: the population variance, the sum of the *)
(* squared deviations divided by N.  As a fraction,                        *)
(*   var = (N * sum(x^2) - sum(x)^2) / N^2.                                *)
(* The printed stddev is its square root, which is monotone, so the        *)
(* properties compare variances.                                           *)
(***************************************************************************)
SquaredDeviationsN(t) ==
    Len(t) * SeqSum([i \in DOMAIN t |-> t[i] * t[i]]) - SeqSum(t) * SeqSum(t)

\* The sample variance (ddof = 1), which numpy.std does NOT compute.
SampleVariance(t) == [num |-> SquaredDeviationsN(t), den |-> Len(t) * (Len(t) - 1)]

PopVariance(t) == [num |-> SquaredDeviationsN(t), den |-> Len(t) * Len(t)]

(***************************************************************************)
(* scipy.stats.scoreatpercentile(times, p) (default interpolation          *)
(* 'fraction'): sort, idx = p/100 * (N-1); if idx is whole the score is    *)
(* values[idx], otherwise values[floor(idx)] interpolated linearly towards *)
(* values[floor(idx)+1] by the fractional part of idx.  Indices here are   *)
(* 1-based, and the result is scaled by 100.                               *)
(***************************************************************************)
\* Nearest-rank rounding down, which discards the fractional part of idx.
Score100NearestRank(t, p) ==
    LET s == Sorted(t)
    IN  100 * s[(p * (Len(s) - 1)) \div 100 + 1]

\* Interpolation in the wrong direction: values[lo] + (values[lo] - values[lo+1]) * f.
Score100Reversed(t, p) ==
    LET s    == Sorted(t)
        idx  == p * (Len(s) - 1)
        lo   == idx \div 100 + 1
        frac == idx % 100
    IN  IF frac = 0 THEN 100 * s[lo]
                    ELSE 100 * s[lo] + (s[lo] - s[lo + 1]) * frac

Score100(t, p) ==
    LET s    == Sorted(t)
        idx  == p * (Len(s) - 1)        \* 100 * idx
        lo   == idx \div 100 + 1
        frac == idx % 100               \* 100 * (idx % 1)
    IN  IF frac = 0 THEN 100 * s[lo]
                    ELSE 100 * s[lo] + (s[lo + 1] - s[lo]) * frac

(***************************************************************************)
(* The numbers print_time_stats prints after the counts, for a non-empty   *)
(* run: the code histogram, min, mean, median, max, stddev (as variance)   *)
(* and the six percentiles.                                                *)
(***************************************************************************)
Summary(codes, times) ==
    [ freq   |-> ItemFreq(codes),
      min    |-> SeqMin(times),
      mean   |-> Mean(times),
      median2 |-> Median2(times),
      max    |-> SeqMax(times),
      var    |-> PopVariance(times),
      pct100 |-> [k \in DOMAIN Percentiles |-> Score100(times, Percentiles[k])] ]
=============================================================================
