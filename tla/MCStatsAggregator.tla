------------------------- MODULE MCStatsAggregator -------------------------
(***************************************************************************)
(* Checks the statistics of print_time_stats over every run result of up  *)
(* to MaxSamples samples.  A run result is what post_requests and the      *)
(* timeit wrapper build: ret_codes and the global times list, one entry    *)
(* appended to each per completed request (http-test.py:64 and :92).       *)
(***************************************************************************)
EXTENDS StatsAggregator

CONSTANTS Codes,        \* response codes a request can contribute
          Latencies,    \* request times, in whole milliseconds
          MaxSamples    \* bound on the number of requests of a run

ASSUME Latencies \subseteq Nat /\ MaxSamples \in Nat \ {0}

VARIABLES ret_codes, times

vars == <<ret_codes, times>>

Init == ret_codes = << >> /\ times = << >>

\* A variant in which the code is recorded but the latency is not.
RecordSampleCodeOnly ==
    /\ Len(times) < MaxSamples
    /\ \E c \in Codes, l \in Latencies :
          /\ UNCHANGED times
          /\ ret_codes' = Append(ret_codes, c)

\* One request completes: timed() appends its latency, post_requests its code.
RecordSample ==
    /\ Len(times) < MaxSamples
    /\ \E c \in Codes, l \in Latencies :
          /\ times' = Append(times, l)
          /\ ret_codes' = Append(ret_codes, c)

Next == RecordSample

Spec == Init /\ [][Next]_vars

-----------------------------------------------------------------------------
TypeOK ==
    /\ ret_codes \in Seq(Codes) /\ times \in Seq(Latencies)
    /\ Len(ret_codes) = Len(times)

S == Summary(ret_codes, times)

(***************************************************************************)
(* The printed percentiles are in ascending order and lie between the      *)
(* printed min and max (scoreatpercentile's linear interpolation between   *)
(* neighbouring ranks of the sorted times).                                *)
(***************************************************************************)
PercentilesOrdered ==
    times # << >> =>
      /\ 100 * S.min <= S.pct100[1]
      /\ \A k \in 1 .. Len(Percentiles) - 1 : S.pct100[k] <= S.pct100[k + 1]
      /\ S.pct100[Len(Percentiles)] <= 100 * S.max

(***************************************************************************)
(* The median numpy.median prints equals the 50% quantile scoreatpercentile*)
(* prints, also for an even number of requests where both interpolate.     *)
(***************************************************************************)
MedianIsP50 ==
    times # << >> => 50 * S.median2 = S.pct100[2]

(***************************************************************************)
(* The printed stddev is the population one (numpy.std, ddof = 0), which   *)
(* never exceeds half the range max - min (Popoviciu's inequality); the    *)
(* sample stddev (ddof = 1) does for two requests.                         *)
(***************************************************************************)
StdWithinHalfRange ==
    times # << >> =>
      4 * S.var.num <= S.var.den * (S.max - S.min) * (S.max - S.min)
=============================================================================
