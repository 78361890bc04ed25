------------------------------ MODULE LoadRun ------------------------------
(***************************************************************************)
(* What a sequential LoadRunner promises (spec.md 4.3), stated without    *)
(* options, files, clocks or statistics: a run is configured with a       *)
(* request count n, issues requests one at a time, records exactly one    *)
(* sample per request it issued, and completes only when it has issued    *)
(* and recorded max(n, 0) of them.  A run may fail at any point; the      *)
(* process may start another run after one ends.                          *)
(***************************************************************************)
EXTENDS Integers

CONSTANTS Counts    \* the request counts a run may be configured with

VARIABLES phase,    \* idle, running, done, failed
          n,        \* the configured request count
          issued,   \* requests issued in this run
          samples,  \* samples recorded in this run
          inflight  \* a request is issued and its sample not yet recorded

lrvars == <<phase, n, issued, samples, inflight>>

Init == phase = "idle" /\ n \in Counts /\ issued = 0 /\ samples = 0 /\ inflight = FALSE

\* The run is configured: it starts, or fails before issuing anything.
Configure ==
    /\ phase = "idle"
    /\ phase' \in {"running", "failed"} /\ n' \in Counts
    /\ UNCHANGED <<issued, samples, inflight>>

\* The process prepares another run after one ended.
Restart ==
    /\ phase \in {"done", "failed"}
    /\ phase' = "idle" /\ n' \in Counts
    /\ issued' = 0 /\ samples' = 0 /\ inflight' = FALSE

Issue ==
    /\ phase = "running" /\ ~inflight /\ issued < n
    /\ issued' = issued + 1 /\ inflight' = TRUE
    /\ UNCHANGED <<phase, n, samples>>

Record ==
    /\ phase = "running" /\ inflight
    /\ samples' = samples + 1 /\ inflight' = FALSE
    /\ UNCHANGED <<phase, n, issued>>

Complete ==
    /\ phase = "running" /\ ~inflight
    /\ issued = samples /\ samples = IF n > 0 THEN n ELSE 0
    /\ phase' = "done"
    /\ UNCHANGED <<n, issued, samples, inflight>>

\* The run fails, abandoning the request in flight.
Fail ==
    /\ phase = "running" /\ phase' = "failed" /\ inflight' = FALSE
    /\ UNCHANGED <<n, issued, samples>>

Next == Configure \/ Restart \/ Issue \/ Record \/ Complete \/ Fail

Spec == Init /\ [][Next]_lrvars
=============================================================================
