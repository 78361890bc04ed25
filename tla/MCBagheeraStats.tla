-------------------------- MODULE MCBagheeraStats --------------------------
(* Model values and bounds for checking BagheeraStats. *)
EXTENDS BagheeraStats

CONSTANTS m1, m2, p1, p2

MCMetrics == {m1, m2}

\* One process runs the script at a time, as when each run ends before the next starts.
OneProc == {p1}

\* Two processes, as when a run is still hung when the next one is started.
TwoProcs == {p1, p2}

ProcSymmetry == Permutations(TwoProcs)
=============================================================================
