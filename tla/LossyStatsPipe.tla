--------------------------- MODULE LossyStatsPipe ---------------------------
(***************************************************************************)
(* What the Ganglia stats emitter of bagheerastats.py promises, stated    *)
(* without pages, lines or resets: every request a server counts becomes  *)
(* outstanding; an outstanding count is delivered to Ganglia at most once *)
(* and may be dropped, never delivered twice.  The emitter (BagheeraStats) *)
(* implements it when the reset of a read page cannot fail and runs of   *)
(* the script do not overlap.                                             *)
(***************************************************************************)
EXTENDS Integers

CONSTANTS Servers, Metrics

VARIABLES total,        \* total[s][m]: requests server s counted for m
          outstanding,  \* outstanding[s][m]: counted, neither delivered nor dropped
          sent          \* sent[s][m]: counts delivered to Ganglia

Init ==
    /\ total = [s \in Servers |-> [m \in Metrics |-> 0]]
    /\ outstanding = total /\ sent = total

\* A server counts one request.
Count(s, m) ==
    /\ total' = [total EXCEPT ![s][m] = @ + 1]
    /\ outstanding' = [outstanding EXCEPT ![s][m] = @ + 1]
    /\ UNCHANGED sent

\* Some outstanding counts of one metric reach Ganglia.
Deliver(s, m) ==
    \E k \in 1 .. outstanding[s][m] :
        /\ sent' = [sent EXCEPT ![s][m] = @ + k]
        /\ outstanding' = [outstanding EXCEPT ![s][m] = @ - k]
        /\ UNCHANGED total

\* Everything outstanding at server s is dropped at once.
Drop(s) ==
    /\ outstanding' = [outstanding EXCEPT ![s] = [m \in Metrics |-> 0]]
    /\ UNCHANGED <<total, sent>>

Next == \E s \in Servers : Drop(s) \/ \E m \in Metrics : Count(s, m) \/ Deliver(s, m)

Spec == Init /\ [][Next]_<<total, outstanding, sent>>
=============================================================================
