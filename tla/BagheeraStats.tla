--------------------------- MODULE BagheeraStats ---------------------------
(***************************************************************************)
(* bagheerastats.py: BagheeraStatsMetric.emit_row polls the /stats page   *)
(* of each Bagheera server in turn, sends every counter on it to Ganglia  *)
(* (send_meta + send), then requests <server>/reset, which zeroes the     *)
(* server's counters.  main() calls emit_row once per run of the script;  *)
(* the script is run again and again (Emits runs), by the               *)
(* processes Procs: runs of different processes may overlap.              *)
(*                                                                         *)
(* The other actors are the Bagheera servers, whose counters the requests *)
(* they serve increase at any time, and the network, on which a request   *)
(* to a server may fail with HTTPError or URLError.  A line "name=<s>"    *)
(* followed by lines "<k>=<count>" is abstracted to one metric <s>.<k>,   *)
(* an element of Metrics; the page of a server lists all of its metrics.  *)
(* The Ganglia host and its gmetric packets are abstracted to the sums    *)
(* of the values sent per server and metric.                              *)
(***************************************************************************)
EXTENDS Integers, Sequences, SequencesExt, FiniteSets, Functions

CONSTANTS NumServers,   \* length of the server_urls list given to emit_row
          Metrics,      \* the <name>.<key> counters a stats page lists
          MaxCount,     \* bound on the requests a server counts in total
          Procs,        \* processes that run the script, possibly at once
          Emits,        \* number of runs of the script
          MaxArgs,      \* bound on the length of the script's argument vector
          ResetMayFail, \* whether the /reset request may fail
          PageMayBeMalformed \* whether a count on a stats page may not be an integer

ASSUME NumServers \in Nat \ {0} /\ MaxCount \in Nat /\ Emits \in Nat
ASSUME MaxArgs \in Nat /\ ResetMayFail \in BOOLEAN /\ PageMayBeMalformed \in BOOLEAN

Servers == 1 .. NumServers

VARIABLES counters,  \* counters[s][m]: the count server s shows for m
          total,     \* total[s][m]: requests server s ever counted for m
          sent,      \* sent[s][m]: sum of the values sent to Ganglia for s, m
          pc,        \* pc[p]: idle, fetch, lines, reset
          emits,     \* runs of the script started
          srv,       \* srv[p]: the server_url of p's loop (index into server_urls)
          page,      \* page[p][m]: the value on the stats page p is reading
          pending    \* pending[p]: metrics of that page whose lines are not read yet

vars == <<counters, total, sent, pc, emits, srv, page, pending>>

Zero == [m \in Metrics |-> 0]

Init ==
    /\ counters = [s \in Servers |-> Zero]
    /\ total = [s \in Servers |-> Zero]
    /\ sent = [s \in Servers |-> Zero]
    /\ pc = [p \in Procs |-> "idle"] /\ emits = 0 /\ srv = [p \in Procs |-> 1]
    /\ page = [p \in Procs |-> Zero] /\ pending = [p \in Procs |-> {}]

\* Total requests of server s, over all metrics.
Counted(s) == SumFunction(total[s])

-----------------------------------------------------------------------------
\* A Bagheera server counts a request it served.
Increment ==
    \E s \in Servers, m \in Metrics :
        /\ Counted(s) < MaxCount
        /\ counters' = [counters EXCEPT ![s][m] = @ + 1]
        /\ total' = [total EXCEPT ![s][m] = @ + 1]
        /\ UNCHANGED <<sent, pc, emits, srv, page, pending>>

(***************************************************************************)
(* The words of sys.argv[1:]: -h/--help, --gmetric and --group with their *)
(* value, "bad" for an unknown option or an option missing its value, and *)
(* "table" for a positional argument.  Host, port and group only set      *)
(* Gmetric's configuration, abstracted away.                               *)
(***************************************************************************)
ArgWords == {"-h", "--help", "--gmetric", "--group", "bad", "table"}

\* getopt parses options up to the first positional argument.
ParsedOpts(argv) ==
    {argv[k] : k \in {k \in DOMAIN argv : \A j \in 1 .. k - 1 : argv[j] # "table"}}

(***************************************************************************)
(* One run of the script, main() (lines 72-106, 109-113): getopt.error    *)
(* exits with 2; the option loop exits with 0 at -h/--help; otherwise      *)
(* emit_row enters its server loop.                                       *)
(***************************************************************************)
MainExit(argv) ==
    IF "bad" \in ParsedOpts(argv) THEN "exit(2)"
    ELSE IF ParsedOpts(argv) \cap {"-h", "--help"} # {} THEN "exit(0)"
    ELSE "emit_row"

\* How main() ends, over every argument vector of up to MaxArgs words.
MainExits == {MainExit(argv) : argv \in SeqOf(ArgWords, MaxArgs)}

EmitRow(p) ==
    /\ pc[p] = "idle" /\ emits < Emits
    /\ emits' = emits + 1
    /\ \E exit \in MainExits :
         IF exit = "emit_row"
           THEN srv' = [srv EXCEPT ![p] = 1] /\ pc' = [pc EXCEPT ![p] = "fetch"]
           ELSE UNCHANGED <<srv, pc>>
    /\ UNCHANGED <<counters, total, sent, page, pending>>

(***************************************************************************)
(* urlopen(server_url), lines 44-46: the server renders its counters as   *)
(* they are now; cur_name is reset for the new page.  A HTTPError or      *)
(* URLError is caught outside the server loop (lines 61-64): the error is *)
(* printed and emit_row returns, skipping the remaining servers.          *)
(***************************************************************************)
FetchStats(p) ==
    /\ pc[p] = "fetch"
    /\ \/ /\ page' = [page EXCEPT ![p] = counters[srv[p]]]
          /\ pending' = [pending EXCEPT ![p] = Metrics]
          /\ pc' = [pc EXCEPT ![p] = "lines"]
       \/ /\ pc' = [pc EXCEPT ![p] = "idle"] /\ UNCHANGED <<page, pending>>
    /\ UNCHANGED <<counters, total, sent, emits, srv>>

(***************************************************************************)
(* One "<key>=<count>" line under the current "name=" line, lines 47-56:  *)
(* int() of the count, send_meta and send of the metric to Ganglia.  The  *)
(* lines are read in the order the page lists them.  A count that is not  *)
(* an integer makes int() raise ValueError, which no except clause of     *)
(* emit_row or main catches: the script ends before the reset.            *)
(***************************************************************************)
SendMetric(p) ==
    /\ pc[p] = "lines"
    /\ \E m \in pending[p] :
         \/ /\ sent' = [sent EXCEPT ![srv[p]][m] = @ + page[p][m]]
            /\ pending' = [pending EXCEPT ![p] = @ \ {m}]
            /\ UNCHANGED pc
         \/ /\ PageMayBeMalformed
            /\ pc' = [pc EXCEPT ![p] = "idle"] /\ UNCHANGED <<sent, pending>>
    /\ UNCHANGED <<counters, total, emits, srv, page>>

\* The page is read to its end: request server_url + "/reset" (lines 57-60).
EndOfPage(p) ==
    /\ pc[p] = "lines" /\ pending[p] = {}
    /\ pc' = [pc EXCEPT ![p] = "reset"]
    /\ UNCHANGED <<counters, total, sent, emits, srv, page, pending>>

(***************************************************************************)
(* The reset request, lines 58-60: the server zeroes every counter,       *)
(* including those counted since the page was rendered, and emit_row     *)
(* goes on with the next server or returns.  If the request fails, the   *)
(* error is printed and emit_row returns with the counters not reset.    *)
(***************************************************************************)
\* A variant of NextServer that goes one past the end of server_urls.
NextServerNoBound(p) ==
    IF srv[p] <= NumServers
      THEN pc' = [pc EXCEPT ![p] = "fetch"] /\ srv' = [srv EXCEPT ![p] = @ + 1]
      ELSE pc' = [pc EXCEPT ![p] = "idle"] /\ UNCHANGED srv

NextServer(p) ==
    IF srv[p] < NumServers
      THEN pc' = [pc EXCEPT ![p] = "fetch"] /\ srv' = [srv EXCEPT ![p] = @ + 1]
      ELSE pc' = [pc EXCEPT ![p] = "idle"] /\ UNCHANGED srv

\* What the Bagheera server does on <server>/reset (its code is not in this
\* repository): it zeroes every counter of srv[p].
ResetCounters(p) == counters' = [counters EXCEPT ![srv[p]] = Zero]

\* A variant of ResetStats whose request goes to server_url, without the
\* "/reset" suffix of line 58: the server renders its page again.
ResetStatsNoSuffix(p) ==
    /\ pc[p] = "reset"
    /\ \/ UNCHANGED counters /\ NextServer(p)
       \/ ResetMayFail /\ pc' = [pc EXCEPT ![p] = "idle"] /\ UNCHANGED <<counters, srv>>
    /\ UNCHANGED <<total, sent, emits, page, pending>>

ResetStats(p) ==
    /\ pc[p] = "reset"
    /\ \/ ResetCounters(p) /\ NextServer(p)
       \/ ResetMayFail /\ pc' = [pc EXCEPT ![p] = "idle"] /\ UNCHANGED <<counters, srv>>
    /\ UNCHANGED <<total, sent, emits, page, pending>>

\* pc "fetch" and "reset" are the script blocked in urlopen (no timeout is
\* passed); the server's answer or the failure ends the wait.
Emitter(p) == EmitRow(p) \/ SendMetric(p) \/ EndOfPage(p)

Answer(p) == FetchStats(p) \/ ResetStats(p)

Next == Increment \/ \E p \in Procs : Emitter(p) \/ Answer(p)

\* Each run of the script takes its steps; nothing makes a server answer, as
\* urlopen is called without a timeout (lines 45 and 59).
Spec == Init /\ [][Next]_vars /\ \A p \in Procs : WF_vars(Emitter(p))
-----------------------------------------------------------------------------
(***************************************************************************)
(* Refinement mapping to LossyStatsPipe.  A count is outstanding while it  *)
(* is on the server's counters and has not been sent: the part of the      *)
(* page already sent in this poll (the lines read, pc "lines" or "reset") *)
(* is delivered, the rest of the counters is outstanding.  The mapping is *)
(* meant for one process: overlapping runs send a count twice.            *)
(***************************************************************************)
SentInPoll(p, s, m) ==
    IF srv[p] = s /\ pc[p] \in {"lines", "reset"} /\ m \notin pending[p] THEN page[p][m] ELSE 0

Outstanding ==
    [s \in Servers |-> [m \in Metrics |->
        counters[s][m] - MapThenFoldSet(+, 0, LAMBDA p : SentInPoll(p, s, m),
                                        LAMBDA ps : CHOOSE p \in ps : TRUE, Procs)]]

LP == INSTANCE LossyStatsPipe WITH Servers <- Servers, outstanding <- Outstanding

TypeOK ==
    /\ counters \in [Servers -> [Metrics -> 0 .. MaxCount]]
    /\ total \in [Servers -> [Metrics -> 0 .. MaxCount]]
    /\ sent \in [Servers -> [Metrics -> Nat]]
    /\ pc \in [Procs -> {"idle", "fetch", "lines", "reset"}]
    /\ emits \in 0 .. Emits /\ srv \in [Procs -> Servers]
    /\ page \in [Procs -> [Metrics -> 0 .. MaxCount]] /\ pending \in [Procs -> SUBSET Metrics]

(***************************************************************************)
(* Ganglia is never sent more than a server counted: over all runs of the *)
(* script, the values sent for a server's metric add up to at most the    *)
(* requests the server counted for it.  The send loop of lines 47-56      *)
(* followed by the reset of lines 58-60 is about it: a count must leave   *)
(* the server's page before it is sent again.                             *)
(***************************************************************************)
NoDoubleReporting ==
    \A s \in Servers, m \in Metrics : sent[s][m] <= total[s][m]

(***************************************************************************)
(* No counted request is lost: every request a server counted is either   *)
(* still on its counters or was sent to Ganglia.  The read of the page    *)
(* (line 45) and the later reset (line 58) are about it.                  *)
(***************************************************************************)
NoLostCounts ==
    \A s \in Servers, m \in Metrics : sent[s][m] + counters[s][m] >= total[s][m]

(***************************************************************************)
(* The emitter is a lossy pipe: each counted request reaches Ganglia at    *)
(* most once, and a value sent was outstanding on the server.  It is the   *)
(* send loop (lines 47-56) and the reset (lines 58-60) that make the      *)
(* counts on the page leave the server exactly when they are sent.        *)
(***************************************************************************)
LossyPipe == LP!Spec
=============================================================================
