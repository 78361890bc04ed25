------------------------------ MODULE HttpTest ------------------------------
(***************************************************************************)
(* The load generator http-test.py (and its copy http_test.py): main()     *)
(* parses the options, reads the POST file, post_requests issues           *)
(* num_requests timed POSTs one after the other, and print_time_stats      *)
(* prints the statistics.  The other actors are the HTTP server, which     *)
(* answers each POST (or not), and the wall clock that time.time() reads.  *)
(*                                                                         *)
(* main() may be called more than once in one process (it takes argv for   *)
(* that purpose); the module-level list `times` is shared by all calls.    *)
(* Content type, URL text and payload bytes are left out: no property      *)
(* distinguishes them.  The uuid4() path segment (line 91) is fresh per    *)
(* iteration and is not represented.                                       *)
(***************************************************************************)
EXTENDS Integers, Sequences, StatsAggregator

CONSTANTS NArgs,          \* integers the -n value may spell
          NotInt,         \* a -n value int() rejects
          NoArg,          \* the argument of an option that takes none
          MaxOpts,        \* bound on the number of options on the command line
          OkStatuses,     \* 2xx/3xx statuses urlopen returns normally
          ErrorStatuses,  \* 4xx/5xx statuses urlopen raises HTTPError for
          NoStatus,       \* status of a URLError (connection refused, DNS, ...)
          NoReply,        \* no answer from the server yet
          Calls,          \* number of calls of main() in the process
          MaxClock,       \* bound on the wall clock
          ClockMayStepBack \* whether the wall clock may be set back (NTP)

ASSUME NArgs \subseteq Int /\ MaxOpts \in Nat /\ Calls \in Nat \ {0}
ASSUME MaxClock \in Nat /\ ClockMayStepBack \in BOOLEAN

\* One option as getopt returns it: <<flag, value>>.
Options == {[flag |-> f, arg |-> NoArg] : f \in {"-h", "-p", "-T"}}
             \cup {[flag |-> "-n", arg |-> a] : a \in NArgs \cup {NotInt}}

OptSeqs == UNION {[1 .. k -> Options] : k \in 0 .. MaxOpts}

\* What urlopen can come back with.
Replies == [kind : {"response"}, status : OkStatuses]
             \cup [kind : {"http_error"}, status : ErrorStatuses]
             \cup [kind : {"url_error"}, status : {NoStatus}]

Outcomes == {"none", "ok", "usage", "ValueError", "IOError", "NameError"}

VARIABLES pc,          \* where main() is: start, read, loop, wait, exit
          calls,       \* calls of main() started so far
          outcome,     \* how the last call of main() ended
          num_requests,
          i,           \* the loop index of post_requests
          ret_codes,   \* local list of post_requests
          times,       \* module-level list appended to by timed()
          ts,          \* time.time() read by timed() before the call
          clock,       \* the wall clock
          reply,       \* the server's answer to the POST in flight
          served,      \* the server's answers of this call, in order
          report       \* the figures print_time_stats printed

vars == <<pc, calls, outcome, num_requests, i, ret_codes, times, ts, clock,
          reply, served, report>>

client == <<pc, calls, outcome, num_requests, i, ret_codes, times, ts, report>>

Init ==
    /\ pc = "start" /\ calls = 0 /\ outcome = "none"
    /\ num_requests = 1 /\ i = 0
    /\ ret_codes = << >> /\ times = << >> /\ ts = 0 /\ clock = 0
    /\ reply = NoReply /\ served = << >> /\ report = NoReply

-----------------------------------------------------------------------------
(***************************************************************************)
(* The option loop of main(), lines 131-142: options are taken in order;   *)
(* -h raises Usage at once, int() of a bad -n value raises ValueError at   *)
(* once, a later -n overrides an earlier one.                              *)
(***************************************************************************)
\* A variant of int(value) at line 140 that keeps the value as it is.
ParseNNoInt(st, a) == [st EXCEPT !.n = a]

\* num_requests = int(value), line 140: int() of a non-integer raises ValueError.
ParseN(st, a) ==
    IF a = NotInt THEN [st EXCEPT !.status = "ValueError"] ELSE [st EXCEPT !.n = a]

\* One option of the loop; nothing runs after Usage or ValueError was raised.
ProcessOpt(st, o) ==
    IF st.status # "ok" THEN st
    ELSE CASE o.flag = "-h" -> [st EXCEPT !.status = "usage"]
           [] o.flag = "-p" -> [st EXCEPT !.post_file = TRUE]
           [] o.flag = "-n" -> ParseN(st, o.arg)
           [] OTHER         -> st   \* -T only sets the header

ProcessOpts(opts, st) == FoldLeft(ProcessOpt, st, opts)

\* How main() gets past its argument checks, lines 122-149: a getopt error
\* and -h raise Usage, int() of a bad -n value raises ValueError, and a
\* missing URL or post file raises Usage.
ParseResult(getopt_error, st, has_url) ==
    CASE getopt_error                          -> "usage"
      [] st.status = "ValueError"              -> "ValueError"
      [] st.status = "usage"                   -> "usage"
      [] ~has_url \/ ~st.post_file             -> "usage"
      [] OTHER                                 -> "ok"

\* main() up to read_file.  Usage is caught and main() returns 2; the
\* ValueError escapes main() and ends the process.
ParseArgs ==
    /\ pc = "start"
    /\ \E getopt_error \in BOOLEAN, opts \in OptSeqs, has_url \in BOOLEAN :
         LET st  == ProcessOpts(opts, [status |-> "ok", post_file |-> FALSE, n |-> 1])
             res == ParseResult(getopt_error, st, has_url)
         IN  IF res = "ok"
               THEN pc' = "read" /\ num_requests' = st.n /\ UNCHANGED outcome
               ELSE pc' = "exit" /\ outcome' = res /\ UNCHANGED num_requests
    /\ calls' = calls + 1
    /\ ret_codes' = << >> /\ served' = << >> /\ i' = 0
    /\ UNCHANGED <<times, ts, clock, reply, report>>

\* read_file(post_file), lines 95-99 and 151: open() may raise IOError,
\* which escapes main().
ReadFile ==
    /\ pc = "read"
    /\ \/ pc' = "loop" /\ UNCHANGED outcome
       \/ pc' = "exit" /\ outcome' = "IOError"
    /\ UNCHANGED <<calls, num_requests, i, ret_codes, times, ts, clock, reply,
                   served, report>>

\* One iteration of post_requests, lines 90-92, up to urlopen: a fresh
\* URL, timed() reads the clock (line 60), post() sends the request.
PostRequest ==
    /\ pc = "loop"
    /\ i < num_requests
    /\ pc' = "wait" /\ ts' = clock /\ reply' = NoReply
    /\ UNCHANGED <<calls, outcome, num_requests, i, ret_codes, times, clock,
                   served, report>>

\* The server answers the POST in flight.
Respond ==
    /\ pc = "wait" /\ reply = NoReply
    /\ \E r \in Replies : reply' = r /\ served' = Append(served, r)
    /\ UNCHANGED client /\ UNCHANGED clock

\* The code post() returns when urlopen returns: set to 200 at line 80 and
\* never changed, whatever the response's status (line 82 drops it).
PostCode == 200

\* A variant of PostReturns that retries the POST once and records both codes.
PostReturnsRetry ==
    /\ pc = "wait" /\ reply # NoReply /\ reply.kind = "response"
    /\ times' = times \o <<clock - ts, clock - ts>>
    /\ ret_codes' = ret_codes \o <<PostCode, PostCode>>
    /\ i' = i + 1 /\ pc' = "loop"
    /\ UNCHANGED <<calls, outcome, num_requests, ts, clock, reply, served, report>>

\* urlopen returns: post() returns its code, which it set to 200 before the
\* call and never to the response's status (lines 80-85); timed() reads the
\* clock again and appends (te - ts) to times (lines 62-64); post_requests
\* appends the code (line 92) and moves to the next iteration.
PostReturns ==
    /\ pc = "wait" /\ reply # NoReply /\ reply.kind = "response"
    /\ times' = Append(times, clock - ts)
    /\ ret_codes' = Append(ret_codes, PostCode)
    /\ i' = i + 1 /\ pc' = "loop"
    /\ UNCHANGED <<calls, outcome, num_requests, ts, clock, reply, served, report>>

\* urlopen raises HTTPError or URLError.  Evaluating `except URLError`
\* (line 83) raises NameError, because only the module urllib2 is imported;
\* it escapes timed() before the append, post_requests and main().
PostRaises ==
    /\ pc = "wait" /\ reply # NoReply /\ reply.kind # "response"
    /\ pc' = "exit" /\ outcome' = "NameError"
    /\ UNCHANGED <<calls, num_requests, i, ret_codes, times, ts, clock, reply,
                   served, report>>

(***************************************************************************)
(* print_time_stats, lines 101-119.  min() of an empty times raises        *)
(* ValueError after the counts and the (empty) code distribution were     *)
(* printed; otherwise the statistics of times are printed and main()      *)
(* returns None.                                                          *)
(***************************************************************************)
PrintTimeStats ==
    /\ pc' = "exit"
    /\ IF times = << >>
         THEN outcome' = "ValueError" /\ UNCHANGED report
         ELSE outcome' = "ok" /\ report' = Summary(ret_codes, times)
    /\ UNCHANGED <<calls, num_requests, i, ret_codes, times, ts, clock, reply, served>>

\* A variant of the loop's end with the bound one short (range(0, n - 1)).
PrintStatsEarly == pc = "loop" /\ i >= num_requests - 1 /\ PrintTimeStats

\* The loop of post_requests is over (line 90); main() calls print_time_stats (line 153).
PrintStats == pc = "loop" /\ i >= num_requests /\ PrintTimeStats

\* Another call of main() in the same process, after the previous one returned.
CallMain ==
    /\ pc = "exit" /\ outcome \in {"ok", "usage"} /\ calls < Calls
    /\ pc' = "start"
    /\ UNCHANGED <<calls, outcome, num_requests, i, ret_codes, times, ts, clock,
                   reply, served, report>>

\* The wall clock advances while a request is in flight.
Tick ==
    /\ pc = "wait" /\ clock < MaxClock
    /\ clock' = clock + 1
    /\ UNCHANGED client /\ UNCHANGED <<reply, served>>

\* The wall clock is set back (time.time() is not monotonic).
StepBack ==
    /\ ClockMayStepBack /\ pc = "wait" /\ clock > 0
    /\ clock' = clock - 1
    /\ UNCHANGED client /\ UNCHANGED <<reply, served>>

Client == ParseArgs \/ ReadFile \/ PostRequest \/ PostReturns \/ PostRaises
            \/ PrintStats \/ CallMain

Next == Client \/ Respond \/ Tick \/ StepBack

\* The code sets no timeout: only the client is guaranteed to take its steps.
FairClientSpec == Init /\ [][Next]_vars /\ WF_vars(Client)

\* In addition, the server eventually answers every POST.
Spec == FairClientSpec /\ WF_vars(Respond)

-----------------------------------------------------------------------------
(***************************************************************************)
(* Refinement mapping to LoadRun: a call of main() is idle until read_file *)
(* returned, running in the request loop, done when it printed a report   *)
(* and failed when it ended otherwise.  The request in flight, or the one *)
(* whose NameError ended the call, is issued; ret_codes are the samples.  *)
(***************************************************************************)
Phase ==
    CASE pc \in {"start", "read"}       -> "idle"
      [] pc \in {"loop", "wait"}        -> "running"
      [] outcome = "ok"                 -> "done"
      [] OTHER                          -> "failed"

Idle == Phase = "idle"

LR == INSTANCE LoadRun WITH
        Counts <- NArgs \cup {1}, phase <- Phase,
        n <- IF Idle THEN 1 ELSE num_requests,
        issued <- IF Idle THEN 0
                  ELSE i + IF pc = "wait" \/ outcome = "NameError" THEN 1 ELSE 0,
        samples <- IF Idle THEN 0 ELSE Len(ret_codes),
        inflight <- pc = "wait"

TypeOK ==
    /\ pc \in {"start", "read", "loop", "wait", "exit"}
    /\ calls \in 0 .. Calls /\ outcome \in Outcomes
    /\ num_requests \in NArgs \cup {1} /\ i \in Nat
    /\ ret_codes \in Seq({200}) /\ times \in Seq(Int)
    /\ ts \in 0 .. MaxClock /\ clock \in 0 .. MaxClock
    /\ reply \in Replies \cup {NoReply} /\ served \in Seq(Replies)

(***************************************************************************)
(* A printed report accounts for exactly the POSTs post_requests issued in *)
(* this call, len(range(0, n)) of them: one code and one server answer per *)
(* request, none left out and none added.                                  *)
(***************************************************************************)
ReportCounts ==
    pc = "exit" /\ outcome = "ok" =>
        /\ Len(ret_codes) = IF num_requests > 0 THEN num_requests ELSE 0
        /\ Len(served) = Len(ret_codes)

(***************************************************************************)
(* The program terminates: every call of main() ends, by a report, a usage *)
(* message or an exception, and the process does not call it again.       *)
(***************************************************************************)
Termination == <>[](pc = "exit")

(***************************************************************************)
(* post_requests is a sequential load run (spec.md 4.3): each iteration    *)
(* issues one POST, records one code for it before the next, and a report *)
(* is printed only once len(range(0, n)) requests were issued and          *)
(* recorded.  The loop of lines 90-92, timed() and print_time_stats' call *)
(* at line 153 are about it.                                               *)
(***************************************************************************)
SequentialRun == LR!Spec

(***************************************************************************)
(* Spec 4.3: a request that fails at the transport level still yields a   *)
(* sample, and a run that started issuing requests is never aborted by one *)
(* failure: once the server has answered a POST of this call, the call    *)
(* ends with a report.  The except clause of post(), line 83, is about it.*)
(***************************************************************************)
RequestFailuresRecorded ==
    pc = "exit" /\ served # << >> => outcome = "ok"

(***************************************************************************)
(* Spec 4.2: the recorded status is the status the server returned; post()*)
(* at lines 80-85 is about it.                                            *)
(***************************************************************************)
RecordsServerStatus ==
    \A k \in 1 .. Len(ret_codes) : ret_codes[k] = served[k].status

(***************************************************************************)
(* Spec 4.2: a recorded latency is never negative; timed(), lines 60-64,  *)
(* computes it from two readings of time.time().                          *)
(***************************************************************************)
LatencyNonNegative ==
    \A k \in 1 .. Len(times) : times[k] >= 0

(***************************************************************************)
(* Spec 3 and 9: the statistics of a report are over this run's samples    *)
(* only, one latency per recorded code; the module-level times list of    *)
(* line 55 is what they are computed from.                                *)
(***************************************************************************)
SamplesOfThisRun ==
    pc = "exit" /\ outcome = "ok" => Len(times) = Len(ret_codes)
=============================================================================
