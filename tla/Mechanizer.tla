----------------------------- MODULE Mechanizer -----------------------------
(***************************************************************************)
(* The multi-mechanize scripts testpilot_mechanizer.py,                    *)
(* metrics_ping_mechanizer.py and telemetry_mechanizer.py.  Each defines a *)
(* class Transaction: __init__ reads the POST payload from a file, run()   *)
(* POSTs it once, stores the latency in custom_timers under the key        *)
(* 'response time <code>' and asserts the code is an accepted one.  The   *)
(* load-test framework constructs one Transaction per agent thread and     *)
(* calls run() on it over and over, catching what run() raises and        *)
(* recording custom_timers after each call.  The scripts differ in the     *)
(* constants: whether __init__ reaches read_data (testpilot and            *)
(* metrics_ping call it unqualified, line 32 / line 50) and the accepted   *)
(* codes.                                                                  *)
(***************************************************************************)
EXTENDS Integers, Sequences

CONSTANTS InitFindsReadData, \* __init__ calls self.read_data (not a bare name)
          AcceptedCodes,     \* the codes the assert of run() accepts
          OkStatuses,        \* statuses urlopen returns normally
          ErrorStatuses,     \* statuses urlopen raises HTTPError for
          NoStatus,          \* status of a URLError
          Latencies,         \* measured latencies, abstracted
          MaxRuns,           \* bound on the calls of run()
          NoTimer            \* a key of custom_timers that is not set

ASSUME InitFindsReadData \in BOOLEAN /\ MaxRuns \in Nat

Replies == [kind : {"response"}, status : OkStatuses]
             \cup [kind : {"http_error"}, status : ErrorStatuses]
             \cup [kind : {"url_error"}, status : {NoStatus}]

Errors == {"none", "NameError", "IOError", "AssertionError", "HTTPError", "URLError"}

VARIABLES trans,          \* the agent's Transaction: absent, ok, or the error of __init__
          custom_timers,  \* custom_timers[code]: latency under 'response time <code>'
          runs,           \* calls of run() so far
          error,          \* what the last call of run() raised
          measured        \* codes whose timer the last call of run() set

vars == <<trans, custom_timers, runs, error, measured>>

Init ==
    /\ trans = "absent"
    /\ custom_timers = [c \in OkStatuses |-> NoTimer]
    /\ runs = 0 /\ error = "none" /\ measured = {}

-----------------------------------------------------------------------------
(***************************************************************************)
(* The framework constructs the Transaction, __init__ (testpilot lines    *)
(* 26-38): custom_timers = {}; then the payload file is read.  A bare     *)
(* read_data(...) is not a name in scope and raises NameError; open() of  *)
(* a missing file raises IOError.                                          *)
(***************************************************************************)
Construct ==
    /\ trans = "absent"
    /\ \/ ~InitFindsReadData /\ trans' = "NameError"
       \/ InitFindsReadData /\ trans' \in {"ok", "IOError"}
    /\ custom_timers' = [c \in OkStatuses |-> NoTimer]
    /\ UNCHANGED <<runs, error, measured>>

(***************************************************************************)
(* One call of run() (telemetry lines 38-47): POST, time it, store the    *)
(* latency under the response code, then assert the code.  urlopen raises *)
(* HTTPError for 4xx/5xx and URLError when no response comes, before any  *)
(* timer is set.  custom_timers is never cleared by run().                *)
(***************************************************************************)
Run ==
    /\ trans = "ok" /\ runs < MaxRuns
    /\ runs' = runs + 1
    /\ \E r \in Replies, l \in Latencies :
         IF r.kind = "response"
           THEN /\ custom_timers' = [custom_timers EXCEPT ![r.status] = l]
                /\ measured' = {r.status}
                /\ error' = IF r.status \in AcceptedCodes THEN "none"
                                                          ELSE "AssertionError"
           ELSE /\ UNCHANGED custom_timers /\ measured' = {}
                /\ error' = IF r.kind = "http_error" THEN "HTTPError" ELSE "URLError"
    /\ UNCHANGED trans

Next == Construct \/ Run

\* The framework keeps calling run() for its run time.
Spec == Init /\ [][Next]_vars /\ WF_vars(Next)

-----------------------------------------------------------------------------
(***************************************************************************)
(* The timers the framework records after a call of run() were measured in *)
(* that call: no 'response time <code>' key is left over from an earlier *)
(* call, in particular none after a call whose POST failed.  run() and    *)
(* custom_timers of __init__ are about it.                                 *)
(***************************************************************************)
TimersOfThisRun ==
    runs > 0 => \A c \in OkStatuses : custom_timers[c] # NoTimer => c \in measured
=============================================================================
