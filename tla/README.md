# TLA+ models of the Bagheera Python tools

This directory holds TLA+ models of the Python programs in this repository.
It also holds the TLC configurations that check them. The programs are small
HTTP clients that drive and watch a Bagheera server: a load generator, a
Ganglia stats emitter, and three multi-mechanize scripts. Each TLA+ definition
is translated from the Python source. `PROJECT.json` maps every definition to
the lines it models.

## 1. Inventory

| Component | Source | State it keeps | Operations |
|---|---|---|---|
| LoadRunner + TimedRequestExecutor | `src/src/main/python/http-test.py` (copy: `src/http/src/test/python/http_test.py`) | module-level `times`; in `main`: `post_file`, `num_requests`, `url`; in `post_requests`: `ret_codes`, loop index | option loop, `read_file`, one timed `post` per iteration, `print_time_stats`, exit |
| RequestIdGenerator | `uuid.uuid4()` at http-test.py:91 | none (library RNG) | one fresh id per iteration |
| StatsAggregator + ReportFormatter | `print_time_stats`, http-test.py:101-119 | none (pure) | itemfreq, min, mean, median, max, std, scoreatpercentile at 25/50/75/90/95/99 |
| Ganglia stats emitter | `src/src/main/python/bagheerastats.py` | in `emit_row`: `cur_name`, the server loop; on the Bagheera server: its counters | GET `/stats`, parse the lines, send each metric to Ganglia, GET `/reset`; `main` calls `emit_row` once per run of the script |
| multi-mechanize Transactions | `testpilot_mechanizer.py`, `metrics_ping_mechanizer.py`, `telemetry_mechanizer.py` | `custom_timers`, payload | `__init__` reads the payload; `run()` does one timed POST, stores the timer, asserts the code |

How the components interact:

- The load generator is single-threaded. Its other actors are the HTTP server,
  which answers, fails or never answers each POST, and the wall clock that
  `time.time()` reads.
- The `timeit` decorator appends a latency to the global `times` list as a
  side effect. `post_requests` appends the returned code to `ret_codes`.
- `print_time_stats` reads both lists.
- The stats emitter talks to Bagheera servers. Those servers count requests
  concurrently with it: the Java server is not in this repository and is
  modelled as an environment.
- The multi-mechanize framework, also outside this repository, constructs one
  Transaction per agent thread and calls `run()` on it repeatedly.

Hard behaviours:

- **Failures.** Every `urlopen` can raise `HTTPError` or `URLError`.
- **No timeout.** No call passes a timeout, so a server that never answers
  blocks the caller forever.
- **Non-monotonic clock.** `time.time()` is the wall clock and can be set back.
- **State across calls.** The `times` list outlives one call of `main()`, and
  `custom_timers` outlives one call of `run()`.
- **Read then reset.** The emitter reads a page and resets it in two separate
  requests while traffic keeps arriving.

Properties that make each component correct:

- **Load runner.**
  - One sample for each issued request.
  - A transport failure is recorded, not fatal.
  - The recorded status is the server's status.
  - Latency is never negative.
  - Statistics are over the run's own samples.
  - The run terminates (checked where it fails, `http_no_timeout`).
- **Stats aggregator.**
  - Percentiles are ordered and lie within `[min, max]`.
  - The median equals the 50% percentile.
  - The stddev is the population stddev.
- **Emitter.**
  - Every counted request reaches Ganglia exactly once: none is lost and none
    is sent twice.
- **Transactions.**
  - The timers it reports were measured in this call.

## 2. Plan

Modules in order of importance; all steps below are done.

1. `StatsAggregator` (pure operators) and `MCStatsAggregator`: the algorithmic
   contract.
2. `HttpTest`: the whole `main()` of the load generator. It EXTENDS
   `StatsAggregator` and stores the printed figures in `report`.
3. `BagheeraStats`: the emitter against servers that keep counting.
4. `Mechanizer`: the Transaction scripts, with the script differences as
   constants.
5. Refinements:
   - `LossyStatsPipe`, the abstract emitter: counts reach Ganglia at most
     once and may be dropped. `BagheeraStats` refines it (`LossyPipe`).
   - `LoadRun`, the abstract sequential load run of spec.md 4.3.
     `HttpTest` refines it (`SequentialRun`).
   - The emitter's `main()` option handling and the uncaught `int()`
     ValueError of a stats line (bagheerastats.py:54).
6. Server answers and bounds:
   - The emitter's urlopen calls as waits that the server ends (`Answer`),
     with no fairness: the missing timeout at bagheerastats.py:45 lets a run
     stay blocked and overlap the next one.
   - The option loop of http-test.py as a fold.
   - The stats bound raised to 5 samples.
7. Overlapping runs: the emitter's per-run state is a function over the
   processes `Procs` that run the script.
8. Not modelled, with the reason in section 5: Ganglia as a store keyed by
   metric name (bagheerastats.py:53).

## 3. Modules

### StatsAggregator.tla / MCStatsAggregator.tla

These model `print_time_stats`. Each library call is an operator computing
what that call computes. The arithmetic is exact integer arithmetic:

- `Score100` is 100 × `scoreatpercentile`, which uses linear interpolation
  at `idx = p/100·(N−1)`.
- `Median2` is 2 × `numpy.median`.
- `PopVariance` is the ddof=0 variance as a fraction. Properties compare
  variances because the square root is monotone.

The MC module grows a run result one sample at a time. `RecordSample` is one
completed request: `timed()` appends a latency and `post_requests` appends a
code. All results of up to 5 samples are enumerated, with latencies
{0, 1, 3, 7} and codes {200, 500}. Up to five samples give both odd and even
counts, every fractional rank of the six percentiles at four samples, and the
whole ranks of the 25% and 75% quantiles at five.

### HttpTest.tla / MCHttpTest.cfg

- `pc` follows `main()` through its states: start, read, loop, wait, exit.
- Actions:

  | Action | Code it models |
  |---|---|
  | `ParseArgs` | getopt, the option loop (`ProcessOpts`, a `FoldLeft` of `ProcessOpt` over the options in order; nothing runs after -h or a bad -n) and the URL/post file check |
  | `ReadFile` | `read_file` |
  | `PostRequest` | uuid, `ts`, urlopen |
  | `Respond` | the server |
  | `PostReturns` | `te`, `times.append`, `return code` (`PostCode`, always 200), `ret_codes.append` |
  | `PostRaises` | the NameError of `except URLError` |
  | `PrintStats` | `print_time_stats` |
  | `CallMain` | another call of `main()` by a program that imports the module (environment; no such caller is in the repository) |
  | `Tick`, `StepBack` | the wall clock |

- `SequentialRun` maps the call onto `LoadRun`:
  - `phase` is idle before the loop, running in it, done after a report,
    and failed after any other exit.
  - `issued` is `i`, plus one for a POST in flight or one whose NameError
    ended the call.
  - `samples` is `Len(ret_codes)`.
- Bounds:
  - Every argument vector of up to 3 options. -n takes a value in
    {-1, 0, 1, 2} or a non-integer.
  - Server answers: 200, 201, 500, or a URLError.
  - Clock values 0..2.
  - `main()` called twice.

  These bounds include the zero, negative and ordering cases, plus two
  requests in one call.
- Fairness:
  - The client is weakly fair. It is a running process that takes each step.
  - The server is weakly fair only in `Spec`. It is not fair in
    `FairClientSpec`, because the code sets no timeout, so nothing makes a
    hung server irrelevant.

### BagheeraStats.tla / MCBagheeraStats.cfg

- Variables:
  - `counters`: the server's counts, set back to zero by `/reset`.
  - `total`: the requests each server ever counted.
  - `sent`: the sum of the values sent to Ganglia.
  - `pc`, `srv`, `page` and `pending`: per process `p` in `Procs`, where that
    run of the script is, its server, and the page it is parsing.
  - `emits`: runs started, bounded by `Emits`, by whichever process is idle.
- Each `name=` line and `key=count` line pair becomes one metric in
  `Metrics`.
- Actions:

  | Action | Code it models |
  |---|---|
  | `EmitRow` | one run of the script: `main()` exits 2 on a getopt error and 0 on -h/--help (`MainExit`, over every argument vector of up to `MaxArgs` words), otherwise calls `emit_row` |
  | `FetchStats` | the answer to urlopen of `/stats`: the page, or a failure that returns from `emit_row` |
  | `SendMetric` | one line: `int()`, `send_meta` and `send`; with `PageMayBeMalformed`, `int()` raises ValueError and the script ends |
  | `EndOfPage` | the end of the page |
  | `ResetStats` | the answer to `/reset`; it may fail; then the next server or return. `ResetCounters` is what the server does on `/reset` (zero its counters); the server is not in this repository |
  | `Increment` | server traffic, at any time |

- `ParsedOpts` follows getopt: it stops at the first positional argument,
  so `bagheerastats.py table -h` polls and resets the server.
- `LossyPipe` maps the emitter onto `LossyStatsPipe`. A count is outstanding
  while it is on the server's counters. The part of the page already sent in
  this poll counts as delivered. A successful `/reset` is a `Drop` of whatever
  arrived since the page was read.
- The mapping is meant for one process: two overlapping runs send a count
  twice, which is what `emitter_overlap` shows.
- Bounds:
  - 2 servers, 2 metrics, 3 runs of the script, argument vectors of up to 2
    words, and 3 counted requests per server. That is enough for traffic
    before a read, between read and reset, and after a reset, over several
    runs.
  - One process (`OneProc`) in the passing run and in `emitter_lost_counts`
    and `emitter_reset_failure`. Two (`TwoProcs`, with symmetry) in
    `emitter_overlap`, a safety check.
  - Each fault is enabled in its own run: `ResetMayFail` only in
    `emitter_reset_failure`, two processes only in `emitter_overlap`.
    `PageMayBeMalformed` (the uncaught `int()` ValueError of line 54) is
    modelled but enabled by no run: the server that renders the page is not
    in this repository, and the failure ends `emit_row` in the state a failed
    `/reset` does.
  - `MainExits` collects how `main()` ends over all argument vectors once,
    as a constant.
- Fairness:
  - `Emitter(p)` (`EmitRow`, `SendMetric`, `EndOfPage`) is weakly fair for
    each process, because the script runs to its end. Traffic need not happen.
  - `pc` "fetch" and "reset" are the script blocked in urlopen, which is
    given no timeout. The server's answer or failure (`Answer`: `FetchStats`,
    `ResetStats`) gets no fairness. No liveness property is checked for the
    emitter: that `emit_row` returns holds only if the servers answer, an
    assumption the code does not justify, and the hang it would show is the
    one `http_no_timeout` shows for the load generator.

### Mechanizer.tla / MCMechanizer.cfg

The constants select the script:

- `InitFindsReadData` is FALSE for testpilot and metrics_ping, whose
  `__init__` calls `read_data` without `self.`.
- `AcceptedCodes` is {201} for telemetry and {200, 201, 204} for the others.

`Construct` models `__init__`. `Run` models one call of `run()` with every
urlopen outcome. The framework that constructs the Transaction and calls
`run()` is not in this repository; `Next` is its behaviour, weakly fair
because it keeps calling `run()` for its run time. The checked property is a
safety property.

## 4. Runs

| Run | Expect | What it shows |
|---|---|---|
| stats | pass | Percentiles are ordered and within `[min, max]`; median = 50% quantile; stddev ≤ half the range (fails for ddof=1) |
| http | pass | A report counts exactly `len(range(n))` requests and server answers; `main()` refines the sequential `LoadRun` |
| http_transport_failure | violation | One failed POST crashes the run with NameError (http-test.py:83) |
| http_status | violation | A 201 answer is recorded as 200 (http-test.py:80) |
| http_no_timeout | violation | A silent server hangs the run forever (http-test.py:82) |
| http_clock | violation | A clock set back mid-request gives a negative latency (http-test.py:64) |
| http_times_global | violation | A second `main()` reports over both calls' latencies (http-test.py:55) |
| emitter | pass | With reliable resets, integer pages and one process, the emitter refines `LossyStatsPipe` (nothing is sent twice) |
| emitter_lost_counts | violation | Requests counted between `/stats` and `/reset` are lost (bagheerastats.py:58) |
| emitter_reset_failure | violation | One process: a `/reset` that fails after the page was sent leaves the counts on the server; the next run sends them again (bagheerastats.py:59) |
| emitter_overlap | violation | Two processes, resets that succeed: two overlapping runs both read the counters before either resets them and both send them (bagheerastats.py:106) |
| mechanizer_stale_timers | violation | `custom_timers` keeps earlier calls' timers |

Every property of a passing run has a mutant in `PROJECT.json`: a plausible
bug in the modelled code that TLC catches with that property.

Not run, but visible in the model and in a single run of the script:
testpilot and metrics_ping can never construct their Transaction.
`Construct` with `InitFindsReadData = FALSE` goes straight to NameError.

## 5. Not modelled

- Text layout of the report and help message.
- The URL strings and payload bytes. The uuid4 path segment is taken as
  unique, as the library guarantees.
- The gmetric packet format and Ganglia's storage. Metric names carry no
  server (bagheerastats.py:53), so several servers given to `emit_row` would
  overwrite each other in Ganglia. `main()`, the only caller, passes one URL.
- How the emitter script is scheduled (cron, a loop). The model lets up to
  `Procs` runs overlap, which covers any schedule.
- The Ganglia host, port and group that `main()` sets. Two observations need
  no model checker:
  - `--group` assigns `ganglia_metric_group_name`, but line 105 reads
    `ganglia_metic_group_name`, so the option is ignored.
  - The port of `--gmetric host:port` stays a string.
- The Bagheera Java server, beyond its counters.
- How the multi-mechanize framework schedules threads. Each agent has its
  own Transaction, so no state is shared between threads.
