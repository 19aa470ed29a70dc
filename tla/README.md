# A verification project for the VAYUNX profiler

VAYUNX profiles programs (with an emphasis on cryptographic operations), sends
what it measures to a profiler service, and compares runs. This directory holds
TLA+ models of the parts of it whose correctness depends on the order in which
things happen or on arithmetic at its edges, the TLC configurations that check
them on small instances, and TLAPS proofs for every instance. `PROJECT.json`
maps each definition to the lines it models.

    tlc -workers 2 -config MCBackgroundSender.cfg MCBackgroundSender.tla
    tlc -workers 2 -config Agents.cfg MCAgents.tla
    tlc -workers 2 -config Service.cfg MCService.tla
    tlapm ClientProofs.tla      (one `...Proofs` module for each component proved about)

## 1. Inventory

| part | state it keeps | operations | interacts with |
|---|---|---|---|
| **SDK sender** `vayunx_profiler_sdk/sender.py` | bounded FIFO, shadow count of data items, flags (`_in_flight`, `_flush_now`, `_stopped`), counters, per-run delivery counts | `enqueue`, `flush`, `shutdown`, the daemon thread's `_loop`, `_send` | host threads, `on_tick` of the client, HTTP transport |
| **SDK client** `client.py`, `ops.py`, `context.py` | the active run, its open spans, its operation timers (one histogram each), the sampler | `run` enter/exit, `span`, `op`, `start_sampling`, `stop_sampling`, `flush`, `shutdown`, `_drain_ops` | host threads, sender thread (drains the histograms), sampler thread |
| **SDK sampler** `sampling.py`, `metrics.py` | activity signal, stop flag, last readings | `start`, `stop`, `_loop`, `_take` | enqueues samples; woken by spans and operations |
| **Histogram** `histogram.py` (and `sdk-node/src/histogram.ts`) | buckets, count, sum, min, max | `record`, `merge`, `percentile`, to and from JSON and OTLP | operations, agents, OTLP receiver, Lab workers, gate |
| **Python agent** `vayunx/_core.py`, `_hooks.py`, `_ship.py` | the active state in a cell, patched functions, post-import finder, queue of timings, histograms, pending exports | `init`, `shutdown`, install, import, wrapped calls, aggregate, drain, tick | the program's crypto libraries, OTLP endpoint of the service |
| **Node agent** `sdk-node/src/` | the current state, nesting depth, calls in flight, series, chained ticks, pending exports | `init`, wrapped calls (synchronous, pooled, incremental), tick, `shutdown` | the event loop, OTLP endpoint |
| **Service, ingestion** `api.py`, `otlp.py` | rows: Run, Span, Sample, OpStat | create run, ingest (three kinds), complete, OTLP traces and metrics | several request threads over one database |
| **Service, Lab** `lab_jobs.py`, `lab_store.py`, `api_v2.py`, and `vayunx_lab/runner.py` | Experiment row (status, progress), trials, the current runner thread and its cancel event | start, run, cancel, recover, shut down | worker subprocesses, command-line runners on the same database |
| **Lab workers** `vayunx_lab/worker.py`, `node/worker.mjs` | shared claim counter, per-thread histograms | warm-up, measure | the runner, through standard output |
| **Retention** `retention.py` | last purge per project | purge, due purges every hour | ingestion, experiments, share links |
| **Share links** `shares.py` | link: hash, target, expiry, revocation, views | create, open, revoke | comparison; retention removes the data behind a link |
| **Projects and roles** `access.py` | projects, teams, memberships, grants | create, grant, revoke, effective role | every handler |
| **Sign-in** `auth.py` | sessions, login states, API tokens | login, callback, logout, token create and revoke | every handler |
| **Comparison and gate** `comparison.py`, `compare_v2.py`, `gate.py` | none | compare, verdict | reads the database |
| **Database** `db.py`, `migrations/`, `copy_db.py` | the schema and the revision on record | migrate at start, copy into another database | the service, at its start |
| **Reports, exports, UI, scripts** | none of their own | rendering | reads the API |

### What is hard here, and what would be correct

* **Sender.** The POST runs without the lock, so producers, overflow,
  `flush` and `shutdown` all happen while a batch is out. Correct: every
  accepted item gets exactly one fate, in order; the counters add up at every
  moment; the shadow counter that decides on overflow is exact; no wake-up is
  lost; `flush` and `shutdown` return.
* **Client.** Two threads drain the same histograms; spans and timers outlive
  the run; another thread may stop the sampler or shut the client down in the
  middle of `__exit__`, from the moment `client.active_run` shows the run.
  Correct: no timed call is lost or counted twice, everything timed before the
  exit is handed over before the completion or is in the sender thread's hands,
  two runs are never active at once, a completion follows the creation, leaving
  a run always ends. That the creation comes before all data and the completion
  after it, which the docs promise, does not hold (section 5).
* **Sampler.** The idle flag is read and written without the lock. Correct: it
  never sits out a slow interval while a cryptographic span is open.
* **Agents.** Hooks are installed while the program imports and calls, and an
  uninstall overlaps the next `init`; two ticks overlap at shutdown, and
  drained histograms are in nobody's hands in between; asynchronous Node calls
  end in another state than they began. Correct: each function is wrapped once
  and restored, nested calls are recorded once, every recorded call is in one
  place and leaves the process once.
* **Lab.** The row of an experiment is written by a runner thread, request
  handlers, `recover` and command-line processes; any of them can crash.
  Correct: one runner at a time, "complete" means that every trial is stored, a
  cancel takes effect, nothing stays "running" for ever. A trial's worker
  claims operations from several threads up to a count and a deadline.
* **Ingestion.** Checks and inserts are separate steps of concurrent requests;
  the SDK retries requests that may have been accepted.
* **Retention and shares.** Selection and deletion are separate; a link's
  target may vanish, and an id may come back in another project.
* **Access.** Who the caller is, what the caller may do, and the write are
  three reads of a database that other requests change. Correct: nothing is
  written without a right that held at one of these moments, and no role on a
  project is obtained except from somebody who administers it.
* **Comparison, histogram, gate.** Spans come in any order and incompletely;
  bucket bounds, ranks and limits meet at edges. Correct: every span on the row
  of its own path, verdicts consistent, figures within the documented precision.
* **Database.** A start may be killed between two statements, on SQLite also
  inside what looks like a transaction. Correct: the service never serves with
  an incomplete schema, a copy is whole or not there.

`PROJECT.json` lists these hazards one by one with the line at which each bites
and the properties that cover it.

## 2. Plan

Modules in the order of writing; all of these exist.

1. `Telemetry`, `DeliveryLog`, `BackgroundSender` and its proofs.
2. `ProfilerClient` over the delivery order of the sender, run by `MCClient`,
   and its proofs; `Summaries`, the sender's way back to `on_tick`.
3. `LabExperiments` and its proofs.
4. `IngestService`: the ingestion handlers as look and commit steps of
   concurrent requests; `Delivery`: its composition with the sender's retries
   (what the service stores against what the SDK counts as sent), and its
   proofs.
5. The program's side beside the SDK client: `Shipper`, `Hooks`, `NodeAgent`,
   `Latency`, `Activity`, `TrialWorker`, run by `MCAgents`; proofs about each.
6. The service beside ingestion: `Access` and its proofs, `ServiceData` (OTLP
   receiver, trial store and retention over the same rows) and `Shares` and
   their proofs,
   `SpanComparison`, `VariantComparison`, `Migration`, `CopyDatabase`, run by
   `MCService`.

What would come next: the bootstrap interval of `compare_v2.py` (needs
arithmetic on fractions beyond what TLC does well), the aggregation of resource
samples, and the rule syntax of the gate.

## 3. The modules

### Telemetry
The vocabulary of the modules about delivery: kinds of entries, queue entries
(`id` stands for the payload), `OneRequest` and `IsGroup` (what one POST may
carry and does carry), the answers of the service and the verdict of `_send`.

### DeliveryLog (abstract)
What the sender promises, without threads: items are accepted into a log, each
gets one fate (`sent`, `rejected`, `abandoned`), fates are handed out in order
and a request at a time, closing abandons the rest.

### BackgroundSender
`sender.py`. One action is one critical section of `_cond`, or the POST, which
is made without it.

| code | actions |
|---|---|
| `enqueue` | `Enqueue` = `RefuseStopped`, `RefuseFull`, `Accept` |
| `flush` | `StartFlush`, `Recheck` (woken), `Deadline` (the wait timed out) |
| `shutdown` | `LookStopped` (without the lock), `StartFlush` unless it was stopped, `Stop` |
| `_loop`, top | `Sleep`, `Interval`, `Start`, `Exit`, `Tick` |
| `_loop`, inner | `TakeGroup`, `NothingToTake`, `Settle...`, `BackOff`, `BackOffOver` |
| `_send` | `Post(answer)`; `Verdict` classifies the answer |

`notify_all` is `WokenSender` and `WokenCallers`: every waiter moves to "woken"
and needs the lock again. `log` and `fate` are history variables. `Tick` only
marks the place of `on_tick`; what it enqueues is part of the offered load and
its content is `ProfilerClient`'s subject; how often it comes is that of
`Summaries`.

### ProfilerClient
`client.py`, `ops.py` and the lifecycle in `sampling.py`. A run stands for its
owner thread too; `Workers` are other threads of the program. `stage` follows
the owner through `__enter__` and `__exit__` step by step, `doing` and `target`
say what any thread is in the middle of, `todo` and `held` are the local
variables of the two drainers (the owner on exit, the sender thread on a tick).
`log` is what `enqueue` accepted: by the theorem `SenderImplementsLog` the order
of that log is the order of delivery, so order properties are stated on it. A
data item may be refused at any time, which includes every moment at which the
real queue is full.

A run is in other threads' reach as soon as `__enter__` has set
`client._active_run` and the run's id, which is before its creation is enqueued
(`Claim`, then `Enter`). `span()` and `op()` look at the id and at `_closed`
(`Use`); the span is entered, or the timer added, in a later step, after which
the run may have been closed.

Simplifications. Setting `_active_run` and setting the id are one step: in
between, `span()` and `op()` still raise; that a sampler started just then tags
its samples with no run at all is not covered. All metrics of one sample are one
entry. Looking at the sampler and taking it inside one `stop_sampling()` is one
step: two callers in between join the same thread twice, or both end in an
exception. Looking at `_sampler` and setting it in `start_sampling()` is one
step too, so two threads that start a sampler in the same moment are not covered
(section 7); setting it and starting its thread are two.

### Summaries
The loop of `sender.py` once more, around the length of the queue alone:
`BackgroundSender` remembers every item and so bounds their number, whereas here
the program may record for ever. `CallsLeave` says that timed calls leave their
histogram, also while the service is down, provided that the queue is given the
chance to run empty (`Slack`: the program pauses for good, or posts are backed
off from again and again). Without that condition it does not hold (section 5).

### IngestService and Delivery
`IngestService` is the service's side: `api.py`'s create, complete and the three
data endpoints. Every request has a thread and a database session of its own, so
a handler is two steps with anything in between: `Look` (what `check_batch`,
`create_run` and `complete_run` read of the run's row) and a commit (`WriteRun`,
`WriteComplete`, `WriteData`), which is atomic and where the primary key of runs
and `uq_span_per_run` decide. `Fail` is a 5xx before or after the commit.

`Delivery` puts the sender in front of it. The sender is `DeliveryLog`, which
`BackgroundSender` is proved to implement, with the POST made explicit: `Post`
hands a group to a free handler, `Settle` turns its answer into a fate, `GiveUp`
is a timeout or a lost connection, after which the handler goes on next to the
handler of the retry, whose group may have grown. The host may enqueue data of a
run before its creation, as `ProfilerClient` shows it can; the service answers
such data 404, and `KnownRun` says that it answers 404 to nothing else unless the
creation was rejected. Authentication, roles and the
validation of bodies are left out: the SDK is an authorised client and sends
well-formed items.

### LabExperiments
The row of each experiment (`status`, `done`, `saved`) and its writers: the
runner (`pc`, a thread of the service or a command-line process, `home`), the
handlers of cancel requests (`phase`, `request`), and `recover` of a starting
service (`stale`). One action is one database transaction, one critical section
of `LabJobs._lock`, or one trial. `atCancel` is a history variable. `start`
holds the lock over two steps (`starting`), so nothing else that takes it can
come in between, while the row is already visible. `Raise` is an exception at
any point inside the runner's try block, the write of "complete" included, which
then becomes "failed".

### Shipper
`vayunx/_ship.py` with the recording end of the wrappers and `shutdown` of
`_core.py`. A histogram is the set of the calls folded into it, so "counted
once" is disjointness of sets. The two threads that run `_tick` (`pc`) are the
shipper thread and the caller of `shutdown`; draining (`Drain`, `Swap`) happens
before `_lock` is taken, `Build` under it, the POST while it is held. The
wrapper's length check and its append are two steps (`LeaveCall`,
`AppendCall`), since nothing holds the queue in between.

### Hooks
`HookManager`, the post-import finder and the wrappers of `_hooks.py` under
`init` and `shutdown`. Managers are numbered by the `init` that made them;
`cell` holds the active one. An import is four steps (`StartImport`, `Define`,
`Notify` of each manager that listened, `FinishImport`), an installation one
step per hook (`Scan`), an uninstallation `RemoveFinder`, `Restore` per hook,
`Uninstalled`, without the lock of `init`. `stack` holds the hooked calls of
each thread, `inside` the nesting guard.

### NodeAgent
`core.ts`, `hooks.ts`, `ship.ts` of the Node SDK. One event loop, so an action
is what runs between two points at which the loop may turn to something else,
or at which a synchronous hooked call runs the program's code. `frames` is the
stack of synchronous calls, `flying` the asynchronous ones, `chained` the ticks
that wait for the one under way to end. The original of an asynchronous call may
call back before it returns (`CalledBack`); an export that cannot be built is lost
with its interval (`BuildThrows`); a `shutdown()` that finds no state resolves to
true at once (`ShutdownAgain`), whatever the one before it still waits for. What
`TrueMeansAnswered` says of the `shutdown()` that stopped a state is therefore
less than the comment in `core.ts` does: nothing waits any more, be it accepted,
refused, dropped or lost.

### Latency
The `log2x8` histogram as a record of its exact figures and a bag of buckets;
`RecordCall`, shipping as JSON or as an OTLP histogram, merging of the stored
rows, and one rule of `gate.py`. `held` and `stored` are the durations
themselves, the reference everything is compared with. `LatencyExact` says that
count, sum, minimum and maximum stay exact, that percentiles stay within the
documented 6.25% (after OTLP, within a nanosecond if that is more), and that a
verdict is what the durations themselves would give, or is `no_data`, or is marked
`near_limit`, or, if rows came as OTLP, has its limit within a nanosecond of the
figure. The last case is a flaw, and both agents deliver by OTLP: below 16 ns a
verdict can be turned unmarked (`EveryHairMarked`, section 5). Durations are
whole nanoseconds; that floats carry bounds and sums exactly only up to 2^53 is
not modelled.

### Activity
`Activity` and `Sampler._loop` of `sampling.py` for an adaptive sampler, one
action per access to a flag that is not under a lock.

### TrialWorker
The measuring loop of `vayunx_lab/worker.py`: a claim under the lock, the timed
operation without it, and what the trial reports when all threads have ended. An
operation goes by the number of its claim, so that `TrialHonest` can say which
thread timed it, holds it or was ended by it.

### Access
`auth.py` and `access.py` with sign-in on. A request is three steps:
`BySession` or `ByToken` (middleware: the caller), one action per operation (the
handler derives the rights and decides), and a `Commit...`, during all of which
other requests commit. Rights are sets of pairs of a project and a rank;
`could` is a history variable, what the caller was permitted at the two moments
the request read it.

### ServiceData
The rows of runs, spans and points under three writers: an OTLP export
(`Resolve` looks for its run or makes one, `CommitExport` writes), the Lab
(`SaveTrial` and the row of its experiment), and a purge (`ChooseRuns`,
`ChooseExps`, `CommitPurge`). A foreign key that does not hold makes the whole
commit fail.

### Shares
Links and the ids they name. Ids come and go (`Arrives`, `Purged`), also into
another project; opening a link is a look, a commit of the view and a second
load of the data.

### SpanComparison, VariantComparison
`build_tree` and `_walk_pair` of `comparison.py`, recomputed in every state of
a growing set of spans and compared with a definition of paths by chains of
parents; the medians, ranges and verdicts of `compare_v2.py` while trials
arrive.

### Migration, CopyDatabase
`make_engine` and the Alembic revisions statement by statement, with
`ProcessEnds` anywhere, from every schema a release has left; `copy_database`
table by table, with its checks, while the source is written. The objects of a
schema are tables, columns, indexes and the row of the Default project; types
and constraints of columns are not told apart (`add_missing_columns` leaves `NOT
NULL` out). `create_all` makes the indexes of a table only along with the table,
so a file of before Alembic (`legacy`) is served without those of the tables it
had; `Owed` takes them out of what `ServedComplete` and `RevisionTruthful` ask
of such a file, and of no other database. How SQLite and PostgreSQL treat DDL
inside a transaction is external knowledge and marked so.

### MCAgents, MCService
The parts of each share no state in the code (those of the service meet only in
tables of their own), so a behaviour explores one part, chosen by the initial
state, and the others stand still: the state space is the sum of the parts, not
their product.

### Definitions named `Wrong...`, `LateLast` and `LaxVerdict`
Each is a plausible mistake in the definition that follows it: a missing
guard, a forgotten reset, a lock-free shortcut. They are not part of any
specification. Replacing the definition by the mistake makes TLC find a
violation of the property that `PROJECT.json` pairs it with, which shows that
the property depends on that piece of code.

## 4. The runs

| run | instance | checks |
|---|---|---|
| `sender_safety` | 2 runs, 4 kinds of offers, queue 2, batch 2, 3 items, 1 caller | type, accounting and shadow counter, posted head, queue = undecided items, per-run counters, refinement of `DeliveryLog` |
| `sender_liveness` | 2 callers, data and control, 2 items | no lost wake-up; everything decided once the service answers; calls return; thread ends |
| `client` | three scenes (`MCClient`), below | type, one active run, calls conserved, final drain complete, exit returns |
| `completion_last` | 1 run, 1 timer, no second host thread | refutes "its completion after them" (`sender.py:3-4`) |
| `exit_race` | 1 run, 1 second thread | refutes "queues `/complete`, even if the block raised" (`README.md:715`) |
| `creation_first` | 1 run, 1 second thread | refutes "a run's creation is always sent before its spans/samples/op-stats" (`sender.py:3-4`) |
| `tick_starved` | queue 3, batch 2 | refutes "sends one summary per second" (`README.md:719`) |
| `delivery` | 1 run, 2 request threads, batch 2, 4 items, 5 rows | sent is stored, spans once, 404 only ahead of the creation or after a rejected one, late rows are leftovers |
| `lab` | 2 experiments of 2 trials, 1 handler, 2 service stops | type, one at a time, complete = all trials, cancel stops, active is run, eventually settled |
| `lab_cancelled_after_end` | 1 experiment of 1 trial, 1 handler | refutes "Only queued or running experiments can be cancelled" (`api_v2.py:168`) |
| `agents` | see `Agents.cfg` and below | `CallsShippedOnce`, `ShippingEnds` (`Shipper`); `HooksExact`; `NodeExact`; `LatencyExact` (`Latency`); `SamplerAwake` (`Activity`); `TrialHonest` (`TrialWorker`); `CallsLeave` (`Summaries`) |
| `service` | see `Service.cfg` and below | `WriteWasAllowed`, `RolesAreEarned` (`Access`); `RowsAreKept` (`ServiceData`, `Migration`, `CopyDatabase`); `LinksAreSafe` (`Shares`); `ComparisonsExact` (`SpanComparison`, `VariantComparison`) |

Each invariant of `agents` and each property of `service` is the conjunction of
the type invariant of its part and of properties that are defined, with their
reasons, in that part's module.

**Why the bounds suffice.** The sender's interesting cases need a full batch, a
batch cut short by another kind and by another run, a full queue with one item
refused, and an item accepted while a batch is out: three items over a queue of
two and a batch of two give all of them. The counters are bounded by
`MaxRefused`; the proofs need none of these bounds. The client's state space
is explored in three scenes, chosen by the initial state, each a restriction of
what its threads do: one run with its calls, spans and timers and no sampler
(one call swapped out while another is timed needs `MaxCalls = 2`); one run with
its sampler, no span and one call; two runs entered and left by their owners while
no other thread acts. The restrictions never stop an owner on its way out, so they
take nothing from `ExitReturns`. In
`delivery`, two request threads are an abandoned attempt next to its retry; four
items are a creation, two data items that may be posted apart or together, and a
completion; five rows let samples be stored twice. In the Lab,
two trials are the first number with a trial that is neither first nor
last; two stops allow a crash after a recovery.

In `agents`, a queue and a pending list of one entry run full at once, and three
calls are one that waits to be appended, one in the queue and one in an export;
two program threads and the two tickers are all the actors there are. Two
generations of hooks are an uninstall next to an `init`; `outer` and `inner` are
a hook that guards against nesting and one that does not, one of a module that
was imported early and one that comes later. Two Node states let a call end in
another state than it began, three Node calls nest, overlap and overflow. The
durations lie in the exact buckets, at bucket edges and in a bucket wider than
one; two rows are merged. A trial has one thread or three, for a count of three.

In `service`, two users, two projects, one team and one token are a right lost,
gained and shared while two requests overlap; every request may follow any
prefix of changes, of which `MaxChanges` bounds the number, and after
`MaxDecided` a request no longer starts anew (the proofs of `AccessProofs` have
neither bound). One run of an application and one of the Lab under two exports
and a purge give each pair of writers; two ids in two projects behind a link let
one return elsewhere. Four spans with three ids give missing parents, late
parents and cycles. Three trials of two variants are the first number with a
median between two others. The migration starts from every revision, and from
databases older than revisions.

Deadlock is not checked where the system really stops: after `shutdown` the
sender thread ends, after its runs the client is idle, experiments, calls and
requests are finite in number.

### Fairness
* Sender: the thread, its timed waits, the POST (the transport has a timeout)
  and a caller inside `flush`, or inside `shutdown` from its look at `_stopped`
  on, make progress (weak fairness). No producer is fair. `EventuallyDecided`
  adds, inside the property, that a POST that could keep being attempted is
  sometimes answered otherwise than "unavailable".
* Client: an owner inside `__exit__` keeps running; each wait there has a timeout
  in the code (the join of the sampler, `flush`). Owners need not enter or leave;
  workers, samplers and the sender thread's ticks are not fair at all.
* Lab: runners and `recover` make progress (trials are bounded by their
  duration, the resource sampler's join has a timeout), and a service that went
  down is started again. Cancel requests, crashes and the command line are not
  fair.
* Shipper (`ShipFairness`): the interval of the shipper thread passes, both
  threads go on inside `_tick` (every POST has a timeout), and a `shutdown`
  that has begun reaches `stop()`. Calls of the program are not fair.
* Summaries (`SummariesFairness`): the sender thread goes on (every wait in its
  loop has a timeout) and the interval passes. Nothing makes the program record,
  and nothing makes it stop. That on_tick comes again is not assumed: it is what
  `CallsLeave` shows under its condition and `tick_starved` refutes without it.

The other parts of `agents` and all of `service` are checked for safety only.
`AgentsFairness` says of each fair part what its own module does.

## 5. What the runs found

1. **Completion is not always last.** `on_tick` swaps a histogram out under
   the operation's lock and enqueues the summary afterwards. If `__exit__`
   runs in between, its own drain finds nothing and `complete` goes first; the
   service refuses the summary. Spans and timers that end after the exit, and a
   sampler that outlives its join, do the same.
2. **`__exit__` against `stop_sampling` and `start_sampling`.** Between the look
   at the sampler and the stop, another thread's stop makes the second one raise;
   and a sampler that another thread has set and not started yet cannot be
   joined, which raises as well. The exit then skips the last drain, `complete`
   and the flush.
3. **A cancel request that arrives as an experiment ends** turns a final
   status into "cancelling", and the next restart turns that into "failed".
4. **Creation is not always first.** `__enter__` sets `client._active_run` and
   the id (`client.py:217-218`) before it enqueues the creation (`:220`). A thread
   that uses `client.active_run`, or `start_sampling()`, in between enqueues data
   of the run first; the service answers it 404 (`sender.py:3-4` promises that the
   creation is always sent first).
5. **A busy program is not summarised.** The inner loop of `sender.py` goes back
   to `on_tick` only when the queue is empty or a post is retried (`:174-210`).
   Producers that refill the queue during each post keep it away, and an operation
   sends no summary at all, where `README.md:719` promises one per second.

### Also seen
The modules keep these statements of the repository as definitions. The model
has a behaviour that violates each; no run repeats them.

| definition | statement | what happens |
|---|---|---|
| `BackgroundSender!ControlNeverDropped` | control items are never dropped (`sender.py:5-6`) | a permanent refusal, an unexpected exception or a shutdown drops them (`:236`) |
| `Delivery!DroppedIsNotStored` | `run.spans_sent` ... "are the counts the Service accepted" (`README.md:717`) | the answer to a batch of spans is lost after the commit; the retry meets `uq_span_per_run`, is answered 409 and counted as dropped |
| `Latency!ReceivedWithoutLoss` | the receiver reconstructs the buckets without loss (`_ship.py:6-7`, `README.md:418`) | below 16 ns the midpoint of a bucket is rounded half to even and lands in a neighbour |
| `ServiceData!RunningNotTouched` | "Experiments still running are never touched" (`README.md:124`) | the runs of an experiment that is still running are chosen by their age alone (`retention.py:50`) |
| `Activity!OpWakesSampler` | crypto activity wakes the sampler immediately (`sampling.py:12`, `README.md:261`) | an operation that ends between the look and the setting of idle (`:151`) wakes nobody |
| `Shipper!TrueMeansSent` | "True = everything sent" (`_core.py:143`) | `shutdown` finds nothing to drain and nothing pending while the shipper thread holds drained histograms and has not taken the lock |
| `NodeAgent!NodeTrueMeansSent` | `shutdown()` "Resolves true when everything was sent" (`core.ts:168`) | exports refused with a 4xx (`ship.ts:72,120`) or dropped by overflow (`:109-111`) count as done; and a second `shutdown()` resolves to true at once (`core.ts:171`) while the first is still posting |
| `Latency!EveryHairMarked` | "a measurement within that precision of the limit is marked `near_limit`, so a pass by a hair is visible" (`gate.py:10-12`) | rows that came as OTLP are shifted by a bucket below 16 ns: a call of 9 ns lands in bucket 8, and `p95 < 9ns` passes unmarked |
| `Migration!FullSchema` | "the full current schema" (`db.py:42`) | a file of before Alembic is served and stamped with the newest revision without the indexes of the tables it had; so is a table whose creation was cut short before its indexes |
| `Hooks!InstalledIsHooked` | `status()` reports what is installed (`_core.py:173`) | the new manager, while it looks, finds a function still wrapped by the previous one and notes it as installed; then the previous manager's uninstall restores the original |
| `Migration!EveryStartSucceeds` | the service upgrades the database when it starts (`README.md:61`) | on SQLite, a kill inside the first pending revision leaves a table behind; each later start fails with "table already exists" |
| `CopyDatabase!DoneMeansEqual` | "row counts are checked" (`README.md:63`) | rows that come and go in equal numbers pass the check; and a mismatch is reported after the commit, so that the repetition is refused |
| `TrialWorker!MinOpsDone` | "at least `min_ops` operations are done" (`worker.py:4`) | an operation that raises has been claimed and counts |

Without a statement that it contradicts: samples and op-stats have no unique
key, so their retries are stored twice. `LateRowsAreSettled` says precisely what
else a completed run may still receive: rows of an attempt that was given up, or
rows that overtake a completion whose own attempt was given up (`README.md:597`
promises a 409 for everything). A cancel of a queued command-line experiment is
overwritten by `set_status("running")`; one that is written during the last
trial is never read; `recover` marks a live command-line experiment failed until
its runner writes the end. A run that is purged and received again between the
two steps of an export gets the rows of the first look. The id the receiver
derives, a hash of service, variant and instance, is the same in two projects.
Delta points are added twice when an export is retried, and a late cumulative
point replaces a newer one. The counter of a link's views loses one of two
concurrent views (`shares.py:133`).

## 6. What is proved

`BackgroundSenderProofs` proves, for every set of runs and callers, every batch
size, queue bound and offered load (assumptions `BatchAssumption` and
`SenderAssumption`: the numbers are naturals, the batch size is positive, which
`max(1, batch_size)` ensures):

* `Invariance`: `IInv` is inductive. `Accounting` and `DataCountExact` are not
  inductive alone: when a batch is settled, the counters move by the length of
  the batch while the queue loses its first entries, and only `PostedIsHead`
  says that these are the same items, all of one kind. `PostedIsHead` in turn
  needs `stopped` to explain the one case in which the queue is not there any
  more. `TypeCorrect`, `CountsHold` (both counts, `CountsAreExact`) and
  `PostedStaysHead` follow.
* `NothingLostOrOvertaken`: `HInv`, which adds that the queue is the undecided
  suffix of the history.
* `DeliveredIsWhatWasSent`: `DInv`, `HInv` with the property itself. The step
  that settles a batch moves one per-run counter by the length of the batch, and
  `HInv` says that these are the next items of the history, all of that run.
* `SenderImplementsLog`: under `HInv` every step is a step of `DeliveryLog` or
  leaves its variables unchanged: `Accept` is an `AcceptItem`, `SettleDecided` a
  `Decide` of the whole batch, `Stop` a `Close`.
* `NoWakeupIsLost`: `WInv`, by the observation that every action that makes a
  sleeping condition false also wakes all waiters.

`DeliveryProofs` proves all four properties of `delivery`, and the types, for
every set of runs and request threads, every batch size and every bound
(`BatchAssumption`; `DeliveryAssumption`: `Nobody` is not a handler, the offers
are pairs of a kind and a run, the bounds are naturals). The invariant `IInv`
rests on one observation: log, fates, rows and run rows only grow
(`NothingShrinks`), so what a handler knew stays true however late it goes on
(`HandlerLater`). What it knows: its request is a contiguous piece of the log
posted when everything before it had been answered (`Started`); its answer is
true (`Truthful`), which for a 404 to what came after the creation means that the
creation was rejected; data that was let in had no completion of its run sent before it
(`LetIn`). For the attempt under way, that piece starts at the first item
without a fate (`AttemptOK`). `SentIsInDatabase`, `SpansAreStoredOnce` and
`RunIsKnown` follow state by state, `LateRowsAreLeftovers` from the step that
adds the rows.

The lemmas about `CountOf` (append, drop, disjoint kinds) are proved from the
cardinality theorems of the library.

`ClientProofs` proves all safety properties of `client` for every number of
runs, threads, timers, spans and calls (`ClientAssumption`: the actors are
distinct, the bounds are naturals), with every use of a run that `span()`,
`op()` and `start_sampling()` permit, from the claim of the client on. Next to
the properties themselves the invariant needs: a completion follows its run's
creation, and a run whose `__enter__` is over was created unless the sender had
stopped (`LogOK`); a thread in the middle of something is so for a run
(`HandsOK`); the number of open spans is the number of threads inside one
(`SpansOK`); an owner drains only its own operations (`OwnOps`); and what the
exit has drained so far (`DrainOK`). `FinalDrain` rests on the last one: a
histogram that the exit finds empty may have been swapped out by `on_tick` a
moment before and be in the sender thread's hands, so the statement has to name
both places, and remember which timers the exit has visited.
`CompletionFollowsCreation` is the half of the promised order that does hold;
`CreationFirst` and `CompletionLast` are refuted.

`LabProofs` proves all safety properties of `lab` for every set of experiments
and handlers and every number of trials and restarts (`LabAssumption`). The
invariant relates the row of an experiment to the point its runner has reached
(`ExpOK`), the lock of `start` to the experiment it is inserting (`StartOK`), a
service that is up to the runners it has (`ServiceOK`), and says that what
`recover` has read and not yet settled contains everything that no living
runner will settle (`RowsSeen`). `OneRunner`, `CompleteIsComplete`,
`CancelTakesEffect` (a step property) and `NoOrphans` follow.

`AccessProofs` proves both properties of `Access` for every set of users,
projects, teams, tokens and requests, without the bounds of the run
(`AccessAssumption`). The decisive part of the invariant is `KnownIsJustified`:
what a request believes about its caller was implied by the rows at the moment
it read them, which is what `could` remembers; `RevokesMade` adds that nothing
sets back a token that was revoked. `WritesAreAllowed` follows;
`RolesAreEarnedByAll` adds that a commit changes exactly the rights its
operation names.

`ShipperProofs` proves `CallsShippedOnce` for every finite set of threads, every
queue length and list of pending exports (`ShipperAssumption`). A recorded call
stays in one place because a swap overwrites nothing: only a ticker on its way
to the lock holds histograms (`HandsOK`), and `shutdown` ticks once. The bound on
the queue needs `RoomOK`: the calls in it and the threads that have seen room
and not yet appended are together fewer than the bound plus the threads.

`HooksProofs` proves `HooksExact` for every set of threads and hooks and every
number of calls of `init` (`HooksAssumption`). The one fact the properties do
not contain is `FindersOK`: a manager that is being removed, or is gone, waits
for no import, so a late notification patches nothing that nobody would restore.

`ServiceProofs` proves `LinksAreSafe` (`SharesAssumption`) and `DataIsKept`, the
first part of `RowsAreKept` (`ServiceDataAssumption`), for all values of their
constants. For the purge the argument is `ChosenOK`: what it has chosen cannot
become recent or unsettled again and only a purge removes it, so that reading
and deleting may lie apart; for an export it is the check of the keys at commit,
which repeats what `Resolve` saw of the runs it uses.

`ClientProofs` also proves `SamplerAwake` for every set of threads. The property
speaks of a sampler that sits out a wait; the invariant `AwakeInv` reaches back to
its look at the flags: from there on a span it has not seen has set the event or
is about to (`OpenedIsSeen`), and the event that `stop()` has set is still there
(`StopIsSeen`).

`ShipperProofs` also proves `NodeExact` for every number of starts, calls and
pending exports (`NodeInvariance`, `NodeCallsAreExact`). What it says of
`shutdown()` is `TrueMeansAnswered`, not the stronger sentence of `core.ts:168`,
which is false (section 5). The invariant `NodeInv`
adds to the property that a call under way is in one place and recorded nowhere
(`CallsLive`), that before `shutdown()` no tick of a state is, or waits to be, the
last one (`StopOnce`), and that a tick has something to post, the last one having
drained all that was recorded before it (`RunsOK`).

`LabProofs` also proves `TrialHonest` for every crew and every limit
(`TrialAssumption`). The invariant `TrialInv` says that a claimed number is in
exactly one place (`Placed`), that threads outside the crew do nothing
(`CrewOK`), that a thread ends with enough claimed or by an operation that raised
(`EndedOK`), that raw durations are those timed as long as there are few
(`AloneOK`), and what the outcome then stands for (`OutcomeOK`).

`ServiceProofs` also proves:

* `CopyIsWhole`, about `CopyDatabase`, for every set of runs (part of
  `RowsAreKept`). `CopyInv` relates what has been read, table by table, to the
  rows that were in the source `throughout`: a table that is not waiting to be
  read has all that stayed, and the foreign keys refuse a child whose parent was
  written after its own table was read.
* `VerdictsAreConservative`, about `VariantComparison`, for every set of variants
  and medians (part of `ComparisonsExact`). The median of a list is stated by
  rank, and what is needed of it (it exists, it is unique, it lies between the
  extremes) is proved by counting.
* `BucketsArePrecise`: every duration lies in its bucket, and the bucket's
  midpoint is within a sixteenth of it. The bounds are proved from the facts
  about powers of two that a shift relies on.
* `PercentilesArePrecise`: if a histogram stands for a bag of durations
  (`Stands`), its percentiles are those of the bag to within a sixteenth. The
  argument is that the two count the same up to every bucket's edge, so that a
  rank falls into the same bucket in both. After the conversion by OTLP the
  counts below 16 ns may be one bucket low, which `Stands` takes as `loose`.
* `GateVerdictsAreHonest`: `LatencyExact` for any durations, calls and rows.
  `LatencyInv` says that the live histogram and each stored row stand for the
  durations they took in; merging adds what they stand for (`MergingIs`,
  `JudgedStands`), and the pairs that `explicit_buckets` sends land where
  `OverOTLPStands` says. A verdict that differs from that of the durations has
  the limit between the exact percentile and its figure. These are a sixteenth
  apart, so it is marked; or, only if some row was converted, a nanosecond, and
  then the limit is that close to the figure. Nothing better can be said of
  OTLP rows: `EveryHairMarked` is false.

These last proofs go through loops (`Merging`, the pairs of `explicit_buckets`,
the receiver's bag), written as recursive functions. That such a function exists
and what it is are proved by least counterexample: a nonempty set of naturals has
a least element (`LeastOf`, from the library's theorems on well-founded
relations), and below it the claim holds. This needs no induction rule with an
operator as a parameter, which the installed provers cannot instantiate.

**Model-checked only:** all liveness (fairness and ENABLED are outside the
prover's reach); `SpanComparison`, whose trees are RECURSIVE operators, which the
prover does not take; and `Migration`, which has no parameter: its statements and
released schemas are all there, so TLC's check of it is complete. The conjunctions
that name these next to parts that are proved, `RowsAreKept` and
`ComparisonsExact`, are therefore not theorems as a whole.

## 7. What is not modelled

* Time: a timed wait may end at any moment, so the values of intervals,
  deadlines and backoff do not matter; properties about durations are not
  stated.
* Log-once warnings, formatting and serialisation; an exception inside
  `on_tick`; the death of the sender thread by an unhandled error (the code
  restarts it); process kill where nothing is persisted, which cuts a behaviour
  off and needs no action; the exit hook, which is a flush.
* Two threads that call `start_sampling()` at the same moment; a second
  `client.shutdown()`; a second sampler in one run.
* A database that refuses the status writes outside the runner's try block
  ("running", "cancelled", "failed"; that of "complete" is inside, and modelled).
* Types and constraints of database columns (`NOT NULL`, defaults).
* In the run `service`, requests give the role of an administrator only, so that
  default roles, which end at editor, stay at none: a wider set doubles the run.
  `AccessProofs` covers any set.
* How a hooked call is described (algorithm, key size, call site), spans of the
  agents (`_otel.py`, `otel.ts`), the edge build (`edge.ts`), configuration.
* The exchange with the identity provider, cookies, headers and their flags, the
  hashing of tokens.
* The bootstrap interval of `compare_v2.py`, the aggregation of resource
  samples, the algorithm inventory, reports, exports and all rendering.
* The syntax of the gate's rules; the presets, security notes and environment of
  the Lab; readings of `psutil`; the privacy filter, which classifies strings.
* The web UI, operations scripts, demos and examples.
* How SQLite and PostgreSQL treat a transaction with DDL in it is taken from how
  the code uses them, not from their source.

`PROJECT.json` gives the reason for each part it lists as `not_modelled` or
`partly`.
