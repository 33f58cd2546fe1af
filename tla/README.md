# Formal models of dat_service_lib

TLA+ models of the parts of `dat_service_lib` that keep state or are shared by
threads, TLC configurations that check them on small instances, and TLAPS
proofs of their main properties for every instance.  Line numbers are those of
the repository; `PROJECT.json` maps each definition to the lines it stands for.

## The system

| Component | State | Operations | Used by |
|---|---|---|---|
| `utils/resilience.py` CircuitBreaker | `_state`, `_failure_count`, `_last_failure_time`, `_half_open_calls`; no lock | `state`, `call`, `_on_success`, `_on_failure` | any caller of a downstream service |
| `utils/resilience.py` retry | attempt number, last exception (local) | the decorated call | any caller; the demo retries a function, and a function protected by a breaker is one |
| `core/services/sensor_service.py` SensorService | none of its own; locals of the calls | `process_reading`, `process_batch`, three queries | the inbound adapters (gRPC with `grpc_max_workers = 10`, REST, Kafka...) |
| `core/domain` validators, models | `metadata` dict and `tags` of the readings, shared between copies | `validate_reading`, `is_statistical_anomaly`, `mark_as_*`, `is_within_range` | SensorService |
| `adapters/persistence/postgres_repo.py` | a pool of connections, one transaction on each | `save`, `save_batch`, three queries | SensorService, through ReadingRepository |
| `adapters/persistence/in_memory_repo.py` | a list of readings, a dict of thresholds | the same, `save_threshold`, `clear` | SensorService |
| `adapters/messaging/alert_adapters.py` | none | `send_alert`; the composite calls each notifier and swallows exceptions | SensorService, through AlertNotifier |
| `adapters/observability/logging.py` PrometheusMetrics | dicts of counters, histograms, gauges; no lock | `increment_counter`, `observe_histogram`, `set_gauge` | SensorService, through MetricsEmitter |
| logging, settings, exceptions, exports | read-mostly | formatting, set-up | everything |

The service calls its ports in a fixed order (threshold, statistics, save,
alert, metrics); everything it shares with other workers is behind those ports.
Nothing in the repository connects the breaker or `retry` to the service: a
caller wraps its calls, and by default `retry` retries the breaker's
`CircuitOpenError` too.  `SensorService` accepts an `anomaly_detector` and never
calls it, so there is no strategy to model.

What is hard here:

* *Concurrency.*  No class takes a lock.  The breaker's admission, its counter
  and its state changes are separate accesses; calls overlap while the protected
  function runs, also with one thread and a cooperative scheduler.
* *Failure in the middle.*  `process_reading` stores, alerts, counts and observes
  in four calls, any of which may raise; `process_batch` catches only
  `SensorError`; a commit may take effect and raise; a `BaseException` passes
  `except Exception`, before, inside or after what it interrupts.
* *Order and staleness.*  Outcomes of old calls reach a breaker that has moved
  on; thresholds and statistics are read before the reading is stored; queries
  and dumps walk containers that others change.
* *Time.*  The breaker's timeout is measured with the wall clock, which may be
  set back; the sleeps of `retry` race with it.
* *Shared objects.*  The copies of a reading share its metadata dict.
* *Two adapters for one port* that should not be told apart.

`PROJECT.json` lists each of these as a hazard, at its line, with the properties
that would catch it.

What makes each component correct: a breaker trips exactly on the threshold,
fails fast, tests with at most `half_open_max_calls` probes and recovers when
the service does; a retried call gives up only when it has to and ends; the
service gives each reading one explained verdict, alerts every stored anomaly,
counts what it stores, and always reports a batch; a repository call takes
effect once or fails, gives its connection back clean, and a query answers from
one moment; the alerter asks every notifier and reports honestly; metrics lose
nothing that threads did not overlap on.

## Modules

| Module | Models |
|---|---|
| `CircuitBreaker` | the breaker with its handlers as steps, shared by overlapping calls |
| `CircuitBreakerThreads` | the same code, each load and store of an attribute a step; until threads preempt each other inside it, it implements `CircuitBreaker` |
| `Retry` | the loop of the `retry` decorator, its delays and how a call ends |
| `RetriedBreaker` | composes `Retry` and `CircuitBreaker`: callers that retry through one breaker |
| `SensorService` | `process_reading` and `process_batch` run by any number of workers over failing ports |
| `CompositeAlerts` | the fan-out of `CompositeAlertNotifier` |
| `PrometheusMetrics` | counters, histograms and dumps, access by access |
| `ServiceOutputs` | composes the two: what a worker does after its reading is stored, with the shipped adapters, while a scraper dumps |
| `Sums` | sums over finite sets, for the properties that add up counters |
| `ReadingStore` | what a ReadingRepository promises: an abstract specification |
| `InMemoryRepo` | the list of `InMemoryReadingRepo` and the scans of its queries; implements `ReadingStore` |
| `PostgresRepo` | connections and transactions of `PostgresReadingRepo`; implements `ReadingStore` |
| `MC...` | values and symmetry for TLC (`MCBreakerThreads`, `MCRetriedBreaker`, `MCSensorService`, `MCServiceOutputs`, `MCInMemoryRepo`, `MCPostgresRepo`) |
| `...Proofs` | TLAPS proofs about the module before the suffix (`CircuitBreaker`, `CircuitBreakerThreads`, `RetriedBreaker`, `SensorService`, `ServiceOutputs`, `InMemoryRepo`, `PostgresRepo`, `Sums`) |

Definitions marked `mutant` are plausible mistakes in the operator that follows
them; no specification uses them.  Each property is checked to fail when one of
them takes the place of the definition.

### CircuitBreaker

`state`, `failureCount`, `halfOpenCalls` are the attributes; `sinceFailure` is
the time since `_last_failure_time`, from -1 (the clock was set back past the
failure) to one tick more than the timeout, since the code asks only whether it
exceeds it.  `Admit` is `call()` up to the function (with the `state` property it
reads first), `Reject` its `CircuitOpenError`, `Succeed` and `Fail` the two
handlers, `Escape` an exception that `except Exception` does not catch,
`ReadState` any other reader of the property; `Tick` and `SetBack` are the wall
clock.  `running` are the calls in their function, `probes` those of them
admitted in the present half-open episode, `lost` the slots of the episode whose
calls escaped.  A handler is one step, which is the code when callers switch only
inside the function.

### CircuitBreakerThreads

For preemptive threads each access is a step; `pc` names the next one.  An
interpreter may switch threads between any two (CPython 3.8 and 3.9, which
`python_requires` admits, between any two bytecodes; newer ones only at calls
and jumps, which leaves the interleavings around the call of `time.time()` but
not every one of this model).  `preempted` records that two threads have been
inside the breaker's own code (not in the function) at once.  Until then the
module implements `CircuitBreaker`: the mapping places a success at its first
store, a failure where its time is read, the move to half-open where the state
is stored.  `probing` are the threads that have taken a slot of the episode.
Line 93 is two steps (`ReadClock`, `StoreTime`): time passes between them
(`stampAge`), and a thread that is preempted there stores a time older than the one
another has stored meanwhile.  The test of line 59 reads the clock and the stamp in
one step (`CheckExpired`): a stamp stored between the two reads only makes the
difference smaller.

### Retry and RetriedBreaker

`Retry` leaves what the function does to the module that composes it: `Returned`
and `Raised` end an attempt, `Wake` begins the next, `SleepOn` passes time.
`Delay` is the exponential, cap and jitter of the code; the jitter, a factor in
[0.5, 1.5), is any whole number of ticks in that range.  In `RetriedBreaker` an
attempt is a call of the breaker (an instance of `CircuitBreaker`): it is refused
and raises at once, or is admitted and ends as the function does.  One `Tick`
passes for the breaker and for all sleepers.  `waited` and `disturbed` are
history: the time since the call was first refused, and whether since then a
failure was recorded or somebody else had the slots.

### SensorService

A worker takes a step per call on a port: `Accept`/`Refuse` (validation, the
invalid counter), `CheckThreshold`, `CheckStatistics`, `Save`, `SendAlert`,
`Count` and `Observe` (the counter and the histogram, and with the latter the count
of the batch), and a failing variant for each port in `FaultyPorts`.  The metrics
are ports like the others: `CountFails`, `ObserveFails` and, where a `SensorError`
is being handled, `RefuseFails` raise with the metric recorded or not.
`CommitUnacknowledged` is a store that takes effect and raises.  `unacked`,
`unsent`, `uncounted` and `unobserved` are history: what each exception has cut
short.  `Finish` goes on to the next reading of a batch; a single reading
is a batch of one whose validation errors are raised.  `SaveThreshold` is an
operator who reconfigures a sensor at any time.  `stored`, `alerts`, `processed`,
`observed` and `invalid` count what reached the ports; `scored` is the `z_score` entry of
each object's metadata dict, shared by its stored copies.  A caller may pass an
object again, which also stands for a retry.

Abstracted: ids, values and ranges are small sets given by the MC module; the
z-score is any verdict once there are more than `MinSamples` samples that are not
all equal (with the code's 10 replaced by a constant); alerts and metrics are
atomic here; the messages and the log are left out; metrics are configured.

### CompositeAlerts, PrometheusMetrics and ServiceOutputs

What `SensorService` takes for two atomic ports, in the steps of the adapters.
A worker whose reading was stored (`Stored`) asks notifier after notifier;
each acknowledges, declines, or raises with the alert delivered or not, and
`acked` is whether the results hold a True.  Then it counts (`LoadCounter`,
`StoreCounter`) and observes (`TestHistogram`, `CreateHistogram`,
`FetchHistogram`, `AppendValue`).  `lists[h]` has the length of every list ever
made for histogram `h`, the last being the one in the dict, since a worker may
hold an older one.  A scraper runs `get_all_metrics`: two copies that are single
steps, then the comprehension over the histograms, which fails when a key has
been inserted since it began.  `Interrupt` is a `BaseException` out of a
notifier.  Keys are never deleted by the code, so the order of insertion
(`births`) is that of the walk.

### ReadingStore, InMemoryRepo and PostgresRepo

`ReadingStore` is the port: a call takes effect at one moment between its start
and its end, exactly once if it returns and at most once if it raises.  `Clear`
is the owner of the store emptying it.

`InMemoryRepo` follows the list: a write extends it in one step of the
interpreter (`Write`), a query walks it by index (`ScanNext`) while others append,
and meets its end (`ScanEnd`), where sorting and cutting its own copy is folded
in since nobody else sees that copy.  Queries are the records of `QueryCalls`:
`get_latest` is a query of limit 1, `get_stats` one of limit `StatsLimit` (10,000
in the code).  `Newest` is the stable, reversed sort with the slice that follows
it: the reading at a place of the answer is the one with that `Rank`, the number
of kept readings `Before` it.  `Clear` is `clear()`, which has no guard; the
specification takes it as the tests use it, while no query scans
(`ClearBetweenScans`).

`PostgresRepo` follows `_get_conn`: `GetConn`, the statement (`Execute`),
`Commit`, or `Rollback` after an exception, and `PutConn` in any case.  The
database (a transaction per connection, atomic commit) and the pool are external;
the pool raises when exhausted, and `putconn` rolls back what was left open, as
psycopg2's does.  `failing` is the kind of exception on its way out: an
`Exception` is rolled back, a `BaseException` is not.  The latter may come anywhere:
at the statement, the commit or before the rollback has any effect (`Interrupt`),
after the commit took effect (`CommitInterrupted`), and where no `finally` covers
the connection: between `getconn` and the `try` (`GetConnInterrupted`) or in the
`finally` before `putconn` has taken it (`PutConnInterrupted`).  There the connection
is lost to the pool for good, and `leaked` remembers it.  `NotJson` are
the rows whose metadata dict is not empty: `str()` of it is no JSON, and the
column is JSONB by line 65.  Rows stand for what a reading becomes in the table; a
batch holds each row once.  `acked` and `floor` are history: the writes that had
returned, and those that had when a query began.

## Runs

| Run | Question | Instance and answer |
|---|---|---|
| `CircuitBreaker` | do count, state and slots stay consistent when calls overlap, and do callers get through once the service is up? | 3 callers, one of which may escape, threshold 2, 2 slots, the clock set back once; 5,104 states; yes, unless escaped calls hold every slot |
| `RetriedBreaker` | are attempts and sleeps bounded, does every call end, and does waiting pay? | a default caller, one that retries only failures and may escape, one with `max_attempts = 0`; 469,460 states; yes |
| `BreakerThreads` | is the code, access by access, the breaker as long as nobody is preempted inside it, and can racing updates trip it early? | 3 threads, up to symmetry; 9,729,535 states; it is, and they cannot |
| `BreakerResetRace` | does an idle half-open breaker admit? | 2 threads; no: it may be stuck for ever |
| `SensorService` | do counts, alerts, metrics and verdicts agree with the store and with each other? | 2 workers, up to symmetry, 2 calls of up to 2 readings, every port faulty, the metrics included; 438,675 states; yes |
| `ServiceBatchAborted` | does a batch survive a failing store? | no: its result is lost |
| `ServiceLowerCaseId` | is a verdict explained by the validated id's threshold? | no, for a lower-case id |
| `ServiceSharedMetadata` | is what is stored immutable? | no: the metadata dict is shared |
| `InMemoryRepo` | do queries answer from one moment like the SQL of PostgreSQL, with ties in stored order and agreeing statistics, and does the list implement the port? | 2 clients, 4 readings (two at one time, one of another sensor), 3 calls; 641,799 states; yes |
| `ServiceOutputs` | is every stored reading counted and every notifier asked, are metrics exact where updates did not overlap, what may a dump show? | 2 workers, a scraper, 2 sensors, 2 notifiers, 3 readings, up to symmetry; 552,543 states; yes |
| `PostgresRepo` | does it implement the port, account for every connection and end every transaction? | 3 clients, 2 connections, up to symmetry, 3 calls, every fault; 410,081 states; yes, and only an interrupt outside the `try` or in its `finally` costs a connection |
| `PostgresMetadata` | does every call return when nothing fails? | no: metadata is not JSON |

*Why the bounds are enough.*  The breaker compares its count with the threshold
and its slots with the limit, so one failure more than the threshold and one
caller more than the slots reach every case; `MaxFailures` and `MaxCount` stop
counters above every comparison.  A third caller gives the late outcome that
finds the breaker already re-opened, and the one that may escape can take both
slots of an episode in turn; a second set-back finds nothing the first does not,
since the clock goes back by any amount.  With three threads two race while the third
changes the state under them.  Delays of 3 ticks and a cap of 3 make the jitter
exceed the cap and let a call sleep through the breaker's timeout, or not.  In
the service two workers and two batches of two give every interleaving of two
readings, and the fourth reading is the first that the statistics may flag
(`MinSamples` = 2); a reading inside both ranges, one between them and one out of
physical range cover the branches.  In memory, `StatsLimit` = 2 with up to three
readings of a sensor reaches both sides of the limit, and a batch of two is
written during a scan.  In `ServiceOutputs` two workers race on one counter and on the birth of
one histogram, and two sensors let a histogram be born during the walk.  In
PostgreSQL two connections for three clients exhaust the pool, and three calls let
a third see what two others left.

*Fairness.*  The breaker's recovery assumes that time passes, that each caller
keeps calling and that the function ends; nothing makes the service recover.
`RetriedBreaker` assumes that time passes and that a caller inside a call goes on
(the function ends, `time.sleep` returns); nobody has to call.  No fairness is
assumed of readers of the state, of the clock being set back or of faults, and the
other runs assume none: a call of the service or of a repository is a straight line
of port calls, and that it ends is nothing but that they do.

*Deadlock* is checked except in the `InMemoryRepo` and `Postgres` runs, which end
when `MaxCalls` calls have been made.

## What the violations show

Each is in `findings` with the line of the documentation it contradicts: a
success racing a failure wedges the breaker; a failing store aborts a batch; a
lower-case id escapes its sensor's threshold; a stored reading's metadata
changes; metadata cannot be saved to PostgreSQL.

*Other behaviours* of the models that a reader of the code should know, and that
no property asserts either way.

* The success of a call admitted before the breaker opened closes it again with
  no half-open test (`Succeed` when the state is OPEN).
* A probe that ends by a `BaseException` keeps its slot; with every slot so kept,
  callers are refused for ever, the exception `RecoversWithService` names.
* Preempted threads may run two probes at once with one slot (`CheckSlot` and
  `StoreSlots` interleaved, or a second `ResetSlots` under a running probe), which
  costs the service one request more.
* A call with the decorator's default exceptions burns its attempts on an open
  breaker when its sleeps are shorter than the timeout (`Refused`, then `Raised`);
  `PatientCallsGetThrough` says what waiting longer buys.
* A single sleep may exceed `max_delay` by almost half, since the jitter comes
  after the cap; `SleepIsBounded` has the factor.
* A notifier that delivers and then raises counts as not delivered, so a caller
  who sends again on a False sends twice; `ReportsAreHonest` has the exact terms.
* Overlapping increments lose counts, and two workers that create one histogram
  lose an observation; a dump fails while a histogram is born under it.
* A metrics port that raises aborts the reading and the batch like any other port,
  with the reading stored and the alert sent (`CountFails`, `ObserveFails`), or in
  place of the `SensorError` being handled (`RefuseFails`).
* A preempted thread may stamp the breaker with a time older than the stamp it
  overwrites, so that the timeout passes earlier (`StoreTime`).
* An interrupt between `getconn` and the `try`, or in the `finally` before `putconn`
  is done, makes the pool one connection smaller for good.
* With a pool that, unlike psycopg2's, does not roll back, `Interrupt` would hand
  the next client an open transaction.

## Proofs

Every theorem holds for all values of the constants that satisfy the module's
named assumption (finite sets of actors, natural numbers, limits above zero).
Where a run shows a documented property violated, a theorem says under which
condition it does hold:

| Violated in | Property | Holds, by the theorem, when |
|---|---|---|
| `BreakerResetRace` | `IdleBreakerAdmits` | no two threads have been inside the breaker's code at once (`IdleBreakerAdmitsUntilPreempted`) |
| `ServiceBatchAborted` | `BatchIsolatesFailures` | no port fails (`InvalidReadingsIsolated`) |
| `ServiceLowerCaseId` | `VerdictExplained` | valid readings carry the id that validation returns (`CanonicalIds`, `VerdictsAlwaysExplained`), as in the instance of the run `SensorService` |
| `PostgresMetadata` | `CallsReturn` | nothing fails, the pool has a connection per client and the text of the metadata is JSON (`CallsReturnWithoutMetadata`) |

`InMemoryRepo` assumes that there is a query to ask and that
`StatsLimit`, the code's 10,000, is not 0; with 0 the statistics of a non-empty
list would have no last reading.

`CircuitBreakerProofs`: types; `TrippedIsCounted`; `FailsFast`; `SlotsAreRunning`;
`FirstOutcomeDecides`, with calls that escape and a clock that is set back.  The
inductive invariant is the conjunction of the three invariants.  `SlotsAreRunning`
needs `TrippedIsCounted`: a failed probe ends the half-open episode only because
the count is still at the threshold; and a slot is counted once because an episode
starts with no probe.

`CircuitBreakerThreadsProofs`: types; `NeverTripsEarly`, from an invariant that
counts as pending the failures whose update has not been stored (`CountIsBehind`:
neither the count nor what a thread has loaded exceeds the failures raised and
not pending; `Blamed`: a thread about to trip has enough of them);
`SequentialUntilPreempted`, that the accesses implement `CircuitBreaker` until the
first preemption.  For the latter, `OneInside` says that at most one thread is
inside and `Knows` what it has read that still holds; the mapping's views are then
those of that thread (`ViewsWith`), and each action is one lemma.  From it and the
invariant of the atomic breaker, carried over until then (`BreakerHolds`), follows
`IdleBreakerAdmitsUntilPreempted`.

`RetriedBreakerProofs`: `UsesABreaker`, that every step of the composition is a step
of its breaker or none, so that the theorems of `CircuitBreakerProofs` apply to the
breaker behind callers that retry, and are not stated again.
`GivesUpOnlyWhenSpent` from what a call in each place of the loop has tried
(`LoopInv`).  `PatientCallsGetThrough` from `WaitsAreCovered`: an undisturbed call
has waited no longer than the time since the last failure, so a refusal that finds
the breaker OPEN comes within the timeout.  `SleepIsBounded` from `SleptPerTry`, a
budget of one capped and jittered delay for each failed attempt; that the cap bounds
the exponential needs of the powers of two only that they are not negative.  The
types are those of the breaker, carried over by the same refinement, with the two
invariants of the loop.

`SensorServiceProofs`: types; `BatchAccounting`, with the strengthening that a
worker inside a call has not ended it (without it, a call that had raised could
finish with wrong counts); `AnomaliesAreAlerted`, one equation per reading, where a
save of an anomaly adds its worker to those about to alert and the alert removes
it (three lemmas on the cardinality of that set); and, when no port fails, that no
batch ends with an exception.  `MetricsAgreeWithStore` is one such equation per
sensor and status, with sums over its readings: a save moves one unit from the
store into the set of workers past it, and a count or an exception moves it on.
`HistogramFollowsCounter` is the same argument one call later, per sensor: a count
of either status puts its worker between the two metrics.
`VerdictExplained` from `VerdictInv`: the configuration in force for the validated
id is among those the worker has seen since it began (`Watched`), and enough varied
history stays enough since what is stored stays (`StoredGrows`).

`ServiceOutputsProofs`: types; `CountersExact` (what a thread has loaded is the
counter's value until another thread works on the same counter); `FailuresAreBirths`
(a walk began after every failure of its thread, and keys are only added);
`ReportsAreHonest` (only notifiers already asked have delivered or raised);
`HistogramsExact` (a new list is empty, an observation lengthens one list by one,
and a histogram nobody rebuilt has one list).  The invariants of an adapter are
proved of its own steps, whoever calls it.  Of the composition: `StoredIsCounted`,
one equation that each step of a worker keeps; `CountedReachedEveryNotifier`, per
notifier, with the workers that have asked it and not yet counted; and `DumpsAgree`,
from `Following` (the counters of a sensor are ahead of its histogram by the workers
between the two) at the moment the counters are copied and from observations only
growing until the length is read.

`SumsProofs`: a sum is defined as the number of its units, so that what a change of
one summand does to it, and that it is monotonic, follow from the theorems on
cardinalities without induction over the set.

`InMemoryRepoProofs`: that the list implements `ReadingStore` (the readings of a
batch are different objects, so extending the list by them adds one of each); types;
`ResultsAreNewest`; `TiesInStoredOrder`; `StatisticsAgree`.  `Before` is a strict
total order, so each kept reading has a rank of its own and every rank below their
number is taken (an injection of a finite set into one of its size): the answer is
`Newest` by places (`NewestComeFirst`).  While a query scans, what it has found are
the readings of its sensor among those it has passed, in order (`Scanning`); others
only extend the list, and `ClearBetweenScans` waits.  At the end of the scan the two meet
(`AnswerOfTraced`): the results are places in the list, ordered, and before all that
is left out (`Answering`), from which the three properties follow.

`PostgresRepoProofs`: types; `ConnsAccounted`; `HandsBackCleanConns`; that it
implements `ReadingStore`; `AcknowledgedIsVisible`.  The inductive invariant says
where each connection is (in the pool, with one client or leaked), what its transaction holds by where its client is, and
when a call has taken effect; the refinement follows action by action.
`CallsReturnWithoutMetadata` needs that a pool as large as the clients is never empty
for one of them (`PoolSuffices`, by the pigeonhole principle).  Visibility needs more: the table is ahead of the acknowledged writes by those
committed whose calls have not returned yet (`Visible`, by counting them per row).

Every invariant and action property of the passing runs is proved.  Only
model-checked: liveness (`RecoversWithService` and `CallsEnd` of `RetriedBreaker`), which
is out of the prover's reach.  `Scanning`, `Answering` and the like quantify over functions of
no bounded set and are not run as invariants; the properties they imply are.

## Not modelled

* `set_gauge`: one assignment, which nothing in the package calls.
* The arithmetic of the z-score and the standard deviation, and its rounding to
  four places in PostgreSQL (`postgres_repo.py:179`): floating point.  The verdict
  is any there is enough data for.
* Serialisation, log formatting, settings, exports: data conversion without state.
* `clear()` while a query scans: it is a test helper that no query and no writer
  calls, and `Next` takes `Clear` only while no query is scanning.
* The wall clock set back is in `CircuitBreaker` only; under `retry` and under
  preemption it advances.
* Preemption inside `list.append`, `list.extend` or `dict.copy`, which the
  interpreter does not do.

## Plan

1. Done: the breaker (calls, accesses, retried), the service, its output
   adapters, the port and its two implementations; the proofs above.
2. An abstract ledger that `SensorService` implements (a reading is judged and
   stored at once, alerts and counts follow), and the service over `ReadingStore`
   in place of its atomic store.
3. That the two repositories answer a query alike, as a theorem about their
   composition with one sequence of calls.
4. The z-score in integers against its definition, so that the rounding of the two
   repositories can be compared.
