---------------------------- MODULE SensorService ---------------------------
(***************************************************************************)
(* The SensorService of core/services/sensor_service.py: any number of     *)
(* workers run process_reading and process_batch on one service, over a    *)
(* shared reading store, threshold store, alerter and metrics.             *)
(*                                                                         *)
(* A worker takes one step per call it makes on a port; what it does on    *)
(* its own objects between two calls belongs to the step before.  The      *)
(* ports are atomic, and those in FaultyPorts, the metrics among them, may *)
(* raise an exception that is not a SensorError (PostgresReadingRepo       *)
(* raises RepositoryError).                                                *)
(***************************************************************************)
EXTENDS Integers, Sequences, FiniteSets, Sums

CONSTANTS
  Workers,
  Readings,    \* SensorReading objects of the callers; a caller may pass one
               \* again, in another call or twice in a batch
  Ids,         \* the sensor_id strings in use
  SensorOf,    \* SensorOf[r]: the sensor_id of r, as its caller wrote it
  ValueOf,     \* ValueOf[r]: its value
  Canonical,   \* Canonical[id]: id stripped and in upper case
  WellFormed,  \* the ids that match SENSOR_ID_PATTERN
  Plausible,   \* the values within the physical range of the unit
  Ranges,      \* the ranges [min, max] an operator may configure
  MinSamples,  \* the statistics need more samples than this (10 in the code)
  FaultyPorts, \* the port operations that may raise
  MaxBatch,    \* bound of the model: the longest batch
  MaxCalls     \* bound of the model: the calls made on the service

Ports == {"get_threshold", "get_stats", "save", "commit", "send_alert",
          "increment_counter", "observe_histogram"}

ASSUME ServiceAssumption ==
  /\ IsFiniteSet(Workers) /\ IsFiniteSet(Readings)
  /\ SensorOf \in [Readings -> Ids]
  /\ ValueOf \in [Readings -> Int]
  /\ Canonical \in [Ids -> Ids]
  /\ WellFormed \subseteq Ids
  /\ Plausible \subseteq Int
  /\ Ranges \subseteq [min : Int, max : Int]
  /\ MinSamples \in Nat
  /\ FaultyPorts \subseteq Ports
  /\ MaxBatch \in Nat \ {0} /\ MaxCalls \in Nat

VARIABLES
  pc,         \* pc[w]: the port worker w calls next, "validate" or "idle"
  inBatch,    \* inBatch[w]: w runs process_batch
  todo,       \* todo[w]: the readings w has not finished, its current one first
  isAnomaly,  \* isAnomaly[w]: the verdict on the current reading
  tally,      \* tally[w]: the counts of the ProcessingResult
  outcome,    \* outcome[w]: how the last call of w ended
  thresholds, \* thresholds[id]: {} or {the configured range}
  stored,     \* stored[r][s]: how often r was stored with status s
  alerts,     \* alerts[r]: the send_alert calls made for r
  processed,  \* processed[id][s]: readings_processed_total{sensor_id, status}
  observed,   \* observed[id]: the values in the histogram reading_value{sensor_id}
  invalid,    \* invalid[id]: readings_invalid_total{sensor_id}
  scored,     \* scored[r]: the metadata dict of object r has a "z_score"
  inForce,    \* history: the configurations of the current reading's validated
              \* id since w took the reading up
  unacked,    \* history: stores whose commit raised although it took effect
  unsent,     \* history: send_alert calls that raised
  uncounted,  \* history: increment_counter calls that raised with nothing counted
  unobserved, \* history: counted readings whose observation was not reached, or
              \* raised with nothing observed
  calls       \* history: the calls made so far

local  == <<pc, inBatch, todo, isAnomaly, tally, outcome, inForce>>
losses == <<unacked, unsent, uncounted, unobserved>>
ledger == <<stored, alerts, processed, observed, invalid, scored, losses>>
vars   == <<local, ledger, thresholds, calls>>

Statuses == {"valid", "anomaly"}
Kinds    == {"total", "valid", "anomaly", "invalid"}
NoTally  == [k \in Kinds |-> 0]
Configurations == {{}} \union {{range} : range \in Ranges}

PortCalls == Ports \ {"commit"}

WorkersOK ==
  /\ pc \in [Workers -> {"idle", "validate"} \union PortCalls]
  /\ inBatch \in [Workers -> BOOLEAN]
  /\ todo \in [Workers -> Seq(Readings)]
  /\ isAnomaly \in [Workers -> BOOLEAN]
  /\ tally \in [Workers -> [Kinds -> Nat]]
  /\ outcome \in [Workers -> {"none", "returned", "raised"}]
  /\ inForce \in [Workers -> SUBSET Configurations]
  /\ \A w \in Workers : pc[w] # "idle" => todo[w] # <<>>

LedgerOK ==
  /\ stored \in [Readings -> [Statuses -> Nat]]
  /\ alerts \in [Readings -> Nat]
  /\ processed \in [Ids -> [Statuses -> Nat]]
  /\ observed \in [Ids -> Nat]
  /\ invalid \in [Ids -> Nat]
  /\ scored \in [Readings -> BOOLEAN]
  /\ unacked \in [Readings -> [Statuses -> Nat]]
  /\ unsent \in [Readings -> Nat]
  /\ uncounted \in [Readings -> [Statuses -> Nat]]
  /\ unobserved \in [Ids -> Nat]

TypeOK ==
  /\ WorkersOK
  /\ LedgerOK
  /\ thresholds \in [Ids -> Configurations]
  /\ calls \in 0..MaxCalls

Init ==
  /\ pc = [w \in Workers |-> "idle"]
  /\ inBatch = [w \in Workers |-> FALSE]
  /\ todo = [w \in Workers |-> <<>>]
  /\ isAnomaly = [w \in Workers |-> FALSE]
  /\ tally = [w \in Workers |-> NoTally]
  /\ outcome = [w \in Workers |-> "none"]
  /\ thresholds = [id \in Ids |-> {}]
  /\ stored = [r \in Readings |-> [s \in Statuses |-> 0]]
  /\ alerts = [r \in Readings |-> 0]
  /\ processed = [id \in Ids |-> [s \in Statuses |-> 0]]
  /\ observed = [id \in Ids |-> 0]
  /\ invalid = [id \in Ids |-> 0]
  /\ scored = [r \in Readings |-> FALSE]
  /\ inForce = [w \in Workers |-> {}]
  /\ unacked = [r \in Readings |-> [s \in Statuses |-> 0]]
  /\ unsent = [r \in Readings |-> 0]
  /\ uncounted = [r \in Readings |-> [s \in Statuses |-> 0]]
  /\ unobserved = [id \in Ids |-> 0]
  /\ calls = 0
-----------------------------------------------------------------------------
Current(w) == Head(todo[w])
Sensor(w)  == SensorOf[Current(w)]
Status(w)  == IF isAnomaly[w] THEN "anomaly" ELSE "valid"

(* SensorThreshold.is_within_range; with no threshold every value passes. *)
Within(value, configuration) ==
  \A range \in configuration : range.min <= value /\ value <= range.max

(* validate_reading: the id it normalises is not the id used afterwards. *)
IsValid(r) ==
  /\ Canonical[SensorOf[r]] \in WellFormed
  /\ ValueOf[r] \in Plausible

Step(w, from, to) == pc[w] = from /\ pc' = [pc EXCEPT ![w] = to]

TakeUp(w, rs) ==
  inForce' = [inForce EXCEPT ![w] =
                IF rs = <<>> THEN {} ELSE {thresholds[Canonical[SensorOf[Head(rs)]]]}]

AfterUnchecked(rest) == "validate"              \* mutant: the loop never ends

After(rest) == IF rest = <<>> THEN "idle" ELSE "validate"

(* A caller passes one reading, or a list of them. *)
Begin(w, rs, batch) ==
  /\ calls < MaxCalls
  /\ calls' = calls + 1
  /\ Step(w, "idle", After(rs))
  /\ inBatch' = [inBatch EXCEPT ![w] = batch]
  /\ todo' = [todo EXCEPT ![w] = rs]
  /\ tally' = [tally EXCEPT ![w] = [NoTally EXCEPT !["total"] = Len(rs)]]
  /\ outcome' = [outcome EXCEPT ![w] = IF rs = <<>> THEN "returned" ELSE "none"]
  /\ TakeUp(w, rs)
  /\ UNCHANGED <<isAnomaly, ledger, thresholds>>

ProcessReading(w) == \E r \in Readings : Begin(w, <<r>>, FALSE)
ProcessBatch(w)   == \E n \in 0..MaxBatch : \E rs \in [1..n -> Readings] : Begin(w, rs, TRUE)

RaiseSwallowed(w) ==                            \* mutant: the exception is
  /\ pc' = [pc EXCEPT ![w] = "idle"]            \* caught around the loop
  /\ outcome' = [outcome EXCEPT ![w] = "returned"]
  /\ todo' = [todo EXCEPT ![w] = <<>>]
  /\ inForce' = [inForce EXCEPT ![w] = {}]
  /\ UNCHANGED <<inBatch, isAnomaly, tally>>

(* An exception leaves process_reading, and process_batch with it. *)
Raise(w) ==
  /\ pc' = [pc EXCEPT ![w] = "idle"]
  /\ outcome' = [outcome EXCEPT ![w] = "raised"]
  /\ todo' = [todo EXCEPT ![w] = <<>>]
  /\ inForce' = [inForce EXCEPT ![w] = {}]
  /\ UNCHANGED <<inBatch, isAnomaly, tally>>

(* The current reading is finished; the call is, when it was the last. *)
Finish(w, kind) ==
  LET rest == Tail(todo[w]) IN
  /\ todo' = [todo EXCEPT ![w] = rest]
  /\ tally' = [tally EXCEPT ![w][kind] = @ + 1]
  /\ pc' = [pc EXCEPT ![w] = After(rest)]
  /\ outcome' = [outcome EXCEPT ![w] = IF rest = <<>> THEN "returned" ELSE @]
  /\ TakeUp(w, rest)
  /\ UNCHANGED <<inBatch, isAnomaly>>

(* A port raises: only SensorError is caught per reading. *)
PortRaises(w, port) ==
  /\ pc[w] = port
  /\ port \in FaultyPorts
  /\ Raise(w)
-----------------------------------------------------------------------------
(* Step 1: a SensorError is counted and raised; process_batch absorbs it.  *)
Accept(w) ==
  /\ Step(w, "validate", "get_threshold")
  /\ IsValid(Current(w))
  /\ UNCHANGED <<inBatch, todo, isAnomaly, tally, outcome, inForce, ledger,
                 thresholds, calls>>

Refuse(w) ==
  /\ pc[w] = "validate"
  /\ ~IsValid(Current(w))
  /\ invalid' = [invalid EXCEPT ![Sensor(w)] = @ + 1]
  /\ IF inBatch[w] THEN Finish(w, "invalid") ELSE Raise(w)
  /\ UNCHANGED <<stored, alerts, processed, observed, scored, losses, thresholds, calls>>

(* The counter raises while the SensorError is handled, counted or not:    *)
(* what leaves process_reading is the counter's exception.                 *)
RefuseFails(w) ==
  /\ pc[w] = "validate"
  /\ ~IsValid(Current(w))
  /\ "increment_counter" \in FaultyPorts
  /\ \E counted \in {0, 1} : invalid' = [invalid EXCEPT ![Sensor(w)] = @ + counted]
  /\ Raise(w)
  /\ UNCHANGED <<stored, alerts, processed, observed, scored, losses, thresholds, calls>>

(* Step 2: the threshold is looked up by the id as written. *)
CheckThreshold(w) ==
  LET outside == ~Within(ValueOf[Current(w)], thresholds[Sensor(w)]) IN
  /\ Step(w, "get_threshold", IF outside THEN "save" ELSE "get_stats")
  /\ isAnomaly' = [isAnomaly EXCEPT ![w] = outside]
  /\ UNCHANGED <<inBatch, todo, tally, outcome, inForce, ledger, thresholds, calls>>

GetThresholdFails(w) ==
  /\ PortRaises(w, "get_threshold")
  /\ UNCHANGED <<ledger, thresholds, calls>>

(* Step 3: the z-score of the value decides, when there is enough data and *)
(* the standard deviation is not 0.                                        *)
History(id) == {r \in Readings : SensorOf[r] = id /\ \E s \in Statuses : stored[r][s] > 0}
Samples(id) == Total([r \in Readings |-> stored[r]["valid"] + stored[r]["anomaly"]],
                     History(id))
Varies(id)  == \E r1, r2 \in History(id) : ValueOf[r1] # ValueOf[r2]

EnoughOffByOne(id) == Samples(id) >= MinSamples /\ Varies(id)  \* mutant: >= for >

Enough(id) == Samples(id) > MinSamples /\ Varies(id)

CheckStatistics(w) ==
  /\ Step(w, "get_stats", "save")
  /\ \E flag \in BOOLEAN :
       /\ flag => Enough(Sensor(w))
       /\ isAnomaly' = [isAnomaly EXCEPT ![w] = flag]
       /\ scored' = [scored EXCEPT ![Current(w)] = @ \/ flag]
  /\ UNCHANGED <<inBatch, todo, tally, outcome, inForce, stored, alerts, processed,
                 observed, invalid, losses, thresholds, calls>>

GetStatsFails(w) ==
  /\ PortRaises(w, "get_stats")
  /\ UNCHANGED <<ledger, thresholds, calls>>

(* Step 4: the marked copy is stored; it shares the metadata dict. *)
Store(w) == stored' = [stored EXCEPT ![Current(w)][Status(w)] = @ + 1]

SaveAlertsAlways(w) ==                          \* mutant: no "if is_anomaly"
  /\ Step(w, "save", "send_alert")
  /\ Store(w)
  /\ UNCHANGED <<inBatch, todo, isAnomaly, tally, outcome, inForce, alerts, processed,
                 observed, invalid, scored, losses, thresholds, calls>>

Save(w) ==
  /\ Step(w, "save", IF isAnomaly[w] THEN "send_alert" ELSE "increment_counter")
  /\ Store(w)
  /\ UNCHANGED <<inBatch, todo, isAnomaly, tally, outcome, inForce, alerts, processed,
                 observed, invalid, scored, losses, thresholds, calls>>

SaveFails(w) ==
  /\ PortRaises(w, "save")
  /\ UNCHANGED <<ledger, thresholds, calls>>

(* The database commits, and the answer is lost. *)
CommitUnacknowledged(w) ==
  /\ pc[w] = "save"
  /\ "commit" \in FaultyPorts
  /\ Store(w)
  /\ unacked' = [unacked EXCEPT ![Current(w)][Status(w)] = @ + 1]
  /\ Raise(w)
  /\ UNCHANGED <<alerts, processed, observed, invalid, scored, unsent, uncounted,
                 unobserved, thresholds, calls>>

(* Step 5: the alerter's answer, delivered or not, is ignored. *)
SendAlert(w) ==
  /\ Step(w, "send_alert", "increment_counter")
  /\ alerts' = [alerts EXCEPT ![Current(w)] = @ + 1]
  /\ UNCHANGED <<inBatch, todo, isAnomaly, tally, outcome, inForce, stored, processed,
                 observed, invalid, scored, losses, thresholds, calls>>

SendAlertFails(w) ==
  /\ PortRaises(w, "send_alert")
  /\ alerts' = [alerts EXCEPT ![Current(w)] = @ + 1]
  /\ unsent' = [unsent EXCEPT ![Current(w)] = @ + 1]
  /\ UNCHANGED <<stored, processed, observed, invalid, scored, unacked, uncounted,
                 unobserved, thresholds, calls>>

(* Step 6: the two metrics are two calls, each of which may raise with its *)
(* metric recorded or not; either way nothing of the reading follows.      *)
CountUnmarked(w) ==                             \* mutant: the status is that
  /\ Step(w, "increment_counter", "observe_histogram")  \* of the unmarked reading
  /\ processed' = [processed EXCEPT ![Sensor(w)]["valid"] = @ + 1]
  /\ UNCHANGED <<inBatch, todo, isAnomaly, tally, outcome, inForce, stored, alerts,
                 observed, invalid, scored, losses, thresholds, calls>>

Count(w) ==
  /\ Step(w, "increment_counter", "observe_histogram")
  /\ processed' = [processed EXCEPT ![Sensor(w)][Status(w)] = @ + 1]
  /\ UNCHANGED <<inBatch, todo, isAnomaly, tally, outcome, inForce, stored, alerts,
                 observed, invalid, scored, losses, thresholds, calls>>

CountFails(w) ==
  /\ PortRaises(w, "increment_counter")
  /\ \E counted \in {0, 1} :
       /\ processed' = [processed EXCEPT ![Sensor(w)][Status(w)] = @ + counted]
       /\ uncounted' = [uncounted EXCEPT ![Current(w)][Status(w)] = @ + 1 - counted]
       /\ unobserved' = [unobserved EXCEPT ![Sensor(w)] = @ + counted]
  /\ UNCHANGED <<stored, alerts, observed, invalid, scored, unacked, unsent,
                 thresholds, calls>>

ObserveAnomalies(w) ==                          \* mutant: only anomalies are
  /\ pc[w] = "observe_histogram"                \* observed
  /\ observed' = [observed EXCEPT ![Sensor(w)] = IF isAnomaly[w] THEN @ + 1 ELSE @]
  /\ Finish(w, Status(w))
  /\ UNCHANGED <<stored, alerts, processed, invalid, scored, losses, thresholds, calls>>

(* The observation, and the count of the batch. *)
Observe(w) ==
  /\ pc[w] = "observe_histogram"
  /\ observed' = [observed EXCEPT ![Sensor(w)] = @ + 1]
  /\ Finish(w, Status(w))
  /\ UNCHANGED <<stored, alerts, processed, invalid, scored, losses, thresholds, calls>>

ObserveFails(w) ==
  /\ PortRaises(w, "observe_histogram")
  /\ \E seen \in {0, 1} :
       /\ observed' = [observed EXCEPT ![Sensor(w)] = @ + seen]
       /\ unobserved' = [unobserved EXCEPT ![Sensor(w)] = @ + 1 - seen]
  /\ UNCHANGED <<stored, alerts, processed, invalid, scored, unacked, unsent,
                 uncounted, thresholds, calls>>

(* ThresholdRepository.save_threshold, by an operator, at any time. *)
SaveThreshold(id, range) ==
  /\ thresholds' = [thresholds EXCEPT ![id] = {range}]
  /\ inForce' = [w \in Workers |->
                   IF pc[w] # "idle" /\ Canonical[Sensor(w)] = id
                     THEN inForce[w] \union {{range}} ELSE inForce[w]]
  /\ UNCHANGED <<pc, inBatch, todo, isAnomaly, tally, outcome, ledger, calls>>
-----------------------------------------------------------------------------
Proceed(w) ==
  \/ Accept(w) \/ Refuse(w) \/ RefuseFails(w)
  \/ CheckThreshold(w) \/ GetThresholdFails(w)
  \/ CheckStatistics(w) \/ GetStatsFails(w)
  \/ Save(w) \/ SaveFails(w) \/ CommitUnacknowledged(w)
  \/ SendAlert(w) \/ SendAlertFails(w)
  \/ Count(w) \/ CountFails(w)
  \/ Observe(w) \/ ObserveFails(w)

Next ==
  \/ \E w \in Workers : ProcessReading(w) \/ ProcessBatch(w) \/ Proceed(w)
  \/ \E id \in WellFormed, range \in Ranges : SaveThreshold(id, range)

Spec == Init /\ [][Next]_vars
-----------------------------------------------------------------------------
(* The counts of a batch cover what it has done: total_processed is what   *)
(* was found valid, anomalous and invalid, and what is left.  A call that  *)
(* returned has nothing left.                                              *)
BatchAccounting ==
  \A w \in Workers : outcome[w] # "raised" =>
    /\ tally[w]["total"] = tally[w]["valid"] + tally[w]["anomaly"]
                             + tally[w]["invalid"] + Len(todo[w])
    /\ pc[w] = "idle" => todo[w] = <<>>

(* A reading stored as an anomaly has been alerted, or its worker is about *)
(* to, or the store took effect and then raised: no anomaly passes in      *)
(* silence otherwise, and there is no alert without a stored anomaly.      *)
Alerting(r) == {w \in Workers : pc[w] = "send_alert" /\ Current(w) = r}

AnomaliesAreAlerted ==
  \A r \in Readings :
    stored[r]["anomaly"] = alerts[r] + Cardinality(Alerting(r)) + unacked[r]["anomaly"]

(* The metrics agree with the store: what is stored for a sensor with a    *)
(* status and not in readings_processed_total is held by a worker between  *)
(* its save and the counter, or was cut short between the two by a commit, *)
(* an alerter or a counter that raised: no other reading is missing from   *)
(* the metrics, and none is counted that is not stored.                    *)
PastSave(id, s) ==
  {w \in Workers : pc[w] \in {"send_alert", "increment_counter"} /\ Sensor(w) = id /\ Status(w) = s}
StoredAs(s) == [r \in Readings |-> stored[r][s]]
CutShort(s) == [r \in Readings |-> unacked[r][s] + uncounted[r][s]
                                     + (IF s = "anomaly" THEN unsent[r] ELSE 0)]
ReadingsOf(id) == {r \in Readings : SensorOf[r] = id}

MetricsAgreeWithStore ==
  \A id \in Ids, s \in Statuses :
    Total(StoredAs(s), ReadingsOf(id))
      = processed[id][s] + Cardinality(PastSave(id, s))
          + Total(CutShort(s), ReadingsOf(id))

(* The histogram of a sensor follows its counters: each reading counted in *)
(* readings_processed_total, in either status, has been observed, is held  *)
(* by a worker between the two calls, or was cut short by an exception of  *)
(* one of them.                                                            *)
Observing(id) == {w \in Workers : pc[w] = "observe_histogram" /\ Sensor(w) = id}

HistogramFollowsCounter ==
  \A id \in Ids :
    processed[id]["valid"] + processed[id]["anomaly"]
      = observed[id] + Cardinality(Observing(id)) + unobserved[id]

(* Every verdict is explained by a range configured for the reading's      *)
(* validated id while the reading was processed, or by enough varied       *)
(* history: concurrent calls and reconfigurations never flag a reading     *)
(* while its sensor has little data, nor pass one that no configuration in *)
(* force let through.                                                      *)
VerdictExplained ==
  \A w \in Workers : pc[w] \in PortCalls \ {"get_threshold"} =>
    IF isAnomaly[w] /\ pc[w] # "get_stats"
      THEN \/ \E c \in inForce[w] : ~Within(ValueOf[Current(w)], c)
           \/ Samples(Sensor(w)) > MinSamples /\ Varies(Sensor(w))
      ELSE \E c \in inForce[w] : Within(ValueOf[Current(w)], c)

(* "One bad reading doesn't stop the batch."                               *)
BatchIsolatesFailures == \A w \in Workers : inBatch[w] => outcome[w] # "raised"

(* "immutable pattern": what is stored of a reading does not change when   *)
(* the caller's object is processed again.                                 *)
StoredReadingsImmutable ==
  [][\A r \in Readings :
       (\E s \in Statuses : stored[r][s] > 0) => scored'[r] = scored[r]]_vars
=============================================================================
