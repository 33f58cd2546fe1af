--------------------------- MODULE ServiceOutputs ---------------------------
(***************************************************************************)
(* Steps 5 and 6 of SensorService.process_reading with the adapters the    *)
(* package ships: the alert of a stored anomaly goes through               *)
(* CompositeAlertNotifier, the metrics into PrometheusMetrics, while a     *)
(* scraper dumps them.  The adapters are shared and take no lock;          *)
(* SensorService has them as atomic ports.                                 *)
(***************************************************************************)
EXTENDS CompositeAlerts, PrometheusMetrics

CONSTANTS
  Sensors,
  Scrapers,
  MaxReadings   \* bound of the model: the readings stored

ASSUME OutputsAssumption ==
  /\ IsFiniteSet(Workers) /\ IsFiniteSet(Sensors)
  /\ Workers \intersect Scrapers = {}
  /\ Threads = Workers \union Scrapers
  /\ Histograms = Sensors                          \* reading_value
  /\ Counters = Sensors \X {"valid", "anomaly"}    \* readings_processed_total
  /\ MaxReadings \in Nat
  /\ NoKey \notin Counters

VARIABLES
  pc,          \* pc[w]: what process_reading does next in worker w
  reading,     \* reading[w]: the sensor and status of the stored reading
  stored,      \* history: the readings stored
  interrupts   \* history: the calls ended by a BaseException

service == <<pc, reading, stored, interrupts>>
vars    == <<alertVars, metricsVars, service>>

TypeOK ==
  /\ AlertsTypeOK
  /\ MetricsTypeOK
  /\ pc \in [Workers -> {"idle", "alert", "alerting", "count", "counting", "observe",
                         "observing"}]
  /\ reading \in [Workers -> Counters \union {NoKey}]
  /\ \A w \in Workers : pc[w] = "idle" <=> reading[w] = NoKey
  /\ stored \in 0..MaxReadings
  /\ interrupts \in Nat

Init ==
  /\ AlertsInit
  /\ MetricsInit
  /\ pc = [w \in Workers |-> "idle"]
  /\ reading = [w \in Workers |-> NoKey]
  /\ stored = 0
  /\ interrupts = 0

-----------------------------------------------------------------------------
Move(w, from, to) ==
  /\ pc[w] = from
  /\ pc' = [pc EXCEPT ![w] = to]
  /\ reading' = IF to = "idle" THEN [reading EXCEPT ![w] = NoKey] ELSE reading
  /\ UNCHANGED <<stored, interrupts>>

(* Steps 1 to 4 are those of SensorService; the reading is stored. *)
Stored(w, sensor, status) ==
  /\ stored < MaxReadings
  /\ stored' = stored + 1
  /\ pc[w] = "idle"
  /\ pc' = [pc EXCEPT ![w] = IF status = "anomaly" THEN "alert" ELSE "count"]
  /\ reading' = [reading EXCEPT ![w] = <<sensor, status>>]
  /\ UNCHANGED <<interrupts, alertVars, metricsVars>>

Alert(w) == Move(w, "alert", "alerting") /\ SendAlert(w) /\ UNCHANGED metricsVars

NotifierAnswers(w) ==
  /\ \E ok \in BOOLEAN : Answers(w, ok)
  /\ UNCHANGED <<service, metricsVars>>

NotifierRaisesUncaught(w) ==                    \* mutant: no "except Exception"
  /\ Interrupted(w)
  /\ Move(w, "alerting", "idle")
  /\ UNCHANGED metricsVars

NotifierRaises(w) == Raises(w) /\ UNCHANGED <<service, metricsVars>>

Interrupt(w) ==
  /\ Interrupted(w)
  /\ pc' = [pc EXCEPT ![w] = "idle"]
  /\ reading' = [reading EXCEPT ![w] = NoKey]
  /\ interrupts' = interrupts + 1
  /\ UNCHANGED <<stored, metricsVars>>

(* The answer of send_alert is ignored. *)
Alerted(w) == Move(w, "alerting", "count") /\ Report(w) /\ UNCHANGED metricsVars

Count(w) ==
  Move(w, "count", "counting") /\ LoadCounter(w, reading[w]) /\ UNCHANGED alertVars

Counted(w) == Move(w, "counting", "observe") /\ StoreCounter(w) /\ UNCHANGED alertVars

Observe(w) ==
  Move(w, "observe", "observing") /\ TestHistogram(w, reading[w][1]) /\ UNCHANGED alertVars

Observing(w) == (CreateHistogram(w) \/ FetchHistogram(w)) /\ UNCHANGED <<service, alertVars>>

Observed(w) == Move(w, "observing", "idle") /\ AppendValue(w) /\ UNCHANGED alertVars

Proceed(w) ==
  \/ Alert(w) \/ NotifierAnswers(w) \/ NotifierRaises(w) \/ Interrupt(w) \/ Alerted(w)
  \/ Count(w) \/ Counted(w)
  \/ Observe(w) \/ Observing(w) \/ Observed(w)

Scrape(t) ==
  /\ \/ CopyCounters(t) \/ CopyGauges(t) \/ StartWalk(t) \/ WalkFails(t) \/ WalkNext(t)
     \/ ReturnDump(t)
  /\ UNCHANGED <<service, alertVars>>

Next ==
  \/ \E w \in Workers :
       \/ \E sensor \in Sensors, status \in {"valid", "anomaly"} : Stored(w, sensor, status)
       \/ Proceed(w)
  \/ \E t \in Scrapers : Scrape(t)

Spec == Init /\ [][Next]_vars
-----------------------------------------------------------------------------
(* Every stored reading is counted, unless its worker is not there yet or  *)
(* an interrupt ended its call: notifiers that fail keep none from being   *)
(* counted.                                                                *)
Uncounted == {w \in Workers : pc[w] \in {"alert", "alerting", "count", "counting"}}

StoredIsCounted ==
  stored = Total(incremented, Counters) + Cardinality(Uncounted) + interrupts

(* An anomaly is counted only after every notifier was asked to send its   *)
(* alert, whatever the others did.                                         *)
CountedReachedEveryNotifier ==
  \A n \in Notifiers : Total(incremented, Sensors \X {"anomaly"}) <= asked[n]

(* In a complete dump the counters of a sensor are ahead of its histogram  *)
(* by no more than the workers: although the dump is taken piece by piece, *)
(* it never shows readings counted that will not be observed.              *)
DumpsAgree ==
  \A t \in Scrapers : \A n \in DOMAIN dump[t].lengths :
    step[t] = "return" /\ births[n] \notin rebuilt =>
      Total(dump[t].counters, {births[n]} \X {"valid", "anomaly"})
        <= dump[t].lengths[n] + Cardinality(Workers)
=============================================================================
