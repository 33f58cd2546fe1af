------------------------ MODULE ServiceOutputsProofs ------------------------
(***************************************************************************)
(* What ServiceOutputs guarantees for any number of workers, scrapers,     *)
(* sensors and notifiers.                                                  *)
(***************************************************************************)
EXTENDS ServiceOutputs, SumsProofs, SequenceTheorems, TLAPS

(* What a step may do to the metrics and to the alerts.  The invariants of *)
(* an adapter hold whoever calls it, so they are proved of these steps.    *)
MetricsCall(t) ==
  \/ \E k \in Counters : LoadCounter(t, k)
  \/ StoreCounter(t)
  \/ \E h \in Histograms : TestHistogram(t, h)
  \/ CreateHistogram(t) \/ FetchHistogram(t) \/ AppendValue(t)
  \/ CopyCounters(t) \/ CopyGauges(t) \/ StartWalk(t)
  \/ WalkFails(t) \/ WalkNext(t) \/ ReturnDump(t)

MetricsStep == (\E t \in Threads : MetricsCall(t)) \/ UNCHANGED metricsVars

AlertsCall(w) ==
  \/ SendAlert(w) \/ Report(w) \/ Raises(w) \/ Interrupted(w)
  \/ \E ok \in BOOLEAN : Answers(w, ok)

AlertsStep == (\E w \in Workers : AlertsCall(w)) \/ UNCHANGED alertVars

(* The counters of the service are keyed by a sensor and a status, and it  *)
(* is in the middle of a call that a thread has a key.                     *)
KeysHeld ==
  \A t \in Threads :
    /\ step[t] = "store" => key[t] \in Counters
    /\ step[t] \in {"create", "fetch", "append"} => key[t] \in Histograms
-----------------------------------------------------------------------------
LEMMA ReadingOfACall ==
  ASSUME TypeOK, NEW w \in Workers, pc[w] # "idle"
  PROVE  /\ reading[w] \in Counters
         /\ reading[w][1] \in Histograms
<1>1. reading[w] \in Counters
  BY DEF TypeOK
<1>2. QED
  BY <1>1, OutputsAssumption

LEMMA StepsOfTheAdapters ==
  ASSUME TypeOK, [Next]_vars
  PROVE  MetricsStep /\ AlertsStep
<1>1. ASSUME NEW w \in Workers, NEW s \in Sensors, NEW status \in {"valid", "anomaly"},
             Stored(w, s, status)
      PROVE  MetricsStep /\ AlertsStep
  BY <1>1 DEF Stored, MetricsStep, AlertsStep
<1>2. ASSUME NEW w \in Workers, Proceed(w) PROVE MetricsStep /\ AlertsStep
  <2>1. w \in Threads
    BY OutputsAssumption
  <2>2. CASE Alert(w) \/ NotifierAnswers(w) \/ NotifierRaises(w) \/ Interrupt(w) \/ Alerted(w)
    <3>1. MetricsStep
      BY <2>2 DEF Alert, NotifierAnswers, NotifierRaises, Interrupt, Alerted, MetricsStep
    <3>2. AlertsCall(w)
      BY <2>2 DEF Alert, NotifierAnswers, NotifierRaises, Interrupt, Alerted, AlertsCall
    <3>3. QED
      BY <3>1, <3>2 DEF AlertsStep
  <2>3. CASE Count(w) \/ Counted(w) \/ Observe(w) \/ Observing(w) \/ Observed(w)
    <3>1. AlertsStep
      BY <2>3 DEF Count, Counted, Observe, Observing, Observed, AlertsStep
    <3>2. CASE Count(w)
      <4>1. pc[w] = "count"
        BY <3>2 DEF Count, Move
      <4>2. reading[w] \in Counters /\ LoadCounter(w, reading[w])
        BY <3>2, <4>1, ReadingOfACall DEF Count
      <4>3. QED
        BY <2>1, <3>1, <4>2 DEF MetricsStep, MetricsCall
    <3>3. CASE Observe(w)
      <4>1. pc[w] = "observe"
        BY <3>3 DEF Observe, Move
      <4>2. reading[w][1] \in Histograms /\ TestHistogram(w, reading[w][1])
        BY <3>3, <4>1, ReadingOfACall DEF Observe
      <4>3. QED
        BY <2>1, <3>1, <4>2 DEF MetricsStep, MetricsCall
    <3>4. CASE Counted(w) \/ Observing(w) \/ Observed(w)
      BY <2>1, <3>1, <3>4 DEF Counted, Observing, Observed, MetricsStep, MetricsCall
    <3>5. QED
      BY <2>3, <3>2, <3>3, <3>4
  <2>4. QED
    BY <1>2, <2>2, <2>3 DEF Proceed
<1>3. ASSUME NEW t \in Scrapers, Scrape(t) PROVE MetricsStep /\ AlertsStep
  <2>1. t \in Threads
    BY OutputsAssumption
  <2>2. QED
    BY <1>3, <2>1 DEF Scrape, MetricsStep, MetricsCall, AlertsStep
<1>4. CASE UNCHANGED vars
  BY <1>4 DEF vars, MetricsStep, AlertsStep
<1>5. QED
  BY <1>1, <1>2, <1>3, <1>4 DEF Next
-----------------------------------------------------------------------------
LEMMA AlertsType ==
  ASSUME AlertsTypeOK, AlertsStep
  PROVE  AlertsTypeOK'
<1> USE AlertsAssumption DEF AlertsTypeOK, Notifiers
<1>1. ASSUME NEW w \in Workers, SendAlert(w) PROVE AlertsTypeOK'
  BY <1>1 DEF SendAlert
<1>2. ASSUME NEW w \in Workers, Report(w) PROVE AlertsTypeOK'
  BY <1>2 DEF Report, Leave
<1>3. ASSUME NEW w \in Workers, Raises(w) PROVE AlertsTypeOK'
  BY <1>3 DEF Raises, Ask, Deliver
<1>4. ASSUME NEW w \in Workers, Interrupted(w) PROVE AlertsTypeOK'
  BY <1>4 DEF Interrupted, Ask, Leave
<1>5. ASSUME NEW w \in Workers, NEW ok \in BOOLEAN, Answers(w, ok) PROVE AlertsTypeOK'
  <2>1. acked' \in [Workers -> BOOLEAN]
    BY <1>5 DEF Answers
  <2>2. QED
    BY <1>5, <2>1 DEF Answers, Ask, Deliver
<1>6. CASE UNCHANGED alertVars
  BY <1>6 DEF alertVars
<1>7. QED
  BY <1>1, <1>2, <1>3, <1>4, <1>5, <1>6 DEF AlertsStep, AlertsCall

LEMMA KeysStep ==
  ASSUME MetricsTypeOK, KeysHeld, MetricsStep
  PROVE  KeysHeld'
<1> USE DEF MetricsTypeOK, KeysHeld, Go, Forget
<1>1. ASSUME NEW t \in Threads, MetricsCall(t) PROVE KeysHeld'
  <2>1. ASSUME NEW k \in Counters, LoadCounter(t, k) PROVE KeysHeld'
    BY <2>1 DEF LoadCounter
  <2>2. ASSUME NEW h \in Histograms, TestHistogram(t, h) PROVE KeysHeld'
    BY <2>2 DEF TestHistogram
  <2>3. CASE StoreCounter(t) \/ AppendValue(t)
    BY <2>3 DEF StoreCounter, AppendValue
  <2>4. CASE CreateHistogram(t) \/ FetchHistogram(t)
    BY <2>4 DEF CreateHistogram, FetchHistogram
  <2>5. CASE CopyCounters(t) \/ CopyGauges(t) \/ StartWalk(t)
    BY <2>5 DEF CopyCounters, CopyGauges, StartWalk
  <2>6. CASE WalkFails(t) \/ WalkNext(t) \/ ReturnDump(t)
    BY <2>6 DEF WalkFails, WalkNext, ReturnDump
  <2>7. QED
    BY <1>1, <2>1, <2>2, <2>3, <2>4, <2>5, <2>6 DEF MetricsCall
<1>2. CASE UNCHANGED metricsVars
  BY <1>2 DEF metricsVars
<1>3. QED
  BY <1>1, <1>2 DEF MetricsStep
-----------------------------------------------------------------------------
(* The keys of _histograms and the lists made for them belong together.    *)
HistogramsTypeOK ==
  /\ births \in Seq(Histograms) /\ IsInjective(births)
  /\ lists \in [Histograms -> Seq(Nat)]
  /\ \A h \in Histograms : lists[h] # <<>> <=> h \in ToSet(births)

LEMMA CreationType ==
  ASSUME MetricsTypeOK, KeysHeld, NEW t \in Threads, CreateHistogram(t)
  PROVE  HistogramsTypeOK'
<1> DEFINE h == key[t]
<1>1. h \in Histograms
  BY DEF KeysHeld, CreateHistogram, Go
<1>2. /\ lists' \in [Histograms -> Seq(Nat)]
      /\ lists'[h] # <<>>
      /\ \A g \in Histograms : g # h => lists'[g] = lists[g]
  <2>1. lists[h] \in Seq(Nat) /\ lists' = [lists EXCEPT ![h] = Append(lists[h], 0)]
    BY <1>1 DEF CreateHistogram, MetricsTypeOK
  <2>2. Append(lists[h], 0) \in Seq(Nat) /\ Append(lists[h], 0) # <<>>
    BY <2>1
  <2>3. QED
    BY <1>1, <2>1, <2>2 DEF MetricsTypeOK
<1>3. CASE lists[h] = <<>>
  <2>1. births' = Append(births, h) /\ h \notin ToSet(births)
    BY <1>1, <1>3 DEF CreateHistogram, MetricsTypeOK
  <2>2. /\ births \in Seq(Histograms)
        /\ births' \in Seq(Histograms)
        /\ Len(births') = Len(births) + 1
        /\ DOMAIN births' = 1..(Len(births) + 1)
        /\ \A i \in 1..Len(births) : births'[i] = births[i]
        /\ births'[Len(births) + 1] = h
    BY <1>1, <2>1 DEF MetricsTypeOK
  <2>3. IsInjective(births')
    BY <2>1, <2>2 DEF MetricsTypeOK, IsInjective, ToSet
  <2>4. ToSet(births') = ToSet(births) \union {h}
    BY <2>1, <2>2 DEF ToSet
  <2>5. QED
    BY <1>2, <2>2, <2>3, <2>4 DEF HistogramsTypeOK, MetricsTypeOK
<1>4. CASE lists[h] # <<>>
  <2>1. UNCHANGED births
    BY <1>4 DEF CreateHistogram
  <2>2. h \in ToSet(births)
    BY <1>1, <1>4 DEF MetricsTypeOK
  <2>3. QED
    BY <1>2, <2>1, <2>2 DEF HistogramsTypeOK, MetricsTypeOK
<1>5. QED
  BY <1>3, <1>4

LEMMA AppendType ==
  ASSUME MetricsTypeOK, KeysHeld, NEW t \in Threads, AppendValue(t)
  PROVE  HistogramsTypeOK'
<1> DEFINE h == key[t]
<1>1. h \in Histograms /\ lists[h] \in Seq(Nat) /\ loaded[t] \in Nat
  BY DEF KeysHeld, AppendValue, Go, MetricsTypeOK
<1>2. lists' = [lists EXCEPT ![h] = [lists[h] EXCEPT ![loaded[t]] = lists[h][loaded[t]] + 1]]
  BY DEF AppendValue
<1>3. [lists[h] EXCEPT ![loaded[t]] = lists[h][loaded[t]] + 1] \in Seq(Nat)
  <2>1. CASE loaded[t] \in 1..Len(lists[h])
    <3>1. lists[h][loaded[t]] + 1 \in Nat
      BY <1>1, <2>1
    <3>2. QED
      BY <1>1, <2>1, <3>1, ExceptSeq
  <2>2. CASE loaded[t] \notin 1..Len(lists[h])
    <3>1. [lists[h] EXCEPT ![loaded[t]] = lists[h][loaded[t]] + 1] = lists[h]
      BY <1>1, <2>2
    <3>2. QED
      BY <1>1, <3>1
  <2>3. QED
    BY <2>1, <2>2
<1>4. [lists[h] EXCEPT ![loaded[t]] = lists[h][loaded[t]] + 1] = <<>> <=> lists[h] = <<>>
  <2>1. DOMAIN [lists[h] EXCEPT ![loaded[t]] = lists[h][loaded[t]] + 1] = DOMAIN lists[h]
    OBVIOUS
  <2>2. Len([lists[h] EXCEPT ![loaded[t]] = lists[h][loaded[t]] + 1]) = Len(lists[h])
    BY <1>1, <1>3, <2>1
  <2>3. QED
    BY <1>1, <1>3, <2>2
<1>5. QED
  BY <1>1, <1>2, <1>3, <1>4 DEF HistogramsTypeOK, MetricsTypeOK, AppendValue

(* A dump that walks on finds a list for each of the keys. *)
LEMMA WalkType ==
  ASSUME MetricsTypeOK, NEW t \in Threads, WalkNext(t)
  PROVE  dump' \in [Threads -> [counters : [Counters -> Nat], lengths : Seq(Nat)]]
<1> DEFINE n == Len(dump[t].lengths) + 1
<1>1. CASE n <= size[t]
  <2>1. n \in DOMAIN births
    BY <1>1 DEF MetricsTypeOK, WalkNext
  <2>2. births[n] \in Histograms /\ lists[births[n]] # <<>>
    BY <2>1 DEF MetricsTypeOK, ToSet
  <2>3. lists[births[n]] \in Seq(Nat)
    BY <2>2 DEF MetricsTypeOK
  <2>4. Last(lists[births[n]]) \in Nat
    BY <2>2, <2>3 DEF Last
  <2>5. dump[t] \in [counters : [Counters -> Nat], lengths : Seq(Nat)]
    BY DEF MetricsTypeOK
  <2>6. [counters |-> dump[t].counters,
         lengths  |-> Append(dump[t].lengths, Last(lists[births[n]]))]
          \in [counters : [Counters -> Nat], lengths : Seq(Nat)]
    BY <2>4, <2>5
  <2>7. dump' = [dump EXCEPT ![t] =
                  [counters |-> dump[t].counters,
                   lengths  |-> Append(dump[t].lengths, Last(lists[births[n]]))]]
    BY <1>1 DEF WalkNext
  <2>8. QED
    BY <2>6, <2>7 DEF MetricsTypeOK
<1>2. CASE ~(n <= size[t])
  <2>1. UNCHANGED dump
    BY <1>2 DEF WalkNext
  <2>2. QED
    BY <2>1 DEF MetricsTypeOK
<1>3. QED
  BY <1>1, <1>2

LEMMA MetricsType ==
  ASSUME MetricsTypeOK, KeysHeld, MetricsStep
  PROVE  MetricsTypeOK'
<1> USE DEF MetricsTypeOK, KeysHeld, Go, Walking
<1>1. ASSUME NEW t \in Threads, MetricsCall(t) PROVE MetricsTypeOK'
  <2>1. ASSUME NEW k \in Counters, LoadCounter(t, k) PROVE MetricsTypeOK'
    BY <2>1 DEF LoadCounter
  <2>2. ASSUME NEW h \in Histograms, TestHistogram(t, h) PROVE MetricsTypeOK'
    BY <2>2 DEF TestHistogram
  <2>3. CASE StoreCounter(t)
    BY <2>3 DEF StoreCounter, Forget
  <2>4. CASE AppendValue(t)
    <3>1. HistogramsTypeOK'
      BY <2>4, AppendType
    <3>2. QED
      BY <2>4, <3>1 DEF AppendValue, Forget, HistogramsTypeOK
  <2>5. CASE CreateHistogram(t)
    <3>1. HistogramsTypeOK'
      BY <2>5, CreationType
    <3>2. rebuilt' \subseteq Histograms
      BY <2>5 DEF CreateHistogram
    <3>3. QED
      BY <2>5, <3>1, <3>2 DEF CreateHistogram, HistogramsTypeOK
  <2>6. CASE FetchHistogram(t)
    BY <2>6 DEF FetchHistogram
  <2>7. CASE CopyCounters(t)
    BY <2>7 DEF CopyCounters
  <2>8. CASE CopyGauges(t) \/ StartWalk(t)
    <3>1. Len(births) \in Nat
      OBVIOUS
    <3>2. size' \in [Threads -> Nat]
      BY <2>8, <3>1 DEF CopyGauges, StartWalk
    <3>3. QED
      BY <2>8, <3>2 DEF CopyGauges, StartWalk
  <2>9. CASE WalkNext(t)
    <3>1. dump' \in [Threads -> [counters : [Counters -> Nat], lengths : Seq(Nat)]]
      BY <2>9, WalkType
    <3>2. QED
      BY <2>9, <3>1 DEF WalkNext
  <2>10. CASE WalkFails(t) \/ ReturnDump(t)
    <3>1. dump' \in [Threads -> [counters : [Counters -> Nat], lengths : Seq(Nat)]]
      <4>1. NoDump \in [counters : [Counters -> Nat], lengths : Seq(Nat)]
        BY DEF NoDump
      <4>2. dump' = [dump EXCEPT ![t] = NoDump]
        BY <2>10 DEF WalkFails, ReturnDump, DropDump
      <4>3. QED
        BY <4>1, <4>2
    <3>2. size' \in [Threads -> Nat] /\ failures' \in [Threads -> Nat]
      BY <2>10 DEF WalkFails, ReturnDump, DropDump
    <3>3. QED
      BY <2>10, <3>1, <3>2 DEF WalkFails, ReturnDump
  <2>11. QED
    BY <1>1, <2>1, <2>2, <2>3, <2>4, <2>5, <2>6, <2>7, <2>8, <2>9, <2>10 DEF MetricsCall
<1>2. CASE UNCHANGED metricsVars
  BY <1>2 DEF metricsVars
<1>3. QED
  BY <1>1, <1>2 DEF MetricsStep
-----------------------------------------------------------------------------
LEMMA InitialTypes == Init => TypeOK /\ KeysHeld
<1> SUFFICES ASSUME Init PROVE TypeOK /\ KeysHeld
  OBVIOUS
<1>1. AlertsTypeOK
  BY AlertsAssumption DEF Init, AlertsInit, AlertsTypeOK, Notifiers
<1>2. MetricsTypeOK
  <2>1. NoDump \in [counters : [Counters -> Nat], lengths : Seq(Nat)]
    BY DEF NoDump
  <2>2. /\ births \in Seq(Histograms) /\ IsInjective(births) /\ ToSet(births) = {}
        /\ lists \in [Histograms -> Seq(Nat)]
        /\ \A h \in Histograms : lists[h] = <<>>
    BY DEF Init, MetricsInit, IsInjective, ToSet
  <2>3. QED
    BY <2>1, <2>2 DEF Init, MetricsInit, MetricsTypeOK, Walking
<1>3. KeysHeld
  BY DEF Init, MetricsInit, KeysHeld
<1>4. QED
  BY <1>1, <1>2, <1>3, OutputsAssumption DEF Init, TypeOK

LEMMA ServiceType ==
  ASSUME TypeOK, [Next]_vars
  PROVE  /\ pc' \in [Workers -> {"idle", "alert", "alerting", "count", "counting",
                                 "observe", "observing"}]
         /\ reading' \in [Workers -> Counters \union {NoKey}]
         /\ \A w \in Workers : pc'[w] = "idle" <=> reading'[w] = NoKey
         /\ stored' \in 0..MaxReadings
         /\ interrupts' \in Nat
<1> USE OutputsAssumption DEF TypeOK, service
<1> DEFINE Goal ==
      /\ pc' \in [Workers -> {"idle", "alert", "alerting", "count", "counting",
                              "observe", "observing"}]
      /\ reading' \in [Workers -> Counters \union {NoKey}]
      /\ \A w \in Workers : pc'[w] = "idle" <=> reading'[w] = NoKey
      /\ stored' \in 0..MaxReadings
      /\ interrupts' \in Nat
<1>1. ASSUME NEW w \in Workers, NEW s \in Sensors, NEW status \in {"valid", "anomaly"},
             Stored(w, s, status)
      PROVE  Goal
  <2>1. <<s, status>> \in Counters /\ <<s, status>> # NoKey
    OBVIOUS
  <2>2. QED
    BY <1>1, <2>1 DEF Stored
<1>2. ASSUME NEW w \in Workers, Proceed(w) PROVE Goal
  <2>1. ASSUME NEW from \in {"alert", "alerting", "count", "counting", "observe", "observing"},
               NEW to \in {"idle", "alerting", "count", "counting", "observe", "observing"},
               Move(w, from, to)
        PROVE  Goal
    BY <2>1 DEF Move
  <2>2. CASE Alert(w) \/ Alerted(w) \/ Count(w) \/ Counted(w) \/ Observe(w) \/ Observed(w)
    BY <2>1, <2>2 DEF Alert, Alerted, Count, Counted, Observe, Observed
  <2>3. CASE Interrupt(w)
    BY <2>3 DEF Interrupt
  <2>4. CASE NotifierAnswers(w) \/ NotifierRaises(w) \/ Observing(w)
    BY <2>4 DEF NotifierAnswers, NotifierRaises, Observing
  <2>5. QED
    BY <1>2, <2>2, <2>3, <2>4 DEF Proceed
<1>3. ASSUME NEW t \in Scrapers, Scrape(t) PROVE Goal
  BY <1>3 DEF Scrape
<1>4. CASE UNCHANGED vars
  BY <1>4 DEF vars
<1>5. QED
  BY <1>1, <1>2, <1>3, <1>4 DEF Next

LEMMA TypesStep ==
  ASSUME TypeOK, KeysHeld, [Next]_vars
  PROVE  TypeOK' /\ KeysHeld'
<1>1. MetricsStep /\ AlertsStep
  BY StepsOfTheAdapters
<1>2. AlertsTypeOK' /\ MetricsTypeOK' /\ KeysHeld'
  BY <1>1, AlertsType, MetricsType, KeysStep DEF TypeOK
<1>3. QED
  BY <1>2, ServiceType DEF TypeOK

LEMMA Types == Spec => [](TypeOK /\ KeysHeld)
<1>1. TypeOK /\ KeysHeld /\ [Next]_vars => (TypeOK /\ KeysHeld)'
  BY TypesStep
<1>2. QED
  BY <1>1, InitialTypes, PTL DEF Spec

(* The state of the service, the alerts and the metrics keeps its types;   *)
(* a key is inserted into _histograms once.                                *)
THEOREM TypeCorrect == Spec => []TypeOK
BY Types, PTL
-----------------------------------------------------------------------------
(* What a thread has loaded of a counter is its value until another thread *)
(* works on the same counter, and never more than was counted.             *)
LoadsAreFresh ==
  \A t \in Threads : step[t] = "store" =>
    /\ loaded[t] <= incremented[key[t]]
    /\ key[t] \notin raced => loaded[t] = counters[key[t]]
    /\ \A u \in Threads : u # t /\ step[u] = "store" /\ key[u] = key[t] => key[t] \in raced

CountersInv == LoadsAreFresh /\ CountersExact

LEMMA CountersStep ==
  ASSUME MetricsTypeOK, KeysHeld, CountersInv, MetricsStep
  PROVE  CountersInv'
<1> USE DEF MetricsTypeOK, KeysHeld, CountersInv, LoadsAreFresh, CountersExact, Go
<1>1. ASSUME NEW t \in Threads, MetricsCall(t) PROVE CountersInv'
  <2>1. ASSUME NEW k \in Counters, LoadCounter(t, k) PROVE CountersInv'
    <3>1. CountersExact'
      BY <2>1 DEF LoadCounter
    <3>2. \A u \in Threads : u # t /\ step[u] = "store" /\ key[u] = k => k \in raced'
      BY <2>1 DEF LoadCounter, Incrementing
    <3>3. raced \subseteq raced'
      BY <2>1 DEF LoadCounter
    <3>4. LoadsAreFresh'
      BY <2>1, <3>2, <3>3 DEF LoadCounter
    <3>5. QED
      BY <3>1, <3>4
  <2>2. CASE StoreCounter(t)
    <3> DEFINE k == key[t]
    <3>1. /\ k \in Counters
          /\ loaded[t] \in Nat /\ loaded[t] <= incremented[k]
          /\ k \notin raced => loaded[t] = counters[k]
          /\ counters' = [counters EXCEPT ![k] = loaded[t] + 1]
          /\ incremented' = [incremented EXCEPT ![k] = incremented[k] + 1]
          /\ UNCHANGED raced
      BY <2>2 DEF StoreCounter
    <3>2. CountersExact'
      BY <3>1
    <3>3. LoadsAreFresh'
      BY <2>2, <3>1 DEF StoreCounter, Forget
    <3>4. QED
      BY <3>2, <3>3
  <2>3. ASSUME NEW h \in Histograms, TestHistogram(t, h) PROVE CountersInv'
    BY <2>3 DEF TestHistogram
  <2>4. CASE CreateHistogram(t) \/ FetchHistogram(t)
    BY <2>4 DEF CreateHistogram, FetchHistogram
  <2>5. CASE AppendValue(t)
    BY <2>5 DEF AppendValue, Forget
  <2>6. CASE CopyCounters(t) \/ CopyGauges(t) \/ StartWalk(t)
    BY <2>6 DEF CopyCounters, CopyGauges, StartWalk
  <2>7. CASE WalkFails(t) \/ WalkNext(t) \/ ReturnDump(t)
    BY <2>7 DEF WalkFails, WalkNext, ReturnDump
  <2>8. QED
    BY <1>1, <2>1, <2>2, <2>3, <2>4, <2>5, <2>6, <2>7 DEF MetricsCall
<1>2. CASE UNCHANGED metricsVars
  BY <1>2 DEF metricsVars
<1>3. QED
  BY <1>1, <1>2 DEF MetricsStep

(* No counter shows more than was counted, and one that two workers never  *)
(* incremented at once shows exactly that.                                 *)
THEOREM CountersAlwaysExact == Spec => []CountersExact
<1>1. Init => CountersInv
  BY DEF Init, MetricsInit, CountersInv, LoadsAreFresh, CountersExact
<1>2. TypeOK /\ KeysHeld /\ CountersInv /\ [Next]_vars => CountersInv'
  BY StepsOfTheAdapters, CountersStep DEF TypeOK
<1>3. CountersInv => CountersExact
  BY DEF CountersInv
<1>4. QED
  BY <1>1, <1>2, <1>3, Types, PTL DEF Spec
-----------------------------------------------------------------------------
(* A walk over the histograms began after every failure of its thread, and *)
(* keys are only ever added.                                               *)
WalksAreBehind ==
  \A t \in Threads : step[t] = "walk" => failures[t] <= size[t] /\ size[t] <= Len(births)

WalksInv == WalksAreBehind /\ FailuresAreBirths

LEMMA BirthsGrow ==
  ASSUME MetricsTypeOK, KeysHeld, NEW t \in Threads, CreateHistogram(t)
  PROVE  Len(births') \in Nat /\ Len(births') >= Len(births)
<1>1. births \in Seq(Histograms) /\ key[t] \in Histograms
  BY DEF MetricsTypeOK, KeysHeld, CreateHistogram, Go
<1>2. births' = births \/ births' = Append(births, key[t])
  BY DEF CreateHistogram
<1>3. QED
  BY <1>1, <1>2

LEMMA WalksStep ==
  ASSUME MetricsTypeOK, KeysHeld, WalksInv, MetricsStep
  PROVE  WalksInv'
<1>1. /\ Len(births) \in Nat
      /\ step \in [Threads -> {"none", "store", "create", "fetch", "append"} \union Walking]
      /\ size \in [Threads -> Nat] /\ failures \in [Threads -> Nat]
  BY DEF MetricsTypeOK
<1> USE <1>1 DEF WalksInv, WalksAreBehind, FailuresAreBirths, Go, Walking
<1>2. ASSUME NEW t \in Threads, MetricsCall(t) PROVE WalksInv'
  <2>1. ASSUME NEW k \in Counters, LoadCounter(t, k) PROVE WalksInv'
    BY <2>1 DEF LoadCounter
  <2>2. ASSUME NEW h \in Histograms, TestHistogram(t, h) PROVE WalksInv'
    BY <2>2 DEF TestHistogram
  <2>3. CASE CreateHistogram(t)
    BY <2>3, BirthsGrow DEF CreateHistogram
  <2>4. CASE StoreCounter(t) \/ FetchHistogram(t) \/ AppendValue(t)
    BY <2>4 DEF StoreCounter, FetchHistogram, AppendValue
  <2>5. CASE CopyCounters(t) \/ CopyGauges(t)
    BY <2>5 DEF CopyCounters, CopyGauges
  <2>6. CASE StartWalk(t)
    BY <2>6 DEF StartWalk
  <2>7. CASE WalkFails(t)
    BY <2>7 DEF WalkFails, DropDump
  <2>8. CASE WalkNext(t) \/ ReturnDump(t)
    BY <2>8 DEF WalkNext, ReturnDump, DropDump
  <2>9. QED
    BY <1>2, <2>1, <2>2, <2>3, <2>4, <2>5, <2>6, <2>7, <2>8 DEF MetricsCall
<1>3. CASE UNCHANGED metricsVars
  BY <1>3 DEF metricsVars
<1>4. QED
  BY <1>2, <1>3 DEF MetricsStep

(* However workers insert histograms under its dumps, a scraper fails at   *)
(* most once for each of them.                                             *)
THEOREM FailuresAlwaysBirths == Spec => []FailuresAreBirths
<1>1. Init => WalksInv
  BY DEF Init, MetricsInit, WalksInv, WalksAreBehind, FailuresAreBirths
<1>2. TypeOK /\ KeysHeld /\ WalksInv /\ [Next]_vars => WalksInv'
  BY StepsOfTheAdapters, WalksStep DEF TypeOK
<1>3. WalksInv => FailuresAreBirths
  BY DEF WalksInv
<1>4. QED
  BY <1>1, <1>2, <1>3, Types, PTL DEF Spec
-----------------------------------------------------------------------------
(* Within a call only notifiers already asked have delivered or raised,    *)
(* and the results so far are those of the ones that did not raise.        *)
ResultsSoFar ==
  \A w \in Workers :
    /\ \A n \in delivered[w] \union failed[w] : n < next[w]
    /\ IF acked[w] THEN delivered[w] \ failed[w] # {} ELSE delivered[w] \subseteq failed[w]

LEMMA ResultsStep ==
  ASSUME AlertsTypeOK, ResultsSoFar, AlertsStep
  PROVE  ResultsSoFar'
<1> USE AlertsAssumption DEF AlertsTypeOK, ResultsSoFar, Notifiers
<1>1. ASSUME NEW w \in Workers, SendAlert(w) PROVE ResultsSoFar'
  BY <1>1 DEF SendAlert
<1>2. ASSUME NEW w \in Workers, Report(w) \/ Interrupted(w) PROVE ResultsSoFar'
  BY <1>2 DEF Report, Interrupted, Leave
<1>3. ASSUME NEW w \in Workers, Raises(w) PROVE ResultsSoFar'
  BY <1>3 DEF Raises, Ask, Deliver
<1>4. ASSUME NEW w \in Workers, Answers(w, TRUE) PROVE ResultsSoFar'
  <2>1. /\ next[w] \in Notifiers
        /\ next' = [next EXCEPT ![w] = next[w] + 1]
        /\ delivered' = [delivered EXCEPT ![w] = delivered[w] \union {next[w]}]
        /\ UNCHANGED failed
    BY <1>4 DEF Answers, Ask, Deliver
  <2>2. acked' = [acked EXCEPT ![w] = TRUE]
    BY <1>4 DEF Answers
  <2>3. next[w] \notin failed[w]
    BY <2>1
  <2>4. next[w] \in delivered'[w] \ failed'[w]
    BY <2>1, <2>3
  <2>5. ASSUME NEW v \in Workers, v # w
        PROVE  next'[v] = next[v] /\ delivered'[v] = delivered[v] /\ acked'[v] = acked[v]
    BY <2>1, <2>2, <2>5
  <2>6. \A n \in delivered'[w] \union failed'[w] : n < next'[w]
    BY <2>1
  <2>7. acked'[w]
    BY <2>2
  <2>8. QED
    BY <2>1, <2>4, <2>5, <2>6, <2>7
<1>5. ASSUME NEW w \in Workers, Answers(w, FALSE) PROVE ResultsSoFar'
  BY <1>5 DEF Answers, Ask, Deliver
<1>6. CASE UNCHANGED alertVars
  BY <1>6 DEF alertVars
<1>7. ASSUME NEW w \in Workers, NEW ok \in BOOLEAN, Answers(w, ok) PROVE ResultsSoFar'
  <2>1. CASE ok
    BY <1>4, <1>7, <2>1
  <2>2. CASE ~ok
    BY <1>5, <1>7, <2>2
  <2>3. QED
    BY <2>1, <2>2
<1>8. QED
  BY <1>1, <1>2, <1>3, <1>6, <1>7 DEF AlertsStep, AlertsCall

(* send_alert reports an alert delivered only if some notifier says so,    *)
(* and undelivered only if at most notifiers that raised delivered it.     *)
THEOREM ReportsAlwaysHonest == Spec => []ReportsAreHonest
<1>1. Init => ResultsSoFar
  BY DEF Init, AlertsInit, ResultsSoFar
<1>2. TypeOK /\ ResultsSoFar /\ [Next]_vars => ResultsSoFar'
  BY StepsOfTheAdapters, ResultsStep DEF TypeOK
<1>3. ResultsSoFar => ReportsAreHonest
  BY DEF ResultsSoFar, ReportsAreHonest
<1>4. QED
  BY <1>1, <1>2, <1>3, TypeCorrect, PTL DEF Spec
-----------------------------------------------------------------------------
(* A thread that fetches finds a list, one that appends has fetched one of *)
(* its histogram's lists, and there is only one list for a histogram that  *)
(* was created once.                                                       *)
ListsHeld ==
  /\ \A t \in Threads :
       /\ step[t] = "fetch" => lists[key[t]] # <<>>
       /\ step[t] = "append" => loaded[t] \in DOMAIN lists[key[t]]
  /\ \A h \in Histograms : h \notin rebuilt => Len(lists[h]) <= 1

AllObserved == \A h \in Histograms : Total(lists[h], DOMAIN lists[h]) = observed[h]

ListsInv == ListsHeld /\ AllObserved

(* A new list of a histogram is empty: it adds nothing to what it shows. *)
LEMMA CreationObserves ==
  ASSUME MetricsTypeOK, KeysHeld, ListsInv, NEW t \in Threads, CreateHistogram(t)
  PROVE  ListsInv'
<1> DEFINE h == key[t]
           new == Append(lists[h], 0)
<1>1. /\ h \in Histograms
      /\ lists \in [Histograms -> Seq(Nat)]
      /\ lists' = [lists EXCEPT ![h] = new]
      /\ UNCHANGED <<key, loaded, observed>>
  BY DEF KeysHeld, CreateHistogram, Go, MetricsTypeOK
<1>2. /\ lists[h] \in Seq(Nat)
      /\ new \in Seq(Nat)
      /\ Len(new) = Len(lists[h]) + 1
      /\ DOMAIN lists[h] \subseteq DOMAIN new
      /\ \A i \in DOMAIN lists[h] : new[i] = lists[h][i]
      /\ \A i \in DOMAIN new \ DOMAIN lists[h] : new[i] = 0
  <2>1. lists[h] \in Seq(Nat)
    BY <1>1
  <2>2. QED
    BY <2>1
<1>3. ListsHeld'
  <2>1. /\ lists'[h] # <<>>
        /\ \A g \in Histograms : /\ lists[g] # <<>> => lists'[g] # <<>>
                                 /\ DOMAIN lists[g] \subseteq DOMAIN lists'[g]
    <3>1. lists'[h] = new /\ \A g \in Histograms : g # h => lists'[g] = lists[g]
      BY <1>1
    <3>2. new # <<>>
      BY <1>2
    <3>3. QED
      <4> HIDE DEF new, h
      <4> QED
        BY <1>2, <3>1, <3>2
  <2>2. ASSUME NEW u \in Threads
        PROVE  /\ (step[u] = "fetch")' => (lists[key[u]] # <<>>)'
               /\ (step[u] = "append")' => (loaded[u] \in DOMAIN lists[key[u]])'
    <3>1. CASE u = t
      <4>1. step'[u] = "fetch" /\ key'[u] = h
        BY <1>1, <3>1 DEF CreateHistogram, Go, MetricsTypeOK
      <4>2. QED
        BY <2>1, <4>1
    <3>2. CASE u # t
      <4>1. step'[u] = step[u]
        BY <3>2 DEF CreateHistogram, Go, MetricsTypeOK
      <4>2. step[u] \in {"fetch", "append"} => key[u] \in Histograms
        BY DEF KeysHeld
      <4>3. QED
        BY <1>1, <2>1, <4>1, <4>2 DEF ListsInv, ListsHeld
    <3>3. QED
      BY <3>1, <3>2
  <2>3. ASSUME NEW g \in Histograms, g \notin rebuilt' PROVE Len(lists'[g]) <= 1
    <3>1. CASE g = h
      <4>1. lists[h] = <<>>
        BY <2>3, <3>1 DEF CreateHistogram
      <4>2. QED
        BY <1>1, <1>2, <3>1, <4>1
    <3>2. CASE g # h
      BY <1>1, <2>3, <3>2 DEF CreateHistogram, ListsInv, ListsHeld
    <3>3. QED
      BY <3>1, <3>2
  <2>4. QED
    BY <2>2, <2>3 DEF ListsHeld
<1>4. AllObserved'
  <2> SUFFICES ASSUME NEW g \in Histograms
               PROVE  Total(lists'[g], DOMAIN lists'[g]) = observed'[g]
    BY DEF AllObserved
  <2>1. Total(lists[g], DOMAIN lists[g]) = observed'[g]
    BY <1>1 DEF ListsInv, AllObserved
  <2>2. CASE g = h
    <3>1. lists'[g] = new
      BY <1>1, <2>2
    <3>2. Total(new, DOMAIN new) = Total(lists[h], DOMAIN lists[h])
      <4> HIDE DEF new, h
      <4> QED
        BY <1>2, TotalOfNoMore
    <3>3. QED
      BY <2>1, <2>2, <3>1, <3>2
  <2>3. CASE g # h
    BY <1>1, <2>1, <2>3
  <2>4. QED
    BY <2>2, <2>3
<1>5. QED
  BY <1>3, <1>4 DEF ListsInv

(* A value appended to a list is one more of its histogram. *)
LEMMA AppendObserves ==
  ASSUME MetricsTypeOK, KeysHeld, ListsInv, NEW t \in Threads, AppendValue(t)
  PROVE  ListsInv'
<1> DEFINE h == key[t]
           i == loaded[t]
           new == [lists[h] EXCEPT ![i] = lists[h][i] + 1]
<1>1. /\ h \in Histograms
      /\ lists \in [Histograms -> Seq(Nat)]
      /\ lists' = [lists EXCEPT ![h] = new]
      /\ i \in DOMAIN lists[h]
      /\ UNCHANGED rebuilt
      /\ observed' = [observed EXCEPT ![h] = observed[h] + 1]
      /\ observed \in [Histograms -> Nat]
  BY DEF KeysHeld, AppendValue, Go, MetricsTypeOK, ListsInv, ListsHeld
<1>2. /\ lists[h] \in Seq(Nat)
      /\ DOMAIN new = DOMAIN lists[h]
      /\ DOMAIN lists[h] = 1..Len(lists[h])
      /\ Len(lists[h]) \in Nat
      /\ lists[h] \in [DOMAIN lists[h] -> Nat]
      /\ new \in [DOMAIN lists[h] -> Nat]
      /\ new[i] = lists[h][i] + 1
      /\ \A k \in DOMAIN lists[h] \ {i} : new[k] = lists[h][k]
  <2>1. lists[h] \in Seq(Nat)
    BY <1>1
  <2>2. lists[h][i] \in Nat
    BY <1>1, <2>1
  <2>3. QED
    BY <1>1, <2>1, <2>2
<1>3. new \in Seq(Nat) /\ Len(new) = Len(lists[h])
  BY <1>1, <1>2, ExceptSeq
<1>4. ListsHeld'
  <2>1. ASSUME NEW g \in Histograms
        PROVE  /\ DOMAIN lists'[g] = DOMAIN lists[g]
               /\ Len(lists'[g]) = Len(lists[g])
               /\ lists'[g] = <<>> <=> lists[g] = <<>>
    BY <1>1, <1>2, <1>3
  <2>2. ASSUME NEW u \in Threads
        PROVE  /\ (step[u] = "fetch")' => (lists[key[u]] # <<>>)'
               /\ (step[u] = "append")' => (loaded[u] \in DOMAIN lists[key[u]])'
    <3>1. CASE u = t
      BY <3>1 DEF AppendValue, Go, MetricsTypeOK
    <3>2. CASE u # t
      <4>1. UNCHANGED <<step[u], key[u], loaded[u]>>
        BY <3>2 DEF AppendValue, Go, Forget, MetricsTypeOK
      <4>2. step[u] \in {"fetch", "append"} => key[u] \in Histograms
        BY DEF KeysHeld
      <4>3. QED
        BY <2>1, <4>1, <4>2 DEF ListsInv, ListsHeld
    <3>3. QED
      BY <3>1, <3>2
  <2>3. QED
    BY <1>1, <2>1, <2>2 DEF ListsInv, ListsHeld
<1>5. AllObserved'
  <2> SUFFICES ASSUME NEW g \in Histograms
               PROVE  Total(lists'[g], DOMAIN lists'[g]) = observed'[g]
    BY DEF AllObserved
  <2>1. Total(lists[g], DOMAIN lists[g]) = observed[g]
    BY DEF ListsInv, AllObserved
  <2>2. CASE g = h
    <3>1. Total(new, DOMAIN lists[h]) = Total(lists[h], DOMAIN lists[h]) + 1
      <4>1. IsFiniteSet(DOMAIN lists[h])
        <5>1. IsFiniteSet(1..Len(lists[h]))
          BY <1>2, FS_Interval
        <5>2. QED
          BY <1>2, <5>1
      <4>2. \A S, of, k : IsFiniteSet(S) /\ of \in [S -> Nat] /\ k \in S
              => Total([of EXCEPT ![k] = of[k] + 1], S) = Total(of, S) + 1
        BY TotalOfIncrement
      <4>3. QED
        BY <1>1, <1>2, <4>1, <4>2, Zenon
    <3>2. lists'[g] = new /\ observed'[g] = observed[h] + 1
      BY <1>1, <2>2
    <3>3. QED
      BY <1>2, <2>1, <2>2, <3>1, <3>2
  <2>3. CASE g # h
    BY <1>1, <2>1, <2>3
  <2>4. QED
    BY <2>2, <2>3
<1>6. QED
  BY <1>4, <1>5 DEF ListsInv

LEMMA ListsStep ==
  ASSUME MetricsTypeOK, KeysHeld, ListsInv, MetricsStep
  PROVE  ListsInv'
<1>1. ASSUME NEW t \in Threads, MetricsCall(t) PROVE ListsInv'
  <2>1. ASSUME UNCHANGED <<lists, rebuilt, observed>>, ListsHeld' PROVE ListsInv'
    BY <2>1 DEF ListsInv, AllObserved
  <2> USE DEF MetricsTypeOK, KeysHeld, ListsInv, ListsHeld, Go
  <2>2. ASSUME NEW k \in Counters, LoadCounter(t, k) PROVE ListsInv'
    BY <2>1, <2>2 DEF LoadCounter
  <2>3. ASSUME NEW h \in Histograms, TestHistogram(t, h) PROVE ListsInv'
    BY <2>1, <2>3 DEF TestHistogram
  <2>4. CASE StoreCounter(t)
    BY <2>1, <2>4 DEF StoreCounter, Forget
  <2>5. CASE FetchHistogram(t)
    <3>1. /\ step[t] = "fetch" /\ key[t] \in Histograms
          /\ step' = [step EXCEPT ![t] = "append"]
          /\ loaded' = [loaded EXCEPT ![t] = Len(lists[key[t]])]
          /\ UNCHANGED <<lists, key, rebuilt, observed>>
      BY <2>5 DEF FetchHistogram
    <3>2. lists[key[t]] \in Seq(Nat) /\ lists[key[t]] # <<>>
      BY <3>1
    <3>3. Len(lists[key[t]]) \in DOMAIN lists[key[t]]
      BY <3>2
    <3>4. ListsHeld'
      BY <3>1, <3>3
    <3>5. QED
      BY <2>1, <3>1, <3>4
  <2>6. CASE CopyCounters(t) \/ CopyGauges(t) \/ StartWalk(t)
    BY <2>1, <2>6 DEF CopyCounters, CopyGauges, StartWalk
  <2>7. CASE WalkFails(t) \/ WalkNext(t) \/ ReturnDump(t)
    BY <2>1, <2>7 DEF WalkFails, WalkNext, ReturnDump
  <2>8. QED
    BY <1>1, <2>2, <2>3, <2>4, <2>5, <2>6, <2>7, CreationObserves, AppendObserves
       DEF MetricsCall
<1>2. CASE UNCHANGED metricsVars
  BY <1>2 DEF metricsVars, ListsInv, ListsHeld, AllObserved
<1>3. QED
  BY <1>1, <1>2 DEF MetricsStep

(* The one list of a histogram that was created once shows all of it. *)
LEMMA OneListShowsAll ==
  ASSUME MetricsTypeOK, ListsInv
  PROVE  HistogramsExact
<1> SUFFICES ASSUME NEW h \in Histograms, h \notin rebuilt
             PROVE  Length(h) = observed[h]
  BY DEF HistogramsExact, ListsInv, AllObserved
<1>1. /\ lists[h] \in Seq(Nat)
      /\ Len(lists[h]) <= 1
      /\ Total(lists[h], DOMAIN lists[h]) = observed[h]
  BY DEF MetricsTypeOK, ListsInv, ListsHeld, AllObserved
<1>2. CASE lists[h] = <<>>
  <2>1. DOMAIN lists[h] = {}
    BY <1>2
  <2>2. Total(lists[h], DOMAIN lists[h]) = 0
    BY <2>1, TotalOfNothing
  <2>3. QED
    BY <1>1, <1>2, <2>2 DEF Length
<1>3. CASE lists[h] # <<>>
  <2>1. Len(lists[h]) = 1
    <3>1. Len(lists[h]) \in Nat /\ Len(lists[h]) # 0
      BY <1>1, <1>3, EmptySeq
    <3>2. \A n \in Nat : n # 0 /\ n <= 1 => n = 1
      OBVIOUS
    <3>3. QED
      BY <1>1, <3>1, <3>2, Zenon
  <2>2. DOMAIN lists[h] = {1} /\ lists[h][1] \in Nat
    BY <1>1, <2>1
  <2>3. Total(lists[h], DOMAIN lists[h]) = lists[h][1]
    BY <2>2, TotalOfOneKey
  <2>4. QED
    BY <1>1, <1>3, <2>1, <2>2, <2>3 DEF Length, Last
<1>4. QED
  BY <1>2, <1>3

LEMMA ListsAlwaysHeld == Spec => []ListsInv
<1>1. Init => ListsInv
  <2> SUFFICES ASSUME Init PROVE ListsInv
    OBVIOUS
  <2>1. ListsHeld
    BY DEF Init, MetricsInit, ListsHeld
  <2>2. ASSUME NEW h \in Histograms PROVE Total(lists[h], DOMAIN lists[h]) = observed[h]
    <3>1. DOMAIN lists[h] = {} /\ observed[h] = 0
      BY DEF Init, MetricsInit
    <3>2. QED
      BY <3>1, TotalOfNothing
  <2>3. QED
    BY <2>1, <2>2 DEF ListsInv, AllObserved
<1>2. TypeOK /\ KeysHeld /\ ListsInv /\ [Next]_vars => ListsInv'
  BY StepsOfTheAdapters, ListsStep DEF TypeOK
<1>3. QED
  BY <1>1, <1>2, Types, PTL DEF Spec

(* Every observation made is in some list of its histogram, and in the one *)
(* that is read unless two threads created it, for any number of threads.  *)
THEOREM HistogramsAlwaysExact == Spec => []HistogramsExact
<1>1. TypeOK /\ ListsInv => HistogramsExact
  BY OneListShowsAll DEF TypeOK
<1>2. QED
  BY <1>1, TypeCorrect, ListsAlwaysHeld, PTL
-----------------------------------------------------------------------------
(* A worker is in send_alert while its reading is being alerted, and works *)
(* on the keys of its reading while it counts and observes it.             *)
Coupled(w) ==
  /\ next[w] # 0 => pc[w] = "alerting"
  /\ pc[w] = "counting" => key[w] = reading[w]
  /\ pc[w] = "observing" => key[w] = reading[w][1]

(* The steps of the others leave a worker's variables alone. *)
Left(v) == UNCHANGED <<pc[v], reading[v], next[v], key[v]>>

LEMMA OthersLeft ==
  ASSUME TypeOK, NEW v \in Workers, NEW w \in Workers, v # w,
         \/ \E s \in Sensors, status \in {"valid", "anomaly"} : Stored(w, s, status)
         \/ Proceed(w)
  PROVE  Left(v)
<1> USE DEF TypeOK, AlertsTypeOK, MetricsTypeOK, Left, service, alertVars, metricsVars
<1>1. CASE \E s \in Sensors, status \in {"valid", "anomaly"} : Stored(w, s, status)
  BY <1>1 DEF Stored
<1>2. CASE Alert(w) \/ Interrupt(w) \/ Alerted(w)
  BY <1>2 DEF Alert, SendAlert, Interrupt, Interrupted, Alerted, Report, Leave, Move
<1>3. CASE NotifierAnswers(w) \/ NotifierRaises(w)
  BY <1>3 DEF NotifierAnswers, Answers, NotifierRaises, Raises
<1>4. v \in Threads
  BY OutputsAssumption
<1>5. CASE Count(w) \/ Counted(w) \/ Observe(w)
  BY <1>5, <1>4 DEF Count, LoadCounter, Counted, StoreCounter, Observe, TestHistogram, Move,
              Forget
<1>6. CASE Observing(w) \/ Observed(w)
  BY <1>6, <1>4 DEF Observing, CreateHistogram, FetchHistogram, Observed, AppendValue, Move,
              Forget
<1>7. QED
  BY <1>1, <1>2, <1>3, <1>5, <1>6 DEF Proceed

LEMMA ScraperLeaves ==
  ASSUME NEW t \in Scrapers, Scrape(t)
  PROVE  /\ UNCHANGED <<pc, reading, next, key, asked, stored, interrupts>>
         /\ UNCHANGED <<incremented, observed>>
BY DEF Scrape, service, alertVars, CopyCounters, CopyGauges, StartWalk, WalkFails,
       WalkNext, ReturnDump

LEMMA ProceedCouples ==
  ASSUME TypeOK, NEW w \in Workers, Coupled(w), Proceed(w)
  PROVE  Coupled(w)'
<1> USE DEF TypeOK, AlertsTypeOK, MetricsTypeOK, Coupled, service, alertVars, metricsVars
<1>1. CASE Alert(w) \/ Interrupt(w) \/ Alerted(w)
  BY <1>1 DEF Alert, SendAlert, Interrupt, Interrupted, Alerted, Report, Leave, Move
<1>2. CASE NotifierAnswers(w) \/ NotifierRaises(w)
  BY <1>2, AlertsAssumption
     DEF NotifierAnswers, Answers, NotifierRaises, Raises, Ask, Notifiers
<1>3. CASE Count(w) \/ Counted(w) \/ Observe(w)
  <2>1. w \in Threads
    BY OutputsAssumption
  <2>2. QED
    BY <1>3, <2>1 DEF Count, LoadCounter, Counted, StoreCounter, Observe, TestHistogram,
                      Move
<1>4. CASE Observing(w) \/ Observed(w)
  BY <1>4 DEF Observing, CreateHistogram, FetchHistogram, Observed, Move
<1>5. QED
  BY <1>1, <1>2, <1>3, <1>4 DEF Proceed

LEMMA WorkersCoupled == Spec => [](\A w \in Workers : Coupled(w))
<1>1. Init => \A w \in Workers : Coupled(w)
  BY DEF Init, AlertsInit, Coupled
<1>2. TypeOK /\ (\A w \in Workers : Coupled(w)) /\ [Next]_vars
        => (\A w \in Workers : Coupled(w))'
  <2> SUFFICES ASSUME TypeOK, \A w \in Workers : Coupled(w), [Next]_vars,
                      NEW v \in Workers
               PROVE  Coupled(v)'
    OBVIOUS
  <2>1. ASSUME Left(v) PROVE Coupled(v)'
    BY <2>1 DEF Left, Coupled
  <2>2. ASSUME NEW w \in Workers, NEW s \in Sensors, NEW status \in {"valid", "anomaly"},
               Stored(w, s, status)
        PROVE  Coupled(v)'
    <3>1. CASE v = w
      BY <2>2, <3>1 DEF Stored, Coupled, TypeOK, alertVars
    <3>2. CASE v # w
      BY <2>1, <2>2, <3>2, OthersLeft
    <3>3. QED
      BY <3>1, <3>2
  <2>3. ASSUME NEW w \in Workers, Proceed(w) PROVE Coupled(v)'
    <3>1. CASE v = w
      BY <2>3, <3>1, ProceedCouples
    <3>2. CASE v # w
      BY <2>1, <2>3, <3>2, OthersLeft
    <3>3. QED
      BY <3>1, <3>2
  <2>4. ASSUME NEW t \in Scrapers, Scrape(t) PROVE Coupled(v)'
    BY <2>1, <2>4, ScraperLeaves DEF Left
  <2>5. CASE UNCHANGED vars
    BY <2>1, <2>5 DEF vars, service, alertVars, metricsVars, Left
  <2>6. QED
    BY <2>2, <2>3, <2>4, <2>5 DEF Next
<1>3. QED
  BY <1>1, <1>2, TypeCorrect, PTL DEF Spec
-----------------------------------------------------------------------------
Anomalies == Sensors \X {"anomaly"}
CountersOf(h) == {h} \X {"valid", "anomaly"}

LEMMA CountersAreFinite ==
  /\ IsFiniteSet(Counters)
  /\ \A keys \in SUBSET Counters : IsFiniteSet(keys)
  /\ Anomalies \in SUBSET Counters
  /\ \A h \in Histograms : CountersOf(h) \in SUBSET Counters
<1>1. IsFiniteSet({"valid", "anomaly"})
  <2>1. IsFiniteSet({"valid"}) /\ "anomaly" \notin {"valid"}
    BY FS_Singleton
  <2>2. IsFiniteSet({"valid"} \union {"anomaly"})
    BY <2>1, FS_AddElement
  <2>3. {"valid"} \union {"anomaly"} = {"valid", "anomaly"}
    OBVIOUS
  <2>4. QED
    BY <2>2, <2>3
<1>2. IsFiniteSet(Counters)
  BY <1>1, FS_Product, OutputsAssumption
<1>3. \A keys \in SUBSET Counters : IsFiniteSet(keys)
  BY <1>2, FS_Subset
<1>4. Anomalies \in SUBSET Counters
  BY OutputsAssumption DEF Anomalies
<1>5. \A h \in Histograms : CountersOf(h) \in SUBSET Counters
  BY OutputsAssumption DEF CountersOf
<1>6. QED
  BY <1>2, <1>3, <1>4, <1>5

LEMMA IncrementedIsNat ==
  ASSUME TypeOK, NEW keys \in SUBSET Counters
  PROVE  Total(incremented, keys) \in Nat
<1>1. IsFiniteSet(keys) /\ \A k \in keys : incremented[k] \in Nat
  BY CountersAreFinite DEF TypeOK, MetricsTypeOK
<1>2. QED
  BY <1>1, TotalType

(* A worker that has counted its reading has added one to its counter. *)
LEMMA CountedAddsOne ==
  ASSUME TypeOK, KeysHeld, NEW w \in Workers, Coupled(w), Counted(w),
         NEW keys \in SUBSET Counters
  PROVE  Total(incremented', keys)
           = Total(incremented, keys) + (IF reading[w] \in keys THEN 1 ELSE 0)
<1>1. /\ reading[w] \in Counters
      /\ incremented \in [Counters -> Nat]
      /\ incremented' = [incremented EXCEPT ![reading[w]] = incremented[reading[w]] + 1]
  <2>1. pc[w] = "counting" /\ key[w] = reading[w]
    BY DEF Counted, Move, Coupled
  <2>2. QED
    BY <2>1, ReadingOfACall DEF Counted, StoreCounter, TypeOK, MetricsTypeOK
<1>2. IsFiniteSet(keys)
  BY CountersAreFinite
<1>3. CASE reading[w] \in keys
  <2>1. /\ incremented' \in [Counters -> Nat]
        /\ incremented'[reading[w]] = incremented[reading[w]] + 1
        /\ \A k \in keys \ {reading[w]} : incremented'[k] = incremented[k]
    BY <1>1
  <2>2. Total(incremented', keys) = Total(incremented, keys) + 1
    <3>1. incremented \in [Counters -> Nat]
      BY <1>1
    <3>2. QED
      BY <1>2, <1>3, <2>1, <3>1, TotalOfOneMore
  <2>3. QED
    BY <1>3, <2>2
<1>4. CASE reading[w] \notin keys
  <2>1. \A k \in keys : incremented'[k] = incremented[k]
    BY <1>1, <1>4
  <2>2. Total(incremented', keys) = Total(incremented, keys)
    BY <2>1, TotalOfTheSame
  <2>3. QED
    BY <1>4, <2>2, IncrementedIsNat
<1>5. QED
  BY <1>3, <1>4

LEMMA OnlyCountedAdds ==
  ASSUME NEW w \in Workers,
         \/ \E s \in Sensors, status \in {"valid", "anomaly"} : Stored(w, s, status)
         \/ Proceed(w) /\ ~Counted(w)
  PROVE  UNCHANGED incremented
BY DEF Stored, Proceed, Alert, Interrupt, Alerted, NotifierAnswers, NotifierRaises, Count,
       LoadCounter, Observe, TestHistogram, Observing, CreateHistogram, FetchHistogram,
       Observed, AppendValue, metricsVars
-----------------------------------------------------------------------------
LEMMA UncountedIsFinite == IsFiniteSet(Uncounted) /\ Cardinality(Uncounted) \in Nat
<1>1. Uncounted \subseteq Workers
  BY DEF Uncounted
<1>2. QED
  BY <1>1, FS_Subset, FS_CardinalityType, OutputsAssumption

LEMMA UncountedChanges ==
  ASSUME TypeOK, NEW w \in Workers,
         \/ \E s \in Sensors, status \in {"valid", "anomaly"} : Stored(w, s, status)
         \/ Proceed(w)
  PROVE  /\ Cardinality(Uncounted) \in Nat
         /\ Cardinality(Uncounted') \in Nat
         /\ Cardinality(Uncounted') + (IF w \in Uncounted THEN 1 ELSE 0)
              = Cardinality(Uncounted) + (IF w \in Uncounted' THEN 1 ELSE 0)
<1>1. \A v : v # w => (v \in Uncounted' <=> v \in Uncounted)
  <2> SUFFICES ASSUME NEW v \in Workers, v # w
               PROVE  v \in Uncounted' <=> v \in Uncounted
    BY DEF Uncounted
  <2>1. pc'[v] = pc[v]
    BY OthersLeft DEF Left
  <2>2. QED
    BY <2>1 DEF Uncounted
<1>2. QED
  BY <1>1, UncountedIsFinite, SizeOfChanged

LEMMA ProceedCounts ==
  ASSUME TypeOK, KeysHeld, NEW w \in Workers, Coupled(w), StoredIsCounted, Proceed(w)
  PROVE  StoredIsCounted'
<1> DEFINE total == Total(incremented, Counters)
           is    == IF w \in Uncounted THEN 1 ELSE 0
           was   == IF w \in Uncounted' THEN 1 ELSE 0
<1>1. /\ stored = total + Cardinality(Uncounted) + interrupts
      /\ total \in Nat /\ interrupts \in Nat
  BY IncrementedIsNat DEF StoredIsCounted, TypeOK
<1>2. /\ Cardinality(Uncounted) \in Nat
      /\ Cardinality(Uncounted') \in Nat
      /\ Cardinality(Uncounted') + is = Cardinality(Uncounted) + was
  BY UncountedChanges
<1>3. CASE Counted(w)
  <2>1. pc[w] = "counting" /\ pc'[w] = "observe"
        /\ UNCHANGED <<stored, interrupts>>
    BY <1>3 DEF Counted, Move, TypeOK
  <2>2. is = 1 /\ was = 0
    BY <2>1 DEF Uncounted
  <2>3. Total(incremented', Counters) = total + 1
    <3>1. reading[w] \in Counters
      BY <2>1, ReadingOfACall
    <3>2. QED
      BY <1>3, <3>1, CountedAddsOne
  <2>4. QED
    BY <1>1, <1>2, <2>1, <2>2, <2>3 DEF StoredIsCounted
<1>4. CASE Interrupt(w)
  <2>1. pc[w] = "alerting" /\ pc'[w] = "idle" /\ stored' = stored
        /\ interrupts' = interrupts + 1 /\ incremented' = incremented
    BY <1>4 DEF Interrupt, Interrupted, Ask, Notifiers, Coupled, TypeOK, metricsVars
  <2>2. is = 1 /\ was = 0
    BY <2>1 DEF Uncounted
  <2>3. QED
    BY <1>1, <1>2, <2>1, <2>2 DEF StoredIsCounted
<1>5. CASE ~Counted(w) /\ ~Interrupt(w)
  <2>1. UNCHANGED <<stored, interrupts>>
    BY <1>5 DEF Proceed, Alert, Alerted, NotifierAnswers, NotifierRaises, Count, Observe,
                Observing, Observed, Move, service
  <2>2. incremented' = incremented
    BY <1>5, OnlyCountedAdds
  <2>3. is = was
    BY <1>5 DEF Proceed, Alert, Alerted, NotifierAnswers, NotifierRaises, Count, Observe,
                Observing, Observed, Move, service, Uncounted, TypeOK
  <2>4. QED
    <3> HIDE DEF is, was
    <3>1. is \in {0, 1}
      BY DEF is
    <3>2. Cardinality(Uncounted') = Cardinality(Uncounted)
      BY <1>2, <2>3, <3>1
    <3>3. QED
      BY <1>1, <2>1, <2>2, <3>2 DEF StoredIsCounted
<1>6. QED
  BY <1>3, <1>4, <1>5

(* Every stored reading is counted, will be, or its call was interrupted,  *)
(* whatever the notifiers answer and for any number of workers.            *)
THEOREM StoredIsAlwaysCounted == Spec => []StoredIsCounted
<1>1. Init => StoredIsCounted
  <2> SUFFICES ASSUME Init PROVE StoredIsCounted
    OBVIOUS
  <2>1. Uncounted = {}
    BY DEF Init, Uncounted
  <2>2. Cardinality(Uncounted) = 0
    BY <2>1, FS_EmptySet
  <2>3. Total(incremented, Counters) = 0
    <3>1. \A k \in Counters : incremented[k] = 0
      BY DEF Init, MetricsInit
    <3>2. QED
      BY <3>1, TotalOfNothing
  <2>4. QED
    BY <2>2, <2>3 DEF Init, StoredIsCounted
<1>2. TypeOK /\ KeysHeld /\ (\A w \in Workers : Coupled(w)) /\ StoredIsCounted /\ [Next]_vars
        => StoredIsCounted'
  <2> SUFFICES ASSUME TypeOK, KeysHeld, \A w \in Workers : Coupled(w), StoredIsCounted,
                      [Next]_vars
               PROVE  StoredIsCounted'
    OBVIOUS
  <2>1. ASSUME NEW w \in Workers, NEW s \in Sensors, NEW status \in {"valid", "anomaly"},
               Stored(w, s, status)
        PROVE  StoredIsCounted'
    <3>1. w \notin Uncounted /\ w \in Uncounted'
      BY <2>1 DEF Stored, Uncounted, TypeOK
    <3>2. /\ Cardinality(Uncounted) \in Nat
          /\ Cardinality(Uncounted') = Cardinality(Uncounted) + 1
      BY <2>1, <3>1, UncountedChanges
    <3>3. /\ stored' = stored + 1
          /\ UNCHANGED <<interrupts, incremented>>
      BY <2>1 DEF Stored, metricsVars
    <3>4. Total(incremented, Counters) \in Nat /\ interrupts \in Nat
      BY IncrementedIsNat DEF TypeOK
    <3>5. QED
      BY <3>2, <3>3, <3>4 DEF StoredIsCounted
  <2>2. ASSUME NEW w \in Workers, Proceed(w) PROVE StoredIsCounted'
    BY <2>2, ProceedCounts
  <2>3. ASSUME NEW t \in Scrapers, Scrape(t) PROVE StoredIsCounted'
    BY <2>3, ScraperLeaves DEF StoredIsCounted, Uncounted
  <2>4. CASE UNCHANGED vars
    BY <2>4 DEF vars, service, metricsVars, StoredIsCounted, Uncounted
  <2>5. QED
    BY <2>1, <2>2, <2>3, <2>4 DEF Next
<1>3. QED
  BY <1>1, <1>2, Types, WorkersCoupled, PTL DEF Spec
-----------------------------------------------------------------------------
(* The workers that have asked notifier n to send their anomaly and have   *)
(* not counted it yet.  With them CountedReachedEveryNotifier is inductive. *)
Reached(n) ==
  {w \in Workers : /\ reading[w] \in Anomalies
                   /\ \/ pc[w] = "alerting" /\ next[w] > n
                      \/ pc[w] \in {"count", "counting"}}

Reaching(n) == Total(incremented, Anomalies) + Cardinality(Reached(n)) <= asked[n]

LEMMA ReachedIsFinite ==
  \A n : IsFiniteSet(Reached(n)) /\ Cardinality(Reached(n)) \in Nat
<1> SUFFICES ASSUME NEW n PROVE IsFiniteSet(Reached(n)) /\ Cardinality(Reached(n)) \in Nat
  OBVIOUS
<1>1. Reached(n) \subseteq Workers
  BY DEF Reached
<1>2. QED
  BY <1>1, FS_Subset, FS_CardinalityType, OutputsAssumption

LEMMA ReachedChanges ==
  ASSUME TypeOK, NEW w \in Workers, NEW n,
         \/ \E s \in Sensors, status \in {"valid", "anomaly"} : Stored(w, s, status)
         \/ Proceed(w)
  PROVE  /\ Cardinality(Reached(n)) \in Nat
         /\ Cardinality(Reached(n)') \in Nat
         /\ Cardinality(Reached(n)') + (IF w \in Reached(n) THEN 1 ELSE 0)
              = Cardinality(Reached(n)) + (IF w \in Reached(n)' THEN 1 ELSE 0)
<1>1. \A v : v # w => (v \in Reached(n)' <=> v \in Reached(n))
  <2> SUFFICES ASSUME NEW v \in Workers, v # w
               PROVE  v \in Reached(n)' <=> v \in Reached(n)
    BY DEF Reached
  <2>1. UNCHANGED <<pc[v], reading[v], next[v]>>
    BY OthersLeft DEF Left
  <2>2. QED
    BY <2>1 DEF Reached
<1>2. QED
  BY <1>1, ReachedIsFinite, SizeOfChanged

LEMMA ProceedReaches ==
  ASSUME TypeOK, KeysHeld, NEW w \in Workers, Coupled(w), NEW n \in Notifiers, Reaching(n),
         Proceed(w)
  PROVE  Reaching(n)'
<1> DEFINE total == Total(incremented, Anomalies)
           is    == w \in Reached(n)
           will  == w \in Reached(n)'
<1>1. total \in Nat /\ asked[n] \in Nat /\ total + Cardinality(Reached(n)) <= asked[n]
  BY IncrementedIsNat, CountersAreFinite DEF TypeOK, AlertsTypeOK, Reaching
<1>2. /\ Cardinality(Reached(n)) \in Nat
      /\ Cardinality(Reached(n)') \in Nat
      /\ Cardinality(Reached(n)') + (IF is THEN 1 ELSE 0)
           = Cardinality(Reached(n)) + (IF will THEN 1 ELSE 0)
  BY ReachedChanges
<1>3. next \in [Workers -> 0..(NumNotifiers + 1)] /\ n \in 1..NumNotifiers
  BY DEF TypeOK, AlertsTypeOK, Notifiers
<1>4. ASSUME incremented' = incremented, asked' = asked, will => is PROVE Reaching(n)'
  <2>1. Cardinality(Reached(n)') <= Cardinality(Reached(n))
    BY <1>2, <1>4
  <2>2. QED
    BY <1>1, <1>2, <1>4, <2>1 DEF Reaching
<1>5. CASE Alert(w)
  <2>1. ~will
    BY <1>3, <1>5 DEF Alert, SendAlert, Move, Reached, TypeOK
  <2>2. incremented' = incremented /\ asked' = asked
    BY <1>5 DEF Alert, SendAlert, metricsVars
  <2>3. QED
    BY <1>4, <2>1, <2>2
<1>6. CASE NotifierAnswers(w) \/ NotifierRaises(w)
  <2>1. /\ next[w] \in Notifiers
        /\ next' = [next EXCEPT ![w] = next[w] + 1]
        /\ asked' = [asked EXCEPT ![next[w]] = asked[next[w]] + 1]
        /\ UNCHANGED <<pc, reading, incremented>>
    BY <1>6 DEF NotifierAnswers, Answers, NotifierRaises, Raises, Ask, service, metricsVars
  <2>2. CASE next[w] = n
    <3>1. asked'[n] = asked[n] + 1
      BY <2>1, <2>2 DEF TypeOK, AlertsTypeOK
    <3>2. Cardinality(Reached(n)') <= Cardinality(Reached(n)) + 1
      BY <1>2
    <3>3. QED
      BY <1>1, <1>2, <2>1, <3>1, <3>2 DEF Reaching
  <2>3. CASE next[w] # n
    <3>1. asked'[n] = asked[n]
      BY <2>1, <2>3 DEF TypeOK, AlertsTypeOK
    <3>2. will => is
      BY <1>3, <2>1, <2>3 DEF Reached
    <3>3. Cardinality(Reached(n)') <= Cardinality(Reached(n))
      BY <1>2, <3>2
    <3>4. QED
      BY <1>1, <1>2, <2>1, <3>1, <3>3 DEF Reaching
  <2>4. QED
    BY <2>2, <2>3
<1>7. CASE Interrupt(w)
  <2>1. ~will
    BY <1>7 DEF Interrupt, Reached, TypeOK
  <2>2. Cardinality(Reached(n)') <= Cardinality(Reached(n))
    BY <1>2, <2>1
  <2>3. asked'[n] \in Nat /\ asked'[n] >= asked[n] /\ incremented' = incremented
    BY <1>1, <1>7 DEF Interrupt, Interrupted, Ask, TypeOK, AlertsTypeOK, metricsVars
  <2>4. QED
    BY <1>1, <1>2, <2>2, <2>3 DEF Reaching
<1>8. CASE Alerted(w)
  <2>1. /\ pc[w] = "alerting" /\ reading' = reading
        /\ next[w] > NumNotifiers
    BY <1>8 DEF Alerted, Report, AllAsked, Move
  <2>2. next[w] > n
    BY <1>3, <2>1, AlertsAssumption
  <2>3. will => is
    BY <2>1, <2>2 DEF Reached
  <2>4. incremented' = incremented /\ asked' = asked
    BY <1>8 DEF Alerted, Report, metricsVars
  <2>5. QED
    BY <1>4, <2>3, <2>4
<1>9. CASE Count(w)
  <2>1. pc[w] = "count" /\ reading' = reading
    BY <1>9 DEF Count, Move
  <2>2. will => is
    BY <2>1 DEF Reached
  <2>3. incremented' = incremented /\ asked' = asked
    BY <1>9 DEF Count, LoadCounter, alertVars
  <2>4. QED
    BY <1>4, <2>2, <2>3
<1>10. CASE Counted(w)
  <2>1. pc[w] = "counting" /\ pc'[w] = "observe" /\ asked' = asked
    BY <1>10 DEF Counted, Move, TypeOK, alertVars
  <2>2. ~will /\ (is <=> reading[w] \in Anomalies)
    BY <2>1 DEF Reached
  <2>3. Total(incremented', Anomalies)
          = total + (IF reading[w] \in Anomalies THEN 1 ELSE 0)
    BY <1>10, CountedAddsOne, CountersAreFinite
  <2>4. QED
    <3> HIDE DEF total, is, will
    <3>1. CASE is
      BY <1>1, <1>2, <2>1, <2>2, <2>3, <3>1 DEF Reaching
    <3>2. CASE ~is
      BY <1>1, <1>2, <2>1, <2>2, <2>3, <3>2 DEF Reaching
    <3>3. QED
      BY <3>1, <3>2
<1>11. CASE Observe(w) \/ Observing(w) \/ Observed(w)
  <2>1. will => is
    BY <1>11 DEF Observe, Observing, Observed, Move, Reached, TypeOK, service, alertVars
  <2>2. incremented' = incremented /\ asked' = asked
    BY <1>11 DEF Observe, TestHistogram, Observing, CreateHistogram, FetchHistogram,
                 Observed, AppendValue, alertVars
  <2>3. QED
    BY <1>4, <2>1, <2>2
<1>12. QED
  BY <1>5, <1>6, <1>7, <1>8, <1>9, <1>10, <1>11 DEF Proceed

(* No anomaly is counted before every notifier was asked to send it, for   *)
(* any number of notifiers and whatever they answer.                       *)
THEOREM CountedAlwaysReached == Spec => []CountedReachedEveryNotifier
<1> DEFINE ReachInv == \A n \in Notifiers : Reaching(n)
<1>1. Init => ReachInv
  <2> SUFFICES ASSUME Init, NEW n \in Notifiers PROVE Reaching(n)
    OBVIOUS
  <2>1. Reached(n) = {}
    BY DEF Init, Reached
  <2>2. Cardinality(Reached(n)) = 0
    BY <2>1, FS_EmptySet
  <2>3. Total(incremented, Anomalies) = 0
    <3>1. \A k \in Anomalies : incremented[k] = 0
      BY CountersAreFinite DEF Init, MetricsInit
    <3>2. QED
      BY <3>1, TotalOfNothing
  <2>4. QED
    BY <2>2, <2>3 DEF Init, AlertsInit, Reaching
<1>2. TypeOK /\ KeysHeld /\ (\A w \in Workers : Coupled(w)) /\ ReachInv /\ [Next]_vars
        => ReachInv'
  <2> SUFFICES ASSUME TypeOK, KeysHeld, \A w \in Workers : Coupled(w), ReachInv,
                      [Next]_vars, NEW n \in Notifiers
               PROVE  Reaching(n)'
    BY DEF Notifiers
  <2>1. Reaching(n)
    OBVIOUS
  <2>2. ASSUME NEW w \in Workers, NEW s \in Sensors, NEW status \in {"valid", "anomaly"},
               Stored(w, s, status)
        PROVE  Reaching(n)'
    <3>1. w \notin Reached(n)'
      BY <2>2, OutputsAssumption DEF Stored, Reached, Anomalies, TypeOK
    <3>2. /\ Cardinality(Reached(n)) \in Nat
          /\ Cardinality(Reached(n)') \in Nat
          /\ Cardinality(Reached(n)') <= Cardinality(Reached(n))
      BY <2>2, <3>1, ReachedChanges
    <3>3. UNCHANGED <<asked, incremented>>
      BY <2>2 DEF Stored, alertVars, metricsVars
    <3>4. Total(incremented, Anomalies) \in Nat /\ asked[n] \in Nat
      BY IncrementedIsNat, CountersAreFinite DEF TypeOK, AlertsTypeOK
    <3>5. QED
      BY <2>1, <3>2, <3>3, <3>4 DEF Reaching
  <2>3. ASSUME NEW w \in Workers, Proceed(w) PROVE Reaching(n)'
    BY <2>1, <2>3, ProceedReaches
  <2>4. ASSUME NEW t \in Scrapers, Scrape(t) PROVE Reaching(n)'
    BY <2>1, <2>4, ScraperLeaves DEF Reaching, Reached
  <2>5. CASE UNCHANGED vars
    BY <2>1, <2>5 DEF vars, service, alertVars, metricsVars, Reaching, Reached
  <2>6. QED
    BY <2>2, <2>3, <2>4, <2>5 DEF Next
<1>3. TypeOK /\ ReachInv => CountedReachedEveryNotifier
  <2> SUFFICES ASSUME TypeOK, ReachInv, NEW n \in Notifiers
               PROVE  Total(incremented, Anomalies) <= asked[n]
    BY DEF CountedReachedEveryNotifier, Anomalies
  <2>1. /\ Total(incremented, Anomalies) \in Nat
        /\ Cardinality(Reached(n)) \in Nat
        /\ asked[n] \in Nat
    BY IncrementedIsNat, CountersAreFinite, ReachedIsFinite DEF TypeOK, AlertsTypeOK
  <2>2. QED
    BY <2>1 DEF Reaching
<1>4. QED
  BY <1>1, <1>2, <1>3, Types, WorkersCoupled, PTL DEF Spec
-----------------------------------------------------------------------------
(* The workers that have counted a reading of h and not observed it yet:   *)
(* by so many is the counters' sum of h ahead of its observations.         *)
Unobserved(h) ==
  {w \in Workers : pc[w] \in {"observe", "observing"} /\ reading[w][1] = h}

Following(h) ==
  Total(incremented, CountersOf(h)) = observed[h] + Cardinality(Unobserved(h))

LEMMA UnobservedIsFinite ==
  ASSUME NEW h
  PROVE  /\ IsFiniteSet(Unobserved(h))
         /\ Cardinality(Unobserved(h)) \in Nat
         /\ Cardinality(Workers) \in Nat
         /\ Cardinality(Unobserved(h)) <= Cardinality(Workers)
<1>1. Unobserved(h) \subseteq Workers
  BY DEF Unobserved
<1>2. QED
  BY <1>1, FS_Subset, FS_CardinalityType, OutputsAssumption

LEMMA UnobservedChanges ==
  ASSUME TypeOK, NEW h, NEW w \in Workers,
         \/ \E s \in Sensors, status \in {"valid", "anomaly"} : Stored(w, s, status)
         \/ Proceed(w)
  PROVE  /\ Cardinality(Unobserved(h)) \in Nat
         /\ Cardinality(Unobserved(h)') \in Nat
         /\ Cardinality(Unobserved(h)') + (IF w \in Unobserved(h) THEN 1 ELSE 0)
              = Cardinality(Unobserved(h)) + (IF w \in Unobserved(h)' THEN 1 ELSE 0)
<1>1. \A v : v # w => (v \in Unobserved(h)' <=> v \in Unobserved(h))
  <2> SUFFICES ASSUME NEW v \in Workers, v # w
               PROVE  v \in Unobserved(h)' <=> v \in Unobserved(h)
    BY DEF Unobserved
  <2>1. UNCHANGED <<pc[v], reading[v]>>
    BY OthersLeft DEF Left
  <2>2. QED
    BY <2>1 DEF Unobserved
<1>2. QED
  BY <1>1, UnobservedIsFinite, SizeOfChanged

LEMMA OnlyObservedObserves ==
  ASSUME NEW w \in Workers,
         \/ \E s \in Sensors, status \in {"valid", "anomaly"} : Stored(w, s, status)
         \/ Proceed(w) /\ ~Observed(w)
  PROVE  UNCHANGED observed
BY DEF Stored, Proceed, Alert, Interrupt, Alerted, NotifierAnswers, NotifierRaises, Count,
       LoadCounter, Counted, StoreCounter, Observe, TestHistogram, Observing,
       CreateHistogram, FetchHistogram, metricsVars

LEMMA ProceedFollows ==
  ASSUME TypeOK, KeysHeld, NEW w \in Workers, Coupled(w), NEW h \in Histograms, Following(h),
         Proceed(w)
  PROVE  Following(h)'
<1> DEFINE total == Total(incremented, CountersOf(h))
           is    == w \in Unobserved(h)
           will  == w \in Unobserved(h)'
<1>1. /\ total \in Nat /\ observed[h] \in Nat
      /\ total = observed[h] + Cardinality(Unobserved(h))
  BY IncrementedIsNat, CountersAreFinite DEF TypeOK, MetricsTypeOK, Following
<1>2. /\ Cardinality(Unobserved(h)) \in Nat
      /\ Cardinality(Unobserved(h)') \in Nat
      /\ Cardinality(Unobserved(h)') + (IF is THEN 1 ELSE 0)
           = Cardinality(Unobserved(h)) + (IF will THEN 1 ELSE 0)
  BY UnobservedChanges
<1>3. CASE Counted(w)
  <2>1. /\ pc[w] = "counting" /\ pc'[w] = "observe"
        /\ reading' = reading /\ reading[w] \in Counters
    BY <1>3, ReadingOfACall DEF Counted, Move, TypeOK
  <2>2. observed' = observed
    BY <1>3 DEF Counted, StoreCounter
  <2>3. ~is /\ (will <=> reading[w][1] = h)
    BY <2>1 DEF Unobserved
  <2>4. reading[w][1] = h <=> reading[w] \in CountersOf(h)
    BY <2>1, OutputsAssumption DEF CountersOf
  <2>5. Total(incremented', CountersOf(h)) = total + (IF will THEN 1 ELSE 0)
    BY <1>3, <2>3, <2>4, CountedAddsOne, CountersAreFinite
  <2>6. QED
    <3> HIDE DEF total, is, will
    <3>1. CASE will
      BY <1>1, <1>2, <2>2, <2>3, <2>5, <3>1 DEF Following
    <3>2. CASE ~will
      BY <1>1, <1>2, <2>2, <2>3, <2>5, <3>2 DEF Following
    <3>3. QED
      BY <3>1, <3>2
<1>4. CASE Observed(w)
  <2>1. /\ pc[w] = "observing" /\ pc'[w] = "idle"
        /\ key[w] = reading[w][1] /\ reading[w][1] \in Histograms
    BY <1>4, ReadingOfACall DEF Observed, Move, TypeOK, Coupled
  <2>2. /\ observed' = [observed EXCEPT ![reading[w][1]] = observed[reading[w][1]] + 1]
        /\ incremented' = incremented
    BY <1>4, <2>1 DEF Observed, AppendValue
  <2>3. ~will /\ (is <=> reading[w][1] = h)
    BY <2>1 DEF Unobserved
  <2>4. observed'[h] = observed[h] + (IF is THEN 1 ELSE 0)
    BY <1>1, <2>1, <2>2, <2>3 DEF TypeOK, MetricsTypeOK
  <2>5. Total(incremented', CountersOf(h)) = total
    BY <2>2
  <2>6. QED
    <3> HIDE DEF total, is, will
    <3>1. CASE is
      BY <1>1, <1>2, <2>3, <2>4, <2>5, <3>1 DEF Following
    <3>2. CASE ~is
      BY <1>1, <1>2, <2>3, <2>4, <2>5, <3>2 DEF Following
    <3>3. QED
      BY <3>1, <3>2
<1>5. CASE ~Counted(w) /\ ~Observed(w)
  <2>1. incremented' = incremented /\ observed' = observed
    BY <1>5, OnlyCountedAdds, OnlyObservedObserves
  <2>2. is <=> will
    <3>1. CASE Alert(w) \/ Alerted(w) \/ Count(w) \/ Observe(w)
      BY <3>1 DEF Alert, Alerted, Count, Observe, Move, Unobserved, TypeOK
    <3>2. CASE NotifierAnswers(w) \/ NotifierRaises(w) \/ Observing(w)
      BY <3>2 DEF NotifierAnswers, NotifierRaises, Observing, service, Unobserved
    <3>3. CASE Interrupt(w)
      <4>1. pc[w] = "alerting" /\ pc'[w] = "idle"
        BY <3>3 DEF Interrupt, Interrupted, Ask, Notifiers, Coupled, TypeOK
      <4>2. QED
        BY <4>1 DEF Unobserved
    <3>4. QED
      BY <1>5, <3>1, <3>2, <3>3 DEF Proceed
  <2>3. Cardinality(Unobserved(h)') = Cardinality(Unobserved(h))
    <3> HIDE DEF is, will
    <3> QED
      BY <1>2, <2>2
  <2>4. QED
    BY <1>1, <2>1, <2>3 DEF Following
<1>6. QED
  BY <1>3, <1>4, <1>5

LEMMA CountersAlwaysFollowed == Spec => [](\A h \in Histograms : Following(h))
<1> DEFINE FollowInv == \A h \in Histograms : Following(h)
<1>1. Init => FollowInv
  <2> SUFFICES ASSUME Init, NEW h \in Histograms PROVE Following(h)
    OBVIOUS
  <2>1. Unobserved(h) = {}
    BY DEF Init, Unobserved
  <2>2. Cardinality(Unobserved(h)) = 0
    BY <2>1, FS_EmptySet
  <2>3. Total(incremented, CountersOf(h)) = 0
    <3>1. \A k \in CountersOf(h) : incremented[k] = 0
      BY CountersAreFinite DEF Init, MetricsInit
    <3>2. QED
      BY <3>1, TotalOfNothing
  <2>4. QED
    BY <2>2, <2>3 DEF Init, MetricsInit, Following
<1>2. TypeOK /\ KeysHeld /\ (\A w \in Workers : Coupled(w)) /\ FollowInv /\ [Next]_vars
        => FollowInv'
  <2> SUFFICES ASSUME TypeOK, KeysHeld, \A w \in Workers : Coupled(w), FollowInv,
                      [Next]_vars, NEW h \in Histograms
               PROVE  Following(h)'
    OBVIOUS
  <2>1. Following(h)
    OBVIOUS
  <2>2. ASSUME NEW w \in Workers, NEW s \in Sensors, NEW status \in {"valid", "anomaly"},
               Stored(w, s, status)
        PROVE  Following(h)'
    <3>1. w \notin Unobserved(h) /\ w \notin Unobserved(h)'
      BY <2>2 DEF Stored, Unobserved, TypeOK
    <3>2. /\ Cardinality(Unobserved(h)) \in Nat
          /\ Cardinality(Unobserved(h)') = Cardinality(Unobserved(h))
      BY <2>2, <3>1, UnobservedChanges
    <3>3. UNCHANGED <<incremented, observed>>
      BY <2>2 DEF Stored, metricsVars
    <3>4. QED
      BY <2>1, <3>2, <3>3 DEF Following
  <2>3. ASSUME NEW w \in Workers, Proceed(w) PROVE Following(h)'
    BY <2>1, <2>3, ProceedFollows
  <2>4. ASSUME NEW t \in Scrapers, Scrape(t) PROVE Following(h)'
    BY <2>1, <2>4, ScraperLeaves DEF Following, Unobserved
  <2>5. CASE UNCHANGED vars
    BY <2>1, <2>5 DEF vars, service, metricsVars, Following, Unobserved
  <2>6. QED
    BY <2>2, <2>3, <2>4, <2>5 DEF Next
<1>3. QED
  BY <1>1, <1>2, Types, WorkersCoupled, PTL DEF Spec
-----------------------------------------------------------------------------
(* What a dump has copied is never further ahead of the observations made  *)
(* than the workers, and neither is it of the lengths read since then.     *)
CountersBounded(t) ==
  \A h \in Histograms :
    Total(dump[t].counters, CountersOf(h)) <= observed[h] + Cardinality(Workers)

LengthsBounded(t) ==
  \A n \in DOMAIN dump[t].lengths :
    /\ n \in DOMAIN births
    /\ births[n] \notin rebuilt =>
         Total(dump[t].counters, CountersOf(births[n]))
           <= dump[t].lengths[n] + Cardinality(Workers)

Bounded(t) == CountersBounded(t) /\ LengthsBounded(t)

(* Histograms are only added, observations only made. *)
Grow ==
  /\ \A h \in Histograms : observed'[h] >= observed[h]
  /\ rebuilt \subseteq rebuilt'
  /\ DOMAIN births \subseteq DOMAIN births'
  /\ \A n \in DOMAIN births : births'[n] = births[n]

LEMMA MetricsGrow ==
  ASSUME MetricsTypeOK, KeysHeld, MetricsStep
  PROVE  Grow
<1>1. births \in Seq(Histograms) /\ observed \in [Histograms -> Nat]
  BY DEF MetricsTypeOK
<1>2. ASSUME NEW t \in Threads, AppendValue(t) PROVE Grow
  BY <1>1, <1>2 DEF AppendValue, Grow
<1>3. ASSUME NEW t \in Threads, CreateHistogram(t) PROVE Grow
  <2>1. key[t] \in Histograms
    BY <1>3 DEF CreateHistogram, KeysHeld, Go
  <2>2. births' = births \/ births' = Append(births, key[t])
    BY <1>3 DEF CreateHistogram
  <2>3. DOMAIN births \subseteq DOMAIN births' /\ \A n \in DOMAIN births : births'[n] = births[n]
    <3>1. CASE births' = births
      BY <3>1
    <3>2. CASE births' = Append(births, key[t])
      <4>1. /\ Len(births') = Len(births) + 1
            /\ DOMAIN births' = 1..Len(births') /\ DOMAIN births = 1..Len(births)
            /\ Len(births) \in Nat
        BY <1>1, <2>1, <3>2
      <4>2. \A n \in DOMAIN births : births'[n] = births[n]
        BY <1>1, <2>1, <3>2
      <4>3. QED
        BY <4>1, <4>2
    <3>3. QED
      BY <2>2, <3>1, <3>2
  <2>4. QED
    BY <1>1, <1>3, <2>3 DEF CreateHistogram, Grow
<1>4. ASSUME UNCHANGED <<observed, rebuilt, births>> PROVE Grow
  BY <1>1, <1>4 DEF Grow
<1>5. ASSUME NEW t \in Threads, MetricsCall(t), ~AppendValue(t), ~CreateHistogram(t)
      PROVE  UNCHANGED <<observed, rebuilt, births>>
  BY <1>5 DEF MetricsCall, LoadCounter, StoreCounter, TestHistogram, FetchHistogram,
              CopyCounters, CopyGauges, StartWalk, WalkFails, WalkNext, ReturnDump
<1>6. CASE UNCHANGED metricsVars
  BY <1>4, <1>6 DEF metricsVars
<1>7. QED
  BY <1>2, <1>3, <1>4, <1>5, <1>6 DEF MetricsStep

LEMMA DumpTotalIsNat ==
  ASSUME MetricsTypeOK, NEW t \in Threads, NEW h \in Histograms
  PROVE  Total(dump[t].counters, CountersOf(h)) \in Nat
<1>1. /\ IsFiniteSet(CountersOf(h))
      /\ \A k \in CountersOf(h) : dump[t].counters[k] \in Nat
  BY CountersAreFinite DEF MetricsTypeOK
<1>2. QED
  BY <1>1, TotalType

LEMMA DumpStaysBounded ==
  ASSUME MetricsTypeOK, KeysHeld, MetricsStep, NEW t \in Threads, Bounded(t),
         dump'[t] = dump[t]
  PROVE  Bounded(t)'
<1>1. Grow
  BY MetricsGrow
<1>2. /\ births \in Seq(Histograms) /\ observed \in [Histograms -> Nat]
      /\ observed' \in [Histograms -> Nat]
  BY MetricsType DEF MetricsTypeOK
<1>3. Cardinality(Workers) \in Nat
  BY FS_CardinalityType, OutputsAssumption
<1>4. ASSUME NEW h \in Histograms
      PROVE  Total(dump'[t].counters, CountersOf(h)) <= observed'[h] + Cardinality(Workers)
  <2>1. Total(dump[t].counters, CountersOf(h)) \in Nat
    BY DumpTotalIsNat
  <2>2. Total(dump[t].counters, CountersOf(h)) <= observed[h] + Cardinality(Workers)
    BY DEF Bounded, CountersBounded
  <2>3. observed'[h] >= observed[h] /\ observed[h] \in Nat /\ observed'[h] \in Nat
    BY <1>1, <1>2 DEF Grow
  <2>4. Total(dump[t].counters, CountersOf(h)) <= observed'[h] + Cardinality(Workers)
    BY <1>3, <2>1, <2>2, <2>3
  <2>5. QED
    BY <2>4
<1>5. LengthsBounded(t)'
  BY <1>1 DEF Bounded, LengthsBounded, Grow
<1>6. QED
  BY <1>4, <1>5 DEF Bounded, CountersBounded

LEMMA EmptyDumpIsBounded ==
  ASSUME NEW t \in Threads, dump'[t] = NoDump, MetricsTypeOK'
  PROVE  Bounded(t)'
<1>1. observed' \in [Histograms -> Nat] /\ Cardinality(Workers) \in Nat
  BY FS_CardinalityType, OutputsAssumption DEF MetricsTypeOK
<1>2. ASSUME NEW h \in Histograms
      PROVE  Total(dump'[t].counters, CountersOf(h)) <= observed'[h] + Cardinality(Workers)
  <2>1. \A k \in CountersOf(h) : dump'[t].counters[k] = 0
    BY CountersAreFinite DEF NoDump
  <2>2. Total(dump'[t].counters, CountersOf(h)) = 0
    BY <2>1, TotalOfNothing
  <2>3. QED
    BY <1>1, <2>2
<1>3. LengthsBounded(t)'
  BY DEF LengthsBounded, NoDump
<1>4. QED
  BY <1>2, <1>3 DEF Bounded, CountersBounded

LEMMA CopyIsBounded ==
  ASSUME TypeOK, CountersExact, \A h \in Histograms : Following(h),
         NEW t \in Threads, CopyCounters(t)
  PROVE  Bounded(t)'
<1>1. dump'[t] = [counters |-> counters, lengths |-> <<>>] /\ observed' = observed
  BY DEF CopyCounters, TypeOK, MetricsTypeOK
<1>2. ASSUME NEW h \in Histograms
      PROVE  Total(counters, CountersOf(h)) <= observed[h] + Cardinality(Workers)
  <2>1. Total(counters, CountersOf(h)) <= Total(incremented, CountersOf(h))
    <3>1. \A k \in CountersOf(h) : /\ counters[k] \in Nat /\ incremented[k] \in Nat
                                   /\ counters[k] <= incremented[k]
      BY CountersAreFinite DEF TypeOK, MetricsTypeOK, CountersExact
    <3>2. IsFiniteSet(CountersOf(h))
      BY CountersAreFinite
    <3>3. QED
      BY <3>1, <3>2, TotalOfMore
  <2>2. /\ Total(counters, CountersOf(h)) \in Nat
        /\ Total(incremented, CountersOf(h)) \in Nat
    <3>1. \A k \in CountersOf(h) : counters[k] \in Nat
      BY CountersAreFinite DEF TypeOK, MetricsTypeOK
    <3>2. IsFiniteSet(CountersOf(h))
      BY CountersAreFinite
    <3>3. QED
      BY <3>1, <3>2, TotalType, IncrementedIsNat, CountersAreFinite
  <2>3. Total(incremented, CountersOf(h)) = observed[h] + Cardinality(Unobserved(h))
    BY DEF Following
  <2>4. QED
    BY <2>1, <2>2, <2>3, UnobservedIsFinite DEF TypeOK, MetricsTypeOK
<1>3. QED
  BY <1>1, <1>2 DEF Bounded, CountersBounded, LengthsBounded

LEMMA WalkIsBounded ==
  ASSUME MetricsTypeOK, HistogramsExact, NEW t \in Threads, Bounded(t), WalkNext(t),
         dump'[t] # dump[t]
  PROVE  Bounded(t)'
<1> DEFINE n == Len(dump[t].lengths) + 1
           length == Last(lists[births[n]])
<1>1. /\ n \in Nat /\ n <= Len(births)
      /\ dump' = [dump EXCEPT ![t] = [counters |-> dump[t].counters,
                                      lengths  |-> Append(dump[t].lengths, length)]]
      /\ UNCHANGED <<births, rebuilt, observed>>
  BY DEF WalkNext, MetricsTypeOK
<1>2. /\ dump'[t] = [counters |-> dump[t].counters,
                     lengths  |-> Append(dump[t].lengths, length)]
      /\ dump[t].lengths \in Seq(Nat)
  BY <1>1 DEF MetricsTypeOK
<1>3. n \in DOMAIN births /\ births[n] \in Histograms /\ lists[births[n]] # <<>>
  <2>1. n \in DOMAIN births /\ births \in Seq(Histograms)
    BY <1>1, <1>2 DEF MetricsTypeOK
  <2>2. births[n] \in Histograms /\ births[n] \in ToSet(births)
    BY <2>1 DEF ToSet
  <2>3. QED
    BY <2>1, <2>2 DEF MetricsTypeOK
<1>4. length \in Nat
  <2>1. lists[births[n]] \in Seq(Nat)
    BY <1>3 DEF MetricsTypeOK
  <2>2. QED
    BY <1>3, <2>1 DEF Last
<1>5. /\ Len(dump'[t].lengths) = n
      /\ dump'[t].lengths[n] = length
      /\ \A m \in DOMAIN dump'[t].lengths :
           \/ m = n
           \/ /\ m \in DOMAIN dump[t].lengths
              /\ dump'[t].lengths[m] = dump[t].lengths[m]
  <2> HIDE DEF length
  <2> QED
    BY <1>2, <1>4
<1>6. births[n] \notin rebuilt =>
        Total(dump[t].counters, CountersOf(births[n])) <= length + Cardinality(Workers)
  BY <1>3 DEF HistogramsExact, Length, Bounded, CountersBounded
<1>7. LengthsBounded(t)'
  <2> SUFFICES ASSUME NEW m \in DOMAIN dump'[t].lengths
               PROVE  /\ m \in DOMAIN births
                      /\ births[m] \notin rebuilt =>
                           Total(dump[t].counters, CountersOf(births[m]))
                             <= dump'[t].lengths[m] + Cardinality(Workers)
    BY <1>1, <1>2 DEF LengthsBounded
  <2>1. CASE m = n
    BY <1>3, <1>5, <1>6, <2>1
  <2>2. CASE m # n
    <3>1. m \in DOMAIN dump[t].lengths /\ dump'[t].lengths[m] = dump[t].lengths[m]
      BY <1>5, <2>2
    <3>2. QED
      BY <3>1 DEF Bounded, LengthsBounded
  <2>3. QED
    BY <2>1, <2>2
<1>8. CountersBounded(t)'
  BY <1>1, <1>2 DEF Bounded, CountersBounded
<1>9. QED
  BY <1>7, <1>8 DEF Bounded

LEMMA DumpsStep ==
  ASSUME TypeOK, KeysHeld, CountersExact, HistogramsExact,
         \A h \in Histograms : Following(h), MetricsStep, NEW t \in Threads, Bounded(t)
  PROVE  Bounded(t)'
<1> USE DEF TypeOK
<1>1. CASE dump'[t] = dump[t]
  BY <1>1, DumpStaysBounded
<1>2. CASE dump'[t] = NoDump
  BY <1>2, EmptyDumpIsBounded, MetricsType
<1>3. CASE CopyCounters(t)
  BY <1>3, CopyIsBounded
<1>4. CASE WalkNext(t)
  BY <1>1, <1>4, WalkIsBounded
<1>5. ASSUME NEW u \in Threads, MetricsCall(u), ~(u = t /\ (CopyCounters(t) \/ WalkNext(t)))
      PROVE  dump'[t] = dump[t] \/ dump'[t] = NoDump
  <2>1. CASE u = t
    BY <1>5, <2>1 DEF MetricsCall, LoadCounter, StoreCounter, TestHistogram, CreateHistogram,
       FetchHistogram, AppendValue, CopyGauges, StartWalk, WalkFails, ReturnDump, DropDump,
       MetricsTypeOK
  <2>2. CASE u # t
    BY <1>5, <2>2 DEF MetricsCall, LoadCounter, StoreCounter, TestHistogram, CreateHistogram,
       FetchHistogram, AppendValue, CopyCounters, CopyGauges, StartWalk, WalkFails, WalkNext,
       ReturnDump, DropDump, MetricsTypeOK
  <2>3. QED
    BY <2>1, <2>2
<1>6. CASE UNCHANGED metricsVars
  BY <1>1, <1>6 DEF metricsVars
<1>7. QED
  BY <1>1, <1>2, <1>3, <1>4, <1>5, <1>6 DEF MetricsStep

(* A dump is never further ahead of a histogram than the workers, for any  *)
(* number of workers, scrapers and sensors.                                *)
THEOREM DumpsAlwaysAgree == Spec => []DumpsAgree
<1> DEFINE DumpsInv == \A t \in Threads : Bounded(t)
<1>1. Init => DumpsInv
  <2> SUFFICES ASSUME Init, NEW t \in Threads PROVE Bounded(t)
    OBVIOUS
  <2>1. dump[t] = NoDump /\ \A h \in Histograms : observed[h] = 0
    BY DEF Init, MetricsInit
  <2>2. Cardinality(Workers) \in Nat
    BY FS_CardinalityType, OutputsAssumption
  <2>3. ASSUME NEW h \in Histograms PROVE Total(dump[t].counters, CountersOf(h)) = 0
    <3>1. \A k \in CountersOf(h) : dump[t].counters[k] = 0
      BY <2>1, CountersAreFinite DEF NoDump
    <3>2. QED
      BY <3>1, TotalOfNothing
  <2>4. QED
    BY <2>1, <2>2, <2>3 DEF Bounded, CountersBounded, LengthsBounded, NoDump
<1>2. /\ TypeOK /\ KeysHeld /\ CountersExact /\ HistogramsExact
      /\ \A h \in Histograms : Following(h)
      /\ DumpsInv
      /\ [Next]_vars
      => DumpsInv'
  BY StepsOfTheAdapters, DumpsStep
<1>3. DumpsInv => DumpsAgree
  <2> SUFFICES ASSUME DumpsInv, NEW t \in Scrapers, NEW n \in DOMAIN dump[t].lengths,
                      births[n] \notin rebuilt
               PROVE  Total(dump[t].counters, CountersOf(births[n]))
                        <= dump[t].lengths[n] + Cardinality(Workers)
    BY DEF DumpsAgree, CountersOf
  <2>1. t \in Threads
    BY OutputsAssumption
  <2>2. QED
    BY <2>1 DEF Bounded, LengthsBounded
<1>4. QED
  BY <1>1, <1>2, <1>3, Types, CountersAlwaysExact, HistogramsAlwaysExact,
     CountersAlwaysFollowed, PTL DEF Spec
=============================================================================
