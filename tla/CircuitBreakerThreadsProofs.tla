--------------------- MODULE CircuitBreakerThreadsProofs --------------------
(***************************************************************************)
(* What CircuitBreakerThreads guarantees for any number of threads, any    *)
(* limits and any timeout.                                                 *)
(***************************************************************************)
EXTENDS CircuitBreakerThreads, FiniteSetTheorems, TLAPS

Labels == Bookkeeping \union InFunction

LEMMA BumpFacts ==
  ASSUME NEW n \in 0..MaxCount
  PROVE  /\ Bump(n) \in 0..MaxCount
         /\ n < MaxCount => Bump(n) = n + 1
         /\ n <= Bump(n) /\ Bump(n) <= n + 1
BY ThreadsAssumption DEF Bump

LEMMA OlderFacts ==
  ASSUME NEW age \in 0..(ResetTimeout + 1)
  PROVE  /\ Older(age) \in 0..(ResetTimeout + 1)
         /\ age <= Older(age)
         /\ Older(age) # age => age <= ResetTimeout /\ Older(age) = age + 1
BY ThreadsAssumption DEF Older

LEMMA InitialTypes == Init => TypeOK
<1> SUFFICES ASSUME Init PROVE TypeOK
  OBVIOUS
<1>1. 0 \in 0..MaxCount /\ 0 \in 0..(ResetTimeout + 1)
  BY ThreadsAssumption
<1>2. /\ pc \in [Threads -> Bookkeeping \union InFunction]
      /\ loaded \in [Threads -> 0..MaxCount]
      /\ stampAge \in [Threads -> 0..(ResetTimeout + 1)]
  BY <1>1 DEF Init, Bookkeeping
<1>3. QED
  BY <1>1, <1>2 DEF Init, TypeOK

LEMMA TypesStep == TypeOK /\ [Next]_vars => TypeOK'
<1> SUFFICES ASSUME TypeOK, [Next]_vars PROVE TypeOK'
  OBVIOUS
<1> USE ThreadsAssumption DEF TypeOK, shared
<1>1. ASSUME NEW t \in Threads, NEW from, NEW to \in Labels, Step(t, from, to)
      PROVE  pc' \in [Threads -> Labels] /\ preempted' \in BOOLEAN
  BY <1>1 DEF Step, Labels
<1>2. 0 \in 0..MaxCount /\ 0 \in 0..(ResetTimeout + 1)
  OBVIOUS
<1>3. ASSUME NEW t \in Threads,
             \/ BeginRead(t) \/ CheckExpired(t) \/ BecomeHalfOpen(t) \/ ResetSlots(t)
      PROVE  TypeOK'
  <2>1. pc' \in [Threads -> Labels] /\ preempted' \in BOOLEAN
    BY <1>1, <1>3
       DEF BeginRead, CheckExpired, BecomeHalfOpen, ResetSlots, Labels, Bookkeeping
  <2>2. QED
    BY <1>2, <1>3, <2>1
       DEF BeginRead, CheckExpired, BecomeHalfOpen, ResetSlots, Labels
<1>4. ASSUME NEW t \in Threads, ReturnState(t) PROVE TypeOK'
  <2>1. AfterRead(state) \in Labels
    BY DEF AfterRead, Labels, Bookkeeping, InFunction, Closed, Open, HalfOpen
  <2>2. "idle" \in Labels
    BY DEF Labels, Bookkeeping
  <2>3. pc' \in [Threads -> Labels] /\ preempted' \in BOOLEAN
    BY <1>1, <1>4, <2>1, <2>2 DEF ReturnState
  <2>4. QED
    BY <1>4, <2>3 DEF ReturnState, Labels
<1>5. ASSUME NEW t \in Threads,
             \/ CheckSlot(t) \/ LoadSlots(t) \/ StoreSlots(t)
             \/ FunctionReturns(t) \/ FunctionRaises(t)
      PROVE  TypeOK'
  <2>1. pc' \in [Threads -> Labels] /\ preempted' \in BOOLEAN
    BY <1>1, <1>5
       DEF CheckSlot, LoadSlots, StoreSlots, FunctionReturns, FunctionRaises, Labels,
           Bookkeeping, InFunction
  <2>2. QED
    BY <1>5, <2>1, BumpFacts
       DEF CheckSlot, LoadSlots, StoreSlots, FunctionReturns, FunctionRaises, Labels
<1>6. ASSUME NEW t \in Threads,
             \/ Close(t) \/ ClearFailures(t) \/ LoadFailures(t) \/ StoreFailures(t)
             \/ ReadClock(t) \/ StoreTime(t) \/ CheckFailures(t) \/ Trip(t)
      PROVE  TypeOK'
  <2>1. pc' \in [Threads -> Labels] /\ preempted' \in BOOLEAN
    BY <1>1, <1>6
       DEF Close, ClearFailures, LoadFailures, StoreFailures, ReadClock, StoreTime,
           CheckFailures, Trip, Labels, Bookkeeping, InFunction
  <2>2. QED
    BY <1>2, <1>6, <2>1, BumpFacts
       DEF Close, ClearFailures, LoadFailures, StoreFailures, ReadClock, StoreTime,
           CheckFailures, Trip, Labels
<1>7. CASE Tick
  BY <1>7, OlderFacts DEF Tick
<1>8. CASE UNCHANGED vars
  BY <1>8 DEF vars
<1>9. QED
  BY <1>3, <1>4, <1>5, <1>6, <1>7, <1>8 DEF Next

(* The attributes, the threads' accesses and the history keep their types. *)
THEOREM TypeCorrect == Spec => []TypeOK
BY InitialTypes, TypesStep, PTL DEF Spec
-----------------------------------------------------------------------------
(***************************************************************************)
(* NeverTripsEarly.  A failure whose update has not been stored is         *)
(* pending; whatever updates are lost or overwritten, no value that is or  *)
(* will be stored counts more failures than were raised and stored.        *)
(***************************************************************************)
Pending == {t \in Threads : pc[t] \in {"load_failures", "store_failures"}}

CountIsBehind ==
  failures < MaxCount =>
    /\ failureCount + Cardinality(Pending) <= failures
    /\ \A t \in Threads : pc[t] = "store_failures" =>
         loaded[t] + Cardinality(Pending) <= failures

Blamed ==
  /\ \A t \in Threads : pc[t] \in {"expired?", "half_open", "trip"} =>
       failures >= FailureThreshold
  /\ NeverTripsEarly

LEMMA PendingCount == IsFiniteSet(Pending) /\ Cardinality(Pending) \in Nat
BY ThreadsAssumption, FS_Subset, FS_CardinalityType DEF Pending

(* The count never exceeds the failures: that is what the test relies on. *)
LEMMA EnoughFailures ==
  ASSUME TypeOK, CountIsBehind, failureCount >= FailureThreshold
  PROVE  failures >= FailureThreshold
BY ThreadsAssumption, PendingCount DEF TypeOK, CountIsBehind

LEMMA CountStep ==
  ASSUME TypeOK, CountIsBehind, [Next]_vars
  PROVE  CountIsBehind'
<1> USE ThreadsAssumption
<1>1. ASSUME NEW t \in Threads, NEW from, NEW to, Step(t, from, to),
             from \notin {"load_failures", "store_failures"},
             to \notin {"load_failures", "store_failures"},
             failureCount' \in {0, failureCount},
             \A u \in Threads \ {t} : loaded'[u] = loaded[u],
             failures' = failures
      PROVE  CountIsBehind'
  <2>1. Pending' = Pending
    BY <1>1 DEF Pending, Step, TypeOK
  <2>2. \A u \in Threads : pc'[u] = "store_failures" => u # t /\ pc[u] = "store_failures"
    BY <1>1 DEF Step, TypeOK
  <2>3. CASE failures < MaxCount
    <3>1. failureCount' + Cardinality(Pending) <= failures
      BY <1>1, <2>3, PendingCount DEF CountIsBehind, TypeOK
    <3>2. QED
      BY <1>1, <2>1, <2>2, <2>3, <3>1 DEF CountIsBehind
  <2>4. CASE ~(failures < MaxCount)
    BY <1>1, <2>4 DEF CountIsBehind
  <2>5. QED
    BY <2>3, <2>4
<1>2. ASSUME NEW t \in Threads,
             \/ BeginRead(t) \/ CheckExpired(t) \/ BecomeHalfOpen(t) \/ ResetSlots(t)
             \/ CheckSlot(t) \/ StoreSlots(t) \/ FunctionReturns(t)
             \/ Close(t) \/ ClearFailures(t) \/ ReadClock(t) \/ StoreTime(t)
             \/ CheckFailures(t)
             \/ Trip(t)
      PROVE  CountIsBehind'
  BY <1>1, <1>2
     DEF BeginRead, CheckExpired, BecomeHalfOpen, ResetSlots, CheckSlot, StoreSlots,
         FunctionReturns, Close, ClearFailures, ReadClock, StoreTime, CheckFailures, Trip, shared
<1>3. ASSUME NEW t \in Threads, ReturnState(t) PROVE CountIsBehind'
  <2>1. AfterRead(state) \notin {"load_failures", "store_failures"}
    BY DEF TypeOK, AfterRead, Closed, Open, HalfOpen
  <2>2. QED
    BY <1>1, <1>3, <2>1 DEF ReturnState, shared
<1>4. ASSUME NEW t \in Threads, LoadSlots(t) PROVE CountIsBehind'
  <2>1. \A u \in Threads \ {t} : loaded'[u] = loaded[u]
    BY <1>4 DEF LoadSlots, TypeOK
  <2>2. QED
    BY <1>1, <1>4, <2>1 DEF LoadSlots, shared
<1>5. ASSUME NEW t \in Threads, FunctionRaises(t) PROVE CountIsBehind'
  <2> SUFFICES ASSUME failures' < MaxCount
               PROVE  /\ failureCount' + Cardinality(Pending') <= failures'
                      /\ \A u \in Threads : pc'[u] = "store_failures" =>
                           loaded'[u] + Cardinality(Pending') <= failures'
    BY DEF CountIsBehind
  <2>1. failures < MaxCount /\ failures' = failures + 1 /\ UNCHANGED <<failureCount, loaded>>
    BY <1>5 DEF FunctionRaises, Bump, TypeOK, shared
  <2>2. Pending' = Pending \union {t} /\ t \notin Pending
    BY <1>5 DEF FunctionRaises, Step, Pending, TypeOK
  <2>3. Cardinality(Pending') = Cardinality(Pending) + 1
    BY <2>2, PendingCount, FS_AddElement
  <2>4. \A u \in Threads : pc'[u] = "store_failures" => pc[u] = "store_failures"
    BY <1>5 DEF FunctionRaises, Step, TypeOK
  <2>5. failureCount + Cardinality(Pending) + 1 <= failures'
    BY <2>1, PendingCount DEF CountIsBehind, TypeOK
  <2>6. ASSUME NEW u \in Threads, pc'[u] = "store_failures"
        PROVE  loaded'[u] + Cardinality(Pending') <= failures'
    <3>1. loaded[u] + Cardinality(Pending) <= failures
      BY <2>1, <2>4, <2>6 DEF CountIsBehind
    <3>2. loaded[u] \in Nat /\ failures \in Nat
      BY DEF TypeOK
    <3>3. QED
      BY <2>1, <2>3, <3>1, <3>2, PendingCount
  <2>7. QED
    BY <2>1, <2>3, <2>5, <2>6, PendingCount DEF TypeOK
<1>6. ASSUME NEW t \in Threads, LoadFailures(t) PROVE CountIsBehind'
  <2>1. Pending' = Pending
    BY <1>6 DEF LoadFailures, Step, Pending, TypeOK
  <2>2. /\ UNCHANGED <<failures, failureCount>> /\ loaded'[t] = failureCount
        /\ \A u \in Threads \ {t} : loaded'[u] = loaded[u] /\ pc'[u] = pc[u]
    BY <1>6 DEF LoadFailures, Step, TypeOK, shared
  <2>3. QED
    BY <2>1, <2>2 DEF CountIsBehind
<1>7. ASSUME NEW t \in Threads, StoreFailures(t) PROVE CountIsBehind'
  <2> SUFFICES ASSUME failures' < MaxCount
               PROVE  /\ failureCount' + Cardinality(Pending') <= failures'
                      /\ \A u \in Threads : pc'[u] = "store_failures" =>
                           loaded'[u] + Cardinality(Pending') <= failures'
    BY DEF CountIsBehind
  <2>1. /\ failures' = failures /\ loaded' = loaded
        /\ failureCount' = Bump(loaded[t]) /\ pc[t] = "store_failures"
        /\ \A u \in Threads : pc'[u] = "store_failures" => pc[u] = "store_failures"
    BY <1>7 DEF StoreFailures, Step, TypeOK
  <2>2. Pending' = Pending \ {t} /\ t \in Pending
    BY <1>7 DEF StoreFailures, Step, Pending, TypeOK
  <2>3. Cardinality(Pending') = Cardinality(Pending) - 1
    BY <2>2, PendingCount, FS_RemoveElement
  <2>4. loaded[t] \in 0..MaxCount /\ failures \in Nat
    BY DEF TypeOK
  <2>5. failureCount' + Cardinality(Pending') <= failures
    <3>1. loaded[t] + Cardinality(Pending) <= failures
      BY <2>1 DEF CountIsBehind
    <3>2. failureCount' \in Nat /\ failureCount' <= loaded[t] + 1
      BY <2>1, <2>4, BumpFacts
    <3>3. QED
      BY <2>3, <2>4, <3>1, <3>2, PendingCount
  <2>6. ASSUME NEW u \in Threads, pc'[u] = "store_failures"
        PROVE  loaded'[u] + Cardinality(Pending') <= failures'
    <3>1. loaded[u] + Cardinality(Pending) <= failures /\ loaded[u] \in Nat
      BY <2>1, <2>6 DEF CountIsBehind, TypeOK
    <3>2. QED
      BY <2>1, <2>3, <2>4, <3>1, PendingCount
  <2>7. QED
    BY <2>1, <2>5, <2>6
<1>8. CASE Tick
  BY <1>8 DEF Tick, CountIsBehind, Pending
<1>9. CASE UNCHANGED vars
  BY <1>9 DEF vars, shared, CountIsBehind, Pending
<1>10. QED
  BY <1>2, <1>3, <1>4, <1>5, <1>6, <1>7, <1>8, <1>9 DEF Next

LEMMA BlamedStep ==
  ASSUME TypeOK, CountIsBehind, Blamed, [Next]_vars
  PROVE  Blamed'
<1> USE DEF Blamed, NeverTripsEarly, Step, TypeOK, shared
<1>1. failures' >= failures /\ failures' \in Nat /\ FailureThreshold \in Nat
  <2>1. failures' = failures \/ failures' = Bump(failures)
    BY DEF Next, vars, BeginRead, CheckExpired, BecomeHalfOpen, ResetSlots, ReturnState,
           CheckSlot, LoadSlots, StoreSlots, FunctionReturns, FunctionRaises, Close,
           ClearFailures, LoadFailures, StoreFailures, ReadClock, StoreTime, CheckFailures, Trip,
           Tick
  <2>2. QED
    BY <2>1, BumpFacts, ThreadsAssumption
<1>2. CASE failures >= FailureThreshold
  BY <1>1, <1>2
<1>3. CASE ~(failures >= FailureThreshold)
  <2>1. state = Closed /\ \A t \in Threads : pc[t] \notin {"expired?", "half_open", "trip"}
    BY <1>3
  <2>2. ~(failureCount >= FailureThreshold)
    BY <1>3, EnoughFailures
  <2>3. ASSUME NEW t \in Threads, BeginRead(t) PROVE Blamed'
    BY <2>1, <2>3 DEF BeginRead, Closed, Open
  <2>4. ASSUME NEW t \in Threads, ReturnState(t) PROVE Blamed'
    BY <2>1, <2>4 DEF ReturnState, AfterRead, Closed, Open, HalfOpen
  <2>5. ASSUME NEW t \in Threads,
               \/ ResetSlots(t) \/ CheckSlot(t) \/ LoadSlots(t) \/ StoreSlots(t)
               \/ FunctionReturns(t) \/ FunctionRaises(t)
        PROVE  Blamed'
    BY <2>1, <2>5
       DEF ResetSlots, CheckSlot, LoadSlots, StoreSlots, FunctionReturns, FunctionRaises
  <2>6. ASSUME NEW t \in Threads,
               \/ Close(t) \/ ClearFailures(t) \/ LoadFailures(t) \/ StoreFailures(t)
               \/ ReadClock(t) \/ StoreTime(t) \/ CheckFailures(t)
        PROVE  Blamed'
    BY <2>1, <2>2, <2>6
       DEF Close, ClearFailures, LoadFailures, StoreFailures, ReadClock, StoreTime, CheckFailures
  <2>7. ~ \E t \in Threads : CheckExpired(t) \/ BecomeHalfOpen(t) \/ Trip(t)
    BY <2>1 DEF CheckExpired, BecomeHalfOpen, Trip
  <2>8. CASE Tick
    BY <2>1, <2>8 DEF Tick
  <2>9. CASE UNCHANGED vars
    BY <2>1, <2>9 DEF vars
  <2>10. QED
    BY <2>3, <2>4, <2>5, <2>6, <2>7, <2>8, <2>9 DEF Next
<1>4. QED
  BY <1>2, <1>3

(* However the loads and stores of _failure_count interleave, the breaker  *)
(* is never out of CLOSED before failure_threshold functions have raised.  *)
THEOREM NeverAnyTripsEarly == Spec => []NeverTripsEarly
<1>1. Init => CountIsBehind /\ Blamed
  <2> SUFFICES ASSUME Init PROVE CountIsBehind /\ Blamed
    OBVIOUS
  <2>1. Pending = {}
    BY DEF Init, Pending
  <2>2. QED
    BY <2>1, FS_EmptySet DEF Init, CountIsBehind, Blamed, NeverTripsEarly
<1>2. TypeOK /\ CountIsBehind /\ Blamed /\ [Next]_vars => CountIsBehind' /\ Blamed'
  BY CountStep, BlamedStep
<1>3. Blamed => NeverTripsEarly
  BY DEF Blamed
<1>4. QED
  BY <1>1, <1>2, <1>3, TypeCorrect, PTL DEF Spec
-----------------------------------------------------------------------------
(***************************************************************************)
(* The refinement, until two threads are in the breaker's code at once.    *)
(* Until then the other threads are outside it: idle or in their function. *)
(***************************************************************************)
Outside == {"idle", "run"}

Alone(t) == \A u \in Threads \ {t} : pc[u] \in Outside

(* What the one thread inside knows, by where it is. *)
Knows(t) ==
  /\ pc[t] = "expired?" => state = Open
  /\ pc[t] = "half_open" => state = Open /\ sinceFailure > ResetTimeout
  /\ pc[t] = "slot?" => state = HalfOpen
  /\ pc[t] \in {"load_slots", "store_slots"} => state = HalfOpen /\ halfOpenCalls < HalfOpenMax
  /\ pc[t] = "store_slots" => loaded[t] = halfOpenCalls
  /\ pc[t] = "store_failures" => loaded[t] = failureCount
  /\ pc[t] = "read_clock" => failureCount = Bump(loaded[t])
  /\ pc[t] = "trip" => failureCount >= FailureThreshold
  /\ pc[t] \in {"expired?", "half_open", "reset_slots", "return_state", "slot?",
                "load_slots", "store_slots"} => t \notin probing

OneInside == \A t \in Threads : pc[t] \notin Outside => Alone(t) /\ Knows(t)

(* The views of the mapping, when no thread but t is inside. *)
ViewsWith(t) ==
  /\ StateView = IF pc[t] \in {"store_time", "too_many?", "trip"}
                    /\ failureCount >= FailureThreshold
                   THEN Open ELSE state
  /\ CountView = IF pc[t] = "clear" THEN 0
                 ELSE IF pc[t] = "read_clock" THEN loaded[t] ELSE failureCount
  /\ SinceView = IF pc[t] = "store_time" THEN stampAge[t] ELSE sinceFailure
  /\ SlotsView = IF pc[t] = "reset_slots" THEN 0 ELSE halfOpenCalls

LEMMA Views == \A t \in Threads : Alone(t) => ViewsWith(t)
<1> SUFFICES ASSUME NEW t \in Threads, Alone(t) PROVE ViewsWith(t)
  OBVIOUS
<1>1. \A label \in Labels \ Outside : At(label) <=> pc[t] = label
  BY DEF Alone, At
<1>2. {"store_time", "too_many?", "trip", "clear", "read_clock", "reset_slots"}
        \subseteq Labels \ Outside
  BY DEF Labels, Outside, Bookkeeping, InFunction
<1>3. /\ pc[t] = "read_clock" => (CHOOSE u \in Threads : pc[u] = "read_clock") = t
      /\ pc[t] = "store_time" => (CHOOSE u \in Threads : pc[u] = "store_time") = t
  BY DEF Alone, Outside
<1>4. StateView = IF /\ pc[t] \in {"store_time", "too_many?", "trip"}
                     /\ failureCount >= FailureThreshold
                    THEN Open ELSE state
  BY <1>1, <1>2 DEF StateView
<1>5. CountView = IF pc[t] = "clear" THEN 0
                  ELSE IF pc[t] = "read_clock" THEN loaded[t] ELSE failureCount
  <2>1. CASE pc[t] = "read_clock"
    BY <1>1, <1>2, <1>3, <2>1 DEF CountView
  <2>2. CASE pc[t] # "read_clock"
    BY <1>1, <1>2, <2>2 DEF CountView
  <2>3. QED
    BY <2>1, <2>2
<1>6. SinceView = IF pc[t] = "store_time" THEN stampAge[t] ELSE sinceFailure
  <2>1. CASE pc[t] = "store_time"
    BY <1>1, <1>2, <1>3, <2>1 DEF SinceView
  <2>2. CASE pc[t] # "store_time"
    BY <1>1, <1>2, <2>2 DEF SinceView
  <2>3. QED
    BY <2>1, <2>2
<1>7. SlotsView = IF pc[t] = "reset_slots" THEN 0 ELSE halfOpenCalls
  BY <1>1, <1>2 DEF SlotsView
<1>8. QED
  BY <1>4, <1>5, <1>6, <1>7 DEF ViewsWith

LEMMA ViewsNext == (\A t \in Threads : Alone(t) => ViewsWith(t))'
BY Views, PTL

(* What every step of a thread does to the others and to the running. *)
LEMMA AloneStep ==
  ASSUME TypeOK, NEW t \in Threads, NEW from, NEW to, Step(t, from, to), ~preempted'
  PROVE  /\ ~preempted /\ Alone(t) /\ Alone(t)'
         /\ ViewsWith(t) /\ ViewsWith(t)'
         /\ pc[t] = from /\ pc'[t] = to
         /\ Running' = IF to \in InFunction THEN Running \union {t} ELSE Running \ {t}
<1>1. \A u \in Threads \ {t} : pc[u] \in Outside /\ pc'[u] = pc[u]
  BY DEF Step, Busy, Outside, TypeOK
<1>2. Alone(t) /\ Alone(t)'
  BY <1>1 DEF Alone
<1>3. ViewsWith(t) /\ ViewsWith(t)'
  BY <1>2, Views, ViewsNext
<1>4. ~preempted /\ pc[t] = from /\ pc'[t] = to
  BY DEF Step, TypeOK
<1>5. Running' = IF to \in InFunction THEN Running \union {t} ELSE Running \ {t}
  BY <1>1, <1>4 DEF Running
<1>6. QED
  BY <1>2, <1>3, <1>4, <1>5

LEMMA OneInsideStep ==
  ASSUME TypeOK, OneInside, [Next]_vars, ~preempted'
  PROVE  OneInside'
<1> USE ThreadsAssumption
<1>1. ASSUME NEW t \in Threads, Alone(t)', Knows(t)' PROVE OneInside'
  BY <1>1 DEF OneInside, Alone
<1>2. ASSUME NEW t \in Threads, BeginRead(t) PROVE OneInside'
  <2>1. Alone(t)' /\ pc'[t] = IF state = Open THEN "expired?" ELSE "return_state"
    BY <1>2, AloneStep DEF BeginRead
  <2>2. Knows(t)'
    BY <1>2, <2>1 DEF BeginRead, Knows, shared
  <2>3. QED
    BY <1>1, <2>1, <2>2
<1>3. ASSUME NEW t \in Threads,
             \/ CheckExpired(t) \/ BecomeHalfOpen(t) \/ ResetSlots(t)
             \/ CheckSlot(t) \/ LoadSlots(t) \/ StoreSlots(t)
      PROVE  OneInside'
  <2>1. Alone(t)'
    BY <1>3, AloneStep
       DEF CheckExpired, BecomeHalfOpen, ResetSlots, CheckSlot, LoadSlots, StoreSlots
  <2>2. pc[t] \notin Outside
    BY <1>3 DEF CheckExpired, BecomeHalfOpen, ResetSlots, CheckSlot, LoadSlots, StoreSlots,
                Step, Outside
  <2>3. Knows(t)
    BY <2>2 DEF OneInside
  <2>4. Knows(t)'
    BY <1>3, <2>3
       DEF CheckExpired, BecomeHalfOpen, ResetSlots, CheckSlot, LoadSlots, StoreSlots,
           Step, Knows, TypeOK, shared
  <2>5. QED
    BY <1>1, <2>1, <2>4
<1>4. ASSUME NEW t \in Threads, ReturnState(t) PROVE OneInside'
  <2>1. /\ Alone(t)' /\ pc[t] = "return_state" /\ UNCHANGED <<shared, probing>>
        /\ pc'[t] \in {AfterRead(state), "idle"}
    BY <1>4, AloneStep DEF ReturnState
  <2>2. Knows(t)
    BY <2>1 DEF OneInside, Outside
  <2>3. \/ pc'[t] = "slot?" /\ state = HalfOpen
        \/ pc'[t] \in Outside
    BY <2>1 DEF TypeOK, AfterRead, Closed, Open, HalfOpen, Outside
  <2>4. Knows(t)'
    BY <2>1, <2>2, <2>3 DEF Knows, Outside, shared
  <2>5. QED
    BY <1>1, <2>1, <2>4
<1>5. ASSUME NEW t \in Threads,
             FunctionReturns(t) \/ FunctionRaises(t) \/ Close(t) \/ ClearFailures(t)
      PROVE  OneInside'
  <2>1. Alone(t)' /\ pc'[t] \in {"close", "load_failures", "clear", "idle"}
    BY <1>5, AloneStep DEF FunctionReturns, FunctionRaises, Close, ClearFailures
  <2>2. Knows(t)'
    BY <2>1 DEF Knows
  <2>3. QED
    BY <1>1, <2>1, <2>2
<1>6. ASSUME NEW t \in Threads,
             \/ LoadFailures(t) \/ StoreFailures(t) \/ ReadClock(t) \/ StoreTime(t)
             \/ CheckFailures(t) \/ Trip(t)
      PROVE  OneInside'
  <2>1. Alone(t)'
    BY <1>6, AloneStep
       DEF LoadFailures, StoreFailures, ReadClock, StoreTime, CheckFailures, Trip
  <2>2. pc[t] \notin Outside
    BY <1>6 DEF LoadFailures, StoreFailures, ReadClock, StoreTime, CheckFailures, Trip, Step, Outside
  <2>3. Knows(t)
    BY <2>2 DEF OneInside
  <2>4. Knows(t)'
    BY <1>6, <2>3
       DEF LoadFailures, StoreFailures, ReadClock, StoreTime, CheckFailures, Trip, Step, Knows,
           TypeOK, shared
  <2>5. QED
    BY <1>1, <2>1, <2>4
<1>7. CASE Tick
  BY <1>7, OlderFacts DEF Tick, OneInside, Alone, Knows, TypeOK
<1>8. CASE UNCHANGED vars
  BY <1>8 DEF vars, shared, OneInside, Alone, Knows
<1>9. QED
  BY <1>2, <1>3, <1>4, <1>5, <1>6, <1>7, <1>8 DEF Next
-----------------------------------------------------------------------------
(* Accesses that only move a thread on, or whose store the mapping hides,  *)
(* show nothing.                                                           *)
LEMMA QuietSteps ==
  ASSUME TypeOK, OneInside, ~preempted', NEW t \in Threads,
         \/ BeginRead(t) \/ CheckExpired(t) \/ ResetSlots(t) \/ CheckSlot(t) \/ LoadSlots(t)
         \/ FunctionReturns(t) \/ FunctionRaises(t) \/ ClearFailures(t)
         \/ LoadFailures(t) \/ StoreFailures(t) \/ StoreTime(t) \/ CheckFailures(t)
         \/ Trip(t)
  PROVE  UNCHANGED Sequential!vars
<1> USE ThreadsAssumption
<1>1. /\ ViewsWith(t) /\ ViewsWith(t)'
      /\ pc[t] \in InFunction <=> pc'[t] \in InFunction
      /\ Running' = IF pc'[t] \in InFunction THEN Running \union {t} ELSE Running \ {t}
      /\ probing' \in {probing, probing \ {t}}
      /\ pc'[t] \in InFunction => probing' = probing
  BY AloneStep
     DEF BeginRead, CheckExpired, ResetSlots, CheckSlot, LoadSlots, FunctionReturns,
         FunctionRaises, ClearFailures, LoadFailures, StoreFailures, StoreTime, CheckFailures, Trip,
         InFunction, shared
<1>2. UNCHANGED <<Running, Probes>>
  BY <1>1 DEF Running, Probes
<1>3. UNCHANGED <<StateView, CountView, SinceView, SlotsView>>
  <2>1. CASE pc[t] \notin Outside
    <3>1. Knows(t)
      BY <2>1 DEF OneInside
    <3>2. QED
      BY <1>1, <3>1
         DEF BeginRead, CheckExpired, ResetSlots, CheckSlot, LoadSlots, FunctionReturns,
             FunctionRaises, ClearFailures, LoadFailures, StoreFailures, StoreTime, CheckFailures,
             Trip, Step, ViewsWith, Knows, TypeOK, shared
  <2>2. CASE pc[t] \in Outside
    BY <1>1, <2>2
       DEF BeginRead, CheckExpired, ResetSlots, CheckSlot, LoadSlots, FunctionReturns,
           FunctionRaises, ClearFailures, LoadFailures, StoreFailures, StoreTime, CheckFailures,
           Trip, Step, ViewsWith, TypeOK, shared, Outside
  <2>3. QED
    BY <2>1, <2>2
<1>4. QED
  BY <1>1, <1>2, <1>3 DEF Sequential!vars

(* The store of HALF_OPEN is the read of the property that ends OPEN. *)
LEMMA BecomeHalfOpenReads ==
  ASSUME TypeOK, OneInside, ~preempted', NEW t \in Threads, BecomeHalfOpen(t)
  PROVE  Sequential!ReadState
<1>1. /\ ViewsWith(t) /\ ViewsWith(t)' /\ pc[t] = "half_open" /\ pc'[t] = "reset_slots"
      /\ Running' = Running \ {t}
  BY AloneStep DEF BecomeHalfOpen, InFunction
<1>2. state = Open /\ sinceFailure > ResetTimeout
  BY <1>1 DEF OneInside, Knows, Outside
<1>3. /\ state' = HalfOpen /\ probing' = {}
      /\ UNCHANGED <<failureCount, sinceFailure>>
  BY DEF BecomeHalfOpen
<1>4. UNCHANGED Running /\ Probes' = {}
  BY <1>1, <1>3 DEF Running, Probes, InFunction
<1>5. /\ StateView = Open /\ StateView' = HalfOpen /\ SlotsView' = 0
      /\ SinceView = sinceFailure /\ UNCHANGED <<CountView, SinceView>>
  BY <1>1, <1>2, <1>3 DEF ViewsWith
<1>6. Sequential!TimedOut
  BY <1>2, <1>5 DEF Sequential!TimedOut, Sequential!Open, Open
<1>7. QED
  BY <1>3, <1>4, <1>5, <1>6
     DEF Sequential!ReadState, Sequential!StateSeen, Sequential!CallsSeen,
         Sequential!EpisodeSeen, Sequential!LostSeen, Sequential!HalfOpen, HalfOpen

(* A thread that enters its function is admitted. *)
LEMMA EnteringAdmits ==
  ASSUME TypeOK, OneInside, ~preempted', NEW t \in Threads,
         ReturnState(t) \/ StoreSlots(t), pc'[t] = "run"
  PROVE  Sequential!Admit(t)
<1> USE ThreadsAssumption
<1>1. /\ ViewsWith(t) /\ ViewsWith(t)' /\ Knows(t)
      /\ pc[t] \in {"return_state", "store_slots"}
      /\ Running' = Running \union {t} /\ t \notin Running
  <2>1. /\ ViewsWith(t) /\ ViewsWith(t)' /\ pc[t] \in {"return_state", "store_slots"}
        /\ Running' = Running \union {t}
    BY AloneStep DEF ReturnState, StoreSlots, InFunction
  <2>2. Knows(t) /\ t \notin Running
    BY <2>1 DEF OneInside, Outside, Running, InFunction
  <2>3. QED
    BY <2>1, <2>2
<1>2. UNCHANGED <<state, failureCount, sinceFailure>>
  BY DEF ReturnState, StoreSlots, shared
<1>3. UNCHANGED <<StateView, CountView, SinceView>> /\ StateView = state
      /\ SlotsView = halfOpenCalls /\ SlotsView' = halfOpenCalls'
  BY <1>1, <1>2 DEF ViewsWith
<1>4. CASE ReturnState(t)
  <2>1. pc[t] = "return_state" /\ UNCHANGED <<halfOpenCalls, probing>>
    BY <1>4 DEF ReturnState, Step, shared
  <2>2. state = Closed
    <3>1. pc'[t] \in {AfterRead(state), "idle"}
      BY <1>4 DEF ReturnState, Step, TypeOK
    <3>2. QED
      BY <3>1 DEF AfterRead, TypeOK, Closed, Open, HalfOpen
  <2>3. t \notin probing
    BY <1>1, <2>1 DEF Knows
  <2>4. UNCHANGED Probes
    BY <1>1, <2>1, <2>3 DEF Probes
  <2>5. ~Sequential!TimedOut /\ Sequential!StateSeen = Closed
    BY <1>3, <2>2 DEF Sequential!TimedOut, Sequential!StateSeen, Sequential!Open, Closed
  <2>6. QED
    BY <1>1, <1>2, <1>3, <2>1, <2>2, <2>4, <2>5
       DEF Sequential!Admit, Sequential!Refused, Sequential!Open, Sequential!HalfOpen, Closed
<1>5. CASE StoreSlots(t)
  <2>1. /\ pc[t] = "store_slots" /\ halfOpenCalls' = Bump(loaded[t])
        /\ probing' = probing \union {t}
    BY <1>5 DEF StoreSlots, Step
  <2>2. state = HalfOpen /\ halfOpenCalls < HalfOpenMax /\ loaded[t] = halfOpenCalls
    BY <1>1, <2>1 DEF Knows
  <2>3. halfOpenCalls' = halfOpenCalls + 1
    BY <2>1, <2>2 DEF Bump, TypeOK
  <2>4. Probes' = Probes \union {t}
    BY <1>1, <2>1 DEF Probes
  <2>5. /\ ~Sequential!TimedOut /\ Sequential!StateSeen = HalfOpen
        /\ Sequential!CallsSeen = halfOpenCalls /\ Sequential!EpisodeSeen = Probes
        /\ Sequential!LostSeen = 0
    BY <1>3, <2>2
       DEF Sequential!TimedOut, Sequential!StateSeen, Sequential!CallsSeen,
           Sequential!EpisodeSeen, Sequential!LostSeen, Sequential!Open, HalfOpen
  <2>6. ~Sequential!Refused
    BY <2>2, <2>5 DEF Sequential!Refused, Sequential!Open, HalfOpen, TypeOK
  <2>7. QED
    BY <1>1, <1>2, <1>3, <2>2, <2>3, <2>4, <2>5, <2>6
       DEF Sequential!Admit, Sequential!HalfOpen, HalfOpen
<1>6. QED
  BY <1>4, <1>5

(* Whoever reads the state and does not go on to the function shows        *)
(* nothing.                                                                *)
LEMMA LeavingIsQuiet ==
  ASSUME TypeOK, OneInside, ~preempted', NEW t \in Threads, ReturnState(t), pc'[t] # "run"
  PROVE  UNCHANGED Sequential!vars
<1>1. pc'[t] \in {"slot?", "idle"}
  <2>1. pc'[t] \in {AfterRead(state), "idle"}
    BY DEF ReturnState, Step, TypeOK
  <2>2. QED
    BY <2>1 DEF AfterRead, TypeOK, Closed, Open, HalfOpen
<1>2. /\ ViewsWith(t) /\ ViewsWith(t)' /\ pc[t] = "return_state"
      /\ Running' = IF pc'[t] \in InFunction THEN Running \union {t} ELSE Running \ {t}
      /\ UNCHANGED <<shared, loaded, probing>>
  BY AloneStep DEF ReturnState
<1>3. UNCHANGED <<Running, Probes>>
  BY <1>1, <1>2 DEF Running, Probes, InFunction
<1>4. UNCHANGED <<StateView, CountView, SinceView, SlotsView>>
  BY <1>1, <1>2 DEF ViewsWith, shared
<1>5. QED
  BY <1>2, <1>3, <1>4 DEF Sequential!vars, shared

(* _on_success takes effect with its first store. *)
LEMMA CloseSucceeds ==
  ASSUME TypeOK, OneInside, ~preempted', NEW t \in Threads, Close(t)
  PROVE  Sequential!Succeed(t)
<1>1. /\ ViewsWith(t) /\ ViewsWith(t)' /\ pc[t] = "close" /\ pc'[t] = "clear"
      /\ Running' = Running \ {t}
  BY AloneStep DEF Close, InFunction
<1>2. state' = Closed /\ UNCHANGED <<sinceFailure, halfOpenCalls, probing>>
  BY DEF Close
<1>3. t \in Running /\ Probes' = Probes \ {t}
  BY <1>1, <1>2 DEF Running, Probes, InFunction
<1>4. StateView' = Closed /\ CountView' = 0 /\ UNCHANGED <<SinceView, SlotsView>>
  BY <1>1, <1>2 DEF ViewsWith
<1>5. QED
  BY <1>1, <1>2, <1>3, <1>4
     DEF Sequential!Succeed, Sequential!Leave, Sequential!Closed, Closed

(* _on_failure takes effect when it reads its time. *)
LEMMA ClockReadFails ==
  ASSUME TypeOK, OneInside, ~preempted', NEW t \in Threads, ReadClock(t)
  PROVE  Sequential!Fail(t)
<1>1. /\ ViewsWith(t) /\ ViewsWith(t)' /\ pc[t] = "read_clock" /\ pc'[t] = "store_time"
      /\ Running' = Running \ {t}
  BY AloneStep DEF ReadClock, StoreTime, InFunction
<1>2. stampAge'[t] = 0 /\ UNCHANGED <<state, failureCount, halfOpenCalls, probing>>
  BY DEF ReadClock, TypeOK, shared
<1>3. failureCount = Bump(loaded[t])
  BY <1>1 DEF OneInside, Knows, Outside
<1>4. t \in Running /\ Probes' = Probes \ {t}
  BY <1>1, <1>2 DEF Running, Probes, InFunction
<1>5. /\ StateView = state /\ CountView = loaded[t] /\ CountView' = Bump(loaded[t])
      /\ StateView' = IF failureCount >= FailureThreshold THEN Open ELSE state
      /\ SinceView' = 0 /\ UNCHANGED SlotsView
  BY <1>1, <1>2, <1>3 DEF ViewsWith
<1>6. CountView' = Sequential!CountFailure
  BY <1>5 DEF Sequential!CountFailure, Bump
<1>7. StateView' = IF Sequential!TooMany(CountView') THEN Sequential!Open ELSE StateView
  BY <1>3, <1>5 DEF Sequential!TooMany, Sequential!Open, Open
<1>8. QED
  BY <1>1, <1>2, <1>4, <1>5, <1>6, <1>7 DEF Sequential!Fail, Sequential!Leave

LEMMA SequentialStep ==
  ASSUME TypeOK, OneInside, [Next]_vars, ~preempted'
  PROVE  [Sequential!Next]_(Sequential!vars)
<1>1. ASSUME NEW t \in Threads, ReturnState(t) PROVE [Sequential!Next]_(Sequential!vars)
  BY <1>1, EnteringAdmits, LeavingIsQuiet DEF Sequential!Next
<1>2. ASSUME NEW t \in Threads, StoreSlots(t) PROVE Sequential!Next
  <2>1. pc'[t] = "run"
    BY <1>2 DEF StoreSlots, Step, TypeOK
  <2>2. QED
    BY <1>2, <2>1, EnteringAdmits DEF Sequential!Next
<1>3. ASSUME NEW t \in Threads, BecomeHalfOpen(t) \/ Close(t) \/ ReadClock(t)
      PROVE  Sequential!Next
  BY <1>3, BecomeHalfOpenReads, CloseSucceeds, ClockReadFails
     DEF Sequential!Next, Sequential!Return
<1>4. CASE Tick
  <2>1. UNCHANGED <<StateView, CountView, SlotsView, Running, Probes>>
    BY <1>4 DEF Tick, StateView, CountView, SlotsView, Running, Probes, At
  <2>2. SinceView \in 0..(ResetTimeout + 1) /\ SinceView' = Older(SinceView)
    BY <1>4 DEF Tick, SinceView, At, TypeOK
  <2>3. Sequential!Tick \/ UNCHANGED Sequential!vars
    BY <2>1, <2>2, OlderFacts DEF Sequential!Tick, Sequential!vars
  <2>4. QED
    BY <2>3 DEF Sequential!Next
<1>5. CASE UNCHANGED vars
  BY <1>5 DEF vars, shared, Sequential!vars, StateView, CountView, SinceView,
              SlotsView, Running, Probes, At
<1>6. QED
  BY <1>1, <1>2, <1>3, <1>4, <1>5, QuietSteps DEF Next

LEMMA PreemptedStays ==
  ASSUME TypeOK, [Next]_vars, ~preempted'
  PROVE  ~preempted
BY DEF Next, vars, TypeOK, BeginRead, CheckExpired, BecomeHalfOpen, ResetSlots,
       ReturnState, CheckSlot, LoadSlots, StoreSlots, FunctionReturns, FunctionRaises,
       Close, ClearFailures, LoadFailures, StoreFailures, ReadClock, StoreTime, CheckFailures,
       Trip, Tick, Step

LEMMA InitialBreakerShown == Init => Sequential!Init
<1> SUFFICES ASSUME Init PROVE Sequential!Init
  OBVIOUS
<1>1. \A label \in {"store_time", "too_many?", "trip", "clear", "read_clock",
                      "reset_slots"} : ~At(label)
  BY DEF Init, At
<1>2. StateView = Closed /\ CountView = 0 /\ SinceView = 0 /\ SlotsView = 0
  BY <1>1 DEF Init, StateView, CountView, SinceView, SlotsView
<1>3. Running = {} /\ Probes = {}
  BY DEF Init, Running, Probes, InFunction
<1>4. QED
  BY <1>2, <1>3 DEF Init, Sequential!Init, Sequential!Closed, Closed

(* While no thread is switched inside the breaker's own code, any number   *)
(* of threads with any number of overlapping calls see the atomic breaker  *)
(* of module CircuitBreaker, whose theorems hold of them.                  *)
THEOREM AlwaysSequentialUntilPreempted == Spec => SequentialUntilPreempted
<1>1. Init => Sequential!Init
  BY InitialBreakerShown
<1>2. Init => OneInside
  BY DEF Init, OneInside, Outside
<1>3. TypeOK /\ (preempted \/ OneInside) /\ [Next]_vars => (preempted \/ OneInside)'
  <2> SUFFICES ASSUME TypeOK, preempted \/ OneInside, [Next]_vars, ~preempted'
               PROVE  OneInside'
    OBVIOUS
  <2> QED
    BY PreemptedStays, OneInsideStep
<1>4. TypeOK /\ (preempted \/ OneInside) /\ [Next]_vars
        => [preempted' \/ [Sequential!Next]_(Sequential!vars)]_vars
  <2> SUFFICES ASSUME TypeOK, preempted \/ OneInside, [Next]_vars, ~preempted'
               PROVE  [Sequential!Next]_(Sequential!vars)
    OBVIOUS
  <2> QED
    BY PreemptedStays, SequentialStep
<1>5. QED
  BY <1>1, <1>2, <1>3, <1>4, TypeCorrect, PTL DEF Spec, SequentialUntilPreempted
-----------------------------------------------------------------------------
(***************************************************************************)
(* What is proved of the atomic breaker, of the one these threads show.    *)
(* CB is the breaker of the mapping under the name of its proofs.          *)
(***************************************************************************)
CB ==
  INSTANCE CircuitBreakerProofs WITH
    Callers <- Threads, EscapingCallers <- {}, lost <- 0, serviceUp <- FALSE,
    MaxSetBacks <- 0, setBacks <- 0,
    MaxFailures <- MaxCount,
    state <- StateView, failureCount <- CountView, halfOpenCalls <- SlotsView,
    sinceFailure <- SinceView, running <- Running, probes <- Probes

LEMMA ParametersOfTheBreaker == CB!BreakerAssumption
<1>1. CB!IsFiniteSet(Threads)
  BY ThreadsAssumption DEF IsFiniteSet, CB!IsFiniteSet
<1>2. QED
  BY <1>1, ThreadsAssumption

LEMMA SameBreaker == [Sequential!Next]_(Sequential!vars) => [CB!Next]_(CB!vars)
<1>1. Sequential!vars = CB!vars /\ Sequential!vars' = CB!vars'
  BY DEF Sequential!vars, CB!vars
<1> USE DEF Sequential!StateSeen, CB!StateSeen, Sequential!CallsSeen, CB!CallsSeen,
            Sequential!EpisodeSeen, CB!EpisodeSeen, Sequential!LostSeen, CB!LostSeen,
            Sequential!TimedOut, CB!TimedOut, Sequential!Open, CB!Open,
            Sequential!HalfOpen, CB!HalfOpen, Sequential!Closed, CB!Closed
<1>2. Sequential!ReadState => CB!ReadState
  BY DEF Sequential!ReadState, CB!ReadState
<1>3. Sequential!Refused = CB!Refused
  BY DEF Sequential!Refused, CB!Refused
<1>4. \A c \in Threads : (Sequential!Reject(c) => CB!Reject(c)) /\ (Sequential!Admit(c) => CB!Admit(c))
  BY <1>2, <1>3 DEF Sequential!Reject, CB!Reject, Sequential!Admit, CB!Admit
<1>5. \A c \in Threads : Sequential!Return(c) => CB!Return(c)
  BY DEF Sequential!Return, CB!Return, Sequential!Succeed, CB!Succeed, Sequential!Fail,
         CB!Fail, Sequential!Escape, CB!Escape, Sequential!Leave, CB!Leave,
         Sequential!CountFailure, CB!CountFailure, Sequential!TooMany, CB!TooMany
<1>6. /\ Sequential!Tick => CB!Tick
      /\ Sequential!SetBack => CB!SetBack
      /\ Sequential!Recover => CB!Recover
  BY DEF Sequential!Tick, CB!Tick, Sequential!SetBack, CB!SetBack, Sequential!Recover,
         CB!Recover
<1>7. QED
  BY <1>1, <1>2, <1>4, <1>5, <1>6 DEF Sequential!Next, CB!Next

(* Until the first preemption the breaker the threads show keeps the       *)
(* invariant of the atomic one.                                            *)
BreakerHolds == preempted \/ (OneInside /\ CB!BreakerInv)

LEMMA BreakerHoldsStep ==
  ASSUME TypeOK, BreakerHolds, [Next]_vars
  PROVE  BreakerHolds'
<1> SUFFICES ASSUME ~preempted' PROVE OneInside' /\ CB!BreakerInv'
  BY DEF BreakerHolds
<1>1. OneInside /\ CB!BreakerInv
  BY PreemptedStays DEF BreakerHolds
<1>2. OneInside'
  BY <1>1, OneInsideStep
<1>3. [CB!Next]_(CB!vars)
  BY <1>1, SequentialStep, SameBreaker
<1>4. CB!BreakerInv'
  BY <1>1, <1>3, CB!BreakerStep, ParametersOfTheBreaker
<1>5. QED
  BY <1>2, <1>4

LEMMA BreakerHoldsAlways == Spec => []BreakerHolds
<1>1. Init => OneInside /\ CB!Init
  <2>1. Init => Sequential!Init
    BY InitialBreakerShown
  <2>2. Sequential!Init => CB!Init
    BY DEF Sequential!Init, CB!Init, Sequential!Closed, CB!Closed
  <2>3. Init => OneInside
    BY DEF Init, OneInside, Outside
  <2>4. QED
    BY <2>1, <2>2, <2>3
<1>2. Init => BreakerHolds
  BY <1>1, CB!InitialBreaker, ParametersOfTheBreaker DEF BreakerHolds
<1>3. QED
  BY <1>2, BreakerHoldsStep, TypeCorrect, PTL DEF Spec

(* That a half-open breaker is left without a slot by a success that races *)
(* a failure takes a preemption: as long as threads are switched only in   *)
(* the protected function, a breaker with no call under way has a slot for *)
(* the next request.                                                       *)
THEOREM IdleBreakerAdmitsUntilPreempted == Spec => [](preempted \/ IdleBreakerAdmits)
<1>1. ASSUME CB!BreakerInv PROVE IdleBreakerAdmits
  <2> SUFFICES ASSUME state = HalfOpen, \A t \in Threads : pc[t] = "idle"
               PROVE  halfOpenCalls < HalfOpenMax
    BY DEF IdleBreakerAdmits
  <2>1. \A label \in {"store_time", "too_many?", "trip", "reset_slots"} : ~At(label)
    BY DEF At
  <2>2. StateView = CB!HalfOpen /\ SlotsView = halfOpenCalls
    BY <2>1 DEF StateView, SlotsView, CB!HalfOpen, HalfOpen
  <2>3. Probes = {}
    BY DEF Probes, Running, InFunction
  <2>4. CB!Cardinality({}) = 0
    BY FS_EmptySet DEF CB!Cardinality, Cardinality
  <2>5. halfOpenCalls = 0
    BY <1>1, <2>2, <2>3, <2>4 DEF CB!BreakerInv, CB!SlotsAreRunning
  <2>6. QED
    BY <2>5, ThreadsAssumption
<1>2. BreakerHolds => preempted \/ IdleBreakerAdmits
  BY <1>1 DEF BreakerHolds
<1>3. QED
  BY <1>2, BreakerHoldsAlways, PTL
=============================================================================
