------------------------ MODULE CircuitBreakerThreads -----------------------
(***************************************************************************)
(* The CircuitBreaker of utils/resilience.py under preemptive threads.     *)
(* The class takes no lock, so every load and store of an attribute is a   *)
(* step of its own and threads interleave between any two of them (as the  *)
(* interpreters the package supports, 3.8 and 3.9 included, may do).       *)
(*                                                                         *)
(* As long as threads are switched only inside the protected function this *)
(* implements CircuitBreaker; with preemption it does not.                 *)
(***************************************************************************)
EXTENDS Integers, FiniteSets

CONSTANTS
  Threads,
  FailureThreshold, ResetTimeout, HalfOpenMax, \* as in CircuitBreaker
  MaxCount          \* bound of the model: both counts stop growing here, above
                    \* the limits they are compared with

ASSUME ThreadsAssumption ==
  /\ IsFiniteSet(Threads)
  /\ FailureThreshold \in Nat \ {0}
  /\ ResetTimeout \in Nat
  /\ HalfOpenMax \in Nat \ {0}
  /\ MaxCount \in Nat
  /\ MaxCount >= FailureThreshold
  /\ MaxCount >= HalfOpenMax

VARIABLES
  state, failureCount, sinceFailure, halfOpenCalls, \* as in CircuitBreaker
  pc,       \* pc[t]: the access thread t performs next
  loaded,   \* loaded[t]: the operand of a "+= 1" between its load and store
  stampAge, \* stampAge[t]: the age of the time t has read and not yet stored
  failures, \* history: how many protected functions have raised
  preempted,\* history: two threads have been in the bookkeeping at once
  probing   \* history: the threads that have taken a slot since the breaker
            \* last became half-open

shared == <<state, failureCount, sinceFailure, halfOpenCalls>>
vars   == <<shared, pc, loaded, stampAge, failures, preempted, probing>>

Closed   == "closed"
Open     == "open"
HalfOpen == "half_open"

Bookkeeping == {"idle", "expired?", "half_open", "reset_slots", "return_state",
                "slot?", "load_slots", "store_slots", "clear", "store_time", "too_many?",
                "trip"}
InFunction  == {"run", "close", "load_failures", "store_failures", "read_clock"}

TypeOK ==
  /\ state \in {Closed, Open, HalfOpen}
  /\ failureCount \in 0..MaxCount
  /\ sinceFailure \in 0..(ResetTimeout + 1)
  /\ halfOpenCalls \in 0..MaxCount
  /\ pc \in [Threads -> Bookkeeping \union InFunction]
  /\ loaded \in [Threads -> 0..MaxCount]
  /\ stampAge \in [Threads -> 0..(ResetTimeout + 1)]
  /\ failures \in 0..MaxCount
  /\ preempted \in BOOLEAN
  /\ probing \subseteq Threads

Init ==
  /\ state = Closed
  /\ failureCount = 0
  /\ sinceFailure = 0
  /\ halfOpenCalls = 0
  /\ pc = [t \in Threads |-> "idle"]
  /\ loaded = [t \in Threads |-> 0]
  /\ stampAge = [t \in Threads |-> 0]
  /\ failures = 0
  /\ preempted = FALSE
  /\ probing = {}

Bump(n) == IF n < MaxCount THEN n + 1 ELSE n

Busy(at) == {t \in Threads : at[t] \notin {"idle", "run"}}

(* Every step moves a thread, and notes whether two are in the breaker.    *)
Step(t, from, to) ==
  /\ pc[t] = from
  /\ pc' = [pc EXCEPT ![t] = to]
  /\ preempted' = (preempted \/ Busy(pc) \ {t} # {})
-----------------------------------------------------------------------------
(* The state property, on behalf of call() or of any other reader. *)
BeginRead(t) ==
  /\ Step(t, "idle", IF state = Open THEN "expired?" ELSE "return_state")
  /\ probing' = probing \ {t}
  /\ UNCHANGED <<shared, loaded, stampAge, failures>>

CheckExpiredEarly(t) ==                         \* mutant: >= for >
  /\ Step(t, "expired?", IF sinceFailure >= ResetTimeout THEN "half_open"
                                                         ELSE "return_state")
  /\ UNCHANGED <<shared, loaded, stampAge, failures, probing>>

(* time.time() and the stamp are read at one moment: a stamp stored between *)
(* the two reads only makes the difference smaller.                        *)
CheckExpired(t) ==
  /\ Step(t, "expired?", IF sinceFailure > ResetTimeout THEN "half_open"
                                                        ELSE "return_state")
  /\ UNCHANGED <<shared, loaded, stampAge, failures, probing>>

BecomeHalfOpen(t) ==
  /\ Step(t, "half_open", "reset_slots")
  /\ state' = HalfOpen
  /\ probing' = {}
  /\ UNCHANGED <<failureCount, sinceFailure, halfOpenCalls, loaded, stampAge, failures>>

ResetSlots(t) ==
  /\ Step(t, "reset_slots", "return_state")
  /\ halfOpenCalls' = 0
  /\ UNCHANGED <<state, failureCount, sinceFailure, loaded, stampAge, failures, probing>>

AfterRead(s) == CASE s = Closed   -> "run"
                  [] s = HalfOpen -> "slot?"
                  [] s = Open     -> "idle"      \* CircuitOpenError

(* The property reads _state again, and current_state decides what call()  *)
(* does; a mere reader of the property is done.                            *)
ReturnState(t) ==
  /\ \/ Step(t, "return_state", AfterRead(state))
     \/ Step(t, "return_state", "idle")
  /\ UNCHANGED <<shared, loaded, stampAge, failures, probing>>
-----------------------------------------------------------------------------
(* call(): one slot per probe, then the function. *)
CheckSlot(t) ==
  /\ Step(t, "slot?", IF halfOpenCalls >= HalfOpenMax THEN "idle" ELSE "load_slots")
  /\ UNCHANGED <<shared, loaded, stampAge, failures, probing>>

LoadSlots(t) ==
  /\ Step(t, "load_slots", "store_slots")
  /\ loaded' = [loaded EXCEPT ![t] = halfOpenCalls]
  /\ UNCHANGED <<shared, stampAge, failures, probing>>

StoreSlots(t) ==
  /\ Step(t, "store_slots", "run")
  /\ halfOpenCalls' = Bump(loaded[t])
  /\ probing' = probing \union {t}
  /\ UNCHANGED <<state, failureCount, sinceFailure, loaded, stampAge, failures>>

FunctionReturnsReleasing(t) ==                  \* mutant: frees a slot
  /\ Step(t, "run", "close")
  /\ halfOpenCalls' = halfOpenCalls - 1
  /\ UNCHANGED <<state, failureCount, sinceFailure, loaded, stampAge, failures, probing>>

FunctionReturns(t) ==
  /\ Step(t, "run", "close")
  /\ UNCHANGED <<shared, loaded, stampAge, failures, probing>>

FunctionRaises(t) ==
  /\ Step(t, "run", "load_failures")
  /\ failures' = Bump(failures)
  /\ UNCHANGED <<shared, loaded, stampAge, probing>>
-----------------------------------------------------------------------------
(* _on_success *)
Close(t) ==
  /\ Step(t, "close", "clear")
  /\ state' = Closed
  /\ UNCHANGED <<failureCount, sinceFailure, halfOpenCalls, loaded, stampAge, failures,
                 probing>>

ClearFailures(t) ==
  /\ Step(t, "clear", "idle")
  /\ failureCount' = 0
  /\ UNCHANGED <<state, sinceFailure, halfOpenCalls, loaded, stampAge, failures, probing>>

(* _on_failure *)
LoadFailures(t) ==
  /\ Step(t, "load_failures", "store_failures")
  /\ loaded' = [loaded EXCEPT ![t] = failureCount]
  /\ UNCHANGED <<shared, stampAge, failures, probing>>

StoreFailures(t) ==
  /\ Step(t, "store_failures", "read_clock")
  /\ failureCount' = Bump(loaded[t])
  /\ UNCHANGED <<state, sinceFailure, halfOpenCalls, loaded, stampAge, failures, probing>>

(* The time is read in one step and stored in a later one: a thread that   *)
(* is switched in between stores an older time than others may have.       *)
ReadClock(t) ==
  /\ Step(t, "read_clock", "store_time")
  /\ stampAge' = [stampAge EXCEPT ![t] = 0]
  /\ UNCHANGED <<shared, loaded, failures, probing>>

StoreTime(t) ==
  /\ Step(t, "store_time", "too_many?")
  /\ sinceFailure' = stampAge[t]
  /\ stampAge' = [stampAge EXCEPT ![t] = 0]
  /\ UNCHANGED <<state, failureCount, halfOpenCalls, loaded, failures, probing>>

CheckFailuresOffByOne(t) ==                     \* mutant: trips one too early
  /\ Step(t, "too_many?", IF failureCount + 1 >= FailureThreshold THEN "trip" ELSE "idle")
  /\ UNCHANGED <<shared, loaded, stampAge, failures, probing>>

CheckFailures(t) ==
  /\ Step(t, "too_many?", IF failureCount >= FailureThreshold THEN "trip" ELSE "idle")
  /\ UNCHANGED <<shared, loaded, stampAge, failures, probing>>

Trip(t) ==
  /\ Step(t, "trip", "idle")
  /\ state' = Open
  /\ UNCHANGED <<failureCount, sinceFailure, halfOpenCalls, loaded, stampAge, failures,
                 probing>>

Older(age) == IF age <= ResetTimeout THEN age + 1 ELSE age

(* Time passes for the stored stamp and for those that are on their way. *)
Tick ==
  /\ sinceFailure' = Older(sinceFailure)
  /\ stampAge' = [t \in Threads |-> IF pc[t] = "store_time" THEN Older(stampAge[t])
                                                           ELSE stampAge[t]]
  /\ UNCHANGED <<state, failureCount, halfOpenCalls, pc, loaded, failures, preempted,
                 probing>>

Next ==
  \/ \E t \in Threads :
       \/ BeginRead(t) \/ CheckExpired(t) \/ BecomeHalfOpen(t) \/ ResetSlots(t)
       \/ ReturnState(t) \/ CheckSlot(t) \/ LoadSlots(t) \/ StoreSlots(t)
       \/ FunctionReturns(t) \/ FunctionRaises(t)
       \/ Close(t) \/ ClearFailures(t)
       \/ LoadFailures(t) \/ StoreFailures(t) \/ ReadClock(t) \/ StoreTime(t)
       \/ CheckFailures(t) \/ Trip(t)
  \/ Tick

Spec == Init /\ [][Next]_vars
-----------------------------------------------------------------------------
(* The threads inside call() between admission and the recorded outcome. *)
Running == {t \in Threads : pc[t] \in InFunction}
Probes  == Running \intersect probing

(***************************************************************************)
(* Refinement, without preemption.  A success takes effect with its first  *)
(* store, a failure when it reads its time, the move to HALF_OPEN with the *)
(* store of the state.                                                     *)
(***************************************************************************)
At(label) == \E t \in Threads : pc[t] = label

StateView == IF /\ At("store_time") \/ At("too_many?") \/ At("trip")
                /\ failureCount >= FailureThreshold
               THEN Open ELSE state
CountView == CASE At("clear")      -> 0
               [] At("read_clock") -> loaded[CHOOSE t \in Threads : pc[t] = "read_clock"]
               [] OTHER            -> failureCount
SinceView == IF At("store_time")
               THEN stampAge[CHOOSE t \in Threads : pc[t] = "store_time"]
               ELSE sinceFailure
SlotsView == IF At("reset_slots") THEN 0 ELSE halfOpenCalls

Sequential ==
  INSTANCE CircuitBreaker WITH
    Callers <- Threads, EscapingCallers <- {}, lost <- 0, serviceUp <- FALSE,
    MaxSetBacks <- 0, setBacks <- 0,
    MaxFailures <- MaxCount,
    state <- StateView, failureCount <- CountView, halfOpenCalls <- SlotsView,
    sinceFailure <- SinceView, running <- Running, probes <- Probes

(* While no thread is switched inside the breaker's own code, with any     *)
(* number of overlapping calls, the access-by-access code is the breaker   *)
(* of module CircuitBreaker step for step: no intermediate store shows.    *)
(* Whatever goes wrong there, such as a second thread that resets slots    *)
(* under a running probe, takes a preemption.                              *)
SequentialUntilPreempted ==
  /\ Sequential!Init
  /\ [][preempted' \/ [Sequential!Next]_(Sequential!vars)]_vars

(* However the updates of _failure_count race, the breaker never trips     *)
(* before failure_threshold functions have raised.                         *)
NeverTripsEarly == state # Closed => failures >= FailureThreshold

(* When no call is under way, a half-open breaker has a slot for the next  *)
(* request; otherwise no later call can ever change its state.             *)
IdleBreakerAdmits ==
  (state = HalfOpen /\ \A t \in Threads : pc[t] = "idle") => halfOpenCalls < HalfOpenMax
=============================================================================
