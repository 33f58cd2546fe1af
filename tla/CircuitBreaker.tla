--------------------------- MODULE CircuitBreaker ---------------------------
(***************************************************************************)
(* The CircuitBreaker of utils/resilience.py, shared by a set of callers   *)
(* whose calls overlap while the protected function runs.                  *)
(*                                                                         *)
(* The bookkeeping before the function (the state property and admission)  *)
(* and after it (_on_success, _on_failure) is one step each.  That is the  *)
(* code exactly when callers are switched only inside the function: one    *)
(* thread, a function that calls the breaker again, a cooperative          *)
(* scheduler.  CircuitBreakerThreads splits the bookkeeping into single    *)
(* accesses of the shared attributes.                                      *)
(***************************************************************************)
EXTENDS Integers, FiniteSets

CONSTANTS
  Callers,          \* the callers that share the breaker
  EscapingCallers,  \* those whose function may raise a BaseException that is
                    \* not an Exception (KeyboardInterrupt, CancelledError...)
  FailureThreshold, \* failure_threshold
  ResetTimeout,     \* reset_timeout, in clock ticks
  HalfOpenMax,      \* half_open_max
  MaxFailures,      \* bound of the model: failureCount stops growing here
  MaxSetBacks       \* bound of the model: how often the clock is set back

ASSUME BreakerAssumption ==
  /\ IsFiniteSet(Callers)
  /\ EscapingCallers \subseteq Callers
  /\ FailureThreshold \in Nat \ {0}
  /\ ResetTimeout \in Nat
  /\ HalfOpenMax \in Nat \ {0}
  /\ MaxFailures \in Nat
  /\ MaxFailures >= FailureThreshold
  /\ MaxSetBacks \in Nat

VARIABLES
  state,         \* _state
  failureCount,  \* _failure_count
  sinceFailure,  \* time.time() - _last_failure_time, from -1 (the clock was
                 \* set back past the failure) up to ResetTimeout + 1
  halfOpenCalls, \* _half_open_calls
  running,       \* the callers whose function is running
  probes,        \* history: the running callers admitted since the breaker
                 \* last became half-open
  lost,          \* history: the slots taken since then by calls that escaped
  serviceUp,     \* the downstream service has recovered for good
  setBacks       \* how often the wall clock has been set back

vars == <<state, failureCount, sinceFailure, halfOpenCalls, running, probes, lost,
          serviceUp, setBacks>>

Closed   == "closed"
Open     == "open"
HalfOpen == "half_open"

TypeOK ==
  /\ state \in {Closed, Open, HalfOpen}
  /\ failureCount \in 0..MaxFailures
  /\ sinceFailure \in -1..(ResetTimeout + 1)
  /\ halfOpenCalls \in Nat
  /\ running \subseteq Callers
  /\ probes \subseteq running
  /\ lost \in Nat
  /\ serviceUp \in BOOLEAN
  /\ setBacks \in 0..MaxSetBacks

Init ==
  /\ state = Closed
  /\ failureCount = 0
  /\ sinceFailure = 0
  /\ halfOpenCalls = 0
  /\ running = {}
  /\ probes = {}
  /\ lost = 0
  /\ serviceUp = FALSE
  /\ setBacks = 0

-----------------------------------------------------------------------------
(* The state property: reading it is what turns OPEN into HALF_OPEN. *)
TimedOutAtOnce == state = Open                  \* mutant: no time test

TimedOut == state = Open /\ sinceFailure > ResetTimeout

StateSeen   == IF TimedOut THEN HalfOpen ELSE state
EpisodeSeen == IF TimedOut THEN {} ELSE probes
LostSeen    == IF TimedOut THEN 0 ELSE lost

CallsSeenNoReset == halfOpenCalls               \* mutant: slots not reset

CallsSeen == IF TimedOut THEN 0 ELSE halfOpenCalls

Refused ==
  \/ StateSeen = Open
  \/ StateSeen = HalfOpen /\ CallsSeen >= HalfOpenMax

(* Anyone may read breaker.state. *)
ReadState ==
  /\ state' = StateSeen
  /\ halfOpenCalls' = CallsSeen
  /\ probes' = EpisodeSeen
  /\ lost' = LostSeen
  /\ UNCHANGED <<failureCount, sinceFailure, running, serviceUp, setBacks>>

RejectRenewing(c) ==                            \* mutant: a refused call
  /\ c \notin running /\ Refused                 \* renews the timeout
  /\ state' = StateSeen
  /\ halfOpenCalls' = CallsSeen
  /\ probes' = EpisodeSeen
  /\ lost' = LostSeen
  /\ sinceFailure' = 0
  /\ UNCHANGED <<failureCount, running, serviceUp, setBacks>>

(* call() raises CircuitOpenError without running the function. *)
Reject(c) ==
  /\ c \notin running
  /\ Refused
  /\ ReadState

(* call() lets c through; in HALF_OPEN the call takes one of the slots. *)
Admit(c) ==
  /\ c \notin running
  /\ ~Refused
  /\ state' = StateSeen
  /\ running' = running \union {c}
  /\ IF StateSeen = HalfOpen
       THEN /\ halfOpenCalls' = CallsSeen + 1
            /\ probes' = EpisodeSeen \union {c}
            /\ lost' = LostSeen
       ELSE UNCHANGED <<halfOpenCalls, probes, lost>>
  /\ UNCHANGED <<failureCount, sinceFailure, serviceUp, setBacks>>

Leave(c) ==
  /\ c \in running
  /\ running' = running \ {c}
  /\ probes' = probes \ {c}

SucceedReleasing(c) ==                          \* mutant: frees a slot
  /\ Leave(c)
  /\ state' = Closed
  /\ failureCount' = 0
  /\ halfOpenCalls' = halfOpenCalls - 1
  /\ UNCHANGED <<sinceFailure, lost, serviceUp, setBacks>>

(* The function returned: _on_success. *)
Succeed(c) ==
  /\ Leave(c)
  /\ state' = Closed
  /\ failureCount' = 0
  /\ UNCHANGED <<sinceFailure, halfOpenCalls, lost, serviceUp, setBacks>>

CountFailure == IF failureCount < MaxFailures THEN failureCount + 1
                                              ELSE failureCount

TooManyOffByOne(n) == n > FailureThreshold      \* mutant: > for >=
TooManyOnce(n)     == n = FailureThreshold      \* mutant: == for >=

TooMany(n) == n >= FailureThreshold

(* The function raised an Exception: _on_failure. *)
Fail(c) ==
  /\ ~serviceUp
  /\ Leave(c)
  /\ failureCount' = CountFailure
  /\ sinceFailure' = 0
  /\ state' = IF TooMany(failureCount') THEN Open ELSE state
  /\ UNCHANGED <<halfOpenCalls, lost, serviceUp, setBacks>>

(* A BaseException passes "except Exception": nothing is recorded, and in  *)
(* HALF_OPEN the slot of the call stays taken.                             *)
Escape(c) ==
  /\ c \in EscapingCallers
  /\ Leave(c)
  /\ lost' = IF c \in probes THEN lost + 1 ELSE lost
  /\ UNCHANGED <<state, failureCount, sinceFailure, halfOpenCalls, serviceUp, setBacks>>

(* The wall clock; only "more than reset_timeout" can be told apart. *)
Tick ==
  /\ sinceFailure <= ResetTimeout
  /\ sinceFailure' = sinceFailure + 1
  /\ UNCHANGED <<state, failureCount, halfOpenCalls, running, probes, lost,
                 serviceUp, setBacks>>

(* time.time() is no monotonic clock: it may be set back. *)
SetBack ==
  /\ setBacks < MaxSetBacks
  /\ setBacks' = setBacks + 1
  /\ sinceFailure' \in -1..(sinceFailure - 1)
  /\ UNCHANGED <<state, failureCount, halfOpenCalls, running, probes, lost, serviceUp>>

(* The downstream service recovers and no call fails any more. *)
Recover ==
  /\ ~serviceUp
  /\ serviceUp' = TRUE
  /\ UNCHANGED <<state, failureCount, sinceFailure, halfOpenCalls, running, probes,
                 lost, setBacks>>

Return(c) == Succeed(c) \/ Fail(c) \/ Escape(c)

Next ==
  \/ \E c \in Callers : Reject(c) \/ Admit(c) \/ Return(c)
  \/ ReadState
  \/ Tick \/ SetBack
  \/ Recover

Spec == Init /\ [][Next]_vars

(***************************************************************************)
(* Time passes, each caller keeps calling, and the protected function      *)
(* ends.  Nothing makes the service fail or recover.                       *)
(***************************************************************************)
FairSpec ==
  /\ Spec
  /\ WF_vars(Tick)
  /\ \A c \in Callers : WF_vars(Admit(c)) /\ WF_vars(Return(c))
-----------------------------------------------------------------------------
(* The breaker leaves CLOSED only on FailureThreshold failures, and what   *)
(* made it leave is still counted while it is OPEN or HALF_OPEN: a late    *)
(* success clears the state and the count together (_on_success), so a     *)
(* failed probe always finds the count at the threshold.                   *)
TrippedIsCounted == (state # Closed) <=> (failureCount >= FailureThreshold)

(* In HALF_OPEN _half_open_calls counts calls that are still running, and  *)
(* those that escaped: no other slot is held by a call that has ended, and *)
(* never more than half_open_max probes of one episode run at once.        *)
SlotsAreRunning ==
  state = HalfOpen => /\ halfOpenCalls = Cardinality(probes) + lost
                      /\ halfOpenCalls <= HalfOpenMax

(* The first call to return or to raise an Exception while the breaker is  *)
(* HALF_OPEN decides it, to CLOSED or to OPEN: no recorded outcome leaves  *)
(* the breaker testing.                                                    *)
FirstOutcomeDecides ==
  [][state = HalfOpen /\ ~(running \ EscapingCallers \subseteq running')
       => state' # HalfOpen]_vars

(* Fail fast: between a failure that leaves the breaker OPEN and the end   *)
(* of the reset timeout no function is started.                            *)
FailsFast ==
  [][state = Open /\ sinceFailure <= ResetTimeout => running' \subseteq running]_vars

(* Once the service is up for good, the breaker ends CLOSED and stays so:  *)
(* callers are not refused for ever, a clock set back a few times or not.  *)
(* One thing alone can prevent it: escaped calls that hold every slot.     *)
RecoversWithService ==
  serviceUp ~> \/ [](state = Closed)
               \/ [](state = HalfOpen /\ lost = HalfOpenMax)
=============================================================================
