------------------------ MODULE RetriedBreakerProofs ------------------------
(***************************************************************************)
(* What retry around CircuitBreaker.call guarantees for any callers,       *)
(* numbers of attempts, thresholds and timeouts.                           *)
(***************************************************************************)
EXTENDS RetriedBreaker, FiniteSetTheorems, TLAPS

(* What is proved of the breaker, of the one these callers retry through.  *)
(* CB is the breaker of RetriedBreaker under the name of its proofs.       *)
CB == INSTANCE CircuitBreakerProofs WITH MaxSetBacks <- 0, setBacks <- 0
-----------------------------------------------------------------------------
LEMMA ParametersOfTheBreaker == CB!BreakerAssumption
<1>1. CB!IsFiniteSet(Callers)
  BY ProtectedCallAssumption DEF IsFiniteSet, CB!IsFiniteSet
<1>2. QED
  BY <1>1, ProtectedCallAssumption

(* The two instances are one breaker, action by action. *)
LEMMA SameStates ==
  /\ Breaker!Init = CB!Init
  /\ Breaker!vars = CB!vars
BY DEF Breaker!Init, CB!Init, Breaker!vars, CB!vars, Breaker!Closed, CB!Closed

LEMMA SameEntries ==
  /\ Breaker!ReadState => CB!ReadState
  /\ \A c : Breaker!Reject(c) => CB!Reject(c)
  /\ \A c : Breaker!Admit(c) => CB!Admit(c)
BY DEF Breaker!ReadState, CB!ReadState, Breaker!Reject, CB!Reject, Breaker!Admit,
   CB!Admit, Breaker!Refused, CB!Refused, Breaker!StateSeen, CB!StateSeen,
   Breaker!CallsSeen, CB!CallsSeen, Breaker!EpisodeSeen, CB!EpisodeSeen,
   Breaker!LostSeen, CB!LostSeen, Breaker!TimedOut, CB!TimedOut, Breaker!Open, CB!Open, Breaker!HalfOpen, CB!HalfOpen

LEMMA SameExits ==
  \A c : /\ Breaker!Succeed(c) => CB!Succeed(c)
         /\ Breaker!Fail(c) => CB!Fail(c)
         /\ Breaker!Escape(c) => CB!Escape(c)
BY DEF Breaker!Succeed, CB!Succeed, Breaker!Fail, CB!Fail, Breaker!Escape, CB!Escape,
   Breaker!Leave, CB!Leave, Breaker!CountFailure, CB!CountFailure, Breaker!TooMany,
   CB!TooMany, Breaker!Open, CB!Open, Breaker!Closed, CB!Closed

LEMMA SameSurroundings ==
  /\ Breaker!Tick => CB!Tick
  /\ Breaker!Recover => CB!Recover
BY DEF Breaker!Tick, CB!Tick, Breaker!Recover, CB!Recover

(* Whatever the callers do is a step of the breaker, or none. *)
LEMMA StepOfTheBreaker ==
  ASSUME [Next]_vars
  PROVE  [CB!Next]_(CB!vars)
<1> USE SameEntries, SameExits, SameSurroundings DEF breakerVars, CB!vars
<1>1. ASSUME NEW c \in Callers, Call(c) \/ Resume(c) PROVE UNCHANGED CB!vars
  BY <1>1 DEF Call, Resume
<1>2. ASSUME NEW c \in Callers, Admitted(c) \/ Refused(c) PROVE CB!Next
  BY <1>2 DEF Admitted, Refused, CB!Next
<1>3. ASSUME NEW c \in Callers, Succeeded(c) \/ Failed(c) \/ Escaped(c) PROVE CB!Next
  BY <1>3 DEF Succeeded, Failed, Escaped, CB!Next, CB!Return
<1>4. CASE ReadState
  BY <1>4 DEF ReadState, CB!Next
<1>5. CASE Tick
  BY <1>5 DEF Tick, CB!Next
<1>6. CASE Recover
  BY <1>6 DEF Recover, CB!Next
<1>7. CASE UNCHANGED vars
  BY <1>7 DEF vars
<1>8. QED
  BY <1>1, <1>2, <1>3, <1>4, <1>5, <1>6, <1>7 DEF Next, Proceed

(* Retrying callers are callers: each attempt, whatever follows it in the   *)
(* loop, is one step of the breaker, and the sleeps are none.  What is      *)
(* proved of every use of a breaker so holds of this one.                   *)
THEOREM UsesABreaker == Spec => CB!Spec
<1>1. Init => CB!Init
  BY SameStates DEF Init
<1>2. [Next]_vars => [CB!Next]_(CB!vars)
  BY StepOfTheBreaker
<1>3. QED
  BY <1>1, <1>2, PTL DEF Spec, CB!Spec
-----------------------------------------------------------------------------
(* Where a call is in its loop: it tries its attempt number "attempt", or  *)
(* sleeps after that attempt and has another one.                          *)
LoopOK ==
  /\ at \in [Callers -> {"idle", "trying", "sleeping"}]
  /\ attempt \in [Callers -> Nat]
  /\ tries \in [Callers -> Nat]
  /\ ended \in [Callers -> {None, "returned", "raised", "type_error"}]
  /\ error \in [Callers -> Kinds \union {None}]

InLoop ==
  \A c \in Callers :
    /\ at[c] # "idle" => ended[c] = None
    /\ at[c] = "trying" => attempt[c] = tries[c] + 1 /\ attempt[c] <= MaxAttempts[c]
    /\ at[c] = "sleeping" => attempt[c] = tries[c] /\ attempt[c] < MaxAttempts[c]

LoopInv == LoopOK /\ InLoop /\ GivesUpOnlyWhenSpent

(* The steps of the loop that Next is made of. *)
LoopStep ==
  \/ \E c \in Callers : StartCall(c) \/ Returned(c) \/ Wake(c)
  \/ \E c \in Callers, kind \in Kinds : Raised(c, kind)
  \/ UNCHANGED <<at, attempt, tries, ended, error>>

LEMMA StepsOfTheLoop == ASSUME [Next]_vars PROVE LoopStep
<1> USE DEF retryVars, LoopStep
<1>1. ASSUME NEW c \in Callers, Call(c) \/ Succeeded(c) \/ Resume(c) PROVE LoopStep
  BY <1>1 DEF Call, Succeeded, Resume
<1>2. ASSUME NEW c \in Callers, Refused(c) \/ Failed(c) \/ Escaped(c) PROVE LoopStep
  BY <1>2, ProtectedCallAssumption DEF Refused, Failed, Escaped
<1>3. ASSUME NEW c \in Callers, Admitted(c) PROVE LoopStep
  BY <1>3 DEF Admitted
<1>4. CASE ReadState \/ Recover
  BY <1>4 DEF ReadState, Recover
<1>5. CASE Tick
  BY <1>5 DEF Tick, SleepOn
<1>6. CASE UNCHANGED vars
  BY <1>6 DEF vars
<1>7. QED
  BY <1>1, <1>2, <1>3, <1>4, <1>5, <1>6 DEF Next, Proceed

LEMMA StartStep ==
  ASSUME LoopInv, NEW c \in Callers, StartCall(c)
  PROVE  LoopInv'
<1>0. /\ MaxAttempts \in [Callers -> Nat]
      /\ attempt' = [attempt EXCEPT ![c] = 1]
      /\ tries' = [tries EXCEPT ![c] = 0]
      /\ error' = [error EXCEPT ![c] = None]
      /\ IF MaxAttempts[c] = 0
           THEN /\ at' = [at EXCEPT ![c] = "idle"]
                /\ ended' = [ended EXCEPT ![c] = "type_error"]
           ELSE /\ at' = [at EXCEPT ![c] = "trying"]
                /\ ended' = [ended EXCEPT ![c] = None]
  BY RetryAssumption DEF StartCall, End
<1> USE <1>0 DEF LoopInv, LoopOK, InLoop, GivesUpOnlyWhenSpent, None
<1>1. CASE MaxAttempts[c] = 0
  BY <1>1
<1>2. CASE MaxAttempts[c] # 0
  <2>1. MaxAttempts[c] \in Nat /\ 1 <= MaxAttempts[c]
    BY <1>2
  <2>2. LoopOK'
    BY <1>2
  <2>3. InLoop'
    BY <1>2, <2>1
  <2>4. GivesUpOnlyWhenSpent'
    BY <1>2, <2>1
  <2>5. QED
    BY <2>2, <2>3, <2>4
<1>3. QED
  BY <1>1, <1>2

(* An exception ends the call, or is followed by a sleep. *)
LEMMA RaisedStep ==
  ASSUME LoopInv, NEW c \in Callers, NEW kind \in Kinds, Raised(c, kind)
  PROVE  LoopInv'
<1> USE RetryAssumption DEF LoopInv, LoopOK, InLoop, GivesUpOnlyWhenSpent, Raised, EndsTry,
        End, None
<1>1. /\ MaxAttempts[c] \in Nat /\ Retryable[c] \subseteq Kinds
      /\ attempt[c] = tries[c] + 1 /\ attempt[c] <= MaxAttempts[c]
  OBVIOUS
<1>2. CASE kind \notin Retryable[c] \/ Last(c)
  BY <1>1, <1>2 DEF Last
<1>3. CASE ~(kind \notin Retryable[c] \/ Last(c))
  <2>1. attempt[c] < MaxAttempts[c]
    BY <1>1, <1>3 DEF Last
  <2>2. at' = [at EXCEPT ![c] = "sleeping"] /\ UNCHANGED <<ended, attempt>>
    BY <1>3
  <2>3. QED
    BY <1>1, <2>1, <2>2
<1>4. QED
  BY <1>2, <1>3

LEMMA LoopInvStep ==
  ASSUME LoopInv, LoopStep
  PROVE  LoopInv'
<1> USE RetryAssumption DEF LoopInv, LoopOK, InLoop, GivesUpOnlyWhenSpent, None
<1>1. ASSUME NEW c \in Callers, Returned(c) PROVE LoopInv'
  BY <1>1 DEF Returned, EndsTry, End
<1>2. ASSUME NEW c \in Callers, Wake(c) PROVE LoopInv'
  BY <1>2 DEF Wake
<1>3. CASE UNCHANGED <<at, attempt, tries, ended, error>>
  BY <1>3
<1>4. QED
  BY <1>1, <1>2, <1>3, StartStep, RaisedStep DEF LoopStep

LEMMA LoopInvariant == Spec => []LoopInv
<1>1. Init => LoopInv
  BY RetryAssumption
     DEF Init, RetryInit, LoopInv, LoopOK, InLoop, GivesUpOnlyWhenSpent, None
<1>2. LoopInv /\ [Next]_vars => LoopInv'
  BY StepsOfTheLoop, LoopInvStep
<1>3. QED
  BY <1>1, <1>2, PTL DEF Spec

(* Whatever the function and the breaker do, a call that gives up on an    *)
(* exception worth a retry has made all its attempts.                      *)
THEOREM AlwaysGivesUpOnlyWhenSpent == Spec => []GivesUpOnlyWhenSpent
<1>1. LoopInv => GivesUpOnlyWhenSpent
  BY DEF LoopInv
<1>2. QED
  BY <1>1, LoopInvariant, PTL
-----------------------------------------------------------------------------
(* The clocks: what a call has waited undisturbed since it was first       *)
(* refused is no more than the time since the last failure.                *)
ClocksOK ==
  /\ sinceFailure \in 0..(ResetTimeout + 1)
  /\ waited \in [Callers -> -1..(ResetTimeout + 1)]

WaitsAreCovered == \A c \in Waiting \ disturbed : waited[c] <= sinceFailure

PatienceInv == ClocksOK /\ WaitsAreCovered /\ PatientCallsGetThrough

(* A call that the breaker refuses while it is OPEN is within its timeout. *)
LEMMA RefusalIsEarly ==
  ASSUME NEW c \in Callers, Breaker!Reject(c), state' # Breaker!HalfOpen, ClocksOK
  PROVE  sinceFailure <= ResetTimeout
<1>1. Breaker!StateSeen = Breaker!Open
  BY DEF Breaker!Reject, Breaker!Refused, Breaker!ReadState
<1>2. state = Breaker!Open /\ ~Breaker!TimedOut
  BY <1>1 DEF Breaker!StateSeen, Breaker!Open, Breaker!HalfOpen
<1>3. QED
  BY <1>2, ProtectedCallAssumption DEF Breaker!TimedOut, ClocksOK

LEMMA RefusedStep ==
  ASSUME LoopInv, PatienceInv, NEW c \in Callers, Refused(c)
  PROVE  PatienceInv'
<1> USE ProtectedCallAssumption DEF PatienceInv, ClocksOK
<1>1. /\ at[c] = "trying"
      /\ at' \in [Callers -> {"idle", "trying", "sleeping"}]
      /\ \A d \in Callers : d # c => /\ at'[d] = at[d] /\ ended'[d] = ended[d]
                                     /\ error'[d] = error[d]
  BY DEF Refused, Raised, EndsTry, End, LoopInv, LoopOK
<1>2. /\ UNCHANGED sinceFailure
      /\ waited' = [waited EXCEPT ![c] = IF waited[c] = -1 THEN 0 ELSE waited[c]]
      /\ disturbed' = IF state' = Breaker!HalfOpen THEN disturbed \union {c} ELSE disturbed
  BY DEF Refused, Breaker!Reject, Breaker!ReadState
<1>3. \A d \in Callers : d # c =>
        /\ waited'[d] = waited[d]
        /\ d \in Waiting' <=> d \in Waiting
        /\ d \in disturbed' <=> d \in disturbed
  BY <1>1, <1>2 DEF Waiting
<1>4. ClocksOK'
  BY <1>2
<1>5. c \notin disturbed' => waited'[c] <= sinceFailure /\ sinceFailure <= ResetTimeout
  <2> SUFFICES ASSUME c \notin disturbed'
               PROVE  waited'[c] <= sinceFailure /\ sinceFailure <= ResetTimeout
    OBVIOUS
  <2>1. state' # Breaker!HalfOpen /\ c \notin disturbed
    BY <1>2
  <2>2. sinceFailure <= ResetTimeout
    BY <2>1, RefusalIsEarly DEF Refused
  <2>3. CASE waited[c] = -1
    BY <1>2, <2>2, <2>3
  <2>4. CASE waited[c] # -1
    <3>1. c \in Waiting
      BY <1>1, <2>4 DEF Waiting
    <3>2. QED
      BY <1>2, <2>1, <2>2, <2>4, <3>1 DEF WaitsAreCovered
  <2>5. QED
    BY <2>3, <2>4
<1>6. WaitsAreCovered'
  BY <1>2, <1>3, <1>5 DEF WaitsAreCovered, Waiting
<1>7. PatientCallsGetThrough'
  <2> SUFFICES ASSUME NEW d \in Callers, ended'[d] = "raised", error'[d] = "open",
                      d \notin disturbed'
               PROVE  waited'[d] <= ResetTimeout
    BY DEF PatientCallsGetThrough
  <2>1. CASE d = c
    BY <1>2, <1>4, <1>5, <2>1
  <2>2. CASE d # c
    BY <1>1, <1>3, <2>2 DEF PatientCallsGetThrough
  <2>3. QED
    BY <2>1, <2>2
<1>8. QED
  BY <1>4, <1>6, <1>7

LEMMA FailedStep ==
  ASSUME LoopInv, PatienceInv, NEW c \in Callers, Failed(c)
  PROVE  PatienceInv'
<1> USE ProtectedCallAssumption DEF PatienceInv, ClocksOK
<1>1. /\ at[c] = "trying"
      /\ at' \in [Callers -> {"idle", "trying", "sleeping"}]
      /\ error'[c] = "failure"
      /\ \A d \in Callers : d # c => /\ at'[d] = at[d] /\ ended'[d] = ended[d]
                                     /\ error'[d] = error[d]
  BY DEF Failed, Raised, EndsTry, End, LoopInv, LoopOK
<1>2. sinceFailure' = 0 /\ UNCHANGED waited /\ disturbed' = disturbed \union Waiting
  BY DEF Failed, Breaker!Fail
<1>3. \A d \in Callers : d \in Waiting' => d \in Waiting
  BY <1>1, <1>2 DEF Waiting
<1>4. ClocksOK' /\ WaitsAreCovered'
  BY <1>2, <1>3 DEF WaitsAreCovered, Waiting
<1>5. PatientCallsGetThrough'
  BY <1>1, <1>2 DEF PatientCallsGetThrough
<1>6. QED
  BY <1>4, <1>5

LEMMA TickStep ==
  ASSUME LoopInv, PatienceInv, Tick
  PROVE  PatienceInv'
<1> USE ProtectedCallAssumption DEF PatienceInv, ClocksOK
<1>1. /\ UNCHANGED <<at, ended, error, disturbed>>
      /\ waited' = [c \in Callers |-> IF c \in Waiting /\ waited[c] <= ResetTimeout
                                        THEN waited[c] + 1 ELSE waited[c]]
  BY DEF Tick, SleepOn
<1>2. sinceFailure' = IF sinceFailure <= ResetTimeout THEN sinceFailure + 1 ELSE sinceFailure
  BY DEF Tick, Breaker!Tick, breakerVars
<1>3. ClocksOK'
  BY <1>1, <1>2
<1>4. \A c \in Callers : c \in Waiting' <=> c \in Waiting
  BY <1>1 DEF Waiting
<1>5. WaitsAreCovered'
  <2> SUFFICES ASSUME NEW c \in Waiting' \ disturbed' PROVE waited'[c] <= sinceFailure'
    BY DEF WaitsAreCovered
  <2>1. c \in Callers /\ c \in Waiting \ disturbed
    BY <1>1, <1>4 DEF Waiting
  <2>2. waited[c] <= sinceFailure /\ waited[c] \in -1..(ResetTimeout + 1)
    BY <2>1 DEF WaitsAreCovered
  <2>3. QED
    BY <1>1, <1>2, <2>1, <2>2
<1>6. PatientCallsGetThrough'
  <2>1. \A c \in Callers : ended[c] = "raised" => c \notin Waiting
    BY DEF LoopInv, InLoop, Waiting, None
  <2>2. QED
    BY <1>1, <2>1 DEF PatientCallsGetThrough
<1>7. QED
  BY <1>3, <1>5, <1>6

(* The other steps leave the clocks and what was disturbed alone, or start *)
(* a call.                                                                 *)
LEMMA OtherCallerSteps ==
  ASSUME LoopInv, PatienceInv, NEW c \in Callers,
         Call(c) \/ Admitted(c) \/ Succeeded(c) \/ Escaped(c) \/ Resume(c)
  PROVE  PatienceInv'
<1> USE DEF PatienceInv, ClocksOK, WaitsAreCovered, PatientCallsGetThrough, Waiting, LoopInv, LoopOK
<1>1. CASE Call(c)
  <2>1. /\ UNCHANGED sinceFailure
        /\ waited' = [waited EXCEPT ![c] = -1]
        /\ disturbed' = disturbed \ {c}
        /\ error'[c] = None
        /\ \A d \in Callers : d # c => /\ at'[d] = at[d] /\ ended'[d] = ended[d]
                                       /\ error'[d] = error[d]
    BY <1>1 DEF Call, StartCall, End, breakerVars
  <2>2. QED
    BY <2>1, ProtectedCallAssumption DEF None
<1>2. CASE Admitted(c)
  BY <1>2 DEF Admitted, Breaker!Admit, retryVars, history
<1>3. CASE Succeeded(c)
  <2>1. /\ UNCHANGED <<sinceFailure, waited, disturbed>>
        /\ at' = [at EXCEPT ![c] = "idle"] /\ ended' = [ended EXCEPT ![c] = "returned"]
        /\ UNCHANGED error
    BY <1>3 DEF Succeeded, Breaker!Succeed, Returned, End, history
  <2>2. QED
    BY <2>1
<1>4. CASE Escaped(c)
  <2>1. /\ UNCHANGED <<sinceFailure, waited, disturbed>>
        /\ at[c] = "trying" /\ error'[c] = "escape"
        /\ \A d \in Callers : d # c => /\ at'[d] = at[d] /\ ended'[d] = ended[d]
                                       /\ error'[d] = error[d]
    BY <1>4 DEF Escaped, Breaker!Escape, Raised, EndsTry, End, history
  <2>2. QED
    BY <2>1
<1>5. CASE Resume(c)
  <2>1. /\ UNCHANGED <<sinceFailure, waited, disturbed, ended, error>>
        /\ at[c] = "sleeping" /\ at' = [at EXCEPT ![c] = "trying"]
    BY <1>5 DEF Resume, Wake, history, breakerVars
  <2>2. QED
    BY <2>1
<1>6. QED
  BY <1>1, <1>2, <1>3, <1>4, <1>5

LEMMA SurroundingSteps ==
  ASSUME PatienceInv, ReadState \/ Recover \/ UNCHANGED vars
  PROVE  PatienceInv'
<1> USE DEF PatienceInv, ClocksOK, WaitsAreCovered, PatientCallsGetThrough, Waiting
<1>1. UNCHANGED <<sinceFailure, at, ended, error, waited, disturbed>>
  BY DEF ReadState, Recover, Breaker!ReadState, Breaker!Recover, retryVars, history,
         vars, breakerVars
<1>2. QED
  BY <1>1

LEMMA PatienceInvariant == Spec => []PatienceInv
<1>1. Init => PatienceInv
  BY ProtectedCallAssumption
     DEF Init, RetryInit, Breaker!Init, PatienceInv, ClocksOK, WaitsAreCovered, Waiting,
         PatientCallsGetThrough, None
<1>2. LoopInv /\ PatienceInv /\ [Next]_vars => PatienceInv'
  BY RefusedStep, FailedStep, TickStep, OtherCallerSteps, SurroundingSteps
     DEF Next, Proceed
<1>3. QED
  BY <1>1, <1>2, LoopInvariant, PTL DEF Spec

(* A call that is refused at its last attempt, undisturbed since it was    *)
(* first refused, has not waited longer than the reset timeout.            *)
THEOREM PatientCallsAlwaysGetThrough == Spec => []PatientCallsGetThrough
<1>1. PatienceInv => PatientCallsGetThrough
  BY DEF PatienceInv
<1>2. QED
  BY <1>1, PatienceInvariant, PTL
-----------------------------------------------------------------------------
(* Products grow with their factors, and powers of two are numbers: they   *)
(* count the subsets of an interval.                                       *)
LEMMA ProductGrows ==
  ASSUME NEW a \in Nat, NEW b \in Nat, NEW n \in Nat, b <= n
  PROVE  a * b \in Nat /\ a * n \in Nat /\ a * b <= a * n
<1>1. PICK d \in Nat : n = b + d
  <2>1. n - b \in Nat /\ n = b + (n - b)
    OBVIOUS
  <2>2. QED
    BY <2>1
<1>2. a * b \in Nat /\ a * d \in Nat
  OBVIOUS
<1>3. a * (b + d) = a * b + a * d
  OBVIOUS
<1>4. QED
  BY <1>1, <1>2, <1>3

LEMMA PowersOfTwo == \A n \in Nat : 2^n \in Nat
<1> SUFFICES ASSUME NEW n \in Nat PROVE 2^n \in Nat
  OBVIOUS
<1>1. IsFiniteSet(1..n) /\ Cardinality(1..n) = n
  BY FS_Interval
<1>2. IsFiniteSet(SUBSET (1..n)) /\ Cardinality(SUBSET (1..n)) = 2^n
  BY <1>1, FS_SUBSET
<1>3. QED
  BY <1>2, FS_CardinalityType

(* An exponential delay is capped, and a sleep is at most half as much     *)
(* again as its delay.                                                     *)
LEMMA DelaysAreBounded ==
  ASSUME NEW n \in Nat \ {0}
  PROVE  Delay(n) \in Nat /\ (Exponential => Delay(n) <= MaxDelay)
<1> DEFINE doubled == BaseDelay * 2^(n - 1)
<1>1. BaseDelay \in Nat /\ MaxDelay \in Nat
  BY RetryAssumption
<1>2. 2^(n - 1) \in Nat
  BY PowersOfTwo
<1>3. doubled \in Nat
  <2>1. \A a, b \in Nat : a * b \in Nat
    OBVIOUS
  <2>2. QED
    BY <1>1, <1>2, <2>1
<1>4. Delay(n) = IF ~Exponential THEN BaseDelay
                 ELSE IF doubled < MaxDelay THEN doubled ELSE MaxDelay
  BY DEF Delay
<1>5. QED
  <2> HIDE DEF doubled
  <2> QED
    BY <1>1, <1>3, <1>4

LEMMA SleepsAreBounded ==
  ASSUME NEW delay \in Nat, NEW t \in Sleeps(delay)
  PROVE  t \in Nat /\ 2 * t <= 3 * delay
BY DEF Sleeps
-----------------------------------------------------------------------------
(* What a call has slept so far is at most half as much again as the       *)
(* longest delay for each attempt it has made.                             *)
SleepsOK == sleep \in [Callers -> Nat] /\ slept \in [Callers -> Nat]

SleptPerTry ==
  Exponential =>
    \A c \in Callers : at[c] # "idle" => 2 * slept[c] <= (3 * MaxDelay) * tries[c]

SleepInv == SleepsOK /\ SleptPerTry /\ SleepIsBounded

LEMMA RaisedSleeps ==
  ASSUME LoopInv, SleepInv, NEW c \in Callers, NEW kind \in Kinds, Raised(c, kind)
  PROVE  SleepInv'
<1> USE DEF SleepInv, SleepsOK
<1>1. /\ at[c] = "trying" /\ attempt[c] = tries[c] + 1 /\ tries[c] \in Nat
      /\ tries' = [tries EXCEPT ![c] = tries[c] + 1]
      /\ tries \in [Callers -> Nat] /\ MaxAttempts[c] \in Nat
      /\ attempt[c] <= MaxAttempts[c]
      /\ at \in [Callers -> {"idle", "trying", "sleeping"}]
  BY RetryAssumption DEF LoopInv, LoopOK, InLoop, Raised, EndsTry
<1>2. CASE kind \notin Retryable[c] \/ Last(c)
  <2>1. UNCHANGED <<sleep, slept>> /\ at' = [at EXCEPT ![c] = "idle"]
    BY <1>2 DEF Raised, End
  <2>2. SleptPerTry'
    BY <1>1, <2>1 DEF SleptPerTry
  <2>3. QED
    BY <2>1, <2>2 DEF SleepIsBounded
<1>3. CASE ~(kind \notin Retryable[c] \/ Last(c))
  <2>1. PICK t \in Sleeps(Delay(attempt[c])) :
              /\ at' = [at EXCEPT ![c] = "sleeping"]
              /\ sleep' = [sleep EXCEPT ![c] = t]
              /\ slept' = [slept EXCEPT ![c] = slept[c] + t]
    BY <1>3 DEF Raised
  <2>2. /\ Delay(attempt[c]) \in Nat
        /\ Exponential => Delay(attempt[c]) <= MaxDelay
    BY <1>1, DelaysAreBounded
  <2>3. t \in Nat /\ 2 * t <= 3 * Delay(attempt[c])
    BY <2>2, SleepsAreBounded
  <2>4. SleepsOK'
    BY <2>1, <2>3
  <2>5. ASSUME Exponential
        PROVE  /\ 2 * slept'[c] <= (3 * MaxDelay) * tries'[c]
               /\ MaxAttempts[c] > 0 => 2 * slept'[c] <= 3 * MaxDelay * (MaxAttempts[c] - 1)
    <3> DEFINE cap == 3 * MaxDelay
    <3>1. cap \in Nat /\ 2 * t <= cap
      BY <2>2, <2>3, <2>5, RetryAssumption
    <3>2. 2 * slept[c] <= cap * tries[c]
      BY <1>1, <2>5 DEF SleptPerTry
    <3>3. slept'[c] = slept[c] + t /\ tries'[c] = tries[c] + 1 /\ slept[c] \in Nat
      BY <1>1, <2>1
    <3>4. cap * (tries[c] + 1) = cap * tries[c] + cap /\ cap * tries[c] \in Nat
      <4> HIDE DEF cap
      <4>1. \A a, b \in Nat : a * (b + 1) = a * b + a /\ a * b \in Nat
        OBVIOUS
      <4>2. QED
        BY <1>1, <3>1, <4>1
    <3>5. 2 * slept'[c] <= cap * tries'[c]
      <4> HIDE DEF cap
      <4> QED
        BY <2>3, <3>1, <3>2, <3>3, <3>4
    <3>6. tries'[c] <= MaxAttempts[c] - 1
      BY <1>1, <1>3, <3>3 DEF Last
    <3>7. cap * tries'[c] <= cap * (MaxAttempts[c] - 1) /\ cap * tries'[c] \in Nat
             /\ cap * (MaxAttempts[c] - 1) \in Nat
      <4>1. tries'[c] \in Nat /\ MaxAttempts[c] - 1 \in Nat
        BY <1>1, <3>3, <3>6
      <4>2. QED
        <5> HIDE DEF cap
        <5> QED
          BY <3>1, <3>6, <4>1, ProductGrows
    <3>8. 2 * slept'[c] <= cap * (MaxAttempts[c] - 1)
      <4>1. 2 * slept'[c] \in Nat
        BY <2>3, <3>3
      <4>2. QED
        <5> HIDE DEF cap
        <5> QED
          BY <3>5, <3>7, <4>1
    <3>9. QED
      BY <3>5, <3>8
  <2>6. \A d \in Callers : d # c => /\ at'[d] = at[d] /\ slept'[d] = slept[d]
                                    /\ tries'[d] = tries[d]
    BY <1>1, <2>1
  <2>7. SleptPerTry'
    BY <2>5, <2>6 DEF SleptPerTry
  <2>8. SleepIsBounded'
    BY <2>5, <2>6 DEF SleepIsBounded
  <2>9. QED
    BY <2>4, <2>7, <2>8
<1>4. QED
  BY <1>2, <1>3

LEMMA StartSleeps ==
  ASSUME LoopInv, SleepInv, NEW c \in Callers, StartCall(c)
  PROVE  SleepInv'
<1>1. /\ slept' = [slept EXCEPT ![c] = 0] /\ tries' = [tries EXCEPT ![c] = 0]
      /\ UNCHANGED sleep
      /\ slept'[c] = 0 /\ tries'[c] = 0
      /\ \A d \in Callers : d # c => /\ at'[d] = at[d] /\ slept'[d] = slept[d]
                                     /\ tries'[d] = tries[d]
  BY DEF StartCall, End, LoopInv, LoopOK, SleepInv, SleepsOK
<1>2. SleepsOK'
  BY <1>1 DEF SleepInv, SleepsOK
<1>3. 3 * MaxDelay \in Nat /\ MaxAttempts[c] \in Nat
  BY RetryAssumption
<1>4. \A a, b \in Nat : 2 * 0 <= a * b
  OBVIOUS
<1>5. 2 * slept'[c] <= (3 * MaxDelay) * tries'[c]
  BY <1>1, <1>3, <1>4
<1>6. MaxAttempts[c] > 0 => 2 * slept'[c] <= 3 * MaxDelay * (MaxAttempts[c] - 1)
  <2>1. MaxAttempts[c] > 0 => MaxAttempts[c] - 1 \in Nat
    BY <1>3
  <2>2. QED
    BY <1>1, <1>3, <1>4, <2>1
<1>7. QED
  BY <1>1, <1>2, <1>5, <1>6 DEF SleepInv, SleptPerTry, SleepIsBounded

(* The steps of the loop and of the clock that Next is made of. *)
SleepStep ==
  \/ \E c \in Callers : StartCall(c) \/ Returned(c) \/ Wake(c)
  \/ \E c \in Callers, kind \in Kinds : Raised(c, kind)
  \/ SleepOn
  \/ UNCHANGED retryVars

LEMMA StepsOfTheSleeps == ASSUME [Next]_vars PROVE SleepStep
<1> USE DEF SleepStep
<1>1. ASSUME NEW c \in Callers, Call(c) \/ Succeeded(c) \/ Resume(c) PROVE SleepStep
  BY <1>1 DEF Call, Succeeded, Resume
<1>2. ASSUME NEW c \in Callers, Refused(c) \/ Failed(c) \/ Escaped(c) PROVE SleepStep
  BY <1>2, ProtectedCallAssumption DEF Refused, Failed, Escaped
<1>3. ASSUME NEW c \in Callers, Admitted(c) PROVE SleepStep
  BY <1>3 DEF Admitted
<1>4. CASE ReadState \/ Recover
  BY <1>4 DEF ReadState, Recover
<1>5. CASE Tick
  BY <1>5 DEF Tick
<1>6. CASE UNCHANGED vars
  BY <1>6 DEF vars
<1>7. QED
  BY <1>1, <1>2, <1>3, <1>4, <1>5, <1>6 DEF Next, Proceed

LEMMA SleepInvStep ==
  ASSUME LoopInv, SleepInv, SleepStep
  PROVE  SleepInv'
<1>1. ASSUME NEW c \in Callers, Returned(c) PROVE SleepInv'
  <2>1. UNCHANGED <<sleep, slept>> /\ at' = [at EXCEPT ![c] = "idle"]
        /\ tries' = [tries EXCEPT ![c] = tries[c] + 1]
    BY <1>1 DEF Returned, EndsTry, End
  <2>2. QED
    BY <2>1 DEF LoopInv, LoopOK, SleepInv, SleepsOK, SleptPerTry, SleepIsBounded
<1>2. ASSUME NEW c \in Callers, Wake(c) PROVE SleepInv'
  <2>1. UNCHANGED <<sleep, slept, tries>> /\ at[c] = "sleeping"
        /\ at' = [at EXCEPT ![c] = "trying"]
    BY <1>2 DEF Wake
  <2>2. QED
    BY <2>1 DEF LoopInv, LoopOK, SleepInv, SleepsOK, SleptPerTry, SleepIsBounded
<1>3. CASE SleepOn
  <2>1. UNCHANGED <<at, tries, slept>>
    BY <1>3 DEF SleepOn
  <2>2. sleep' \in [Callers -> Nat]
    BY <1>3 DEF SleepOn, SleepInv, SleepsOK
  <2>3. QED
    BY <2>1, <2>2 DEF SleepInv, SleepsOK, SleptPerTry, SleepIsBounded
<1>4. CASE UNCHANGED retryVars
  BY <1>4 DEF retryVars, SleepInv, SleepsOK, SleptPerTry, SleepIsBounded
<1>5. QED
  BY <1>1, <1>2, <1>3, <1>4, StartSleeps, RaisedSleeps DEF SleepStep

LEMMA SleepInvariant == Spec => []SleepInv
<1>1. Init => SleepInv
  <2> SUFFICES ASSUME Init PROVE SleepInv
    OBVIOUS
  <2>1. \A c \in Callers : slept[c] = 0 /\ at[c] = "idle"
    BY DEF Init, RetryInit
  <2>2. 3 * MaxDelay \in Nat /\ MaxAttempts \in [Callers -> Nat]
    BY RetryAssumption
  <2>3. \A a, b \in Nat : 2 * 0 <= a * b
    OBVIOUS
  <2>4. \A c \in Callers :
          MaxAttempts[c] > 0 => 2 * slept[c] <= 3 * MaxDelay * (MaxAttempts[c] - 1)
    <3> SUFFICES ASSUME NEW c \in Callers, MaxAttempts[c] > 0
                 PROVE  2 * slept[c] <= 3 * MaxDelay * (MaxAttempts[c] - 1)
      OBVIOUS
    <3>1. MaxAttempts[c] - 1 \in Nat
      BY <2>2
    <3>2. QED
      BY <2>1, <2>2, <2>3, <3>1
  <2>5. QED
    BY <2>1, <2>4 DEF Init, RetryInit, SleepInv, SleepsOK, SleptPerTry, SleepIsBounded
<1>2. LoopInv /\ SleepInv /\ [Next]_vars => SleepInv'
  BY StepsOfTheSleeps, SleepInvStep
<1>3. QED
  BY <1>1, <1>2, LoopInvariant, PTL DEF Spec

(* However often it is tried again and whatever the jitter, a call with    *)
(* exponential delays sleeps at most half as much again as max_delay       *)
(* between each two of its attempts.                                       *)
THEOREM SleepIsAlwaysBounded == Spec => []SleepIsBounded
<1>1. SleepInv => SleepIsBounded
  BY DEF SleepInv
<1>2. QED
  BY <1>1, SleepInvariant, PTL
-----------------------------------------------------------------------------
(* The callers whose function the breaker runs are trying it. *)
RunningAreTrying ==
  /\ \A c \in running : at[c] = "trying"
  /\ disturbed \subseteq Callers

LEMMA RunningStep ==
  ASSUME LoopInv, running \subseteq Callers, RunningAreTrying, [Next]_vars
  PROVE  RunningAreTrying'
<1> USE DEF RunningAreTrying, LoopInv, LoopOK
<1>1. ASSUME NEW c \in Callers, Call(c) \/ Resume(c) PROVE RunningAreTrying'
  BY <1>1 DEF Call, StartCall, End, Resume, Wake, breakerVars, history
<1>2. ASSUME NEW c \in Callers, Admitted(c) PROVE RunningAreTrying'
  BY <1>2 DEF Admitted, Breaker!Admit, retryVars, history
<1>3. ASSUME NEW c \in Callers, Refused(c) PROVE RunningAreTrying'
  BY <1>3 DEF Refused, Breaker!Reject, Breaker!ReadState, Raised, End
<1>4. ASSUME NEW c \in Callers, Succeeded(c) \/ Escaped(c) PROVE RunningAreTrying'
  BY <1>4 DEF Succeeded, Returned, Breaker!Succeed, Escaped, Breaker!Escape, Breaker!Leave,
              Raised, End, history
<1>5. ASSUME NEW c \in Callers, Failed(c) PROVE RunningAreTrying'
  BY <1>5 DEF Failed, Breaker!Fail, Breaker!Leave, Raised, End, Waiting
<1>6. CASE ReadState \/ Recover
  BY <1>6 DEF ReadState, Recover, Breaker!ReadState, Breaker!Recover, retryVars, history
<1>7. CASE Tick
  BY <1>7 DEF Tick, SleepOn, Breaker!Tick, breakerVars
<1>8. CASE UNCHANGED vars
  BY <1>8 DEF vars, retryVars, breakerVars, history
<1>9. QED
  BY <1>1, <1>2, <1>3, <1>4, <1>5, <1>6, <1>7, <1>8 DEF Next, Proceed

(* The breaker's attributes and the loops' variables keep their types, and *)
(* the function runs only for callers that are trying it.                  *)
THEOREM TypeCorrect == Spec => []TypeOK
<1>1. CB!Spec => []CB!TypeOK
  BY CB!TypeCorrect, ParametersOfTheBreaker, PTL
<1>2. CB!TypeOK => Breaker!TypeOK /\ running \subseteq Callers
  BY DEF CB!TypeOK, Breaker!TypeOK, CB!Closed, CB!Open, CB!HalfOpen, Breaker!Closed,
         Breaker!Open, Breaker!HalfOpen
<1>3. Init => RunningAreTrying
  BY DEF Init, Breaker!Init, RunningAreTrying
<1>4. LoopInv /\ CB!TypeOK /\ RunningAreTrying /\ [Next]_vars => RunningAreTrying'
  BY <1>2, RunningStep
<1>5. LoopInv /\ SleepInv /\ ClocksOK /\ CB!TypeOK /\ RunningAreTrying => TypeOK
  BY <1>2 DEF LoopInv, LoopOK, SleepInv, SleepsOK, ClocksOK, RunningAreTrying, TypeOK,
              RetryTypeOK
<1>6. PatienceInv => ClocksOK
  BY DEF PatienceInv
<1>7. QED
  BY <1>1, <1>3, <1>4, <1>5, <1>6, UsesABreaker, LoopInvariant, SleepInvariant,
     PatienceInvariant, PTL DEF Spec
=============================================================================
