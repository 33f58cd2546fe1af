----------------------- MODULE CircuitBreakerProofs -------------------------
(***************************************************************************)
(* What CircuitBreaker guarantees for every number of callers and every    *)
(* threshold, timeout and number of half-open slots.                       *)
(***************************************************************************)
EXTENDS CircuitBreaker, FiniteSetTheorems, TLAPS

(* SlotsAreRunning is inductive only together with TrippedIsCounted: a     *)
(* failed probe frees its slot by re-opening the breaker, and it re-opens  *)
(* the breaker because the count is still at the threshold.                *)
BreakerInv == TypeOK /\ TrippedIsCounted /\ SlotsAreRunning
-----------------------------------------------------------------------------
LEMMA InitialTypes == Init => TypeOK
<1>1. 0 \in 0..MaxFailures /\ 0 \in -1..(ResetTimeout + 1) /\ 0 \in 0..MaxSetBacks
  BY BreakerAssumption
<1>2. Init => halfOpenCalls \in Nat
  BY DEF Init
<1>3. QED
  BY <1>1, <1>2, Zenon DEF Init, TypeOK

LEMMA TypesStep ==
  ASSUME TypeOK, [Next]_vars
  PROVE  TypeOK'
<1> USE BreakerAssumption DEF TypeOK, Closed, Open, HalfOpen
<1>1. ASSUME ReadState PROVE TypeOK'
  BY <1>1 DEF ReadState, StateSeen, CallsSeen, EpisodeSeen, LostSeen
<1>2. ASSUME NEW c \in Callers, Reject(c) PROVE TypeOK'
  BY <1>2, <1>1 DEF Reject
<1>3. ASSUME NEW c \in Callers, Admit(c) PROVE TypeOK'
  BY <1>3 DEF Admit, StateSeen, CallsSeen, EpisodeSeen, LostSeen
<1>4. ASSUME NEW c \in Callers, Succeed(c) PROVE TypeOK'
  BY <1>4 DEF Succeed, Leave
<1>5. ASSUME NEW c \in Callers, Fail(c) PROVE TypeOK'
  BY <1>5 DEF Fail, Leave, CountFailure, TooMany
<1>6. ASSUME NEW c \in Callers, Escape(c) PROVE TypeOK'
  BY <1>6 DEF Escape, Leave
<1>7. ASSUME Tick PROVE TypeOK'
  BY <1>7 DEF Tick
<1>8. ASSUME SetBack PROVE TypeOK'
  BY <1>8 DEF SetBack
<1>9. ASSUME Recover PROVE TypeOK'
  BY <1>9 DEF Recover
<1>10. CASE UNCHANGED vars
  BY <1>10 DEF vars
<1>11. QED
  BY <1>1, <1>2, <1>3, <1>4, <1>5, <1>6, <1>7, <1>8, <1>9, <1>10 DEF Next, Return

(* The breaker's attributes keep their types, whatever callers do. *)
THEOREM TypeCorrect == Spec => []TypeOK
BY InitialTypes, TypesStep, PTL DEF Spec
-----------------------------------------------------------------------------
(* One more failure keeps a count that has reached the threshold there. *)
LEMMA CountingKeepsThreshold ==
  ASSUME TypeOK, failureCount >= FailureThreshold
  PROVE  CountFailure >= FailureThreshold
BY BreakerAssumption DEF TypeOK, CountFailure

(* Leaving CLOSED and reaching the threshold are the same event, and the   *)
(* two are undone together, in any interleaving of calls and even when     *)
(* calls end by a BaseException.                                           *)
LEMMA TrippedStep ==
  ASSUME TypeOK, TrippedIsCounted, [Next]_vars
  PROVE  TrippedIsCounted'
<1> USE BreakerAssumption DEF TypeOK, TrippedIsCounted, Closed, Open, HalfOpen
<1>1. ASSUME ReadState PROVE TrippedIsCounted'
  BY <1>1 DEF ReadState, StateSeen, TimedOut
<1>2. ASSUME NEW c \in Callers, Reject(c) PROVE TrippedIsCounted'
  BY <1>1, <1>2 DEF Reject
<1>3. ASSUME NEW c \in Callers, Admit(c) PROVE TrippedIsCounted'
  BY <1>3 DEF Admit, StateSeen, TimedOut
<1>4. ASSUME NEW c \in Callers, Succeed(c) PROVE TrippedIsCounted'
  BY <1>4 DEF Succeed
<1>5. ASSUME NEW c \in Callers, Fail(c) PROVE TrippedIsCounted'
  BY <1>5, CountingKeepsThreshold DEF Fail, TooMany
<1>6. ASSUME NEW c \in Callers, Escape(c) PROVE TrippedIsCounted'
  BY <1>6 DEF Escape
<1>7. ASSUME Tick PROVE TrippedIsCounted'
  BY <1>7 DEF Tick
<1>8. ASSUME SetBack PROVE TrippedIsCounted'
  BY <1>8 DEF SetBack
<1>9. ASSUME Recover PROVE TrippedIsCounted'
  BY <1>9 DEF Recover
<1>10. CASE UNCHANGED vars
  BY <1>10 DEF vars
<1>11. QED
  BY <1>1, <1>2, <1>3, <1>4, <1>5, <1>6, <1>7, <1>8, <1>9, <1>10 DEF Next, Return

THEOREM TrippedIsAlwaysCounted == Spec => []TrippedIsCounted
<1>1. Init => TrippedIsCounted
  BY BreakerAssumption DEF Init, TrippedIsCounted
<1>2. TypeOK /\ TrippedIsCounted /\ [Next]_vars => TrippedIsCounted'
  BY TrippedStep
<1>3. QED
  BY <1>1, <1>2, TypeCorrect, PTL DEF Spec
-----------------------------------------------------------------------------
(* A call that returns or raises an Exception takes the breaker out of     *)
(* HALF_OPEN: into CLOSED, or back into OPEN.                              *)
LEMMA OutcomeDecides ==
  ASSUME TypeOK, TrippedIsCounted, NEW c \in Callers, Succeed(c) \/ Fail(c),
         state = HalfOpen
  PROVE  state' # HalfOpen
<1>1. CASE Succeed(c)
  BY <1>1 DEF Succeed, Closed, HalfOpen
<1>2. CASE Fail(c)
  <2>1. failureCount >= FailureThreshold
    BY DEF TrippedIsCounted, Closed, HalfOpen
  <2>2. QED
    BY <1>2, <2>1, CountingKeepsThreshold DEF Fail, TooMany, Open, HalfOpen
<1>3. QED
  BY <1>1, <1>2

(* A call that escapes a half-open breaker moves its slot from the probes  *)
(* to the lost ones.                                                       *)
LEMMA EscapeLosesOneSlot ==
  ASSUME TypeOK, SlotsAreRunning, NEW c \in Callers, Escape(c)
  PROVE  SlotsAreRunning'
<1>1. IsFiniteSet(probes) /\ Cardinality(probes) \in Nat
  BY BreakerAssumption, FS_Subset, FS_CardinalityType DEF TypeOK
<1>2. CASE c \in probes
  <2>1. Cardinality(probes') = Cardinality(probes) - 1
    BY <1>1, <1>2, FS_RemoveElement DEF Escape, Leave
  <2>2. QED
    BY <1>1, <1>2, <2>1 DEF Escape, SlotsAreRunning, TypeOK
<1>3. CASE c \notin probes
  <2>1. probes' = probes
    BY <1>3 DEF Escape, Leave
  <2>2. QED
    BY <1>3, <2>1 DEF Escape, SlotsAreRunning
<1>4. QED
  BY <1>2, <1>3

(* Admission to a half-open breaker takes exactly one slot. *)
LEMMA AdmissionTakesOneSlot ==
  ASSUME TypeOK, SlotsAreRunning, NEW c \in Callers, Admit(c), state' = HalfOpen
  PROVE  SlotsAreRunning'
<1> USE BreakerAssumption DEF TypeOK, Closed, Open, HalfOpen
<1>1. /\ StateSeen = HalfOpen
      /\ halfOpenCalls' = CallsSeen + 1
      /\ probes' = EpisodeSeen \union {c}
      /\ lost' = LostSeen
      /\ CallsSeen < HalfOpenMax
  BY DEF Admit, Refused, StateSeen, CallsSeen
<1>2. /\ CallsSeen = Cardinality(EpisodeSeen) + LostSeen
      /\ CallsSeen \in Nat /\ LostSeen \in Nat
  BY <1>1, FS_EmptySet
     DEF SlotsAreRunning, StateSeen, CallsSeen, EpisodeSeen, LostSeen, TimedOut
<1>3. /\ IsFiniteSet(EpisodeSeen)
      /\ c \notin EpisodeSeen
  <2>1. EpisodeSeen \subseteq probes /\ probes \subseteq Callers /\ c \notin probes
    BY DEF EpisodeSeen, Admit
  <2>2. QED
    BY <2>1, FS_Subset
<1>4. Cardinality(EpisodeSeen \union {c}) = Cardinality(EpisodeSeen) + 1
  BY <1>3, FS_AddElement
<1>5. Cardinality(EpisodeSeen) \in Nat
  BY <1>3, FS_CardinalityType
<1>6. QED
  BY <1>1, <1>2, <1>4, <1>5 DEF SlotsAreRunning

LEMMA SlotsStep ==
  ASSUME TypeOK, TrippedIsCounted, SlotsAreRunning, [Next]_vars
  PROVE  SlotsAreRunning'
<1> USE DEF Closed, Open, HalfOpen
<1>1. ASSUME ReadState PROVE SlotsAreRunning'
  BY <1>1, BreakerAssumption, FS_EmptySet
     DEF ReadState, SlotsAreRunning, StateSeen, CallsSeen, EpisodeSeen, LostSeen, TimedOut
<1>2. ASSUME NEW c \in Callers, Reject(c) PROVE SlotsAreRunning'
  BY <1>1, <1>2 DEF Reject
<1>3. ASSUME NEW c \in Callers, Admit(c) PROVE SlotsAreRunning'
  <2>1. CASE state' = HalfOpen
    BY <1>3, <2>1, AdmissionTakesOneSlot
  <2>2. CASE state' # HalfOpen
    BY <2>2 DEF SlotsAreRunning
  <2>3. QED
    BY <2>1, <2>2
<1>4. ASSUME NEW c \in Callers, Return(c) PROVE SlotsAreRunning'
  <2>1. CASE Escape(c)
    BY <2>1, EscapeLosesOneSlot
  <2>2. CASE Succeed(c) \/ Fail(c)
    <3>1. CASE state = HalfOpen
      BY <2>2, <3>1, OutcomeDecides DEF SlotsAreRunning
    <3>2. CASE state # HalfOpen
      BY <2>2, <3>2 DEF Succeed, Fail, SlotsAreRunning
    <3>3. QED
      BY <3>1, <3>2
  <2>3. QED
    BY <1>4, <2>1, <2>2 DEF Return
<1>5. ASSUME Tick PROVE SlotsAreRunning'
  BY <1>5 DEF Tick, SlotsAreRunning
<1>6. ASSUME SetBack PROVE SlotsAreRunning'
  BY <1>6 DEF SetBack, SlotsAreRunning
<1>7. ASSUME Recover PROVE SlotsAreRunning'
  BY <1>7 DEF Recover, SlotsAreRunning
<1>8. CASE UNCHANGED vars
  BY <1>8 DEF vars, SlotsAreRunning
<1>9. QED
  BY <1>1, <1>2, <1>3, <1>4, <1>5, <1>6, <1>7, <1>8 DEF Next
-----------------------------------------------------------------------------
LEMMA InitialBreaker == Init => BreakerInv
BY InitialTypes, BreakerAssumption
   DEF Init, BreakerInv, TrippedIsCounted, SlotsAreRunning, Closed, HalfOpen

LEMMA BreakerStep ==
  ASSUME BreakerInv, [Next]_vars
  PROVE  BreakerInv'
BY TypesStep, TrippedStep, SlotsStep DEF BreakerInv

LEMMA BreakerInvariant == Spec => []BreakerInv
BY InitialBreaker, BreakerStep, PTL DEF Spec

(* The slots taken in HALF_OPEN are those of running calls and of calls    *)
(* that escaped, at most half_open_max together.                           *)
THEOREM SlotsAlwaysRunning == Spec => []SlotsAreRunning
<1>1. BreakerInv => SlotsAreRunning
  BY DEF BreakerInv
<1>2. QED
  BY <1>1, BreakerInvariant, PTL

(* No outcome that is recorded leaves the breaker HALF_OPEN. *)
THEOREM FirstOutcomeAlwaysDecides == Spec => FirstOutcomeDecides
<1>1. BreakerInv /\ [Next]_vars =>
        [state = HalfOpen /\ ~(running \ EscapingCallers \subseteq running')
           => state' # HalfOpen]_vars
  <2> SUFFICES ASSUME BreakerInv, Next, state = HalfOpen,
                      ~(running \ EscapingCallers \subseteq running')
               PROVE  state' # HalfOpen
    OBVIOUS
  <2>1. PICK c \in Callers : Return(c)
    BY DEF Next, Reject, Admit, ReadState, Tick, SetBack, Recover
  <2>2. ~Escape(c)
    BY DEF Escape, Leave
  <2>3. QED
    BY <2>1, <2>2, OutcomeDecides DEF BreakerInv, Return
<1>2. QED
  BY <1>1, BreakerInvariant, PTL DEF Spec, FirstOutcomeDecides

(* Between a failure that leaves the breaker OPEN and the end of the reset *)
(* timeout no function is started, whatever the callers do.                *)
THEOREM AlwaysFailsFast == Spec => FailsFast
<1>1. TypeOK /\ [Next]_vars =>
        [state = Open /\ sinceFailure <= ResetTimeout => running' \subseteq running]_vars
  <2> SUFFICES ASSUME TypeOK, Next, state = Open, sinceFailure <= ResetTimeout
               PROVE  running' \subseteq running
    OBVIOUS
  <2>1. StateSeen = Open
    BY BreakerAssumption DEF StateSeen, TimedOut, TypeOK
  <2>2. \A c \in Callers : ~Admit(c)
    BY <2>1 DEF Admit, Refused
  <2>3. QED
    BY <2>2 DEF Next, Reject, ReadState, Return, Succeed, Fail, Escape, Leave, Tick,
       SetBack, Recover
<1>2. QED
  BY <1>1, TypeCorrect, PTL DEF Spec, FailsFast
=============================================================================
