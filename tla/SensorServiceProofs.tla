------------------------- MODULE SensorServiceProofs ------------------------
(***************************************************************************)
(* What SensorService guarantees for any number of workers, readings,      *)
(* thresholds and failing ports.                                           *)
(***************************************************************************)
EXTENDS SensorService, SumsProofs, FiniteSetTheorems, TLAPS
-----------------------------------------------------------------------------
(* A worker that is not idle has a current reading of a known sensor. *)
LEMMA CurrentReading ==
  ASSUME TypeOK, NEW w \in Workers, pc[w] # "idle"
  PROVE  /\ todo[w] # <<>>
         /\ Current(w) \in Readings
         /\ Sensor(w) \in Ids
         /\ Tail(todo[w]) \in Seq(Readings)
         /\ Len(todo[w]) = Len(Tail(todo[w])) + 1
BY ServiceAssumption DEF TypeOK, WorkersOK, Current, Sensor

LEMMA StatusType == \A w : Status(w) \in Statuses
BY DEF Status, Statuses

(* What the configured thresholds of a reading's validated id can be. *)
LEMMA TakeUpType ==
  ASSUME TypeOK, NEW w \in Workers, NEW rs \in Seq(Readings), TakeUp(w, rs)
  PROVE  inForce' \in [Workers -> SUBSET Configurations]
<1>1. CASE rs = <<>>
  BY <1>1 DEF TypeOK, WorkersOK, TakeUp
<1>2. CASE rs # <<>>
  <2>1. thresholds[Canonical[SensorOf[Head(rs)]]] \in Configurations
    <3>1. Head(rs) \in Readings
      BY <1>2
    <3>2. QED
      BY <3>1, ServiceAssumption DEF TypeOK
  <2>2. QED
    BY <1>2, <2>1 DEF TypeOK, WorkersOK, TakeUp
<1>3. QED
  BY <1>1, <1>2

LEMMA RaiseType ==
  ASSUME TypeOK, NEW w \in Workers, Raise(w)
  PROVE  WorkersOK'
<1> USE DEF TypeOK, WorkersOK, Raise
<1>1. /\ pc' \in [Workers -> {"idle", "validate"} \union PortCalls]
      /\ outcome' \in [Workers -> {"none", "returned", "raised"}]
  OBVIOUS
<1>2. todo' \in [Workers -> Seq(Readings)]
  OBVIOUS
<1>3. inForce' \in [Workers -> SUBSET Configurations]
  OBVIOUS
<1>4. \A v \in Workers : pc'[v] # "idle" => todo'[v] # <<>>
  OBVIOUS
<1>5. QED
  BY <1>1, <1>2, <1>3, <1>4

LEMMA FinishType ==
  ASSUME TypeOK, NEW w \in Workers, pc[w] # "idle", NEW kind \in Kinds,
         Finish(w, kind)
  PROVE  WorkersOK'
<1>1. /\ Tail(todo[w]) \in Seq(Readings)
      /\ todo[w] # <<>>
  BY CurrentReading
<1>2. inForce' \in [Workers -> SUBSET Configurations]
  BY <1>1, TakeUpType DEF Finish
<1>3. /\ pc' \in [Workers -> {"idle", "validate"} \union PortCalls]
      /\ outcome' \in [Workers -> {"none", "returned", "raised"}]
  BY DEF TypeOK, WorkersOK, Finish, After
<1>4. todo' \in [Workers -> Seq(Readings)]
  BY <1>1 DEF TypeOK, WorkersOK, Finish
<1>5. tally' \in [Workers -> [Kinds -> Nat]]
  BY DEF TypeOK, WorkersOK, Finish
<1>6. \A v \in Workers : pc'[v] # "idle" => todo'[v] # <<>>
  BY <1>1 DEF TypeOK, WorkersOK, Finish, After
<1>7. QED
  BY <1>2, <1>3, <1>4, <1>5, <1>6 DEF TypeOK, WorkersOK, Finish

(* A step from one port to the next, within one reading. *)
LEMMA StepType ==
  ASSUME TypeOK, NEW w \in Workers, NEW to \in PortCalls, NEW from,
         from # "idle", Step(w, from, to),
         UNCHANGED <<inBatch, todo, tally, outcome>>,
         isAnomaly' \in [Workers -> BOOLEAN],
         inForce' = inForce
  PROVE  WorkersOK'
BY DEF TypeOK, WorkersOK, Step

LEMMA StoreType ==
  ASSUME TypeOK, NEW w \in Workers, pc[w] # "idle", Store(w)
  PROVE  stored' \in [Readings -> [Statuses -> Nat]]
<1>1. Current(w) \in Readings /\ Status(w) \in Statuses
  BY CurrentReading, StatusType
<1>2. QED
  BY <1>1 DEF TypeOK, LedgerOK, Store
-----------------------------------------------------------------------------
LEMMA BeginType ==
  ASSUME TypeOK, NEW w \in Workers, NEW rs \in Seq(Readings), NEW batch \in BOOLEAN,
         Begin(w, rs, batch)
  PROVE  TypeOK'
<1>1. inForce' \in [Workers -> SUBSET Configurations]
  BY TakeUpType DEF Begin
<1>2. calls' \in 0..MaxCalls
  BY ServiceAssumption DEF TypeOK, Begin
<1>3. tally' \in [Workers -> [Kinds -> Nat]]
  <2>1. [NoTally EXCEPT !["total"] = Len(rs)] \in [Kinds -> Nat]
    BY DEF NoTally, Kinds
  <2>2. QED
    BY <2>1 DEF TypeOK, WorkersOK, Begin
<1>4. /\ pc' \in [Workers -> {"idle", "validate"} \union PortCalls]
      /\ outcome' \in [Workers -> {"none", "returned", "raised"}]
      /\ todo' \in [Workers -> Seq(Readings)]
  BY DEF TypeOK, WorkersOK, Begin, Step, After
<1>5. /\ inBatch' \in [Workers -> BOOLEAN]
      /\ isAnomaly' \in [Workers -> BOOLEAN]
  BY DEF TypeOK, WorkersOK, Begin
<1>6. \A v \in Workers : pc'[v] # "idle" => todo'[v] # <<>>
  BY DEF TypeOK, WorkersOK, Begin, Step, After
<1>7. LedgerOK' /\ thresholds' \in [Ids -> Configurations]
  BY DEF TypeOK, LedgerOK, Begin, ledger, losses
<1>8. QED
  BY <1>1, <1>2, <1>3, <1>4, <1>5, <1>6, <1>7 DEF TypeOK, WorkersOK

LEMMA ProceedType ==
  ASSUME TypeOK, NEW w \in Workers, Proceed(w)
  PROVE  TypeOK'
<1>1. ASSUME UNCHANGED ledger PROVE LedgerOK'
  BY <1>1 DEF TypeOK, LedgerOK, ledger, losses
<1>2. pc[w] # "idle"
  BY DEF Proceed, Accept, Refuse, RefuseFails, CheckThreshold, GetThresholdFails, CheckStatistics,
         GetStatsFails, Save, SaveFails, CommitUnacknowledged, SendAlert,
         SendAlertFails, Count, CountFails, Observe, ObserveFails, PortRaises, Step
<1>3. Current(w) \in Readings /\ Sensor(w) \in Ids /\ Status(w) \in Statuses
  BY <1>2, CurrentReading, StatusType
<1>4. WorkersOK'
  <2>1. ASSUME Accept(w) PROVE WorkersOK'
    BY <2>1, StepType DEF Accept, PortCalls, Ports, TypeOK, WorkersOK
  <2>2. ASSUME Refuse(w) PROVE WorkersOK'
    BY <1>2, <2>2, RaiseType, FinishType DEF Refuse, Kinds
  <2>3. ASSUME CheckThreshold(w) PROVE WorkersOK'
    <3>1. isAnomaly' \in [Workers -> BOOLEAN]
      BY <2>3 DEF CheckThreshold, TypeOK, WorkersOK
    <3>2. QED
      BY <2>3, <3>1, StepType DEF CheckThreshold, PortCalls, Ports
  <2>4. ASSUME CheckStatistics(w) PROVE WorkersOK'
    <3>1. isAnomaly' \in [Workers -> BOOLEAN]
      BY <2>4 DEF CheckStatistics, TypeOK, WorkersOK
    <3>2. QED
      BY <2>4, <3>1, StepType DEF CheckStatistics, PortCalls, Ports
  <2>5. ASSUME Save(w) PROVE WorkersOK'
    BY <2>5, StepType DEF Save, PortCalls, Ports, TypeOK, WorkersOK
  <2>6. ASSUME SendAlert(w) PROVE WorkersOK'
    BY <2>6, StepType DEF SendAlert, PortCalls, Ports, TypeOK, WorkersOK
  <2>7. ASSUME Raise(w) PROVE WorkersOK'
    BY <2>7, RaiseType
  <2>8. ASSUME Count(w) PROVE WorkersOK'
    BY <2>8, StepType DEF Count, PortCalls, Ports, TypeOK, WorkersOK
  <2>9. ASSUME Observe(w) PROVE WorkersOK'
    BY <1>2, <1>3, <2>9, FinishType DEF Observe, Kinds, Statuses
  <2>10. QED
    BY <2>1, <2>2, <2>3, <2>4, <2>5, <2>6, <2>7, <2>8, <2>9
       DEF Proceed, RefuseFails, GetThresholdFails, GetStatsFails, SaveFails,
           CommitUnacknowledged, SendAlertFails, CountFails, ObserveFails, PortRaises
<1>5. LedgerOK'
  <2> USE <1>3 DEF TypeOK, LedgerOK, losses
  <2>1. ASSUME Refuse(w) PROVE LedgerOK'
    BY <2>1 DEF Refuse
  <2>2. ASSUME CheckStatistics(w) PROVE LedgerOK'
    BY <2>2 DEF CheckStatistics
  <2>3. ASSUME Save(w) PROVE LedgerOK'
    BY <1>2, <2>3, StoreType DEF Save
  <2>4. ASSUME CommitUnacknowledged(w) PROVE LedgerOK'
    BY <1>2, <2>4, StoreType DEF CommitUnacknowledged
  <2>5. ASSUME SendAlert(w) PROVE LedgerOK'
    BY <2>5 DEF SendAlert
  <2>6. ASSUME SendAlertFails(w) PROVE LedgerOK'
    BY <2>6 DEF SendAlertFails
  <2>7. ASSUME RefuseFails(w) PROVE LedgerOK'
    BY <2>7 DEF RefuseFails
  <2>8. ASSUME Count(w) PROVE LedgerOK'
    BY <2>8 DEF Count
  <2>9. ASSUME CountFails(w) PROVE LedgerOK'
    BY <2>9 DEF CountFails
  <2>10. ASSUME Observe(w) PROVE LedgerOK'
    BY <2>10 DEF Observe
  <2>11. ASSUME ObserveFails(w) PROVE LedgerOK'
    BY <2>11 DEF ObserveFails
  <2>12. QED
    BY <1>1, <2>1, <2>2, <2>3, <2>4, <2>5, <2>6, <2>7, <2>8, <2>9, <2>10, <2>11
       DEF Proceed, Accept, CheckThreshold, GetThresholdFails, GetStatsFails, SaveFails
<1>6. UNCHANGED <<thresholds, calls>>
  BY DEF Proceed, Accept, Refuse, RefuseFails, CheckThreshold, GetThresholdFails, CheckStatistics,
         GetStatsFails, Save, SaveFails, CommitUnacknowledged, SendAlert,
         SendAlertFails, Count, CountFails, Observe, ObserveFails
<1>7. QED
  BY <1>4, <1>5, <1>6 DEF TypeOK

LEMMA SaveThresholdType ==
  ASSUME TypeOK, NEW id \in WellFormed, NEW range \in Ranges, SaveThreshold(id, range)
  PROVE  TypeOK'
<1>1. {range} \in Configurations
  BY DEF Configurations
<1>2. thresholds' \in [Ids -> Configurations]
  BY <1>1, ServiceAssumption DEF SaveThreshold, TypeOK
<1>3. inForce' \in [Workers -> SUBSET Configurations]
  BY <1>1 DEF SaveThreshold, TypeOK, WorkersOK
<1>4. LedgerOK'
  BY DEF SaveThreshold, TypeOK, LedgerOK, ledger, losses
<1>5. QED
  BY <1>2, <1>3, <1>4 DEF SaveThreshold, TypeOK, WorkersOK

(* A call starts from a sequence of readings. *)
LEMMA BegunSequences ==
  ASSUME NEW w \in Workers, ProcessReading(w) \/ ProcessBatch(w)
  PROVE  \E rs \in Seq(Readings), batch \in BOOLEAN : Begin(w, rs, batch)
<1>1. CASE ProcessReading(w)
  <2>1. PICK r \in Readings : Begin(w, <<r>>, FALSE)
    BY <1>1 DEF ProcessReading
  <2>2. <<r>> \in Seq(Readings)
    OBVIOUS
  <2>3. QED
    BY <2>1, <2>2, Zenon
<1>2. CASE ProcessBatch(w)
  <2>1. PICK n \in 0..MaxBatch : \E rs \in [1..n -> Readings] : Begin(w, rs, TRUE)
    BY <1>2 DEF ProcessBatch
  <2>2. PICK rs \in [1..n -> Readings] : Begin(w, rs, TRUE)
    BY <2>1
  <2>3. rs \in Seq(Readings)
    BY ServiceAssumption
  <2>4. QED
    BY <2>2, <2>3
<1>3. QED
  BY <1>1, <1>2

(* The state of the service keeps its types. *)
THEOREM TypeCorrect == Spec => []TypeOK
<1>1. Init => TypeOK
  <2> SUFFICES ASSUME Init PROVE TypeOK
    OBVIOUS
  <2>1. WorkersOK
    BY DEF Init, WorkersOK, NoTally, Kinds
  <2>2. LedgerOK
    BY DEF Init, LedgerOK
  <2>3. thresholds \in [Ids -> Configurations]
    BY DEF Init, Configurations
  <2>4. calls \in 0..MaxCalls
    BY ServiceAssumption DEF Init
  <2>5. QED
    BY <2>1, <2>2, <2>3, <2>4 DEF TypeOK
<1>2. TypeOK /\ [Next]_vars => TypeOK'
  <2> SUFFICES ASSUME TypeOK, [Next]_vars PROVE TypeOK'
    OBVIOUS
  <2>1. ASSUME NEW w \in Workers, ProcessReading(w) \/ ProcessBatch(w) PROVE TypeOK'
    BY <2>1, BegunSequences, BeginType
  <2>2. ASSUME NEW w \in Workers, Proceed(w) PROVE TypeOK'
    BY <2>2, ProceedType
  <2>3. ASSUME NEW id \in WellFormed, NEW range \in Ranges, SaveThreshold(id, range)
        PROVE  TypeOK'
    BY <2>3, SaveThresholdType
  <2>4. CASE UNCHANGED vars
    BY <2>4 DEF vars, local, ledger, losses, TypeOK, WorkersOK, LedgerOK
  <2>5. QED
    BY <2>1, <2>2, <2>3, <2>4 DEF Next
<1>3. QED
  BY <1>1, <1>2, PTL DEF Spec
-----------------------------------------------------------------------------
(* A worker's part of BatchAccounting.  It is inductive only together with *)
(* this: a worker that is processing a reading has not ended its call.     *)
Undecided(w) == pc[w] # "idle" => outcome[w] = "none"

Accounted(w) ==
  outcome[w] # "raised" =>
    /\ tally[w]["total"] = tally[w]["valid"] + tally[w]["anomaly"]
                             + tally[w]["invalid"] + Len(todo[w])
    /\ pc[w] = "idle" => todo[w] = <<>>

AccountsInv == \A w \in Workers : Undecided(w) /\ Accounted(w)

LEMMA BeginAccounts ==
  ASSUME TypeOK, NEW w \in Workers, NEW rs \in Seq(Readings), NEW batch,
         Begin(w, rs, batch)
  PROVE  Undecided(w)' /\ Accounted(w)'
<1>1. /\ todo'[w] = rs
      /\ pc'[w] = IF rs = <<>> THEN "idle" ELSE "validate"
      /\ outcome'[w] = IF rs = <<>> THEN "returned" ELSE "none"
      /\ tally'[w] = [NoTally EXCEPT !["total"] = Len(rs)]
  BY DEF Begin, Step, After, TypeOK, WorkersOK
<1>2. /\ tally'[w]["total"] = Len(rs)
      /\ \A k \in {"valid", "anomaly", "invalid"} : tally'[w][k] = 0
  BY <1>1 DEF NoTally, Kinds
<1>3. QED
  BY <1>1, <1>2 DEF Undecided, Accounted

LEMMA FinishAccounts ==
  ASSUME TypeOK, NEW w \in Workers, pc[w] # "idle", Undecided(w), Accounted(w),
         NEW kind \in {"valid", "anomaly", "invalid"}, Finish(w, kind)
  PROVE  Undecided(w)' /\ Accounted(w)'
<1> DEFINE rest == Tail(todo[w])
<1>1. /\ Len(todo[w]) = Len(rest) + 1
      /\ Len(rest) \in Nat
  BY CurrentReading
<1>2. /\ todo'[w] = rest
      /\ pc'[w] = IF rest = <<>> THEN "idle" ELSE "validate"
      /\ outcome'[w] = IF rest = <<>> THEN "returned" ELSE outcome[w]
  BY DEF Finish, After, TypeOK, WorkersOK
<1>3. /\ tally'[w] = [tally[w] EXCEPT ![kind] = @ + 1]
      /\ tally[w] \in [Kinds -> Nat]
  BY DEF Finish, TypeOK, WorkersOK
<1>4. /\ tally'[w]["total"] = tally[w]["total"]
      /\ tally'[w]["valid"] + tally'[w]["anomaly"] + tally'[w]["invalid"]
           = tally[w]["valid"] + tally[w]["anomaly"] + tally[w]["invalid"] + 1
  <2>1. CASE kind = "valid"
    BY <1>3, <2>1 DEF Kinds
  <2>2. CASE kind = "anomaly"
    BY <1>3, <2>2 DEF Kinds
  <2>3. CASE kind = "invalid"
    BY <1>3, <2>3 DEF Kinds
  <2>4. QED
    BY <2>1, <2>2, <2>3
<1>5. /\ outcome[w] = "none"
      /\ tally[w]["total"] = tally[w]["valid"] + tally[w]["anomaly"]
                               + tally[w]["invalid"] + Len(todo[w])
  BY DEF Undecided, Accounted
<1>6. tally'[w]["total"] = tally'[w]["valid"] + tally'[w]["anomaly"]
                              + tally'[w]["invalid"] + Len(todo'[w])
  <2>1. /\ Len(todo[w]) = Len(todo'[w]) + 1
        /\ Len(todo'[w]) \in Nat
    BY <1>1, <1>2
  <2>2. \A k \in {"valid", "anomaly", "invalid"} : tally[w][k] \in Nat
    BY <1>3 DEF Kinds
  <2>3. /\ tally[w]["valid"] \in Nat
        /\ tally[w]["anomaly"] \in Nat
        /\ tally[w]["invalid"] \in Nat
    BY <2>2
  <2>4. tally[w]["valid"] + tally[w]["anomaly"] + tally[w]["invalid"] + Len(todo[w])
          = (tally[w]["valid"] + tally[w]["anomaly"] + tally[w]["invalid"] + 1)
              + Len(todo'[w])
    <3>1. \A a, b, c, n \in Nat : a + b + c + (n + 1) = (a + b + c + 1) + n
      OBVIOUS
    <3> DEFINE a == tally[w]["valid"]
               b == tally[w]["anomaly"]
               c == tally[w]["invalid"]
               n == Len(todo'[w])
    <3>2. a \in Nat /\ b \in Nat /\ c \in Nat /\ n \in Nat
      BY <2>1, <2>3
    <3>3. a + b + c + (n + 1) = (a + b + c + 1) + n
      <4> HIDE DEF a, b, c, n
      <4> QED
        BY <3>1, <3>2
    <3>4. QED
      BY <2>1, <3>3
  <2>5. QED
    BY <1>4, <1>5, <2>4
<1>7. QED
  BY <1>2, <1>5, <1>6 DEF Undecided, Accounted

LEMMA RaiseAccounts ==
  ASSUME TypeOK, NEW w \in Workers, Raise(w)
  PROVE  Undecided(w)' /\ Accounted(w)'
BY DEF Raise, Undecided, Accounted, TypeOK, WorkersOK

LEMMA StepAccounts ==
  ASSUME TypeOK, NEW w \in Workers, pc[w] # "idle", Undecided(w), Accounted(w),
         NEW from, NEW to \in PortCalls, Step(w, from, to),
         UNCHANGED <<todo, tally, outcome>>
  PROVE  Undecided(w)' /\ Accounted(w)'
BY DEF Step, PortCalls, Ports, Undecided, Accounted, TypeOK, WorkersOK

(* A step of one worker leaves the others' calls alone. *)
Untouched(v) == UNCHANGED <<pc[v], todo[v], tally[v], outcome[v]>>

LEMMA OthersUntouched ==
  ASSUME TypeOK, NEW w \in Workers, NEW v \in Workers, v # w,
         ProcessReading(w) \/ ProcessBatch(w) \/ Proceed(w)
  PROVE  Untouched(v)
<1> USE DEF TypeOK, WorkersOK, Untouched
<1>1. ASSUME NEW rs, NEW batch, Begin(w, rs, batch) PROVE Untouched(v)
  BY <1>1 DEF Begin, Step
<1>2. ASSUME Raise(w) PROVE Untouched(v)
  BY <1>2 DEF Raise
<1>3. ASSUME NEW kind, Finish(w, kind) PROVE Untouched(v)
  BY <1>3 DEF Finish
<1>4. ASSUME NEW from, NEW to, Step(w, from, to), UNCHANGED <<todo, tally, outcome>>
      PROVE  Untouched(v)
  BY <1>4 DEF Step
<1>5. CASE ProcessReading(w) \/ ProcessBatch(w)
  BY <1>1, <1>5 DEF ProcessReading, ProcessBatch
<1>6. CASE Proceed(w)
  BY <1>2, <1>3, <1>4, <1>6
     DEF Proceed, Accept, Refuse, RefuseFails, CheckThreshold, GetThresholdFails, CheckStatistics,
         GetStatsFails, Save, SaveFails, CommitUnacknowledged, SendAlert,
         SendAlertFails, Count, CountFails, Observe, ObserveFails, PortRaises
<1>7. QED
  BY <1>5, <1>6

LEMMA ProceedAccounts ==
  ASSUME TypeOK, NEW w \in Workers, Undecided(w), Accounted(w), Proceed(w)
  PROVE  Undecided(w)' /\ Accounted(w)'
<1>1. pc[w] # "idle"
  BY DEF Proceed, Accept, Refuse, RefuseFails, CheckThreshold, GetThresholdFails, CheckStatistics,
         GetStatsFails, Save, SaveFails, CommitUnacknowledged, SendAlert,
         SendAlertFails, Count, CountFails, Observe, ObserveFails, PortRaises, Step
<1>2. CASE Raise(w)
  BY <1>2, RaiseAccounts
<1>3. CASE \E kind \in {"valid", "anomaly", "invalid"} : Finish(w, kind)
  BY <1>1, <1>3, FinishAccounts
<1>4. CASE \E from, to \in PortCalls \union {"validate"} :
             /\ to # "validate"
             /\ Step(w, from, to)
             /\ UNCHANGED <<todo, tally, outcome>>
  BY <1>1, <1>4, StepAccounts
<1>5. QED
  <2>1. ASSUME Refuse(w) PROVE Raise(w) \/ Finish(w, "invalid")
    BY <2>1 DEF Refuse
  <2>2. ASSUME Observe(w) PROVE Finish(w, "valid") \/ Finish(w, "anomaly")
    BY <2>2 DEF Observe, Status
  <2>3. ASSUME Accept(w) \/ CheckThreshold(w) \/ CheckStatistics(w) \/ Save(w)
                 \/ SendAlert(w) \/ Count(w)
        PROVE  \E from, to \in PortCalls \union {"validate"} :
                 /\ to # "validate"
                 /\ Step(w, from, to)
                 /\ UNCHANGED <<todo, tally, outcome>>
    BY <2>3 DEF Accept, CheckThreshold, CheckStatistics, Save, SendAlert, Count,
                PortCalls, Ports
  <2>4. QED
    BY <1>2, <1>3, <1>4, <2>1, <2>2, <2>3
       DEF Proceed, RefuseFails, GetThresholdFails, GetStatsFails, SaveFails,
           CommitUnacknowledged, SendAlertFails, CountFails, ObserveFails, PortRaises

(* The counts of a call always add up to the readings it was given, in any *)
(* interleaving of calls and whatever ports raise.                         *)
THEOREM BatchAlwaysAccounted == Spec => []BatchAccounting
<1>1. Init => AccountsInv
  BY DEF Init, AccountsInv, Undecided, Accounted, NoTally, Kinds
<1>2. TypeOK /\ AccountsInv /\ [Next]_vars => AccountsInv'
  <2> SUFFICES ASSUME TypeOK, AccountsInv, [Next]_vars, NEW v \in Workers
               PROVE  Undecided(v)' /\ Accounted(v)'
    BY DEF AccountsInv
  <2> USE DEF AccountsInv
  <2>1. ASSUME Untouched(v) PROVE Undecided(v)' /\ Accounted(v)'
    BY <2>1 DEF Untouched, Undecided, Accounted
  <2>2. ASSUME NEW w \in Workers, ProcessReading(w) \/ ProcessBatch(w)
        PROVE  Undecided(v)' /\ Accounted(v)'
    BY <2>1, <2>2, OthersUntouched, BegunSequences, BeginAccounts
  <2>3. ASSUME NEW w \in Workers, Proceed(w)
        PROVE  Undecided(v)' /\ Accounted(v)'
    BY <2>1, <2>3, OthersUntouched, ProceedAccounts
  <2>4. ASSUME NEW id \in WellFormed, NEW range \in Ranges, SaveThreshold(id, range)
        PROVE  Undecided(v)' /\ Accounted(v)'
    BY <2>1, <2>4 DEF SaveThreshold, Untouched
  <2>5. CASE UNCHANGED vars
    BY <2>1, <2>5 DEF vars, local, Untouched
  <2>6. QED
    BY <2>2, <2>3, <2>4, <2>5 DEF Next
<1>3. AccountsInv => BatchAccounting
  BY DEF AccountsInv, Accounted, BatchAccounting
<1>4. QED
  BY <1>1, <1>2, <1>3, TypeCorrect, PTL DEF Spec
-----------------------------------------------------------------------------
(* A reading's part of AnomaliesAreAlerted. *)
Alerted(r) ==
  stored[r]["anomaly"] = alerts[r] + Cardinality(Alerting(r)) + unacked[r]["anomaly"]

LEMMA AlertingIsFinite ==
  ASSUME NEW r
  PROVE  IsFiniteSet(Alerting(r)) /\ Cardinality(Alerting(r)) \in Nat
<1>1. Alerting(r) \subseteq Workers
  BY DEF Alerting
<1>2. QED
  BY <1>1, FS_Subset, FS_CardinalityType, ServiceAssumption

(* Who is about to alert changes only with a worker that saves an anomaly  *)
(* or that calls the alerter.                                              *)
LEMMA AlertingKept ==
  ASSUME NEW w \in Workers, NEW r, \A v \in Workers \ {w} : Untouched(v),
         pc[w] # "send_alert", pc'[w] # "send_alert"
  PROVE  Alerting(r)' = Alerting(r)
BY DEF Alerting, Current, Untouched

LEMMA AlertingJoined ==
  ASSUME NEW w \in Workers, NEW r, \A v \in Workers \ {w} : Untouched(v),
         pc[w] # "send_alert", pc'[w] = "send_alert", todo'[w] = todo[w]
  PROVE  Cardinality(Alerting(r)')
           = Cardinality(Alerting(r)) + (IF Current(w) = r THEN 1 ELSE 0)
<1>1. CASE Current(w) = r
  <2>1. Alerting(r)' = Alerting(r) \union {w} /\ w \notin Alerting(r)
    BY <1>1 DEF Alerting, Current, Untouched
  <2>2. QED
    BY <1>1, <2>1, AlertingIsFinite, FS_AddElement
<1>2. CASE Current(w) # r
  <2>1. Alerting(r)' = Alerting(r)
    BY <1>2 DEF Alerting, Current, Untouched
  <2>2. QED
    BY <1>2, <2>1, AlertingIsFinite
<1>3. QED
  BY <1>1, <1>2

LEMMA AlertingLeft ==
  ASSUME NEW w \in Workers, NEW r, \A v \in Workers \ {w} : Untouched(v),
         pc[w] = "send_alert", pc'[w] # "send_alert"
  PROVE  Cardinality(Alerting(r))
           = Cardinality(Alerting(r)') + (IF Current(w) = r THEN 1 ELSE 0)
<1>1. CASE Current(w) = r
  <2>1. Alerting(r)' = Alerting(r) \ {w} /\ w \in Alerting(r)
    BY <1>1 DEF Alerting, Current, Untouched
  <2>2. Cardinality(Alerting(r) \ {w}) = Cardinality(Alerting(r)) - 1
    BY <2>1, AlertingIsFinite, FS_RemoveElement
  <2>3. Cardinality(Alerting(r)) \in Nat
    BY AlertingIsFinite
  <2>4. QED
    BY <1>1, <2>1, <2>2, <2>3
<1>2. CASE Current(w) # r
  <2>1. Alerting(r)' = Alerting(r)
    BY <1>2 DEF Alerting, Current, Untouched
  <2>2. QED
    BY <1>2, <2>1, AlertingIsFinite
<1>3. QED
  BY <1>1, <1>2

LEMMA ProceedAlerts ==
  ASSUME TypeOK, NEW w \in Workers, NEW r \in Readings, Alerted(r), Proceed(w)
  PROVE  Alerted(r)'
<1>1. \A v \in Workers \ {w} : Untouched(v)
  BY OthersUntouched
<1>2. /\ stored[r]["anomaly"] \in Nat
      /\ alerts[r] \in Nat
      /\ unacked[r]["anomaly"] \in Nat
      /\ Cardinality(Alerting(r)) \in Nat
      /\ Cardinality(Alerting(r)') \in Nat
  <2>1. IsFiniteSet(Alerting(r)') /\ Cardinality(Alerting(r)') \in Nat
    <3>1. Alerting(r)' \subseteq Workers
      BY DEF Alerting
    <3>2. QED
      BY <3>1, FS_Subset, FS_CardinalityType, ServiceAssumption
  <2>2. QED
    BY <2>1, AlertingIsFinite DEF TypeOK, LedgerOK, Statuses
<1>3. ASSUME UNCHANGED <<stored, alerts, unacked>>,
             pc[w] # "send_alert", pc'[w] # "send_alert"
      PROVE  Alerted(r)'
  BY <1>1, <1>3, AlertingKept DEF Alerted
<1>4. CASE Accept(w)
  BY <1>3, <1>4 DEF Accept, Step, ledger, losses, TypeOK, WorkersOK
<1>5. CASE Refuse(w) \/ RefuseFails(w)
  BY <1>3, <1>5 DEF Refuse, RefuseFails, Raise, Finish, After, losses, TypeOK, WorkersOK
<1>6. CASE CheckThreshold(w)
  BY <1>3, <1>6 DEF CheckThreshold, Step, ledger, losses, TypeOK, WorkersOK
<1>7. CASE CheckStatistics(w)
  BY <1>3, <1>7 DEF CheckStatistics, Step, losses, TypeOK, WorkersOK
<1>8. CASE GetThresholdFails(w) \/ GetStatsFails(w) \/ SaveFails(w)
  BY <1>3, <1>8 DEF GetThresholdFails, GetStatsFails, SaveFails, PortRaises, Raise,
                    ledger, losses, TypeOK, WorkersOK
<1>9. CASE Count(w) \/ CountFails(w) \/ Observe(w) \/ ObserveFails(w)
  BY <1>3, <1>9 DEF Count, CountFails, Observe, ObserveFails, PortRaises, Raise, Step,
                    Finish, After, losses, TypeOK, WorkersOK
<1>10. CASE Save(w)
  <2>1. /\ pc[w] = "save" /\ todo' = todo
        /\ pc'[w] = IF isAnomaly[w] THEN "send_alert" ELSE "increment_counter"
        /\ UNCHANGED <<alerts, unacked>>
    BY <1>10 DEF Save, Step, losses, TypeOK, WorkersOK
  <2>2. stored'[r]["anomaly"] = stored[r]["anomaly"]
                                  + (IF isAnomaly[w] /\ Current(w) = r THEN 1 ELSE 0)
    BY <1>10 DEF Save, Store, Status, Statuses, TypeOK, LedgerOK
  <2>3. CASE isAnomaly[w]
    BY <1>1, <1>2, <2>1, <2>2, <2>3, AlertingJoined DEF Alerted
  <2>4. CASE ~isAnomaly[w]
    BY <1>1, <1>2, <2>1, <2>2, <2>4, AlertingKept DEF Alerted
  <2>5. QED
    BY <2>3, <2>4
<1>11. CASE CommitUnacknowledged(w)
  <2>1. /\ pc[w] = "save" /\ pc'[w] = "idle"
        /\ alerts' = alerts
    BY <1>11 DEF CommitUnacknowledged, Raise, TypeOK, WorkersOK
  <2>2. \E n \in {0, 1} : /\ stored'[r]["anomaly"] = stored[r]["anomaly"] + n
                          /\ unacked'[r]["anomaly"] = unacked[r]["anomaly"] + n
    BY <1>2, <1>11 DEF CommitUnacknowledged, Store, Status, Statuses, TypeOK, LedgerOK
  <2>3. QED
    BY <1>1, <1>2, <2>1, <2>2, AlertingKept DEF Alerted
<1>12. CASE SendAlert(w) \/ SendAlertFails(w)
  <2>1. /\ pc[w] = "send_alert" /\ pc'[w] # "send_alert"
        /\ UNCHANGED <<stored, unacked>>
    BY <1>12 DEF SendAlert, SendAlertFails, PortRaises, Raise, Step, losses,
                 TypeOK, WorkersOK
  <2>2. alerts'[r] = alerts[r] + (IF Current(w) = r THEN 1 ELSE 0)
    BY <1>2, <1>12 DEF SendAlert, SendAlertFails, TypeOK, LedgerOK
  <2>3. QED
    BY <1>1, <1>2, <2>1, <2>2, AlertingLeft DEF Alerted
<1>13. QED
  BY <1>4, <1>5, <1>6, <1>7, <1>8, <1>9, <1>10, <1>11, <1>12 DEF Proceed

(* Every stored anomaly is alerted, is about to be, or comes from a store  *)
(* that raised after it took effect; there is no alert without a store.    *)
THEOREM AnomaliesAlwaysAlerted == Spec => []AnomaliesAreAlerted
<1>1. Init => AnomaliesAreAlerted
  <2>1. ASSUME Init, NEW r \in Readings PROVE Alerted(r)
    <3>1. Alerting(r) = {}
      BY <2>1 DEF Init, Alerting
    <3>2. QED
      BY <2>1, <3>1, FS_EmptySet DEF Init, Alerted, Statuses
  <2>2. QED
    BY <2>1 DEF AnomaliesAreAlerted, Alerted
<1>2. TypeOK /\ AnomaliesAreAlerted /\ [Next]_vars => AnomaliesAreAlerted'
  <2> SUFFICES ASSUME TypeOK, AnomaliesAreAlerted, [Next]_vars, NEW r \in Readings
               PROVE  Alerted(r)'
    BY DEF AnomaliesAreAlerted, Alerted
  <2>1. Alerted(r)
    BY DEF AnomaliesAreAlerted, Alerted
  <2>2. ASSUME NEW w \in Workers, Proceed(w) PROVE Alerted(r)'
    BY <2>1, <2>2, ProceedAlerts
  <2>3. ASSUME NEW w \in Workers, ProcessReading(w) \/ ProcessBatch(w)
        PROVE  Alerted(r)'
    <3>1. PICK rs \in Seq(Readings), batch \in BOOLEAN : Begin(w, rs, batch)
      BY <2>3, BegunSequences
    <3>2. /\ pc[w] # "send_alert" /\ pc'[w] # "send_alert"
          /\ UNCHANGED <<stored, alerts, unacked>>
      BY <3>1 DEF Begin, Step, After, ledger, losses, TypeOK, WorkersOK
    <3>3. \A v \in Workers \ {w} : Untouched(v)
      BY <2>3, OthersUntouched
    <3>4. QED
      BY <2>1, <3>2, <3>3, AlertingKept DEF Alerted
  <2>4. ASSUME NEW id \in WellFormed, NEW range \in Ranges, SaveThreshold(id, range)
        PROVE  Alerted(r)'
    BY <2>1, <2>4 DEF SaveThreshold, ledger, losses, Alerted, Alerting, Current
  <2>5. CASE UNCHANGED vars
    BY <2>1, <2>5 DEF vars, local, ledger, losses, Alerted, Alerting, Current
  <2>6. QED
    BY <2>2, <2>3, <2>4, <2>5 DEF Next
<1>3. QED
  BY <1>1, <1>2, TypeCorrect, PTL DEF Spec
-----------------------------------------------------------------------------
(* A sensor's part of MetricsAgreeWithStore.  It needs that a worker alerts *)
(* only what it holds to be an anomaly.                                     *)
Agrees(id, s) ==
  Total(StoredAs(s), ReadingsOf(id))
    = processed[id][s] + Cardinality(PastSave(id, s)) + Total(CutShort(s), ReadingsOf(id))

AlertsAnomalies == \A w \in Workers : pc[w] = "send_alert" => isAnomaly[w]

AgreementInv == AlertsAnomalies /\ MetricsAgreeWithStore

Holding(w, id, s) ==
  pc[w] \in {"send_alert", "increment_counter"} /\ Sensor(w) = id /\ Status(w) = s

LEMMA ReadingsAreFinite == \A id : IsFiniteSet(ReadingsOf(id))
<1> SUFFICES ASSUME NEW id PROVE IsFiniteSet(ReadingsOf(id))
  OBVIOUS
<1>1. ReadingsOf(id) \subseteq Readings
  BY DEF ReadingsOf
<1>2. QED
  BY <1>1, FS_Subset, ServiceAssumption

(* One more for a reading is one more for its sensor. *)
LEMMA TotalOfSensor ==
  ASSUME NEW of \in [Readings -> Nat], NEW of2 \in [Readings -> Nat],
         NEW r \in Readings, NEW id,
         of2[r] = of[r] + 1, \A k \in Readings \ {r} : of2[k] = of[k]
  PROVE  Total(of2, ReadingsOf(id))
           = Total(of, ReadingsOf(id)) + (IF SensorOf[r] = id THEN 1 ELSE 0)
<1>1. /\ IsFiniteSet(ReadingsOf(id))
      /\ ReadingsOf(id) \in SUBSET Readings
      /\ \A k \in ReadingsOf(id) : of[k] \in Nat
  BY ReadingsAreFinite DEF ReadingsOf
<1>2. CASE SensorOf[r] = id
  <2>1. /\ r \in ReadingsOf(id)
        /\ of2[r] = of[r] + 1
        /\ \A k \in ReadingsOf(id) \ {r} : of2[k] = of[k]
    BY <1>2 DEF ReadingsOf
  <2>2. Total(of2, ReadingsOf(id)) = Total(of, ReadingsOf(id)) + 1
    BY <1>1, <2>1, TotalOfOneMore
  <2>3. QED
    BY <1>2, <2>2
<1>3. CASE SensorOf[r] # id
  <2>1. \A k \in ReadingsOf(id) : of2[k] = of[k]
    BY <1>3 DEF ReadingsOf
  <2>2. Total(of2, ReadingsOf(id)) = Total(of, ReadingsOf(id))
    BY <2>1, TotalOfTheSame
  <2>3. Total(of, ReadingsOf(id)) \in Nat
    BY <1>1, TotalType
  <2>4. QED
    BY <1>3, <2>2, <2>3
<1>4. QED
  BY <1>2, <1>3

LEMMA LedgerNumbers ==
  ASSUME TypeOK, NEW id \in Ids, NEW s \in Statuses
  PROVE  /\ StoredAs(s) \in [Readings -> Nat]
         /\ CutShort(s) \in [Readings -> Nat]
         /\ Total(StoredAs(s), ReadingsOf(id)) \in Nat
         /\ Total(CutShort(s), ReadingsOf(id)) \in Nat
         /\ processed[id][s] \in Nat
         /\ IsFiniteSet(PastSave(id, s))
         /\ Cardinality(PastSave(id, s)) \in Nat
<1>1. /\ StoredAs(s) \in [Readings -> Nat]
      /\ CutShort(s) \in [Readings -> Nat]
      /\ processed[id][s] \in Nat
  BY DEF TypeOK, LedgerOK, StoredAs, CutShort
<1>2. /\ IsFiniteSet(ReadingsOf(id))
      /\ ReadingsOf(id) \subseteq Readings
  BY ReadingsAreFinite DEF ReadingsOf
<1>3. /\ Total(StoredAs(s), ReadingsOf(id)) \in Nat
      /\ Total(CutShort(s), ReadingsOf(id)) \in Nat
  BY <1>1, <1>2, TotalType
<1>4. PastSave(id, s) \subseteq Workers
  BY DEF PastSave
<1>5. IsFiniteSet(PastSave(id, s)) /\ Cardinality(PastSave(id, s)) \in Nat
  BY <1>4, FS_Subset, FS_CardinalityType, ServiceAssumption
<1>6. QED
  BY <1>1, <1>3, <1>5

(* A step of one worker leaves the others' verdicts alone. *)
LEMMA OthersUnjudged ==
  ASSUME TypeOK, NEW w \in Workers, NEW v \in Workers, v # w,
         ProcessReading(w) \/ ProcessBatch(w) \/ Proceed(w)
  PROVE  isAnomaly'[v] = isAnomaly[v] /\ inForce'[v] = inForce[v]
<1> DEFINE unjudged == isAnomaly'[v] = isAnomaly[v] /\ inForce'[v] = inForce[v]
<1> USE DEF TypeOK, WorkersOK
<1>1. ASSUME NEW rs, NEW batch, Begin(w, rs, batch) PROVE unjudged
  BY <1>1 DEF Begin, TakeUp
<1>2. ASSUME Raise(w) PROVE unjudged
  BY <1>2 DEF Raise
<1>3. ASSUME NEW kind, Finish(w, kind) PROVE unjudged
  BY <1>3 DEF Finish, TakeUp
<1>4. CASE ProcessReading(w) \/ ProcessBatch(w)
  BY <1>1, <1>4 DEF ProcessReading, ProcessBatch
<1>5. CASE CheckThreshold(w) \/ CheckStatistics(w)
  BY <1>5 DEF CheckThreshold, CheckStatistics
<1>6. CASE Accept(w) \/ Save(w) \/ SendAlert(w) \/ Count(w)
  BY <1>6 DEF Accept, Save, SendAlert, Count
<1>7. CASE \/ Refuse(w) \/ RefuseFails(w) \/ GetThresholdFails(w) \/ GetStatsFails(w)
           \/ SaveFails(w) \/ CommitUnacknowledged(w) \/ SendAlertFails(w)
           \/ CountFails(w) \/ Observe(w) \/ ObserveFails(w)
  BY <1>2, <1>3, <1>7
     DEF Refuse, RefuseFails, GetThresholdFails, GetStatsFails, SaveFails,
         CommitUnacknowledged, SendAlertFails, CountFails, Observe, ObserveFails,
         PortRaises
<1>8. QED
  BY <1>4, <1>5, <1>6, <1>7 DEF Proceed

LEMMA PastSaveChanges ==
  ASSUME TypeOK, NEW w \in Workers, NEW id \in Ids, NEW s \in Statuses,
         ProcessReading(w) \/ ProcessBatch(w) \/ Proceed(w)
  PROVE  /\ (Holding(w, id, s)' <=> Holding(w, id, s))
              => Cardinality(PastSave(id, s)') = Cardinality(PastSave(id, s))
         /\ Holding(w, id, s)' /\ ~Holding(w, id, s)
              => Cardinality(PastSave(id, s)') = Cardinality(PastSave(id, s)) + 1
         /\ ~Holding(w, id, s)' /\ Holding(w, id, s)
              => Cardinality(PastSave(id, s)') = Cardinality(PastSave(id, s)) - 1
<1>1. ASSUME NEW v \in Workers, v # w
      PROVE  v \in PastSave(id, s)' <=> v \in PastSave(id, s)
  <2>1. /\ UNCHANGED <<pc[v], todo[v]>>
        /\ isAnomaly'[v] = isAnomaly[v]
    BY <1>1, OthersUntouched, OthersUnjudged DEF Untouched
  <2>2. QED
    BY <2>1 DEF PastSave, Sensor, Current, Status
<1>2. /\ w \in PastSave(id, s)' <=> Holding(w, id, s)'
      /\ w \in PastSave(id, s) <=> Holding(w, id, s)
      /\ PastSave(id, s) \subseteq Workers
      /\ PastSave(id, s)' \subseteq Workers
  BY DEF PastSave, Holding
<1>3. CASE Holding(w, id, s)' <=> Holding(w, id, s)
  <2>1. PastSave(id, s)' = PastSave(id, s)
    BY <1>1, <1>2, <1>3
  <2>2. QED
    BY <1>3, <2>1
<1>4. CASE Holding(w, id, s)' /\ ~Holding(w, id, s)
  <2>1. PastSave(id, s)' = PastSave(id, s) \union {w} /\ w \notin PastSave(id, s)
    BY <1>1, <1>2, <1>4
  <2>2. QED
    BY <1>4, <2>1, LedgerNumbers, FS_AddElement
<1>5. CASE ~Holding(w, id, s)' /\ Holding(w, id, s)
  <2>1. PastSave(id, s)' = PastSave(id, s) \ {w} /\ w \in PastSave(id, s)
    BY <1>1, <1>2, <1>5
  <2>2. QED
    BY <1>5, <2>1, LedgerNumbers, FS_RemoveElement
<1>6. QED
  BY <1>3, <1>4, <1>5

(* A store, and what of it is cut short, count for the reading's sensor. *)
LEMMA StoreCounts ==
  ASSUME TypeOK, NEW w \in Workers, pc[w] # "idle", Store(w),
         NEW id \in Ids, NEW s \in Statuses
  PROVE  Total(StoredAs(s)', ReadingsOf(id))
           = Total(StoredAs(s), ReadingsOf(id))
               + (IF Sensor(w) = id /\ Status(w) = s THEN 1 ELSE 0)
<1>1. Current(w) \in Readings /\ StoredAs(s) \in [Readings -> Nat]
  BY CurrentReading, LedgerNumbers
<1>2. CASE Status(w) = s
  <2>1. /\ StoredAs(s)' \in [Readings -> Nat]
        /\ StoredAs(s)'[Current(w)] = StoredAs(s)[Current(w)] + 1
        /\ \A r \in Readings \ {Current(w)} : StoredAs(s)'[r] = StoredAs(s)[r]
    BY <1>1, <1>2 DEF StoredAs, Store, TypeOK, LedgerOK
  <2>2. Total(StoredAs(s)', ReadingsOf(id))
          = Total(StoredAs(s), ReadingsOf(id)) + (IF SensorOf[Current(w)] = id THEN 1 ELSE 0)
    BY <1>1, <2>1, TotalOfSensor
  <2>3. QED
    BY <1>2, <2>2 DEF Sensor
<1>3. CASE Status(w) # s
  <2>1. StoredAs(s)' = StoredAs(s)
    BY <1>1, <1>3 DEF StoredAs, Store, TypeOK, LedgerOK
  <2>2. QED
    BY <1>3, <2>1, LedgerNumbers
<1>4. QED
  BY <1>2, <1>3

LEMMA CutShortCounts ==
  ASSUME TypeOK, NEW w \in Workers, pc[w] # "idle", NEW id \in Ids, NEW s \in Statuses,
         CutShort(s)' \in [Readings -> Nat],
         \A r \in Readings :
           CutShort(s)'[r] = CutShort(s)[r]
                               + (IF r = Current(w) /\ Status(w) = s THEN 1 ELSE 0)
  PROVE  Total(CutShort(s)', ReadingsOf(id))
           = Total(CutShort(s), ReadingsOf(id))
               + (IF Sensor(w) = id /\ Status(w) = s THEN 1 ELSE 0)
<1>1. Current(w) \in Readings /\ CutShort(s) \in [Readings -> Nat]
  BY CurrentReading, LedgerNumbers
<1>2. CASE Status(w) = s
  <2>1. /\ CutShort(s)'[Current(w)] = CutShort(s)[Current(w)] + 1
        /\ \A r \in Readings \ {Current(w)} : CutShort(s)'[r] = CutShort(s)[r]
    BY <1>1, <1>2
  <2>2. Total(CutShort(s)', ReadingsOf(id))
          = Total(CutShort(s), ReadingsOf(id)) + (IF SensorOf[Current(w)] = id THEN 1 ELSE 0)
    BY <1>1, <2>1, TotalOfSensor
  <2>3. QED
    BY <1>2, <2>2 DEF Sensor
<1>3. CASE Status(w) # s
  <2>1. \A r \in ReadingsOf(id) : CutShort(s)'[r] = CutShort(s)[r]
    BY <1>1, <1>3 DEF ReadingsOf
  <2>2. Total(CutShort(s)', ReadingsOf(id)) = Total(CutShort(s), ReadingsOf(id))
    BY <2>1, TotalOfTheSame
  <2>3. QED
    BY <1>3, <2>2, LedgerNumbers
<1>4. QED
  BY <1>2, <1>3

LEMMA ProceedAgrees ==
  ASSUME TypeOK, NEW w \in Workers, AlertsAnomalies, Proceed(w),
         NEW id \in Ids, NEW s \in Statuses, Agrees(id, s)
  PROVE  Agrees(id, s)'
<1> DEFINE mine == Sensor(w) = id /\ Status(w) = s
<1>1. /\ StoredAs(s) \in [Readings -> Nat]
      /\ Total(StoredAs(s), ReadingsOf(id)) \in Nat
      /\ Total(CutShort(s), ReadingsOf(id)) \in Nat
      /\ processed[id][s] \in Nat
      /\ Cardinality(PastSave(id, s)) \in Nat
  BY LedgerNumbers
<1>2. ReadingsOf(id)' = ReadingsOf(id)
  BY DEF ReadingsOf
<1>3. CutShort(s)' \in [Readings -> Nat]
  BY ProceedType DEF CutShort, TypeOK, LedgerOK
<1>4. ASSUME UNCHANGED <<stored, processed, unacked, unsent, uncounted>>,
             Holding(w, id, s)' <=> Holding(w, id, s)
      PROVE  Agrees(id, s)'
  <2>1. StoredAs(s)' = StoredAs(s) /\ CutShort(s)' = CutShort(s)
    BY <1>4 DEF StoredAs, CutShort
  <2>2. QED
    BY <1>2, <1>4, <2>1, PastSaveChanges DEF Agrees
<1>5. CASE Accept(w) \/ CheckThreshold(w) \/ CheckStatistics(w)
  <2>1. ~Holding(w, id, s) /\ ~Holding(w, id, s)'
    BY <1>5 DEF Accept, CheckThreshold, CheckStatistics, Step, Holding, TypeOK, WorkersOK
  <2>2. QED
    BY <1>4, <1>5, <2>1 DEF Accept, CheckThreshold, CheckStatistics, ledger, losses
<1>6. CASE Refuse(w) \/ RefuseFails(w)
  <2>1. ~Holding(w, id, s) /\ ~Holding(w, id, s)'
    BY <1>6 DEF Refuse, RefuseFails, Raise, Finish, After, Holding, TypeOK, WorkersOK
  <2>2. QED
    BY <1>4, <1>6, <2>1 DEF Refuse, RefuseFails, losses
<1>7. CASE GetThresholdFails(w) \/ GetStatsFails(w) \/ SaveFails(w)
  <2>1. ~Holding(w, id, s) /\ ~Holding(w, id, s)'
    BY <1>7 DEF GetThresholdFails, GetStatsFails, SaveFails, PortRaises, Raise, Holding,
                TypeOK, WorkersOK
  <2>2. QED
    BY <1>4, <1>7, <2>1 DEF GetThresholdFails, GetStatsFails, SaveFails, ledger, losses
<1>8. CASE Save(w)
  <2>1. ~Holding(w, id, s) /\ (Holding(w, id, s)' <=> mine)
    BY <1>8 DEF Save, Step, Holding, Sensor, Current, Status, TypeOK, WorkersOK
  <2>2. Cardinality(PastSave(id, s)') = Cardinality(PastSave(id, s)) + (IF mine THEN 1 ELSE 0)
    BY <1>1, <2>1, PastSaveChanges
  <2>3. Total(StoredAs(s)', ReadingsOf(id))
          = Total(StoredAs(s), ReadingsOf(id)) + (IF mine THEN 1 ELSE 0)
    BY <1>8, StoreCounts DEF Save, Step
  <2>4. CutShort(s)' = CutShort(s) /\ processed' = processed
    BY <1>8 DEF Save, CutShort, losses
  <2>5. QED
    BY <1>1, <1>2, <2>2, <2>3, <2>4 DEF Agrees
<1>9. CASE CommitUnacknowledged(w)
  <2>1. ~Holding(w, id, s) /\ ~Holding(w, id, s)'
    BY <1>9 DEF CommitUnacknowledged, Raise, Holding, TypeOK, WorkersOK
  <2>2. Cardinality(PastSave(id, s)') = Cardinality(PastSave(id, s))
    BY <2>1, PastSaveChanges
  <2>3. Total(StoredAs(s)', ReadingsOf(id))
          = Total(StoredAs(s), ReadingsOf(id)) + (IF mine THEN 1 ELSE 0)
    BY <1>9, StoreCounts DEF CommitUnacknowledged
  <2>4. \A r \in Readings :
          CutShort(s)'[r] = CutShort(s)[r]
                              + (IF r = Current(w) /\ Status(w) = s THEN 1 ELSE 0)
    <3>1. Current(w) \in Readings
      BY <1>9, CurrentReading DEF CommitUnacknowledged
    <3>2. \A r \in Readings :
            unacked'[r][s] = unacked[r][s]
                               + (IF r = Current(w) /\ Status(w) = s THEN 1 ELSE 0)
      BY <1>9, <3>1 DEF CommitUnacknowledged, TypeOK, LedgerOK
    <3>3. unsent' = unsent /\ uncounted' = uncounted
      BY <1>9 DEF CommitUnacknowledged
    <3>4. ASSUME NEW r \in Readings
          PROVE  CutShort(s)'[r] = CutShort(s)[r]
                                     + (IF r = Current(w) /\ Status(w) = s THEN 1 ELSE 0)
      <4>1. unacked[r][s] \in Nat /\ uncounted[r][s] \in Nat /\ unsent[r] \in Nat
        BY DEF TypeOK, LedgerOK
      <4>2. QED
        BY <3>2, <3>3, <4>1 DEF CutShort
    <3>5. QED
      BY <3>4
  <2>5. Total(CutShort(s)', ReadingsOf(id))
          = Total(CutShort(s), ReadingsOf(id)) + (IF mine THEN 1 ELSE 0)
    BY <1>3, <1>9, <2>4, CutShortCounts DEF CommitUnacknowledged
  <2>6. processed' = processed
    BY <1>9 DEF CommitUnacknowledged
  <2>7. QED
    BY <1>1, <1>2, <2>2, <2>3, <2>5, <2>6 DEF Agrees
<1>10. CASE SendAlert(w)
  <2>1. Holding(w, id, s)' <=> Holding(w, id, s)
    BY <1>10 DEF SendAlert, Step, Holding, Sensor, Current, Status, TypeOK, WorkersOK
  <2>2. QED
    BY <1>4, <1>10, <2>1 DEF SendAlert, losses
<1>11. CASE SendAlertFails(w)
  <2>1. Status(w) = "anomaly"
    BY <1>11 DEF SendAlertFails, PortRaises, AlertsAnomalies, Status
  <2>2. (Holding(w, id, s) <=> mine) /\ ~Holding(w, id, s)'
    BY <1>11 DEF SendAlertFails, PortRaises, Raise, Holding, TypeOK, WorkersOK
  <2>3. Cardinality(PastSave(id, s)') = Cardinality(PastSave(id, s)) - (IF mine THEN 1 ELSE 0)
    BY <1>1, <2>2, PastSaveChanges
  <2>4. \A r \in Readings :
          CutShort(s)'[r] = CutShort(s)[r]
                              + (IF r = Current(w) /\ Status(w) = s THEN 1 ELSE 0)
    <3>1. Current(w) \in Readings
      BY <1>11, CurrentReading DEF SendAlertFails, PortRaises
    <3>2. \A r \in Readings :
            unsent'[r] = unsent[r] + (IF r = Current(w) THEN 1 ELSE 0)
      BY <1>11, <3>1 DEF SendAlertFails, TypeOK, LedgerOK
    <3>3. unacked' = unacked /\ uncounted' = uncounted
      BY <1>11 DEF SendAlertFails
    <3>4. ASSUME NEW r \in Readings
          PROVE  CutShort(s)'[r] = CutShort(s)[r]
                                     + (IF r = Current(w) /\ Status(w) = s THEN 1 ELSE 0)
      <4>1. unacked[r][s] \in Nat /\ uncounted[r][s] \in Nat /\ unsent[r] \in Nat
        BY DEF TypeOK, LedgerOK
      <4>2. QED
        BY <2>1, <3>2, <3>3, <4>1 DEF CutShort
    <3>5. QED
      BY <3>4
  <2>5. Total(CutShort(s)', ReadingsOf(id))
          = Total(CutShort(s), ReadingsOf(id)) + (IF mine THEN 1 ELSE 0)
    BY <1>3, <1>11, <2>4, CutShortCounts DEF SendAlertFails, PortRaises
  <2>6. StoredAs(s)' = StoredAs(s) /\ processed' = processed
    BY <1>11 DEF SendAlertFails, StoredAs
  <2>7. QED
    BY <1>1, <1>2, <2>3, <2>5, <2>6 DEF Agrees
<1>12. CASE Count(w)
  <2>1. (Holding(w, id, s) <=> mine) /\ ~Holding(w, id, s)'
    BY <1>12 DEF Count, Step, Holding, TypeOK, WorkersOK
  <2>2. Cardinality(PastSave(id, s)') = Cardinality(PastSave(id, s)) - (IF mine THEN 1 ELSE 0)
    BY <1>1, <2>1, PastSaveChanges
  <2>3. processed'[id][s] = processed[id][s] + (IF mine THEN 1 ELSE 0)
    BY <1>12 DEF Count, TypeOK, LedgerOK
  <2>4. StoredAs(s)' = StoredAs(s) /\ CutShort(s)' = CutShort(s)
    BY <1>12 DEF Count, StoredAs, CutShort, losses
  <2>5. QED
    BY <1>1, <1>2, <2>2, <2>3, <2>4 DEF Agrees
<1>13. CASE CountFails(w)
  <2>1. (Holding(w, id, s) <=> mine) /\ ~Holding(w, id, s)'
    BY <1>13 DEF CountFails, PortRaises, Raise, Holding, TypeOK, WorkersOK
  <2>2. Cardinality(PastSave(id, s)') = Cardinality(PastSave(id, s)) - (IF mine THEN 1 ELSE 0)
    BY <1>1, <2>1, PastSaveChanges
  <2>3. StoredAs(s)' = StoredAs(s) /\ UNCHANGED <<unacked, unsent>>
    BY <1>13 DEF CountFails, StoredAs
  <2>4. PICK counted \in {0, 1} :
          /\ processed' = [processed EXCEPT ![Sensor(w)][Status(w)] = @ + counted]
          /\ uncounted' = [uncounted EXCEPT ![Current(w)][Status(w)] = @ + 1 - counted]
    BY <1>13 DEF CountFails
  <2>5. CASE counted = 1
    <3>1. processed'[id][s] = processed[id][s] + (IF mine THEN 1 ELSE 0)
      BY <2>4, <2>5 DEF TypeOK, LedgerOK
    <3>2. uncounted' = uncounted
      BY <2>4, <2>5 DEF TypeOK, LedgerOK
    <3>3. CutShort(s)' = CutShort(s)
      BY <2>3, <3>2 DEF CutShort
    <3>4. QED
      BY <1>1, <1>2, <2>2, <2>3, <3>1, <3>3 DEF Agrees
  <2>6. CASE counted = 0
    <3>1. processed' = processed
      BY <2>4, <2>6 DEF TypeOK, LedgerOK
    <3>2. Current(w) \in Readings
      BY <1>13, CurrentReading DEF CountFails, PortRaises
    <3>3. \A r \in Readings :
            uncounted'[r][s] = uncounted[r][s]
                                 + (IF r = Current(w) /\ Status(w) = s THEN 1 ELSE 0)
      BY <2>4, <2>6, <3>2 DEF TypeOK, LedgerOK
    <3>4. ASSUME NEW r \in Readings
          PROVE  CutShort(s)'[r] = CutShort(s)[r]
                                     + (IF r = Current(w) /\ Status(w) = s THEN 1 ELSE 0)
      <4>1. unacked[r][s] \in Nat /\ uncounted[r][s] \in Nat /\ unsent[r] \in Nat
        BY DEF TypeOK, LedgerOK
      <4>2. QED
        BY <2>3, <3>3, <4>1 DEF CutShort
    <3>5. Total(CutShort(s)', ReadingsOf(id))
            = Total(CutShort(s), ReadingsOf(id)) + (IF mine THEN 1 ELSE 0)
      BY <1>3, <1>13, <3>4, CutShortCounts DEF CountFails, PortRaises
    <3>6. QED
      BY <1>1, <1>2, <2>2, <2>3, <3>1, <3>5 DEF Agrees
  <2>7. QED
    BY <2>5, <2>6
<1>14. CASE Observe(w) \/ ObserveFails(w)
  <2>1. ~Holding(w, id, s) /\ ~Holding(w, id, s)'
    BY <1>14 DEF Observe, ObserveFails, PortRaises, Raise, Finish, After, Holding,
                 TypeOK, WorkersOK
  <2>2. QED
    BY <1>4, <1>14, <2>1 DEF Observe, ObserveFails, losses
<1>15. QED
  BY <1>5, <1>6, <1>7, <1>8, <1>9, <1>10, <1>11, <1>12, <1>13, <1>14 DEF Proceed

LEMMA AlertsOnlyAnomalies ==
  ASSUME TypeOK, AlertsAnomalies, [Next]_vars
  PROVE  AlertsAnomalies'
<1> SUFFICES ASSUME NEW v \in Workers, pc'[v] = "send_alert" PROVE isAnomaly'[v]
  BY DEF AlertsAnomalies
<1> USE DEF AlertsAnomalies
<1>1. ASSUME NEW w \in Workers, ProcessReading(w) \/ ProcessBatch(w) PROVE isAnomaly'[v]
  <2>1. CASE v = w
    BY <1>1, <2>1, BegunSequences DEF Begin, Step, After, TypeOK, WorkersOK
  <2>2. CASE v # w
    BY <1>1, <2>2, OthersUntouched, OthersUnjudged DEF Untouched
  <2>3. QED
    BY <2>1, <2>2
<1>2. ASSUME NEW w \in Workers, Proceed(w) PROVE isAnomaly'[v]
  <2>1. CASE v = w
    BY <1>2, <2>1
       DEF Proceed, Accept, Refuse, RefuseFails, CheckThreshold, GetThresholdFails, CheckStatistics,
           GetStatsFails, Save, SaveFails, CommitUnacknowledged, SendAlert,
           SendAlertFails, Count, CountFails, Observe, ObserveFails, PortRaises, Step, Raise, Finish, After, TypeOK, WorkersOK
  <2>2. CASE v # w
    BY <1>2, <2>2, OthersUntouched, OthersUnjudged DEF Untouched
  <2>3. QED
    BY <2>1, <2>2
<1>3. ASSUME NEW id \in WellFormed, NEW range \in Ranges, SaveThreshold(id, range)
      PROVE  isAnomaly'[v]
  BY <1>3 DEF SaveThreshold
<1>4. CASE UNCHANGED vars
  BY <1>4 DEF vars, local
<1>5. QED
  BY <1>1, <1>2, <1>3, <1>4 DEF Next

(* The metrics agree with the store for every number of workers and        *)
(* readings: what is stored for a sensor with a status is counted, held by *)
(* a worker that is about to count it, or was cut short by a commit, an     *)
(* alerter or a counter that raised.                                       *)
THEOREM MetricsAlwaysAgree == Spec => []MetricsAgreeWithStore
<1>1. Init => AgreementInv
  <2> SUFFICES ASSUME Init, NEW id \in Ids, NEW s \in Statuses PROVE Agrees(id, s)
    BY DEF Init, AgreementInv, AlertsAnomalies, MetricsAgreeWithStore, Agrees
  <2>1. \A r \in Readings : StoredAs(s)[r] = 0 /\ CutShort(s)[r] = 0
    BY DEF Init, StoredAs, CutShort
  <2>2. /\ Total(StoredAs(s), ReadingsOf(id)) = 0
        /\ Total(CutShort(s), ReadingsOf(id)) = 0
    BY <2>1, TotalOfNothing DEF ReadingsOf
  <2>3. PastSave(id, s) = {}
    BY DEF Init, PastSave
  <2>4. Cardinality(PastSave(id, s)) = 0 /\ processed[id][s] = 0
    BY <2>3, FS_EmptySet DEF Init
  <2>5. QED
    BY <2>2, <2>4 DEF Agrees
<1>2. TypeOK /\ AgreementInv /\ [Next]_vars => AgreementInv'
  <2> SUFFICES ASSUME TypeOK, AgreementInv, [Next]_vars,
                      NEW id \in Ids, NEW s \in Statuses
               PROVE  Agrees(id, s)'
    BY AlertsOnlyAnomalies DEF AgreementInv, MetricsAgreeWithStore, Agrees
  <2>1. Agrees(id, s) /\ AlertsAnomalies
    BY DEF AgreementInv, MetricsAgreeWithStore, Agrees
  <2>2. ASSUME NEW w \in Workers, Proceed(w) PROVE Agrees(id, s)'
    BY <2>1, <2>2, ProceedAgrees
  <2>3. ASSUME UNCHANGED <<stored, processed, unacked, unsent, uncounted>>,
               Cardinality(PastSave(id, s)') = Cardinality(PastSave(id, s))
        PROVE  Agrees(id, s)'
    BY <2>1, <2>3 DEF Agrees, StoredAs, CutShort, ReadingsOf
  <2>4. ASSUME NEW w \in Workers, ProcessReading(w) \/ ProcessBatch(w)
        PROVE  Agrees(id, s)'
    <3>1. PICK rs \in Seq(Readings), batch \in BOOLEAN : Begin(w, rs, batch)
      BY <2>4, BegunSequences
    <3>2. /\ ~Holding(w, id, s) /\ ~Holding(w, id, s)'
          /\ UNCHANGED <<stored, processed, unacked, unsent, uncounted>>
      BY <3>1 DEF Begin, Step, After, Holding, ledger, losses, TypeOK, WorkersOK
    <3>3. QED
      BY <2>3, <2>4, <3>2, PastSaveChanges
  <2>5. ASSUME NEW i \in WellFormed, NEW range \in Ranges, SaveThreshold(i, range)
        PROVE  Agrees(id, s)'
    BY <2>3, <2>5 DEF SaveThreshold, ledger, losses, PastSave, Sensor, Current, Status
  <2>6. CASE UNCHANGED vars
    BY <2>3, <2>6 DEF vars, local, ledger, losses, PastSave, Sensor, Current, Status
  <2>7. QED
    BY <2>2, <2>4, <2>5, <2>6 DEF Next
<1>3. AgreementInv => MetricsAgreeWithStore
  BY DEF AgreementInv
<1>4. QED
  BY <1>1, <1>2, <1>3, TypeCorrect, PTL DEF Spec
-----------------------------------------------------------------------------
(* A sensor's part of HistogramFollowsCounter. *)
Follows(id) ==
  processed[id]["valid"] + processed[id]["anomaly"]
    = observed[id] + Cardinality(Observing(id)) + unobserved[id]

LEMMA MetricNumbers ==
  ASSUME TypeOK, NEW id \in Ids
  PROVE  /\ processed[id]["valid"] \in Nat
         /\ processed[id]["anomaly"] \in Nat
         /\ observed[id] \in Nat
         /\ unobserved[id] \in Nat
         /\ IsFiniteSet(Observing(id))
<1>1. Observing(id) \subseteq Workers
  BY DEF Observing
<1>2. IsFiniteSet(Observing(id))
  BY <1>1, FS_Subset, ServiceAssumption
<1>3. QED
  BY <1>2 DEF TypeOK, LedgerOK, Statuses

LEMMA ObservingChanges ==
  ASSUME TypeOK, NEW w \in Workers, NEW id \in Ids,
         ProcessReading(w) \/ ProcessBatch(w) \/ Proceed(w)
  PROVE  /\ Cardinality(Observing(id)) \in Nat
         /\ Cardinality(Observing(id)') \in Nat
         /\ Cardinality(Observing(id)') + (IF w \in Observing(id) THEN 1 ELSE 0)
              = Cardinality(Observing(id)) + (IF w \in Observing(id)' THEN 1 ELSE 0)
<1>1. \A v : v # w => (v \in Observing(id)' <=> v \in Observing(id))
  BY OthersUntouched DEF Observing, Sensor, Current, Untouched
<1>2. QED
  BY <1>1, MetricNumbers, SizeOfChanged

(* Counting a reading of the sensor adds its worker to those observing;    *)
(* the observation, or an exception, moves the unit on.                    *)
LEMMA ProceedFollows ==
  ASSUME TypeOK, NEW w \in Workers, NEW id \in Ids, Follows(id), Proceed(w)
  PROVE  Follows(id)'
<1> DEFINE mine == IF Sensor(w) = id THEN 1 ELSE 0
<1>1. /\ processed[id]["valid"] \in Nat
      /\ processed[id]["anomaly"] \in Nat
      /\ observed[id] \in Nat
      /\ unobserved[id] \in Nat
      /\ Cardinality(Observing(id)) \in Nat
      /\ Cardinality(Observing(id)') \in Nat
  BY MetricNumbers, ObservingChanges
<1>2. ASSUME UNCHANGED <<processed, observed, unobserved>>,
             w \notin Observing(id), w \notin Observing(id)'
      PROVE  Follows(id)'
  BY <1>1, <1>2, ObservingChanges DEF Follows
<1>3. ASSUME NEW counted \in {0, 1},
             processed' = [processed EXCEPT ![Sensor(w)][Status(w)] = @ + counted]
      PROVE  processed'[id]["valid"] + processed'[id]["anomaly"]
               = processed[id]["valid"] + processed[id]["anomaly"]
                   + (IF Sensor(w) = id THEN counted ELSE 0)
  BY <1>1, <1>3 DEF Status, Statuses, TypeOK, LedgerOK
<1>4. CASE Accept(w) \/ CheckThreshold(w) \/ CheckStatistics(w) \/ Save(w) \/ SendAlert(w)
  BY <1>2, <1>4
     DEF Accept, CheckThreshold, CheckStatistics, Save, SendAlert, Step, Observing,
         ledger, losses, TypeOK, WorkersOK
<1>5. CASE \/ Refuse(w) \/ RefuseFails(w) \/ GetThresholdFails(w) \/ GetStatsFails(w)
           \/ SaveFails(w) \/ CommitUnacknowledged(w) \/ SendAlertFails(w)
  BY <1>2, <1>5
     DEF Refuse, RefuseFails, GetThresholdFails, GetStatsFails, SaveFails,
         CommitUnacknowledged, SendAlertFails, PortRaises, Raise, Finish, After,
         Observing, ledger, losses, TypeOK, WorkersOK
<1>6. CASE Count(w)
  <2>1. /\ w \notin Observing(id)
        /\ w \in Observing(id)' <=> Sensor(w) = id
        /\ UNCHANGED <<observed, unobserved>>
    BY <1>6 DEF Count, Step, Observing, Sensor, Current, losses, TypeOK, WorkersOK
  <2>2. processed'[id]["valid"] + processed'[id]["anomaly"]
          = processed[id]["valid"] + processed[id]["anomaly"] + mine
    BY <1>3, <1>6 DEF Count
  <2>3. Cardinality(Observing(id)') = Cardinality(Observing(id)) + mine
    BY <1>1, <1>6, <2>1, ObservingChanges
  <2>4. QED
    BY <1>1, <2>1, <2>2, <2>3 DEF Follows
<1>7. CASE CountFails(w)
  <2>1. /\ w \notin Observing(id) /\ w \notin Observing(id)'
        /\ UNCHANGED observed
    BY <1>7 DEF CountFails, PortRaises, Raise, Observing, TypeOK, WorkersOK
  <2>2. PICK counted \in {0, 1} :
          /\ processed' = [processed EXCEPT ![Sensor(w)][Status(w)] = @ + counted]
          /\ unobserved' = [unobserved EXCEPT ![Sensor(w)] = @ + counted]
    BY <1>7 DEF CountFails
  <2>3. unobserved'[id] = unobserved[id] + (IF Sensor(w) = id THEN counted ELSE 0)
    BY <1>1, <2>2 DEF TypeOK, LedgerOK
  <2>4. processed'[id]["valid"] + processed'[id]["anomaly"]
          = processed[id]["valid"] + processed[id]["anomaly"]
              + (IF Sensor(w) = id THEN counted ELSE 0)
    BY <1>3, <2>2
  <2>5. Cardinality(Observing(id)') = Cardinality(Observing(id))
    BY <1>1, <1>7, <2>1, ObservingChanges
  <2>6. QED
    BY <1>1, <2>1, <2>3, <2>4, <2>5 DEF Follows
<1>8. CASE Observe(w) \/ ObserveFails(w)
  <2>1. /\ w \in Observing(id) <=> Sensor(w) = id
        /\ w \notin Observing(id)'
        /\ UNCHANGED processed
    BY <1>8 DEF Observe, ObserveFails, PortRaises, Raise, Finish, After, Observing,
                TypeOK, WorkersOK
  <2>2. observed'[id] + unobserved'[id] = observed[id] + unobserved[id] + mine
    <3>1. CASE Observe(w)
      BY <1>1, <3>1 DEF Observe, losses, TypeOK, LedgerOK
    <3>2. CASE ObserveFails(w)
      BY <1>1, <3>2 DEF ObserveFails, TypeOK, LedgerOK
    <3>3. QED
      BY <1>8, <3>1, <3>2
  <2>3. Cardinality(Observing(id)) = Cardinality(Observing(id)') + mine
    BY <1>1, <1>8, <2>1, ObservingChanges
  <2>4. observed'[id] \in Nat /\ unobserved'[id] \in Nat
    BY ProceedType DEF TypeOK, LedgerOK
  <2>5. QED
    BY <1>1, <2>1, <2>2, <2>3, <2>4 DEF Follows
<1>9. QED
  BY <1>4, <1>5, <1>6, <1>7, <1>8 DEF Proceed

(* A reading counted is observed, held by a worker between the two calls,  *)
(* or was cut short by an exception of one of them, for every number of    *)
(* workers and whatever raises.                                            *)
THEOREM HistogramAlwaysFollows == Spec => []HistogramFollowsCounter
<1>1. Init => HistogramFollowsCounter
  <2> SUFFICES ASSUME Init, NEW id \in Ids PROVE Follows(id)
    BY DEF HistogramFollowsCounter, Follows
  <2>1. Observing(id) = {}
    BY DEF Init, Observing
  <2>2. QED
    BY <2>1, FS_EmptySet DEF Init, Follows, Statuses
<1>2. TypeOK /\ HistogramFollowsCounter /\ [Next]_vars => HistogramFollowsCounter'
  <2> SUFFICES ASSUME TypeOK, HistogramFollowsCounter, [Next]_vars, NEW id \in Ids
               PROVE  Follows(id)'
    BY DEF HistogramFollowsCounter, Follows
  <2>1. Follows(id)
    BY DEF HistogramFollowsCounter, Follows
  <2>2. ASSUME NEW w \in Workers, Proceed(w) PROVE Follows(id)'
    BY <2>1, <2>2, ProceedFollows
  <2>3. ASSUME NEW w \in Workers, ProcessReading(w) \/ ProcessBatch(w)
        PROVE  Follows(id)'
    <3>1. PICK rs \in Seq(Readings), batch \in BOOLEAN : Begin(w, rs, batch)
      BY <2>3, BegunSequences
    <3>2. /\ w \notin Observing(id) /\ w \notin Observing(id)'
          /\ UNCHANGED <<processed, observed, unobserved>>
      BY <3>1 DEF Begin, Step, After, Observing, ledger, losses, TypeOK, WorkersOK
    <3>3. Cardinality(Observing(id)') = Cardinality(Observing(id))
      BY <2>3, <3>2, ObservingChanges
    <3>4. QED
      BY <2>1, <3>2, <3>3 DEF Follows
  <2>4. ASSUME NEW i \in WellFormed, NEW range \in Ranges, SaveThreshold(i, range)
        PROVE  Follows(id)'
    BY <2>1, <2>4 DEF SaveThreshold, ledger, losses, Follows, Observing, Sensor, Current
  <2>5. CASE UNCHANGED vars
    BY <2>1, <2>5 DEF vars, local, ledger, losses, Follows, Observing, Sensor, Current
  <2>6. QED
    BY <2>2, <2>3, <2>4, <2>5 DEF Next
<1>3. QED
  BY <1>1, <1>2, TypeCorrect, PTL DEF Spec
-----------------------------------------------------------------------------
(* The callers write the ids of their valid readings as the service        *)
(* compares them.  Without it VerdictExplained is false: the threshold is  *)
(* looked up by the id as written.                                         *)
CanonicalIds == \A r \in Readings : IsValid(r) => Canonical[SensorOf[r]] = SensorOf[r]

(* What explains the verdict on a worker's current reading: the            *)
(* configuration in force is among those seen, a reading past its          *)
(* validation is valid, and the verdict follows from one or the other.     *)
Watched(w)   == pc[w] # "idle" => thresholds[Canonical[Sensor(w)]] \in inForce[w]
Validated(w) == pc[w] \in PortCalls => IsValid(Current(w))
Judged(w)    == pc[w] \in PortCalls \ {"get_threshold"}
Outside(w)   == \E c \in inForce[w] : ~Within(ValueOf[Current(w)], c)
Inside(w)    == \E c \in inForce[w] : Within(ValueOf[Current(w)], c)

Explained(w) ==
  Judged(w) =>
    IF isAnomaly[w] /\ pc[w] # "get_stats"
      THEN \/ Outside(w)
           \/ Samples(Sensor(w)) > MinSamples /\ Varies(Sensor(w))
      ELSE Inside(w)

VerdictInv == \A w \in Workers : Watched(w) /\ Validated(w) /\ Explained(w)

LEMMA VerdictsByWorker ==
  ASSUME \A w \in Workers : Explained(w)
  PROVE  VerdictExplained
BY DEF VerdictExplained, Explained, Judged, Outside, Inside

(* What is stored stays: the history of a sensor only grows. *)
LEMMA StoredGrows ==
  ASSUME TypeOK, [Next]_vars
  PROVE  \A r \in Readings, s \in Statuses : stored[r][s] <= stored'[r][s]
<1>1. ASSUME UNCHANGED stored
      PROVE  \A r \in Readings, s \in Statuses : stored[r][s] <= stored'[r][s]
  BY <1>1 DEF TypeOK, LedgerOK
<1>2. ASSUME NEW w \in Workers, Store(w)
      PROVE  \A r \in Readings, s \in Statuses : stored[r][s] <= stored'[r][s]
  BY <1>2 DEF TypeOK, LedgerOK, Store
<1>3. ASSUME NEW w \in Workers, Proceed(w) PROVE Store(w) \/ UNCHANGED stored
  BY <1>3 DEF Proceed, Accept, Refuse, RefuseFails, CheckThreshold, GetThresholdFails,
              CheckStatistics, GetStatsFails, Save, SaveFails, CommitUnacknowledged,
              SendAlert, SendAlertFails, Count, CountFails, Observe, ObserveFails, ledger, losses
<1>4. ASSUME NEW w \in Workers, ProcessReading(w) \/ ProcessBatch(w)
      PROVE  UNCHANGED stored
  BY <1>4, BegunSequences DEF Begin, ledger, losses
<1>5. QED
  BY <1>1, <1>2, <1>3, <1>4 DEF Next, SaveThreshold, vars, ledger, losses

LEMMA HistoryGrows ==
  ASSUME TypeOK, TypeOK', \A r \in Readings, s \in Statuses : stored[r][s] <= stored'[r][s],
         NEW id
  PROVE  /\ Samples(id) > MinSamples => Samples(id)' > MinSamples
         /\ Varies(id) => Varies(id)'
<1> DEFINE of == [r \in Readings |-> stored[r]["valid"] + stored[r]["anomaly"]]
<1>1. /\ \A r \in Readings, s \in Statuses : stored[r][s] \in Nat /\ stored'[r][s] \in Nat
      /\ of \in [Readings -> Nat]
      /\ of' \in [Readings -> Nat]
      /\ \A r \in Readings : of[r] <= of'[r]
  <2>1. \A r \in Readings, s \in Statuses : stored[r][s] \in Nat /\ stored'[r][s] \in Nat
    BY DEF TypeOK, LedgerOK
  <2>2. /\ of \in [Readings -> Nat]
        /\ of' \in [Readings -> Nat]
    BY <2>1 DEF Statuses
  <2>3. \A r \in Readings : of[r] <= of'[r]
    BY <2>1 DEF Statuses
  <2>4. QED
    BY <2>1, <2>2, <2>3
<1>2. /\ History(id) \subseteq History(id)'
      /\ History(id)' \in SUBSET Readings
      /\ History(id) \in SUBSET Readings
  BY <1>1 DEF History
<1>3. IsFiniteSet(History(id)') /\ IsFiniteSet(History(id))
  BY <1>2, FS_Subset, ServiceAssumption
<1>4. /\ Samples(id) = Total(of, History(id))
      /\ Samples(id)' = Total(of', History(id)')
  BY DEF Samples
<1>5. /\ Samples(id) \in Nat
      /\ Samples(id)' \in Nat
      /\ Samples(id) <= Samples(id)'
  <2> HIDE DEF of
  <2>1. Total(of, History(id)) \in Nat /\ Total(of', History(id)') \in Nat
    BY <1>1, <1>2, <1>3, TotalType
  <2>2. Total(of, History(id)) <= Total(of', History(id)')
    BY <1>1, <1>2, <1>3, TotalOfMore
  <2>3. QED
    BY <1>4, <2>1, <2>2
<1>6. QED
  BY <1>2, <1>5, ServiceAssumption DEF Varies

(* A step that leaves a worker alone leaves its verdict explained. *)
LEMMA OthersExplained ==
  ASSUME TypeOK, TypeOK', NEW v \in Workers, Watched(v), Validated(v), Explained(v),
         Untouched(v), UNCHANGED <<isAnomaly[v], inForce[v]>>,
         thresholds' = thresholds,
         \A r \in Readings, s \in Statuses : stored[r][s] <= stored'[r][s]
  PROVE  Watched(v)' /\ Validated(v)' /\ Explained(v)'
<1>1. /\ pc'[v] = pc[v]
      /\ Current(v)' = Current(v)
      /\ Sensor(v)' = Sensor(v)
  BY DEF Untouched, Current, Sensor
<1>2. /\ Samples(Sensor(v)) > MinSamples => Samples(Sensor(v))' > MinSamples
      /\ Varies(Sensor(v)) => Varies(Sensor(v))'
  <2>1. ASSUME NEW id, Sensor(v) = id
        PROVE  /\ Samples(id) > MinSamples => Samples(id)' > MinSamples
               /\ Varies(id) => Varies(id)'
    BY HistoryGrows
  <2>2. QED
    BY <1>1, <2>1
<1>3. QED
  BY <1>1, <1>2 DEF Watched, Validated, Explained, Judged, Outside, Inside, IsValid

LEMMA TakenUp ==
  ASSUME TypeOK, NEW w \in Workers, NEW rs \in Seq(Readings), TakeUp(w, rs),
         todo'[w] = rs, pc'[w] = After(rs), thresholds' = thresholds
  PROVE  Watched(w)' /\ Validated(w)' /\ Explained(w)'
<1>1. pc'[w] \in {"idle", "validate"} /\ (pc'[w] # "idle" => rs # <<>>)
  BY DEF After
<1>2. Watched(w)'
  BY <1>1 DEF Watched, TakeUp, Sensor, Current, TypeOK, WorkersOK
<1>3. QED
  BY <1>1, <1>2 DEF Validated, Explained, Judged, PortCalls, Ports

LEMMA ProceedExplains ==
  ASSUME TypeOK, TypeOK', CanonicalIds, NEW w \in Workers,
         Watched(w), Validated(w), Explained(w), Proceed(w),
         \A r \in Readings, s \in Statuses : stored[r][s] <= stored'[r][s]
  PROVE  Watched(w)' /\ Validated(w)' /\ Explained(w)'
<1>1. /\ pc[w] # "idle"
      /\ UNCHANGED thresholds
  BY DEF Proceed, Accept, Refuse, RefuseFails, CheckThreshold, GetThresholdFails, CheckStatistics,
         GetStatsFails, Save, SaveFails, CommitUnacknowledged, SendAlert,
         SendAlertFails, Count, CountFails, Observe, ObserveFails, PortRaises, Step
<1>2. /\ Current(w) \in Readings
      /\ Tail(todo[w]) \in Seq(Readings)
  BY <1>1, CurrentReading
<1>3. CASE Raise(w)
  <2>1. pc'[w] = "idle"
    BY <1>3 DEF Raise, TypeOK, WorkersOK
  <2>2. QED
    BY <2>1 DEF Watched, Validated, Explained, Judged, PortCalls, Ports
<1>4. ASSUME NEW kind, Finish(w, kind)
      PROVE  Watched(w)' /\ Validated(w)' /\ Explained(w)'
  <2>1. /\ todo'[w] = Tail(todo[w])
        /\ pc'[w] = After(Tail(todo[w]))
        /\ TakeUp(w, Tail(todo[w]))
    BY <1>4 DEF Finish, TypeOK, WorkersOK
  <2>2. QED
    BY <1>1, <1>2, <2>1, TakenUp
<1>5. ASSUME todo' = todo, inForce' = inForce
      PROVE  /\ Current(w)' = Current(w) /\ Sensor(w)' = Sensor(w)
             /\ Watched(w)'
             /\ Outside(w)' = Outside(w)
             /\ Inside(w)' = Inside(w)
             /\ IsValid(Current(w))' = IsValid(Current(w))
  BY <1>1, <1>5 DEF Watched, Current, Sensor, Outside, Inside, IsValid
<1>6. CASE Accept(w)
  <2>1. pc'[w] = "get_threshold" /\ IsValid(Current(w))
        /\ todo' = todo /\ inForce' = inForce
    BY <1>6 DEF Accept, Step, TypeOK, WorkersOK
  <2>2. QED
    BY <1>5, <2>1 DEF Validated, Explained, Judged
<1>7. CASE CheckThreshold(w)
  <2> DEFINE outside == ~Within(ValueOf[Current(w)], thresholds[Sensor(w)])
  <2>1. /\ pc[w] = "get_threshold"
        /\ pc'[w] = IF outside THEN "save" ELSE "get_stats"
        /\ isAnomaly'[w] = outside
        /\ todo' = todo /\ inForce' = inForce
    BY <1>7 DEF CheckThreshold, Step, TypeOK, WorkersOK
  <2>2. IsValid(Current(w))
    BY <2>1 DEF Validated, PortCalls, Ports
  <2>3. thresholds[Sensor(w)] \in inForce[w]
    BY <1>1, <1>2, <2>2 DEF Watched, CanonicalIds, Sensor
  <2>4. (outside => Outside(w)) /\ (~outside => Inside(w))
    BY <2>3 DEF Outside, Inside
  <2>5. QED
    <3>1. CASE outside
      <4>1. pc'[w] = "save" /\ isAnomaly'[w] /\ Outside(w)'
        BY <1>5, <2>1, <2>4, <3>1
      <4>2. QED
        BY <1>5, <2>1, <2>2, <4>1 DEF Validated, Explained
    <3>2. CASE ~outside
      BY <1>5, <2>1, <2>2, <2>4, <3>2 DEF Validated, Explained, Judged
    <3>3. QED
      BY <3>1, <3>2
<1>8. CASE CheckStatistics(w)
  <2>1. /\ pc[w] = "get_stats"
        /\ pc'[w] = "save"
        /\ isAnomaly'[w] => Enough(Sensor(w))
        /\ todo' = todo /\ inForce' = inForce /\ stored' = stored
    BY <1>8 DEF CheckStatistics, Step, TypeOK, WorkersOK
  <2>2. IsValid(Current(w)) /\ Inside(w)
    BY <2>1 DEF Validated, PortCalls, Ports, Explained, Judged
  <2>3. Samples(Sensor(w))' = Samples(Sensor(w)) /\ Varies(Sensor(w))' = Varies(Sensor(w))
    BY <1>5, <2>1 DEF Samples, Varies, History
  <2>4. QED
    BY <1>5, <2>1, <2>2, <2>3 DEF Validated, Explained, Judged, Enough
<1>9. CASE Save(w) \/ SendAlert(w) \/ Count(w)
  <2>1. /\ pc[w] \in {"save", "send_alert", "increment_counter"}
        /\ pc'[w] \in {"send_alert", "increment_counter", "observe_histogram"}
        /\ todo' = todo /\ inForce' = inForce /\ isAnomaly' = isAnomaly
    BY <1>9 DEF Save, SendAlert, Count, Step, TypeOK, WorkersOK
  <2>2. IsValid(Current(w))
    BY <2>1 DEF Validated, PortCalls, Ports
  <2>3. /\ Samples(Sensor(w)) > MinSamples => Samples(Sensor(w))' > MinSamples
        /\ Varies(Sensor(w)) => Varies(Sensor(w))'
    <3>1. ASSUME NEW id, Sensor(w) = id
          PROVE  /\ Samples(id) > MinSamples => Samples(id)' > MinSamples
                 /\ Varies(id) => Varies(id)'
      BY HistoryGrows
    <3>2. QED
      BY <1>5, <2>1, <3>1
  <2>4. QED
    BY <1>5, <2>1, <2>2, <2>3 DEF Validated, Explained, Judged, PortCalls, Ports
<1>10. QED
  BY <1>3, <1>4, <1>6, <1>7, <1>8, <1>9
     DEF Proceed, Refuse, RefuseFails, GetThresholdFails, GetStatsFails, SaveFails,
         CommitUnacknowledged, SendAlertFails, CountFails, Observe, ObserveFails,
         PortRaises

LEMMA SaveThresholdExplains ==
  ASSUME TypeOK, NEW id \in WellFormed, NEW range \in Ranges, SaveThreshold(id, range),
         NEW v \in Workers, Watched(v), Validated(v), Explained(v)
  PROVE  Watched(v)' /\ Validated(v)' /\ Explained(v)'
<1>1. /\ UNCHANGED <<pc, todo, isAnomaly, stored>>
      /\ inForce[v] \subseteq inForce'[v]
  BY DEF SaveThreshold, ledger, losses
<1>2. Watched(v)'
  <2> SUFFICES ASSUME pc[v] # "idle"
               PROVE  thresholds'[Canonical[Sensor(v)]] \in inForce'[v]
    BY <1>1 DEF Watched, Sensor, Current
  <2>1. Canonical[Sensor(v)] \in Ids
    BY CurrentReading, ServiceAssumption
  <2>2. CASE Canonical[Sensor(v)] = id
    BY <2>1, <2>2 DEF SaveThreshold, TypeOK
  <2>3. CASE Canonical[Sensor(v)] # id
    BY <1>1, <2>1, <2>3 DEF SaveThreshold, Watched, TypeOK
  <2>4. QED
    BY <2>2, <2>3
<1>3. /\ Current(v)' = Current(v) /\ Sensor(v)' = Sensor(v)
      /\ Outside(v) => Outside(v)'
      /\ Inside(v) => Inside(v)'
  BY <1>1 DEF Current, Sensor, Outside, Inside
<1>4. Samples(Sensor(v))' = Samples(Sensor(v)) /\ Varies(Sensor(v))' = Varies(Sensor(v))
  BY <1>1, <1>3 DEF Samples, Varies, History
<1>5. Validated(v)' /\ Explained(v)'
  BY <1>1, <1>3, <1>4 DEF Validated, Explained, Judged, IsValid
<1>6. QED
  BY <1>2, <1>5

(* Every verdict is explained by a range in force for its sensor while the *)
(* reading was processed or by enough varied history, however calls and    *)
(* reconfigurations interleave, provided ids are written canonically.      *)
THEOREM VerdictsAlwaysExplained ==
  ASSUME CanonicalIds
  PROVE  Spec => []VerdictExplained
<1>1. Init => VerdictInv
  BY DEF Init, VerdictInv, Watched, Validated, Explained, Judged, PortCalls, Ports
<1>2. TypeOK /\ TypeOK' /\ VerdictInv /\ [Next]_vars => VerdictInv'
  <2> SUFFICES ASSUME TypeOK, TypeOK', VerdictInv, [Next]_vars, NEW v \in Workers
               PROVE  Watched(v)' /\ Validated(v)' /\ Explained(v)'
    BY DEF VerdictInv
  <2> DEFINE goal == Watched(v)' /\ Validated(v)' /\ Explained(v)'
  <2>1. Watched(v) /\ Validated(v) /\ Explained(v)
    BY DEF VerdictInv
  <2>2. \A r \in Readings, s \in Statuses : stored[r][s] <= stored'[r][s]
    BY StoredGrows
  <2>3. ASSUME NEW w \in Workers, Proceed(w) PROVE goal
    <3>1. CASE v = w
      BY <2>1, <2>2, <2>3, <3>1, ProceedExplains
    <3>2. CASE v # w
      <4>1. /\ Untouched(v)
            /\ UNCHANGED <<isAnomaly[v], inForce[v]>>
            /\ thresholds' = thresholds
        BY <2>3, <3>2, OthersUntouched, OthersUnjudged
           DEF Proceed, Accept, Refuse, RefuseFails, CheckThreshold, GetThresholdFails, CheckStatistics,
               GetStatsFails, Save, SaveFails, CommitUnacknowledged, SendAlert,
               SendAlertFails, Count, CountFails, Observe, ObserveFails
      <4>2. QED
        BY <2>1, <2>2, <4>1, OthersExplained
    <3>3. QED
      BY <3>1, <3>2
  <2>4. ASSUME NEW w \in Workers, ProcessReading(w) \/ ProcessBatch(w) PROVE goal
    <3>1. PICK rs \in Seq(Readings), batch \in BOOLEAN : Begin(w, rs, batch)
      BY <2>4, BegunSequences
    <3>2. CASE v = w
      <4>1. /\ TakeUp(w, rs) /\ todo'[w] = rs /\ pc'[w] = After(rs)
            /\ thresholds' = thresholds
        BY <3>1 DEF Begin, Step, TypeOK, WorkersOK
      <4>2. QED
        BY <3>2, <4>1, TakenUp
    <3>3. CASE v # w
      <4>1. /\ Untouched(v)
            /\ UNCHANGED <<isAnomaly[v], inForce[v]>>
            /\ thresholds' = thresholds
        BY <2>4, <3>1, <3>3, OthersUntouched, OthersUnjudged DEF Begin
      <4>2. QED
        BY <2>1, <2>2, <4>1, OthersExplained
    <3>4. QED
      BY <3>2, <3>3
  <2>5. ASSUME NEW id \in WellFormed, NEW range \in Ranges, SaveThreshold(id, range)
        PROVE  goal
    BY <2>1, <2>5, SaveThresholdExplains
  <2>6. CASE UNCHANGED vars
    <3>1. /\ Untouched(v)
          /\ UNCHANGED <<isAnomaly[v], inForce[v]>>
          /\ thresholds' = thresholds
      BY <2>6 DEF vars, local, Untouched
    <3>2. QED
      BY <2>1, <2>2, <3>1, OthersExplained
  <2>7. QED
    BY <2>3, <2>4, <2>5, <2>6 DEF Next
<1>3. VerdictInv => VerdictExplained
  BY VerdictsByWorker DEF VerdictInv
<1>4. QED
  BY <1>1, <1>2, <1>3, TypeCorrect, PTL DEF Spec
-----------------------------------------------------------------------------
Isolated(v) == inBatch[v] => outcome[v] # "raised"

(* With no failing port, no batch ends with an exception, whatever invalid *)
(* readings it holds.                                                      *)
THEOREM InvalidReadingsIsolated ==
  ASSUME FaultyPorts = {}
  PROVE  Spec => []BatchIsolatesFailures
<1>1. Init => BatchIsolatesFailures
  BY DEF Init, BatchIsolatesFailures
<1>2. TypeOK /\ BatchIsolatesFailures /\ [Next]_vars => BatchIsolatesFailures'
  <2> SUFFICES ASSUME TypeOK, BatchIsolatesFailures, [Next]_vars, NEW v \in Workers
               PROVE  Isolated(v)'
    BY DEF BatchIsolatesFailures, Isolated
  <2>1. Isolated(v)
    BY DEF BatchIsolatesFailures, Isolated
  <2>2. ASSUME NEW w \in Workers, NEW rs, NEW batch, Begin(w, rs, batch)
        PROVE  Isolated(v)'
    BY <2>1, <2>2 DEF Begin, Isolated, TypeOK, WorkersOK
  <2>3. ASSUME NEW w \in Workers, Proceed(w) PROVE Isolated(v)'
    <3>1. CASE Refuse(w)
      BY <2>1, <3>1 DEF Refuse, Raise, Finish, Isolated, TypeOK, WorkersOK
    <3>2. CASE Observe(w)
      BY <2>1, <3>2 DEF Observe, Finish, Isolated, TypeOK, WorkersOK
    <3>3. CASE ~Refuse(w) /\ ~Observe(w)
      <4>1. UNCHANGED <<inBatch, outcome>>
        BY <2>3, <3>3
           DEF Proceed, Accept, RefuseFails, CheckThreshold, GetThresholdFails,
               CheckStatistics, GetStatsFails, Save, SaveFails, CommitUnacknowledged,
               SendAlert, SendAlertFails, Count, CountFails, ObserveFails, PortRaises
      <4>2. QED
        BY <2>1, <4>1 DEF Isolated
    <3>4. QED
      BY <3>1, <3>2, <3>3
  <2>4. ASSUME NEW id \in WellFormed, NEW range \in Ranges, SaveThreshold(id, range)
        PROVE  Isolated(v)'
    BY <2>1, <2>4 DEF SaveThreshold, Isolated
  <2>5. CASE UNCHANGED vars
    BY <2>1, <2>5 DEF vars, local, Isolated
  <2>6. QED
    BY <2>2, <2>3, <2>4, <2>5 DEF Next, ProcessReading, ProcessBatch
<1>3. QED
  BY <1>1, <1>2, TypeCorrect, PTL DEF Spec
=============================================================================
