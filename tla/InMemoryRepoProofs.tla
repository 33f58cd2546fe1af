-------------------------- MODULE InMemoryRepoProofs ------------------------
(***************************************************************************)
(* Proofs about InMemoryRepo, for any clients, readings, queries and       *)
(* limits: that it implements ReadingStore, whatever a query makes of the  *)
(* readings it scans, and that what a query makes of them is right: the    *)
(* order Before gives each its rank (RanksAreTheirOwn, NewestComeFirst), a *)
(* scan has found all it has passed (Scanning), and so a query's results   *)
(* are places in the list as it was when the scan ended (Answering).       *)
(***************************************************************************)
EXTENDS InMemoryRepo, FiniteSetTheorems, SequenceTheorems, TLAPS

(* The readings of a batch are different objects. *)
Distinct(b) == \A i, j \in DOMAIN b : b[i] = b[j] => i = j

Begun ==
  /\ readings \in Seq(Rows)
  /\ pc \in [Clients -> {"idle", "write", "scan", "return"}]
  /\ call \in [Clients -> {"save", "save_batch", "query"}]
  /\ batch \in [Clients -> Seq(Rows)]
  /\ outcome \in [Clients -> {"none", "returned"}]
  /\ snapshot \in [Clients -> Seq(Rows)]
  /\ \A c \in Clients :
       /\ Distinct(batch[c])
       /\ pc[c] = "write" => call[c] \in {"save", "save_batch"}
       /\ pc[c] = "scan" => call[c] = "query"

LEMMA BatchTypes ==
  /\ \A r \in Rows : <<r>> \in Seq(Rows) /\ Distinct(<<r>>)
  /\ \A n \in Nat : \A rs \in Injection(1..n, Rows) : rs \in Seq(Rows) /\ Distinct(rs)
  /\ <<>> \in Seq(Rows) /\ Distinct(<<>>)
<1>1. \A r \in Rows : <<r>> \in Seq(Rows) /\ Distinct(<<r>>)
  BY DEF Distinct
<1>2. ASSUME NEW n \in Nat, NEW rs \in Injection(1..n, Rows)
      PROVE  rs \in Seq(Rows) /\ Distinct(rs)
  <2>1. rs \in [1..n -> Rows] /\ \A i, j \in 1..n : rs[i] = rs[j] => i = j
    BY DEF Injection, IsInjective
  <2>2. rs \in Seq(Rows)
    BY <2>1, SeqDef
  <2>3. QED
    BY <2>1, <2>2 DEF Distinct
<1>3. <<>> \in Seq(Rows) /\ Distinct(<<>>)
  BY DEF Distinct
<1>4. QED
  BY <1>1, <1>2, <1>3

LEMMA BegunStep ==
  ASSUME Begun, [Next]_vars
  PROVE  Begun'
<1> USE DEF Begun, Step, client
<1>1. ASSUME NEW c \in Clients, NEW op \in {"save", "save_batch"},
             NEW rs \in Seq(Rows), Distinct(rs), BeginWrite(c, op, rs)
      PROVE  Begun'
  BY <1>1 DEF BeginWrite, Begin
<1>2. ASSUME NEW c \in Clients, Save(c) PROVE Begun'
  BY <1>1, <1>2, BatchTypes DEF Save
<1>3. ASSUME NEW c \in Clients, SaveBatch(c) PROVE Begun'
  <2>1. PICK n \in 0..MaxBatch : \E rs \in Injection(1..n, Rows) : BeginWrite(c, "save_batch", rs)
    BY <1>3 DEF SaveBatch
  <2>2. n \in Nat
    BY InMemoryAssumption
  <2>3. QED
    BY <1>1, <2>1, <2>2, BatchTypes
<1>4. ASSUME NEW c \in Clients, Query(c) PROVE Begun'
  BY <1>4, BatchTypes DEF Query, Begin
<1>5. ASSUME NEW c \in Clients, Write(c) PROVE Begun'
  <2>1. readings \o batch[c] \in Seq(Rows)
    BY ConcatProperties
  <2>2. QED
    BY <1>5, <2>1 DEF Write
<1>6. ASSUME NEW c \in Clients, ScanNext(c) PROVE Begun'
  BY <1>6 DEF ScanNext
<1>7. ASSUME NEW c \in Clients, ScanEnd(c) PROVE Begun'
  BY <1>7 DEF ScanEnd
<1>8. ASSUME NEW c \in Clients, Return(c) PROVE Begun'
  BY <1>8 DEF Return
<1>9. CASE ClearBetweenScans
  BY <1>9, BatchTypes DEF ClearBetweenScans, Clear
<1>10. CASE UNCHANGED vars
  BY <1>10 DEF vars
<1>11. QED
  BY <1>2, <1>3, <1>4, <1>5, <1>6, <1>7, <1>8, <1>9, <1>10 DEF Next
-----------------------------------------------------------------------------
(* Extending the list by different readings adds one of each.              *)
LEMMA ExtendContents ==
  ASSUME NEW s \in Seq(Rows), NEW b \in Seq(Rows), Distinct(b)
  PROVE  Contents(s \o b) = Store!Written(Contents(s), ToSet(b))
<1> SUFFICES ASSUME NEW r \in Rows
             PROVE  Times(s \o b, r) = Times(s, r) + (IF r \in ToSet(b) THEN 1 ELSE 0)
  BY DEF Contents, Store!Written
<1> DEFINE Old == {i \in DOMAIN s : s[i] = r}
           Both == {i \in DOMAIN (s \o b) : (s \o b)[i] = r}
<1>1. /\ Len(s) \in Nat /\ Len(b) \in Nat /\ Len(s \o b) = Len(s) + Len(b)
      /\ DOMAIN s = 1..Len(s) /\ DOMAIN b = 1..Len(b) /\ DOMAIN (s \o b) = 1..Len(s \o b)
      /\ \A i \in 1..Len(s) : (s \o b)[i] = s[i]
      /\ \A j \in 1..Len(b) : (s \o b)[Len(s) + j] = b[j]
  <2>1. /\ s \o b \in Seq(Rows) /\ Len(s \o b) = Len(s) + Len(b)
        /\ \A i \in 1..Len(s) + Len(b) :
             (s \o b)[i] = IF i <= Len(s) THEN s[i] ELSE b[i - Len(s)]
    BY ConcatProperties
  <2>2. Len(s) \in Nat /\ Len(b) \in Nat
    BY LenProperties
  <2>3. DOMAIN s = 1..Len(s) /\ DOMAIN b = 1..Len(b) /\ DOMAIN (s \o b) = 1..Len(s \o b)
    BY <2>1, LenProperties
  <2>4. \A i \in 1..Len(s) : (s \o b)[i] = s[i]
    BY <2>1, <2>2
  <2>5. \A j \in 1..Len(b) : (s \o b)[Len(s) + j] = b[j]
    <3> SUFFICES ASSUME NEW j \in 1..Len(b) PROVE (s \o b)[Len(s) + j] = b[j]
      OBVIOUS
    <3>1. /\ Len(s) + j \in 1..Len(s) + Len(b) /\ ~(Len(s) + j <= Len(s))
          /\ (Len(s) + j) - Len(s) = j
      BY <2>2
    <3>2. QED
      BY <2>1, <3>1
  <2>6. QED
    BY <2>1, <2>2, <2>3, <2>4, <2>5
<1>2. IsFiniteSet(Old) /\ Cardinality(Old) \in Nat
  <2>1. IsFiniteSet(1..Len(s))
    BY <1>1, FS_Interval
  <2>2. Old \subseteq 1..Len(s)
    BY <1>1
  <2>3. IsFiniteSet(Old)
    BY <2>1, <2>2, FS_Subset
  <2>4. QED
    BY <2>3, FS_CardinalityType
<1>3. CASE r \in ToSet(b)
  <2>1. PICK k \in 1..Len(b) : b[k] = r
    BY <1>1, <1>3 DEF ToSet
  <2>2. \A j \in 1..Len(b) : b[j] = r => j = k
    BY <1>1, <2>1 DEF Distinct
  <2>3. Both = Old \union {Len(s) + k}
    <3>1. ASSUME NEW i \in Both PROVE i \in Old \union {Len(s) + k}
      <4>1. CASE i \in 1..Len(s)
        BY <1>1, <3>1, <4>1
      <4>2. CASE i \notin 1..Len(s)
        <5>1. i - Len(s) \in 1..Len(b) /\ i = Len(s) + (i - Len(s))
          BY <1>1, <3>1, <4>2
        <5>2. b[i - Len(s)] = r
          BY <1>1, <3>1, <5>1
        <5>3. QED
          BY <1>1, <2>2, <5>1, <5>2
      <4>3. QED
        BY <4>1, <4>2
    <3>2. Old \subseteq Both /\ Len(s) + k \in Both
      BY <1>1, <2>1
    <3>3. QED
      BY <3>1, <3>2
  <2>4. Len(s) + k \notin Old
    BY <1>1
  <2>5. Cardinality(Both) = Cardinality(Old) + 1
    BY <1>2, <2>3, <2>4, FS_AddElement
  <2>6. QED
    BY <1>3, <2>5 DEF Times
<1>4. CASE r \notin ToSet(b)
  <2>1. \A j \in 1..Len(b) : b[j] # r
    BY <1>1, <1>4 DEF ToSet
  <2>2. Both = Old
    <3>1. ASSUME NEW i \in Both PROVE i \in Old
      <4>1. CASE i \in 1..Len(s)
        BY <1>1, <3>1, <4>1
      <4>2. CASE i \notin 1..Len(s)
        <5>1. i - Len(s) \in 1..Len(b) /\ i = Len(s) + (i - Len(s))
          BY <1>1, <3>1, <4>2
        <5>2. QED
          BY <1>1, <2>1, <3>1, <5>1
      <4>3. QED
        BY <4>1, <4>2
    <3>2. Old \subseteq Both
      BY <1>1
    <3>3. QED
      BY <3>1, <3>2
  <2>3. Times(s \o b, r) = Times(s, r) /\ Times(s, r) \in Nat
    BY <1>2, <2>2 DEF Times
  <2>4. QED
    BY <1>4, <2>3
<1>5. QED
  BY <1>3, <1>4

LEMMA EmptyContents == Contents(<<>>) = Store!Nothing /\ ToSet(<<>>) = {}
<1>1. \A r \in Rows : Times(<<>>, r) = 0
  <2> SUFFICES ASSUME NEW r \in Rows PROVE Times(<<>>, r) = 0
    OBVIOUS
  <2>1. {i \in DOMAIN <<>> : <<>>[i] = r} = {}
    OBVIOUS
  <2>2. QED
    BY <2>1, FS_EmptySet DEF Times
<1>2. QED
  BY <1>1 DEF Contents, Store!Nothing, ToSet
-----------------------------------------------------------------------------
(* What the mapping makes of the state. *)
Table == Contents(readings)
Phase == [c \in Clients |-> CASE pc[c] = "idle"   -> "idle"
                              [] pc[c] = "return" -> "applied"
                              [] OTHER            -> "open"]
Given == [c \in Clients |-> ToSet(batch[c])]
Found == [c \in Clients |-> Contents(snapshot[c])]

LEMMA PhaseOf ==
  ASSUME Begun, NEW c \in Clients
  PROVE  /\ pc[c] = "idle" => Phase[c] = "idle"
         /\ pc[c] = "return" => Phase[c] = "applied"
         /\ pc[c] \in {"write", "scan"} => Phase[c] = "open"
BY DEF Phase

LEMMA PhaseStep ==
  ASSUME Begun, NEW c \in Clients, NEW from, NEW to, Step(c, from, to)
  PROVE  Phase' = [Phase EXCEPT ![c] = CASE to = "idle"   -> "idle"
                                         [] to = "return" -> "applied"
                                         [] OTHER         -> "open"]
<1>1. \A d \in Clients : pc'[d] = IF d = c THEN to ELSE pc[d]
  BY DEF Step, Begun
<1>2. QED
  BY <1>1 DEF Phase

LEMMA BeginImplements ==
  ASSUME Begun, NEW c \in Clients, NEW op, NEW to \in {"write", "scan"}, NEW rs,
         Begin(c, op, to), batch' = [batch EXCEPT ![c] = rs],
         UNCHANGED <<readings, snapshot>>
  PROVE  Store!Begin(c, op, ToSet(rs))
<1>1. Phase[c] = "idle" /\ Phase' = [Phase EXCEPT ![c] = "open"]
  <2>1. Step(c, "idle", to) /\ pc[c] = "idle"
    BY DEF Begin, Step
  <2>2. Phase' = [Phase EXCEPT ![c] = CASE to = "idle"   -> "idle"
                                       [] to = "return" -> "applied"
                                       [] OTHER         -> "open"]
    BY <2>1, PhaseStep
  <2>3. QED
    BY <2>1, <2>2, PhaseOf
<1>2. Given' = [Given EXCEPT ![c] = ToSet(rs)]
  BY DEF Given, Begun
<1>3. UNCHANGED <<Table, Found>>
  BY DEF Table, Found
<1>4. QED
  BY <1>1, <1>2, <1>3 DEF Begin, Store!Begin, Phase, Given, Table, Found

LEMMA WriteImplements ==
  ASSUME Begun, NEW c \in Clients, Write(c)
  PROVE  Store!Apply(c)
<1>1. Step(c, "write", "return") /\ pc[c] = "write"
  BY DEF Write, Step
<1>2. Phase[c] = "open" /\ Phase' = [Phase EXCEPT ![c] = "applied"]
  BY <1>1, PhaseOf, PhaseStep
<1>3. call[c] \in Store!Writes
  BY <1>1 DEF Begun, Store!Writes
<1>4. Table' = Store!Written(Table, Given[c])
  BY ExtendContents DEF Write, Begun, Table, Given
<1>5. UNCHANGED <<call, Given, outcome, Found>>
  BY DEF Write, client, Given, Found
<1>6. QED
  BY <1>2, <1>3, <1>4, <1>5 DEF Store!Apply, Phase, Given, Table, Found

(* A query takes effect when its scan meets the end of the list. *)
LEMMA ScanEndImplements ==
  ASSUME Begun, NEW c \in Clients, ScanEnd(c)
  PROVE  Store!Apply(c)
<1>1. Step(c, "scan", "return") /\ pc[c] = "scan"
  BY DEF ScanEnd, Step
<1>2. Phase[c] = "open" /\ Phase' = [Phase EXCEPT ![c] = "applied"]
  BY <1>1, PhaseOf, PhaseStep
<1>3. call[c] \notin Store!Writes
  BY <1>1 DEF Begun, Store!Writes
<1>4. Found' = [Found EXCEPT ![c] = Table]
  BY DEF ScanEnd, Begun, Found, Table
<1>5. UNCHANGED <<call, Given, outcome, Table>>
  BY DEF ScanEnd, client, Given, Table
<1>6. QED
  BY <1>2, <1>3, <1>4, <1>5 DEF Store!Apply, Phase, Given, Table, Found

LEMMA ReturnImplements ==
  ASSUME Begun, NEW c \in Clients, Return(c)
  PROVE  Store!Return(c)
<1>1. Step(c, "return", "idle") /\ pc[c] = "return"
  BY DEF Return, Step
<1>2. Phase[c] = "applied" /\ Phase' = [Phase EXCEPT ![c] = "idle"]
  BY <1>1, PhaseOf, PhaseStep
<1>3. UNCHANGED <<Table, call, Given, Found>>
  BY DEF Return, Table, Given, Found
<1>4. QED
  BY <1>2, <1>3 DEF Return, Store!Return, Store!End, Phase, Given, Table, Found

LEMMA StoreStep ==
  ASSUME Begun, [Next]_vars
  PROVE  [Store!Next]_(Store!vars)
<1>1. ASSUME NEW c \in Clients, Save(c) PROVE Store!Next
  <2>1. PICK r \in Rows : BeginWrite(c, "save", <<r>>)
    BY <1>1 DEF Save
  <2>2. Store!Begin(c, "save", ToSet(<<r>>))
    BY <2>1, BeginImplements DEF BeginWrite
  <2>3. ToSet(<<r>>) = {r}
    BY DEF ToSet
  <2>4. QED
    BY <2>2, <2>3 DEF Store!Next
<1>2. ASSUME NEW c \in Clients, SaveBatch(c) PROVE Store!Next
  <2>1. PICK n \in 0..MaxBatch : \E rs \in Injection(1..n, Rows) : BeginWrite(c, "save_batch", rs)
    BY <1>2 DEF SaveBatch
  <2>2. PICK rs \in Injection(1..n, Rows) : BeginWrite(c, "save_batch", rs)
    BY <2>1
  <2>3. Store!Begin(c, "save_batch", ToSet(rs))
    BY <2>2, BeginImplements DEF BeginWrite
  <2>4. ToSet(rs) \in SUBSET Rows
    <3>1. rs \in [1..n -> Rows]
      BY DEF Injection, IsInjective
    <3>2. QED
      BY <3>1 DEF ToSet
  <2>5. QED
    BY <2>3, <2>4 DEF Store!Next
<1>3. ASSUME NEW c \in Clients, Query(c) PROVE Store!Next
  <2>1. Store!Begin(c, "query", ToSet(<<>>))
    BY <1>3, BeginImplements DEF Query
  <2>2. QED
    BY <2>1, EmptyContents DEF Store!Next
<1>4. ASSUME NEW c \in Clients, ScanNext(c) PROVE UNCHANGED Store!vars
  BY <1>4 DEF ScanNext, client, Store!vars
<1>5. CASE ClearBetweenScans
  <2>1. Table' = Store!Nothing /\ UNCHANGED <<Phase, call, Given, Found, outcome>>
    BY <1>5, EmptyContents DEF ClearBetweenScans, Clear, client, Table, Phase, Given, Found
  <2>2. QED
    BY <2>1 DEF Store!Next, Store!Clear, Table, Phase, Given, Found
<1>6. CASE UNCHANGED vars
  BY <1>6 DEF vars, client, Store!vars
<1>7. QED
  BY <1>1, <1>2, <1>3, <1>4, <1>5, <1>6, WriteImplements, ScanEndImplements,
     ReturnImplements DEF Next, Store!Next

(* InMemoryReadingRepo keeps the promise of the port: a write takes effect *)
(* at once, and a query that scans while others append answers from the    *)
(* list as it is when the scan ends.                                       *)
THEOREM StoreIsImplemented == Spec => ImplementsStore
<1>1. Init => Begun
  BY BatchTypes DEF Init, Begun
<1>2. Init => Store!Init
  BY EmptyContents DEF Init, Store!Init
<1>3. Begun /\ [Next]_vars => Begun' /\ [Store!Next]_(Store!vars)
  BY BegunStep, StoreStep
<1>4. QED
  BY <1>1, <1>2, <1>3, PTL DEF Spec, Store!Spec, ImplementsStore
-----------------------------------------------------------------------------
(* Before is a strict total order of the readings at these indices, by     *)
(* which each has a rank of its own.                                       *)
Dated(s, keys) ==
  /\ keys \in SUBSET Nat /\ IsFiniteSet(keys)
  /\ \A i \in keys : TimeOf[s[i]] \in Int

LEMMA BeforeIsAnOrder ==
  ASSUME NEW s, NEW keys, Dated(s, keys)
  PROVE  /\ \A i \in keys : ~Before(s, i, i)
         /\ \A i, j \in keys : i # j => Before(s, i, j) \/ Before(s, j, i)
         /\ \A i, j \in keys : Before(s, i, j) => ~Before(s, j, i)
         /\ \A i, j, k \in keys : Before(s, i, j) /\ Before(s, j, k) => Before(s, i, k)
<1>1. \A i \in keys : i \in Int /\ TimeOf[s[i]] \in Int
  BY DEF Dated
<1>2. ASSUME NEW i \in keys PROVE ~Before(s, i, i)
  BY <1>1 DEF Before
<1>3. ASSUME NEW i \in keys, NEW j \in keys
      PROVE  /\ i # j => Before(s, i, j) \/ Before(s, j, i)
             /\ Before(s, i, j) => ~Before(s, j, i)
  <2>1. i \in Int /\ j \in Int /\ TimeOf[s[i]] \in Int /\ TimeOf[s[j]] \in Int
    BY <1>1
  <2>2. QED
    BY <2>1 DEF Before
<1>4. ASSUME NEW i \in keys, NEW j \in keys, NEW k \in keys, Before(s, i, j), Before(s, j, k)
      PROVE  Before(s, i, k)
  <2>1. /\ i \in Int /\ j \in Int /\ k \in Int
        /\ TimeOf[s[i]] \in Int /\ TimeOf[s[j]] \in Int /\ TimeOf[s[k]] \in Int
    BY <1>1
  <2>2. QED
    BY <1>4, <2>1 DEF Before
<1>5. QED
  BY <1>2, <1>3, <1>4

LEMMA RanksRise ==
  ASSUME NEW s, NEW keys, Dated(s, keys), NEW i \in keys, NEW j \in keys, Before(s, i, j)
  PROVE  Rank(s, keys, i) < Rank(s, keys, j)
<1> DEFINE Earlier(k) == {m \in keys : Before(s, m, k)}
<1>1. i \notin Earlier(i) /\ Earlier(i) \union {i} \subseteq Earlier(j)
  BY BeforeIsAnOrder
<1>2. IsFiniteSet(Earlier(i)) /\ IsFiniteSet(Earlier(j))
  BY FS_Subset DEF Dated
<1>3. /\ Cardinality(Earlier(i)) \in Nat /\ Cardinality(Earlier(j)) \in Nat
      /\ Cardinality(Earlier(i) \union {i}) = Cardinality(Earlier(i)) + 1
  BY <1>1, <1>2, FS_CardinalityType, FS_AddElement
<1>4. Cardinality(Earlier(i) \union {i}) <= Cardinality(Earlier(j))
  BY <1>1, <1>2, FS_Subset
<1>5. QED
  BY <1>3, <1>4 DEF Rank

LEMMA RanksAreTheirOwn ==
  ASSUME NEW s, NEW keys, Dated(s, keys)
  PROVE  /\ Cardinality(keys) \in Nat
         /\ \A i \in keys : Rank(s, keys, i) \in 0..(Cardinality(keys) - 1)
         /\ \A i, j \in keys : Rank(s, keys, i) = Rank(s, keys, j) => i = j
         /\ \A i, j \in keys : Rank(s, keys, i) < Rank(s, keys, j) => Before(s, i, j)
         /\ \A k \in 1..Cardinality(keys) : \E i \in keys : Rank(s, keys, i) = k - 1
<1> DEFINE n == Cardinality(keys)
           rank == [i \in keys |-> Rank(s, keys, i)]
<1>1. IsFiniteSet(keys) /\ n \in Nat
  BY FS_CardinalityType DEF Dated
<1>2. ASSUME NEW i \in keys PROVE Rank(s, keys, i) \in 0..(n - 1)
  <2> DEFINE Earlier == {m \in keys : Before(s, m, i)}
  <2>1. Earlier \subseteq keys /\ i \notin Earlier
    BY BeforeIsAnOrder
  <2>2. /\ IsFiniteSet(Earlier) /\ Cardinality(Earlier) <= n
        /\ n = Cardinality(Earlier) => keys = Earlier
    BY <1>1, <2>1, FS_Subset
  <2>3. Cardinality(Earlier) \in Nat
    BY <2>2, FS_CardinalityType
  <2>4. Cardinality(Earlier) # n
    BY <2>1, <2>2
  <2>5. Cardinality(Earlier) \in 0..(n - 1)
    BY <1>1, <2>2, <2>3, <2>4
  <2>6. QED
    BY <2>5 DEF Rank
<1>3. ASSUME NEW i \in keys, NEW j \in keys, i # j
      PROVE  Rank(s, keys, i) # Rank(s, keys, j)
  <2>1. Rank(s, keys, i) < Rank(s, keys, j) \/ Rank(s, keys, j) < Rank(s, keys, i)
    BY <1>3, BeforeIsAnOrder, RanksRise
  <2>2. QED
    BY <1>1, <1>2, <2>1
<1>4. ASSUME NEW i \in keys, NEW j \in keys, Rank(s, keys, i) < Rank(s, keys, j)
      PROVE  Before(s, i, j)
  <2>1. i # j
    BY <1>1, <1>2, <1>4
  <2>2. ~Before(s, j, i)
    <3>1. Before(s, j, i) => Rank(s, keys, j) < Rank(s, keys, i)
      BY RanksRise
    <3>2. QED
      BY <1>1, <1>2, <1>4, <3>1
  <2>3. QED
    BY <2>1, <2>2, BeforeIsAnOrder
<1>5. \A k \in 1..n : \E i \in keys : Rank(s, keys, i) = k - 1
  <2>1. rank \in Injection(keys, 0..(n - 1))
    BY <1>2, <1>3 DEF Injection, IsInjective
  <2>2. IsFiniteSet(0..(n - 1)) /\ Cardinality(0..(n - 1)) = n
    BY <1>1, FS_Interval
  <2>3. rank \in Surjection(keys, 0..(n - 1))
    BY <2>1, <2>2, FS_Injection
  <2>4. \A m \in 0..(n - 1) : \E i \in keys : rank[i] = m
    BY <2>3 DEF Surjection
  <2>5. \A k \in 1..n : k - 1 \in 0..(n - 1)
    BY <1>1
  <2>6. QED
    BY <2>4, <2>5
<1>6. QED
  BY <1>1, <1>2, <1>3, <1>4, <1>5

(* Sorting and slicing: the readings returned are at places of their own,  *)
(* in the order, and before all those that are left out.                   *)
LEMMA NewestComeFirst ==
  ASSUME NEW s, NEW keys, Dated(s, keys), NEW limit \in Nat
  PROVE  \E n \in Nat : \E p \in [1..n -> keys] :
           /\ n = Smaller(limit, Cardinality(keys))
           /\ Newest(s, keys, limit) = [k \in 1..n |-> s[p[k]]]
           /\ \A k, l \in 1..n : k < l => Before(s, p[k], p[l])
           /\ \A k \in 1..n : \A i \in keys :
                (\A l \in 1..n : p[l] # i) => Before(s, p[k], i)
<1> DEFINE n == Smaller(limit, Cardinality(keys))
           place(k) == CHOOSE i \in keys : Rank(s, keys, i) = k - 1
           p == [k \in 1..n |-> place(k)]
<1>1. Cardinality(keys) \in Nat /\ n \in Nat /\ n <= Cardinality(keys)
  BY RanksAreTheirOwn DEF Smaller
<1>2. ASSUME NEW k \in 1..n PROVE place(k) \in keys /\ Rank(s, keys, place(k)) = k - 1
  <2>1. k \in 1..Cardinality(keys)
    BY <1>1
  <2>2. \E i \in keys : Rank(s, keys, i) = k - 1
    BY <2>1, RanksAreTheirOwn
  <2>3. QED
    BY <2>2
<1>3. p \in [1..n -> keys]
  BY <1>2
<1>4. Newest(s, keys, limit) = [k \in 1..n |-> s[p[k]]]
  BY DEF Newest
<1>5. ASSUME NEW k \in 1..n, NEW l \in 1..n, k < l PROVE Before(s, p[k], p[l])
  <2>1. /\ p[k] \in keys /\ Rank(s, keys, p[k]) = k - 1
        /\ p[l] \in keys /\ Rank(s, keys, p[l]) = l - 1
    BY <1>2
  <2>2. Rank(s, keys, p[k]) < Rank(s, keys, p[l])
    BY <1>1, <1>5, <2>1
  <2>3. QED
    BY <2>1, <2>2, RanksAreTheirOwn
<1>6. ASSUME NEW k \in 1..n, NEW i \in keys, \A l \in 1..n : p[l] # i
      PROVE  Before(s, p[k], i)
  <2> DEFINE r == Rank(s, keys, i)
  <2>1. r \in 0..(Cardinality(keys) - 1)
    BY RanksAreTheirOwn
  <2>2. p[k] \in keys /\ Rank(s, keys, p[k]) = k - 1
    BY <1>2
  <2>3. r >= n
    <3>1. SUFFICES ASSUME r < n PROVE FALSE
      BY <1>1, <2>1
    <3>2. r + 1 \in 1..n /\ (r + 1) - 1 = r
      BY <1>1, <2>1, <3>1
    <3>3. p[r + 1] \in keys /\ Rank(s, keys, p[r + 1]) = r
      BY <1>2, <3>2
    <3>4. p[r + 1] = i
      BY <3>3, RanksAreTheirOwn
    <3>5. QED
      BY <1>6, <3>2, <3>4
  <2>4. Rank(s, keys, p[k]) < r
    BY <1>1, <2>1, <2>2, <2>3
  <2>5. QED
    BY <2>2, <2>4, RanksAreTheirOwn
<1>7. QED
  <2> HIDE DEF n, p
  <2> QED
    BY <1>1, <1>3, <1>4, <1>5, <1>6 DEF n
-----------------------------------------------------------------------------
(* g leads from each item of s to the one of the other sequence that it    *)
(* is: these indices, all of them, from the first to the last.             *)
Traces(g, s, other, keys) ==
  /\ g \in [DOMAIN s -> keys]
  /\ \A k \in DOMAIN s : s[k] = other[g[k]]
  /\ \A k, l \in DOMAIN s : k < l => g[k] < g[l]
  /\ \A i \in keys : \E k \in DOMAIN s : g[k] = i

(* f leads from each result to the reading that it is: readings at these   *)
(* indices, as many as the limit lets through, in the order of the answer, *)
(* and before those that are left out.                                     *)
Orders(f, s, other, keys, limit) ==
  /\ Len(s) = Smaller(limit, Cardinality(keys))
  /\ f \in [DOMAIN s -> keys]
  /\ \A k \in DOMAIN s : s[k] = other[f[k]]
  /\ \A k, l \in DOMAIN s : k < l => Before(other, f[k], f[l])
  /\ \A k \in DOMAIN s : \A i \in keys :
       (\A l \in DOMAIN s : f[l] # i) => Before(other, f[k], i)

LEMMA QueryTypes ==
  ASSUME NEW q \in QueryCalls
  PROVE  /\ q.limit \in Nat /\ q.start \in Int /\ q.end \in Int
         /\ q.op = "get_stats" => q.limit = StatsLimit
BY InMemoryAssumption

LEMMA IndicesAreFinite ==
  ASSUME NEW s \in Seq(Rows), NEW keys \in SUBSET DOMAIN s
  PROVE  /\ Dated(s, keys) /\ Cardinality(keys) \in Nat
         /\ Len(s) \in Nat /\ DOMAIN s = 1..Len(s)
<1>1. Len(s) \in Nat /\ DOMAIN s = 1..Len(s)
  BY LenProperties
<1>2. IsFiniteSet(1..Len(s))
  BY <1>1, FS_Interval
<1>3. IsFiniteSet(keys)
  BY <1>1, <1>2, FS_Subset
<1>4. \A i \in keys : TimeOf[s[i]] \in Int
  <2>1. \A i \in DOMAIN s : s[i] \in Rows
    BY ElementOfSeq, <1>1
  <2>2. QED
    BY <2>1, InMemoryAssumption
<1>5. keys \in SUBSET Nat
  BY <1>1
<1>6. QED
  BY <1>1, <1>3, <1>4, <1>5, FS_CardinalityType DEF Dated

(* The readings of a list that were scanned are answered like the list. *)
LEMMA AnswerOfTraced ==
  ASSUME NEW s \in Seq(Rows), NEW found \in Seq(Rows), NEW keys \in SUBSET DOMAIN s,
         NEW g, Traces(g, found, s, keys), NEW q \in QueryCalls
  PROVE  /\ Answer(found, q) \in Seq(Rows)
         /\ \E f : Orders(f, Answer(found, q), s, {i \in keys : Inside(s[i], q)}, q.limit)
<1> DEFINE kept == Kept(found, q)
           matching == {i \in keys : Inside(s[i], q)}
           h == [i \in kept |-> g[i]]
<1>1. /\ kept \in SUBSET DOMAIN found /\ DOMAIN found = 1..Len(found) /\ Len(found) \in Nat
      /\ Dated(found, kept) /\ Dated(s, matching) /\ Cardinality(kept) \in Nat
  BY IndicesAreFinite DEF Kept
<1>2. \A k \in DOMAIN found : k \in Nat /\ g[k] \in Nat /\ found[k] = s[g[k]]
  BY <1>1, IndicesAreFinite DEF Traces
<1>3. /\ \A i \in kept : g[i] \in matching
      /\ \A m \in matching : \E i \in kept : g[i] = m
      /\ \A i, j \in kept : g[i] = g[j] => i = j
  <2>1. ASSUME NEW i \in kept PROVE g[i] \in matching
    BY <1>2 DEF Traces, Kept
  <2>2. ASSUME NEW m \in matching PROVE \E i \in kept : g[i] = m
    <3>1. PICK i \in DOMAIN found : g[i] = m
      BY DEF Traces
    <3>2. i \in kept
      BY <1>2, <3>1 DEF Kept
    <3>3. QED
      BY <3>1, <3>2
  <2>3. ASSUME NEW i \in kept, NEW j \in kept, i # j PROVE g[i] # g[j]
    <3>1. i < j \/ j < i
      BY <1>1, <2>3
    <3>2. g[i] < g[j] \/ g[j] < g[i]
      BY <1>1, <3>1 DEF Traces
    <3>3. QED
      BY <1>1, <1>2, <3>2
  <2>4. QED
    BY <2>1, <2>2, <2>3
<1>4. Cardinality(matching) = Cardinality(kept)
  <2>1. h \in Bijection(kept, matching)
    BY <1>3 DEF Bijection, Injection, IsInjective, Surjection
  <2>2. ExistsBijection(kept, matching)
    BY <2>1 DEF ExistsBijection
  <2>3. QED
    BY <1>1, <2>2, FS_Bijection DEF Dated
<1>5. PICK n \in Nat : \E p \in [1..n -> kept] :
           /\ n = Smaller(q.limit, Cardinality(kept))
           /\ Newest(found, kept, q.limit) = [k \in 1..n |-> found[p[k]]]
           /\ \A k, l \in 1..n : k < l => Before(found, p[k], p[l])
           /\ \A k \in 1..n : \A i \in kept :
                (\A l \in 1..n : p[l] # i) => Before(found, p[k], i)
  BY <1>1, QueryTypes, NewestComeFirst
<1>6. PICK p \in [1..n -> kept] :
           /\ n = Smaller(q.limit, Cardinality(kept))
           /\ Newest(found, kept, q.limit) = [k \in 1..n |-> found[p[k]]]
           /\ \A k, l \in 1..n : k < l => Before(found, p[k], p[l])
           /\ \A k \in 1..n : \A i \in kept :
                (\A l \in 1..n : p[l] # i) => Before(found, p[k], i)
  BY <1>5
<1> DEFINE answer == Answer(found, q)
           f == [k \in 1..n |-> g[p[k]]]
<1>7. answer = [k \in 1..n |-> found[p[k]]]
  BY <1>6 DEF Answer
<1>8. /\ answer \in Seq(Rows) /\ DOMAIN answer = 1..n /\ Len(answer) = n
      /\ \A k \in 1..n : answer[k] = found[p[k]]
  <2>1. \A k \in 1..n : found[p[k]] \in Rows
    <3>1. \A i \in 1..Len(found) : found[i] \in Rows
      BY ElementOfSeq
    <3>2. QED
      BY <1>1, <3>1
  <2>2. [k \in 1..n |-> found[p[k]]] \in [1..n -> Rows]
    BY <2>1
  <2>3. [k \in 1..n |-> found[p[k]]] \in Seq(Rows)
    BY <2>2, SeqDef
  <2>4. Len(answer) = n
    BY <1>7, <2>3, LenProperties
  <2>5. QED
    BY <1>7, <2>3, <2>4
<1>9. ASSUME NEW i \in kept, NEW j \in kept, Before(found, i, j)
      PROVE  Before(s, g[i], g[j])
  <2>1. found[i] = s[g[i]] /\ found[j] = s[g[j]] /\ (i < j => g[i] < g[j])
    BY <1>1, <1>2 DEF Traces
  <2>2. QED
    BY <1>9, <2>1 DEF Before
<1>10. ASSUME NEW k \in 1..n, NEW m \in matching, \A l \in 1..n : f[l] # m
       PROVE  Before(s, f[k], m)
  <2>1. PICK i \in kept : g[i] = m
    BY <1>3
  <2>2. \A l \in 1..n : p[l] # i
    BY <1>10, <2>1
  <2>3. Before(found, p[k], i)
    BY <1>6, <2>2
  <2>4. QED
    BY <1>9, <2>1, <2>3
<1>11. Orders(f, answer, s, matching, q.limit)
  <2>1. f \in [1..n -> matching]
    BY <1>3
  <2>2. \A k \in 1..n : answer[k] = s[f[k]]
    BY <1>1, <1>2, <1>8
  <2>3. \A k, l \in 1..n : k < l => Before(s, f[k], f[l])
    BY <1>6, <1>9
  <2>4. Len(answer) = Smaller(q.limit, Cardinality(matching))
    BY <1>4, <1>6, <1>8
  <2>5. QED
    <3> HIDE DEF f, answer, matching, kept
    <3> QED
      BY <1>8, <1>10, <2>1, <2>2, <2>3, <2>4 DEF Orders
<1>12. QED
  BY <1>8, <1>11
-----------------------------------------------------------------------------
(* What an answer in this order is worth: nothing is made up or repeated,  *)
(* what is left out is no newer, and ties keep their order.                *)
LEMMA OrdersArePlaces ==
  ASSUME NEW s \in Seq(Rows), NEW other \in Seq(Rows), NEW keys \in SUBSET DOMAIN other,
         NEW limit \in Nat, NEW f, Orders(f, s, other, keys, limit)
  PROVE  /\ f \in Injection(DOMAIN s, keys)
         /\ DOMAIN s = 1..Len(s) /\ Len(s) \in Nat
         /\ \A k \in DOMAIN s : /\ f[k] \in keys /\ f[k] \in Nat
                                /\ TimeOf[s[k]] \in Int /\ TimeOf[s[k]] = TimeOf[other[f[k]]]
         /\ \A i \in keys : i \in Nat /\ TimeOf[other[i]] \in Int
<1>1. Dated(other, keys) /\ Len(s) \in Nat /\ DOMAIN s = 1..Len(s)
  BY IndicesAreFinite
<1>2. ASSUME NEW k \in DOMAIN s, NEW l \in DOMAIN s, k # l PROVE f[k] # f[l]
  <2>1. k < l \/ l < k
    BY <1>1, <1>2
  <2>2. Before(other, f[k], f[l]) \/ Before(other, f[l], f[k])
    BY <2>1 DEF Orders
  <2>3. f[k] \in keys
    BY DEF Orders
  <2>4. QED
    BY <1>1, <2>2, <2>3, BeforeIsAnOrder
<1>3. f \in Injection(DOMAIN s, keys)
  BY <1>2 DEF Orders, Injection, IsInjective
<1>4. \A k \in DOMAIN s : f[k] \in keys /\ s[k] = other[f[k]]
  BY DEF Orders
<1>5. QED
  BY <1>1, <1>3, <1>4 DEF Dated

LEMMA OrdersAreNewest ==
  ASSUME NEW s \in Seq(Rows), NEW other \in Seq(Rows), NEW keys \in SUBSET DOMAIN other,
         NEW limit \in Nat, NEW f, Orders(f, s, other, keys, limit)
  PROVE  /\ \A k, l \in DOMAIN s : k < l => TimeOf[s[k]] >= TimeOf[s[l]]
         /\ \A k \in DOMAIN f, i \in keys \ Range(f) : TimeOf[s[k]] >= TimeOf[other[i]]
<1>1. /\ f \in Injection(DOMAIN s, keys)
      /\ DOMAIN s = 1..Len(s) /\ Len(s) \in Nat
      /\ \A k \in DOMAIN s : /\ f[k] \in keys /\ f[k] \in Nat
                             /\ TimeOf[s[k]] \in Int /\ TimeOf[s[k]] = TimeOf[other[f[k]]]
      /\ \A i \in keys : i \in Nat /\ TimeOf[other[i]] \in Int
  BY OrdersArePlaces
<1>2. DOMAIN f = DOMAIN s
  BY DEF Orders
<1>3. ASSUME NEW k \in DOMAIN s, NEW i \in keys, Before(other, f[k], i)
      PROVE  TimeOf[s[k]] >= TimeOf[other[i]]
  BY <1>1, <1>3 DEF Before
<1>4. ASSUME NEW k \in DOMAIN s, NEW l \in DOMAIN s, k < l
      PROVE  TimeOf[s[k]] >= TimeOf[s[l]]
  <2>1. Before(other, f[k], f[l])
    BY <1>4 DEF Orders
  <2>2. QED
    BY <1>1, <1>3, <2>1
<1>5. ASSUME NEW k \in DOMAIN f, NEW i \in keys \ Range(f)
      PROVE  TimeOf[s[k]] >= TimeOf[other[i]]
  <2>1. \A l \in DOMAIN s : f[l] # i
    BY <1>2, <1>5 DEF Range
  <2>2. Before(other, f[k], i)
    BY <1>2, <2>1 DEF Orders
  <2>3. QED
    BY <1>2, <1>3, <2>2
<1>6. QED
  BY <1>4, <1>5

LEMMA OrdersTies ==
  ASSUME NEW s \in Seq(Rows), NEW other \in Seq(Rows), NEW keys \in SUBSET DOMAIN other,
         NEW limit \in Nat, NEW f, Orders(f, s, other, keys, limit)
  PROVE  \A k \in DOMAIN f, i \in keys :
           i < f[k] /\ TimeOf[other[i]] = TimeOf[s[k]] => \E l \in DOMAIN f : l < k /\ f[l] = i
<1>1. Dated(other, keys)
  BY IndicesAreFinite
<1>2. /\ f \in Injection(DOMAIN s, keys)
      /\ DOMAIN s = 1..Len(s) /\ Len(s) \in Nat
      /\ \A k \in DOMAIN s : /\ f[k] \in keys /\ f[k] \in Nat
                             /\ TimeOf[s[k]] \in Int /\ TimeOf[s[k]] = TimeOf[other[f[k]]]
      /\ \A i \in keys : i \in Nat /\ TimeOf[other[i]] \in Int
  BY OrdersArePlaces
<1>3. DOMAIN f = DOMAIN s
  BY DEF Orders
<1> SUFFICES ASSUME NEW k \in DOMAIN s, NEW i \in keys,
                    i < f[k], TimeOf[other[i]] = TimeOf[s[k]]
             PROVE  \E l \in DOMAIN s : l < k /\ f[l] = i
  BY <1>3
<1>4. Before(other, i, f[k])
  BY <1>2 DEF Before
<1>5. f[k] \in keys /\ ~Before(other, f[k], i)
  BY <1>1, <1>2, <1>4, BeforeIsAnOrder
<1>6. PICK l \in DOMAIN s : f[l] = i
  BY <1>5 DEF Orders
<1>7. ~(k < l)
  BY <1>5, <1>6 DEF Orders
<1>8. l # k
  BY <1>2, <1>6
<1>9. QED
  BY <1>2, <1>6, <1>7, <1>8

LEMMA SizeOfInterval ==
  ASSUME NEW n \in Nat
  PROVE  IsFiniteSet(1..n) /\ Cardinality(1..n) = n
<1>1. /\ IsFiniteSet(1..n)
      /\ Cardinality(1..n) = IF 1 > n THEN 0 ELSE n - 1 + 1
  BY FS_Interval
<1>2. QED
  BY <1>1

(* A time that a reading has and no other one exceeds is the last one. *)
LEMMA LastTime ==
  ASSUME NEW s, NEW keys, \A i \in keys : TimeOf[s[i]] \in Int, NEW first \in keys,
         \A i \in keys : TimeOf[s[first]] >= TimeOf[s[i]]
  PROVE  Statistics(s, keys).end = {TimeOf[s[first]]}
<1> DEFINE last == {i \in keys : \A j \in keys : TimeOf[s[i]] >= TimeOf[s[j]]}
<1>1. first \in last
  OBVIOUS
<1>2. \A i \in last : TimeOf[s[i]] = TimeOf[s[first]]
  OBVIOUS
<1>3. {TimeOf[s[i]] : i \in last} = {TimeOf[s[first]]}
  <2> HIDE DEF last
  <2> QED
    BY <1>1, <1>2
<1>4. QED
  BY <1>3 DEF Statistics

(* Without a limit in the way, the statistics of the results are those of  *)
(* the readings.                                                           *)
LEMMA StatisticsOfAll ==
  ASSUME NEW s \in Seq(Rows), NEW other \in Seq(Rows), NEW keys \in SUBSET DOMAIN other,
         NEW limit \in Nat, NEW f, Orders(f, s, other, keys, limit),
         Cardinality(keys) <= limit
  PROVE  Statistics(s, DOMAIN s) = Statistics(other, keys)
<1> DEFINE items == DOMAIN s
           odd == {k \in items : s[k] \in Anomalous}
           odd2 == {i \in keys : other[i] \in Anomalous}
<1>1. /\ Cardinality(keys) \in Nat /\ IsFiniteSet(keys)
      /\ items = 1..Len(s) /\ Len(s) \in Nat
  BY IndicesAreFinite DEF Dated
<1>2. IsFiniteSet(items) /\ Cardinality(items) = Len(s)
  BY <1>1, SizeOfInterval
<1>3. Len(s) = Cardinality(keys)
  BY <1>1 DEF Orders, Smaller
<1>4. /\ f \in Injection(items, keys)
      /\ \A k \in items : f[k] \in keys /\ s[k] = other[f[k]]
  BY OrdersArePlaces DEF Orders
<1>5. \A i \in keys : \E k \in items : f[k] = i
  <2>1. f \in Surjection(items, keys)
    BY <1>1, <1>2, <1>3, <1>4, FS_Injection
  <2>2. QED
    BY <2>1 DEF Surjection
<1>6. Cardinality(odd) = Cardinality(odd2)
  <2> DEFINE h == [k \in odd |-> f[k]]
  <2>1. \A k \in odd : f[k] \in odd2
    BY <1>4
  <2>2. \A i \in odd2 : \E k \in odd : f[k] = i
    BY <1>4, <1>5
  <2>3. \A k, l \in odd : f[k] = f[l] => k = l
    BY <1>4 DEF Injection, IsInjective
  <2>4. h \in Bijection(odd, odd2)
    BY <2>1, <2>2, <2>3 DEF Bijection, Injection, IsInjective, Surjection
  <2>5. IsFiniteSet(odd)
    BY <1>2, FS_Subset
  <2>6. ExistsBijection(odd, odd2)
    BY <2>4 DEF ExistsBijection
  <2>7. QED
    BY <2>5, <2>6, FS_Bijection
<1>7. {TimeOf[s[k]] : k \in {k \in items : \A l \in items : TimeOf[s[k]] <= TimeOf[s[l]]}}
        = {TimeOf[other[i]] : i \in {i \in keys : \A j \in keys : TimeOf[other[i]] <= TimeOf[other[j]]}}
  <2> HIDE DEF items
  <2> QED
    BY <1>4, <1>5
<1>8. {TimeOf[s[k]] : k \in {k \in items : \A l \in items : TimeOf[s[k]] >= TimeOf[s[l]]}}
        = {TimeOf[other[i]] : i \in {i \in keys : \A j \in keys : TimeOf[other[i]] >= TimeOf[other[j]]}}
  <2> HIDE DEF items
  <2> QED
    BY <1>4, <1>5
<1>9. QED
  BY <1>2, <1>3, <1>6, <1>7, <1>8 DEF Statistics

(* With one, they are those of as many readings, the last one among them.  *)
LEMMA StatisticsOfSome ==
  ASSUME NEW s \in Seq(Rows), NEW other \in Seq(Rows), NEW keys \in SUBSET DOMAIN other,
         NEW limit \in Nat \ {0}, NEW f, Orders(f, s, other, keys, limit),
         ~(Cardinality(keys) <= limit)
  PROVE  /\ Statistics(s, DOMAIN s).count = limit
         /\ Statistics(s, DOMAIN s).end = Statistics(other, keys).end
<1>1. /\ Cardinality(keys) \in Nat
      /\ DOMAIN s = 1..Len(s) /\ Len(s) \in Nat
      /\ \A k \in DOMAIN s : /\ f[k] \in keys
                             /\ TimeOf[s[k]] \in Int /\ TimeOf[s[k]] = TimeOf[other[f[k]]]
      /\ \A i \in keys : i \in Nat /\ TimeOf[other[i]] \in Int
  <2>1. Cardinality(keys) \in Nat /\ limit \in Nat
    BY IndicesAreFinite
  <2>2. /\ f \in Injection(DOMAIN s, keys)
        /\ DOMAIN s = 1..Len(s) /\ Len(s) \in Nat
        /\ \A k \in DOMAIN s : /\ f[k] \in keys /\ f[k] \in Nat
                               /\ TimeOf[s[k]] \in Int /\ TimeOf[s[k]] = TimeOf[other[f[k]]]
        /\ \A i \in keys : i \in Nat /\ TimeOf[other[i]] \in Int
    BY <2>1, OrdersArePlaces
  <2>3. QED
    BY <2>1, <2>2
<1>2. Len(s) = limit
  BY <1>1 DEF Orders, Smaller
<1>3. Statistics(s, DOMAIN s).count = limit
  BY <1>1, <1>2, SizeOfInterval DEF Statistics
<1>4. 1 \in DOMAIN s
  BY <1>1, <1>2
<1>5. \A i \in keys : TimeOf[other[f[1]]] >= TimeOf[other[i]]
  <2> SUFFICES ASSUME NEW i \in keys PROVE TimeOf[other[f[1]]] >= TimeOf[other[i]]
    OBVIOUS
  <2>1. CASE \A l \in DOMAIN s : f[l] # i
    <3>1. Before(other, f[1], i)
      BY <1>4, <2>1 DEF Orders
    <3>2. QED
      BY <1>1, <1>4, <3>1 DEF Before
  <2>2. CASE \E l \in DOMAIN s : f[l] = i
    <3>1. PICK l \in DOMAIN s : f[l] = i
      BY <2>2
    <3>2. l = 1 \/ 1 < l
      BY <1>1
    <3>3. l = 1 \/ Before(other, f[1], i)
      BY <1>4, <3>1, <3>2 DEF Orders
    <3>4. QED
      BY <1>1, <1>4, <3>1, <3>3 DEF Before
  <2>3. QED
    BY <2>1, <2>2
<1>6. \A k \in DOMAIN s : TimeOf[s[1]] >= TimeOf[s[k]]
  BY <1>1, <1>4, <1>5
<1>7. Statistics(other, keys).end = {TimeOf[other[f[1]]]}
  BY <1>1, <1>4, <1>5, LastTime
<1>8. Statistics(s, DOMAIN s).end = {TimeOf[s[1]]}
  <2>1. \A k \in DOMAIN s : TimeOf[s[k]] \in Int
    BY <1>1
  <2>2. QED
    BY <1>4, <1>6, <2>1, LastTime
<1>9. QED
  BY <1>1, <1>3, <1>4, <1>7, <1>8
-----------------------------------------------------------------------------
(* What a query has found while it scans, and what it then answers.  Of a  *)
(* list that others only extend, it has found all it has passed.           *)
OfSensor(c) == {i \in 1..at[c] : SensorOf[readings[i]] = query[c].sensor}

Scanning(c) ==
  pc[c] = "scan" =>
    at[c] <= Len(readings) /\ \E g : Traces(g, results[c], readings, OfSensor(c))

Answering(c) ==
  c \in Answered =>
    \E f : Orders(f, results[c], snapshot[c], Matching(c), query[c].limit)

Asked ==
  /\ query \in [Clients -> QueryCalls]
  /\ at \in [Clients -> Nat]
  /\ results \in [Clients -> Seq(Rows)]
  /\ calls \in 0..MaxCalls

LEMMA AnsweringStays ==
  ASSUME NEW c \in Clients, Answering(c),
         UNCHANGED <<pc[c], call[c], query[c], results[c], snapshot[c]>>
  PROVE  Answering(c)'
BY DEF Answering, Answered, Matching

LEMMA ScanningStays ==
  ASSUME Begun, Asked, NEW c \in Clients, Scanning(c),
         UNCHANGED <<pc[c], query[c], results[c], at[c]>>,
         pc[c] = "scan" => /\ Len(readings') \in Nat /\ Len(readings) <= Len(readings')
                           /\ \A i \in 1..Len(readings) : readings'[i] = readings[i]
  PROVE  Scanning(c)'
<1> SUFFICES ASSUME pc[c] = "scan" PROVE Scanning(c)'
  BY DEF Scanning
<1>1. at[c] \in Nat /\ at[c] <= Len(readings) /\ Len(readings) \in Nat
  BY LenProperties DEF Scanning, Begun, Asked
<1>2. \A i \in 1..at[c] : readings'[i] = readings[i]
  BY <1>1
<1>3. OfSensor(c)' = OfSensor(c)
  BY <1>2 DEF OfSensor
<1>4. PICK g : Traces(g, results[c], readings, OfSensor(c))
  BY DEF Scanning
<1>5. \A k \in DOMAIN results[c] : g[k] \in 1..at[c]
  BY <1>4 DEF Traces, OfSensor
<1>6. Traces(g, results[c]', readings', OfSensor(c)')
  BY <1>2, <1>3, <1>4, <1>5 DEF Traces
<1>7. at'[c] <= Len(readings')
  BY <1>1
<1>8. QED
  BY <1>6, <1>7 DEF Scanning

(* The scan goes on by one reading. *)
LEMMA ScanNextTraces ==
  ASSUME Begun, Asked, NEW c \in Clients, Scanning(c), ScanNext(c)
  PROVE  Scanning(c)'
<1> DEFINE r == readings[at[c] + 1]
           found == results[c]
           fits == SensorOf[r] = query[c].sensor
<1>1. /\ pc[c] = "scan" /\ at[c] \in Nat /\ at[c] < Len(readings) /\ Len(readings) \in Nat
      /\ at'[c] = at[c] + 1
      /\ UNCHANGED <<readings, query>>
      /\ found \in Seq(Rows) /\ r \in Rows
      /\ results'[c] = IF fits THEN Append(found, r) ELSE found
  <2>1. readings \in Seq(Rows) /\ at[c] \in Nat /\ at[c] < Len(readings)
    BY DEF Begun, Asked, ScanNext
  <2>2. Len(readings) \in Nat /\ at[c] + 1 \in 1..Len(readings)
    BY <2>1, LenProperties
  <2>3. r \in Rows
    BY <2>1, <2>2, ElementOfSeq
  <2>4. QED
    BY <2>1, <2>2, <2>3 DEF ScanNext, Asked, client
<1>2. PICK g : Traces(g, found, readings, OfSensor(c))
  BY <1>1 DEF Scanning
<1>3. OfSensor(c)' = OfSensor(c) \union (IF fits THEN {at[c] + 1} ELSE {})
  BY <1>1 DEF OfSensor
<1>4. DOMAIN found = 1..Len(found) /\ Len(found) \in Nat
  BY <1>1, LenProperties
<1>5. \A k \in DOMAIN found : g[k] \in OfSensor(c) /\ g[k] \in 1..at[c]
  BY <1>2 DEF Traces, OfSensor
<1>6. CASE fits
  <2> DEFINE n == Len(found) + 1
             g2 == [k \in 1..n |-> IF k = n THEN at[c] + 1 ELSE g[k]]
             s == Append(found, r)
  <2>1. /\ DOMAIN s = 1..n /\ s[n] = r
        /\ \A k \in 1..Len(found) : s[k] = found[k]
    BY <1>1, <1>4, AppendProperties
  <2>2. 1..n = (1..Len(found)) \union {n} /\ n \notin 1..Len(found)
    BY <1>4
  <2>3. g2[n] = at[c] + 1 /\ \A k \in 1..Len(found) : g2[k] = g[k]
    BY <2>2
  <2>4. g2 \in [DOMAIN s -> OfSensor(c)']
    BY <1>3, <1>4, <1>5, <1>6, <2>1, <2>2
  <2>5. \A k \in DOMAIN s : s[k] = readings[g2[k]]
    BY <1>2, <1>4, <2>1, <2>2, <2>3 DEF Traces
  <2>6. ASSUME NEW k \in DOMAIN s, NEW l \in DOMAIN s, k < l PROVE g2[k] < g2[l]
    <3>1. k \in 1..Len(found)
      BY <1>4, <2>1, <2>6
    <3>2. g2[k] = g[k] /\ g[k] \in 1..at[c]
      BY <1>4, <1>5, <2>3, <3>1
    <3>3. CASE l = n
      BY <1>1, <2>3, <3>2, <3>3
    <3>4. CASE l \in 1..Len(found)
      BY <1>2, <1>4, <2>3, <2>6, <3>1, <3>4 DEF Traces
    <3>5. QED
      BY <2>1, <2>2, <3>3, <3>4
  <2>7. ASSUME NEW i \in OfSensor(c)' PROVE \E k \in DOMAIN s : g2[k] = i
    <3>1. CASE i = at[c] + 1
      BY <2>1, <2>2, <2>3, <3>1
    <3>2. CASE i \in OfSensor(c)
      <4>1. PICK k \in DOMAIN found : g[k] = i
        BY <1>2, <3>2 DEF Traces
      <4>2. k \in DOMAIN s /\ g2[k] = i
        BY <1>4, <2>1, <2>2, <2>3, <4>1
      <4>3. QED
        BY <4>2
    <3>3. QED
      BY <1>3, <1>6, <3>1, <3>2
  <2>8. Traces(g2, s, readings, OfSensor(c)')
    <3> HIDE DEF g2, s
    <3> QED
      BY <2>4, <2>5, <2>6, <2>7 DEF Traces
  <2>9. results'[c] = s
    BY <1>1, <1>6
  <2>10. QED
    <3> HIDE DEF g2, s, r
    <3> QED
      BY <1>1, <2>8, <2>9 DEF Scanning
<1>7. CASE ~fits
  <2>1. results'[c] = found /\ OfSensor(c)' = OfSensor(c)
    BY <1>1, <1>3, <1>7
  <2>2. QED
    BY <1>1, <1>2, <2>1 DEF Scanning
<1>8. QED
  BY <1>6, <1>7

(* It ends at the end of the list, with what is stored there and then. *)
LEMMA ScanEndAnswers ==
  ASSUME Begun, Asked, NEW c \in Clients, Scanning(c), ScanEnd(c)
  PROVE  Scanning(c)' /\ Answering(c)' /\ results'[c] \in Seq(Rows)
<1>1. /\ pc[c] = "scan" /\ at[c] >= Len(readings)
      /\ pc'[c] = "return"
      /\ UNCHANGED <<readings, query>>
      /\ results'[c] = Answer(results[c], query[c])
      /\ snapshot'[c] = readings
  BY DEF ScanEnd, Step, Begun, Asked, client
<1>2. /\ readings \in Seq(Rows) /\ results[c] \in Seq(Rows) /\ query[c] \in QueryCalls
      /\ Len(readings) \in Nat /\ DOMAIN readings = 1..Len(readings) /\ at[c] \in Nat
  BY LenProperties DEF Begun, Asked
<1>3. at[c] = Len(readings)
  BY <1>1, <1>2 DEF Scanning
<1>4. PICK g : Traces(g, results[c], readings, OfSensor(c))
  BY <1>1 DEF Scanning
<1>5. OfSensor(c) \in SUBSET DOMAIN readings
  BY <1>2, <1>3 DEF OfSensor
<1>6. Matching(c)' = {i \in OfSensor(c) : Inside(readings[i], query[c])}
  BY <1>1, <1>2, <1>3 DEF Matching, OfSensor, Inside
<1>7. /\ Answer(results[c], query[c]) \in Seq(Rows)
      /\ \E f : Orders(f, Answer(results[c], query[c]), readings,
                       {i \in OfSensor(c) : Inside(readings[i], query[c])}, query[c].limit)
  BY <1>2, <1>4, <1>5, AnswerOfTraced
<1>8. Answering(c)'
  BY <1>1, <1>6, <1>7 DEF Answering
<1>9. QED
  BY <1>1, <1>7, <1>8 DEF Scanning
-----------------------------------------------------------------------------
LEMMA AskedStep ==
  ASSUME Begun, Asked, \A c \in Clients : Scanning(c), [Next]_vars
  PROVE  Asked'
<1> USE DEF Asked, Step, client
<1>1. ASSUME NEW c \in Clients, NEW op, NEW to, Begin(c, op, to) PROVE calls' \in 0..MaxCalls
  BY <1>1, InMemoryAssumption DEF Begin
<1>2. ASSUME NEW c \in Clients, Save(c) \/ SaveBatch(c) PROVE Asked'
  BY <1>1, <1>2 DEF Save, SaveBatch, BeginWrite
<1>3. ASSUME NEW c \in Clients, Query(c) PROVE Asked'
  BY <1>1, <1>3 DEF Query
<1>4. ASSUME NEW c \in Clients, ScanNext(c) PROVE Asked'
  <2>1. readings \in Seq(Rows) /\ at[c] \in Nat /\ at[c] < Len(readings)
    BY <1>4 DEF Begun, ScanNext
  <2>2. Len(readings) \in Nat /\ at[c] + 1 \in 1..Len(readings)
    BY <2>1, LenProperties
  <2>3. readings[at[c] + 1] \in Rows
    BY <2>1, <2>2, ElementOfSeq
  <2>4. Append(results[c], readings[at[c] + 1]) \in Seq(Rows)
    BY <2>3, AppendProperties
  <2>5. QED
    BY <1>4, <2>4 DEF ScanNext
<1>5. ASSUME NEW c \in Clients, ScanEnd(c) PROVE Asked'
  <2>1. results'[c] \in Seq(Rows)
    BY <1>5, ScanEndAnswers
  <2>2. QED
    BY <1>5, <2>1 DEF ScanEnd
<1>6. ASSUME NEW c \in Clients, Write(c) \/ Return(c) PROVE Asked'
  BY <1>6 DEF Write, Return
<1>7. CASE ClearBetweenScans \/ UNCHANGED vars
  BY <1>7 DEF ClearBetweenScans, Clear, vars
<1>8. QED
  BY <1>2, <1>3, <1>4, <1>5, <1>6, <1>7 DEF Next

(* Nobody else's step disturbs a scan or an answer, and its own steps lead *)
(* from the one to the other.                                              *)
Inv ==
  /\ Begun /\ Asked
  /\ \A c \in Clients : Scanning(c) /\ Answering(c)

(* A client whose variables a step leaves alone keeps what it has. *)
LEMMA OthersStay ==
  ASSUME Inv, NEW d \in Clients, UNCHANGED <<query[d], results[d], snapshot[d], at[d]>>,
         UNCHANGED <<pc[d], call[d]>>,
         \/ UNCHANGED readings
         \/ \E b \in Seq(Rows) : readings' = readings \o b
         \/ pc[d] # "scan"
  PROVE  Scanning(d)' /\ Answering(d)'
<1>1. readings \in Seq(Rows) /\ Len(readings) \in Nat
  BY LenProperties DEF Inv, Begun
<1>2. pc[d] = "scan" => /\ Len(readings') \in Nat /\ Len(readings) <= Len(readings')
                        /\ \A i \in 1..Len(readings) : readings'[i] = readings[i]
  <2>1. ASSUME NEW b \in Seq(Rows), readings' = readings \o b
        PROVE  /\ Len(readings') \in Nat /\ Len(readings) <= Len(readings')
               /\ \A i \in 1..Len(readings) : readings'[i] = readings[i]
    <3>1. Len(b) \in Nat
      BY LenProperties
    <3>2. /\ Len(readings \o b) = Len(readings) + Len(b)
          /\ \A i \in 1..Len(readings) + Len(b) :
               (readings \o b)[i] = IF i <= Len(readings) THEN readings[i] ELSE b[i - Len(readings)]
      BY <1>1, ConcatProperties
    <3>3. \A i \in 1..Len(readings) : i \in 1..Len(readings) + Len(b) /\ i <= Len(readings)
      BY <1>1, <3>1
    <3>4. QED
      BY <1>1, <2>1, <3>1, <3>2, <3>3
  <2>2. CASE UNCHANGED readings
    BY <1>1, <2>2
  <2>3. QED
    BY <2>1, <2>2
<1>3. QED
  BY <1>2, ScanningStays, AnsweringStays DEF Inv

LEMMA InvStep ==
  ASSUME Inv, [Next]_vars
  PROVE  Inv'
<1>1. Begun' /\ Asked'
  BY BegunStep, AskedStep DEF Inv
<1> SUFFICES ASSUME NEW d \in Clients PROVE Scanning(d)' /\ Answering(d)'
  BY <1>1 DEF Inv
<1> USE DEF Step, client
<1>2. ASSUME NEW c \in Clients, NEW op \in {"save", "save_batch"}, NEW rs, BeginWrite(c, op, rs)
      PROVE  Scanning(d)' /\ Answering(d)'
  <2>1. CASE d = c
    <3>1. pc'[c] = "write"
      BY <1>2 DEF BeginWrite, Begin, Inv, Begun
    <3>2. QED
      BY <2>1, <3>1 DEF Scanning, Answering, Answered
  <2>2. CASE d # c
    <3>1. UNCHANGED <<query[d], results[d], snapshot[d], at[d], pc[d], call[d]>> /\ UNCHANGED readings
      BY <1>2, <2>2 DEF BeginWrite, Begin, Inv, Begun
    <3>2. QED
      BY <3>1, OthersStay
  <2>3. QED
    BY <2>1, <2>2
<1>3. ASSUME NEW c \in Clients, Save(c) \/ SaveBatch(c) PROVE Scanning(d)' /\ Answering(d)'
  BY <1>2, <1>3 DEF Save, SaveBatch
<1>4. ASSUME NEW c \in Clients, Query(c) PROVE Scanning(d)' /\ Answering(d)'
  <2>1. CASE d = c
    <3>1. pc'[c] = "scan" /\ at'[c] = 0 /\ results'[c] = <<>> /\ UNCHANGED readings
      BY <1>4 DEF Query, Begin, Inv, Begun, Asked
    <3>2. Len(readings') \in Nat
      BY <3>1, LenProperties DEF Inv, Begun
    <3>3. OfSensor(c)' = {}
      BY <3>1 DEF OfSensor
    <3>4. Traces(<<>>, results'[c], readings', OfSensor(c)')
      BY <3>1, <3>3 DEF Traces
    <3>5. QED
      BY <2>1, <3>1, <3>2, <3>4 DEF Scanning, Answering, Answered
  <2>2. CASE d # c
    <3>1. UNCHANGED <<query[d], results[d], snapshot[d], at[d], pc[d], call[d]>> /\ UNCHANGED readings
      BY <1>4, <2>2 DEF Query, Begin, Inv, Begun, Asked
    <3>2. QED
      BY <3>1, OthersStay
  <2>3. QED
    BY <2>1, <2>2
<1>5. ASSUME NEW c \in Clients, Write(c) PROVE Scanning(d)' /\ Answering(d)'
  <2>1. CASE d = c
    <3>1. pc'[c] = "return" /\ call'[c] # "query"
      BY <1>5 DEF Write, Inv, Begun
    <3>2. QED
      BY <2>1, <3>1 DEF Scanning, Answering, Answered
  <2>2. CASE d # c
    <3>1. UNCHANGED <<query[d], results[d], snapshot[d], at[d], pc[d], call[d]>>
      BY <1>5, <2>2 DEF Write, Inv, Begun
    <3>2. batch[c] \in Seq(Rows) /\ readings' = readings \o batch[c]
      BY <1>5 DEF Write, Inv, Begun
    <3>3. QED
      BY <3>1, <3>2, OthersStay
  <2>3. QED
    BY <2>1, <2>2
<1>6. ASSUME NEW c \in Clients, ScanNext(c) PROVE Scanning(d)' /\ Answering(d)'
  <2>1. CASE d = c
    <3>1. pc'[c] = "scan"
      BY <1>6 DEF ScanNext
    <3>2. Scanning(c)'
      BY <1>6, ScanNextTraces DEF Inv
    <3>3. QED
      BY <2>1, <3>1, <3>2 DEF Answering, Answered
  <2>2. CASE d # c
    <3>1. UNCHANGED <<query[d], results[d], snapshot[d], at[d], pc[d], call[d]>> /\ UNCHANGED readings
      BY <1>6, <2>2 DEF ScanNext, Inv, Asked
    <3>2. QED
      BY <3>1, OthersStay
  <2>3. QED
    BY <2>1, <2>2
<1>7. ASSUME NEW c \in Clients, ScanEnd(c) PROVE Scanning(d)' /\ Answering(d)'
  <2>1. CASE d = c
    BY <1>7, <2>1, ScanEndAnswers DEF Inv
  <2>2. CASE d # c
    <3>1. UNCHANGED <<query[d], results[d], snapshot[d], at[d], pc[d], call[d]>> /\ UNCHANGED readings
      BY <1>7, <2>2 DEF ScanEnd, Inv, Begun, Asked
    <3>2. QED
      BY <3>1, OthersStay
  <2>3. QED
    BY <2>1, <2>2
<1>8. ASSUME NEW c \in Clients, Return(c) PROVE Scanning(d)' /\ Answering(d)'
  <2>1. CASE d = c
    <3>1. pc'[c] = "idle"
      BY <1>8 DEF Return, Inv, Begun
    <3>2. QED
      BY <2>1, <3>1 DEF Scanning, Answering, Answered
  <2>2. CASE d # c
    <3>1. UNCHANGED <<query[d], results[d], snapshot[d], at[d], pc[d], call[d]>> /\ UNCHANGED readings
      BY <1>8, <2>2 DEF Return, Inv, Begun
    <3>2. QED
      BY <3>1, OthersStay
  <2>3. QED
    BY <2>1, <2>2
<1>9. CASE ClearBetweenScans
  <2>1. UNCHANGED <<query[d], results[d], snapshot[d], at[d], pc[d], call[d]>> /\ pc[d] # "scan"
    BY <1>9 DEF ClearBetweenScans, Clear
  <2>2. QED
    BY <2>1, OthersStay
<1>10. CASE UNCHANGED vars
  <2>1. UNCHANGED <<query[d], results[d], snapshot[d], at[d], pc[d], call[d]>> /\ UNCHANGED readings
    BY <1>10 DEF vars
  <2>2. QED
    BY <2>1, OthersStay
<1>11. QED
  BY <1>3, <1>4, <1>5, <1>6, <1>7, <1>8, <1>9, <1>10 DEF Next

LEMMA InvAlways == Spec => []Inv
<1>1. ASSUME Init PROVE Inv
  <2>1. Begun
    BY <1>1, BatchTypes DEF Init, Begun
  <2>2. (CHOOSE q \in QueryCalls : TRUE) \in QueryCalls
    BY InMemoryAssumption
  <2>3. 0 \in 0..MaxCalls /\ 0 \in Nat
    BY InMemoryAssumption
  <2>4. Asked
    BY <1>1, <2>2, <2>3, BatchTypes DEF Init, Asked
  <2>5. \A c \in Clients : Scanning(c) /\ Answering(c)
    BY <1>1 DEF Init, Scanning, Answering, Answered
  <2>6. QED
    BY <2>1, <2>4, <2>5 DEF Inv
<1>2. QED
  BY <1>1, InvStep, PTL DEF Spec

(* The list, and what each client has found and returned, are readings     *)
(* (SensorReading objects), whatever the queries ask for.                  *)
THEOREM TypeCorrect == Spec => []TypeOK
<1>1. Inv => TypeOK
  BY DEF Inv, Begun, Asked, TypeOK
<1>2. QED
  BY <1>1, InvAlways, PTL

LEMMA AnswersAre ==
  ASSUME Inv, NEW c \in Answered
  PROVE  /\ results[c] \in Seq(Rows) /\ snapshot[c] \in Seq(Rows)
         /\ Matching(c) \in SUBSET DOMAIN snapshot[c]
         /\ query[c] \in QueryCalls /\ query[c].limit \in Nat
         /\ \E f : Orders(f, results[c], snapshot[c], Matching(c), query[c].limit)
<1>1. c \in Clients
  BY DEF Answered
<1>2. query[c] \in QueryCalls
  BY <1>1 DEF Inv, Asked
<1>3. QED
  BY <1>1, <1>2, QueryTypes DEF Inv, Begun, Asked, Matching, Answering

(* The first readings in the order of the answer, at their places. *)
LEMMA AnswersOrdered ==
  ASSUME Inv, NEW c \in Answered,
         NEW f, Orders(f, results[c], snapshot[c], Matching(c), query[c].limit)
  PROVE  /\ f \in Places(c)
         /\ \A k, l \in DOMAIN results[c] :
              k < l => TimeOf[results[c][k]] >= TimeOf[results[c][l]]
         /\ \A k \in DOMAIN f, i \in Matching(c) \ Range(f) :
              TimeOf[results[c][k]] >= TimeOf[snapshot[c][i]]
         /\ \A k \in DOMAIN f, i \in Matching(c) :
              i < f[k] /\ TimeOf[snapshot[c][i]] = TimeOf[results[c][k]]
                => \E l \in DOMAIN f : l < k /\ f[l] = i
<1>1. f \in Injection(DOMAIN results[c], Matching(c))
  BY AnswersAre, OrdersArePlaces
<1>2. f \in Places(c)
  BY <1>1 DEF Places, Orders
<1>3. /\ \A k, l \in DOMAIN results[c] :
           k < l => TimeOf[results[c][k]] >= TimeOf[results[c][l]]
      /\ \A k \in DOMAIN f, i \in Matching(c) \ Range(f) :
           TimeOf[results[c][k]] >= TimeOf[snapshot[c][i]]
  BY AnswersAre, OrdersAreNewest
<1>4. \A k \in DOMAIN f, i \in Matching(c) :
        i < f[k] /\ TimeOf[snapshot[c][i]] = TimeOf[results[c][k]]
          => \E l \in DOMAIN f : l < k /\ f[l] = i
  BY AnswersAre, OrdersTies
<1>5. QED
  BY <1>2, <1>3, <1>4

(* A query's results are the newest readings of its sensor and of its      *)
(* time that were in the list when its scan ended, newest first: none is   *)
(* missing, repeated or made up, and the limit cuts off none that is newer *)
(* than one it lets through.                                               *)
THEOREM ResultsAlwaysNewest == Spec => []ResultsAreNewest
<1>1. ASSUME Inv, NEW c \in Answered
      PROVE  /\ Len(results[c]) = Smaller(query[c].limit, Cardinality(Matching(c)))
             /\ \A k, l \in DOMAIN results[c] :
                  k < l => TimeOf[results[c][k]] >= TimeOf[results[c][l]]
             /\ \E f \in Places(c) : \A k \in DOMAIN f, i \in Matching(c) \ Range(f) :
                  TimeOf[results[c][k]] >= TimeOf[snapshot[c][i]]
  <2>1. PICK f : Orders(f, results[c], snapshot[c], Matching(c), query[c].limit)
    BY <1>1, AnswersAre
  <2>2. /\ f \in Places(c)
        /\ \A k, l \in DOMAIN results[c] :
             k < l => TimeOf[results[c][k]] >= TimeOf[results[c][l]]
        /\ \A k \in DOMAIN f, i \in Matching(c) \ Range(f) :
             TimeOf[results[c][k]] >= TimeOf[snapshot[c][i]]
    BY <1>1, <2>1, AnswersOrdered
  <2>3. Len(results[c]) = Smaller(query[c].limit, Cardinality(Matching(c)))
    BY <2>1 DEF Orders
  <2>4. QED
    BY <2>2, <2>3
<1>2. Inv => ResultsAreNewest
  BY <1>1 DEF ResultsAreNewest
<1>3. QED
  BY <1>2, InvAlways, PTL

(* Of the readings with one timestamp a query returns the one stored first *)
(* before the others, and leaves it out only with them.                    *)
THEOREM TiesAlwaysInStoredOrder == Spec => []TiesInStoredOrder
<1>1. ASSUME Inv, NEW c \in Answered
      PROVE  \E f \in Places(c) : \A k \in DOMAIN f, i \in Matching(c) :
               i < f[k] /\ TimeOf[snapshot[c][i]] = TimeOf[results[c][k]]
                 => \E l \in DOMAIN f : l < k /\ f[l] = i
  <2>1. PICK f : Orders(f, results[c], snapshot[c], Matching(c), query[c].limit)
    BY <1>1, AnswersAre
  <2>2. /\ f \in Places(c)
        /\ \A k \in DOMAIN f, i \in Matching(c) :
             i < f[k] /\ TimeOf[snapshot[c][i]] = TimeOf[results[c][k]]
               => \E l \in DOMAIN f : l < k /\ f[l] = i
    BY <1>1, <2>1, AnswersOrdered
  <2>3. QED
    BY <2>2
<1>2. Inv => TiesInStoredOrder
  BY <1>1 DEF TiesInStoredOrder
<1>3. QED
  BY <1>2, InvAlways, PTL

(* get_stats of the list and of the SQL tables agree as long as no more    *)
(* readings match than it covers; of more, both see the last one.          *)
THEOREM StatisticsAlwaysAgree == Spec => []StatisticsAgree
<1>1. ASSUME Inv, NEW c \in Answered, query[c].op = "get_stats"
      PROVE  LET here == Statistics(results[c], DOMAIN results[c])
                 sql  == Statistics(snapshot[c], Matching(c))
             IN  IF sql.count <= StatsLimit THEN here = sql
                                            ELSE here.count = StatsLimit /\ here.end = sql.end
  <2>1. /\ results[c] \in Seq(Rows) /\ snapshot[c] \in Seq(Rows)
        /\ Matching(c) \in SUBSET DOMAIN snapshot[c]
        /\ query[c].limit = StatsLimit /\ StatsLimit \in Nat \ {0}
    BY <1>1, AnswersAre, QueryTypes, InMemoryAssumption
  <2>2. PICK f : Orders(f, results[c], snapshot[c], Matching(c), StatsLimit)
    BY <1>1, <2>1, AnswersAre
  <2>3. Statistics(snapshot[c], Matching(c)).count = Cardinality(Matching(c))
    BY DEF Statistics
  <2>4. CASE Cardinality(Matching(c)) <= StatsLimit
    <3>1. StatsLimit \in Nat
      BY <2>1
    <3>2. Statistics(results[c], DOMAIN results[c]) = Statistics(snapshot[c], Matching(c))
      BY <2>1, <2>2, <2>4, <3>1, StatisticsOfAll
    <3>3. QED
      BY <2>3, <2>4, <3>2
  <2>5. CASE ~(Cardinality(Matching(c)) <= StatsLimit)
    <3>1. /\ Statistics(results[c], DOMAIN results[c]).count = StatsLimit
          /\ Statistics(results[c], DOMAIN results[c]).end = Statistics(snapshot[c], Matching(c)).end
      BY <2>1, <2>2, <2>5, StatisticsOfSome
    <3>2. QED
      BY <2>3, <2>5, <3>1
  <2>6. QED
    BY <2>4, <2>5
<1>2. Inv => StatisticsAgree
  BY <1>1 DEF StatisticsAgree
<1>3. QED
  BY <1>2, InvAlways, PTL
=============================================================================
