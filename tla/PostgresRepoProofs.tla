-------------------------- MODULE PostgresRepoProofs ------------------------
(***************************************************************************)
(* What PostgresRepo guarantees for any clients, rows, size of the pool    *)
(* and faults.                                                             *)
(***************************************************************************)
EXTENDS PostgresRepo, FiniteSetTheorems, TLAPS

Holding == {"execute", "commit", "rollback", "putconn"}

(* A connection is with one client, in the pool or leaked. *)
ConnsApart ==
  /\ pool \intersect leaked = {}
  /\ \A c \in Clients :
       pc[c] \in Holding => conn[c] \in Conns /\ conn[c] \notin pool \union leaked
  /\ \A c \in Clients : pc[c] \notin Holding => conn[c] = NoConn
  /\ \A c, d \in Clients : pc[c] \in Holding /\ conn[c] = conn[d] => c = d
  /\ \A k \in Conns \ (pool \union leaked) : \E c \in Clients : conn[c] = k

(* What the transactions hold, by where their clients are. *)
Transactions ==
  /\ \A k \in pool : uncommitted[k] = Nothing
  /\ \A c \in Clients :
       /\ pc[c] = "execute" => uncommitted[conn[c]] = Nothing
       /\ pc[c] = "commit" =>
            uncommitted[conn[c]] = IF call[c] \in Writes THEN Once(rows[c]) ELSE Nothing
       /\ pc[c] = "putconn" /\ failing[c] # "BaseException" => uncommitted[conn[c]] = Nothing

(* When a call has taken effect. *)
Effects ==
  \A c \in Clients :
    /\ pc[c] \in {"getconn", "execute", "commit"} => failing[c] = "no"
    /\ pc[c] = "rollback" => failing[c] = "Exception"
    /\ pc[c] \in {"getconn", "execute"} => ~applied[c]
    /\ pc[c] = "commit" => (applied[c] <=> call[c] = "query")
    /\ pc[c] = "putconn" /\ failing[c] = "no" => applied[c]

RepoInv == TypeOK /\ ConnsApart /\ Transactions /\ Effects
-----------------------------------------------------------------------------
LEMMA RowCounts ==
  /\ Nothing \in [Rows -> Nat]
  /\ \A rs : Once(rs) \in [Rows -> Nat]
  /\ \A t, u \in [Rows -> Nat] : Plus(t, u) \in [Rows -> Nat]
  /\ \A t \in [Rows -> Nat] : Plus(t, Nothing) = t
BY DEF Nothing, Once, Plus

LEMMA InitialState == Init => RepoInv
BY RepoAssumption, RowCounts
   DEF Init, RepoInv, TypeOK, ConnsApart, Transactions, Effects, Holding, Writes

LEMMA HeldConn ==
  ASSUME RepoInv, NEW c \in Clients, pc[c] \in Holding
  PROVE  /\ conn[c] \in Conns
         /\ uncommitted[conn[c]] \in [Rows -> Nat]
         /\ \A d \in Clients : d # c => conn[d] # conn[c]
BY DEF RepoInv, TypeOK, ConnsApart

(***************************************************************************)
(* Types, action by action.                                                *)
(***************************************************************************)
LEMMA TypesStep ==
  ASSUME RepoInv, [Next]_vars
  PROVE  TypeOK'
<1> USE RepoAssumption, RowCounts DEF TypeOK, Writes, Step, Holding, clients, history
<1>0. TypeOK
  BY DEF RepoInv
<1> USE <1>0
<1>1. ASSUME NEW c \in Clients, NEW op \in Writes \union {"query"}, NEW rs \in SUBSET Rows,
             Begin(c, op, rs)
      PROVE  TypeOK'
  BY <1>1 DEF Begin
<1>2. ASSUME NEW c \in Clients, Save(c) \/ SaveBatch(c) \/ Query(c) PROVE TypeOK'
  <2>1. CASE Save(c)
    BY <1>1, <2>1 DEF Save
  <2>2. CASE SaveBatch(c)
    BY <1>1, <2>2 DEF SaveBatch
  <2>3. CASE Query(c)
    BY <1>1, <2>3 DEF Query
  <2>4. QED
    BY <1>2, <2>1, <2>2, <2>3
<1>3. ASSUME NEW c \in Clients, GetConn(c) PROVE TypeOK'
  BY <1>3 DEF GetConn
<1>4. ASSUME NEW c \in Clients, NEW how \in {"returned", "raised"}, Ended(c, how)
      PROVE  /\ outcome' \in [Clients -> {"none", "returned", "raised"}]
             /\ acked' \in [Rows -> Nat]
  BY <1>4 DEF Ended
<1>5. ASSUME NEW c \in Clients, GetConnFails(c) \/ GetConnInterrupted(c) PROVE TypeOK'
  BY <1>4, <1>5 DEF GetConnFails, GetConnInterrupted
<1>6. ASSUME NEW c \in Clients, Execute(c) PROVE TypeOK'
  <2>1. conn[c] \in Conns
    BY <1>6, HeldConn DEF Execute
  <2>2. CASE call[c] \in Writes
    <3>1. Plus(uncommitted[conn[c]], Once(rows[c])) \in [Rows -> Nat]
      BY <2>1
    <3>2. uncommitted' \in [Conns -> [Rows -> Nat]]
      BY <1>6, <2>1, <2>2, <3>1 DEF Execute
    <3>3. QED
      BY <1>6, <2>2, <3>2 DEF Execute
  <2>3. CASE call[c] \notin Writes
    <3>1. Plus(table, uncommitted[conn[c]]) \in [Rows -> Nat]
      BY <2>1
    <3>2. /\ seen' = [seen EXCEPT ![c] = Plus(table, uncommitted[conn[c]])]
          /\ applied' = [applied EXCEPT ![c] = TRUE]
      BY <1>6, <2>3 DEF Execute
    <3>3. seen' \in [Clients -> [Rows -> Nat]]
      BY <3>1, <3>2
    <3>4. applied' \in [Clients -> BOOLEAN]
      BY <3>2
    <3>5. QED
      BY <1>6, <2>3, <3>3, <3>4 DEF Execute
  <2>4. QED
    BY <2>2, <2>3
<1>7. ASSUME NEW c \in Clients, ExecuteFails(c) \/ CommitRefused(c) PROVE TypeOK'
  BY <1>7 DEF ExecuteFails, CommitRefused
<1>8. ASSUME NEW c \in Clients, Commit(c) \/ CommitUnacknowledged(c) \/ CommitInterrupted(c)
      PROVE  TypeOK'
  <2>1. conn[c] \in Conns
    BY <1>8, HeldConn DEF Commit, CommitUnacknowledged, CommitInterrupted
  <2>2. table' \in [Rows -> Nat] /\ uncommitted' \in [Conns -> [Rows -> Nat]]
    <3>1. Plus(table, uncommitted[conn[c]]) \in [Rows -> Nat]
      BY <2>1
    <3>2. /\ table' = Plus(table, uncommitted[conn[c]])
          /\ uncommitted' = [uncommitted EXCEPT ![conn[c]] = Nothing]
      BY <1>8 DEF Commit, CommitUnacknowledged, CommitInterrupted, Committed
    <3>3. table' \in [Rows -> Nat]
      BY <3>1, <3>2
    <3>4. uncommitted' \in [Conns -> [Rows -> Nat]]
      BY <2>1, <3>2
    <3>5. QED
      BY <3>3, <3>4
  <2>3. CASE Commit(c)
    BY <2>2, <2>3 DEF Commit, Committed
  <2>4. CASE CommitUnacknowledged(c) \/ CommitInterrupted(c)
    BY <2>2, <2>4 DEF CommitUnacknowledged, CommitInterrupted, Committed
  <2>5. QED
    BY <1>8, <2>3, <2>4
<1>9. ASSUME NEW c \in Clients, Rollback(c) PROVE TypeOK'
  BY <1>9 DEF Rollback
<1>10. ASSUME NEW c \in Clients, Interrupt(c) PROVE TypeOK'
  BY <1>10 DEF Interrupt
<1>11. ASSUME NEW c \in Clients, PutConn(c) \/ PutConnInterrupted(c) PROVE TypeOK'
  <2>1. conn[c] \in Conns
    BY <1>11, HeldConn DEF PutConn, PutConnInterrupted
  <2>2. /\ outcome' \in [Clients -> {"none", "returned", "raised"}]
        /\ acked' \in [Rows -> Nat]
    BY <1>4, <1>11 DEF PutConn, PutConnInterrupted
  <2>3. CASE PutConn(c)
    BY <2>1, <2>2, <2>3 DEF PutConn
  <2>4. CASE PutConnInterrupted(c)
    BY <2>1, <2>2, <2>4 DEF PutConnInterrupted
  <2>5. QED
    BY <1>11, <2>3, <2>4
<1>12. CASE UNCHANGED vars
  BY <1>12 DEF vars
<1>13. QED
  BY <1>2, <1>3, <1>5, <1>6, <1>7, <1>8, <1>9, <1>10, <1>11, <1>12 DEF Next, Proceed
-----------------------------------------------------------------------------
(* Only the ends of _get_conn move connections. *)
LEMMA ConnsStep ==
  ASSUME RepoInv, [Next]_vars
  PROVE  ConnsApart'
<1> USE DEF ConnsApart, Holding, Step, clients, history
<1>0. TypeOK /\ ConnsApart
  BY DEF RepoInv
<1> USE <1>0
<1>1. /\ pc \in [Clients -> {"idle", "getconn", "execute", "commit", "rollback", "putconn"}]
      /\ conn \in [Clients -> Conns \union {NoConn}]
      /\ pool \subseteq Conns /\ leaked \subseteq Conns
      /\ NoConn \notin Conns
  BY RepoAssumption DEF TypeOK
<1> USE <1>1
<1>2. ASSUME NEW c \in Clients, Save(c) \/ SaveBatch(c) \/ Query(c) PROVE ConnsApart'
  BY <1>2 DEF Save, SaveBatch, Query, Begin
<1>3. ASSUME NEW c \in Clients, GetConn(c) PROVE ConnsApart'
  <2>0. UNCHANGED leaked
    BY <1>3 DEF GetConn
  <2>1. PICK k \in pool : pool' = pool \ {k} /\ conn' = [conn EXCEPT ![c] = k]
    BY <1>3 DEF GetConn
  <2>2. /\ k \in Conns
        /\ \A d \in Clients : conn[d] # k
        /\ pc[c] = "getconn" /\ pc' = [pc EXCEPT ![c] = "execute"]
    BY <1>3 DEF GetConn
  <2>3. QED
    BY <2>0, <2>1, <2>2
<1>4. ASSUME NEW c \in Clients, GetConnFails(c) \/ GetConnInterrupted(c) PROVE ConnsApart'
  <2>1. pc[c] = "getconn" /\ pc' = [pc EXCEPT ![c] = "idle"] /\ UNCHANGED conn
    BY <1>4 DEF GetConnFails, GetConnInterrupted
  <2>2. \/ UNCHANGED <<pool, leaked>>
        \/ \E k \in pool : pool' = pool \ {k} /\ leaked' = leaked \union {k}
    BY <1>4 DEF GetConnFails, GetConnInterrupted
  <2>3. pool' \union leaked' = pool \union leaked /\ pool' \intersect leaked' = {}
    BY <2>2
  <2>4. QED
    BY <2>1, <2>3
<1>5. ASSUME NEW c \in Clients, pc[c] \in Holding, NEW to \in Holding,
             pc' = [pc EXCEPT ![c] = to], UNCHANGED <<conn, pool, leaked>>
      PROVE  ConnsApart'
  BY <1>5
<1>6. ASSUME NEW c \in Clients,
             \/ Execute(c) \/ ExecuteFails(c) \/ Commit(c) \/ CommitRefused(c)
             \/ CommitUnacknowledged(c) \/ CommitInterrupted(c) \/ Rollback(c) \/ Interrupt(c)
      PROVE  ConnsApart'
  <2>1. pc[c] \in Holding /\ UNCHANGED <<conn, pool, leaked>>
    BY <1>6 DEF Execute, ExecuteFails, Commit, CommitRefused, CommitUnacknowledged,
                CommitInterrupted, Rollback, Interrupt
  <2>2. \E to \in Holding : pc' = [pc EXCEPT ![c] = to]
    BY <1>6 DEF Execute, ExecuteFails, Commit, CommitRefused, CommitUnacknowledged,
                CommitInterrupted, Rollback, Interrupt
  <2>3. QED
    BY <1>5, <2>1, <2>2
<1>7. ASSUME NEW c \in Clients, PutConn(c) \/ PutConnInterrupted(c) PROVE ConnsApart'
  <2>1. /\ pc[c] = "putconn" /\ pc' = [pc EXCEPT ![c] = "idle"]
        /\ conn' = [conn EXCEPT ![c] = NoConn]
        /\ \/ pool' = pool \union {conn[c]} /\ leaked' = leaked
           \/ pool' = pool /\ leaked' = leaked \union {conn[c]}
    BY <1>7 DEF PutConn, PutConnInterrupted
  <2>2. /\ conn[c] \notin pool \union leaked
        /\ \A d \in Clients : pc[d] \in Holding /\ d # c => conn[d] # conn[c]
    BY <2>1
  <2>3. /\ pool' \union leaked' = pool \union leaked \union {conn[c]}
        /\ pool' \intersect leaked' = {}
    BY <2>1, <2>2
  <2>4. QED
    BY <2>1, <2>2, <2>3
<1>8. CASE UNCHANGED vars
  BY <1>8 DEF vars
<1>9. QED
  BY <1>2, <1>3, <1>4, <1>6, <1>7, <1>8 DEF Next, Proceed

LEMMA EffectsStep ==
  ASSUME RepoInv, [Next]_vars
  PROVE  Effects'
<1> USE DEF RepoInv, Effects, Step, Writes, clients, history
<1>1. /\ pc \in [Clients -> {"idle", "getconn", "execute", "commit", "rollback", "putconn"}]
      /\ failing \in [Clients -> {"no", "Exception", "BaseException"}]
      /\ applied \in [Clients -> BOOLEAN]
      /\ call \in [Clients -> Writes \union {"query"}]
  BY DEF TypeOK
<1> USE <1>1
<1>2. ASSUME NEW c \in Clients, Save(c) \/ SaveBatch(c) \/ Query(c) PROVE Effects'
  <2>1. /\ pc' = [pc EXCEPT ![c] = "getconn"]
        /\ failing' = [failing EXCEPT ![c] = "no"]
        /\ applied' = [applied EXCEPT ![c] = FALSE]
        /\ \A d \in Clients : d # c => call'[d] = call[d]
    BY <1>2 DEF Save, SaveBatch, Query, Begin
  <2>2. QED
    BY <2>1
<1>3. ASSUME NEW c \in Clients, GetConn(c) \/ GetConnFails(c) \/ GetConnInterrupted(c)
      PROVE  Effects'
  BY <1>3 DEF GetConn, GetConnFails, GetConnInterrupted
<1>4. ASSUME NEW c \in Clients, Execute(c) PROVE Effects'
  BY <1>4 DEF Execute
<1>5. ASSUME NEW c \in Clients, ExecuteFails(c) \/ CommitRefused(c) PROVE Effects'
  BY <1>5 DEF ExecuteFails, CommitRefused
<1>6. ASSUME NEW c \in Clients, Commit(c) PROVE Effects'
  BY <1>6 DEF Commit, Committed
<1>7. ASSUME NEW c \in Clients, CommitUnacknowledged(c) \/ CommitInterrupted(c)
      PROVE  Effects'
  BY <1>7 DEF CommitUnacknowledged, CommitInterrupted, Committed
<1>8. ASSUME NEW c \in Clients, Rollback(c) \/ Interrupt(c) PROVE Effects'
  BY <1>8 DEF Rollback, Interrupt
<1>9. ASSUME NEW c \in Clients, PutConn(c) \/ PutConnInterrupted(c) PROVE Effects'
  BY <1>9 DEF PutConn, PutConnInterrupted
<1>10. CASE UNCHANGED vars
  BY <1>10 DEF vars
<1>11. QED
  BY <1>2, <1>3, <1>4, <1>5, <1>6, <1>7, <1>8, <1>9, <1>10 DEF Next, Proceed
-----------------------------------------------------------------------------
(* A step of one client leaves the transactions of the others alone. *)
OthersUntouched(c) ==
  \A d \in Clients : d # c =>
    /\ pc'[d] = pc[d] /\ conn'[d] = conn[d]
    /\ call'[d] = call[d] /\ rows'[d] = rows[d] /\ failing'[d] = failing[d]
    /\ pc[d] \in Holding => uncommitted'[conn[d]] = uncommitted[conn[d]]

(* So it is enough to look at the pool and at the client itself. *)
LEMMA OwnTransaction ==
  ASSUME RepoInv, NEW c \in Clients, OthersUntouched(c),
         \A k \in pool' : uncommitted'[k] = Nothing,
         pc'[c] = "execute" => uncommitted'[conn'[c]] = Nothing,
         pc'[c] = "commit" => uncommitted'[conn'[c]] =
                                IF call'[c] \in Writes THEN Once(rows'[c]) ELSE Nothing,
         pc'[c] = "putconn" /\ failing'[c] # "BaseException"
           => uncommitted'[conn'[c]] = Nothing
  PROVE  Transactions'
<1> SUFFICES ASSUME NEW d \in Clients
             PROVE  /\ pc'[d] = "execute" => uncommitted'[conn'[d]] = Nothing
                    /\ pc'[d] = "commit" => uncommitted'[conn'[d]] =
                         IF call'[d] \in Writes THEN Once(rows'[d]) ELSE Nothing
                    /\ pc'[d] = "putconn" /\ failing'[d] # "BaseException"
                         => uncommitted'[conn'[d]] = Nothing
  BY DEF Transactions, Nothing, Once, Writes
<1>1. CASE d = c
  BY <1>1
<1>2. CASE d # c
  BY <1>2 DEF OthersUntouched, RepoInv, Transactions, Holding
<1>3. QED
  BY <1>1, <1>2

LEMMA TransactionsStep ==
  ASSUME RepoInv, [Next]_vars
  PROVE  Transactions'
<1> USE DEF Step, Writes, clients, history, OthersUntouched
<1>1. /\ pc \in [Clients -> {"idle", "getconn", "execute", "commit", "rollback", "putconn"}]
      /\ conn \in [Clients -> Conns \union {NoConn}]
      /\ failing \in [Clients -> {"no", "Exception", "BaseException"}]
      /\ applied \in [Clients -> BOOLEAN]
      /\ call \in [Clients -> Writes \union {"query"}]
      /\ rows \in [Clients -> SUBSET Rows]
      /\ pool \subseteq Conns
      /\ uncommitted \in [Conns -> [Rows -> Nat]]
  BY DEF RepoInv, TypeOK
<1> USE <1>1
<1>2. /\ \A k \in pool : uncommitted[k] = Nothing
      /\ \A c \in Clients : /\ pc[c] = "execute" => uncommitted[conn[c]] = Nothing
                            /\ pc[c] = "commit" /\ call[c] \notin Writes
                                 => uncommitted[conn[c]] = Nothing
  BY DEF RepoInv, Transactions
<1>3. ASSUME NEW c \in Clients, pc[c] \in Holding
      PROVE  /\ conn[c] \in Conns /\ conn[c] \notin pool
             /\ \A d \in Clients : d # c => conn[d] # conn[c]
  BY <1>3 DEF RepoInv, ConnsApart
<1>4. ASSUME NEW c \in Clients, Save(c) \/ SaveBatch(c) \/ Query(c) PROVE Transactions'
  <2>1. OthersUntouched(c) /\ UNCHANGED <<pool, uncommitted>> /\ pc'[c] = "getconn"
    BY <1>4 DEF Save, SaveBatch, Query, Begin
  <2>2. QED
    BY <1>2, <2>1, OwnTransaction
<1>5. ASSUME NEW c \in Clients, GetConn(c) PROVE Transactions'
  <2>1. PICK k \in pool : pool' = pool \ {k} /\ conn' = [conn EXCEPT ![c] = k]
    BY <1>5 DEF GetConn
  <2>2. /\ OthersUntouched(c) /\ UNCHANGED uncommitted
        /\ pc'[c] = "execute" /\ conn'[c] = k
    BY <1>5, <2>1 DEF GetConn
  <2>3. QED
    BY <1>2, <2>1, <2>2, OwnTransaction
<1>6. ASSUME NEW c \in Clients, GetConnFails(c) \/ GetConnInterrupted(c)
      PROVE  Transactions'
  <2>1. OthersUntouched(c) /\ pool' \subseteq pool /\ UNCHANGED uncommitted /\ pc'[c] = "idle"
    BY <1>6 DEF GetConnFails, GetConnInterrupted
  <2>2. QED
    BY <1>2, <2>1, OwnTransaction
<1>7. ASSUME NEW c \in Clients, Execute(c) PROVE Transactions'
  <2>1. pc[c] = "execute" /\ pc[c] \in Holding
    BY <1>7 DEF Execute, Holding
  <2>2. /\ pc'[c] = "commit" /\ UNCHANGED <<pool, conn, call, rows, failing>>
        /\ \A d \in Clients : d # c => pc'[d] = pc[d]
    BY <1>7 DEF Execute
  <2>3. CASE call[c] \in Writes
    <3>1. uncommitted' = [uncommitted EXCEPT ![conn[c]] = Plus(uncommitted[conn[c]], Once(rows[c]))]
      BY <1>7, <2>3 DEF Execute
    <3>2. Plus(uncommitted[conn[c]], Once(rows[c])) = Once(rows[c])
      <4>1. uncommitted[conn[c]] = Nothing
        BY <1>2, <2>1
      <4>2. Plus(Nothing, Once(rows[c])) = Once(rows[c])
        BY DEF Plus, Nothing, Once
      <4>3. QED
        BY <4>1, <4>2
    <3>3. uncommitted'[conn[c]] = Once(rows[c])
      BY <1>3, <2>1, <3>1, <3>2
    <3>4. OthersUntouched(c)
      BY <1>3, <2>1, <2>2, <3>1
    <3>5. \A k \in pool' : uncommitted'[k] = Nothing
      BY <1>2, <1>3, <2>1, <2>2, <3>1
    <3>6. QED
      BY <2>2, <2>3, <3>3, <3>4, <3>5, OwnTransaction
  <2>4. CASE call[c] \notin Writes
    <3>1. UNCHANGED uncommitted /\ OthersUntouched(c)
      BY <1>7, <2>2, <2>4 DEF Execute
    <3>2. QED
      BY <1>2, <2>1, <2>2, <2>4, <3>1, OwnTransaction
  <2>5. QED
    BY <2>3, <2>4
<1>8. ASSUME NEW c \in Clients, ExecuteFails(c) \/ CommitRefused(c) PROVE Transactions'
  <2>1. OthersUntouched(c) /\ UNCHANGED <<pool, uncommitted>> /\ pc'[c] = "rollback"
    BY <1>8 DEF ExecuteFails, CommitRefused
  <2>2. QED
    BY <1>2, <2>1, OwnTransaction
<1>9. ASSUME NEW c \in Clients, pc[c] \in Holding,
             uncommitted' = [uncommitted EXCEPT ![conn[c]] = Nothing],
             \A d \in Clients : d # c =>
               /\ pc'[d] = pc[d] /\ conn'[d] = conn[d]
               /\ call'[d] = call[d] /\ rows'[d] = rows[d] /\ failing'[d] = failing[d],
             \/ pool' = pool /\ conn'[c] = conn[c] /\ pc'[c] \in {"putconn", "rollback"}
             \/ pool' = pool \union {conn[c]} /\ pc'[c] = "idle"
      PROVE  Transactions'
  <2>1. uncommitted'[conn[c]] = Nothing
    BY <1>3, <1>9
  <2>2. OthersUntouched(c)
    BY <1>3, <1>9
  <2>3. \A k \in pool' : uncommitted'[k] = Nothing
    BY <1>2, <1>3, <1>9, <2>1
  <2>4. QED
    BY <1>9, <2>1, <2>2, <2>3, OwnTransaction
<1>10. ASSUME NEW c \in Clients,
              \/ Commit(c) \/ CommitUnacknowledged(c) \/ CommitInterrupted(c)
              \/ Rollback(c) \/ PutConn(c) \/ PutConnInterrupted(c)
       PROVE  Transactions'
  <2>1. pc[c] \in Holding
    BY <1>10 DEF Commit, CommitUnacknowledged, CommitInterrupted, Rollback, PutConn,
                 PutConnInterrupted, Holding
  <2>2. \A d \in Clients : d # c =>
          /\ pc'[d] = pc[d] /\ conn'[d] = conn[d]
          /\ call'[d] = call[d] /\ rows'[d] = rows[d] /\ failing'[d] = failing[d]
    BY <1>10 DEF Commit, CommitUnacknowledged, CommitInterrupted, Rollback, PutConn,
                 PutConnInterrupted
  <2>3. CASE PutConn(c) \/ PutConnInterrupted(c)
    <3>1. /\ pc'[c] = "idle"
          /\ \/ /\ pool' = pool \union {conn[c]}
                /\ uncommitted' = [uncommitted EXCEPT ![conn[c]] = Nothing]
             \/ UNCHANGED <<pool, uncommitted>>
      BY <2>3 DEF PutConn, PutConnInterrupted
    <3>2. CASE UNCHANGED <<pool, uncommitted>>
      BY <1>2, <2>2, <3>1, <3>2, OwnTransaction
    <3>3. CASE ~UNCHANGED <<pool, uncommitted>>
      BY <1>9, <2>1, <2>2, <3>1, <3>3
    <3>4. QED
      BY <3>2, <3>3
  <2>4. CASE Commit(c) \/ CommitUnacknowledged(c) \/ CommitInterrupted(c) \/ Rollback(c)
    <3>1. /\ pool' = pool /\ conn'[c] = conn[c] /\ pc'[c] \in {"putconn", "rollback"}
          /\ uncommitted' = [uncommitted EXCEPT ![conn[c]] = Nothing]
      BY <2>4 DEF Commit, CommitUnacknowledged, CommitInterrupted, Committed, Rollback
    <3>2. QED
      BY <1>9, <2>1, <2>2, <3>1
  <2>5. QED
    BY <1>10, <2>3, <2>4
<1>11. ASSUME NEW c \in Clients, Interrupt(c) PROVE Transactions'
  <2>1. /\ OthersUntouched(c) /\ UNCHANGED <<pool, uncommitted>>
        /\ pc'[c] = "putconn" /\ failing'[c] = "BaseException"
    BY <1>11 DEF Interrupt
  <2>2. QED
    BY <1>2, <2>1, OwnTransaction
<1>12. CASE UNCHANGED vars
  BY <1>12 DEF vars, RepoInv, Transactions
<1>13. QED
  BY <1>4, <1>5, <1>6, <1>7, <1>8, <1>10, <1>11, <1>12 DEF Next, Proceed
-----------------------------------------------------------------------------
LEMMA RepoInvariant == Spec => []RepoInv
<1>1. RepoInv /\ [Next]_vars => RepoInv'
  BY TypesStep, ConnsStep, TransactionsStep, EffectsStep DEF RepoInv
<1>2. QED
  BY <1>1, InitialState, PTL DEF Spec

(* The state of the clients, the pool and the database keeps its types. *)
THEOREM TypeCorrect == Spec => []TypeOK
<1>1. RepoInv => TypeOK
  BY DEF RepoInv
<1>2. QED
  BY <1>1, RepoInvariant, PTL

(* However statements, commits and connects fail and whenever clients are  *)
(* interrupted, every connection is in the pool or with one client, or     *)
(* lost by an interrupt outside the try or in its "finally", for good.     *)
THEOREM ConnsAlwaysAccounted == Spec => []ConnsAccounted
<1>1. RepoInv => ConnsAccounted
  <2> SUFFICES ASSUME RepoInv, NEW k \in Conns
               PROVE  Cardinality({c \in Clients : conn[c] = k}) =
                        IF k \in pool \union leaked THEN 0 ELSE 1
    BY DEF ConnsAccounted, RepoInv, ConnsApart
  <2>1. \A c \in Clients : conn[c] = k => pc[c] \in Holding
    BY RepoAssumption DEF RepoInv, ConnsApart
  <2>2. CASE k \in pool \union leaked
    <3>1. {c \in Clients : conn[c] = k} = {}
      BY <2>1, <2>2 DEF RepoInv, ConnsApart
    <3>2. QED
      BY <2>2, <3>1, FS_EmptySet
  <2>3. CASE k \notin pool \union leaked
    <3>1. PICK c \in Clients : conn[c] = k
      BY <2>3 DEF RepoInv, ConnsApart
    <3>2. {d \in Clients : conn[d] = k} = {c}
      BY <2>1, <3>1 DEF RepoInv, ConnsApart
    <3>3. QED
      BY <2>3, <3>2, FS_Singleton
  <2>4. QED
    BY <2>2, <2>3
<1>2. QED
  BY <1>1, RepoInvariant, PTL

(* Unless a BaseException cuts a call short, its connection goes back with *)
(* nothing uncommitted.                                                    *)
THEOREM AlwaysHandsBackCleanConns == Spec => []HandsBackCleanConns
<1>1. RepoInv => HandsBackCleanConns
  BY DEF RepoInv, Transactions, HandsBackCleanConns
<1>2. QED
  BY <1>1, RepoInvariant, PTL
-----------------------------------------------------------------------------
(***************************************************************************)
(* The refinement.  Phase is what the mapping makes of a client's call.    *)
(***************************************************************************)
Phase == [c \in Clients |-> IF pc[c] = "idle" THEN "idle"
                            ELSE IF applied[c] THEN "applied" ELSE "open"]

LEMMA PhaseStep ==
  ASSUME RepoInv, NEW c \in Clients,
         \A d \in Clients : d # c => pc'[d] = pc[d] /\ applied'[d] = applied[d]
  PROVE  Phase' = [Phase EXCEPT ![c] = IF pc'[c] = "idle" THEN "idle"
                                       ELSE IF applied'[c] THEN "applied" ELSE "open"]
BY DEF Phase

(* A step between two ports of call of one phase is none of the port's. *)
LEMMA PhaseKept ==
  ASSUME RepoInv, NEW c \in Clients,
         \A d \in Clients : d # c => pc'[d] = pc[d] /\ applied'[d] = applied[d],
         pc[c] # "idle", pc'[c] # "idle", applied'[c] = applied[c]
  PROVE  Phase' = Phase
BY DEF Phase

StoreVars == <<table, Phase, call, rows, seen, outcome>>

LEMMA StoreState == Store!vars = StoreVars
BY DEF Store!vars, StoreVars, Phase

LEMMA BeginImplements ==
  ASSUME RepoInv, NEW c \in Clients, NEW op, NEW rs, Begin(c, op, rs)
  PROVE  Store!Begin(c, op, rs)
<1>1. /\ pc[c] = "idle" /\ pc'[c] # "idle"
      /\ applied' = [applied EXCEPT ![c] = FALSE]
      /\ \A d \in Clients : d # c => pc'[d] = pc[d] /\ applied'[d] = applied[d]
  BY DEF Begin, Step, RepoInv, TypeOK
<1>2. ~applied'[c]
  BY <1>1 DEF RepoInv, TypeOK
<1>3. Phase[c] = "idle" /\ Phase' = [Phase EXCEPT ![c] = "open"]
  BY <1>1, <1>2, PhaseStep DEF Phase
<1>4. /\ call' = [call EXCEPT ![c] = op] /\ rows' = [rows EXCEPT ![c] = rs]
      /\ outcome' = [outcome EXCEPT ![c] = "none"] /\ UNCHANGED <<table, seen>>
  BY DEF Begin
<1>5. QED
  BY <1>3, <1>4 DEF Store!Begin, Phase

(* The commit of a write adds its rows to the table. *)
LEMMA CommitWrites ==
  ASSUME RepoInv, NEW c \in Clients, pc[c] = "commit", Committed(c)
  PROVE  table' = IF call[c] \in Writes THEN Store!Written(table, rows[c]) ELSE table
<1>1. table \in [Rows -> Nat] /\ table' = Plus(table, uncommitted[conn[c]])
  BY DEF RepoInv, TypeOK, Committed
<1>2. CASE call[c] \in Writes
  <2>1. uncommitted[conn[c]] = Once(rows[c])
    BY <1>2 DEF RepoInv, Transactions
  <2>2. Plus(table, Once(rows[c])) = Store!Written(table, rows[c])
    BY DEF Plus, Once, Store!Written
  <2>3. QED
    BY <1>1, <1>2, <2>1, <2>2
<1>3. CASE call[c] \notin Writes
  <2>1. uncommitted[conn[c]] = Nothing
    BY <1>3 DEF RepoInv, Transactions
  <2>2. QED
    BY <1>1, <1>3, <2>1, RowCounts
<1>4. QED
  BY <1>2, <1>3

(* A commit, acknowledged or not, applies a write; a query was applied     *)
(* when it read.                                                           *)
LEMMA CommitImplements ==
  ASSUME RepoInv, NEW c \in Clients,
         Commit(c) \/ CommitUnacknowledged(c) \/ CommitInterrupted(c)
  PROVE  Store!Apply(c) \/ UNCHANGED Store!vars
<1>1. /\ pc[c] = "commit" /\ pc'[c] # "idle" /\ Committed(c)
      /\ \A d \in Clients : d # c => pc'[d] = pc[d]
      /\ UNCHANGED <<call, rows, seen, outcome>>
  BY DEF Commit, CommitUnacknowledged, CommitInterrupted, Step, RepoInv, TypeOK
<1>2. /\ applied'[c]
      /\ \A d \in Clients : d # c => applied'[d] = applied[d]
  BY <1>1 DEF Committed, RepoInv, TypeOK
<1>3. applied[c] <=> call[c] = "query"
  BY <1>1 DEF RepoInv, Effects
<1>4. CASE call[c] \in Writes
  <2>1. ~applied[c]
    BY <1>3, <1>4 DEF Writes
  <2>2. Phase[c] = "open" /\ Phase' = [Phase EXCEPT ![c] = "applied"]
    BY <1>1, <1>2, <2>1, PhaseStep DEF Phase
  <2>3. table' = Store!Written(table, rows[c])
    BY <1>1, <1>4, CommitWrites
  <2>4. call[c] \in Store!Writes
    BY <1>4 DEF Writes, Store!Writes
  <2>5. Store!Apply(c)
    BY <1>1, <2>2, <2>3, <2>4 DEF Store!Apply, Phase
  <2>6. QED
    BY <2>5
<1>5. CASE call[c] \notin Writes
  <2>1. applied[c] /\ applied'[c]
    BY <1>2, <1>3, <1>5 DEF RepoInv, TypeOK
  <2>2. applied'[c] = applied[c]
    <3>1. applied' = [applied EXCEPT ![c] = TRUE] /\ applied \in [Clients -> BOOLEAN]
      BY <1>1 DEF Committed, RepoInv, TypeOK
    <3>2. QED
      BY <2>1, <3>1
  <2>3. Phase' = Phase
    BY <1>1, <1>2, <2>2, PhaseKept
  <2>4. table' = table
    BY <1>1, <1>5, CommitWrites
  <2>5. UNCHANGED StoreVars
    BY <1>1, <2>3, <2>4 DEF StoreVars
  <2>6. QED
    BY <2>5, StoreState DEF Store!vars, StoreVars, Phase
<1>6. QED
  BY <1>4, <1>5

LEMMA ExecuteImplements ==
  ASSUME RepoInv, NEW c \in Clients, Execute(c)
  PROVE  Store!Apply(c) \/ UNCHANGED Store!vars
<1>1. /\ pc[c] = "execute" /\ pc'[c] # "idle" /\ ~applied[c]
      /\ \A d \in Clients : d # c => pc'[d] = pc[d]
      /\ UNCHANGED <<table, call, rows, outcome>>
  BY DEF Execute, Step, RepoInv, TypeOK, Effects
<1>2. CASE call[c] \in Writes
  <2>1. UNCHANGED <<seen, applied>>
    BY <1>2 DEF Execute
  <2>2. Phase' = Phase
    BY <1>1, <2>1, PhaseKept
  <2>3. QED
    BY <1>1, <2>1, <2>2 DEF Store!vars, Phase
<1>3. CASE call[c] \notin Writes
  <2>1. /\ seen' = [seen EXCEPT ![c] = Plus(table, uncommitted[conn[c]])]
        /\ applied' = [applied EXCEPT ![c] = TRUE]
    BY <1>3 DEF Execute
  <2>2. Plus(table, uncommitted[conn[c]]) = table
    BY <1>1, RowCounts DEF RepoInv, TypeOK, Transactions
  <2>3. applied'[c] /\ \A d \in Clients : d # c => applied'[d] = applied[d]
    BY <2>1 DEF RepoInv, TypeOK
  <2>4. Phase[c] = "open" /\ Phase' = [Phase EXCEPT ![c] = "applied"]
    BY <1>1, <2>3, PhaseStep DEF Phase
  <2>5. call[c] \notin Store!Writes
    BY <1>3 DEF Writes, Store!Writes
  <2>6. seen' = [seen EXCEPT ![c] = table]
    BY <2>1, <2>2
  <2>7. Store!Apply(c)
    BY <1>1, <2>4, <2>5, <2>6 DEF Store!Apply, Phase
  <2>8. QED
    BY <2>7
<1>4. QED
  BY <1>2, <1>3

(* The end of a call: it returns only when it has taken effect. *)
LEMMA EndImplements ==
  ASSUME RepoInv, NEW c \in Clients,
         \/ PutConn(c) \/ PutConnInterrupted(c)
         \/ GetConnFails(c) \/ GetConnInterrupted(c)
  PROVE  Store!Return(c) \/ Store!Fail(c)
<1>1. /\ pc[c] # "idle" /\ pc'[c] = "idle"
      /\ \A d \in Clients : d # c => pc'[d] = pc[d]
      /\ UNCHANGED <<table, call, rows, seen, applied>>
  BY DEF PutConn, PutConnInterrupted, GetConnFails, GetConnInterrupted, Step, RepoInv, TypeOK
<1>2. Phase[c] # "idle" /\ Phase' = [Phase EXCEPT ![c] = "idle"]
  BY <1>1, PhaseStep DEF Phase
<1>3. CASE outcome' = [outcome EXCEPT ![c] = "raised"]
  BY <1>1, <1>2, <1>3 DEF Store!Fail, Store!End, Phase
<1>4. CASE PutConn(c) /\ failing[c] = "no"
  <2>1. outcome' = [outcome EXCEPT ![c] = "returned"]
    BY <1>4 DEF PutConn, Ended
  <2>2. applied[c]
    BY <1>4 DEF PutConn, Step, RepoInv, Effects
  <2>3. Phase[c] = "applied"
    BY <1>1, <2>2 DEF Phase
  <2>4. QED
    BY <1>1, <1>2, <2>1, <2>3 DEF Store!Return, Store!End, Phase
<1>5. QED
  BY <1>3, <1>4 DEF PutConn, PutConnInterrupted, GetConnFails, GetConnInterrupted, Ended

LEMMA InternalImplements ==
  ASSUME RepoInv, NEW c \in Clients,
         \/ GetConn(c) \/ ExecuteFails(c) \/ CommitRefused(c) \/ Rollback(c) \/ Interrupt(c)
  PROVE  UNCHANGED Store!vars
<1>1. /\ pc[c] # "idle" /\ pc'[c] # "idle"
      /\ \A d \in Clients : d # c => pc'[d] = pc[d]
      /\ UNCHANGED <<table, call, rows, seen, outcome, applied>>
  BY DEF GetConn, ExecuteFails, CommitRefused, Rollback, Interrupt, Step, RepoInv, TypeOK
<1>2. Phase' = Phase
  BY <1>1, PhaseKept
<1>3. QED
  BY <1>1, <1>2 DEF Store!vars, Phase

LEMMA StoreStep ==
  ASSUME RepoInv, [Next]_vars
  PROVE  [Store!Next]_(Store!vars)
<1>1. ASSUME NEW c \in Clients, Save(c) \/ SaveBatch(c) \/ Query(c) PROVE Store!Next
  <2>1. CASE Save(c)
    BY <2>1, BeginImplements DEF Save, Store!Next
  <2>2. CASE SaveBatch(c)
    BY <2>2, BeginImplements DEF SaveBatch, Store!Next
  <2>3. CASE Query(c)
    BY <2>3, BeginImplements DEF Query, Store!Next
  <2>4. QED
    BY <1>1, <2>1, <2>2, <2>3
<1>2. ASSUME NEW c \in Clients,
             Execute(c) \/ Commit(c) \/ CommitUnacknowledged(c) \/ CommitInterrupted(c)
      PROVE  Store!Next \/ UNCHANGED Store!vars
  BY <1>2, ExecuteImplements, CommitImplements DEF Store!Next
<1>3. ASSUME NEW c \in Clients,
             \/ PutConn(c) \/ PutConnInterrupted(c)
             \/ GetConnFails(c) \/ GetConnInterrupted(c)
      PROVE  Store!Next
  BY <1>3, EndImplements DEF Store!Next
<1>4. CASE UNCHANGED vars
  BY <1>4 DEF vars, clients, Store!vars
<1>5. QED
  BY <1>1, <1>2, <1>3, <1>4, InternalImplements DEF Next, Proceed

(* PostgresReadingRepo keeps the promise of the port: whatever fails, a    *)
(* call takes effect as a whole and at one moment, once if it returns and  *)
(* at most once if it raises.                                              *)
THEOREM StoreIsImplemented == Spec => ImplementsStore
<1>1. Init => Store!Init
  BY DEF Init, Store!Init, Nothing, Store!Nothing
<1>2. RepoInv /\ [Next]_vars => [Store!Next]_(Store!vars)
  BY StoreStep
<1>3. QED
  BY <1>1, <1>2, RepoInvariant, PTL DEF Spec, Store!Spec, ImplementsStore
-----------------------------------------------------------------------------
(***************************************************************************)
(* Visibility.  A write that has been committed and whose call has not yet *)
(* returned is in the table and not in acked: the table is ahead of acked  *)
(* by at least those.                                                      *)
(***************************************************************************)
Owed(r) == {c \in Clients : /\ pc[c] = "putconn" /\ failing[c] = "no"
                            /\ call[c] \in Writes /\ r \in rows[c]}

Visible ==
  /\ \A r \in Rows : acked[r] + Cardinality(Owed(r)) <= table[r]
  /\ \A c \in Clients, r \in Rows : floor[c][r] <= acked[r]
  /\ AcknowledgedIsVisible

LEMMA OwedCount ==
  ASSUME NEW r
  PROVE  IsFiniteSet(Owed(r)) /\ Cardinality(Owed(r)) \in Nat
BY RepoAssumption, FS_Subset, FS_CardinalityType DEF Owed

(* No client but c goes or comes. *)
OthersOweTheSame(c) ==
  \A d \in Clients : d # c =>
    pc'[d] = pc[d] /\ failing'[d] = failing[d] /\ call'[d] = call[d] /\ rows'[d] = rows[d]

LEMMA OwedKept ==
  ASSUME NEW c \in Clients, OthersOweTheSame(c), NEW r,
         pc[c] # "putconn", pc'[c] # "putconn" \/ failing'[c] # "no"
  PROVE  Owed(r)' = Owed(r)
BY DEF Owed, OthersOweTheSame

(* What leaves the table, the results and acked alone, keeps Visible. *)
LEMMA VisibleKept ==
  ASSUME RepoInv, Visible, NEW c \in Clients, OthersOweTheSame(c),
         pc[c] # "putconn", pc'[c] # "putconn" \/ failing'[c] # "no",
         UNCHANGED <<table, seen, acked, floor, call, applied>>
  PROVE  Visible'
<1>1. \A r : Owed(r)' = Owed(r)
  BY OwedKept
<1>2. QED
  BY <1>1 DEF Visible, AcknowledgedIsVisible

LEMMA BeginVisible ==
  ASSUME RepoInv, Visible, NEW c \in Clients, NEW op, NEW rs, Begin(c, op, rs)
  PROVE  Visible'
<1>1. /\ pc[c] = "idle" /\ pc'[c] = "getconn" /\ OthersOweTheSame(c)
      /\ UNCHANGED <<table, seen, acked>>
  BY DEF Begin, Step, OthersOweTheSame, RepoInv, TypeOK
<1>2. \A r : Owed(r)' = Owed(r)
  BY <1>1, OwedKept
<1>3. /\ floor'[c] = acked /\ ~applied'[c]
      /\ \A d \in Clients : d # c => /\ floor'[d] = floor[d] /\ applied'[d] = applied[d]
                                    /\ call'[d] = call[d]
  BY DEF Begin, RepoInv, TypeOK
<1>4. ASSUME NEW d \in Clients, NEW r \in Rows PROVE floor'[d][r] <= acked'[r]
  <2>1. acked[r] \in Nat
    BY DEF RepoInv, TypeOK
  <2>2. CASE d = c
    BY <1>1, <1>3, <2>1, <2>2
  <2>3. CASE d # c
    BY <1>1, <1>3, <2>3 DEF Visible
  <2>4. QED
    BY <2>2, <2>3
<1>5. AcknowledgedIsVisible'
  BY <1>1, <1>3 DEF Visible, AcknowledgedIsVisible
<1>6. QED
  BY <1>1, <1>2, <1>4, <1>5 DEF Visible

(* A query reads the table, which is ahead of what was acknowledged. *)
LEMMA ExecuteVisible ==
  ASSUME RepoInv, Visible, NEW c \in Clients, Execute(c)
  PROVE  Visible'
<1>1. /\ pc[c] = "execute" /\ pc'[c] = "commit" /\ OthersOweTheSame(c)
      /\ UNCHANGED <<table, acked, floor, call>>
  BY DEF Execute, Step, OthersOweTheSame, history, RepoInv, TypeOK
<1>2. CASE call[c] \in Writes
  <2>1. UNCHANGED <<seen, applied>>
    BY <1>2 DEF Execute
  <2>2. QED
    BY <1>1, <2>1, VisibleKept
<1>3. CASE call[c] \notin Writes
  <2>1. \A r : Owed(r)' = Owed(r)
    BY <1>1, OwedKept
  <2>2. /\ seen' = [seen EXCEPT ![c] = Plus(table, uncommitted[conn[c]])]
        /\ applied' = [applied EXCEPT ![c] = TRUE]
    BY <1>3 DEF Execute
  <2>3. Plus(table, uncommitted[conn[c]]) = table
    BY <1>1, RowCounts DEF RepoInv, TypeOK, Transactions
  <2>4. seen'[c] = table
    BY <2>2, <2>3 DEF RepoInv, TypeOK
  <2>5. \A d \in Clients : d # c => seen'[d] = seen[d] /\ applied'[d] = applied[d]
    BY <2>2 DEF RepoInv, TypeOK
  <2>6. \A r \in Rows : floor[c][r] <= table[r]
    <3> SUFFICES ASSUME NEW r \in Rows PROVE floor[c][r] <= table[r]
      OBVIOUS
    <3>1. floor[c][r] <= acked[r] /\ acked[r] + Cardinality(Owed(r)) <= table[r]
      BY DEF Visible
    <3>2. /\ floor[c][r] \in Nat /\ acked[r] \in Nat /\ table[r] \in Nat
      BY DEF RepoInv, TypeOK
    <3>3. Cardinality(Owed(r)) \in Nat
      BY OwedCount
    <3>4. QED
      BY <3>1, <3>2, <3>3
  <2>7. AcknowledgedIsVisible'
    <3> SUFFICES ASSUME NEW d \in Clients, call'[d] = "query" /\ applied'[d],
                        NEW r \in Rows
                 PROVE  seen'[d][r] >= floor'[d][r]
      BY DEF AcknowledgedIsVisible
    <3>1. CASE d = c
      <4>1. floor'[d][r] <= table[r] /\ seen'[d][r] = table[r]
        BY <1>1, <2>4, <2>6, <3>1
      <4>2. floor[c][r] \in Nat /\ table[r] \in Nat
        BY DEF RepoInv, TypeOK
      <4>3. QED
        BY <1>1, <3>1, <4>1, <4>2
    <3>2. CASE d # c
      BY <1>1, <2>5, <3>2 DEF Visible, AcknowledgedIsVisible
    <3>3. QED
      BY <3>1, <3>2
  <2>8. QED
    BY <1>1, <2>1, <2>7 DEF Visible
<1>4. QED
  BY <1>2, <1>3

(* A commit puts the rows of a write into the table, and if it is          *)
(* acknowledged its client is owed them.                                   *)
LEMMA CommitVisible ==
  ASSUME RepoInv, Visible, NEW c \in Clients,
         Commit(c) \/ CommitUnacknowledged(c) \/ CommitInterrupted(c)
  PROVE  Visible'
<1>1. /\ pc[c] = "commit" /\ OthersOweTheSame(c) /\ Committed(c)
      /\ UNCHANGED <<seen, acked, floor, call, rows>>
  BY DEF Commit, CommitUnacknowledged, CommitInterrupted, Step, OthersOweTheSame,
         history, RepoInv, TypeOK
<1>2. table' = IF call[c] \in Writes THEN Store!Written(table, rows[c]) ELSE table
  BY <1>1, CommitWrites
<1>3. \A r : Owed(r)' \subseteq Owed(r) \union {c}
  BY <1>1 DEF Owed, OthersOweTheSame
<1>4. \A r \in Rows : acked'[r] + Cardinality(Owed(r)') <= table'[r]
  <2> SUFFICES ASSUME NEW r \in Rows PROVE acked[r] + Cardinality(Owed(r)') <= table'[r]
    BY <1>1
  <2>1. /\ acked[r] \in Nat /\ table[r] \in Nat /\ Cardinality(Owed(r)) \in Nat
        /\ acked[r] + Cardinality(Owed(r)) <= table[r]
    BY OwedCount DEF RepoInv, TypeOK, Visible
  <2>2. CASE call[c] \in Writes /\ r \in rows[c]
    <3>1. table'[r] = table[r] + 1
      BY <1>2, <2>2 DEF Store!Written, RepoInv, TypeOK
    <3>2. IsFiniteSet(Owed(r))
      BY OwedCount
    <3>3. /\ IsFiniteSet(Owed(r) \union {c})
          /\ Cardinality(Owed(r) \union {c}) <= Cardinality(Owed(r)) + 1
      <4>1. /\ IsFiniteSet(Owed(r) \union {c})
            /\ \/ Cardinality(Owed(r) \union {c}) = Cardinality(Owed(r))
               \/ Cardinality(Owed(r) \union {c}) = Cardinality(Owed(r)) + 1
        BY <3>2, FS_AddElement, Zenon
      <4>2. QED
        BY <2>1, <4>1
    <3>4. /\ Cardinality(Owed(r)') <= Cardinality(Owed(r) \union {c})
          /\ Cardinality(Owed(r)') \in Nat /\ Cardinality(Owed(r) \union {c}) \in Nat
      BY <1>3, <3>3, FS_Subset, FS_CardinalityType
    <3>5. QED
      BY <2>1, <3>1, <3>3, <3>4
  <2>3. CASE ~(call[c] \in Writes /\ r \in rows[c])
    <3>1. table'[r] = table[r]
      BY <1>2, <2>3 DEF Store!Written, RepoInv, TypeOK
    <3>2. Owed(r)' = Owed(r)
      BY <1>1, <2>3 DEF Owed, OthersOweTheSame
    <3>3. QED
      BY <2>1, <3>1, <3>2
  <2>4. QED
    BY <2>2, <2>3
<1>5. AcknowledgedIsVisible'
  <2> SUFFICES ASSUME NEW d \in Clients, call'[d] = "query" /\ applied'[d], NEW r \in Rows
               PROVE  seen'[d][r] >= floor'[d][r]
    BY DEF AcknowledgedIsVisible
  <2>1. applied[d]
    <3>1. applied' = [applied EXCEPT ![c] = TRUE] /\ applied \in [Clients -> BOOLEAN]
      BY <1>1 DEF Committed, RepoInv, TypeOK
    <3>2. CASE d = c
      BY <1>1, <3>2 DEF RepoInv, Effects
    <3>3. CASE d # c
      BY <3>1, <3>3
    <3>4. QED
      BY <3>2, <3>3
  <2>2. QED
    BY <1>1, <2>1 DEF Visible, AcknowledgedIsVisible
<1>6. QED
  BY <1>1, <1>4, <1>5 DEF Visible

(* A call that returns moves its rows from owed to acknowledged;        *)
(* an interrupted one keeps them unacknowledged.                           *)
LEMMA PutConnVisible ==
  ASSUME RepoInv, Visible, NEW c \in Clients, PutConn(c) \/ PutConnInterrupted(c)
  PROVE  Visible'
<1>1. /\ pc[c] = "putconn" /\ pc'[c] = "idle" /\ OthersOweTheSame(c)
      /\ UNCHANGED <<table, seen, floor, call, applied>>
      /\ \/ acked' = IF failing[c] = "no" /\ call[c] \in Writes
                       THEN Plus(acked, Once(rows[c])) ELSE acked
         \/ acked' = acked
  BY DEF PutConn, PutConnInterrupted, Ended, Step, OthersOweTheSame, RepoInv, TypeOK
<1>2. \A r : Owed(r)' = Owed(r) \ {c}
  BY <1>1 DEF Owed, OthersOweTheSame
<1>3. \A r \in Rows : /\ acked'[r] + Cardinality(Owed(r)') <= table'[r]
                      /\ acked[r] <= acked'[r]
  <2> SUFFICES ASSUME NEW r \in Rows
               PROVE  /\ acked'[r] + Cardinality(Owed(r)') <= table[r]
                      /\ acked[r] <= acked'[r]
    BY <1>1
  <2>1. /\ acked[r] \in Nat /\ table[r] \in Nat /\ Cardinality(Owed(r)) \in Nat
        /\ acked[r] + Cardinality(Owed(r)) <= table[r]
    BY OwedCount DEF RepoInv, TypeOK, Visible
  <2>2. Cardinality(Owed(r)') = IF c \in Owed(r) THEN Cardinality(Owed(r)) - 1
                                                 ELSE Cardinality(Owed(r))
    BY <1>2, OwedCount, FS_RemoveElement
  <2>3. acked'[r] \in {acked[r], IF c \in Owed(r) THEN acked[r] + 1 ELSE acked[r]}
    BY <1>1, <2>1 DEF Owed, Plus, Once, RepoInv, TypeOK
  <2>4. QED
    BY <2>1, <2>2, <2>3
<1>4. \A d \in Clients, r \in Rows : floor'[d][r] <= acked'[r]
  <2> SUFFICES ASSUME NEW d \in Clients, NEW r \in Rows PROVE floor[d][r] <= acked'[r]
    BY <1>1
  <2>1. floor[d][r] <= acked[r] /\ acked[r] <= acked'[r]
    BY <1>3 DEF Visible
  <2>2. floor[d][r] \in Nat /\ acked[r] \in Nat /\ acked'[r] \in Nat
    BY TypesStep, RowCounts, <1>1 DEF RepoInv, TypeOK
  <2>3. QED
    BY <2>1, <2>2
<1>5. QED
  BY <1>1, <1>3, <1>4 DEF Visible, AcknowledgedIsVisible

LEMMA VisibleStep ==
  ASSUME RepoInv, Visible, [Next]_vars
  PROVE  Visible'
<1>1. ASSUME NEW c \in Clients, Save(c) \/ SaveBatch(c) \/ Query(c) PROVE Visible'
  <2>1. CASE Save(c)
    BY <2>1, BeginVisible DEF Save
  <2>2. CASE SaveBatch(c)
    BY <2>2, BeginVisible DEF SaveBatch
  <2>3. CASE Query(c)
    BY <2>3, BeginVisible DEF Query
  <2>4. QED
    BY <1>1, <2>1, <2>2, <2>3
<1>2. ASSUME NEW c \in Clients,
             \/ GetConn(c) \/ GetConnFails(c) \/ GetConnInterrupted(c)
             \/ ExecuteFails(c) \/ CommitRefused(c) \/ Rollback(c) \/ Interrupt(c)
      PROVE  Visible'
  <2>1. /\ pc[c] # "putconn" /\ OthersOweTheSame(c)
        /\ UNCHANGED <<table, seen, acked, floor, call, applied>>
    BY <1>2 DEF GetConn, GetConnFails, GetConnInterrupted, Ended, ExecuteFails, CommitRefused,
                Rollback, Interrupt, Step, OthersOweTheSame, history, RepoInv, TypeOK
  <2>2. pc'[c] # "putconn" \/ failing'[c] # "no"
    BY <1>2 DEF GetConn, GetConnFails, GetConnInterrupted, ExecuteFails, CommitRefused,
                Rollback, Interrupt, Step, RepoInv, TypeOK, Effects
  <2>3. QED
    BY <2>1, <2>2, VisibleKept
<1>3. CASE UNCHANGED vars
  BY <1>3 DEF vars, clients, history, Visible, Owed, AcknowledgedIsVisible
<1>4. QED
  BY <1>1, <1>2, <1>3, ExecuteVisible, CommitVisible, PutConnVisible DEF Next, Proceed

(* A query returns every write that had been acknowledged when it began,   *)
(* whichever connections the two calls used.                               *)
THEOREM AcknowledgedIsAlwaysVisible == Spec => []AcknowledgedIsVisible
<1>1. Init => Visible
  <2> SUFFICES ASSUME Init PROVE Visible
    OBVIOUS
  <2>1. \A r \in Rows : Owed(r) = {} /\ acked[r] = 0 /\ table[r] = 0
    BY DEF Init, Owed, Nothing
  <2>2. \A r \in Rows : acked[r] + Cardinality(Owed(r)) <= table[r]
    BY <2>1, FS_EmptySet
  <2>3. QED
    BY <2>2 DEF Init, Visible, AcknowledgedIsVisible, Nothing
<1>2. RepoInv /\ Visible /\ [Next]_vars => Visible'
  BY VisibleStep
<1>3. Visible => AcknowledgedIsVisible
  BY DEF Visible
<1>4. QED
  BY <1>1, <1>2, <1>3, RepoInvariant, PTL DEF Spec
-----------------------------------------------------------------------------
(* With as many connections as clients, and none leaked, one who asks for a connection      *)
(* finds one: the others hold at most one each.                            *)
LEMMA PoolSuffices ==
  ASSUME RepoInv, Cardinality(Clients) <= Cardinality(Conns), leaked = {},
         NEW c \in Clients, pc[c] = "getconn"
  PROVE  pool # {}
<1> SUFFICES ASSUME pool = {} PROVE FALSE
  OBVIOUS
<1> DEFINE others == Clients \ {c}
           holder == [k \in Conns |-> CHOOSE d \in Clients : conn[d] = k]
<1>1. \A k \in Conns : \E d \in Clients : conn[d] = k
  BY DEF RepoInv, ConnsApart
<1>2. conn[c] \notin Conns
  BY RepoAssumption DEF RepoInv, ConnsApart, Holding
<1>3. \A k \in Conns : holder[k] \in others /\ conn[holder[k]] = k
  BY <1>1, <1>2
<1>4. /\ IsFiniteSet(others) /\ Cardinality(others) = Cardinality(Clients) - 1
      /\ Cardinality(Clients) \in Nat
  BY RepoAssumption, FS_RemoveElement, FS_CardinalityType
<1>5. IsFiniteSet(Conns) /\ Cardinality(Conns) \in Nat
  BY RepoAssumption, FS_CardinalityType
<1>6. Cardinality(others) < Cardinality(Conns)
  BY <1>4, <1>5
<1>7. holder \in [Conns -> others]
  BY <1>3
<1>8. \E k, l \in Conns : k # l /\ holder[k] = holder[l]
  <2> HIDE DEF holder, others
  <2> QED
    BY <1>4, <1>5, <1>6, <1>7, FS_PigeonHole
<1>9. QED
  BY <1>3, <1>8

(* No call is on its way to raising, and no connection is leaked. *)
Unharmed ==
  /\ leaked = {}
  /\ \A c \in Clients : pc[c] # "rollback" /\ failing[c] = "no" /\ outcome[c] # "raised"

LEMMA UnharmedStep ==
  ASSUME Faults = {}, NotJson = {}, Cardinality(Clients) <= Cardinality(Conns),
         RepoInv, Unharmed, [Next]_vars
  PROVE  Unharmed'
<1> USE DEF Unharmed, Step, clients, history
<1>1. /\ pc \in [Clients -> {"idle", "getconn", "execute", "commit", "rollback", "putconn"}]
      /\ failing \in [Clients -> {"no", "Exception", "BaseException"}]
      /\ outcome \in [Clients -> {"none", "returned", "raised"}]
  BY DEF RepoInv, TypeOK
<1>2. ASSUME NEW c \in Clients,
             \/ GetConnFails(c) \/ GetConnInterrupted(c) \/ ExecuteFails(c)
             \/ CommitRefused(c) \/ CommitUnacknowledged(c) \/ CommitInterrupted(c)
             \/ Interrupt(c) \/ Rollback(c) \/ PutConnInterrupted(c)
      PROVE  FALSE
  <2>1. ~GetConnFails(c)
    BY PoolSuffices DEF GetConnFails
  <2>2. ~ExecuteFails(c)
    BY DEF ExecuteFails, Rejected
  <2>3. /\ ~CommitRefused(c) /\ ~CommitUnacknowledged(c) /\ ~Interrupt(c)
        /\ ~GetConnInterrupted(c) /\ ~CommitInterrupted(c) /\ ~PutConnInterrupted(c)
    BY DEF CommitRefused, CommitUnacknowledged, Interrupt, GetConnInterrupted,
           CommitInterrupted, PutConnInterrupted
  <2>4. ~Rollback(c)
    BY DEF Rollback
  <2>5. QED
    BY <1>2, <2>1, <2>2, <2>3, <2>4
<1>3. ASSUME NEW c \in Clients, Save(c) \/ SaveBatch(c) \/ Query(c) PROVE Unharmed'
  BY <1>1, <1>3 DEF Save, SaveBatch, Query, Begin
<1>4. ASSUME NEW c \in Clients, GetConn(c) \/ Execute(c) \/ Commit(c) PROVE Unharmed'
  BY <1>1, <1>4 DEF GetConn, Execute, Commit
<1>5. ASSUME NEW c \in Clients, PutConn(c) PROVE Unharmed'
  BY <1>1, <1>5 DEF PutConn, Ended
<1>6. CASE UNCHANGED vars
  BY <1>6 DEF vars
<1>7. QED
  BY <1>2, <1>3, <1>4, <1>5, <1>6 DEF Next, Proceed

(* Metadata is all that keeps a reading out of the tables: without faults, *)
(* with a connection per client and metadata whose text is JSON, every     *)
(* call returns.                                                           *)
THEOREM CallsReturnWithoutMetadata ==
  ASSUME Faults = {}, NotJson = {}, Cardinality(Clients) <= Cardinality(Conns)
  PROVE  Spec => []CallsReturn
<1>1. Init => Unharmed
  BY DEF Init, Unharmed
<1>2. RepoInv /\ Unharmed /\ [Next]_vars => Unharmed'
  BY UnharmedStep
<1>3. Unharmed => CallsReturn
  BY DEF Unharmed, CallsReturn
<1>4. QED
  BY <1>1, <1>2, <1>3, RepoInvariant, PTL DEF Spec
=============================================================================
