----------------------------- MODULE PostgresRepo ---------------------------
(***************************************************************************)
(* The PostgresReadingRepo of adapters/persistence/postgres_repo.py: the   *)
(* clients' calls, the connections they take from the pool, and the        *)
(* transaction of each connection.                                         *)
(*                                                                         *)
(* The pool and the database are external (psycopg2).  A statement runs in *)
(* the transaction of its connection and is visible to others once         *)
(* committed.  An exhausted pool raises, and putconn rolls back what a     *)
(* connection brings back uncommitted.                                     *)
(***************************************************************************)
EXTENDS Integers, FiniteSets

CONSTANTS
  Clients, Rows,
  Conns, NoConn,  \* the connections of the pool, and none
  NotJson,        \* the rows whose str(metadata) is no JSON text: a dict that
                  \* is not empty prints with single quotes
  Faults,         \* what may go wrong, a subset of AllFaults
  MaxCalls        \* bound of the model: the calls made

AllFaults == {"connect", "execute", "commit", "acknowledge", "interrupt"}

ASSUME RepoAssumption ==
  /\ IsFiniteSet(Clients) /\ IsFiniteSet(Conns)
  /\ NoConn \notin Conns
  /\ NotJson \subseteq Rows
  /\ Faults \subseteq AllFaults
  /\ MaxCalls \in Nat

VARIABLES
  table,     \* the committed rows, as in ReadingStore
  pool,      \* the connections nobody holds
  leaked,    \* history: the connections that an interrupt outside the try, or
             \* in its "finally", has kept from the pool for good
  conn,      \* conn[c]: the connection client c holds, or NoConn
  uncommitted, \* uncommitted[k]: the rows inserted on connection k since its
               \* last commit or rollback
  pc,        \* pc[c]: what client c does next
  call, rows, seen, outcome, \* as in ReadingStore
  failing,   \* failing[c]: the kind of exception on its way out of c's call
  applied,   \* history: the call of c has taken effect
  acked,     \* history: acked[r]: the writes of r that have returned
  floor,     \* history: floor[c]: acked when c's call began
  calls      \* history: the calls made so far

clients == <<pc, conn, call, rows, seen, outcome, failing, applied>>
history == <<acked, floor, calls>>
vars    == <<table, pool, leaked, uncommitted, clients, history>>

Nothing == [r \in Rows |-> 0]
Plus(t, u) == [r \in Rows |-> t[r] + u[r]]
Once(rs)   == [r \in Rows |-> IF r \in rs THEN 1 ELSE 0]

Writes == {"save", "save_batch"}

TypeOK ==
  /\ table \in [Rows -> Nat]
  /\ pool \subseteq Conns
  /\ leaked \subseteq Conns
  /\ conn \in [Clients -> Conns \union {NoConn}]
  /\ uncommitted \in [Conns -> [Rows -> Nat]]
  /\ pc \in [Clients -> {"idle", "getconn", "execute", "commit", "rollback", "putconn"}]
  /\ call \in [Clients -> Writes \union {"query"}]
  /\ rows \in [Clients -> SUBSET Rows]
  /\ seen \in [Clients -> [Rows -> Nat]]
  /\ outcome \in [Clients -> {"none", "returned", "raised"}]
  /\ failing \in [Clients -> {"no", "Exception", "BaseException"}]
  /\ applied \in [Clients -> BOOLEAN]
  /\ acked \in [Rows -> Nat]
  /\ floor \in [Clients -> [Rows -> Nat]]
  /\ calls \in 0..MaxCalls

Init ==
  /\ table = Nothing
  /\ pool = Conns
  /\ leaked = {}
  /\ conn = [c \in Clients |-> NoConn]
  /\ uncommitted = [k \in Conns |-> Nothing]
  /\ pc = [c \in Clients |-> "idle"]
  /\ call = [c \in Clients |-> "query"]
  /\ rows = [c \in Clients |-> {}]
  /\ seen = [c \in Clients |-> Nothing]
  /\ outcome = [c \in Clients |-> "none"]
  /\ failing = [c \in Clients |-> "no"]
  /\ applied = [c \in Clients |-> FALSE]
  /\ acked = Nothing
  /\ floor = [c \in Clients |-> Nothing]
  /\ calls = 0
-----------------------------------------------------------------------------
Step(c, from, to) == pc[c] = from /\ pc' = [pc EXCEPT ![c] = to]

Ended(c, how) ==
  /\ outcome' = [outcome EXCEPT ![c] = how]
  /\ acked' = IF how = "returned" /\ call[c] \in Writes
                THEN Plus(acked, Once(rows[c])) ELSE acked

Begin(c, op, rs) ==
  /\ calls < MaxCalls
  /\ calls' = calls + 1
  /\ Step(c, "idle", "getconn")
  /\ call' = [call EXCEPT ![c] = op]
  /\ rows' = [rows EXCEPT ![c] = rs]
  /\ outcome' = [outcome EXCEPT ![c] = "none"]
  /\ failing' = [failing EXCEPT ![c] = "no"]
  /\ applied' = [applied EXCEPT ![c] = FALSE]
  /\ floor' = [floor EXCEPT ![c] = acked]
  /\ UNCHANGED <<table, pool, leaked, uncommitted, conn, seen, acked>>

(* An empty batch returns 0 before anything else. *)
Save(c)      == \E r \in Rows : Begin(c, "save", {r})
SaveBatch(c) == \E rs \in (SUBSET Rows) \ {{}} : Begin(c, "save_batch", rs)
Query(c)     == Begin(c, "query", {})

(* _get_conn: getconn is outside its try. *)
GetConn(c) ==
  /\ Step(c, "getconn", "execute")
  /\ \E k \in pool :
       /\ pool' = pool \ {k}
       /\ conn' = [conn EXCEPT ![c] = k]
  /\ UNCHANGED <<table, leaked, uncommitted, call, rows, seen, outcome, failing, applied,
                 history>>

GetConnInsideTry(c) ==                          \* mutant: getconn inside the try
  /\ pool = {} \/ "connect" \in Faults
  /\ Step(c, "getconn", "putconn")
  /\ failing' = [failing EXCEPT ![c] = "Exception"]
  /\ UNCHANGED <<table, pool, leaked, uncommitted, conn, call, rows, seen, outcome, applied,
                 history>>

GetConnFails(c) ==
  /\ pool = {} \/ "connect" \in Faults
  /\ Step(c, "getconn", "idle")
  /\ Ended(c, "raised")
  /\ UNCHANGED <<table, pool, leaked, uncommitted, conn, call, rows, seen, failing, applied,
                 floor, calls>>

(* An interrupt (KeyboardInterrupt...) between getconn and the try: before  *)
(* the pool gives a connection, or after; then nothing gives it back.      *)
GetConnInterrupted(c) ==
  /\ "interrupt" \in Faults
  /\ Step(c, "getconn", "idle")
  /\ \/ UNCHANGED <<pool, leaked>>
     \/ \E k \in pool : pool' = pool \ {k} /\ leaked' = leaked \union {k}
  /\ failing' = [failing EXCEPT ![c] = "BaseException"]
  /\ Ended(c, "raised")
  /\ UNCHANGED <<table, uncommitted, conn, call, rows, seen, applied, floor, calls>>

(* The statement.  Only save writes the metadata; save_batch leaves it out. *)
Rejected(c) == call[c] = "save" /\ rows[c] \intersect NotJson # {}

Execute(c) ==
  /\ ~Rejected(c)
  /\ Step(c, "execute", "commit")
  /\ IF call[c] \in Writes
       THEN /\ uncommitted' = [uncommitted EXCEPT ![conn[c]] = Plus(@, Once(rows[c]))]
            /\ UNCHANGED <<seen, applied>>
       ELSE /\ seen' = [seen EXCEPT ![c] = Plus(table, uncommitted[conn[c]])]
            /\ applied' = [applied EXCEPT ![c] = TRUE]
            /\ UNCHANGED uncommitted
  /\ UNCHANGED <<table, pool, leaked, conn, call, rows, outcome, failing, history>>

ExecuteFails(c) ==
  /\ Rejected(c) \/ "execute" \in Faults
  /\ Step(c, "execute", "rollback")
  /\ failing' = [failing EXCEPT ![c] = "Exception"]
  /\ UNCHANGED <<table, pool, leaked, uncommitted, conn, call, rows, seen, outcome, applied,
                 history>>

(* The server commits what the transaction of c's connection holds. *)
Committed(c) ==
  /\ table' = Plus(table, uncommitted[conn[c]])
  /\ uncommitted' = [uncommitted EXCEPT ![conn[c]] = Nothing]
  /\ applied' = [applied EXCEPT ![c] = TRUE]

CommitForgotten(c) ==                           \* mutant: no commit
  /\ Step(c, "commit", "putconn")
  /\ applied' = [applied EXCEPT ![c] = TRUE]
  /\ UNCHANGED <<table, pool, leaked, uncommitted, conn, call, rows, seen, outcome, failing,
                 history>>

Commit(c) ==
  /\ Step(c, "commit", "putconn")
  /\ Committed(c)
  /\ UNCHANGED <<pool, leaked, conn, call, rows, seen, outcome, failing, history>>

CommitRefused(c) ==
  /\ "commit" \in Faults
  /\ Step(c, "commit", "rollback")
  /\ failing' = [failing EXCEPT ![c] = "Exception"]
  /\ UNCHANGED <<table, pool, leaked, uncommitted, conn, call, rows, seen, outcome, applied,
                 history>>

(* The commit takes effect, its answer is lost and commit() raises. *)
CommitUnacknowledged(c) ==
  /\ "acknowledge" \in Faults
  /\ Step(c, "commit", "rollback")
  /\ Committed(c)
  /\ failing' = [failing EXCEPT ![c] = "Exception"]
  /\ UNCHANGED <<pool, leaked, conn, call, rows, seen, outcome, history>>

(* An interrupt after the server has committed, still inside the try. *)
CommitInterrupted(c) ==
  /\ "interrupt" \in Faults
  /\ Step(c, "commit", "putconn")
  /\ Committed(c)
  /\ failing' = [failing EXCEPT ![c] = "BaseException"]
  /\ UNCHANGED <<pool, leaked, conn, call, rows, seen, outcome, history>>

RollbackSkipped(c) ==                           \* mutant: no rollback
  /\ Step(c, "rollback", "putconn")
  /\ UNCHANGED <<table, pool, leaked, uncommitted, conn, call, rows, seen, outcome, failing,
                 applied, history>>

(* except Exception: rollback, and raise again.  Should rollback() raise   *)
(* (the connection is lost) the server has dropped the transaction, and    *)
(* the call raises all the same.                                           *)
Rollback(c) ==
  /\ Step(c, "rollback", "putconn")
  /\ uncommitted' = [uncommitted EXCEPT ![conn[c]] = Nothing]
  /\ UNCHANGED <<table, pool, leaked, conn, call, rows, seen, outcome, failing, applied,
                 history>>

InterruptSwallowed(c) ==                        \* mutant: a return in "finally"
  /\ "interrupt" \in Faults
  /\ pc[c] \in {"execute", "commit", "rollback"}
  /\ pc' = [pc EXCEPT ![c] = "putconn"]
  /\ UNCHANGED <<table, pool, leaked, uncommitted, conn, call, rows, seen, outcome, failing,
                 applied, history>>

(* A BaseException passes "except Exception", or comes before its rollback *)
(* has had any effect: neither commit nor rollback.                        *)
Interrupt(c) ==
  /\ "interrupt" \in Faults
  /\ pc[c] \in {"execute", "commit", "rollback"}
  /\ pc' = [pc EXCEPT ![c] = "putconn"]
  /\ failing' = [failing EXCEPT ![c] = "BaseException"]
  /\ UNCHANGED <<table, pool, leaked, uncommitted, conn, call, rows, seen, outcome, applied,
                 history>>

PutConnOnlyOnFailure(c) ==                      \* mutant: putconn in "except"
  /\ Step(c, "putconn", "idle")
  /\ pool' = IF failing[c] = "no" THEN pool ELSE pool \union {conn[c]}
  /\ conn' = [conn EXCEPT ![c] = NoConn]
  /\ Ended(c, IF failing[c] = "no" THEN "returned" ELSE "raised")
  /\ UNCHANGED <<table, leaked, uncommitted, call, rows, seen, failing, applied, floor,
                 calls>>

(* finally: the connection goes back, and the call returns or raises. *)
PutConn(c) ==
  /\ Step(c, "putconn", "idle")
  /\ pool' = pool \union {conn[c]}
  /\ conn' = [conn EXCEPT ![c] = NoConn]
  /\ uncommitted' = [uncommitted EXCEPT ![conn[c]] = Nothing]
  /\ Ended(c, IF failing[c] = "no" THEN "returned" ELSE "raised")
  /\ UNCHANGED <<table, leaked, call, rows, seen, failing, applied, floor, calls>>

(* An interrupt in the "finally": before putconn has taken the connection   *)
(* back, or after.                                                         *)
PutConnInterrupted(c) ==
  /\ "interrupt" \in Faults
  /\ Step(c, "putconn", "idle")
  /\ \/ /\ pool' = pool \union {conn[c]}
        /\ uncommitted' = [uncommitted EXCEPT ![conn[c]] = Nothing]
        /\ UNCHANGED leaked
     \/ /\ leaked' = leaked \union {conn[c]}
        /\ UNCHANGED <<pool, uncommitted>>
  /\ conn' = [conn EXCEPT ![c] = NoConn]
  /\ failing' = [failing EXCEPT ![c] = "BaseException"]
  /\ Ended(c, "raised")
  /\ UNCHANGED <<table, call, rows, seen, applied, floor, calls>>

Proceed(c) ==
  \/ GetConn(c) \/ GetConnFails(c) \/ GetConnInterrupted(c)
  \/ Execute(c) \/ ExecuteFails(c)
  \/ Commit(c) \/ CommitRefused(c) \/ CommitUnacknowledged(c) \/ CommitInterrupted(c)
  \/ Rollback(c) \/ Interrupt(c)
  \/ PutConn(c) \/ PutConnInterrupted(c)

Next == \E c \in Clients : Save(c) \/ SaveBatch(c) \/ Query(c) \/ Proceed(c)

Spec == Init /\ [][Next]_vars
-----------------------------------------------------------------------------
(* Each connection is in the pool or held by exactly one client: however   *)
(* calls fail, and wherever a BaseException cuts the statement, the commit *)
(* or the rollback short, none is lost, none is returned twice, none is    *)
(* shared.  Only an interrupt outside the try, or in its "finally", keeps  *)
(* a connection from the pool; nobody uses that one again.                 *)
ConnsAccounted ==
  /\ pool \intersect leaked = {}
  /\ \A k \in Conns : Cardinality({c \in Clients : conn[c] = k}) =
                      IF k \in pool \union leaked THEN 0 ELSE 1

(* Whether its call succeeds or fails, _get_conn gives a connection back   *)
(* with its transaction ended and leaves nothing to the pool's clean-up,   *)
(* except when a BaseException cuts the call short.                        *)
HandsBackCleanConns ==
  \A c \in Clients : pc[c] = "putconn" /\ failing[c] # "BaseException" =>
    uncommitted[conn[c]] = Nothing

(* A query sees every write that had returned before the query began.      *)
AcknowledgedIsVisible ==
  \A c \in Clients : call[c] = "query" /\ applied[c] =>
    \A r \in Rows : seen[c][r] >= floor[c][r]

(* With a connection for every client and no fault, every call returns:    *)
(* the store takes any reading the service hands it.                       *)
CallsReturn == \A c \in Clients : outcome[c] # "raised"

(* The transactions implement the port: a call takes effect at once, at    *)
(* the commit (a query: when it reads), never when it did not begin, never *)
(* in part, exactly once when it returns.                                  *)
Store ==
  INSTANCE ReadingStore WITH
    phase <- [c \in Clients |-> IF pc[c] = "idle" THEN "idle"
                                ELSE IF applied[c] THEN "applied" ELSE "open"]

ImplementsStore == Store!Spec
=============================================================================
