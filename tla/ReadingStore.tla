---------------------------- MODULE ReadingStore ----------------------------
(***************************************************************************)
(* What a ReadingRepository (core/ports/interfaces.py) promises to the     *)
(* clients that share it.  A call takes effect at once, at some moment     *)
(* between its start and its end.  If it returns, it has taken effect      *)
(* exactly once; if it raises, at most once.                               *)
(***************************************************************************)
EXTENDS Integers

CONSTANTS
  Clients,
  Rows      \* what a reading becomes in the store; equal readings, equal rows

Writes  == {"save", "save_batch"}
Queries == {"query"}     \* get_by_sensor, get_latest, get_stats

VARIABLES
  table,    \* table[r]: how often row r is stored
  phase,    \* phase[c]: "idle", or the call of c is "open" or has "applied"
  call,     \* call[c]: the operation c runs or ran last
  rows,     \* rows[c]: what it writes
  seen,     \* seen[c]: the table as the last query of c saw it
  outcome   \* outcome[c]: how the last call of c ended

vars == <<table, phase, call, rows, seen, outcome>>

Nothing == [r \in Rows |-> 0]

TypeOK ==
  /\ table \in [Rows -> Nat]
  /\ phase \in [Clients -> {"idle", "open", "applied"}]
  /\ call \in [Clients -> Writes \union Queries]
  /\ rows \in [Clients -> SUBSET Rows]
  /\ seen \in [Clients -> [Rows -> Nat]]
  /\ outcome \in [Clients -> {"none", "returned", "raised"}]

Init ==
  /\ table = Nothing
  /\ phase = [c \in Clients |-> "idle"]
  /\ call = [c \in Clients |-> "query"]
  /\ rows = [c \in Clients |-> {}]
  /\ seen = [c \in Clients |-> Nothing]
  /\ outcome = [c \in Clients |-> "none"]

Begin(c, op, rs) ==
  /\ phase[c] = "idle"
  /\ phase' = [phase EXCEPT ![c] = "open"]
  /\ call' = [call EXCEPT ![c] = op]
  /\ rows' = [rows EXCEPT ![c] = rs]
  /\ outcome' = [outcome EXCEPT ![c] = "none"]
  /\ UNCHANGED <<table, seen>>

Written(t, rs) == [r \in Rows |-> t[r] + (IF r \in rs THEN 1 ELSE 0)]

Apply(c) ==
  /\ phase[c] = "open"
  /\ phase' = [phase EXCEPT ![c] = "applied"]
  /\ IF call[c] \in Writes
       THEN table' = Written(table, rows[c]) /\ UNCHANGED seen
       ELSE seen' = [seen EXCEPT ![c] = table] /\ UNCHANGED table
  /\ UNCHANGED <<call, rows, outcome>>

End(c, how) ==
  /\ phase' = [phase EXCEPT ![c] = "idle"]
  /\ outcome' = [outcome EXCEPT ![c] = how]
  /\ UNCHANGED <<table, call, rows, seen>>

Return(c) == phase[c] = "applied" /\ End(c, "returned")
Fail(c)   == phase[c] # "idle" /\ End(c, "raised")

(* Not a call of the port: the owner of the store may empty it. *)
Clear ==
  /\ table' = Nothing
  /\ UNCHANGED <<phase, call, rows, seen, outcome>>

Next ==
  \/ \E c \in Clients :
       \/ \E r \in Rows : Begin(c, "save", {r})
       \/ \E rs \in SUBSET Rows : Begin(c, "save_batch", rs)
       \/ Begin(c, "query", {})
       \/ Apply(c) \/ Return(c) \/ Fail(c)
  \/ Clear

Spec == Init /\ [][Next]_vars
=============================================================================
