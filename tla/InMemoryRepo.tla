----------------------------- MODULE InMemoryRepo ---------------------------
(***************************************************************************)
(* The InMemoryReadingRepo of adapters/persistence/in_memory_repo.py,      *)
(* shared by clients: one list, which writes extend at its end and every   *)
(* query scans by index while others write.  append and extend are single  *)
(* steps of the interpreter; a query's scan is one step per reading, and   *)
(* what it does with its own copy of them belongs to the end of the scan.  *)
(***************************************************************************)
EXTENDS Integers, Sequences, FiniteSets, SequencesExt

CONSTANTS
  Clients,
  Rows,        \* SensorReading objects, or what equals them
  SensorOf, TimeOf, \* of each row: sensor_id and timestamp
  Anomalous,   \* the rows with status "anomaly"
  QueryCalls,  \* the calls of get_by_sensor, get_latest and get_stats
  StatsLimit,  \* the readings get_stats covers (10000 in the code)
  MaxBatch,    \* bound of the model: the longest batch
  MaxCalls     \* bound of the model: the calls made

(* A missing start or end is a time before or after all others. *)
ASSUME InMemoryAssumption ==
  /\ IsFiniteSet(Clients) /\ IsFiniteSet(Rows)
  /\ TimeOf \in [Rows -> Int]
  /\ Anomalous \subseteq Rows
  /\ \A q \in QueryCalls :
       /\ DOMAIN q = {"op", "sensor", "start", "end", "limit"}
       /\ q.start \in Int /\ q.end \in Int /\ q.limit \in Nat
       /\ q.op = "get_latest" => q.limit = 1
       /\ q.op = "get_stats" => q.limit = StatsLimit
  /\ QueryCalls # {}
  /\ StatsLimit \in Nat \ {0} /\ MaxBatch \in Nat /\ MaxCalls \in Nat

VARIABLES
  readings, \* _readings
  pc,       \* pc[c]: "idle", or what client c does next
  call,     \* call[c]: the operation c runs or ran last
  batch,    \* batch[c]: the readings it writes
  query,    \* query[c]: the query it runs or ran last
  at,       \* at[c]: the index of the scan, from 0
  outcome,  \* outcome[c]: how the last call of c ended
  results,  \* results[c]: what get_by_sensor has found or, at its end, returns
  snapshot, \* history: snapshot[c]: the list when the scan of c ended
  calls     \* history: the calls made so far

client == <<call, batch, query, outcome>>
vars   == <<readings, pc, client, at, results, snapshot, calls>>

TypeOK ==
  /\ readings \in Seq(Rows)
  /\ pc \in [Clients -> {"idle", "write", "scan", "return"}]
  /\ call \in [Clients -> {"save", "save_batch", "query"}]
  /\ batch \in [Clients -> Seq(Rows)]
  /\ query \in [Clients -> QueryCalls]
  /\ at \in [Clients -> Nat]
  /\ outcome \in [Clients -> {"none", "returned"}]
  /\ results \in [Clients -> Seq(Rows)]
  /\ snapshot \in [Clients -> Seq(Rows)]
  /\ calls \in 0..MaxCalls

Init ==
  /\ readings = <<>>
  /\ pc = [c \in Clients |-> "idle"]
  /\ call = [c \in Clients |-> "query"]
  /\ batch = [c \in Clients |-> <<>>]
  /\ query = [c \in Clients |-> CHOOSE q \in QueryCalls : TRUE]
  /\ at = [c \in Clients |-> 0]
  /\ outcome = [c \in Clients |-> "none"]
  /\ results = [c \in Clients |-> <<>>]
  /\ snapshot = [c \in Clients |-> <<>>]
  /\ calls = 0

-----------------------------------------------------------------------------
Step(c, from, to) == pc[c] = from /\ pc' = [pc EXCEPT ![c] = to]

Begin(c, op, to) ==
  /\ calls < MaxCalls
  /\ calls' = calls + 1
  /\ Step(c, "idle", to)
  /\ call' = [call EXCEPT ![c] = op]
  /\ outcome' = [outcome EXCEPT ![c] = "none"]

BeginWrite(c, op, rs) ==
  /\ Begin(c, op, "write")
  /\ batch' = [batch EXCEPT ![c] = rs]
  /\ UNCHANGED <<readings, query, at, results, snapshot>>

Save(c)      == \E r \in Rows : BeginWrite(c, "save", <<r>>)
SaveBatch(c) == \E n \in 0..MaxBatch : \E rs \in Injection(1..n, Rows) : BeginWrite(c, "save_batch", rs)

Query(c) ==
  /\ Begin(c, "query", "scan")
  /\ \E q \in QueryCalls : query' = [query EXCEPT ![c] = q]
  /\ batch' = [batch EXCEPT ![c] = <<>>]
  /\ at' = [at EXCEPT ![c] = 0]
  /\ results' = [results EXCEPT ![c] = <<>>]
  /\ UNCHANGED <<readings, snapshot>>

WriteNested(c) ==                               \* mutant: append for extend
  /\ Step(c, "write", "return")
  /\ readings' = Append(readings, batch[c])
  /\ UNCHANGED <<client, at, results, snapshot, calls>>

WriteCopy(c) ==                                 \* mutant: the list is copied,
  /\ Step(c, "write", "return")                 \* extended and put back, from
  /\ readings' = snapshot[c] \o batch[c]        \* a copy that is old
  /\ UNCHANGED <<client, at, results, snapshot, calls>>

Write(c) ==
  /\ Step(c, "write", "return")
  /\ readings' = readings \o batch[c]
  /\ UNCHANGED <<client, at, results, snapshot, calls>>

(* The comprehension that scans the list: next() looks at its length each  *)
(* time, so what others append meanwhile is still found.                   *)
ScanNext(c) ==
  /\ pc[c] = "scan"
  /\ at[c] < Len(readings)
  /\ at' = [at EXCEPT ![c] = @ + 1]
  /\ LET r == readings[at[c] + 1] IN
       results' = [results EXCEPT ![c] = IF SensorOf[r] = query[c].sensor THEN Append(@, r)
                                                                          ELSE @]
  /\ UNCHANGED <<readings, pc, client, snapshot, calls>>

Inside(r, q) == q.start <= TimeOf[r] /\ TimeOf[r] <= q.end

(* sort(reverse=True) keeps equal timestamps in their order. *)
BeforeReversed(s, i, j) ==                      \* mutant: sort(), reverse()
  TimeOf[s[i]] > TimeOf[s[j]] \/ (TimeOf[s[i]] = TimeOf[s[j]] /\ i > j)

Before(s, i, j) ==
  TimeOf[s[i]] > TimeOf[s[j]] \/ (TimeOf[s[i]] = TimeOf[s[j]] /\ i < j)

Rank(s, keys, i) == Cardinality({j \in keys : Before(s, j, i)})

Smaller(m, n) == IF m <= n THEN m ELSE n

(* The readings of s at these indices, sorted, and cut off at the limit. *)
Newest(s, keys, limit) ==
  [k \in 1..Smaller(limit, Cardinality(keys)) |-> s[CHOOSE i \in keys : Rank(s, keys, i) = k - 1]]

Kept(found, q) == {i \in DOMAIN found : Inside(found[i], q)}

AnswerUnsorted(found, q) ==                     \* mutant: sliced, then sorted
  LET kept == Kept(found, q)
  IN  Newest(found, {i \in kept : Cardinality({j \in kept : j <= i}) <= q.limit}, q.limit)

AnswerShort(found, q) ==                        \* mutant: a limit too low
  Newest(found, Kept(found, q), q.limit - 1)

Answer(found, q) == Newest(found, Kept(found, q), q.limit)

ScanEnd(c) ==
  /\ Step(c, "scan", "return")
  /\ at[c] >= Len(readings)
  /\ results' = [results EXCEPT ![c] = Answer(@, query[c])]
  /\ snapshot' = [snapshot EXCEPT ![c] = readings]
  /\ UNCHANGED <<readings, client, at, calls>>

Return(c) ==
  /\ Step(c, "return", "idle")
  /\ outcome' = [outcome EXCEPT ![c] = "returned"]
  /\ UNCHANGED <<readings, call, batch, query, at, results, snapshot, calls>>

(* The test helper clear(). *)
Clear ==
  /\ readings' = <<>>
  /\ UNCHANGED <<pc, client, at, results, snapshot, calls>>

(* How it is used: the tests clear the list only when no query scans it.   *)
ClearBetweenScans ==
  /\ \A c \in Clients : pc[c] # "scan"
  /\ Clear

Next ==
  \/ \E c \in Clients :
       \/ Save(c) \/ SaveBatch(c) \/ Query(c)
       \/ Write(c) \/ ScanNext(c) \/ ScanEnd(c) \/ Return(c)
  \/ ClearBetweenScans

Spec == Init /\ [][Next]_vars
-----------------------------------------------------------------------------
Answered == {c \in Clients : pc[c] = "return" /\ call[c] = "query"}
Matching(c) == {i \in DOMAIN snapshot[c] : /\ SensorOf[snapshot[c][i]] = query[c].sensor
                                           /\ Inside(snapshot[c][i], query[c])}

(* The ways to find a query's results in the list, each at a place of its  *)
(* own.                                                                    *)
Places(c) == {f \in Injection(DOMAIN results[c], Matching(c)) :
                \A k \in DOMAIN results[c] : results[c][k] = snapshot[c][f[k]]}

(* A query answers like the SQL of PostgresReadingRepo (WHERE sensor_id    *)
(* and recorded_at, ORDER BY recorded_at DESC LIMIT) on the readings       *)
(* stored at one moment of the call, however many are stored while it      *)
(* scans: none is missed, repeated or made up, and what the limit cuts off *)
(* is no newer than what is returned.                                      *)
ResultsAreNewest ==
  \A c \in Answered :
    /\ Len(results[c]) = Smaller(query[c].limit, Cardinality(Matching(c)))
    /\ \A k, l \in DOMAIN results[c] :
         k < l => TimeOf[results[c][k]] >= TimeOf[results[c][l]]
    /\ \E f \in Places(c) : \A k \in DOMAIN f, i \in Matching(c) \ Range(f) :
         TimeOf[results[c][k]] >= TimeOf[snapshot[c][i]]

(* Of readings with one timestamp, the one stored first is returned first  *)
(* (and is the "latest", until a newer one is stored): writes that pass    *)
(* the scan do not change their order.                                     *)
TiesInStoredOrder ==
  \A c \in Answered : \E f \in Places(c) : \A k \in DOMAIN f, i \in Matching(c) :
    i < f[k] /\ TimeOf[snapshot[c][i]] = TimeOf[results[c][k]]
      => \E l \in DOMAIN f : l < k /\ f[l] = i

(* Statistics agree with those of PostgresReadingRepo.get_stats, which     *)
(* cover every reading, as long as there are at most StatsLimit of them;   *)
(* of more, they cover just as many, the last one among them.              *)
Statistics(s, keys) ==
  [count     |-> Cardinality(keys),
   anomalies |-> Cardinality({i \in keys : s[i] \in Anomalous}),
   start     |-> {TimeOf[s[i]] : i \in {i \in keys : \A j \in keys : TimeOf[s[i]] <= TimeOf[s[j]]}},
   end       |-> {TimeOf[s[i]] : i \in {i \in keys : \A j \in keys : TimeOf[s[i]] >= TimeOf[s[j]]}}]

StatisticsAgree ==
  \A c \in Answered : query[c].op = "get_stats" =>
    LET here == Statistics(results[c], DOMAIN results[c])
        sql  == Statistics(snapshot[c], Matching(c))
    IN  IF sql.count <= StatsLimit THEN here = sql
                                   ELSE here.count = StatsLimit /\ here.end = sql.end

Times(s, r) == Cardinality({i \in DOMAIN s : s[i] = r})

(* The list implements the port: every call takes effect at one moment     *)
(* between its start and its return, a query at the end of its scan.       *)
Contents(s) == [r \in Rows |-> Times(s, r)]

Store ==
  INSTANCE ReadingStore WITH
    table   <- Contents(readings),
    phase   <- [c \in Clients |-> CASE pc[c] = "idle"   -> "idle"
                                    [] pc[c] = "return" -> "applied"
                                    [] OTHER            -> "open"],
    rows    <- [c \in Clients |-> ToSet(batch[c])],
    seen    <- [c \in Clients |-> Contents(snapshot[c])]

ImplementsStore == Store!Spec
=============================================================================
