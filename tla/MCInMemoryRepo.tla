--------------------------- MODULE MCInMemoryRepo ---------------------------
(***************************************************************************)
(* Values for InMemoryRepo: an early reading, two with one timestamp and a *)
(* reading of another sensor; the queries of the service and the tests.    *)
(***************************************************************************)
EXTENDS InMemoryRepo

CONSTANTS early, late, tied, other, temp, pres

MCSensorOf == [r \in Rows |-> IF r = other THEN pres ELSE temp]
MCTimeOf   == [r \in Rows |-> IF r = early THEN 1 ELSE 2]

Ever == 9 \* later than every reading

MCQueries ==
  { [op |-> "get_by_sensor", sensor |-> temp, start |-> 0, end |-> Ever, limit |-> 3],
    [op |-> "get_by_sensor", sensor |-> temp, start |-> 1, end |-> 1, limit |-> 2],
    [op |-> "get_latest", sensor |-> temp, start |-> 0, end |-> Ever, limit |-> 1],
    [op |-> "get_stats", sensor |-> temp, start |-> 0, end |-> Ever, limit |-> StatsLimit] }
=============================================================================
