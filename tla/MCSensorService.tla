--------------------------- MODULE MCSensorService --------------------------
(***************************************************************************)
(* Values for SensorService: one temperature sensor, written as its id or  *)
(* in lower case, and readings on each side of every check.                *)
(***************************************************************************)
EXTENDS SensorService, TLC

CONSTANTS warm, mild, hot, broken, lower, w1, w2

MCIds       == {"TEMP-01", "temp-01"}
MCSensorOf  == [r \in Readings |-> IF r = lower THEN "temp-01" ELSE "TEMP-01"]
MCCanonical == [id \in Ids |-> "TEMP-01"]
MCWellFormed == {"TEMP-01"}

(* hot and lower are outside the strict range, broken is outside physics. *)
MCValueOf == [r \in Readings |-> CASE r = warm -> 5
                                   [] r = mild -> 6
                                   [] r \in {hot, lower} -> 9
                                   [] r = broken -> 99]
MCPlausible == 0..10

Strict   == [min |-> 0, max |-> 7]
Lenient  == [min |-> 0, max |-> 9]
MCRanges == {Strict, Lenient}

(* No value tells the workers apart. *)
Interchangeable == Permutations(Workers)
=============================================================================
