-------------------------------- MODULE Sums --------------------------------
(***************************************************************************)
(* Sums over finite sets, as the number of their units.  A fold would be   *)
(* shorter and could not be reasoned about without induction; units are    *)
(* counted by the theorems on cardinalities.                               *)
(***************************************************************************)
EXTENDS Integers, FiniteSets

(* of[k] units for each of the keys. *)
Units(of, keys) == UNION {{k} \X (1..of[k]) : k \in keys}

(* The sum of of[k] over the keys. *)
Total(of, keys) == Cardinality(Units(of, keys))
=============================================================================
