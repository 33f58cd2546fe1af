-------------------------- MODULE MCServiceOutputs --------------------------
(***************************************************************************)
(* The keys of the metrics for ServiceOutputs.                             *)
(***************************************************************************)
EXTENDS ServiceOutputs

CONSTANTS w1, w2, scraper, temp, pres

MCCounters == Sensors \X {"valid", "anomaly"}

Interchangeable == Permutations(Workers) \union Permutations(Sensors)
=============================================================================
