-------------------------- MODULE MCRetriedBreaker --------------------------
(***************************************************************************)
(* Values for RetriedBreaker: a caller with the decorator's defaults, one  *)
(* that retries only failures of the function (the demo's exceptions =     *)
(* (ConnectionError,)), and one with max_attempts = 0.                     *)
(***************************************************************************)
EXTENDS RetriedBreaker

CONSTANTS default, selective, never

MCKinds       == {"failure", "open", "escape"}
MCMaxAttempts == [c \in Callers |-> CASE c = default   -> 3
                                      [] c = selective -> 2
                                      [] c = never     -> 0]
MCRetryable   == [c \in Callers |-> IF c = selective THEN {"failure"}
                                                     ELSE {"failure", "open"}]
=============================================================================
