-------------------------- MODULE MCBreakerThreads --------------------------
(***************************************************************************)
(* Symmetry for CircuitBreakerThreads: the code knows no thread by name.   *)
(***************************************************************************)
EXTENDS CircuitBreakerThreads, TLC

Interchangeable == Permutations(Threads)
=============================================================================
