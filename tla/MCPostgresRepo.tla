---------------------------- MODULE MCPostgresRepo --------------------------
(***************************************************************************)
(* Symmetry for PostgresRepo: no client and no connection is special.      *)
(***************************************************************************)
EXTENDS PostgresRepo, TLC

Interchangeable == Permutations(Clients) \union Permutations(Conns)
=============================================================================
