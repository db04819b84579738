------------------------------ MODULE MCQueries ------------------------------
(* Queries on small sets: see README.md for the bounds. *)
EXTENDS Queries, TLC

Symmetry == Permutations(Calls)
=============================================================================
