------------------------------- MODULE MCHub --------------------------------
(* Hub on small sets: see README.md for the bounds.                         *)
EXTENDS Hub
=============================================================================
