----------------------------- MODULE MCRealtime -----------------------------
(* Realtime on small sets: see README.md for the bounds.                    *)
EXTENDS Realtime, TLC
=============================================================================
