----------------------------- MODULE MCMembers -----------------------------
(* Members on small sets: see README.md for the bounds.                     *)
EXTENDS Members
=============================================================================
