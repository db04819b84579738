------------------------------ MODULE MCSession ------------------------------
(* Session on small sets: see README.md for the bounds. One tab signs in, the other is
   at work in the session they share; both may sign out. Or each tab does everything. *)
EXTENDS Session, TLC

CONSTANTS main, other

MainAndOther == (main :> {"read", "name", "password"}) @@ (other :> {"login"})
Everything == [t \in Tabs |-> {"read", "write", "name", "password", "login"}]

Symmetry == Permutations(Users) \cup Permutations(Slots)
=============================================================================
