---------------------------- MODULE DeleteColumn ----------------------------
(***************************************************************************)
(* The dialog that deletes a column (DeleteColumnDialog) and asks where    *)
(* its issues go, while other admins change the columns and teammates put  *)
(* issues into them and take them out.  A column stands for its id.        *)
(***************************************************************************)
EXTENDS Integers, Sequences, SequencesExt

CONSTANTS Columns,    \* the columns there may be
          Orders,     \* the orders of columns it may begin with
          CategoryOf, \* the category of each column
          None,       \* no dialog, no request, no column
          MaxEdits    \* bound: what others change

DeleteColumnAssumption ==
  /\ \A order \in Orders : order \in Seq(Columns) /\ IsInjective(order) /\ order # <<>>
  /\ None \notin Columns /\ DOMAIN CategoryOf = Columns
  /\ MaxEdits \in Nat

VARIABLES order,   \* the columns at the server, in their order
          holding, \* the columns with issues
          cached,  \* the columns in the cache
          dialog,  \* the dialog: the column, its position, the choice, a conflict
          count,   \* its useIssues query: what it says of the column's issues
          removal, \* the deletion under way: where the issues go, and the answer
          asked,   \* history: whether the dialog showed where, or was counting, when confirmed
          edits    \* counts what others change

vars == <<order, holding, cached, dialog, count, removal, asked, edits>>

Without(seq, c) == RemoveAt(seq, CHOOSE i \in DOMAIN seq : seq[i] = c)
ArrayMove(seq, from, to) == InsertAt(RemoveAt(seq, from), to, seq[from])

-----------------------------------------------------------------------------
Others == SelectSeq(cached, LAMBDA c : c # dialog.column)

Distance(i) == IF cached[i] = dialog.column THEN 0
               ELSE IF i > dialog.position THEN i - dialog.position ELSE dialog.position - i
(* The nearest column among those at the positions, the first of two. *)
Nearest(at) ==
  cached[CHOOSE i \in at : \A j \in at : Distance(i) < Distance(j) \/ (Distance(i) = Distance(j) /\ i <= j)]
(* The nearest of the same category, else the nearest. *)
DefaultTarget ==
  LET at == {i \in DOMAIN cached : cached[i] # dialog.column}
      same == {i \in at : CategoryOf[cached[i]] = CategoryOf[dialog.column]}
  IN  IF at = {} THEN None ELSE Nearest(IF same # {} THEN same ELSE at)

(* Where the issues go: a chosen column that was deleted meanwhile is not an option. *)
Target == IF dialog.choice \in Range(Others) THEN dialog.choice ELSE DefaultTarget
(* Whether it has to be said: unless the column is known to be empty. *)
NeedsTarget == dialog.conflict \/ count # "empty"
MoveTo == IF NeedsTarget THEN Target ELSE None
(* The dialog shows it: not while the issues are being counted. *)
TargetShown == NeedsTarget /\ count # "loading"

-----------------------------------------------------------------------------
Init ==
  /\ order \in Orders
  /\ holding \in SUBSET Range(order)
  /\ cached = order
  /\ dialog = None /\ count = "loading" /\ removal = None /\ asked = None /\ edits = 0

(* The column's delete button, unless it is the only one; the row has counted its issues, is
   doing so, or failed to. *)
OpenDialog(c) ==
  /\ dialog = None /\ Len(cached) > 1 /\ c \in Range(cached)
  /\ dialog' = [column |-> c, position |-> CHOOSE i \in DOMAIN cached : cached[i] = c,
                choice |-> None, conflict |-> FALSE]
  /\ count' \in {"loading", "unknown", IF c \in holding THEN "used" ELSE "empty"}
  /\ UNCHANGED <<order, holding, cached, removal, asked, edits>>

CloseDialog ==
  /\ dialog # None /\ removal = None
  /\ dialog' = None
  /\ UNCHANGED <<order, holding, cached, count, removal, asked, edits>>

SetChoice(c) ==
  /\ dialog # None /\ TargetShown /\ c \in Range(Others)
  /\ dialog' = [dialog EXCEPT !.choice = c]
  /\ UNCHANGED <<order, holding, cached, count, removal, asked, edits>>

Submit ==
  /\ dialog # None /\ removal = None
  /\ NeedsTarget => Target # None
  /\ removal' = [moveTo |-> MoveTo, answer |-> "none"]
  /\ asked' = [shown |-> TargetShown, counting |-> count = "loading"]
  /\ UNCHANGED <<order, holding, cached, dialog, count, edits>>

(* The server deletes the column, and moves its issues where it is told to; ... *)
Deletable ==
  /\ dialog.column \in Range(order) /\ Len(order) > 1
  /\ dialog.column \in holding => removal.moveTo \in Range(order) \ {dialog.column}

Delete ==
  /\ removal # None /\ removal.answer = "none" /\ Deletable
  /\ order' = Without(order, dialog.column)
  /\ holding' = (holding \ {dialog.column}) \cup
                (IF dialog.column \in holding THEN {removal.moveTo} ELSE {})
  /\ removal' = [removal EXCEPT !.answer = "deleted"]
  /\ UNCHANGED <<cached, dialog, count, asked, edits>>

(* ... or refuses, or the request is lost.  A conflict (409) when it has not been told where to,
   or the column is the last one, which a dialog that sent no target takes for the former. *)
Conflict == dialog.column \in Range(order) /\ (Len(order) = 1 \/ dialog.column \in holding)
Refuse ==
  /\ removal # None /\ removal.answer = "none"
  /\ \/ removal' = [removal EXCEPT !.answer = "failed"]
     \/ Conflict /\ removal.moveTo = None /\ removal' = [removal EXCEPT !.answer = "conflict"]
  /\ UNCHANGED <<order, holding, cached, dialog, count, asked, edits>>

Deleted ==
  /\ removal # None /\ removal.answer = "deleted"
  /\ cached' = order
  /\ removal' = None /\ dialog' = None /\ asked' = None
  /\ UNCHANGED <<order, holding, count, edits>>

(* After a conflict the dialog asks where, which it had not. *)
NotDeleted ==
  /\ removal # None /\ removal.answer \in {"conflict", "failed"}
  /\ dialog' = [dialog EXCEPT !.conflict = @ \/ removal.answer = "conflict"]
  /\ removal' = None /\ asked' = None
  /\ UNCHANGED <<order, holding, cached, count, edits>>

-----------------------------------------------------------------------------
Edit == edits < MaxEdits /\ edits' = edits + 1

(* Another admin reorders, deletes or adds a column; ... *)
AdminReorders(from, to) ==
  /\ Edit /\ from # to
  /\ order' = ArrayMove(order, from, to)
  /\ UNCHANGED <<holding, cached, dialog, count, removal, asked>>

AdminDeletes(c) ==
  /\ Edit /\ Len(order) > 1 /\ c \in Range(order) \ holding
  /\ order' = Without(order, c)
  /\ UNCHANGED <<holding, cached, dialog, count, removal, asked>>

AdminAdds(c) ==
  /\ Edit /\ c \notin Range(order)
  /\ order' = Append(order, c)
  /\ UNCHANGED <<holding, cached, dialog, count, removal, asked>>

(* ... teammates put issues into a column, or take the last ones out. *)
IssuesMove(c) ==
  /\ Edit /\ c \in Range(order)
  /\ holding' = IF c \in holding THEN holding \ {c} ELSE holding \cup {c}
  /\ UNCHANGED <<order, cached, dialog, count, removal, asked>>

Reload ==
  /\ cached # order
  /\ cached' = order
  /\ UNCHANGED <<order, holding, dialog, count, removal, asked, edits>>

(* The issues are counted, or counted again; one that failed is then loading again. *)
Count ==
  /\ dialog # None
  /\ \/ count = "unknown" /\ count' = "loading"
     \/ count = "loading" /\ count' = "unknown"
     \/ count # "unknown" /\ count' = IF dialog.column \in holding THEN "used" ELSE "empty"
  /\ UNCHANGED <<order, holding, cached, dialog, removal, asked, edits>>

Next ==
  \/ CloseDialog \/ Submit \/ Delete \/ Refuse \/ Deleted \/ NotDeleted
  \/ Reload \/ Count
  \/ \E i, j \in DOMAIN order : AdminReorders(i, j)
  \/ \E c \in Columns :
       \/ OpenDialog(c) \/ SetChoice(c)
       \/ AdminDeletes(c) \/ AdminAdds(c) \/ IssuesMove(c)

Spec == Init /\ [][Next]_vars

-----------------------------------------------------------------------------
(* Issues move to another column only when the dialog showed which when it was confirmed (or
   was still counting them): also those that came into a column it believed to be empty. *)
MovesAreShown ==
  \A c \in holding :
       removal # None /\ c \notin holding' /\ Range(order') # Range(order) =>
         asked.shown \/ asked.counting
=============================================================================
