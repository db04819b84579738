------------------------------ MODULE Columns ------------------------------
(***************************************************************************)
(* The settings' columns tab while other admins change the columns: those  *)
(* dragged into another order are shown in it at once (localOrder), and    *)
(* a column is added.  A column stands for its id and its name.            *)
(***************************************************************************)
EXTENDS Integers, Sequences, SequencesExt

CONSTANTS Columns,    \* the columns there may be
          Orders,     \* the orders of columns it may begin with
          None,       \* no order, no column
          MaxDrags,   \* bound: drags
          MaxEdits    \* bound: what others change

ColumnsAssumption ==
  /\ \A order \in Orders : Range(order) \subseteq Columns /\ IsInjective(order) /\ order # <<>>
  /\ None \notin Columns
  /\ MaxDrags \in Nat /\ MaxEdits \in Nat

VARIABLES order,    \* the columns at the server, in their order
          cached,   \* the columns in the cache
          override, \* ColumnsTab: localOrder
          run,      \* ColumnsTab: latestReorder, the number of drags
          drags,    \* the reorderings under way, by their run
          adding,   \* the column being created, and the answer
          edits     \* counts what others change

vars == <<order, cached, override, run, drags, adding, edits>>

Without(seq, c) == SelectSeq(seq, LAMBDA d : d # c)

(* The cached columns in the local order, which need not know them all. *)
ApplyOrder(columns, local) ==
  IF local = None THEN columns
  ELSE SelectSeq(local, LAMBDA c : c \in Range(columns)) \o
       SelectSeq(columns, LAMBDA c : c \notin Range(local))
Shown == ApplyOrder(cached, override)

ArrayMove(seq, from, to) == InsertAt(RemoveAt(seq, from), to, seq[from])

-----------------------------------------------------------------------------
Init ==
  /\ order \in Orders
  /\ cached = order /\ override = None
  /\ run = 0 /\ drags = [r \in {} |-> None]
  /\ adding = None /\ edits = 0

(* onDragEnd: the order shown from now on, and sent. *)
OnDragEnd(from, to) ==
  /\ from # to /\ run < MaxDrags
  /\ override' = ArrayMove(Shown, from, to)
  /\ run' = run + 1
  /\ drags' = (run' :> [order |-> override', answer |-> "none"]) @@ drags
  /\ UNCHANGED <<order, cached, adding, edits>>

(* The server: the order has to list every column, exactly once. *)
Reorder(r) ==
  /\ drags[r].answer = "none"
  /\ \/ /\ Range(drags[r].order) = Range(order)
        /\ order' = drags[r].order
        /\ drags' = [drags EXCEPT ![r].answer = "saved"]
     \/ drags' = [drags EXCEPT ![r].answer = "failed"] /\ UNCHANGED order
  /\ UNCHANGED <<cached, override, run, adding, edits>>

(* useReorderStatuses writes the answer to the cache, and loads the columns again. *)
ReorderAnswered(r) ==
  /\ drags[r].answer = "saved"
  /\ cached' = drags[r].order
  /\ drags' = [drags EXCEPT ![r].answer = "refetching"]
  /\ UNCHANGED <<order, override, run, adding, edits>>

(* Only the latest drag does. *)
Clears(r) == r = run

(* onSettled: the cache is fresh, or the reordering failed. *)
ReorderSettled(r) ==
  /\ drags[r].answer \in {"refetching", "failed"}
  /\ cached' = IF drags[r].answer = "failed" THEN cached ELSE order
  /\ override' = IF Clears(r) THEN None ELSE override
  /\ drags' = [q \in DOMAIN drags \ {r} |-> drags[q]]
  /\ UNCHANGED <<order, run, adding, edits>>

(* AddColumnForm: not a name there is already, as far as it knows. *)
AddColumn(c) ==
  /\ adding = None /\ c \notin Range(cached)
  /\ adding' = [column |-> c, answer |-> "none"]
  /\ UNCHANGED <<order, cached, override, run, drags, edits>>

Create ==
  /\ adding # None /\ adding.answer = "none"
  /\ \/ /\ adding.column \notin Range(order)
        /\ order' = Append(order, adding.column)
        /\ adding' = [adding EXCEPT !.answer = "saved"]
     \/ adding' = [adding EXCEPT !.answer = "failed"] /\ UNCHANGED order
  /\ UNCHANGED <<cached, override, run, drags, edits>>

Added ==
  /\ adding # None /\ adding.answer # "none"
  /\ adding' = None
  /\ cached' = IF adding.answer = "saved" THEN order ELSE cached
  /\ UNCHANGED <<order, override, run, drags, edits>>

-----------------------------------------------------------------------------
Edit == edits < MaxEdits /\ edits' = edits + 1

(* Another admin reorders, deletes or adds a column. *)
AdminReorders(from, to) ==
  /\ Edit /\ from # to
  /\ order' = ArrayMove(order, from, to)
  /\ UNCHANGED <<cached, override, run, drags, adding>>

AdminDeletes(c) ==
  /\ Edit /\ Len(order) > 1 /\ c \in Range(order)
  /\ order' = Without(order, c)
  /\ UNCHANGED <<cached, override, run, drags, adding>>

AdminAdds(c) ==
  /\ Edit /\ c \notin Range(order)
  /\ order' = Append(order, c)
  /\ UNCHANGED <<cached, override, run, drags, adding>>

Reload ==
  /\ cached # order
  /\ cached' = order
  /\ UNCHANGED <<order, override, run, drags, adding, edits>>

Next ==
  \/ Create \/ Added \/ Reload
  \/ \E i, j \in DOMAIN Shown : OnDragEnd(i, j)
  \/ \E i, j \in DOMAIN order : AdminReorders(i, j)
  \/ \E r \in DOMAIN drags : Reorder(r) \/ ReorderAnswered(r) \/ ReorderSettled(r)
  \/ \E c \in Columns : AddColumn(c) \/ AdminDeletes(c) \/ AdminAdds(c)

Spec == Init /\ [][Next]_vars

-----------------------------------------------------------------------------
(* While the latest drag is being saved, its columns are shown in the order they were dropped
   in, whatever earlier drags answer and others change; afterwards the columns are shown as
   the cache has them. *)
LatestDragShows ==
  IF run \in DOMAIN drags
  THEN SelectSeq(Shown, LAMBDA c : c \in Range(drags[run].order)) =
         SelectSeq(drags[run].order, LAMBDA c : c \in Range(cached))
  ELSE Shown = cached
=============================================================================
