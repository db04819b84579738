------------------------------- MODULE Backlog -------------------------------
(***************************************************************************)
(* The backlog of a project (features/backlog): its sections, one for each *)
(* sprint and one for the issues without, the drag of a row within and     *)
(* between them (useBacklogDnd), the move a drop sends, and the pending    *)
(* moves that are replayed over the loaded lists until the server has      *)
(* confirmed them, while a teammate changes issues and sprints.            *)
(***************************************************************************)
EXTENDS Naturals, FiniteSets, Sequences, SequencesExt

CONSTANTS Sprints,  \* the sprints there may be
          NoSprint, \* the section of the issues without a sprint
          All,      \* the one list of a Kanban project
          Scenes,   \* bound: the section of each issue it starts with, whether the project is
                    \* a Kanban one, the issues the filters hide, the number of this user's
                    \* moves, and of a teammate's writes
          Nobody    \* null or undefined: no neighbour, no change of sprint

BacklogAssumption ==
  /\ NoSprint \notin Sprints /\ All \notin Sprints \cup {NoSprint}
  /\ Nobody \notin Sprints \cup {NoSprint, All}
  /\ \A scene \in Scenes : {scene.moves, scene.strangers} \subseteq Nat

(* A backlog: its sprints, its issues in the order of their ranks, the sprint of each. *)

VARIABLES stored,   \* the backlog as the server has it
          loaded,   \* the backlog as it was last loaded
          loading,  \* the fetch of it
          strangers,\* the writes of a teammate that may still come
          due,      \* an event has come that no fetch was begun after
          pending,  \* this user's moves
          concealed,\* the issues the filters hide
          flat,     \* this is a Kanban project
          lifted,   \* the row in the air, where it was, and the lists as the drag arranges them
          past      \* whether the teammate wrote, a move failed, or two of them overlapped

vars == <<stored, loaded, loading, strangers, due, pending, concealed, flat, lifted, past>>

-----------------------------------------------------------------------------
(* model.ts *)

Holds(list, issue) == \E i \in DOMAIN list : list[i] = issue
Place(list, issue) == CHOOSE i \in DOMAIN list : list[i] = issue
Without(list, issue) == SelectSeq(list, LAMBDA i : i # issue)
At(list, i) == IF i \in DOMAIN list THEN list[i] ELSE Nobody

(* buildContainers: the rows of each section. *)
BuildContainers(b) ==
  IF flat THEN [s \in {All} |-> b.order]
  ELSE [s \in b.sprints \cup {NoSprint} |-> SelectSeq(b.order, LAMBDA i : b.sprint[i] = s)]

(* containerSprintId: undefined for the list of a Kanban project. *)
ContainerSprintId(s) == IF s = All THEN Nobody ELSE s

(* matchesFilters *)
Visible(lists) == [s \in DOMAIN lists |-> SelectSeq(lists[s], LAMBDA i : i \notin concealed)]

(* insertionIndex: after the first neighbour, else before the second; if neither is there
   any more, at the top if it was dropped first, else at the bottom. *)
InsertionIndex(list, prev, next) ==
  IF Holds(list, prev) THEN Place(list, prev) + 1
  ELSE IF Holds(list, next) THEN Place(list, next)
  ELSE IF prev = Nobody /\ next # Nobody THEN 1 ELSE Len(list) + 1

(* One move of applyPendingMoves. *)
Replay(lists, m) ==
  LET rest == [s \in DOMAIN lists |-> Without(lists[s], m.issue)]
  IN  IF m.to \in DOMAIN lists /\ (\E s \in DOMAIN lists : Holds(lists[s], m.issue))
      THEN [rest EXCEPT ![m.to] = InsertAt(@, InsertionIndex(@, m.prev, m.next), m.issue)]
      ELSE lists

UnderWay == {"sent", "committed", "refetching", "refetched"}

(* applyPendingMoves *)
ApplyPendingMoves(lists, moves) ==
  LET upTo[m \in {0} \cup DOMAIN moves] ==
        IF m = 0 THEN lists
        ELSE IF moves[m].at \in UnderWay THEN Replay(upTo[m - 1], moves[m]) ELSE upTo[m - 1]
  IN  upTo[Len(moves)]

Containers == ApplyPendingMoves(BuildContainers(loaded), pending)

(* resolveNeighbours: in the full list, right after the row above; else right before the
   row below; else at the end. *)
ResolveNeighbours(full, above, below) ==
  IF Holds(full, above) THEN [prev |-> above, next |-> At(full, Place(full, above) + 1)]
  ELSE IF Holds(full, below) THEN [prev |-> At(full, Place(full, below) - 1), next |-> below]
  ELSE [prev |-> At(full, Len(full)), next |-> Nobody]

(* currentNeighbours *)
CurrentNeighbours(full, issue) ==
  LET at == Place(full, issue) IN [prev |-> At(full, at - 1), next |-> At(full, at + 1)]

-----------------------------------------------------------------------------
NoFetch == [at |-> "none"]
Started == [at |-> "sent"]
NoDrag == [issue |-> Nobody]
Moves == DOMAIN pending

Init ==
  \E scene \in Scenes :
    /\ stored = [order |-> [i \in DOMAIN scene.sprint |-> i], sprint |-> scene.sprint,
                 sprints |-> {scene.sprint[i] : i \in DOMAIN scene.sprint} \ {NoSprint}]
    /\ loaded = stored
    /\ loading = NoFetch
    /\ due = FALSE
    /\ strangers = scene.strangers
    /\ pending = [m \in 1..scene.moves |-> [at |-> "unused"]]
    /\ concealed = scene.hides
    /\ flat = scene.kanban
    /\ lifted = NoDrag
    /\ past = [foreign |-> FALSE, failed |-> FALSE, overlap |-> FALSE]

-----------------------------------------------------------------------------
(* useBacklogDnd.ts *)

(* findContainer, of a row. *)
FindContainer(items, issue) == CHOOSE s \in DOMAIN items : Holds(items[s], issue)

(* onDragStart: the visible lists are kept as they are when the row is picked up. *)
DragStart(issue) ==
  /\ lifted = NoDrag
  /\ LET visible == Visible(Containers)
     IN  /\ \E s \in DOMAIN visible : Holds(visible[s], issue)
         /\ lifted' = [issue |-> issue, from |-> FindContainer(visible, issue), items |-> visible]
  /\ UNCHANGED <<stored, loaded, loading, strangers, due, pending, concealed, flat, past>>

Cancelled ==
  /\ lifted' = NoDrag
  /\ UNCHANGED <<stored, loaded, loading, strangers, due, pending, concealed, flat, past>>

(* onDragCancel *)
DragCancel == lifted # NoDrag /\ Cancelled

Items(s) == IF s \in DOMAIN lifted.items THEN lifted.items[s] ELSE <<>>

(* A row that the drag has under it is still shown: it is in a section that is there. *)
Shown(i) == \E s \in DOMAIN Containers : Holds(Containers[s], i)

(* onDragOver: into another section that is there now, next to a row of it or at its end. *)
DragOver(to, index) ==
  LET from == FindContainer(lifted.items, lifted.issue)
      target == Items(to)
      items == [s \in DOMAIN lifted.items \cup {to} |-> Items(s)]
      rows == {i \in DOMAIN target : Shown(target[i])}
  IN  /\ to # from
      /\ index \in {Len(target) + 1} \cup rows \cup {i + 1 : i \in rows}
      /\ lifted' = [lifted EXCEPT !.items = [items EXCEPT ![from] = Without(@, lifted.issue),
                                                          ![to] = InsertAt(@, index, lifted.issue)]]
      /\ UNCHANGED <<stored, loaded, loading, strangers, due, pending, concealed, flat, past>>

(* onDragEnd, the list it ends in: over a row of the section it is in, the row moves to the
   place of that one; over another section, it is inserted at the row or at the end. *)
Dropped(to, index) == InsertAt(Without(lifted.items[to], lifted.issue), index, lifted.issue)
Spots(to) ==
  LET list == lifted.items[to]
  IN  {i \in DOMAIN list : Shown(list[i])}
        \cup {IF Holds(list, lifted.issue) THEN Place(list, lifted.issue) ELSE Len(list) + 1}

(* What waits for the fetch goes on when it ends or is cancelled. *)
ReleasedMoves == [m \in Moves |-> IF pending[m].at = "refetching"
                                  THEN [pending[m] EXCEPT !.at = "refetched"] ELSE pending[m]]

(* handleDrop of BacklogPage.tsx: nothing if the issue is no longer in the section it was
   dragged from, or its neighbours stay the same. *)
HandleDrop(to, above, below) ==
  LET issue == lifted.issue
      from == lifted.from
      lists == Containers
      found == ResolveNeighbours(Without(lists[to], issue),
                                 IF Holds(lists[to], above) THEN above ELSE Nobody,
                                 IF Holds(lists[to], below) THEN below ELSE Nobody)
      there == {from, to} \subseteq DOMAIN lists /\ Holds(lists[from], issue)
  IN  IF there /\ ~(from = to /\ found = CurrentNeighbours(lists[from], issue))
      THEN \E m \in Moves :
             /\ pending[m].at = "unused" /\ \A n \in Moves : n < m => pending[n].at # "unused"
             /\ pending' = [pending EXCEPT ![m] =
                  [at |-> "sent", issue |-> issue, to |-> to, prev |-> found.prev, next |-> found.next,
                   sends |-> IF from = to THEN Nobody ELSE ContainerSprintId(to)]]
             /\ past' = [past EXCEPT !.overlap = @ \/ \E n \in Moves : pending[n].at \in UnderWay]
      ELSE UNCHANGED <<pending, past>>

(* onDragEnd: nothing if it ends in the order that is visible now. *)
DragEnd(to, index) ==
  LET list == Dropped(to, index)
      visible == Visible(Containers)
  IN  /\ lifted' = NoDrag
      /\ IF to = lifted.from /\ to \in DOMAIN visible /\ list = visible[to]
         THEN UNCHANGED <<pending, past>>
         ELSE HandleDrop(to, At(list, index - 1), At(list, index + 1))
      /\ UNCHANGED <<stored, loaded, loading, strangers, due, concealed, flat>>

Drag ==
  /\ lifted # NoDrag
  /\ \/ \E s \in DOMAIN Containers : \E i \in 1..(Len(Items(s)) + 1) : DragOver(s, i)
     \/ \E s \in DOMAIN lifted.items : \E i \in Spots(s) : DragEnd(s, i)

-----------------------------------------------------------------------------
(* The server: POST /issues/{key}/move (planMove), next to the neighbour that exists, in the
   order of the whole project. *)
Moved(b, issue, sends, prev, next) ==
  LET rest == Without(b.order, issue)
      at == IF Holds(rest, prev) THEN Place(rest, prev) + 1
            ELSE IF Holds(rest, next) THEN Place(rest, next) ELSE Place(b.order, issue)
  IN  [b EXCEPT !.order = InsertAt(rest, at, issue),
                !.sprint = IF sends = Nobody THEN @ ELSE [@ EXCEPT ![issue] = sends]]

Commit(m) ==
  /\ pending[m].at = "sent"
  /\ Holds(stored.order, pending[m].issue)
  /\ pending[m].sends \in stored.sprints \cup {NoSprint, Nobody}
  /\ stored' = Moved(stored, pending[m].issue, pending[m].sends, pending[m].prev, pending[m].next)
  /\ pending' = [pending EXCEPT ![m].at = "committed"]
  /\ UNCHANGED <<loaded, loading, strangers, due, concealed, flat, lifted, past>>

(* A teammate moves an issue, deletes one, or creates or deletes a sprint. *)
ForeignWrite ==
  /\ strangers > 0
  /\ strangers' = strangers - 1
  /\ \/ \E i \in Range(stored.order), p \in Range(stored.order) \cup {Nobody},
           s \in stored.sprints \cup {NoSprint} :
          /\ p # i
          /\ stored' = Moved(stored, i, IF flat THEN Nobody ELSE s, p, Nobody)
          /\ stored' # stored
     \/ \E i \in Range(stored.order) : stored' = [stored EXCEPT !.order = Without(@, i)]
     \/ \E s \in Sprints \ stored.sprints : ~flat /\ stored' = [stored EXCEPT !.sprints = @ \cup {s}]
     \/ \E s \in stored.sprints :
          stored' = [stored EXCEPT !.sprints = @ \ {s},
                                   !.sprint = [i \in DOMAIN @ |-> IF @[i] = s THEN NoSprint ELSE @[i]]]
  /\ past' = [past EXCEPT !.foreign = TRUE]
  /\ due' = TRUE
  /\ UNCHANGED <<loaded, loading, pending, concealed, flat, lifted>>

-----------------------------------------------------------------------------
(* Mutant: the answer ends the move, without waiting for the refetch. *)
SucceedAtOnce(m) ==
  /\ pending[m].at = "committed"
  /\ loading' = Started
  /\ pending' = [ReleasedMoves EXCEPT ![m].at = "done"]
  /\ UNCHANGED <<stored, loaded, strangers, due, concealed, flat, lifted, past>>

(* The answer arrives: the project's queries are refetched, and waited for. *)
Succeed(m) ==
  /\ pending[m].at = "committed"
  /\ loading' = Started
  /\ pending' = [ReleasedMoves EXCEPT ![m].at = "refetching"]
  /\ UNCHANGED <<stored, loaded, strangers, due, concealed, flat, lifted, past>>

Settle(m) ==
  /\ pending[m].at = "refetched"
  /\ pending' = [pending EXCEPT ![m] = [at |-> "done"]]
  /\ UNCHANGED <<stored, loaded, loading, strangers, due, concealed, flat, lifted, past>>

(* Mutant: after a failure, the backlog is not refetched. *)
FailQuietly(m) ==
  /\ pending[m].at \in {"sent", "committed"}
  /\ pending' = [pending EXCEPT ![m] = [at |-> "done"]]
  /\ past' = [past EXCEPT !.failed = TRUE]
  /\ UNCHANGED <<stored, loaded, loading, strangers, due, concealed, flat, lifted>>

(* The request fails, or its answer is lost: the move is dropped, the backlog refetched. *)
Fail(m) ==
  /\ pending[m].at \in {"sent", "committed"}
  /\ loading' = Started
  /\ pending' = [ReleasedMoves EXCEPT ![m] = [at |-> "done"]]
  /\ past' = [past EXCEPT !.failed = TRUE]
  /\ UNCHANGED <<stored, loaded, strangers, due, concealed, flat, lifted>>

(* A fetch begins: for an event, or when the window is focused. *)
Refetch ==
  /\ loading = NoFetch
  /\ loading' = Started
  /\ due' = FALSE
  /\ UNCHANGED <<stored, loaded, strangers, pending, concealed, flat, lifted, past>>

Serve ==
  /\ loading.at = "sent"
  /\ loading' = [at |-> "answered", brings |-> stored]
  /\ UNCHANGED <<stored, loaded, strangers, due, pending, concealed, flat, lifted, past>>

Arrive ==
  /\ loading.at = "answered"
  /\ loaded' = loading.brings
  /\ loading' = NoFetch
  /\ pending' = ReleasedMoves
  /\ UNCHANGED <<stored, strangers, due, concealed, flat, lifted, past>>

Next ==
  \/ \E i \in Range(loaded.order) : DragStart(i)
  \/ Drag \/ DragCancel
  \/ \E m \in Moves : Commit(m) \/ Succeed(m) \/ Settle(m) \/ Fail(m)
  \/ ForeignWrite \/ Refetch \/ Serve \/ Arrive

Spec == Init /\ [][Next]_vars

-----------------------------------------------------------------------------
(* Properties: of every state, and of every step. *)

(* When nothing is under way, the backlog shows what the server holds: no pending move is
   left over it, whatever moves failed, lost their answer, or were aimed at an issue, a
   neighbour or a sprint that a teammate moved or deleted (handleDrop, applyPendingMoves). *)
Quiet == ~due /\ loading = NoFetch /\ \A m \in Moves : pending[m].at \notin UnderWay
ListsSettle == Quiet => Containers = BuildContainers(stored)

(* A row appears exactly where it was dropped among the rows that pass the filters: right
   below the row it was dropped under if that is still in the section, else right above
   the one below, though the lists changed while it was dragged and other moves are still
   pending (resolveNeighbours, insertionIndex). *)
Lands(list, index, now) ==
  IF Holds(now, At(list, index - 1)) THEN Place(now, lifted.issue) = Place(now, list[index - 1]) + 1
  ELSE Holds(now, At(list, index + 1)) => Place(now, lifted.issue) + 1 = Place(now, list[index + 1])

RowLands ==
  lifted # NoDrag /\ pending' # pending =>
    \A s \in DOMAIN lifted.items : \A i \in Spots(s) :
      DragEnd(s, i) => \A now \in {Visible(Containers')[s]} : Lands(Dropped(s, i), i, now)

(* As long as no teammate interferes and no move fails, rows change their places only as
   they are dropped, if each move is confirmed before the next: "the UI never snaps back
   while refetches race" (PendingMove), whatever moment's data a refetch brings. *)
RowsStay ==
  ~past'.foreign /\ ~past'.failed /\ ~past'.overlap /\ lifted' = lifted => Containers' = Containers
=============================================================================
