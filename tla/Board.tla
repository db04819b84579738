-------------------------------- MODULE Board --------------------------------
(***************************************************************************)
(* Cards on the board of a project (features/board): picking one up,       *)
(* carrying it over the columns and dropping it, the move this sends, the  *)
(* optimistic change of the cached board, and the overlay that hides every *)
(* refetch until the server has confirmed (useOptimisticBoard), while a    *)
(* teammate moves cards too. Filters hide some of the cards.               *)
(***************************************************************************)
EXTENDS Naturals, FiniteSets, Sequences, SequencesExt

CONSTANTS Columns,   \* the statuses of the board
          Scenes,    \* bound: the status of each issue it starts with, the issues the filters
                     \* hide, the number of this user's moves, and a teammate's writes
          Gap,       \* the distance between two ranks that nobody has put a card between
          Top,       \* a rank beyond all that the server gives
          Nobody     \* null: no neighbour, no status

BoardAssumption ==
  /\ Gap \in Nat \ {0} /\ Top \in Nat /\ Nobody \notin Columns
  /\ \A scene \in Scenes : DOMAIN scene.status \subseteq Nat \ {0} /\ scene.moves \in Nat

(* A board: for each of its issues, the status and the rank. *)
Issue == [status : Columns, rank : Nat \ {0}]

-----------------------------------------------------------------------------
(* boardModel.ts *)

(* compareRank *)
Precedes(b, c, d) == b[c].rank < b[d].rank \/ (b[c].rank = b[d].rank /\ c < d)

(* A sorted list of the cards S of the board b. *)
Listed(b, S) ==
  [i \in 1..Cardinality(S) |-> CHOOSE c \in S : Cardinality({d \in S : Precedes(b, d, c)}) = i - 1]

(* groupByStatus, filterColumns *)
Column(b, s, hidden) == Listed(b, {c \in DOMAIN b \ hidden : b[c].status = s})
Items(b, hidden) == [s \in Columns |-> Column(b, s, hidden)]

Without(list, card) == SelectSeq(list, LAMBDA c : c # card)
Holds(list, card) == \E i \in DOMAIN list : list[i] = card
Place(list, card) == CHOOSE i \in DOMAIN list : list[i] = card
At(list, i) == IF i \in DOMAIN list THEN list[i] ELSE Nobody

(* Mutant: the neighbours are those of the drag, even if they have left the column. *)
AnchorsOfDrag(full, visible, card) ==
  LET at == Place(visible, card)
  IN  [prev |-> At(visible, at - 1), next |-> At(visible, at + 1)]

(* computeAnchors: in the whole column, after the nearest card above that is still there,
   else before the nearest one below. *)
Anchors(full, visible, card) ==
  LET others == Without(full, card)
      at == Place(visible, card)
      above == {i \in 1..(at - 1) : Holds(others, visible[i])}
      below == {i \in (at + 1)..Len(visible) : Holds(others, visible[i])}
      Spot(i) == Place(others, visible[i])
  IN  IF above # {} THEN LET i == Spot(Max(above)) IN [prev |-> others[i], next |-> At(others, i + 1)]
      ELSE IF below # {} THEN LET i == Spot(Min(below)) IN [prev |-> At(others, i - 1), next |-> others[i]]
      ELSE [prev |-> Nobody, next |-> Nobody]

(* midpoint: a key strictly between the two; if the second is unbounded (0), a key beyond
   all those the server gives, or halfway to the end of the alphabet. *)
Midpoint(lo, hi) == IF hi # 0 THEN (lo + hi) \div 2 ELSE IF lo < Top THEN Top ELSE lo + Gap

(* rankBetween: after lo when the two are no longer in order. *)
RankBetween(lo, hi) == Midpoint(lo, IF lo < hi THEN hi ELSE 0)

RankOf(b, c) == IF c \in DOMAIN b THEN b[c].rank ELSE 0

(* applyMove: the rank is taken from the neighbours as they are in b. *)
ApplyMove(b, move) ==
  LET anchored == {move.prev, move.next} \cap DOMAIN b # {}
      rank == RankBetween(RankOf(b, move.prev), RankOf(b, move.next))
  IN  IF move.card \in DOMAIN b
      THEN [b EXCEPT ![move.card] = [status |-> move.status, rank |-> IF anchored THEN rank ELSE @.rank]]
      ELSE b

(* restoreIssue *)
RestoreIssue(b, move) == IF move.card \in DOMAIN b THEN [b EXCEPT ![move.card] = move.from] ELSE b

-----------------------------------------------------------------------------
VARIABLES server,   \* the issues as the server has them
          cache,    \* the cached board
          fetching, \* the fetch of the board
          move,     \* this user's moves
          refresh,  \* what the events of the teammate's writes bring about
          hidden,   \* the cards the filters hide
          drag,     \* the card in the air, and the columns as the drag shows them
          history   \* whether the teammate wrote, a move failed, or two of them overlapped

vars == <<server, cache, fetching, move, refresh, hidden, drag, history>>

NoFetch == [at |-> "none"]
NoDrag == [card |-> Nobody]
Pending == {"sent", "committed", "refetching", "refetched"}
Moves == DOMAIN move
InFlight(m) == move[m].at \in Pending

(* useOptimisticBoard's board: the moves not yet confirmed, in order, over the cached data. *)
Overlaid(data, moves) ==
  LET upTo[m \in {0} \cup DOMAIN moves] ==
        IF m = 0 THEN data
        ELSE IF moves[m].at \in Pending THEN ApplyMove(upTo[m - 1], moves[m]) ELSE upTo[m - 1]
  IN  upTo[Len(moves)]
Shown == Overlaid(cache, move)

Init ==
  /\ \E scene \in Scenes :
       /\ server = [c \in DOMAIN scene.status |-> [status |-> scene.status[c], rank |-> c * Gap]]
       /\ hidden = scene.hides
       /\ move = [m \in 1..scene.moves |-> [at |-> "unused"]]
       /\ refresh = [w \in scene.strangers |-> [at |-> "none"]]
  /\ cache = server
  /\ fetching = NoFetch
  /\ drag = NoDrag
  /\ history = [foreign |-> FALSE, failed |-> FALSE, overlap |-> FALSE]

-----------------------------------------------------------------------------
(* BoardCanvas.tsx: dragging. *)

(* handleDragStart: the columns are remembered as they are when the card is picked up. *)
DragStart(card) ==
  /\ drag = NoDrag
  /\ LET shown == Shown
     IN  /\ card \in DOMAIN shown \ hidden
         /\ drag' = [card |-> card, origin |-> shown[card].status, initial |-> Items(shown, hidden)]
  /\ UNCHANGED <<server, cache, fetching, move, refresh, hidden, history>>

(* onDragCancel, or a drop over nothing. *)
DragCancel ==
  /\ drag # NoDrag
  /\ drag' = NoDrag
  /\ UNCHANGED <<server, cache, fetching, move, refresh, hidden, history>>

(* handleDragOver takes the dragged card, and no other, from list to list; over a card of
   the list it is in, handleDragEnd puts it in the place of that card. *)
Spots(to) == IF drag = NoDrag THEN {} ELSE 1..(Len(Without(drag.initial[to], drag.card)) + 1)
Dropped(to, index) == InsertAt(Without(drag.initial[to], drag.card), index, drag.card)

(* What waits for the fetch goes on when it ends or is cancelled. *)
ReleasedMoves == [m \in Moves |-> IF move[m].at = "refetching" THEN [move[m] EXCEPT !.at = "refetched"]
                                  ELSE move[m]]
Released == [w \in DOMAIN refresh |-> IF refresh[w].at = "joined" THEN [refresh[w] EXCEPT !.at = "first"]
                                      ELSE refresh[w]]

(* moveIssue, up to the request: the move is pending, the board's fetch is cancelled, and
   the move is written over the data, which are still those the fetch started from. *)
MoveIssue(m, card, target) ==
  LET new == [at |-> "sent", card |-> card, status |-> target.status, prev |-> target.prev,
              next |-> target.next, from |-> Shown[card],
              sends |-> IF target.status = Shown[card].status THEN Nobody ELSE target.status]
  IN  /\ cache' = ApplyMove(cache, new)
      /\ fetching' = NoFetch
      /\ move' = [ReleasedMoves EXCEPT ![m] = new]
      /\ refresh' = Released

(* handleDragEnd: nothing is sent when the card ends where it was, or its issue has gone. *)
DragEnd(to, index) ==
  /\ drag' = NoDrag
  /\ LET visible == Dropped(to, index)
         shown == Shown
         found == Anchors(Column(shown, to, {}), visible, drag.card)
     IN  IF (to = drag.origin /\ visible = drag.initial[to]) \/ drag.card \notin DOMAIN shown
         THEN UNCHANGED <<cache, fetching, move, refresh, history>>
         ELSE \E m \in Moves :
                /\ move[m].at = "unused" /\ \A n \in Moves : n < m => move[n].at # "unused"
                /\ MoveIssue(m, drag.card, [status |-> to, prev |-> found.prev, next |-> found.next])
                /\ history' = [history EXCEPT !.overlap = @ \/ \E n \in Moves : InFlight(n)]
  /\ UNCHANGED <<server, hidden>>

-----------------------------------------------------------------------------
(* The server: POST /issues/{key}/move (planMove): next to the neighbour that exists, in
   the order of the whole project. *)
RankAfter(b, card, lo) ==
  LET later == {b[c].rank : c \in {d \in DOMAIN b \ {card} : b[d].rank > lo}}
  IN  IF later = {} THEN 0 ELSE Min(later)
RankBefore(b, card, hi) ==
  LET earlier == {b[c].rank : c \in {d \in DOMAIN b \ {card} : b[d].rank < hi}}
  IN  IF earlier = {} THEN 0 ELSE Max(earlier)

Between(lo, hi) == IF hi = 0 THEN lo + Gap ELSE (lo + hi) \div 2

Moved(b, card, sends, prev, next) ==
  [b EXCEPT ![card] =
     [status |-> IF sends = Nobody THEN @.status ELSE sends,
      rank |-> IF prev \in DOMAIN b THEN Between(b[prev].rank, RankAfter(b, card, b[prev].rank))
               ELSE IF next \in DOMAIN b THEN Between(RankBefore(b, card, b[next].rank), b[next].rank)
               ELSE @.rank]]

Commit(m) ==
  /\ move[m].at = "sent"
  /\ move[m].card \in DOMAIN server
  /\ server' = Moved(server, move[m].card, move[m].sends, move[m].prev, move[m].next)
  /\ move' = [move EXCEPT ![m].at = "committed"]
  /\ UNCHANGED <<cache, fetching, refresh, hidden, drag, history>>

(* A teammate moves a card, or deletes its issue. *)
ForeignWrite(w) ==
  /\ ~history.foreign
  /\ \E c \in DOMAIN server :
       \/ \E s \in Columns, p \in DOMAIN server \ {c} : server' = Moved(server, c, s, p, Nobody)
       \/ server' = [d \in DOMAIN server \ {c} |-> server[d]]
  /\ history' = [history EXCEPT !.foreign = TRUE]
  /\ refresh' = [refresh EXCEPT ![w] = [at |-> "event"]]
  /\ UNCHANGED <<cache, fetching, move, hidden, drag>>

-----------------------------------------------------------------------------
Started == [at |-> "sent"]

(* Mutant: the answer ends the move, without waiting for the refetch. *)
SucceedAtOnce(m) ==
  /\ move[m].at = "committed"
  /\ fetching' = Started
  /\ move' = [ReleasedMoves EXCEPT ![m].at = "refetched"]
  /\ refresh' = Released
  /\ UNCHANGED <<server, cache, hidden, drag, history>>

(* The answer arrives: the mutation refetches the project's queries, and waits for them
   (invalidateProject). *)
Succeed(m) ==
  /\ move[m].at = "committed"
  /\ fetching' = Started
  /\ move' = [ReleasedMoves EXCEPT ![m].at = "refetching"]
  /\ refresh' = Released
  /\ UNCHANGED <<server, cache, hidden, drag, history>>

(* The refetches have ended, and the move is no longer laid over the data. *)
Settle(m) ==
  /\ move[m].at = "refetched"
  /\ move' = [move EXCEPT ![m] = [at |-> "done"]]
  /\ UNCHANGED <<server, cache, fetching, refresh, hidden, drag, history>>

(* Mutant: a failed move is undone, but the board is not refetched. *)
FailQuietly(m) ==
  /\ move[m].at \in {"sent", "committed"}
  /\ cache' = RestoreIssue(cache, move[m])
  /\ move' = [move EXCEPT ![m] = [at |-> "done"]]
  /\ history' = [history EXCEPT !.failed = TRUE]
  /\ UNCHANGED <<server, fetching, refresh, hidden, drag>>

(* The request fails, or its answer is lost: the issue is put back, the board refetched. *)
Fail(m) ==
  /\ move[m].at \in {"sent", "committed"}
  /\ cache' = RestoreIssue(cache, move[m])
  /\ fetching' = Started
  /\ move' = [ReleasedMoves EXCEPT ![m] = [at |-> "done"]]
  /\ refresh' = Released
  /\ history' = [history EXCEPT !.failed = TRUE]
  /\ UNCHANGED <<server, hidden, drag>>

(* refreshProject, after an event. *)
Refresh(w) ==
  /\ refresh[w].at = "event"
  /\ refresh' = [refresh EXCEPT ![w] = [at |-> "joined", ran |-> fetching # NoFetch]]
  /\ fetching' = IF fetching = NoFetch THEN Started ELSE fetching
  /\ UNCHANGED <<server, cache, move, hidden, drag, history>>

RefreshAgain(w) ==
  /\ refresh[w].at = "first"
  /\ refresh' = [refresh EXCEPT ![w] = [at |-> "none"]]
  /\ fetching' = IF refresh[w].ran /\ fetching = NoFetch THEN Started ELSE fetching
  /\ UNCHANGED <<server, cache, move, hidden, drag, history>>

(* The window is focused again, or an event of this user's own move brings a refresh. *)
Refocus ==
  /\ fetching = NoFetch
  /\ fetching' = Started
  /\ UNCHANGED <<server, cache, move, refresh, hidden, drag, history>>

(* The server answers the fetch; the answer arrives. *)
Serve ==
  /\ fetching.at = "sent"
  /\ fetching' = [at |-> "answered", brings |-> server]
  /\ UNCHANGED <<server, cache, move, refresh, hidden, drag, history>>

Arrive ==
  /\ fetching.at = "answered"
  /\ cache' = fetching.brings
  /\ fetching' = NoFetch
  /\ move' = ReleasedMoves
  /\ refresh' = Released
  /\ UNCHANGED <<server, hidden, drag, history>>

Next ==
  \/ \E c \in DOMAIN cache : DragStart(c)
  \/ \E s \in Columns : \E i \in Spots(s) : DragEnd(s, i)
  \/ DragCancel
  \/ \E m \in Moves : Commit(m) \/ Succeed(m) \/ Settle(m) \/ Fail(m)
  \/ \E w \in DOMAIN refresh : ForeignWrite(w) \/ Refresh(w) \/ RefreshAgain(w)
  \/ Refocus \/ Serve \/ Arrive

Spec == Init /\ [][Next]_vars

-----------------------------------------------------------------------------
(* Properties: of every state, and of every step. *)

Quiet == /\ \A m \in Moves : ~InFlight(m)
         /\ \A w \in DOMAIN refresh : refresh[w].at = "none"
         /\ fetching = NoFetch

(* When nothing is under way, the board shows what the server holds: no overlay, optimistic
   write, rollback or reverted fetch leaves a trace, whatever moves failed, lost their answer
   or crossed a teammate's (useOptimisticBoard). *)
SettledIsServer == Quiet => Shown = server

(* A card appears exactly where it was dropped among the cards that pass the filters
   (computeAnchors): right below the nearest card above it that is still in the column,
   else right above the nearest below, though cards may have moved while it was dragged;
   provided no earlier move is still in flight, whose place is worked out anew from
   neighbours that the drop may have moved. *)
Lands(dropped, column) ==
  \A still \in {SelectSeq(dropped, LAMBDA c : Holds(column, c))} :
    LET at == Place(still, drag.card)
    IN  IF at > 1 THEN Place(column, drag.card) = Place(column, still[at - 1]) + 1
        ELSE Len(still) > 1 => Place(column, drag.card) + 1 = Place(column, still[2])

LandsWhereDropped ==
  drag # NoDrag /\ move' # move /\ (\A m \in Moves : ~InFlight(m)) =>
    \A s \in Columns : \A i \in Spots(s) :
      DragEnd(s, i) => \A column \in {Column(Shown', s, hidden)} : Lands(Dropped(s, i), column)

(* No card leaves the column it is shown in. *)
NoneJumps ==
  LET before == Shown
      after == Shown'
  IN  \A c \in DOMAIN before \cap DOMAIN after : before[c].status = after[c].status
Sure == ~history'.foreign /\ ~history'.failed

(* As long as no teammate interferes and no move fails, a card changes its column only as
   it is dropped there, if the user waits for a move to be confirmed before the next:
   whatever refetch arrives meanwhile, with the data of whatever moment. *)
CardStays == Sure /\ ~history'.overlap /\ drag' = drag => NoneJumps

(* "... so a refetch that races the request (realtime invalidation, window focus, a cancelled
   fetch reverting its state) can never make the card jump back and forth", however fast
   the user drops one card after the other. *)
CardNeverJumpsBack == Sure /\ drag' = drag => NoneJumps
=============================================================================
