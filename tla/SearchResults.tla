--------------------------- MODULE SearchResults ----------------------------
(***************************************************************************)
(* The table of the issue search (useIssueResults, IssuesPage): a page at  *)
(* a time where the server sorts by the column, or every match, fetched    *)
(* piece by piece and sorted in the browser; the previous search's rows    *)
(* stay while the next ones load. Issues come and go meanwhile.            *)
(***************************************************************************)
EXTENDS Integers, Sequences, FiniteSets, SequencesExt, FiniteSetsExt

CONSTANTS Issues,    \* issue ids, in the order of their keys
          StatusOf,  \* the status of each issue
          CategoryOf, \* the category of each status
          Menus,     \* the filters one may choose: [categories, statuses]
          PageSize,  \* rows of a page of the table
          ApiLimit,  \* rows of the largest page of the API
          SortCap,   \* CLIENT_SORT_CAP
          LastPage,  \* the highest page a link may ask for
          None       \* nothing loaded

SearchResultsAssumption ==
  /\ Issues \subseteq Nat /\ IsFiniteSet(Issues)
  /\ {PageSize, ApiLimit, SortCap, LastPage} \subseteq Nat \ {0}
  /\ \A i \in Issues : StatusOf[i] \in DOMAIN CategoryOf

VARIABLES matches,  \* the issues at the server
          filters,  \* the URL: choice, whether the server sorts, page
          statuses, \* the project's statuses are loaded
          paged,    \* useIssues: what the last page loaded was asked for, and the total; or None
          all,      \* the ['issues', 'all-matches'] query's data, or None
          scan      \* the pieces of fetchAllMatches under way, or None

vars == <<matches, filters, statuses, paged, all, scan>>

Sorted(S) == [k \in 1..Cardinality(S) |-> CHOOSE i \in S : Cardinality({j \in S : j < i}) = k - 1]
Piece(seq, offset, limit) == SubSeq(seq, offset + 1, Min({offset + limit, Len(seq)}))

(* GET /issues takes an issue with one of the categories and one of the statuses. *)
Selects(params, i) ==
  /\ params.categories = {} \/ CategoryOf[StatusOf[i]] \in params.categories
  /\ params.statuses = {} \/ StatusOf[i] \in params.statuses
Search(params) == Sorted({i \in matches : Selects(params, i)})

MixesStatusFilters(choice) == choice.categories # {} /\ choice.statuses # {}
(* toSearchParams: the user means any of these. *)
ToSearchParams(choice) ==
  IF MixesStatusFilters(choice) /\ statuses
  THEN [categories |-> {},
        statuses |-> choice.statuses \cup {s \in DOMAIN CategoryOf : CategoryOf[s] \in choice.categories}]
  ELSE choice

-----------------------------------------------------------------------------
Init ==
  /\ matches \in SUBSET Issues
  /\ filters \in [choice : Menus, server : BOOLEAN, page : 1..LastPage]
  /\ statuses = FALSE
  /\ paged = None /\ all = None /\ scan = None

Ready == MixesStatusFilters(filters.choice) => statuses

(* What the two queries are asked for. *)
PagedKey == [params |-> ToSearchParams(filters.choice), page |-> filters.page]
AllKey == ToSearchParams(filters.choice)
(* A change of the filters makes the queries observe other keys: their data is a placeholder. *)
IsPlaceholder == IF filters.server THEN paged.key # PagedKey ELSE all.key # AllKey
IsPending == IF filters.server THEN paged = None ELSE all = None
Total == IF filters.server THEN paged.total ELSE Len(all.rows)

PageCount == Max({1, (Total + PageSize - 1) \div PageSize})
(* Mutant: a placeholder's total counts. *)
SettledEarly == ~IsPending
Settled == ~IsPending /\ ~IsPlaceholder

(* Another search aborts the pieces under way. *)
Ask(next) ==
  /\ filters' = next
  /\ scan' = IF next.choice = filters.choice /\ ~next.server THEN scan ELSE None
  /\ UNCHANGED <<matches, statuses, paged, all>>

Update == \E choice \in Menus : Ask([filters EXCEPT !.choice = choice, !.page = 1])
SortBy == Ask([filters EXCEPT !.server = ~@, !.page = 1])
(* The pagination offers the pages of the rows shown. *)
SetPage == ~IsPending /\ \E page \in 1..Min({PageCount, LastPage}) : Ask([filters EXCEPT !.page = page])
(* A shared link, Back or forward. *)
FollowLink == \E next \in [choice : Menus, server : BOOLEAN, page : 1..LastPage] : Ask(next)
(* The page is past the end. *)
SnapBack == Settled /\ filters.page > PageCount /\ Ask([filters EXCEPT !.page = PageCount])

LoadStatuses == ~statuses /\ statuses' = TRUE /\ UNCHANGED <<matches, filters, paged, all, scan>>

(* The page is loaded, found in the cache, or loaded again. *)
LoadPage ==
  /\ filters.server /\ Ready
  /\ paged' = [key |-> PagedKey, total |-> Len(Search(PagedKey.params))]
  /\ UNCHANGED <<matches, filters, statuses, all, scan>>

(* fetchAllMatches: the first piece says how many more to ask for. *)
LoadFirst ==
  /\ ~filters.server /\ Ready
  /\ LET found == Search(AllKey)
         target == Min({Len(found), SortCap})
         count == Max({1, (target + ApiLimit - 1) \div ApiLimit})
     IN scan' = [pieces |-> [n \in 1..count |-> IF n = 1 THEN Piece(found, 0, ApiLimit) ELSE None]]
  /\ UNCHANGED <<matches, filters, statuses, paged, all>>

(* They are asked for at once, and answered one by one. *)
LoadPiece(n) ==
  /\ scan.pieces[n] = None
  /\ scan' = [scan EXCEPT !.pieces[n] = Piece(Search(AllKey), (n - 1) * ApiLimit, ApiLimit)]
  /\ UNCHANGED <<matches, filters, statuses, paged, all>>

(* Mutant: the pieces are put one after the other. *)
AssembledAsIs(pieces) == FlattenSeq(pieces)
(* Once each, up to the cap. *)
Put(rows, i) == IF i \in Range(rows) \/ Len(rows) >= SortCap THEN rows ELSE Append(rows, i)
PutAll(rows, piece) == FoldLeft(Put, rows, piece)
Assembled(pieces) == FoldLeft(PutAll, <<>>, pieces)

(* clientComparator: some other order, ties by key. *)
LoadedAll ==
  /\ scan # None /\ \A n \in DOMAIN scan.pieces : scan.pieces[n] # None
  /\ all' = [key |-> AllKey, rows |-> Reverse(Assembled(scan.pieces))]
  /\ scan' = None
  /\ UNCHANGED <<matches, filters, statuses, paged>>

(* An issue is created, deleted, or changed so that it does or does not match. *)
Teammate ==
  /\ \E i \in Issues : matches' = IF i \in matches THEN matches \ {i} ELSE matches \cup {i}
  /\ UNCHANGED <<filters, statuses, paged, all, scan>>

Next ==
  \/ Update \/ SortBy \/ SetPage \/ FollowLink \/ SnapBack
  \/ LoadStatuses \/ LoadPage \/ LoadFirst \/ LoadedAll \/ Teammate
  \/ scan # None /\ \E n \in DOMAIN scan.pieces : LoadPiece(n)

Spec == Init /\ [][Next]_vars

-----------------------------------------------------------------------------
(* Properties: of every state, and of every step. *)

(* What the user means by the statuses and categories chosen in one menu: any of these. *)
Wanted(choice, i) ==
  \/ CategoryOf[StatusOf[i]] \in choice.categories
  \/ StatusOf[i] \in choice.statuses
  \/ choice.categories \cup choice.statuses = {}

(* The rows of a settled table are those of the search on screen: what was asked for selects
   the issues with any of the chosen categories and statuses, and none stands in it twice,
   whatever came and went while the pieces were fetched. *)
RowsAreMatches ==
  Settled =>
    /\ \A i \in Issues :
         Selects(IF filters.server THEN paged.key.params ELSE all.key, i) <=> Wanted(filters.choice, i)
    /\ ~filters.server => IsInjective(all.rows)

(* A page past the end gives way to the last page of its own search, and never to one of the
   rows still shown from the search before. *)
SnapsToOwnLastPage ==
  SnapBack => IF filters.server THEN paged.key = PagedKey ELSE all.key = AllKey
=============================================================================
