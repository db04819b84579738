------------------------------- MODULE Queries -------------------------------
(***************************************************************************)
(* The browser's cache of what the server holds: the queries of api/*.ts,  *)
(* what each of them shows, what every mutation changes at the server and  *)
(* which queries it refreshes (api/invalidate.ts), its answer possibly     *)
(* being put into the cache first; and the refresh that another user's     *)
(* change brings about. One query of one page is followed: the others are  *)
(* independent of it but for the time they take.                           *)
(***************************************************************************)
EXTENDS Naturals, FiniteSets, Sequences, SequencesExt

CONSTANTS Calls,       \* bound: the writes that are made, by this user or another
          Here, There, \* two projects; issues of one are linked to issues of the other
          Absent       \* undefined: no data

ASSUME QueriesAssumption == Here # There /\ \A data \in SUBSET Calls : data # Absent

Projects == {Here, There}

-----------------------------------------------------------------------------
(* Query keys (qk): all that belongs to a project begins with its own key. *)
project(p) == <<"project", p>>
board(p) == project(p) \o <<"board">>
backlog(p) == project(p) \o <<"backlog">>
epics(p) == project(p) \o <<"epics">>
statuses(p) == project(p) \o <<"statuses">>
labels(p) == project(p) \o <<"labels">>
members(p) == project(p) \o <<"members">>
sprints(p) == project(p) \o <<"sprints">>
projectActivity(p) == project(p) \o <<"activity">>
issue(p) == project(p) \o <<"issue", "key">>
comments(p) == issue(p) \o <<"comments">>
issueActivity(p) == issue(p) \o <<"activity">>
me == <<"me">>
users == <<"users">>
projects == <<"projects">>
issues == <<"issues">>
activityFeed == <<"activity">>

ProjectQueries == [p \in Projects |->
  {project(p), board(p), backlog(p), epics(p), statuses(p), labels(p), members(p), sprints(p),
   projectActivity(p), issue(p), comments(p), issueActivity(p)}]

Queries == {me, users, projects, issues, activityFeed} \cup UNION {ProjectQueries[p] : p \in Projects}

Under(prefix) == {q \in Queries : IsPrefix(prefix, q)}

(* What the server's answers are made of: facts of a project, and accounts. *)
Of(p, topics) == {p} \X topics
Everywhere(topics) == Projects \X topics
Account == {<<"account", "user">>}

(* The facts each query shows: the shapes of api/types.ts. A project's own row comes with
   the caller's role and the number of its issues; an issue with its status, sprint and
   labels; an issue's page with the linked issues, whatever their project, of which it
   shows summary, type, priority ("ref") and status. The columns are the statuses a
   project has, in their order. *)
ProjectFacts == {"row", "member", "count"}
IssueFacts == {"ref", "issue", "status", "sprint", "label"}
IssueRefFacts == {"ref", "status"}

ShowsOfIssue(p) == Of(p, IssueFacts \cup {"link"}) \cup Everywhere(IssueRefFacts) \cup Account
ShowsOfBoard(p) == Of(p, ProjectFacts \cup IssueFacts \cup {"column"}) \cup Account
ShowsOfLists(p) == Of(p, IssueFacts) \cup Account
ShowsOfSprints(p) == Of(p, {"sprint", "ref", "issue", "status"})
ShowsOfActivity(p) == Of(p, {"activity"}) \cup Account

Shows(q) ==
  CASE q \in {me, users} -> Account
    [] q = projects -> Everywhere(ProjectFacts) \cup Account
    [] q = issues -> Everywhere(IssueFacts) \cup Account
    [] q = activityFeed -> Everywhere({"activity"}) \cup Account
    [] OTHER ->
       LET p == q[2] IN
       CASE q = project(p) -> Of(p, ProjectFacts) \cup Account
         [] q = board(p) -> ShowsOfBoard(p)
         [] q \in {backlog(p), epics(p)} -> ShowsOfLists(p)
         [] q = statuses(p) -> Of(p, {"column", "status"})
         [] q = labels(p) -> Of(p, {"label"})
         [] q = members(p) -> Of(p, {"member"}) \cup Account
         [] q = sprints(p) -> ShowsOfSprints(p)
         [] q \in {projectActivity(p), issueActivity(p)} -> ShowsOfActivity(p)
         [] q = issue(p) -> ShowsOfIssue(p)
         [] q = comments(p) -> Of(p, {"comment"}) \cup Account

-----------------------------------------------------------------------------
(* isIssueDetailKey, otherIssueDetails: the issue pages of the other projects. *)
OtherIssueDetails(ps) ==
  {q \in Queries : Len(q) = 4 /\ q[1] = "project" /\ q[3] = "issue" /\ q[2] \notin ps}

(* staleQueries: what a change in the projects ps can make stale. *)
StaleQueries(ps, alsoProjects, linkedIssues) ==
  (UNION {Under(project(p)) : p \in ps}) \cup Under(issues) \cup Under(activityFeed)
    \cup (IF alsoProjects THEN Under(projects) ELSE {})
    \cup (IF linkedIssues THEN OtherIssueDetails(ps) ELSE {})

(* A mutation hook: the facts its request changes at the server, the queries it writes
   the answer to, whole or in part, those it removes, and those it refreshes. Forgets:
   the project is no longer the caller's. Every one is a change in the project Here. *)
Mutation(changes, sets, patches, removes, stale) ==
  [changes |-> changes, sets |-> sets, patches |-> patches, removes |-> removes,
   stale |-> stale, forgets |-> FALSE]

Refreshing(topics, alsoProjects, linkedIssues) ==
  Mutation(Of(Here, topics), {}, {}, {}, StaleQueries({Here}, alsoProjects, linkedIssues))

CreateIssue == [Refreshing({"issue", "count", "activity"}, TRUE, FALSE) EXCEPT !.sets = {issue(Here)}]
UpdateIssue == [Refreshing({"ref", "issue", "activity"}, FALSE, TRUE) EXCEPT !.sets = {issue(Here)}]
DeleteIssue ==
  [Refreshing({"ref", "issue", "count", "comment", "activity"}, TRUE, TRUE)
     EXCEPT !.changes = @ \cup Everywhere({"link"}), !.removes = Under(issue(Here))]
MoveIssue == Refreshing({"ref", "issue", "activity"}, FALSE, TRUE)

CreateSprint == Refreshing({"sprint", "activity"}, FALSE, FALSE)
UpdateSprint == Refreshing({"sprint"}, FALSE, FALSE)
DeleteSprint == Refreshing({"sprint", "issue", "activity"}, FALSE, FALSE)
StartSprint == Refreshing({"sprint", "activity"}, FALSE, FALSE)
CompleteSprint == Refreshing({"sprint", "issue", "activity"}, FALSE, FALSE)

CreateStatus == Refreshing({"column"}, FALSE, FALSE)
(* Mutant: a renamed status is not refreshed where other projects' issues link to it. *)
UpdateStatusHere == Refreshing({"status", "ref", "issue"}, FALSE, FALSE)
UpdateStatus == Refreshing({"status", "ref", "issue"}, FALSE, TRUE)
ReorderStatuses == [Refreshing({"column"}, FALSE, FALSE) EXCEPT !.sets = {statuses(Here)}]
DeleteStatus == Refreshing({"column", "status", "ref", "issue", "activity"}, FALSE, TRUE)

CreateLabel == [Refreshing({"label"}, FALSE, FALSE) EXCEPT !.patches = {labels(Here)}]
UpdateLabel == Refreshing({"label"}, FALSE, FALSE)
DeleteLabel == Refreshing({"label", "issue"}, FALSE, FALSE)

AddComment == [Refreshing({"comment", "activity"}, FALSE, FALSE) EXCEPT !.patches = {comments(Here)}]
UpdateComment == [Refreshing({"comment"}, FALSE, FALSE) EXCEPT !.patches = {comments(Here)}]
DeleteComment == [Refreshing({"comment"}, FALSE, FALSE) EXCEPT !.patches = {comments(Here)}]

CreateLink == Mutation(Everywhere({"link"}) \cup Of(Here, {"activity"}), {}, {}, {},
                       StaleQueries(Projects, FALSE, FALSE))
DeleteLink == Mutation(Everywhere({"link"}) \cup Of(Here, {"activity"}), {}, {}, {},
                       StaleQueries(Projects, FALSE, FALSE))

CreateProject == Mutation(Of(Here, {"row", "member", "activity"}), {project(Here)}, {}, {},
                          Under(projects) \cup Under(activityFeed))
UpdateProject == [Refreshing({"row"}, TRUE, FALSE) EXCEPT !.sets = {project(Here)}]
AddMember == Refreshing({"member", "activity"}, TRUE, FALSE)
UpdateMember == Refreshing({"member"}, TRUE, FALSE)
RemoveMember == Refreshing({"member", "row", "issue", "activity"}, TRUE, FALSE)

UpdateMe == Mutation(Account, {me}, {}, {}, {q \in Queries : q[1] # "me"})

(* forgetProject, after deleting the project or leaving it: its queries are cancelled and
   marked but not fetched again; the others that showed it are. *)
ForgetProject ==
  [Mutation(Of(Here, ProjectFacts \cup IssueFacts \cup {"comment", "activity"}) \cup Everywhere({"link"}),
            {}, {}, {},
            Under(projects) \cup Under(issues) \cup Under(activityFeed) \cup OtherIssueDetails({Here}))
     EXCEPT !.forgets = TRUE]
DeleteProject == ForgetProject
LeaveProject == ForgetProject

Writes == {CreateIssue, UpdateIssue, DeleteIssue, MoveIssue, CreateSprint, UpdateSprint,
           DeleteSprint, StartSprint, CompleteSprint, CreateStatus, UpdateStatus, ReorderStatuses,
           DeleteStatus, CreateLabel, UpdateLabel, DeleteLabel, AddComment, UpdateComment,
           DeleteComment, CreateLink, DeleteLink, CreateProject, UpdateProject, AddMember,
           UpdateMember, RemoveMember, UpdateMe, DeleteProject, LeaveProject}

(* Writes other users make while a page of the project is open: the events they bring
   (project.changed or another type) refresh the project and what links to it. Accounts
   have no event, and what a deletion does is modelled in Realtime. *)
ProjectChanges == {CreateStatus, UpdateStatus, ReorderStatuses, DeleteStatus, CreateLabel, UpdateLabel,
                   DeleteLabel, UpdateProject, AddMember, UpdateMember, RemoveMember}
ForeignWrites == Writes \ {UpdateMe, CreateProject, DeleteProject}
EventRefreshes(w) == StaleQueries({Here}, w \in ProjectChanges, TRUE)

-----------------------------------------------------------------------------
VARIABLES query,      \* the query that is followed
          mounted,    \* whether a component observes it
          entry,      \* its cache entry
          fetching,   \* its fetch
          committed,  \* the writes the server has committed that change what it shows
          call,       \* the writes of this user, and of others
          refresh,    \* the refreshes that the writes of others bring about
          forgotten   \* whether forgetProject is watching for the query's last observer

vars == <<query, mounted, entry, fetching, committed, call, refresh, forgotten>>

(* An entry: the writes its data shows, whether it is marked as stale (isInvalidated), and
   whether the last fetch failed. A fetch: where it is, what it brings, and the entry a
   cancelled one goes back to. Late, a history of both: a write of this user found the
   fetch under way and left it alone, or a refresh marked an entry that a fetch under way
   can put back unmarked. *)
NoEntry == [data |-> Absent, marked |-> FALSE, failed |-> FALSE, late |-> FALSE]
NoFetch == [at |-> "none", brings |-> {}, revert |-> NoEntry, late |-> FALSE]

(* What a write is to the query followed. *)
Effect(w) == [changes |-> w.changes \cap Shows(query) # {}, sets |-> query \in w.sets,
              patches |-> query \in w.patches, removes |-> query \in w.removes,
              stale |-> query \in w.stale, forgets |-> w.forgets]

OfHere == query \in Under(project(Here))
Called(c, where) == call[c].at \in where
GivenUp(where) == \E c \in Calls : Called(c, where) /\ call[c].is.forgets
Missing == OfHere /\ \/ GivenUp({"answered", "done"})
                     \/ \E c \in Calls : Called(c, {"sent"}) /\ ~call[c].others

Init ==
  /\ query \in Queries
  /\ mounted = FALSE
  /\ entry = NoEntry
  /\ fetching = NoFetch
  /\ committed = {}
  /\ call = [c \in Calls |-> [at |-> "unused"]]
  /\ refresh = [c \in Calls |-> [at |-> "none"]]
  /\ forgotten = FALSE

(* A fetch that ends, or is cancelled, lets the refreshes go on that joined it. *)
Released == [c \in Calls |-> IF refresh[c].at = "joined" THEN [refresh[c] EXCEPT !.at = "first"]
                             ELSE refresh[c]]

Started(e) == [at |-> "sent", brings |-> {}, revert |-> e, late |-> FALSE]

Left == IF fetching.at = "none" THEN fetching
        ELSE [fetching EXCEPT !.late = TRUE, !.revert.late = TRUE]

(* invalidateProject: query.invalidate() and, if someone observes it, query.fetch(): a fetch
   under way is cancelled and replaced, unless it is the query's first. *)
Invalidate(e) ==
  LET marked == [e EXCEPT !.marked = TRUE]
      free == fetching.at = "none" \/ e.data # Absent
  IN  /\ entry' = marked
      /\ IF mounted /\ free THEN fetching' = Started(marked) /\ refresh' = Released
         ELSE fetching' = Left /\ UNCHANGED refresh

(* A write is submitted: nothing is done in a project before it is created or after it was
   given up, and account changes wait for each other (the form is busy meanwhile). *)
Send(c) ==
  /\ call[c].at = "unused"
  /\ \E w \in Writes :
       /\ ~GivenUp({"sent", "answered", "done"})
       /\ w = CreateProject =>
            (\A d \in Calls : Called(d, {"unused"})) /\ (OfHere => ~mounted /\ entry = NoEntry)
       /\ (w = UpdateMe /\ query = me) => \A d \in Calls : Called(d, {"unused", "done"})
       /\ call' = [call EXCEPT ![c] = [at |-> "sent", is |-> Effect(w), others |-> w # CreateProject]]
  /\ \A d \in Calls : Called(d, {"sent", "answered"}) => call[d].others
  /\ UNCHANGED <<query, mounted, entry, fetching, committed, refresh, forgotten>>

(* The server commits the write and answers with what it then holds. *)
Commit(c) ==
  /\ call[c].at = "sent"
  /\ committed' = IF call[c].is.changes THEN committed \cup {c} ELSE committed
  /\ call' = [call EXCEPT ![c] = [at |-> "answered", is |-> @.is, others |-> @.others,
                                  shows |-> committed']]
  /\ UNCHANGED <<query, mounted, entry, fetching, refresh, forgotten>>

(* setQueryData: the answer replaces the data, or is merged into it, and the entry counts
   as fresh; a fetch under way is not touched. *)
Written(c) ==
  IF call[c].is.sets THEN [NoEntry EXCEPT !.data = call[c].shows]
  ELSE IF call[c].is.patches /\ entry.data # Absent
  THEN [entry EXCEPT !.data = @ \cup {c}, !.marked = FALSE, !.failed = FALSE]
  ELSE entry

(* removeQueries; a page still open loads it again. *)
RemoveQuery ==
  /\ entry' = NoEntry
  /\ fetching' = IF mounted THEN Started(NoEntry) ELSE NoFetch
  /\ refresh' = Released
  /\ UNCHANGED forgotten

(* forgetProject on a query of the project: cancelled and marked, or dropped if nobody
   observes it. *)
DropQuery ==
  /\ entry' = IF ~mounted THEN NoEntry
              ELSE [(IF fetching.at = "none" THEN entry ELSE fetching.revert) EXCEPT !.marked = TRUE]
  /\ fetching' = NoFetch
  /\ refresh' = Released
  /\ forgotten' = TRUE

(* onSuccess of the mutation: setQueryData, then invalidateQueries. *)
Succeed(c) ==
  LET is == call[c].is
  IN  /\ call[c].at = "answered"
      /\ call' = [call EXCEPT ![c] = [at |-> "done", is |-> is, others |-> TRUE]]
      /\ \/ is.forgets /\ OfHere /\ DropQuery
         \/ is.removes /\ ~is.forgets /\ RemoveQuery
         \/ /\ ~is.removes /\ ~(is.forgets /\ OfHere)
            /\ IF is.stale THEN Invalidate(Written(c))
               ELSE entry' = Written(c) /\ fetching' = Left /\ UNCHANGED refresh
            /\ UNCHANGED forgotten
  /\ UNCHANGED <<query, mounted, committed>>

-----------------------------------------------------------------------------
(* Another user's write commits, and its event is on its way to the page. The project list
   follows only the events that say the project itself changed, so a write of another kind
   is not counted for it. *)
ForeignCommit(c) ==
  /\ call[c].at = "unused"
  /\ \A d \in Calls : Called(d, {"sent", "answered"}) => call[d].others
  /\ ~GivenUp({"answered", "done"})
  /\ \E w \in ForeignWrites :
       LET is == Effect([w EXCEPT !.forgets = FALSE])
       IN  /\ call' = [call EXCEPT ![c] = [at |-> "done", is |-> is, others |-> TRUE]]
           /\ committed' = IF is.changes /\ (query = projects => w \in ProjectChanges)
                           THEN committed \cup {c} ELSE committed
           /\ refresh' = [refresh EXCEPT ![c] = [at |-> "event", stale |-> query \in EventRefreshes(w)]]
  /\ UNCHANGED <<query, mounted, entry, fetching, forgotten>>

(* refreshProject, first half: what is being fetched is noted, nothing is cancelled. *)
Refresh(c) ==
  /\ refresh[c].at = "event"
  /\ LET running == mounted /\ fetching.at # "none"
         next == [at |-> IF mounted THEN "joined" ELSE "first", ran |-> running]
     IN  IF refresh[c].stale
         THEN /\ entry' = [entry EXCEPT !.marked = TRUE]
              /\ fetching' = IF mounted /\ ~running THEN Started(entry') ELSE fetching
              /\ refresh' = [refresh EXCEPT ![c] = next]
         ELSE /\ refresh' = [refresh EXCEPT ![c] = [at |-> "none"]]
              /\ UNCHANGED <<entry, fetching>>
  /\ UNCHANGED <<query, mounted, committed, call, forgotten>>

(* Mutant: a refetch that was already running is taken for fresh. *)
RefreshedOnce(c) ==
  /\ refresh[c].at = "first"
  /\ refresh' = [refresh EXCEPT ![c] = [at |-> "none"]]
  /\ UNCHANGED <<query, mounted, entry, fetching, committed, call, forgotten>>

(* Second half, when the first refetches have settled: those that were running before are
   fetched once more. *)
RefreshAgain(c) ==
  /\ refresh[c].at = "first"
  /\ refresh' = [refresh EXCEPT ![c] = [at |-> "none"]]
  /\ IF refresh[c].ran
     THEN /\ entry' = [entry EXCEPT !.marked = TRUE]
          /\ fetching' = IF mounted /\ fetching.at = "none" THEN Started(entry')
                         ELSE [fetching EXCEPT !.revert.late = fetching.at # "none"]
     ELSE UNCHANGED <<entry, fetching>>
  /\ UNCHANGED <<query, mounted, committed, call, forgotten>>

-----------------------------------------------------------------------------
(* A component that shows the query: it fetches what is missing, marked, or older than the
   stale time. *)
Mount ==
  /\ ~mounted
  /\ mounted' = TRUE
  /\ \/ fetching' = Started(entry)
     \/ entry.data # Absent /\ ~entry.marked /\ UNCHANGED fetching
  /\ UNCHANGED <<query, entry, committed, call, refresh, forgotten>>

(* The window is focused again. *)
Refocus ==
  /\ mounted /\ fetching.at = "none"
  /\ fetching' = Started(entry)
  /\ UNCHANGED <<query, mounted, entry, committed, call, refresh, forgotten>>

(* Mutant: nobody watches for the last observer of a forgotten project's query. *)
UnmountKeeping ==
  /\ mounted
  /\ mounted' = FALSE
  /\ entry' = IF fetching.at = "none" THEN entry ELSE fetching.revert
  /\ fetching' = NoFetch
  /\ refresh' = Released
  /\ UNCHANGED <<query, committed, call, forgotten>>

(* The last observer leaves: the fetch is aborted and the entry goes back to what it was
   when the fetch began. A forgotten project's entry is dropped. *)
Unmount ==
  /\ mounted
  /\ mounted' = FALSE
  /\ entry' = IF forgotten THEN NoEntry
              ELSE IF fetching.at = "none" THEN entry ELSE fetching.revert
  /\ fetching' = NoFetch
  /\ refresh' = Released
  /\ UNCHANGED <<query, committed, call, forgotten>>

(* Nobody has shown it for five minutes. *)
Collect ==
  /\ ~mounted /\ entry.data # Absent
  /\ entry' = NoEntry
  /\ UNCHANGED <<query, mounted, fetching, committed, call, refresh, forgotten>>

(* The server answers a fetch, with 404 while the project is not the caller's. *)
Serve ==
  /\ fetching.at = "sent"
  /\ fetching' = IF Missing THEN [fetching EXCEPT !.at = "refused"]
                 ELSE [fetching EXCEPT !.at = "answered", !.brings = committed]
  /\ UNCHANGED <<query, mounted, entry, committed, call, refresh, forgotten>>

FetchEnds(e) ==
  /\ entry' = e
  /\ fetching' = NoFetch
  /\ refresh' = Released
  /\ UNCHANGED <<query, mounted, committed, call, forgotten>>

Arrive ==
  /\ fetching.at = "answered"
  /\ FetchEnds([NoEntry EXCEPT !.data = fetching.brings, !.late = fetching.late])

(* The fetch fails for good: at once on a 4xx, else after two retries (createQueryClient). *)
FetchFails ==
  /\ fetching.at # "none"
  /\ FetchEnds([entry EXCEPT !.marked = TRUE, !.failed = TRUE])

Next ==
  \/ \E c \in Calls : \/ Send(c) \/ Commit(c) \/ Succeed(c)
                      \/ ForeignCommit(c) \/ Refresh(c) \/ RefreshAgain(c)
  \/ Mount \/ Refocus \/ Unmount \/ Collect \/ Serve \/ Arrive \/ FetchFails

Spec == Init /\ [][Next]_vars

-----------------------------------------------------------------------------
(* Properties *)

(* Every variable keeps its type, and no answer shows a write the server has not committed. *)
TypeOK ==
  /\ query \in Queries
  /\ mounted \in BOOLEAN /\ forgotten \in BOOLEAN
  /\ entry.data # Absent => entry.data \subseteq committed
  /\ entry.marked \in BOOLEAN /\ entry.failed \in BOOLEAN
  /\ fetching.at \in {"none", "sent", "answered", "refused"}
  /\ fetching.brings \subseteq committed
  /\ committed \subseteq Calls

Quiet == /\ \A c \in Calls : Called(c, {"unused", "done"}) /\ refresh[c].at = "none"
         /\ fetching.at = "none"

(* When nothing is under way, what is on the screen is what the server holds, unless the
   last fetch failed: no mutation has refreshed too little (staleQueries), no late answer
   has put an older state back, and no refetch was lost to a cancellation or to another
   refresh (invalidateProject, refreshProject). Left out
   is an answer that a mutation does not replace: a query's first, and the profile's. *)
ScreenIsCurrent ==
  Quiet /\ mounted /\ ~Missing => entry.failed \/ entry.late \/ entry.data = committed

(* An entry that is not marked as stale is shown again without a fetch for half a minute.
   Once nothing is under way, it is current, too: unmounting a page in the middle of a
   refetch puts an older entry back, but never without its mark (refreshProject's second
   half sees to that). *)
UnmarkedIsCurrent ==
  Quiet /\ ~Missing /\ entry.data # Absent /\ ~entry.marked => entry.late \/ entry.data = committed

(* Nothing is left in the cache of a project the user deleted or left once its pages are
   closed (forgetProject), so opening it again asks the server; but for the answer of
   another write that was still under way, and that is marked. *)
ForgottenIsGone ==
  forgotten /\ ~mounted =>
    \/ entry.data = Absent
    \/ entry.marked /\ \E c \in Calls : Called(c, {"done"}) /\ call[c].is.sets

(* No answer is newer than the server, and a project given up leaves nothing to show. *)
CacheIsSound == TypeOK /\ ForgottenIsGone
=============================================================================
