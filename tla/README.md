# Verification of Gene Board

TLA+ models of Gene Board (a Jira-style issue tracker: a Go API over PostgreSQL, a React
client, a websocket for live updates), checked with TLC on small instances and, where it says
so below, proved with TLAPS for instances of any size. Paths are relative to `src/`; `service/`
stands for `backend/internal/service/`.

## The system

| Component | State | Operations | Must be right |
|---|---|---|---|
| Issues, sprints, statuses (`service/issues.go`, `issue_rules.go`, `sprints.go`, `statuses.go`) | rows of `issues`, `sprints`, `statuses`, `activities` | create, PATCH, move, delete an issue; create, edit, start, complete, delete a sprint; create, edit, reorder, delete a status | three-level hierarchy; subtasks in their parent's sprint; one active sprint; `resolved_at` agrees with the category; the activity log replays |
| Members and transactions (`service/members.go`, `projects.go`, `permissions.go`, `tx.go`) | `projects`, `project_members`, row locks | add, change, remove a member; edit, delete the project; `inTx` | at least one admin; lead and assignees are members; a write takes effect only for someone who has the role at its commit |
| Rank (`backend/internal/rank`, `moveRank`) | `issues.rank` | `Between`, place between neighbours a client names | ranks stay unique and between their neighbours, whatever stale list the client saw |
| Links (`service/links.go`) | `issue_links` | create, delete; cascade with an issue | no duplicate symmetric link; both projects are told |
| Realtime (`backend/internal/realtime/hub.go`, `api/ws.go`) | subscribers, bounded buffers, streams | subscribe, publish, drop, close; re-check access | publishers never block; a slow client is dropped, not skipped; a removed member stops receiving |
| Live client (`frontend/src/realtime/useProjectRealtime.ts`) | socket, back-off, debounce | connect, refresh, reconnect | what it shows catches up with the server |
| Accounts (`service/auth.go`, `service.go`) | password hash, token version | login, PATCH /auth/me, verify | a password change revokes every older token; racing changes revert nothing |
| Client session (`frontend/src/api/client.ts`) | stored token, session changes in flight | request, retry after 401, sign out | a page does not sign itself out over its own password change |
| Throttle (`backend/internal/ratelimit`, `api/throttle.go`) | token buckets | reserve, settle, refill, sweep | never more guesses than the budget |
| Query cache (`frontend/src/api`) | 29 queries | 29 mutations; refresh after an event; forget a project | what is shown is current once all has settled |
| Board (`frontend/src/features/board`) | query cache, pending moves, filters, the dialog that completes a sprint | drag, move, confirm, roll back, refetch, filter, complete | the board ends at what the server has; a card lands where it was dropped; filters show what hides |
| Backlog (`frontend/src/features/backlog`) | the same over several lists; quick creation; sprint forms | drag, create, plan, start, edit | the same; no typed text is lost; a form sends what it shows |
| Issue (`frontend/src/features/issue`, `components/issue`) | history of the modal, drafts, editors, pickers, the create form | open, edit, pick, comment, delete, create | a draft goes only when its user lets it; a teammate's change is not undone |
| Search (`frontend/src/features/search`) | URL, search box, pages of results | type, filter, page, Back and Forward | box, URL and rows agree |
| Settings (`frontend/src/features/settings`) | columns, details form | reorder, rename, limit, delete; save | the order last dropped shows; only the user's own edits are sent |
| Comments, labels | rows | create, edit, delete | the author or an admin only |
| Reads (`service/board.go`, `activity.go`) | none | board, backlog, epics, feeds | one snapshot |
| HTTP, config, tokens, seed, UI | none of interest | | |

How they interact. Each write is one transaction. It checks the caller against committed rows,
takes the lock of the project row (`LockProject`, `FOR NO KEY UPDATE`), reads project and role
again under it, does its work, commits, and only then publishes its events to the hub. Comments,
labels and links take no project lock, only key-share locks of the rows they refer to. The hub
hands events to the streams; the client takes each for a hint that something changed and
refetches. What is hard: interleavings of calls before and after they get the lock; full-row
UPDATEs from what was read earlier; bulk statements and foreign-key cascades inside one write;
commit and publication being two steps; lost, late and reordered events; one password change
racing the requests of the same session. In the browser: state that is kept twice (cache and
overlay, draft and value, URL and box, storage and page) while answers, refetches and teammates'
changes arrive in any order. `PROJECT.json` lists each hazard at its line.

## The modules

| Module | What it is |
|---|---|
| `Issues` | a project's issues, sprints and statuses; one action per service operation |
| `SprintLifecycle` | abstract: a sprint is planned, active, completed; one active at a time. `Issues` implements it |
| `Members` | calls as transactions: check, wait for the project lock, check again, commit or roll back |
| `Roster` | abstract: members, lead and assignees changed by atomic calls. `Members` implements it |
| `Hub` | the registry of subscribers: publishers under the read lock, everything else under the write lock |
| `Feed` | a subscription and what may happen to it, for `Fanout` and `Realtime` to build on |
| `Fanout` | abstract: what a publication owes every subscription. `Hub` implements it |
| `Realtime` | from a commit to the page that shows it: publication, streams, sockets, refetches, the server's stops |
| `Session` | the tabs of a browser, the storage they share, their requests, and the accounts that issue and revoke tokens |
| `Queries` | any one query of the cache around any two writes: what each of the mutations marks, cancels, awaits, writes and forgets |
| `Board`, `BoardFilters`, `BoardPage` | drags and pending moves on the board; its filters; the dialog that completes a sprint |
| `Backlog`, `QuickCreate`, `SprintForms` | drags and pending moves of the backlog; creation under the epic filter; the dialogs that start and edit a sprint |
| `IssueModal`, `InlineEdit`, `Picker`, `CreateIssue` | the modal's history and drafts; a field edited in place; the seven pickers; the create dialog |
| `Search`, `SearchResults` | the search box, the URL and the history; the table of results |
| `Columns`, `DeleteColumn`, `ProjectDetails` | the settings: order of columns, deletion of one, the details form |
| `Pages` | the instances of the fifteen modules of the user interface, one of which is on screen, and their properties |
| `IssuesProofs`, `MembersProofs`, `HubProofs`, `RealtimeProofs`, `SessionProofs`, `QueriesProofs` | theorems about the module of that name, and their proofs |
| `FormsProofs`, `ViewsProofs` | theorems about `Pages` and their proofs: what is entered and sent; what is shown and where one goes |
| `MCIssues`, `MCMembers`, `MCHub`, `MCRealtime`, `MCSession`, `MCQueries` | small sets, and symmetry where it is sound, for TLC |
| `MCPages` | the boards, backlogs, forms and lists on which TLC checks `Pages` |

A definition commented *Mutant* is not part of the model: it is the code with a bug it could
plausibly have, there to show that a property would notice. `PROJECT.json` names one for each
property; where a property has several parts, the other mutants break the other parts.

### Issues

A table is a family of functions over row identities: `type`, `parent`, `sprint`, `status`,
`resolvedAt` for `issues`; `sprintState`; `category`; with `"absent"` for a row that is not there
and `NULL` for SQL null. `logged` stands for `activities`: per issue and field, the value a reader
of the rows ends at. Each operation is one action, because each holds the project lock from before
it reads what it decides on until it commits; that this is sound is what `Members` shows. The
action contains all the statements of the handler: `MoveIssuesToSprint` is the log statement, the
UPDATE and the sync of the subtasks; `DeleteIssue` and `DeleteSprint` include what the
`ON DELETE SET NULL` keys would clear *without logging it*, so that a row the code forgot to move
shows up as a history that no longer replays. A request the code refuses is no step. Identities
are used again after a deletion, which is sound because nothing refers to a deleted row
(`ReferencesExist`, `TypeOK`), and lets long sequences of creations and deletions run.

Abstracted: the three interchangeable standard types are a set; the open categories (todo,
in progress) are a set, all told apart from `done` only; times are a set that `now()` picks from,
in any order. Left out: rank, dates, names, positions, labels, text fields, and who may call.

### Members

A call is `idle`, `waiting` for the lock, `locked`, then `decided`; `seen` is the column value it
read of the row it will overwrite. `Begin` is the access check on committed rows, before the wait;
`LockProject` is granted to any waiter; `Decide` is the second check (`lockProjectAs`,
`lockMember`, `requireMember`) with the row read again; `Commit` makes the statements visible and
ends the transaction; `Refuse` is every 403, 404, 409, 422 under the lock; `NotFound` the project
that was deleted during the wait; `Fail` any error, disconnection or crash before the commit.
`editProject` and `editIssue` change some other column but write lead or assignee back, since the
UPDATE names every column. `AddMember` of an existing member is the unique violation.

Left out: creating and deleting issues (the set is fixed, an assignee starts empty), the reporter,
which keeps its value when its member leaves, and events.

### Hub

One project's registry (projects share the lock and nothing else). A section under the write
lock is one step, possible only when no publisher is sending (`NoReader`); a publisher takes the
read lock (`RLock`), tries each registered channel in any order (`TrySend`, the `select` with a
default), unlocks, and removes the slow ones in a section of its own. A waiting writer keeps new
readers out, as `sync.RWMutex` does: that is the guard of `RLock`. `made` are the subscriptions
somebody still refers to; `Collect` gives back the identity of one whose channel is closed, so
that any number of connections may come and go. `closes` counts, so that a second `close` of a
channel, a panic in Go, is a state and not something the model cannot do. `Unsubscribe` is allowed
at any time and more than once.

`Fanout` is what remains when locks are forgotten. A publication is owed to every subscription
that is open when it begins, and Publish may not return while it is (`Return`): each has the event
in its queue, or had no room and is marked (`missed`), or was cut off meanwhile; a mark goes away
only by being cut off. `ImplementsFanout` maps the publisher's event and what it has still to reach
to `posted` and `owed`, and a subscription found full by some publisher, and not yet removed, to
`missed`. That a marked one is in the end cut off is `FullIsCutOff`. In `Realtime` one `Publish`
step sends to all connections at once: their channels do not interact, so the order within a
`Publish` does not matter there.

### Realtime

A subscriber is a page of one project, with its user and its current connection. `version` counts
the commits; a commit leaves an event in `unpublished`, from where each is published on its own,
in any order, by the goroutine of its request. The stream of a connection is `checked` (the
handshake has looked at token and membership), `open`, or at the point of looking again
(`verify`). The socket is the hook's. `pending` is its debounce timer, `fetch`, `again` and `read`
one refetch and the one that follows it, `shown` what the page shows.

What is one step, and why it may be:
- `Open` is Accept, Subscribe and `onopen`. Between the first and the last a page could at most
  ask for the refetch that follows a reconnection before the handler has subscribed; the debounce
  (300 ms) makes it ask later. Between the checks of the handshake and `Open` anything may happen.
- `Deliver` is `writeEvent` and `onmessage`: a message written to a connection that then breaks is
  the `Break` before it.
- A connection that breaks ends on both sides at once. The old handler of a half-open connection
  may live on until a ping fails; it then sends to nobody.
- `SignedOut` is a refused handshake with the answer to `/auth/me` that the hook asks for;
  `Refused` is one without, or one whose request for `/auth/me` fails.
- `Stop` is both the end of a shutdown and a crash: unpublished events are lost with it.

A page signed out or turned to "not found" stays that way: its hook is gone (`"off"`). A refetch may
be given up at any time (`RefetchFails`): TanStack Query does so at once on an answer of the kind
4xx and after two more tries on any other failure. Timers (back-off, debounce, ping) are steps that
may happen at any time their guard allows. The page shows one query; the hook treats all queries of
the project alike. `Focus` is the refetch when the window gets the focus; the model leaves out those
for other reasons (a remount, own writes), which only make a page fresher, and what a page shows
after a refetch that overtakes an own write, which is left to `Queries` and `Board`.

Three gaps of the code are part of the model and the properties say so. A change committed after the
first load and published before the first socket is open reaches this page only with the next
event: `onopen` refreshes only when `attempt > 0`. `since` remembers the version at that moment and
`NothingIsLost` and `CatchesUp` exempt it. A refetch that was given up (`fetch` is `"failed"`) is not
asked for again until the next event, reconnection or focus: the page stays behind, connected, with
nothing under way. `NothingIsLost` exempts a page whose last refetch was given up, `CatchesUp` one
whose last was or whose refetches are given up again and again. And a user removed while
disconnected is
refused with 404 at the handshake; the hook asks `/auth/me` only, which is fine, so the page goes on
trying, showing the project as it was (`Refused`, second disjunct): `CatchesUp` speaks of pages that
may follow the project.

### Session

One browser: `stored` is localStorage, shared by the tabs; a tab has its page's copy of the token
(`tokenStorage`), the token of its React state, and the users whose data it has cached. A tab that
has not yet heard of a change of storage is `pending`. A request is sent with a token, checked by
the server against the token version of then, answered, and handled; `waits` is what the
`Promise.allSettled` of `client.ts:268` waits for. A tab may close or reload, storage may refuse a
write or be blocked, requests may fail: `MaxFaults` bounds how often. `overtaken` remembers that a
mutation was answered too late (`Overtakes`): after its session ended, or, for a change of the
account, after storage had moved on unnoticed or the token it was made with had been replaced. Such an
answer may put the former user's data into the cache or a former token back, which `CacheIsOwn` and
`OwnChangeKeepsSession` exempt. The second kind came out of the proof of these two: three tokens, or
three requests at once, are needed to meet it, one more than the run has.

Assumed: a page makes one PATCH of the profile at a time, as its dialog does, unless the dialog is
closed over the first; then the loser's 401 does end the session until the winner's answer
arrives, and an older answer of a name change may overwrite a newer token. Left out: registration,
validation, and what a page shows while it waits for `/auth/me`.

### Queries

The state is one cache entry (data, mark, the state a cancelled fetch goes back to), its fetch, and
two writes of any kind, each this user's or another's. Because the entry may be any of the 29
queries and the writes any of the 29 kinds, the run covers every pair of `staleQueries` and the
mutations' own extra keys. `committed` is what the server holds; an answer `brings` what was
committed when the server made it. The second half of a refresh (`refreshProject`), the cancelled
fetch that reverts, and `forgetProject` with its subscription are steps of their own.

Two fetches are not replaced when a mutation marks their query: a query's first (no data to
cancel back to: `invalidate.ts:55` leaves it running) and the profile's refetch (`auth.ts:39`). Their
late answer may be older than a mutation that was awaited, against `invalidate.ts:46`; the model
has this (`late`) and the properties exempt it. The list of projects follows `project.changed`
events only. Left out: the ten seconds after which `forgetProject` stops watching, retries,
garbage collection.

### The pages

Each module is one page, dialog or control with its own state, the part of the server and of the
cache it works on, this user's requests and teammates who change the same data. A request is sent,
takes effect, and is answered in separate steps, and may fail or lose its answer. The data are
reduced to what the properties tell apart: a name is one of two texts, a date a week, a rank a
number. A variable called a history in its module records what happened and constrains nothing.

- `Board`: `cache` is the query's data, `Overlaid` the pending moves over it, `fetching` the one
  fetch of the board, `refresh` what an event brings about. Ranks are integers with gaps; `Gap` and
  `Top` stand for the alphabet of the keys. Own events are covered by `Refocus`. `LandsWhereDropped`
  speaks of a drop with no earlier move in flight: a pending move is replayed from neighbours that
  the drop may have moved. Failed fetches are in `Queries`; the columns do not change here.
- `BoardFilters`: `PruneFilters` over two contents of a board. `BoardPage`: the planned sprints may
  fail to load, and the dialog then offers those it had; the dialog is bound to
  the sprint it was asked for. Opened through the link's parameter it follows the board instead, so
  it may switch to a sprint started later: exempted. The late answer of a dialog already closed
  closes whichever is open.
- `Backlog`: as `Board`, over the lists of the sprints and the backlog. `model.ts` calls replaying
  a move that the data already has harmless; with two in flight it is not always, so `RowsStay` is
  for one at a time. A row put back where it was picked up is moved all the same if a teammate
  inserted one in between. Neighbours are looked for among the visible ones only.
- `QuickCreate`: the epic filter and creations in flight (`Requests` bounds them). The page's filters
  by text and by assignee, which may hide what was just created, are not modelled. When two fail at
  once one text is lost, and one that fails after the form was closed is there when it is opened
  again; the property is about what was typed since.
- `SprintForms`: a start sends both dates, whether its user changed them or not, and so undoes a
  teammate's replanning; its doc promises less only of name and goal ("Sends the name and goal only
  when they were changed"). An edit form fills in an end date where the sprint has a start only, and
  sends it. `TeammatesEditsKept` exempts these dates by name: what it says is that a name and a goal
  left alone are never undone, and in an edit the dates the sprint had. What it exempts of the edit
  form is the run `sprint_dates`, see Findings. A sprint with an end date only shows a preset that is
  not the length of its dates. What is typed while a save is under way is lost.
- `InlineEdit`: summary, description, points, due date, and in the settings a column's name and
  limit. The last two do not write their answer into the cache, and the limit's editor closes on
  failure too. Numbers and dates that do not parse are one value. A column's category is left out.
- `IssueModal`: entries of the history with and without an issue on top, drafts, a deletion, and
  the question asked before a draft is thrown away. The question is answered before the browser's
  buttons are used again. A deletion that completes after Back to another issue closes that one's
  modal; a failed one has already dropped the comment's draft.
- `Picker`: status, type, sprint, assignee, reporter, parent and labels. A label created after the
  popover closed is kept among the picks, and one clicked between its answer and the refetch ends
  unselected. `SendsTheChoice` says of a single-value picker that what is saved is an option of the
  list as it is at that moment; the highlighted option, which Enter chooses, may be another when the
  list has just changed.
- `CreateIssue`: projects, roles and the parent's lookup arrive late. There is no lookup when the
  parent is given without its key (`"off"`); then, and after a lookup that failed, any parent passes
  for what it can be a parent of, and the server decides. Labels and a status are one each. Story,
  task and bug are one type. Fields stay enabled while creating, and what is typed then is gone on success. A label
  being created while the project changes is not modelled.
- `Search`: the box, its pause of 350 ms, the URL and the history. The button that clears the box
  writes after the blur and so leaves a typing session open: the first write of the next replaces
  the current entry (`IssueFilterBar.tsx:118`). `BackRestoresSearch` says what does hold. That a
  pending commit, fired after Back, shows in the box takes a third text to see, which the run does
  not have; the theorem covers it.
- `SearchResults`: a page where the server sorts, every match in pieces where the browser does.
  `ApiLimit`, `SortCap` and `LastPage` are scaled down. Request errors are left out. The pieces
  are requested at once and come in any order, each from the matches of its moment; a row in two
  of them counts once.
- `Columns`: two drags in flight; TanStack runs the callbacks of the latest `mutate` only, so the
  code's own token check is a second safeguard. `DeleteColumn`: while the number of issues is still
  unknown the default target is sent though no choice is shown (against `DeleteColumnDialog.tsx:47`);
  exempted by name. Any 409 makes it count anew, that for the last column too. `ProjectDetails`: text that differs in outer spaces is the same; the lookup of
  the lead, the question before a switch of type and the save. What is sent is what the admin
  entered. It is not always what the form shows: when others set a field to the very value
  submitted, and then to another, while the switch is looked up or confirmed, the form follows them
  (`DetailsTab.tsx:151`) and the submit does not. Deleting the project is left out.

## The runs

| Run | Instance | States | Shows |
|---|---|---|---|
| `issues` | 3 issues, 2 sprints, 2 statuses, 2 times | 50 590 | the invariants and step properties below |
| `issues_kanban` | 2 issues, 2 sprints, 2 statuses, 1 time | | violated, see Findings |
| `members` | 2 users, 1 issue, 2 calls | 750 338 | `Members` implements `Roster`, its invariants hold, and every call ends |
| `hub` | 2 subscriptions, 2 publishers, 2 events, buffers of 2 | 32 728 | no panic, no reader left behind, `Hub` implements `Fanout`; Publish returns; a full subscriber is cut off |
| `realtime` | 1 page, 2 kinds of event, buffers of 1, 2 commits | 53 723 | a connected page misses nothing; pages catch up unless refetches fail; removed members and ended sessions are let go |
| `realtime_handshake` | as `realtime` | | violated, see Findings |
| `session` | 2 tabs, 2 users, 2 requests, 2 tokens, 1 fault | 1 422 608 | tabs, storage and server agree; own changes keep the session; revoked ones end it |
| `session_logout` | 1 tab, 2 users, 2 requests, 2 tokens | | violated, see Findings |
| `queries` | 2 writes of any kind, any one query | 232 627 | what is shown is current once all has settled |
| `pages` | 15 pages, see below | 1 737 582 | the properties of the user interface below |
| `board_jump` | the board of `pages` | | violated, see Findings |
| `sprint_dates` | the sprint dialogs of `pages` | | violated, see Findings |

`issues` checks
- `WellFormed` (types, `ReferencesExist`, `HierarchyOK`, `ResolvedIffDone`),
  `SubtasksShareSprint`, `HistoryReplays` in every state;
- `CompletedSprintsGainNothing`, `CompletionSplitsSprint`, `DoneKeepsResolvedAt`,
  `DeletionIsContained` of every step;
- `ImplementsLifecycle`, the refinement.

Why these bounds are enough for the interesting cases: three issues give an epic with a story
with a subtask, or a story with two subtasks in one sprint; two sprints give one to complete and
one to move to, and a leftover; the two initial statuses may swap categories and be deleted and
created again, so an issue can go from done to done; two times tell a kept `resolvedAt` from a
new one. Issues, sprints and times are interchangeable (symmetry); the statuses are not, since
they begin in different categories. `issues`, `session` and `queries` use symmetry; the runs that
state liveness do not.

Two calls are enough to interleave every pair of operations in every order; two users give two
admins who demote each other, and an admin who removes the lead. Once the
project is deleted every call is refused, and the system has really stopped: no check for deadlock
there. `Issues` never stops.

Two publishers are enough for one to find full, or to remove, what the other is about to: two
sending at once, one removing what the other has in `slow` too, one unsubscribed in between. Two
subscriptions give one open and one full or closed; two events with buffers of two tell a lost
event from a reordered one. In `Realtime` pages do not interact but through the project, which is
why the run has one page (the theorems have any number): a buffer of one is full at the second
event, which arrives during the refetch of the first; `MaxVersion` bounds the commits, membership
changes included, and is the only bound on the length of a run.
Neither module ever deadlocks, and the runs check it.

`session` checks `SessionsAgree`, `CacheIsOwn` and `WaitsEnd` of every state, `OneWinner`,
`ExpiresOnlyRevoked` and `OwnChangeKeepsSession` of every step. One tab signs in; the other works
in the session they share, reading and changing the name and the password, and has it switched to
another user under its hands; both may sign out. Two requests at once are two account changes, or
one and a read that it overtakes; two tokens are one before and one after a change or a second
sign-in. `MaxFaults` bounds losses, refused writes, expiries and reloads together. `queries` needs two writes: one answered
late and one that it overtakes, of one project or of two that are linked.

`pages` checks, of each page shown alone (between pages nothing interacts but the cache, which is
`Queries`):

| Property | Page | Instance |
|---|---|---|
| `OptimismSettles`, `CardsStay`, `DropsHold` | board, backlog (and columns) | boards of one to three cards and backlogs of two or three rows, some hidden, one or two moves in flight, one write of a teammate |
| `FiltersShowThemselves` | board's filters, quick creation (its epic filter) | a board before and after its first story and its assignees left; two epics, two texts, two creations in flight |
| `DialogsDoAsShown` | completing a sprint, deleting a column | two sprints; three columns, one teammate's change |
| `SendsOwnEdits` | inline editors, sprint forms, details | three texts and the empty one; one or two teammates' changes |
| `PresetIsTheLength` | sprint forms | a planned sprint with a start date only and an active one, two changes by the user |
| `SendsTheChoice` | pickers | seven pickers, each over several lists of options |
| `DraftsAreKept`, `NavigatesAsMeant` | issue modal, quick creation, search table | two paths, two issues, a history of four entries |
| `CreatesInOneProject` | create dialog | two projects, four ways to open it |
| `SearchIsShown` | search box and table | two texts, two projects, a history of three entries; three issues in pieces of one, capped at two |

Two moves are what it takes for an overlay to meet another one, three cards for the nearest
neighbour to leave during a drag and the next to count, one change by a teammate to make any
reading stale, two creations for answers out of order. The runs of the pages do not
check for deadlock: a board on which every move was made, or a table nobody touches, rests. They
state no liveness: whether a request is answered is up to the network.

Fairness (`members`): strong fairness of what a call does next (`Proceed`), since PostgreSQL
queues the waiters of a row and serves all of them, and a handler that has the lock runs to its
end. Nothing is assumed of `Begin` (clients need not call) or `Fail`.

Fairness (`hub`): weak fairness of a publisher's own steps. Nothing is assumed of readers,
and no fairness of the write lock beyond that: `RemoveSlow` stays possible because new readers
wait for it. `FullIsCutOff` speaks of one publisher's own pass, so it does not depend on another
one coming.

Fairness (`realtime`): weak fairness of what a running goroutine or page does next (publish
after a commit, cut off the slow, read the channel, act on an answer, let a timer fire), of a
refetch being over, answered or given up (its tries are bounded), and of starting a stopped server
(a deployment restarts it). Nothing makes a refetch succeed, nor the window get the focus.
`flush` is fair although every event restarts its timer, because `MAX_WAIT_MS` caps the wait. Strong
fairness of three steps that the outside may prevent but not for ever: opening a connection
that was checked (a network that breaks every handshake would keep any page stale), a check
that finds access revoked (a database that fails every check keeps the connection by design), and
the answer to `/auth/me` that signs out (asked again at every refused handshake).
`CatchesUp` and `EndedSessionSignsOut` hold if the server stays up from some time on; writes end
since `MaxVersion` bounds them.

For each property there is a mutant of a modelled definition, a bug this code could plausibly
have (a forgotten guard, a check on what was read before the wait, a log statement that runs too
late), under which TLC finds it violated.

### Findings

`issues_kanban` (a comment and the code disagree). `service/issue_rules.go:83` and
`docs/SPEC.md:382` say that an issue of a Kanban project cannot join a sprint, not even one left
over from before the project switched from Scrum. `resolveSprint` sees to that for writes of an
issue, but `CompleteSprint` accepts a leftover planned sprint as its target whatever the project's
type, and moves the open issues there; only creating a new sprint for them is refused.

`realtime_handshake` (a comment and the code disagree). `api/ws.go:35` says that access is checked
right after each project.changed event, so a removed member stops receiving events immediately. The
handshake checks access at line 52 and the handler subscribes at line 74. A member removed in
between is not registered when the removal is published; the connection opens and receives the
project's events until the next ping, 30 seconds by default. It does end then: `RemovedStreamEnds`.

`session_logout` (a bug). `AuthProvider.tsx:33` says that logout clears the session and all cached
data. `patchSession` (`api/client.ts:109`) installs the token it is answered with whatever the session
is by then: if the user logs out while a change of name or password is in flight, the answer
signs the tab in again.

`board_jump` (a bug). `useOptimisticBoard.ts:24` says that a refetch can never make a card jump back
and forth. Drop a card into one column and at once into another: if the second move's refetch
ends while the first is still in flight, the second overlay goes and the first is laid over data
that already has both, so the card jumps to the first column until the first move has settled.
With one move of a user in flight at a time it cannot happen (`CardsStay`, which is proved).

`sprint_dates` (a comment and the code disagree). `SprintDialogs.tsx:209` says that the edit dialog sends
only the fields that changed, and `sprintForm.ts:49` that it is Start sprint that fills in the end
date. `initialSprintValues` fills it in whenever the sprint has a start date and no end date, in the
edit dialog too, and line 226 sends it: a user who opens the dialog and saves without touching
anything gives the sprint an end date nobody entered, over the one a teammate may have set meanwhile.

## The proofs

`IssuesProofs`: every invariant (`WellFormed` among them) and step property of the run `issues`, and the refinement, for
any sets of issues, sprints, statuses and times, from the three assumptions named in the module
(the types are distinct, a new project has at least one status, NULL is no row). The inductive
invariant `IInv` is the conjunction of the invariants, and no part of it is inductive alone:
`HistoryReplays` is kept by `DeleteSprint` only because every issue of the sprint is either a
standard issue or a subtask of one *in the same sprint* (`SubtasksShareSprint`, `HierarchyOK`), so
the cascade has nothing left to clear silently; `SubtasksShareSprint` is kept by `DeleteIssue`
only because subtasks have standard parents; `DoneKeepsResolvedAt` needs `ResolvedIffDone`. One
lemma per operation shows that it preserves `IInv`; the step properties have one lemma each.

`MembersProofs`: `RosterInv` (some admin, lead and assignees belong) is inductive for atomic calls.
For the protocol, `CallInv` says that only the holder of the lock has decided, that its decision
is still acceptable, its caller still has the role, and what it read is still the row. With it
every step maps to a step of `Roster` or to none (`Refinement`), for any number of calls and
users, and the invariants of `Roster` carry over (`RosterAlwaysHolds`).

`HubProofs`: the invariants of the run `hub` and the refinement, for any number of subscriptions,
publishers and events and any capacity of at least one. None of `SendsReachOpenChannels`,
`ClosedOnce`, `RegisteredIffOpen` is inductive alone. The invariant that is has two halves. Of a
subscription (`SubscriptionOK`): registered exactly while it is referred to and was never closed,
and its channel empty when nobody refers to it. Of a publisher (`PublisherOK`): while it sends,
what it has still to reach is registered (writers are kept out), otherwise it owes nothing, and what it found slow is still
referred to, registered or not, so a new connection cannot be mistaken for it. `removeLocked` then
closes only what was open, whichever of publisher, stream and shutdown comes first;
`ChannelsAlwaysSafe` puts the parts together.

`RealtimeProofs`: `TypeOK`, which relates stream, socket and subscription, and `NothingIsLost`, for
any number of pages, kinds of events and commits, any capacity. `NothingIsLost` is not inductive alone:
an answer must not take a page back behind what it shows. `Behind` adds that what was read lies
between what is shown and what is committed; `Noticed` is the property for one page.

`SessionProofs`: every property of the run `session`, for any number of tabs, users, requests, tokens
and faults. Types and five facts are added to `WaitsEnd` and `TabAgrees` to make them inductive. Tokens that
exist anywhere were issued, at a version not beyond their user's (`TokensGenuine`); a new one that is
still on its way is nowhere else (`FreshIsNew`); a request that was refused has a token that will
never be accepted again, since versions only grow (`RequestsOK`); a page keeps a token storage refused
only while it shows it (`PagesOK`); and as long as no answer came too late, what a page caches and
reads is of the user it shows unless it is still to hear of a change, and a token given up does not
come back (`NotOvertaken`). `OneWinner` is
the argument about versions: two racing changes checked against one row cannot both find it
unchanged.

`QueriesProofs`: the three invariants of the run `queries`, for any number of writes (the run has two).
Lemmas about the data come first: each of the 29 writes marks, awaits, writes or forgets every query
that shows something it changes (`OrdinaryWrites` for the uniform ones, a lemma each for the
others). The invariant then says of an unmarked entry, or of the state a cancelled fetch would
return to, that it has all that is committed except what some write still owes a refresh (`Owed`) or
a mutation still awaits (`Awaited`); that no data is ahead of the server
(`SoundData`); and that a project is made with no other write under way, and one form at a time
changes the profile (`Alone`). Assumed: two projects differ, and "no data"
is not a set of writes.

`FormsProofs`, for any texts, dates, options, teammates' changes and saves:
- `PresetIsTheLength`: while a preset is selected and both dates are there, their distance is its
  length, whichever field was changed last.
- `CreatesInOneProject`: assignee, labels, parent, sprint and status of the form belong to its project, or to none yet;
  a parent whose kind is not known comes from the opening alone, and waits for its lookup if it has one.
- `SendsTheChoice`: the picks are the labels toggled an odd number of times, with what they showed at
  first; an open picker has no save under way. Of a single value it says that what is saved is an option
  of the list then shown.
- `SendsOwnEdits`: an open editor holds the value shown until it is typed in, then the user's text,
  over the value the user knew when beginning to (`IeDraftOK`); a dialog's field was entered, is a date
  the dialog sends of its own, or is the sprint's (`SfKept`); what the details form changes, and what waits to be sent,
  the admin entered (`PdOwn`, `PdWaiting`).

The assumptions (`PagesAssumption`, conjoining those of the modules) say that `None` and its like are
none of the values they stand beside, and that bounds are numbers.

`ViewsProofs`, for any board, backlog, history, texts and number of moves:
- `FiltersShowThemselves`: what hides an issue of the board is a choice left after pruning, so one that is
  offered; what is on its way passes the epic filter it was sent under (`QcInv`).
- `DraftsAreKept`, `NavigatesAsMeant`: in the history, entries that modals pushed rest on an entry
  of the same page, as many below as they say (`HistoryOK`), wherever Back and Forward go.
- `DialogsDoAsShown`: a dialog asks for the sprint that was clicked; a target for a column's issues is
  sent only if shown, or while the number is not known.
- `OptimismSettles`: every step that lays something over the data, or leaves the data behind the
  server, owes a fetch that begins after it (`BdOwes`, `BlOwes`). When nothing is under way nothing is
  owed, so the overlay is empty and the data are the server's. That the recursive functions `Overlaid`
  and `ApplyPendingMoves` lay nothing over the data when no move is pending is shown by induction on
  the number of moves.
- `CardsStay`: as long as no teammate writes, no move fails and no two overlap, the one move in flight
  explains every difference between the server, the cache and what a fetch brings (`CsAgree`): until
  the server has answered it will put the card where it is shown; after that a fetch that begins brings
  it there; and the move is settled only when such a fetch has come (`CsMove`). With one move in
  flight the overlay is that move (`BdOneOverlay`, by induction), so each card is shown in the
  move's column or in the data's.
- `SearchIsShown`: where a text waits to be written the box has the focus (`SeInv`); in a session
  that was not left open nothing was written yet, or the search before it is one entry back
  (`SeSession`). For the table: what was loaded was asked for as the user means it, the pieces'
  rows are gathered with none twice (`SrAssembled`), and a sorted cut of all matches has each once.

Induction: the library's theorems take an operator and cannot be used, but `LeastNatural`
(well-foundedness of `<` on the naturals, from `WellFoundedInduction`) gives first-order induction,
which is enough for the two overlays and the folds over pieces (`FoldExists`).

Proofs also corrected models. `Overtakes` in `Session` was too weak (above). In `Search`, `TimerFires`
compared the box with the entry shown before the write instead of after it. The assumptions of
`Queries` and of some pages did not yet say what "no value" must differ from.

Model-checked only: `EveryCallEnds`, `FullIsCutOff`, `PublishReturns`, `CatchesUp`, `RemovedStreamEnds`
and `EndedSessionSignsOut` (liveness under fairness is out of the prover's reach, as is ENABLED); and
of the pages `DropsHold`, which speaks of the order that sorting, filtering and the backlog's replay
compute. Its part `LandsWhereDropped` moreover holds only while there is a gap between the ranks, which
the run's bounds ensure and nothing else does.

## The plan

Done: `Issues`, `SprintLifecycle`, `Roster`, `Members`; `Feed`, `Fanout`, `Hub`, `Realtime`; `Session`;
`Queries`; the pages; theorems about all of them. Left, most important first:

1. Proofs of the parts of `DropsHold`: for the backlog, that a move replayed over lists that already
   have it changes nothing.
2. `Links`: link writes beside issue deletion without the project lock. No duplicate symmetric
   link (`service/links.go:197`), a deadlock of a link with the deletion of its parent
   (`links.go:152`), who is told when a link disappears by cascade (`service/issues.go:540`).
3. `RankKeys` (`rank.go:119`: carries and neighbours that differ in the last digit) and
   `RankedList` (moves from stale lists, `issue_rules.go:259`).
4. `Throttle`: budgets under concurrent attempts (`throttle.go:121`), refill and sweep
   (`ratelimit.go:97`).
5. `Workflow` and `SprintPlan`: status positions (`statuses.sql:45`), sprint dates
   (`sprints.go:259`); what the board and the backlog list: an open subtask of a done story stays in
   a completed sprint, listed nowhere (`sprints.go:479`).
6. Comments, which take no project lock (`comments.go:39`).

## Not modelled

The server's ranks, links, comments, labels, throttle and reads, as the plan says. In the browser:
how long the debounce may be put off (`useProjectRealtime.ts:69`; `flush` is assumed to be fair); the
backlog's assignee filter, which keeps a member who was removed and goes on hiding rows with only
"Clear filters" to show it; the loading of a sprint's subtasks in pages, which may skip one that
moves meanwhile (`BacklogPage.tsx:330`); the members and labels tabs; the dashboard, the lists of
epics and projects, which only read. HTTP decoding, validation messages, configuration,
cryptography, generated code, seed data and rendering have no state worth a model.
