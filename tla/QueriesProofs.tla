--------------------------- MODULE QueriesProofs ---------------------------
(***************************************************************************)
(* What Queries promises, for every number of writes: the cache is sound,  *)
(* an entry that is not marked is current once nothing is under way, and   *)
(* so is what is on the screen. The first part evaluates the query keys    *)
(* and what each query shows, and concludes what a write is to the query   *)
(* followed (WriteIsOK, ForeignIsOK); the second is the invariant, whose   *)
(* steps use nothing of the writes but that.                               *)
(***************************************************************************)
EXTENDS Queries, SequenceTheorems, TLAPS

(***************************************************************************)
(* Query keys                                                              *)
(***************************************************************************)

(* Concatenation of tuples, for the lengths of keys there are. *)
LEMMA Concat21 == \A a, b, c : <<a, b>> \o <<c>> = <<a, b, c>>
<1> SUFFICES ASSUME NEW a, NEW b, NEW c PROVE <<a, b>> \o <<c>> = <<a, b, c>>
  OBVIOUS
<1> DEFINE S == {a, b, c}
           s == <<a, b>> \o <<c>>
           t == <<a, b, c>>
<1>1. /\ <<a, b>> \in Seq(S) /\ <<c>> \in Seq(S)
      /\ t \in Seq(S) /\ Len(t) = 3 /\ t[1] = a /\ t[2] = b /\ t[3] = c
  OBVIOUS
<1>2. s \in Seq(S) /\ Len(s) = 3
  BY <1>1
<1>3. s[1] = a /\ s[2] = b /\ s[3] = c
  BY <1>1
<1> HIDE DEF s, t, S
<1>4. \A i \in 1 .. Len(s) : s[i] = t[i]
  BY <1>1, <1>2, <1>3
<1>5. s = t
  BY <1>1, <1>2, <1>4, SeqEqual
<1> QED
  BY <1>5 DEF s, t

LEMMA Concat22 == \A a, b, c, d : <<a, b>> \o <<c, d>> = <<a, b, c, d>>
<1> SUFFICES ASSUME NEW a, NEW b, NEW c, NEW d
             PROVE  <<a, b>> \o <<c, d>> = <<a, b, c, d>>
  OBVIOUS
<1> DEFINE S == {a, b, c, d}
           s == <<a, b>> \o <<c, d>>
           t == <<a, b, c, d>>
<1>1. /\ <<a, b>> \in Seq(S) /\ <<c, d>> \in Seq(S)
      /\ t \in Seq(S) /\ Len(t) = 4 /\ t[1] = a /\ t[2] = b /\ t[3] = c /\ t[4] = d
  OBVIOUS
<1>2. s \in Seq(S) /\ Len(s) = 4
  BY <1>1
<1>3. s[1] = a /\ s[2] = b /\ s[3] = c /\ s[4] = d
  BY <1>1
<1> HIDE DEF s, t, S
<1>4. \A i \in 1 .. Len(s) : s[i] = t[i]
  BY <1>1, <1>2, <1>3
<1>5. s = t
  BY <1>1, <1>2, <1>4, SeqEqual
<1> QED
  BY <1>5 DEF s, t

LEMMA Concat41 == \A a, b, c, d, e : <<a, b, c, d>> \o <<e>> = <<a, b, c, d, e>>
<1> SUFFICES ASSUME NEW a, NEW b, NEW c, NEW d, NEW e
             PROVE  <<a, b, c, d>> \o <<e>> = <<a, b, c, d, e>>
  OBVIOUS
<1> DEFINE S == {a, b, c, d, e}
           s == <<a, b, c, d>> \o <<e>>
           t == <<a, b, c, d, e>>
<1>1. /\ <<a, b, c, d>> \in Seq(S) /\ <<e>> \in Seq(S)
      /\ t \in Seq(S) /\ Len(t) = 5
      /\ t[1] = a /\ t[2] = b /\ t[3] = c /\ t[4] = d /\ t[5] = e
  OBVIOUS
<1>2. s \in Seq(S) /\ Len(s) = 5
  BY <1>1
<1>3. s[1] = a /\ s[2] = b /\ s[3] = c /\ s[4] = d /\ s[5] = e
  BY <1>1
<1> HIDE DEF s, t, S
<1>4. \A i \in 1 .. Len(s) : s[i] = t[i]
  BY <1>1, <1>2, <1>3
<1>5. s = t
  BY <1>1, <1>2, <1>4, SeqEqual
<1> QED
  BY <1>5 DEF s, t

(* The keys of a project, written out. *)
LEMMA Keys ==
  \A p : /\ project(p) = <<"project", p>>
         /\ board(p) = <<"project", p, "board">>
         /\ backlog(p) = <<"project", p, "backlog">>
         /\ epics(p) = <<"project", p, "epics">>
         /\ statuses(p) = <<"project", p, "statuses">>
         /\ labels(p) = <<"project", p, "labels">>
         /\ members(p) = <<"project", p, "members">>
         /\ sprints(p) = <<"project", p, "sprints">>
         /\ projectActivity(p) = <<"project", p, "activity">>
         /\ issue(p) = <<"project", p, "issue", "key">>
         /\ comments(p) = <<"project", p, "issue", "key", "comments">>
         /\ issueActivity(p) = <<"project", p, "issue", "key", "activity">>
<1> SUFFICES ASSUME NEW p
             PROVE  /\ project(p) = <<"project", p>>
                    /\ board(p) = <<"project", p, "board">>
                    /\ backlog(p) = <<"project", p, "backlog">>
                    /\ epics(p) = <<"project", p, "epics">>
                    /\ statuses(p) = <<"project", p, "statuses">>
                    /\ labels(p) = <<"project", p, "labels">>
                    /\ members(p) = <<"project", p, "members">>
                    /\ sprints(p) = <<"project", p, "sprints">>
                    /\ projectActivity(p) = <<"project", p, "activity">>
                    /\ issue(p) = <<"project", p, "issue", "key">>
                    /\ comments(p) = <<"project", p, "issue", "key", "comments">>
                    /\ issueActivity(p) = <<"project", p, "issue", "key", "activity">>
  BY Zenon
<1>1. project(p) = <<"project", p>>
  BY DEF project
<1>2. \A c : project(p) \o <<c>> = <<"project", p, c>>
  BY <1>1, Concat21
<1>3. project(p) \o <<"issue", "key">> = <<"project", p, "issue", "key">>
  BY <1>1, Concat22
<1>4. issue(p) = <<"project", p, "issue", "key">>
  BY <1>3 DEF issue
<1>5. \A c : issue(p) \o <<c>> = <<"project", p, "issue", "key", c>>
  BY <1>4, Concat41
<1>6. /\ board(p) = <<"project", p, "board">>
      /\ backlog(p) = <<"project", p, "backlog">>
      /\ epics(p) = <<"project", p, "epics">>
      /\ statuses(p) = <<"project", p, "statuses">>
      /\ labels(p) = <<"project", p, "labels">>
      /\ members(p) = <<"project", p, "members">>
      /\ sprints(p) = <<"project", p, "sprints">>
      /\ projectActivity(p) = <<"project", p, "activity">>
  BY <1>2, Zenon DEF board, backlog, epics, statuses, labels, members, sprints, projectActivity
<1>7. /\ comments(p) = <<"project", p, "issue", "key", "comments">>
      /\ issueActivity(p) = <<"project", p, "issue", "key", "activity">>
  BY <1>5, Zenon DEF comments, issueActivity
<1> QED
  BY <1>1, <1>4, <1>6, <1>7, Zenon

(* A query is one of the five of no project, or one of a project's twelve. *)
LEMMA QueryKinds ==
  ASSUME NEW q \in Queries
  PROVE  \/ q \in {me, users, projects, issues, activityFeed}
         \/ \E p \in Projects : q \in ProjectQueries[p]
BY DEF Queries

(* The queries of a project are those under its key. *)
LEMMA UnderProject ==
  ASSUME NEW p \in Projects, NEW q \in Queries
  PROVE  q \in Under(project(p)) <=> q \in ProjectQueries[p]
<1>1. \A r \in Projects : q \in ProjectQueries[r] => (IsPrefix(project(p), q) <=> r = p)
  BY Keys DEF ProjectQueries, IsPrefix
<1>2. q \in {me, users, projects, issues, activityFeed} =>
        ~IsPrefix(project(p), q) /\ q \notin ProjectQueries[p]
  BY Keys DEF ProjectQueries, IsPrefix, me, users, projects, issues, activityFeed
<1>3. q \in ProjectQueries[p] => IsPrefix(project(p), q)
  BY <1>1
<1>4. IsPrefix(project(p), q) => q \in ProjectQueries[p]
  BY <1>1, <1>2, QueryKinds
<1> QED
  BY <1>3, <1>4 DEF Under

(* The queries a refresh names under their own keys. *)
LEMMA UnderOwn ==
  /\ projects \in Under(projects) /\ issues \in Under(issues)
  /\ activityFeed \in Under(activityFeed)
  /\ \A q \in Queries : q[1] # "me" <=> q # me
<1>1. /\ IsPrefix(projects, projects) /\ IsPrefix(issues, issues)
      /\ IsPrefix(activityFeed, activityFeed)
  BY DEF IsPrefix, projects, issues, activityFeed
<1>2. projects \in Queries /\ issues \in Queries /\ activityFeed \in Queries
  BY DEF Queries
<1>3. \A p \in Projects : \A q \in ProjectQueries[p] : q[1] = "project" /\ q # me
  BY Keys DEF ProjectQueries, me
<1>4. \A q \in Queries : q[1] # "me" <=> q # me
  BY <1>3, QueryKinds DEF me, users, projects, issues, activityFeed
<1> QED
  BY <1>1, <1>2, <1>4 DEF Under

(* The page of the other project's issue is one of the other issue pages. *)
LEMMA OtherIssue == issue(There) \in OtherIssueDetails({Here})
<1>1. issue(There) \in Queries
  BY DEF Queries, ProjectQueries, Projects
<1>2. issue(There) = <<"project", There, "issue", "key">>
  BY Keys
<1> QED
  BY <1>1, <1>2, QueriesAssumption DEF OtherIssueDetails

(* What a change in Here, or in both projects, can make stale contains every query of the
   project, and those of no project that its facts are shown by. *)
LEMMA StaleHere ==
  ASSUME NEW ap \in BOOLEAN, NEW li \in BOOLEAN
  PROVE  /\ ProjectQueries[Here] \subseteq StaleQueries({Here}, ap, li)
         /\ {issues, activityFeed} \subseteq StaleQueries({Here}, ap, li)
         /\ ap => projects \in StaleQueries({Here}, ap, li)
         /\ li => issue(There) \in StaleQueries({Here}, ap, li)
<1>1. ProjectQueries[Here] \subseteq Under(project(Here))
  BY UnderProject DEF Queries, Projects
<1>2. Under(project(Here)) \subseteq StaleQueries({Here}, ap, li)
  BY DEF StaleQueries
<1> QED
  BY <1>1, <1>2, UnderOwn, OtherIssue DEF StaleQueries

LEMMA StaleBoth ==
  /\ \A p \in Projects : ProjectQueries[p] \subseteq StaleQueries(Projects, FALSE, FALSE)
  /\ {issues, activityFeed} \subseteq StaleQueries(Projects, FALSE, FALSE)
<1>1. \A p \in Projects : ProjectQueries[p] \subseteq Under(project(p))
  BY UnderProject DEF Queries
<1>2. \A p \in Projects : Under(project(p)) \subseteq StaleQueries(Projects, FALSE, FALSE)
  BY DEF StaleQueries
<1> QED
  BY <1>1, <1>2, UnderOwn DEF StaleQueries

(***************************************************************************)
(* What a query shows                                                      *)
(***************************************************************************)

(* The topics that writes change. *)
Topics == ProjectFacts \cup IssueFacts \cup {"column", "comment", "activity", "link"}

(* Shows, for the queries of no project. *)
LEMMA ShowsOfNone ==
  /\ Shows(me) = Account /\ Shows(users) = Account
  /\ Shows(projects) = Everywhere(ProjectFacts) \cup Account
  /\ Shows(issues) = Everywhere(IssueFacts) \cup Account
  /\ Shows(activityFeed) = Everywhere({"activity"}) \cup Account
BY DEF Shows, me, users, projects, issues, activityFeed

(* Shows, for the queries of a project. *)
LEMMA ShowsOfProject ==
  ASSUME NEW p
  PROVE  /\ Shows(project(p)) = Of(p, ProjectFacts) \cup Account
         /\ Shows(board(p)) = ShowsOfBoard(p)
         /\ Shows(backlog(p)) = ShowsOfLists(p)
         /\ Shows(epics(p)) = ShowsOfLists(p)
         /\ Shows(statuses(p)) = Of(p, {"column", "status"})
         /\ Shows(labels(p)) = Of(p, {"label"})
         /\ Shows(members(p)) = Of(p, {"member"}) \cup Account
         /\ Shows(sprints(p)) = ShowsOfSprints(p)
         /\ Shows(projectActivity(p)) = ShowsOfActivity(p)
         /\ Shows(issue(p)) = ShowsOfIssue(p)
         /\ Shows(comments(p)) = Of(p, {"comment"}) \cup Account
         /\ Shows(issueActivity(p)) = ShowsOfActivity(p)
<1>1. /\ project(p)[2] = p /\ board(p)[2] = p /\ backlog(p)[2] = p /\ epics(p)[2] = p
      /\ statuses(p)[2] = p /\ labels(p)[2] = p /\ members(p)[2] = p /\ sprints(p)[2] = p
      /\ projectActivity(p)[2] = p /\ issue(p)[2] = p /\ comments(p)[2] = p
      /\ issueActivity(p)[2] = p
  BY Keys
<1>2. \A q \in {project(p), board(p), backlog(p), epics(p), statuses(p), labels(p), members(p),
                sprints(p), projectActivity(p), issue(p), comments(p), issueActivity(p)} :
        q \notin {me, users, projects, issues, activityFeed}
  BY Keys DEF me, users, projects, issues, activityFeed
<1>3. /\ board(p) # project(p)
      /\ backlog(p) \notin {project(p), board(p)}
      /\ epics(p) \notin {project(p), board(p)}
      /\ statuses(p) \notin {project(p), board(p), backlog(p), epics(p)}
      /\ labels(p) \notin {project(p), board(p), backlog(p), epics(p), statuses(p)}
      /\ members(p) \notin {project(p), board(p), backlog(p), epics(p), statuses(p), labels(p)}
      /\ sprints(p) \notin {project(p), board(p), backlog(p), epics(p), statuses(p), labels(p),
                            members(p)}
      /\ \A q \in {projectActivity(p), issueActivity(p)} :
           q \notin {project(p), board(p), backlog(p), epics(p), statuses(p), labels(p),
                     members(p), sprints(p)}
      /\ issue(p) \notin {project(p), board(p), backlog(p), epics(p), statuses(p), labels(p),
                          members(p), sprints(p), projectActivity(p), issueActivity(p)}
      /\ comments(p) \notin {project(p), board(p), backlog(p), epics(p), statuses(p), labels(p),
                          members(p), sprints(p), projectActivity(p), issueActivity(p), issue(p)}
  BY Keys
<1> QED
  BY <1>1, <1>2, <1>3 DEF Shows

(* The facts of each of a project's queries are its own, but for those of the linked
   issues on an issue's page; no query of no project shows a link, a column or a comment. *)
LEMMA FactsShown ==
  ASSUME NEW q \in Queries, NEW r \in Projects, NEW topic \in Topics, <<r, topic>> \in Shows(q)
  PROVE  \/ q \in ProjectQueries[r]
         \/ q = projects /\ topic \in ProjectFacts
         \/ q = issues /\ topic \in IssueFacts
         \/ q = activityFeed /\ topic = "activity"
         \/ \E p \in Projects : q = issue(p) /\ topic \in IssueRefFacts
<1>1. topic # "user"
  BY DEF Topics, ProjectFacts, IssueFacts
<1>2. <<r, topic>> \notin Account
  BY <1>1 DEF Account
<1>3. \A ts : <<r, topic>> \in Everywhere(ts) => topic \in ts
  BY DEF Everywhere
<1>4. \A p, ts : <<r, topic>> \in Of(p, ts) => r = p
  BY DEF Of
<1>5. CASE q \in {me, users, projects, issues, activityFeed}
  BY <1>2, <1>3, <1>5, ShowsOfNone
<1>6. CASE \E p \in Projects : q \in ProjectQueries[p]
  <2>1. PICK p \in Projects : q \in ProjectQueries[p]
    BY <1>6
  <2>2. r = p => q \in ProjectQueries[r]
    BY <2>1
  <2>3. \/ q \in {project(p), board(p), backlog(p), epics(p), statuses(p), labels(p)}
        \/ q \in {members(p), sprints(p), projectActivity(p), comments(p), issueActivity(p)}
        \/ q = issue(p)
    BY <2>1 DEF ProjectQueries
  <2>4. CASE q \in {project(p), board(p), backlog(p), epics(p), statuses(p), labels(p)}
    BY <1>2, <1>4, <2>2, <2>4, ShowsOfProject DEF ShowsOfBoard, ShowsOfLists
  <2>5. CASE q \in {members(p), sprints(p), projectActivity(p), comments(p), issueActivity(p)}
    BY <1>2, <1>4, <2>2, <2>5, ShowsOfProject DEF ShowsOfSprints, ShowsOfActivity
  <2>6. CASE q = issue(p)
    <3>1. \/ <<r, topic>> \in Of(p, IssueFacts \cup {"link"})
          \/ <<r, topic>> \in Everywhere(IssueRefFacts)
      BY <1>2, <2>6, ShowsOfProject DEF ShowsOfIssue
    <3> QED
      BY <1>3, <1>4, <2>1, <2>2, <2>6, <3>1
  <2> QED
    BY <2>3, <2>4, <2>5, <2>6
<1> QED
  BY <1>5, <1>6, QueryKinds

(* A fact of the project Here is shown by its own queries, by those of no project, and on
   the page of the other project's issue. *)
LEMMA HereShown ==
  ASSUME NEW q \in Queries, NEW topic \in Topics, <<Here, topic>> \in Shows(q)
  PROVE  \/ q \in ProjectQueries[Here]
         \/ q = projects /\ topic \in ProjectFacts
         \/ q = issues /\ topic \in IssueFacts
         \/ q = activityFeed /\ topic = "activity"
         \/ q = issue(There) /\ topic \in IssueRefFacts
<1>1. issue(Here) \in ProjectQueries[Here]
  BY DEF ProjectQueries, Projects
<1>2. Here \in Projects /\ \A p \in Projects : p \in {Here, There}
  BY DEF Projects
<1> QED
  BY <1>1, <1>2, FactsShown

(* A link is shown on the pages of the two issues it joins. *)
LEMMA LinkShown ==
  ASSUME NEW q \in Queries, NEW r \in Projects, <<r, "link">> \in Shows(q)
  PROVE  q = issue(r)
<1>1. "link" \in Topics /\ "link" \notin ProjectFacts \cup IssueFacts \cup IssueRefFacts
  BY DEF Topics, ProjectFacts, IssueFacts, IssueRefFacts
<1>2. q \in ProjectQueries[r]
  BY <1>1, FactsShown
<1>3. <<r, "link">> \notin Account /\ \A p : <<r, "link">> \notin Of(p, ProjectFacts \cup IssueFacts \cup {"column"})
  BY <1>1 DEF Account, Of
<1>4. <<r, "link">> \notin ShowsOfBoard(r) \cup ShowsOfLists(r) \cup ShowsOfSprints(r) \cup ShowsOfActivity(r)
  BY <1>1, <1>3 DEF ShowsOfBoard, ShowsOfLists, ShowsOfSprints, ShowsOfActivity, Of
<1>5. /\ <<r, "link">> \notin Of(r, ProjectFacts) /\ <<r, "link">> \notin Of(r, {"column", "status"})
      /\ <<r, "link">> \notin Of(r, {"label"}) /\ <<r, "link">> \notin Of(r, {"member"})
      /\ <<r, "link">> \notin Of(r, {"comment"})
  BY <1>1 DEF Of
<1> QED
  BY <1>2, <1>3, <1>4, <1>5, ShowsOfProject DEF ProjectQueries

(* What the refresh that a mutation asks for must cover: a mutation in Here that changes
   the given topics refreshes every query that shows one. *)
LEMMA RefreshingCovers ==
  ASSUME NEW q \in Queries, NEW topics \in SUBSET Topics, NEW ap \in BOOLEAN, NEW li \in BOOLEAN,
         topics \cap ProjectFacts # {} => ap,
         topics \cap IssueRefFacts # {} => li,
         Of(Here, topics) \cap Shows(q) # {}
  PROVE  q \in StaleQueries({Here}, ap, li)
<1>1. PICK topic \in topics : <<Here, topic>> \in Shows(q)
  BY DEF Of
<1> QED
  BY <1>1, HereShown, StaleHere

(***************************************************************************)
(* What a write is to the query followed                                   *)
(***************************************************************************)

(* A write in the project that refreshes whatever shows what it changes. *)
OrdinaryWrite(w) ==
  /\ w.changes \subseteq Of(Here, Topics) \cup Everywhere({"link"})
  /\ \A q \in Queries : w.changes \cap Shows(q) # {} => q \in w.stale
  /\ w.sets \cup w.patches \subseteq w.stale
  /\ w.sets \subseteq ProjectQueries[Here]
  /\ \A q \in w.patches : w.changes \cap Shows(q) # {}
  /\ w.forgets = FALSE /\ [w EXCEPT !.forgets = FALSE] = w

LEMMA RefreshingIsOrdinary ==
  ASSUME NEW topics \in SUBSET Topics, NEW ap \in BOOLEAN, NEW li \in BOOLEAN,
         topics \cap ProjectFacts # {} => ap,
         topics \cap IssueRefFacts # {} => li
  PROVE  /\ OrdinaryWrite(Refreshing(topics, ap, li))
         /\ \A s \in SUBSET ProjectQueries[Here] :
              OrdinaryWrite([Refreshing(topics, ap, li) EXCEPT !.sets = s])
         /\ \A s \in SUBSET ProjectQueries[Here] :
              (\A q \in s : Of(Here, topics) \cap Shows(q) # {}) =>
                OrdinaryWrite([Refreshing(topics, ap, li) EXCEPT !.patches = s])
         /\ topics # {} /\ li => \A s :
              OrdinaryWrite([Refreshing(topics, ap, li)
                               EXCEPT !.changes = @ \cup Everywhere({"link"}), !.removes = s])
<1> DEFINE w == Refreshing(topics, ap, li)
           stale == StaleQueries({Here}, ap, li)
<1>1. /\ w.changes = Of(Here, topics) /\ w.sets = {} /\ w.patches = {} /\ w.stale = stale
      /\ w.forgets = FALSE /\ w.removes = {}
      /\ w = [changes |-> w.changes, sets |-> w.sets, patches |-> w.patches, removes |-> w.removes,
              stale |-> w.stale, forgets |-> w.forgets]
  BY DEF Refreshing, Mutation
<1>2. Of(Here, topics) \subseteq Of(Here, Topics)
  BY DEF Of
<1>3. \A q \in Queries : Of(Here, topics) \cap Shows(q) # {} => q \in stale
  BY RefreshingCovers
<1>4. ProjectQueries[Here] \subseteq stale
  BY StaleHere
<1>5. ASSUME li, NEW q \in Queries, Everywhere({"link"}) \cap Shows(q) # {}
      PROVE  q \in stale
  <2>1. PICK p \in Projects : <<p, "link">> \in Shows(q)
    BY <1>5 DEF Everywhere
  <2>2. q = issue(p)
    BY <2>1, LinkShown, <1>5
  <2>3. issue(Here) \in ProjectQueries[Here]
    BY DEF ProjectQueries, Projects
  <2>4. issue(There) \in stale
    BY <1>5, StaleHere
  <2> QED
    BY <1>4, <2>2, <2>3, <2>4 DEF Projects
<1> HIDE DEF w, stale
<1>6. OrdinaryWrite(w)
  BY <1>1, <1>2, <1>3 DEF OrdinaryWrite
<1>7. \A s \in SUBSET ProjectQueries[Here] : OrdinaryWrite([w EXCEPT !.sets = s])
  BY <1>1, <1>2, <1>3, <1>4 DEF OrdinaryWrite
<1>8. \A s \in SUBSET ProjectQueries[Here] :
        (\A q \in s : Of(Here, topics) \cap Shows(q) # {}) =>
          OrdinaryWrite([w EXCEPT !.patches = s])
  BY <1>1, <1>2, <1>3, <1>4 DEF OrdinaryWrite
<1>9. ASSUME li, NEW s
      PROVE  OrdinaryWrite([w EXCEPT !.changes = @ \cup Everywhere({"link"}), !.removes = s])
  <2> DEFINE v == [w EXCEPT !.changes = @ \cup Everywhere({"link"}), !.removes = s]
  <2>1. /\ v.changes = Of(Here, topics) \cup Everywhere({"link"}) /\ v.sets = {} /\ v.patches = {}
        /\ v.stale = stale /\ v.forgets = FALSE /\ [v EXCEPT !.forgets = FALSE] = v
    BY <1>1
  <2> HIDE DEF v
  <2>2. \A q \in Queries : v.changes \cap Shows(q) # {} => q \in v.stale
    BY <1>3, <1>5, <1>9, <2>1
  <2>3. OrdinaryWrite(v)
    BY <1>2, <2>1, <2>2 DEF OrdinaryWrite
  <2> QED
    BY <2>3 DEF v
<1> QED
  BY <1>6, <1>7, <1>8, <1>9 DEF w

(* Every write but those that make or give up a project, and the profile's. *)
OrdinaryWrites ==
  {CreateIssue, UpdateIssue, DeleteIssue, MoveIssue, CreateSprint, UpdateSprint, DeleteSprint,
   StartSprint, CompleteSprint, CreateStatus, UpdateStatus, ReorderStatuses, DeleteStatus,
   CreateLabel, UpdateLabel, DeleteLabel, AddComment, UpdateComment, DeleteComment, CreateLink,
   DeleteLink, UpdateProject, AddMember, UpdateMember, RemoveMember}

LEMMA MutationKeeps ==
  ASSUME NEW m, NEW changes, NEW sets, NEW patches, NEW removes, NEW stale,
         m = Mutation(changes, sets, patches, removes, stale)
  PROVE  [m EXCEPT !.forgets = FALSE] = m
<1>1. /\ m = [changes |-> m.changes, sets |-> m.sets, patches |-> m.patches,
               removes |-> m.removes, stale |-> m.stale, forgets |-> m.forgets]
      /\ m.forgets = FALSE
  BY DEF Mutation
<1> QED
  BY <1>1

LEMMA LinkIsOrdinary ==
  OrdinaryWrite(Mutation(Everywhere({"link"}) \cup Of(Here, {"activity"}), {}, {}, {},
                         StaleQueries(Projects, FALSE, FALSE)))
<1> DEFINE stale == StaleQueries(Projects, FALSE, FALSE)
           w == Mutation(Everywhere({"link"}) \cup Of(Here, {"activity"}), {}, {}, {}, stale)
<1>1. /\ w.changes = Everywhere({"link"}) \cup Of(Here, {"activity"}) /\ w.sets = {}
      /\ w.patches = {} /\ w.stale = stale /\ w.forgets = FALSE
  BY DEF Mutation
<1>5. w = Mutation(Everywhere({"link"}) \cup Of(Here, {"activity"}), {}, {}, {}, stale)
  OBVIOUS
<1>2. ASSUME NEW q \in Queries, Everywhere({"link"}) \cap Shows(q) # {}
      PROVE  q \in stale
  <2>1. PICK p \in Projects : <<p, "link">> \in Shows(q)
    BY <1>2 DEF Everywhere
  <2>2. q \in ProjectQueries[p]
    BY <2>1, LinkShown DEF ProjectQueries
  <2> QED
    BY <2>2, StaleBoth
<1>3. ASSUME NEW q \in Queries, Of(Here, {"activity"}) \cap Shows(q) # {}
      PROVE  q \in stale
  <2>1. "activity" \in Topics /\ "activity" \notin ProjectFacts \cup IssueFacts \cup IssueRefFacts
    BY DEF Topics, ProjectFacts, IssueFacts, IssueRefFacts
  <2>2. <<Here, "activity">> \in Shows(q)
    BY <1>3 DEF Of
  <2>3. q \in ProjectQueries[Here] \/ q = activityFeed
    BY <2>1, <2>2, HereShown
  <2> QED
    BY <2>3, StaleBoth DEF Projects
<1>4. Of(Here, {"activity"}) \subseteq Of(Here, Topics)
  BY DEF Of, Topics
<1> HIDE DEF stale, w
<1>6. [w EXCEPT !.forgets = FALSE] = w
  BY <1>5, MutationKeeps
<1>7. OrdinaryWrite(w)
  BY <1>1, <1>2, <1>3, <1>4, <1>6 DEF OrdinaryWrite
<1> QED
  BY <1>7 DEF w, stale

LEMMA OrdinaryIsOrdinary == \A w \in OrdinaryWrites : OrdinaryWrite(w)
<1>1. /\ issue(Here) \in ProjectQueries[Here] /\ statuses(Here) \in ProjectQueries[Here]
      /\ project(Here) \in ProjectQueries[Here] /\ labels(Here) \in ProjectQueries[Here]
      /\ comments(Here) \in ProjectQueries[Here]
  BY DEF ProjectQueries, Projects
<1>2. /\ Of(Here, {"label"}) \cap Shows(labels(Here)) # {}
      /\ Of(Here, {"comment", "activity"}) \cap Shows(comments(Here)) # {}
      /\ Of(Here, {"comment"}) \cap Shows(comments(Here)) # {}
  <2>1. <<Here, "label">> \in Of(Here, {"label"}) /\ <<Here, "label">> \in Shows(labels(Here))
    BY ShowsOfProject DEF Of
  <2>2. /\ <<Here, "comment">> \in Of(Here, {"comment", "activity"})
        /\ <<Here, "comment">> \in Of(Here, {"comment"})
        /\ <<Here, "comment">> \in Shows(comments(Here))
    BY ShowsOfProject DEF Of
  <2> QED
    BY <2>1, <2>2
<1> USE DEF Topics, ProjectFacts, IssueFacts, IssueRefFacts
<1>3. OrdinaryWrite(CreateIssue)
  BY RefreshingIsOrdinary, <1>1 DEF CreateIssue
<1>4. OrdinaryWrite(UpdateIssue)
  BY RefreshingIsOrdinary, <1>1 DEF UpdateIssue
<1>5. OrdinaryWrite(MoveIssue)
  BY RefreshingIsOrdinary DEF MoveIssue
<1>6. OrdinaryWrite(CreateSprint)
  BY RefreshingIsOrdinary DEF CreateSprint
<1>7. OrdinaryWrite(UpdateSprint)
  BY RefreshingIsOrdinary DEF UpdateSprint
<1>8. OrdinaryWrite(DeleteSprint)
  BY RefreshingIsOrdinary DEF DeleteSprint
<1>9. OrdinaryWrite(StartSprint)
  BY RefreshingIsOrdinary DEF StartSprint
<1>10. OrdinaryWrite(CompleteSprint)
  BY RefreshingIsOrdinary DEF CompleteSprint
<1>11. OrdinaryWrite(CreateStatus)
  BY RefreshingIsOrdinary DEF CreateStatus
<1>12. OrdinaryWrite(UpdateStatus)
  BY RefreshingIsOrdinary DEF UpdateStatus
<1>13. OrdinaryWrite(ReorderStatuses)
  BY RefreshingIsOrdinary, <1>1 DEF ReorderStatuses
<1>14. OrdinaryWrite(DeleteStatus)
  BY RefreshingIsOrdinary DEF DeleteStatus
<1>15. OrdinaryWrite(CreateLabel)
  BY RefreshingIsOrdinary, <1>1, <1>2 DEF CreateLabel
<1>16. OrdinaryWrite(UpdateLabel)
  BY RefreshingIsOrdinary DEF UpdateLabel
<1>17. OrdinaryWrite(DeleteLabel)
  BY RefreshingIsOrdinary DEF DeleteLabel
<1>18. OrdinaryWrite(AddComment)
  BY RefreshingIsOrdinary, <1>1, <1>2 DEF AddComment
<1>19. OrdinaryWrite(UpdateComment)
  BY RefreshingIsOrdinary, <1>1, <1>2 DEF UpdateComment
<1>20. OrdinaryWrite(DeleteComment)
  BY RefreshingIsOrdinary, <1>1, <1>2 DEF DeleteComment
<1>21. OrdinaryWrite(UpdateProject)
  BY RefreshingIsOrdinary, <1>1 DEF UpdateProject
<1>22. OrdinaryWrite(AddMember)
  BY RefreshingIsOrdinary DEF AddMember
<1>23. OrdinaryWrite(UpdateMember)
  BY RefreshingIsOrdinary DEF UpdateMember
<1>24. OrdinaryWrite(RemoveMember)
  BY RefreshingIsOrdinary DEF RemoveMember
<1>25. OrdinaryWrite(DeleteIssue)
  BY RefreshingIsOrdinary DEF DeleteIssue
<1>26. OrdinaryWrite(CreateLink) /\ OrdinaryWrite(DeleteLink)
  BY LinkIsOrdinary DEF CreateLink, DeleteLink
<1> QED
  BY <1>3, <1>4, <1>5, <1>6, <1>7, <1>8, <1>9, <1>10, <1>11, <1>12, <1>13, <1>14, <1>15, <1>16,
     <1>17, <1>18, <1>19, <1>20, <1>21, <1>22, <1>23, <1>24, <1>25, <1>26 DEF OrdinaryWrites

Effects == [changes : BOOLEAN, sets : BOOLEAN, patches : BOOLEAN, removes : BOOLEAN,
            stale : BOOLEAN, forgets : BOOLEAN]

(* What every write is to the query followed: what it changes there it refreshes, or
   replaces, drops or gives up; an answer that is put into the cache and not refreshed is
   a new project's, or the profile's. *)
WriteOK(is, others) ==
  /\ is.patches => is.changes /\ is.stale
  /\ OfHere /\ others /\ is.sets => is.stale
  /\ is.changes => \/ is.stale \/ is.sets \/ is.removes
                   \/ is.forgets /\ OfHere
                   \/ ~others /\ OfHere
  /\ is.sets /\ ~is.stale => ~others \/ query = me
  /\ query = me /\ is.changes => is.sets

LEMMA EffectType ==
  \A w : w.forgets = TRUE \/ w.forgets = FALSE => Effect(w) \in Effects
<1> SUFFICES ASSUME NEW w, w.forgets = TRUE \/ w.forgets = FALSE
             PROVE  Effect(w) \in Effects
  BY Zenon
<1> DEFINE changes == w.changes \cap Shows(query) # {}
           sets == query \in w.sets
           patches == query \in w.patches
           removes == query \in w.removes
           stale == query \in w.stale
           forgets == w.forgets
<1>1. /\ changes \in BOOLEAN /\ sets \in BOOLEAN /\ patches \in BOOLEAN
      /\ removes \in BOOLEAN /\ stale \in BOOLEAN
  OBVIOUS
<1>2. forgets \in BOOLEAN
  BY Zenon
<1>3. Effect(w) = [changes |-> changes, sets |-> sets, patches |-> patches, removes |-> removes,
                   stale |-> stale, forgets |-> forgets]
  BY Zenon DEF Effect
<1> HIDE DEF changes, sets, patches, removes, stale, forgets
<1> QED
  BY <1>1, <1>2, <1>3 DEF Effects

LEMMA MeIsApart ==
  /\ me \in Queries
  /\ me \notin {users, projects, issues, activityFeed}
  /\ \A p \in Projects : me \notin ProjectQueries[p] /\ issue(p) \in ProjectQueries[p]
BY Keys DEF Queries, me, users, projects, issues, activityFeed, ProjectQueries

(* Only an account is shown by the profile. *)
LEMMA MeShowsNoFact ==
  ASSUME NEW r \in Projects, NEW topic \in Topics
  PROVE  <<r, topic>> \notin Shows(me)
BY MeIsApart, FactsShown

LEMMA OfHereIs == query \in Queries => (OfHere <=> query \in ProjectQueries[Here])
BY UnderProject DEF OfHere, Projects

LEMMA OrdinaryIsOK ==
  ASSUME query \in Queries, NEW w \in OrdinaryWrites, NEW others \in BOOLEAN
  PROVE  WriteOK(Effect(w), others) /\ Effect(w) \in Effects /\ ~Effect(w).forgets
<1>1. OrdinaryWrite(w)
  BY OrdinaryIsOrdinary
<1>2. query = me => w.changes \cap Shows(query) = {}
  <2> SUFFICES ASSUME query = me, w.changes \cap Shows(query) # {} PROVE FALSE
    OBVIOUS
  <2>1. PICK r \in Projects, topic \in Topics : <<r, topic>> \in Shows(me)
    <3>1. "link" \in Topics /\ Here \in Projects
      BY DEF Topics, Projects
    <3>2. PICK f \in Of(Here, Topics) \cup Everywhere({"link"}) : f \in Shows(me)
      BY <1>1 DEF OrdinaryWrite
    <3> QED
      BY <3>1, <3>2 DEF Of, Everywhere
  <2> QED
    BY <2>1, MeShowsNoFact
<1>3. Effect(w) \in Effects
  BY <1>1, EffectType, Zenon DEF OrdinaryWrite
<1>4. ~Effect(w).forgets
  BY <1>1 DEF OrdinaryWrite, Effect
<1>5. WriteOK(Effect(w), others)
  BY <1>1, <1>2 DEF OrdinaryWrite, Effect, WriteOK
<1> QED
  BY <1>3, <1>4, <1>5

LEMMA CreateProjectIsOK ==
  ASSUME query \in Queries
  PROVE  WriteOK(Effect(CreateProject), FALSE) /\ Effect(CreateProject) \in Effects
<1> DEFINE w == CreateProject
<1>1. /\ w.changes = Of(Here, {"row", "member", "activity"}) /\ w.sets = {project(Here)}
      /\ w.patches = {} /\ w.removes = {} /\ w.forgets = FALSE
      /\ w.stale = Under(projects) \cup Under(activityFeed)
  BY DEF CreateProject, Mutation
<1> HIDE DEF w
<1>2. ASSUME w.changes \cap Shows(query) # {}
      PROVE  query \in ProjectQueries[Here] \/ query \in w.stale
  <2>1. PICK topic \in {"row", "member", "activity"} : <<Here, topic>> \in Shows(query)
    BY <1>1, <1>2 DEF Of
  <2>2. topic \in Topics /\ topic \notin IssueFacts \cup IssueRefFacts
    BY DEF Topics, ProjectFacts, IssueFacts, IssueRefFacts
  <2>3. query \in ProjectQueries[Here] \/ query = projects \/ query = activityFeed
    BY <2>1, <2>2, HereShown
  <2> QED
    BY <1>1, <2>3, UnderOwn
<1>3. query = me => ~(w.changes \cap Shows(query) # {})
  <2>1. query = me => query # projects /\ query # activityFeed /\ query \notin ProjectQueries[Here]
    BY MeIsApart DEF Projects
  <2>2. query = me => query \notin w.stale
    BY <1>1 DEF Under, IsPrefix, me, projects, activityFeed
  <2> QED
    BY <1>2, <2>1, <2>2
<1>4. Effect(w) \in Effects
  BY <1>1, EffectType, Zenon
<1>5. WriteOK(Effect(w), FALSE)
  BY <1>1, <1>2, <1>3, OfHereIs DEF Effect, WriteOK
<1> QED
  BY <1>4, <1>5 DEF w

LEMMA UpdateMeIsOK ==
  ASSUME query \in Queries, NEW others \in BOOLEAN
  PROVE  WriteOK(Effect(UpdateMe), others) /\ Effect(UpdateMe) \in Effects
<1> DEFINE w == UpdateMe
<1>1. /\ w.sets = {me} /\ w.patches = {} /\ w.removes = {} /\ w.forgets = FALSE
      /\ w.stale = {q \in Queries : q[1] # "me"}
  BY DEF UpdateMe, Mutation
<1> HIDE DEF w
<1>2. query = me <=> query \notin w.stale
  BY <1>1, UnderOwn
<1>3. query = me => ~OfHere
  BY OfHereIs, MeIsApart DEF Projects
<1>4. Effect(w) \in Effects
  BY <1>1, EffectType, Zenon
<1>5. WriteOK(Effect(w), others)
  BY <1>1, <1>2, <1>3 DEF Effect, WriteOK
<1> QED
  BY <1>4, <1>5 DEF w

LEMMA ForgetProjectIsOK ==
  ASSUME query \in Queries, NEW others \in BOOLEAN
  PROVE  WriteOK(Effect(ForgetProject), others) /\ Effect(ForgetProject) \in Effects
<1> DEFINE w == ForgetProject
           topics == ProjectFacts \cup IssueFacts \cup {"comment", "activity"}
<1>1. /\ w.changes = Of(Here, topics) \cup Everywhere({"link"})
      /\ w.sets = {} /\ w.patches = {} /\ w.removes = {} /\ w.forgets = TRUE
      /\ w.stale = Under(projects) \cup Under(issues) \cup Under(activityFeed) \cup OtherIssueDetails({Here})
  BY DEF ForgetProject, Mutation
<1>2. topics \subseteq Topics
  BY DEF Topics
<1> HIDE DEF w, topics
<1>3. ASSUME w.changes \cap Shows(query) # {}
      PROVE  query \in ProjectQueries[Here] \/ query \in {projects, issues, activityFeed, issue(There)}
  <2>1. CASE Of(Here, topics) \cap Shows(query) # {}
    <3>1. PICK topic \in topics : <<Here, topic>> \in Shows(query)
      BY <2>1 DEF Of
    <3> QED
      BY <1>2, <3>1, HereShown
  <2>2. CASE Everywhere({"link"}) \cap Shows(query) # {}
    <3>1. PICK r \in Projects : <<r, "link">> \in Shows(query)
      BY <2>2 DEF Everywhere
    <3> QED
      BY <3>1, LinkShown, MeIsApart DEF Projects
  <2> QED
    BY <1>1, <1>3, <2>1, <2>2
<1>4. query \in {projects, issues, activityFeed, issue(There)} => query \in w.stale
  BY <1>1, UnderOwn, OtherIssue
<1>5. query = me => ~(w.changes \cap Shows(query) # {})
  BY <1>3, MeIsApart DEF Projects
<1>6. Effect(w) \in Effects
  BY <1>1, EffectType, Zenon
<1>7. WriteOK(Effect(w), others)
  BY <1>1, <1>3, <1>4, <1>5, OfHereIs DEF Effect, WriteOK
<1> QED
  BY <1>6, <1>7 DEF w

(* A write of this user. *)
LEMMA WriteIsOK ==
  ASSUME query \in Queries, NEW w \in Writes
  PROVE  WriteOK(Effect(w), w # CreateProject) /\ Effect(w) \in Effects
<1>1. \/ w \in OrdinaryWrites \/ w = CreateProject \/ w = UpdateMe \/ w = ForgetProject
  BY Zenon DEF Writes, OrdinaryWrites, DeleteProject, LeaveProject
<1> QED
  BY <1>1, OrdinaryIsOK, CreateProjectIsOK, UpdateMeIsOK, ForgetProjectIsOK

(* Another user's write: its event refreshes whatever shows what it is counted for. *)
LEMMA ForeignIsOK ==
  ASSUME query \in Queries, NEW w \in ForeignWrites,
         query = projects => w \in ProjectChanges,
         query \notin EventRefreshes(w)
  PROVE  ~Effect([w EXCEPT !.forgets = FALSE]).changes
<1>1. w \in OrdinaryWrites
  BY Zenon DEF ForeignWrites, Writes, OrdinaryWrites, DeleteProject, LeaveProject
<1>2. OrdinaryWrite(w)
  BY <1>1, OrdinaryIsOrdinary
<1>3. /\ query \notin ProjectQueries[Here] /\ query # issues /\ query # activityFeed
      /\ query # projects /\ query # issue(There)
  <2>1. (w \in ProjectChanges) \in BOOLEAN
    OBVIOUS
  <2> QED
    BY <2>1, StaleHere DEF EventRefreshes
<1>4. query # issue(Here)
  BY <1>3, MeIsApart DEF Projects
<1>5. w.changes \cap Shows(query) = {}
  <2> SUFFICES ASSUME w.changes \cap Shows(query) # {} PROVE FALSE
    OBVIOUS
  <2>1. \/ \E topic \in Topics : <<Here, topic>> \in Shows(query)
        \/ \E r \in Projects : <<r, "link">> \in Shows(query)
    BY <1>2 DEF OrdinaryWrite, Of, Everywhere
  <2> QED
    BY <1>3, <1>4, <2>1, HereShown, LinkShown DEF Projects
<1> QED
  BY <1>2, <1>5 DEF Effect, OrdinaryWrite

(* It is not taken for one that gives the project up. *)
LEMMA ForeignEffect ==
  ASSUME query \in Queries, NEW w \in ForeignWrites
  PROVE  Effect([w EXCEPT !.forgets = FALSE]) \in Effects
<1>1. w \in OrdinaryWrites
  BY Zenon DEF ForeignWrites, Writes, OrdinaryWrites, DeleteProject, LeaveProject
<1> QED
  BY <1>1, OrdinaryIsOrdinary, OrdinaryIsOK DEF OrdinaryWrite

(* The profile is only written to by its own form, and no other user changes it. *)
LEMMA MeIsSetByUpdateMe ==
  ASSUME query = me, NEW w \in Writes, Effect(w).sets
  PROVE  w = UpdateMe
<1>1. \/ w \in OrdinaryWrites \/ w = CreateProject \/ w = UpdateMe \/ w = ForgetProject
  BY Zenon DEF Writes, OrdinaryWrites, DeleteProject, LeaveProject
<1>2. me \in w.sets
  BY DEF Effect
<1>3. me # project(Here)
  BY Keys DEF me
<1>4. w \notin OrdinaryWrites
  BY <1>2, OrdinaryIsOrdinary, MeIsApart DEF OrdinaryWrite, Projects
<1>5. w # CreateProject /\ w # ForgetProject
  BY <1>2, <1>3 DEF CreateProject, ForgetProject, Mutation
<1> QED
  BY <1>1, <1>4, <1>5

LEMMA ForeignLeavesMe ==
  ASSUME query = me, NEW w \in ForeignWrites
  PROVE  ~Effect([w EXCEPT !.forgets = FALSE]).changes
<1>1. w \in OrdinaryWrites
  BY Zenon DEF ForeignWrites, Writes, OrdinaryWrites, DeleteProject, LeaveProject
<1>2. [w EXCEPT !.forgets = FALSE] = w /\ me \notin w.sets
  BY <1>1, OrdinaryIsOrdinary, MeIsApart DEF OrdinaryWrite, Projects
<1>3. WriteOK(Effect(w), TRUE) /\ ~Effect(w).sets
  BY <1>1, <1>2, OrdinaryIsOK, MeIsApart DEF Effect
<1> QED
  BY <1>2, <1>3 DEF WriteOK

(***************************************************************************)
(* The invariant                                                           *)
(***************************************************************************)

(* The type of each variable, in full. *)
CallStates == [at : {"unused"}] \cup [at : {"sent", "done"}, is : Effects, others : BOOLEAN]
                \cup [at : {"answered"}, is : Effects, others : BOOLEAN, shows : SUBSET Calls]
RefreshStates == [at : {"none"}] \cup [at : {"event"}, stale : BOOLEAN]
                   \cup [at : {"joined", "first"}, ran : BOOLEAN]
Entries == [data : {Absent} \cup SUBSET Calls, marked : BOOLEAN, failed : BOOLEAN, late : BOOLEAN]
Fetches == [at : {"none", "sent", "answered", "refused"}, brings : SUBSET Calls,
            revert : Entries, late : BOOLEAN]

Types ==
  /\ query \in Queries /\ mounted \in BOOLEAN /\ forgotten \in BOOLEAN
  /\ entry \in Entries /\ fetching \in Fetches /\ committed \in SUBSET Calls
  /\ call \in [Calls -> CallStates] /\ refresh \in [Calls -> RefreshStates]

(* Writes on their way are what a write can be. *)
OnItsWay(c) == call[c].at \in {"sent", "answered"}
WritesOK == \A c \in Calls : OnItsWay(c) => WriteOK(call[c].is, call[c].others)

(* What is committed and what an answer shows; an answer that is put into the cache
   without a refresh still shows all there is. *)
CommitsOK ==
  \A c \in Calls :
    /\ c \in committed => call[c].at \in {"answered", "done"}
    /\ call[c].at = "answered" =>
         /\ call[c].shows \subseteq committed
         /\ call[c].is.changes <=> c \in committed
         /\ call[c].is.sets /\ ~call[c].is.stale => call[c].shows = committed

(* It does, since nothing else is done while a project is made, and the profile is changed
   by one form at a time. *)
Alone ==
  \A c, d \in Calls : c # d /\ OnItsWay(c) =>
    /\ ~call[c].others => call[d].at = "unused"
    /\ call[c].is.sets /\ ~call[c].is.stale /\ OnItsWay(d) => ~call[d].is.changes

(* A refresh belongs to a write that is made; an event that refreshes too little is of a
   write that does not count. *)
RefreshesOK ==
  \A c \in Calls :
    /\ refresh[c].at # "none" => call[c].at = "done"
    /\ refresh[c].at = "event" /\ ~refresh[c].stale => c \notin committed

CallsInv == Types /\ WritesOK /\ CommitsOK /\ Alone /\ RefreshesOK

(* The writes for which the query is going to be marked or fetched: their answer or event
   has not been dealt with, or (Owed) their refresh will fetch it once more. *)
Awaited == {c \in Calls : \/ call[c].at = "answered"
                          \/ refresh[c].at = "event"
                          \/ refresh[c].at = "joined" /\ refresh[c].ran}
Owed == Awaited \cup {c \in Calls : refresh[c].at = "first" /\ refresh[c].ran}

(* No data is newer than the server. *)
Sound(data) == data # Absent => data \subseteq committed
SoundData == Sound(entry.data) /\ fetching.brings \subseteq committed /\ Sound(fetching.revert.data)

(* An unmarked entry shows every write that is not owed, be it in the cache or where a
   cancelled fetch would put it back. *)
EntryOK(e) == e.data # Absent /\ ~e.marked => e.late \/ committed \subseteq e.data \cup Owed
EntriesOK == EntryOK(entry) /\ (fetching.at # "none" => EntryOK(fetching.revert))

(* An answer to a fetch shows every write that is not awaited, and only a page fetches. *)
FetchOK ==
  /\ fetching.at = "answered" => fetching.late \/ committed \subseteq fetching.brings \cup Awaited
  /\ ~mounted => fetching.at = "none"

(* So does what is on the screen when nothing is being fetched. *)
GivenUpHere == OfHere /\ GivenUp({"answered", "done"})
ScreenOK ==
  mounted /\ fetching.at = "none" /\ ~GivenUpHere =>
    \/ entry.failed \/ entry.late
    \/ entry.data # Absent /\ committed \subseteq entry.data \cup Owed

(* Before a new project is answered for nothing of it is in the cache but what was asked
   of the server after it was made. *)
Fresh(c, data) == data = Absent \/ (call[c].at = "answered" /\ committed \subseteq data)
NewProjectOK ==
  \A c \in Calls : OnItsWay(c) /\ ~call[c].others /\ OfHere =>
    /\ Fresh(c, entry.data)
    /\ fetching.at # "none" => Fresh(c, fetching.revert.data)
    /\ fetching.at = "answered" => call[c].at = "answered" /\ committed \subseteq fetching.brings

(* forgetProject watches the project's queries once a write is done. *)
ForgottenOK == forgotten => OfHere /\ \E c \in Calls : call[c].at = "done"

CacheInv == SoundData /\ EntriesOK /\ FetchOK /\ ScreenOK /\ NewProjectOK /\ ForgottenOK /\ ForgottenIsGone

IInv == CallsInv /\ CacheInv

(***************************************************************************)
(* Calls and refreshes                                                     *)
(***************************************************************************)

(* OfHere and what a write can be depend on the query alone. *)
LEMMA WriteOKKept ==
  ASSUME query' = query, NEW is, NEW others
  PROVE  WriteOK(is, others) <=> WriteOK(is, others)'
BY DEF WriteOK, OfHere

LEMMA CallTypes ==
  ASSUME Types, NEW c \in Calls
  PROVE  /\ call[c] \in CallStates /\ refresh[c] \in RefreshStates
         /\ call[c].at \in {"unused", "sent", "answered", "done"}
         /\ call[c].at # "unused" => call[c].is \in Effects /\ call[c].others \in BOOLEAN
         /\ call[c].at = "answered" => call[c].shows \in SUBSET Calls
         /\ refresh[c].at \in {"none", "event", "joined", "first"}
         /\ refresh[c].at = "event" => refresh[c].stale \in BOOLEAN
         /\ refresh[c].at \in {"joined", "first"} => refresh[c].ran \in BOOLEAN
<1>1. call[c] \in CallStates /\ refresh[c] \in RefreshStates
  BY DEF Types
<1>2. /\ call[c].at \in {"unused", "sent", "answered", "done"}
      /\ call[c].at # "unused" => call[c].is \in Effects /\ call[c].others \in BOOLEAN
      /\ call[c].at = "answered" => call[c].shows \in SUBSET Calls
  BY <1>1 DEF CallStates
<1>3. /\ refresh[c].at \in {"none", "event", "joined", "first"}
      /\ refresh[c].at = "event" => refresh[c].stale \in BOOLEAN
      /\ refresh[c].at \in {"joined", "first"} => refresh[c].ran \in BOOLEAN
  BY <1>1 DEF RefreshStates
<1> QED
  BY <1>1, <1>2, <1>3

(* What is released goes on to its second half; nothing else changes. *)
LEMMA ReleasedRefreshes ==
  ASSUME Types, NEW c \in Calls
  PROVE  /\ Released[c] \in RefreshStates
         /\ refresh[c].at # "joined" => Released[c] = refresh[c]
         /\ refresh[c].at = "joined" => Released[c].at = "first" /\ Released[c].ran = refresh[c].ran
<1>1. Released[c] = IF refresh[c].at = "joined" THEN [refresh[c] EXCEPT !.at = "first"] ELSE refresh[c]
  BY DEF Released
<1>2. CASE refresh[c].at = "joined"
  <2>1. refresh[c] \in [at : {"joined", "first"}, ran : BOOLEAN]
    BY <1>2, CallTypes DEF RefreshStates
  <2> QED
    BY <1>1, <1>2, <2>1 DEF RefreshStates
<1>3. CASE refresh[c].at # "joined"
  BY <1>1, <1>3, CallTypes
<1> QED
  BY <1>2, <1>3

LEMMA ReleasedType == Types => Released \in [Calls -> RefreshStates]
<1> SUFFICES ASSUME Types PROVE Released \in [Calls -> RefreshStates]
  OBVIOUS
<1>1. \A c \in Calls : Released[c] \in RefreshStates
  BY ReleasedRefreshes
<1>2. Released = [c \in Calls |-> Released[c]]
  BY DEF Released
<1> HIDE DEF Released
<1> QED
  BY <1>1, <1>2

(* A step that makes no call and lets refreshes go on at most. *)
Calm == UNCHANGED <<query, committed, call>> /\ (refresh' = refresh \/ refresh' = Released)

LEMMA CalmCalls ==
  ASSUME CallsInv, Calm
  PROVE  /\ WritesOK' /\ CommitsOK' /\ Alone' /\ RefreshesOK'
         /\ refresh' \in [Calls -> RefreshStates]
         /\ Owed' = Owed
         /\ refresh' = refresh => Awaited' = Awaited
<1>1. query' = query /\ committed' = committed /\ call' = call
  BY DEF Calm
<1>2. ASSUME NEW c \in Calls
      PROVE  /\ refresh'[c].at = "event" <=> refresh[c].at = "event"
             /\ refresh'[c].at = "event" => refresh'[c] = refresh[c]
             /\ refresh'[c].at # "none" <=> refresh[c].at # "none"
             /\ refresh'[c].at \in {"joined", "first"} <=> refresh[c].at \in {"joined", "first"}
             /\ refresh'[c].at \in {"joined", "first"} => refresh'[c].ran = refresh[c].ran
  BY ReleasedRefreshes DEF CallsInv, Calm
<1>3. WritesOK'
  BY <1>1, WriteOKKept DEF CallsInv, WritesOK, OnItsWay
<1>4. CommitsOK' /\ Alone'
  BY <1>1 DEF CallsInv, CommitsOK, Alone, OnItsWay
<1>5. RefreshesOK'
  BY <1>1, <1>2 DEF CallsInv, RefreshesOK
<1>6. refresh' \in [Calls -> RefreshStates]
  BY ReleasedType DEF CallsInv, Calm, Types
<1>7. \A c \in Calls : c \in Owed' <=> c \in Owed
  BY <1>1, <1>2 DEF Owed, Awaited
<1>8. Owed' = Owed
  <2>1. Owed \subseteq Calls /\ Owed' \subseteq Calls
    BY DEF Owed, Awaited
  <2> HIDE DEF Owed
  <2> QED
    BY <1>7, <2>1
<1>9. refresh' = refresh => Awaited' = Awaited
  BY <1>1 DEF Awaited
<1> QED
  BY <1>3, <1>4, <1>5, <1>6, <1>8, <1>9

(* The server's steps leave the cache alone, and what they add is awaited. *)
Serves ==
  /\ UNCHANGED <<query, mounted, entry, fetching, forgotten>>
  /\ committed \subseteq committed' /\ committed' \subseteq committed \cup Awaited'
  /\ Awaited \subseteq Awaited' /\ Owed \subseteq Owed'
  /\ GivenUpHere => GivenUpHere'
  /\ \A d \in Calls : call[d].at = "done" => call'[d] = call[d]

LEMMA SendCalls ==
  ASSUME CallsInv, NEW c \in Calls, Send(c)
  PROVE  CallsInv' /\ Serves
<1>1. PICK w \in Writes :
        /\ w = CreateProject => \A d \in Calls : Called(d, {"unused"})
        /\ w = UpdateMe /\ query = me => \A d \in Calls : Called(d, {"unused", "done"})
        /\ call' = [call EXCEPT ![c] = [at |-> "sent", is |-> Effect(w), others |-> w # CreateProject]]
  BY DEF Send
<1> DEFINE is == Effect(w)
           others == w # CreateProject
<1>2. WriteOK(is, others) /\ is \in Effects
  BY WriteIsOK DEF CallsInv, Types
<1>3. query = me /\ is.sets => w = UpdateMe
  BY MeIsSetByUpdateMe
<1>4. others \in BOOLEAN
  OBVIOUS
<1>5. ~others => \A d \in Calls : call[d].at = "unused"
  BY <1>1 DEF Called
<1>6. query = me /\ is.sets => \A d \in Calls : call[d].at \in {"unused", "done"}
  BY <1>1, <1>3 DEF Called
<1>7. /\ call[c].at = "unused" /\ call' = [call EXCEPT ![c] = [at |-> "sent", is |-> is, others |-> others]]
      /\ \A d \in Calls : call[d].at \in {"sent", "answered"} => call[d].others
      /\ UNCHANGED <<query, mounted, entry, fetching, committed, refresh, forgotten>>
  BY <1>1 DEF Send, Called
<1> HIDE DEF is, others
<1>8. call \in [Calls -> CallStates]
  BY DEF CallsInv, Types
<1>9. /\ call'[c] = [at |-> "sent", is |-> is, others |-> others]
      /\ \A d \in Calls : d # c => call'[d] = call[d]
  BY <1>7, <1>8
<1>10. call'[c] \in CallStates
  BY <1>2, <1>4, <1>9 DEF CallStates
<1>11. Types'
  <2>1. call' \in [Calls -> CallStates]
    BY <1>7, <1>8, <1>9, <1>10
  <2> QED
    BY <1>7, <2>1 DEF CallsInv, Types
<1>12. WritesOK'
  <2> SUFFICES ASSUME NEW d \in Calls, OnItsWay(d)' PROVE WriteOK(call[d].is, call[d].others)'
    BY DEF WritesOK
  <2>1. CASE d = c
    <3>1. OfHere' <=> OfHere
      BY <1>7 DEF OfHere
    <3>2. call'[d].is = is /\ call'[d].others = others /\ query' = query
      BY <1>7, <1>9, <2>1
    <3> QED
      BY <1>2, <3>1, <3>2 DEF WriteOK
  <2>2. CASE d # c
    <3>1. WriteOK(call[d].is, call[d].others)
      BY <1>9, <2>2 DEF CallsInv, WritesOK, OnItsWay
    <3> QED
      BY <1>7, <1>9, <2>2, <3>1 DEF WriteOK, OfHere
  <2> QED
    BY <2>1, <2>2
<1>13. CommitsOK'
  BY <1>7, <1>9 DEF CallsInv, CommitsOK
<1>14. Alone'
  <2> SUFFICES ASSUME NEW d \in Calls, NEW e \in Calls, d # e, OnItsWay(d)'
               PROVE  /\ ~call'[d].others => call'[e].at = "unused"
                      /\ call'[d].is.sets /\ ~call'[d].is.stale /\ OnItsWay(e)' => ~call'[e].is.changes
    BY DEF Alone
  <2>1. CASE d = c
    <3>1. ~others => call'[e].at = "unused"
      BY <1>5, <1>9, <2>1
    <3>2. ASSUME is.sets, ~is.stale, OnItsWay(e)'
          PROVE  FALSE
      <4>1. call[e].at \in {"sent", "answered"}
        BY <1>9, <2>1, <3>2 DEF OnItsWay
      <4>2. others
        BY <1>5, <4>1
      <4>3. query = me
        BY <1>2, <3>2, <4>2 DEF WriteOK
      <4> QED
        BY <1>6, <3>2, <4>1, <4>3
    <3> QED
      BY <1>9, <2>1, <3>1, <3>2
  <2>2. CASE d # c
    <3>1. call[d].at \in {"sent", "answered"} /\ call[d].others
      BY <1>7, <1>9, <2>2 DEF OnItsWay
    <3>2. ASSUME e = c, call[d].is.sets, ~call[d].is.stale, is.changes
          PROVE  FALSE
      <4>1. WriteOK(call[d].is, call[d].others)
        BY <3>1 DEF CallsInv, WritesOK, OnItsWay
      <4>2. query = me
        BY <3>1, <3>2, <4>1 DEF WriteOK
      <4>3. is.sets
        BY <1>2, <3>2, <4>2 DEF WriteOK
      <4> QED
        BY <1>6, <3>1, <4>2, <4>3
    <3>3. CASE e = c
      BY <1>9, <2>2, <3>1, <3>2, <3>3
    <3>4. CASE e # c
      BY <1>9, <2>2, <3>1, <3>4 DEF CallsInv, Alone, OnItsWay
    <3> QED
      BY <3>3, <3>4
  <2> QED
    BY <2>1, <2>2
<1>15. RefreshesOK'
  BY <1>7, <1>9 DEF CallsInv, RefreshesOK
<1>16. Awaited' = Awaited /\ Owed' = Owed
  <2>1. \A d \in Calls : (call'[d].at = "answered" <=> call[d].at = "answered") /\ refresh'[d] = refresh[d]
    BY <1>7, <1>9
  <2> QED
    BY <2>1 DEF Awaited, Owed
<1>17. GivenUpHere => GivenUpHere'
  BY <1>7, <1>9 DEF GivenUpHere, OfHere, GivenUp, Called
<1>18. Serves
  BY <1>7, <1>9, <1>16, <1>17 DEF Serves
<1> QED
  BY <1>11, <1>12, <1>13, <1>14, <1>15, <1>18 DEF CallsInv

LEMMA CommitCalls ==
  ASSUME CallsInv, NEW c \in Calls, Commit(c)
  PROVE  CallsInv' /\ Serves
<1> DEFINE is == call[c].is
<1>1. /\ call[c].at = "sent"
      /\ committed' = IF is.changes THEN committed \cup {c} ELSE committed
      /\ call' = [call EXCEPT ![c] = [at |-> "answered", is |-> is, others |-> call[c].others,
                                      shows |-> committed']]
      /\ UNCHANGED <<query, mounted, entry, fetching, refresh, forgotten>>
  BY DEF Commit
<1>2. is \in Effects /\ call[c].others \in BOOLEAN /\ c \notin committed
  BY <1>1, CallTypes DEF CallsInv, CommitsOK
<1>3. call \in [Calls -> CallStates] /\ committed \in SUBSET Calls
  BY DEF CallsInv, Types
<1>4. committed' \in SUBSET Calls
  BY <1>1, <1>3
<1>5. /\ call'[c] = [at |-> "answered", is |-> is, others |-> call[c].others, shows |-> committed']
      /\ \A d \in Calls : d # c => call'[d] = call[d]
  BY <1>1, <1>3
<1> HIDE DEF is
<1>6. Types'
  <2>1. call'[c] \in CallStates
    BY <1>2, <1>4, <1>5 DEF CallStates
  <2>2. call' \in [Calls -> CallStates]
    BY <1>1, <1>3, <1>5, <2>1
  <2> QED
    BY <1>1, <1>4, <2>2 DEF CallsInv, Types
<1>7. \A d \in Calls : /\ call'[d].is = call[d].is \/ call[d].at = "unused"
                       /\ call'[d].others = call[d].others \/ call[d].at = "unused"
                       /\ OnItsWay(d)' <=> OnItsWay(d)
                       /\ call'[d].at = "unused" <=> call[d].at = "unused"
  BY <1>1, <1>5 DEF OnItsWay, is
<1>8. WritesOK'
  <2> SUFFICES ASSUME NEW d \in Calls, OnItsWay(d)' PROVE WriteOK(call[d].is, call[d].others)'
    BY DEF WritesOK
  <2>1. WriteOK(call[d].is, call[d].others)
    BY <1>7 DEF CallsInv, WritesOK
  <2>2. (OfHere' <=> OfHere) /\ query' = query
    BY <1>1 DEF OfHere
  <2> QED
    BY <1>7, <2>1, <2>2 DEF WriteOK, OnItsWay
<1>9. CommitsOK'
  <2> SUFFICES ASSUME NEW d \in Calls
               PROVE  /\ d \in committed' => call'[d].at \in {"answered", "done"}
                      /\ call'[d].at = "answered" =>
                           /\ call'[d].shows \subseteq committed'
                           /\ call'[d].is.changes <=> d \in committed'
                           /\ call'[d].is.sets /\ ~call'[d].is.stale => call'[d].shows = committed'
    BY DEF CommitsOK
  <2>1. CASE d = c
    <3>1. is.changes \in BOOLEAN
      BY <1>2 DEF Effects
    <3> QED
      BY <1>1, <1>2, <1>5, <2>1, <3>1 DEF is
  <2>2. CASE d # c
    <3>1. d \in committed' <=> d \in committed
      BY <1>1, <2>2
    <3>2. call[d].at = "answered" /\ call[d].is.sets /\ ~call[d].is.stale => ~call[c].is.changes
      BY <1>1, <2>2 DEF CallsInv, Alone, OnItsWay
    <3> QED
      BY <1>1, <1>5, <2>2, <3>1, <3>2 DEF CallsInv, CommitsOK, is
  <2> QED
    BY <2>1, <2>2
<1>10. Alone'
  BY <1>7 DEF CallsInv, Alone, OnItsWay
<1>11. RefreshesOK'
  BY <1>1, <1>5 DEF CallsInv, RefreshesOK
<1>12. c \in Awaited' /\ Awaited \subseteq Awaited' /\ Owed \subseteq Owed'
  BY <1>1, <1>5 DEF Awaited, Owed
<1>13. GivenUpHere => GivenUpHere'
  BY <1>1, <1>5 DEF GivenUpHere, OfHere, GivenUp, Called
<1>14. Serves
  BY <1>1, <1>5, <1>12, <1>13 DEF Serves
<1> QED
  BY <1>6, <1>8, <1>9, <1>10, <1>11, <1>14 DEF CallsInv

(* A write that is done owes nothing but its refresh. *)
LEMMA SucceedCalls ==
  ASSUME CallsInv, NEW c \in Calls, Succeed(c)
  PROVE  /\ call' \in [Calls -> CallStates] /\ refresh' \in [Calls -> RefreshStates]
         /\ UNCHANGED <<query, mounted, committed>>
         /\ call[c].at = "answered" /\ call'[c].at = "done" /\ call'[c].is = call[c].is
         /\ \A d \in Calls : d # c => call'[d] = call[d]
         /\ WritesOK' /\ CommitsOK' /\ Alone' /\ RefreshesOK'
         /\ Owed \ {c} \subseteq Owed'
         /\ GivenUpHere' <=> GivenUpHere
<1> DEFINE is == call[c].is
<1>1. /\ call[c].at = "answered"
      /\ call' = [call EXCEPT ![c] = [at |-> "done", is |-> is, others |-> TRUE]]
      /\ UNCHANGED <<query, mounted, committed>>
  BY DEF Succeed
<1>2. refresh' = refresh \/ refresh' = Released
  BY DEF Succeed, DropQuery, RemoveQuery, Invalidate
<1>3. is \in Effects
  BY <1>1, CallTypes DEF CallsInv
<1>4. call \in [Calls -> CallStates]
  BY DEF CallsInv, Types
<1>5. /\ call'[c] = [at |-> "done", is |-> is, others |-> TRUE]
      /\ \A d \in Calls : d # c => call'[d] = call[d]
  BY <1>1, <1>4
<1>6. call' \in [Calls -> CallStates]
  <2>1. call'[c] \in CallStates
    BY <1>3, <1>5 DEF CallStates
  <2> QED
    BY <1>1, <1>4, <1>5, <2>1
<1>7. ASSUME NEW d \in Calls
      PROVE  /\ refresh'[d].at = "event" <=> refresh[d].at = "event"
             /\ refresh'[d].at = "event" => refresh'[d] = refresh[d]
             /\ refresh'[d].at # "none" <=> refresh[d].at # "none"
             /\ refresh'[d].at \in {"joined", "first"} <=> refresh[d].at \in {"joined", "first"}
             /\ refresh'[d].at \in {"joined", "first"} => refresh'[d].ran = refresh[d].ran
  BY <1>2, ReleasedRefreshes DEF CallsInv
<1>8. refresh' \in [Calls -> RefreshStates]
  BY <1>2, ReleasedType DEF CallsInv, Types
<1>9. WritesOK'
  <2> SUFFICES ASSUME NEW d \in Calls, OnItsWay(d)' PROVE WriteOK(call[d].is, call[d].others)'
    BY DEF WritesOK
  <2>1. d # c /\ call'[d] = call[d]
    BY <1>5 DEF OnItsWay
  <2>2. WriteOK(call[d].is, call[d].others)
    BY <2>1 DEF CallsInv, WritesOK, OnItsWay
  <2>3. (OfHere' <=> OfHere) /\ query' = query
    BY <1>1 DEF OfHere
  <2> QED
    BY <2>1, <2>2, <2>3 DEF WriteOK
<1>10. CommitsOK'
  BY <1>1, <1>5 DEF CallsInv, CommitsOK
<1>11. Alone'
  <2> SUFFICES ASSUME NEW d \in Calls, NEW e \in Calls, d # e, OnItsWay(d)'
               PROVE  /\ ~call'[d].others => call'[e].at = "unused"
                      /\ call'[d].is.sets /\ ~call'[d].is.stale /\ OnItsWay(e)' => ~call'[e].is.changes
    BY DEF Alone
  <2>1. d # c /\ call'[d] = call[d] /\ OnItsWay(d)
    BY <1>5 DEF OnItsWay
  <2>2. ~call[d].others => e # c
    BY <1>1, <2>1 DEF CallsInv, Alone
  <2>3. OnItsWay(e)' => e # c
    BY <1>5 DEF OnItsWay
  <2> QED
    BY <1>5, <2>1, <2>2, <2>3 DEF CallsInv, Alone, OnItsWay
<1>12. RefreshesOK'
  BY <1>1, <1>5, <1>7 DEF CallsInv, RefreshesOK
<1>13. Owed \ {c} \subseteq Owed'
  BY <1>5, <1>7 DEF Owed, Awaited
<1>14. GivenUpHere' <=> GivenUpHere
  <2>1. \A d \in Calls : /\ call'[d].at \in {"answered", "done"} <=> call[d].at \in {"answered", "done"}
                         /\ call[d].at # "unused" => call'[d].is = call[d].is
    BY <1>1, <1>5
  <2> QED
    BY <1>1, <2>1 DEF GivenUpHere, OfHere, GivenUp, Called
<1> QED
  BY <1>1, <1>5, <1>6, <1>8, <1>9, <1>10, <1>11, <1>12, <1>13, <1>14

LEMMA ForeignCommitCalls ==
  ASSUME CallsInv, NEW c \in Calls, ForeignCommit(c)
  PROVE  CallsInv' /\ Serves
<1>1. PICK w \in ForeignWrites :
        /\ call' = [call EXCEPT ![c] = [at |-> "done", is |-> Effect([w EXCEPT !.forgets = FALSE]),
                                        others |-> TRUE]]
        /\ committed' = IF /\ Effect([w EXCEPT !.forgets = FALSE]).changes
                           /\ query = projects => w \in ProjectChanges
                        THEN committed \cup {c} ELSE committed
        /\ refresh' = [refresh EXCEPT ![c] = [at |-> "event", stale |-> query \in EventRefreshes(w)]]
  BY DEF ForeignCommit
<1> DEFINE is == Effect([w EXCEPT !.forgets = FALSE])
           counts == is.changes /\ (query = projects => w \in ProjectChanges)
           stale == query \in EventRefreshes(w)
<1>2. is \in Effects
  BY ForeignEffect DEF CallsInv, Types
<1>3. counts => stale
  BY ForeignIsOK DEF CallsInv, Types
<1>4. query = me => ~counts
  BY ForeignLeavesMe
<1>5. /\ call' = [call EXCEPT ![c] = [at |-> "done", is |-> is, others |-> TRUE]]
      /\ committed' = IF counts THEN committed \cup {c} ELSE committed
      /\ refresh' = [refresh EXCEPT ![c] = [at |-> "event", stale |-> stale]]
      /\ stale \in BOOLEAN
  BY <1>1
<1> HIDE DEF is, counts, stale
<1>6. /\ call[c].at = "unused"
      /\ \A d \in Calls : call[d].at \in {"sent", "answered"} => call[d].others
      /\ UNCHANGED <<query, mounted, entry, fetching, forgotten>>
  BY DEF ForeignCommit, Called
<1>7. call \in [Calls -> CallStates] /\ refresh \in [Calls -> RefreshStates] /\ committed \in SUBSET Calls
  BY DEF CallsInv, Types
<1>8. /\ call'[c] = [at |-> "done", is |-> is, others |-> TRUE]
      /\ refresh'[c] = [at |-> "event", stale |-> stale]
      /\ \A d \in Calls : d # c => call'[d] = call[d] /\ refresh'[d] = refresh[d]
  BY <1>5, <1>7
<1>9. c \notin committed /\ refresh[c].at = "none"
  BY <1>6, CallTypes DEF CallsInv, CommitsOK, RefreshesOK
<1>10. Types'
  <2>1. call'[c] \in CallStates /\ refresh'[c] \in RefreshStates
    <3>1. call'[c] \in CallStates
      BY <1>2, <1>8 DEF CallStates
    <3>2. stale \in BOOLEAN
      BY <1>5
    <3>3. refresh'[c] \in [at : {"event"}, stale : BOOLEAN]
      BY <1>8, <3>2
    <3> QED
      BY <3>1, <3>3 DEF RefreshStates
  <2>2. call' \in [Calls -> CallStates] /\ refresh' \in [Calls -> RefreshStates]
    BY <1>5, <1>7, <1>8, <2>1
  <2>3. committed' \in SUBSET Calls
    BY <1>5, <1>7
  <2> QED
    BY <1>6, <2>2, <2>3 DEF CallsInv, Types
<1>11. \A d \in Calls : OnItsWay(d)' => d # c /\ OnItsWay(d) /\ call'[d] = call[d] /\ call[d].others
  BY <1>6, <1>8 DEF OnItsWay
<1>12. WritesOK'
  <2> SUFFICES ASSUME NEW d \in Calls, OnItsWay(d)' PROVE WriteOK(call[d].is, call[d].others)'
    BY DEF WritesOK
  <2>1. WriteOK(call[d].is, call[d].others)
    BY <1>11 DEF CallsInv, WritesOK
  <2>2. (OfHere' <=> OfHere) /\ query' = query
    BY <1>6 DEF OfHere
  <2> QED
    BY <1>11, <2>1, <2>2 DEF WriteOK
<1>13. CommitsOK'
  <2> SUFFICES ASSUME NEW d \in Calls
               PROVE  /\ d \in committed' => call'[d].at \in {"answered", "done"}
                      /\ call'[d].at = "answered" =>
                           /\ call'[d].shows \subseteq committed'
                           /\ call'[d].is.changes <=> d \in committed'
                           /\ call'[d].is.sets /\ ~call'[d].is.stale => call'[d].shows = committed'
    BY DEF CommitsOK
  <2>1. CASE d = c
    BY <1>8, <2>1
  <2>2. CASE d # c
    <3>1. d \in committed' <=> d \in committed
      BY <1>5, <2>2
    <3>2. ASSUME call[d].at = "answered", call[d].is.sets, ~call[d].is.stale
          PROVE  committed' = committed
      <4>1. WriteOK(call[d].is, call[d].others) /\ call[d].others
        BY <1>6, <3>2 DEF CallsInv, WritesOK, OnItsWay
      <4>2. query = me
        BY <3>2, <4>1 DEF WriteOK
      <4> QED
        BY <1>4, <1>5, <4>2
    <3>3. committed \subseteq committed'
      BY <1>5
    <3> QED
      BY <1>8, <2>2, <3>1, <3>2, <3>3 DEF CallsInv, CommitsOK
  <2> QED
    BY <2>1, <2>2
<1>14. Alone'
  <2> SUFFICES ASSUME NEW d \in Calls, NEW e \in Calls, d # e, OnItsWay(d)'
               PROVE  /\ ~call'[d].others => call'[e].at = "unused"
                      /\ call'[d].is.sets /\ ~call'[d].is.stale /\ OnItsWay(e)' => ~call'[e].is.changes
    BY DEF Alone
  <2>1. call[d].others /\ OnItsWay(d) /\ call'[d] = call[d]
    BY <1>11
  <2>2. OnItsWay(e)' => OnItsWay(e) /\ call'[e] = call[e]
    BY <1>11
  <2>3. call[d].is.sets /\ ~call[d].is.stale /\ OnItsWay(e) => ~call[e].is.changes
    BY <2>1 DEF CallsInv, Alone
  <2> QED
    BY <2>1, <2>2, <2>3
<1>15. RefreshesOK'
  <2> SUFFICES ASSUME NEW d \in Calls
               PROVE  /\ refresh'[d].at # "none" => call'[d].at = "done"
                      /\ refresh'[d].at = "event" /\ ~refresh'[d].stale => d \notin committed'
    BY DEF RefreshesOK
  <2>1. CASE d = c
    BY <1>3, <1>5, <1>8, <1>9, <2>1
  <2>2. CASE d # c
    BY <1>5, <1>8, <2>2 DEF CallsInv, RefreshesOK
  <2> QED
    BY <2>1, <2>2
<1>16. c \in Awaited' /\ Awaited \subseteq Awaited' /\ Owed \subseteq Owed'
  BY <1>6, <1>8, <1>9 DEF Awaited, Owed
<1>17. GivenUpHere => GivenUpHere'
  BY <1>6, <1>8 DEF GivenUpHere, OfHere, GivenUp, Called
<1>18. Serves
  BY <1>5, <1>6, <1>8, <1>16, <1>17 DEF Serves
<1> QED
  BY <1>10, <1>12, <1>13, <1>14, <1>15, <1>18 DEF CallsInv

(* A step of a refresh touches no other, and no call. *)
LEMMA RefreshCalls ==
  ASSUME CallsInv, NEW c \in Calls, NEW r \in RefreshStates,
         refresh[c].at # "none", refresh' = [refresh EXCEPT ![c] = r], r.at # "event",
         UNCHANGED <<query, committed, call>>
  PROVE  /\ refresh' \in [Calls -> RefreshStates]
         /\ WritesOK' /\ CommitsOK' /\ Alone' /\ RefreshesOK'
         /\ call[c].at = "done"
         /\ Owed \ {c} \subseteq Owed' /\ Awaited \ {c} \subseteq Awaited'
         /\ r.at = "joined" /\ r.ran => c \in Awaited'
<1>1. refresh \in [Calls -> RefreshStates]
  BY DEF CallsInv, Types
<1>2. refresh'[c] = r /\ \A d \in Calls : d # c => refresh'[d] = refresh[d]
  BY <1>1
<1>3. refresh' \in [Calls -> RefreshStates]
  BY <1>1
<1>4. WritesOK'
  <2> SUFFICES ASSUME NEW d \in Calls, OnItsWay(d)' PROVE WriteOK(call[d].is, call[d].others)'
    BY DEF WritesOK
  <2>1. WriteOK(call[d].is, call[d].others)
    BY DEF CallsInv, WritesOK, OnItsWay
  <2>2. (OfHere' <=> OfHere) /\ query' = query
    BY DEF OfHere
  <2> QED
    BY <2>1, <2>2 DEF WriteOK
<1>5. CommitsOK' /\ Alone'
  BY DEF CallsInv, CommitsOK, Alone, OnItsWay
<1>6. RefreshesOK' /\ call[c].at = "done"
  BY <1>2 DEF CallsInv, RefreshesOK
<1>7. /\ Owed \ {c} \subseteq Owed' /\ Awaited \ {c} \subseteq Awaited'
      /\ r.at = "joined" /\ r.ran => c \in Awaited'
  BY <1>2 DEF Owed, Awaited
<1> QED
  BY <1>3, <1>4, <1>5, <1>6, <1>7

(***************************************************************************)
(* The cache                                                               *)
(***************************************************************************)

CacheTypes == /\ mounted \in BOOLEAN /\ forgotten \in BOOLEAN
              /\ entry \in Entries /\ fetching \in Fetches

LEMMA CacheTypesOf ==
  ASSUME Types
  PROVE  /\ CacheTypes
         /\ entry.data = Absent \/ entry.data \in SUBSET Calls
         /\ fetching.revert \in Entries /\ fetching.brings \in SUBSET Calls
         /\ fetching.late \in BOOLEAN /\ entry.late \in BOOLEAN
         /\ fetching.at \in {"none", "sent", "answered", "refused"}
         /\ NoEntry \in Entries /\ NoFetch \in Fetches
BY DEF Types, CacheTypes, Entries, Fetches, NoEntry, NoFetch

(* A fetch that starts brings nothing yet, and goes back to the entry it starts from. *)
LEMMA StartedFetch ==
  ASSUME NEW e \in Entries
  PROVE  /\ Started(e) \in Fetches
         /\ Started(e).at = "sent" /\ Started(e).brings = {} /\ Started(e).revert = e
BY DEF Started, Fetches

(* A server's step keeps what the cache promises but for a new project. *)
LEMMA ServesCache ==
  ASSUME IInv, Serves
  PROVE  /\ SoundData' /\ EntriesOK' /\ FetchOK' /\ ScreenOK' /\ ForgottenOK' /\ ForgottenIsGone'
         /\ OfHere' <=> OfHere
<1>1. /\ query' = query /\ mounted' = mounted /\ entry' = entry /\ fetching' = fetching
      /\ forgotten' = forgotten
      /\ committed \subseteq committed' /\ committed' \subseteq committed \cup Awaited'
      /\ Awaited \subseteq Awaited' /\ Owed \subseteq Owed'
  BY DEF Serves
<1>2. Awaited' \subseteq Owed'
  BY DEF Owed
<1>3. OfHere' <=> OfHere
  BY <1>1 DEF OfHere
<1> HIDE DEF Owed, Awaited
<1>4. SoundData'
  BY <1>1 DEF IInv, CacheInv, SoundData, Sound
<1>5. EntriesOK'
  BY <1>1, <1>2 DEF IInv, CacheInv, EntriesOK, EntryOK
<1>6. FetchOK'
  BY <1>1 DEF IInv, CacheInv, FetchOK
<1>7. ScreenOK'
  BY <1>1, <1>2 DEF Serves, IInv, CacheInv, ScreenOK
<1>8. ForgottenOK'
  BY <1>1, <1>3 DEF Serves, IInv, CacheInv, ForgottenOK
<1>9. ForgottenIsGone'
  BY <1>1 DEF Serves, IInv, CacheInv, ForgottenIsGone, Called
<1> QED
  BY <1>3, <1>4, <1>5, <1>6, <1>7, <1>8, <1>9

LEMMA SendInv ==
  ASSUME IInv, NEW c \in Calls, Send(c)
  PROVE  IInv'
<1>1. CallsInv' /\ Serves
  BY SendCalls DEF IInv
<1>2. PICK w \in Writes :
        /\ w = CreateProject => (OfHere => ~mounted /\ entry = NoEntry)
        /\ call' = [call EXCEPT ![c] = [at |-> "sent", is |-> Effect(w), others |-> w # CreateProject]]
  BY DEF Send
<1> DEFINE others == w # CreateProject
<1>3. call'[c].others <=> others
  BY <1>2 DEF IInv, CallsInv, Types
<1>4. ~others /\ OfHere => ~mounted /\ entry = NoEntry
  BY <1>2
<1> HIDE DEF others
<1>5. \A d \in Calls : d # c => call'[d] = call[d]
  BY <1>2 DEF IInv, CallsInv, Types
<1>6. /\ \A d \in Calls : call[d].at \in {"sent", "answered"} => call[d].others
      /\ entry' = entry /\ fetching' = fetching
  BY DEF Send, Called
<1>7. NewProjectOK'
  <2> SUFFICES ASSUME NEW d \in Calls, OnItsWay(d)', ~call'[d].others, OfHere'
               PROVE  /\ Fresh(d, entry.data)'
                      /\ (fetching.at # "none" => Fresh(d, fetching.revert.data))'
                      /\ fetching'.at = "answered" => call'[d].at = "answered" /\ committed' \subseteq fetching'.brings
    BY DEF NewProjectOK
  <2>1. d = c
    BY <1>5, <1>6 DEF OnItsWay
  <2>2. ~mounted /\ entry = NoEntry
    BY <1>1, <1>3, <1>4, <2>1, ServesCache
  <2>3. fetching.at = "none"
    BY <2>2 DEF IInv, CacheInv, FetchOK
  <2> QED
    BY <1>6, <2>2, <2>3 DEF Fresh, NoEntry
<1> QED
  BY <1>1, <1>7, ServesCache DEF IInv, CacheInv

LEMMA CommitInv ==
  ASSUME IInv, NEW c \in Calls, Commit(c)
  PROVE  IInv'
<1>1. CallsInv' /\ Serves
  BY CommitCalls DEF IInv
<1>2. /\ call[c].at = "sent" /\ entry' = entry /\ fetching' = fetching
      /\ call'[c].at = "answered" /\ call'[c].others = call[c].others
      /\ \A d \in Calls : d # c => call'[d] = call[d]
  BY DEF Commit, IInv, CallsInv, Types
<1>3. NewProjectOK'
  <2> SUFFICES ASSUME NEW d \in Calls, OnItsWay(d)', ~call'[d].others, OfHere'
               PROVE  /\ Fresh(d, entry.data)'
                      /\ (fetching.at # "none" => Fresh(d, fetching.revert.data))'
                      /\ fetching'.at = "answered" => call'[d].at = "answered" /\ committed' \subseteq fetching'.brings
    BY DEF NewProjectOK
  <2>1. OnItsWay(d) /\ ~call[d].others /\ OfHere
    BY <1>1, <1>2, ServesCache DEF OnItsWay
  <2>2. d = c
    BY <1>2, <2>1 DEF IInv, CallsInv, Alone
  <2>3. /\ entry.data = Absent /\ (fetching.at # "none" => fetching.revert.data = Absent)
        /\ fetching.at # "answered"
    BY <1>2, <2>1, <2>2 DEF IInv, CacheInv, NewProjectOK, Fresh
  <2> QED
    BY <1>2, <2>3 DEF Fresh
<1> QED
  BY <1>1, <1>3, ServesCache DEF IInv, CacheInv

LEMMA ForeignCommitInv ==
  ASSUME IInv, NEW c \in Calls, ForeignCommit(c)
  PROVE  IInv'
<1>1. CallsInv' /\ Serves
  BY ForeignCommitCalls DEF IInv
<1>2. PICK is : call' = [call EXCEPT ![c] = [at |-> "done", is |-> is, others |-> TRUE]]
  BY DEF ForeignCommit
<1>3. /\ call'[c].at = "done"
      /\ \A d \in Calls : d # c => call'[d] = call[d]
  BY <1>2 DEF IInv, CallsInv, Types
<1>4. \A d \in Calls : call[d].at \in {"sent", "answered"} => call[d].others
  BY DEF ForeignCommit, Called
<1>5. NewProjectOK'
  BY <1>3, <1>4 DEF NewProjectOK, OnItsWay
<1> QED
  BY <1>1, <1>5, ServesCache DEF IInv, CacheInv

(* A step that makes no call has only the cache to keep in order. *)
LEMMA CalmInv ==
  ASSUME IInv, Calm, CacheTypes', CacheInv'
  PROVE  IInv'
<1>1. Types'
  BY CalmCalls DEF IInv, CallsInv, Types, CacheTypes, Calm
<1> QED
  BY <1>1, CalmCalls DEF IInv, CallsInv

LEMMA CalmFacts ==
  ASSUME IInv, Calm
  PROVE  /\ call' = call /\ committed' = committed /\ Owed' = Owed
         /\ refresh' = refresh => Awaited' = Awaited
         /\ OfHere' <=> OfHere
         /\ GivenUpHere' <=> GivenUpHere
<1>1. query' = query /\ call' = call /\ committed' = committed
  BY DEF Calm
<1>2. OfHere' <=> OfHere
  BY <1>1 DEF OfHere
<1>3. GivenUpHere' <=> GivenUpHere
  BY <1>1, <1>2 DEF GivenUpHere, GivenUp, Called
<1> QED
  BY <1>1, <1>2, <1>3, CalmCalls DEF IInv

(* A fetch of the current entry starts, while nothing is being fetched. *)
LEMMA StartsInv ==
  ASSUME IInv, Calm, refresh' = refresh, mounted', mounted' \in BOOLEAN,
         fetching.at = "none", fetching' = Started(entry), entry' = entry, forgotten' = forgotten
  PROVE  IInv'
<1>1. CacheTypes /\ Started(entry) \in Fetches /\ entry \in Entries
  BY CacheTypesOf, StartedFetch DEF IInv, CallsInv, CacheTypes
<1>2. fetching'.at = "sent" /\ fetching'.brings = {} /\ fetching'.revert = entry
  BY <1>1, StartedFetch
<1>3. CacheTypes'
  BY <1>1 DEF CacheTypes
<1> HIDE DEF Owed, Awaited, Started
<1>4. SoundData'
  BY <1>2, CalmFacts DEF IInv, CacheInv, SoundData, Sound
<1>5. EntriesOK'
  BY <1>2, CalmFacts DEF IInv, CacheInv, EntriesOK, EntryOK
<1>6. FetchOK' /\ ScreenOK'
  BY <1>2 DEF FetchOK, ScreenOK
<1>7. NewProjectOK'
  BY <1>2, CalmFacts DEF IInv, CacheInv, NewProjectOK, Fresh, OnItsWay
<1>8. ForgottenOK' /\ ForgottenIsGone'
  BY CalmFacts DEF IInv, CacheInv, ForgottenOK, ForgottenIsGone
<1> QED
  BY <1>3, <1>4, <1>5, <1>6, <1>7, <1>8, CalmInv DEF CacheInv

LEMMA MountInv ==
  ASSUME IInv, Mount
  PROVE  IInv'
<1>1. /\ Calm /\ refresh' = refresh /\ ~mounted /\ mounted' /\ mounted' = TRUE /\ entry' = entry
      /\ forgotten' = forgotten
      /\ \/ fetching' = Started(entry)
         \/ entry.data # Absent /\ ~entry.marked /\ fetching' = fetching
  BY DEF Mount, Calm
<1>2. fetching.at = "none"
  BY <1>1 DEF IInv, CacheInv, FetchOK
<1>3. CASE fetching' = Started(entry)
  BY <1>1, <1>2, <1>3, StartsInv
<1>4. CASE entry.data # Absent /\ ~entry.marked /\ fetching' = fetching
  <2>1. CacheTypes'
    BY <1>1, <1>4, CacheTypesOf DEF IInv, CallsInv, CacheTypes
  <2> HIDE DEF Owed, Awaited
  <2>2. SoundData' /\ EntriesOK'
    BY <1>1, <1>4, CalmFacts DEF IInv, CacheInv, SoundData, Sound, EntriesOK, EntryOK
  <2>3. FetchOK' /\ ScreenOK'
    BY <1>1, <1>2, <1>4, CalmFacts DEF IInv, CacheInv, FetchOK, ScreenOK, EntriesOK, EntryOK
  <2>4. NewProjectOK'
    BY <1>1, <1>4, CalmFacts DEF IInv, CacheInv, NewProjectOK, Fresh, OnItsWay
  <2>5. ForgottenOK' /\ ForgottenIsGone'
    BY <1>1, CalmFacts DEF IInv, CacheInv, ForgottenOK, ForgottenIsGone
  <2> QED
    BY <1>1, <2>1, <2>2, <2>3, <2>4, <2>5, CalmInv DEF CacheInv
<1> QED
  BY <1>1, <1>3, <1>4

LEMMA RefocusInv ==
  ASSUME IInv, Refocus
  PROVE  IInv'
<1>1. /\ Calm /\ refresh' = refresh /\ mounted' /\ mounted' = mounted /\ entry' = entry
      /\ forgotten' = forgotten /\ fetching.at = "none" /\ fetching' = Started(entry)
  BY DEF Refocus, Calm
<1>2. mounted' \in BOOLEAN
  BY <1>1 DEF IInv, CallsInv, Types
<1> QED
  BY <1>1, <1>2, StartsInv

(* Nobody fetches after the last observer has left: what is left is a sound entry. *)
LEMMA LeftInv ==
  ASSUME IInv, Calm, mounted' = FALSE, fetching' \in Fetches, fetching'.at = "none",
         fetching'.brings \subseteq committed, Sound(fetching'.revert.data), forgotten' = forgotten,
         \/ entry' = NoEntry
         \/ ~forgotten /\ entry' = entry
         \/ ~forgotten /\ fetching.at # "none" /\ entry' = fetching.revert
  PROVE  IInv'
<1>1. CacheTypes /\ fetching.revert \in Entries /\ NoEntry \in Entries /\ NoEntry.data = Absent
  BY CacheTypesOf DEF IInv, CallsInv, NoEntry
<1>2. CacheTypes'
  BY <1>1 DEF CacheTypes
<1> HIDE DEF Owed, Awaited
<1>3. SoundData'
  BY <1>1, CalmFacts DEF IInv, CacheInv, SoundData, Sound
<1>4. EntriesOK'
  BY <1>1, CalmFacts DEF IInv, CacheInv, EntriesOK, EntryOK
<1>5. FetchOK' /\ ScreenOK'
  BY DEF FetchOK, ScreenOK
<1>6. NewProjectOK'
  BY <1>1, CalmFacts DEF IInv, CacheInv, NewProjectOK, Fresh, OnItsWay
<1>7. ForgottenOK'
  BY CalmFacts DEF IInv, CacheInv, ForgottenOK
<1>8. ForgottenIsGone'
  BY <1>1 DEF ForgottenIsGone
<1> QED
  BY <1>2, <1>3, <1>4, <1>5, <1>6, <1>7, <1>8, CalmInv DEF CacheInv

LEMMA UnmountInv ==
  ASSUME IInv, Unmount
  PROVE  IInv'
<1>1. /\ Calm /\ mounted' = FALSE /\ fetching' = NoFetch /\ forgotten' = forgotten
      /\ entry' = IF forgotten THEN NoEntry
                  ELSE IF fetching.at = "none" THEN entry ELSE fetching.revert
  BY DEF Unmount, Calm
<1>2. /\ NoFetch \in Fetches /\ NoFetch.at = "none" /\ NoFetch.brings = {}
      /\ Sound(NoFetch.revert.data)
  BY CacheTypesOf DEF IInv, CallsInv, NoFetch, NoEntry, Sound
<1> QED
  BY <1>1, <1>2, LeftInv

LEMMA CollectInv ==
  ASSUME IInv, Collect
  PROVE  IInv'
<1>1. /\ Calm /\ ~mounted /\ mounted' = mounted /\ fetching' = fetching /\ entry' = NoEntry
      /\ forgotten' = forgotten
  BY DEF Collect, Calm
<1>2. mounted' = FALSE
  BY <1>1 DEF IInv, CallsInv, Types
<1>3. /\ fetching \in Fetches /\ fetching.at = "none" /\ fetching.brings \subseteq committed
      /\ Sound(fetching.revert.data)
  BY <1>1, CacheTypesOf DEF IInv, CallsInv, CacheTypes, CacheInv, FetchOK, SoundData
<1>4. fetching' \in Fetches /\ fetching'.at = "none" /\ fetching'.brings \subseteq committed
  BY <1>1, <1>3
<1>5. Sound(fetching'.revert.data)
  BY <1>1, <1>3
<1> QED
  BY <1>1, <1>2, <1>4, <1>5, LeftInv

LEMMA ServeInv ==
  ASSUME IInv, Serve
  PROVE  IInv'
<1>1. /\ Calm /\ refresh' = refresh /\ mounted' = mounted /\ entry' = entry
      /\ forgotten' = forgotten /\ fetching.at = "sent"
      /\ \/ Missing /\ fetching' = [fetching EXCEPT !.at = "refused"]
         \/ ~Missing /\ fetching' = [fetching EXCEPT !.at = "answered", !.brings = committed]
  BY DEF Serve, Calm
<1>2. CacheTypes /\ committed \in SUBSET Calls
  BY CacheTypesOf DEF IInv, CallsInv, Types
<1>3. /\ fetching' \in Fetches /\ fetching'.revert = fetching.revert /\ fetching'.at # "none"
      /\ fetching'.at = "answered" => ~Missing /\ fetching'.brings = committed
      /\ fetching'.brings \subseteq committed
  BY <1>1, <1>2 DEF CacheTypes, Fetches, IInv, CacheInv, SoundData
<1>4. CacheTypes'
  BY <1>1, <1>2, <1>3 DEF CacheTypes
<1> HIDE DEF Owed, Awaited
<1>5. SoundData' /\ EntriesOK'
  BY <1>1, <1>3, CalmFacts DEF IInv, CacheInv, SoundData, Sound, EntriesOK, EntryOK
<1>6. FetchOK'
  BY <1>1, <1>3, CalmFacts DEF IInv, CacheInv, FetchOK
<1>7. ScreenOK'
  BY <1>3 DEF ScreenOK
<1>8. NewProjectOK'
  <2> SUFFICES ASSUME NEW c \in Calls, OnItsWay(c)', ~call'[c].others, OfHere'
               PROVE  /\ Fresh(c, entry.data)'
                      /\ (fetching.at # "none" => Fresh(c, fetching.revert.data))'
                      /\ fetching'.at = "answered" => call'[c].at = "answered" /\ committed' \subseteq fetching'.brings
    BY DEF NewProjectOK
  <2>1. OnItsWay(c) /\ ~call[c].others /\ OfHere
    BY <1>1, CalmFacts DEF OnItsWay
  <2>2. Fresh(c, entry.data) /\ Fresh(c, fetching.revert.data)
    BY <1>1, <2>1 DEF IInv, CacheInv, NewProjectOK
  <2>3. ~Missing => call[c].at = "answered"
    BY <2>1 DEF Missing, Called, OnItsWay
  <2>4. call' = call /\ committed' = committed
    BY <1>1, CalmFacts
  <2>5. Fresh(c, entry.data)' /\ Fresh(c, fetching.revert.data)'
    BY <1>1, <1>3, <2>2, <2>4 DEF Fresh
  <2>6. fetching'.at = "answered" => call'[c].at = "answered" /\ committed' \subseteq fetching'.brings
    BY <1>3, <2>3, <2>4
  <2> QED
    BY <2>5, <2>6
<1>9. ForgottenOK' /\ ForgottenIsGone'
  BY <1>1, CalmFacts DEF IInv, CacheInv, ForgottenOK, ForgottenIsGone, Called
<1> QED
  BY <1>1, <1>4, <1>5, <1>6, <1>7, <1>8, <1>9, CalmInv DEF CacheInv

LEMMA ArriveInv ==
  ASSUME IInv, Arrive
  PROVE  IInv'
<1>1. /\ Calm /\ mounted' = mounted /\ forgotten' = forgotten /\ fetching.at = "answered"
      /\ entry' = [NoEntry EXCEPT !.data = fetching.brings, !.late = fetching.late]
      /\ fetching' = NoFetch
  BY DEF Arrive, FetchEnds, Calm
<1>2. CacheTypes /\ fetching.brings \in SUBSET Calls /\ fetching.late \in BOOLEAN /\ NoFetch \in Fetches
  BY CacheTypesOf DEF IInv, CallsInv
<1>3. /\ entry'.data = fetching.brings /\ entry'.data # Absent /\ entry'.late = fetching.late
      /\ entry' \in Entries
  BY <1>1, <1>2, QueriesAssumption DEF NoEntry, Entries
<1>4. NoFetch.at = "none" /\ NoFetch.brings = {} /\ NoFetch.revert.data = Absent
  BY DEF NoFetch, NoEntry
<1>5. CacheTypes'
  BY <1>1, <1>2, <1>3 DEF CacheTypes
<1>6. mounted
  BY <1>1 DEF IInv, CacheInv, FetchOK
<1>7. Awaited \subseteq Owed
  BY DEF Owed
<1> HIDE DEF Owed, Awaited
<1>8. SoundData'
  BY <1>1, <1>3, <1>4, CalmFacts DEF IInv, CacheInv, SoundData, Sound
<1>9. entry'.late \/ committed' \subseteq entry'.data \cup Owed'
  BY <1>1, <1>3, <1>7, CalmFacts DEF IInv, CacheInv, FetchOK
<1>10. EntriesOK' /\ FetchOK' /\ ScreenOK'
  BY <1>1, <1>3, <1>4, <1>6, <1>9 DEF EntriesOK, EntryOK, FetchOK, ScreenOK
<1>11. NewProjectOK'
  BY <1>1, <1>3, <1>4, CalmFacts DEF IInv, CacheInv, NewProjectOK, Fresh, OnItsWay
<1>12. ForgottenOK' /\ ForgottenIsGone'
  BY <1>1, <1>6, CalmFacts DEF IInv, CacheInv, ForgottenOK, ForgottenIsGone
<1> QED
  BY <1>1, <1>5, <1>8, <1>10, <1>11, <1>12, CalmInv DEF CacheInv

LEMMA FetchFailsInv ==
  ASSUME IInv, FetchFails
  PROVE  IInv'
<1>1. /\ Calm /\ mounted' = mounted /\ forgotten' = forgotten /\ fetching.at # "none"
      /\ entry' = [entry EXCEPT !.marked = TRUE, !.failed = TRUE]
      /\ fetching' = NoFetch
  BY DEF FetchFails, FetchEnds, Calm
<1>2. CacheTypes /\ NoFetch \in Fetches
  BY CacheTypesOf DEF IInv, CallsInv
<1>3. entry'.data = entry.data /\ entry'.marked /\ entry'.failed /\ entry' \in Entries
  BY <1>1, <1>2 DEF CacheTypes, Entries
<1>4. NoFetch.at = "none" /\ NoFetch.brings = {} /\ NoFetch.revert.data = Absent
  BY DEF NoFetch, NoEntry
<1>5. CacheTypes'
  BY <1>1, <1>2, <1>3 DEF CacheTypes
<1>6. mounted
  BY <1>1 DEF IInv, CacheInv, FetchOK
<1> HIDE DEF Owed, Awaited
<1>7. SoundData'
  BY <1>1, <1>3, <1>4, CalmFacts DEF IInv, CacheInv, SoundData, Sound
<1>8. EntriesOK' /\ FetchOK' /\ ScreenOK'
  BY <1>1, <1>3, <1>4 DEF EntriesOK, EntryOK, FetchOK, ScreenOK
<1>9. NewProjectOK'
  BY <1>1, <1>3, <1>4, CalmFacts DEF IInv, CacheInv, NewProjectOK, Fresh, OnItsWay
<1>10. ForgottenOK' /\ ForgottenIsGone'
  BY <1>1, <1>6, CalmFacts DEF IInv, CacheInv, ForgottenOK, ForgottenIsGone
<1> QED
  BY <1>1, <1>5, <1>7, <1>8, <1>9, <1>10, CalmInv DEF CacheInv

(* While another user's refresh is dealt with, no project is being made. *)
LEMMA NoNewProject ==
  ASSUME IInv, NEW c \in Calls, call[c].at = "done", call' = call
  PROVE  NewProjectOK'
<1>1. \A d \in Calls : OnItsWay(d) => call[d].others
  BY DEF IInv, CallsInv, Alone, OnItsWay
<1> QED
  BY <1>1 DEF NewProjectOK, OnItsWay

LEMMA RefreshInv ==
  ASSUME IInv, NEW c \in Calls, Refresh(c)
  PROVE  IInv'
<1> DEFINE running == mounted /\ fetching.at # "none"
           next == [at |-> IF mounted THEN "joined" ELSE "first", ran |-> running]
<1>1. /\ refresh[c].at = "event" /\ query' = query /\ mounted' = mounted /\ committed' = committed
      /\ call' = call /\ forgotten' = forgotten
      /\ \/ /\ refresh[c].stale /\ refresh' = [refresh EXCEPT ![c] = next]
            /\ entry' = [entry EXCEPT !.marked = TRUE]
            /\ \/ mounted /\ ~running /\ fetching' = Started(entry')
               \/ ~(mounted /\ ~running) /\ fetching' = fetching
         \/ /\ ~refresh[c].stale /\ refresh' = [refresh EXCEPT ![c] = [at |-> "none"]]
            /\ entry' = entry /\ fetching' = fetching
  BY DEF Refresh
<1>2. next \in RefreshStates /\ next.at # "event" /\ (next.at = "joined" /\ next.ran <=> running)
  <2>1. mounted \in BOOLEAN /\ running \in BOOLEAN
    BY DEF IInv, CallsInv, Types
  <2>2. running => mounted
    OBVIOUS
  <2> HIDE DEF running
  <2>3. next.ran = running /\ next.at = IF mounted THEN "joined" ELSE "first"
    OBVIOUS
  <2>4. next \in RefreshStates
    BY <2>1 DEF RefreshStates
  <2> QED
    BY <2>2, <2>3, <2>4
<1>3. [at |-> "none"] \in RefreshStates
  BY DEF RefreshStates
<1>4. CacheTypes
  BY CacheTypesOf DEF IInv, CallsInv
<1>5. PICK r \in RefreshStates : refresh' = [refresh EXCEPT ![c] = r] /\ r.at # "event" /\
        (refresh[c].stale => r = next)
  BY <1>1, <1>2, <1>3
<1>6. /\ refresh' \in [Calls -> RefreshStates]
      /\ WritesOK' /\ CommitsOK' /\ Alone' /\ RefreshesOK'
      /\ call[c].at = "done"
      /\ Owed \ {c} \subseteq Owed' /\ Awaited \ {c} \subseteq Awaited'
      /\ r.at = "joined" /\ r.ran => c \in Awaited'
  BY <1>1, <1>5, RefreshCalls DEF IInv
<1>7. running /\ refresh[c].stale => c \in Awaited'
  BY <1>2, <1>5, <1>6
<1>8. ~refresh[c].stale => c \notin committed
  BY <1>1 DEF IInv, CallsInv, RefreshesOK
<1>9. Awaited' \subseteq Owed'
  BY DEF Owed
<1>10. OfHere' <=> OfHere
  BY <1>1 DEF OfHere
<1>11. GivenUpHere' <=> GivenUpHere
  BY <1>1, <1>10 DEF GivenUpHere, GivenUp, Called
<1>12. NewProjectOK'
  BY <1>1, <1>6, NoNewProject
<1>13. ForgottenOK'
  BY <1>1, <1>10 DEF IInv, CacheInv, ForgottenOK
<1> HIDE DEF Owed, Awaited, next
<1>14. CASE refresh[c].stale
  <2>1. /\ entry' \in Entries /\ entry'.data = entry.data /\ entry'.marked
    BY <1>1, <1>4, <1>14 DEF CacheTypes, Entries
  <2>2. CacheTypes'
    BY <1>1, <1>4, <1>14, <2>1, StartedFetch DEF CacheTypes
  <2>3. \/ running /\ mounted /\ fetching' = fetching
        \/ fetching.at = "none" /\ ~mounted /\ fetching' = fetching
        \/ mounted /\ fetching'.at = "sent" /\ fetching'.brings = {} /\ fetching'.revert = entry'
    BY <1>1, <1>14, <2>1, StartedFetch DEF IInv, CacheInv, FetchOK
  <2>4. SoundData'
    BY <1>1, <2>1, <2>3 DEF IInv, CacheInv, SoundData, Sound
  <2>5. EntriesOK'
    BY <1>1, <1>6, <1>7, <1>9, <1>14, <2>1, <2>3 DEF IInv, CacheInv, EntriesOK, EntryOK
  <2>6. FetchOK' /\ ScreenOK'
    BY <1>1, <1>6, <1>7, <1>14, <2>3 DEF IInv, CacheInv, FetchOK, ScreenOK
  <2>7. ForgottenIsGone'
    BY <1>1, <2>1 DEF IInv, CacheInv, ForgottenIsGone, Called
  <2>8. Types'
    BY <1>1, <1>6, <2>2 DEF IInv, CallsInv, Types, CacheTypes
  <2> QED
    BY <1>6, <1>12, <1>13, <2>4, <2>5, <2>6, <2>7, <2>8 DEF IInv, CallsInv, CacheInv
<1>15. CASE ~refresh[c].stale
  <2>1. entry' = entry /\ fetching' = fetching
    BY <1>1, <1>15
  <2>2. committed \cap Owed \subseteq Owed' /\ committed \cap Awaited \subseteq Awaited'
    BY <1>6, <1>8, <1>15
  <2>3. SoundData' /\ EntriesOK'
    BY <1>1, <2>1, <2>2 DEF IInv, CacheInv, SoundData, Sound, EntriesOK, EntryOK
  <2>4. FetchOK' /\ ScreenOK'
    BY <1>1, <1>11, <2>1, <2>2 DEF IInv, CacheInv, FetchOK, ScreenOK
  <2>5. ForgottenIsGone'
    BY <1>1, <2>1 DEF IInv, CacheInv, ForgottenIsGone, Called
  <2>6. Types'
    BY <1>1, <1>6, <2>1 DEF IInv, CallsInv, Types
  <2> QED
    BY <1>6, <1>12, <1>13, <2>3, <2>4, <2>5, <2>6 DEF IInv, CallsInv, CacheInv
<1> QED
  BY <1>14, <1>15

LEMMA RefreshAgainInv ==
  ASSUME IInv, NEW c \in Calls, RefreshAgain(c)
  PROVE  IInv'
<1>1. /\ refresh[c].at = "first" /\ query' = query /\ mounted' = mounted /\ committed' = committed
      /\ call' = call /\ forgotten' = forgotten
      /\ refresh' = [refresh EXCEPT ![c] = [at |-> "none"]]
      /\ \/ /\ refresh[c].ran
            /\ entry' = [entry EXCEPT !.marked = TRUE]
            /\ \/ mounted /\ fetching.at = "none" /\ fetching' = Started(entry')
               \/ /\ ~(mounted /\ fetching.at = "none")
                  /\ fetching' = [fetching EXCEPT !.revert.late = fetching.at # "none"]
         \/ ~refresh[c].ran /\ entry' = entry /\ fetching' = fetching
  BY DEF RefreshAgain
<1>2. [at |-> "none"] \in RefreshStates
  BY DEF RefreshStates
<1>3. CacheTypes
  BY CacheTypesOf DEF IInv, CallsInv
<1>4. /\ refresh' \in [Calls -> RefreshStates]
      /\ WritesOK' /\ CommitsOK' /\ Alone' /\ RefreshesOK'
      /\ call[c].at = "done"
      /\ Owed \ {c} \subseteq Owed' /\ Awaited \ {c} \subseteq Awaited'
  BY <1>1, <1>2, RefreshCalls DEF IInv
<1>5. c \notin Awaited /\ (~refresh[c].ran => c \notin Owed)
  BY <1>1, <1>4 DEF Awaited, Owed
<1>6. OfHere' <=> OfHere
  BY <1>1 DEF OfHere
<1>7. GivenUpHere' <=> GivenUpHere
  BY <1>1, <1>6 DEF GivenUpHere, GivenUp, Called
<1>8. NewProjectOK'
  BY <1>1, <1>4, NoNewProject
<1>9. ForgottenOK'
  BY <1>1, <1>6 DEF IInv, CacheInv, ForgottenOK
<1> HIDE DEF Owed, Awaited
<1>10. CASE refresh[c].ran
  <2>1. entry' \in Entries /\ entry'.data = entry.data /\ entry'.marked
    BY <1>1, <1>3, <1>10 DEF CacheTypes, Entries
  <2>2. ASSUME mounted /\ fetching.at = "none"
        PROVE  fetching' \in Fetches /\ SoundData' /\ EntriesOK' /\ FetchOK' /\ ScreenOK'
    <3>1. fetching' \in Fetches /\ fetching'.at = "sent" /\ fetching'.brings = {} /\ fetching'.revert = entry'
      BY <1>1, <1>10, <2>1, <2>2, StartedFetch
    <3>2. SoundData' /\ EntriesOK'
      BY <1>1, <2>1, <3>1 DEF IInv, CacheInv, SoundData, Sound, EntriesOK, EntryOK
    <3>3. FetchOK' /\ ScreenOK'
      BY <1>1, <2>2, <3>1 DEF FetchOK, ScreenOK
    <3> QED
      BY <3>1, <3>2, <3>3
  <2>3. ASSUME ~(mounted /\ fetching.at = "none")
        PROVE  fetching' \in Fetches /\ SoundData' /\ EntriesOK' /\ FetchOK' /\ ScreenOK'
    <3>1. fetching' = [fetching EXCEPT !.revert.late = fetching.at # "none"]
      BY <1>1, <1>10, <2>3
    <3>2. /\ fetching' \in Fetches /\ fetching'.at = fetching.at /\ fetching'.brings = fetching.brings
          /\ fetching'.late = fetching.late /\ fetching'.revert.data = fetching.revert.data
          /\ fetching.at # "none" => fetching'.revert.late
      <4> DEFINE late == fetching.at # "none"
                 revert == [fetching.revert EXCEPT !.late = late]
      <4>1. fetching' = [fetching EXCEPT !.revert = revert]
        BY <3>1
      <4>2. late \in BOOLEAN
        OBVIOUS
      <4>3. fetching.at # "none" => late = TRUE
        OBVIOUS
      <4> HIDE DEF late
      <4>4. revert \in Entries /\ revert.data = fetching.revert.data /\ revert.late = late
        BY <1>3, <4>2 DEF CacheTypes, Fetches, Entries
      <4> HIDE DEF revert
      <4>5. /\ fetching' \in Fetches /\ fetching'.at = fetching.at /\ fetching'.brings = fetching.brings
            /\ fetching'.late = fetching.late /\ fetching'.revert = revert
        BY <1>3, <4>1, <4>4 DEF CacheTypes, Fetches
      <4> QED
        BY <4>3, <4>4, <4>5
    <3>3. SoundData'
      BY <1>1, <2>1, <3>2 DEF IInv, CacheInv, SoundData, Sound
    <3>4. EntriesOK'
      BY <2>1, <3>2 DEF EntriesOK, EntryOK
    <3>5. FetchOK' /\ ScreenOK'
      BY <1>1, <1>4, <1>5, <2>3, <3>2 DEF IInv, CacheInv, FetchOK, ScreenOK
    <3> QED
      BY <3>2, <3>3, <3>4, <3>5
  <2>4. ForgottenIsGone'
    BY <1>1, <2>1 DEF IInv, CacheInv, ForgottenIsGone, Called
  <2>5. Types'
    BY <1>1, <1>4, <2>1, <2>2, <2>3 DEF IInv, CallsInv, Types
  <2> QED
    BY <1>4, <1>8, <1>9, <2>2, <2>3, <2>4, <2>5 DEF IInv, CallsInv, CacheInv
<1>11. CASE ~refresh[c].ran
  <2>1. entry' = entry /\ fetching' = fetching
    BY <1>1, <1>11
  <2>2. Owed \subseteq Owed' /\ Awaited \subseteq Awaited'
    BY <1>4, <1>5, <1>11
  <2>3. SoundData' /\ EntriesOK'
    BY <1>1, <2>1, <2>2 DEF IInv, CacheInv, SoundData, Sound, EntriesOK, EntryOK
  <2>4. FetchOK' /\ ScreenOK'
    BY <1>1, <1>7, <2>1, <2>2 DEF IInv, CacheInv, FetchOK, ScreenOK
  <2>5. ForgottenIsGone'
    BY <1>1, <2>1 DEF IInv, CacheInv, ForgottenIsGone, Called
  <2>6. Types'
    BY <1>1, <1>4, <2>1 DEF IInv, CallsInv, Types
  <2> QED
    BY <1>4, <1>8, <1>9, <2>3, <2>4, <2>5, <2>6 DEF IInv, CallsInv, CacheInv
<1> QED
  BY <1>10, <1>11

(* What an answer puts into the cache is not newer than the server; only what is merged
   into data that is there keeps it. *)
LEMMA WrittenEntry ==
  ASSUME IInv, NEW c \in Calls, call[c].at = "answered"
  PROVE  /\ Written(c) \in Entries /\ Sound(Written(c).data)
         /\ call[c].is.sets => /\ Written(c).data = call[c].shows /\ ~Written(c).late
                               /\ Written(c).data # Absent
         /\ ~call[c].is.sets => (Written(c).data = Absent <=> entry.data = Absent)
         /\ ~call[c].is.sets /\ ~call[c].is.patches => Written(c) = entry
<1> DEFINE is == call[c].is
<1>1. is \in Effects /\ call[c].shows \in SUBSET Calls /\ call[c].shows \subseteq committed
  BY CallTypes DEF IInv, CallsInv, CommitsOK
<1>2. entry \in Entries /\ NoEntry \in Entries /\ (entry.data # Absent => entry.data \in SUBSET Calls)
  BY CacheTypesOf DEF IInv, CallsInv, CacheTypes
<1>3. Sound(entry.data)
  BY DEF IInv, CacheInv, SoundData
<1>4. is.patches => c \in committed
  <2>1. WriteOK(is, call[c].others)
    BY DEF IInv, CallsInv, WritesOK, OnItsWay
  <2> QED
    BY <2>1 DEF WriteOK, IInv, CallsInv, CommitsOK
<1>5. CASE is.sets
  <2>1. Written(c) = [NoEntry EXCEPT !.data = call[c].shows]
    BY <1>5 DEF Written
  <2>2. Written(c) \in Entries /\ Written(c).data = call[c].shows /\ Written(c).late = FALSE
    BY <1>1, <2>1 DEF NoEntry, Entries
  <2> QED
    BY <1>1, <1>5, <2>2, QueriesAssumption DEF Sound
<1>6. CASE ~is.sets /\ is.patches /\ entry.data # Absent
  <2>1. Written(c) = [entry EXCEPT !.data = entry.data \cup {c}, !.marked = FALSE, !.failed = FALSE]
    BY <1>6 DEF Written
  <2>2. entry.data \cup {c} \in SUBSET Calls
    BY <1>2, <1>6
  <2>3. Written(c) \in Entries /\ Written(c).data = entry.data \cup {c}
    BY <1>2, <2>1, <2>2 DEF Entries
  <2>4. Written(c).data # Absent
    BY <2>2, <2>3, QueriesAssumption
  <2> QED
    BY <1>3, <1>4, <1>6, <2>3, <2>4 DEF Sound
<1>7. CASE ~is.sets /\ ~(is.patches /\ entry.data # Absent)
  <2>1. Written(c) = entry
    BY <1>7 DEF Written
  <2> QED
    BY <1>2, <1>3, <1>7, <2>1
<1> QED
  BY <1>5, <1>6, <1>7

(* A fetch that a write leaves alone is late. *)
LEMMA LeftFetch ==
  ASSUME IInv
  PROVE  /\ Left \in Fetches /\ Left.at = fetching.at /\ Left.brings = fetching.brings
         /\ Left.revert.data = fetching.revert.data
         /\ fetching.at # "none" => Left.late /\ Left.revert.late
<1>1. fetching \in Fetches
  BY DEF IInv, CallsInv, Types
<1>2. CASE fetching.at = "none"
  BY <1>1, <1>2 DEF Left
<1>3. CASE fetching.at # "none"
  <2> DEFINE revert == [fetching.revert EXCEPT !.late = TRUE]
  <2>1. fetching.revert \in Entries
    BY <1>1 DEF Fetches
  <2>2. revert \in Entries /\ revert.data = fetching.revert.data /\ revert.late = TRUE
    BY <2>1 DEF Entries
  <2>3. Left = [fetching EXCEPT !.late = TRUE, !.revert = revert]
    BY <1>1, <1>3 DEF Left, Fetches
  <2> HIDE DEF revert
  <2>4. /\ Left \in Fetches /\ Left.at = fetching.at /\ Left.brings = fetching.brings
        /\ Left.late = TRUE /\ Left.revert = revert
    BY <1>1, <2>2, <2>3 DEF Fetches
  <2> QED
    BY <2>2, <2>4
<1> QED
  BY <1>2, <1>3

LEMMA SucceedInv ==
  ASSUME IInv, NEW c \in Calls, Succeed(c)
  PROVE  IInv'
<1> DEFINE is == call[c].is
           others == call[c].others
<1>1. /\ call' \in [Calls -> CallStates] /\ refresh' \in [Calls -> RefreshStates]
      /\ query' = query /\ mounted' = mounted /\ committed' = committed
      /\ call[c].at = "answered" /\ call'[c].at = "done" /\ call'[c].is = is
      /\ \A d \in Calls : d # c => call'[d] = call[d]
      /\ WritesOK' /\ CommitsOK' /\ Alone' /\ RefreshesOK'
      /\ Owed \ {c} \subseteq Owed'
      /\ GivenUpHere' <=> GivenUpHere
  BY SucceedCalls DEF IInv
<1>2. OnItsWay(c) /\ WriteOK(is, others)
  BY <1>1 DEF OnItsWay, IInv, CallsInv, WritesOK
<1>3. CacheTypes /\ NoEntry \in Entries /\ NoFetch \in Fetches
  BY CacheTypesOf DEF IInv, CallsInv
<1>4. OfHere' <=> OfHere
  BY <1>1 DEF OfHere
<1>5. NewProjectOK'
  BY <1>1, <1>2 DEF IInv, CallsInv, Alone, NewProjectOK, OnItsWay
<1>6. /\ \/ is.forgets /\ OfHere /\ DropQuery
         \/ is.removes /\ ~is.forgets /\ RemoveQuery
         \/ /\ ~is.removes /\ ~(is.forgets /\ OfHere) /\ forgotten' = forgotten
            /\ \/ is.stale /\ Invalidate(Written(c))
               \/ ~is.stale /\ entry' = Written(c) /\ fetching' = Left
  BY DEF Succeed
<1>7. forgotten' = forgotten => ForgottenOK'
  <2>1. (\E d \in Calls : call[d].at = "done") => \E d \in Calls : call'[d].at = "done"
    BY <1>1
  <2> QED
    BY <1>4, <2>1 DEF IInv, CacheInv, ForgottenOK
<1>8. SUFFICES CacheTypes' /\ SoundData' /\ EntriesOK' /\ FetchOK' /\ ScreenOK' /\ ForgottenOK'
               /\ ForgottenIsGone'
  BY <1>1, <1>5 DEF IInv, CallsInv, CacheInv, Types, CacheTypes
<1>9. \A d \in Calls : call[d].at = "done" => call'[d] = call[d]
  BY <1>1
<1> HIDE DEF Owed, Awaited, is, others
<1>10. NoEntry.data = Absent /\ NoFetch.at = "none" /\ NoFetch.brings = {} /\ NoFetch.revert.data = Absent
  BY DEF NoEntry, NoFetch
<1>11. CASE is.forgets /\ OfHere /\ DropQuery
  <2>1. /\ fetching' = NoFetch /\ forgotten' = TRUE
        /\ \/ ~mounted /\ entry' = NoEntry
           \/ mounted /\ fetching.at = "none" /\ entry' = [entry EXCEPT !.marked = TRUE]
           \/ mounted /\ fetching.at # "none" /\ entry' = [fetching.revert EXCEPT !.marked = TRUE]
    BY <1>3, <1>11 DEF DropQuery, CacheTypes
  <2>2. /\ entry' \in Entries
        /\ \/ ~mounted /\ entry'.data = Absent
           \/ mounted /\ entry'.marked /\ entry'.data = entry.data
           \/ mounted /\ entry'.marked /\ entry'.data = fetching.revert.data
    BY <1>3, <1>10, <2>1 DEF CacheTypes, Entries, Fetches
  <2>3. CacheTypes'
    BY <1>1, <1>3, <2>1, <2>2 DEF CacheTypes
  <2>4. SoundData'
    BY <1>1, <1>10, <2>1, <2>2 DEF IInv, CacheInv, SoundData, Sound
  <2>5. EntriesOK' /\ FetchOK'
    BY <1>10, <2>1, <2>2 DEF EntriesOK, EntryOK, FetchOK
  <2>6. GivenUpHere
    BY <1>1, <1>11 DEF GivenUpHere, GivenUp, Called, is
  <2>7. ScreenOK'
    BY <1>1, <2>6 DEF ScreenOK
  <2>8. ForgottenOK'
    BY <1>1, <1>4, <1>11 DEF ForgottenOK
  <2>9. ForgottenIsGone'
    BY <1>1, <2>2 DEF ForgottenIsGone
  <2> QED
    BY <2>3, <2>4, <2>5, <2>7, <2>8, <2>9
<1>12. CASE is.removes /\ ~is.forgets /\ RemoveQuery
  <2>1. /\ entry' = NoEntry /\ forgotten' = forgotten
        /\ \/ mounted /\ fetching' = Started(NoEntry)
           \/ ~mounted /\ fetching' = NoFetch
    BY <1>3, <1>12 DEF RemoveQuery, CacheTypes
  <2>2. /\ fetching' \in Fetches /\ fetching'.brings = {} /\ fetching'.revert.data = Absent
        /\ \/ mounted /\ fetching'.at = "sent"
           \/ ~mounted /\ fetching'.at = "none"
    BY <1>3, <1>10, <2>1, StartedFetch
  <2>3. CacheTypes'
    BY <1>1, <1>3, <2>1, <2>2 DEF CacheTypes
  <2>4. SoundData' /\ EntriesOK'
    BY <1>10, <2>1, <2>2 DEF SoundData, Sound, EntriesOK, EntryOK
  <2>5. FetchOK' /\ ScreenOK'
    BY <1>1, <2>2 DEF FetchOK, ScreenOK
  <2>6. ForgottenIsGone'
    BY <1>10, <2>1 DEF ForgottenIsGone
  <2> QED
    BY <1>7, <2>1, <2>3, <2>4, <2>5, <2>6
<1>13. /\ Written(c) \in Entries /\ Sound(Written(c).data)
       /\ is.sets => /\ Written(c).data = call[c].shows /\ ~Written(c).late
                     /\ Written(c).data # Absent
       /\ ~is.sets => (Written(c).data = Absent <=> entry.data = Absent)
       /\ ~is.sets /\ ~is.patches => Written(c) = entry
  BY <1>1, WrittenEntry DEF is
<1>14. /\ Left \in Fetches /\ Left.at = fetching.at /\ Left.brings = fetching.brings
       /\ Left.revert.data = fetching.revert.data
       /\ fetching.at # "none" => Left.late /\ Left.revert.late
  BY LeftFetch
<1> HIDE DEF Written, Left
<1>15. CASE is.stale /\ Invalidate(Written(c)) /\ forgotten' = forgotten
  <2>1. /\ entry' = [Written(c) EXCEPT !.marked = TRUE]
        /\ \/ mounted /\ fetching' = Started(entry')
           \/ ~(mounted /\ fetching.at = "none") /\ fetching' = Left
    BY <1>15 DEF Invalidate
  <2>2. entry' \in Entries /\ entry'.marked /\ entry'.data = Written(c).data
    BY <1>13, <2>1 DEF Entries
  <2>3. \/ /\ mounted /\ fetching' \in Fetches /\ fetching'.at = "sent" /\ fetching'.brings = {}
           /\ fetching'.revert = entry'
        \/ ~(mounted /\ fetching.at = "none") /\ fetching' = Left
    BY <2>1, <2>2, StartedFetch
  <2>4. CacheTypes'
    BY <1>1, <1>3, <1>14, <1>15, <2>2, <2>3 DEF CacheTypes
  <2>5. SoundData'
    BY <1>1, <1>13, <1>14, <2>2, <2>3 DEF IInv, CacheInv, SoundData, Sound
  <2>6. EntriesOK'
    BY <1>14, <2>2, <2>3 DEF EntriesOK, EntryOK
  <2>7. FetchOK' /\ ScreenOK'
    BY <1>1, <1>14, <2>3 DEF IInv, CacheInv, FetchOK, ScreenOK
  <2>8. ForgottenIsGone'
    <3> SUFFICES ASSUME forgotten, ~mounted, entry'.data # Absent
                 PROVE  \E d \in Calls : call'[d].at = "done" /\ call'[d].is.sets
      BY <1>1, <1>15, <2>2 DEF ForgottenIsGone, Called
    <3>1. CASE is.sets
      BY <1>1, <3>1
    <3>2. CASE ~is.sets
      <4>1. entry.data # Absent
        BY <1>13, <2>2, <3>2
      <4>2. PICK d \in Calls : call[d].at = "done" /\ call[d].is.sets
        BY <4>1 DEF IInv, CacheInv, ForgottenIsGone, Called
      <4> QED
        BY <1>9, <4>2
    <3> QED
      BY <3>1, <3>2
  <2> QED
    BY <1>7, <1>15, <2>4, <2>5, <2>6, <2>7, <2>8
<1>16. CASE /\ ~is.stale /\ entry' = Written(c) /\ fetching' = Left /\ ~is.removes
            /\ ~(is.forgets /\ OfHere) /\ forgotten' = forgotten
  <2>1. CacheTypes'
    BY <1>1, <1>3, <1>13, <1>14, <1>16 DEF CacheTypes
  <2>2. SoundData'
    BY <1>1, <1>13, <1>14, <1>16 DEF IInv, CacheInv, SoundData, Sound
  <2>3. fetching'.at # "none" => EntryOK(fetching.revert)' /\ fetching'.late
    BY <1>14, <1>16 DEF EntryOK
  <2>4. FetchOK'
    BY <1>1, <1>14, <1>16, <2>3 DEF IInv, CacheInv, FetchOK
  <2>5. ~is.patches
    BY <1>2, <1>16 DEF WriteOK
  <2>6. CASE is.sets
    <3>1. entry'.data = committed' /\ entry'.data # Absent
      BY <1>1, <1>13, <1>16, <2>6 DEF IInv, CallsInv, CommitsOK, is
    <3>2. EntriesOK' /\ ScreenOK'
      BY <2>3, <3>1 DEF EntriesOK, EntryOK, ScreenOK
    <3>3. ~forgotten
      <4> SUFFICES ASSUME forgotten PROVE FALSE
        OBVIOUS
      <4>1. PICK d \in Calls : OfHere /\ call[d].at = "done"
        BY DEF IInv, CacheInv, ForgottenOK
      <4>2. ~others
        BY <1>2, <1>16, <2>6, <4>1 DEF WriteOK
      <4> QED
        BY <1>1, <1>2, <4>1, <4>2 DEF IInv, CallsInv, Alone, others
    <3>4. ForgottenIsGone'
      BY <1>16, <3>3 DEF ForgottenIsGone
    <3> QED
      BY <1>7, <1>16, <2>1, <2>2, <2>4, <3>2, <3>4
  <2>7. CASE ~is.sets
    <3>1. entry' = entry
      BY <1>13, <1>16, <2>5, <2>7
    <3>2. ForgottenIsGone'
      BY <1>1, <1>9, <1>16, <3>1 DEF IInv, CacheInv, ForgottenIsGone, Called
    <3>3. CASE ~is.changes
      <4>1. c \notin committed
        BY <1>1, <3>3 DEF IInv, CallsInv, CommitsOK, is
      <4>2. committed \cap Owed \subseteq Owed'
        BY <1>1, <4>1
      <4>3. EntriesOK' /\ ScreenOK'
        BY <1>1, <1>14, <1>16, <2>3, <3>1, <4>2 DEF IInv, CacheInv, EntriesOK, EntryOK, ScreenOK
      <4> QED
        BY <1>7, <1>16, <2>1, <2>2, <2>4, <3>2, <4>3
    <3>4. CASE is.changes
      <4>1. ~others /\ OfHere
        BY <1>2, <1>16, <2>7, <3>4 DEF WriteOK
      <4>2. entry.data = Absent \/ committed \subseteq entry.data
        BY <1>2, <4>1 DEF IInv, CacheInv, NewProjectOK, Fresh, others
      <4>3. EntriesOK' /\ ScreenOK'
        BY <1>1, <1>14, <1>16, <2>3, <3>1, <4>2 DEF IInv, CacheInv, EntriesOK, EntryOK, ScreenOK
      <4> QED
        BY <1>7, <1>16, <2>1, <2>2, <2>4, <3>2, <4>3
    <3> QED
      BY <3>3, <3>4
  <2> QED
    BY <2>6, <2>7
<1> QED
  BY <1>6, <1>11, <1>12, <1>15, <1>16

(***************************************************************************)
(* The theorems                                                            *)
(***************************************************************************)

LEMMA InitInv == Init => IInv
<1> SUFFICES ASSUME Init PROVE IInv
  OBVIOUS
<1>1. /\ query \in Queries /\ mounted = FALSE /\ entry = NoEntry /\ fetching = NoFetch
      /\ committed = {} /\ forgotten = FALSE
      /\ call = [c \in Calls |-> [at |-> "unused"]]
      /\ refresh = [c \in Calls |-> [at |-> "none"]]
  BY DEF Init
<1>2. /\ NoEntry \in Entries /\ NoEntry.data = Absent
      /\ NoFetch \in Fetches /\ NoFetch.at = "none" /\ NoFetch.brings = {} /\ NoFetch.revert.data = Absent
  BY DEF NoEntry, NoFetch, Entries, Fetches
<1>3. [at |-> "unused"] \in CallStates /\ [at |-> "none"] \in RefreshStates
  BY DEF CallStates, RefreshStates
<1>4. Types
  BY <1>1, <1>2, <1>3 DEF Types
<1>5. \A c \in Calls : call[c].at = "unused" /\ refresh[c].at = "none"
  BY <1>1
<1>6. WritesOK /\ CommitsOK /\ Alone /\ RefreshesOK
  BY <1>1, <1>5 DEF WritesOK, CommitsOK, Alone, RefreshesOK, OnItsWay
<1>7. SoundData /\ EntriesOK /\ FetchOK /\ ScreenOK
  BY <1>1, <1>2 DEF SoundData, Sound, EntriesOK, EntryOK, FetchOK, ScreenOK
<1>8. NewProjectOK /\ ForgottenOK /\ ForgottenIsGone
  BY <1>1, <1>5 DEF NewProjectOK, OnItsWay, ForgottenOK, ForgottenIsGone
<1> QED
  BY <1>4, <1>6, <1>7, <1>8 DEF IInv, CallsInv, CacheInv

LEMMA StepInv == IInv /\ [Next]_vars => IInv'
<1> SUFFICES ASSUME IInv, [Next]_vars PROVE IInv'
  OBVIOUS
<1>1. ASSUME NEW c \in Calls, Send(c) PROVE IInv'
  BY <1>1, SendInv
<1>2. ASSUME NEW c \in Calls, Commit(c) PROVE IInv'
  BY <1>2, CommitInv
<1>3. ASSUME NEW c \in Calls, Succeed(c) PROVE IInv'
  BY <1>3, SucceedInv
<1>4. ASSUME NEW c \in Calls, ForeignCommit(c) PROVE IInv'
  BY <1>4, ForeignCommitInv
<1>5. ASSUME NEW c \in Calls, Refresh(c) PROVE IInv'
  BY <1>5, RefreshInv
<1>6. ASSUME NEW c \in Calls, RefreshAgain(c) PROVE IInv'
  BY <1>6, RefreshAgainInv
<1>7. CASE UNCHANGED vars
  <2>1. Calm /\ UNCHANGED <<mounted, entry, fetching, forgotten, refresh>>
    BY <1>7 DEF vars, Calm
  <2>2. CacheTypes'
    BY <2>1, CacheTypesOf DEF CacheTypes, IInv, CallsInv
  <2> HIDE DEF Owed, Awaited
  <2>3. SoundData' /\ EntriesOK' /\ FetchOK' /\ ScreenOK'
    BY <2>1, CalmFacts DEF IInv, CacheInv, SoundData, Sound, EntriesOK, EntryOK, FetchOK, ScreenOK
  <2>4. NewProjectOK' /\ ForgottenOK' /\ ForgottenIsGone'
    BY <2>1, CalmFacts DEF IInv, CacheInv, NewProjectOK, Fresh, OnItsWay, ForgottenOK,
                           ForgottenIsGone, Called
  <2> QED
    BY <2>1, <2>2, <2>3, <2>4, CalmInv DEF CacheInv
<1> QED
  BY <1>1, <1>2, <1>3, <1>4, <1>5, <1>6, <1>7, MountInv, RefocusInv, UnmountInv, CollectInv,
     ServeInv, ArriveInv, FetchFailsInv DEF Next

THEOREM Invariant == Spec => []IInv
BY InitInv, StepInv, PTL DEF Spec

(* Nothing in the cache is newer than the server (Serve, onSuccess of every mutation), and
   a project given up leaves nothing to show (forgetProject). *)
THEOREM CacheIsAlwaysSound == Spec => []CacheIsSound
<1>1. IInv => CacheIsSound
  <2> SUFFICES ASSUME IInv PROVE CacheIsSound
    OBVIOUS
  <2>1. entry \in Entries /\ fetching \in Fetches
    BY DEF IInv, CallsInv, Types
  <2>2. /\ entry.marked \in BOOLEAN /\ entry.failed \in BOOLEAN
        /\ fetching.at \in {"none", "sent", "answered", "refused"}
    BY <2>1 DEF Entries, Fetches
  <2>3. TypeOK
    BY <2>2 DEF IInv, CallsInv, Types, CacheInv, SoundData, Sound, TypeOK
  <2> QED
    BY <2>3 DEF IInv, CacheInv, CacheIsSound
<1> QED
  BY <1>1, Invariant, PTL

(* Nothing is owed when nothing is under way. *)
LEMMA QuietOwesNothing == Quiet => Owed = {}
BY DEF Quiet, Called, Owed, Awaited

(* An entry not marked as stale, which is shown again without a fetch, is what the server
   holds once nothing is under way (invalidateProject, refreshProject). *)
THEOREM UnmarkedIsAlwaysCurrent == Spec => []UnmarkedIsCurrent
<1>1. IInv => UnmarkedIsCurrent
  <2> SUFFICES ASSUME IInv, Quiet, entry.data # Absent, ~entry.marked
               PROVE  entry.late \/ entry.data = committed
    BY DEF UnmarkedIsCurrent
  <2>1. entry.late \/ committed \subseteq entry.data \cup Owed
    BY DEF IInv, CacheInv, EntriesOK, EntryOK
  <2>2. Owed = {} /\ entry.data \subseteq committed
    BY QuietOwesNothing DEF IInv, CacheInv, SoundData, Sound
  <2> HIDE DEF Owed
  <2> QED
    BY <2>1, <2>2
<1> QED
  BY <1>1, Invariant, PTL

(* What is on the screen is what the server holds once nothing is under way: no mutation
   refreshes too little (staleQueries), no late answer puts an older state back, and no
   refetch is lost. *)
THEOREM ScreenIsAlwaysCurrent == Spec => []ScreenIsCurrent
<1>1. IInv => ScreenIsCurrent
  <2> SUFFICES ASSUME IInv, Quiet, mounted, ~Missing
               PROVE  entry.failed \/ entry.late \/ entry.data = committed
    BY DEF ScreenIsCurrent
  <2>1. ~GivenUpHere /\ fetching.at = "none"
    BY DEF Missing, GivenUpHere, Quiet
  <2>2. \/ entry.failed \/ entry.late
        \/ entry.data # Absent /\ committed \subseteq entry.data \cup Owed
    BY <2>1 DEF IInv, CacheInv, ScreenOK
  <2>3. Owed = {} /\ (entry.data # Absent => entry.data \subseteq committed)
    BY QuietOwesNothing DEF IInv, CacheInv, SoundData, Sound
  <2> HIDE DEF Owed
  <2> QED
    BY <2>2, <2>3
<1> QED
  BY <1>1, Invariant, PTL

=============================================================================
