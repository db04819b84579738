------------------------------- MODULE Session -------------------------------
(***************************************************************************)
(* The browser's session: the token in localStorage that every tab of the  *)
(* browser shares (api/client.ts), the copy each page keeps of it, the     *)
(* token and the cached data each tab shows (auth/AuthProvider.tsx), the   *)
(* requests under way, and the accounts at the server that issue and       *)
(* revoke tokens (service/auth.go). Requests are delayed and lost, storage *)
(* refuses writes, and pages are reloaded at any point.                    *)
(***************************************************************************)
EXTENDS Naturals, FiniteSets

CONSTANTS Tabs,             \* the tabs of one browser
          Users,            \* accounts that may sign in here
          Slots,            \* bound: requests under way at once
          Kinds,            \* bound: the kinds of requests each tab makes
          NoToken,          \* null
          Unset,            \* undefined
          Readable,         \* whether the site may use localStorage
          MaxTokens,        \* bound: tokens issued
          MaxFaults         \* bound: writes storage refuses, losses, expiries, reloads

ASSUME SessionAssumption ==
  /\ Readable \in BOOLEAN
  /\ MaxTokens \in Nat
  /\ MaxFaults \in Nat
  /\ NoToken \notin [id : Nat, user : Users, version : Nat]
  /\ Unset \notin [id : Nat, user : Users, version : Nat] \cup {NoToken}

VARIABLES version,   \* users.token_version
          issued,    \* how many tokens were issued
          dead,      \* tokens past their expiry time
          stored,    \* localStorage['gb-token']
          faults,    \* how many of those there were
          pending,   \* tabs with a storage event not yet handled
          tab,       \* what each page holds
          requests,  \* the requests under way
          overtaken  \* history: an answer came after the session it was made in

server == <<version, issued, dead>>
storage == <<stored, faults, pending>>
vars == <<version, issued, dead, stored, faults, pending, tab, requests, overtaken>>

Tokens == [id : Nat, user : Users, version : Nat]
Changes == {"name", "password"}          \* PATCH /auth/me
Idle == [kind |-> "idle"]

(***************************************************************************)
(* A page: its copy of the token and what storage held when a write of it  *)
(* failed (client.ts), the token React shows, whether endedBy says the     *)
(* session expired (that it was signed out, or nothing, are one: "other"), *)
(* whose data the query cache holds.                                       *)
(***************************************************************************)
Pages == [page : Tokens \cup {NoToken}, unsaved : Tokens \cup {NoToken, Unset},
          token : Tokens \cup {NoToken}, ended : {"expired", "other"},
          cache : SUBSET Users]

NewPage(token) == [page |-> token, unsaved |-> Unset, token |-> token, ended |-> "other",
                   cache |-> {}]

Init ==
  /\ version = [u \in Users |-> 0]
  /\ issued = 0
  /\ dead = {}
  /\ stored = NoToken
  /\ faults = 0
  /\ pending = {}
  /\ tab = [t \in Tabs |-> NewPage(NoToken)]
  /\ requests = [s \in Slots |-> Idle]
  /\ overtaken = FALSE

-----------------------------------------------------------------------------
(* Mutant: what storage holds always wins, also over a write it refused. *)
ReadStorage(p) == IF Readable THEN [p EXCEPT !.page = stored, !.unsaved = Unset] ELSE p

(* tokenStorage: get() follows storage unless it still holds what it held when this
   page's last write failed; what it reads it remembers. *)
ReadToken(p) == IF Readable /\ stored # p.unsaved
                THEN [p EXCEPT !.page = stored, !.unsaved = Unset]
                ELSE p

(* tokenStorage.set and clear. A full storage refuses a token but not a removal; a
   blocked one refuses everything. The other tabs are told when the value changes. *)
StoreToken(t, p, token) ==
  \E ok \in BOOLEAN :
    /\ ok => Readable
    /\ ~ok /\ Readable => token # NoToken /\ faults < MaxFaults
    /\ stored' = IF ok THEN token ELSE stored
    /\ faults' = IF ok \/ ~Readable THEN faults ELSE faults + 1
    /\ pending' = IF ok /\ token # stored THEN pending \cup (Tabs \ {t}) ELSE pending
    /\ tab' = [tab EXCEPT ![t] = [p EXCEPT !.page = token,
                                           !.unsaved = IF ok \/ ~Readable THEN Unset ELSE stored]]

(* Mutant: the reads in flight are not aborted. *)
AbortedNone(t) == requests

(* qc.clear(): the queries go, and the reads in flight for them are aborted; one that
   waits for a session change goes on without anyone to take its answer. *)
Aborted(t) ==
  [s \in Slots |-> IF requests[s].kind # "read" \/ requests[s].tab # t THEN requests[s]
                   ELSE IF requests[s].state = "waiting" THEN [requests[s] EXCEPT !.live = FALSE]
                   ELSE Idle]

(* A settled request frees its slot and whoever waited for it. *)
Settled(rs, s) ==
  [x \in Slots |-> IF x = s THEN Idle
                   ELSE IF rs[x].kind = "idle" THEN Idle
                   ELSE [rs[x] EXCEPT !.waits = @ \ {s}]]

SignedOut(p, why) == [p EXCEPT !.token = NoToken, !.ended = why, !.cache = {}]

SignedIn(p, token) == [p EXCEPT !.token = token, !.ended = "other", !.cache = {token.user}]

(* The session changes in flight on a page (sessionChanges). *)
SessionChanges(t) == {s \in Slots : /\ requests[s].kind \in Changes
                                    /\ requests[s].tab = t
                                    /\ requests[s].live}

(* Whoever a settled change woke goes on before the page takes its next task. *)
Ready(t) == \A s \in Slots : requests[s].kind # "idle" =>
  ~(requests[s].tab = t /\ requests[s].state = "waiting" /\ requests[s].waits = {})

-----------------------------------------------------------------------------
(* RequireAuth, GuestOnly: a signed-out tab shows the login and register pages, and them
   only. *)
OnItsPage(t, kind) == kind = "login" <=> tab[t].token = NoToken

(* request(): a page sends with the token it reads at that moment. *)
Send(t, s, kind, user) ==
  /\ requests[s] = Idle /\ Ready(t)
  /\ kind \in Kinds[t]
  /\ OnItsPage(t, kind)
  /\ LET p == ReadToken(tab[t])
     IN  /\ tab' = [tab EXCEPT ![t] = p]
         /\ requests' = [requests EXCEPT ![s] =
              [kind |-> kind, tab |-> t, user |-> user, token |-> p.page, state |-> "sent",
               result |-> "none", fresh |-> NoToken, retried |-> FALSE, live |-> TRUE,
               waits |-> {}]]
  /\ UNCHANGED <<server, storage>>

Accepted(token) == token # NoToken /\ token \notin dead /\ token.version = version[token.user]

Answer(s, result, token) ==
  requests' = [requests EXCEPT ![s].state = "answered", ![s].result = result, ![s].fresh = token]

(* The server's first look at a request: authentication, and of a PATCH also the checks
   that come before its UPDATE (a wrong current password is refused). *)
Serve(s) ==
  /\ requests[s].kind # "idle"
  /\ requests[s].state = "sent"
  /\ LET r == requests[s]
         ok == Accepted(r.token)
     IN  CASE r.kind = "login" ->
                \/ /\ issued < MaxTokens
                   /\ issued' = issued + 1
                   /\ Answer(s, "ok", [id |-> issued + 1, user |-> r.user, version |-> version[r.user]])
                \/ issued = MaxTokens /\ UNCHANGED issued /\ Answer(s, "failed", NoToken)
           [] r.kind \in {"read", "write"} ->
                UNCHANGED issued /\ Answer(s, IF ok THEN "ok" ELSE "denied", NoToken)
           [] r.kind \in Changes /\ ~ok -> UNCHANGED issued /\ Answer(s, "denied", NoToken)
           [] r.kind \in Changes /\ ok ->
                /\ UNCHANGED issued
                /\ \/ requests' = [requests EXCEPT ![s].state = "checked"]
                   \/ Answer(s, "failed", NoToken)
  /\ UNCHANGED <<version, dead, storage, tab>>

(* Mutant: the UPDATE goes by the user's id alone. *)
UnrevokedAtCheck(r) == TRUE

(* UpdateUser ... WHERE token_version: only the version the caller's token has may be
   replaced. A password change starts a new one; a new name answers with the token it
   came with. *)
Unrevoked(r) == version[r.token.user] = r.token.version

Commit(s) ==
  /\ requests[s].kind # "idle"
  /\ requests[s].state = "checked"
  /\ LET r == requests[s]
         u == r.token.user
     IN  \/ /\ Unrevoked(r)
            /\ r.kind = "password"
            /\ issued < MaxTokens
            /\ issued' = issued + 1
            /\ version' = [version EXCEPT ![u] = @ + 1]
            /\ Answer(s, "ok", [id |-> issued + 1, user |-> u, version |-> version[u] + 1])
         \/ /\ Unrevoked(r)
            /\ r.kind = "name"
            /\ Answer(s, "ok", r.token)
            /\ UNCHANGED <<version, issued>>
         \/ /\ ~Unrevoked(r) \/ (r.kind = "password" /\ issued >= MaxTokens)
            /\ Answer(s, IF r.kind = "name" THEN "denied" ELSE "failed", NoToken)
            /\ UNCHANGED <<version, issued>>
  /\ UNCHANGED <<dead, storage, tab>>

Fault == faults < MaxFaults /\ faults' = faults + 1

(* The network loses a session change or its answer. (Losing another request only frees
   its slot: nothing that matters here is changed by it.) *)
Lose(s) ==
  /\ requests[s].kind \in Changes
  /\ requests[s].state = "sent" \/ (requests[s].state = "answered" /\ requests[s].result # "failed")
  /\ Fault
  /\ Answer(s, "failed", NoToken)
  /\ UNCHANGED <<server, stored, pending, tab>>

(* A token's time runs out. *)
Expire ==
  /\ stored # NoToken /\ stored \notin dead
  /\ dead' = dead \cup {stored}
  /\ Fault
  /\ UNCHANGED <<version, issued, stored, pending, tab, requests>>

-----------------------------------------------------------------------------
Drop(s) ==
  /\ requests' = Settled(requests, s)
  /\ UNCHANGED <<server, storage, tab>>

(* A good answer: a read is cached, a sign-in starts the session over, and a session
   change switches the session to the token it brought. *)
DeliverOk(s) ==
  LET r == requests[s]
      p == tab[r.tab]
  IN  /\ r.result = "ok" /\ r.live
      /\ UNCHANGED server
      /\ CASE r.kind \in {"read", "write"} ->
                /\ tab' = [tab EXCEPT ![r.tab].cache = @ \cup {r.token.user}]
                /\ requests' = Settled(requests, s)
                /\ UNCHANGED storage
           [] r.kind = "login" ->
                /\ StoreToken(r.tab, SignedIn(p, r.fresh), r.fresh)
                /\ requests' = Settled(Aborted(r.tab), s)
           [] r.kind \in Changes ->
                /\ StoreToken(r.tab,
                     [p EXCEPT !.token = r.fresh, !.cache = @ \cup {r.fresh.user}], r.fresh)
                /\ requests' = Settled(requests, s)

(* The session of the tab is over: the token it was refused for is the current one. *)
EndSession(s, p) ==
  /\ StoreToken(requests[s].tab, SignedOut(p, "expired"), NoToken)
  /\ requests' = Settled(Aborted(requests[s].tab), s)
  /\ UNCHANGED server

(* Mutant: any 401 ends the session. *)
UnauthorizedAlways(s, p) == EndSession(s, p)

(* What a 401 leads to, given the page as it is after reading the token again. *)
Unauthorized(s, p) ==
  LET r == requests[s]
      again == p.page # r.token /\ p.page # NoToken /\ ~r.retried /\ r.live
  IN  \/ /\ p.page = r.token
         /\ EndSession(s, p)
      \/ /\ again
         /\ tab' = [tab EXCEPT ![r.tab] = p]
         /\ requests' = [requests EXCEPT ![s].token = p.page, ![s].retried = TRUE,
                                         ![s].state = "sent", ![s].result = "none"]
         /\ UNCHANGED <<server, storage>>
      \/ /\ p.page # r.token /\ ~again
         /\ tab' = [tab EXCEPT ![r.tab] = p]
         /\ requests' = Settled(requests, s)
         /\ UNCHANGED <<server, storage>>

(* Mutant: a session change's own 401 waits for it, too. *)
MustWaitAll(s, p) ==
  /\ p.page = requests[s].token
  /\ SessionChanges(requests[s].tab) # {}

(* Mutant: nobody waits. *)
MustWaitNever(s, p) == FALSE

(* A 401 for the current token waits for the page's session changes, unless it answers
   one of them. *)
MustWait(s, p) ==
  /\ p.page = requests[s].token
  /\ SessionChanges(requests[s].tab) # {}
  /\ requests[s].kind \notin Changes

DeliverDenied(s) ==
  LET r == requests[s]
      p == ReadToken(tab[r.tab])
  IN  /\ r.result = "denied" /\ r.live
      /\ \/ /\ MustWait(s, p)
            /\ tab' = [tab EXCEPT ![r.tab] = p]
            /\ requests' = [requests EXCEPT ![s].state = "waiting",
                                            ![s].waits = SessionChanges(r.tab)]
            /\ UNCHANGED <<server, storage>>
         \/ ~MustWait(s, p) /\ Unauthorized(s, p)

(* Nobody listens (the page was reloaded), or the answer is an error the page reports. *)
DeliverError(s) ==
  /\ ~requests[s].live \/ requests[s].result = "failed"
  /\ Drop(s)

Deliver(s) ==
  /\ requests[s].kind # "idle"
  /\ requests[s].state = "answered" /\ Ready(requests[s].tab)
  /\ DeliverOk(s) \/ DeliverDenied(s) \/ DeliverError(s)

Resume(s) ==
  /\ requests[s].kind # "idle"
  /\ requests[s].state = "waiting"
  /\ requests[s].waits = {}
  /\ Unauthorized(s, ReadToken(tab[requests[s].tab]))

-----------------------------------------------------------------------------
Logout(t) ==
  /\ tab[t].token # NoToken /\ Ready(t)
  /\ StoreToken(t, SignedOut(tab[t], "other"), NoToken)
  /\ requests' = Aborted(t)
  /\ UNCHANGED server

(* The storage event: another tab signed in, signed out or switched tokens. *)
StorageEvent(t) ==
  /\ t \in pending /\ Ready(t)
  /\ pending' = pending \ {t}
  /\ LET p == ReadToken(tab[t])
         next == p.page
     IN  IF next = tab[t].token
         THEN tab' = [tab EXCEPT ![t] = p] /\ UNCHANGED requests
         ELSE /\ tab' = [tab EXCEPT ![t] =
                   [p EXCEPT !.token = next, !.cache = {},
                             !.ended = IF next = NoToken THEN "other" ELSE @]]
              /\ requests' = Aborted(t)
  /\ UNCHANGED <<server, stored, faults>>

(* The page is loaded afresh: what it had in flight goes on without it. *)
Reload(t) ==
  /\ Fault
  /\ tab' = [tab EXCEPT ![t] = NewPage(IF Readable THEN stored ELSE NoToken)]
  /\ pending' = pending \ {t}
  /\ requests' = [s \in Slots |->
       IF requests[s].kind = "idle" \/ requests[s].tab # t THEN requests[s]
       ELSE IF requests[s].kind = "read" \/ requests[s].state = "waiting" THEN Idle
       ELSE [requests[s] EXCEPT !.live = FALSE]]
  /\ UNCHANGED <<server, stored>>

(* The answer in s, to a mutation, comes when the session it was made in is over: the page
   is signed out or in as another user, or storage is; a changed account finds that storage
   moved on and the page has not heard of it, a new name that its token was replaced. *)
Overtakes(s) ==
  /\ requests[s].kind \in Changes \cup {"write"}
  /\ requests[s].state = "answered" /\ requests[s].result = "ok" /\ requests[s].live
  /\ LET r == requests[s]
         shown == tab[r.tab].token
         current == ReadToken(tab[r.tab]).page
     IN  \/ \E token \in {shown, current} : token = NoToken \/ token.user # r.token.user
         \/ r.kind \in Changes /\ shown # current
         \/ r.kind = "name" /\ shown # r.token

Step ==
  \/ \E t \in Tabs : Logout(t) \/ StorageEvent(t) \/ Reload(t)
  \/ \E t \in Tabs, s \in Slots :
       \/ \E kind \in {"read", "write"} \cup Changes : Send(t, s, kind, NoToken)
       \/ \E u \in Users : Send(t, s, "login", u)
  \/ \E s \in Slots : Serve(s) \/ Commit(s) \/ Lose(s) \/ Resume(s)
  \/ Expire

Next ==
  \/ Step /\ UNCHANGED overtaken
  \/ \E s \in Slots : Deliver(s) /\ overtaken' = (overtaken \/ Overtakes(s))

Spec == Init /\ [][Next]_vars

-----------------------------------------------------------------------------
(* Properties *)

Request == [kind : {"read", "write", "login"} \cup Changes, tab : Tabs,
            user : Users \cup {NoToken}, token : Tokens \cup {NoToken},
            state : {"sent", "checked", "answered", "waiting"},
            result : {"none", "ok", "failed", "denied"},
            fresh : Tokens \cup {NoToken}, retried : BOOLEAN, live : BOOLEAN,
            waits : SUBSET Slots]

(* Every variable has its type. *)
TypeOK ==
  /\ version \in [Users -> Nat]
  /\ issued \in Nat
  /\ dead \subseteq Tokens
  /\ stored \in Tokens \cup {NoToken}
  /\ faults \in Nat
  /\ pending \subseteq Tabs
  /\ tab \in [Tabs -> Pages]
  /\ requests \in [Slots -> Request \cup {Idle}]
  /\ overtaken \in BOOLEAN

(* A tab that has heard of every change of storage shows the session its requests are
   sent with: storage, the page's copy of the token and React's agree, also when
   storage refused a write or is blocked (client.ts's three variables). *)
TabAgrees == \A t \in Tabs : t \notin pending => tab[t].token = ReadToken(tab[t]).page

(* The tabs, storage and the requests have their types, and agree on the session. *)
SessionsAgree == TypeOK /\ TabAgrees

(* Once a tab has heard of every change of storage, the data it has cached is the
   signed-in user's own: a sign-in, a sign-out or a switch in another tab leaves none of
   the former user's, nor of an answer on its way then. (Unless the answer to a mutation came after
   the session it was made in had ended: see LogoutEndsSession.) *)
CacheIsOwn ==
  \A t \in Tabs : t \notin pending /\ ~overtaken =>
    tab[t].cache \subseteq {u \in Users : tab[t].token # NoToken /\ tab[t].token.user = u}

ExpiresIn(t) ==
  /\ tab[t].token # NoToken
  /\ tab'[t].token = NoToken
  /\ tab'[t].ended = "expired"

(* A session ends as expired only over the token it then had, and only when the server
   no longer takes that token: a late 401 for a token replaced meanwhile, here or in
   another tab, ends nothing. *)
ExpiresOnlyRevoked ==
  [][\A t \in Tabs : ExpiresIn(t) => ~Accepted(ReadToken(tab[t]).page)]_vars

(* Changing the password never signs out the page that changed it: unless the browser was
   signed out, its session does not end as expired while the answer with the new token is on
   its way to it. (Not so when the late answer to a new name has put a former token back; and
   a second account change under way on the page, the dialog having been closed over the
   first, may end it: that one's own 401 waits for nobody.) *)
OwnChangeKeepsSession ==
  [][\A t \in Tabs : ExpiresIn(t) /\ ~overtaken /\ ReadToken(tab[t]).page # NoToken =>
       \A s \in SessionChanges(t) :
         SessionChanges(t) = {s} =>
           ~(requests[s].kind = "password" /\ requests[s].result = "ok"
               /\ Accepted(requests[s].fresh))]_vars

(* Of account changes racing from one session, all of them checked against the same row,
   none succeeds after a password change has. *)
OneWinner ==
  [][\A s1, s2 \in Slots :
       /\ requests[s1].kind = "password" /\ requests[s1].result = "ok"
       /\ requests[s2].kind \in Changes /\ requests[s2].state = "checked"
       /\ requests[s2].token = requests[s1].token
       => requests'[s2].result # "ok"]_vars

(* Nobody waits for a request that waits: a 401 is held back only for session changes on
   their way, which themselves wait for nothing, so every request settles. *)
WaitsEnd ==
  \A s \in Slots : requests[s].kind # "idle" =>
    \A w \in requests[s].waits :
      /\ requests[w].kind \in Changes
      /\ requests[w].state # "waiting"

(* A signed-out tab is signed in again only by a login, here or in another tab. *)
LogoutEndsSession ==
  [][\A t \in Tabs :
       tab[t].token = NoToken /\ tab'[t].token # NoToken /\ t \notin pending =>
         \E s \in Slots : requests[s].kind = "login" /\ requests'[s] = Idle]_vars
=============================================================================
