---------------------------- MODULE SessionProofs ----------------------------
(***************************************************************************)
(* The tabs, the storage they share and the server agree on the session,   *)
(* for any number of tabs, users, requests, tokens and faults.             *)
(***************************************************************************)
EXTENDS Session, TLAPS

---------------------------------------------------------------------------
(* The inductive invariant.                                                 *)

Busy(s) == requests[s].kind # "idle"
Current(t) == ReadToken(tab[t]).page

(* A token some page, storage or request has was issued, and no version of its user is
   older. *)
Genuine(token) ==
  token # NoToken => token.id <= issued /\ token.version <= version[token.user]

TokensGenuine ==
  /\ Genuine(stored)
  /\ \A t \in Tabs : Genuine(tab[t].page) /\ Genuine(tab[t].token)
  /\ \A s \in Slots : Busy(s) => Genuine(requests[s].token) /\ Genuine(requests[s].fresh)

(* The server refuses the token for good: versions only grow, time does not go back. *)
Revoked(token) ==
  token = NoToken \/ token \in dead \/ token.version < version[token.user]

(* What a request has, given where it is. *)
RequestOK(r) ==
  /\ r.state \in {"sent", "checked"} <=> r.result = "none"
  /\ r.state = "checked" => r.kind \in Changes /\ r.token # NoToken
  /\ r.state = "waiting" => r.result = "denied" /\ r.kind \in {"read", "write"}
  /\ r.kind = "login" => r.user \in Users /\ r.result # "denied"
  /\ r.result = "denied" => Revoked(r.token)
  /\ r.result = "ok" =>
       /\ r.kind # "login" => r.token # NoToken
       /\ r.kind \notin {"read", "write"} => r.fresh # NoToken
       /\ r.kind = "name" => r.fresh = r.token
       /\ r.kind = "password" => r.fresh.user = r.token.user /\ r.token.version < version[r.token.user]

RequestsOK == \A s \in Slots : Busy(s) => RequestOK(requests[s])

(* A page that keeps a token storage refused shows it; where there is no storage, there is
   nothing to keep it from or to hear of. *)
PageOK(t) ==
  /\ tab[t].unsaved # Unset => tab[t].page = tab[t].token
  /\ ~Readable => tab[t].unsaved = Unset
PagesOK ==
  /\ \A t \in Tabs : PageOK(t)
  /\ ~Readable => stored = NoToken /\ pending = {}

(* A new token on its way is nowhere else yet. *)
Fresh(s) == requests[s].kind \in {"login", "password"} /\ requests[s].result = "ok"
FreshIsNew ==
  \A s \in Slots : Fresh(s) =>
    LET token == requests[s].fresh
    IN  /\ stored # token
        /\ \A t \in Tabs : tab[t].page # token /\ tab[t].token # token
        /\ \A x \in Slots \ {s} : Busy(x) => requests[x].token # token /\ requests[x].fresh # token
        /\ requests[s].token # token

(* A token that was once shared is not one that a page keeps because storage refused it. *)
Knows(t, token) ==
  \/ tab[t].page = token \/ tab[t].token = token
  \/ \E s \in Slots : Busy(s) /\ requests[s].tab = t /\ requests[s].token = token
SavedOr(t, token) == tab[t].unsaved \in {Unset, token}
SharedIsSaved ==
  \A y \in Tabs :
    /\ tab[y].page # NoToken
    /\ stored = tab[y].page \/ \E x \in Tabs \ {y} : Knows(x, tab[y].page)
    => SavedOr(y, tab[y].page)

(* The page has moved on from the token, and nothing brings it back. *)
Gone(t, token) ==
  /\ token \in Tokens /\ token.id <= issued
  /\ tab[t].page # token
  /\ stored # token \/ tab[t].unsaved = token
  /\ \A x \in Tabs : tab[x].page = token => SavedOr(x, token)
  /\ \A s \in Slots : Fresh(s) => requests[s].fresh # token

(* What a page caches and reads is of the user it shows, unless a change of the session is
   still to be told to it. *)
OfUser(t, u) ==
  /\ tab[t].cache \subseteq {u}
  /\ \A s \in Slots :
       /\ Busy(s) /\ requests[s].kind = "read" /\ requests[s].tab = t /\ requests[s].live
       /\ requests[s].token # NoToken
       => requests[s].token.user = u
NothingRead(t) ==
  /\ tab[t].cache = {}
  /\ \A s \in Slots : Busy(s) /\ requests[s].kind = "read" /\ requests[s].tab = t => ~requests[s].live
CacheOK(t) ==
  \/ tab[t].token = NoToken /\ NothingRead(t)
  \/ tab[t].token # NoToken /\ OfUser(t, tab[t].token.user)
  \/ tab[t].token # NoToken /\ t \in pending /\ Gone(t, tab[t].token)

(* A password change that a waiting request does not wait for was made after the token that
   request was refused for was given up, or is refused, too. *)
LaterChange(s, c) ==
  /\ Busy(s) /\ Busy(c) /\ requests[s].tab = requests[c].tab
  /\ requests[s].state = "waiting" /\ requests[s].token # NoToken
  /\ requests[c].kind = "password" /\ requests[c].live /\ c \notin requests[s].waits
LaterChangeOK(s, c) ==
  \/ /\ requests[c].token = requests[s].token
     /\ requests[c].state # "checked" /\ requests[c].result # "ok"
  \/ Gone(requests[s].tab, requests[s].token)

NotOvertaken ==
  ~overtaken =>
    /\ SharedIsSaved
    /\ \A t \in Tabs : CacheOK(t)
    /\ \A s, c \in Slots : LaterChange(s, c) => LaterChangeOK(s, c)

IInv ==
  /\ TypeOK
  /\ TokensGenuine
  /\ RequestsOK
  /\ WaitsEnd
  /\ TabAgrees
  /\ PagesOK
  /\ FreshIsNew
  /\ NotOvertaken

---------------------------------------------------------------------------
(* Types.                                                                   *)

Requests == [Slots -> Request \cup {Idle}]

LEMMA BusyIsRequest ==
    ASSUME NEW s \in Slots, requests \in Requests
    PROVE  IF Busy(s) THEN requests[s] \in Request ELSE requests[s] = Idle
BY DEF Requests, Request, Changes, Busy, Idle

LEMMA SettledType ==
    ASSUME NEW rs \in Requests, NEW s \in Slots
    PROVE  /\ Settled(rs, s) \in Requests
           /\ \A x \in Slots :
                Settled(rs, s)[x] = IF x = s \/ rs[x].kind = "idle" THEN Idle
                                    ELSE [rs[x] EXCEPT !.waits = rs[x].waits \ {s}]
<1>1. \A x \in Slots : rs[x].kind # "idle" => rs[x] \in Request
  BY DEF Requests, Idle
<1>2. \A r \in Request : [r EXCEPT !.waits = r.waits \ {s}] \in Request
  BY DEF Request
<1>3. QED
  BY <1>1, <1>2 DEF Settled, Requests

LEMMA AbortedType ==
    ASSUME requests \in Requests, NEW t
    PROVE  /\ Aborted(t) \in Requests
           /\ \A x \in Slots :
                Aborted(t)[x] = IF requests[x].kind # "read" \/ requests[x].tab # t THEN requests[x]
                                ELSE IF requests[x].state = "waiting" THEN [requests[x] EXCEPT !.live = FALSE]
                                ELSE Idle
<1>1. \A x \in Slots : requests[x].kind = "read" => requests[x] \in Request
  BY DEF Requests, Idle
<1>2. \A r \in Request : [r EXCEPT !.live = FALSE] \in Request
  BY DEF Request
<1>3. QED
  BY <1>1, <1>2 DEF Aborted, Requests

LEMMA ReadTokenType ==
    ASSUME NEW t \in Tabs, tab \in [Tabs -> Pages], stored \in Tokens \cup {NoToken}
    PROVE  ReadToken(tab[t]) \in Pages
BY DEF ReadToken, Pages

(* What a page and storage have after a token was stored, refused or removed. *)
Put(t, token) ==
  /\ tab'[t].page = token
  /\ \E ok \in BOOLEAN :
       /\ ok => Readable
       /\ stored' = IF ok THEN token ELSE stored
       /\ pending' = IF ok /\ token # stored THEN pending \cup (Tabs \ {t}) ELSE pending
       /\ tab'[t].unsaved = IF ok \/ ~Readable THEN Unset ELSE stored

LEMMA StoreTokenFacts ==
    ASSUME TypeOK, NEW t \in Tabs, NEW p \in Pages, NEW token \in Tokens \cup {NoToken},
           StoreToken(t, p, token)
    PROVE  /\ stored' \in Tokens \cup {NoToken}
           /\ pending' \subseteq Tabs
           /\ tab' \in [Tabs -> Pages]
           /\ \A x \in Tabs \ {t} : tab'[x] = tab[x]
           /\ Put(t, token)
           /\ tab'[t].token = p.token /\ tab'[t].cache = p.cache /\ tab'[t].ended = p.ended
<1>1. PICK ok \in BOOLEAN :
         /\ ok => Readable
         /\ stored' = IF ok THEN token ELSE stored
         /\ pending' = IF ok /\ token # stored THEN pending \cup (Tabs \ {t}) ELSE pending
         /\ tab' = [tab EXCEPT ![t] = [p EXCEPT !.page = token,
                                          !.unsaved = IF ok \/ ~Readable THEN Unset ELSE stored]]
  BY DEF StoreToken
<1>2. PICK unsaved \in Tokens \cup {NoToken, Unset} :
        unsaved = IF ok \/ ~Readable THEN Unset ELSE stored
  BY DEF TypeOK
<1> DEFINE q == [p EXCEPT !.page = token, !.unsaved = unsaved]
<1>3. /\ q \in Pages /\ q.page = token /\ q.unsaved = unsaved
      /\ q.token = p.token /\ q.cache = p.cache /\ q.ended = p.ended
  BY DEF Pages
<1>4. tab' = [tab EXCEPT ![t] = q] /\ tab \in [Tabs -> Pages]
  BY <1>1, <1>2 DEF TypeOK
<1> HIDE DEF q
<1>5. tab' \in [Tabs -> Pages] /\ tab'[t] = q /\ \A x \in Tabs \ {t} : tab'[x] = tab[x]
  BY <1>3, <1>4
<1>6. Put(t, token)
  BY <1>1, <1>2, <1>3, <1>5 DEF Put
<1>7. stored' \in Tokens \cup {NoToken} /\ pending' \subseteq Tabs
  BY <1>1 DEF TypeOK
<1>8. QED
  BY <1>3, <1>5, <1>6, <1>7

LEMMA NewPageType == \A token \in Tokens \cup {NoToken} : NewPage(token) \in Pages
BY DEF NewPage, Pages

LEMMA InitTypeOK == Init => TypeOK
<1> SUFFICES ASSUME Init PROVE TypeOK
  OBVIOUS
<1>1. NewPage(NoToken) \in Pages
  BY NewPageType
<1>2. tab \in [Tabs -> Pages]
  BY <1>1 DEF Init
<1>3. QED
  BY <1>2 DEF Init, TypeOK

---------------------------------------------------------------------------
(* What a step may do to the accounts, to a request and to a page, whatever action it is. *)

AccountsGrow ==
  /\ issued' \in Nat /\ issued <= issued'
  /\ version' \in [Users -> Nat] /\ \A u \in Users : version[u] <= version'[u]
  /\ dead \subseteq dead' /\ dead' \subseteq Tokens

SameRequest(s) ==
  /\ Busy(s) /\ Busy(s)'
  /\ requests'[s].kind = requests[s].kind
  /\ requests'[s].tab = requests[s].tab
  /\ requests'[s].user = requests[s].user
  /\ requests'[s].token = requests[s].token
  /\ requests'[s].live => requests[s].live
  /\ \A w \in Slots : w \in requests'[s].waits <=> w \in requests[s].waits /\ Busy(w)'

Kept(s) ==
  /\ SameRequest(s)
  /\ requests'[s].state = requests[s].state
  /\ requests'[s].result = requests[s].result
  /\ requests'[s].fresh = requests[s].fresh

AtServer(s) == Busy(s) /\ requests[s].kind \in Changes /\ requests[s].state = "checked"

(* The server takes a request, or the network loses it. *)
Served(s) ==
  /\ SameRequest(s)
  /\ requests'[s].live = requests[s].live
  /\ requests[s].state # "waiting"
  /\ requests'[s].state # "waiting"
  /\ RequestOK(requests[s])'
  /\ requests'[s].state = "checked" \/ requests'[s].result = "ok" =>
       requests[s].kind = "login" \/ requests[s].state = "checked" \/ ~Revoked(requests[s].token)
  /\ AtServer(s) /\ requests'[s].result = "ok" => Unrevoked(requests[s])
  /\ IF Fresh(s)' THEN requests'[s].fresh \in Tokens /\ requests'[s].fresh.id = issued + 1 /\ issued' = issued + 1
                       /\ Genuine(requests[s].fresh)'
                  ELSE requests'[s].fresh \in {NoToken, requests[s].fresh, requests[s].token}

AccountStep(s) ==
  /\ UNCHANGED <<stored, pending, tab>>
  /\ AccountsGrow
  /\ requests' \in Requests
  /\ \A x \in Slots : IF Busy(x) THEN Kept(x) \/ (x = s /\ Served(x)) ELSE ~Busy(x)'

(* A request changes, and stays under way, the others do not. *)
LEMMA OneChanges ==
    ASSUME requests \in Requests, WaitsEnd, NEW s \in Slots, Busy(s), NEW r \in Request,
           requests' = [requests EXCEPT ![s] = r]
    PROVE  /\ requests' \in Requests
           /\ requests'[s] = r /\ Busy(s)'
           /\ \A x \in Slots \ {s} : Busy(x) => Kept(x)
           /\ \A x \in Slots \ {s} : ~Busy(x) => ~Busy(x)'
           /\ \A w \in Slots : w \in requests[s].waits => Busy(w)'
<1>1. requests' \in Requests
  BY DEF Requests
<1>2. requests'[s] = r /\ \A x \in Slots \ {s} : requests'[x] = requests[x]
  BY DEF Requests
<1>3. r.kind # "idle"
  BY DEF Request, Changes
<1>4. \A x \in Slots : Busy(x) => Busy(x)'
  BY <1>2, <1>3 DEF Busy
<1>5. \A x, w \in Slots : Busy(x) /\ w \in requests[x].waits => Busy(w)'
  BY <1>4 DEF WaitsEnd, Busy, Changes
<1>6. \A x \in Slots \ {s} : Busy(x) => Kept(x)
  BY <1>2, <1>4, <1>5 DEF Kept, SameRequest
<1>7. QED
  BY <1>1, <1>2, <1>3, <1>5, <1>6 DEF Busy

LEMMA AnswerEffect ==
    ASSUME requests \in Requests, WaitsEnd, NEW s \in Slots, Busy(s),
           NEW result \in {"ok", "failed", "denied"}, NEW token \in Tokens \cup {NoToken},
           Answer(s, result, token)
    PROVE  /\ requests' \in Requests
           /\ \A x \in Slots \ {s} : Busy(x) => Kept(x)
           /\ \A x \in Slots \ {s} : ~Busy(x) => ~Busy(x)'
           /\ SameRequest(s)
           /\ requests'[s].live = requests[s].live
           /\ requests'[s].state = "answered"
           /\ requests'[s].result = result
           /\ requests'[s].fresh = token
<1> DEFINE r == [requests[s] EXCEPT !.state = "answered", !.result = result, !.fresh = token]
<1>1. requests[s] \in Request
  BY BusyIsRequest
<1>2. /\ r \in Request
      /\ r.state = "answered" /\ r.result = result /\ r.fresh = token
      /\ r.kind = requests[s].kind /\ r.tab = requests[s].tab /\ r.user = requests[s].user
      /\ r.token = requests[s].token /\ r.live = requests[s].live /\ r.waits = requests[s].waits
  BY <1>1 DEF Request
<1>3. requests' = [requests EXCEPT ![s] = r]
  BY DEF Answer, Requests
<1> HIDE DEF r
<1>4. QED
  BY <1>2, <1>3, OneChanges DEF SameRequest

LEMMA Sentinels == NoToken \notin Tokens /\ Unset \notin Tokens /\ Unset # NoToken
BY SessionAssumption DEF Tokens

LEMMA AcceptedOrRevoked ==
    ASSUME TypeOK, NEW token \in Tokens \cup {NoToken}, Genuine(token)
    PROVE  Accepted(token) <=> ~Revoked(token)
BY DEF TypeOK, Genuine, Accepted, Revoked, Tokens

(* The parts of a request under way. *)
LEMMA BusyRequest ==
    ASSUME IInv, NEW s \in Slots, Busy(s)
    PROVE  /\ requests[s] \in Request
           /\ RequestOK(requests[s])
           /\ Genuine(requests[s].token) /\ Genuine(requests[s].fresh)
           /\ requests \in Requests
BY BusyIsRequest DEF IInv, TypeOK, Requests, RequestsOK, TokensGenuine

LEMMA RevokedStays ==
    ASSUME TypeOK, AccountsGrow, NEW token \in Tokens \cup {NoToken}, Revoked(token)
    PROVE  Revoked(token)'
BY DEF TypeOK, AccountsGrow, Revoked, Tokens

LEMMA GenuineStays ==
    ASSUME TypeOK, AccountsGrow, NEW token \in Tokens \cup {NoToken}, Genuine(token)
    PROVE  Genuine(token)'
BY DEF TypeOK, AccountsGrow, Genuine, Tokens

(* A request is answered. *)
LEMMA AnswerStep ==
    ASSUME IInv, NEW s \in Slots, Busy(s), requests[s].state # "waiting", AccountsGrow,
           UNCHANGED <<stored, pending, tab>>,
           NEW result \in {"ok", "failed", "denied"}, NEW token \in Tokens \cup {NoToken},
           Answer(s, result, token),
           result = "denied" =>
             requests[s].kind # "login" /\ (requests[s].token = NoToken \/ Revoked(requests[s].token)),
           result = "ok" =>
             /\ requests[s].kind \in {"read", "write"} => ~Revoked(requests[s].token)
             /\ requests[s].kind \in Changes => requests[s].state = "checked" /\ Unrevoked(requests[s])
             /\ requests[s].kind = "name" => token = requests[s].token
             /\ requests[s].kind = "password" =>
                  /\ token.user = requests[s].token.user
                  /\ requests[s].token.version < version'[requests[s].token.user],
           IF result = "ok" /\ requests[s].kind \in {"login", "password"}
             THEN token \in Tokens /\ token.id = issued + 1 /\ issued' = issued + 1 /\ Genuine(token)'
             ELSE token \in {NoToken, requests[s].token}
    PROVE  AccountStep(s)
<1> DEFINE r == requests[s]
<1>1. r \in Request /\ RequestOK(r) /\ requests \in Requests /\ TypeOK /\ WaitsEnd
  BY BusyRequest DEF IInv
<1>2. /\ requests' \in Requests
      /\ \A x \in Slots \ {s} : Busy(x) => Kept(x)
      /\ \A x \in Slots \ {s} : ~Busy(x) => ~Busy(x)'
      /\ SameRequest(s)
      /\ requests'[s].live = r.live
      /\ requests'[s].state = "answered"
      /\ requests'[s].result = result
      /\ requests'[s].fresh = token
  BY <1>1, AnswerEffect
<1>3. PICK was \in Tokens \cup {NoToken} : was = r.token
  BY <1>1 DEF Request
<1>4. Revoked(NoToken)
  BY DEF Revoked
<1>5. RequestOK(requests[s])'
  <2>1. /\ requests'[s].kind = r.kind /\ requests'[s].token = was /\ requests'[s].user = r.user
    BY <1>2, <1>3 DEF SameRequest
  <2>2. result = "denied" => Revoked(requests[s].token)'
    BY <1>1, <1>3, <1>4, <2>1, RevokedStays DEF Revoked
  <2>3. result = "ok" /\ r.kind # "login" => r.token # NoToken
    BY <1>1, <1>4 DEF RequestOK, Request, Changes
  <2>4. result = "ok" /\ r.kind \notin {"read", "write"} => token # NoToken
    BY <1>1, <2>3, Sentinels DEF Request, Changes
  <2>5. r.kind = "login" => r.user \in Users
    BY <1>1 DEF RequestOK
  <2>6. QED
    BY <1>2, <1>3, <2>1, <2>2, <2>3, <2>4, <2>5 DEF RequestOK, Changes
<1>6. Served(s)
  <2>1. result = "ok" => r.kind = "login" \/ r.state = "checked" \/ ~Revoked(r.token)
    BY <1>1 DEF Request, Changes
  <2>2. Fresh(s)' <=> r.kind \in {"login", "password"} /\ result = "ok"
    BY <1>2 DEF Fresh, SameRequest
  <2>3. IF Fresh(s)'
          THEN requests'[s].fresh \in Tokens /\ requests'[s].fresh.id = issued + 1
                 /\ issued' = issued + 1 /\ Genuine(requests[s].fresh)'
          ELSE requests'[s].fresh \in {NoToken, r.fresh, r.token}
    BY <1>2, <2>2 DEF Genuine
  <2>4. QED
    BY <1>2, <1>5, <2>1, <2>3 DEF Served, AtServer
<1>7. QED
  BY <1>2, <1>6 DEF AccountStep

LEMMA ServeEffect ==
    ASSUME IInv, NEW s \in Slots, Serve(s)
    PROVE  AccountStep(s)
<1> DEFINE r == requests[s]
<1>1. Busy(s) /\ r.state = "sent" /\ TypeOK /\ WaitsEnd
  BY DEF Serve, Busy, IInv
<1>2. r \in Request /\ RequestOK(r) /\ Genuine(r.token) /\ requests \in Requests
  BY <1>1, BusyRequest
<1>3. Accepted(r.token) <=> ~Revoked(r.token)
  BY <1>1, <1>2, AcceptedOrRevoked DEF Request
<1>4. UNCHANGED <<version, dead, stored, pending, tab>>
  BY DEF Serve, storage
<1>5. AccountsGrow
  <2>1. issued' \in {issued, issued + 1}
    BY <1>1, <1>2 DEF Serve, Request, Changes
  <2>2. QED
    BY <1>1, <1>4, <2>1 DEF AccountsGrow, TypeOK
<1>6. r.state # "waiting" /\ UNCHANGED <<stored, pending, tab>>
  BY <1>1, <1>4
<1>7. CASE r.kind = "login"
  <2>1. CASE Answer(s, "failed", NoToken)
    BY <1>1, <1>2, <1>5, <1>6, <1>7, <2>1, AnswerStep DEF Changes
  <2>2. CASE /\ issued' = issued + 1
             /\ Answer(s, "ok", [id |-> issued + 1, user |-> r.user, version |-> version[r.user]])
    <3>1. r.user \in Users
      BY <1>2, <1>7 DEF RequestOK
    <3>2. [id |-> issued + 1, user |-> r.user, version |-> version[r.user]] \in Tokens
      BY <1>1, <3>1 DEF TypeOK, Tokens
    <3>3. PICK token \in Tokens : token = [id |-> issued + 1, user |-> r.user, version |-> version[r.user]]
      BY <3>2
    <3>4. Genuine(token)'
      BY <1>1, <1>4, <2>2, <3>1, <3>3 DEF Genuine, TypeOK
    <3>5. Answer(s, "ok", token) /\ token.id = issued + 1
      BY <2>2, <3>3
    <3>6. QED
      BY <1>1, <1>5, <1>6, <1>7, <2>2, <3>4, <3>5, AnswerStep DEF Changes
  <2>3. QED
    BY <1>7, <2>1, <2>2 DEF Serve, Changes
<1>8. CASE r.kind \in {"read", "write"}
  <2>1. CASE Accepted(r.token)
    <3>1. Answer(s, "ok", NoToken)
      BY <1>8, <2>1 DEF Serve, Changes
    <3>2. QED
      BY <1>1, <1>3, <1>5, <1>6, <1>8, <2>1, <3>1, AnswerStep DEF Changes
  <2>2. CASE ~Accepted(r.token)
    <3>1. Answer(s, "denied", NoToken)
      BY <1>8, <2>2 DEF Serve, Changes
    <3>2. QED
      BY <1>1, <1>3, <1>5, <1>6, <1>8, <2>2, <3>1, AnswerStep DEF Changes
  <2>3. QED
    BY <2>1, <2>2
<1>9. CASE r.kind \in Changes
  <2>1. CASE Answer(s, "failed", NoToken)
    BY <1>1, <1>5, <1>6, <1>9, <2>1, AnswerStep DEF Changes
  <2>2. CASE ~Accepted(r.token)
    <3>1. Answer(s, "denied", NoToken)
      BY <1>9, <2>2 DEF Serve, Changes
    <3>2. QED
      BY <1>1, <1>3, <1>5, <1>6, <1>9, <2>2, <3>1, AnswerStep DEF Changes
  <2>3. CASE Accepted(r.token) /\ requests' = [requests EXCEPT ![s].state = "checked"]
    <3> DEFINE q == [r EXCEPT !.state = "checked"]
    <3>1. /\ q \in Request
          /\ q.state = "checked" /\ q.result = r.result /\ q.fresh = r.fresh
          /\ q.kind = r.kind /\ q.tab = r.tab /\ q.user = r.user
          /\ q.token = r.token /\ q.live = r.live /\ q.waits = r.waits
      BY <1>2 DEF Request
    <3>2. requests' = [requests EXCEPT ![s] = q]
      BY <1>2, <2>3 DEF Requests
    <3> HIDE DEF q
    <3>3. /\ requests' \in Requests
          /\ requests'[s] = q /\ Busy(s)'
          /\ \A x \in Slots \ {s} : Busy(x) => Kept(x)
          /\ \A x \in Slots \ {s} : ~Busy(x) => ~Busy(x)'
          /\ \A w \in Slots : w \in r.waits => Busy(w)'
      BY <1>1, <1>2, <3>1, <3>2, OneChanges
    <3>4. SameRequest(s)
      BY <1>1, <3>1, <3>3 DEF SameRequest
    <3>5. RequestOK(requests[s])'
      BY <1>1, <1>2, <1>9, <2>3, <3>1, <3>3 DEF RequestOK, Accepted, Changes
    <3>6. Served(s)
      BY <1>1, <1>2, <1>3, <2>3, <3>1, <3>3, <3>4, <3>5 DEF Served, AtServer, Fresh, RequestOK
    <3>7. QED
      BY <1>1, <1>4, <1>5, <3>3, <3>6 DEF AccountStep
  <2>4. QED
    BY <1>9, <2>1, <2>2, <2>3 DEF Serve, Changes
<1>10. QED
  BY <1>2, <1>7, <1>8, <1>9 DEF Request, Changes

LEMMA CommitEffect ==
    ASSUME IInv, NEW s \in Slots, Commit(s)
    PROVE  AccountStep(s)
<1> DEFINE r == requests[s]
           u == r.token.user
<1>1. Busy(s) /\ r.state = "checked" /\ TypeOK /\ UNCHANGED <<dead, stored, pending, tab>>
  BY DEF Commit, Busy, IInv, storage
<1>2. /\ r \in Request /\ Genuine(r.token) /\ r.kind \in Changes /\ r.token \in Tokens
      /\ u \in Users
  BY <1>1, BusyRequest DEF RequestOK, Request, Tokens
<1>3. r.token.version \in Nat /\ r.token.version <= version[u]
  BY <1>1, <1>2, Sentinels DEF Genuine, Tokens
<1>4. CASE /\ r.kind = "password"
           /\ Unrevoked(r)
           /\ issued' = issued + 1
           /\ version' = [version EXCEPT ![u] = @ + 1]
           /\ Answer(s, "ok", [id |-> issued + 1, user |-> u, version |-> version[u] + 1])
  <2>1. AccountsGrow /\ version'[u] = version[u] + 1
    BY <1>1, <1>2, <1>4 DEF AccountsGrow, TypeOK
  <2>2. [id |-> issued + 1, user |-> u, version |-> version[u] + 1] \in Tokens
    BY <1>1, <1>2 DEF Tokens, TypeOK
  <2>3. PICK token \in Tokens : token = [id |-> issued + 1, user |-> u, version |-> version[u] + 1]
    BY <2>2
  <2>4. Answer(s, "ok", token)
    BY <1>4, <2>3
  <2>5. Genuine(token)' /\ token.id = issued + 1 /\ token.user = u
    <3>1. token.id = issued + 1 /\ token.user = u /\ token.version = version[u] + 1
      BY <2>3
    <3>2. issued' = issued + 1 /\ version'[u] = version[u] + 1 /\ issued \in Nat /\ version[u] \in Nat
      BY <1>1, <1>2, <1>4, <2>1 DEF TypeOK
    <3>3. QED
      BY <3>1, <3>2 DEF Genuine
  <2>6. r.token.version < version'[u]
    BY <1>1, <1>2, <1>3, <2>1 DEF TypeOK
  <2>7. QED
    BY <1>1, <1>2, <1>4, <2>1, <2>4, <2>5, <2>6, AnswerStep DEF Changes
<1>5. CASE Unrevoked(r) /\ r.kind = "name" /\ Answer(s, "ok", r.token) /\ UNCHANGED <<version, issued>>
  <2>1. AccountsGrow
    BY <1>1, <1>5 DEF AccountsGrow, TypeOK
  <2>2. PICK token \in Tokens : token = r.token
    BY <1>2
  <2>3. Answer(s, "ok", token)
    BY <1>5, <2>2
  <2>4. QED
    BY <1>1, <1>2, <1>5, <2>1, <2>2, <2>3, AnswerStep DEF Changes
<1>6. CASE /\ ~Unrevoked(r) \/ r.kind = "password"
           /\ Answer(s, IF r.kind = "name" THEN "denied" ELSE "failed", NoToken)
           /\ UNCHANGED <<version, issued>>
  <2>1. AccountsGrow
    BY <1>1, <1>6 DEF AccountsGrow, TypeOK
  <2>2. CASE r.kind = "name"
    <3>1. Answer(s, "denied", NoToken)
      BY <1>6, <2>2
    <3>2. Revoked(r.token)
      BY <1>1, <1>2, <1>3, <1>6, <2>2 DEF Unrevoked, Revoked, TypeOK
    <3>3. QED
      BY <1>1, <2>1, <2>2, <3>1, <3>2, AnswerStep
  <2>3. CASE r.kind # "name"
    <3>1. Answer(s, "failed", NoToken)
      BY <1>6, <2>3
    <3>2. QED
      BY <1>1, <2>1, <3>1, AnswerStep
  <2>4. QED
    BY <2>2, <2>3
<1>7. QED
  BY <1>4, <1>5, <1>6 DEF Commit

LEMMA LoseEffect ==
    ASSUME IInv, NEW s \in Slots, Lose(s)
    PROVE  AccountStep(s)
<1>1. /\ Busy(s) /\ requests[s].state # "waiting" /\ TypeOK
      /\ UNCHANGED <<version, issued, dead, stored, pending, tab>>
      /\ Answer(s, "failed", NoToken)
  BY DEF Lose, Busy, IInv, Changes, server
<1>2. AccountsGrow
  BY <1>1 DEF AccountsGrow, TypeOK
<1>3. QED
  BY <1>1, <1>2, AnswerStep

LEMMA ExpireEffect ==
    ASSUME IInv, Expire, NEW s
    PROVE  AccountStep(s)
<1>1. TypeOK /\ WaitsEnd /\ UNCHANGED <<version, issued, stored, pending, tab, requests>>
  BY DEF Expire, IInv
<1>2. AccountsGrow
  BY <1>1 DEF AccountsGrow, TypeOK, Expire
<1>3. \A x \in Slots : IF Busy(x) THEN Kept(x) ELSE ~Busy(x)'
  BY <1>1 DEF Kept, SameRequest, Busy, WaitsEnd, Changes
<1>4. QED
  BY <1>1, <1>2, <1>3 DEF AccountStep, TypeOK, Requests

---------------------------------------------------------------------------
(* What a step may do to a page, to storage and to the page's requests.      *)

(* A request stays as it is or ends; an account change between its check and its UPDATE does
   not end. *)
KeptOrEnded(s) == Kept(s) \/ (~Busy(s)' /\ ~AtServer(s))

NoLiveReads(t) ==
  \A s \in Slots : Busy(s) /\ requests[s].kind = "read" /\ requests[s].tab = t => ~requests[s].live

(* Two records of a request that differ in who waits and listens only. *)
Alike(r, q) ==
  /\ r.kind = q.kind /\ r.tab = q.tab /\ r.user = q.user /\ r.token = q.token
  /\ r.state = q.state /\ r.result = q.result /\ r.fresh = q.fresh

LEMMA LessLive ==
    ASSUME NEW r \in Request
    PROVE  LET q == [r EXCEPT !.live = FALSE]
           IN  q \in Request /\ Alike(q, r) /\ q.live = FALSE /\ q.waits = r.waits
BY DEF Request, Alike

LEMMA FewerWaits ==
    ASSUME NEW r \in Request, NEW s
    PROVE  LET q == [r EXCEPT !.waits = r.waits \ {s}]
           IN  q \in Request /\ Alike(q, r) /\ q.live = r.live /\ q.waits = r.waits \ {s}
BY DEF Request, Alike

LEMMA IdleIsNoRequest == Idle \notin Request /\ Idle.kind = "idle" /\ \A r \in Request : r.kind # "idle"
BY DEF Idle, Request, Changes

LEMMA AbortedFacts ==
    ASSUME requests \in Requests, NEW t, NEW x \in Slots
    PROVE  LET q == Aborted(t)[x]
               r == requests[x]
           IN  \/ q = Idle /\ (Busy(x) => r.kind = "read")
               \/ /\ Busy(x) /\ q \in Request /\ Alike(q, r) /\ q.waits = r.waits
                  /\ q.live => r.live /\ ~(r.kind = "read" /\ r.tab = t)
                  /\ r.kind # "read" => q.live = r.live
<1> DEFINE q == Aborted(t)[x]
           r == requests[x]
<1>1. q = IF r.kind # "read" \/ r.tab # t THEN r
          ELSE IF r.state = "waiting" THEN [r EXCEPT !.live = FALSE]
          ELSE Idle
  BY AbortedType
<1>2. IF Busy(x) THEN r \in Request ELSE r = Idle
  BY BusyIsRequest
<1>3. CASE ~Busy(x)
  BY <1>1, <1>2, <1>3, IdleIsNoRequest
<1>4. CASE Busy(x) /\ (r.kind # "read" \/ r.tab # t)
  BY <1>1, <1>2, <1>4 DEF Alike
<1>5. CASE Busy(x) /\ r.kind = "read" /\ r.tab = t /\ r.state = "waiting"
  BY <1>1, <1>2, <1>5, LessLive
<1>6. CASE Busy(x) /\ r.kind = "read" /\ r.tab = t /\ r.state # "waiting"
  BY <1>1, <1>6
<1>7. QED
  BY <1>3, <1>4, <1>5, <1>6

LEMMA SettledFacts ==
    ASSUME NEW rs \in Requests, NEW s \in Slots, NEW x \in Slots
    PROVE  LET q == Settled(rs, s)[x]
           IN  IF x = s \/ rs[x] = Idle THEN q = Idle
               ELSE /\ rs[x] \in Request /\ q \in Request /\ Alike(q, rs[x])
                    /\ q.live = rs[x].live /\ q.waits = rs[x].waits \ {s}
<1>1. rs[x] = Idle \/ rs[x] \in Request
  BY DEF Requests
<1>2. Settled(rs, s)[x] = IF x = s \/ rs[x].kind = "idle" THEN Idle
                          ELSE [rs[x] EXCEPT !.waits = rs[x].waits \ {s}]
  BY SettledType
<1>3. QED
  BY <1>1, <1>2, IdleIsNoRequest, FewerWaits

(* A step that leaves every request alike, or ends it, but for the waits that end with it. *)
LEMMA AlikeIsKept ==
    ASSUME requests \in Requests, WaitsEnd,
           \A x \in Slots :
             \/ requests'[x] = Idle /\ ~AtServer(x)
             \/ /\ Busy(x) /\ requests'[x] \in Request /\ Alike(requests'[x], requests[x])
                /\ requests'[x].live => requests[x].live
                /\ \A w \in Slots : w \in requests'[x].waits <=> w \in requests[x].waits /\ requests'[w] # Idle
    PROVE  \A x \in Slots : KeptOrEnded(x)
BY IdleIsNoRequest DEF KeptOrEnded, Kept, SameRequest, Busy, Alike

LEMMA AbortedEnds ==
    ASSUME requests \in Requests, WaitsEnd, NEW t, requests' = Aborted(t)
    PROVE  /\ requests' \in Requests
           /\ \A x \in Slots : KeptOrEnded(x)
           /\ NoLiveReads(t)'
<1>1. \A x, w \in Slots : Busy(x) /\ w \in requests[x].waits => requests'[w] # Idle
  BY AbortedFacts, IdleIsNoRequest DEF WaitsEnd, Busy, Changes
<1>2. \A x \in Slots :
        \/ requests'[x] = Idle /\ ~AtServer(x)
        \/ /\ Busy(x) /\ requests'[x] \in Request /\ Alike(requests'[x], requests[x])
           /\ requests'[x].live => requests[x].live
           /\ requests'[x].waits = requests[x].waits
  BY AbortedFacts DEF AtServer, Changes
<1>3. \A x \in Slots : KeptOrEnded(x)
  BY <1>1, <1>2, AlikeIsKept
<1>4. NoLiveReads(t)'
  BY AbortedFacts, IdleIsNoRequest DEF NoLiveReads, Busy, Alike
<1>5. QED
  BY <1>3, <1>4, AbortedType

LEMMA SettledEnds ==
    ASSUME requests \in Requests, WaitsEnd, NEW s \in Slots, requests' = Settled(requests, s), ~AtServer(s)
    PROVE  /\ requests' \in Requests
           /\ ~Busy(s)'
           /\ \A x \in Slots : KeptOrEnded(x)
<1>1. \A x \in Slots :
        IF x = s \/ requests[x] = Idle THEN requests'[x] = Idle
        ELSE /\ Busy(x) /\ requests'[x] \in Request /\ Alike(requests'[x], requests[x])
             /\ requests'[x].live = requests[x].live /\ requests'[x].waits = requests[x].waits \ {s}
  BY SettledFacts, IdleIsNoRequest DEF Busy
<1>2. \A x, w \in Slots : Busy(x) /\ w \in requests[x].waits => requests[w] # Idle
  BY IdleIsNoRequest DEF WaitsEnd, Busy, Changes
<1>3. \A w \in Slots : w = s \/ requests[w] = Idle <=> requests'[w] = Idle
  BY <1>1, IdleIsNoRequest
<1>4. \A x \in Slots : KeptOrEnded(x)
  <2>1. \A x \in Slots : requests'[x] = Idle => ~AtServer(x)
    BY <1>1, IdleIsNoRequest DEF AtServer, Busy
  <2>2. QED
    BY <1>1, <1>2, <1>3, <2>1, AlikeIsKept
<1>5. QED
  BY <1>1, <1>4, SettledType, IdleIsNoRequest DEF Busy

LEMMA AbortedSettledEnds ==
    ASSUME requests \in Requests, WaitsEnd, NEW s \in Slots, NEW t, requests' = Settled(Aborted(t), s),
           ~AtServer(s)
    PROVE  /\ requests' \in Requests
           /\ ~Busy(s)'
           /\ \A x \in Slots : KeptOrEnded(x)
           /\ NoLiveReads(t)'
<1> DEFINE rs == Aborted(t)
<1>0. rs \in Requests
  BY AbortedType
<1>1. \A x \in Slots :
        \/ rs[x] = Idle /\ (Busy(x) => requests[x].kind = "read")
        \/ /\ Busy(x) /\ rs[x] \in Request /\ Alike(rs[x], requests[x]) /\ rs[x].waits = requests[x].waits
           /\ rs[x].live => requests[x].live /\ ~(requests[x].kind = "read" /\ requests[x].tab = t)
  BY AbortedFacts
<1> HIDE DEF rs
<1>2. \A x \in Slots :
        IF x = s \/ rs[x] = Idle THEN requests'[x] = Idle
        ELSE /\ rs[x] \in Request /\ requests'[x] \in Request /\ Alike(requests'[x], rs[x])
             /\ requests'[x].live = rs[x].live /\ requests'[x].waits = rs[x].waits \ {s}
  BY <1>0, SettledFacts DEF rs
<1>3. \A x \in Slots :
        IF x = s \/ rs[x] = Idle THEN requests'[x] = Idle
        ELSE /\ Busy(x) /\ requests'[x] \in Request /\ Alike(requests'[x], requests[x])
             /\ requests'[x].live => requests[x].live /\ ~(requests[x].kind = "read" /\ requests[x].tab = t)
             /\ requests'[x].waits = requests[x].waits \ {s}
  BY <1>1, <1>2 DEF Alike
<1>4. \A x, w \in Slots : Busy(x) /\ w \in requests[x].waits => rs[w] # Idle
  BY <1>1, IdleIsNoRequest DEF WaitsEnd, Busy, Changes
<1>5. \A w \in Slots : w = s \/ rs[w] = Idle <=> requests'[w] = Idle
  BY <1>3, IdleIsNoRequest
<1>6. \A x \in Slots : KeptOrEnded(x)
  <2>1. \A x \in Slots : requests'[x] = Idle => ~AtServer(x)
    BY <1>1, <1>5, IdleIsNoRequest DEF AtServer, Busy, Changes
  <2>2. QED
    BY <1>3, <1>4, <1>5, <2>1, AlikeIsKept
<1>7. ~Busy(s)' /\ requests' \in Requests
  BY <1>0, <1>3, SettledType, IdleIsNoRequest DEF Busy, rs
<1>8. NoLiveReads(t)'
  BY <1>3, IdleIsNoRequest DEF NoLiveReads, Busy, Alike
<1>9. QED
  BY <1>6, <1>7, <1>8

(* The reads and waits of a reloaded page end, its other requests go on without it. *)
Reloaded(t) ==
  [s \in Slots |->
     IF requests[s].kind = "idle" \/ requests[s].tab # t THEN requests[s]
     ELSE IF requests[s].kind = "read" \/ requests[s].state = "waiting" THEN Idle
     ELSE [requests[s] EXCEPT !.live = FALSE]]

LEMMA ReloadEnds ==
    ASSUME requests \in Requests, WaitsEnd, NEW t, requests' = Reloaded(t)
    PROVE  /\ requests' \in Requests
           /\ \A x \in Slots : KeptOrEnded(x)
           /\ \A x \in Slots : Busy(x)' /\ requests'[x].tab = t =>
                requests'[x].kind # "read" /\ requests'[x].state # "waiting" /\ ~requests'[x].live
<1>1. ASSUME NEW x \in Slots
      PROVE  \/ requests'[x] = Idle /\ (Busy(x) => requests[x].kind = "read" \/ requests[x].state = "waiting")
             \/ /\ Busy(x) /\ requests'[x] \in Request /\ Alike(requests'[x], requests[x])
                /\ requests'[x].live => requests[x].live
                /\ requests'[x].waits = requests[x].waits
                /\ requests[x].tab = t =>
                     requests[x].kind # "read" /\ requests[x].state # "waiting" /\ ~requests'[x].live
  <2>1. requests'[x] = IF ~Busy(x) \/ requests[x].tab # t THEN requests[x]
                       ELSE IF requests[x].kind = "read" \/ requests[x].state = "waiting" THEN Idle
                       ELSE [requests[x] EXCEPT !.live = FALSE]
    BY DEF Reloaded, Busy
  <2>2. IF Busy(x) THEN requests[x] \in Request ELSE requests[x] = Idle
    BY BusyIsRequest
  <2>3. CASE requests'[x] = requests[x]
    BY <2>1, <2>2, <2>3, IdleIsNoRequest, LessLive DEF Alike
  <2>4. CASE requests'[x] # requests[x]
    BY <2>1, <2>2, <2>4, LessLive
  <2>5. QED
    BY <2>3, <2>4
<1>2. \A x, w \in Slots : Busy(x) /\ w \in requests[x].waits => requests'[w] # Idle
  BY <1>1, IdleIsNoRequest DEF WaitsEnd, Busy, Changes
<1>3. \A x \in Slots : KeptOrEnded(x)
  <2>1. \A x \in Slots : requests'[x] = Idle => ~AtServer(x)
    BY <1>1, IdleIsNoRequest DEF AtServer, Changes
  <2>2. QED
    BY <1>1, <1>2, <2>1, AlikeIsKept
<1>4. requests' \in Requests
  BY <1>1 DEF Reloaded, Requests
<1>5. QED
  BY <1>1, <1>3, <1>4, IdleIsNoRequest DEF Busy, Alike

(* A request is sent, or sent again, with the page's current token. *)
Sent(s, t) ==
  /\ Busy(s)'
  /\ requests'[s].tab = t
  /\ requests'[s].token = Current(t)
  /\ requests'[s].state = "sent" /\ requests'[s].result = "none"
  /\ IF Busy(s)
     THEN /\ requests[s].tab = t /\ requests[s].live /\ requests[s].result = "denied"
          /\ requests'[s].kind = requests[s].kind
          /\ requests'[s].fresh = requests[s].fresh
          /\ \A w \in Slots : w \in requests'[s].waits => w \in requests[s].waits /\ Busy(w)'
     ELSE /\ requests'[s].fresh = NoToken
          /\ requests'[s].waits = {}
          /\ requests'[s].kind = "login" <=> tab[t].token = NoToken
          /\ requests'[s].kind = "login" => requests'[s].user \in Users

(* A request that was refused waits for the page's session changes. *)
Held(s, t) ==
  /\ Busy(s) /\ Busy(s)'
  /\ requests[s].tab = t /\ requests[s].live
  /\ requests[s].kind \notin Changes
  /\ requests[s].result = "denied" /\ requests'[s].result = "denied"
  /\ requests'[s].state = "waiting"
  /\ requests'[s].kind = requests[s].kind
  /\ requests'[s].tab = t
  /\ requests'[s].token = requests[s].token
  /\ requests'[s].fresh = requests[s].fresh
  /\ requests'[s].waits = SessionChanges(t)
  /\ \A w \in SessionChanges(t) : Kept(w)

(* What the page has of the session; what it takes from a good answer. *)
SessionKept(t) ==
  /\ tab'[t].page = tab[t].page /\ tab'[t].unsaved = tab[t].unsaved /\ tab'[t].token = tab[t].token
SessionReread(t) ==
  /\ tab'[t].page = Current(t) /\ tab'[t].unsaved = ReadToken(tab[t]).unsaved
Good(s, t) ==
  /\ Busy(s) /\ ~Busy(s)'
  /\ requests[s].tab = t /\ requests[s].live /\ requests[s].state = "answered"
  /\ requests[s].result = "ok"
  /\ overtaken' = (overtaken \/ Overtakes(s))

(* The request is refused over the page's current token, and waits for no session change. *)
Refused(s, t) ==
  /\ Busy(s) /\ requests[s].tab = t
  /\ requests[s].result = "denied"
  /\ requests[s].token = Current(t)
  /\ \/ requests[s].state = "waiting" /\ requests[s].waits = {}
     \/ SessionChanges(t) = {}
     \/ requests[s].kind \in Changes /\ requests[s].live

Keeps(t) ==
  /\ stored' = stored /\ pending' = pending
  /\ SessionKept(t)
  /\ \A s \in Slots : KeptOrEnded(s)
  /\ \/ tab'[t].cache = tab[t].cache
     \/ \E s \in Slots : /\ Good(s, t) /\ requests[s].kind \in {"read", "write"}
                        /\ tab'[t].cache = tab[t].cache \cup {requests[s].token.user}

Rereads(t) ==
  /\ stored' = stored /\ pending' = pending
  /\ SessionReread(t) /\ tab'[t].token = tab[t].token /\ tab'[t].cache = tab[t].cache
  /\ \A s \in Slots : KeptOrEnded(s) \/ Sent(s, t) \/ Held(s, t)

Hears(t) ==
  /\ t \in pending /\ stored' = stored /\ pending' = pending \ {t}
  /\ SessionReread(t) /\ tab'[t].token = Current(t)
  /\ \A s \in Slots : KeptOrEnded(s)
  /\ \/ Current(t) = tab[t].token /\ tab'[t].cache = tab[t].cache
     \/ /\ tab'[t].cache = {} /\ NoLiveReads(t)'
        /\ tab'[t].token = NoToken => tab'[t].ended # "expired"

Reloads(t) ==
  /\ stored' = stored /\ pending' = pending \ {t}
  /\ tab'[t] = NewPage(IF Readable THEN stored ELSE NoToken)
  /\ \A s \in Slots : KeptOrEnded(s)
  /\ \A s \in Slots : Busy(s)' /\ requests'[s].tab = t =>
       requests'[s].kind # "read" /\ requests'[s].state # "waiting" /\ ~requests'[s].live

Stores(t, token) ==
  /\ Put(t, token)
  /\ tab'[t].token = token
  /\ \A s \in Slots : KeptOrEnded(s)
  /\ \/ /\ token = NoToken /\ tab'[t].cache = {} /\ NoLiveReads(t)'
        /\ tab'[t].ended = "expired" => \E s \in Slots : Refused(s, t)
     \/ /\ token # NoToken
        /\ \E s \in Slots :
             /\ Good(s, t) /\ token = requests[s].fresh
             /\ \/ requests[s].kind = "login" /\ tab'[t].cache = {token.user} /\ NoLiveReads(t)'
                \/ requests[s].kind \in Changes /\ tab'[t].cache = tab[t].cache \cup {token.user}

PageStep(t) ==
  /\ UNCHANGED server
  /\ tab' \in [Tabs -> Pages] /\ requests' \in Requests
  /\ stored' \in Tokens \cup {NoToken} /\ pending' \subseteq Tabs
  /\ \A x \in Tabs \ {t} : tab'[x] = tab[x]
  /\ Keeps(t) \/ Rereads(t) \/ Hears(t) \/ Reloads(t) \/ \E token \in Tokens \cup {NoToken} : Stores(t, token)

(* The page's own steps, each whatever it is. *)
LEMMA SendEffect ==
    ASSUME IInv, NEW t \in Tabs, NEW s \in Slots,
           NEW kind \in {"read", "write", "login"} \cup Changes, NEW user \in Users \cup {NoToken},
           kind = "login" => user \in Users,
           Send(t, s, kind, user)
    PROVE  PageStep(t)
<1>1. TypeOK /\ requests \in Requests /\ WaitsEnd
  BY DEF IInv, TypeOK, Requests
<1>2. PICK p \in Pages : p = ReadToken(tab[t]) /\ p.token = tab[t].token /\ p.cache = tab[t].cache
  BY <1>1, ReadTokenType DEF TypeOK, ReadToken, Pages
<1> DEFINE r == [kind |-> kind, tab |-> t, user |-> user, token |-> p.page, state |-> "sent",
                 result |-> "none", fresh |-> NoToken, retried |-> FALSE, live |-> TRUE,
                 waits |-> {}]
<1>3. /\ r \in Request
      /\ r.kind = kind /\ r.tab = t /\ r.user = user /\ r.token = p.page
      /\ r.state = "sent" /\ r.result = "none" /\ r.fresh = NoToken /\ r.waits = {}
  BY DEF Request, Pages
<1>4. /\ requests' = [requests EXCEPT ![s] = r]
      /\ tab' = [tab EXCEPT ![t] = p]
      /\ UNCHANGED server /\ stored' = stored /\ pending' = pending
      /\ requests[s] = Idle
      /\ kind = "login" <=> tab[t].token = NoToken
  BY <1>2 DEF Send, OnItsPage, storage
<1> HIDE DEF r
<1>5. tab' \in [Tabs -> Pages] /\ tab'[t] = p /\ \A x \in Tabs \ {t} : tab'[x] = tab[x]
  BY <1>1, <1>4 DEF TypeOK
<1>6. requests' \in Requests /\ requests'[s] = r /\ \A x \in Slots \ {s} : requests'[x] = requests[x]
  BY <1>1, <1>3, <1>4 DEF Requests
<1>7. Sent(s, t)
  BY <1>2, <1>3, <1>4, <1>6, IdleIsNoRequest DEF Sent, Busy, Current
<1>8. ASSUME NEW x \in Slots \ {s}
      PROVE  KeptOrEnded(x)
  <2>1. \A w \in Slots : Busy(w) => Busy(w)'
    BY <1>4, <1>6, IdleIsNoRequest DEF Busy
  <2>2. Busy(x) => Kept(x)
    BY <1>1, <1>6, <2>1 DEF Busy, Kept, SameRequest, WaitsEnd, Changes
  <2>3. QED
    BY <1>6, <2>2 DEF KeptOrEnded, AtServer, Busy
<1>9. Rereads(t)
  BY <1>2, <1>4, <1>5, <1>7, <1>8 DEF Rereads, SessionReread, Current
<1>10. QED
  BY <1>1, <1>4, <1>5, <1>6, <1>9 DEF PageStep, TypeOK

LEMMA ReadTokenKeeps ==
    ASSUME TypeOK, NEW t \in Tabs
    PROVE  /\ ReadToken(tab[t]) \in Pages
           /\ ReadToken(tab[t]).token = tab[t].token /\ ReadToken(tab[t]).cache = tab[t].cache
<1>1. tab[t] \in Pages
  BY DEF TypeOK
<1>2. QED
  BY <1>1, ReadTokenType DEF TypeOK, ReadToken, Pages

(* A page that only reads its token again. *)
LEMMA RereadEffect ==
    ASSUME TypeOK, NEW t \in Tabs, NEW p, p = ReadToken(tab[t]), tab' = [tab EXCEPT ![t] = p],
           UNCHANGED <<version, issued, dead, stored, pending>>, requests' \in Requests,
           \A s \in Slots : KeptOrEnded(s) \/ Sent(s, t) \/ Held(s, t)
    PROVE  PageStep(t)
<1>1. /\ tab' \in [Tabs -> Pages] /\ tab'[t] = p /\ \A x \in Tabs \ {t} : tab'[x] = tab[x]
      /\ p.token = tab[t].token /\ p.cache = tab[t].cache
  BY ReadTokenKeeps DEF TypeOK
<1>2. Rereads(t)
  BY <1>1 DEF Rereads, SessionReread, Current
<1>3. QED
  BY <1>1, <1>2 DEF PageStep, TypeOK, server

LEMMA EndSessionEffect ==
    ASSUME IInv, NEW s \in Slots, NEW t \in Tabs, Refused(s, t), NEW p \in Pages,
           EndSession(s, p)
    PROVE  PageStep(t)
<1>1. TypeOK /\ requests \in Requests /\ WaitsEnd
  BY DEF IInv, TypeOK, Requests
<1>2. /\ SignedOut(p, "expired") \in Pages
      /\ SignedOut(p, "expired").token = NoToken /\ SignedOut(p, "expired").cache = {}
  BY DEF SignedOut, Pages
<1>3. PICK q \in Pages : q = SignedOut(p, "expired") /\ q.token = NoToken /\ q.cache = {}
  BY <1>2
<1>4. StoreToken(t, q, NoToken) /\ requests' = Settled(Aborted(t), s) /\ UNCHANGED server
  BY <1>3 DEF EndSession, Refused
<1>5. /\ stored' \in Tokens \cup {NoToken} /\ pending' \subseteq Tabs
      /\ tab' \in [Tabs -> Pages] /\ \A x \in Tabs \ {t} : tab'[x] = tab[x]
      /\ Put(t, NoToken) /\ tab'[t].token = NoToken /\ tab'[t].cache = {}
  BY <1>1, <1>3, <1>4, StoreTokenFacts
<1>6. requests' \in Requests /\ NoLiveReads(t)' /\ \A x \in Slots : KeptOrEnded(x)
  <2>1. ~AtServer(s)
    BY BusyRequest DEF Refused, AtServer, RequestOK
  <2>2. QED
    BY <1>1, <1>4, <2>1, AbortedSettledEnds
<1>7. Stores(t, NoToken)
  BY <1>5, <1>6 DEF Stores
<1>8. QED
  BY <1>4, <1>5, <1>6, <1>7 DEF PageStep

LEMMA UnauthorizedEffect ==
    ASSUME IInv, NEW s \in Slots, NEW t \in Tabs, Busy(s), requests[s].tab = t,
           requests[s].result = "denied", requests[s].token = Current(t) => Refused(s, t),
           Unauthorized(s, ReadToken(tab[t]))
    PROVE  PageStep(t)
<1> DEFINE r == requests[s]
<1>1. TypeOK /\ requests \in Requests /\ WaitsEnd /\ r \in Request
  BY BusyRequest DEF IInv
<1>2. PICK p \in Pages : p = ReadToken(tab[t])
  BY <1>1, ReadTokenKeeps
<1>3. CASE p.page = r.token /\ EndSession(s, p)
  BY <1>2, <1>3, EndSessionEffect DEF Current
<1>4. CASE /\ r.live
           /\ tab' = [tab EXCEPT ![t] = p]
           /\ requests' = [requests EXCEPT ![s].token = p.page, ![s].retried = TRUE,
                                           ![s].state = "sent", ![s].result = "none"]
           /\ UNCHANGED <<server, storage>>
  <2> DEFINE q == [r EXCEPT !.token = p.page, !.retried = TRUE, !.state = "sent", !.result = "none"]
  <2>1. /\ q \in Request /\ q.state = "sent" /\ q.result = "none" /\ q.token = p.page
        /\ q.kind = r.kind /\ q.tab = t /\ q.fresh = r.fresh /\ q.waits = r.waits
    BY <1>1, <1>2 DEF Request, Pages
  <2>2. requests' = [requests EXCEPT ![s] = q]
    BY <1>1, <1>4 DEF Requests
  <2> HIDE DEF q
  <2>3. /\ requests' \in Requests
        /\ requests'[s] = q /\ Busy(s)'
        /\ \A x \in Slots \ {s} : Busy(x) => Kept(x)
        /\ \A x \in Slots \ {s} : ~Busy(x) => ~Busy(x)'
        /\ \A w \in Slots : w \in r.waits => Busy(w)'
    BY <1>1, <2>1, <2>2, OneChanges
  <2>4. Sent(s, t)
    BY <1>2, <1>4, <2>1, <2>3 DEF Sent, Current
  <2>5. \A x \in Slots : KeptOrEnded(x) \/ Sent(x, t)
    BY <2>3, <2>4 DEF KeptOrEnded, AtServer
  <2>6. UNCHANGED <<version, issued, dead, stored, pending>>
    BY <1>4 DEF server, storage
  <2>7. QED
    BY <1>1, <1>2, <1>4, <2>3, <2>5, <2>6, RereadEffect
<1>5. CASE /\ tab' = [tab EXCEPT ![t] = p]
           /\ requests' = Settled(requests, s)
           /\ UNCHANGED <<server, storage>>
  <2>1. UNCHANGED <<version, issued, dead, stored, pending>>
    BY <1>5 DEF server, storage
  <2>2. QED
    <3>1. ~AtServer(s)
      BY <1>1, BusyRequest DEF AtServer, RequestOK
    <3>2. QED
      BY <1>1, <1>2, <1>5, <2>1, <3>1, SettledEnds, RereadEffect
<1>6. QED
  BY <1>2, <1>3, <1>4, <1>5 DEF Unauthorized

LEMMA ResumeEffect ==
    ASSUME IInv, NEW s \in Slots, Resume(s)
    PROVE  requests[s].tab \in Tabs /\ PageStep(requests[s].tab)
<1>1. /\ Busy(s) /\ requests[s].state = "waiting" /\ requests[s].waits = {}
      /\ Unauthorized(s, ReadToken(tab[requests[s].tab]))
  BY DEF Resume, Busy
<1>2. requests[s].result = "denied" /\ requests[s].tab \in Tabs
  BY <1>1, BusyRequest DEF RequestOK, Request
<1>3. QED
  BY <1>1, <1>2, UnauthorizedEffect DEF Refused

LEMMA DeniedEffect ==
    ASSUME IInv, NEW s \in Slots, Busy(s), DeliverDenied(s)
    PROVE  requests[s].tab \in Tabs /\ PageStep(requests[s].tab)
<1> DEFINE r == requests[s]
<1>1. TypeOK /\ requests \in Requests /\ WaitsEnd /\ r \in Request /\ RequestOK(r)
  BY BusyRequest DEF IInv
<1>2. r.result = "denied" /\ r.live /\ r.tab \in Tabs
  BY <1>1 DEF DeliverDenied, Request
<1>3. PICK t \in Tabs : t = r.tab
  BY <1>2
<1>4. PICK p \in Pages : p = ReadToken(tab[t])
  BY <1>1, ReadTokenKeeps
<1>5. CASE ~MustWait(s, p) /\ Unauthorized(s, p)
  <2>1. r.token = Current(t) => Refused(s, t)
    BY <1>2, <1>3, <1>4, <1>5 DEF MustWait, Refused, Current
  <2>2. QED
    BY <1>2, <1>3, <1>4, <1>5, <2>1, UnauthorizedEffect
<1>6. CASE /\ MustWait(s, p)
           /\ tab' = [tab EXCEPT ![t] = p]
           /\ requests' = [requests EXCEPT ![s].state = "waiting", ![s].waits = SessionChanges(t)]
           /\ UNCHANGED <<server, storage>>
  <2> DEFINE q == [r EXCEPT !.state = "waiting", !.waits = SessionChanges(t)]
  <2>1. SessionChanges(t) \subseteq Slots
    BY DEF SessionChanges
  <2>2. /\ q \in Request /\ q.state = "waiting" /\ q.waits = SessionChanges(t)
        /\ q.result = r.result /\ q.token = r.token
        /\ q.kind = r.kind /\ q.tab = t /\ q.fresh = r.fresh
    BY <1>1, <1>3, <2>1 DEF Request
  <2>3. requests' = [requests EXCEPT ![s] = q]
    BY <1>1, <1>6 DEF Requests
  <2> HIDE DEF q
  <2>4. /\ requests' \in Requests
        /\ requests'[s] = q /\ Busy(s)'
        /\ \A x \in Slots \ {s} : Busy(x) => Kept(x)
        /\ \A x \in Slots \ {s} : ~Busy(x) => ~Busy(x)'
    BY <1>1, <2>2, <2>3, OneChanges
  <2>5. Held(s, t)
    BY <1>2, <1>3, <1>6, <2>2, <2>4 DEF Held, MustWait, SessionChanges, Busy, Changes
  <2>6. \A x \in Slots : KeptOrEnded(x) \/ Held(x, t)
    BY <2>4, <2>5 DEF KeptOrEnded, AtServer
  <2>7. UNCHANGED <<version, issued, dead, stored, pending>>
    BY <1>6 DEF server, storage
  <2>8. QED
    BY <1>1, <1>3, <1>4, <1>6, <2>4, <2>6, <2>7, RereadEffect
<1>7. QED
  BY <1>3, <1>4, <1>5, <1>6 DEF DeliverDenied

LEMMA ErrorEffect ==
    ASSUME IInv, NEW s \in Slots, Busy(s), requests[s].state = "answered", DeliverError(s)
    PROVE  requests[s].tab \in Tabs /\ PageStep(requests[s].tab)
<1>1. TypeOK /\ requests \in Requests /\ WaitsEnd /\ requests[s].tab \in Tabs
  BY BusyRequest DEF IInv, Request
<1>2. requests' = Settled(requests, s) /\ UNCHANGED <<version, issued, dead, stored, pending, tab>>
  BY DEF DeliverError, Drop, server, storage
<1>3. requests' \in Requests /\ \A x \in Slots : KeptOrEnded(x)
  BY <1>1, <1>2, SettledEnds DEF AtServer
<1>4. Keeps(requests[s].tab)
  BY <1>2, <1>3 DEF Keeps, SessionKept
<1>5. QED
  BY <1>1, <1>2, <1>3, <1>4 DEF PageStep, TypeOK, server

LEMMA SignedInType ==
    ASSUME NEW p \in Pages, NEW token \in Tokens
    PROVE  LET q == SignedIn(p, token)
           IN  q \in Pages /\ q.token = token /\ q.cache = {token.user}
BY DEF SignedIn, Pages, Tokens

Switched(p, token) == [p EXCEPT !.token = token, !.cache = p.cache \cup {token.user}]

LEMMA SwitchedType ==
    ASSUME NEW p \in Pages, NEW token \in Tokens
    PROVE  LET q == Switched(p, token)
           IN  q \in Pages /\ q.token = token /\ q.cache = p.cache \cup {token.user}
BY DEF Switched, Pages, Tokens

LEMMA OkEffect ==
    ASSUME IInv, NEW s \in Slots, Busy(s), requests[s].state = "answered", DeliverOk(s),
           overtaken' = (overtaken \/ Overtakes(s))
    PROVE  requests[s].tab \in Tabs /\ PageStep(requests[s].tab)
<1> DEFINE r == requests[s]
<1>1. TypeOK /\ requests \in Requests /\ WaitsEnd /\ r \in Request /\ RequestOK(r)
  BY BusyRequest DEF IInv
<1>2. r.result = "ok" /\ r.live /\ UNCHANGED server
  BY DEF DeliverOk
<1>3. PICK t \in Tabs : t = r.tab
  BY <1>1 DEF Request
<1>4. tab[t] \in Pages /\ tab \in [Tabs -> Pages]
  BY <1>1 DEF TypeOK
<1>5. ~Busy(s)' => Good(s, t)
  BY <1>2, <1>3 DEF Good
<1>6. CASE r.kind \in {"read", "write"}
  <2>1. /\ tab' = [tab EXCEPT ![t].cache = @ \cup {r.token.user}]
        /\ requests' = Settled(requests, s) /\ UNCHANGED storage
    BY <1>3, <1>6 DEF DeliverOk, Changes
  <2>2. requests' \in Requests /\ ~Busy(s)' /\ \A x \in Slots : KeptOrEnded(x)
    BY <1>1, <2>1, SettledEnds DEF AtServer
  <2>3. r.token.user \in Users
    BY <1>1, <1>2, <1>6 DEF RequestOK, Request, Tokens
  <2>4. /\ tab' \in [Tabs -> Pages] /\ \A x \in Tabs \ {t} : tab'[x] = tab[x]
        /\ tab'[t].cache = tab[t].cache \cup {r.token.user} /\ SessionKept(t)
    <3> DEFINE q == [tab[t] EXCEPT !.cache = tab[t].cache \cup {r.token.user}]
    <3>1. /\ q \in Pages /\ q.cache = tab[t].cache \cup {r.token.user}
          /\ q.page = tab[t].page /\ q.unsaved = tab[t].unsaved /\ q.token = tab[t].token
      BY <1>4, <2>3 DEF Pages
    <3>2. tab' = [tab EXCEPT ![t] = q]
      BY <1>4, <2>1
    <3> HIDE DEF q
    <3>3. QED
      BY <1>4, <3>1, <3>2 DEF SessionKept
  <2>5. Keeps(t)
    BY <1>5, <1>6, <2>1, <2>2, <2>4 DEF Keeps, storage
  <2>6. QED
    BY <1>1, <1>2, <1>3, <2>1, <2>2, <2>4, <2>5 DEF PageStep, TypeOK, storage
<1>7. ASSUME r.kind \notin {"read", "write"}
      PROVE  r.fresh \in Tokens
  BY <1>1, <1>2, <1>7 DEF RequestOK, Request
<1>8. ASSUME r.kind \notin {"read", "write"}, NEW q \in Pages, NEW token \in Tokens, token = r.fresh,
             q.token = token, StoreToken(t, q, token),
             requests' \in Requests, ~Busy(s)', \A x \in Slots : KeptOrEnded(x),
             \/ r.kind = "login" /\ q.cache = {token.user} /\ NoLiveReads(t)'
             \/ r.kind \in Changes /\ q.cache = tab[t].cache \cup {token.user}
      PROVE  PageStep(t)
  <2>1. /\ stored' \in Tokens \cup {NoToken} /\ pending' \subseteq Tabs
        /\ tab' \in [Tabs -> Pages] /\ \A x \in Tabs \ {t} : tab'[x] = tab[x]
        /\ Put(t, token) /\ tab'[t].token = token /\ tab'[t].cache = q.cache
    BY <1>1, <1>8, StoreTokenFacts
  <2>2. Stores(t, token)
    BY <1>5, <1>8, <2>1, Sentinels DEF Stores
  <2>3. QED
    BY <1>2, <1>8, <2>1, <2>2 DEF PageStep
<1>9. CASE r.kind = "login"
  <2>1. PICK token \in Tokens : token = r.fresh
    BY <1>7, <1>9
  <2>2. PICK q \in Pages : q = SignedIn(tab[t], token) /\ q.token = token /\ q.cache = {token.user}
    BY <1>4, SignedInType
  <2>3. StoreToken(t, q, token) /\ requests' = Settled(Aborted(t), s)
    BY <1>3, <1>9, <2>1, <2>2 DEF DeliverOk, Changes
  <2>4. requests' \in Requests /\ ~Busy(s)' /\ NoLiveReads(t)' /\ \A x \in Slots : KeptOrEnded(x)
    BY <1>1, <2>3, AbortedSettledEnds DEF AtServer
  <2>5. QED
    BY <1>3, <1>8, <1>9, <2>1, <2>2, <2>3, <2>4
<1>10. CASE r.kind \in Changes
  <2>1. PICK token \in Tokens : token = r.fresh
    BY <1>7, <1>10 DEF Changes
  <2>2. PICK q \in Pages : /\ q = Switched(tab[t], token)
                           /\ q.token = token /\ q.cache = tab[t].cache \cup {token.user}
    BY <1>4, SwitchedType
  <2>3. StoreToken(t, q, token) /\ requests' = Settled(requests, s)
    BY <1>3, <1>10, <2>1, <2>2 DEF DeliverOk, Changes, Switched
  <2>4. requests' \in Requests /\ ~Busy(s)' /\ \A x \in Slots : KeptOrEnded(x)
    BY <1>1, <2>3, SettledEnds DEF AtServer
  <2>5. r.kind \notin {"read", "write"}
    BY <1>10 DEF Changes
  <2>6. QED
    BY <1>3, <1>8, <1>10, <2>1, <2>2, <2>3, <2>4, <2>5
<1>11. QED
  BY <1>1, <1>6, <1>9, <1>10 DEF Request

LEMMA LogoutEffect ==
    ASSUME IInv, NEW t \in Tabs, Logout(t)
    PROVE  PageStep(t)
<1>1. TypeOK /\ requests \in Requests /\ WaitsEnd /\ tab[t] \in Pages
  BY DEF IInv, TypeOK, Requests
<1>2. /\ SignedOut(tab[t], "other") \in Pages
      /\ SignedOut(tab[t], "other").token = NoToken /\ SignedOut(tab[t], "other").cache = {}
      /\ SignedOut(tab[t], "other").ended = "other"
  BY <1>1 DEF SignedOut, Pages
<1>3. PICK q \in Pages : /\ q = SignedOut(tab[t], "other")
                        /\ q.token = NoToken /\ q.cache = {} /\ q.ended = "other"
  BY <1>2
<1>4. StoreToken(t, q, NoToken) /\ requests' = Aborted(t) /\ UNCHANGED server
  BY <1>3 DEF Logout
<1>5. /\ stored' \in Tokens \cup {NoToken} /\ pending' \subseteq Tabs
      /\ tab' \in [Tabs -> Pages] /\ \A x \in Tabs \ {t} : tab'[x] = tab[x]
      /\ Put(t, NoToken) /\ tab'[t].token = NoToken /\ tab'[t].cache = {} /\ tab'[t].ended = "other"
  BY <1>1, <1>3, <1>4, StoreTokenFacts
<1>6. requests' \in Requests /\ NoLiveReads(t)' /\ \A x \in Slots : KeptOrEnded(x)
  BY <1>1, <1>4, AbortedEnds
<1>7. Stores(t, NoToken)
  BY <1>5, <1>6 DEF Stores
<1>8. QED
  BY <1>4, <1>5, <1>6, <1>7 DEF PageStep

LEMMA StorageEventEffect ==
    ASSUME IInv, NEW t \in Tabs, StorageEvent(t)
    PROVE  PageStep(t)
<1>1. TypeOK /\ requests \in Requests /\ WaitsEnd /\ tab \in [Tabs -> Pages]
  BY DEF IInv, TypeOK, Requests
<1>2. PICK p \in Pages : p = ReadToken(tab[t]) /\ p.token = tab[t].token /\ p.cache = tab[t].cache
  BY <1>1, ReadTokenKeeps
<1>3. /\ t \in pending /\ stored' = stored /\ pending' = pending \ {t}
      /\ UNCHANGED server
  BY DEF StorageEvent
<1>4. CASE p.page = tab[t].token /\ tab' = [tab EXCEPT ![t] = p] /\ UNCHANGED requests
  <2>1. tab' \in [Tabs -> Pages] /\ tab'[t] = p /\ \A x \in Tabs \ {t} : tab'[x] = tab[x]
    BY <1>1, <1>4
  <2>2. \A x \in Slots : KeptOrEnded(x)
    BY <1>1, <1>4 DEF KeptOrEnded, AtServer, Kept, SameRequest, Busy, WaitsEnd, Changes
  <2>3. Hears(t)
    BY <1>2, <1>3, <1>4, <2>1, <2>2 DEF Hears, SessionReread, Current
  <2>4. QED
    BY <1>1, <1>3, <1>4, <2>1, <2>3 DEF PageStep, TypeOK
<1>5. CASE /\ p.page # tab[t].token
           /\ tab' = [tab EXCEPT ![t] = [p EXCEPT !.token = p.page, !.cache = {},
                                          !.ended = IF p.page = NoToken THEN "other" ELSE p.ended]]
           /\ requests' = Aborted(t)
  <2> DEFINE q == [p EXCEPT !.token = p.page, !.cache = {},
                            !.ended = IF p.page = NoToken THEN "other" ELSE p.ended]
  <2>1. /\ q \in Pages /\ q.page = p.page /\ q.unsaved = p.unsaved /\ q.token = p.page
        /\ q.cache = {} /\ (q.token = NoToken => q.ended # "expired")
    BY <1>2 DEF Pages
  <2>2. tab' = [tab EXCEPT ![t] = q]
    BY <1>5
  <2> HIDE DEF q
  <2>3. tab' \in [Tabs -> Pages] /\ tab'[t] = q /\ \A x \in Tabs \ {t} : tab'[x] = tab[x]
    BY <1>1, <2>1, <2>2
  <2>4. requests' \in Requests /\ NoLiveReads(t)' /\ \A x \in Slots : KeptOrEnded(x)
    BY <1>1, <1>5, AbortedEnds
  <2>5. Hears(t)
    BY <1>2, <1>3, <1>5, <2>1, <2>3, <2>4 DEF Hears, SessionReread, Current
  <2>6. QED
    BY <1>1, <1>3, <2>3, <2>4, <2>5 DEF PageStep, TypeOK
<1>6. QED
  BY <1>2, <1>4, <1>5 DEF StorageEvent

LEMMA ReloadEffect ==
    ASSUME IInv, NEW t \in Tabs, Reload(t)
    PROVE  PageStep(t)
<1>1. TypeOK /\ requests \in Requests /\ WaitsEnd /\ tab \in [Tabs -> Pages]
  BY DEF IInv, TypeOK, Requests
<1>2. /\ tab' = [tab EXCEPT ![t] = NewPage(IF Readable THEN stored ELSE NoToken)]
      /\ stored' = stored /\ pending' = pending \ {t} /\ UNCHANGED server
      /\ requests' = Reloaded(t)
  BY DEF Reload, Reloaded
<1>3. PICK q \in Pages : q = NewPage(IF Readable THEN stored ELSE NoToken)
  BY <1>1, NewPageType DEF TypeOK
<1>4. tab' \in [Tabs -> Pages] /\ tab'[t] = q /\ \A x \in Tabs \ {t} : tab'[x] = tab[x]
  BY <1>1, <1>2, <1>3
<1>5. /\ requests' \in Requests
      /\ \A x \in Slots : KeptOrEnded(x)
      /\ \A x \in Slots : Busy(x)' /\ requests'[x].tab = t =>
           requests'[x].kind # "read" /\ requests'[x].state # "waiting" /\ ~requests'[x].live
  BY <1>1, <1>2, ReloadEnds
<1>6. Reloads(t)
  BY <1>2, <1>3, <1>4, <1>5 DEF Reloads
<1>7. QED
  BY <1>1, <1>2, <1>4, <1>5, <1>6 DEF PageStep, TypeOK

(* Every step is a step of an account or of a page. *)
LEMMA CountsType ==
    ASSUME TypeOK, [Next]_vars
    PROVE  faults' \in Nat /\ overtaken' \in BOOLEAN /\ (overtaken => overtaken')
<1>1. \A t, p, token : StoreToken(t, p, token) => faults' \in {faults, faults + 1}
  BY DEF StoreToken
<1>2. \A s, p : EndSession(s, p) => faults' \in {faults, faults + 1}
  BY <1>1 DEF EndSession
<1>3. \A s, p : Unauthorized(s, p) => faults' \in {faults, faults + 1}
  BY <1>2 DEF Unauthorized, storage
<1>4. ASSUME NEW s \in Slots, Deliver(s)
      PROVE  faults' \in {faults, faults + 1}
  <2>1. requests[s].kind \in {"read", "write", "login"} \cup Changes
    BY <1>4, BusyIsRequest DEF Deliver, Busy, TypeOK, Requests, Request
  <2>2. DeliverOk(s) => faults' \in {faults, faults + 1}
    BY <1>1, <2>1 DEF DeliverOk, storage
  <2>3. DeliverDenied(s) => faults' \in {faults, faults + 1}
    BY <1>3 DEF DeliverDenied, storage
  <2>4. DeliverError(s) => faults' = faults
    BY DEF DeliverError, Drop, storage
  <2>5. QED
    BY <1>4, <2>2, <2>3, <2>4 DEF Deliver
<1>5. Step => faults' \in {faults, faults + 1}
  <2>1. \A t \in Tabs : Logout(t) \/ StorageEvent(t) \/ Reload(t) => faults' \in {faults, faults + 1}
    BY <1>1 DEF Logout, StorageEvent, Reload, Fault
  <2>2. \A t, s, kind, user : Send(t, s, kind, user) => faults' = faults
    BY DEF Send, storage
  <2>3. \A s : Serve(s) \/ Commit(s) \/ Lose(s) \/ Resume(s) => faults' \in {faults, faults + 1}
    BY <1>3 DEF Serve, Commit, Lose, Resume, Fault, storage
  <2>4. Expire => faults' = faults + 1
    BY DEF Expire, Fault
  <2>5. QED
    BY <2>1, <2>2, <2>3, <2>4 DEF Step
<1>6. faults' \in {faults, faults + 1}
  BY <1>4, <1>5 DEF Next, vars
<1>7. overtaken' = overtaken \/ \E s : overtaken' = (overtaken \/ Overtakes(s))
  BY DEF Next, vars
<1>8. overtaken' \in BOOLEAN /\ (overtaken => overtaken')
  BY <1>7, Zenon DEF TypeOK
<1>9. QED
  BY <1>6, <1>8 DEF TypeOK

OneStep == (\E s : AccountStep(s)) \/ \E t \in Tabs : PageStep(t)

LEMMA DeliverEffect ==
    ASSUME IInv, NEW s \in Slots, Deliver(s), overtaken' = (overtaken \/ Overtakes(s))
    PROVE  requests[s].tab \in Tabs /\ PageStep(requests[s].tab)
BY OkEffect, DeniedEffect, ErrorEffect DEF Deliver, Busy

LEMMA NextOneStep == ASSUME IInv, [Next]_vars PROVE OneStep
<1>1. ASSUME NEW t \in Tabs, Logout(t) \/ StorageEvent(t) \/ Reload(t)
      PROVE  OneStep
  BY <1>1, LogoutEffect, StorageEventEffect, ReloadEffect DEF OneStep
<1>2. ASSUME NEW t \in Tabs, NEW s \in Slots, NEW kind \in {"read", "write"} \cup Changes,
             Send(t, s, kind, NoToken)
      PROVE  OneStep
  BY <1>2, SendEffect DEF OneStep, Changes
<1>3. ASSUME NEW t \in Tabs, NEW s \in Slots, NEW user \in Users, Send(t, s, "login", user)
      PROVE  OneStep
  BY <1>3, SendEffect DEF OneStep
<1>4. ASSUME NEW s \in Slots, Serve(s) \/ Commit(s) \/ Lose(s) \/ Resume(s)
      PROVE  OneStep
  BY <1>4, ServeEffect, CommitEffect, LoseEffect, ResumeEffect DEF OneStep
<1>5. ASSUME Expire
      PROVE  OneStep
  BY <1>5, ExpireEffect DEF OneStep
<1>6. ASSUME NEW s \in Slots, Deliver(s), overtaken' = (overtaken \/ Overtakes(s))
      PROVE  OneStep
  BY <1>6, DeliverEffect DEF OneStep
<1>7. ASSUME UNCHANGED vars
      PROVE  OneStep
  <2>1. AccountsGrow /\ TypeOK /\ WaitsEnd /\ UNCHANGED <<stored, pending, tab, requests>>
    BY <1>7 DEF vars, IInv, AccountsGrow, TypeOK
  <2>2. \A x \in Slots : IF Busy(x) THEN Kept(x) ELSE ~Busy(x)'
    BY <2>1 DEF Kept, SameRequest, Busy, WaitsEnd, Changes
  <2>3. QED
    BY <2>1, <2>2 DEF OneStep, AccountStep, TypeOK, Requests
<1>8. QED
  BY <1>1, <1>2, <1>3, <1>4, <1>5, <1>6, <1>7 DEF Next, Step

---------------------------------------------------------------------------
(* What every step preserves.                                               *)

LEMMA TypeStep == ASSUME IInv, [Next]_vars PROVE TypeOK'
<1>1. TypeOK /\ faults' \in Nat /\ overtaken' \in BOOLEAN
  BY CountsType DEF IInv
<1>2. ASSUME NEW s, AccountStep(s)
      PROVE  TypeOK'
  BY <1>1, <1>2 DEF AccountStep, AccountsGrow, TypeOK, Requests
<1>3. ASSUME NEW t \in Tabs, PageStep(t)
      PROVE  TypeOK'
  BY <1>1, <1>3 DEF PageStep, TypeOK, Requests, server
<1>4. QED
  BY <1>2, <1>3, NextOneStep DEF OneStep

(* Where the tokens a page has after its step come from. *)
LEMMA PageTokens ==
    ASSUME IInv, NEW t \in Tabs, PageStep(t)
    PROVE  /\ stored' \in {stored, tab'[t].page}
           /\ \A token \in {tab'[t].page, tab'[t].token} :
                \/ token \in {NoToken, stored, tab[t].page, tab[t].token}
                \/ \E c \in Slots :
                     /\ Busy(c) /\ ~Busy(c)' /\ requests[c].tab = t /\ requests[c].fresh = token
                     /\ Fresh(c) \/ requests[c].token = token
<1>0. TypeOK
  BY DEF IInv
<1>1. Current(t) \in {tab[t].page, stored}
  BY <1>0 DEF Current, ReadToken, TypeOK, Pages
<1>2. CASE Keeps(t)
  BY <1>2 DEF Keeps, SessionKept
<1>3. CASE Rereads(t)
  BY <1>1, <1>3 DEF Rereads, SessionReread
<1>4. CASE Hears(t)
  BY <1>1, <1>4 DEF Hears, SessionReread
<1>5. CASE Reloads(t)
  BY <1>5 DEF Reloads, NewPage
<1>6. ASSUME NEW token \in Tokens \cup {NoToken}, Stores(t, token)
      PROVE  /\ stored' \in {stored, tab'[t].page}
             /\ token = tab'[t].page /\ token = tab'[t].token
             /\ \/ token = NoToken
                \/ \E c \in Slots :
                     /\ Busy(c) /\ ~Busy(c)' /\ requests[c].tab = t /\ requests[c].fresh = token
                     /\ Fresh(c) \/ requests[c].token = token
  <2>1. \A c \in Slots :
          Busy(c) /\ requests[c].kind \in {"login"} \cup Changes /\ requests[c].result = "ok" =>
            Fresh(c) \/ requests[c].token = requests[c].fresh
    BY BusyRequest DEF Fresh, RequestOK, Changes
  <2>2. QED
    BY <1>6, <2>1 DEF Stores, Put, Good
<1>7. QED
  BY <1>2, <1>3, <1>4, <1>5, <1>6 DEF PageStep

(* What becomes of a request when a page takes a step. *)
LEMMA PageRequests ==
    ASSUME NEW t \in Tabs, PageStep(t), NEW s \in Slots, Busy(s)'
    PROVE  Kept(s) \/ Sent(s, t) \/ Held(s, t)
BY DEF PageStep, Keeps, Rereads, Hears, Reloads, Stores, KeptOrEnded

LEMMA GenuineStep == ASSUME IInv, OneStep, TypeOK' PROVE TokensGenuine'
<1>1. TypeOK /\ TokensGenuine /\ Genuine(NoToken)
  BY DEF IInv, Genuine
<1>2. ASSUME NEW s, AccountStep(s)
      PROVE  TokensGenuine'
  <2>1. /\ AccountsGrow /\ stored' = stored /\ tab' = tab
        /\ \A x \in Slots : Busy(x)' => Busy(x) /\ (Kept(x) \/ Served(x))
    BY <1>2 DEF AccountStep
  <2>2. Genuine(stored)'
    BY <1>1, <2>1, GenuineStays DEF TokensGenuine, TypeOK, Genuine
  <2>3. ASSUME NEW t \in Tabs
        PROVE  Genuine(tab[t].page)' /\ Genuine(tab[t].token)'
    <3>1. PICK page \in Tokens \cup {NoToken}, token \in Tokens \cup {NoToken} :
            page = tab[t].page /\ token = tab[t].token
      BY <1>1 DEF TypeOK, Pages
    <3>2. Genuine(page)' /\ Genuine(token)'
      BY <1>1, <2>1, <3>1, GenuineStays DEF TokensGenuine
    <3>3. QED
      BY <2>1, <3>1, <3>2 DEF Genuine
  <2>4. ASSUME NEW x \in Slots, Busy(x)'
        PROVE  Genuine(requests[x].token)' /\ Genuine(requests[x].fresh)'
    <3>1. Busy(x) /\ requests[x] \in Request /\ Genuine(requests[x].token) /\ Genuine(requests[x].fresh)
      BY <2>1, <2>4, BusyRequest
    <3>2. PICK fresh \in Tokens \cup {NoToken}, token \in Tokens \cup {NoToken} :
            fresh = requests[x].fresh /\ token = requests[x].token
      BY <3>1 DEF Request
    <3>3. Genuine(fresh)' /\ Genuine(token)' /\ Genuine(NoToken)'
      BY <1>1, <2>1, <3>1, <3>2, GenuineStays
    <3>4. requests'[x].token = token
      BY <2>1, <2>4, <3>2 DEF Kept, Served, SameRequest
    <3>5. requests'[x].fresh \in {NoToken, fresh, token} \/ Genuine(requests[x].fresh)'
      BY <2>1, <2>4, <3>2 DEF Kept, Served, SameRequest
    <3>6. QED
      BY <3>3, <3>4, <3>5 DEF Genuine
  <2>5. QED
    BY <2>2, <2>3, <2>4 DEF TokensGenuine
<1>3. ASSUME NEW t \in Tabs, PageStep(t)
      PROVE  TokensGenuine'
  <2>1. UNCHANGED <<version, issued>>
    BY <1>3 DEF PageStep, server
  <2>2. ASSUME NEW token \in {NoToken, stored, tab[t].page, tab[t].token}
                              \cup {requests[c].fresh : c \in {x \in Slots : Busy(x)}}
        PROVE  Genuine(token) /\ Genuine(token)'
    BY <1>1, <2>1, <2>2 DEF TokensGenuine, Genuine
  <2>3. Genuine(tab[t].page)' /\ Genuine(tab[t].token)' /\ Genuine(stored)'
    <3>1. PICK page \in Tokens \cup {NoToken}, token \in Tokens \cup {NoToken}, shared \in Tokens \cup {NoToken} :
            page = tab'[t].page /\ token = tab'[t].token /\ shared = stored'
      BY DEF TypeOK, Pages
    <3>2. /\ page \in {NoToken, stored, tab[t].page, tab[t].token}
                              \cup {requests[c].fresh : c \in {x \in Slots : Busy(x)}}
          /\ token \in {NoToken, stored, tab[t].page, tab[t].token}
                              \cup {requests[c].fresh : c \in {x \in Slots : Busy(x)}}
          /\ shared \in {stored, page}
      BY <1>1, <1>3, <3>1, PageTokens
    <3>3. Genuine(page)' /\ Genuine(token)' /\ Genuine(shared)'
      BY <2>2, <3>2
    <3>4. QED
      BY <3>1, <3>3 DEF Genuine
  <2>4. ASSUME NEW x \in Tabs
        PROVE  Genuine(tab[x].page)' /\ Genuine(tab[x].token)'
    <3>1. x # t => tab'[x] = tab[x]
      BY <1>3 DEF PageStep
    <3>2. QED
      BY <1>1, <2>1, <2>3, <3>1 DEF TokensGenuine, Genuine
  <2>5. ASSUME NEW x \in Slots, Busy(x)'
        PROVE  Genuine(requests[x].token)' /\ Genuine(requests[x].fresh)'
    <3>1. Kept(x) \/ Sent(x, t) \/ Held(x, t)
      BY <1>3, <2>5, PageRequests
    <3>2. /\ requests'[x].token = Current(t) \/ (Busy(x) /\ requests'[x].token = requests[x].token)
          /\ requests'[x].fresh = NoToken \/ (Busy(x) /\ requests'[x].fresh = requests[x].fresh)
      BY <3>1 DEF Kept, SameRequest, Sent, Held
    <3>3. Current(t) \in {tab[t].page, stored}
      BY <1>1 DEF Current, ReadToken, TypeOK, Pages
    <3>4. PICK token : token = requests'[x].token
      OBVIOUS
    <3>5. PICK fresh : fresh = requests'[x].fresh
      OBVIOUS
    <3>6. Genuine(token) /\ Genuine(fresh)
      BY <1>1, <3>2, <3>3, <3>4, <3>5 DEF TokensGenuine
    <3>7. Genuine(token)' /\ Genuine(fresh)'
      BY <2>1, <3>6 DEF Genuine
    <3>8. QED
      BY <3>4, <3>5, <3>7 DEF Genuine
  <2>6. QED
    BY <2>3, <2>4, <2>5 DEF TokensGenuine
<1>4. QED
  BY <1>2, <1>3 DEF OneStep

LEMMA KeptOK ==
    ASSUME TypeOK, AccountsGrow, NEW s \in Slots, requests[s] \in Request, RequestOK(requests[s]), Kept(s)
    PROVE  RequestOK(requests[s])'
<1>1. PICK token \in Tokens \cup {NoToken} : token = requests[s].token
  BY DEF Request
<1>2. /\ requests'[s].kind = requests[s].kind /\ requests'[s].state = requests[s].state
      /\ requests'[s].result = requests[s].result /\ requests'[s].fresh = requests[s].fresh
      /\ requests'[s].token = token /\ requests'[s].user = requests[s].user
  BY <1>1 DEF Kept, SameRequest
<1>3. requests[s].result = "denied" => Revoked(requests[s].token)'
  <2>1. requests[s].result = "denied" => Revoked(token)'
    BY <1>1, RevokedStays DEF RequestOK
  <2>2. QED
    BY <1>2, <2>1 DEF Revoked
<1>4. requests[s].result = "ok" /\ requests[s].kind = "password" => token.version < version'[token.user]
  <2>1. token # NoToken => token.user \in Users /\ token.version \in Nat
    BY DEF Tokens
  <2>2. QED
    BY <1>1, <2>1 DEF RequestOK, AccountsGrow, TypeOK
<1>5. QED
  BY <1>1, <1>2, <1>3, <1>4 DEF RequestOK

LEMMA RequestsStep == ASSUME IInv, OneStep, TypeOK' PROVE RequestsOK'
<1>1. TypeOK
  BY DEF IInv
<1>2. ASSUME NEW x \in Slots, AccountsGrow, Busy(x), Kept(x)
      PROVE  RequestOK(requests[x])'
  BY <1>1, <1>2, BusyRequest, KeptOK
<1>3. ASSUME NEW s, AccountStep(s)
      PROVE  RequestsOK'
  BY <1>2, <1>3 DEF AccountStep, RequestsOK, Served
<1>4. ASSUME NEW t \in Tabs, PageStep(t), NEW x \in Slots, Busy(x)'
      PROVE  RequestOK(requests[x])'
  <2>1. AccountsGrow /\ UNCHANGED <<version, dead>>
    BY <1>1, <1>4 DEF PageStep, server, AccountsGrow, TypeOK
  <2>2. CASE Kept(x)
    BY <1>2, <2>1, <2>2 DEF Kept, SameRequest
  <2>3. CASE Sent(x, t)
    <3>1. requests'[x].kind = "login" => requests'[x].user \in Users
      BY <2>3, BusyRequest DEF Sent, RequestOK
    <3>2. QED
      BY <2>3, <3>1 DEF RequestOK, Sent
  <2>4. CASE Held(x, t)
    <3>1. requests[x] \in Request /\ RequestOK(requests[x])
      BY <2>4, BusyRequest DEF Held
    <3>2. Revoked(requests[x].token)'
      BY <2>1, <2>4, <3>1 DEF Held, RequestOK, Revoked
    <3>3. QED
      BY <2>4, <3>1, <3>2 DEF RequestOK, Held, Request
  <2>5. QED
    BY <1>4, <2>2, <2>3, <2>4, PageRequests
<1>5. QED
  BY <1>3, <1>4 DEF OneStep, RequestsOK

LEMMA WaitsStep == ASSUME IInv, OneStep, TypeOK' PROVE WaitsEnd'
<1>1. WaitsEnd /\ TypeOK /\ requests \in Requests /\ requests' \in Requests
  BY DEF IInv, TypeOK, Requests
<1>2. \A s \in Slots : Busy(s)' => requests'[s].waits \subseteq Slots
  BY <1>1, IdleIsNoRequest DEF Requests, Busy, Request
<1>3. SUFFICES ASSUME NEW s \in Slots, Busy(s)', NEW w \in Slots, w \in requests'[s].waits
               PROVE  requests'[w].kind \in Changes /\ requests'[w].state # "waiting"
  BY <1>2 DEF WaitsEnd, Busy
<1>4. Busy(s) /\ w \in requests[s].waits =>
        requests[w].kind \in Changes /\ requests[w].state # "waiting" /\ Busy(w)
  BY <1>1 DEF WaitsEnd, Busy, Changes
<1>5. ASSUME NEW c, AccountStep(c)
      PROVE  requests'[w].kind \in Changes /\ requests'[w].state # "waiting"
  BY <1>3, <1>4, <1>5 DEF AccountStep, Kept, Served, SameRequest
<1>6. ASSUME NEW t \in Tabs, PageStep(t)
      PROVE  requests'[w].kind \in Changes /\ requests'[w].state # "waiting"
  <2>1. CASE Held(s, t)
    <3>1. w \in SessionChanges(t) /\ Kept(w)
      BY <1>3, <2>1 DEF Held
    <3>2. requests[w].kind \in Changes /\ Busy(w)
      BY <3>1 DEF SessionChanges, Busy, Changes
    <3>3. requests[w].state # "waiting"
      BY <3>2, BusyRequest DEF RequestOK, Changes
    <3>4. QED
      BY <3>1, <3>2, <3>3 DEF Kept, SameRequest
  <2>2. CASE Kept(s) \/ Sent(s, t)
    <3>1. Busy(s) /\ w \in requests[s].waits /\ Busy(w)'
      BY <1>3, <2>2 DEF Kept, SameRequest, Sent
    <3>2. Kept(w) \/ Sent(w, t) \/ Held(w, t)
      BY <1>6, <3>1, PageRequests
    <3>3. QED
      BY <1>4, <3>1, <3>2 DEF Kept, SameRequest, Sent, Held
  <2>3. QED
    BY <1>3, <1>6, <2>1, <2>2, PageRequests
<1>7. QED
  BY <1>5, <1>6 DEF OneStep

(* What the page reads, by the field. *)
Read(t) == IF Readable /\ stored # tab[t].unsaved THEN stored ELSE tab[t].page

LEMMA ReadIsCurrent ==
    ASSUME TypeOK, NEW t \in Tabs
    PROVE  /\ ReadToken(tab[t]).page = Read(t) /\ Current(t) = Read(t)
           /\ ReadToken(tab[t]).unsaved = IF Readable /\ stored # tab[t].unsaved THEN Unset ELSE tab[t].unsaved
BY DEF TypeOK, Pages, ReadToken, Current, Read

LEMMA AgreeStep == ASSUME IInv, OneStep, TypeOK' PROVE TabAgrees' /\ PagesOK'
<1>1. TypeOK /\ TabAgrees /\ PagesOK /\ Readable \in BOOLEAN
  BY SessionAssumption DEF IInv
<1>2. \A x \in Tabs : x \notin pending => tab[x].token = Read(x)
  BY <1>1, ReadIsCurrent DEF TabAgrees
<1>3. SUFFICES (\A x \in Tabs : x \notin pending => tab[x].token = Read(x))' /\ PagesOK'
  <2>1. (\A x \in Tabs : ReadToken(tab[x]).page = Read(x))'
    BY DEF TypeOK, Pages, ReadToken, Read
  <2>2. QED
    BY <2>1 DEF TabAgrees
<1>4. ASSUME NEW s, AccountStep(s)
      PROVE  (\A x \in Tabs : x \notin pending => tab[x].token = Read(x))' /\ PagesOK'
  BY <1>1, <1>2, <1>4 DEF AccountStep, Read, PagesOK, PageOK
<1>5. ASSUME NEW t \in Tabs, PageStep(t)
      PROVE  (\A x \in Tabs : x \notin pending => tab[x].token = Read(x))' /\ PagesOK'
  <2>1. \A x \in Tabs \ {t} : tab'[x] = tab[x]
    BY <1>5 DEF PageStep
  <2>2. stored # Unset
    BY <1>1, Sentinels DEF TypeOK
  <2>3. /\ Current(t) = Read(t)
        /\ ReadToken(tab[t]).unsaved = IF Readable /\ stored # tab[t].unsaved THEN Unset ELSE tab[t].unsaved
    BY <1>1, ReadIsCurrent
  <2>4. CASE Keeps(t)
    BY <1>1, <1>2, <2>1, <2>4 DEF Keeps, SessionKept, Read, PagesOK, PageOK
  <2>5. CASE Rereads(t)
    BY <1>1, <1>2, <2>1, <2>2, <2>3, <2>5 DEF Rereads, SessionReread, Read, PagesOK, PageOK
  <2>6. CASE Hears(t)
    BY <1>1, <1>2, <2>1, <2>2, <2>3, <2>6 DEF Hears, SessionReread, Read, PagesOK, PageOK
  <2>7. CASE Reloads(t)
    BY <1>1, <1>2, <2>1, <2>2, <2>7 DEF Reloads, NewPage, Read, PagesOK, PageOK
  <2>8. ASSUME NEW token \in Tokens \cup {NoToken}, Stores(t, token)
        PROVE  (\A x \in Tabs : x \notin pending => tab[x].token = Read(x))' /\ PagesOK'
    <3>1. PICK ok \in BOOLEAN :
            /\ ok => Readable
            /\ stored' = IF ok THEN token ELSE stored
            /\ pending' = IF ok /\ token # stored THEN pending \cup (Tabs \ {t}) ELSE pending
            /\ tab'[t].unsaved = IF ok \/ ~Readable THEN Unset ELSE stored
      BY <2>8 DEF Stores, Put
    <3>2. tab'[t].page = token /\ tab'[t].token = token /\ token # Unset
      BY <2>8, Sentinels DEF Stores, Put
    <3>3. QED
      BY <1>1, <1>2, <2>1, <2>2, <3>1, <3>2 DEF Read, PagesOK, PageOK
  <2>9. QED
    BY <1>5, <2>4, <2>5, <2>6, <2>7, <2>8 DEF PageStep
<1>6. QED
  BY <1>4, <1>5 DEF OneStep

LEMMA FreshStep == ASSUME IInv, OneStep, TypeOK', RequestsOK' PROVE FreshIsNew'
<1>1. TypeOK /\ TokensGenuine /\ FreshIsNew
  BY DEF IInv
<1>2. SUFFICES ASSUME NEW s \in Slots, Fresh(s)', NEW token, token = requests'[s].fresh
               PROVE  /\ stored' # token
                      /\ \A t \in Tabs : tab'[t].page # token /\ tab'[t].token # token
                      /\ \A x \in Slots \ {s} :
                           Busy(x)' => requests'[x].token # token /\ requests'[x].fresh # token
                      /\ requests'[s].token # token
  BY DEF FreshIsNew
<1>3. Busy(s)' /\ token # NoToken
  BY <1>2 DEF Fresh, Busy, RequestsOK, RequestOK
<1>4. ASSUME Kept(s)
      PROVE  /\ Fresh(s) /\ token = requests[s].fresh /\ token # NoToken /\ Genuine(token)
             /\ stored # token
             /\ \A t \in Tabs : tab[t].page # token /\ tab[t].token # token
             /\ \A x \in Slots \ {s} :
                  Busy(x) => requests[x].token # token /\ requests[x].fresh # token
             /\ requests'[s].token # token
  <2>1. Fresh(s) /\ token = requests[s].fresh /\ Busy(s) /\ requests'[s].token = requests[s].token
    BY <1>2, <1>4 DEF Fresh, Kept, SameRequest
  <2>2. QED
    BY <1>1, <1>3, <2>1 DEF FreshIsNew, TokensGenuine
<1>5. ASSUME NEW c, AccountStep(c)
      PROVE  /\ stored' # token
             /\ \A t \in Tabs : tab'[t].page # token /\ tab'[t].token # token
             /\ \A x \in Slots \ {s} :
                  Busy(x)' => requests'[x].token # token /\ requests'[x].fresh # token
             /\ requests'[s].token # token
  <2>1. /\ stored' = stored /\ tab' = tab
        /\ \A x \in Slots : Busy(x)' => Busy(x) /\ (Kept(x) \/ (x = c /\ Served(x)))
    BY <1>5 DEF AccountStep
  <2>2. CASE Kept(s)
    <3>1. ASSUME NEW x \in Slots \ {s}, Busy(x)'
          PROVE  requests'[x].token # token /\ requests'[x].fresh # token
      <4>1. Busy(x) /\ (Kept(x) \/ Served(x))
        BY <2>1, <3>1
      <4>2. requests[x].token # token /\ requests[x].fresh # token
        BY <1>4, <2>2, <4>1
      <4>3. requests'[x].token # token
        BY <4>1, <4>2 DEF Kept, Served, SameRequest
      <4>4. issued \in Nat /\ token.id <= issued
        BY <1>1, <1>4, <2>2 DEF TypeOK, Genuine
      <4>5. requests'[x].fresh # token
        BY <1>3, <4>1, <4>2, <4>4 DEF Kept, Served
      <4>6. QED
        BY <4>3, <4>5
    <3>2. QED
      BY <1>4, <2>1, <2>2, <3>1
  <2>3. CASE s = c /\ Served(s)
    <3>1. token.id = issued + 1 /\ issued \in Nat
      BY <1>1, <1>2, <2>3 DEF Served, TypeOK
    <3>2. \A old : Genuine(old) => old # token
      BY <1>3, <3>1 DEF Genuine
    <3>3. \A x \in Slots : Busy(x)' => requests'[x].token # token
      BY <1>1, <2>1, <3>2 DEF Kept, Served, SameRequest, TokensGenuine
    <3>4. \A x \in Slots \ {s} : Busy(x)' => requests'[x].fresh # token
      BY <1>1, <2>1, <2>3, <3>2 DEF Kept, TokensGenuine
    <3>5. QED
      BY <1>1, <1>3, <2>1, <3>2, <3>3, <3>4 DEF TokensGenuine
  <2>4. QED
    BY <1>3, <2>1, <2>2, <2>3
<1>6. ASSUME NEW t \in Tabs, PageStep(t)
      PROVE  /\ stored' # token
             /\ \A x \in Tabs : tab'[x].page # token /\ tab'[x].token # token
             /\ \A x \in Slots \ {s} :
                  Busy(x)' => requests'[x].token # token /\ requests'[x].fresh # token
             /\ requests'[s].token # token
  <2>1. Kept(s)
    BY <1>2, <1>3, <1>6, PageRequests DEF Fresh, Sent, Held
  <2>2. tab'[t].page # token /\ tab'[t].token # token
    BY <1>1, <1>3, <1>4, <1>6, <2>1, PageTokens
  <2>3. stored' # token
    BY <1>1, <1>4, <1>6, <2>1, <2>2, PageTokens
  <2>4. ASSUME NEW x \in Slots \ {s}, Busy(x)'
        PROVE  requests'[x].token # token /\ requests'[x].fresh # token
    <3>1. Current(t) # token
      BY <1>1, <1>4, <2>1, ReadIsCurrent DEF Read
    <3>2. Kept(x) \/ Sent(x, t) \/ Held(x, t)
      BY <1>6, <2>4, PageRequests
    <3>3. QED
      BY <1>4, <2>1, <3>1, <3>2 DEF Kept, SameRequest, Sent, Held
  <2>5. QED
    BY <1>4, <1>6, <2>1, <2>2, <2>3, <2>4 DEF PageStep
<1>7. QED
  BY <1>5, <1>6 DEF OneStep

(* Only a page that reads its token again sends a request or holds one back. *)
LEMMA OnlyRereads ==
    ASSUME NEW t \in Tabs, PageStep(t), NEW s \in Slots, Busy(s)', ~Kept(s)
    PROVE  Rereads(t)
BY DEF PageStep, Keeps, Hears, Reloads, Stores, KeptOrEnded

(* What is so of a mutation's good answer that does not come too late. *)
LEMMA InTime ==
    ASSUME NEW t \in Tabs, NEW c \in Slots, Good(c, t), ~overtaken',
           requests[c].kind \in Changes \cup {"write"}
    PROVE  /\ tab[t].token # NoToken /\ tab[t].token.user = requests[c].token.user
           /\ requests[c].kind \in Changes => tab[t].token = Current(t)
           /\ requests[c].kind = "name" => tab[t].token = requests[c].token
BY DEF Good, Overtakes, Current

(* A name that is answered in time brings the token that is stored. *)
LEMMA NameSaved ==
    ASSUME IInv, NEW t \in Tabs, NEW c \in Slots, Good(c, t), ~overtaken', requests[c].kind = "name",
           Readable, NEW token, token = requests[c].token,
           tab[t].page = token => SavedOr(t, token)
    PROVE  stored = token /\ Current(t) = token
<1>1. TypeOK /\ Current(t) = Read(t) /\ stored # Unset
  BY ReadIsCurrent, Sentinels DEF IInv, TypeOK
<1>2. Current(t) = token
  BY InTime DEF Changes
<1>3. QED
  BY <1>1, <1>2 DEF Read, SavedOr

(* Who stores a token that is neither new nor removed finds it stored. *)
LEMMA StoresSaved ==
    ASSUME IInv, NEW t \in Tabs, NEW token \in Tokens, Stores(t, token), ~overtaken', Readable,
           \A c \in Slots : Fresh(c) => requests[c].fresh # token,
           tab[t].page = token => SavedOr(t, token)
    PROVE  stored = token /\ Current(t) = token
<1>1. PICK c \in Slots : Good(c, t) /\ token = requests[c].fresh /\ requests[c].kind \in {"login"} \cup Changes
  BY Sentinels DEF Stores
<1>2. requests[c].kind = "name"
  BY <1>1 DEF Fresh, Good, Changes
<1>3. requests[c].token = token
  BY <1>1, <1>2, BusyRequest DEF Good, RequestOK
<1>4. QED
  BY <1>1, <1>2, <1>3, NameSaved

(* What a page knows after a step it, storage or a new token had before. *)
LEMMA KnewBefore ==
    ASSUME IInv, NEW t \in Tabs, PageStep(t), NEW x \in Tabs, NEW token \in Tokens, Knows(x, token)'
    PROVE  \/ Knows(x, token)
           \/ x = t /\ stored = token
           \/ x = t /\ \E c \in Slots : Fresh(c) /\ requests[c].fresh = token /\ requests[c].tab = t
<1>0. token # NoToken
  BY Sentinels
<1>1. CASE tab'[x].page = token \/ tab'[x].token = token
  <2>1. CASE x # t
    BY <1>1, <2>1 DEF PageStep, Knows
  <2>2. CASE x = t
    BY <1>0, <1>1, <2>2, PageTokens DEF Knows
  <2>3. QED
    BY <2>1, <2>2
<1>2. CASE \E s \in Slots : Busy(s)' /\ requests'[s].tab = x /\ requests'[s].token = token
  <2>1. PICK s \in Slots : Busy(s)' /\ requests'[s].tab = x /\ requests'[s].token = token
    BY <1>2
  <2>2. Current(t) \in {tab[t].page, stored}
    BY ReadIsCurrent DEF Read, IInv
  <2>3. QED
    BY <2>1, <2>2, PageRequests DEF Kept, SameRequest, Sent, Held, Knows
<1>3. QED
  BY <1>1, <1>2 DEF Knows

LEMMA SharedStep == ASSUME IInv, OneStep, TypeOK', ~overtaken, ~overtaken' PROVE SharedIsSaved'
<1>1. TypeOK /\ SharedIsSaved /\ FreshIsNew
  BY DEF IInv, NotOvertaken
<1>2. SUFFICES ASSUME NEW y \in Tabs, NEW token \in Tokens, token = tab'[y].page,
                      stored' = token \/ \E x \in Tabs \ {y} : Knows(x, token)'
               PROVE  tab'[y].unsaved \in {Unset, token}
  BY DEF SharedIsSaved, SavedOr, TypeOK, Pages, Knows
<1>3. \A x \in Tabs : Knows(x, token) =>
        \A c \in Slots : Fresh(c) => requests[c].fresh # token
  BY <1>1 DEF FreshIsNew, Knows
<1>4. stored = token => \A c \in Slots : Fresh(c) => requests[c].fresh # token
  BY <1>1 DEF FreshIsNew
<1>5. token # NoToken
  BY Sentinels
<1>6. ASSUME NEW s, AccountStep(s)
      PROVE  tab'[y].unsaved \in {Unset, token}
  <2>1. tab' = tab /\ stored' = stored
    BY <1>6 DEF AccountStep
  <2>2. \A x \in Tabs : Knows(x, token)' => Knows(x, token)
    BY <1>6, <2>1 DEF AccountStep, Knows, Kept, Served, SameRequest
  <2>3. QED
    BY <1>1, <1>2, <1>5, <2>1, <2>2 DEF SharedIsSaved, SavedOr
<1>7. ASSUME NEW t \in Tabs, PageStep(t), y # t
      PROVE  tab'[y].unsaved \in {Unset, token}
  <2>1. tab'[y] = tab[y]
    BY <1>7 DEF PageStep
  <2>2. \A c \in Slots : Fresh(c) => requests[c].fresh # token
    BY <1>1, <1>2, <2>1 DEF FreshIsNew
  <2>3. \A x \in Tabs \ {y} : Knows(x, token)' => stored = token \/ Knows(x, token)
    BY <1>7, <2>2, KnewBefore
  <2>4. stored' = token => stored = token \/ Knows(t, token)
    BY <1>5, <1>7, <2>2, PageTokens DEF Knows
  <2>5. QED
    BY <1>1, <1>2, <1>5, <1>7, <2>1, <2>3, <2>4 DEF SharedIsSaved, SavedOr
<1>8. ASSUME PageStep(y)
      PROVE  tab'[y].unsaved \in {Unset, token}
  <2>1. \A x \in Tabs \ {y} : Knows(x, token)' => Knows(x, token)
    BY <1>8, KnewBefore
  <2>2. stored # Unset /\ Current(y) = Read(y)
        /\ ReadToken(tab[y]).unsaved = IF Readable /\ stored # tab[y].unsaved THEN Unset ELSE tab[y].unsaved
    BY <1>1, ReadIsCurrent, Sentinels DEF TypeOK
  <2>3. tab[y].page = token /\ stored' = stored => SavedOr(y, token)
    BY <1>1, <1>2, <1>5, <2>1 DEF SharedIsSaved
  <2>4. CASE Keeps(y)
    BY <1>2, <2>3, <2>4 DEF Keeps, SessionKept, SavedOr
  <2>5. CASE Rereads(y) \/ Hears(y)
    BY <1>2, <2>2, <2>3, <2>5 DEF Rereads, Hears, SessionReread, Read, SavedOr
  <2>6. CASE Reloads(y)
    BY <2>6 DEF Reloads, NewPage
  <2>7. CASE Stores(y, token)
    <3>1. PICK ok \in BOOLEAN :
            /\ stored' = IF ok THEN token ELSE stored
            /\ tab'[y].unsaved = IF ok \/ ~Readable THEN Unset ELSE stored
      BY <2>7 DEF Stores, Put
    <3>2. CASE ok \/ ~Readable
      BY <3>1, <3>2
    <3>3. CASE ~ok /\ Readable
      <4>1. tab'[y].unsaved = stored /\ stored' = stored
        BY <3>1, <3>3
      <4>2. CASE stored = token
        BY <4>1, <4>2
      <4>3. CASE \E x \in Tabs \ {y} : Knows(x, token)
        BY <1>3, <2>3, <2>7, <3>3, <4>1, <4>3, StoresSaved
      <4>4. QED
        BY <1>2, <2>1, <4>1, <4>2, <4>3
    <3>4. QED
      BY <3>2, <3>3
  <2>8. QED
    BY <1>2, <1>8, <2>4, <2>5, <2>6, <2>7 DEF PageStep, Stores, Put
<1>9. QED
  BY <1>6, <1>7, <1>8 DEF OneStep

(* A token a page has moved on from does not come back to it, unless it is reloaded. *)
LEMMA GoneAccount ==
    ASSUME IInv, NEW s, AccountStep(s), NEW t \in Tabs, NEW token, Gone(t, token)
    PROVE  Gone(t, token)'
<1>1. /\ tab' = tab /\ stored' = stored /\ issued \in Nat /\ issued' \in Nat /\ issued <= issued'
      /\ token.id \in Nat
  BY DEF AccountStep, AccountsGrow, IInv, TypeOK, Gone, Tokens
<1>2. ASSUME NEW x \in Slots, Fresh(x)'
      PROVE  requests'[x].fresh # token
  <2>1. Busy(x) /\ (Kept(x) \/ Served(x))
    BY <1>2 DEF AccountStep, Fresh, Busy
  <2>2. CASE Kept(x)
    BY <1>2, <2>2 DEF Kept, SameRequest, Fresh, Gone
  <2>3. CASE Served(x)
    BY <1>1, <1>2, <2>3 DEF Served, Gone
  <2>4. QED
    BY <2>1, <2>2, <2>3
<1>3. QED
  BY <1>1, <1>2 DEF Gone, SavedOr

LEMMA GoneNotCurrent ==
    ASSUME IInv, NEW t \in Tabs, NEW token, Gone(t, token)
    PROVE  Current(t) # token
BY ReadIsCurrent DEF Gone, Read, IInv

LEMMA GonePage ==
    ASSUME IInv, TypeOK', NEW x \in Tabs, PageStep(x), ~overtaken', NEW t \in Tabs, NEW token \in Tokens,
           Gone(t, token), x = t => ~Reloads(t)
    PROVE  Gone(t, token)'
<1>1. /\ TypeOK /\ stored # Unset /\ issued' = issued
      /\ \A y \in Tabs \ {x} : tab'[y] = tab[y]
  BY Sentinels DEF IInv, TypeOK, PageStep, server
<1>2. Current(t) # token
  BY GoneNotCurrent
<1>3. \A s \in Slots : Fresh(s)' => requests'[s].fresh # token
  <2>1. ASSUME NEW s \in Slots, Fresh(s)'
        PROVE  requests'[s].fresh # token
    <3>1. Busy(s)'
      BY <2>1 DEF Fresh, Busy
    <3>2. Kept(s)
      BY <2>1, <3>1, PageRequests DEF Fresh, Sent, Held
    <3>3. QED
      BY <2>1, <3>2 DEF Kept, SameRequest, Fresh, Gone
  <2>2. QED
    BY <2>1
<1>4. /\ Current(x) = Read(x)
      /\ ReadToken(tab[x]).unsaved = IF Readable /\ stored # tab[x].unsaved THEN Unset ELSE tab[x].unsaved
  BY <1>1, ReadIsCurrent
<1>5. SUFFICES /\ x = t => tab'[t].page # token
               /\ stored' # token \/ tab'[t].unsaved = token
               /\ tab'[x].page = token => tab'[x].unsaved \in {Unset, token}
  BY <1>1, <1>3 DEF Gone, SavedOr
<1>6. CASE Keeps(x)
  BY <1>1, <1>6 DEF Keeps, SessionKept, Gone, SavedOr
<1>7. CASE Rereads(x) \/ Hears(x)
  <2>1. stored' = stored /\ SessionReread(x)
    BY <1>7 DEF Rereads, Hears
  <2>2. QED
    BY <1>1, <1>2, <1>4, <2>1 DEF SessionReread, Read, Gone, SavedOr
<1>8. CASE Reloads(x)
  BY <1>1, <1>8 DEF Reloads, NewPage, Gone
<1>9. ASSUME NEW new \in Tokens \cup {NoToken}, Stores(x, new)
      PROVE  /\ x = t => tab'[t].page # token
             /\ stored' # token \/ tab'[t].unsaved = token
             /\ tab'[x].page = token => tab'[x].unsaved \in {Unset, token}
  <2>1. PICK ok \in BOOLEAN :
          /\ ok => Readable
          /\ stored' = IF ok THEN new ELSE stored
          /\ tab'[x].unsaved = IF ok \/ ~Readable THEN Unset ELSE stored
    BY <1>9 DEF Stores, Put
  <2>2. tab'[x].page = new
    BY <1>9 DEF Stores, Put
  <2>3. Readable /\ new = token => stored = token /\ Current(x) = token
    BY <1>9, StoresSaved DEF Gone
  <2>4. x = t => new # token
    <3>1. CASE Readable
      BY <1>2, <2>3, <3>1
    <3>2. ASSUME x = t, new = token
          PROVE  Current(t) = token
      <4>1. PICK c \in Slots : Good(c, t) /\ token = requests[c].fresh /\ requests[c].kind \in {"login"} \cup Changes
        BY <1>9, <3>2, Sentinels DEF Stores
      <4>2. requests[c].kind = "name"
        BY <4>1 DEF Fresh, Good, Changes, Gone
      <4>3. QED
        BY <4>1, <4>2, InTime, BusyRequest DEF Good, RequestOK, Changes
    <3>3. QED
      BY <1>2, <3>2
  <2>5. ~Readable => stored # token
    BY Sentinels DEF IInv, PagesOK
  <2>6. QED
    BY <1>1, <2>1, <2>2, <2>3, <2>4, <2>5 DEF Gone
<1>10. QED
  BY <1>6, <1>7, <1>8, <1>9 DEF PageStep

(* A page that reads its token again moves on from another it knows. *)
LEMMA GoneBegins ==
    ASSUME IInv, TypeOK', NEW t \in Tabs, PageStep(t), Rereads(t), ~overtaken, NEW token \in Tokens,
           Knows(t, token), Current(t) # token
    PROVE  Gone(t, token)'
<1>1. /\ TypeOK /\ stored # Unset /\ issued' = issued /\ stored' = stored /\ FreshIsNew /\ SharedIsSaved
      /\ \A y \in Tabs \ {t} : tab'[y] = tab[y]
  BY Sentinels DEF IInv, NotOvertaken, TypeOK, PageStep, server, Rereads
<1>2. /\ Current(t) = Read(t)
      /\ ReadToken(tab[t]).unsaved = IF Readable /\ stored # tab[t].unsaved THEN Unset ELSE tab[t].unsaved
  BY <1>1, ReadIsCurrent
<1>3. tab'[t].page = Read(t) /\ tab'[t].unsaved = ReadToken(tab[t]).unsaved
  BY <1>2 DEF Rereads, SessionReread
<1>4. token # NoToken /\ token.id <= issued
  BY Sentinels DEF Knows, IInv, TokensGenuine, Genuine
<1>5. ASSUME NEW y \in Tabs \ {t}, tab'[y].page = token
      PROVE  tab'[y].unsaved \in {Unset, token}
  BY <1>1, <1>4, <1>5 DEF SharedIsSaved, SavedOr
<1>6. ASSUME NEW s \in Slots, Fresh(s)'
      PROVE  requests'[s].fresh # token
  <2>1. Busy(s)'
    BY <1>6 DEF Fresh, Busy
  <2>2. Kept(s)
    BY <1>6, <2>1, PageRequests DEF Fresh, Sent, Held
  <2>3. Fresh(s) /\ requests[s].fresh = requests'[s].fresh
    BY <1>6, <2>2 DEF Kept, SameRequest, Fresh
  <2>4. QED
    BY <1>1, <2>3 DEF FreshIsNew, Knows
<1>7. stored # token \/ tab'[t].unsaved = token
  <2>1. CASE ~Readable
    BY <1>4, <2>1 DEF IInv, PagesOK
  <2>2. CASE Readable
    BY <1>2, <1>3, <2>2 DEF Read
  <2>3. QED
    BY <2>1, <2>2
<1>8. QED
  BY <1>1, <1>2, <1>3, <1>4, <1>5, <1>6, <1>7 DEF Gone, SavedOr

LEMMA CacheStep ==
    ASSUME IInv, OneStep, TypeOK', ~overtaken, ~overtaken'
    PROVE  \A t \in Tabs : CacheOK(t)'
<1> SUFFICES ASSUME NEW t \in Tabs
             PROVE  CacheOK(t)'
  OBVIOUS
<1>1. CacheOK(t) /\ TypeOK /\ TabAgrees
  BY DEF IInv, NotOvertaken
<1>2. PICK token \in Tokens \cup {NoToken} : token = tab[t].token
  BY <1>1 DEF TypeOK, Pages
<1> DEFINE LiveRead(s) == Busy(s) /\ requests[s].kind = "read" /\ requests[s].tab = t /\ requests[s].live
(* The reads under way are among those there were. *)
<1>3. ASSUME tab'[t].token = token, tab'[t].cache = tab[t].cache,
             \A s \in Slots : LiveRead(s)' => LiveRead(s) /\ requests'[s].token = requests[s].token,
             token # NoToken /\ t \in pending /\ Gone(t, token) => t \in pending' /\ Gone(t, token)'
      PROVE  CacheOK(t)'
  <2>1. CASE token = NoToken /\ NothingRead(t)
    BY <1>2, <1>3, <2>1 DEF CacheOK, NothingRead
  <2>2. CASE token # NoToken /\ OfUser(t, token.user)
    <3>1. OfUser(t, token.user)'
      BY <1>2, <1>3, <2>2 DEF OfUser
    <3>2. QED
      BY <1>2, <1>3, <2>2, <3>1 DEF CacheOK, OfUser
  <2>3. CASE token # NoToken /\ t \in pending /\ Gone(t, token)
    BY <1>2, <1>3, <2>3 DEF CacheOK, Gone
  <2>4. QED
    BY <1>1, <1>2, <2>1, <2>2, <2>3 DEF CacheOK
<1>4. ASSUME NEW s, AccountStep(s)
      PROVE  CacheOK(t)'
  <2>1. \A x \in Slots : LiveRead(x)' => LiveRead(x) /\ requests'[x].token = requests[x].token
    BY <1>4 DEF AccountStep, Kept, Served, SameRequest
  <2>2. Gone(t, token) => Gone(t, token)'
    BY <1>4, GoneAccount
  <2>3. tab' = tab /\ pending' = pending
    BY <1>4 DEF AccountStep
  <2>4. QED
    BY <1>2, <1>3, <2>1, <2>2, <2>3
<1>5. ASSUME NEW x \in Tabs, PageStep(x), x # t
      PROVE  CacheOK(t)'
  <2>1. \A s \in Slots : LiveRead(s)' => LiveRead(s) /\ requests'[s].token = requests[s].token
    BY <1>5, PageRequests DEF Kept, SameRequest, Sent, Held
  <2>2. token # NoToken /\ Gone(t, token) => Gone(t, token)'
    BY <1>5, GonePage
  <2>3. tab'[t] = tab[t] /\ (t \in pending => t \in pending')
    BY <1>5 DEF PageStep, Keeps, Rereads, Hears, Reloads, Stores, Put
  <2>4. QED
    BY <1>2, <1>3, <2>1, <2>2, <2>3
<1>6. ASSUME PageStep(t)
      PROVE  CacheOK(t)'
  <2>1. (\A s \in Slots : KeptOrEnded(s)) =>
          \A s \in Slots : LiveRead(s)' => LiveRead(s) /\ requests'[s].token = requests[s].token
    BY DEF KeptOrEnded, Kept, SameRequest
  <2>2. token # NoToken /\ Gone(t, token) /\ ~Reloads(t) => Gone(t, token)'
    BY <1>6, GonePage
  <2>3. CASE Reloads(t)
    <3>1. tab'[t].cache = {} /\ \A s \in Slots : ~LiveRead(s)'
      BY <2>3 DEF Reloads, NewPage
    <3>2. QED
      BY <3>1 DEF CacheOK, NothingRead, OfUser
  <2>4. ASSUME tab'[t].cache = {}, NoLiveReads(t)'
        PROVE  CacheOK(t)'
    BY <2>4 DEF CacheOK, NothingRead, OfUser, NoLiveReads
  <2>5. CASE Keeps(t) /\ ~Reloads(t)
    <3>1. /\ tab'[t].token = token /\ pending' = pending
          /\ \A s \in Slots : LiveRead(s)' => LiveRead(s) /\ requests'[s].token = requests[s].token
      BY <1>2, <2>1, <2>5 DEF Keeps, SessionKept
    <3>2. CASE tab'[t].cache = tab[t].cache
      BY <1>3, <2>2, <2>5, <3>1, <3>2
    <3>3. ASSUME NEW c \in Slots, Good(c, t), requests[c].kind \in {"read", "write"},
                 tab'[t].cache = tab[t].cache \cup {requests[c].token.user}
          PROVE  CacheOK(t)'
      <4>1. requests[c].token # NoToken
        BY <3>3, BusyRequest DEF Good, RequestOK
      <4>2. requests[c].kind = "write" => token # NoToken /\ token.user = requests[c].token.user
        BY <1>2, <3>3, InTime
      <4>3. requests[c].kind = "read" => LiveRead(c)
        BY <3>3 DEF Good
      <4>4. CASE token = NoToken /\ NothingRead(t)
        BY <3>3, <4>2, <4>3, <4>4 DEF NothingRead
      <4>5. CASE token # NoToken /\ OfUser(t, token.user)
        <5>1. requests[c].token.user = token.user
          BY <3>3, <4>1, <4>2, <4>3, <4>5 DEF OfUser
        <5>2. OfUser(t, token.user)'
          BY <3>1, <3>3, <4>5, <5>1 DEF OfUser
        <5>3. QED
          BY <3>1, <4>5, <5>2 DEF CacheOK, OfUser
      <4>6. CASE token # NoToken /\ t \in pending /\ Gone(t, token)
        BY <2>2, <2>5, <3>1, <4>6 DEF CacheOK, Gone
      <4>7. QED
        BY <1>1, <1>2, <4>4, <4>5, <4>6 DEF CacheOK
    <3>4. QED
      BY <2>5, <3>2, <3>3 DEF Keeps
  <2>6. CASE Rereads(t) /\ ~Reloads(t)
    <3>1. tab'[t].token = token /\ tab'[t].cache = tab[t].cache /\ pending' = pending
      BY <1>2, <2>6 DEF Rereads
    <3>2. \A s \in Slots : LiveRead(s)' =>
            \/ LiveRead(s) /\ requests'[s].token = requests[s].token
            \/ Sent(s, t)
      BY <1>6, PageRequests DEF Kept, SameRequest, Held
    <3>3. CASE \A s \in Slots : LiveRead(s)' => LiveRead(s) /\ requests'[s].token = requests[s].token
      BY <1>3, <2>2, <2>6, <3>1, <3>3
    <3>4. CASE token = NoToken
      <4>1. NothingRead(t)
        BY <1>1, <1>2, <3>4 DEF CacheOK
      <4>2. \A s \in Slots : Sent(s, t) => ~LiveRead(s)'
        BY <1>2, <3>4, <4>1 DEF Sent, NothingRead
      <4>3. QED
        BY <3>2, <3>3, <4>2
    <3>5. CASE token # NoToken /\ Current(t) = token
      <4>1. CASE OfUser(t, token.user)
        <5>1. OfUser(t, token.user)'
          BY <3>1, <3>2, <3>5, <4>1 DEF OfUser, Sent
        <5>2. QED
          BY <3>1, <3>5, <5>1 DEF CacheOK, OfUser
      <4>2. CASE Gone(t, token)
        BY <3>5, <4>2, GoneNotCurrent
      <4>3. QED
        BY <1>1, <1>2, <3>5, <4>1, <4>2 DEF CacheOK
    <3>6. CASE token # NoToken /\ Current(t) # token
      <4>1. t \in pending
        BY <1>1, <1>2, <3>6 DEF TabAgrees, Current
      <4>2. Gone(t, token)'
        BY <1>2, <1>6, <2>6, <3>6, GoneBegins DEF Knows
      <4>3. QED
        BY <3>1, <3>6, <4>1, <4>2 DEF CacheOK, Gone
    <3>7. QED
      BY <3>4, <3>5, <3>6
  <2>7. CASE Hears(t)
    <3>1. CASE Current(t) = token /\ tab'[t].cache = tab[t].cache
      <4>1. tab'[t].token = token
        BY <2>7, <3>1 DEF Hears
      <4>2. ~Gone(t, token)
        BY <3>1, GoneNotCurrent
      <4>3. QED
        BY <1>3, <2>1, <2>7, <3>1, <4>1, <4>2 DEF Hears
    <3>2. QED
      BY <1>2, <2>4, <2>7, <3>1 DEF Hears
  <2>8. ASSUME NEW new \in Tokens \cup {NoToken}, Stores(t, new)
        PROVE  CacheOK(t)'
    <3>1. tab'[t].token = new
      BY <2>8 DEF Stores
    <3>2. CASE new = NoToken
      BY <2>4, <2>8, <3>2 DEF Stores
    <3>3. ASSUME NEW c \in Slots, Good(c, t), new = requests[c].fresh, new # NoToken,
                 requests[c].kind = "login", tab'[t].cache = {new.user}, NoLiveReads(t)'
          PROVE  CacheOK(t)'
      BY <3>1, <3>3 DEF CacheOK, OfUser, NoLiveReads
    <3>4. ASSUME NEW c \in Slots, Good(c, t), new = requests[c].fresh, new # NoToken,
                 requests[c].kind \in Changes, tab'[t].cache = tab[t].cache \cup {new.user}
          PROVE  CacheOK(t)'
      <4>1. token # NoToken /\ token.user = requests[c].token.user /\ token = Current(t)
        BY <1>2, <3>4, InTime
      <4>2. new.user = token.user
        BY <3>4, <4>1, BusyRequest DEF Good, RequestOK, Changes
      <4>3. ~Gone(t, token)
        BY <4>1, GoneNotCurrent
      <4>4. OfUser(t, token.user)
        BY <1>1, <1>2, <4>1, <4>3 DEF CacheOK
      <4>5. OfUser(t, new.user)'
        BY <2>1, <2>8, <3>4, <4>2, <4>4 DEF OfUser, Stores
      <4>6. QED
        BY <3>1, <3>4, <4>5 DEF CacheOK, OfUser
    <3>5. QED
      BY <2>8, <3>2, <3>3, <3>4 DEF Stores
  <2>9. QED
    BY <1>6, <2>3, <2>5, <2>6, <2>7, <2>8 DEF PageStep
<1>7. QED
  BY <1>4, <1>5, <1>6 DEF OneStep

LEMMA LaterStep ==
    ASSUME IInv, OneStep, TypeOK', ~overtaken, ~overtaken'
    PROVE  \A s, c \in Slots : LaterChange(s, c)' => LaterChangeOK(s, c)'
<1> SUFFICES ASSUME NEW s \in Slots, NEW c \in Slots, LaterChange(s, c)'
             PROVE  LaterChangeOK(s, c)'
  OBVIOUS
<1>1. /\ TypeOK /\ \A x, y \in Slots : LaterChange(x, y) => LaterChangeOK(x, y)
      /\ Busy(s)' /\ Busy(c)'
  BY DEF IInv, NotOvertaken, LaterChange
<1>2. PICK t \in Tabs, token \in Tokens : t = requests'[s].tab /\ token = requests'[s].token
  BY DEF LaterChange, TypeOK, Request, Busy, Idle
<1>3. ASSUME NEW k, AccountStep(k)
      PROVE  LaterChangeOK(s, c)'
  <2>1. Kept(s) /\ Busy(s)
    BY <1>1, <1>3 DEF AccountStep, Served, LaterChange
  <2>2. Busy(c) /\ (Kept(c) \/ Served(c))
    BY <1>1, <1>3 DEF AccountStep
  <2>3. LaterChange(s, c) /\ t = requests[s].tab /\ token = requests[s].token
    BY <1>1, <1>2, <2>1, <2>2 DEF LaterChange, Kept, Served, SameRequest
  <2>4. CASE Gone(t, token)
    <3>1. Gone(t, token)'
      BY <1>3, <2>4, GoneAccount
    <3>2. QED
      BY <1>2, <3>1 DEF LaterChangeOK, Gone
  <2>5. CASE /\ requests[c].token = token
             /\ requests[c].state # "checked" /\ requests[c].result # "ok"
    <3>1. Revoked(token)
      BY <2>1, <2>3, BusyRequest DEF RequestOK, LaterChange
    <3>2. requests'[c].state # "checked" /\ requests'[c].result # "ok"
      BY <2>2, <2>3, <2>5, <3>1 DEF Kept, Served, LaterChange
    <3>3. requests'[c].token = token
      BY <2>2, <2>5 DEF Kept, Served, SameRequest
    <3>4. QED
      BY <1>2, <3>2, <3>3 DEF LaterChangeOK
  <2>6. QED
    BY <1>1, <2>3, <2>4, <2>5 DEF LaterChangeOK
<1>4. ASSUME NEW x \in Tabs, PageStep(x)
      PROVE  LaterChangeOK(s, c)'
  <2>1. Kept(s) \/ Held(s, x)
    BY <1>1, <1>4, PageRequests DEF LaterChange, Sent
  <2>2. Kept(c) \/ Sent(c, x)
    BY <1>1, <1>4, PageRequests DEF LaterChange, Held, Changes
  <2>3. CASE Kept(s) /\ Kept(c)
    <3>1. LaterChange(s, c) /\ t = requests[s].tab /\ token = requests[s].token
      BY <1>1, <1>2, <2>3 DEF LaterChange, Kept, SameRequest
    <3>2. CASE Gone(t, token)
      <4>1. x = t => ~Reloads(t)
        BY <1>1, <1>2 DEF Reloads, LaterChange
      <4>2. Gone(t, token)'
        BY <1>4, <3>2, <4>1, GonePage
      <4>3. QED
        BY <1>2, <4>2 DEF LaterChangeOK, Gone
    <3>3. CASE /\ requests[c].token = token
               /\ requests[c].state # "checked" /\ requests[c].result # "ok"
      BY <1>2, <2>3, <3>3 DEF LaterChangeOK, Kept, SameRequest
    <3>4. QED
      BY <1>1, <3>1, <3>2, <3>3 DEF LaterChangeOK
  <2>4. CASE Sent(c, x) /\ ~Kept(c)
    <3>1. Rereads(x) /\ x = t
      BY <1>1, <1>2, <1>4, <2>4, OnlyRereads DEF Sent, LaterChange
    <3>2. Knows(t, token)
      BY <1>2, <2>1 DEF Knows, Kept, SameRequest, Held
    <3>3. CASE Current(t) = token
      BY <1>2, <2>4, <3>1, <3>3 DEF Sent, LaterChangeOK
    <3>4. CASE Current(t) # token
      <4>1. Gone(t, token)'
        BY <1>4, <3>1, <3>2, <3>4, GoneBegins
      <4>2. QED
        BY <1>2, <4>1 DEF LaterChangeOK, Gone
    <3>5. QED
      BY <3>3, <3>4
  <2>5. CASE Held(s, x) /\ Kept(c)
    <3>1. c \in SessionChanges(x)
      BY <2>5 DEF LaterChange, Kept, SameRequest, SessionChanges, Held, Changes
    <3>2. QED
      BY <2>5, <3>1 DEF LaterChange, Held
  <2>6. QED
    BY <2>1, <2>2, <2>3, <2>4, <2>5
<1>5. QED
  BY <1>3, <1>4 DEF OneStep

---------------------------------------------------------------------------
(* The invariant.                                                           *)

LEMMA InitInv == Init => IInv
<1> SUFFICES ASSUME Init PROVE IInv
  OBVIOUS
<1>1. TypeOK
  BY InitTypeOK
<1>2. /\ \A s \in Slots : requests[s] = Idle /\ ~Busy(s)
      /\ \A t \in Tabs : tab[t] = NewPage(NoToken)
      /\ stored = NoToken /\ pending = {}
  BY DEF Init, Busy, Idle
<1>3. \A t \in Tabs : /\ tab[t].page = NoToken /\ tab[t].token = NoToken
                      /\ tab[t].unsaved = Unset /\ tab[t].cache = {}
  BY <1>2 DEF NewPage
<1>4. TokensGenuine /\ RequestsOK
  BY <1>2, <1>3 DEF TokensGenuine, RequestsOK, Genuine
<1>5. WaitsEnd
  BY <1>2 DEF WaitsEnd, Busy
<1>6. TabAgrees /\ PagesOK
  BY <1>2, <1>3 DEF TabAgrees, PagesOK, PageOK, ReadToken
<1>7. FreshIsNew
  BY <1>2 DEF FreshIsNew, Fresh, Busy
<1>8. NotOvertaken
  <2>1. SharedIsSaved
    BY <1>3 DEF SharedIsSaved, SavedOr
  <2>2. \A t \in Tabs : CacheOK(t)
    BY <1>2, <1>3 DEF CacheOK, NothingRead
  <2>3. \A s, c \in Slots : ~LaterChange(s, c)
    BY <1>2 DEF LaterChange
  <2>4. QED
    BY <2>1, <2>2, <2>3 DEF NotOvertaken
<1>9. QED
  BY <1>1, <1>4, <1>5, <1>6, <1>7, <1>8 DEF IInv

LEMMA StepInv == IInv /\ [Next]_vars => IInv'
<1> SUFFICES ASSUME IInv, [Next]_vars PROVE IInv'
  OBVIOUS
<1>1. OneStep /\ TypeOK'
  BY NextOneStep, TypeStep
<1>2. TokensGenuine' /\ RequestsOK' /\ WaitsEnd'
  BY <1>1, GenuineStep, RequestsStep, WaitsStep
<1>3. TabAgrees' /\ PagesOK'
  BY <1>1, AgreeStep
<1>4. FreshIsNew'
  BY <1>1, <1>2, FreshStep
<1>5. NotOvertaken'
  <2>1. ASSUME ~overtaken'
        PROVE  SharedIsSaved' /\ (\A t \in Tabs : CacheOK(t))'
               /\ (\A s, c \in Slots : LaterChange(s, c) => LaterChangeOK(s, c))'
    <3>1. ~overtaken
      BY <2>1, CountsType DEF IInv
    <3>2. QED
      BY <1>1, <2>1, <3>1, SharedStep, CacheStep, LaterStep
  <2>2. QED
    BY <2>1 DEF NotOvertaken
<1>6. QED
  BY <1>1, <1>2, <1>3, <1>4, <1>5 DEF IInv

LEMMA Invariant == Spec => []IInv
<1>1. Init => IInv
  BY InitInv
<1>2. IInv /\ [Next]_vars => IInv'
  BY StepInv
<1>3. QED
  BY <1>1, <1>2, PTL DEF Spec

(* The tabs, storage and the requests have their types, and a tab that has heard of every
   change of storage shows the session its requests are sent with (client.ts, AuthProvider.tsx),
   whatever storage refused. *)
THEOREM SessionsAlwaysAgree == Spec => []SessionsAgree
<1>1. IInv => SessionsAgree
  BY DEF IInv, SessionsAgree
<1>2. QED
  BY <1>1, Invariant, PTL

(* Nobody waits for a request that waits: a 401 is held back only for account changes on
   their way, which wait for nothing (client.ts, sessionChanges). *)
THEOREM WaitsAlwaysEnd == Spec => []WaitsEnd
<1>1. IInv => WaitsEnd
  BY DEF IInv
<1>2. QED
  BY <1>1, Invariant, PTL

(* Once a tab has heard of every change of storage, what it has cached is the signed-in
   user's own (AuthProvider.tsx clears the cache at every sign-in, sign-out and switch), unless
   the answer to a mutation came after its session. *)
THEOREM CacheIsAlwaysOwn == Spec => []CacheIsOwn
<1>1. IInv => CacheIsOwn
  <2> SUFFICES ASSUME IInv, NEW t \in Tabs, t \notin pending, ~overtaken, NEW u \in tab[t].cache
               PROVE  u \in Users /\ tab[t].token # NoToken /\ tab[t].token.user = u
    BY DEF CacheIsOwn
  <2>1. CacheOK(t)
    BY DEF IInv, NotOvertaken
  <2>2. u \in Users
    BY DEF IInv, TypeOK, Pages
  <2>3. QED
    BY <2>1, <2>2 DEF CacheOK, NothingRead, OfUser
<1>2. QED
  BY <1>1, Invariant, PTL

(* Of account changes made with one token and checked against the same row, none succeeds
   after a password change has: the UPDATE asks for the version that token has
   (service/auth.go). *)
THEOREM AlwaysOneWinner == Spec => OneWinner
<1> DEFINE Loses(s1, s2) ==
             /\ requests[s1].kind = "password" /\ requests[s1].result = "ok"
             /\ requests[s2].kind \in Changes /\ requests[s2].state = "checked"
             /\ requests[s2].token = requests[s1].token
             => requests'[s2].result # "ok"
<1>1. ASSUME IInv, [Next]_vars, NEW s1 \in Slots, NEW s2 \in Slots,
             requests[s1].kind = "password", requests[s1].result = "ok",
             requests[s2].kind \in Changes, requests[s2].state = "checked",
             requests[s2].token = requests[s1].token
      PROVE  requests'[s2].result # "ok"
  <2>1. Busy(s1) /\ Busy(s2) /\ AtServer(s2)
    BY <1>1 DEF Busy, Changes, AtServer
  <2>2. requests[s2].result = "none" /\ requests[s2].token # NoToken
    BY <1>1, <2>1, BusyRequest DEF RequestOK
  <2>3. ~Unrevoked(requests[s2])
    <3>1. requests[s1].token.version < version[requests[s1].token.user]
      BY <1>1, <2>1, BusyRequest DEF RequestOK
    <3>2. requests[s2].token \in Tokens
      BY <1>1, <2>1, <2>2, BusyRequest DEF Request
    <3>3. requests[s2].token.version \in Nat /\ version[requests[s2].token.user] \in Nat
      BY <1>1, <3>2 DEF Tokens, IInv, TypeOK
    <3>4. QED
      BY <1>1, <3>1, <3>3 DEF Unrevoked
  <2>4. ASSUME NEW s, AccountStep(s)
        PROVE  requests'[s2].result # "ok"
    BY <2>1, <2>2, <2>3, <2>4 DEF AccountStep, Kept, Served
  <2>5. ASSUME NEW t \in Tabs, PageStep(t)
        PROVE  requests'[s2].result # "ok"
    <3>1. Kept(s2) \/ Sent(s2, t) \/ Held(s2, t)
      BY <2>1, <2>5 DEF PageStep, Keeps, Rereads, Hears, Reloads, Stores, KeptOrEnded
    <3>2. QED
      BY <2>2, <3>1 DEF Kept, Sent, Held
  <2>6. QED
    BY <1>1, <2>4, <2>5, NextOneStep DEF OneStep
<1>2. IInv /\ [Next]_vars => [\A s1, s2 \in Slots : Loses(s1, s2)]_vars
  BY <1>1
<1>3. QED
  BY <1>2, Invariant, PTL DEF Spec, OneWinner

(* What ends a session as expired is a refused request. *)
LEMMA ExpiresRefused ==
    ASSUME IInv, [Next]_vars, NEW t \in Tabs, ExpiresIn(t)
    PROVE  \E s \in Slots : Refused(s, t)
<1>1. ASSUME NEW s, AccountStep(s)
      PROVE  FALSE
  BY <1>1 DEF AccountStep, ExpiresIn
<1>2. ASSUME NEW x \in Tabs, PageStep(x), x # t
      PROVE  FALSE
  BY <1>2 DEF PageStep, ExpiresIn
<1>3. ASSUME PageStep(t)
      PROVE  \E s \in Slots : Refused(s, t)
  <2>1. ~Keeps(t) /\ ~Rereads(t) /\ ~Reloads(t)
    BY DEF ExpiresIn, Keeps, SessionKept, Rereads, Reloads, NewPage
  <2>2. ~Hears(t)
    BY DEF ExpiresIn, Hears
  <2>3. QED
    BY <1>3, <2>1, <2>2 DEF PageStep, Stores, ExpiresIn
<1>4. QED
  BY <1>1, <1>2, <1>3, NextOneStep DEF OneStep

(* A session ends as expired only over the token it then had, and only when the server no
   longer takes that token (client.ts reads the token again before it believes a 401). *)
THEOREM AlwaysExpiresOnlyRevoked == Spec => ExpiresOnlyRevoked
<1>1. ASSUME IInv, [Next]_vars, NEW t \in Tabs, ExpiresIn(t)
      PROVE  ~Accepted(ReadToken(tab[t]).page)
  <2>1. PICK s \in Slots : Refused(s, t)
    BY <1>1, ExpiresRefused
  <2>2. PICK token \in Tokens \cup {NoToken} : token = requests[s].token
    BY <1>1, <2>1, BusyRequest DEF Refused, Request
  <2>3. Revoked(token) /\ Genuine(token)
    BY <1>1, <2>1, <2>2, BusyRequest DEF Refused, RequestOK
  <2>4. ~Accepted(token)
    BY <1>1, <2>3, AcceptedOrRevoked DEF IInv
  <2>5. QED
    BY <2>1, <2>2, <2>4 DEF Refused, Current
<1>2. IInv /\ [Next]_vars => [\A t \in Tabs : ExpiresIn(t) => ~Accepted(ReadToken(tab[t]).page)]_vars
  BY <1>1
<1>3. QED
  BY <1>2, Invariant, PTL DEF Spec, ExpiresOnlyRevoked

(* Changing the password never signs out the page that changed it while the answer with the
   new token is on its way: a 401 for the former token waits for that answer (client.ts), or
   came of a token that is not the page's any more. *)
THEOREM OwnChangeAlwaysKeepsSession == Spec => OwnChangeKeepsSession
<1> DEFINE Keeps1(t) ==
             ExpiresIn(t) /\ ~overtaken /\ ReadToken(tab[t]).page # NoToken =>
               \A s \in SessionChanges(t) :
                 SessionChanges(t) = {s} =>
                   ~(requests[s].kind = "password" /\ requests[s].result = "ok"
                       /\ Accepted(requests[s].fresh))
<1>1. ASSUME IInv, [Next]_vars, NEW t \in Tabs, ExpiresIn(t), ~overtaken,
             ReadToken(tab[t]).page # NoToken, NEW c \in Slots, SessionChanges(t) = {c},
             requests[c].kind = "password", requests[c].result = "ok"
      PROVE  FALSE
  <2>1. PICK s \in Slots : Refused(s, t)
    BY <1>1, ExpiresRefused
  <2>2. Busy(c) /\ requests[c].tab = t /\ requests[c].live
    BY <1>1 DEF SessionChanges, Busy
  <2>3. ~(requests[s].kind \in Changes /\ requests[s].live)
    BY <1>1, <2>1 DEF Refused, SessionChanges
  <2>4. requests[s].state = "waiting" /\ requests[s].waits = {}
    BY <1>1, <2>1, <2>3 DEF Refused
  <2>5. LaterChange(s, c)
    BY <1>1, <2>1, <2>2, <2>4 DEF LaterChange, Refused, Current
  <2>6. LaterChangeOK(s, c)
    BY <1>1, <2>5 DEF IInv, NotOvertaken
  <2>7. ~Gone(t, requests[s].token)
    BY <1>1, <2>1, GoneNotCurrent DEF Refused
  <2>8. QED
    BY <1>1, <2>1, <2>6, <2>7 DEF LaterChangeOK, Refused
<1>2. ASSUME IInv, [Next]_vars, NEW t \in Tabs
      PROVE  Keeps1(t)
  <2>1. SessionChanges(t) \subseteq Slots
    BY DEF SessionChanges
  <2>2. QED
    BY <1>1, <1>2, <2>1
<1>3. IInv /\ [Next]_vars => [\A t \in Tabs : Keeps1(t)]_vars
  BY <1>2
<1>4. QED
  BY <1>3, Invariant, PTL DEF Spec, OwnChangeKeepsSession

=============================================================================
