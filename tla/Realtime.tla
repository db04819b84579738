------------------------------ MODULE Realtime ------------------------------
(***************************************************************************)
(* Live updates of one project, from a write to the pages that show it:    *)
(* the commit, the event published after it, the hub (a Feed), the         *)
(* websocket handler of each connection, and the hook useProjectRealtime   *)
(* with the refetches it asks for. Events say that something changed, not  *)
(* what; connections break, the server stops and starts.                   *)
(*                                                                         *)
(* A subscriber is a page that shows the project, with its user and its    *)
(* current connection.                                                     *)
(***************************************************************************)
EXTENDS Feed

CONSTANT MaxVersion    \* bound on the number of commits

ASSUME RealtimeAssumption ==
    /\ MaxVersion \in Nat
    /\ "project.changed" \in Event

VARIABLES
    server,         \* "up", "draining" (the hub closed, requests finish), "down"
    version,        \* of the project's rows: how many commits there were
    unpublished,    \* commits whose event is still to be published
    member,         \* the page's user has access to the project
    token,          \* the page's token is neither expired nor revoked
    stream,         \* handler: "none", "checked" (handshake), "open", "verify"
    socket,         \* hook: "waiting" (to connect), "connecting", "open", "off"
    retrying,       \* attempt > 0
    pending,        \* the debounce timer runs
    fetch,          \* the page's refetch: "sent", or its answer: "read", "refused"; none
                    \* runs: "none", or "failed" if the last one was given up
    read,           \* the version in that answer
    again,          \* one more is to follow it
    shown,          \* the version the page shows
    since           \* history: the version when the first socket opened, 0 after another did

serverVars == <<server, version, unpublished>>
accessVars == <<member, token>>
cacheVars == <<fetch, read, again, shown>>
hookVars == <<socket, retrying, pending, since>>
vars == <<feedVars, serverVars, accessVars, stream, hookVars, cacheVars>>

Version == 0 .. MaxVersion

TypeOK ==
    /\ FeedTypeOK
    /\ server \in {"up", "draining", "down"}
    /\ version \in Version
    /\ unpublished \subseteq [at : Version, event : Event]
    /\ member \in [Subscriber -> BOOLEAN]
    /\ token \in [Subscriber -> BOOLEAN]
    /\ stream \in [Subscriber -> {"none", "checked", "open", "verify"}]
    /\ socket \in [Subscriber -> {"waiting", "connecting", "open", "off"}]
    /\ retrying \in [Subscriber -> BOOLEAN]
    /\ pending \in [Subscriber -> BOOLEAN]
    /\ fetch \in [Subscriber -> {"none", "failed", "sent", "read", "refused"}]
    /\ read \in [Subscriber -> Version]
    /\ again \in [Subscriber -> BOOLEAN]
    /\ shown \in [Subscriber -> Version]
    /\ since \in [Subscriber -> Version]
    /\ \A s \in Subscriber :
        /\ stream[s] = "checked" <=> socket[s] = "connecting"
        /\ stream[s] \in {"open", "verify"} <=> socket[s] = "open"
        /\ stream[s] \in {"open", "verify"} <=> state[s] # "none"

(* ProjectLayout has loaded the project: it asks for a socket, and the page *)
(* for its data.                                                            *)
Init ==
    /\ FeedInit
    /\ server = "up"
    /\ version = 0
    /\ unpublished = {}
    /\ member = [s \in Subscriber |-> TRUE]
    /\ token = [s \in Subscriber |-> TRUE]
    /\ stream = [s \in Subscriber |-> "none"]
    /\ socket = [s \in Subscriber |-> "waiting"]
    /\ retrying = [s \in Subscriber |-> FALSE]
    /\ pending = [s \in Subscriber |-> FALSE]
    /\ fetch = [s \in Subscriber |-> "sent"]
    /\ read = [s \in Subscriber |-> 0]
    /\ again = [s \in Subscriber |-> FALSE]
    /\ shown = [s \in Subscriber |-> 0]
    /\ since = [s \in Subscriber |-> 0]

---------------------------------------------------------------------------
(* Writes. Their events are published later, by each request's goroutine.   *)

Committed(e) ==
    /\ server # "down"
    /\ version < MaxVersion
    /\ version' = version + 1
    /\ unpublished' = unpublished \cup {[at |-> version + 1, event |-> e]}
    /\ UNCHANGED <<feedVars, server, token, stream, hookVars, cacheVars>>

Commit(e) == Committed(e) /\ UNCHANGED member

SetMember(s, belongs) ==
    /\ member[s] # belongs
    /\ member' = [member EXCEPT ![s] = belongs]
    /\ Committed("project.changed")

(* A password change elsewhere, or time: no event.                          *)
EndToken(s) ==
    /\ token[s]
    /\ token' = [token EXCEPT ![s] = FALSE]
    /\ UNCHANGED <<feedVars, serverVars, member, stream, hookVars, cacheVars>>

Publish(m) ==
    /\ m \in unpublished
    /\ unpublished' = unpublished \ {m}
    /\ Send(m.event, Opened)
    /\ UNCHANGED <<server, version, accessVars, stream, hookVars, cacheVars>>

(* The end of the same Publish, for one that was slow.                      *)
CutSlow(s) ==
    /\ missed[s]
    /\ Cut({s})
    /\ UNCHANGED <<serverVars, accessVars, stream, hookVars, cacheVars>>

---------------------------------------------------------------------------
(* The websocket handler and the socket's callbacks.                        *)

(* VerifyToken and RealtimeProjectID: what a request needs.                 *)
MayFollow(s) == token[s] /\ member[s]

(* Mutant: the checks of a running connection look at the token alone.      *)
TokenRevoked(s) == ~token[s]

revoked(s) == ~token[s] \/ ~member[s]

schedule(s) == pending' = [pending EXCEPT ![s] = TRUE]

(* The handler returns, which unsubscribes.                                 *)
HandlerReturns(s) ==
    /\ stream' = [stream EXCEPT ![s] = "none"]
    /\ state' = [state EXCEPT ![s] = "none"]
    /\ queue' = [queue EXCEPT ![s] = << >>]
    /\ missed' = [missed EXCEPT ![s] = FALSE]

(* onclose: back off and connect again.                                     *)
onclose(s) ==
    /\ socket' = [socket EXCEPT ![s] = "waiting"]
    /\ retrying' = [retrying EXCEPT ![s] = TRUE]
    /\ UNCHANGED since

(* The hook's cleanup: a 404 turned the page to "not found", or a 401       *)
(* signed it out.                                                           *)
cleanup(s) ==
    /\ socket' = [socket EXCEPT ![s] = "off"]
    /\ pending' = [pending EXCEPT ![s] = FALSE]
    /\ UNCHANGED <<retrying, since>>

(* The timer fires, and the handshake passes its checks.                    *)
Handshake(s) ==
    /\ socket[s] = "waiting"
    /\ server = "up"
    /\ MayFollow(s)
    /\ socket' = [socket EXCEPT ![s] = "connecting"]
    /\ stream' = [stream EXCEPT ![s] = "checked"]
    /\ UNCHANGED <<feedVars, serverVars, accessVars, retrying, pending, since, cacheVars>>

(* 401 or 404, which the hook cannot tell apart. A lost membership goes     *)
(* unnoticed, and so does an ended session whose /auth/me is not answered.  *)
Refused(s) ==
    /\ socket[s] = "waiting"
    /\ server = "up"
    /\ ~MayFollow(s)
    /\ onclose(s)
    /\ UNCHANGED <<feedVars, serverVars, accessVars, stream, pending, cacheVars>>

(* Mutant: a socket that never opened is tried again and no more.           *)
RetryOnly(s) == Refused(s) /\ ~token[s]

(* The socket never opened, so the hook asks for /auth/me: a 401 signs out. *)
SignedOut(s) ==
    /\ socket[s] = "waiting"
    /\ server = "up"
    /\ ~token[s]
    /\ cleanup(s)
    /\ UNCHANGED <<feedVars, serverVars, accessVars, stream, cacheVars>>

Unreachable(s) ==
    /\ socket[s] = "waiting"
    /\ server # "up"
    /\ onclose(s)
    /\ UNCHANGED <<feedVars, serverVars, accessVars, stream, pending, cacheVars>>

(* Mutant: attempt is reset before it is looked at.                         *)
OpenWithoutRefresh(s) ==
    /\ stream[s] = "checked"
    /\ Subscribed(s, IF server = "up" THEN "open" ELSE "closed")
    /\ stream' = [stream EXCEPT ![s] = "open"]
    /\ socket' = [socket EXCEPT ![s] = "open"]
    /\ since' = [since EXCEPT ![s] = IF retrying[s] THEN 0 ELSE version]
    /\ retrying' = [retrying EXCEPT ![s] = FALSE]
    /\ UNCHANGED <<serverVars, accessVars, pending, cacheVars>>

(* Accept, Subscribe, and onopen: a page that lost a connection refreshes.  *)
Open(s) ==
    /\ stream[s] = "checked"
    /\ Subscribed(s, IF server = "up" THEN "open" ELSE "closed")
    /\ stream' = [stream EXCEPT ![s] = "open"]
    /\ socket' = [socket EXCEPT ![s] = "open"]
    /\ pending' = [pending EXCEPT ![s] = pending[s] \/ retrying[s]]
    /\ since' = [since EXCEPT ![s] = IF retrying[s] THEN 0 ELSE version]
    /\ retrying' = [retrying EXCEPT ![s] = FALSE]
    /\ UNCHANGED <<serverVars, accessVars, cacheVars>>

(* writeEvent and onmessage; access is looked at after project.changed.     *)
Deliver(s) ==
    /\ stream[s] = "open"
    /\ Received(s)
    /\ stream' = [stream EXCEPT ![s] =
                    IF Head(queue[s]) = "project.changed" THEN "verify" ELSE "open"]
    /\ schedule(s)
    /\ UNCHANGED <<serverVars, accessVars, socket, retrying, since, cacheVars>>

(* The channel is closed and empty: StatusGoingAway.                        *)
GoingAway(s) ==
    /\ stream[s] = "open"
    /\ state[s] = "closed"
    /\ queue[s] = << >>
    /\ HandlerReturns(s)
    /\ onclose(s)
    /\ UNCHANGED <<serverVars, accessVars, pending, cacheVars>>

(* revokedReason, after a project.changed event and at every ping:          *)
(* StatusPolicyViolation, on which the page refreshes. A check that fails   *)
(* lets the connection be.                                                  *)
Revoke(s) ==
    /\ stream[s] \in {"open", "verify"}
    /\ revoked(s)
    /\ HandlerReturns(s)
    /\ onclose(s)
    /\ schedule(s)
    /\ UNCHANGED <<serverVars, accessVars, cacheVars>>

VerifiedOrUnknown(s) ==
    /\ stream[s] = "verify"
    /\ stream' = [stream EXCEPT ![s] = "open"]
    /\ UNCHANGED <<feedVars, serverVars, accessVars, hookVars, cacheVars>>

(* The network, a write or a ping that times out.                           *)
Break(s) ==
    /\ stream[s] # "none"
    /\ HandlerReturns(s)
    /\ onclose(s)
    /\ UNCHANGED <<serverVars, accessVars, pending, cacheVars>>

---------------------------------------------------------------------------
(* Refetches.                                                               *)

Idle(s) == fetch[s] \in {"none", "failed"}

(* Mutant: while a refetch runs, an event asks for nothing more.            *)
JoinRefetch(s) ==
    /\ pending[s]
    /\ pending' = [pending EXCEPT ![s] = FALSE]
    /\ fetch' = [fetch EXCEPT ![s] = IF Idle(s) THEN "sent" ELSE @]
    /\ UNCHANGED <<feedVars, serverVars, accessVars, stream, socket, retrying, since,
                   read, again, shown>>

(* The debounce timer: refreshProject lets a refetch that runs finish, and  *)
(* has another one follow, as that one may have read before the change.     *)
flush(s) ==
    /\ pending[s]
    /\ pending' = [pending EXCEPT ![s] = FALSE]
    /\ IF Idle(s)
       THEN fetch' = [fetch EXCEPT ![s] = "sent"] /\ UNCHANGED again
       ELSE again' = [again EXCEPT ![s] = TRUE] /\ UNCHANGED fetch
    /\ UNCHANGED <<feedVars, serverVars, accessVars, stream, socket, retrying, since,
                   read, shown>>

(* The window gets the focus, and what is stale is fetched.                 *)
Focus(s) ==
    /\ Idle(s)
    /\ socket[s] # "off"
    /\ fetch' = [fetch EXCEPT ![s] = "sent"]
    /\ UNCHANGED <<feedVars, serverVars, accessVars, stream, hookVars, read, again, shown>>

(* The server answers from the rows committed by now.                       *)
Answer(s) ==
    /\ fetch[s] = "sent"
    /\ server # "down"
    /\ fetch' = [fetch EXCEPT ![s] = IF MayFollow(s) THEN "read" ELSE "refused"]
    /\ read' = [read EXCEPT ![s] = version]
    /\ UNCHANGED <<feedVars, serverVars, accessVars, stream, hookVars, again, shown>>

(* A refetch is over: refreshProject awaited it to ask for the next.        *)
Settled(s, as) ==
    /\ fetch' = [fetch EXCEPT ![s] = IF again[s] THEN "sent" ELSE as]
    /\ again' = [again EXCEPT ![s] = FALSE]
    /\ UNCHANGED read

Refetched(s) ==
    /\ fetch[s] = "read"
    /\ shown' = [shown EXCEPT ![s] = read[s]]
    /\ Settled(s, "none")
    /\ UNCHANGED <<feedVars, serverVars, accessVars, stream, hookVars>>

(* Given up: at once on another answer of the kind 4xx, after two more      *)
(* tries on anything else, be the server up or not.                         *)
RefetchFails(s) ==
    /\ fetch[s] = "sent"
    /\ Settled(s, "failed")
    /\ UNCHANGED <<feedVars, serverVars, accessVars, stream, hookVars, shown>>

(* 401 or 404: the hook goes away, and with the socket the handler.         *)
Leave(s) ==
    /\ fetch[s] = "refused"
    /\ cleanup(s)
    /\ HandlerReturns(s)
    /\ fetch' = [fetch EXCEPT ![s] = "none"]
    /\ again' = [again EXCEPT ![s] = FALSE]
    /\ UNCHANGED <<serverVars, accessVars, read, shown>>

---------------------------------------------------------------------------
(* The server.                                                              *)

(* Shutdown closes the hub and lets requests in progress finish.            *)
Shutdown ==
    /\ server = "up"
    /\ server' = "draining"
    /\ Cut(Opened)
    /\ UNCHANGED <<version, unpublished, accessVars, stream, hookVars, cacheVars>>

(* The process ends, or crashes: connections break, events are lost, and    *)
(* so are answers on their way, whose requests are tried again.             *)
Stop ==
    /\ server # "down"
    /\ server' = "down"
    /\ unpublished' = {}
    /\ state' = [s \in Subscriber |-> "none"]
    /\ queue' = [s \in Subscriber |-> << >>]
    /\ missed' = [s \in Subscriber |-> FALSE]
    /\ stream' = [s \in Subscriber |-> "none"]
    /\ socket' = [s \in Subscriber |-> IF socket[s] = "off" THEN "off" ELSE "waiting"]
    /\ retrying' = [s \in Subscriber |-> retrying[s] \/ socket[s] \in {"connecting", "open"}]
    /\ fetch' = [s \in Subscriber |-> IF Idle(s) THEN fetch[s] ELSE "sent"]
    /\ UNCHANGED <<version, accessVars, pending, since, read, again, shown>>

Start ==
    /\ server = "down"
    /\ server' = "up"
    /\ UNCHANGED <<feedVars, version, unpublished, accessVars, stream, hookVars, cacheVars>>

---------------------------------------------------------------------------
Page(s) ==
    \/ \E belongs \in BOOLEAN : SetMember(s, belongs)
    \/ EndToken(s)
    \/ CutSlow(s)
    \/ Handshake(s) \/ Refused(s) \/ SignedOut(s) \/ Unreachable(s) \/ Open(s) \/ Break(s)
    \/ Deliver(s) \/ GoingAway(s) \/ Revoke(s) \/ VerifiedOrUnknown(s)
    \/ flush(s) \/ Focus(s) \/ Answer(s) \/ Refetched(s) \/ RefetchFails(s) \/ Leave(s)

Next ==
    \/ \E e \in Event : Commit(e)
    \/ \E m \in unpublished : Publish(m)
    \/ \E s \in Subscriber : Page(s)
    \/ Shutdown \/ Stop \/ Start

Spec == Init /\ [][Next]_vars

(* Requests publish after they commit and cut off who was slow. Timers      *)
(* fire; a steady stream of events puts flush off for MAX_WAIT_MS at most.  *)
(* A running handler reads its channel. Of the outside: what is tried often *)
(* enough succeeds (a handshake, a check of access, /auth/me), a stopped     *)
(* server is started again, and while it runs a refetch is answered or      *)
(* given up. That the window ever gets the focus is not assumed.            *)
Fairness ==
    /\ WF_vars(\E m \in unpublished : Publish(m))
    /\ WF_vars(Start)
    /\ \A s \in Subscriber :
        /\ WF_vars(CutSlow(s))
        /\ WF_vars(Handshake(s) \/ Refused(s) \/ Unreachable(s))
        /\ SF_vars(SignedOut(s))
        /\ SF_vars(Open(s))
        /\ WF_vars(Deliver(s))
        /\ WF_vars(GoingAway(s))
        /\ SF_vars(Revoke(s))
        /\ WF_vars(VerifiedOrUnknown(s))
        /\ WF_vars(flush(s))
        /\ WF_vars(Answer(s) \/ RefetchFails(s))
        /\ WF_vars(Refetched(s))
        /\ WF_vars(Leave(s))

FairSpec == Spec /\ Fairness

---------------------------------------------------------------------------
(* Why a connected page that is behind will learn of it: a refetch is due,  *)
(* or runs, or will show the present version, or the connection will say so.*)
Underway(s) ==
    \/ pending[s] \/ again[s]
    \/ fetch[s] \in {"sent", "refused"}
    \/ fetch[s] = "read" /\ read[s] = version
    \/ queue[s] # << >> \/ missed[s] \/ state[s] = "closed"
    \/ \E m \in unpublished : m.at = version

(* A page whose connection is open misses nothing, but for what was         *)
(* committed between its first load and its first connection, as onopen     *)
(* looks at attempt > 0 (useProjectRealtime.ts:81), and for what a refetch  *)
(* that was given up was to show: nothing asks for it again                 *)
(* (queryClient.ts:23) until the next event, reconnection or focus.         *)
NothingIsLost ==
    \A s \in Subscriber :
        socket[s] = "open" /\ shown[s] < version /\ since[s] < version
            => Underway(s) \/ fetch[s] = "failed"

(* When writes end and the server stays up, every page that may follow the  *)
(* project shows its last version, however often connections broke, but for *)
(* the first load's gap, and unless its last refetch was given up or they   *)
(* are given up again and again.                                            *)
CatchesUp ==
    <>[](server = "up") =>
        \A s \in Subscriber :
            \/ <>[](\/ shown[s] = version
                    \/ socket[s] = "open" /\ since[s] = version
                    \/ socket[s] = "off" \/ ~MayFollow(s))
            \/ <>[](fetch[s] = "failed")
            \/ []<><<RefetchFails(s)>>_vars

(* A removed member's connection ends (ws.go:36), if not by the event then  *)
(* by a ping.                                                               *)
RemovedStreamEnds ==
    \A s \in Subscriber :
        stream[s] = "open" /\ ~member[s] ~> stream[s] = "none" \/ member[s]

(* An ended session signs out instead of retrying silently                  *)
(* (docs/FRONTEND.md:154, useProjectRealtime.ts:94).                        *)
EndedSessionSignsOut ==
    <>[](server = "up") => \A s \in Subscriber : ~token[s] ~> socket[s] = "off"

(* What api/ws.go:35 says: a project.changed event has access checked, so   *)
(* a removed member stops receiving immediately. It takes that the event    *)
(* is still to come when the connection of a removed member is opened.      *)
RemovalReachesNewStream ==
    [][\A s \in Subscriber :
        Open(s) /\ ~member[s] => \E m \in unpublished : m.event = "project.changed"]_vars
=============================================================================
