--------------------------- MODULE RealtimeProofs ---------------------------
(***************************************************************************)
(* A page with an open connection misses no change, for any number of      *)
(* pages and commits and any capacity of the channels.                     *)
(***************************************************************************)
EXTENDS Realtime, TLAPS, SequenceTheorems

(* NothingIsLost alone is not inductive: an answer must not take a page     *)
(* back behind what it shows.                                               *)
Behind(s) ==
    /\ shown[s] <= version
    /\ fetch[s] = "read" => shown[s] <= read[s] /\ read[s] <= version

Noticed(s) ==
    socket[s] = "open" /\ shown[s] < version /\ since[s] < version
        => Underway(s) \/ fetch[s] = "failed"

IInv ==
    /\ TypeOK
    /\ \A s \in Subscriber : Behind(s)
    /\ \A s \in Subscriber : Noticed(s)

---------------------------------------------------------------------------
(* What the operations of the feed do to its variables.                     *)

LEMMA FeedIdle == ASSUME FeedTypeOK, UNCHANGED feedVars PROVE FeedTypeOK'
BY DEF FeedTypeOK, feedVars

LEMMA SubscribedFeed ==
    ASSUME FeedTypeOK, NEW s \in Subscriber, NEW as \in {"open", "closed"}, Subscribed(s, as)
    PROVE  FeedTypeOK'
BY DEF FeedTypeOK, Subscribed

LEMMA CutFeed ==
    ASSUME FeedTypeOK, NEW S, S \subseteq Opened, Cut(S)
    PROVE  FeedTypeOK'
BY DEF FeedTypeOK, Cut, Opened

LEMMA SendFeed ==
    ASSUME FeedTypeOK, NEW e \in Event, NEW S, S \subseteq Opened, Send(e, S)
    PROVE  /\ FeedTypeOK'
           /\ \A s \in Subscriber :
                /\ queue[s] # << >> => queue'[s] # << >>
                /\ missed[s] => missed'[s]
                /\ s \in S => queue'[s] # << >> \/ missed'[s]
<1>1. ASSUME NEW s \in Subscriber
      PROVE  /\ queue'[s] \in Seq(Event)
             /\ Len(queue'[s]) <= Buffer
             /\ queue[s] # << >> => queue'[s] # << >>
             /\ s \in S => queue'[s] # << >> \/ missed'[s]
             /\ s \notin S => queue'[s] = queue[s]
  <2>0. /\ queue[s] \in Seq(Event) /\ Len(queue[s]) \in Nat /\ Len(queue[s]) <= Buffer
        /\ Append(queue[s], e) \in Seq(Event)
        /\ Len(Append(queue[s], e)) = Len(queue[s]) + 1
        /\ Append(queue[s], e) # << >>
    BY AppendProperties, LenProperties DEF FeedTypeOK
  <2>1. CASE s \in S /\ HasRoom(s)
    <3>1. queue'[s] = Append(queue[s], e)
      BY <2>1 DEF Send
    <3>2. QED
      BY <2>0, <2>1, <3>1, BufferAssumption DEF HasRoom
  <2>2. CASE ~(s \in S /\ HasRoom(s))
    <3>1. queue'[s] = queue[s] /\ (s \in S => missed'[s])
      BY <2>2 DEF Send
    <3>2. QED
      BY <2>0, <3>1
  <2>3. QED
    BY <2>1, <2>2
<1>2. /\ missed' \in [Subscriber -> BOOLEAN]
      /\ \A s \in Subscriber : missed[s] => missed'[s]
      /\ \A s \in Subscriber : missed'[s] => state[s] = "open"
  BY DEF FeedTypeOK, Send, Opened
<1>3. \A s \in Subscriber : state[s] = "none" => queue'[s] = << >>
  BY <1>1 DEF FeedTypeOK, Opened
<1>4. FeedTypeOK'
  <2>1. queue' \in [Subscriber -> Seq(Event)]
    BY <1>1 DEF Send
  <2>2. QED
    BY <1>1, <1>2, <1>3, <2>1 DEF FeedTypeOK, Send
<1>5. QED
  BY <1>1, <1>2, <1>4

LEMMA ReceivedFeed ==
    ASSUME FeedTypeOK, NEW s \in Subscriber, Received(s)
    PROVE  FeedTypeOK'
<1>1. /\ Tail(queue[s]) \in Seq(Event)
      /\ Len(Tail(queue[s])) = Len(queue[s]) - 1
      /\ Len(queue[s]) \in Nat
      /\ Len(queue[s]) <= Buffer
      /\ queue[s] # << >>
  BY HeadTailProperties, LenProperties DEF FeedTypeOK, Received
<1>2. /\ queue' \in [Subscriber -> Seq(Event)]
      /\ queue'[s] = Tail(queue[s])
      /\ \A t \in Subscriber : t # s => queue'[t] = queue[t]
  BY <1>1 DEF FeedTypeOK, Received
<1>3. ASSUME NEW t \in Subscriber PROVE Len(queue'[t]) <= Buffer
  <2>1. CASE t = s
    BY <1>1, <1>2, <2>1, BufferAssumption
  <2>2. CASE t # s
    BY <1>2, <2>2 DEF FeedTypeOK
  <2>3. QED
    BY <2>1, <2>2
<1>4. ASSUME NEW t \in Subscriber, state[t] = "none" PROVE queue'[t] = << >>
  <2>1. queue[t] = << >>
    BY <1>4 DEF FeedTypeOK
  <2>2. QED
    BY <1>1, <1>2, <2>1
<1>5. QED
  BY <1>2, <1>3, <1>4 DEF FeedTypeOK, Received

LEMMA ReturnsFeed ==
    ASSUME FeedTypeOK, NEW s \in Subscriber, HandlerReturns(s)
    PROVE  FeedTypeOK'
<1>1. << >> \in Seq(Event) /\ Len(<< >>) = 0 /\ 0 <= Buffer
  BY EmptySeq, BufferAssumption
<1>2. /\ queue' \in [Subscriber -> Seq(Event)]
      /\ queue'[s] = << >>
      /\ \A t \in Subscriber : t # s => queue'[t] = queue[t]
  BY <1>1 DEF FeedTypeOK, HandlerReturns
<1>3. \A t \in Subscriber : Len(queue'[t]) <= Buffer
  BY <1>1, <1>2 DEF FeedTypeOK
<1>4. QED
  BY <1>2, <1>3 DEF FeedTypeOK, HandlerReturns

LEMMA EmptyFeed ==
    ASSUME state' = [s \in Subscriber |-> "none"],
           queue' = [s \in Subscriber |-> << >>],
           missed' = [s \in Subscriber |-> FALSE]
    PROVE  FeedTypeOK'
<1>1. << >> \in Seq(Event) /\ Len(<< >>) = 0 /\ 0 <= Buffer
  BY EmptySeq, BufferAssumption
<1>2. queue' \in [Subscriber -> Seq(Event)] /\ \A s \in Subscriber : Len(queue'[s]) <= Buffer
  BY <1>1
<1>3. QED
  BY <1>2 DEF FeedTypeOK

---------------------------------------------------------------------------
(* Types.                                                                   *)

LEMMA InitType == Init => TypeOK
<1> SUFFICES ASSUME Init PROVE TypeOK
  OBVIOUS
<1>1. FeedTypeOK
  <2>1. << >> \in Seq(Event) /\ Len(<< >>) = 0 /\ 0 <= Buffer
    BY EmptySeq, BufferAssumption
  <2>2. queue \in [Subscriber -> Seq(Event)] /\ \A s \in Subscriber : Len(queue[s]) <= Buffer
    BY <2>1 DEF Init, FeedInit
  <2>3. QED
    BY <2>2 DEF Init, FeedInit, FeedTypeOK
<1>2. 0 \in Version
  BY RealtimeAssumption DEF Version
<1>3. QED
  BY <1>1, <1>2 DEF Init, FeedInit, TypeOK

LEMMA CommittedType ==
    ASSUME TypeOK, NEW e \in Event, Committed(e), member' \in [Subscriber -> BOOLEAN]
    PROVE  TypeOK'
<1>1. FeedTypeOK'
  BY FeedIdle DEF Committed, TypeOK
<1>2. version \in Version /\ version + 1 \in Version
  BY RealtimeAssumption DEF Committed, TypeOK, Version
<1>3. unpublished' \subseteq [at : Version, event : Event]
  BY <1>2 DEF Committed, TypeOK
<1>4. QED
  BY <1>1, <1>2, <1>3 DEF Committed, TypeOK, feedVars, hookVars, cacheVars

LEMMA WriteType ==
    ASSUME TypeOK, NEW s \in Subscriber, NEW e \in Event, NEW belongs \in BOOLEAN,
           Commit(e) \/ SetMember(s, belongs) \/ EndToken(s)
    PROVE  TypeOK'
<1>1. CASE Commit(e)
  BY <1>1, CommittedType DEF Commit, TypeOK
<1>2. CASE SetMember(s, belongs)
  BY <1>2, CommittedType, RealtimeAssumption DEF SetMember, TypeOK
<1>3. CASE EndToken(s)
  <2>1. FeedTypeOK'
    BY <1>3, FeedIdle DEF EndToken, TypeOK
  <2>2. QED
    BY <1>3, <2>1 DEF EndToken, TypeOK, feedVars, serverVars, hookVars, cacheVars
<1>4. QED
  BY <1>1, <1>2, <1>3

LEMMA PublishType == ASSUME TypeOK, NEW m \in unpublished, Publish(m) PROVE TypeOK'
<1>1. m.event \in Event
  BY DEF TypeOK
<1>2. FeedTypeOK'
  BY <1>1, SendFeed DEF Publish, TypeOK
<1>3. QED
  BY <1>2 DEF Publish, Send, TypeOK, accessVars, hookVars, cacheVars

LEMMA CutSlowType == ASSUME TypeOK, NEW s \in Subscriber, CutSlow(s) PROVE TypeOK'
<1>1. {s} \subseteq Opened
  BY DEF CutSlow, TypeOK, FeedTypeOK, Opened
<1>2. FeedTypeOK'
  BY <1>1, CutFeed DEF CutSlow, TypeOK
<1>3. QED
  BY <1>1, <1>2 DEF CutSlow, Cut, Opened, TypeOK, serverVars, accessVars, hookVars, cacheVars

(* The handler and the hook, without the hub.                               *)
LEMMA ConnectType ==
    ASSUME TypeOK, NEW s \in Subscriber,
           Handshake(s) \/ Refused(s) \/ SignedOut(s) \/ Unreachable(s) \/ VerifiedOrUnknown(s)
    PROVE  TypeOK'
<1>1. FeedTypeOK'
  BY FeedIdle DEF Handshake, Refused, SignedOut, Unreachable, VerifiedOrUnknown, TypeOK
<1>2. CASE Handshake(s)
  BY <1>1, <1>2 DEF Handshake, TypeOK, feedVars, serverVars, accessVars, cacheVars
<1>3. CASE Refused(s) \/ SignedOut(s)
  <2>1. /\ UNCHANGED <<feedVars, serverVars, accessVars, stream, since, cacheVars>>
        /\ socket[s] = "waiting"
        /\ \E to \in {"off", "waiting"} : socket' = [socket EXCEPT ![s] = to]
        /\ retrying' \in [Subscriber -> BOOLEAN]
        /\ pending' \in [Subscriber -> BOOLEAN]
    BY <1>3 DEF Refused, SignedOut, onclose, cleanup, TypeOK
  <2>2. QED
    <3>1. socket' \in [Subscriber -> {"waiting", "connecting", "open", "off"}]
      BY <2>1 DEF TypeOK
    <3>2. \A t \in Subscriber :
            /\ stream[t] = "checked" <=> socket'[t] = "connecting"
            /\ stream[t] \in {"open", "verify"} <=> socket'[t] = "open"
      BY <2>1 DEF TypeOK
    <3>3. QED
      BY <1>1, <2>1, <3>1, <3>2 DEF TypeOK, feedVars, serverVars, accessVars, cacheVars
<1>4. CASE Unreachable(s)
  BY <1>1, <1>4 DEF Unreachable, onclose, TypeOK, feedVars, serverVars, accessVars, cacheVars
<1>5. CASE VerifiedOrUnknown(s)
  BY <1>1, <1>5
  DEF VerifiedOrUnknown, TypeOK, feedVars, serverVars, accessVars, hookVars, cacheVars
<1>6. QED
  BY <1>2, <1>3, <1>4, <1>5

LEMMA OpenType == ASSUME TypeOK, NEW s \in Subscriber, Open(s) PROVE TypeOK'
<1>1. PICK as \in {"open", "closed"} : Subscribed(s, as)
  BY DEF Open
<1>2. FeedTypeOK'
  BY <1>1, SubscribedFeed DEF TypeOK
<1>3. 0 \in Version
  BY RealtimeAssumption DEF Version
<1>4. /\ stream[s] = "checked"
      /\ stream' = [stream EXCEPT ![s] = "open"]
      /\ socket' = [socket EXCEPT ![s] = "open"]
      /\ state' = [state EXCEPT ![s] = as]
  BY <1>1 DEF Open, Subscribed
<1>5. ASSUME NEW t \in Subscriber
      PROVE  /\ stream'[t] = "checked" <=> socket'[t] = "connecting"
             /\ stream'[t] \in {"open", "verify"} <=> socket'[t] = "open"
             /\ stream'[t] \in {"open", "verify"} <=> state'[t] # "none"
  BY <1>4 DEF TypeOK, FeedTypeOK
<1>6. /\ pending' \in [Subscriber -> BOOLEAN]
      /\ retrying' \in [Subscriber -> BOOLEAN]
      /\ since' \in [Subscriber -> Version]
  BY <1>3 DEF Open, TypeOK
<1>7. /\ stream' \in [Subscriber -> {"none", "checked", "open", "verify"}]
      /\ socket' \in [Subscriber -> {"waiting", "connecting", "open", "off"}]
  BY <1>4 DEF TypeOK
<1>8. QED
  BY <1>2, <1>5, <1>6, <1>7 DEF Open, TypeOK, serverVars, accessVars, cacheVars

LEMMA DeliverType == ASSUME TypeOK, NEW s \in Subscriber, Deliver(s) PROVE TypeOK'
<1>1. FeedTypeOK'
  BY ReceivedFeed DEF Deliver, TypeOK
<1>2. PICK to \in {"open", "verify"} : stream' = [stream EXCEPT ![s] = to]
  BY DEF Deliver
<1>3. state' = state
  BY DEF Deliver, Received
<1>4. QED
  BY <1>1, <1>2, <1>3 DEF Deliver, schedule, TypeOK, serverVars, accessVars, cacheVars

LEMMA EndType ==
    ASSUME TypeOK, NEW s \in Subscriber, GoingAway(s) \/ Revoke(s) \/ Break(s)
    PROVE  TypeOK'
<1>1. HandlerReturns(s) /\ onclose(s)
      /\ pending' \in [Subscriber -> BOOLEAN]
      /\ UNCHANGED <<serverVars, accessVars, cacheVars>>
  BY DEF GoingAway, Revoke, Break, schedule, TypeOK
<1>2. FeedTypeOK'
  BY <1>1, ReturnsFeed DEF TypeOK
<1>3. QED
  BY <1>1, <1>2
  DEF HandlerReturns, onclose, TypeOK, FeedTypeOK, serverVars, accessVars, cacheVars

LEMMA RefetchType ==
    ASSUME TypeOK, NEW s \in Subscriber,
           flush(s) \/ Focus(s) \/ Answer(s) \/ Refetched(s) \/ RefetchFails(s)
    PROVE  TypeOK'
<1>1. FeedTypeOK'
  BY FeedIdle DEF flush, Focus, Answer, Refetched, RefetchFails, TypeOK
<1>2. CASE flush(s) \/ Focus(s)
  BY <1>1, <1>2 DEF flush, Focus, TypeOK, feedVars, serverVars, accessVars, hookVars
<1>3. CASE Answer(s)
  BY <1>1, <1>3 DEF Answer, TypeOK, feedVars, serverVars, accessVars, hookVars
<1>4. CASE Refetched(s)
  BY <1>1, <1>4 DEF Refetched, Settled, TypeOK, feedVars, serverVars, accessVars, hookVars
<1>5. CASE RefetchFails(s)
  BY <1>1, <1>5 DEF RefetchFails, Settled, TypeOK, feedVars, serverVars, accessVars, hookVars
<1>6. QED
  BY <1>2, <1>3, <1>4, <1>5

LEMMA LeaveType == ASSUME TypeOK, NEW s \in Subscriber, Leave(s) PROVE TypeOK'
<1>1. FeedTypeOK'
  BY ReturnsFeed DEF Leave, TypeOK
<1>2. QED
  BY <1>1 DEF Leave, cleanup, HandlerReturns, TypeOK, FeedTypeOK, serverVars, accessVars

LEMMA ServerType == ASSUME TypeOK, Shutdown \/ Stop \/ Start PROVE TypeOK'
<1>1. CASE Shutdown
  <2>1. FeedTypeOK'
    BY <1>1, CutFeed DEF Shutdown, TypeOK
  <2>2. QED
    BY <1>1, <2>1 DEF Shutdown, Cut, Opened, TypeOK, accessVars, hookVars, cacheVars
<1>2. CASE Stop
  <2>1. FeedTypeOK'
    BY <1>2, EmptyFeed DEF Stop
  <2>2. QED
    BY <1>2, <2>1 DEF Stop, TypeOK, accessVars
<1>3. CASE Start
  <2>1. FeedTypeOK'
    BY <1>3, FeedIdle DEF Start, TypeOK
  <2>2. QED
    BY <1>3, <2>1 DEF Start, TypeOK, feedVars, accessVars, hookVars, cacheVars
<1>4. QED
  BY <1>1, <1>2, <1>3

---------------------------------------------------------------------------
(* Nothing is lost.                                                         *)

LEMMA InitIInv == Init => IInv
<1> SUFFICES ASSUME Init PROVE IInv
  OBVIOUS
<1>1. TypeOK
  BY InitType
<1>2. ASSUME NEW s \in Subscriber PROVE Behind(s)
  <2>1. shown[s] = 0 /\ version = 0 /\ fetch[s] = "sent"
    BY DEF Init
  <2>2. QED
    BY <2>1 DEF Behind
<1>3. \A s \in Subscriber : Noticed(s)
  BY DEF Init, Noticed
<1>4. QED
  BY <1>1, <1>2, <1>3 DEF IInv

LEMMA Numbers ==
    ASSUME TypeOK
    PROVE  /\ version \in Nat
           /\ \A s \in Subscriber : shown[s] \in Nat /\ read[s] \in Nat /\ since[s] \in Nat
<1>1. Version \subseteq Nat
  BY RealtimeAssumption DEF Version
<1>2. QED
  BY <1>1 DEF TypeOK

LEMMA Functions ==
    ASSUME TypeOK
    PROVE  /\ state \in [Subscriber -> {"none", "open", "closed"}]
           /\ queue \in [Subscriber -> Seq(Event)]
           /\ missed \in [Subscriber -> BOOLEAN]
           /\ socket \in [Subscriber -> {"waiting", "connecting", "open", "off"}]
           /\ pending \in [Subscriber -> BOOLEAN]
           /\ fetch \in [Subscriber -> {"none", "failed", "sent", "read", "refused"}]
           /\ again \in [Subscriber -> BOOLEAN]
BY DEF TypeOK, FeedTypeOK

(* A commit puts every page behind, and its event is still to come.         *)
LEMMA CommittedNoticed ==
    ASSUME IInv, NEW e \in Event, Committed(e), NEW t \in Subscriber
    PROVE  Behind(t)' /\ Noticed(t)'
<1>1. /\ version' = version + 1
      /\ [at |-> version + 1, event |-> e] \in unpublished'
      /\ UNCHANGED <<server, state, fetch, read, shown>>
  BY DEF Committed, feedVars, cacheVars
<1>2. version \in Nat /\ shown[t] \in Nat /\ read[t] \in Nat /\ Behind(t)
  BY Numbers DEF IInv
<1>3. Behind(t)'
  BY <1>1, <1>2 DEF Behind
<1>4. \E m \in unpublished' : m.at = version'
  BY <1>1
<1>5. QED
  BY <1>3, <1>4 DEF Noticed, Underway

LEMMA WriteNoticed ==
    ASSUME IInv, NEW s \in Subscriber, NEW e \in Event, NEW belongs \in BOOLEAN,
           Commit(e) \/ SetMember(s, belongs) \/ EndToken(s), NEW t \in Subscriber
    PROVE  Behind(t)' /\ Noticed(t)'
<1>1. CASE Commit(e) \/ SetMember(s, belongs)
  BY <1>1, CommittedNoticed, RealtimeAssumption DEF Commit, SetMember
<1>2. CASE EndToken(s)
  BY <1>2
  DEF EndToken, IInv, Behind, Noticed, Underway, feedVars, serverVars, hookVars, cacheVars
<1>3. QED
  BY <1>1, <1>2

(* The last commit's event reaches every connection, or finds it full.      *)
LEMMA PublishNoticed ==
    ASSUME IInv, NEW m \in unpublished, Publish(m), NEW t \in Subscriber
    PROVE  Behind(t)' /\ Noticed(t)'
<1>1. /\ unpublished' = unpublished \ {m}
      /\ UNCHANGED <<server, version, state, socket, pending, since, fetch, read, again, shown>>
  BY DEF Publish, Send, hookVars, cacheVars
<1>2. /\ queue[t] # << >> => queue'[t] # << >>
      /\ missed[t] => missed'[t]
      /\ t \in Opened => queue'[t] # << >> \/ missed'[t]
  <2>1. m.event \in Event /\ FeedTypeOK
    BY DEF IInv, TypeOK
  <2>2. QED
    BY <2>1, SendFeed DEF Publish
<1>3. Behind(t)'
  BY <1>1 DEF IInv, Behind
<1>4. ASSUME socket[t] = "open", m.at = version PROVE Underway(t)'
  <2>1. state[t] # "none" /\ state[t] \in {"none", "open", "closed"}
    BY <1>4 DEF IInv, TypeOK, FeedTypeOK
  <2>2. QED
    BY <1>1, <1>2, <2>1 DEF Opened, Underway
<1>5. ASSUME Underway(t), m.at # version PROVE Underway(t)'
  BY <1>1, <1>2, <1>5 DEF Underway
<1>6. QED
  BY <1>1, <1>3, <1>4, <1>5 DEF IInv, Noticed

LEMMA CutSlowNoticed ==
    ASSUME IInv, NEW s \in Subscriber, CutSlow(s), NEW t \in Subscriber
    PROVE  Behind(t)' /\ Noticed(t)'
<1>1. /\ state'[t] = IF t = s THEN "closed" ELSE state[t]
      /\ t # s => missed'[t] = missed[t]
      /\ queue' = queue
      /\ UNCHANGED <<serverVars, hookVars, cacheVars>>
  BY DEF CutSlow, Cut, IInv, TypeOK, FeedTypeOK
<1>2. Behind(t)'
  BY <1>1 DEF IInv, Behind, serverVars, cacheVars
<1>3. Noticed(t)'
  BY <1>1 DEF IInv, Noticed, Underway, serverVars, hookVars, cacheVars
<1>4. QED
  BY <1>2, <1>3

LEMMA ConnectNoticed ==
    ASSUME IInv, NEW s \in Subscriber,
           Handshake(s) \/ Refused(s) \/ SignedOut(s) \/ Unreachable(s) \/ VerifiedOrUnknown(s),
           NEW t \in Subscriber
    PROVE  Behind(t)' /\ Noticed(t)'
<1>1. /\ UNCHANGED <<feedVars, serverVars, since, cacheVars>>
      /\ pending'[t] = pending[t] \/ socket'[t] # "open"
      /\ socket'[t] = "open" => socket[t] = "open"
  BY DEF Handshake, Refused, SignedOut, Unreachable, VerifiedOrUnknown, onclose, cleanup, hookVars,
         IInv, TypeOK
<1>2. Behind(t)'
  BY <1>1 DEF IInv, Behind, feedVars, serverVars, cacheVars
<1>3. Noticed(t)'
  BY <1>1 DEF IInv, Noticed, Underway, feedVars, serverVars, cacheVars
<1>4. QED
  BY <1>2, <1>3

(* A first connection is caught up with by definition; any other refreshes. *)
LEMMA OpenNoticed ==
    ASSUME IInv, NEW s \in Subscriber, Open(s), NEW t \in Subscriber
    PROVE  Behind(t)' /\ Noticed(t)'
<1>1. /\ UNCHANGED <<serverVars, queue, missed, cacheVars>>
      /\ t # s => UNCHANGED <<state[t], socket[t], pending[t], since[t]>>
      /\ pending'[s] \/ since'[s] = version
  BY DEF Open, Subscribed, IInv, TypeOK, FeedTypeOK
<1>2. Behind(t)'
  BY <1>1 DEF IInv, Behind, serverVars, cacheVars
<1>3. CASE t = s
  <2>1. version \in Nat
    BY Numbers DEF IInv
  <2>2. QED
    BY <1>1, <1>2, <1>3, <2>1 DEF Noticed, Underway, serverVars
<1>4. CASE t # s
  BY <1>1, <1>2, <1>4 DEF IInv, Noticed, Underway, serverVars, cacheVars
<1>5. QED
  BY <1>3, <1>4

LEMMA DeliverNoticed ==
    ASSUME IInv, NEW s \in Subscriber, Deliver(s), NEW t \in Subscriber
    PROVE  Behind(t)' /\ Noticed(t)'
<1>0. TypeOK
  BY DEF IInv
<1>1. /\ UNCHANGED <<serverVars, state, missed, socket, since, cacheVars>>
      /\ pending'[s]
      /\ t # s => pending'[t] = pending[t] /\ queue'[t] = queue[t]
  BY <1>0, Functions DEF Deliver, Received, schedule
<1>2. Behind(t)'
  BY <1>1 DEF IInv, Behind, serverVars, cacheVars
<1>3. Noticed(t)'
  BY <1>1 DEF IInv, Noticed, Underway, serverVars, cacheVars
<1>4. QED
  BY <1>2, <1>3

LEMMA EndNoticed ==
    ASSUME IInv, NEW s \in Subscriber, GoingAway(s) \/ Revoke(s) \/ Break(s),
           NEW t \in Subscriber
    PROVE  Behind(t)' /\ Noticed(t)'
<1>0. TypeOK
  BY DEF IInv
<1>1. /\ UNCHANGED <<serverVars, since, cacheVars>>
      /\ socket'[s] = "waiting" /\ state'[s] = "none"
      /\ t # s => UNCHANGED <<state[t], queue[t], missed[t], socket[t], pending[t]>>
  BY <1>0, Functions DEF GoingAway, Revoke, Break, HandlerReturns, onclose, schedule
<1>2. Behind(t)'
  BY <1>1 DEF IInv, Behind, serverVars, cacheVars
<1>3. Noticed(t)'
  BY <1>1 DEF IInv, Noticed, Underway, serverVars, cacheVars
<1>4. QED
  BY <1>2, <1>3

LEMMA FlushNoticed ==
    ASSUME IInv, NEW s \in Subscriber, flush(s) \/ Focus(s), NEW t \in Subscriber
    PROVE  Behind(t)' /\ Noticed(t)'
<1>0. TypeOK
  BY DEF IInv
<1>1. /\ UNCHANGED <<feedVars, serverVars, socket, since, read, shown>>
      /\ t # s => UNCHANGED <<pending[t], fetch[t], again[t]>>
      /\ fetch'[s] = "sent" \/ again'[s]
      /\ fetch'[s] = "read" => fetch[s] = "read"
  BY <1>0, Functions DEF flush, Focus, hookVars
<1>2. Behind(t)'
  BY <1>1 DEF IInv, Behind, feedVars, serverVars
<1>3. Noticed(t)'
  BY <1>1 DEF IInv, Noticed, Underway, feedVars, serverVars
<1>4. QED
  BY <1>2, <1>3

LEMMA AnswerNoticed ==
    ASSUME IInv, NEW s \in Subscriber, Answer(s), NEW t \in Subscriber
    PROVE  Behind(t)' /\ Noticed(t)'
<1>1. /\ UNCHANGED <<feedVars, serverVars, hookVars, again, shown>>
      /\ t # s => UNCHANGED <<fetch[t], read[t]>>
      /\ fetch'[s] \in {"read", "refused"} /\ read'[s] = version
  BY DEF Answer, IInv, TypeOK
<1>2. Behind(t)'
  <2>1. version \in Nat /\ Behind(t)
    BY Numbers DEF IInv
  <2>2. QED
    BY <1>1, <2>1 DEF Behind, feedVars, serverVars
<1>3. Noticed(t)'
  BY <1>1 DEF IInv, Noticed, Underway, feedVars, serverVars, hookVars
<1>4. QED
  BY <1>2, <1>3

LEMMA RefetchedNoticed ==
    ASSUME IInv, NEW s \in Subscriber, Refetched(s), NEW t \in Subscriber
    PROVE  Behind(t)' /\ Noticed(t)'
<1>1. /\ UNCHANGED <<feedVars, serverVars, hookVars, read>>
      /\ t # s => UNCHANGED <<fetch[t], again[t], shown[t]>>
      /\ fetch[s] = "read" /\ shown'[s] = read[s]
      /\ fetch'[s] = IF again[s] THEN "sent" ELSE "none"
  BY DEF Refetched, Settled, IInv, TypeOK
<1>2. version \in Nat /\ shown[s] \in Nat /\ read[s] \in Nat /\ Behind(s) /\ Noticed(s)
      /\ Behind(t) /\ Noticed(t)
  BY Numbers DEF IInv
<1>3. CASE t = s
  <2>1. Behind(s)'
    BY <1>1, <1>2 DEF Behind, feedVars, serverVars
  <2>2. ASSUME shown'[s] < version, socket[s] = "open", since[s] < version PROVE Underway(s)'
    <3>1. shown[s] < version /\ read[s] # version
      BY <1>1, <1>2, <2>2 DEF Behind
    <3>2. Underway(s)
      BY <1>1, <1>2, <2>2, <3>1 DEF Noticed
    <3>3. QED
      BY <1>1, <3>1, <3>2 DEF Underway, feedVars, serverVars, hookVars
  <2>3. QED
    BY <1>1, <1>3, <2>1, <2>2 DEF Noticed, serverVars, hookVars
<1>4. CASE t # s
  BY <1>1, <1>2, <1>4 DEF Behind, Noticed, Underway, feedVars, serverVars, hookVars
<1>5. QED
  BY <1>3, <1>4

LEMMA RefetchFailsNoticed ==
    ASSUME IInv, NEW s \in Subscriber, RefetchFails(s), NEW t \in Subscriber
    PROVE  Behind(t)' /\ Noticed(t)'
<1>1. /\ UNCHANGED <<feedVars, serverVars, hookVars, read, shown>>
      /\ t # s => UNCHANGED <<fetch[t], again[t]>>
      /\ fetch'[s] \in {"sent", "failed"}
  BY DEF RefetchFails, Settled, IInv, TypeOK
<1>2. Behind(t)'
  BY <1>1 DEF IInv, Behind, feedVars, serverVars
<1>3. Noticed(t)'
  BY <1>1 DEF IInv, Noticed, Underway, feedVars, serverVars, hookVars
<1>4. QED
  BY <1>2, <1>3

LEMMA LeaveNoticed ==
    ASSUME IInv, NEW s \in Subscriber, Leave(s), NEW t \in Subscriber
    PROVE  Behind(t)' /\ Noticed(t)'
<1>0. TypeOK
  BY DEF IInv
<1>1. /\ UNCHANGED <<serverVars, since, read, shown>>
      /\ socket'[s] = "off" /\ state'[s] = "none" /\ fetch'[s] = "none"
      /\ t # s => UNCHANGED <<state[t], queue[t], missed[t], socket[t], pending[t],
                              fetch[t], again[t]>>
  BY <1>0, Functions DEF Leave, cleanup, HandlerReturns
<1>2. Behind(t)'
  BY <1>1 DEF IInv, Behind, serverVars
<1>3. Noticed(t)'
  BY <1>1 DEF IInv, Noticed, Underway, serverVars
<1>4. QED
  BY <1>2, <1>3

LEMMA ServerNoticed ==
    ASSUME IInv, Shutdown \/ Stop \/ Start, NEW t \in Subscriber
    PROVE  Behind(t)' /\ Noticed(t)'
<1>0. Behind(t) /\ Noticed(t) /\ TypeOK /\ FeedTypeOK
  BY DEF IInv, TypeOK
<1>1. CASE Shutdown
  <2>1. /\ UNCHANGED <<queue, version, unpublished, hookVars, cacheVars>>
        /\ socket[t] = "open" => state'[t] = "closed"
    BY <1>0, <1>1 DEF Shutdown, Cut, Opened, TypeOK, FeedTypeOK
  <2>2. QED
    BY <1>0, <2>1 DEF Behind, Noticed, Underway, hookVars, cacheVars
<1>2. CASE Stop
  BY <1>0, <1>2 DEF Stop, Behind, Noticed
<1>3. CASE Start
  BY <1>0, <1>3 DEF Start, Behind, Noticed, Underway, feedVars, hookVars, cacheVars
<1>4. QED
  BY <1>1, <1>2, <1>3

---------------------------------------------------------------------------
LEMMA NextIInv == IInv /\ [Next]_vars => IInv'
<1> SUFFICES ASSUME IInv, [Next]_vars
             PROVE  TypeOK' /\ \A t \in Subscriber : Behind(t)' /\ Noticed(t)'
  BY DEF IInv
<1>0. TypeOK
  BY DEF IInv
<1>1. ASSUME NEW e \in Event, Commit(e)
      PROVE  TypeOK' /\ \A t \in Subscriber : Behind(t)' /\ Noticed(t)'
  <2>1. TypeOK'
    BY <1>0, <1>1, CommittedType DEF Commit, TypeOK
  <2>2. QED
    BY <1>1, <2>1, CommittedNoticed DEF Commit
<1>2. ASSUME NEW m \in unpublished, Publish(m)
      PROVE  TypeOK' /\ \A t \in Subscriber : Behind(t)' /\ Noticed(t)'
  BY <1>0, <1>2, PublishType, PublishNoticed
<1>3. ASSUME NEW s \in Subscriber, Page(s)
      PROVE  TypeOK' /\ \A t \in Subscriber : Behind(t)' /\ Noticed(t)'
  <2>1. CASE (\E belongs \in BOOLEAN : SetMember(s, belongs)) \/ EndToken(s)
    BY <1>0, <2>1, WriteType, WriteNoticed, RealtimeAssumption
  <2>2. CASE CutSlow(s)
    BY <1>0, <2>2, CutSlowType, CutSlowNoticed
  <2>3. CASE Handshake(s) \/ Refused(s) \/ SignedOut(s) \/ Unreachable(s) \/ VerifiedOrUnknown(s)
    BY <1>0, <2>3, ConnectType, ConnectNoticed
  <2>4. CASE Open(s)
    BY <1>0, <2>4, OpenType, OpenNoticed
  <2>5. CASE Deliver(s)
    BY <1>0, <2>5, DeliverType, DeliverNoticed
  <2>6. CASE GoingAway(s) \/ Revoke(s) \/ Break(s)
    BY <1>0, <2>6, EndType, EndNoticed
  <2>7. CASE flush(s) \/ Focus(s) \/ Answer(s) \/ Refetched(s) \/ RefetchFails(s)
    BY <1>0, <2>7, RefetchType, FlushNoticed, AnswerNoticed, RefetchedNoticed,
       RefetchFailsNoticed
  <2>8. CASE Leave(s)
    BY <1>0, <2>8, LeaveType, LeaveNoticed
  <2>9. QED
    BY <1>3, <2>1, <2>2, <2>3, <2>4, <2>5, <2>6, <2>7, <2>8 DEF Page
<1>4. CASE Shutdown \/ Stop \/ Start
  BY <1>0, <1>4, ServerType, ServerNoticed
<1>5. CASE UNCHANGED vars
  <2>1. TypeOK'
    <3>1. FeedTypeOK'
      BY <1>0, <1>5, FeedIdle DEF TypeOK, vars
    <3>2. QED
      BY <1>0, <1>5, <3>1
      DEF TypeOK, vars, feedVars, serverVars, accessVars, hookVars, cacheVars
  <2>2. QED
    BY <1>5, <2>1
    DEF IInv, Behind, Noticed, Underway, vars, feedVars, serverVars, hookVars, cacheVars
<1>6. QED
  BY <1>1, <1>2, <1>3, <1>4, <1>5 DEF Next

THEOREM Invariance == Spec => []IInv
BY InitIInv, NextIInv, PTL DEF Spec

(* Every reachable state of pages, connections and server is well-typed.    *)
THEOREM TypeCorrect == Spec => []TypeOK
<1>1. IInv => TypeOK
  BY DEF IInv
<1>2. QED
  BY <1>1, Invariance, PTL

(* A page with an open connection that is behind will learn of it, but for  *)
(* the time before its first connection and a refetch that was given up.    *)
THEOREM NeverLost == Spec => []NothingIsLost
<1>1. IInv => NothingIsLost
  BY DEF IInv, Noticed, NothingIsLost
<1>2. QED
  BY <1>1, Invariance, PTL
=============================================================================
