----------------------------- MODULE HubProofs ------------------------------
(***************************************************************************)
(* The hub never panics and Publish reaches everybody, for any number of   *)
(* subscriptions and publishers and any capacity.                          *)
(***************************************************************************)
EXTENDS Hub, TLAPS, SequenceTheorems

(* Between two steps of a publisher nothing but its own sends may happen to *)
(* the subscriptions it still has to reach, which is what the read lock is  *)
(* for; and a subscription it remembers as slow is not collected.           *)
PublisherOK(p) ==
    /\ pc[p] = "sending" => todo[p] \subseteq subs /\ event[p] \in Event
    /\ pc[p] # "sending" => todo[p] = {} /\ event[p] = None
    /\ pc[p] = "idle" => slow[p] = {}
    /\ slow[p] \subseteq made

SubscriptionOK(s) ==
    /\ s \in subs <=> s \in made /\ closes[s] = 0
    /\ closes[s] <= 1
    /\ s \notin made => closes[s] = 0 /\ ch[s] = << >>

IInv ==
    /\ TypeOK
    /\ \A p \in Publisher : PublisherOK(p)
    /\ \A s \in Subscription : SubscriptionOK(s)

LEMMA InitIInv == Init => IInv
<1> SUFFICES ASSUME Init PROVE IInv
  OBVIOUS
<1>1. /\ \A s \in Subscription : ch[s] = << >> /\ closes[s] = 0
      /\ subs = {} /\ made = {}
  BY DEF Init
<1>2. TypeOK
  <2>1. << >> \in Seq(Event) /\ Len(<< >>) = 0 /\ 0 <= Buffer
    BY EmptySeq, HubAssumption
  <2>2. ch \in [Subscription -> Seq(Event)] /\ \A s \in Subscription : Len(ch[s]) <= Buffer
    BY <1>1, <2>1 DEF Init
  <2>3. QED
    BY <2>2 DEF Init, TypeOK
<1>3. \A p \in Publisher : PublisherOK(p)
  BY DEF Init, PublisherOK
<1>4. ASSUME NEW s \in Subscription PROVE SubscriptionOK(s)
  <2>1. s \notin subs /\ s \notin made /\ closes[s] = 0 /\ ch[s] = << >>
    BY <1>1
  <2>2. QED
    BY <2>1 DEF SubscriptionOK
<1>5. QED
  BY <1>2, <1>3, <1>4 DEF IInv

---------------------------------------------------------------------------
(* The sections under the write lock.                                       *)

(* What removeLocked does to each subscription: it closes the channels of   *)
(* those that are registered.                                               *)
LEMMA Removal ==
    ASSUME IInv, NEW S \in SUBSET Subscription, removeLocked(S), made' = made, ch' = ch
    PROVE  /\ subs' \in SUBSET Subscription
           /\ closes' \in [Subscription -> Nat]
           /\ \A s \in Subscription : SubscriptionOK(s)'
<1>1. /\ subs' = subs \ S
      /\ \A s \in Subscription : closes[s] \in Nat /\ SubscriptionOK(s)
  BY DEF removeLocked, IInv, TypeOK
<1>2. /\ closes' \in [Subscription -> Nat]
      /\ \A s \in Subscription :
            closes'[s] = IF s \in S \cap subs THEN closes[s] + 1 ELSE closes[s]
  BY <1>1 DEF removeLocked
<1>3. subs' \in SUBSET Subscription
  BY <1>1 DEF IInv, TypeOK
<1>4. ASSUME NEW s \in Subscription PROVE SubscriptionOK(s)'
  BY <1>1, <1>2 DEF SubscriptionOK
<1>5. QED
  BY <1>2, <1>3, <1>4

LEMMA SubscribeIInv == ASSUME IInv, NEW s \in Subscription, Subscribe(s) PROVE IInv'
<1>1. /\ subs' \in SUBSET Subscription
      /\ subs \subseteq subs'
      /\ made' = made \cup {s}
      /\ closes' \in [Subscription -> Nat]
      /\ \A t \in Subscription : t # s => closes'[t] = closes[t] /\ (t \in subs' <=> t \in subs)
      /\ \/ closes'[s] = 1 /\ (s \in subs' <=> s \in subs)
         \/ closes'[s] = closes[s] /\ s \in subs'
  <2>0. subs \in SUBSET Subscription /\ closes \in [Subscription -> Nat] /\ made' = made \cup {s}
    BY DEF Subscribe, IInv, TypeOK
  <2>1. CASE closed
    <3>1. subs' = subs /\ closes' = [closes EXCEPT ![s] = 1]
      BY <2>1 DEF Subscribe
    <3>2. QED
      BY <2>0, <3>1
  <2>2. CASE ~closed
    <3>1. subs' = subs \cup {s} /\ closes' = closes
      BY <2>2 DEF Subscribe
    <3>2. QED
      BY <2>0, <3>1
  <2>3. QED
    BY <2>1, <2>2
<1>2. TypeOK'
  BY <1>1 DEF Subscribe, IInv, TypeOK, pubVars
<1>3. ASSUME NEW p \in Publisher PROVE PublisherOK(p)'
  BY <1>1 DEF Subscribe, IInv, PublisherOK, pubVars
<1>4. ASSUME NEW t \in Subscription PROVE SubscriptionOK(t)'
  <2>1. /\ SubscriptionOK(t) /\ SubscriptionOK(s) /\ s \notin made /\ ch' = ch
        /\ \/ closes'[s] = 1 /\ s \notin subs'
           \/ closes'[s] = 0 /\ s \in subs'
    BY <1>1 DEF Subscribe, IInv, SubscriptionOK
  <2>2. CASE t = s
    BY <1>1, <2>1, <2>2 DEF SubscriptionOK
  <2>3. CASE t # s
    BY <1>1, <2>1, <2>3 DEF SubscriptionOK
  <2>4. QED
    BY <2>2, <2>3
<1>5. QED
  BY <1>2, <1>3, <1>4 DEF IInv

(* No publisher is sending, so none counts on what is unregistered.         *)
LEMMA RemovalIInv ==
    ASSUME IInv, NEW S \in SUBSET Subscription, NoReader, removeLocked(S), closed' \in BOOLEAN,
           UNCHANGED <<made, ch, pubVars>>
    PROVE  IInv'
<1>1. \A s \in Subscription : SubscriptionOK(s)'
  BY Removal
<1>2. TypeOK'
  BY Removal DEF IInv, TypeOK, pubVars
<1>3. ASSUME NEW p \in Publisher PROVE PublisherOK(p)'
  BY DEF IInv, PublisherOK, NoReader, pubVars
<1>4. QED
  BY <1>1, <1>2, <1>3 DEF IInv

LEMMA UnsubscribeIInv == ASSUME IInv, NEW s \in Subscription, Unsubscribe(s) PROVE IInv'
<1>1. closed' \in BOOLEAN /\ {s} \in SUBSET Subscription
  BY DEF Unsubscribe, IInv, TypeOK
<1>2. QED
  BY <1>1, RemovalIInv DEF Unsubscribe

LEMMA CloseIInv == ASSUME IInv, Close PROVE IInv'
<1>1. closed' \in BOOLEAN /\ subs \in SUBSET Subscription
  BY DEF Close, IInv, TypeOK
<1>2. QED
  BY <1>1, RemovalIInv DEF Close

LEMMA RemoveSlowIInv == ASSUME IInv, NEW p \in Publisher, RemoveSlow(p) PROVE IInv'
<1>1. slow[p] \in SUBSET Subscription /\ removeLocked(slow[p]) /\ made' = made /\ ch' = ch
  BY DEF RemoveSlow, IInv, TypeOK
<1>2. /\ subs' \in SUBSET Subscription
      /\ closes' \in [Subscription -> Nat]
      /\ \A s \in Subscription : SubscriptionOK(s)'
  BY <1>1, Removal
<1>3. TypeOK'
  BY <1>1, <1>2 DEF RemoveSlow, IInv, TypeOK
<1>4. ASSUME NEW q \in Publisher PROVE PublisherOK(q)'
  BY DEF RemoveSlow, IInv, TypeOK, PublisherOK, NoReader
<1>5. QED
  BY <1>2, <1>3, <1>4 DEF IInv

---------------------------------------------------------------------------
(* What concerns one channel, or one publisher.                             *)

LEMMA ReceiveIInv == ASSUME IInv, NEW s \in Subscription, Receive(s) PROVE IInv'
<1>1. /\ ch[s] \in Seq(Event) /\ ch[s] # << >> /\ Len(ch[s]) <= Buffer
      /\ ch' = [ch EXCEPT ![s] = Tail(ch[s])]
      /\ ch \in [Subscription -> Seq(Event)]
  BY DEF Receive, IInv, TypeOK
<1>2. Tail(ch[s]) \in Seq(Event) /\ Len(Tail(ch[s])) = Len(ch[s]) - 1 /\ Len(ch[s]) \in Nat
  BY <1>1, HeadTailProperties, LenProperties
<1>3. /\ ch' \in [Subscription -> Seq(Event)]
      /\ \A t \in Subscription : t # s => ch'[t] = ch[t]
      /\ ch'[s] = Tail(ch[s])
  BY <1>1, <1>2
<1>4. \A t \in Subscription : Len(ch'[t]) <= Buffer
  BY <1>1, <1>2, <1>3, HubAssumption DEF IInv, TypeOK
<1>5. TypeOK'
  BY <1>3, <1>4 DEF Receive, IInv, TypeOK, pubVars
<1>6. ASSUME NEW p \in Publisher PROVE PublisherOK(p)'
  BY DEF Receive, IInv, PublisherOK, pubVars
<1>7. ASSUME NEW t \in Subscription PROVE SubscriptionOK(t)'
  <2>1. SubscriptionOK(t) /\ UNCHANGED <<subs, made, closes>>
    BY DEF Receive, IInv
  <2>2. QED
    BY <1>1, <1>3, <2>1 DEF SubscriptionOK
<1>8. QED
  BY <1>5, <1>6, <1>7 DEF IInv

LEMMA CollectIInv == ASSUME IInv, NEW s \in Subscription, Collect(s) PROVE IInv'
<1>1. /\ ch' \in [Subscription -> Seq(Event)]
      /\ closes' \in [Subscription -> Nat]
      /\ \A t \in Subscription : t # s => ch'[t] = ch[t] /\ closes'[t] = closes[t]
      /\ ch'[s] = << >> /\ closes'[s] = 0
      /\ made' = made \ {s} /\ subs' = subs
  BY DEF Collect, IInv, TypeOK
<1>2. \A t \in Subscription : Len(ch'[t]) <= Buffer
  BY <1>1, HubAssumption DEF IInv, TypeOK
<1>3. TypeOK'
  BY <1>1, <1>2 DEF Collect, IInv, TypeOK, pubVars
<1>4. ASSUME NEW p \in Publisher PROVE PublisherOK(p)'
  BY DEF Collect, IInv, PublisherOK, pubVars
<1>5. ASSUME NEW t \in Subscription PROVE SubscriptionOK(t)'
  <2>1. SubscriptionOK(t) /\ SubscriptionOK(s) /\ closes[s] > 0
    BY DEF Collect, IInv
  <2>2. closes[s] # 0
    BY <2>1 DEF IInv, TypeOK
  <2>3. QED
    BY <1>1, <2>1, <2>2 DEF SubscriptionOK
<1>6. QED
  BY <1>3, <1>4, <1>5 DEF IInv

LEMMA RLockIInv ==
    ASSUME IInv, NEW p \in Publisher, NEW e \in Event, RLock(p, e) PROVE IInv'
<1>1. TypeOK'
  BY DEF RLock, IInv, TypeOK
<1>2. ASSUME NEW q \in Publisher PROVE PublisherOK(q)'
  BY DEF RLock, IInv, TypeOK, PublisherOK
<1>3. \A s \in Subscription : SubscriptionOK(s)'
  BY DEF RLock, IInv, SubscriptionOK
<1>4. QED
  BY <1>1, <1>2, <1>3 DEF IInv

LEMMA TrySendIInv ==
    ASSUME IInv, NEW p \in Publisher, NEW s \in Subscription, TrySend(p, s) PROVE IInv'
<1>0. /\ TypeOK /\ PublisherOK(p) /\ SubscriptionOK(s)
      /\ pc[p] = "sending" /\ s \in todo[p] /\ event[p] \in Event /\ s \in subs /\ s \in made
  BY DEF TrySend, IInv, PublisherOK, SubscriptionOK
<1>1. /\ ch' \in [Subscription -> Seq(Event)]
      /\ \A t \in Subscription : Len(ch'[t]) <= Buffer
      /\ \A t \in Subscription : t # s => ch'[t] = ch[t]
  <2>1. CASE Len(ch[s]) < Buffer
    <3>1. ch' = [ch EXCEPT ![s] = Append(ch[s], event[p])]
      BY <2>1 DEF TrySend
    <3>2. /\ ch[s] \in Seq(Event)
          /\ Append(ch[s], event[p]) \in Seq(Event)
          /\ Len(Append(ch[s], event[p])) = Len(ch[s]) + 1
          /\ Len(ch[s]) \in Nat
      BY <1>0, AppendProperties, LenProperties DEF TypeOK
    <3>3. QED
      BY <1>0, <2>1, <3>1, <3>2, HubAssumption DEF TypeOK
  <2>2. CASE ~(Len(ch[s]) < Buffer)
    BY <1>0, <2>2 DEF TrySend, TypeOK
  <2>3. QED
    BY <2>1, <2>2
<1>2. /\ slow' \in [Publisher -> SUBSET Subscription]
      /\ \A q \in Publisher : q # p => slow'[q] = slow[q]
      /\ slow'[p] \subseteq slow[p] \cup {s}
  BY <1>0 DEF TrySend, TypeOK
<1>3. TypeOK'
  BY <1>0, <1>1, <1>2 DEF TrySend, TypeOK
<1>4. ASSUME NEW q \in Publisher PROVE PublisherOK(q)'
  BY <1>0, <1>2 DEF TrySend, IInv, TypeOK, PublisherOK
<1>5. ASSUME NEW t \in Subscription PROVE SubscriptionOK(t)'
  BY <1>0, <1>1 DEF TrySend, IInv, SubscriptionOK
<1>6. QED
  BY <1>3, <1>4, <1>5 DEF IInv

LEMMA RUnlockIInv == ASSUME IInv, NEW p \in Publisher, RUnlock(p) PROVE IInv'
<1>1. TypeOK'
  BY DEF RUnlock, IInv, TypeOK
<1>2. ASSUME NEW q \in Publisher PROVE PublisherOK(q)'
  BY DEF RUnlock, IInv, TypeOK, PublisherOK
<1>3. \A s \in Subscription : SubscriptionOK(s)'
  BY DEF RUnlock, IInv, SubscriptionOK
<1>4. QED
  BY <1>1, <1>2, <1>3 DEF IInv

---------------------------------------------------------------------------
LEMMA NextIInv == IInv /\ [Next]_vars => IInv'
<1> SUFFICES ASSUME IInv, [Next]_vars PROVE IInv'
  OBVIOUS
<1>1. ASSUME NEW s \in Subscription, Subscribe(s) \/ Unsubscribe(s) \/ Receive(s) \/ Collect(s)
      PROVE  IInv'
  BY <1>1, SubscribeIInv, UnsubscribeIInv, ReceiveIInv, CollectIInv
<1>2. CASE Close
  BY <1>2, CloseIInv
<1>3. ASSUME NEW p \in Publisher, Publish(p) PROVE IInv'
  BY <1>3, RLockIInv, TrySendIInv, RUnlockIInv, RemoveSlowIInv DEF Publish
<1>4. CASE UNCHANGED vars
  BY <1>4 DEF IInv, TypeOK, PublisherOK, SubscriptionOK, vars, pubVars
<1>5. QED
  BY <1>1, <1>2, <1>3, <1>4 DEF Next

THEOREM Invariance == Spec => []IInv
BY InitIInv, NextIInv, PTL DEF Spec

(* Every reachable state of the hub is well-typed; no channel holds more    *)
(* than its capacity.                                                       *)
THEOREM TypeCorrect == Spec => []TypeOK
<1>1. IInv => TypeOK
  BY DEF IInv
<1>2. QED
  BY <1>1, Invariance, PTL

(* Publish never sends on a closed channel (hub.go:99).                     *)
THEOREM NoSendOnClosed == Spec => []SendsReachOpenChannels
<1>1. IInv => SendsReachOpenChannels
  BY DEF IInv, TypeOK, PublisherOK, SubscriptionOK, SendsReachOpenChannels
<1>2. QED
  BY <1>1, Invariance, PTL

(* No channel is closed twice (hub.go:149).                                 *)
THEOREM NoSecondClose == Spec => []ClosedOnce
<1>1. IInv => ClosedOnce
  BY DEF IInv, SubscriptionOK, ClosedOnce
<1>2. QED
  BY <1>1, Invariance, PTL

(* What is in the registry is open, and what has left it is closed.         *)
THEOREM RegistryCorrect == Spec => []RegisteredIffOpen
<1>1. IInv => RegisteredIffOpen
  BY DEF IInv, SubscriptionOK, RegisteredIffOpen
<1>2. QED
  BY <1>1, Invariance, PTL

(* All of it together, as the run checks it.                                *)
THEOREM ChannelsAlwaysSafe == Spec => []ChannelsAreSafe
BY TypeCorrect, NoSendOnClosed, NoSecondClose, RegistryCorrect, PTL DEF ChannelsAreSafe

---------------------------------------------------------------------------
(* Each step is a step of the fanout, or none.                              *)

LEMMA InitFanout == Init => Feeds!FanoutInit
BY DEF Init, Feeds!FanoutInit, Feeds!FeedInit, stateBar, missedBar

LEMMA OpenedAreRegistered == ASSUME IInv PROVE Feeds!Opened = subs
BY DEF IInv, TypeOK, SubscriptionOK, Feeds!Opened, stateBar

(* A new subscription cannot be one that a publisher found slow.            *)
LEMMA SubscribeFanout ==
    ASSUME IInv, NEW s \in Subscription, Subscribe(s) PROVE Feeds!FanoutNext
<1>1. /\ s \notin made /\ s \notin subs /\ made' = made \cup {s}
      /\ closes \in [Subscription -> Nat] /\ closes[s] = 0
      /\ ch' = ch /\ slow' = slow /\ UNCHANGED <<event, todo>>
  BY DEF Subscribe, IInv, TypeOK, SubscriptionOK, pubVars
<1>2. \A p \in Publisher : s \notin slow[p]
  BY <1>1 DEF IInv, PublisherOK
<1>3. stateBar[s] = "none"
  BY <1>1 DEF stateBar
<1>4. CASE closed
  <2>1. subs' = subs /\ closes' = [closes EXCEPT ![s] = 1]
    BY <1>4 DEF Subscribe
  <2>2. stateBar' = [stateBar EXCEPT ![s] = "closed"]
    <3>1. \A t \in Subscription : closes'[t] = IF t = s THEN 1 ELSE closes[t]
      BY <1>1, <2>1
    <3>2. \A t \in Subscription : stateBar'[t] = IF t = s THEN "closed" ELSE stateBar[t]
      BY <1>1, <3>1 DEF stateBar
    <3>3. QED
      BY <3>2, Zenon DEF stateBar
  <2>3. missedBar' = missedBar
    BY <1>1, <2>1 DEF missedBar
  <2>4. Feeds!Subscribed(s, "closed")
    BY <1>1, <1>3, <2>2, <2>3 DEF Feeds!Subscribed
  <2>5. QED
    BY <1>1, <2>4 DEF Feeds!Alone, Feeds!FanoutNext
<1>5. CASE ~closed
  <2>1. subs' = subs \cup {s} /\ closes' = closes
    BY <1>5 DEF Subscribe
  <2>2. stateBar' = [stateBar EXCEPT ![s] = "open"]
    BY <1>1, <2>1 DEF stateBar
  <2>3. missedBar' = missedBar
    BY <1>1, <1>2, <2>1 DEF missedBar
  <2>4. Feeds!Subscribed(s, "open")
    BY <1>1, <1>3, <2>2, <2>3 DEF Feeds!Subscribed
  <2>5. QED
    BY <1>1, <2>4 DEF Feeds!Alone, Feeds!FanoutNext
<1>6. QED
  BY <1>4, <1>5

(* removeLocked cuts off those of S that are registered, at once; nobody is *)
(* owed an event, as no publisher holds the read lock.                      *)
LEMMA RemovalFanout ==
    ASSUME IInv, NEW S \in SUBSET Subscription, NoReader, removeLocked(S),
           UNCHANGED <<made, ch, event, todo>>,
           \A s \in Subscription \ S :
                (\E p \in Publisher : s \in slow'[p]) <=> (\E p \in Publisher : s \in slow[p])
    PROVE  Feeds!FanoutNext
<1>1. S \cap subs \in SUBSET Feeds!Opened
  BY OpenedAreRegistered
<1>2. \A s \in Subscription :
        /\ closes'[s] = IF s \in S \cap subs THEN closes[s] + 1 ELSE closes[s]
        /\ closes[s] \in Nat
        /\ s \in subs => s \in made /\ closes[s] = 0
  BY DEF removeLocked, IInv, TypeOK, SubscriptionOK
<1>3. stateBar' = [s \in Subscription |->
                    IF s \in S \cap subs THEN "closed" ELSE stateBar[s]]
  BY <1>2 DEF stateBar
<1>4. missedBar' = [s \in Subscription |-> missedBar[s] /\ s \notin S \cap subs]
  BY DEF removeLocked, missedBar
<1>5. Feeds!Cut(S \cap subs)
  BY <1>3, <1>4 DEF Feeds!Cut
<1>6. todo' = [p \in Publisher |-> todo[p] \ (S \cap subs)]
  <2>1. \A p \in Publisher : todo[p] = {}
    BY DEF IInv, PublisherOK, NoReader
  <2>2. QED
    BY <2>1 DEF IInv, TypeOK
<1>7. Feeds!CutOff(S \cap subs)
  BY <1>5, <1>6 DEF Feeds!CutOff
<1>8. QED
  BY <1>1, <1>7 DEF Feeds!FanoutNext

LEMMA ReceiveFanout ==
    ASSUME IInv, NEW s \in Subscription, Receive(s) PROVE Feeds!FanoutNext
<1>1. UNCHANGED <<stateBar, missedBar, event, todo>>
  BY DEF Receive, stateBar, missedBar, pubVars
<1>2. Feeds!Received(s)
  BY <1>1 DEF Receive, Feeds!Received
<1>3. QED
  BY <1>1, <1>2 DEF Feeds!Alone, Feeds!FanoutNext

LEMMA CollectFanout ==
    ASSUME IInv, NEW s \in Subscription, Collect(s) PROVE Feeds!FanoutNext
<1>1. /\ s \in made /\ closes[s] # 0 /\ closes \in [Subscription -> Nat]
      /\ made' = made \ {s} /\ closes' = [closes EXCEPT ![s] = 0]
      /\ ch' = [ch EXCEPT ![s] = << >>]
      /\ UNCHANGED <<subs, slow, event, todo>>
  BY DEF Collect, IInv, TypeOK, pubVars
<1>2. stateBar[s] = "closed" /\ stateBar' = [stateBar EXCEPT ![s] = "none"]
  BY <1>1 DEF stateBar
<1>3. missedBar' = missedBar
  BY <1>1 DEF missedBar
<1>4. Feeds!Forgotten(s)
  BY <1>1, <1>2, <1>3 DEF Feeds!Forgotten
<1>5. QED
  BY <1>1, <1>4 DEF Feeds!Alone, Feeds!FanoutNext

(* The registry when the read lock is taken is who the event is owed to.    *)
LEMMA RLockFanout ==
    ASSUME IInv, NEW p \in Publisher, NEW e \in Event, RLock(p, e) PROVE Feeds!FanoutNext
<1>1. UNCHANGED Feeds!feedVars
  BY DEF RLock, Feeds!feedVars, stateBar, missedBar
<1>2. event[p] = None
  BY DEF RLock, IInv, PublisherOK
<1>3. Feeds!Post(p, e)
  BY <1>1, <1>2, OpenedAreRegistered DEF RLock, Feeds!Post
<1>4. QED
  BY <1>3 DEF Feeds!FanoutNext

(* A publisher sends to registered subscriptions only.                      *)
LEMMA TrySendFanout ==
    ASSUME IInv, NEW p \in Publisher, NEW s \in Subscription, TrySend(p, s)
    PROVE  Feeds!FanoutNext
<1>1. /\ event[p] \in Event /\ s \in subs
      /\ ch \in [Subscription -> Seq(Event)]
      /\ slow \in [Publisher -> SUBSET Subscription]
      /\ UNCHANGED <<subs, made, closes, event>>
  BY DEF TrySend, IInv, TypeOK, PublisherOK
<1>2. stateBar' = stateBar
  BY <1>1 DEF stateBar
<1>3. Feeds!Send(event[p], {s})
  <2>1. CASE Len(ch[s]) < Buffer
    <3>1. ch' = [ch EXCEPT ![s] = Append(ch[s], event[p])] /\ slow' = slow
      BY <2>1 DEF TrySend
    <3>2. missedBar' = missedBar
      BY <1>1, <3>1 DEF missedBar
    <3>3. ch' = [t \in Subscription |->
                    IF t \in {s} /\ Feeds!HasRoom(t) THEN Append(ch[t], event[p]) ELSE ch[t]]
      BY <1>1, <2>1, <3>1 DEF Feeds!HasRoom
    <3>4. missedBar' = [t \in Subscription |->
                    missedBar[t] \/ (t \in {s} /\ ~Feeds!HasRoom(t))]
      BY <2>1, <3>2 DEF Feeds!HasRoom, missedBar
    <3>5. QED
      BY <1>2, <3>3, <3>4 DEF Feeds!Send
  <2>2. CASE ~(Len(ch[s]) < Buffer)
    <3>1. slow' = [slow EXCEPT ![p] = slow[p] \cup {s}] /\ ch' = ch
      BY <2>2 DEF TrySend
    <3>2. ch' = [t \in Subscription |->
                    IF t \in {s} /\ Feeds!HasRoom(t) THEN Append(ch[t], event[p]) ELSE ch[t]]
      BY <1>1, <2>2, <3>1 DEF Feeds!HasRoom
    <3>3. ASSUME NEW t \in Subscription
          PROVE  (\E q \in Publisher : t \in slow'[q])
                    <=> (\E q \in Publisher : t \in slow[q]) \/ t = s
      BY <1>1, <3>1
    <3>4. missedBar' = [t \in Subscription |->
                    missedBar[t] \/ (t \in {s} /\ ~Feeds!HasRoom(t))]
      BY <1>1, <2>2, <3>3 DEF Feeds!HasRoom, missedBar
    <3>5. QED
      BY <1>2, <3>2, <3>4 DEF Feeds!Send
  <2>3. QED
    BY <2>1, <2>2
<1>4. Feeds!Reach(p, s)
  BY <1>1, <1>3 DEF TrySend, Feeds!Reach
<1>5. QED
  BY <1>4 DEF Feeds!FanoutNext

LEMMA RUnlockFanout ==
    ASSUME IInv, NEW p \in Publisher, RUnlock(p) PROVE Feeds!FanoutNext
<1>1. UNCHANGED Feeds!feedVars
  BY DEF RUnlock, Feeds!feedVars, stateBar, missedBar
<1>2. event[p] # None
  BY HubAssumption DEF RUnlock, IInv, PublisherOK
<1>3. Feeds!Return(p)
  BY <1>1, <1>2 DEF RUnlock, Feeds!Return
<1>4. QED
  BY <1>3 DEF Feeds!FanoutNext

LEMMA StepFanout == IInv /\ [Next]_vars => [Feeds!FanoutNext]_(Feeds!fanoutVars)
<1> SUFFICES ASSUME IInv, [Next]_vars PROVE Feeds!FanoutNext \/ UNCHANGED Feeds!fanoutVars
  OBVIOUS
<1>1. ASSUME NEW s \in Subscription, Unsubscribe(s) PROVE Feeds!FanoutNext
  BY <1>1, RemovalFanout DEF Unsubscribe, pubVars
<1>2. CASE Close
  <2>1. subs \in SUBSET Subscription
    BY DEF IInv, TypeOK
  <2>2. QED
    BY <1>2, <2>1, RemovalFanout DEF Close, pubVars
<1>3. ASSUME NEW p \in Publisher, RemoveSlow(p) PROVE Feeds!FanoutNext
  <2>1. slow[p] \in SUBSET Subscription /\ slow' = [slow EXCEPT ![p] = {}]
        /\ slow \in [Publisher -> SUBSET Subscription]
    BY <1>3 DEF RemoveSlow, IInv, TypeOK
  <2>2. \A s \in Subscription \ slow[p] :
            (\E q \in Publisher : s \in slow'[q]) <=> (\E q \in Publisher : s \in slow[q])
    BY <2>1
  <2>3. QED
    BY <1>3, <2>1, <2>2, RemovalFanout DEF RemoveSlow
<1>4. ASSUME NEW p \in Publisher, Publish(p) PROVE Feeds!FanoutNext
  BY <1>3, <1>4, RLockFanout, TrySendFanout, RUnlockFanout DEF Publish
<1>5. CASE UNCHANGED vars
  BY <1>5 DEF vars, pubVars, Feeds!fanoutVars, Feeds!feedVars, stateBar, missedBar
<1>6. QED
  BY <1>1, <1>2, <1>4, <1>5, SubscribeFanout, ReceiveFanout, CollectFanout DEF Next

(* However many publish at once, and whoever comes and goes meanwhile, each *)
(* event reaches everybody who was subscribed when its publication began.   *)
THEOREM Refinement == Spec => ImplementsFanout
BY InitFanout, StepFanout, Invariance, PTL DEF Spec, ImplementsFanout, Feeds!FanoutSpec
=============================================================================
