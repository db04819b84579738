-------------------------------- MODULE Hub ---------------------------------
(***************************************************************************)
(* The hub's registry of one project's subscribers: goroutines publish at  *)
(* the same time under the read lock, and subscribe, unsubscribe, drop     *)
(* slow subscribers and close the hub under the write lock. A send on a    *)
(* closed channel, or closing it again, would panic.                       *)
(***************************************************************************)
EXTENDS Naturals, Sequences

CONSTANTS
    Subscription,
    Publisher,     \* a goroutine in Publish
    Event,
    Buffer,
    None           \* no event

ASSUME HubAssumption == Buffer \in Nat \ {0} /\ None \notin Event

VARIABLES
    subs,      \* the subscriptions in h.subs
    made,      \* those that Subscribe returned and somebody still refers to
    ch,        \* what is in a subscription's channel
    closes,    \* how often that channel was closed
    closed,    \* h.closed
    pc,        \* of a publisher: "idle", "sending" (holds the read lock), "removing"
    event,     \* what it publishes
    todo,      \* the subscriptions it has not reached yet
    slow       \* those whose channel it found full

pubVars == <<pc, event, todo, slow>>
vars == <<subs, made, ch, closes, closed, pubVars>>

TypeOK ==
    /\ subs \in SUBSET Subscription
    /\ made \in SUBSET Subscription
    /\ ch \in [Subscription -> Seq(Event)]
    /\ \A s \in Subscription : Len(ch[s]) <= Buffer
    /\ closes \in [Subscription -> Nat]
    /\ closed \in BOOLEAN
    /\ pc \in [Publisher -> {"idle", "sending", "removing"}]
    /\ event \in [Publisher -> Event \cup {None}]
    /\ todo \in [Publisher -> SUBSET Subscription]
    /\ slow \in [Publisher -> SUBSET Subscription]

Init ==
    /\ subs = {}
    /\ made = {}
    /\ ch = [s \in Subscription |-> << >>]
    /\ closes = [s \in Subscription |-> 0]
    /\ closed = FALSE
    /\ pc = [p \in Publisher |-> "idle"]
    /\ event = [p \in Publisher |-> None]
    /\ todo = [p \in Publisher |-> {}]
    /\ slow = [p \in Publisher |-> {}]

---------------------------------------------------------------------------
(* Mutant: Unsubscribe and Close take the read lock.                        *)
NoWriter == TRUE

(* h.mu can be locked for writing; each section under it is one step.       *)
NoReader == \A p \in Publisher : pc[p] # "sending"

(* removeLocked of every member of S: what is not registered is let alone.  *)
removeLocked(S) ==
    /\ subs' = subs \ S
    /\ closes' = [s \in Subscription |->
                    IF s \in S \cap subs THEN closes[s] + 1 ELSE closes[s]]

Subscribe(s) ==
    /\ NoReader
    /\ s \notin made
    /\ made' = made \cup {s}
    /\ IF closed
       THEN closes' = [closes EXCEPT ![s] = 1] /\ UNCHANGED subs
       ELSE subs' = subs \cup {s} /\ UNCHANGED closes
    /\ UNCHANGED <<ch, closed, pubVars>>

(* Safe after the subscription was dropped, and more than once.             *)
Unsubscribe(s) ==
    /\ NoReader
    /\ s \in made
    /\ removeLocked({s})
    /\ UNCHANGED <<made, ch, closed, pubVars>>

Close ==
    /\ NoReader
    /\ closed' = TRUE
    /\ removeLocked(subs)
    /\ UNCHANGED <<made, ch, pubVars>>

(* The stream reads sub.C.                                                  *)
Receive(s) ==
    /\ ch[s] # << >>
    /\ ch' = [ch EXCEPT ![s] = Tail(@)]
    /\ UNCHANGED <<subs, made, closes, closed, pubVars>>

(* The stream returned and no publisher holds the pointer: the garbage      *)
(* collector takes the subscription.                                        *)
Collect(s) ==
    /\ s \in made
    /\ closes[s] > 0
    /\ \A p \in Publisher : s \notin slow[p]
    /\ made' = made \ {s}
    /\ ch' = [ch EXCEPT ![s] = << >>]
    /\ closes' = [closes EXCEPT ![s] = 0]
    /\ UNCHANGED <<subs, closed, pubVars>>

---------------------------------------------------------------------------
(* Publish. A writer that waits keeps new readers out.                      *)

RLock(p, e) ==
    /\ pc[p] = "idle"
    /\ \A q \in Publisher : pc[q] # "removing"
    /\ pc' = [pc EXCEPT ![p] = "sending"]
    /\ event' = [event EXCEPT ![p] = e]
    /\ todo' = [todo EXCEPT ![p] = subs]
    /\ UNCHANGED <<subs, made, ch, closes, closed, slow>>

(* Mutant: a send that waits for room.                                      *)
SendAndWait(p, s) ==
    /\ pc[p] = "sending"
    /\ s \in todo[p]
    /\ Len(ch[s]) < Buffer
    /\ todo' = [todo EXCEPT ![p] = @ \ {s}]
    /\ ch' = [ch EXCEPT ![s] = Append(@, event[p])]
    /\ UNCHANGED <<subs, made, closes, closed, pc, event, slow>>

(* Mutant: the default branch forgets the subscriber.                       *)
SendOrSkip(p, s) ==
    /\ pc[p] = "sending"
    /\ s \in todo[p]
    /\ todo' = [todo EXCEPT ![p] = @ \ {s}]
    /\ ch' = IF Len(ch[s]) < Buffer THEN [ch EXCEPT ![s] = Append(@, event[p])] ELSE ch
    /\ UNCHANGED <<subs, made, closes, closed, pc, event, slow>>

(* select with a default: queued, or found full.                            *)
TrySend(p, s) ==
    /\ pc[p] = "sending"
    /\ s \in todo[p]
    /\ todo' = [todo EXCEPT ![p] = @ \ {s}]
    /\ IF Len(ch[s]) < Buffer
       THEN ch' = [ch EXCEPT ![s] = Append(@, event[p])] /\ UNCHANGED slow
       ELSE slow' = [slow EXCEPT ![p] = @ \cup {s}] /\ UNCHANGED ch
    /\ UNCHANGED <<subs, made, closes, closed, pc, event>>

(* Mutant: the loop ends at the first subscriber that is slow.              *)
StopAtSlow(p) ==
    /\ pc[p] = "sending"
    /\ todo[p] = {} \/ slow[p] # {}
    /\ pc' = [pc EXCEPT ![p] = IF slow[p] = {} THEN "idle" ELSE "removing"]
    /\ event' = [event EXCEPT ![p] = None]
    /\ todo' = [todo EXCEPT ![p] = {}]
    /\ UNCHANGED <<subs, made, ch, closes, closed, slow>>

(* The loop is over.                                                        *)
RUnlock(p) ==
    /\ pc[p] = "sending"
    /\ todo[p] = {}
    /\ pc' = [pc EXCEPT ![p] = IF slow[p] = {} THEN "idle" ELSE "removing"]
    /\ event' = [event EXCEPT ![p] = None]
    /\ UNCHANGED <<subs, made, ch, closes, closed, todo, slow>>

RemoveSlow(p) ==
    /\ pc[p] = "removing"
    /\ NoReader
    /\ removeLocked(slow[p])
    /\ slow' = [slow EXCEPT ![p] = {}]
    /\ pc' = [pc EXCEPT ![p] = "idle"]
    /\ UNCHANGED <<made, ch, closed, event, todo>>

Publish(p) ==
    \/ \E e \in Event : RLock(p, e)
    \/ \E s \in Subscription : TrySend(p, s)
    \/ RUnlock(p)
    \/ RemoveSlow(p)

Next ==
    \/ \E s \in Subscription : Subscribe(s) \/ Unsubscribe(s) \/ Receive(s) \/ Collect(s)
    \/ Close
    \/ \E p \in Publisher : Publish(p)

Spec == Init /\ [][Next]_vars

(* A goroutine in Publish runs on. Nothing is assumed of the readers, nor   *)
(* of anybody publishing at all.                                            *)
Fairness ==
    \A p \in Publisher :
        /\ WF_vars(\E s \in Subscription : TrySend(p, s))
        /\ WF_vars(RUnlock(p))
        /\ WF_vars(RemoveSlow(p))

FairSpec == Spec /\ Fairness

---------------------------------------------------------------------------
(* No panic: whoever is sending reaches open channels only, and a channel   *)
(* is closed once, when it leaves the registry (hub.go:135).                *)
SendsReachOpenChannels ==
    \A p \in Publisher : pc[p] = "sending" => \A s \in todo[p] : closes[s] = 0

ClosedOnce == \A s \in Subscription : closes[s] <= 1

(* A reader of sub.C always learns that no more will come: what is not      *)
(* registered is closed, what is registered is open.                        *)
RegisteredIffOpen == \A s \in Subscription : s \in subs <=> s \in made /\ closes[s] = 0

(* The channels and the registry agree, so no goroutine panics and no       *)
(* reader waits on a channel nobody will close.                             *)
ChannelsAreSafe ==
    /\ TypeOK
    /\ SendsReachOpenChannels /\ ClosedOnce
    /\ RegisteredIffOpen

(* Publish reaches every subscription that was registered when it took the  *)
(* lock, with room or marked to be cut off, before it returns, and sends    *)
(* nothing twice, late, or to one that is closed: "delivers ev to every     *)
(* subscriber of projectID" (hub.go:91).                                    *)
stateBar ==
    [s \in Subscription |->
        IF s \notin made THEN "none" ELSE IF closes[s] = 0 THEN "open" ELSE "closed"]
missedBar == [s \in Subscription |-> s \in subs /\ \E p \in Publisher : s \in slow[p]]

Feeds == INSTANCE Fanout WITH
    Subscriber <- Subscription, state <- stateBar, queue <- ch, missed <- missedBar,
    posted <- event, owed <- todo

ImplementsFanout == Feeds!FanoutSpec

(* Whom an event finds with a full channel is cut off, not skipped, unless  *)
(* it reads on (hub.go:91).                                                 *)
FullIsCutOff ==
    \A p \in Publisher, s \in Subscription :
        pc[p] = "sending" /\ s \in todo[p] /\ Len(ch[s]) = Buffer
            ~> s \notin subs \/ Len(ch[s]) < Buffer

(* Publish never blocks (hub.go:4), whether anybody reads or not.           *)
PublishReturns == \A p \in Publisher : pc[p] # "idle" ~> pc[p] = "idle"
=============================================================================
