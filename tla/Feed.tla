-------------------------------- MODULE Feed --------------------------------
(***************************************************************************)
(* A subscription to the hub and what may happen to it: an event that is   *)
(* sent to it is queued while there is room and missed otherwise, and one  *)
(* that is cut off can still read what was queued, then learns of it. What *)
(* a publication owes all of them is Fanout.                               *)
(***************************************************************************)
EXTENDS Naturals, Sequences

CONSTANTS
    Subscriber,    \* a subscription, its identity being free again once it has ended
    Event,
    Buffer         \* the capacity of a subscription's channel

ASSUME BufferAssumption == Buffer \in Nat \ {0}

VARIABLES
    state,     \* of a subscription: "none", "open", "closed"
    queue,     \* the events in its channel
    missed     \* it is to be cut off, as its channel was full

feedVars == <<state, queue, missed>>

FeedTypeOK ==
    /\ state \in [Subscriber -> {"none", "open", "closed"}]
    /\ queue \in [Subscriber -> Seq(Event)]
    /\ missed \in [Subscriber -> BOOLEAN]
    /\ \A s \in Subscriber :
        /\ Len(queue[s]) <= Buffer
        /\ missed[s] => state[s] = "open"
        /\ state[s] = "none" => queue[s] = << >>

FeedInit ==
    /\ state = [s \in Subscriber |-> "none"]
    /\ queue = [s \in Subscriber |-> << >>]
    /\ missed = [s \in Subscriber |-> FALSE]

Opened == {s \in Subscriber : state[s] = "open"}

(* A hub that was closed returns a subscription that is closed already.     *)
Subscribed(s, as) ==
    /\ state[s] = "none"
    /\ state' = [state EXCEPT ![s] = as]
    /\ UNCHANGED <<queue, missed>>

HasRoom(s) == Len(queue[s]) < Buffer

(* A send to some of the open subscriptions, which never waits.             *)
Send(e, S) ==
    /\ queue' = [s \in Subscriber |->
                    IF s \in S /\ HasRoom(s) THEN Append(queue[s], e) ELSE queue[s]]
    /\ missed' = [s \in Subscriber |-> missed[s] \/ (s \in S /\ ~HasRoom(s))]
    /\ UNCHANGED state

(* The channels of S are closed: what is in them can still be received.     *)
Cut(S) ==
    /\ state' = [s \in Subscriber |-> IF s \in S THEN "closed" ELSE state[s]]
    /\ missed' = [s \in Subscriber |-> missed[s] /\ s \notin S]
    /\ UNCHANGED queue

Received(s) ==
    /\ queue[s] # << >>
    /\ queue' = [queue EXCEPT ![s] = Tail(@)]
    /\ UNCHANGED <<state, missed>>

(* Nobody refers to the subscription any more.                              *)
Forgotten(s) ==
    /\ state[s] = "closed"
    /\ state' = [state EXCEPT ![s] = "none"]
    /\ queue' = [queue EXCEPT ![s] = << >>]
    /\ UNCHANGED missed
=============================================================================
