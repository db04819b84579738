------------------------------- MODULE Fanout -------------------------------
(***************************************************************************)
(* What the hub promises of a publication, whatever else goes on: before   *)
(* Publish returns, every subscription that was open when it began has the *)
(* event in its queue, or had no room for it and is marked to be cut off,  *)
(* or was cut off meanwhile. Only being cut off takes the mark away.       *)
(***************************************************************************)
EXTENDS Feed

CONSTANTS
    Publisher,
    None           \* not an event

VARIABLES
    posted,    \* what a publisher publishes, None between two publications
    owed       \* the subscriptions that its event has not reached yet

fanoutVars == <<feedVars, posted, owed>>

FanoutInit ==
    /\ FeedInit
    /\ posted = [p \in Publisher |-> None]
    /\ owed = [p \in Publisher |-> {}]

Post(p, e) ==
    /\ posted[p] = None
    /\ posted' = [posted EXCEPT ![p] = e]
    /\ owed' = [owed EXCEPT ![p] = Opened]
    /\ UNCHANGED feedVars

Reach(p, s) ==
    /\ s \in owed[p]
    /\ Send(posted[p], {s})
    /\ owed' = [owed EXCEPT ![p] = @ \ {s}]
    /\ UNCHANGED posted

Return(p) ==
    /\ posted[p] # None
    /\ owed[p] = {}
    /\ posted' = [posted EXCEPT ![p] = None]
    /\ UNCHANGED <<feedVars, owed>>

CutOff(S) ==
    /\ Cut(S)
    /\ owed' = [p \in Publisher |-> owed[p] \ S]
    /\ UNCHANGED posted

(* A subscription on its own.                                               *)
Alone(s) ==
    /\ \/ \E as \in {"open", "closed"} : Subscribed(s, as)
       \/ Received(s)
       \/ Forgotten(s)
    /\ UNCHANGED <<posted, owed>>

FanoutNext ==
    \/ \E p \in Publisher, e \in Event : Post(p, e)
    \/ \E p \in Publisher, s \in Subscriber : Reach(p, s)
    \/ \E p \in Publisher : Return(p)
    \/ \E S \in SUBSET Opened : CutOff(S)
    \/ \E s \in Subscriber : Alone(s)

FanoutSpec == FanoutInit /\ [][FanoutNext]_fanoutVars
=============================================================================
