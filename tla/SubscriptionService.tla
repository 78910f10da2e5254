------------------------- MODULE SubscriptionService -------------------------
(***************************************************************************)
(* What the manager pallet promises to its subscribers, without money,     *)
(* states, frequencies or blocks' phases: at most MaxSubscriptions         *)
(* subscriptions at a time, each opened with a number of pulses that never *)
(* grows; one round per block, in which every subscription gets one turn   *)
(* and at most one pulse, and which ends before the block does.            *)
(***************************************************************************)
EXTENDS Integers, FiniteSets

CONSTANTS Accounts, SubIds, Offers, MaxSubscriptions

VARIABLES
    subscriber,    \* the open subscriptions and whom they belong to
    outstanding,   \* the pulses that may still be sent to each
    waiting,       \* subscriptions whose turn in this round is to come
    begun          \* the round of this block has begun

service == <<subscriber, outstanding, waiting, begun>>

ServiceInit ==
    /\ subscriber = [id \in {} |-> {}]
    /\ outstanding = [id \in SubIds |-> 0]
    /\ waiting = {}
    /\ begun = FALSE

Subscribe(a, id, pulses) ==
    /\ waiting = {}
    /\ id \notin DOMAIN subscriber
    /\ Cardinality(DOMAIN subscriber) < MaxSubscriptions
    /\ subscriber' = [x \in DOMAIN subscriber \union {id} |->
                        IF x = id THEN a ELSE subscriber[x]]
    /\ outstanding' = [outstanding EXCEPT ![id] = pulses]
    /\ UNCHANGED <<waiting, begun>>

Unsubscribe(id) ==
    /\ waiting = {}
    /\ id \in DOMAIN subscriber
    /\ subscriber' = [x \in DOMAIN subscriber \ {id} |-> subscriber[x]]
    /\ outstanding' = [outstanding EXCEPT ![id] = 0]
    /\ UNCHANGED <<waiting, begun>>

BeginRound ==
    /\ waiting = {}
    /\ ~begun
    /\ waiting' = DOMAIN subscriber
    /\ begun' = TRUE
    /\ UNCHANGED <<subscriber, outstanding>>

Serve(id) ==
    /\ id \in waiting
    /\ outstanding[id] > 0
    /\ waiting' = waiting \ {id}
    /\ outstanding' = [outstanding EXCEPT ![id] = @ - 1]
    /\ UNCHANGED <<subscriber, begun>>

Skip(id) ==
    /\ id \in waiting
    /\ waiting' = waiting \ {id}
    /\ UNCHANGED <<subscriber, outstanding, begun>>

EndBlock ==
    /\ waiting = {}
    /\ begun' = FALSE
    /\ UNCHANGED <<subscriber, outstanding, waiting>>

ServiceNext ==
    \/ \E a \in Accounts, id \in SubIds, n \in Offers \ {0} : Subscribe(a, id, n)
    \/ \E id \in SubIds : Unsubscribe(id) \/ Serve(id) \/ Skip(id)
    \/ BeginRound
    \/ EndBlock

ServiceSpec == ServiceInit /\ [][ServiceNext]_service
=============================================================================
