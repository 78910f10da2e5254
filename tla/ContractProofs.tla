--------------------------- MODULE ContractProofs ---------------------------
(***************************************************************************)
(* Proofs about ExampleConsumer and ContractQueries: what a contract       *)
(* remembers and knows, for any requests and blocks, and any number of     *)
(* rounds, of messages under way and of entries in its histories.  The     *)
(* manager is taken by its type alone: each lemma on a step assumes TypeOK *)
(* before and after it.  CompositionProofs discharges that with the        *)
(* invariant of the manager and states the theorems.                       *)
(***************************************************************************)
EXTENDS ExampleConsumer, TLAPS

(* The first entry leaves a queue and the others move up. *)
LEMMA TailIs ==
    ASSUME NEW S, NEW s \in Seq(S), s # <<>>
    PROVE  /\ Len(s) \in Nat /\ Len(s) > 0
           /\ Head(s) = s[1] /\ Head(s) \in S
           /\ Tail(s) \in Seq(S)
           /\ Len(Tail(s)) = Len(s) - 1
           /\ DOMAIN Tail(s) = 1..(Len(s) - 1)
           /\ \A i \in 1..(Len(s) - 1) : Tail(s)[i] = s[i + 1]
<1>1. Head(s) \in S /\ Tail(s) \in Seq(S) /\ Len(Tail(s)) = Len(s) - 1
  OBVIOUS
<1>2. \A i \in 1..Len(Tail(s)) : Tail(s)[i] = s[i + 1]
  OBVIOUS
<1> QED BY <1>1, <1>2

(* What a queue holds is of its kind. *)
LEMMA EntryIs ==
    ASSUME NEW S, NEW s \in Seq(S), NEW i \in 1..Len(s)
    PROVE  s[i] \in S
OBVIOUS

(* An entry joins a queue at its end. *)
LEMMA AppendIs ==
    ASSUME NEW S, NEW s \in Seq(S), NEW e \in S
    PROVE  /\ Len(s) \in Nat
           /\ Append(s, e) \in Seq(S)
           /\ Len(Append(s, e)) = Len(s) + 1
           /\ DOMAIN Append(s, e) = 1..(Len(s) + 1)
           /\ \A i \in 1..Len(s) : Append(s, e)[i] = s[i]
           /\ Append(s, e)[Len(s) + 1] = e
OBVIOUS

(* The history g ends with the entry e, after the entries of h, of which   *)
(* the first may be missing.                                               *)
Continues(g, h, e) ==
    \E n \in Nat, d \in {0, 1} :
      /\ Len(g) = n + 1 /\ n < MaxHistory
      /\ DOMAIN g = 1..(n + 1)
      /\ g[n + 1] = e
      /\ \A k \in 1..n : k + d \in DOMAIN h /\ g[k] = h[k + d]

(* A new entry joins a history, which stays within MaxHistory (Remembered). *)
LEMMA RememberedIs ==
    ASSUME NEW S, NEW h \in Seq(S), Len(h) <= MaxHistory, NEW e \in S
    PROVE  Remembered(h, e) \in Seq(S) /\ Continues(Remembered(h, e), h, e)
<1> DEFINE g == IF Len(h) >= MaxHistory THEN Tail(h) ELSE h
<1>0. Len(h) \in Nat /\ DOMAIN h = 1..Len(h)
  OBVIOUS
<1>1. /\ g \in Seq(S) /\ Len(g) \in Nat /\ Len(g) < MaxHistory
      /\ \E d \in {0, 1} : \A k \in 1..Len(g) : k + d \in DOMAIN h /\ g[k] = h[k + d]
  <2>1. CASE Len(h) >= MaxHistory
    <3>1. h # <<>>
      BY <2>1, ConsumerAssumption
    <3>2. /\ g \in Seq(S) /\ Len(g) = Len(h) - 1
          /\ \A k \in 1..(Len(h) - 1) : g[k] = h[k + 1]
      BY <2>1, <3>1, TailIs
    <3> HIDE DEF g
    <3>3. \A k \in 1..Len(g) : k + 1 \in DOMAIN h /\ g[k] = h[k + 1]
      BY <1>0, <3>2
    <3>4. Len(g) \in Nat /\ Len(g) < MaxHistory
      BY SMTT(60), <1>0, <2>1, <3>1, <3>2, ConsumerAssumption
    <3> QED BY <3>2, <3>3, <3>4
  <2>2. CASE ~(Len(h) >= MaxHistory)
    <3>1. \A k \in 1..Len(g) : k + 0 \in DOMAIN h /\ g[k] = h[k + 0]
      BY <1>0, <2>2
    <3> QED BY SMTT(60), <1>0, <2>2, <3>1, ConsumerAssumption
  <2> QED BY <2>1, <2>2
<1>2. Remembered(h, e) = Append(g, e)
  BY DEF Remembered
<1> HIDE DEF g
<1>3. PICK d \in {0, 1} : \A k \in 1..Len(g) : k + d \in DOMAIN h /\ g[k] = h[k + d]
  BY SMTT(60), <1>1
<1>4. /\ Append(g, e) \in Seq(S) /\ Len(Append(g, e)) = Len(g) + 1
      /\ DOMAIN Append(g, e) = 1..(Len(g) + 1)
      /\ \A k \in 1..Len(g) : Append(g, e)[k] = g[k]
      /\ Append(g, e)[Len(g) + 1] = e
  BY <1>1, AppendIs
<1>5. PICK n \in Nat : n = Len(g)
  BY <1>1
<1>6. /\ Len(Append(g, e)) = n + 1 /\ n < MaxHistory
      /\ DOMAIN Append(g, e) = 1..(n + 1)
      /\ Append(g, e)[n + 1] = e
      /\ \A k \in 1..n : k + d \in DOMAIN h /\ Append(g, e)[k] = h[k + d]
  BY SMTT(60), <1>1, <1>3, <1>4, <1>5
<1> QED BY ZenonT(60), <1>2, <1>4, <1>6 DEF Continues

-----------------------------------------------------------------------------
(* The manager, from where the contract stands.                            *)

(* A subscription has a natural number of credits left. *)
LEMMA CreditsLeft ==
    ASSUME NEW sub \in Subscription
    PROVE  sub.credits_left \in 0..U64Max /\ sub.credits_left \in Nat
BY FeesAssumption DEF Subscription

(* distribute charges a subscription for a pulse, delivered or not, and    *)
(* may pause or finalize it: it has no more credits left than before.      *)
LEMMA ChargeUsesUp ==
    ASSUME NEW sub \in Subscription, NEW n \in Nat, NEW age, NEW st
    PROVE  LET c == Charged(sub, n)
               c0 == [c EXCEPT !.age = age]
           IN  /\ FinalizedIfSpent(c).credits_left <= sub.credits_left
               /\ FinalizedIfSpent(c0).credits_left <= sub.credits_left
               /\ [c EXCEPT !.age = age, !.state = st].credits_left <= sub.credits_left
               /\ [sub EXCEPT !.state = st].credits_left <= sub.credits_left
<1> DEFINE fields == {"subscriber", "credits_left", "state", "credits", "frequency",
                      "metadata", "age"}
           left == SaturatingSub(sub.credits_left, n)
           c == Charged(sub, n)
           c0 == [c EXCEPT !.age = age]
<1>1. sub = [f \in fields |-> sub[f]] /\ sub.credits_left \in Nat
  BY CreditsLeft DEF Subscription
<1>2. left <= sub.credits_left
  BY <1>1 DEF SaturatingSub
<1> HIDE DEF left
<1>3. c = [f \in fields |-> IF f = "credits_left" THEN left ELSE sub[f]]
  BY <1>1 DEF Charged, left
<1> HIDE DEF c
<1>4. c0 = [f \in fields |-> IF f = "age" THEN age ELSE c[f]] /\ c.credits_left = left
  BY <1>3
<1>5. ASSUME NEW s, DOMAIN s = fields, s.credits_left = left
      PROVE  /\ FinalizedIfSpent(s).credits_left = left
             /\ [s EXCEPT !.state = st].credits_left = left
  BY <1>5 DEF FinalizedIfSpent
<1>6. DOMAIN c = fields /\ DOMAIN c0 = fields /\ c0.credits_left = left
  BY <1>3, <1>4
<1>7. [c EXCEPT !.age = age, !.state = st] = [c0 EXCEPT !.state = st]
  OBVIOUS
<1>8. [sub EXCEPT !.state = st].credits_left = sub.credits_left
  BY <1>1
<1> HIDE DEF c0
<1>9. /\ FinalizedIfSpent(c).credits_left = left /\ FinalizedIfSpent(c0).credits_left = left
      /\ [c EXCEPT !.age = age, !.state = st].credits_left = left
  BY ZenonT(60), <1>4, <1>5, <1>6, <1>7
<1>10. /\ FinalizedIfSpent(c).credits_left <= sub.credits_left
       /\ FinalizedIfSpent(c0).credits_left <= sub.credits_left
       /\ [c EXCEPT !.age = age, !.state = st].credits_left <= sub.credits_left
       /\ [sub EXCEPT !.state = st].credits_left <= sub.credits_left
  <2>1. sub.credits_left <= sub.credits_left
    BY <1>1
  <2> QED BY ZenonT(60), <1>2, <1>8, <1>9, <2>1
<1> QED BY ZenonT(60), <1>10 DEF c, c0

(* Nothing is added to storage and no stored subscription gains credits. *)
OnlyUsesUp ==
    /\ DOMAIN Subscriptions' \subseteq DOMAIN Subscriptions
    /\ \A id \in DOMAIN Subscriptions' :
         Subscriptions'[id].credits_left <= Subscriptions[id].credits_left

(* distribute goes on with what it had before it, or is not running. *)
LoopGoesOn ==
    phase' = "execute" /\ todo' # {} => phase = "execute" /\ todo' \subseteq todo

(* A stored subscription is replaced by one with no more credits. *)
LEMMA ReplaceUsesUp ==
    ASSUME TypeOK, NEW id \in DOMAIN Subscriptions, NEW new, Insert(id, new),
           new.credits_left <= Subscriptions[id].credits_left
    PROVE  OnlyUsesUp
<1>1. \A x \in DOMAIN Subscriptions : Subscriptions[x].credits_left \in Int
  BY CreditsLeft DEF TypeOK
<1> QED BY <1>1 DEF Insert, OnlyUsesUp

(* A subscription is removed. *)
LEMMA RemoveUsesUp ==
    ASSUME TypeOK, NEW id \in DOMAIN Subscriptions, Remove(id)
    PROVE  OnlyUsesUp
<1>1. \A x \in DOMAIN Subscriptions : Subscriptions[x].credits_left \in Int
  BY CreditsLeft DEF TypeOK
<1> QED BY <1>1 DEF Remove, OnlyUsesUp

(* Storage stays as it is. *)
LEMMA SameUsesUp ==
    ASSUME TypeOK, UNCHANGED Subscriptions
    PROVE  OnlyUsesUp
<1>1. \A x \in DOMAIN Subscriptions : Subscriptions[x].credits_left \in Int
  BY CreditsLeft DEF TypeOK
<1> QED BY <1>1 DEF OnlyUsesUp

(* No call but create_subscription adds credits: pause_subscription,       *)
(* reactivate_subscription, kill_subscription and update_subscription, the *)
(* last with any credits, leave credits_left alone or remove it.           *)
LEMMA CallUsesUp ==
    ASSUME TypeOK, NEW a, NEW id, NEW c, NEW f, NEW m,
           \/ pause_subscription(a, id)
           \/ reactivate_subscription(a, id)
           \/ kill_subscription(a, id)
           \/ update_subscription(a, id, c, f, m)
    PROVE  OnlyUsesUp /\ UNCHANGED <<phase, todo>>
<1>1. id \in DOMAIN Subscriptions
  BY DEF pause_subscription, reactivate_subscription, kill_subscription,
         update_subscription, CallBy, InStorage
<1>2. Subscriptions[id] \in Subscription
  BY <1>1 DEF TypeOK
<1>3. Subscriptions[id].credits_left \in Int
  BY <1>2, CreditsLeft
<1>4. ASSUME NEW st, SetState(id, st)
      PROVE  OnlyUsesUp /\ UNCHANGED <<phase, todo>>
  <2> DEFINE new == [Subscriptions[id] EXCEPT !.state = st]
  <2>1. new.credits_left = Subscriptions[id].credits_left
    BY <1>2 DEF Subscription
  <2>2. Insert(id, new) /\ UNCHANGED <<phase, todo>>
    BY <1>4 DEF SetState
  <2>3. new.credits_left <= Subscriptions[id].credits_left
    BY <1>3, <2>1
  <2> HIDE DEF new
  <2> QED BY SMTT(60), <1>1, <2>2, <2>3, ReplaceUsesUp
<1>5. CASE pause_subscription(a, id)
  BY <1>4, <1>5 DEF pause_subscription
<1>6. CASE reactivate_subscription(a, id)
  BY <1>4, <1>6 DEF reactivate_subscription
<1>7. CASE kill_subscription(a, id)
  BY SMTT(60), <1>1, <1>7, RemoveUsesUp DEF kill_subscription
<1>8. CASE update_subscription(a, id, c, f, m)
  <2> DEFINE new == [Subscriptions[id] EXCEPT !.credits = c, !.frequency = f,
                                              !.metadata = m]
  <2>1. new.credits_left = Subscriptions[id].credits_left
    BY <1>2 DEF Subscription
  <2>2. Insert(id, new) /\ UNCHANGED <<phase, todo>>
    BY <1>8 DEF update_subscription
  <2>3. new.credits_left <= Subscriptions[id].credits_left
    BY <1>3, <2>1
  <2> HIDE DEF new
  <2> QED BY <1>1, <2>2, <2>3, ReplaceUsesUp
<1> QED BY SMTT(60), <1>5, <1>6, <1>7, <1>8

(* What the IDN does by itself uses credits up, takes ids from the loop of *)
(* distribute and adds none.                                               *)
LEMMA BlockStepUsesUp ==
    ASSUME TypeOK, BlockStep
    PROVE  OnlyUsesUp /\ LoopGoesOn
<1>1. ASSUME NEW id \in SubIds, Distribute(id)
      PROVE  OnlyUsesUp /\ LoopGoesOn
  <2> DEFINE sub == Subscriptions[id]
  <2>1. id \in todo /\ todo' = todo \ {id} /\ UNCHANGED phase
    BY <1>1, SMTT(60) DEF Distribute, DeliverPulse, PauseUnpaid, PauseUnsent,
                         IdlePulse, Distributing
  <2>2. id \in DOMAIN Subscriptions /\ sub \in Subscription
    BY <2>1 DEF TypeOK
  <2>3. PICK n, new :
          /\ n \in Nat /\ Insert(id, new)
          /\ LET c == Charged(sub, n)
             IN  \/ new = FinalizedIfSpent(c)
                 \/ new = FinalizedIfSpent([c EXCEPT !.age = 0])
                 \/ new = [c EXCEPT !.age = 0, !.state = "Paused"]
                 \/ new = [sub EXCEPT !.state = "Paused"]
    <3>1. get_consume_credits \in Nat /\ get_idle_credits \in Nat
      BY DEF get_consume_credits, get_idle_credits
    <3> QED BY ZenonT(60), <1>1, <3>1 DEF Distribute, DeliverPulse, PauseUnpaid,
                                         PauseUnsent, IdlePulse
  <2>4. new.credits_left <= sub.credits_left
    BY ZenonT(60), <2>2, <2>3, ChargeUsesUp
  <2>5. OnlyUsesUp
    BY ZenonT(60), <2>2, <2>3, <2>4, ReplaceUsesUp
  <2> QED BY SMTT(60), <2>1, <2>5 DEF LoopGoesOn
<1>2. CASE on_finalize
  BY <1>2, SameUsesUp DEF on_finalize, LoopGoesOn
<1>3. ASSUME NEW id \in SubIds, TerminateFinalized(id)
      PROVE  OnlyUsesUp /\ LoopGoesOn
  <2>1. id \in DOMAIN Subscriptions /\ phase' = "finalize"
    BY SMTT(60), <1>3 DEF TerminateFinalized, TypeOK
  <2>2. Remove(id) \/ UNCHANGED Subscriptions
    BY <1>3 DEF TerminateFinalized
  <2> QED BY SMTT(60), <2>1, <2>2, RemoveUsesUp, SameUsesUp DEF LoopGoesOn
<1>4. CASE NextBlock
  <2>1. \A x \in DOMAIN Subscriptions : Subscriptions[x].credits_left \in Int
    BY CreditsLeft DEF TypeOK
  <2>2. /\ DOMAIN Subscriptions' = DOMAIN Subscriptions
        /\ todo' = {}
        /\ \A x \in DOMAIN Subscriptions :
             Subscriptions'[x] = [Subscriptions[x] EXCEPT !.age = Older(@)]
    BY <1>4 DEF NextBlock
  <2>3. ASSUME NEW x \in DOMAIN Subscriptions
        PROVE  Subscriptions'[x].credits_left = Subscriptions[x].credits_left
    <3>1. Subscriptions[x] \in Subscription
      BY DEF TypeOK
    <3> QED BY <2>2, <3>1 DEF Subscription
  <2> QED BY SMTT(60), <2>1, <2>2, <2>3 DEF OnlyUsesUp, LoopGoesOn
<1> QED BY SMTT(60), <1>1, <1>2, <1>3, <1>4 DEF BlockStep

-----------------------------------------------------------------------------
(* A request as Transact takes it. *)
Callable(q) ==
    /\ q.call \in {"create", "update", "pause", "reactivate", "kill"}
    /\ q.id \in SubIds
    /\ q.call = "create" => /\ q.credits \in CreditChoices
                            /\ q.frequency \in FrequencyChoices
                            /\ q.metadata \in MetadataSizes
    /\ q.call = "update" => /\ q.credits \in 0..U64Max
                            /\ q.frequency \in FrequencyChoices

(* The execution of a request creates its subscription, which was not      *)
(* stored, or adds nothing; a kill removes its subscription (Transact).    *)
LEMMA RequestRuns ==
    ASSUME TypeOK, NEW q, Callable(q), Transact(q)
    PROVE  /\ UNCHANGED <<phase, todo>>
           /\ q.call = "kill" => q.id \notin DOMAIN Subscriptions'
           /\ \/ OnlyUsesUp
              \/ /\ q.call = "create"
                 /\ q.id \notin DOMAIN Subscriptions
                 /\ DOMAIN Subscriptions' = DOMAIN Subscriptions \cup {q.id}
                 /\ \A x \in DOMAIN Subscriptions :
                      Subscriptions'[x] = Subscriptions[x]
<1>1. CASE q.call = "create"
  <2>1. create_subscription(contract, q.id, q.credits, q.frequency, q.metadata)
    BY <1>1 DEF Transact
  <2>2. /\ UNCHANGED <<phase, todo>>
        /\ q.id \notin DOMAIN Subscriptions
        /\ \E sub : Insert(q.id, sub)
    BY <2>1 DEF create_subscription, InStorage
  <2> QED BY SMTT(60), <1>1, <2>2 DEF Insert
<1>2. CASE q.call = "update"
  <2>1. \E m : update_subscription(contract, q.id, q.credits, q.frequency, m)
    BY <1>2 DEF Transact
  <2>2. OnlyUsesUp /\ UNCHANGED <<phase, todo>>
    BY ZenonT(60), <2>1, CallUsesUp
  <2> QED BY SMTT(60), <1>2, <2>2
<1>3. CASE q.call = "kill"
  <2>1. kill_subscription(contract, q.id)
    BY <1>3 DEF Transact
  <2>2. OnlyUsesUp /\ UNCHANGED <<phase, todo>>
    BY ZenonT(60), <2>1, CallUsesUp
  <2>3. q.id \notin DOMAIN Subscriptions'
    BY <2>1 DEF kill_subscription, Remove
  <2> QED BY <2>2, <2>3
<1>4. CASE q.call = "pause" \/ q.call = "reactivate"
  <2>1. \/ pause_subscription(contract, q.id)
        \/ reactivate_subscription(contract, q.id)
    BY ZenonT(60), <1>4 DEF Transact
  <2>2. OnlyUsesUp /\ UNCHANGED <<phase, todo>>
    BY ZenonT(60), <2>1, CallUsesUp
  <2> QED BY SMTT(60), <1>4, <2>2
<1> QED BY SMTT(60), <1>1, <1>2, <1>3, <1>4 DEF Callable

(* A step of the manager.  Its update_subscription may ask for any credits *)
(* (Next takes those of CreditChoices).                                    *)
Served ==
    \/ [Next]_vars
    \/ \E id \in SubIds, c \in 0..U64Max, f \in FrequencyChoices, m \in MetadataSizes :
         update_subscription(contract, id, c, f, m)

(* The execution of a request is one call of the manager by the contract's *)
(* account (Transact).                                                     *)
LEMMA RequestIsCall ==
    ASSUME TypeOK, NEW q, Callable(q), Transact(q), q.call = "update" => InStorage(q.id)
    PROVE  /\ Served
           /\ (q.call = "update" => q.credits \in CreditChoices) => Next
<1>1. contract \in Accounts /\ q.id \in SubIds
  BY ConsumerAssumption DEF Callable
<1>2. CASE q.call = "update"
  <2>1. PICK m : /\ m = Subscriptions[q.id].metadata
                 /\ update_subscription(contract, q.id, q.credits, q.frequency, m)
    BY <1>2 DEF Transact
  <2>2. m \in MetadataSizes
    BY <1>2, <2>1 DEF InStorage, TypeOK, Subscription
  <2>3. q.credits \in 0..U64Max /\ q.frequency \in FrequencyChoices
    BY <1>2 DEF Callable
  <2>4. Served
    BY ZenonT(60), <1>1, <2>1, <2>2, <2>3 DEF Served
  <2>5. q.credits \in CreditChoices => Call(contract, q.id)
    BY ZenonT(60), <2>1, <2>2, <2>3 DEF Call
  <2> QED BY ZenonT(60), <1>1, <1>2, <2>4, <2>5 DEF Next
<1>3. CASE q.call # "update"
  <2>1. Call(contract, q.id)
    <3>1. CASE q.call = "create"
      BY ZenonT(60), <3>1 DEF Callable, Transact, Call
    <3>2. CASE q.call \in {"pause", "reactivate", "kill"}
      BY ZenonT(60), <3>2 DEF Transact, Call
    <3> QED BY <1>3, <3>1, <3>2 DEF Callable
  <2>2. Next
    BY ZenonT(60), <1>1, <2>1 DEF Next
  <2> QED BY ZenonT(60), <2>2 DEF Served
<1> QED BY ZenonT(60), <1>2, <1>3

-----------------------------------------------------------------------------
(* The inductive invariant of ExampleConsumer.                             *)

(* A subscription whose id bears the timestamp of the present block has    *)
(* not reached the IDN.                                                    *)
Dated ==
    /\ \A i \in DOMAIN requests :
         requests[i].call = "create" =>
           /\ requests[i].id[4] <= timestamp
           /\ i <= Len(requests) - unsent => requests[i].id[4] < timestamp
    /\ \A id \in DOMAIN Subscriptions : id[4] < timestamp
    /\ \A i \in DOMAIN pulses : pulses[i].id[4] < timestamp

(* All that the contract remembers is of rounds before r. *)
RememberedBefore(r) ==
    \A k \in DOMAIN randomness_history : randomness_history[k] < r

(* The pulses under way for one id are in the order of the beacon, the     *)
(* ones the contract would accept come after what it remembers, and so     *)
(* does the pulse that distribute is about to send.                        *)
Ordered ==
    /\ HistoryInOrder
    /\ RememberedBefore(round + 1)
    /\ \A i \in DOMAIN pulses : pulses[i].round <= round
    /\ \A i, j \in DOMAIN pulses :
         i < j /\ pulses[i].id = pulses[j].id => pulses[i].round < pulses[j].round
    /\ \A i \in DOMAIN pulses :
         pulses[i].id = subscription_id => RememberedBefore(pulses[i].round)
    /\ phase = "execute" =>
         \A id \in todo :
           /\ round > 0
           /\ \A i \in DOMAIN pulses : pulses[i].id = id => pulses[i].round < round
           /\ id = subscription_id => RememberedBefore(round)

(* The contract knows id, or asked to kill it after its request i, or the  *)
(* kill was refused.                                                       *)
KnownAfter(id, i) ==
    \/ id = subscription_id
    \/ id \in failed
    \/ \E j \in DOMAIN requests :
         j > i /\ requests[j].call = "kill" /\ requests[j].id = id

Tracked ==
    /\ \A id \in DOMAIN Subscriptions : KnownAfter(id, 0)
    /\ \A i \in DOMAIN requests :
         requests[i].call = "create" => KnownAfter(requests[i].id, i)

CInv == ConsumerTypeOK /\ Dated /\ Ordered /\ Tracked

-----------------------------------------------------------------------------
(* The last part of an id is a timestamp. *)
LEMMA StampType ==
    ASSUME NEW id \in SubIds
    PROVE  id[4] \in Int
BY SMTT(60), ConsumerAssumption

(* A request has the fields of its call. *)
LEMMA RequestFields ==
    ASSUME NEW q \in Request
    PROVE  Callable(q)
<1>1. CASE q \in [call : {"create"}, id : SubIds, credits : CreditChoices,
                  frequency : FrequencyChoices, metadata : MetadataSizes]
  BY SMTT(60), <1>1 DEF Callable
<1>2. CASE q \in [call : {"update"}, id : SubIds,
                  credits : CreditChoices, frequency : FrequencyChoices]
  BY ZenonT(60), <1>2, ManagerAssumption DEF Callable
<1>3. CASE q \in [call : {"pause", "reactivate", "kill"}, id : SubIds]
  BY <1>3 DEF Callable
<1> QED BY SMTT(60), <1>1, <1>2, <1>3 DEF Request

(* A pulse under way has a round and an id. *)
LEMMA PulseFields ==
    ASSUME ConsumerTypeOK, NEW i \in DOMAIN pulses
    PROVE  pulses[i].round \in 1..LastRound /\ pulses[i].id \in SubIds
<1> DEFINE S == [round : 1..LastRound, id : SubIds]
<1>1. pulses \in Seq(S)
  BY DEF ConsumerTypeOK
<1>2. i \in 1..Len(pulses)
  BY SMTT(60), <1>1
<1>3. pulses[i] \in S
  BY ZenonT(60), <1>1, <1>2, EntryIs
<1> QED BY SMTT(60), <1>3

(* xcm_send: a request joins the queue and its id, if it creates one, is   *)
(* the contract's and bears the timestamp of the block; a kill is of the   *)
(* id the contract gives up.                                               *)
LEMMA SendIsSound ==
    ASSUME CInv, TypeOK', NEW q \in Request, xcm_send(q),
           UNCHANGED <<randomness_history, authorized_deliverers, timestamp>>,
           \/ q.call # "create" /\ subscription_id' = subscription_id
           \/ /\ q.call = "create" /\ q.id[4] = timestamp
              /\ subscription_id = None /\ subscription_id' = q.id
           \/ /\ q.call = "kill" /\ q.id = subscription_id
              /\ subscription_id' = None
    PROVE  CInv'
<1>1. /\ requests \in Seq(Request) /\ unsent \in 0..Len(requests)
      /\ requests' = Append(requests, q) /\ unsent' = unsent + 1
      /\ UNCHANGED <<vars, pulses, round, failed>>
  BY SMTT(60) DEF xcm_send, CInv, ConsumerTypeOK
<1>2. /\ Len(requests) \in Nat
      /\ requests' \in Seq(Request) /\ Len(requests') = Len(requests) + 1
      /\ DOMAIN requests = 1..Len(requests)
      /\ DOMAIN requests' = 1..(Len(requests) + 1)
      /\ \A i \in 1..Len(requests) : requests'[i] = requests[i]
      /\ requests'[Len(requests) + 1] = q
  BY SMTT(60), <1>1, AppendIs
<1>3. UNCHANGED <<Subscriptions, phase, todo>>
  BY SMTT(60), <1>1 DEF vars
<1>4. q.id \in SubIds /\ (subscription_id' \in SubIds \cup {None})
  BY SMTT(60), RequestFields DEF Callable, CInv, ConsumerTypeOK
<1>5. ConsumerTypeOK'
  BY SMTT(60), <1>1, <1>2, <1>3, <1>4 DEF CInv, ConsumerTypeOK
<1>6. Dated'
  <2>1. ASSUME NEW i \in DOMAIN requests', requests'[i].call = "create"
        PROVE  /\ requests'[i].id[4] <= timestamp
               /\ i <= Len(requests') - unsent' => requests'[i].id[4] < timestamp
    <3>1. CASE i \in 1..Len(requests)
      BY SMTT(60), <1>1, <1>2, <2>1, <3>1 DEF CInv, Dated
    <3>2. CASE i = Len(requests) + 1
      <4>1. timestamp \in Int
        BY SMTT(60) DEF CInv, ConsumerTypeOK
      <4> QED BY SMTT(60), <1>1, <1>2, <2>1, <3>2, <4>1
    <3> QED BY SMTT(60), <1>2, <3>1, <3>2
  <2> QED BY SMTT(60), <1>1, <1>3, <2>1 DEF CInv, Dated
<1>7. Ordered'
  <2>1. subscription_id' = subscription_id \/ subscription_id' = None
          \/ (subscription_id' \in SubIds /\ subscription_id'[4] = timestamp)
    BY SMTT(60), <1>4
  <2>2. ASSUME NEW i \in DOMAIN pulses PROVE pulses[i].id \in SubIds
    BY SMTT(60), PulseFields DEF CInv
  <2>3. ASSUME NEW i \in DOMAIN pulses, pulses[i].id = subscription_id'
        PROVE  pulses[i].id = subscription_id
    <3>1. pulses[i].id # None
      BY SMTT(60), <2>2, ConsumerAssumption
    <3>2. pulses[i].id[4] < timestamp /\ pulses[i].id[4] \in Int
      BY ZenonT(60), <2>2, StampType DEF CInv, Dated
    <3>3. timestamp \in Int
      BY DEF CInv, ConsumerTypeOK
    <3> QED BY SMTT(60), <2>1, <2>3, <3>1, <3>2, <3>3
  <2>4. ASSUME NEW id \in todo, id = subscription_id'
        PROVE  id = subscription_id
    <3>1. id \in SubIds /\ id \in DOMAIN Subscriptions
      BY SMTT(60) DEF CInv, ConsumerTypeOK, TypeOK
    <3>2. id[4] < timestamp /\ id[4] \in Int /\ timestamp \in Int
      BY <3>1, StampType DEF CInv, Dated, ConsumerTypeOK
    <3> QED BY SMTT(60), <2>1, <2>4, <3>1, <3>2, ConsumerAssumption
  <2>5. UNCHANGED <<pulses, round, randomness_history, phase, todo>>
    BY ZenonT(60), <1>1, <1>3
  <2> QED BY ZenonT(60), <2>3, <2>4, <2>5 DEF CInv, Ordered, HistoryInOrder, RememberedBefore
<1>8. Tracked'
  <2>1. ASSUME NEW id \in SubIds, NEW i \in Nat, i <= Len(requests), KnownAfter(id, i)
        PROVE  KnownAfter(id, i)'
    <3>1. CASE id = subscription_id
      BY <1>2, <2>1, <3>1, ConsumerAssumption DEF KnownAfter
    <3>2. CASE id \in failed
      BY ZenonT(60), <1>1, <3>2 DEF KnownAfter
    <3>3. ASSUME NEW j \in DOMAIN requests, j > i, requests[j].call = "kill",
                 requests[j].id = id
          PROVE  KnownAfter(id, i)'
      BY SMTT(60), <1>2, <3>3 DEF KnownAfter
    <3> QED BY ZenonT(60), <2>1, <3>1, <3>2, <3>3 DEF KnownAfter
  <2>2. \A id \in DOMAIN Subscriptions' : KnownAfter(id, 0)'
    <3>1. ASSUME NEW id \in DOMAIN Subscriptions PROVE id \in SubIds /\ KnownAfter(id, 0)
      BY ZenonT(60) DEF CInv, ConsumerTypeOK, Tracked, TypeOK
    <3> QED BY SMTT(60), <1>2, <1>3, <2>1, <3>1
  <2>3. ASSUME NEW i \in DOMAIN requests', requests'[i].call = "create"
        PROVE  KnownAfter(requests[i].id, i)'
    <3>1. CASE i \in 1..Len(requests)
      <4>1. requests[i].id \in SubIds /\ KnownAfter(requests[i].id, i)
        BY SMTT(60), <1>1, <1>2, <2>3, <3>1, RequestFields DEF Callable, CInv, Tracked
      <4> QED BY SMTT(60), <1>2, <2>1, <3>1, <4>1
    <3>2. CASE i = Len(requests) + 1
      BY ZenonT(60), <1>2, <2>3, <3>2 DEF KnownAfter
    <3> QED BY SMTT(60), <1>2, <3>1, <3>2
  <2> QED BY ZenonT(60), <2>2, <2>3 DEF Tracked
<1> QED BY SMTT(60), <1>3, <1>5, <1>6, <1>7, <1>8 DEF CInv

(* Nothing changes but the accounts that may deliver. *)
LEMMA DelivererIsSound ==
    ASSUME CInv, TypeOK', add_authorized_deliverer \/ remove_authorized_deliverer
    PROVE  CInv'
<1>1. /\ UNCHANGED <<vars, subscription_id, randomness_history, timestamp,
                     network, round, failed>>
      /\ authorized_deliverers' \subseteq {"self", "idn"}
  BY ZenonT(60) DEF add_authorized_deliverer, remove_authorized_deliverer, CInv, ConsumerTypeOK
<1>2. UNCHANGED <<Subscriptions, phase, todo, requests, unsent, pulses>>
  BY ZenonT(60), <1>1 DEF vars, network
<1>3. ConsumerTypeOK'
  BY ZenonT(60), <1>1, <1>2 DEF CInv, ConsumerTypeOK
<1>4. Dated' /\ Ordered' /\ Tracked'
  BY <1>1, <1>2 DEF CInv, Dated, Ordered, HistoryInOrder, RememberedBefore,
                    Tracked, KnownAfter
<1> QED BY SMTT(60), <1>2, <1>3, <1>4 DEF CInv

(* The owner's messages to the contract. *)
LEMMA OwnerIsSound ==
    ASSUME CInv, TypeOK', OwnerStep
    PROVE  CInv'
<1>1. ASSUME NEW c \in CreditChoices, NEW f \in FrequencyChoices,
             NEW m \in MetadataSizes, owner_create(c, f, m)
      PROVE  CInv'
  <2> DEFINE id == <<c, f, m, timestamp>>
             q == [call |-> "create", id |-> id, credits |-> c,
                   frequency |-> f, metadata |-> m]
  <2>1. id \in SubIds /\ id[4] = timestamp
    BY ZenonT(60), ConsumerAssumption DEF CInv, ConsumerTypeOK
  <2>2. /\ xcm_send(q) /\ subscription_id = None /\ subscription_id' = id
        /\ UNCHANGED <<randomness_history, authorized_deliverers, timestamp>>
    BY ZenonT(60), <1>1 DEF owner_create
  <2> HIDE DEF id
  <2>3. q \in Request /\ q.call = "create" /\ q.id = id
    BY ZenonT(60), <2>1 DEF Request
  <2> HIDE DEF q
  <2> QED BY ZenonT(60), <2>1, <2>2, <2>3, SendIsSound
<1>2. subscription_id # None => subscription_id \in SubIds
  BY SMTT(60) DEF CInv, ConsumerTypeOK
<1>3. ASSUME NEW c \in CreditChoices, NEW f \in FrequencyChoices, owner_update(c, f)
      PROVE  CInv'
  <2> DEFINE q == [call |-> "update", id |-> subscription_id, credits |-> c,
                   frequency |-> f]
  <2>1. xcm_send(q) /\ UNCHANGED consumer /\ subscription_id # None
    BY ZenonT(60), <1>3 DEF owner_update, ensure_active_sub
  <2>2. q \in Request /\ q.call = "update"
    BY ZenonT(60), <1>2, <2>1 DEF Request
  <2> HIDE DEF q
  <2> QED BY ZenonT(60), <2>1, <2>2, SendIsSound DEF consumer
<1>4. ASSUME NEW call \in {"pause", "reactivate"}, ensure_active_sub,
             xcm_send([call |-> call, id |-> subscription_id]), UNCHANGED consumer
      PROVE  CInv'
  <2> DEFINE q == [call |-> call, id |-> subscription_id]
  <2>1. q \in Request /\ q.call # "create"
    BY ZenonT(60), <1>2, <1>4 DEF Request, ensure_active_sub
  <2> HIDE DEF q
  <2>2. xcm_send(q)
    BY SMTT(60), <1>4 DEF q
  <2> QED BY ZenonT(60), <1>4, <2>1, <2>2, SendIsSound DEF consumer
<1>5. CASE owner_pause \/ owner_reactivate
  BY SMTT(60), <1>4, <1>5 DEF owner_pause, owner_reactivate
<1>6. CASE owner_kill
  <2> DEFINE q == [call |-> "kill", id |-> subscription_id]
  <2>1. /\ xcm_send(q) /\ subscription_id # None /\ subscription_id' = None
        /\ UNCHANGED <<randomness_history, authorized_deliverers, timestamp>>
    BY SMTT(60), <1>6 DEF owner_kill, ensure_active_sub
  <2>2. q \in Request /\ q.call = "kill" /\ q.id = subscription_id
    BY ZenonT(60), <1>2, <2>1 DEF Request
  <2> HIDE DEF q
  <2> QED BY ZenonT(60), <2>1, <2>2, SendIsSound
<1> QED BY SMTT(60), <1>1, <1>3, <1>5, <1>6, DelivererIsSound DEF OwnerStep

(* The block ends: its requests leave, and an id that bears the next       *)
(* timestamp is new.                                                       *)
LEMMA BlockEndIsSound ==
    ASSUME CInv, TypeOK', NextTimestamp
    PROVE  CInv'
<1>1. /\ timestamp' = timestamp + 1 /\ timestamp < LastTimestamp /\ unsent' = 0
      /\ UNCHANGED <<vars, subscription_id, randomness_history,
                     authorized_deliverers, requests, pulses, round, failed>>
  BY SMTT(60) DEF NextTimestamp
<1>2. UNCHANGED <<Subscriptions, phase, todo>>
  BY ZenonT(60), <1>1 DEF vars
<1>3. ConsumerTypeOK'
  <2>1. timestamp' \in 1..LastTimestamp /\ unsent' \in 0..Len(requests')
    BY <1>1, ConsumerAssumption DEF CInv, ConsumerTypeOK
  <2> QED BY ZenonT(60), <1>1, <1>2, <2>1 DEF CInv, ConsumerTypeOK
<1>4. Dated'
  <2>1. timestamp \in Int
    BY SMTT(60) DEF CInv, ConsumerTypeOK
  <2>2. ASSUME NEW i \in DOMAIN requests, requests[i].call = "create"
        PROVE  /\ requests[i].id[4] < timestamp + 1
               /\ requests[i].id[4] <= timestamp + 1
    <3>1. requests[i] \in Request
      BY SMTT(60) DEF CInv, ConsumerTypeOK
    <3>2. requests[i].id[4] \in Int
      BY ZenonT(60), <3>1, RequestFields, StampType DEF Callable
    <3> QED BY <2>1, <2>2, <3>2 DEF CInv, Dated
  <2>3. ASSUME NEW id \in DOMAIN Subscriptions PROVE id[4] < timestamp + 1
    <3>1. id[4] \in Int
      BY SMTT(60), StampType DEF CInv, ConsumerTypeOK, TypeOK
    <3> QED BY <2>1, <3>1 DEF CInv, Dated
  <2>4. ASSUME NEW i \in DOMAIN pulses PROVE pulses[i].id[4] < timestamp + 1
    <3>1. pulses[i].id[4] \in Int
      BY ZenonT(60), PulseFields, StampType DEF CInv
    <3> QED BY <2>1, <3>1 DEF CInv, Dated
  <2> QED BY ZenonT(60), <1>1, <1>2, <2>2, <2>3, <2>4 DEF Dated
<1>5. Ordered' /\ Tracked'
  BY <1>1, <1>2 DEF CInv, Ordered, HistoryInOrder, RememberedBefore,
                    Tracked, KnownAfter
<1> QED BY SMTT(60), <1>2, <1>3, <1>4, <1>5 DEF CInv

(* The first pulse under way is kept or dropped. *)
LEMMA ReceiptIsSound ==
    ASSUME CInv, TypeOK', consume_pulse \/ LosePulse
    PROVE  CInv'
<1> DEFINE p == Head(pulses)
           S == [round : 1..LastRound, id : SubIds]
           h == randomness_history
<1>1. /\ pulses # <<>> /\ pulses' = Tail(pulses)
      /\ \/ p.id = subscription_id /\ h' = Remembered(h, p.round)
         \/ h' = h
      /\ UNCHANGED <<vars, subscription_id, authorized_deliverers, timestamp,
                     requests, unsent, round, failed>>
  BY ZenonT(60) DEF consume_pulse, LosePulse, accepts, consumer
<1>2. pulses \in Seq(S)
  BY SMTT(60) DEF CInv, ConsumerTypeOK
<1>3. /\ Len(pulses) \in Nat /\ Len(pulses) > 0
      /\ DOMAIN pulses = 1..Len(pulses)
      /\ p = pulses[1] /\ p \in S
      /\ pulses' \in Seq(S) /\ DOMAIN pulses' = 1..(Len(pulses) - 1)
      /\ \A i \in 1..(Len(pulses) - 1) : pulses'[i] = pulses[i + 1]
  <2> HIDE DEF S
  <2>1. DOMAIN pulses = 1..Len(pulses)
    BY SMTT(60), <1>2
  <2> QED BY ZenonT(60), <1>1, <1>2, <2>1, TailIs
<1> 1 \in DOMAIN pulses
  BY <1>3
<1>4. UNCHANGED <<Subscriptions, phase, todo>>
  BY ZenonT(60), <1>1 DEF vars
<1>5. /\ h \in Seq(1..LastRound) /\ Len(h) \in Nat /\ Len(h) <= MaxHistory
      /\ DOMAIN h = 1..Len(h) /\ HistoryInOrder
      /\ \A k \in DOMAIN h : h[k] \in Int
  <2>1. h \in Seq(1..LastRound) /\ Len(h) <= MaxHistory /\ HistoryInOrder
    BY ZenonT(60) DEF CInv, ConsumerTypeOK, Ordered
  <2>2. \A k \in 1..Len(h) : h[k] \in 1..LastRound
    BY ZenonT(60), <2>1, EntryIs
  <2> QED BY SMTT(60), <2>1, <2>2
<1>6. p.round \in 1..LastRound /\ p.round \in Int /\ p.id \in SubIds
  BY <1>3
<1>7. ASSUME p.id = subscription_id, h' = Remembered(h, p.round)
      PROVE  /\ h' \in Seq(1..LastRound) /\ Len(h') <= MaxHistory
             /\ HistoryInOrder'
             /\ \A k \in DOMAIN h' : h'[k] = p.round \/ \E l \in DOMAIN h : h'[k] = h[l]
  <2>1. PICK n \in Nat, d \in {0, 1} :
          /\ h' \in Seq(1..LastRound) /\ Len(h') = n + 1 /\ n < MaxHistory
          /\ DOMAIN h' = 1..(n + 1)
          /\ h'[n + 1] = p.round
          /\ \A k \in 1..n : k + d \in DOMAIN h /\ h'[k] = h[k + d]
    <3>1. PICK r \in 1..LastRound : r = p.round
      BY SMTT(60), <1>6
    <3>2. Remembered(h, r) \in Seq(1..LastRound) /\ Continues(Remembered(h, r), h, r)
      BY ZenonT(60), <1>5, RememberedIs
    <3> QED BY ZenonT(60), <1>7, <3>1, <3>2 DEF Continues
  <2>2. \A k \in DOMAIN h : h[k] < p.round
    BY ZenonT(60), <1>3, <1>7 DEF CInv, Ordered, RememberedBefore
  <2>3. Len(h') <= MaxHistory
    BY SMTT(60), <2>1, ConsumerAssumption
  <2>4. ASSUME NEW k \in DOMAIN h', NEW l \in DOMAIN h', k < l
        PROVE  h'[k] < h'[l]
    <3>1. k \in 1..n
      BY SMTT(60), <2>1, <2>4
    <3>2. CASE l = n + 1
      BY SMTT(60), <2>1, <2>2, <3>1, <3>2
    <3>3. CASE l \in 1..n
      <4>1. k + d < l + d
        BY SMTT(60), <2>4, <3>1, <3>3
      <4> QED BY ZenonT(60), <1>5, <2>1, <3>1, <3>3, <4>1 DEF HistoryInOrder
    <3> QED BY SMTT(60), <2>1, <3>2, <3>3
  <2>5. HistoryInOrder'
    BY SMTT(60), <2>4 DEF HistoryInOrder
  <2>6. \A k \in DOMAIN h' : h'[k] = p.round \/ \E l \in DOMAIN h : h'[k] = h[l]
    BY <2>1
  <2> QED BY ZenonT(60), <2>1, <2>3, <2>5, <2>6
<1>8. /\ h' \in Seq(1..LastRound) /\ Len(h') <= MaxHistory
      /\ HistoryInOrder'
      /\ \A k \in DOMAIN h' : \/ p.id = subscription_id /\ h'[k] = p.round
                              \/ \E l \in DOMAIN h : h'[k] = h[l]
  <2>1. CASE p.id = subscription_id /\ h' = Remembered(h, p.round)
    BY ZenonT(60), <1>7, <2>1
  <2>2. CASE h' = h
    BY SMTT(60), <1>5, <2>2 DEF HistoryInOrder
  <2> QED BY ZenonT(60), <1>1, <2>1, <2>2
<1>9. ConsumerTypeOK'
  BY ZenonT(60), <1>1, <1>3, <1>4, <1>8 DEF CInv, ConsumerTypeOK
<1>10. Dated'
  <2>1. \A i \in DOMAIN pulses' : i + 1 \in DOMAIN pulses /\ pulses'[i] = pulses[i + 1]
    BY <1>3
  <2> QED BY ZenonT(60), <1>1, <1>4, <2>1 DEF CInv, Dated
<1>11. Ordered'
  <2>1. ASSUME NEW i \in DOMAIN pulses'
        PROVE  /\ i + 1 \in DOMAIN pulses /\ pulses'[i] = pulses[i + 1]
               /\ pulses'[i].round \in Int
               /\ p.id = pulses'[i].id => p.round < pulses'[i].round
    <3>1. i + 1 \in DOMAIN pulses /\ pulses'[i] = pulses[i + 1] /\ i + 1 > 1
      BY <1>3
    <3>2. pulses[i + 1].round \in Int
      BY SMTT(60), <3>1, PulseFields DEF CInv
    <3> QED BY ZenonT(60), <1>3, <3>1, <3>2 DEF CInv, Ordered
  <2>2. ASSUME NEW r \in Int, RememberedBefore(r), p.id = subscription_id => p.round < r
        PROVE  RememberedBefore(r)'
    BY ZenonT(60), <1>5, <1>6, <1>8, <2>2 DEF RememberedBefore
  <2>3. round \in Int /\ p.round <= round
    <3>1. round \in 0..LastRound /\ \A i \in DOMAIN pulses : pulses[i].round <= round
      BY ZenonT(60) DEF CInv, ConsumerTypeOK, Ordered
    <3>2. 1 \in DOMAIN pulses /\ p = pulses[1]
      BY SMTT(60), <1>3
    <3>3. p.round <= round
      BY ZenonT(60), <3>1, <3>2
    <3> QED BY SMTT(60), <3>1, <3>3, ConsumerAssumption
  <2>4. RememberedBefore(round + 1)'
    BY <1>1, <1>6, <2>2, <2>3 DEF CInv, Ordered
  <2>5. ASSUME NEW i \in DOMAIN pulses', pulses'[i].id = subscription_id'
        PROVE  RememberedBefore(pulses[i].round)'
    <3>1. PICK r \in Int : r = pulses'[i].round
      BY ZenonT(60), <2>1
    <3>2. RememberedBefore(r)
      BY ZenonT(60), <1>1, <2>1, <2>5, <3>1 DEF CInv, Ordered
    <3>3. RememberedBefore(r)'
      BY ZenonT(60), <1>1, <2>1, <2>2, <2>5, <3>1, <3>2
    <3> QED BY ZenonT(60), <3>1, <3>3 DEF RememberedBefore
  <2>6. ASSUME phase' = "execute", NEW id \in todo'
        PROVE  /\ round' > 0
               /\ \A i \in DOMAIN pulses' : pulses'[i].id = id => pulses'[i].round < round'
               /\ id = subscription_id' => RememberedBefore(round)'
    <3>1. /\ round > 0
          /\ \A i \in DOMAIN pulses : pulses[i].id = id => pulses[i].round < round
          /\ id = subscription_id => RememberedBefore(round)
      BY ZenonT(60), <1>4, <2>6 DEF CInv, Ordered
    <3>2. id = subscription_id => RememberedBefore(round)'
      BY ZenonT(60), <1>1, <1>3, <2>2, <2>3, <3>1
    <3> QED BY ZenonT(60), <1>1, <2>1, <3>1, <3>2
  <2>7. \A i, j \in DOMAIN pulses' :
          i < j /\ pulses'[i].id = pulses'[j].id => pulses'[i].round < pulses'[j].round
    <3>1. \A i, j \in DOMAIN pulses' : i \in Int /\ j \in Int /\ (i < j => i + 1 < j + 1)
      BY <1>3
    <3> QED BY ZenonT(60), <2>1, <3>1 DEF CInv, Ordered
  <2>8. \A i \in DOMAIN pulses' : pulses'[i].round <= round'
    BY ZenonT(60), <1>1, <2>1 DEF CInv, Ordered
  <2> QED BY ZenonT(60), <1>8, <2>4, <2>5, <2>6, <2>7, <2>8 DEF Ordered
<1>12. Tracked'
  BY <1>1, <1>4 DEF CInv, Tracked, KnownAfter
<1> QED BY SMTT(60), <1>4, <1>9, <1>10, <1>11, <1>12 DEF CInv

(* The first request is executed or fails; the others move up. *)
LEMMA TurnIsSound ==
    ASSUME CInv, TypeOK', ExecuteRequest \/ FailRequest
    PROVE  CInv'
<1> DEFINE q == Head(requests)
<1>1. /\ Len(requests) > unsent /\ requests' = Tail(requests)
      /\ UNCHANGED <<consumer, unsent, pulses, round>>
  BY ZenonT(60) DEF ExecuteRequest, FailRequest, NextRequest
<1>2. UNCHANGED <<subscription_id, randomness_history, authorized_deliverers, timestamp>>
  BY SMTT(60), <1>1 DEF consumer
<1>3. requests \in Seq(Request) /\ unsent \in 0..Len(requests) /\ failed \subseteq SubIds
  BY SMTT(60) DEF CInv, ConsumerTypeOK
<1>4. requests # <<>>
  BY SMTT(60), <1>1, <1>3
<1>5. /\ Len(requests) \in Nat /\ Len(requests) > 0
      /\ DOMAIN requests = 1..Len(requests)
      /\ q = requests[1] /\ q \in Request
      /\ requests' \in Seq(Request) /\ Len(requests') = Len(requests) - 1
      /\ DOMAIN requests' = 1..(Len(requests) - 1)
      /\ \A i \in 1..(Len(requests) - 1) : requests'[i] = requests[i + 1]
  BY SMTT(60), <1>1, <1>3, <1>4, TailIs
<1>6. 1 \in DOMAIN requests /\ 1 <= Len(requests) - unsent
  BY SMTT(60), <1>1, <1>3, <1>5
<1>7. Callable(q)
  BY ZenonT(60), <1>5, RequestFields
<1>8. /\ UNCHANGED <<phase, todo>>
      /\ failed \subseteq failed' /\ failed' \subseteq SubIds
      /\ q.call = "kill" => q.id \notin DOMAIN Subscriptions' \/ q.id \in failed'
      /\ \A id \in DOMAIN Subscriptions' :
           id \in DOMAIN Subscriptions \/ (id = q.id /\ q.call = "create")
  <2>1. CASE ExecuteRequest
    <3>1. Transact(q) /\ (q.call = "update" => InStorage(q.id)) /\ UNCHANGED failed
      BY SMTT(60), <2>1 DEF ExecuteRequest
    <3> HIDE DEF q
    <3>2. /\ UNCHANGED <<phase, todo>>
          /\ q.call = "kill" => q.id \notin DOMAIN Subscriptions'
          /\ \/ OnlyUsesUp
             \/ /\ q.call = "create"
                /\ DOMAIN Subscriptions' = DOMAIN Subscriptions \cup {q.id}
      BY ZenonT(60), <1>7, <3>1, RequestRuns DEF CInv, ConsumerTypeOK
    <3> QED BY ZenonT(60), <1>3, <3>1, <3>2 DEF OnlyUsesUp
  <2>2. CASE FailRequest
    <3>1. /\ UNCHANGED vars
          /\ failed' = IF q.call = "kill" /\ InStorage(q.id)
                       THEN failed \cup {q.id} ELSE failed
      BY SMTT(60), <2>2 DEF FailRequest
    <3>2. UNCHANGED <<Subscriptions, phase, todo>>
      BY SMTT(60), <3>1 DEF vars
    <3> QED BY ZenonT(60), <1>3, <1>7, <3>1, <3>2 DEF InStorage, Callable
  <2> QED BY ZenonT(60), <2>1, <2>2
<1> HIDE DEF q
<1>9. ASSUME NEW i \in DOMAIN requests'
      PROVE  i \in Int /\ i + 1 \in DOMAIN requests /\ requests'[i] = requests[i + 1]
  BY SMTT(60), <1>5
<1>10. ConsumerTypeOK'
  <2>1. unsent' \in 0..Len(requests')
    BY SMTT(60), <1>1, <1>3, <1>5
  <2> QED BY ZenonT(60), <1>1, <1>2, <1>5, <1>8, <2>1 DEF CInv, ConsumerTypeOK
<1>11. Dated'
  <2>1. ASSUME NEW i \in DOMAIN requests', requests'[i].call = "create"
        PROVE  /\ requests'[i].id[4] <= timestamp
               /\ i <= Len(requests') - unsent' => requests'[i].id[4] < timestamp
    <3>1. i <= Len(requests') - unsent' => i + 1 <= Len(requests) - unsent
      BY SMTT(60), <1>1, <1>3, <1>5, <1>9
    <3> QED BY SMTT(60), <1>9, <2>1, <3>1 DEF CInv, Dated
  <2>2. q.call = "create" => q.id[4] < timestamp
    BY SMTT(60), <1>5, <1>6 DEF CInv, Dated
  <2>3. \A id \in DOMAIN Subscriptions' : id[4] < timestamp
    BY SMTT(60), <1>8, <2>2 DEF CInv, Dated
  <2> QED BY SMTT(60), <1>1, <1>2, <2>1, <2>3 DEF CInv, Dated
<1>12. Ordered'
  BY ZenonT(60), <1>1, <1>2, <1>8 DEF CInv, Ordered, HistoryInOrder, RememberedBefore
<1>13. Tracked'
  <2>1. ASSUME NEW id, NEW i \in Nat, KnownAfter(id, i + 1)
        PROVE  KnownAfter(id, i)'
    <3>1. CASE id = subscription_id \/ id \in failed
      BY SMTT(60), <1>2, <1>8, <3>1 DEF KnownAfter
    <3>2. ASSUME NEW j \in DOMAIN requests, j > i + 1, requests[j].call = "kill",
                 requests[j].id = id
          PROVE  KnownAfter(id, i)'
      <4>1. /\ j - 1 \in DOMAIN requests' /\ j - 1 > i
            /\ requests'[j - 1] = requests[j]
        BY SMTT(60), <1>5, <3>2
      <4> QED BY SMTT(60), <3>2, <4>1 DEF KnownAfter
    <3> QED BY SMTT(60), <2>1, <3>1, <3>2 DEF KnownAfter
  <2>2. ASSUME NEW i \in DOMAIN requests', requests'[i].call = "create"
        PROVE  KnownAfter(requests[i].id, i)'
    <3>1. PICK id : id = requests'[i].id
      OBVIOUS
    <3>2. KnownAfter(id, i + 1)
      BY SMTT(60), <1>9, <2>2, <3>1 DEF CInv, Tracked
    <3>3. KnownAfter(id, i)'
      BY SMTT(60), <1>5, <2>1, <3>2
    <3> QED BY SMTT(60), <3>1, <3>3 DEF KnownAfter
  <2>3. ASSUME NEW id \in DOMAIN Subscriptions'
        PROVE  KnownAfter(id, 0)'
    <3>1. CASE id = q.id /\ q.call = "create"
      <4>1. KnownAfter(id, 1)
        BY SMTT(60), <1>5, <1>6, <3>1 DEF CInv, Tracked
      <4> QED BY SMTT(60), <2>1, <4>1
    <3>2. CASE id \in DOMAIN Subscriptions
      <4>1. KnownAfter(id, 0)
        BY SMTT(60), <3>2 DEF CInv, Tracked
      <4>2. KnownAfter(id, 1) \/ (q.call = "kill" /\ q.id = id)
        BY SMTT(60), <1>5, <4>1 DEF KnownAfter
      <4>3. CASE q.call = "kill" /\ q.id = id
        BY <1>8, <2>3, <4>3 DEF KnownAfter
      <4> QED BY SMTT(60), <2>1, <4>2, <4>3
    <3> QED BY SMTT(60), <1>8, <3>1, <3>2
  <2> QED BY SMTT(60), <2>2, <2>3 DEF Tracked
<1> QED BY ZenonT(60), <1>8, <1>10, <1>11, <1>12, <1>13 DEF CInv

(* The IDN by itself: the beacon dispatches a pulse, distribute sends one  *)
(* or none, and blocks end.                                                *)
LEMMA ServiceIsSound ==
    ASSUME CInv, TypeOK', DispatchPulse \/ (\E id \in SubIds : Deliver(id)) \/ IdnStep
    PROVE  CInv'
<1> DEFINE S == [round : 1..LastRound, id : SubIds]
<1>0. /\ round \in Int /\ TypeOK /\ todo \subseteq SubIds
      /\ pulses \in Seq(S) /\ Len(pulses) \in Nat /\ DOMAIN pulses = 1..Len(pulses)
      /\ \A i \in DOMAIN pulses : pulses[i].round \in Int
  <2>1. pulses \in Seq(S) /\ round \in Int
    BY SMTT(60), ConsumerAssumption DEF CInv, ConsumerTypeOK
  <2>2. TypeOK /\ todo \subseteq SubIds
    BY ZenonT(60) DEF CInv, ConsumerTypeOK, TypeOK
  <2>3. \A i \in DOMAIN pulses : pulses[i].round \in Int
    BY PulseFields DEF CInv
  <2> HIDE DEF S
  <2> QED BY SMTT(60), <2>1, <2>2, <2>3
<1>1. CASE DispatchPulse
  <2>1. /\ round < LastRound /\ round' = round + 1
        /\ UNCHANGED <<consumer, network, failed, Subscriptions>>
        /\ dispatch
    BY <1>1 DEF DispatchPulse, dispatch
  <2>3. round' \in 1..LastRound /\ round' \in 0..LastRound
    BY SMTT(60), <2>1, ConsumerAssumption DEF CInv, ConsumerTypeOK
  <2>2. UNCHANGED <<subscription_id, randomness_history, authorized_deliverers, timestamp,
                    requests, unsent, pulses, failed, Subscriptions>>
    BY ZenonT(60), <2>1 DEF consumer, network
  <2>4. ConsumerTypeOK' /\ Dated' /\ Tracked'
    <3>1. ConsumerTypeOK'
      BY ZenonT(60), <2>2, <2>3 DEF CInv, ConsumerTypeOK
    <3>2. Dated'
      BY ZenonT(60), <2>2 DEF CInv, Dated
    <3>3. Tracked'
      BY ZenonT(60), <2>2 DEF CInv, Tracked, KnownAfter
    <3> QED BY ZenonT(60), <3>1, <3>2, <3>3
  <2>5. /\ UNCHANGED <<subscription_id, randomness_history, pulses>>
        /\ \A k \in DOMAIN randomness_history : randomness_history[k] \in Int
    <3>1. randomness_history \in Seq(1..LastRound)
      BY DEF CInv, ConsumerTypeOK
    <3>2. \A k \in 1..Len(randomness_history) : randomness_history[k] \in 1..LastRound
      BY ZenonT(60), <3>1, EntryIs
    <3>3. DOMAIN randomness_history = 1..Len(randomness_history) /\ 1..LastRound \subseteq Int
      BY SMTT(60), <3>1
    <3> QED BY ZenonT(60), <2>2, <3>2, <3>3
  <2>6. \A k \in DOMAIN randomness_history : randomness_history[k] < round'
    BY ZenonT(60), <2>1 DEF CInv, Ordered, RememberedBefore
  <2>7. \A i \in DOMAIN pulses : pulses[i].round < round'
    <3>1. \A i \in DOMAIN pulses : pulses[i].round <= round
      BY ZenonT(60) DEF CInv, Ordered
    <3> QED BY SMTT(60), <1>0, <2>1, <3>1
  <2>8. /\ \A k \in DOMAIN randomness_history : randomness_history[k] < round' + 1
        /\ \A i \in DOMAIN pulses : pulses[i].round <= round'
        /\ round' > 0
    BY SMTT(60), <1>0, <2>3, <2>5, <2>6, <2>7
  <2>9. Ordered'
    BY ZenonT(60), <2>5, <2>6, <2>7, <2>8 DEF CInv, Ordered, HistoryInOrder, RememberedBefore
  <2> QED BY ZenonT(60), <2>4, <2>9 DEF CInv
<1>2. ASSUME NEW id \in SubIds, Deliver(id)
      PROVE  CInv'
  <2> DEFINE p == [round |-> round, id |-> id]
  <2>1. /\ DeliverPulse(id) /\ pulses' = Append(pulses, p)
        /\ UNCHANGED <<consumer, requests, unsent, round, failed>>
    BY <1>2 DEF Deliver
  <2>2. phase = "execute" /\ id \in todo /\ todo' = todo \ {id} /\ phase' = phase
    BY SMTT(60), <2>1 DEF DeliverPulse, Distributing
  <2>3. OnlyUsesUp
    BY SMTT(60), <1>0, <2>1, BlockStepUsesUp DEF BlockStep, Distribute
  <2>4. p \in S /\ p.round = round /\ p.id = id
    <3>1. round > 0 /\ round \in 0..LastRound
      BY ZenonT(60), <2>2 DEF CInv, ConsumerTypeOK, Ordered
    <3>2. round \in 1..LastRound
      BY SMTT(60), <3>1, ConsumerAssumption
    <3> QED BY SMTT(60), <3>2
  <2> HIDE DEF p, S
  <2>5. /\ pulses' \in Seq(S) /\ DOMAIN pulses' = 1..(Len(pulses) + 1)
        /\ \A i \in 1..Len(pulses) : pulses'[i] = pulses[i]
        /\ pulses'[Len(pulses) + 1] = p
    <3>1. /\ Append(pulses, p) \in Seq(S)
          /\ DOMAIN Append(pulses, p) = 1..(Len(pulses) + 1)
          /\ \A i \in 1..Len(pulses) : Append(pulses, p)[i] = pulses[i]
          /\ Append(pulses, p)[Len(pulses) + 1] = p
      <4>1. pulses \in Seq(S) /\ p \in S
        BY ZenonT(60), <1>0, <2>4
      <4> QED BY SMTT(60), <4>1, AppendIs
    <3> QED BY ZenonT(60), <2>1, <3>1
  <2>6. UNCHANGED <<subscription_id, randomness_history, authorized_deliverers, timestamp>>
    BY <2>1 DEF consumer
  <2>7. ConsumerTypeOK'
    BY ZenonT(60), <2>1, <2>3, <2>5, <2>6 DEF CInv, ConsumerTypeOK, S
  <2>8. Dated'
    <3>1. id[4] < timestamp
      BY ZenonT(60), <2>2 DEF CInv, ConsumerTypeOK, Dated, TypeOK
    <3>2. \A i \in DOMAIN pulses : pulses[i].id[4] < timestamp
      BY ZenonT(60) DEF CInv, Dated
    <3>3. \A i \in DOMAIN pulses' : pulses'[i].id[4] < timestamp
      BY SMTT(60), <1>0, <2>4, <2>5, <3>1, <3>2
    <3> QED BY ZenonT(60), <2>1, <2>3, <2>6, <3>3 DEF CInv, Dated, OnlyUsesUp
  <2>9. Ordered'
    <3>1. /\ round > 0
          /\ \A i \in DOMAIN pulses : pulses[i].id = id => pulses[i].round < round
          /\ id = subscription_id => RememberedBefore(round)
      BY ZenonT(60), <2>2 DEF CInv, Ordered
    <3>2. ASSUME NEW i \in DOMAIN pulses'
          PROVE  \/ i \in DOMAIN pulses /\ pulses'[i] = pulses[i]
                 \/ i = Len(pulses) + 1 /\ pulses'[i] = p
      BY <1>0, <2>5
    <3>3. \A i \in DOMAIN pulses' : pulses'[i].round <= round
      <4>1. \A i \in DOMAIN pulses : pulses[i].round <= round
        BY ZenonT(60) DEF CInv, Ordered
      <4> QED BY SMTT(60), <1>0, <2>4, <3>2, <4>1
    <3>4. ASSUME NEW i \in DOMAIN pulses', NEW j \in DOMAIN pulses', i < j,
                 pulses'[i].id = pulses'[j].id
          PROVE  pulses'[i].round < pulses'[j].round
      <4>1. i \in DOMAIN pulses /\ pulses'[i] = pulses[i]
        BY SMTT(60), <1>0, <2>5, <3>4
      <4>2. CASE j \in DOMAIN pulses /\ pulses'[j] = pulses[j]
        BY ZenonT(60), <3>4, <4>1, <4>2 DEF CInv, Ordered
      <4>3. CASE pulses'[j] = p
        BY SMTT(60), <2>4, <3>1, <3>4, <4>1, <4>3
      <4> QED BY ZenonT(60), <3>2, <4>2, <4>3
    <3>5. \A i \in DOMAIN pulses' :
            pulses'[i].id = subscription_id => RememberedBefore(pulses'[i].round)
      BY ZenonT(60), <2>4, <3>1, <3>2 DEF CInv, Ordered
    <3>6. ASSUME NEW x \in todo'
          PROVE  /\ round > 0
                 /\ \A i \in DOMAIN pulses' : pulses'[i].id = x => pulses'[i].round < round
                 /\ x = subscription_id => RememberedBefore(round)
      <4>1. x \in todo /\ x # id
        BY ZenonT(60), <2>2
      <4>2. /\ \A i \in DOMAIN pulses : pulses[i].id = x => pulses[i].round < round
            /\ x = subscription_id => RememberedBefore(round)
        BY ZenonT(60), <2>2, <4>1 DEF CInv, Ordered
      <4> QED BY ZenonT(60), <2>4, <3>1, <3>2, <4>1, <4>2
    <3>7. HistoryInOrder /\ RememberedBefore(round + 1)
      BY ZenonT(60) DEF CInv, Ordered
    <3> QED BY ZenonT(60), <2>1, <2>6, <3>3, <3>4, <3>5, <3>6, <3>7
            DEF Ordered, HistoryInOrder, RememberedBefore
  <2>10. Tracked'
    BY ZenonT(60), <2>1, <2>3, <2>6 DEF CInv, Tracked, KnownAfter, OnlyUsesUp
  <2> QED BY ZenonT(60), <2>3, <2>7, <2>8, <2>9, <2>10 DEF CInv
<1>3. CASE IdnStep
  <2>1. BlockStep /\ UNCHANGED <<consumer, network, round, failed>>
    BY SMTT(60), <1>3 DEF IdnStep, BlockStep, Distribute
  <2>2. OnlyUsesUp /\ LoopGoesOn
    BY SMTT(60), <1>0, <2>1, BlockStepUsesUp
  <2>4. UNCHANGED <<subscription_id, randomness_history, authorized_deliverers, timestamp,
                    requests, unsent, pulses, round, failed>>
    BY ZenonT(60), <2>1 DEF consumer, network
  <2>3. ConsumerTypeOK' /\ Dated' /\ Tracked'
    <3>1. ConsumerTypeOK'
      BY ZenonT(60), <2>4 DEF CInv, ConsumerTypeOK
    <3>2. Dated'
      BY ZenonT(60), <2>2, <2>4 DEF CInv, Dated, OnlyUsesUp
    <3>3. Tracked'
      BY ZenonT(60), <2>2, <2>4 DEF CInv, Tracked, KnownAfter, OnlyUsesUp
    <3> QED BY ZenonT(60), <3>1, <3>2, <3>3
  <2>5. Ordered'
    BY ZenonT(60), <2>2, <2>4 DEF CInv, Ordered, HistoryInOrder, RememberedBefore, LoopGoesOn
  <2> QED BY ZenonT(60), <2>2, <2>3, <2>5 DEF CInv
<1> QED BY ZenonT(60), <1>1, <1>2, <1>3

(* The invariant holds in every initial state (the constructor). *)
LEMMA ContractStartsSound ==
    ASSUME ConsumerInit, TypeOK
    PROVE  CInv
<1>1. DOMAIN Subscriptions = {} /\ todo = {}
  BY DEF ConsumerInit, Init
<1>2. /\ requests = <<>> /\ pulses = <<>> /\ randomness_history = <<>>
      /\ unsent = 0 /\ round = 0 /\ timestamp = 1 /\ failed = {}
      /\ subscription_id = None /\ authorized_deliverers = {"self"}
  BY DEF ConsumerInit
<1>3. timestamp \in 1..LastTimestamp
  BY SMTT(60), <1>2, ConsumerAssumption
<1>4. ConsumerTypeOK
  BY SMTT(60), <1>2, <1>3, ConsumerAssumption DEF ConsumerTypeOK
<1>5. Dated /\ Ordered /\ Tracked
  BY SMTT(60), <1>1, <1>2 DEF Dated, Ordered, HistoryInOrder, RememberedBefore, Tracked
<1> QED BY <1>4, <1>5 DEF CInv

(* Every step keeps it, if the manager keeps its type. *)
LEMMA ContractStepIsSound ==
    ASSUME CInv, TypeOK', [ConsumerNext]_world
    PROVE  CInv'
<1>1. CASE UNCHANGED world
  <2>1. UNCHANGED <<subscription_id, randomness_history, authorized_deliverers, timestamp,
                    requests, unsent, pulses, round, failed, Subscriptions, todo, phase>>
    BY ZenonT(60), <1>1 DEF world, vars, consumer, network
  <2>2. ConsumerTypeOK'
    BY ZenonT(60), <2>1 DEF CInv, ConsumerTypeOK
  <2>3. Dated'
    BY ZenonT(60), <2>1 DEF CInv, Dated
  <2>4. Ordered'
    BY ZenonT(60), <2>1 DEF CInv, Ordered, HistoryInOrder, RememberedBefore
  <2>5. Tracked'
    BY ZenonT(60), <2>1 DEF CInv, Tracked, KnownAfter
  <2> QED BY ZenonT(60), <2>2, <2>3, <2>4, <2>5 DEF CInv
<1> QED BY SMTT(60), <1>1, OwnerIsSound, BlockEndIsSound, ReceiptIsSound, TurnIsSound,
           ServiceIsSound DEF ConsumerNext

(* Every step of the contract, the network and the IDN is one of the       *)
(* manager's, or leaves all it has alone.                                  *)
LEMMA ContractStepIsServed ==
    ASSUME CInv, [ConsumerNext]_world
    PROVE  [Next]_vars
<1>1. TypeOK /\ requests \in Seq(Request) /\ unsent \in 0..Len(requests)
  BY DEF CInv, ConsumerTypeOK
<1>2. CASE ExecuteRequest
  <2>1. /\ Len(requests) > unsent /\ Transact(Head(requests))
        /\ Head(requests).call = "update" => InStorage(Head(requests).id)
    BY ZenonT(60), <1>2 DEF ExecuteRequest, NextRequest
  <2>2. requests # <<>>
    BY <1>1, <2>1
  <2>3. PICK q \in Request : q = Head(requests)
    BY <1>1, <2>2
  <2>4. q.call = "update" => q.credits \in CreditChoices
    BY SMTT(60) DEF Request
  <2>5. Callable(q)
    BY ZenonT(60), RequestFields
  <2>6. Next
    BY ZenonT(60), <1>1, <2>1, <2>3, <2>4, <2>5, RequestIsCall
  <2> QED BY <2>6
<1>3. CASE DispatchPulse
  BY ZenonT(60), <1>3 DEF DispatchPulse, Next
<1>4. ASSUME NEW id \in SubIds, Deliver(id)
      PROVE  [Next]_vars
  BY ZenonT(60), <1>4 DEF Deliver, Next, BlockStep, Distribute
<1>5. CASE IdnStep
  BY ZenonT(60), <1>5 DEF IdnStep, Next, BlockStep, Distribute
<1>6. CASE OwnerStep
  <2>1. UNCHANGED vars
    BY ZenonT(60), <1>6 DEF OwnerStep, owner_create, owner_update, owner_pause,
         owner_reactivate, owner_kill, add_authorized_deliverer,
         remove_authorized_deliverer, xcm_send
  <2> QED BY <2>1
<1>7. CASE NextTimestamp \/ consume_pulse \/ LosePulse \/ FailRequest \/ UNCHANGED world
  <2>1. UNCHANGED vars
    BY ZenonT(60), <1>7 DEF NextTimestamp, consume_pulse, LosePulse, FailRequest, world
  <2> QED BY <2>1
<1> QED BY ZenonT(60), <1>2, <1>3, <1>4, <1>5, <1>6, <1>7 DEF ConsumerNext

=============================================================================
