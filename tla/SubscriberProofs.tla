-------------------------- MODULE SubscriberProofs --------------------------
(***************************************************************************)
(* What a subscriber can count on, for any number of accounts and          *)
(* subscriptions.                                                          *)
(*                                                                         *)
(*   Quotes   QuoteKept, from the credits that PInv sets aside             *)
(*   Pallet   the users of the pallet of a consumer chain: isolation, and  *)
(*            answers that were asked for (PalletInv)                      *)
(*                                                                         *)
(* Each is inductive together with the invariant of IdnManagerProofs.      *)
(***************************************************************************)
EXTENDS QuotedSubscriptions, ConsumerPallet, IdnManagerProofs

-----------------------------------------------------------------------------
(* Quotes.                                                                 *)

(* A set of naturals with an upper bound has a greatest element. *)
LEMMA GreatestIsIn ==
    ASSUME NEW c \in Nat, NEW S \in SUBSET (0..c), S # {}
    PROVE  Max(S) \in S
<1> DEFINE T == {c - n : n \in S}
<1>1. T \in SUBSET Nat /\ T # {}
  <2>1. ASSUME NEW n \in S PROVE c - n \in Nat
    OBVIOUS
  <2> QED BY ZenonT(60), <2>1
<1>2. PICK d \in T : \A e \in T : ~(<<e, d>> \in OpToRel(<, Nat))
  BY ZenonT(60), <1>1, NatLessThanWellFounded, WFMin
<1>3. PICK n \in S : d = c - n
  OBVIOUS
<1>4. ASSUME NEW y \in S PROVE n >= y
  <2>1. c - y \in T /\ c - y \in Nat /\ d \in Nat
    BY <1>1
  <2>2. ~(c - y < d)
    BY ZenonT(60), <1>2, <2>1 DEF OpToRel
  <2> QED BY <1>3, <2>1, <2>2
<1> QED BY ZenonT(60), <1>3, <1>4 DEF Max

(* Credits that do not reach the limit of u64 pay for the pulses they are  *)
(* quoted for, idle credits included (calculate_credits does not saturate  *)
(* then).                                                                  *)
LEMMA QuotePays ==
    ASSUME NEW c \in 0..U64Max, NEW f \in Nat
    PROVE  LET n == PulsesQuoted(c, f)
           IN  n \in Nat /\ (c # U64Max /\ n > 0 => n * (f + 1) <= c)
<1> DEFINE s == SaturatingAdd(SaturatingMul(f, 1), 1)
           S == {n \in 0..c : calculate_credits(f, n) <= c}
<1>1. U64Max \in Nat /\ c \in Nat /\ (c # U64Max => c < U64Max)
  BY ConstantTypes
<1>2. \A n \in Nat : calculate_credits(f, n) = Lesser(n * s, U64Max)
  BY DEF calculate_credits, get_idle_credits, get_consume_credits, SaturatingMul
<1>3. s \in Nat /\ (s = f + 1 \/ s = U64Max)
  <2>1. SaturatingMul(f, 1) \in Nat /\ (SaturatingMul(f, 1) = f \/ SaturatingMul(f, 1) = U64Max)
    BY <1>1 DEF SaturatingMul, Lesser
  <2> QED BY <1>1, <2>1 DEF SaturatingAdd, Lesser
<1> HIDE DEF s
<1>4. 0 \in S
  BY <1>1, <1>2, <1>3 DEF Lesser
<1>5. Max(S) \in S
  <2>1. S \in SUBSET (0..c) /\ S # {}
    BY <1>4
  <2> HIDE DEF S
  <2> QED BY ZenonT(60), <1>1, <2>1, GreatestIsIn
<1>6. PICK n \in 0..c : n = PulsesQuoted(c, f) /\ calculate_credits(f, n) <= c
  BY <1>5 DEF PulsesQuoted
<1>7. n \in Nat /\ n * s \in Nat
  BY <1>1, <1>3
<1>8. c # U64Max => n * s <= c
  BY <1>1, <1>2, <1>6, <1>7 DEF Lesser
<1>9. ASSUME n > 0, c # U64Max PROVE s = f + 1
  <2>1. PICK k \in Nat : n = k + 1
    <3>1. n - 1 \in Nat
      BY <1>7, <1>9
    <3> QED BY <1>7, <3>1
  <2>2. n * s = k * s + s /\ k * s \in Nat
    BY <1>3, <2>1
  <2> QED BY <1>1, <1>3, <1>8, <1>9, <2>2
<1> QED BY <1>6, <1>7, <1>8, <1>9

-----------------------------------------------------------------------------
(* The block's pulse may still visit id. *)
Unvisited(id) == phase = "execute" /\ (DidUpdate => id \in todo)

(* The credits that a subscription may use up until its next pulse, which  *)
(* is one of them: an idle credit for every block before it is due.        *)
Needed(age, frequency, unvisited) ==
    1 + IF age = Never \/ age >= frequency THEN 0
        ELSE IF unvisited THEN frequency - age
        ELSE (frequency - age) - 1

(* While pulses of the quote are outstanding the subscription is active    *)
(* and has the credits for the next one and for those after it.            *)
Promised(id) ==
    LET sub == Subscriptions[id]
    IN  quoted[id] > received[id] =>
          /\ sub.state = "Active"
          /\ sub.credits_left >=
               ((quoted[id] - received[id]) - 1) * (sub.frequency + 1)
                 + Needed(sub.age, sub.frequency, Unvisited(id))

PInv ==
    /\ quoted \in [SubIds -> Nat]
    /\ \A id \in DOMAIN Subscriptions : Promised(id)

(* How Needed moves: a visit uses one up, a delivery starts over, and a    *)
(* new block brings the pulse nearer.                                      *)
LEMMA NeededMoves ==
    ASSUME NEW age \in {Never} \cup Frequencies, NEW f \in Frequencies
    PROVE  /\ \A u \in BOOLEAN : Needed(age, f, u) \in Nat /\ Needed(age, f, u) >= 1
           /\ \A u, v \in BOOLEAN :
                (u => v) => Needed(age, f, u) <= Needed(age, f, v)
           /\ Needed(0, f, FALSE) <= f + 1
           /\ Needed(age, f, TRUE) <= f + 1
           /\ age # Never /\ age < f => Needed(age, f, TRUE) = Needed(age, f, FALSE) + 1
           /\ Needed(Older(age), f, TRUE) <= Needed(age, f, FALSE)
BY ConstantTypes DEF Frequencies, Needed, Older, Never, Lesser

(* The pulses after the next one, one fewer. *)
LEMMA OnePulseLess ==
    ASSUME NEW n \in Nat, NEW f \in Nat, n > 0
    PROVE  /\ n * (f + 1) = (n - 1) * (f + 1) + (f + 1)
           /\ (n - 1) * (f + 1) \in Nat
<1>1. PICK k \in Nat : n = k + 1
  <2>1. n - 1 \in Nat
    OBVIOUS
  <2> QED BY <2>1
<1>2. (k + 1) * (f + 1) = k * (f + 1) + (f + 1) /\ k * (f + 1) \in Nat
  OBVIOUS
<1> QED BY <1>1, <1>2

(* What Follow makes of a stored subscription. *)
LEMMA FollowsStored ==
    ASSUME PInv, Follow, NEW id \in SubIds, InStorage(id)
    PROVE  /\ quoted'[id] \in {0, quoted[id]} /\ quoted'[id] \in Nat
           /\ Disturbed(id) => quoted'[id] = 0
<1>1. ~Created(id)
  BY DEF Created
<1>2. quoted'[id] = IF Disturbed(id) THEN 0 ELSE quoted[id]
  BY ZenonT(60), <1>1 DEF Follow
<1> QED BY <1>2 DEF PInv

(* A promise is kept by a step that leaves what it speaks of alone. *)
LEMMA PromiseStays ==
    ASSUME IInv, PInv, Follow, NEW id \in DOMAIN Subscriptions, IInv',
           id \in DOMAIN Subscriptions',
           LET old == Subscriptions[id]
               new == Subscriptions'[id]
           IN  /\ new.state = old.state /\ new.credits_left = old.credits_left
               /\ new.frequency = old.frequency /\ new.age = old.age,
           received'[id] = received[id], Unvisited(id)' => Unvisited(id)
    PROVE  Promised(id)'
<1> DEFINE sub == Subscriptions[id]
<1>1. id \in SubIds /\ sub \in Subscription /\ received[id] \in Nat
  BY DEF IInv, TypeOK
<1>2. /\ sub.frequency \in Frequencies /\ sub.frequency \in Nat
      /\ sub.age \in {Never} \cup Frequencies /\ sub.credits_left \in Int
  BY <1>1, ConstantTypes DEF Subscription, Frequencies
<1>3. quoted'[id] \in {0, quoted[id]} /\ quoted'[id] \in Nat /\ quoted[id] \in Nat
  BY ZenonT(60), <1>1, FollowsStored DEF InStorage, PInv
<1>4. ASSUME quoted'[id] > received'[id]
      PROVE  quoted'[id] = quoted[id] /\ quoted[id] > received[id]
  BY <1>1, <1>3, <1>4
<1>5. /\ Needed(sub.age, sub.frequency, Unvisited(id)) \in Nat
      /\ Needed(sub.age, sub.frequency, Unvisited(id)') \in Nat
      /\ Needed(sub.age, sub.frequency, Unvisited(id)') <=
           Needed(sub.age, sub.frequency, Unvisited(id))
  <2>1. Unvisited(id) \in BOOLEAN /\ Unvisited(id)' \in BOOLEAN
    BY DEF Unvisited
  <2>2. /\ \A u \in BOOLEAN : Needed(sub.age, sub.frequency, u) \in Nat
        /\ \A u, v \in BOOLEAN :
             (u => v) => Needed(sub.age, sub.frequency, u) <=
                           Needed(sub.age, sub.frequency, v)
    BY ZenonT(60), <1>2, NeededMoves
  <2> QED BY <2>1, <2>2, Zenon
<1>6. ASSUME quoted'[id] > received'[id]
      PROVE  /\ sub.state = "Active"
             /\ sub.credits_left >=
                  ((quoted[id] - received[id]) - 1) * (sub.frequency + 1)
                    + Needed(sub.age, sub.frequency, Unvisited(id)')
  <2>1. ((quoted[id] - received[id]) - 1) * (sub.frequency + 1) \in Int
    BY <1>1, <1>2, <1>3
  <2>2. /\ sub.state = "Active"
        /\ sub.credits_left >=
             ((quoted[id] - received[id]) - 1) * (sub.frequency + 1)
               + Needed(sub.age, sub.frequency, Unvisited(id))
    BY ZenonT(60), <1>4, <1>6 DEF PInv, Promised
  <2> QED BY <1>2, <1>5, <2>1, <2>2
<1> QED BY ZenonT(60), <1>4, <1>6 DEF Promised

(* create_subscription: the credits of a quote, and all of it outstanding. *)
LEMMA PromiseIsMade ==
    ASSUME IInv, PInv, Follow, U64Max \notin CreditChoices,
           NEW a, NEW id \in SubIds, NEW c \in CreditChoices,
           NEW f \in FrequencyChoices, NEW m,
           create_subscription(a, id, c, f, m)
    PROVE  Promised(id)'
<1> DEFINE sub == NewSubscription(a, c, f, m)
           n   == PulsesQuoted(c, f)
<1>1. ~InStorage(id) /\ Insert(id, sub) /\ received' = received
  BY DEF create_subscription
<1>2. /\ sub.state = "Active" /\ sub.credits_left = c /\ sub.credits = c
      /\ sub.frequency = f /\ sub.age = Never
  BY DEF NewSubscription
<1> HIDE DEF sub
<1>3. Subscriptions'[id] = sub /\ Created(id)
  BY ZenonT(60), <1>1 DEF Insert, InStorage, Created
<1>4. quoted'[id] = n
  BY ZenonT(60), <1>2, <1>3 DEF Follow
<1>5. received'[id] = 0
  BY <1>1 DEF IInv, NothingSentToAbsent, InStorage
<1>6. c \in 0..U64Max /\ c # U64Max /\ f \in Nat /\ c \in Int
  BY ManagerAssumption, ConstantTypes
<1>7. n \in Nat /\ (n > 0 => n * (f + 1) <= c)
  BY <1>6, QuotePays
<1> HIDE DEF n
<1>8. Needed(Never, f, Unvisited(id)') = 1
  BY DEF Needed
<1>9. ASSUME n > 0 PROVE c >= ((n - 0) - 1) * (f + 1) + 1
  <2>1. n * (f + 1) = (n - 1) * (f + 1) + (f + 1) /\ (n - 1) * (f + 1) \in Nat
    BY <1>6, <1>7, <1>9, OnePulseLess
  <2> QED BY <1>6, <1>7, <1>9, <2>1
<1> QED BY ZenonT(60), <1>2, <1>3, <1>4, <1>5, <1>8, <1>9 DEF Promised

(* A subscription waits for a number of blocks. *)
LEMMA FrequencyIsNumber ==
    ASSUME NEW sub \in Subscription
    PROVE  sub.frequency \in Frequencies /\ sub.frequency \in Nat
BY ConstantTypes DEF Subscription, Frequencies

(* One pulse more is sent of those quoted. *)
LEMMA OneMoreSent ==
    \A r, q, q1 \in Nat :
      (q1 = 0 \/ q1 = q) /\ q1 > r + 1 =>
        /\ q1 = q /\ q > r
        /\ q1 - (r + 1) = (q - r) - 1 /\ (q - r) - 1 > 0 /\ (q - r) - 1 \in Nat
OBVIOUS

(* The credits left after one was used, when more than one was needed. *)
LEMMA OneCreditUsed ==
    \A c, rest, need \in Nat :
      c >= rest + (need + 1) /\ need >= 1 =>
        /\ (IF c = 0 THEN 0 ELSE c - 1) = c - 1
        /\ (IF c = 0 THEN 0 ELSE c - 1) # 0
        /\ c - 1 >= rest + need
OBVIOUS

(* distribute charges an active subscription with pulses outstanding for   *)
(* the next of them: by the pulse itself, after which the next one is a    *)
(* whole period away, or by one of the idle credits set aside for it.      *)
LEMMA VisitKeepsPromise ==
    ASSUME IInv, PInv, Follow, NEW id \in SubIds, Distribute(id)
    PROVE  Promised(id)'
<1> DEFINE sub == Subscriptions[id]
           new == Subscriptions'[id]
           n   == quoted[id] - received[id]
           left == IF sub.credits_left = 0 THEN 0 ELSE sub.credits_left - 1
<1>1. /\ phase = "execute" /\ id \in todo /\ todo' = todo \ {id}
      /\ UNCHANGED <<DidUpdate, phase>>
  BY SMTT(60) DEF Distribute, DeliverPulse, PauseUnpaid, PauseUnsent, IdlePulse, Distributing
<1>2. /\ id \in DOMAIN Subscriptions /\ sub \in Subscription /\ received[id] \in Nat
      /\ received \in [SubIds -> Nat]
  BY <1>1 DEF IInv, TypeOK
<1>3. Unvisited(id) /\ ~Unvisited(id)'
  BY ZenonT(60), <1>1 DEF IInv, DeliveredThisBlock, Unvisited
<1>4. /\ sub.credits_left \in Nat /\ sub.frequency \in Frequencies /\ sub.frequency \in Nat
      /\ sub.age \in {Never} \cup Frequencies /\ quoted[id] \in Nat
  BY <1>2, SubscriptionFields, FrequencyIsNumber DEF PInv
<1>5. /\ quoted'[id] \in {0, quoted[id]} /\ quoted'[id] \in Nat
      /\ Disturbed(id) => quoted'[id] = 0
  BY <1>2, FollowsStored DEF InStorage
<1>6. ASSUME NEW x, Insert(id, x)
      PROVE  new = x /\ InStorage(id) /\ InStorage(id)'
  BY <1>2, <1>6 DEF Insert, InStorage
<1>7. ASSUME quoted[id] > received[id]
      PROVE  /\ n \in Nat /\ n > 0 /\ sub.state = "Active"
             /\ sub.credits_left >=
                  (n - 1) * (sub.frequency + 1) + Needed(sub.age, sub.frequency, TRUE)
  <2>1. Unvisited(id) = TRUE
    BY <1>3 DEF Unvisited
  <2>2. Needed(sub.age, sub.frequency, Unvisited(id)) =
          Needed(sub.age, sub.frequency, TRUE)
    BY <2>1, Zenon
  <2>3. /\ sub.state = "Active"
        /\ sub.credits_left >=
             (n - 1) * (sub.frequency + 1)
               + Needed(sub.age, sub.frequency, Unvisited(id))
    BY ZenonT(60), <1>2, <1>7 DEF PInv, Promised
  <2>4. n \in Nat /\ n > 0
    BY <1>2, <1>4, <1>7
  <2> QED BY ZenonT(60), <2>2, <2>3, <2>4
<1>8. Unvisited(id)' = FALSE
  BY <1>3 DEF Unvisited
<1>9. CASE DeliverPulse(id)
  <2>1. new = Delivered(sub) /\ received'[id] = received[id] + 1 /\ Eligible(sub)
    BY ZenonT(60), <1>2, <1>6, <1>9 DEF DeliverPulse, Delivered
  <2>2. /\ new.frequency = sub.frequency /\ new.age = 0
        /\ new.credits_left = left
        /\ new.state = IF left = 0 THEN "Finalized" ELSE sub.state
    <3>1. new.frequency = sub.frequency
      BY ZenonT(60), <1>2, <2>1, DistributedMetadata
    <3> QED BY <1>2, <2>1, <3>1, DistributedFields
  <2>3. Needed(sub.age, sub.frequency, TRUE) = 1
    BY <2>1 DEF Needed, Eligible
  <2>4. ASSUME quoted'[id] > received'[id]
        PROVE  /\ new.state = "Active"
               /\ new.credits_left >=
                    ((quoted'[id] - received'[id]) - 1) * (sub.frequency + 1)
                      + Needed(0, sub.frequency, FALSE)
    <3>1. /\ quoted'[id] = quoted[id] /\ quoted[id] > received[id]
          /\ quoted'[id] - received'[id] = n - 1 /\ n - 1 > 0 /\ n - 1 \in Nat
      <4> DEFINE q == quoted[id]
                 r == received[id]
      <4>1. /\ r \in Nat /\ q \in Nat /\ quoted'[id] \in Nat
            /\ quoted'[id] = 0 \/ quoted'[id] = q
            /\ quoted'[id] > r + 1
        BY ZenonT(60), <1>2, <1>4, <1>5, <2>1, <2>4
      <4> HIDE DEF q, r
      <4>2. /\ quoted'[id] = q /\ q > r
            /\ quoted'[id] - (r + 1) = (q - r) - 1
            /\ (q - r) - 1 > 0 /\ (q - r) - 1 \in Nat
        BY ZenonT(60), <4>1, OneMoreSent
      <4> QED BY ZenonT(60), <2>1, <4>2 DEF q, r
    <3> DEFINE k == n - 1
    <3>2. /\ k * (sub.frequency + 1) = (k - 1) * (sub.frequency + 1) + (sub.frequency + 1)
          /\ (k - 1) * (sub.frequency + 1) \in Nat
      BY <1>4, <3>1, OnePulseLess
    <3>3. sub.credits_left >= k * (sub.frequency + 1) + 1 /\ sub.state = "Active"
      BY ZenonT(60), <1>7, <2>3, <3>1
    <3>4. Needed(0, sub.frequency, FALSE) <= sub.frequency + 1
          /\ Needed(0, sub.frequency, FALSE) \in Nat
      <4>1. 0 \in {Never} \cup Frequencies
        BY ConstantTypes DEF Frequencies
      <4> QED BY ZenonT(60), <1>4, <4>1, NeededMoves
    <3> DEFINE rest == (k - 1) * (sub.frequency + 1)
               whole == k * (sub.frequency + 1)
               need == Needed(0, sub.frequency, FALSE)
    <3>5. /\ whole = rest + (sub.frequency + 1) /\ rest \in Nat
          /\ sub.credits_left >= whole + 1
          /\ need <= sub.frequency + 1 /\ need \in Nat
      BY ZenonT(60), <3>2, <3>3, <3>4
    <3> HIDE DEF n, k, rest, whole, need
    <3>6. left = sub.credits_left - 1 /\ left # 0 /\ sub.credits_left - 1 >= rest + need
      BY <1>4, <3>5
    <3> QED BY ZenonT(60), <2>2, <3>1, <3>3, <3>6 DEF rest, need, k
  <2> QED BY ZenonT(60), <1>8, <2>2, <2>4 DEF Promised
<1>10. CASE PauseUnpaid(id) \/ PauseUnsent(id)
  <2>1. new.state = "Paused" /\ sub.state = "Active" /\ InStorage(id) /\ InStorage(id)'
    <3>1. CASE PauseUnpaid(id)
      <4>1. Insert(id, [sub EXCEPT !.state = "Paused"]) /\ sub.state = "Active"
        BY <3>1 DEF PauseUnpaid, Eligible
      <4>2. [sub EXCEPT !.state = "Paused"].state = "Paused"
        BY ZenonT(60), <1>2 DEF Subscription
      <4> QED BY ZenonT(60), <1>6, <4>1, <4>2
    <3>2. CASE PauseUnsent(id)
      <4>1. Insert(id, Unsent(sub)) /\ sub.state = "Active"
        BY <3>2 DEF PauseUnsent, Eligible, Unsent
      <4> QED BY <1>2, <1>6, <4>1, DistributedFields
    <3> QED BY <1>10, <3>1, <3>2
  <2>2. received'[id] = received[id]
    BY <1>10 DEF PauseUnpaid, PauseUnsent
  <2>3. quoted'[id] = 0
    BY ZenonT(60), <1>5, <2>1 DEF Disturbed
  <2> QED BY <1>2, <2>2, <2>3 DEF Promised
<1>11. CASE IdlePulse(id)
  <2>1. new = Idled(sub) /\ received'[id] = received[id] /\ ~Eligible(sub)
    BY ZenonT(60), <1>2, <1>6, <1>11 DEF IdlePulse, Idled
  <2>2. /\ new.frequency = sub.frequency /\ new.age = sub.age
        /\ new.credits_left = left
        /\ new.state = IF left = 0 THEN "Finalized" ELSE sub.state
    <3>1. new.frequency = sub.frequency
      BY ZenonT(60), <1>2, <2>1, DistributedMetadata
    <3> QED BY <1>2, <2>1, <3>1, DistributedFields
  <2>3. ASSUME quoted'[id] > received'[id]
        PROVE  /\ new.state = "Active"
               /\ new.credits_left >=
                    ((quoted'[id] - received'[id]) - 1) * (sub.frequency + 1)
                      + Needed(sub.age, sub.frequency, FALSE)
    <3>1. quoted'[id] = quoted[id] /\ quoted[id] > received[id]
      BY <1>2, <1>4, <1>5, <2>1, <2>3
    <3>2. /\ n \in Nat /\ n > 0 /\ sub.state = "Active"
          /\ sub.credits_left >=
               (n - 1) * (sub.frequency + 1) + Needed(sub.age, sub.frequency, TRUE)
          /\ quoted'[id] - received'[id] = n
      BY ZenonT(60), <1>7, <2>1, <3>1
    <3>3. sub.age # Never /\ sub.age < sub.frequency
      BY <1>4, <2>1, <3>2, ConstantTypes DEF Eligible, Frequencies, Never
    <3>4. /\ Needed(sub.age, sub.frequency, TRUE) = Needed(sub.age, sub.frequency, FALSE) + 1
          /\ Needed(sub.age, sub.frequency, FALSE) \in Nat
          /\ Needed(sub.age, sub.frequency, FALSE) >= 1
      BY ZenonT(60), <1>4, <3>3, NeededMoves
    <3>5. (n - 1) * (sub.frequency + 1) \in Nat
      BY <1>4, <3>2, OnePulseLess
    <3> DEFINE rest == (n - 1) * (sub.frequency + 1)
               need == Needed(sub.age, sub.frequency, FALSE)
    <3>6. /\ sub.credits_left >= rest + (need + 1)
          /\ rest \in Nat /\ need \in Nat /\ need >= 1
      BY ZenonT(60), <3>2, <3>4, <3>5
    <3> HIDE DEF n, rest, need
    <3>7. left = sub.credits_left - 1 /\ left # 0 /\ sub.credits_left - 1 >= rest + need
      BY ZenonT(60), <1>4, <3>6, OneCreditUsed
    <3> QED BY ZenonT(60), <2>2, <3>2, <3>7 DEF rest, need
  <2> QED BY ZenonT(60), <1>8, <2>2, <2>3 DEF Promised
<1> QED BY <1>9, <1>10, <1>11 DEF Distribute

(* A new block brings the next pulse nearer. *)
LEMMA NextBlockKeepsPromises ==
    ASSUME IInv, PInv, Follow, NextBlock, NEW id \in DOMAIN Subscriptions
    PROVE  Promised(id)'
<1> DEFINE sub == Subscriptions[id]
           new == Subscriptions'[id]
           n   == quoted[id] - received[id]
<1>1. /\ id \in SubIds /\ sub \in Subscription /\ received[id] \in Nat
      /\ received' = received /\ DOMAIN Subscriptions' = DOMAIN Subscriptions
  BY DEF IInv, TypeOK, NextBlock
<1>2. new = [sub EXCEPT !.age = Older(sub.age)]
  BY DEF NextBlock
<1>3. /\ new.state = sub.state /\ new.credits_left = sub.credits_left
      /\ new.frequency = sub.frequency /\ new.age = Older(sub.age)
  BY ZenonT(60), <1>1, <1>2 DEF Subscription
<1>4. /\ sub.credits_left \in Nat /\ sub.frequency \in Frequencies /\ sub.frequency \in Nat
      /\ sub.age \in {Never} \cup Frequencies /\ quoted[id] \in Nat
  BY <1>1, ConstantTypes DEF Subscription, Frequencies, PInv
<1>5. quoted'[id] \in {0, quoted[id]} /\ quoted'[id] \in Nat
  BY <1>1, FollowsStored DEF InStorage
<1>6. Unvisited(id) = FALSE /\ Unvisited(id)' = TRUE
  BY DEF NextBlock, Unvisited
<1>7. ASSUME quoted'[id] > received'[id]
      PROVE  /\ new.state = "Active"
             /\ new.credits_left >=
                  ((quoted'[id] - received'[id]) - 1) * (new.frequency + 1)
                    + Needed(new.age, new.frequency, TRUE)
  <2>1. /\ quoted'[id] = quoted[id] /\ quoted[id] > received[id]
        /\ quoted'[id] - received'[id] = n /\ n \in Nat /\ n > 0
    BY <1>1, <1>4, <1>5, <1>7
  <2>2. Needed(sub.age, sub.frequency, Unvisited(id)) =
          Needed(sub.age, sub.frequency, FALSE)
    BY <1>6, Zenon
  <2>3. /\ sub.state = "Active"
        /\ sub.credits_left >=
             (n - 1) * (sub.frequency + 1)
               + Needed(sub.age, sub.frequency, Unvisited(id))
    BY <2>1 DEF PInv, Promised
  <2> DEFINE rest  == (n - 1) * (sub.frequency + 1)
             need  == Needed(sub.age, sub.frequency, FALSE)
             later == Needed(Older(sub.age), sub.frequency, TRUE)
  <2>4. later <= need /\ need \in Nat
    BY ZenonT(60), <1>4, NeededMoves
  <2>5. later \in Nat
    <3>1. Older(sub.age) \in {Never} \cup Frequencies
      BY <1>4, ConstantTypes DEF Older, Frequencies, Never, Lesser
    <3> QED BY ZenonT(60), <1>4, <3>1, NeededMoves
  <2>6. sub.credits_left >= rest + need /\ rest \in Nat
    BY ZenonT(60), <1>4, <2>1, <2>2, <2>3, OnePulseLess
  <2> HIDE DEF n, rest, need, later
  <2>7. sub.credits_left >= rest + later
    BY <1>4, <2>4, <2>5, <2>6
  <2> QED BY ZenonT(60), <1>3, <2>1, <2>3, <2>7 DEF rest, later
<1> QED BY ZenonT(60), <1>6, <1>7 DEF Promised

(* Every step keeps the promises made and keeps to those it makes. *)
LEMMA StepKeepsPromises ==
    ASSUME U64Max \notin CreditChoices, IInv, PInv, Next, Follow
    PROVE  PInv'
<1>1. IInv'
  BY StepPreserves
<1>2. TypeOK /\ TypeOK'
  BY <1>1 DEF IInv
<1>3. quoted' \in [SubIds -> Nat] <=> \A id \in SubIds : quoted'[id] \in Nat
  BY ZenonT(60) DEF Follow
<1>4. ASSUME NEW id \in DOMAIN Subscriptions, id \in DOMAIN Subscriptions',
             Subscriptions'[id] = Subscriptions[id], received'[id] = received[id],
             Unvisited(id)' => Unvisited(id)
      PROVE  Promised(id)'
  BY ZenonT(60), <1>1, <1>4, PromiseStays
<1>5. ASSUME NEW id \in SubIds, NEW x, Insert(id, x), Promised(id)',
             received' = [received EXCEPT ![id] = received'[id]],
             phase' = phase, DidUpdate' = DidUpdate, todo' \subseteq todo
      PROVE  \A y \in DOMAIN Subscriptions' : Promised(y)'
  <2> SUFFICES ASSUME NEW y \in DOMAIN Subscriptions', y # id
               PROVE  Promised(y)'
    BY ZenonT(60), <1>5
  <2>1. /\ y \in DOMAIN Subscriptions /\ Subscriptions'[y] = Subscriptions[y]
        /\ received'[y] = received[y]
    BY <1>2, <1>5 DEF Insert, TypeOK
  <2>2. Unvisited(y)' => Unvisited(y)
    BY ZenonT(60), <1>5 DEF Unvisited
  <2> QED BY <1>4, <2>1, <2>2
<1>6. ASSUME NEW id \in SubIds, Remove(id),
             phase' = phase, DidUpdate' = DidUpdate, todo' \subseteq todo
      PROVE  \A y \in DOMAIN Subscriptions' : Promised(y)'
  <2> SUFFICES ASSUME NEW y \in DOMAIN Subscriptions'
               PROVE  Promised(y)'
    OBVIOUS
  <2>1. /\ y \in DOMAIN Subscriptions /\ Subscriptions'[y] = Subscriptions[y]
        /\ received'[y] = received[y]
    BY <1>2, <1>6 DEF Remove, TypeOK
  <2>2. Unvisited(y)' => Unvisited(y)
    BY <1>6 DEF Unvisited
  <2> QED BY <1>4, <2>1, <2>2

<1>7. ASSUME NEW id \in SubIds PROVE quoted'[id] \in Nat
  <2>1. CASE InStorage(id)
    BY ZenonT(60), <2>1, FollowsStored
  <2>2. CASE ~InStorage(id) /\ InStorage(id)'
    <3>1. quoted'[id] = PulsesQuoted(Subscriptions'[id].credits,
                                     Subscriptions'[id].frequency)
      BY ZenonT(60), <2>2 DEF Follow, Created
    <3>2. Subscriptions'[id].credits \in 0..U64Max /\ Subscriptions'[id].frequency \in Nat
      <4>1. Subscriptions'[id] \in Subscription
        BY ZenonT(60), <1>2, <2>2 DEF InStorage, TypeOK
      <4> QED BY <4>1, FrequencyIsNumber, SubscriptionFields
    <3> QED BY ZenonT(60), <3>1, <3>2, QuotePays
  <2>3. CASE ~InStorage(id) /\ ~InStorage(id)'
    BY ZenonT(60), <2>3 DEF Follow, Created, Disturbed, PInv
  <2> QED BY ZenonT(60), <2>1, <2>2, <2>3
<1> DEFINE Goal == \A y \in DOMAIN Subscriptions' : Promised(y)'
<1>8. ASSUME NEW a \in Accounts, NEW id \in SubIds, Call(a, id)
      PROVE  Goal
  <2>1. ASSUME NEW c \in CreditChoices, NEW f \in FrequencyChoices,
               NEW m \in MetadataSizes, create_subscription(a, id, c, f, m)
        PROVE  Goal
    <3>1. /\ Insert(id, NewSubscription(a, c, f, m)) /\ received' = received
          /\ phase' = phase /\ DidUpdate' = DidUpdate /\ todo' = todo
      BY <2>1 DEF create_subscription
    <3>2. Promised(id)'
      BY ZenonT(60), <2>1, PromiseIsMade
    <3>3. received' = [received EXCEPT ![id] = received'[id]]
      BY <1>2, <3>1 DEF TypeOK
    <3> QED BY ZenonT(60), <1>5, <3>1, <3>2, <3>3
  <2>2. ASSUME pause_subscription(a, id) \/ reactivate_subscription(a, id)
        PROVE  Goal
    <3> DEFINE sub == Subscriptions[id]
    <3>1. PICK state \in {"Active", "Paused"} :
            /\ Insert(id, [sub EXCEPT !.state = state]) /\ received' = received
            /\ phase' = phase /\ DidUpdate' = DidUpdate /\ todo' = todo
            /\ InStorage(id)
            /\ IF state = "Paused" THEN sub.state = "Active" ELSE sub.state = "Paused"
      BY <2>2 DEF pause_subscription, reactivate_subscription, CallBy, SetState
    <3>2. sub \in Subscription /\ received[id] \in Nat
      BY <1>2, <3>1 DEF InStorage, TypeOK
    <3>3. Subscriptions'[id].state = state /\ InStorage(id)'
      BY <3>1, <3>2 DEF Insert, InStorage, Subscription
    <3>4. quoted'[id] <= received'[id]
      <4>1. CASE state = "Paused"
        <5>1. Disturbed(id)
          BY ZenonT(60), <3>1, <3>3, <4>1 DEF Disturbed
        <5> QED BY <3>1, <3>2, <5>1, FollowsStored
      <4>2. CASE state # "Paused"
        <5>1. sub.state # "Active"
          BY <3>1, <4>2
        <5>2. quoted[id] \in Nat /\ ~(quoted[id] > received[id])
          BY <3>1, <5>1 DEF PInv, Promised, InStorage
        <5>3. quoted'[id] \in {0, quoted[id]}
          BY ZenonT(60), <3>1, FollowsStored
        <5> QED BY <3>1, <3>2, <5>2, <5>3
      <4> QED BY <4>1, <4>2
    <3>5. Promised(id)'
      <4>1. ~(quoted'[id] > received'[id])
        BY <1>7, <3>1, <3>2, <3>4
      <4> QED BY <4>1 DEF Promised
    <3>6. received' = [received EXCEPT ![id] = received'[id]]
      BY <1>2, <3>1 DEF TypeOK
    <3> QED BY ZenonT(60), <1>5, <3>1, <3>5, <3>6
  <2>3. CASE kill_subscription(a, id)
    <3>1. Remove(id) /\ phase' = phase /\ DidUpdate' = DidUpdate /\ todo' = todo
      BY <2>3 DEF kill_subscription
    <3> QED BY <1>6, <3>1
  <2>4. ASSUME NEW c \in CreditChoices, NEW f \in FrequencyChoices,
               NEW m \in MetadataSizes, update_subscription(a, id, c, f, m)
        PROVE  Goal
    <3> DEFINE old == Subscriptions[id]
               sub == [old EXCEPT !.credits = c, !.frequency = f, !.metadata = m]
    <3>1. /\ Insert(id, sub) /\ received' = received
          /\ phase' = phase /\ DidUpdate' = DidUpdate /\ todo' = todo
          /\ InStorage(id)
      BY <2>4 DEF update_subscription, CallBy
    <3>2. old \in Subscription /\ received[id] \in Nat
      BY <1>2, <3>1 DEF InStorage, TypeOK
    <3>3. /\ sub.credits = c /\ sub.frequency = f
          /\ sub.state = old.state /\ sub.credits_left = old.credits_left
          /\ sub.age = old.age
      BY <3>2 DEF Subscription
    <3>4. Subscriptions'[id] = sub /\ InStorage(id)'
      BY <3>1 DEF Insert, InStorage
    <3> HIDE DEF sub
    <3>5. Promised(id)'
      <4>1. CASE c # old.credits \/ f # old.frequency
        <5>1. Disturbed(id)
          BY ZenonT(60), <3>1, <3>3, <3>4, <4>1 DEF Disturbed
        <5>2. quoted'[id] = 0 /\ received'[id] \in Nat
          BY ZenonT(60), <3>1, <3>2, <5>1, FollowsStored
        <5>3. ~(quoted'[id] > received'[id])
          BY <5>2
        <5> QED BY ZenonT(60), <5>3 DEF Promised
      <4>2. CASE c = old.credits /\ f = old.frequency
        <5>1. Unvisited(id)' => Unvisited(id)
          BY <3>1 DEF Unvisited
        <5> QED BY ZenonT(60), <1>1, <3>1, <3>3, <3>4, <4>2, <5>1, PromiseStays DEF InStorage
      <4> QED BY <4>1, <4>2
    <3>6. received' = [received EXCEPT ![id] = received'[id]]
      BY ZenonT(60), <1>2, <3>1 DEF TypeOK
    <3> QED BY ZenonT(60), <1>5, <3>1, <3>5, <3>6
  <2> HIDE DEF Goal
  <2> QED BY ZenonT(60), <1>8, <2>1, <2>2, <2>3, <2>4 DEF Call
<1>9. ASSUME dispatch \/ on_finalize
      PROVE  Goal
  <2> SUFFICES ASSUME NEW y \in DOMAIN Subscriptions'
               PROVE  Promised(y)'
    OBVIOUS
  <2>1. UNCHANGED <<Subscriptions, received>>
    BY <1>9 DEF dispatch, on_finalize
  <2>2. Unvisited(y)' => Unvisited(y)
    BY <1>9 DEF dispatch, on_finalize, Unvisited, Executing
  <2> QED BY <1>4, <2>1, <2>2
<1>10. ASSUME NEW id \in SubIds, Distribute(id)
       PROVE  Goal
  <2>1. /\ phase' = phase /\ DidUpdate' = DidUpdate /\ todo' = todo \ {id}
        /\ received' = [received EXCEPT ![id] = received'[id]]
    BY <1>2, <1>10 DEF Distribute, DeliverPulse, PauseUnpaid, PauseUnsent, IdlePulse,
       Distributing, TypeOK
  <2>2. \E x : Insert(id, x)
    BY <1>10, Zenon DEF Distribute, DeliverPulse, PauseUnpaid, PauseUnsent, IdlePulse
  <2>3. Promised(id)'
    BY <1>10, VisitKeepsPromise
  <2> QED BY ZenonT(60), <1>5, <2>1, <2>2, <2>3
<1>11. ASSUME NEW id \in SubIds, TerminateFinalized(id)
       PROVE  Goal
  <2>1. /\ phase' = phase /\ DidUpdate' = DidUpdate /\ todo' = todo \ {id}
        /\ Remove(id) \/ UNCHANGED <<Subscriptions, received>>
    BY <1>11 DEF TerminateFinalized
  <2>2. CASE Remove(id)
    BY ZenonT(60), <1>6, <2>1, <2>2
  <2>3. CASE UNCHANGED <<Subscriptions, received>>
    <3> SUFFICES ASSUME NEW y \in DOMAIN Subscriptions'
                 PROVE  Promised(y)'
      OBVIOUS
    <3>1. Unvisited(y)' => Unvisited(y)
      BY <2>1 DEF Unvisited
    <3> QED BY <1>4, <2>3, <3>1
  <2> QED BY ZenonT(60), <2>1, <2>2, <2>3
<1>12. ASSUME NextBlock
       PROVE  Goal
  <2>1. DOMAIN Subscriptions' = DOMAIN Subscriptions
    BY <1>12 DEF NextBlock
  <2> QED BY <1>12, <2>1, NextBlockKeepsPromises
<1>13. Goal
  <2> HIDE DEF Goal
  <2> QED BY ZenonT(60), <1>8, <1>9, <1>10, <1>11, <1>12 DEF Next, BlockStep
<1> QED BY <1>3, <1>7, <1>13 DEF PInv

(* A subscription bought with the credits of a quote and left alone is not *)
(* finalized before it was sent the pulses of the quote, whatever blocks   *)
(* the pulses come in.  The hypothesis excludes the one amount of credits  *)
(* at which calculate_credits saturates, u64::MAX: its quote is not what   *)
(* the pulses really cost.                                                 *)
THEOREM QuotesAreKept ==
    ASSUME U64Max \notin CreditChoices
    PROVE  QuotedSpec => []QuoteKept
<1>1. QuotedInit => IInv /\ PInv
  <2> SUFFICES ASSUME QuotedInit
               PROVE  IInv /\ PInv
    OBVIOUS
  <2>1. IInv
    BY InitEstablishes DEF QuotedInit
  <2>2. DOMAIN Subscriptions = {} /\ quoted \in [SubIds -> Nat]
    BY DEF QuotedInit, Init
  <2> QED BY <2>1, <2>2 DEF PInv
<1>2. IInv /\ PInv /\ [QuotedNext]_quotedVars => IInv' /\ PInv'
  <2> SUFFICES ASSUME IInv, PInv, [QuotedNext]_quotedVars
               PROVE  IInv' /\ PInv'
    OBVIOUS
  <2>1. CASE QuotedNext
    BY <2>1, StepPreserves, StepKeepsPromises DEF QuotedNext
  <2>2. CASE UNCHANGED quotedVars
    <3>1. UNCHANGED vars
      BY <2>2 DEF quotedVars
    <3>2. UNCHANGED <<Subscriptions, quoted, received, phase, DidUpdate, todo>>
      BY ZenonT(60), <2>2 DEF quotedVars, vars
    <3>3. PInv'
      BY <3>2 DEF PInv, Promised, Unvisited
    <3> QED BY ZenonT(60), <3>1, <3>3, StepPreserves
  <2> QED BY <2>1, <2>2
<1>3. IInv /\ PInv => QuoteKept
  <2> SUFFICES ASSUME IInv, PInv, NEW id \in FinalizedIds
               PROVE  received[id] >= quoted[id]
    BY DEF QuoteKept
  <2>1. id \in DOMAIN Subscriptions /\ id \in SubIds /\ Subscriptions[id].state # "Active"
    BY ZenonT(60) DEF FinalizedIds, IInv, TypeOK
  <2>2. ~(quoted[id] > received[id])
    BY <2>1 DEF PInv, Promised
  <2>3. quoted[id] \in Nat /\ received[id] \in Nat
    BY ZenonT(60), <2>1 DEF PInv, IInv, TypeOK
  <2> QED BY <2>2, <2>3
<1> QED
  BY <1>1, <1>2, <1>3, PTL DEF QuotedSpec

-----------------------------------------------------------------------------
(* The pallet of a consumer chain.                                         *)

(* What the fields of a request hold, by the call it makes. *)
LEMMA RequestFields ==
    ASSUME NEW m \in Request
    PROVE  /\ m.user \in Accounts
           /\ m.call = "quote" => m.req \in QuoteRequest
           /\ m.call = "info" => m.req \in SubInfoRequest
           /\ m.call \notin {"quote", "info"} => m.id \in SubIds
           /\ m.call = "create" => /\ m.credits \in CreditChoices
                                   /\ m.frequency \in FrequencyChoices
                                   /\ m.metadata \in MetadataSizes
           /\ m.call = "update" => m.new \in UpdateChoices
           /\ m.call \in {"quote", "info", "create", "update",
                          "pause", "reactivate", "kill"}
BY ZenonT(60) DEF Request

(* The questions that are under way were asked, and rounds count from 1. *)
QuestionsWereAsked ==
    \A i \in DOMAIN requests :
      requests[i].call \in {"quote", "info"} => requests[i].req \in asked

PalletInv ==
    /\ IInv
    /\ PalletTypeOK
    /\ QuestionsWereAsked
    /\ AnswersWereAsked
    /\ DidUpdate => round # 0

(* Every message the dispatchables send is a request. *)
LEMMA SentAreRequests ==
    ASSUME PalletTypeOK, NEW user \in Accounts
    PROVE  /\ \A c \in CreditChoices, f \in FrequencyChoices, m \in MetadataSizes :
                \A sub_id \in GivenIds \union {None} :
                  [call |-> "create", user |-> user,
                   id |-> IF sub_id # None THEN sub_id ELSE <<c, f, m, block_number>>,
                   credits |-> c, frequency |-> f, metadata |-> m] \in Request
           /\ \A id \in SubIds, new \in UpdateChoices :
                [call |-> "update", user |-> user, id |-> id, new |-> new] \in Request
           /\ \A id \in SubIds, call \in {"pause", "reactivate", "kill"} :
                [call |-> call, user |-> user, id |-> id] \in Request
           /\ \A req \in QuoteRequest :
                [call |-> "quote", user |-> user, req |-> req] \in Request
           /\ \A req \in SubInfoRequest :
                [call |-> "info", user |-> user, req |-> req] \in Request
<1>1. ASSUME NEW c \in CreditChoices, NEW f \in FrequencyChoices, NEW m \in MetadataSizes,
             NEW sub_id \in GivenIds \union {None}
      PROVE  (IF sub_id # None THEN sub_id ELSE <<c, f, m, block_number>>) \in SubIds
  <2>1. <<c, f, m, block_number>> \in SubIds
    BY PalletAssumption DEF PalletTypeOK, GeneratedIds
  <2> QED BY <2>1, PalletAssumption
<1> QED BY ZenonT(60), <1>1 DEF Request

(* A question is typed by the reference that the pallet generates for it,  *)
(* or by the one it is given.                                              *)
LEMMA QuestionsAreTyped ==
    ASSUME PalletTypeOK
    PROVE  /\ \A n \in PulseCounts, f \in FrequencyChoices, m \in MetadataSizes :
                \A req_ref \in GivenQuoteRefs \union {None} :
                  [req_ref |-> IF req_ref # None THEN req_ref ELSE <<f, m, block_number>>,
                   lifetime_pulses |-> n, frequency |-> f, metadata |-> m] \in QuoteRequest
           /\ \A id \in SubIds : \A req_ref \in GivenInfoRefs \union {None} :
                [req_ref |-> IF req_ref # None THEN req_ref ELSE <<id, block_number>>,
                 id |-> id] \in SubInfoRequest
<1>1. ASSUME NEW f \in FrequencyChoices, NEW m \in MetadataSizes,
             NEW req_ref \in GivenQuoteRefs \union {None}
      PROVE  (IF req_ref # None THEN req_ref ELSE <<f, m, block_number>>) \in QuoteRef
  BY PalletAssumption DEF PalletTypeOK, QuoteRef
<1>2. ASSUME NEW id \in SubIds, NEW req_ref \in GivenInfoRefs \union {None}
      PROVE  (IF req_ref # None THEN req_ref ELSE <<id, block_number>>) \in InfoRef
  BY PalletAssumption DEF PalletTypeOK, InfoRef
<1> QED BY <1>1, <1>2 DEF QuoteRequest, SubInfoRequest

(* What a queue holds after its first message is taken. *)
LEMMA QueueShrinks ==
    ASSUME NEW S, NEW s \in Seq(S), s # <<>>
    PROVE  /\ Head(s) = s[1] /\ 1 \in DOMAIN s /\ Head(s) \in S
           /\ Tail(s) \in Seq(S) /\ Len(Tail(s)) = Len(s) - 1
           /\ \A i \in DOMAIN Tail(s) : i + 1 \in DOMAIN s /\ Tail(s)[i] = s[i + 1]
OBVIOUS

(* What a queue holds after a message is put last. *)
LEMMA QueueGrows ==
    ASSUME NEW S, NEW s \in Seq(S), NEW e \in S
    PROVE  /\ Append(s, e) \in Seq(S) /\ Len(Append(s, e)) = Len(s) + 1
           /\ \A i \in DOMAIN Append(s, e) :
                \/ i \in DOMAIN s /\ Append(s, e)[i] = s[i]
                \/ Append(s, e)[i] = e
<1>1. Append(s, e) \in Seq(S) /\ Len(Append(s, e)) = Len(s) + 1
  OBVIOUS
<1>2. ASSUME NEW i \in DOMAIN Append(s, e)
      PROVE  \/ i \in DOMAIN s /\ Append(s, e)[i] = s[i]
             \/ Append(s, e)[i] = e
  OBVIOUS
<1> QED BY <1>1, <1>2

(* Append lengthens a sequence, whatever is appended. *)
LEMMA AppendLengthens ==
    ASSUME NEW S, NEW s \in Seq(S), NEW e
    PROVE  Len(Append(s, e)) = Len(s) + 1
<1>1. s \in [1..Len(s) -> S] /\ Len(s) \in Nat
  OBVIOUS
<1>2. s \in [1..Len(s) -> S \union {e}]
  BY <1>1
<1>3. s \in Seq(S \union {e})
  BY <1>1, <1>2
<1> QED BY <1>3

(* AnswersWereAsked for one answer. *)
AskedFor(a, questions) ==
    /\ a.kind = "info" => [req_ref |-> a.req_ref, id |-> a.id] \in questions
    /\ a.kind = "quote" =>
         \E q \in questions \intersect QuoteRequest, user \in Accounts :
           LET c == calculate_credits(q.frequency, q.lifetime_pulses)
           IN  /\ q.req_ref = a.req_ref
               /\ a.fees = calculate_subscription_fees(c)
               /\ a.deposit = calculate_storage_deposit(
                    NewSubscription(user, c, q.frequency, q.metadata))

(* Later questions do not take back that an answer was asked for. *)
LEMMA MoreAreAsked ==
    ASSUME NEW a, NEW Q, NEW R, Q \subseteq R, AskedFor(a, Q)
    PROVE  AskedFor(a, R)
BY Zenon DEF AskedFor

(* AnswersWereAsked, answer by answer. *)
LEMMA AnswersAre ==
    AnswersWereAsked <=> \A i \in DOMAIN answers : AskedFor(answers[i], asked)
BY Zenon DEF AnswersWereAsked, AskedFor

(* The same after the step. *)
LEMMA AnswersWillBe ==
    AnswersWereAsked' <=> \A i \in DOMAIN answers' : AskedFor(answers'[i], asked')
BY Zenon DEF AnswersWereAsked, AskedFor

Message == PulseMessage \union QuoteMessage \union InfoMessage

(* A dispatchable sends its request, and asks what it asks. *)
LEMMA SendKeepsPallet ==
    ASSUME PalletInv, NEW request \in Request, xcm_send(request),
           asked \subseteq asked', asked' \subseteq QuoteRequest \union SubInfoRequest,
           request.call \in {"quote", "info"} => request.req \in asked'
    PROVE  PalletInv'
<1>1. /\ PalletTypeOK /\ requests \in Seq(Request) /\ Len(requests) < RequestLimit
      /\ requests' = Append(requests, request)
      /\ UNCHANGED <<vars, block_number, answers, round>>
  BY DEF PalletInv, PalletTypeOK, xcm_send
<1>2. IInv' /\ DidUpdate' = DidUpdate
  <2>1. UNCHANGED vars
    BY <1>1
  <2>2. DidUpdate' = DidUpdate
    BY <1>1 DEF vars
  <2> QED BY <2>1, <2>2, StepPreserves DEF PalletInv
<1>3. requests' \in Seq(Request) /\ Len(requests') <= RequestLimit
  BY <1>1, PalletAssumption
<1>4. PalletTypeOK'
  BY ZenonT(60), <1>1, <1>2, <1>3 DEF PalletTypeOK, IInv
<1>5. QuestionsWereAsked'
  <2> SUFFICES ASSUME NEW i \in DOMAIN requests', requests'[i].call \in {"quote", "info"}
               PROVE  requests'[i].req \in asked'
    BY DEF QuestionsWereAsked
  <2>1. CASE i \in DOMAIN requests /\ requests'[i] = requests[i]
    BY <2>1 DEF PalletInv, QuestionsWereAsked
  <2>2. CASE requests'[i] = request
    BY <2>2
  <2>3. \/ i \in DOMAIN requests /\ requests'[i] = requests[i]
        \/ requests'[i] = request
    BY <1>1, QueueGrows
  <2> QED BY ZenonT(60), <2>1, <2>2, <2>3
<1>6. AnswersWereAsked'
  <2>1. \A i \in DOMAIN answers : AskedFor(answers[i], asked)
    BY AnswersAre DEF PalletInv
  <2>2. \A i \in DOMAIN answers : AskedFor(answers[i], asked')
    BY ZenonT(60), <2>1, MoreAreAsked
  <2> QED BY ZenonT(60), <1>1, <2>2, AnswersWillBe
<1> QED BY ZenonT(60), <1>1, <1>2, <1>4, <1>5, <1>6 DEF PalletInv

(* Every other step takes a message from a queue, or answers with one that *)
(* was asked for.                                                          *)
LEMMA QueuesKeepPallet ==
    ASSUME PalletInv, IInv', asked' = asked,
           block_number' \in Blocks, round' \in 0..LastRound, DidUpdate' => round' # 0,
           \/ requests' = requests
           \/ requests # <<>> /\ requests' = Tail(requests),
           \/ answers' = answers
           \/ answers # <<>> /\ answers' = Tail(answers)
           \/ \E m \in Message : /\ AskedFor(m, asked) /\ Len(answers) < AnswerLimit
                                 /\ answers' = Append(answers, m)
    PROVE  PalletInv'
<1>1. /\ PalletTypeOK /\ requests \in Seq(Request) /\ answers \in Seq(Message)
      /\ Len(requests) <= RequestLimit /\ Len(answers) <= AnswerLimit
  BY DEF PalletInv, PalletTypeOK, Message
<1>2. /\ requests' \in Seq(Request) /\ Len(requests') <= RequestLimit
      /\ QuestionsWereAsked'
  <2>1. CASE requests' = requests
    BY ZenonT(60), <1>1, <2>1 DEF PalletInv, QuestionsWereAsked
  <2>2. CASE requests # <<>> /\ requests' = Tail(requests)
    <3>1. /\ requests' \in Seq(Request) /\ Len(requests') = Len(requests) - 1
          /\ \A i \in DOMAIN requests' :
               i + 1 \in DOMAIN requests /\ requests'[i] = requests[i + 1]
      BY ZenonT(60), <1>1, <2>2, QueueShrinks
    <3>2. Len(requests') <= RequestLimit
      BY <1>1, <3>1, PalletAssumption
    <3> QED BY ZenonT(60), <3>1, <3>2 DEF PalletInv, QuestionsWereAsked
  <2> QED BY ZenonT(60), <2>1, <2>2
<1>3. \A i \in DOMAIN answers : AskedFor(answers[i], asked)
  BY AnswersAre DEF PalletInv
<1>4. /\ answers' \in Seq(Message) /\ Len(answers') <= AnswerLimit
      /\ \A i \in DOMAIN answers' : AskedFor(answers'[i], asked)
  <2>1. CASE answers' = answers
    BY ZenonT(60), <1>1, <1>3, <2>1
  <2>2. CASE answers # <<>> /\ answers' = Tail(answers)
    <3>1. /\ answers' \in Seq(Message) /\ Len(answers') = Len(answers) - 1
          /\ \A i \in DOMAIN answers' :
               i + 1 \in DOMAIN answers /\ answers'[i] = answers[i + 1]
      BY ZenonT(60), <1>1, <2>2, QueueShrinks
    <3>2. Len(answers') <= AnswerLimit
      BY <1>1, <3>1, PalletAssumption
    <3> QED BY ZenonT(60), <1>3, <3>1, <3>2
  <2>3. ASSUME NEW m \in Message, AskedFor(m, asked), Len(answers) < AnswerLimit,
               answers' = Append(answers, m)
        PROVE  /\ answers' \in Seq(Message) /\ Len(answers') <= AnswerLimit
               /\ \A i \in DOMAIN answers' : AskedFor(answers'[i], asked)
    <3>1. /\ answers' \in Seq(Message) /\ Len(answers') = Len(answers) + 1
          /\ \A i \in DOMAIN answers' :
               \/ i \in DOMAIN answers /\ answers'[i] = answers[i]
               \/ answers'[i] = m
      BY ZenonT(60), <1>1, <2>3, QueueGrows
    <3>2. Len(answers') <= AnswerLimit
      BY <1>1, <2>3, <3>1, PalletAssumption
    <3> QED BY ZenonT(60), <1>3, <2>3, <3>1, <3>2
  <2> QED BY ZenonT(60), <2>1, <2>2, <2>3
<1>5. AnswersWereAsked'
  BY ZenonT(60), <1>4, AnswersWillBe
<1>6. PalletTypeOK'
  BY ZenonT(60), <1>1, <1>2, <1>4 DEF PalletTypeOK, IInv, Message
<1> QED BY ZenonT(60), <1>2, <1>5, <1>6 DEF PalletInv

(* The dispatchables of the pallet. *)
LEMMA UserStepKeepsPallet ==
    ASSUME PalletInv, NEW user \in Accounts, UserStep(user)
    PROVE  PalletInv'
<1>1. PalletTypeOK /\ asked \subseteq QuoteRequest \union SubInfoRequest
  BY DEF PalletInv, PalletTypeOK
<1>2. ASSUME NEW request \in Request, xcm_send(request), UNCHANGED asked,
             request.call \notin {"quote", "info"}
      PROVE  PalletInv'
  BY <1>1, <1>2, SendKeepsPallet
<1>3. ASSUME NEW req \in QuoteRequest \union SubInfoRequest, NEW request \in Request,
             xcm_send(request), Ask(req), request.req = req
      PROVE  PalletInv'
  <2>1. asked' = asked \union {req}
    BY <1>3 DEF Ask
  <2>2. /\ asked \subseteq asked' /\ asked' \subseteq QuoteRequest \union SubInfoRequest
        /\ request.req \in asked'
    BY ZenonT(60), <1>1, <1>3, <2>1
  <2> QED BY <1>3, <2>2, SendKeepsPallet
<1>4. ASSUME NEW c \in CreditChoices, NEW f \in FrequencyChoices, NEW m \in MetadataSizes,
             NEW sub_id \in GivenIds \union {None},
             do_create_subscription(user, c, f, m, sub_id)
      PROVE  PalletInv'
  <2> DEFINE id == IF sub_id # None THEN sub_id ELSE <<c, f, m, block_number>>
             request == [call |-> "create", user |-> user, id |-> id,
                         credits |-> c, frequency |-> f, metadata |-> m]
  <2>1. xcm_send(request) /\ UNCHANGED asked
    BY ZenonT(60), <1>4 DEF do_create_subscription
  <2>2. request \in Request
    BY SMTT(60), <1>1, SentAreRequests
  <2>3. request.call = "create"
    BY ZenonT(60)
  <2> HIDE DEF request
  <2> QED BY ZenonT(60), <1>2, <2>1, <2>2, <2>3
<1>5. ASSUME NEW id \in SubIds, NEW new \in UpdateChoices,
             do_update_subscription(user, id, new)
      PROVE  PalletInv'
  <2> DEFINE request == [call |-> "update", user |-> user, id |-> id, new |-> new]
  <2>1. xcm_send(request) /\ UNCHANGED asked
    BY ZenonT(60), <1>5 DEF do_update_subscription
  <2>2. request \in Request
    BY ZenonT(60), <1>1, SentAreRequests
  <2>3. request.call = "update"
    BY ZenonT(60)
  <2> HIDE DEF request
  <2> QED BY ZenonT(60), <1>2, <2>1, <2>2, <2>3
<1>6. ASSUME NEW id \in SubIds,
             \/ do_pause_subscription(user, id)
             \/ do_reactivate_subscription(user, id)
             \/ do_kill_subscription(user, id)
      PROVE  PalletInv'
  <2>1. PICK call \in {"pause", "reactivate", "kill"} :
          xcm_send([call |-> call, user |-> user, id |-> id]) /\ UNCHANGED asked
    BY ZenonT(60), <1>6 DEF do_pause_subscription, do_reactivate_subscription, do_kill_subscription
  <2>2. [call |-> call, user |-> user, id |-> id] \in Request
    BY ZenonT(60), <1>1, SentAreRequests
  <2>3. [call |-> call, user |-> user, id |-> id].call \notin {"quote", "info"}
    OBVIOUS
  <2> QED BY <1>2, <2>1, <2>2, <2>3
<1>7. ASSUME NEW id \in SubIds, NEW req_ref \in GivenInfoRefs \union {None},
             do_request_sub_info(user, id, req_ref)
      PROVE  PalletInv'
  <2> DEFINE req == [req_ref |-> IF req_ref # None THEN req_ref ELSE <<id, block_number>>,
                     id |-> id]
             request == [call |-> "info", user |-> user, req |-> req]
  <2>1. req \in SubInfoRequest
    BY ZenonT(60), <1>1, QuestionsAreTyped
  <2>2. xcm_send(request) /\ Ask(req)
    BY ZenonT(60), <1>7 DEF do_request_sub_info
  <2> HIDE DEF req
  <2>3. request \in Request /\ request.req = req
    BY ZenonT(60), <1>1, <2>1, SentAreRequests
  <2> QED BY ZenonT(60), <1>3, <2>1, <2>2, <2>3
<1>8. ASSUME NEW n \in PulseCounts, NEW f \in FrequencyChoices, NEW m \in MetadataSizes,
             NEW req_ref \in GivenQuoteRefs \union {None},
             do_request_quote(user, n, f, m, req_ref)
      PROVE  PalletInv'
  <2> DEFINE req == [req_ref |-> IF req_ref # None THEN req_ref ELSE <<f, m, block_number>>,
                     lifetime_pulses |-> n, frequency |-> f, metadata |-> m]
             request == [call |-> "quote", user |-> user, req |-> req]
  <2>1. req \in QuoteRequest
    BY ZenonT(60), <1>1, QuestionsAreTyped
  <2>2. xcm_send(request) /\ Ask(req)
    BY ZenonT(60), <1>8 DEF do_request_quote
  <2> HIDE DEF req
  <2>3. request \in Request /\ request.req = req
    BY ZenonT(60), <1>1, <2>1, SentAreRequests
  <2> QED BY ZenonT(60), <1>3, <2>1, <2>2, <2>3
<1> QED BY ZenonT(60), <1>4, <1>5, <1>6, <1>7, <1>8 DEF UserStep

(* The credits that a number of pulses needs fit into u64. *)
LEMMA CreditsAreBounded ==
    ASSUME NEW f \in Nat, NEW n \in Nat
    PROVE  calculate_credits(f, n) \in 0..U64Max
<1>1. U64Max \in Nat
  BY ConstantTypes
<1>2. SaturatingMul(f, 1) \in 0..U64Max
  BY <1>1 DEF SaturatingMul, Lesser
<1>3. SaturatingAdd(SaturatingMul(f, 1), 1) \in 0..U64Max
  BY <1>1, <1>2 DEF SaturatingAdd, Lesser
<1>4. ASSUME NEW k \in 0..U64Max PROVE SaturatingMul(n, k) \in 0..U64Max
  <2>1. n * k \in Nat
    BY <1>1
  <2> QED BY <1>1, <2>1 DEF SaturatingMul, Lesser
<1> QED BY ZenonT(60), <1>3, <1>4 DEF calculate_credits, get_idle_credits, get_consume_credits

(* The deposit for a new subscription, and the one that a quote names. *)
LEMMA DepositOfNew ==
    ASSUME NEW user, NEW c, NEW f, NEW size \in Nat
    PROVE  /\ calculate_storage_deposit(NewSubscription(user, c, f, size)) =
                SDMultiplier * (FixedSize + size)
           /\ calculate_storage_deposit_from_create_params(user, f, size, 0) =
                SDMultiplier * (FixedSize + size)
           /\ SDMultiplier * (FixedSize + size) \in Nat
<1>1. ASSUME NEW x
      PROVE  EncodedSize(NewSubscription(user, x, f, size)) = FixedSize + size + 0
  BY ZenonT(60) DEF EncodedSize, NewSubscription
<1>2. /\ SDMultiplier \in Nat /\ FixedSize + size \in Nat
      /\ FixedSize + size + 0 = FixedSize + size
      /\ (FixedSize + size) - 0 = FixedSize + size
  BY ConstantTypes
<1>3. SDMultiplier * (FixedSize + size) \in Nat
  BY <1>2
<1> QED BY ZenonT(60), <1>1, <1>2, <1>3
        DEF calculate_storage_deposit, calculate_storage_deposit_from_create_params

(* The manager answers a quote with the price of the question. *)
LEMMA QuoteIsAskedFor ==
    ASSUME PalletInv, NEW req \in QuoteRequest, req \in asked, NEW user \in Accounts,
           NEW m,
           LET quote == quote_subscription(user, req.lifetime_pulses, req.frequency,
                                           req.metadata, 0)
           IN  m = [kind |-> "quote", req_ref |-> req.req_ref,
                    fees |-> quote.fees, deposit |-> quote.deposit]
    PROVE  m \in Message /\ AskedFor(m, asked)
<1> DEFINE n    == req.lifetime_pulses
           f    == req.frequency
           size == req.metadata
           c    == calculate_credits(f, n)
           sub  == NewSubscription(user, c, f, size)
<1>1. /\ n \in Nat /\ f \in Nat /\ size \in Nat /\ req.req_ref \in QuoteRef
  <2>1. /\ n \in PulseCounts /\ f \in FrequencyChoices /\ size \in MetadataSizes
        /\ req.req_ref \in QuoteRef
    BY DEF QuoteRequest
  <2>2. \A k \in FrequencyChoices : k \in Nat
    BY ManagerAssumption
  <2> QED BY ZenonT(60), <2>1, <2>2, ManagerAssumption, PalletAssumption
<1>3. c \in 0..U64Max
  BY ZenonT(60), <1>1, CreditsAreBounded
<1>4. calculate_subscription_fees(c) \in Nat
  <2> HIDE DEF c
  <2>1. calculate_subscription_fees(c) \in 0..U64Max
    BY ZenonT(60), <1>3, FeesType
  <2> QED BY <2>1, ConstantTypes
<1>6. /\ m.kind = "quote" /\ m.req_ref = req.req_ref
      /\ m.fees = calculate_subscription_fees(c)
      /\ m.deposit = calculate_storage_deposit_from_create_params(user, f, size, 0)
  BY ZenonT(60) DEF quote_subscription
<1>7. m.deposit = calculate_storage_deposit(sub) /\ m.deposit \in Nat
  <2> HIDE DEF c, f, size
  <2>1. /\ calculate_storage_deposit(NewSubscription(user, c, f, size)) =
             SDMultiplier * (FixedSize + size)
        /\ calculate_storage_deposit_from_create_params(user, f, size, 0) =
             SDMultiplier * (FixedSize + size)
        /\ SDMultiplier * (FixedSize + size) \in Nat
    BY <1>1, DepositOfNew
  <2> QED BY ZenonT(60), <1>6, <2>1
<1> HIDE DEF c
<1>8. m \in Message
  <2>1. m = [kind |-> "quote", req_ref |-> req.req_ref, fees |-> m.fees,
             deposit |-> m.deposit]
    BY ZenonT(60) DEF quote_subscription
  <2>2. m.fees \in Nat
    BY <1>4, <1>6
  <2> QED BY ZenonT(60), <1>1, <1>7, <2>1, <2>2 DEF Message, QuoteMessage
<1>9. AskedFor(m, asked)
  <2>1. /\ req.req_ref = m.req_ref
        /\ m.fees = calculate_subscription_fees(calculate_credits(req.frequency,
                                                                  req.lifetime_pulses))
        /\ m.deposit = calculate_storage_deposit(
             NewSubscription(user, calculate_credits(req.frequency, req.lifetime_pulses),
                             req.frequency, req.metadata))
    BY <1>6, <1>7, Zenon DEF c
  <2>2. m.kind # "info"
    BY <1>6
  <2> QED BY <2>1, <2>2, Zenon DEF AskedFor
<1> QED BY ZenonT(60), <1>8, <1>9

(* The manager serves the request at the head of the queue. *)
LEMMA ServiceKeepsPallet ==
    ASSUME PalletInv, ExecuteRequest \/ AnswerQuote \/ AnswerInfo \/ FailRequest
    PROVE  PalletInv'
<1> DEFINE m == Head(requests)
<1>1. /\ IInv /\ requests # <<>> /\ requests \in Seq(Request) /\ requests' = Tail(requests)
      /\ block_number \in Blocks /\ round \in 0..LastRound
      /\ UNCHANGED <<block_number, round, asked>>
  BY ZenonT(60) DEF PalletInv, PalletTypeOK, ExecuteRequest, AnswerQuote, AnswerInfo, FailRequest, Answer
<1>2. /\ m \in Request
      /\ m.call \in {"quote", "info"} => m.req \in asked
  <2>1. m = requests[1] /\ 1 \in DOMAIN requests /\ m \in Request
    BY ZenonT(60), <1>1, QueueShrinks
  <2> QED BY ZenonT(60), <2>1 DEF PalletInv, QuestionsWereAsked
<1>3. ASSUME UNCHANGED vars,
             \/ answers' = answers
             \/ \E x \in Message : /\ AskedFor(x, asked) /\ Len(answers) < AnswerLimit
                                   /\ answers' = Append(answers, x)
      PROVE  PalletInv'
  <2>1. IInv'
    BY <1>1, <1>3, StepPreserves
  <2>2. DidUpdate' => round' # 0
    BY ZenonT(60), <1>1, <1>3 DEF PalletInv, vars
  <2>3. block_number' \in Blocks /\ round' \in 0..LastRound
    BY ZenonT(60), <1>1
  <2> QED BY ZenonT(60), <1>1, <1>3, <2>1, <2>2, <2>3, QueuesKeepPallet
<1>4. CASE ExecuteRequest
  <2>1. Transact(m) /\ answers' = answers /\ m.call \notin {"quote", "info"}
    BY ZenonT(60), <1>4 DEF ExecuteRequest
  <2>2. /\ m.user \in Accounts /\ m.id \in SubIds
        /\ m.call \in {"create", "update", "pause", "reactivate", "kill"}
    BY ZenonT(60), <1>2, <2>1, RequestFields
  <2> HIDE DEF m
  <2>3. CASE m.call = "create"
    <3>1. create_subscription(m.user, m.id, m.credits, m.frequency, m.metadata)
      BY <2>1, <2>3, Zenon DEF Transact
    <3>2. IInv'
      BY ZenonT(60), <1>1, <1>2, <2>2, <2>3, <3>1, RequestFields, CreatePreserves
    <3>3. DidUpdate' = DidUpdate
      BY ZenonT(60), <3>1 DEF create_subscription
    <3> QED BY <1>1, <2>1, <3>2, <3>3, QueuesKeepPallet DEF PalletInv
  <2>4. CASE m.call = "update"
    <3> DEFINE c == Given(m.new[1], Subscriptions[m.id].credits)
               f == Given(m.new[2], Subscriptions[m.id].frequency)
               s == Given(m.new[3], Subscriptions[m.id].metadata)
    <3>1. InStorage(m.id) /\ update_subscription(m.user, m.id, c, f, s)
      BY ZenonT(60), <2>1, <2>4 DEF Transact, Update
    <3>2. c \in 0..U64Max /\ f \in Frequencies /\ s \in MetadataSizes
      <4>1. m.new \in Updates
        BY ZenonT(60), <1>2, <2>4, RequestFields, PalletAssumption
      <4>2. Subscriptions[m.id] \in Subscription
        BY ZenonT(60), <1>1, <3>1 DEF IInv, TypeOK, InStorage
      <4> QED BY ZenonT(60), <4>1, <4>2 DEF Updates, Given, Subscription
    <3> HIDE DEF c, f, s
    <3>3. IInv'
      BY ZenonT(60), <1>1, <2>2, <3>1, <3>2, UpdatePreserves
    <3>4. DidUpdate' = DidUpdate
      BY ZenonT(60), <3>1 DEF update_subscription
    <3> QED BY <1>1, <2>1, <3>3, <3>4, QueuesKeepPallet DEF PalletInv
  <2>5. CASE m.call \in {"pause", "reactivate", "kill"}
    <3>1. \/ pause_subscription(m.user, m.id)
          \/ reactivate_subscription(m.user, m.id)
          \/ kill_subscription(m.user, m.id)
      BY ZenonT(60), <2>1, <2>5 DEF Transact
    <3>2. IInv'
      <4>1. Call(m.user, m.id)
        BY <3>1 DEF Call
      <4>2. Next
        BY <2>2, <4>1 DEF Next
      <4> QED BY <1>1, <4>2, StepPreserves
    <3>3. DidUpdate' = DidUpdate
      BY <3>1 DEF pause_subscription, reactivate_subscription, kill_subscription, SetState
    <3> QED BY <1>1, <2>1, <3>2, <3>3, QueuesKeepPallet DEF PalletInv
  <2> QED BY ZenonT(60), <2>2, <2>3, <2>4, <2>5
<1>5. CASE AnswerQuote
  <2> DEFINE quote == quote_subscription(m.user, m.req.lifetime_pulses, m.req.frequency,
                                         m.req.metadata, 0)
             x == [kind |-> "quote", req_ref |-> m.req.req_ref,
                   fees |-> quote.fees, deposit |-> quote.deposit]
  <2>1. m.call = "quote" /\ Answer(x)
    BY ZenonT(60), <1>5 DEF AnswerQuote
  <2>2. m.user \in Accounts /\ m.req \in QuoteRequest /\ m.req \in asked
    BY ZenonT(60), <1>2, <2>1, RequestFields
  <2> HIDE DEF m
  <2>3. x \in Message /\ AskedFor(x, asked)
    BY <2>2, QuoteIsAskedFor, Zenon
  <2> HIDE DEF x
  <2> QED BY ZenonT(60), <1>3, <2>1, <2>3 DEF Answer
<1>6. CASE AnswerInfo
  <2> DEFINE x == [kind |-> "info", req_ref |-> m.req.req_ref, id |-> m.req.id]
  <2>1. m.call = "info" /\ Answer(x)
    BY ZenonT(60), <1>6 DEF AnswerInfo
  <2>2. m.req \in SubInfoRequest /\ m.req \in asked
    BY ZenonT(60), <1>2, <2>1, RequestFields
  <2> HIDE DEF m
  <2>3. x \in Message
    BY ZenonT(60), <2>2 DEF SubInfoRequest, Message, InfoMessage
  <2>4. AskedFor(x, asked)
    <3>1. m.req = [req_ref |-> x.req_ref, id |-> x.id] /\ x.kind = "info"
      BY ZenonT(60), <2>2 DEF SubInfoRequest
    <3>2. x.kind # "quote"
      BY ZenonT(60), <3>1
    <3> HIDE DEF x
    <3> QED BY ZenonT(60), <2>2, <3>1, <3>2 DEF AskedFor
  <2> HIDE DEF x
  <2> QED BY ZenonT(60), <1>3, <2>1, <2>3, <2>4 DEF Answer
<1>7. CASE FailRequest
  BY <1>3, <1>7 DEF FailRequest
<1> QED BY ZenonT(60), <1>4, <1>5, <1>6, <1>7

(* The steps of the IDN's blocks, and the callbacks. *)
LEMMA BlockKeepsPallet ==
    ASSUME PalletInv,
           \/ NextConsumerBlock
           \/ DispatchPulse
           \/ \E id \in SubIds : Deliver(id)
           \/ IdnStep
           \/ consume_pulse \/ consume_quote \/ consume_sub_info \/ LoseAnswer
    PROVE  PalletInv'
<1>1. IInv /\ block_number \in Blocks /\ round \in 0..LastRound /\ (DidUpdate => round # 0)
  BY DEF PalletInv, PalletTypeOK
<1>2. ASSUME UNCHANGED vars
      PROVE  IInv' /\ DidUpdate' = DidUpdate
  <2>1. DidUpdate' = DidUpdate
    BY ZenonT(60), <1>2 DEF vars
  <2> QED BY ZenonT(60), <1>1, <1>2, <2>1, StepPreserves
<1>3. CASE NextConsumerBlock
  <2>1. /\ block_number' = block_number + 1 /\ block_number < LastBlock
        /\ UNCHANGED <<vars, requests, answers, round, asked>>
    BY ZenonT(60), <1>3 DEF NextConsumerBlock
  <2>2. block_number' \in Blocks
    BY <1>1, <2>1, PalletAssumption DEF Blocks
  <2>3. IInv' /\ DidUpdate' = DidUpdate
    BY ZenonT(60), <1>2, <2>1
  <2>4. round' \in 0..LastRound /\ (DidUpdate' => round' # 0)
    BY ZenonT(60), <1>1, <2>1, <2>3
  <2> QED BY ZenonT(60), <2>1, <2>2, <2>3, <2>4, QueuesKeepPallet
<1>4. CASE DispatchPulse
  <2>1. /\ dispatch /\ round' = round + 1 /\ round < LastRound
        /\ UNCHANGED <<block_number, requests, answers, asked>>
    BY <1>4 DEF DispatchPulse, chain
  <2>2. round' \in 0..LastRound /\ round' # 0
    BY <1>1, <2>1, PalletAssumption
  <2>3. IInv'
    BY ZenonT(60), <1>1, <2>1, LoopStartPreserves
  <2> QED BY ZenonT(60), <1>1, <2>1, <2>2, <2>3, QueuesKeepPallet
<1>5. ASSUME NEW id \in SubIds, Deliver(id)
      PROVE  PalletInv'
  <2> DEFINE x == [kind |-> "pulse", round |-> round, id |-> id]
  <2>1. /\ DeliverPulse(id) /\ Len(answers) < AnswerLimit
        /\ answers' = Append(answers, x)
        /\ UNCHANGED <<block_number, requests, round, asked>>
    BY <1>5 DEF Deliver
  <2>2. phase = "execute" /\ id \in todo /\ DidUpdate' = DidUpdate
    BY <2>1 DEF DeliverPulse, Distributing
  <2>3. round # 0
    BY <1>1, <2>2 DEF IInv, DeliveredThisBlock
  <2>4. x \in Message
    <3>1. round \in 1..LastRound
      BY <1>1, <2>3, PalletAssumption
    <3> QED BY <3>1 DEF Message, PulseMessage
  <2>5. AskedFor(x, asked)
    <3>1. x.kind # "info" /\ x.kind # "quote"
      OBVIOUS
    <3> HIDE DEF x
    <3> QED BY <3>1 DEF AskedFor
  <2> HIDE DEF x
  <2>6. IInv'
    BY ZenonT(60), <1>1, <2>1, DistributePreserves DEF Distribute
  <2> QED BY ZenonT(60), <1>1, <2>1, <2>2, <2>4, <2>5, <2>6, QueuesKeepPallet
<1>6. CASE IdnStep
  <2>1. UNCHANGED <<block_number, requests, answers, round, asked>>
    BY <1>6 DEF IdnStep, chain
  <2>2. IInv' /\ (DidUpdate' => DidUpdate)
    <3>1. ASSUME NEW id \in SubIds, PauseUnpaid(id) \/ PauseUnsent(id) \/ IdlePulse(id)
          PROVE  IInv' /\ (DidUpdate' => DidUpdate)
      <4>1. Distribute(id)
        BY <3>1 DEF Distribute
      <4>2. DidUpdate' = DidUpdate
        BY <3>1 DEF PauseUnpaid, PauseUnsent, IdlePulse, Distributing
      <4> QED BY <1>1, <4>1, <4>2, DistributePreserves
    <3>2. ASSUME NEW id \in SubIds, TerminateFinalized(id)
          PROVE  IInv' /\ (DidUpdate' => DidUpdate)
      <4>1. DidUpdate' = DidUpdate
        BY ZenonT(60), <3>2 DEF TerminateFinalized
      <4> QED BY ZenonT(60), <1>1, <3>2, <4>1, TerminatePreserves
    <3>3. CASE on_finalize
      <4>1. DidUpdate' = DidUpdate
        BY <3>3 DEF on_finalize
      <4> QED BY ZenonT(60), <1>1, <3>3, <4>1, LoopStartPreserves
    <3>4. CASE NextBlock
      <4>1. ~DidUpdate'
        BY <3>4 DEF NextBlock
      <4> QED BY ZenonT(60), <1>1, <3>4, <4>1, NextBlockPreserves
    <3> QED BY <1>6, <3>1, <3>2, <3>3, <3>4 DEF IdnStep
  <2> QED BY <1>1, <2>1, <2>2, QueuesKeepPallet
<1>7. CASE consume_pulse \/ consume_quote \/ consume_sub_info \/ LoseAnswer
  <2>1. /\ answers # <<>> /\ answers' = Tail(answers)
        /\ UNCHANGED <<vars, block_number, requests, round, asked>>
    BY <1>7 DEF consume_pulse, consume_quote, consume_sub_info, Consume, LoseAnswer
  <2>2. IInv' /\ DidUpdate' = DidUpdate
    BY ZenonT(60), <1>2, <2>1
  <2>3. block_number' \in Blocks /\ round' \in 0..LastRound /\ (DidUpdate' => round' # 0)
    BY ZenonT(60), <1>1, <2>1, <2>2
  <2> QED BY ZenonT(60), <2>1, <2>2, <2>3, QueuesKeepPallet
<1> QED BY ZenonT(60), <1>3, <1>4, <1>5, <1>6, <1>7

(* The pallet and the manager preserve their invariant. *)
LEMMA PalletStays == PalletSpec => []PalletInv
<1>1. PalletInit => PalletInv
  <2> SUFFICES ASSUME PalletInit
               PROVE  PalletInv
    OBVIOUS
  <2>1. IInv
    BY ZenonT(60), InitEstablishes DEF PalletInit
  <2>2. /\ block_number = 1 /\ requests = <<>> /\ answers = <<>> /\ round = 0
        /\ asked = {} /\ DidUpdate = FALSE
    BY DEF PalletInit, Init
  <2>3. PalletTypeOK
    BY <2>1, <2>2, PalletAssumption DEF PalletTypeOK, IInv, Blocks
  <2>4. DOMAIN requests = {} /\ DOMAIN answers = {}
    BY <2>2
  <2> QED BY ZenonT(60), <2>1, <2>2, <2>3, <2>4 DEF PalletInv, QuestionsWereAsked, AnswersWereAsked
<1>2. PalletInv /\ [PalletNext]_world => PalletInv'
  <2> SUFFICES ASSUME PalletInv, [PalletNext]_world
               PROVE  PalletInv'
    BY ZenonT(60)
  <2>1. CASE UNCHANGED world
    <3>1. UNCHANGED vars /\ UNCHANGED <<block_number, requests, answers, round, asked>>
      BY <2>1 DEF world, chain
    <3>2. IInv' /\ DidUpdate' = DidUpdate
      <4>1. DidUpdate' = DidUpdate
        BY <3>1 DEF vars
      <4> QED BY <3>1, <4>1, StepPreserves DEF PalletInv
    <3> QED BY ZenonT(60), <3>1, <3>2, QueuesKeepPallet DEF PalletInv, PalletTypeOK
  <2>2. CASE PalletNext
    BY <2>2, UserStepKeepsPallet, ServiceKeepsPallet, BlockKeepsPallet DEF PalletNext
  <2> QED BY <2>1, <2>2
<1> QED BY <1>1, <1>2, PTL DEF PalletSpec

(* Storage, queues and history of the consumer chain have their types. *)
THEOREM PalletIsTyped == PalletSpec => []PalletTypeOK
<1>1. PalletInv => PalletTypeOK
  BY DEF PalletInv
<1> QED BY <1>1, PalletStays, PTL

(* The callbacks hand the consumers only answers to questions that a user  *)
(* asked, quotes with the price of the question.                           *)
THEOREM OnlyAskedIsAnswered == PalletSpec => []AnswersWereAsked
<1>1. PalletInv => AnswersWereAsked
  BY ZenonT(60) DEF PalletInv
<1> QED BY <1>1, PalletStays, PTL

(* A call that writes one account, and one id that is free or belongs to   *)
(* that account, leaves every other user alone.                            *)
LEMMA OthersUntouched ==
    ASSUME TypeOK, NEW a \in Accounts, NEW user \in Accounts \ {a},
           balances' = balances \/ \E acc : SetBalance(a, acc),
           NEW id, InStorage(id) => Subscriptions[id].subscriber = a,
           \/ \E sub : Insert(id, sub) /\ sub.subscriber = a
           \/ Remove(id)
    PROVE  /\ balances'[user] = balances[user]
           /\ OwnSubscriptions(user)' = OwnSubscriptions(user)
<1>1. balances'[user] = balances[user]
  BY ZenonT(60) DEF SetBalance, TypeOK
<1>2. OwnedBy(user)' = OwnedBy(user) /\ id \notin OwnedBy(user)
  <2>1. CASE \E sub : Insert(id, sub) /\ sub.subscriber = a
    BY ZenonT(60), <2>1 DEF Insert, OwnedBy, InStorage
  <2>2. CASE Remove(id)
    BY ZenonT(60), <2>2 DEF Remove, OwnedBy, InStorage
  <2> QED BY ZenonT(60), <2>1, <2>2
<1>3. \A x \in OwnedBy(user) : Subscriptions'[x] = Subscriptions[x]
  <2>1. CASE \E sub : Insert(id, sub) /\ sub.subscriber = a
    BY ZenonT(60), <1>2, <2>1 DEF Insert, OwnedBy
  <2>2. CASE Remove(id)
    BY ZenonT(60), <1>2, <2>2 DEF Remove, OwnedBy
  <2> QED BY ZenonT(60), <2>1, <2>2
<1> QED BY ZenonT(60), <1>1, <1>2, <1>3 DEF OwnSubscriptions

(* Serving a request changes nothing for the users who did not send it,    *)
(* whatever ids the pallet told them: the manager compares the caller.     *)
THEOREM UsersStayIsolated == PalletSpec => UsersAreIsolated
<1> DEFINE Isolated ==
             requests # <<>> /\ requests' = Tail(requests) =>
               \A user \in Accounts \ {Head(requests).user} :
                 /\ balances'[user] = balances[user]
                 /\ OwnSubscriptions(user)' = OwnSubscriptions(user)
<1>1. PalletInv /\ [PalletNext]_world => [Isolated]_world
  <2> SUFFICES ASSUME PalletInv, PalletNext, requests # <<>>,
                      requests' = Tail(requests),
                      NEW user \in Accounts \ {Head(requests).user}
               PROVE  /\ balances'[user] = balances[user]
                      /\ OwnSubscriptions(user)' = OwnSubscriptions(user)
    BY ZenonT(60)
  <2> DEFINE m == Head(requests)
  <2>1. TypeOK /\ requests \in Seq(Request) /\ m \in Request
    BY QueueShrinks DEF PalletInv, PalletTypeOK
  <2>2. Len(requests') # Len(requests) /\ Len(requests') # Len(requests) + 1
    <3>1. Len(requests') = Len(requests) - 1 /\ Len(requests) \in Nat
      BY SMTT(60), <2>1, QueueShrinks
    <3> DEFINE k == Len(requests)
               l == Len(requests')
    <3>2. l = k - 1 /\ k \in Nat
      BY <3>1
    <3> HIDE DEF k, l
    <3>3. l # k /\ l # k + 1
      BY <3>2
    <3> QED BY ZenonT(60), <3>3 DEF k, l
  <2>3. ~\E u \in Accounts : UserStep(u)
    <3> SUFFICES ASSUME NEW u \in Accounts, UserStep(u)
                 PROVE  \E request : xcm_send(request)
      <4>1. \A request : xcm_send(request) => Len(requests') = Len(requests) + 1
        BY ZenonT(60), <2>1, AppendLengthens DEF xcm_send
      <4> QED BY ZenonT(60), <2>2, <4>1
    <3> QED BY Zenon DEF UserStep, do_create_subscription, do_update_subscription,
               do_pause_subscription, do_reactivate_subscription, do_kill_subscription,
               do_request_sub_info, do_request_quote
  <2>4. /\ ~NextConsumerBlock /\ ~DispatchPulse /\ ~IdnStep
        /\ ~consume_pulse /\ ~consume_quote /\ ~consume_sub_info /\ ~LoseAnswer
        /\ \A id \in SubIds : ~Deliver(id)
    BY ZenonT(60), <2>2 DEF NextConsumerBlock, DispatchPulse, IdnStep, chain, consume_pulse,
       consume_quote, consume_sub_info, Consume, LoseAnswer, Deliver
  <2>5. CASE UNCHANGED vars
    BY ZenonT(60), <2>5 DEF vars, OwnSubscriptions, OwnedBy
  <2>6. CASE ExecuteRequest
    <3>1. Transact(m) /\ m.call \notin {"quote", "info"}
      BY ZenonT(60), <2>6 DEF ExecuteRequest
    <3>2. /\ m.user \in Accounts
          /\ m.call \in {"create", "update", "pause", "reactivate", "kill"}
      BY ZenonT(60), <2>1, <3>1, RequestFields
    <3> HIDE DEF m
    <3>3. CASE m.call = "create"
      <4> DEFINE sub == NewSubscription(m.user, m.credits, m.frequency, m.metadata)
      <4>1. create_subscription(m.user, m.id, m.credits, m.frequency, m.metadata)
        BY <3>1, <3>3, Zenon DEF Transact
      <4>2. ~InStorage(m.id) /\ Insert(m.id, sub) /\ \E acc : SetBalance(m.user, acc)
        BY <4>1, Zenon DEF create_subscription
      <4>3. sub.subscriber = m.user
        BY ZenonT(60) DEF NewSubscription
      <4> HIDE DEF sub
      <4> QED BY ZenonT(60), <2>1, <3>2, <4>2, <4>3, OthersUntouched DEF m
    <3>4. CASE m.call = "update"
      <4> DEFINE c   == Given(m.new[1], Subscriptions[m.id].credits)
                 f   == Given(m.new[2], Subscriptions[m.id].frequency)
                 s   == Given(m.new[3], Subscriptions[m.id].metadata)
                 sub == [Subscriptions[m.id] EXCEPT !.credits = c, !.frequency = f,
                                                    !.metadata = s]
      <4>1. update_subscription(m.user, m.id, c, f, s)
        BY <3>1, <3>4 DEF Transact, Update
      <4> HIDE DEF c, f, s
      <4>2. /\ InStorage(m.id) /\ Subscriptions[m.id].subscriber = m.user
            /\ Insert(m.id, sub) /\ \E acc : SetBalance(m.user, acc)
        BY <4>1, Zenon DEF update_subscription, CallBy
      <4>3. sub.subscriber = m.user
        <5>1. Subscriptions[m.id] \in Subscription
          BY ZenonT(60), <2>1, <4>2 DEF TypeOK, InStorage
        <5> QED BY ZenonT(60), <4>2, <5>1 DEF Subscription
      <4> HIDE DEF sub
      <4>4. \E x : Insert(m.id, x) /\ x.subscriber = m.user
        BY ZenonT(60), <4>2, <4>3
      <4> QED BY ZenonT(60), <2>1, <3>2, <4>2, <4>4, OthersUntouched DEF m
    <3>5. CASE m.call \in {"pause", "reactivate"}
      <4>1. pause_subscription(m.user, m.id) \/ reactivate_subscription(m.user, m.id)
        BY ZenonT(60), <3>1, <3>5 DEF Transact
      <4>2. PICK state : /\ InStorage(m.id) /\ Subscriptions[m.id].subscriber = m.user
                         /\ SetState(m.id, state)
        BY <4>1, Zenon DEF pause_subscription, reactivate_subscription, CallBy
      <4> DEFINE sub == [Subscriptions[m.id] EXCEPT !.state = state]
      <4>3. Insert(m.id, sub) /\ balances' = balances
        BY <4>2 DEF SetState
      <4>4. sub.subscriber = m.user
        BY ZenonT(60), <2>1, <4>2 DEF TypeOK, InStorage, Subscription
      <4> HIDE DEF sub
      <4>5. \E x : Insert(m.id, x) /\ x.subscriber = m.user
        BY ZenonT(60), <4>3, <4>4
      <4> QED BY ZenonT(60), <2>1, <3>2, <4>2, <4>3, <4>5, OthersUntouched DEF m
    <3>6. CASE m.call = "kill"
      <4>1. kill_subscription(m.user, m.id)
        BY <3>1, <3>6 DEF Transact
      <4>2. /\ Subscriptions[m.id].subscriber = m.user
            /\ Remove(m.id) /\ \E acc : SetBalance(m.user, acc)
        BY <4>1, Zenon DEF kill_subscription, CallBy
      <4> QED BY ZenonT(60), <2>1, <3>2, <4>2, OthersUntouched DEF m
    <3> QED BY ZenonT(60), <3>2, <3>3, <3>4, <3>5, <3>6
  <2>7. AnswerQuote \/ AnswerInfo \/ FailRequest => UNCHANGED vars
    BY ZenonT(60) DEF AnswerQuote, AnswerInfo, FailRequest, Answer
  <2> QED BY ZenonT(60), <2>3, <2>4, <2>5, <2>6, <2>7 DEF PalletNext
<1> QED BY <1>1, PalletStays, PTL DEF PalletSpec, UsersAreIsolated

(* When any number of users share the consumer pallet and their requests   *)
(* execute late, in any interleaving or not at all, no account's money is  *)
(* created or destroyed, SubCounter is the number of stored subscriptions, *)
(* and no subscription is sent more pulses than the credits it was created *)
(* with (do_create_subscription, do_update_subscription, distribute).      *)
THEOREM PalletIsSafe ==
    PalletSpec => [](MoneyConserved /\ CounterMatchesStorage /\ DeliveriesBounded)
<1>1. PalletInv => IInv
  BY ZenonT(60) DEF PalletInv
<1>2. IInv => MoneyConserved
  BY ZenonT(60) DEF IInv, AllSound, Sound, MoneyConserved
<1>3. IInv => CounterMatchesStorage /\ DeliveriesBounded
  BY ZenonT(60) DEF IInv, AllWithinGrant, WithinGrant, DeliveriesBounded
<1> QED BY <1>1, <1>2, <1>3, PalletStays, PTL
=============================================================================
