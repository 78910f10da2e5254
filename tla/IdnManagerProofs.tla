-------------------------- MODULE IdnManagerProofs --------------------------
(***************************************************************************)
(* Safety of the IDN Manager pallet for any number of accounts and         *)
(* subscriptions, any fee table and any limits.                            *)
(***************************************************************************)
EXTENDS IdnManager, FeesManagerProofs, FiniteSetTheorems

(* An account that owns, or has paid, exactly its endowment. *)
Sound(acc) ==
    /\ acc \in Account
    /\ acc.free + acc.fees + acc.deposit + acc.paid = Endowment
    /\ acc.free >= ExistentialDeposit

Diff == [balance : Nat, direction : {"Collect", "Release", "None"}]

(* The numeric constants are naturals. *)
LEMMA ConstantTypes ==
    /\ U64Max \in Nat /\ 0 \in 0..U64Max
    /\ ExistentialDeposit \in Nat /\ Endowment \in Nat
    /\ SDMultiplier \in Nat /\ FixedSize \in Nat /\ BlockNumberSize \in Nat
    /\ MetadataSizes \subseteq Nat
    /\ MaxFrequency \in Nat \ {0}
    /\ MaxSubscriptions \in Nat
BY FeesAssumption, ManagerAssumption

(* An account with one part replaced. *)
LEMMA SetPart ==
    ASSUME NEW acc \in Account, NEW x \in Nat
    PROVE  /\ [acc EXCEPT !.free = x] \in Account
           /\ [acc EXCEPT !.fees = x] \in Account
           /\ [acc EXCEPT !.deposit = x] \in Account
           /\ [acc EXCEPT !.paid = x] \in Account
BY DEF Account

(* An account with two parts replaced by parts of the same sum. *)
LEMMA MovePart ==
    ASSUME NEW acc, Sound(acc), NEW x \in Nat, NEW y \in Nat
    PROVE  /\ x + y = acc.free + acc.fees /\ x >= ExistentialDeposit =>
                Sound([acc EXCEPT !.free = x, !.fees = y])
           /\ x + y = acc.free + acc.deposit /\ x >= ExistentialDeposit =>
                Sound([acc EXCEPT !.free = x, !.deposit = y])
           /\ x + y = acc.fees + acc.paid =>
                Sound([acc EXCEPT !.fees = x, !.paid = y])
<1>1. /\ acc \in Account
      /\ acc.free \in Nat /\ acc.fees \in Nat
      /\ acc.deposit \in Nat /\ acc.paid \in Nat
      /\ acc.free + acc.fees + acc.deposit + acc.paid = Endowment
      /\ acc.free >= ExistentialDeposit
  BY DEF Sound, Account
<1>2. ASSUME x + y = acc.free + acc.fees, x >= ExistentialDeposit
      PROVE  Sound([acc EXCEPT !.free = x, !.fees = y])
  <2> DEFINE new == [acc EXCEPT !.free = x, !.fees = y]
  <2>1. new = [[acc EXCEPT !.free = x] EXCEPT !.fees = y]
    BY <1>1 DEF Account
  <2>2. new \in Account
    BY ZenonT(60), <1>1, <2>1, SetPart
  <2>3. new.free = x /\ new.fees = y /\ new.deposit = acc.deposit /\ new.paid = acc.paid
    BY <1>1 DEF Account
  <2> HIDE DEF new
  <2>4. Sound(new)
    BY <1>1, <1>2, <2>2, <2>3, ConstantTypes DEF Sound
  <2> QED
    BY <2>4 DEF new
<1>3. ASSUME x + y = acc.free + acc.deposit, x >= ExistentialDeposit
      PROVE  Sound([acc EXCEPT !.free = x, !.deposit = y])
  <2> DEFINE new == [acc EXCEPT !.free = x, !.deposit = y]
  <2>1. new = [[acc EXCEPT !.free = x] EXCEPT !.deposit = y]
    BY <1>1 DEF Account
  <2>2. new \in Account
    BY ZenonT(60), <1>1, <2>1, SetPart
  <2>3. new.free = x /\ new.deposit = y /\ new.fees = acc.fees /\ new.paid = acc.paid
    BY <1>1 DEF Account
  <2> HIDE DEF new
  <2>4. Sound(new)
    BY <1>1, <1>3, <2>2, <2>3, ConstantTypes DEF Sound
  <2> QED
    BY <2>4 DEF new
<1>4. ASSUME x + y = acc.fees + acc.paid
      PROVE  Sound([acc EXCEPT !.fees = x, !.paid = y])
  <2> DEFINE new == [acc EXCEPT !.fees = x, !.paid = y]
  <2>1. new = [[acc EXCEPT !.fees = x] EXCEPT !.paid = y]
    BY <1>1 DEF Account
  <2>2. new \in Account
    BY ZenonT(60), <1>1, <2>1, SetPart
  <2>3. new.fees = x /\ new.paid = y /\ new.free = acc.free /\ new.deposit = acc.deposit
    BY <1>1 DEF Account
  <2> HIDE DEF new
  <2>4. Sound(new)
    BY <1>1, <1>4, <2>2, <2>3, ConstantTypes DEF Sound
  <2> QED
    BY <2>4 DEF new
<1> QED
  BY <1>2, <1>3, <1>4

(* The balances pallet moves money between the parts of an account.        *)
LEMMA MovesAreSound ==
    ASSUME NEW acc, Sound(acc), NEW amount \in Nat
    PROVE  /\ CanHold(acc, amount) => /\ Sound(hold_fees(acc, amount))
                                      /\ Sound(hold_deposit(acc, amount))
           /\ acc.fees >= amount => Sound(release_fees(acc, amount))
           /\ Sound(release_deposit(acc, amount))
           /\ Sound(transfer_on_hold(acc, amount))
<1>1. /\ acc.free \in Nat /\ acc.fees \in Nat
      /\ acc.deposit \in Nat /\ acc.paid \in Nat
      /\ acc.free >= ExistentialDeposit /\ ExistentialDeposit \in Nat
  BY ConstantTypes DEF Sound, Account
<1>2. ASSUME CanHold(acc, amount)
      PROVE  Sound(hold_fees(acc, amount)) /\ Sound(hold_deposit(acc, amount))
  <2>1. /\ acc.free - amount \in Nat /\ acc.fees + amount \in Nat
        /\ acc.deposit + amount \in Nat
        /\ acc.free - amount >= ExistentialDeposit
        /\ (acc.free - amount) + (acc.fees + amount) = acc.free + acc.fees
        /\ (acc.free - amount) + (acc.deposit + amount) = acc.free + acc.deposit
    BY SMTT(60), <1>1, <1>2 DEF CanHold
  <2> QED
    BY ZenonT(60), <2>1, MovePart DEF hold_fees, hold_deposit
<1>3. ASSUME acc.fees >= amount
      PROVE  Sound(release_fees(acc, amount))
  <2>1. /\ acc.free + amount \in Nat /\ acc.fees - amount \in Nat
        /\ acc.free + amount >= ExistentialDeposit
        /\ (acc.free + amount) + (acc.fees - amount) = acc.free + acc.fees
    BY SMTT(60), <1>1, <1>3
  <2> QED
    BY ZenonT(60), <2>1, MovePart DEF release_fees
<1>4. Sound(release_deposit(acc, amount))
  <2> DEFINE n == Lesser(amount, acc.deposit)
  <2>1. /\ acc.free + n \in Nat /\ acc.deposit - n \in Nat
        /\ acc.free + n >= ExistentialDeposit
        /\ (acc.free + n) + (acc.deposit - n) = acc.free + acc.deposit
    BY SMTT(60), <1>1 DEF Lesser
  <2> QED
    BY ZenonT(60), <2>1, MovePart DEF release_deposit
<1>5. Sound(transfer_on_hold(acc, amount))
  <2> DEFINE n == Lesser(amount, acc.fees)
  <2>1. /\ acc.fees - n \in Nat /\ acc.paid + n \in Nat
        /\ (acc.fees - n) + (acc.paid + n) = acc.fees + acc.paid
    BY <1>1 DEF Lesser
  <2> QED
    BY ZenonT(60), <2>1, MovePart DEF transfer_on_hold
<1> QED
  BY <1>2, <1>3, <1>4, <1>5

(* calculate_diff_fees and calculate_diff_deposit return differences, and  *)
(* the storage deposit is an amount.                                       *)
LEMMA DiffTypes ==
    /\ \A c, d \in 0..U64Max : calculate_diff_fees(c, d) \in Diff
    /\ \A sub \in Subscription : calculate_storage_deposit(sub) \in Nat
    /\ \A s, t \in Subscription : calculate_diff_deposit(s, t) \in Diff
<1> USE ConstantTypes
<1>1. ASSUME NEW c \in 0..U64Max, NEW d \in 0..U64Max
      PROVE  calculate_diff_fees(c, d) \in Diff
  <2> DEFINE old == calculate_subscription_fees(c)
             new == calculate_subscription_fees(d)
  <2>1. old \in Nat /\ new \in Nat
    BY FeesType
  <2>2. calculate_diff_fees(c, d) =
          [balance   |-> IF new > old THEN new - old ELSE old - new,
           direction |-> CASE new > old -> "Collect"
                           [] new < old -> "Release"
                           [] OTHER     -> "None"]
    BY DEF calculate_diff_fees
  <2> HIDE DEF old, new
  <2> QED
    BY <2>1, <2>2 DEF Diff
<1>2. ASSUME NEW sub \in Subscription
      PROVE  calculate_storage_deposit(sub) \in Nat
  <2>1. sub.metadata \in Nat
    BY ZenonT(60) DEF Subscription
  <2>2. EncodedSize(sub) \in Nat
    BY <2>1 DEF EncodedSize
  <2> QED
    BY <2>2 DEF calculate_storage_deposit
<1>3. ASSUME NEW s \in Subscription, NEW t \in Subscription
      PROVE  calculate_diff_deposit(s, t) \in Diff
  <2> DEFINE old == calculate_storage_deposit(s)
             new == calculate_storage_deposit(t)
  <2>1. old \in Nat /\ new \in Nat
    BY <1>2
  <2>2. calculate_diff_deposit(s, t) =
          [balance   |-> SaturatingSub(new, old),
           direction |-> CASE new > old -> "Collect"
                           [] new < old -> "Release"
                           [] OTHER     -> "None"]
    BY DEF calculate_diff_deposit
  <2> HIDE DEF old, new
  <2> QED
    BY <2>1, <2>2 DEF Diff, SaturatingSub
<1> QED
  BY <1>1, <1>2, <1>3

(* manage_diff_fees and manage_diff_deposit keep an account sound.         *)
LEMMA ManageDiffsAreSound ==
    ASSUME NEW acc, Sound(acc), NEW diff \in Diff
    PROVE  /\ CanManageDiffFees(acc, diff) => Sound(manage_diff_fees(acc, diff))
           /\ CanManageDiffDeposit(acc, diff) =>
                Sound(manage_diff_deposit(acc, diff))
<1>1. diff.balance \in Nat
  BY DEF Diff
<1>2. CASE diff.direction = "Collect"
  BY <1>1, <1>2, MovesAreSound
     DEF CanManageDiffFees, manage_diff_fees, CanManageDiffDeposit, manage_diff_deposit
<1>3. CASE diff.direction = "Release"
  BY <1>1, <1>3, MovesAreSound
     DEF CanManageDiffFees, manage_diff_fees, CanManageDiffDeposit, manage_diff_deposit
<1>4. CASE diff.direction = "None"
  BY <1>4 DEF manage_diff_fees, manage_diff_deposit
<1> QED
  BY <1>2, <1>3, <1>4 DEF Diff

(* So do the collection of fees, even a partial one, and a termination.    *)
LEMMA CollectionIsSound ==
    ASSUME NEW acc, Sound(acc), NEW sub \in Subscription, NEW n \in {1}
    PROVE  Sound(collect_fees(acc, sub, n).acc)
<1>1. /\ sub.credits_left \in 0..U64Max
      /\ SaturatingSub(sub.credits_left, n) \in 0..U64Max
  BY ConstantTypes DEF Subscription, SaturatingSub
<1>2. FeesDue(sub, n) \in Nat
  BY <1>1, DiffTypes DEF FeesDue, Diff
<1> QED
  BY <1>2, MovesAreSound DEF collect_fees

(* terminate_subscription, when it succeeds, moves money within an account. *)
LEMMA TerminationIsSound ==
    ASSUME NEW acc, Sound(acc), NEW sub \in Subscription, Terminated(acc, sub).ok
    PROVE  Sound(Terminated(acc, sub).acc)
<1> DEFINE diff == calculate_diff_fees(sub.credits_left, 0)
<1>1. diff \in Diff
  BY DiffTypes, ConstantTypes DEF Subscription
<1>2. CanManageDiffFees(acc, diff)
  BY DEF Terminated
<1>3. Sound(manage_diff_fees(acc, diff))
  BY <1>1, <1>2, ManageDiffsAreSound
<1>4. Sound(release_deposit(manage_diff_fees(acc, diff),
                            calculate_storage_deposit(sub)))
  BY <1>3, DiffTypes, MovesAreSound
<1> QED
  BY <1>4 DEF Terminated

-----------------------------------------------------------------------------
(* What distribute, update_subscription and the passing of a block make of *)
(* a subscription is a subscription.                                       *)
LEMMA SubscriptionFields ==
    ASSUME NEW sub \in Subscription
    PROVE  /\ sub.subscriber \in Accounts
           /\ sub.credits_left \in 0..U64Max /\ sub.credits_left \in Nat
           /\ sub.state \in SubscriptionState
           /\ sub.credits \in 0..U64Max
           /\ sub.age \in {Never} \cup Frequencies
BY ConstantTypes DEF Subscription

(* A subscription with one field replaced is a subscription. *)
LEMMA SetField ==
    ASSUME NEW sub \in Subscription
    PROVE  /\ \A x \in 0..U64Max : [sub EXCEPT !.credits_left = x] \in Subscription
           /\ \A x \in SubscriptionState : [sub EXCEPT !.state = x] \in Subscription
           /\ \A x \in 0..U64Max : [sub EXCEPT !.credits = x] \in Subscription
           /\ \A x \in Frequencies : [sub EXCEPT !.frequency = x] \in Subscription
           /\ \A x \in MetadataSizes : [sub EXCEPT !.metadata = x] \in Subscription
           /\ \A x \in {Never} \cup Frequencies :
                [sub EXCEPT !.age = x] \in Subscription
BY DEF Subscription

(* Charging only lowers the credits left, as distribute does. *)
LEMMA ChargedFields ==
    ASSUME NEW sub \in Subscription
    PROVE  LET new == Charged(sub, 1)
           IN  /\ new \in Subscription
               /\ new.credits_left = IF sub.credits_left = 0
                                     THEN 0 ELSE sub.credits_left - 1
               /\ new.state = sub.state
               /\ new.age = sub.age
               /\ new.subscriber = sub.subscriber
<1> DEFINE left == SaturatingSub(sub.credits_left, 1)
<1>1. /\ left \in 0..U64Max
      /\ left = IF sub.credits_left = 0 THEN 0 ELSE sub.credits_left - 1
  BY SubscriptionFields, ConstantTypes DEF SaturatingSub
<1>2. Charged(sub, 1) = [sub EXCEPT !.credits_left = left]
  BY DEF Charged
<1> HIDE DEF left
<1>3. Charged(sub, 1) \in Subscription
  BY <1>1, <1>2, SetField
<1> QED
  BY <1>1, <1>2, <1>3 DEF Subscription

(* The check for spent credits only changes the state, and only to         *)
(* Finalized when no credits are left.                                     *)
LEMMA FinalizedIfSpentFields ==
    ASSUME NEW sub \in Subscription
    PROVE  LET new == FinalizedIfSpent(sub)
           IN  /\ new \in Subscription
               /\ new.credits_left = sub.credits_left
               /\ new.state = IF sub.credits_left = 0 THEN "Finalized"
                                                      ELSE sub.state
               /\ new.age = sub.age
               /\ new.subscriber = sub.subscriber
<1>1. sub.credits_left < get_min_credits <=> sub.credits_left = 0
  BY SubscriptionFields DEF get_min_credits, get_idle_credits
<1>2. CASE sub.state # "Finalized" /\ sub.credits_left = 0
  <2>1. FinalizedIfSpent(sub) = [sub EXCEPT !.state = "Finalized"]
    BY <1>1, <1>2 DEF FinalizedIfSpent
  <2>2. FinalizedIfSpent(sub) \in Subscription
    BY ZenonT(60), <2>1, SetField DEF SubscriptionState
  <2> QED
    BY <1>2, <2>1, <2>2 DEF Subscription
<1>3. CASE ~(sub.state # "Finalized" /\ sub.credits_left = 0)
  <2>1. FinalizedIfSpent(sub) = sub
    BY <1>1, <1>3 DEF FinalizedIfSpent
  <2> QED
    BY <1>3, <2>1
<1> QED
  BY <1>2, <1>3

(* The subscription an eligible subscription becomes in distribute: after  *)
(* a delivery, after an unpaid one and after a failed send.                *)
Delivered(sub) == FinalizedIfSpent([Charged(sub, get_consume_credits) EXCEPT !.age = 0])

Unsent(sub) == [Charged(sub, get_consume_credits) EXCEPT !.age = 0, !.state = "Paused"]

Idled(sub) == FinalizedIfSpent(Charged(sub, get_idle_credits))

(* What each outcome of an iteration of distribute makes of a subscription. *)
LEMMA DistributedFields ==
    ASSUME NEW sub \in Subscription
    PROVE  LET left == IF sub.credits_left = 0 THEN 0 ELSE sub.credits_left - 1
               d == Delivered(sub)
               u == Unsent(sub)
               i == Idled(sub)
           IN  /\ d \in Subscription
               /\ d.credits_left = left /\ d.age = 0 /\ d.subscriber = sub.subscriber
               /\ d.state = IF left = 0 THEN "Finalized" ELSE sub.state
               /\ u \in Subscription
               /\ u.credits_left = left /\ u.age = 0 /\ u.subscriber = sub.subscriber
               /\ u.state = "Paused"
               /\ i \in Subscription
               /\ i.credits_left = left /\ i.age = sub.age
               /\ i.subscriber = sub.subscriber
               /\ i.state = IF left = 0 THEN "Finalized" ELSE sub.state
<1> DEFINE left == IF sub.credits_left = 0 THEN 0 ELSE sub.credits_left - 1
           c    == Charged(sub, 1)
           c0   == [c EXCEPT !.age = 0]
<1>1. get_consume_credits = 1 /\ get_idle_credits = 1
  BY DEF get_consume_credits, get_idle_credits
<1>2. /\ c \in Subscription
      /\ c.credits_left = left /\ c.state = sub.state
      /\ c.age = sub.age /\ c.subscriber = sub.subscriber
  BY ChargedFields
<1>3. Delivered(sub) = FinalizedIfSpent(c0) /\ Idled(sub) = FinalizedIfSpent(c)
  BY <1>1 DEF Delivered, Idled
<1>4. Unsent(sub) = [c EXCEPT !.age = 0, !.state = "Paused"]
  BY <1>1 DEF Unsent
<1> HIDE DEF c
<1>5. /\ c0 \in Subscription
      /\ c0.credits_left = left /\ c0.state = sub.state
      /\ c0.age = 0 /\ c0.subscriber = sub.subscriber
  <2>1. 0 \in Frequencies
    BY ConstantTypes DEF Frequencies
  <2>2. c0 \in Subscription
    BY <1>2, <2>1, SetField
  <2> QED
    BY <1>2, <2>2 DEF Subscription
<1>6. Unsent(sub) = [c0 EXCEPT !.state = "Paused"]
  BY <1>2, <1>4 DEF Subscription
<1> HIDE DEF c0
<1>7. /\ Unsent(sub) \in Subscription
      /\ Unsent(sub).credits_left = left /\ Unsent(sub).age = 0
      /\ Unsent(sub).subscriber = sub.subscriber
      /\ Unsent(sub).state = "Paused"
  <2>1. Unsent(sub) \in Subscription
    BY ZenonT(60), <1>5, <1>6, SetField DEF SubscriptionState
  <2> QED
    BY <1>5, <1>6, <2>1 DEF Subscription
<1>8. /\ Delivered(sub) \in Subscription
      /\ Delivered(sub).credits_left = left /\ Delivered(sub).age = 0
      /\ Delivered(sub).subscriber = sub.subscriber
      /\ Delivered(sub).state = IF left = 0 THEN "Finalized" ELSE sub.state
  <2> HIDE DEF left
  <2> QED
    BY SMTT(60), <1>3, <1>5, FinalizedIfSpentFields
<1>9. /\ Idled(sub) \in Subscription
      /\ Idled(sub).credits_left = left /\ Idled(sub).age = sub.age
      /\ Idled(sub).subscriber = sub.subscriber
      /\ Idled(sub).state = IF left = 0 THEN "Finalized" ELSE sub.state
  <2> HIDE DEF left
  <2> QED
    BY <1>2, <1>3, FinalizedIfSpentFields
<1> QED
  BY <1>7, <1>8, <1>9

(* distribute leaves the metadata and the frequency alone, and writes      *)
(* last_delivered only for a pulse it tried to send.                       *)
LEMMA DistributedMetadata ==
    ASSUME NEW sub \in Subscription
    PROVE  /\ Delivered(sub).metadata = sub.metadata
           /\ Unsent(sub).metadata = sub.metadata
           /\ Idled(sub).metadata = sub.metadata
           /\ Delivered(sub).frequency = sub.frequency
           /\ Idled(sub).frequency = sub.frequency
<1> DEFINE Keeps(new, old) == /\ new.metadata = old.metadata
                              /\ new.frequency = old.frequency
           c  == Charged(sub, 1)
           c0 == [c EXCEPT !.age = 0]
<1>1. Keeps(c, sub)
  BY DEF Charged, Subscription
<1>2. ASSUME NEW x \in Subscription
      PROVE  Keeps(FinalizedIfSpent(x), x)
  BY DEF FinalizedIfSpent, Subscription
<1>3. c \in Subscription /\ c0 \in Subscription /\ Keeps(c0, c)
  <2>1. c \in Subscription
    BY ChargedFields
  <2> HIDE DEF c
  <2>2. 0 \in Frequencies
    BY ConstantTypes DEF Frequencies
  <2>3. c0 \in Subscription
    BY <2>1, <2>2, SetField
  <2>4. Keeps(c0, c)
    BY <2>1 DEF Subscription
  <2> QED
    BY <2>1, <2>3, <2>4
<1>4. /\ Delivered(sub) = FinalizedIfSpent(c0) /\ Idled(sub) = FinalizedIfSpent(c)
      /\ Unsent(sub) = [c EXCEPT !.age = 0, !.state = "Paused"]
  BY DEF Delivered, Idled, Unsent, get_consume_credits, get_idle_credits
<1> HIDE DEF c
<1>5. [c EXCEPT !.age = 0, !.state = "Paused"].metadata = c.metadata
  BY <1>3 DEF Subscription
<1> HIDE DEF c0
<1> QED
  BY <1>1, <1>2, <1>3, <1>4, <1>5

-----------------------------------------------------------------------------
(* The inductive invariant.                                                *)

(* Pulses sent and credits left stay within the credits granted; one pulse *)
(* is still owed to a live subscription without credits, because its last  *)
(* paid pulse could not be sent.                                           *)
WithinGrant(sub, sent, grant) ==
    /\ sub.state = "Finalized" => sub.credits_left = 0
    /\ sent + sub.credits_left <= grant
    /\ sub.state # "Finalized" /\ sub.credits_left = 0 => sent < grant

AllWithinGrant ==
    \A id \in DOMAIN Subscriptions :
      WithinGrant(Subscriptions[id], received[id], granted[id])

NothingSentToAbsent ==
    \A id \in SubIds \ DOMAIN Subscriptions : received[id] = 0

(* What was delivered in this block came from this block's one pulse, and  *)
(* has been visited by its loop.                                           *)
DeliveredThisBlock ==
    phase = "execute" =>
      /\ todo # {} => DidUpdate
      /\ \A id \in DOMAIN Subscriptions :
           Subscriptions[id].age = 0 => DidUpdate /\ id \notin todo

AllSound == \A a \in Accounts : Sound(balances[a])

IInv ==
    /\ TypeOK
    /\ CounterMatchesStorage
    /\ AllSound
    /\ AllWithinGrant
    /\ NothingSentToAbsent
    /\ DeliveredThisBlock

(* A credit used by a live or idle subscription, with or without a pulse. *)
LEMMA UsedWithinGrant ==
    \A sent, c, grant \in Nat :
      LET left == IF c = 0 THEN 0 ELSE c - 1
      IN  sent + c <= grant /\ (c = 0 => sent < grant) =>
            /\ sent + left <= grant /\ (left = 0 => sent < grant)
            /\ sent + 1 \in Nat /\ (sent + 1) + left <= grant
OBVIOUS

(* Only one account changes. *)
LEMMA SetBalanceSound ==
    ASSUME TypeOK, AllSound, NEW a \in Accounts, NEW acc, Sound(acc),
           SetBalance(a, acc)
    PROVE  balances' \in [Accounts -> Account] /\ AllSound'
<1>1. balances \in [Accounts -> Account] /\ acc \in Account
  BY DEF TypeOK, Sound
<1>2. balances' = [balances EXCEPT ![a] = acc]
  BY DEF SetBalance
<1>3. balances' \in [Accounts -> Account]
  BY <1>1, <1>2
<1>4. ASSUME NEW b \in Accounts
      PROVE  Sound(balances'[b])
  <2>1. CASE b = a
    BY <1>1, <1>2, <2>1
  <2>2. CASE b # a
    <3>1. balances'[b] = balances[b]
      BY <1>1, <1>2, <2>2
    <3> QED
      BY <3>1 DEF AllSound
  <2> QED
    BY <2>1, <2>2
<1>5. AllSound'
  BY <1>4 DEF AllSound
<1> QED
  BY <1>3, <1>5

(* A subscription in storage is replaced: pause_subscription,              *)
(* reactivate_subscription, update_subscription and the iterations of      *)
(* distribute.                                                             *)
LEMMA ReplacePreserves ==
    ASSUME IInv,
           NEW id \in DOMAIN Subscriptions,
           NEW new \in Subscription,
           Insert(id, new),
           balances' \in [Accounts -> Account], AllSound',
           UNCHANGED <<SubCounter, granted, DidUpdate, phase>>,
           todo' \subseteq todo,
           received' \in [SubIds -> Nat],
           \A x \in SubIds \ {id} : received'[x] = received[x],
           repriced' \subseteq Accounts, resized' \subseteq Accounts,
           WithinGrant(new, received'[id], granted[id]),
           phase = "execute" /\ new.age = 0 => DidUpdate /\ id \notin todo'
    PROVE  IInv'
<1>1. TypeOK
  BY DEF IInv
<1>2. /\ DOMAIN Subscriptions \subseteq SubIds
      /\ Subscriptions \in [DOMAIN Subscriptions -> Subscription]
      /\ todo \subseteq DOMAIN Subscriptions
  BY <1>1 DEF TypeOK
<1>3. /\ DOMAIN Subscriptions' = DOMAIN Subscriptions
      /\ Subscriptions' \in [DOMAIN Subscriptions -> Subscription]
      /\ Subscriptions'[id] = new
      /\ \A x \in DOMAIN Subscriptions \ {id} : Subscriptions'[x] = Subscriptions[x]
  BY <1>2 DEF Insert
<1>4. TypeOK'
  BY SMTT(60), <1>1, <1>2, <1>3 DEF TypeOK
<1>5. CounterMatchesStorage'
  BY <1>3 DEF IInv, CounterMatchesStorage
<1>6. AllWithinGrant'
  <2> SUFFICES ASSUME NEW x \in DOMAIN Subscriptions
               PROVE  WithinGrant(Subscriptions'[x], received'[x], granted[x])
    BY <1>3 DEF AllWithinGrant
  <2>1. CASE x = id
    BY SMTT(60), <1>3, <2>1
  <2>2. CASE x # id
    <3>1. Subscriptions'[x] = Subscriptions[x] /\ received'[x] = received[x]
      BY SMTT(60), <1>2, <1>3, <2>2
    <3> QED
      BY <3>1 DEF IInv, AllWithinGrant
  <2> QED
    BY SMTT(60), <2>1, <2>2
<1>7. NothingSentToAbsent'
  BY <1>2, <1>3 DEF IInv, NothingSentToAbsent
<1>8. DeliveredThisBlock'
  BY <1>2, <1>3 DEF IInv, DeliveredThisBlock
<1> QED
  BY SMTT(60), <1>4, <1>5, <1>6, <1>7, <1>8 DEF IInv

(* A subscription is removed: kill_subscription and on_finalize.           *)
LEMMA RemovePreserves ==
    ASSUME IInv,
           NEW id \in DOMAIN Subscriptions,
           Remove(id),
           balances' \in [Accounts -> Account], AllSound',
           UNCHANGED <<DidUpdate, phase, repriced, resized>>,
           todo' \subseteq todo \ {id}
    PROVE  IInv'
<1>1. TypeOK
  BY DEF IInv
<1>2. /\ DOMAIN Subscriptions \subseteq SubIds
      /\ Subscriptions \in [DOMAIN Subscriptions -> Subscription]
      /\ todo \subseteq DOMAIN Subscriptions
      /\ received \in [SubIds -> Nat] /\ granted \in [SubIds -> 0..U64Max]
      /\ SubCounter \in Nat
  BY <1>1 DEF TypeOK
<1>3. /\ DOMAIN Subscriptions' = DOMAIN Subscriptions \ {id}
      /\ Subscriptions' \in [DOMAIN Subscriptions \ {id} -> Subscription]
      /\ \A x \in DOMAIN Subscriptions \ {id} : Subscriptions'[x] = Subscriptions[x]
      /\ SubCounter' = SaturatingSub(SubCounter, 1)
  BY <1>2 DEF Remove
<1>4. /\ received' \in [SubIds -> Nat] /\ granted' \in [SubIds -> 0..U64Max]
      /\ received'[id] = 0
      /\ \A x \in SubIds \ {id} : received'[x] = received[x] /\ granted'[x] = granted[x]
  BY SMTT(60), <1>2, ConstantTypes DEF Remove
<1>5. CounterMatchesStorage' /\ SubCounter' \in Nat
  <2>1. IsFiniteSet(DOMAIN Subscriptions)
    BY SMTT(60), <1>2, ManagerAssumption, FS_Subset
  <2>2. Cardinality(DOMAIN Subscriptions \ {id}) = Cardinality(DOMAIN Subscriptions) - 1
    BY SMTT(60), <2>1, FS_RemoveElement
  <2>3. Cardinality(DOMAIN Subscriptions \ {id}) \in Nat
    BY SMTT(60), <2>1, FS_RemoveElement, FS_CardinalityType
  <2>4. SubCounter = Cardinality(DOMAIN Subscriptions) /\ SubCounter <= MaxSubscriptions
    BY DEF IInv, CounterMatchesStorage
  <2> QED
    BY SMTT(60), <1>2, <1>3, <2>2, <2>3, <2>4, ConstantTypes
       DEF CounterMatchesStorage, SaturatingSub
<1>6. TypeOK'
  BY SMTT(60), <1>1, <1>2, <1>3, <1>4, <1>5 DEF TypeOK
<1>7. AllWithinGrant'
  <2> SUFFICES ASSUME NEW x \in DOMAIN Subscriptions \ {id}
               PROVE  WithinGrant(Subscriptions'[x], received'[x], granted'[x])
    BY <1>3 DEF AllWithinGrant
  <2>1. /\ Subscriptions'[x] = Subscriptions[x]
        /\ received'[x] = received[x] /\ granted'[x] = granted[x]
    BY SMTT(60), <1>2, <1>3, <1>4
  <2> QED
    BY <2>1 DEF IInv, AllWithinGrant
<1>8. NothingSentToAbsent'
  BY <1>2, <1>3, <1>4 DEF IInv, NothingSentToAbsent
<1>9. DeliveredThisBlock'
  BY <1>2, <1>3 DEF IInv, DeliveredThisBlock
<1> QED
  BY SMTT(60), <1>5, <1>6, <1>7, <1>8, <1>9 DEF IInv

-----------------------------------------------------------------------------
(* The dispatchables preserve the invariant.                               *)

(* create_subscription. *)
LEMMA CreatePreserves ==
    ASSUME IInv, NEW a \in Accounts, NEW id \in SubIds,
           NEW c \in CreditChoices, NEW f \in FrequencyChoices,
           NEW m \in MetadataSizes,
           create_subscription(a, id, c, f, m)
    PROVE  IInv'
<1> DEFINE sub     == NewSubscription(a, c, f, m)
           fees    == calculate_subscription_fees(c)
           deposit == calculate_storage_deposit(sub)
<1>1. TypeOK
  BY DEF IInv
<1>2. /\ DOMAIN Subscriptions \subseteq SubIds
      /\ Subscriptions \in [DOMAIN Subscriptions -> Subscription]
      /\ received \in [SubIds -> Nat] /\ granted \in [SubIds -> 0..U64Max]
      /\ SubCounter \in Nat
      /\ IsFiniteSet(DOMAIN Subscriptions)
  <2>1. DOMAIN Subscriptions \subseteq SubIds
    BY <1>1 DEF TypeOK
  <2>2. IsFiniteSet(DOMAIN Subscriptions)
    BY SMTT(60), <2>1, ManagerAssumption, FS_Subset
  <2> QED
    BY <1>1, <2>2 DEF TypeOK
<1>3. c \in 0..U64Max /\ c # 0 /\ f \in Frequencies
  BY ManagerAssumption DEF create_subscription, Frequencies
<1>4. sub \in Subscription
  BY <1>3 DEF NewSubscription, Subscription, SubscriptionState
<1>5. /\ sub.state = "Active" /\ sub.credits_left = c /\ sub.age = Never
  BY DEF NewSubscription
<1>6. balances' \in [Accounts -> Account] /\ AllSound'
  <2>1. fees \in Nat /\ deposit \in Nat
    BY SMTT(60), <1>3, <1>4, FeesType, DiffTypes, ConstantTypes
  <2>2. Sound(balances[a])
    BY DEF IInv, AllSound
  <2>3. /\ CanHold(balances[a], fees)
        /\ CanHold(hold_fees(balances[a], fees), deposit)
        /\ SetBalance(a, hold_deposit(hold_fees(balances[a], fees), deposit))
    BY SMTT(60) DEF create_subscription
  <2> HIDE DEF fees, deposit
  <2>4. Sound(hold_fees(balances[a], fees))
    BY SMTT(60), <2>1, <2>2, <2>3, MovesAreSound
  <2>5. Sound(hold_deposit(hold_fees(balances[a], fees), deposit))
    BY SMTT(60), <2>1, <2>3, <2>4, MovesAreSound
  <2> QED
    BY SMTT(60), <1>1, <2>3, <2>5, SetBalanceSound DEF IInv
<1>7. /\ id \notin DOMAIN Subscriptions
      /\ Insert(id, sub)
      /\ SubCounter' = SubCounter + 1 /\ SubCounter < MaxSubscriptions
      /\ granted' = [granted EXCEPT ![id] = c]
      /\ todo = {} /\ phase = "execute"
      /\ UNCHANGED <<DidUpdate, phase, todo, received, repriced, resized>>
  BY DEF create_subscription, Executing, InStorage
<1> HIDE DEF sub
<1>8. /\ DOMAIN Subscriptions' = DOMAIN Subscriptions \cup {id}
      /\ Subscriptions' \in [DOMAIN Subscriptions \cup {id} -> Subscription]
      /\ Subscriptions'[id] = sub
      /\ \A x \in DOMAIN Subscriptions : Subscriptions'[x] = Subscriptions[x]
  BY SMTT(60), <1>2, <1>4, <1>7 DEF Insert
<1>9. /\ granted' \in [SubIds -> 0..U64Max] /\ granted'[id] = c
      /\ \A x \in SubIds \ {id} : granted'[x] = granted[x]
  BY SMTT(60), <1>2, <1>3, <1>7
<1>10. TypeOK'
  BY SMTT(60), <1>1, <1>2, <1>6, <1>7, <1>8, <1>9 DEF TypeOK
<1>11. CounterMatchesStorage'
  <2>1. Cardinality(DOMAIN Subscriptions \cup {id}) = Cardinality(DOMAIN Subscriptions) + 1
    BY ZenonT(60), <1>2, <1>7, FS_AddElement
  <2> QED
    BY SMTT(60), <1>2, <1>7, <1>8, <2>1, ConstantTypes DEF IInv, CounterMatchesStorage
<1>12. AllWithinGrant'
  <2> SUFFICES ASSUME NEW x \in DOMAIN Subscriptions \cup {id}
               PROVE  WithinGrant(Subscriptions'[x], received[x], granted'[x])
    BY ZenonT(60), <1>7, <1>8 DEF AllWithinGrant
  <2>1. CASE x = id
    <3>1. received[x] = 0
      BY SMTT(60), <1>7, <2>1 DEF IInv, NothingSentToAbsent
    <3> QED
      BY SMTT(60), <1>3, <1>5, <1>8, <1>9, <2>1, <3>1, ConstantTypes DEF WithinGrant, sub
  <2>2. CASE x # id
    <3>1. Subscriptions'[x] = Subscriptions[x] /\ granted'[x] = granted[x]
      BY SMTT(60), <1>2, <1>8, <1>9, <2>2
    <3> QED
      BY <2>2, <3>1 DEF IInv, AllWithinGrant
  <2> QED
    BY ZenonT(60), <2>1, <2>2
<1>13. NothingSentToAbsent'
  BY SMTT(60), <1>7, <1>8 DEF IInv, NothingSentToAbsent
<1>14. DeliveredThisBlock'
  <2>1. sub.age # 0
    BY SMTT(60), <1>5 DEF Never, sub
  <2> QED
    BY SMTT(60), <1>7, <1>8, <2>1 DEF IInv, DeliveredThisBlock
<1> QED
  BY SMTT(60), <1>6, <1>10, <1>11, <1>12, <1>13, <1>14 DEF IInv

(* pause_subscription and reactivate_subscription: the state of a live     *)
(* subscription changes.                                                   *)
LEMMA SetStatePreserves ==
    ASSUME IInv, NEW id \in DOMAIN Subscriptions,
           Subscriptions[id].state # "Finalized",
           NEW state \in {"Active", "Paused"},
           SetState(id, state)
    PROVE  IInv'
<1> DEFINE sub == Subscriptions[id]
           new == [sub EXCEPT !.state = state]
<1>1. TypeOK /\ sub \in Subscription
  BY DEF IInv, TypeOK
<1>2. new \in Subscription
  BY ZenonT(60), <1>1, SetField DEF SubscriptionState
<1>3. /\ new.state = state /\ new.credits_left = sub.credits_left
      /\ new.age = sub.age
  BY <1>1 DEF Subscription
<1>4. /\ Insert(id, new)
      /\ UNCHANGED <<SubCounter, balances, DidUpdate, phase, todo, granted,
                     received, repriced, resized>>
  BY ZenonT(60) DEF SetState
<1>5. WithinGrant(sub, received[id], granted[id])
  BY DEF IInv, AllWithinGrant
<1>6. phase = "execute" /\ sub.age = 0 => DidUpdate /\ id \notin todo
  BY SMTT(60) DEF IInv, DeliveredThisBlock
<1> HIDE DEF new
<1>7. WithinGrant(new, received'[id], granted[id])
  BY <1>3, <1>4, <1>5 DEF WithinGrant
<1>8. AllSound'
  BY <1>4 DEF IInv, AllSound
<1>9. /\ balances' \in [Accounts -> Account] /\ received' \in [SubIds -> Nat]
      /\ repriced' \subseteq Accounts /\ resized' \subseteq Accounts
      /\ todo' \subseteq todo
      /\ \A x \in SubIds \ {id} : received'[x] = received[x]
  BY <1>1, <1>4 DEF TypeOK
<1> QED
  BY SMTT(60), <1>2, <1>3, <1>4, <1>6, <1>7, <1>8, <1>9, ReplacePreserves

(* kill_subscription. *)
LEMMA KillPreserves ==
    ASSUME IInv, NEW a \in Accounts, NEW id \in SubIds,
           kill_subscription(a, id)
    PROVE  IInv'
<1>1. /\ TypeOK /\ id \in DOMAIN Subscriptions
      /\ Subscriptions[id] \in Subscription /\ todo = {}
  BY DEF IInv, TypeOK, kill_subscription, CallBy, InStorage, Executing
<1>2. Sound(balances[a])
  BY ZenonT(60) DEF IInv, AllSound
<1>3. Sound(Terminated(balances[a], Subscriptions[id]).acc)
  BY <1>1, <1>2, TerminationIsSound DEF kill_subscription
<1>4. balances' \in [Accounts -> Account] /\ AllSound'
  BY SMTT(60), <1>1, <1>3, SetBalanceSound DEF IInv, kill_subscription
<1>5. /\ Remove(id) /\ UNCHANGED <<DidUpdate, phase, repriced, resized>>
      /\ todo' \subseteq todo \ {id}
  BY ZenonT(60), <1>1 DEF kill_subscription
<1> QED
  BY SMTT(60), <1>1, <1>4, <1>5, RemovePreserves

(* update_subscription. *)
LEMMA UpdatePreserves ==
    ASSUME IInv, NEW a \in Accounts, NEW id \in SubIds,
           NEW c \in 0..U64Max, NEW f \in Frequencies,
           NEW m \in MetadataSizes,
           update_subscription(a, id, c, f, m)
    PROVE  IInv'
<1> DEFINE old == Subscriptions[id]
           new == [old EXCEPT !.credits = c, !.frequency = f, !.metadata = m]
           fd  == calculate_diff_fees(old.credits, c)
           dd  == calculate_diff_deposit(new, new)
           acc == manage_diff_fees(balances[a], fd)
<1>1. /\ TypeOK /\ id \in DOMAIN Subscriptions
      /\ old \in Subscription
  BY DEF IInv, TypeOK, update_subscription, CallBy, InStorage
<1>2. c \in 0..U64Max /\ f \in Frequencies
  OBVIOUS
<1>3. new \in Subscription
  <2>1. new = [[[old EXCEPT !.credits = c] EXCEPT !.frequency = f]
                 EXCEPT !.metadata = m]
    BY <1>1 DEF Subscription
  <2> QED
    BY ZenonT(60), <1>1, <1>2, <2>1, SetField
<1>4. /\ new.state = old.state /\ new.credits_left = old.credits_left
      /\ new.age = old.age
  BY <1>1 DEF Subscription
<1>5. /\ CanManageDiffFees(balances[a], fd)
      /\ CanManageDiffDeposit(acc, dd)
      /\ SetBalance(a, manage_diff_deposit(acc, dd))
      /\ Insert(id, new)
      /\ repriced' = IF c = old.credits THEN repriced ELSE repriced \cup {a}
      /\ resized' = IF m = old.metadata THEN resized ELSE resized \cup {a}
      /\ UNCHANGED <<SubCounter, DidUpdate, phase, todo, granted, received>>
  BY DEF update_subscription
<1>6. fd \in Diff /\ dd \in Diff
  BY SMTT(60), <1>1, <1>2, <1>3, DiffTypes, SubscriptionFields
<1>7. WithinGrant(old, received[id], granted[id])
  BY <1>1 DEF IInv, AllWithinGrant
<1>8. phase = "execute" /\ old.age = 0 => DidUpdate /\ id \notin todo
  BY SMTT(60), <1>1 DEF IInv, DeliveredThisBlock
<1>9. Sound(balances[a])
  BY DEF IInv, AllSound
<1> HIDE DEF fd, dd, new
<1>10. Sound(acc)
  BY ZenonT(60), <1>5, <1>6, <1>9, ManageDiffsAreSound
<1> HIDE DEF acc
<1>11. Sound(manage_diff_deposit(acc, dd))
  BY ZenonT(60), <1>5, <1>6, <1>10, ManageDiffsAreSound
<1>12. balances' \in [Accounts -> Account] /\ AllSound'
  BY SMTT(60), <1>1, <1>5, <1>11, SetBalanceSound DEF IInv
<1>13. WithinGrant(new, received'[id], granted[id])
  BY ZenonT(60), <1>4, <1>5, <1>7 DEF WithinGrant
<1>14. /\ received' \in [SubIds -> Nat]
       /\ repriced' \subseteq Accounts /\ resized' \subseteq Accounts
       /\ todo' \subseteq todo
       /\ \A x \in SubIds \ {id} : received'[x] = received[x]
  BY <1>1, <1>5 DEF TypeOK
<1> QED
  BY SMTT(60), <1>1, <1>3, <1>4, <1>5, <1>8, <1>12, <1>13, <1>14, ReplacePreserves

-----------------------------------------------------------------------------
(* The iterations of distribute preserve the invariant: a collection, full *)
(* or partial, and a subscription that is delivered, unpaid, unsent or     *)
(* idle.                                                                   *)
LEMMA DistributePreserves ==
    ASSUME IInv, NEW id \in SubIds, Distribute(id)
    PROVE  IInv'
<1> DEFINE sub == Subscriptions[id]
           a   == sub.subscriber
<1>1. /\ Distributing(id)
      /\ phase = "execute" /\ id \in todo /\ todo' = todo \ {id}
      /\ UNCHANGED <<SubCounter, DidUpdate, phase, granted, repriced, resized>>
  BY SMTT(60) DEF Distribute, DeliverPulse, PauseUnpaid, PauseUnsent, IdlePulse, Distributing
<1>2. /\ TypeOK /\ id \in DOMAIN Subscriptions
      /\ sub \in Subscription /\ a \in Accounts
  BY SMTT(60), <1>1, SubscriptionFields DEF IInv, TypeOK
<1>3. DidUpdate
  BY SMTT(60), <1>1 DEF IInv, DeliveredThisBlock
<1>4. /\ WithinGrant(sub, received[id], granted[id])
      /\ received[id] \in Nat /\ granted[id] \in Nat
  BY SMTT(60), <1>2, ConstantTypes DEF IInv, AllWithinGrant, TypeOK
<1>5. /\ Sound(Collect(id, get_consume_credits).acc)
      /\ Sound(Collect(id, get_idle_credits).acc)
  <2>1. Sound(balances[a])
    BY <1>2 DEF IInv, AllSound
  <2>2. get_consume_credits \in {1} /\ get_idle_credits \in {1}
    BY DEF get_consume_credits, get_idle_credits
  <2> QED
    BY SMTT(60), <1>2, <2>1, <2>2, CollectionIsSound DEF Collect
<1>6. balances' \in [Accounts -> Account] /\ AllSound'
  <2>1. \/ SetBalance(a, Collect(id, get_consume_credits).acc)
        \/ SetBalance(a, Collect(id, get_idle_credits).acc)
    BY ZenonT(60) DEF Distribute, DeliverPulse, PauseUnpaid, PauseUnsent, IdlePulse
  <2> QED
    BY SMTT(60), <1>2, <1>5, <2>1, SetBalanceSound DEF IInv
<1>7. ASSUME NEW new \in Subscription, Insert(id, new),
             received' \in [SubIds -> Nat],
             \A x \in SubIds \ {id} : received'[x] = received[x],
             WithinGrant(new, received'[id], granted[id])
      PROVE  IInv'
  <2>1. repriced' \subseteq Accounts /\ resized' \subseteq Accounts
    BY <1>1, <1>2 DEF TypeOK
  <2> QED
    BY SMTT(60), <1>1, <1>2, <1>3, <1>6, <1>7, <2>1, ReplacePreserves
<1>8. received \in [SubIds -> Nat]
  BY <1>2 DEF TypeOK
<1>9. sub.credits_left \in Nat
  BY ZenonT(60), <1>2, SubscriptionFields
<1>10. CASE DeliverPulse(id)
  <2>1. /\ Insert(id, Delivered(sub)) /\ sub.state = "Active"
        /\ received' = [received EXCEPT ![id] = @ + 1]
    BY SMTT(60), <1>10 DEF DeliverPulse, Delivered, Eligible
  <2>2. /\ received' \in [SubIds -> Nat] /\ received'[id] = received[id] + 1
        /\ \A x \in SubIds \ {id} : received'[x] = received[x]
    <3>1. received[id] + 1 \in Nat
      BY <1>4
    <3> QED
      BY ZenonT(60), <1>8, <2>1, <3>1
  <2>3. WithinGrant(Delivered(sub), received'[id], granted[id])
    <3> DEFINE left == IF sub.credits_left = 0 THEN 0 ELSE sub.credits_left - 1
    <3>1. (received[id] + 1) + left <= granted[id]
      BY ZenonT(60), <1>4, <1>9, <2>1, UsedWithinGrant DEF WithinGrant
    <3>2. /\ Delivered(sub).credits_left = left
          /\ Delivered(sub).state = IF left = 0 THEN "Finalized" ELSE sub.state
      BY ZenonT(60), <1>2, DistributedFields
    <3> HIDE DEF left
    <3> QED
      BY ZenonT(60), <2>1, <2>2, <3>1, <3>2 DEF WithinGrant
  <2> QED
    BY SMTT(60), <1>2, <1>7, <2>1, <2>2, <2>3, DistributedFields
<1>11. CASE PauseUnpaid(id)
  <2> DEFINE new == [sub EXCEPT !.state = "Paused"]
  <2>1. Insert(id, new) /\ received' = received /\ sub.state = "Active"
    BY <1>11 DEF PauseUnpaid, Eligible
  <2>2. new \in Subscription
    BY ZenonT(60), <1>2, SetField DEF SubscriptionState
  <2>3. new.state = "Paused" /\ new.credits_left = sub.credits_left
    BY SMTT(60), <1>2 DEF Subscription
  <2> HIDE DEF new
  <2>4. WithinGrant(new, received'[id], granted[id])
    BY ZenonT(60), <1>4, <2>1, <2>3 DEF WithinGrant
  <2> QED
    BY SMTT(60), <1>7, <1>8, <2>1, <2>2, <2>4
<1>12. CASE PauseUnsent(id)
  <2>1. /\ Insert(id, Unsent(sub)) /\ received' = received
        /\ sub.state = "Active"
    BY ZenonT(60), <1>12 DEF PauseUnsent, Unsent, Eligible
  <2>2. WithinGrant(Unsent(sub), received'[id], granted[id])
    <3> DEFINE left == IF sub.credits_left = 0 THEN 0 ELSE sub.credits_left - 1
    <3>1. received[id] + left <= granted[id] /\ (left = 0 => received[id] < granted[id])
      BY ZenonT(60), <1>4, <1>9, <2>1, UsedWithinGrant DEF WithinGrant
    <3>2. Unsent(sub).credits_left = left /\ Unsent(sub).state = "Paused"
      BY ZenonT(60), <1>2, DistributedFields
    <3> HIDE DEF left
    <3> QED
      BY ZenonT(60), <2>1, <3>1, <3>2 DEF WithinGrant
  <2> QED
    BY SMTT(60), <1>2, <1>7, <1>8, <2>1, <2>2, DistributedFields
<1>13. CASE IdlePulse(id)
  <2>1. Insert(id, Idled(sub)) /\ received' = received
    BY ZenonT(60), <1>13 DEF IdlePulse, Idled
  <2>2. WithinGrant(Idled(sub), received'[id], granted[id])
    BY SMTT(60), <1>2, <1>4, <1>9, <2>1, DistributedFields DEF WithinGrant
  <2> QED
    BY SMTT(60), <1>2, <1>7, <1>8, <2>1, <2>2, DistributedFields
<1> QED
  BY SMTT(60), <1>10, <1>11, <1>12, <1>13 DEF Distribute

(* dispatch and on_finalize only start a loop. *)
LEMMA LoopStartPreserves ==
    ASSUME IInv, dispatch \/ on_finalize
    PROVE  IInv'
<1>1. CASE dispatch
  <2>1. /\ ~DidUpdate /\ DidUpdate' = TRUE /\ todo' = DOMAIN Subscriptions
        /\ phase = "execute" /\ todo = {}
        /\ UNCHANGED <<Subscriptions, SubCounter, balances, phase, granted,
                       received, repriced, resized>>
    BY SMTT(60), <1>1 DEF dispatch, Executing
  <2>2. TypeOK'
    BY SMTT(60), <2>1 DEF IInv, TypeOK
  <2>3. DeliveredThisBlock'
    BY SMTT(60), <2>1 DEF IInv, DeliveredThisBlock
  <2>4. CounterMatchesStorage' /\ AllSound' /\ AllWithinGrant' /\ NothingSentToAbsent'
    BY SMTT(60), <2>1 DEF IInv, CounterMatchesStorage, AllSound, AllWithinGrant,
                NothingSentToAbsent
  <2> QED
    BY SMTT(60), <2>2, <2>3, <2>4 DEF IInv
<1>2. CASE on_finalize
  <2>1. /\ todo' \subseteq DOMAIN Subscriptions /\ phase' = "finalize"
        /\ UNCHANGED <<Subscriptions, SubCounter, balances, DidUpdate, granted,
                       received, repriced, resized>>
    BY SMTT(60), <1>2 DEF on_finalize, FinalizedIds
  <2>2. TypeOK'
    BY SMTT(60), <2>1 DEF IInv, TypeOK
  <2>3. DeliveredThisBlock'
    BY SMTT(60), <2>1 DEF DeliveredThisBlock
  <2>4. CounterMatchesStorage' /\ AllSound' /\ AllWithinGrant' /\ NothingSentToAbsent'
    BY SMTT(60), <2>1 DEF IInv, CounterMatchesStorage, AllSound, AllWithinGrant,
                NothingSentToAbsent
  <2> QED
    BY <2>2, <2>3, <2>4 DEF IInv
<1> QED
  BY <1>1, <1>2

(* An iteration of on_finalize. *)
LEMMA TerminatePreserves ==
    ASSUME IInv, NEW id \in SubIds, TerminateFinalized(id)
    PROVE  IInv'
<1> DEFINE sub == Subscriptions[id]
           end == Terminated(balances[sub.subscriber], sub)
<1>1. /\ phase = "finalize" /\ id \in todo /\ todo' = todo \ {id}
      /\ UNCHANGED <<DidUpdate, phase, repriced, resized>>
  BY SMTT(60) DEF TerminateFinalized
<1>2. /\ TypeOK /\ id \in DOMAIN Subscriptions /\ sub \in Subscription
      /\ sub.subscriber \in Accounts
  BY SMTT(60), <1>1, SubscriptionFields DEF IInv, TypeOK
<1>3. CASE end.ok
  <2>1. SetBalance(sub.subscriber, end.acc) /\ Remove(id)
    BY SMTT(60), <1>3 DEF TerminateFinalized
  <2>2. Sound(end.acc)
    BY SMTT(60), <1>2, <1>3, TerminationIsSound DEF IInv, AllSound
  <2>3. balances' \in [Accounts -> Account] /\ AllSound'
    BY SMTT(60), <1>2, <2>1, <2>2, SetBalanceSound DEF IInv
  <2> QED
    BY ZenonT(60), <1>1, <1>2, <2>1, <2>3, RemovePreserves
<1>4. CASE ~end.ok
  <2>1. UNCHANGED <<Subscriptions, SubCounter, balances, granted, received>>
    BY SMTT(60), <1>4 DEF TerminateFinalized
  <2>2. TypeOK'
    BY SMTT(60), <1>1, <1>2, <2>1 DEF TypeOK
  <2>3. DeliveredThisBlock'
    BY SMTT(60), <1>1 DEF DeliveredThisBlock
  <2>4. CounterMatchesStorage' /\ AllSound' /\ AllWithinGrant' /\ NothingSentToAbsent'
    BY <2>1 DEF IInv, CounterMatchesStorage, AllSound, AllWithinGrant,
                NothingSentToAbsent
  <2> QED
    BY ZenonT(60), <2>2, <2>3, <2>4 DEF IInv
<1> QED
  BY SMTT(60), <1>3, <1>4

(* A new block: every delivery is now at least one block old. *)
LEMMA NextBlockPreserves ==
    ASSUME IInv, NextBlock
    PROVE  IInv'
<1> DEFINE S  == Subscriptions
           S1 == Subscriptions'
<1>1. /\ S1 = [id \in DOMAIN S |-> [S[id] EXCEPT !.age = Older(S[id].age)]]
      /\ todo = {} /\ todo' = {} /\ DidUpdate' = FALSE /\ phase' = "execute"
      /\ UNCHANGED <<SubCounter, balances, granted, received, repriced, resized>>
  BY DEF NextBlock
<1>2. TypeOK
  BY DEF IInv
<1>3. ASSUME NEW x \in {Never} \cup Frequencies
      PROVE  Older(x) \in {Never} \cup Frequencies /\ Older(x) # 0
  BY ConstantTypes DEF Older, Never, Frequencies, Lesser
<1>4. ASSUME NEW id \in DOMAIN S
      PROVE  /\ S1[id] \in Subscription
             /\ S1[id].state = S[id].state
             /\ S1[id].credits_left = S[id].credits_left
             /\ S1[id].age # 0
  <2>1. S[id] \in Subscription
    BY <1>2 DEF TypeOK
  <2> DEFINE age == Older(S[id].age)
  <2>2. age \in {Never} \cup Frequencies /\ age # 0
    BY <1>3, <2>1, SubscriptionFields
  <2>3. S1[id] = [S[id] EXCEPT !.age = age]
    BY <1>1
  <2> HIDE DEF age
  <2>4. S1[id] \in Subscription
    BY SMTT(60), <2>1, <2>2, <2>3, SetField
  <2> QED
    BY SMTT(60), <2>1, <2>2, <2>3, <2>4 DEF Subscription
<1>5. DOMAIN S1 = DOMAIN S /\ S1 \in [DOMAIN S -> Subscription]
  BY ZenonT(60), <1>1, <1>4
<1>6. TypeOK'
  BY ZenonT(60), <1>1, <1>2, <1>5 DEF TypeOK
<1>7. CounterMatchesStorage' /\ AllSound' /\ NothingSentToAbsent'
  BY <1>1, <1>5 DEF IInv, CounterMatchesStorage, AllSound, NothingSentToAbsent
<1>8. AllWithinGrant'
  BY ZenonT(60), <1>1, <1>4, <1>5 DEF IInv, AllWithinGrant, WithinGrant
<1>9. DeliveredThisBlock'
  BY <1>1, <1>4, <1>5 DEF DeliveredThisBlock
<1> QED
  BY SMTT(60), <1>6, <1>7, <1>8, <1>9 DEF IInv

-----------------------------------------------------------------------------
(* The genesis state, without subscriptions, satisfies the invariant.      *)
LEMMA InitEstablishes == Init => IInv
<1> SUFFICES ASSUME Init
             PROVE  IInv
  OBVIOUS
<1> DEFINE fresh == [free |-> Endowment, fees |-> 0, deposit |-> 0, paid |-> 0]
<1>1. DOMAIN Subscriptions = {} /\ Subscriptions \in [{} -> Subscription]
  BY DEF Init
<1>2. Sound(fresh)
  BY SMTT(60), ConstantTypes, ManagerAssumption DEF Sound, Account
<1>3. \A a \in Accounts : balances[a] = fresh
  BY DEF Init
<1> HIDE DEF fresh
<1>4. AllSound
  BY SMTT(60), <1>2, <1>3 DEF AllSound
<1>5. balances \in [Accounts -> Account]
  BY <1>2, <1>3 DEF Init, Sound
<1>6. TypeOK
  BY ZenonT(60), <1>1, <1>5, ConstantTypes DEF Init, TypeOK
<1>7. CounterMatchesStorage
  BY SMTT(60), <1>1, ConstantTypes, FS_EmptySet DEF Init, CounterMatchesStorage
<1>8. AllWithinGrant /\ NothingSentToAbsent /\ DeliveredThisBlock
  BY <1>1 DEF Init, AllWithinGrant, NothingSentToAbsent, DeliveredThisBlock
<1> QED
  BY <1>4, <1>6, <1>7, <1>8 DEF IInv

(* Every step of the pallet preserves the invariant. *)
LEMMA StepPreserves == IInv /\ [Next]_vars => IInv'
<1> SUFFICES ASSUME IInv, [Next]_vars
             PROVE  IInv'
  OBVIOUS
<1>1. ASSUME NEW a \in Accounts, NEW id \in SubIds, Call(a, id)
      PROVE  IInv'
  <2>1. ASSUME NEW c \in CreditChoices, NEW f \in FrequencyChoices,
               NEW m \in MetadataSizes, create_subscription(a, id, c, f, m)
        PROVE  IInv'
    BY SMTT(60), <2>1, CreatePreserves
  <2>2. CASE pause_subscription(a, id)
    BY <2>2, SetStatePreserves DEF pause_subscription, CallBy, InStorage
  <2>3. CASE kill_subscription(a, id)
    BY SMTT(60), <2>3, KillPreserves
  <2>4. ASSUME NEW c \in CreditChoices, NEW f \in FrequencyChoices,
               NEW m \in MetadataSizes, update_subscription(a, id, c, f, m)
        PROVE  IInv'
    <3>1. c \in 0..U64Max /\ f \in Frequencies
      BY ManagerAssumption DEF Frequencies
    <3> QED
      BY SMTT(60), <2>4, <3>1, UpdatePreserves
  <2>5. CASE reactivate_subscription(a, id)
    BY <2>5, SetStatePreserves DEF reactivate_subscription, CallBy, InStorage
  <2> QED
    BY SMTT(60), <1>1, <2>1, <2>2, <2>3, <2>4, <2>5 DEF Call
<1>2. CASE dispatch \/ on_finalize
  BY <1>2, LoopStartPreserves
<1>3. ASSUME NEW id \in SubIds, Distribute(id)
      PROVE  IInv'
  BY <1>3, DistributePreserves
<1>4. ASSUME NEW id \in SubIds, TerminateFinalized(id)
      PROVE  IInv'
  BY SMTT(60), <1>4, TerminatePreserves
<1>5. CASE NextBlock
  BY SMTT(60), <1>5, NextBlockPreserves
<1>6. CASE UNCHANGED vars
  <2>1. UNCHANGED <<Subscriptions, SubCounter, balances, DidUpdate, phase, todo,
                    granted, received, repriced, resized>>
    BY <1>6 DEF vars
  <2> QED
    BY SMTT(60), <2>1 DEF IInv, TypeOK, CounterMatchesStorage, AllSound, AllWithinGrant,
                NothingSentToAbsent, DeliveredThisBlock
<1> QED
  BY SMTT(60), <1>1, <1>2, <1>3, <1>4, <1>5, <1>6 DEF Next, BlockStep

(* The pallet's storage always has its type. *)
THEOREM TypeCorrect == Spec => []TypeOK
<1>1. IInv => TypeOK
  BY DEF IInv
<1> QED
  BY <1>1, InitEstablishes, StepPreserves, PTL DEF Spec

(* SubCounter is the number of subscriptions in storage, at most           *)
(* MaxSubscriptions.                                                       *)
THEOREM CounterIsExact == Spec => []CounterMatchesStorage
<1>1. IInv => CounterMatchesStorage
  BY SMTT(60) DEF IInv
<1> QED
  BY <1>1, InitEstablishes, StepPreserves, PTL DEF Spec

(* No call, pulse or hook creates or destroys an account's money.          *)
THEOREM MoneyIsConserved == Spec => []MoneyConserved
<1>1. IInv => MoneyConserved
  BY SMTT(60) DEF IInv, AllSound, Sound, MoneyConserved
<1> QED
  BY <1>1, InitEstablishes, StepPreserves, PTL DEF Spec

(* distribute never sends more pulses than the credits granted.            *)
THEOREM DeliveriesAreBounded == Spec => []DeliveriesBounded
<1>1. IInv => DeliveriesBounded
  BY SMTT(60) DEF IInv, AllWithinGrant, WithinGrant, DeliveriesBounded
<1> QED
  BY <1>1, InitEstablishes, StepPreserves, PTL DEF Spec

(* on_finalize only meets subscriptions without credits.                   *)
THEOREM FinalizedAreSpent == Spec => []FinalizedIsSpent
<1>1. IInv => FinalizedIsSpent
  BY DEF IInv, AllWithinGrant, WithinGrant, FinalizedIsSpent, FinalizedIds
<1> QED
  BY <1>1, InitEstablishes, StepPreserves, PTL DEF Spec

(* No subscription is sent two pulses in one block.                        *)
THEOREM DeliveredOncePerBlock == Spec => OncePerBlock
<1> DEFINE Once == \A id \in DOMAIN Subscriptions :
                     received'[id] > received[id] => Subscriptions[id].age # 0
<1>1. IInv /\ [Next]_vars => [Once]_vars
  <2> SUFFICES ASSUME IInv, Next, NEW id \in DOMAIN Subscriptions,
                      received'[id] > received[id]
               PROVE  Subscriptions[id].age # 0
    OBVIOUS
  <2>1. received \in [SubIds -> Nat] /\ id \in SubIds
    BY DEF IInv, TypeOK
  <2>2. ~(UNCHANGED received)
    BY <2>1
  <2>3. ASSUME NEW x \in SubIds, Remove(x)
        PROVE  FALSE
    <3>1. received' = [received EXCEPT ![x] = 0]
      BY <2>3 DEF Remove
    <3>2. received'[id] = received[id] \/ received'[id] = 0
      BY SMTT(60), <2>1, <3>1
    <3> QED
      BY <2>1, <3>2
  <2>4. PICK x \in SubIds : DeliverPulse(x)
    <3>1. ASSUME NEW a \in Accounts, NEW x \in SubIds, Call(a, x)
          PROVE  FALSE
      <4>1. UNCHANGED received \/ Remove(x)
        BY ZenonT(60), <3>1 DEF Call, create_subscription, pause_subscription,
           kill_subscription, update_subscription, reactivate_subscription,
           SetState
      <4> QED
        BY SMTT(60), <2>2, <2>3, <4>1
    <3>2. ~dispatch /\ ~on_finalize /\ ~NextBlock
      BY <2>2 DEF dispatch, on_finalize, NextBlock
    <3>3. ASSUME NEW x \in SubIds, TerminateFinalized(x)
          PROVE  FALSE
      <4>1. UNCHANGED received \/ Remove(x)
        BY SMTT(60), <3>3 DEF TerminateFinalized
      <4> QED
        BY ZenonT(60), <2>2, <2>3, <4>1
    <3>4. PICK x \in SubIds : Distribute(x)
      BY SMTT(60), <3>1, <3>2, <3>3 DEF Next, BlockStep
    <3>5. DeliverPulse(x)
      BY <2>2, <3>4 DEF Distribute, PauseUnpaid, PauseUnsent, IdlePulse
    <3> QED
      BY SMTT(60), <3>5
  <2>5. x = id
    BY <2>1, <2>4 DEF DeliverPulse
  <2> QED
    BY <2>4, <2>5 DEF DeliverPulse, Distributing, IInv, DeliveredThisBlock
<1> QED
  BY <1>1, InitEstablishes, StepPreserves, PTL DEF Spec, OncePerBlock

(* One stored subscription follows another: same subscriber, no credits    *)
(* regained, no way out of Finalized.                                      *)
Follows(new, old) ==
    /\ new.subscriber = old.subscriber
    /\ new.credits_left <= old.credits_left
    /\ old.state = "Finalized" => new.state = "Finalized"

(* While it is stored, a subscription keeps its subscriber, never regains  *)
(* credits and never leaves Finalized.                                     *)
THEOREM LifecycleIsRespected == Spec => Lifecycle
<1> DEFINE S  == Subscriptions
           S1 == Subscriptions'
           Step == \A id \in DOMAIN S \cap DOMAIN S1 : Follows(S1[id], S[id])
<1>1. ASSUME IInv, Next
      PROVE  Step
  <2>1. /\ \A x \in DOMAIN S : S[x] \in Subscription
        /\ \A x \in DOMAIN S : S[x].credits_left \in Nat
        /\ todo \subseteq DOMAIN S
    BY SMTT(60), <1>1, SubscriptionFields DEF IInv, TypeOK
  <2>2. \A x \in DOMAIN S : Follows(S[x], S[x])
    BY SMTT(60), <2>1 DEF Follows
  <2>3. ASSUME NEW id \in SubIds, NEW new, Insert(id, new),
               id \in DOMAIN S => Follows(new, S[id])
        PROVE  Step
    BY SMTT(60), <2>2, <2>3 DEF Insert
  <2>4. ASSUME NEW id \in SubIds, Remove(id)
        PROVE  Step
    BY SMTT(60), <2>2, <2>4 DEF Remove
  <2>5. ASSUME UNCHANGED Subscriptions
        PROVE  Step
    BY SMTT(60), <2>2, <2>5
  <2> HIDE DEF Step
  <2>6. ASSUME NEW a \in Accounts, NEW id \in SubIds, Call(a, id)
        PROVE  Step
    <3>1. ASSUME NEW c \in CreditChoices, NEW f \in FrequencyChoices,
                 NEW m \in MetadataSizes, create_subscription(a, id, c, f, m)
          PROVE  Step
      BY ZenonT(60), <2>3, <3>1 DEF create_subscription, InStorage
    <3>2. CASE pause_subscription(a, id) \/ reactivate_subscription(a, id)
      <4>1. PICK state \in SubscriptionState :
              /\ id \in DOMAIN S /\ S[id].state # "Finalized"
              /\ Insert(id, [S[id] EXCEPT !.state = state])
        BY <3>2 DEF pause_subscription, reactivate_subscription, SetState,
           CallBy, InStorage, SubscriptionState
      <4>2. Follows([S[id] EXCEPT !.state = state], S[id])
        BY SMTT(60), <2>1, <4>1 DEF Follows, Subscription
      <4> QED
        BY SMTT(60), <2>3, <4>1, <4>2
    <3>3. CASE kill_subscription(a, id)
      BY <2>4, <3>3, Zenon DEF kill_subscription
    <3>4. ASSUME NEW c \in CreditChoices, NEW f \in FrequencyChoices,
                 NEW m \in MetadataSizes, update_subscription(a, id, c, f, m)
          PROVE  Step
      <4> DEFINE new == [S[id] EXCEPT !.credits = c, !.frequency = f,
                                      !.metadata = m]
      <4>1. id \in DOMAIN S /\ Insert(id, new)
        BY <3>4 DEF update_subscription, CallBy, InStorage
      <4>2. Follows(new, S[id])
        BY SMTT(60), <2>1, <4>1 DEF Follows, Subscription
      <4> QED
        BY SMTT(60), <2>3, <4>1, <4>2
    <3> QED
      BY <2>6, <3>1, <3>2, <3>3, <3>4, Zenon DEF Call
  <2>7. ASSUME NEW id \in SubIds, Distribute(id)
        PROVE  Step
    <3> DEFINE sub == S[id]
    <3>1. id \in DOMAIN S /\ sub \in Subscription /\ sub.credits_left \in Nat
      BY SMTT(60), <2>1, <2>7 DEF Distribute, DeliverPulse, PauseUnpaid, PauseUnsent,
         IdlePulse, Distributing
    <3>2. sub.state = "Finalized" => sub.credits_left = 0
      BY SMTT(60), <1>1, <3>1 DEF IInv, AllWithinGrant, WithinGrant
    <3>3. \/ /\ sub.state = "Active"
             /\ \/ Insert(id, Delivered(sub))
                \/ Insert(id, Unsent(sub))
                \/ Insert(id, [sub EXCEPT !.state = "Paused"])
          \/ Insert(id, Idled(sub))
      BY ZenonT(60), <2>7 DEF Distribute, DeliverPulse, PauseUnpaid, PauseUnsent, IdlePulse,
         Eligible, Delivered, Unsent, Idled
    <3>4. /\ Follows(Idled(sub), sub)
          /\ sub.state = "Active" => /\ Follows(Delivered(sub), sub)
                                     /\ Follows(Unsent(sub), sub)
      BY SMTT(60), <3>1, <3>2, DistributedFields DEF Follows
    <3>5. sub.state = "Active" => Follows([sub EXCEPT !.state = "Paused"], sub)
      BY SMTT(60), <3>1 DEF Follows, Subscription
    <3> QED
      BY SMTT(60), <2>3, <3>3, <3>4, <3>5
  <2>8. ASSUME NEW id \in SubIds, TerminateFinalized(id)
        PROVE  Step
    BY ZenonT(60), <2>4, <2>5, <2>8 DEF TerminateFinalized
  <2>9. ASSUME NextBlock
        PROVE  Step
    <3>1. ASSUME NEW x \in DOMAIN S
          PROVE  Follows([S[x] EXCEPT !.age = Older(S[x].age)], S[x])
      BY SMTT(60), <2>1 DEF Follows, Subscription
    <3> QED
      BY <2>9, <3>1 DEF NextBlock, Step
  <2>10. ASSUME dispatch \/ on_finalize
         PROVE  Step
    BY SMTT(60), <2>5, <2>10 DEF dispatch, on_finalize
  <2> QED
    BY <1>1, <2>6, <2>7, <2>8, <2>9, <2>10, Zenon DEF Next, BlockStep
<1> DEFINE A == \A id \in DOMAIN Subscriptions \cap DOMAIN Subscriptions' :
                  LET old == Subscriptions[id]
                      new == Subscriptions'[id]
                  IN  /\ new.subscriber = old.subscriber
                      /\ new.credits_left <= old.credits_left
                      /\ old.state = "Finalized" => new.state = "Finalized"
<1>2. IInv /\ [Next]_vars => [A]_vars
  BY <1>1 DEF Follows
<1> QED
  BY <1>2, InitEstablishes, StepPreserves, PTL DEF Spec, Lifecycle
=============================================================================
