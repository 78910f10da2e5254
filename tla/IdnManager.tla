----------------------------- MODULE IdnManager -----------------------------
(***************************************************************************)
(* The IDN Manager pallet (pallets/idn-manager/src/lib.rs): subscriptions, *)
(* the balance put on hold for them, the distribution of a pulse to every  *)
(* subscription, and the removal of finalized subscriptions at the end of  *)
(* a block.                                                                *)
(*                                                                         *)
(* A dispatchable that returns an error is rolled back, so only the        *)
(* successful outcome of a call is a step.  distribute and on_finalize are *)
(* loops over the storage map in hash order and are never rolled back:     *)
(* each iteration is a step that takes an id out of todo, in any order,    *)
(* and nothing else can happen before todo is empty.                       *)
(*                                                                         *)
(* Block numbers are only ever compared with the block of a subscription's *)
(* last delivery, so the model keeps the age of that delivery, capped at   *)
(* MaxFrequency, instead of the two block numbers.                         *)
(***************************************************************************)
EXTENDS FeesManager, FiniteSetsExt

CONSTANTS
    Accounts,             \* subscriber accounts
    SubIds,               \* subscription ids
    CreditChoices,        \* the numbers of credits callers ask for
    FrequencyChoices,     \* the frequencies callers ask for
    MaxFrequency,         \* and their bound
    MetadataSizes,        \* encoded sizes of the optional metadata
    FixedSize,            \* encoded size of the other fields
    BlockNumberSize,      \* what last_delivered adds when it is Some
    SDMultiplier,         \* storage deposit per encoded byte
    MaxSubscriptions,
    MaxTerminatableSubs,
    ExistentialDeposit,
    Endowment             \* what each account owns at the start

ASSUME ManagerAssumption ==
    /\ IsFiniteSet(SubIds)
    /\ CreditChoices \subseteq 0..U64Max
    /\ MaxFrequency \in Nat \ {0}
    /\ FrequencyChoices \subseteq 0..MaxFrequency
    /\ MetadataSizes \subseteq Nat
    /\ FixedSize \in Nat
    /\ BlockNumberSize \in Nat
    /\ SDMultiplier \in Nat
    /\ MaxSubscriptions \in Nat
    /\ MaxTerminatableSubs \in Nat \ {0}
    /\ ExistentialDeposit \in Nat
    /\ Endowment \in Nat
    /\ Endowment >= ExistentialDeposit

VARIABLES
    Subscriptions, \* the storage map: a function on the ids in storage
    SubCounter,    \* the number of subscriptions in storage
    balances,      \* per account: free, held fees, held deposit, paid fees
    DidUpdate,     \* the beacon has dispatched a pulse in this block
    phase,         \* "execute" (extrinsics) or "finalize" (on_finalize)
    todo,          \* ids the running loop has still to visit
    granted,       \* history: credits an id was created with
    received,      \* history: pulses sent to an id since its creation
    repriced,      \* history: accounts that changed credits by an update
    resized        \* history: accounts that changed metadata by an update

vars == <<Subscriptions, SubCounter, balances, DidUpdate, phase, todo,
          granted, received, repriced, resized>>

Frequencies == 0..MaxFrequency

Never == -1   \* last_delivered is None

SubscriptionState == {"Active", "Paused", "Finalized"}

Subscription ==
    [subscriber   : Accounts,
     credits_left : 0..U64Max,
     state        : SubscriptionState,
     credits      : 0..U64Max,
     frequency    : Frequencies,
     metadata     : MetadataSizes,
     age          : {Never} \cup Frequencies]

Account == [free : Nat, fees : Nat, deposit : Nat, paid : Nat]

TypeOK ==
    /\ DOMAIN Subscriptions \subseteq SubIds
    /\ Subscriptions \in [DOMAIN Subscriptions -> Subscription]
    /\ SubCounter \in Nat
    /\ balances \in [Accounts -> Account]
    /\ DidUpdate \in BOOLEAN
    /\ phase \in {"execute", "finalize"}
    /\ todo \subseteq DOMAIN Subscriptions
    /\ granted \in [SubIds -> 0..U64Max]
    /\ received \in [SubIds -> Nat]
    /\ repriced \subseteq Accounts
    /\ resized \subseteq Accounts

-----------------------------------------------------------------------------
(* The balances pallet, from the way the manager uses it.  hold keeps the  *)
(* existential deposit free; a release with Precision::Exact needs the     *)
(* whole amount on hold, one with Precision::BestEffort takes what is      *)
(* there.  Each operator maps an account to the account afterwards.        *)

CanHold(acc, amount) == acc.free >= amount + ExistentialDeposit

hold_fees(acc, amount) ==
    [acc EXCEPT !.free = @ - amount, !.fees = @ + amount]

release_fees(acc, amount) ==
    [acc EXCEPT !.free = @ + amount, !.fees = @ - amount]

hold_deposit(acc, amount) ==
    [acc EXCEPT !.free = @ - amount, !.deposit = @ + amount]

(* Fault: BestEffort does not stop at the balance on hold. *)
release_deposit_unchecked(acc, amount) ==
    [acc EXCEPT !.free = @ + amount, !.deposit = @ - amount]

release_deposit(acc, amount) ==
    LET n == Lesser(amount, acc.deposit)
    IN  [acc EXCEPT !.free = @ + n, !.deposit = @ - n]

(* Fault: a partial collection is booked as a full one. *)
transfer_on_hold_in_full(acc, amount) ==
    LET n == Lesser(amount, acc.fees)
    IN  [acc EXCEPT !.fees = @ - n, !.paid = @ + amount]

transfer_on_hold(acc, amount) ==
    LET n == Lesser(amount, acc.fees)
    IN  [acc EXCEPT !.fees = @ - n, !.paid = @ + n]

-----------------------------------------------------------------------------
(* Fees and deposits of a subscription.                                    *)

CanManageDiffFees(acc, diff) ==
    CASE diff.direction = "Collect" -> CanHold(acc, diff.balance)
      [] diff.direction = "Release" -> acc.fees >= diff.balance
      [] diff.direction = "None"    -> TRUE

manage_diff_fees(acc, diff) ==
    CASE diff.direction = "Collect" -> hold_fees(acc, diff.balance)
      [] diff.direction = "Release" -> release_fees(acc, diff.balance)
      [] diff.direction = "None"    -> acc

EncodedSize(sub) ==
    FixedSize + sub.metadata + (IF sub.age = Never THEN 0 ELSE BlockNumberSize)

calculate_storage_deposit(sub) == SDMultiplier * EncodedSize(sub)

calculate_diff_deposit(old_sub, new_sub) ==
    LET old == calculate_storage_deposit(old_sub)
        new == calculate_storage_deposit(new_sub)
    IN  [balance   |-> SaturatingSub(new, old),
         direction |-> CASE new > old -> "Collect"
                         [] new < old -> "Release"
                         [] OTHER     -> "None"]

CanManageDiffDeposit(acc, diff) ==
    diff.direction = "Collect" => CanHold(acc, diff.balance)

manage_diff_deposit(acc, diff) ==
    CASE diff.direction = "Collect" -> hold_deposit(acc, diff.balance)
      [] diff.direction = "Release" -> release_deposit(acc, diff.balance)
      [] diff.direction = "None"    -> acc

(* Fault: consumption is priced from credits instead of credits_left. *)
FeesDueFromCredits(sub, credits_consumed) ==
    calculate_diff_fees(sub.credits,
                        SaturatingSub(sub.credits, credits_consumed)).balance

FeesDue(sub, credits_consumed) ==
    calculate_diff_fees(sub.credits_left,
                        SaturatingSub(sub.credits_left, credits_consumed)).balance

(* collect_fees moves what is on hold and then reports an error if that    *)
(* was less than the fees due.                                             *)
collect_fees(acc, sub, credits_consumed) ==
    [acc |-> transfer_on_hold(acc, FeesDue(sub, credits_consumed)),
     ok  |-> acc.fees >= FeesDue(sub, credits_consumed)]

(* Fault: the deposit is not released. *)
TerminatedWithoutDeposit(acc, sub) ==
    LET diff == calculate_diff_fees(sub.credits_left, 0)
    IN  [acc |-> manage_diff_fees(acc, diff),
         ok  |-> CanManageDiffFees(acc, diff)]

(* The account and the verdict after terminate_subscription. *)
Terminated(acc, sub) ==
    LET diff == calculate_diff_fees(sub.credits_left, 0)
    IN  [acc |-> release_deposit(manage_diff_fees(acc, diff),
                                 calculate_storage_deposit(sub)),
         ok  |-> CanManageDiffFees(acc, diff)]

get_min_credits == get_idle_credits

-----------------------------------------------------------------------------
Init ==
    /\ Subscriptions = [id \in {} |-> {}]
    /\ SubCounter = 0
    /\ balances = [a \in Accounts |->
                     [free |-> Endowment, fees |-> 0, deposit |-> 0, paid |-> 0]]
    /\ DidUpdate = FALSE
    /\ phase = "execute"
    /\ todo = {}
    /\ granted = [id \in SubIds |-> 0]
    /\ received = [id \in SubIds |-> 0]
    /\ repriced = {}
    /\ resized = {}

Executing == phase = "execute" /\ todo = {}

InStorage(id) == id \in DOMAIN Subscriptions

(* Fault: anybody may call for a stored subscription. *)
CallByAnyone(a, id) == Executing /\ InStorage(id)

(* A call by account a on a subscription it owns. *)
CallBy(a, id) ==
    /\ Executing
    /\ InStorage(id)
    /\ Subscriptions[id].subscriber = a

Insert(id, sub) ==
    Subscriptions' = [x \in DOMAIN Subscriptions \cup {id} |->
                        IF x = id THEN sub ELSE Subscriptions[x]]

SetBalance(a, acc) == balances' = [balances EXCEPT ![a] = acc]

(* Fault: the counter is not decreased. *)
RemoveUncounted(id) ==
    /\ Subscriptions' = [x \in DOMAIN Subscriptions \ {id} |-> Subscriptions[x]]
    /\ granted' = [granted EXCEPT ![id] = 0]
    /\ received' = [received EXCEPT ![id] = 0]
    /\ UNCHANGED SubCounter

(* Storage and history after the removal of id. *)
Remove(id) ==
    /\ Subscriptions' = [x \in DOMAIN Subscriptions \ {id} |-> Subscriptions[x]]
    /\ SubCounter' = SaturatingSub(SubCounter, 1)
    /\ granted' = [granted EXCEPT ![id] = 0]
    /\ received' = [received EXCEPT ![id] = 0]

-----------------------------------------------------------------------------
(* The dispatchables.                                                      *)

NewSubscription(a, credits, frequency, metadata) ==
    [subscriber   |-> a,
     credits_left |-> credits,
     state        |-> "Active",
     credits      |-> credits,
     frequency    |-> frequency,
     metadata     |-> metadata,
     age          |-> Never]

create_subscription(a, id, credits, frequency, metadata) ==
    LET sub     == NewSubscription(a, credits, frequency, metadata)
        fees    == calculate_subscription_fees(credits)
        deposit == calculate_storage_deposit(sub)
    IN  /\ Executing
        /\ credits # 0
        /\ SubCounter < MaxSubscriptions
        /\ ~InStorage(id)
        /\ CanHold(balances[a], fees)
        /\ CanHold(hold_fees(balances[a], fees), deposit)
        /\ SetBalance(a, hold_deposit(hold_fees(balances[a], fees), deposit))
        /\ Insert(id, sub)
        /\ SubCounter' = SubCounter + 1
        /\ granted' = [granted EXCEPT ![id] = credits]
        /\ UNCHANGED <<DidUpdate, phase, todo, received, repriced, resized>>

SetState(id, state) ==
    /\ Insert(id, [Subscriptions[id] EXCEPT !.state = state])
    /\ UNCHANGED <<SubCounter, balances, DidUpdate, phase, todo, granted,
                   received, repriced, resized>>

pause_subscription(a, id) ==
    /\ CallBy(a, id)
    /\ Subscriptions[id].state = "Active"
    /\ SetState(id, "Paused")

(* Fault: any subscription that is not active can be reactivated. *)
reactivate_inactive(a, id) ==
    /\ CallBy(a, id)
    /\ Subscriptions[id].state # "Active"
    /\ SetState(id, "Active")

reactivate_subscription(a, id) ==
    /\ CallBy(a, id)
    /\ Subscriptions[id].state = "Paused"
    /\ SetState(id, "Active")

kill_subscription(a, id) ==
    LET end == Terminated(balances[a], Subscriptions[id])
    IN  /\ CallBy(a, id)
        /\ end.ok
        /\ SetBalance(a, end.acc)
        /\ Remove(id)
        /\ UNCHANGED <<DidUpdate, phase, todo, repriced, resized>>

(* credits_left keeps its value when credits changes, and old_sub is       *)
(* cloned after the new values have been written.                          *)
update_subscription(a, id, credits, frequency, metadata) ==
    LET old          == Subscriptions[id]
        sub          == [old EXCEPT !.credits = credits,
                                    !.frequency = frequency,
                                    !.metadata = metadata]
        old_sub      == sub
        fees_diff    == calculate_diff_fees(old.credits, credits)
        deposit_diff == calculate_diff_deposit(sub, old_sub)
        acc          == manage_diff_fees(balances[a], fees_diff)
    IN  /\ CallBy(a, id)
        /\ old.state \in {"Active", "Paused"}
        /\ CanManageDiffFees(balances[a], fees_diff)
        /\ CanManageDiffDeposit(acc, deposit_diff)
        /\ SetBalance(a, manage_diff_deposit(acc, deposit_diff))
        /\ Insert(id, sub)
        /\ repriced' = IF credits = old.credits THEN repriced
                                                ELSE repriced \cup {a}
        /\ resized' = IF metadata = old.metadata THEN resized
                                                ELSE resized \cup {a}
        /\ UNCHANGED <<SubCounter, DidUpdate, phase, todo, granted, received>>

-----------------------------------------------------------------------------
(* Quotes and subscription information: no storage changes, the result is  *)
(* the answer that is sent back to the requesting chain.                   *)

(* The deposit of a subscription that does not exist yet; the call in the  *)
(* parameters may be shorter than the one of the real subscription.        *)
calculate_storage_deposit_from_create_params(a, frequency, metadata, shorter) ==
    SDMultiplier *
      (EncodedSize(NewSubscription(a, 0, frequency, metadata)) - shorter)

(* Fault: the quote forgets the idle credits between pulses. *)
quote_of_pulses(a, lifetime_pulses, frequency, metadata, shorter) ==
    [fees    |-> calculate_subscription_fees(lifetime_pulses),
     deposit |-> calculate_storage_deposit_from_create_params(
                   a, frequency, metadata, shorter)]

quote_subscription(a, lifetime_pulses, frequency, metadata, shorter) ==
    [fees    |-> calculate_subscription_fees(
                   calculate_credits(frequency, lifetime_pulses)),
     deposit |-> calculate_storage_deposit_from_create_params(
                   a, frequency, metadata, shorter)]

get_subscription_info(id) == Subscriptions[id]

-----------------------------------------------------------------------------
(* distribute: one iteration per subscription, whatever its state.         *)

(* Fault: nothing stops a second dispatch in the same block. *)
dispatch_again ==
    /\ Executing
    /\ DidUpdate' = TRUE
    /\ todo' = DOMAIN Subscriptions
    /\ UNCHANGED <<Subscriptions, SubCounter, balances, phase, granted,
                   received, repriced, resized>>

(* Dispatcher::dispatch.  The beacon calls it at most once per block.      *)
dispatch ==
    /\ Executing
    /\ ~DidUpdate
    /\ DidUpdate' = TRUE
    /\ todo' = DOMAIN Subscriptions
    /\ UNCHANGED <<Subscriptions, SubCounter, balances, phase, granted,
                   received, repriced, resized>>

Distributing(id) ==
    /\ phase = "execute"
    /\ id \in todo
    /\ todo' = todo \ {id}
    /\ UNCHANGED <<SubCounter, DidUpdate, phase, granted, repriced, resized>>

Eligible(sub) ==
    /\ sub.state = "Active"
    /\ sub.age = Never \/ sub.age >= sub.frequency

(* Fault: a paused subscription does not use up credits. *)
ChargedUnlessPaused(sub, credits_consumed) ==
    IF sub.state = "Paused"
    THEN sub
    ELSE [sub EXCEPT !.credits_left = SaturatingSub(@, credits_consumed)]

Charged(sub, credits_consumed) ==
    [sub EXCEPT !.credits_left = SaturatingSub(@, credits_consumed)]

(* Fault: spent credits go unnoticed. *)
NeverFinalized(sub) == sub

(* Fault: <= instead of <. *)
FinalizedIfLow(sub) ==
    IF sub.state # "Finalized" /\ sub.credits_left <= get_min_credits
    THEN [sub EXCEPT !.state = "Finalized"]
    ELSE sub

FinalizedIfSpent(sub) ==
    IF sub.state # "Finalized" /\ sub.credits_left < get_min_credits
    THEN [sub EXCEPT !.state = "Finalized"]
    ELSE sub

Collect(id, credits_consumed) ==
    collect_fees(balances[Subscriptions[id].subscriber], Subscriptions[id],
                 credits_consumed)

(* Fees collected and the pulse sent. *)
DeliverPulse(id) ==
    LET sub == Subscriptions[id]
        fee == Collect(id, get_consume_credits)
    IN  /\ Distributing(id)
        /\ Eligible(sub)
        /\ fee.ok
        /\ SetBalance(sub.subscriber, fee.acc)
        /\ Insert(id, FinalizedIfSpent(
                        [Charged(sub, get_consume_credits) EXCEPT !.age = 0]))
        /\ received' = [received EXCEPT ![id] = @ + 1]

(* Less on hold than the fees due: what was there is taken, the            *)
(* subscription is paused and keeps its credits.                           *)
PauseUnpaid(id) ==
    LET sub == Subscriptions[id]
        fee == Collect(id, get_consume_credits)
    IN  /\ Distributing(id)
        /\ Eligible(sub)
        /\ ~fee.ok
        /\ SetBalance(sub.subscriber, fee.acc)
        /\ Insert(id, [sub EXCEPT !.state = "Paused"])
        /\ UNCHANGED received

(* Fees collected, xcm_send failed: the charge stands, the subscription is *)
(* paused, and the check for spent credits is skipped.                     *)
PauseUnsent(id) ==
    LET sub == Subscriptions[id]
        fee == Collect(id, get_consume_credits)
    IN  /\ Distributing(id)
        /\ Eligible(sub)
        /\ fee.ok
        /\ SetBalance(sub.subscriber, fee.acc)
        /\ Insert(id, [Charged(sub, get_consume_credits) EXCEPT
                         !.age = 0, !.state = "Paused"])
        /\ UNCHANGED received

(* Not due for a pulse, paused or finalized: an idle credit is consumed,   *)
(* even if there was not enough on hold to pay for it.                     *)
IdlePulse(id) ==
    LET sub == Subscriptions[id]
    IN  /\ Distributing(id)
        /\ ~Eligible(sub)
        /\ SetBalance(sub.subscriber, Collect(id, get_idle_credits).acc)
        /\ Insert(id, FinalizedIfSpent(Charged(sub, get_idle_credits)))
        /\ UNCHANGED received

-----------------------------------------------------------------------------
(* The end of the block.                                                   *)

FinalizedIds ==
    {id \in DOMAIN Subscriptions : Subscriptions[id].state = "Finalized"}

(* Fault: the batch stops one short of MaxTerminatableSubs. *)
on_finalize_one_short ==
    /\ Executing
    /\ phase' = "finalize"
    /\ \E batch \in SUBSET FinalizedIds :
         /\ Cardinality(batch) = Lesser(MaxTerminatableSubs - 1,
                                        Cardinality(FinalizedIds))
         /\ todo' = batch
    /\ UNCHANGED <<Subscriptions, SubCounter, balances, DidUpdate, granted,
                   received, repriced, resized>>

(* on_finalize visits the first MaxTerminatableSubs finalized              *)
(* subscriptions in hash order.                                            *)
on_finalize ==
    /\ Executing
    /\ phase' = "finalize"
    /\ \E batch \in SUBSET FinalizedIds :
         /\ Cardinality(batch) = Lesser(MaxTerminatableSubs,
                                        Cardinality(FinalizedIds))
         /\ todo' = batch
    /\ UNCHANGED <<Subscriptions, SubCounter, balances, DidUpdate, granted,
                   received, repriced, resized>>

(* One iteration of on_finalize.  An error of terminate_subscription is    *)
(* dropped and the subscription stays.                                     *)
TerminateFinalized(id) ==
    LET sub == Subscriptions[id]
        end == Terminated(balances[sub.subscriber], sub)
    IN  /\ phase = "finalize"
        /\ id \in todo
        /\ todo' = todo \ {id}
        /\ IF end.ok
           THEN /\ SetBalance(sub.subscriber, end.acc)
                /\ Remove(id)
           ELSE UNCHANGED <<Subscriptions, SubCounter, balances, granted,
                            received>>
        /\ UNCHANGED <<DidUpdate, phase, repriced, resized>>

Older(age) == IF age = Never THEN Never ELSE Lesser(age + 1, MaxFrequency)

(* The next block begins; the beacon has taken DidUpdate in its own        *)
(* on_finalize.                                                            *)
NextBlock ==
    /\ phase = "finalize"
    /\ todo = {}
    /\ phase' = "execute"
    /\ DidUpdate' = FALSE
    /\ Subscriptions' = [id \in DOMAIN Subscriptions |->
                           [Subscriptions[id] EXCEPT !.age = Older(@)]]
    /\ UNCHANGED <<SubCounter, balances, todo, granted, received, repriced, resized>>

-----------------------------------------------------------------------------
Call(a, id) ==
    \/ \E c \in CreditChoices, f \in FrequencyChoices, m \in MetadataSizes :
         create_subscription(a, id, c, f, m)
    \/ pause_subscription(a, id)
    \/ kill_subscription(a, id)
    \/ \E c \in CreditChoices, f \in FrequencyChoices, m \in MetadataSizes :
         update_subscription(a, id, c, f, m)
    \/ reactivate_subscription(a, id)

Distribute(id) ==
    \/ DeliverPulse(id)
    \/ PauseUnpaid(id)
    \/ PauseUnsent(id)
    \/ IdlePulse(id)

(* What the chain does by itself: at any time one of these is enabled. *)
BlockStep ==
    \/ \E id \in SubIds : Distribute(id)
    \/ on_finalize
    \/ \E id \in SubIds : TerminateFinalized(id)
    \/ NextBlock

Next ==
    \/ \E a \in Accounts, id \in SubIds : Call(a, id)
    \/ dispatch
    \/ BlockStep

Spec == Init /\ [][Next]_vars

(* The chain keeps making blocks and running its hooks, and pulses keep    *)
(* arriving: a block that could take one does so again and again.  No      *)
(* fairness is assumed of the subscribers' calls.                          *)
Fairness == WF_vars(BlockStep) /\ SF_vars(dispatch)

-----------------------------------------------------------------------------
(* Properties.                                                             *)

(* create_subscription and terminate_subscription keep the counter that    *)
(* enforces MaxSubscriptions equal to the number of stored subscriptions.  *)
CounterMatchesStorage ==
    /\ SubCounter = Cardinality(DOMAIN Subscriptions)
    /\ SubCounter <= MaxSubscriptions

(* Holds, releases, partial collections and refunds only move money: what  *)
(* an account owns plus what it paid to the treasury is its endowment, and *)
(* the existential deposit always stays free.                              *)
MoneyConserved ==
    \A a \in Accounts :
      LET acc == balances[a]
      IN  /\ acc.free + acc.fees + acc.deposit + acc.paid = Endowment
          /\ acc.free >= ExistentialDeposit

OwnedBy(a) ==
    {id \in DOMAIN Subscriptions : Subscriptions[id].subscriber = a}

FeesOfCreditsLeft ==
    [id \in DOMAIN Subscriptions |->
       calculate_subscription_fees(Subscriptions[id].credits_left)]

(* For an account that never changed credits by update_subscription, the   *)
(* fees on hold are exactly the price of the credits its subscriptions     *)
(* have left, in every interleaving of pulses, failures, kills and         *)
(* creations.  Then collect_fees never falls short and kill_subscription   *)
(* always finds its refund.                                                *)
FeesBacked ==
    \A a \in Accounts \ repriced :
      balances[a].fees = SumFunctionOnSet(FeesOfCreditsLeft, OwnedBy(a))

(* For an account that never changed metadata by update_subscription, no   *)
(* storage deposit stays on hold once its last subscription is terminated. *)
DepositsReturned ==
    \A a \in Accounts \ resized :
      OwnedBy(a) = {} => balances[a].deposit = 0

(* distribute sends a subscription at most as many pulses as the credits   *)
(* it was created with, although a failed xcm_send can leave an active     *)
(* subscription with no credits and a later pulse is then sent for free.   *)
DeliveriesBounded ==
    \A id \in DOMAIN Subscriptions :
      received[id] + Subscriptions[id].credits_left <= granted[id]

(* A finalized subscription has no credits left, so terminate_subscription *)
(* has no fees to release in on_finalize and cannot fail there.            *)
FinalizedIsSpent ==
    \A id \in FinalizedIds : Subscriptions[id].credits_left = 0

(* While a subscription is stored its subscriber is fixed, its credits     *)
(* never come back, and it never leaves the Finalized state.               *)
Lifecycle ==
    [][\A id \in DOMAIN Subscriptions \cap DOMAIN Subscriptions' :
         LET old == Subscriptions[id]
             new == Subscriptions'[id]
         IN  /\ new.subscriber = old.subscriber
             /\ new.credits_left <= old.credits_left
             /\ old.state = "Finalized" => new.state = "Finalized"]_vars

(* No subscription is sent two pulses in one block, even with frequency 0. *)
OncePerBlock ==
    [][\A id \in DOMAIN Subscriptions :
         received'[id] > received[id] => Subscriptions[id].age # 0]_vars

(* kill_subscription documents two errors, for a subscription that is not  *)
(* stored and for a caller who is not the subscriber: the subscriber of a  *)
(* stored subscription can always end it and get the unused credits back.  *)
SubscriberCanKill ==
    \A id \in DOMAIN Subscriptions :
      Terminated(balances[Subscriptions[id].subscriber], Subscriptions[id]).ok

(* A finalized subscription is removed by on_finalize, unless it is        *)
(* overtaken forever by other finalized subscriptions that fill            *)
(* MaxTerminatableSubs block after block.                                  *)
FinalizedAreRemoved ==
    \A id \in SubIds :
      \/ []<>(id \notin FinalizedIds)
      \/ []<><<\E other \in SubIds \ {id} : TerminateFinalized(other)>>_vars

(* A subscription, active or paused, funded or not, is killed or finalized *)
(* after finitely many pulses, unless its subscriber reactivates it again  *)
(* and again.                                                              *)
SubscriptionsEnd ==
    \A id \in SubIds :
      \/ []<>(~InStorage(id) \/ id \in FinalizedIds)
      \/ []<><<\E a \in Accounts : reactivate_subscription(a, id)>>_vars
=============================================================================
