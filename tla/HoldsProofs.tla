----------------------------- MODULE HoldsProofs -----------------------------
(***************************************************************************)
(* What the manager has on hold for an account, compared with sums over    *)
(* its subscriptions, for any number of accounts and subscriptions:        *)
(* FeesBacked and, by way of DepositsCovered, DepositsReturned.  Both are  *)
(* inductive together with the invariant of IdnManagerProofs.              *)
(* From the same invariant, that the manager is the service of             *)
(* SubscriptionService.                                                    *)
(***************************************************************************)
EXTENDS ManagerService, IdnManagerProofs

(* What the subscriptions of an account are owed: the price of their       *)
(* credits left, and the storage deposits they are released with.          *)
OwedFees(a) == SumFunctionOnSet(FeesOfCreditsLeft, OwnedBy(a))

StorageDeposits ==
    [id \in DOMAIN Subscriptions |-> calculate_storage_deposit(Subscriptions[id])]

OwedDeposit(a) == SumFunctionOnSet(StorageDeposits, OwnedBy(a))

(* What an account is owed when one amount of the sum is replaced. *)
LEMMA ReplacedAmount ==
    /\ \A x, y \in Nat : (x - y) + y = x
    /\ \A h, x, y, z \in Nat : h <= x /\ y <= z => h <= (x - y) + z
    /\ \A h, x, y \in Nat : h <= x => h + y <= x + y
OBVIOUS

(* What is left on hold of an amount after a release of at most that. *)
LEMMA ReleasedAmount ==
    \A h, x, y \in Nat : h <= x /\ y <= x => h - Lesser(y, h) <= x - y
BY DEF Lesser

(* The fees and the deposit of a stored subscription are amounts, and so   *)
(* are their sums; no subscription is owed more than all together.         *)
LEMMA OwedTypes ==
    ASSUME TypeOK, NEW a
    PROVE  /\ IsFiniteSet(OwnedBy(a))
           /\ \A id \in DOMAIN Subscriptions : FeesOfCreditsLeft[id] \in Nat
           /\ \A id \in DOMAIN Subscriptions : StorageDeposits[id] \in Nat
           /\ OwedFees(a) \in Nat
           /\ OwedDeposit(a) \in Nat
           /\ \A id \in OwnedBy(a) : /\ FeesOfCreditsLeft[id] <= OwedFees(a)
                                     /\ StorageDeposits[id] <= OwedDeposit(a)
<1>1. IsFiniteSet(OwnedBy(a)) /\ OwnedBy(a) \subseteq DOMAIN Subscriptions
  BY ManagerAssumption, FS_Subset DEF TypeOK, OwnedBy
<1>2. ASSUME NEW id \in DOMAIN Subscriptions
      PROVE  FeesOfCreditsLeft[id] \in Nat /\ StorageDeposits[id] \in Nat
  <2>1. Subscriptions[id] \in Subscription
    BY DEF TypeOK
  <2>2. calculate_subscription_fees(Subscriptions[id].credits_left) \in Nat
    BY <2>1, SubscriptionFields, FeesType, ConstantTypes
  <2>3. calculate_storage_deposit(Subscriptions[id]) \in Nat
    BY <2>1, DiffTypes
  <2> QED
    BY <2>2, <2>3 DEF FeesOfCreditsLeft, StorageDeposits
<1>3. OwedFees(a) \in Nat /\ OwedDeposit(a) \in Nat
  BY <1>1, <1>2, SumType DEF OwedFees, OwedDeposit
<1>4. ASSUME NEW id \in OwnedBy(a)
      PROVE  /\ FeesOfCreditsLeft[id] <= OwedFees(a)
             /\ StorageDeposits[id] <= OwedDeposit(a)
  <2> DEFINE fees == SumFunctionOnSet(FeesOfCreditsLeft, OwnedBy(a) \ {id})
             deps == SumFunctionOnSet(StorageDeposits, OwnedBy(a) \ {id})
  <2>1. /\ OwedFees(a) = FeesOfCreditsLeft[id] + fees
        /\ OwedDeposit(a) = StorageDeposits[id] + deps
    BY <1>1, <1>2, SumTakeOut DEF OwedFees, OwedDeposit
  <2>2. fees \in Nat /\ deps \in Nat
    <3>1. IsFiniteSet(OwnedBy(a) \ {id})
      BY <1>1, FS_RemoveElement
    <3> QED
      BY <1>1, <1>2, <3>1, SumType
  <2> QED
    BY <1>1, <1>2, <2>1, <2>2
<1> QED
  BY <1>1, <1>2, <1>3, <1>4

(* A stored subscription is replaced by another of the same subscriber: an *)
(* update, a change of state or an iteration of distribute.                *)
LEMMA OwedAfterReplace ==
    ASSUME TypeOK, NEW id \in DOMAIN Subscriptions, NEW new \in Subscription,
           new.subscriber = Subscriptions[id].subscriber,
           Insert(id, new), NEW a
    PROVE  LET old == Subscriptions[id]
           IN  /\ OwnedBy(a)' = OwnedBy(a)
               /\ OwedFees(a)' =
                    IF a = old.subscriber
                    THEN (OwedFees(a)
                            - calculate_subscription_fees(old.credits_left))
                         + calculate_subscription_fees(new.credits_left)
                    ELSE OwedFees(a)
               /\ OwedDeposit(a)' =
                    IF a = old.subscriber
                    THEN (OwedDeposit(a) - calculate_storage_deposit(old))
                         + calculate_storage_deposit(new)
                    ELSE OwedDeposit(a)
<1> DEFINE S   == Subscriptions
           S1  == Subscriptions'
           own == OwnedBy(a)
<1>1. /\ DOMAIN S1 = DOMAIN S
      /\ S1[id] = new
      /\ \A x \in DOMAIN S \ {id} : S1[x] = S[x]
  BY DEF Insert
<1>2. OwnedBy(a)' = own
  BY <1>1 DEF OwnedBy
<1>3. /\ IsFiniteSet(own) /\ own \subseteq DOMAIN S
      /\ \A x \in own : FeesOfCreditsLeft[x] \in Int /\ StorageDeposits[x] \in Int
  <2>1. own \subseteq DOMAIN S
    BY DEF OwnedBy
  <2> QED
    BY <2>1, OwedTypes
<1>4. /\ calculate_subscription_fees(new.credits_left) \in Int
      /\ calculate_storage_deposit(new) \in Int
  BY SubscriptionFields, FeesType, ConstantTypes, DiffTypes
<1> DEFINE f == FeesOfCreditsLeft
           f1 == FeesOfCreditsLeft'
           d == StorageDeposits
           d1 == StorageDeposits'
<1>5. /\ f[id] = calculate_subscription_fees(S[id].credits_left)
      /\ f1[id] = calculate_subscription_fees(new.credits_left)
      /\ \A x \in own \ {id} : f1[x] = f[x]
      /\ d[id] = calculate_storage_deposit(S[id])
      /\ d1[id] = calculate_storage_deposit(new)
      /\ \A x \in own \ {id} : d1[x] = d[x]
  BY <1>1, <1>3 DEF FeesOfCreditsLeft, StorageDeposits
<1>6. /\ OwedFees(a)' = SumFunctionOnSet(f1, own)
      /\ OwedDeposit(a)' = SumFunctionOnSet(d1, own)
      /\ OwedFees(a) = SumFunctionOnSet(f, own)
      /\ OwedDeposit(a) = SumFunctionOnSet(d, own)
  BY <1>2 DEF OwedFees, OwedDeposit
<1>7. id \in own <=> a = S[id].subscriber
  BY DEF OwnedBy
<1> HIDE DEF f, f1, d, d1, own
<1>8. CASE a = S[id].subscriber
  <2>1. SumFunctionOnSet(f1, own) = (SumFunctionOnSet(f, own) - f[id]) + f1[id]
    BY <1>3, <1>4, <1>5, <1>7, <1>8, SumReplace DEF f, d
  <2>2. SumFunctionOnSet(d1, own) = (SumFunctionOnSet(d, own) - d[id]) + d1[id]
    BY <1>3, <1>4, <1>5, <1>7, <1>8, SumReplace DEF f, d
  <2> QED
    BY <1>2, <1>5, <1>6, <1>8, <2>1, <2>2 DEF own
<1>9. CASE a # S[id].subscriber
  <2>1. own \ {id} = own
    BY <1>7, <1>9
  <2>2. SumFunctionOnSet(f1, own) = SumFunctionOnSet(f, own)
    BY <1>3, <1>5, <2>1, SumSame DEF f, d
  <2>3. SumFunctionOnSet(d1, own) = SumFunctionOnSet(d, own)
    BY <1>3, <1>5, <2>1, SumSame DEF f, d
  <2> QED
    BY <1>2, <1>6, <1>9, <2>2, <2>3 DEF own
<1> QED
  BY <1>8, <1>9

(* A subscription is removed: kill_subscription and on_finalize. *)
LEMMA OwedAfterRemove ==
    ASSUME TypeOK, NEW id \in DOMAIN Subscriptions, Remove(id), NEW a
    PROVE  LET old == Subscriptions[id]
           IN  /\ OwedFees(a)' =
                    IF a = old.subscriber
                    THEN OwedFees(a) - calculate_subscription_fees(old.credits_left)
                    ELSE OwedFees(a)
               /\ OwedDeposit(a)' =
                    IF a = old.subscriber
                    THEN OwedDeposit(a) - calculate_storage_deposit(old)
                    ELSE OwedDeposit(a)
<1> DEFINE S   == Subscriptions
           S1  == Subscriptions'
           own == OwnedBy(a)
<1>1. /\ DOMAIN S1 = DOMAIN S \ {id}
      /\ \A x \in DOMAIN S \ {id} : S1[x] = S[x]
  BY DEF Remove
<1>2. OwnedBy(a)' = own \ {id}
  BY <1>1 DEF OwnedBy
<1>3. /\ IsFiniteSet(own) /\ own \subseteq DOMAIN S /\ IsFiniteSet(own \ {id})
      /\ \A x \in own : FeesOfCreditsLeft[x] \in Int /\ StorageDeposits[x] \in Int
  <2>1. own \subseteq DOMAIN S
    BY DEF OwnedBy
  <2> QED
    BY <2>1, OwedTypes, FS_RemoveElement
<1> DEFINE f == FeesOfCreditsLeft
           f1 == FeesOfCreditsLeft'
           d == StorageDeposits
           d1 == StorageDeposits'
<1>5. /\ f[id] = calculate_subscription_fees(S[id].credits_left)
      /\ \A x \in own \ {id} : f1[x] = f[x]
      /\ d[id] = calculate_storage_deposit(S[id])
      /\ \A x \in own \ {id} : d1[x] = d[x]
  BY <1>1, <1>3 DEF FeesOfCreditsLeft, StorageDeposits
<1>6. /\ OwedFees(a)' = SumFunctionOnSet(f1, own \ {id})
      /\ OwedDeposit(a)' = SumFunctionOnSet(d1, own \ {id})
      /\ OwedFees(a) = SumFunctionOnSet(f, own)
      /\ OwedDeposit(a) = SumFunctionOnSet(d, own)
  BY <1>2 DEF OwedFees, OwedDeposit
<1>7. id \in own <=> a = S[id].subscriber
  BY DEF OwnedBy
<1>8. \A x \in own : f[x] \in Int /\ d[x] \in Int
  BY <1>3
<1> HIDE DEF f, f1, d, d1, own
<1>9. /\ SumFunctionOnSet(f1, own \ {id}) = SumFunctionOnSet(f, own \ {id})
      /\ SumFunctionOnSet(d1, own \ {id}) = SumFunctionOnSet(d, own \ {id})
  BY <1>3, <1>5, <1>8, SumSame
<1>10. CASE a = S[id].subscriber
  <2>1. /\ SumFunctionOnSet(f, own) = f[id] + SumFunctionOnSet(f, own \ {id})
        /\ SumFunctionOnSet(f, own \ {id}) \in Int
    BY <1>3, <1>7, <1>8, <1>10, SumTakeOut
  <2>2. /\ SumFunctionOnSet(d, own) = d[id] + SumFunctionOnSet(d, own \ {id})
        /\ SumFunctionOnSet(d, own \ {id}) \in Int
    BY <1>3, <1>7, <1>8, <1>10, SumTakeOut
  <2> QED
    BY SMTT(60), <1>5, <1>6, <1>7, <1>8, <1>9, <1>10, <2>1, <2>2
<1>11. CASE a # S[id].subscriber
  <2>1. own \ {id} = own
    BY <1>7, <1>11
  <2> QED
    BY <1>6, <1>9, <1>11, <2>1
<1> QED
  BY <1>10, <1>11

(* create_subscription stores a new subscription. *)
LEMMA OwedAfterCreate ==
    ASSUME TypeOK, NEW id \in SubIds \ DOMAIN Subscriptions,
           NEW new \in Subscription, Insert(id, new), NEW a
    PROVE  /\ OwedFees(a)' =
                IF a = new.subscriber
                THEN OwedFees(a) + calculate_subscription_fees(new.credits_left)
                ELSE OwedFees(a)
           /\ OwedDeposit(a)' =
                IF a = new.subscriber
                THEN OwedDeposit(a) + calculate_storage_deposit(new)
                ELSE OwedDeposit(a)
<1> DEFINE S   == Subscriptions
           S1  == Subscriptions'
           own == OwnedBy(a)
<1>1. /\ DOMAIN S1 = DOMAIN S \cup {id}
      /\ S1[id] = new
      /\ \A x \in DOMAIN S : S1[x] = S[x]
  BY DEF Insert
<1>2. OwnedBy(a)' = IF a = new.subscriber THEN own \cup {id} ELSE own
  BY <1>1 DEF OwnedBy
<1>3. /\ IsFiniteSet(own) /\ own \subseteq DOMAIN S /\ id \notin own
      /\ \A x \in own : FeesOfCreditsLeft[x] \in Int /\ StorageDeposits[x] \in Int
  <2>1. own \subseteq DOMAIN S
    BY DEF OwnedBy
  <2> QED
    BY <2>1, OwedTypes
<1>4. /\ calculate_subscription_fees(new.credits_left) \in Int
      /\ calculate_storage_deposit(new) \in Int
      /\ OwedFees(a) \in Int /\ OwedDeposit(a) \in Int
  BY SubscriptionFields, FeesType, ConstantTypes, DiffTypes, OwedTypes
<1> DEFINE f == FeesOfCreditsLeft
           f1 == FeesOfCreditsLeft'
           d == StorageDeposits
           d1 == StorageDeposits'
<1>5. /\ f1[id] = calculate_subscription_fees(new.credits_left)
      /\ \A x \in own : f1[x] = f[x]
      /\ d1[id] = calculate_storage_deposit(new)
      /\ \A x \in own : d1[x] = d[x]
  BY <1>1, <1>3 DEF FeesOfCreditsLeft, StorageDeposits
<1>6. /\ OwedFees(a)' = SumFunctionOnSet(f1, OwnedBy(a)')
      /\ OwedDeposit(a)' = SumFunctionOnSet(d1, OwnedBy(a)')
      /\ OwedFees(a) = SumFunctionOnSet(f, own)
      /\ OwedDeposit(a) = SumFunctionOnSet(d, own)
  BY DEF OwedFees, OwedDeposit
<1>8. \A x \in own : f[x] \in Int /\ d[x] \in Int
  BY <1>3
<1> HIDE DEF f, f1, d, d1, own
<1>9. /\ SumFunctionOnSet(f1, own) = SumFunctionOnSet(f, own)
      /\ SumFunctionOnSet(d1, own) = SumFunctionOnSet(d, own)
  BY <1>3, <1>5, <1>8, SumSame
<1>10. /\ \A x \in own \cup {id} : f1[x] \in Int
       /\ \A x \in own \cup {id} : d1[x] \in Int
  BY <1>4, <1>5, <1>8
<1>11. /\ SumFunctionOnSet(f1, own \cup {id}) = f1[id] + SumFunctionOnSet(f1, own)
       /\ SumFunctionOnSet(d1, own \cup {id}) = d1[id] + SumFunctionOnSet(d1, own)
  BY ZenonT(60), <1>3, <1>10, SumAdd
<1> QED
  BY <1>2, <1>4, <1>5, <1>6, <1>9, <1>11

(* The fees and the deposit on hold after each move of money. *)
LEMMA MoveFields ==
    ASSUME NEW acc \in Account, NEW amount
    PROVE  /\ hold_fees(acc, amount).fees = acc.fees + amount
           /\ hold_fees(acc, amount).deposit = acc.deposit
           /\ hold_deposit(acc, amount).fees = acc.fees
           /\ hold_deposit(acc, amount).deposit = acc.deposit + amount
           /\ release_fees(acc, amount).fees = acc.fees - amount
           /\ release_fees(acc, amount).deposit = acc.deposit
           /\ release_deposit(acc, amount).fees = acc.fees
           /\ release_deposit(acc, amount).deposit =
                acc.deposit - Lesser(amount, acc.deposit)
           /\ transfer_on_hold(acc, amount).fees =
                acc.fees - Lesser(amount, acc.fees)
           /\ transfer_on_hold(acc, amount).deposit = acc.deposit
BY DEF Account, hold_fees, hold_deposit, release_fees, release_deposit,
       transfer_on_hold

(* An iteration of distribute collects the price of one credit, if the     *)
(* price of the credits left is on hold, and no deposit.                   *)
LEMMA CollectFields ==
    ASSUME NEW acc \in Account, NEW sub \in Subscription
    PROVE  LET new  == Charged(sub, 1)
               fee  == calculate_subscription_fees(sub.credits_left)
               left == calculate_subscription_fees(new.credits_left)
               end  == collect_fees(acc, sub, 1)
           IN  /\ end.acc.deposit = acc.deposit
               /\ acc.fees >= fee => /\ end.ok
                                     /\ end.acc.fees = (acc.fees - fee) + left
<1> DEFINE c1   == SaturatingSub(sub.credits_left, 1)
           fee  == calculate_subscription_fees(sub.credits_left)
           left == calculate_subscription_fees(c1)
           end  == collect_fees(acc, sub, 1)
<1>1. /\ sub.credits_left \in 0..U64Max /\ c1 \in 0..U64Max
      /\ c1 <= sub.credits_left
      /\ Charged(sub, 1).credits_left = c1
  BY SubscriptionFields, ConstantTypes DEF SaturatingSub, Charged, Subscription
<1>2. FeesDue(sub, 1) = fee - left
  BY <1>1, DiffFeesDown DEF FeesDue
<1>3. fee \in Nat /\ left \in Nat /\ left <= fee
  BY <1>1, FeesType, FeesMonotone, ConstantTypes
<1>4. acc.fees \in Nat
  BY DEF Account
<1>5. /\ end.acc = transfer_on_hold(acc, FeesDue(sub, 1))
      /\ end.ok = (acc.fees >= FeesDue(sub, 1))
  BY DEF collect_fees
<1>6. /\ end.acc.deposit = acc.deposit
      /\ end.acc.fees = acc.fees - Lesser(FeesDue(sub, 1), acc.fees)
  BY <1>5, MoveFields
<1> HIDE DEF fee, left, c1, end
<1>7. ASSUME acc.fees >= fee
      PROVE  end.ok /\ end.acc.fees = (acc.fees - fee) + left
  <2>1. acc.fees >= FeesDue(sub, 1)
    BY <1>2, <1>3, <1>4, <1>7
  <2>2. end.ok
    BY <1>5, <2>1, Zenon
  <2>3. end.acc.fees = (acc.fees - fee) + left
    BY SMTT(60), <1>2, <1>3, <1>4, <1>6, <1>7 DEF Lesser
  <2> QED
    BY <2>2, <2>3
<1> QED
  BY <1>1, <1>6, <1>7 DEF fee, left, end

(* terminate_subscription releases the price of the credits left, and the  *)
(* storage deposit as far as it is on hold.                                *)
LEMMA TerminateFields ==
    ASSUME NEW acc \in Account, NEW sub \in Subscription
    PROVE  LET fee == calculate_subscription_fees(sub.credits_left)
               end == Terminated(acc, sub)
           IN  /\ end.ok <=> acc.fees >= fee
               /\ end.ok => end.acc.fees = acc.fees - fee
               /\ end.ok => end.acc.deposit =
                    acc.deposit - Lesser(calculate_storage_deposit(sub), acc.deposit)
<1> DEFINE diff == calculate_diff_fees(sub.credits_left, 0)
           fee  == calculate_subscription_fees(sub.credits_left)
           end  == Terminated(acc, sub)
           mid  == manage_diff_fees(acc, diff)
           dep  == calculate_storage_deposit(sub)
<1>1. sub.credits_left \in 0..U64Max /\ 0 \in 0..U64Max /\ 0 <= sub.credits_left
  BY SubscriptionFields, ConstantTypes
<1>2. fee \in Nat /\ acc.fees \in Nat /\ acc.free \in Nat
  BY <1>1, FeesType, ConstantTypes DEF Account
<1>3. /\ diff.balance = fee
      /\ diff.direction = IF fee = 0 THEN "None" ELSE "Release"
  BY <1>1, <1>2, DiffFeesDown, NoCreditsNoFees
<1>4. /\ end.ok <=> CanManageDiffFees(acc, diff)
      /\ end.acc = release_deposit(mid, dep)
  BY DEF Terminated
<1> HIDE DEF fee, diff, end
<1>5. end.ok <=> acc.fees >= fee
  <2>1. CanManageDiffFees(acc, diff) <=> acc.fees >= fee
    <3>1. CASE fee = 0
      <4>1. diff.direction = "None" /\ acc.fees >= fee
        BY <1>2, <1>3, <3>1
      <4> QED
        BY <4>1 DEF CanManageDiffFees
    <3>2. CASE fee # 0
      <4>1. diff.direction = "Release" /\ diff.balance = fee
        BY <1>3, <3>2
      <4> QED
        BY <4>1 DEF CanManageDiffFees
    <3> QED
      BY <3>1, <3>2
  <2> HIDE DEF end, diff, fee
  <2> QED
    BY <1>4, <2>1
<1>6. mid = IF fee = 0 THEN acc ELSE release_fees(acc, fee)
  BY <1>3 DEF manage_diff_fees
<1>7. mid.fees = acc.fees - fee /\ mid.deposit = acc.deposit
  BY <1>2, <1>6, MoveFields
<1>8. ASSUME end.ok
      PROVE  mid \in Account
  <2>1. CASE fee = 0
    BY <1>6, <2>1
  <2>2. CASE fee # 0
    <3>1. /\ acc.free + fee \in Nat /\ acc.fees - fee \in Nat
      BY <1>2, <1>5, <1>8
    <3>2. release_fees(acc, fee) =
            [[acc EXCEPT !.free = acc.free + fee] EXCEPT !.fees = acc.fees - fee]
      BY DEF release_fees, Account
    <3>3. release_fees(acc, fee) \in Account
      <4> DEFINE paid == [acc EXCEPT !.free = acc.free + fee]
      <4>1. paid \in Account
        BY ZenonT(60), <3>1, SetPart
      <4> HIDE DEF paid
      <4>2. [paid EXCEPT !.fees = acc.fees - fee] \in Account
        BY ZenonT(60), <3>1, <4>1, SetPart
      <4> QED
        BY <3>2, <4>2 DEF paid
    <3> QED
      BY <1>6, <2>2, <3>3
  <2> QED
    BY <2>1, <2>2
<1> HIDE DEF mid, dep
<1>9. ASSUME end.ok
      PROVE  /\ end.acc.fees = acc.fees - fee
             /\ end.acc.deposit = acc.deposit - Lesser(dep, acc.deposit)
  BY <1>4, <1>7, <1>8, <1>9, MoveFields
<1> QED
  BY <1>5, <1>9 DEF fee, end, dep

(* The storage deposit on hold for an account whose metadata never changed *)
(* is at most what its subscriptions are released with: last_delivered     *)
(* makes a subscription larger after its deposit was taken, so the first   *)
(* ones to end may take a part of the others' deposit.                     *)
DepositsCovered ==
    \A a \in Accounts \ resized : balances[a].deposit <= OwedDeposit(a)

Held == FeesBacked /\ DepositsCovered

(* Only one account's holds and subscriptions change. *)
LEMMA HeldAfter ==
    ASSUME TypeOK, Held, NEW a \in Accounts, NEW acc, SetBalance(a, acc),
           \A b \in Accounts \ {a} : /\ OwedFees(b)' = OwedFees(b)
                                     /\ OwedDeposit(b)' = OwedDeposit(b),
           repriced \subseteq repriced', resized \subseteq resized',
           a \notin repriced' => acc.fees = OwedFees(a)',
           a \notin resized' => acc.deposit <= OwedDeposit(a)'
    PROVE  Held'
<1>1. balances' = [balances EXCEPT ![a] = acc] /\ balances \in [Accounts -> Account]
  BY DEF SetBalance, TypeOK
<1>2. balances'[a] = acc /\ \A b \in Accounts \ {a} : balances'[b] = balances[b]
  BY <1>1
<1>3. FeesBacked'
  <2> SUFFICES ASSUME NEW b \in Accounts, b \notin repriced'
               PROVE  balances'[b].fees = OwedFees(b)'
    BY DEF FeesBacked, OwedFees
  <2>1. b # a => balances[b].fees = OwedFees(b)
    BY DEF Held, FeesBacked, OwedFees
  <2> QED
    BY <1>2, <2>1
<1>4. DepositsCovered'
  BY <1>2 DEF Held, DepositsCovered
<1> QED
  BY <1>3, <1>4 DEF Held

(* No account's holds change, and no subscription is owed less deposit. *)
LEMMA HeldSame ==
    ASSUME TypeOK, Held, UNCHANGED <<balances, repriced, resized>>,
           \A b \in Accounts : /\ OwedFees(b)' = OwedFees(b)
                               /\ OwedDeposit(b)' = OwedDeposit(b)
    PROVE  Held'
<1>1. FeesBacked'
  <2> SUFFICES ASSUME NEW b \in Accounts, b \notin repriced
               PROVE  balances[b].fees = OwedFees(b)'
    BY DEF FeesBacked, OwedFees
  <2> QED
    BY DEF Held, FeesBacked, OwedFees
<1>2. DepositsCovered'
  BY DEF Held, DepositsCovered
<1> QED
  BY <1>1, <1>2 DEF Held

(* The storage deposit depends on the metadata and on whether there was a  *)
(* delivery, and grows with the first one.                                 *)
LEMMA DepositGrows ==
    ASSUME NEW old \in Subscription, NEW new \in Subscription,
           new.metadata = old.metadata,
           old.age # Never => new.age # Never
    PROVE  /\ calculate_storage_deposit(old) <= calculate_storage_deposit(new)
           /\ (old.age = Never => new.age = Never) =>
                calculate_storage_deposit(old) = calculate_storage_deposit(new)
<1>1. old.metadata \in Nat /\ BlockNumberSize \in Nat /\ FixedSize \in Nat
      /\ SDMultiplier \in Nat
  BY ZenonT(60), ConstantTypes DEF Subscription
<1>2. /\ EncodedSize(old) \in Nat /\ EncodedSize(new) \in Nat
      /\ EncodedSize(old) <= EncodedSize(new)
      /\ (old.age = Never => new.age = Never) => EncodedSize(old) = EncodedSize(new)
  BY <1>1 DEF EncodedSize
<1>3. SDMultiplier * EncodedSize(old) <= SDMultiplier * EncodedSize(new)
  BY <1>1, <1>2, MulMonotone
<1> QED
  BY <1>2, <1>3 DEF calculate_storage_deposit

(* create_subscription puts the price and the deposit on hold. *)
LEMMA CreateHolds ==
    ASSUME IInv, Held, NEW a \in Accounts, NEW id \in SubIds,
           NEW c \in CreditChoices, NEW f \in FrequencyChoices,
           NEW m \in MetadataSizes,
           create_subscription(a, id, c, f, m)
    PROVE  Held'
<1> DEFINE sub     == NewSubscription(a, c, f, m)
           fees    == calculate_subscription_fees(c)
           deposit == calculate_storage_deposit(sub)
           paid    == hold_fees(balances[a], fees)
           acc     == hold_deposit(paid, deposit)
<1>1. TypeOK
  BY DEF IInv
<1>2. c \in 0..U64Max /\ f \in Frequencies
  BY ManagerAssumption DEF Frequencies
<1>3. sub \in Subscription /\ sub.credits_left = c /\ sub.subscriber = a
  BY <1>2 DEF NewSubscription, Subscription, SubscriptionState
<1>4. /\ id \in SubIds \ DOMAIN Subscriptions
      /\ CanHold(balances[a], fees) /\ CanHold(paid, deposit)
      /\ SetBalance(a, acc) /\ Insert(id, sub)
      /\ UNCHANGED <<repriced, resized>>
  BY DEF create_subscription, InStorage
<1>5. fees \in Nat /\ deposit \in Nat
  <2>1. fees \in Nat
    BY <1>2, FeesType, ConstantTypes
  <2> HIDE DEF sub
  <2> QED
    BY ZenonT(60), <1>3, <2>1, DiffTypes
<1>6. balances[a] \in Account /\ paid \in Account
  <2>1. Sound(balances[a])
    BY ZenonT(60) DEF IInv, AllSound
  <2> HIDE DEF fees
  <2>2. Sound(paid)
    BY ZenonT(60), <1>4, <1>5, <2>1, MovesAreSound
  <2> QED
    BY <2>1, <2>2 DEF Sound
<1>7. acc.fees = balances[a].fees + fees /\ acc.deposit = balances[a].deposit + deposit
  <2> HIDE DEF fees, deposit
  <2>1. paid.fees = balances[a].fees + fees /\ paid.deposit = balances[a].deposit
    BY ZenonT(60), <1>6, MoveFields
  <2> HIDE DEF paid
  <2> QED
    BY SMTT(60), <1>6, <2>1, MoveFields
<1>8. /\ OwedFees(a)' = OwedFees(a) + fees
      /\ OwedDeposit(a)' = OwedDeposit(a) + deposit
      /\ \A b \in Accounts \ {a} : /\ OwedFees(b)' = OwedFees(b)
                                   /\ OwedDeposit(b)' = OwedDeposit(b)
  <2> HIDE DEF sub
  <2> QED
    BY ZenonT(60), <1>1, <1>3, <1>4, OwedAfterCreate
<1>9. a \notin repriced' => acc.fees = OwedFees(a)'
  BY ZenonT(60), <1>4, <1>7, <1>8 DEF Held, FeesBacked, OwedFees
<1>10. a \notin resized' => acc.deposit <= OwedDeposit(a)'
  <2>1. balances[a].deposit \in Nat /\ OwedDeposit(a) \in Nat
    BY ZenonT(60), <1>1, <1>6, OwedTypes DEF Account
  <2>2. a \notin resized => balances[a].deposit <= OwedDeposit(a)
    BY DEF Held, DepositsCovered
  <2> QED
    BY ZenonT(60), <1>4, <1>5, <1>7, <1>8, <2>1, <2>2, ReplacedAmount
<1> HIDE DEF acc
<1> QED
  BY SMTT(60), <1>1, <1>4, <1>8, <1>9, <1>10, HeldAfter

(* A live subscription is paused or reactivated: nothing is owed more or   *)
(* less.                                                                   *)
LEMMA SetStateHolds ==
    ASSUME IInv, Held, NEW id \in DOMAIN Subscriptions,
           NEW state \in {"Active", "Paused"}, SetState(id, state)
    PROVE  Held'
<1> DEFINE sub == Subscriptions[id]
           new == [sub EXCEPT !.state = state]
<1>1. TypeOK /\ sub \in Subscription
  BY DEF IInv, TypeOK
<1>2. new \in Subscription
  BY ZenonT(60), <1>1, SetField DEF SubscriptionState
<1>3. /\ new.credits_left = sub.credits_left /\ new.subscriber = sub.subscriber
      /\ new.metadata = sub.metadata /\ new.age = sub.age
  BY <1>1 DEF Subscription
<1>4. Insert(id, new) /\ UNCHANGED <<balances, repriced, resized>>
  BY SMTT(60) DEF SetState
<1>5. calculate_storage_deposit(sub) = calculate_storage_deposit(new)
  <2> HIDE DEF new
  <2> QED
    BY ZenonT(60), <1>1, <1>2, <1>3, DepositGrows
<1>6. ASSUME NEW b \in Accounts
      PROVE  OwedFees(b)' = OwedFees(b) /\ OwedDeposit(b)' = OwedDeposit(b)
  <2>1. /\ OwedFees(b) \in Nat /\ OwedDeposit(b) \in Nat
        /\ calculate_subscription_fees(sub.credits_left) \in Nat
        /\ calculate_storage_deposit(sub) \in Nat
    BY SMTT(60), <1>1, OwedTypes, SubscriptionFields, FeesType, ConstantTypes, DiffTypes
  <2> HIDE DEF new
  <2> QED
    <3>1. /\ OwedFees(b)' =
               IF b = sub.subscriber
               THEN (OwedFees(b) - calculate_subscription_fees(sub.credits_left))
                    + calculate_subscription_fees(sub.credits_left)
               ELSE OwedFees(b)
          /\ OwedDeposit(b)' =
               IF b = sub.subscriber
               THEN (OwedDeposit(b) - calculate_storage_deposit(sub))
                    + calculate_storage_deposit(sub)
               ELSE OwedDeposit(b)
      BY ZenonT(60), <1>1, <1>2, <1>3, <1>4, <1>5, OwedAfterReplace
    <3> QED
      BY ZenonT(60), <2>1, <3>1, ReplacedAmount
<1> QED
  BY <1>1, <1>4, <1>6, HeldSame

(* terminate_subscription, by kill_subscription or on_finalize: the price  *)
(* of the credits left is released, and no more deposit than the others    *)
(* have on hold stays behind.                                              *)
LEMMA TerminationHolds ==
    ASSUME IInv, Held, NEW id \in DOMAIN Subscriptions, NEW a \in Accounts,
           a = Subscriptions[id].subscriber,
           Terminated(balances[a], Subscriptions[id]).ok,
           SetBalance(a, Terminated(balances[a], Subscriptions[id]).acc),
           Remove(id), UNCHANGED <<repriced, resized>>
    PROVE  Held'
<1> DEFINE sub == Subscriptions[id]
           fee == calculate_subscription_fees(sub.credits_left)
           dep == calculate_storage_deposit(sub)
           acc == Terminated(balances[a], sub).acc
<1>1. TypeOK /\ sub \in Subscription /\ balances[a] \in Account
  BY ZenonT(60) DEF IInv, TypeOK
<1>2. /\ acc.fees = balances[a].fees - fee
      /\ acc.deposit = balances[a].deposit - Lesser(dep, balances[a].deposit)
  BY SMTT(60), <1>1, TerminateFields
<1>3. /\ OwedFees(a)' = OwedFees(a) - fee
      /\ OwedDeposit(a)' = OwedDeposit(a) - dep
      /\ \A b \in Accounts \ {a} : /\ OwedFees(b)' = OwedFees(b)
                                   /\ OwedDeposit(b)' = OwedDeposit(b)
  BY ZenonT(60), <1>1, OwedAfterRemove
<1>4. /\ balances[a].deposit \in Nat /\ OwedDeposit(a) \in Nat /\ dep \in Nat
      /\ dep <= OwedDeposit(a)
  <2>1. balances[a].deposit \in Nat /\ OwedDeposit(a) \in Nat /\ dep \in Nat
    BY ZenonT(60), <1>1, OwedTypes, DiffTypes DEF Account
  <2>2. id \in OwnedBy(a) /\ StorageDeposits[id] = dep
    BY SMTT(60) DEF OwnedBy, StorageDeposits
  <2>3. dep <= OwedDeposit(a)
    BY ZenonT(60), <1>1, <2>2, OwedTypes
  <2> QED
    BY ZenonT(60), <2>1, <2>3
<1>5. a \notin repriced' => acc.fees = OwedFees(a)'
  BY ZenonT(60), <1>2, <1>3 DEF Held, FeesBacked, OwedFees
<1>6. a \notin resized' => acc.deposit <= OwedDeposit(a)'
  <2>1. a \notin resized => balances[a].deposit <= OwedDeposit(a)
    BY DEF Held, DepositsCovered
  <2> HIDE DEF acc, dep
  <2>2. a \notin resized =>
          balances[a].deposit - Lesser(dep, balances[a].deposit) <= OwedDeposit(a) - dep
    BY ZenonT(60), <1>4, <2>1, ReleasedAmount
  <2> QED
    BY ZenonT(60), <1>2, <1>3, <2>2
<1> HIDE DEF acc
<1>7. SetBalance(a, acc)
  BY ZenonT(60) DEF acc
<1> QED
  BY ZenonT(60), <1>1, <1>3, <1>5, <1>6, <1>7, HeldAfter

(* update_subscription: the deposit is never adjusted, and the fees only   *)
(* when credits change.                                                    *)
LEMMA UpdateHolds ==
    ASSUME IInv, Held, NEW a \in Accounts, NEW id \in SubIds,
           NEW c \in CreditChoices, NEW f \in FrequencyChoices,
           NEW m \in MetadataSizes,
           update_subscription(a, id, c, f, m)
    PROVE  Held'
<1> DEFINE old == Subscriptions[id]
           new == [old EXCEPT !.credits = c, !.frequency = f, !.metadata = m]
           fd  == calculate_diff_fees(old.credits, c)
           dd  == calculate_diff_deposit(new, new)
           mid == manage_diff_fees(balances[a], fd)
           acc == manage_diff_deposit(mid, dd)
<1>1. /\ TypeOK /\ id \in DOMAIN Subscriptions /\ old \in Subscription
      /\ old.subscriber = a /\ balances[a] \in Account
  BY DEF IInv, TypeOK, update_subscription, CallBy, InStorage
<1>2. c \in 0..U64Max /\ f \in Frequencies
  BY ManagerAssumption DEF Frequencies
<1>3. new \in Subscription
  <2>1. new = [[[old EXCEPT !.credits = c] EXCEPT !.frequency = f]
                 EXCEPT !.metadata = m]
    BY <1>1 DEF Subscription
  <2> QED
    BY ZenonT(60), <1>1, <1>2, <2>1, SetField
<1>4. /\ new.credits_left = old.credits_left /\ new.subscriber = a
      /\ new.age = old.age /\ new.metadata = m
  BY <1>1 DEF Subscription
<1>5. /\ SetBalance(a, acc) /\ Insert(id, new)
      /\ CanManageDiffFees(balances[a], fd)
      /\ repriced' = IF c = old.credits THEN repriced ELSE repriced \cup {a}
      /\ resized' = IF m = old.metadata THEN resized ELSE resized \cup {a}
  BY DEF update_subscription
<1>6. calculate_storage_deposit(new) \in Nat /\ calculate_storage_deposit(old) \in Nat
  BY <1>1, <1>3, DiffTypes
<1>7. dd.direction = "None"
  <2> HIDE DEF new
  <2> QED
    BY <1>6 DEF calculate_diff_deposit
<1> HIDE DEF new
<1>8. acc = mid
  <2> HIDE DEF dd, mid
  <2> QED
    BY ZenonT(60), <1>7 DEF manage_diff_deposit
<1>9. fd \in Diff
  BY ZenonT(60), <1>1, <1>2, DiffTypes, SubscriptionFields
<1>10. mid.deposit = balances[a].deposit
  <2> HIDE DEF fd
  <2>1. CASE fd.direction = "Collect"
    BY <1>1, <2>1, MoveFields DEF manage_diff_fees
  <2>2. CASE fd.direction = "Release"
    BY <1>1, <2>2, MoveFields DEF manage_diff_fees
  <2>3. CASE fd.direction = "None"
    BY <2>3 DEF manage_diff_fees
  <2> QED
    BY <1>9, <2>1, <2>2, <2>3 DEF Diff
<1>11. ASSUME c = old.credits
       PROVE  mid = balances[a]
  <2>1. calculate_subscription_fees(c) \in Nat
    BY <1>2, FeesType, ConstantTypes
  <2>2. fd.direction = "None"
    BY SMTT(60), <1>11, <2>1 DEF calculate_diff_fees
  <2> HIDE DEF fd
  <2> QED
    BY <2>2 DEF manage_diff_fees
<1>12. /\ OwedFees(a)' = OwedFees(a)
       /\ m = old.metadata => OwedDeposit(a)' = OwedDeposit(a)
       /\ \A b \in Accounts \ {a} : /\ OwedFees(b)' = OwedFees(b)
                                    /\ OwedDeposit(b)' = OwedDeposit(b)
  <2>1. /\ OwedFees(a) \in Nat /\ OwedDeposit(a) \in Nat
        /\ calculate_subscription_fees(old.credits_left) \in Nat
    BY SMTT(60), <1>1, OwedTypes, SubscriptionFields, FeesType, ConstantTypes
  <2>2. m = old.metadata =>
          calculate_storage_deposit(old) = calculate_storage_deposit(new)
    BY ZenonT(60), <1>1, <1>3, <1>4, DepositGrows
  <2>3. /\ OwedFees(a)' =
             (OwedFees(a) - calculate_subscription_fees(old.credits_left))
             + calculate_subscription_fees(old.credits_left)
        /\ OwedDeposit(a)' =
             (OwedDeposit(a) - calculate_storage_deposit(old))
             + calculate_storage_deposit(new)
        /\ \A b \in Accounts \ {a} : /\ OwedFees(b)' = OwedFees(b)
                                     /\ OwedDeposit(b)' = OwedDeposit(b)
    BY ZenonT(60), <1>1, <1>3, <1>4, <1>5, OwedAfterReplace
  <2> HIDE DEF old
  <2> QED
    BY ZenonT(60), <1>6, <2>1, <2>2, <2>3, ReplacedAmount
<1> HIDE DEF mid, acc, fd
<1>13. a \notin repriced' => acc.fees = OwedFees(a)'
  <2>1. a \notin repriced => balances[a].fees = OwedFees(a)
    BY SMTT(60) DEF Held, FeesBacked, OwedFees
  <2> QED
    BY ZenonT(60), <1>5, <1>8, <1>11, <1>12, <2>1
<1>14. a \notin resized' => acc.deposit <= OwedDeposit(a)'
  <2>1. a \notin resized => balances[a].deposit <= OwedDeposit(a)
    BY DEF Held, DepositsCovered
  <2> QED
    BY ZenonT(60), <1>5, <1>8, <1>10, <1>12, <2>1
<1>15. repriced \subseteq repriced' /\ resized \subseteq resized'
  BY <1>5
<1> QED
  BY ZenonT(60), <1>1, <1>5, <1>12, <1>13, <1>14, <1>15, HeldAfter

(* An iteration of distribute collects the price of the credit it takes    *)
(* from the subscription, as long as the fees on hold are backed.          *)
LEMMA DistributeHolds ==
    ASSUME IInv, Held, NEW id \in SubIds, Distribute(id),
           NEW a, a = Subscriptions[id].subscriber
    PROVE  Held'
<1> DEFINE sub    == Subscriptions[id]
           fee    == calculate_subscription_fees(sub.credits_left)
           end    == collect_fees(balances[a], sub, 1)
           unpaid == [sub EXCEPT !.state = "Paused"]
<1>1. TypeOK /\ id \in DOMAIN Subscriptions /\ UNCHANGED <<repriced, resized>>
  BY SMTT(60) DEF IInv, TypeOK, Distribute, DeliverPulse, PauseUnpaid,
     PauseUnsent, IdlePulse, Distributing
<1>2. sub \in Subscription /\ a \in Accounts /\ balances[a] \in Account
  <2>1. sub \in Subscription
    BY <1>1 DEF TypeOK
  <2>2. a \in Accounts
    BY ZenonT(60), <2>1 DEF Subscription
  <2> QED
    BY <1>1, <2>1, <2>2 DEF TypeOK
<1>3. /\ fee \in Nat /\ fee <= OwedFees(a) /\ OwedFees(a) \in Nat
      /\ OwedDeposit(a) \in Nat /\ balances[a].deposit \in Nat
  <2>1. id \in OwnedBy(a) /\ FeesOfCreditsLeft[id] = fee
    BY <1>1 DEF OwnedBy, FeesOfCreditsLeft
  <2>2. balances[a].deposit \in Nat
    BY ZenonT(60), <1>2 DEF Account
  <2>3. fee \in Nat
    BY ZenonT(60), <1>1, <2>1, OwedTypes
  <2> QED
    BY ZenonT(60), <1>1, <2>1, <2>2, <2>3, OwedTypes
<1>4. /\ a \notin repriced => balances[a].fees = OwedFees(a)
      /\ a \notin resized => balances[a].deposit <= OwedDeposit(a)
  BY ZenonT(60), <1>2 DEF Held, FeesBacked, DepositsCovered, OwedFees
<1>5. SetBalance(a, end.acc)
  BY SMTT(60) DEF Distribute, DeliverPulse, PauseUnpaid, PauseUnsent, IdlePulse,
     Collect, get_consume_credits, get_idle_credits
<1>6. \/ Insert(id, Delivered(sub))
      \/ Insert(id, Unsent(sub))
      \/ Insert(id, Idled(sub))
      \/ Insert(id, unpaid) /\ ~end.ok
  <2>1. Collect(id, get_consume_credits) = end
    BY DEF Collect, get_consume_credits
  <2>2. PauseUnpaid(id) => Insert(id, unpaid) /\ ~end.ok
    BY <2>1, Zenon DEF PauseUnpaid
  <2> QED
    BY <2>2, Zenon DEF Distribute, DeliverPulse, PauseUnsent, IdlePulse,
       Delivered, Unsent, Idled
<1>7. /\ end.acc.deposit = balances[a].deposit
      /\ balances[a].fees >= fee =>
           /\ end.ok
           /\ end.acc.fees = (balances[a].fees - fee)
                + calculate_subscription_fees(Charged(sub, 1).credits_left)
  BY ZenonT(60), <1>2, CollectFields
<1> HIDE DEF end
<1>8. ASSUME NEW new \in Subscription, Insert(id, new), new.subscriber = a,
             new.metadata = sub.metadata, sub.age # Never => new.age # Never,
             a \in repriced \/ new.credits_left = Charged(sub, 1).credits_left
      PROVE  Held'
  <2> DEFINE left == calculate_subscription_fees(new.credits_left)
             d0   == calculate_storage_deposit(sub)
             d1   == calculate_storage_deposit(new)
  <2>1. left \in Nat /\ d0 \in Nat /\ d1 \in Nat /\ d0 <= d1
    <3>1. d0 <= d1
      BY ZenonT(60), <1>2, <1>8, DepositGrows
    <3>2. new.credits_left \in 0..U64Max
      BY ZenonT(60), <1>8, SubscriptionFields
    <3>3. left \in 0..U64Max
      BY ZenonT(60), <3>2, FeesType
    <3>4. d0 \in Nat /\ d1 \in Nat
      BY ZenonT(60), <1>2, <1>8, DiffTypes
    <3> HIDE DEF left, d0, d1
    <3>5. left \in Nat
      BY <3>3, ConstantTypes
    <3> QED
      BY ZenonT(60), <3>1, <3>4, <3>5
  <2>2. /\ OwedFees(a)' = (OwedFees(a) - fee) + left
        /\ OwedDeposit(a)' = (OwedDeposit(a) - d0) + d1
        /\ \A b \in Accounts \ {a} : /\ OwedFees(b)' = OwedFees(b)
                                     /\ OwedDeposit(b)' = OwedDeposit(b)
    BY ZenonT(60), <1>1, <1>8, OwedAfterReplace
  <2> HIDE DEF left, d0, d1, fee
  <2>3. a \notin repriced' => end.acc.fees = OwedFees(a)'
    <3> SUFFICES ASSUME a \notin repriced
                 PROVE  end.acc.fees = OwedFees(a)'
      BY ZenonT(60), <1>1
    <3>1. balances[a].fees >= fee /\ balances[a].fees = OwedFees(a)
      BY ZenonT(60), <1>3, <1>4
    <3> QED
      BY <1>7, <1>8, <2>2, <3>1 DEF left
  <2>4. a \notin resized' => end.acc.deposit <= OwedDeposit(a)'
    <3>1. ASSUME a \notin resized
          PROVE  balances[a].deposit <= (OwedDeposit(a) - d0) + d1
      <4>1. balances[a].deposit <= OwedDeposit(a)
        BY ZenonT(60), <1>4, <3>1
      <4> QED
        BY ZenonT(60), <1>3, <2>1, <4>1, ReplacedAmount
    <3> QED
      BY ZenonT(60), <1>1, <1>7, <2>2, <3>1
  <2> QED
    BY ZenonT(60), <1>1, <1>2, <1>5, <2>2, <2>3, <2>4, HeldAfter
<1>9. /\ Charged(sub, 1).credits_left =
           IF sub.credits_left = 0 THEN 0 ELSE sub.credits_left - 1
      /\ 0 # Never
  BY SMTT(60), <1>2, ChargedFields DEF Never
<1>10. CASE Insert(id, Delivered(sub))
  BY ZenonT(60), <1>2, <1>8, <1>9, <1>10, DistributedFields, DistributedMetadata
<1>11. CASE Insert(id, Unsent(sub))
  BY ZenonT(60), <1>2, <1>8, <1>9, <1>11, DistributedFields, DistributedMetadata
<1>12. CASE Insert(id, Idled(sub))
  BY ZenonT(60), <1>2, <1>8, <1>9, <1>12, DistributedFields, DistributedMetadata
<1>13. CASE Insert(id, unpaid) /\ ~end.ok
  <2>1. unpaid \in Subscription
    BY ZenonT(60), <1>2, SetField DEF SubscriptionState
  <2>2. unpaid.subscriber = a /\ unpaid.metadata = sub.metadata /\ unpaid.age = sub.age
    BY <1>2 DEF Subscription
  <2>3. a \in repriced
    BY <1>3, <1>4, <1>7, <1>13
  <2> HIDE DEF unpaid
  <2> QED
    BY <1>8, <1>13, <2>1, <2>2, <2>3
<1> QED
  BY ZenonT(60), <1>6, <1>10, <1>11, <1>12, <1>13

(* A step that changes no hold and keeps the credits, the metadata and the *)
(* fact of a delivery of every subscription: dispatch, on_finalize, the    *)
(* next block, and a refused termination.                                  *)
LEMMA BlockStepHolds ==
    ASSUME IInv, Held,
           \/ UNCHANGED <<Subscriptions, balances, repriced, resized>>
           \/ NextBlock
    PROVE  Held'
<1> DEFINE S == Subscriptions
<1>1. TypeOK /\ UNCHANGED <<balances, repriced, resized>>
  BY DEF IInv, NextBlock
<1>2. CASE UNCHANGED Subscriptions
  <2>1. ASSUME NEW b \in Accounts
        PROVE  OwedFees(b)' = OwedFees(b) /\ OwedDeposit(b)' = OwedDeposit(b)
    BY <1>2 DEF OwedFees, OwedDeposit, OwnedBy, FeesOfCreditsLeft, StorageDeposits
  <2> QED
    BY <1>1, <2>1, HeldSame
<1>3. CASE NextBlock
  <2>1. DOMAIN Subscriptions' = DOMAIN S
    BY <1>3 DEF NextBlock
  <2>2. ASSUME NEW x \in DOMAIN S
        PROVE  /\ Subscriptions'[x].subscriber = S[x].subscriber
               /\ Subscriptions'[x].credits_left = S[x].credits_left
               /\ calculate_storage_deposit(Subscriptions'[x]) =
                    calculate_storage_deposit(S[x])
    <3>1. S[x] \in Subscription
      BY <1>1 DEF TypeOK
    <3>2. Subscriptions'[x] = [S[x] EXCEPT !.age = Older(S[x].age)]
      BY <1>3 DEF NextBlock
    <3>3. Older(S[x].age) = Never <=> S[x].age = Never
      <4>1. MaxFrequency \in Nat /\ S[x].age \in {Never} \cup Frequencies
        BY <3>1, ConstantTypes DEF Subscription
      <4> QED
        BY <4>1 DEF Older, Never, Lesser, Frequencies
    <3>4. /\ Subscriptions'[x].metadata = S[x].metadata
          /\ Subscriptions'[x].age = Older(S[x].age)
          /\ Subscriptions'[x].subscriber = S[x].subscriber
          /\ Subscriptions'[x].credits_left = S[x].credits_left
      BY <3>1, <3>2 DEF Subscription
    <3> QED
      BY <3>3, <3>4 DEF calculate_storage_deposit, EncodedSize
  <2>3. ASSUME NEW b \in Accounts
        PROVE  OwedFees(b)' = OwedFees(b) /\ OwedDeposit(b)' = OwedDeposit(b)
    <3>1. OwnedBy(b)' = OwnedBy(b)
      BY <2>1, <2>2 DEF OwnedBy
    <3>2. FeesOfCreditsLeft' = FeesOfCreditsLeft /\ StorageDeposits' = StorageDeposits
      BY <2>1, <2>2 DEF FeesOfCreditsLeft, StorageDeposits
    <3> QED
      BY <3>1, <3>2 DEF OwedFees, OwedDeposit
  <2> QED
    BY <1>1, <2>3, HeldSame
<1> QED
  BY <1>2, <1>3

(* Nothing is owed and nothing is on hold at the start. *)
LEMMA InitHolds == Init => Held
<1> SUFFICES ASSUME Init
             PROVE  Held
  OBVIOUS
<1>1. ASSUME NEW a \in Accounts
      PROVE  balances[a].fees = OwedFees(a) /\ balances[a].deposit <= OwedDeposit(a)
  <2>1. OwnedBy(a) = {} /\ balances[a].fees = 0 /\ balances[a].deposit = 0
    BY DEF Init, OwnedBy
  <2>2. OwedFees(a) = 0 /\ OwedDeposit(a) = 0
    BY <2>1, SumEmpty DEF OwedFees, OwedDeposit
  <2> QED
    BY SMTT(60), <2>1, <2>2
<1> QED
  BY <1>1 DEF Held, FeesBacked, DepositsCovered, OwedFees

(* Every step of the pallet keeps the holds backed. *)
LEMMA StepHolds == IInv /\ Held /\ [Next]_vars => Held'
<1> SUFFICES ASSUME IInv, Held, [Next]_vars
             PROVE  Held'
  OBVIOUS
<1>1. ASSUME NEW a \in Accounts, NEW id \in SubIds, Call(a, id)
      PROVE  Held'
  <2>1. ASSUME NEW c \in CreditChoices, NEW f \in FrequencyChoices,
               NEW m \in MetadataSizes, create_subscription(a, id, c, f, m)
        PROVE  Held'
    BY <2>1, CreateHolds
  <2>2. CASE pause_subscription(a, id)
    BY ZenonT(60), <2>2, SetStateHolds DEF pause_subscription, CallBy, InStorage
  <2>3. CASE kill_subscription(a, id)
    BY ZenonT(60), <2>3, TerminationHolds DEF kill_subscription, CallBy, InStorage
  <2>4. ASSUME NEW c \in CreditChoices, NEW f \in FrequencyChoices,
               NEW m \in MetadataSizes, update_subscription(a, id, c, f, m)
        PROVE  Held'
    BY <2>4, UpdateHolds
  <2>5. CASE reactivate_subscription(a, id)
    BY <2>5, SetStateHolds DEF reactivate_subscription, CallBy, InStorage
  <2> QED
    BY SMTT(60), <1>1, <2>1, <2>2, <2>3, <2>4, <2>5 DEF Call
<1>2. CASE dispatch \/ on_finalize \/ NextBlock
  <2>1. \/ UNCHANGED <<Subscriptions, balances, repriced, resized>>
        \/ NextBlock
    BY <1>2 DEF dispatch, on_finalize
  <2> QED
    BY <2>1, BlockStepHolds
<1>3. ASSUME NEW id \in SubIds, Distribute(id)
      PROVE  Held'
  BY ZenonT(60), <1>3, DistributeHolds
<1>4. ASSUME NEW id \in SubIds, TerminateFinalized(id)
      PROVE  Held'
  <2> DEFINE sub == Subscriptions[id]
             end == Terminated(balances[sub.subscriber], sub)
  <2>1. CASE end.ok
    <3>1. /\ id \in DOMAIN Subscriptions /\ Remove(id)
          /\ SetBalance(sub.subscriber, end.acc) /\ UNCHANGED <<repriced, resized>>
      BY ZenonT(60), <1>4, <2>1 DEF TerminateFinalized, IInv, TypeOK
    <3>2. sub.subscriber \in Accounts
      BY <3>1 DEF IInv, TypeOK, Subscription
    <3> QED
      BY ZenonT(60), <2>1, <3>1, <3>2, TerminationHolds
  <2>2. CASE ~end.ok
    <3>1. UNCHANGED <<Subscriptions, balances, repriced, resized>>
      BY SMTT(60), <1>4, <2>2 DEF TerminateFinalized
    <3> QED
      BY ZenonT(60), <3>1, BlockStepHolds
  <2> QED
    BY ZenonT(60), <2>1, <2>2
<1>5. CASE UNCHANGED vars
  <2>1. UNCHANGED <<Subscriptions, balances, repriced, resized>>
    BY <1>5 DEF vars
  <2> QED
    BY <2>1, BlockStepHolds
<1> QED
  BY ZenonT(60), <1>1, <1>2, <1>3, <1>4, <1>5 DEF Next, BlockStep

(* The fees on hold for an account that never changed credits by           *)
(* update_subscription are exactly the price of the credits its            *)
(* subscriptions have left.                                                *)
THEOREM FeesAreBacked == Spec => []FeesBacked
<1>1. IInv /\ Held => FeesBacked
  BY ZenonT(60) DEF Held
<1> QED
  BY <1>1, InitEstablishes, StepPreserves, InitHolds, StepHolds, PTL DEF Spec

(* No storage deposit stays on hold for an account that never changed      *)
(* metadata, once its last subscription is gone.                           *)
THEOREM DepositsAreReturned == Spec => []DepositsReturned
<1>1. IInv /\ Held => DepositsReturned
  <2> SUFFICES ASSUME IInv, Held, NEW a \in Accounts \ resized, OwnedBy(a) = {}
               PROVE  balances[a].deposit = 0
    BY DEF DepositsReturned
  <2>1. OwedDeposit(a) = 0
    BY SumEmpty DEF OwedDeposit
  <2>2. balances[a].deposit \in Nat /\ balances[a].deposit <= OwedDeposit(a)
    BY DEF IInv, TypeOK, Account, Held, DepositsCovered
  <2> QED
    BY <2>1, <2>2
<1> QED
  BY <1>1, InitEstablishes, StepPreserves, InitHolds, StepHolds, PTL DEF Spec

(* For such an account collect_fees never falls short, kill_subscription   *)
(* never fails on its refund, and on_finalize never leaves a finalized     *)
(* subscription behind: only update_subscription's repricing lets          *)
(* SubscriberCanKill fail.                                                 *)
THEOREM UnrepricedCanKill ==
    Spec => [](\A id \in DOMAIN Subscriptions :
                 LET a == Subscriptions[id].subscriber
                 IN  a \notin repriced =>
                       Terminated(balances[a], Subscriptions[id]).ok)
<1> DEFINE CanKill ==
             \A id \in DOMAIN Subscriptions :
               LET a == Subscriptions[id].subscriber
               IN  a \notin repriced =>
                     Terminated(balances[a], Subscriptions[id]).ok
<1>1. IInv /\ Held => CanKill
  <2> SUFFICES ASSUME IInv, Held, NEW id \in DOMAIN Subscriptions,
                      Subscriptions[id].subscriber \notin repriced
               PROVE  Terminated(balances[Subscriptions[id].subscriber],
                                 Subscriptions[id]).ok
    OBVIOUS
  <2> DEFINE sub == Subscriptions[id]
             a   == sub.subscriber
             fee == calculate_subscription_fees(sub.credits_left)
  <2>1. TypeOK /\ sub \in Subscription /\ a \in Accounts
    BY DEF IInv, TypeOK, Subscription
  <2>2. balances[a] \in Account
    BY <2>1 DEF TypeOK
  <2>3. id \in OwnedBy(a) /\ FeesOfCreditsLeft[id] = fee
    BY ZenonT(60) DEF OwnedBy, FeesOfCreditsLeft
  <2>4. fee <= OwedFees(a) /\ OwedFees(a) \in Nat /\ fee \in Nat
    BY ZenonT(60), <2>1, <2>3, OwedTypes
  <2>5. balances[a].fees = OwedFees(a)
    BY <2>1 DEF Held, FeesBacked, OwedFees
  <2> HIDE DEF fee
  <2>6. balances[a].fees >= fee
    BY <2>4, <2>5
  <2> QED
    BY ZenonT(60), <2>1, <2>2, <2>6, TerminateFields DEF fee
<1> QED
  BY <1>1, InitEstablishes, StepPreserves, InitHolds, StepHolds, PTL DEF Spec

-----------------------------------------------------------------------------
(* The manager is the service its subscribers are promised.                *)

(* The mapped state is a function of the storage and of the loop at work.  *)
LEMMA ServiceState ==
    /\ DOMAIN Subscribers = DOMAIN Subscriptions
    /\ \A id \in DOMAIN Subscriptions :
         Subscribers[id] = Subscriptions[id].subscriber
    /\ todo = {} => Waiting = {}
    /\ phase = "finalize" => Waiting = {}
    /\ phase = "execute" => Waiting = todo
BY ZenonT(60) DEF Subscribers, Waiting

(* Before the first call nobody is subscribed and nothing is outstanding.  *)
LEMMA ServiceStarts == Init => Service!ServiceInit
<1> SUFFICES ASSUME Init
             PROVE  Service!ServiceInit
  OBVIOUS
<1>1. /\ Subscriptions = [id \in {} |-> {}]
      /\ DidUpdate = FALSE /\ todo = {}
      /\ granted = [id \in SubIds |-> 0] /\ received = [id \in SubIds |-> 0]
  BY ZenonT(60) DEF Init
<1>2. Subscribers = [id \in {} |-> {}]
  BY <1>1 DEF Subscribers
<1>3. Outstanding = [id \in SubIds |-> 0]
  BY <1>1 DEF Outstanding
<1>4. Waiting = {}
  BY ZenonT(60), <1>1, ServiceState
<1> QED
  BY ZenonT(60), <1>1, <1>2, <1>3, <1>4 DEF Service!ServiceInit

(* A subscription replaced by one of the same subscriber, as by            *)
(* pause_subscription, update_subscription and distribute, stays open.     *)
LEMMA ReplacedStaysOpen ==
    ASSUME NEW id \in DOMAIN Subscriptions, NEW new, Insert(id, new),
           new.subscriber = Subscriptions[id].subscriber
    PROVE  Subscribers' = Subscribers
<1>1. /\ DOMAIN Subscriptions' = DOMAIN Subscriptions
      /\ \A x \in DOMAIN Subscriptions :
           Subscriptions'[x] = IF x = id THEN new ELSE Subscriptions[x]
  BY DEF Insert
<1>2. \A x \in DOMAIN Subscriptions :
        Subscriptions'[x].subscriber = Subscriptions[x].subscriber
  BY ZenonT(60), <1>1
<1> QED
  BY <1>1, <1>2 DEF Subscribers

(* Only one subscription's outstanding pulses change. *)
LEMMA OutstandingOfOne ==
    ASSUME NEW id \in SubIds, NEW n,
           granted'[id] - received'[id] = n,
           \A x \in SubIds \ {id} : granted'[x] = granted[x] /\ received'[x] = received[x]
    PROVE  Outstanding' = [Outstanding EXCEPT ![id] = n]
<1>1. [Outstanding EXCEPT ![id] = n] =
        [x \in SubIds |-> IF x = id THEN n ELSE granted[x] - received[x]]
  BY ZenonT(60) DEF Outstanding
<1>2. \A x \in SubIds : granted'[x] - received'[x] =
                         IF x = id THEN n ELSE granted[x] - received[x]
  BY ZenonT(60)
<1>3. Outstanding' = [x \in SubIds |-> granted'[x] - received'[x]]
  BY ZenonT(60) DEF Outstanding
<1> QED
  BY ZenonT(60), <1>1, <1>2, <1>3

(* terminate_subscription closes a subscription, whatever was outstanding. *)
LEMMA RemovedIsClosed ==
    ASSUME TypeOK, NEW id \in DOMAIN Subscriptions, Remove(id),
           Waiting = {}, Waiting' = {}, UNCHANGED DidUpdate
    PROVE  Service!Unsubscribe(id)
<1>1. /\ granted \in [SubIds -> 0..U64Max] /\ received \in [SubIds -> Nat]
      /\ id \in SubIds
  BY ZenonT(60) DEF TypeOK
<1>2. /\ Subscriptions' = [x \in DOMAIN Subscriptions \ {id} |-> Subscriptions[x]]
      /\ granted' = [granted EXCEPT ![id] = 0]
      /\ received' = [received EXCEPT ![id] = 0]
  BY ZenonT(60) DEF Remove
<1>3. Subscribers' = [x \in DOMAIN Subscribers \ {id} |-> Subscribers[x]]
  BY <1>2 DEF Subscribers
<1>4. Outstanding' = [Outstanding EXCEPT ![id] = 0]
  <2>1. /\ granted'[id] - received'[id] = 0
        /\ \A x \in SubIds \ {id} : granted'[x] = granted[x] /\ received'[x] = received[x]
    BY <1>1, <1>2
  <2> QED
    BY ZenonT(60), <1>1, <2>1, OutstandingOfOne
<1> QED
  BY ZenonT(60), <1>3, <1>4, ServiceState DEF Service!Unsubscribe

(* create_subscription opens a subscription below the limit, with as many  *)
(* pulses outstanding as it has credits.                                   *)
LEMMA CreateSubscribes ==
    ASSUME IInv, NEW a \in Accounts, NEW id \in SubIds,
           NEW c \in CreditChoices, NEW f \in FrequencyChoices,
           NEW m \in MetadataSizes,
           create_subscription(a, id, c, f, m)
    PROVE  c # 0 /\ Service!Subscribe(a, id, c)
<1> DEFINE sub == NewSubscription(a, c, f, m)
<1>1. /\ Executing /\ c # 0 /\ SubCounter < MaxSubscriptions
      /\ id \notin DOMAIN Subscriptions
      /\ Insert(id, sub)
      /\ granted' = [granted EXCEPT ![id] = c]
      /\ DidUpdate' = DidUpdate /\ phase' = phase /\ todo' = todo
      /\ received' = received
  BY ZenonT(60) DEF create_subscription, InStorage
<1>2. /\ granted \in [SubIds -> 0..U64Max] /\ received \in [SubIds -> Nat]
      /\ received[id] = 0 /\ c \in Nat
  BY <1>1, ManagerAssumption DEF IInv, TypeOK, NothingSentToAbsent
<1>3. sub.subscriber = a
  BY ZenonT(60) DEF NewSubscription
<1>4. Subscribers' = [x \in DOMAIN Subscribers \union {id} |->
                        IF x = id THEN a ELSE Subscribers[x]]
  <2> HIDE DEF sub
  <2> QED
    BY <1>1, <1>3 DEF Insert, Subscribers
<1>5. Outstanding' = [Outstanding EXCEPT ![id] = c]
  <2>1. /\ granted'[id] - received'[id] = c
        /\ \A x \in SubIds \ {id} : granted'[x] = granted[x] /\ received'[x] = received[x]
    BY <1>1, <1>2
  <2> QED
    BY ZenonT(60), <2>1, OutstandingOfOne
<1>6. Waiting = {} /\ Waiting' = {}
  BY ZenonT(60), <1>1 DEF Executing, Waiting
<1>7. /\ Service!Cardinality(DOMAIN Subscribers) < MaxSubscriptions
      /\ id \notin DOMAIN Subscribers
  <2>1. Service!Cardinality(DOMAIN Subscribers) = Cardinality(DOMAIN Subscribers)
    BY ZenonT(60) DEF Service!Cardinality, Cardinality
  <2> QED
    BY ZenonT(60), <1>1, <2>1, ServiceState DEF IInv, CounterMatchesStorage
<1>8. Waiting' = Waiting
  BY ZenonT(60), <1>6
<1> QED
  BY ZenonT(60), <1>1, <1>4, <1>5, <1>6, <1>7, <1>8 DEF Service!Subscribe
(* pause_subscription, reactivate_subscription and update_subscription are *)
(* not seen by the service: in particular an update adds no pulses.        *)
LEMMA ChangeIsUnseen ==
    ASSUME TypeOK, NEW a \in Accounts, NEW id \in SubIds,
           \/ pause_subscription(a, id)
           \/ reactivate_subscription(a, id)
           \/ \E c \in CreditChoices, f \in FrequencyChoices, m \in MetadataSizes :
                update_subscription(a, id, c, f, m)
    PROVE  UNCHANGED Service!service
<1>1. /\ id \in DOMAIN Subscriptions
      /\ DidUpdate' = DidUpdate /\ phase' = phase /\ todo' = todo
      /\ granted' = granted /\ received' = received
      /\ \/ \E state \in SubscriptionState :
              Insert(id, [Subscriptions[id] EXCEPT !.state = state])
         \/ \E c \in CreditChoices, f \in FrequencyChoices, m \in MetadataSizes :
              Insert(id, [Subscriptions[id] EXCEPT !.credits = c,
                                                   !.frequency = f,
                                                   !.metadata = m])
  BY ZenonT(60) DEF pause_subscription, reactivate_subscription, update_subscription,
     SetState, CallBy, InStorage, SubscriptionState
<1>2. Subscriptions[id] \in Subscription
  BY ZenonT(60), <1>1 DEF TypeOK
<1>3. PICK new : Insert(id, new) /\ new.subscriber = Subscriptions[id].subscriber
  <2>1. \A state : [Subscriptions[id] EXCEPT !.state = state].subscriber =
                    Subscriptions[id].subscriber
    BY <1>2 DEF Subscription
  <2>2. CASE \E state \in SubscriptionState :
               Insert(id, [Subscriptions[id] EXCEPT !.state = state])
    BY ZenonT(60), <2>1, <2>2
  <2>3. ASSUME NEW c, NEW f, NEW m,
               Insert(id, [Subscriptions[id] EXCEPT !.credits = c,
                                                    !.frequency = f,
                                                    !.metadata = m])
        PROVE  \E new : /\ Insert(id, new)
                       /\ new.subscriber = Subscriptions[id].subscriber
    <3> DEFINE sub == [Subscriptions[id] EXCEPT !.credits = c, !.frequency = f,
                                                !.metadata = m]
    <3>1. Insert(id, sub)
      BY ZenonT(60), <2>3
    <3>2. sub.subscriber = Subscriptions[id].subscriber
      BY <1>2 DEF Subscription
    <3> HIDE DEF sub
    <3> QED
      BY ZenonT(60), <3>1, <3>2
  <2> QED
    BY ZenonT(60), <1>1, <2>2, <2>3
<1>4. Subscribers' = Subscribers
  BY ZenonT(60), <1>1, <1>3, ReplacedStaysOpen
<1>5. Outstanding' = Outstanding /\ Waiting' = Waiting
  BY ZenonT(60), <1>1 DEF Outstanding, Waiting
<1> QED
  BY ZenonT(60), <1>1, <1>4, <1>5 DEF Service!service

(* An iteration of distribute is the turn of one subscription.  The        *)
(* argument is WithinGrant: a live subscription without credits is still   *)
(* owed the pulse that could not be sent.                                  *)
LEMMA DistributeServes ==
    ASSUME IInv, NEW id \in SubIds, Distribute(id)
    PROVE  Service!Serve(id) \/ Service!Skip(id)
<1> DEFINE sub == Subscriptions[id]
<1>1. /\ phase = "execute" /\ phase' = phase
      /\ id \in todo /\ todo' = todo \ {id}
      /\ DidUpdate' = DidUpdate /\ granted' = granted
  BY ZenonT(60) DEF Distribute, DeliverPulse, PauseUnpaid, PauseUnsent, IdlePulse,
     Distributing
<1>2. /\ id \in DOMAIN Subscriptions /\ sub \in Subscription
      /\ received \in [SubIds -> Nat] /\ granted \in [SubIds -> 0..U64Max]
  BY ZenonT(60), <1>1 DEF IInv, TypeOK
<1>3. /\ Waiting = todo /\ Waiting' = todo \ {id}
  BY ZenonT(60), <1>1 DEF Waiting
<1>4. Subscribers' = Subscribers
  <2>1. \/ Insert(id, Delivered(sub))
        \/ Insert(id, Unsent(sub))
        \/ Insert(id, Idled(sub))
        \/ Insert(id, [sub EXCEPT !.state = "Paused"])
    BY ZenonT(60) DEF Distribute, DeliverPulse, PauseUnpaid, PauseUnsent, IdlePulse,
       Delivered, Unsent, Idled
  <2>2. /\ Delivered(sub).subscriber = sub.subscriber
        /\ Unsent(sub).subscriber = sub.subscriber
        /\ Idled(sub).subscriber = sub.subscriber
    BY ZenonT(60), <1>2, DistributedFields
  <2>3. [sub EXCEPT !.state = "Paused"].subscriber = sub.subscriber
    BY <1>2 DEF Subscription
  <2> QED
    BY ZenonT(60), <1>2, <2>1, <2>2, <2>3, ReplacedStaysOpen
<1>5. CASE DeliverPulse(id)
  <2>1. /\ sub.state = "Active"
        /\ received' = [received EXCEPT ![id] = @ + 1]
    BY ZenonT(60), <1>5 DEF DeliverPulse, Eligible
  <2>2. WithinGrant(sub, received[id], granted[id])
    BY ZenonT(60), <1>2 DEF IInv, AllWithinGrant
  <2>3. /\ received[id] \in Nat /\ granted[id] \in Nat /\ sub.credits_left \in Nat
        /\ \A x \in SubIds \ {id} : received'[x] = received[x]
        /\ received'[id] = received[id] + 1
    <3>1. granted[id] \in 0..U64Max
      BY ZenonT(60), <1>2
    <3>2. granted[id] \in Nat
      BY <3>1, ConstantTypes
    <3> QED
      BY ZenonT(60), <1>2, <2>1, <3>2, SubscriptionFields
  <2>4. received[id] < granted[id]
    BY <2>1, <2>2, <2>3 DEF WithinGrant
  <2>5. Outstanding[id] = granted[id] - received[id]
    BY ZenonT(60) DEF Outstanding
  <2>6. /\ Outstanding[id] > 0
        /\ granted'[id] - received'[id] = Outstanding[id] - 1
    BY <1>1, <2>3, <2>4, <2>5
  <2>7. Outstanding' = [Outstanding EXCEPT ![id] = Outstanding[id] - 1]
    BY ZenonT(60), <1>1, <2>3, <2>6, OutstandingOfOne
  <2> QED
    BY ZenonT(60), <1>1, <1>3, <1>4, <2>6, <2>7 DEF Service!Serve
<1>6. CASE ~DeliverPulse(id)
  <2>1. received' = received
    BY ZenonT(60), <1>6 DEF Distribute, PauseUnpaid, PauseUnsent, IdlePulse
  <2>2. Outstanding' = Outstanding
    BY ZenonT(60), <1>1, <2>1 DEF Outstanding
  <2> QED
    BY ZenonT(60), <1>1, <1>3, <1>4, <2>2 DEF Service!Skip
<1> QED
  BY ZenonT(60), <1>5, <1>6
(* The hooks: dispatch begins the round of a block, on_finalize cannot run *)
(* before it is over, and the next block may begin another.                *)
LEMMA HooksServe ==
    ASSUME TypeOK
    PROVE  /\ dispatch => Service!BeginRound
           /\ on_finalize => UNCHANGED Service!service
           /\ NextBlock => Service!EndBlock
<1>1. ASSUME UNCHANGED <<Subscriptions, granted, received>>
      PROVE  Subscribers' = Subscribers /\ Outstanding' = Outstanding
  BY ZenonT(60), <1>1 DEF Subscribers, Outstanding
<1>2. ASSUME dispatch
      PROVE  Service!BeginRound
  <2>1. /\ phase = "execute" /\ phase' = phase /\ todo = {}
        /\ ~DidUpdate /\ DidUpdate' = TRUE /\ todo' = DOMAIN Subscriptions
        /\ UNCHANGED <<Subscriptions, granted, received>>
    BY ZenonT(60), <1>2 DEF dispatch, Executing
  <2>2. Waiting = {} /\ Waiting' = DOMAIN Subscriptions
    BY ZenonT(60), <2>1 DEF Waiting
  <2>3. Waiting' = DOMAIN Subscribers
    BY ZenonT(60), <2>2, ServiceState
  <2> QED
    BY ZenonT(60), <1>1, <2>1, <2>2, <2>3 DEF Service!BeginRound
<1>3. ASSUME on_finalize
      PROVE  UNCHANGED Service!service
  <2>1. /\ todo = {} /\ phase' = "finalize" /\ DidUpdate' = DidUpdate
        /\ UNCHANGED <<Subscriptions, granted, received>>
    BY ZenonT(60), <1>3 DEF on_finalize, Executing
  <2>2. Waiting' = Waiting
    BY <2>1 DEF Waiting
  <2> QED
    BY ZenonT(60), <1>1, <2>1, <2>2 DEF Service!service
<1>4. ASSUME NextBlock
      PROVE  Service!EndBlock
  <2>1. /\ todo = {} /\ todo' = todo /\ DidUpdate' = FALSE
        /\ granted' = granted /\ received' = received
        /\ Subscriptions' = [id \in DOMAIN Subscriptions |->
                               [Subscriptions[id] EXCEPT !.age = Older(@)]]
    BY ZenonT(60), <1>4 DEF NextBlock
  <2>2. Waiting = {} /\ Waiting' = Waiting
    BY ZenonT(60), <2>1 DEF Waiting
  <2>3. \A id \in DOMAIN Subscriptions : Subscriptions[id] \in Subscription
    BY ZenonT(60) DEF TypeOK
  <2>4. \A sub \in Subscription : \A n : [sub EXCEPT !.age = n].subscriber = sub.subscriber
    BY DEF Subscription
  <2>5. Subscribers' = Subscribers
    <3>1. /\ DOMAIN Subscriptions' = DOMAIN Subscriptions
          /\ \A id \in DOMAIN Subscriptions :
               Subscriptions'[id].subscriber = Subscriptions[id].subscriber
      BY ZenonT(60), <2>1, <2>3, <2>4
    <3> QED
      BY ZenonT(60), <3>1 DEF Subscribers
  <2>6. Outstanding' = Outstanding
    BY ZenonT(60), <2>1 DEF Outstanding
  <2> QED
    BY ZenonT(60), <2>1, <2>2, <2>5, <2>6 DEF Service!EndBlock
<1> QED
  BY ZenonT(60), <1>2, <1>3, <1>4

(* kill_subscription and on_finalize close subscriptions between rounds.   *)
LEMMA TerminationCloses ==
    ASSUME TypeOK, NEW id \in SubIds,
           \/ \E a \in Accounts : kill_subscription(a, id)
           \/ TerminateFinalized(id)
    PROVE  Service!Unsubscribe(id) \/ UNCHANGED Service!service
<1>1. /\ Waiting = {} /\ Waiting' = {}
      /\ id \in DOMAIN Subscriptions
      /\ DidUpdate' = DidUpdate
      /\ Remove(id) \/ UNCHANGED <<Subscriptions, granted, received>>
  <2>1. ASSUME NEW a \in Accounts, kill_subscription(a, id)
        PROVE  /\ todo = {} /\ todo' = todo
               /\ id \in DOMAIN Subscriptions
               /\ DidUpdate' = DidUpdate /\ Remove(id)
    BY ZenonT(60), <2>1 DEF kill_subscription, CallBy, Executing, InStorage
  <2>2. ASSUME TerminateFinalized(id)
        PROVE  /\ phase = "finalize" /\ phase' = phase
               /\ id \in DOMAIN Subscriptions
               /\ DidUpdate' = DidUpdate
               /\ Remove(id) \/ UNCHANGED <<Subscriptions, granted, received>>
    BY ZenonT(60), <2>2 DEF TerminateFinalized, TypeOK
  <2>3. /\ todo = {} /\ todo' = todo => Waiting = {} /\ Waiting' = {}
        /\ phase = "finalize" /\ phase' = phase => Waiting = {} /\ Waiting' = {}
    BY DEF Waiting
  <2> QED
    BY ZenonT(60), <2>1, <2>2, <2>3
<1>2. CASE Remove(id)
  BY ZenonT(60), <1>1, <1>2, RemovedIsClosed
<1>3. CASE UNCHANGED <<Subscriptions, granted, received>>
  <2>1. Subscribers' = Subscribers /\ Outstanding' = Outstanding /\ Waiting' = Waiting
    BY ZenonT(60), <1>1, <1>3 DEF Subscribers, Outstanding
  <2> QED
    BY ZenonT(60), <1>1, <2>1 DEF Service!service
<1> QED
  BY ZenonT(60), <1>1, <1>2, <1>3

(* Every step of the manager is a step of the service or unseen by it. *)
LEMMA StepServes ==
    ASSUME IInv, [Next]_vars
    PROVE  [Service!ServiceNext]_(Service!service)
<1>1. TypeOK
  BY ZenonT(60) DEF IInv
<1>2. ASSUME NEW a \in Accounts, NEW id \in SubIds, Call(a, id)
      PROVE  Service!ServiceNext \/ UNCHANGED Service!service
  <2>1. ASSUME NEW c \in CreditChoices, NEW f \in FrequencyChoices,
               NEW m \in MetadataSizes, create_subscription(a, id, c, f, m)
        PROVE  Service!ServiceNext
    <3>1. c \in CreditChoices \ {0} /\ Service!Subscribe(a, id, c)
      BY ZenonT(60), <2>1, CreateSubscribes
    <3> QED
      BY ZenonT(60), <3>1 DEF Service!ServiceNext
  <2>2. CASE kill_subscription(a, id)
    BY ZenonT(60), <1>1, <2>2, TerminationCloses DEF Service!ServiceNext
  <2>3. CASE \/ pause_subscription(a, id)
             \/ reactivate_subscription(a, id)
             \/ \E c \in CreditChoices, f \in FrequencyChoices, m \in MetadataSizes :
                  update_subscription(a, id, c, f, m)
    BY ZenonT(60), <1>1, <2>3, ChangeIsUnseen
  <2> QED
    BY ZenonT(60), <1>2, <2>1, <2>2, <2>3 DEF Call
<1>3. ASSUME NEW id \in SubIds, Distribute(id)
      PROVE  Service!ServiceNext
  BY ZenonT(60), <1>3, DistributeServes DEF Service!ServiceNext
<1>4. ASSUME NEW id \in SubIds, TerminateFinalized(id)
      PROVE  Service!ServiceNext \/ UNCHANGED Service!service
  BY ZenonT(60), <1>1, <1>4, TerminationCloses DEF Service!ServiceNext
<1>5. CASE dispatch \/ on_finalize \/ NextBlock
  BY ZenonT(60), <1>1, <1>5, HooksServe DEF Service!ServiceNext
<1>6. CASE UNCHANGED vars
  <2>1. /\ Subscriptions' = Subscriptions /\ DidUpdate' = DidUpdate /\ phase' = phase
        /\ todo' = todo /\ granted' = granted /\ received' = received
    BY ZenonT(60), <1>6 DEF vars
  <2> QED
    BY ZenonT(60), <2>1 DEF Service!service, Subscribers, Outstanding, Waiting
<1> QED
  BY ZenonT(60), <1>2, <1>3, <1>4, <1>5, <1>6 DEF Next, BlockStep

(* The manager pallet, with its holds, states, failures and limits, is the *)
(* service of SubscriptionService for any number of accounts and ids:      *)
(* distribute gives every subscription one turn per block, never sends a   *)
(* pulse that is not outstanding, and update_subscription adds none.       *)
THEOREM ManagerImplementsService == Spec => ImplementsService
<1>1. IInv /\ [Next]_vars => [Service!ServiceNext]_(Service!service)
  BY StepServes
<1> QED
  BY <1>1, ServiceStarts, InitEstablishes, StepPreserves, PTL
  DEF Spec, ImplementsService, Service!ServiceSpec
=============================================================================
