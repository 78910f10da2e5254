-------------------------- MODULE ComponentProofs ---------------------------
(***************************************************************************)
(* Theorems about the components that stand alone, for all values of their *)
(* constants.                                                              *)
(*                                                                         *)
(*   Ledger   the fees of a subscription (FeesLedger) are settled exactly  *)
(*   Client   the extrinsics of a node (PulseClient) advance               *)
(*   Beacon   RandomnessBeacon implements PulseStream, its storage agrees  *)
(*            with what it handed out, and randomness read on demand       *)
(*            (Vraas) follows it                                           *)
(***************************************************************************)
EXTENDS Vraas, PulseClient, FeesLedger, FeesManagerProofs

-----------------------------------------------------------------------------
(* Ledger.                                                                 *)

(* The price of the credits asked for is on hold, collected or refunded. *)
FeesAddUp ==
    held + collected + refunded = calculate_subscription_fees(credits)

LedgerInv ==
    /\ LedgerTypeOK
    /\ FeesAddUp
    /\ HoldIsPrice
    /\ ~stored => held = 0

(* collect_credits and terminate_subscription preserve the invariant. *)
LEMMA LedgerStepKeeps == LedgerInv /\ [LedgerNext]_ledger => LedgerInv'
<1> SUFFICES ASSUME LedgerInv, [LedgerNext]_ledger
             PROVE  LedgerInv'
  OBVIOUS
<1> USE DEF LedgerInv
<1> DEFINE fees(c) == calculate_subscription_fees(c)
<1>1. /\ credits \in Requests /\ credits_left \in 0..U64Max
      /\ held \in Nat /\ collected \in Nat /\ refunded \in Nat
      /\ stored \in BOOLEAN
      /\ U64Max \in Nat
  BY FeesAssumption DEF LedgerTypeOK
<1>2. ASSUME NEW n \in {get_consume_credits, get_idle_credits},
             collect_credits(n)
      PROVE  LedgerInv'
  <2> DEFINE left == SaturatingSub(credits_left, n)
  <2>1. left \in 0..U64Max /\ left <= credits_left
    BY <1>1, <1>2 DEF SaturatingSub, get_consume_credits, get_idle_credits
  <2>2. /\ FeesToCollect(n) = fees(credits_left) - fees(left)
        /\ FeesToCollect(n) \in Nat
    BY <1>1, <2>1, DiffFeesDown DEF FeesToCollect
  <2>3. fees(credits_left) \in Nat /\ fees(left) \in Nat
    BY <1>1, <2>1, FeesType
  <2>4. held = fees(credits_left)
    BY <1>2 DEF collect_credits, HoldIsPrice
  <2> HIDE DEF fees, left
  <2>5. Lesser(FeesToCollect(n), held) = fees(credits_left) - fees(left)
    BY <2>2, <2>3, <2>4 DEF Lesser
  <2>6. /\ held' = fees(left)
        /\ collected' = collected + (fees(credits_left) - fees(left))
        /\ credits_left' = left
        /\ UNCHANGED <<credits, refunded, stored>>
    BY <1>1, <1>2, <2>3, <2>4, <2>5 DEF collect_credits, left
  <2>7. LedgerTypeOK'
    BY <1>1, <2>1, <2>2, <2>3, <2>6 DEF LedgerTypeOK
  <2>8. FeesAddUp'
    BY <1>1, <2>3, <2>4, <2>6 DEF FeesAddUp
  <2>9. HoldIsPrice'
    BY <2>6 DEF HoldIsPrice, fees
  <2>10. (~stored => held = 0)'
    BY <1>2, <2>6 DEF collect_credits
  <2> QED
    BY <2>7, <2>8, <2>9, <2>10
<1>3. ASSUME terminate_subscription
      PROVE  LedgerInv'
  <2>1. 0 \in 0..U64Max /\ 0 <= credits_left
    BY <1>1
  <2>2. calculate_diff_fees(credits_left, 0).balance = fees(credits_left) - 0
    BY <1>1, <2>1, DiffFeesDown, NoCreditsNoFees
  <2>3. fees(credits_left) \in Nat
    BY <1>1, FeesType
  <2>4. held = fees(credits_left)
    BY <1>3 DEF terminate_subscription, HoldIsPrice
  <2> HIDE DEF fees
  <2>5. /\ held' = 0
        /\ refunded' = refunded + held
        /\ stored' = FALSE
        /\ UNCHANGED <<credits, credits_left, collected>>
    BY <1>1, <1>3, <2>2, <2>3, <2>4 DEF terminate_subscription
  <2>6. LedgerTypeOK'
    <3>1. stored' \in BOOLEAN
      BY <2>5, Zenon
    <3>2. held' \in Nat /\ refunded' \in Nat
      BY <1>1, <2>5
    <3> QED
      BY <1>1, <2>5, <3>1, <3>2, Zenon DEF LedgerTypeOK
  <2>7. FeesAddUp'
    BY <1>1, <2>5 DEF FeesAddUp
  <2> QED
    BY <2>5, <2>6, <2>7 DEF HoldIsPrice
<1>4. ASSUME UNCHANGED ledger
      PROVE  LedgerInv'
  BY <1>4 DEF ledger, LedgerTypeOK, FeesAddUp, HoldIsPrice
<1> QED
  BY <1>2, <1>3, <1>4 DEF LedgerNext

(* create_subscription establishes the invariant. *)
LEMMA LedgerStarts == LedgerInit => LedgerInv
<1> SUFFICES ASSUME LedgerInit
             PROVE  LedgerInv
  OBVIOUS
<1>1. credits \in Requests /\ credits \in 0..U64Max /\ U64Max \in Nat
  BY FeesAssumption, RequestsAssumption DEF LedgerInit
<1>2. calculate_subscription_fees(credits) \in Nat
  BY <1>1, FeesType
<1> QED
  BY <1>1, <1>2 DEF LedgerInit, LedgerInv, LedgerTypeOK, FeesAddUp, HoldIsPrice

(* The fees on hold are the price of the credits left, at every moment of  *)
(* a subscription's life.                                                  *)
THEOREM HoldIsAlwaysPrice == LedgerSpec => []HoldIsPrice
<1>1. LedgerInv => HoldIsPrice
  BY DEF LedgerInv
<1> QED
  BY <1>1, LedgerStarts, LedgerStepKeeps, PTL DEF LedgerSpec

(* After terminate_subscription nothing is on hold, and the subscriber has *)
(* paid and got back exactly the price of the credits asked for.           *)
THEOREM FeesAreSettled == LedgerSpec => []SettledExactly
<1>1. LedgerInv => SettledExactly
  <2> SUFFICES ASSUME LedgerInv, ~stored
               PROVE  /\ held = 0
                      /\ collected + refunded =
                           calculate_subscription_fees(credits)
    BY DEF SettledExactly
  <2> QED
    BY DEF LedgerInv, LedgerTypeOK, FeesAddUp
<1> QED
  BY <1>1, LedgerStarts, LedgerStepKeeps, PTL DEF LedgerSpec

(* The ledger's variables always have their types. *)
THEOREM LedgerIsTyped == LedgerSpec => []LedgerTypeOK
<1>1. LedgerInv => LedgerTypeOK
  BY DEF LedgerInv
<1> QED
  BY <1>1, LedgerStarts, LedgerStepKeeps, PTL DEF LedgerSpec

-----------------------------------------------------------------------------
(* The documented price.                                                   *)

(* The loop over TIERS counts the credits that fall within a tier: the     *)
(* last tier's sentinel u64::MAX is only missed by a request of u64::MAX   *)
(* credits.                                                                *)
LEMMA InTierCounts ==
    ASSUME credits \in 0..U64Max, NEW i \in Tiers
    PROVE  /\ Cardinality(CreditsOfTier(i)) \in Nat
           /\ credits < U64Max => Cardinality(CreditsOfTier(i)) = InTier(i, credits)
<1> DEFINE a    == TierStart[i]
           last == IF i = 5 THEN credits ELSE Lesser(credits, TierStart[i + 1] - 1)
<1>1. /\ U64Max \in Nat /\ credits \in Nat /\ a \in Nat \ {0}
      /\ i # 5 => TierStart[i + 1] \in Nat \ {0}
  BY FeesAssumption DEF Tiers
<1>2. last \in Int /\ a \in Int
  BY <1>1 DEF Lesser
<1>3. CreditsOfTier(i) = a..last
  BY <1>1 DEF CreditsOfTier, Lesser
<1> HIDE DEF a, last
<1>4. Cardinality(CreditsOfTier(i)) = IF a > last THEN 0 ELSE last - a + 1
  BY <1>2, <1>3, FS_Interval
<1>5. Cardinality(CreditsOfTier(i)) \in Nat
  BY <1>2, <1>4
<1>6. ASSUME credits < U64Max
      PROVE  InTier(i, credits) = IF a > last THEN 0 ELSE last - a + 1
  BY <1>1, <1>6 DEF InTier, NextTierStart, SaturatingSub, Lesser, a, last
<1> QED
  BY ZenonT(60), <1>4, <1>5, <1>6

(* Where a hundred times the undiscounted price fits into u64, a tier's    *)
(* price does not saturate and its discount never adds to it.              *)
LEMMA TierPriceIsDiscounted ==
    ASSUME credits \in 0..U64Max, 100 * Fee * credits <= U64Max,
           credits < U64Max, NEW i \in Tiers
    PROVE  /\ DiscountedPrices[i] = TierPrice(i, credits)
           /\ TierPrice(i, credits) \in Nat
           /\ TierPrice(i, credits) <= Fee * InTier(i, credits)
<1> DEFINE n    == InTier(i, credits)
           rate == 100 - TierDiscount[i]
           base == Fee * n
<1>1. /\ U64Max \in Nat /\ Fee \in Nat /\ rate \in 0..100 /\ credits \in Nat
      /\ TierStart[i] \in Nat \ {0} /\ NextTierStart(i) \in Nat \ {0}
  BY FeesAssumption DEF Tiers, NextTierStart
<1>2. n \in Nat /\ n <= credits
  BY <1>1 DEF InTier, SaturatingSub, Lesser
<1> HIDE DEF n, rate
<1>3. base \in Nat /\ base <= Fee * credits /\ Fee * credits \in Nat
  BY <1>1, <1>2, MulMonotone
<1>4. 100 * (Fee * credits) <= U64Max
  BY <1>1
<1> HIDE DEF base
<1>5. /\ base * rate \in Nat /\ base * rate <= base * 100
      /\ base * 100 <= U64Max /\ base <= U64Max
  <2>1. base * rate \in Nat /\ base * rate <= base * 100
    BY <1>1, <1>3, MulMonotone
  <2> QED
    BY <1>1, <1>3, <1>4, <2>1
<1>6. SaturatingMul(Fee, n) = base
  BY <1>5 DEF SaturatingMul, Lesser, base
<1>7. SaturatingMul(base, rate) = base * rate
  <2> DEFINE x == base * rate
  <2>1. x \in Nat /\ x <= U64Max
    BY <1>1, <1>3, <1>5
  <2> HIDE DEF x
  <2>2. Lesser(x, U64Max) = x
    BY <2>1 DEF Lesser
  <2> QED
    BY <2>2 DEF SaturatingMul, x
<1>8. TierPrice(i, credits) = (base * rate) \div 100
  BY <1>6, <1>7 DEF TierPrice, TierFee, n, rate
<1>9. DiscountedPrices[i] = (base * rate) \div 100
  <2>1. Cardinality(CreditsOfTier(i)) = n
    BY InTierCounts DEF n
  <2> QED
    BY <2>1 DEF DiscountedPrices, rate, base
<1>10. (base * rate) \div 100 \in Nat /\ (base * rate) \div 100 <= base
  <2> DEFINE x == base * rate
  <2>1. x \in Nat /\ x <= base * 100
    BY <1>5
  <2> HIDE DEF x
  <2>2. x \div 100 \in Nat /\ x \div 100 <= base
    BY <1>3, <2>1
  <2> QED
    BY <2>2 DEF x
<1> QED
  BY ZenonT(60), <1>8, <1>9, <1>10 DEF base, n

(* The credits up to the end of tier i. *)
Reach(i) == Lesser(credits, NextTierStart(i) - 1)

(* ... and neither does the sum of the tiers' prices. *)
LEMMA PricesAddUp ==
    ASSUME credits \in 0..U64Max, 100 * Fee * credits <= U64Max,
           credits < U64Max
    PROVE  Priced5(credits) =
             (((TierPrice(1, credits) + TierPrice(2, credits))
                + TierPrice(3, credits)) + TierPrice(4, credits))
             + TierPrice(5, credits)
<1> DEFINE p(i) == TierPrice(i, credits)
           n(i) == InTier(i, credits)
<1>1. /\ U64Max \in Nat /\ Fee \in Nat /\ credits \in Nat
      /\ 1 \in Tiers /\ 2 \in Tiers /\ 3 \in Tiers /\ 4 \in Tiers /\ 5 \in Tiers
  BY FeesAssumption DEF Tiers
<1>2. \A i \in Tiers : TierStart[i] \in 1..U64Max /\ NextTierStart(i) \in 1..U64Max
  BY FeesAssumption DEF NextTierStart, Tiers
<1>3. \A i \in Tiers : n(i) \in Nat /\ Reach(i) \in Nat /\ Reach(i) <= credits
  BY <1>1, <1>2 DEF InTier, Reach, SaturatingSub, Lesser
<1>4. /\ n(1) = Reach(1) /\ Reach(1) + n(2) = Reach(2)
      /\ Reach(2) + n(3) = Reach(3) /\ Reach(3) + n(4) = Reach(4)
      /\ Reach(4) + n(5) = Reach(5)
  <2>1. /\ TierStart[1] = 1 /\ NextTierStart(1) = TierStart[2]
        /\ NextTierStart(2) = TierStart[3] /\ NextTierStart(3) = TierStart[4]
        /\ NextTierStart(4) = TierStart[5] /\ NextTierStart(5) = U64Max
        /\ TierStart[1] < TierStart[2] /\ TierStart[2] < TierStart[3]
        /\ TierStart[3] < TierStart[4] /\ TierStart[4] < TierStart[5]
        /\ TierStart[5] <= U64Max
    BY <1>2, FeesAssumption DEF NextTierStart, Tiers
  <2> QED
    BY <1>1, <1>2, <2>1 DEF InTier, Reach, SaturatingSub, Lesser
<1>5. \A i \in Tiers : p(i) \in Nat /\ p(i) <= Fee * n(i)
  BY TierPriceIsDiscounted
<1>6. Fee * credits <= U64Max
  <2>1. Fee * credits \in Nat /\ 100 * (Fee * credits) <= U64Max
    BY <1>1
  <2> QED
    BY <1>1, <2>1
<1> HIDE DEF p, n
<1>7. ASSUME NEW i \in Tiers, NEW r \in Nat, NEW t \in Nat, t <= Fee * r,
             r + n(i) = Reach(i)
      PROVE  /\ SaturatingAdd(t, p(i)) = t + p(i)
             /\ t + p(i) \in Nat /\ t + p(i) <= Fee * Reach(i)
  <2>1. n(i) \in Nat /\ p(i) \in Nat /\ p(i) <= Fee * n(i)
    BY <1>3, <1>5
  <2>2. Fee * Reach(i) = Fee * r + Fee * n(i)
    BY <1>1, <1>7, <2>1
  <2>3. Fee * Reach(i) <= Fee * credits
    BY ZenonT(60), <1>1, <1>3, MulMonotone
  <2>4. Fee * r \in Nat /\ Fee * n(i) \in Nat /\ Fee * Reach(i) \in Nat
        /\ Fee * credits \in Nat
    BY <1>1, <1>3, <1>7, <2>1
  <2>5. t + p(i) <= Fee * Reach(i)
    BY <1>7, <2>1, <2>2, <2>4
  <2>6. t + p(i) \in Nat /\ t + p(i) <= U64Max
    BY <1>1, <1>6, <1>7, <2>1, <2>3, <2>4, <2>5
  <2> QED
    BY <2>5, <2>6 DEF SaturatingAdd, Lesser
<1> DEFINE t1 == 0 + p(1)
           t2 == t1 + p(2)
           t3 == t2 + p(3)
           t4 == t3 + p(4)
<1>8. /\ Priced1(credits) = t1 /\ t1 \in Nat /\ t1 <= Fee * Reach(1)
  <2>1. 0 <= Fee * 0 /\ 0 + n(1) = Reach(1)
    BY <1>1, <1>3, <1>4
  <2> QED
    BY ZenonT(60), <1>1, <1>7, <2>1 DEF Priced1, p
<1> HIDE DEF t1
<1>9. /\ Priced2(credits) = t2 /\ t2 \in Nat /\ t2 <= Fee * Reach(2)
  BY ZenonT(60), <1>1, <1>3, <1>4, <1>7, <1>8 DEF Priced2, p
<1> HIDE DEF t2
<1>10. /\ Priced3(credits) = t3 /\ t3 \in Nat /\ t3 <= Fee * Reach(3)
  BY ZenonT(60), <1>1, <1>3, <1>4, <1>7, <1>9 DEF Priced3, p
<1> HIDE DEF t3
<1>11. /\ Priced4(credits) = t4 /\ t4 \in Nat /\ t4 <= Fee * Reach(4)
  BY ZenonT(60), <1>1, <1>3, <1>4, <1>7, <1>10 DEF Priced4, p
<1> HIDE DEF t4
<1>12. Priced5(credits) = t4 + p(5)
  BY ZenonT(60), <1>1, <1>3, <1>4, <1>7, <1>11 DEF Priced5, p
<1>13. 0 + p(1) = p(1)
  BY <1>1, <1>5
<1> QED
  BY ZenonT(60), <1>12, <1>13 DEF p, t1, t2, t3, t4

(* A sum over the five tiers, written out. *)
LEMMA SumOfTiers ==
    ASSUME NEW f, DOMAIN f = Tiers, \A i \in Tiers : f[i] \in Nat
    PROVE  SumFunction(f) = (((f[1] + f[2]) + f[3]) + f[4]) + f[5]
<1> DEFINE sum(S) == SumFunctionOnSet(f, S)
<1>1. Tiers = {1, 2, 3, 4, 5} /\ IsFiniteSet(Tiers)
  <2>1. IsFiniteSet(1..5)
    <3>1. 1 \in Int /\ 5 \in Int
      OBVIOUS
    <3> QED
      BY ONLY <3>1, FS_Interval, Zenon
  <2> QED
    BY <2>1 DEF Tiers
<1>2. ASSUME NEW S \in SUBSET Tiers, NEW x \in S
      PROVE  sum(S) = f[x] + sum(S \ {x}) /\ sum(S \ {x}) \in Int
  <2>1. IsFiniteSet(S)
    BY <1>1, FS_Subset, Zenon
  <2>2. \A y \in S : f[y] \in Int
    OBVIOUS
  <2> QED
    BY ZenonT(60), <2>1, <2>2, SumTakeOut
<1>3. sum({}) = 0
  BY ZenonT(60), SumEmpty
<1> HIDE DEF sum
<1>4. sum({1}) = f[1] + sum({})
  <2>1. {1} \ {1} = {} /\ {1} \in SUBSET Tiers /\ 1 \in {1}
    BY ZenonT(60), <1>1
  <2> QED
    BY ZenonT(60), <1>2, <2>1
<1>5. sum({1, 2}) = f[2] + sum({1})
  <2>1. {1, 2} \ {2} = {1} /\ {1, 2} \in SUBSET Tiers /\ 2 \in {1, 2}
    BY <1>1
  <2> QED
    BY ZenonT(60), <1>2, <2>1
<1>6. sum({1, 2, 3}) = f[3] + sum({1, 2})
  <2>1. {1, 2, 3} \ {3} = {1, 2} /\ {1, 2, 3} \in SUBSET Tiers /\ 3 \in {1, 2, 3}
    BY <1>1
  <2> QED
    BY <1>2, <2>1
<1>7. sum({1, 2, 3, 4}) = f[4] + sum({1, 2, 3})
  <2>1. {1, 2, 3, 4} \ {4} = {1, 2, 3}
    OBVIOUS
  <2>2. {1, 2, 3, 4} \in SUBSET Tiers /\ 4 \in {1, 2, 3, 4}
    BY <1>1
  <2> QED
    BY ZenonT(60), <1>2, <2>1, <2>2
<1>8. sum(Tiers) = f[5] + sum({1, 2, 3, 4})
  <2>1. {1, 2, 3, 4, 5} \ {5} = {1, 2, 3, 4}
    OBVIOUS
  <2>2. Tiers \in SUBSET Tiers /\ 5 \in Tiers
    BY <1>1
  <2> QED
    BY ZenonT(60), <1>1, <1>2, <2>1, <2>2
<1>9. /\ f[1] \in Nat /\ f[2] \in Nat /\ f[3] \in Nat /\ f[4] \in Nat
      /\ f[5] \in Nat
  BY <1>1
<1>10. SumFunction(f) = sum(Tiers)
  BY DEF SumFunction, sum
<1> QED
  BY <1>3, <1>4, <1>5, <1>6, <1>7, <1>8, <1>9, <1>10

(* calculate_subscription_fees charges what its doc says: the credits of   *)
(* each tier at that tier's discount.                                      *)
THEOREM PricingIsTiered == LedgerSpec => []TieredPricing
<1>1. ASSUME LedgerInv
      PROVE  TieredPricing
  <2> SUFFICES ASSUME 100 * Fee * credits <= U64Max
               PROVE  calculate_subscription_fees(credits) =
                        SumFunction(DiscountedPrices)
    BY DEF TieredPricing
  <2>1. credits \in 0..U64Max /\ U64Max \in Nat \ {0} /\ Fee \in Nat
    BY <1>1, RequestsAssumption, FeesAssumption DEF LedgerInv, LedgerTypeOK
  <2>2. calculate_subscription_fees(credits) = Priced5(credits)
    BY <2>1, LoopPrices
  <2>3. DOMAIN DiscountedPrices = Tiers
    BY ZenonT(60) DEF DiscountedPrices
  <2>4. CASE credits < U64Max
    <3>1. \A i \in Tiers : /\ DiscountedPrices[i] = TierPrice(i, credits)
                           /\ DiscountedPrices[i] \in Nat
      BY ZenonT(60), <2>1, <2>4, TierPriceIsDiscounted
    <3>2. 1 \in Tiers /\ 2 \in Tiers /\ 3 \in Tiers /\ 4 \in Tiers /\ 5 \in Tiers
      BY DEF Tiers
    <3>3. Priced5(credits) =
            (((DiscountedPrices[1] + DiscountedPrices[2]) + DiscountedPrices[3])
              + DiscountedPrices[4]) + DiscountedPrices[5]
      BY ZenonT(60), <2>1, <2>4, <3>1, <3>2, PricesAddUp
    <3> QED
      BY ZenonT(60), <2>2, <2>3, <3>1, <3>3, SumOfTiers
  <2>5. CASE credits = U64Max
    <3>1. Fee = 0
      <4>1. Fee # 0 => 100 * Fee * credits > U64Max
        <5> SUFFICES ASSUME Fee # 0
                     PROVE  100 * Fee * credits > U64Max
          OBVIOUS
        <5>1. 100 * Fee * credits = U64Max * (100 * Fee)
          BY <2>1, <2>5
        <5>2. U64Max * 2 <= U64Max * (100 * Fee)
          BY <2>1, MulMonotone
        <5> QED
          BY <2>1, <5>1, <5>2
      <4> QED
        BY <2>1, <4>1
    <3>2. ASSUME NEW i \in Tiers
          PROVE  DiscountedPrices[i] = 0 /\ TierPrice(i, credits) = 0
      <4>1. /\ Cardinality(CreditsOfTier(i)) \in Nat
            /\ 100 - TierDiscount[i] \in Nat
        BY <2>1, InTierCounts, FeesAssumption DEF Tiers
      <4>2. DiscountedPrices[i] = 0
        BY <3>1, <4>1 DEF DiscountedPrices
      <4>3. InTier(i, credits) \in Nat
        BY <2>1, FeesAssumption
           DEF InTier, SaturatingSub, Lesser, NextTierStart, Tiers
      <4>4. SaturatingMul(Fee, InTier(i, credits)) = 0
        BY <2>1, <3>1, <4>3 DEF SaturatingMul, Lesser
      <4>5. SaturatingMul(0, 100 - TierDiscount[i]) = 0
        BY <2>1, <4>1 DEF SaturatingMul, Lesser
      <4> QED
        BY <4>2, <4>4, <4>5 DEF TierPrice, TierFee
    <3>3. Priced5(credits) = 0
      <4>1. 1 \in Tiers /\ 2 \in Tiers /\ 3 \in Tiers /\ 4 \in Tiers /\ 5 \in Tiers
        BY DEF Tiers
      <4>2. SaturatingAdd(0, 0) = 0
        BY <2>1 DEF SaturatingAdd, Lesser
      <4> QED
        BY ZenonT(60), <3>2, <4>1, <4>2 DEF Priced1, Priced2, Priced3, Priced4, Priced5
    <3>4. SumFunction(DiscountedPrices) = 0
      <4>1. /\ DiscountedPrices[1] = 0 /\ DiscountedPrices[2] = 0
            /\ DiscountedPrices[3] = 0 /\ DiscountedPrices[4] = 0
            /\ DiscountedPrices[5] = 0
        BY <3>2 DEF Tiers
      <4> QED
        BY <2>3, <3>2, <4>1, SumOfTiers
    <3> QED
      BY ZenonT(60), <2>2, <3>3, <3>4
  <2> QED
    BY <2>1, <2>4, <2>5
<1> QED
  BY <1>1, LedgerStarts, LedgerStepKeeps, PTL DEF LedgerSpec

-----------------------------------------------------------------------------
(* Client.                                                                 *)

ClientInv == ClientTypeOK /\ TrackersAgree

(* A pulse pushed into the receiver's queue leaves a queue of pulses that  *)
(* is within its capacity (DrandReceiver::new).                            *)
LEMMA PushedType ==
    ASSUME NEW q \in Seq(PulseRounds), Len(q) <= MaxQueueSize, NEW r \in PulseRounds
    PROVE  Pushed(q, r) \in Seq(PulseRounds) /\ Len(Pushed(q, r)) <= MaxQueueSize
<1>1. CASE Len(q) = MaxQueueSize
  <2>1. Len(q) \in Nat /\ q # <<>>
    BY ZenonT(60), <1>1, ClientAssumption DEF ClientAssumption
  <2>2. Tail(q) \in Seq(PulseRounds) /\ Len(Tail(q)) = Len(q) - 1
    BY <2>1
  <2>3. Pushed(q, r) = Append(Tail(q), r)
    BY ZenonT(60), <1>1 DEF Pushed
  <2>. QED BY <2>1, <2>2, <2>3, <1>1
<1>2. CASE Len(q) # MaxQueueSize
  <2>1. Pushed(q, r) = Append(q, r)
    BY <1>2 DEF Pushed
  <2>. QED BY <2>1, <1>2, ClientAssumption DEF ClientAssumption
<1>. QED BY ZenonT(60), <1>1, <1>2

(* Consuming from the front of the receiver's queue leaves a queue that is *)
(* no longer than before (DrandReceiver::consume).                         *)
LEMMA ConsumedType ==
    ASSUME NEW q \in Seq(PulseRounds), NEW n \in 0..Len(q)
    PROVE  /\ SubSeq(q, n + 1, Len(q)) \in Seq(PulseRounds)
           /\ Len(SubSeq(q, n + 1, Len(q))) <= Len(q)
<1>1. Len(q) \in Nat /\ n + 1 \in 1..(Len(q) + 1)
  OBVIOUS
<1>2. SubSeq(q, n + 1, Len(q)) \in Seq(PulseRounds)
  BY <1>1
<1>3. Len(SubSeq(q, n + 1, Len(q))) = Len(q) - n
  BY <1>1
<1>. QED BY <1>1, <1>2, <1>3

(* The client starts in the invariant (PulseFinalizationGadget::new,       *)
(* PulseWorker::new, DrandReceiver::new).                                  *)
LEMMA ClientStartsSound == ClientInit => ClientInv
BY ClientAssumption DEF ClientInit, ClientInv, ClientTypeOK, TrackersAgree, ClientAssumption

(* What happens around the client keeps the invariant: rounds appear, the  *)
(* best chain grows or is replaced, the swarm fails.                       *)
LEMMA EnvironmentIsSound == ClientInv /\ Environment => ClientInv'
<1>. SUFFICES ASSUME ClientInv, Environment PROVE ClientInv'
  BY ZenonT(60)
<1>. USE ClientAssumption DEF ClientAssumption, ClientInv, ClientTypeOK, TrackersAgree,
                              gossip, chain, locals, trackers
<1>1. CASE Publish
  BY <1>1 DEF Publish
<1>2. CASE ImportBlock
  BY <1>2 DEF ImportBlock
<1>3. CASE ReplaceBest
  BY <1>3 DEF ReplaceBest
<1>4. CASE SwarmFails
  BY ZenonT(60), <1>4 DEF SwarmFails
<1>. QED BY ZenonT(60), <1>1, <1>2, <1>3, <1>4 DEF Environment

(* Gossip and the watchdog keep the invariant (gossipsub.rs). *)
LEMMA GossipIsSound ==
    ClientInv /\ (Watchdog \/ \E r \in PulseRounds : handle_event(r)) => ClientInv'
<1>. SUFFICES ASSUME ClientInv, Watchdog \/ \E r \in PulseRounds : handle_event(r)
              PROVE  ClientInv'
  BY ZenonT(60)
<1>. USE ClientAssumption DEF ClientAssumption, ClientInv, ClientTypeOK, TrackersAgree,
                              gossip, chain, locals, trackers
<1>1. ASSUME NEW r \in PulseRounds, handle_event(r) PROVE ClientInv'
  <2>1. pulses' \in Seq(PulseRounds) /\ Len(pulses') <= MaxQueueSize
    BY ZenonT(60), <1>1, PushedType DEF handle_event
  <2>. QED BY ZenonT(60), <1>1, <2>1 DEF handle_event
<1>2. CASE Poll
  <2>1. idle' \in 0..(NoMessageTimeout + 1)
    BY <1>2 DEF Poll, GivesUp, SinceNonempty
  <2>. QED BY ZenonT(60), <1>2, <2>1 DEF Poll
<1>3. ASSUME NEW state \in {"joined", "deaf"}, Rebuild(state) PROVE ClientInv'
  BY <1>3 DEF Rebuild
<1>. QED BY ZenonT(60), <1>1, <1>2, <1>3 DEF Watchdog

(* The gadget and the worker keep the invariant (gadget.rs, worker.rs). *)
LEMMA GadgetIsSound == ClientInv /\ Gadget => ClientInv'
<1>. SUFFICES ASSUME ClientInv, Gadget PROVE ClientInv'
  OBVIOUS
<1>. USE ClientAssumption DEF ClientAssumption, ClientInv, ClientTypeOK, TrackersAgree,
                              gossip, chain, locals, trackers
<1>1. CASE handle_finality_notification
  <2>1. PICK runtime_round \in {best_next_round, 0} : asked' = NextWanted(runtime_round)
    BY ZenonT(60), <1>1 DEF handle_finality_notification
  <2>2. asked' \in 0..(LastPulse + 1) /\ asked' >= next_round
    BY <2>1 DEF NextWanted, Later
  <2>. QED BY ZenonT(60), <1>1, <2>2 DEF handle_finality_notification
<1>2. CASE consume
  <2>1. Taken \in 0..Len(pulses)
    BY DEF Taken
  <2>2. pulses' \in Seq(PulseRounds) /\ Len(pulses') <= MaxQueueSize
    <3>1. Len(pulses') <= Len(pulses) /\ pulses' \in Seq(PulseRounds)
      BY ZenonT(60), <1>2, <2>1, ConsumedType DEF consume
    <3>. QED BY <3>1
  <2>3. CASE Return
    BY <1>2, <2>2, <2>3 DEF consume, Return
  <2>4. ASSUME NEW i \in Fresh, picked' = pulses[i], pc' = "submit",
               UNCHANGED <<asked, at_round>>
        PROVE  ClientInv'
    <3>1. picked' \in PulseRounds /\ picked' >= asked
      BY <2>1, <2>4 DEF Fresh
    <3>2. picked' \in 0..LastPulse
      BY <3>1 DEF PulseRounds
    <3>. QED BY ZenonT(60), <1>2, <2>2, <2>4, <3>1, <3>2 DEF consume
  <2>. QED BY ZenonT(60), <1>2, <2>3, <2>4 DEF consume
<1>3. CASE NoAuthorityKeys
  BY <1>3 DEF NoAuthorityKeys, Return
<1>4. CASE SkipPulse
  <2>1. next_round' \in 0..(LastPulse + 1) /\ next_round' > next_round
    BY <1>4 DEF SkipPulse, PulseRounds
  <2>2. submitted # Nothing => submitted.round \in Int /\ submitted.round < next_round
    BY DEF PulseRounds
  <2>3. submitted' # Nothing => submitted'.round < next_round'
    BY <1>4, <2>1, <2>2 DEF SkipPulse
  <2>4. ClientTypeOK'
    BY <1>4, <2>1 DEF SkipPulse, Return
  <2>. QED BY ZenonT(60), <1>4, <2>3, <2>4 DEF SkipPulse, Return
<1>5. CASE submit_pulse
  BY <1>5 DEF submit_pulse, AlreadySubmitted
<1>6. CASE SignFails
  BY <1>6 DEF SignFails, Return
<1>7. CASE PoolAccepts
  <2>1. next_round' \in 0..(LastPulse + 1)
    BY <1>7 DEF PoolAccepts, PulseRounds
  <2>2. /\ submitted' \in [round : PulseRounds, block : 0..LastBlock]
        /\ submitted'.round < next_round'
        /\ submitted'.block = last_submitted_block
    BY <1>7 DEF PoolAccepts, PulseRounds
  <2>. QED BY <1>7, <2>1, <2>2 DEF PoolAccepts, Return
<1>8. CASE PoolRejects
  BY <1>8 DEF PoolRejects, Return
<1>. QED BY ZenonT(60), <1>1, <1>2, <1>3, <1>4, <1>5, <1>6, <1>7, <1>8 DEF Gadget

(* A restart forgets the trackers and what was submitted together          *)
(* (PulseFinalizationGadget::new, PulseWorker::new, DrandReceiver::new).   *)
LEMMA RestartIsSound == ClientInv /\ Restart => ClientInv'
BY ClientAssumption DEF ClientAssumption, ClientInv, ClientTypeOK, TrackersAgree,
                        Restart, Return, chain

(* The invariant holds throughout. *)
LEMMA ClientStaysSound == ClientSpec => []ClientInv
<1>1. ClientInv /\ UNCHANGED client => ClientInv'
  BY DEF ClientInv, ClientTypeOK, TrackersAgree, client, gossip, chain, locals, trackers
<1>2. ClientInv /\ [ClientNext]_client => ClientInv'
  BY ZenonT(60), <1>1, EnvironmentIsSound, GossipIsSound, GadgetIsSound, RestartIsSound DEF ClientNext
<1>. QED BY <1>2, ClientStartsSound, PTL DEF ClientSpec

(* The queue of pulses never holds more than its capacity, whatever the    *)
(* gossip brings between two polls, and every tracker keeps its type over  *)
(* restarts (SharedState::add_pulse, gossipsub.rs).                        *)
THEOREM ClientIsTyped == ClientSpec => []ClientTypeOK
BY ClientStaysSound, PTL DEF ClientInv

(* In every state the handler, the gadget's next_round and the worker's    *)
(* claim agree with what was submitted (gossipsub.rs, gadget.rs,           *)
(* worker.rs).                                                             *)
THEOREM TrackersAlwaysAgree == ClientSpec => []TrackersAgree
BY ClientStaysSound, PTL DEF ClientInv

(* A step that changes the last submission is the pool accepting one, of a *)
(* later round and made at a higher block (submit_pulse).                  *)
LEMMA SubmissionStep ==
    ASSUME ClientInv, [ClientNext]_client, submitted' # submitted, submitted # Nothing,
           submitted' # Nothing
    PROVE  submitted'.round > submitted.round /\ submitted'.block > submitted.block
<1>1. PoolAccepts
  BY ZenonT(60) DEF ClientNext, Environment, Watchdog, Gadget, client, gossip, chain, locals, trackers,
         Publish, ImportBlock, ReplaceBest, SwarmFails, handle_event, Poll, Rebuild,
         handle_finality_notification, consume, NoAuthorityKeys, SkipPulse,
         submit_pulse, SignFails, PoolRejects, Restart
<1>2. submitted'.round = picked /\ submitted'.block = last_submitted_block
  BY ZenonT(60), <1>1 DEF PoolAccepts
<1>3. submitted.round \in Int /\ submitted.block \in Int
  BY DEF ClientInv, ClientTypeOK, PulseRounds
<1>4. last_submitted_block \in Int /\ last_submitted_block > submitted.block
  BY <1>1, <1>3 DEF PoolAccepts, ClientInv, ClientTypeOK, TrackersAgree
<1>5. picked > submitted.round
  <2>1. picked \in Int /\ asked \in Int /\ next_round \in Int
    BY ClientAssumption DEF ClientInv, ClientTypeOK, ClientAssumption
  <2>2. picked >= asked /\ asked >= next_round /\ next_round > submitted.round
    BY ZenonT(60), <1>1, <1>3, <2>1 DEF PoolAccepts, ClientInv, TrackersAgree
  <2>. QED BY <1>3, <2>1, <2>2
<1>. QED BY ZenonT(60), <1>2, <1>4, <1>5

(* No node submits a round twice, or twice at one block: each extrinsic    *)
(* its pool takes is of a later round and made at a higher block than the  *)
(* one before (handle_finality_notification, submit_pulse).                *)
THEOREM SubmissionsAlwaysAdvance == ClientSpec => SubmissionsAdvance
<1>1. ClientInv /\ [ClientNext]_client =>
        [submitted' # submitted /\ submitted # Nothing /\ submitted' # Nothing =>
            /\ submitted'.round > submitted.round
            /\ submitted'.block > submitted.block]_client
  BY SubmissionStep
<1>. QED BY <1>1, ClientStaysSound, PTL DEF ClientSpec, SubmissionsAdvance

-----------------------------------------------------------------------------
(* Beacon.                                                                 *)

(* NextRound is one above the rounds emitted, and the accumulation, if     *)
(* there is one, ends just below it.                                       *)
Recorded ==
    /\ \A r \in emitted : r < NextRound
    /\ SparseAccumulation = None <=> emitted = {}
    /\ emitted = {} => NextRound = 0
    /\ emitted # {} => /\ NextRound = SparseAccumulation.end + 1
                       /\ SparseAccumulation.end \in emitted
                       /\ SparseAccumulation.start..SparseAccumulation.end
                            \subseteq emitted

BInv == TypeOK /\ Recorded /\ FlagMeansProgress

-----------------------------------------------------------------------------
(* The initial state: nothing emitted, nothing recorded. *)
LEMMA InitIsSound == Init => BInv
<1> SUFFICES ASSUME Init PROVE BInv
  OBVIOUS
<1>1. TypeOK
  <2>1. 0 \in 0..U64Max
    BY BeaconAssumption
  <2> QED BY ZenonT(60), <2>1 DEF Init, TypeOK
<1>2. Recorded
  BY DEF Init, Recorded
<1>3. FlagMeansProgress
  BY DEF Init, FlagMeansProgress
<1> QED BY ZenonT(60), <1>1, <1>2, <1>3 DEF BInv

(* What the checks of try_submit_asig establish: the packet is not empty   *)
(* and starts at or after NextRound, and NextRound moves strictly past it  *)
(* without saturating.                                                     *)
LEMMA AcceptedIsFresh ==
    ASSUME TypeOK, NEW tx \in Extrinsic,
           validate_unsigned(tx, NextRound), Acceptable(tx), Accept(tx)
    PROVE  /\ tx.start \in Rounds /\ tx.end \in Rounds
           /\ NextRound <= tx.start
           /\ tx.start <= tx.end
           /\ NextRound' = tx.end + 1
           /\ ~DidUpdate
<1>1. tx.start \in 0..LastRound /\ tx.end \in 0..LastRound
  BY DEF Extrinsic, Rounds
<1>2. NextRound <= tx.start
  BY ZenonT(60) DEF validate_unsigned
<1>3. tx.start <= tx.end
  <2>1. SaturatingSub(tx.end, tx.start) = 0 => tx.start = tx.end
    BY ZenonT(60) DEF Acceptable
  <2> QED BY <1>1, <2>1, BeaconAssumption DEF SaturatingSub
<1>4. NextRound' = tx.end + 1
  BY <1>1, BeaconAssumption DEF Accept, SaturatingAdd, Lesser
<1> QED BY ZenonT(60), <1>1, <1>2, <1>3, <1>4 DEF Acceptable, Rounds

(* An accepted packet is recorded: every conjunct of BInv follows from the *)
(* assignments of try_submit_asig.                                         *)
LEMMA AcceptIsSound ==
    ASSUME BInv, NEW tx \in Extrinsic,
           validate_unsigned(tx, NextRound), Acceptable(tx), Accept(tx),
           best_round' = best_round, author' = author,
           pool' \in [Authors -> SUBSET Extrinsic]
    PROVE  BInv'
<1>1. /\ tx.start \in 0..LastRound /\ tx.end \in 0..LastRound
      /\ NextRound <= tx.start
      /\ tx.start <= tx.end
      /\ NextRound' = tx.end + 1
      /\ ~DidUpdate
  BY ZenonT(60), AcceptedIsFresh DEF BInv, Rounds
<1> DEFINE acc == [start |-> tx.start, end |-> tx.end, key |-> tx.key]
<1>2. acc \in Accumulation
  BY DEF Accumulation, Extrinsic
<1>3. /\ SparseAccumulation' = acc
      /\ acc.start = tx.start /\ acc.end = tx.end
      /\ DidUpdate' = TRUE
      /\ emitted' = emitted \union tx.start..tx.end
      /\ BeaconConfig' = BeaconConfig
  BY ZenonT(60) DEF Accept
<1>4. TypeOK'
  <2>1. NextRound' \in 0..U64Max
    BY <1>1, BeaconAssumption
  <2>2. emitted' \in SUBSET Rounds
    <3>1. tx.start..tx.end \subseteq 0..LastRound
      BY <1>1, BeaconAssumption
    <3> QED BY ZenonT(60), <1>3, <3>1 DEF BInv, TypeOK, Rounds
  <2> QED BY ZenonT(60), <1>2, <1>3, <2>1, <2>2 DEF BInv, TypeOK
<1>5. Recorded'
  <2>1. NextRound \in Nat /\ emitted \subseteq 0..LastRound
    BY BeaconAssumption DEF BInv, TypeOK, Rounds
  <2>2. \A r \in emitted' : r < NextRound'
    BY <1>1, <1>3, <2>1, BeaconAssumption DEF BInv, Recorded
  <2>3. acc # None
    BY ZenonT(60), <1>2, BeaconAssumption
  <2>4. tx.end \in emitted'
    BY <1>1, <1>3, BeaconAssumption
  <2> HIDE DEF acc
  <2> QED BY ZenonT(60), <1>1, <1>3, <2>2, <2>3, <2>4 DEF Recorded
<1>6. FlagMeansProgress'
  <2>1. NextRound \in Nat /\ best_round \in Nat
    BY BeaconAssumption DEF BInv, TypeOK
  <2>2. NextRound = best_round
    BY <1>1 DEF BInv, FlagMeansProgress
  <2> QED BY <1>1, <1>3, <2>1, <2>2, BeaconAssumption DEF FlagMeansProgress
<1> QED BY ZenonT(60), <1>4, <1>5, <1>6 DEF BInv

(* Letting a block pass leaves every pool a set of valid extrinsics. *)
LEMMA AgedType ==
    ASSUME NEW txs \in SUBSET Extrinsic
    PROVE  Aged(txs) \in SUBSET Extrinsic
<1> SUFFICES ASSUME NEW tx \in Extrinsic, tx.ttl > 1
             PROVE  [tx EXCEPT !.ttl = @ - 1] \in Extrinsic
  BY ZenonT(60) DEF Aged
<1>1. tx.ttl - 1 \in 1..Longevity
  BY BeaconAssumption DEF Extrinsic
<1> QED BY <1>1 DEF Extrinsic

(* Every step of the beacon preserves the invariant. *)
LEMMA StepIsSound == BInv /\ [Next]_vars => BInv'
<1> SUFFICES ASSUME BInv, [Next]_vars PROVE BInv'
  OBVIOUS
<1>1. ASSUME NEW a \in Authors, NEW tx \in Extrinsic, SubmitLocal(a, tx)
      PROVE  BInv'
  BY ZenonT(60), <1>1 DEF SubmitLocal, storage, BInv, TypeOK, Recorded, FlagMeansProgress
<1>2. ASSUME NEW a \in Authors, BeginBlock(a)
      PROVE  BInv'
  BY ZenonT(60), <1>2 DEF BeginBlock, storage, BInv, TypeOK, Recorded, FlagMeansProgress
<1>3. ASSUME author # None, NEW tx \in pool[author], try_submit_asig(tx)
      PROVE  BInv'
  <2>1. author \in Authors /\ tx \in Extrinsic
    BY ZenonT(60), <1>3 DEF BInv, TypeOK
  <2>2. /\ pool' \in [Authors -> SUBSET Extrinsic]
        /\ best_round' = best_round /\ author' = author
    BY ZenonT(60), <1>3, <2>1 DEF try_submit_asig, BInv, TypeOK
  <2>3. CASE validate_unsigned(tx, NextRound) /\ Acceptable(tx)
    <3>1. Accept(tx)
      BY ZenonT(60), <1>3, <2>3 DEF try_submit_asig
    <3> QED BY ZenonT(60), <2>1, <2>2, <2>3, <3>1, AcceptIsSound
  <2>4. CASE ~(validate_unsigned(tx, NextRound) /\ Acceptable(tx))
    <3>1. UNCHANGED storage
      BY ZenonT(60), <1>3, <2>4 DEF try_submit_asig
    <3> QED BY <2>2, <3>1 DEF storage, BInv, TypeOK, Recorded, FlagMeansProgress
  <2> QED BY <2>3, <2>4
<1>4. ASSUME NEW pk \in Keys, set_beacon_config(pk)
      PROVE  BInv'
  BY <1>4 DEF set_beacon_config, BInv, TypeOK, Recorded, FlagMeansProgress
<1>5. ASSUME on_finalize
      PROVE  BInv'
  <2>1. pool' \in [Authors -> SUBSET Extrinsic]
    BY ZenonT(60), <1>5, AgedType DEF on_finalize, BInv, TypeOK
  <2>2. TypeOK'
    BY ZenonT(60), <1>5, <2>1 DEF on_finalize, BInv, TypeOK
  <2>3. Recorded'
    BY ZenonT(60), <1>5 DEF on_finalize, BInv, Recorded
  <2>4. FlagMeansProgress'
    BY <1>5, BeaconAssumption DEF on_finalize, BInv, TypeOK, FlagMeansProgress
  <2> QED BY ZenonT(60), <2>2, <2>3, <2>4 DEF BInv
<1>6. CASE UNCHANGED vars
  BY <1>6 DEF vars, storage, BInv, TypeOK, Recorded, FlagMeansProgress
<1> QED BY ZenonT(60), <1>1, <1>2, <1>3, <1>4, <1>5, <1>6 DEF Next

(* The invariant holds throughout. *)
LEMMA InvariantHolds == Spec => []BInv
BY InitIsSound, StepIsSound, PTL DEF Spec

-----------------------------------------------------------------------------
(* The storage keeps its types: NextRound never leaves u64, and a pool     *)
(* holds no extrinsic past its longevity (try_submit_asig, on_finalize).   *)
THEOREM StorageIsTyped == Spec => []TypeOK
<1>1. BInv => TypeOK
  BY DEF BInv
<1> QED BY <1>1, InvariantHolds, PTL

(* DidUpdate says in every state exactly whether the current block moved   *)
(* NextRound past the best block's.                                        *)
THEOREM FlagIsExact == Spec => []FlagMeansProgress
<1>1. BInv => FlagMeansProgress
  BY DEF BInv
<1> QED BY <1>1, InvariantHolds, PTL

(* FiniteSetsExt's Max of a set of integers, for a set whose greatest      *)
(* element is at hand (here: the end of the last packet).                  *)
LEMMA MaxIs ==
    ASSUME NEW S \in SUBSET Int, NEW m \in S, \A x \in S : x <= m
    PROVE  Max(S) = m
<1>1. m \in S /\ \A y \in S : m >= y
  OBVIOUS
<1>2. \A x \in S : (\A y \in S : x >= y) => x = m
  OBVIOUS
<1> QED BY ZenonT(60), <1>1, <1>2 DEF Max

(* The accumulation served by random() is always the packet accepted last, *)
(* and NextRound the round after it.                                       *)
THEOREM LatestIsRecorded == Spec => []AccumulationIsLatest
<1>1. BInv => AccumulationIsLatest
  <2> SUFFICES ASSUME BInv PROVE AccumulationIsLatest
    OBVIOUS
  <2>1. ASSUME emitted # {}
        PROVE  /\ SparseAccumulation.end = Max(emitted)
               /\ NextRound = Max(emitted) + 1
    <3> DEFINE m == SparseAccumulation.end
    <3>1. emitted \in SUBSET Int /\ NextRound \in Int
      BY BeaconAssumption DEF BInv, TypeOK, Rounds
    <3>2. m \in emitted /\ NextRound = m + 1
      BY <2>1 DEF BInv, Recorded
    <3> HIDE DEF m
    <3>3. \A x \in emitted : x <= m
      BY <3>1, <3>2 DEF BInv, Recorded
    <3>4. Max(emitted) = m
      BY ZenonT(60), <3>1, <3>2, <3>3, MaxIs
    <3> QED BY ZenonT(60), <3>2, <3>4 DEF m
  <2> QED BY <2>1 DEF BInv, Recorded, AccumulationIsLatest
<1> QED BY <1>1, InvariantHolds, PTL

-----------------------------------------------------------------------------
(* A step of the beacon is a step of PulseStream or leaves it alone: only  *)
(* an accepted extrinsic emits, after everything emitted before.           *)
LEMMA StepIsStreamStep ==
    BInv /\ [Next]_vars => [Stream!Next]_<<emitted, DidUpdate>>
<1> SUFFICES ASSUME BInv, [Next]_vars
             PROVE  Stream!Next \/ UNCHANGED <<emitted, DidUpdate>>
  BY ZenonT(60)
<1>1. ASSUME author # None, NEW tx \in pool[author], try_submit_asig(tx)
      PROVE  Stream!Next \/ UNCHANGED <<emitted, DidUpdate>>
  <2>1. tx \in Extrinsic
    BY <1>1 DEF BInv, TypeOK
  <2>2. CASE validate_unsigned(tx, NextRound) /\ Acceptable(tx)
    <3>1. Accept(tx)
      BY ZenonT(60), <1>1, <2>2 DEF try_submit_asig
    <3>2. /\ tx.start \in Rounds /\ tx.end \in Rounds
          /\ NextRound <= tx.start
          /\ tx.start <= tx.end
          /\ ~DidUpdate
      BY ZenonT(60), <2>1, <2>2, <3>1, AcceptedIsFresh DEF BInv
    <3>3. \A r \in emitted : r < tx.start
      BY <3>2, BeaconAssumption DEF BInv, TypeOK, Recorded, Rounds
    <3>4. DidUpdate' = TRUE /\ emitted' = emitted \union tx.start..tx.end
      BY <3>1 DEF Accept
    <3>5. Stream!Emit
      BY <3>2, <3>3, <3>4, Zenon DEF Stream!Emit
    <3> QED BY ZenonT(60), <3>5 DEF Stream!Next
  <2>3. CASE ~(validate_unsigned(tx, NextRound) /\ Acceptable(tx))
    BY ZenonT(60), <1>1, <2>3 DEF try_submit_asig, storage
  <2> QED BY ZenonT(60), <2>2, <2>3
<1>2. CASE on_finalize
  BY <1>2 DEF on_finalize, Stream!Next, Stream!EndBlock
<1> QED BY <1>1, <1>2 DEF Next, vars, storage, SubmitLocal, BeginBlock, set_beacon_config

(* The beacon implements PulseStream: the Dispatcher never sees a round    *)
(* twice or out of order, and at most one packet in a block.               *)
THEOREM BeaconImplementsStream == Spec => ImplementsStream
<1>1. Init => Stream!Init
  BY ZenonT(60) DEF Init, Stream!Init
<1> QED BY <1>1, StepIsStreamStep, InvariantHolds, PTL DEF Spec, ImplementsStream, Stream!Spec

-----------------------------------------------------------------------------
(* Vraas: randomness read on demand.                                       *)

(* What was read since the last packet is what random() would answer now;  *)
(* what was read before is of an accumulation that ended below NextRound   *)
(* and is not the present one.                                             *)
ReadsAreDated ==
    /\ drawn \in [Subjects -> Randomness \union {None}]
    /\ \A s \in Subjects :
         /\ s \in current => drawn[s] = random(s)
         /\ drawn[s] # None /\ drawn[s].of # None => drawn[s].of.end < NextRound
         /\ drawn[s] # None /\ s \notin current => drawn[s].of # SparseAccumulation

VInv == BInv /\ ReadsAreDated

-----------------------------------------------------------------------------
(* A step of the beacon accepts a packet, which ends at NextRound or after *)
(* and moves NextRound past itself, or leaves the accumulation, NextRound  *)
(* and an unset DidUpdate alone.                                           *)
LEMMA PacketOrNot ==
    ASSUME BInv, [Next]_vars
    PROVE  \/ /\ ~DidUpdate /\ DidUpdate'
              /\ SparseAccumulation' # None
              /\ NextRound <= SparseAccumulation'.end
              /\ NextRound < NextRound'
           \/ /\ ~(~DidUpdate /\ DidUpdate')
              /\ UNCHANGED <<SparseAccumulation, NextRound>>
<1>1. ASSUME author # None, NEW tx \in pool[author], try_submit_asig(tx),
             validate_unsigned(tx, NextRound), Acceptable(tx)
      PROVE  /\ ~DidUpdate /\ DidUpdate'
             /\ SparseAccumulation' # None
             /\ NextRound <= SparseAccumulation'.end
             /\ NextRound < NextRound'
  <2>1. tx \in Extrinsic /\ Accept(tx)
    BY ZenonT(60), <1>1 DEF try_submit_asig, BInv, TypeOK
  <2>2. /\ tx.start \in 0..LastRound /\ tx.end \in 0..LastRound
        /\ NextRound <= tx.start /\ tx.start <= tx.end
        /\ NextRound' = tx.end + 1
        /\ ~DidUpdate
    BY ZenonT(60), <1>1, <2>1, AcceptedIsFresh DEF BInv, Rounds
  <2>3. [start |-> tx.start, end |-> tx.end, key |-> tx.key] \in Accumulation
    BY ZenonT(60), <2>1 DEF Accumulation, Extrinsic
  <2>4. /\ SparseAccumulation' \in Accumulation
        /\ SparseAccumulation'.end = tx.end
        /\ DidUpdate'
    BY ZenonT(60), <2>1, <2>3 DEF Accept
  <2>5. NextRound \in Int
    BY BeaconAssumption DEF BInv, TypeOK
  <2> QED BY <2>2, <2>4, <2>5, BeaconAssumption
<1>2. ASSUME author # None, NEW tx \in pool[author], try_submit_asig(tx),
             ~(validate_unsigned(tx, NextRound) /\ Acceptable(tx))
      PROVE  UNCHANGED <<SparseAccumulation, NextRound, DidUpdate>>
  BY ZenonT(60), <1>2 DEF try_submit_asig, storage
<1>3. CASE \/ \E a \in Authors : \E tx \in Extrinsic : SubmitLocal(a, tx)
           \/ \E a \in Authors : BeginBlock(a)
           \/ \E pk \in Keys : set_beacon_config(pk)
           \/ UNCHANGED vars
  BY ZenonT(60), <1>3 DEF SubmitLocal, BeginBlock, set_beacon_config, vars, storage
<1>4. CASE on_finalize
  BY <1>4 DEF on_finalize
<1> QED BY ZenonT(60), <1>1, <1>2, <1>3, <1>4 DEF Next

(* An accumulation ends at a round, and rounds are numbers. *)
LEMMA EndIsNumber ==
    ASSUME NEW acc \in Accumulation
    PROVE  acc.end \in Int
BY BeaconAssumption DEF Accumulation, Rounds

(* What ended before NextRound is neither what starts there nor later. *)
LEMMA EndedBefore ==
    ASSUME NEW e \in Int, NEW n \in Int, NEW e1 \in Int, NEW n1 \in Int,
           e < n, n <= e1, n < n1
    PROVE  e # e1 /\ e < n1
OBVIOUS

(* A round is below the next one. *)
LEMMA BelowNext ==
    ASSUME NEW e \in Int
    PROVE  e < e + 1
OBVIOUS

(* A packet leaves everything read so far behind. *)
LEMMA BeaconStepKeepsDates ==
    ASSUME VInv, BeaconStep
    PROVE  ReadsAreDated'
<1>1. drawn' = drawn /\ drawn \in [Subjects -> Randomness \union {None}]
  BY ZenonT(60) DEF BeaconStep, VInv, ReadsAreDated
<1>2. NextRound \in Int /\ NextRound' \in Int
  <2>1. BInv'
    BY ZenonT(60), StepIsSound DEF VInv, BeaconStep
  <2> QED BY <2>1, BeaconAssumption DEF VInv, BInv, TypeOK
<1>3. ASSUME NEW s \in Subjects, drawn[s] # None, drawn[s].of # None
      PROVE  drawn[s].of.end \in Int /\ drawn[s].of.end < NextRound
  <2>1. drawn[s].of \in Accumulation
    BY ZenonT(60), <1>1, <1>3 DEF Randomness
  <2> QED BY ZenonT(60), <1>3, <2>1, EndIsNumber DEF VInv, ReadsAreDated
<1>4. CASE /\ ~DidUpdate /\ DidUpdate'
           /\ SparseAccumulation' # None
           /\ NextRound <= SparseAccumulation'.end
           /\ NextRound < NextRound'
  <2>1. current' = {}
    BY ZenonT(60), <1>4 DEF BeaconStep
  <2>2. SparseAccumulation'.end \in Int
    <3>1. BInv'
      BY ZenonT(60), StepIsSound DEF VInv, BeaconStep
    <3>2. SparseAccumulation' \in Accumulation
      BY ZenonT(60), <1>4, <3>1 DEF BInv, TypeOK
    <3> QED BY ZenonT(60), <3>2, EndIsNumber
  <2>3. ASSUME NEW s \in Subjects, drawn[s] # None
        PROVE  drawn[s].of # SparseAccumulation'
    <3>1. drawn[s].of # None => drawn[s].of.end # SparseAccumulation'.end
      BY ZenonT(60), <1>2, <1>3, <1>4, <2>2, <2>3, EndedBefore
    <3> QED BY ZenonT(60), <1>4, <3>1
  <2>4. ASSUME NEW s \in Subjects, drawn[s] # None, drawn[s].of # None
        PROVE  drawn[s].of.end < NextRound'
    BY ZenonT(60), <1>2, <1>3, <1>4, <2>2, <2>4, EndedBefore
  <2> QED BY ZenonT(60), <1>1, <2>1, <2>3, <2>4 DEF ReadsAreDated
<1>5. CASE /\ ~(~DidUpdate /\ DidUpdate')
           /\ UNCHANGED <<SparseAccumulation, NextRound>>
  <2>1. current' = current
    BY ZenonT(60), <1>5 DEF BeaconStep
  <2> QED BY ZenonT(60), <1>1, <1>5, <2>1 DEF VInv, ReadsAreDated, random
<1> QED BY ZenonT(60), <1>4, <1>5, PacketOrNot DEF BeaconStep, VInv

(* A read is what random() answers, of the present accumulation. *)
LEMMA ReadKeepsDates ==
    ASSUME VInv, NEW caller, NEW ctx, <<caller, ctx>> \in Subjects,
           fetch_random(caller, ctx)
    PROVE  ReadsAreDated' /\ BInv'
<1> DEFINE r == <<caller, ctx>>
<1>1. /\ drawn' = [drawn EXCEPT ![r] = random(r)]
      /\ current' = current \union {r}
      /\ UNCHANGED vars
  BY DEF fetch_random
<1>2. UNCHANGED <<SparseAccumulation, NextRound>> /\ BInv'
  BY ZenonT(60), <1>1, StepIsSound DEF vars, storage, VInv
<1>3. random(r) \in Randomness /\ random(r).of = SparseAccumulation
  BY DEF random, Randomness, VInv, BInv, TypeOK
<1>4. SparseAccumulation # None => SparseAccumulation.end < NextRound
  <2>1. SparseAccumulation # None =>
          SparseAccumulation.end \in Int /\ NextRound = SparseAccumulation.end + 1
    <3>1. SparseAccumulation # None => SparseAccumulation \in Accumulation
      BY ZenonT(60) DEF VInv, BInv, TypeOK
    <3> QED BY ZenonT(60), <3>1, EndIsNumber DEF VInv, BInv, Recorded
  <2> QED BY ZenonT(60), <2>1, BelowNext
<1>5. \A s \in Subjects : random(s)' = random(s)
  BY <1>2 DEF random
<1> HIDE DEF r
<1>6. r \in Subjects
  BY ZenonT(60) DEF r
<1>7. /\ drawn \in [Subjects -> Randomness \union {None}]
      /\ drawn'[r] = random(r)
      /\ \A s \in Subjects \ {r} : drawn'[s] = drawn[s]
      /\ drawn' \in [Subjects -> Randomness \union {None}]
  BY ZenonT(60), <1>1, <1>3, <1>6 DEF VInv, ReadsAreDated
<1>8. ASSUME NEW s \in Subjects
      PROVE  /\ s \in current' => drawn'[s] = random(s)'
             /\ drawn'[s] # None /\ drawn'[s].of # None => drawn'[s].of.end < NextRound'
             /\ drawn'[s] # None /\ s \notin current' =>
                  drawn'[s].of # SparseAccumulation'
  <2>1. CASE s = r
    BY ZenonT(60), <1>1, <1>2, <1>3, <1>4, <1>5, <1>7, <2>1
  <2>2. CASE s # r
    BY ZenonT(60), <1>1, <1>2, <1>5, <1>7, <2>2 DEF VInv, ReadsAreDated
  <2> QED BY ZenonT(60), <2>1, <2>2
<1> QED BY ZenonT(60), <1>2, <1>7, <1>8 DEF ReadsAreDated

(* A step of the whole reads for one subject, is the beacon's, or changes  *)
(* nothing.                                                                *)
LEMMA VraasSteps ==
    ASSUME [VraasNext]_vraasVars
    PROVE  \/ \E caller \in Callers, ctx \in Contexts \union Callers :
                fetch_random(caller, ctx)
           \/ BeaconStep
           \/ UNCHANGED <<vars, drawn, current>>
BY ZenonT(60) DEF VraasNext, manual_update, shuffle, shuffle_elements, select,
       select_elements, vraasVars, contract

(* The invariant holds throughout. *)
LEMMA ReadsStayDated == VraasSpec => []VInv
<1>1. VraasInit => VInv
  <2> SUFFICES ASSUME VraasInit PROVE VInv
    OBVIOUS
  <2>1. BInv
    BY ZenonT(60), InitIsSound DEF VraasInit
  <2>2. ReadsAreDated
    BY ZenonT(60) DEF VraasInit, ReadsAreDated
  <2> QED BY ZenonT(60), <2>1, <2>2 DEF VInv
<1>2. VInv /\ [VraasNext]_vraasVars => VInv'
  <2> SUFFICES ASSUME VInv, [VraasNext]_vraasVars PROVE VInv'
    OBVIOUS
  <2>1. ASSUME NEW caller \in Callers, NEW ctx \in Contexts \union Callers,
               fetch_random(caller, ctx)
        PROVE  VInv'
    BY ZenonT(60), <2>1, ReadKeepsDates DEF Subjects, VInv
  <2>2. CASE BeaconStep
    BY ZenonT(60), <2>2, BeaconStepKeepsDates, StepIsSound DEF BeaconStep, VInv
  <2>3. CASE UNCHANGED <<vars, drawn, current>>
    <3>1. BInv'
      BY <2>3, StepIsSound DEF VInv
    <3>2. ReadsAreDated'
      BY ZenonT(60), <2>3 DEF VInv, ReadsAreDated, random, vars, storage
    <3> QED BY ZenonT(60), <3>1, <3>2 DEF VInv
  <2> QED BY ZenonT(60), <2>1, <2>2, <2>3, VraasSteps
<1> QED BY <1>1, <1>2, PTL DEF VraasSpec

(* A contract that reads again for the same caller and context gets the    *)
(* same value until the beacon accepts a packet and another value after,   *)
(* in the middle of a block too (RandExtension::call, random).             *)
THEOREM ReadsFollowBeacon == VraasSpec => RandomnessFollowsBeacon
<1>1. ASSUME VInv, [VraasNext]_vraasVars, NEW s \in Subjects, drawn[s] # None
      PROVE  /\ s \in current /\ drawn[s].of # None => drawn'[s] = drawn[s]
             /\ s \in current' \ current => drawn'[s] # drawn[s]
  <2>1. ASSUME NEW caller \in Callers, NEW ctx \in Contexts \union Callers,
               fetch_random(caller, ctx)
        PROVE  /\ s \in current => drawn'[s] = drawn[s]
               /\ s \in current' \ current => drawn'[s] # drawn[s]
    <3>1. /\ drawn' = [drawn EXCEPT ![<<caller, ctx>>] = random(<<caller, ctx>>)]
          /\ current' = current \union {<<caller, ctx>>}
      BY ZenonT(60), <2>1 DEF fetch_random
    <3>2. CASE s = <<caller, ctx>>
      <4>1. drawn'[s] = random(s)
        BY ZenonT(60), <1>1, <3>1, <3>2 DEF VInv, ReadsAreDated
      <4>2. random(s).of = SparseAccumulation
        BY ZenonT(60) DEF random
      <4> QED BY ZenonT(60), <1>1, <4>1, <4>2 DEF VInv, ReadsAreDated
    <3>3. CASE s # <<caller, ctx>>
      BY ZenonT(60), <1>1, <3>1, <3>3 DEF VInv, ReadsAreDated
    <3> QED BY <3>2, <3>3
  <2>2. CASE BeaconStep
    BY <2>2 DEF BeaconStep
  <2>3. CASE UNCHANGED <<vars, drawn, current>>
    BY ZenonT(60), <2>3
  <2> QED BY ZenonT(60), <1>1, <2>1, <2>2, <2>3, VraasSteps
<1>2. VInv /\ [VraasNext]_vraasVars =>
        [\A s \in Subjects :
           drawn[s] # None =>
             /\ s \in current /\ drawn[s].of # None => drawn'[s] = drawn[s]
             /\ s \in current' \ current => drawn'[s] # drawn[s]]_vraasVars
  BY <1>1
<1> QED BY <1>2, ReadsStayDated, PTL DEF VraasSpec, RandomnessFollowsBeacon

(* What the contract keeps has its type: its value is randomness it read,  *)
(* and select never gives more elements than the value has (select,        *)
(* manual_update).                                                         *)
THEOREM VraasIsTyped == VraasSpec => []VraasTypeOK
<1> DEFINE Kept == /\ value \in Randomness \union {None}
                   /\ winners \in [of : Randomness \union {None}, n : 0..ValueSize]
                                   \union {None}
                   /\ current \subseteq Subjects
<1>1. VraasInit => Kept
  BY ZenonT(60) DEF VraasInit
<1>2. VInv /\ Kept /\ [VraasNext]_vraasVars => Kept'
  <2> SUFFICES ASSUME VInv, Kept, [VraasNext]_vraasVars PROVE Kept'
    BY ZenonT(60)
  <2>1. \A s \in Subjects : random(s) \in Randomness
    BY ZenonT(60) DEF random, Randomness, VInv, BInv, TypeOK
  <2>0. ASSUME NEW caller \in Callers, NEW ctx \in Contexts \union Callers
        PROVE  <<caller, ctx>> \in Subjects
    BY DEF Subjects
  <2>2. ASSUME NEW caller \in Callers, NEW ctx \in Contexts, manual_update(caller, ctx)
        PROVE  Kept'
    <3>1. <<caller, ctx>> \in Subjects
      BY ZenonT(60), <2>0
    <3> QED BY ZenonT(60), <2>1, <2>2, <3>1 DEF manual_update, fetch_random
  <2>3. ASSUME NEW caller \in Callers, shuffle(caller)
        PROVE  Kept'
    <3>1. <<caller, caller>> \in Subjects
      BY ZenonT(60), <2>0
    <3> QED BY ZenonT(60), <2>3, <3>1 DEF shuffle, shuffle_elements, fetch_random
  <2>4. ASSUME NEW caller \in Callers, NEW n \in Selections, select(caller, n)
        PROVE  Kept'
    <3>1. Lesser(n, ValueSize) \in 0..ValueSize
      BY VraasAssumption DEF Lesser
    <3>2. <<caller, caller>> \in Subjects
      BY ZenonT(60), <2>0
    <3>3. winners' \in [of : Randomness \union {None}, n : 0..ValueSize]
      BY ZenonT(60), <2>4, <3>1 DEF select, select_elements
    <3> QED BY ZenonT(60), <2>4, <3>2, <3>3 DEF select, select_elements, fetch_random
  <2>5. CASE BeaconStep
    BY ZenonT(60), <2>5 DEF BeaconStep
  <2>6. CASE UNCHANGED vraasVars
    BY ZenonT(60), <2>6 DEF vraasVars, contract
  <2> QED BY ZenonT(60), <2>2, <2>3, <2>4, <2>5, <2>6 DEF VraasNext
<1>3. VInv /\ Kept => VraasTypeOK
  BY DEF VInv, BInv, ReadsAreDated, VraasTypeOK
<1> QED BY <1>1, <1>2, <1>3, ReadsStayDated, PTL DEF VraasSpec
=============================================================================
