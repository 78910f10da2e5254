---------------------------- MODULE FeesManager ----------------------------
(***************************************************************************)
(* The fee arithmetic of the IDN Manager pallet: FeesManagerImpl in        *)
(* pallets/idn-manager/src/impls.rs and the provided method of the trait   *)
(* FeesManager in pallets/idn-manager/src/traits/mod.rs.                   *)
(*                                                                         *)
(* The operators keep the names of the Rust functions.  The tier table and *)
(* the width of u64 are constants, so that small instances reach the tier  *)
(* boundaries and the saturation that the real values (10_001 credits,     *)
(* 2^64 - 1) put far away.                                                 *)
(***************************************************************************)
EXTENDS Saturating

CONSTANTS
    Fee,          \* Fee::get(), the price of one undiscounted credit
    TierStart,    \* TIERS[i].0, the first credit of tier i
    TierDiscount  \* TIERS[i].1, the discount of tier i in percent

Tiers == 1..5

ASSUME FeesAssumption ==
    /\ U64Max \in Nat \ {0}
    /\ Fee \in 0..U64Max
    /\ TierStart \in [Tiers -> 1..U64Max]
    /\ TierStart[1] = 1
    /\ \A i \in 1..4 : TierStart[i] < TierStart[i + 1]
    /\ TierDiscount \in [Tiers -> 0..100]

-----------------------------------------------------------------------------
(* One iteration of the loop over TIERS: acc is the pair of loop variables *)
(* total_fee and remaining_credits.  The loop breaks when nothing remains, *)
(* which is also what keeps the unchecked subtraction of TierCredits from  *)
(* underflowing.                                                           *)

(* Fault: tier i reaches one credit into tier i + 1. *)
NextTierStartLate(i) == IF i = 5 THEN U64Max ELSE TierStart[i + 1] + 1

NextTierStart(i) == IF i = 5 THEN U64Max ELSE TierStart[i + 1]

TierCredits(i, credits, remaining) ==
    Lesser(Lesser(credits, NextTierStart(i) - 1) - TierStart[i] + 1, remaining)

TierFee(i, n) ==
    SaturatingMul(SaturatingMul(Fee, n), 100 - TierDiscount[i]) \div 100

TierStep(i, credits, acc) ==
    IF acc.remaining = 0
    THEN acc
    ELSE LET n == TierCredits(i, credits, acc.remaining)
         IN  [total     |-> SaturatingAdd(acc.total, TierFee(i, n)),
              remaining |-> SaturatingSub(acc.remaining, n)]

(* The array has five entries, so the loop is five steps. *)
AfterTiers(credits) ==
    LET s0 == [total |-> 0, remaining |-> credits]
        s1 == TierStep(1, credits, s0)
        s2 == TierStep(2, credits, s1)
        s3 == TierStep(3, credits, s2)
        s4 == TierStep(4, credits, s3)
    IN  TierStep(5, credits, s4)

(* As a function on u64, which TLC evaluates once. *)
SubscriptionFees == [credits \in 0..U64Max |-> AfterTiers(credits).total]

(* Fault: the discount of the last tier reached applies to all credits. *)
FlatFees(credits) ==
    LET i == CHOOSE i \in Tiers : /\ TierStart[i] <= credits
                                  /\ credits < NextTierStart(i)
    IN  IF credits \in {0, U64Max} THEN 0 ELSE TierFee(i, credits)

calculate_subscription_fees(credits) == SubscriptionFees[credits]

calculate_diff_fees(old_credits, new_credits) ==
    LET old == calculate_subscription_fees(old_credits)
        new == calculate_subscription_fees(new_credits)
    IN  [balance   |-> IF new > old THEN new - old ELSE old - new,
         direction |-> CASE new > old -> "Collect"
                         [] new < old -> "Release"
                         [] OTHER     -> "None"]

get_consume_credits == 1

get_idle_credits == 1

(* Fault: no idle credits between pulses. *)
calculate_credits_without_idle(frequency, lifetime) ==
    SaturatingMul(lifetime, get_consume_credits)

calculate_credits(frequency, lifetime) ==
    SaturatingMul(lifetime,
                  SaturatingAdd(SaturatingMul(frequency, get_idle_credits),
                                get_consume_credits))
=============================================================================
