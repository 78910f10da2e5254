----------------------------- MODULE FeesLedger -----------------------------
(***************************************************************************)
(* The fees of one subscription of an account that has no other: put on    *)
(* hold by create_subscription, collected credit by credit by distribute,  *)
(* and released by terminate_subscription.  No credits are changed by      *)
(* update_subscription.                                                    *)
(***************************************************************************)
EXTENDS FeesManager, FiniteSetsExt

CONSTANT Requests   \* the credits callers ask for

ASSUME RequestsAssumption == Requests \subseteq 1..U64Max

VARIABLES
    credits,       \* credits asked for
    credits_left,
    held,          \* on hold for HoldReason::Fees
    collected,     \* transferred to the treasury
    refunded,      \* released to the subscriber
    stored         \* the subscription is in storage

ledger == <<credits, credits_left, held, collected, refunded, stored>>

LedgerTypeOK ==
    /\ credits \in Requests
    /\ credits_left \in 0..U64Max
    /\ held \in Nat
    /\ collected \in Nat
    /\ refunded \in Nat
    /\ stored \in BOOLEAN

(* create_subscription: credits, credits_left and the hold. *)
LedgerInit ==
    /\ credits \in Requests
    /\ credits_left = credits
    /\ held = calculate_subscription_fees(credits)
    /\ collected = 0
    /\ refunded = 0
    /\ stored = TRUE

FeesToCollect(n) ==
    calculate_diff_fees(credits_left, SaturatingSub(credits_left, n)).balance

(* Fault: each credit is collected at the undiscounted fee. *)
collect_base_fee(n) ==
    LET taken == Lesser(credits_left, n) * Fee
    IN  /\ stored
        /\ held' = held - taken
        /\ collected' = collected + taken
        /\ credits_left' = SaturatingSub(credits_left, n)
        /\ UNCHANGED <<credits, refunded, stored>>

(* One iteration of distribute: BestEffort collection, then the credits.   *)
collect_credits(n) ==
    LET taken == Lesser(FeesToCollect(n), held)
    IN  /\ stored
        /\ held' = held - taken
        /\ collected' = collected + taken
        /\ credits_left' = SaturatingSub(credits_left, n)
        /\ UNCHANGED <<credits, refunded, stored>>

(* Fault: the fees of the unused credits stay on hold. *)
terminate_without_refund ==
    /\ stored
    /\ stored' = FALSE
    /\ UNCHANGED <<credits, credits_left, held, collected, refunded>>

terminate_subscription ==
    LET diff == calculate_diff_fees(credits_left, 0)
    IN  /\ stored
        /\ diff.direction = "Release" => held >= diff.balance
        /\ held' = held - diff.balance
        /\ refunded' = refunded + diff.balance
        /\ stored' = FALSE
        /\ UNCHANGED <<credits, credits_left, collected>>

LedgerNext ==
    \/ \E n \in {get_consume_credits, get_idle_credits} : collect_credits(n)
    \/ terminate_subscription

LedgerSpec == LedgerInit /\ [][LedgerNext]_ledger

-----------------------------------------------------------------------------
(* What is on hold is the price of the credits left, across every tier     *)
(* boundary, rounding and saturation; a collection is never short and a    *)
(* termination always finds its refund.                                    *)
HoldIsPrice ==
    stored => held = calculate_subscription_fees(credits_left)

(* After termination nothing is on hold, and collected and refunded fees   *)
(* add up to the price asked for at creation.                              *)
SettledExactly ==
    ~stored => /\ held = 0
               /\ collected + refunded = calculate_subscription_fees(credits)

CreditsOfTier(i) ==
    {k \in 1..credits : /\ TierStart[i] <= k
                        /\ i = 5 \/ k < TierStart[i + 1]}

DiscountedPrices ==
    [i \in Tiers |->
       (Fee * Cardinality(CreditsOfTier(i)) * (100 - TierDiscount[i])) \div 100]

(* The doc of calculate_subscription_fees: "For each tier, calculate how   *)
(* many credits fall within that tier", "apply the corresponding discount  *)
(* rate", "sum up the fees across all tiers".  Where nothing saturates.    *)
TieredPricing ==
    100 * Fee * credits <= U64Max =>
      calculate_subscription_fees(credits) = SumFunction(DiscountedPrices)
=============================================================================
