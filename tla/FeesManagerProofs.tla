------------------------- MODULE FeesManagerProofs -------------------------
(***************************************************************************)
(* What calculate_subscription_fees and calculate_diff_fees compute, for   *)
(* every tier table, fee and width of u64; and what sums of fees over a    *)
(* finite set of subscriptions are.                                        *)
(***************************************************************************)
EXTENDS FeesManager, FiniteSetsExt, FiniteSetTheorems, WellFoundedInduction, TLAPS

(* The number of the first credits credits that lie in tier i. *)
InTier(i, credits) ==
    SaturatingSub(Lesser(credits, NextTierStart(i) - 1), TierStart[i] - 1)

(* One iteration of the loop, entered with the credits that lie in tier i  *)
(* and above still to be priced: the unchecked subtraction does not        *)
(* underflow, the credits of tier i are priced, and those above remain.    *)
LEMMA TierStepPrices ==
    ASSUME NEW i \in Tiers,
           NEW credits \in 0..U64Max,
           NEW total \in 0..U64Max,
           NEW acc,
           acc = [total |-> total,
                  remaining |-> SaturatingSub(credits, TierStart[i] - 1)]
    PROVE  /\ InTier(i, credits) \in 0..U64Max
           /\ TierFee(i, InTier(i, credits)) \in 0..U64Max
           /\ TierStep(i, credits, acc) =
                [total |-> SaturatingAdd(total, TierFee(i, InTier(i, credits))),
                 remaining |-> SaturatingSub(credits, NextTierStart(i) - 1)]
<1> DEFINE ts == TierStart[i]
           nx == NextTierStart(i)
           n  == InTier(i, credits)
           r  == SaturatingSub(credits, ts - 1)
<1>1. ts \in 1..U64Max /\ nx \in 1..U64Max /\ ts <= nx /\ U64Max \in Nat
  BY FeesAssumption DEF NextTierStart, Tiers
<1>2. n \in 0..U64Max
  BY <1>1 DEF InTier, SaturatingSub, Lesser
<1>3. Fee * n \in Nat /\ SaturatingMul(Fee, n) \in 0..U64Max
  <2>1. Fee \in Nat /\ n \in Nat
    BY <1>1, <1>2, FeesAssumption
  <2>2. Fee * n \in Nat
    BY <2>1
  <2> QED
    BY <2>2, <1>1 DEF SaturatingMul, Lesser
<1>4. TierFee(i, n) \in 0..U64Max
  <2> DEFINE base == SaturatingMul(Fee, n)
             rate == 100 - TierDiscount[i]
  <2>1. rate \in 0..100 /\ base \in Nat
    BY <1>3, FeesAssumption DEF Tiers
  <2>2. base * rate \in Nat
    <3> HIDE DEF base, rate
    <3> QED BY <2>1
  <2>3. SaturatingMul(base, rate) \in 0..U64Max
    BY <2>2, <1>1 DEF SaturatingMul, Lesser
  <2>4. \A x \in 0..U64Max : x \div 100 \in 0..U64Max
    BY <1>1
  <2> QED
    BY <2>3, <2>4 DEF TierFee
<1>5. CASE r = 0
  <2>1. credits <= ts - 1
    BY <1>1, <1>5 DEF SaturatingSub
  <2>2. n = 0 /\ SaturatingSub(credits, nx - 1) = 0
    BY <1>1, <2>1 DEF InTier, SaturatingSub, Lesser
  <2>3. TierFee(i, 0) = 0
    <3>1. TierDiscount[i] \in 0..100 /\ Fee \in Nat
      BY FeesAssumption DEF Tiers
    <3>2. SaturatingMul(Fee, 0) = 0
      BY <3>1, <1>1 DEF SaturatingMul, Lesser
    <3>3. SaturatingMul(0, 100 - TierDiscount[i]) = 0
      BY <3>1, <1>1 DEF SaturatingMul, Lesser
    <3> QED
      BY <3>2, <3>3 DEF TierFee
  <2>4. TierStep(i, credits, acc) = acc
    BY <1>5 DEF TierStep
  <2>5. SaturatingAdd(total, 0) = total
    BY <1>1 DEF SaturatingAdd, Lesser
  <2> QED
    BY <1>2, <1>4, <1>5, <2>2, <2>3, <2>4, <2>5
<1>6. CASE r # 0
  <2>1. credits >= ts /\ r = credits - ts + 1
    BY <1>1, <1>6 DEF SaturatingSub
  <2>2. TierCredits(i, credits, r) = n
    BY <1>1, <2>1 DEF TierCredits, InTier, SaturatingSub, Lesser
  <2>3. SaturatingSub(r, n) = SaturatingSub(credits, nx - 1)
    BY <1>1, <2>1 DEF InTier, SaturatingSub, Lesser
  <2>4. acc.total = total /\ acc.remaining = r
    OBVIOUS
  <2>5. TierStep(i, credits, acc) =
          [total     |-> SaturatingAdd(total, TierFee(i, n)),
           remaining |-> SaturatingSub(r, n)]
    BY <2>2, <2>4, <1>6 DEF TierStep
  <2> QED
    BY <1>2, <1>4, <2>3, <2>5
<1> QED
  BY <1>5, <1>6

-----------------------------------------------------------------------------
(* The price of the credits in tier i, and the saturating sum of the five. *)
TierPrice(i, credits) == TierFee(i, InTier(i, credits))

Priced1(credits) == SaturatingAdd(0, TierPrice(1, credits))

Priced2(credits) == SaturatingAdd(Priced1(credits), TierPrice(2, credits))

Priced3(credits) == SaturatingAdd(Priced2(credits), TierPrice(3, credits))

Priced4(credits) == SaturatingAdd(Priced3(credits), TierPrice(4, credits))

Priced5(credits) == SaturatingAdd(Priced4(credits), TierPrice(5, credits))

(* Prices and their sums are u64 values. *)
LEMMA PricedType ==
    ASSUME NEW credits \in 0..U64Max
    PROVE  /\ \A i \in Tiers : TierPrice(i, credits) \in 0..U64Max
           /\ Priced1(credits) \in 0..U64Max
           /\ Priced2(credits) \in 0..U64Max
           /\ Priced3(credits) \in 0..U64Max
           /\ Priced4(credits) \in 0..U64Max
           /\ Priced5(credits) \in 0..U64Max
<1>1. U64Max \in Nat
  BY FeesAssumption
<1>2. ASSUME NEW i \in Tiers
      PROVE  TierPrice(i, credits) \in 0..U64Max
  <2>1. 0 \in 0..U64Max
    BY <1>1
  <2> QED
    BY ZenonT(60), <2>1, TierStepPrices DEF TierPrice
<1>3. \A x, y \in 0..U64Max : SaturatingAdd(x, y) \in 0..U64Max
  BY <1>1 DEF SaturatingAdd, Lesser
<1>4. /\ TierPrice(1, credits) \in 0..U64Max
      /\ TierPrice(2, credits) \in 0..U64Max
      /\ TierPrice(3, credits) \in 0..U64Max
      /\ TierPrice(4, credits) \in 0..U64Max
      /\ TierPrice(5, credits) \in 0..U64Max
  BY <1>2 DEF Tiers
<1>5. Priced1(credits) \in 0..U64Max
  BY <1>1, <1>3, <1>4 DEF Priced1
<1>6. Priced2(credits) \in 0..U64Max
  BY <1>3, <1>4, <1>5 DEF Priced2
<1>7. Priced3(credits) \in 0..U64Max
  BY <1>3, <1>4, <1>6 DEF Priced3
<1>8. Priced4(credits) \in 0..U64Max
  BY <1>3, <1>4, <1>7 DEF Priced4
<1>9. Priced5(credits) \in 0..U64Max
  BY <1>3, <1>4, <1>8 DEF Priced5
<1> QED
  BY <1>2, <1>5, <1>6, <1>7, <1>8, <1>9

(* The loop over TIERS prices each credit once, in the tier it lies in.    *)
LEMMA LoopPrices ==
    ASSUME NEW credits \in 0..U64Max
    PROVE  calculate_subscription_fees(credits) = Priced5(credits)
<1> DEFINE St(t, i) == [total |-> t,
                        remaining |-> SaturatingSub(credits, TierStart[i] - 1)]
<1>1. /\ U64Max \in Nat /\ 0 \in 0..U64Max
      /\ 1 \in Tiers /\ 2 \in Tiers /\ 3 \in Tiers /\ 4 \in Tiers /\ 5 \in Tiers
      /\ NextTierStart(1) = TierStart[2] /\ NextTierStart(2) = TierStart[3]
      /\ NextTierStart(3) = TierStart[4] /\ NextTierStart(4) = TierStart[5]
  BY FeesAssumption DEF Tiers, NextTierStart
<1>2. [total |-> 0, remaining |-> credits] = St(0, 1)
  BY FeesAssumption DEF SaturatingSub
<1>3. ASSUME NEW i \in Tiers, NEW t \in 0..U64Max
      PROVE  TierStep(i, credits, St(t, i)) =
               [total |-> SaturatingAdd(t, TierPrice(i, credits)),
                remaining |-> SaturatingSub(credits, NextTierStart(i) - 1)]
  BY TierStepPrices DEF TierPrice
<1> HIDE DEF St
<1>4. TierStep(1, credits, St(0, 1)) = St(Priced1(credits), 2)
  BY <1>1, <1>3 DEF Priced1, St
<1>5. TierStep(2, credits, St(Priced1(credits), 2)) = St(Priced2(credits), 3)
  BY ZenonT(60), <1>1, <1>3, PricedType DEF Priced2, St
<1>6. TierStep(3, credits, St(Priced2(credits), 3)) = St(Priced3(credits), 4)
  BY ZenonT(60), <1>1, <1>3, PricedType DEF Priced3, St
<1>7. TierStep(4, credits, St(Priced3(credits), 4)) = St(Priced4(credits), 5)
  BY ZenonT(60), <1>1, <1>3, PricedType DEF Priced4, St
<1>8. TierStep(5, credits, St(Priced4(credits), 5)).total = Priced5(credits)
  BY <1>1, <1>3, PricedType DEF Priced5
<1>9. AfterTiers(credits).total = Priced5(credits)
  BY <1>2, <1>4, <1>5, <1>6, <1>7, <1>8 DEF AfterTiers
<1> QED
  BY <1>9 DEF calculate_subscription_fees, SubscriptionFees

(* calculate_subscription_fees returns a u64. *)
THEOREM FeesType ==
    \A credits \in 0..U64Max :
      calculate_subscription_fees(credits) \in 0..U64Max
BY LoopPrices, PricedType

(* No credits cost nothing, so a termination releases the whole price of   *)
(* the credits left.                                                       *)
LEMMA NoCreditsNoFees == calculate_subscription_fees(0) = 0
<1>1. U64Max \in Nat
  BY FeesAssumption
<1>2. ASSUME NEW i, NEW t
      PROVE  TierStep(i, 0, [total |-> t, remaining |-> 0]) =
               [total |-> t, remaining |-> 0]
  BY DEF TierStep
<1>3. AfterTiers(0).total = 0
  BY <1>2 DEF AfterTiers
<1> QED
  BY <1>1, <1>3 DEF calculate_subscription_fees, SubscriptionFees

-----------------------------------------------------------------------------
(* Multiplication by a natural number is monotone (saturating_mul). *)
LEMMA MulMonotone ==
    ASSUME NEW a \in Nat, NEW m \in Nat, NEW n \in Nat, m <= n
    PROVE  a * m <= a * n
<1>1. PICK k \in Nat : n = m + k
  <2> WITNESS n - m \in Nat
  <2> QED OBVIOUS
<1>2. a * n = a * m + a * k
  BY <1>1
<1>3. a * k \in Nat /\ a * m \in Nat
  OBVIOUS
<1> QED
  BY <1>2, <1>3

(* In a tier, more credits never cost less. *)
LEMMA TierPriceMonotone ==
    ASSUME NEW i \in Tiers,
           NEW c \in 0..U64Max, NEW d \in 0..U64Max, c <= d
    PROVE  TierPrice(i, c) <= TierPrice(i, d)
<1> DEFINE m    == InTier(i, c)
           n    == InTier(i, d)
           rate == 100 - TierDiscount[i]
<1>1. /\ TierStart[i] \in 1..U64Max /\ NextTierStart(i) \in 1..U64Max
      /\ U64Max \in Nat /\ Fee \in Nat /\ rate \in Nat
  BY FeesAssumption DEF NextTierStart, Tiers
<1>2. m \in Nat /\ n \in Nat /\ m <= n
  BY <1>1 DEF InTier, SaturatingSub, Lesser
<1> HIDE DEF m, n, rate
<1>3. \A a, x, y \in Nat : x <= y =>
         /\ SaturatingMul(a, x) \in Nat
         /\ SaturatingMul(a, x) <= SaturatingMul(a, y)
         /\ SaturatingMul(x, a) \in Nat
         /\ SaturatingMul(x, a) <= SaturatingMul(y, a)
  <2> TAKE a, x, y \in Nat
  <2> HAVE x <= y
  <2>1. a * x <= a * y /\ a * x \in Nat /\ a * y \in Nat
    BY MulMonotone
  <2>2. x * a = a * x /\ y * a = a * y
    OBVIOUS
  <2> QED
    BY <2>1, <2>2, <1>1 DEF SaturatingMul, Lesser
<1>4. /\ SaturatingMul(Fee, m) \in Nat
      /\ SaturatingMul(Fee, n) \in Nat
      /\ SaturatingMul(Fee, m) <= SaturatingMul(Fee, n)
  <2>1. n <= n
    BY <1>2
  <2> QED
    BY ZenonT(60), <1>1, <1>2, <1>3, <2>1
<1> DEFINE x == SaturatingMul(SaturatingMul(Fee, m), rate)
           y == SaturatingMul(SaturatingMul(Fee, n), rate)
<1>5. x \in Nat /\ y \in Nat /\ x <= y
  <2>1. SaturatingMul(Fee, n) <= SaturatingMul(Fee, n)
    BY <1>4
  <2> QED
    BY ZenonT(60), <1>1, <1>3, <1>4, <2>1
<1>6. TierPrice(i, c) = x \div 100 /\ TierPrice(i, d) = y \div 100
  BY DEF TierPrice, TierFee, m, n, rate
<1> HIDE DEF x, y
<1>7. x \div 100 <= y \div 100
  BY <1>5
<1> QED
  BY <1>6, <1>7

(* More credits never cost less, whatever the fee, the tiers, the          *)
(* discounts, the rounding and the saturation.  collect_fees relies on it: *)
(* it takes the balance of a difference without looking at its direction.  *)
THEOREM FeesMonotone ==
    \A c, d \in 0..U64Max :
      c <= d => calculate_subscription_fees(c) <= calculate_subscription_fees(d)
<1> TAKE c, d \in 0..U64Max
<1> HAVE c <= d
<1>1. \A w, x, y, z \in 0..U64Max :
         w <= x /\ y <= z => SaturatingAdd(w, y) <= SaturatingAdd(x, z)
  BY FeesAssumption DEF SaturatingAdd, Lesser
<1>2. /\ TierPrice(1, c) <= TierPrice(1, d)
      /\ TierPrice(2, c) <= TierPrice(2, d)
      /\ TierPrice(3, c) <= TierPrice(3, d)
      /\ TierPrice(4, c) <= TierPrice(4, d)
      /\ TierPrice(5, c) <= TierPrice(5, d)
  BY TierPriceMonotone DEF Tiers
<1>3. /\ 0 \in 0..U64Max /\ 0 <= 0
      /\ 1 \in Tiers /\ 2 \in Tiers /\ 3 \in Tiers /\ 4 \in Tiers /\ 5 \in Tiers
  BY FeesAssumption DEF Tiers
<1>4. Priced1(c) <= Priced1(d)
  BY ZenonT(60), <1>1, <1>2, <1>3, PricedType DEF Priced1
<1>5. Priced2(c) <= Priced2(d)
  BY ZenonT(60), <1>1, <1>2, <1>3, <1>4, PricedType DEF Priced2
<1>6. Priced3(c) <= Priced3(d)
  BY ZenonT(60), <1>1, <1>2, <1>3, <1>5, PricedType DEF Priced3
<1>7. Priced4(c) <= Priced4(d)
  BY ZenonT(60), <1>1, <1>2, <1>3, <1>6, PricedType DEF Priced4
<1>8. Priced5(c) <= Priced5(d)
  BY ZenonT(60), <1>1, <1>2, <1>3, <1>7, PricedType DEF Priced5
<1> QED
  BY <1>8, LoopPrices

(* calculate_diff_fees for fewer credits: the balance is the difference of *)
(* the two prices, to be released if it is not zero.                       *)
LEMMA DiffFeesDown ==
    ASSUME NEW c \in 0..U64Max, NEW d \in 0..U64Max, c <= d
    PROVE  LET diff == calculate_diff_fees(d, c)
               fc   == calculate_subscription_fees(c)
               fd   == calculate_subscription_fees(d)
           IN  /\ diff.balance = fd - fc
               /\ diff.balance \in Nat
               /\ diff.direction = IF fc = fd THEN "None" ELSE "Release"
<1> DEFINE fc == calculate_subscription_fees(c)
           fd == calculate_subscription_fees(d)
<1>1. fc \in Nat /\ fd \in Nat /\ fc <= fd
  BY FeesType, FeesMonotone, FeesAssumption
<1>2. calculate_diff_fees(d, c) =
        [balance   |-> IF fc > fd THEN fc - fd ELSE fd - fc,
         direction |-> CASE fc > fd -> "Collect"
                         [] fc < fd -> "Release"
                         [] OTHER   -> "None"]
  BY DEF calculate_diff_fees
<1> HIDE DEF fc, fd
<1>3. /\ calculate_diff_fees(d, c).balance = fd - fc
      /\ calculate_diff_fees(d, c).direction =
           IF fc = fd THEN "None" ELSE "Release"
  BY <1>1, <1>2
<1>4. fd - fc \in Nat
  BY <1>1
<1> QED
  BY <1>3, <1>4 DEF fc, fd

-----------------------------------------------------------------------------
(* Sums over finite sets.  SumFunctionOnSet adds up the values in an order *)
(* fixed by CHOOSE; these lemmas show that the order does not matter.      *)

(* g maps each part of S to the sum of f over it: the empty sum is 0, and  *)
(* any element can be taken out of a sum.                                  *)
IsSum(g, f, S) ==
    /\ g \in [SUBSET S -> Int]
    /\ g[{}] = 0
    /\ \A s \in SUBSET S : \A x \in s : g[s] = f[x] + g[s \ {x}]

(* h adds up the values of f on each part of S, in some order. *)
SumsUp(h, f, S) ==
    /\ h[{}] = 0
    /\ \A s \in SUBSET S : s # {} => \E x \in s : h[s] = f[x] + h[s \ {x}]

(* A family of parts of a finite set has a smallest member: induction over *)
(* finite sets, as the search for a smallest counterexample.               *)
LEMMA SmallestPart ==
    ASSUME NEW S, IsFiniteSet(S), NEW F, F \subseteq SUBSET S, F # {}
    PROVE  \E T \in F : \A U \in F : ~(U \subseteq T /\ U # T)
<1> DEFINE R == StrictSubsetOrdering(S)
<1>1. IsWellFoundedOn(R, SUBSET S)
  BY ZenonT(60), FS_StrictSubsetOrderingWellFounded, FS_FiniteSubsetsOfFinite
<1> HIDE DEF R
<1>2. PICK T \in F : \A U \in F : ~(<<U, T>> \in R)
  BY <1>1, WFMin
<1>3. ASSUME NEW U \in F, U \subseteq T, U # T
      PROVE  <<U, T>> \in R
  BY <1>3 DEF R, StrictSubsetOrdering
<1>4. \A U \in F : ~(U \subseteq T /\ U # T)
  BY ZenonT(60), <1>2, <1>3
<1> QED
  BY <1>4

(* The sum over a set with one more element. *)
LEMMA SumExtends ==
    ASSUME NEW S, NEW a, a \notin S,
           NEW f, \A x \in S \cup {a} : f[x] \in Int,
           NEW g, IsSum(g, f, S)
    PROVE  \E h : IsSum(h, f, S \cup {a})
<1> DEFINE T == S \cup {a}
           h == [s \in SUBSET T |-> IF a \in s THEN f[a] + g[s \ {a}] ELSE g[s]]
<1>1. /\ g \in [SUBSET S -> Int] /\ g[{}] = 0
      /\ \A s \in SUBSET S : \A x \in s : g[s] = f[x] + g[s \ {x}]
  BY DEF IsSum
<1>2. \A s \in SUBSET T : s \ {a} \in SUBSET S /\ (a \notin s => s \in SUBSET S)
  OBVIOUS
<1>3. h \in [SUBSET T -> Int]
  <2> SUFFICES ASSUME NEW s \in SUBSET T
               PROVE  (IF a \in s THEN f[a] + g[s \ {a}] ELSE g[s]) \in Int
    BY ZenonT(60)
  <2>1. g[s \ {a}] \in Int /\ (a \notin s => g[s] \in Int) /\ f[a] \in Int
    BY <1>1, <1>2
  <2> QED
    BY <2>1
<1>4. h[{}] = 0
  BY <1>1
<1>5. ASSUME NEW s \in SUBSET T, NEW x \in s
      PROVE  h[s] = f[x] + h[s \ {x}]
  <2>1. s \ {x} \in SUBSET T
    OBVIOUS
  <2>2. CASE x = a
    BY <1>5, <2>1, <2>2
  <2>3. CASE x # a /\ a \notin s
    <3>1. h[s] = g[s] /\ h[s \ {x}] = g[s \ {x}]
      BY <2>1, <2>3
    <3> QED
      BY <1>1, <1>2, <2>3, <3>1
  <2>4. CASE x # a /\ a \in s
    <3> DEFINE r == s \ {a}
    <3>1. h[s] = f[a] + g[r]
      BY <2>4
    <3>2. r \in SUBSET S /\ x \in r /\ r \ {x} \in SUBSET S
      BY <1>5, <2>4
    <3>3. g[r] = f[x] + g[r \ {x}]
      BY ZenonT(60), <1>1, <3>2
    <3>4. (s \ {x}) \ {a} = r \ {x}
      OBVIOUS
    <3>5. h[s \ {x}] = f[a] + g[r \ {x}]
      BY ZenonT(60), <2>1, <2>4, <3>4
    <3>6. f[a] \in Int /\ f[x] \in Int /\ g[r \ {x}] \in Int
      BY <1>1, <1>5, <3>2
    <3> HIDE DEF h, r
    <3> QED
      BY <3>1, <3>3, <3>5, <3>6
  <2> QED
    BY <2>2, <2>3, <2>4
<1>6. IsSum(h, f, T)
  BY ZenonT(60), <1>3, <1>4, <1>5 DEF IsSum
<1> QED
  BY <1>6

(* Every finite set has a sum.  Otherwise some smallest part of it has     *)
(* none, but then adding its last element extends the sum of the rest.     *)
LEMMA SumExists ==
    ASSUME NEW S, IsFiniteSet(S), NEW f, \A x \in S : f[x] \in Int
    PROVE  \E g : IsSum(g, f, S)
<1> DEFINE Bad == {T \in SUBSET S : ~\E g : IsSum(g, f, T)}
<1> SUFFICES ASSUME Bad # {}
             PROVE  FALSE
  OBVIOUS
<1>1. PICK T \in Bad : \A U \in Bad : ~(U \subseteq T /\ U # T)
  <2>1. Bad \subseteq SUBSET S
    OBVIOUS
  <2> HIDE DEF Bad
  <2> QED
    BY <2>1, SmallestPart
<1>2. CASE T = {}
  <2> DEFINE z == [s \in SUBSET T |-> 0]
  <2>1. IsSum(z, f, T)
    BY <1>2 DEF IsSum
  <2> QED
    BY <2>1
<1>3. CASE T # {}
  <2>1. PICK a \in T : TRUE
    BY <1>3
  <2> DEFINE U == T \ {a}
  <2>2. U \in SUBSET S /\ U \subseteq T /\ U # T /\ T = U \cup {a} /\ a \notin U
    BY <2>1
  <2>3. PICK g : IsSum(g, f, U)
    BY <1>1, <2>2
  <2>4. \E h : IsSum(h, f, U \cup {a})
    <3>1. \A x \in U \cup {a} : f[x] \in Int
      BY <2>2
    <3> HIDE DEF U
    <3> QED
      BY ZenonT(60), <2>2, <2>3, <3>1, SumExtends
  <2> QED
    BY <2>2, <2>4
<1> QED
  BY <1>2, <1>3

(* Two functions that take elements out of a sum one by one, in any order, *)
(* agree on every finite set they are both defined for.                    *)
LEMMA SumsAgree ==
    ASSUME NEW S, IsFiniteSet(S), NEW f, \A x \in S : f[x] \in Int,
           NEW T, S \subseteq T, NEW g, IsSum(g, f, T),
           NEW h, SumsUp(h, f, S)
    PROVE  h[S] = g[S]
<1> DEFINE Bad == {s \in SUBSET S : h[s] # g[s]}
<1> SUFFICES ASSUME Bad # {}
             PROVE  FALSE
  OBVIOUS
<1>1. PICK s \in Bad : \A u \in Bad : ~(u \subseteq s /\ u # s)
  <2>1. Bad \subseteq SUBSET S
    OBVIOUS
  <2> HIDE DEF Bad
  <2> QED
    BY <2>1, SmallestPart
<1>2. s # {}
  BY ZenonT(60) DEF IsSum, SumsUp
<1>3. PICK x \in s : h[s] = f[x] + h[s \ {x}]
  BY <1>2 DEF SumsUp
<1>4. g[s] = f[x] + g[s \ {x}]
  BY <1>3 DEF IsSum
<1>5. s \ {x} \in SUBSET S /\ s \ {x} # s /\ s \ {x} \subseteq s
  BY <1>3
<1>6. h[s \ {x}] = g[s \ {x}]
  BY <1>1, <1>5
<1> QED
  BY <1>3, <1>4, <1>6

(* SumFunctionOnSet, by any function that adds up the parts of the set. *)
LEMMA SumIs ==
    ASSUME NEW S, IsFiniteSet(S), NEW f, \A x \in S : f[x] \in Int,
           NEW h, SumsUp(h, f, S)
    PROVE  h[S] = SumFunctionOnSet(f, S)
<1> DEFINE pick(s) == CHOOSE x \in s : TRUE
           Adds(e) == e = [s \in SUBSET S |->
                             IF s = {} THEN 0 ELSE f[pick(s)] + e[s \ {pick(s)}]]
           iter == CHOOSE e : Adds(e)
<1>1. SumFunctionOnSet(f, S) = iter[S]
  BY DEF SumFunctionOnSet, FoldFunctionOnSet, MapThenFoldSet
<1>2. PICK g : IsSum(g, f, S)
  BY SumExists
<1>3. \A s \in SUBSET S : s # {} => pick(s) \in s
  OBVIOUS
<1> HIDE DEF pick
<1>4. Adds(g)
  BY ZenonT(60), <1>2, <1>3 DEF IsSum
<1>5. Adds(iter)
  BY <1>4, Zenon
<1>6. SumsUp(iter, f, S)
  <2> HIDE DEF iter
  <2> QED
    BY ZenonT(60), <1>3, <1>5 DEF SumsUp
<1>7. iter[S] = g[S] /\ h[S] = g[S]
  <2>1. S \subseteq S
    OBVIOUS
  <2> HIDE DEF iter
  <2> QED
    BY <1>2, <1>6, <2>1, SumsAgree
<1> QED
  BY <1>1, <1>7

(* The empty sum. *)
LEMMA SumEmpty == \A f : SumFunctionOnSet(f, {}) = 0
<1> TAKE f
<1> DEFINE z == [s \in {{}} |-> 0]
<1>1. IsFiniteSet({}) /\ z[{}] = 0 /\ SumsUp(z, f, {})
  BY FS_EmptySet DEF SumsUp
<1> HIDE DEF z
<1>2. z[{}] = SumFunctionOnSet(f, {})
  BY <1>1, SumIs
<1> QED
  BY <1>1, <1>2

(* Any element can be taken out of a sum. *)
LEMMA SumTakeOut ==
    ASSUME NEW S, IsFiniteSet(S), NEW f, \A x \in S : f[x] \in Int, NEW x \in S
    PROVE  /\ SumFunctionOnSet(f, S) = f[x] + SumFunctionOnSet(f, S \ {x})
           /\ SumFunctionOnSet(f, S \ {x}) \in Int
<1>1. PICK g : IsSum(g, f, S)
  BY SumExists
<1>2. /\ g[{}] = 0 /\ g[S \ {x}] \in Int
      /\ \A s \in SUBSET S : \A y \in s : g[s] = f[y] + g[s \ {y}]
  BY <1>1 DEF IsSum
<1>3. SumsUp(g, f, S) /\ SumsUp(g, f, S \ {x})
  BY ZenonT(60), <1>2 DEF SumsUp
<1>4. g[S] = SumFunctionOnSet(f, S)
  BY <1>2, <1>3, SumIs
<1>5. g[S \ {x}] = SumFunctionOnSet(f, S \ {x})
  <2>1. IsFiniteSet(S \ {x}) /\ \A y \in S \ {x} : f[y] \in Int
    BY FS_RemoveElement
  <2> QED
    BY <1>2, <1>3, <2>1, SumIs
<1> QED
  BY ZenonT(60), <1>2, <1>4, <1>5

(* A sum of naturals is a natural. *)
LEMMA SumType ==
    ASSUME NEW S, IsFiniteSet(S), NEW f, \A x \in S : f[x] \in Nat
    PROVE  SumFunctionOnSet(f, S) \in Nat
<1> DEFINE Bad == {T \in SUBSET S : SumFunctionOnSet(f, T) \notin Nat}
<1> SUFFICES ASSUME Bad # {}
             PROVE  FALSE
  OBVIOUS
<1>1. PICK T \in Bad : \A U \in Bad : ~(U \subseteq T /\ U # T)
  <2>1. Bad \subseteq SUBSET S
    OBVIOUS
  <2> HIDE DEF Bad
  <2> QED
    BY <2>1, SmallestPart
<1>2. T # {}
  BY SumEmpty
<1>3. PICK x \in T : TRUE
  BY <1>2
<1>4. SumFunctionOnSet(f, T \ {x}) \in Nat
  BY <1>1, <1>3
<1>5. SumFunctionOnSet(f, T) = f[x] + SumFunctionOnSet(f, T \ {x})
  <2>1. IsFiniteSet(T) /\ \A y \in T : f[y] \in Int
    BY FS_Subset
  <2> QED
    BY <1>3, <2>1, SumTakeOut
<1> QED
  BY <1>3, <1>4, <1>5

(* A sum only depends on the values summed. *)
LEMMA SumSame ==
    ASSUME NEW S, IsFiniteSet(S), NEW f, NEW e,
           \A x \in S : f[x] \in Int /\ e[x] = f[x]
    PROVE  SumFunctionOnSet(e, S) = SumFunctionOnSet(f, S)
<1>1. PICK g : IsSum(g, f, S)
  BY SumExists
<1>2. SumsUp(g, f, S) /\ SumsUp(g, e, S)
  BY <1>1 DEF IsSum, SumsUp
<1>3. g[S] = SumFunctionOnSet(f, S)
  BY <1>2, SumIs
<1>4. g[S] = SumFunctionOnSet(e, S)
  <2>1. \A x \in S : e[x] \in Int
    OBVIOUS
  <2> QED
    BY <1>2, <2>1, SumIs
<1> QED
  BY <1>3, <1>4

(* One more value is added to a sum. *)
LEMMA SumAdd ==
    ASSUME NEW S, IsFiniteSet(S), NEW x, x \notin S,
           NEW f, \A y \in S \cup {x} : f[y] \in Int
    PROVE  SumFunctionOnSet(f, S \cup {x}) = f[x] + SumFunctionOnSet(f, S)
<1>1. IsFiniteSet(S \cup {x}) /\ (S \cup {x}) \ {x} = S
  BY FS_AddElement
<1> DEFINE T == S \cup {x}
<1>2. x \in T /\ T \ {x} = S /\ IsFiniteSet(T) /\ \A y \in T : f[y] \in Int
  BY <1>1
<1> HIDE DEF T
<1>3. SumFunctionOnSet(f, T) = f[x] + SumFunctionOnSet(f, T \ {x})
  BY <1>2, SumTakeOut
<1> QED
  BY <1>2, <1>3 DEF T

(* One of the values summed changes. *)
LEMMA SumReplace ==
    ASSUME NEW S, IsFiniteSet(S), NEW x \in S,
           NEW f, \A y \in S : f[y] \in Int,
           NEW e, e[x] \in Int, \A y \in S \ {x} : e[y] = f[y]
    PROVE  SumFunctionOnSet(e, S) = (SumFunctionOnSet(f, S) - f[x]) + e[x]
<1>1. \A y \in S : e[y] \in Int
  OBVIOUS
<1>2. IsFiniteSet(S \ {x})
  BY FS_RemoveElement
<1>3. SumFunctionOnSet(e, S \ {x}) = SumFunctionOnSet(f, S \ {x})
  BY <1>2, SumSame
<1>4. /\ SumFunctionOnSet(e, S) = e[x] + SumFunctionOnSet(e, S \ {x})
      /\ SumFunctionOnSet(f, S) = f[x] + SumFunctionOnSet(f, S \ {x})
      /\ SumFunctionOnSet(f, S \ {x}) \in Int
  BY <1>1, SumTakeOut
<1> QED
  BY <1>3, <1>4
=============================================================================
