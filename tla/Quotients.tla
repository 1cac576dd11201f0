------------------------------ MODULE Quotients -------------------------------
(***************************************************************************)
(* Division and products, as the proofs about timers, blocks and bursts    *)
(* need them: the divisor is a constant without a value.                   *)
(***************************************************************************)
EXTENDS Integers, TLAPS

LEMMA DivisionFacts ==
  ASSUME NEW n \in Nat \ {0}, NEW a \in Int
  PROVE  a \div n \in Int /\ a % n \in 0 .. n - 1 /\ a = n * (a \div n) + (a % n)
<1>1. n \in Nat /\ n > 0
  OBVIOUS
<1>2. a % n \in 0 .. n - 1
  BY <1>1, SMTT(20)
<1>3. a \div n \in Int
  BY <1>1, SMTT(20)
<1>4. a = n * (a \div n) + (a % n)
  BY <1>1, SMTT(20)
<1>. QED  BY <1>2, <1>3, <1>4

LEMMA ProductFacts ==
  ASSUME NEW n \in Nat \ {0}, NEW q \in Int, NEW k \in Int
  PROVE  /\ n * q \in Int
         /\ q <= k => n * q <= n * k
         /\ q < k => n * q + n <= n * k
<1>1. n * q \in Int /\ n * k \in Int /\ n * (k - q) = n * k - n * q /\ n * (k - q - 1) = n * k - n * q - n
  BY SMTT(20)
<1>2. q <= k => n * (k - q) >= 0
  BY SMTT(20)
<1>3. q < k => n * (k - q - 1) >= 0
  BY SMTT(20)
<1>. QED  BY <1>1, <1>2, <1>3

\* A quotient is at least k if the dividend is at least n times k.
LEMMA QuotientBound ==
  ASSUME NEW n \in Nat \ {0}, NEW a \in Int, NEW k \in Int
  PROVE  k <= a \div n <=> n * k <= a
<1>. DEFINE q == a \div n
            r == a % n
<1>1. q \in Int /\ r \in 0 .. n - 1 /\ a = n * q + r
  BY DivisionFacts
<1>. HIDE DEF q, r
<1>2. n * q \in Int /\ n * k \in Int /\ (k <= q => n * k <= n * q) /\ (q < k => n * q + n <= n * k)
  BY <1>1, ProductFacts
<1>3. k <= q <=> n * k <= a
  BY <1>1, <1>2
<1>. QED  BY <1>3 DEF q

LEMMA QuotientUnique ==
  ASSUME NEW n \in Nat \ {0}, NEW q \in Int, NEW r \in 0 .. n - 1
  PROVE  (n * q + r) \div n = q /\ (n * q + r) % n = r
<1>. DEFINE a == n * q + r
            d == a \div n
<1>1. n * q \in Int /\ a \in Int /\ n * (q + 1) = n * q + n
  BY SMTT(20)
<1>2. d \in Int /\ a % n \in 0 .. n - 1 /\ a = n * d + (a % n)
  BY <1>1, DivisionFacts
<1>3. q <= d <=> n * q <= a
  BY <1>1, QuotientBound
<1>4. q + 1 <= d <=> n * (q + 1) <= a
  BY <1>1, QuotientBound
<1>5. n * q <= a /\ ~(n * (q + 1) <= a)
  BY <1>1
<1>. HIDE DEF d
<1>6. d = q
  BY <1>2, <1>3, <1>4, <1>5
<1>. HIDE DEF a
<1>7. n * d = n * q
  BY <1>6
<1>8. a = n * q + r
  BY DEF a
<1>9. a % n = r
  BY <1>1, <1>2, <1>7, <1>8
<1>. QED  BY <1>6, <1>9 DEF a, d

\* Of numbers that are not negative.
LEMMA NaturalQuotient ==
  ASSUME NEW n \in Nat \ {0}, NEW a \in Nat
  PROVE  a \div n \in Nat
<1>1. a \div n \in Int
  BY DivisionFacts
<1>2. 0 <= a \div n <=> n * 0 <= a
  BY QuotientBound
<1>3. n * 0 = 0
  OBVIOUS
<1>. QED  BY <1>1, <1>2, <1>3
==============================================================================
