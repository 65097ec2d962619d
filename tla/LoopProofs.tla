----------------------------- MODULE LoopProofs -----------------------------
(***************************************************************************)
(* What the loops of the code compute, for every number of iterations.     *)
(*                                                                         *)
(* The restoring divider gives the quotient and the remainder of the       *)
(* instruction set, for every width of a register and every number of      *)
(* stages.                                                                 *)
(*                                                                         *)
(* The functions of string.c give what the C library promises, for every   *)
(* size of the memory and of a word and wherever the operands lie.         *)
(***************************************************************************)
EXTENDS Divider, Strings, FiniteSetTheorems, FunctionTheorems, WellFoundedInduction, TLAPS

-----------------------------------------------------------------------------
(* Induction                                                                  *)

\* The order of the naturals, as a set of pairs, is well founded.
LEMMA LessFounded == IsWellFoundedOn({s \in Nat \X Nat : s[1] < s[2]}, Nat)
BY NatLessThanWellFounded DEF OpToRel

\* A set of naturals that is not empty has a least element.
LEMMA LeastElement ==
  ASSUME NEW T \in SUBSET Nat, T # {}
  PROVE  \E x \in T : \A y \in T : x <= y
<1> DEFINE R == {s \in Nat \X Nat : s[1] < s[2]}
<1>1. IsWellFoundedOn(R, Nat)
  BY LessFounded
<1> HIDE DEF R
<1>2. \E x \in T : \A y \in T : <<y, x>> \notin R
  BY <1>1, WFMin
<1>3. PICK x \in T : \A y \in T : <<y, x>> \notin R
  BY <1>2
<1>4. ASSUME NEW y \in T PROVE x <= y
  <2>1. SUFFICES ASSUME y < x PROVE FALSE
    OBVIOUS
  <2>2. x \in Nat /\ y \in Nat
    OBVIOUS
  <2>3. <<y, x>> \in Nat \X Nat /\ <<y, x>>[1] = y /\ <<y, x>>[2] = x
    BY <2>2
  <2>4. <<y, x>> \in R
    BY <2>1, <2>3 DEF R
  <2> QED
    BY <2>4, <1>3
<1> QED
  BY <1>4

\* Induction over a set in the place of a predicate, which no prover here can be
\* given: a least natural outside would have its predecessor in the set.
LEMMA SetInduction ==
  ASSUME NEW S, 0 \in S, \A n \in Nat : n \in S => n + 1 \in S
  PROVE  Nat \subseteq S
<1> DEFINE T == Nat \ S
<1>1. SUFFICES ASSUME T # {} PROVE FALSE
  OBVIOUS
<1>2. PICK x \in T : \A y \in T : x <= y
  BY <1>1, LeastElement
<1>3. x # 0 /\ x - 1 \in Nat /\ x - 1 \notin T
  BY <1>2
<1> QED
  BY <1>3

-----------------------------------------------------------------------------
(* Arithmetic                                                                 *)

\* Quotient and remainder are determined by the equation they satisfy.
LEMMA DivMod ==
  ASSUME NEW x \in Int, NEW m \in Nat \ {0}, NEW k \in Int, NEW r \in 0 .. (m - 1),
         x = k * m + r
  PROVE  x % m = r /\ x \div m = k
<1>1. x = (x \div m) * m + (x % m) /\ x % m \in 0 .. (m - 1) /\ x \div m \in Int
  OBVIOUS
<1> DEFINE j == x \div m
<1>2. (k - j) * m = (x % m) - r
  BY <1>1
<1>3. k - j < 1 /\ k - j > -1
  BY <1>1, <1>2, SMTT(20)
<1> QED
  BY <1>1, <1>3

\* Products that the solver does not find by itself.
LEMMA Distributes ==
  ASSUME NEW a \in Int, NEW b \in Int, NEW c \in Int
  PROVE  /\ (a + b) * c = a * c + b * c
         /\ (a - b) * c = a * c - b * c
         /\ c * (a + b) = c * a + c * b
         /\ c * (a - b) = c * a - c * b
         /\ a * b = b * a
         /\ (a * b) * c = a * (b * c)
         /\ a * b \in Int
OBVIOUS

LEMMA ProductGrows ==
  ASSUME NEW a \in Nat, NEW b \in Nat, NEW c \in Nat, a <= b
  PROVE  /\ a * c \in Nat /\ b * c \in Nat /\ a * c <= b * c
         /\ c * a \in Nat /\ c * b \in Nat /\ c * a <= c * b
OBVIOUS

\* The powers of two count subsets: no fact on 2 ^ n is built into the provers, but
\* one on the number of subsets is in the library.
LEMMA PowerCounts ==
  ASSUME NEW n \in Nat
  PROVE  IsFiniteSet(SUBSET (1 .. n)) /\ Cardinality(SUBSET (1 .. n)) = 2 ^ n
<1>1. IsFiniteSet(1 .. n) /\ Cardinality(1 .. n) = n
  BY FS_Interval
<1> QED
  BY <1>1, FS_SUBSET

LEMMA PowerOfZero == 2 ^ 0 = 1
OBVIOUS

\* One exponent more doubles: half of the subsets have the new element.
LEMMA PowerOfNext ==
  ASSUME NEW n \in Nat
  PROVE  2 ^ (n + 1) = 2 * 2 ^ n
<1> DEFINE S == SUBSET (1 .. n)
           T == {A \in SUBSET (1 .. (n + 1)) : n + 1 \in A}
           f == [A \in S |-> A \cup {n + 1}]
<1>1. IsFiniteSet(S) /\ Cardinality(S) = 2 ^ n
  BY PowerCounts
<1>2. IsFiniteSet(SUBSET (1 .. (n + 1))) /\ Cardinality(SUBSET (1 .. (n + 1))) = 2 ^ (n + 1)
  <2>1. n + 1 \in Nat
    OBVIOUS
  <2> QED
    BY <2>1, PowerCounts
<1>3. f \in Bijection(S, T)
  <2>1. ASSUME NEW A \in S PROVE f[A] \in T
    OBVIOUS
  <2>2. ASSUME NEW A \in S, NEW B \in S, f[A] = f[B] PROVE A = B
    <3>1. n + 1 \notin A /\ n + 1 \notin B
      OBVIOUS
    <3> QED
      BY <2>2, <3>1
  <2>3. ASSUME NEW B \in T PROVE \E A \in S : f[A] = B
    <3>1. B \ {n + 1} \in S
      OBVIOUS
    <3>2. f[B \ {n + 1}] = B
      BY <3>1
    <3> QED
      BY <3>1, <3>2
  <2>4. f \in [S -> T]
    BY <2>1
  <2> HIDE DEF S, T, f
  <2> QED
    BY <2>2, <2>3, <2>4, Fun_IsBij
<1>4. IsFiniteSet(T) /\ Cardinality(T) = 2 ^ n
  <2> HIDE DEF S, T, f
  <2>1. ExistsBijection(S, T)
    BY <1>3 DEF ExistsBijection
  <2> QED
    BY <1>1, <2>1, FS_Bijection
<1>5. S \cup T = SUBSET (1 .. (n + 1))
  <2>1. ASSUME NEW A \in SUBSET (1 .. (n + 1)), n + 1 \notin A PROVE A \in S
    BY <2>1
  <2>2. S \subseteq SUBSET (1 .. (n + 1))
    OBVIOUS
  <2> QED
    BY <2>1, <2>2
<1>6. S \cap T = {}
  OBVIOUS
<1>7. 2 ^ (n + 1) = Cardinality(S) + Cardinality(T) - Cardinality(S \cap T)
  <2> HIDE DEF S, T, f
  <2> QED
    BY <1>1, <1>2, <1>4, <1>5, FS_Union
<1>8. Cardinality(S \cap T) = 0
  BY <1>6, FS_EmptySet
<1>9. 2 ^ n \in Nat
  BY <1>1, FS_CardinalityType
<1> HIDE DEF S, T, f
<1> QED
  BY <1>1, <1>4, <1>7, <1>8, <1>9

LEMMA PowerPositive ==
  ASSUME NEW n \in Nat
  PROVE  2 ^ n \in Nat \ {0}
<1>1. 2 ^ n \in Nat
  BY PowerCounts, FS_CardinalityType
<1>2. SUBSET (1 .. n) # {}
  OBVIOUS
<1> QED
  BY <1>1, <1>2, PowerCounts, FS_EmptySet

\* A power is the product of the powers that its exponent adds up to.
LEMMA PowerOfSum ==
  ASSUME NEW m \in Nat, NEW n \in Nat
  PROVE  2 ^ (m + n) = 2 ^ m * 2 ^ n
<1> DEFINE S == {k \in Nat : 2 ^ (m + k) = 2 ^ m * 2 ^ k}
<1>1. 0 \in S
  BY PowerOfZero, PowerPositive
<1>2. ASSUME NEW k \in Nat, k \in S PROVE k + 1 \in S
  <2>1. 2 ^ (m + (k + 1)) = 2 * 2 ^ (m + k)
    <3>1. m + k \in Nat /\ m + (k + 1) = (m + k) + 1
      OBVIOUS
    <3> QED
      BY <3>1, PowerOfNext
  <2>2. 2 ^ (k + 1) = 2 * 2 ^ k
    BY PowerOfNext
  <2>3. PICK a \in Nat, b \in Nat : a = 2 ^ m /\ b = 2 ^ k
    BY PowerPositive
  <2>4. a * (2 * b) = 2 * (a * b)
    BY Distributes
  <2> QED
    BY <1>2, <2>1, <2>2, <2>3, <2>4
<1> HIDE DEF S
<1>3. n \in S
  BY <1>1, <1>2, SetInduction
<1> QED
  BY <1>3 DEF S

\* One bit of the quotient: h are the bits of the dividend taken so far and l
\* the others, q the quotient so far and v the remainder.
LEMMA BitStep ==
  ASSUME NEW T \in Nat \ {0}, NEW P \in Nat \ {0}, NEW D \in Nat \ {0},
         NEW h \in Nat, NEW l \in Nat, NEW q \in Nat, NEW v \in Nat,
         l < 2 * T, q < P, v < D,
         h = q * D + v,
         h * (2 * T) + l < 2 * (T * P),
         NEW b \in {0, 1}, b = IF l * P + q >= T * P THEN 1 ELSE 0,
         NEW c \in {0, 1}, c = IF 2 * v + b >= D THEN 1 ELSE 0
  PROVE  LET h2 == 2 * h + b
             l2 == l - b * T
             q2 == 2 * q + c
             v2 == 2 * v + b - c * D
         IN /\ h2 \in Nat /\ l2 \in Nat /\ q2 \in Nat /\ v2 \in Nat
            /\ h2 * T + l2 = h * (2 * T) + l
            /\ l2 < T
            /\ h2 = q2 * D + v2
            /\ v2 < D
            /\ q2 < 2 * P
            /\ l2 * (2 * P) + q2 = 2 * (l * P + q) - b * (2 * (T * P)) + c
            /\ l * P + q < 2 * (T * P)
            /\ 2 * v + b < 2 * (T * P)
<1> DEFINE h2 == 2 * h + b
           l2 == l - b * T
           q2 == 2 * q + c
           v2 == 2 * v + b - c * D
<1>1. T * P \in Nat /\ l * P \in Nat /\ h * T \in Nat /\ q * D \in Nat
  BY ProductGrows
<1>2. b = 1 <=> l >= T
  <2>1. CASE l >= T
    <3>1. T * P <= l * P
      BY <2>1, ProductGrows
    <3> QED
      BY <1>1, <2>1, <3>1
  <2>2. CASE l < T
    <3>1. (l + 1) * P <= T * P
      BY <2>2, ProductGrows
    <3>2. (l + 1) * P = l * P + P
      BY Distributes
    <3> QED
      BY <1>1, <2>2, <3>1, <3>2
  <2> QED
    BY <2>1, <2>2
<1>3. l2 \in Nat /\ l2 < T
  BY <1>2
<1>4. h2 * T + l2 = h * (2 * T) + l
  <2>1. (2 * h + b) * T = 2 * (h * T) + b * T /\ h * (2 * T) = 2 * (h * T)
    BY Distributes
  <2>2. b * T \in Nat
    OBVIOUS
  <2> QED
    BY <1>1, <2>1, <2>2
<1>5. h2 = q2 * D + v2
  <2>1. (2 * q + c) * D = 2 * (q * D) + c * D
    BY Distributes
  <2>2. c * D \in Nat
    OBVIOUS
  <2> QED
    BY <1>1, <2>1, <2>2
<1>6. v2 \in Nat /\ v2 < D /\ q2 < 2 * P /\ q2 \in Nat /\ h2 \in Nat
  OBVIOUS
<1>7. l2 * (2 * P) + q2 = 2 * (l * P + q) - b * (2 * (T * P)) + c
  <2>1. (l - b * T) * (2 * P) = 2 * (l * P) - b * (2 * (T * P))
    BY Distributes
  <2> QED
    BY <1>1, <2>1
<1>8. l * P + q < 2 * (T * P)
  <2>1. (l + 1) * P <= (2 * T) * P
    BY ProductGrows
  <2>2. (l + 1) * P = l * P + P /\ (2 * T) * P = 2 * (T * P)
    BY Distributes
  <2> QED
    BY <1>1, <2>1, <2>2
<1>9. 2 * v + b < 2 * (T * P)
  <2>1. h2 * 1 <= h2 * T
    BY <1>6, ProductGrows
  <2>2. h2 <= h2 * T /\ h2 * T \in Nat
    BY <1>6, <2>1, ProductGrows
  <2>3. 2 * v + b <= h2
    BY <1>1
  <2> QED
    BY <1>1, <1>3, <1>4, <1>6, <2>2, <2>3
<1> HIDE DEF h2, l2, q2, v2
<1>10. QED
  BY <1>3, <1>4, <1>5, <1>6, <1>7, <1>8, <1>9 DEF h2, l2, q2, v2

-----------------------------------------------------------------------------
(* The divider                                                                *)

\* X is divided by D: i bits of the quotient are known and p holds the
\* remainder, above an upper bit that means nothing, and below it the bits
\* that have not been divided followed by those of the quotient.
Divided(X, D, i, p) ==
  /\ p[1] \in 0 .. (2 * Modulus - 1)
  /\ p[1] % Modulus < D
  /\ \E h, l, q \in Nat :
       /\ X = h * 2 ^ (Xlen - i) + l
       /\ l < 2 ^ (Xlen - i)
       /\ h = q * D + (p[1] % Modulus)
       /\ p[2] = l * 2 ^ i + q
       /\ q < 2 ^ i

\* How a register splits at bit i.
LEMMA ModulusFacts ==
  /\ Modulus \in Nat \ {0}
  /\ \A i \in 0 .. Xlen : 2 ^ i \in Nat \ {0} /\ 2 ^ (Xlen - i) * 2 ^ i = Modulus
<1>1. Xlen \in Nat
  BY DividerAssumption
<1>2. Modulus \in Nat \ {0}
  BY <1>1, PowerPositive DEF Modulus
<1>3. ASSUME NEW i \in 0 .. Xlen
      PROVE  2 ^ i \in Nat \ {0} /\ 2 ^ (Xlen - i) * 2 ^ i = Modulus
  <2>1. i \in Nat /\ Xlen - i \in Nat /\ (Xlen - i) + i = Xlen
    BY <1>1
  <2> QED
    BY <2>1, PowerPositive, PowerOfSum DEF Modulus
<1> QED
  BY <1>2, <1>3

\* A step of fn_single_div: the divisor is subtracted where it fits, although
\* the difference of a divisor above half of the range is one bit short.
LEMMA OneBitDivides ==
  ASSUME op2 \in Register \ {0}, NEW X \in Register, NEW i \in 0 .. (Xlen - 1), NEW p,
         Divided(X, op2, i, p)
  PROVE  Divided(X, op2, i + 1, OneBit(p))
<1>1. PICK R \in Nat \ {0} : R = Modulus
  BY ModulusFacts
<1>2. PICK T \in Nat \ {0}, P \in Nat \ {0} : T = 2 ^ (Xlen - (i + 1)) /\ P = 2 ^ i
  <2>1. Xlen - (i + 1) \in Nat /\ i \in Nat
    BY DividerAssumption
  <2> QED
    BY <2>1, PowerPositive
<1>3. 2 ^ (Xlen - i) = 2 * T /\ 2 ^ (i + 1) = 2 * P
  <2>1. Xlen - (i + 1) \in Nat /\ i \in Nat /\ Xlen - i = (Xlen - (i + 1)) + 1
    BY DividerAssumption
  <2> QED
    BY <1>2, <2>1, PowerOfNext
<1>4. T * P \in Nat \ {0} /\ R = 2 * (T * P)
  <2>1. (2 * T) * P = R
    <3>1. i \in 0 .. Xlen
      BY DividerAssumption
    <3> QED
      BY <1>1, <1>2, <1>3, <3>1, ModulusFacts
  <2>2. (2 * T) * P = 2 * (T * P) /\ T * P \in Int
    BY Distributes
  <2> QED
    BY <1>1, <2>1, <2>2
<1>5. PICK D \in Nat \ {0} : D = op2 /\ D < R
  BY <1>1 DEF Register
<1>6. PICK u \in 0 .. (2 * R - 1), v \in Nat : u = p[1] /\ v = u % R /\ v < D
  <2>1. p[1] \in 0 .. (2 * R - 1) /\ p[1] % R < D
    BY <1>1, <1>5 DEF Divided
  <2>2. p[1] % R \in Nat
    BY <2>1
  <2> QED
    BY <2>1, <2>2
<1>7. PICK h \in Nat, l \in Nat, q \in Nat :
        /\ X = h * (2 * T) + l
        /\ l < 2 * T
        /\ h = q * D + v
        /\ p[2] = l * P + q
        /\ q < P
  BY <1>1, <1>2, <1>3, <1>5, <1>6 DEF Divided
<1>8. PICK b \in {0, 1} : b = IF l * P + q >= T * P THEN 1 ELSE 0
  OBVIOUS
<1>9. PICK c \in {0, 1} : c = IF 2 * v + b >= D THEN 1 ELSE 0
  OBVIOUS
<1> DEFINE w == l * P + q
           r == 2 * v + b
           h2 == 2 * h + b
           l2 == l - b * T
           q2 == 2 * q + c
           v2 == 2 * v + b - c * D
<1>10. /\ h2 \in Nat /\ l2 \in Nat /\ q2 \in Nat /\ v2 \in Nat
       /\ h2 * T + l2 = h * (2 * T) + l
       /\ l2 < T
       /\ h2 = q2 * D + v2
       /\ v2 < D
       /\ q2 < 2 * P
       /\ l2 * (2 * P) + q2 = 2 * w - b * (2 * (T * P)) + c
       /\ w < 2 * (T * P)
       /\ r < 2 * (T * P)
  <2>1. h * (2 * T) + l < 2 * (T * P)
    BY <1>1, <1>4, <1>7 DEF Register
  <2>2. l < 2 * T /\ q < P /\ v < D /\ h = q * D + v
    BY <1>6, <1>7
  <2> QED
    BY <1>8, <1>9, <2>1, <2>2, BitStep
<1>11. w \in Nat /\ p[2] = w
  <2>1. l * P \in Nat
    BY ProductGrows
  <2> QED
    BY <1>7, <2>1
<1>12. PICK a \in Nat \ {0} : a = T * P /\ R = 2 * a /\ R \div 2 = a
  <2>1. ASSUME NEW a \in Nat, R = 2 * a PROVE R \div 2 = a
    BY <2>1
  <2> QED
    BY <1>4, <2>1
<1> HIDE DEF w, r, h2, l2, q2, v2
<1>13. Negative(p[2]) <=> b = 1
  BY <1>1, <1>8, <1>11, <1>12 DEF Negative, w
<1>14. (2 * p[1] + (IF Negative(p[2]) THEN 1 ELSE 0)) % (2 * Modulus) = r
  <2>1. PICK k \in {0, 1} : u = k * R + v
    <3>1. CASE u < R
      <4>1. u = 0 * R + u /\ u \in 0 .. (R - 1)
        BY <3>1
      <4>2. v = u
        BY <1>6, <4>1, DivMod
      <4> QED
        BY <4>1, <4>2
    <3>2. CASE u >= R
      <4>1. u = 1 * R + (u - R) /\ u - R \in 0 .. (R - 1)
        BY <3>2
      <4>2. v = u - R
        BY <1>6, <4>1, DivMod
      <4> QED
        BY <4>1, <4>2
    <3> QED
      BY <3>1, <3>2
  <2>2. 2 * p[1] + (IF Negative(p[2]) THEN 1 ELSE 0) = k * (2 * R) + r
    BY <1>6, <1>13, <2>1 DEF r
  <2>3. r \in 0 .. (2 * R - 1)
    BY <1>10, <1>12 DEF r
  <2>4. 2 * p[1] + (IF Negative(p[2]) THEN 1 ELSE 0) \in Int
    BY <1>6
  <2> QED
    BY <1>1, <2>2, <2>3, <2>4, DivMod
<1>15. (2 * p[2]) % Modulus = 2 * w - b * R
  <2>1. 2 * w = b * R + (2 * w - b * R)
    BY <1>11
  <2>2. 2 * w - b * R \in 0 .. (R - 1)
    BY <1>8, <1>10, <1>11, <1>12 DEF w
  <2>3. 2 * w \in Int
    BY <1>11
  <2>4. (2 * w) % R = 2 * w - b * R
    BY <2>1, <2>2, <2>3, DivMod
  <2> QED
    BY <1>1, <1>11, <2>4
<1>16. r \in Nat /\ r < R /\ r % Modulus = r
  <2>1. r \in 0 .. (R - 1) /\ r = 0 * R + r
    BY <1>10, <1>12 DEF r
  <2> QED
    BY <1>1, <2>1, DivMod
<1>17. Complement(op2) = R - D
  <2>1. R - D \in 0 .. (R - 1) /\ R - D = 0 * R + (R - D)
    BY <1>5
  <2>2. R - D \in Int
    BY <2>1
  <2>3. (R - D) % R = R - D
    BY <2>1, <2>2, DivMod
  <2> QED
    BY <1>1, <1>5, <2>3 DEF Complement
<1>18. NegatedDivisor \in {R - D, 2 * R - D}
  BY <1>1, <1>17 DEF NegatedDivisor
<1> DEFINE s == (r + NegatedDivisor) % (2 * Modulus)
<1>19. ASSUME c = 1
       PROVE  s \in 0 .. (2 * R - 1) /\ s % R = r - D
  <2>1. r - D \in 0 .. (R - 1)
    BY <1>9, <1>16, <1>19 DEF r
  <2>2. CASE NegatedDivisor = R - D
    <3>1. r + NegatedDivisor = 0 * (2 * R) + (r - D + R) /\ r - D + R \in 0 .. (2 * R - 1)
      BY <1>16, <2>1, <2>2
    <3>2. s = r - D + R
      BY <1>1, <1>16, <2>2, <3>1, DivMod
    <3>3. s = 1 * R + (r - D)
      BY <1>16, <3>2
    <3>4. s \in Int
      BY <1>16, <3>2
    <3> HIDE DEF s
    <3> QED
      BY <2>1, <3>1, <3>2, <3>3, <3>4, DivMod
  <2>3. CASE NegatedDivisor = 2 * R - D
    <3>1. r + NegatedDivisor = 1 * (2 * R) + (r - D) /\ r - D \in 0 .. (2 * R - 1)
      BY <1>16, <2>1, <2>3
    <3>2. s = r - D
      BY <1>1, <1>16, <2>3, <3>1, DivMod
    <3>3. s = 0 * R + (r - D)
      BY <1>16, <3>2
    <3>4. s \in Int
      BY <1>16, <3>2
    <3> HIDE DEF s
    <3> QED
      BY <2>1, <3>1, <3>2, <3>3, <3>4, DivMod
  <2> QED
    BY <1>18, <2>2, <2>3
<1>20. c = 1 <=> r % Modulus >= op2
  BY <1>5, <1>9, <1>16 DEF r
<1> DEFINE np == OneBit(p)
<1>21. np = IF c = 1 THEN <<s, 2 * w - b * R + 1>> ELSE <<r, 2 * w - b * R>>
  BY <1>14, <1>15, <1>20 DEF OneBit
<1>22. /\ np[1] \in 0 .. (2 * R - 1)
       /\ np[1] % R = v2
       /\ np[2] = l2 * (2 * P) + q2
  <2>1. l2 * (2 * P) + q2 = 2 * w - b * R + c
    BY <1>10, <1>12
  <2>2. CASE c = 1
    BY <1>19, <1>21, <2>1, <2>2 DEF v2, r
  <2>3. CASE c = 0
    <3>1. r \in 0 .. (2 * R - 1)
      BY <1>16
    <3>2. np[1] = r /\ np[2] = 2 * w - b * R /\ v2 = r
      BY <1>21, <2>3 DEF v2, r
    <3> HIDE DEF np
    <3> QED
      BY <1>1, <1>11, <1>16, <2>1, <2>3, <3>1, <3>2
  <2> QED
    BY <2>2, <2>3
<1> HIDE DEF np
<1>23. X = h2 * T + l2
  BY <1>7, <1>10
<1>24. Divided(X, op2, i + 1, np)
  <2>1. np[1] \in 0 .. (2 * Modulus - 1) /\ np[1] % Modulus < op2
    BY <1>1, <1>5, <1>10, <1>22
  <2>2. /\ X = h2 * 2 ^ (Xlen - (i + 1)) + l2
        /\ l2 < 2 ^ (Xlen - (i + 1))
        /\ h2 = q2 * op2 + (np[1] % Modulus)
        /\ np[2] = l2 * 2 ^ (i + 1) + q2
        /\ q2 < 2 ^ (i + 1)
    BY <1>1, <1>2, <1>3, <1>5, <1>10, <1>22, <1>23
  <2> QED
    BY <1>10, <2>1, <2>2 DEF Divided
<1> QED
  BY <1>24 DEF np

\* n iterations of the loop of fn_single_div that start with p.
Bits(f, n, p) == f = [k \in 0 .. n |-> IF k = 0 THEN p ELSE OneBit(f[k - 1])]

\* The recursive function of a stage has values: what CHOOSE picks is one.
LEMMA BitsExist ==
  ASSUME NEW n \in Nat, NEW p
  PROVE  \E f : Bits(f, n, p)
<1> DEFINE S == {m \in Nat : \E f : Bits(f, m, p)}
<1>1. 0 \in S
  <2> DEFINE f == [k \in 0 .. 0 |-> p]
  <2>1. Bits(f, 0, p)
    BY DEF Bits
  <2> QED
    BY <2>1
<1>2. ASSUME NEW m \in Nat, m \in S PROVE m + 1 \in S
  <2>1. PICK f : Bits(f, m, p)
    BY <1>2
  <2> DEFINE g == [k \in 0 .. (m + 1) |-> IF k = m + 1 THEN OneBit(f[m]) ELSE f[k]]
             h == [k \in 0 .. (m + 1) |-> IF k = 0 THEN p ELSE OneBit(g[k - 1])]
  <2>2. ASSUME NEW k \in 0 .. (m + 1) PROVE g[k] = h[k]
    <3>1. CASE k = 0
      BY <2>1, <3>1 DEF Bits
    <3>2. CASE k \in 1 .. m
      <4>1. k - 1 \in 0 .. m /\ k \in 0 .. m
        BY <3>2
      <4>2. f[k] = OneBit(f[k - 1])
        <5> HIDE DEF g, h
        <5> QED
          BY <2>1, <3>2, <4>1 DEF Bits
      <4>3. g[k] = f[k] /\ g[k - 1] = f[k - 1]
        BY <3>2, <4>1
      <4> QED
        BY <3>2, <4>2, <4>3
    <3>3. CASE k = m + 1
      <4>1. g[k] = OneBit(f[m]) /\ g[k - 1] = f[m]
        BY <3>3
      <4> QED
        BY <3>3, <4>1
    <3> QED
      BY <3>1, <3>2, <3>3
  <2>3. g = h
    BY <2>2
  <2>4. Bits(g, m + 1, p)
    BY <2>3 DEF Bits
  <2> HIDE DEF g, h
  <2> QED
    BY <2>4
<1> HIDE DEF S
<1>3. n \in S
  BY <1>1, <1>2, SetInduction
<1> QED
  BY <1>3 DEF S

\* A stage divides as many bits as it has iterations.
LEMMA StageDivides ==
  ASSUME op2 \in Register \ {0}, NEW X \in Register, NEW i \in Nat,
         i + (Xlen \div DivStages) <= Xlen,
         Divided(X, op2, i, <<upper, lower>>)
  PROVE  Divided(X, op2, i + (Xlen \div DivStages), Stage)
<1>1. PICK n \in Nat : n = Xlen \div DivStages
  BY DividerAssumption
<1> DEFINE p == <<upper, lower>>
           loop == CHOOSE f : Bits(f, n, p)
           S == {k \in Nat : k <= n => Divided(X, op2, i + k, loop[k])}
<1>2. Bits(loop, n, p)
  BY BitsExist
<1>3. Stage = loop[n]
  BY <1>1 DEF Stage, Bits
<1> HIDE DEF loop, p
<1>4. 0 \in S
  <2>1. loop[0] = p
    BY <1>2 DEF Bits
  <2>2. i + 0 = i
    OBVIOUS
  <2> QED
    BY <2>1, <2>2 DEF p
<1>5. ASSUME NEW k \in Nat, k \in S PROVE k + 1 \in S
  <2>1. SUFFICES ASSUME k + 1 <= n PROVE Divided(X, op2, i + (k + 1), loop[k + 1])
    OBVIOUS
  <2>2. Divided(X, op2, i + k, loop[k])
    BY <1>5, <2>1
  <2>3. loop[k + 1] = OneBit(loop[k])
    <3>1. k + 1 \in 0 .. n /\ k + 1 # 0 /\ (k + 1) - 1 = k
      BY <2>1
    <3> QED
      BY <1>2, <3>1 DEF Bits
  <2>4. i + k \in 0 .. (Xlen - 1) /\ i + (k + 1) = (i + k) + 1
    BY <1>1, <2>1, DividerAssumption
  <2> QED
    BY <2>2, <2>3, <2>4, OneBitDivides
<1> HIDE DEF S
<1>6. n \in S
  BY <1>4, <1>5, SetInduction
<1> QED
  BY <1>1, <1>3, <1>6 DEF S

-----------------------------------------------------------------------------
(* Signs                                                                      *)

Operand == [x : Register, y : Register, f : Operation, half : BOOLEAN]

\* An operand of d as it is divided: sign or zero extended, and its magnitude.
Of(x, d) == Widened(x, d.f, d.half)
Dividend(d) == Magnitude(Of(d.x, d), d.f)
Divisor(d) == Magnitude(Of(d.y, d), d.f)

\* What ma_inputs has made of the operands.
Given(d) ==
  /\ op2 = Divisor(d)
  /\ in1 = d.x
  /\ negate = TakeComplement(Of(d.x, d), Of(d.y, d), d.f)
  /\ signOp1 = Negative(Of(d.x, d))
  /\ isRem = IsRem(d.f)
  /\ isHalf = d.half

\* The sign bit and the half word of a register, as factors.
LEMMA HalfFacts ==
  /\ \E H \in Nat \ {0} : Modulus = 2 * H /\ Modulus \div 2 = H
  /\ \E N \in Nat \ {0}, M \in Nat \ {0} : HalfRange = N /\ Modulus = M * N /\ N <= Modulus
<1>1. \E H \in Nat \ {0} : Modulus = 2 * H /\ Modulus \div 2 = H
  <2>1. Xlen - 1 \in Nat /\ Xlen = (Xlen - 1) + 1
    BY DividerAssumption
  <2>2. PICK H \in Nat \ {0} : H = 2 ^ (Xlen - 1)
    BY <2>1, PowerPositive
  <2>3. Modulus = 2 * H
    BY <2>1, <2>2, PowerOfNext DEF Modulus
  <2>4. (2 * H) \div 2 = H
    OBVIOUS
  <2> QED
    BY <2>3, <2>4
<1>2. \E N \in Nat \ {0}, M \in Nat \ {0} : HalfRange = N /\ Modulus = M * N /\ N <= Modulus
  <2>1. Xlen \div 2 \in 0 .. Xlen
    BY DividerAssumption
  <2>2. Xlen - (Xlen \div 2) \in Nat
    BY <2>1, DividerAssumption
  <2>3. PICK N \in Nat \ {0}, M \in Nat \ {0} :
          N = 2 ^ (Xlen \div 2) /\ M = 2 ^ (Xlen - (Xlen \div 2))
    BY <2>1, <2>2, PowerPositive
  <2>4. Modulus = M * N
    BY <2>1, <2>3, ModulusFacts
  <2>5. 1 * N <= M * N
    BY ProductGrows
  <2> QED
    BY <2>3, <2>4, <2>5 DEF HalfRange
<1> QED
  BY <1>1, <1>2

\* Less than one range below zero, reducing is adding the range once.
LEMMA SmallMod ==
  ASSUME NEW m \in Nat \ {0}, NEW n \in Int, -m <= n, n < m
  PROVE  n % m = IF n < 0 THEN n + m ELSE n
<1>1. CASE n < 0
  <2>1. n = (-1) * m + (n + m) /\ n + m \in 0 .. (m - 1)
    BY <1>1
  <2> QED
    BY <1>1, <2>1, DivMod
<1>2. CASE n >= 0
  <2>1. n = 0 * m + n /\ n \in 0 .. (m - 1)
    BY <1>2
  <2> QED
    BY <1>2, <2>1, DivMod
<1> QED
  BY <1>1, <1>2

\* The complement is the number with the other sign in two's complement.
LEMMA ComplementIs ==
  ASSUME NEW x \in Register
  PROVE  Complement(x) = (- x) % Modulus /\ Complement(x) = IF x = 0 THEN 0 ELSE Modulus - x
<1>1. PICK R \in Nat \ {0} : R = Modulus
  BY ModulusFacts
<1>2. (- x) % R = IF x = 0 THEN 0 ELSE R - x
  <2>1. - x \in Int /\ -R <= - x /\ - x < R
    BY <1>1 DEF Register
  <2>2. (- x) % R = IF - x < 0 THEN (- x) + R ELSE - x
    BY <2>1, SmallMod
  <2> QED
    BY <1>1, <2>2 DEF Register
<1>3. (R - x) % R = IF x = 0 THEN 0 ELSE R - x
  <2>1. CASE x = 0
    <3>1. R - x = 1 * R + 0 /\ 0 \in 0 .. (R - 1) /\ R - x \in Int
      BY <2>1
    <3> QED
      BY <2>1, <3>1, DivMod
  <2>2. CASE x # 0
    <3>1. R - x = 0 * R + (R - x) /\ R - x \in 0 .. (R - 1) /\ R - x \in Int
      BY <1>1, <2>2 DEF Register
    <3> QED
      BY <2>2, <3>1, DivMod
  <2> QED
    BY <2>1, <2>2
<1> QED
  BY <1>1, <1>2, <1>3 DEF Complement

\* What is extended and what is given to the divider fits a register.
LEMMA SignExtendType ==
  ASSUME NEW x \in Nat
  PROVE  SignExtendHalf(x) \in Register
<1>1. PICK N \in Nat \ {0}, M \in Nat \ {0} : HalfRange = N /\ Modulus = M * N /\ N <= Modulus
  BY HalfFacts
<1>2. PICK R \in Nat \ {0} : R = Modulus
  BY ModulusFacts
<1>3. PICK low \in 0 .. (N - 1) : low = x % N
  OBVIOUS
<1> QED
  BY <1>1, <1>2, <1>3 DEF SignExtendHalf, Register

LEMMA WidenedType ==
  ASSUME NEW x \in Register, NEW d \in Operand
  PROVE  Of(x, d) \in Register
<1>1. PICK N \in Nat \ {0}, M \in Nat \ {0} : HalfRange = N /\ Modulus = M * N /\ N <= Modulus
  BY HalfFacts
<1>2. PICK R \in Nat \ {0} : R = Modulus
  BY ModulusFacts
<1>3. x % N \in 0 .. (N - 1) /\ x \in Nat
  BY <1>2 DEF Register
<1>4. x % HalfRange \in Register
  BY <1>1, <1>2, <1>3 DEF Register
<1> QED
  BY <1>3, <1>4, SignExtendType DEF Of, Widened

\* The magnitude of the operand is that of the number it stands for.
LEMMA MagnitudeIs ==
  ASSUME NEW x \in Register, NEW d \in Operand
  PROVE  /\ Value(x, d.f, d.half) \in Int
         /\ Magnitude(Of(x, d), d.f) \in Register
         /\ AbsoluteOf(Value(x, d.f, d.half)) = Magnitude(Of(x, d), d.f)
         /\ Value(x, d.f, d.half) < 0 <=> IsSigned(d.f) /\ Negative(Of(x, d))
         /\ IsSigned(d.f) => 2 * Magnitude(Of(x, d), d.f) <= Modulus
         /\ Value(x, d.f, d.half) % Modulus = Of(x, d)
<1>1. PICK H \in Nat \ {0} : Modulus = 2 * H /\ Modulus \div 2 = H
  BY HalfFacts
<1>2. PICK R \in Nat \ {0} : R = Modulus
  BY ModulusFacts
<1>3. PICK a \in Register : a = Of(x, d)
  BY WidenedType
<1>4. Value(x, d.f, d.half) = IF IsSigned(d.f) /\ Negative(a) THEN a - Modulus ELSE a
  BY <1>3 DEF Value, Of
<1>5. Negative(a) <=> a >= H
  BY <1>1 DEF Negative
<1>6. a \in Nat /\ a < R
  BY <1>2, <1>3 DEF Register
<1>7. Complement(a) = IF a = 0 THEN 0 ELSE R - a
  BY <1>2, ComplementIs
<1>8. CASE IsSigned(d.f) /\ Negative(a)
  <2>1. Value(x, d.f, d.half) = a - R
    BY <1>2, <1>4, <1>8
  <2>2. Magnitude(a, d.f) = R - a
    BY <1>1, <1>5, <1>6, <1>7, <1>8 DEF Magnitude
  <2>3. (a - R) % R = a
    <3>1. a - R = (-1) * R + a /\ a \in 0 .. (R - 1) /\ a - R \in Int
      BY <1>6
    <3> QED
      BY <3>1, DivMod
  <2> QED
    BY <1>1, <1>2, <1>3, <1>5, <1>6, <1>8, <2>1, <2>2, <2>3 DEF AbsoluteOf, Register
<1>9. CASE ~ (IsSigned(d.f) /\ Negative(a))
  <2>1. Value(x, d.f, d.half) = a
    BY <1>4, <1>9
  <2>2. Magnitude(a, d.f) = a
    BY <1>9 DEF Magnitude
  <2>3. a % R = a
    <3>1. a = 0 * R + a /\ a \in 0 .. (R - 1) /\ a \in Int
      BY <1>6
    <3> QED
      BY <3>1, DivMod
  <2> QED
    BY <1>1, <1>2, <1>3, <1>5, <1>6, <1>9, <2>1, <2>2, <2>3 DEF AbsoluteOf, Register
<1> QED
  BY <1>8, <1>9

\* The quotient of the magnitudes, with the sign of both, and the remainder,
\* with that of the dividend: what Expected is before it is cut to a register.
Truncated(d) ==
  LET a == Value(d.x, d.f, d.half)
      b == Value(d.y, d.f, d.half)
  IN IF IsRem(d.f) THEN a - b * Quotient(a, b) ELSE Quotient(a, b)

\* What the instruction set asks for, from quotient and remainder of the magnitudes.
LEMMA TruncatedIs ==
  ASSUME NEW d \in Operand, NEW q \in Nat, NEW u \in Nat, NEW D \in Nat \ {0}, u < D,
         D = Divisor(d), Dividend(d) = q * D + u
  PROVE  Truncated(d) =
           IF IsRem(d.f) THEN IF Value(d.x, d.f, d.half) < 0 THEN - u ELSE u
           ELSE IF (Value(d.x, d.f, d.half) < 0) # (Value(d.y, d.f, d.half) < 0)
                THEN - q ELSE q
<1> DEFINE av == Value(d.x, d.f, d.half)
           bv == Value(d.y, d.f, d.half)
           n == Quotient(av, bv)
<1>1. d.x \in Register /\ d.y \in Register
  BY DEF Operand
<1>2. PICK X \in Nat : X = Dividend(d) /\ X = q * D + u
  BY <1>1, MagnitudeIs, ModulusFacts DEF Dividend, Register
<1>3. av \in Int /\ bv \in Int /\ AbsoluteOf(av) = X /\ AbsoluteOf(bv) = D
  BY <1>1, <1>2, MagnitudeIs DEF Dividend, Divisor
<1>4. X \div D = q
  <2>1. u \in 0 .. (D - 1)
    OBVIOUS
  <2> QED
    BY <1>2, <2>1, DivMod
<1>5. n = IF (av < 0) # (bv < 0) THEN - q ELSE q
  <2> HIDE DEF av, bv
  <2> QED
    BY <1>3, <1>4 DEF Quotient
<1>6. av = IF av < 0 THEN - X ELSE X
  <2> HIDE DEF av, bv
  <2> QED
    BY <1>3 DEF AbsoluteOf
<1>7. bv = IF bv < 0 THEN - D ELSE D
  <2> HIDE DEF av, bv
  <2> QED
    BY <1>3 DEF AbsoluteOf
<1>8. Truncated(d) = IF IsRem(d.f) THEN av - bv * n ELSE n
  BY DEF Truncated
<1> HIDE DEF av, bv, n
<1>9. av - bv * n = IF av < 0 THEN - u ELSE u
  <2>1. PICK p \in Nat : p = q * D
    BY ProductGrows
  <2>2. D * q = p /\ (- D) * q = - p /\ D * (- q) = - p /\ (- D) * (- q) = p
    BY <2>1, Distributes
  <2>3. CASE av < 0 /\ bv < 0
    BY <1>2, <1>5, <1>6, <1>7, <2>1, <2>2, <2>3
  <2>4. CASE av < 0 /\ ~ (bv < 0)
    BY <1>2, <1>5, <1>6, <1>7, <2>1, <2>2, <2>4
  <2>5. CASE ~ (av < 0) /\ bv < 0
    BY <1>2, <1>5, <1>6, <1>7, <2>1, <2>2, <2>5
  <2>6. CASE ~ (av < 0) /\ ~ (bv < 0)
    BY <1>2, <1>5, <1>6, <1>7, <2>1, <2>2, <2>6
  <2> QED
    BY <2>3, <2>4, <2>5, <2>6
<1> QED
  BY <1>5, <1>8, <1>9 DEF av, bv

\* The divider gives the quotient or the remainder its sign.
LEMMA SignedIs ==
  ASSUME NEW d \in Operand, Given(d), op2 # 0, NEW q \in Nat, NEW u \in Nat, u < op2,
         Dividend(d) = q * op2 + u
  PROVE  Signed(IF isRem THEN u ELSE q) = Truncated(d) % Modulus
<1> DEFINE av == Value(d.x, d.f, d.half)
           bv == Value(d.y, d.f, d.half)
<1>1. d.x \in Register /\ d.y \in Register /\ d.f \in Operation
  BY DEF Operand
<1>2. PICK R \in Nat \ {0} : R = Modulus
  BY ModulusFacts
<1>3. PICK H \in Nat \ {0} : Modulus = 2 * H /\ Modulus \div 2 = H
  BY HalfFacts
<1>4. PICK D \in Nat \ {0} : D = op2 /\ D = Divisor(d) /\ D < R
  <2>1. op2 \in Register
    BY <1>1, MagnitudeIs DEF Given, Divisor
  <2> QED
    BY <1>2, <2>1 DEF Given, Register
<1>5. Dividend(d) \in Register
  BY <1>1, MagnitudeIs DEF Dividend
<1>6. q \in Register /\ u \in Register
  <2>1. q * 1 <= q * D /\ q * D \in Nat
    BY ProductGrows
  <2>2. q * op2 = q * D
    BY <1>4
  <2>3. q <= q * D
    BY <2>1
  <2> HIDE DEF Given
  <2> QED
    BY <1>2, <1>4, <1>5, <2>1, <2>2, <2>3 DEF Register
<1>7. Truncated(d) =
        IF IsRem(d.f) THEN IF av < 0 THEN - u ELSE u
        ELSE IF (av < 0) # (bv < 0) THEN - q ELSE q
  BY <1>4, TruncatedIs
<1>8. /\ av < 0 <=> IsSigned(d.f) /\ Negative(Of(d.x, d))
      /\ bv < 0 <=> IsSigned(d.f) /\ Negative(Of(d.y, d))
      /\ IsSigned(d.f) => 2 * D <= R
  BY <1>1, <1>2, <1>4, MagnitudeIs DEF Divisor
<1> HIDE DEF av, bv
<1>9. q % Modulus = q /\ u % Modulus = u
  <2>1. ASSUME NEW n \in Register PROVE n % Modulus = n
    <3>1. n \in Int /\ - R <= n /\ n < R /\ ~ (n < 0)
      BY <1>2 DEF Register
    <3> QED
      BY <1>2, <3>1, SmallMod
  <2> QED
    BY <1>6, <2>1
<1>10. Complement(q) = (- q) % Modulus /\ Complement(u) = (- u) % Modulus
  BY <1>6, ComplementIs
<1>11. CASE d.f \in {Divu, Remu}
  <2>1. ~ IsSigned(d.f) /\ negate = FALSE
    BY <1>11 DEF Given, TakeComplement, IsSigned, Div, Rem, Divu, Remu
  <2>2. Truncated(d) = IF IsRem(d.f) THEN u ELSE q
    BY <1>7, <1>8, <2>1
  <2>3. isRem = IsRem(d.f)
    BY DEF Given
  <2> QED
    BY <1>9, <2>1, <2>2, <2>3 DEF Signed
<1>12. CASE d.f = Div
  <2>1. ~ IsRem(d.f) /\ IsSigned(d.f) /\ d.f # Rem
    BY <1>12 DEF IsSigned, IsRem, Div, Rem, Divu, Remu
  <2>2. isRem = IsRem(d.f) /\ negate = TakeComplement(Of(d.x, d), Of(d.y, d), d.f)
    BY DEF Given
  <2>3. negate <=> Negative(Of(d.x, d)) # Negative(Of(d.y, d))
    BY <1>12, <2>1, <2>2, Zenon DEF TakeComplement
  <2>4. (av < 0) # (bv < 0) <=> negate
    <3>1. PICK m \in BOOLEAN, n \in BOOLEAN :
            m = Negative(Of(d.x, d)) /\ n = Negative(Of(d.y, d))
      <4>1. Negative(Of(d.x, d)) \in BOOLEAN /\ Negative(Of(d.y, d)) \in BOOLEAN
        BY DEF Negative
      <4> QED
        BY <4>1, Zenon
    <3>2. (av < 0 <=> m) /\ (bv < 0 <=> n)
      BY <1>8, <2>1, <3>1
    <3>3. ((av < 0) # (bv < 0)) <=> (m # n)
      BY <3>2
    <3> QED
      BY <2>3, <3>1, <3>3, Zenon
  <2>5. Truncated(d) = IF negate THEN - q ELSE q
    BY <1>7, <2>1, <2>4, Zenon
  <2>6. Signed(IF isRem THEN u ELSE q) = IF negate THEN Complement(q) ELSE q
    BY <2>1, <2>2, Zenon DEF Signed
  <2> QED
    BY <1>9, <1>10, <2>5, <2>6
<1>13. CASE d.f = Rem
  <2>1. IsRem(d.f) /\ IsSigned(d.f)
    BY <1>13 DEF IsSigned, IsRem, Div, Rem, Divu, Remu
  <2>2. /\ isRem = IsRem(d.f)
        /\ negate = TakeComplement(Of(d.x, d), Of(d.y, d), d.f)
        /\ signOp1 = Negative(Of(d.x, d))
    BY DEF Given
  <2>3. negate
    BY <1>13, <2>2, Zenon DEF TakeComplement
  <2>4. Negative(u) = FALSE
    BY <1>2, <1>3, <1>4, <1>8, <2>1 DEF Negative
  <2>5. signOp1 <=> av < 0
    BY <1>8, <2>1, <2>2, Zenon
  <2>6. Truncated(d) = IF signOp1 THEN - u ELSE u
    BY <1>7, <2>1, <2>5, Zenon
  <2>7. signOp1 \in BOOLEAN
    BY <2>2 DEF Negative
  <2>8. Signed(IF isRem THEN u ELSE q) = IF signOp1 THEN Complement(u) ELSE u
    <3>1. isRem /\ (Negative(u) # signOp1 <=> signOp1)
      BY <2>1, <2>2, <2>4, <2>7, Zenon
    <3> QED
      BY <2>3, <3>1, Zenon DEF Signed
  <2> QED
    BY <1>9, <1>10, <2>6, <2>8
<1> QED
  BY <1>1, <1>11, <1>12, <1>13 DEF Operation

\* The half word of an operand is that of the operand extended.
LEMMA HalfOfWidened ==
  ASSUME NEW x \in Register, NEW d \in Operand, d.half
  PROVE  SignExtendHalf(Of(x, d)) = SignExtendHalf(x)
<1>1. PICK N \in Nat \ {0}, M \in Nat \ {0} : HalfRange = N /\ Modulus = M * N /\ N <= Modulus
  BY HalfFacts
<1>2. PICK low \in 0 .. (N - 1) : low = x % N
  BY <1>1, ModulusFacts DEF Register
<1>3. ASSUME NEW y \in Int, NEW k \in Int, y = k * N + low PROVE y % N = low
  BY <1>3, DivMod
<1>4. low % N = low
  <2>1. low = 0 * N + low
    OBVIOUS
  <2> QED
    BY <1>3, <2>1
<1>5. (low + Modulus - HalfRange) % N = low
  <2>1. (M - 1) * N = M * N - N /\ M * N \in Int
    BY Distributes
  <2>2. low + Modulus - HalfRange = (M - 1) * N + low
    BY <1>1, <2>1
  <2>3. PICK y \in Int : y = low + Modulus - HalfRange
    BY <1>1, <2>1
  <2>4. M - 1 \in Int /\ y = (M - 1) * N + low
    BY <2>2, <2>3
  <2>5. y % N = low
    BY <1>3, <2>4
  <2> QED
    BY <2>3, <2>5
<1>6. Of(x, d) % N = low
  <2>1. Of(x, d) = IF IsSigned(d.f) THEN SignExtendHalf(x) ELSE low
    BY <1>1, <1>2 DEF Of, Widened
  <2>2. SignExtendHalf(x) \in {low, low + Modulus - HalfRange}
    BY <1>1, <1>2 DEF SignExtendHalf
  <2> QED
    BY <1>4, <1>5, <2>1, <2>2
<1> QED
  BY <1>1, <1>2, <1>6 DEF SignExtendHalf

\* The test of the code for a zero divisor looks at the magnitude.
LEMMA ZeroDivisor ==
  ASSUME NEW d \in Operand
  PROVE  Divisor(d) = 0 <=> Value(d.y, d.f, d.half) = 0
<1>1. d.y \in Register
  BY DEF Operand
<1>2. /\ Value(d.y, d.f, d.half) \in Int
      /\ AbsoluteOf(Value(d.y, d.f, d.half)) = Divisor(d)
  BY <1>1, MagnitudeIs DEF Divisor
<1> QED
  BY <1>2 DEF AbsoluteOf

\* What is shown behind the last stage is what the instruction set asks for.
LEMMA QuotientExact ==
  ASSUME NEW d \in Operand, Given(d), op2 # 0, NEW q \in Nat, NEW u \in Nat, u < op2,
         Dividend(d) = q * op2 + u
  PROVE  Shown(Signed(IF isRem THEN u ELSE q)) = Expected(d)
<1>1. Signed(IF isRem THEN u ELSE q) = Truncated(d) % Modulus
  BY SignedIs
<1>2. Value(d.y, d.f, d.half) # 0
  BY ZeroDivisor DEF Given
<1>3. Expected(d) = IF d.half THEN SignExtendHalf(Truncated(d) % Modulus)
                    ELSE Truncated(d) % Modulus
  BY <1>2 DEF Expected, Truncated
<1> QED
  BY <1>1, <1>3 DEF Shown, Given

\* So is what is shown for a divisor of zero.
LEMMA ZeroDivisorExact ==
  ASSUME NEW d \in Operand, Given(d), op2 = 0
  PROVE  Shown(IF isRem THEN in1 ELSE Modulus - 1) = Expected(d)
<1>1. Value(d.y, d.f, d.half) = 0
  BY ZeroDivisor DEF Given
<1>2. d.x \in Register
  BY DEF Operand
<1>3. Value(d.x, d.f, d.half) % Modulus = Of(d.x, d)
  BY <1>2, MagnitudeIs
<1>4. (- 1) % Modulus = Modulus - 1
  <2>1. PICK R \in Nat \ {0} : R = Modulus
    BY ModulusFacts
  <2>2. - 1 = (- 1) * R + (R - 1) /\ R - 1 \in 0 .. (R - 1) /\ - 1 \in Int
    BY <2>1
  <2>3. (- 1) % R = R - 1
    BY <2>2, DivMod
  <2> QED
    BY <2>1, <2>3
<1> DEFINE r == IF IsRem(d.f) THEN Of(d.x, d) ELSE Modulus - 1
<1>5. Expected(d) = IF d.half THEN SignExtendHalf(r) ELSE r
  BY <1>1, <1>3, <1>4 DEF Expected
<1>6. CASE d.half
  <2>1. SignExtendHalf(Of(d.x, d)) = SignExtendHalf(d.x)
    BY <1>2, <1>6, HalfOfWidened
  <2> QED
    BY <1>5, <1>6, <2>1 DEF Shown, Given
<1>7. CASE ~ d.half
  <2>1. Of(d.x, d) = d.x
    BY <1>7 DEF Of, Widened
  <2> QED
    BY <1>5, <1>7, <2>1 DEF Shown, Given
<1> QED
  BY <1>6, <1>7

-----------------------------------------------------------------------------
(* The machine                                                                *)

StageBits == Xlen \div DivStages

\* A division that goes on has divided the bits of the stages so far.  One that is
\* over has given its result; with a single stage the counter wraps to zero without.
Advanced(d) ==
  IF divCount = 0 THEN valid => result = Expected(d)
  ELSE /\ ~ valid
       /\ IF op2 = 0 THEN divCount = 1
          ELSE Divided(Dividend(d), op2, (divCount - 1) * StageBits, <<upper, lower>>)

DivInv ==
  /\ divCount \in 0 .. (DivStages + 1) /\ divCount < CountRange
  /\ \/ division = <<>> /\ divCount = 0 /\ ~ valid
     \/ \E d \in Operand : division = <<d>> /\ Given(d) /\ Advanced(d)

\* The static assertions make the stages cover the register.
LEMMA StagesCover ==
  /\ StageBits \in Nat \ {0} /\ DivStages \in Nat \ {0} /\ Xlen \in Nat /\ CountRange = 2 * DivStages
  /\ DivStages * StageBits = Xlen
  /\ \A k \in 0 .. DivStages :
       (k + 1) % CountRange = IF DivStages = 1 /\ k = 1 THEN 0 ELSE k + 1
<1>1. PICK X \in Nat, S \in Nat \ {0} : X = Xlen /\ S = DivStages /\ X >= S
  BY DividerAssumption
<1>2. X % S = 0
  BY <1>1, DividerAssumption
<1>3. X = S * (X \div S) /\ X \div S \in Nat
  BY <1>1, <1>2
<1>4. X \div S # 0
  BY <1>1, <1>3
<1>5. ASSUME NEW k \in 0 .. S
      PROVE  (k + 1) % (2 * S) = IF S = 1 /\ k = 1 THEN 0 ELSE k + 1
  <2>1. CASE S = 1 /\ k = 1
    BY <2>1
  <2>2. CASE ~ (S = 1 /\ k = 1)
    <3>1. k + 1 = 0 * (2 * S) + (k + 1) /\ k + 1 \in 0 .. (2 * S - 1)
      BY <1>1, <2>2
    <3> QED
      BY <2>2, <3>1, DivMod
  <2> QED
    BY <2>1, <2>2
<1> QED
  BY <1>1, <1>3, <1>4, <1>5 DEF StageBits, CountRange

\* The operands are taken: no bit is divided yet.
LEMMA StartAdvances ==
  ASSUME DivInv, NEW x \in Register, NEW y \in Register, NEW f \in Operation,
         NEW half \in BOOLEAN, Start(x, y, f, half)
  PROVE  DivInv'
<1>1. PICK d \in Operand : d = [x |-> x, y |-> y, f |-> f, half |-> half]
  BY DEF Operand
<1>2. division = <<>> /\ divCount = 0 /\ ~ valid
  BY DEF Start, DivInv
<1>3. division' = <<d>> /\ valid' = valid
  BY <1>1 DEF Start
<1>4. Given(d)'
  BY <1>1 DEF Start, Given, Dividend, Divisor, Of
<1>5. divCount' = 1
  BY <1>2, StagesCover DEF Start
<1>6. upper' = 0 /\ lower' = Dividend(d) /\ op2' = Divisor(d)
  BY <1>1 DEF Start, Dividend, Divisor, Of
<1>7. PICK R \in Nat \ {0} : R = Modulus
  BY ModulusFacts
<1>8. PICK X \in Nat : X = Dividend(d) /\ X < R
  BY <1>7, MagnitudeIs DEF Dividend, Operand, Register
<1>9. Divisor(d) \in Register
  BY MagnitudeIs DEF Divisor, Operand
<1>10. Divisor(d) # 0 => Divided(Dividend(d), Divisor(d), 0, <<0, Dividend(d)>>)
  <2>1. 0 % Modulus = 0
    <3>1. 0 = 0 * R + 0 /\ 0 \in 0 .. (R - 1)
      OBVIOUS
    <3> QED
      BY <1>7, <3>1, DivMod
  <2>2. Xlen - 0 = Xlen
    BY StagesCover
  <2>3. 0 = 0 * Divisor(d) + (0 % Modulus)
    BY <1>9, <2>1 DEF Register
  <2>4. X = 0 * 2 ^ (Xlen - 0) + X /\ X < 2 ^ (Xlen - 0)
    BY <1>7, <1>8, <2>2 DEF Modulus
  <2>5. X = X * 2 ^ 0 + 0 /\ 0 < 2 ^ 0
    BY PowerOfZero
  <2>6. 0 \in 0 .. (2 * Modulus - 1)
    BY <1>7
  <2>7. Divisor(d) # 0 => 0 % Modulus < Divisor(d)
    BY <1>9, <2>1 DEF Register
  <2> DEFINE p == <<0, Dividend(d)>>
  <2>8. p[1] = 0 /\ p[2] = X
    BY <1>8
  <2> HIDE DEF p
  <2>9. \E h, l, q \in Nat :
          /\ X = h * 2 ^ (Xlen - 0) + l
          /\ l < 2 ^ (Xlen - 0)
          /\ h = q * Divisor(d) + (p[1] % Modulus)
          /\ p[2] = l * 2 ^ 0 + q
          /\ q < 2 ^ 0
    BY <2>3, <2>4, <2>5, <2>8
  <2> QED
    BY <1>8, <2>6, <2>7, <2>8, <2>9 DEF Divided, p
<1>11. (divCount - 1)' * StageBits = 0
  BY <1>5, StagesCover
<1>12. Advanced(d)'
  <2>1. Divisor(d) # 0 => Divided(Dividend(d), op2, (divCount - 1) * StageBits, <<upper, lower>>)'
    BY <1>5, <1>6, <1>10, <1>11 DEF Divided
  <2> QED
    BY <1>2, <1>3, <1>5, <1>6, <2>1 DEF Advanced
<1> QED
  BY <1>3, <1>4, <1>5, <1>12, StagesCover DEF DivInv

\* A cycle divides the bits of one stage, or shows the result.
LEMMA StepAdvances ==
  ASSUME DivInv, Step
  PROVE  DivInv'
<1>1. divCount # 0
  BY DEF Step
<1>2. PICK d \in Operand : division = <<d>> /\ Given(d) /\ Advanced(d)
  BY <1>1 DEF DivInv
<1>3. division' = <<d>> /\ Given(d)'
  BY <1>2 DEF Step, Given
<1>4. ~ valid
  BY <1>1, <1>2 DEF Advanced
<1>5. PICK k \in 1 .. (DivStages + 1) : k = divCount
  BY <1>1 DEF DivInv
<1>stages. PICK B \in Nat \ {0}, S \in Nat : B = StageBits /\ S = DivStages
  BY StagesCover
<1>6. B = StageBits /\ S = DivStages /\ S >= 1 /\ S * B = Xlen /\ Xlen \in Nat
  BY <1>stages, StagesCover
<1>7. CASE op2 = 0
  <2>1. divCount' = 0 /\ valid' = TRUE /\ result' = Shown(IF isRem THEN in1 ELSE Modulus - 1)
    BY <1>7 DEF Step
  <2>2. result' = Expected(d)
    BY <1>2, <1>7, <2>1, ZeroDivisorExact
  <2>3. Advanced(d)'
    BY <2>1, <2>2 DEF Advanced
  <2> QED
    BY <1>3, <1>6, <2>1, <2>3 DEF DivInv, CountRange
<1>8. CASE op2 # 0 /\ Finished
  <2>1. divCount' = 0 /\ valid' = TRUE
        /\ result' = Shown(Signed(IF isRem THEN upper % Modulus ELSE lower))
    BY <1>8 DEF Step
  <2>2. divCount = S + 1
    <3>1. divCount = (S + 1) % CountRange
      BY <1>6, <1>8 DEF Finished
    <3>2. (S + 1) % CountRange = IF S = 1 THEN 0 ELSE S + 1
      BY <1>6, StagesCover
    <3> QED
      BY <1>1, <3>1, <3>2
  <2>3. (divCount - 1) * StageBits = Xlen
    BY <1>6, <2>2
  <2>4. Divided(Dividend(d), op2, Xlen, <<upper, lower>>)
    BY <1>1, <1>2, <1>8, <2>3 DEF Advanced
  <2>5. Xlen - Xlen = 0 /\ 2 ^ (Xlen - Xlen) = 1
    BY <1>6, PowerOfZero
  <2> DEFINE p == <<upper, lower>>
  <2>6. p[1] = upper /\ p[2] = lower
    OBVIOUS
  <2> HIDE DEF p
  <2>7. PICK h \in Nat, l \in Nat, q \in Nat :
          /\ Dividend(d) = h * 2 ^ (Xlen - Xlen) + l
          /\ l < 2 ^ (Xlen - Xlen)
          /\ h = q * op2 + (upper % Modulus)
          /\ lower = l * 2 ^ Xlen + q
    BY <2>4, <2>6 DEF Divided, p
  <2>8. l = 0 /\ Dividend(d) = h
    BY <2>5, <2>7
  <2>9. PICK M \in Nat : M = 2 ^ Xlen
    BY <1>6, PowerPositive
  <2>10. lower = q
    BY <2>7, <2>8, <2>9
  <2>11. upper \in 0 .. (2 * Modulus - 1) /\ upper % Modulus < op2
    BY <2>4, <2>6 DEF Divided, p
  <2>12. PICK u \in Nat : u = upper % Modulus /\ u < op2
    BY <2>11, ModulusFacts
  <2>13. Dividend(d) = q * op2 + u
    BY <2>7, <2>8, <2>12
  <2>14. result' = Expected(d)
    BY <1>2, <1>8, <2>1, <2>10, <2>12, <2>13, QuotientExact
  <2>15. Advanced(d)'
    BY <2>1, <2>14 DEF Advanced
  <2> QED
    BY <1>3, <1>6, <2>1, <2>15 DEF DivInv, CountRange
<1>9. CASE op2 # 0 /\ ~ Finished /\ S = 1
  <2>1. k = 1
    BY <1>5, <1>6, <1>9, StagesCover DEF DivInv
  <2>2. divCount' = 0 /\ valid' = valid
    <3>1. divCount' = (divCount + 1) % CountRange /\ valid' = valid
      BY <1>9 DEF Step
    <3>2. 1 \in 0 .. DivStages /\ (1 + 1) % CountRange = 0
      BY <1>6, <1>9, StagesCover
    <3> QED
      BY <1>5, <2>1, <3>1, <3>2
  <2>3. Advanced(d)'
    BY <1>4, <2>2 DEF Advanced
  <2> QED
    BY <1>3, <1>6, <2>2, <2>3, StagesCover DEF DivInv, CountRange
<1>10. CASE op2 # 0 /\ ~ Finished /\ S # 1
  <2>1. divCount' = (divCount + 1) % CountRange /\ valid' = valid
    BY <1>10 DEF Step
  <2>2. k <= S
    <3>1. S \in 0 .. S /\ (S + 1) % CountRange = S + 1
      BY <1>6, <1>10, StagesCover
    <3>2. k # S + 1
      BY <1>5, <1>6, <1>10, <3>1 DEF Finished
    <3> QED
      BY <1>5, <1>6, <3>2
  <2>3. divCount' = k + 1
    <3>1. k \in 0 .. S /\ (k + 1) % CountRange = k + 1
      BY <1>6, <1>10, <2>2, StagesCover
    <3> QED
      BY <1>5, <2>1, <3>1
  <2>4. Divided(Dividend(d), op2, (k - 1) * B, <<upper, lower>>)
    BY <1>1, <1>2, <1>5, <1>6, <1>10 DEF Advanced
  <2>5. (k - 1) * B \in Nat /\ (k - 1) * B + B = k * B /\ k * B <= S * B
    <3>1. (k - 1) * B = k * B - B /\ k * B \in Nat /\ k * B <= S * B /\ (k - 1) * B \in Nat
      <4>1. k - 1 \in Nat /\ k \in Nat
        BY <1>6
      <4>2. (k - 1) * B = k * B - 1 * B
        BY <4>1, Distributes
      <4> QED
        BY <1>6, <2>2, <4>1, <4>2, ProductGrows
    <3> QED
      BY <3>1
  <2>6. op2 \in Register \ {0} /\ Dividend(d) \in Register
    BY <1>2, <1>10, MagnitudeIs DEF Given, Dividend, Divisor, Operand
  <2>7. Divided(Dividend(d), op2, k * B, Stage)
    <3>1. (k - 1) * B + (Xlen \div DivStages) <= Xlen
      BY <1>6, <2>5 DEF StageBits
    <3>2. Divided(Dividend(d), op2, (k - 1) * B + (Xlen \div DivStages), Stage)
      BY <2>4, <2>5, <2>6, <3>1, StageDivides
    <3> QED
      BY <1>6, <2>5, <3>2 DEF StageBits
  <2>8. upper' = Stage[1] /\ lower' = Stage[2] /\ op2' = op2
    BY DEF Step
  <2>9. (divCount - 1)' * StageBits = k * B
    BY <1>6, <2>3
  <2> DEFINE p == Stage
  <2>10. Divided(Dividend(d), op2, k * B, <<upper', lower'>>)
    <3>1. <<upper', lower'>>[1] = p[1] /\ <<upper', lower'>>[2] = p[2]
      BY <2>8
    <3> HIDE DEF p
    <3>2. Divided(Dividend(d), op2, k * B, p)
      BY <2>7 DEF p
    <3> QED
      BY <3>1, <3>2 DEF Divided
  <2>11. Advanced(d)'
    <3>1. Divided(Dividend(d), op2, (divCount - 1) * StageBits, <<upper, lower>>)'
      BY <2>8, <2>9, <2>10 DEF Divided
    <3> QED
      BY <1>4, <1>10, <2>1, <2>3, <2>8, <3>1 DEF Advanced
  <2> QED
    <3>1. divCount' \in 0 .. (DivStages + 1) /\ divCount' < CountRange'
      BY <1>6, <1>10, <2>2, <2>3, StagesCover DEF CountRange
    <3> QED
      BY <1>3, <2>11, <3>1 DEF DivInv
<1> QED
  BY <1>7, <1>8, <1>9, <1>10

(***************************************************************************)
(* The divider is idle, or the registers are those of the operands it was  *)
(* given and as many bits of their quotient are there as cycles went by.   *)
(***************************************************************************)
THEOREM DivInvariance == DivSpec => []DivInv
<1>1. DivIdle => DivInv
  BY StagesCover DEF DivIdle, DivInv
<1>2. DivInv /\ [DivNext]_divVars => DivInv'
  <2>1. ASSUME DivInv, DivNext PROVE DivInv'
    <3>1. CASE Step
      BY <2>1, <3>1, StepAdvances
    <3>2. CASE Take
      <4>1. valid /\ divCount' = divCount /\ division' = <<>> /\ valid' = FALSE
        BY <3>2 DEF Take
      <4>2. divCount = 0
        BY <2>1, <4>1 DEF DivInv, Advanced
      <4> QED
        BY <4>1, <4>2, StagesCover DEF DivInv
    <3> QED
      BY <2>1, <3>1, <3>2, StartAdvances DEF DivNext
  <2>2. ASSUME DivInv, UNCHANGED divVars PROVE DivInv'
    <3>1. /\ divCount' = divCount /\ division' = division /\ valid' = valid
          /\ result' = result /\ op2' = op2 /\ upper' = upper /\ lower' = lower
      BY <2>2 DEF divVars
    <3>2. ASSUME NEW d \in Operand, division = <<d>>, Given(d), Advanced(d)
          PROVE  division' = <<d>> /\ Given(d)' /\ Advanced(d)'
      <4>1. Given(d)'
        BY <2>2, <3>2 DEF divVars, Given
      <4>2. Advanced(d)'
        BY <3>1, <3>2 DEF Advanced, Divided
      <4> QED
        BY <3>1, <3>2, <4>1, <4>2
    <3>3. CASE division = <<>> /\ divCount = 0 /\ ~ valid
      <4>1. division' = <<>> /\ divCount' = 0
        BY <3>1, <3>3
      <4>2. ~ valid'
        BY <3>1, <3>3
      <4> QED
        BY <4>1, <4>2, StagesCover DEF DivInv
    <3>4. CASE \E d \in Operand : division = <<d>> /\ Given(d) /\ Advanced(d)
      <4>1. PICK d \in Operand : division' = <<d>> /\ Given(d)' /\ Advanced(d)'
        BY <3>2, <3>4
      <4>2. divCount' \in 0 .. (DivStages + 1) /\ divCount' < CountRange'
        BY <2>2, <3>1 DEF DivInv, CountRange
      <4> QED
        BY <4>1, <4>2 DEF DivInv
    <3> QED
      BY <2>2, <3>3, <3>4 DEF DivInv
  <2> QED
    BY <2>1, <2>2
<1> QED
  BY <1>1, <1>2, PTL DEF DivSpec

(***************************************************************************)
(* What the divider shows is the quotient or the remainder that the        *)
(* instruction set asks for: signed, unsigned and of half words, overflow  *)
(* and a divisor of zero included.                                         *)
(***************************************************************************)
THEOREM DivisionCorrect == DivSpec => []DivisionExact
<1>1. DivInv => DivisionExact
  BY DEF DivInv, DivisionExact, Advanced
<1> QED
  BY <1>1, DivInvariance, PTL

-----------------------------------------------------------------------------
(* The memory and string functions                                            *)

\* Store k of a loop that copies, and of one that fills, in the memory now.
CopyStore(now, k, dest, src, size) ==
  [a \in Address |->
     IF a \in (dest + (k - 1) * size) .. (dest + k * size - 1)
     THEN now[src + (k - 1) * size + (a - dest - (k - 1) * size)]
     ELSE now[a]]

FillStore(now, k, dest, word, size) ==
  [a \in Address |->
     IF a \in (dest + (k - 1) * size) .. (dest + k * size - 1)
     THEN word[a - dest - (k - 1) * size]
     ELSE now[a]]

\* The memories f after up to n stores in m.
CopyStores(f, n, m, dest, src, size) ==
  f = [k \in 0 .. n |-> IF k = 0 THEN m ELSE CopyStore(f[k - 1], k, dest, src, size)]

FillStores(f, n, m, dest, word, size) ==
  f = [k \in 0 .. n |-> IF k = 0 THEN m ELSE FillStore(f[k - 1], k, dest, word, size)]

\* The two loops as memories after each store.
LEMMA CopyLoopIs ==
  ASSUME NEW m, NEW dest, NEW src, NEW len, NEW size
  PROVE  CopiedBy(m, dest, src, len, size)
           = (CHOOSE f : CopyStores(f, len, m, dest, src, size))[(len + size - 1) \div size]
BY DEF CopiedBy, Stored, CopyStores, CopyStore

LEMMA FillLoopIs ==
  ASSUME NEW m, NEW dest, NEW word, NEW len, NEW size
  PROVE  FilledBy(m, dest, word, len, size)
           = (CHOOSE f : FillStores(f, len, m, dest, word, size))[(len + size - 1) \div size]
BY DEF FilledBy, Stored, FillStores, FillStore

\* These memories exist for any number of stores.
LEMMA CopyStoresExist ==
  ASSUME NEW n \in Nat, NEW m, NEW dest, NEW src, NEW size
  PROVE  \E f : CopyStores(f, n, m, dest, src, size)
<1> DEFINE S == {i \in Nat : \E f : CopyStores(f, i, m, dest, src, size)}
<1>1. 0 \in S
  <2> DEFINE f == [k \in 0 .. 0 |-> m]
  <2>1. CopyStores(f, 0, m, dest, src, size)
    BY DEF CopyStores
  <2> QED
    BY <2>1
<1>2. ASSUME NEW i \in Nat, i \in S PROVE i + 1 \in S
  <2>1. PICK f : CopyStores(f, i, m, dest, src, size)
    BY <1>2
  <2> DEFINE last == CopyStore(f[i], i + 1, dest, src, size)
             g == [k \in 0 .. (i + 1) |-> IF k = i + 1 THEN last ELSE f[k]]
             h == [k \in 0 .. (i + 1) |->
                     IF k = 0 THEN m ELSE CopyStore(g[k - 1], k, dest, src, size)]
  <2>2. ASSUME NEW k \in 0 .. (i + 1) PROVE g[k] = h[k]
    <3>1. CASE k = 0
      BY <2>1, <3>1 DEF CopyStores
    <3>2. CASE k \in 1 .. i
      <4>1. k - 1 \in 0 .. i /\ k \in 0 .. i
        BY <3>2
      <4>2. f[k] = CopyStore(f[k - 1], k, dest, src, size)
        <5> HIDE DEF g, h
        <5> QED
          BY <2>1, <3>2, <4>1 DEF CopyStores
      <4>3. g[k] = f[k] /\ g[k - 1] = f[k - 1]
        BY <3>2, <4>1
      <4> QED
        BY <3>2, <4>2, <4>3
    <3>3. CASE k = i + 1
      <4>1. g[k] = last /\ g[k - 1] = f[i]
        BY <3>3
      <4> QED
        BY <3>3, <4>1
    <3> QED
      BY <3>1, <3>2, <3>3
  <2>3. g = h
    BY <2>2
  <2>4. CopyStores(g, i + 1, m, dest, src, size)
    BY <2>3 DEF CopyStores
  <2> HIDE DEF g, h
  <2> QED
    BY <2>4
<1> HIDE DEF S
<1>3. n \in S
  BY <1>1, <1>2, SetInduction
<1> QED
  BY <1>3 DEF S

LEMMA FillStoresExist ==
  ASSUME NEW n \in Nat, NEW m, NEW dest, NEW word, NEW size
  PROVE  \E f : FillStores(f, n, m, dest, word, size)
<1> DEFINE S == {i \in Nat : \E f : FillStores(f, i, m, dest, word, size)}
<1>1. 0 \in S
  <2> DEFINE f == [k \in 0 .. 0 |-> m]
  <2>1. FillStores(f, 0, m, dest, word, size)
    BY DEF FillStores
  <2> QED
    BY <2>1
<1>2. ASSUME NEW i \in Nat, i \in S PROVE i + 1 \in S
  <2>1. PICK f : FillStores(f, i, m, dest, word, size)
    BY <1>2
  <2> DEFINE last == FillStore(f[i], i + 1, dest, word, size)
             g == [k \in 0 .. (i + 1) |-> IF k = i + 1 THEN last ELSE f[k]]
             h == [k \in 0 .. (i + 1) |->
                     IF k = 0 THEN m ELSE FillStore(g[k - 1], k, dest, word, size)]
  <2>2. ASSUME NEW k \in 0 .. (i + 1) PROVE g[k] = h[k]
    <3>1. CASE k = 0
      BY <2>1, <3>1 DEF FillStores
    <3>2. CASE k \in 1 .. i
      <4>1. k - 1 \in 0 .. i /\ k \in 0 .. i
        BY <3>2
      <4>2. f[k] = FillStore(f[k - 1], k, dest, word, size)
        <5> HIDE DEF g, h
        <5> QED
          BY <2>1, <3>2, <4>1 DEF FillStores
      <4>3. g[k] = f[k] /\ g[k - 1] = f[k - 1]
        BY <3>2, <4>1
      <4> QED
        BY <3>2, <4>2, <4>3
    <3>3. CASE k = i + 1
      <4>1. g[k] = last /\ g[k - 1] = f[i]
        BY <3>3
      <4> QED
        BY <3>3, <4>1
    <3> QED
      BY <3>1, <3>2, <3>3
  <2>3. g = h
    BY <2>2
  <2>4. FillStores(g, i + 1, m, dest, word, size)
    BY <2>3 DEF FillStores
  <2> HIDE DEF g, h
  <2> QED
    BY <2>4
<1> HIDE DEF S
<1>3. n \in S
  BY <1>1, <1>2, SetInduction
<1> QED
  BY <1>3 DEF S

\* Copying by words or by bytes is copying, where the operands lie apart.
LEMMA CopiedByIs ==
  ASSUME NEW m \in [Address -> Int], NEW dest \in Nat, NEW src \in Nat,
         NEW size \in Nat \ {0}, NEW count \in Nat, NEW len \in Nat, len = count * size,
         dest + len <= MemorySize, src + len <= MemorySize, Apart(dest, src, len)
  PROVE  CopiedBy(m, dest, src, len, size) = Copy(m, dest, src, len)
<1> DEFINE f == CHOOSE g : CopyStores(g, len, m, dest, src, size)
           S == {k \in Nat : k <= count => f[k] = Copy(m, dest, src, k * size)}
<1>1. CopyStores(f, len, m, dest, src, size)
  BY CopyStoresExist
<1>2. (len + size - 1) \div size = count
  <2>1. len + size - 1 = count * size + (size - 1) /\ size - 1 \in 0 .. (size - 1)
    OBVIOUS
  <2>2. len + size - 1 \in Int
    OBVIOUS
  <2> QED
    BY <2>1, <2>2, DivMod
<1>3. CopiedBy(m, dest, src, len, size) = f[count]
  BY <1>2, CopyLoopIs
<1>4. count <= len
  <2>1. count * 1 <= count * size
    BY ProductGrows
  <2> QED
    BY <2>1
<1>5. MemorySize \in Nat
  BY StringsAssumption
<1> HIDE DEF f
<1>6. 0 \in S
  <2>1. f[0] = m
    BY <1>1 DEF CopyStores
  <2>2. 0 * size = 0
    OBVIOUS
  <2>3. Copy(m, dest, src, 0) = m
    <3>1. ASSUME NEW a \in Address PROVE Copy(m, dest, src, 0)[a] = m[a]
      BY <1>5 DEF Copy, Address
    <3>2. Copy(m, dest, src, 0) = [a \in Address |-> Copy(m, dest, src, 0)[a]]
      BY DEF Copy
    <3>3. m = [a \in Address |-> m[a]]
      OBVIOUS
    <3> QED
      BY <3>1, <3>2, <3>3
  <2> QED
    BY <2>1, <2>2, <2>3
<1>7. ASSUME NEW k \in Nat, k \in S PROVE k + 1 \in S
  <2>1. SUFFICES ASSUME k + 1 <= count PROVE f[k + 1] = Copy(m, dest, src, (k + 1) * size)
    OBVIOUS
  <2>2. f[k] = Copy(m, dest, src, k * size)
    BY <1>7, <2>1
  <2>3. f[k + 1] = CopyStore(f[k], k + 1, dest, src, size)
    <3>1. k + 1 \in 0 .. len /\ k + 1 # 0 /\ (k + 1) - 1 = k
      BY <1>4, <2>1
    <3> QED
      BY <1>1, <3>1 DEF CopyStores
  <2>4. PICK e \in Nat : e = k * size
    BY ProductGrows
  <2>5. (k + 1) * size = e + size /\ (k + 1) - 1 = k
    BY <2>4, Distributes
  <2>6. e + size <= len
    <3>1. (k + 1) * size <= count * size
      BY <2>1, ProductGrows
    <3> QED
      BY <2>5, <3>1
  <2>7. f[k + 1] = [a \in Address |->
                      IF a \in (dest + e) .. (dest + (e + size) - 1)
                      THEN f[k][src + e + (a - dest - e)]
                      ELSE f[k][a]]
    BY <2>3, <2>4, <2>5 DEF CopyStore
  <2>8. ASSUME NEW a \in Address
        PROVE  f[k + 1][a] = Copy(m, dest, src, e + size)[a]
    <3>1. a \in Nat /\ a < MemorySize
      BY <1>5 DEF Address
    <3>2. \A i \in Address :
            f[k][i] = IF i \in dest .. (dest + e - 1) THEN m[src + i - dest] ELSE m[i]
      BY <2>2, <2>4 DEF Copy
    <3>3. Copy(m, dest, src, e + size)[a]
            = IF a \in dest .. (dest + (e + size) - 1) THEN m[src + a - dest] ELSE m[a]
      BY DEF Copy
    <3>4. CASE a \in (dest + e) .. (dest + (e + size) - 1)
      <4>1. f[k + 1][a] = f[k][src + e + (a - dest - e)]
        BY <2>7, <3>4
      <4>2. PICK i \in Nat : i = src + e + (a - dest - e) /\ i = src + a - dest
        BY <3>1, <3>4
      <4>3. i \in Address /\ i \notin dest .. (dest + e - 1)
        <5>1. i < src + len /\ i >= src
          BY <2>6, <3>1, <3>4, <4>2
        <5>2. i \in Address
          BY <1>5, <5>1 DEF Address
        <5>3. dest + len <= src \/ src + len <= dest
          BY DEF Apart
        <5>4. i \notin dest .. (dest + e - 1)
          BY <2>6, <5>1, <5>3
        <5> QED
          BY <5>2, <5>4
      <4>4. f[k][i] = m[i]
        BY <3>2, <4>3
      <4>5. a \in dest .. (dest + (e + size) - 1)
        BY <3>1, <3>4
      <4> QED
        BY <3>3, <4>1, <4>2, <4>4, <4>5
    <3>5. CASE a \notin (dest + e) .. (dest + (e + size) - 1)
      <4>1. f[k + 1][a] = f[k][a]
        BY <2>7, <3>5
      <4>2. a \in dest .. (dest + (e + size) - 1) <=> a \in dest .. (dest + e - 1)
        BY <3>1, <3>5
      <4> QED
        BY <3>2, <3>3, <4>1, <4>2
    <3> QED
      BY <3>4, <3>5
  <2>9. Copy(m, dest, src, e + size) = [a \in Address |-> Copy(m, dest, src, e + size)[a]]
    BY DEF Copy
  <2>10. f[k + 1] = [a \in Address |-> f[k + 1][a]]
    BY <2>7
  <2> QED
    BY <2>5, <2>8, <2>9, <2>10
<1> HIDE DEF S
<1>8. count \in S
  BY <1>6, <1>7, SetInduction
<1> QED
  BY <1>3, <1>8 DEF S

Filling(m, dest, byte, len) ==
  [a \in Address |-> IF a \in dest .. (dest + len - 1) THEN byte ELSE m[a]]

\* Filling by words whose bytes agree, or by bytes, is filling.
LEMMA FilledByIs ==
  ASSUME NEW m \in [Address -> Int], NEW dest \in Nat, NEW byte, NEW word,
         NEW size \in Nat \ {0}, NEW count \in Nat, NEW len \in Nat, len = count * size,
         \A o \in 0 .. (size - 1) : word[o] = byte
  PROVE  FilledBy(m, dest, word, len, size) = Filling(m, dest, byte, len)
<1> DEFINE f == CHOOSE g : FillStores(g, len, m, dest, word, size)
           S == {k \in Nat : k <= count => f[k] = Filling(m, dest, byte, k * size)}
<1>1. FillStores(f, len, m, dest, word, size)
  BY FillStoresExist
<1>2. (len + size - 1) \div size = count
  <2>1. len + size - 1 = count * size + (size - 1) /\ size - 1 \in 0 .. (size - 1)
    OBVIOUS
  <2>2. len + size - 1 \in Int
    OBVIOUS
  <2> QED
    BY <2>1, <2>2, DivMod
<1>3. FilledBy(m, dest, word, len, size) = f[count]
  BY <1>2, FillLoopIs
<1>4. count <= len
  <2>1. count * 1 <= count * size
    BY ProductGrows
  <2> QED
    BY <2>1
<1>5. MemorySize \in Nat
  BY StringsAssumption
<1> HIDE DEF f
<1>6. 0 \in S
  <2>1. f[0] = m
    BY <1>1 DEF FillStores
  <2>2. 0 * size = 0
    OBVIOUS
  <2>3. Filling(m, dest, byte, 0) = m
    <3>1. ASSUME NEW a \in Address PROVE Filling(m, dest, byte, 0)[a] = m[a]
      BY <1>5 DEF Filling, Address
    <3>2. Filling(m, dest, byte, 0) = [a \in Address |-> Filling(m, dest, byte, 0)[a]]
      BY DEF Filling
    <3>3. m = [a \in Address |-> m[a]]
      OBVIOUS
    <3> QED
      BY <3>1, <3>2, <3>3
  <2> QED
    BY <2>1, <2>2, <2>3
<1>7. ASSUME NEW k \in Nat, k \in S PROVE k + 1 \in S
  <2>1. SUFFICES ASSUME k + 1 <= count PROVE f[k + 1] = Filling(m, dest, byte, (k + 1) * size)
    OBVIOUS
  <2>2. f[k] = Filling(m, dest, byte, k * size)
    BY <1>7, <2>1
  <2>3. f[k + 1] = FillStore(f[k], k + 1, dest, word, size)
    <3>1. k + 1 \in 0 .. len /\ k + 1 # 0 /\ (k + 1) - 1 = k
      BY <1>4, <2>1
    <3> QED
      BY <1>1, <3>1 DEF FillStores
  <2>4. PICK e \in Nat : e = k * size
    BY ProductGrows
  <2>5. (k + 1) * size = e + size /\ (k + 1) - 1 = k
    BY <2>4, Distributes
  <2>6. e + size <= len
    <3>1. (k + 1) * size <= count * size
      BY <2>1, ProductGrows
    <3> QED
      BY <2>5, <3>1
  <2>7. f[k + 1] = [a \in Address |->
                      IF a \in (dest + e) .. (dest + (e + size) - 1)
                      THEN word[a - dest - e]
                      ELSE f[k][a]]
    BY <2>3, <2>4, <2>5 DEF FillStore
  <2>8. ASSUME NEW a \in Address
        PROVE  f[k + 1][a] = Filling(m, dest, byte, e + size)[a]
    <3>1. a \in Nat /\ a < MemorySize
      BY <1>5 DEF Address
    <3>2. \A i \in Address :
            f[k][i] = IF i \in dest .. (dest + e - 1) THEN byte ELSE m[i]
      BY <2>2, <2>4 DEF Filling
    <3>3. Filling(m, dest, byte, e + size)[a]
            = IF a \in dest .. (dest + (e + size) - 1) THEN byte ELSE m[a]
      BY DEF Filling
    <3>4. CASE a \in (dest + e) .. (dest + (e + size) - 1)
      <4>1. f[k + 1][a] = word[a - dest - e]
        BY <2>7, <3>4
      <4>2. a - dest - e \in 0 .. (size - 1)
        BY <3>1, <3>4
      <4>3. a \in dest .. (dest + (e + size) - 1)
        BY <3>1, <3>4
      <4> QED
        BY <3>3, <4>1, <4>2, <4>3
    <3>5. CASE a \notin (dest + e) .. (dest + (e + size) - 1)
      <4>1. f[k + 1][a] = f[k][a]
        BY <2>7, <3>5
      <4>2. a \in dest .. (dest + (e + size) - 1) <=> a \in dest .. (dest + e - 1)
        BY <3>1, <3>5
      <4> QED
        BY <3>2, <3>3, <4>1, <4>2
    <3> QED
      BY <3>4, <3>5
  <2>9. Filling(m, dest, byte, e + size) = [a \in Address |-> Filling(m, dest, byte, e + size)[a]]
    BY DEF Filling
  <2>10. f[k + 1] = [a \in Address |-> f[k + 1][a]]
    BY <2>7
  <2> QED
    BY <2>5, <2>8, <2>9, <2>10
<1> HIDE DEF S
<1>8. count \in S
  BY <1>6, <1>7, SetInduction
<1> QED
  BY <1>3, <1>8 DEF S

\* The word with n bytes set has twice as many after the shift by n.
Ramp(byte, n) == [o \in 0 .. (WordSize - 1) |-> IF o < n THEN byte ELSE 0]

\* A word whose n lower bytes are set has twice as many after the shift.
LEMMA OrShiftedIs ==
  ASSUME NEW byte, NEW n \in Nat \ {0}
  PROVE  OrShifted(Ramp(byte, n), n) = Ramp(byte, 2 * n)
<1>1. WordSize \in Nat
  BY StringsAssumption
<1>2. PICK w : w = Ramp(byte, n)
  OBVIOUS
<1>3. DOMAIN w = 0 .. (WordSize - 1)
  BY <1>2 DEF Ramp
<1>4. \A o \in 0 .. (WordSize - 1) : w[o] = IF o < n THEN byte ELSE 0
  BY <1>2 DEF Ramp
<1>5. ASSUME NEW o \in 0 .. (WordSize - 1)
      PROVE  (IF o >= n /\ w[o] = 0 THEN w[o - n] ELSE w[o]) = IF o < 2 * n THEN byte ELSE 0
  <2>1. CASE o < n
    BY <1>1, <1>4, <2>1
  <2>2. CASE o >= n
    <3>1. w[o] = 0 /\ o - n \in 0 .. (WordSize - 1)
      BY <1>1, <1>4, <2>2
    <3>2. w[o - n] = IF o - n < n THEN byte ELSE 0
      BY <1>4, <3>1
    <3>3. o - n < n <=> o < 2 * n
      BY <1>1
    <3> QED
      BY <2>2, <3>1, <3>2, <3>3
  <2> QED
    BY <1>1, <2>1, <2>2
<1>6. OrShifted(w, n) = [o \in 0 .. (WordSize - 1) |-> IF o < 2 * n THEN byte ELSE 0]
  BY <1>3, <1>5 DEF OrShifted
<1> QED
  BY <1>2, <1>6 DEF Ramp

\* Three shifts set all bytes of a word of up to eight.
LEMMA WordIs ==
  ASSUME NEW byte, NEW o \in 0 .. (WordSize - 1)
  PROVE  WordOf(byte)[o] = byte
<1>1. WordSize \in {2, 4, 8}
  BY StringsAssumption
<1>2. [k \in 0 .. (WordSize - 1) |-> IF k = 0 THEN byte ELSE 0] = Ramp(byte, 1)
  BY <1>1 DEF Ramp
<1>3. \A n \in Nat \ {0} : OrShifted(Ramp(byte, n), n) = Ramp(byte, 2 * n)
  BY OrShiftedIs
<1>4. /\ OrShifted(Ramp(byte, 1), 1) = Ramp(byte, 2)
      /\ OrShifted(Ramp(byte, 2), 2) = Ramp(byte, 4)
      /\ OrShifted(Ramp(byte, 4), 4) = Ramp(byte, 8)
  <2>1. 2 * 1 = 2 /\ 2 * 2 = 4 /\ 2 * 4 = 8
    OBVIOUS
  <2> QED
    BY <1>3, <2>1
<1>5. WordOf(byte) = Ramp(byte, 8)
  BY <1>2, <1>4 DEF WordOf
<1> QED
  BY <1>1, <1>5 DEF Ramp

\* What is aligned is a number of words.
LEMMA Multiple ==
  ASSUME NEW n \in Nat, NEW m \in Nat \ {0}, n % m = 0
  PROVE  \E k \in Nat : n = k * m
<1>1. n = (n \div m) * m + (n % m) /\ n \div m \in Nat
  OBVIOUS
<1>2. PICK k \in Nat : k = n \div m
  BY <1>1
<1> QED
  BY <1>1, <1>2

\* memcpy and memset, by words or by bytes.
LEMMA memcpyIs ==
  ASSUME NEW m \in [Address -> Int], NEW p \in Address, NEW q \in Address, NEW n \in Nat,
         Inside(p, n), Inside(q, n), Apart(p, q, n)
  PROVE  memcpy(m, p, q, n) = Copy(m, p, q, n)
<1>1. MemorySize \in Nat /\ WordSize \in Nat \ {0}
  BY StringsAssumption
<1>2. p \in Nat /\ q \in Nat /\ p + n <= MemorySize /\ q + n <= MemorySize
  BY <1>1 DEF Address, Inside
<1>3. CASE Aligned({p, q, n})
  <2>1. n % WordSize = 0
    BY <1>3 DEF Aligned
  <2>2. PICK k \in Nat : n = k * WordSize
    BY <1>1, <2>1, Multiple
  <2>3. CopiedBy(m, p, q, n, WordSize) = Copy(m, p, q, n)
    BY <1>1, <1>2, <2>2, CopiedByIs
  <2> QED
    BY <1>3, <2>3 DEF memcpy
<1>4. CASE ~ Aligned({p, q, n})
  <2>1. ASSUME NEW size \in Nat \ {0}, NEW k \in Nat, n = k * size
        PROVE  CopiedBy(m, p, q, n, size) = Copy(m, p, q, n)
    BY <1>2, <2>1, CopiedByIs
  <2>2. 1 \in Nat \ {0} /\ n = n * 1
    OBVIOUS
  <2>3. CopiedBy(m, p, q, n, 1) = Copy(m, p, q, n)
    BY <2>1, <2>2
  <2> QED
    BY <1>4, <2>3 DEF memcpy
<1> QED
  BY <1>3, <1>4

LEMMA memsetIs ==
  ASSUME NEW m \in [Address -> Int], NEW p \in Address, NEW byte, NEW n \in Nat
  PROVE  memset(m, p, byte, n) = Filling(m, p, byte, n)
<1>1. WordSize \in Nat \ {0}
  BY StringsAssumption
<1>2. p \in Nat
  BY StringsAssumption DEF Address
<1>3. CASE Aligned({p, n})
  <2>1. n % WordSize = 0
    BY <1>3 DEF Aligned
  <2>2. PICK k \in Nat : n = k * WordSize
    BY <1>1, <2>1, Multiple
  <2>3. \A o \in 0 .. (WordSize - 1) : WordOf(byte)[o] = byte
    BY WordIs
  <2>4. PICK word : word = WordOf(byte)
    OBVIOUS
  <2>5. FilledBy(m, p, word, n, WordSize) = Filling(m, p, byte, n)
    BY <1>1, <1>2, <2>2, <2>3, <2>4, FilledByIs
  <2> QED
    BY <1>3, <2>4, <2>5 DEF memset
<1>4. CASE ~ Aligned({p, n})
  <2>1. PICK word : word = [o \in {0} |-> byte]
    OBVIOUS
  <2>2. ASSUME NEW size \in Nat \ {0}, NEW k \in Nat, n = k * size,
               \A o \in 0 .. (size - 1) : word[o] = byte
        PROVE  FilledBy(m, p, word, n, size) = Filling(m, p, byte, n)
    BY <1>2, <2>2, FilledByIs
  <2>3. 1 \in Nat \ {0} /\ n = n * 1 /\ \A o \in 0 .. (1 - 1) : word[o] = byte
    BY <2>1
  <2>4. FilledBy(m, p, word, n, 1) = Filling(m, p, byte, n)
    BY <2>2, <2>3
  <2> QED
    BY <1>4, <2>1, <2>4 DEF memset
<1> QED
  BY <1>3, <1>4

\* The loops that look for the first place in S below n.
LEMMA FirstExists ==
  ASSUME NEW n \in Nat, NEW S
  PROVE  \E i \in 0 .. n : (i = n \/ i \in S) /\ \A j \in 0 .. (i - 1) : j \notin S
<1> DEFINE T == {i \in Nat : i = n \/ i \in S}
<1>1. PICK i \in T : \A j \in T : i <= j
  <2>1. T # {} /\ T \in SUBSET Nat
    OBVIOUS
  <2> HIDE DEF T
  <2> QED
    BY <2>1, LeastElement
<1>2. i <= n
  BY <1>1
<1>3. ASSUME NEW j \in 0 .. (i - 1) PROVE j \notin S
  BY <1>1
<1> QED
  BY <1>1, <1>2, <1>3

\* The loop of strlen ends inside the memory, at the first zero.
LEMMA strlenIs ==
  ASSUME NEW m, NEW p \in Address, IsString(m, p)
  PROVE  \E i \in Nat : /\ i = strlen(m, p) /\ i = StringLength(m, p)
                        /\ p + i < MemorySize /\ m[p + i] = 0
                        /\ \A j \in 0 .. (i - 1) : m[p + j] # 0
<1>1. PICK size \in Nat : size = MemorySize
  BY StringsAssumption
<1>2. p \in Nat /\ p < size
  BY <1>1 DEF Address
<1>3. PICK a \in p .. (size - 1) : m[a] = 0
  BY <1>1 DEF IsString
<1> DEFINE S == {i \in Nat : m[p + i] = 0}
           Is(i) == (i = size - p \/ m[p + i] = 0) /\ \A j \in 0 .. (i - 1) : m[p + j] # 0
<1>4. PICK n \in Nat : n = size - p
  BY <1>2
<1>5. \E i \in 0 .. n : Is(i)
  <2>1. PICK i \in 0 .. n : (i = n \/ i \in S) /\ \A j \in 0 .. (i - 1) : j \notin S
    BY FirstExists
  <2> QED
    BY <1>4, <2>1
<1> DEFINE l == CHOOSE i \in 0 .. n : Is(i)
<1>6. l \in 0 .. n /\ Is(l)
  BY <1>5
<1>7. strlen(m, p) = l
  BY <1>1, <1>4 DEF strlen, First
<1> HIDE DEF l
<1>8. m[p + l] = 0 /\ l < n
  <2>1. CASE l = n
    <3>1. a - p \in 0 .. (l - 1) /\ p + (a - p) = a
      BY <1>2, <1>3, <1>4, <2>1
    <3> QED
      BY <1>3, <1>6, <3>1
  <2> QED
    BY <1>4, <1>6, <2>1
<1> DEFINE Ends(i) == m[p + i] = 0 /\ \A j \in 0 .. (i - 1) : m[p + j] # 0
<1>9. l \in 0 .. size /\ Ends(l)
  BY <1>2, <1>4, <1>6, <1>8
<1>10. ASSUME NEW i \in 0 .. size, Ends(i) PROVE i = l
  <2>1. ~ (i < l) /\ ~ (l < i)
    BY <1>9, <1>10
  <2> QED
    BY <1>9, <2>1
<1>11. StringLength(m, p) = l
  <2>1. StringLength(m, p) = CHOOSE i \in 0 .. size : Ends(i)
    BY <1>1 DEF StringLength
  <2> HIDE DEF Ends
  <2> QED
    BY <1>9, <1>10, <2>1
<1> QED
  BY <1>1, <1>2, <1>4, <1>7, <1>8, <1>9, <1>11

\* Two runs compare by the first place where they differ.
LEMMA ComparedAt ==
  ASSUME NEW m, NEW p, NEW q, NEW n \in Nat, NEW i \in 0 .. (n - 1), m[p + i] # m[q + i],
         \A j \in 0 .. (i - 1) : m[p + j] = m[q + j]
  PROVE  Comparison(m, p, q, n) = SignOf(m[p + i] - m[q + i])
<1> DEFINE S == {k \in 0 .. (n - 1) : m[p + k] # m[q + k]}
           least == CHOOSE k \in S : \A j \in S : k <= j
<1>1. i \in S /\ \A j \in S : i <= j
  <2>1. ASSUME NEW j \in S PROVE i <= j
    OBVIOUS
  <2> QED
    BY <2>1
<1>2. S \subseteq Int
  OBVIOUS
<1>3. Comparison(m, p, q, n) = SignOf(m[p + least] - m[q + least])
  <2>1. S # {}
    BY <1>1
  <2> HIDE DEF least
  <2> QED
    BY <2>1 DEF Comparison, least
<1> HIDE DEF S
<1>4. least \in S /\ \A j \in S : least <= j
  BY <1>1
<1> HIDE DEF least
<1>5. least = i
  BY <1>1, <1>2, <1>4
<1> QED
  BY <1>3, <1>5

LEMMA ComparedEqual ==
  ASSUME NEW m, NEW p, NEW q, NEW n \in Nat, \A j \in 0 .. (n - 1) : m[p + j] = m[q + j]
  PROVE  Comparison(m, p, q, n) = 0
<1>1. {k \in 0 .. (n - 1) : m[p + k] # m[q + k]} = {}
  OBVIOUS
<1> QED
  BY <1>1 DEF Comparison

WordsDiffer(m, p, q, size, k) ==
  \E o \in 0 .. (size - 1) : m[p + k * size + o] # m[q + k * size + o]

BytesDiffer(m, p, q, i) == m[p + i] # m[q + i]

\* memcmp skips the words that agree and finds the first byte behind them that
\* differs, which is the first of all.
LEMMA memcmpIs ==
  ASSUME NEW m, NEW p \in Nat, NEW q \in Nat, NEW n \in Nat
  PROVE  SignOf(memcmp(m, p, q, n)) = Comparison(m, p, q, n)
<1>1. PICK size \in Nat \ {0} : size = WordSize
  BY StringsAssumption
<1>2. PICK most \in Nat : most = n \div size /\ most * size <= n
  <2>1. n = (n \div size) * size + (n % size) /\ n \div size \in Nat /\ n % size \in Nat
    OBVIOUS
  <2>2. PICK most \in Nat : most = n \div size
    BY <2>1
  <2>3. most * size \in Nat
    BY ProductGrows
  <2> QED
    BY <2>1, <2>2, <2>3
<1> DEFINE A == {k \in Nat : WordsDiffer(m, p, q, size, k)}
           IsWords(i) == /\ i = most \/ WordsDiffer(m, p, q, size, i)
                         /\ \A j \in 0 .. (i - 1) : ~ WordsDiffer(m, p, q, size, j)
           words == IF Aligned({p, q}) THEN CHOOSE i \in 0 .. most : IsWords(i) ELSE 0
<1>3. words \in 0 .. most /\ \A j \in 0 .. (words - 1) : ~ WordsDiffer(m, p, q, size, j)
  <2>1. \E i \in 0 .. most : IsWords(i)
    <3>1. PICK i \in 0 .. most : (i = most \/ i \in A) /\ \A j \in 0 .. (i - 1) : j \notin A
      BY FirstExists
    <3>2. i = most \/ WordsDiffer(m, p, q, size, i)
      BY <3>1
    <3>3. \A j \in 0 .. (i - 1) : ~ WordsDiffer(m, p, q, size, j)
      BY <3>1
    <3> QED
      BY <3>2, <3>3
  <2>2. CASE Aligned({p, q})
    <3>1. words = CHOOSE i \in 0 .. most : IsWords(i)
      BY <2>2
    <3> HIDE DEF words
    <3>2. words \in 0 .. most /\ IsWords(words)
      <4> HIDE DEF IsWords
      <4> QED
        BY <2>1, <3>1
    <3> QED
      BY <3>2
  <2>3. CASE ~ Aligned({p, q})
    BY <2>3
  <2> QED
    BY <2>2, <2>3
<1> DEFINE done == words * size
           left == n - done
           B == {i \in Nat : BytesDiffer(m, p + done, q + done, i)}
           IsAt(i) == /\ i = left \/ BytesDiffer(m, p + done, q + done, i)
                      /\ \A j \in 0 .. (i - 1) : ~ BytesDiffer(m, p + done, q + done, j)
           at == CHOOSE i \in 0 .. left : IsAt(i)
<1>4. memcmp(m, p, q, n) = IF at = left THEN 0 ELSE m[p + done + at] - m[q + done + at]
  BY <1>1, <1>2 DEF memcmp, First, BytesFrom, WordsDiffer, BytesDiffer
<1>5. ASSUME NEW j \in 0 .. (words - 1), NEW o \in 0 .. (size - 1)
      PROVE  m[p + j * size + o] = m[q + j * size + o]
  <2>1. ~ WordsDiffer(m, p, q, size, j)
    BY <1>3
  <2> QED
    BY <2>1 DEF WordsDiffer
<1> HIDE DEF words
<1>6. done \in Nat /\ left \in Nat /\ done + left = n
  <2>1. words * size <= most * size /\ words * size \in Nat /\ most * size \in Nat
    BY <1>2, <1>3, ProductGrows
  <2> QED
    BY <1>2, <2>1
<1>7. ASSUME NEW i \in 0 .. (done - 1) PROVE m[p + i] = m[q + i]
  <2>1. i = (i \div size) * size + (i % size) /\ i \div size \in Nat /\ i % size \in 0 .. (size - 1)
    OBVIOUS
  <2>2. PICK j \in Nat, o \in 0 .. (size - 1) : j = i \div size /\ o = i % size
    BY <2>1
  <2>3. i = j * size + o /\ j * size \in Nat
    BY <2>1, <2>2, ProductGrows
  <2>4. j \in 0 .. (words - 1)
    <3>1. ASSUME words <= j PROVE FALSE
      <4>1. words * size <= j * size
        BY <1>3, <3>1, ProductGrows
      <4> QED
        BY <1>6, <2>3, <4>1
    <3> QED
      BY <1>3, <3>1
  <2>5. m[p + j * size + o] = m[q + j * size + o]
    BY <1>5, <2>4
  <2>6. p + j * size + o = p + i /\ q + j * size + o = q + i
    BY <2>3
  <2> QED
    BY <2>5, <2>6
<1> HIDE DEF done, left
<1>8. /\ at \in 0 .. left
      /\ at = left \/ m[p + done + at] # m[q + done + at]
      /\ \A j \in 0 .. (at - 1) : m[p + done + j] = m[q + done + j]
  <2>1. \E i \in 0 .. left : IsAt(i)
    <3>0. PICK S : S = B
      OBVIOUS
    <3>a. left \in Nat
      BY <1>6
    <3> HIDE DEF B
    <3>b. PICK i \in 0 .. left : (i = left \/ i \in S) /\ \A j \in 0 .. (i - 1) : j \notin S
      BY <3>a, FirstExists
    <3>1. i \in 0 .. left /\ (i = left \/ i \in B) /\ \A j \in 0 .. (i - 1) : j \notin B
      BY <3>0, <3>b
    <3> USE DEF B
    <3>2. i = left \/ BytesDiffer(m, p + done, q + done, i)
      BY <3>1
    <3>3. \A j \in 0 .. (i - 1) : ~ BytesDiffer(m, p + done, q + done, j)
      BY <3>1
    <3> QED
      BY <3>2, <3>3
  <2>2. at \in 0 .. left /\ IsAt(at)
    <3> HIDE DEF IsAt
    <3> QED
      BY <2>1
  <2> HIDE DEF at
  <2> QED
    BY <2>2 DEF BytesDiffer
<1> HIDE DEF at
<1>9. ASSUME NEW i \in 0 .. (done + at - 1) PROVE m[p + i] = m[q + i]
  <2>1. CASE i < done
    BY <1>6, <1>7, <2>1
  <2>2. CASE i >= done
    <3>1. i - done \in 0 .. (at - 1)
      BY <1>6, <1>8, <2>2
    <3>2. m[p + done + (i - done)] = m[q + done + (i - done)]
      BY <1>8, <3>1
    <3>3. p + done + (i - done) = p + i /\ q + done + (i - done) = q + i
      BY <1>6
    <3> QED
      BY <3>2, <3>3
  <2> QED
    BY <1>6, <2>1, <2>2
<1>10. CASE at = left
  <2>1. \A j \in 0 .. (n - 1) : m[p + j] = m[q + j]
    BY <1>6, <1>9, <1>10
  <2>2. Comparison(m, p, q, n) = 0
    BY <2>1, ComparedEqual
  <2>3. memcmp(m, p, q, n) = 0
    BY <1>4, <1>10
  <2> QED
    BY <2>2, <2>3 DEF SignOf
<1>11. CASE at # left
  <2>1. PICK i \in 0 .. (n - 1) : i = done + at
    BY <1>6, <1>8, <1>11
  <2>2. p + done + at = p + i /\ q + done + at = q + i
    BY <1>6, <1>8, <2>1
  <2>3. m[p + i] # m[q + i]
    BY <1>8, <1>11, <2>2
  <2>4. ASSUME NEW j \in 0 .. (i - 1) PROVE m[p + j] = m[q + j]
    <3>1. j \in 0 .. (done + at - 1)
      BY <1>6, <1>8, <2>1
    <3> QED
      BY <1>9, <3>1
  <2>5. \A j \in 0 .. (i - 1) : m[p + j] = m[q + j]
    BY <2>4
  <2>6. Comparison(m, p, q, n) = SignOf(m[p + i] - m[q + i])
    BY <2>1, <2>3, <2>5, ComparedAt
  <2> QED
    BY <1>4, <1>11, <2>2, <2>6
<1> QED
  BY <1>10, <1>11

\* strcmp stops at the first zero or difference, which is no later than the zero of
\* the shorter string.
LEMMA strcmpIs ==
  ASSUME NEW m \in [Address -> Int], NEW p \in Address, NEW q \in Address,
         IsString(m, p), IsString(m, q)
  PROVE  LET a == StringLength(m, p)
             b == StringLength(m, q)
         IN SignOf(strcmp(m, p, q)) = Comparison(m, p, q, 1 + IF a < b THEN a ELSE b)
<1>1. PICK size \in Nat : size = MemorySize
  BY StringsAssumption
<1>2. p \in Nat /\ q \in Nat
  BY <1>1 DEF Address
<1>3. PICK a \in Nat : /\ a = StringLength(m, p) /\ p + a < size /\ m[p + a] = 0
                       /\ \A j \in 0 .. (a - 1) : m[p + j] # 0
  BY <1>1, strlenIs
<1>4. PICK b \in Nat : /\ b = StringLength(m, q) /\ q + b < size /\ m[q + b] = 0
                       /\ \A j \in 0 .. (b - 1) : m[q + j] # 0
  BY <1>1, strlenIs
<1>5. PICK least \in Nat : least = (IF a < b THEN a ELSE b) /\ least <= a /\ least <= b
                           /\ least \in {a, b}
  OBVIOUS
<1> DEFINE Ends(i) == m[p + i] = 0 \/ m[p + i] # m[q + i]
           S == {i \in Nat : Ends(i)}
           IsAt(i) == (i = size \/ Ends(i)) /\ \A j \in 0 .. (i - 1) : ~ Ends(j)
           at == CHOOSE i \in 0 .. size : IsAt(i)
<1>6. at \in 0 .. size /\ IsAt(at)
  <2>1. \E i \in 0 .. size : IsAt(i)
    <3>1. PICK i \in 0 .. size : (i = size \/ i \in S) /\ \A j \in 0 .. (i - 1) : j \notin S
      BY FirstExists
    <3> QED
      BY <3>1
  <2> HIDE DEF IsAt
  <2> QED
    BY <2>1
<1>7. strcmp(m, p, q) = m[p + at] - m[q + at]
  BY <1>1 DEF strcmp, First
<1> HIDE DEF at
<1>8. Ends(least)
  <2>1. CASE least = a
    BY <1>3, <2>1
  <2>2. CASE least = b /\ least # a
    <3>1. b \in 0 .. (a - 1)
      BY <1>5, <2>2
    <3> QED
      BY <1>3, <1>4, <2>2, <3>1
  <2> QED
    BY <1>5, <2>1, <2>2
<1>9. at <= least /\ Ends(at)
  <2>1. ~ (least < at)
    <3>1. ASSUME least < at PROVE least \in 0 .. (at - 1)
      BY <1>6, <3>1
    <3> QED
      BY <1>6, <1>8, <3>1
  <2>2. at # size
    BY <1>1, <1>2, <1>3, <1>5, <1>6, <2>1
  <2> QED
    BY <1>6, <2>1, <2>2
<1>10. \A j \in 0 .. (at - 1) : m[p + j] = m[q + j]
  BY <1>6
<1>11. CASE m[p + at] # m[q + at]
  <2>1. at \in 0 .. (1 + least - 1) /\ 1 + least \in Nat
    BY <1>6, <1>9
  <2>2. Comparison(m, p, q, 1 + least) = SignOf(m[p + at] - m[q + at])
    BY <1>10, <1>11, <2>1, ComparedAt
  <2> QED
    BY <1>3, <1>4, <1>5, <1>7, <2>2
<1>12. CASE m[p + at] = m[q + at]
  <2>1. m[p + at] = 0 /\ m[q + at] = 0
    BY <1>9, <1>12
  <2>2. at = least
    <3>1. ~ (at < least)
      <4>1. ASSUME at < least PROVE at \in 0 .. (a - 1)
        BY <1>5, <1>6, <4>1
      <4> QED
        BY <1>3, <2>1, <4>1
    <3> QED
      BY <1>6, <1>9, <3>1
  <2>3. \A j \in 0 .. (1 + least - 1) : m[p + j] = m[q + j]
    <3>1. ASSUME NEW j \in 0 .. (1 + least - 1) PROVE j \in 0 .. (at - 1) \/ j = at
      BY <1>6, <2>2
    <3> QED
      BY <1>10, <1>12, <3>1
  <2>4. Comparison(m, p, q, 1 + least) = 0
    <3>1. 1 + least \in Nat
      OBVIOUS
    <3> QED
      BY <2>3, <3>1, ComparedEqual
  <2>5. SignOf(strcmp(m, p, q)) = 0
    BY <1>7, <2>1 DEF SignOf
  <2> QED
    BY <1>3, <1>4, <1>5, <2>4, <2>5
<1> QED
  BY <1>11, <1>12

\* strcpy copies up to the zero, that one included.
LEMMA strcpyIs ==
  ASSUME NEW m \in [Address -> Int], NEW p \in Address, NEW q \in Address,
         IsString(m, q), Inside(p, strlen(m, q) + 1), Apart(p, q, strlen(m, q) + 1)
  PROVE  strcpy(m, p, q) = Copy(m, p, q, StringLength(m, q) + 1)
<1>1. PICK size \in Nat : size = MemorySize
  BY StringsAssumption
<1>2. p \in Nat /\ q \in Nat
  BY <1>1 DEF Address
<1>3. PICK a \in Nat : a = strlen(m, q) /\ a = StringLength(m, q) /\ q + a < size
  BY <1>1, strlenIs
<1>4. PICK len \in Nat : len = a + 1
  OBVIOUS
<1>5. p + len <= MemorySize /\ q + len <= MemorySize /\ Apart(p, q, len)
  <2>1. p + len <= MemorySize
    BY <1>3, <1>4 DEF Inside
  <2>2. q + len <= MemorySize
    BY <1>1, <1>2, <1>3, <1>4
  <2> QED
    BY <1>3, <1>4, <2>1, <2>2
<1>6. ASSUME NEW one \in Nat \ {0}, one = 1
      PROVE  CopiedBy(m, p, q, len, one) = Copy(m, p, q, len)
  <2>1. len = len * one
    BY <1>6
  <2>2. m \in [Address -> Int] /\ p \in Nat /\ q \in Nat /\ len \in Nat /\ one \in Nat \ {0}
    BY <1>2, <1>4, <1>6
  <2>3. \A count \in Nat : len = count * one => CopiedBy(m, p, q, len, one) = Copy(m, p, q, len)
    BY ONLY <1>5, <2>2, CopiedByIs
  <2> QED
    BY <2>1, <2>2, <2>3
<1>7. CopiedBy(m, p, q, len, 1) = Copy(m, p, q, len)
  BY <1>6
<1> QED
  BY <1>3, <1>4, <1>7 DEF strcpy

(***************************************************************************)
(* Wherever its operands lie, each function of string.c leaves the memory  *)
(* and the result that the C library promises: going by words changes no   *)
(* result and touches no byte outside.                                     *)
(***************************************************************************)
THEOREM StringsCorrect == StrSpec => []StringsExact
<1>1. StrIdle => StringsExact
  BY DEF StrIdle, StringsExact, NoCall
<1>2. ASSUME StringsExact, [StrNext]_strVars PROVE StringsExact'
  <2>1. ASSUME NEW m \in Memories, NEW fn \in Function, NEW p \in Address,
               NEW q \in Address \cup Bytes, NEW n \in 0 .. Length, Calls(m, fn, p, q, n)
        PROVE  StringsExact'
    <3>1. m \in [Address -> Int]
      <4>1. m \in [Address -> 0 .. 255]
        BY StringsAssumption DEF Address
      <4> QED
        BY <4>1
    <3>2. n \in Nat
      BY StringsAssumption
    <3>3. before' = m /\ call' = [fn |-> fn, p |-> p, q |-> q, n |-> n]
      BY <2>1 DEF Calls
    <3>4. CASE fn = "memcpy"
      <4>1. Inside(p, n) /\ Inside(q, n) /\ Apart(p, q, n) /\ after' = memcpy(m, p, q, n)
        BY <2>1, <3>4 DEF Calls
      <4>2. q \in Address
        BY <4>1 DEF Inside
      <4>3. after' = Copy(m, p, q, n)
        BY <3>1, <3>2, <4>1, <4>2, memcpyIs
      <4> QED
        BY <3>3, <3>4, <4>3 DEF StringsExact
    <3>5. CASE fn = "memset"
      <4>1. after' = memset(m, p, q, n)
        BY <2>1, <3>5 DEF Calls
      <4>2. after' = Filling(m, p, q, n)
        BY <3>1, <3>2, <4>1, memsetIs
      <4> QED
        BY <3>3, <3>5, <4>2 DEF StringsExact, Filling
    <3>6. CASE fn = "memcmp"
      <4>1. Inside(q, n) /\ returned' = memcmp(m, p, q, n)
        BY <2>1, <3>6 DEF Calls
      <4>2. p \in Nat /\ q \in Nat
        BY <4>1, StringsAssumption DEF Inside, Address
      <4>3. SignOf(memcmp(m, p, q, n)) = Comparison(m, p, q, n)
        BY <3>2, <4>2, memcmpIs
      <4> QED
        BY <3>3, <3>6, <4>1, <4>3 DEF StringsExact
    <3>7. CASE fn = "strlen"
      <4>1. IsString(m, p) /\ returned' = strlen(m, p)
        BY <2>1, <3>7 DEF Calls
      <4>2. returned' = StringLength(m, p)
        BY <4>1, strlenIs
      <4> QED
        BY <3>3, <3>7, <4>2 DEF StringsExact
    <3>8. CASE fn = "strcmp"
      <4>1. IsString(m, p) /\ IsString(m, q) /\ returned' = strcmp(m, p, q)
        BY <2>1, <3>8 DEF Calls
      <4>2. q \in Address
        BY <4>1 DEF IsString
      <4>3. SignOf(returned') =
              Comparison(m, p, q, 1 + IF StringLength(m, p) < StringLength(m, q)
                                      THEN StringLength(m, p) ELSE StringLength(m, q))
        BY <3>1, <4>1, <4>2, strcmpIs
      <4> QED
        BY <3>3, <3>8, <4>3 DEF StringsExact
    <3>9. CASE fn = "strcpy"
      <4>1. /\ IsString(m, q) /\ Inside(p, strlen(m, q) + 1)
            /\ Apart(p, q, strlen(m, q) + 1) /\ after' = strcpy(m, p, q)
        BY <2>1, <3>9 DEF Calls
      <4>2. q \in Address
        BY <4>1 DEF IsString
      <4>3. after' = Copy(m, p, q, StringLength(m, q) + 1)
        BY <3>1, <4>1, <4>2, strcpyIs
      <4> QED
        BY <3>3, <3>9, <4>3 DEF StringsExact
    <3> QED
      BY <3>4, <3>5, <3>6, <3>7, <3>8, <3>9 DEF Function
  <2>2. CASE Return
    BY <2>2 DEF Return, StringsExact, NoCall
  <2>3. CASE UNCHANGED strVars
    BY <1>2, <2>3 DEF strVars, StringsExact
  <2> QED
    BY <1>2, <2>1, <2>2, <2>3 DEF StrNext
<1> QED
  BY <1>1, <1>2, PTL DEF StrSpec

=============================================================================
