--------------------------- MODULE DivisionLemmas ---------------------------
(***************************************************************************)
(* Facts about division, remainders and minima of sets of naturals that    *)
(* the proofs of the components rest on.                                   *)
(***************************************************************************)
EXTENDS Integers, WellFoundedInduction, TLAPS

\* A remainder is in range.
LEMMA ModRange ==
  ASSUME NEW n \in Int, NEW N \in Nat \ {0}
  PROVE  n % N \in 0 .. N - 1
  OBVIOUS

\* Euclidean division.
LEMMA DivMod ==
  ASSUME NEW n \in Int, NEW N \in Nat \ {0}
  PROVE  n \div N \in Int /\ n = (N * (n \div N)) + (n % N)
  OBVIOUS

\* Quotient and remainder are unique.
LEMMA ModUnique ==
  ASSUME NEW n \in Int, NEW N \in Nat \ {0}, NEW q \in Int, NEW r \in 0 .. N - 1,
         n = (N * q) + r
  PROVE  n % N = r
  OBVIOUS

\* Multiples of the divisor do not change a remainder.
LEMMA ModShift ==
  ASSUME NEW n \in Int, NEW N \in Nat \ {0}, NEW t \in Int
  PROVE  (n + (N * t)) % N = n % N
  <1> DEFINE q == n \div N
             r == n % N
  <1>1. q \in Int /\ r \in 0 .. N - 1 /\ n = (N * q) + r
    BY ModRange, DivMod
  <1> HIDE DEF q, r
  <1>2. q + t \in Int /\ n + (N * t) \in Int /\ n + (N * t) = (N * (q + t)) + r
    BY <1>1
  <1>3. (n + (N * t)) % N = r
    BY <1>1, <1>2, ModUnique
  <1> QED
    BY <1>3 DEF r

\* Counting modulo N.
LEMMA ModSucc ==
  ASSUME NEW n \in Int, NEW N \in Nat \ {0}
  PROVE  ((n % N) + 1) % N = (n + 1) % N
  <1> DEFINE q == n \div N
             r == n % N
  <1>1. q \in Int /\ r \in 0 .. N - 1 /\ n = (N * q) + r
    BY ModRange, DivMod
  <1> HIDE DEF q, r
  <1>2. r + 1 \in Int /\ n + 1 = (r + 1) + (N * q)
    BY <1>1
  <1>3. (n + 1) % N = (r + 1) % N
    BY <1>1, <1>2, ModShift
  <1> QED
    BY <1>3 DEF r

LEMMA ModAdd ==
  ASSUME NEW n \in Int, NEW N \in Nat \ {0}, NEW k \in Int
  PROVE  ((n % N) + k) % N = (n + k) % N
  <1> DEFINE q == n \div N
             r == n % N
  <1>1. q \in Int /\ r \in 0 .. N - 1 /\ n = (N * q) + r
    BY ModRange, DivMod
  <1> HIDE DEF q, r
  <1> DEFINE m == r + k
  <1>2. m \in Int /\ n + k = m + (N * q)
    BY <1>1
  <1> HIDE DEF m
  <1>3. (m + (N * q)) % N = m % N
    BY <1>1, <1>2, ModShift
  <1>4. (n + k) % N = m % N
    BY <1>2, <1>3
  <1> QED
    BY <1>4 DEF r, m

\* A number in range is its own remainder.
LEMMA ModSmall ==
  ASSUME NEW N \in Nat \ {0}, NEW n \in 0 .. N - 1
  PROVE  n % N = n
  <1>1. n = (N * 0) + n
    OBVIOUS
  <1> QED
    BY <1>1, ModUnique

\* The distance of two numbers less than N apart, from their remainders.
LEMMA ModDistance ==
  ASSUME NEW a \in Int, NEW b \in Int, NEW N \in Nat \ {0}, a <= b, b - a < N
  PROVE  ((b % N) - (a % N)) % N = b - a
  <1> DEFINE q == a \div N
             r == a % N
             s == b \div N
             u == b % N
  <1>1. q \in Int /\ r \in 0 .. N - 1 /\ a = (N * q) + r
    BY ModRange, DivMod
  <1>2. s \in Int /\ u \in 0 .. N - 1 /\ b = (N * s) + u
    BY ModRange, DivMod
  <1> HIDE DEF q, r, s, u
  <1> DEFINE t == q - s
             d == b - a
  <1>3. t \in Int /\ d \in 0 .. N - 1 /\ u - r = d + (N * t)
    BY <1>1, <1>2
  <1> HIDE DEF t, d
  <1>4. (d + (N * t)) % N = d % N
    BY <1>3, ModShift
  <1>5. d % N = d
    BY <1>3, ModSmall
  <1>6. (u - r) % N = d
    BY <1>3, <1>4, <1>5
  <1> QED
    BY <1>6 DEF r, u, d

\* Numbers less than N apart are told apart by their remainders.
LEMMA ModInjective ==
  ASSUME NEW a \in Int, NEW b \in Int, NEW N \in Nat \ {0},
         a <= b, b - a < N, a % N = b % N
  PROVE  a = b
  <1> DEFINE q == a \div N
             r == a % N
             s == b \div N
  <1>1. q \in Int /\ r \in 0 .. N - 1 /\ a = (N * q) + r
    BY ModRange, DivMod
  <1>2. s \in Int /\ b = (N * s) + r
    BY ModRange, DivMod
  <1> HIDE DEF q, r, s
  <1>3. s - q \in Int /\ b - a = N * (s - q)
    BY <1>1, <1>2
  <1>4. ~(s - q >= 1) /\ ~(s - q <= -1)
    BY <1>3
  <1> QED
    BY <1>1, <1>2, <1>3, <1>4

\* Remainders for a multiple of N determine the remainders for N.
LEMMA ModOfMultiple ==
  ASSUME NEW n \in Int, NEW N \in Nat \ {0}, NEW R \in Nat \ {0}
  PROVE  (n % (N * R)) % N = n % N
  <1> DEFINE M == N * R
             q == n \div M
             r == n % M
  <1>1. M \in Nat \ {0}
    OBVIOUS
  <1>2. q \in Int /\ r \in 0 .. M - 1 /\ n = (M * q) + r
    BY <1>1, ModRange, DivMod
  <1> HIDE DEF q, r
  <1>3. R * q \in Int /\ r \in Int /\ (N * R) * q = N * (R * q)
    BY <1>1, <1>2
  <1>4. (r + (N * (R * q))) % N = r % N
    BY <1>3, ModShift
  <1>5. n = r + (N * (R * q))
    BY <1>1, <1>2, <1>3
  <1> QED
    BY <1>4, <1>5 DEF r

\* A set of naturals that is not empty has a least element.
LEMMA LeastElement ==
  ASSUME NEW S, S \subseteq Nat, S # {}
  PROVE  \E x \in S : \A y \in S : x <= y
  <1> DEFINE R == OpToRel(<, Nat)
  <1>1. IsWellFoundedOn(R, Nat)
    BY NatLessThanWellFounded
  <1> HIDE DEF R
  <1>2. \E x \in S : \A y \in S : ~(<<y, x>> \in R)
    BY <1>1, WFMin
  <1>3. \A x, y \in Nat : <<y, x>> \notin R => x <= y
    BY DEF R, OpToRel
  <1>4. PICK x \in S : \A y \in S : ~(<<y, x>> \in R)
    BY <1>2
  <1>5. \A y \in S : x <= y
    BY <1>3, <1>4
  <1> QED
    BY <1>5
=============================================================================
