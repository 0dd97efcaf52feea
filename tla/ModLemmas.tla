------------------------------- MODULE ModLemmas -------------------------------
(* Facts about the remainder of integers, for the counters and ring        *)
(* indices of the C++ code that wrap around.                               *)
EXTENDS Integers, TLAPS

\* A positive multiple of a natural number is at least that number.
LEMMA MulGe ==
  ASSUME NEW n \in Nat, NEW d \in Int, d >= 1
  PROVE  d * n >= n
<1>1. d * n = (d - 1) * n + n
  OBVIOUS
<1>2. (d - 1) * n >= 0
  OBVIOUS
<1> QED
  BY <1>1, <1>2

\* The remainder is the only number of 0 .. n-1 that differs from x by a
\* multiple of n.
LEMMA ModUnique ==
  ASSUME NEW n \in Nat, n > 0, NEW x \in Int, NEW q \in Int, NEW r \in 0 .. n - 1,
         x = q * n + r
  PROVE  x % n = r
<1> DEFINE q0 == x \div n
           r0 == x % n
<1>1. q0 \in Int /\ r0 \in 0 .. n - 1 /\ x = q0 * n + r0
  OBVIOUS
<1> HIDE DEF q0, r0
<1>2. q * n \in Int /\ q0 * n \in Int
  BY <1>1
<1>3. ASSUME q - q0 >= 1 PROVE FALSE
  <2>1. (q - q0) * n >= n
    BY <1>1, <1>3, MulGe
  <2>2. (q - q0) * n = q * n - q0 * n
    BY <1>1
  <2> QED
    BY <1>1, <1>2, <2>1, <2>2
<1>4. ASSUME q0 - q >= 1 PROVE FALSE
  <2>1. (q0 - q) * n >= n
    BY <1>1, <1>4, MulGe
  <2>2. (q0 - q) * n = q0 * n - q * n
    BY <1>1
  <2> QED
    BY <1>1, <1>2, <2>1, <2>2
<1>5. q = q0
  BY <1>1, <1>3, <1>4
<1> QED
  BY <1>1, <1>5 DEF r0

\* Adding a multiple of n leaves the remainder as it is.
LEMMA ModAddMul ==
  ASSUME NEW n \in Nat, n > 0, NEW x \in Int, NEW k \in Int
  PROVE  (x + k * n) % n = x % n
<1> DEFINE q == x \div n
           r == x % n
<1>1. q \in Int /\ r \in 0 .. n - 1 /\ x = q * n + r
  OBVIOUS
<1> HIDE DEF q, r
<1>2. x + k * n = (q + k) * n + r /\ x + k * n \in Int
  BY <1>1
<1>3. (x + k * n) % n = r
  BY <1>1, <1>2, ModUnique
<1> QED
  BY <1>3 DEF r

\* Two different numbers less than n apart have different remainders.
LEMMA ModDistinct ==
  ASSUME NEW n \in Nat, n > 0, NEW x \in Int, NEW y \in Int, x < y, y < x + n
  PROVE  x % n # y % n
<1> DEFINE q == x \div n
           r == x % n
           s == y - q * n
           q1 == q + 1
           t == y - q1 * n
<1>1. q \in Int /\ r \in 0 .. n - 1 /\ x = q * n + r
  OBVIOUS
<1>2. /\ q * n \in Int /\ q1 * n = q * n + n
      /\ q1 \in Int /\ s \in Int /\ t \in Int
      /\ y = q * n + s /\ y = q1 * n + t /\ t = s - n
  BY <1>1
<1>3. q1 \in Int /\ y = q1 * n + t
  BY <1>2
<1> HIDE DEF q, q1, r, s, t
<1>4. CASE s < n
  <2>1. s \in 0 .. n - 1 /\ s > r
    BY <1>1, <1>2, <1>4
  <2>2. y % n = s
    BY <1>1, <1>2, <2>1, ModUnique
  <2> QED
    BY <1>1, <2>1, <2>2 DEF r
<1>5. CASE s >= n
  <2>1. t \in 0 .. n - 1 /\ t < r
    BY <1>1, <1>2, <1>5
  <2>2. y % n = t
    BY <1>3, <2>1, ModUnique
  <2> QED
    BY <1>1, <2>1, <2>2 DEF r
<1> QED
  BY <1>2, <1>4, <1>5

\* The remainder of a number that is less than n away from 0 .. n-1.
LEMMA ModNear ==
  ASSUME NEW n \in Nat, n > 0, NEW x \in Int, -n <= x, x < 2 * n
  PROVE  /\ x % n \in 0 .. n - 1
         /\ x < 0 => x % n = x + n
         /\ (0 <= x /\ x < n) => x % n = x
         /\ n <= x => x % n = x - n
  OBVIOUS
================================================================================
