------------------------- MODULE MMRForest_proofs -------------------------
(***************************************************************************)
(* The Merkle Mountain Range of src/state/mod.rs is its forest of perfect  *)
(* trees, for any number of leaves.                                        *)
(*                                                                         *)
(* The argument is about binary numbers.  Over n leaves there are n >> h   *)
(* nodes of height h, and a peak of height h when that bit of n is set.    *)
(* Adding a leaf is adding one to n: the carry runs through the trailing   *)
(* ones, merges one peak for each, and numbers the nodes it creates on     *)
(* from the count before.  From this follow a node's position in           *)
(* post-order, 2 * (its last leaf) less the ones of its number, what       *)
(* add_leaf and a batch build, and what get_mmr_proof_metadata finds by    *)
(* adding tree sizes on its way up.  The ways down are in MMRPaths_proofs. *)
(***************************************************************************)
EXTENDS MMRForest, MMR_proofs, FiniteSetTheorems

-----------------------------------------------------------------------------
(* Powers of two and shifts.                                               *)

(* What Pow2 has to satisfy, as far as n.                                  *)
Doubling(g, n) == \A i \in 0..n : g[i] = IF i = 0 THEN 1 ELSE 2 * g[i - 1]

(* There is a function that doubles n times.                               *)
LEMMA DoublingUpTo ==
  ASSUME NEW n \in Nat
  PROVE  \E g : Doubling(g, n)
<1> DEFINE Bad == {m \in Nat : ~\E g : Doubling(g, m)}
<1> SUFFICES ASSUME Bad # {} PROVE FALSE
  BY Zenon
<1>1. PICK m \in Bad : \A j \in Bad : m <= j
  BY LeastNatural, Zenon
<1>2. m # 0
  <2> DEFINE f == [i \in 0..0 |-> 1]
  <2>1. \A i \in 0..0 : f[i] = IF i = 0 THEN 1 ELSE 2 * f[i - 1]
    OBVIOUS
  <2> QED
    BY <1>1, <2>1, Zenon DEF Doubling
<1>3. m - 1 \in Nat /\ m - 1 \notin Bad
  BY <1>1, <1>2
<1>4. PICK f : Doubling(f, m - 1)
  BY <1>3, Zenon
<1> DEFINE g == [i \in 0..m |-> IF i = m THEN 2 * f[m - 1] ELSE f[i]]
<1>5. \A i \in 0..(m - 1) : f[i] = IF i = 0 THEN 1 ELSE 2 * f[i - 1]
  BY <1>4, Zenon DEF Doubling
<1>6. \A i \in 0..m : g[i] = IF i = 0 THEN 1 ELSE 2 * g[i - 1]
  BY <1>1, <1>2, <1>3, <1>5
<1>7. Doubling(g, m)
  BY <1>6, Zenon DEF Doubling
<1> QED
  BY <1>1, <1>7, Zenon

(* Two functions that double agree where both are defined.                 *)
LEMMA DoublingAgree ==
  ASSUME NEW m \in Nat, NEW n \in Nat, m <= n, NEW g, NEW h, Doubling(g, n), Doubling(h, m)
  PROVE  g[m] = h[m]
<1> DEFINE Bad == {i \in 0..m : g[i] # h[i]}
<1>1. \A i \in 0..m : i \in 0..n
  OBVIOUS
<1>2. ASSUME Bad # {} PROVE FALSE
  <2>1. PICK i \in Bad : \A j \in Bad : i <= j
    <3>1. Bad \in SUBSET Nat
      OBVIOUS
    <3> QED
      BY <1>2, <3>1, LeastNatural, Zenon
  <2>2. i # 0 => i - 1 \in 0..m /\ i - 1 \notin Bad
    BY <2>1
  <2>3. i # 0 => g[i - 1] = h[i - 1]
    BY <2>2, Zenon
  <2> QED
    BY <1>1, <2>1, <2>3, Zenon DEF Doubling
<1>3. m \in 0..m
  OBVIOUS
<1> QED
  BY <1>2, <1>3, Zenon

(* So Pow2 is what its definition says: 1 << n of the code.                *)
LEMMA Pow2Is ==
  ASSUME NEW n \in Nat
  PROVE  Pow2[n] = IF n = 0 THEN 1 ELSE 2 * Pow2[n - 1]
<1> DEFINE G(m) == CHOOSE g : Doubling(g, m)
           F == [m \in Nat |-> G(m)[m]]
<1>1. \A m \in Nat : Doubling(G(m), m)
  BY DoublingUpTo, Zenon
<1> HIDE DEF G
<1>2. ASSUME NEW m \in Nat PROVE F[m] = IF m = 0 THEN 1 ELSE 2 * F[m - 1]
  <2>1. m \in 0..m /\ (m # 0 => m - 1 \in Nat /\ m - 1 <= m)
    OBVIOUS
  <2>2. G(m)[m] = IF m = 0 THEN 1 ELSE 2 * G(m)[m - 1]
    BY <1>1, <2>1, Zenon DEF Doubling
  <2>3. ASSUME NEW k \in Nat, k <= m PROVE G(m)[k] = G(k)[k]
    BY <1>1, <2>3, DoublingAgree, Zenon
  <2> QED
    BY <2>1, <2>2, <2>3, Zenon
<1> HIDE DEF F
<1>3. F = [m \in Nat |-> IF m = 0 THEN 1 ELSE 2 * F[m - 1]]
  <2>1. F = [m \in Nat |-> F[m]]
    BY Zenon DEF F
  <2> QED
    BY <1>2, <2>1, Zenon
<1>4. PICK f : f = Pow2
  BY Zenon
<1>5. f = [m \in Nat |-> IF m = 0 THEN 1 ELSE 2 * f[m - 1]]
  BY <1>3, <1>4, Zenon DEF Pow2
<1>6. f[n] = IF n = 0 THEN 1 ELSE 2 * f[n - 1]
  BY <1>5, Zenon
<1> QED
  BY <1>4, <1>6, Zenon

(* 2^h is positive, and more than h.                                       *)
LEMMA Pow2Type ==
  ASSUME NEW h \in Nat
  PROVE  Pow2[h] \in Nat \ {0} /\ h < Pow2[h]
<1> DEFINE Bad == {m \in Nat : ~(Pow2[m] \in Nat \ {0} /\ m < Pow2[m])}
<1> SUFFICES ASSUME Bad # {} PROVE FALSE
  BY Zenon
<1>1. PICK m \in Bad : \A j \in Bad : m <= j
  BY LeastNatural, Zenon
<1>2. Pow2[m] = IF m = 0 THEN 1 ELSE 2 * Pow2[m - 1]
  BY <1>1, Pow2Is, Zenon
<1>3. m # 0 => m - 1 \in Nat /\ m - 1 \notin Bad
  BY <1>1
<1>4. m # 0 => Pow2[m - 1] \in Nat \ {0} /\ m - 1 < Pow2[m - 1]
  BY <1>3, Zenon
<1>5. Pow2[m] \in Nat \ {0} /\ m < Pow2[m]
  BY <1>1, <1>2, <1>4
<1> QED
  BY <1>1, <1>5, Zenon

(* The same, with the next power.                                          *)
LEMMA Pow2Next ==
  ASSUME NEW h \in Nat
  PROVE  /\ Pow2[0] = 1
         /\ Pow2[h] \in Nat \ {0} /\ Pow2[h + 1] \in Nat \ {0}
         /\ h < Pow2[h]
         /\ Pow2[h + 1] = 2 * Pow2[h]
<1>1. h + 1 \in Nat /\ h + 1 # 0 /\ (h + 1) - 1 = h /\ 0 \in Nat
  OBVIOUS
<1>2. Pow2[0] = 1
  BY <1>1, Pow2Is, Zenon
<1>3. Pow2[h + 1] = 2 * Pow2[h]
  BY <1>1, Pow2Is, Zenon
<1> QED
  BY <1>1, <1>2, <1>3, Pow2Type, Zenon

(* h -> 2^h grows: 2^(h+1) is at most 2^k for any k above h.               *)
LEMMA Pow2Grows ==
  ASSUME NEW h \in Nat, NEW k \in Nat, h < k
  PROVE  2 * Pow2[h] <= Pow2[k]
<1> DEFINE Bad == {m \in Nat : h < m /\ ~(2 * Pow2[h] <= Pow2[m])}
<1> SUFFICES ASSUME Bad # {} PROVE FALSE
  BY Zenon
<1>1. PICK m \in Bad : \A j \in Bad : m <= j
  BY LeastNatural, Zenon
<1>2. m - 1 \in Nat /\ m - 1 \notin Bad /\ (m - 1) + 1 = m /\ h <= m - 1
  BY <1>1
<1>3. Pow2[m] = 2 * Pow2[m - 1] /\ Pow2[m - 1] \in Nat
  BY <1>2, Pow2Next, Zenon
<1>4. Pow2[h] \in Nat
  BY Pow2Next, Zenon
<1>5. m - 1 = h \/ 2 * Pow2[h] <= Pow2[m - 1]
  BY <1>2
<1>6. 2 * Pow2[h] <= Pow2[m]
  BY <1>3, <1>4, <1>5
<1> QED
  BY <1>1, <1>6, Zenon

(* Division with remainder has one quotient.                               *)
LEMMA Quotient ==
  ASSUME NEW n \in Nat, NEW q \in Nat \ {0}, NEW d \in Nat, NEW r \in Nat,
         n = d * q + r, r < q
  PROVE  n \div q = d
OBVIOUS

(* What n >> h is: the quotient, with a remainder below 2^h.               *)
LEMMA ShrIs ==
  ASSUME NEW n \in Nat, NEW h \in Nat
  PROVE  /\ Shr(n, h) \in Nat
         /\ Shr(n, h) * Pow2[h] <= n
         /\ n < Shr(n, h) * Pow2[h] + Pow2[h]
<1>1. Pow2[h] \in Nat \ {0}
  BY Pow2Next, Zenon
<1>2. ASSUME NEW q \in Nat \ {0} PROVE n \div q \in Nat /\ (n \div q) * q <= n /\ n < (n \div q) * q + q
  OBVIOUS
<1> QED
  BY <1>1, <1>2, Zenon DEF Shr

(* Shifting by nothing changes nothing.                                    *)
LEMMA ShrZero ==
  ASSUME NEW n \in Nat
  PROVE  Shr(n, 0) = n
<1>1. Pow2[0] = 1
  BY Pow2Next, Zenon
<1> QED
  BY <1>1 DEF Shr

(* One more shift halves.                                                  *)
LEMMA ShrNext ==
  ASSUME NEW n \in Nat, NEW h \in Nat
  PROVE  Shr(n, h + 1) = Shr(n, h) \div 2
<1> DEFINE q == Pow2[h]
           x == Shr(n, h)
           y == x \div 2
<1>1. q \in Nat \ {0} /\ Pow2[h + 1] = 2 * q
  BY Pow2Next, Zenon
<1>2. x \in Nat /\ x * q <= n /\ n < x * q + q
  BY ShrIs, Zenon
<1> HIDE DEF q, x
<1>3. y \in Nat /\ (x = 2 * y \/ x = 2 * y + 1)
  BY <1>2
<1>4. y * (2 * q) <= n /\ n - y * (2 * q) < 2 * q
  <2>1. CASE x = 2 * y
    <3>1. y * (2 * q) = x * q
      BY <2>1, <1>1, <1>2, <1>3
    <3> QED
      BY <3>1, <1>1, <1>2
  <2>2. CASE x = 2 * y + 1
    <3>1. y * (2 * q) = x * q - q
      BY <2>2, <1>1, <1>2, <1>3
    <3> QED
      BY <3>1, <1>1, <1>2
  <2> QED
    BY <1>3, <2>1, <2>2
<1> HIDE DEF y
<1>5. n \div (2 * q) = y
  <2>1. 2 * q \in Nat \ {0} /\ y * (2 * q) \in Nat
    BY <1>1, <1>3
  <2>2. n - y * (2 * q) \in Nat /\ n = y * (2 * q) + (n - y * (2 * q))
    BY <2>1, <1>4
  <2> QED
    BY <2>1, <2>2, <1>3, <1>4, Quotient
<1> QED
  BY <1>1, <1>5, Zenon DEF Shr, y, x

(* Multiplying keeps the order.                                            *)
LEMMA Times ==
  ASSUME NEW x \in Nat, NEW y \in Nat, NEW q \in Nat, x <= y
  PROVE  x * q \in Nat /\ y * q \in Nat /\ x * q <= y * q
OBVIOUS

(* The highest bit of n is set, and none above it.                         *)
LEMMA HighBitIs ==
  ASSUME NEW n \in Nat \ {0}
  PROVE  HighBit(n) \in Nat /\ Pow2[HighBit(n)] <= n /\ n < Pow2[HighBit(n) + 1]
<1> DEFINE I == {h \in Nat : n < Pow2[h]}
<1>1. n \in I
  BY Pow2Type
<1>2. PICK k \in I : \A j \in I : k <= j
  BY <1>1, LeastNatural, Zenon
<1>3. k # 0
  BY <1>2, Pow2Is
<1>4. k - 1 \in Nat /\ k - 1 \notin I /\ k - 1 \in 0..n /\ (k - 1) + 1 = k
  BY <1>1, <1>2, <1>3
<1>5. Pow2[k - 1] <= n
  BY <1>4, Pow2Type
<1>6. \E h \in 0..n : Pow2[h] <= n /\ n < Pow2[h + 1]
  BY <1>2, <1>4, <1>5, Zenon
<1>7. HighBit(n) \in 0..n /\ Pow2[HighBit(n)] <= n /\ n < Pow2[HighBit(n) + 1]
  BY <1>6, Zenon DEF HighBit
<1> QED
  BY <1>7

(* Only one bit is the highest.                                            *)
LEMMA HighBitOf ==
  ASSUME NEW n \in Nat \ {0}, NEW h \in Nat, Pow2[h] <= n, n < Pow2[h + 1]
  PROVE  HighBit(n) = h
<1> DEFINE k == HighBit(n)
<1>1. k \in Nat /\ Pow2[k] <= n /\ n < Pow2[k + 1]
  BY HighBitIs, Zenon
<1> HIDE DEF k
<1>2. Pow2[h] \in Nat /\ Pow2[k] \in Nat /\ Pow2[h + 1] = 2 * Pow2[h] /\ Pow2[k + 1] = 2 * Pow2[k]
  BY <1>1, Pow2Next, Zenon
<1>3. ~(h < k)
  <2>1. h < k => 2 * Pow2[h] <= Pow2[k]
    BY <1>1, Pow2Grows, Zenon
  <2> QED
    BY <2>1, <1>1, <1>2
<1>4. ~(k < h)
  <2>1. k < h => 2 * Pow2[k] <= Pow2[h]
    BY <1>1, Pow2Grows, Zenon
  <2> QED
    BY <2>1, <1>1, <1>2
<1>5. k = h
  BY <1>1, <1>3, <1>4
<1> QED
  BY <1>5, Zenon DEF k

-----------------------------------------------------------------------------
(* The forest: a node exists when its number is below n >> its height.     *)

(* The leaves under the first c + 1 nodes of height h.                     *)
LEMMA EndIs ==
  ASSUME NEW c \in Nat, NEW h \in Nat
  PROVE  End(<<c, h>>) = (c + 1) * Pow2[h] /\ End(<<c, h>>) \in Nat \ {0}
<1>1. Pow2[h] \in Nat \ {0}
  BY Pow2Type
<1>2. \A q \in Nat \ {0} : (c + 1) * q \in Nat \ {0}
  OBVIOUS
<1>3. End(<<c, h>>) = (c + 1) * Pow2[h]
  BY DEF End
<1> QED
  BY <1>1, <1>2, <1>3, Zenon

(* They are within n leaves when the node's number is below n >> h.        *)
LEMMA EndWithin ==
  ASSUME NEW n \in Nat, NEW c \in Nat, NEW h \in Nat
  PROVE  End(<<c, h>>) <= n <=> c < Shr(n, h)
<1> DEFINE q == Pow2[h]
           x == Shr(n, h)
<1>1. q \in Nat \ {0}
  BY Pow2Type
<1>2. x \in Nat /\ x * q <= n /\ n < x * q + q
  BY ShrIs, Zenon
<1>3. End(<<c, h>>) = (c + 1) * q
  BY EndIs, Zenon
<1> HIDE DEF q, x
<1>4. ASSUME c < x PROVE (c + 1) * q <= n
  <2>1. (c + 1) * q <= x * q
    BY <1>1, <1>2, <1>4, Times
  <2>2. (c + 1) * q \in Nat /\ x * q \in Nat
    BY <1>1, <1>2
  <2> QED
    BY <2>1, <2>2, <1>2
<1>5. ASSUME ~(c < x) PROVE ~((c + 1) * q <= n)
  <2>1. x * q <= c * q
    BY <1>1, <1>2, <1>5, Times
  <2>2. (c + 1) * q = c * q + q
    BY <1>1
  <2>3. c * q \in Nat /\ x * q \in Nat
    BY <1>1, <1>2
  <2> QED
    BY <2>1, <2>2, <2>3, <1>1, <1>2
<1>6. (c + 1) * q <= n <=> c < x
  BY <1>4, <1>5
<1> QED
  BY <1>3, <1>6, Zenon DEF x

(* A node of the forest is a number and a height.                          *)
LEMMA ForestNode ==
  ASSUME NEW n \in Nat, NEW m \in Forest(n)
  PROVE  m[1] \in Nat /\ m[2] \in Nat /\ m = <<m[1], m[2]>>
<1>1. HighBit(n + 1) \in Nat
  BY HighBitIs
<1>2. m \in (0..n) \X (0..HighBit(n + 1))
  BY Zenon DEF Forest
<1> QED
  BY <1>1, <1>2

(* Which nodes there are over n leaves.                                    *)
LEMMA InForest ==
  ASSUME NEW n \in Nat, NEW c \in Nat, NEW h \in Nat
  PROVE  <<c, h>> \in Forest(n) <=> c < Shr(n, h)
<1>1. <<c, h>> \in Forest(n) => End(<<c, h>>) <= n
  BY Zenon DEF Forest
<1>2. ASSUME End(<<c, h>>) <= n PROVE <<c, h>> \in (0..n) \X (0..HighBit(n + 1))
  <2> DEFINE q == Pow2[h]
             k == HighBit(n + 1)
  <2>1. q \in Nat \ {0}
    BY Pow2Type
  <2>2. End(<<c, h>>) = (c + 1) * q
    BY EndIs, Zenon
  <2>3. k \in Nat /\ n + 1 < Pow2[k + 1] /\ Pow2[k + 1] = 2 * Pow2[k] /\ Pow2[k] \in Nat
    <3>1. n + 1 \in Nat \ {0}
      OBVIOUS
    <3>2. k \in Nat /\ n + 1 < Pow2[k + 1]
      BY <3>1, HighBitIs, Zenon
    <3> QED
      BY <3>2, Pow2Next, Zenon
  <2>4. h \in Nat /\ (k < h => 2 * Pow2[k] <= q)
    BY <2>3, Pow2Grows, Zenon
  <2> HIDE DEF q, k
  <2>5. q <= (c + 1) * q /\ c + 1 <= (c + 1) * q
    BY <2>1
  <2>6. c <= n /\ q <= n
    BY <1>2, <2>1, <2>2, <2>5
  <2>7. ~(k < h)
    BY <2>1, <2>3, <2>4, <2>6
  <2>8. c \in 0..n /\ h \in 0..k
    BY <2>3, <2>6, <2>7
  <2> QED
    BY <2>8, Zenon DEF k
<1>3. <<c, h>> \in Forest(n) <=> End(<<c, h>>) <= n
  BY <1>1, <1>2, Zenon DEF Forest
<1> QED
  BY <1>3, EndWithin, Zenon

-----------------------------------------------------------------------------
(* How n >> h changes when a leaf is added: by one up to the height of the *)
(* new peak, and not above.                                                *)

(* n >> h in terms of n >> (h + 1) and the bit between.                    *)
LEMMA Halved ==
  ASSUME NEW n \in Nat, NEW h \in Nat
  PROVE  /\ Shr(n, h) \in Nat /\ Shr(n, h + 1) \in Nat
         /\ Shr(n, h) % 2 \in {0, 1}
         /\ Shr(n, h) = 2 * Shr(n, h + 1) + (Shr(n, h) % 2)
<1>1. Shr(n, h) \in Nat /\ Shr(n, h + 1) = Shr(n, h) \div 2
  BY ShrIs, ShrNext, Zenon
<1>2. \A x \in Nat : x \div 2 \in Nat /\ x % 2 \in {0, 1} /\ x = 2 * (x \div 2) + (x % 2)
  OBVIOUS
<1> QED
  BY <1>1, <1>2, Zenon

(* Trailing ones and ones of a number, from those of its half.             *)
LEMMA OnesOf ==
  ASSUME NEW x \in Nat
  PROVE  /\ TrailingOnes[x] \in Nat /\ CountOnes[x] \in Nat
         /\ x % 2 = 0 => TrailingOnes[x] = 0
         /\ x % 2 = 1 => TrailingOnes[x] = 1 + TrailingOnes[x \div 2]
         /\ CountOnes[x] = (x % 2) + CountOnes[x \div 2]
<1>1. TrailingOnes[x] \in Nat /\ CountOnes[x] \in Nat
  BY TrailingOnesNat, CountOnesNat, Zenon
<1>2. TrailingOnes[x] = IF x % 2 = 0 THEN 0 ELSE 1 + TrailingOnes[x \div 2]
  BY TrailingOnesIs, Zenon
<1>3. CountOnes[x] = IF x = 0 THEN 0 ELSE (x % 2) + CountOnes[x \div 2]
  BY CountOnesIs, Zenon
<1>4. CountOnes[x] = (x % 2) + CountOnes[x \div 2]
  <2>1. CASE x = 0
    <3>1. x \div 2 = 0 /\ x % 2 = 0
      BY <2>1
    <3>2. CountOnes[0] = 0
      BY <2>1, <1>3, Zenon
    <3> QED
      BY <2>1, <3>1, <3>2
  <2> QED
    BY <2>1, <1>3, Zenon
<1> QED
  BY <1>1, <1>2, <1>4

(* Shifting out trailing ones leaves the rest of them.                     *)
LEMMA TrailingShr ==
  ASSUME NEW n \in Nat, NEW h \in Nat, h <= TrailingOnes[n]
  PROVE  /\ TrailingOnes[Shr(n, h)] = TrailingOnes[n] - h
         /\ CountOnes[Shr(n, h)] = CountOnes[n] - h
<1> DEFINE Good(k) == /\ TrailingOnes[Shr(n, k)] = TrailingOnes[n] - k
                      /\ CountOnes[Shr(n, k)] = CountOnes[n] - k
           Bad == {k \in Nat : k <= TrailingOnes[n] /\ ~Good(k)}
<1> SUFFICES ASSUME Bad # {} PROVE FALSE
  BY Zenon
<1>1. PICK k \in Bad : \A j \in Bad : k <= j
  BY LeastNatural, Zenon
<1>2. TrailingOnes[n] \in Nat /\ CountOnes[n] \in Nat
  BY OnesOf, Zenon
<1>3. k # 0
  <2>1. Shr(n, 0) = n
    BY ShrZero, Zenon
  <2>2. Good(0)
    BY <2>1, <1>2
  <2> QED
    BY <2>2, <1>1, Zenon
<1>4. k - 1 \in Nat /\ k - 1 \notin Bad /\ (k - 1) + 1 = k /\ k <= TrailingOnes[n]
  BY <1>1, <1>3
<1>5. k - 1 <= TrailingOnes[n]
  BY <1>2, <1>4
<1>6. Good(k - 1)
  BY <1>4, <1>5, Zenon
<1>7. PICK x : x = Shr(n, k - 1)
  BY Zenon
<1>8. x \in Nat /\ Shr(n, k) = x \div 2
  BY <1>4, <1>7, ShrIs, ShrNext, Zenon
<1>9. TrailingOnes[x] = TrailingOnes[n] - (k - 1) /\ CountOnes[x] = CountOnes[n] - (k - 1)
  BY <1>6, <1>7, Zenon
<1>10. TrailingOnes[x] # 0
  BY <1>2, <1>4, <1>9
<1>11. x % 2 = 1
  <2>1. x % 2 = 0 => TrailingOnes[x] = 0
    BY <1>8, OnesOf, Zenon
  <2> QED
    BY <1>8, <1>10, <2>1
<1>12. /\ x \div 2 \in Nat
       /\ TrailingOnes[x] = 1 + TrailingOnes[x \div 2]
       /\ CountOnes[x] = 1 + CountOnes[x \div 2]
  <2>1. x \div 2 \in Nat
    BY <1>8
  <2> QED
    BY <2>1, <1>8, <1>11, OnesOf, Zenon
<1>13. TrailingOnes[x \div 2] \in Nat /\ CountOnes[x \div 2] \in Nat
  BY <1>12, OnesOf, Zenon
<1>14. TrailingOnes[x \div 2] = TrailingOnes[n] - k /\ CountOnes[x \div 2] = CountOnes[n] - k
  BY <1>2, <1>4, <1>9, <1>12, <1>13
<1>15. Good(k)
  BY <1>8, <1>14, Zenon
<1> QED
  BY <1>1, <1>15, Zenon

(* The last TrailingOnes bits of n are ones, and the next is not.          *)
LEMMA TrailingBits ==
  ASSUME NEW n \in Nat, NEW h \in Nat, h <= TrailingOnes[n]
  PROVE  Shr(n, h) % 2 = IF h = TrailingOnes[n] THEN 0 ELSE 1
<1>1. Shr(n, h) \in Nat
  BY ShrIs, Zenon
<1>2. TrailingOnes[Shr(n, h)] = TrailingOnes[n] - h /\ TrailingOnes[n] \in Nat
  BY TrailingShr, OnesOf, Zenon
<1>3. PICK x \in Nat : x = Shr(n, h)
  BY <1>1, Zenon
<1>4. /\ TrailingOnes[x] \in Nat /\ x \div 2 \in Nat
      /\ x % 2 = 0 => TrailingOnes[x] = 0
      /\ x % 2 = 1 => TrailingOnes[x] = 1 + TrailingOnes[x \div 2]
  BY <1>3, OnesOf
<1>5. TrailingOnes[x \div 2] \in Nat
  BY <1>4, OnesOf, Zenon
<1>6. x % 2 = 0 \/ x % 2 = 1
  OBVIOUS
<1>7. TrailingOnes[x] = TrailingOnes[n] - h
  BY <1>2, <1>3, Zenon
<1>8. x % 2 = IF h = TrailingOnes[n] THEN 0 ELSE 1
  BY <1>2, <1>4, <1>5, <1>6, <1>7
<1> QED
  BY <1>3, <1>8, Zenon

(* n >> h goes up by one as far as the carry goes.                         *)
LEMMA ShrCarry ==
  ASSUME NEW n \in Nat, NEW h \in Nat
  PROVE  Shr(n + 1, h) = IF h <= TrailingOnes[n] THEN Shr(n, h) + 1 ELSE Shr(n, h)
<1> DEFINE Good(k) == Shr(n + 1, k) = IF k <= TrailingOnes[n] THEN Shr(n, k) + 1 ELSE Shr(n, k)
           Bad == {k \in Nat : ~Good(k)}
<1> SUFFICES ASSUME Bad # {} PROVE FALSE
  BY Zenon
<1>1. PICK k \in Bad : \A j \in Bad : k <= j
  BY LeastNatural, Zenon
<1>2. TrailingOnes[n] \in Nat /\ n + 1 \in Nat
  BY OnesOf
<1>3. k # 0
  <2>1. Shr(n, 0) = n /\ Shr(n + 1, 0) = n + 1
    BY <1>2, ShrZero, Zenon
  <2>2. Good(0)
    BY <2>1, <1>2
  <2> QED
    BY <2>2, <1>1, Zenon
<1>4. k - 1 \in Nat /\ k - 1 \notin Bad /\ (k - 1) + 1 = k
  BY <1>1, <1>3
<1>5. Good(k - 1)
  BY <1>4, Zenon
<1>6. PICK x, y : x = Shr(n, k - 1) /\ y = Shr(n + 1, k - 1)
  BY Zenon
<1>7. x \in Nat /\ y \in Nat /\ Shr(n, k) = x \div 2 /\ Shr(n + 1, k) = y \div 2
  BY <1>2, <1>4, <1>6, ShrIs, ShrNext, Zenon
<1>8. y = IF k - 1 <= TrailingOnes[n] THEN x + 1 ELSE x
  BY <1>5, <1>6, Zenon
<1>9. k - 1 <= TrailingOnes[n] => x % 2 = IF k - 1 = TrailingOnes[n] THEN 0 ELSE 1
  BY <1>4, <1>6, TrailingBits, Zenon
<1>10. y \div 2 = IF k <= TrailingOnes[n] THEN (x \div 2) + 1 ELSE x \div 2
  <2>1. CASE k - 1 > TrailingOnes[n]
    BY <2>1, <1>2, <1>4, <1>8
  <2>2. CASE k - 1 = TrailingOnes[n]
    BY <2>2, <1>2, <1>4, <1>7, <1>8, <1>9
  <2>3. CASE k - 1 < TrailingOnes[n]
    BY <2>3, <1>2, <1>4, <1>7, <1>8, <1>9
  <2> QED
    BY <1>2, <1>4, <2>1, <2>2, <2>3
<1>11. Good(k)
  BY <1>7, <1>10, Zenon
<1> QED
  BY <1>1, <1>11, Zenon

-----------------------------------------------------------------------------
(* The nodes that leaf n + 1 brings, below height j; how many nodes there  *)
(* are, and where a node is.                                               *)

NewNodes(n, j) == {<<Shr(n, i), i>> : i \in 0..(j - 1)}

(* A node is there once its last leaf is.                                  *)
LEMMA InForestIffEnd ==
  ASSUME NEW n \in Nat, NEW c \in Nat, NEW h \in Nat
  PROVE  <<c, h>> \in Forest(n) <=> End(<<c, h>>) <= n
BY InForest, EndWithin, Zenon

(* Membership in NewNodes.                                                 *)
LEMMA NewNode ==
  ASSUME NEW n \in Nat, NEW j \in Nat, NEW c \in Nat, NEW h \in Nat
  PROVE  <<c, h>> \in NewNodes(n, j) <=> h < j /\ c = Shr(n, h)
<1>1. h \in 0..(j - 1) <=> h < j
  OBVIOUS
<1>2. \A i : <<c, h>> = <<Shr(n, i), i>> <=> h = i /\ c = Shr(n, i)
  OBVIOUS
<1> QED
  BY <1>1, <1>2, Zenon DEF NewNodes

(* NewNodes grows by a node at a time.                                     *)
LEMMA NewNodesAdd ==
  ASSUME NEW n \in Nat, NEW j \in Nat
  PROVE  /\ NewNodes(n, 0) = {}
         /\ NewNodes(n, j + 1) = NewNodes(n, j) \cup {<<Shr(n, j), j>>}
<1>1. 0..(0 - 1) = {} /\ 0..((j + 1) - 1) = 0..(j - 1) \cup {j}
  OBVIOUS
<1> QED
  BY <1>1, Zenon DEF NewNodes

(* None of the new nodes was there before.                                 *)
LEMMA CountWithNew ==
  ASSUME NEW n \in Nat, IsFiniteSet(Forest(n)), NEW j \in Nat
  PROVE  /\ IsFiniteSet(Forest(n) \cup NewNodes(n, j))
         /\ Cardinality(Forest(n) \cup NewNodes(n, j)) = Cardinality(Forest(n)) + j
<1> DEFINE S(k) == Forest(n) \cup NewNodes(n, k)
           Good(k) == IsFiniteSet(S(k)) /\ Cardinality(S(k)) = Cardinality(Forest(n)) + k
           Bad == {k \in Nat : ~Good(k)}
<1> SUFFICES ASSUME Bad # {} PROVE FALSE
  BY Zenon
<1>1. PICK k \in Bad : \A i \in Bad : k <= i
  BY LeastNatural, Zenon
<1>2. Cardinality(Forest(n)) \in Nat
  BY FS_CardinalityType, Zenon
<1>3. k # 0
  <2>1. S(0) = Forest(n)
    BY NewNodesAdd
  <2>2. Cardinality(Forest(n)) + 0 = Cardinality(Forest(n))
    BY <1>2
  <2> QED
    BY <1>1, <2>1, <2>2, Zenon
<1>4. k - 1 \in Nat /\ k - 1 \notin Bad /\ (k - 1) + 1 = k
  BY <1>1, <1>3
<1>5. Good(k - 1)
  BY <1>4, Zenon
<1> DEFINE x == <<Shr(n, k - 1), k - 1>>
<1>6. S(k) = S(k - 1) \cup {x}
  <2>1. NewNodes(n, k) = NewNodes(n, k - 1) \cup {x}
    BY <1>4, NewNodesAdd, Zenon
  <2> QED
    BY <2>1, Zenon
<1>7. x \notin S(k - 1)
  <2>1. Shr(n, k - 1) \in Nat
    BY <1>4, ShrIs, Zenon
  <2>2. x \notin Forest(n)
    <3>1. ~(Shr(n, k - 1) < Shr(n, k - 1))
      BY <2>1
    <3> QED
      BY <3>1, <2>1, <1>4, InForest, Zenon
  <2>3. x \notin NewNodes(n, k - 1)
    <3>1. ~(k - 1 < k - 1)
      BY <1>4
    <3> QED
      BY <3>1, <2>1, <1>4, NewNode, Zenon
  <2> QED
    BY <2>2, <2>3, Zenon
<1> HIDE DEF x
<1>8. IsFiniteSet(S(k - 1) \cup {x}) /\ Cardinality(S(k - 1) \cup {x}) = Cardinality(S(k - 1)) + 1
  BY <1>5, <1>7, FS_AddElement, Zenon
<1>9. (Cardinality(Forest(n)) + (k - 1)) + 1 = Cardinality(Forest(n)) + k
  BY <1>2, <1>4
<1>10. Good(k)
  BY <1>5, <1>6, <1>8, <1>9, Zenon
<1> QED
  BY <1>1, <1>10, Zenon

(* One more leaf brings one node for each carry and one for itself.        *)
LEMMA ForestGrows ==
  ASSUME NEW n \in Nat
  PROVE  Forest(n + 1) = Forest(n) \cup NewNodes(n, TrailingOnes[n] + 1)
<1> DEFINE t == TrailingOnes[n]
<1>1. t \in Nat /\ n + 1 \in Nat /\ t + 1 \in Nat
  BY OnesOf
<1>2. ASSUME NEW c \in Nat, NEW h \in Nat
      PROVE  <<c, h>> \in Forest(n + 1) <=> <<c, h>> \in Forest(n) \cup NewNodes(n, t + 1)
  <2>1. <<c, h>> \in Forest(n + 1) <=> c < Shr(n + 1, h)
    BY <1>1, InForest, Zenon
  <2>2. <<c, h>> \in Forest(n) <=> c < Shr(n, h)
    BY InForest, Zenon
  <2>3. <<c, h>> \in NewNodes(n, t + 1) <=> h < t + 1 /\ c = Shr(n, h)
    <3>1. PICK j \in Nat : j = t + 1
      BY <1>1, Zenon
    <3>2. <<c, h>> \in NewNodes(n, j) <=> h < j /\ c = Shr(n, h)
      BY NewNode, Zenon
    <3> QED
      BY <3>1, <3>2, Zenon
  <2>4. Shr(n + 1, h) = (IF h <= t THEN Shr(n, h) + 1 ELSE Shr(n, h)) /\ Shr(n, h) \in Nat
    BY ShrCarry, ShrIs, Zenon
  <2> HIDE DEF t
  <2>5. c < Shr(n + 1, h) <=> c < Shr(n, h) \/ (h < t + 1 /\ c = Shr(n, h))
    BY <2>4, <1>1
  <2> QED
    BY <2>1, <2>2, <2>3, <2>5, Zenon
<1>3. ASSUME NEW m \in Forest(n + 1) PROVE m \in Forest(n) \cup NewNodes(n, t + 1)
  <2>1. PICK c \in Nat, h \in Nat : m = <<c, h>>
    BY <1>1, ForestNode, Zenon
  <2> QED
    BY <1>2, <2>1, Zenon
<1>4. ASSUME NEW m \in Forest(n) PROVE m \in Forest(n + 1)
  <2>1. PICK c \in Nat, h \in Nat : m = <<c, h>>
    BY ForestNode, Zenon
  <2> QED
    BY <1>2, <2>1, Zenon
<1>5. ASSUME NEW m \in NewNodes(n, t + 1) PROVE m \in Forest(n + 1)
  <2>1. PICK i \in 0..((t + 1) - 1) : m = <<Shr(n, i), i>>
    BY Zenon DEF NewNodes
  <2>2. i \in Nat
    BY <1>1, <2>1
  <2>3. Shr(n, i) \in Nat
    BY <2>2, ShrIs, Zenon
  <2> QED
    BY <1>2, <2>1, <2>2, <2>3, Zenon
<1> QED
  BY <1>3, <1>4, <1>5, Zenon

(* get_mmr_node_pos(n), 2n less the ones of n, is the number of nodes.     *)
LEMMA ForestCount ==
  ASSUME NEW n \in Nat
  PROVE  /\ IsFiniteSet(Forest(n))
         /\ Cardinality(Forest(n)) = get_mmr_node_pos(n)
         /\ get_mmr_node_pos(n) \in Nat
         /\ get_mmr_node_pos(n + 1) = get_mmr_node_pos(n) + TrailingOnes[n] + 1
<1> DEFINE Good(k) == IsFiniteSet(Forest(k)) /\ Cardinality(Forest(k)) = get_mmr_node_pos(k)
           Bad == {k \in Nat : ~Good(k)}
<1>1. ASSUME NEW k \in Nat
      PROVE  get_mmr_node_pos(k + 1) = get_mmr_node_pos(k) + TrailingOnes[k] + 1
  <2>1. CountOnes[k + 1] = CountOnes[k] - TrailingOnes[k] + 1
    BY Carry, Zenon
  <2>2. CountOnes[k] \in Nat /\ TrailingOnes[k] \in Nat
    BY OnesOf, Zenon
  <2> QED
    BY <2>1, <2>2 DEF get_mmr_node_pos
<1>2. ASSUME NEW k \in Bad, \A j \in Bad : k <= j PROVE FALSE
  <2>1. k # 0
    <3>1. Forest(0) = {}
      <4>1. ASSUME NEW m \in Forest(0) PROVE FALSE
        <5>1. m[1] \in Nat /\ m[2] \in Nat /\ m = <<m[1], m[2]>>
          BY ForestNode
        <5>2. End(m) <= 0
          BY Zenon DEF Forest
        <5>3. End(m) \in Nat \ {0}
          BY <5>1, EndIs, Zenon
        <5> QED
          BY <5>2, <5>3
      <4> QED
        BY <4>1, Zenon
    <3>2. get_mmr_node_pos(0) = 0
      <4>1. CountOnes[0] = 0
        BY CountOnesIs
      <4> QED
        BY <4>1 DEF get_mmr_node_pos
    <3>3. Good(0)
      BY <3>1, <3>2, FS_EmptySet, Zenon
    <3> QED
      BY <1>2, <3>3, Zenon
  <2>2. k - 1 \in Nat /\ k - 1 \notin Bad /\ (k - 1) + 1 = k
    BY <1>2, <2>1
  <2>3. Good(k - 1)
    BY <2>2, Zenon
  <2> DEFINE t == TrailingOnes[k - 1]
  <2>4. t \in Nat /\ t + 1 \in Nat
    <3>1. t \in Nat
      BY <2>2, OnesOf, Zenon
    <3> QED
      BY <3>1
  <2>5. Forest(k) = Forest(k - 1) \cup NewNodes(k - 1, t + 1)
    BY <2>2, ForestGrows, Zenon
  <2>6. IsFiniteSet(Forest(k)) /\ Cardinality(Forest(k)) = Cardinality(Forest(k - 1)) + (t + 1)
    BY <2>2, <2>3, <2>4, <2>5, CountWithNew, Zenon
  <2>7. get_mmr_node_pos(k) = get_mmr_node_pos(k - 1) + t + 1
    BY <2>2, <1>1, Zenon
  <2>8. Cardinality(Forest(k - 1)) \in Nat
    BY <2>3, FS_CardinalityType, Zenon
  <2> HIDE DEF t
  <2>9. Cardinality(Forest(k)) = get_mmr_node_pos(k)
    <3>1. get_mmr_node_pos(k) = Cardinality(Forest(k - 1)) + t + 1
      BY <2>3, <2>7, Zenon
    <3> QED
      BY <3>1, <2>4, <2>6, <2>8
  <2> QED
    BY <1>2, <2>6, <2>9, Zenon
<1>3. Bad = {}
  BY <1>2, LeastNatural, Zenon
<1>4. Good(n)
  BY <1>3, Zenon
<1> QED
  BY <1>1, <1>4, FS_CardinalityType, Zenon

(* The place of node <<c, h>> in post-order, whatever the forest.          *)
PosOf(c, h) == 2 * End(<<c, h>>) - 2 - CountOnes[c]

(* A node comes with its last leaf, as one of that leaf's carries.         *)
LEMMA BornWithItsEnd ==
  ASSUME NEW c \in Nat, NEW h \in Nat
  PROVE  LET last == End(<<c, h>>) - 1
         IN last \in Nat /\ last + 1 = End(<<c, h>>) /\ h <= TrailingOnes[last] /\ c = Shr(last, h)
<1> DEFINE e == End(<<c, h>>)
           last == e - 1
<1>1. e \in Nat \ {0}
  BY EndIs, Zenon
<1> HIDE DEF e
<1>2. last \in Nat /\ last + 1 = e /\ e <= e /\ ~(e <= last)
  BY <1>1
<1> HIDE DEF last
<1>3. <<c, h>> \in Forest(last + 1) /\ <<c, h>> \notin Forest(last)
  BY <1>1, <1>2, InForestIffEnd, Zenon DEF e
<1>4. PICK t \in Nat : t = TrailingOnes[last]
  BY <1>2, OnesOf, Zenon
<1>5. PICK j \in Nat : j = t + 1
  OBVIOUS
<1>6. <<c, h>> \in NewNodes(last, j)
  BY <1>2, <1>3, <1>4, <1>5, ForestGrows, Zenon
<1>7. h < j /\ c = Shr(last, h)
  BY <1>2, <1>6, NewNode, Zenon
<1>8. h <= t
  BY <1>4, <1>5, <1>7
<1> QED
  BY <1>2, <1>4, <1>7, <1>8, Zenon DEF last, e

(* The nodes a leaf brings are numbered on from the count before it.       *)
LEMMA NewNodeEnds ==
  ASSUME NEW n \in Nat, NEW j \in Nat, j <= TrailingOnes[n]
  PROVE  End(<<Shr(n, j), j>>) = n + 1 /\ PosOf(Shr(n, j), j) = get_mmr_node_pos(n) + j
<1> DEFINE c == Shr(n, j)
<1>1. c \in Nat /\ TrailingOnes[n] \in Nat /\ n + 1 \in Nat /\ CountOnes[n] \in Nat
  <2>1. c \in Nat /\ TrailingOnes[n] \in Nat /\ CountOnes[n] \in Nat
    BY ShrIs, OnesOf, Zenon
  <2> QED
    BY <2>1
<1>2. Shr(n + 1, j) = c + 1
  BY ShrCarry, Zenon
<1>3. CountOnes[c] = CountOnes[n] - j
  BY TrailingShr, Zenon
<1> HIDE DEF c
<1>4. c < Shr(n + 1, j) /\ ~(c < c)
  BY <1>1, <1>2
<1>5. End(<<c, j>>) <= n + 1
  BY <1>1, <1>4, EndWithin, Zenon
<1>6. ~(End(<<c, j>>) <= n)
  BY <1>1, <1>4, EndWithin, Zenon DEF c
<1>7. End(<<c, j>>) \in Nat
  BY <1>1, EndIs, Zenon
<1>8. End(<<c, j>>) = n + 1
  BY <1>5, <1>6, <1>7
<1>9. PosOf(c, j) = get_mmr_node_pos(n) + j
  BY <1>1, <1>3, <1>8 DEF PosOf, get_mmr_node_pos
<1> QED
  BY <1>8, <1>9, Zenon DEF c

(* A node's rank in post-order is PosOf, in any forest that has it.        *)
LEMMA PosIs ==
  ASSUME NEW n \in Nat, NEW c \in Nat, NEW h \in Nat, <<c, h>> \in Forest(n)
  PROVE  PosIn(n, <<c, h>>) = PosOf(c, h)
<1> DEFINE e == End(<<c, h>>)
           last == e - 1
           Before == {m \in Forest(n) : End(m) < e \/ (End(m) = e /\ m[2] < h)}
<1>1. e \in Nat \ {0} /\ e <= n
  BY EndIs, InForestIffEnd, Zenon
<1>2. last \in Nat /\ last + 1 = e /\ h <= TrailingOnes[last] /\ c = Shr(last, h)
  BY BornWithItsEnd, Zenon
<1>3. PICK t \in Nat : t = TrailingOnes[last]
  BY <1>2, OnesOf, Zenon
<1> HIDE DEF e, last
<1>4. ASSUME NEW d \in Nat, NEW k \in Nat
      PROVE  <<d, k>> \in Before <=> <<d, k>> \in Forest(last) \cup NewNodes(last, h)
  <2> DEFINE m == <<d, k>>
  <2>1. End(m) \in Nat
    BY EndIs, Zenon
  <2>2. m \in Forest(n) <=> End(m) <= n
    BY InForestIffEnd, Zenon
  <2>3. m \in Forest(last) <=> End(m) <= last
    BY <1>2, InForestIffEnd, Zenon
  <2>4. m \in Forest(e) <=> End(m) <= e
    BY <1>1, InForestIffEnd, Zenon
  <2>5. PICK j \in Nat : j = t + 1
    OBVIOUS
  <2>6. m \in Forest(e) <=> m \in Forest(last) \/ m \in NewNodes(last, j)
    BY <1>2, <1>3, <2>5, ForestGrows, Zenon
  <2>7. m \in NewNodes(last, j) <=> k < j /\ d = Shr(last, k)
    BY <1>2, NewNode, Zenon
  <2>8. m \in NewNodes(last, h) <=> k < h /\ d = Shr(last, k)
    BY <1>2, NewNode, Zenon
  <2>9. m[2] = k
    OBVIOUS
  <2>10. m \in Before <=> m \in Forest(n) /\ (End(m) < e \/ (End(m) = e /\ k < h))
    BY <2>9, Zenon
  <2>11. ~(d < d)
    OBVIOUS
  <2>12. d = Shr(last, k) => m \notin Forest(last)
    BY <1>2, <2>11, InForest, Zenon
  <2> HIDE DEF m, Before
  <2>13. End(m) = e <=> m \in Forest(e) /\ m \notin Forest(last)
    BY <2>1, <2>3, <2>4, <1>1, <1>2
  <2>14. k < h => k < j
    BY <1>2, <1>3, <2>5
  <2>15. End(m) = e /\ k < h <=> m \in NewNodes(last, h)
    BY <2>6, <2>7, <2>8, <2>12, <2>13, <2>14, Zenon
  <2>16. End(m) < e <=> m \in Forest(last)
    BY <2>1, <2>3, <1>1, <1>2
  <2>17. End(m) < e \/ End(m) = e => m \in Forest(n)
    BY <2>1, <2>2, <1>1
  <2> QED
    BY <2>10, <2>15, <2>16, <2>17, Zenon DEF m
<1>5. Before = Forest(last) \cup NewNodes(last, h)
  <2>1. ASSUME NEW m \in Before PROVE m \in Forest(last) \cup NewNodes(last, h)
    <3>1. PICK d \in Nat, k \in Nat : m = <<d, k>>
      BY ForestNode, Zenon
    <3> HIDE DEF Before
    <3> QED
      BY <1>4, <3>1, Zenon
  <2> HIDE DEF Before
  <2>2. ASSUME NEW m \in Forest(last) PROVE m \in Before
    <3>1. PICK d \in Nat, k \in Nat : m = <<d, k>>
      BY <1>2, ForestNode, Zenon
    <3> QED
      BY <1>4, <3>1, Zenon
  <2>3. ASSUME NEW m \in NewNodes(last, h) PROVE m \in Before
    <3>1. PICK i \in 0..(h - 1) : m = <<Shr(last, i), i>>
      BY Zenon DEF NewNodes
    <3>2. i \in Nat
      BY <3>1
    <3>3. Shr(last, i) \in Nat
      BY <1>2, <3>2, ShrIs, Zenon
    <3> QED
      BY <1>4, <3>1, <3>2, <3>3, Zenon
  <2> QED
    BY <2>1, <2>2, <2>3, Zenon
<1>6. PosIn(n, <<c, h>>) = Cardinality(Before)
  <2>1. <<c, h>>[2] = h
    OBVIOUS
  <2> QED
    BY <2>1, Zenon DEF PosIn, Before, e
<1>7. Cardinality(Before) = get_mmr_node_pos(last) + h
  <2>1. IsFiniteSet(Forest(last)) /\ Cardinality(Forest(last)) = get_mmr_node_pos(last)
    BY <1>2, ForestCount, Zenon
  <2> HIDE DEF Before
  <2> QED
    BY <2>1, <1>2, <1>5, CountWithNew, Zenon
<1>8. PosOf(c, h) = get_mmr_node_pos(last) + h
  BY <1>2, NewNodeEnds, Zenon
<1> QED
  BY <1>6, <1>7, <1>8, Zenon

-----------------------------------------------------------------------------
(* The peaks: one for each bit set in n, the taller the further left.      *)

(* A node is a peak when it is the last of its height and has no sibling.  *)
LEMMA PeakIs ==
  ASSUME NEW n \in Nat, NEW c \in Nat, NEW h \in Nat
  PROVE  IsPeak(n, <<c, h>>) <=> Shr(n, h) % 2 = 1 /\ c + 1 = Shr(n, h)
<1> DEFINE x == Shr(n, h)
           y == Shr(n, h + 1)
<1>1. x \in Nat /\ y \in Nat /\ x % 2 \in {0, 1} /\ x = 2 * y + (x % 2) /\ h + 1 \in Nat
  BY Halved
<1>2. <<c, h>> \in Forest(n) <=> c < x
  BY InForest, Zenon
<1>3. Above(<<c, h>>, 1) = <<c \div 2, h + 1>> /\ c \div 2 \in Nat
  <2>1. Above(<<c, h>>, 1) = <<Shr(c, 1), h + 1>>
    BY DEF Above
  <2>2. 0 \in Nat /\ 0 + 1 = 1
    OBVIOUS
  <2>3. Shr(c, 1) = c \div 2
    BY <2>2, ShrNext, ShrZero, Zenon
  <2> QED
    BY <2>1, <2>3
<1>4. <<c \div 2, h + 1>> \in Forest(n) <=> c \div 2 < y
  BY <1>1, <1>3, InForest, Zenon
<1>5. IsPeak(n, <<c, h>>) <=> c < x /\ ~(c \div 2 < y)
  BY <1>2, <1>3, <1>4, Zenon DEF IsPeak
<1> HIDE DEF x, y
<1>6. c < x /\ ~(c \div 2 < y) <=> x % 2 = 1 /\ c + 1 = x
  BY <1>1
<1> QED
  BY <1>5, <1>6, Zenon DEF x

(* The leaves under the nodes of height h.                                 *)
Covered(n, h) == Shr(n, h) * Pow2[h]

(* Leaves under height h: those under height h + 1, and under the peak.    *)
LEMMA CoveredNext ==
  ASSUME NEW n \in Nat, NEW h \in Nat
  PROVE  /\ Covered(n, h) \in Nat
         /\ Covered(n, h) = Covered(n, h + 1) + (IF Shr(n, h) % 2 = 1 THEN Pow2[h] ELSE 0)
<1> DEFINE x == Shr(n, h)
           y == Shr(n, h + 1)
           q == Pow2[h]
<1>1. x \in Nat /\ y \in Nat /\ x % 2 \in {0, 1} /\ x = 2 * y + (x % 2)
  BY Halved, Zenon
<1>2. q \in Nat /\ Pow2[h + 1] = 2 * q
  BY Pow2Next, Zenon
<1>3. Covered(n, h) = x * q /\ Covered(n, h + 1) = y * (2 * q)
  BY <1>2, Zenon DEF Covered
<1> HIDE DEF x, y, q
<1>4. x * q \in Nat
  BY <1>1, <1>2
<1>5. CASE x % 2 = 1
  <2>1. x * q = y * (2 * q) + q
    BY <1>1, <1>2, <1>5
  <2> QED
    BY <2>1, <1>3, <1>4, <1>5, Zenon DEF x, q
<1>6. CASE x % 2 = 0
  <2>1. x * q = y * (2 * q) + 0
    BY <1>1, <1>2, <1>6
  <2>2. ~(x % 2 = 1)
    BY <1>6
  <2> QED
    BY <2>1, <2>2, <1>3, <1>4, Zenon DEF x, q
<1> QED
  BY <1>1, <1>5, <1>6

(* The higher, the fewer leaves are covered.                               *)
LEMMA CoveredFalls ==
  ASSUME NEW n \in Nat, NEW h \in Nat, NEW k \in Nat, h <= k
  PROVE  Covered(n, k) <= Covered(n, h)
<1> DEFINE Bad == {i \in Nat : h <= i /\ ~(Covered(n, i) <= Covered(n, h))}
<1> SUFFICES ASSUME Bad # {} PROVE FALSE
  BY Zenon
<1>1. PICK i \in Bad : \A j \in Bad : i <= j
  BY LeastNatural, Zenon
<1>2. Covered(n, h) \in Nat
  BY CoveredNext, Zenon
<1>3. i # h
  BY <1>1, <1>2
<1>4. PICK j \in Nat : i = j + 1 /\ j \notin Bad /\ h <= j
  <2>1. i - 1 \in Nat /\ i = (i - 1) + 1 /\ i - 1 \notin Bad /\ h <= i - 1
    BY <1>1, <1>3
  <2> QED
    BY <2>1, Zenon
<1>5. Covered(n, j) <= Covered(n, h)
  BY <1>4, Zenon
<1>6. /\ Covered(n, j) \in Nat
      /\ Covered(n, j) = Covered(n, j + 1) + (IF Shr(n, j) % 2 = 1 THEN Pow2[j] ELSE 0)
  BY CoveredNext, Zenon
<1>7. Pow2[j] \in Nat /\ Covered(n, j + 1) \in Nat
  BY <1>1, <1>4, Pow2Next, CoveredNext, Zenon
<1>8. Covered(n, j + 1) <= Covered(n, h)
  BY <1>2, <1>5, <1>6, <1>7
<1> QED
  BY <1>1, <1>4, <1>8, Zenon

(* The peak of a bit that is set, and the leaf it ends with.               *)
LEMMA PeakEnd ==
  ASSUME NEW n \in Nat, NEW h \in Nat, Shr(n, h) % 2 = 1
  PROVE  /\ Shr(n, h) - 1 \in Nat /\ (Shr(n, h) - 1) + 1 = Shr(n, h)
         /\ IsPeak(n, <<Shr(n, h) - 1, h>>)
         /\ <<Shr(n, h) - 1, h>> \in Forest(n)
         /\ End(<<Shr(n, h) - 1, h>>) = Covered(n, h)
<1>1. Shr(n, h) \in Nat
  BY ShrIs, Zenon
<1>2. Shr(n, h) - 1 \in Nat /\ (Shr(n, h) - 1) + 1 = Shr(n, h)
  BY <1>1
<1>3. IsPeak(n, <<Shr(n, h) - 1, h>>)
  BY <1>2, PeakIs, Zenon
<1>4. End(<<Shr(n, h) - 1, h>>) = Covered(n, h)
  BY <1>2, EndIs, Zenon DEF Covered
<1> QED
  BY <1>2, <1>3, <1>4, Zenon DEF IsPeak

(* A taller peak is further left.                                          *)
LEMMA PeakOrder ==
  ASSUME NEW n \in Nat, NEW h \in Nat, NEW k \in Nat, Shr(n, k) % 2 = 1
  PROVE  Covered(n, k) <= Covered(n, h) <=> h <= k
<1>1. h <= k => Covered(n, k) <= Covered(n, h)
  BY CoveredFalls, Zenon
<1>2. ASSUME ~(h <= k) PROVE ~(Covered(n, k) <= Covered(n, h))
  <2>1. k + 1 \in Nat /\ k + 1 <= h
    BY <1>2
  <2>2. Covered(n, h) <= Covered(n, k + 1)
    BY <2>1, CoveredFalls, Zenon
  <2>3. Covered(n, k) = Covered(n, k + 1) + Pow2[k]
    BY CoveredNext, Zenon
  <2>4. Covered(n, h) \in Nat /\ Covered(n, k + 1) \in Nat /\ Pow2[k] \in Nat \ {0}
    BY <2>1, CoveredNext, Pow2Next, Zenon
  <2> QED
    BY <2>2, <2>3, <2>4
<1> QED
  BY <1>1, <1>2, Zenon

(* The peak of height h, all the peaks, and those of height h or more.     *)
Top(n, h) == <<Shr(n, h) - 1, h>>
Tops(n) == {m \in Forest(n) : IsPeak(n, m)}
TopsFrom(n, h) == {m \in Tops(n) : h <= m[2]}

(* The rank of the peak of height h, from the left.                        *)
Rank(n, h) == CountOnes[Shr(n, h)]

(* The rank counts the bits that are set.                                  *)
LEMMA RankNext ==
  ASSUME NEW n \in Nat, NEW h \in Nat
  PROVE  /\ Rank(n, h) \in Nat /\ Rank(n, h + 1) \in Nat
         /\ Rank(n, h) = Rank(n, h + 1) + (Shr(n, h) % 2)
         /\ Shr(n, h) % 2 \in {0, 1}
<1>1. PICK x \in Nat : x = Shr(n, h) /\ Shr(n, h + 1) = x \div 2
  BY ShrIs, ShrNext, Zenon
<1>2. x \div 2 \in Nat /\ x % 2 \in {0, 1}
  OBVIOUS
<1>3. CountOnes[x] = (x % 2) + CountOnes[x \div 2] /\ CountOnes[x] \in Nat /\ CountOnes[x \div 2] \in Nat
  BY <1>2, OnesOf, Zenon
<1>4. CountOnes[x] = CountOnes[x \div 2] + (x % 2)
  BY <1>2, <1>3
<1> QED
  BY <1>1, <1>2, <1>3, <1>4, Zenon DEF Rank

(* Every peak is that of a bit that is set.                                *)
LEMMA TopIs ==
  ASSUME NEW n \in Nat, NEW m \in Tops(n)
  PROVE  \E h \in Nat : Shr(n, h) % 2 = 1 /\ m = Top(n, h)
<1>1. m \in Forest(n) /\ IsPeak(n, m)
  BY Zenon DEF Tops
<1>2. PICK c \in Nat, h \in Nat : m = <<c, h>>
  BY <1>1, ForestNode, Zenon
<1>3. Shr(n, h) % 2 = 1 /\ c + 1 = Shr(n, h)
  BY <1>1, <1>2, PeakIs, Zenon
<1>4. c = Shr(n, h) - 1
  BY <1>3
<1> QED
  BY <1>2, <1>3, <1>4, Zenon DEF Top

(* And every bit that is set has its peak.                                 *)
LEMMA TopsFromIs ==
  ASSUME NEW n \in Nat, NEW h \in Nat, NEW k \in Nat, Shr(n, k) % 2 = 1
  PROVE  Top(n, k) \in Tops(n) /\ (Top(n, k) \in TopsFrom(n, h) <=> h <= k)
<1>1. Top(n, k) \in Tops(n)
  BY PeakEnd, Zenon DEF Tops, Top
<1>2. Top(n, k)[2] = k
  BY DEF Top
<1> QED
  BY <1>1, <1>2, Zenon DEF TopsFrom

(* One height less brings the peak of that height, if there is one.        *)
LEMMA TopsFromStep ==
  ASSUME NEW n \in Nat, NEW h \in Nat
  PROVE  TopsFrom(n, h) = IF Shr(n, h) % 2 = 1 THEN TopsFrom(n, h + 1) \cup {Top(n, h)}
                          ELSE TopsFrom(n, h + 1)
<1>1. h + 1 \in Nat /\ h <= h /\ ~(h + 1 <= h)
  OBVIOUS
<1>2. ASSUME NEW m \in Tops(n)
      PROVE  m \in TopsFrom(n, h) <=> m \in TopsFrom(n, h + 1) \/ (Shr(n, h) % 2 = 1 /\ m = Top(n, h))
  <2>1. PICK k \in Nat : Shr(n, k) % 2 = 1 /\ m = Top(n, k)
    BY TopIs, Zenon
  <2>2. m \in TopsFrom(n, h) <=> h <= k
    BY <2>1, TopsFromIs, Zenon
  <2>3. m \in TopsFrom(n, h + 1) <=> h + 1 <= k
    BY <1>1, <2>1, TopsFromIs, Zenon
  <2>4. h <= k <=> h + 1 <= k \/ k = h
    OBVIOUS
  <2>5. m = Top(n, h) => k = h
    BY <2>1 DEF Top
  <2> QED
    BY <2>1, <2>2, <2>3, <2>4, <2>5, Zenon
<1>3. \A i : TopsFrom(n, i) \subseteq Tops(n)
  BY Zenon DEF TopsFrom
<1>4. Shr(n, h) % 2 = 1 => Top(n, h) \in Tops(n)
  BY TopsFromIs, Zenon
<1> QED
  BY <1>2, <1>3, <1>4, Zenon

(* No bit is set from n on.                                                *)
LEMMA ShrToNothing ==
  ASSUME NEW n \in Nat, NEW h \in Nat, n <= h
  PROVE  Shr(n, h) = 0
<1>1. Pow2[h] \in Nat \ {0} /\ h < Pow2[h]
  BY Pow2Type, Zenon
<1>2. n < Pow2[h] /\ n = 0 * Pow2[h] + n
  BY <1>1
<1>3. n \div Pow2[h] = 0
  BY <1>1, <1>2, Quotient
<1> QED
  BY <1>3, Zenon DEF Shr

(* The rank of a peak counts the peaks from it up.                         *)
LEMMA TopsFromCount ==
  ASSUME NEW n \in Nat, NEW h \in 0..n
  PROVE  IsFiniteSet(TopsFrom(n, h)) /\ Cardinality(TopsFrom(n, h)) = Rank(n, h)
<1> DEFINE Good(k) == IsFiniteSet(TopsFrom(n, k)) /\ Cardinality(TopsFrom(n, k)) = Rank(n, k)
           Bad == {i \in 0..n : ~Good(n - i)}
<1>1. ASSUME NEW i \in Bad, \A j \in Bad : i <= j PROVE FALSE
  <2>1. i \in Nat /\ i <= n /\ ~Good(n - i)
    BY <1>1
  <2>2. i # 0
    <3>1. TopsFrom(n, n) = {}
      <4>1. ASSUME NEW m \in TopsFrom(n, n) PROVE FALSE
        <5>1. m \in Tops(n)
          BY Zenon DEF TopsFrom
        <5>2. PICK k \in Nat : Shr(n, k) % 2 = 1 /\ m = Top(n, k)
          BY <5>1, TopIs, Zenon
        <5>3. n <= k
          BY <5>2, TopsFromIs, Zenon
        <5>4. Shr(n, k) = 0
          BY <5>3, ShrToNothing, Zenon
        <5> QED
          BY <5>2, <5>4
      <4> QED
        BY <4>1, Zenon
    <3>2. Rank(n, n) = 0
      <4>1. n <= n
        OBVIOUS
      <4>2. Shr(n, n) = 0
        BY <4>1, ShrToNothing, Zenon
      <4>3. CountOnes[0] = 0
        BY CountOnesIs
      <4> QED
        BY <4>2, <4>3, Zenon DEF Rank
    <3>3. Good(n) /\ n - 0 = n
      BY <3>1, <3>2, FS_EmptySet
    <3> QED
      BY <2>1, <3>3, Zenon
  <2>3. PICK k \in Nat : k = n - i /\ k + 1 = n - (i - 1)
    BY <2>1
  <2>4. i - 1 \in 0..n /\ i - 1 \notin Bad
    BY <1>1, <2>1, <2>2
  <2>5. Good(k + 1)
    BY <2>3, <2>4, Zenon
  <2>6. Rank(n, k) \in Nat /\ Rank(n, k + 1) \in Nat /\ Rank(n, k) = Rank(n, k + 1) + (Shr(n, k) % 2)
        /\ Shr(n, k) % 2 \in {0, 1}
    BY RankNext, Zenon
  <2>7. Good(k)
    <3>1. CASE Shr(n, k) % 2 = 1
      <4>1. TopsFrom(n, k) = TopsFrom(n, k + 1) \cup {Top(n, k)}
        BY <3>1, TopsFromStep, Zenon
      <4>2. Top(n, k) \notin TopsFrom(n, k + 1)
        <5>1. k + 1 \in Nat /\ ~(k + 1 <= k)
          OBVIOUS
        <5> QED
          BY <3>1, <5>1, TopsFromIs, Zenon
      <4>3. IsFiniteSet(TopsFrom(n, k)) /\ Cardinality(TopsFrom(n, k)) = Cardinality(TopsFrom(n, k + 1)) + 1
        <5>1. PICK S, x : S = TopsFrom(n, k + 1) /\ x = Top(n, k)
          BY Zenon
        <5>2. IsFiniteSet(S \cup {x}) /\ Cardinality(S \cup {x}) = Cardinality(S) + 1
          <6>1. IsFiniteSet(S) /\ x \notin S
            BY <2>5, <4>2, <5>1, Zenon
          <6> QED
            BY <6>1, FS_AddElement, Zenon
        <5> QED
          BY <4>1, <5>1, <5>2, Zenon
      <4> QED
        BY <2>5, <2>6, <3>1, <4>3, Zenon
    <3>2. CASE Shr(n, k) % 2 = 0
      <4>1. ~(Shr(n, k) % 2 = 1) /\ Rank(n, k) = Rank(n, k + 1)
        BY <3>2, <2>6
      <4>2. TopsFrom(n, k) = TopsFrom(n, k + 1)
        BY <4>1, TopsFromStep, Zenon
      <4> QED
        BY <2>5, <4>1, <4>2, Zenon
    <3> QED
      BY <2>6, <3>1, <3>2, Zenon
  <2> QED
    BY <2>1, <2>3, <2>7, Zenon
<1>2. Bad = {}
  <2>1. Bad \in SUBSET Nat
    OBVIOUS
  <2> QED
    BY <1>1, <2>1, LeastNatural, Zenon
<1>3. n - h \in 0..n /\ n - (n - h) = h
  OBVIOUS
<1>4. Good(h)
  BY <1>2, <1>3, Zenon
<1> QED
  BY <1>4, Zenon

(* Every rank is that of one peak.                                         *)
LEMMA RankTaken ==
  ASSUME NEW n \in Nat, NEW i \in 1..CountOnes[n]
  PROVE  \E h \in Nat : Shr(n, h) % 2 = 1 /\ Rank(n, h) = i
<1> DEFINE Low == {h \in Nat : Rank(n, h) < i}
<1>0. CountOnes[n] \in Nat /\ i \in Nat /\ 1 <= i /\ i <= CountOnes[n]
  <2>1. CountOnes[n] \in Nat
    BY OnesOf, Zenon
  <2> QED
    BY <2>1
<1>1. n \in Low
  <2>1. n <= n
    OBVIOUS
  <2>2. Shr(n, n) = 0
    BY <2>1, ShrToNothing, Zenon
  <2>3. CountOnes[0] = 0
    BY CountOnesIs
  <2>4. Rank(n, n) = 0
    BY <2>2, <2>3, Zenon DEF Rank
  <2> QED
    BY <2>4, <1>0
<1>2. PICK k \in Low : \A j \in Low : k <= j
  BY <1>1, LeastNatural, Zenon
<1>3. k # 0
  <2>1. Rank(n, 0) = CountOnes[n]
    BY ShrZero, Zenon DEF Rank
  <2> QED
    BY <2>1, <1>0, <1>2
<1>4. PICK h \in Nat : k = h + 1 /\ h \notin Low
  <2>1. k - 1 \in Nat /\ k = (k - 1) + 1 /\ k - 1 \notin Low
    BY <1>2, <1>3
  <2> QED
    BY <2>1, Zenon
<1>5. Rank(n, h) \in Nat /\ Rank(n, h + 1) \in Nat /\ Rank(n, h) = Rank(n, h + 1) + (Shr(n, h) % 2)
      /\ Shr(n, h) % 2 \in {0, 1}
  BY RankNext, Zenon
<1>6. ~(Rank(n, h) < i) /\ Rank(n, h + 1) < i
  BY <1>2, <1>4, Zenon
<1>7. Shr(n, h) % 2 = 1 /\ Rank(n, h) = i
  BY <1>0, <1>5, <1>6
<1> QED
  BY <1>7, Zenon

(* It counts the peaks that are not to its right.                          *)
LEMMA TopsUpTo ==
  ASSUME NEW n \in Nat, NEW h \in Nat, Shr(n, h) % 2 = 1
  PROVE  /\ Cardinality({m \in Tops(n) : End(m) <= End(Top(n, h))}) = Rank(n, h)
         /\ Rank(n, h) \in 1..CountOnes[n]
<1>1. h \in 0..n
  <2>1. n <= h => Shr(n, h) = 0
    BY ShrToNothing, Zenon
  <2> QED
    BY <2>1
<1>2. {m \in Tops(n) : End(m) <= End(Top(n, h))} = TopsFrom(n, h)
  <2>1. ASSUME NEW m \in Tops(n) PROVE End(m) <= End(Top(n, h)) <=> m \in TopsFrom(n, h)
    <3>1. PICK k \in Nat : Shr(n, k) % 2 = 1 /\ m = Top(n, k)
      BY TopIs, Zenon
    <3>2. End(m) = Covered(n, k) /\ End(Top(n, h)) = Covered(n, h)
      BY <3>1, PeakEnd, Zenon DEF Top
    <3>3. Covered(n, k) <= Covered(n, h) <=> h <= k
      BY <3>1, PeakOrder, Zenon
    <3>4. m \in TopsFrom(n, h) <=> h <= k
      BY <3>1, TopsFromIs, Zenon
    <3> QED
      BY <3>2, <3>3, <3>4, Zenon
  <2> QED
    BY <2>1, Zenon DEF TopsFrom
<1>3. IsFiniteSet(TopsFrom(n, h)) /\ Cardinality(TopsFrom(n, h)) = Rank(n, h)
  BY <1>1, TopsFromCount, Zenon
<1>4. TopsFrom(n, h) \subseteq TopsFrom(n, 0) /\ TopsFrom(n, 0) \in SUBSET Tops(n)
  <2>1. ASSUME NEW m \in Tops(n) PROVE m \in TopsFrom(n, 0)
    <3>1. PICK k \in Nat : Shr(n, k) % 2 = 1 /\ m = Top(n, k)
      BY TopIs, Zenon
    <3>2. 0 \in Nat /\ 0 <= k
      OBVIOUS
    <3> QED
      BY <3>1, <3>2, TopsFromIs, Zenon
  <2> QED
    BY <2>1, Zenon DEF TopsFrom
<1>5. IsFiniteSet(TopsFrom(n, 0)) /\ Cardinality(TopsFrom(n, 0)) = CountOnes[n]
  <2>1. 0 \in 0..n
    OBVIOUS
  <2>2. Rank(n, 0) = CountOnes[n]
    BY ShrZero, Zenon DEF Rank
  <2> QED
    BY <2>1, <2>2, TopsFromCount, Zenon
<1>6. Cardinality(TopsFrom(n, h)) <= Cardinality(TopsFrom(n, 0))
  <2>1. TopsFrom(n, h) \in SUBSET TopsFrom(n, 0)
    BY <1>4, Zenon
  <2> QED
    BY <2>1, <1>5, FS_Subset, Zenon
<1>7. Rank(n, h) # 0
  <2>1. Rank(n, h) = Rank(n, h + 1) + (Shr(n, h) % 2) /\ Rank(n, h + 1) \in Nat
    BY RankNext, Zenon
  <2> QED
    BY <2>1
<1>8. Rank(n, h) \in Nat /\ CountOnes[n] \in Nat
  BY RankNext, OnesOf, Zenon
<1>9. Rank(n, h) <= CountOnes[n]
  BY <1>3, <1>5, <1>6, Zenon
<1>10. Rank(n, h) \in 1..CountOnes[n]
  BY <1>7, <1>8, <1>9
<1> QED
  BY <1>2, <1>3, <1>10, Zenon

(* There are as many peaks as ones in n.                                   *)
LEMMA TopsCount ==
  ASSUME NEW n \in Nat
  PROVE  Cardinality(Tops(n)) = CountOnes[n]
<1>1. TopsFrom(n, 0) = Tops(n)
  <2>1. ASSUME NEW m \in Tops(n) PROVE m \in TopsFrom(n, 0)
    <3>1. PICK k \in Nat : Shr(n, k) % 2 = 1 /\ m = Top(n, k)
      BY TopIs, Zenon
    <3>2. 0 \in Nat /\ 0 <= k
      OBVIOUS
    <3> QED
      BY <3>1, <3>2, TopsFromIs, Zenon
  <2> QED
    BY <2>1, Zenon DEF TopsFrom
<1>2. 0 \in 0..n
  OBVIOUS
<1>3. Rank(n, 0) = CountOnes[n]
  BY ShrZero, Zenon DEF Rank
<1> QED
  BY <1>1, <1>2, <1>3, TopsFromCount, Zenon

(* No two peaks have the same rank.                                        *)
LEMMA RankOfOne ==
  ASSUME NEW n \in Nat, NEW h \in Nat, NEW k \in Nat,
         Shr(n, h) % 2 = 1, Shr(n, k) % 2 = 1, Rank(n, h) = Rank(n, k)
  PROVE  h = k
<1>1. ASSUME NEW i \in Nat, NEW j \in Nat, Shr(n, i) % 2 = 1, Shr(n, j) % 2 = 1,
             Rank(n, i) = Rank(n, j), i <= j
      PROVE  j <= i
  <2>1. i \in 0..n /\ j \in 0..n
    <3>1. (n <= i => Shr(n, i) = 0) /\ (n <= j => Shr(n, j) = 0)
      BY ShrToNothing, Zenon
    <3> QED
      BY <3>1, <1>1
  <2>2. /\ IsFiniteSet(TopsFrom(n, i)) /\ Cardinality(TopsFrom(n, i)) = Rank(n, i)
        /\ Cardinality(TopsFrom(n, j)) = Rank(n, j)
    BY <2>1, TopsFromCount, Zenon
  <2>3. TopsFrom(n, j) \in SUBSET TopsFrom(n, i)
    <3>1. ASSUME NEW m \in TopsFrom(n, j) PROVE m \in TopsFrom(n, i)
      <4>1. m \in Tops(n)
        BY Zenon DEF TopsFrom
      <4>2. PICK x \in Nat : Shr(n, x) % 2 = 1 /\ m = Top(n, x)
        BY <4>1, TopIs, Zenon
      <4>3. j <= x
        BY <4>2, TopsFromIs, Zenon
      <4>4. i <= x
        BY <4>3, <1>1
      <4> QED
        BY <4>2, <4>4, TopsFromIs, Zenon
    <3> QED
      BY <3>1, Zenon
  <2>4. TopsFrom(n, i) = TopsFrom(n, j)
    <3>1. PICK S, T : S = TopsFrom(n, i) /\ T = TopsFrom(n, j)
      BY Zenon
    <3>2. S = T
      <4>1. IsFiniteSet(S) /\ T \in SUBSET S /\ Cardinality(S) = Cardinality(T)
        BY <1>1, <2>2, <2>3, <3>1, Zenon
      <4> QED
        BY <4>1, FS_Subset, Zenon
    <3> QED
      BY <3>1, <3>2, Zenon
  <2>5. i <= i
    OBVIOUS
  <2>6. Top(n, i) \in TopsFrom(n, i)
    BY <1>1, <2>5, TopsFromIs, Zenon
  <2> QED
    BY <1>1, <2>4, <2>6, TopsFromIs, Zenon
<1>2. h <= k => k <= h
  BY <1>1, Zenon
<1>3. k <= h => h <= k
  BY <1>1, Zenon
<1> QED
  BY <1>2, <1>3

(* PeakSeq lists the peaks by rank.                                        *)
LEMMA PeakSeqIs ==
  ASSUME NEW n \in Nat
  PROVE  /\ PeakSeq(n) = [i \in 1..CountOnes[n] |-> PeakSeq(n)[i]]
         /\ \A h \in Nat : Shr(n, h) % 2 = 1 =>
              Rank(n, h) \in 1..CountOnes[n] /\ PeakSeq(n)[Rank(n, h)] = Top(n, h)
<1> DEFINE UpTo(top) == Cardinality({m \in Tops(n) : End(m) <= End(top)})
           Pick(i) == CHOOSE top \in Tops(n) : UpTo(top) = i
<1>1. PeakSeq(n) = [i \in 1..Cardinality(Tops(n)) |-> Pick(i)]
  BY Zenon DEF PeakSeq, Tops
<1>2. PeakSeq(n) = [i \in 1..CountOnes[n] |-> Pick(i)]
  BY <1>1, TopsCount, Zenon
<1>3. ASSUME NEW h \in Nat, Shr(n, h) % 2 = 1
      PROVE  Rank(n, h) \in 1..CountOnes[n] /\ PeakSeq(n)[Rank(n, h)] = Top(n, h)
  <2>1. Rank(n, h) \in 1..CountOnes[n] /\ UpTo(Top(n, h)) = Rank(n, h) /\ Top(n, h) \in Tops(n)
    BY <1>3, TopsUpTo, TopsFromIs, Zenon
  <2>2. ASSUME NEW top \in Tops(n), UpTo(top) = Rank(n, h) PROVE top = Top(n, h)
    <3>1. PICK k \in Nat : Shr(n, k) % 2 = 1 /\ top = Top(n, k)
      BY TopIs, Zenon
    <3>2. Rank(n, k) = Rank(n, h)
      BY <2>2, <3>1, TopsUpTo, Zenon
    <3>3. k = h
      BY <1>3, <3>1, <3>2, RankOfOne, Zenon
    <3> QED
      BY <3>1, <3>3, Zenon
  <2> HIDE DEF UpTo
  <2>3. Pick(Rank(n, h)) \in Tops(n) /\ UpTo(Pick(Rank(n, h))) = Rank(n, h)
    BY <2>1, Zenon
  <2> HIDE DEF Pick
  <2>4. Pick(Rank(n, h)) = Top(n, h)
    BY <2>2, <2>3, Zenon
  <2> QED
    BY <1>2, <2>1, <2>4, Zenon
<1> HIDE DEF Pick
<1>4. PeakSeq(n) = [i \in 1..CountOnes[n] |-> PeakSeq(n)[i]]
  BY <1>2, Zenon
<1> QED
  BY <1>3, <1>4, Zenon

-----------------------------------------------------------------------------
(* The hashes of the reference.                                            *)

(* What Hashes has to satisfy, as far as height n.                         *)
Hashing(g, n) == \A i \in 0..n : g[i] = IF i = 0 THEN LeafHashes ELSE Paired(g[i - 1])

(* There are hashes up to any height.                                      *)
LEMMA HashingUpTo ==
  ASSUME NEW n \in Nat
  PROVE  \E g : Hashing(g, n)
<1> DEFINE Bad == {m \in Nat : ~\E g : Hashing(g, m)}
<1> SUFFICES ASSUME Bad # {} PROVE FALSE
  BY Zenon
<1>1. PICK m \in Bad : \A j \in Bad : m <= j
  BY LeastNatural, Zenon
<1>2. m # 0
  <2> DEFINE f == [i \in 0..0 |-> LeafHashes]
  <2>1. \A i \in 0..0 : i = 0
    OBVIOUS
  <2>2. \A i \in 0..0 : f[i] = IF i = 0 THEN LeafHashes ELSE Paired(f[i - 1])
    BY <2>1, Zenon
  <2> QED
    BY <1>1, <2>2, Zenon DEF Hashing
<1>3. m - 1 \in Nat /\ m - 1 \notin Bad
  BY <1>1, <1>2
<1>4. PICK f : Hashing(f, m - 1)
  BY <1>3, Zenon
<1> DEFINE g == [i \in 0..m |-> IF i = m THEN Paired(f[m - 1]) ELSE f[i]]
<1>5. \A i \in 0..(m - 1) : f[i] = IF i = 0 THEN LeafHashes ELSE Paired(f[i - 1])
  BY <1>4, Zenon DEF Hashing
<1>6. \A i \in 0..m : g[i] = IF i = 0 THEN LeafHashes ELSE Paired(g[i - 1])
  <2>1. /\ \A i \in 0..m : i # m => i \in 0..(m - 1)
        /\ \A i \in 0..m : i # 0 => i - 1 \in 0..m /\ i - 1 # m
        /\ m \in 0..m
    BY <1>1, <1>2
  <2>2. g[m] = Paired(f[m - 1]) /\ \A i \in 0..m : i # m => g[i] = f[i]
    BY <2>1, Zenon
  <2> HIDE DEF g
  <2> QED
    BY <1>2, <1>5, <2>1, <2>2, Zenon
<1> HIDE DEF g
<1>7. Hashing(g, m)
  BY <1>6, Zenon DEF Hashing
<1> QED
  BY <1>1, <1>7, Zenon

(* Two of them agree where both are defined.                               *)
LEMMA HashingAgree ==
  ASSUME NEW m \in Nat, NEW n \in Nat, m <= n, NEW g, NEW h, Hashing(g, n), Hashing(h, m)
  PROVE  g[m] = h[m]
<1> DEFINE Bad == {i \in 0..m : g[i] # h[i]}
<1>1. \A i \in 0..m : i \in 0..n
  OBVIOUS
<1>2. ASSUME Bad # {} PROVE FALSE
  <2>1. PICK i \in Bad : \A j \in Bad : i <= j
    <3>1. Bad \in SUBSET Nat
      OBVIOUS
    <3> QED
      BY <1>2, <3>1, LeastNatural, Zenon
  <2>2. i # 0 => i - 1 \in 0..m /\ i - 1 \notin Bad
    BY <2>1
  <2>3. i # 0 => g[i - 1] = h[i - 1]
    BY <2>2, Zenon
  <2> QED
    BY <1>1, <2>1, <2>3, Zenon DEF Hashing
<1>3. m \in 0..m
  OBVIOUS
<1> QED
  BY <1>2, <1>3, Zenon

(* So Hashes is what its definition says.                                  *)
LEMMA HashesAre ==
  ASSUME NEW n \in Nat
  PROVE  Hashes[n] = IF n = 0 THEN LeafHashes ELSE Paired(Hashes[n - 1])
<1> DEFINE G(m) == CHOOSE g : Hashing(g, m)
           F == [m \in Nat |-> G(m)[m]]
<1>1. \A m \in Nat : Hashing(G(m), m)
  BY HashingUpTo, Zenon
<1> HIDE DEF G
<1>2. ASSUME NEW m \in Nat PROVE F[m] = IF m = 0 THEN LeafHashes ELSE Paired(F[m - 1])
  <2>1. m \in 0..m /\ (m # 0 => m - 1 \in Nat /\ m - 1 <= m)
    OBVIOUS
  <2>2. G(m)[m] = IF m = 0 THEN LeafHashes ELSE Paired(G(m)[m - 1])
    BY <1>1, <2>1, Zenon DEF Hashing
  <2>3. ASSUME NEW k \in Nat, k <= m PROVE G(m)[k] = G(k)[k]
    BY <1>1, <2>3, HashingAgree, Zenon
  <2> QED
    BY <2>1, <2>2, <2>3, Zenon
<1> HIDE DEF F
<1>3. F = [m \in Nat |-> IF m = 0 THEN LeafHashes ELSE Paired(F[m - 1])]
  <2>1. F = [m \in Nat |-> F[m]]
    BY Zenon DEF F
  <2> QED
    BY <1>2, <2>1, Zenon
<1>4. PICK f : f = Hashes
  BY Zenon
<1>5. f = [m \in Nat |-> IF m = 0 THEN LeafHashes ELSE Paired(f[m - 1])]
  BY <1>3, <1>4, Zenon DEF Hashes
<1>6. f[n] = IF n = 0 THEN LeafHashes ELSE Paired(f[n - 1])
  BY <1>5, Zenon
<1> QED
  BY <1>4, <1>6, Zenon

(* The hash of a leaf's node, and of an inner node.                        *)
LEMMA HashInIs ==
  ASSUME NEW c \in Nat, NEW h \in Nat
  PROVE  /\ HashIn(<<c, 0>>) = LeafHash(c + 1)
         /\ HashIn(<<c, h + 1>>) = NodeHash(HashIn(<<2 * c, h>>), HashIn(<<2 * c + 1, h>>))
<1>1. ASSUME NEW d, NEW k PROVE HashIn(<<d, k>>) = Hashes[k][d]
  BY DEF HashIn
<1>2. 0 \in Nat /\ h + 1 \in Nat /\ h + 1 # 0 /\ (h + 1) - 1 = h
  OBVIOUS
<1>3. Hashes[0] = LeafHashes /\ Hashes[h + 1] = Paired(Hashes[h])
  BY <1>2, HashesAre, Zenon
<1>4. LeafHashes[c] = LeafHash(c + 1)
  BY Zenon DEF LeafHashes
<1>5. Paired(Hashes[h])[c] = NodeHash(Hashes[h][2 * c], Hashes[h][2 * c + 1])
  BY Zenon DEF Paired
<1> QED
  BY <1>1, <1>3, <1>4, <1>5, Zenon

(* The peaks of ForestMMR.                                                 *)
ForestPeaks(n) == [i \in 1..CountOnes[n] |-> HashIn(PeakSeq(n)[i])]

(* The fields of ForestMMR, all together,                                  *)
LEMMA ForestMMRForm ==
  ASSUME NEW n \in Nat
  PROVE  /\ ForestMMR(n) = [peaks |-> ForestPeaks(n), size |-> n, node_count |-> get_mmr_node_pos(n)]
         /\ Len(PeakSeq(n)) = CountOnes[n]
<1>1. CountOnes[n] \in Nat
  BY OnesOf, Zenon
<1>2. Len(PeakSeq(n)) = CountOnes[n]
  BY <1>1, PeakSeqIs, IndexedIsList, Zenon
<1>3. Cardinality(Forest(n)) = get_mmr_node_pos(n)
  BY ForestCount, Zenon
<1> QED
  BY <1>2, <1>3, Zenon DEF ForestMMR, ForestPeaks

(* and one by one.                                                         *)
LEMMA ForestMMRIs ==
  ASSUME NEW n \in Nat
  PROVE  /\ ForestMMR(n).size = n
         /\ ForestMMR(n).node_count = get_mmr_node_pos(n)
         /\ ForestMMR(n).peaks = ForestPeaks(n)
         /\ CountOnes[n] \in Nat
         /\ IsList(ForestPeaks(n)) /\ Len(ForestPeaks(n)) = CountOnes[n]
<1>1. CountOnes[n] \in Nat
  BY OnesOf, Zenon
<1>2. PICK p, c : p = ForestPeaks(n) /\ c = get_mmr_node_pos(n)
  BY Zenon
<1>3. ForestMMR(n) = [peaks |-> p, size |-> n, node_count |-> c]
  BY <1>2, ForestMMRForm, Zenon
<1>4. ForestMMR(n).size = n /\ ForestMMR(n).node_count = c /\ ForestMMR(n).peaks = p
  BY <1>3
<1>5. ForestPeaks(n) = [i \in 1..CountOnes[n] |-> ForestPeaks(n)[i]]
  BY Zenon DEF ForestPeaks
<1> QED
  BY <1>1, <1>2, <1>4, <1>5, IndexedIsList, Zenon

(* The peak of height h has the hash of its node.                          *)
LEMMA ForestPeakIs ==
  ASSUME NEW n \in Nat, NEW h \in Nat, Shr(n, h) % 2 = 1
  PROVE  ForestPeaks(n)[Rank(n, h)] = HashIn(Top(n, h))
BY PeakSeqIs, Zenon DEF ForestPeaks

(* The hashes add_leaf creates are those of the new nodes.                 *)
LEMMA CarriedInForest ==
  ASSUME NEW n \in Nat, NEW j \in Nat, j <= TrailingOnes[n]
  PROVE  CarryHashes(ForestMMR(n), n + 1)[j + 1] = HashIn(<<Shr(n, j), j>>)
<1> DEFINE C == CarryHashes(ForestMMR(n), n + 1)
           Good(i) == C[i + 1] = HashIn(<<Shr(n, i), i>>)
           Bad == {i \in Nat : i <= TrailingOnes[n] /\ ~Good(i)}
<1> SUFFICES ASSUME Bad # {} PROVE FALSE
  BY Zenon
<1>1. PICK i \in Bad : \A k \in Bad : i <= k
  BY LeastNatural, Zenon
<1>2. /\ C[1] = LeafHash(n + 1)
      /\ \A k \in 1..TrailingOnes[n] :
           C[k + 1] = NodeHash(ForestPeaks(n)[CountOnes[n] - k + 1], C[k])
  <2>1. Counted(ForestMMR(n))
    BY ForestMMRIs, ForestCount, Zenon DEF Counted
  <2>2. PICK range : range = ForestMMR(n)
    BY Zenon
  <2>3. /\ range.size = n /\ range.peaks = ForestPeaks(n)
        /\ Len(range.peaks) = CountOnes[n] /\ Counted(range) /\ C = CarryHashes(range, n + 1)
    BY <2>1, <2>2, ForestMMRIs, Zenon
  <2> HIDE DEF C
  <2>4. /\ CarryHashes(range, n + 1)[1] = LeafHash(n + 1)
        /\ \A k \in 1..TrailingOnes[range.size] :
             CarryHashes(range, n + 1)[k + 1]
               = NodeHash(range.peaks[Len(range.peaks) - k + 1], CarryHashes(range, n + 1)[k])
    BY <2>3, CarriedHashes, Zenon
  <2> QED
    BY <2>3, <2>4, Zenon
<1> HIDE DEF C
<1>3. CASE i = 0
  <2>1. Shr(n, 0) = n /\ HashIn(<<n, 0>>) = LeafHash(n + 1)
    BY ShrZero, HashInIs, Zenon
  <2>2. 0 + 1 = 1
    OBVIOUS
  <2> QED
    BY <1>1, <1>2, <1>3, <2>1, <2>2, Zenon
<1>4. CASE i # 0
  <2>0. TrailingOnes[n] \in Nat
    BY OnesOf, Zenon
  <2>1. PICK k \in Nat : i = k + 1
    <3>1. i - 1 \in Nat /\ i = (i - 1) + 1
      BY <1>1, <1>4
    <3> QED
      BY <3>1, Zenon
  <2>2. k <= TrailingOnes[n] /\ k # TrailingOnes[n] /\ ~(i <= k) /\ i \in 1..TrailingOnes[n]
    BY <1>1, <2>0, <2>1
  <2>3. C[i] = HashIn(<<Shr(n, k), k>>)
    BY <1>1, <2>1, <2>2, Zenon
  <2>4. /\ Shr(n, k) % 2 = 1 /\ CountOnes[Shr(n, k)] = CountOnes[n] - k
    BY <2>2, TrailingBits, TrailingShr, Zenon
  <2>5. CountOnes[n] - i + 1 = Rank(n, k)
    <3>1. CountOnes[n] \in Nat
      BY OnesOf, Zenon
    <3>2. CountOnes[n] - i + 1 = CountOnes[n] - k
      BY <2>1, <3>1
    <3> QED
      BY <2>4, <3>2, Zenon DEF Rank
  <2>6. ForestPeaks(n)[CountOnes[n] - i + 1] = HashIn(<<Shr(n, k) - 1, k>>)
    BY <2>4, <2>5, ForestPeakIs, Zenon DEF Top
  <2>7. PICK c \in Nat : Shr(n, i) = c /\ Shr(n, k) = 2 * c + 1 /\ Shr(n, k) - 1 = 2 * c
    <3>1. Shr(n, i) \in Nat /\ Shr(n, k) = 2 * Shr(n, i) + (Shr(n, k) % 2) /\ Shr(n, k) \in Nat
      BY <2>1, Halved, Zenon
    <3>2. Shr(n, k) = 2 * Shr(n, i) + 1 /\ Shr(n, k) - 1 = 2 * Shr(n, i)
      BY <2>4, <3>1
    <3> QED
      BY <3>1, <3>2, Zenon
  <2>8. C[i + 1] = NodeHash(HashIn(<<2 * c, k>>), HashIn(<<2 * c + 1, k>>))
    BY <1>2, <2>2, <2>3, <2>6, <2>7, Zenon
  <2>9. HashIn(<<c, i>>) = NodeHash(HashIn(<<2 * c, k>>), HashIn(<<2 * c + 1, k>>))
    BY <2>1, HashInIs, Zenon
  <2> QED
    BY <1>1, <2>7, <2>8, <2>9, Zenon
<1> QED
  BY <1>3, <1>4, Zenon

(* add_leaf takes the range over n leaves to the one over n + 1.           *)
LEMMA LeafBuildsTheForest ==
  ASSUME NEW n \in Nat
  PROVE  add_leaf(ForestMMR(n), n + 1) = ForestMMR(n + 1)
<1> DEFINE t == TrailingOnes[n]
           old == ForestPeaks(n)
           kept == CountOnes[n] - t
           x == HashIn(<<Shr(n, t), t>>)
           new == ForestPeaks(n + 1)
           P == Append(SubSeq(old, 1, kept), x)
<1>0. n + 1 \in Nat
  OBVIOUS
<1>1. /\ t \in Nat /\ t <= t /\ CountOnes[n] \in Nat /\ kept \in Nat /\ kept <= CountOnes[n]
      /\ CountOnes[n + 1] = kept + 1 /\ CountOnes[n + 1] \in Nat
  <2>1. t \in Nat /\ CountOnes[n] \in Nat /\ t <= CountOnes[n]
        /\ CountOnes[n + 1] = CountOnes[n] - t + 1
    BY OnesOf, Carry, Zenon
  <2> HIDE DEF t
  <2> QED
    BY <2>1
<1>2. CarryHashes(ForestMMR(n), n + 1)[t + 1] = x
  BY <1>1, CarriedInForest, Zenon
<1>3. add_leaf(ForestMMR(n), n + 1)
        = [peaks |-> P, size |-> n + 1, node_count |-> get_mmr_node_pos(n) + t + 1]
  BY <1>2, ForestMMRIs, Zenon DEF add_leaf
<1>4. get_mmr_node_pos(n + 1) = get_mmr_node_pos(n) + t + 1
  BY ForestCount, Zenon
<1>5. ForestMMR(n + 1) = [peaks |-> new, size |-> n + 1, node_count |-> get_mmr_node_pos(n + 1)]
  BY <1>0, ForestMMRForm, Zenon
<1>6. /\ P = [i \in 1..(kept + 1) |-> P[i]]
      /\ P[kept + 1] = x
      /\ \A i \in 1..kept : P[i] = old[i]
  <2>1. PICK S : old \in Seq(S) /\ Len(old) = CountOnes[n]
    BY ForestMMRIs, Zenon DEF IsList
  <2>2. PICK R : x \in R /\ old \in Seq(R) /\ Len(old) = CountOnes[n]
    <3>1. old \in Seq(S \cup {x}) /\ x \in S \cup {x}
      <4> HIDE DEF old, x
      <4> QED
        BY <2>1
    <3> QED
      BY <2>1, <3>1, Zenon
  <2> HIDE DEF old, x, kept, t
  <2>3. SubSeq(old, 1, kept) \in Seq(R) /\ Len(SubSeq(old, 1, kept)) = kept
        /\ \A i \in 1..kept : SubSeq(old, 1, kept)[i] = old[i]
    BY <1>1, <2>2
  <2> QED
    BY <1>1, <2>2, <2>3
<1>7. ASSUME NEW i \in 1..(kept + 1) PROVE new[i] = P[i]
  <2>1. PICK h \in Nat : Shr(n + 1, h) % 2 = 1 /\ Rank(n + 1, h) = i
    <3>1. i \in 1..CountOnes[n + 1]
      BY <1>1, Zenon
    <3> QED
      BY <1>0, <3>1, RankTaken, Zenon
  <2>2. new[i] = HashIn(Top(n + 1, h))
    BY <1>0, <2>1, ForestPeakIs, Zenon
  <2>3. Shr(n + 1, h) = IF h <= t THEN Shr(n, h) + 1 ELSE Shr(n, h)
    BY ShrCarry, Zenon
  <2>4. h <= t => h = t
    <3>1. SUFFICES ASSUME h <= t, h # t PROVE FALSE
      BY Zenon
    <3>2. Shr(n, h) % 2 = 1 /\ Shr(n, h) \in Nat /\ Shr(n + 1, h) = Shr(n, h) + 1
      BY <2>3, <3>1, TrailingBits, ShrIs, Zenon
    <3> QED
      BY <2>1, <3>2
  <2>5. Rank(n + 1, t) = kept + 1 /\ Shr(n + 1, t) % 2 = 1
    <3>1. /\ Shr(n, t) % 2 = 0 /\ Shr(n, t) \in Nat /\ Shr(n + 1, t) = Shr(n, t) + 1
          /\ CountOnes[Shr(n, t)] = kept /\ TrailingOnes[Shr(n, t)] = 0
      BY <1>1, TrailingBits, ShrIs, ShrCarry, TrailingShr, OnesOf, Zenon
    <3>2. CountOnes[Shr(n, t) + 1] = kept - 0 + 1
      BY <3>1, Carry, Zenon
    <3>3. CountOnes[Shr(n, t) + 1] = kept + 1
      BY <1>1, <3>2
    <3>4. Shr(n + 1, t) % 2 = 1
      BY <3>1
    <3> QED
      BY <3>1, <3>3, <3>4, Zenon DEF Rank
  <2>6. CASE h <= t
    <3>1. h = t /\ i = kept + 1
      BY <2>1, <2>4, <2>5, <2>6, Zenon
    <3>2. Shr(n + 1, h) - 1 = Shr(n, h)
      <4>1. Shr(n, h) \in Nat
        BY ShrIs, Zenon
      <4> QED
        BY <2>3, <2>6, <4>1
    <3> QED
      BY <1>6, <2>2, <3>1, <3>2, Zenon DEF Top
  <2>7. CASE ~(h <= t)
    <3>1. Shr(n + 1, h) = Shr(n, h)
      BY <2>3, <2>7, Zenon
    <3>2. i # kept + 1
      BY <1>0, <1>1, <2>1, <2>5, <2>7, RankOfOne, Zenon
    <3>3. i \in 1..kept
      BY <1>1, <3>2
    <3>4. Shr(n, h) % 2 = 1 /\ Rank(n, h) = i
      BY <2>1, <3>1, Zenon DEF Rank
    <3>5. old[i] = HashIn(Top(n, h))
      BY <3>4, ForestPeakIs, Zenon
    <3> QED
      BY <1>6, <2>2, <3>1, <3>3, <3>5, Zenon DEF Top
  <2> QED
    BY <2>6, <2>7, Zenon
<1>8. new = P
  <2>1. new = [i \in 1..(kept + 1) |-> new[i]]
    BY <1>1, Zenon DEF ForestPeaks
  <2> HIDE DEF new, P
  <2> QED
    BY <1>6, <1>7, <2>1, Zenon
<1> QED
  BY <1>3, <1>4, <1>5, <1>8, Zenon

-----------------------------------------------------------------------------
(* A batch.                                                                *)

(* The leaves of a batch, one by one.                                      *)
LEMMA LeavesAre ==
  ASSUME NEW k \in Nat, NEW n \in Nat, k <= n
  PROVE  /\ IsList(Leaves(k + 1, n)) /\ Len(Leaves(k + 1, n)) = n - k
         /\ n - k \in Nat
         /\ \A i \in 1..(n - k) : Leaves(k + 1, n)[i] = k + i
<1>1. Leaves(k + 1, n) = [i \in 1..(n - (k + 1) + 1) |-> (k + 1) + i - 1]
  BY Zenon DEF Leaves
<1>2. n - k \in Nat /\ n - (k + 1) + 1 = n - k /\ \A i \in 1..(n - k) : (k + 1) + i - 1 = k + i
  OBVIOUS
<1>3. Leaves(k + 1, n) = [i \in 1..(n - k) |-> k + i]
  BY <1>1, <1>2, Zenon
<1>4. /\ Leaves(k + 1, n) = [i \in 1..(n - k) |-> Leaves(k + 1, n)[i]]
      /\ \A i \in 1..(n - k) : Leaves(k + 1, n)[i] = k + i
  BY <1>3, Zenon
<1> QED
  BY <1>2, <1>4, IndexedIsList, Zenon

(* The loop over a batch, after i of its leaves.                           *)
LEMMA FedIsForest ==
  ASSUME NEW k \in Nat, NEW n \in Nat, k <= n, NEW i \in 0..(n - k)
  PROVE  Fed(ForestMMR(k), Leaves(k + 1, n))[i] = ForestMMR(k + i)
<1> DEFINE txs == Leaves(k + 1, n)
           fed == Fed(ForestMMR(k), txs)
           Bad == {j \in 0..(n - k) : fed[j] # ForestMMR(k + j)}
<1> SUFFICES ASSUME Bad # {} PROVE FALSE
  BY Zenon
<1>1. Len(txs) = n - k /\ n - k \in Nat /\ \A j \in 1..(n - k) : txs[j] = k + j
  BY LeavesAre, Zenon
<1> HIDE DEF txs
<1>2. fed[0] = ForestMMR(k) /\ \A j \in 1..(n - k) : fed[j] = add_leaf(fed[j - 1], txs[j])
  <2>1. Feeds(fed, ForestMMR(k), txs)
    BY <1>1, FedIs, Zenon
  <2> QED
    BY <1>1, <2>1, Zenon DEF Feeds
<1> HIDE DEF fed
<1>3. PICK j \in Bad : \A m \in Bad : j <= m
  <2>1. Bad \in SUBSET Nat
    BY <1>1
  <2> QED
    BY <2>1, LeastNatural, Zenon
<1>4. j # 0
  <2>1. k + 0 = k
    OBVIOUS
  <2> QED
    BY <1>2, <1>3, <2>1, Zenon
<1>5. PICK m \in Nat : j = m + 1 /\ j - 1 = m /\ m \in 0..(n - k) /\ j \in 1..(n - k)
                       /\ k + m \in Nat /\ k + j = (k + m) + 1 /\ ~(j <= m)
  <2>1. j \in Nat /\ j - 1 \in Nat
    BY <1>1, <1>3, <1>4
  <2>2. LET m == j - 1
        IN j = m + 1 /\ j - 1 = m /\ m \in 0..(n - k) /\ j \in 1..(n - k)
                       /\ k + m \in Nat /\ k + j = (k + m) + 1 /\ ~(j <= m)
    BY <1>1, <1>3, <1>4, <2>1
  <2> QED
    BY <2>1, <2>2, Zenon
<1>6. fed[m] = ForestMMR(k + m)
  BY <1>3, <1>5, Zenon
<1>7. fed[j] = add_leaf(ForestMMR(k + m), (k + m) + 1)
  BY <1>1, <1>2, <1>5, <1>6, Zenon
<1>8. fed[j] = ForestMMR((k + m) + 1)
  BY <1>5, <1>7, LeafBuildsTheForest, Zenon
<1> QED
  BY <1>3, <1>5, <1>8, Zenon

(* update_state_batch takes the forest's range to the forest's range.      *)
LEMMA BatchBuilds ==
  ASSUME NEW k \in Nat, NEW n \in Nat, k <= n
  PROVE  BatchBuildsTheForest(k, n)
<1>1. PeaksSuffice(ForestMMR(k))
  <2>1. TrailingOnes[k] <= CountOnes[k]
    BY Carry, Zenon
  <2> QED
    BY <2>1, ForestMMRIs, Zenon DEF PeaksSuffice
<1>2. FeedMMR(ForestMMR(k), Leaves(k + 1, n)) = ForestMMR(n)
  <2>1. n - k \in 0..(n - k) /\ k + (n - k) = n
    OBVIOUS
  <2>2. Len(Leaves(k + 1, n)) = n - k
    BY LeavesAre, Zenon
  <2>3. Fed(ForestMMR(k), Leaves(k + 1, n))[n - k] = ForestMMR(k + (n - k))
    BY <2>1, FedIsForest, Zenon
  <2> QED
    BY <2>1, <2>2, <2>3, Zenon DEF FeedMMR
<1> QED
  BY <1>1, <1>2, Zenon DEF BatchBuildsTheForest

(* A range restored by set_mmr_state ends with the same peaks and root.    *)
LEMMA ResumedRoot ==
  ASSUME NEW k \in Nat, NEW n \in Nat, k <= n
  PROVE  /\ get_root(Resumed(k, n)) = get_root(ForestMMR(n))
         /\ Resumed(k, n).peaks = ForestMMR(n).peaks /\ Resumed(k, n).size = n
<1>1. Restored(k).peaks = ForestMMR(k).peaks /\ Restored(k).size = ForestMMR(k).size
  <2>1. PICK p, s : p = ForestMMR(k).peaks /\ s = ForestMMR(k).size
    BY Zenon
  <2>2. Restored(k) = set_mmr_state(EmptyMMR, p, s)
    BY <2>1, Zenon DEF Restored
  <2>3. set_mmr_state(EmptyMMR, p, s).peaks = p /\ set_mmr_state(EmptyMMR, p, s).size = s
    BY DEF set_mmr_state, EmptyMMR
  <2> QED
    BY <2>1, <2>2, <2>3, Zenon
<1>2. Alike(Restored(k), ForestMMR(k))
  BY <1>1, Zenon DEF Alike
<1>3. Len(Leaves(k + 1, n)) \in Nat
  BY LeavesAre, Zenon
<1>4. Alike(Resumed(k, n), FeedMMR(ForestMMR(k), Leaves(k + 1, n)))
  BY <1>2, <1>3, LeavesKeepAlike, Zenon DEF Resumed
<1>5. Alike(Resumed(k, n), ForestMMR(n))
  BY <1>4, BatchBuilds, Zenon DEF BatchBuildsTheForest
<1> QED
  BY <1>5, RootOfPeaks, ForestMMRIs, Zenon DEF Alike

(* The range of a new state is that of no leaves.                          *)
LEMMA EmptyIsForest == EmptyMMR = ForestMMR(0)
<1>1. CountOnes[0] = 0 /\ 0 \in Nat
  BY CountOnesIs
<1>2. get_mmr_node_pos(0) = 0
  BY <1>1 DEF get_mmr_node_pos
<1>3. ForestPeaks(0) = <<>>
  <2>1. PICK S : ForestPeaks(0) \in Seq(S) /\ Len(ForestPeaks(0)) = 0
    BY <1>1, ForestMMRIs, Zenon DEF IsList
  <2> QED
    BY <2>1
<1> QED
  BY <1>1, <1>2, <1>3, ForestMMRForm, Zenon DEF EmptyMMR

(* What add_leaf returns for leaf m + 1.                                   *)
NodeAt(m, j) == [pos |-> get_mmr_node_pos(m) + j, hash |-> HashIn(<<Shr(m, j), j>>)]

(* x is one of the pairs returned for leaf m + 1.                          *)
NodeOfLeaf(m, x) == \E j \in Nat : j <= TrailingOnes[m] /\ x = NodeAt(m, j)

(* The pairs add_leaf returns are the new nodes of the forest.             *)
LEMMA AddedInForest ==
  ASSUME NEW m \in Nat, NEW x
  PROVE  x \in Members(added_nodes(ForestMMR(m), m + 1))
           <=> NodeOfLeaf(m, x)
<1> DEFINE t == TrailingOnes[m]
           C == CarryHashes(ForestMMR(m), m + 1)
           added == added_nodes(ForestMMR(m), m + 1)
<1>0. Counted(ForestMMR(m)) /\ t \in Nat
  BY ForestMMRIs, ForestCount, OnesOf, Zenon DEF Counted
<1>1. Len(C) = t + 1
  <2>1. PICK range : range = ForestMMR(m)
    BY Zenon
  <2>2. Counted(range) /\ range.size = m
    BY <1>0, <2>1, ForestMMRIs, Zenon
  <2>3. Len(CarryHashes(range, m + 1)) = TrailingOnes[range.size] + 1
    BY <2>2, CarriedHashes, Zenon
  <2> QED
    BY <2>1, <2>2, <2>3, Zenon
<1>2. added = [j \in 1..(t + 1) |-> [pos |-> get_mmr_node_pos(m) + j - 1, hash |-> C[j]]]
  BY <1>1, ForestMMRIs, Zenon DEF added_nodes
<1>3. \A j \in Nat : j <= t => C[j + 1] = HashIn(<<Shr(m, j), j>>)
  BY CarriedInForest, Zenon
<1> HIDE DEF C, added
<1>4. \A j \in 1..(t + 1) : added[j] = [pos |-> get_mmr_node_pos(m) + j - 1, hash |-> C[j]]
  BY <1>2, Zenon
<1>5. Len(added) = t + 1
  <2>1. t + 1 \in Nat
    BY <1>0
  <2>2. added = [j \in 1..(t + 1) |-> added[j]]
    BY <1>2, Zenon
  <2> QED
    BY <2>1, <2>2, IndexedIsList, Zenon
<1>6. get_mmr_node_pos(m) \in Nat
  BY ForestCount, Zenon
<1>7. ASSUME NEW j \in Nat, j <= t PROVE j + 1 \in 1..(t + 1) /\ added[j + 1] = NodeAt(m, j)
  <2>1. j + 1 \in 1..(t + 1) /\ get_mmr_node_pos(m) + (j + 1) - 1 = get_mmr_node_pos(m) + j
    BY <1>0, <1>6, <1>7
  <2> QED
    BY <1>3, <1>4, <1>7, <2>1, Zenon DEF NodeAt
<1>8. ASSUME NEW i \in 1..(t + 1) PROVE \E j \in Nat : j <= t /\ i = j + 1
  <2>1. i - 1 \in Nat /\ i - 1 <= t /\ i = (i - 1) + 1
    BY <1>0
  <2> QED
    BY <2>1, Zenon
<1>9. x \in Members(added) <=> \E i \in 1..(t + 1) : x = added[i]
  BY <1>5, Zenon DEF Members
<1>10. ASSUME x \in Members(added)
       PROVE  \E j \in Nat : j <= t /\ x = NodeAt(m, j)
  <2>1. PICK i \in 1..(t + 1) : x = added[i]
    BY <1>9, <1>10, Zenon
  <2>2. PICK j \in Nat : j <= t /\ i = j + 1
    BY <1>8, Zenon
  <2> QED
    BY <1>7, <2>1, <2>2, Zenon
<1>11. ASSUME NEW j \in Nat, j <= t, x = NodeAt(m, j)
       PROVE  x \in Members(added)
  BY <1>7, <1>9, <1>11, Zenon
<1> QED
  BY <1>10, <1>11, Zenon DEF added, NodeOfLeaf

(* The nodes a batch adds, by the leaf that completes them.                *)
LEMMA BatchInForest ==
  ASSUME NEW k \in Nat, NEW n \in Nat, k <= n, NEW x
  PROVE  x \in Members(batch_nodes(ForestMMR(k), Leaves(k + 1, n)))
           <=> \E m \in k..(n - 1) : NodeOfLeaf(m, x)
<1> DEFINE txs == Leaves(k + 1, n)
<1>1. Counted(ForestMMR(k))
  BY ForestMMRIs, ForestCount, Zenon DEF Counted
<1>2. Len(txs) = n - k /\ n - k \in Nat /\ \A i \in 1..(n - k) : txs[i] = k + i
  BY LeavesAre, Zenon
<1>3. \A i \in 0..(n - k) : Fed(ForestMMR(k), txs)[i] = ForestMMR(k + i)
  BY FedIsForest, Zenon
<1> HIDE DEF txs
<1>4. x \in Members(batch_nodes(ForestMMR(k), txs))
        <=> \E i \in 1..(n - k) : x \in NodesOf(ForestMMR(k), txs, i)
  BY <1>1, <1>2, NodesOfBatch, Zenon
<1>5. ASSUME NEW i \in 1..(n - k), NEW m \in Nat, k + i = m + 1
      PROVE  x \in NodesOf(ForestMMR(k), txs, i)
               <=> NodeOfLeaf(m, x)
  <2>1. i - 1 \in 0..(n - k) /\ k + (i - 1) = m
    BY <1>2, <1>5
  <2>2. NodesOf(ForestMMR(k), txs, i) = Members(added_nodes(ForestMMR(m), m + 1))
    BY <1>2, <1>3, <1>5, <2>1, Zenon DEF NodesOf
  <2> QED
    BY <2>2, AddedInForest, Zenon
<1>6. ASSUME NEW i \in 1..(n - k) PROVE \E m \in k..(n - 1) : m \in Nat /\ k + i = m + 1
  <2>1. LET m == k + i - 1 IN m \in k..(n - 1) /\ m \in Nat /\ k + i = m + 1
    BY <1>2
  <2> QED
    BY <2>1, Zenon
<1>7. ASSUME NEW m \in k..(n - 1) PROVE m \in Nat /\ \E i \in 1..(n - k) : k + i = m + 1
  <2>1. m \in Nat /\ LET i == m + 1 - k IN i \in 1..(n - k) /\ k + i = m + 1
    BY <1>2
  <2> QED
    BY <2>1, Zenon
<1> QED
  BY <1>4, <1>5, <1>6, <1>7, Zenon DEF txs

(* So a batch returns each new node at its rank in post-order.             *)
LEMMA NodesNumbered ==
  ASSUME NEW k \in Nat, NEW n \in Nat, k <= n
  PROVE  NodesAreNumbered(k, n)
<1> DEFINE added == batch_nodes(ForestMMR(k), Leaves(k + 1, n))
<1>1. {added[i] : i \in DOMAIN added} = Members(added)
  <2>1. IsList(added)
    <3>1. Counted(ForestMMR(k))
      BY ForestMMRIs, ForestCount, Zenon DEF Counted
    <3>2. Len(Leaves(k + 1, n)) \in Nat
      BY LeavesAre, Zenon
    <3> QED
      BY <3>1, <3>2, NodesOfBatch, Zenon
  <2> HIDE DEF added
  <2>2. DOMAIN added = 1..Len(added)
    BY <2>1 DEF IsList
  <2> QED
    BY <2>2, Zenon DEF Members
<1>2. ASSUME NEW x, x \in Members(added) PROVE x \in Numbered(n, Forest(n) \ Forest(k))
  <2>1. PICK m \in k..(n - 1) : NodeOfLeaf(m, x)
    BY <1>2, BatchInForest, Zenon
  <2>2. PICK j \in Nat : j <= TrailingOnes[m] /\ x = NodeAt(m, j)
    BY <2>1, Zenon DEF NodeOfLeaf
  <2>3. m \in Nat /\ m + 1 <= n /\ ~(m + 1 <= k)
    OBVIOUS
  <2>4. PICK c \in Nat : c = Shr(m, j)
    BY <2>3, ShrIs, Zenon
  <2>5. End(<<c, j>>) = m + 1 /\ PosOf(c, j) = get_mmr_node_pos(m) + j
    BY <2>2, <2>3, <2>4, NewNodeEnds, Zenon
  <2>6. <<c, j>> \in Forest(n) /\ <<c, j>> \notin Forest(k)
    BY <2>3, <2>5, InForestIffEnd, Zenon
  <2>7. PosIn(n, <<c, j>>) = get_mmr_node_pos(m) + j
    BY <2>5, <2>6, PosIs, Zenon
  <2>8. x = [pos |-> PosIn(n, <<c, j>>), hash |-> HashIn(<<c, j>>)]
    BY <2>2, <2>4, <2>7, Zenon DEF NodeAt
  <2> QED
    BY <2>6, <2>8, Zenon DEF Numbered
<1>3. ASSUME NEW x, x \in Numbered(n, Forest(n) \ Forest(k)) PROVE x \in Members(added)
  <2>1. PICK node \in Forest(n) \ Forest(k) :
          x = [pos |-> PosIn(n, node), hash |-> HashIn(node)]
    BY <1>3, Zenon DEF Numbered
  <2>2. PICK c \in Nat, h \in Nat : node = <<c, h>>
    BY <2>1, ForestNode, Zenon
  <2>3. PICK m \in Nat : m + 1 = End(<<c, h>>) /\ h <= TrailingOnes[m] /\ c = Shr(m, h)
    BY BornWithItsEnd, Zenon
  <2>4. m + 1 <= n /\ ~(m + 1 <= k)
    BY <2>1, <2>2, <2>3, InForestIffEnd, Zenon
  <2>5. m \in k..(n - 1)
    BY <2>4
  <2>6. PosIn(n, <<c, h>>) = get_mmr_node_pos(m) + h
    BY <2>1, <2>2, <2>3, PosIs, NewNodeEnds, Zenon
  <2>7. x = NodeAt(m, h)
    BY <2>1, <2>2, <2>3, <2>6, Zenon DEF NodeAt
  <2> QED
    BY <2>3, <2>5, <2>7, BatchInForest, Zenon DEF NodeOfLeaf
<1>4. Members(added) = Numbered(n, Forest(n) \ Forest(k))
  BY <1>2, <1>3, Zenon
<1> QED
  BY <1>1, <1>4, Zenon DEF NodesAreNumbered

-----------------------------------------------------------------------------
(* Positions of a family.                                                  *)

(* More leaves, no fewer nodes.                                            *)
LEMMA PosGrows ==
  ASSUME NEW m \in Nat, NEW n \in Nat, m <= n
  PROVE  get_mmr_node_pos(m) \in Nat /\ get_mmr_node_pos(n) \in Nat
         /\ get_mmr_node_pos(m) <= get_mmr_node_pos(n)
<1> DEFINE Bad == {k \in Nat : m <= k /\ ~(get_mmr_node_pos(m) <= get_mmr_node_pos(k))}
<1>0. get_mmr_node_pos(m) \in Nat /\ get_mmr_node_pos(n) \in Nat
  BY ForestCount, Zenon
<1>1. Bad = {}
  <2> SUFFICES ASSUME Bad # {} PROVE FALSE
    BY Zenon
  <2>1. PICK k \in Bad : \A j \in Bad : k <= j
    BY LeastNatural, Zenon
  <2>2. k # m
    BY <1>0, <2>1
  <2>3. PICK j \in Nat : k = j + 1 /\ m <= j /\ ~(k <= j)
    <3>1. k - 1 \in Nat /\ k = (k - 1) + 1 /\ m <= k - 1 /\ ~(k <= k - 1)
      BY <2>1, <2>2
    <3> QED
      BY <3>1, Zenon
  <2>4. get_mmr_node_pos(m) <= get_mmr_node_pos(j)
    BY <2>1, <2>3, Zenon
  <2>5. /\ get_mmr_node_pos(k) = get_mmr_node_pos(j) + TrailingOnes[j] + 1
        /\ get_mmr_node_pos(j) \in Nat /\ TrailingOnes[j] \in Nat
    BY <2>3, ForestCount, OnesOf, Zenon
  <2> QED
    BY <1>0, <2>1, <2>4, <2>5
<1> QED
  BY <1>0, <1>1, Zenon

(* A node is there when its position is below the node count.              *)
LEMMA PosWithin ==
  ASSUME NEW n \in Nat, NEW c \in Nat, NEW h \in Nat
  PROVE  /\ PosOf(c, h) \in Nat
         /\ <<c, h>> \in Forest(n) <=> PosOf(c, h) < get_mmr_node_pos(n)
<1>1. PICK m \in Nat : m + 1 = End(<<c, h>>) /\ h <= TrailingOnes[m] /\ c = Shr(m, h)
  BY BornWithItsEnd, Zenon
<1>2. PosOf(c, h) = get_mmr_node_pos(m) + h
  BY <1>1, NewNodeEnds, Zenon
<1>3. <<c, h>> \in Forest(n) <=> m + 1 <= n
  BY <1>1, InForestIffEnd, Zenon
<1>4. /\ get_mmr_node_pos(m + 1) = get_mmr_node_pos(m) + TrailingOnes[m] + 1
      /\ get_mmr_node_pos(m) \in Nat /\ get_mmr_node_pos(n) \in Nat /\ TrailingOnes[m] \in Nat
  BY ForestCount, OnesOf, Zenon
<1>5. m + 1 \in Nat /\ (m + 1 <= n \/ n <= m)
  OBVIOUS
<1>6. m + 1 <= n => get_mmr_node_pos(m + 1) <= get_mmr_node_pos(n)
  BY <1>5, PosGrows, Zenon
<1>7. n <= m => get_mmr_node_pos(n) <= get_mmr_node_pos(m)
  BY PosGrows, Zenon
<1> QED
  BY <1>1, <1>2, <1>3, <1>4, <1>5, <1>6, <1>7

(* The positions of two siblings and their parent.                         *)
LEMMA Family ==
  ASSUME NEW c \in Nat, NEW h \in Nat
  PROVE  /\ PosOf(2 * c, h) \in Nat /\ PosOf(2 * c + 1, h) \in Nat /\ PosOf(c, h + 1) \in Nat
         /\ full_tree_size(h) = 2 * Pow2[h] - 1
         /\ PosOf(2 * c + 1, h) = PosOf(2 * c, h) + full_tree_size(h)
         /\ PosOf(c, h + 1) = PosOf(2 * c + 1, h) + 1
<1>1. 2 * c \in Nat /\ 2 * c + 1 \in Nat /\ h + 1 \in Nat
  OBVIOUS
<1>2. PosOf(2 * c, h) \in Nat /\ PosOf(2 * c + 1, h) \in Nat /\ PosOf(c, h + 1) \in Nat
  BY <1>1, PosWithin, Zenon
<1>3. /\ CountOnes[2 * c] = ((2 * c) % 2) + CountOnes[(2 * c) \div 2]
      /\ CountOnes[2 * c + 1] = ((2 * c + 1) % 2) + CountOnes[(2 * c + 1) \div 2]
      /\ CountOnes[c] \in Nat
  BY <1>1, OnesOf, Zenon
<1>4. CountOnes[2 * c] = CountOnes[c] /\ CountOnes[2 * c + 1] = CountOnes[c] + 1
  <2>1. (2 * c) % 2 = 0 /\ (2 * c) \div 2 = c /\ (2 * c + 1) % 2 = 1 /\ (2 * c + 1) \div 2 = c
    OBVIOUS
  <2>2. CountOnes[2 * c] = 0 + CountOnes[c] /\ CountOnes[2 * c + 1] = 1 + CountOnes[c]
    BY <1>3, <2>1, Zenon
  <2> QED
    BY <1>3, <2>2
<1>5. /\ End(<<2 * c, h>>) = (2 * c + 1) * Pow2[h] /\ End(<<2 * c, h>>) \in Nat
      /\ End(<<2 * c + 1, h>>) = (2 * c + 1 + 1) * Pow2[h]
      /\ End(<<c, h + 1>>) = (c + 1) * Pow2[h + 1]
  BY <1>1, EndIs, Zenon
<1>6. Pow2[h] \in Nat /\ Pow2[h + 1] = 2 * Pow2[h]
  BY Pow2Next, Zenon
<1>7. PICK q \in Nat : q = Pow2[h]
  BY <1>6, Zenon
<1>8. (2 * c + 1 + 1) * q = (2 * c + 1) * q + q /\ (c + 1) * (2 * q) = (2 * c + 1) * q + q
  OBVIOUS
<1>9. PICK e \in Nat : /\ End(<<2 * c, h>>) = e /\ End(<<2 * c + 1, h>>) = e + q
                       /\ End(<<c, h + 1>>) = e + q
  BY <1>5, <1>6, <1>7, <1>8, Zenon
<1>10. /\ PosOf(2 * c, h) = 2 * e - 2 - CountOnes[c]
       /\ PosOf(2 * c + 1, h) = 2 * (e + q) - 2 - (CountOnes[c] + 1)
       /\ PosOf(c, h + 1) = 2 * (e + q) - 2 - CountOnes[c]
  BY <1>4, <1>9, Zenon DEF PosOf
<1>11. full_tree_size(h) = 2 * q - 1
  BY <1>6, <1>7, Zenon DEF full_tree_size
<1> QED
  BY <1>2, <1>3, <1>7, <1>10, <1>11

(* Left children are even, right children odd.                             *)
LEMMA Parity ==
  ASSUME NEW x \in Nat
  PROVE  /\ x \div 2 \in Nat
         /\ x % 2 = 0 => x = 2 * (x \div 2) /\ x + 1 = 2 * (x \div 2) + 1
         /\ x % 2 # 0 => x % 2 = 1 /\ x = 2 * (x \div 2) + 1 /\ x - 1 = 2 * (x \div 2)
  OBVIOUS

-----------------------------------------------------------------------------
(* The way up.                                                             *)

(* Shifting twice is shifting by the sum.                                  *)
LEMMA ShrShr ==
  ASSUME NEW n \in Nat, NEW h \in Nat, NEW k \in Nat
  PROVE  Shr(Shr(n, h), k) = Shr(n, h + k)
<1> DEFINE x == Shr(n, h)
           Good(j) == Shr(x, j) = Shr(n, h + j)
           Bad == {j \in Nat : ~Good(j)}
<1> SUFFICES ASSUME Bad # {} PROVE FALSE
  BY Zenon
<1>1. PICK j \in Bad : \A i \in Bad : j <= i
  BY LeastNatural, Zenon
<1>0. x \in Nat
  BY ShrIs, Zenon
<1>2. j # 0
  <2>1. h + 0 = h
    OBVIOUS
  <2> QED
    BY <1>0, <1>1, <2>1, ShrZero, Zenon
<1>3. PICK i \in Nat : j = i + 1 /\ ~(j <= i) /\ h + j = (h + i) + 1 /\ h + i \in Nat
  <2>1. LET i == j - 1 IN i \in Nat /\ j = i + 1 /\ ~(j <= i) /\ h + j = (h + i) + 1 /\ h + i \in Nat
    BY <1>1, <1>2
  <2> QED
    BY <2>1, Zenon
<1>4. Shr(x, i) = Shr(n, h + i)
  BY <1>1, <1>3, Zenon
<1>5. Shr(x, j) = Shr(x, i) \div 2 /\ Shr(n, h + j) = Shr(n, h + i) \div 2
  BY <1>0, <1>3, ShrNext, Zenon
<1> QED
  BY <1>1, <1>4, <1>5, Zenon

(* One more level up.                                                      *)
LEMMA ShrUp ==
  ASSUME NEW n \in Nat, NEW c \in Nat, NEW h \in Nat, NEW k \in Nat
  PROVE  /\ Shr(c, k) \in Nat /\ Shr(n, h + k) \in Nat
         /\ Shr(c, k + 1) = Shr(c, k) \div 2
         /\ Shr(n, h + (k + 1)) = Shr(n, h + k) \div 2
<1>1. h + k \in Nat /\ (h + k) + 1 = h + (k + 1)
  OBVIOUS
<1> QED
  BY <1>1, ShrIs, ShrNext, Zenon

(* The ancestor k levels up, by its number and height.                     *)
LEMMA AboveIs ==
  ASSUME NEW c, NEW h, NEW k
  PROVE  Above(<<c, h>>, k) = <<Shr(c, k), h + k>>
BY DEF Above

(* A node's ancestor k levels up is in the forest when it is inside the    *)
(* forest over as many leaves as there are nodes of its height.            *)
LEMMA AboveInForest ==
  ASSUME NEW n \in Nat, NEW c \in Nat, NEW h \in Nat, NEW k \in Nat
  PROVE  /\ Above(<<c, h>>, k) \in Forest(n) <=> Shr(c, k) < Shr(n, h + k)
         /\ Above(Above(<<c, h>>, k), 1) = Above(<<c, h>>, k + 1)
<1>1. h + k \in Nat /\ k + 1 \in Nat /\ (h + k) + 1 = h + (k + 1) /\ 1 \in Nat
  OBVIOUS
<1>2. PICK x \in Nat : x = Shr(c, k)
  BY ShrIs, Zenon
<1>3. Above(<<c, h>>, k) = <<x, h + k>>
  BY <1>2, AboveIs, Zenon
<1>4. <<x, h + k>> \in Forest(n) <=> x < Shr(n, h + k)
  BY <1>1, InForest, Zenon
<1>5. Shr(x, 1) = Shr(c, k + 1)
  BY <1>1, <1>2, ShrShr, SMT
<1>6. Above(<<x, h + k>>, 1) = <<Shr(c, k + 1), h + (k + 1)>>
  BY <1>1, <1>5, AboveIs, SMT
<1>7. Above(<<c, h>>, k + 1) = <<Shr(c, k + 1), h + (k + 1)>>
  BY AboveIs, Zenon
<1> QED
  BY <1>2, <1>3, <1>4, <1>6, <1>7, Zenon

(* How many levels a node is below its peak.                               *)
Climb(n, node) == CHOOSE k \in 0..n : IsPeak(n, Above(node, k))

(* Its ancestors are in the forest as far as the peak, and no further.     *)
LEMMA ClimbIs ==
  ASSUME NEW n \in Nat, NEW c \in Nat, NEW h \in Nat, <<c, h>> \in Forest(n)
  PROVE  /\ Climb(n, <<c, h>>) \in 0..n
         /\ \A k \in Nat : Shr(c, k) < Shr(n, h + k) <=> k <= Climb(n, <<c, h>>)
<1> DEFINE In(k) == Shr(c, k) < Shr(n, h + k)
           Out == {k \in Nat : ~In(k)}
<1>1. In(0)
  <2>1. h + 0 = h
    OBVIOUS
  <2> QED
    BY <2>1, ShrZero, InForest, Zenon
<1>2. n \in Out
  <2>1. n <= h + n /\ h + n \in Nat
    OBVIOUS
  <2>2. Shr(n, h + n) = 0 /\ Shr(c, n) \in Nat
    BY <2>1, ShrToNothing, ShrIs, Zenon
  <2>3. ~In(n)
    BY <2>2
  <2> QED
    BY <2>3, Zenon
<1>3. ASSUME NEW k \in Nat, In(k + 1) PROVE In(k)
  <2>1. /\ Shr(c, k + 1) = Shr(c, k) \div 2 /\ Shr(n, h + (k + 1)) = Shr(n, h + k) \div 2
        /\ Shr(c, k) \in Nat /\ Shr(n, h + k) \in Nat
    <3> HIDE DEF In, Out
    <3>1. PICK g \in Nat : g = h + k /\ g + 1 = h + (k + 1)
      OBVIOUS
    <3>2. Shr(c, k + 1) = Shr(c, k) \div 2 /\ Shr(c, k) \in Nat
      BY ShrNext, ShrIs, Zenon
    <3>3. Shr(n, g + 1) = Shr(n, g) \div 2 /\ Shr(n, g) \in Nat
      BY ShrNext, ShrIs, Zenon
    <3> QED
      BY <3>1, <3>2, <3>3, Zenon
  <2> QED
    BY <1>3, <2>1
<1> HIDE DEF In
<1>4. PICK top \in Out : \A k \in Out : top <= k
  BY <1>2, LeastNatural, Zenon
<1>5. \A k \in Nat : top <= k => ~In(k)
  <2> DEFINE Bad == {k \in Nat : top <= k /\ In(k)}
  <2> SUFFICES ASSUME Bad # {} PROVE FALSE
    BY Zenon
  <2>1. PICK k \in Bad : \A j \in Bad : k <= j
    BY LeastNatural, Zenon
  <2>2. k # top
    BY <1>4, <2>1, Zenon
  <2>3. PICK j \in Nat : k = j + 1 /\ top <= j /\ ~(k <= j)
    <3>1. k - 1 \in Nat /\ k = (k - 1) + 1 /\ top <= k - 1 /\ ~(k <= k - 1)
      BY <1>4, <2>1, <2>2
    <3> QED
      BY <3>1, Zenon
  <2> QED
    BY <1>3, <2>1, <2>3, Zenon
<1>6. \A k \in Nat : In(k) <=> k < top
  <2>1. \A k \in Nat : k < top <=> ~(top <= k)
    BY <1>4
  <2> QED
    BY <1>4, <1>5, <2>1, Zenon
<1>7. PICK K \in 0..n : top = K + 1 /\ K \in Nat
  <2>1. top # 0 /\ top <= n
    BY <1>1, <1>2, <1>4, Zenon
  <2>2. LET K == top - 1 IN K \in 0..n /\ top = K + 1 /\ K \in Nat
    BY <1>4, <2>1
  <2> QED
    BY <2>2, Zenon
<1>8. \A k \in Nat : In(k) <=> k <= K
  <2>1. \A k \in Nat : k < top <=> k <= K
    BY <1>7
  <2> QED
    BY <1>6, <2>1, Zenon
<1>9. ASSUME NEW k \in 0..n PROVE IsPeak(n, Above(<<c, h>>, k)) <=> k = K
  <2>0. k \in Nat /\ k + 1 \in Nat
    OBVIOUS
  <2>4. /\ Above(<<c, h>>, k) \in Forest(n) <=> In(k)
        /\ Above(<<c, h>>, k + 1) \in Forest(n) <=> In(k + 1)
        /\ Above(Above(<<c, h>>, k), 1) = Above(<<c, h>>, k + 1)
    BY <2>0, AboveInForest, Zenon DEF In
  <2>1. IsPeak(n, Above(<<c, h>>, k)) <=> In(k) /\ ~In(k + 1)
    BY <2>4, Zenon DEF IsPeak
  <2>2. IsPeak(n, Above(<<c, h>>, k)) <=> k <= K /\ ~(k + 1 <= K)
    BY <1>8, <2>0, <2>1, Zenon
  <2>3. (k <= K /\ ~(k + 1 <= K)) <=> k = K
    BY <1>7
  <2> QED
    BY <2>2, <2>3, Zenon
<1>10. Climb(n, <<c, h>>) = K
  BY <1>7, <1>9, Zenon DEF Climb
<1> QED
  BY <1>7, <1>8, <1>10, Zenon DEF In

(* The position of the sibling of the x-th node of height h.               *)
SiblingOf(x, h) == IF x % 2 = 0 THEN PosOf(x + 1, h) ELSE PosOf(x - 1, h)

(* Below the peak the sibling is there; the peak's sibling is not.         *)
LEMMA WayUp ==
  ASSUME NEW n \in Nat, NEW c \in Nat, NEW h \in Nat, <<c, h>> \in Forest(n),
         NEW k \in Nat
  PROVE  LET x == Shr(c, k) IN
         /\ k < Climb(n, <<c, h>>) =>
              /\ Shr(n, h + k) # 0
              /\ PosIn(n, Sibling(Above(<<c, h>>, k))) = SiblingOf(x, h + k)
              /\ SiblingOf(x, h + k) < get_mmr_node_pos(n)
         /\ k = Climb(n, <<c, h>>) =>
              x % 2 = 0 /\ ~(SiblingOf(x, h + k) < get_mmr_node_pos(n))
<1> DEFINE x == Shr(c, k)
           y == Shr(n, h + k)
           K == Climb(n, <<c, h>>)
<1>0. k + 1 \in Nat /\ h + k \in Nat /\ K \in Nat
  <2>1. K \in 0..n
    BY ClimbIs, Zenon
  <2> HIDE DEF K
  <2> QED
    BY <2>1
<1>1. /\ x \in Nat /\ y \in Nat /\ Above(<<c, h>>, k) = <<x, h + k>>
      /\ Shr(c, k + 1) = x \div 2 /\ Shr(n, h + (k + 1)) = y \div 2
  BY ShrUp, AboveIs, SMT
<1>2. /\ x < y <=> k <= K
      /\ x \div 2 < y \div 2 <=> k + 1 <= K
  BY <1>0, <1>1, ClimbIs, Zenon
<1> HIDE DEF x, y, K
<1>3. Sibling(<<x, h + k>>) = IF x % 2 = 0 THEN <<x + 1, h + k>> ELSE <<x - 1, h + k>>
  BY DEF Sibling
<1>4. ASSUME k < K
      PROVE  /\ y # 0
             /\ PosIn(n, Sibling(Above(<<c, h>>, k))) = SiblingOf(x, h + k)
             /\ SiblingOf(x, h + k) < get_mmr_node_pos(n)
  <2>1. x \div 2 < y \div 2
    BY <1>0, <1>2, <1>4
  <2>2. y # 0 /\ (x % 2 = 0 => x + 1 \in Nat /\ x + 1 < y)
        /\ (x % 2 # 0 => x - 1 \in Nat /\ x - 1 < y)
    BY <1>1, <2>1
  <2>3. PICK s \in Nat : s < y /\ s = (IF x % 2 = 0 THEN x + 1 ELSE x - 1)
    BY <2>2, Zenon
  <2>4. <<s, h + k>> \in Forest(n)
    BY <1>0, <2>3, InForest, Zenon DEF y
  <2>5. Sibling(<<x, h + k>>) = <<s, h + k>> /\ SiblingOf(x, h + k) = PosOf(s, h + k)
    BY <1>3, <2>3, Zenon DEF SiblingOf
  <2>6. PosIn(n, <<s, h + k>>) = PosOf(s, h + k) /\ PosOf(s, h + k) < get_mmr_node_pos(n)
    BY <1>0, <2>4, PosIs, PosWithin, SMT
  <2> QED
    BY <1>1, <2>2, <2>5, <2>6, Zenon
<1>5. ASSUME k = K PROVE x % 2 = 0 /\ ~(SiblingOf(x, h + k) < get_mmr_node_pos(n))
  <2>1. x < y /\ ~(x \div 2 < y \div 2)
    BY <1>0, <1>2, <1>5
  <2>2. x % 2 = 0 /\ x + 1 \in Nat /\ ~(x + 1 < y)
    BY <1>1, <2>1
  <2>3. <<x + 1, h + k>> \notin Forest(n)
    BY <1>0, <2>2, InForest, Zenon DEF y
  <2> QED
    BY <1>0, <2>2, <2>3, PosWithin, Zenon DEF SiblingOf
<1> QED
  BY <1>4, <1>5, Zenon DEF x, y, K

(* The same for the two cases apart: below the peak,                       *)
LEMMA SiblingOnTheWay ==
  ASSUME NEW n \in Nat, NEW c \in Nat, NEW h \in Nat, <<c, h>> \in Forest(n),
         NEW k \in Nat, k < Climb(n, <<c, h>>)
  PROVE  /\ Shr(n, h + k) # 0
         /\ PosIn(n, Sibling(Above(<<c, h>>, k))) = SiblingOf(Shr(c, k), h + k)
         /\ SiblingOf(Shr(c, k), h + k) < get_mmr_node_pos(n)
BY WayUp, Zenon

(* and at the peak.                                                        *)
LEMMA NoSiblingAtTheTop ==
  ASSUME NEW n \in Nat, NEW c \in Nat, NEW h \in Nat, <<c, h>> \in Forest(n),
         NEW k \in Nat, k = Climb(n, <<c, h>>)
  PROVE  Shr(c, k) % 2 = 0 /\ ~(SiblingOf(Shr(c, k), h + k) < get_mmr_node_pos(n))
BY WayUp, SMT

(* The reference's path is the positions of the siblings on the way up.    *)
LEMMA PathInIs ==
  ASSUME NEW n \in Nat, NEW c \in Nat, NEW h \in Nat, <<c, h>> \in Forest(n)
  PROVE  PathIn(n, <<c, h>>)
           = [k \in 1..Climb(n, <<c, h>>) |-> SiblingOf(Shr(c, k - 1), h + (k - 1))]
<1> DEFINE K == Climb(n, <<c, h>>)
<1>1. PathIn(n, <<c, h>>) = [k \in 1..K |-> PosIn(n, Sibling(Above(<<c, h>>, k - 1)))]
  BY Zenon DEF PathIn, Climb
<1>2. K \in 0..n
  BY ClimbIs, Zenon
<1>3. ASSUME NEW k \in 1..K
      PROVE  PosIn(n, Sibling(Above(<<c, h>>, k - 1))) = SiblingOf(Shr(c, k - 1), h + (k - 1))
  <2> HIDE DEF K
  <2>1. PICK j \in Nat : j = k - 1 /\ j < K
    BY <1>2
  <2>2. PosIn(n, Sibling(Above(<<c, h>>, j))) = SiblingOf(Shr(c, j), h + j)
    <3>1. j < Climb(n, <<c, h>>)
      BY <2>1, Zenon DEF K
    <3> QED
      BY <3>1, SiblingOnTheWay, SMT
  <2> QED
    BY <2>1, <2>2, Zenon
<1> HIDE DEF K
<1> QED
  BY <1>1, <1>3, Zenon DEF K

-----------------------------------------------------------------------------
(* get_mmr_proof_metadata: from a leaf up to its peak.                     *)

(* get_mmr_proof_metadata's step to the sibling and to the parent.         *)
LEMMA ClimbStep ==
  ASSUME NEW i \in Nat, NEW h \in Nat
  PROVE  LET x == Shr(i, h) IN
         /\ PosOf(x, h) \in Nat
         /\ PosOf(Shr(i, h + 1), h + 1)
              = IF IsRightChild(i, h) THEN PosOf(x, h) + 1 ELSE PosOf(x, h) + full_tree_size(h) + 1
         /\ SiblingOf(x, h)
              = IF IsRightChild(i, h) THEN PosOf(x, h) - full_tree_size(h)
                ELSE PosOf(x, h) + full_tree_size(h)
<1> DEFINE x == Shr(i, h)
<1>1. x \in Nat /\ Shr(i, h + 1) = x \div 2
  BY ShrIs, ShrNext, Zenon
<1>2. IsRightChild(i, h) <=> x % 2 = 1
  BY Zenon DEF IsRightChild
<1> HIDE DEF x
<1>3. PICK c \in Nat : /\ c = x \div 2
                       /\ x % 2 = 0 => x = 2 * c /\ x + 1 = 2 * c + 1
                       /\ x % 2 # 0 => x % 2 = 1 /\ x = 2 * c + 1 /\ x - 1 = 2 * c
  BY <1>1, Parity, Zenon
<1>4. PICK left \in Nat, right \in Nat :
        /\ left = PosOf(2 * c, h) /\ right = PosOf(2 * c + 1, h)
        /\ right = left + full_tree_size(h) /\ PosOf(c, h + 1) = right + 1
  <2>1. /\ PosOf(2 * c, h) \in Nat /\ PosOf(2 * c + 1, h) \in Nat
        /\ PosOf(2 * c + 1, h) = PosOf(2 * c, h) + full_tree_size(h)
        /\ PosOf(c, h + 1) = PosOf(2 * c + 1, h) + 1
    BY Family, Zenon
  <2> QED
    BY <2>1, Zenon
<1>5. full_tree_size(h) \in Int
  <2>1. full_tree_size(h) = 2 * Pow2[h] - 1 /\ Pow2[h] \in Nat
    BY Family, Pow2Type, Zenon
  <2> QED
    BY <2>1
<1>6. CASE x % 2 = 0
  <2>1. PosOf(x, h) = left /\ SiblingOf(x, h) = right /\ PosOf(Shr(i, h + 1), h + 1) = right + 1
    BY <1>1, <1>3, <1>4, <1>6, Zenon DEF SiblingOf
  <2>2. ~IsRightChild(i, h)
    BY <1>2, <1>6
  <2>3. right = left + full_tree_size(h) /\ right + 1 = left + full_tree_size(h) + 1
    BY <1>4, Zenon
  <2> QED
    BY <2>1, <2>2, <2>3, Zenon DEF x
<1>7. CASE x % 2 # 0
  <2>1. PosOf(x, h) = right /\ SiblingOf(x, h) = left /\ PosOf(Shr(i, h + 1), h + 1) = right + 1
    BY <1>1, <1>3, <1>4, <1>7, Zenon DEF SiblingOf
  <2>2. IsRightChild(i, h)
    BY <1>2, <1>3, <1>7, Zenon
  <2>3. left = right - full_tree_size(h)
    BY <1>4, <1>5
  <2> QED
    BY <2>1, <2>2, <2>3, Zenon DEF x
<1> QED
  BY <1>6, <1>7, Zenon

(* After h turns of its loop curr_pos is at the ancestor of height h.      *)
LEMMA ClimbLoopIs ==
  ASSUME NEW i \in Nat, NEW n \in Nat, NEW h \in 0..n
  PROVE  ClimbLoop(i, n)[h] = PosOf(Shr(i, h), h)
<1> DEFINE Turn(f, k) == IF k = 0 THEN get_mmr_node_pos(i)
                         ELSE IF IsRightChild(i, k - 1) THEN f[k - 1] + 1
                         ELSE f[k - 1] + full_tree_size(k - 1) + 1
           g == [k \in 0..n |-> PosOf(Shr(i, k), k)]
<1>1. ASSUME NEW k \in 0..n, k # 0
      PROVE  \E j \in Nat : j = k - 1 /\ k = j + 1 /\ j \in 0..n /\ ~(k <= j)
  <2>1. LET j == k - 1 IN j \in Nat /\ k = j + 1 /\ j \in 0..n /\ ~(k <= j)
    BY <1>1
  <2> QED
    BY <2>1, Zenon
<1>2. get_mmr_node_pos(i) = PosOf(Shr(i, 0), 0)
  <2>1. TrailingOnes[i] \in Nat /\ get_mmr_node_pos(i) \in Nat
    BY OnesOf, ForestCount, Zenon
  <2>2. 0 <= TrailingOnes[i] /\ 0 \in Nat /\ get_mmr_node_pos(i) + 0 = get_mmr_node_pos(i)
    BY <2>1
  <2> QED
    BY <2>2, NewNodeEnds, Zenon
<1>3. ASSUME NEW k \in 0..n PROVE g[k] = Turn(g, k)
  <2>1. CASE k = 0
    BY <1>2, <2>1, Zenon
  <2>2. CASE k # 0
    <3>1. PICK j \in Nat : j = k - 1 /\ k = j + 1 /\ j \in 0..n
      BY <1>1, <2>2, Zenon
    <3>2. g[k] = PosOf(Shr(i, j + 1), j + 1) /\ g[j] = PosOf(Shr(i, j), j)
      BY <3>1, Zenon
    <3>3. Turn(g, k) = IF IsRightChild(i, j) THEN g[j] + 1 ELSE g[j] + full_tree_size(j) + 1
      BY <2>2, <3>1, Zenon
    <3>4. PosOf(Shr(i, j + 1), j + 1)
            = IF IsRightChild(i, j) THEN PosOf(Shr(i, j), j) + 1
              ELSE PosOf(Shr(i, j), j) + full_tree_size(j) + 1
      BY ClimbStep, Zenon
    <3> HIDE DEF g, Turn
    <3> QED
      BY <3>2, <3>3, <3>4, Zenon
  <2> QED
    BY <2>1, <2>2, Zenon
<1> HIDE DEF Turn
<1>4. g = [k \in 0..n |-> Turn(g, k)]
  <2>1. g = [k \in 0..n |-> g[k]]
    BY Zenon
  <2> HIDE DEF g
  <2> QED
    BY <1>3, <2>1, Zenon
<1> HIDE DEF g
<1>5. PICK f : f = ClimbLoop(i, n)
  BY Zenon
<1>6. f = [k \in 0..n |-> Turn(f, k)]
  BY <1>4, <1>5, Zenon DEF ClimbLoop, Turn
<1>7. \A k \in 0..n : f[k] = Turn(f, k)
  BY <1>6, Zenon
<1> DEFINE Bad == {k \in 0..n : f[k] # g[k]}
<1>8. Bad = {}
  <2> SUFFICES ASSUME Bad # {} PROVE FALSE
    BY Zenon
  <2>1. PICK k \in Bad : \A j \in Bad : k <= j
    <3>1. Bad \in SUBSET Nat
      OBVIOUS
    <3> QED
      BY <3>1, LeastNatural, Zenon
  <2>2. CASE k = 0
    BY <1>3, <1>7, <2>1, <2>2, Zenon DEF Turn
  <2>3. CASE k # 0
    <3>1. PICK j \in Nat : j = k - 1 /\ k = j + 1 /\ j \in 0..n /\ ~(k <= j)
      BY <1>1, <2>1, <2>3, Zenon
    <3>2. f[k - 1] = g[k - 1]
      BY <2>1, <3>1, Zenon
    <3> QED
      BY <1>3, <1>7, <2>1, <3>2, Zenon DEF Turn
  <2> QED
    BY <2>2, <2>3, Zenon
<1> QED
  BY <1>5, <1>8, Zenon DEF g

(* Its siblings are those on the way up to the peak.                       *)
LEMMA SiblingsLead ==
  ASSUME NEW n \in Nat, NEW i \in 0..(n - 1)
  PROVE  /\ get_mmr_node_pos(i) = PosIn(n, <<i, 0>>)
         /\ mmr_siblings(i, n, Cardinality(Forest(n))) = PathIn(n, <<i, 0>>)
<1> DEFINE K == Climb(n, <<i, 0>>)
           count == Cardinality(Forest(n))
           curr == ClimbLoop(i, n)
           sib(h) == IF IsRightChild(i, h) THEN curr[h] - full_tree_size(h)
                     ELSE curr[h] + full_tree_size(h)
           Done(h) == Shr(n, h) = 0 \/ (~IsRightChild(i, h) /\ sib(h) >= count)
           First(k) == Done(k) /\ \A j \in 0..(k - 1) : ~Done(j)
           passes == CHOOSE k \in 0..n : First(k)
<1>0. i \in Nat /\ 0 \in Nat /\ i < n
  OBVIOUS
<1>1. <<i, 0>> \in Forest(n)
  BY <1>0, InForest, ShrZero, Zenon
<1>2. get_mmr_node_pos(i) = PosIn(n, <<i, 0>>)
  <2>1. TrailingOnes[i] \in Nat /\ get_mmr_node_pos(i) \in Nat
    BY <1>0, OnesOf, ForestCount, Zenon
  <2>2. 0 <= TrailingOnes[i] /\ get_mmr_node_pos(i) + 0 = get_mmr_node_pos(i)
    BY <2>1
  <2>3. get_mmr_node_pos(i) = PosOf(i, 0)
    BY <1>0, <2>2, NewNodeEnds, ShrZero, Zenon
  <2> QED
    BY <1>0, <1>1, <2>3, PosIs, Zenon
<1>3. count = get_mmr_node_pos(n) /\ count \in Nat
  BY ForestCount, Zenon
<1>4. K \in 0..n
  BY <1>0, <1>1, ClimbIs, Zenon
<1>5. ASSUME NEW h \in 0..n PROVE h \in Nat /\ 0 + h = h /\ sib(h) = SiblingOf(Shr(i, h), h)
  <2>1. h \in Nat /\ 0 + h = h
    OBVIOUS
  <2>2. curr[h] = PosOf(Shr(i, h), h)
    BY <1>0, ClimbLoopIs, Zenon
  <2>3. SiblingOf(Shr(i, h), h)
              = IF IsRightChild(i, h) THEN PosOf(Shr(i, h), h) - full_tree_size(h)
                ELSE PosOf(Shr(i, h), h) + full_tree_size(h)
    BY <1>0, <2>1, ClimbStep, Zenon
  <2> QED
    BY <2>1, <2>2, <2>3, Zenon
<1>6. mmr_siblings(i, n, count) = [k \in 1..passes |-> sib(k - 1)]
  BY Zenon DEF mmr_siblings, Passes
<1> HIDE DEF curr, sib, count, K
<1>7. ASSUME NEW h \in 0..n, h < K PROVE ~Done(h)
  <2>1. h < Climb(n, <<i, 0>>)
    BY <1>7, Zenon DEF K
  <2>2. Shr(n, 0 + h) # 0 /\ SiblingOf(Shr(i, h), 0 + h) < get_mmr_node_pos(n)
    BY <1>0, <1>1, <1>5, <2>1, SiblingOnTheWay, SMT
  <2>3. Shr(n, h) # 0 /\ sib(h) < count
    BY <1>3, <1>5, <2>2, Zenon
  <2>4. sib(h) \in Nat
    <3>1. PICK s \in Nat : SiblingOf(Shr(i, h), h) = PosOf(s, h)
      <4>1. Shr(i, h) \in Nat
        BY <1>0, <1>5, ShrIs, Zenon
      <4>2. PICK x \in Nat : x = Shr(i, h)
        BY <4>1, Zenon
      <4>3. x + 1 \in Nat /\ (x % 2 # 0 => x - 1 \in Nat)
        OBVIOUS
      <4> QED
        BY <4>2, <4>3, Zenon DEF SiblingOf
    <3> QED
      BY <1>5, <3>1, PosWithin, Zenon
  <2>5. ~(sib(h) >= count)
    BY <1>3, <2>3, <2>4
  <2> QED
    BY <2>3, <2>5, Zenon
<1>8. Done(K)
  <2>0. K \in Nat /\ K = Climb(n, <<i, 0>>)
    BY <1>4, <1>5, Zenon DEF K
  <2>1. Shr(i, K) % 2 = 0 /\ ~(SiblingOf(Shr(i, K), 0 + K) < get_mmr_node_pos(n))
    BY <1>0, <1>1, <2>0, NoSiblingAtTheTop, SMT
  <2>2. ~(sib(K) < count) /\ ~IsRightChild(i, K)
    <3>1. Shr(i, K) % 2 # 1
      BY <2>1
    <3> QED
      BY <1>3, <1>4, <1>5, <2>1, <3>1, Zenon DEF IsRightChild
  <2>3. sib(K) \in Nat
    <3>1. PICK x \in Nat : x = Shr(i, K) /\ x + 1 \in Nat
      <4>1. Shr(i, K) \in Nat
        BY <1>0, <2>0, ShrIs, Zenon
      <4> QED
        BY <4>1
    <3>2. SiblingOf(Shr(i, K), K) = PosOf(x + 1, K)
      BY <2>1, <3>1, Zenon DEF SiblingOf
    <3>3. PosOf(x + 1, K) \in Nat
      BY <2>0, <3>1, PosWithin, Zenon
    <3> QED
      BY <1>4, <1>5, <3>2, <3>3, Zenon
  <2>4. sib(K) >= count
    BY <1>3, <2>2, <2>3
  <2> QED
    BY <2>2, <2>4, Zenon
<1> HIDE DEF Done
<1>9. First(K)
  <2>1. \A j \in 0..(K - 1) : j \in 0..n /\ j < K
    BY <1>4
  <2> QED
    BY <1>7, <1>8, <2>1, Zenon
<1>10. passes \in 0..n /\ First(passes)
  BY <1>4, <1>9, Zenon
<1>11. passes = K
  <2> HIDE DEF passes
  <2>1. (passes < K => passes \in 0..(K - 1)) /\ (K < passes => K \in 0..(passes - 1))
        /\ (passes < K \/ K < passes \/ passes = K)
    BY <1>4, <1>10
  <2> QED
    BY <1>9, <1>10, <2>1, Zenon
<1> HIDE DEF passes
<1>12. \A k \in 1..K : sib(k - 1) = SiblingOf(Shr(i, k - 1), 0 + (k - 1))
  <2>1. \A k \in 1..K : k - 1 \in 0..n
    BY <1>4
  <2> QED
    BY <1>5, <2>1, Zenon
<1>13. PathIn(n, <<i, 0>>) = [k \in 1..K |-> SiblingOf(Shr(i, k - 1), 0 + (k - 1))]
  BY <1>0, <1>1, PathInIs, Zenon DEF K
<1> QED
  BY <1>2, <1>6, <1>11, <1>12, <1>13, Zenon DEF count

-----------------------------------------------------------------------------
(* A restart.                                                              *)

(* Wherever a process stops, one that starts empty, is given the peaks and *)
(* the size by set_mmr_state and is fed the rest has the peaks and the     *)
(* root of one that was fed everything: node_count, which set_mmr_state    *)
(* does not restore, does not enter them.                                  *)
THEOREM RestartKeepsTheRoot ==
  ASSUME NEW S, NEW list \in Seq(S), NEW rest \in Seq(S)
  PROVE  LET before == FeedMMR(EmptyMMR, list)
             resumed == FeedMMR(set_mmr_state(EmptyMMR, before.peaks, before.size), rest)
             whole == FeedMMR(EmptyMMR, list \o rest)
         IN /\ resumed.peaks = whole.peaks
            /\ resumed.size = whole.size
            /\ get_root(resumed) = get_root(whole)
<1> DEFINE before == FeedMMR(EmptyMMR, list)
           restored == set_mmr_state(EmptyMMR, before.peaks, before.size)
<1>1. FeedMMR(EmptyMMR, list \o rest) = FeedMMR(before, rest)
  BY FeedInTurns, Zenon
<1> HIDE DEF before
<1>2. restored.peaks = before.peaks /\ restored.size = before.size
  BY DEF set_mmr_state, EmptyMMR
<1> HIDE DEF restored
<1>3. Len(rest) \in Nat
  OBVIOUS
<1>4. Alike(FeedMMR(restored, rest), FeedMMR(before, rest))
  <2>1. Alike(restored, before)
    BY <1>2, Zenon DEF Alike
  <2> QED
    BY <1>3, <2>1, LeavesKeepAlike, Zenon
<1>5. /\ get_root(FeedMMR(restored, rest)) = Bagged(FeedMMR(restored, rest).peaks)
      /\ get_root(FeedMMR(before, rest)) = Bagged(FeedMMR(before, rest).peaks)
  BY RootOfPeaks, Zenon
<1>6. get_root(FeedMMR(restored, rest)) = get_root(FeedMMR(before, rest))
  BY <1>4, <1>5, Zenon DEF Alike
<1>7. /\ FeedMMR(restored, rest).peaks = FeedMMR(EmptyMMR, list \o rest).peaks
      /\ FeedMMR(restored, rest).size = FeedMMR(EmptyMMR, list \o rest).size
      /\ get_root(FeedMMR(restored, rest)) = get_root(FeedMMR(EmptyMMR, list \o rest))
  BY <1>1, <1>4, <1>6, Zenon DEF Alike
<1> QED
  BY <1>7, Zenon DEF before, restored
=============================================================================
