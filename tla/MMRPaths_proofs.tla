------------------------- MODULE MMRPaths_proofs -------------------------
(***************************************************************************)
(* The ways down from the peaks, for any number of leaves: get_mmr_peaks   *)
(* takes the bits of the count from the highest, and get_mmr_path goes     *)
(* down from a peak.  With the way up and the hashes of MMRForest_proofs   *)
(* this makes the range of src/state/mod.rs the numbered forest.           *)
(***************************************************************************)
EXTENDS MCNexusState, MMRForest_proofs

-----------------------------------------------------------------------------
(* get_mmr_peaks: the highest bit first.                                   *)

(* A number has no more ones than its value.                               *)
LEMMA OnesAtMost ==
  ASSUME NEW n \in Nat
  PROVE  CountOnes[n] \in Nat /\ CountOnes[n] <= n
<1> DEFINE Bad == {m \in Nat : ~(CountOnes[m] <= m)}
<1>1. Bad = {}
  <2> SUFFICES ASSUME Bad # {} PROVE FALSE
    BY Zenon
  <2>1. PICK m \in Bad : \A j \in Bad : m <= j
    BY LeastNatural, Zenon
  <2>2. m \div 2 \in Nat /\ (m # 0 => ~(m <= m \div 2)) /\ m % 2 \in {0, 1}
        /\ (m % 2) + (m \div 2) <= m
    BY <2>1
  <2>3. m # 0 => CountOnes[m \div 2] <= m \div 2
    BY <2>1, <2>2, Zenon
  <2>4. CountOnes[m] = IF m = 0 THEN 0 ELSE (m % 2) + CountOnes[m \div 2]
    BY <2>1, CountOnesIs, Zenon
  <2>5. CountOnes[m \div 2] \in Nat
    BY <2>2, OnesOf, Zenon
  <2> QED
    BY <2>1, <2>2, <2>3, <2>4, <2>5
<1> QED
  BY <1>1, OnesOf, Zenon

(* What get_mmr_peaks' loop has to satisfy, as far as m turns.             *)
IsPeaks(f, m, n) ==
  f = [k \in 0..m |-> IF k = 0 THEN [leaf_count |-> n, offset |-> 0] ELSE NextPeak(f[k - 1])]

(* There is a function that takes m turns of it.                           *)
LEMMA PeaksExist ==
  ASSUME NEW m \in Nat, NEW n
  PROVE  \E f : IsPeaks(f, m, n)
<1> DEFINE start == [leaf_count |-> n, offset |-> 0]
           Bad == {j \in Nat : ~\E f : IsPeaks(f, j, n)}
<1> SUFFICES ASSUME Bad # {} PROVE FALSE
  BY Zenon
<1>1. PICK j \in Bad : \A i \in Bad : j <= i
  BY LeastNatural, Zenon
<1>2. j # 0
  <2> DEFINE f == [k \in 0..0 |-> start]
  <2>1. \A k \in 0..0 : k = 0
    OBVIOUS
  <2>2. f = [k \in 0..0 |-> IF k = 0 THEN start ELSE NextPeak(f[k - 1])]
    BY <2>1, Zenon
  <2> QED
    BY <1>1, <2>2, Zenon DEF IsPeaks
<1>3. j - 1 \in Nat /\ j - 1 \notin Bad
  BY <1>1, <1>2
<1>4. PICK f : IsPeaks(f, j - 1, n)
  BY <1>3, Zenon
<1> DEFINE g == [k \in 0..j |-> IF k = j THEN NextPeak(f[j - 1]) ELSE f[k]]
<1>5. \A k \in 0..(j - 1) : f[k] = IF k = 0 THEN start ELSE NextPeak(f[k - 1])
  BY <1>4, Zenon DEF IsPeaks
<1> HIDE DEF start
<1>6. \A k \in 0..j : g[k] = IF k = 0 THEN start ELSE NextPeak(g[k - 1])
  <2>1. /\ \A k \in 0..j : k # j => k \in 0..(j - 1)
        /\ \A k \in 0..j : k # 0 => k - 1 \in 0..j /\ k - 1 # j
        /\ j \in 0..j
    BY <1>1, <1>2
  <2>2. g[j] = NextPeak(f[j - 1]) /\ \A k \in 0..j : k # j => g[k] = f[k]
    BY <2>1, Zenon
  <2> HIDE DEF g
  <2> QED
    BY <1>2, <1>5, <2>1, <2>2, Zenon
<1>7. IsPeaks(g, j, n)
  BY <1>6, Zenon DEF IsPeaks, start
<1> QED
  BY <1>1, <1>7, Zenon

(* So PeaksLoop is what its definition says.                               *)
LEMMA PeaksLoopIs ==
  ASSUME NEW n \in Nat
  PROVE  /\ PeaksLoop(n)[0] = [leaf_count |-> n, offset |-> 0]
         /\ \A k \in Nat : k + 1 <= n => PeaksLoop(n)[k + 1] = NextPeak(PeaksLoop(n)[k])
<1>1. PeaksLoop(n) = CHOOSE f : IsPeaks(f, n, n)
  BY Zenon DEF PeaksLoop, IsPeaks
<1>2. IsPeaks(PeaksLoop(n), n, n)
  BY <1>1, PeaksExist, Zenon
<1>3. PICK f : f = PeaksLoop(n)
  BY Zenon
<1>4. \A k \in 0..n : f[k] = IF k = 0 THEN [leaf_count |-> n, offset |-> 0] ELSE NextPeak(f[k - 1])
  BY <1>2, <1>3, Zenon DEF IsPeaks
<1>5. 0 \in 0..n /\ \A k \in Nat : k + 1 <= n => k + 1 \in 0..n /\ k + 1 # 0 /\ (k + 1) - 1 = k
  OBVIOUS
<1>6. f[0] = [leaf_count |-> n, offset |-> 0]
  BY <1>4, <1>5, Zenon
<1>7. \A k \in Nat : k + 1 <= n => f[k + 1] = NextPeak(f[k])
  BY <1>4, <1>5, Zenon
<1> QED
  BY <1>3, <1>6, <1>7, Zenon

(* What is left after the peaks of height h and more.                      *)
AfterPeaks(n, h) ==
  [leaf_count |-> n - Covered(n, h), offset |-> 2 * Covered(n, h) - Rank(n, h)]

(* A turn takes the highest bit that is left.                              *)
LEMMA NextPeakIs ==
  ASSUME NEW n \in Nat, NEW h \in Nat, Shr(n, h) % 2 = 1
  PROVE  /\ NextPeak(AfterPeaks(n, h + 1)) = AfterPeaks(n, h)
         /\ n - Covered(n, h + 1) \in Nat \ {0}
<1>1. /\ Covered(n, h) \in Nat /\ Covered(n, h) = Covered(n, h + 1) + Pow2[h]
      /\ Covered(n, h + 1) \in Nat
  <2>1. h + 1 \in Nat
    OBVIOUS
  <2> QED
    BY <2>1, CoveredNext, Zenon
<1>2. Pow2[h] \in Nat \ {0} /\ Pow2[h + 1] = 2 * Pow2[h]
  BY Pow2Next, Zenon
<1>3. Covered(n, h) <= n
  BY ShrIs, Zenon DEF Covered
<1>4. n < Covered(n, h + 1) + Pow2[h + 1]
  <2>1. h + 1 \in Nat
    OBVIOUS
  <2> QED
    BY <2>1, ShrIs, Zenon DEF Covered
<1>5. Rank(n, h) \in Nat /\ Rank(n, h + 1) \in Nat /\ Rank(n, h) = Rank(n, h + 1) + 1
  BY RankNext, Zenon
<1>6. PICK left \in Nat \ {0}, q \in Nat, off \in Int :
        /\ left = n - Covered(n, h + 1) /\ q = Pow2[h]
        /\ off = 2 * Covered(n, h + 1) - Rank(n, h + 1)
        /\ q <= left /\ left < 2 * q
        /\ left - q = n - Covered(n, h)
        /\ off + (2 * q - 1) = 2 * Covered(n, h) - Rank(n, h)
  <2>1. /\ n - Covered(n, h + 1) \in Nat \ {0} /\ Pow2[h] \in Nat
        /\ 2 * Covered(n, h + 1) - Rank(n, h + 1) \in Int
        /\ Pow2[h] <= n - Covered(n, h + 1) /\ n - Covered(n, h + 1) < 2 * Pow2[h]
        /\ n - Covered(n, h + 1) - Pow2[h] = n - Covered(n, h)
        /\ 2 * Covered(n, h + 1) - Rank(n, h + 1) + (2 * Pow2[h] - 1)
             = 2 * Covered(n, h) - Rank(n, h)
    BY <1>1, <1>2, <1>3, <1>4, <1>5
  <2> QED
    BY <2>1, Zenon
<1>7. HighBit(left) = h
  BY <1>2, <1>6, HighBitOf, Zenon
<1>8. AfterPeaks(n, h + 1) = [leaf_count |-> left, offset |-> off]
  BY <1>6, Zenon DEF AfterPeaks
<1>9. full_tree_size(h) = 2 * q - 1
  BY <1>2, <1>6, Zenon DEF full_tree_size
<1>10. PICK s : s = AfterPeaks(n, h + 1) /\ s.leaf_count = left /\ s.offset = off
  BY <1>8
<1>11. NextPeak(s) = [leaf_count |-> left - q, offset |-> off + (2 * q - 1)]
  BY <1>6, <1>7, <1>9, <1>10, Zenon DEF NextPeak
<1> QED
  BY <1>6, <1>10, <1>11, Zenon DEF AfterPeaks

(* After as many turns as there are peaks of height h and more.            *)
LEMMA PeaksLoopAfter ==
  ASSUME NEW n \in Nat, NEW h \in Nat
  PROVE  PeaksLoop(n)[Rank(n, h)] = AfterPeaks(n, h)
<1> DEFINE s == PeaksLoop(n)
           Good(k) == s[Rank(n, k)] = AfterPeaks(n, k)
           Bad == {i \in 0..n : ~Good(n - i)}
<1>1. s[0] = [leaf_count |-> n, offset |-> 0]
      /\ \A k \in Nat : k + 1 <= n => s[k + 1] = NextPeak(s[k])
  BY PeaksLoopIs, Zenon
<1> HIDE DEF s
<1>2. ASSUME NEW k \in Nat, n <= k PROVE Good(k)
  <2>1. Shr(n, k) = 0
    BY <1>2, ShrToNothing, Zenon
  <2>2. CountOnes[0] = 0
    BY CountOnesIs
  <2>3. Rank(n, k) = 0
    BY <2>1, <2>2, Zenon DEF Rank
  <2>4. Covered(n, k) = 0
    <3>1. Pow2[k] \in Nat /\ Covered(n, k) = 0 * Pow2[k]
      BY <2>1, Pow2Type, Zenon DEF Covered
    <3> QED
      BY <3>1
  <2>5. n - 0 = n /\ 2 * 0 - 0 = 0
    OBVIOUS
  <2> QED
    BY <1>1, <2>3, <2>4, <2>5, Zenon DEF AfterPeaks
<1>3. ASSUME NEW k \in Nat, Good(k + 1) PROVE Good(k)
  <2>1. CASE Shr(n, k) % 2 = 1
    <3>1. Rank(n, k) = Rank(n, k + 1) + 1 /\ Rank(n, k + 1) \in Nat
      BY <2>1, RankNext, Zenon
    <3>2. Rank(n, k) <= n
      <4>1. Rank(n, k) \in 1..CountOnes[n]
        BY <2>1, TopsUpTo, Zenon
      <4>2. CountOnes[n] \in Nat /\ CountOnes[n] <= n
        BY OnesAtMost, Zenon
      <4> QED
        BY <4>1, <4>2
    <3>3. s[Rank(n, k)] = NextPeak(s[Rank(n, k + 1)])
      BY <1>1, <3>1, <3>2, Zenon
    <3> QED
      BY <1>3, <2>1, <3>3, NextPeakIs, Zenon
  <2>2. CASE Shr(n, k) % 2 # 1
    <3>0. Shr(n, k) % 2 = 0
      BY <2>2, Halved, Zenon
    <3>1. Rank(n, k) = Rank(n, k + 1)
      <4>1. Rank(n, k) = Rank(n, k + 1) + 0 /\ Rank(n, k + 1) \in Nat
        BY <3>0, RankNext, Zenon
      <4> QED
        BY <4>1
    <3>2. Covered(n, k) = Covered(n, k + 1)
      <4>1. Covered(n, k) = Covered(n, k + 1) + 0 /\ Covered(n, k + 1) \in Nat
        <5>1. k + 1 \in Nat
          OBVIOUS
        <5> QED
          BY <2>2, <5>1, CoveredNext, Zenon
      <4> QED
        BY <4>1
    <3> QED
      BY <1>3, <3>1, <3>2, Zenon DEF AfterPeaks
  <2> QED
    BY <2>1, <2>2, Zenon
<1> HIDE DEF Good
<1>4. ASSUME Bad # {} PROVE FALSE
  <2>1. PICK i \in Bad : \A j \in Bad : i <= j
    <3>1. Bad \in SUBSET Nat
      OBVIOUS
    <3> QED
      BY <1>4, <3>1, LeastNatural, Zenon
  <2>2. i # 0
    <3>1. n - 0 = n /\ n <= n
      OBVIOUS
    <3> QED
      BY <1>2, <2>1, <3>1, Zenon
  <2>3. PICK k \in Nat : k = n - i /\ k + 1 = n - (i - 1)
    BY <2>1
  <2>4. i - 1 \in 0..n /\ ~(i <= i - 1)
    BY <2>1, <2>2
  <2>5. Good(k + 1)
    BY <2>1, <2>3, <2>4, Zenon
  <2> QED
    BY <1>3, <2>1, <2>3, <2>5, Zenon
<1>5. Good(h)
  <2>1. CASE n <= h
    BY <1>2, <2>1, Zenon
  <2>2. CASE ~(n <= h)
    <3>1. n - h \in 0..n /\ n - (n - h) = h
      BY <2>2
    <3> QED
      BY <1>4, <3>1, Zenon
  <2> QED
    BY <2>1, <2>2, Zenon
<1> QED
  BY <1>5, Zenon DEF Good, s

(* The position of a peak.                                                 *)
LEMMA TopPos ==
  ASSUME NEW n \in Nat, NEW h \in Nat, Shr(n, h) % 2 = 1
  PROVE  /\ PosIn(n, Top(n, h)) = 2 * Covered(n, h) - Rank(n, h) - 1
         /\ PosOf(Shr(n, h) - 1, h) = 2 * Covered(n, h) - Rank(n, h) - 1
<1>1. /\ Shr(n, h) - 1 \in Nat /\ <<Shr(n, h) - 1, h>> \in Forest(n)
      /\ End(<<Shr(n, h) - 1, h>>) = Covered(n, h)
  BY PeakEnd, Zenon
<1>2. PICK x \in Nat : x = Shr(n, h) - 1
  BY <1>1, Zenon
<1>3. PosIn(n, Top(n, h)) = PosOf(x, h)
  BY <1>1, <1>2, PosIs, Zenon DEF Top
<1>4. x % 2 = 0 /\ x + 1 = Shr(n, h)
  <2>1. Shr(n, h) \in Nat
    BY ShrIs, Zenon
  <2> QED
    BY <1>2, <2>1
<1>5. Rank(n, h) = CountOnes[x] + 1 /\ CountOnes[x] \in Nat
  <2>1. TrailingOnes[x] = 0 /\ CountOnes[x] \in Nat
    BY <1>4, OnesOf, Zenon
  <2>2. CountOnes[x + 1] = CountOnes[x] - 0 + 1
    BY <2>1, Carry, Zenon
  <2>3. CountOnes[x + 1] = CountOnes[x] + 1
    BY <2>1, <2>2
  <2> QED
    BY <1>4, <2>1, <2>3, Zenon DEF Rank
<1>6. PosOf(x, h) = 2 * Covered(n, h) - 2 - CountOnes[x]
  BY <1>1, <1>2, Zenon DEF PosOf
<1>7. Covered(n, h) \in Nat
  BY CoveredNext, Zenon
<1>8. PosOf(x, h) = 2 * Covered(n, h) - Rank(n, h) - 1
  BY <1>5, <1>6, <1>7
<1> QED
  BY <1>2, <1>3, <1>8, Zenon

(* get_mmr_peaks returns the positions of the peaks by rank.               *)
LEMMA PeaksAre ==
  ASSUME NEW n \in Nat
  PROVE  /\ get_mmr_peaks(n) = [k \in 1..CountOnes[n] |-> get_mmr_peaks(n)[k]]
         /\ \A h \in Nat : Shr(n, h) % 2 = 1 =>
              /\ Rank(n, h) \in 1..CountOnes[n]
              /\ get_mmr_peaks(n)[Rank(n, h)] = PosOf(Shr(n, h) - 1, h)
         /\ \A h \in Nat : Rank(n, h) \in 1..CountOnes[n] =>
              get_mmr_peaks(n)[Rank(n, h)] = 2 * Covered(n, h) - Rank(n, h) - 1
<1> DEFINE s == PeaksLoop(n)
           K == CountOnes[n]
           Done(k) == s[k].leaf_count = 0
           First(k) == Done(k) /\ \A j \in 0..(k - 1) : ~Done(j)
           passes == CHOOSE k \in 0..n : First(k)
<1>1. get_mmr_peaks(n) = [k \in 1..passes |-> s[k].offset - 1]
  BY Zenon DEF get_mmr_peaks, Passes
<1>2. K \in 0..n /\ K \in Nat
  <2>1. K \in Nat /\ K <= n
    BY OnesAtMost, Zenon
  <2> HIDE DEF K
  <2> QED
    BY <2>1
<1>3. ASSUME NEW h \in Nat PROVE s[Rank(n, h)] = AfterPeaks(n, h)
  BY PeaksLoopAfter, Zenon
<1> HIDE DEF s
<1>4. ASSUME NEW h, NEW k, s[k] = AfterPeaks(n, h)
      PROVE  s[k].leaf_count = n - Covered(n, h) /\ s[k].offset = 2 * Covered(n, h) - Rank(n, h)
  BY <1>4 DEF AfterPeaks
<1>5. Done(K)
  <2>1. Rank(n, 0) = K /\ Shr(n, 0) = n /\ Pow2[0] = 1 /\ 0 \in Nat
    BY ShrZero, Pow2Next, Zenon DEF Rank
  <2>2. Covered(n, 0) = n * 1
    BY <2>1, Zenon DEF Covered
  <2>3. n - Covered(n, 0) = 0
    BY <2>2
  <2> QED
    BY <1>3, <1>4, <2>1, <2>3, Zenon
<1>6. ASSUME NEW j \in 0..(K - 1) PROVE ~Done(j)
  <2>1. j + 1 \in 1..K /\ j \in Nat
    BY <1>2
  <2>2. PICK h \in Nat : Shr(n, h) % 2 = 1 /\ Rank(n, h) = j + 1
    BY <2>1, RankTaken, Zenon
  <2>3. Rank(n, h) = Rank(n, h + 1) + 1 /\ Rank(n, h + 1) \in Nat /\ h + 1 \in Nat
    <3>1. h + 1 \in Nat
      OBVIOUS
    <3>2. /\ Rank(n, h + 1) \in Nat
          /\ Rank(n, h) = Rank(n, h + 1) + (Shr(n, h) % 2)
      BY RankNext, Zenon
    <3> QED
      BY <2>2, <3>1, <3>2
  <2>4. Rank(n, h + 1) = j
    BY <2>1, <2>2, <2>3
  <2>5. n - Covered(n, h + 1) \in Nat \ {0}
    BY <2>2, NextPeakIs, Zenon
  <2>6. s[j].leaf_count = n - Covered(n, h + 1)
    BY <1>3, <1>4, <2>3, <2>4, Zenon
  <2> QED
    BY <2>5, <2>6, Zenon
<1> HIDE DEF Done, K
<1>7. First(K)
  BY <1>5, <1>6, Zenon
<1>8. passes \in 0..n /\ First(passes)
  BY <1>2, <1>7, Zenon
<1>9. passes = K
  <2> HIDE DEF passes
  <2>1. (passes < K => passes \in 0..(K - 1)) /\ (K < passes => K \in 0..(passes - 1))
        /\ (passes < K \/ K < passes \/ passes = K)
    BY <1>2, <1>8
  <2> QED
    BY <1>7, <1>8, <2>1, Zenon
<1> HIDE DEF passes
<1>10. get_mmr_peaks(n) = [k \in 1..K |-> s[k].offset - 1]
  BY <1>1, <1>9, Zenon
<1>11. ASSUME NEW h \in Nat, Rank(n, h) \in 1..K
       PROVE  get_mmr_peaks(n)[Rank(n, h)] = 2 * Covered(n, h) - Rank(n, h) - 1
  <2>1. s[Rank(n, h)].offset = 2 * Covered(n, h) - Rank(n, h)
    BY <1>3, <1>4, Zenon
  <2> QED
    BY <1>10, <1>11, <2>1, Zenon
<1>12. ASSUME NEW h \in Nat, Shr(n, h) % 2 = 1
       PROVE  Rank(n, h) \in 1..K /\ get_mmr_peaks(n)[Rank(n, h)] = PosOf(Shr(n, h) - 1, h)
  <2>1. Rank(n, h) \in 1..K
    BY <1>12, TopsUpTo, Zenon DEF K
  <2> QED
    BY <1>11, <1>12, <2>1, TopPos, Zenon
<1>13. get_mmr_peaks(n) = [k \in 1..K |-> get_mmr_peaks(n)[k]]
  BY <1>10, Zenon
<1> QED
  BY <1>11, <1>12, <1>13, Zenon DEF K

(* It agrees with the reference.                                           *)
LEMMA PeaksAgree ==
  ASSUME NEW n \in Nat
  PROVE  get_mmr_peaks(n) = [i \in 1..Len(PeakSeq(n)) |-> PosIn(n, PeakSeq(n)[i])]
<1>1. Len(PeakSeq(n)) = CountOnes[n]
  BY ForestMMRForm, Zenon
<1>2. ASSUME NEW i \in 1..CountOnes[n] PROVE get_mmr_peaks(n)[i] = PosIn(n, PeakSeq(n)[i])
  <2>1. PICK h \in Nat : Shr(n, h) % 2 = 1 /\ Rank(n, h) = i
    BY RankTaken, Zenon
  <2>2. PeakSeq(n)[i] = Top(n, h)
    BY <2>1, PeakSeqIs, Zenon
  <2>3. get_mmr_peaks(n)[i] = PosOf(Shr(n, h) - 1, h)
    BY <2>1, PeaksAre, Zenon
  <2> QED
    BY <2>1, <2>2, <2>3, TopPos, Zenon
<1>3. get_mmr_peaks(n) = [i \in 1..CountOnes[n] |-> get_mmr_peaks(n)[i]]
  BY PeaksAre, Zenon
<1> QED
  BY <1>1, <1>2, <1>3, Zenon

-----------------------------------------------------------------------------
(* The height of the root of a perfect tree, from its position.            *)

(* get_mmr_node_height's loop after h turns.                               *)
LEMMA HeightLoopIs ==
  ASSUME NEW pos \in Nat, NEW h \in 0..pos
  PROVE  HeightLoop(pos)[h] = pos - (Pow2[h + 1] - 2 - h)
<1> DEFINE Turn(f, k) == IF k = 0 THEN pos ELSE f[k - 1] - full_tree_size(k - 1)
           g == [k \in 0..pos |-> pos - (Pow2[k + 1] - 2 - k)]
<1>1. ASSUME NEW k \in 0..pos, k # 0
      PROVE  \E j \in Nat : j = k - 1 /\ k = j + 1 /\ j \in 0..pos /\ ~(k <= j)
  <2>1. LET j == k - 1 IN j \in Nat /\ k = j + 1 /\ j \in 0..pos /\ ~(k <= j)
    BY <1>1
  <2> QED
    BY <2>1, Zenon
<1>2. ASSUME NEW k \in 0..pos PROVE g[k] = Turn(g, k)
  <2>1. CASE k = 0
    <3>1. Pow2[0 + 1] = 2 * 1
      <4>1. 0 \in Nat
        OBVIOUS
      <4> QED
        BY <4>1, Pow2Next, Zenon
    <3>2. pos - (Pow2[0 + 1] - 2 - 0) = pos
      BY <3>1
    <3> QED
      BY <2>1, <3>2, Zenon
  <2>2. CASE k # 0
    <3>1. PICK j \in Nat : j = k - 1 /\ k = j + 1 /\ j \in 0..pos
      BY <1>1, <2>2, Zenon
    <3>2. g[k] = pos - (Pow2[(j + 1) + 1] - 2 - (j + 1)) /\ g[j] = pos - (Pow2[j + 1] - 2 - j)
      BY <3>1, Zenon
    <3>3. Turn(g, k) = g[j] - (Pow2[j + 1] - 1)
      BY <2>2, <3>1, Zenon DEF full_tree_size
    <3> HIDE DEF g, Turn
    <3>4. Pow2[j + 1] \in Nat /\ Pow2[(j + 1) + 1] = 2 * Pow2[j + 1]
      <4>1. j + 1 \in Nat
        OBVIOUS
      <4> QED
        BY <4>1, Pow2Next, Zenon
    <3> QED
      BY <3>2, <3>3, <3>4
  <2> QED
    BY <2>1, <2>2, Zenon
<1> HIDE DEF Turn
<1>3. g = [k \in 0..pos |-> Turn(g, k)]
  <2>1. g = [k \in 0..pos |-> g[k]]
    BY Zenon
  <2> HIDE DEF g
  <2> QED
    BY <1>2, <2>1, Zenon
<1> HIDE DEF g
<1>4. PICK f : f = HeightLoop(pos)
  BY Zenon
<1>5. f = [k \in 0..pos |-> Turn(f, k)]
  BY <1>3, <1>4, Zenon DEF HeightLoop, Turn
<1>6. \A k \in 0..pos : f[k] = Turn(f, k)
  BY <1>5, Zenon
<1> DEFINE Bad == {k \in 0..pos : f[k] # g[k]}
<1>7. Bad = {}
  <2> SUFFICES ASSUME Bad # {} PROVE FALSE
    BY Zenon
  <2>1. PICK k \in Bad : \A j \in Bad : k <= j
    <3>1. Bad \in SUBSET Nat
      OBVIOUS
    <3> QED
      BY <3>1, LeastNatural, Zenon
  <2>2. CASE k = 0
    BY <1>2, <1>6, <2>1, <2>2, Zenon DEF Turn
  <2>3. CASE k # 0
    <3>1. PICK j \in Nat : j = k - 1 /\ k = j + 1 /\ j \in 0..pos /\ ~(k <= j)
      BY <1>1, <2>1, <2>3, Zenon
    <3>2. f[k - 1] = g[k - 1]
      BY <2>1, <3>1, Zenon
    <3> QED
      BY <1>2, <1>6, <2>1, <3>2, Zenon DEF Turn
  <2> QED
    BY <2>2, <2>3, Zenon
<1> QED
  BY <1>4, <1>7, Zenon DEF g

(* At the last position of a perfect tree it returns the tree's height.    *)
LEMMA RootHeight ==
  ASSUME NEW g \in Nat
  PROVE  get_mmr_node_height(Pow2[g + 1] - 2) = g
<1> DEFINE pos == Pow2[g + 1] - 2
           Done(h) == HeightLoop(pos)[h] < full_tree_size(h)
           First(k) == Done(k) /\ \A j \in 0..(k - 1) : ~Done(j)
           passes == CHOOSE k \in 0..pos : First(k)
<1>1. get_mmr_node_height(pos) = passes
  BY Zenon DEF get_mmr_node_height, Passes
<1>2. pos \in Nat /\ g \in 0..pos /\ Pow2[g + 1] \in Nat /\ pos = Pow2[g + 1] - 2
  <2>1. Pow2[g + 1] \in Nat /\ g + 1 < Pow2[g + 1]
    <3>1. g + 1 \in Nat
      OBVIOUS
    <3> QED
      BY <3>1, Pow2Type, Zenon
  <2> QED
    BY <2>1
<1> HIDE DEF pos
<1>3. ASSUME NEW h \in 0..pos
      PROVE  Done(h) <=> pos - (Pow2[h + 1] - 2 - h) < Pow2[h + 1] - 1
  BY <1>2, HeightLoopIs, Zenon DEF full_tree_size
<1> HIDE DEF Done
<1>4. Done(g)
  <2>1. g + 1 < Pow2[g + 1]
    <3>1. g + 1 \in Nat
      OBVIOUS
    <3> QED
      BY <3>1, Pow2Type, Zenon
  <2>2. pos - (Pow2[g + 1] - 2 - g) < Pow2[g + 1] - 1
    BY <1>2, <2>1
  <2> QED
    BY <1>2, <1>3, <2>2, Zenon
<1>5. ASSUME NEW j \in 0..(g - 1) PROVE ~Done(j)
  <2>1. j \in Nat /\ j \in 0..pos /\ j + 1 \in Nat /\ g + 1 \in Nat /\ j + 1 < g + 1
    BY <1>2
  <2>2. 2 * Pow2[j + 1] <= Pow2[g + 1] /\ Pow2[j + 1] \in Nat
    BY <2>1, Pow2Grows, Pow2Type, Zenon
  <2>3. ~(pos - (Pow2[j + 1] - 2 - j) < Pow2[j + 1] - 1)
    BY <1>2, <2>1, <2>2
  <2> QED
    BY <1>3, <2>1, <2>3, Zenon
<1>6. First(g)
  BY <1>4, <1>5, Zenon
<1>7. passes \in 0..pos /\ First(passes)
  BY <1>2, <1>6, Zenon
<1>8. passes = g
  <2> HIDE DEF passes
  <2>1. (passes < g => passes \in 0..(g - 1)) /\ (g < passes => g \in 0..(passes - 1))
        /\ (passes < g \/ g < passes \/ passes = g)
    BY <1>2, <1>7
  <2> QED
    BY <1>6, <1>7, <2>1, Zenon
<1> HIDE DEF passes
<1> QED
  BY <1>1, <1>8, Zenon DEF pos

-----------------------------------------------------------------------------
(* The positions of a subtree.                                             *)

(* The first position of the tree under a node.                            *)
Base(c, h) == PosOf(c, h) - (Pow2[h + 1] - 2)

(* The children of a node and where their trees begin.                     *)
LEMMA Children ==
  ASSUME NEW c \in Nat, NEW h \in Nat
  PROVE  /\ PosOf(2 * c, h) \in Nat /\ PosOf(2 * c + 1, h) \in Nat /\ PosOf(c, h + 1) \in Nat
         /\ PosOf(c, h + 1) - Pow2[h + 1] = PosOf(2 * c, h)
         /\ PosOf(c, h + 1) - 1 = PosOf(2 * c + 1, h)
         /\ Base(2 * c, h) = Base(c, h + 1)
         /\ Base(2 * c + 1, h) = PosOf(2 * c, h) + 1
         /\ Base(c, h + 1) \in Int
<1>1. /\ PosOf(2 * c, h) \in Nat /\ PosOf(2 * c + 1, h) \in Nat /\ PosOf(c, h + 1) \in Nat
      /\ PosOf(2 * c + 1, h) = PosOf(2 * c, h) + (Pow2[h + 1] - 1)
      /\ PosOf(c, h + 1) = PosOf(2 * c + 1, h) + 1
  BY Family, Zenon DEF full_tree_size
<1>2. Pow2[h + 1] \in Nat /\ Pow2[(h + 1) + 1] = 2 * Pow2[h + 1]
  <2>1. h + 1 \in Nat
    OBVIOUS
  <2> QED
    BY <2>1, Pow2Next, Zenon
<1>3. /\ Base(2 * c, h) = PosOf(2 * c, h) - (Pow2[h + 1] - 2)
      /\ Base(2 * c + 1, h) = PosOf(2 * c + 1, h) - (Pow2[h + 1] - 2)
      /\ Base(c, h + 1) = PosOf(c, h + 1) - (2 * Pow2[h + 1] - 2)
  BY <1>2, Zenon DEF Base
<1> QED
  BY <1>1, <1>2, <1>3

(* The tree of a node begins no later than the node.                       *)
LEMMA BaseInt ==
  ASSUME NEW c \in Nat, NEW h \in Nat
  PROVE  Base(c, h) \in Int /\ PosOf(c, h) \in Nat /\ Base(c, h) <= PosOf(c, h)
<1>1. PosOf(c, h) \in Nat
  BY PosWithin, Zenon
<1>2. Pow2[h + 1] \in Nat /\ Pow2[h + 1] >= 2
  <2>1. Pow2[h] \in Nat \ {0} /\ Pow2[h + 1] = 2 * Pow2[h]
    BY Pow2Next, Zenon
  <2> QED
    BY <2>1
<1>3. Base(c, h) = PosOf(c, h) - (Pow2[h + 1] - 2)
  BY Zenon DEF Base
<1> QED
  BY <1>1, <1>2, <1>3

(* One level up: the parent comes later, its tree begins no later.         *)
LEMMA UpOne ==
  ASSUME NEW x \in Nat, NEW g \in Nat
  PROVE  /\ x \div 2 \in Nat
         /\ PosOf(x, g) + 1 <= PosOf(x \div 2, g + 1)
         /\ Base(x \div 2, g + 1) <= Base(x, g)
<1>1. PICK c \in Nat : c = x \div 2 /\ (x = 2 * c \/ x = 2 * c + 1)
  OBVIOUS
<1>2. /\ PosOf(2 * c, g) \in Nat /\ PosOf(2 * c + 1, g) \in Nat /\ PosOf(c, g + 1) \in Nat
      /\ PosOf(c, g + 1) - Pow2[g + 1] = PosOf(2 * c, g)
      /\ PosOf(c, g + 1) - 1 = PosOf(2 * c + 1, g)
      /\ Base(2 * c, g) = Base(c, g + 1)
      /\ Base(2 * c + 1, g) = PosOf(2 * c, g) + 1
      /\ Base(c, g + 1) \in Int
  BY Children, Zenon
<1>3. Pow2[g + 1] \in Nat \ {0}
  BY Pow2Next, Zenon
<1>4. Base(2 * c, g) <= PosOf(2 * c, g)
  <2>1. 2 * c \in Nat
    OBVIOUS
  <2> QED
    BY <2>1, BaseInt, Zenon
<1>5. CASE x = 2 * c
  BY <1>1, <1>2, <1>3, <1>5
<1>6. CASE x = 2 * c + 1
  BY <1>1, <1>2, <1>3, <1>4, <1>6
<1> QED
  BY <1>1, <1>5, <1>6, Zenon

(* The same for any number of levels up.                                   *)
LEMMA Inside ==
  ASSUME NEW c \in Nat, NEW h \in Nat, NEW k \in Nat
  PROVE  /\ PosOf(c, h) + k <= PosOf(Shr(c, k), h + k)
         /\ Base(Shr(c, k), h + k) <= Base(c, h)
<1> DEFINE Good(j) == /\ PosOf(c, h) + j <= PosOf(Shr(c, j), h + j)
                      /\ Base(Shr(c, j), h + j) <= Base(c, h)
           Bad == {j \in Nat : ~Good(j)}
<1>0. PosOf(c, h) \in Nat /\ Base(c, h) \in Int
  BY BaseInt, Zenon
<1>1. Good(0)
  <2>1. Shr(c, 0) = c
    BY ShrZero, Zenon
  <2>2. h + 0 = h /\ PosOf(c, h) + 0 <= PosOf(c, h) /\ Base(c, h) <= Base(c, h)
    BY <1>0
  <2> QED
    BY <2>1, <2>2, Zenon
<1>2. ASSUME NEW j \in Nat, Good(j) PROVE Good(j + 1)
  <2>1. PICK x \in Nat : x = Shr(c, j) /\ Shr(c, j + 1) = x \div 2
    BY ShrIs, ShrNext, Zenon
  <2>2. PICK g \in Nat : g = h + j /\ g + 1 = h + (j + 1)
    OBVIOUS
  <2>3. /\ x \div 2 \in Nat
        /\ PosOf(x, g) + 1 <= PosOf(x \div 2, g + 1)
        /\ Base(x \div 2, g + 1) <= Base(x, g)
    BY UpOne, Zenon
  <2>4. g + 1 \in Nat
    OBVIOUS
  <2>5. /\ PosOf(x, g) \in Nat /\ Base(x, g) \in Int
        /\ PosOf(x \div 2, g + 1) \in Nat /\ Base(x \div 2, g + 1) \in Int
    BY <2>3, <2>4, BaseInt, Zenon
  <2>6. PosOf(c, h) + j <= PosOf(x, g) /\ Base(x, g) <= Base(c, h)
    BY <1>2, <2>1, <2>2, Zenon
  <2>7. PosOf(c, h) + (j + 1) <= PosOf(x \div 2, g + 1) /\ Base(x \div 2, g + 1) <= Base(c, h)
    BY <1>0, <2>3, <2>5, <2>6
  <2> QED
    BY <2>1, <2>2, <2>7, Zenon
<1> HIDE DEF Good
<1>3. ASSUME Bad # {} PROVE FALSE
  <2>1. PICK i \in Bad : \A j \in Bad : i <= j
    BY <1>3, LeastNatural, Zenon
  <2>2. i # 0
    BY <1>1, <2>1, Zenon
  <2>3. PICK j \in Nat : i = j + 1 /\ ~(i <= j)
    <3>1. LET j == i - 1 IN j \in Nat /\ i = j + 1 /\ ~(i <= j)
      BY <2>1, <2>2
    <3> QED
      BY <3>1, Zenon
  <2> QED
    BY <1>2, <2>1, <2>3, Zenon
<1>4. Good(k)
  BY <1>3, Zenon
<1> QED
  BY <1>4, Zenon DEF Good

(* get_mmr_path's state at a node.                                         *)
At(c, h) == [p |-> PosOf(c, h), subtree_start |-> Base(c, h)]

(* get_mmr_path's turn goes from the parent to the child on the way down.  *)
LEMMA StepDown ==
  ASSUME NEW x \in Nat, NEW g \in Nat, NEW pos \in Nat,
         Base(x, g) <= pos, pos <= PosOf(x, g)
  PROVE  /\ Descend(pos, At(x \div 2, g + 1)) = At(x, g)
         /\ PassedBy(pos, At(x \div 2, g + 1)) = SiblingOf(x, g)
<1>1. PICK c \in Nat : /\ c = x \div 2
                       /\ x % 2 = 0 => x = 2 * c /\ x + 1 = 2 * c + 1
                       /\ x % 2 # 0 => x % 2 = 1 /\ x = 2 * c + 1 /\ x - 1 = 2 * c
  BY Parity, Zenon
<1>2. /\ PosOf(2 * c, g) \in Nat /\ PosOf(2 * c + 1, g) \in Nat /\ PosOf(c, g + 1) \in Nat
      /\ PosOf(c, g + 1) - Pow2[g + 1] = PosOf(2 * c, g)
      /\ PosOf(c, g + 1) - 1 = PosOf(2 * c + 1, g)
      /\ Base(2 * c, g) = Base(c, g + 1)
      /\ Base(2 * c + 1, g) = PosOf(2 * c, g) + 1
  BY Children, Zenon
<1>3. PICK s : s = At(c, g + 1) /\ s.p = PosOf(c, g + 1) /\ s.subtree_start = Base(c, g + 1)
  <2>1. At(c, g + 1).p = PosOf(c, g + 1) /\ At(c, g + 1).subtree_start = Base(c, g + 1)
    BY DEF At
  <2> QED
    BY <2>1, Zenon
<1>4. left_child(s) = PosOf(2 * c, g)
  <2>1. g + 1 \in Nat
    OBVIOUS
  <2>2. s.p - s.subtree_start = Pow2[(g + 1) + 1] - 2
    <3>1. Pow2[(g + 1) + 1] \in Nat
      BY <2>1, Pow2Next, Zenon
    <3>2. Base(c, g + 1) = PosOf(c, g + 1) - (Pow2[(g + 1) + 1] - 2)
      BY Zenon DEF Base
    <3> QED
      BY <1>2, <1>3, <3>1, <3>2
  <2>3. get_mmr_node_height(s.p - s.subtree_start) = g + 1
    BY <2>1, <2>2, RootHeight, Zenon
  <2> QED
    BY <1>2, <1>3, <2>3, Zenon DEF left_child
<1>5. CASE x % 2 = 0
  <2>1. pos <= left_child(s) /\ x = 2 * c /\ x + 1 = 2 * c + 1
    BY <1>1, <1>4, <1>5, Zenon
  <2>2. Descend(pos, s) = [p |-> PosOf(2 * c, g), subtree_start |-> Base(2 * c, g)]
    BY <1>2, <1>3, <1>4, <2>1, Zenon DEF Descend
  <2>3. PassedBy(pos, s) = PosOf(2 * c + 1, g)
    BY <1>2, <1>3, <2>1, Zenon DEF PassedBy
  <2> QED
    BY <1>1, <1>3, <1>5, <2>1, <2>2, <2>3, Zenon DEF At, SiblingOf
<1>6. CASE x % 2 # 0
  <2>0. x = 2 * c + 1 /\ x - 1 = 2 * c
    BY <1>1, <1>6, Zenon
  <2>1. ~(pos <= left_child(s))
    <3>1. PosOf(2 * c, g) + 1 <= pos
      BY <1>2, <2>0, Zenon
    <3>2. ~(pos <= PosOf(2 * c, g))
      BY <1>2, <3>1
    <3> QED
      BY <1>4, <3>2, Zenon
  <2>2. Descend(pos, s) = [p |-> PosOf(2 * c + 1, g), subtree_start |-> Base(2 * c + 1, g)]
    BY <1>2, <1>3, <1>4, <2>1, Zenon DEF Descend
  <2>3. PassedBy(pos, s) = PosOf(2 * c, g)
    BY <1>4, <2>1, Zenon DEF PassedBy
  <2> QED
    BY <1>1, <1>3, <1>6, <2>0, <2>2, <2>3, Zenon DEF At, SiblingOf
<1> QED
  BY <1>5, <1>6, Zenon

-----------------------------------------------------------------------------
(* The walk.                                                               *)

(* What get_mmr_path's loop has to satisfy, as far as m turns.             *)
IsWalk(f, m, pos, first) ==
  f = [k \in 0..m |-> IF k = 0 THEN first ELSE Descend(pos, f[k - 1])]

(* There is a function that takes m turns of it.                           *)
LEMMA WalkExists ==
  ASSUME NEW m \in Nat, NEW pos, NEW first
  PROVE  \E f : IsWalk(f, m, pos, first)
<1> DEFINE Bad == {j \in Nat : ~\E f : IsWalk(f, j, pos, first)}
<1> SUFFICES ASSUME Bad # {} PROVE FALSE
  BY Zenon
<1>1. PICK j \in Bad : \A i \in Bad : j <= i
  BY LeastNatural, Zenon
<1>2. j # 0
  <2> DEFINE f == [k \in 0..0 |-> first]
  <2>1. \A k \in 0..0 : k = 0
    OBVIOUS
  <2>2. f = [k \in 0..0 |-> IF k = 0 THEN first ELSE Descend(pos, f[k - 1])]
    BY <2>1, Zenon
  <2> QED
    BY <1>1, <2>2, Zenon DEF IsWalk
<1>3. j - 1 \in Nat /\ j - 1 \notin Bad
  BY <1>1, <1>2
<1>4. PICK f : IsWalk(f, j - 1, pos, first)
  BY <1>3, Zenon
<1> DEFINE g == [k \in 0..j |-> IF k = j THEN Descend(pos, f[j - 1]) ELSE f[k]]
<1>5. \A k \in 0..(j - 1) : f[k] = IF k = 0 THEN first ELSE Descend(pos, f[k - 1])
  BY <1>4, Zenon DEF IsWalk
<1>6. \A k \in 0..j : g[k] = IF k = 0 THEN first ELSE Descend(pos, g[k - 1])
  <2>1. /\ \A k \in 0..j : k # j => k \in 0..(j - 1)
        /\ \A k \in 0..j : k # 0 => k - 1 \in 0..j /\ k - 1 # j
        /\ j \in 0..j
    BY <1>1, <1>2
  <2>2. g[j] = Descend(pos, f[j - 1]) /\ \A k \in 0..j : k # j => g[k] = f[k]
    BY <2>1, Zenon
  <2> HIDE DEF g
  <2> QED
    BY <1>2, <1>5, <2>1, <2>2, Zenon
<1>7. IsWalk(g, j, pos, first)
  BY <1>6, Zenon DEF IsWalk
<1> QED
  BY <1>1, <1>7, Zenon

(* s takes the loop's turns towards pos.                                   *)
Walks(s, pos, m) == \A k \in Nat : k + 1 <= m => s[k + 1] = Descend(pos, s[k])

(* So PathLoop is what its definition says.                                *)
LEMMA PathLoopIs ==
  ASSUME NEW pos, NEW peak \in Nat, NEW start
  PROVE  /\ PathLoop(pos, peak, start)[0] = [p |-> peak, subtree_start |-> start]
         /\ Walks(PathLoop(pos, peak, start), pos, peak)
<1>0. PICK first : first = [p |-> peak, subtree_start |-> start]
  BY Zenon
<1>1. PathLoop(pos, peak, start) = CHOOSE f : IsWalk(f, peak, pos, first)
  BY <1>0, Zenon DEF PathLoop, IsWalk
<1>2. IsWalk(PathLoop(pos, peak, start), peak, pos, first)
  BY <1>1, WalkExists, Zenon
<1>3. PICK f : f = PathLoop(pos, peak, start)
  BY Zenon
<1>4. \A k \in 0..peak : f[k] = IF k = 0 THEN first ELSE Descend(pos, f[k - 1])
  BY <1>2, <1>3, Zenon DEF IsWalk
<1>5. 0 \in 0..peak /\ \A k \in Nat : k + 1 <= peak => k + 1 \in 0..peak /\ k + 1 # 0 /\ (k + 1) - 1 = k
  OBVIOUS
<1>6. f[0] = first
  BY <1>4, <1>5, Zenon
<1>7. Walks(f, pos, peak)
  BY <1>4, <1>5, Zenon DEF Walks
<1> QED
  BY <1>0, <1>3, <1>6, <1>7, Zenon

(* It starts at the ancestor K levels up,                                  *)
WalksFrom(s, c, h, K) == s[0] = At(Shr(c, K), h + K) /\ Walks(s, PosOf(c, h), K)

(* and goes by every ancestor of the node in turn.                         *)
WalksTo(s, c, h, K) == \A j \in 0..K : s[K - j] = At(Shr(c, j), h + j)

(* From an ancestor K levels up, k passes lead to the one K - k levels up. *)
LEMMA WalkIs ==
  ASSUME NEW c \in Nat, NEW h \in Nat, NEW K \in Nat, NEW s, WalksFrom(s, c, h, K)
  PROVE  WalksTo(s, c, h, K)
<1>0. s[0] = At(Shr(c, K), h + K) /\ Walks(s, PosOf(c, h), K)
  BY Zenon DEF WalksFrom
<1> DEFINE Good(i) == s[i] = At(Shr(c, K - i), h + (K - i))
           Bad == {i \in 0..K : ~Good(i)}
<1>1. ASSUME NEW i \in Nat, i + 1 <= K, Good(i) PROVE Good(i + 1)
  <2>1. PICK k \in Nat : k = K - (i + 1) /\ k + 1 = K - i
    <3>1. LET k == K - (i + 1) IN k \in Nat /\ k + 1 = K - i
      BY <1>1
    <3> QED
      BY <3>1, Zenon
  <2>2. PICK x \in Nat : x = Shr(c, k) /\ Shr(c, k + 1) = x \div 2
    BY ShrIs, ShrNext, Zenon
  <2>3. PICK g \in Nat : g = h + k /\ g + 1 = h + (k + 1)
    OBVIOUS
  <2>4. PICK pos \in Nat : pos = PosOf(c, h) /\ Base(x, g) <= pos /\ pos <= PosOf(x, g)
    <3>1. PosOf(c, h) + k <= PosOf(x, g) /\ Base(x, g) <= Base(c, h)
      BY <2>2, <2>3, Inside, Zenon
    <3>2. /\ PosOf(c, h) \in Nat /\ Base(c, h) \in Int /\ Base(c, h) <= PosOf(c, h)
          /\ PosOf(x, g) \in Nat /\ Base(x, g) \in Int
      BY BaseInt, Zenon
    <3>3. Base(x, g) <= PosOf(c, h) /\ PosOf(c, h) <= PosOf(x, g)
      BY <3>1, <3>2
    <3> QED
      BY <3>2, <3>3, Zenon
  <2>5. Descend(pos, At(x \div 2, g + 1)) = At(x, g)
    BY <2>4, StepDown, Zenon
  <2>6. s[i] = At(x \div 2, g + 1)
    BY <1>1, <2>1, <2>2, <2>3, Zenon
  <2>7. s[i + 1] = Descend(pos, s[i])
    BY <1>0, <1>1, <2>4, Zenon DEF Walks
  <2> QED
    BY <2>1, <2>2, <2>3, <2>5, <2>6, <2>7, Zenon
<1>2. Good(0)
  <2>1. K - 0 = K
    OBVIOUS
  <2> QED
    BY <1>0, <2>1, Zenon
<1> HIDE DEF Good
<1>3. ASSUME Bad # {} PROVE FALSE
  <2>1. PICK i \in Bad : \A k \in Bad : i <= k
    <3>1. Bad \in SUBSET Nat
      OBVIOUS
    <3> QED
      BY <1>3, <3>1, LeastNatural, Zenon
  <2>2. i # 0
    BY <1>2, <2>1, Zenon
  <2>3. PICK k \in Nat : i = k + 1 /\ ~(i <= k) /\ k \in 0..K /\ k + 1 <= K
    <3>1. LET k == i - 1 IN k \in Nat /\ i = k + 1 /\ ~(i <= k) /\ k \in 0..K /\ k + 1 <= K
      BY <2>1, <2>2
    <3> QED
      BY <3>1, Zenon
  <2> QED
    BY <1>1, <2>1, <2>3, Zenon
<1>4. ASSUME NEW j \in 0..K PROVE s[K - j] = At(Shr(c, j), h + j)
  <2>1. K - j \in 0..K /\ K - (K - j) = j
    OBVIOUS
  <2>2. Good(K - j)
    BY <1>3, <2>1, Zenon
  <2> QED
    BY <2>1, <2>2, Zenon DEF Good
<1> QED
  BY <1>4, Zenon DEF WalksTo

-----------------------------------------------------------------------------
(* get_mmr_path: from the peak above a node down to it.                    *)

(* The number of nodes under the peaks of height h and more.               *)
Offset(n, h) == 2 * Covered(n, h) - Rank(n, h)

(* The higher, the fewer nodes and the smaller the rank.                   *)
LEMMA OffsetFalls ==
  ASSUME NEW n \in Nat, NEW h \in Nat, NEW k \in Nat, h <= k
  PROVE  /\ Offset(n, k) \in Int /\ Offset(n, h) \in Int /\ Offset(n, k) <= Offset(n, h)
         /\ Rank(n, k) \in Nat /\ Rank(n, h) \in Nat /\ Rank(n, k) <= Rank(n, h)
<1> DEFINE Good(i) == Offset(n, i) <= Offset(n, h) /\ Rank(n, i) <= Rank(n, h)
           Bad == {i \in Nat : h <= i /\ ~Good(i)}
<1>1. ASSUME NEW i \in Nat PROVE Offset(n, i) \in Int /\ Rank(n, i) \in Nat
  <2>1. Covered(n, i) \in Nat /\ Rank(n, i) \in Nat
    BY CoveredNext, RankNext, Zenon
  <2>2. 2 * Covered(n, i) - Rank(n, i) \in Int
    BY <2>1
  <2> QED
    BY <2>1, <2>2, Zenon DEF Offset
<1>2. Good(h)
  BY <1>1
<1>3. ASSUME NEW i \in Nat, Good(i) PROVE Good(i + 1)
  <2>1. /\ Covered(n, i) \in Nat /\ Covered(n, i + 1) \in Nat
        /\ Covered(n, i) = Covered(n, i + 1) + (IF Shr(n, i) % 2 = 1 THEN Pow2[i] ELSE 0)
    <3>1. i + 1 \in Nat
      OBVIOUS
    <3> QED
      BY <3>1, CoveredNext, Zenon
  <2>2. /\ Rank(n, i) \in Nat /\ Rank(n, i + 1) \in Nat
        /\ Rank(n, i) = Rank(n, i + 1) + (Shr(n, i) % 2) /\ Shr(n, i) % 2 \in {0, 1}
    BY RankNext, Zenon
  <2>3. Pow2[i] \in Nat \ {0}
    BY Pow2Type, Zenon
  <2>4. /\ 2 * Covered(n, i + 1) - Rank(n, i + 1) <= 2 * Covered(n, i) - Rank(n, i)
        /\ Rank(n, i + 1) <= Rank(n, i)
    BY <2>1, <2>2, <2>3
  <2>5. Offset(n, i + 1) <= Offset(n, i)
    BY <2>4, Zenon DEF Offset
  <2>6. i + 1 \in Nat
    OBVIOUS
  <2>7. Offset(n, i + 1) \in Int /\ Rank(n, i + 1) \in Nat
    BY <1>1, <2>6, Zenon
  <2> QED
    BY <1>1, <1>3, <2>4, <2>5, <2>7
<1> HIDE DEF Good
<1>4. ASSUME Bad # {} PROVE FALSE
  <2>1. PICK i \in Bad : \A j \in Bad : i <= j
    BY <1>4, LeastNatural, Zenon
  <2>2. i # h
    BY <1>2, <2>1, Zenon
  <2>3. PICK j \in Nat : i = j + 1 /\ ~(i <= j) /\ h <= j
    <3>1. LET j == i - 1 IN j \in Nat /\ i = j + 1 /\ ~(i <= j) /\ h <= j
      BY <2>1, <2>2
    <3> QED
      BY <3>1, Zenon
  <2> QED
    BY <1>3, <2>1, <2>3, Zenon
<1>5. Good(k)
  BY <1>4, Zenon
<1> QED
  BY <1>1, <1>5, Zenon DEF Good

(* The rank alone.                                                         *)
LEMMA RankFalls ==
  ASSUME NEW n \in Nat, NEW h \in Nat, NEW k \in Nat, h <= k
  PROVE  Rank(n, k) <= Rank(n, h)
BY OffsetFalls, Zenon

(* Where the peaks of height h and more end.                               *)
LEMMA PeakBefore ==
  ASSUME NEW n \in Nat, NEW h \in Nat, Rank(n, h) \in 1..CountOnes[n]
  PROVE  get_mmr_peaks(n)[Rank(n, h)] = Offset(n, h) - 1
BY PeaksAre, Zenon DEF Offset

(* Where the peak of height h is.                                          *)
LEMMA PeakAt ==
  ASSUME NEW n \in Nat, NEW h \in Nat, Shr(n, h) % 2 = 1
  PROVE  /\ Rank(n, h) \in 1..CountOnes[n]
         /\ get_mmr_peaks(n)[Rank(n, h)] = PosOf(Shr(n, h) - 1, h)
BY PeaksAre, Zenon

(* The peak above a node.                                                  *)
LEMMA PeakAbove ==
  ASSUME NEW n \in Nat, NEW c \in Nat, NEW h \in Nat, <<c, h>> \in Forest(n),
         NEW K \in Nat, K = Climb(n, <<c, h>>)
  PROVE  Shr(n, h + K) % 2 = 1 /\ Shr(c, K) = Shr(n, h + K) - 1
<1> DEFINE x == Shr(c, K)
           y == Shr(n, h + K)
<1>0. K + 1 \in Nat /\ h + K \in Nat /\ h + (K + 1) = (h + K) + 1 /\ K <= K /\ ~(K + 1 <= K)
  OBVIOUS
<1>1. x \in Nat /\ Shr(c, K + 1) = x \div 2
  BY ShrIs, ShrNext, Zenon
<1>2. y \in Nat /\ Shr(n, h + (K + 1)) = y \div 2
  BY <1>0, ShrIs, ShrNext, Zenon
<1>3. \A k \in Nat : Shr(c, k) < Shr(n, h + k) <=> k <= K
  BY ClimbIs, Zenon
<1>4. x < y /\ ~(x \div 2 < y \div 2)
  BY <1>0, <1>1, <1>2, <1>3, Zenon
<1> HIDE DEF x, y
<1>5. y % 2 = 1 /\ x = y - 1
  BY <1>1, <1>2, <1>4
<1> QED
  BY <1>5, Zenon DEF x, y

(* The tree of a peak begins where the taller ones end.                    *)
LEMMA TopBase ==
  ASSUME NEW n \in Nat, NEW g \in Nat, Shr(n, g) % 2 = 1
  PROVE  /\ Base(Shr(n, g) - 1, g) = Offset(n, g + 1)
         /\ Rank(n, g) = Rank(n, g + 1) + 1 /\ Rank(n, g + 1) \in Nat
<1>1. PosOf(Shr(n, g) - 1, g) = 2 * Covered(n, g) - Rank(n, g) - 1
  BY TopPos, Zenon
<1>2. Pow2[g] \in Nat \ {0} /\ Pow2[g + 1] = 2 * Pow2[g]
  BY Pow2Next, Zenon
<1>3. /\ Covered(n, g) = Covered(n, g + 1) + Pow2[g] /\ Covered(n, g + 1) \in Nat
  <2>1. g + 1 \in Nat
    OBVIOUS
  <2> QED
    BY <2>1, CoveredNext, Zenon
<1>4. Rank(n, g) = Rank(n, g + 1) + 1 /\ Rank(n, g + 1) \in Nat
  BY RankNext, Zenon
<1>5. (2 * Covered(n, g) - Rank(n, g) - 1) - (Pow2[g + 1] - 2)
        = 2 * Covered(n, g + 1) - Rank(n, g + 1)
  BY <1>2, <1>3, <1>4
<1> QED
  BY <1>1, <1>4, <1>5, Zenon DEF Base, Offset

(* get_mmr_path's target peak, and where its tree begins.                  *)
Target(n, pos) == FirstIndex(get_mmr_peaks(n), LAMBDA peak : pos <= peak)

TargetStart(n, pos) ==
  IF Target(n, pos) = 1 THEN 0 ELSE get_mmr_peaks(n)[Target(n, pos) - 1] + 1

(* The first peak at or after a node is the one above it, and its tree     *)
(* begins after the peak before.                                           *)
LEMMA TargetIs ==
  ASSUME NEW n \in Nat, NEW c \in Nat, NEW h \in Nat, <<c, h>> \in Forest(n),
         NEW K \in Nat, K = Climb(n, <<c, h>>)
  PROVE  /\ Target(n, PosOf(c, h)) # 0
         /\ get_mmr_peaks(n)[Target(n, PosOf(c, h))] = PosOf(Shr(c, K), h + K)
         /\ TargetStart(n, PosOf(c, h)) = Base(Shr(c, K), h + K)
<1> DEFINE peaks == get_mmr_peaks(n)
           pos == PosOf(c, h)
           hits == {i \in 1..Len(peaks) : pos <= peaks[i]}
<1>1. PICK g \in Nat : g = h + K /\ g + 1 \in Nat
  OBVIOUS
<1>2. Shr(n, g) % 2 = 1 /\ Shr(c, K) = Shr(n, g) - 1
  <2>1. Shr(n, h + K) % 2 = 1 /\ Shr(c, K) = Shr(n, h + K) - 1
    BY PeakAbove, SMT
  <2> QED
    BY <1>1, <2>1, Zenon
<1>3. PICK r \in Nat : /\ r = Rank(n, g) /\ r \in 1..CountOnes[n]
                       /\ peaks[r] = PosOf(Shr(c, K), g)
                       /\ r = Rank(n, g + 1) + 1 /\ Rank(n, g + 1) \in Nat
  <2>0. /\ Rank(n, g) \in 1..CountOnes[n]
        /\ get_mmr_peaks(n)[Rank(n, g)] = PosOf(Shr(n, g) - 1, g)
    BY <1>2, PeakAt, Zenon
  <2>1. Rank(n, g) \in 1..CountOnes[n] /\ peaks[Rank(n, g)] = PosOf(Shr(c, K), g)
    BY <1>2, <2>0, Zenon
  <2>2. Rank(n, g) = Rank(n, g + 1) + 1 /\ Rank(n, g + 1) \in Nat
    BY <1>2, TopBase, Zenon
  <2>3. Rank(n, g) \in Nat
    BY <2>2
  <2> QED
    BY <2>1, <2>2, <2>3, Zenon
<1>4. Base(Shr(c, K), g) = Offset(n, g + 1)
  <2>1. Base(Shr(n, g) - 1, g) = Offset(n, g + 1)
    BY <1>2, TopBase, Zenon
  <2> QED
    BY <1>2, <2>1, Zenon
<1>5. CountOnes[n] \in Nat /\ Len(peaks) = CountOnes[n]
  <2>1. CountOnes[n] \in Nat
    BY OnesOf, Zenon
  <2> QED
    BY <2>1, PeaksAre, IndexedIsList, Zenon
<1>6. pos \in Nat /\ pos <= PosOf(Shr(c, K), g) /\ Offset(n, g + 1) <= pos /\ Offset(n, g + 1) \in Int
  <2>1. pos + K <= PosOf(Shr(c, K), g) /\ Base(Shr(c, K), g) <= Base(c, h)
    BY <1>1, Inside, Zenon
  <2>2. pos \in Nat /\ Base(c, h) \in Int /\ Base(c, h) <= pos
    BY BaseInt, Zenon
  <2>3. PosOf(Shr(c, K), g) \in Nat
    <3>1. Shr(c, K) \in Nat
      BY ShrIs, Zenon
    <3> QED
      BY <3>1, PosWithin, Zenon
  <2>4. Offset(n, g + 1) \in Int
    <3>1. g + 1 <= g + 1
      BY <1>1
    <3> QED
      BY <1>1, <3>1, OffsetFalls, Zenon
  <2>5. Offset(n, g + 1) <= Base(c, h)
    BY <1>4, <2>1, Zenon
  <2> HIDE DEF pos
  <2> QED
    BY <2>1, <2>2, <2>3, <2>4, <2>5
<1> HIDE DEF peaks, pos
<1>7. r \in hits
  BY <1>3, <1>5, <1>6, Zenon
<1>8. ASSUME NEW j \in hits PROVE r <= j
  <2> SUFFICES ASSUME ~(r <= j) PROVE FALSE
    BY Zenon
  <2>1. j \in 1..CountOnes[n] /\ pos <= peaks[j]
    BY <1>5, Zenon
  <2>2. PICK k \in Nat : Shr(n, k) % 2 = 1 /\ Rank(n, k) = j
    BY <2>1, RankTaken, Zenon
  <2>3. ~(k <= g)
    <3>1. k <= g => Rank(n, g) <= Rank(n, k)
      BY RankFalls, Zenon
    <3> QED
      BY <1>3, <2>2, <3>1, Zenon
  <2>4. g + 1 <= k
    BY <2>3
  <2>5. Offset(n, k) <= Offset(n, g + 1) /\ Offset(n, k) \in Int
    BY <1>1, <2>4, OffsetFalls, Zenon
  <2>6. peaks[j] = Offset(n, k) - 1
    BY <2>1, <2>2, PeakBefore, Zenon DEF peaks
  <2> QED
    BY <1>6, <2>1, <2>5, <2>6
<1>9. Least(hits) = r
  <2>1. hits \in SUBSET Nat
    OBVIOUS
  <2>2. Least(hits) \in hits /\ Least(hits) <= r
    BY <1>7, <2>1, LeastNatural, Zenon
  <2>3. r <= Least(hits)
    BY <1>8, <2>2, Zenon
  <2>4. Least(hits) \in Nat
    BY <2>1, <2>2, Zenon
  <2> HIDE DEF hits
  <2> QED
    BY <2>2, <2>3, <2>4
<1>10. Target(n, pos) = r
  BY <1>7, <1>9, Zenon DEF Target, FirstIndex, peaks
<1>11. (IF r = 1 THEN 0 ELSE peaks[r - 1] + 1) = Offset(n, g + 1)
  <2>1. CASE r = 1
    <3>1. Rank(n, g + 1) = 0
      BY <1>3, <2>1
    <3>2. PeaksLoop(n)[0] = AfterPeaks(n, g + 1)
      BY <1>1, <3>1, PeaksLoopAfter, Zenon
    <3>3. PeaksLoop(n)[0] = [leaf_count |-> n, offset |-> 0]
      BY PeaksLoopIs, Zenon
    <3>4. AfterPeaks(n, g + 1).offset = Offset(n, g + 1)
      BY DEF AfterPeaks, Offset
    <3>5. AfterPeaks(n, g + 1).offset = 0
      <4>1. AfterPeaks(n, g + 1) = [leaf_count |-> n, offset |-> 0]
        BY <3>2, <3>3, Zenon
      <4> QED
        BY <4>1
    <3> QED
      BY <2>1, <3>4, <3>5, Zenon
  <2>2. CASE r # 1
    <3>1. r - 1 = Rank(n, g + 1) /\ Rank(n, g + 1) \in 1..CountOnes[n]
      BY <1>3, <1>5, <2>2
    <3>2. peaks[r - 1] = Offset(n, g + 1) - 1
      <4>1. PICK k \in Nat : k = g + 1
        BY <1>1, Zenon
      <4>2. get_mmr_peaks(n)[Rank(n, k)] = Offset(n, k) - 1
        BY <3>1, <4>1, PeakBefore, Zenon
      <4> QED
        BY <3>1, <4>1, <4>2, Zenon DEF peaks
    <3>3. peaks[r - 1] + 1 = Offset(n, g + 1)
      BY <1>6, <3>2
    <3> QED
      BY <2>2, <3>3, Zenon
  <2> QED
    BY <2>1, <2>2, Zenon
<1>12. r # 0
  BY <1>3
<1> QED
  BY <1>1, <1>3, <1>4, <1>10, <1>11, <1>12, Zenon DEF peaks, pos, TargetStart

(* get_mmr_path returns the path of the reference, for inner nodes too.    *)
LEMMA PathAgrees ==
  ASSUME NEW n \in Nat, NEW c \in Nat, NEW h \in Nat, <<c, h>> \in Forest(n)
  PROVE  get_mmr_path(PosIn(n, <<c, h>>), n) = PathIn(n, <<c, h>>)
<1> DEFINE peaks == get_mmr_peaks(n)
           pos == PosOf(c, h)
           peak == peaks[Target(n, pos)]
           s == PathLoop(pos, peak, TargetStart(n, pos))
           Done(k) == s[k].p <= pos
           First(k) == Done(k) /\ \A j \in 0..(k - 1) : ~Done(j)
           depth == CHOOSE k \in 0..peak : First(k)
<1>1. PICK K \in Nat : K = Climb(n, <<c, h>>)
  <2>1. Climb(n, <<c, h>>) \in 0..n
    BY ClimbIs, Zenon
  <2>2. \A k \in 0..n : k \in Nat
    OBVIOUS
  <2> QED
    BY <2>1, <2>2, Zenon
<1>2. /\ Target(n, pos) # 0 /\ peak = PosOf(Shr(c, K), h + K)
      /\ TargetStart(n, pos) = Base(Shr(c, K), h + K)
  BY <1>1, TargetIs, SMT
<1>3. PosIn(n, <<c, h>>) = pos
  BY PosIs, Zenon
<1>4. get_mmr_path(pos, n) = [k \in 1..depth |-> PassedBy(pos, s[depth - k])]
  BY <1>2, Zenon DEF get_mmr_path, Passes, Target, TargetStart
<1>5. pos \in Nat /\ peak \in Nat /\ K <= peak
  <2>1. pos + K <= PosOf(Shr(c, K), h + K)
    BY Inside, Zenon
  <2>2. PosOf(Shr(c, K), h + K) \in Nat
    <3>1. Shr(c, K) \in Nat
      BY ShrIs, Zenon
    <3>2. h + K \in Nat
      OBVIOUS
    <3> QED
      BY <3>1, <3>2, PosWithin, Zenon
  <2>3. pos \in Nat
    BY PosWithin, Zenon
  <2>4. peak = PosOf(Shr(c, K), h + K)
    BY <1>2, Zenon
  <2> HIDE DEF pos, peak
  <2> QED
    BY <2>1, <2>2, <2>3, <2>4
<1>6. /\ s[0] = At(Shr(c, K), h + K)
      /\ Walks(s, pos, peak)
  <2> HIDE DEF pos, peak, peaks
  <2>1. /\ s[0] = [p |-> peak, subtree_start |-> TargetStart(n, pos)]
        /\ Walks(s, pos, peak)
    BY <1>5, PathLoopIs, Zenon
  <2> HIDE DEF s
  <2> QED
    BY <1>2, <2>1, Zenon DEF At
<1> HIDE DEF s, peak, peaks
<1>7. ASSUME NEW j \in 0..K PROVE s[K - j] = At(Shr(c, j), h + j)
  <2>1. \A k \in Nat : k + 1 <= K => k + 1 <= peak
    BY <1>5
  <2>2. Walks(s, PosOf(c, h), K)
    BY <1>6, <2>1, Zenon DEF Walks
  <2>3. WalksFrom(s, c, h, K)
    BY <1>6, <2>2, Zenon DEF WalksFrom
  <2>4. WalksTo(s, c, h, K)
    BY <2>3, WalkIs, Zenon
  <2> QED
    BY <2>4, Zenon DEF WalksTo
<1>8. ASSUME NEW j \in 0..K PROVE s[K - j].p = PosOf(Shr(c, j), h + j)
  <2>1. At(Shr(c, j), h + j).p = PosOf(Shr(c, j), h + j)
    BY DEF At
  <2> QED
    BY <1>7, <2>1, Zenon
<1> HIDE DEF pos
<1>9. Done(K)
  <2>1. K \in Nat /\ 0 \in 0..K /\ K - 0 = K /\ h + 0 = h /\ pos <= pos
    BY <1>5
  <2>2. Shr(c, 0) = c
    BY ShrZero, Zenon
  <2>3. s[K - 0].p = PosOf(Shr(c, 0), h + 0)
    BY <1>8, <2>1, Zenon
  <2> QED
    BY <2>1, <2>2, <2>3, Zenon DEF pos
<1>10. ASSUME NEW i \in 0..(K - 1) PROVE ~Done(i)
  <2>1. PICK j \in Nat : j \in 0..K /\ K - j = i /\ j # 0
    <3>1. LET j == K - i IN j \in Nat /\ j \in 0..K /\ K - j = i /\ j # 0
      OBVIOUS
    <3> QED
      BY <3>1, Zenon
  <2>2. s[i].p = PosOf(Shr(c, j), h + j)
    BY <1>8, <2>1, Zenon
  <2>3. pos + j <= PosOf(Shr(c, j), h + j)
    BY Inside, Zenon DEF pos
  <2>4. PosOf(Shr(c, j), h + j) \in Nat
    <3>1. Shr(c, j) \in Nat
      BY ShrIs, Zenon
    <3>2. h + j \in Nat
      OBVIOUS
    <3> QED
      BY <3>1, <3>2, PosWithin, Zenon
  <2>5. ~(PosOf(Shr(c, j), h + j) <= pos)
    BY <1>5, <2>1, <2>3, <2>4
  <2> QED
    BY <2>2, <2>5, Zenon
<1> HIDE DEF Done
<1>11. K \in 0..peak /\ First(K)
  <2>1. K \in 0..peak
    BY <1>5
  <2> QED
    BY <1>9, <1>10, <2>1, Zenon
<1>12. depth \in 0..peak /\ First(depth)
  BY <1>11, Zenon
<1>13. depth = K
  <2> HIDE DEF depth
  <2>1. (depth < K => depth \in 0..(K - 1)) /\ (K < depth => K \in 0..(depth - 1))
        /\ (depth < K \/ K < depth \/ depth = K)
    BY <1>5, <1>11, <1>12
  <2> QED
    BY <1>11, <1>12, <2>1, Zenon
<1> HIDE DEF depth
<1>14. ASSUME NEW k \in 1..K
       PROVE  PassedBy(pos, s[K - k]) = SiblingOf(Shr(c, k - 1), h + (k - 1))
  <2>1. PICK j \in Nat : j = k - 1 /\ k = j + 1 /\ k \in 0..K
    <3>1. LET j == k - 1 IN j \in Nat /\ k = j + 1 /\ k \in 0..K
      OBVIOUS
    <3> QED
      BY <3>1, Zenon
  <2>2. PICK x \in Nat : x = Shr(c, j) /\ Shr(c, j + 1) = x \div 2
    BY ShrIs, ShrNext, Zenon
  <2>3. PICK g \in Nat : g = h + j /\ g + 1 = h + (j + 1)
    OBVIOUS
  <2>4. Base(x, g) <= pos /\ pos <= PosOf(x, g)
    <3>1. PosOf(c, h) + j <= PosOf(x, g) /\ Base(x, g) <= Base(c, h)
      BY <2>2, <2>3, Inside, Zenon
    <3>2. /\ PosOf(c, h) \in Nat /\ Base(c, h) \in Int /\ Base(c, h) <= PosOf(c, h)
          /\ PosOf(x, g) \in Nat /\ Base(x, g) \in Int
      BY BaseInt, Zenon
    <3>3. Base(x, g) <= PosOf(c, h) /\ PosOf(c, h) <= PosOf(x, g)
      BY <3>1, <3>2
    <3> QED
      BY <3>3, Zenon DEF pos
  <2>5. PassedBy(pos, At(x \div 2, g + 1)) = SiblingOf(x, g)
    BY <1>5, <2>4, StepDown, Zenon
  <2>6. s[K - k] = At(x \div 2, g + 1)
    BY <1>7, <2>1, <2>2, <2>3, Zenon
  <2> QED
    BY <2>1, <2>2, <2>3, <2>5, <2>6, Zenon
<1>15. PathIn(n, <<c, h>>) = [k \in 1..K |-> SiblingOf(Shr(c, k - 1), h + (k - 1))]
  BY <1>1, PathInIs, Zenon
<1> QED
  BY <1>3, <1>4, <1>13, <1>14, <1>15, Zenon

(* get_mmr_peaks and get_mmr_path agree with the forest, whatever n.       *)
LEMMA Agreeing ==
  ASSUME NEW n \in Nat
  PROVE  HelpersAgree(n)
<1>1. ASSUME NEW m \in Forest(n) PROVE get_mmr_path(PosIn(n, m), n) = PathIn(n, m)
  <2>1. PICK c \in Nat, h \in Nat : m = <<c, h>>
    BY ForestNode, Zenon
  <2> QED
    BY <2>1, PathAgrees, Zenon
<1> QED
  BY <1>1, PeaksAgree, Zenon DEF HelpersAgree

(* get_mmr_proof_metadata's siblings lead up, whatever the leaf and n.     *)
LEMMA Leading ==
  ASSUME NEW n \in Nat
  PROVE  SiblingsLeadUp(n)
BY SiblingsLead, Zenon DEF SiblingsLeadUp

-----------------------------------------------------------------------------
(* The theorems.                                                           *)

(* For any number of leaves, and a batch of any size: update_state_batch   *)
(* builds the peaks and returns the numbered nodes of the forest, and the  *)
(* siblings, peaks and paths that get_mmr_proof_metadata, get_mmr_peaks    *)
(* and get_mmr_path compute from positions alone are those of the forest.  *)
THEOREM RangeIsTheForest ==
  ASSUME NEW k \in Nat, NEW n \in Nat, k <= n
  PROVE  /\ EmptyMMR = ForestMMR(0)
         /\ BatchBuildsTheForest(k, n) /\ NodesAreNumbered(k, n)
         /\ SiblingsLeadUp(n) /\ HelpersAgree(n)
BY EmptyIsForest, BatchBuilds, NodesNumbered, Leading, Agreeing, Zenon

(* A growth is from one number of leaves to one that is not smaller.       *)
LEMMA GrowthIs ==
  ASSUME NEW g \in Growths
  PROVE  g[1] \in Nat /\ g[2] \in Nat /\ g[1] <= g[2]
BY BoundsAssumption DEF Growths

(* The range built by add_leaf, leaf by leaf and batch by batch, is the    *)
(* forest, and its helpers agree, for every MaxRange and MaxBatch.         *)
THEOREM MmrIsAlwaysTheForest == Spec => []MmrIsTheForest
<1>1. \A g \in Growths : BatchBuildsTheForest(g[1], g[2]) /\ NodesAreNumbered(g[1], g[2])
  BY GrowthIs, BatchBuilds, NodesNumbered, Zenon
<1>2. \A n \in 0..MaxRange : n \in Nat
  BY BoundsAssumption
<1>3. \A n \in 0..MaxRange : SiblingsLeadUp(n) /\ HelpersAgree(n)
  BY <1>2, Leading, Agreeing, Zenon
<1>4. MmrIsTheForest
  BY <1>1, <1>3, EmptyIsForest, Zenon DEF MmrIsTheForest
<1> QED
  BY <1>4, PTL

(* Peaks and size are all that set_mmr_state needs, for every MaxRange and *)
(* MaxBatch: the peaks and the root are those of an uninterrupted run.     *)
THEOREM RootAlwaysSurvives == Spec => []RootSurvivesRestart
<1>1. RootSurvivesRestart
  BY GrowthIs, ResumedRoot, Zenon DEF RootSurvivesRestart
<1> QED
  BY <1>1, PTL
=============================================================================
