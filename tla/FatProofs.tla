----------------------------- MODULE FatProofs -----------------------------
(***************************************************************************)
(* Proofs about the FAT32 file system: what it leaves on the disk,         *)
(* whatever is called and wherever a fault falls.                          *)
(***************************************************************************)
EXTENDS Fat32, WellFoundedInduction, FiniteSetTheorems, SequenceTheorems, TLAPS

-----------------------------------------------------------------------------
(***************************************************************************)
(* Numbers and recursive functions.  Induction is by the least number at   *)
(* which a statement fails.                                                *)
(***************************************************************************)
LEMMA LeastNumber ==
  ASSUME NEW T, T \subseteq Nat, T # {}
  PROVE  \E k \in T : \A j \in T : k <= j
  <1> DEFINE R == {ss \in Nat \X Nat : ss[1] < ss[2]}
  <1>1. IsWellFoundedOn(R, Nat)
    BY NatLessThanWellFounded DEF OpToRel
  <1>2. PICK k \in T : \A j \in T : ~(<<j, k>> \in R)
    BY <1>1, WFMin, Zenon
  <1>3. ASSUME NEW j \in T PROVE k <= j
    <2>1. ~(<<j, k>> \in R) /\ j \in Nat /\ k \in Nat
      BY <1>2
    <2> QED
      BY <2>1
  <1> QED
    BY <1>3

\* What integer division by a positive number yields.
LEMMA DivMod ==
  ASSUME NEW a \in Nat, NEW d \in Nat \ {0}
  PROVE  /\ a \div d \in Nat
         /\ a % d \in 0 .. (d - 1)
         /\ a = (a \div d) * d + (a % d)
         /\ (a \div d) * d \in Nat
  BY SMT

\* A product is monotone in its first factor, strictly so by whole steps.
LEMMA MultMono ==
  ASSUME NEW a \in Nat, NEW b \in Nat, NEW d \in Nat \ {0}, a < b
  PROVE  a * d + d <= b * d
  BY SMT

\* Two numbers with the same quotient and remainder, or ordered by them.
LEMMA DivOrder ==
  ASSUME NEW a \in Nat, NEW b \in Nat, NEW d \in Nat \ {0}
  PROVE  /\ a < b => a \div d <= b \div d
         /\ a \div d < b \div d => a < b
         /\ (a \div d = b \div d /\ a % d < b % d) => a < b
  <1> DEFINE p == a \div d
             q == b \div d
             r == a % d
             s == b % d
  <1>1. /\ p \in Nat /\ q \in Nat /\ r \in 0 .. (d - 1) /\ s \in 0 .. (d - 1)
        /\ a = p * d + r /\ b = q * d + s /\ p * d \in Nat /\ q * d \in Nat
    BY DivMod
  <1> HIDE DEF p, q, r, s
  <1>2. p < q => p * d + d <= q * d
    BY <1>1, MultMono
  <1>3. q < p => q * d + d <= p * d
    BY <1>1, MultMono
  <1>4. p < q => a < b
    BY <1>1, <1>2
  <1>5. q < p => b < a
    BY <1>1, <1>3
  <1>6. p = q /\ r < s => a < b
    BY <1>1
  <1> QED
    BY <1>1, <1>4, <1>5, <1>6 DEF p, q, r, s

\* A number is the one its quotient and remainder say.
LEMMA DivUnique ==
  ASSUME NEW q \in Nat, NEW d \in Nat \ {0}, NEW r \in 0 .. (d - 1)
  PROVE  q * d + r \in Nat /\ (q * d + r) \div d = q /\ (q * d + r) % d = r
  <1> DEFINE a == q * d + r
             p == a \div d
             s == a % d
  <1>1. q * d \in Nat
    BY SMT
  <1>2. a \in Nat
    BY <1>1
  <1>3. p \in Nat /\ s \in 0 .. (d - 1) /\ a = p * d + s /\ p * d \in Nat
    <2> HIDE DEF a
    <2> QED
      BY <1>2, DivMod
  <1>4. a = q * d + r
    OBVIOUS
  <1> HIDE DEF a, p, s
  <1>5. ~(p < q)
    <2> SUFFICES ASSUME p < q PROVE FALSE
      OBVIOUS
    <2>1. p * d + d <= q * d
      BY <1>3, MultMono
    <2> QED
      BY <1>1, <1>3, <1>4, <2>1
  <1>6. ~(q < p)
    <2> SUFFICES ASSUME q < p PROVE FALSE
      OBVIOUS
    <2>1. q * d + d <= p * d
      BY <1>3, MultMono
    <2> QED
      BY <1>1, <1>3, <1>4, <2>1
  <1>7. p = q
    BY <1>3, <1>5, <1>6
  <1>8. s = r
    BY <1>1, <1>3, <1>4, <1>7
  <1> QED
    BY <1>2, <1>7, <1>8 DEF a, p, s

\* g is the function that starts with base and makes its value at i from the one before.
IsIteration(g, n, A, base, step) ==
  /\ g \in [0 .. n -> A]
  /\ g[0] = base
  /\ \A i \in 1 .. n : g[i] = step[i][g[i - 1]]

\* There is such a function.
LEMMA IterationExists ==
  ASSUME NEW n \in Nat, NEW A, NEW base \in A, NEW step, \A i \in 1 .. n : step[i] \in [A -> A]
  PROVE  \E g : IsIteration(g, n, A, base, step)
  <1> DEFINE T == {k \in 0 .. n : ~\E g : IsIteration(g, k, A, base, step)}
  <1> SUFFICES ASSUME T # {} PROVE FALSE
    OBVIOUS
  <1>1. PICK k \in T : \A j \in T : k <= j
    <2>1. T \subseteq Nat
      OBVIOUS
    <2> HIDE DEF T
    <2> QED
      BY <2>1, LeastNumber
  <1>2. CASE k = 0
    <2>1. PICK g : g = [i \in 0 .. 0 |-> base]
      OBVIOUS
    <2>2. IsIteration(g, 0, A, base, step)
      BY <2>1 DEF IsIteration
    <2> QED
      BY <1>1, <1>2, <2>2
  <1>3. CASE k # 0
    <2>1. k - 1 \in 0 .. n /\ k - 1 \notin T /\ k \in 1 .. n
      BY <1>1, <1>3
    <2>2. PICK g : IsIteration(g, k - 1, A, base, step)
      BY <2>1
    <2> DEFINE h == [i \in 0 .. k |-> IF i = k THEN step[k][g[k - 1]] ELSE g[i]]
    <2>3. g[k - 1] \in A /\ \A i \in 0 .. (k - 1) : g[i] \in A
      BY <2>1, <2>2 DEF IsIteration
    <2>4. step[k][g[k - 1]] \in A
      BY <2>1, <2>3
    <2>5. h \in [0 .. k -> A]
      BY <2>1, <2>3, <2>4
    <2>6. h[0] = base
      BY <1>3, <2>1, <2>2 DEF IsIteration
    <2>7. ASSUME NEW i \in 1 .. k PROVE h[i] = step[i][h[i - 1]]
      <3>1. i - 1 \in 0 .. k /\ i - 1 # k /\ h[i - 1] = g[i - 1]
        BY <2>1
      <3>2. CASE i = k
        BY <3>1, <3>2
      <3>3. CASE i # k
        <4>1. i \in 1 .. (k - 1) /\ h[i] = g[i]
          BY <2>1, <3>3
        <4> QED
          BY <2>2, <3>1, <4>1 DEF IsIteration
      <3> QED
        BY <3>2, <3>3
    <2> HIDE DEF h
    <2>8. IsIteration(h, k, A, base, step)
      BY <2>5, <2>6, <2>7 DEF IsIteration
    <2> QED
      BY <1>1, <2>8
  <1> QED
    BY <1>2, <1>3

\* Induction over the numbers up to n, for a set.
LEMMA UpTo ==
  ASSUME NEW n \in Nat, NEW S, 0 \in S, \A i \in 0 .. (n - 1) : i \in S => i + 1 \in S
  PROVE  \A i \in 0 .. n : i \in S
  <1> DEFINE T == {k \in 0 .. n : k \notin S}
  <1> SUFFICES ASSUME T # {} PROVE FALSE
    OBVIOUS
  <1>1. T \subseteq Nat
    OBVIOUS
  <1>2. PICK k \in T : \A j \in T : k <= j
    <2> HIDE DEF T
    <2> QED
      BY <1>1, LeastNumber
  <1>3. k # 0
    BY <1>2
  <1>4. k - 1 \in 0 .. (n - 1) /\ k - 1 \in S /\ (k - 1) + 1 = k
    BY <1>2, <1>3
  <1> QED
    BY <1>2, <1>4

\* An iteration is a recursive function.
LEMMA IterationRecurs ==
  ASSUME NEW n \in Nat, NEW A, NEW base, NEW step, NEW g, IsIteration(g, n, A, base, step)
  PROVE  /\ g = [i \in 0 .. n |-> IF i = 0 THEN base ELSE step[i][g[i - 1]]]
         /\ \A i \in 1 .. n : g[i - 1] \in A
  <1>1. g = [i \in 0 .. n |-> g[i]]
    BY DEF IsIteration
  <1>2. \A i \in 0 .. n : g[i] = IF i = 0 THEN base ELSE step[i][g[i - 1]]
    BY DEF IsIteration
  <1>3. \A i \in 1 .. n : g[i - 1] \in A
    BY DEF IsIteration
  <1> QED
    BY <1>1, <1>2, <1>3

-----------------------------------------------------------------------------
(* Chains of clusters *)

LEMMA ClusterFacts ==
  /\ Clusters \subseteq Nat /\ Root \in Clusters /\ 0 \notin Clusters /\ FREE \notin Clusters
  /\ EOC \notin Clusters /\ EOC # FREE
  /\ IsFiniteSet(Clusters) /\ Cardinality(Clusters) = MaxCluster - 1
  /\ K \in Nat /\ K >= 2 /\ MaxCluster \in Nat /\ MaxCluster > 2
  <1>1. MaxCluster \in Nat /\ MaxCluster > 2 /\ K \in Nat /\ K >= 2
    BY VolumeAssumption
  <1>2. IsFiniteSet(2 .. MaxCluster) /\ Cardinality(2 .. MaxCluster) = MaxCluster - 2 + 1
    BY <1>1, FS_Interval
  <1> QED
    BY <1>1, <1>2 DEF Clusters, Root, FREE, EOC

\* s is the chain of c: linked, marked as ended, and without repetition.
ChainOf(fat, c, s) ==
  /\ s \in Seq(Clusters)
  /\ c \notin Clusters => s = <<>>
  /\ c \in Clusters => s # <<>> /\ s[1] = c
  /\ \A i \in 1 .. (Len(s) - 1) : fat[s[i]] = s[i + 1]
  /\ s # <<>> => fat[s[Len(s)]] = EOC
  /\ \A i, j \in 1 .. Len(s) : s[i] = s[j] => i = j

\* The recursion of Chain.
ChainWalk(fat, c, w) ==
  /\ w \in [0 .. MaxCluster -> Seq(Clusters)]
  /\ w[0] = IF c \in Clusters THEN <<c>> ELSE <<>>
  /\ \A n \in 1 .. MaxCluster :
        w[n] = IF Len(w[n - 1]) = n /\ fat[Last(w[n - 1])] \in Clusters
               THEN Append(w[n - 1], fat[Last(w[n - 1])]) ELSE w[n - 1]
  /\ Chain(fat, c) = w[MaxCluster]

LEMMA ChainWalks ==
  ASSUME NEW fat, NEW c
  PROVE  \E w : ChainWalk(fat, c, w)
  <1> DEFINE A == Seq(Clusters)
             base == IF c \in Clusters THEN <<c>> ELSE <<>>
             Nx(n, s) == IF Len(s) = n /\ fat[Last(s)] \in Clusters
                           THEN Append(s, fat[Last(s)]) ELSE s
             step == [n \in 1 .. MaxCluster |-> [s \in A |-> Nx(n, s)]]
             Is(f) == f = [n \in 0 .. MaxCluster |->
                             IF n = 0 THEN IF c \in Clusters THEN <<c>> ELSE <<>>
                             ELSE LET s == f[n - 1]
                                  IN IF Len(s) = n /\ fat[Last(s)] \in Clusters
                                     THEN Append(s, fat[Last(s)]) ELSE s]
             walk == CHOOSE f : Is(f)
  <1>1. MaxCluster \in Nat /\ base \in A
    BY ClusterFacts
  <1>2. \A n \in 1 .. MaxCluster : step[n] \in [A -> A]
    BY AppendProperties
  <1>3. PICK g : IsIteration(g, MaxCluster, A, base, step)
    BY <1>1, <1>2, IterationExists
  <1>4. /\ g = [i \in 0 .. MaxCluster |-> IF i = 0 THEN base ELSE step[i][g[i - 1]]]
        /\ \A i \in 1 .. MaxCluster : g[i - 1] \in A
    <2> HIDE DEF base, step, A
    <2> QED
      BY <1>1, <1>3, IterationRecurs
  <1>5. \A i \in 1 .. MaxCluster : step[i][g[i - 1]] = Nx(i, g[i - 1])
    BY <1>4
  <1>6. \A i \in 0 .. MaxCluster : i # 0 => i \in 1 .. MaxCluster
    BY <1>1
  <1>7. g = [i \in 0 .. MaxCluster |-> IF i = 0 THEN base ELSE Nx(i, g[i - 1])]
    <2> HIDE DEF step, Nx, base
    <2> QED
      BY <1>4, <1>5, <1>6
  <1>8. Is(g)
    BY <1>7, Zenon
  <1>9. Is(walk)
    <2> HIDE DEF Is
    <2> QED
      BY <1>8
  <1>10. Chain(fat, c) = walk[MaxCluster]
    BY DEF Chain
  <1>11. g \in [0 .. MaxCluster -> A] /\ g[0] = base
    BY <1>3 DEF IsIteration
  <1> HIDE DEF walk, step
  <1>12. walk[0] = base /\ DOMAIN walk = 0 .. MaxCluster /\ walk = [n \in 0 .. MaxCluster |-> walk[n]]
    BY <1>1, <1>9
  <1>13. ASSUME NEW n \in 1 .. MaxCluster
         PROVE  walk[n] = IF Len(walk[n - 1]) = n /\ fat[Last(walk[n - 1])] \in Clusters
                          THEN Append(walk[n - 1], fat[Last(walk[n - 1])]) ELSE walk[n - 1]
    <2>1. n \in 0 .. MaxCluster /\ n # 0
      BY <1>1
    <2> QED
      BY <1>9, <2>1, Zenon
  <1> HIDE DEF Is
  <1> DEFINE S == {n \in 0 .. MaxCluster : walk[n] \in A}
  <1>14. 0 \in S
    BY <1>1, <1>12
  <1>15. ASSUME NEW i \in 0 .. (MaxCluster - 1), i \in S PROVE i + 1 \in S
    <2>1. i + 1 \in 1 .. MaxCluster /\ i + 1 \in 0 .. MaxCluster /\ (i + 1) - 1 = i
      BY <1>1
    <2>2. walk[i] \in Seq(Clusters)
      BY <1>15
    <2>3. \/ walk[i + 1] = walk[i]
          \/ /\ fat[Last(walk[i])] \in Clusters
             /\ walk[i + 1] = Append(walk[i], fat[Last(walk[i])])
      BY <1>13, <2>1
    <2>4. walk[i + 1] \in A
      BY <2>2, <2>3, AppendProperties
    <2> QED
      BY <2>1, <2>4
  <1>16. \A i \in 0 .. MaxCluster : i \in S
    <2> HIDE DEF S
    <2> QED
      BY <1>1, <1>14, <1>15, UpTo
  <1>17. walk \in [0 .. MaxCluster -> Seq(Clusters)]
    BY <1>12, <1>16
  <1> QED
    BY <1>10, <1>12, <1>13, <1>17 DEF ChainWalk

(***************************************************************************)
(* What Chain returns: the clusters from c on, as far as they are linked.  *)
(* Without a repetition it is the whole chain.                             *)
(***************************************************************************)
LEMMA ChainLinks ==
  ASSUME NEW fat, NEW c
  PROVE  LET s == Chain(fat, c)
         IN /\ s \in Seq(Clusters)
            /\ c \notin Clusters => s = <<>>
            /\ c \in Clusters => s # <<>> /\ s[1] = c
            /\ \A i \in 1 .. (Len(s) - 1) : fat[s[i]] = s[i + 1]
  <1>1. PICK w : ChainWalk(fat, c, w)
    BY ChainWalks
  <1> DEFINE P(s) == /\ s \in Seq(Clusters)
                     /\ c \notin Clusters => s = <<>>
                     /\ c \in Clusters => s # <<>> /\ s[1] = c
                     /\ \A i \in 1 .. (Len(s) - 1) : fat[s[i]] = s[i + 1]
             S == {n \in 0 .. MaxCluster : P(w[n])}
  <1>2. MaxCluster \in Nat
    BY ClusterFacts
  <1>3. 0 \in S
    BY <1>1, <1>2 DEF ChainWalk
  <1>4. ASSUME NEW n \in 0 .. (MaxCluster - 1), n \in S PROVE n + 1 \in S
    <2>1. n + 1 \in 1 .. MaxCluster /\ n + 1 \in 0 .. MaxCluster /\ (n + 1) - 1 = n
      BY <1>2
    <2>2. PICK s : s = w[n]
      OBVIOUS
    <2>3. P(s)
      BY <1>4, <2>2
    <2>4. \/ w[n + 1] = s
          \/ /\ Len(s) = n + 1 /\ fat[s[Len(s)]] \in Clusters
             /\ w[n + 1] = Append(s, fat[s[Len(s)]])
      BY <1>1, <2>1, <2>2 DEF ChainWalk, Last
    <2>5. CASE w[n + 1] = s
      BY <2>1, <2>3, <2>5
    <2>6. CASE /\ Len(s) = n + 1 /\ fat[s[Len(s)]] \in Clusters
               /\ w[n + 1] = Append(s, fat[s[Len(s)]])
      <3>1. PICK z \in Clusters : z = fat[s[Len(s)]]
        BY <2>6
      <3>2. PICK t : t = Append(s, z)
        OBVIOUS
      <3>3. /\ t \in Seq(Clusters) /\ Len(t) = Len(s) + 1 /\ t[Len(s) + 1] = z
            /\ \A i \in 1 .. Len(s) : t[i] = s[i]
        BY <2>3, <3>2, AppendProperties
      <3>4. \A i \in 1 .. (Len(t) - 1) : fat[t[i]] = t[i + 1]
        <4> SUFFICES ASSUME NEW i \in 1 .. (Len(t) - 1) PROVE fat[t[i]] = t[i + 1]
          OBVIOUS
        <4>1. i \in 1 .. Len(s) /\ Len(s) \in Nat
          BY <2>3, <3>3
        <4>2. CASE i = Len(s)
          BY <3>1, <3>3, <4>1, <4>2
        <4>3. CASE i # Len(s)
          BY <2>3, <3>3, <4>1, <4>3
        <4> QED
          BY <4>2, <4>3
      <3>5. P(t)
        BY <2>3, <2>6, <3>3, <3>4
      <3> QED
        BY <2>1, <2>6, <3>1, <3>2, <3>5
    <2> QED
      BY <2>4, <2>5, <2>6
  <1>5. \A n \in 0 .. MaxCluster : n \in S
    <2> HIDE DEF S
    <2> QED
      BY <1>2, <1>3, <1>4, UpTo
  <1>6. P(w[MaxCluster])
    BY <1>2, <1>5
  <1> QED
    BY <1>1, <1>6 DEF ChainWalk

\* A sequence without repetition is no longer than the clusters are many.
LEMMA ChainShort ==
  ASSUME NEW s \in Seq(Clusters), \A i, j \in 1 .. Len(s) : s[i] = s[j] => i = j
  PROVE  Len(s) <= MaxCluster - 1
  <1>1. Len(s) \in Nat /\ s \in [1 .. Len(s) -> Clusters]
    BY LenProperties
  <1>2. IsFiniteSet(1 .. Len(s)) /\ Cardinality(1 .. Len(s)) = Len(s)
    <2>1. Cardinality(1 .. Len(s)) = Len(s) - 1 + 1 \/ 1 > Len(s)
      BY <1>1, FS_Interval
    <2>2. IsFiniteSet(1 .. Len(s))
      BY <1>1, FS_Interval
    <2>3. 1 > Len(s) => Len(s) = 0 /\ 1 .. Len(s) = {} /\ Cardinality({}) = 0
      BY <1>1, FS_EmptySet
    <2> QED
      BY <1>1, <2>1, <2>2, <2>3
  <1>3. ~(Cardinality(1 .. Len(s)) > Cardinality(Clusters))
    <2> SUFFICES ASSUME Cardinality(1 .. Len(s)) > Cardinality(Clusters) PROVE FALSE
      OBVIOUS
    <2>1. \E x, y \in 1 .. Len(s) : x # y /\ s[x] = s[y]
      BY <1>1, <1>2, ClusterFacts, FS_PigeonHole
    <2> QED
      BY <2>1
  <1> QED
    BY <1>1, <1>2, <1>3, ClusterFacts

\* Whatever is a chain of c is what Chain returns.
LEMMA ChainIs ==
  ASSUME NEW fat, NEW c, NEW s, ChainOf(fat, c, s)
  PROVE  Chain(fat, c) = s
  <1>1. PICK w : ChainWalk(fat, c, w)
    BY ChainWalks
  <1>2. /\ s \in Seq(Clusters) /\ Len(s) \in Nat /\ Len(s) <= MaxCluster - 1
        /\ MaxCluster \in Nat /\ MaxCluster > 2
    BY ChainShort, ClusterFacts, LenProperties DEF ChainOf
  <1>3. CASE c \notin Clusters
    <2>1. s = <<>>
      BY <1>3 DEF ChainOf
    <2> QED
      BY <1>3, <2>1, ChainLinks
  <1>4. CASE c \in Clusters
    <2> DEFINE Short(n) == IF n + 1 < Len(s) THEN n + 1 ELSE Len(s)
               P(n) == Len(w[n]) = Short(n) /\ \A i \in 1 .. Short(n) : w[n][i] = s[i]
               S == {n \in 0 .. MaxCluster : P(n)}
    <2>1. s # <<>> /\ s[1] = c /\ Len(s) >= 1
      BY <1>2, <1>4, EmptySeq DEF ChainOf
    <2>2. 0 \in S
      <3>1. w[0] = <<c>>
        BY <1>1, <1>4 DEF ChainWalk
      <3>2. Len(w[0]) = 1 /\ w[0][1] = s[1]
        BY <2>1, <3>1
      <3>3. Short(0) = 1
        <4>1. PICK m \in Nat : m = Len(s) /\ m >= 1
          BY <1>2, <2>1
        <4>2. (IF 0 + 1 < m THEN 0 + 1 ELSE m) = 1
          BY <4>1
        <4> QED
          BY <4>1, <4>2
      <3>4. P(0)
        BY <3>2, <3>3
      <3> QED
        BY <1>2, <3>4
    <2>3. ASSUME NEW n \in 0 .. (MaxCluster - 1), n \in S PROVE n + 1 \in S
      <3>1. n + 1 \in 1 .. MaxCluster /\ n + 1 \in 0 .. MaxCluster /\ (n + 1) - 1 = n
        BY <1>2
      <3>2. PICK t : t = w[n]
        OBVIOUS
      <3>3. t \in Seq(Clusters) /\ Len(t) = Short(n) /\ \A i \in 1 .. Short(n) : t[i] = s[i]
        BY <1>1, <2>3, <3>1, <3>2 DEF ChainWalk
      <3>4. w[n + 1] = IF Len(t) = n + 1 /\ fat[t[Len(t)]] \in Clusters
                       THEN Append(t, fat[t[Len(t)]]) ELSE t
        BY <1>1, <3>1, <3>2 DEF ChainWalk, Last
      <3>5. CASE n + 1 < Len(s)
        <4>1. Len(t) = n + 1 /\ t[Len(t)] = s[n + 1] /\ fat[s[n + 1]] = s[n + 2] /\ s[n + 2] \in Clusters
          BY <1>2, <3>1, <3>3, <3>5, ElementOfSeq DEF ChainOf
        <4>2. w[n + 1] = Append(t, s[n + 2])
          BY <3>4, <4>1
        <4>3. /\ Len(w[n + 1]) = n + 2 /\ w[n + 1][n + 2] = s[n + 2]
              /\ \A i \in 1 .. (n + 1) : w[n + 1][i] = t[i]
          BY <3>3, <4>1, <4>2, AppendProperties
        <4>4. Short(n) = n + 1 /\ Short(n + 1) = n + 2
          BY <1>2, <3>5
        <4>5. \A i \in 1 .. (n + 2) : w[n + 1][i] = s[i]
          BY <3>3, <4>3, <4>4
        <4> QED
          BY <3>1, <4>3, <4>4, <4>5
      <3>6. CASE ~(n + 1 < Len(s))
        <4>1. Short(n) = Len(s) /\ Short(n + 1) = Len(s) /\ t[Len(t)] = s[Len(s)]
          BY <1>2, <2>1, <3>3, <3>6
        <4>2. fat[t[Len(t)]] \notin Clusters
          BY <2>1, <4>1, ClusterFacts DEF ChainOf
        <4>3. w[n + 1] = t
          BY <3>4, <4>2
        <4> QED
          BY <3>1, <3>3, <4>1, <4>3
      <3> QED
        BY <3>5, <3>6
    <2>4. \A n \in 0 .. MaxCluster : n \in S
      <3> HIDE DEF S
      <3> QED
        BY <1>2, <2>2, <2>3, UpTo
    <2>5. P(MaxCluster) /\ Short(MaxCluster) = Len(s) /\ w[MaxCluster] \in Seq(Clusters)
      BY <1>1, <1>2, <2>4, SMTT(40) DEF ChainWalk
    <2>6. w[MaxCluster] = s
      BY <1>2, <2>5, SeqEqual
    <2> QED
      BY <1>1, <2>6 DEF ChainWalk
  <1> QED
    BY <1>3, <1>4

\* A well-formed chain is one, and the only one.
LEMMA WellFormedChain ==
  ASSUME NEW fat, NEW c
  PROVE  WellFormed(fat, c) <=> ChainOf(fat, c, Chain(fat, c))
  <1> DEFINE s == Chain(fat, c)
  <1>1. /\ s \in Seq(Clusters)
        /\ c \notin Clusters => s = <<>>
        /\ c \in Clusters => s # <<>> /\ s[1] = c
        /\ \A i \in 1 .. (Len(s) - 1) : fat[s[i]] = s[i + 1]
    BY ChainLinks
  <1>2. DOMAIN s = 1 .. Len(s)
    BY <1>1, LenProperties
  <1>3. IsInjective(s) <=> \A i, j \in 1 .. Len(s) : s[i] = s[j] => i = j
    BY <1>2 DEF IsInjective
  <1>4. Last(s) = s[Len(s)]
    BY DEF Last
  <1> QED
    BY <1>1, <1>3, <1>4 DEF WellFormed, ChainOf

LEMMA ChainIsWellFormed ==
  ASSUME NEW fat, NEW c, NEW s, ChainOf(fat, c, s)
  PROVE  WellFormed(fat, c) /\ Chain(fat, c) = s
  BY ChainIs, WellFormedChain

\* A chain is still one after a change elsewhere.
LEMMA ChainKept ==
  ASSUME NEW fat, NEW fat2, NEW c, WellFormed(fat, c),
         \A z \in Range(Chain(fat, c)) : fat2[z] = fat[z]
  PROVE  WellFormed(fat2, c) /\ Chain(fat2, c) = Chain(fat, c)
  <1> DEFINE s == Chain(fat, c)
  <1>1. ChainOf(fat, c, s)
    BY WellFormedChain
  <1>2. s \in Seq(Clusters) /\ Len(s) \in Nat /\ Range(s) = {s[i] : i \in 1 .. Len(s)}
    BY <1>1, LenProperties DEF ChainOf, Range
  <1>3. \A i \in 1 .. Len(s) : fat2[s[i]] = fat[s[i]]
    BY <1>2
  <1> HIDE DEF s
  <1>4. s # <<>> => Len(s) \in 1 .. Len(s)
    BY <1>2, EmptySeq
  <1>5. ChainOf(fat2, c, s)
    BY <1>1, <1>2, <1>3, <1>4 DEF ChainOf
  <1> QED
    BY <1>5, ChainIsWellFormed DEF s

\* A cluster that is marked as an end is linked to the last cluster of a chain.
LEMMA ChainLinked ==
  ASSUME NEW fat, NEW c, NEW s, ChainOf(fat, c, s), s # <<>>,
         NEW z \in Clusters, \A i \in 1 .. Len(s) : s[i] # z, fat[z] = EOC,
         DOMAIN fat = Clusters
  PROVE  ChainOf([fat EXCEPT ![s[Len(s)]] = z], c, Append(s, z))
  <1> DEFINE f == [fat EXCEPT ![s[Len(s)]] = z]
             n == Len(s)
  <1>1. PICK t : t = Append(s, z)
    OBVIOUS
  <1>2. s \in Seq(Clusters) /\ n \in Nat /\ n # 0
    BY LenProperties, EmptySeq DEF ChainOf
  <1>3. t \in Seq(Clusters) /\ Len(t) = n + 1 /\ t[n + 1] = z /\ \A i \in 1 .. n : t[i] = s[i]
    BY <1>1, <1>2, AppendProperties
  <1>4. \A i \in 1 .. n : s[i] \in Clusters
    BY <1>2, ElementOfSeq
  <1>5. f[s[n]] = z /\ f[z] = EOC /\ \A x \in Clusters : x # s[n] => f[x] = fat[x]
    BY <1>2, <1>4
  <1> HIDE DEF f
  <1>6. ASSUME NEW i \in 1 .. n PROVE f[t[i]] = t[i + 1]
    <2>1. CASE i = n
      BY <1>2, <1>3, <1>5, <2>1
    <2>2. CASE i # n
      <3>1. i \in 1 .. (n - 1) /\ i + 1 \in 1 .. n
        BY <1>2, <2>2
      <3>2. s[i] # s[n]
        BY <1>2, <2>2 DEF ChainOf
      <3>3. fat[s[i]] = s[i + 1]
        BY <3>1 DEF ChainOf
      <3> QED
        BY <1>3, <1>4, <1>5, <3>1, <3>2, <3>3
    <2> QED
      BY <2>1, <2>2
  <1>7. ASSUME NEW i \in 1 .. (n + 1), NEW j \in 1 .. (n + 1), t[i] = t[j] PROVE i = j
    <2>1. \A k \in 1 .. (n + 1) : k \in 1 .. n \/ k = n + 1
      BY <1>2
    <2>2. \A k \in 1 .. n : t[k] # t[n + 1]
      BY <1>3
    <2>3. \A k, l \in 1 .. n : s[k] = s[l] => k = l
      BY DEF ChainOf
    <2> QED
      BY <1>3, <1>7, <2>1, <2>2, <2>3
  <1>8. c \in Clusters /\ t # <<>> /\ t[1] = c
    BY <1>2, <1>3, EmptySeq DEF ChainOf
  <1>9. Len(t) - 1 = n
    BY <1>2, <1>3
  <1>10. \A i \in 1 .. (Len(t) - 1) : f[t[i]] = t[i + 1]
    BY <1>6, <1>9
  <1>11. ChainOf(f, c, t)
    BY <1>3, <1>5, <1>7, <1>8, <1>10 DEF ChainOf
  <1> QED
    BY <1>1, <1>11 DEF f

\* A cluster of a chain becomes its end.
LEMMA ChainCut ==
  ASSUME NEW fat, NEW c, NEW s, ChainOf(fat, c, s), NEW n \in 1 .. Len(s),
         DOMAIN fat = Clusters
  PROVE  ChainOf([fat EXCEPT ![s[n]] = EOC], c, SubSeq(s, 1, n))
  <1> DEFINE f == [fat EXCEPT ![s[n]] = EOC]
  <1>1. PICK t : t = SubSeq(s, 1, n)
    OBVIOUS
  <1>2. s \in Seq(Clusters) /\ Len(s) \in Nat /\ n \in Nat /\ n # 0
    BY LenProperties DEF ChainOf
  <1>3. t \in Seq(Clusters) /\ Len(t) = n /\ \A i \in 1 .. n : t[i] = s[i]
    BY <1>1, <1>2, SubSeqProperties
  <1>4. \A i \in 1 .. Len(s) : s[i] \in Clusters
    BY <1>2, ElementOfSeq
  <1>5. f[s[n]] = EOC /\ \A x \in Clusters : x # s[n] => f[x] = fat[x]
    BY <1>2, <1>4
  <1> HIDE DEF f
  <1>6. ASSUME NEW i \in 1 .. (n - 1) PROVE f[t[i]] = t[i + 1]
    <2>1. i \in 1 .. n /\ i \in 1 .. Len(s) /\ i # n /\ i + 1 \in 1 .. n /\ i \in 1 .. (Len(s) - 1)
      BY <1>2
    <2>2. s[i] # s[n] /\ fat[s[i]] = s[i + 1]
      BY <2>1 DEF ChainOf
    <2> QED
      BY <1>3, <1>4, <1>5, <2>1, <2>2
  <1>7. \A i, j \in 1 .. n : t[i] = t[j] => i = j
    <2>1. \A i \in 1 .. n : i \in 1 .. Len(s)
      BY <1>2
    <2> QED
      BY <1>3, <2>1 DEF ChainOf
  <1>8. s # <<>>
    BY <1>2, EmptySeq
  <1>9. c \in Clusters /\ t # <<>> /\ t[1] = c
    BY <1>2, <1>3, <1>8, EmptySeq DEF ChainOf
  <1>10. ChainOf(f, c, t)
    BY <1>2, <1>3, <1>5, <1>6, <1>7, <1>9 DEF ChainOf
  <1> QED
    BY <1>1, <1>10 DEF f

-----------------------------------------------------------------------------
(* Volumes and the writes to them *)

FatValues == {FREE, EOC} \cup Clusters
Contained == [1 .. K -> Units]
Volumes == [fat : [Clusters -> FatValues], units : [Clusters -> Contained]]
Writes == [what : {"fat"}, cluster : Clusters, value : FatValues]
          \cup [what : {"units"}, cluster : Clusters, value : Contained]

LEMMA ApplyFat ==
  ASSUME NEW d \in Volumes, NEW c \in Clusters, NEW v \in FatValues
  PROVE  /\ SetFat(c, v) \in Writes
         /\ Apply(d, SetFat(c, v)) = [fat |-> [d.fat EXCEPT ![c] = v], units |-> d.units]
         /\ Apply(d, SetFat(c, v)) \in Volumes
         /\ Apply(d, SetFat(c, v)).fat = [d.fat EXCEPT ![c] = v]
         /\ Apply(d, SetFat(c, v)).units = d.units
  <1>1. SetFat(c, v) \in Writes
    BY DEF SetFat, Writes
  <1>2. Apply(d, SetFat(c, v)) = [d EXCEPT !.fat = [d.fat EXCEPT ![c] = v]]
    BY DEF Apply, SetFat
  <1>3. [d.fat EXCEPT ![c] = v] \in [Clusters -> FatValues]
    BY DEF Volumes
  <1>4. d = [fat |-> d.fat, units |-> d.units]
    BY DEF Volumes
  <1>5. [d EXCEPT !.fat = [d.fat EXCEPT ![c] = v]] = [fat |-> [d.fat EXCEPT ![c] = v], units |-> d.units]
    BY <1>4
  <1> QED
    BY <1>1, <1>2, <1>3, <1>5 DEF Volumes

LEMMA ApplyPut ==
  ASSUME NEW d \in Volumes, NEW c \in Clusters, NEW us \in Contained
  PROVE  /\ PutCluster(c, us) \in Writes
         /\ Apply(d, PutCluster(c, us)) = [fat |-> d.fat, units |-> [d.units EXCEPT ![c] = us]]
         /\ Apply(d, PutCluster(c, us)) \in Volumes
         /\ Apply(d, PutCluster(c, us)).fat = d.fat
         /\ Apply(d, PutCluster(c, us)).units = [d.units EXCEPT ![c] = us]
  <1>1. PutCluster(c, us) \in Writes
    BY DEF PutCluster, Writes
  <1>2. Apply(d, PutCluster(c, us)) = [d EXCEPT !.units = [d.units EXCEPT ![c] = us]]
    BY DEF Apply, PutCluster
  <1>3. [d.units EXCEPT ![c] = us] \in [Clusters -> Contained]
    BY DEF Volumes
  <1>4. d = [fat |-> d.fat, units |-> d.units]
    BY DEF Volumes
  <1>5. [d EXCEPT !.units = [d.units EXCEPT ![c] = us]] = [fat |-> d.fat, units |-> [d.units EXCEPT ![c] = us]]
    BY <1>4
  <1> QED
    BY <1>1, <1>2, <1>3, <1>5 DEF Volumes

LEMMA ApplyTyped ==
  ASSUME NEW d \in Volumes, NEW w \in Writes
  PROVE  Apply(d, w) \in Volumes
  <1>1. CASE w \in [what : {"fat"}, cluster : Clusters, value : FatValues]
    <2>1. PICK c \in Clusters, v \in FatValues : w = SetFat(c, v)
      BY <1>1 DEF SetFat
    <2> QED
      BY <2>1, ApplyFat
  <1>2. CASE w \in [what : {"units"}, cluster : Clusters, value : Contained]
    <2>1. PICK c \in Clusters, us \in Contained : w = PutCluster(c, us)
      BY <1>2 DEF PutCluster
    <2> QED
      BY <2>1, ApplyPut
  <1> QED
    BY <1>1, <1>2 DEF Writes

LEMMA StageFacts ==
  ASSUME NEW d \in Volumes, NEW ws \in Seq(Writes)
  PROVE  /\ Stage(d, ws, 0) = d
         /\ \A k \in 1 .. Len(ws) : Stage(d, ws, k) = Apply(Stage(d, ws, k - 1), ws[k])
         /\ \A k \in 0 .. Len(ws) : Stage(d, ws, k) \in Volumes
  <1> DEFINE n == Len(ws)
             A == Volumes
             step == [i \in 1 .. n |-> [v \in A |-> Apply(v, ws[i])]]
             Is(f) == f = [i \in 0 .. n |-> IF i = 0 THEN d ELSE Apply(f[i - 1], ws[i])]
             after == CHOOSE f : Is(f)
  <1>1. n \in Nat /\ \A i \in 1 .. n : ws[i] \in Writes
    BY LenProperties, ElementOfSeq
  <1>2. \A i \in 1 .. n : step[i] \in [A -> A]
    BY <1>1, ApplyTyped
  <1>3. PICK g : IsIteration(g, n, A, d, step)
    <2> HIDE DEF n, step, A
    <2>1. d \in A
      BY DEF A
    <2> QED
      BY <1>1, <1>2, <2>1, IterationExists
  <1>4. /\ g = [i \in 0 .. n |-> IF i = 0 THEN d ELSE step[i][g[i - 1]]]
        /\ \A i \in 1 .. n : g[i - 1] \in A
    <2> HIDE DEF step, A, n
    <2> QED
      BY <1>1, <1>3, IterationRecurs
  <1>5. \A i \in 1 .. n : step[i][g[i - 1]] = Apply(g[i - 1], ws[i])
    BY <1>4
  <1>6. \A i \in 0 .. n : i # 0 => i \in 1 .. n
    BY <1>1
  <1>7. g = [i \in 0 .. n |-> IF i = 0 THEN d ELSE Apply(g[i - 1], ws[i])]
    <2> HIDE DEF step, n
    <2> QED
      BY <1>4, <1>5, <1>6
  <1>8. Is(after)
    <2>1. Is(g)
      BY <1>7, Zenon
    <2> HIDE DEF Is
    <2> QED
      BY <2>1
  <1>9. \A k : Stage(d, ws, k) = after[k]
    BY DEF Stage
  <1> HIDE DEF after, step
  <1>10. after[0] = d
    BY <1>1, <1>8
  <1>11. ASSUME NEW i \in 1 .. n PROVE after[i] = Apply(after[i - 1], ws[i])
    <2>1. i \in 0 .. n /\ i # 0
      BY <1>1
    <2> QED
      BY <1>8, <2>1, Zenon
  <1> HIDE DEF Is
  <1> DEFINE S == {i \in 0 .. n : after[i] \in Volumes}
  <1>12. 0 \in S
    BY <1>1, <1>10
  <1>13. ASSUME NEW i \in 0 .. (n - 1), i \in S PROVE i + 1 \in S
    <2>1. i + 1 \in 1 .. n /\ i + 1 \in 0 .. n /\ (i + 1) - 1 = i
      BY <1>1
    <2> QED
      BY <1>1, <1>11, <1>13, <2>1, ApplyTyped
  <1>14. \A i \in 0 .. n : i \in S
    <2> HIDE DEF S, n
    <2> QED
      BY <1>1, <1>12, <1>13, UpTo
  <1> QED
    BY <1>9, <1>10, <1>11, <1>14

\* The stages of two lists of writes, one after the other.
LEMMA StageConcat ==
  ASSUME NEW d \in Volumes, NEW ws \in Seq(Writes), NEW xs \in Seq(Writes)
  PROVE  /\ ws \o xs \in Seq(Writes) /\ Len(ws \o xs) = Len(ws) + Len(xs)
         /\ \A k \in 0 .. Len(ws) : Stage(d, ws \o xs, k) = Stage(d, ws, k)
         /\ \A k \in 0 .. Len(xs) : Stage(d, ws \o xs, Len(ws) + k) = Stage(Run(d, ws), xs, k)
  <1>1. PICK n \in Nat : n = Len(ws)
    BY LenProperties
  <1>2. PICK m \in Nat : m = Len(xs)
    BY LenProperties
  <1>3. PICK ys : ys = ws \o xs
    OBVIOUS
  <1>4. /\ ys \in Seq(Writes) /\ Len(ys) = n + m
        /\ \A i \in 1 .. n : ys[i] = ws[i]
        /\ \A i \in 1 .. m : ys[n + i] = xs[i]
    BY <1>1, <1>2, <1>3, ConcatProperties
  <1> DEFINE S == {k \in 0 .. n : Stage(d, ys, k) = Stage(d, ws, k)}
  <1>5. 0 \in S
    BY <1>4, StageFacts
  <1>6. ASSUME NEW k \in 0 .. (n - 1), k \in S PROVE k + 1 \in S
    <2>1. k + 1 \in 1 .. n /\ k + 1 \in 1 .. (n + m) /\ (k + 1) - 1 = k /\ k + 1 \in 0 .. n
      OBVIOUS
    <2>2. Stage(d, ys, k + 1) = Apply(Stage(d, ys, k), ys[k + 1])
      <3>1. \A i \in 1 .. Len(ys) : Stage(d, ys, i) = Apply(Stage(d, ys, i - 1), ys[i])
        BY <1>4, StageFacts
      <3>2. k + 1 \in 1 .. Len(ys)
        BY <1>4, <2>1
      <3>3. Stage(d, ys, k + 1) = Apply(Stage(d, ys, (k + 1) - 1), ys[k + 1])
        BY <3>1, <3>2
      <3> QED
        BY <2>1, <3>3
    <2>3. Stage(d, ws, k + 1) = Apply(Stage(d, ws, k), ws[k + 1])
      BY <1>1, <2>1, StageFacts
    <2> QED
      BY <1>4, <1>6, <2>1, <2>2, <2>3
  <1>7. \A k \in 0 .. n : k \in S
    <2> HIDE DEF S
    <2> QED
      BY <1>5, <1>6, UpTo
  <1>8. PICK v \in Volumes : v = Run(d, ws) /\ v = Stage(d, ws, n)
    BY <1>1, StageFacts DEF Run
  <1> DEFINE R == {k \in 0 .. m : Stage(d, ys, n + k) = Stage(v, xs, k)}
  <1>9. 0 \in R
    <2>1. n + 0 = n /\ n \in 0 .. n
      OBVIOUS
    <2>2. Stage(v, xs, 0) = v
      BY StageFacts
    <2> QED
      BY <1>7, <1>8, <2>1, <2>2
  <1>10. ASSUME NEW k \in 0 .. (m - 1), k \in R PROVE k + 1 \in R
    <2>1. /\ k + 1 \in 1 .. m /\ n + (k + 1) \in 1 .. (n + m) /\ (n + (k + 1)) - 1 = n + k
          /\ k + 1 \in 0 .. m /\ (k + 1) - 1 = k
      OBVIOUS
    <2>2. Stage(d, ys, n + (k + 1)) = Apply(Stage(d, ys, n + k), ys[n + (k + 1)])
      <3>1. PICK j \in 1 .. Len(ys) : j = n + (k + 1) /\ j - 1 = n + k
        BY <1>4, <2>1
      <3>2. Stage(d, ys, j) = Apply(Stage(d, ys, j - 1), ys[j])
        BY <1>4, StageFacts
      <3> QED
        BY <3>1, <3>2
    <2>3. Stage(v, xs, k + 1) = Apply(Stage(v, xs, k), xs[k + 1])
      BY <1>2, <2>1, StageFacts
    <2> QED
      BY <1>4, <1>10, <2>1, <2>2, <2>3
  <1>11. \A k \in 0 .. m : k \in R
    <2> HIDE DEF R
    <2> QED
      BY <1>9, <1>10, UpTo
  <1> QED
    BY <1>1, <1>2, <1>3, <1>4, <1>7, <1>8, <1>11

\* The stages that are left once the first write is done.
LEMMA StageTail ==
  ASSUME NEW d \in Volumes, NEW ws \in Seq(Writes), ws # <<>>
  PROVE  /\ Head(ws) \in Writes /\ Tail(ws) \in Seq(Writes) /\ Len(Tail(ws)) = Len(ws) - 1
         /\ \A i \in 1 .. (Len(ws) - 1) : Tail(ws)[i] = ws[i + 1]
         /\ \A k \in 0 .. (Len(ws) - 1) :
               Stage(Apply(d, Head(ws)), Tail(ws), k) = Stage(d, ws, k + 1)
  <1>1. PICK n \in Nat : n = Len(ws) /\ n # 0
    BY LenProperties, EmptySeq
  <1>2. PICK xs : xs = Tail(ws)
    OBVIOUS
  <1>3. PICK v : v = Apply(d, Head(ws))
    OBVIOUS
  <1>4. /\ Head(ws) = ws[1] /\ ws[1] \in Writes /\ xs \in Seq(Writes) /\ Len(xs) = n - 1
        /\ \A i \in 1 .. (n - 1) : xs[i] = ws[i + 1]
    BY <1>1, <1>2, HeadTailProperties, ElementOfSeq
  <1>5. v \in Volumes /\ n - 1 \in Nat
    BY <1>1, <1>3, <1>4, ApplyTyped
  <1> DEFINE S == {k \in 0 .. (n - 1) : Stage(v, xs, k) = Stage(d, ws, k + 1)}
  <1>6. 0 \in S
    <2>1. 0 \in 0 .. (n - 1) /\ 1 \in 1 .. n /\ 0 + 1 = 1 /\ 1 - 1 = 0
      BY <1>1
    <2>2. Stage(d, ws, 1) = Apply(Stage(d, ws, 0), ws[1]) /\ Stage(d, ws, 0) = d
      BY <1>1, <2>1, StageFacts
    <2>3. Stage(v, xs, 0) = v
      BY <1>4, <1>5, StageFacts
    <2> QED
      BY <1>3, <1>4, <2>1, <2>2, <2>3
  <1>7. ASSUME NEW k \in 0 .. ((n - 1) - 1), k \in S PROVE k + 1 \in S
    <2>1. /\ k + 1 \in 1 .. (n - 1) /\ k + 1 \in 0 .. (n - 1) /\ (k + 1) - 1 = k
          /\ (k + 1) + 1 \in 1 .. n /\ ((k + 1) + 1) - 1 = k + 1
      BY <1>1
    <2>2. Stage(v, xs, k + 1) = Apply(Stage(v, xs, k), xs[k + 1])
      BY <1>4, <1>5, <2>1, StageFacts
    <2>3. Stage(d, ws, (k + 1) + 1) = Apply(Stage(d, ws, k + 1), ws[(k + 1) + 1])
      BY <1>1, <2>1, StageFacts
    <2> QED
      BY <1>4, <1>7, <2>1, <2>2, <2>3
  <1>8. \A k \in 0 .. (n - 1) : k \in S
    <2> HIDE DEF S
    <2> QED
      BY <1>5, <1>6, <1>7, UpTo
  <1> QED
    BY <1>1, <1>2, <1>3, <1>4, <1>8

-----------------------------------------------------------------------------
(* Where a unit of a chain is *)

LEMMA Position ==
  ASSUME NEW i \in Nat \ {0}
  PROVE  /\ ClusterNo(i) \in Nat \ {0} /\ Within(i) \in 1 .. K
         /\ i = (ClusterNo(i) - 1) * K + Within(i)
         /\ (ClusterNo(i) - 1) * K \in Nat
  <1>1. K \in Nat \ {0} /\ i - 1 \in Nat
    BY ClusterFacts
  <1>2. PICK a \in Nat : a = i - 1
    BY <1>1
  <1>3. PICK q \in Nat : q = a \div K /\ q * K \in Nat
    BY <1>1, DivMod
  <1>4. PICK r \in 0 .. (K - 1) : r = a % K /\ a = q * K + r
    BY <1>1, <1>3, DivMod
  <1>5. ClusterNo(i) = q + 1 /\ Within(i) = r + 1
    BY <1>2, <1>3, <1>4 DEF ClusterNo, Within
  <1>6. (ClusterNo(i) - 1) * K = q * K
    <2>1. ClusterNo(i) - 1 = q
      BY <1>5
    <2> QED
      BY <2>1
  <1>7. ClusterNo(i) \in Nat \ {0} /\ Within(i) \in 1 .. K
    BY <1>1, <1>5
  <1>8. PICK p \in Nat : p = q * K
    BY <1>3
  <1>9. i = p + Within(i)
    BY <1>2, <1>4, <1>5, <1>8
  <1> QED
    BY <1>3, <1>6, <1>7, <1>8, <1>9

LEMMA PositionOf ==
  ASSUME NEW q \in Nat \ {0}, NEW r \in 1 .. K
  PROVE  /\ (q - 1) * K + r \in Nat \ {0} /\ (q - 1) * K \in Nat
         /\ ClusterNo((q - 1) * K + r) = q
         /\ Within((q - 1) * K + r) = r
  <1>1. K \in Nat \ {0} /\ q - 1 \in Nat /\ r - 1 \in 0 .. (K - 1)
    BY ClusterFacts
  <1>2. PICK b \in Nat : b = q - 1
    BY <1>1
  <1>3. PICK e \in 0 .. (K - 1) : e = r - 1
    BY <1>1
  <1>4. PICK p \in Nat : p = b * K
    BY <1>1
  <1>5. (b * K + e) \div K = b /\ (b * K + e) % K = e
    BY <1>1, DivUnique
  <1>6. (q - 1) * K = p
    BY <1>2, <1>4
  <1>7. p + r \in Nat \ {0} /\ (p + r) - 1 = p + e
    BY <1>1, <1>3
  <1>8. ClusterNo(p + r) = b + 1 /\ Within(p + r) = e + 1
    BY <1>4, <1>5, <1>7 DEF ClusterNo, Within
  <1> QED
    BY <1>2, <1>3, <1>6, <1>7, <1>8

LEMMA PositionMono ==
  ASSUME NEW i \in Nat \ {0}, NEW j \in Nat \ {0}
  PROVE  /\ i <= j => ClusterNo(i) <= ClusterNo(j)
         /\ ClusterNo(i) < ClusterNo(j) => i < j
         /\ (ClusterNo(i) = ClusterNo(j) /\ Within(i) = Within(j)) => i = j
  <1>1. K \in Nat \ {0} /\ i - 1 \in Nat /\ j - 1 \in Nat
    BY ClusterFacts
  <1>2. PICK a \in Nat, b \in Nat : a = i - 1 /\ b = j - 1
    BY <1>1
  <1>3. PICK p \in Nat, q \in Nat : p = a \div K /\ q = b \div K
    BY <1>1, DivMod
  <1>4. (a < b => p <= q) /\ (p < q => a < b)
    BY <1>1, <1>3, DivOrder
  <1>5. ClusterNo(i) = p + 1 /\ ClusterNo(j) = q + 1
    BY <1>2, <1>3 DEF ClusterNo
  <1>6. i <= j => ClusterNo(i) <= ClusterNo(j)
    BY <1>2, <1>3, <1>4, <1>5
  <1>7. ClusterNo(i) < ClusterNo(j) => i < j
    BY <1>2, <1>4, <1>5
  <1>8. (ClusterNo(i) = ClusterNo(j) /\ Within(i) = Within(j)) => i = j
    BY Position
  <1> QED
    BY <1>6, <1>7, <1>8

LEMMA PositionIn ==
  ASSUME NEW i \in Nat \ {0}, NEW m \in Nat
  PROVE  i <= m * K <=> ClusterNo(i) <= m
  <1>1. K \in Nat \ {0}
    BY ClusterFacts
  <1>2. PICK q \in Nat : q = ClusterNo(i) - 1 /\ ClusterNo(i) = q + 1
    BY Position
  <1>3. PICK r \in 1 .. K : r = Within(i)
    BY Position
  <1>4. PICK p \in Nat : p = q * K
    BY <1>1
  <1>5. PICK o \in Nat : o = m * K
    BY <1>1
  <1>6. i = p + r
    BY <1>2, <1>3, <1>4, Position
  <1>7. q < m => p + K <= o
    BY <1>1, <1>4, <1>5, MultMono
  <1>8. m < q => o + K <= p
    BY <1>1, <1>4, <1>5, MultMono
  <1>9. m = q => o = p
    BY <1>4, <1>5
  <1> QED
    BY <1>1, <1>2, <1>5, <1>6, <1>7, <1>8, <1>9

LEMMA ReadChain ==
  ASSUME NEW d \in Volumes, NEW c, NEW s, s = Chain(d.fat, c)
  PROVE  /\ s \in Seq(Clusters) /\ Len(s) \in Nat /\ Len(s) * K \in Nat
         /\ read_chain(d, c) \in Seq(Units)
         /\ Len(read_chain(d, c)) = Len(s) * K
         /\ DOMAIN read_chain(d, c) = 1 .. Len(s) * K
         /\ \A i \in 1 .. Len(s) * K :
               /\ i \in Nat \ {0} /\ ClusterNo(i) \in 1 .. Len(s) /\ Within(i) \in 1 .. K
               /\ s[ClusterNo(i)] \in Clusters
               /\ read_chain(d, c)[i] = d.units[s[ClusterNo(i)]][Within(i)]
  <1>1. s \in Seq(Clusters) /\ Len(s) \in Nat
    BY ChainLinks, LenProperties
  <1>2. PICK n \in Nat : n = Len(s) * K
    BY <1>1, ClusterFacts
  <1>3. \A i \in 1 .. n : i \in Nat \ {0} /\ ClusterNo(i) \in 1 .. Len(s) /\ Within(i) \in 1 .. K
    <2> SUFFICES ASSUME NEW i \in 1 .. n
                 PROVE  i \in Nat \ {0} /\ ClusterNo(i) \in 1 .. Len(s) /\ Within(i) \in 1 .. K
      OBVIOUS
    <2>1. i \in Nat \ {0} /\ i <= n
      OBVIOUS
    <2>2. ClusterNo(i) <= Len(s)
      BY <1>1, <1>2, <2>1, PositionIn
    <2> QED
      BY <1>1, <2>1, <2>2, Position
  <1>4. \A i \in 1 .. n : s[ClusterNo(i)] \in Clusters
    BY <1>1, <1>3, ElementOfSeq
  <1>5. \A i \in 1 .. n : d.units[s[ClusterNo(i)]][Within(i)] \in Units
    BY <1>3, <1>4 DEF Volumes, Contained
  <1>6. PICK us : us = [i \in 1 .. n |-> d.units[s[ClusterNo(i)]][Within(i)]]
    OBVIOUS
  <1>7. read_chain(d, c) = us
    BY <1>2, <1>6 DEF read_chain
  <1>8. us \in Seq(Units) /\ Len(us) = n /\ DOMAIN us = 1 .. n
    <2>1. us \in [1 .. n -> Units]
      BY <1>5, <1>6
    <2> QED
      BY <2>1, IsASeq, LenProperties
  <1> QED
    BY <1>1, <1>2, <1>3, <1>4, <1>6, <1>7, <1>8

\* How many clusters the data needs.
LEMMA NeededFacts ==
  ASSUME NEW n \in Nat, NEW data, Len(data) = n
  PROVE  /\ Needed(data) \in Nat
         /\ n <= Needed(data) * K
         /\ Needed(data) # 0 => (Needed(data) - 1) * K < n
         /\ n = 0 <=> Needed(data) = 0
         /\ \A m \in Nat : n = m * K => Needed(data) = m
  <1>1. K \in Nat \ {0}
    BY ClusterFacts
  <1>2. PICK a \in Nat : a = n + K - 1
    BY <1>1
  <1>3. PICK q \in Nat : q = a \div K
    BY <1>1, DivMod
  <1>4. PICK r \in 0 .. (K - 1) : a = q * K + r /\ q * K \in Nat
    BY <1>1, <1>3, DivMod
  <1>5. Needed(data) = q
    BY <1>2, <1>3 DEF Needed
  <1>6. PICK p \in Nat : p = q * K
    BY <1>4
  <1>7. n <= p
    BY <1>1, <1>2, <1>4, <1>6
  <1>8. q # 0 => (q - 1) * K < n
    <2> SUFFICES ASSUME q # 0 PROVE (q - 1) * K < n
      OBVIOUS
    <2>1. PICK o \in Nat : o = (q - 1) * K
      BY <1>1
    <2>2. o + K <= p
      <3>1. q - 1 \in Nat /\ q - 1 < q
        OBVIOUS
      <3> QED
        BY <1>1, <1>6, <2>1, <3>1, MultMono
    <2> QED
      BY <1>1, <1>2, <1>4, <1>6, <2>1, <2>2
  <1>9. n = 0 <=> q = 0
    <2>1. q = 0 => p = 0
      BY <1>1, <1>6, SMT
    <2>2. q # 0 => p >= K
      <3> SUFFICES ASSUME q # 0 PROVE p >= K
        OBVIOUS
      <3>1. 0 * K + K <= p
        BY <1>1, <1>6, MultMono
      <3> QED
        BY <1>1, <3>1
    <2> QED
      BY <1>1, <1>2, <1>4, <1>6, <2>1, <2>2
  <1>10. ASSUME NEW m \in Nat, n = m * K PROVE q = m
    <2>1. m < q => m * K + K <= p
      BY <1>1, <1>6, MultMono
    <2>2. q < m => p + K <= m * K
      BY <1>1, <1>6, MultMono
    <2>3. PICK o \in Nat : o = m * K
      BY <1>1
    <2> QED
      BY <1>1, <1>2, <1>4, <1>6, <1>10, <2>1, <2>2, <2>3
  <1> QED
    BY <1>5, <1>6, <1>7, <1>8, <1>9, <1>10

LEMMA UnitKinds ==
  /\ Zero \in Units /\ Deleted \in Units /\ Dot \in Units
  /\ \A n \in Names : Lfn(n) \in Units
  /\ \A n \in Names, b \in BOOLEAN, c \in Clusters \cup {0}, z \in 0 .. MaxData : Entry(n, b, c, z) \in Units
  /\ \A p \in Paths, i \in 1 .. MaxData : Data(p, i) \in Units
  /\ \A n \in Names, i \in 1 .. MaxData : Data(<<n>>, i) \in Units
  BY DEF Units

LEMMA UnitFacts ==
  ASSUME NEW u \in Units
  PROVE  /\ u.t = "zero" <=> u = Zero
         /\ u.t = "entry" => /\ u.name \in Names /\ u.dir \in BOOLEAN
                             /\ u.cluster \in Clusters \cup {0} /\ u.size \in 0 .. MaxData
                             /\ u = Entry(u.name, u.dir, u.cluster, u.size)
  <1>1. CASE u = Zero
    BY <1>1 DEF Zero
  <1>2. CASE u = Deleted
    BY <1>2 DEF Zero, Deleted
  <1>3. CASE u = Dot
    BY <1>3 DEF Zero, Dot
  <1>4. CASE u \in {Lfn(n) : n \in Names}
    BY <1>4 DEF Zero, Lfn
  <1>5. CASE u \in {Entry(n, b, c, z) : n \in Names, b \in BOOLEAN, c \in Clusters \cup {0}, z \in 0 .. MaxData}
    BY <1>5 DEF Zero, Entry
  <1>6. CASE u \in {Data(p, i) : p \in Paths \cup {<<n>> : n \in Names}, i \in 1 .. MaxData}
    BY <1>6 DEF Zero, Data
  <1> QED
    BY <1>1, <1>2, <1>3, <1>4, <1>5, <1>6 DEF Units

LEMMA ZerosFacts ==
  /\ Zeros(K) \in Contained /\ Zeros(K) \in Seq(Units) /\ Len(Zeros(K)) = K
  /\ \A r \in 1 .. K : Zeros(K)[r] = Zero
  <1>1. Zeros(K) \in [1 .. K -> Units] /\ \A r \in 1 .. K : Zeros(K)[r] = Zero
    BY UnitKinds DEF Zeros
  <1>2. K \in Nat
    BY ClusterFacts
  <1> QED
    BY <1>1, <1>2, IsASeq, LenProperties DEF Contained

\* The part of the data that goes to one cluster.
LEMMA PieceFacts ==
  ASSUME NEW data \in Seq(Units), NEW q \in 1 .. Needed(data)
  PROVE  /\ Piece(data, q) \in Contained
         /\ \A r \in 1 .. K :
               Piece(data, q)[r] = IF (q - 1) * K + r <= Len(data) THEN data[(q - 1) * K + r] ELSE Zero
  <1>1. PICK n \in Nat : n = Len(data)
    BY LenProperties
  <1>2. Needed(data) \in Nat /\ (Needed(data) # 0 => (Needed(data) - 1) * K < n)
    BY <1>1, NeededFacts
  <1>3. PICK m \in Nat : m = Needed(data) /\ q <= m /\ m # 0
    BY <1>2
  <1>4. K \in Nat \ {0} /\ q \in Nat \ {0} /\ q - 1 \in Nat
    BY <1>3, ClusterFacts
  <1>5. PICK o \in Nat : o = (q - 1) * K
    BY <1>4
  <1>6. o < n
    <2>1. PICK a \in Nat : a = (m - 1) * K
      BY <1>3, <1>4
    <2>2. q = m \/ q - 1 < m - 1
      BY <1>3, <1>4
    <2>3. q = m => o = a
      BY <1>5, <2>1
    <2>4. q - 1 < m - 1 => o + K <= a
      <3>1. m - 1 \in Nat
        BY <1>3
      <3> QED
        BY <1>4, <1>5, <2>1, <3>1, MultMono
    <2> QED
      BY <1>2, <1>3, <1>4, <2>1, <2>2, <2>3, <2>4
  <1>7. q * K = o + K
    BY <1>4, <1>5
  <1>8. PICK xs : xs = data \o Zeros(K)
    OBVIOUS
  <1>9. /\ xs \in Seq(Units) /\ Len(xs) = n + K
        /\ \A i \in 1 .. (n + K) : xs[i] = IF i <= n THEN data[i] ELSE Zeros(K)[i - n]
    <2>1. PICK zs \in Seq(Units) : zs = Zeros(K) /\ Len(zs) = K
      BY ZerosFacts
    <2>2. /\ data \o zs \in Seq(Units) /\ Len(data \o zs) = Len(data) + Len(zs)
          /\ \A i \in 1 .. (Len(data) + Len(zs)) :
                (data \o zs)[i] = IF i <= Len(data) THEN data[i] ELSE zs[i - Len(data)]
      BY ConcatProperties
    <2> QED
      BY <1>1, <1>8, <2>1, <2>2
  <1>10. \A i \in 1 .. (n + K) : xs[i] = IF i <= n THEN data[i] ELSE Zero
    <2> SUFFICES ASSUME NEW i \in 1 .. (n + K) PROVE xs[i] = IF i <= n THEN data[i] ELSE Zero
      OBVIOUS
    <2>1. i > n => i - n \in 1 .. K
      BY <1>4
    <2> QED
      BY <1>9, <2>1, ZerosFacts
  <1>11. \A i \in 1 .. (n + K) : xs[i] \in Units
    BY <1>9, ElementOfSeq
  <1>12. PICK y : y = SubSeq(xs, o + 1, o + K)
    OBVIOUS
  <1>13. \A i \in (o + 1) .. (o + K) : xs[i] \in Units
    BY <1>4, <1>6, <1>11
  <1>14. y \in Seq(Units) /\ Len(y) = K /\ \A r \in 1 .. K : y[r] = xs[o + r]
    <2>1. /\ o + 1 \in Int /\ o + K \in Int /\ o + 1 <= o + K /\ (o + K) - (o + 1) + 1 = K
          /\ \A r \in 1 .. K : (o + 1) + r - 1 = o + r
      BY <1>4
    <2> QED
      BY <1>12, <1>13, <2>1, SubSeqProperties
  <1>15. Piece(data, q) = y
    BY <1>5, <1>7, <1>8, <1>12 DEF Piece
  <1>16. y \in Contained
    BY <1>14, LenProperties DEF Contained
  <1>17. ASSUME NEW r \in 1 .. K PROVE y[r] = IF o + r <= n THEN data[o + r] ELSE Zero
    <2>1. o + r \in 1 .. (n + K)
      BY <1>4, <1>6
    <2> QED
      BY <1>10, <1>14, <2>1
  <1> QED
    BY <1>1, <1>5, <1>15, <1>16, <1>17

-----------------------------------------------------------------------------
(* Free clusters *)

LEMMA FreeFacts ==
  ASSUME NEW fat
  PROVE  LET s == FreeClusters(fat)
         IN /\ s \in Seq(Clusters)
            /\ \A i \in 1 .. Len(s) : fat[s[i]] = FREE
            /\ \A i, j \in 1 .. Len(s) : s[i] = s[j] => i = j
  <1> DEFINE A == Seq(Clusters)
             Nx(c, s) == IF c \in Clusters /\ fat[c] = FREE THEN Append(s, c) ELSE s
             step == [c \in 1 .. MaxCluster |-> [s \in A |-> Nx(c, s)]]
             Is(f) == f = [c \in 0 .. MaxCluster |->
                             IF c = 0 THEN <<>>
                             ELSE IF c \in Clusters /\ fat[c] = FREE THEN Append(f[c - 1], c)
                             ELSE f[c - 1]]
             found == CHOOSE f : Is(f)
  <1>1. MaxCluster \in Nat /\ <<>> \in A
    BY ClusterFacts
  <1>2. \A n \in 1 .. MaxCluster : step[n] \in [A -> A]
    BY AppendProperties
  <1>3. PICK g : IsIteration(g, MaxCluster, A, <<>>, step)
    <2> HIDE DEF A, step
    <2> QED
      BY <1>1, <1>2, IterationExists
  <1>4. /\ g = [i \in 0 .. MaxCluster |-> IF i = 0 THEN <<>> ELSE step[i][g[i - 1]]]
        /\ \A i \in 1 .. MaxCluster : g[i - 1] \in A
    <2> HIDE DEF step, A
    <2> QED
      BY <1>1, <1>3, IterationRecurs
  <1>5. \A i \in 1 .. MaxCluster : step[i][g[i - 1]] = Nx(i, g[i - 1])
    BY <1>4
  <1>6. \A i \in 0 .. MaxCluster : i # 0 => i \in 1 .. MaxCluster
    BY <1>1
  <1>7. g = [i \in 0 .. MaxCluster |-> IF i = 0 THEN <<>> ELSE Nx(i, g[i - 1])]
    <2> HIDE DEF step, Nx
    <2> QED
      BY <1>4, <1>5, <1>6
  <1>8. Is(found)
    <2>1. Is(g)
      BY <1>7, Zenon
    <2> HIDE DEF Is
    <2> QED
      BY <2>1
  <1>9. FreeClusters(fat) = found[MaxCluster]
    BY DEF FreeClusters
  <1> HIDE DEF found, step
  <1>10. found[0] = <<>>
    BY <1>1, <1>8
  <1>11. ASSUME NEW c \in 1 .. MaxCluster
         PROVE  found[c] = IF c \in Clusters /\ fat[c] = FREE THEN Append(found[c - 1], c)
                           ELSE found[c - 1]
    <2>1. c \in 0 .. MaxCluster /\ c # 0
      BY <1>1
    <2> QED
      BY <1>8, <2>1, Zenon
  <1> HIDE DEF Is
  <1> DEFINE P(s, c) == /\ s \in Seq(Clusters)
                        /\ \A i \in 1 .. Len(s) : fat[s[i]] = FREE /\ s[i] <= c
                        /\ \A i, j \in 1 .. Len(s) : s[i] = s[j] => i = j
             S == {c \in 0 .. MaxCluster : P(found[c], c)}
  <1>12. 0 \in S
    <2>1. <<>> \in Seq(Clusters) /\ Len(<<>>) = 0
      OBVIOUS
    <2>2. P(<<>>, 0)
      BY <2>1
    <2>3. P(found[0], 0)
      BY <1>10, <2>2
    <2>4. 0 \in 0 .. MaxCluster
      BY <1>1
    <2> HIDE DEF P
    <2> QED
      BY <2>3, <2>4
  <1>13. ASSUME NEW c \in 0 .. (MaxCluster - 1), c \in S PROVE c + 1 \in S
    <2>1. c + 1 \in 1 .. MaxCluster /\ c + 1 \in 0 .. MaxCluster /\ (c + 1) - 1 = c /\ c \in Nat
      BY <1>1
    <2>2. PICK s : s = found[c]
      OBVIOUS
    <2>3. P(s, c)
      BY <1>13, <2>2
    <2>4. PICK n \in Nat : n = Len(s)
      BY <2>3, LenProperties
    <2>5. \A i \in 1 .. n : s[i] \in Clusters /\ s[i] \in Nat
      BY <2>3, <2>4, ElementOfSeq, ClusterFacts
    <2>6. CASE found[c + 1] = s
      <3>1. P(s, c + 1)
        BY <2>1, <2>3, <2>4, <2>5
      <3> QED
        BY <2>1, <2>6, <3>1
    <2>7. CASE c + 1 \in Clusters /\ fat[c + 1] = FREE /\ found[c + 1] = Append(s, c + 1)
      <3>1. PICK t : t = Append(s, c + 1)
        OBVIOUS
      <3>2. /\ t \in Seq(Clusters) /\ Len(t) = n + 1 /\ t[n + 1] = c + 1
            /\ \A i \in 1 .. n : t[i] = s[i]
        BY <2>3, <2>4, <2>7, <3>1, AppendProperties
      <3>3. \A i \in 1 .. (n + 1) : i = n + 1 \/ i \in 1 .. n
        OBVIOUS
      <3>4. \A i \in 1 .. n : t[i] <= c /\ t[i] \in Nat /\ fat[t[i]] = FREE
        BY <2>3, <2>4, <2>5, <3>2
      <3>5. \A i \in 1 .. Len(t) : fat[t[i]] = FREE /\ t[i] <= c + 1
        BY <2>1, <2>7, <3>2, <3>3, <3>4
      <3>6. ASSUME NEW i \in 1 .. (n + 1), NEW j \in 1 .. (n + 1), t[i] = t[j] PROVE i = j
        <4>1. \A k \in 1 .. n : t[k] # c + 1
          BY <2>1, <3>4
        <4> QED
          BY <2>3, <2>4, <3>2, <3>3, <3>6, <4>1
      <3>7. P(t, c + 1)
        BY <3>2, <3>5, <3>6
      <3> QED
        BY <2>1, <2>7, <3>1, <3>7
    <2> QED
      BY <1>11, <2>1, <2>2, <2>6, <2>7
  <1>14. \A c \in 0 .. MaxCluster : c \in S
    <2> HIDE DEF S
    <2> QED
      BY <1>1, <1>12, <1>13, UpTo
  <1>15. P(found[MaxCluster], MaxCluster)
    BY <1>1, <1>14
  <1> QED
    BY <1>9, <1>15

\* The clusters write_chain may use, in their order: the chain's, then the free ones.
Usable(fat, start) == Chain(fat, start) \o FreeClusters(fat)

LEMMA UsableFacts ==
  ASSUME NEW fat \in [Clusters -> FatValues], NEW start, WellFormed(fat, start),
         NEW all, all = Usable(fat, start), NEW old, old = Len(Chain(fat, start))
  PROVE  /\ all \in Seq(Clusters) /\ Len(all) \in Nat /\ old \in 0 .. Len(all)
         /\ SubSeq(all, 1, old) = Chain(fat, start)
         /\ \A i \in 1 .. old : all[i] = Chain(fat, start)[i] /\ fat[all[i]] # FREE
         /\ \A i \in (old + 1) .. Len(all) : fat[all[i]] = FREE
         /\ \A i, j \in 1 .. Len(all) : all[i] = all[j] => i = j
  <1>1. PICK s \in Seq(Clusters) : s = Chain(fat, start) /\ ChainOf(fat, start, s)
    BY WellFormedChain DEF ChainOf
  <1>2. PICK f \in Seq(Clusters) : f = FreeClusters(fat)
    BY FreeFacts
  <1>3. old \in Nat /\ old = Len(s)
    BY <1>1, LenProperties
  <1>4. PICK m \in Nat : m = Len(f)
    BY <1>2, LenProperties
  <1>5. all = s \o f
    BY <1>1, <1>2 DEF Usable
  <1>6. /\ all \in Seq(Clusters) /\ Len(all) = old + m
        /\ \A i \in 1 .. (old + m) : all[i] = IF i <= old THEN s[i] ELSE f[i - old]
    BY <1>3, <1>4, <1>5, ConcatProperties
  <1>7. \A i \in 1 .. old : all[i] = s[i]
    BY <1>3, <1>6
  <1>8. \A i \in (old + 1) .. (old + m) : all[i] = f[i - old] /\ i - old \in 1 .. m
    BY <1>3, <1>6
  <1>9. \A i \in (old + 1) .. (old + m) : fat[all[i]] = FREE
    <2>1. \A i \in 1 .. m : fat[f[i]] = FREE
      BY <1>2, <1>4, FreeFacts
    <2> QED
      BY <1>8, <2>1
  <1>10. ASSUME NEW i \in 1 .. old PROVE fat[all[i]] # FREE
    <2>1. CASE i = old
      BY <1>1, <1>3, <1>7, <2>1, ClusterFacts, EmptySeq DEF ChainOf
    <2>2. CASE i # old
      <3>1. i \in 1 .. (old - 1) /\ i + 1 \in 1 .. old
        BY <1>3, <2>2
      <3>2. fat[s[i]] = s[i + 1] /\ s[i + 1] \in Clusters
        BY <1>1, <1>3, <3>1, ElementOfSeq DEF ChainOf
      <3> QED
        BY <1>7, <3>2, ClusterFacts
    <2> QED
      BY <2>1, <2>2
  <1>11. ASSUME NEW i \in 1 .. (old + m), NEW j \in 1 .. (old + m), all[i] = all[j] PROVE i = j
    <2>1. \A k \in 1 .. (old + m) : k \in 1 .. old \/ k \in (old + 1) .. (old + m)
      BY <1>3
    <2>2. \A k, l \in 1 .. old : all[k] = all[l] => k = l
      BY <1>1, <1>3, <1>7 DEF ChainOf
    <2>3. ASSUME NEW k \in (old + 1) .. (old + m), NEW l \in (old + 1) .. (old + m), all[k] = all[l]
          PROVE  k = l
      <3>1. \A x, y \in 1 .. m : f[x] = f[y] => x = y
        BY <1>2, <1>4, FreeFacts
      <3>2. k - old = l - old
        BY <1>8, <2>3, <3>1
      <3> QED
        BY <1>3, <3>2
    <2> QED
      BY <1>9, <1>10, <1>11, <2>1, <2>2, <2>3
  <1>12. SubSeq(all, 1, old) = s
    <2>1. \A i \in 1 .. old : all[i] \in Clusters
      BY <1>1, <1>3, <1>7, ElementOfSeq
    <2>2. /\ SubSeq(all, 1, old) \in Seq(Clusters) /\ Len(SubSeq(all, 1, old)) = old
          /\ \A i \in 1 .. old : SubSeq(all, 1, old)[i] = all[i]
      BY <1>3, <2>1, SubSeqProperties
    <2> QED
      BY <1>1, <1>3, <1>7, <2>2, SeqEqual
  <1> QED
    BY <1>1, <1>3, <1>4, <1>6, <1>7, <1>9, <1>10, <1>11, <1>12

-----------------------------------------------------------------------------
(* write_chain *)

\* Writing the data to the first n of the clusters `all`, of which `old` form a chain of d.
Task(d, old, all, n, data) ==
  /\ d \in Volumes /\ data \in Seq(Units)
  /\ all \in Seq(Clusters) /\ Len(all) \in Nat
  /\ \A i, j \in 1 .. Len(all) : all[i] = all[j] => i = j
  /\ old \in 0 .. Len(all) /\ n \in 1 .. Len(all)
  /\ Needed(data) \in Nat /\ n <= Needed(data)
  /\ old > 0 => ChainOf(d.fat, all[1], SubSeq(all, 1, old))

\* The volume while this is done: i clusters hold their part of the data, m are linked.
Shape(v, d, old, all, n, data, i, m) ==
  /\ v \in Volumes
  /\ i \in 0 .. n /\ m \in 0 .. Len(all)
  /\ m >= old \/ m = n
  /\ m <= old \/ m <= n
  /\ m > 0 => ChainOf(v.fat, all[1], SubSeq(all, 1, m))
  /\ \A z \in Clusters : (\A k \in 1 .. n : all[k] # z) => v.fat[z] = d.fat[z] /\ v.units[z] = d.units[z]
  /\ \A k \in 1 .. m : v.units[all[k]] = IF k <= i THEN Piece(data, k)
                                         ELSE IF k <= old THEN d.units[all[k]] ELSE Zeros(K)

\* How many are linked after i rounds.
LinkedAfter(old, n, i) == LET j == IF i < n THEN i + 1 ELSE n IN IF j > old THEN j ELSE old

LEMMA TaskFacts ==
  ASSUME NEW d, NEW old, NEW all, NEW n, NEW data, Task(d, old, all, n, data)
  PROVE  /\ \A k \in 1 .. Len(all) : all[k] \in Clusters
         /\ \A k \in 1 .. n : k \in 1 .. Len(all) /\ Piece(data, k) \in Contained
         /\ \A m \in 0 .. Len(all) : /\ SubSeq(all, 1, m) \in Seq(Clusters) /\ Len(SubSeq(all, 1, m)) = m
                                     /\ \A k \in 1 .. m : SubSeq(all, 1, m)[k] = all[k]
  <1>1. \A k \in 1 .. Len(all) : all[k] \in Clusters
    BY ElementOfSeq DEF Task
  <1>2. \A k \in 1 .. n : k \in 1 .. Len(all) /\ k \in 1 .. Needed(data)
    BY DEF Task
  <1>3. \A k \in 1 .. n : Piece(data, k) \in Contained
    BY <1>2, PieceFacts DEF Task
  <1>4. ASSUME NEW m \in 0 .. Len(all)
        PROVE  /\ SubSeq(all, 1, m) \in Seq(Clusters) /\ Len(SubSeq(all, 1, m)) = m
               /\ \A k \in 1 .. m : SubSeq(all, 1, m)[k] = all[k]
    <2>1. m \in Nat /\ m \in Int /\ 1 \in Int /\ m - 1 + 1 = m
      BY DEF Task
    <2>2. \A k \in 1 .. m : all[k] \in Clusters
      BY <1>1, <2>1 DEF Task
    <2>3. /\ SubSeq(all, 1, m) \in Seq(Clusters)
          /\ Len(SubSeq(all, 1, m)) = IF 1 <= m THEN m - 1 + 1 ELSE 0
          /\ \A k \in 1 .. (m - 1 + 1) : SubSeq(all, 1, m)[k] = all[1 + k - 1]
      BY <2>1, <2>2, SubSeqProperties
    <2> QED
      BY <2>1, <2>3
  <1> QED
    BY <1>1, <1>2, <1>3, <1>4

\* The next cluster gets its part of the data.
LEMMA ShapePut ==
  ASSUME NEW d, NEW old, NEW all, NEW n, NEW data, Task(d, old, all, n, data),
         NEW v, NEW i \in 0 .. (n - 1), NEW m, Shape(v, d, old, all, n, data, i, m)
  PROVE  /\ PutCluster(all[i + 1], Piece(data, i + 1)) \in Writes
         /\ Shape(Apply(v, PutCluster(all[i + 1], Piece(data, i + 1))), d, old, all, n, data, i + 1, m)
  <1>1. n \in Nat /\ i + 1 \in 1 .. n /\ i + 1 \in 1 .. Len(all)
    BY DEF Task
  <1>2. PICK c \in Clusters, us \in Contained : c = all[i + 1] /\ us = Piece(data, i + 1)
    BY <1>1, TaskFacts
  <1>3. PICK w : w = Apply(v, PutCluster(c, us))
    OBVIOUS
  <1>4. v \in Volumes
    BY DEF Shape
  <1>5. PutCluster(c, us) \in Writes /\ w \in Volumes /\ w.fat = v.fat /\ w.units = [v.units EXCEPT ![c] = us]
    BY <1>3, <1>4, ApplyPut
  <1>6. w.units[c] = us /\ \A z \in Clusters : z # c => w.units[z] = v.units[z]
    BY <1>4, <1>5 DEF Volumes
  <1>7. ASSUME NEW k \in 1 .. m
        PROVE  w.units[all[k]] = IF k <= i + 1 THEN Piece(data, k)
                                 ELSE IF k <= old THEN d.units[all[k]] ELSE Zeros(K)
    <2>1. m \in 0 .. Len(all) /\ k \in 1 .. Len(all) /\ k \in Nat /\ all[k] \in Clusters
      BY TaskFacts DEF Shape, Task
    <2>2. CASE k = i + 1
      BY <1>2, <1>6, <2>2
    <2>3. CASE k # i + 1
      <3>1. all[k] # c
        BY <1>1, <1>2, <2>1, <2>3 DEF Task
      <3>2. w.units[all[k]] = v.units[all[k]]
        BY <1>6, <2>1, <3>1
      <3>3. k <= i <=> k <= i + 1
        BY <2>1, <2>3
      <3> QED
        BY <3>2, <3>3 DEF Shape
    <2> QED
      BY <2>2, <2>3
  <1>8. \A z \in Clusters : (\A k \in 1 .. n : all[k] # z) => w.fat[z] = d.fat[z] /\ w.units[z] = d.units[z]
    BY <1>1, <1>2, <1>5, <1>6 DEF Shape
  <1>9. Shape(w, d, old, all, n, data, i + 1, m)
    <2>1. i + 1 \in 0 .. n
      BY <1>1
    <2> QED
      BY <1>5, <1>7, <1>8, <2>1 DEF Shape
  <1> QED
    BY <1>2, <1>3, <1>5, <1>9

\* A cluster beyond the linked ones is marked or cleared.
LEMMA ShapeFresh ==
  ASSUME NEW d, NEW old, NEW all, NEW n, NEW data, Task(d, old, all, n, data),
         NEW v, NEW i, NEW m, Shape(v, d, old, all, n, data, i, m), m + 1 \in 1 .. n,
         NEW w \in Volumes,
         \A z \in Clusters : z # all[m + 1] => w.fat[z] = v.fat[z] /\ w.units[z] = v.units[z]
  PROVE  Shape(w, d, old, all, n, data, i, m)
  <1>1. m \in 0 .. Len(all) /\ n \in 1 .. Len(all) /\ m + 1 \in 1 .. Len(all) /\ all[m + 1] \in Clusters
    BY TaskFacts DEF Shape, Task
  <1>2. \A k \in 1 .. m : k \in 1 .. Len(all) /\ all[k] \in Clusters /\ all[k] # all[m + 1]
    BY <1>1, TaskFacts DEF Task
  <1>3. m > 0 => ChainOf(w.fat, all[1], SubSeq(all, 1, m))
    <2> SUFFICES ASSUME m > 0 PROVE ChainOf(w.fat, all[1], SubSeq(all, 1, m))
      OBVIOUS
    <2>1. PICK s : s = SubSeq(all, 1, m)
      OBVIOUS
    <2>2. s \in Seq(Clusters) /\ Len(s) = m /\ \A k \in 1 .. m : s[k] = all[k]
      BY <1>1, <2>1, TaskFacts
    <2>3. ChainOf(v.fat, all[1], s)
      BY <2>1 DEF Shape
    <2>4. \A k \in 1 .. m : w.fat[s[k]] = v.fat[s[k]]
      BY <1>2, <2>2
    <2>5. \A k \in 1 .. (m - 1) : k \in 1 .. m
      BY <1>1
    <2>6. m \in 1 .. m
      BY <1>1
    <2>7. ChainOf(w.fat, all[1], s)
      BY <2>2, <2>3, <2>4, <2>5, <2>6 DEF ChainOf
    <2> QED
      BY <2>1, <2>7
  <1>4. \A z \in Clusters : (\A k \in 1 .. n : all[k] # z) => w.fat[z] = d.fat[z] /\ w.units[z] = d.units[z]
    BY <1>1 DEF Shape
  <1>5. \A k \in 1 .. m : w.units[all[k]] = v.units[all[k]]
    BY <1>2
  <1> QED
    BY <1>3, <1>4, <1>5 DEF Shape

\* The cluster after the linked ones, marked as an end and cleared, is linked.
LEMMA ShapeLink ==
  ASSUME NEW d, NEW old, NEW all, NEW n, NEW data, Task(d, old, all, n, data),
         NEW v, NEW i, NEW m, Shape(v, d, old, all, n, data, i, m), m > 0, m + 1 \in 1 .. n,
         i <= m, old <= m, v.fat[all[m + 1]] = EOC, v.units[all[m + 1]] = Zeros(K)
  PROVE  /\ SetFat(all[m], all[m + 1]) \in Writes
         /\ Shape(Apply(v, SetFat(all[m], all[m + 1])), d, old, all, n, data, i, m + 1)
  <1>1. /\ m \in 1 .. Len(all) /\ n \in 1 .. Len(all) /\ m + 1 \in 1 .. Len(all) /\ i \in Nat /\ old \in Nat
        /\ all[m + 1] \in Clusters /\ all[m] \in Clusters /\ m \in 1 .. n
    BY TaskFacts DEF Shape, Task
  <1>2. PICK c \in Clusters, z \in Clusters : c = all[m] /\ z = all[m + 1]
    BY <1>1
  <1>3. z \in FatValues /\ v \in Volumes
    BY DEF FatValues, Shape
  <1>4. PICK w : w = Apply(v, SetFat(c, z))
    OBVIOUS
  <1>5. SetFat(c, z) \in Writes /\ w \in Volumes /\ w.fat = [v.fat EXCEPT ![c] = z] /\ w.units = v.units
    BY <1>3, <1>4, ApplyFat
  <1>6. PICK s : s = SubSeq(all, 1, m)
    OBVIOUS
  <1>7. s \in Seq(Clusters) /\ Len(s) = m /\ \A k \in 1 .. m : s[k] = all[k]
    BY <1>1, <1>6, TaskFacts
  <1>8. ChainOf(v.fat, all[1], s)
    BY <1>6 DEF Shape
  <1>9. \A k \in 1 .. m : s[k] # z
    <2>1. \A k \in 1 .. m : k \in 1 .. Len(all) /\ k # m + 1
      BY <1>1
    <2>2. \A k \in 1 .. m : all[k] # all[m + 1]
      BY <1>1, <2>1 DEF Task
    <2> QED
      BY <1>2, <1>7, <2>2
  <1>10. s # <<>> /\ s[Len(s)] = c /\ DOMAIN v.fat = Clusters /\ v.fat[z] = EOC
    BY <1>1, <1>2, <1>3, <1>7 DEF Volumes
  <1>11. ChainOf([v.fat EXCEPT ![s[Len(s)]] = z], all[1], Append(s, z))
    BY <1>7, <1>8, <1>9, <1>10, ChainLinked
  <1>12. Append(s, z) = SubSeq(all, 1, m + 1)
    <2>1. PICK t : t = Append(s, z)
      OBVIOUS
    <2>2. t \in Seq(Clusters) /\ Len(t) = m + 1 /\ t[m + 1] = z /\ \A k \in 1 .. m : t[k] = s[k]
      BY <1>7, <2>1, AppendProperties
    <2>3. PICK u : u = SubSeq(all, 1, m + 1)
      OBVIOUS
    <2>4. u \in Seq(Clusters) /\ Len(u) = m + 1 /\ \A k \in 1 .. (m + 1) : u[k] = all[k]
      <3>1. m + 1 \in 0 .. Len(all)
        BY <1>1
      <3> QED
        BY <2>3, <3>1, TaskFacts
    <2>5. ASSUME NEW k \in 1 .. (m + 1) PROVE t[k] = u[k]
      <3>1. k \in 1 .. m \/ k = m + 1
        BY <1>1
      <3> QED
        BY <1>2, <1>7, <2>2, <2>4, <3>1
    <2> QED
      BY <2>1, <2>2, <2>3, <2>4, <2>5, SeqEqual
  <1>13. ChainOf(w.fat, all[1], SubSeq(all, 1, m + 1))
    BY <1>5, <1>10, <1>11, <1>12
  <1>14. ASSUME NEW x \in Clusters, \A k \in 1 .. n : all[k] # x
         PROVE  w.fat[x] = d.fat[x] /\ w.units[x] = d.units[x]
    <2>1. x # c
      BY <1>1, <1>2, <1>14
    <2>2. w.fat[x] = v.fat[x]
      BY <1>3, <1>5, <2>1 DEF Volumes
    <2> QED
      BY <1>5, <1>14, <2>2 DEF Shape
  <1>15. ASSUME NEW k \in 1 .. (m + 1)
         PROVE  w.units[all[k]] = IF k <= i THEN Piece(data, k)
                                  ELSE IF k <= old THEN d.units[all[k]] ELSE Zeros(K)
    <2>1. k \in 1 .. m \/ k = m + 1
      BY <1>1
    <2>2. CASE k \in 1 .. m
      BY <1>5, <2>2 DEF Shape
    <2>3. CASE k = m + 1
      <3>1. ~(k <= i) /\ ~(k <= old)
        BY <1>1, <2>3
      <3> QED
        BY <1>5, <2>3, <3>1
    <2> QED
      BY <2>1, <2>2, <2>3
  <1>16. m + 1 \in 0 .. Len(all) /\ m + 1 >= old /\ m + 1 <= n
    BY <1>1
  <1>17. Shape(w, d, old, all, n, data, i, m + 1)
    BY <1>5, <1>13, <1>14, <1>15, <1>16 DEF Shape
  <1> QED
    BY <1>2, <1>4, <1>5, <1>17

\* The last cluster written becomes the end of the chain.
LEMMA ShapeCut ==
  ASSUME NEW d, NEW old, NEW all, NEW n, NEW data, Task(d, old, all, n, data),
         NEW v, NEW m, Shape(v, d, old, all, n, data, n, m), n <= m
  PROVE  /\ SetFat(all[n], EOC) \in Writes
         /\ Shape(Apply(v, SetFat(all[n], EOC)), d, old, all, n, data, n, n)
  <1>1. /\ m \in 1 .. Len(all) /\ n \in 1 .. Len(all) /\ n \in 1 .. m /\ n \in 1 .. n
        /\ all[n] \in Clusters
    BY TaskFacts DEF Shape, Task
  <1>2. PICK c \in Clusters : c = all[n]
    BY <1>1
  <1>3. EOC \in FatValues /\ v \in Volumes
    BY DEF FatValues, Shape
  <1>4. PICK w : w = Apply(v, SetFat(c, EOC))
    OBVIOUS
  <1>5. SetFat(c, EOC) \in Writes /\ w \in Volumes /\ w.fat = [v.fat EXCEPT ![c] = EOC] /\ w.units = v.units
    BY <1>3, <1>4, ApplyFat
  <1>6. PICK s : s = SubSeq(all, 1, m)
    OBVIOUS
  <1>7. s \in Seq(Clusters) /\ Len(s) = m /\ \A k \in 1 .. m : s[k] = all[k]
    BY <1>1, <1>6, TaskFacts
  <1>8. ChainOf(v.fat, all[1], s)
    BY <1>1, <1>6 DEF Shape
  <1>9. s[n] = c /\ DOMAIN v.fat = Clusters
    BY <1>1, <1>2, <1>3, <1>7 DEF Volumes
  <1>10. ChainOf([v.fat EXCEPT ![s[n]] = EOC], all[1], SubSeq(s, 1, n))
    BY <1>1, <1>7, <1>8, <1>9, ChainCut
  <1>11. SubSeq(s, 1, n) = SubSeq(all, 1, n)
    <2>1. PICK u : u = SubSeq(all, 1, n)
      OBVIOUS
    <2>2. u \in Seq(Clusters) /\ Len(u) = n /\ \A k \in 1 .. n : u[k] = all[k]
      <3>1. n \in 0 .. Len(all)
        BY <1>1
      <3> QED
        BY <2>1, <3>1, TaskFacts
    <2>3. PICK t : t = SubSeq(s, 1, n)
      OBVIOUS
    <2>4. \A k \in 1 .. n : s[k] \in Clusters /\ k \in 1 .. m
      BY <1>1, <1>7, ElementOfSeq
    <2>5. t \in Seq(Clusters) /\ Len(t) = n /\ \A k \in 1 .. n : t[k] = s[k]
      <3>1. n \in Int /\ 1 <= n /\ n - 1 + 1 = n /\ \A k \in 1 .. n : 1 + k - 1 = k
        BY <1>1
      <3> QED
        BY <2>3, <2>4, <3>1, SubSeqProperties
    <2> QED
      BY <1>7, <2>1, <2>2, <2>3, <2>4, <2>5, SeqEqual
  <1>12. ChainOf(w.fat, all[1], SubSeq(all, 1, n))
    BY <1>5, <1>9, <1>10, <1>11
  <1>13. ASSUME NEW x \in Clusters, \A k \in 1 .. n : all[k] # x
         PROVE  w.fat[x] = d.fat[x] /\ w.units[x] = d.units[x]
    <2>1. x # c
      BY <1>1, <1>2, <1>13
    <2>2. w.fat[x] = v.fat[x]
      BY <1>3, <1>5, <2>1 DEF Volumes
    <2> QED
      BY <1>5, <1>13, <2>2 DEF Shape
  <1>14. \A k \in 1 .. n : k \in 1 .. m
    BY <1>1
  <1>15. \A k \in 1 .. n : w.units[all[k]] = IF k <= n THEN Piece(data, k)
                                  ELSE IF k <= old THEN d.units[all[k]] ELSE Zeros(K)
    BY <1>5, <1>14 DEF Shape
  <1>16. n \in 0 .. Len(all) /\ n \in 0 .. n
    BY <1>1
  <1>17. Shape(w, d, old, all, n, data, n, n)
    BY <1>5, <1>12, <1>13, <1>15, <1>16 DEF Shape
  <1> QED
    BY <1>2, <1>4, <1>5, <1>17

\* The writes of round i + 1.
Round(old, all, n, data, i) ==
  <<PutCluster(all[i + 1], Piece(data, i + 1))>>
  \o IF i + 1 >= old /\ i + 1 < n THEN extend_chain(all[i + 1], all[i + 2]) ELSE <<>>

LEMMA OneWrite ==
  ASSUME NEW d \in Volumes, NEW w \in Writes
  PROVE  /\ <<w>> \in Seq(Writes) /\ Len(<<w>>) = 1 /\ <<w>>[1] = w
         /\ Stage(d, <<w>>, 0) = d /\ Stage(d, <<w>>, 1) = Apply(d, w) /\ Run(d, <<w>>) = Apply(d, w)
  <1>1. PICK ws : ws = <<w>>
    OBVIOUS
  <1>2. ws \in Seq(Writes) /\ Len(ws) = 1 /\ ws[1] = w
    BY <1>1
  <1>3. Stage(d, ws, 0) = d /\ \A k \in 1 .. 1 : Stage(d, ws, k) = Apply(Stage(d, ws, k - 1), ws[k])
    BY <1>2, StageFacts
  <1>4. Stage(d, ws, 1) = Apply(Stage(d, ws, 1 - 1), ws[1]) /\ 1 - 1 = 0
    BY <1>3
  <1> QED
    BY <1>1, <1>2, <1>3, <1>4 DEF Run

LEMMA AllocateFacts ==
  ASSUME NEW d \in Volumes, NEW c \in Clusters
  PROVE  /\ Allocate(c) \in Seq(Writes) /\ Len(Allocate(c)) = 2
         /\ Allocate(c)[1] = SetFat(c, EOC) /\ Allocate(c)[2] = PutCluster(c, Zeros(K))
         /\ Stage(d, Allocate(c), 0) = d
         /\ Stage(d, Allocate(c), 1) = [fat |-> [d.fat EXCEPT ![c] = EOC], units |-> d.units]
         /\ Stage(d, Allocate(c), 2) = [fat |-> [d.fat EXCEPT ![c] = EOC],
                                        units |-> [d.units EXCEPT ![c] = Zeros(K)]]
         /\ Run(d, Allocate(c)) = Stage(d, Allocate(c), 2)
  <1>1. EOC \in FatValues /\ Zeros(K) \in Contained
    BY ZerosFacts DEF FatValues
  <1>2. SetFat(c, EOC) \in Writes /\ PutCluster(c, Zeros(K)) \in Writes
    BY <1>1, ApplyFat, ApplyPut
  <1>3. PICK ws : ws = Allocate(c)
    OBVIOUS
  <1>4. ws \in Seq(Writes) /\ Len(ws) = 2 /\ ws[1] = SetFat(c, EOC) /\ ws[2] = PutCluster(c, Zeros(K))
    BY <1>2, <1>3 DEF Allocate
  <1>5. /\ Stage(d, ws, 0) = d
        /\ \A k \in 1 .. 2 : Stage(d, ws, k) = Apply(Stage(d, ws, k - 1), ws[k])
    BY <1>4, StageFacts
  <1>6. Stage(d, ws, 1) = Apply(d, SetFat(c, EOC))
    <2>1. Stage(d, ws, 1) = Apply(Stage(d, ws, 1 - 1), ws[1]) /\ 1 - 1 = 0
      BY <1>5
    <2> QED
      BY <1>4, <1>5, <2>1
  <1>7. PICK v \in Volumes : /\ v = Stage(d, ws, 1) /\ v = [fat |-> [d.fat EXCEPT ![c] = EOC], units |-> d.units]
                             /\ v.fat = [d.fat EXCEPT ![c] = EOC] /\ v.units = d.units
    BY <1>1, <1>6, ApplyFat
  <1>8. Stage(d, ws, 2) = Apply(v, PutCluster(c, Zeros(K)))
    <2>1. Stage(d, ws, 2) = Apply(Stage(d, ws, 2 - 1), ws[2]) /\ 2 - 1 = 1
      BY <1>5
    <2> QED
      BY <1>4, <1>7, <2>1
  <1>9. Stage(d, ws, 2) = [fat |-> v.fat, units |-> [v.units EXCEPT ![c] = Zeros(K)]]
    BY <1>1, <1>8, ApplyPut
  <1>10. Run(d, ws) = Stage(d, ws, 2)
    BY <1>4 DEF Run
  <1> QED
    BY <1>3, <1>4, <1>5, <1>7, <1>9, <1>10

\* A round: what the volume is after each of its writes.
LEMMA RoundShape ==
  ASSUME NEW d, NEW old, NEW all, NEW n, NEW data, Task(d, old, all, n, data),
         NEW i \in 0 .. (n - 1), NEW v, Shape(v, d, old, all, n, data, i, LinkedAfter(old, n, i)),
         NEW b, b = Round(old, all, n, data, i)
  PROVE  /\ b \in Seq(Writes) /\ Len(b) >= 1 /\ b[1] = PutCluster(all[i + 1], Piece(data, i + 1))
         /\ \A k \in 1 .. Len(b) : \E m : Shape(Stage(v, b, k), d, old, all, n, data, i + 1, m)
         /\ Shape(Run(v, b), d, old, all, n, data, i + 1, LinkedAfter(old, n, i + 1))
  <1> DEFINE put == PutCluster(all[i + 1], Piece(data, i + 1))
             m == LinkedAfter(old, n, i)
  <1>1. /\ n \in Nat /\ n # 0 /\ old \in Nat /\ i \in Nat /\ i + 1 \in 1 .. n /\ m \in Nat
        /\ v \in Volumes
    BY DEF Task, LinkedAfter, Shape
  <1>2. put \in Writes /\ Shape(Apply(v, put), d, old, all, n, data, i + 1, m)
    BY ShapePut
  <1>3. PICK v1 \in Volumes : v1 = Apply(v, put)
    BY <1>2 DEF Shape
  <1> HIDE DEF put
  <1>4. CASE ~(i + 1 >= old /\ i + 1 < n)
    <2>1. b = <<put>>
      <3>1. <<put>> \in Seq(Writes)
        BY <1>2
      <3>2. b = <<put>> \o <<>>
        BY <1>4 DEF Round, put
      <3> QED
        BY <3>1, <3>2, ConcatEmptySeq
    <2>2. b \in Seq(Writes) /\ Len(b) = 1 /\ b[1] = put
      BY <1>1, <1>2, <2>1, OneWrite
    <2>3. Stage(v, b, 1) = v1 /\ Run(v, b) = v1
      BY <1>1, <1>2, <1>3, <2>1, OneWrite
    <2>4. LinkedAfter(old, n, i + 1) = m
      BY <1>1, <1>4 DEF LinkedAfter
    <2>5. \A k \in 1 .. Len(b) : k = 1
      BY <2>2
    <2> QED
      BY <1>2, <1>3, <2>2, <2>3, <2>4, <2>5 DEF put
  <1>5. CASE i + 1 >= old /\ i + 1 < n
    <2>1. m = i + 1 /\ LinkedAfter(old, n, i + 1) = i + 2 /\ i + 2 \in 1 .. n
      BY <1>1, <1>5 DEF LinkedAfter
    <2>2. PICK c \in Clusters, z \in Clusters : c = all[i + 1] /\ z = all[i + 2]
      BY <1>1, <2>1, TaskFacts
    <2>3. PICK x \in Seq(Writes) : x = extend_chain(c, z) /\ Len(x) = 3 /\ x[1] = SetFat(z, EOC)
                                 /\ x[2] = PutCluster(z, Zeros(K)) /\ x[3] = SetFat(c, z)
      <3>1. SetFat(c, z) \in Writes
        BY <1>3, ApplyFat DEF FatValues
      <3>2. PICK a \in Seq(Writes) : a = Allocate(z) /\ Len(a) = 2 /\ a[1] = SetFat(z, EOC) /\ a[2] = PutCluster(z, Zeros(K))
        BY <1>3, AllocateFacts
      <3>3. PICK x : x = Append(a, SetFat(c, z))
        OBVIOUS
      <3>4. /\ x \in Seq(Writes) /\ Len(x) = Len(a) + 1
            /\ \A k \in 1 .. Len(a) : x[k] = a[k]
            /\ x[Len(a) + 1] = SetFat(c, z)
        BY <3>1, <3>3, AppendProperties
      <3>5. 2 + 1 = 3 /\ 1 \in 1 .. 2 /\ 2 \in 1 .. 2
        OBVIOUS
      <3> QED
        BY <3>2, <3>3, <3>4, <3>5 DEF extend_chain
    <2>4. PICK p \in Seq(Writes) : p = <<put>> /\ Len(p) = 1 /\ p[1] = put
      BY <1>1, <1>2, OneWrite
    <2>5. b = p \o x
      BY <1>5, <2>2, <2>3, <2>4 DEF Round, put
    <2>6. /\ b \in Seq(Writes) /\ Len(b) = 4 /\ b[1] = put /\ b[2] = SetFat(z, EOC)
          /\ b[3] = PutCluster(z, Zeros(K)) /\ b[4] = SetFat(c, z)
      <3>1. /\ b \in Seq(Writes) /\ Len(b) = Len(p) + Len(x)
            /\ \A k \in 1 .. (Len(p) + Len(x)) : b[k] = IF k <= Len(p) THEN p[k] ELSE x[k - Len(p)]
        BY <2>5, ConcatProperties
      <3>2. b[1] = p[1] /\ b[2] = x[1] /\ b[3] = x[2] /\ b[4] = x[3] /\ Len(b) = 4
        BY <2>3, <2>4, <3>1
      <3> QED
        BY <2>3, <2>4, <3>1, <3>2
    <2>7. /\ Stage(v, b, 0) = v
          /\ \A k \in 1 .. 4 : Stage(v, b, k) = Apply(Stage(v, b, k - 1), b[k])
      <3>1. /\ Stage(v, b, 0) = v
            /\ \A k \in 1 .. Len(b) : Stage(v, b, k) = Apply(Stage(v, b, k - 1), b[k])
        BY <1>1, <2>6, StageFacts
      <3> QED
        BY <2>6, <3>1
    <2>8. Stage(v, b, 1) = v1
      <3>1. Stage(v, b, 1) = Apply(Stage(v, b, 1 - 1), b[1]) /\ 1 - 1 = 0
        BY <2>7
      <3> QED
        BY <1>3, <2>6, <2>7, <3>1
    <2>9. PICK v2 \in Volumes : /\ v2 = Stage(v, b, 2) /\ v2.fat = [v1.fat EXCEPT ![z] = EOC]
                                /\ v2.units = v1.units
      <3>1. Stage(v, b, 2) = Apply(Stage(v, b, 2 - 1), b[2]) /\ 2 - 1 = 1
        BY <2>7
      <3>2. Stage(v, b, 2) = Apply(v1, SetFat(z, EOC))
        BY <2>6, <2>8, <3>1
      <3> QED
        BY <3>2, ApplyFat DEF FatValues
    <2>10. PICK v3 \in Volumes : /\ v3 = Stage(v, b, 3) /\ v3.fat = v2.fat
                                 /\ v3.units = [v2.units EXCEPT ![z] = Zeros(K)]
      <3>1. Stage(v, b, 3) = Apply(Stage(v, b, 3 - 1), b[3]) /\ 3 - 1 = 2
        BY <2>7
      <3>2. Stage(v, b, 3) = Apply(v2, PutCluster(z, Zeros(K)))
        BY <2>6, <2>9, <3>1
      <3> QED
        BY <3>2, ApplyPut, ZerosFacts
    <2>11. Stage(v, b, 4) = Apply(v3, SetFat(c, z))
      <3>1. Stage(v, b, 4) = Apply(Stage(v, b, 4 - 1), b[4]) /\ 4 - 1 = 3
        BY <2>7
      <3> QED
        BY <2>6, <2>10, <3>1
    <2>12. Shape(v1, d, old, all, n, data, i + 1, i + 1)
      BY <1>2, <1>3, <2>1
    <2>13. (i + 1) + 1 = i + 2
      BY <1>1
    <2>14. \A y \in Clusters : y # z => v2.fat[y] = v1.fat[y] /\ v2.units[y] = v1.units[y]
      BY <2>9 DEF Volumes
    <2>15. Shape(v2, d, old, all, n, data, i + 1, i + 1)
      BY <2>1, <2>2, <2>12, <2>13, <2>14, ShapeFresh
    <2>16. \A y \in Clusters : y # z => v3.fat[y] = v2.fat[y] /\ v3.units[y] = v2.units[y]
      BY <2>9, <2>10 DEF Volumes
    <2>17. Shape(v3, d, old, all, n, data, i + 1, i + 1)
      BY <2>1, <2>2, <2>13, <2>15, <2>16, ShapeFresh
    <2>18. v3.fat[z] = EOC /\ v3.units[z] = Zeros(K)
      BY <2>9, <2>10 DEF Volumes
    <2>19. Shape(Apply(v3, SetFat(c, z)), d, old, all, n, data, i + 1, i + 2)
      <3>1. PICK j \in Nat : j = i + 1 /\ j > 0 /\ j + 1 = i + 2 /\ j + 1 \in 1 .. n /\ old <= j
        BY <1>1, <1>5, <2>1
      <3>2. Shape(v3, d, old, all, n, data, j, j) /\ j <= j
        BY <2>17, <3>1
      <3>3. v3.fat[all[j + 1]] = EOC /\ v3.units[all[j + 1]] = Zeros(K)
        BY <2>2, <2>18, <3>1
      <3>4. Shape(Apply(v3, SetFat(all[j], all[j + 1])), d, old, all, n, data, j, j + 1)
        BY <3>1, <3>2, <3>3, ShapeLink
      <3> QED
        BY <2>2, <3>1, <3>4
    <2>20. Run(v, b) = Stage(v, b, 4)
      BY <2>6 DEF Run
    <2>21. \A k \in 1 .. Len(b) : k = 1 \/ k = 2 \/ k = 3 \/ k = 4
      BY <2>6
    <2> QED
      BY <2>1, <2>6, <2>8, <2>9, <2>10, <2>11, <2>12, <2>15, <2>17, <2>19, <2>20, <2>21 DEF put
  <1> QED
    BY <1>4, <1>5

LEMMA RoundTyped ==
  ASSUME NEW d, NEW old, NEW all, NEW n, NEW data, Task(d, old, all, n, data),
         NEW i \in 0 .. (n - 1)
  PROVE  Round(old, all, n, data, i) \in Seq(Writes)
  <1>1. n \in Nat /\ i \in Nat /\ i + 1 \in 1 .. n /\ d \in Volumes
    BY DEF Task
  <1>2. PICK c \in Clusters, us \in Contained : c = all[i + 1] /\ us = Piece(data, i + 1)
    BY <1>1, TaskFacts
  <1>3. PICK p \in Seq(Writes) : p = <<PutCluster(all[i + 1], Piece(data, i + 1))>>
    BY <1>1, <1>2, ApplyPut, OneWrite
  <1>4. CASE ~(i + 1 >= old /\ i + 1 < n)
    BY <1>3, <1>4, ConcatEmptySeq DEF Round
  <1>5. CASE i + 1 >= old /\ i + 1 < n
    <2>1. i + 2 \in 1 .. n
      BY <1>1, <1>5
    <2>2. PICK z \in Clusters : z = all[i + 2]
      BY <2>1, TaskFacts
    <2>3. Allocate(z) \in Seq(Writes) /\ SetFat(c, z) \in Writes
      BY <1>1, AllocateFacts, ApplyFat DEF FatValues
    <2>4. extend_chain(all[i + 1], all[i + 2]) \in Seq(Writes)
      BY <1>2, <2>2, <2>3, AppendProperties DEF extend_chain
    <2> QED
      BY <1>3, <1>5, <2>4, ConcatProperties DEF Round
  <1> QED
    BY <1>4, <1>5

\* The writes of the loop's first i rounds, and how they grow round after round.
FirstRounds(old, all, n, data, i) == Rounds(old, SubSeq(all, 1, n), data, i)

LEMMA RoundsFacts ==
  ASSUME NEW d, NEW old, NEW all, NEW n, NEW data, Task(d, old, all, n, data)
  PROVE  /\ old = 0 => FirstRounds(old, all, n, data, 0) = Allocate(all[1])
         /\ old # 0 => FirstRounds(old, all, n, data, 0) = <<>>
         /\ \A i \in 1 .. n : FirstRounds(old, all, n, data, i)
                                = FirstRounds(old, all, n, data, i - 1) \o Round(old, all, n, data, i - 1)
         /\ \A i \in 0 .. n : FirstRounds(old, all, n, data, i) \in Seq(Writes)
  <1>0. PICK cl : cl = SubSeq(all, 1, n)
    OBVIOUS
  <1> DEFINE A == Seq(Writes)
             base == IF old = 0 THEN Allocate(cl[1]) ELSE <<>>
             Put(i) == <<PutCluster(cl[i], Piece(data, i))>>
             Ext(i) == IF i >= old /\ i < Len(cl) THEN extend_chain(cl[i], cl[i + 1]) ELSE <<>>
             step == [i \in 1 .. Len(cl) |-> [s \in A |-> s \o Put(i) \o Ext(i)]]
             Is(f) == f = [i \in 0 .. Len(cl) |->
                             IF i = 0 THEN IF old = 0 THEN Allocate(cl[1]) ELSE <<>>
                             ELSE f[i - 1] \o <<PutCluster(cl[i], Piece(data, i))>>
                                  \o IF i >= old /\ i < Len(cl) THEN extend_chain(cl[i], cl[i + 1]) ELSE <<>>]
             done == CHOOSE f : Is(f)
  <1>1. n \in Nat /\ n \in 1 .. Len(all) /\ n \in 0 .. Len(all) /\ 1 \in 1 .. n /\ d \in Volumes
    BY DEF Task
  <1>2. cl \in Seq(Clusters) /\ Len(cl) = n /\ \A k \in 1 .. n : cl[k] = all[k]
    BY <1>0, <1>1, TaskFacts
  <1>3. base \in A
    <2>1. all[1] \in Clusters
      BY <1>1, TaskFacts
    <2>2. Allocate(cl[1]) \in A
      BY <1>1, <1>2, <2>1, AllocateFacts
    <2>3. <<>> \in A
      OBVIOUS
    <2> QED
      BY <2>2, <2>3
  <1>4. ASSUME NEW i \in 1 .. n
        PROVE  /\ Put(i) \in A /\ Ext(i) \in A
               /\ Put(i) \o Ext(i) = Round(old, all, n, data, i - 1)
    <2>1. i - 1 \in 0 .. (n - 1) /\ (i - 1) + 1 = i /\ (i - 1) + 2 = i + 1
      BY <1>1
    <2>2. PICK c \in Clusters, us \in Contained : c = cl[i] /\ us = Piece(data, i)
      BY <1>2, TaskFacts
    <2>3. Put(i) \in A
      BY <1>1, <2>2, ApplyPut, OneWrite
    <2>4. CASE i >= old /\ i < n
      <3>1. i + 1 \in 1 .. n
        BY <1>1, <2>4
      <3>2. PICK z \in Clusters : z = cl[i + 1] /\ z = all[i + 1]
        BY <1>2, <3>1, TaskFacts
      <3>3. Allocate(z) \in Seq(Writes) /\ SetFat(c, z) \in Writes
        BY <1>1, AllocateFacts, ApplyFat DEF FatValues
      <3>4. extend_chain(cl[i], cl[i + 1]) \in Seq(Writes)
        BY <2>2, <3>2, <3>3, AppendProperties DEF extend_chain
      <3>5. Ext(i) \in A
        BY <1>2, <2>4, <3>4
      <3>6. Put(i) \o Ext(i) = Round(old, all, n, data, i - 1)
        BY <1>2, <2>1, <2>4, <3>1 DEF Round
      <3> QED
        BY <2>3, <3>5, <3>6
    <2>5. CASE ~(i >= old /\ i < n)
      <3>1. Ext(i) = <<>> /\ Ext(i) \in A
        BY <1>2, <2>5
      <3>2. Put(i) \o Ext(i) = Round(old, all, n, data, i - 1)
        BY <1>2, <2>1, <2>5, <3>1 DEF Round
      <3> QED
        BY <2>3, <3>1, <3>2
    <2> QED
      BY <2>4, <2>5
  <1> HIDE DEF Put, Ext
  <1>5. \A i \in 1 .. n : step[i] \in [A -> A]
    <2>1. \A i \in 1 .. n : \A s \in A : s \o Put(i) \o Ext(i) \in A
      BY <1>4, ConcatProperties
    <2> QED
      BY <1>2, <2>1
  <1>6. PICK g : IsIteration(g, n, A, base, step)
    <2> HIDE DEF A, step, base
    <2> QED
      BY <1>1, <1>3, <1>5, IterationExists
  <1>7. /\ g = [i \in 0 .. n |-> IF i = 0 THEN base ELSE step[i][g[i - 1]]]
        /\ \A i \in 1 .. n : g[i - 1] \in A
    <2> HIDE DEF step, A, base
    <2> QED
      BY <1>1, <1>6, IterationRecurs
  <1>8. \A i \in 1 .. n : step[i][g[i - 1]] = g[i - 1] \o Put(i) \o Ext(i)
    BY <1>2, <1>7
  <1>9. \A i \in 0 .. n : i # 0 => i \in 1 .. n
    BY <1>1
  <1>10. g = [i \in 0 .. n |-> IF i = 0 THEN base ELSE g[i - 1] \o Put(i) \o Ext(i)]
    <2> HIDE DEF step, base
    <2> QED
      BY <1>7, <1>8, <1>9
  <1>11. Is(done)
    <2>1. Is(g)
      BY <1>2, <1>10, Zenon DEF Put, Ext
    <2> HIDE DEF Is
    <2> QED
      BY <2>1
  <1>12. \A i : FirstRounds(old, all, n, data, i) = done[i]
    BY <1>0 DEF Rounds, FirstRounds
  <1> HIDE DEF done, step
  <1>13. done[0] = IF old = 0 THEN Allocate(all[1]) ELSE <<>>
    <2>1. 0 \in 0 .. Len(cl)
      BY <1>1, <1>2
    <2>2. done[0] = IF old = 0 THEN Allocate(cl[1]) ELSE <<>>
      BY <1>11, <2>1
    <2> QED
      BY <1>1, <1>2, <2>2
  <1>14. ASSUME NEW i \in 1 .. n PROVE done[i] = done[i - 1] \o Put(i) \o Ext(i)
    <2>1. i \in 0 .. Len(cl) /\ i # 0
      BY <1>1, <1>2
    <2> QED
      BY <1>11, <2>1, Zenon DEF Put, Ext
  <1> HIDE DEF Is
  <1> DEFINE S == {i \in 0 .. n : done[i] \in A}
  <1>15. 0 \in S
    <2>1. cl[1] = all[1] /\ 0 \in 0 .. n
      BY <1>1, <1>2
    <2>2. done[0] \in A
      BY <1>3, <1>13, <2>1
    <2> QED
      BY <2>1, <2>2
  <1>16. ASSUME NEW i \in 0 .. (n - 1), i \in S PROVE i + 1 \in S
    <2>1. i + 1 \in 1 .. n /\ i + 1 \in 0 .. n /\ (i + 1) - 1 = i
      BY <1>1
    <2>2. done[i + 1] = done[i] \o Put(i + 1) \o Ext(i + 1)
      BY <1>14, <2>1
    <2>3. Put(i + 1) \in A /\ Ext(i + 1) \in A /\ done[i] \in A
      BY <1>4, <1>16, <2>1
    <2>4. done[i] \o Put(i + 1) \o Ext(i + 1) \in A
      BY <2>3, ConcatProperties
    <2> QED
      BY <2>1, <2>2, <2>4
  <1>17. \A i \in 0 .. n : done[i] \in A
    <2>1. \A i \in 0 .. n : i \in S
      <3> HIDE DEF S
      <3> QED
        BY <1>1, <1>15, <1>16, UpTo
    <2> QED
      BY <2>1
  <1>18. ASSUME NEW i \in 1 .. n PROVE done[i] = done[i - 1] \o Round(old, all, n, data, i - 1)
    <2>1. i - 1 \in 0 .. n
      BY <1>1
    <2>2. PICK a \in Seq(Writes), b \in Seq(Writes), c \in Seq(Writes) : a = done[i - 1] /\ b = Put(i) /\ c = Ext(i)
      BY <1>4, <1>17, <2>1
    <2>3. a \o b \o c = a \o (b \o c)
      BY ConcatAssociative
    <2> QED
      BY <1>4, <1>14, <2>2, <2>3
  <1> QED
    BY <1>12, <1>13, <1>17, <1>18

\* Every volume on the way of the writes ws has the shape of the task, with at most i
\* clusters written, and the part of a cluster that is not written yet is still to come.
Progress(d, old, all, n, data, ws, i) ==
  \A k \in 0 .. Len(ws) : \E a \in 0 .. i : \E m :
     /\ Shape(Stage(d, ws, k), d, old, all, n, data, a, m)
     /\ \A q \in (a + 1) .. i : \E r \in (k + 1) .. Len(ws) : ws[r] = PutCluster(all[q], Piece(data, q))

\* Before the first round: a file without clusters gets one.
LEMMA LoopBegins ==
  ASSUME NEW d, NEW old, NEW all, NEW n, NEW data, Task(d, old, all, n, data),
         NEW ws, old = 0 => ws = Allocate(all[1]), old # 0 => ws = <<>>
  PROVE  /\ ws \in Seq(Writes)
         /\ Progress(d, old, all, n, data, ws, 0)
         /\ Shape(Run(d, ws), d, old, all, n, data, 0, LinkedAfter(old, n, 0))
  <1>1. d \in Volumes /\ n \in 1 .. Len(all) /\ Len(all) \in Nat /\ 1 \in 1 .. n /\ 1 \in 1 .. Len(all) /\ n \in Nat
        /\ old \in Nat /\ old <= Len(all)
    BY DEF Task
  <1>2. \A a \in 0 .. 0 : \A q \in (a + 1) .. 0 : FALSE
    OBVIOUS
  <1>3. CASE old # 0
    <2>1. Shape(d, d, old, all, n, data, 0, old)
      <3>1. old > 0 /\ old \in 0 .. Len(all) /\ \A k \in 1 .. old : ~(k <= 0) /\ k <= old
        BY <1>1, <1>3
      <3> QED
        BY <1>1, <3>1 DEF Shape, Task
    <2>2. ws = <<>> /\ ws \in Seq(Writes) /\ Len(ws) = 0
      BY <1>3
    <2>3. Stage(d, ws, 0) = d /\ Run(d, ws) = d
      BY <1>1, <2>2, StageFacts DEF Run
    <2>4. LinkedAfter(old, n, 0) = old
      BY <1>1, <1>3 DEF LinkedAfter
    <2>5. \A k \in 0 .. Len(ws) : k = 0
      BY <2>2
    <2>6. 0 \in 0 .. 0
      OBVIOUS
    <2> QED
      BY <1>2, <2>1, <2>2, <2>3, <2>4, <2>5, <2>6 DEF Progress
  <1>4. CASE old = 0
    <2>1. PICK c \in Clusters : c = all[1]
      BY <1>1, TaskFacts
    <2>2. ws = Allocate(c)
      BY <1>4, <2>1
    <2>3. /\ ws \in Seq(Writes) /\ Len(ws) = 2
          /\ Stage(d, ws, 0) = d
          /\ Stage(d, ws, 1) = [fat |-> [d.fat EXCEPT ![c] = EOC], units |-> d.units]
          /\ Stage(d, ws, 2) = [fat |-> [d.fat EXCEPT ![c] = EOC], units |-> [d.units EXCEPT ![c] = Zeros(K)]]
          /\ Run(d, ws) = Stage(d, ws, 2)
      BY <1>1, <2>2, AllocateFacts
    <2>4. Stage(d, ws, 1) \in Volumes /\ Stage(d, ws, 2) \in Volumes
      <3>1. \A k \in 0 .. Len(ws) : Stage(d, ws, k) \in Volumes
        BY <1>1, <2>3, StageFacts
      <3> QED
        BY <2>3, <3>1
    <2>5. Shape(d, d, old, all, n, data, 0, 0)
      <3>1. 0 \in 0 .. Len(all) /\ 0 \in 0 .. n /\ 0 >= old
        BY <1>1, <1>4
      <3> QED
        BY <1>1, <1>4, <3>1 DEF Shape
    <2>6. PICK v1 \in Volumes : v1 = Stage(d, ws, 1) /\ v1.fat = [d.fat EXCEPT ![c] = EOC] /\ v1.units = d.units
      BY <2>3, <2>4
    <2>7. PICK v2 \in Volumes : v2 = Stage(d, ws, 2) /\ v2.fat = [d.fat EXCEPT ![c] = EOC]
                             /\ v2.units = [d.units EXCEPT ![c] = Zeros(K)]
      BY <2>3, <2>4
    <2>8. /\ \A z \in Clusters : z # c => v1.fat[z] = d.fat[z] /\ v1.units[z] = d.units[z]
          /\ \A z \in Clusters : z # c => v2.fat[z] = d.fat[z] /\ v2.units[z] = d.units[z]
          /\ v2.fat[c] = EOC /\ v2.units[c] = Zeros(K)
      BY <1>1, <2>6, <2>7 DEF Volumes
    <2>9. Shape(v1, d, old, all, n, data, 0, 0)
      <3>1. 0 + 1 \in 1 .. n /\ 0 + 1 = 1
        BY <1>1
      <3> QED
        BY <2>1, <2>5, <2>8, <3>1, ShapeFresh
    <2>10. Shape(v2, d, old, all, n, data, 0, 1)
      <3>1. SubSeq(all, 1, 1) = <<c>>
        <4>1. PICK u : u = SubSeq(all, 1, 1)
          OBVIOUS
        <4>2. u \in Seq(Clusters) /\ Len(u) = 1 /\ \A k \in 1 .. 1 : u[k] = all[k]
          <5>1. 1 \in 0 .. Len(all)
            BY <1>1
          <5> QED
            BY <4>1, <5>1, TaskFacts
        <4>3. <<c>> \in Seq(Clusters) /\ Len(<<c>>) = 1 /\ <<c>>[1] = c
          OBVIOUS
        <4>4. \A k \in 1 .. 1 : u[k] = <<c>>[k]
          BY <2>1, <4>2, <4>3
        <4> QED
          BY <4>1, <4>2, <4>3, <4>4, SeqEqual
      <3>2. ChainOf(v2.fat, c, <<c>>)
        BY <2>8 DEF ChainOf
      <3>3. ChainOf(v2.fat, all[1], SubSeq(all, 1, 1))
        BY <2>1, <3>1, <3>2
      <3>4. \A z \in Clusters : (\A k \in 1 .. n : all[k] # z) => v2.fat[z] = d.fat[z] /\ v2.units[z] = d.units[z]
        BY <1>1, <2>1, <2>8
      <3>5. \A k \in 1 .. 1 : v2.units[all[k]] = IF k <= 0 THEN Piece(data, k)
                                  ELSE IF k <= old THEN d.units[all[k]] ELSE Zeros(K)
        BY <1>4, <2>1, <2>8
      <3>6. 0 \in 0 .. n /\ 1 \in 0 .. Len(all) /\ 1 >= old /\ 1 <= n
        BY <1>1, <1>4
      <3> QED
        BY <3>3, <3>4, <3>5, <3>6 DEF Shape
    <2>11. LinkedAfter(old, n, 0) = 1
      BY <1>1, <1>4 DEF LinkedAfter
    <2>12. \A k \in 0 .. Len(ws) : k = 0 \/ k = 1 \/ k = 2
      <3>1. \A k \in 0 .. 2 : k = 0 \/ k = 1 \/ k = 2
        OBVIOUS
      <3>2. Len(ws) = 2
        BY <2>3
      <3> QED
        BY <3>1, <3>2
    <2>13. 0 \in 0 .. 0
      OBVIOUS
    <2> QED
      BY <1>2, <2>3, <2>5, <2>6, <2>7, <2>9, <2>10, <2>11, <2>12, <2>13 DEF Progress
  <1> QED
    BY <1>3, <1>4

\* One more round.
LEMMA LoopAdvances ==
  ASSUME NEW d, NEW old, NEW all, NEW n, NEW data, Task(d, old, all, n, data),
         NEW i \in 0 .. (n - 1), NEW ws \in Seq(Writes), Progress(d, old, all, n, data, ws, i),
         Shape(Run(d, ws), d, old, all, n, data, i, LinkedAfter(old, n, i)),
         NEW xs, xs = ws \o Round(old, all, n, data, i)
  PROVE  /\ xs \in Seq(Writes)
         /\ Progress(d, old, all, n, data, xs, i + 1)
         /\ Shape(Run(d, xs), d, old, all, n, data, i + 1, LinkedAfter(old, n, i + 1))
  <1>1. PICK v : v = Run(d, ws)
    OBVIOUS
  <1>2. PICK b : b = Round(old, all, n, data, i)
    OBVIOUS
  <1>3. /\ b \in Seq(Writes) /\ Len(b) >= 1 /\ b[1] = PutCluster(all[i + 1], Piece(data, i + 1))
        /\ \A k \in 1 .. Len(b) : \E m : Shape(Stage(v, b, k), d, old, all, n, data, i + 1, m)
        /\ Shape(Run(v, b), d, old, all, n, data, i + 1, LinkedAfter(old, n, i + 1))
    BY <1>1, <1>2, RoundShape
  <1>4. d \in Volumes /\ n \in Nat /\ i \in Nat /\ i + 1 \in Nat
    BY DEF Task
  <1>5. PICK l \in Nat, o \in Nat : l = Len(ws) /\ o = Len(b) /\ o >= 1
    BY <1>3, LenProperties
  <1>6. /\ xs \in Seq(Writes) /\ Len(xs) = l + o
        /\ \A k \in 0 .. l : Stage(d, xs, k) = Stage(d, ws, k)
        /\ \A k \in 0 .. o : Stage(d, xs, l + k) = Stage(v, b, k)
    BY <1>1, <1>2, <1>3, <1>4, <1>5, StageConcat
  <1>7. /\ \A r \in 1 .. l : xs[r] = ws[r]
        /\ xs[l + 1] = b[1]
    <2>1. \A r \in 1 .. (l + o) : xs[r] = IF r <= l THEN ws[r] ELSE b[r - l]
      BY <1>2, <1>3, <1>5, ConcatProperties
    <2>2. (l + 1) - l = 1 /\ l + 1 \in 1 .. (l + o) /\ ~(l + 1 <= l)
      BY <1>5
    <2>3. xs[l + 1] = b[1]
      BY <2>1, <2>2
    <2>4. \A r \in 1 .. l : r \in 1 .. (l + o) /\ r <= l
      BY <1>5
    <2> QED
      BY <2>1, <2>3, <2>4
  <1>8. Run(d, xs) = Run(v, b)
    <2>1. o \in 0 .. o
      BY <1>5
    <2> QED
      BY <1>5, <1>6, <2>1 DEF Run
  <1>9. ASSUME NEW k \in 0 .. (l + o)
        PROVE  \E a \in 0 .. (i + 1) : \E m :
                  /\ Shape(Stage(d, xs, k), d, old, all, n, data, a, m)
                  /\ \A q \in (a + 1) .. (i + 1) : \E r \in (k + 1) .. (l + o) : xs[r] = PutCluster(all[q], Piece(data, q))
    <2>1. CASE k <= l
      <3>1. k \in 0 .. l
        BY <1>5, <2>1
      <3>2. PICK a, m :
              /\ a \in 0 .. i /\ Shape(Stage(d, ws, k), d, old, all, n, data, a, m)
              /\ \A q \in (a + 1) .. i : \E r \in (k + 1) .. l : ws[r] = PutCluster(all[q], Piece(data, q))
        BY <1>5, <3>1 DEF Progress
      <3>3. Shape(Stage(d, xs, k), d, old, all, n, data, a, m)
        BY <1>6, <3>1, <3>2
      <3>4. ASSUME NEW q \in (a + 1) .. (i + 1)
            PROVE  \E r \in (k + 1) .. (l + o) : xs[r] = PutCluster(all[q], Piece(data, q))
        <4>1. CASE q = i + 1
          <5>1. l + 1 \in (k + 1) .. (l + o)
            BY <1>5, <3>1
          <5> QED
            BY <1>3, <1>7, <4>1, <5>1
        <4>2. CASE q # i + 1
          <5>1. q \in (a + 1) .. i
            BY <1>4, <4>2
          <5>2. PICK r \in (k + 1) .. l : ws[r] = PutCluster(all[q], Piece(data, q))
            BY <3>2, <5>1
          <5>3. r \in 1 .. l /\ r \in (k + 1) .. (l + o)
            BY <1>5, <3>1
          <5> QED
            BY <1>7, <5>2, <5>3
        <4> QED
          BY <4>1, <4>2
      <3>5. a \in 0 .. (i + 1)
        BY <1>4, <3>2
      <3> QED
        BY <3>3, <3>4, <3>5
    <2>2. CASE ~(k <= l)
      <3>1. PICK e \in 1 .. o : k = l + e
        <4>1. k - l \in 1 .. o /\ k = l + (k - l)
          BY <1>5, <2>2
        <4> QED
          BY <4>1
      <3>2. e \in 0 .. o /\ e \in 1 .. Len(b)
        BY <1>5
      <3>3. PICK m : Shape(Stage(v, b, e), d, old, all, n, data, i + 1, m)
        BY <1>3, <3>2
      <3>4. Shape(Stage(d, xs, k), d, old, all, n, data, i + 1, m)
        BY <1>6, <3>1, <3>2, <3>3
      <3>5. i + 1 \in 0 .. (i + 1) /\ \A q \in ((i + 1) + 1) .. (i + 1) : FALSE
        BY <1>4
      <3> QED
        BY <3>4, <3>5
    <2> QED
      BY <2>1, <2>2
  <1>10. Progress(d, old, all, n, data, xs, i + 1)
    <2>1. Len(xs) = l + o
      BY <1>6
    <2>2. \A k \in 0 .. Len(xs) : \E a \in 0 .. (i + 1) : \E m :
                  /\ Shape(Stage(d, xs, k), d, old, all, n, data, a, m)
                  /\ \A q \in (a + 1) .. (i + 1) : \E r \in (k + 1) .. Len(xs) : xs[r] = PutCluster(all[q], Piece(data, q))
      BY ONLY <1>9, <2>1
    <2> QED
      BY ONLY <2>2 DEF Progress
  <1> QED
    BY <1>3, <1>6, <1>8, <1>10

LEMMA LoopShape ==
  ASSUME NEW d, NEW old, NEW all, NEW n, NEW data, Task(d, old, all, n, data),
         NEW ws, ws = FirstRounds(old, all, n, data, n)
  PROVE  /\ ws \in Seq(Writes)
         /\ Progress(d, old, all, n, data, ws, n)
         /\ Shape(Run(d, ws), d, old, all, n, data, n, LinkedAfter(old, n, n))
  <1>0. /\ old = 0 => FirstRounds(old, all, n, data, 0) = Allocate(all[1])
        /\ old # 0 => FirstRounds(old, all, n, data, 0) = <<>>
        /\ \A i \in 1 .. n : FirstRounds(old, all, n, data, i)
                                = FirstRounds(old, all, n, data, i - 1) \o Round(old, all, n, data, i - 1)
        /\ \A i \in 0 .. n : FirstRounds(old, all, n, data, i) \in Seq(Writes)
    BY RoundsFacts
  <1> DEFINE P(i, xs) == /\ xs \in Seq(Writes)
                         /\ Progress(d, old, all, n, data, xs, i)
                         /\ Shape(Run(d, xs), d, old, all, n, data, i, LinkedAfter(old, n, i))
             S == {i \in 0 .. n : P(i, FirstRounds(old, all, n, data, i))}
  <1>1. n \in Nat /\ 0 \in 0 .. n /\ n \in 0 .. n
    BY DEF Task
  <1>2. 0 \in S
    <2>1. /\ old = 0 => FirstRounds(old, all, n, data, 0) = Allocate(all[1])
          /\ old # 0 => FirstRounds(old, all, n, data, 0) = <<>>
      BY <1>0
    <2>2. P(0, FirstRounds(old, all, n, data, 0))
      BY <2>1, LoopBegins
    <2> HIDE DEF P
    <2> QED
      BY <1>1, <2>2
  <1>3. ASSUME NEW i \in 0 .. (n - 1), i \in S PROVE i + 1 \in S
    <2>1. i + 1 \in 1 .. n /\ i + 1 \in 0 .. n /\ (i + 1) - 1 = i
      BY <1>1
    <2>2. PICK xs : xs = FirstRounds(old, all, n, data, i)
      OBVIOUS
    <2>3. P(i, xs)
      BY <1>3, <2>2
    <2>4. FirstRounds(old, all, n, data, i + 1) = FirstRounds(old, all, n, data, (i + 1) - 1) \o Round(old, all, n, data, (i + 1) - 1)
      BY <1>0, <2>1
    <2>5. FirstRounds(old, all, n, data, i + 1) = xs \o Round(old, all, n, data, i)
      BY <2>1, <2>2, <2>4
    <2>6. P(i + 1, FirstRounds(old, all, n, data, i + 1))
      BY <2>3, <2>5, LoopAdvances
    <2> HIDE DEF P
    <2> QED
      BY <2>1, <2>6
  <1>4. \A i \in 0 .. n : i \in S
    <2> HIDE DEF S
    <2> QED
      BY <1>1, <1>2, <1>3, UpTo
  <1>5. P(n, FirstRounds(old, all, n, data, n))
    BY <1>1, <1>4
  <1> QED
    BY <1>5

\* How many clusters write_chain writes.
Written(fat, start, data) ==
  IF Needed(data) < Len(Usable(fat, start)) THEN Needed(data) ELSE Len(Usable(fat, start))

\* write_chain is given well-formed arguments: all, old and n are what it works with.
Planned(d, start, data, all, old, n) ==
  /\ d \in Volumes /\ data \in Seq(Units) /\ WellFormed(d.fat, start)
  /\ all = Usable(d.fat, start)
  /\ old = Len(Chain(d.fat, start))
  /\ n = Written(d.fat, start, data)

LEMMA WriteChainTask ==
  ASSUME NEW d, NEW start, NEW data, NEW all, NEW old, NEW n, Planned(d, start, data, all, old, n)
  PROVE  /\ n \in Nat /\ n <= Needed(data) /\ n <= Len(all) /\ n \in 0 .. Len(all)
         /\ SubSeq(all, 1, n) \in Seq(Clusters) /\ Len(SubSeq(all, 1, n)) = n
         /\ \A k \in 1 .. n : SubSeq(all, 1, n)[k] = all[k]
         /\ n # 0 => Task(d, old, all, n, data)
  <1>0. /\ d \in Volumes /\ data \in Seq(Units) /\ WellFormed(d.fat, start)
        /\ all = Usable(d.fat, start) /\ old = Len(Chain(d.fat, start))
        /\ n = Written(d.fat, start, data)
    BY DEF Planned
  <1>1. d.fat \in [Clusters -> FatValues]
    BY <1>0 DEF Volumes
  <1>2. /\ all \in Seq(Clusters) /\ Len(all) \in Nat /\ old \in 0 .. Len(all)
        /\ SubSeq(all, 1, old) = Chain(d.fat, start)
        /\ \A i \in 1 .. old : all[i] = Chain(d.fat, start)[i] /\ d.fat[all[i]] # FREE
        /\ \A i, j \in 1 .. Len(all) : all[i] = all[j] => i = j
    BY <1>0, <1>1, UsableFacts
  <1>3. Needed(data) \in Nat
    BY <1>0, NeededFacts, LenProperties
  <1>4. n \in Nat /\ n <= Needed(data) /\ n <= Len(all) /\ n \in 0 .. Len(all)
    BY <1>0, <1>2, <1>3 DEF Written
  <1>5. old > 0 => ChainOf(d.fat, all[1], SubSeq(all, 1, old))
    <2>1. ChainOf(d.fat, start, Chain(d.fat, start))
      BY <1>0, WellFormedChain
    <2>2. old > 0 => Chain(d.fat, start) # <<>> /\ 1 \in 1 .. old
      BY <1>0, <1>2
    <2>3. old > 0 => all[1] = start
      BY <1>0, <1>2, <2>1, <2>2 DEF ChainOf
    <2> QED
      BY <1>0, <1>2, <2>1, <2>3
  <1>6. n # 0 => Task(d, old, all, n, data)
    <2>1. n # 0 => n \in 1 .. Len(all)
      BY <1>4
    <2> QED
      BY <1>0, <1>2, <1>3, <1>4, <1>5, <2>1 DEF Task
  <1>7. /\ SubSeq(all, 1, n) \in Seq(Clusters) /\ Len(SubSeq(all, 1, n)) = n
        /\ \A k \in 1 .. n : SubSeq(all, 1, n)[k] = all[k]
    <2>1. n \in Int /\ 1 \in Int /\ n - 1 + 1 = n
      BY <1>4
    <2>2. \A k \in 1 .. n : k \in 1 .. Len(all)
      BY <1>2, <1>4
    <2>3. \A k \in 1 .. n : all[k] \in Clusters
      BY <1>2, <2>2, ElementOfSeq
    <2>4. /\ SubSeq(all, 1, n) \in Seq(Clusters)
          /\ Len(SubSeq(all, 1, n)) = IF 1 <= n THEN n - 1 + 1 ELSE 0
          /\ \A k \in 1 .. (n - 1 + 1) : SubSeq(all, 1, n)[k] = all[1 + k - 1]
      BY <2>1, <2>3, SubSeqProperties
    <2> QED
      BY <1>4, <2>1, <2>4
  <1> QED
    BY <1>4, <1>6, <1>7

\* What write_chain does to the volume, write after write.
LEMMA WriteChain ==
  ASSUME NEW d, NEW start, NEW data, NEW all, NEW old, NEW n, Planned(d, start, data, all, old, n),
         n # 0, NEW w, w = write_chain(d.fat, start, data)
  PROVE  /\ Task(d, old, all, n, data)
         /\ w.todo \in Seq(Writes) /\ w.first = all[1] /\ w.ok = (n = Needed(data))
         /\ Progress(d, old, all, n, data, w.todo, n)
         /\ \E m : /\ Shape(Run(d, w.todo), d, old, all, n, data, n, m) /\ n <= m
                   /\ n = Needed(data) => m = n
  <1>0. /\ d \in Volumes /\ data \in Seq(Units) /\ WellFormed(d.fat, start)
        /\ all = Usable(d.fat, start) /\ old = Len(Chain(d.fat, start))
        /\ n = Written(d.fat, start, data)
    BY DEF Planned
  <1>1. /\ Task(d, old, all, n, data) /\ n \in Nat /\ n \in 1 .. n
        /\ SubSeq(all, 1, n) \in Seq(Clusters) /\ Len(SubSeq(all, 1, n)) = n
        /\ \A k \in 1 .. n : SubSeq(all, 1, n)[k] = all[k]
    <2>1. /\ n \in Nat /\ (n # 0 => Task(d, old, all, n, data))
          /\ SubSeq(all, 1, n) \in Seq(Clusters) /\ Len(SubSeq(all, 1, n)) = n
          /\ \A k \in 1 .. n : SubSeq(all, 1, n)[k] = all[k]
      BY WriteChainTask
    <2> QED
      BY <2>1
  <1>2. PICK cl \in Seq(Clusters) : cl = SubSeq(all, 1, n) /\ Len(cl) = n /\ cl[1] = all[1] /\ cl[n] = all[n]
                                    /\ cl # <<>>
    <2>1. 1 \in 1 .. n
      BY <1>1
    <2>2. SubSeq(all, 1, n) # <<>>
      BY <1>1
    <2> QED
      BY <1>1, <2>1, <2>2
  <1>3. cl = Targets(d.fat, start, data)
    BY <1>0, <1>2 DEF Targets, Written, Usable
  <1>4. PICK ws : ws = FirstRounds(old, all, n, data, n)
    OBVIOUS
  <1>5. ws = Rounds(Len(Chain(d.fat, start)), cl, data, Len(cl))
    BY <1>0, <1>2, <1>4 DEF FirstRounds
  <1>6. Last(cl) = all[n]
    BY <1>2 DEF Last
  <1>7. w = [todo |-> IF n = Needed(data) THEN Append(ws, SetFat(all[n], EOC)) ELSE ws,
             first |-> all[1], ok |-> n = Needed(data)]
    BY <1>2, <1>3, <1>5, <1>6 DEF write_chain
  <1>8. /\ w.todo = IF n = Needed(data) THEN Append(ws, SetFat(all[n], EOC)) ELSE ws
        /\ w.first = all[1] /\ w.ok = (n = Needed(data))
    BY <1>7
  <1>9. /\ ws \in Seq(Writes)
        /\ Progress(d, old, all, n, data, ws, n)
        /\ Shape(Run(d, ws), d, old, all, n, data, n, LinkedAfter(old, n, n))
    BY <1>1, <1>4, LoopShape
  <1>10. PICK m : m = LinkedAfter(old, n, n) /\ n <= m
    <2>1. old \in Nat
      BY <1>1 DEF Task
    <2> QED
      BY <1>1, <2>1 DEF LinkedAfter
  <1>11. CASE n # Needed(data)
    BY <1>1, <1>8, <1>9, <1>10, <1>11
  <1>12. CASE n = Needed(data)
    <2>1. PICK x \in Writes : x = SetFat(all[n], EOC) /\ Shape(Apply(Run(d, ws), x), d, old, all, n, data, n, n)
      BY <1>1, <1>9, <1>10, ShapeCut
    <2>2. PICK v \in Volumes : v = Run(d, ws)
      BY <1>9 DEF Shape
    <2>3. PICK ys \in Seq(Writes) : ys = <<x>> /\ Len(ys) = 1
      BY <2>2, OneWrite
    <2>4. Stage(v, ys, 1) = Apply(v, x)
      BY <2>2, <2>3, OneWrite
    <2>5. PICK zs : zs = ws \o ys
      OBVIOUS
    <2>6. w.todo = zs
      BY <1>8, <1>9, <1>12, <2>1, <2>3, <2>5, AppendIsConcat
    <2>7. PICK l \in Nat : l = Len(ws)
      BY <1>9, LenProperties
    <2>8. /\ zs \in Seq(Writes) /\ Len(zs) = l + 1
          /\ \A k \in 0 .. l : Stage(d, zs, k) = Stage(d, ws, k)
          /\ \A k \in 0 .. 1 : Stage(d, zs, l + k) = Stage(v, ys, k)
      <3>1. /\ ws \o ys \in Seq(Writes) /\ Len(ws \o ys) = Len(ws) + Len(ys)
            /\ \A k \in 0 .. Len(ws) : Stage(d, ws \o ys, k) = Stage(d, ws, k)
            /\ \A k \in 0 .. Len(ys) : Stage(d, ws \o ys, Len(ws) + k) = Stage(Run(d, ws), ys, k)
        BY <1>0, <1>9, StageConcat
      <3> QED
        BY <2>2, <2>3, <2>5, <2>7, <3>1
    <2>9. \A r \in 1 .. l : zs[r] = ws[r]
      <3>1. \A r \in 1 .. (l + 1) : zs[r] = IF r <= l THEN ws[r] ELSE ys[r - l]
        BY <1>9, <2>3, <2>5, <2>7, ConcatProperties
      <3>2. \A r \in 1 .. l : r \in 1 .. (l + 1) /\ r <= l
        BY <2>7
      <3> QED
        BY <3>1, <3>2
    <2>10. Stage(d, zs, l + 1) = Apply(v, x)
      BY <2>4, <2>8
    <2>11. Shape(Stage(d, zs, l + 1), d, old, all, n, data, n, n)
      BY <2>1, <2>2, <2>3, <2>10
    <2>12. ASSUME NEW k \in 0 .. (l + 1)
           PROVE  \E a \in 0 .. n : \E o :
                     /\ Shape(Stage(d, zs, k), d, old, all, n, data, a, o)
                     /\ \A q \in (a + 1) .. n : \E r \in (k + 1) .. (l + 1) : zs[r] = PutCluster(all[q], Piece(data, q))
      <3>1. CASE k = l + 1
        <4>1. n \in 0 .. n /\ \A q \in (n + 1) .. n : FALSE
          BY <1>1
        <4> QED
          BY <2>11, <3>1, <4>1
      <3>2. CASE k # l + 1
        <4>1. k \in 0 .. l
          BY <2>7, <3>2
        <4>2. PICK a, o :
                /\ a \in 0 .. n /\ Shape(Stage(d, ws, k), d, old, all, n, data, a, o)
                /\ \A q \in (a + 1) .. n : \E r \in (k + 1) .. l : ws[r] = PutCluster(all[q], Piece(data, q))
          BY <1>9, <2>7, <4>1 DEF Progress
        <4>3. Shape(Stage(d, zs, k), d, old, all, n, data, a, o)
          BY <2>8, <4>1, <4>2
        <4>4. \A r \in (k + 1) .. l : r \in 1 .. l /\ r \in (k + 1) .. (l + 1)
          BY <2>7, <4>1
        <4>5. \A q \in (a + 1) .. n : \E r \in (k + 1) .. (l + 1) : zs[r] = PutCluster(all[q], Piece(data, q))
          BY <2>9, <4>2, <4>4
        <4> QED
          BY <4>2, <4>3, <4>5
      <3> QED
        BY <3>1, <3>2
    <2>13. Progress(d, old, all, n, data, zs, n)
      <3>1. Len(zs) = l + 1
        BY <2>8
      <3>2. \A k \in 0 .. Len(zs) : \E a \in 0 .. n : \E o :
                     /\ Shape(Stage(d, zs, k), d, old, all, n, data, a, o)
                     /\ \A q \in (a + 1) .. n : \E r \in (k + 1) .. Len(zs) : zs[r] = PutCluster(all[q], Piece(data, q))
        BY ONLY <2>12, <3>1
      <3> QED
        BY ONLY <3>2 DEF Progress
    <2>14. Shape(Run(d, zs), d, old, all, n, data, n, n) /\ n <= n
      BY <1>1, <2>8, <2>11 DEF Run
    <2> QED
      BY <1>1, <1>8, <2>6, <2>8, <2>13, <2>14
  <1> QED
    BY <1>11, <1>12

\* When there is nothing to write to, or nothing to write, write_chain writes nothing.
LEMMA WriteNothing ==
  ASSUME NEW d, NEW start, NEW data, NEW all, NEW old, Planned(d, start, data, all, old, 0),
         NEW w, w = write_chain(d.fat, start, data)
  PROVE  w.todo = <<>> /\ w.first = start /\ w.ok = (Needed(data) = 0)
  <1>1. SubSeq(all, 1, 0) \in Seq(Clusters) /\ Len(SubSeq(all, 1, 0)) = 0
    BY WriteChainTask
  <1>2. SubSeq(all, 1, 0) = <<>>
    BY <1>1, EmptySeq
  <1>3. Targets(d.fat, start, data) = <<>>
    BY <1>2 DEF Targets, Planned, Written, Usable
  <1>4. w = [todo |-> <<>>, first |-> start, ok |-> Needed(data) = 0]
    BY <1>3 DEF write_chain
  <1> QED
    BY <1>4

-----------------------------------------------------------------------------
(* The tree of a volume *)

\* A chain and what it holds, after changes elsewhere.
LEMMA Kept ==
  ASSUME NEW d \in Volumes, NEW v \in Volumes, NEW c, WellFormed(d.fat, c),
         \A z \in Range(Chain(d.fat, c)) : v.fat[z] = d.fat[z] /\ v.units[z] = d.units[z]
  PROVE  /\ WellFormed(v.fat, c) /\ Chain(v.fat, c) = Chain(d.fat, c)
         /\ read_chain(v, c) = read_chain(d, c)
  <1>1. WellFormed(v.fat, c) /\ Chain(v.fat, c) = Chain(d.fat, c)
    BY ChainKept
  <1>2. PICK s : s = Chain(d.fat, c)
    OBVIOUS
  <1>3. /\ s \in Seq(Clusters) /\ Len(s) \in Nat /\ Len(s) * K \in Nat
        /\ read_chain(d, c) \in Seq(Units) /\ Len(read_chain(d, c)) = Len(s) * K
        /\ \A i \in 1 .. Len(s) * K : /\ ClusterNo(i) \in 1 .. Len(s)
                                      /\ read_chain(d, c)[i] = d.units[s[ClusterNo(i)]][Within(i)]
    BY <1>2, ReadChain
  <1>4. /\ read_chain(v, c) \in Seq(Units) /\ Len(read_chain(v, c)) = Len(s) * K
        /\ \A i \in 1 .. Len(s) * K : read_chain(v, c)[i] = v.units[s[ClusterNo(i)]][Within(i)]
    BY <1>1, <1>2, ReadChain
  <1>5. \A k \in 1 .. Len(s) : v.units[s[k]] = d.units[s[k]]
    BY <1>2, <1>3, LenProperties DEF Range
  <1>6. PICK a, b : a = read_chain(d, c) /\ b = read_chain(v, c)
    OBVIOUS
  <1>7. PICK l \in Nat : l = Len(s) * K
    BY <1>3
  <1>8. a \in Seq(Units) /\ b \in Seq(Units) /\ Len(a) = l /\ Len(b) = l
    BY <1>3, <1>4, <1>6, <1>7
  <1>9. \A i \in 1 .. l : a[i] = b[i]
    BY <1>3, <1>4, <1>5, <1>6, <1>7
  <1>10. a = b
    BY <1>8, <1>9, SeqEqual
  <1> QED
    BY <1>1, <1>6, <1>10

LEMMA TreeIs ==
  ASSUME NEW d
  PROVE  /\ \A s \in TreeSlots(d) : \E x \in Dirs(d) : \E i \in DirSlots(read_chain(d, x)) : s = <<x, i>>
         /\ \A x \in Dirs(d) : \A i : <<x, i>> \in TreeSlots(d) <=> i \in DirSlots(read_chain(d, x))
         /\ \A x, i : EntryOf(d, <<x, i>>) = read_chain(d, x)[i]
  BY DEF TreeSlots, EntryOf

LEMMA DirsAre ==
  ASSUME NEW d
  PROVE  /\ Root \in Dirs(d)
         /\ \A y \in Dirs(d) : y = Root \/ \E i \in DirSlots(read_chain(d, Root)) :
               read_chain(d, Root)[i].dir /\ y = read_chain(d, Root)[i].cluster
         /\ \A i \in DirSlots(read_chain(d, Root)) :
               read_chain(d, Root)[i].dir => read_chain(d, Root)[i].cluster \in Dirs(d)
  BY DEF Dirs

\* The first cluster of an entry of the tree.
First(d, s) == EntryOf(d, s).cluster

\* The clusters the tree uses.
Reach(d) == Range(Chain(d.fat, Root)) \cup UNION {Owned(d, s) : s \in TreeSlots(d)}

LEMMA ReachIs ==
  ASSUME NEW d
  PROVE  /\ \A z \in Range(Chain(d.fat, Root)) : z \in Reach(d)
         /\ \A s \in TreeSlots(d) : \A z \in Owned(d, s) : z \in Reach(d)
         /\ \A z \in Reach(d) : z \in Range(Chain(d.fat, Root)) \/ \E s \in TreeSlots(d) : z \in Owned(d, s)
         /\ \A s : Owned(d, s) = Range(Chain(d.fat, First(d, s)))
  BY DEF Reach, Owned, First

\* A consistent volume, stated about one or two entries at a time.
Sound(d) ==
  /\ d \in Volumes
  /\ WellFormed(d.fat, Root)
  /\ EndsWithZeros(read_chain(d, Root))
  /\ \A s \in TreeSlots(d) :
        /\ WellFormed(d.fat, First(d, s))
        /\ \A z \in Owned(d, s) : z \notin Range(Chain(d.fat, Root))
        /\ EntryOf(d, s).dir => First(d, s) \in Clusters /\ EndsWithZeros(read_chain(d, First(d, s)))
  /\ \A s, r \in TreeSlots(d) : s # r =>
        /\ \A z \in Owned(d, s) : z \notin Owned(d, r)
        /\ r[1] = s[1] => EntryOf(d, r).name # EntryOf(d, s).name

LEMMA OwnFirst ==
  ASSUME NEW fat, NEW c \in Clusters
  PROVE  c \in Range(Chain(fat, c))
  <1>1. PICK s \in Seq(Clusters) : s = Chain(fat, c) /\ s # <<>> /\ s[1] = c
    BY ChainLinks
  <1>2. 1 \in DOMAIN s
    BY <1>1, EmptySeq, LenProperties
  <1> QED
    BY <1>1, <1>2 DEF Range

LEMMA ChainClusters ==
  ASSUME NEW fat, NEW c
  PROVE  /\ \A z \in Range(Chain(fat, c)) : z \in Clusters
         /\ WellFormed(fat, c) => \A z \in Range(Chain(fat, c)) : fat[z] # FREE
  <1>1. PICK s \in Seq(Clusters) : s = Chain(fat, c)
    BY ChainLinks
  <1>2. Range(s) = {s[i] : i \in 1 .. Len(s)} /\ Len(s) \in Nat /\ \A i \in 1 .. Len(s) : s[i] \in Clusters
    BY <1>1, LenProperties, ElementOfSeq DEF Range
  <1>3. ASSUME WellFormed(fat, c), NEW i \in 1 .. Len(s) PROVE fat[s[i]] # FREE
    <2>1. ChainOf(fat, c, s)
      BY <1>1, <1>3, WellFormedChain
    <2>2. CASE i = Len(s)
      BY <1>2, <2>1, <2>2, ClusterFacts, EmptySeq DEF ChainOf
    <2>3. CASE i # Len(s)
      <3>1. i \in 1 .. (Len(s) - 1) /\ i + 1 \in 1 .. Len(s)
        BY <1>2, <2>3
      <3>2. fat[s[i]] = s[i + 1] /\ s[i + 1] \in Clusters
        BY <1>2, <2>1, <3>1 DEF ChainOf
      <3> QED
        BY <3>2, ClusterFacts
    <2> QED
      BY <2>2, <2>3
  <1> QED
    BY <1>1, <1>2, <1>3

LEMMA SoundIsConsistent ==
  ASSUME NEW d, Sound(d)
  PROVE  Consistent(d)
  <1>1. ASSUME NEW s \in TreeSlots(d)
        PROVE  /\ WellFormed(d.fat, EntryOf(d, s).cluster)
               /\ Owned(d, s) \cap Range(Chain(d.fat, Root)) = {}
               /\ EntryOf(d, s).dir => /\ Owned(d, s) # {}
                                       /\ EndsWithZeros(read_chain(d, EntryOf(d, s).cluster))
               /\ \A r \in TreeSlots(d) \ {s} :
                     /\ Owned(d, s) \cap Owned(d, r) = {}
                     /\ r[1] = s[1] => EntryOf(d, r).name # EntryOf(d, s).name
    <2>1. WellFormed(d.fat, EntryOf(d, s).cluster)
      BY DEF Sound, First
    <2>2. Owned(d, s) \cap Range(Chain(d.fat, Root)) = {}
      BY DEF Sound
    <2>3. EntryOf(d, s).dir => /\ Owned(d, s) # {}
                               /\ EndsWithZeros(read_chain(d, EntryOf(d, s).cluster))
      BY OwnFirst DEF Sound, First, Owned
    <2>4. \A r \in TreeSlots(d) \ {s} :
                     /\ Owned(d, s) \cap Owned(d, r) = {}
                     /\ r[1] = s[1] => EntryOf(d, r).name # EntryOf(d, s).name
      BY DEF Sound
    <2> QED
      BY <2>1, <2>2, <2>3, <2>4
  <1>2. WellFormed(d.fat, Root) /\ EndsWithZeros(read_chain(d, Root))
    BY DEF Sound
  <1> SUFFICES ASSUME NEW T \in {TreeSlots(d)}, NEW own \in {[s \in T |-> Owned(d, s)]}
               PROVE  /\ WellFormed(d.fat, Root)
                      /\ \A s \in T : LET e == EntryOf(d, s) IN
                            /\ WellFormed(d.fat, e.cluster)
                            /\ own[s] \cap Range(Chain(d.fat, Root)) = {}
                            /\ e.dir => /\ own[s] # {}
                                        /\ EndsWithZeros(read_chain(d, e.cluster))
                            /\ \A r \in T \ {s} :
                                  /\ own[s] \cap own[r] = {}
                                  /\ r[1] = s[1] => EntryOf(d, r).name # e.name
                      /\ EndsWithZeros(read_chain(d, Root))
    BY DEF Consistent
  <1>3. T = TreeSlots(d) /\ \A s \in TreeSlots(d) : own[s] = Owned(d, s)
    OBVIOUS
  <1> QED
    BY <1>1, <1>2, <1>3

\* In a directory that ends with zeros every short entry counts.
LEMMA EntrySlots ==
  ASSUME NEW us \in Seq(Units), EndsWithZeros(us)
  PROVE  DirSlots(us) = {i \in DOMAIN us : us[i].t = "entry"}
  <1>1. DOMAIN us = 1 .. Len(us) /\ Len(us) \in Nat /\ \A i \in 1 .. Len(us) : us[i] \in Units
    BY LenProperties, ElementOfSeq
  <1>2. ASSUME NEW i \in 1 .. Len(us), us[i].t = "entry", NEW j \in 1 .. (i - 1), us[j].t = "zero" PROVE FALSE
    <2>1. j \in 1 .. Len(us) /\ j < i
      BY <1>1
    <2>2. us[j] = Zero
      BY <1>1, <1>2, <2>1, UnitFacts
    <2>3. us[i] = Zero
      BY <1>1, <2>1, <2>2 DEF EndsWithZeros
    <2> QED
      BY <1>2, <2>3 DEF Zero
  <1> QED
    BY <1>1, <1>2 DEF DirSlots

\* The directories of a consistent volume.
LEMMA SoundDirs ==
  ASSUME NEW d, Sound(d), NEW x \in Dirs(d)
  PROVE  /\ x \in Clusters /\ WellFormed(d.fat, x) /\ EndsWithZeros(read_chain(d, x))
         /\ read_chain(d, x) \in Seq(Units)
         /\ DirSlots(read_chain(d, x)) = {i \in DOMAIN read_chain(d, x) : read_chain(d, x)[i].t = "entry"}
         /\ x # Root => \E r \in TreeSlots(d) : r[1] = Root /\ EntryOf(d, r).dir /\ First(d, r) = x
  <1>1. x # Root => \E r \in TreeSlots(d) : r[1] = Root /\ EntryOf(d, r).dir /\ First(d, r) = x
    <2> SUFFICES ASSUME x # Root PROVE \E r \in TreeSlots(d) : r[1] = Root /\ EntryOf(d, r).dir /\ First(d, r) = x
      OBVIOUS
    <2>1. PICK i \in DirSlots(read_chain(d, Root)) : read_chain(d, Root)[i].dir /\ x = read_chain(d, Root)[i].cluster
      BY DirsAre
    <2>2. PICK r : r = <<Root, i>>
      OBVIOUS
    <2>3. r \in TreeSlots(d) /\ EntryOf(d, r) = read_chain(d, Root)[i]
      BY <2>2, DirsAre, TreeIs
    <2>4. r[1] = Root
      BY <2>2
    <2> QED
      BY <2>1, <2>3, <2>4 DEF First
  <1>2. x \in Clusters /\ WellFormed(d.fat, x) /\ EndsWithZeros(read_chain(d, x))
    BY <1>1, ClusterFacts DEF Sound
  <1>3. read_chain(d, x) \in Seq(Units)
    BY ReadChain DEF Sound
  <1> QED
    BY <1>1, <1>2, <1>3, EntrySlots

\* What another entry owns is not in the directory's chain.
LEMMA SoundApart ==
  ASSUME NEW d, Sound(d), NEW x \in Dirs(d), NEW s \in TreeSlots(d), First(d, s) # x
  PROVE  \A z \in Owned(d, s) : z \notin Range(Chain(d.fat, x))
  <1>1. CASE x = Root
    BY <1>1 DEF Sound
  <1>2. CASE x # Root
    <2>1. PICK r \in TreeSlots(d) : First(d, r) = x
      BY <1>2, SoundDirs
    <2>2. s # r /\ Owned(d, r) = Range(Chain(d.fat, x))
      BY <2>1, ReachIs
    <2> QED
      BY <2>1, <2>2 DEF Sound
  <1> QED
    BY <1>1, <1>2

\* What the entry in slot j of the directory x owns, if there is one.
Mine(d, x, j) == IF j \in DirSlots(read_chain(d, x)) THEN Owned(d, <<x, j>>) ELSE {}

\* The entry in slot j of x in v: new, changed or the same, but sound.
NewEntry(d, v, x, j) ==
  LET e == read_chain(v, x)[j]
  IN /\ WellFormed(v.fat, e.cluster)
     /\ \A z \in Range(Chain(v.fat, e.cluster)) :
           (z \in Mine(d, x, j) \/ z \notin Reach(d)) /\ z \notin Range(Chain(v.fat, x))
     /\ \A i \in DirSlots(read_chain(d, x)) : i # j => read_chain(d, x)[i].name # e.name
     /\ e.dir => /\ e.cluster \in Clusters
                 /\ EndsWithZeros(read_chain(v, e.cluster))
                 /\ DirSlots(read_chain(v, e.cluster)) = {}

\* From us0 to us1 the entry in slot j keeps its name and its kind, if both have one.
SameName(us0, us1, j) ==
  (j \in DirSlots(us0) /\ j \in DirSlots(us1)) => us1[j].name = us0[j].name /\ us1[j].dir = us0[j].dir

\* From d to v the tree changes in slot j of the directory x at most: the directory may have
\* got longer, what the entry owns may have changed, and so may clusters outside the tree.
Edits(d, v, x, j) ==
  /\ v \in Volumes /\ x \in Dirs(d)
  /\ \A z \in Reach(d) : \/ z \in Mine(d, x, j)
                         \/ z \in Range(Chain(d.fat, x))
                         \/ v.fat[z] = d.fat[z] /\ v.units[z] = d.units[z]
  /\ WellFormed(v.fat, x)
  /\ \A z \in Range(Chain(v.fat, x)) : z \in Range(Chain(d.fat, x)) \/ z \notin Reach(d)
  /\ EndsWithZeros(read_chain(v, x))
  /\ \A i : i # j => (i \in DirSlots(read_chain(v, x)) <=> i \in DirSlots(read_chain(d, x)))
  /\ \A i \in DirSlots(read_chain(d, x)) : i # j => read_chain(v, x)[i] = read_chain(d, x)[i]
  /\ j \in DirSlots(read_chain(v, x)) => NewEntry(d, v, x, j)
  /\ SameName(read_chain(d, x), read_chain(v, x), j)
  /\ (x = Root /\ j \in DirSlots(read_chain(d, Root)) /\ read_chain(d, Root)[j].dir)
        => DirSlots(read_chain(d, read_chain(d, Root)[j].cluster)) = {}

LEMMA MineIs ==
  ASSUME NEW d, NEW x \in Dirs(d), NEW j
  PROVE  /\ \A z \in Mine(d, x, j) : <<x, j>> \in TreeSlots(d) /\ z \in Owned(d, <<x, j>>)
         /\ <<x, j>> \in TreeSlots(d) => Mine(d, x, j) = Owned(d, <<x, j>>)
  BY TreeIs DEF Mine

\* The other chains are as they were, but for the one of the directory itself.
LEMMA EditKept ==
  ASSUME NEW d, Sound(d), NEW v, NEW x, NEW j, Edits(d, v, x, j),
         NEW s \in TreeSlots(d), s # <<x, j>>, First(d, s) # x
  PROVE  /\ WellFormed(v.fat, First(d, s)) /\ Chain(v.fat, First(d, s)) = Chain(d.fat, First(d, s))
         /\ read_chain(v, First(d, s)) = read_chain(d, First(d, s))
  <1>1. d \in Volumes /\ v \in Volumes /\ x \in Dirs(d) /\ WellFormed(d.fat, First(d, s))
    BY DEF Sound, Edits
  <1>2. ASSUME NEW z \in Range(Chain(d.fat, First(d, s)))
        PROVE  v.fat[z] = d.fat[z] /\ v.units[z] = d.units[z]
    <2>1. z \in Owned(d, s) /\ z \in Reach(d)
      BY ReachIs
    <2>2. z \notin Range(Chain(d.fat, x))
      BY <1>1, <2>1, SoundApart
    <2>3. z \notin Mine(d, x, j)
      BY <1>1, <2>1, MineIs DEF Sound
    <2> QED
      BY <2>1, <2>2, <2>3 DEF Edits
  <1> QED
    BY <1>1, <1>2, Kept

LEMMA EditKeptRoot ==
  ASSUME NEW d, Sound(d), NEW v, NEW x, NEW j, Edits(d, v, x, j), x # Root
  PROVE  /\ WellFormed(v.fat, Root) /\ Chain(v.fat, Root) = Chain(d.fat, Root)
         /\ read_chain(v, Root) = read_chain(d, Root)
  <1>1. d \in Volumes /\ v \in Volumes /\ x \in Dirs(d) /\ WellFormed(d.fat, Root)
    BY DEF Sound, Edits
  <1>2. ASSUME NEW z \in Range(Chain(d.fat, Root))
        PROVE  v.fat[z] = d.fat[z] /\ v.units[z] = d.units[z]
    <2>1. z \in Reach(d)
      BY ReachIs
    <2>2. z \notin Range(Chain(d.fat, x))
      <3>1. PICK r \in TreeSlots(d) : First(d, r) = x
        BY <1>1, SoundDirs
      <3>2. Owned(d, r) = Range(Chain(d.fat, x))
        BY <3>1, ReachIs
      <3> QED
        BY <3>2 DEF Sound
    <2>3. z \notin Mine(d, x, j)
      BY <1>1, MineIs DEF Sound
    <2> QED
      BY <2>1, <2>2, <2>3 DEF Edits
  <1> QED
    BY <1>1, <1>2, Kept

\* A first cluster belongs to one entry, and none begins where the root does.
LEMMA FirstUnique ==
  ASSUME NEW d, Sound(d)
  PROVE  /\ \A s \in TreeSlots(d) : First(d, s) # Root
         /\ \A s, r \in TreeSlots(d) : First(d, s) = First(d, r) /\ First(d, s) \in Clusters => s = r
  <1>1. \A s \in TreeSlots(d) : First(d, s) \in Clusters => First(d, s) \in Owned(d, s)
    BY OwnFirst, ReachIs
  <1>2. Root \in Range(Chain(d.fat, Root)) /\ Root \in Clusters
    BY OwnFirst, ClusterFacts
  <1> QED
    BY <1>1, <1>2 DEF Sound

\* The entries of the tree, but for the one that is edited, are the same before and after.
LEMMA EditTree ==
  ASSUME NEW d, Sound(d), NEW v, NEW x, NEW j, Edits(d, v, x, j)
  PROVE  /\ x \in Dirs(v)
         /\ \A s \in TreeSlots(v) : \/ s = <<x, j>> /\ j \in DirSlots(read_chain(v, x))
                                    \/ s \in TreeSlots(d) /\ s # <<x, j>> /\ EntryOf(v, s) = EntryOf(d, s)
         /\ \A s \in TreeSlots(d) : s # <<x, j>> => s \in TreeSlots(v) /\ EntryOf(v, s) = EntryOf(d, s)
  <1>1. x \in Dirs(d)
    BY DEF Edits
  <1>2. \A y, i : <<y, i>>[1] = y /\ (<<y, i>> = <<x, j>> <=> y = x /\ i = j)
    OBVIOUS
  \* What the root says of a directory it says in both.
  <1>3. ASSUME NEW i, i \in DirSlots(read_chain(d, Root)), x # Root \/ i # j
        PROVE  i \in DirSlots(read_chain(v, Root)) /\ read_chain(v, Root)[i] = read_chain(d, Root)[i]
    <2>1. CASE x # Root
      BY <1>3, <2>1, EditKeptRoot
    <2>2. CASE x = Root
      BY <1>3, <2>2 DEF Edits
    <2> QED
      BY <2>1, <2>2
  <1>4. ASSUME NEW i, i \in DirSlots(read_chain(v, Root)), x # Root \/ i # j
        PROVE  i \in DirSlots(read_chain(d, Root)) /\ read_chain(v, Root)[i] = read_chain(d, Root)[i]
    <2>1. CASE x # Root
      BY <1>4, <2>1, EditKeptRoot
    <2>2. CASE x = Root
      BY <1>4, <2>2 DEF Edits
    <2> QED
      BY <2>1, <2>2
  <1>5. x \in Dirs(v)
    <2>1. CASE x = Root
      BY <2>1, DirsAre
    <2>2. CASE x # Root
      <3>1. PICK i \in DirSlots(read_chain(d, Root)) : read_chain(d, Root)[i].dir /\ x = read_chain(d, Root)[i].cluster
        BY <1>1, <2>2, DirsAre
      <3> QED
        BY <1>3, <2>2, <3>1, DirsAre
    <2> QED
      BY <2>1, <2>2
  \* A directory other than x that the root names outside the edited slot.
  <1>6. ASSUME NEW i \in DirSlots(read_chain(d, Root)), read_chain(d, Root)[i].dir, x # Root \/ i # j,
               NEW y, y = read_chain(d, Root)[i].cluster, y # x
        PROVE  y \in Dirs(d) /\ y \in Dirs(v) /\ read_chain(v, y) = read_chain(d, y)
    <2>1. PICK r : r = <<Root, i>>
      OBVIOUS
    <2>2. r \in TreeSlots(d) /\ First(d, r) = y /\ r # <<x, j>>
      BY <1>2, <1>6, <2>1, DirsAre, TreeIs DEF First
    <2>3. read_chain(v, y) = read_chain(d, y)
      BY <1>6, <2>2, EditKept
    <2> QED
      BY <1>3, <1>6, <2>3, DirsAre
  <1>7. ASSUME NEW s \in TreeSlots(v)
        PROVE  \/ s = <<x, j>> /\ j \in DirSlots(read_chain(v, x))
               \/ s \in TreeSlots(d) /\ s # <<x, j>> /\ EntryOf(v, s) = EntryOf(d, s)
    <2>0. PICK y \in Dirs(v) : \E i \in DirSlots(read_chain(v, y)) : s = <<y, i>>
      BY TreeIs
    <2>1. PICK i \in DirSlots(read_chain(v, y)) : s = <<y, i>>
      BY <2>0
    <2>2. CASE y = x /\ i = j
      BY <2>1, <2>2
    <2>3. CASE y = x /\ i # j
      <3>1. i \in DirSlots(read_chain(d, x)) /\ read_chain(v, x)[i] = read_chain(d, x)[i]
        BY <2>1, <2>3 DEF Edits
      <3> QED
        BY <1>1, <1>2, <2>1, <2>3, <3>1, TreeIs
    <2>4. CASE y # x /\ y = Root
      <3>1. read_chain(v, Root) = read_chain(d, Root)
        BY <2>4, EditKeptRoot
      <3> QED
        BY <1>2, <2>1, <2>4, <3>1, TreeIs, DirsAre
    <2>5. CASE y # x /\ y # Root
      <3>1. PICK k \in DirSlots(read_chain(v, Root)) : read_chain(v, Root)[k].dir /\ y = read_chain(v, Root)[k].cluster
        BY <2>1, <2>5, DirsAre
      <3>2. x # Root \/ k # j
        <4> SUFFICES ASSUME x = Root, k = j PROVE FALSE
          OBVIOUS
        <4>1. NewEntry(d, v, x, j)
          BY <3>1 DEF Edits
        <4>2. DirSlots(read_chain(v, y)) = {}
          BY <3>1, <4>1 DEF NewEntry
        <4> QED
          BY <2>1, <4>2
      <3>3. k \in DirSlots(read_chain(d, Root)) /\ read_chain(v, Root)[k] = read_chain(d, Root)[k]
        BY <1>4, <3>1, <3>2
      <3>4. y \in Dirs(d) /\ read_chain(v, y) = read_chain(d, y)
        BY <1>6, <2>5, <3>1, <3>2, <3>3
      <3> QED
        BY <1>2, <2>1, <2>5, <3>4, TreeIs
    <2> QED
      BY <2>2, <2>3, <2>4, <2>5
  <1>8. ASSUME NEW s \in TreeSlots(d), s # <<x, j>>
        PROVE  s \in TreeSlots(v) /\ EntryOf(v, s) = EntryOf(d, s)
    <2>0. PICK y \in Dirs(d) : \E i \in DirSlots(read_chain(d, y)) : s = <<y, i>>
      BY TreeIs
    <2>1. PICK i \in DirSlots(read_chain(d, y)) : s = <<y, i>>
      BY <2>0
    <2>2. CASE y = x
      <3>1. i # j
        BY <1>8, <2>1, <2>2
      <3>2. i \in DirSlots(read_chain(v, x)) /\ read_chain(v, x)[i] = read_chain(d, x)[i]
        BY <2>1, <2>2, <3>1 DEF Edits
      <3> QED
        BY <1>5, <2>1, <2>2, <3>2, TreeIs
    <2>3. CASE y # x /\ y = Root
      <3>1. read_chain(v, Root) = read_chain(d, Root)
        BY <2>3, EditKeptRoot
      <3> QED
        BY <2>1, <2>3, <3>1, TreeIs, DirsAre
    <2>4. CASE y # x /\ y # Root
      <3>1. PICK k \in DirSlots(read_chain(d, Root)) : read_chain(d, Root)[k].dir /\ y = read_chain(d, Root)[k].cluster
        BY <2>1, <2>4, DirsAre
      <3>2. x # Root \/ k # j
        <4> SUFFICES ASSUME x = Root, k = j PROVE FALSE
          OBVIOUS
        <4>1. DirSlots(read_chain(d, y)) = {}
          BY <3>1 DEF Edits
        <4> QED
          BY <2>1, <4>1
      <3>3. y \in Dirs(v) /\ read_chain(v, y) = read_chain(d, y)
        BY <1>6, <2>4, <3>1, <3>2
      <3> QED
        BY <2>1, <3>3, TreeIs
    <2> QED
      BY <2>2, <2>3, <2>4
  <1> QED
    BY <1>5, <1>7, <1>8

\* An edit leaves a sound volume.
LEMMA EditSound ==
  ASSUME NEW d, Sound(d), NEW v, NEW x, NEW j, Edits(d, v, x, j)
  PROVE  Sound(v)
  <1> DEFINE s0 == <<x, j>>
  <1>1. x \in Dirs(d) /\ v \in Volumes /\ s0[1] = x
    BY DEF Edits
  <1>2. \A s \in TreeSlots(v) : \/ s = s0 /\ j \in DirSlots(read_chain(v, x))
                                \/ s \in TreeSlots(d) /\ s # s0 /\ EntryOf(v, s) = EntryOf(d, s)
    BY EditTree
  <1>3. /\ \A z \in Mine(d, x, j) : s0 \in TreeSlots(d) /\ z \in Owned(d, s0)
        /\ s0 \in TreeSlots(v) => EntryOf(v, s0) = read_chain(v, x)[j]
    BY <1>1, MineIs, TreeIs
  <1> HIDE DEF s0
  \* What is new in a chain of the tree lies in the chain of the directory.
  <1>4. ASSUME NEW s \in TreeSlots(d), s # s0, EntryOf(v, s) = EntryOf(d, s)
        PROVE  /\ WellFormed(v.fat, First(v, s))
               /\ \A z \in Owned(v, s) : \/ z \in Owned(d, s)
                                         \/ z \notin Reach(d) /\ z \in Range(Chain(v.fat, x)) /\ First(d, s) = x
               /\ EntryOf(v, s).dir => First(v, s) \in Clusters /\ EndsWithZeros(read_chain(v, First(v, s)))
    <2>1. First(v, s) = First(d, s) /\ Owned(v, s) = Range(Chain(v.fat, First(d, s)))
          /\ Owned(d, s) = Range(Chain(d.fat, First(d, s)))
      BY <1>4, ReachIs DEF First
    <2>2. CASE First(d, s) # x
      <3>1. /\ WellFormed(v.fat, First(d, s)) /\ Chain(v.fat, First(d, s)) = Chain(d.fat, First(d, s))
            /\ read_chain(v, First(d, s)) = read_chain(d, First(d, s))
        BY <1>4, <2>2, EditKept DEF s0
      <3> QED
        BY <1>4, <2>1, <3>1 DEF Sound
    <2>3. CASE First(d, s) = x
      BY <1>4, <2>1, <2>3 DEF Edits, Sound
    <2> QED
      BY <2>2, <2>3
  <1>5. /\ WellFormed(v.fat, Root) /\ EndsWithZeros(read_chain(v, Root))
        /\ \A z \in Range(Chain(v.fat, Root)) : \/ z \in Range(Chain(d.fat, Root))
                                                \/ z \notin Reach(d) /\ z \in Range(Chain(v.fat, x)) /\ x = Root
    <2>1. CASE x = Root
      BY <2>1 DEF Edits
    <2>2. CASE x # Root
      BY <2>2, EditKeptRoot DEF Sound
    <2> QED
      BY <2>1, <2>2
  <1>6. ASSUME s0 \in TreeSlots(v), j \in DirSlots(read_chain(v, x))
        PROVE  /\ WellFormed(v.fat, First(v, s0))
               /\ \A z \in Owned(v, s0) : (z \in Mine(d, x, j) \/ z \notin Reach(d)) /\ z \notin Range(Chain(v.fat, x))
               /\ EntryOf(v, s0).dir => First(v, s0) \in Clusters /\ EndsWithZeros(read_chain(v, First(v, s0)))
               /\ \A i \in DirSlots(read_chain(d, x)) : i # j => read_chain(d, x)[i].name # EntryOf(v, s0).name
    <2>1. NewEntry(d, v, x, j)
      BY <1>6 DEF Edits
    <2>2. EntryOf(v, s0) = read_chain(v, x)[j] /\ Owned(v, s0) = Range(Chain(v.fat, First(v, s0)))
      BY <1>3, <1>6, ReachIs
    <2> QED
      BY <2>1, <2>2 DEF NewEntry, First
  <1>7. ASSUME NEW s \in TreeSlots(v), NEW z \in Owned(v, s) PROVE z \notin Range(Chain(v.fat, Root))
    <2>1. SUFFICES ASSUME z \in Range(Chain(v.fat, Root)) PROVE FALSE
      OBVIOUS
    <2>2. CASE s = s0 /\ j \in DirSlots(read_chain(v, x))
      <3>1. (z \in Mine(d, x, j) \/ z \notin Reach(d)) /\ z \notin Range(Chain(v.fat, x))
        BY <1>6, <1>7, <2>2
      <3>2. z \in Range(Chain(d.fat, Root))
        BY <1>5, <2>1, <3>1
      <3>3. z \in Owned(d, s0) /\ s0 \in TreeSlots(d)
        BY <1>3, <3>1, <3>2, ReachIs
      <3> QED
        BY <3>2, <3>3 DEF Sound
    <2>3. CASE s \in TreeSlots(d) /\ s # s0 /\ EntryOf(v, s) = EntryOf(d, s)
      <3>1. z \in Owned(d, s) \/ (z \notin Reach(d) /\ First(d, s) = x)
        BY <1>4, <2>3
      <3>2. CASE z \in Owned(d, s)
        <4>1. z \in Range(Chain(d.fat, Root))
          BY <1>5, <2>1, <2>3, <3>2, ReachIs
        <4> QED
          BY <2>3, <3>2, <4>1 DEF Sound
      <3>3. CASE z \notin Reach(d) /\ First(d, s) = x
        <4>1. x = Root
          BY <1>5, <2>1, <3>3, ReachIs
        <4> QED
          BY <2>3, <3>3, <4>1, FirstUnique
      <3> QED
        BY <3>1, <3>2, <3>3
    <2> QED
      BY <1>2, <2>2, <2>3
  \* The edited entry shares nothing with another.
  <1>8. ASSUME s0 \in TreeSlots(v), j \in DirSlots(read_chain(v, x)),
               NEW s \in TreeSlots(d), s # s0, EntryOf(v, s) = EntryOf(d, s),
               NEW z \in Owned(v, s), z \in Owned(v, s0)
        PROVE  FALSE
    <2>1. (z \in Mine(d, x, j) \/ z \notin Reach(d)) /\ z \notin Range(Chain(v.fat, x))
      BY <1>6, <1>8
    <2>2. z \in Owned(d, s)
      BY <1>4, <1>8, <2>1
    <2>3. z \in Owned(d, s0) /\ s0 \in TreeSlots(d)
      BY <1>3, <1>8, <2>1, <2>2, ReachIs
    <2> QED
      BY <1>8, <2>2, <2>3 DEF Sound
  <1>9. ASSUME NEW s \in TreeSlots(v), NEW r \in TreeSlots(v), s # r, NEW z \in Owned(v, s), z \in Owned(v, r)
        PROVE  FALSE
    <2>1. CASE s = s0 /\ j \in DirSlots(read_chain(v, x))
      <3>1. r \in TreeSlots(d) /\ r # s0 /\ EntryOf(v, r) = EntryOf(d, r)
        BY <1>2, <1>9, <2>1
      <3> QED
        BY <1>8, <1>9, <2>1, <3>1
    <2>2. CASE r = s0 /\ j \in DirSlots(read_chain(v, x))
      <3>1. s \in TreeSlots(d) /\ s # s0 /\ EntryOf(v, s) = EntryOf(d, s)
        BY <1>2, <1>9, <2>2
      <3> QED
        BY <1>8, <1>9, <2>2, <3>1
    <2>3. CASE /\ s \in TreeSlots(d) /\ s # s0 /\ EntryOf(v, s) = EntryOf(d, s)
               /\ r \in TreeSlots(d) /\ r # s0 /\ EntryOf(v, r) = EntryOf(d, r)
      <3>1. z \in Owned(d, s) \/ (z \notin Reach(d) /\ First(d, s) = x)
        BY <1>4, <1>9, <2>3
      <3>2. z \in Owned(d, r) \/ (z \notin Reach(d) /\ First(d, r) = x)
        BY <1>4, <1>9, <2>3
      <3>3. CASE z \in Owned(d, s) /\ z \in Owned(d, r)
        BY <1>9, <2>3, <3>3 DEF Sound
      <3>4. CASE First(d, s) = x /\ First(d, r) = x
        <4>1. x \in Clusters
          BY <1>1, SoundDirs
        <4> QED
          BY <1>9, <2>3, <3>4, <4>1, FirstUnique
      <3> QED
        BY <2>3, <3>1, <3>2, <3>3, <3>4, ReachIs
    <2> QED
      BY <1>2, <2>1, <2>2, <2>3
  \* Nor its name.
  <1>10. ASSUME s0 \in TreeSlots(v), j \in DirSlots(read_chain(v, x)),
                NEW s \in TreeSlots(d), s # s0, EntryOf(v, s) = EntryOf(d, s), s[1] = x
         PROVE  EntryOf(v, s).name # EntryOf(v, s0).name
    <2>1. PICK y \in Dirs(d) : \E i \in DirSlots(read_chain(d, y)) : s = <<y, i>>
      BY TreeIs
    <2>2. PICK i \in DirSlots(read_chain(d, y)) : s = <<y, i>>
      BY <2>1
    <2>3. y = x /\ i # j
      BY <1>10, <2>2 DEF s0
    <2>4. EntryOf(d, s) = read_chain(d, x)[i]
      BY <2>2, <2>3, TreeIs
    <2> QED
      BY <1>6, <1>10, <2>2, <2>3, <2>4
  <1>11. ASSUME NEW s \in TreeSlots(v), NEW r \in TreeSlots(v), s # r, r[1] = s[1]
         PROVE  EntryOf(v, r).name # EntryOf(v, s).name
    <2>1. CASE s = s0 /\ j \in DirSlots(read_chain(v, x))
      <3>1. r \in TreeSlots(d) /\ r # s0 /\ EntryOf(v, r) = EntryOf(d, r) /\ r[1] = x
        BY <1>1, <1>2, <1>11, <2>1
      <3> QED
        BY <1>10, <1>11, <2>1, <3>1
    <2>2. CASE r = s0 /\ j \in DirSlots(read_chain(v, x))
      <3>1. s \in TreeSlots(d) /\ s # s0 /\ EntryOf(v, s) = EntryOf(d, s) /\ s[1] = x
        BY <1>1, <1>2, <1>11, <2>2
      <3> QED
        BY <1>10, <1>11, <2>2, <3>1
    <2>3. CASE /\ s \in TreeSlots(d) /\ s # s0 /\ EntryOf(v, s) = EntryOf(d, s)
               /\ r \in TreeSlots(d) /\ r # s0 /\ EntryOf(v, r) = EntryOf(d, r)
      BY <1>11, <2>3 DEF Sound
    <2> QED
      BY <1>2, <2>1, <2>2, <2>3
  <1>12. ASSUME NEW s \in TreeSlots(v)
         PROVE  /\ WellFormed(v.fat, First(v, s))
                /\ EntryOf(v, s).dir => First(v, s) \in Clusters /\ EndsWithZeros(read_chain(v, First(v, s)))
    BY <1>2, <1>4, <1>6
  <1> QED
    BY <1>1, <1>5, <1>7, <1>9, <1>11, <1>12 DEF Sound

-----------------------------------------------------------------------------
(* Paths *)

\* The entry s is the one the path leads to.
At(d, q, s) ==
  /\ s \in TreeSlots(d)
  /\ EntryOf(d, s).name = Last(q)
  /\ \/ Len(q) = 1 /\ s[1] = Root
     \/ /\ Len(q) = 2
        /\ \E r \in TreeSlots(d) : /\ r[1] = Root /\ EntryOf(d, r).name = q[1]
                                   /\ EntryOf(d, r).dir /\ First(d, r) = s[1]

\* The path is a file whose data begins at cluster c.
Held(d, q, c) == \E s \in TreeSlots(d) : At(d, q, s) /\ ~EntryOf(d, s).dir /\ First(d, s) = c

LEMMA LeastOf ==
  ASSUME NEW S \in SUBSET Nat, S # {}
  PROVE  Min(S) \in S /\ \A y \in S : Min(S) <= y
  <1>1. PICK k \in S : \A y \in S : k <= y
    BY LeastNumber
  <1> QED
    BY <1>1 DEF Min

LEMMA FindFacts ==
  ASSUME NEW us \in Seq(Units), NEW n
  PROVE  /\ FindIn(us, n) # 0 => FindIn(us, n) \in DirSlots(us) /\ us[FindIn(us, n)].name = n
         /\ FindIn(us, n) = 0 => \A i \in DirSlots(us) : us[i].name # n
         /\ \A i \in DirSlots(us) : i \in Nat /\ i # 0
  <1> DEFINE S == {i \in DirSlots(us) : us[i].name = n}
  <1>1. \A i \in DirSlots(us) : i \in Nat /\ i # 0
    BY LenProperties DEF DirSlots
  <1>2. S \in SUBSET Nat /\ 0 \notin S
    BY <1>1
  <1>3. S # {} => Min(S) \in S
    BY <1>2, LeastOf
  <1>4. FindIn(us, n) = IF S = {} THEN 0 ELSE Min(S)
    BY DEF FindIn
  <1> HIDE DEF S
  <1>5. CASE S = {}
    BY <1>1, <1>4, <1>5 DEF S
  <1>6. CASE S # {}
    <2>1. FindIn(us, n) \in S /\ FindIn(us, n) # 0
      BY <1>2, <1>3, <1>4, <1>6
    <2> QED
      BY <1>1, <2>1 DEF S
  <1> QED
    BY <1>5, <1>6

LEMMA PathFacts ==
  ASSUME NEW p \in Paths
  PROVE  /\ p \in Seq(Names) /\ Len(p) \in {1, 2} /\ Last(p) = p[Len(p)] /\ Last(p) \in Names
         /\ \A q \in Paths : (Len(q) = Len(p) /\ Last(q) = Last(p) /\ q[1] = p[1]) => q = p
  <1>1. \A q \in Paths : q \in Seq(Names) /\ Len(q) \in {1, 2} /\ Last(q) = q[Len(q)]
    BY VolumeAssumption DEF Last
  <1>2. Len(p) \in 1 .. Len(p)
    BY <1>1
  <1>3. p[Len(p)] \in Names
    BY <1>1, <1>2, ElementOfSeq
  <1>4. ASSUME NEW q \in Paths, Len(q) = Len(p), Last(q) = Last(p), q[1] = p[1] PROVE q = p
    <2>1. \A i \in 1 .. Len(p) : i = 1 \/ i = Len(p)
      BY <1>1
    <2>2. \A i \in 1 .. Len(p) : q[i] = p[i]
      BY <1>1, <1>4, <2>1
    <2> QED
      BY <1>1, <1>4, <2>2, SeqEqual
  <1> QED
    BY <1>1, <1>3, <1>4

\* The directory a path is in.
LEMMA ParentFacts ==
  ASSUME NEW d, Sound(d), NEW p \in Paths
  PROVE  /\ ParentOf(d, p) # 0 => ParentOf(d, p) \in Dirs(d)
         /\ ParentOf(d, p) # 0 /\ Len(p) = 2 =>
               \E r \in TreeSlots(d) : /\ r[1] = Root /\ EntryOf(d, r).name = p[1]
                                       /\ EntryOf(d, r).dir /\ First(d, r) = ParentOf(d, p)
         /\ Len(p) = 1 => ParentOf(d, p) = Root
  <1>1. CASE Len(p) = 1
    BY <1>1, DirsAre DEF ParentOf
  <1>2. CASE Len(p) # 1 /\ ParentOf(d, p) # 0
    <2>1. PICK us : us = read_chain(d, Root)
      OBVIOUS
    <2>2. PICK i : i = FindIn(us, p[1])
      OBVIOUS
    <2>3. i # 0 /\ us[i].dir /\ us[i].cluster = ParentOf(d, p)
      BY <1>2, <2>1, <2>2 DEF ParentOf
    <2>4. us \in Seq(Units)
      BY <2>1, SoundDirs, DirsAre
    <2>5. i \in DirSlots(us) /\ us[i].name = p[1]
      BY <2>2, <2>3, <2>4, FindFacts
    <2>6. PICK r : r = <<Root, i>>
      OBVIOUS
    <2>7. r \in TreeSlots(d) /\ EntryOf(d, r) = us[i]
      BY <2>1, <2>5, <2>6, TreeIs, DirsAre
    <2>8. r[1] = Root
      BY <2>6
    <2>9. ParentOf(d, p) \in Dirs(d)
      BY <2>1, <2>3, <2>5, DirsAre
    <2> QED
      BY <1>2, <2>3, <2>5, <2>7, <2>8, <2>9 DEF First
  <1>3. CASE Len(p) # 1 /\ ParentOf(d, p) = 0
    BY <1>3
  <1> QED
    BY <1>1, <1>2, <1>3

LEMMA ResolveFacts ==
  ASSUME NEW d, Sound(d), NEW p \in Paths, Exists(d, p)
  PROVE  LET s == <<ParentOf(d, p), SlotOf(d, p)>>
         IN /\ ParentOf(d, p) # 0 /\ ParentOf(d, p) \in Dirs(d)
            /\ SlotOf(d, p) \in DirSlots(read_chain(d, ParentOf(d, p)))
            /\ At(d, p, s) /\ EntryAt(d, p) = EntryOf(d, s)
            /\ EntryAt(d, p) = read_chain(d, ParentOf(d, p))[SlotOf(d, p)]
  <1>1. PICK x, i : x = ParentOf(d, p) /\ i = SlotOf(d, p)
    OBVIOUS
  <1>2. x # 0 /\ i # 0 /\ i = FindIn(read_chain(d, x), Last(p))
    BY <1>1 DEF Exists, SlotOf
  <1>3. x \in Dirs(d)
    BY <1>1, <1>2, ParentFacts
  <1>4. i \in DirSlots(read_chain(d, x)) /\ read_chain(d, x)[i].name = Last(p)
    BY <1>2, <1>3, SoundDirs, FindFacts
  <1>5. PICK s : s = <<x, i>>
    OBVIOUS
  <1>6. s \in TreeSlots(d) /\ EntryOf(d, s) = read_chain(d, x)[i]
    BY <1>3, <1>4, <1>5, TreeIs
  <1>7. s[1] = x
    BY <1>5
  <1>8. Len(p) = 1 \/ Len(p) = 2
    BY PathFacts
  <1>9. At(d, p, s)
    BY <1>1, <1>2, <1>4, <1>6, <1>7, <1>8, ParentFacts DEF At
  <1>10. EntryAt(d, p) = EntryOf(d, s)
    BY <1>1, <1>6 DEF EntryAt
  <1> QED
    BY <1>1, <1>2, <1>3, <1>4, <1>5, <1>6, <1>9, <1>10

LEMMA ResolveIs ==
  ASSUME NEW d, Sound(d), NEW p \in Paths, NEW s, At(d, p, s)
  PROVE  Exists(d, p) /\ s = <<ParentOf(d, p), SlotOf(d, p)>>
  <1>1. PICK y \in Dirs(d) : \E i \in DirSlots(read_chain(d, y)) : s = <<y, i>>
    BY TreeIs DEF At
  <1>2. PICK i \in DirSlots(read_chain(d, y)) : s = <<y, i>>
    BY <1>1
  <1>3. s[1] = y /\ read_chain(d, y)[i].name = Last(p) /\ EntryOf(d, s) = read_chain(d, y)[i]
    BY <1>2, TreeIs DEF At
  <1>4. y # 0
    BY SoundDirs, ClusterFacts
  <1>5. ParentOf(d, p) = y
    <2>1. CASE Len(p) = 1
      BY <1>3, <2>1, FirstUnique DEF At, ParentOf
    <2>2. CASE Len(p) = 2
      <3>1. PICK r \in TreeSlots(d) : /\ r[1] = Root /\ EntryOf(d, r).name = p[1]
                                      /\ EntryOf(d, r).dir /\ First(d, r) = y
        BY <1>3, <2>2 DEF At
      <3>2. PICK w \in Dirs(d) : \E k \in DirSlots(read_chain(d, w)) : r = <<w, k>>
        BY TreeIs
      <3>3. PICK k \in DirSlots(read_chain(d, w)) : r = <<w, k>>
        BY <3>2
      <3>4. w = Root
        BY <3>1, <3>3
      <3>5. EntryOf(d, r) = read_chain(d, Root)[k]
        BY <3>3, <3>4, TreeIs
      <3>6. PICK us \in Seq(Units) : us = read_chain(d, Root)
        BY SoundDirs, DirsAre
      <3>7. PICK o : o = FindIn(us, p[1])
        OBVIOUS
      <3>8. o # 0 /\ o \in DirSlots(us) /\ us[o].name = p[1]
        BY <3>1, <3>3, <3>4, <3>5, <3>6, <3>7, FindFacts
      <3>9. PICK r2 : r2 = <<Root, o>>
        OBVIOUS
      <3>10. r2 \in TreeSlots(d) /\ EntryOf(d, r2) = us[o]
        BY <3>6, <3>8, <3>9, TreeIs, DirsAre
      <3>11. r2[1] = r[1]
        BY <3>1, <3>9
      <3>12. r2 = r
        BY <3>1, <3>8, <3>10, <3>11 DEF Sound
      <3>13. us[o].dir /\ us[o].cluster = y
        BY <3>1, <3>10, <3>12 DEF First
      <3> QED
        BY <2>2, <3>6, <3>7, <3>8, <3>13 DEF ParentOf
    <2> QED
      BY <2>1, <2>2 DEF At
  <1>6. PICK us \in Seq(Units) : us = read_chain(d, y)
    BY SoundDirs
  <1>7. PICK o : o = FindIn(us, Last(p))
    OBVIOUS
  <1>8. o # 0 /\ o \in DirSlots(us) /\ us[o].name = Last(p)
    BY <1>2, <1>3, <1>6, <1>7, FindFacts
  <1>9. PICK s2 : s2 = <<y, o>>
    OBVIOUS
  <1>10. s2 \in TreeSlots(d) /\ EntryOf(d, s2) = us[o]
    BY <1>6, <1>8, <1>9, TreeIs
  <1>11. s2[1] = s[1]
    BY <1>3, <1>9
  <1>12. s2 = s
    BY <1>3, <1>8, <1>10, <1>11 DEF Sound, At
  <1>13. SlotOf(d, p) = o
    BY <1>4, <1>5, <1>6, <1>7 DEF SlotOf
  <1> QED
    BY <1>5, <1>8, <1>9, <1>12, <1>13 DEF Exists

\* Different paths lead to different entries.
LEMMA AtUnique ==
  ASSUME NEW d, Sound(d), NEW p \in Paths, NEW q \in Paths, NEW s, At(d, p, s), At(d, q, s)
  PROVE  p = q
  <1>1. Last(p) = Last(q)
    BY DEF At
  <1>2. \A r \in TreeSlots(d) : First(d, r) # Root
    BY FirstUnique
  <1>3. CASE Len(p) = 1
    <2>1. Len(q) = 1
      BY <1>2, <1>3 DEF At
    <2>2. Last(p) = p[1] /\ Last(q) = q[1]
      BY <1>3, <2>1, PathFacts
    <2> QED
      BY <1>1, <1>3, <2>1, <2>2, PathFacts
  <1>4. CASE Len(p) = 2
    <2>1. Len(q) = 2
      BY <1>2, <1>4 DEF At
    <2>2. PICK r \in TreeSlots(d) : EntryOf(d, r).name = p[1] /\ EntryOf(d, r).dir /\ First(d, r) = s[1]
      BY <1>4 DEF At
    <2>3. PICK r2 \in TreeSlots(d) : EntryOf(d, r2).name = q[1] /\ EntryOf(d, r2).dir /\ First(d, r2) = s[1]
      BY <2>1 DEF At
    <2>4. First(d, r) \in Clusters
      BY <2>2 DEF Sound
    <2>5. r = r2
      BY <2>2, <2>3, <2>4, FirstUnique
    <2> QED
      BY <1>1, <1>4, <2>1, <2>2, <2>3, <2>5, PathFacts
  <1> QED
    BY <1>3, <1>4 DEF At

\* An edit of another entry leaves a file where it is.
LEMMA EditHeld ==
  ASSUME NEW d, Sound(d), NEW v, NEW x, NEW j, Edits(d, v, x, j), NEW q, NEW c,
         NEW s, At(d, q, s), s # <<x, j>>, ~EntryOf(d, s).dir, First(d, s) = c
  PROVE  Held(v, q, c)
  <1>1. \A r \in TreeSlots(d) : r # <<x, j>> => r \in TreeSlots(v) /\ EntryOf(v, r) = EntryOf(d, r)
    BY EditTree
  <1>2. s \in TreeSlots(v) /\ EntryOf(v, s) = EntryOf(d, s)
    BY <1>1 DEF At
  <1>3. CASE Len(q) = 1
    BY <1>2, <1>3 DEF At, Held, First
  <1>4. CASE Len(q) = 2
    <2>1. PICK r \in TreeSlots(d) : /\ r[1] = Root /\ EntryOf(d, r).name = q[1]
                                    /\ EntryOf(d, r).dir /\ First(d, r) = s[1]
      BY <1>4, FirstUnique DEF At
    <2>2. r # <<x, j>>
      <3> SUFFICES ASSUME r = <<x, j>> PROVE FALSE
        OBVIOUS
      <3>1. x = Root
        BY <2>1
      <3>2. j \in DirSlots(read_chain(d, Root)) /\ EntryOf(d, r) = read_chain(d, Root)[j]
        BY <2>1, <3>1, TreeIs, DirsAre
      <3>3. DirSlots(read_chain(d, s[1])) = {}
        BY <2>1, <3>1, <3>2 DEF Edits, First
      <3>4. PICK y \in Dirs(d) : \E i \in DirSlots(read_chain(d, y)) : s = <<y, i>>
        BY TreeIs DEF At
      <3>5. PICK i \in DirSlots(read_chain(d, y)) : s = <<y, i>>
        BY <3>4
      <3>6. s[1] = y
        BY <3>5
      <3> QED
        BY <3>3, <3>5, <3>6
    <2>3. r \in TreeSlots(v) /\ EntryOf(v, r) = EntryOf(d, r)
      BY <1>1, <2>1, <2>2
    <2> QED
      BY <1>2, <1>4, <2>1, <2>3 DEF At, Held, First
  <1> QED
    BY <1>3, <1>4 DEF At

-----------------------------------------------------------------------------
(* Rewriting a directory *)

\* From d to d2 the tree changed at most in what the entry in slot j of x owns.
Aside(d, d2, x, j) ==
  /\ d2 \in Volumes /\ x \in Dirs(d)
  /\ \A z \in Reach(d) : z \in Mine(d, x, j) \/ (d2.fat[z] = d.fat[z] /\ d2.units[z] = d.units[z])

LEMMA DirReach ==
  ASSUME NEW d, Sound(d), NEW x \in Dirs(d)
  PROVE  /\ \A z \in Range(Chain(d.fat, x)) : z \in Reach(d)
         /\ \A j : \A z \in Mine(d, x, j) : z \notin Range(Chain(d.fat, x)) /\ z \in Reach(d)
         /\ \A z \in Reach(d) : z \in Clusters /\ d.fat[z] # FREE
  <1>1. \A z \in Range(Chain(d.fat, x)) : z \in Reach(d)
    <2>1. CASE x = Root
      BY <2>1, ReachIs
    <2>2. CASE x # Root
      <3>1. PICK r \in TreeSlots(d) : First(d, r) = x
        BY <2>2, SoundDirs
      <3> QED
        BY <3>1, ReachIs
    <2> QED
      BY <2>1, <2>2
  <1>2. ASSUME NEW j, NEW z \in Mine(d, x, j) PROVE z \notin Range(Chain(d.fat, x)) /\ z \in Reach(d)
    <2>1. PICK s : s = <<x, j>>
      OBVIOUS
    <2>2. s \in TreeSlots(d) /\ z \in Owned(d, s)
      BY <1>2, <2>1, MineIs
    <2>3. First(d, s) # x
      <3> SUFFICES ASSUME First(d, s) = x PROVE FALSE
        OBVIOUS
      <3>1. x # Root
        BY <2>2, FirstUnique
      <3>2. PICK r \in TreeSlots(d) : r[1] = Root /\ First(d, r) = x
        BY <3>1, SoundDirs
      <3>3. r = s
        BY <2>2, <3>2, FirstUnique, SoundDirs
      <3>4. s[1] = x
        BY <2>1
      <3> QED
        BY <3>1, <3>2, <3>3, <3>4
    <2> QED
      BY <2>2, <2>3, SoundApart, ReachIs
  <1>3. ASSUME NEW z \in Reach(d) PROVE z \in Clusters /\ d.fat[z] # FREE
    <2>1. CASE z \in Range(Chain(d.fat, Root))
      BY <2>1, ChainClusters DEF Sound
    <2>2. CASE \E s \in TreeSlots(d) : z \in Owned(d, s)
      <3>1. PICK s \in TreeSlots(d) : z \in Owned(d, s)
        BY <2>2
      <3>2. WellFormed(d.fat, First(d, s)) /\ z \in Range(Chain(d.fat, First(d, s)))
        BY <3>1, ReachIs DEF Sound
      <3> QED
        BY <3>2, ChainClusters
    <2> QED
      BY <2>1, <2>2, ReachIs
  <1> QED
    BY <1>1, <1>2, <1>3

LEMMA AsideDir ==
  ASSUME NEW d, Sound(d), NEW d2, NEW x, NEW j, Aside(d, d2, x, j)
  PROVE  /\ x \in Clusters /\ WellFormed(d2.fat, x) /\ Chain(d2.fat, x) = Chain(d.fat, x)
         /\ read_chain(d2, x) = read_chain(d, x)
         /\ \A z \in Clusters : d2.fat[z] = FREE => z \notin Range(Chain(d.fat, x)) /\ (z \in Reach(d) => z \in Mine(d, x, j))
  <1>1. d2 \in Volumes /\ x \in Dirs(d) /\ d \in Volumes
    BY DEF Aside, Sound
  <1>2. x \in Clusters /\ WellFormed(d.fat, x)
    BY <1>1, SoundDirs
  <1>3. \A z \in Range(Chain(d.fat, x)) : d2.fat[z] = d.fat[z] /\ d2.units[z] = d.units[z]
    BY <1>1, DirReach DEF Aside
  <1>4. /\ WellFormed(d2.fat, x) /\ Chain(d2.fat, x) = Chain(d.fat, x)
        /\ read_chain(d2, x) = read_chain(d, x)
    BY <1>1, <1>2, <1>3, Kept
  <1>5. \A z \in Clusters : d2.fat[z] = FREE => z \notin Range(Chain(d.fat, x)) /\ (z \in Reach(d) => z \in Mine(d, x, j))
    BY <1>1, <1>3, DirReach DEF Aside
  <1> QED
    BY <1>2, <1>4, <1>5

\* us1 is us0 of which the first i clusters have been overwritten with us, and more room.
Mixed(us0, us1, us, i) ==
  /\ us0 \in Seq(Units) /\ us1 \in Seq(Units) /\ us \in Seq(Units) /\ Len(us0) <= Len(us1)
  /\ \A k \in 1 .. Len(us1) :
        /\ ClusterNo(k) <= i => k \in 1 .. Len(us) /\ us1[k] = us[k]
        /\ ~(ClusterNo(k) <= i) /\ k <= Len(us0) => us1[k] = us0[k]
        /\ ~(ClusterNo(k) <= i) /\ ~(k <= Len(us0)) => us1[k] = Zero

LEMMA Reads ==
  ASSUME NEW d \in Volumes, NEW c
  PROVE  /\ read_chain(d, c) \in Seq(Units) /\ Len(read_chain(d, c)) = Len(Chain(d.fat, c)) * K
         /\ \A k \in 1 .. Len(Chain(d.fat, c)) * K :
               read_chain(d, c)[k] = d.units[Chain(d.fat, c)[ClusterNo(k)]][Within(k)]
  BY ReadChain

LEMMA DirRewrite ==
  ASSUME NEW d, Sound(d), NEW d2, NEW x, NEW j, Aside(d, d2, x, j),
         NEW us, NEW all, NEW old, NEW n, Planned(d2, x, us, all, old, n),
         old <= n, n = old \/ Mine(d, x, j) = {}, Len(us) = Needed(us) * K,
         NEW v, NEW i, NEW m, Shape(v, d2, old, all, n, us, i, m)
  PROVE  /\ \A z \in Reach(d) : \/ z \in Mine(d, x, j)
                                \/ z \in Range(Chain(d.fat, x))
                                \/ v.fat[z] = d.fat[z] /\ v.units[z] = d.units[z]
         /\ WellFormed(v.fat, x)
         /\ \A z \in Range(Chain(v.fat, x)) : z \in Range(Chain(d.fat, x)) \/ z \notin Reach(d)
         /\ \A z \in Clusters : d2.fat[z] # FREE /\ z \notin Range(Chain(d.fat, x)) =>
               v.fat[z] = d2.fat[z] /\ v.units[z] = d2.units[z] /\ z \notin Range(Chain(v.fat, x))
         /\ Mixed(read_chain(d, x), read_chain(v, x), us, i)
         /\ old \in 1 .. n /\ old <= m /\ Len(read_chain(d, x)) = old * K
         /\ \A k \in 1 .. old : all[k] = Chain(d.fat, x)[k] /\ all[k] \in Clusters /\ d2.units[all[k]] = d.units[all[k]]
  <1>1. /\ d2 \in Volumes /\ us \in Seq(Units) /\ WellFormed(d2.fat, x)
        /\ all = Usable(d2.fat, x) /\ old = Len(Chain(d2.fat, x))
        /\ d2.fat \in [Clusters -> FatValues] /\ d \in Volumes /\ x \in Dirs(d)
    BY DEF Planned, Volumes, Sound, Aside
  <1>2. /\ x \in Clusters /\ Chain(d2.fat, x) = Chain(d.fat, x)
        /\ read_chain(d2, x) = read_chain(d, x)
        /\ \A z \in Clusters : d2.fat[z] = FREE => z \notin Range(Chain(d.fat, x)) /\ (z \in Reach(d) => z \in Mine(d, x, j))
    BY AsideDir
  <1>3. PICK s \in Seq(Clusters) : s = Chain(d.fat, x) /\ s # <<>> /\ s[1] = x /\ old = Len(s)
    BY <1>1, <1>2, ChainLinks
  <1>4. old \in Nat /\ old # 0
    BY <1>3, LenProperties, EmptySeq
  <1>5. n # 0 /\ n \in Nat
    BY <1>4, WriteChainTask
  <1>6. Task(d2, old, all, n, us)
    BY <1>5, WriteChainTask
  <1>7. /\ \A k \in 1 .. old : all[k] = s[k]
        /\ \A k \in (old + 1) .. Len(all) : d2.fat[all[k]] = FREE
    BY <1>1, <1>2, <1>3, UsableFacts
  <1>8. /\ n \in 1 .. Len(all) /\ Len(all) \in Nat /\ m \in 0 .. Len(all) /\ i \in 0 .. n /\ v \in Volumes
        /\ m >= old /\ (m <= old \/ m <= n)
    BY <1>4, <1>5, <1>6 DEF Task, Shape
  <1>9. \A k \in 1 .. Len(all) : all[k] \in Clusters
    BY <1>6, TaskFacts
  <1>10. Range(s) = {s[k] : k \in 1 .. old}
    BY <1>3, LenProperties DEF Range
  \* The clusters used are the chain's or come from outside the tree.
  <1>11. ASSUME NEW k \in 1 .. Len(all), k <= n \/ k <= m
         PROVE  /\ k \in 1 .. old \/ d2.fat[all[k]] = FREE
                /\ all[k] \in Range(s) \/ all[k] \notin Reach(d)
    <2>1. CASE k \in 1 .. old
      BY <1>7, <1>10, <2>1
    <2>2. CASE k \notin 1 .. old
      <3>1. k \in (old + 1) .. Len(all) /\ n # old
        BY <1>4, <1>8, <1>11, <2>2
      <3>2. d2.fat[all[k]] = FREE
        BY <1>7, <3>1
      <3>3. all[k] \in Clusters /\ Mine(d, x, j) = {}
        BY <1>9, <3>1
      <3> QED
        BY <1>2, <3>2, <3>3
    <2> QED
      BY <2>1, <2>2
  <1>12. PICK t : t = SubSeq(all, 1, m)
    OBVIOUS
  <1>13. t \in Seq(Clusters) /\ Len(t) = m /\ \A k \in 1 .. m : t[k] = all[k]
    BY <1>6, <1>8, <1>12, TaskFacts
  <1>14. ChainOf(v.fat, x, t)
    <2>1. m > 0 /\ all[1] = x
      BY <1>3, <1>4, <1>7, <1>8
    <2> QED
      BY <1>12, <2>1 DEF Shape
  <1>15. WellFormed(v.fat, x) /\ Chain(v.fat, x) = t
    BY <1>14, ChainIsWellFormed
  <1>16. Range(t) = {all[k] : k \in 1 .. m}
    BY <1>13, LenProperties DEF Range
  <1>17. \A k \in 1 .. m : k \in 1 .. Len(all) /\ k <= m
    BY <1>8
  <1>18. \A k \in 1 .. n : k \in 1 .. Len(all) /\ k <= n
    BY <1>8
  <1>19. ASSUME NEW z \in Reach(d), z \notin Mine(d, x, j), z \notin Range(s)
         PROVE  v.fat[z] = d.fat[z] /\ v.units[z] = d.units[z]
    <2>1. z \in Clusters
      BY <1>1, DirReach
    <2>2. \A k \in 1 .. n : all[k] # z
      BY <1>11, <1>18, <1>19
    <2>3. v.fat[z] = d2.fat[z] /\ v.units[z] = d2.units[z]
      BY <2>1, <2>2 DEF Shape
    <2> QED
      BY <1>19, <2>3 DEF Aside
  <1>20. \A z \in Range(t) : z \in Range(s) \/ z \notin Reach(d)
    BY <1>11, <1>16, <1>17
  <1>21. ASSUME NEW z \in Clusters, d2.fat[z] # FREE, z \notin Range(s)
         PROVE  v.fat[z] = d2.fat[z] /\ v.units[z] = d2.units[z] /\ z \notin Range(t)
    <2>1. \A k \in 1 .. Len(all) : all[k] # z \/ ~(k <= n \/ k <= m)
      BY <1>7, <1>10, <1>11, <1>21
    <2>2. \A k \in 1 .. n : all[k] # z
      BY <1>18, <2>1
    <2>3. z \notin Range(t)
      BY <1>16, <1>17, <2>1
    <2> QED
      BY <2>2, <2>3 DEF Shape
  <1>22. ASSUME NEW k \in 1 .. old
         PROVE  all[k] = s[k] /\ all[k] \in Clusters /\ d2.units[all[k]] = d.units[all[k]]
    <2>1. k \in 1 .. Len(all)
      BY <1>4, <1>8
    <2>2. all[k] \in Range(s)
      BY <1>7, <1>10
    <2>3. all[k] \in Reach(d) /\ all[k] \notin Mine(d, x, j)
      BY <1>1, <1>3, <2>2, DirReach
    <2> QED
      BY <1>7, <1>9, <2>1, <2>3 DEF Aside
  <1>23. PICK us0, us1 : us0 = read_chain(d, x) /\ us1 = read_chain(v, x)
    OBVIOUS
  <1>24. PICK l0 \in Nat, l1 \in Nat : l0 = old * K /\ l1 = m * K
    BY <1>4, <1>8, ClusterFacts
  <1>25. /\ us0 \in Seq(Units) /\ Len(us0) = l0
         /\ \A k \in 1 .. l0 : us0[k] = d.units[s[ClusterNo(k)]][Within(k)]
    <2>1. /\ read_chain(d, x) \in Seq(Units) /\ Len(read_chain(d, x)) = Len(s) * K
          /\ \A k \in 1 .. Len(s) * K : read_chain(d, x)[k] = d.units[s[ClusterNo(k)]][Within(k)]
      BY <1>1, <1>3, Reads
    <2> QED
      BY <1>3, <1>23, <1>24, <2>1
  <1>26. /\ us1 \in Seq(Units) /\ Len(us1) = l1
         /\ \A k \in 1 .. l1 : /\ k \in Nat \ {0} /\ ClusterNo(k) \in 1 .. m /\ Within(k) \in 1 .. K
                               /\ us1[k] = v.units[t[ClusterNo(k)]][Within(k)]
    BY <1>8, <1>13, <1>15, <1>23, <1>24, ReadChain, SMTT(40)
  <1>27. l0 <= l1
    <2>1. m - old \in Nat /\ K \in Nat
      BY <1>4, <1>8, ClusterFacts
    <2>2. (m - old) * K \in Nat /\ m * K = old * K + (m - old) * K
      BY <1>4, <1>8, <2>1
    <2> QED
      BY <1>24, <2>2
  <1>28. ASSUME NEW k \in 1 .. l1
         PROVE  /\ ClusterNo(k) <= i => k \in 1 .. Len(us) /\ us1[k] = us[k]
                /\ ~(ClusterNo(k) <= i) /\ k <= Len(us0) => us1[k] = us0[k]
                /\ ~(ClusterNo(k) <= i) /\ ~(k <= Len(us0)) => us1[k] = Zero
    <2>1. PICK q \in 1 .. m : q = ClusterNo(k)
      BY <1>26
    <2>2. PICK r \in 1 .. K : r = Within(k)
      BY <1>26
    <2>3. us1[k] = v.units[all[q]][r] /\ k \in Nat \ {0}
      BY <1>13, <1>26, <2>1, <2>2
    <2>4. v.units[all[q]] = IF q <= i THEN Piece(us, q) ELSE IF q <= old THEN d2.units[all[q]] ELSE Zeros(K)
      BY DEF Shape
    <2>5. k <= l0 <=> q <= old
      BY <1>4, <1>24, <2>1, <2>3, PositionIn
    <2>6. CASE q <= i
      <3>1. q \in 1 .. Needed(us) /\ q \in Nat /\ Needed(us) \in Nat
        BY <1>6, <1>8, <2>6 DEF Task
      <3>2. k = (q - 1) * K + r
        BY <2>1, <2>2, <2>3, Position
      <3>3. Piece(us, q)[r] = IF (q - 1) * K + r <= Len(us) THEN us[(q - 1) * K + r] ELSE Zero
        BY <1>1, <3>1, PieceFacts
      <3>4. k <= Len(us)
        BY <2>1, <2>3, <3>1, PositionIn
      <3>5. us1[k] = us[k]
        BY <2>3, <2>4, <2>6, <3>2, <3>3, <3>4
      <3>6. Len(us) \in Nat
        BY <1>1, LenProperties
      <3> QED
        BY <2>1, <2>3, <2>6, <3>4, <3>5, <3>6
    <2>7. CASE ~(q <= i) /\ q <= old
      <3>1. q \in 1 .. old
        BY <1>4, <2>7
      <3>2. v.units[all[q]] = d2.units[all[q]]
        BY <2>4, <2>7
      <3>3. us1[k] = d.units[s[q]][r]
        BY <1>22, <2>3, <3>1, <3>2
      <3>4. k \in 1 .. l0
        BY <1>24, <2>3, <2>5, <2>7
      <3>5. us1[k] = us0[k]
        BY <1>25, <2>1, <2>2, <3>3, <3>4
      <3> QED
        BY <1>25, <2>1, <2>5, <2>7, <3>5
    <2>8. CASE ~(q <= i) /\ ~(q <= old)
      <3>1. us1[k] = Zero
        BY <2>3, <2>4, <2>8, ZerosFacts
      <3> QED
        BY <1>25, <2>1, <2>5, <2>8, <3>1
    <2> QED
      BY <2>6, <2>7, <2>8
  <1>29. Mixed(us0, us1, us, i)
    BY <1>1, <1>25, <1>26, <1>27, <1>28 DEF Mixed
  <1>30. old \in 1 .. n /\ old <= m /\ Len(us0) = old * K
    BY <1>4, <1>5, <1>8, <1>24, <1>25
  <1> QED
    BY <1>3, <1>15, <1>19, <1>20, <1>21, <1>22, <1>23, <1>29, <1>30

\* From us0 to us1 the entries of a directory changed in slot j at most.
SlotEdit(us0, us1, j) ==
  /\ EndsWithZeros(us1)
  /\ \A k : k # j => (k \in DirSlots(us1) <=> k \in DirSlots(us0))
  /\ \A k \in DirSlots(us0) : k # j => us1[k] = us0[k]

LEMMA SlotEdited ==
  ASSUME NEW us0 \in Seq(Units), NEW us1 \in Seq(Units), Len(us0) <= Len(us1),
         EndsWithZeros(us0), EndsWithZeros(us1), NEW j,
         \A k \in 1 .. Len(us1) : k # j =>
            /\ us1[k].t = "entry" => k <= Len(us0) /\ us0[k].t = "entry"
            /\ k <= Len(us0) /\ us0[k].t = "entry" => us1[k] = us0[k]
  PROVE  SlotEdit(us0, us1, j)
  <1>1. /\ DirSlots(us0) = {k \in 1 .. Len(us0) : us0[k].t = "entry"}
        /\ DirSlots(us1) = {k \in 1 .. Len(us1) : us1[k].t = "entry"}
        /\ Len(us0) \in Nat /\ Len(us1) \in Nat
    BY EntrySlots, LenProperties
  <1>2. ASSUME NEW k \in DirSlots(us0), k # j PROVE k \in DirSlots(us1) /\ us1[k] = us0[k]
    <2>1. k \in 1 .. Len(us0) /\ us0[k].t = "entry" /\ k \in 1 .. Len(us1) /\ k <= Len(us0)
      BY <1>1
    <2> QED
      BY <1>1, <1>2, <2>1
  <1>3. ASSUME NEW k \in DirSlots(us1), k # j PROVE k \in DirSlots(us0)
    <2>1. k \in 1 .. Len(us1) /\ us1[k].t = "entry"
      BY <1>1
    <2>2. k \in 1 .. Len(us0) /\ us0[k].t = "entry"
      BY <1>1, <1>3, <2>1
    <2> QED
      BY <1>1, <2>2
  <1> QED
    BY <1>2, <1>3 DEF SlotEdit

LEMMA UnitTags ==
  /\ Zero.t = "zero" /\ Deleted.t = "deleted" /\ Deleted # Zero
  /\ \A u : u.t = "entry" => u # Zero /\ u # Deleted
  /\ \A n : Lfn(n).t = "lfn" /\ Lfn(n) # Zero
  /\ \A n, b, c, z : /\ Entry(n, b, c, z).t = "entry" /\ Entry(n, b, c, z).name = n
                     /\ Entry(n, b, c, z).dir = b /\ Entry(n, b, c, z).cluster = c
                     /\ Entry(n, b, c, z).size = z
  BY DEF Zero, Deleted, Lfn, Entry

Updated(us, j, e) == [us EXCEPT ![j] = e]

\* The rewrite changes an entry.
LEMMA MixUpdate ==
  ASSUME NEW us0, NEW us1, NEW us, NEW i, Mixed(us0, us1, us, i), EndsWithZeros(us0),
         NEW j \in DirSlots(us0), NEW e \in Units, e.t = "entry", us = Updated(us0, j, e)
  PROVE  /\ SlotEdit(us0, us1, j) /\ j \in DirSlots(us1)
         /\ ClusterNo(j) <= i => us1[j] = e
         /\ ~(ClusterNo(j) <= i) => us1[j] = us0[j]
  <1>1. PICK l \in Nat, l1 \in Nat : /\ l = Len(us0) /\ l1 = Len(us1) /\ l <= l1
                                     /\ us0 \in Seq(Units) /\ us1 \in Seq(Units)
    BY LenProperties DEF Mixed
  <1>2. j \in 1 .. l /\ us0[j].t = "entry" /\ j \in 1 .. l1 /\ j <= l
    BY <1>1, LenProperties DEF DirSlots
  <1>3. Len(us) = l /\ us[j] = e /\ \A k \in 1 .. l : k # j => us[k] = us0[k]
    <2>1. DOMAIN us0 = 1 .. l /\ us0 \in [1 .. l -> Units]
      BY <1>1, LenProperties
    <2>2. us[j] = e /\ \A k \in 1 .. l : k # j => us[k] = us0[k]
      BY <1>2, <2>1 DEF Updated
    <2>3. Len(us) = l
      BY <1>1, <1>2, ExceptSeq DEF Updated
    <2> QED
      BY <2>2, <2>3
  <1>4. ASSUME NEW k \in 1 .. l1, k # j
        PROVE  (k <= l => us1[k] = us0[k]) /\ (~(k <= l) => us1[k] = Zero)
    BY <1>1, <1>3, <1>4 DEF Mixed
  <1>5. /\ ClusterNo(j) <= i => us1[j] = e
        /\ ~(ClusterNo(j) <= i) => us1[j] = us0[j]
        /\ us1[j].t = "entry" /\ us1[j] # Zero /\ us0[j] # Zero
    BY <1>1, <1>2, <1>3, UnitTags DEF Mixed
  <1>6. EndsWithZeros(us1)
    <2> SUFFICES ASSUME NEW a \in 1 .. l1, NEW b \in 1 .. l1, a < b, us1[a] = Zero PROVE us1[b] = Zero
      BY <1>1, LenProperties DEF EndsWithZeros
    <2>1. a # j
      BY <1>5
    <2>2. CASE a <= l /\ b <= l
      <3>1. a \in 1 .. l /\ b \in 1 .. l /\ us0[a] = Zero
        BY <1>1, <1>4, <2>1, <2>2
      <3>2. us0[b] = Zero
        BY <1>1, <3>1, LenProperties DEF EndsWithZeros
      <3>3. b # j
        BY <1>5, <3>2
      <3> QED
        BY <1>4, <2>2, <3>2, <3>3
    <2>3. CASE ~(b <= l)
      <3>1. b # j
        BY <1>2, <2>3
      <3> QED
        BY <1>4, <2>3, <3>1
    <2> QED
      BY <1>1, <2>2, <2>3
  <1>7. SlotEdit(us0, us1, j)
    <2>1. \A k \in 1 .. Len(us1) : k # j =>
            /\ us1[k].t = "entry" => k <= Len(us0) /\ us0[k].t = "entry"
            /\ k <= Len(us0) /\ us0[k].t = "entry" => us1[k] = us0[k]
      BY <1>1, <1>4, UnitTags
    <2> QED
      BY <1>1, <1>6, <2>1, SlotEdited
  <1>8. j \in DirSlots(us1)
    BY <1>1, <1>2, <1>5, <1>6, EntrySlots, LenProperties
  <1> QED
    BY <1>5, <1>7, <1>8

\* The rewrite removes an entry.
LEMMA MixRemove ==
  ASSUME NEW us0, NEW us1, NEW us, NEW i, Mixed(us0, us1, us, i), EndsWithZeros(us0),
         NEW j \in DirSlots(us0), us = Without(us0, j)
  PROVE  /\ SlotEdit(us0, us1, j)
         /\ ClusterNo(j) <= i => j \notin DirSlots(us1)
         /\ ~(ClusterNo(j) <= i) => j \in DirSlots(us1) /\ us1[j] = us0[j]
  <1>1. PICK l \in Nat, l1 \in Nat : /\ l = Len(us0) /\ l1 = Len(us1) /\ l <= l1
                                     /\ us0 \in Seq(Units) /\ us1 \in Seq(Units)
    BY LenProperties DEF Mixed
  <1>2. j \in 1 .. l /\ us0[j].t = "entry" /\ j \in 1 .. l1 /\ j <= l
    BY <1>1, LenProperties DEF DirSlots
  <1>3. /\ Len(us) = l /\ us[j] = Deleted
        /\ \A k \in 1 .. l : us[k] = us0[k] \/ (us[k] = Deleted /\ (k = j \/ us0[k].t = "lfn"))
    BY <1>1, <1>2 DEF Without
  <1>4. ASSUME NEW k \in 1 .. l1
        PROVE  /\ k <= l => us1[k] = us0[k] \/ (us1[k] = Deleted /\ (k = j \/ us0[k].t = "lfn"))
               /\ ~(k <= l) => us1[k] = Zero
    BY <1>1, <1>3 DEF Mixed
  <1>5. /\ ClusterNo(j) <= i => us1[j] = Deleted
        /\ ~(ClusterNo(j) <= i) => us1[j] = us0[j]
        /\ us0[j] # Zero
    BY <1>1, <1>2, <1>3, UnitTags DEF Mixed
  <1>6. EndsWithZeros(us1)
    <2> SUFFICES ASSUME NEW a \in 1 .. l1, NEW b \in 1 .. l1, a < b, us1[a] = Zero PROVE us1[b] = Zero
      BY <1>1, LenProperties DEF EndsWithZeros
    <2>1. CASE a <= l /\ b <= l
      <3>1. a \in 1 .. l /\ b \in 1 .. l /\ us0[a] = Zero
        BY <1>1, <1>4, <2>1, UnitTags
      <3>2. us0[b] = Zero
        BY <1>1, <3>1, LenProperties DEF EndsWithZeros
      <3>3. b # j /\ us0[b].t # "lfn"
        BY <1>5, <3>2, UnitTags
      <3> QED
        BY <1>4, <2>1, <3>2, <3>3
    <2>2. CASE ~(b <= l)
      BY <1>4, <2>2
    <2> QED
      BY <1>1, <2>1, <2>2
  <1>7. SlotEdit(us0, us1, j)
    <2>1. \A k \in 1 .. Len(us1) : k # j =>
            /\ us1[k].t = "entry" => k <= Len(us0) /\ us0[k].t = "entry"
            /\ k <= Len(us0) /\ us0[k].t = "entry" => us1[k] = us0[k]
      BY <1>1, <1>4, UnitTags
    <2> QED
      BY <1>1, <1>6, <2>1, SlotEdited
  <1>8. DirSlots(us1) = {k \in 1 .. l1 : us1[k].t = "entry"}
    BY <1>1, <1>6, EntrySlots, LenProperties
  <1> QED
    BY <1>2, <1>5, <1>7, <1>8, UnitTags

\* The room find_free_dir_slots makes: one cluster of zeros at the end, if any.
LEMMA RoomFacts ==
  ASSUME NEW us0 \in Seq(Units), EndsWithZeros(us0), NEW n \in 1 .. 2,
         NEW rm, rm = Room(us0, n), NEW slot0, slot0 = Min(FreeRuns(rm, n))
  PROVE  /\ rm \in Seq(Units) /\ (Len(rm) = Len(us0) \/ Len(rm) = Len(us0) + K)
         /\ \A k \in 1 .. Len(us0) : rm[k] = us0[k]
         /\ \A k \in 1 .. Len(rm) : ~(k <= Len(us0)) => rm[k] = Zero
         /\ slot0 \in Nat /\ slot0 >= 1 /\ slot0 + n - 1 <= Len(rm)
         /\ \A k \in slot0 .. (slot0 + n - 1) : IsFree(rm[k])
         /\ \A k \in 1 .. Len(rm) : rm[k] = Zero => slot0 <= k
  <1>1. PICK l \in Nat : l = Len(us0)
    BY LenProperties
  <1>2. K \in Nat /\ K >= 2 /\ n \in Nat /\ n >= 1 /\ n <= 2
    BY ClusterFacts
  <1>3. /\ rm \in Seq(Units) /\ (Len(rm) = l \/ Len(rm) = l + K)
        /\ \A k \in 1 .. l : rm[k] = us0[k]
        /\ \A k \in 1 .. Len(rm) : ~(k <= l) => rm[k] = Zero
        /\ FreeRuns(us0, n) = {} => Len(rm) = l + K
        /\ FreeRuns(us0, n) # {} => rm = us0
    <2>1. CASE FreeRuns(us0, n) # {}
      BY <1>1, <2>1 DEF Room
    <2>2. CASE FreeRuns(us0, n) = {}
      <3>1. PICK zs \in Seq(Units) : zs = Zeros(K) /\ Len(zs) = K /\ \A r \in 1 .. K : zs[r] = Zero
        BY ZerosFacts
      <3>2. rm = us0 \o zs
        BY <2>2, <3>1 DEF Room
      <3>3. /\ rm \in Seq(Units) /\ Len(rm) = Len(us0) + Len(zs)
            /\ \A k \in 1 .. (Len(us0) + Len(zs)) : rm[k] = IF k <= Len(us0) THEN us0[k] ELSE zs[k - Len(us0)]
        BY <3>2, ConcatProperties
      <3>4. /\ Len(rm) = l + K
            /\ \A k \in 1 .. (l + K) : rm[k] = IF k <= l THEN us0[k] ELSE zs[k - l]
        BY <1>1, <3>1, <3>3
      <3>5. \A k \in 1 .. (l + K) : ~(k <= l) => k - l \in 1 .. K
        BY <1>1, <1>2
      <3>6. \A k \in 1 .. l : k \in 1 .. (l + K) /\ k <= l
        BY <1>1, <1>2
      <3> QED
        BY <2>2, <3>1, <3>3, <3>4, <3>5, <3>6
    <2> QED
      BY <2>1, <2>2
  <1>4. PICK o \in Nat : o = Len(rm)
    BY <1>3, LenProperties
  <1>5. ASSUME NEW k \in 1 .. o, rm[k] = Zero, NEW b \in k .. o PROVE rm[b] = Zero
    <2>1. CASE b <= l
      <3>1. k \in 1 .. l /\ b \in 1 .. l /\ us0[k] = Zero /\ rm[b] = us0[b]
        BY <1>1, <1>3, <1>5, <2>1
      <3>2. k < b \/ k = b
        BY <3>1
      <3> QED
        BY <1>1, <3>1, <3>2, LenProperties DEF EndsWithZeros
    <2>2. CASE ~(b <= l)
      <3>1. b \in 1 .. o
        BY <1>4
      <3> QED
        BY <1>3, <1>4, <2>2, <3>1
    <2> QED
      BY <2>1, <2>2
  <1>6. PICK S : S = FreeRuns(rm, n)
    OBVIOUS
  <1>7. S = {a \in 1 .. (o - n + 1) : \A k \in a .. (a + n - 1) : IsFree(rm[k])}
    BY <1>4, <1>6 DEF FreeRuns
  <1>8. S # {}
    <2>1. CASE FreeRuns(us0, n) # {}
      BY <1>3, <1>6, <2>1
    <2>2. CASE FreeRuns(us0, n) = {}
      <3>1. o = l + K
        BY <1>3, <1>4, <2>2
      <3>2. l + 1 \in 1 .. (o - n + 1)
        BY <1>1, <1>2, <3>1
      <3>3. ASSUME NEW k \in (l + 1) .. (l + 1 + n - 1) PROVE IsFree(rm[k])
        <4>1. k \in 1 .. o /\ ~(k <= l)
          BY <1>1, <1>2, <3>1
        <4> QED
          BY <1>3, <1>4, <4>1, UnitTags DEF IsFree
      <3> QED
        BY <1>7, <3>2, <3>3
    <2> QED
      BY <2>1, <2>2
  <1>9. S \in SUBSET Nat
    BY <1>7
  <1>10. slot0 \in S /\ \A y \in S : slot0 <= y
    BY <1>6, <1>8, <1>9, LeastOf
  <1>11. slot0 \in 1 .. (o - n + 1) /\ \A k \in slot0 .. (slot0 + n - 1) : IsFree(rm[k])
    BY <1>7, <1>10
  <1>12. slot0 \in Nat /\ slot0 >= 1 /\ slot0 + n - 1 <= o
    BY <1>2, <1>4, <1>11
  <1>13. ASSUME NEW k \in 1 .. o, rm[k] = Zero PROVE slot0 <= k
    <2>1. CASE k <= o - n + 1
      <3>1. \A b \in k .. (k + n - 1) : b \in k .. o
        BY <1>2, <1>4, <2>1
      <3>2. \A b \in k .. (k + n - 1) : IsFree(rm[b])
        BY <1>5, <1>13, <3>1, UnitTags DEF IsFree
      <3>3. k \in S
        BY <1>2, <1>4, <1>7, <2>1, <3>2
      <3> QED
        BY <1>10, <3>3
    <2>2. CASE ~(k <= o - n + 1)
      BY <1>2, <1>4, <1>12, <2>2
    <2> QED
      BY <2>1, <2>2
  <1> QED
    BY <1>1, <1>3, <1>4, <1>11, <1>12, <1>13

LEMMA WithEntrySeq ==
  ASSUME NEW rm \in Seq(Units), NEW n, NEW slot0,
         NEW e \in Units, e.t = "entry"
  PROVE  WithEntry(rm, slot0, n, e) \in Seq(Units) /\ Len(WithEntry(rm, slot0, n, e)) = Len(rm)
  <1>1. PICK l \in Nat : l = Len(rm)
    BY LenProperties
  <1> DEFINE us == WithEntry(rm, slot0, n, e)
  <1>2. us = [k \in 1 .. l |-> IF k = slot0 + n - 1 THEN e ELSE IF k \in slot0 .. (slot0 + n - 2) THEN Lfn(e.name) ELSE rm[k]]
    BY <1>1 DEF WithEntry
  <1>3. \A k \in 1 .. l : rm[k] \in Units
    BY <1>1, ElementOfSeq
  <1>4. Lfn(e.name) \in Units
    BY UnitFacts, UnitKinds
  <1>5. \A k \in 1 .. l : us[k] \in Units
    <2> SUFFICES ASSUME NEW k \in 1 .. l PROVE us[k] \in Units
      OBVIOUS
    <2>1. us[k] = e \/ us[k] = Lfn(e.name) \/ us[k] = rm[k]
      BY <1>2
    <2> HIDE DEF us
    <2> QED
      BY <1>3, <1>4, <2>1
  <1>6. us \in [1 .. l -> Units]
    BY <1>2, <1>5
  <1> QED
    BY <1>1, <1>6, IsASeq, LenProperties

\* rm is the directory us0 with room for n slots at slot0.
RoomFor(us0, n, rm, slot0) == rm = Room(us0, n) /\ slot0 = Min(FreeRuns(rm, n))

LEMMA RoomForFacts ==
  ASSUME NEW us0 \in Seq(Units), EndsWithZeros(us0), NEW n \in 1 .. 2,
         NEW rm, NEW slot0, RoomFor(us0, n, rm, slot0)
  PROVE  /\ rm \in Seq(Units) /\ (Len(rm) = Len(us0) \/ Len(rm) = Len(us0) + K)
         /\ \A k \in 1 .. Len(us0) : rm[k] = us0[k]
         /\ \A k \in 1 .. Len(rm) : ~(k <= Len(us0)) => rm[k] = Zero
         /\ slot0 \in Nat /\ slot0 >= 1 /\ slot0 + n - 1 <= Len(rm)
         /\ \A k \in slot0 .. (slot0 + n - 1) : IsFree(rm[k])
         /\ \A k \in 1 .. Len(rm) : rm[k] = Zero => slot0 <= k
  BY RoomFacts DEF RoomFor

\* us is rm with the entry e in the n slots from slot0 to j.
Adding(us, rm, slot0, n, e, j) ==
  /\ rm \in Seq(Units) /\ n \in 1 .. 2 /\ slot0 \in Nat /\ slot0 >= 1 /\ slot0 + n - 1 <= Len(rm)
  /\ e \in Units /\ e.t = "entry" /\ us = WithEntry(rm, slot0, n, e) /\ j = slot0 + n - 1

\* What that leaves: e in slot j, its long name before it, every other slot as it was in rm.
Added(us, rm, slot0, e, j) ==
  /\ Len(us) = Len(rm) /\ us[j] = e
  /\ \A k \in 1 .. Len(rm) : k \in slot0 .. j /\ k # j => us[k] = Lfn(e.name)
  /\ \A k \in 1 .. Len(rm) : k \notin slot0 .. j => us[k] = rm[k]

\* WithEntry, the units add_dir_entry writes, puts e there and touches no other slot.
LEMMA AddingAdds ==
  ASSUME NEW us, NEW rm, NEW slot0, NEW n, NEW e, NEW j, Adding(us, rm, slot0, n, e, j)
  PROVE  Added(us, rm, slot0, e, j)
  <1>1. /\ rm \in Seq(Units) /\ n \in 1 .. 2 /\ slot0 \in Nat /\ slot0 >= 1 /\ slot0 + n - 1 <= Len(rm)
        /\ e \in Units /\ e.t = "entry" /\ us = WithEntry(rm, slot0, n, e) /\ j = slot0 + n - 1
    BY DEF Adding
  <1>2. PICK l \in Nat : l = Len(rm)
    BY <1>1, LenProperties
  <1>3. us = [k \in 1 .. l |-> IF k = slot0 + n - 1 THEN e ELSE IF k \in slot0 .. (slot0 + n - 2) THEN Lfn(e.name) ELSE rm[k]]
    BY <1>1, <1>2 DEF WithEntry
  <1>4. Len(us) = l
    BY <1>1, <1>2, WithEntrySeq
  <1>5. us[j] = e
    <2>1. j \in 1 .. l
      BY <1>1, <1>2
    <2> QED
      BY <1>1, <1>3, <2>1
  <1>6. ASSUME NEW k \in 1 .. l, k \in slot0 .. j, k # j PROVE us[k] = Lfn(e.name)
    <2>1. k \in slot0 .. (slot0 + n - 2) /\ k # slot0 + n - 1
      BY <1>1, <1>6
    <2> QED
      BY <1>3, <1>6, <2>1
  <1>7. ASSUME NEW k \in 1 .. l, k \notin slot0 .. j PROVE us[k] = rm[k]
    <2>1. k \notin slot0 .. (slot0 + n - 2) /\ k # slot0 + n - 1
      BY <1>1, <1>7
    <2> QED
      BY <1>3, <1>7, <2>1
  <1> QED
    BY <1>2, <1>4, <1>5, <1>6, <1>7 DEF Added

\* The rewrite adds an entry.
LEMMA MixAdd ==
  ASSUME NEW us0, NEW us1, NEW us, NEW i \in Nat, Mixed(us0, us1, us, i), EndsWithZeros(us0),
         NEW n \in 1 .. 2, NEW rm, rm = Room(us0, n), NEW slot0, slot0 = Min(FreeRuns(rm, n)),
         NEW e \in Units, e.t = "entry", us = WithEntry(rm, slot0, n, e), NEW j, j = slot0 + n - 1
  PROVE  /\ SlotEdit(us0, us1, j) /\ j \notin DirSlots(us0)
         /\ j \in DirSlots(us1) => us1[j] = e
  <1>1. PICK l \in Nat, l1 \in Nat : /\ l = Len(us0) /\ l1 = Len(us1) /\ l <= l1
                                     /\ us0 \in Seq(Units) /\ us1 \in Seq(Units)
    BY LenProperties DEF Mixed
  <1>2. /\ rm \in Seq(Units) /\ (Len(rm) = l \/ Len(rm) = l + K)
        /\ \A k \in 1 .. l : rm[k] = us0[k]
        /\ \A k \in 1 .. Len(rm) : ~(k <= l) => rm[k] = Zero
        /\ slot0 \in Nat /\ slot0 >= 1 /\ slot0 + n - 1 <= Len(rm)
        /\ \A k \in slot0 .. (slot0 + n - 1) : IsFree(rm[k])
        /\ \A k \in 1 .. Len(rm) : rm[k] = Zero => slot0 <= k
    <2>1. RoomFor(us0, n, rm, slot0)
      BY Zenon DEF RoomFor
    <2>2. /\ rm \in Seq(Units) /\ (Len(rm) = Len(us0) \/ Len(rm) = Len(us0) + K)
          /\ \A k \in 1 .. Len(us0) : rm[k] = us0[k]
          /\ \A k \in 1 .. Len(rm) : ~(k <= Len(us0)) => rm[k] = Zero
          /\ slot0 \in Nat /\ slot0 >= 1 /\ slot0 + n - 1 <= Len(rm)
          /\ \A k \in slot0 .. (slot0 + n - 1) : IsFree(rm[k])
          /\ \A k \in 1 .. Len(rm) : rm[k] = Zero => slot0 <= k
      BY <1>1, <2>1, RoomForFacts
    <2> QED
      BY <1>1, <2>2
  <1>3. PICK o \in Nat : o = Len(rm) /\ l <= o
    <2>1. PICK o \in Nat : o = Len(rm)
      BY <1>2, LenProperties
    <2>2. o = l \/ o = l + K
      BY <1>2, <2>1
    <2> QED
      BY <2>1, <2>2, ClusterFacts
  <1>4. /\ Len(us) = o /\ us[j] = e
        /\ \A k \in 1 .. o : k \in slot0 .. j /\ k # j => us[k] = Lfn(e.name)
        /\ \A k \in 1 .. o : k \notin slot0 .. j => us[k] = rm[k]
    <2>1. Adding(us, rm, slot0, n, e, j)
      BY <1>2, Zenon DEF Adding
    <2>2. Added(us, rm, slot0, e, j)
      BY <2>1, AddingAdds
    <2> QED
      BY <1>3, <2>2 DEF Added
  <1>5. j \in Nat /\ slot0 <= j /\ j <= o /\ j \in 1 .. o /\ j \in slot0 .. j
    BY <1>2, <1>3
  <1>6. ASSUME NEW k \in slot0 .. j
        PROVE  k \in 1 .. o /\ IsFree(rm[k]) /\ (k <= l => IsFree(us0[k])) /\ (ClusterNo(k) <= i => us[k] # Zero)
    <2>1. k \in 1 .. o /\ IsFree(rm[k])
      BY <1>2, <1>3, <1>5
    <2>2. k <= l => IsFree(us0[k])
      BY <1>1, <1>2, <2>1
    <2>3. us[k] # Zero
      <3>1. CASE k = j
        BY <1>4, <3>1, UnitTags
      <3>2. CASE k # j
        BY <1>4, <2>1, <3>2, UnitTags
      <3> QED
        BY <3>1, <3>2
    <2> QED
      BY <2>1, <2>2, <2>3
  \* What is not overwritten by the entry is as it was, or zero.
  <1>7. ASSUME NEW k \in 1 .. l1, ~(k \in slot0 .. j /\ ClusterNo(k) <= i)
        PROVE  (k <= l => us1[k] = us0[k]) /\ (~(k <= l) => us1[k] = Zero)
    <2>1. CASE ClusterNo(k) <= i
      <3>1. k \in 1 .. o /\ us1[k] = us[k] /\ k \notin slot0 .. j
        BY <1>1, <1>4, <1>7, <2>1 DEF Mixed
      <3>2. us1[k] = rm[k]
        BY <1>4, <3>1
      <3> QED
        BY <1>1, <1>2, <1>3, <3>1, <3>2
    <2>2. CASE ~(ClusterNo(k) <= i)
      BY <1>1, <2>2 DEF Mixed
    <2> QED
      BY <2>1, <2>2
  <1>8. ASSUME NEW k \in 1 .. l1, k \in slot0 .. j, ClusterNo(k) <= i
        PROVE  us1[k] = us[k] /\ us1[k] # Zero /\ (k # j => us1[k].t # "entry") /\ (k = j => us1[k] = e)
    <2>1. us1[k] = us[k]
      BY <1>1, <1>8 DEF Mixed
    <2> QED
      BY <1>4, <1>6, <1>8, <2>1, UnitTags
  <1>9. EndsWithZeros(us1)
    <2> SUFFICES ASSUME NEW a \in 1 .. l1, NEW b \in 1 .. l1, a < b, us1[a] = Zero PROVE us1[b] = Zero
      BY <1>1, LenProperties DEF EndsWithZeros
    <2>1. ~(a \in slot0 .. j /\ ClusterNo(a) <= i)
      BY <1>8
    <2>2. slot0 <= a
      <3>1. CASE a <= l
        <4>1. a \in 1 .. l /\ a \in 1 .. o /\ us0[a] = Zero
          BY <1>1, <1>3, <1>7, <2>1, <3>1
        <4> QED
          BY <1>2, <1>3, <4>1
      <3>2. CASE ~(a <= l) /\ a <= o
        <4>1. a \in 1 .. o
          BY <1>3, <3>2
        <4> QED
          BY <1>2, <1>3, <3>2, <4>1
      <3>3. CASE ~(a <= o)
        BY <1>2, <1>3, <1>5, <3>3
      <3> QED
        BY <3>1, <3>2, <3>3
    <2>3. ~(b \in slot0 .. j /\ ClusterNo(b) <= i)
      <3> SUFFICES ASSUME b \in slot0 .. j, ClusterNo(b) <= i PROVE FALSE
        OBVIOUS
      <3>1. a \in slot0 .. j
        BY <1>2, <1>5, <2>2
      <3>2. a \in Nat \ {0} /\ b \in Nat \ {0} /\ a <= b
        OBVIOUS
      <3>3. ClusterNo(a) <= ClusterNo(b) /\ ClusterNo(a) \in Nat /\ ClusterNo(b) \in Nat
        BY <3>2, PositionMono, Position
      <3>4. ClusterNo(a) <= i
        BY <3>3
      <3> QED
        BY <2>1, <3>1, <3>4
    <2>4. CASE ~(b <= l)
      BY <1>7, <2>3, <2>4
    <2>5. CASE b <= l
      <3>1. a \in 1 .. l /\ b \in 1 .. l /\ us0[a] = Zero
        BY <1>1, <1>7, <2>1, <2>5
      <3>2. us0[b] = Zero
        BY <1>1, <3>1, LenProperties DEF EndsWithZeros
      <3> QED
        BY <1>7, <2>3, <2>5, <3>2
    <2> QED
      BY <2>4, <2>5
  <1>10. ASSUME NEW k \in 1 .. l1, k # j
         PROVE  /\ us1[k].t = "entry" => k <= l /\ us0[k].t = "entry"
                /\ k <= l /\ us0[k].t = "entry" => us1[k] = us0[k]
    <2>1. CASE k \in slot0 .. j /\ ClusterNo(k) <= i
      BY <1>6, <1>8, <1>10, <2>1 DEF IsFree
    <2>2. CASE ~(k \in slot0 .. j /\ ClusterNo(k) <= i)
      BY <1>7, <2>2, UnitTags
    <2> QED
      BY <2>1, <2>2
  <1>11. SlotEdit(us0, us1, j)
    <2>1. \A k \in 1 .. Len(us1) : k # j =>
            /\ us1[k].t = "entry" => k <= Len(us0) /\ us0[k].t = "entry"
            /\ k <= Len(us0) /\ us0[k].t = "entry" => us1[k] = us0[k]
      BY <1>1, <1>10
    <2> QED
      BY <1>1, <1>9, <2>1, SlotEdited
  <1>12. j \notin DirSlots(us0)
    <2>1. DirSlots(us0) = {k \in 1 .. l : us0[k].t = "entry"}
      BY <1>1, EntrySlots, LenProperties
    <2> QED
      BY <1>5, <1>6, <2>1 DEF IsFree
  <1>13. j \in DirSlots(us1) => us1[j] = e
    <2> SUFFICES ASSUME j \in DirSlots(us1) PROVE us1[j] = e
      OBVIOUS
    <2>1. j \in 1 .. l1 /\ us1[j].t = "entry"
      BY <1>1, <1>9, EntrySlots, LenProperties
    <2>2. CASE ClusterNo(j) <= i
      BY <1>5, <1>8, <2>1, <2>2
    <2>3. CASE ~(ClusterNo(j) <= i)
      <3>1. (j <= l => us1[j] = us0[j]) /\ (~(j <= l) => us1[j] = Zero)
        BY <1>7, <2>1, <2>3
      <3>2. j <= l => IsFree(us0[j])
        BY <1>5, <1>6
      <3> QED
        BY <2>1, <3>1, <3>2, UnitTags DEF IsFree
    <2> QED
      BY <2>2, <2>3
  <1> QED
    BY <1>11, <1>12, <1>13

-----------------------------------------------------------------------------
(* The stages of an operation, as edits of the volume it found *)

\* In the volume d2 the entry e would do for slot j of the directory x of d.
Fits(d, d2, x, j, e) ==
  /\ WellFormed(d2.fat, e.cluster)
  /\ \A z \in Range(Chain(d2.fat, e.cluster)) : z \in Mine(d, x, j) \/ z \notin Reach(d)
  /\ \A i \in DirSlots(read_chain(d, x)) : i # j => read_chain(d, x)[i].name # e.name
  /\ e.dir => /\ e.cluster \in Clusters
              /\ EndsWithZeros(read_chain(d2, e.cluster))
              /\ DirSlots(read_chain(d2, e.cluster)) = {}

\* If slot j of x holds a directory, it is an empty one.
Emptied(d, x, j) ==
  (x = Root /\ j \in DirSlots(read_chain(d, Root)) /\ read_chain(d, Root)[j].dir)
     => DirSlots(read_chain(d, read_chain(d, Root)[j].cluster)) = {}

LEMMA FitKept ==
  ASSUME NEW d, Sound(d), NEW d2 \in Volumes, NEW v \in Volumes, NEW x \in Dirs(d), NEW j,
         \A z \in Clusters : d2.fat[z] # FREE /\ z \notin Range(Chain(d.fat, x)) =>
               v.fat[z] = d2.fat[z] /\ v.units[z] = d2.units[z] /\ z \notin Range(Chain(v.fat, x)),
         NEW e, Fits(d, d2, x, j, e), read_chain(v, x)[j] = e
  PROVE  NewEntry(d, v, x, j)
  <1>1. PICK c : c = e.cluster
    OBVIOUS
  <1>2. WellFormed(d2.fat, c)
    BY <1>1 DEF Fits
  <1>3. ASSUME NEW z \in Range(Chain(d2.fat, c))
        PROVE  /\ v.fat[z] = d2.fat[z] /\ v.units[z] = d2.units[z] /\ z \notin Range(Chain(v.fat, x))
               /\ z \in Mine(d, x, j) \/ z \notin Reach(d)
    <2>1. z \in Clusters /\ d2.fat[z] # FREE
      BY <1>2, ChainClusters
    <2>2. z \in Mine(d, x, j) \/ z \notin Reach(d)
      BY <1>1 DEF Fits
    <2>3. z \notin Range(Chain(d.fat, x))
      BY <2>2, DirReach
    <2> QED
      BY <2>1, <2>2, <2>3
  <1>4. /\ WellFormed(v.fat, c) /\ Chain(v.fat, c) = Chain(d2.fat, c)
        /\ read_chain(v, c) = read_chain(d2, c)
    BY <1>2, <1>3, Kept
  <1> QED
    BY <1>1, <1>3, <1>4 DEF NewEntry, Fits

\* A change that leaves the directories alone.
LEMMA AsideEdit ==
  ASSUME NEW d, Sound(d), NEW v, NEW x, NEW j, Aside(d, v, x, j), Emptied(d, x, j),
         j \in DirSlots(read_chain(d, x)) => Fits(d, v, x, j, read_chain(d, x)[j])
  PROVE  Edits(d, v, x, j)
  <1>1. v \in Volumes /\ x \in Dirs(d)
    BY DEF Aside
  <1>2. /\ x \in Clusters /\ WellFormed(v.fat, x) /\ Chain(v.fat, x) = Chain(d.fat, x)
        /\ read_chain(v, x) = read_chain(d, x)
    BY AsideDir
  <1>3. EndsWithZeros(read_chain(v, x))
    BY <1>1, <1>2, SoundDirs
  <1>4. ASSUME j \in DirSlots(read_chain(v, x)) PROVE NewEntry(d, v, x, j)
    <2>1. Fits(d, v, x, j, read_chain(d, x)[j])
      BY <1>2, <1>4
    <2>2. \A z \in Clusters : v.fat[z] # FREE /\ z \notin Range(Chain(d.fat, x)) =>
               v.fat[z] = v.fat[z] /\ v.units[z] = v.units[z] /\ z \notin Range(Chain(v.fat, x))
      BY <1>2
    <2> QED
      BY <1>1, <1>2, <2>1, <2>2, FitKept
  <1>5. \A z \in Reach(d) : \/ z \in Mine(d, x, j)
                            \/ z \in Range(Chain(d.fat, x))
                            \/ v.fat[z] = d.fat[z] /\ v.units[z] = d.units[z]
    BY DEF Aside
  <1> QED
    BY <1>1, <1>2, <1>3, <1>4, <1>5 DEF Edits, Emptied, SameName

\* A rewrite of the directory that changes slot j at most.
LEMMA RewriteEdit ==
  ASSUME NEW d, Sound(d), NEW d2, NEW x, NEW j, Aside(d, d2, x, j), Emptied(d, x, j),
         NEW us, NEW all, NEW old, NEW n, Planned(d2, x, us, all, old, n),
         old <= n, n = old \/ Mine(d, x, j) = {}, Len(us) = Needed(us) * K,
         NEW v, NEW i, NEW m, Shape(v, d2, old, all, n, us, i, m),
         SlotEdit(read_chain(d, x), read_chain(v, x), j), SameName(read_chain(d, x), read_chain(v, x), j),
         j \in DirSlots(read_chain(v, x)) => Fits(d, d2, x, j, read_chain(v, x)[j])
  PROVE  Edits(d, v, x, j)
  <1>1. v \in Volumes /\ d2 \in Volumes /\ x \in Dirs(d)
    BY DEF Aside, Shape
  <1>2. /\ \A z \in Reach(d) : \/ z \in Mine(d, x, j)
                               \/ z \in Range(Chain(d.fat, x))
                               \/ v.fat[z] = d.fat[z] /\ v.units[z] = d.units[z]
        /\ WellFormed(v.fat, x)
        /\ \A z \in Range(Chain(v.fat, x)) : z \in Range(Chain(d.fat, x)) \/ z \notin Reach(d)
        /\ \A z \in Clusters : d2.fat[z] # FREE /\ z \notin Range(Chain(d.fat, x)) =>
               v.fat[z] = d2.fat[z] /\ v.units[z] = d2.units[z] /\ z \notin Range(Chain(v.fat, x))
    BY DirRewrite
  <1>3. j \in DirSlots(read_chain(v, x)) => NewEntry(d, v, x, j)
    BY <1>1, <1>2, FitKept
  <1> QED
    BY <1>1, <1>2, <1>3 DEF Edits, Emptied, SlotEdit

\* One of the writes after the first k still changes the contents of a cluster of v.
Ahead(v, ws, k) == \E i \in (k + 1) .. Len(ws) : ws[i].what = "units" /\ Apply(v, ws[i]) # v

\* A rewrite in place writes every cluster of the directory.
LEMMA InPlace ==
  ASSUME NEW d, Sound(d), NEW d2, NEW x, NEW j, Aside(d, d2, x, j),
         NEW us \in Seq(Units), Len(us) = Len(read_chain(d, x)),
         NEW all, all = Usable(d2.fat, x), NEW old, old = Len(Chain(d2.fat, x))
  PROVE  /\ Planned(d2, x, us, all, old, old) /\ old \in Nat /\ old # 0
         /\ Len(us) = old * K /\ Needed(us) = old
  <1>1. /\ x \in Clusters /\ WellFormed(d2.fat, x) /\ Chain(d2.fat, x) = Chain(d.fat, x)
        /\ read_chain(d2, x) = read_chain(d, x) /\ d2 \in Volumes
    <2>1. /\ x \in Clusters /\ WellFormed(d2.fat, x) /\ Chain(d2.fat, x) = Chain(d.fat, x)
          /\ read_chain(d2, x) = read_chain(d, x)
      BY AsideDir
    <2> QED
      BY <2>1 DEF Aside
  <1>2. old \in Nat /\ old # 0
    BY <1>1, ChainLinks, LenProperties, EmptySeq
  <1>3. Len(us) = old * K
    BY <1>1, Reads
  <1>4. Needed(us) = old
    <2>1. PICK l \in Nat : l = Len(us)
      BY LenProperties
    <2> QED
      BY <1>2, <1>3, <2>1, NeededFacts
  <1>5. old <= Len(all) /\ Len(all) \in Nat
    <2>1. d2.fat \in [Clusters -> FatValues]
      BY <1>1 DEF Volumes
    <2> QED
      BY <1>1, <2>1, UsableFacts
  <1>6. Written(d2.fat, x, us) = old
    BY <1>2, <1>4, <1>5 DEF Written
  <1> QED
    BY <1>1, <1>2, <1>3, <1>4, <1>6 DEF Planned

\* A cluster that is still to be written, and that the rewrite changes.
LEMMA StillAhead ==
  ASSUME NEW d, Sound(d), NEW d2, NEW x, NEW j \in DirSlots(read_chain(d, x)), Aside(d, d2, x, j),
         NEW us \in Seq(Units), Len(us) = Len(read_chain(d, x)), us[j] # read_chain(d, x)[j],
         NEW all, NEW old \in Nat, Planned(d2, x, us, all, old, old), Needed(us) = old,
         Len(read_chain(d, x)) = old * K,
         NEW v, NEW i \in Nat, NEW m \in Nat, Shape(v, d2, old, all, old, us, i, m), old <= m,
         ~(ClusterNo(j) <= i),
         \A k \in 1 .. old : all[k] = Chain(d.fat, x)[k] /\ all[k] \in Clusters /\ d2.units[all[k]] = d.units[all[k]]
  PROVE  /\ ClusterNo(j) \in (i + 1) .. old
         /\ Apply(v, PutCluster(all[ClusterNo(j)], Piece(us, ClusterNo(j)))) # v
  <1>1. d \in Volumes /\ v \in Volumes
    BY DEF Sound, Shape
  <1>2. PICK l \in Nat : l = Len(us) /\ l = old * K /\ DOMAIN read_chain(d, x) = 1 .. l
    BY <1>1, Reads, LenProperties
  <1>3. j \in 1 .. l /\ j \in Nat \ {0}
    BY <1>2 DEF DirSlots
  <1>4. PICK q \in Nat \ {0}, r \in 1 .. K : q = ClusterNo(j) /\ r = Within(j) /\ j = (q - 1) * K + r
    BY <1>3, Position
  <1>5. q <= old /\ q \in (i + 1) .. old /\ q \in 1 .. old
    BY <1>2, <1>3, <1>4, PositionIn
  <1>6. Piece(us, q) \in Contained /\ Piece(us, q)[r] = us[j]
    <2>1. q \in 1 .. Needed(us)
      BY <1>5
    <2>2. /\ Piece(us, q) \in Contained
          /\ Piece(us, q)[r] = IF (q - 1) * K + r <= Len(us) THEN us[(q - 1) * K + r] ELSE Zero
      BY <2>1, PieceFacts
    <2> QED
      BY <1>2, <1>3, <1>4, <2>2
  <1>7. v.units[all[q]] = d.units[all[q]]
    <2>1. \A k \in 1 .. m : v.units[all[k]] = IF k <= i THEN Piece(us, k)
                                         ELSE IF k <= old THEN d2.units[all[k]] ELSE Zeros(K)
      BY DEF Shape
    <2>2. q \in 1 .. m /\ ~(q <= i) /\ q <= old
      BY <1>5
    <2> QED
      BY <1>5, <2>1, <2>2
  <1>8. d.units[all[q]][r] = read_chain(d, x)[j]
    <2>1. old * K = Len(Chain(d.fat, x)) * K
      BY <1>1, Reads
    <2>2. j \in 1 .. (Len(Chain(d.fat, x)) * K)
      BY <1>2, <1>3, <2>1
    <2> QED
      BY <1>1, <1>4, <1>5, <2>2, Reads
  <1>9. Apply(v, PutCluster(all[q], Piece(us, q))).units = [v.units EXCEPT ![all[q]] = Piece(us, q)]
    BY <1>1, <1>5, <1>6, ApplyPut
  <1>10. DOMAIN v.units = Clusters /\ all[q] \in Clusters
    BY <1>1, <1>5 DEF Volumes
  <1>11. Apply(v, PutCluster(all[q], Piece(us, q))).units[all[q]][r] # v.units[all[q]][r]
    BY <1>6, <1>7, <1>8, <1>9, <1>10
  <1> QED
    BY <1>4, <1>5, <1>11

\* What a rewrite of the directory makes of slot j, cluster after cluster.
Replaces(d, d2, x, j, us) ==
  \A us1, i : Mixed(read_chain(d, x), us1, us, i) =>
     /\ SlotEdit(read_chain(d, x), us1, j)
     /\ ClusterNo(j) <= i => (j \in DirSlots(us1) => Fits(d, d2, x, j, us1[j]))
     /\ ~(ClusterNo(j) <= i) => us1[j] = read_chain(d, x)[j]
     /\ SameName(read_chain(d, x), us1, j)

\* The clusters of d2 are those of v, but for the ones of the directory x, which may have grown.
Settled(d2, v, x) ==
  /\ \A z \in Range(Chain(d2.fat, x)) : z \in Range(Chain(v.fat, x))
  /\ \A z \in Range(Chain(v.fat, x)) : z \in Range(Chain(d2.fat, x)) \/ d2.fat[z] = FREE
  /\ \A z \in Clusters : z \notin Range(Chain(v.fat, x)) => v.fat[z] = d2.fat[z] /\ v.units[z] = d2.units[z]

LEMMA Settles ==
  ASSUME NEW d, NEW x \in Clusters, NEW us, NEW all, NEW old, NEW n, Planned(d, x, us, all, old, n),
         n # 0, old <= n, NEW v, Shape(v, d, old, all, n, us, n, n)
  PROVE  Settled(d, v, x)
  <1>1. /\ d \in Volumes /\ d.fat \in [Clusters -> FatValues] /\ WellFormed(d.fat, x)
        /\ all = Usable(d.fat, x) /\ old = Len(Chain(d.fat, x))
    BY DEF Planned, Volumes
  <1>2. /\ all \in Seq(Clusters) /\ old \in Nat
        /\ \A i \in 1 .. old : all[i] = Chain(d.fat, x)[i]
    BY <1>1, UsableFacts
  <1>3. Chain(d.fat, x) \in Seq(Clusters) /\ Chain(d.fat, x) # <<>> /\ Chain(d.fat, x)[1] = x
    BY ChainLinks
  <1>4. old > 0 /\ all[1] = x
    BY <1>1, <1>2, <1>3, LenProperties, EmptySeq
  <1>5. n \in Nat /\ n > 0 /\ ChainOf(v.fat, x, SubSeq(all, 1, n))
    <2>1. n \in Nat
      BY WriteChainTask
    <2> QED
      BY <1>2, <1>4, <2>1 DEF Shape
  <1>6. PICK cl \in Seq(Clusters) : cl = SubSeq(all, 1, n) /\ Len(cl) = n /\ \A k \in 1 .. n : cl[k] = all[k]
    <2>1. /\ SubSeq(all, 1, n) \in Seq(Clusters) /\ Len(SubSeq(all, 1, n)) = n
          /\ \A k \in 1 .. n : SubSeq(all, 1, n)[k] = all[k]
      BY WriteChainTask
    <2> QED
      BY <2>1
  <1>7. Chain(v.fat, x) = cl
    BY <1>5, <1>6, ChainIs
  <1>8. DOMAIN cl = 1 .. n /\ DOMAIN Chain(d.fat, x) = 1 .. old
    BY <1>1, <1>3, <1>6, LenProperties
  <1>9. ASSUME NEW z \in Range(Chain(d.fat, x)) PROVE z \in Range(Chain(v.fat, x))
    <2>1. PICK k \in 1 .. old : z = Chain(d.fat, x)[k]
      BY <1>8 DEF Range
    <2>2. k \in 1 .. n /\ z = cl[k]
      BY <1>2, <1>5, <1>6, <2>1
    <2> QED
      BY <1>7, <1>8, <2>2 DEF Range
  <1>10. ASSUME NEW z \in Clusters, z \notin Range(Chain(v.fat, x))
         PROVE  v.fat[z] = d.fat[z] /\ v.units[z] = d.units[z]
    <2>1. \A k \in 1 .. n : all[k] # z
      BY <1>6, <1>7, <1>8, <1>10 DEF Range
    <2> QED
      BY <2>1 DEF Shape
  <1>11. ASSUME NEW z \in Range(Chain(v.fat, x)) PROVE z \in Range(Chain(d.fat, x)) \/ d.fat[z] = FREE
    <2>1. PICK k \in 1 .. n : z = all[k]
      BY <1>6, <1>7, <1>8 DEF Range
    <2>2. Len(all) \in Nat /\ n <= Len(all) /\ \A i \in (old + 1) .. Len(all) : d.fat[all[i]] = FREE
      <3>1. Len(all) \in Nat /\ \A i \in (old + 1) .. Len(all) : d.fat[all[i]] = FREE
        BY <1>1, UsableFacts
      <3>2. n <= Len(all)
        BY WriteChainTask
      <3> QED
        BY <3>1, <3>2
    <2>3. CASE k \in 1 .. old
      BY <1>2, <1>8, <2>1, <2>3 DEF Range
    <2>4. CASE k \in (old + 1) .. Len(all)
      BY <2>1, <2>2, <2>4
    <2> QED
      BY <1>2, <1>5, <2>2, <2>3, <2>4
  <1> QED
    BY <1>9, <1>10, <1>11 DEF Settled

(***************************************************************************)
(* A rewrite in place that changes the entry in slot j: every volume on    *)
(* the way is an edit of the one the operation found, unless the entry in  *)
(* slot j lost its clusters and is not rewritten yet.                      *)
(***************************************************************************)
LEMMA RewriteStages ==
  ASSUME NEW d, Sound(d), NEW d2, NEW x, NEW j \in DirSlots(read_chain(d, x)), Aside(d, d2, x, j),
         Emptied(d, x, j), NEW us \in Seq(Units), Len(us) = Len(read_chain(d, x)),
         Replaces(d, d2, x, j, us),
         Fits(d, d2, x, j, read_chain(d, x)[j]) \/ us[j] # read_chain(d, x)[j],
         NEW w, w = write_chain(d2.fat, x, us)
  PROVE  /\ w.todo \in Seq(Writes)
         /\ \A k \in 0 .. Len(w.todo) :
               \/ Edits(d, Stage(d2, w.todo, k), x, j)
               \/ /\ ~Fits(d, d2, x, j, read_chain(d, x)[j])
                  /\ Ahead(Stage(d2, w.todo, k), w.todo, k)
         /\ Edits(d, Run(d2, w.todo), x, j)
         /\ w.ok /\ read_chain(Run(d2, w.todo), x)[j] = us[j] /\ Settled(d2, Run(d2, w.todo), x)
         /\ us[j].t = "entry" => j \in DirSlots(read_chain(Run(d2, w.todo), x))
  <1>1. PICK all, old : all = Usable(d2.fat, x) /\ old = Len(Chain(d2.fat, x))
    OBVIOUS
  <1>2. /\ Planned(d2, x, us, all, old, old) /\ old \in Nat /\ old # 0
        /\ Len(us) = old * K /\ Needed(us) = old
    BY <1>1, InPlace
  <1>3. /\ w.todo \in Seq(Writes) /\ w.ok
        /\ Progress(d2, old, all, old, us, w.todo, old)
        /\ Shape(Run(d2, w.todo), d2, old, all, old, us, old, old)
    <2>1. /\ w.todo \in Seq(Writes) /\ w.ok = (old = Needed(us))
          /\ Progress(d2, old, all, old, us, w.todo, old)
          /\ \E m : /\ Shape(Run(d2, w.todo), d2, old, all, old, us, old, m) /\ old <= m
                    /\ old = Needed(us) => m = old
      BY <1>2, WriteChain
    <2> QED
      BY <1>2, <2>1
  <1>4. PICK ws \in Seq(Writes), l \in Nat : ws = w.todo /\ l = Len(ws)
    BY <1>3, LenProperties
  <1>5. ASSUME NEW k \in 0 .. l, NEW v, v = Stage(d2, ws, k)
        PROVE  \/ Edits(d, v, x, j)
               \/ /\ ~Fits(d, d2, x, j, read_chain(d, x)[j])
                  /\ Ahead(v, ws, k)
    <2>1. PICK a \in 0 .. old : \E m :
            /\ Shape(v, d2, old, all, old, us, a, m)
            /\ \A q \in (a + 1) .. old : \E r \in (k + 1) .. l : ws[r] = PutCluster(all[q], Piece(us, q))
      BY <1>3, <1>4, <1>5 DEF Progress
    <2>2. PICK m :
            /\ Shape(v, d2, old, all, old, us, a, m)
            /\ \A q \in (a + 1) .. old : \E r \in (k + 1) .. l : ws[r] = PutCluster(all[q], Piece(us, q))
      BY <2>1
    <2>3. /\ Mixed(read_chain(d, x), read_chain(v, x), us, a)
          /\ old <= m /\ Len(read_chain(d, x)) = old * K
          /\ \A z \in 1 .. old : all[z] = Chain(d.fat, x)[z] /\ all[z] \in Clusters /\ d2.units[all[z]] = d.units[all[z]]
      BY <1>2, <2>2, DirRewrite
    <2>4. m \in Nat
      BY <2>2 DEF Shape
    <2>5. /\ SlotEdit(read_chain(d, x), read_chain(v, x), j)
          /\ ClusterNo(j) <= a => (j \in DirSlots(read_chain(v, x)) => Fits(d, d2, x, j, read_chain(v, x)[j]))
          /\ ~(ClusterNo(j) <= a) => read_chain(v, x)[j] = read_chain(d, x)[j]
          /\ SameName(read_chain(d, x), read_chain(v, x), j)
      BY <2>3 DEF Replaces
    <2>6. CASE ClusterNo(j) <= a \/ Fits(d, d2, x, j, read_chain(d, x)[j])
      <3>1. j \in DirSlots(read_chain(v, x)) => Fits(d, d2, x, j, read_chain(v, x)[j])
        BY <2>5, <2>6
      <3> QED
        BY <1>2, <2>2, <2>5, <3>1, RewriteEdit
    <2>7. CASE ~(ClusterNo(j) <= a) /\ ~Fits(d, d2, x, j, read_chain(d, x)[j])
      <3>1. /\ ClusterNo(j) \in (a + 1) .. old
            /\ Apply(v, PutCluster(all[ClusterNo(j)], Piece(us, ClusterNo(j)))) # v
        BY <1>2, <2>2, <2>3, <2>4, <2>7, StillAhead
      <3>2. PICK r \in (k + 1) .. l : ws[r] = PutCluster(all[ClusterNo(j)], Piece(us, ClusterNo(j)))
        BY <2>2, <3>1
      <3>3. ws[r].what = "units" /\ Apply(v, ws[r]) # v
        BY <3>1, <3>2 DEF PutCluster
      <3> QED
        BY <1>4, <2>7, <3>3 DEF Ahead
    <2> QED
      BY <2>6, <2>7
  <1>6. \A k \in 0 .. l : \/ Edits(d, Stage(d2, ws, k), x, j)
                          \/ /\ ~Fits(d, d2, x, j, read_chain(d, x)[j])
                             /\ Ahead(Stage(d2, ws, k), ws, k)
    BY <1>5
  <1>7. ~Ahead(Stage(d2, ws, l), ws, l)
    BY <1>4 DEF Ahead
  <1>8. Edits(d, Stage(d2, ws, l), x, j)
    BY <1>6, <1>7
  <1>9. x \in Clusters /\ x \in Dirs(d)
    BY AsideDir, ZenonT(60) DEF Aside
  <1>10. Settled(d2, Run(d2, w.todo), x)
    BY <1>2, <1>3, <1>9, Settles
  <1>11. read_chain(Run(d2, w.todo), x)[j] = us[j] /\ j \in DOMAIN read_chain(Run(d2, w.todo), x)
    <2>1. PICK v : v = Run(d2, w.todo)
      OBVIOUS
    <2>2. Mixed(read_chain(d, x), read_chain(v, x), us, old) /\ Len(read_chain(d, x)) = old * K
      BY <1>2, <1>3, <2>1, DirRewrite
    <2>3. j \in 1 .. old * K
      <3>1. read_chain(d, x) \in Seq(Units) /\ j \in DOMAIN read_chain(d, x)
        BY <1>9, SoundDirs DEF DirSlots
      <3> QED
        BY <2>2, <3>1, LenProperties
    <2>4. ClusterNo(j) <= old
      BY <1>2, <2>3, PositionIn
    <2>5. j \in 1 .. Len(read_chain(v, x))
      <3>1. PICK a \in Nat, b \in Nat : a = old * K /\ b = Len(read_chain(v, x))
        BY <1>2, <2>2, ClusterFacts, LenProperties DEF Mixed
      <3>2. a <= b
        BY <2>2, <3>1 DEF Mixed
      <3> QED
        BY <2>3, <3>1, <3>2
    <2>6. read_chain(v, x)[j] = us[j]
      BY <2>2, <2>4, <2>5 DEF Mixed
    <2>7. read_chain(v, x) \in Seq(Units)
      BY <2>2 DEF Mixed
    <2> QED
      BY <2>1, <2>5, <2>6, <2>7, LenProperties
  <1>12. ASSUME us[j].t = "entry" PROVE j \in DirSlots(read_chain(Run(d2, w.todo), x))
    <2>1. PICK v : v = Run(d2, w.todo)
      OBVIOUS
    <2>2. Edits(d, v, x, j)
      BY <1>4, <1>8, <2>1 DEF Run
    <2>3. Sound(v) /\ x \in Dirs(v)
      BY <2>2, EditSound, EditTree
    <2> QED
      BY <1>11, <1>12, <2>1, <2>3, SoundDirs
  <1> QED
    BY <1>3, <1>4, <1>6, <1>8, <1>10, <1>11, <1>12 DEF Run

LEMMA UpdateStages ==
  ASSUME NEW d, Sound(d), NEW d2, NEW x, NEW j \in DirSlots(read_chain(d, x)), Aside(d, d2, x, j),
         Emptied(d, x, j), NEW e \in Units, e.t = "entry", Fits(d, d2, x, j, e),
         e.name = read_chain(d, x)[j].name, e.dir = read_chain(d, x)[j].dir,
         Fits(d, d2, x, j, read_chain(d, x)[j]) \/ e # read_chain(d, x)[j],
         NEW w, w = update_dir_entry(d2, x, j, e)
  PROVE  /\ w.todo \in Seq(Writes)
         /\ \A k \in 0 .. Len(w.todo) :
               \/ Edits(d, Stage(d2, w.todo, k), x, j)
               \/ /\ ~Fits(d, d2, x, j, read_chain(d, x)[j])
                  /\ Ahead(Stage(d2, w.todo, k), w.todo, k)
         /\ Edits(d, Run(d2, w.todo), x, j)
         /\ w.ok /\ read_chain(Run(d2, w.todo), x)[j] = e /\ Settled(d2, Run(d2, w.todo), x)
         /\ j \in DirSlots(read_chain(Run(d2, w.todo), x))
  <1>1. PICK us0 : us0 = read_chain(d, x)
    OBVIOUS
  <1>2. x \in Dirs(d) /\ read_chain(d2, x) = us0
    BY <1>1, AsideDir DEF Aside
  <1>3. us0 \in Seq(Units) /\ EndsWithZeros(us0) /\ j \in DirSlots(us0)
    BY <1>1, <1>2, SoundDirs
  <1>4. PICK us : us = Updated(us0, j, e)
    OBVIOUS
  <1>5. j \in DOMAIN us0
    BY <1>3 DEF DirSlots
  <1>6. us \in Seq(Units) /\ Len(us) = Len(us0) /\ us[j] = e
    <2>1. PICK l \in Nat : l = Len(us0) /\ DOMAIN us0 = 1 .. l /\ us0 \in [1 .. l -> Units]
      BY <1>3, LenProperties
    <2>2. us \in [1 .. l -> Units] /\ us[j] = e
      BY <1>4, <1>5, <2>1 DEF Updated
    <2> QED
      BY <2>1, <2>2, IsASeq, LenProperties
  <1>7. Replaces(d, d2, x, j, us)
    <2> SUFFICES ASSUME NEW us1, NEW i, Mixed(us0, us1, us, i)
                 PROVE  /\ SlotEdit(us0, us1, j)
                        /\ ClusterNo(j) <= i => (j \in DirSlots(us1) => Fits(d, d2, x, j, us1[j]))
                        /\ ~(ClusterNo(j) <= i) => us1[j] = us0[j]
                        /\ SameName(us0, us1, j)
      BY <1>1 DEF Replaces
    <2>1. /\ SlotEdit(us0, us1, j) /\ j \in DirSlots(us1)
          /\ ClusterNo(j) <= i => us1[j] = e
          /\ ~(ClusterNo(j) <= i) => us1[j] = us0[j]
      BY <1>3, <1>4, MixUpdate
    <2>2. SameName(us0, us1, j)
      BY <1>1, <2>1 DEF SameName
    <2> QED
      BY <2>1, <2>2
  <1>8. w = write_chain(d2.fat, x, us)
    BY <1>2, <1>4 DEF update_dir_entry, Updated
  <1>9. Fits(d, d2, x, j, read_chain(d, x)[j]) \/ us[j] # read_chain(d, x)[j]
    BY <1>6
  <1>10. /\ w.todo \in Seq(Writes)
         /\ \A k \in 0 .. Len(w.todo) :
               \/ Edits(d, Stage(d2, w.todo, k), x, j)
               \/ /\ ~Fits(d, d2, x, j, read_chain(d, x)[j])
                  /\ Ahead(Stage(d2, w.todo, k), w.todo, k)
         /\ Edits(d, Run(d2, w.todo), x, j)
         /\ w.ok /\ read_chain(Run(d2, w.todo), x)[j] = us[j] /\ Settled(d2, Run(d2, w.todo), x)
         /\ us[j].t = "entry" => j \in DirSlots(read_chain(Run(d2, w.todo), x))
    BY <1>1, <1>6, <1>7, <1>8, <1>9, RewriteStages
  <1> QED
    BY <1>6, <1>10

LEMMA RemoveStages ==
  ASSUME NEW d, Sound(d), NEW d2, NEW x, NEW j \in DirSlots(read_chain(d, x)), Aside(d, d2, x, j),
         Emptied(d, x, j), NEW w, w = remove_dir_entry(d2, x, j)
  PROVE  /\ w.todo \in Seq(Writes)
         /\ \A k \in 0 .. Len(w.todo) :
               \/ Edits(d, Stage(d2, w.todo, k), x, j)
               \/ /\ ~Fits(d, d2, x, j, read_chain(d, x)[j])
                  /\ Ahead(Stage(d2, w.todo, k), w.todo, k)
         /\ Edits(d, Run(d2, w.todo), x, j)
         /\ w.ok /\ j \notin DirSlots(read_chain(Run(d2, w.todo), x)) /\ Settled(d2, Run(d2, w.todo), x)
  <1>1. PICK us0 : us0 = read_chain(d, x)
    OBVIOUS
  <1>2. x \in Dirs(d) /\ read_chain(d2, x) = us0
    BY <1>1, AsideDir DEF Aside
  <1>3. us0 \in Seq(Units) /\ EndsWithZeros(us0) /\ j \in DirSlots(us0)
    BY <1>1, <1>2, SoundDirs
  <1>4. PICK us : us = Without(us0, j)
    OBVIOUS
  <1>5. j \in DOMAIN us0 /\ us0[j].t = "entry"
    BY <1>3 DEF DirSlots
  <1>6. us \in Seq(Units) /\ Len(us) = Len(us0) /\ us[j] = Deleted
    <2>1. PICK l \in Nat : l = Len(us0) /\ DOMAIN us0 = 1 .. l /\ us0 \in [1 .. l -> Units]
      BY <1>3, LenProperties
    <2>2. us = [i \in 1 .. l |-> IF i = j \/ (i = j - 1 /\ us0[i].t = "lfn") THEN Deleted ELSE us0[i]]
      BY <1>4, <2>1 DEF Without
    <2>3. us \in [1 .. l -> Units] /\ us[j] = Deleted
      <3>1. us[j] = Deleted
        BY <1>5, <2>1, <2>2
      <3>2. ASSUME NEW i \in 1 .. l PROVE us[i] \in Units
        <4>1. us0[i] \in Units /\ Deleted \in Units
          BY <2>1, UnitKinds
        <4>2. us[i] = Deleted \/ us[i] = us0[i]
          BY <2>2
        <4> QED
          BY <4>1, <4>2
      <3> QED
        BY <2>2, <3>1, <3>2
    <2> QED
      BY <2>1, <2>3, IsASeq, LenProperties
  <1>7. Replaces(d, d2, x, j, us)
    <2> SUFFICES ASSUME NEW us1, NEW i, Mixed(us0, us1, us, i)
                 PROVE  /\ SlotEdit(us0, us1, j)
                        /\ ClusterNo(j) <= i => (j \in DirSlots(us1) => Fits(d, d2, x, j, us1[j]))
                        /\ ~(ClusterNo(j) <= i) => us1[j] = us0[j]
                        /\ SameName(us0, us1, j)
      BY <1>1 DEF Replaces
    <2>1. /\ SlotEdit(us0, us1, j)
          /\ ClusterNo(j) <= i => j \notin DirSlots(us1)
          /\ ~(ClusterNo(j) <= i) => j \in DirSlots(us1) /\ us1[j] = us0[j]
      BY <1>3, <1>4, MixRemove
    <2>2. SameName(us0, us1, j)
      BY <2>1 DEF SameName
    <2> QED
      BY <2>1, <2>2
  <1>8. w = write_chain(d2.fat, x, us)
    BY <1>2, <1>4 DEF remove_dir_entry
  <1>9. Fits(d, d2, x, j, read_chain(d, x)[j]) \/ us[j] # read_chain(d, x)[j]
    BY <1>1, <1>5, <1>6, UnitTags
  <1>10. /\ w.todo \in Seq(Writes)
         /\ \A k \in 0 .. Len(w.todo) :
               \/ Edits(d, Stage(d2, w.todo, k), x, j)
               \/ /\ ~Fits(d, d2, x, j, read_chain(d, x)[j])
                  /\ Ahead(Stage(d2, w.todo, k), w.todo, k)
         /\ Edits(d, Run(d2, w.todo), x, j)
         /\ w.ok /\ read_chain(Run(d2, w.todo), x)[j] = us[j] /\ Settled(d2, Run(d2, w.todo), x)
    BY <1>1, <1>6, <1>7, <1>8, <1>9, RewriteStages
  <1>11. j \notin DirSlots(read_chain(Run(d2, w.todo), x))
    BY <1>6, <1>10, UnitTags DEF DirSlots
  <1> QED
    BY <1>10, <1>11

\* A slot without an entry.
LEMMA NoEntry ==
  ASSUME NEW d, NEW d2, NEW x, NEW e, NEW j, j \notin DirSlots(read_chain(d, x)),
         NEW i, i \notin DirSlots(read_chain(d, x))
  PROVE  /\ Mine(d, x, j) = {}
         /\ Aside(d, d2, x, i) => Aside(d, d2, x, j)
         /\ Fits(d, d2, x, i, e) => Fits(d, d2, x, j, e)
         /\ Emptied(d, x, j)
  <1>1. Mine(d, x, j) = {} /\ Mine(d, x, i) = {}
    BY DEF Mine
  <1>2. \A k \in DirSlots(read_chain(d, x)) : k # i /\ k # j
    OBVIOUS
  <1>3. Emptied(d, x, j)
    BY DEF Emptied
  <1>4. Aside(d, d2, x, i) => Aside(d, d2, x, j)
    BY <1>1 DEF Aside
  <1>5. Fits(d, d2, x, i, e) => Fits(d, d2, x, j, e)
    BY <1>1, <1>2 DEF Fits
  <1> QED
    BY <1>1, <1>3, <1>4, <1>5

\* A new entry: every volume on the way is an edit of the one the operation found.
LEMMA AddStages ==
  ASSUME NEW d, Sound(d), NEW d2, NEW x, Aside(d, d2, x, 0),
         NEW e \in Units, e.t = "entry", Fits(d, d2, x, 0, e),
         NEW w, w = add_dir_entry(d2, x, e)
  PROVE  /\ w.todo \in Seq(Writes)
         /\ \E j : /\ j \notin DirSlots(read_chain(d, x))
                   /\ \A k \in 0 .. Len(w.todo) :
                         /\ Edits(d, Stage(d2, w.todo, k), x, j)
                         /\ j \in DirSlots(read_chain(Stage(d2, w.todo, k), x))
                               => read_chain(Stage(d2, w.todo, k), x)[j] = e
                   /\ w.ok => /\ j \in DirSlots(read_chain(Run(d2, w.todo), x))
                              /\ Settled(d2, Run(d2, w.todo), x)
  <1>1. PICK us0 : us0 = read_chain(d, x)
    OBVIOUS
  <1>2. /\ x \in Dirs(d) /\ read_chain(d2, x) = us0 /\ d2 \in Volumes /\ x \in Clusters
        /\ WellFormed(d2.fat, x) /\ Chain(d2.fat, x) = Chain(d.fat, x)
    BY <1>1, AsideDir DEF Aside
  <1>3. us0 \in Seq(Units) /\ EndsWithZeros(us0) /\ 0 \notin DirSlots(us0)
    <2>1. us0 \in Seq(Units) /\ EndsWithZeros(us0)
      BY <1>1, <1>2, SoundDirs
    <2>2. 0 \notin DOMAIN us0
      BY <2>1, LenProperties
    <2> QED
      BY <2>1, <2>2 DEF DirSlots
  <1>4. PICK t \in 1 .. 2 : t = SlotsOf[e.name]
    BY UnitFacts, VolumeAssumption
  <1>5. PICK rm : rm = Room(us0, t)
    OBVIOUS
  <1>6. PICK slot0 : slot0 = Min(FreeRuns(rm, t))
    OBVIOUS
  <1>7. PICK us : us = WithEntry(rm, slot0, t, e)
    OBVIOUS
  <1>8. w = write_chain(d2.fat, x, us)
    BY <1>2, <1>4, <1>5, <1>6, <1>7 DEF add_dir_entry
  <1>9. /\ rm \in Seq(Units) /\ (Len(rm) = Len(us0) \/ Len(rm) = Len(us0) + K)
        /\ slot0 \in Nat /\ slot0 >= 1 /\ slot0 + t - 1 <= Len(rm)
    BY <1>3, <1>5, <1>6, RoomFacts
  <1>10. us \in Seq(Units) /\ Len(us) = Len(rm)
    BY <1>7, <1>9, WithEntrySeq
  <1>11. PICK all, old : all = Usable(d2.fat, x) /\ old = Len(Chain(d2.fat, x))
    OBVIOUS
  <1>12. old \in Nat /\ old # 0
    BY <1>2, <1>11, ChainLinks, LenProperties, EmptySeq
  <1>13. Len(us0) = old * K
    BY <1>1, <1>2, <1>11, Reads
  <1>14. \E h \in {old, old + 1} : Len(us) = h * K /\ Needed(us) = h
    <2>1. Len(us) = old * K \/ Len(us) = (old + 1) * K
      <3>1. (old + 1) * K = old * K + K
        BY <1>12, ClusterFacts
      <3> QED
        BY <1>9, <1>10, <1>13, <3>1
    <2>2. PICK l \in Nat : l = Len(us)
      BY <1>10, LenProperties
    <2> QED
      BY <1>12, <2>1, <2>2, NeededFacts
  <1>15. PICK n : n = Written(d2.fat, x, us)
    OBVIOUS
  <1>16. n \in Nat /\ old <= n /\ n # 0
    <2>1. d2.fat \in [Clusters -> FatValues]
      BY <1>2 DEF Volumes
    <2>2. old <= Len(all) /\ Len(all) \in Nat
      BY <1>2, <1>11, <2>1, UsableFacts
    <2> QED
      BY <1>11, <1>12, <1>14, <1>15, <2>2 DEF Written
  <1>17. Planned(d2, x, us, all, old, n)
    BY <1>2, <1>10, <1>11, <1>15 DEF Planned
  <1>18. /\ w.todo \in Seq(Writes) /\ w.ok = (n = Needed(us))
         /\ Progress(d2, old, all, n, us, w.todo, n)
         /\ n = Needed(us) => Shape(Run(d2, w.todo), d2, old, all, n, us, n, n)
    BY <1>8, <1>16, <1>17, WriteChain
  <1>19. PICK j : j = slot0 + t - 1
    OBVIOUS
  <1>20. j \notin DirSlots(us0)
    <2>1. PICK v, i, m : Shape(v, d2, old, all, n, us, i, m) /\ i \in Nat
      <3>1. 0 \in 0 .. Len(w.todo)
        BY <1>18, LenProperties
      <3> QED
        BY <1>18, <3>1 DEF Progress
    <2>2. Mine(d, x, 0) = {}
      BY <1>1, <1>3 DEF Mine
    <2>3. Len(us) = Needed(us) * K
      BY <1>14
    <2>4. Mixed(us0, read_chain(v, x), us, i)
      BY <1>1, <1>16, <1>17, <2>1, <2>2, <2>3, DirRewrite
    <2> QED
      BY <1>3, <1>5, <1>6, <1>7, <1>19, <2>1, <2>4, MixAdd
  <1>21. Aside(d, d2, x, j) /\ Fits(d, d2, x, j, e) /\ Emptied(d, x, j) /\ Mine(d, x, j) = {}
    BY <1>1, <1>3, <1>20, NoEntry
  <1>22. ASSUME NEW v, NEW i \in Nat, NEW m, Shape(v, d2, old, all, n, us, i, m)
         PROVE  Edits(d, v, x, j) /\ (j \in DirSlots(read_chain(v, x)) => read_chain(v, x)[j] = e)
    <2>1. Len(us) = Needed(us) * K
      BY <1>14
    <2>2. Mixed(us0, read_chain(v, x), us, i)
      BY <1>1, <1>16, <1>17, <1>21, <1>22, <2>1, DirRewrite
    <2>3. SlotEdit(us0, read_chain(v, x), j) /\ (j \in DirSlots(read_chain(v, x)) => read_chain(v, x)[j] = e)
      BY <1>3, <1>5, <1>6, <1>7, <1>19, <2>2, MixAdd
    <2>4. SameName(us0, read_chain(v, x), j)
      BY <1>20 DEF SameName
    <2> QED
      BY <1>1, <1>16, <1>17, <1>21, <1>22, <2>1, <2>3, <2>4, RewriteEdit
  <1>23. \A k \in 0 .. Len(w.todo) : \E i \in Nat : \E m : Shape(Stage(d2, w.todo, k), d2, old, all, n, us, i, m)
    <2>1. \A i \in 0 .. n : i \in Nat
      OBVIOUS
    <2> QED
      BY <1>18, <2>1 DEF Progress
  <1>24. \A k \in 0 .. Len(w.todo) :
                         /\ Edits(d, Stage(d2, w.todo, k), x, j)
                         /\ j \in DirSlots(read_chain(Stage(d2, w.todo, k), x))
                               => read_chain(Stage(d2, w.todo, k), x)[j] = e
    BY <1>22, <1>23
  <1>25. ASSUME w.ok
         PROVE  j \in DirSlots(read_chain(Run(d2, w.todo), x)) /\ Settled(d2, Run(d2, w.todo), x)
    <2>1. n = Needed(us) /\ Len(us) = n * K
      BY <1>14, <1>18, <1>25
    <2>2. PICK v : v = Run(d2, w.todo)
      OBVIOUS
    <2>3. Shape(v, d2, old, all, n, us, n, n)
      BY <1>18, <2>1, <2>2
    <2>4. Settled(d2, v, x)
      BY <1>2, <1>16, <1>17, <2>3, Settles
    <2>5. Len(us) = Needed(us) * K
      BY <2>1
    <2>6. Mixed(us0, read_chain(v, x), us, n)
      BY <1>1, <1>16, <1>17, <1>21, <2>3, <2>5, DirRewrite
    <2>7. SlotEdit(us0, read_chain(v, x), j)
      BY <1>3, <1>5, <1>6, <1>7, <1>16, <1>19, <2>6, MixAdd
    <2>8. j \in 1 .. n * K
      BY <1>9, <1>10, <1>19, <2>1
    <2>9. read_chain(v, x) \in Seq(Units) /\ Len(read_chain(v, x)) = n * K
      <3>1. v \in Volumes /\ ChainOf(v.fat, all[1], SubSeq(all, 1, n))
        BY <1>16, <2>3 DEF Shape
      <3>2. Len(SubSeq(all, 1, n)) = n
        BY <1>17, WriteChainTask
      <3>3. all[1] = x
        <4>1. d2.fat \in [Clusters -> FatValues]
          BY <1>2 DEF Volumes
        <4>2. \A i \in 1 .. old : all[i] = Chain(d2.fat, x)[i]
          BY <1>2, <1>11, <4>1, UsableFacts
        <4>3. Chain(d2.fat, x)[1] = x
          BY <1>2, ChainLinks
        <4> QED
          BY <1>12, <4>2, <4>3
      <3>4. Chain(v.fat, x) = SubSeq(all, 1, n)
        BY <3>1, <3>3, ChainIs
      <3>5. read_chain(v, x) \in Seq(Units) /\ Len(read_chain(v, x)) = Len(Chain(v.fat, x)) * K
        BY <3>1, Reads
      <3> QED
        BY <3>2, <3>4, <3>5
    <2>10. read_chain(v, x)[j] = e
      <3>1. ClusterNo(j) <= n
        BY <1>16, <2>8, PositionIn
      <3>2. read_chain(v, x)[j] = us[j]
        BY <2>6, <2>8, <2>9, <3>1 DEF Mixed
      <3>3. us[slot0 + t - 1] = e
        <4>1. Adding(us, rm, slot0, t, e, slot0 + t - 1)
          BY <1>7, <1>9 DEF Adding
        <4> QED
          BY <4>1, AddingAdds DEF Added
      <3> QED
        BY <1>19, <3>2, <3>3
    <2>11. j \in DirSlots(read_chain(v, x))
      BY <2>7, <2>8, <2>9, <2>10, EntrySlots, LenProperties DEF SlotEdit
    <2> QED
      BY <2>2, <2>4, <2>11
  <1> QED
    BY <1>1, <1>18, <1>20, <1>24, <1>25

-----------------------------------------------------------------------------
(* What an edit leaves of the paths *)

\* A path that leads elsewhere than to the edited entry led there before.
LEMMA EditBack ==
  ASSUME NEW d, Sound(d), NEW v, NEW x, NEW j, Edits(d, v, x, j),
         NEW q, NEW s, At(v, q, s), s # <<x, j>>
  PROVE  At(d, q, s) /\ EntryOf(v, s) = EntryOf(d, s)
  <1>1. \A r \in TreeSlots(v) : \/ r = <<x, j>> /\ j \in DirSlots(read_chain(v, x))
                                \/ r \in TreeSlots(d) /\ r # <<x, j>> /\ EntryOf(v, r) = EntryOf(d, r)
    BY EditTree
  <1>2. s \in TreeSlots(d) /\ EntryOf(v, s) = EntryOf(d, s)
    BY <1>1 DEF At
  <1>3. CASE Len(q) = 1 /\ s[1] = Root
    BY <1>2, <1>3 DEF At
  <1>4. CASE Len(q) = 2 /\ \E r \in TreeSlots(v) : /\ r[1] = Root /\ EntryOf(v, r).name = q[1]
                                                   /\ EntryOf(v, r).dir /\ First(v, r) = s[1]
    <2>1. PICK r \in TreeSlots(v) : /\ r[1] = Root /\ EntryOf(v, r).name = q[1]
                                    /\ EntryOf(v, r).dir /\ First(v, r) = s[1]
      BY <1>4
    <2>2. ~(r = <<x, j>> /\ j \in DirSlots(read_chain(v, x)))
      <3> SUFFICES ASSUME r = <<x, j>>, j \in DirSlots(read_chain(v, x)) PROVE FALSE
        OBVIOUS
      <3>1. NewEntry(d, v, x, j)
        BY DEF Edits
      <3>2. EntryOf(v, r) = read_chain(v, x)[j]
        BY TreeIs
      <3>3. DirSlots(read_chain(v, s[1])) = {}
        BY <2>1, <3>1, <3>2 DEF NewEntry, First
      <3>4. PICK y \in Dirs(v) : \E i \in DirSlots(read_chain(v, y)) : s = <<y, i>>
        BY TreeIs DEF At
      <3>5. PICK i \in DirSlots(read_chain(v, y)) : s = <<y, i>>
        BY <3>4
      <3>6. s[1] = y
        BY <3>5
      <3> QED
        BY <3>3, <3>5, <3>6
    <2>3. r \in TreeSlots(d) /\ EntryOf(v, r) = EntryOf(d, r)
      BY <1>1, <2>1, <2>2
    <2> QED
      BY <1>2, <1>4, <2>1, <2>3 DEF At, First
  <1> QED
    BY <1>3, <1>4 DEF At

\* A path to the edited entry led there before, unless the entry is new.
LEMMA EditBackHere ==
  ASSUME NEW d, Sound(d), NEW v, NEW x, NEW j, Edits(d, v, x, j), j \in DirSlots(read_chain(d, x)),
         NEW q, At(v, q, <<x, j>>)
  PROVE  At(d, q, <<x, j>>) /\ EntryOf(v, <<x, j>>).dir = EntryOf(d, <<x, j>>).dir
  <1>1. PICK s : s = <<x, j>>
    OBVIOUS
  <1>2. x \in Dirs(d) /\ x \in Dirs(v) /\ s[1] = x
    BY <1>1, EditTree DEF Edits
  <1>3. /\ s \in TreeSlots(d) /\ j \in DirSlots(read_chain(v, x))
        /\ EntryOf(d, s) = read_chain(d, x)[j] /\ EntryOf(v, s) = read_chain(v, x)[j]
    BY <1>1, <1>2, TreeIs DEF At
  <1>4. EntryOf(v, s).name = EntryOf(d, s).name /\ EntryOf(v, s).dir = EntryOf(d, s).dir
    BY <1>3 DEF Edits, SameName
  <1>5. CASE Len(q) = 1 /\ s[1] = Root
    BY <1>1, <1>3, <1>4, <1>5 DEF At
  <1>6. CASE Len(q) = 2 /\ \E r \in TreeSlots(v) : /\ r[1] = Root /\ EntryOf(v, r).name = q[1]
                                                   /\ EntryOf(v, r).dir /\ First(v, r) = s[1]
    <2>1. PICK r \in TreeSlots(v) : /\ r[1] = Root /\ EntryOf(v, r).name = q[1]
                                    /\ EntryOf(v, r).dir /\ First(v, r) = s[1]
      BY <1>6
    <2>2. r # s
      <3> SUFFICES ASSUME r = s PROVE FALSE
        OBVIOUS
      <3>1. First(v, r) # Root
        BY EditSound, FirstUnique
      <3> QED
        BY <2>1, <3>1
    <2>3. r \in TreeSlots(d) /\ EntryOf(v, r) = EntryOf(d, r)
      BY <1>1, <2>2, EditTree
    <2> QED
      BY <1>1, <1>3, <1>4, <1>6, <2>1, <2>3 DEF At, First
  <1> QED
    BY <1>1, <1>4, <1>5, <1>6 DEF At

\* remove and rmdir: the path is gone when its entry is.
LEMMA EditGone ==
  ASSUME NEW d, Sound(d), NEW v, NEW x, NEW j, Edits(d, v, x, j),
         NEW p \in Paths, At(d, p, <<x, j>>), j \notin DirSlots(read_chain(v, x))
  PROVE  ~Exists(v, p)
  <1> SUFFICES ASSUME Exists(v, p) PROVE FALSE
    OBVIOUS
  <1>1. Sound(v)
    BY EditSound
  <1>2. PICK s : s = <<ParentOf(v, p), SlotOf(v, p)>>
    OBVIOUS
  <1>3. At(v, p, s)
    BY <1>1, <1>2, ResolveFacts
  <1>4. s # <<x, j>>
    <2>1. x \in Dirs(v)
      BY EditTree
    <2> QED
      BY <1>3, <2>1, TreeIs DEF At
  <1>5. At(d, p, s)
    BY <1>3, <1>4, EditBack
  <1>6. s = <<ParentOf(d, p), SlotOf(d, p)>> /\ <<x, j>> = <<ParentOf(d, p), SlotOf(d, p)>>
    BY <1>5, ResolveIs
  <1> QED
    BY <1>4, <1>6

\* mkdir: the path leads to the entry that was added.
LEMMA EditMade ==
  ASSUME NEW d, Sound(d), NEW v, NEW x, NEW j, Edits(d, v, x, j),
         NEW p \in Paths, x = ParentOf(d, p), x # 0, j \notin DirSlots(read_chain(d, x)),
         j \in DirSlots(read_chain(v, x)), read_chain(v, x)[j].name = Last(p), read_chain(v, x)[j].dir
  PROVE  IsDir(v, p) /\ DirSlots(read_chain(v, EntryAt(v, p).cluster)) = {}
  <1>1. PICK s : s = <<x, j>>
    OBVIOUS
  <1>2. Sound(v) /\ x \in Dirs(v) /\ s[1] = x /\ x \in Dirs(d)
    BY <1>1, EditSound, EditTree DEF Edits
  <1>3. s \in TreeSlots(v) /\ EntryOf(v, s) = read_chain(v, x)[j] /\ s \notin TreeSlots(d)
    BY <1>1, <1>2, TreeIs
  <1>4. At(v, p, s)
    <2>1. CASE Len(p) = 1
      BY <1>2, <1>3, <2>1, ParentFacts DEF At
    <2>2. CASE Len(p) = 2
      <3>1. PICK r \in TreeSlots(d) : /\ r[1] = Root /\ EntryOf(d, r).name = p[1]
                                      /\ EntryOf(d, r).dir /\ First(d, r) = x
        BY <2>2, ParentFacts
      <3>2. r # <<x, j>>
        BY <1>1, <1>3
      <3>3. r \in TreeSlots(v) /\ EntryOf(v, r) = EntryOf(d, r)
        BY <3>2, EditTree
      <3> QED
        BY <1>2, <1>3, <2>2, <3>1, <3>3 DEF At, First
    <2> QED
      BY <2>1, <2>2, PathFacts
  <1>5. Exists(v, p) /\ s = <<ParentOf(v, p), SlotOf(v, p)>>
    BY <1>2, <1>4, ResolveIs
  <1>6. EntryAt(v, p) = read_chain(v, x)[j]
    BY <1>2, <1>3, <1>5, ResolveFacts
  <1>7. NewEntry(d, v, x, j)
    BY DEF Edits
  <1>8. DirSlots(read_chain(v, EntryAt(v, p).cluster)) = {}
    BY <1>6, <1>7 DEF NewEntry
  <1> QED
    BY <1>5, <1>6, <1>8 DEF IsDir

-----------------------------------------------------------------------------
(* What a file reads as *)

\* The data of the file with the entry e.
FileData(d, e) ==
  LET us == read_chain(d, e.cluster)
  IN SubSeq(us, 1, IF e.size < Len(us) THEN e.size ELSE Len(us))

\* The path p, if it is a file, reads as sy remembers it.
Back(d, sy, p) ==
  (sy[p].known /\ Exists(d, p) /\ ~IsDir(d, p)) => Contents(d, p) = sy[p].data

LEMMA ContentsAre ==
  ASSUME NEW d, NEW p
  PROVE  Contents(d, p) = FileData(d, EntryAt(d, p))
  BY DEF Contents, FileData

\* A file other than the edited entry keeps its data.
LEMMA EditData ==
  ASSUME NEW d, Sound(d), NEW v, NEW x, NEW j, Edits(d, v, x, j),
         NEW s \in TreeSlots(d), s # <<x, j>>, ~EntryOf(d, s).dir
  PROVE  FileData(v, EntryOf(d, s)) = FileData(d, EntryOf(d, s))
  <1>1. x \in Dirs(d)
    BY DEF Edits
  <1>2. First(d, s) # x
    <2>1. CASE x = Root
      BY <2>1, FirstUnique
    <2>2. CASE x # Root
      <3>1. PICK r \in TreeSlots(d) : EntryOf(d, r).dir /\ First(d, r) = x
        BY <1>1, <2>2, SoundDirs
      <3>2. x \in Clusters
        BY <1>1, SoundDirs
      <3> QED
        BY <3>1, <3>2, FirstUnique
    <2> QED
      BY <2>1, <2>2
  <1>3. read_chain(v, First(d, s)) = read_chain(d, First(d, s))
    BY <1>2, EditKept
  <1> QED
    BY <1>3 DEF FileData, First

\* So a path that does not lead to the edited entry, or to a directory there, reads as before.
LEMMA EditReads ==
  ASSUME NEW d, Sound(d), NEW v, NEW x, NEW j, Edits(d, v, x, j), NEW sy,
         NEW q \in Paths, Back(d, sy, q), At(v, q, <<x, j>>) => EntryOf(v, <<x, j>>).dir
  PROVE  Back(v, sy, q)
  <1> SUFFICES ASSUME sy[q].known, Exists(v, q), ~IsDir(v, q) PROVE Contents(v, q) = sy[q].data
    BY DEF Back
  <1>1. Sound(v)
    BY EditSound
  <1>2. PICK s : s = <<ParentOf(v, q), SlotOf(v, q)>>
    OBVIOUS
  <1>3. At(v, q, s) /\ EntryAt(v, q) = EntryOf(v, s)
    BY <1>1, <1>2, ResolveFacts
  <1>4. ~EntryOf(v, s).dir
    BY <1>3 DEF IsDir
  <1>5. s # <<x, j>>
    BY <1>3, <1>4
  <1>6. At(d, q, s) /\ EntryOf(v, s) = EntryOf(d, s)
    BY <1>3, <1>5, EditBack
  <1>7. Exists(d, q) /\ s = <<ParentOf(d, q), SlotOf(d, q)>>
    BY <1>6, ResolveIs
  <1>8. EntryAt(d, q) = EntryOf(d, s)
    BY <1>7, ResolveFacts
  <1>9. Contents(d, q) = sy[q].data
    BY <1>4, <1>6, <1>7, <1>8 DEF Back, IsDir
  <1>10. FileData(v, EntryOf(d, s)) = FileData(d, EntryOf(d, s))
    BY <1>4, <1>5, <1>6, EditData DEF At
  <1> QED
    BY <1>3, <1>6, <1>8, <1>9, <1>10, ContentsAre

\* A chain with the pieces of the data reads as the data.
LEMMA PiecesRead ==
  ASSUME NEW d \in Volumes, NEW c, NEW data \in Seq(Units), NEW cl, cl = Chain(d.fat, c),
         Len(cl) = Needed(data), \A k \in 1 .. Needed(data) : d.units[cl[k]] = Piece(data, k)
  PROVE  LET us == read_chain(d, c)
         IN SubSeq(us, 1, IF Len(data) < Len(us) THEN Len(data) ELSE Len(us)) = data
  <1>1. PICK us : us = read_chain(d, c)
    OBVIOUS
  <1>2. PICK n \in Nat, l \in Nat : n = Needed(data) /\ l = Len(data) /\ l <= n * K
    <2>1. Len(data) \in Nat
      BY LenProperties
    <2> QED
      BY <2>1, NeededFacts
  <1>3. /\ n * K \in Nat /\ us \in Seq(Units) /\ Len(us) = n * K
        /\ \A i \in 1 .. n * K : /\ i \in Nat \ {0} /\ ClusterNo(i) \in 1 .. n /\ Within(i) \in 1 .. K
                                 /\ us[i] = d.units[cl[ClusterNo(i)]][Within(i)]
    BY <1>1, <1>2, ReadChain
  <1>4. PICK a \in Nat : a = n * K
    BY <1>3
  <1>5. ASSUME NEW i \in 1 .. l PROVE us[i] = data[i] /\ us[i] \in Units
    <2>1. i \in 1 .. a
      BY <1>2, <1>4
    <2>2. PICK q \in 1 .. n, r \in 1 .. K : q = ClusterNo(i) /\ r = Within(i)
      BY <1>3, <1>4, <2>1
    <2>3. us[i] = Piece(data, q)[r]
      BY <1>2, <1>3, <1>4, <2>1, <2>2
    <2>4. Piece(data, q)[r] = IF (q - 1) * K + r <= Len(data) THEN data[(q - 1) * K + r] ELSE Zero
      BY <1>2, PieceFacts
    <2>5. i = (q - 1) * K + r
      BY <2>2, Position
    <2>6. us[i] = data[i]
      <3>1. PICK y : y = (q - 1) * K + r
        OBVIOUS
      <3>2. y = i /\ y <= Len(data)
        BY <1>2, <2>5, <3>1
      <3> QED
        BY <2>3, <2>4, <3>1, <3>2
    <2>7. data[i] \in Units
      BY <1>2, ElementOfSeq
    <2> QED
      BY <2>6, <2>7
  <1>6. (IF Len(data) < Len(us) THEN Len(data) ELSE Len(us)) = l
    BY <1>2, <1>3, <1>4
  <1>7. /\ SubSeq(us, 1, l) \in Seq(Units) /\ Len(SubSeq(us, 1, l)) = l
        /\ \A k \in 1 .. l : SubSeq(us, 1, l)[k] = us[k]
    <2>1. l \in Int /\ 1 \in Int /\ l - 1 + 1 = l
      OBVIOUS
    <2>2. \A k \in 1 .. l : us[k] \in Units
      BY <1>5
    <2>3. /\ SubSeq(us, 1, l) \in Seq(Units)
          /\ Len(SubSeq(us, 1, l)) = IF 1 <= l THEN l - 1 + 1 ELSE 0
          /\ \A k \in 1 .. (l - 1 + 1) : SubSeq(us, 1, l)[k] = us[1 + k - 1]
      BY <2>1, <2>2, SubSeqProperties
    <2> QED
      BY <2>1, <2>3
  <1>8. SubSeq(us, 1, l) = data
    <2>1. \A k \in 1 .. l : SubSeq(us, 1, l)[k] = data[k]
      BY <1>5, <1>7
    <2> QED
      BY <1>2, <1>7, <2>1, SeqEqual
  <1> QED
    BY <1>1, <1>6, <1>8

-----------------------------------------------------------------------------
(* What an operation takes and gives up *)

\* Outside the edited entry and the directory the tree uses the same clusters.
LEMMA ReachBack ==
  ASSUME NEW d, Sound(d), NEW v, NEW x, NEW j, Edits(d, v, x, j), NEW z \in Reach(v)
  PROVE  \/ z \in Range(Chain(v.fat, x))
         \/ z \in Mine(v, x, j)
         \/ z \in Reach(d) /\ z \notin Mine(d, x, j)
  <1>1. x \in Dirs(d) /\ x \in Dirs(v)
    BY EditTree DEF Edits
  <1>2. CASE z \in Range(Chain(v.fat, Root))
    <2>1. CASE x = Root
      BY <1>2, <2>1
    <2>2. CASE x # Root
      <3>1. z \in Range(Chain(d.fat, Root))
        BY <1>2, <2>2, EditKeptRoot
      <3>2. z \notin Mine(d, x, j)
        BY <1>1, <3>1, MineIs DEF Sound
      <3> QED
        BY <3>1, <3>2, ReachIs
    <2> QED
      BY <2>1, <2>2
  <1>3. ASSUME NEW s \in TreeSlots(v), z \in Owned(v, s)
        PROVE  \/ z \in Range(Chain(v.fat, x))
               \/ z \in Mine(v, x, j)
               \/ z \in Reach(d) /\ z \notin Mine(d, x, j)
    <2>1. CASE s = <<x, j>>
      BY <1>1, <1>3, <2>1, MineIs
    <2>2. CASE s # <<x, j>>
      <3>1. s \in TreeSlots(d) /\ EntryOf(v, s) = EntryOf(d, s)
        BY <2>2, EditTree
      <3>2. First(v, s) = First(d, s) /\ z \in Range(Chain(v.fat, First(d, s)))
        BY <1>3, <3>1, ReachIs DEF First
      <3>3. CASE First(d, s) = x
        BY <3>2, <3>3
      <3>4. CASE First(d, s) # x
        <4>1. z \in Range(Chain(d.fat, First(d, s)))
          BY <2>2, <3>1, <3>2, <3>4, EditKept
        <4>2. z \in Owned(d, s)
          BY <4>1, ReachIs
        <4>3. z \notin Mine(d, x, j)
          BY <1>1, <2>2, <3>1, <4>2, MineIs DEF Sound
        <4> QED
          BY <3>1, <4>2, <4>3, ReachIs
      <3> QED
        BY <3>3, <3>4
    <2> QED
      BY <2>1, <2>2
  <1> QED
    BY <1>2, <1>3, ReachIs

LEMMA ReachKept ==
  ASSUME NEW d, Sound(d), NEW v, NEW x, NEW j, Edits(d, v, x, j),
         \A z \in Range(Chain(d.fat, x)) : z \in Range(Chain(v.fat, x)),
         NEW z \in Reach(d), z \notin Mine(d, x, j)
  PROVE  z \in Reach(v)
  <1>1. x \in Dirs(d) /\ x \in Dirs(v) /\ Sound(v)
    BY EditTree, EditSound DEF Edits
  <1>2. CASE z \in Range(Chain(d.fat, x))
    BY <1>1, <1>2, DirReach
  <1>3. CASE z \in Range(Chain(d.fat, Root)) /\ x # Root
    BY <1>3, EditKeptRoot, ReachIs
  <1>4. ASSUME NEW s \in TreeSlots(d), z \in Owned(d, s), z \notin Range(Chain(d.fat, x))
        PROVE  z \in Reach(v)
    <2>1. s # <<x, j>>
      BY <1>1, <1>4, MineIs
    <2>2. z \in Range(Chain(d.fat, First(d, s))) /\ First(d, s) # x
      BY <1>4, ReachIs
    <2>3. s \in TreeSlots(v) /\ First(v, s) = First(d, s)
      BY <2>1, EditTree DEF First
    <2>4. z \in Range(Chain(v.fat, First(v, s)))
      BY <2>1, <2>2, <2>3, EditKept
    <2> QED
      BY <2>3, <2>4, ReachIs
  <1> QED
    BY <1>2, <1>3, <1>4, ReachIs

\* From d to d2 the clusters `old` were given up, but for `cut`, and `new` were taken.
Moved(d, d2, old, new, cut) ==
  /\ \A z \in new : z \in old \/ d.fat[z] = FREE
  /\ \A z \in Clusters : z \notin new => (d2.fat[z] # FREE <=> (d.fat[z] # FREE /\ (z \in old => z \in cut)))
  /\ \A z \in cut : z \in old /\ z \notin new

\* The entry that was written has the clusters it had before the directory was.
LEMMA SettledEntry ==
  ASSUME NEW d, Sound(d), NEW d2, NEW x, NEW j, Aside(d, d2, x, j), NEW e, Fits(d, d2, x, j, e),
         NEW v \in Volumes, Settled(d2, v, x)
  PROVE  /\ Chain(v.fat, e.cluster) = Chain(d2.fat, e.cluster)
         /\ read_chain(v, e.cluster) = read_chain(d2, e.cluster)
  <1>1. WellFormed(d2.fat, e.cluster) /\ d2 \in Volumes /\ x \in Dirs(d)
    BY DEF Fits, Aside
  <1>2. Chain(d2.fat, x) = Chain(d.fat, x)
    BY AsideDir
  <1>3. ASSUME NEW z \in Range(Chain(d2.fat, e.cluster))
        PROVE  v.fat[z] = d2.fat[z] /\ v.units[z] = d2.units[z]
    <2>1. z \in Clusters /\ d2.fat[z] # FREE
      BY <1>1, ChainClusters
    <2>2. z \in Mine(d, x, j) \/ z \notin Reach(d)
      BY DEF Fits
    <2>3. z \notin Range(Chain(d2.fat, x))
      BY <1>1, <1>2, <2>2, DirReach
    <2> QED
      BY <2>1, <2>3 DEF Settled
  <1> QED
    BY <1>1, <1>3, Kept

LEMMA LostIs ==
  ASSUME NEW d, Sound(d), NEW d2, NEW v, NEW x, NEW j, Edits(d, v, x, j), Aside(d, d2, x, j),
         Settled(d2, v, x), NEW cut, Moved(d, d2, Mine(d, x, j), Mine(v, x, j), cut)
  PROVE  Lost(v) = Lost(d) \cup cut
  <1>1. x \in Dirs(d) /\ x \in Dirs(v) /\ Sound(v) /\ Chain(d2.fat, x) = Chain(d.fat, x)
    BY EditTree, EditSound, AsideDir DEF Edits
  <1>2. \A w : Lost(w) = {z \in Clusters : w.fat[z] # FREE /\ z \notin Reach(w)}
    BY DEF Lost, Allocated, Reach
  <1>3. /\ \A z \in Range(Chain(d.fat, x)) : z \in Range(Chain(v.fat, x))
        /\ \A z \in Range(Chain(v.fat, x)) : z \in Range(Chain(d.fat, x)) \/ d2.fat[z] = FREE
        /\ \A z \in Clusters : z \notin Range(Chain(v.fat, x)) => v.fat[z] = d2.fat[z]
    BY <1>1 DEF Settled
  <1>4. /\ \A z \in Range(Chain(d.fat, x)) : z \in Reach(d)
        /\ \A z \in Mine(d, x, j) : z \notin Range(Chain(d.fat, x)) /\ z \in Reach(d)
        /\ \A z \in Reach(d) : z \in Clusters /\ d.fat[z] # FREE
    BY <1>1, DirReach
  <1>5. /\ \A z \in Range(Chain(v.fat, x)) : z \in Reach(v)
        /\ \A z \in Mine(v, x, j) : z \in Reach(v)
    BY <1>1, DirReach
  <1>6. ASSUME NEW z \in Lost(v) PROVE z \in Lost(d) \cup cut
    <2>1. z \in Clusters /\ v.fat[z] # FREE /\ z \notin Reach(v)
      BY <1>2
    <2>2. z \notin Range(Chain(v.fat, x)) /\ z \notin Mine(v, x, j)
      BY <1>5, <2>1
    <2>3. d.fat[z] # FREE /\ (z \in Mine(d, x, j) => z \in cut)
      BY <1>3, <2>1, <2>2 DEF Moved
    <2>4. z \notin Mine(d, x, j) => z \notin Reach(d)
      BY <1>3, <2>1, ReachKept
    <2> QED
      BY <1>2, <2>1, <2>3, <2>4
  <1>7. ASSUME NEW z \in Lost(d) PROVE z \in Lost(v)
    <2>1. z \in Clusters /\ d.fat[z] # FREE /\ z \notin Reach(d)
      BY <1>2
    <2>2. z \notin Mine(d, x, j) /\ z \notin Mine(v, x, j)
      BY <1>4, <2>1 DEF Moved
    <2>3. d2.fat[z] # FREE
      BY <2>1, <2>2 DEF Moved
    <2>4. z \notin Range(Chain(v.fat, x))
      BY <1>3, <1>4, <2>1, <2>3
    <2>5. z \notin Reach(v)
      BY <2>1, <2>2, <2>4, ReachBack
    <2> QED
      BY <1>2, <1>3, <2>1, <2>3, <2>4, <2>5
  <1>8. ASSUME NEW z \in cut PROVE z \in Lost(v)
    <2>1. z \in Mine(d, x, j) /\ z \notin Mine(v, x, j)
      BY DEF Moved
    <2>2. z \in Clusters /\ d.fat[z] # FREE /\ z \notin Range(Chain(d.fat, x))
      BY <1>4, <2>1
    <2>3. d2.fat[z] # FREE
      BY <2>1, <2>2 DEF Moved
    <2>4. z \notin Range(Chain(v.fat, x))
      BY <1>3, <2>2, <2>3
    <2>5. z \notin Reach(v)
      BY <2>1, <2>4, ReachBack
    <2> QED
      BY <1>2, <1>3, <2>2, <2>3, <2>4, <2>5
  <1> QED
    BY <1>6, <1>7, <1>8

\* The chain of c in v is one that the entry in slot j of x may own.
Allowed(d, v, x, j, c) ==
  /\ WellFormed(v.fat, c)
  /\ \A z \in Range(Chain(v.fat, c)) : z \in Mine(d, x, j) \/ z \notin Reach(d)

LEMMA NoChain ==
  ASSUME NEW fat, NEW c, c \notin Clusters
  PROVE  Chain(fat, c) = <<>> /\ WellFormed(fat, c) /\ \A z \in Range(Chain(fat, c)) : FALSE
  <1>1. ChainOf(fat, c, <<>>)
    BY EmptySeq DEF ChainOf
  <1>2. WellFormed(fat, c) /\ Chain(fat, c) = <<>>
    BY <1>1, ChainIsWellFormed
  <1> QED
    BY <1>2 DEF Range

\* While a file is written, only its own and free clusters change.
LEMMA ShapeAside ==
  ASSUME NEW d, Sound(d), NEW x \in Dirs(d), NEW j, NEW c, Allowed(d, d, x, j, c),
         NEW data, NEW all, NEW old, NEW n, Planned(d, c, data, all, old, n), n # 0,
         Task(d, old, all, n, data),
         NEW v, NEW i, NEW m, Shape(v, d, old, all, n, data, i, m)
  PROVE  /\ Aside(d, v, x, j) /\ Allowed(d, v, x, j, c)
         /\ m # 0 => Allowed(d, v, x, j, all[1])
  <1>1. d \in Volumes /\ v \in Volumes /\ n \in Nat /\ m \in Nat /\ m <= Len(all) /\ n <= Len(all)
        /\ old \in Nat /\ old <= Len(all) /\ Len(all) \in Nat
    BY DEF Task, Shape
  <1>2. /\ \A k \in 1 .. old : all[k] = Chain(d.fat, c)[k]
        /\ \A k \in (old + 1) .. Len(all) : d.fat[all[k]] = FREE
    <2>1. d.fat \in [Clusters -> FatValues]
      BY <1>1 DEF Volumes
    <2>2. WellFormed(d.fat, c) /\ all = Usable(d.fat, c) /\ old = Len(Chain(d.fat, c))
      BY DEF Planned
    <2>3. PICK fat : fat = d.fat
      OBVIOUS
    <2>4. /\ \A k \in 1 .. old : all[k] = Chain(fat, c)[k] /\ fat[all[k]] # FREE
          /\ \A k \in (old + 1) .. Len(all) : fat[all[k]] = FREE
      BY <2>1, <2>2, <2>3, UsableFacts
    <2> QED
      BY <2>3, <2>4
  <1>3. ASSUME NEW k \in 1 .. Len(all) PROVE all[k] \in Mine(d, x, j) \/ all[k] \notin Reach(d)
    <2>1. CASE k \in 1 .. old
      <3>1. all[k] \in Range(Chain(d.fat, c))
        <4>1. old = Len(Chain(d.fat, c)) /\ Chain(d.fat, c) \in Seq(Clusters)
          BY ChainLinks DEF Planned
        <4>2. k \in DOMAIN Chain(d.fat, c)
          BY <2>1, <4>1, LenProperties
        <4> QED
          BY <1>2, <2>1, <4>2 DEF Range
      <3> QED
        BY <3>1 DEF Allowed
    <2>2. CASE k \in (old + 1) .. Len(all)
      BY <1>2, <2>2, DirReach
    <2> QED
      BY <1>1, <2>1, <2>2
  <1>4. Aside(d, v, x, j)
    <2> SUFFICES ASSUME NEW z \in Reach(d), z \notin Mine(d, x, j)
                 PROVE  v.fat[z] = d.fat[z] /\ v.units[z] = d.units[z]
      BY <1>1 DEF Aside
    <2>1. z \in Clusters
      BY DirReach
    <2>2. \A k \in 1 .. n : all[k] # z
      BY <1>1, <1>3
    <2> QED
      BY <2>1, <2>2 DEF Shape
  <1>5. ASSUME m # 0 PROVE Allowed(d, v, x, j, all[1])
    <2>1. ChainOf(v.fat, all[1], SubSeq(all, 1, m))
      BY <1>1, <1>5 DEF Shape
    <2>2. WellFormed(v.fat, all[1]) /\ Chain(v.fat, all[1]) = SubSeq(all, 1, m)
      BY <2>1, ChainIsWellFormed
    <2>3. /\ SubSeq(all, 1, m) \in Seq(Clusters) /\ Len(SubSeq(all, 1, m)) = m
          /\ \A k \in 1 .. m : SubSeq(all, 1, m)[k] = all[k]
      BY <1>1, TaskFacts
    <2>4. DOMAIN SubSeq(all, 1, m) = 1 .. m
      BY <2>3, LenProperties
    <2>5. \A z \in Range(SubSeq(all, 1, m)) : \E k \in 1 .. m : z = all[k]
      BY <2>3, <2>4 DEF Range
    <2>6. \A k \in 1 .. m : k \in 1 .. Len(all)
      BY <1>1
    <2> QED
      BY <1>3, <2>2, <2>5, <2>6 DEF Allowed
  <1>6. Allowed(d, v, x, j, c)
    <2>1. CASE c \notin Clusters
      BY <2>1, NoChain DEF Allowed
    <2>2. CASE c \in Clusters
      <3>1. old # 0 /\ Chain(d.fat, c)[1] = c
        <4>1. old = Len(Chain(d.fat, c)) /\ Chain(d.fat, c) \in Seq(Clusters)
          BY ChainLinks DEF Planned
        <4> QED
          BY <2>2, <4>1, ChainLinks, EmptySeq
      <3>2. all[1] = c
        BY <1>1, <1>2, <3>1
      <3>3. m # 0
        BY <1>1, <3>1 DEF Shape
      <3> QED
        BY <1>5, <3>2, <3>3
    <2> QED
      BY <2>1, <2>2
  <1> QED
    BY <1>4, <1>5, <1>6

\* The volume an operation finds.
LEMMA NotYet ==
  ASSUME NEW d, Sound(d), NEW x \in Dirs(d), NEW j
  PROVE  Aside(d, d, x, j)
  BY DEF Aside, Sound

\* The chain of c holds the data and nothing else.
Stored(v, c, data) ==
  /\ Len(Chain(v.fat, c)) = Needed(data)
  /\ \A k \in 1 .. Needed(data) : v.units[Chain(v.fat, c)[k]] = Piece(data, k)

\* The clusters of a chain that the data does not need.
CutFrom(s, data) == {s[i] : i \in {k \in DOMAIN s : k > Needed(data)}}

\* There is data, and write_chain (as w) found room for it.
Whole(w, data) == w.ok /\ data # <<>>

LEMMA BodyDone ==
  ASSUME NEW d, NEW c, NEW data, NEW all, NEW old, NEW n, Planned(d, c, data, all, old, n), n # 0,
         n = Needed(data), NEW v, Shape(v, d, old, all, n, data, n, n)
  PROVE  /\ Stored(v, all[1], data)
         /\ Moved(d, v, Range(Chain(d.fat, c)), Range(Chain(v.fat, all[1])), CutFrom(Chain(d.fat, c), data))
  <1>1. PICK s : s = Chain(d.fat, c)
    OBVIOUS
  <1>2. /\ d.fat \in [Clusters -> FatValues] /\ WellFormed(d.fat, c)
        /\ all = Usable(d.fat, c) /\ old = Len(s)
    BY <1>1 DEF Planned, Volumes
  <1>3. /\ Len(all) \in Nat /\ old \in 0 .. Len(all)
        /\ \A i \in 1 .. old : all[i] = s[i]
        /\ \A i \in (old + 1) .. Len(all) : d.fat[all[i]] = FREE
        /\ \A i, k \in 1 .. Len(all) : all[i] = all[k] => i = k
    BY <1>1, <1>2, UsableFacts
  <1>4. /\ n \in Nat /\ n <= Len(all) /\ SubSeq(all, 1, n) \in Seq(Clusters) /\ Len(SubSeq(all, 1, n)) = n
        /\ \A k \in 1 .. n : SubSeq(all, 1, n)[k] = all[k]
    BY WriteChainTask
  <1>5. PICK cl : cl = SubSeq(all, 1, n)
    OBVIOUS
  <1>6. Chain(v.fat, all[1]) = cl
    <2>1. ChainOf(v.fat, all[1], cl)
      BY <1>4, <1>5 DEF Shape
    <2> QED
      BY <2>1, ChainIs
  <1>7. DOMAIN cl = 1 .. n /\ \A k \in 1 .. n : cl[k] = all[k]
    BY <1>4, <1>5, LenProperties
  <1>8. DOMAIN s = 1 .. old
    BY <1>1, <1>2, ChainLinks, LenProperties
  <1>9. Stored(v, all[1], data)
    <2>1. \A k \in 1 .. n : v.units[all[k]] = Piece(data, k)
      BY <1>4 DEF Shape
    <2> QED
      BY <1>4, <1>5, <1>6, <1>7, <2>1 DEF Stored
  <1>10. Moved(d, v, Range(s), Range(cl), CutFrom(s, data))
    <2>1. ASSUME NEW z \in Range(cl) PROVE z \in Range(s) \/ d.fat[z] = FREE
      <3>1. PICK k \in 1 .. n : z = all[k]
        BY <1>7 DEF Range
      <3>2. CASE k \in 1 .. old
        BY <1>3, <1>8, <3>1, <3>2 DEF Range
      <3>3. CASE k \in (old + 1) .. Len(all)
        BY <1>3, <3>1, <3>3
      <3> QED
        BY <1>3, <1>4, <3>2, <3>3
    <2>2. ASSUME NEW z \in Clusters, z \notin Range(cl)
          PROVE  v.fat[z] # FREE <=> (d.fat[z] # FREE /\ (z \in Range(s) => z \in CutFrom(s, data)))
      <3>1. \A k \in 1 .. n : all[k] # z
        BY <1>7, <2>2 DEF Range
      <3>2. v.fat[z] = d.fat[z]
        BY <3>1 DEF Shape
      <3>3. ASSUME z \in Range(s) PROVE z \in CutFrom(s, data)
        <4>1. PICK k \in 1 .. old : z = s[k]
          BY <1>8, <3>3 DEF Range
        <4>2. k > n
          BY <1>3, <1>4, <3>1, <4>1
        <4> QED
          BY <1>8, <4>1, <4>2 DEF CutFrom
      <3> QED
        BY <3>2, <3>3
    <2>3. ASSUME NEW z \in CutFrom(s, data) PROVE z \in Range(s) /\ z \notin Range(cl)
      <3>1. PICK k \in 1 .. old : z = s[k] /\ k > n
        BY <1>8 DEF CutFrom
      <3>2. z = all[k] /\ k \in 1 .. Len(all)
        BY <1>3, <3>1
      <3>3. \A i \in 1 .. n : i \in 1 .. Len(all) /\ i # k
        BY <1>3, <1>4, <3>1
      <3>4. \A i \in 1 .. n : cl[i] # z
        BY <1>3, <1>7, <3>2, <3>3
      <3> QED
        BY <1>7, <1>8, <3>1, <3>4 DEF Range
    <2> QED
      BY <2>1, <2>2, <2>3 DEF Moved
  <1> QED
    BY <1>1, <1>6, <1>9, <1>10

(***************************************************************************)
(* Writing a file: before its directory entry is touched, every volume on  *)
(* the way differs only in the file's own clusters and in free ones.       *)
(***************************************************************************)
LEMMA BodyStages ==
  ASSUME NEW d, Sound(d), NEW x \in Dirs(d), NEW j, NEW c \in Clusters \cup {0}, Allowed(d, d, x, j, c),
         NEW data \in Seq(Units), NEW w, w = write_chain(d.fat, c, data)
  PROVE  /\ w.todo \in Seq(Writes)
         /\ \A k \in 0 .. Len(w.todo) : /\ Aside(d, Stage(d, w.todo, k), x, j)
                                        /\ Allowed(d, Stage(d, w.todo, k), x, j, c)
         /\ w.first \in Clusters \cup {0}
         /\ Allowed(d, Run(d, w.todo), x, j, w.first)
         /\ Whole(w, data) =>
               /\ Stored(Run(d, w.todo), w.first, data)
               /\ Moved(d, Run(d, w.todo), Range(Chain(d.fat, c)), Range(Chain(Run(d, w.todo).fat, w.first)),
                        CutFrom(Chain(d.fat, c), data))
  <1>1. PICK all, old, n : /\ all = Usable(d.fat, c) /\ old = Len(Chain(d.fat, c))
                           /\ n = Written(d.fat, c, data)
    OBVIOUS
  <1>2. d \in Volumes /\ WellFormed(d.fat, c)
    BY DEF Sound, Allowed
  <1>3. Planned(d, c, data, all, old, n)
    BY <1>1, <1>2 DEF Planned
  <1>4. CASE n = 0
    <2>1. w.todo = <<>> /\ w.first = c /\ w.ok = (Needed(data) = 0)
      BY <1>3, <1>4, WriteNothing
    <2>2. <<>> \in Seq(Writes) /\ Len(<<>>) = 0
      BY EmptySeq
    <2>3. Stage(d, <<>>, 0) = d
      BY <1>2, <2>2, StageFacts
    <2>4. Run(d, <<>>) = d
      BY <2>2, <2>3 DEF Run
    <2>5. \A k \in 0 .. 0 : k = 0
      OBVIOUS
    <2>6. \A k \in 0 .. Len(w.todo) : Stage(d, w.todo, k) = d
      BY <2>1, <2>2, <2>3, <2>5
    <2>7. w.ok => data = <<>>
      <3>1. PICK l \in Nat : l = Len(data)
        BY LenProperties
      <3>2. l = 0 <=> Needed(data) = 0
        BY <3>1, NeededFacts
      <3> QED
        BY <2>1, <3>1, <3>2, EmptySeq
    <2>8. ~Whole(w, data)
      BY <2>7 DEF Whole
    <2> QED
      BY <2>1, <2>2, <2>4, <2>6, <2>8, NotYet
  <1>5. CASE n # 0
    <2>1. /\ Task(d, old, all, n, data)
          /\ w.todo \in Seq(Writes) /\ w.first = all[1] /\ w.ok = (n = Needed(data))
          /\ Progress(d, old, all, n, data, w.todo, n)
          /\ \E m : /\ Shape(Run(d, w.todo), d, old, all, n, data, n, m) /\ n <= m
                    /\ n = Needed(data) => m = n
      BY <1>3, <1>5, WriteChain
    <2>2. \A k \in 0 .. Len(w.todo) : \E i, m : Shape(Stage(d, w.todo, k), d, old, all, n, data, i, m)
      BY <2>1 DEF Progress
    <2>3. \A k \in 0 .. Len(w.todo) : /\ Aside(d, Stage(d, w.todo, k), x, j)
                                      /\ Allowed(d, Stage(d, w.todo, k), x, j, c)
      BY <1>3, <1>5, <2>1, <2>2, ShapeAside
    <2>4. PICK m : /\ Shape(Run(d, w.todo), d, old, all, n, data, n, m) /\ n <= m
                   /\ n = Needed(data) => m = n
      BY <2>1
    <2>5. m # 0
      BY <1>5, <2>1, <2>4 DEF Task, Shape
    <2>6. Allowed(d, Run(d, w.todo), x, j, all[1])
      BY <1>3, <1>5, <2>1, <2>4, <2>5, ShapeAside
    <2>7. all[1] \in Clusters
      BY <2>1, TaskFacts DEF Task
    <2>8. ASSUME Whole(w, data)
          PROVE  /\ Stored(Run(d, w.todo), w.first, data)
                 /\ Moved(d, Run(d, w.todo), Range(Chain(d.fat, c)),
                          Range(Chain(Run(d, w.todo).fat, w.first)), CutFrom(Chain(d.fat, c), data))
      <3>1. n = Needed(data) /\ Shape(Run(d, w.todo), d, old, all, n, data, n, n)
        BY <2>1, <2>4, <2>8 DEF Whole
      <3> QED
        BY <1>3, <1>5, <2>1, <3>1, BodyDone
    <2> QED
      BY <2>1, <2>3, <2>6, <2>7, <2>8
  <1> QED
    BY <1>4, <1>5

\* If the entry in slot j of x is a directory, it is empty.
Vacant(d, x, j) ==
  read_chain(d, x)[j].dir => DirSlots(read_chain(d, read_chain(d, x)[j].cluster)) = {}

\* The entry that is there fits.
LEMMA FitsNow ==
  ASSUME NEW d, Sound(d), NEW x \in Dirs(d), NEW j \in DirSlots(read_chain(d, x)), Vacant(d, x, j)
  PROVE  /\ Fits(d, d, x, j, read_chain(d, x)[j]) /\ Emptied(d, x, j)
         /\ Allowed(d, d, x, j, read_chain(d, x)[j].cluster)
         /\ Mine(d, x, j) = Range(Chain(d.fat, read_chain(d, x)[j].cluster))
         /\ \A i \in DirSlots(read_chain(d, x)) : i # j => read_chain(d, x)[i].name # read_chain(d, x)[j].name
  <1>1. PICK s : s = <<x, j>>
    OBVIOUS
  <1>2. s \in TreeSlots(d) /\ EntryOf(d, s) = read_chain(d, x)[j] /\ First(d, s) = read_chain(d, x)[j].cluster
    BY <1>1, TreeIs DEF First
  <1>3. Mine(d, x, j) = Owned(d, s) /\ Owned(d, s) = Range(Chain(d.fat, First(d, s)))
    BY <1>1, <1>2, MineIs, ReachIs
  <1>4. /\ WellFormed(d.fat, First(d, s))
        /\ EntryOf(d, s).dir => First(d, s) \in Clusters /\ EndsWithZeros(read_chain(d, First(d, s)))
    BY <1>2 DEF Sound
  <1>5. ASSUME NEW i \in DirSlots(read_chain(d, x)), i # j PROVE read_chain(d, x)[i].name # read_chain(d, x)[j].name
    <2>1. PICK r : r = <<x, i>>
      OBVIOUS
    <2>2. r \in TreeSlots(d) /\ EntryOf(d, r) = read_chain(d, x)[i] /\ r # s /\ r[1] = s[1]
      BY <1>1, <1>5, <2>1, TreeIs
    <2> QED
      BY <1>2, <2>2 DEF Sound
  <1>6. Allowed(d, d, x, j, read_chain(d, x)[j].cluster)
    BY <1>2, <1>3, <1>4 DEF Allowed
  <1>7. Fits(d, d, x, j, read_chain(d, x)[j])
    BY <1>2, <1>4, <1>5, <1>6 DEF Allowed, Fits, Vacant
  <1>8. Emptied(d, x, j)
    BY DEF Emptied, Vacant
  <1> QED
    BY <1>2, <1>3, <1>5, <1>6, <1>7, <1>8

\* What the writes ws of free_chain do to the volume d, cluster after cluster.
Freed(d, c, ws) ==
  /\ ws \in Seq(Writes)
  /\ c \notin Clusters => ws = <<>>
  /\ c \in Clusters => ws # <<>> /\ Run(d, ws).fat[c] = FREE
  /\ \A z \in Range(Chain(d.fat, c)) : Run(d, ws).fat[z] = FREE
  /\ \A k \in 0 .. Len(ws) :
        /\ Stage(d, ws, k) \in Volumes /\ Stage(d, ws, k).units = d.units
        /\ \A z \in Clusters : z \notin Range(Chain(d.fat, c)) => Stage(d, ws, k).fat[z] = d.fat[z]

LEMMA FreeStages ==
  ASSUME NEW d \in Volumes, NEW c
  PROVE  Freed(d, c, free_chain(d.fat, c))
  <1>0. PICK ws : ws = free_chain(d.fat, c)
    OBVIOUS
  <1>1. PICK s : s = Chain(d.fat, c)
    OBVIOUS
  <1>2. PICK l \in Nat : l = Len(s) /\ DOMAIN s = 1 .. l /\ s \in [1 .. l -> Clusters] /\ s \in Seq(Clusters)
    BY <1>1, ChainLinks, LenProperties
  <1>3. ws = [i \in 1 .. l |-> SetFat(s[i], FREE)]
    BY <1>0, <1>1, <1>2 DEF free_chain
  <1>4. FREE \in FatValues
    BY DEF FatValues
  <1>5. \A i \in 1 .. l : SetFat(s[i], FREE) \in Writes
    BY <1>2, <1>4, ApplyFat
  <1>6. ws \in Seq(Writes) /\ Len(ws) = l
    <2>1. ws \in [1 .. l -> Writes]
      BY <1>3, <1>5
    <2> QED
      BY <2>1, IsASeq, LenProperties
  <1>7. /\ Stage(d, ws, 0) = d
        /\ \A k \in 1 .. l : Stage(d, ws, k) = Apply(Stage(d, ws, k - 1), ws[k])
        /\ \A k \in 0 .. l : Stage(d, ws, k) \in Volumes
    BY <1>6, StageFacts
  <1> DEFINE Ok(k) == /\ Stage(d, ws, k).units = d.units
                      /\ \A z \in Clusters : z \notin Range(Chain(d.fat, c)) => Stage(d, ws, k).fat[z] = d.fat[z]
                      /\ \A i \in 1 .. k : Stage(d, ws, k).fat[s[i]] = FREE
  <1>8. \A k \in 0 .. l : Ok(k)
    <2> DEFINE S == {k \in 0 .. l : Ok(k)}
    <2>1. 0 \in S
      BY <1>7
    <2>2. ASSUME NEW k \in 0 .. (l - 1), k \in S PROVE k + 1 \in S
      <3>1. PICK v : v = Stage(d, ws, k)
        OBVIOUS
      <3>2. v \in Volumes /\ k + 1 \in 1 .. l /\ s[k + 1] \in Clusters /\ Ok(k)
        BY <1>2, <1>7, <2>2, <3>1
      <3>3. Stage(d, ws, k + 1) = Apply(v, SetFat(s[k + 1], FREE))
        <4>1. (k + 1) - 1 = k
          OBVIOUS
        <4>2. ws[k + 1] = SetFat(s[k + 1], FREE)
          BY <1>3, <3>2
        <4> QED
          BY <1>7, <3>1, <3>2, <4>1, <4>2
      <3>4. /\ Stage(d, ws, k + 1).fat = [v.fat EXCEPT ![s[k + 1]] = FREE]
            /\ Stage(d, ws, k + 1).units = v.units
        BY <1>4, <3>2, <3>3, ApplyFat
      <3>5. v.fat \in [Clusters -> FatValues]
        BY <3>2 DEF Volumes
      <3>6. s[k + 1] \in Range(Chain(d.fat, c))
        BY <1>1, <1>2, <3>2 DEF Range
      <3>7. ASSUME NEW i \in 1 .. (k + 1) PROVE Stage(d, ws, k + 1).fat[s[i]] = FREE
        <4>1. s[i] \in Clusters
          BY <1>2
        <4>2. i \in 1 .. k \/ i = k + 1
          OBVIOUS
        <4> QED
          BY <3>1, <3>2, <3>4, <3>5, <4>1, <4>2
      <3>8. \A z \in Clusters : z \notin Range(Chain(d.fat, c)) => Stage(d, ws, k + 1).fat[z] = d.fat[z]
        BY <3>1, <3>2, <3>4, <3>5, <3>6
      <3> QED
        BY <3>1, <3>2, <3>4, <3>7, <3>8
    <2> HIDE DEF S
    <2>3. \A k \in 0 .. l : k \in S
      BY <2>1, <2>2, UpTo
    <2> QED
      BY <2>3 DEF S
  <1>9. c \notin Clusters => ws = <<>>
    BY <1>1, <1>2, <1>6, NoChain, EmptySeq
  <1>10. ASSUME c \in Clusters PROVE ws # <<>> /\ Run(d, ws).fat[c] = FREE
    <2>1. s # <<>> /\ s[1] = c
      BY <1>1, <1>10, ChainLinks
    <2>2. l # 0
      BY <1>2, <2>1, EmptySeq
    <2>3. 1 \in 1 .. l /\ l \in 0 .. l
      BY <2>2
    <2>4. Stage(d, ws, l).fat[s[1]] = FREE
      BY <1>8, <2>3
    <2> QED
      BY <1>6, <2>1, <2>2, <2>4, EmptySeq DEF Run
  <1>11. \A z \in Range(Chain(d.fat, c)) : Run(d, ws).fat[z] = FREE
    <2>1. l \in 0 .. l /\ Run(d, ws) = Stage(d, ws, l)
      BY <1>6 DEF Run
    <2>2. \A i \in 1 .. l : Run(d, ws).fat[s[i]] = FREE
      BY <1>8, <2>1
    <2> QED
      BY <1>1, <1>2, <2>2 DEF Range
  <1>12. Freed(d, c, ws)
    BY <1>6, <1>7, <1>8, <1>9, <1>10, <1>11 DEF Freed
  <1> QED
    BY <1>0, <1>12

(***************************************************************************)
(* Whenever a fault stops the writes ws of an operation on d, the volume   *)
(* is an edit of slot j of x, except after a first cluster was freed and   *)
(* while the directory is still to be updated.                             *)
(***************************************************************************)
Safe(d, ws, x, j, frees) ==
  /\ ws \in Seq(Writes)
  /\ \A k \in 0 .. Len(ws) : \/ Edits(d, Stage(d, ws, k), x, j)
                             \/ frees /\ k > 0 /\ Ahead(Stage(d, ws, k), ws, k)

Relinked(d, d2, x, j, ws) ==
  /\ ws \in Seq(Writes)
  /\ \A k \in 0 .. Len(ws) : \/ Edits(d, Stage(d2, ws, k), x, j)
                             \/ /\ ~Fits(d, d2, x, j, read_chain(d, x)[j])
                                /\ Ahead(Stage(d2, ws, k), ws, k)

\* A write to a cluster's contents changes every volume with the same contents, or none.
LEMMA SameChange ==
  ASSUME NEW v \in Volumes, NEW d \in Volumes, v.units = d.units, NEW w \in Writes, w.what = "units",
         Apply(d, w) # d
  PROVE  Apply(v, w) # v
  <1>1. w.cluster \in Clusters /\ w.value \in Contained /\ w = PutCluster(w.cluster, w.value)
    BY DEF Writes, PutCluster
  <1>2. PICK c \in Clusters, us \in Contained : w = PutCluster(c, us)
    BY <1>1
  <1>3. Apply(d, w) = [fat |-> d.fat, units |-> [d.units EXCEPT ![c] = us]]
    BY <1>2, ApplyPut, ZenonT(60)
  <1>4. Apply(v, w).units = [v.units EXCEPT ![c] = us]
    BY <1>2, ApplyPut
  <1>5. d = [fat |-> d.fat, units |-> d.units]
    BY DEF Volumes
  <1>6. [d.units EXCEPT ![c] = us] # d.units
    BY <1>3, <1>5
  <1> QED
    BY <1>4, <1>6

LEMMA AheadAfter ==
  ASSUME NEW ws \in Seq(Writes), NEW xs \in Seq(Writes), NEW k \in 0 .. Len(xs), NEW v, Ahead(v, xs, k)
  PROVE  Ahead(v, ws \o xs, Len(ws) + k)
  <1>1. PICK i \in (k + 1) .. Len(xs) : xs[i].what = "units" /\ Apply(v, xs[i]) # v
    BY DEF Ahead
  <1>2. PICK a \in Nat, b \in Nat : a = Len(ws) /\ b = Len(xs)
    BY LenProperties
  <1>3. /\ Len(ws \o xs) = a + b
        /\ \A r \in 1 .. (Len(ws) + Len(xs)) :
              (ws \o xs)[r] = IF r <= Len(ws) THEN ws[r] ELSE xs[r - Len(ws)]
    BY <1>2, ConcatProperties
  <1>4. a + i \in (a + k + 1) .. (a + b) /\ a + i \in 1 .. (a + b) /\ ~(a + i <= a) /\ (a + i) - a = i
    BY <1>1, <1>2
  <1>5. (ws \o xs)[a + i] = xs[i]
    BY <1>2, <1>3, <1>4
  <1> QED
    BY <1>1, <1>2, <1>3, <1>4, <1>5 DEF Ahead

\* The stages of the directory update are stages of the whole operation.
LEMMA SplitStages ==
  ASSUME NEW d \in Volumes, NEW ws \in Seq(Writes), NEW xs \in Seq(Writes),
         NEW k \in 0 .. Len(ws \o xs)
  PROVE  \/ k \in 0 .. Len(ws) /\ Stage(d, ws \o xs, k) = Stage(d, ws, k)
         \/ \E i \in 0 .. Len(xs) : /\ k = Len(ws) + i
                                    /\ Stage(d, ws \o xs, k) = Stage(Run(d, ws), xs, i)
  <1>1. PICK a \in Nat, b \in Nat : a = Len(ws) /\ b = Len(xs)
    BY LenProperties
  <1>2. /\ Len(ws \o xs) = Len(ws) + Len(xs)
        /\ \A i \in 0 .. Len(ws) : Stage(d, ws \o xs, i) = Stage(d, ws, i)
        /\ \A i \in 0 .. Len(xs) : Stage(d, ws \o xs, Len(ws) + i) = Stage(Run(d, ws), xs, i)
    BY StageConcat
  <1>3. CASE k \in 0 .. a
    BY <1>1, <1>2, <1>3
  <1>4. CASE k \notin 0 .. a
    <2>1. k - a \in 0 .. b /\ k = a + (k - a)
      BY <1>1, <1>2, <1>4
    <2> QED
      BY <1>1, <1>2, <2>1
  <1> QED
    BY <1>3, <1>4

LEMMA FreedAside ==
  ASSUME NEW d, Sound(d), NEW x \in Dirs(d), NEW j \in DirSlots(read_chain(d, x)), Vacant(d, x, j),
         NEW free, free = free_chain(d.fat, read_chain(d, x)[j].cluster)
  PROVE  /\ free \in Seq(Writes) /\ Aside(d, Run(d, free), x, j)
         /\ \A k \in 0 .. Len(free) : /\ Stage(d, free, k) \in Volumes
                                      /\ Stage(d, free, k).units = d.units
         /\ free # <<>> => ~Edits(d, Run(d, free), x, j)
         /\ free = <<>> => Run(d, free) = d
         /\ Moved(d, Run(d, free), Mine(d, x, j), {}, {})
  <1>1. PICK c : c = read_chain(d, x)[j].cluster
    OBVIOUS
  <1>2. d \in Volumes /\ Mine(d, x, j) = Range(Chain(d.fat, c))
    BY <1>1, FitsNow DEF Sound
  <1>3. /\ free \in Seq(Writes)
        /\ c \notin Clusters => free = <<>>
        /\ c \in Clusters => free # <<>> /\ Run(d, free).fat[c] = FREE
        /\ \A z \in Range(Chain(d.fat, c)) : Run(d, free).fat[z] = FREE
        /\ \A k \in 0 .. Len(free) :
               /\ Stage(d, free, k) \in Volumes /\ Stage(d, free, k).units = d.units
               /\ \A z \in Clusters : z \notin Range(Chain(d.fat, c)) => Stage(d, free, k).fat[z] = d.fat[z]
    <2>1. Freed(d, c, free)
      BY <1>1, <1>2, FreeStages
    <2> QED
      BY <2>1 DEF Freed
  <1>4. Len(free) \in 0 .. Len(free)
    BY <1>3, LenProperties
  <1>5. PICK d2 : d2 = Run(d, free)
    OBVIOUS
  <1>6. /\ d2 \in Volumes /\ d2.units = d.units
        /\ \A z \in Clusters : z \notin Range(Chain(d.fat, c)) => d2.fat[z] = d.fat[z]
    BY <1>3, <1>4, <1>5 DEF Run
  <1>7. Aside(d, d2, x, j)
    BY <1>2, <1>6, DirReach DEF Aside
  <1>8. ASSUME free # <<>>, Edits(d, d2, x, j) PROVE FALSE
    <2>1. c \in Clusters /\ d2.fat[c] = FREE
      BY <1>3, <1>5, <1>8
    <2>2. read_chain(d2, x) = read_chain(d, x)
      BY <1>7, AsideDir
    <2>3. NewEntry(d, d2, x, j)
      BY <1>8, <2>2 DEF Edits
    <2>4. WellFormed(d2.fat, c)
      BY <1>1, <2>2, <2>3 DEF NewEntry
    <2> QED
      BY <2>1, <2>4, OwnFirst, ChainClusters
  <1>9. free = <<>> => d2 = d
    <2>1. Len(<<>>) = 0
      BY EmptySeq
    <2> QED
      BY <1>2, <1>3, <1>5, <2>1, StageFacts DEF Run
  <1>10. Moved(d, d2, Mine(d, x, j), {}, {})
    BY <1>2, <1>3, <1>5, <1>6 DEF Moved
  <1> QED
    BY <1>3, <1>5, <1>7, <1>8, <1>9, <1>10

\* Clusters are freed and then the directory is updated.
LEMMA FreedStages ==
  ASSUME NEW d, Sound(d), NEW x \in Dirs(d), NEW j \in DirSlots(read_chain(d, x)), Vacant(d, x, j),
         NEW free, free = free_chain(d.fat, read_chain(d, x)[j].cluster),
         NEW xs, Relinked(d, Run(d, free), x, j, xs)
  PROVE  Safe(d, free \o xs, x, j, free # <<>>)
  <1>1. /\ free \in Seq(Writes)
        /\ \A k \in 0 .. Len(free) : /\ Stage(d, free, k) \in Volumes
                                     /\ Stage(d, free, k).units = d.units
        /\ free # <<>> => ~Edits(d, Run(d, free), x, j)
        /\ free = <<>> => Run(d, free) = d
    BY FreedAside
  <1>2. d \in Volumes /\ xs \in Seq(Writes) /\ Fits(d, d, x, j, read_chain(d, x)[j]) /\ Emptied(d, x, j)
    BY FitsNow DEF Sound, Relinked
  <1>3. free \o xs \in Seq(Writes)
    BY <1>1, <1>2, StageConcat
  <1>4. PICK a \in Nat, b \in Nat : a = Len(free) /\ b = Len(xs) /\ (free # <<>> => a # 0)
    BY <1>1, <1>2, LenProperties, EmptySeq
  <1>5. Edits(d, d, x, j)
    <2>1. Aside(d, d, x, j)
      BY NotYet
    <2> QED
      BY <1>2, <2>1, AsideEdit
  <1>6. ASSUME NEW k \in 0 .. a, Stage(d, free \o xs, k) = Stage(d, free, k)
        PROVE  \/ Edits(d, Stage(d, free \o xs, k), x, j)
               \/ free # <<>> /\ k > 0 /\ Ahead(Stage(d, free \o xs, k), free \o xs, k)
    <2>1. CASE k = 0
      BY <1>1, <1>2, <1>5, <1>6, <2>1, StageFacts
    <2>2. CASE k > 0
      <3>1. PICK d2 : d2 = Run(d, free)
        OBVIOUS
      <3>2. free # <<>>
        BY <1>4, <2>2, EmptySeq
      <3>3. d2 \in Volumes /\ d2.units = d.units /\ Stage(d2, xs, 0) = d2
        <4>1. d2 \in Volumes /\ d2.units = d.units
          BY <1>1, <1>4, <3>1 DEF Run
        <4> QED
          BY <1>2, <4>1, StageFacts
      <3>4. Ahead(d2, xs, 0)
        <4>1. 0 \in 0 .. Len(xs)
          BY <1>4
        <4> QED
          BY <1>1, <3>1, <3>2, <3>3, <4>1 DEF Relinked
      <3>5. PICK i \in (0 + 1) .. Len(xs) : xs[i].what = "units" /\ Apply(d2, xs[i]) # d2
        BY <3>4 DEF Ahead
      <3>6. PICK v : v = Stage(d, free, k)
        OBVIOUS
      <3>7. v \in Volumes /\ v.units = d2.units
        BY <1>1, <1>4, <3>3, <3>6
      <3>8. xs[i] \in Writes
        BY <1>2, <3>5, ElementOfSeq
      <3>9. Apply(v, xs[i]) # v
        BY <3>3, <3>5, <3>7, <3>8, SameChange
      <3>10. (free \o xs)[a + i] = xs[i] /\ Len(free \o xs) = a + b
        <4>1. /\ Len(free \o xs) = Len(free) + Len(xs)
              /\ \A r \in 1 .. (Len(free) + Len(xs)) :
                    (free \o xs)[r] = IF r <= Len(free) THEN free[r] ELSE xs[r - Len(free)]
          BY <1>1, <1>2, ConcatProperties
        <4>2. a + i \in 1 .. (a + b) /\ ~(a + i <= a) /\ (a + i) - a = i
          BY <1>4, <3>5
        <4> QED
          BY <1>4, <4>1, <4>2
      <3>11. a + i \in (k + 1) .. (a + b)
        BY <1>4, <3>5
      <3>12. Ahead(v, free \o xs, k)
        BY <3>5, <3>9, <3>10, <3>11 DEF Ahead
      <3> QED
        BY <1>6, <2>2, <3>2, <3>6, <3>12
    <2> QED
      BY <2>1, <2>2
  <1>7. ASSUME NEW k, NEW i \in 0 .. b, k = a + i, Stage(d, free \o xs, k) = Stage(Run(d, free), xs, i)
        PROVE  \/ Edits(d, Stage(d, free \o xs, k), x, j)
               \/ free # <<>> /\ k > 0 /\ Ahead(Stage(d, free \o xs, k), free \o xs, k)
    <2>1. PICK v : v = Stage(Run(d, free), xs, i)
      OBVIOUS
    <2>2. Edits(d, v, x, j) \/ (~Fits(d, Run(d, free), x, j, read_chain(d, x)[j]) /\ Ahead(v, xs, i))
      BY <1>4, <2>1 DEF Relinked
    <2>3. CASE Edits(d, v, x, j)
      BY <1>7, <2>1, <2>3
    <2>4. CASE ~Fits(d, Run(d, free), x, j, read_chain(d, x)[j]) /\ Ahead(v, xs, i)
      <3>1. free # <<>>
        BY <1>1, <1>2, <2>4
      <3>2. Ahead(v, free \o xs, a + i)
        BY <1>1, <1>2, <1>4, <2>4, AheadAfter
      <3>3. k > 0
        BY <1>4, <1>7, <3>1
      <3> QED
        BY <1>7, <2>1, <3>1, <3>2, <3>3
    <2> QED
      BY <2>2, <2>3, <2>4
  <1>8. ASSUME NEW k \in 0 .. Len(free \o xs)
        PROVE  \/ Edits(d, Stage(d, free \o xs, k), x, j)
               \/ free # <<>> /\ k > 0 /\ Ahead(Stage(d, free \o xs, k), free \o xs, k)
    <2>1. \/ k \in 0 .. Len(free) /\ Stage(d, free \o xs, k) = Stage(d, free, k)
          \/ \E i \in 0 .. Len(xs) : /\ k = Len(free) + i
                                     /\ Stage(d, free \o xs, k) = Stage(Run(d, free), xs, i)
      BY <1>1, <1>2, SplitStages
    <2> QED
      BY <1>4, <1>6, <1>7, <2>1
  <1> QED
    BY <1>3, <1>8 DEF Safe

(* The writes of the calls *)

LEMMA RunConcat ==
  ASSUME NEW d \in Volumes, NEW ws \in Seq(Writes), NEW xs \in Seq(Writes)
  PROVE  Run(d, ws \o xs) = Run(Run(d, ws), xs)
  <1>1. /\ Len(ws \o xs) = Len(ws) + Len(xs)
        /\ \A i \in 0 .. Len(xs) : Stage(d, ws \o xs, Len(ws) + i) = Stage(Run(d, ws), xs, i)
    BY StageConcat
  <1>2. Len(xs) \in 0 .. Len(xs)
    BY LenProperties
  <1> QED
    BY <1>1, <1>2 DEF Run

\* remove and rmdir: in the end the entry is gone and its clusters are free.
LEMMA RemoveSafe ==
  ASSUME NEW d, Sound(d), NEW x \in Dirs(d), NEW j \in DirSlots(read_chain(d, x)), Vacant(d, x, j),
         NEW free, free = free_chain(d.fat, read_chain(d, x)[j].cluster)
  PROVE  LET ws == free \o remove_dir_entry(Run(d, free), x, j).todo
         IN /\ Safe(d, ws, x, j, free # <<>>)
            /\ Edits(d, Run(d, ws), x, j) /\ j \notin DirSlots(read_chain(Run(d, ws), x))
            /\ Lost(Run(d, ws)) = Lost(d)
  <1>1. PICK d2, w : d2 = Run(d, free) /\ w = remove_dir_entry(d2, x, j)
    OBVIOUS
  <1>2. /\ Aside(d, d2, x, j) /\ Emptied(d, x, j) /\ free \in Seq(Writes)
        /\ Moved(d, d2, Mine(d, x, j), {}, {})
    BY <1>1, FreedAside, FitsNow
  <1>3. /\ w.todo \in Seq(Writes)
        /\ \A k \in 0 .. Len(w.todo) :
               \/ Edits(d, Stage(d2, w.todo, k), x, j)
               \/ /\ ~Fits(d, d2, x, j, read_chain(d, x)[j])
                  /\ Ahead(Stage(d2, w.todo, k), w.todo, k)
        /\ Edits(d, Run(d2, w.todo), x, j)
        /\ j \notin DirSlots(read_chain(Run(d2, w.todo), x)) /\ Settled(d2, Run(d2, w.todo), x)
    BY <1>1, <1>2, RemoveStages
  <1>4. Relinked(d, d2, x, j, w.todo)
    BY <1>3 DEF Relinked
  <1>5. Run(d, free \o w.todo) = Run(d2, w.todo)
    BY <1>1, <1>2, <1>3, RunConcat DEF Sound
  <1>6. Lost(Run(d2, w.todo)) = Lost(d)
    <2>1. PICK v : v = Run(d2, w.todo)
      OBVIOUS
    <2>2. Mine(v, x, j) = {}
      BY <1>3, <2>1 DEF Mine
    <2>3. PICK cut : cut = {}
      OBVIOUS
    <2>4. Moved(d, d2, Mine(d, x, j), Mine(v, x, j), cut)
      BY <1>2, <2>2, <2>3
    <2>5. Edits(d, v, x, j) /\ Settled(d2, v, x) /\ Aside(d, d2, x, j)
      BY <1>2, <1>3, <2>1
    <2>6. Lost(v) = Lost(d) \cup cut
      BY <2>4, <2>5, LostIs
    <2> QED
      BY <2>1, <2>3, <2>6
  <1>7. Safe(d, free \o w.todo, x, j, free # <<>>)
    BY <1>1, <1>4, FreedStages
  <1> QED
    BY <1>1, <1>3, <1>5, <1>6, <1>7

\* The writes of two parts, none of which frees anything.
LEMMA PartsSafe ==
  ASSUME NEW d \in Volumes, NEW x, NEW j, NEW ws \in Seq(Writes), NEW xs \in Seq(Writes),
         \A k \in 0 .. Len(ws) : Edits(d, Stage(d, ws, k), x, j),
         \A k \in 0 .. Len(xs) : Edits(d, Stage(Run(d, ws), xs, k), x, j)
  PROVE  Safe(d, ws \o xs, x, j, FALSE)
  <1>1. ws \o xs \in Seq(Writes)
    BY StageConcat
  <1>2. ASSUME NEW k \in 0 .. Len(ws \o xs) PROVE Edits(d, Stage(d, ws \o xs, k), x, j)
    BY SplitStages
  <1> QED
    BY <1>1, <1>2 DEF Safe

\* The entry of a file, with another first cluster and size.
Renewed(u, c, z) == [u EXCEPT !.cluster = c, !.size = z]

LEMMA RenewedFacts ==
  ASSUME NEW u \in Units, u.t = "entry", NEW c \in Clusters \cup {0}, NEW z \in 0 .. MaxData
  PROVE  /\ Renewed(u, c, z) \in Units /\ Renewed(u, c, z).t = "entry"
         /\ Renewed(u, c, z).name = u.name /\ Renewed(u, c, z).dir = u.dir
         /\ Renewed(u, c, z).cluster = c /\ Renewed(u, c, z).size = z
  <1>1. PICK n, b, c0, z0 : n \in Names /\ b \in BOOLEAN /\ u = Entry(n, b, c0, z0)
    BY UnitFacts
  <1>2. Renewed(u, c, z) = Entry(n, b, c, z)
    <2>1. PICK e : e = [u EXCEPT !.cluster = c, !.size = z]
      OBVIOUS
    <2>2. e = Entry(n, b, c, z)
      BY <1>1, <2>1 DEF Entry
    <2> QED
      BY <2>1, <2>2 DEF Renewed
  <1>3. Renewed(u, c, z) \in Units
    BY <1>1, <1>2, UnitKinds
  <1>4. Entry(n, b, c, z).size = z
    BY DEF Entry
  <1> QED
    BY <1>1, <1>2, <1>3, <1>4, UnitTags

\* What a write-back leaves: the entry has the data, and the clusters it no longer needs are lost.
WroteBack(d, v, x, j, e, data, cut) ==
  /\ Edits(d, v, x, j) /\ read_chain(v, x)[j] = e
  /\ FileData(v, e) = data
  /\ Lost(v) = Lost(d) \cup cut

LEMMA EmptyFile ==
  ASSUME NEW v \in Volumes, NEW e, e.cluster = 0, e.size = 0
  PROVE  FileData(v, e) = <<>>
  <1>1. Chain(v.fat, 0) = <<>>
    BY NoChain, ClusterFacts
  <1>2. PICK us : us = read_chain(v, 0)
    OBVIOUS
  <1>3. us \in Seq(Units) /\ Len(us) = 0
    <2>1. us \in Seq(Units) /\ Len(us) = Len(Chain(v.fat, 0)) * K
      BY <1>2, Reads
    <2>2. Len(Chain(v.fat, 0)) = 0
      BY <1>1, EmptySeq
    <2> QED
      BY <2>1, <2>2, ClusterFacts
  <1>4. SubSeq(us, 1, 0) = <<>>
    BY <1>3, EmptySeq
  <1> QED
    BY <1>2, <1>3, <1>4 DEF FileData

\* Data that was stored before the directory was updated is what the new entry has.
LEMMA StoredReads ==
  ASSUME NEW d, Sound(d), NEW d2, NEW x, NEW j, Aside(d, d2, x, j), NEW e, Fits(d, d2, x, j, e),
         NEW v \in Volumes, Settled(d2, v, x),
         NEW data \in Seq(Units), Stored(d2, e.cluster, data), e.size = Len(data)
  PROVE  FileData(v, e) = data
  <1>1. read_chain(v, e.cluster) = read_chain(d2, e.cluster)
    BY SettledEntry
  <1>2. d2 \in Volumes
    BY DEF Aside
  <1>3. PICK us : us = read_chain(d2, e.cluster)
    OBVIOUS
  <1>4. SubSeq(us, 1, IF Len(data) < Len(us) THEN Len(data) ELSE Len(us)) = data
    BY <1>2, <1>3, PiecesRead DEF Stored
  <1> QED
    BY <1>1, <1>3, <1>4 DEF FileData

\* sync_file on an existing file: an empty one gives up its clusters.
LEMMA EmptySafe ==
  ASSUME NEW d, Sound(d), NEW x \in Dirs(d), NEW j \in DirSlots(read_chain(d, x)),
         NEW u, u = read_chain(d, x)[j], ~u.dir, NEW free, free = free_chain(d.fat, u.cluster),
         NEW e, e = Renewed(u, 0, 0)
  PROVE  LET ws == free \o update_dir_entry(Run(d, free), x, j, e).todo
         IN /\ Safe(d, ws, x, j, u.cluster \in Clusters)
            /\ WroteBack(d, Run(d, ws), x, j, e, <<>>, {})
  <1>1. PICK d2, w : d2 = Run(d, free) /\ w = update_dir_entry(d2, x, j, e)
    OBVIOUS
  <1>2. Vacant(d, x, j)
    BY DEF Vacant
  <1>3. /\ Aside(d, d2, x, j) /\ Emptied(d, x, j) /\ d \in Volumes /\ free \in Seq(Writes)
        /\ \A i \in DirSlots(read_chain(d, x)) : i # j => read_chain(d, x)[i].name # u.name
        /\ Moved(d, d2, Mine(d, x, j), {}, {})
    BY <1>1, <1>2, FreedAside, FitsNow DEF Sound
  <1>4. u \in Units /\ u.t = "entry"
    <2>1. read_chain(d, x) \in Seq(Units)
      BY SoundDirs
    <2>2. j \in DOMAIN read_chain(d, x) /\ u.t = "entry"
      BY DEF DirSlots
    <2> QED
      BY <2>1, <2>2, LenProperties, ElementOfSeq
  <1>5. e \in Units /\ e.t = "entry" /\ e.name = u.name /\ e.dir = u.dir /\ e.cluster = 0 /\ e.size = 0
    <2>1. PICK c0 \in Clusters \cup {0}, z0 \in 0 .. MaxData : c0 = 0 /\ z0 = 0
      BY VolumeAssumption
    <2>2. e = Renewed(u, c0, z0)
      BY <2>1
    <2>3. /\ Renewed(u, c0, z0) \in Units /\ Renewed(u, c0, z0).t = "entry"
          /\ Renewed(u, c0, z0).name = u.name /\ Renewed(u, c0, z0).dir = u.dir
          /\ Renewed(u, c0, z0).cluster = c0 /\ Renewed(u, c0, z0).size = z0
      BY <1>4, RenewedFacts, Zenon
    <2> QED
      BY <2>1, <2>2, <2>3
  <1>6. Fits(d, d2, x, j, e)
    <2>1. WellFormed(d2.fat, 0) /\ \A z \in Range(Chain(d2.fat, 0)) : FALSE
      BY NoChain, ClusterFacts
    <2> QED
      BY <1>3, <1>5, <2>1 DEF Fits
  <1>7. Fits(d, d2, x, j, read_chain(d, x)[j]) \/ e # read_chain(d, x)[j]
    BY <1>6
  <1>8. /\ w.todo \in Seq(Writes)
        /\ \A k \in 0 .. Len(w.todo) :
               \/ Edits(d, Stage(d2, w.todo, k), x, j)
               \/ /\ ~Fits(d, d2, x, j, read_chain(d, x)[j])
                  /\ Ahead(Stage(d2, w.todo, k), w.todo, k)
        /\ Edits(d, Run(d2, w.todo), x, j)
        /\ read_chain(Run(d2, w.todo), x)[j] = e /\ Settled(d2, Run(d2, w.todo), x)
    BY <1>1, <1>3, <1>5, <1>6, <1>7, UpdateStages
  <1>9. Relinked(d, d2, x, j, w.todo)
    BY <1>8 DEF Relinked
  <1>10. Safe(d, free \o w.todo, x, j, free # <<>>)
    BY <1>1, <1>2, <1>9, FreedStages
  <1>11. free # <<>> => u.cluster \in Clusters
    BY <1>3, FreeStages DEF Freed
  <1>12. PICK v : v = Run(d2, w.todo)
    OBVIOUS
  <1>13. /\ Edits(d, v, x, j) /\ read_chain(v, x)[j] = e /\ Settled(d2, v, x) /\ v \in Volumes
    BY <1>8, <1>12 DEF Edits
  <1>14. Chain(v.fat, 0) = <<>> /\ Range(Chain(v.fat, 0)) = {}
    BY NoChain, ClusterFacts
  <1>15. FileData(v, e) = <<>>
    BY <1>5, <1>13, EmptyFile
  <1>16. Lost(v) = Lost(d) \cup {}
    <2>1. Mine(v, x, j) = {}
      <3>1. Owned(v, <<x, j>>) = Range(Chain(v.fat, 0))
        BY <1>5, <1>13, ReachIs, TreeIs DEF First
      <3> QED
        BY <1>14, <3>1 DEF Mine
    <2>2. PICK cut : cut = {}
      OBVIOUS
    <2>3. Moved(d, d2, Mine(d, x, j), Mine(v, x, j), cut)
      BY <1>3, <2>1, <2>2
    <2>4. Edits(d, v, x, j) /\ Settled(d2, v, x) /\ Aside(d, d2, x, j)
      BY <1>3, <1>13
    <2>5. Lost(v) = Lost(d) \cup cut
      BY <2>3, <2>4, LostIs
    <2> QED
      BY <2>2, <2>5
  <1>17. WroteBack(d, v, x, j, e, <<>>, {})
    BY <1>13, <1>15, <1>16 DEF WroteBack
  <1> QED
    <2>1. v = Run(d, free \o w.todo)
      BY <1>1, <1>3, <1>8, <1>12, RunConcat
    <2> QED
      BY <1>1, <1>10, <1>11, <1>17, <2>1 DEF Safe

\* The entry e is to replace, after the writes that led to d2, an entry in place that fits.
Refits(d, d2, x, j, e) ==
  /\ Sound(d) /\ j \in DirSlots(read_chain(d, x)) /\ Aside(d, d2, x, j) /\ Emptied(d, x, j)
  /\ e \in Units /\ e.t = "entry" /\ Fits(d, d2, x, j, e) /\ Fits(d, d2, x, j, read_chain(d, x)[j])
  /\ e.name = read_chain(d, x)[j].name /\ e.dir = read_chain(d, x)[j].dir

\* The writes todo do that, and every volume on the way is an edit.
Refitted(d, d2, x, j, e, todo) ==
  /\ todo \in Seq(Writes)
  /\ \A k \in 0 .. Len(todo) : Edits(d, Stage(d2, todo, k), x, j)
  /\ Edits(d, Run(d2, todo), x, j) /\ Settled(d2, Run(d2, todo), x)
  /\ read_chain(Run(d2, todo), x)[j] = e /\ j \in DirSlots(read_chain(Run(d2, todo), x))

\* update_dir_entry replaces such an entry in place, and a crash at any write leaves an edit.
LEMMA EntryStages ==
  ASSUME NEW d, NEW d2, NEW x, NEW j, NEW e, Refits(d, d2, x, j, e)
  PROVE  Refitted(d, d2, x, j, e, update_dir_entry(d2, x, j, e).todo)
  <1>0. /\ Sound(d) /\ j \in DirSlots(read_chain(d, x)) /\ Aside(d, d2, x, j) /\ Emptied(d, x, j)
        /\ e \in Units /\ e.t = "entry" /\ Fits(d, d2, x, j, e) /\ Fits(d, d2, x, j, read_chain(d, x)[j])
        /\ e.name = read_chain(d, x)[j].name /\ e.dir = read_chain(d, x)[j].dir
    BY DEF Refits
  <1>1. PICK w : w = update_dir_entry(d2, x, j, e)
    OBVIOUS
  <1>2. /\ w.todo \in Seq(Writes)
        /\ \A k \in 0 .. Len(w.todo) :
              \/ Edits(d, Stage(d2, w.todo, k), x, j)
              \/ /\ ~Fits(d, d2, x, j, read_chain(d, x)[j])
                 /\ Ahead(Stage(d2, w.todo, k), w.todo, k)
        /\ Edits(d, Run(d2, w.todo), x, j)
        /\ w.ok /\ read_chain(Run(d2, w.todo), x)[j] = e /\ Settled(d2, Run(d2, w.todo), x)
        /\ j \in DirSlots(read_chain(Run(d2, w.todo), x))
    BY <1>0, <1>1, UpdateStages
  <1> QED
    BY <1>0, <1>1, <1>2 DEF Refitted

\* A file with data is written to its clusters and to free ones.
LEMMA FilledSafe ==
  ASSUME NEW d, Sound(d), NEW x \in Dirs(d), NEW j \in DirSlots(read_chain(d, x)),
         NEW u, u = read_chain(d, x)[j], ~u.dir, NEW data \in Seq(Units), Len(data) <= MaxData,
         NEW w, w = write_chain(d.fat, u.cluster, data),
         NEW e, e = Renewed(u, w.first, Len(data))
  PROVE  LET ws == w.todo \o update_dir_entry(Run(d, w.todo), x, j, e).todo
         IN /\ Safe(d, w.todo, x, j, FALSE) /\ Safe(d, ws, x, j, FALSE)
            /\ Whole(w, data) =>
                  WroteBack(d, Run(d, ws), x, j, e, data, CutFrom(Chain(d.fat, u.cluster), data))
  <1>1. PICK d2, y, c : d2 = Run(d, w.todo) /\ y = update_dir_entry(d2, x, j, e) /\ c = u.cluster
    OBVIOUS
  <1>2. Vacant(d, x, j)
    BY DEF Vacant
  <1>3. /\ Emptied(d, x, j) /\ d \in Volumes /\ Allowed(d, d, x, j, c)
        /\ Mine(d, x, j) = Range(Chain(d.fat, c))
        /\ \A i \in DirSlots(read_chain(d, x)) : i # j => read_chain(d, x)[i].name # u.name
    BY <1>1, <1>2, FitsNow DEF Sound
  <1>4. u \in Units /\ u.t = "entry"
    <2>1. read_chain(d, x) \in Seq(Units)
      BY SoundDirs
    <2>2. j \in DOMAIN read_chain(d, x) /\ u.t = "entry"
      BY DEF DirSlots
    <2> QED
      BY <2>1, <2>2, LenProperties, ElementOfSeq
  <1>5. c \in Clusters \cup {0}
    BY <1>1, <1>4, UnitFacts
  <1>6. /\ w.todo \in Seq(Writes)
        /\ \A k \in 0 .. Len(w.todo) : /\ Aside(d, Stage(d, w.todo, k), x, j)
                                       /\ Allowed(d, Stage(d, w.todo, k), x, j, c)
        /\ w.first \in Clusters \cup {0}
        /\ Allowed(d, d2, x, j, w.first)
        /\ Whole(w, data) =>
              /\ Stored(d2, w.first, data)
              /\ Moved(d, d2, Range(Chain(d.fat, c)), Range(Chain(d2.fat, w.first)), CutFrom(Chain(d.fat, c), data))
    BY <1>1, <1>3, <1>5, BodyStages
  <1>7. e \in Units /\ e.t = "entry" /\ e.name = u.name /\ e.dir = u.dir /\ e.cluster = w.first
        /\ e.size = Len(data)
    <2>1. Len(data) \in 0 .. MaxData
      BY VolumeAssumption, LenProperties
    <2> QED
      BY <1>4, <1>6, <2>1, RenewedFacts
  <1>8. \A v : Allowed(d, v, x, j, c) => Fits(d, v, x, j, u)
    BY <1>1, <1>3 DEF Allowed, Fits
  <1>9. \A k \in 0 .. Len(w.todo) : Edits(d, Stage(d, w.todo, k), x, j)
    BY <1>3, <1>6, <1>8, AsideEdit
  <1>10. Aside(d, d2, x, j) /\ Fits(d, d2, x, j, u) /\ Fits(d, d2, x, j, e)
    <2>1. Len(w.todo) \in 0 .. Len(w.todo)
      BY <1>6, LenProperties
    <2>2. Aside(d, d2, x, j) /\ Allowed(d, d2, x, j, c)
      BY <1>1, <1>6, <2>1 DEF Run
    <2>3. Fits(d, d2, x, j, e)
      BY <1>3, <1>6, <1>7 DEF Allowed, Fits
    <2> QED
      BY <1>8, <2>2, <2>3
  <1>11. /\ y.todo \in Seq(Writes)
         /\ \A k \in 0 .. Len(y.todo) : Edits(d, Stage(d2, y.todo, k), x, j)
         /\ Edits(d, Run(d2, y.todo), x, j) /\ Settled(d2, Run(d2, y.todo), x)
         /\ read_chain(Run(d2, y.todo), x)[j] = e /\ j \in DirSlots(read_chain(Run(d2, y.todo), x))
    <2>1. Refits(d, d2, x, j, e)
      BY <1>3, <1>7, <1>10 DEF Refits
    <2>2. Refitted(d, d2, x, j, e, y.todo)
      BY <1>1, <2>1, EntryStages
    <2> QED
      BY <2>2 DEF Refitted
  <1>12. Safe(d, w.todo \o y.todo, x, j, FALSE)
    BY <1>1, <1>3, <1>6, <1>9, <1>11, PartsSafe, ZenonT(60)
  <1>13. Safe(d, w.todo, x, j, FALSE)
    BY <1>6, <1>9 DEF Safe
  <1>14. PICK v : v = Run(d2, y.todo)
    OBVIOUS
  <1>15. /\ Edits(d, v, x, j) /\ read_chain(v, x)[j] = e /\ Settled(d2, v, x) /\ v \in Volumes
         /\ j \in DirSlots(read_chain(v, x))
    BY <1>11, <1>14 DEF Edits
  <1>16. /\ Chain(v.fat, w.first) = Chain(d2.fat, w.first)
         /\ read_chain(v, w.first) = read_chain(d2, w.first)
    BY <1>7, <1>10, <1>15, SettledEntry
  <1>17. ASSUME Whole(w, data)
         PROVE  WroteBack(d, v, x, j, e, data, CutFrom(Chain(d.fat, u.cluster), data))
    <2>1. Stored(d2, w.first, data)
      BY <1>6, <1>17
    <2>3. FileData(v, e) = data
      BY <1>7, <1>10, <1>15, <2>1, StoredReads
    <2>4. PICK cut : cut = CutFrom(Chain(d.fat, c), data)
      OBVIOUS
    <2>5. Mine(v, x, j) = Range(Chain(d2.fat, w.first))
      <3>1. Owned(v, <<x, j>>) = Range(Chain(v.fat, w.first))
        BY <1>7, <1>15, ReachIs, TreeIs, SMTT(40) DEF First
      <3> QED
        BY <1>15, <1>16, <3>1 DEF Mine
    <2>6. Moved(d, d2, Mine(d, x, j), Mine(v, x, j), cut)
      BY <1>3, <1>6, <1>17, <2>4, <2>5
    <2>7. Lost(v) = Lost(d) \cup cut
      BY <1>10, <1>15, <2>6, LostIs
    <2> QED
      BY <1>1, <1>15, <2>3, <2>4, <2>7 DEF WroteBack
  <1>18. v = Run(d, w.todo \o y.todo)
    <2>1. PICK as, bs : as = w.todo /\ bs = y.todo
      OBVIOUS
    <2>2. as \in Seq(Writes) /\ bs \in Seq(Writes) /\ d2 = Run(d, as) /\ v = Run(d2, bs)
      BY <1>1, <1>6, <1>11, <1>14, <2>1
    <2>3. Run(d, as \o bs) = Run(Run(d, as), bs)
      BY <1>3, <2>2, RunConcat
    <2> QED
      BY <2>1, <2>2, <2>3
  <1> QED
    BY <1>1, <1>12, <1>13, <1>17, <1>18

\* The clusters that a file with the chain s loses when it is written back with the data.
Forgotten(s, data) == IF data = <<>> THEN {} ELSE CutFrom(s, data)

LEMMA SyncSafe ==
  ASSUME NEW d, Sound(d), NEW p \in Paths, Exists(d, p), ~EntryAt(d, p).dir,
         NEW data \in Seq(Units), Len(data) <= MaxData,
         NEW y, y = sync_file(d, p, EntryAt(d, p).cluster, data)
  PROVE  /\ Safe(d, y.todo, ParentOf(d, p), SlotOf(d, p), data = <<>> /\ EntryAt(d, p).cluster \in Clusters)
         /\ y.ok => \E e : WroteBack(d, Run(d, y.todo), ParentOf(d, p), SlotOf(d, p), e, data,
                                     Forgotten(Chain(d.fat, EntryAt(d, p).cluster), data))
  <1>1. PICK x, j, u : x = ParentOf(d, p) /\ j = SlotOf(d, p) /\ u = EntryAt(d, p)
    OBVIOUS
  <1>2. x \in Dirs(d) /\ j \in DirSlots(read_chain(d, x)) /\ u = read_chain(d, x)[j]
    BY <1>1, ResolveFacts
  <1>3. PICK cut : cut = Forgotten(Chain(d.fat, u.cluster), data)
    OBVIOUS
  <1>4. CASE data = <<>>
    <2>1. PICK free, e : free = free_chain(d.fat, u.cluster) /\ e = Renewed(u, 0, 0)
      OBVIOUS
    <2>2. Len(<<>>) = 0
      BY EmptySeq
    <2>3. PICK ws : ws = free \o update_dir_entry(Run(d, free), x, j, e).todo
      OBVIOUS
    <2>4. y = [todo |-> ws, ok |-> update_dir_entry(Run(d, free), x, j, e).ok]
      BY <1>1, <1>4, <2>1, <2>2, <2>3 DEF sync_file, Renewed
    <2>5. Safe(d, ws, x, j, u.cluster \in Clusters) /\ WroteBack(d, Run(d, ws), x, j, e, <<>>, {})
      BY <1>1, <1>2, <2>1, <2>3, EmptySafe
    <2>6. cut = {} /\ y.todo = ws
      BY <1>3, <1>4, <2>4 DEF Forgotten
    <2>7. Safe(d, y.todo, x, j, u.cluster \in Clusters) /\ WroteBack(d, Run(d, y.todo), x, j, e, data, cut)
      BY <1>4, <2>5, <2>6
    <2> QED
      BY <1>1, <1>3, <1>4, <2>7
  <1>5. CASE data # <<>>
    <2>1. PICK w : w = write_chain(d.fat, u.cluster, data)
      OBVIOUS
    <2>2. PICK e : e = Renewed(u, w.first, Len(data))
      OBVIOUS
    <2>3. PICK ws : ws = w.todo \o update_dir_entry(Run(d, w.todo), x, j, e).todo
      OBVIOUS
    <2>4. /\ Safe(d, w.todo, x, j, FALSE) /\ Safe(d, ws, x, j, FALSE)
          /\ Whole(w, data) =>
                WroteBack(d, Run(d, ws), x, j, e, data, CutFrom(Chain(d.fat, u.cluster), data))
      BY <1>1, <1>2, <2>1, <2>2, <2>3, FilledSafe
    <2>5. cut = CutFrom(Chain(d.fat, u.cluster), data)
      BY <1>3, <1>5 DEF Forgotten
    <2>6. Safe(d, y.todo, x, j, FALSE) /\ (y.ok => WroteBack(d, Run(d, y.todo), x, j, e, data, cut))
      <3>1. CASE w.ok
        <4>1. y = [todo |-> ws, ok |-> update_dir_entry(Run(d, w.todo), x, j, e).ok]
          BY <1>1, <1>5, <2>1, <2>2, <2>3, <3>1 DEF sync_file, Renewed
        <4>2. y.todo = ws
          BY <4>1
        <4>3. WroteBack(d, Run(d, ws), x, j, e, data, cut)
          BY <1>5, <2>4, <2>5, <3>1 DEF Whole
        <4> QED
          BY <2>4, <4>2, <4>3
      <3>2. CASE ~w.ok
        <4>1. y = [todo |-> w.todo, ok |-> FALSE]
          BY <1>1, <1>5, <2>1, <3>2 DEF sync_file
        <4>2. y.todo = w.todo /\ y.ok = FALSE
          BY <4>1
        <4> QED
          BY <2>4, <4>2
      <3> QED
        BY <3>1, <3>2
    <2>7. Safe(d, y.todo, x, j, data = <<>> /\ u.cluster \in Clusters)
      BY <2>6 DEF Safe
    <2> QED
      BY <1>1, <1>3, <2>6, <2>7
  <1> QED
    BY <1>4, <1>5

Dots == <<Dot, Dot>> \o Zeros(K - 2)

LEMMA DotsFacts ==
  /\ Dots \in Contained
  /\ \A i \in 1 .. K : Dots[i] \in {Dot, Zero} /\ Dots[i].t # "entry" /\ (i > 2 => Dots[i] = Zero)
                       /\ (i <= 2 => Dots[i] # Zero)
  <1>1. PICK z : z = Zeros(K - 2)
    OBVIOUS
  <1>2. PICK m \in Nat : m = K - 2 /\ K = m + 2
    BY ClusterFacts
  <1>3. z = [i \in 1 .. m |-> Zero]
    BY <1>1, <1>2 DEF Zeros
  <1>4. z \in Seq(Units) /\ Len(z) = m
    <2>1. z \in [1 .. m -> Units]
      BY <1>3, UnitKinds
    <2> QED
      BY <2>1, IsASeq, LenProperties
  <1>5. PICK y : y = <<Dot, Dot>>
    OBVIOUS
  <1>6. y \in Seq(Units) /\ Len(y) = 2 /\ y[1] = Dot /\ y[2] = Dot
    BY <1>5, UnitKinds
  <1>7. /\ y \o z \in Seq(Units) /\ Len(y \o z) = Len(y) + Len(z)
        /\ \A i \in 1 .. (Len(y) + Len(z)) : (y \o z)[i] = IF i <= Len(y) THEN y[i] ELSE z[i - Len(y)]
    BY <1>4, <1>6, ConcatProperties
  <1>8. Dots = y \o z
    BY <1>1, <1>5 DEF Dots
  <1>9. Len(Dots) = K /\ Dots \in Seq(Units)
    <2>1. Dots \in Seq(Units) /\ Len(Dots) = Len(y) + Len(z)
      BY <1>7, <1>8
    <2>2. PICK o : o = Len(Dots)
      OBVIOUS
    <2>3. o = 2 + m
      BY <1>4, <1>6, <2>1, <2>2
    <2>4. o = K
      BY <1>2, <2>3
    <2> QED
      BY <2>1, <2>2, <2>4
  <1>10. ASSUME NEW i \in 1 .. K
         PROVE  (i <= 2 => Dots[i] = Dot) /\ (i > 2 => Dots[i] = Zero)
    <2>1. i \in 1 .. (Len(y) + Len(z))
      BY <1>2, <1>4, <1>6
    <2>2. CASE i <= 2
      <3>1. Dots[i] = y[i] /\ (i = 1 \/ i = 2)
        BY <1>6, <1>7, <1>8, <2>1, <2>2
      <3> QED
        BY <1>6, <2>2, <3>1
    <2>3. CASE i > 2
      <3>1. Dots[i] = z[i - 2] /\ i - 2 \in 1 .. m
        BY <1>2, <1>6, <1>7, <1>8, <2>1, <2>3
      <3> QED
        BY <1>3, <2>3, <3>1
    <2> QED
      BY <2>2, <2>3
  <1>11. Dots \in [1 .. K -> Units]
    BY <1>9, LenProperties
  <1>12. Dot.t # "entry" /\ Zero.t # "entry" /\ Dot # Zero
    BY DEF Dot, Zero
  <1> QED
    BY <1>10, <1>11, <1>12 DEF Contained

\* The writes that make an empty directory of the cluster c.
NewDir(c) == Append(Allocate(c), PutCluster(c, Dots))

LEMMA NewDirStages ==
  ASSUME NEW d \in Volumes, NEW c \in Clusters
  PROVE  /\ NewDir(c) \in Seq(Writes)
         /\ \A k \in 0 .. Len(NewDir(c)) :
               /\ Stage(d, NewDir(c), k) \in Volumes
               /\ \A z \in Clusters : z # c => /\ Stage(d, NewDir(c), k).fat[z] = d.fat[z]
                                               /\ Stage(d, NewDir(c), k).units[z] = d.units[z]
         /\ Run(d, NewDir(c)).fat[c] = EOC /\ Run(d, NewDir(c)).units[c] = Dots
  <1>1. PICK a, w : a = Allocate(c) /\ w = PutCluster(c, Dots)
    OBVIOUS
  <1>2. /\ a \in Seq(Writes) /\ Len(a) = 2
        /\ Stage(d, a, 0) = d
        /\ Stage(d, a, 1) = [fat |-> [d.fat EXCEPT ![c] = EOC], units |-> d.units]
        /\ Stage(d, a, 2) = [fat |-> [d.fat EXCEPT ![c] = EOC], units |-> [d.units EXCEPT ![c] = Zeros(K)]]
        /\ Run(d, a) = Stage(d, a, 2)
    BY <1>1, AllocateFacts
  <1>3. w \in Writes
    BY <1>1, DotsFacts, ApplyPut
  <1>4. PICK b : b = NewDir(c)
    OBVIOUS
  <1>5. b = a \o <<w>>
    BY <1>1, <1>2, <1>3, <1>4, AppendIsConcat DEF NewDir
  <1>6. <<w>> \in Seq(Writes) /\ Len(<<w>>) = 1
    BY <1>3
  <1>7. /\ a \o <<w>> \in Seq(Writes) /\ Len(a \o <<w>>) = Len(a) + Len(<<w>>)
        /\ \A k \in 0 .. Len(a) : Stage(d, a \o <<w>>, k) = Stage(d, a, k)
        /\ \A k \in 0 .. Len(<<w>>) : Stage(d, a \o <<w>>, Len(a) + k) = Stage(Run(d, a), <<w>>, k)
    BY <1>2, <1>6, StageConcat
  <1>8. b \in Seq(Writes) /\ Len(b) = 3
    BY <1>2, <1>5, <1>6, <1>7
  <1>9. PICK v2 : v2 = Run(d, a)
    OBVIOUS
  <1>10. v2 \in Volumes
    <2>0. a \in Seq(Writes) /\ 2 \in 0 .. Len(a)
      BY <1>2
    <2>1. \A k \in 0 .. Len(a) : Stage(d, a, k) \in Volumes
      BY <2>0, StageFacts
    <2>2. Stage(d, a, 2) \in Volumes
      BY <2>0, <2>1
    <2>3. v2 = Stage(d, a, 2)
      BY <1>2, <1>9
    <2> QED
      BY <2>2, <2>3
  <1>11. Stage(v2, <<w>>, 1) = Apply(v2, w)
    BY <1>3, <1>10, OneWrite
  <1>12. /\ Stage(d, b, 0) = d /\ Stage(d, b, 1) = Stage(d, a, 1) /\ Stage(d, b, 2) = v2
         /\ Stage(d, b, 3) = Apply(v2, w)
    <2>1. 0 \in 0 .. Len(a) /\ 1 \in 0 .. Len(a) /\ 2 \in 0 .. Len(a) /\ 1 \in 0 .. Len(<<w>>) /\ Len(a) + 1 = 3
      BY <1>2, <1>6
    <2>2. Stage(d, a \o <<w>>, Len(a) + 1) = Stage(v2, <<w>>, 1)
      BY <1>7, <1>9, <2>1
    <2> QED
      BY <1>2, <1>5, <1>7, <1>9, <1>11, <2>1, <2>2
  <1>13. /\ Apply(v2, w).fat = v2.fat /\ Apply(v2, w).units = [v2.units EXCEPT ![c] = Dots]
    BY <1>1, <1>10, DotsFacts, ApplyPut
  <1>14. d.fat \in [Clusters -> FatValues] /\ d.units \in [Clusters -> Contained]
    BY DEF Volumes
  <1>15. v2.fat = [d.fat EXCEPT ![c] = EOC] /\ v2.units = [d.units EXCEPT ![c] = Zeros(K)]
    BY <1>2, <1>9
  <1>16. \A z \in Clusters : z # c => v2.fat[z] = d.fat[z] /\ v2.units[z] = d.units[z]
    BY <1>14, <1>15
  <1>17. \A z \in Clusters : z # c => Apply(v2, w).fat[z] = d.fat[z] /\ Apply(v2, w).units[z] = d.units[z]
    BY <1>13, <1>14, <1>15, <1>16
  <1>18. Apply(v2, w).fat[c] = EOC /\ Apply(v2, w).units[c] = Dots
    BY <1>13, <1>14, <1>15
  <1>19. \A z \in Clusters : z # c => Stage(d, a, 1).fat[z] = d.fat[z] /\ Stage(d, a, 1).units[z] = d.units[z]
    BY <1>2, <1>14
  <1>20. \A k \in 0 .. 3 : Stage(d, b, k) \in Volumes
    BY <1>8, StageFacts
  <1>21. \A k \in 0 .. 3 : k = 0 \/ k = 1 \/ k = 2 \/ k = 3
    OBVIOUS
  <1>22. \A k \in 0 .. 3 : \A z \in Clusters : z # c => /\ Stage(d, b, k).fat[z] = d.fat[z]
                                                        /\ Stage(d, b, k).units[z] = d.units[z]
    BY <1>9, <1>12, <1>16, <1>17, <1>19, <1>21
  <1>23. Run(d, b) = Apply(v2, w)
    BY <1>8, <1>12 DEF Run
  <1> QED
    BY <1>4, <1>8, <1>18, <1>20, <1>22, <1>23

\* A cluster with the two dot entries is an empty directory.
LEMMA DotsAreEmpty ==
  ASSUME NEW d \in Volumes, NEW c \in Clusters, d.fat[c] = EOC, d.units[c] = Dots
  PROVE  /\ WellFormed(d.fat, c) /\ Chain(d.fat, c) = <<c>>
         /\ EndsWithZeros(read_chain(d, c)) /\ DirSlots(read_chain(d, c)) = {}
  <1>1. <<c>> \in Seq(Clusters) /\ Len(<<c>>) = 1 /\ <<c>>[1] = c /\ <<c>> # <<>>
    OBVIOUS
  <1>2. ChainOf(d.fat, c, <<c>>)
    BY <1>1 DEF ChainOf
  <1>3. WellFormed(d.fat, c) /\ Chain(d.fat, c) = <<c>>
    BY <1>2, ChainIsWellFormed
  <1>4. PICK us : us = read_chain(d, c)
    OBVIOUS
  <1>5. us \in Seq(Units) /\ Len(us) = K /\ \A k \in 1 .. K : us[k] = d.units[<<c>>[ClusterNo(k)]][Within(k)]
    <2>1. 1 * K = K
      BY ClusterFacts
    <2>2. PICK s : s = Chain(d.fat, c)
      OBVIOUS
    <2>3. /\ us \in Seq(Units) /\ Len(us) = Len(s) * K
          /\ \A k \in 1 .. Len(s) * K : us[k] = d.units[s[ClusterNo(k)]][Within(k)]
      BY <1>4, <2>2, Reads
    <2>4. s = <<c>> /\ Len(s) = 1
      BY <1>1, <1>3, <2>2
    <2> QED
      BY <2>1, <2>3, <2>4
  <1>6. ASSUME NEW k \in 1 .. K PROVE us[k] = Dots[k]
    <2>1. ClusterNo((1 - 1) * K + k) = 1 /\ Within((1 - 1) * K + k) = k
      BY PositionOf
    <2>2. (1 - 1) * K + k = k
      BY ClusterFacts
    <2>3. ClusterNo(k) = 1 /\ Within(k) = k
      BY <2>1, <2>2
    <2> QED
      BY <1>1, <1>5, <2>3
  <1>7. DOMAIN us = 1 .. K
    BY <1>5, LenProperties
  <1>8. EndsWithZeros(us)
    <2> SUFFICES ASSUME NEW i \in 1 .. K, NEW j \in 1 .. K, i < j, us[i] = Zero PROVE us[j] = Zero
      BY <1>7 DEF EndsWithZeros
    <2>1. i > 2
      BY <1>6, DotsFacts, ClusterFacts
    <2> QED
      BY <1>6, <2>1, DotsFacts, ClusterFacts
  <1>9. DirSlots(us) = {}
    BY <1>6, <1>7, DotsFacts DEF DirSlots
  <1> QED
    BY <1>3, <1>4, <1>8, <1>9

\* A stage of mkdir: if its entry is there, it is that of the new directory.
NewDirAt(d, v, x, j) ==
  Edits(d, v, x, j) /\ (j \in DirSlots(read_chain(v, x)) => read_chain(v, x)[j].dir)

LEMMA NewDirParts ==
  ASSUME NEW d \in Volumes, NEW x, NEW j, NEW ws \in Seq(Writes), NEW xs \in Seq(Writes),
         \A k \in 0 .. Len(ws) : NewDirAt(d, Stage(d, ws, k), x, j),
         \A k \in 0 .. Len(xs) : NewDirAt(d, Stage(Run(d, ws), xs, k), x, j)
  PROVE  \A k \in 0 .. Len(ws \o xs) : NewDirAt(d, Stage(d, ws \o xs, k), x, j)
  BY SplitStages

\* What mkdir of the name n leaves.
MadeDir(d, v, x, j, n) ==
  /\ Edits(d, v, x, j) /\ j \in DirSlots(read_chain(v, x))
  /\ read_chain(v, x)[j].name = n /\ read_chain(v, x)[j].dir
  /\ Lost(v) = Lost(d)

LEMMA MkdirSafe ==
  ASSUME NEW d, Sound(d), NEW x \in Dirs(d), NEW n \in Names,
         \A i \in DirSlots(read_chain(d, x)) : read_chain(d, x)[i].name # n,
         NEW c \in Clusters, d.fat[c] = FREE,
         NEW link, link = add_dir_entry(Run(d, NewDir(c)), x, Entry(n, TRUE, c, 0))
  PROVE  \E j : /\ j \notin DirSlots(read_chain(d, x))
                /\ Safe(d, NewDir(c) \o link.todo, x, j, FALSE)
                /\ \A k \in 0 .. Len(NewDir(c) \o link.todo) : NewDirAt(d, Stage(d, NewDir(c) \o link.todo, k), x, j)
                /\ link.ok => MadeDir(d, Run(d, NewDir(c) \o link.todo), x, j, n)
  <1>1. PICK ws, d2 : ws = NewDir(c) /\ d2 = Run(d, NewDir(c))
    OBVIOUS
  <1>2. d \in Volumes /\ c \notin Reach(d)
    BY DirReach DEF Sound
  <1>3. /\ ws \in Seq(Writes)
        /\ \A k \in 0 .. Len(ws) :
               /\ Stage(d, ws, k) \in Volumes
               /\ \A z \in Clusters : z # c => /\ Stage(d, ws, k).fat[z] = d.fat[z]
                                               /\ Stage(d, ws, k).units[z] = d.units[z]
        /\ d2.fat[c] = EOC /\ d2.units[c] = Dots
    BY <1>1, <1>2, NewDirStages
  <1>4. \A k \in 0 .. Len(ws) : \A j : Aside(d, Stage(d, ws, k), x, j)
    BY <1>2, <1>3, DirReach DEF Aside
  <1>5. Aside(d, d2, x, 0) /\ d2 \in Volumes /\ \A z \in Clusters : z # c => d2.fat[z] = d.fat[z]
    <2>1. Len(ws) \in 0 .. Len(ws)
      BY <1>3, LenProperties
    <2> QED
      BY <1>1, <1>3, <1>4, <2>1 DEF Run
  <1>6. PICK e : e = Entry(n, TRUE, c, 0)
    OBVIOUS
  <1>7. e \in Units /\ e.t = "entry" /\ e.name = n /\ e.dir = TRUE /\ e.cluster = c
    <2>1. 0 \in 0 .. MaxData
      BY VolumeAssumption
    <2>2. e \in Units
      BY <1>6, <2>1, UnitKinds
    <2> QED
      BY <1>6, <2>2 DEF Entry
  <1>8. Fits(d, d2, x, 0, e) /\ Chain(d2.fat, c) = <<c>>
    <2>1. /\ WellFormed(d2.fat, c) /\ Chain(d2.fat, c) = <<c>>
          /\ EndsWithZeros(read_chain(d2, c)) /\ DirSlots(read_chain(d2, c)) = {}
      BY <1>3, <1>5, DotsAreEmpty
    <2>2. \A z \in Range(<<c>>) : z = c
      BY DEF Range
    <2> QED
      BY <1>2, <1>7, <2>1, <2>2 DEF Fits
  <1>9. PICK w : w = add_dir_entry(d2, x, e)
    OBVIOUS
  <1>10. /\ w.todo \in Seq(Writes)
         /\ \E j : /\ j \notin DirSlots(read_chain(d, x))
                   /\ \A k \in 0 .. Len(w.todo) :
                         /\ Edits(d, Stage(d2, w.todo, k), x, j)
                         /\ j \in DirSlots(read_chain(Stage(d2, w.todo, k), x))
                               => read_chain(Stage(d2, w.todo, k), x)[j] = e
                   /\ w.ok => /\ j \in DirSlots(read_chain(Run(d2, w.todo), x))
                              /\ Settled(d2, Run(d2, w.todo), x)
    BY <1>5, <1>7, <1>8, <1>9, AddStages
  <1>11. PICK j : /\ j \notin DirSlots(read_chain(d, x))
                  /\ \A k \in 0 .. Len(w.todo) :
                        /\ Edits(d, Stage(d2, w.todo, k), x, j)
                        /\ j \in DirSlots(read_chain(Stage(d2, w.todo, k), x))
                              => read_chain(Stage(d2, w.todo, k), x)[j] = e
                  /\ w.ok => /\ j \in DirSlots(read_chain(Run(d2, w.todo), x))
                             /\ Settled(d2, Run(d2, w.todo), x)
    BY <1>10
  <1>12. Emptied(d, x, j)
    BY <1>11 DEF Emptied
  <1>13. \A k \in 0 .. Len(ws) : NewDirAt(d, Stage(d, ws, k), x, j)
    <2>1. \A k \in 0 .. Len(ws) : Edits(d, Stage(d, ws, k), x, j)
      BY <1>4, <1>11, <1>12, AsideEdit
    <2>2. \A k \in 0 .. Len(ws) : read_chain(Stage(d, ws, k), x) = read_chain(d, x)
      BY <1>4, AsideDir
    <2> QED
      BY <1>11, <2>1, <2>2 DEF NewDirAt
  <1>14. \A k \in 0 .. Len(w.todo) : NewDirAt(d, Stage(d2, w.todo, k), x, j)
    BY <1>7, <1>11 DEF NewDirAt
  <1>15. PICK xs : xs = w.todo /\ xs \in Seq(Writes)
    BY <1>10
  <1>16. /\ \A k \in 0 .. Len(xs) : NewDirAt(d, Stage(Run(d, ws), xs, k), x, j)
         /\ \A k \in 0 .. Len(ws \o xs) : NewDirAt(d, Stage(d, ws \o xs, k), x, j)
    BY <1>1, <1>2, <1>3, <1>13, <1>14, <1>15, NewDirParts
  <1>17. Safe(d, ws \o xs, x, j, FALSE)
    <2>1. ws \o xs \in Seq(Writes)
      BY <1>2, <1>3, <1>15, StageConcat
    <2> QED
      BY <1>16, <2>1 DEF NewDirAt, Safe
  <1>18. PICK v : v = Run(d2, xs)
    OBVIOUS
  <1>19. v = Run(d, ws \o xs)
    BY <1>1, <1>2, <1>3, <1>15, <1>18, RunConcat
  <1>20. ASSUME w.ok PROVE MadeDir(d, v, x, j, n)
    <2>1. Len(xs) \in 0 .. Len(xs)
      BY <1>15, LenProperties
    <2>2. /\ Edits(d, v, x, j) /\ j \in DirSlots(read_chain(v, x)) /\ read_chain(v, x)[j] = e
          /\ Settled(d2, v, x)
      BY <1>11, <1>15, <1>18, <1>20, <2>1 DEF Run
    <2>3. Aside(d, d2, x, j) /\ Fits(d, d2, x, j, e) /\ Mine(d, x, j) = {}
      <3>1. 0 \notin DirSlots(read_chain(d, x))
        BY SoundDirs, LenProperties DEF DirSlots
      <3> QED
        BY <1>5, <1>8, <1>11, <3>1, NoEntry
    <2>4. v \in Volumes /\ x \in Dirs(v)
      BY <2>2, EditTree DEF Edits
    <2>5. Chain(v.fat, c) = <<c>>
      BY <1>7, <1>8, <2>2, <2>3, <2>4, SettledEntry
    <2>6. Mine(v, x, j) = {c}
      <3>1. Owned(v, <<x, j>>) = Range(Chain(v.fat, c))
        BY <1>7, <2>2, <2>4, ReachIs, TreeIs DEF First
      <3>2. Range(<<c>>) = {c}
        BY DEF Range
      <3> QED
        BY <2>2, <2>5, <3>1, <3>2 DEF Mine
    <2>7. PICK cut : cut = {}
      OBVIOUS
    <2>8. Moved(d, d2, Mine(d, x, j), Mine(v, x, j), cut)
      <3>1. \A z \in Mine(d, x, j) : FALSE
        BY <2>3
      <3>2. \A z : z \in Mine(v, x, j) <=> z = c
        BY <2>6
      <3>3. \A z \in cut : FALSE
        BY <2>7
      <3> QED
        BY <1>5, <3>1, <3>2, <3>3 DEF Moved
    <2>9. Edits(d, v, x, j) /\ Settled(d2, v, x) /\ Aside(d, d2, x, j)
      BY <2>2, <2>3
    <2>10. Lost(v) = Lost(d) \cup cut
      BY <2>8, <2>9, LostIs
    <2>11. Lost(v) = Lost(d)
      BY <2>7, <2>10
    <2> QED
      BY <1>7, <2>2, <2>11 DEF MadeDir
  <1>21. w = link
    BY <1>1, <1>6, <1>9
  <1>22. /\ \A k \in 0 .. Len(ws \o xs) : NewDirAt(d, Stage(d, ws \o xs, k), x, j)
         /\ w.ok => MadeDir(d, Run(d, ws \o xs), x, j, n)
    BY <1>16, <1>19, <1>20
  <1> QED
    BY <1>1, <1>11, <1>15, <1>17, <1>21, <1>22

-----------------------------------------------------------------------------
(* The formatter's image *)

Blank == [fat |-> [c \in Clusters |-> IF c = Root THEN EOC ELSE FREE],
          units |-> [c \in Clusters |-> Zeros(K)]]

LEMMA BlankSound ==
  Sound(Blank) /\ DirSlots(read_chain(Blank, Root)) = {}
  <1>1. PICK d : d = Blank
    OBVIOUS
  <1>2. /\ d.fat = [c \in Clusters |-> IF c = Root THEN EOC ELSE FREE]
        /\ d.units = [c \in Clusters |-> Zeros(K)]
    BY <1>1 DEF Blank
  <1>3. d \in Volumes
    <2>1. Zeros(K) \in Contained
      BY ZerosFacts
    <2>2. EOC \in FatValues /\ FREE \in FatValues
      BY DEF FatValues
    <2>3. d.fat \in [Clusters -> FatValues]
      BY <1>2, <2>2
    <2>4. d.units \in [Clusters -> Contained]
      BY <1>2, <2>1
    <2>5. d = [fat |-> d.fat, units |-> d.units]
      BY <1>1 DEF Blank
    <2> QED
      BY <2>3, <2>4, <2>5 DEF Volumes
  <1>4. d.fat[Root] = EOC /\ \A c \in Clusters : d.units[c] = Zeros(K)
    BY <1>2, ClusterFacts
  <1>5. <<Root>> \in Seq(Clusters) /\ Len(<<Root>>) = 1 /\ <<Root>>[1] = Root /\ <<Root>> # <<>>
    BY ClusterFacts
  <1>6. ChainOf(d.fat, Root, <<Root>>)
    BY <1>4, <1>5 DEF ChainOf
  <1>7. WellFormed(d.fat, Root)
    BY <1>6, ChainIsWellFormed
  <1>8. PICK us : us = read_chain(d, Root)
    OBVIOUS
  <1>9. us \in Seq(Units) /\ \A k \in DOMAIN us : us[k] = Zero
    <2>1. PICK s : s = Chain(d.fat, Root)
      OBVIOUS
    <2>2. /\ s \in Seq(Clusters) /\ Len(s) \in Nat /\ Len(s) * K \in Nat
          /\ us \in Seq(Units) /\ DOMAIN us = 1 .. Len(s) * K
          /\ \A i \in 1 .. Len(s) * K :
               /\ Within(i) \in 1 .. K
               /\ s[ClusterNo(i)] \in Clusters
               /\ us[i] = d.units[s[ClusterNo(i)]][Within(i)]
      BY <1>3, <1>8, <2>1, ReadChain
    <2> QED
      BY <1>4, <2>2, ZerosFacts
  <1>10. EndsWithZeros(us) /\ DirSlots(us) = {}
    <2>1. EndsWithZeros(us)
      BY <1>9 DEF EndsWithZeros
    <2> QED
      BY <1>9, <2>1, UnitTags DEF DirSlots
  <1>11. TreeSlots(d) = {}
    <2>1. \A y \in Dirs(d) : y = Root
      BY <1>8, <1>10, DirsAre
    <2> QED
      BY <1>8, <1>10, <2>1, TreeIs
  <1> QED
    BY <1>1, <1>3, <1>7, <1>8, <1>10, <1>11 DEF Sound

\* e is the entry of the file f, with as many units of data.
Holds(d, e, f, units) ==
  e.name = f /\ ~e.dir /\ FileData(d, e) = [i \in 1 .. units |-> Data(<<f>>, i)]

\* There was room for the file.
Copied(d, n, units) == CopyData(d, n, units).ok /\ CopyEntry(d, n, units).ok

\* Copying a file is an edit of the root directory.
LEMMA WithFileEdits ==
  ASSUME NEW d, Sound(d), NEW n \in Names, NEW z \in 0 .. MaxData,
         \A i \in DirSlots(read_chain(d, Root)) : read_chain(d, Root)[i].name # n,
         NEW v, v = WithFile(d, n, z)
  PROVE  \E j : /\ Edits(d, v, Root, j)
                /\ j \in DirSlots(read_chain(v, Root)) =>
                      /\ read_chain(v, Root)[j].name = n
                      /\ Copied(d, n, z) => Holds(v, read_chain(v, Root)[j], n, z)
  <1>0. z \in Nat
    BY VolumeAssumption
  <1>1. PICK data : data = [i \in 1 .. z |-> Data(<<n>>, i)]
    OBVIOUS
  <1>2. data \in Seq(Units) /\ Len(data) = z
    <2>1. z \in Nat /\ \A i \in 1 .. z : i \in 1 .. MaxData
      BY VolumeAssumption
    <2>2. data \in [1 .. z -> Units]
      BY <1>1, <2>1, UnitKinds
    <2> QED
      BY <2>1, <2>2, IsASeq, LenProperties
  <1>3. Root \in Dirs(d) /\ d \in Volumes
    BY DirsAre DEF Sound
  <1>4. Allowed(d, d, Root, 0, 0)
    BY NoChain, ClusterFacts DEF Allowed
  <1>5. PICK w : w = write_chain(d.fat, 0, data)
    OBVIOUS
  <1>6. /\ w.todo \in Seq(Writes)
        /\ \A k \in 0 .. Len(w.todo) : Aside(d, Stage(d, w.todo, k), Root, 0)
        /\ w.first \in Clusters \cup {0}
        /\ Allowed(d, Run(d, w.todo), Root, 0, w.first)
        /\ Whole(w, data) => Stored(Run(d, w.todo), w.first, data)
    <2>1. PICK c \in Clusters \cup {0} : c = 0
      OBVIOUS
    <2>2. Allowed(d, d, Root, 0, c) /\ w = write_chain(d.fat, c, data)
      BY <1>4, <1>5, <2>1
    <2> QED
      BY <1>2, <1>3, <2>2, BodyStages
  <1>7. PICK d2 : d2 = Run(d, w.todo)
    OBVIOUS
  <1>8. Aside(d, d2, Root, 0)
    <2>1. Len(w.todo) \in 0 .. Len(w.todo)
      BY <1>6, LenProperties
    <2> QED
      BY <1>6, <1>7, <2>1 DEF Run
  <1>9. PICK e : e = Entry(n, FALSE, w.first, z)
    OBVIOUS
  <1>10. e \in Units /\ e.t = "entry" /\ e.name = n /\ e.dir = FALSE /\ e.cluster = w.first
         /\ e.size = z
    <2>1. e \in Units
      BY <1>6, <1>9, UnitKinds
    <2> QED
      BY <1>9, <2>1 DEF Entry
  <1>11. Fits(d, d2, Root, 0, e)
    BY <1>6, <1>7, <1>10 DEF Fits, Allowed
  <1>12. PICK y : y = add_dir_entry(d2, Root, e)
    OBVIOUS
  <1>13. w = CopyData(d, n, z) /\ y = CopyEntry(d, n, z) /\ v = Run(d2, y.todo)
    <2>1. w = CopyData(d, n, z)
      BY <1>1, <1>5 DEF CopyData
    <2>2. y = CopyEntry(d, n, z)
      BY <1>7, <1>9, <1>12, <2>1 DEF CopyEntry
    <2> QED
      BY <1>7, <2>1, <2>2 DEF WithFile
  <1>14. PICK j : /\ j \notin DirSlots(read_chain(d, Root)) /\ Edits(d, v, Root, j)
                  /\ j \in DirSlots(read_chain(v, Root)) => read_chain(v, Root)[j] = e
                  /\ y.ok => Settled(d2, v, Root)
    <2>1. /\ y.todo \in Seq(Writes)
          /\ \E j : /\ j \notin DirSlots(read_chain(d, Root))
                    /\ \A k \in 0 .. Len(y.todo) :
                          /\ Edits(d, Stage(d2, y.todo, k), Root, j)
                          /\ j \in DirSlots(read_chain(Stage(d2, y.todo, k), Root))
                               => read_chain(Stage(d2, y.todo, k), Root)[j] = e
                    /\ y.ok => /\ j \in DirSlots(read_chain(Run(d2, y.todo), Root))
                               /\ Settled(d2, Run(d2, y.todo), Root)
      BY <1>8, <1>10, <1>11, <1>12, AddStages
    <2>2. Len(y.todo) \in 0 .. Len(y.todo) /\ v = Stage(d2, y.todo, Len(y.todo)) /\ v = Run(d2, y.todo)
      BY <1>13, <2>1, LenProperties DEF Run
    <2> QED
      BY <2>1, <2>2
  <1>15. ASSUME Copied(d, n, z) PROVE FileData(v, e) = data
    <2>1. v \in Volumes /\ Settled(d2, v, Root)
      BY <1>13, <1>14, <1>15 DEF Copied, Edits
    <2>2. CASE data = <<>>
      <3>1. z = 0
        BY <1>2, <2>2, EmptySeq
      <3>2. w.first = 0
        <4>1. PICK all, old, m : /\ all = Usable(d.fat, 0) /\ old = Len(Chain(d.fat, 0))
                                 /\ m = Written(d.fat, 0, data)
          OBVIOUS
        <4>2. Planned(d, 0, data, all, old, m)
          BY <1>2, <1>3, <1>4, <4>1 DEF Planned, Allowed
        <4>3. m = 0
          <5>1. Needed(data) = 0
            BY <1>2, <3>1, NeededFacts
          <5>2. d.fat \in [Clusters -> FatValues] /\ WellFormed(d.fat, 0)
            BY <1>3, <1>4 DEF Volumes, Allowed
          <5>3. Len(all) \in Nat
            BY <4>1, <5>2, UsableFacts
          <5> QED
            BY <4>1, <5>1, <5>3 DEF Written
        <4> QED
          BY <1>5, <4>2, <4>3, WriteNothing
      <3> QED
        BY <1>10, <2>1, <2>2, <3>1, <3>2, EmptyFile
    <2>3. CASE data # <<>>
      <3>1. Whole(w, data)
        BY <1>13, <1>15, <2>3 DEF Whole, Copied
      <3>2. Stored(d2, w.first, data)
        BY <1>6, <1>7, <3>1
      <3> QED
        BY <1>2, <1>8, <1>10, <1>11, <2>1, <3>2, StoredReads
    <2> QED
      BY <2>2, <2>3
  <1>16. Copied(d, n, z) => Holds(v, e, n, z)
    BY <1>1, <1>10, <1>15 DEF Holds
  <1> QED
    BY <1>10, <1>14, <1>16

\* The volume after the first i files: their names are the only ones in its root.
Formatted(d, i) ==
  /\ Sound(d)
  /\ \A k \in DirSlots(read_chain(d, Root)) : \E a \in 1 .. i : read_chain(d, Root)[k].name = Files[a]

LEMMA FilesFacts ==
  ASSUME NEW n, n = Len(Files)
  PROVE  /\ n \in Nat /\ \A i \in 1 .. n : Files[i] \in Names /\ Files[i] \in Range(Files)
         /\ \A i, k \in 1 .. n : Files[i] = Files[k] => i = k
  <1>1. Files \in Seq(Names) /\ IsInjective(Files)
    BY VolumeAssumption
  <1>2. n \in Nat /\ DOMAIN Files = 1 .. n /\ Files \in [1 .. n -> Names]
    BY <1>1, LenProperties
  <1> QED
    BY <1>1, <1>2 DEF IsInjective, Range

\* Every entry of the root is that of a file, with its data.
Filled(d, len, i) ==
  \A k \in DirSlots(read_chain(d, Root)) :
     \E a \in 1 .. i : Holds(d, read_chain(d, Root)[k], Files[a], len[Files[a]])

LEMMA FormatsOne ==
  ASSUME NEW n \in Nat, n = Len(Files), NEW i \in 1 .. n, NEW d, Formatted(d, i - 1), NEW len,
         NEW z \in 0 .. MaxData, z = len[Files[i]]
  PROVE  /\ Formatted(WithFile(d, Files[i], z), i)
         /\ Filled(d, len, i - 1) /\ Copied(d, Files[i], z) => Filled(WithFile(d, Files[i], z), len, i)
  <1>1. PICK f : f = Files[i]
    OBVIOUS
  <1>2. f \in Names
    BY <1>1, FilesFacts
  <1>3. ASSUME NEW k \in DirSlots(read_chain(d, Root)) PROVE read_chain(d, Root)[k].name # f
    <2>1. PICK a \in 1 .. (i - 1) : read_chain(d, Root)[k].name = Files[a]
      BY DEF Formatted
    <2>2. a \in 1 .. n /\ a # i
      OBVIOUS
    <2> QED
      BY <1>1, <2>1, <2>2, FilesFacts
  <1>4. Sound(d)
    BY DEF Formatted
  <1>5. PICK v : v = WithFile(d, f, z)
    OBVIOUS
  <1>6. PICK j : /\ Edits(d, v, Root, j)
                 /\ j \in DirSlots(read_chain(v, Root)) =>
                       /\ read_chain(v, Root)[j].name = f
                       /\ Copied(d, f, z) => Holds(v, read_chain(v, Root)[j], f, z)
    BY <1>2, <1>3, <1>4, <1>5, WithFileEdits
  <1>7. Sound(v)
    BY <1>4, <1>6, EditSound
  <1>8. \A k \in DirSlots(read_chain(v, Root)) :
           k # j => k \in DirSlots(read_chain(d, Root)) /\ read_chain(v, Root)[k] = read_chain(d, Root)[k]
    BY <1>6 DEF Edits
  <1>9. ASSUME NEW k \in DirSlots(read_chain(v, Root)) PROVE \E a \in 1 .. i : read_chain(v, Root)[k].name = Files[a]
    <2>1. CASE k = j
      BY <1>1, <1>6, <2>1
    <2>2. CASE k # j
      <3>1. PICK a \in 1 .. (i - 1) : read_chain(v, Root)[k].name = Files[a]
        BY <1>8, <2>2 DEF Formatted
      <3>2. a \in 1 .. i
        OBVIOUS
      <3> QED
        BY <3>1, <3>2
    <2> QED
      BY <2>1, <2>2
  <1>10. Formatted(v, i)
    BY <1>7, <1>9 DEF Formatted
  <1>11. ASSUME Filled(d, len, i - 1), Copied(d, f, z), NEW k \in DirSlots(read_chain(v, Root))
         PROVE  \E a \in 1 .. i : Holds(v, read_chain(v, Root)[k], Files[a], len[Files[a]])
    <2>1. CASE k = j
      BY <1>1, <1>6, <1>11, <2>1
    <2>2. CASE k # j
      <3>1. PICK e : e = read_chain(d, Root)[k]
        OBVIOUS
      <3>2. k \in DirSlots(read_chain(d, Root)) /\ read_chain(v, Root)[k] = e
        BY <1>8, <2>2, <3>1
      <3>3. PICK a \in 1 .. (i - 1) : Holds(d, e, Files[a], len[Files[a]])
        BY <1>11, <3>1, <3>2 DEF Filled
      <3>4. PICK s : s = <<Root, k>>
        OBVIOUS
      <3>5. s \in TreeSlots(d) /\ EntryOf(d, s) = e /\ s # <<Root, j>>
        BY <2>2, <3>1, <3>2, <3>4, DirsAre, TreeIs
      <3>6. FileData(v, e) = FileData(d, e)
        BY <1>4, <1>6, <3>3, <3>5, EditData DEF Holds
      <3>7. a \in 1 .. i /\ Holds(v, e, Files[a], len[Files[a]])
        BY <3>3, <3>6 DEF Holds
      <3> QED
        BY <3>2, <3>7
    <2> QED
      BY <2>1, <2>2
  <1>12. Filled(d, len, i - 1) /\ Copied(d, f, z) => Filled(v, len, i)
    BY <1>11 DEF Filled
  <1> QED
    BY <1>1, <1>5, <1>10, <1>12

LEMMA ImageSound ==
  ASSUME NEW len, len \in [Range(Files) -> {0, MaxData}], HasRoom(len)
  PROVE  Sound(Image(len)) /\ Filled(Image(len), len, Len(Files))
  <1>1. PICK n \in Nat : n = Len(Files)
    BY FilesFacts
  <1>2. \A i \in 1 .. n : len[Files[i]] \in 0 .. MaxData
    <2>1. \A i \in 1 .. n : len[Files[i]] \in {0, MaxData}
      BY <1>1, FilesFacts
    <2> QED
      BY <2>1, VolumeAssumption
  <1> DEFINE Nx(i, d) == WithFile(d, Files[i], len[Files[i]])
             A == Volumes
             step == [i \in 1 .. n |-> [d \in A |-> IF Nx(i, d) \in A THEN Nx(i, d) ELSE Blank]]
             Is(f) == f = [i \in 0 .. n |-> IF i = 0 THEN Blank ELSE Nx(i, f[i - 1])]
             image == CHOOSE f : Is(f)
  <1>3. Formatted(Blank, 0) /\ Blank \in A
    BY BlankSound DEF Formatted, Sound
  <1>4. \A i \in 1 .. n : \A d : Formatted(d, i - 1) =>
           /\ Formatted(Nx(i, d), i) /\ Nx(i, d) \in A
           /\ Filled(d, len, i - 1) /\ Copied(d, Files[i], len[Files[i]]) => Filled(Nx(i, d), len, i)
    <2> SUFFICES ASSUME NEW i \in 1 .. n, NEW d, Formatted(d, i - 1)
                 PROVE  /\ Formatted(Nx(i, d), i) /\ Nx(i, d) \in A
                        /\ Filled(d, len, i - 1) /\ Copied(d, Files[i], len[Files[i]]) => Filled(Nx(i, d), len, i)
      OBVIOUS
    <2>1. PICK z \in 0 .. MaxData : z = len[Files[i]]
      BY <1>2
    <2>2. /\ Formatted(WithFile(d, Files[i], z), i)
          /\ Filled(d, len, i - 1) /\ Copied(d, Files[i], z) => Filled(WithFile(d, Files[i], z), len, i)
      BY <1>1, <2>1, FormatsOne
    <2>3. /\ Formatted(Nx(i, d), i)
          /\ Filled(d, len, i - 1) /\ Copied(d, Files[i], len[Files[i]]) => Filled(Nx(i, d), len, i)
      BY <2>1, <2>2
    <2> HIDE DEF Nx
    <2>4. Nx(i, d) \in A
      BY <2>3 DEF Formatted, Sound
    <2> QED
      BY <2>3, <2>4
  <1> HIDE DEF Nx
  <1>5. \A i \in 1 .. n : step[i] \in [A -> A]
    BY <1>3
  <1>6. PICK g : IsIteration(g, n, A, Blank, step)
    <2> HIDE DEF A, step
    <2> QED
      BY <1>3, <1>5, IterationExists
  <1>7. /\ g = [i \in 0 .. n |-> IF i = 0 THEN Blank ELSE step[i][g[i - 1]]]
        /\ \A i \in 1 .. n : g[i - 1] \in A
    <2> HIDE DEF A, step
    <2> QED
      BY <1>6, IterationRecurs
  <1>8. \A i \in 1 .. n : step[i][g[i - 1]] = IF Nx(i, g[i - 1]) \in A THEN Nx(i, g[i - 1]) ELSE Blank
    BY <1>7
  <1> HIDE DEF step, A
  <1>9. \A i \in 0 .. n : Formatted(g[i], i)
    <2> DEFINE S == {i \in 0 .. n : Formatted(g[i], i)}
    <2>1. 0 \in S
      <3>1. g[0] = Blank
        BY <1>7
      <3> QED
        BY <1>3, <3>1
    <2>2. ASSUME NEW i \in 0 .. (n - 1), i \in S PROVE i + 1 \in S
      <3>1. i + 1 \in 1 .. n /\ i + 1 \in 0 .. n /\ (i + 1) - 1 = i /\ i + 1 # 0
        OBVIOUS
      <3>2. g[i + 1] = step[i + 1][g[i]]
        BY <1>7, <3>1
      <3>3. Formatted(Nx(i + 1, g[i]), i + 1) /\ Nx(i + 1, g[i]) \in A
        BY <1>4, <2>2, <3>1
      <3>4. g[i + 1] = Nx(i + 1, g[i])
        BY <1>8, <3>1, <3>2, <3>3
      <3> QED
        BY <3>1, <3>3, <3>4
    <2> HIDE DEF S
    <2>3. \A i \in 0 .. n : i \in S
      BY <2>1, <2>2, UpTo
    <2> QED
      BY <2>3 DEF S
  <1>10. \A i \in 1 .. n : step[i][g[i - 1]] = Nx(i, g[i - 1])
    <2>1. ASSUME NEW i \in 1 .. n PROVE Nx(i, g[i - 1]) \in A
      <3>1. i - 1 \in 0 .. n
        OBVIOUS
      <3> QED
        BY <1>4, <1>9, <3>1
    <2> QED
      BY <1>8, <2>1
  <1>11. Is(g)
    <2>1. \A i \in 0 .. n : (IF i = 0 THEN Blank ELSE step[i][g[i - 1]]) = IF i = 0 THEN Blank ELSE Nx(i, g[i - 1])
      <3>1. \A i \in 0 .. n : i # 0 => i \in 1 .. n
        OBVIOUS
      <3> QED
        BY <1>10, <3>1
    <2>2. g = [i \in 0 .. n |-> IF i = 0 THEN Blank ELSE Nx(i, g[i - 1])]
      BY <1>7, <2>1
    <2> QED
      BY <2>2, Zenon
  <1>12. Is(image)
    <2> HIDE DEF Is
    <2> QED
      BY <1>11
  <1> HIDE DEF image
  <1>13. image[0] = Blank /\ \A i \in 1 .. n : image[i] = Nx(i, image[i - 1])
    BY <1>12
  <1>14. \A i \in 0 .. n : ImageWith(len, i) = image[i]
    BY <1>1 DEF ImageWith, image, Is, Nx, Blank
  <1>15. \A i \in 1 .. n : Copied(image[i - 1], Files[i], len[Files[i]])
    <2> SUFFICES ASSUME NEW i \in 1 .. n PROVE Copied(image[i - 1], Files[i], len[Files[i]])
      OBVIOUS
    <2>1. i - 1 \in 0 .. n
      OBVIOUS
    <2>2. Copied(ImageWith(len, i - 1), Files[i], len[Files[i]])
      BY <1>1 DEF HasRoom, Copied
    <2> QED
      BY <1>14, <2>1, <2>2
  <1>16. \A i \in 0 .. n : Formatted(image[i], i) /\ Filled(image[i], len, i)
    <2> DEFINE S == {i \in 0 .. n : Formatted(image[i], i) /\ Filled(image[i], len, i)}
    <2>1. 0 \in S
      <3>1. Filled(Blank, len, 0)
        BY BlankSound DEF Filled
      <3> QED
        BY <1>3, <1>13, <3>1
    <2>2. ASSUME NEW i \in 0 .. (n - 1), i \in S PROVE i + 1 \in S
      <3>1. i + 1 \in 1 .. n /\ i + 1 \in 0 .. n /\ (i + 1) - 1 = i
        OBVIOUS
      <3>2. Copied(image[i], Files[i + 1], len[Files[i + 1]])
        BY <1>15, <3>1
      <3>3. Formatted(Nx(i + 1, image[i]), i + 1) /\ Filled(Nx(i + 1, image[i]), len, i + 1)
        BY <1>4, <2>2, <3>1, <3>2
      <3> QED
        BY <1>13, <3>1, <3>3
    <2> HIDE DEF S
    <2>3. \A i \in 0 .. n : i \in S
      BY <2>1, <2>2, UpTo
    <2> QED
      BY <2>3 DEF S
  <1>17. Image(len) = image[n]
    BY <1>1, <1>14 DEF Image
  <1>18. Formatted(image[n], n) /\ Filled(image[n], len, n)
    BY <1>16
  <1> QED
    BY <1>1, <1>17, <1>18 DEF Formatted

-----------------------------------------------------------------------------
(* What the calls promise *)

\* What a call that succeeded has done to the volume.
Achieved(kind, p, v) ==
  /\ kind = "mkdir" => IsDir(v, p) /\ DirSlots(read_chain(v, EntryAt(v, p).cluster)) = {}
  /\ kind \in {"remove", "rmdir"} => ~Exists(v, p)

AllBack(v, sy) == \A q \in Paths : Back(v, sy, q)

\* While a file is written back only that file may read otherwise.
Spared(v, sy, kind, p) == \A q \in Paths : (kind = "sync" /\ q = p) \/ Back(v, sy, q)

\* Nothing is remembered of what q reads as.
Forgets(sy, q) == ~sy[q].known

\* No file but the one that is written back has the edited entry.
Harmless(v, x, j, sy, kind, p) ==
  \A q \in Paths : At(v, q, <<x, j>>) => \/ EntryOf(v, <<x, j>>).dir
                                         \/ Forgets(sy, q)
                                         \/ kind = "sync" /\ q = p

LEMMA ForgetsBack ==
  ASSUME NEW v, NEW sy, NEW q, Forgets(sy, q)
  PROVE  Back(v, sy, q)
  BY DEF Forgets, Back

LEMMA BackSame ==
  ASSUME NEW v, NEW sy, NEW s2, NEW q, s2[q] = sy[q], Back(v, sy, q)
  PROVE  Back(v, s2, q)
  BY DEF Back

LEMMA SparedStage ==
  ASSUME NEW d, Sound(d), NEW v, NEW x, NEW j, Edits(d, v, x, j), NEW sy, NEW kind, NEW p,
         Spared(d, sy, kind, p), Harmless(v, x, j, sy, kind, p)
  PROVE  Spared(v, sy, kind, p)
  <1> SUFFICES ASSUME NEW q \in Paths, ~(kind = "sync" /\ q = p) PROVE Back(v, sy, q)
    BY DEF Spared
  <1>1. Back(d, sy, q)
    BY DEF Spared
  <1>2. CASE Forgets(sy, q)
    BY <1>2, ForgetsBack
  <1>3. CASE ~Forgets(sy, q)
    <2>1. At(v, q, <<x, j>>) => EntryOf(v, <<x, j>>).dir
      BY <1>3 DEF Harmless
    <2> QED
      BY <1>1, <2>1, EditReads
  <1> QED
    BY <1>2, <1>3

\* The last stage of an operation is never in the window.
LEMMA SafeEnd ==
  ASSUME NEW d \in Volumes, NEW ws, NEW x, NEW j, NEW frees, Safe(d, ws, x, j, frees)
  PROVE  Edits(d, Run(d, ws), x, j)
  <1>1. PICK n \in Nat : n = Len(ws)
    BY LenProperties DEF Safe
  <1>2. ~Ahead(Stage(d, ws, n), ws, n)
    <2>1. (n + 1) .. n = {}
      OBVIOUS
    <2> QED
      BY <1>1, <2>1 DEF Ahead
  <1>3. n \in 0 .. Len(ws)
    BY <1>1
  <1> QED
    BY <1>1, <1>2, <1>3 DEF Safe, Run

\* Only p leads to the entry it led to.
LEMMA OnlyPath ==
  ASSUME NEW d, Sound(d), NEW v, NEW x, NEW j, Edits(d, v, x, j), NEW p \in Paths, At(d, p, <<x, j>>),
         NEW q \in Paths, At(v, q, <<x, j>>)
  PROVE  q = p /\ EntryOf(v, <<x, j>>).dir = EntryOf(d, <<x, j>>).dir
  <1>1. j \in DirSlots(read_chain(d, x))
    BY TreeIs DEF At, Edits
  <1>2. At(d, q, <<x, j>>) /\ EntryOf(v, <<x, j>>).dir = EntryOf(d, <<x, j>>).dir
    BY <1>1, EditBackHere
  <1>3. PICK s : s = <<x, j>>
    OBVIOUS
  <1>4. At(d, p, s) /\ At(d, q, s)
    BY <1>2, <1>3
  <1>5. p = q
    BY <1>4, AtUnique
  <1> QED
    BY <1>2, <1>5

\* A file that was written back reads as its data.
LEMMA SyncBack ==
  ASSUME NEW d, Sound(d), NEW v, NEW x, NEW j, NEW p \in Paths, At(d, p, <<x, j>>),
         NEW e, NEW data, NEW cut, WroteBack(d, v, x, j, e, data, cut),
         NEW sy, sy[p].data = data
  PROVE  Back(v, sy, p)
  <1> SUFFICES ASSUME Exists(v, p) PROVE Contents(v, p) = data
    BY DEF Back
  <1>1. Edits(d, v, x, j) /\ read_chain(v, x)[j] = e /\ FileData(v, e) = data
    BY DEF WroteBack
  <1>2. Sound(v)
    BY <1>1, EditSound
  <1>3. PICK s : s = <<ParentOf(v, p), SlotOf(v, p)>>
    OBVIOUS
  <1>4. At(v, p, s) /\ EntryAt(v, p) = EntryOf(v, s)
    BY <1>2, <1>3, ResolveFacts
  <1>5. s = <<x, j>>
    <2> SUFFICES ASSUME s # <<x, j>> PROVE FALSE
      OBVIOUS
    <2>1. At(d, p, s)
      BY <1>1, <1>4, EditBack
    <2>2. PICK r : r = <<x, j>>
      OBVIOUS
    <2>3. At(d, p, r)
      BY <2>2
    <2>4. r = <<ParentOf(d, p), SlotOf(d, p)>>
      BY <2>3, ResolveIs
    <2>5. s = <<ParentOf(d, p), SlotOf(d, p)>>
      BY <2>1, ResolveIs
    <2> QED
      BY <2>2, <2>4, <2>5
  <1>6. EntryAt(v, p) = e
    BY <1>1, <1>4, <1>5, TreeIs
  <1> QED
    BY <1>1, <1>6, ContentsAre

-----------------------------------------------------------------------------
(* The invariant *)

OpenHandles == [open : {TRUE}, path : Paths, cluster : Clusters \cup {0}, data : Seq(Units),
                position : 0 .. MaxData, dirty : BOOLEAN, writable : BOOLEAN]

\* The volume is consistent and every open handle has its file, where it was opened.
Good(v, hs) ==
  /\ Sound(v)
  /\ \A h \in Handles : hs[h].open => Held(v, hs[h].path, hs[h].cluster)

\* A fault that stops the operation o leaves a good volume, but between the freeing of
\* clusters and the update of the directory, with every other file as it was written back.
StagesGood(d, hs, sy, o) ==
  \A k \in 0 .. Len(o.todo) :
     \/ Good(Stage(d, o.todo, k), hs) /\ Spared(Stage(d, o.todo, k), sy, o.kind, o.path)
     \/ o.frees /\ (o.begun \/ k > 0) /\ Ahead(Stage(d, o.todo, k), o.todo, k)

\* The volume v that the operation o ends with.
EndsGood(v, sy, o) == AllBack(v, sy) /\ (o.ok => Achieved(o.kind, o.path, v))

Operation(o) ==
  /\ o = [kind |-> o.kind, path |-> o.path, todo |-> o.todo, ok |-> o.ok, frees |-> o.frees,
          begun |-> o.begun]
  /\ o.todo \in Seq(Writes) /\ o.todo # <<>>

HandlesOk(hs) ==
  /\ hs \in [Handles -> OpenHandles \cup {Closed}]
  /\ \A h \in Handles : hs[h].open => Len(hs[h].data) <= MaxData
  /\ \A g, h \in Handles : hs[g].open /\ hs[h].open /\ hs[g].path = hs[h].path => g = h

(***************************************************************************)
(* The invariant.  Every volume that the writes still to be made lead to   *)
(* is good, and not only the one on the disk: a call plans all its writes  *)
(* from the volume it finds, so this is what its action establishes and    *)
(* what each write then keeps.  So is, with the last one, what the call    *)
(* will have done when it reports success.                                 *)
(***************************************************************************)
FatInv ==
  /\ disk \in Volumes
  /\ HandlesOk(handle)
  /\ torn \in BOOLEAN
  /\ DOMAIN synced = Paths
  /\ op # Idle => /\ Operation(op) /\ ~torn /\ StagesGood(disk, handle, synced, op)
                  /\ EndsGood(Run(disk, op.todo), synced, op)
  /\ op = Idle /\ ~torn => Good(disk, handle) /\ AllBack(disk, synced)

LEMMA HandleFacts ==
  ASSUME NEW hs, HandlesOk(hs), NEW h \in Handles, hs[h].open
  PROVE  /\ hs[h] \in OpenHandles /\ hs[h].path \in Paths /\ hs[h].cluster \in Clusters \cup {0}
         /\ hs[h].data \in Seq(Units) /\ hs[h].position \in 0 .. MaxData /\ Len(hs[h].data) <= MaxData
  <1>1. hs[h] \in OpenHandles
    BY DEF HandlesOk, Closed
  <1>2. Len(hs[h].data) <= MaxData
    BY DEF HandlesOk
  <1> QED
    BY <1>1, <1>2 DEF OpenHandles

\* The formatter's files read as it wrote them.
LEMMA ImageBack ==
  ASSUME NEW d, Sound(d), NEW len, Filled(d, len, Len(Files)), NEW sy,
         sy = [p \in Paths |-> IF Len(p) = 1 /\ p[1] \in Range(Files)
                               THEN [known |-> TRUE, data |-> [i \in 1 .. len[p[1]] |-> Data(p, i)]]
                               ELSE Unknown]
  PROVE  AllBack(d, sy)
  <1> SUFFICES ASSUME NEW q \in Paths PROVE Back(d, sy, q)
    BY DEF AllBack
  <1>1. CASE ~(Len(q) = 1 /\ q[1] \in Range(Files))
    <2>1. sy[q] = Unknown
      BY <1>1
    <2> QED
      BY <2>1, ForgetsBack DEF Forgets, Unknown
  <1>2. CASE Len(q) = 1 /\ q[1] \in Range(Files)
    <2>1. sy[q].data = [i \in 1 .. len[q[1]] |-> Data(q, i)]
      BY <1>2
    <2>2. q \in Seq(Names) /\ q = <<q[1]>> /\ Last(q) = q[1]
      <3>1. q \in Seq(Names) /\ Len(q) = 1
        BY <1>2, VolumeAssumption
      <3>2. q = <<q[1]>>
        BY <3>1
      <3> QED
        BY <3>1, <3>2 DEF Last
    <2>3. ASSUME Exists(d, q) PROVE Contents(d, q) = sy[q].data
      <3>1. PICK e, k : e = EntryAt(d, q) /\ k = SlotOf(d, q)
        OBVIOUS
      <3>2. ParentOf(d, q) = Root
        BY <1>2 DEF ParentOf
      <3>3. k \in DirSlots(read_chain(d, Root)) /\ e = read_chain(d, Root)[k] /\ e.name = Last(q)
        BY <2>3, <3>1, <3>2, ResolveFacts, ZenonT(60) DEF At
      <3>4. PICK a \in 1 .. Len(Files) : Holds(d, e, Files[a], len[Files[a]])
        BY <3>3 DEF Filled
      <3>5. Files[a] = q[1]
        BY <2>2, <3>3, <3>4 DEF Holds
      <3>6. FileData(d, e) = [i \in 1 .. len[q[1]] |-> Data(<<q[1]>>, i)]
        BY <3>4, <3>5 DEF Holds
      <3>7. Contents(d, q) = FileData(d, e)
        BY <3>1, ContentsAre
      <3> QED
        BY <2>1, <2>2, <3>6, <3>7
    <2> QED
      BY <2>3 DEF Back
  <1> QED
    BY <1>1, <1>2

LEMMA FatInit == Init => FatInv
  <1> SUFFICES ASSUME Init PROVE FatInv
    OBVIOUS
  <1>1. PICK len \in [Range(Files) -> {0, MaxData}] :
           /\ HasRoom(len) /\ disk = Image(len)
           /\ synced = [p \in Paths |-> IF Len(p) = 1 /\ p[1] \in Range(Files)
                                        THEN [known |-> TRUE, data |-> [i \in 1 .. len[p[1]] |-> Data(p, i)]]
                                        ELSE Unknown]
    BY DEF Init
  <1>2. Sound(disk) /\ Filled(disk, len, Len(Files))
    BY <1>1, ImageSound
  <1>3. handle = [h \in Handles |-> Closed] /\ op = Idle /\ torn = FALSE
    BY DEF Init
  <1>4. \A h \in Handles : handle[h] = Closed /\ ~handle[h].open
    BY <1>3 DEF Closed
  <1>5. HandlesOk(handle)
    BY <1>3, <1>4 DEF HandlesOk
  <1>6. Good(disk, handle) /\ disk \in Volumes
    BY <1>2, <1>4 DEF Good, Sound
  <1>7. AllBack(disk, synced)
    BY <1>1, <1>2, ImageBack
  <1>8. DOMAIN synced = Paths
    BY <1>1
  <1> QED
    BY <1>3, <1>5, <1>6, <1>7, <1>8 DEF FatInv

\* The volume on the disk is good, unless a fault would tear it right now.
LEMMA GoodNow ==
  ASSUME FatInv, ~torn, ~InWindow
  PROVE  Good(disk, handle) /\ Spared(disk, synced, op.kind, op.path)
  <1>1. CASE op = Idle
    BY <1>1 DEF FatInv, AllBack, Spared
  <1>2. CASE op # Idle
    <2>1. op.todo \in Seq(Writes) /\ StagesGood(disk, handle, synced, op) /\ disk \in Volumes
      BY <1>2 DEF FatInv, Operation
    <2>2. PICK l \in Nat : l = Len(op.todo) /\ DOMAIN op.todo = 1 .. l
      BY <2>1, LenProperties
    <2>3. Stage(disk, op.todo, 0) = disk
      BY <2>1, StageFacts
    <2>4. \/ Good(disk, handle) /\ Spared(disk, synced, op.kind, op.path)
          \/ op.frees /\ (op.begun \/ 0 > 0) /\ Ahead(disk, op.todo, 0)
      <3>1. 0 \in 0 .. Len(op.todo)
        BY <2>2
      <3> QED
        BY <2>1, <2>3, <3>1 DEF StagesGood
    <2>5. Ahead(disk, op.todo, 0) => \E i \in DOMAIN op.todo : op.todo[i].what = "units" /\ Apply(disk, op.todo[i]) # disk
      <3>1. (0 + 1) .. Len(op.todo) = DOMAIN op.todo
        BY <2>2
      <3> QED
        BY <3>1 DEF Ahead
    <2> QED
      BY <2>4, <2>5 DEF InWindow
  <1> QED
    BY <1>1, <1>2

LEMMA FatInvTypeOK == FatInv => TypeOK
  <1> SUFFICES ASSUME FatInv PROVE TypeOK
    OBVIOUS
  <1>1. \A c \in Clusters : /\ disk.fat[c] \in {FREE, EOC} \cup Clusters
                            /\ DOMAIN disk.units[c] = 1 .. K
                            /\ \A k \in 1 .. K : disk.units[c][k] \in Units
    BY DEF FatInv, Volumes, FatValues, Contained
  <1>2. ASSUME NEW h \in Handles, handle[h].open
        PROVE  /\ handle[h].path \in Paths
               /\ handle[h].cluster \in Clusters \cup {0}
               /\ Len(handle[h].data) <= MaxData
               /\ handle[h].position <= MaxData
    <2>1. HandlesOk(handle)
      BY DEF FatInv
    <2>2. /\ handle[h].path \in Paths
          /\ handle[h].cluster \in Clusters \cup {0}
          /\ Len(handle[h].data) <= MaxData
          /\ handle[h].position \in 0 .. MaxData
      BY <1>2, <2>1, HandleFacts
    <2> QED
      BY <2>2, VolumeAssumption
  <1>3. op # Idle => op.todo # <<>>
    BY DEF FatInv, Operation
  <1>4. torn \in BOOLEAN
    BY DEF FatInv
  <1> QED
    BY <1>1, <1>2, <1>3, <1>4 DEF TypeOK

LEMMA FatInvConsistent == FatInv => OnDiskConsistent
  <1> SUFFICES ASSUME FatInv, ~torn, ~InWindow PROVE Consistent(disk)
    BY DEF OnDiskConsistent
  <1>1. Good(disk, handle)
    BY GoodNow
  <1> QED
    BY <1>1, SoundIsConsistent DEF Good

\* The files of the open handles are not the entry in slot j of x.
Apart(d, hs, x, j) ==
  \A h \in Handles : hs[h].open =>
     \E s : At(d, hs[h].path, s) /\ s # <<x, j>> /\ ~EntryOf(d, s).dir /\ First(d, s) = hs[h].cluster

LEMMA ApartGood ==
  ASSUME NEW d, Sound(d), NEW hs, NEW x, NEW j, Apart(d, hs, x, j)
  PROVE  /\ Good(d, hs)
         /\ \A v : Edits(d, v, x, j) => Good(v, hs)
  <1>1. Good(d, hs)
    BY DEF Good, Apart, Held, At
  <1>2. ASSUME NEW v, Edits(d, v, x, j) PROVE Good(v, hs)
    <2>1. Sound(v)
      BY <1>2, EditSound
    <2>2. ASSUME NEW h \in Handles, hs[h].open PROVE Held(v, hs[h].path, hs[h].cluster)
      <3>1. PICK s : At(d, hs[h].path, s) /\ s # <<x, j>> /\ ~EntryOf(d, s).dir /\ First(d, s) = hs[h].cluster
        BY <2>2 DEF Apart
      <3> QED
        BY <1>2, <3>1, EditHeld
    <2> QED
      BY <2>1, <2>2 DEF Good
  <1> QED
    BY <1>1, <1>2

\* A call starts the writes of an edit of slot j of x.
Begins(kind, p, todo, okay, frees, x, j) ==
  /\ Start(kind, p, todo, okay, frees)
  /\ HandlesOk(handle') /\ DOMAIN synced' = Paths
  /\ Apart(disk, handle', x, j) /\ Safe(disk, todo, x, j, frees)
  /\ Spared(disk, synced', kind, p)
  /\ \A k \in 0 .. Len(todo) :
        Edits(disk, Stage(disk, todo, k), x, j) => Harmless(Stage(disk, todo, k), x, j, synced', kind, p)
  /\ kind = "sync" => Back(Run(disk, todo), synced', p)
  /\ okay => Achieved(kind, p, Run(disk, todo))

LEMMA StartInv ==
  ASSUME FatInv, Enter, NEW kind, NEW p, NEW todo, NEW okay, NEW frees, NEW x, NEW j,
         Begins(kind, p, todo, okay, frees, x, j)
  PROVE  FatInv'
  <1>0. /\ Start(kind, p, todo, okay, frees) /\ HandlesOk(handle') /\ DOMAIN synced' = Paths
        /\ Apart(disk, handle', x, j) /\ Safe(disk, todo, x, j, frees)
    BY DEF Begins
  <1>1. disk \in Volumes /\ ~torn /\ torn \in BOOLEAN /\ Sound(disk)
    BY DEF FatInv, Enter, Good
  <1>2. disk' = disk /\ torn' = torn
    BY <1>0 DEF Start
  <1>3. todo \in Seq(Writes) /\ Len(todo) \in 0 .. Len(todo)
    BY <1>0, LenProperties DEF Safe
  <1>4. \A k \in 0 .. Len(todo) :
           Edits(disk, Stage(disk, todo, k), x, j) => Spared(Stage(disk, todo, k), synced', kind, p)
    BY <1>1, SparedStage DEF Begins
  <1>5. AllBack(Run(disk, todo), synced')
    <2>1. Edits(disk, Run(disk, todo), x, j)
      BY <1>0, <1>1, SafeEnd
    <2>2. Spared(Run(disk, todo), synced', kind, p)
      BY <1>3, <1>4, <2>1 DEF Run
    <2>3. kind = "sync" => Back(Run(disk, todo), synced', p)
      BY DEF Begins
    <2> QED
      BY <2>2, <2>3 DEF Spared, AllBack
  <1>6. CASE todo = <<>>
    <2>1. op' = Idle
      BY <1>0, <1>6 DEF Start
    <2>2. Good(disk, handle')
      BY <1>0, <1>1, ApartGood
    <2>3. Run(disk, todo) = disk
      <3>1. Len(todo) = 0
        BY <1>6, EmptySeq
      <3> QED
        BY <1>1, <1>3, <3>1, StageFacts DEF Run
    <2>4. AllBack(disk, synced')
      BY <1>5, <2>3
    <2> QED
      BY <1>0, <1>1, <1>2, <2>1, <2>2, <2>4 DEF FatInv
  <1>7. CASE todo # <<>>
    <2>1. op' = [kind |-> kind, path |-> p, todo |-> todo, ok |-> okay, frees |-> frees, begun |-> FALSE]
      BY <1>0, <1>7 DEF Start
    <2>2. /\ op'.todo = todo /\ op'.frees = frees /\ op'.begun = FALSE
          /\ op'.kind = kind /\ op'.path = p /\ op'.ok = okay
      BY <2>1
    <2>3. Operation(op')
      BY <1>3, <1>7, <2>1 DEF Operation
    <2>4. op' # Idle
      BY <1>7, <2>2 DEF Idle
    <2>5. StagesGood(disk, handle', synced', op')
      <3> SUFFICES ASSUME NEW k \in 0 .. Len(todo)
                   PROVE  \/ Good(Stage(disk, todo, k), handle') /\ Spared(Stage(disk, todo, k), synced', kind, p)
                          \/ frees /\ k > 0 /\ Ahead(Stage(disk, todo, k), todo, k)
        BY <2>2 DEF StagesGood
      <3>1. \/ Edits(disk, Stage(disk, todo, k), x, j)
            \/ frees /\ k > 0 /\ Ahead(Stage(disk, todo, k), todo, k)
        BY <1>0 DEF Safe
      <3> QED
        BY <1>0, <1>1, <1>4, <3>1, ApartGood
    <2>6. EndsGood(Run(disk, op'.todo), synced', op')
      <3>1. okay => Achieved(kind, p, Run(disk, todo))
        BY DEF Begins
      <3> QED
        BY <1>5, <2>2, <3>1 DEF EndsGood
    <2> QED
      BY <1>0, <1>1, <1>2, <2>3, <2>4, <2>5, <2>6 DEF FatInv
  <1> QED
    BY <1>6, <1>7

\* A call that only changes handles.
LEMMA HandleInv ==
  ASSUME FatInv, Enter, UNCHANGED <<disk, op, synced, torn>>, HandlesOk(handle'), Good(disk, handle')
  PROVE  FatInv'
  BY DEF FatInv, Enter

LEMMA RefuseInv ==
  ASSUME FatInv, NEW e, Refuse(e)
  PROVE  FatInv'
  BY DEF FatInv, Refuse

LEMMA Enters ==
  ASSUME FatInv, Enter
  PROVE  /\ Sound(disk) /\ Good(disk, handle) /\ HandlesOk(handle) /\ disk \in Volumes
         /\ AllBack(disk, synced) /\ DOMAIN synced = Paths
  BY DEF FatInv, Enter, Good

\* The entry an open handle has, and that no other handle has.
LEMMA HeldAt ==
  ASSUME NEW d, NEW hs, Good(d, hs), NEW h \in Handles, hs[h].open
  PROVE  \E s : At(d, hs[h].path, s) /\ ~EntryOf(d, s).dir /\ First(d, s) = hs[h].cluster
  BY DEF Good, Held

\* Whatever happened to the memory of other files, all of them read as before.
LEMMA SparedNow ==
  ASSUME NEW v, NEW sy, AllBack(v, sy), NEW s2, NEW kind, NEW p,
         \A q \in Paths : s2[q] = sy[q] \/ Forgets(s2, q) \/ (kind = "sync" /\ q = p)
  PROVE  Spared(v, s2, kind, p)
  <1> SUFFICES ASSUME NEW q \in Paths, ~(kind = "sync" /\ q = p) PROVE Back(v, s2, q)
    BY DEF Spared
  <1>1. CASE Forgets(s2, q)
    BY <1>1, ForgetsBack
  <1>2. CASE s2[q] = sy[q]
    BY <1>2, BackSame DEF AllBack
  <1> QED
    BY <1>1, <1>2

\* mkdir starts an edit that adds an entry, and loses no cluster if it succeeds.
LEMMA mkdir_begins ==
  ASSUME FatInv, NEW p \in Paths, mkdir(p), ~\E e : Refuse(e)
  PROVE  \E todo, okay, frees, x, j : /\ Begins("mkdir", p, todo, okay, frees, x, j)
                                      /\ okay => Lost(Run(disk, todo)) = Lost(disk)
  <1>1. Enter /\ ParentOf(disk, p) # 0 /\ ~Exists(disk, p) /\ FreeClusters(disk.fat) # <<>>
        /\ handle' = handle /\ synced' = synced
    BY DEF mkdir
  <1>2. /\ Sound(disk) /\ Good(disk, handle) /\ HandlesOk(handle) /\ disk \in Volumes
        /\ AllBack(disk, synced) /\ DOMAIN synced = Paths
    BY <1>1, Enters
  <1>3. PICK x, n, c : x = ParentOf(disk, p) /\ n = Last(p) /\ c = Head(FreeClusters(disk.fat))
    OBVIOUS
  <1>4. x \in Dirs(disk) /\ n \in Names /\ x # 0
    BY <1>1, <1>2, <1>3, ParentFacts, PathFacts
  <1>5. c \in Clusters /\ disk.fat[c] = FREE
    <2>1. PICK s : s = FreeClusters(disk.fat)
      OBVIOUS
    <2>2. s \in Seq(Clusters) /\ \A i \in 1 .. Len(s) : disk.fat[s[i]] = FREE
      BY <2>1, FreeFacts
    <2>3. Len(s) \in Nat /\ Len(s) # 0
      BY <1>1, <2>1, <2>2, LenProperties, EmptySeq
    <2>4. 1 \in 1 .. Len(s) /\ s[1] \in Clusters
      BY <2>2, <2>3, ElementOfSeq
    <2>5. Head(s) = s[1]
      BY <2>2, <2>3
    <2> QED
      BY <1>3, <2>1, <2>2, <2>4, <2>5
  <1>6. \A i \in DirSlots(read_chain(disk, x)) : read_chain(disk, x)[i].name # n
    <2>1. FindIn(read_chain(disk, x), n) = 0
      BY <1>1, <1>3 DEF Exists, SlotOf
    <2>2. read_chain(disk, x) \in Seq(Units)
      BY <1>2, <1>4, SoundDirs
    <2> QED
      BY <2>1, <2>2, FindFacts
  <1>7. PICK link : link = add_dir_entry(Run(disk, NewDir(c)), x, Entry(n, TRUE, c, 0))
    OBVIOUS
  <1>8. PICK todo, okay : todo = NewDir(c) \o link.todo /\ okay = link.ok
    OBVIOUS
  <1>9. PICK j : /\ j \notin DirSlots(read_chain(disk, x))
                 /\ Safe(disk, todo, x, j, FALSE)
                 /\ \A k \in 0 .. Len(todo) : NewDirAt(disk, Stage(disk, todo, k), x, j)
                 /\ okay => MadeDir(disk, Run(disk, todo), x, j, n)
    BY <1>2, <1>4, <1>5, <1>6, <1>7, <1>8, MkdirSafe
  <1>10. Start("mkdir", p, todo, okay, FALSE)
    BY <1>3, <1>7, <1>8 DEF mkdir, NewDir, Dots
  <1>11. Apart(disk, handle', x, j)
    <2>1. <<x, j>> \notin TreeSlots(disk)
      BY <1>4, <1>9, TreeIs
    <2>2. ASSUME NEW h \in Handles, handle[h].open
          PROVE  \E s : At(disk, handle[h].path, s) /\ s # <<x, j>> /\ ~EntryOf(disk, s).dir
                        /\ First(disk, s) = handle[h].cluster
      <3>1. PICK s : At(disk, handle[h].path, s) /\ ~EntryOf(disk, s).dir /\ First(disk, s) = handle[h].cluster
        BY <1>2, <2>2, HeldAt
      <3>2. s # <<x, j>>
        BY <2>1, <3>1 DEF At
      <3> QED
        BY <3>1, <3>2
    <2> QED
      BY <1>1, <2>2 DEF Apart
  <1>12. Spared(disk, synced', "mkdir", p)
    BY <1>1, <1>2 DEF Spared, AllBack
  <1>13. ASSUME NEW k \in 0 .. Len(todo), Edits(disk, Stage(disk, todo, k), x, j)
         PROVE  Harmless(Stage(disk, todo, k), x, j, synced', "mkdir", p)
    <2>1. PICK v : v = Stage(disk, todo, k)
      OBVIOUS
    <2>2. NewDirAt(disk, v, x, j) /\ x \in Dirs(v)
      BY <1>2, <1>9, <1>13, <2>1, EditTree
    <2>3. \A q \in Paths : At(v, q, <<x, j>>) => EntryOf(v, <<x, j>>).dir
      BY <2>2, TreeIs DEF At, NewDirAt
    <2> QED
      BY <2>1, <2>3 DEF Harmless
  <1>14. ASSUME okay PROVE Achieved("mkdir", p, Run(disk, todo)) /\ Lost(Run(disk, todo)) = Lost(disk)
    <2>1. PICK v : v = Run(disk, todo)
      OBVIOUS
    <2>2. /\ Edits(disk, v, x, j) /\ j \in DirSlots(read_chain(v, x))
          /\ read_chain(v, x)[j].name = Last(p) /\ read_chain(v, x)[j].dir
          /\ Lost(v) = Lost(disk)
      BY <1>3, <1>9, <1>14, <2>1 DEF MadeDir
    <2>3. IsDir(v, p) /\ DirSlots(read_chain(v, EntryAt(v, p).cluster)) = {}
      BY <1>2, <1>3, <1>4, <1>9, <2>2, EditMade
    <2> QED
      BY <2>1, <2>2, <2>3 DEF Achieved
  <1>15. Begins("mkdir", p, todo, okay, FALSE, x, j)
    BY <1>1, <1>2, <1>9, <1>10, <1>11, <1>12, <1>13, <1>14 DEF Begins
  <1>16. okay => Lost(Run(disk, todo)) = Lost(disk)
    BY <1>14
  <1>17. PICK frees : frees = FALSE
    OBVIOUS
  <1>18. Begins("mkdir", p, todo, okay, frees, x, j)
    BY <1>15, <1>17, Zenon
  <1> QED
    BY <1>16, <1>18, Zenon

LEMMA mkdir_inv ==
  ASSUME FatInv, NEW p \in Paths, mkdir(p)
  PROVE  FatInv'
  <1>1. CASE \E e : Refuse(e)
    BY <1>1, RefuseInv
  <1>2. CASE ~\E e : Refuse(e)
    <2>1. Enter
      BY DEF mkdir
    <2> QED
      BY <1>2, <2>1, mkdir_begins, StartInv
  <1> QED
    BY <1>1, <1>2

\* Handles on other paths are not on the entry of p.
LEMMA OthersApart ==
  ASSUME NEW d, NEW hs, NEW gs, Good(d, hs), HandlesOk(hs), NEW p \in Paths, Exists(d, p),
         \A h \in Handles : gs[h].open => gs[h] = hs[h] /\ hs[h].path # p
  PROVE  Apart(d, gs, ParentOf(d, p), SlotOf(d, p))
  <1>1. PICK r : r = <<ParentOf(d, p), SlotOf(d, p)>>
    OBVIOUS
  <1>2. Sound(d)
    BY DEF Good
  <1>3. At(d, p, r)
    BY <1>1, <1>2, ResolveFacts
  <1>4. ASSUME NEW h \in Handles, gs[h].open
        PROVE  \E s : At(d, gs[h].path, s) /\ s # r /\ ~EntryOf(d, s).dir /\ First(d, s) = gs[h].cluster
    <2>1. gs[h] = hs[h] /\ hs[h].path # p /\ hs[h].open
      BY <1>4
    <2>2. PICK s : At(d, hs[h].path, s) /\ ~EntryOf(d, s).dir /\ First(d, s) = hs[h].cluster
      BY <2>1, HeldAt
    <2>3. hs[h].path \in Paths
      BY <2>1, HandleFacts
    <2>4. s # r
      BY <1>2, <1>3, <2>1, <2>2, <2>3, AtUnique
    <2> QED
      BY <2>1, <2>2, <2>4
  <1> QED
    BY <1>1, <1>4 DEF Apart

\* remove starts an edit that takes the entry away, and loses no cluster if it succeeds.
LEMMA remove_begins ==
  ASSUME FatInv, NEW p \in Paths, remove(p), ~\E e : Refuse(e)
  PROVE  \E todo, okay, frees, x, j : /\ Begins("remove", p, todo, okay, frees, x, j)
                                      /\ okay => Lost(Run(disk, todo)) = Lost(disk)
  <1>1. /\ Enter /\ Unused(p) /\ Exists(disk, p) /\ ~IsDir(disk, p) /\ handle' = handle
        /\ synced' = [synced EXCEPT ![p] = Unknown]
    BY DEF remove
  <1>2. /\ Sound(disk) /\ Good(disk, handle) /\ HandlesOk(handle) /\ disk \in Volumes
        /\ AllBack(disk, synced) /\ DOMAIN synced = Paths
    BY <1>1, Enters
  <1>3. PICK x, j : x = ParentOf(disk, p) /\ j = SlotOf(disk, p)
    OBVIOUS
  <1>4. /\ x \in Dirs(disk) /\ j \in DirSlots(read_chain(disk, x))
        /\ EntryAt(disk, p) = read_chain(disk, x)[j] /\ At(disk, p, <<x, j>>)
    BY <1>1, <1>2, <1>3, ResolveFacts
  <1>5. Vacant(disk, x, j)
    BY <1>1, <1>4 DEF Vacant, IsDir
  <1>6. PICK free : free = free_chain(disk.fat, read_chain(disk, x)[j].cluster)
    OBVIOUS
  <1>7. PICK todo, okay, frees : /\ todo = free \o remove_dir_entry(Run(disk, free), x, j).todo
                                 /\ okay = remove_dir_entry(Run(disk, free), x, j).ok
                                 /\ frees = (free # <<>>)
    OBVIOUS
  <1>8. /\ Safe(disk, todo, x, j, free # <<>>)
        /\ Edits(disk, Run(disk, todo), x, j) /\ j \notin DirSlots(read_chain(Run(disk, todo), x))
        /\ Lost(Run(disk, todo)) = Lost(disk)
    BY <1>2, <1>4, <1>5, <1>6, <1>7, RemoveSafe
  <1>9. Start("remove", p, todo, okay, free # <<>>)
    BY <1>3, <1>4, <1>6, <1>7 DEF remove
  <1>10. Apart(disk, handle, x, j)
    <2>1. \A h \in Handles : handle[h].open => handle[h] = handle[h] /\ handle[h].path # p
      BY <1>1 DEF Unused
    <2> QED
      BY <1>1, <1>2, <1>3, <2>1, OthersApart
  <1>11. /\ DOMAIN synced' = Paths /\ Forgets(synced', p)
         /\ \A q \in Paths : q # p => synced'[q] = synced[q]
    BY <1>1, <1>2 DEF Forgets, Unknown
  <1>12. Spared(disk, synced', "remove", p)
    <2>1. \A q \in Paths : synced'[q] = synced[q] \/ Forgets(synced', q) \/ ("remove" = "sync" /\ q = p)
      BY <1>11
    <2> QED
      BY <1>2, <2>1, SparedNow
  <1>13. ASSUME NEW k \in 0 .. Len(todo), Edits(disk, Stage(disk, todo, k), x, j)
         PROVE  Harmless(Stage(disk, todo, k), x, j, synced', "remove", p)
    BY <1>2, <1>4, <1>11, <1>13, OnlyPath DEF Harmless
  <1>14. ~Exists(Run(disk, todo), p)
    BY <1>2, <1>4, <1>8, EditGone
  <1>15. Begins("remove", p, todo, okay, free # <<>>, x, j)
    BY <1>1, <1>2, <1>8, <1>9, <1>10, <1>11, <1>12, <1>13, <1>14 DEF Begins, Achieved
  <1> QED
    BY <1>8, <1>15

LEMMA remove_inv ==
  ASSUME FatInv, NEW p \in Paths, remove(p)
  PROVE  FatInv'
  <1>1. CASE \E e : Refuse(e)
    BY <1>1, RefuseInv
  <1>2. CASE ~\E e : Refuse(e)
    <2>1. Enter
      BY DEF remove
    <2> QED
      BY <1>2, <2>1, remove_begins, StartInv
  <1> QED
    BY <1>1, <1>2

LEMMA rmdir_begins ==
  ASSUME FatInv, NEW p \in Paths, rmdir(p), ~\E e : Refuse(e)
  PROVE  \E todo, okay, frees, x, j : /\ Begins("rmdir", p, todo, okay, frees, x, j)
                                      /\ okay => Lost(Run(disk, todo)) = Lost(disk)
  <1>1. /\ Enter /\ IsDir(disk, p) /\ handle' = handle /\ synced' = synced
        /\ DirSlots(read_chain(disk, EntryAt(disk, p).cluster)) = {}
    BY DEF rmdir
  <1>2. /\ Sound(disk) /\ Good(disk, handle) /\ HandlesOk(handle) /\ disk \in Volumes
        /\ AllBack(disk, synced) /\ DOMAIN synced = Paths
    BY <1>1, Enters
  <1>3. PICK x, j : x = ParentOf(disk, p) /\ j = SlotOf(disk, p)
    OBVIOUS
  <1>4. /\ x \in Dirs(disk) /\ j \in DirSlots(read_chain(disk, x)) /\ At(disk, p, <<x, j>>)
        /\ EntryAt(disk, p) = read_chain(disk, x)[j] /\ EntryAt(disk, p) = EntryOf(disk, <<x, j>>)
    BY <1>1, <1>2, <1>3, ResolveFacts DEF IsDir
  <1>5. Vacant(disk, x, j) /\ EntryOf(disk, <<x, j>>).dir
    BY <1>1, <1>4 DEF Vacant, IsDir
  <1>6. PICK free : free = free_chain(disk.fat, read_chain(disk, x)[j].cluster)
    OBVIOUS
  <1>7. PICK todo, okay : /\ todo = free \o remove_dir_entry(Run(disk, free), x, j).todo
                          /\ okay = remove_dir_entry(Run(disk, free), x, j).ok
    OBVIOUS
  <1>8. /\ Safe(disk, todo, x, j, free # <<>>)
        /\ Edits(disk, Run(disk, todo), x, j) /\ j \notin DirSlots(read_chain(Run(disk, todo), x))
        /\ Lost(Run(disk, todo)) = Lost(disk)
    BY <1>2, <1>4, <1>5, <1>6, <1>7, RemoveSafe
  <1>9. Start("rmdir", p, todo, okay, free # <<>>)
    BY <1>3, <1>4, <1>6, <1>7 DEF rmdir
  <1>10. Apart(disk, handle, x, j)
    <2> SUFFICES ASSUME NEW h \in Handles, handle[h].open
                 PROVE  \E s : At(disk, handle[h].path, s) /\ s # <<x, j>> /\ ~EntryOf(disk, s).dir
                               /\ First(disk, s) = handle[h].cluster
      BY DEF Apart
    <2>1. PICK s : At(disk, handle[h].path, s) /\ ~EntryOf(disk, s).dir /\ First(disk, s) = handle[h].cluster
      BY <1>2, HeldAt
    <2>2. s # <<x, j>>
      BY <1>5, <2>1
    <2> QED
      BY <2>1, <2>2
  <1>11. Spared(disk, synced', "rmdir", p)
    BY <1>1, <1>2 DEF Spared, AllBack
  <1>12. ASSUME NEW k \in 0 .. Len(todo), Edits(disk, Stage(disk, todo, k), x, j)
         PROVE  Harmless(Stage(disk, todo, k), x, j, synced', "rmdir", p)
    BY <1>2, <1>4, <1>5, <1>12, OnlyPath DEF Harmless
  <1>13. ~Exists(Run(disk, todo), p)
    BY <1>2, <1>4, <1>8, EditGone
  <1>14. Begins("rmdir", p, todo, okay, free # <<>>, x, j)
    BY <1>1, <1>2, <1>8, <1>9, <1>10, <1>11, <1>12, <1>13 DEF Begins, Achieved
  <1> QED
    BY <1>8, <1>14

LEMMA rmdir_inv ==
  ASSUME FatInv, NEW p \in Paths, rmdir(p)
  PROVE  FatInv'
  <1>1. CASE \E e : Refuse(e)
    BY <1>1, RefuseInv
  <1>2. CASE ~\E e : Refuse(e)
    <2>1. Enter
      BY DEF rmdir
    <2> QED
      BY <1>2, <2>1, rmdir_begins, StartInv
  <1> QED
    BY <1>1, <1>2

\* What open reads.
LEMMA ContentsFacts ==
  ASSUME NEW d, Sound(d), NEW p \in Paths, Exists(d, p)
  PROVE  /\ Contents(d, p) \in Seq(Units) /\ Len(Contents(d, p)) \in 0 .. MaxData
         /\ EntryAt(d, p).cluster \in Clusters \cup {0}
  <1>1. PICK e, us : e = EntryAt(d, p) /\ us = read_chain(d, e.cluster)
    OBVIOUS
  <1>2. e \in Units /\ e.t = "entry"
    <2>1. PICK x, j : x = ParentOf(d, p) /\ j = SlotOf(d, p)
      OBVIOUS
    <2>2. x \in Dirs(d) /\ j \in DirSlots(read_chain(d, x)) /\ e = read_chain(d, x)[j]
      BY <1>1, <2>1, ResolveFacts
    <2>3. read_chain(d, x) \in Seq(Units)
      BY <2>2, SoundDirs
    <2>4. j \in DOMAIN read_chain(d, x) /\ e.t = "entry"
      BY <2>2 DEF DirSlots
    <2> QED
      BY <2>2, <2>3, <2>4, LenProperties, ElementOfSeq
  <1>3. e.cluster \in Clusters \cup {0} /\ e.size \in 0 .. MaxData
    BY <1>2, UnitFacts
  <1>4. us \in Seq(Units)
    <2>1. d \in Volumes
      BY DEF Sound
    <2> QED
      BY <1>1, <2>1, Reads
  <1>5. PICK l \in Nat : l = Len(us)
    BY <1>4, LenProperties
  <1>6. PICK m \in Nat : m = (IF e.size < Len(us) THEN e.size ELSE Len(us)) /\ m <= MaxData /\ m <= l
    <2>1. e.size \in Nat /\ e.size <= MaxData /\ MaxData \in Nat
      BY <1>3, VolumeAssumption
    <2> QED
      BY <1>5, <2>1
  <1>7. Contents(d, p) = SubSeq(us, 1, m)
    BY <1>1, <1>6 DEF Contents
  <1>8. SubSeq(us, 1, m) \in Seq(Units) /\ Len(SubSeq(us, 1, m)) = m
    <2>1. /\ SubSeq(us, 1, m) \in Seq(Units)
          /\ Len(SubSeq(us, 1, m)) = IF 1 <= m THEN m - 1 + 1 ELSE 0
      <3>1. 1 \in 1 .. (Len(us) + 1) /\ m \in 0 .. Len(us)
        BY <1>5, <1>6
      <3>2. \A i \in 1 .. m : us[i] \in Units
        BY <1>4, <1>5, <1>6, ElementOfSeq
      <3> QED
        BY <1>4, <3>1, <3>2, SubSeqProperties
    <2> QED
      BY <2>1
  <1> QED
    BY <1>1, <1>3, <1>6, <1>7, <1>8, VolumeAssumption

LEMMA OpenHandle ==
  ASSUME NEW p \in Paths, NEW c \in Clusters \cup {0}, NEW us \in Seq(Units), NEW z \in 0 .. MaxData,
         NEW b \in BOOLEAN, NEW w \in BOOLEAN
  PROVE  [open |-> TRUE, path |-> p, cluster |-> c, data |-> us, position |-> z, dirty |-> b,
          writable |-> w] \in OpenHandles
  BY DEF OpenHandles

LEMMA open_inv ==
  ASSUME FatInv, NEW h \in Handles, NEW p \in Paths, NEW flags \in Flags, open(h, p, flags)
  PROVE  FatInv'
  <1>1. CASE \E e : Refuse(e)
    BY <1>1, RefuseInv
  <1>2. CASE ~\E e : Refuse(e)
    <2>1. PICK q : q = [open |-> TRUE, path |-> p, cluster |-> EntryAt(disk, p).cluster,
                 data |-> IF "O_TRUNC" \in flags THEN <<>> ELSE Contents(disk, p),
                 position |-> IF "O_APPEND" \in flags THEN Len(Contents(disk, p)) ELSE 0,
                 dirty |-> "O_TRUNC" \in flags,
                 writable |-> "O_WRITE" \in flags]
      OBVIOUS
    <2>2. /\ Enter /\ ~handle[h].open /\ Unused(p) /\ Exists(disk, p) /\ ~IsDir(disk, p)
          /\ handle' = [handle EXCEPT ![h] = q] /\ UNCHANGED <<disk, op, synced, torn>>
      BY <1>2, <2>1 DEF open
    <2>3. Sound(disk) /\ Good(disk, handle) /\ HandlesOk(handle)
      BY <2>2, Enters
    <2>4. /\ Contents(disk, p) \in Seq(Units) /\ Len(Contents(disk, p)) \in 0 .. MaxData
          /\ EntryAt(disk, p).cluster \in Clusters \cup {0}
      BY <2>2, <2>3, ContentsFacts
    <2>5. q \in OpenHandles /\ Len(q.data) <= MaxData /\ q.path = p
      <3>1. q.data \in Seq(Units) /\ Len(q.data) \in 0 .. MaxData
        <4>1. <<>> \in Seq(Units) /\ Len(<<>>) = 0
          BY EmptySeq
        <4>2. CASE "O_TRUNC" \in flags
          <5>1. q.data = <<>>
            BY <2>1, <4>2
          <5> QED
            BY <4>1, <5>1, VolumeAssumption
        <4>3. CASE "O_TRUNC" \notin flags
          <5>1. q.data = Contents(disk, p)
            BY <2>1, <4>3
          <5> QED
            BY <2>4, <5>1
        <4> QED
          BY <4>2, <4>3
      <3>2. q.position \in 0 .. MaxData
        BY <2>1, <2>4, VolumeAssumption
      <3>3. q.dirty \in BOOLEAN /\ q.writable \in BOOLEAN /\ q.open = TRUE /\ q.path = p /\ q.cluster = EntryAt(disk, p).cluster
        BY <2>1
      <3>4. q = [open |-> q.open, path |-> q.path, cluster |-> q.cluster, data |-> q.data, position |-> q.position,
                 dirty |-> q.dirty, writable |-> q.writable]
        BY <2>1
      <3>5. q.cluster \in Clusters \cup {0} /\ q.path \in Paths
        BY <2>4, <3>3
      <3>6. q = [open |-> TRUE, path |-> q.path, cluster |-> q.cluster, data |-> q.data, position |-> q.position,
                 dirty |-> q.dirty, writable |-> q.writable]
        BY <3>3, <3>4
      <3>7. q \in OpenHandles
        <4>1. PICK c \in Clusters \cup {0}, us \in Seq(Units), z \in 0 .. MaxData :
                c = q.cluster /\ us = q.data /\ z = q.position
          BY <3>1, <3>2, <3>5
        <4>2. PICK b \in BOOLEAN, w \in BOOLEAN : b = q.dirty /\ w = q.writable
          BY <3>3, Zenon
        <4>3. [open |-> TRUE, path |-> p, cluster |-> c, data |-> us, position |-> z, dirty |-> b,
               writable |-> w] \in OpenHandles
          BY OpenHandle
        <4> QED
          BY <3>3, <3>6, <4>1, <4>2, <4>3, Zenon
      <3> QED
        BY <3>1, <3>3, <3>7, VolumeAssumption
    <2>6. DOMAIN handle = Handles /\ \A g \in Handles : handle[g] \in OpenHandles \cup {Closed}
      BY <2>3 DEF HandlesOk
    <2>7. \A g \in Handles : (g # h => handle'[g] = handle[g]) /\ (g = h => handle'[g] = q)
      BY <2>2, <2>6
    <2>8. HandlesOk(handle')
      <3>1. handle' \in [Handles -> OpenHandles \cup {Closed}]
        BY <2>2, <2>5, <2>6
      <3>2. \A g \in Handles : handle'[g].open => Len(handle'[g].data) <= MaxData
        BY <2>3, <2>5, <2>7 DEF HandlesOk
      <3>3. ASSUME NEW g \in Handles, NEW k \in Handles, handle'[g].open, handle'[k].open, handle'[g].path = handle'[k].path
            PROVE  g = k
        BY <2>2, <2>3, <2>5, <2>7, <3>3 DEF HandlesOk, Unused
      <3> QED
        BY <3>1, <3>2, <3>3 DEF HandlesOk
    <2>9. Held(disk, p, EntryAt(disk, p).cluster)
      BY <2>2, <2>3, ResolveFacts DEF Held, At, First, IsDir
    <2>10. Good(disk, handle')
      <3>1. ASSUME NEW g \in Handles, handle'[g].open PROVE Held(disk, handle'[g].path, handle'[g].cluster)
        <4>1. CASE g = h
          BY <2>1, <2>7, <2>9, <4>1
        <4>2. CASE g # h
          BY <2>3, <2>7, <3>1, <4>2 DEF Good
        <4> QED
          BY <4>1, <4>2
      <3> QED
        BY <2>3, <3>1 DEF Good
    <2> QED
      BY <2>2, <2>8, <2>10, HandleInv
  <1> QED
    BY <1>1, <1>2

LEMMA MovedInv ==
  ASSUME FatInv, Enter, UNCHANGED <<disk, op, synced, torn>>, NEW h \in Handles, handle[h].open,
         NEW q \in OpenHandles, Len(q.data) <= MaxData, q.path = handle[h].path,
         q.cluster = handle[h].cluster, handle' = [handle EXCEPT ![h] = q]
  PROVE  FatInv'
  <1>1. Good(disk, handle) /\ HandlesOk(handle)
    BY Enters
  <1>2. DOMAIN handle = Handles /\ handle \in [Handles -> OpenHandles \cup {Closed}]
    BY <1>1 DEF HandlesOk
  <1>3. \A g \in Handles : (g # h => handle'[g] = handle[g]) /\ (g = h => handle'[g] = q)
    BY <1>2
  <1>4. HandlesOk(handle')
    <2>1. handle' \in [Handles -> OpenHandles \cup {Closed}]
      BY <1>2
    <2>2. \A g \in Handles : handle'[g].open => Len(handle'[g].data) <= MaxData
      BY <1>1, <1>3 DEF HandlesOk
    <2>3. ASSUME NEW g \in Handles, NEW k \in Handles, handle'[g].open, handle'[k].open, handle'[g].path = handle'[k].path
          PROVE  g = k
      BY <1>1, <1>3, <2>3 DEF HandlesOk
    <2> QED
      BY <2>1, <2>2, <2>3 DEF HandlesOk
  <1>5. Good(disk, handle')
    BY <1>1, <1>3 DEF Good
  <1> QED
    BY <1>4, <1>5, HandleInv

LEMMA read_inv ==
  ASSUME FatInv, NEW h \in Handles, NEW n \in {1, K}, read(h, n)
  PROVE  FatInv'
  <1>1. Enter /\ handle[h].open /\ UNCHANGED <<disk, op, synced, torn>>
    BY DEF read
  <1>2. HandlesOk(handle)
    BY <1>1, Enters
  <1>3. PICK u : u = handle[h]
    OBVIOUS
  <1>4. u \in OpenHandles /\ u.data \in Seq(Units) /\ u.position \in 0 .. MaxData /\ Len(u.data) <= MaxData
    BY <1>1, <1>2, <1>3, HandleFacts
  <1>5. PICK l \in Nat : l = Len(u.data)
    BY <1>4, LenProperties
  <1>6. PICK z : z = u.position + IF n < l - u.position THEN n ELSE l - u.position
    OBVIOUS
  <1>7. l - u.position > 0 /\ handle' = [handle EXCEPT ![h].position = @ + IF n < l - u.position THEN n ELSE l - u.position]
    BY <1>3, <1>5 DEF read
  <1>8. z \in 0 .. MaxData
    <2>1. n \in Nat /\ MaxData \in Nat
      BY ClusterFacts, VolumeAssumption
    <2> QED
      BY <1>4, <1>5, <1>6, <1>7, <2>1
  <1>9. PICK q : q = [u EXCEPT !.position = z]
    OBVIOUS
  <1>10. q \in OpenHandles /\ q.data = u.data /\ q.path = u.path /\ q.cluster = u.cluster
    BY <1>4, <1>8, <1>9 DEF OpenHandles
  <1>11. handle' = [handle EXCEPT ![h] = q]
    BY <1>3, <1>6, <1>7, <1>9
  <1> QED
    BY <1>1, <1>3, <1>4, <1>10, <1>11, MovedInv

LEMMA write_inv ==
  ASSUME FatInv, NEW h \in Handles, NEW n \in {1, K}, write(h, n)
  PROVE  FatInv'
  <1>1. Enter /\ handle[h].open /\ UNCHANGED <<disk, op, synced, torn>>
    BY DEF write
  <1>2. HandlesOk(handle)
    BY <1>1, Enters
  <1>3. PICK u : u = handle[h]
    OBVIOUS
  <1>4. /\ u \in OpenHandles /\ u.data \in Seq(Units) /\ u.position \in 0 .. MaxData /\ Len(u.data) <= MaxData
        /\ u.path \in Paths
    BY <1>1, <1>2, <1>3, HandleFacts
  <1>5. PICK l \in Nat : l = Len(u.data)
    BY <1>4, LenProperties
  <1>6. PICK from \in Nat, old \in Seq(Units) : from = u.position /\ old = u.data
    BY <1>4
  <1>7. n \in Nat /\ MaxData \in Nat
    BY ClusterFacts, VolumeAssumption
  <1>8. PICK m \in Nat : m = IF from + n > l THEN from + n ELSE l
    BY <1>5, <1>6, <1>7
  <1>9. PICK us : us = [i \in 1 .. m |-> IF i \in from + 1 .. from + n THEN Data(u.path, i)
                                         ELSE IF i <= l THEN old[i] ELSE Zero]
    OBVIOUS
  <1>10. from + n <= MaxData
    BY <1>3, <1>6 DEF write
  <1>11. m <= MaxData
    BY <1>4, <1>5, <1>7, <1>8, <1>10
  <1>12. us \in Seq(Units) /\ Len(us) = m
    <2>1. ASSUME NEW i \in 1 .. m PROVE us[i] \in Units
      <3>1. i \in 1 .. MaxData
        BY <1>7, <1>11
      <3>2. Data(u.path, i) \in Units /\ Zero \in Units
        BY <1>4, <3>1, UnitKinds
      <3>3. i <= l => old[i] \in Units
        BY <1>5, <1>6, ElementOfSeq
      <3>4. us[i] = Data(u.path, i) \/ (i <= l /\ us[i] = old[i]) \/ us[i] = Zero
        BY <1>9
      <3> QED
        BY <3>2, <3>3, <3>4
    <2>2. us \in [1 .. m -> Units]
      BY <1>9, <2>1
    <2> QED
      BY <2>2, IsASeq, LenProperties
  <1>13. PICK q : q = [u EXCEPT !.data = us, !.position = from + n, !.dirty = TRUE]
    OBVIOUS
  <1>14. q \in OpenHandles /\ q.data = us /\ q.path = u.path /\ q.cluster = u.cluster
    <2>1. from + n \in 0 .. MaxData
      BY <1>7, <1>10
    <2> QED
      BY <1>4, <1>12, <1>13, <2>1 DEF OpenHandles
  <1>15. handle' = [handle EXCEPT ![h] = q]
    <2>1. handle' = [handle EXCEPT ![h].data = us, ![h].position = from + n, ![h].dirty = TRUE]
      BY <1>3, <1>5, <1>6, <1>8, <1>9 DEF write
    <2>2. handle \in [Handles -> OpenHandles \cup {Closed}]
      BY <1>2 DEF HandlesOk
    <2> QED
      BY <1>3, <1>13, <2>1, <2>2
  <1>16. Len(q.data) <= MaxData
    BY <1>11, <1>12, <1>14
  <1> QED
    BY <1>1, <1>3, <1>14, <1>15, <1>16, MovedInv

LEMMA ClosedHandle ==
  ASSUME NEW hs, HandlesOk(hs), NEW h \in Handles
  PROVE  \E gs : /\ gs = [hs EXCEPT ![h] = Closed]
                 /\ \A g \in Handles : gs[g].open => g # h /\ gs[g] = hs[g]
                 /\ HandlesOk(gs)
  <1>0. PICK gs : gs = [hs EXCEPT ![h] = Closed]
    OBVIOUS
  <1>1. hs \in [Handles -> OpenHandles \cup {Closed}]
    BY DEF HandlesOk
  <1>2. \A g \in Handles : gs[g].open => g # h /\ gs[g] = hs[g]
    BY <1>0, <1>1 DEF Closed
  <1>3. gs \in [Handles -> OpenHandles \cup {Closed}]
    BY <1>0, <1>1
  <1>4. HandlesOk(gs)
    BY <1>2, <1>3 DEF HandlesOk
  <1> QED
    BY <1>0, <1>2, <1>4

\* close of a handle that is written back starts an edit of its file's entry; if it
\* succeeds, the clusters lost are those cut off its end.
LEMMA close_begins ==
  ASSUME FatInv, NEW h \in Handles, close(h), ~UNCHANGED <<disk, op, synced, torn>>
  PROVE  /\ handle[h].open
         /\ \E todo, okay, frees, x, j :
               /\ Begins("sync", handle[h].path, todo, okay, frees, x, j)
               /\ okay => Lost(Run(disk, todo)) = Lost(disk) \cup CutOff(h)
  <1>1. Enter /\ handle[h].open /\ handle' = [handle EXCEPT ![h] = Closed]
    BY DEF close
  <1>2. /\ Sound(disk) /\ Good(disk, handle) /\ HandlesOk(handle) /\ disk \in Volumes
        /\ AllBack(disk, synced) /\ DOMAIN synced = Paths
    BY <1>1, Enters
  <1>3. PICK p, c, data : p = handle[h].path /\ c = handle[h].cluster /\ data = handle[h].data
    OBVIOUS
  <1>4. p \in Paths /\ data \in Seq(Units) /\ Len(data) <= MaxData
    BY <1>1, <1>2, <1>3, HandleFacts
  <1>5. PICK y : y = sync_file(disk, p, c, data)
    OBVIOUS
  <1>6. PICK todo, okay, frees : todo = y.todo /\ okay = y.ok /\ frees = (data = <<>> /\ c \in Clusters)
    OBVIOUS
  <1>7. /\ Start("sync", p, y.todo, y.ok, data = <<>> /\ c \in Clusters)
        /\ synced' = [synced EXCEPT ![p] = IF y.ok THEN [known |-> TRUE, data |-> data] ELSE Unknown]
    BY <1>3, <1>5 DEF close
  <1>8. PICK s : At(disk, p, s) /\ ~EntryOf(disk, s).dir /\ First(disk, s) = c
    BY <1>1, <1>2, <1>3, HeldAt
  <1>9. Exists(disk, p) /\ s = <<ParentOf(disk, p), SlotOf(disk, p)>>
    BY <1>2, <1>4, <1>8, ResolveIs
  <1>10. EntryAt(disk, p) = EntryOf(disk, s)
    BY <1>2, <1>4, <1>9, ResolveFacts
  <1>11. ~EntryAt(disk, p).dir /\ EntryAt(disk, p).cluster = c
    BY <1>8, <1>10 DEF First
  <1>12. PICK x, j, cut : x = ParentOf(disk, p) /\ j = SlotOf(disk, p) /\ cut = Forgotten(Chain(disk.fat, c), data)
    OBVIOUS
  <1>13. /\ Safe(disk, y.todo, x, j, data = <<>> /\ c \in Clusters)
         /\ y.ok => \E e : WroteBack(disk, Run(disk, y.todo), x, j, e, data, cut)
    BY <1>2, <1>4, <1>5, <1>9, <1>11, <1>12, SyncSafe
  <1>14. At(disk, p, <<x, j>>)
    BY <1>8, <1>9, <1>12
  <1>15. (\A g \in Handles : handle'[g].open => g # h /\ handle'[g] = handle[g]) /\ HandlesOk(handle')
    <2>1. PICK gs : /\ gs = [handle EXCEPT ![h] = Closed]
                    /\ \A g \in Handles : gs[g].open => g # h /\ gs[g] = handle[g]
                    /\ HandlesOk(gs)
      BY <1>2, ClosedHandle
    <2> QED
      BY <1>1, <2>1
  <1>16. Apart(disk, handle', x, j)
    <2>1. ASSUME NEW g \in Handles, handle'[g].open PROVE handle'[g] = handle[g] /\ handle[g].path # p
      BY <1>1, <1>2, <1>3, <1>15, <2>1 DEF HandlesOk
    <2> QED
      BY <1>2, <1>4, <1>9, <1>12, <2>1, OthersApart
  <1>17. /\ DOMAIN synced' = Paths
         /\ \A q \in Paths : q # p => synced'[q] = synced[q]
         /\ synced'[p] = IF y.ok THEN [known |-> TRUE, data |-> data] ELSE Unknown
    BY <1>2, <1>4, <1>7
  <1>18. Spared(disk, synced', "sync", p)
    <2>1. \A q \in Paths : synced'[q] = synced[q] \/ Forgets(synced', q) \/ ("sync" = "sync" /\ q = p)
      BY <1>17
    <2> QED
      BY <1>2, <2>1, SparedNow
  <1>19. ASSUME NEW k \in 0 .. Len(y.todo), Edits(disk, Stage(disk, y.todo, k), x, j)
         PROVE  Harmless(Stage(disk, y.todo, k), x, j, synced', "sync", p)
    BY <1>2, <1>4, <1>14, <1>19, OnlyPath DEF Harmless
  <1>20. Back(Run(disk, y.todo), synced', p)
    <2>1. CASE y.ok
      <3>1. PICK e : WroteBack(disk, Run(disk, y.todo), x, j, e, data, cut)
        BY <1>13, <2>1
      <3>2. synced'[p].data = data
        BY <1>17, <2>1
      <3> QED
        BY <1>2, <1>4, <1>14, <3>1, <3>2, SyncBack
    <2>2. CASE ~y.ok
      <3>1. synced'[p] = Unknown
        BY <1>17, <2>2
      <3>2. Forgets(synced', p)
        BY <3>1 DEF Forgets, Unknown
      <3> QED
        BY <3>2, ForgetsBack
    <2> QED
      BY <2>1, <2>2
  <1>21. Achieved("sync", p, Run(disk, y.todo))
    BY DEF Achieved
  <1>22. Begins("sync", p, y.todo, y.ok, data = <<>> /\ c \in Clusters, x, j)
    BY <1>7, <1>13, <1>15, <1>16, <1>17, <1>18, <1>19, <1>20, <1>21 DEF Begins
  <1>23. cut = CutOff(h)
    <2>1. PICK l \in Nat : l = Len(data)
      BY <1>4, LenProperties
    <2>2. data = <<>> <=> Needed(data) = 0
      BY <1>4, <2>1, NeededFacts, EmptySeq
    <2> QED
      BY <1>3, <1>12, <2>2 DEF CutOff, Forgotten, CutFrom, Needed
  <1>24. y.ok => Lost(Run(disk, y.todo)) = Lost(disk) \cup CutOff(h)
    BY <1>13, <1>23 DEF WroteBack
  <1> QED
    BY <1>1, <1>3, <1>22, <1>24

LEMMA close_inv ==
  ASSUME FatInv, NEW h \in Handles, close(h)
  PROVE  FatInv'
  <1>1. Enter /\ handle[h].open /\ handle' = [handle EXCEPT ![h] = Closed]
    BY DEF close
  <1>2. Sound(disk) /\ Good(disk, handle) /\ HandlesOk(handle)
    BY <1>1, Enters
  <1>3. CASE UNCHANGED <<disk, op, synced, torn>>
    <2>1. (\A g \in Handles : handle'[g].open => g # h /\ handle'[g] = handle[g]) /\ HandlesOk(handle')
      <3>1. PICK gs : /\ gs = [handle EXCEPT ![h] = Closed]
                      /\ \A g \in Handles : gs[g].open => g # h /\ gs[g] = handle[g]
                      /\ HandlesOk(gs)
        BY <1>2, ClosedHandle
      <3> QED
        BY <1>1, <3>1
    <2>2. Good(disk, handle')
      BY <1>2, <2>1 DEF Good
    <2> QED
      BY <1>1, <1>3, <2>1, <2>2, HandleInv
  <1>4. CASE ~UNCHANGED <<disk, op, synced, torn>>
    BY <1>1, <1>4, close_begins, StartInv
  <1> QED
    BY <1>3, <1>4

LEMMA read_panics_inv ==
  ASSUME FatInv, NEW h \in Handles, read_panics(h)
  PROVE  FatInv'
  BY RefuseInv DEF read_panics

\* One write reaches the disk: the volumes that were ahead are still ahead, but one.
LEMMA disk_write_inv ==
  ASSUME FatInv, disk_write
  PROVE  FatInv'
  <1>1. /\ op # Idle /\ disk' = Apply(disk, Head(op.todo)) /\ handle' = handle /\ torn' = torn
        /\ synced' = synced
        /\ Tail(op.todo) = <<>> => op' = Idle
        /\ Tail(op.todo) # <<>> => op' = [op EXCEPT !.todo = Tail(@), !.begun = TRUE]
    BY DEF disk_write
  <1>2. /\ Operation(op) /\ ~torn /\ StagesGood(disk, handle, synced, op) /\ disk \in Volumes /\ HandlesOk(handle)
        /\ torn \in BOOLEAN /\ DOMAIN synced = Paths /\ EndsGood(Run(disk, op.todo), synced, op)
    BY <1>1 DEF FatInv
  <1>3. PICK ws : ws = op.todo
    OBVIOUS
  <1>4. ws \in Seq(Writes) /\ ws # <<>>
    BY <1>2, <1>3 DEF Operation
  <1>5. PICK n \in Nat : n = Len(ws) /\ n > 0
    BY <1>4, LenProperties, EmptySeq
  <1>6. PICK us : us = Tail(ws)
    OBVIOUS
  <1>7. /\ Head(ws) \in Writes /\ us \in Seq(Writes) /\ Len(us) = n - 1
        /\ \A i \in 1 .. (n - 1) : us[i] = ws[i + 1]
        /\ \A k \in 0 .. (n - 1) : Stage(disk', us, k) = Stage(disk, ws, k + 1)
    <2>1. /\ Head(ws) \in Writes /\ Tail(ws) \in Seq(Writes) /\ Len(Tail(ws)) = Len(ws) - 1
          /\ \A i \in 1 .. (Len(ws) - 1) : Tail(ws)[i] = ws[i + 1]
          /\ \A k \in 0 .. (Len(ws) - 1) :
                Stage(Apply(disk, Head(ws)), Tail(ws), k) = Stage(disk, ws, k + 1)
      BY <1>2, <1>4, StageTail
    <2> QED
      BY <1>1, <1>3, <1>5, <1>6, <2>1
  <1>8. disk' \in Volumes
    <2>1. Stage(disk', us, 0) = disk' => Stage(disk, ws, 1) = disk'
      <3>1. 0 \in 0 .. (n - 1) /\ 0 + 1 = 1
        BY <1>5
      <3> QED
        BY <1>7, <3>1
    <2>2. 1 \in 1 .. Len(ws) /\ 1 \in 0 .. Len(ws) /\ 1 - 1 = 0
      BY <1>5
    <2>3. Stage(disk, ws, 1) = Apply(disk, ws[1]) /\ Stage(disk, ws, 1) \in Volumes
      BY <1>2, <1>4, <2>2, StageFacts
    <2>4. ws[1] = Head(ws)
      BY <1>4
    <2> QED
      BY <1>1, <1>3, <2>3, <2>4
  <1>9. ASSUME NEW k \in 0 .. (n - 1)
        PROVE  \/ Good(Stage(disk', us, k), handle) /\ Spared(Stage(disk', us, k), synced, op.kind, op.path)
               \/ op.frees /\ Ahead(Stage(disk', us, k), us, k)
    <2>1. k + 1 \in 0 .. Len(op.todo)
      BY <1>3, <1>5
    <2>2. PICK v : v = Stage(disk, ws, k + 1)
      OBVIOUS
    <2>3. \/ Good(v, handle) /\ Spared(v, synced, op.kind, op.path)
          \/ op.frees /\ Ahead(v, ws, k + 1)
      BY <1>2, <1>3, <2>1, <2>2 DEF StagesGood
    <2>4. Ahead(v, ws, k + 1) => Ahead(v, us, k)
      <3> SUFFICES ASSUME NEW i \in k + 1 + 1 .. n, ws[i].what = "units", Apply(v, ws[i]) # v
                   PROVE  \E j \in k + 1 .. Len(us) : us[j].what = "units" /\ Apply(v, us[j]) # v
        BY <1>5 DEF Ahead
      <3>1. i - 1 \in 1 .. (n - 1) /\ i - 1 \in k + 1 .. Len(us) /\ (i - 1) + 1 = i
        BY <1>7
      <3>2. us[i - 1] = ws[i]
        BY <1>7, <3>1
      <3> QED
        BY <3>1, <3>2
    <2>5. Stage(disk', us, k) = v
      BY <1>7, <2>2
    <2> QED
      BY <2>3, <2>4, <2>5
  <1>12. Run(disk', us) = Run(disk, ws)
    <2>1. n - 1 \in 0 .. (n - 1) /\ (n - 1) + 1 = n
      BY <1>5
    <2>2. Stage(disk', us, n - 1) = Stage(disk, ws, n)
      BY <1>7, <2>1
    <2> QED
      BY <1>5, <1>7, <2>2 DEF Run
  <1>10. CASE us = <<>>
    <2>1. op' = Idle
      BY <1>1, <1>3, <1>6, <1>10
    <2>2. Len(us) = 0 /\ n = 1
      <3>1. Len(us) = 0
        BY <1>10
      <3>2. Len(us) = n - 1
        BY <1>7
      <3> QED
        BY <3>1, <3>2
    <2>3. Stage(disk', us, 0) = disk'
      BY <1>7, <1>8, StageFacts
    <2>4. ~Ahead(disk', us, 0)
      <3>1. (0 + 1) .. Len(us) = {}
        BY <2>2
      <3> QED
        BY <3>1 DEF Ahead
    <2>5. Good(disk', handle)
      <3>1. 0 \in 0 .. (n - 1)
        BY <1>5
      <3> QED
        BY <1>9, <2>3, <2>4, <3>1
    <2>6. AllBack(disk', synced)
      <3>1. Run(disk', us) = disk'
        BY <2>2, <2>3 DEF Run
      <3> QED
        BY <1>2, <1>3, <1>12, <3>1 DEF EndsGood
    <2> QED
      BY <1>1, <1>2, <1>8, <2>1, <2>5, <2>6 DEF FatInv
  <1>11. CASE us # <<>>
    <2>1. op' = [op EXCEPT !.todo = us, !.begun = TRUE]
      BY <1>1, <1>3, <1>6, <1>11
    <2>2. PICK kd, pt, okk, fr, bg : op = [kind |-> kd, path |-> pt, todo |-> ws, ok |-> okk, frees |-> fr, begun |-> bg]
      BY <1>2, <1>3 DEF Operation
    <2>3. op' = [kind |-> kd, path |-> pt, todo |-> us, ok |-> okk, frees |-> fr, begun |-> TRUE]
      BY <2>1, <2>2
    <2>4. /\ op'.todo = us /\ op'.begun = TRUE /\ op'.frees = op.frees
          /\ op'.kind = op.kind /\ op'.path = op.path /\ op'.ok = op.ok
      BY <2>2, <2>3
    <2>5. Operation(op')
      BY <1>7, <1>11, <2>3 DEF Operation
    <2>6. op' # Idle
      BY <1>11, <2>4 DEF Idle
    <2>7. StagesGood(disk', handle', synced', op')
      BY <1>1, <1>7, <1>9, <2>4 DEF StagesGood
    <2>8. EndsGood(Run(disk', op'.todo), synced', op')
      BY <1>1, <1>2, <1>3, <1>12, <2>4 DEF EndsGood
    <2> QED
      BY <1>1, <1>2, <1>8, <2>5, <2>6, <2>7, <2>8 DEF FatInv
  <1> QED
    BY <1>10, <1>11

\* A fault makes the file that was being written back unknown, and no other.
LEMMA FaultBack ==
  ASSUME NEW v, NEW sy, DOMAIN sy = Paths, NEW kind, NEW p, Spared(v, sy, kind, p),
         NEW s2, s2 = IF kind = "sync" THEN [sy EXCEPT ![p] = Unknown] ELSE sy
  PROVE  AllBack(v, s2)
  <1> SUFFICES ASSUME NEW q \in Paths PROVE Back(v, s2, q)
    BY DEF AllBack
  <1>1. CASE kind = "sync" /\ q = p
    <2>1. s2[q] = Unknown
      BY <1>1
    <2>2. Forgets(s2, q)
      BY <2>1 DEF Forgets, Unknown
    <2> QED
      BY <2>2, ForgetsBack
  <1>2. CASE ~(kind = "sync" /\ q = p)
    <2>1. s2[q] = sy[q] /\ Back(v, sy, q)
      BY <1>2 DEF Spared
    <2> QED
      BY <2>1, BackSame
  <1> QED
    BY <1>1, <1>2

LEMMA io_error_inv ==
  ASSUME FatInv, io_error
  PROVE  FatInv'
  <1>1. /\ op # Idle /\ op' = Idle /\ torn' = InWindow /\ disk' = disk /\ handle' = handle
        /\ synced' = IF op.kind = "sync" THEN [synced EXCEPT ![op.path] = Unknown] ELSE synced
    BY DEF io_error
  <1>2. disk \in Volumes /\ HandlesOk(handle) /\ ~torn /\ DOMAIN synced = Paths
    BY <1>1 DEF FatInv
  <1>3. torn' \in BOOLEAN
    BY <1>1 DEF InWindow
  <1>4. ~torn' => Good(disk, handle) /\ AllBack(disk, synced')
    BY <1>1, <1>2, GoodNow, FaultBack
  <1>5. DOMAIN synced' = Paths
    BY <1>1, <1>2
  <1> QED
    BY <1>1, <1>2, <1>3, <1>4, <1>5 DEF FatInv

LEMMA crash_inv ==
  ASSUME FatInv, crash
  PROVE  FatInv'
  <1>1. /\ op' = Idle /\ torn' = (torn \/ InWindow) /\ disk' = disk /\ handle' = [h \in Handles |-> Closed]
        /\ synced' = IF op.kind = "sync" THEN [synced EXCEPT ![op.path] = Unknown] ELSE synced
    BY DEF crash
  <1>2. disk \in Volumes /\ DOMAIN synced = Paths
    BY DEF FatInv
  <1>3. torn' \in BOOLEAN
    BY <1>1 DEF InWindow
  <1>4. \A h \in Handles : handle'[h] = Closed /\ ~handle'[h].open
    BY <1>1 DEF Closed
  <1>5. HandlesOk(handle')
    BY <1>1, <1>4 DEF HandlesOk
  <1>6. ~torn' => Good(disk, handle') /\ AllBack(disk, synced')
    <2>1. ~torn' => Good(disk, handle) /\ AllBack(disk, synced')
      BY <1>1, <1>2, GoodNow, FaultBack
    <2> QED
      BY <1>4, <2>1 DEF Good
  <1>7. DOMAIN synced' = Paths
    BY <1>1, <1>2
  <1> QED
    BY <1>1, <1>2, <1>3, <1>5, <1>6, <1>7 DEF FatInv

\* Every step keeps the invariant.
LEMMA FatStep == FatInv /\ [Next]_vars => FatInv'
  <1> SUFFICES ASSUME FatInv, [Next]_vars PROVE FatInv'
    OBVIOUS
  <1>1. CASE UNCHANGED vars
    BY <1>1 DEF vars, FatInv
  <1>2. ASSUME NEW p \in Paths, mkdir(p) \/ remove(p) \/ rmdir(p)
        PROVE  FatInv'
    BY <1>2, mkdir_inv, remove_inv, rmdir_inv
  <1>3. ASSUME NEW h \in Handles, NEW p \in Paths, NEW flags \in Flags, open(h, p, flags)
        PROVE  FatInv'
    BY <1>3, open_inv
  <1>4. ASSUME NEW h \in Handles, NEW n \in {1, K}, read(h, n) \/ write(h, n)
        PROVE  FatInv'
    BY <1>4, read_inv, write_inv
  <1>5. ASSUME NEW h \in Handles, close(h) \/ read_panics(h)
        PROVE  FatInv'
    BY <1>5, close_inv, read_panics_inv
  <1>6. CASE disk_write
    BY <1>6, disk_write_inv
  <1>7. CASE io_error
    BY <1>7, io_error_inv
  <1>8. CASE crash
    BY <1>8, crash_inv
  <1> QED
    BY <1>1, <1>2, <1>3, <1>4, <1>5, <1>6, <1>7, <1>8 DEF Next

\* The volume, the handles and the writes under way keep their types whatever calls are made
\* and wherever faults fall (fat32.rs).
THEOREM FatTyped == Spec => []TypeOK
  <1>1. FatInv /\ [Next]_vars => FatInv'
    BY FatStep
  <1> QED
    BY <1>1, FatInit, FatInvTypeOK, PTL DEF Spec

(***************************************************************************)
(* Whatever the calls, and wherever a write fails or the power is lost, no *)
(* chain of the tree is cyclic, cut short or shared, no name occurs twice  *)
(* in a directory and none lies behind its end marker; only between the    *)
(* free_chain and the directory update of remove, rmdir and a write-back   *)
(* of an emptied file may a fault break this (fat32.rs, its order of       *)
(* writes).                                                                *)
(***************************************************************************)
THEOREM FatConsistent == Spec => []OnDiskConsistent
  <1>1. FatInv /\ [Next]_vars => FatInv'
    BY FatStep
  <1> QED
    BY <1>1, FatInit, FatInvConsistent, PTL DEF Spec

LEMMA FatInvReadsBack == FatInv => ReadsBack
  <1> SUFFICES ASSUME FatInv, op = Idle, ~torn, NEW p \in Paths,
                      synced[p].known, Exists(disk, p), ~IsDir(disk, p)
               PROVE  Contents(disk, p) = synced[p].data
    BY DEF ReadsBack
  <1>1. Back(disk, synced, p)
    BY DEF FatInv, AllBack
  <1> QED
    BY <1>1 DEF Back

(***************************************************************************)
(* Durability of fat32.rs: between calls every file reads as its last      *)
(* successful close, or the formatter, left it, whatever other files and   *)
(* directories were created, written and removed since, and also after a   *)
(* refused write or a power failure in the middle of any of those calls.   *)
(***************************************************************************)
THEOREM FatReadsBack == Spec => []ReadsBack
  <1>1. FatInv /\ [Next]_vars => FatInv'
    BY FatStep
  <1> QED
    BY <1>1, FatInit, FatInvReadsBack, PTL DEF Spec

\* Only the last write of a call that succeeded reports success, a write-back aside.
LEMMA OkIsLastWrite ==
  ASSUME FatInv, Next, op # Idle, op' = Idle, reply' = "Ok", op.kind # "sync"
  PROVE  disk_write /\ Tail(op.todo) = <<>> /\ op.ok
  <1>0. Reply(op.kind, FALSE) # "Ok"
    BY DEF Reply
  <1>1. disk_write
    BY <1>0, ZenonT(60) DEF Next, Enter, mkdir, remove, rmdir, open, read, write, close, read_panics, io_error, crash
  <1>2. Tail(op.todo) = <<>>
    <2> SUFFICES ASSUME Tail(op.todo) # <<>> PROVE FALSE
      OBVIOUS
    <2>1. op' = [op EXCEPT !.todo = Tail(@), !.begun = TRUE]
      BY <1>1 DEF disk_write
    <2>2. PICK kd, pt, ws, okk, fr, bg : op = [kind |-> kd, path |-> pt, todo |-> ws, ok |-> okk, frees |-> fr, begun |-> bg]
      BY DEF FatInv, Operation
    <2>3. op'.todo = Tail(op.todo)
      BY <2>1, <2>2
    <2> QED
      BY <2>3 DEF Idle
  <1>3. op.ok
    BY <1>1, <1>2 DEF disk_write, Reply
  <1> QED
    BY <1>1, <1>2, <1>3

\* The last write leads to the volume the call was to end with.
LEMMA LastWrite ==
  ASSUME NEW d \in Volumes, NEW ws \in Seq(Writes), ws # <<>>, Tail(ws) = <<>>
  PROVE  Apply(d, Head(ws)) = Run(d, ws)
  <1>1. PICK n \in Nat : n = Len(ws) /\ n > 0
    BY LenProperties, EmptySeq
  <1>2. n - 1 = 0
    <2>1. Len(Tail(ws)) = n - 1
      BY <1>1
    <2>2. Len(Tail(ws)) = 0
      BY EmptySeq
    <2> QED
      BY <2>1, <2>2
  <1>3. n = 1 /\ 1 \in 1 .. Len(ws) /\ 1 - 1 = 0
    <2>1. n = 1
      BY <1>2
    <2> QED
      BY <1>1, <2>1
  <1>4. Stage(d, ws, 1) = Apply(d, ws[1])
    BY <1>3, StageFacts
  <1>5. ws[1] = Head(ws)
    BY <1>1
  <1> QED
    BY <1>1, <1>3, <1>4, <1>5 DEF Run

(***************************************************************************)
(* A directory that mkdir reports created is there and empty, and what     *)
(* remove or rmdir reports gone is not found any more: add_dir_entry and   *)
(* remove_dir_entry of fat32.rs do what their callers then return Ok for.  *)
(***************************************************************************)
THEOREM FatReportedIsDone == Spec => ReportedIsDone
  <1>1. FatInv /\ [Next]_vars => FatInv'
    BY FatStep
  <1>2. FatInv /\ [Next]_vars =>
           [(op # Idle /\ op' = Idle /\ reply' = "Ok") =>
               /\ op.kind = "mkdir" => /\ IsDir(disk', op.path)
                                       /\ DirSlots(read_chain(disk', EntryAt(disk', op.path).cluster)) = {}
               /\ op.kind \in {"remove", "rmdir"} => ~Exists(disk', op.path)]_vars
    <2> SUFFICES ASSUME FatInv, Next, op # Idle, op' = Idle, reply' = "Ok", op.kind # "sync"
                 PROVE  /\ op.kind = "mkdir" =>
                              /\ IsDir(disk', op.path)
                              /\ DirSlots(read_chain(disk', EntryAt(disk', op.path).cluster)) = {}
                        /\ op.kind \in {"remove", "rmdir"} => ~Exists(disk', op.path)
      OBVIOUS
    <2>1. disk_write /\ Tail(op.todo) = <<>> /\ op.ok
      BY OkIsLastWrite
    <2>2. PICK ws : ws = op.todo
      OBVIOUS
    <2>3. disk \in Volumes /\ ws \in Seq(Writes) /\ ws # <<>> /\ EndsGood(Run(disk, ws), synced, op)
      BY <2>2 DEF FatInv, Operation
    <2>4. disk' = Run(disk, ws)
      <3>1. disk' = Apply(disk, Head(ws)) /\ Tail(ws) = <<>>
        BY <2>1, <2>2 DEF disk_write
      <3> QED
        BY <2>3, <3>1, LastWrite
    <2>5. Achieved(op.kind, op.path, disk')
      BY <2>1, <2>3, <2>4 DEF EndsGood
    <2> QED
      BY <2>5 DEF Achieved
  <1> QED
    BY <1>1, <1>2, FatInit, PTL DEF Spec, ReportedIsDone

\* What a call that starts records of itself.
LEMMA Started ==
  ASSUME NEW kind, NEW p, NEW todo, NEW okay, NEW frees, Start(kind, p, todo, okay, frees), op' # Idle
  PROVE  op'.kind = kind /\ op'.path = p /\ op'.todo = todo /\ op'.ok = okay
  BY DEF Start

\* Of the calls only these four start writes.
LEMMA Starters ==
  ASSUME Next, op = Idle, op' # Idle
  PROVE  /\ ~(\E e : Refuse(e)) /\ ~UNCHANGED <<disk, op, synced, torn>>
         /\ \/ \E p \in Paths : mkdir(p) \/ remove(p) \/ rmdir(p)
            \/ \E h \in Handles : close(h)
  <1>1. ~(\E e : Refuse(e)) /\ ~UNCHANGED <<disk, op, synced, torn>>
    BY DEF Refuse
  <1>2. \/ \E p \in Paths : mkdir(p) \/ remove(p) \/ rmdir(p)
        \/ \E h \in Handles : close(h)
    BY <1>1, ZenonT(60) DEF Next, open, read, write, read_panics, disk_write, io_error, crash
  <1> QED
    BY <1>1, <1>2

LEMMA LosesNone ==
  ASSUME op' # Idle, op'.ok, NEW kind, kind # "sync", NEW p,
         \E todo, okay, frees, x, j : /\ Begins(kind, p, todo, okay, frees, x, j)
                                      /\ okay => Lost(Run(disk, todo)) = Lost(disk)
  PROVE  op'.kind # "sync" /\ Lost(Run(disk, op'.todo)) = Lost(disk)
  <1>1. PICK todo, okay, frees, x, j : /\ Begins(kind, p, todo, okay, frees, x, j)
                                       /\ okay => Lost(Run(disk, todo)) = Lost(disk)
    OBVIOUS
  <1>2. op'.kind = kind /\ op'.path = p /\ op'.todo = todo /\ op'.ok = okay
    BY <1>1, Started DEF Begins
  <1> QED
    BY <1>1, <1>2, Zenon

LEMMA LosesTail ==
  ASSUME FatInv, op' # Idle, op'.ok, NEW h \in Handles, close(h), ~UNCHANGED <<disk, op, synced, torn>>
  PROVE  /\ op'.kind = "sync" /\ handle[h].open /\ handle[h].path = op'.path
         /\ Lost(Run(disk, op'.todo)) = Lost(disk) \cup CutOff(h)
  <1>1. handle[h].open
    BY close_begins
  <1>2. PICK todo, okay, frees, x, j : /\ Begins("sync", handle[h].path, todo, okay, frees, x, j)
                                       /\ okay => Lost(Run(disk, todo)) = Lost(disk) \cup CutOff(h)
    BY close_begins
  <1>3. op'.kind = "sync" /\ op'.path = handle[h].path /\ op'.todo = todo /\ op'.ok = okay
    BY <1>2, Started DEF Begins
  <1> QED
    BY <1>1, <1>2, <1>3, Zenon

(***************************************************************************)
(* What mkdir, remove, rmdir and close allocate or give up is accounted    *)
(* for when they succeed: the only clusters ever lost are those that       *)
(* write_chain of fat32.rs cuts off the end of a file that got shorter,    *)
(* and it loses exactly those.                                             *)
(***************************************************************************)
THEOREM FatLosesOnlyTails == Spec => LosesOnlyTails
  <1>1. FatInv /\ [Next]_vars => FatInv'
    BY FatStep
  <1>2. FatInv /\ [Next]_vars =>
           [op = Idle /\ op' # Idle /\ op'.ok =>
               LET after == Lost(Run(disk, op'.todo))
               IN IF op'.kind # "sync" THEN after = Lost(disk)
                  ELSE \E h \in Handles :
                          /\ handle[h].open /\ handle[h].path = op'.path
                          /\ after = Lost(disk) \cup CutOff(h)]_vars
    <2> SUFFICES ASSUME FatInv, Next, op = Idle, op' # Idle, op'.ok
                 PROVE  \/ op'.kind # "sync" /\ Lost(Run(disk, op'.todo)) = Lost(disk)
                        \/ /\ op'.kind = "sync"
                           /\ \E h \in Handles :
                                 /\ handle[h].open /\ handle[h].path = op'.path
                                 /\ Lost(Run(disk, op'.todo)) = Lost(disk) \cup CutOff(h)
      OBVIOUS
    <2>1. ~(\E e : Refuse(e)) /\ ~UNCHANGED <<disk, op, synced, torn>>
      BY Starters
    <2>2. ASSUME NEW p \in Paths, mkdir(p)
          PROVE  op'.kind # "sync" /\ Lost(Run(disk, op'.todo)) = Lost(disk)
      <3>1. \E todo, okay, frees, x, j : /\ Begins("mkdir", p, todo, okay, frees, x, j)
                                         /\ okay => Lost(Run(disk, todo)) = Lost(disk)
        BY <2>1, <2>2, mkdir_begins
      <3> QED
        BY <3>1, LosesNone
    <2>3. ASSUME NEW p \in Paths, remove(p)
          PROVE  op'.kind # "sync" /\ Lost(Run(disk, op'.todo)) = Lost(disk)
      <3>1. \E todo, okay, frees, x, j : /\ Begins("remove", p, todo, okay, frees, x, j)
                                         /\ okay => Lost(Run(disk, todo)) = Lost(disk)
        BY <2>1, <2>3, remove_begins
      <3> QED
        BY <3>1, LosesNone
    <2>4. ASSUME NEW p \in Paths, rmdir(p)
          PROVE  op'.kind # "sync" /\ Lost(Run(disk, op'.todo)) = Lost(disk)
      <3>1. \E todo, okay, frees, x, j : /\ Begins("rmdir", p, todo, okay, frees, x, j)
                                         /\ okay => Lost(Run(disk, todo)) = Lost(disk)
        BY <2>1, <2>4, rmdir_begins
      <3> QED
        BY <3>1, LosesNone
    <2>5. ASSUME NEW h \in Handles, close(h)
          PROVE  /\ op'.kind = "sync" /\ handle[h].open /\ handle[h].path = op'.path
                 /\ Lost(Run(disk, op'.todo)) = Lost(disk) \cup CutOff(h)
      BY <2>1, <2>5, LosesTail
    <2>6. \/ \E p \in Paths : mkdir(p) \/ remove(p) \/ rmdir(p)
          \/ \E h \in Handles : close(h)
      BY Starters
    <2> QED
      BY <2>2, <2>3, <2>4, <2>5, <2>6
  <1> QED
    BY <1>1, <1>2, FatInit, PTL DEF Spec, LosesOnlyTails
=============================================================================
