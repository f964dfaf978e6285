---------------------------- MODULE FilesProofs ----------------------------
(***************************************************************************)
(* The file layer for every number of tasks, descriptors, names and paths: *)
(* what handles hold, what descriptors denote, what getdents packs.        *)
(***************************************************************************)
EXTENDS Files, FiniteSetTheorems, WellFoundedInduction, TLAPS

-----------------------------------------------------------------------------
(* Least numbers, and folds over sequences *)

\* A set of numbers that is not empty has a least element.
LEMMA LeastNumber ==
    ASSUME NEW S, S \subseteq Nat, S # {}
    PROVE  \E x \in S : \A y \in S : x <= y
<1> DEFINE R == {ss \in Nat \X Nat : ss[1] < ss[2]}
<1>1. IsWellFoundedOn(R, Nat)
  BY NatLessThanWellFounded DEF OpToRel
<1>2. PICK x \in S : \A y \in S : ~ (<<y, x>> \in R)
  BY <1>1, WFMin, Zenon
<1>3. ASSUME NEW y \in S
      PROVE  x <= y
  <2>1. ~ (<<y, x>> \in R) /\ x \in Nat /\ y \in Nat
    BY <1>2
  <2> QED BY <2>1
<1> QED BY <1>3

LEMMA MinIsLeast ==
    ASSUME NEW S, S \subseteq Nat, S # {}
    PROVE  Min(S) \in S /\ \A y \in S : Min(S) <= y
<1>1. \E x \in S : \A y \in S : x <= y
  BY LeastNumber
<1> QED BY <1>1 DEF Min

LEMMA MaxIsGreatest ==
    ASSUME NEW n \in Nat, NEW S, S \subseteq 1 .. n, S # {}
    PROVE  Max(S) \in S /\ \A y \in S : y <= Max(S)
<1> DEFINE T == {z \in Nat : \E y \in S : y + z = n}
<1>1. T \subseteq Nat /\ T # {}
  <2>1. PICK y \in S : TRUE
    OBVIOUS
  <2>2. n - y \in T
    BY <2>1
  <2> QED BY <2>2
<1>2. PICK z \in T : \A w \in T : z <= w
  BY <1>1, LeastNumber
<1>3. PICK y \in S : y + z = n
  BY <1>2
<1>4. ASSUME NEW x \in S
      PROVE  x <= y
  <2>1. n - x \in T
    BY <1>4
  <2>2. z <= n - x
    BY <2>1, <1>2
  <2>3. x \in Nat /\ y \in Nat /\ z \in Nat
    OBVIOUS
  <2> QED BY <2>2, <2>3, <1>3
<1>5. \E x \in S : \A w \in S : w <= x
  BY <1>4
<1> QED BY <1>5 DEF Max

(***************************************************************************)
(* FoldLeft takes its result from a function on the sets of positions.     *)
(* Such a function exists, if step[i] makes a member of A of a member of   *)
(* A: from one for the positions up to k - 1 comes one for those up to k.  *)
(***************************************************************************)
IsFold(g, n, A, base, step) ==
    /\ g \in [SUBSET (1 .. n) -> A]
    /\ \A s \in SUBSET (1 .. n) :
         g[s] = IF s = {} THEN base ELSE step[Max(s)][g[s \ {Max(s)}]]

\* The same of a function that is known to be one only where it stays in A.
FoldsIn(f, n, A, base, step) ==
    /\ f[{}] = base
    /\ \A s \in SUBSET (1 .. n) :
         s # {} /\ f[s \ {Max(s)}] \in A => f[s] = step[Max(s)][f[s \ {Max(s)}]]

LEMMA FoldExtends ==
    ASSUME NEW k \in Nat, NEW A, NEW base \in A, NEW step, step[k + 1] \in [A -> A],
           NEW g, IsFold(g, k, A, base, step)
    PROVE  \E h : IsFold(h, k + 1, A, base, step)
<1> DEFINE h == [s \in SUBSET (1 .. k + 1) |-> IF k + 1 \in s THEN step[k + 1][g[s \ {k + 1}]] ELSE g[s]]
<1>1. \A s \in SUBSET (1 .. k + 1) : s \ {k + 1} \in SUBSET (1 .. k)
  OBVIOUS
<1>2. \A s \in SUBSET (1 .. k) : s \in SUBSET (1 .. k + 1) /\ k + 1 \notin s /\ g[s] \in A
  BY DEF IsFold
<1>3. \A s \in SUBSET (1 .. k + 1) : k + 1 \notin s => s \in SUBSET (1 .. k)
  OBVIOUS
<1>4. h \in [SUBSET (1 .. k + 1) -> A]
  <2>1. ASSUME NEW s \in SUBSET (1 .. k + 1)
        PROVE  (IF k + 1 \in s THEN step[k + 1][g[s \ {k + 1}]] ELSE g[s]) \in A
    BY <1>1, <1>2, <1>3
  <2> QED BY <2>1
<1>5. \A s \in SUBSET (1 .. k) : h[s] = g[s]
  BY <1>2
<1>6. ASSUME NEW s \in SUBSET (1 .. k + 1)
      PROVE  h[s] = IF s = {} THEN base ELSE step[Max(s)][h[s \ {Max(s)}]]
  <2>1. CASE k + 1 \in s
    <3>1. Max(s) \in s /\ \A y \in s : y <= Max(s)
      <4>1. k + 1 \in Nat /\ s \subseteq 1 .. k + 1 /\ s # {}
        BY <2>1
      <4> QED BY <4>1, MaxIsGreatest
    <3>2. Max(s) = k + 1
      <4>1. Max(s) \in 1 .. k + 1
        BY <3>1
      <4>2. k + 1 <= Max(s)
        BY <2>1, <3>1
      <4> QED BY <4>1, <4>2
    <3>3. h[s \ {k + 1}] = g[s \ {k + 1}]
      BY <1>1, <1>5
    <3>4. h[s] = step[k + 1][g[s \ {k + 1}]]
      BY <2>1
    <3> QED BY <2>1, <3>2, <3>3, <3>4
  <2>2. CASE k + 1 \notin s
    <3>1. s \in SUBSET (1 .. k) /\ s \ {Max(s)} \in SUBSET (1 .. k)
      BY <2>2, <1>3
    <3>2. h[s] = g[s] /\ h[s \ {Max(s)}] = g[s \ {Max(s)}]
      BY <3>1, <1>5
    <3>3. g[s] = IF s = {} THEN base ELSE step[Max(s)][g[s \ {Max(s)}]]
      BY <3>1 DEF IsFold
    <3> HIDE DEF h
    <3> QED BY <3>2, <3>3
  <2> QED BY <2>1, <2>2
<1> HIDE DEF h
<1> QED BY <1>4, <1>6 DEF IsFold

LEMMA FoldExists ==
    ASSUME NEW n \in Nat, NEW A, NEW base \in A, NEW step, \A i \in 1 .. n : step[i] \in [A -> A]
    PROVE  \E g : IsFold(g, n, A, base, step)
<1> DEFINE None_(k) == ~\E g : IsFold(g, k, A, base, step)
           T == {k \in 0 .. n : None_(k)}
<1> SUFFICES ASSUME T # {}
             PROVE  FALSE
  OBVIOUS
<1>1. PICK k \in T : \A j \in T : k <= j
  <2>1. T \subseteq Nat
    OBVIOUS
  <2> HIDE DEF T
  <2> QED BY <2>1, LeastNumber
<1>2. CASE k = 0
  <2>1. PICK g : g = [s \in SUBSET (1 .. 0) |-> base]
    OBVIOUS
  <2>2. \A s \in SUBSET (1 .. 0) : s = {}
    OBVIOUS
  <2>3. IsFold(g, 0, A, base, step)
    BY <2>1, <2>2 DEF IsFold
  <2> QED BY <1>1, <1>2, <2>3
<1>3. CASE k # 0
  <2>1. k - 1 \in 0 .. n /\ k - 1 \notin T /\ k - 1 \in Nat /\ (k - 1) + 1 = k /\ k \in 1 .. n
    BY <1>1, <1>3
  <2>2. PICK g : IsFold(g, k - 1, A, base, step)
    BY <2>1
  <2>3. \E h : IsFold(h, (k - 1) + 1, A, base, step)
    BY <2>1, <2>2, FoldExtends
  <2> QED BY <1>1, <2>1, <2>3
<1> QED BY <1>2, <1>3

\* What a fold does on the first j positions, for j from 0 on.
LEMMA FoldRuns ==
    ASSUME NEW n \in Nat, NEW A, NEW base \in A, NEW step, \A i \in 1 .. n : step[i] \in [A -> A],
           NEW iter, FoldsIn(iter, n, A, base, step)
    PROVE  /\ \A j \in 0 .. n : iter[1 .. j] \in A
           /\ \A j \in 1 .. n : iter[1 .. j] = step[j][iter[1 .. j - 1]]
<1>1. ASSUME NEW j \in 1 .. n
      PROVE  /\ 1 .. j \in SUBSET (1 .. n) /\ 1 .. j # {}
             /\ Max(1 .. j) = j /\ (1 .. j) \ {j} = 1 .. j - 1
  <2>1. 1 .. j \subseteq 1 .. n /\ j \in 1 .. j
    OBVIOUS
  <2>2. Max(1 .. j) \in 1 .. j /\ \A y \in 1 .. j : y <= Max(1 .. j)
    BY <2>1, MaxIsGreatest
  <2>3. Max(1 .. j) = j
    BY <2>1, <2>2
  <2>4. (1 .. j) \ {j} = 1 .. j - 1
    OBVIOUS
  <2>5. 1 .. j # {}
    BY <2>1
  <2> QED BY <2>1, <2>3, <2>4, <2>5
<1>2. ASSUME NEW j \in 1 .. n, iter[1 .. j - 1] \in A
      PROVE  iter[1 .. j] = step[j][iter[1 .. j - 1]] /\ iter[1 .. j] \in A
  <2> DEFINE s == 1 .. j
  <2>1. s \in SUBSET (1 .. n) /\ s # {} /\ Max(s) = j /\ s \ {Max(s)} = 1 .. j - 1
    BY <1>1
  <2> HIDE DEF s
  <2>2. iter[s] = step[Max(s)][iter[s \ {Max(s)}]]
    BY <2>1, <1>2 DEF FoldsIn
  <2>3. iter[s] = step[j][iter[1 .. j - 1]]
    BY <2>1, <2>2
  <2>4. step[j][iter[1 .. j - 1]] \in A
    BY <1>2
  <2> QED BY <2>3, <2>4 DEF s
<1> DEFINE T == {j \in 0 .. n : iter[1 .. j] \notin A}
<1>3. T = {}
  <2> SUFFICES ASSUME T # {}
               PROVE  FALSE
    OBVIOUS
  <2>1. PICK k \in T : \A j \in T : k <= j
    <3>1. T \subseteq Nat
      OBVIOUS
    <3> HIDE DEF T
    <3> QED BY <3>1, LeastNumber
  <2>2. 1 .. 0 = {}
    OBVIOUS
  <2>3. k # 0
    BY <2>1, <2>2 DEF FoldsIn
  <2>4. k \in 1 .. n /\ k - 1 \in 0 .. n /\ ~(k <= k - 1)
    BY <2>1, <2>3
  <2>5. iter[1 .. k - 1] \in A
    BY <2>1, <2>4
  <2> QED BY <2>1, <2>4, <2>5, <1>2
<1>4. \A j \in 0 .. n : iter[1 .. j] \in A
  BY <1>3
<1>5. \A j \in 1 .. n : j - 1 \in 0 .. n
  OBVIOUS
<1> QED BY <1>2, <1>4, <1>5

-----------------------------------------------------------------------------
(* Paths *)

Parts == Names \cup {DOT, DOTDOT}

\* The loop body of normalize_path.
Normalized(done, part) ==
    CASE part = DOT    -> done
      [] part = DOTDOT -> IF done = <<>> THEN <<>> ELSE Front(done)
      [] OTHER         -> Append(done, part)

LEMMA NormalizedType ==
    ASSUME NEW done \in Seq(Names), NEW part \in Parts
    PROVE  Normalized(done, part) \in Seq(Names)
<1> USE DEF DOT, DOTDOT
<1>1. CASE part = DOT
  BY <1>1 DEF Normalized
<1>2. CASE part # DOT /\ part = DOTDOT
  <2>1. CASE done = <<>>
    BY <1>2, <2>1 DEF Normalized
  <2>2. CASE done # <<>>
    <3>1. Normalized(done, part) = SubSeq(done, 1, Len(done) - 1)
      BY <1>2, <2>2 DEF Normalized, Front
    <3>2. SubSeq(done, 1, Len(done) - 1) \in Seq(Names)
      BY <2>2
    <3> QED BY <3>1, <3>2
  <2> QED BY <2>1, <2>2
<1>3. CASE part # DOT /\ part # DOTDOT
  BY <1>3 DEF Normalized, Parts
<1> QED BY <1>1, <1>2, <1>3

\* A normalised path has only names in it.
LEMMA NormalizeType ==
    ASSUME NEW parts \in Seq(Parts)
    PROVE  normalize_path(parts) \in Seq(Names)
<1> DEFINE n == Len(parts)
           A == Seq(Names)
           Eq(f) == f = [s \in SUBSET (1 .. n) |->
                           IF s = {} THEN <<>> ELSE Normalized(f[s \ {Max(s)}], parts[Max(s)])]
<1>1. n \in Nat /\ DOMAIN parts = 1 .. n /\ <<>> \in A /\ \A i \in 1 .. n : parts[i] \in Parts
  OBVIOUS
<1>2. PICK step : step = [i \in 1 .. n |-> [d \in A |-> Normalized(d, parts[i])]]
  OBVIOUS
<1>3. \A i \in 1 .. n : step[i] \in [A -> A]
  BY <1>1, <1>2, NormalizedType
<1> HIDE DEF A, n
<1>4. PICK g : IsFold(g, n, A, <<>>, step)
  BY <1>1, <1>3, FoldExists
<1>5. Eq(g)
  <2>1. ASSUME NEW s \in SUBSET (1 .. n)
        PROVE  g[s] = IF s = {} THEN <<>> ELSE Normalized(g[s \ {Max(s)}], parts[Max(s)])
    <3>1. g[s] = IF s = {} THEN <<>> ELSE step[Max(s)][g[s \ {Max(s)}]]
      BY <1>4 DEF IsFold
    <3>2. ASSUME s # {}
          PROVE  Max(s) \in 1 .. n /\ g[s \ {Max(s)}] \in A
      <4>1. Max(s) \in s
        BY <3>2, <1>1, MaxIsGreatest
      <4>2. s \ {Max(s)} \in SUBSET (1 .. n)
        OBVIOUS
      <4> QED BY <4>1, <4>2, <1>4 DEF IsFold
    <3> QED BY <3>1, <3>2, <1>2
  <2>2. g \in [SUBSET (1 .. n) -> A]
    BY <1>4 DEF IsFold
  <2> QED BY <2>1, <2>2
<1> DEFINE iter == CHOOSE f : Eq(f)
<1>6. Eq(iter)
  BY <1>5
<1>7. normalize_path(parts) = iter[1 .. n]
  BY <1>1 DEF normalize_path, FoldLeft, MapThenFoldSet, Normalized
<1> HIDE DEF iter
<1>8. iter[{}] = <<>>
  BY <1>6
<1>9. \A s \in SUBSET (1 .. n) :
        s # {} /\ iter[s \ {Max(s)}] \in A => iter[s] = step[Max(s)][iter[s \ {Max(s)}]]
  <2> SUFFICES ASSUME NEW s \in SUBSET (1 .. n), s # {}, iter[s \ {Max(s)}] \in A
               PROVE  iter[s] = step[Max(s)][iter[s \ {Max(s)}]]
    OBVIOUS
  <2>1. iter[s] = Normalized(iter[s \ {Max(s)}], parts[Max(s)])
    BY <1>6
  <2>2. Max(s) \in 1 .. n
    BY <1>1, MaxIsGreatest
  <2> QED BY <2>1, <2>2, <1>2
<1>10. \A j \in 0 .. n : iter[1 .. j] \in A
  <2>1. FoldsIn(iter, n, A, <<>>, step)
    BY <1>8, <1>9 DEF FoldsIn
  <2> QED BY <2>1, <1>1, <1>3, FoldRuns
<1> QED BY <1>1, <1>7, <1>10 DEF A

LEMMA ResolveType ==
    ASSUME NEW user \in UserPaths, NEW dir \in Seq(Names)
    PROVE  resolve_path(user, dir) \in Seq(Names)
<1>1. user.parts \in Seq(Parts) /\ dir \in Seq(Parts)
  BY PathsAssumption DEF Parts
<1>2. dir \o user.parts \in Seq(Parts)
  BY <1>1
<1> QED BY <1>1, <1>2, NormalizeType DEF resolve_path

-----------------------------------------------------------------------------
(* getdents *)

Listed == [name : Names, type : {"File", "Directory"}]

\* What has been packed after some entries.
Packs(buf_len) == {p \in [count : Nat, offset : Nat, full : BOOLEAN] : p.offset <= buf_len}
Nothing == [count |-> 0, offset |-> 0, full |-> FALSE]

\* The loop body of SYS_GETDENTS.
PackOne(p, entry, buf_len) ==
    IF p.full \/ p.offset + entry_size(entry) > buf_len
    THEN [p EXCEPT !.full = TRUE]
    ELSE [p EXCEPT !.count = @ + 1, !.offset = @ + entry_size(entry)]

LEMMA EntrySize ==
    ASSUME NEW entry \in Listed
    PROVE  entry_size(entry) \in Nat /\ entry_size(entry) > 0
<1>1. entry.name \in Nat
  BY NamesAssumption DEF Listed
<1> QED BY <1>1 DEF entry_size, NameLen

LEMMA PackOneType ==
    ASSUME NEW buf_len \in Nat, NEW p \in Packs(buf_len), NEW entry \in Listed
    PROVE  /\ PackOne(p, entry, buf_len) \in Packs(buf_len)
           /\ PackOne(p, entry, buf_len).offset >= p.offset
<1>1. entry_size(entry) \in Nat
  BY EntrySize
<1>0. p \in [count : Nat, offset : Nat, full : BOOLEAN] /\ p.offset <= buf_len
  BY DEF Packs
<1>2. CASE p.full \/ p.offset + entry_size(entry) > buf_len
  <2>1. PackOne(p, entry, buf_len) = [count |-> p.count, offset |-> p.offset, full |-> TRUE]
    BY <1>0, <1>2 DEF PackOne
  <2> QED BY <1>0, <2>1 DEF Packs
<1>3. CASE ~(p.full \/ p.offset + entry_size(entry) > buf_len)
  <2>1. PackOne(p, entry, buf_len) = [count |-> p.count + 1,
                                      offset |-> p.offset + entry_size(entry), full |-> p.full]
    BY <1>0, <1>3 DEF PackOne
  <2> QED BY <1>0, <1>1, <1>3, <2>1 DEF Packs
<1> QED BY <1>2, <1>3

\* What one call of getdents packs: never too much, and something if the first entry fits.
LEMMA PackedSound ==
    ASSUME NEW buf_len \in Nat, NEW dir, Rest(dir) \in Seq(Listed)
    PROVE  /\ Packed(dir, buf_len) \in Packs(buf_len)
           /\ Packed(dir, buf_len).offset = 0 =>
                Rest(dir) = <<>> \/ entry_size(Head(Rest(dir))) > buf_len
<1> DEFINE seq == Rest(dir)
           n == Len(seq)
           A == Packs(buf_len)
           Eq(f) == f = [s \in SUBSET (1 .. n) |->
                           IF s = {} THEN Nothing ELSE PackOne(f[s \ {Max(s)}], seq[Max(s)], buf_len)]
<1>1. n \in Nat /\ DOMAIN seq = 1 .. n /\ \A i \in 1 .. n : seq[i] \in Listed
  OBVIOUS
<1>2. Nothing \in A
  BY DEF Nothing, Packs
<1>3. PICK step : step = [i \in 1 .. n |-> [d \in A |-> PackOne(d, seq[i], buf_len)]]
  OBVIOUS
<1>4. \A i \in 1 .. n : step[i] \in [A -> A]
  BY <1>1, <1>3, PackOneType
<1> HIDE DEF A, n
<1>5. PICK g : IsFold(g, n, A, Nothing, step)
  BY <1>1, <1>2, <1>4, FoldExists
<1>6. Eq(g)
  <2>1. ASSUME NEW s \in SUBSET (1 .. n)
        PROVE  g[s] = IF s = {} THEN Nothing ELSE PackOne(g[s \ {Max(s)}], seq[Max(s)], buf_len)
    <3>1. g[s] = IF s = {} THEN Nothing ELSE step[Max(s)][g[s \ {Max(s)}]]
      BY <1>5 DEF IsFold
    <3>2. ASSUME s # {}
          PROVE  Max(s) \in 1 .. n /\ g[s \ {Max(s)}] \in A
      <4>1. Max(s) \in s
        BY <3>2, <1>1, MaxIsGreatest
      <4>2. s \ {Max(s)} \in SUBSET (1 .. n)
        OBVIOUS
      <4> QED BY <4>1, <4>2, <1>5 DEF IsFold
    <3> QED BY <3>1, <3>2, <1>3
  <2>2. g \in [SUBSET (1 .. n) -> A]
    BY <1>5 DEF IsFold
  <2> QED BY <2>1, <2>2
<1> DEFINE iter == CHOOSE f : Eq(f)
<1>7. Eq(iter)
  BY <1>6
<1>8. Packed(dir, buf_len) = iter[1 .. n]
  BY <1>1 DEF Packed, FoldLeft, MapThenFoldSet, PackOne, Nothing
<1> HIDE DEF iter
<1>9. FoldsIn(iter, n, A, Nothing, step)
  <2>1. iter[{}] = Nothing
    BY <1>7
  <2>2. ASSUME NEW s \in SUBSET (1 .. n), s # {}, iter[s \ {Max(s)}] \in A
        PROVE  iter[s] = step[Max(s)][iter[s \ {Max(s)}]]
    <3>1. iter[s] = PackOne(iter[s \ {Max(s)}], seq[Max(s)], buf_len)
      BY <1>7, <2>2
    <3>2. Max(s) \in 1 .. n
      BY <1>1, <2>2, MaxIsGreatest
    <3> QED BY <3>1, <3>2, <1>3, <2>2
  <2> QED BY <2>1, <2>2 DEF FoldsIn
<1>10. /\ \A j \in 0 .. n : iter[1 .. j] \in A
       /\ \A j \in 1 .. n : iter[1 .. j] = step[j][iter[1 .. j - 1]]
  <2> HIDE DEF seq, Eq
  <2>1. n \in Nat
    BY <1>1
  <2>2. \A j \in 0 .. n : iter[1 .. j] \in A
    BY <2>1, <1>2, <1>4, <1>9, FoldRuns
  <2>3. \A j \in 1 .. n : iter[1 .. j] = step[j][iter[1 .. j - 1]]
    BY <2>1, <1>2, <1>4, <1>9, FoldRuns
  <2> QED BY <2>2, <2>3
<1>11. \A j \in 1 .. n : iter[1 .. j] = PackOne(iter[1 .. j - 1], seq[j], buf_len)
  <2>1. \A j \in 1 .. n : j - 1 \in 0 .. n
    BY <1>1
  <2> QED BY <2>1, <1>3, <1>10
<1>12. Packed(dir, buf_len) \in Packs(buf_len)
  BY <1>1, <1>8, <1>10 DEF A
<1>13. ASSUME seq # <<>>, ~(entry_size(Head(seq)) > buf_len)
       PROVE  iter[1 .. n].offset # 0
  <2> DEFINE T == {j \in 1 .. n : iter[1 .. j].offset = 0}
  <2>1. 1 \in 1 .. n /\ Head(seq) = seq[1] /\ 1 .. 1 - 1 = {} /\ n \in 1 .. n
    BY <1>1, <1>13 DEF n
  <2>2. iter[1 .. 1] = PackOne(Nothing, seq[1], buf_len)
    <3>1. iter[{}] = Nothing
      BY <1>9 DEF FoldsIn
    <3> QED BY <2>1, <3>1, <1>11
  <2>3. iter[1 .. 1].offset > 0 /\ iter[1 .. 1].offset \in Nat
    <3>1. entry_size(seq[1]) \in Nat /\ entry_size(seq[1]) > 0
      BY <1>1, <2>1, EntrySize
    <3>2. ~(0 + entry_size(seq[1]) > buf_len)
      BY <3>1, <2>1, <1>13
    <3>3. /\ Nothing \in [count : Nat, offset : Nat, full : BOOLEAN]
          /\ Nothing.count = 0 /\ Nothing.offset = 0 /\ ~Nothing.full
      BY DEF Nothing
    <3>4. PackOne(Nothing, seq[1], buf_len)
            = [count |-> 0 + 1, offset |-> 0 + entry_size(seq[1]), full |-> Nothing.full]
      BY <3>2, <3>3 DEF PackOne
    <3>5. iter[1 .. 1].offset = entry_size(seq[1])
      BY <2>2, <3>1, <3>4
    <3> QED BY <3>1, <3>5
  <2>4. T = {}
    <3> SUFFICES ASSUME T # {}
                 PROVE  FALSE
      OBVIOUS
    <3>1. PICK k \in T : \A j \in T : k <= j
      <4>1. T \subseteq Nat
        OBVIOUS
      <4> HIDE DEF T
      <4> QED BY <4>1, LeastNumber
    <3>2. k # 1 /\ k \in 1 .. n
      <4>1. iter[1 .. 1].offset # 0
        BY <2>3
      <4> QED BY <4>1, <3>1
    <3>3. k - 1 \in 1 .. n /\ k - 1 \in 0 .. n /\ ~(k <= k - 1)
      BY <3>2, <1>1
    <3>4. iter[1 .. k - 1].offset # 0
      BY <3>1, <3>3
    <3>5. iter[1 .. k].offset >= iter[1 .. k - 1].offset
      <4>1. iter[1 .. k - 1] \in Packs(buf_len)
        BY <3>3, <1>10 DEF A
      <4> QED BY <4>1, <3>2, <1>1, <1>11, PackOneType
    <3>6. iter[1 .. k - 1].offset \in Nat
      BY <3>3, <1>10 DEF A, Packs
    <3> QED BY <3>1, <3>4, <3>5, <3>6
  <2> QED BY <2>1, <2>4
<1> QED BY <1>8, <1>12, <1>13

-----------------------------------------------------------------------------
(* Listings *)

\* A finite set of numbers has an i-th element in order.
LEMMA NthExists ==
    ASSUME NEW S, S \subseteq Nat, IsFiniteSet(S), NEW i \in 1 .. Cardinality(S)
    PROVE  \E n \in S : Cardinality({m \in S : m < n}) = i - 1
<1> DEFINE c == Cardinality(S)
           Below(n) == {m \in S : m < n}
           Has(k) == \E n \in S : Cardinality(Below(n)) = k - 1
           T == {k \in 1 .. c : ~Has(k)}
<1>1. c \in Nat
  BY FS_CardinalityType
<1>2. \A n : IsFiniteSet(Below(n))
  BY FS_Subset
<1> SUFFICES ASSUME T # {}
             PROVE  FALSE
  OBVIOUS
<1>3. PICK k \in T : \A j \in T : k <= j
  <2>1. T \subseteq Nat
    OBVIOUS
  <2> HIDE DEF T
  <2> QED BY <2>1, LeastNumber
<1>4. CASE k = 1
  <2>1. S # {}
    <3>1. c # 0
      BY <1>1, <1>3
    <3> QED BY <3>1, FS_EmptySet
  <2>2. PICK n \in S : \A y \in S : n <= y
    BY <2>1, LeastNumber
  <2>3. Below(n) = {}
    <3>1. ASSUME NEW m \in S
          PROVE  ~(m < n)
      <4>1. n <= m /\ n \in Nat /\ m \in Nat
        BY <2>2
      <4> QED BY <4>1
    <3> QED BY <3>1
  <2>4. Cardinality(Below(n)) = 1 - 1
    <3>1. Cardinality({}) = 0
      BY FS_EmptySet
    <3>2. Cardinality(Below(n)) = 0
      BY <2>3, <3>1
    <3> QED BY <3>2
  <2>5. Has(1)
    BY <2>4
  <2> QED BY <2>5, <1>3, <1>4
<1>5. CASE k # 1
  <2>1. k - 1 \in 1 .. c /\ k - 1 \notin T /\ k \in 1 .. c
    BY <1>1, <1>3, <1>5
  <2>2. PICK n \in S : Cardinality(Below(n)) = (k - 1) - 1
    BY <2>1
  <2>3. n \notin Below(n) /\ IsFiniteSet(Below(n) \cup {n})
        /\ Cardinality(Below(n) \cup {n}) = k - 1
    <3>1. n \notin Below(n)
      OBVIOUS
    <3>2. Cardinality(Below(n) \cup {n}) = Cardinality(Below(n)) + 1
      BY <1>2, <3>1, FS_AddElement
    <3>3. IsFiniteSet(Below(n) \cup {n})
      <4>1. IsFiniteSet(Below(n))
        BY <1>2
      <4> HIDE DEF Below
      <4> QED BY <4>1, FS_AddElement
    <3>4. ((k - 1) - 1) + 1 = k - 1
      BY <2>1
    <3> QED BY <2>2, <3>1, <3>2, <3>3, <3>4
  <2> DEFINE U == {m \in S : n < m}
  <2>4. U # {}
    <3> SUFFICES ASSUME U = {}
                 PROVE  FALSE
      OBVIOUS
    <3>1. S = Below(n) \cup {n}
      <4>1. ASSUME NEW m \in S
            PROVE  m < n \/ m = n
        <5>1. ~(n < m) /\ n \in Nat /\ m \in Nat
          OBVIOUS
        <5> QED BY <5>1
      <4> QED BY <4>1
    <3>2. c = k - 1
      BY <2>3, <3>1
    <3> QED BY <3>2, <2>1, <1>1
  <2>5. PICK p \in U : \A y \in U : p <= y
    BY <2>4, LeastNumber
  <2>6. Below(p) = Below(n) \cup {n}
    <3>1. ASSUME NEW m \in S, m < p
          PROVE  m \in Below(n) \cup {n}
      <4>1. m \notin U
        BY <3>1, <2>5
      <4> QED BY <4>1
    <3>2. ASSUME NEW m \in Below(n) \cup {n}
          PROVE  m \in S /\ m < p
      BY <2>5
    <3> QED BY <3>1, <3>2
  <2>7. Cardinality(Below(p)) = k - 1 /\ p \in S
    BY <2>3, <2>5, <2>6
  <2> QED BY <2>7, <1>3
<1> QED BY <1>4, <1>5

Data == Bytes \cup {0}
Node == [type : {"File", "Directory"}, data : Seq(Data)]

Others == [kind : {"None", "Stdin", "Stdout", "Stderr"}]
Handles == [kind : {"File"}, data : Seq(Data), position : Nat, path : Seq(Names),
           flags : OpenFlags, fresh : BOOLEAN]
Directories == [kind : {"Directory"}, path : Seq(Names), entries : Seq(Listed), position : Nat]
Entry == Others \cup Handles \cup Directories

TreeType == /\ IsFiniteSet(DOMAIN tree)
            /\ DOMAIN tree \subseteq Seq(Names)
            /\ tree \in [DOMAIN tree -> Node]

FilesType == /\ TreeType
             /\ fds \in [Tasks -> [Fd -> Entry]]
             /\ cwd \in [Tasks -> Seq(Names)]

\* What a directory's listing consists of.
LEMMA DirEntriesType ==
    ASSUME TreeType, NEW path \in Seq(Names)
    PROVE  DirEntries(path) \in Seq(Listed)
<1> DEFINE names == {Last(p) : p \in Children(path)}
           nth(i) == CHOOSE n \in names : Cardinality({m \in names : m < n}) = i - 1
           c == Cardinality(names)
<1>1. IsFiniteSet(names) /\ names \subseteq Names
  <2>1. IsFiniteSet(Children(path))
    BY FS_Subset DEF Children, TreeType
  <2>2. IsFiniteSet(names)
    <3>1. PICK f : f = [p \in Children(path) |-> Last(p)]
      OBVIOUS
    <3>2. f \in Surjection(Children(path), names)
      BY <3>1 DEF Surjection
    <3> HIDE DEF names
    <3> QED BY <2>1, <3>2, FS_Surjection
  <2>3. ASSUME NEW p \in Children(path)
        PROVE  Last(p) \in Names
    <3>1. p \in Seq(Names) /\ p # <<>>
      BY DEF Children, TreeType
    <3> QED BY <3>1 DEF Last
  <2> QED BY <2>2, <2>3
<1>2. c \in Nat
  BY <1>1, FS_CardinalityType
<1>3. ASSUME NEW i \in 1 .. c
      PROVE  nth(i) \in names
  <2>1. names \subseteq Nat
    BY <1>1, NamesAssumption
  <2> HIDE DEF names
  <2>2. \E n \in names : Cardinality({m \in names : m < n}) = i - 1
    BY <2>1, <1>1, NthExists
  <2> QED BY <2>2
<1> HIDE DEF nth
<1>4. ASSUME NEW i \in 1 .. c
      PROVE  [name |-> nth(i), type |-> tree[Append(path, nth(i))].type] \in Listed
  <2>1. PICK p \in Children(path) : nth(i) = Last(p)
    BY <1>3
  <2>2. p \in DOMAIN tree /\ p \in Seq(Names) /\ p # <<>> /\ Front(p) = path
    BY DEF Children, TreeType
  <2>3. Append(Front(p), Last(p)) = p
    BY <2>2 DEF Front, Last
  <2>4. Append(path, nth(i)) \in DOMAIN tree
    BY <2>1, <2>2, <2>3
  <2>5. tree[Append(path, nth(i))].type \in {"File", "Directory"}
    BY <2>4 DEF TreeType, Node
  <2>6. nth(i) \in Names
    BY <1>1, <1>3
  <2> QED BY <2>5, <2>6 DEF Listed
<1>5. DirEntries(path) = [i \in 1 .. c |-> [name |-> nth(i), type |-> tree[Append(path, nth(i))].type]]
  BY DEF DirEntries, nth
<1> HIDE DEF c
<1>6. DirEntries(path) \in [1 .. c -> Listed]
  BY <1>4, <1>5
<1> QED BY <1>2, <1>6

-----------------------------------------------------------------------------
(* Slots, the descriptor table and the tree *)

LEMMA KindOf ==
    ASSUME NEW e \in Entry
    PROVE  /\ e.kind = "File" <=> e \in Handles
           /\ e.kind = "Directory" <=> e \in Directories
           /\ e = None => e.kind = "None"
BY DEF Entry, Others, Handles, Directories, None

LEMMA PathsOfType ==
    ASSUME FilesType, NEW t \in Tasks, NEW path \in PathsOf(t)
    PROVE  path \in Seq(Names)
<1>1. cwd[t] \in Seq(Names)
  BY DEF FilesType
<1> QED BY <1>1, ResolveType DEF PathsOf

\* FdTable::alloc changes nothing but a free slot.
LEMMA FdAlloc ==
    ASSUME FilesType, NEW t \in Tasks, NEW e \in Entry
    PROVE  /\ fd_alloc(t, e) \in [Tasks -> [Fd -> Entry]]
           /\ \A u \in Tasks, fd \in Fd :
                \/ fd_alloc(t, e)[u][fd] = fds[u][fd]
                \/ fds[u][fd] = None /\ fd_alloc(t, e)[u][fd] = e
<1>1. fds \in [Tasks -> [Fd -> Entry]]
  BY DEF FilesType
<1>2. CASE FreeFds(t) = {}
  BY <1>1, <1>2 DEF fd_alloc
<1>3. CASE FreeFds(t) # {}
  <2>1. FreeFds(t) \subseteq Nat
    BY FdsAssumption DEF FreeFds, Fd
  <2>2. Min(FreeFds(t)) \in FreeFds(t)
    BY <1>3, <2>1, MinIsLeast
  <2>3. PICK m \in Fd : m = Min(FreeFds(t)) /\ fds[t][m] = None
    BY <2>2 DEF FreeFds
  <2>4. fd_alloc(t, e) = [fds EXCEPT ![t][m] = e]
    BY <1>3, <2>3 DEF fd_alloc
  <2> QED BY <1>1, <2>3, <2>4
<1> QED BY <1>2, <1>3

\* What the history variable's update does to a table.
LEMMA OutdatedSlots ==
    ASSUME FilesType, NEW path
    PROVE  /\ AllOutdated(path) \in [Tasks -> [Fd -> Entry]]
           /\ \A u \in Tasks, fd \in Fd :
                IF fds[u][fd].kind = "File" /\ fds[u][fd].path = path
                THEN AllOutdated(path)[u][fd] = [fds[u][fd] EXCEPT !.fresh = FALSE]
                ELSE AllOutdated(path)[u][fd] = fds[u][fd]
<1>1. fds \in [Tasks -> [Fd -> Entry]]
  BY DEF FilesType
<1>2. ASSUME NEW u \in Tasks, NEW fd \in Fd
      PROVE  AllOutdated(path)[u][fd]
               = IF fds[u][fd].kind = "File" /\ fds[u][fd].path = path
                 THEN [fds[u][fd] EXCEPT !.fresh = FALSE] ELSE fds[u][fd]
  BY DEF AllOutdated, Outdated
<1>3. ASSUME NEW u \in Tasks, NEW fd \in Fd
      PROVE  AllOutdated(path)[u][fd] \in Entry
  <2>1. fds[u][fd] \in Entry
    BY <1>1
  <2>2. CASE fds[u][fd].kind = "File" /\ fds[u][fd].path = path
    <3>1. fds[u][fd] \in Handles
      BY <2>1, <2>2, KindOf
    <3>2. [fds[u][fd] EXCEPT !.fresh = FALSE] \in Handles
      BY <3>1 DEF Handles
    <3> QED BY <1>2, <2>2, <3>2 DEF Entry
  <2>3. CASE ~(fds[u][fd].kind = "File" /\ fds[u][fd].path = path)
    BY <1>2, <2>1, <2>3
  <2> QED BY <2>2, <2>3
<1>4. \A u \in Tasks : AllOutdated(path)[u] \in [Fd -> Entry]
  <2>1. \A u \in Tasks : AllOutdated(path)[u] = [fd \in Fd |-> AllOutdated(path)[u][fd]]
    BY DEF AllOutdated, Outdated
  <2> QED BY <2>1, <1>3
<1>5. AllOutdated(path) \in [Tasks -> [Fd -> Entry]]
  <2>1. AllOutdated(path) = [u \in Tasks |-> AllOutdated(path)[u]]
    BY DEF AllOutdated
  <2> QED BY <2>1, <1>4
<1> QED BY <1>2, <1>5

\* The copy of a handle after a write: what was written is in it.
LEMMA WrittenData ==
    ASSUME NEW h \in Handles, NEW byte \in Bytes, h.position <= Len(h.data)
    PROVE  /\ Written(h, byte) \in Seq(Data)
           /\ WriteAt(h) \in Nat /\ WriteAt(h) >= h.position
           /\ WriteAt(h) + 1 <= Len(Written(h, byte))
<1>1. h.data \in Seq(Data) /\ h.position \in Nat /\ Len(h.data) \in Nat
  BY DEF Handles
<1>2. WriteAt(h) \in Nat /\ WriteAt(h) >= h.position
  BY <1>1 DEF WriteAt
<1> DEFINE end == WriteAt(h) + 1
           n == IF end > Len(h.data) THEN end ELSE Len(h.data)
<1>3. n \in Nat /\ end <= n
  BY <1>1, <1>2
<1>4. Written(h, byte)
        = [i \in 1 .. n |->
             IF i = end THEN byte ELSE IF i <= Len(h.data) THEN h.data[i] ELSE 0]
  BY DEF Written
<1>5. \A i \in 1 .. n : (IF i = end THEN byte ELSE IF i <= Len(h.data) THEN h.data[i] ELSE 0) \in Data
  <2>1. \A i \in 1 .. n : i <= Len(h.data) => h.data[i] \in Data
    <3> HIDE DEF n
    <3> QED BY <1>1, <1>3
  <2> QED BY <2>1 DEF Data
<1> HIDE DEF n, end
<1>6. Written(h, byte) \in Seq(Data) /\ Len(Written(h, byte)) = n
  BY <1>3, <1>4, <1>5
<1> QED BY <1>2, <1>3, <1>6 DEF end

LEMMA WithType ==
    ASSUME TreeType, NEW path \in Seq(Names), NEW node \in Node
    PROVE  /\ IsFiniteSet(DOMAIN With(path, node))
           /\ DOMAIN With(path, node) \subseteq Seq(Names)
           /\ With(path, node) \in [DOMAIN With(path, node) -> Node]
<1>1. DOMAIN With(path, node) = DOMAIN tree \cup {path}
  BY DEF With
<1>2. IsFiniteSet(DOMAIN tree \cup {path})
  BY FS_AddElement DEF TreeType
<1> QED BY <1>1, <1>2 DEF With, TreeType

LEMMA WithoutType ==
    ASSUME TreeType, NEW path
    PROVE  /\ IsFiniteSet(DOMAIN Without(path))
           /\ DOMAIN Without(path) \subseteq Seq(Names)
           /\ Without(path) \in [DOMAIN Without(path) -> Node]
<1>1. DOMAIN Without(path) = DOMAIN tree \ {path}
  BY DEF Without
<1>2. IsFiniteSet(DOMAIN tree \ {path})
  BY FS_RemoveElement DEF TreeType
<1> QED BY <1>1, <1>2 DEF Without, TreeType

-----------------------------------------------------------------------------
(* The inductive invariant *)

\* Every node but the root is in a directory.
Rooted == \A p \in DOMAIN tree : p # <<>> => IsDir(Front(p))

\* The slot's copy is current while it should be, and its position is in the copy.
SlotOK(e, nodes) ==
  e.kind = "File" =>
    /\ e.fresh => /\ e.path \in DOMAIN nodes /\ nodes[e.path].type = "File"
                  /\ nodes[e.path].data = e.data
    /\ e.position <= Len(e.data)

Slots == \A t \in Tasks, fd \in Fd : SlotOK(fds[t][fd], tree)

FilesInv == FilesType /\ Rooted /\ Slots

\* What NothingLost and DescriptorStable say of one step.
NoLoss ==
  \A p \in DOMAIN tree :
    IF p \notin DOMAIN tree' THEN Children(p) = {}
    ELSE /\ tree'[p].type = tree[p].type
         /\ \/ tree'[p].data = tree[p].data
            \/ \E t \in Tasks, fd \in Fd :
                 LET h == fds[t][fd]
                 IN  /\ h.kind = "File" /\ h.path = p /\ is_writable(h.flags)
                     /\ fds'[t][fd].kind = "File"
                     /\ fds'[t][fd].data = tree'[p].data

Stable ==
  \A t \in Tasks, fd \in Fd :
    LET old == fds[t][fd]
        new == fds'[t][fd]
    IN  \/ old = None
        \/ new = None /\ fd >= 3
        \/ /\ new.kind = old.kind
           /\ old.kind \in {"File", "Directory"} =>
                new.path = old.path /\ new.position >= old.position
           /\ old.kind = "File" => new.flags = old.flags
           /\ old.kind = "Directory" => new.entries = old.entries

Kept == FilesInv' /\ NoLoss /\ Stable

LEMMA FilesInit == Init => FilesInv
<1> SUFFICES ASSUME Init
             PROVE  FilesInv
  OBVIOUS
<1>1. DOMAIN tree = {<<>>} /\ tree[<<>>] = Directory
  BY DEF Init
<1>2. TreeType
  <2>1. IsFiniteSet({<<>>})
    BY FS_Singleton
  <2>2. Directory \in Node
    BY DEF Directory, Node
  <2> QED BY <1>1, <2>1, <2>2 DEF TreeType, Init
<1>3. NewTable \in [Fd -> Others]
  BY DEF NewTable, Others, None
<1>4. fds \in [Tasks -> [Fd -> Entry]] /\ \A t \in Tasks, fd \in Fd : fds[t][fd] \in Others
  BY <1>3 DEF Init, Entry
<1>5. cwd \in [Tasks -> Seq(Names)]
  BY DEF Init
<1>6. Slots
  BY <1>4 DEF Slots, SlotOK, Others
<1>7. Rooted
  BY <1>1 DEF Rooted
<1> QED BY <1>2, <1>4, <1>5, <1>6, <1>7 DEF FilesInv, FilesType

\* A step that leaves the tree alone.
LEMMA TreeKept ==
    ASSUME FilesInv, UNCHANGED tree
    PROVE  TreeType' /\ Rooted' /\ NoLoss
<1>1. TreeType'
  BY DEF FilesInv, FilesType, TreeType
<1>2. Rooted'
  BY DEF FilesInv, Rooted, IsDir
<1>3. NoLoss
  BY DEF NoLoss
<1> QED BY <1>1, <1>2, <1>3

\* A step that leaves the descriptors alone.
LEMMA StableUnchanged ==
    ASSUME FilesInv, UNCHANGED fds
    PROVE  Stable
<1> SUFFICES ASSUME NEW t \in Tasks, NEW fd \in Fd
             PROVE  /\ fds[t][fd].kind = "File" \/ fds[t][fd].kind = "Directory" =>
                         fds[t][fd].position >= fds[t][fd].position
  BY DEF Stable
<1>1. fds[t][fd] \in Entry
  BY DEF FilesInv, FilesType
<1> QED BY <1>1, KindOf DEF Handles, Directories

\* open fills a free slot, and does nothing when there is none.
LEMMA AllocKeeps ==
    ASSUME FilesInv, NEW t \in Tasks, NEW e \in Entry, fds' = fd_alloc(t, e), UNCHANGED cwd,
           TreeType', Rooted', NoLoss,
           \A p \in DOMAIN tree : p \in DOMAIN tree' /\ tree'[p] = tree[p],
           SlotOK(e, tree')
    PROVE  Kept
<1>1. FilesType
  BY DEF FilesInv
<1>2. fds' \in [Tasks -> [Fd -> Entry]]
  BY <1>1, FdAlloc
<1>3. FilesType'
  BY <1>2 DEF FilesInv, FilesType
<1>4. \A u \in Tasks, fd \in Fd : \/ fds'[u][fd] = fds[u][fd]
                                  \/ fds[u][fd] = None /\ fds'[u][fd] = e
  BY <1>1, FdAlloc
<1>5. Slots'
  <2> SUFFICES ASSUME NEW u \in Tasks, NEW fd \in Fd
               PROVE  SlotOK(fds'[u][fd], tree')
    BY DEF Slots
  <2>1. CASE fds'[u][fd] = e
    BY <2>1
  <2>2. CASE fds'[u][fd] = fds[u][fd]
    <3>1. SlotOK(fds[u][fd], tree)
      BY DEF FilesInv, Slots
    <3> QED BY <2>2, <3>1 DEF SlotOK
  <2> QED BY <2>1, <2>2, <1>4
<1>6. Stable
  <2> SUFFICES ASSUME NEW u \in Tasks, NEW fd \in Fd, fds'[u][fd] = fds[u][fd]
               PROVE  fds[u][fd].kind \in {"File", "Directory"} =>
                         fds[u][fd].position >= fds[u][fd].position
    BY <1>4 DEF Stable
  <2>1. fds[u][fd] \in Entry
    BY <1>1 DEF FilesType
  <2> QED BY <2>1, KindOf DEF Handles, Directories
<1> QED BY <1>3, <1>5, <1>6 DEF Kept, FilesInv

LEMMA OpenDirectory ==
    ASSUME FilesInv, NEW t \in Tasks, NEW path \in PathsOf(t), open_directory(t, path)
    PROVE  Kept
<1>1. path \in Seq(Names)
  BY PathsOfType DEF FilesInv
<1>2. PICK e : e = [kind |-> "Directory", path |-> path,
                    entries |-> DirEntries(path), position |-> 0]
  OBVIOUS
<1>3. DirEntries(path) \in Seq(Listed)
  BY <1>1, DirEntriesType DEF FilesInv, FilesType
<1>4. e \in Entry /\ e.kind = "Directory"
  BY <1>1, <1>2, <1>3 DEF Entry, Directories
<1>5. UNCHANGED tree /\ UNCHANGED cwd /\ fds' = fd_alloc(t, e)
  BY <1>2 DEF open_directory
<1>6. TreeType' /\ Rooted' /\ NoLoss
  BY <1>5, TreeKept
<1>7. SlotOK(e, tree')
  BY <1>4 DEF SlotOK
<1>8. \A p \in DOMAIN tree : p \in DOMAIN tree' /\ tree'[p] = tree[p]
  BY <1>5
<1> QED BY <1>4, <1>5, <1>6, <1>7, <1>8, AllocKeeps

\* A node put where there was none.
LEMMA TreeGrown ==
    ASSUME FilesInv, NEW path \in Seq(Names), NEW node \in Node,
           path \notin DOMAIN tree, HasParent(path), tree' = With(path, node)
    PROVE  /\ TreeType' /\ Rooted' /\ NoLoss
           /\ \A p \in DOMAIN tree : p \in DOMAIN tree' /\ tree'[p] = tree[p]
           /\ path \in DOMAIN tree' /\ tree'[path] = node
<1>1. TreeType
  BY DEF FilesInv, FilesType
<1>2. TreeType'
  BY <1>1, WithType DEF TreeType
<1>3. /\ DOMAIN tree' = DOMAIN tree \cup {path} /\ tree'[path] = node
      /\ \A p \in DOMAIN tree : tree'[p] = tree[p]
  BY DEF With
<1>4. Rooted'
  <2> SUFFICES ASSUME NEW p \in DOMAIN tree', p # <<>>
               PROVE  Front(p) \in DOMAIN tree' /\ tree'[Front(p)].type = "Directory"
    BY DEF Rooted, IsDir
  <2>1. Front(p) \in DOMAIN tree /\ tree[Front(p)].type = "Directory"
    BY <1>3 DEF FilesInv, Rooted, IsDir, HasParent
  <2> QED BY <2>1, <1>3
<1>5. NoLoss
  BY <1>3 DEF NoLoss
<1> QED BY <1>2, <1>3, <1>4, <1>5

LEMMA OpenFile ==
    ASSUME FilesInv, NEW t \in Tasks, NEW path \in PathsOf(t), NEW flags \in OpenFlags,
           open_file(t, path, flags)
    PROVE  Kept
<1>1. path \in Seq(Names)
  BY PathsOfType DEF FilesInv
<1>2. CASE IsFile(path) /\ fds' = fd_alloc(t, OpenedHandle(path, flags)) /\ UNCHANGED tree
  <2> DEFINE data == IF "O_TRUNC" \in flags.opts THEN <<>> ELSE tree[path].data
  <2>1. PICK e : e = OpenedHandle(path, flags)
    OBVIOUS
  <2>2. data \in Seq(Data)
    BY <1>2 DEF IsFile, FilesInv, FilesType, TreeType, Node
  <2>3. e = [kind |-> "File", data |-> data,
             position |-> IF "O_APPEND" \in flags.opts THEN Len(data) ELSE 0,
             path |-> path, flags |-> flags, fresh |-> "O_TRUNC" \notin flags.opts]
    BY <2>1 DEF OpenedHandle, Handle
  <2>4. ("O_TRUNC" \notin flags.opts) \in BOOLEAN
    OBVIOUS
  <2>5. ~("O_TRUNC" \in flags.opts) => data = tree[path].data
    OBVIOUS
  <2>6. e.kind = "File" /\ e.data = data /\ e.path = path /\ (e.fresh => "O_TRUNC" \notin flags.opts)
        /\ e.position = IF "O_APPEND" \in flags.opts THEN Len(data) ELSE 0
    BY <2>3
  <2> HIDE DEF data
  <2>7. Len(data) \in Nat
    BY <2>2
  <2>8. e \in Handles
    BY <1>1, <2>2, <2>3, <2>4, <2>7 DEF Handles
  <2>9. SlotOK(e, tree')
    BY <1>2, <2>5, <2>6, <2>7 DEF SlotOK, IsFile
  <2>10. TreeType' /\ Rooted' /\ NoLoss
    BY <1>2, TreeKept
  <2>11. \A p \in DOMAIN tree : p \in DOMAIN tree' /\ tree'[p] = tree[p]
    BY <1>2
  <2>12. e \in Entry /\ UNCHANGED cwd /\ fds' = fd_alloc(t, e)
    BY <1>2, <2>1, <2>8 DEF Entry, open_file
  <2> QED BY <2>9, <2>10, <2>11, <2>12, AllocKeeps
<1>3. CASE /\ NotFound(path) /\ HasParent(path) /\ tree' = With(path, File(<<>>))
           /\ fds' = fd_alloc(t, Handle(<<>>, 0, path, flags, TRUE))
  <2>1. PICK e : e = Handle(<<>>, 0, path, flags, TRUE)
    OBVIOUS
  <2>2. PICK node : node = File(<<>>)
    OBVIOUS
  <2>3. node \in Node /\ node.type = "File" /\ node.data = <<>>
    BY <2>2 DEF Node, File
  <2>4. e \in Entry
    BY <1>1, <2>1 DEF Entry, Handles, Handle
  <2>5. path \notin DOMAIN tree
    BY <1>3 DEF NotFound
  <2>6. tree' = With(path, node)
    BY <1>3, <2>2
  <2>7. /\ TreeType' /\ Rooted' /\ NoLoss
        /\ \A p \in DOMAIN tree : p \in DOMAIN tree' /\ tree'[p] = tree[p]
        /\ path \in DOMAIN tree' /\ tree'[path] = node
    BY <1>1, <1>3, <2>3, <2>5, <2>6, TreeGrown
  <2>8. SlotOK(e, tree')
    BY <2>1, <2>3, <2>7 DEF SlotOK, Handle
  <2>9. UNCHANGED cwd /\ fds' = fd_alloc(t, e)
    BY <1>3, <2>1 DEF open_file
  <2> QED BY <2>4, <2>7, <2>8, <2>9, AllocKeeps
<1> QED BY <1>2, <1>3 DEF open_file

\* A slot that denotes what it did.
Denotes(old, new) ==
  /\ new.kind = old.kind
  /\ old.kind \in {"File", "Directory"} => new.path = old.path /\ new.position >= old.position
  /\ old.kind = "File" => new.flags = old.flags
  /\ old.kind = "Directory" => new.entries = old.entries

\* A step that changes one slot and nothing else.
LEMMA OneSlot ==
    ASSUME FilesInv, NEW t \in Tasks, NEW fd \in Fd, NEW e \in Entry,
           fds' = [fds EXCEPT ![t][fd] = e], UNCHANGED <<tree, cwd>>, SlotOK(e, tree),
           (e = None /\ fd >= 3) \/ Denotes(fds[t][fd], e)
    PROVE  Kept
<1>1. fds \in [Tasks -> [Fd -> Entry]]
  BY DEF FilesInv, FilesType
<1>2. TreeType' /\ Rooted' /\ NoLoss
  BY TreeKept
<1>3. /\ fds' \in [Tasks -> [Fd -> Entry]]
      /\ fds'[t][fd] = e
      /\ \A u \in Tasks, d \in Fd : u # t \/ d # fd => fds'[u][d] = fds[u][d]
  BY <1>1
<1>4. FilesType'
  BY <1>2, <1>3 DEF FilesInv, FilesType
<1>5. Slots'
  BY <1>3 DEF FilesInv, Slots
<1>6. Stable
  <2> SUFFICES ASSUME NEW u \in Tasks, NEW d \in Fd, u # t \/ d # fd
               PROVE  fds[u][d].kind \in {"File", "Directory"} =>
                         fds[u][d].position >= fds[u][d].position
    BY <1>3 DEF Stable, Denotes
  <2>1. fds[u][d] \in Entry
    BY <1>1
  <2> QED BY <2>1, KindOf DEF Handles, Directories
<1> QED BY <1>2, <1>4, <1>5, <1>6 DEF Kept, FilesInv

LEMMA Read ==
    ASSUME FilesInv, NEW t \in Tasks, sys_read(t)
    PROVE  Kept
<1>1. PICK fd \in Fd :
        /\ fds[t][fd].kind = "File" /\ fds[t][fd].position < Len(fds[t][fd].data)
        /\ fds' = [fds EXCEPT ![t][fd].position = @ + 1]
        /\ UNCHANGED <<tree, cwd>>
  BY DEF sys_read
<1>2. fds \in [Tasks -> [Fd -> Entry]] /\ fds[t][fd] \in Handles
  BY <1>1, KindOf DEF FilesInv, FilesType
<1>3. PICK h : h = fds[t][fd]
  OBVIOUS
<1>4. PICK e : e = [h EXCEPT !.position = @ + 1]
  OBVIOUS
<1>5. /\ e \in Handles /\ e.kind = "File" /\ e.data = h.data /\ e.path = h.path
      /\ e.flags = h.flags /\ e.fresh = h.fresh /\ e.position = h.position + 1
      /\ h.position \in Nat /\ Len(h.data) \in Nat
  <2>1. e = [kind |-> "File", data |-> h.data, position |-> h.position + 1, path |-> h.path,
             flags |-> h.flags, fresh |-> h.fresh]
    BY <1>2, <1>3, <1>4 DEF Handles
  <2>2. h \in Handles
    BY <1>2, <1>3
  <2>3. h.position \in Nat /\ Len(h.data) \in Nat /\ h.position + 1 \in Nat
    BY <2>2 DEF Handles
  <2>4. e \in Handles
    BY <2>1, <2>2, <2>3 DEF Handles
  <2> QED BY <2>1, <2>3, <2>4
<1>6. fds' = [fds EXCEPT ![t][fd] = e]
  BY <1>1, <1>2, <1>3, <1>4
<1>7. SlotOK(h, tree)
  BY <1>3 DEF FilesInv, Slots
<1>8. SlotOK(e, tree)
  BY <1>1, <1>3, <1>5, <1>7 DEF SlotOK
<1>9. e \in Entry /\ Denotes(h, e)
  BY <1>1, <1>3, <1>5 DEF Entry, Denotes
<1> QED BY <1>1, <1>3, <1>6, <1>8, <1>9, OneSlot

LEMMA Close ==
    ASSUME FilesInv, NEW t \in Tasks, sys_close(t)
    PROVE  Kept
<1>1. PICK fd \in Fd : fd >= 3 /\ fds' = [fds EXCEPT ![t][fd] = None] /\ UNCHANGED <<tree, cwd>>
  BY DEF sys_close
<1>2. None \in Entry /\ SlotOK(None, tree)
  BY DEF None, Entry, Others, SlotOK
<1> QED BY <1>1, <1>2, OneSlot

LEMMA Getdents ==
    ASSUME FilesInv, NEW t \in Tasks, sys_getdents(t)
    PROVE  Kept
<1>1. PICK fd \in Fd, buf_len \in BufLens :
        /\ fds[t][fd].kind = "Directory"
        /\ fds' = [fds EXCEPT ![t][fd].position = @ + Packed(fds[t][fd], buf_len).count]
        /\ UNCHANGED <<tree, cwd>>
  BY DEF sys_getdents
<1>2. fds \in [Tasks -> [Fd -> Entry]] /\ fds[t][fd] \in Directories
  BY <1>1, KindOf DEF FilesInv, FilesType
<1>3. PICK d : d = fds[t][fd]
  OBVIOUS
<1>4. PICK n : n = Packed(d, buf_len).count
  OBVIOUS
<1>5. n \in Nat
  <2>1. d.entries \in Seq(Listed) /\ d.position \in Nat
    BY <1>2, <1>3 DEF Directories
  <2>2. Rest(d) \in Seq(Listed)
    BY <2>1 DEF Rest
  <2>3. Packed(d, buf_len) \in Packs(buf_len)
    BY <2>2, BufLensAssumption, PackedSound
  <2> QED BY <1>4, <2>3 DEF Packs
<1>6. PICK e : e = [d EXCEPT !.position = @ + n]
  OBVIOUS
<1>7. /\ e \in Directories /\ e.kind = "Directory" /\ e.entries = d.entries /\ e.path = d.path
      /\ e.position = d.position + n /\ d.position \in Nat
  <2>1. e = [kind |-> "Directory", path |-> d.path, entries |-> d.entries,
             position |-> d.position + n]
    BY <1>2, <1>3, <1>6 DEF Directories
  <2>2. d \in Directories
    BY <1>2, <1>3
  <2>3. d.position \in Nat /\ d.position + n \in Nat
    BY <2>2, <1>5 DEF Directories
  <2>4. e \in Directories
    BY <2>1, <2>2, <2>3 DEF Directories
  <2> QED BY <2>1, <2>3, <2>4
<1>8. fds' = [fds EXCEPT ![t][fd] = e]
  BY <1>1, <1>2, <1>3, <1>4, <1>6
<1>9. e \in Entry /\ SlotOK(e, tree) /\ Denotes(d, e)
  BY <1>1, <1>3, <1>5, <1>7 DEF Entry, SlotOK, Denotes
<1> QED BY <1>1, <1>3, <1>8, <1>9, OneSlot

\* The slots of the others after a write or an unlink of a path: what they denote
\* stays, and those on the path are no longer fresh.
LEMMA OutdatedOK ==
    ASSUME FilesInv, NEW path, NEW u \in Tasks, NEW fd \in Fd,
           \A p \in DOMAIN tree : p # path => p \in DOMAIN tree' /\ tree'[p] = tree[p]
    PROVE  /\ SlotOK(AllOutdated(path)[u][fd], tree')
           /\ Denotes(fds[u][fd], AllOutdated(path)[u][fd])
<1>1. FilesType /\ fds[u][fd] \in Entry /\ SlotOK(fds[u][fd], tree)
  BY DEF FilesInv, FilesType, Slots
<1>2. PICK old : old = fds[u][fd]
  OBVIOUS
<1>3. PICK new : new = AllOutdated(path)[u][fd]
  OBVIOUS
<1>4. CASE old.kind = "File" /\ old.path = path
  <2>1. new = [old EXCEPT !.fresh = FALSE]
    BY <1>1, <1>2, <1>3, <1>4, OutdatedSlots
  <2>2. old \in Handles
    BY <1>1, <1>2, <1>4, KindOf
  <2>3. new = [kind |-> "File", data |-> old.data, position |-> old.position, path |-> old.path,
               flags |-> old.flags, fresh |-> FALSE]
    BY <2>1, <2>2 DEF Handles
  <2>4. old.position \in Nat
    BY <2>2 DEF Handles
  <2>5. Denotes(old, new)
    BY <1>4, <2>3, <2>4 DEF Denotes
  <2>6. SlotOK(new, tree')
    BY <1>1, <1>2, <1>4, <2>3 DEF SlotOK
  <2> QED BY <1>2, <1>3, <2>5, <2>6
<1>5. CASE ~(old.kind = "File" /\ old.path = path)
  <2>1. new = old
    <3>1. ~(fds[u][fd].kind = "File" /\ fds[u][fd].path = path)
      BY <1>2, <1>5
    <3>2. IF fds[u][fd].kind = "File" /\ fds[u][fd].path = path
          THEN AllOutdated(path)[u][fd] = [fds[u][fd] EXCEPT !.fresh = FALSE]
          ELSE AllOutdated(path)[u][fd] = fds[u][fd]
      BY <1>1, OutdatedSlots
    <3>3. AllOutdated(path)[u][fd] = fds[u][fd]
      BY ONLY <3>1, <3>2
    <3> QED BY <3>3, <1>2, <1>3
  <2>2. Denotes(old, new)
    BY <1>1, <1>2, <2>1, KindOf DEF Denotes, Handles, Directories
  <2>3. SlotOK(new, tree')
    BY <1>1, <1>2, <1>5, <2>1 DEF SlotOK
  <2> QED BY <1>2, <1>3, <2>2, <2>3
<1> QED BY <1>4, <1>5

\* Unlinking and removing take out a node without children.
LEMMA TreeShrunk ==
    ASSUME FilesInv, NEW path, Children(path) = {}, tree' = Without(path)
    PROVE  /\ TreeType' /\ Rooted' /\ NoLoss
           /\ \A p \in DOMAIN tree : p # path => p \in DOMAIN tree' /\ tree'[p] = tree[p]
<1>1. TreeType
  BY DEF FilesInv, FilesType
<1>2. TreeType'
  BY <1>1, WithoutType DEF TreeType
<1>3. /\ DOMAIN tree' = DOMAIN tree \ {path}
      /\ \A p \in DOMAIN tree \ {path} : tree'[p] = tree[p]
  BY DEF Without
<1>4. Rooted'
  <2> SUFFICES ASSUME NEW p \in DOMAIN tree', p # <<>>
               PROVE  Front(p) \in DOMAIN tree' /\ tree'[Front(p)].type = "Directory"
    BY DEF Rooted, IsDir
  <2>1. Front(p) \in DOMAIN tree /\ tree[Front(p)].type = "Directory"
    BY <1>3 DEF FilesInv, Rooted, IsDir
  <2>2. Front(p) # path
    BY <1>3 DEF Children
  <2> QED BY <2>1, <2>2, <1>3
<1>5. NoLoss
  BY <1>3 DEF NoLoss
<1> QED BY <1>2, <1>3, <1>4, <1>5

LEMMA Write ==
    ASSUME FilesInv, NEW t \in Tasks, sys_write(t)
    PROVE  Kept
<1>1. PICK fd \in Fd, byte \in Bytes :
        /\ fds[t][fd].kind = "File" /\ is_writable(fds[t][fd].flags)
        /\ tree' = Stored(fds[t][fd], Written(fds[t][fd], byte))
        /\ fds' = [AllOutdated(fds[t][fd].path) EXCEPT
                     ![t][fd] = Handle(Written(fds[t][fd], byte), WriteAt(fds[t][fd]) + 1,
                                       fds[t][fd].path, fds[t][fd].flags,
                                       IsFile(fds[t][fd].path))]
        /\ UNCHANGED cwd
  BY DEF sys_write
<1>2. PICK h : h = fds[t][fd]
  OBVIOUS
<1>3. PICK data : data = Written(h, byte)
  OBVIOUS
<1>4. PICK isfile \in BOOLEAN : isfile <=> IsFile(h.path)
  <2>1. CASE IsFile(h.path)
    BY <2>1
  <2>2. CASE ~IsFile(h.path)
    BY <2>2
  <2> QED BY <2>1, <2>2
<1>5. FilesType /\ fds \in [Tasks -> [Fd -> Entry]] /\ h \in Handles /\ SlotOK(h, tree)
  BY <1>1, <1>2, KindOf DEF FilesInv, FilesType, Slots
<1>6. h.kind = "File" /\ h.path \in Seq(Names) /\ h.flags \in OpenFlags /\ h.position \in Nat
  BY <1>5 DEF Handles
<1>7. /\ data \in Seq(Data) /\ WriteAt(h) \in Nat /\ WriteAt(h) >= h.position
      /\ WriteAt(h) + 1 <= Len(data)
  <2>1. h.position <= Len(h.data)
    BY <1>5, <1>6 DEF SlotOK
  <2> QED BY <1>3, <1>5, <2>1, WrittenData
<1>8. PICK at : at = WriteAt(h) + 1
  OBVIOUS
<1>9. at \in Nat /\ at >= h.position /\ at <= Len(data)
  BY <1>6, <1>7, <1>8
<1>10. PICK e : e = [kind |-> "File", data |-> data, position |-> at, path |-> h.path,
                     flags |-> h.flags, fresh |-> isfile]
  OBVIOUS
<1>11. e \in Handles /\ e \in Entry
  BY <1>4, <1>6, <1>7, <1>9, <1>10 DEF Handles, Entry
<1>12. PICK out : out = AllOutdated(h.path)
  OBVIOUS
<1>13. fds' = [out EXCEPT ![t][fd] = e]
  <2>1. Handle(Written(h, byte), WriteAt(h) + 1, h.path, h.flags, IsFile(h.path)) = e
    <3>1. IsFile(h.path) = isfile
      BY <1>4 DEF IsFile
    <3> QED BY <3>1, <1>3, <1>8, <1>10 DEF Handle
  <2> QED BY <1>1, <1>2, <1>12, <2>1
<1>14. out \in [Tasks -> [Fd -> Entry]]
  BY <1>5, <1>12, OutdatedSlots
<1>15. /\ fds' \in [Tasks -> [Fd -> Entry]] /\ fds'[t][fd] = e
       /\ \A u \in Tasks, d \in Fd : u # t \/ d # fd => fds'[u][d] = out[u][d]
  BY <1>11, <1>13, <1>14
<1>16. tree' = IF isfile THEN [tree EXCEPT ![h.path].data = data] ELSE tree
  BY <1>1, <1>2, <1>3, <1>4 DEF Stored
<1>17. /\ DOMAIN tree' = DOMAIN tree
       /\ \A p \in DOMAIN tree : p # h.path => tree'[p] = tree[p]
       /\ isfile => /\ h.path \in DOMAIN tree
                    /\ tree'[h.path] = [type |-> "File", data |-> data]
                    /\ tree[h.path].type = "File"
       /\ ~isfile => tree' = tree
  <2>0. tree \in [DOMAIN tree -> Node]
    BY <1>5 DEF FilesType, TreeType
  <2>1. CASE isfile
    <3>1. h.path \in DOMAIN tree /\ tree[h.path].type = "File"
      BY <1>4, <2>1 DEF IsFile
    <3>2. tree' = [tree EXCEPT ![h.path] = [tree[h.path] EXCEPT !.data = data]]
      BY <1>16, <2>1
    <3>3. [tree[h.path] EXCEPT !.data = data] = [type |-> "File", data |-> data]
      BY <2>0, <3>1 DEF Node
    <3> QED BY <2>0, <2>1, <3>1, <3>2, <3>3
  <2>2. CASE ~isfile
    BY <1>16, <2>2
  <2> QED BY <2>1, <2>2
<1>18. TreeType'
  <2>1. ASSUME NEW p \in DOMAIN tree'
        PROVE  tree'[p] \in Node
    <3>1. [type |-> "File", data |-> data] \in Node
      BY <1>7 DEF Node
    <3>2. tree[p] \in Node
      BY <1>5, <1>17 DEF FilesType, TreeType
    <3> QED BY <3>1, <3>2, <1>17
  <2>2. tree' = [p \in DOMAIN tree' |-> tree'[p]]
    BY <1>5, <1>16 DEF FilesType, TreeType
  <2>3. IsFiniteSet(DOMAIN tree') /\ DOMAIN tree' \subseteq Seq(Names)
    BY <1>5, <1>17 DEF FilesType, TreeType
  <2>4. tree' \in [DOMAIN tree' -> Node]
    BY <2>1, <2>2
  <2> QED BY <2>3, <2>4 DEF TreeType
<1>19. \A p \in DOMAIN tree : tree'[p].type = tree[p].type
  BY <1>17
<1>20. Rooted'
  BY <1>17, <1>19 DEF FilesInv, Rooted, IsDir
<1>21. NoLoss
  <2> SUFFICES ASSUME NEW p \in DOMAIN tree, tree'[p].data # tree[p].data
               PROVE  \E v \in Tasks, d \in Fd :
                        /\ fds[v][d].kind = "File" /\ fds[v][d].path = p
                        /\ is_writable(fds[v][d].flags)
                        /\ fds'[v][d].kind = "File" /\ fds'[v][d].data = tree'[p].data
    BY <1>17, <1>19 DEF NoLoss
  <2>1. p = h.path /\ isfile
    BY <1>17
  <2>2. e.data = tree'[p].data /\ e.kind = "File"
    BY <2>1, <1>10, <1>17
  <2> QED BY <2>1, <2>2, <1>1, <1>2, <1>15
<1>22. FilesType'
  BY <1>1, <1>5, <1>15, <1>18 DEF FilesType
<1>23. \A p \in DOMAIN tree : p # h.path => p \in DOMAIN tree' /\ tree'[p] = tree[p]
  BY <1>17
<1>24. SlotOK(e, tree') /\ Denotes(h, e)
  <2>1. Denotes(h, e)
    BY <1>6, <1>9, <1>10 DEF Denotes
  <2>2. SlotOK(e, tree')
    BY <1>9, <1>10, <1>17 DEF SlotOK
  <2> QED BY <2>1, <2>2
<1>25. ASSUME NEW u \in Tasks, NEW d \in Fd
       PROVE  SlotOK(fds'[u][d], tree') /\ Denotes(fds[u][d], fds'[u][d])
  <2>1. CASE u = t /\ d = fd
    BY <2>1, <1>2, <1>15, <1>24
  <2>2. CASE u # t \/ d # fd
    <3>1. SlotOK(out[u][d], tree') /\ Denotes(fds[u][d], out[u][d])
      BY <1>12, <1>23, OutdatedOK
    <3> QED BY <2>2, <3>1, <1>15
  <2> QED BY <2>1, <2>2
<1>26. Slots' /\ Stable
  BY <1>25 DEF Slots, Stable, Denotes
<1> QED BY <1>20, <1>21, <1>22, <1>26 DEF Kept, FilesInv

LEMMA Unlink ==
    ASSUME FilesInv, NEW t \in Tasks, sys_unlink(t)
    PROVE  Kept
<1>1. PICK path \in PathsOf(t) :
        HasParent(path) /\ IsFile(path) /\ tree' = Without(path)
        /\ fds' = AllOutdated(path) /\ UNCHANGED cwd
  BY DEF sys_unlink
<1>2. Children(path) = {}
  BY <1>1 DEF FilesInv, Rooted, Children, IsDir, IsFile
<1>3. /\ TreeType' /\ Rooted' /\ NoLoss
      /\ \A p \in DOMAIN tree : p # path => p \in DOMAIN tree' /\ tree'[p] = tree[p]
  BY <1>1, <1>2, TreeShrunk
<1>4. FilesType'
  BY <1>1, <1>3, OutdatedSlots DEF FilesInv, FilesType
<1>5. ASSUME NEW u \in Tasks, NEW d \in Fd
      PROVE  SlotOK(fds'[u][d], tree') /\ Denotes(fds[u][d], fds'[u][d])
  BY <1>1, <1>3, OutdatedOK
<1>6. Slots' /\ Stable
  BY <1>5 DEF Slots, Stable, Denotes
<1> QED BY <1>3, <1>4, <1>6 DEF Kept, FilesInv

\* A step on directories, which leaves the files alone.
LEMMA SlotsKept ==
    ASSUME FilesInv, UNCHANGED fds, cwd' \in [Tasks -> Seq(Names)],
           TreeType', Rooted', NoLoss,
           \A p \in DOMAIN tree :
             tree[p].type = "File" => p \in DOMAIN tree' /\ tree'[p] = tree[p]
    PROVE  Kept
<1>1. FilesType'
  BY DEF FilesInv, FilesType
<1>2. Stable
  BY StableUnchanged
<1>3. Slots'
  BY DEF FilesInv, Slots, SlotOK
<1> QED BY <1>1, <1>2, <1>3 DEF Kept, FilesInv

LEMMA Mkdir ==
    ASSUME FilesInv, NEW t \in Tasks, sys_mkdir(t)
    PROVE  Kept
<1>1. PICK path \in PathsOf(t) :
        HasParent(path) /\ path \notin DOMAIN tree /\ tree' = With(path, Directory)
        /\ UNCHANGED <<fds, cwd>>
  BY DEF sys_mkdir
<1>2. path \in Seq(Names) /\ Directory \in Node
  BY PathsOfType DEF FilesInv, Directory, Node
<1>3. /\ TreeType' /\ Rooted' /\ NoLoss
      /\ \A p \in DOMAIN tree : p \in DOMAIN tree' /\ tree'[p] = tree[p]
  BY <1>1, <1>2, TreeGrown
<1>4. cwd' \in [Tasks -> Seq(Names)]
  BY <1>1 DEF FilesInv, FilesType
<1> QED BY <1>1, <1>3, <1>4, SlotsKept

LEMMA Rmdir ==
    ASSUME FilesInv, NEW t \in Tasks, sys_rmdir(t)
    PROVE  Kept
<1>1. PICK path \in PathsOf(t) :
        IsDir(path) /\ Children(path) = {} /\ tree' = Without(path) /\ UNCHANGED <<fds, cwd>>
  BY DEF sys_rmdir
<1>2. /\ TreeType' /\ Rooted' /\ NoLoss
      /\ \A p \in DOMAIN tree : p # path => p \in DOMAIN tree' /\ tree'[p] = tree[p]
  BY <1>1, TreeShrunk
<1>3. cwd' \in [Tasks -> Seq(Names)]
  BY <1>1 DEF FilesInv, FilesType
<1>4. \A p \in DOMAIN tree :
        tree[p].type = "File" => p \in DOMAIN tree' /\ tree'[p] = tree[p]
  BY <1>1, <1>2 DEF IsDir
<1> QED BY <1>1, <1>2, <1>3, <1>4, SlotsKept

LEMMA Chdir ==
    ASSUME FilesInv, NEW t \in Tasks, sys_chdir(t)
    PROVE  Kept
<1>1. PICK path \in PathsOf(t) : cwd' = [cwd EXCEPT ![t] = path] /\ UNCHANGED <<tree, fds>>
  BY DEF sys_chdir
<1>2. path \in Seq(Names)
  BY PathsOfType DEF FilesInv
<1>3. cwd' \in [Tasks -> Seq(Names)]
  BY <1>1, <1>2 DEF FilesInv, FilesType
<1>4. TreeType' /\ Rooted' /\ NoLoss
  BY <1>1, TreeKept
<1> QED BY <1>1, <1>3, <1>4, SlotsKept

-----------------------------------------------------------------------------
(* The theorems *)

\* One system call keeps the invariant, loses nothing and leaves the descriptors stable.
LEMMA FilesStep == FilesInv /\ Next => Kept
<1> SUFFICES ASSUME FilesInv, NEW t \in Tasks,
                    \/ sys_open(t) \/ sys_read(t) \/ sys_write(t) \/ sys_close(t)
                    \/ sys_getdents(t) \/ sys_mkdir(t) \/ sys_unlink(t) \/ sys_rmdir(t)
                    \/ sys_chdir(t)
             PROVE  Kept
  BY DEF Next
<1>1. CASE sys_open(t)
  BY <1>1, OpenDirectory, OpenFile DEF sys_open
<1>2. CASE sys_read(t)
  BY <1>2, Read
<1>3. CASE sys_write(t)
  BY <1>3, Write
<1>4. CASE sys_close(t)
  BY <1>4, Close
<1>5. CASE sys_getdents(t)
  BY <1>5, Getdents
<1>6. CASE sys_mkdir(t)
  BY <1>6, Mkdir
<1>7. CASE sys_unlink(t)
  BY <1>7, Unlink
<1>8. CASE sys_rmdir(t)
  BY <1>8, Rmdir
<1>9. CASE sys_chdir(t)
  BY <1>9, Chdir
<1> QED BY <1>1, <1>2, <1>3, <1>4, <1>5, <1>6, <1>7, <1>8, <1>9

LEMMA FilesInvariant == Spec => []FilesInv
<1>1. FilesInv /\ [Next]_vars => FilesInv'
  <2>1. FilesInv /\ Next => FilesInv'
    BY FilesStep DEF Kept
  <2>2. FilesInv /\ UNCHANGED vars => FilesInv'
    BY DEF vars, FilesInv, FilesType, TreeType, Rooted, IsDir, Slots
  <2> QED BY <2>1, <2>2
<1> QED BY <1>1, FilesInit, PTL DEF Spec

(***************************************************************************)
(* Whatever tasks open, write, unlink and remove, in whatever order: the   *)
(* copy a tmpfs handle holds is the file's data, except for the handles    *)
(* that CopyIsCurrent names.                                               *)
(***************************************************************************)
THEOREM CopiesAreCurrent == Spec => []CopyIsCurrent
<1>1. FilesInv => CopyIsCurrent
  BY DEF FilesInv, Slots, SlotOK, CopyIsCurrent, IsFile
<1> QED BY <1>1, FilesInvariant, PTL

(***************************************************************************)
(* The position of a tmpfs handle never leaves its copy, so the slice that *)
(* read takes of it is always in bounds.                                   *)
(***************************************************************************)
THEOREM PositionsInData == Spec => []PositionInData
<1>1. FilesInv => PositionInData
  BY DEF FilesInv, Slots, SlotOK, PositionInData
<1> QED BY <1>1, FilesInvariant, PTL

(***************************************************************************)
(* For listings of any length and buffers of any size, SYS_GETDENTS never  *)
(* packs more than the buffer holds and returns 0 only at the end of the   *)
(* listing or when the next entry alone exceeds the buffer.                *)
(***************************************************************************)
THEOREM GetdentsIsSound == Spec => []GetdentsSound
<1>1. FilesInv => GetdentsSound
  <2> SUFFICES ASSUME FilesInv, NEW t \in Tasks, NEW fd \in Fd, NEW buf_len \in BufLens,
                      fds[t][fd].kind = "Directory"
               PROVE  /\ Packed(fds[t][fd], buf_len).offset <= buf_len
                      /\ Packed(fds[t][fd], buf_len).offset = 0 =>
                           \/ Rest(fds[t][fd]) = <<>>
                           \/ entry_size(Head(Rest(fds[t][fd]))) > buf_len
    BY DEF GetdentsSound
  <2>1. PICK d : d = fds[t][fd]
    OBVIOUS
  <2>2. d \in Directories
    BY <2>1, KindOf DEF FilesInv, FilesType
  <2>3. Rest(d) \in Seq(Listed)
    BY <2>2 DEF Rest, Directories
  <2>4. buf_len \in Nat
    BY BufLensAssumption
  <2>5. Packed(d, buf_len) \in Packs(buf_len)
        /\ (Packed(d, buf_len).offset = 0 => Rest(d) = <<>> \/ entry_size(Head(Rest(d))) > buf_len)
    BY <2>3, <2>4, PackedSound
  <2> QED BY <2>1, <2>5 DEF Packs
<1> QED BY <1>1, FilesInvariant, PTL

(***************************************************************************)
(* No system call removes a node that has children, or changes the data of *)
(* a file except to the copy of a writable handle open on it.              *)
(***************************************************************************)
THEOREM NothingIsLost == Spec => NothingLost
<1>1. FilesInv /\ [Next]_vars => [NoLoss]_vars
  BY FilesStep DEF Kept
<1>2. Spec => [][NoLoss]_vars
  BY <1>1, FilesInvariant, PTL DEF Spec
<1> QED BY <1>2 DEF NothingLost, NoLoss

(***************************************************************************)
(* A descriptor denotes what it was opened on until it is closed, and its  *)
(* position never moves back, whatever the other tasks do.                 *)
(***************************************************************************)
THEOREM DescriptorsStable == Spec => DescriptorStable
<1>1. FilesInv /\ [Next]_vars => [Stable]_vars
  BY FilesStep DEF Kept
<1>2. Spec => [][Stable]_vars
  BY <1>1, FilesInvariant, PTL DEF Spec
<1> QED BY <1>2 DEF DescriptorStable, Stable
=============================================================================
