---------------------------- MODULE SchedProofs ----------------------------
(***************************************************************************)
(* Proofs about Sched, for every MaxTasks and MaxSleep, and about the      *)
(* history that MCSched adds to it.                                        *)
(***************************************************************************)
EXTENDS MCSched, FiniteSetTheorems, SequenceTheorems, TLAPS

-----------------------------------------------------------------------------
(* reap_dead *)

(***************************************************************************)
(* The elements of a set of indices have the ranks 1..Cardinality(S), each *)
(* rank once, in the order of the indices.                                 *)
(***************************************************************************)
LEMMA RankBijection ==
    ASSUME NEW m \in Nat, NEW S \in SUBSET (1 .. m)
    PROVE  /\ IsFiniteSet(S)
           /\ Cardinality(S) \in Nat
           /\ \A i \in S : Rank(S, i) \in 1 .. Cardinality(S)
           /\ \A i, j \in S : i < j => Rank(S, i) < Rank(S, j)
           /\ \A k \in 1 .. Cardinality(S) : \E i \in S : Rank(S, i) = k
<1> DEFINE Upto(i) == {j \in S : j <= i}
<1>0. \A i \in S : i \in Nat
  OBVIOUS
<1>1. IsFiniteSet(S) /\ Cardinality(S) \in Nat
  <2>1. IsFiniteSet(1 .. m)
    BY FS_Interval
  <2>2. IsFiniteSet(S)
    BY <2>1, FS_Subset
  <2> QED
    BY <2>2, FS_CardinalityType
<1>2. \A i : IsFiniteSet(Upto(i)) /\ Cardinality(Upto(i)) \in Nat
              /\ Cardinality(Upto(i)) <= Cardinality(S)
  <2> SUFFICES ASSUME NEW i
               PROVE  /\ IsFiniteSet(Upto(i)) /\ Cardinality(Upto(i)) \in Nat
                      /\ Cardinality(Upto(i)) <= Cardinality(S)
    OBVIOUS
  <2>1. Upto(i) \in SUBSET S
    OBVIOUS
  <2>2. IsFiniteSet(Upto(i)) /\ Cardinality(Upto(i)) <= Cardinality(S)
    BY <2>1, <1>1, FS_Subset
  <2> QED
    BY <2>2, FS_CardinalityType
<1>3. \A i \in S : Rank(S, i) \in 1 .. Cardinality(S)
  <2> SUFFICES ASSUME NEW i \in S
               PROVE  Rank(S, i) \in 1 .. Cardinality(S)
    OBVIOUS
  <2>1. Upto(i) # {}
    BY <1>0
  <2>2. Cardinality(Upto(i)) # 0
    BY <2>1, <1>2, FS_EmptySet
  <2> QED
    BY <1>1, <1>2, <2>2 DEF Rank
<1>4. \A i, j \in S : i < j => Rank(S, i) < Rank(S, j)
  <2> SUFFICES ASSUME NEW i \in S, NEW j \in S, i < j
               PROVE  Rank(S, i) < Rank(S, j)
    OBVIOUS
  <2>0. \A k \in S : k <= i => k <= j
    BY <1>0
  <2>1. Upto(i) \in SUBSET Upto(j)
    BY <2>0
  <2>2. j \in Upto(j) /\ j \notin Upto(i)
    BY <1>0
  <2>3. Cardinality(Upto(i)) <= Cardinality(Upto(j)) /\ Cardinality(Upto(j)) # Cardinality(Upto(i))
    BY <2>1, <2>2, <1>2, FS_Subset
  <2> QED
    BY <2>3, <1>2 DEF Rank
<1>5. \A k \in 1 .. Cardinality(S) : \E i \in S : Rank(S, i) = k
  <2> DEFINE T == 1 .. Cardinality(S)
             f == [i \in S |-> Rank(S, i)]
  <2>1. f \in Injection(S, T)
    <3>1. f \in [S -> T]
      BY <1>3
    <3>2. \A a, b \in S : f[a] = f[b] => a = b
      <4> SUFFICES ASSUME NEW a \in S, NEW b \in S, f[a] = f[b], a # b
                   PROVE  FALSE
        OBVIOUS
      <4>1. a < b \/ b < a
        BY <1>0
      <4>2. Rank(S, a) \in Nat /\ Rank(S, b) \in Nat /\ Rank(S, a) = Rank(S, b)
        BY <1>3
      <4> QED
        BY <4>1, <4>2, <1>4
    <3> QED
      BY <3>1, <3>2 DEF Injection, IsInjective
  <2>2. IsFiniteSet(T) /\ Cardinality(T) = Cardinality(S)
    BY <1>1, FS_Interval
  <2>3. f \in Surjection(S, T)
    BY <2>1, <2>2, FS_Injection
  <2>4. \A k \in T : \E i \in S : f[i] = k
    BY <2>3 DEF Surjection
  <2> QED
    BY <2>4
<1> QED
  BY <1>1, <1>3, <1>4, <1>5

(***************************************************************************)
(* reap_dead on a queue ts whose current index is c: the current task is   *)
(* found again at ReapedCurrent, every other task left is one that was not *)
(* Dead, and a live first task stays first.                                *)
(***************************************************************************)
LEMMA ReapedProperties ==
    ASSUME NEW X, NEW ts \in Seq(X), NEW c \in 1 .. Len(ts)
    PROVE  /\ Reaped(ts, c) \in Seq(X)
           /\ ReapedCurrent(ts, c) \in 1 .. Len(Reaped(ts, c))
           /\ Reaped(ts, c)[ReapedCurrent(ts, c)] = ts[c]
           /\ \A k \in 1 .. Len(Reaped(ts, c)) :
                 k # ReapedCurrent(ts, c) =>
                    \E i \in 1 .. Len(ts) : /\ i # c
                                            /\ ts[i].state # "Dead"
                                            /\ Reaped(ts, c)[k] = ts[i]
           /\ (c = 1 \/ ts[1].state # "Dead") =>
                 /\ Reaped(ts, c)[1] = ts[1]
                 /\ ReapedCurrent(ts, c) = 1 <=> c = 1
           /\ (\A i, j \in 1 .. Len(ts) : ts[i].id = ts[j].id => i = j) =>
                 \A i, j \in 1 .. Len(Reaped(ts, c)) :
                    Reaped(ts, c)[i].id = Reaped(ts, c)[j].id => i = j
<1> DEFINE m == Len(ts)
           S == Kept(ts, c)
           q == Reaped(ts, c)
           d == ReapedCurrent(ts, c)
           n == Cardinality(S)
           at(k) == CHOOSE i \in S : Rank(S, i) = k
<1>1. m \in Nat /\ DOMAIN ts = 1 .. m /\ \A i \in 1 .. m : ts[i] \in X
  BY LenProperties, ElementOfSeq
<1>2. S \in SUBSET (1 .. m) /\ c \in S
  BY <1>1 DEF Kept
<1>3. /\ n \in Nat
      /\ \A i \in S : Rank(S, i) \in 1 .. n
      /\ \A i, j \in S : i < j => Rank(S, i) < Rank(S, j)
      /\ \A k \in 1 .. n : \E i \in S : Rank(S, i) = k
  BY <1>1, <1>2, RankBijection
<1>4. \A i, j \in S : Rank(S, i) = Rank(S, j) => i = j
  <2> SUFFICES ASSUME NEW i \in S, NEW j \in S, Rank(S, i) = Rank(S, j), i # j
               PROVE  FALSE
    OBVIOUS
  <2>1. i < j \/ j < i
    BY <1>1, <1>2
  <2>2. Rank(S, i) \in Nat /\ Rank(S, j) \in Nat
    BY <1>3
  <2> QED
    BY <2>1, <2>2, <1>3
<1>5. \A k \in 1 .. n : at(k) \in S /\ Rank(S, at(k)) = k
  BY <1>3
<1>6. \A i \in S : at(Rank(S, i)) = i
  BY <1>3, <1>4, <1>5
<1>7. q = [k \in 1 .. n |-> ts[at(k)]]
  BY DEF Reaped
<1>8. q \in Seq(X) /\ Len(q) = n
  <2>1. \A k \in 1 .. n : ts[at(k)] \in X
    BY <1>1, <1>2, <1>5
  <2>2. q \in [1 .. n -> X] /\ DOMAIN q = 1 .. n
    BY <2>1, <1>7
  <2> HIDE DEF q, n, at
  <2>3. q \in Seq(X)
    BY <2>2, <1>3, SeqDef
  <2> QED
    BY <2>2, <2>3, <1>3
<1>9. d = Rank(S, c) /\ d \in 1 .. n /\ q[d] = ts[c]
  BY <1>2, <1>3, <1>6, <1>7 DEF ReapedCurrent
<1>10. ASSUME NEW k \in 1 .. n, k # d
       PROVE  \E i \in 1 .. m : i # c /\ ts[i].state # "Dead" /\ q[k] = ts[i]
  <2>1. at(k) \in S /\ at(k) # c
    BY <1>5, <1>9, <1>10
  <2>2. at(k) \in 1 .. m /\ ts[at(k)].state # "Dead"
    BY <2>1, <1>2 DEF Kept
  <2> QED
    BY <2>1, <2>2, <1>7
<1>11. ASSUME c = 1 \/ ts[1].state # "Dead"
       PROVE  q[1] = ts[1] /\ (d = 1 <=> c = 1)
  <2>1. 1 \in S
    BY <1>1, <1>11 DEF Kept
  <2>2. Rank(S, 1) = 1
    <3>1. PICK i \in S : Rank(S, i) = 1
      BY <2>1, <1>3
    <3>2. Rank(S, 1) \in 1 .. n
      BY <2>1, <1>3
    <3>3. i = 1 \/ 1 < i
      BY <1>2
    <3> QED
      BY <2>1, <3>1, <3>2, <3>3, <1>3
  <2>3. q[1] = ts[1]
    BY <2>1, <2>2, <1>3, <1>6, <1>7
  <2> QED
    BY <2>1, <2>2, <2>3, <1>2, <1>4, <1>9
<1>12. ASSUME \A i, j \in 1 .. m : ts[i].id = ts[j].id => i = j,
              NEW i \in 1 .. n, NEW j \in 1 .. n, q[i].id = q[j].id
       PROVE  i = j
  <2>1. at(i) \in 1 .. m /\ at(j) \in 1 .. m /\ ts[at(i)].id = ts[at(j)].id
    BY <1>2, <1>5, <1>7, <1>12
  <2>2. at(i) = at(j)
    BY <2>1, <1>12
  <2> QED
    BY <2>2, <1>5
<1> QED
  BY <1>8, <1>9, <1>10, <1>11, <1>12

-----------------------------------------------------------------------------
(* next_ready *)

\* A nonempty set of indices has a least element.
LEMMA LeastIndex ==
    ASSUME NEW m \in Nat, NEW S \in SUBSET (1 .. m), S # {}
    PROVE  \E i \in S : \A j \in S : i <= j
<1>1. /\ Cardinality(S) \in Nat
      /\ \A i \in S : Rank(S, i) \in 1 .. Cardinality(S)
      /\ \A i, j \in S : i < j => Rank(S, i) < Rank(S, j)
      /\ \A k \in 1 .. Cardinality(S) : \E i \in S : Rank(S, i) = k
  BY RankBijection
<1>2. 1 \in 1 .. Cardinality(S)
  <2>1. PICK i \in S : Rank(S, i) \in 1 .. Cardinality(S)
    BY <1>1
  <2> QED
    BY <2>1, <1>1
<1>3. PICK i \in S : Rank(S, i) = 1
  BY <1>1, <1>2
<1>4. ASSUME NEW j \in S, ~(i <= j)
      PROVE  FALSE
  <2>1. j < i
    BY <1>4
  <2> QED
    BY <2>1, <1>1, <1>3
<1> QED
  BY <1>4

(***************************************************************************)
(* next_ready returns a Ready task; it can return the current one only if  *)
(* that one is Ready and no other task is.                                 *)
(***************************************************************************)
LEMMA NextReadyProperties ==
    ASSUME NEW X, NEW q \in Seq(X), NEW c \in 1 .. Len(q)
    PROVE  /\ ReadyAhead(q, c) # {} =>
                 /\ NextReady(q, c) \in 1 .. Len(q)
                 /\ q[NextReady(q, c)].state = "Ready"
                 /\ NextReady(q, c) = c =>
                       \A j \in 1 .. Len(q) : q[j].state = "Ready" => j = c
           /\ (\E j \in 1 .. Len(q) : q[j].state = "Ready") => ReadyAhead(q, c) # {}
<1> DEFINE m == Len(q)
           R == ReadyAhead(q, c)
           first == CHOOSE i \in R : \A j \in R : i <= j
<1>1. m \in Nat /\ R \in SUBSET (1 .. m)
  BY LenProperties DEF ReadyAhead
<1>2. \A j \in 1 .. m : \E i \in 1 .. m : Ahead(m, c, i) = j /\ (j # c => i # m)
  <2> SUFFICES ASSUME NEW j \in 1 .. m
               PROVE  \E i \in 1 .. m : Ahead(m, c, i) = j /\ (j # c => i # m)
    OBVIOUS
  <2>1. CASE j > c
    <3>1. j - c \in 1 .. m /\ Ahead(m, c, j - c) = j /\ j - c # m
      BY <2>1, <1>1 DEF Ahead
    <3> QED
      BY <3>1
  <2>2. CASE j <= c
    <3>1. j + m - c \in 1 .. m /\ Ahead(m, c, j + m - c) = j /\ (j # c => j + m - c # m)
      BY <2>2, <1>1 DEF Ahead
    <3> QED
      BY <3>1
  <2> QED
    BY <2>1, <2>2, <1>1
<1>3. ASSUME R # {}
      PROVE  first \in R /\ \A j \in R : first <= j
  BY <1>1, <1>3, LeastIndex
<1>4. ASSUME R # {}
      PROVE  /\ NextReady(q, c) = Ahead(m, c, first)
             /\ NextReady(q, c) \in 1 .. m
             /\ q[NextReady(q, c)].state = "Ready"
  <2>1. NextReady(q, c) = Ahead(m, c, first)
    BY DEF NextReady
  <2>2. first \in 1 .. m /\ q[Ahead(m, c, first)].state = "Ready"
    BY <1>3, <1>4 DEF ReadyAhead
  <2>3. Ahead(m, c, first) \in 1 .. m
    BY <2>2, <1>1 DEF Ahead
  <2> QED
    BY <2>1, <2>2, <2>3
<1>5. ASSUME R # {}, NextReady(q, c) = c, NEW j \in 1 .. m, q[j].state = "Ready", j # c
      PROVE  FALSE
  <2>1. PICK i \in 1 .. m : Ahead(m, c, i) = j /\ i # m
    BY <1>2, <1>5
  <2>2. i \in R
    BY <2>1, <1>5 DEF ReadyAhead
  <2>3. first <= i /\ first \in 1 .. m
    BY <2>2, <1>1, <1>3
  <2>4. Ahead(m, c, first) # c
    BY <2>1, <2>3, <1>1 DEF Ahead
  <2> QED
    BY <2>4, <1>4, <1>5
<1>6. ASSUME NEW j \in 1 .. m, q[j].state = "Ready"
      PROVE  R # {}
  BY <1>2, <1>6 DEF ReadyAhead
<1> QED
  BY <1>4, <1>5, <1>6

-----------------------------------------------------------------------------
(* What the pieces of schedule() do to one entry of the queue *)

\* Two versions of a queue entry that differ in nothing but the deadline.
SameTask(a, b) ==
    /\ a.id = b.id /\ a.state = b.state /\ a.mode = b.mode
    /\ a.stack_ptr = b.stack_ptr /\ a.cr3 = b.cr3
    /\ a.kernel_stack_top = b.kernel_stack_top
    /\ a.wake_at = NoWake <=> b.wake_at = NoWake

\* A tick changes nothing but deadlines, and turns none of them into None.
LEMMA TickProperties ==
    ASSUME NEW ts \in Seq(Task)
    PROVE  /\ Tick(ts) \in Seq(Task)
           /\ Len(Tick(ts)) = Len(ts)
           /\ \A i \in 1 .. Len(ts) : SameTask(Tick(ts)[i], ts[i])
<1> DEFINE up(i) == [ts[i] EXCEPT !.wake_at = IF @ > 0 THEN @ - 1 ELSE @]
<1>1. DOMAIN ts = 1 .. Len(ts) /\ Len(ts) \in Nat /\ \A i \in 1 .. Len(ts) : ts[i] \in Task
  BY LenProperties, ElementOfSeq
<1>2. ASSUME NEW i \in 1 .. Len(ts)
      PROVE  up(i) \in Task /\ SameTask(up(i), ts[i])
  <2> DEFINE w == IF ts[i].wake_at > 0 THEN ts[i].wake_at - 1 ELSE ts[i].wake_at
  <2>1. ts[i] \in Task /\ ts[i].wake_at \in NoWake .. MaxSleep
    BY <1>1 DEF Task
  <2>2. w \in NoWake .. MaxSleep /\ (w = NoWake <=> ts[i].wake_at = NoWake)
    BY <2>1, BoundsAssumption DEF NoWake
  <2>3. up(i) = [ts[i] EXCEPT !.wake_at = w]
    OBVIOUS
  <2> HIDE DEF w
  <2> QED
    BY <2>1, <2>2, <2>3 DEF Task, SameTask
<1>3. Tick(ts) = [i \in 1 .. Len(ts) |-> up(i)]
  BY <1>1 DEF Tick
<1> HIDE DEF up
<1>4. Tick(ts) \in Seq(Task)
  BY <1>1, <1>2, <1>3
<1> QED
  BY <1>1, <1>2, <1>3, <1>4

\* Waking the sleepers: only a Sleeping task changes, and it becomes Ready without a deadline.
LEMMA WakeProperties ==
    ASSUME NEW ts \in Seq(Task)
    PROVE  /\ Wake(ts) \in Seq(Task)
           /\ Len(Wake(ts)) = Len(ts)
           /\ \A i \in 1 .. Len(ts) :
                 \/ Wake(ts)[i] = ts[i]
                 \/ /\ ts[i].state = "Sleeping"
                    /\ Wake(ts)[i].state = "Ready"
                    /\ Wake(ts)[i].wake_at = NoWake
                    /\ Wake(ts)[i].id = ts[i].id
                    /\ Wake(ts)[i].mode = ts[i].mode
                    /\ Wake(ts)[i].stack_ptr = ts[i].stack_ptr
                    /\ Wake(ts)[i].cr3 = ts[i].cr3
                    /\ Wake(ts)[i].kernel_stack_top = ts[i].kernel_stack_top
<1> DEFINE up(i) == IF ts[i].state = "Sleeping" /\ ts[i].wake_at = 0
                    THEN [ts[i] EXCEPT !.state = "Ready", !.wake_at = NoWake]
                    ELSE ts[i]
<1>1. DOMAIN ts = 1 .. Len(ts) /\ Len(ts) \in Nat /\ \A i \in 1 .. Len(ts) : ts[i] \in Task
  BY LenProperties, ElementOfSeq
<1>2. ASSUME NEW i \in 1 .. Len(ts)
      PROVE  /\ up(i) \in Task
             /\ \/ up(i) = ts[i]
                \/ /\ ts[i].state = "Sleeping"
                   /\ up(i).state = "Ready"
                   /\ up(i).wake_at = NoWake
                   /\ up(i).id = ts[i].id
                   /\ up(i).mode = ts[i].mode
                   /\ up(i).stack_ptr = ts[i].stack_ptr
                   /\ up(i).cr3 = ts[i].cr3
                   /\ up(i).kernel_stack_top = ts[i].kernel_stack_top
  <2>1. ts[i] \in Task /\ NoWake \in NoWake .. MaxSleep
    BY <1>1, BoundsAssumption DEF NoWake
  <2> QED
    BY <2>1 DEF Task, States
<1>3. Wake(ts) = [i \in 1 .. Len(ts) |-> up(i)]
  BY <1>1 DEF Wake
<1> HIDE DEF up
<1>4. Wake(ts) \in Seq(Task)
  BY <1>1, <1>2, <1>3
<1> QED
  BY <1>1, <1>2, <1>3, <1>4

\* A switch from `old` to `new` touches only these two entries.
LEMMA SwitchedProperties ==
    ASSUME NEW q \in Seq(Task), NEW old \in 1 .. Len(q), NEW new \in 1 .. Len(q), old # new
    PROVE  /\ Switched(q, old, new) \in Seq(Task)
           /\ Len(Switched(q, old, new)) = Len(q)
           /\ \A i \in 1 .. Len(q) :
                 LET e == Switched(q, old, new)[i]
                 IN /\ e.id = q[i].id /\ e.mode = q[i].mode /\ e.cr3 = q[i].cr3
                    /\ e.kernel_stack_top = q[i].kernel_stack_top
                    /\ e.wake_at = q[i].wake_at
                    /\ i = new => e.state = "Running"
                    /\ i = old => /\ e.stack_ptr = "saved"
                                  /\ e.state = IF q[i].state = "Running" THEN "Ready" ELSE q[i].state
                    /\ i \notin {old, new} => e.stack_ptr = q[i].stack_ptr /\ e.state = q[i].state
<1> DEFINE up(i) == [q[i] EXCEPT
                        !.state = IF i = new THEN "Running"
                                  ELSE IF i = old /\ @ = "Running" THEN "Ready" ELSE @,
                        !.stack_ptr = IF i = new THEN "stale"
                                      ELSE IF i = old THEN "saved" ELSE @]
<1>1. DOMAIN q = 1 .. Len(q) /\ Len(q) \in Nat /\ \A i \in 1 .. Len(q) : q[i] \in Task
  BY LenProperties, ElementOfSeq
<1>2. ASSUME NEW i \in 1 .. Len(q)
      PROVE  /\ up(i) \in Task
             /\ up(i).id = q[i].id /\ up(i).mode = q[i].mode /\ up(i).cr3 = q[i].cr3
             /\ up(i).kernel_stack_top = q[i].kernel_stack_top
             /\ up(i).wake_at = q[i].wake_at
             /\ i = new => up(i).state = "Running"
             /\ i = old => /\ up(i).stack_ptr = "saved"
                           /\ up(i).state = IF q[i].state = "Running" THEN "Ready" ELSE q[i].state
             /\ i \notin {old, new} => up(i).stack_ptr = q[i].stack_ptr /\ up(i).state = q[i].state
  <2> DEFINE st == IF i = new THEN "Running"
                   ELSE IF i = old /\ q[i].state = "Running" THEN "Ready" ELSE q[i].state
             sp == IF i = new THEN "stale" ELSE IF i = old THEN "saved" ELSE q[i].stack_ptr
  <2>1. q[i] \in Task
    BY <1>1
  <2>2. st \in States /\ sp \in {"saved", "stale"}
    BY <2>1 DEF Task, States
  <2>3. up(i) = [q[i] EXCEPT !.state = st, !.stack_ptr = sp]
    OBVIOUS
  <2>4. /\ i = new => st = "Running"
        /\ i = old => sp = "saved" /\ st = IF q[i].state = "Running" THEN "Ready" ELSE q[i].state
        /\ i \notin {old, new} => sp = q[i].stack_ptr /\ st = q[i].state
    OBVIOUS
  <2> HIDE DEF st, sp
  <2>5. /\ up(i) \in Task /\ up(i).state = st /\ up(i).stack_ptr = sp
        /\ up(i).id = q[i].id /\ up(i).mode = q[i].mode /\ up(i).cr3 = q[i].cr3
        /\ up(i).kernel_stack_top = q[i].kernel_stack_top
        /\ up(i).wake_at = q[i].wake_at
    BY <2>1, <2>2, <2>3 DEF Task
  <2> QED
    BY <2>4, <2>5
<1>3. Switched(q, old, new) = [i \in 1 .. Len(q) |-> up(i)]
  BY <1>1 DEF Switched
<1> HIDE DEF up
<1>4. Switched(q, old, new) \in Seq(Task)
  BY <1>1, <1>2, <1>3
<1> QED
  BY <1>1, <1>2, <1>3, <1>4

-----------------------------------------------------------------------------
(* schedule() preserves the invariant *)

\* What the type invariant says of the queue, in the form the provers need.
LEMMA TypeFacts ==
    ASSUME TypeOK
    PROVE  /\ tasks \in Seq(Task) /\ Len(tasks) \in Nat /\ DOMAIN tasks = 1 .. Len(tasks)
           /\ current \in 1 .. Len(tasks)
           /\ pc \in [Ids -> Pcs] /\ cpu.task \in Ids /\ 0 \in Ids
           /\ \A i \in 1 .. Len(tasks) : tasks[i] \in Task /\ tasks[i].id \in Ids
<1>1. tasks \in Seq(Task) /\ current \in 1 .. Len(tasks) /\ pc \in [Ids -> Pcs] /\ cpu.task \in Ids
  BY DEF TypeOK
<1>2. Len(tasks) \in Nat /\ DOMAIN tasks = 1 .. Len(tasks) /\ \A i \in 1 .. Len(tasks) : tasks[i] \in Task
  BY <1>1, LenProperties, ElementOfSeq
<1>3. \A i \in 1 .. Len(tasks) : tasks[i].id \in Ids
  BY <1>2 DEF Task
<1>4. 0 \in Ids
  BY BoundsAssumption DEF Ids
<1> QED
  BY <1>1, <1>2, <1>3, <1>4

\* The task on the CPU has not been freed.
LEMMA NotFreed == SchedInv => pc[cpu.task] # "gone"
  BY TypeFacts DEF SchedInv, CurrentIsOnCpu, PcMatchesState

\* The queue schedule() is called with: that of the state, deadlines apart.
Handed(ts) ==
    /\ ts \in Seq(Task)
    /\ Len(ts) = Len(tasks)
    /\ \A i \in 1 .. Len(tasks) : SameTask(ts[i], tasks[i])

\* The continuations it is called with: only the caller's may have moved on.
Continues(pcs) ==
    /\ pcs \in [Ids -> Pcs]
    /\ \A t \in Ids : t # cpu.task => pcs[t] = pc[t]
    /\ current = 1 => pcs = pc
    /\ pcs[cpu.task] \in {"exit", "hlt"} => tasks[current].state = "Dead"
    /\ pcs[cpu.task] # "gone"
    /\ pc[0] = "idle"

\* What holds of the queue between reap_dead plus wake-up and next_ready.
Awake(q, c) ==
    /\ q \in Seq(Task)
    /\ c \in 1 .. Len(q)
    /\ q[c].id = cpu.task
    /\ q[c].cr3 = cpu.cr3
    /\ q[1].id = 0
    /\ c = 1 <=> current = 1
    /\ IF c = 1 THEN q[1].state = "Running" ELSE q[1].state = "Ready"
    /\ tasks[current].state = "Dead" => q[c].state = "Dead"
    /\ c = 1 /\ q[1].mode = "User" => cpu.rsp0 = q[1].kernel_stack_top
    /\ \A i \in 1 .. Len(q) :
          /\ i # c => /\ q[i].state \notin {"Running", "Dead"}
                      /\ q[i].stack_ptr = "saved"
                      /\ pc[q[i].id] \notin {"exit", "hlt", "gone"}
          /\ q[i].state = "Sleeping" <=> q[i].wake_at # NoWake
          /\ q[i].id < next_id
          /\ q[i].mode = "User" => q[i].kernel_stack_top # 0
    /\ \A i, j \in 1 .. Len(q) : q[i].id = q[j].id => i = j

\* reap_dead and the wake-up keep the current task current and leave no other Dead one.
LEMMA AfterReap ==
    ASSUME SchedInv, NEW ts, Handed(ts)
    PROVE  Awake(Wake(Reaped(ts, current)), ReapedCurrent(ts, current))
<1> DEFINE r == Reaped(ts, current)
           c == ReapedCurrent(ts, current)
           q == Wake(r)
<1>1. /\ tasks \in Seq(Task) /\ Len(tasks) \in Nat /\ current \in 1 .. Len(tasks)
      /\ DOMAIN tasks = 1 .. Len(tasks)
  BY LenProperties DEF SchedInv, TypeOK
<1>2. /\ ts \in Seq(Task) /\ Len(ts) = Len(tasks)
      /\ \A i \in 1 .. Len(tasks) : SameTask(ts[i], tasks[i])
  BY DEF Handed
<1>3. 1 \in 1 .. Len(tasks) /\ SameTask(ts[1], tasks[1]) /\ SameTask(ts[current], tasks[current])
  BY <1>1, <1>2
<1>4. ts[1].id = 0 /\ ts[1].state \in {"Ready", "Running"} /\ (ts[1].state = "Running" <=> current = 1)
  BY <1>3 DEF SchedInv, IdleFirst, SameTask
<1>5. ASSUME NEW i \in 1 .. Len(ts)
      PROVE  /\ i # current => /\ ts[i].state # "Running"
                               /\ ts[i].stack_ptr = "saved"
             /\ pc[ts[i].id] \in {"exit", "hlt"} => ts[i].state = "Dead"
             /\ pc[ts[i].id] # "gone"
             /\ ts[i].state = "Sleeping" <=> ts[i].wake_at # NoWake
             /\ ts[i].id < next_id
             /\ ts[i].mode = "User" => ts[i].kernel_stack_top # 0
  BY <1>1, <1>2 DEF SchedInv, OffCpuSaved, SleeperHasAlarm, QueueIds, PcMatchesState, SameTask
<1>6. \A i, j \in 1 .. Len(ts) : ts[i].id = ts[j].id => i = j
  BY <1>1, <1>2 DEF SchedInv, QueueIds, SameTask
<1>7. /\ r \in Seq(Task)
      /\ c \in 1 .. Len(r)
      /\ r[c] = ts[current]
      /\ \A k \in 1 .. Len(r) :
            k # c => \E i \in 1 .. Len(ts) : i # current /\ ts[i].state # "Dead" /\ r[k] = ts[i]
      /\ r[1] = ts[1] /\ (c = 1 <=> current = 1)
      /\ \A i, j \in 1 .. Len(r) : r[i].id = r[j].id => i = j
  <2>1. current \in 1 .. Len(ts) /\ (current = 1 \/ ts[1].state # "Dead")
    BY <1>1, <1>2, <1>4
  <2>2. /\ r \in Seq(Task)
        /\ c \in 1 .. Len(r)
        /\ r[c] = ts[current]
        /\ \A k \in 1 .. Len(r) :
              k # c => \E i \in 1 .. Len(ts) : i # current /\ ts[i].state # "Dead" /\ r[k] = ts[i]
    BY <2>1, <1>2, ReapedProperties
  <2>3. r[1] = ts[1] /\ (c = 1 <=> current = 1)
    BY <2>1, <1>2, ReapedProperties
  <2>4. \A i, j \in 1 .. Len(r) : r[i].id = r[j].id => i = j
    BY <2>1, <1>2, <1>6, ReapedProperties
  <2> QED
    BY <2>2, <2>3, <2>4
<1> HIDE DEF r, c
<1>8. ASSUME NEW k \in 1 .. Len(r)
      PROVE  /\ k # c => /\ r[k].state \notin {"Running", "Dead"}
                         /\ r[k].stack_ptr = "saved"
                         /\ pc[r[k].id] \notin {"exit", "hlt", "gone"}
             /\ r[k].state = "Sleeping" <=> r[k].wake_at # NoWake
             /\ r[k].id < next_id
             /\ r[k].mode = "User" => r[k].kernel_stack_top # 0
  <2>1. CASE k = c
    BY <2>1, <1>1, <1>2, <1>5, <1>7
  <2>2. CASE k # c
    BY <2>2, <1>5, <1>7
  <2> QED
    BY <2>1, <2>2
<1>9. /\ q \in Seq(Task)
      /\ Len(q) = Len(r)
      /\ \A i \in 1 .. Len(r) :
            \/ q[i] = r[i]
            \/ /\ r[i].state = "Sleeping" /\ q[i].state = "Ready" /\ q[i].wake_at = NoWake
               /\ q[i].id = r[i].id /\ q[i].mode = r[i].mode
               /\ q[i].stack_ptr = r[i].stack_ptr /\ q[i].cr3 = r[i].cr3
               /\ q[i].kernel_stack_top = r[i].kernel_stack_top
  BY <1>7, WakeProperties
<1> HIDE DEF q
<1>10. /\ q[c].id = cpu.task /\ q[c].cr3 = cpu.cr3
       /\ tasks[current].state = "Dead" => q[c].state = "Dead"
  BY <1>3, <1>7, <1>9 DEF SchedInv, CurrentIsOnCpu, CpuContextMatchesTask, SameTask
<1>11. 1 \in 1 .. Len(r)
  <2>1. Len(r) \in Nat
    BY <1>7, LenProperties
  <2> QED
    BY <2>1, <1>7
<1>12. /\ q[1] = ts[1]
       /\ IF c = 1 THEN q[1].state = "Running" ELSE q[1].state = "Ready"
       /\ c = 1 /\ q[1].mode = "User" => cpu.rsp0 = q[1].kernel_stack_top
  BY <1>3, <1>4, <1>7, <1>9, <1>11 DEF SchedInv, CpuContextMatchesTask, SameTask
<1>13. ASSUME NEW i \in 1 .. Len(q)
       PROVE  /\ i # c => /\ q[i].state \notin {"Running", "Dead"}
                          /\ q[i].stack_ptr = "saved"
                          /\ pc[q[i].id] \notin {"exit", "hlt", "gone"}
              /\ q[i].state = "Sleeping" <=> q[i].wake_at # NoWake
              /\ q[i].id < next_id
              /\ q[i].mode = "User" => q[i].kernel_stack_top # 0
  BY <1>8, <1>9
<1>14. \A i, j \in 1 .. Len(q) : q[i].id = q[j].id => i = j
  BY <1>7, <1>9
<1>15. Awake(q, c)
  BY <1>4, <1>7, <1>9, <1>10, <1>12, <1>13, <1>14 DEF Awake
<1> QED
  BY <1>15 DEF q, r, c

\* schedule(), from any of its callers, re-establishes the invariant.
LEMMA ScheduleStep ==
    ASSUME SchedInv, NEW ts, Handed(ts), NEW pcs, Continues(pcs), schedule(ts, pcs),
           next_id' = next_id, sched_lock' = sched_lock, heap_lock' = heap_lock, disk_lock' = disk_lock,
           due' \in [Ids -> 0 .. MaxSleep]
    PROVE  SchedInv' /\ pc'[cpu.task] # "gone"
<1> DEFINE q == Wake(Reaped(ts, current))
           c == ReapedCurrent(ts, current)
<1>1. TypeOK /\ tasks \in Seq(Task) /\ Len(tasks) \in Nat /\ current \in 1 .. Len(tasks)
      /\ DOMAIN tasks = 1 .. Len(tasks) /\ cpu.task \in Ids
  BY LenProperties DEF SchedInv, TypeOK
<1>2. CASE Spins(ts) /\ stuck' = TRUE /\ tasks' = ts /\ UNCHANGED <<current, cpu, pc>>
  <2>1. /\ ts \in Seq(Task) /\ Len(ts) = Len(tasks) /\ DOMAIN ts = 1 .. Len(tasks)
        /\ \A i \in 1 .. Len(tasks) : SameTask(ts[i], tasks[i])
    BY <1>1, LenProperties DEF Handed
  <2>2. TypeOK'
    BY <1>2, <2>1 DEF SchedInv, TypeOK
  <2>3. (CurrentIsOnCpu /\ SwitchesToSavedStack /\ CpuContextMatchesTask /\ IdleFirst /\ CurrentState)'
    <3>1. SameTask(ts[current], tasks[current]) /\ SameTask(ts[1], tasks[1])
      BY <1>1, <2>1
    <3> QED
      BY <1>2, <3>1 DEF SchedInv, CurrentIsOnCpu, SwitchesToSavedStack, CpuContextMatchesTask,
                        IdleFirst, CurrentState, SameTask
  <2>4. (SleeperHasAlarm /\ LockHolderOnCpu)'
    BY <1>1, <1>2, <2>1 DEF SchedInv, SleeperHasAlarm, LockHolderOnCpu, SameTask
  <2>5. (OneCorpse /\ OffCpuSaved)'
    <3>1. \A i \in 1 .. Len(tasks) :
             ts[i].state = tasks[i].state /\ ts[i].stack_ptr = tasks[i].stack_ptr
      BY <2>1 DEF SameTask
    <3>2. OneCorpse /\ OffCpuSaved
      BY DEF SchedInv
    <3>3. OneCorpse'
      BY <1>1, <1>2, <2>1, <3>1, <3>2 DEF OneCorpse
    <3>4. OffCpuSaved'
      BY <1>1, <1>2, <2>1, <3>1, <3>2 DEF OffCpuSaved
    <3> QED
      BY <3>3, <3>4
  <2>6. (QueueIds /\ PcMatchesState)'
    <3>1. QueueIds'
      BY <1>1, <1>2, <2>1 DEF SchedInv, QueueIds, SameTask
    <3>2. PcMatchesState'
      BY <1>1, <1>2, <2>1 DEF SchedInv, PcMatchesState, SameTask
    <3> QED
      BY <3>1, <3>2
  <2> QED
    BY <1>2, <2>2, <2>3, <2>4, <2>5, <2>6, NotFreed DEF SchedInv
<1>3. CASE ~Spins(ts) /\ pc' = Forget(q, pcs) /\ Dispatch(q, c) /\ stuck' = stuck
  <2>1. Awake(q, c)
    BY AfterReap
  <2> HIDE DEF q, c
  <2>2. /\ q \in Seq(Task) /\ Len(q) \in Nat /\ DOMAIN q = 1 .. Len(q)
        /\ c \in 1 .. Len(q) /\ 1 \in 1 .. Len(q)
        /\ \A i \in 1 .. Len(q) : q[i] \in Task /\ q[i].id \in Ids
    <3>1. q \in Seq(Task) /\ c \in 1 .. Len(q)
      BY <2>1 DEF Awake
    <3>2. /\ Len(q) \in Nat /\ DOMAIN q = 1 .. Len(q)
          /\ \A i \in 1 .. Len(q) : q[i] \in Task
      BY <3>1, LenProperties, ElementOfSeq
    <3> QED
      BY <3>1, <3>2 DEF Task
  <2>3. /\ pc' \in [Ids -> Pcs]
        /\ \A i \in 1 .. Len(q) : pc'[q[i].id] = pcs[q[i].id]
    BY <1>3, <2>2 DEF Forget, Continues, Pcs
  <2>4. pc'[cpu.task] # "gone" /\ pc'[0] = "idle"
    BY <2>1, <2>2, <2>3 DEF Awake, Continues
  <2>5. \A i \in 1 .. Len(q) :
           /\ pc'[q[i].id] \in {"exit", "hlt"} => i = c /\ q[i].state = "Dead"
           /\ pc'[q[i].id] # "gone"
    BY <1>1, <2>1, <2>2, <2>3 DEF Awake, Continues
  <2>6. sched_lock' = Nobody
    BY <1>3 DEF Spins
  <2>7. CASE ReadyAhead(q, c) = {} /\ tasks' = q /\ current' = c /\ UNCHANGED cpu
    <3>1. c = 1 /\ current = 1 /\ pcs = pc /\ q[1].state = "Running"
      BY <2>1, <2>2, <2>7, NextReadyProperties DEF Awake, Continues
    <3>2. TypeOK'
      BY <1>1, <1>3, <2>2, <2>3, <2>7 DEF TypeOK
    <3>3. (CurrentIsOnCpu /\ SwitchesToSavedStack /\ CpuContextMatchesTask /\ CurrentState)'
      BY <2>1, <2>7, <3>1 DEF SchedInv, Awake, CurrentIsOnCpu, SwitchesToSavedStack,
                              CpuContextMatchesTask, CurrentState
    <3>4. (IdleFirst /\ LockHolderOnCpu)'
      BY <2>1, <2>4, <2>6, <2>7, <3>1 DEF SchedInv, Awake, IdleFirst, LockHolderOnCpu
    <3>5. (SleeperHasAlarm /\ OffCpuSaved)'
      BY <2>1, <2>2, <2>7 DEF Awake, SleeperHasAlarm, OffCpuSaved
    <3>6. (OneCorpse /\ QueueIds)'
      BY <2>1, <2>2, <2>7 DEF Awake, OneCorpse, QueueIds
    <3>7. PcMatchesState'
      BY <2>2, <2>5, <2>7 DEF PcMatchesState
    <3> QED
      BY <2>4, <3>2, <3>3, <3>4, <3>5, <3>6, <3>7 DEF SchedInv
  <2>8. CASE ReadyAhead(q, c) # {} /\ tasks' = Switched(q, c, NextReady(q, c))
             /\ current' = NextReady(q, c) /\ cpu' = switch_context(q[c], q[NextReady(q, c)])
    <3> DEFINE n == NextReady(q, c)
               w == Switched(q, c, n)
    <3>1. n \in 1 .. Len(q) /\ q[n].state = "Ready" /\ n # c
      BY <2>1, <2>2, <2>8, NextReadyProperties DEF Awake
    <3> HIDE DEF n
    <3>2. /\ w \in Seq(Task) /\ Len(w) = Len(q) /\ DOMAIN w = 1 .. Len(q)
          /\ \A i \in 1 .. Len(q) :
                /\ w[i].id = q[i].id /\ w[i].mode = q[i].mode /\ w[i].cr3 = q[i].cr3
                /\ w[i].kernel_stack_top = q[i].kernel_stack_top
                /\ w[i].wake_at = q[i].wake_at
                /\ i = n => w[i].state = "Running"
                /\ i = c => /\ w[i].stack_ptr = "saved"
                            /\ w[i].state = IF q[i].state = "Running" THEN "Ready" ELSE q[i].state
                /\ i \notin {c, n} => w[i].stack_ptr = q[i].stack_ptr /\ w[i].state = q[i].state
      BY <2>2, <3>1, SwitchedProperties, LenProperties
    <3> HIDE DEF w
    <3>3. tasks' = w /\ current' = n /\ cpu' = switch_context(q[c], q[n])
      BY <2>8 DEF n, w
    <3>4. /\ cpu' \in [task : Ids, cr3 : Ids, rsp0 : Ids, valid : BOOLEAN]
          /\ cpu'.task = q[n].id
          /\ cpu'.cr3 = q[n].cr3
          /\ cpu'.valid
          /\ q[n].mode = "User" => cpu'.rsp0 = q[n].kernel_stack_top
      <4>1. q[n] \in Task /\ q[n].stack_ptr = "saved" /\ q[c].cr3 = cpu.cr3
            /\ (q[n].mode = "User" => q[n].kernel_stack_top # 0)
            /\ cpu \in [task : Ids, cr3 : Ids, rsp0 : Ids, valid : BOOLEAN]
        BY <1>1, <2>1, <2>2, <3>1 DEF Awake, TypeOK
      <4> QED
        BY <3>3, <4>1 DEF switch_context, Task
    <3>5. TypeOK'
      BY <1>1, <2>2, <2>3, <3>1, <3>2, <3>3, <3>4, <1>3 DEF TypeOK
    <3>6. (CurrentIsOnCpu /\ SwitchesToSavedStack /\ CpuContextMatchesTask /\ CurrentState)'
      BY <3>1, <3>2, <3>3, <3>4 DEF CurrentIsOnCpu, SwitchesToSavedStack,
                                    CpuContextMatchesTask, CurrentState
    <3>7. IdleFirst'
      <4>1. w[1].id = 0 /\ w[1].state \in {"Ready", "Running"}
            /\ (w[1].state = "Running" <=> n = 1)
        BY <2>1, <2>2, <3>1, <3>2 DEF Awake
      <4> QED
        BY <2>4, <3>3, <4>1 DEF SchedInv, IdleFirst
    <3>8. ASSUME NEW i \in 1 .. Len(q)
          PROVE  /\ w[i].state = "Sleeping" <=> w[i].wake_at # NoWake
                 /\ i # n => w[i].state # "Running" /\ w[i].stack_ptr = "saved"
                 /\ w[i].state = "Dead" => i = c
                 /\ pc'[w[i].id] \in {"exit", "hlt"} => w[i].state = "Dead"
                 /\ pc'[w[i].id] # "gone"
                 /\ w[i].id < next_id
                 /\ w[i].mode = "User" => w[i].kernel_stack_top # 0
      <4>1. /\ w[i].id = q[i].id
            /\ pc'[q[i].id] \in {"exit", "hlt"} => i = c /\ q[i].state = "Dead"
            /\ pc'[q[i].id] # "gone"
        BY <2>5, <3>2
      <4>2. /\ w[i].state = "Sleeping" <=> w[i].wake_at # NoWake
            /\ i # n => w[i].state # "Running" /\ w[i].stack_ptr = "saved"
            /\ w[i].state = "Dead" => i = c
            /\ i = c /\ q[i].state = "Dead" => w[i].state = "Dead"
        BY <2>1, <2>2, <3>1, <3>2 DEF Awake
      <4>3. w[i].id < next_id /\ (w[i].mode = "User" => w[i].kernel_stack_top # 0)
        BY <2>1, <3>2 DEF Awake
      <4> QED
        BY <4>1, <4>2, <4>3
    <3>9. (SleeperHasAlarm /\ LockHolderOnCpu /\ OneCorpse /\ OffCpuSaved /\ PcMatchesState)'
      BY <2>6, <3>2, <3>3, <3>8 DEF SleeperHasAlarm, LockHolderOnCpu, OneCorpse, OffCpuSaved,
                                    PcMatchesState
    <3>10. QueueIds'
      <4>1. \A i, j \in 1 .. Len(q) : w[i].id = w[j].id => i = j
        BY <2>1, <3>2 DEF Awake
      <4> QED
        BY <3>2, <3>3, <3>8, <4>1 DEF QueueIds
    <3> QED
      BY <2>4, <3>5, <3>6, <3>7, <3>9, <3>10 DEF SchedInv
  <2> QED
    BY <1>3, <2>7, <2>8 DEF Dispatch
<1> QED
  BY <1>2, <1>3 DEF schedule

-----------------------------------------------------------------------------
(* The invariant *)

\* schedule() may be called with the queue as it is, or one tick later.
LEMMA HandedByCallers ==
    ASSUME TypeOK
    PROVE  Handed(tasks) /\ Handed(Tick(tasks))
<1>1. tasks \in Seq(Task)
  BY DEF TypeOK
<1> QED
  BY <1>1, TickProperties DEF Handed, SameTask

\* The initial state: one task, on the CPU.
LEMMA InitInv == Init => SchedInv
<1> SUFFICES ASSUME Init PROVE SchedInv
  OBVIOUS
<1>1. kernel_task \in Task /\ 0 \in Ids /\ 1 \in 1 .. MaxTasks /\ 0 \in 0 .. MaxSleep
  BY BoundsAssumption DEF kernel_task, Task, Ids, States, Modes, NoWake
<1>2. tasks \in Seq(Task) /\ Len(tasks) = 1 /\ DOMAIN tasks = {1} /\ tasks[1] = kernel_task
  BY <1>1 DEF Init
<1>3. TypeOK
  <2>1. current \in 1 .. Len(tasks)
    BY <1>2 DEF Init
  <2>2. due \in [Ids -> 0 .. MaxSleep]
    BY <1>1 DEF Init
  <2>3. cpu \in [task : Ids, cr3 : Ids, rsp0 : Ids, valid : BOOLEAN]
    BY <1>1 DEF Init
  <2>4. pc \in [Ids -> Pcs]
    BY DEF Init, Pcs
  <2> QED
    BY <1>1, <1>2, <2>1, <2>2, <2>3, <2>4 DEF Init, TypeOK
<1>4. CurrentIsOnCpu /\ SwitchesToSavedStack /\ CpuContextMatchesTask /\ CurrentState /\ IdleFirst
  BY <1>1, <1>2 DEF Init, CurrentIsOnCpu, SwitchesToSavedStack, CpuContextMatchesTask, CurrentState,
                    IdleFirst, kernel_task
<1>5. SleeperHasAlarm /\ LockHolderOnCpu /\ OneCorpse /\ OffCpuSaved
  BY <1>1, <1>2 DEF Init, SleeperHasAlarm, LockHolderOnCpu, OneCorpse, OffCpuSaved, kernel_task
<1>6. QueueIds
  BY <1>1, <1>2 DEF Init, QueueIds, kernel_task
<1>7. PcMatchesState
  BY <1>1, <1>2 DEF Init, PcMatchesState, kernel_task
<1> QED
  BY <1>3, <1>4, <1>5, <1>6, <1>7 DEF SchedInv

\* A step that moves only the pc of the task on the CPU, and perhaps a lock or a deadline.
LEMMA PcOnlyStep ==
    ASSUME SchedInv, NEW t \in Ids, t = cpu.task, tasks[current].state = "Running",
           NEW to \in Pcs \ {"exit", "hlt", "gone"}, t = 0 => to = "idle",
           pc' = [pc EXCEPT ![t] = to],
           UNCHANGED <<tasks, current, next_id, cpu, stuck>>,
           due' \in [Ids -> 0 .. MaxSleep],
           sched_lock' \in Ids \cup {Nobody}, heap_lock' \in Ids \cup {Nobody},
           disk_lock' \in Ids \cup {Nobody},
           LockHolderOnCpu'
    PROVE  SchedInv' /\ pc'[cpu.task] # "gone"
<1>1. /\ tasks \in Seq(Task) /\ DOMAIN tasks = 1 .. Len(tasks) /\ current \in 1 .. Len(tasks)
      /\ pc \in [Ids -> Pcs] /\ cpu.task \in Ids /\ 0 \in Ids
      /\ \A i \in 1 .. Len(tasks) : tasks[i].id \in Ids
  BY TypeFacts DEF SchedInv
<1>2. TypeOK'
  BY <1>1 DEF SchedInv, TypeOK
<1>3. (CurrentIsOnCpu /\ SwitchesToSavedStack /\ CpuContextMatchesTask /\ CurrentState)'
  BY DEF SchedInv, CurrentIsOnCpu, SwitchesToSavedStack, CpuContextMatchesTask, CurrentState
<1>4. (SleeperHasAlarm /\ OneCorpse /\ OffCpuSaved /\ QueueIds)'
  BY DEF SchedInv, SleeperHasAlarm, OneCorpse, OffCpuSaved, QueueIds
<1>5. IdleFirst'
  BY <1>1 DEF SchedInv, IdleFirst
<1>6. PcMatchesState'
  BY <1>1 DEF SchedInv, PcMatchesState
<1> QED
  BY <1>1, <1>2, <1>3, <1>4, <1>5, <1>6 DEF SchedInv

\* sleep() and exit() mark the current task before they call schedule().
LEMMA MarkStep ==
    ASSUME SchedInv, NEW t \in Ids, t = cpu.task, t # 0, tasks[current].state = "Running",
           NEW e \in Task, NEW to \in Pcs,
           \/ e.state = "Sleeping" /\ e.wake_at # NoWake /\ to = "slept"
           \/ e.state = "Dead" /\ e.wake_at = NoWake /\ to = "exit",
           e.id = tasks[current].id, e.mode = tasks[current].mode,
           e.cr3 = tasks[current].cr3, e.kernel_stack_top = tasks[current].kernel_stack_top,
           tasks' = [tasks EXCEPT ![current] = e],
           pc' = [pc EXCEPT ![t] = to],
           UNCHANGED <<current, next_id, cpu, due, sched_lock, heap_lock, disk_lock, stuck>>
    PROVE  SchedInv' /\ pc'[cpu.task] # "gone"
<1>1. /\ tasks \in Seq(Task) /\ DOMAIN tasks = 1 .. Len(tasks) /\ current \in 1 .. Len(tasks)
      /\ Len(tasks) \in Nat
      /\ pc \in [Ids -> Pcs] /\ cpu.task \in Ids /\ 0 \in Ids
      /\ \A i \in 1 .. Len(tasks) : tasks[i].id \in Ids
  BY TypeFacts DEF SchedInv
<1>2. /\ tasks' \in Seq(Task) /\ Len(tasks') = Len(tasks) /\ DOMAIN tasks' = 1 .. Len(tasks)
      /\ tasks'[current] = e
      /\ \A i \in 1 .. Len(tasks) : i # current => tasks'[i] = tasks[i]
  BY <1>1, ExceptSeq
<1>3. current # 1 /\ tasks'[1] = tasks[1]
  BY <1>1, <1>2 DEF SchedInv, IdleFirst, CurrentIsOnCpu
<1>4. TypeOK'
  BY <1>1, <1>2 DEF SchedInv, TypeOK
<1>5. (CurrentIsOnCpu /\ SwitchesToSavedStack /\ CpuContextMatchesTask /\ CurrentState)'
  BY <1>1, <1>2 DEF SchedInv, CurrentIsOnCpu, SwitchesToSavedStack, CpuContextMatchesTask, CurrentState
<1>6. (SleeperHasAlarm /\ OffCpuSaved /\ LockHolderOnCpu)'
  BY <1>1, <1>2 DEF SchedInv, SleeperHasAlarm, OffCpuSaved, LockHolderOnCpu
<1>7. OneCorpse'
  BY <1>1, <1>2 DEF SchedInv, OneCorpse
<1>8. IdleFirst'
  BY <1>1, <1>2, <1>3 DEF SchedInv, IdleFirst
<1>9. QueueIds'
  BY <1>1, <1>2 DEF SchedInv, QueueIds
<1>10. PcMatchesState'
  <2>1. \A i \in 1 .. Len(tasks) : i # current => tasks[i].id # t
    BY <1>1 DEF SchedInv, QueueIds, CurrentIsOnCpu
  <2> QED
    BY <1>1, <1>2, <2>1 DEF SchedInv, PcMatchesState, CurrentIsOnCpu
<1> QED
  BY <1>1, <1>4, <1>5, <1>6, <1>7, <1>8, <1>9, <1>10 DEF SchedInv

\* spawn() appends a Ready task with a fresh id; nothing else moves.
LEMMA SpawnStep ==
    ASSUME SchedInv, NEW mode \in Modes, spawn(mode)
    PROVE  SchedInv' /\ pc'[cpu.task] # "gone"
<1> DEFINE e == new_task(next_id, mode)
           m == Len(tasks)
<1>1. /\ tasks \in Seq(Task) /\ m \in Nat /\ DOMAIN tasks = 1 .. m
      /\ current \in 1 .. m
      /\ pc \in [Ids -> Pcs] /\ cpu.task \in Ids /\ 0 \in Ids
      /\ \A i \in 1 .. m : tasks[i] \in Task /\ tasks[i].id \in Ids
  BY TypeFacts DEF SchedInv
<1>2. next_id \in Ids /\ next_id' \in 1 .. MaxTasks /\ next_id # 0 /\ next_id < next_id'
  BY BoundsAssumption DEF SchedInv, TypeOK, spawn, Ids
<1>3. /\ e \in Task /\ e.id = next_id /\ e.state = "Ready" /\ e.stack_ptr = "saved"
      /\ e.wake_at = NoWake /\ e.kernel_stack_top # 0
  <2>1. NoWake \in NoWake .. MaxSleep
    BY BoundsAssumption DEF NoWake
  <2>2. cpu.cr3 \in Ids
    BY DEF SchedInv, TypeOK
  <2> QED
    BY <1>2, <2>1, <2>2 DEF new_task, Task, States, Modes
<1>4. tasks' = Append(tasks, e) /\ pc' = [pc EXCEPT ![next_id] = "start"]
      /\ UNCHANGED <<current, cpu, due, sched_lock, heap_lock, disk_lock, stuck>>
  BY DEF spawn
<1> HIDE DEF e, m
<1>5. /\ tasks' \in Seq(Task) /\ Len(tasks') = m + 1 /\ DOMAIN tasks' = 1 .. m + 1
      /\ tasks'[m + 1] = e
      /\ \A i \in 1 .. m : tasks'[i] = tasks[i]
  <2>1. Len(tasks) = m
    BY DEF m
  <2> QED
    BY <1>1, <1>3, <1>4, <2>1, AppendProperties
<1>6. \A i \in 1 .. m + 1 : i \in 1 .. m \/ i = m + 1
  BY <1>1
<1>7. current \in 1 .. m + 1 /\ current # m + 1 /\ 1 \in 1 .. m
  BY <1>1
<1>8. TypeOK'
  BY <1>1, <1>2, <1>4, <1>5, <1>7 DEF SchedInv, TypeOK, Pcs
<1>9. cpu.task # next_id /\ pc'[cpu.task] = pc[cpu.task] /\ pc'[0] = pc[0]
  <2>1. tasks[current].id < next_id
    BY <1>1 DEF SchedInv, QueueIds
  <2> QED
    BY <1>1, <1>2, <1>4, <2>1 DEF SchedInv, CurrentIsOnCpu, Ids
<1>10. (CurrentIsOnCpu /\ SwitchesToSavedStack /\ CpuContextMatchesTask /\ CurrentState)'
  BY <1>1, <1>4, <1>5, <1>9 DEF SchedInv, CurrentIsOnCpu, SwitchesToSavedStack,
                                CpuContextMatchesTask, CurrentState
<1>11. (IdleFirst /\ LockHolderOnCpu)'
  BY <1>4, <1>5, <1>7, <1>9 DEF SchedInv, IdleFirst, LockHolderOnCpu
<1>12. (SleeperHasAlarm /\ OffCpuSaved)'
  BY <1>1, <1>3, <1>4, <1>5, <1>6 DEF SchedInv, SleeperHasAlarm, OffCpuSaved
<1>13. OneCorpse'
  <2>1. \A i \in 1 .. m + 1 : tasks'[i].state = "Dead" => i \in 1 .. m /\ tasks[i].state = "Dead"
    BY <1>3, <1>5, <1>6
  <2> QED
    BY <1>1, <1>4, <1>5, <2>1 DEF SchedInv, OneCorpse
<1>14. QueueIds'
  <2>1. \A i \in 1 .. m : tasks'[i].id < next_id /\ tasks'[i].id \in Nat
    BY <1>1, <1>5 DEF SchedInv, QueueIds, Ids
  <2>2. \A i, j \in 1 .. m : tasks'[i].id = tasks'[j].id => i = j
    BY <1>1, <1>5 DEF SchedInv, QueueIds
  <2>3. next_id \in Nat /\ next_id' \in Nat /\ next_id < next_id'
    BY <1>2 DEF Ids
  <2>4. \A i, j \in 1 .. m + 1 : tasks'[i].id = tasks'[j].id => i = j
    BY <1>3, <1>5, <1>6, <2>1, <2>2, <2>3
  <2>5. \A i \in 1 .. m + 1 : tasks'[i].id < next_id'
    BY <1>3, <1>5, <1>6, <2>1, <2>3
  <2>6. \A i \in 1 .. m + 1 : tasks'[i].mode = "User" => tasks'[i].kernel_stack_top # 0
    BY <1>1, <1>3, <1>5, <1>6 DEF SchedInv, QueueIds
  <2> QED
    BY <1>5, <2>4, <2>5, <2>6 DEF QueueIds
<1>15. PcMatchesState'
  <2>1. \A i \in 1 .. m : tasks[i].id # next_id
    BY <1>1, <1>2 DEF SchedInv, QueueIds, Ids
  <2>2. \A i \in 1 .. m : pc'[tasks'[i].id] = pc[tasks[i].id]
    BY <1>1, <1>4, <1>5, <2>1
  <2>3. pc'[tasks'[m + 1].id] = "start"
    BY <1>1, <1>2, <1>3, <1>4, <1>5
  <2> QED
    BY <1>1, <1>5, <1>6, <2>2, <2>3 DEF SchedInv, PcMatchesState
<1> QED
  BY <1>8, <1>9, <1>10, <1>11, <1>12, <1>13, <1>14, <1>15, NotFreed DEF SchedInv

\* A task that executes is the current one, and not the idle task.
LEMMA ExecutesFacts ==
    ASSUME SchedInv, NEW t \in Ids, NEW at \in Pcs \ {"boot", "idle"}, Executes(t, at)
    PROVE  /\ t = cpu.task /\ t # 0 /\ current # 1 /\ pc[cpu.task] = at
           /\ at \notin {"slept", "exit"} => tasks[current].state = "Running"
           /\ at = "exit" => tasks[current].state = "Dead"
<1>1. t = cpu.task /\ pc[t] = at /\ t # 0
  BY DEF Executes, SchedInv, IdleFirst
<1>2. current \in DOMAIN tasks
  BY TypeFacts DEF SchedInv
<1> QED
  BY <1>1, <1>2 DEF SchedInv, IdleFirst, CurrentIsOnCpu, CurrentState, PcMatchesState

\* Every step of the kernel preserves the invariant and frees no stack it runs on.
LEMMA NextStep ==
    ASSUME SchedInv, [Next]_vars
    PROVE  SchedInv' /\ pc'[cpu.task] # "gone"
<1>0. /\ TypeOK /\ cpu.task \in Ids /\ 0 \in Ids /\ pc \in [Ids -> Pcs]
      /\ due \in [Ids -> 0 .. MaxSleep]
      /\ sched_lock \in Ids \cup {Nobody} /\ heap_lock \in Ids \cup {Nobody}
      /\ disk_lock \in Ids \cup {Nobody}
      /\ Handed(tasks) /\ Handed(Tick(tasks)) /\ LockHolderOnCpu
      /\ current \in DOMAIN tasks /\ tasks[current].id = cpu.task /\ pc[cpu.task] # "gone"
      /\ pc[cpu.task] \in {"exit", "hlt"} => tasks[current].state = "Dead"
  BY TypeFacts, HandedByCallers DEF SchedInv, TypeOK, CurrentIsOnCpu, PcMatchesState
<1>1. ASSUME NEW mode \in Modes, spawn(mode)
      PROVE  SchedInv' /\ pc'[cpu.task] # "gone"
  BY <1>1, SpawnStep
<1>2. CASE enable_interrupts
  <2>1. cpu.task = 0 /\ tasks[current].state = "Running"
    BY <1>0, <1>2 DEF enable_interrupts, SchedInv, IdleFirst
  <2> QED
    BY <1>0, <1>2, <2>1, PcOnlyStep DEF enable_interrupts, Pcs, LockHolderOnCpu
<1>3. CASE timer_handler
  <2>1. due' \in [Ids -> 0 .. MaxSleep]
    <3>1. due' = [t \in Ids |-> IF due[t] > 0 THEN due[t] - 1 ELSE 0]
      BY <1>3 DEF timer_handler
    <3>2. \A t \in Ids : (IF due[t] > 0 THEN due[t] - 1 ELSE 0) \in 0 .. MaxSleep
      BY <1>0, BoundsAssumption
    <3> QED
      BY <3>1, <3>2
  <2>2. pc[0] = "idle"
    BY <1>0, <1>3 DEF timer_handler, InterruptsOn, SchedInv, IdleFirst
  <2>3. Continues(pc)
    BY <1>0, <2>2 DEF Continues
  <2> QED
    BY <1>0, <1>3, <2>1, <2>3, ScheduleStep DEF timer_handler
<1>4. ASSUME NEW t \in Ids,
             \/ entry_wrapper(t) \/ (\E n \in 0 .. MaxSleep : sleep_read(t, n))
             \/ lock_scheduler(t) \/ unlock_scheduler(t) \/ lock_heap(t) \/ unlock_heap(t)
             \/ lock_disk(t) \/ unlock_disk(t)
      PROVE  SchedInv' /\ pc'[cpu.task] # "gone"
  <2>1. PICK at \in {"start", "run", "sched_section", "heap_section", "disk_section"},
             to \in {"run", "sleep", "sched_section", "heap_section", "disk_section"} :
          Executes(t, at) /\ pc' = [pc EXCEPT ![t] = to]
    BY <1>4 DEF entry_wrapper, sleep_read, lock_scheduler, unlock_scheduler, lock_heap,
                unlock_heap, lock_disk, unlock_disk, Goto
  <2>2. t = cpu.task /\ t # 0 /\ tasks[current].state = "Running"
    BY <2>1, ExecutesFacts DEF Pcs
  <2>3. UNCHANGED <<tasks, current, next_id, cpu, stuck>>
    BY <1>4 DEF entry_wrapper, sleep_read, lock_scheduler, unlock_scheduler, lock_heap, unlock_heap,
                lock_disk, unlock_disk
  <2>4. due' \in [Ids -> 0 .. MaxSleep]
    BY <1>0, <1>4 DEF entry_wrapper, sleep_read, lock_scheduler, unlock_scheduler, lock_heap,
                      unlock_heap, lock_disk, unlock_disk
  <2>5. /\ sched_lock' \in Ids \cup {Nobody} /\ heap_lock' \in Ids \cup {Nobody}
        /\ disk_lock' \in Ids \cup {Nobody}
        /\ LockHolderOnCpu'
    BY <1>0, <1>4, <2>2, <2>3 DEF entry_wrapper, sleep_read, lock_scheduler, unlock_scheduler,
                                  lock_heap, unlock_heap, lock_disk, unlock_disk, LockHolderOnCpu
  <2> QED
    BY <2>1, <2>2, <2>3, <2>4, <2>5, PcOnlyStep DEF Pcs
<1>5. ASSUME NEW t \in Ids, yield_now(t) \/ sleep_schedule(t) \/ exit_schedule(t)
      PROVE  SchedInv' /\ pc'[cpu.task] # "gone"
  <2>1. PICK at \in {"run", "slept", "exit"} :
          /\ Executes(t, at)
          /\ \/ at = "run" /\ schedule(tasks, pc)
             \/ at = "slept" /\ schedule(tasks, [pc EXCEPT ![t] = "run"])
             \/ at = "exit" /\ schedule(tasks, [pc EXCEPT ![t] = "hlt"])
          /\ next_id' = next_id /\ due' = due
          /\ sched_lock' = sched_lock /\ heap_lock' = heap_lock /\ disk_lock' = disk_lock
    BY <1>5 DEF yield_now, sleep_schedule, exit_schedule
  <2>2. /\ t = cpu.task /\ t # 0 /\ current # 1
        /\ at = "exit" => tasks[current].state = "Dead"
    BY <2>1, ExecutesFacts DEF Pcs
  <2>3. pc[0] = "idle"
    BY <2>2 DEF SchedInv, IdleFirst
  <2>4. CASE at = "run"
    <3>1. Continues(pc)
      BY <1>0, <2>3 DEF Continues
    <3> QED
      BY <1>0, <2>1, <2>4, <3>1, ScheduleStep
  <2>5. CASE at = "slept"
    <3>1. Continues([pc EXCEPT ![t] = "run"])
      BY <1>0, <2>2, <2>3 DEF Continues, Pcs
    <3> QED
      BY <1>0, <2>1, <2>5, <3>1, ScheduleStep
  <2>6. CASE at = "exit"
    <3>1. Continues([pc EXCEPT ![t] = "hlt"])
      BY <1>0, <2>2, <2>3, <2>6 DEF Continues, Pcs
    <3> QED
      BY <1>0, <2>1, <2>6, <3>1, ScheduleStep
  <2> QED
    BY <2>1, <2>4, <2>5, <2>6
<1>6. ASSUME NEW t \in Ids, sleep_mark(t) \/ \E u \in BOOLEAN : exit_mark(t, u)
      PROVE  SchedInv' /\ pc'[cpu.task] # "gone"
  <2> DEFINE s == [tasks[current] EXCEPT !.state = "Sleeping", !.wake_at = due[t]]
  <2>1. tasks[current] \in Task
    BY TypeFacts DEF SchedInv
  <2>2. CASE sleep_mark(t)
    <3>1. t = cpu.task /\ t # 0 /\ tasks[current].state = "Running"
      BY <2>2, ExecutesFacts DEF Pcs, sleep_mark
    <3>2. due[t] \in NoWake .. MaxSleep /\ due[t] # NoWake
      BY <1>0, BoundsAssumption DEF NoWake
    <3>3. /\ s \in Task /\ s.state = "Sleeping" /\ s.wake_at # NoWake
          /\ s.id = tasks[current].id /\ s.mode = tasks[current].mode
          /\ s.cr3 = tasks[current].cr3 /\ s.kernel_stack_top = tasks[current].kernel_stack_top
      BY <2>1, <3>2 DEF Task, States
    <3>4. tasks' = [tasks EXCEPT ![current] = s]
      BY <1>0, <2>2 DEF sleep_mark, AsSleeping
    <3> HIDE DEF s
    <3> QED
      BY <2>2, <3>1, <3>3, <3>4, MarkStep DEF sleep_mark, Goto, Pcs
  <2>3. ASSUME NEW u \in BOOLEAN, exit_mark(t, u)
        PROVE  SchedInv' /\ pc'[cpu.task] # "gone"
    <3> DEFINE d == [tasks[current] EXCEPT !.state = "Dead", !.unsaved = u]
    <3>1. t = cpu.task /\ t # 0 /\ tasks[current].state = "Running"
      BY <2>3, ExecutesFacts DEF Pcs, exit_mark
    <3>2. tasks[current].wake_at = NoWake
      BY <1>0, <3>1 DEF SchedInv, SleeperHasAlarm
    <3>3. /\ d \in Task /\ d.state = "Dead" /\ d.wake_at = NoWake
          /\ d.id = tasks[current].id /\ d.mode = tasks[current].mode
          /\ d.cr3 = tasks[current].cr3 /\ d.kernel_stack_top = tasks[current].kernel_stack_top
      BY <2>1, <3>2 DEF Task, States
    <3>4. tasks' = [tasks EXCEPT ![current] = d]
      BY <1>0, <2>3 DEF exit_mark, AsDead
    <3> HIDE DEF d
    <3> QED
      BY <2>3, <3>1, <3>3, <3>4, MarkStep DEF exit_mark, Goto, Pcs
  <2> QED
    BY <1>6, <2>2, <2>3
<1>7. CASE UNCHANGED vars
  <2>1. SchedInv'
    BY <1>7 DEF vars, SchedInv, TypeOK, CurrentIsOnCpu, SwitchesToSavedStack, CpuContextMatchesTask,
                SleeperHasAlarm, LockHolderOnCpu, OneCorpse, IdleFirst, OffCpuSaved, CurrentState,
                QueueIds, PcMatchesState
  <2> QED
    BY <1>0, <1>7, <2>1 DEF vars
<1> QED
  BY <1>1, <1>2, <1>3, <1>4, <1>5, <1>6, <1>7 DEF Next, spinning

(***************************************************************************)
(* The invariant of the scheduler, for every number of tasks and every     *)
(* sleep: through any interleaving of timer interrupts with sleep(),       *)
(* exit() and the system calls' critical sections, `current` denotes the   *)
(* task on the CPU, its context is loaded, the idle task is runnable, and  *)
(* every other task is parked with a saved stack pointer.                  *)
(***************************************************************************)
THEOREM SchedInvariant == Spec => []SchedInv
<1>1. SchedInv /\ [Next]_vars => SchedInv'
  BY NextStep
<1> QED
  BY <1>1, InitInv, PTL DEF Spec

\* The type invariant alone, as a consequence.
THEOREM TypeCorrect == Spec => []TypeOK
<1>1. SchedInv => TypeOK
  BY DEF SchedInv
<1> QED
  BY <1>1, SchedInvariant, PTL

\* schedule() never loads a stale stack pointer: it never switches a task to itself.
THEOREM StackSound == Spec => []SwitchesToSavedStack
<1>1. SchedInv => SwitchesToSavedStack
  BY DEF SchedInv
<1> QED
  BY <1>1, SchedInvariant, PTL

\* Scheduler.current and the task on the CPU agree, and so do %cr3 and the TSS.
THEOREM ContextSound == Spec => [](CurrentIsOnCpu /\ CpuContextMatchesTask)
<1>1. SchedInv => CurrentIsOnCpu /\ CpuContextMatchesTask
  BY DEF SchedInv
<1> QED
  BY <1>1, SchedInvariant, PTL

\* exit() does not return: a Dead task is never switched to again.
THEOREM ExitIsFinal == Spec => []DeadNeverResumes
<1>1. SchedInv => DeadNeverResumes
  <2> SUFFICES ASSUME SchedInv, pc[cpu.task] = "hlt"
               PROVE  FALSE
    BY DEF DeadNeverResumes
  <2>1. current \in DOMAIN tasks /\ tasks[current].id = cpu.task
    BY TypeFacts DEF SchedInv, CurrentIsOnCpu
  <2>2. tasks[current].state = "Dead"
    BY <2>1 DEF SchedInv, PcMatchesState
  <2> QED
    BY <2>2 DEF SchedInv, CurrentState
<1> QED
  BY <1>1, SchedInvariant, PTL

\* No step frees the kernel stack it executes on.
THEOREM StackNotFreedUnderfoot == Spec => NeverFreesOwnStack
<1>1. SchedInv /\ [Next]_vars => [pc[cpu.task] # "gone" => pc'[cpu.task] # "gone"]_vars
  BY NextStep
<1> QED
  BY <1>1, SchedInvariant, PTL DEF Spec, NeverFreesOwnStack

-----------------------------------------------------------------------------
(* Round-robin order *)

\* Going around from a, one meets b before c; the three are distinct.
Cyclic(a, b, c) == (a < b /\ b < c) \/ (b < c /\ c < a) \/ (c < a /\ a < b)

(***************************************************************************)
(* The invariant behind NoDoubleOvertake: a task that has overtaken t and  *)
(* is still in the queue either has the CPU or comes after t, going around *)
(* the queue from `current`.                                               *)
(***************************************************************************)
OrderInv ==
    \A t \in Ids : \A u \in overtakers[t] :
        /\ Waiting(t)
        /\ u < next_id
        /\ \A i, j \in DOMAIN tasks :
              (tasks[i].id = t /\ tasks[j].id = u /\ j # current) => Cyclic(current, i, j)

\* reap_dead leaves the tasks it keeps in their order.
LEMMA ReapedOrder ==
    ASSUME NEW X, NEW ts \in Seq(X), NEW c \in 1 .. Len(ts)
    PROVE  \E at \in [1 .. Len(Reaped(ts, c)) -> 1 .. Len(ts)] :
              /\ \A k, l \in 1 .. Len(Reaped(ts, c)) : k < l => at[k] < at[l]
              /\ \A k \in 1 .. Len(Reaped(ts, c)) : Reaped(ts, c)[k] = ts[at[k]]
              /\ at[ReapedCurrent(ts, c)] = c
<1> DEFINE m == Len(ts)
           S == Kept(ts, c)
           n == Cardinality(S)
           at == [k \in 1 .. n |-> CHOOSE i \in S : Rank(S, i) = k]
<1>1. m \in Nat /\ DOMAIN ts = 1 .. m
  BY LenProperties
<1>2. S \in SUBSET (1 .. m) /\ c \in S
  BY <1>1 DEF Kept
<1>3. /\ n \in Nat
      /\ \A i \in S : Rank(S, i) \in 1 .. n
      /\ \A i, j \in S : i < j => Rank(S, i) < Rank(S, j)
      /\ \A k \in 1 .. n : \E i \in S : Rank(S, i) = k
  BY <1>1, <1>2, RankBijection
<1>4. \A k \in 1 .. n : at[k] \in S /\ Rank(S, at[k]) = k
  BY <1>3
<1>5. Reaped(ts, c) = [k \in 1 .. n |-> ts[at[k]]]
  BY DEF Reaped
<1>6. Reaped(ts, c) \in Seq(X) /\ ReapedCurrent(ts, c) = Rank(S, c)
  BY ReapedProperties DEF ReapedCurrent
<1> HIDE DEF at, n, S
<1>7. Len(Reaped(ts, c)) = n
  BY <1>3, <1>5, <1>6
<1>8. at \in [1 .. n -> 1 .. m]
  <2>1. at = [k \in 1 .. n |-> at[k]]
    BY DEF at
  <2> QED
    BY <2>1, <1>2, <1>4
<1>9. ASSUME NEW k \in 1 .. n, NEW l \in 1 .. n, k < l
      PROVE  at[k] < at[l]
  <2>1. at[k] \in S /\ at[l] \in S /\ Rank(S, at[k]) = k /\ Rank(S, at[l]) = l
    BY <1>4
  <2>2. at[k] \in 1 .. m /\ at[l] \in 1 .. m
    BY <1>8
  <2>3. ~(at[l] < at[k])
    BY <2>1, <1>3, <1>9
  <2>4. at[k] # at[l]
    BY <2>1, <1>9
  <2> QED
    BY <2>2, <2>3, <2>4
<1>10. at[Rank(S, c)] = c
  <2>1. PICK k \in 1 .. n : k = Rank(S, c)
    BY <1>2, <1>3
  <2>2. PICK i \in S : i = at[k]
    BY <1>4
  <2>3. Rank(S, i) = k
    BY <2>2, <1>4
  <2>4. c < i => Rank(S, c) < Rank(S, i)
    BY <1>2, <1>3
  <2>5. i < c => Rank(S, i) < Rank(S, c)
    BY <1>2, <1>3
  <2>6. ~(c < i) /\ ~(i < c)
    BY <2>1, <2>3, <2>4, <2>5
  <2>7. i \in Int /\ c \in Int
    BY <1>2
  <2> QED
    BY <2>1, <2>2, <2>6, <2>7
<1> QED
  BY <1>5, <1>6, <1>7, <1>8, <1>9, <1>10

\* next_ready passes over no Ready task.
LEMMA NextReadyFirst ==
    ASSUME NEW X, NEW q \in Seq(X), NEW c \in 1 .. Len(q), ReadyAhead(q, c) # {},
           NextReady(q, c) # c,
           NEW i \in 1 .. Len(q), q[i].state = "Ready", i # c, i # NextReady(q, c)
    PROVE  Cyclic(c, NextReady(q, c), i)
<1> DEFINE m == Len(q)
           R == ReadyAhead(q, c)
           first == CHOOSE k \in R : \A j \in R : k <= j
<1>1. m \in Nat /\ R \in SUBSET (1 .. m)
  BY LenProperties DEF ReadyAhead
<1>2. first \in R /\ \A j \in R : first <= j
  BY <1>1, LeastIndex
<1>3. NextReady(q, c) = Ahead(m, c, first)
  BY DEF NextReady
<1>4. \E k \in 1 .. m : Ahead(m, c, k) = i
  <2>1. CASE i > c
    <3>1. i - c \in 1 .. m /\ Ahead(m, c, i - c) = i
      BY <2>1, <1>1 DEF Ahead
    <3> QED
      BY <3>1
  <2>2. CASE i <= c
    <3>1. i + m - c \in 1 .. m /\ Ahead(m, c, i + m - c) = i
      BY <2>2, <1>1 DEF Ahead
    <3> QED
      BY <3>1
  <2> QED
    BY <2>1, <2>2, <1>1
<1>5. PICK k \in 1 .. m : Ahead(m, c, k) = i
  BY <1>4
<1>6. k \in R
  BY <1>5 DEF ReadyAhead
<1>7. first <= k /\ first \in 1 .. m
  BY <1>1, <1>2, <1>6
<1> HIDE DEF first, R
<1> QED
  BY <1>1, <1>3, <1>5, <1>7 DEF Ahead, Cyclic

\* A step after which the same tasks stand in the same order keeps the order.
LEMMA OrderKept ==
    ASSUME TypeOK, OrderInv, overtakers \in [Ids -> SUBSET Ids],
           overtakers' \in [Ids -> SUBSET Ids], next_id' \in Nat, next_id <= next_id',
           \A t \in Ids : \A u \in overtakers'[t] : u \in overtakers[t] /\ Waiting(t)',
           current' = current, DOMAIN tasks' = DOMAIN tasks,
           \A i \in DOMAIN tasks : tasks'[i].id = tasks[i].id
    PROVE  OrderInv'
<1> SUFFICES ASSUME NEW t \in Ids, NEW u \in overtakers'[t]
             PROVE  /\ Waiting(t)'
                    /\ u < next_id'
                    /\ \A i, j \in DOMAIN tasks' :
                          (tasks'[i].id = t /\ tasks'[j].id = u /\ j # current')
                             => Cyclic(current', i, j)
  BY DEF OrderInv
<1>1. /\ u < next_id /\ Waiting(t)'
      /\ \A i, j \in DOMAIN tasks :
            (tasks[i].id = t /\ tasks[j].id = u /\ j # current) => Cyclic(current, i, j)
  BY DEF OrderInv
<1>2. u \in Int /\ next_id \in Int
  BY DEF TypeOK, Ids
<1> QED
  BY <1>1, <1>2

\* schedule(): a task that waits before and after is passed by none of its overtakers.
LEMMA OrderSchedule ==
    ASSUME SchedInv, SchedInv', OrderInv, overtakers \in [Ids -> SUBSET Ids],
           overtakers' \in [Ids -> SUBSET Ids], next_id' = next_id,
           \A t \in Ids : \A u \in overtakers'[t] :
               /\ Waiting(t) /\ Waiting(t)'
               /\ u \in overtakers[t] \/ (u = cpu'.task /\ cpu'.task # cpu.task),
           NEW ts, Handed(ts), NEW pcs, schedule(ts, pcs)
    PROVE  /\ OrderInv'
           /\ cpu'.task # cpu.task =>
                 \A t \in Ids : (Waiting(t) /\ Waiting(t)') => cpu'.task \notin overtakers[t]
<1> DEFINE r == Reaped(ts, current)
           q == Wake(r)
           c == ReapedCurrent(ts, current)
<1>1. /\ TypeOK /\ tasks \in Seq(Task) /\ Len(tasks) \in Nat /\ current \in 1 .. Len(tasks)
      /\ DOMAIN tasks = 1 .. Len(tasks) /\ tasks[current].id = cpu.task
      /\ next_id \in Nat
  <2>1. TypeOK /\ CurrentIsOnCpu
    BY DEF SchedInv
  <2>2. tasks \in Seq(Task) /\ current \in 1 .. Len(tasks) /\ next_id \in 1 .. MaxTasks
    BY <2>1 DEF TypeOK
  <2> QED
    BY <2>1, <2>2, BoundsAssumption, LenProperties DEF CurrentIsOnCpu
<1>2. /\ ts \in Seq(Task) /\ Len(ts) = Len(tasks) /\ DOMAIN ts = 1 .. Len(tasks)
      /\ \A i \in 1 .. Len(tasks) : ts[i].id = tasks[i].id
  BY LenProperties DEF Handed, SameTask
<1>3. CASE tasks' = ts /\ UNCHANGED <<current, cpu>>
  <2>1. \A t \in Ids : \A u \in overtakers'[t] : u \in overtakers[t] /\ Waiting(t)'
    BY <1>3
  <2>2. DOMAIN tasks' = DOMAIN tasks /\ \A i \in DOMAIN tasks : tasks'[i].id = tasks[i].id
    BY <1>1, <1>2, <1>3
  <2>3. next_id' \in Nat /\ next_id <= next_id'
    BY <1>1
  <2>4. OrderInv'
    BY <1>1, <1>3, <2>1, <2>2, <2>3, OrderKept
  <2> QED
    BY <1>3, <2>4
<1>4. CASE Dispatch(q, c)
  <2>1. Awake(q, c)
    BY AfterReap
  <2>2. PICK at \in [1 .. Len(r) -> 1 .. Len(ts)] :
              /\ \A k, l \in 1 .. Len(r) : k < l => at[k] < at[l]
              /\ \A k \in 1 .. Len(r) : r[k] = ts[at[k]]
              /\ at[c] = current
    BY <1>1, <1>2, ReapedOrder
  <2>3. /\ r \in Seq(Task) /\ Len(q) = Len(r) /\ q \in Seq(Task)
        /\ \A i \in 1 .. Len(r) : q[i].id = r[i].id
    <3>1. r \in Seq(Task)
      BY <1>1, <1>2, ReapedProperties
    <3> HIDE DEF r
    <3> QED
      BY <3>1, WakeProperties
  <2> DEFINE n == Len(q)
  <2>4. /\ n \in Nat /\ DOMAIN q = 1 .. n /\ c \in 1 .. n
        /\ \A i, j \in 1 .. n : q[i].id = q[j].id => i = j
        /\ q[c].id = cpu.task
    BY <2>1, <2>3, LenProperties DEF Awake
  <2>5. /\ \A k \in 1 .. n : at[k] \in 1 .. Len(tasks) /\ q[k].id = tasks[at[k]].id
        /\ \A k, l \in 1 .. n : k < l => at[k] < at[l]
    BY <1>2, <2>2, <2>3
  <2> HIDE DEF q, r, c
  \* The order of the invariant, read on the queue that is left.
  <2>6. ASSUME NEW t \in Ids, NEW u \in overtakers[t], NEW i \in 1 .. n, NEW j \in 1 .. n,
               q[i].id = t, q[j].id = u, j # c
        PROVE  Cyclic(c, i, j)
    <3>1. Waiting(t) /\ (at[j] # current => Cyclic(current, at[i], at[j]))
      BY <1>1, <2>5, <2>6 DEF OrderInv
    <3>2. at[j] # current
      BY <2>2, <2>4, <2>5, <2>6
    <3>3. \A k, l \in 1 .. n : at[k] < at[l] => k < l
      <4> SUFFICES ASSUME NEW k \in 1 .. n, NEW l \in 1 .. n, at[k] < at[l], ~(k < l) PROVE FALSE
        OBVIOUS
      <4>1. k = l \/ l < k
        BY <2>4
      <4>2. at[k] \in Int /\ at[l] \in Int
        BY <2>5
      <4> QED
        BY <4>1, <4>2, <2>5
    <3> QED
      BY <2>2, <2>4, <3>1, <3>2, <3>3 DEF Cyclic
  <2>7. \A t \in Ids : \A u \in overtakers[t] : u < next_id
    BY DEF OrderInv
  <2>8. CASE tasks' = q /\ current' = c /\ UNCHANGED cpu
    <3>1. \A t \in Ids : \A u \in overtakers'[t] : u \in overtakers[t] /\ Waiting(t)'
      BY <2>8
    <3> QED
      BY <2>4, <2>6, <2>7, <2>8, <3>1 DEF OrderInv
  <2>9. CASE ReadyAhead(q, c) # {} /\ tasks' = Switched(q, c, NextReady(q, c))
             /\ current' = NextReady(q, c) /\ cpu' = switch_context(q[c], q[NextReady(q, c)])
    <3> DEFINE x == NextReady(q, c)
    <3>1. x \in 1 .. n /\ q[x].state = "Ready" /\ x # c
      BY <2>1, <2>4, <2>9, NextReadyProperties DEF Awake
    <3>2. /\ Len(tasks') = n /\ DOMAIN tasks' = 1 .. n
          /\ \A i \in 1 .. n : /\ tasks'[i].id = q[i].id
                               /\ i = x => tasks'[i].state = "Running"
                               /\ i \notin {c, x} => tasks'[i].state = q[i].state
      BY <2>3, <2>4, <2>9, <3>1, SwitchedProperties, LenProperties
    <3>3. cpu'.task = q[x].id /\ current' = x
      BY <1>1, <2>9 DEF switch_context, TypeOK
    <3>4. \A i \in 1 .. n : q[i].state = "Ready" /\ i # c /\ i # x => Cyclic(c, x, i)
      BY <2>3, <2>4, <2>9, <3>1, NextReadyFirst
    <3> HIDE DEF x
    \* A task that waits before and after the switch comes after the one that got the CPU.
    <3>5. ASSUME NEW t \in Ids, Waiting(t), Waiting(t)', NEW i \in 1 .. n, q[i].id = t
          PROVE  Cyclic(c, x, i)
      <4>1. cpu.task # t /\ cpu'.task # t
        BY <3>5 DEF Waiting
      <4>2. PICK k \in 1 .. n : tasks'[k].id = t /\ tasks'[k].state = "Ready"
        BY <3>2, <3>5 DEF Waiting, InQueue
      <4>3. k = i
        BY <2>4, <3>2, <3>5, <4>2
      <4>4. i # c /\ i # x
        BY <2>4, <3>3, <3>5, <4>1
      <4> QED
        BY <3>2, <3>4, <4>2, <4>3, <4>4
    <3>6. ASSUME NEW t \in Ids, Waiting(t), Waiting(t)' PROVE cpu'.task \notin overtakers[t]
      <4> SUFFICES ASSUME cpu'.task \in overtakers[t] PROVE FALSE
        OBVIOUS
      <4>1. PICK i \in 1 .. n : tasks'[i].id = t
        BY <3>2, <3>6 DEF Waiting, InQueue
      <4>2. q[i].id = t
        BY <3>2, <4>1
      <4>3. Cyclic(c, i, x) /\ Cyclic(c, x, i)
        BY <2>6, <3>1, <3>3, <3>5, <3>6, <4>2
      <4> QED
        BY <2>4, <3>1, <4>3 DEF Cyclic
    <3>7. ASSUME NEW t \in Ids, NEW u \in overtakers'[t], NEW i \in 1 .. n, NEW j \in 1 .. n,
                 q[i].id = t, q[j].id = u, j # x
          PROVE  Cyclic(x, i, j)
      <4>1. Waiting(t) /\ Waiting(t)' /\ u \in overtakers[t]
        BY <2>4, <3>1, <3>3, <3>7
      <4>2. Cyclic(c, x, i)
        BY <3>5, <3>7, <4>1
      <4>3. j = c \/ Cyclic(c, i, j)
        BY <2>6, <3>7, <4>1
      <4> QED
        BY <2>4, <3>1, <4>2, <4>3 DEF Cyclic
    <3>8. \A t \in Ids : \A u \in overtakers'[t] : Waiting(t)' /\ u < next_id'
      <4>1. q[x].id < next_id
        BY <2>1, <3>1 DEF Awake
      <4> QED
        BY <2>7, <3>3, <4>1
    <3>9. OrderInv'
      BY <3>2, <3>3, <3>7, <3>8 DEF OrderInv
    <3> QED
      BY <3>6, <3>9
  <2> QED
    BY <1>4, <2>8, <2>9 DEF Dispatch
<1> QED
  BY <1>3, <1>4 DEF schedule

\* The invariant and the property, for every step of the scheduler.
LEMMA OrderStep ==
    ASSUME SchedInv, OrderInv, overtakers \in [Ids -> SUBSET Ids], [MCNext]_<<vars, overtakers>>
    PROVE  /\ OrderInv' /\ overtakers' \in [Ids -> SUBSET Ids]
           /\ [cpu'.task # cpu.task =>
                 \A t \in Ids : (Waiting(t) /\ Waiting(t)') => cpu'.task \notin overtakers[t]
              ]_<<vars, overtakers>>
<1> DEFINE Fair == cpu'.task # cpu.task =>
                 \A t \in Ids : (Waiting(t) /\ Waiting(t)') => cpu'.task \notin overtakers[t]
<1>1. CASE UNCHANGED <<vars, overtakers>>
  BY <1>1 DEF vars, OrderInv, Waiting, InQueue
<1>2. CASE MCNext
  <2>0. [Next]_vars
    BY <1>2 DEF MCNext
  <2>1. SchedInv'
    BY <2>0, NextStep
  <2>2. /\ TypeOK /\ TypeOK' /\ cpu.task \in Ids /\ cpu'.task \in Ids /\ next_id \in Nat
        /\ Handed(tasks) /\ Handed(Tick(tasks))
        /\ tasks \in Seq(Task) /\ Len(tasks) \in Nat /\ DOMAIN tasks = 1 .. Len(tasks)
        /\ current \in 1 .. Len(tasks) /\ IdleFirst /\ QueueIds
    <3>1. TypeOK /\ TypeOK' /\ IdleFirst /\ QueueIds
      BY <2>1 DEF SchedInv
    <3>2. cpu.task \in Ids /\ cpu'.task \in Ids
      BY <3>1 DEF TypeOK
    <3>3. tasks \in Seq(Task) /\ current \in 1 .. Len(tasks) /\ next_id \in 1 .. MaxTasks
      BY <3>1 DEF TypeOK
    <3> QED
      BY <3>1, <3>2, <3>3, BoundsAssumption, HandedByCallers, LenProperties
  <2>3. overtakers' = [t \in Ids |->
                        IF ~(Waiting(t) /\ Waiting(t)') THEN {}
                        ELSE IF cpu'.task = cpu.task THEN overtakers[t]
                        ELSE overtakers[t] \cup {cpu'.task}]
    BY <1>2 DEF MCNext
  <2>4. overtakers' \in [Ids -> SUBSET Ids]
    BY <2>2, <2>3
  <2>5. \A t \in Ids : \A u \in overtakers'[t] :
               /\ Waiting(t) /\ Waiting(t)'
               /\ u \in overtakers[t] \/ (u = cpu'.task /\ cpu'.task # cpu.task)
    BY <2>3
  <2>6. ASSUME current' = current, cpu' = cpu, next_id' = next_id, DOMAIN tasks' = DOMAIN tasks,
               \A i \in DOMAIN tasks : tasks'[i].id = tasks[i].id
        PROVE  OrderInv' /\ Fair
    <3>1. \A t \in Ids : \A u \in overtakers'[t] : u \in overtakers[t] /\ Waiting(t)'
      BY <2>5, <2>6
    <3>2. next_id' \in Nat /\ next_id <= next_id'
      BY <2>2, <2>6
    <3>3. OrderInv'
      BY <2>2, <2>4, <2>6, <3>1, <3>2, OrderKept
    <3> QED
      BY <2>6, <3>3
  <2>7. ASSUME UNCHANGED <<tasks, current, next_id, cpu>> PROVE OrderInv' /\ Fair
    BY <2>6, <2>7
  <2>8. ASSUME NEW ts, Handed(ts), NEW pcs, schedule(ts, pcs), UNCHANGED next_id
        PROVE  OrderInv' /\ Fair
    BY <2>1, <2>4, <2>5, <2>8, OrderSchedule
  <2>9. ASSUME NEW mode \in Modes, spawn(mode) PROVE OrderInv' /\ Fair
    <3> DEFINE m == Len(tasks)
    <3>1. /\ tasks' = Append(tasks, new_task(next_id, mode)) /\ next_id' = next_id + 1
          /\ current' = current /\ cpu' = cpu /\ current = 1
      BY <2>2, <2>9 DEF spawn, IdleFirst
    <3>2. /\ DOMAIN tasks' = 1 .. m + 1 /\ tasks'[m + 1].id = next_id
          /\ \A i \in 1 .. m : tasks'[i] = tasks[i]
      BY <2>2, <3>1 DEF new_task
    <3>3. ASSUME NEW t \in Ids, NEW u \in overtakers'[t], NEW i \in 1 .. m + 1,
                 NEW j \in 1 .. m + 1, tasks'[i].id = t, tasks'[j].id = u, j # current
          PROVE  Cyclic(current, i, j)
      <4>1. u \in overtakers[t] /\ Waiting(t)
        BY <2>5, <3>1, <3>3
      <4>2. u < next_id /\ \A k \in 1 .. m : \A l \in 1 .. m :
              (tasks[k].id = t /\ tasks[l].id = u /\ l # current) => Cyclic(current, k, l)
        BY <2>2, <4>1 DEF OrderInv
      <4>3. PICK k \in 1 .. m : tasks[k].id = t
        BY <2>2, <4>1 DEF Waiting, InQueue
      <4>4. t < next_id
        BY <2>2, <4>3 DEF QueueIds
      <4>5. i # m + 1 /\ j # m + 1
        BY <2>2, <3>2, <3>3, <4>2, <4>4
      <4>6. i \in 1 .. m /\ j \in 1 .. m
        BY <2>2, <4>5
      <4> QED
        BY <3>2, <3>3, <4>2, <4>6
    <3>4. \A t \in Ids : \A u \in overtakers'[t] : Waiting(t)' /\ u < next_id'
      <4>1. \A t \in Ids : \A u \in overtakers[t] : u < next_id /\ u \in Int
        BY DEF OrderInv, Ids
      <4> QED
        BY <2>2, <2>5, <3>1, <4>1
    <3>5. OrderInv'
      BY <3>1, <3>2, <3>3, <3>4 DEF OrderInv
    <3> QED
      BY <3>1, <3>5
  <2>10. ASSUME NEW t \in Ids, sleep_mark(t) PROVE OrderInv' /\ Fair
    <3>1. /\ DOMAIN tasks' = DOMAIN tasks /\ \A i \in DOMAIN tasks : tasks'[i].id = tasks[i].id
          /\ UNCHANGED <<current, cpu, next_id>>
      BY <2>2, <2>10 DEF sleep_mark, AsSleeping
    <3> QED
      BY <2>6, <3>1
  <2>11. ASSUME NEW t \in Ids, NEW u \in BOOLEAN, exit_mark(t, u) PROVE OrderInv' /\ Fair
    <3>1. /\ DOMAIN tasks' = DOMAIN tasks /\ \A i \in DOMAIN tasks : tasks'[i].id = tasks[i].id
          /\ UNCHANGED <<current, cpu, next_id>>
      BY <2>2, <2>11 DEF exit_mark, AsDead
    <3> QED
      BY <2>6, <3>1
  <2>12. ASSUME timer_handler PROVE OrderInv' /\ Fair
    BY <2>2, <2>8, <2>12 DEF timer_handler
  <2>13. ASSUME NEW t \in Ids, yield_now(t) \/ sleep_schedule(t) \/ exit_schedule(t)
         PROVE  OrderInv' /\ Fair
    BY <2>2, <2>8, <2>13 DEF yield_now, sleep_schedule, exit_schedule
  <2>14. ASSUME NEW t \in Ids,
                \/ entry_wrapper(t) \/ \E k \in 0 .. MaxSleep : sleep_read(t, k)
                \/ lock_scheduler(t) \/ unlock_scheduler(t) \/ lock_heap(t) \/ unlock_heap(t)
                \/ lock_disk(t) \/ unlock_disk(t)
         PROVE  OrderInv' /\ Fair
    BY <2>7, <2>14 DEF entry_wrapper, sleep_read, lock_scheduler, unlock_scheduler, lock_heap,
                       unlock_heap, lock_disk, unlock_disk
  <2>15. ASSUME enable_interrupts \/ spinning PROVE OrderInv' /\ Fair
    BY <2>7, <2>15 DEF enable_interrupts, spinning, vars
  <2>16. Next
    BY <1>2 DEF MCNext
  <2> QED
    BY <2>4, <2>9, <2>10, <2>11, <2>12, <2>13, <2>14, <2>15, <2>16 DEF Next
<1> QED
  BY <1>1, <1>2

(***************************************************************************)
(* Round robin, for any number of tasks: no task is given the CPU twice    *)
(* while another one is Ready all along, whatever sleeps, wakes, exits or  *)
(* is reaped in the meantime.                                              *)
(***************************************************************************)
THEOREM RoundRobin == MCSpec => NoDoubleOvertake
<1> DEFINE Inv == SchedInv /\ OrderInv /\ overtakers \in [Ids -> SUBSET Ids]
<1>1. MCInit => Inv
  <2> SUFFICES ASSUME MCInit PROVE Inv
    OBVIOUS
  <2>1. overtakers = [t \in Ids |-> {}]
    BY DEF MCInit
  <2>2. OrderInv /\ overtakers \in [Ids -> SUBSET Ids]
    BY <2>1 DEF OrderInv
  <2> QED
    BY <2>2, InitInv DEF MCInit
<1>2. Inv /\ [MCNext]_<<vars, overtakers>> => Inv'
  <2>1. [MCNext]_<<vars, overtakers>> => [Next]_vars
    BY DEF MCNext
  <2> QED
    BY <2>1, NextStep, OrderStep
<1>3. Inv /\ [MCNext]_<<vars, overtakers>> =>
        [cpu'.task # cpu.task =>
            \A t \in Ids : (Waiting(t) /\ Waiting(t)') => cpu'.task \notin overtakers[t]
        ]_<<vars, overtakers>>
  BY OrderStep
<1> QED
  BY <1>1, <1>2, <1>3, PTL DEF MCSpec, NoDoubleOvertake

=============================================================================
