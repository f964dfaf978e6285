--------------------------- MODULE StorageProofs ---------------------------
(***************************************************************************)
(* Proofs about what lies around the file system: below it the ATA driver  *)
(* and the block layer with its partitions and devices, above it the table *)
(* of mounts.  FatProofs is about the file system itself.                  *)
(***************************************************************************)
EXTENDS Vfs, Ata, Block, WellFoundedInduction, FiniteSetTheorems, SequenceTheorems, TLAPS

-----------------------------------------------------------------------------
(***************************************************************************)
(* The ATA driver, for any number of tasks and sectors, any number of      *)
(* polls and a drive that is as slow as it likes: a call that reports      *)
(* success did what it says, as long as the drive has not ignored a        *)
(* command.                                                                *)
(***************************************************************************)

\* The drive sees the call, but for the address.
LEMMA TaskFileFields ==
  ASSUME NEW c \in CallsOn(Nat)
  PROVE  /\ TaskFile(c) \in CallsOn(0 .. (LBA_LIMIT - 1))
         /\ TaskFile(c).op = c.op
         /\ TaskFile(c).data = c.data
         /\ c.lba < LBA_LIMIT => TaskFile(c).lba = c.lba
  <1>1. c.lba % LBA_LIMIT \in 0 .. (LBA_LIMIT - 1)
    BY AddressAssumption DEF CallsOn
  <1>2. c.lba < LBA_LIMIT => c.lba % LBA_LIMIT = c.lba
    BY AddressAssumption DEF CallsOn
  <1> QED
    BY <1>1, <1>2 DEF TaskFile, CallsOn

LEMMA AtaInitInv == AtaInit => AtaInv
  <1> SUFFICES ASSUME AtaInit PROVE AtaInv
    OBVIOUS
  <1>1. AtaTypeOK
    BY AddressAssumption, OthersAssumption
       DEF AtaInit, AtaTypeOK, CallsOn, NoCall, Identify
  <1>2. DriveInv
    BY OthersAssumption DEF AtaInit, DriveInv, NoCall
  <1>3. InStep /\ ReadIsTrue /\ WriteIsDone
    BY DEF AtaInit, InStep, ReadIsTrue, WriteIsDone, Done, Identify
  <1> QED
    BY <1>1, <1>2, <1>3 DEF AtaInv

\* A poll of the status register.
LEMMA Step_wait_ready == AtaInv /\ wait_ready => AtaInv'
  <1> SUFFICES ASSUME AtaInv, wait_ready PROVE AtaInv'
    OBVIOUS
  <1> USE DEF AtaInv, wait_ready, drive, Goto, Return, PollAgain
  <1>1. AtaTypeOK'
    BY AddressAssumption, OthersAssumption DEF AtaTypeOK, CallsOn
  <1>2. DriveInv'
    BY OthersAssumption DEF AtaTypeOK, DriveInv, CallsOn
  <1>3. ASSUME ~confused' PROVE (InStep /\ ReadIsTrue /\ WriteIsDone)'
    <2>1. InStep'
      BY <1>3, OthersAssumption DEF AtaTypeOK, DriveInv, InStep, Pending, Refused
    <2>2. (ReadIsTrue /\ WriteIsDone)'
      BY <1>3 DEF AtaTypeOK, DriveInv, InStep, Refused, ReadIsTrue, WriteIsDone,
         Done
    <2> QED
      BY <2>1, <2>2
  <1> QED
    BY <1>1, <1>2, <1>3

\* A command that the drive takes makes it busy with the call.
LEMMA Step_issue == AtaInv /\ issue => AtaInv'
  <1> SUFFICES ASSUME AtaInv, issue PROVE AtaInv'
    OBVIOUS
  <1> USE DEF AtaInv, issue, Goto, Accept, Ignore
  <1>1. AtaTypeOK'
    BY AddressAssumption, OthersAssumption, TaskFileFields DEF AtaTypeOK, CallsOn
  <1>2. DriveInv'
    BY OthersAssumption DEF AtaTypeOK, DriveInv, CallsOn
  <1>3. ASSUME ~confused' PROVE (InStep /\ ReadIsTrue /\ WriteIsDone)'
    <2>1. InStep'
      BY <1>3, OthersAssumption, TaskFileFields DEF AtaTypeOK, DriveInv, InStep,
         Pending, Refused
    <2>2. (ReadIsTrue /\ WriteIsDone)'
      BY <1>3, TaskFileFields DEF AtaTypeOK, DriveInv, InStep, Refused,
         ReadIsTrue, WriteIsDone, Done
    <2> QED
      BY <2>1, <2>2
  <1> QED
    BY <1>1, <1>2, <1>3

LEMMA Step_detect == AtaInv /\ detect => AtaInv'
  <1> SUFFICES ASSUME AtaInv, detect PROVE AtaInv'
    OBVIOUS
  <1> USE DEF AtaInv, detect, drive, Goto, Return
  <1>1. AtaTypeOK'
    BY AddressAssumption, OthersAssumption DEF AtaTypeOK, CallsOn
  <1>2. DriveInv'
    BY OthersAssumption DEF AtaTypeOK, DriveInv, CallsOn
  <1>3. ASSUME ~confused' PROVE (InStep /\ ReadIsTrue /\ WriteIsDone)'
    <2>1. InStep'
      BY <1>3, OthersAssumption DEF AtaTypeOK, DriveInv, InStep, Pending, Refused
    <2>2. (ReadIsTrue /\ WriteIsDone)'
      BY <1>3 DEF AtaTypeOK, DriveInv, InStep, Refused, ReadIsTrue, WriteIsDone,
         Done
    <2> QED
      BY <2>1, <2>2
  <1> QED
    BY <1>1, <1>2, <1>3

LEMMA Step_wait_data == AtaInv /\ wait_data => AtaInv'
  <1> SUFFICES ASSUME AtaInv, wait_data PROVE AtaInv'
    OBVIOUS
  <1> USE DEF AtaInv, wait_data, drive, Goto, Return, PollAgain
  <1>1. AtaTypeOK'
    BY AddressAssumption, OthersAssumption DEF AtaTypeOK, CallsOn
  <1>2. DriveInv'
    BY OthersAssumption DEF AtaTypeOK, DriveInv, CallsOn
  <1>3. ASSUME ~confused' PROVE (InStep /\ ReadIsTrue /\ WriteIsDone)'
    <2>1. InStep'
      BY <1>3, OthersAssumption DEF AtaTypeOK, DriveInv, InStep, Pending, Refused
    <2>2. (ReadIsTrue /\ WriteIsDone)'
      BY <1>3 DEF AtaTypeOK, DriveInv, InStep, Refused, ReadIsTrue, WriteIsDone,
         Done
    <2> QED
      BY <2>1, <2>2
  <1> QED
    BY <1>1, <1>2, <1>3

\* The buffer the driver reads is the sector the command names.
LEMMA Step_transfer_in == AtaInv /\ transfer_in => AtaInv'
  <1> SUFFICES ASSUME AtaInv, transfer_in PROVE AtaInv'
    OBVIOUS
  <1> USE DEF AtaInv, transfer_in, Return, NoCall
  <1>1. AtaTypeOK'
    BY AddressAssumption, OthersAssumption, TaskFileFields DEF AtaTypeOK, CallsOn
  <1>2. DriveInv'
    BY OthersAssumption DEF AtaTypeOK, DriveInv, CallsOn
  <1>3. ASSUME ~confused' PROVE (InStep /\ ReadIsTrue /\ WriteIsDone)'
    <2>1. InStep'
      BY <1>3, OthersAssumption, TaskFileFields DEF AtaTypeOK, DriveInv, InStep,
         Pending, Refused
    <2>2. (ReadIsTrue /\ WriteIsDone)'
      BY <1>3, TaskFileFields DEF AtaTypeOK, DriveInv, InStep, Refused,
         ReadIsTrue, WriteIsDone, Done
    <2> QED
      BY <2>1, <2>2
  <1> QED
    BY <1>1, <1>2, <1>3

LEMMA Step_transfer_out == AtaInv /\ transfer_out => AtaInv'
  <1> SUFFICES ASSUME AtaInv, transfer_out PROVE AtaInv'
    OBVIOUS
  <1> USE DEF AtaInv, transfer_out, Goto
  <1>1. AtaTypeOK'
    BY AddressAssumption, OthersAssumption, TaskFileFields DEF AtaTypeOK, CallsOn
  <1>2. DriveInv'
    BY OthersAssumption DEF AtaTypeOK, DriveInv, CallsOn
  <1>3. ASSUME ~confused' PROVE (InStep /\ ReadIsTrue /\ WriteIsDone)'
    <2>1. InStep'
      BY <1>3, OthersAssumption, TaskFileFields DEF AtaTypeOK, DriveInv, InStep,
         Pending, Refused
    <2>2. (ReadIsTrue /\ WriteIsDone)'
      BY <1>3, TaskFileFields DEF AtaTypeOK, DriveInv, InStep, Refused,
         ReadIsTrue, WriteIsDone, Done
    <2> QED
      BY <2>1, <2>2
  <1> QED
    BY <1>1, <1>2, <1>3

LEMMA Step_wait_settled == AtaInv /\ wait_settled => AtaInv'
  <1> SUFFICES ASSUME AtaInv, wait_settled PROVE AtaInv'
    OBVIOUS
  <1> USE DEF AtaInv, wait_settled, drive, Return, PollAgain
  <1>1. AtaTypeOK'
    BY AddressAssumption, OthersAssumption, TaskFileFields DEF AtaTypeOK, CallsOn
  <1>2. DriveInv'
    BY OthersAssumption DEF AtaTypeOK, DriveInv, CallsOn
  <1>3. ASSUME ~confused' PROVE (InStep /\ ReadIsTrue /\ WriteIsDone)'
    <2>1. InStep'
      BY <1>3, OthersAssumption, TaskFileFields DEF AtaTypeOK, DriveInv, InStep,
         Pending, Refused
    <2>2. (ReadIsTrue /\ WriteIsDone)'
      BY <1>3, TaskFileFields DEF AtaTypeOK, DriveInv, InStep, Refused,
         ReadIsTrue, WriteIsDone, Done
    <2> QED
      BY <2>1, <2>2
  <1> QED
    BY <1>1, <1>2, <1>3

LEMMA Step_unlock == AtaInv /\ unlock => AtaInv'
  <1> SUFFICES ASSUME AtaInv, unlock PROVE AtaInv'
    OBVIOUS
  <1> USE DEF AtaInv, unlock, drive, NoCall
  <1>1. AtaTypeOK'
    BY AddressAssumption, OthersAssumption DEF AtaTypeOK, CallsOn
  <1>2. DriveInv'
    BY OthersAssumption DEF AtaTypeOK, DriveInv, CallsOn
  <1>3. ASSUME ~confused' PROVE (InStep /\ ReadIsTrue /\ WriteIsDone)'
    <2>1. InStep'
      BY <1>3, OthersAssumption DEF AtaTypeOK, DriveInv, InStep, Pending, Refused
    <2>2. (ReadIsTrue /\ WriteIsDone)'
      BY <1>3 DEF AtaTypeOK, DriveInv, InStep, Refused, ReadIsTrue, WriteIsDone,
         Done
    <2> QED
      BY <2>1, <2>2
  <1> QED
    BY <1>1, <1>2, <1>3

LEMMA Step_spin_up == AtaInv /\ spin_up => AtaInv'
  <1> SUFFICES ASSUME AtaInv, spin_up PROVE AtaInv'
    OBVIOUS
  <1> USE DEF AtaInv, spin_up, host
  <1>1. AtaTypeOK'
    BY AddressAssumption, OthersAssumption, TaskFileFields DEF AtaTypeOK, CallsOn
  <1>2. DriveInv'
    BY OthersAssumption DEF AtaTypeOK, DriveInv, CallsOn
  <1>3. ASSUME ~confused' PROVE (InStep /\ ReadIsTrue /\ WriteIsDone)'
    <2>1. InStep'
      BY <1>3, OthersAssumption, TaskFileFields DEF AtaTypeOK, DriveInv, InStep,
         Pending, Refused
    <2>2. (ReadIsTrue /\ WriteIsDone)'
      BY <1>3, TaskFileFields DEF AtaTypeOK, DriveInv, InStep, Refused,
         ReadIsTrue, WriteIsDone, Done
    <2> QED
      BY <2>1, <2>2
  <1> QED
    BY <1>1, <1>2, <1>3

LEMMA Step_offer == AtaInv /\ offer => AtaInv'
  <1> SUFFICES ASSUME AtaInv, offer PROVE AtaInv'
    OBVIOUS
  <1> USE DEF AtaInv, offer, host
  <1>1. AtaTypeOK'
    BY AddressAssumption, OthersAssumption, TaskFileFields DEF AtaTypeOK, CallsOn
  <1>2. DriveInv'
    BY OthersAssumption DEF AtaTypeOK, DriveInv, CallsOn
  <1>3. ASSUME ~confused' PROVE (InStep /\ ReadIsTrue /\ WriteIsDone)'
    <2>1. InStep'
      BY <1>3, OthersAssumption, TaskFileFields DEF AtaTypeOK, DriveInv, InStep,
         Pending, Refused
    <2>2. (ReadIsTrue /\ WriteIsDone)'
      BY <1>3, TaskFileFields DEF AtaTypeOK, DriveInv, InStep, Refused,
         ReadIsTrue, WriteIsDone, Done
    <2> QED
      BY <2>1, <2>2
  <1> QED
    BY <1>1, <1>2, <1>3

LEMMA Step_refuse == AtaInv /\ refuse => AtaInv'
  <1> SUFFICES ASSUME AtaInv, refuse PROVE AtaInv'
    OBVIOUS
  <1> USE DEF AtaInv, refuse, host, NoCall
  <1>1. AtaTypeOK'
    BY AddressAssumption, OthersAssumption, TaskFileFields DEF AtaTypeOK, CallsOn
  <1>2. DriveInv'
    BY OthersAssumption DEF AtaTypeOK, DriveInv, CallsOn
  <1>3. ASSUME ~confused' PROVE (InStep /\ ReadIsTrue /\ WriteIsDone)'
    <2>1. InStep'
      BY <1>3, OthersAssumption, TaskFileFields DEF AtaTypeOK, DriveInv, InStep,
         Pending, Refused
    <2>2. (ReadIsTrue /\ WriteIsDone)'
      BY <1>3, TaskFileFields DEF AtaTypeOK, DriveInv, InStep, Refused,
         ReadIsTrue, WriteIsDone, Done
    <2> QED
      BY <2>1, <2>2
  <1> QED
    BY <1>1, <1>2, <1>3

\* A write reaches the medium while its driver waits for it or has given up.
LEMMA Step_store == AtaInv /\ store => AtaInv'
  <1> SUFFICES ASSUME AtaInv, store PROVE AtaInv'
    OBVIOUS
  <1> USE DEF AtaInv, store, host, NoCall
  <1>1. AtaTypeOK'
    BY AddressAssumption, OthersAssumption, TaskFileFields DEF AtaTypeOK, CallsOn
  <1>2. DriveInv'
    BY OthersAssumption DEF AtaTypeOK, DriveInv, CallsOn
  <1>3. ASSUME ~confused' PROVE (InStep /\ ReadIsTrue /\ WriteIsDone)'
    <2>1. InStep'
      BY <1>3, OthersAssumption, TaskFileFields DEF AtaTypeOK, DriveInv, InStep,
         Pending, Refused
    <2>2. (ReadIsTrue /\ WriteIsDone)'
      BY <1>3, TaskFileFields DEF AtaTypeOK, DriveInv, InStep, Refused,
         ReadIsTrue, WriteIsDone, Done
    <2> QED
      BY <2>1, <2>2
  <1> QED
    BY <1>1, <1>2, <1>3

\* A call begins only while the lock is open.
LEMMA Step_begin ==
  ASSUME AtaInv, NEW t \in Tasks, NEW lba \in Addresses,
         read_sector(t, lba) \/ \E d \in SectorData : write_sector(t, lba, d)
  PROVE  AtaInv'
  <1>1. PICK c \in CallsOn(Nat) :
          /\ c.op = "read" \/ (c.op = "write" /\ c.data \in SectorData)
          /\ begin(t, c)
    BY AddressAssumption DEF read_sector, write_sector, CallsOn
  <1> USE DEF AtaInv, begin, drive, Goto, Return
  <1>2. AtaTypeOK'
    BY <1>1 DEF AtaTypeOK
  <1>3. DriveInv'
    BY <1>1 DEF DriveInv
  <1>4. ASSUME ~confused' PROVE (InStep /\ ReadIsTrue /\ WriteIsDone)'
    BY <1>1, <1>4 DEF InStep, ReadIsTrue, WriteIsDone, Done
  <1> QED
    BY <1>2, <1>3, <1>4

LEMMA NextInv == AtaInv /\ [AtaNext]_ata_vars => AtaInv'
  <1> SUFFICES ASSUME AtaInv, [AtaNext]_ata_vars PROVE AtaInv'
    OBVIOUS
  <1>1. CASE UNCHANGED ata_vars
    BY <1>1 DEF ata_vars, host, drive, AtaInv, AtaTypeOK, DriveInv, InStep, Pending,
                Refused, ReadIsTrue, WriteIsDone, Done
  <1>2. CASE Step
    BY <1>2, Step_wait_ready, Step_issue, Step_detect, Step_wait_data,
       Step_transfer_in, Step_transfer_out, Step_wait_settled, Step_unlock
       DEF Step
  <1>3. CASE spin_up \/ offer \/ refuse \/ store
    BY <1>3, Step_spin_up, Step_offer, Step_refuse, Step_store
  <1>4. CASE \E t \in Tasks, lba \in Addresses :
               \/ read_sector(t, lba)
               \/ \E d \in SectorData : write_sector(t, lba, d)
    BY <1>4, Step_begin
  <1>5. CASE \/ \E t \in Tasks : with_fd_table(t) \/ reap_dead(t)
             \/ reaped \/ timer_handler \/ spinning
    <2>1. UNCHANGED <<installed, lock, at, polls, call, ok, drive>>
      BY <1>5 DEF with_fd_table, reap_dead, reaped, timer_handler, spinning, ata_vars, host
    <2> QED
      BY <2>1 DEF drive, AtaInv, AtaTypeOK, DriveInv, InStep, Pending, Refused,
                  ReadIsTrue, WriteIsDone, Done
  <1> QED
    BY <1>1, <1>2, <1>3, <1>4, <1>5 DEF AtaNext

\* The inductive invariant: what drive and driver know of each other.
THEOREM DriverInvariant == AtaSpec => []AtaInv
  BY AtaInitInv, NextInv, PTL DEF AtaSpec

(***************************************************************************)
(* A read that reports success returns what the medium holds, whatever     *)
(* timeouts, errors and late answers came before, as long as the drive has *)
(* not ignored a command.                                                  *)
(***************************************************************************)
THEOREM ReadsAreTrue == AtaSpec => []ReadIsTrue
  <1>1. AtaInv => ReadIsTrue
    BY DEF AtaInv, ReadIsTrue
  <1> QED
    BY <1>1, DriverInvariant, PTL

\* A write that reports success is on the medium, or the drive refused it.
THEOREM WritesAreDone == AtaSpec => []WriteIsDone
  <1>1. AtaInv => WriteIsDone
    BY DEF AtaInv, WriteIsDone
  <1> QED
    BY <1>1, DriverInvariant, PTL


-----------------------------------------------------------------------------
(***************************************************************************)
(* The vector of mounts implements the mount table, for all names, paths   *)
(* and file systems.                                                       *)
(***************************************************************************)

(* Least numbers, and folds over sequences *)

\* A set of numbers that is not empty has a least element.
LEMMA LeastNumber ==
    ASSUME NEW S, S \subseteq Nat, S # {}
    PROVE  \E x \in S : \A y \in S : x <= y
<1> DEFINE R == {ss \in Nat \X Nat : ss[1] < ss[2]}
<1>1. IsWellFoundedOn(R, Nat)
  BY NatLessThanWellFounded DEF OpToRel
<1>2. PICK x \in S : \A y \in S : ~ (<<y, x>> \in R)
  BY <1>1, WFMin, Zenon
<1>3. ASSUME NEW y \in S
      PROVE  x <= y
  <2>1. ~ (<<y, x>> \in R) /\ x \in Nat /\ y \in Nat
    BY <1>2
  <2> QED BY <2>1
<1> QED BY <1>3

LEMMA MinIsLeast ==
    ASSUME NEW S, S \subseteq Nat, S # {}
    PROVE  Min(S) \in S /\ \A y \in S : Min(S) <= y
<1>1. \E x \in S : \A y \in S : x <= y
  BY LeastNumber
<1> QED BY <1>1 DEF Min

LEMMA MaxIsGreatest ==
    ASSUME NEW n \in Nat, NEW S, S \subseteq 1 .. n, S # {}
    PROVE  Max(S) \in S /\ \A y \in S : y <= Max(S)
<1> DEFINE T == {z \in Nat : \E y \in S : y + z = n}
<1>1. T \subseteq Nat /\ T # {}
  <2>1. PICK y \in S : TRUE
    OBVIOUS
  <2>2. n - y \in T
    BY <2>1
  <2> QED BY <2>2
<1>2. PICK z \in T : \A w \in T : z <= w
  BY <1>1, LeastNumber
<1>3. PICK y \in S : y + z = n
  BY <1>2
<1>4. ASSUME NEW x \in S
      PROVE  x <= y
  <2>1. n - x \in T
    BY <1>4
  <2>2. z <= n - x
    BY <2>1, <1>2
  <2>3. x \in Nat /\ y \in Nat /\ z \in Nat
    OBVIOUS
  <2> QED BY <2>2, <2>3, <1>3
<1>5. \E x \in S : \A w \in S : w <= x
  BY <1>4
<1> QED BY <1>5 DEF Max

(***************************************************************************)
(* FoldLeft takes its result from a function on the sets of positions.     *)
(* Such a function exists, if step[i] makes a member of A of a member of   *)
(* A: from one for the positions up to k - 1 comes one for those up to k.  *)
(***************************************************************************)
IsFold(g, n, A, base, step) ==
    /\ g \in [SUBSET (1 .. n) -> A]
    /\ \A s \in SUBSET (1 .. n) :
         g[s] = IF s = {} THEN base ELSE step[Max(s)][g[s \ {Max(s)}]]

\* The same of a function that is known to be one only where it stays in A.
FoldsIn(f, n, A, base, step) ==
    /\ f[{}] = base
    /\ \A s \in SUBSET (1 .. n) :
         s # {} /\ f[s \ {Max(s)}] \in A => f[s] = step[Max(s)][f[s \ {Max(s)}]]

LEMMA FoldExtends ==
    ASSUME NEW k \in Nat, NEW A, NEW base \in A, NEW step, step[k + 1] \in [A -> A],
           NEW g, IsFold(g, k, A, base, step)
    PROVE  \E h : IsFold(h, k + 1, A, base, step)
<1> DEFINE h == [s \in SUBSET (1 .. k + 1) |-> IF k + 1 \in s THEN step[k + 1][g[s \ {k + 1}]] ELSE g[s]]
<1>1. \A s \in SUBSET (1 .. k + 1) : s \ {k + 1} \in SUBSET (1 .. k)
  <2>1. \A x \in 1 .. k + 1 : x # k + 1 => x \in 1 .. k
    OBVIOUS
  <2> QED BY <2>1
<1>2. \A s \in SUBSET (1 .. k) : s \in SUBSET (1 .. k + 1) /\ k + 1 \notin s /\ g[s] \in A
  BY DEF IsFold
<1>3. \A s \in SUBSET (1 .. k + 1) : k + 1 \notin s => s \in SUBSET (1 .. k)
  OBVIOUS
<1>4. h \in [SUBSET (1 .. k + 1) -> A]
  <2>1. ASSUME NEW s \in SUBSET (1 .. k + 1)
        PROVE  (IF k + 1 \in s THEN step[k + 1][g[s \ {k + 1}]] ELSE g[s]) \in A
    BY <1>1, <1>2, <1>3
  <2> QED BY <2>1
<1>5. \A s \in SUBSET (1 .. k) : h[s] = g[s]
  BY <1>2
<1>6. ASSUME NEW s \in SUBSET (1 .. k + 1)
      PROVE  h[s] = IF s = {} THEN base ELSE step[Max(s)][h[s \ {Max(s)}]]
  <2>1. CASE k + 1 \in s
    <3>1. Max(s) \in s /\ \A y \in s : y <= Max(s)
      <4>1. k + 1 \in Nat /\ s \subseteq 1 .. k + 1 /\ s # {}
        BY <2>1
      <4> QED BY <4>1, MaxIsGreatest
    <3>2. Max(s) = k + 1
      <4>1. Max(s) \in 1 .. k + 1
        BY <3>1
      <4>2. k + 1 <= Max(s)
        BY <2>1, <3>1
      <4> QED BY <4>1, <4>2
    <3>3. h[s \ {k + 1}] = g[s \ {k + 1}]
      BY <1>1, <1>5
    <3>4. h[s] = step[k + 1][g[s \ {k + 1}]]
      BY <2>1
    <3> QED BY <2>1, <3>2, <3>3, <3>4
  <2>2. CASE k + 1 \notin s
    <3>1. s \in SUBSET (1 .. k) /\ s \ {Max(s)} \in SUBSET (1 .. k)
      BY <2>2, <1>3
    <3>2. h[s] = g[s] /\ h[s \ {Max(s)}] = g[s \ {Max(s)}]
      BY <3>1, <1>5
    <3>3. g[s] = IF s = {} THEN base ELSE step[Max(s)][g[s \ {Max(s)}]]
      BY <3>1 DEF IsFold
    <3> HIDE DEF h
    <3> QED BY <3>2, <3>3
  <2> QED BY <2>1, <2>2
<1> HIDE DEF h
<1> QED BY <1>4, <1>6 DEF IsFold

LEMMA FoldExists ==
    ASSUME NEW n \in Nat, NEW A, NEW base \in A, NEW step, \A i \in 1 .. n : step[i] \in [A -> A]
    PROVE  \E g : IsFold(g, n, A, base, step)
<1> DEFINE None_(k) == ~\E g : IsFold(g, k, A, base, step)
           T == {k \in 0 .. n : None_(k)}
<1> SUFFICES ASSUME T # {}
             PROVE  FALSE
  OBVIOUS
<1>1. PICK k \in T : \A j \in T : k <= j
  <2>1. T \subseteq Nat
    OBVIOUS
  <2> HIDE DEF T
  <2> QED BY <2>1, LeastNumber
<1>2. CASE k = 0
  <2>1. PICK g : g = [s \in SUBSET (1 .. 0) |-> base]
    OBVIOUS
  <2>2. \A s \in SUBSET (1 .. 0) : s = {}
    OBVIOUS
  <2>3. IsFold(g, 0, A, base, step)
    BY <2>1, <2>2 DEF IsFold
  <2> QED BY <1>1, <1>2, <2>3
<1>3. CASE k # 0
  <2>1. k - 1 \in 0 .. n /\ k - 1 \notin T /\ k - 1 \in Nat /\ (k - 1) + 1 = k /\ k \in 1 .. n
    BY <1>1, <1>3
  <2>2. PICK g : IsFold(g, k - 1, A, base, step)
    BY <2>1
  <2>3. \E h : IsFold(h, (k - 1) + 1, A, base, step)
    BY <2>1, <2>2, FoldExtends
  <2> QED BY <1>1, <2>1, <2>3
<1> QED BY <1>2, <1>3

\* What a fold does on the first j positions, for j from 0 on.
Runs(iter, n, A, step) ==
    /\ \A j \in 0 .. n : iter[1 .. j] \in A
    /\ \A j \in 1 .. n : iter[1 .. j] = step[j][iter[1 .. j - 1]]

Maps(step, n, A) == \A i \in 1 .. n : step[i] \in [A -> A]

LEMMA FoldRuns ==
    ASSUME NEW n \in Nat, NEW A, NEW base \in A, NEW step, Maps(step, n, A),
           NEW iter, FoldsIn(iter, n, A, base, step)
    PROVE  Runs(iter, n, A, step)
<1>1. ASSUME NEW j \in 1 .. n
      PROVE  /\ 1 .. j \in SUBSET (1 .. n) /\ 1 .. j # {}
             /\ Max(1 .. j) = j /\ (1 .. j) \ {j} = 1 .. j - 1
  <2>1. 1 .. j \subseteq 1 .. n /\ j \in 1 .. j
    OBVIOUS
  <2>2. Max(1 .. j) \in 1 .. j /\ \A y \in 1 .. j : y <= Max(1 .. j)
    BY <2>1, MaxIsGreatest
  <2>3. Max(1 .. j) = j
    BY <2>1, <2>2
  <2>4. (1 .. j) \ {j} = 1 .. j - 1
    OBVIOUS
  <2>5. 1 .. j # {}
    BY <2>1
  <2> QED BY <2>1, <2>3, <2>4, <2>5
<1>2. ASSUME NEW j \in 1 .. n, iter[1 .. j - 1] \in A
      PROVE  iter[1 .. j] = step[j][iter[1 .. j - 1]] /\ iter[1 .. j] \in A
  <2> DEFINE s == 1 .. j
  <2>1. s \in SUBSET (1 .. n) /\ s # {} /\ Max(s) = j /\ s \ {Max(s)} = 1 .. j - 1
    BY <1>1
  <2> HIDE DEF s
  <2>2. iter[s] = step[Max(s)][iter[s \ {Max(s)}]]
    BY <2>1, <1>2 DEF FoldsIn
  <2>3. iter[s] = step[j][iter[1 .. j - 1]]
    BY <2>1, <2>2
  <2>4. step[j][iter[1 .. j - 1]] \in A
    BY <1>2 DEF Maps
  <2> QED BY <2>3, <2>4 DEF s
<1> DEFINE T == {j \in 0 .. n : iter[1 .. j] \notin A}
<1>3. T = {}
  <2> SUFFICES ASSUME T # {}
               PROVE  FALSE
    OBVIOUS
  <2>1. PICK k \in T : \A j \in T : k <= j
    <3>1. T \subseteq Nat
      OBVIOUS
    <3> HIDE DEF T
    <3> QED BY <3>1, LeastNumber
  <2>2. 1 .. 0 = {}
    OBVIOUS
  <2>3. k # 0
    BY <2>1, <2>2 DEF FoldsIn
  <2>4. k \in 1 .. n /\ k - 1 \in 0 .. n /\ ~(k <= k - 1)
    BY <2>1, <2>3
  <2>5. iter[1 .. k - 1] \in A
    BY <2>1, <2>4
  <2> QED BY <2>1, <2>4, <2>5, <1>2
<1>4. \A j \in 0 .. n : iter[1 .. j] \in A
  BY <1>3
<1>5. \A j \in 1 .. n : j - 1 \in 0 .. n
  OBVIOUS
<1> QED BY <1>2, <1>4, <1>5 DEF Runs

-----------------------------------------------------------------------------
(* Paths *)

Names == DOMAIN Text
Parts == Names \cup {DOT, DOTDOT}

\* The loop body of normalize_path.
Normalized(done, piece) ==
    CASE piece = DOT    -> done
      [] piece = DOTDOT -> IF done = <<>> THEN <<>> ELSE Front(done)
      [] OTHER         -> Append(done, piece)

LEMMA NormalizedType ==
    ASSUME NEW done \in Seq(Names), NEW piece \in Parts
    PROVE  Normalized(done, piece) \in Seq(Names)
<1> USE DEF DOT, DOTDOT
<1>1. CASE piece = DOT
  BY <1>1 DEF Normalized
<1>2. CASE piece # DOT /\ piece = DOTDOT
  <2>1. CASE done = <<>>
    BY <1>2, <2>1 DEF Normalized
  <2>2. CASE done # <<>>
    <3>1. Normalized(done, piece) = SubSeq(done, 1, Len(done) - 1)
      BY <1>2, <2>2 DEF Normalized, Front
    <3>2. SubSeq(done, 1, Len(done) - 1) \in Seq(Names)
      BY <2>2
    <3> QED BY <3>1, <3>2
  <2> QED BY <2>1, <2>2
<1>3. CASE piece # DOT /\ piece # DOTDOT
  BY <1>3 DEF Normalized, Parts
<1> QED BY <1>1, <1>2, <1>3

\* A normalised path has only names in it.
LEMMA NormalizeType ==
    ASSUME NEW parts \in Seq(Parts)
    PROVE  normalize_path(parts) \in Seq(Names)
<1> DEFINE n == Len(parts)
           A == Seq(Names)
           Eq(f) == f = [s \in SUBSET (1 .. n) |->
                           IF s = {} THEN <<>> ELSE Normalized(f[s \ {Max(s)}], parts[Max(s)])]
<1>1. n \in Nat /\ DOMAIN parts = 1 .. n /\ <<>> \in A /\ \A i \in 1 .. n : parts[i] \in Parts
  OBVIOUS
<1>2. PICK step : step = [i \in 1 .. n |-> [d \in A |-> Normalized(d, parts[i])]]
  OBVIOUS
<1>3. \A i \in 1 .. n : step[i] \in [A -> A]
  BY <1>1, <1>2, NormalizedType
<1> HIDE DEF A, n
<1>4. PICK g : IsFold(g, n, A, <<>>, step)
  BY <1>1, <1>3, FoldExists
<1>5. Eq(g)
  <2>1. ASSUME NEW s \in SUBSET (1 .. n)
        PROVE  g[s] = IF s = {} THEN <<>> ELSE Normalized(g[s \ {Max(s)}], parts[Max(s)])
    <3>1. g[s] = IF s = {} THEN <<>> ELSE step[Max(s)][g[s \ {Max(s)}]]
      BY <1>4 DEF IsFold
    <3>2. ASSUME s # {}
          PROVE  Max(s) \in 1 .. n /\ g[s \ {Max(s)}] \in A
      <4>1. Max(s) \in s
        BY <3>2, <1>1, MaxIsGreatest
      <4>2. s \ {Max(s)} \in SUBSET (1 .. n)
        OBVIOUS
      <4> QED BY <4>1, <4>2, <1>4 DEF IsFold
    <3> QED BY <3>1, <3>2, <1>2
  <2>2. g \in [SUBSET (1 .. n) -> A]
    BY <1>4 DEF IsFold
  <2> QED BY <2>1, <2>2
<1> DEFINE iter == CHOOSE f : Eq(f)
<1>6. Eq(iter)
  BY <1>5
<1>7. normalize_path(parts) = iter[1 .. n]
  BY <1>1 DEF normalize_path, FoldLeft, MapThenFoldSet, Normalized
<1> HIDE DEF iter
<1>8. iter[{}] = <<>>
  BY <1>6
<1>9. \A s \in SUBSET (1 .. n) :
        s # {} /\ iter[s \ {Max(s)}] \in A => iter[s] = step[Max(s)][iter[s \ {Max(s)}]]
  <2> SUFFICES ASSUME NEW s \in SUBSET (1 .. n), s # {}, iter[s \ {Max(s)}] \in A
               PROVE  iter[s] = step[Max(s)][iter[s \ {Max(s)}]]
    OBVIOUS
  <2>1. iter[s] = Normalized(iter[s \ {Max(s)}], parts[Max(s)])
    BY <1>6
  <2>2. Max(s) \in 1 .. n
    BY <1>1, MaxIsGreatest
  <2> QED BY <2>1, <2>2, <1>2
<1>10. \A j \in 0 .. n : iter[1 .. j] \in A
  <2>1. FoldsIn(iter, n, A, <<>>, step)
    BY <1>8, <1>9 DEF FoldsIn
  <2>2. Maps(step, n, A)
    BY <1>3 DEF Maps
  <2>3. Runs(iter, n, A, step)
    BY <2>1, <2>2, <1>1, FoldRuns
  <2> QED BY <2>3 DEF Runs
<1> QED BY <1>1, <1>7, <1>10 DEF A

-----------------------------------------------------------------------------
(* The length of a path *)

\* The length of what comes first in path, names and slashes.
IsLengths(f, path) ==
    /\ f \in [0 .. Len(path) -> Nat] /\ f[0] = 0
    /\ \A j \in 1 .. Len(path) : f[j] = f[j - 1] + 1 + Len(Text[path[j]])

LEMMA TextLength ==
    ASSUME NEW n \in Names
    PROVE  Len(Text[n]) \in Nat /\ Len(Text[n]) > 0
<1>1. Text[n] \in Seq(Range(Text[n])) /\ Text[n] # <<>>
  BY TextAssumption DEF Names
<1> HIDE DEF Names
<1> QED BY <1>1

LEMMA LengthSums ==
    ASSUME NEW path \in Seq(Names)
    PROVE  \E f : IsLengths(f, path) /\ (path # <<>> => len(path) = f[Len(path)])
<1> DEFINE n == Len(path)
           Eq(f) == f = [s \in SUBSET (1 .. n) |->
                           IF s = {} THEN 0 ELSE f[s \ {Max(s)}] + 1 + Len(Text[path[Max(s)]])]
<1>1. n \in Nat /\ DOMAIN path = 1 .. n /\ 0 \in Nat /\ \A i \in 1 .. n : path[i] \in Names
  OBVIOUS
<1>2. PICK step : step = [i \in 1 .. n |-> [d \in Nat |-> d + 1 + Len(Text[path[i]])]]
  OBVIOUS
<1>3. \A i \in 1 .. n : step[i] \in [Nat -> Nat]
  <2> SUFFICES ASSUME NEW i \in 1 .. n
               PROVE  [d \in Nat |-> d + 1 + Len(Text[path[i]])] \in [Nat -> Nat]
    BY <1>2
  <2>1. Len(Text[path[i]]) \in Nat
    BY <1>1, TextLength
  <2>2. PICK l \in Nat : l = Len(Text[path[i]])
    BY <2>1
  <2>3. \A d \in Nat : d + 1 + l \in Nat
    OBVIOUS
  <2> QED BY <2>2, <2>3
<1> HIDE DEF n
<1>4. PICK g : IsFold(g, n, Nat, 0, step)
  BY <1>1, <1>3, FoldExists
<1>5. Eq(g)
  <2>1. ASSUME NEW s \in SUBSET (1 .. n)
        PROVE  g[s] = IF s = {} THEN 0 ELSE g[s \ {Max(s)}] + 1 + Len(Text[path[Max(s)]])
    <3>1. g[s] = IF s = {} THEN 0 ELSE step[Max(s)][g[s \ {Max(s)}]]
      BY <1>4 DEF IsFold
    <3>2. ASSUME s # {}
          PROVE  Max(s) \in 1 .. n /\ g[s \ {Max(s)}] \in Nat
      <4>1. Max(s) \in s
        BY <3>2, <1>1, MaxIsGreatest
      <4>2. s \ {Max(s)} \in SUBSET (1 .. n)
        OBVIOUS
      <4> QED BY <4>1, <4>2, <1>4 DEF IsFold
    <3> QED BY <3>1, <3>2, <1>2
  <2>2. g \in [SUBSET (1 .. n) -> Nat]
    BY <1>4 DEF IsFold
  <2> QED BY <2>1, <2>2
<1> DEFINE iter == CHOOSE f : Eq(f)
<1>6. Eq(iter)
  BY <1>5
<1>7. path # <<>> => len(path) = iter[1 .. n]
  BY <1>1 DEF len, FoldLeft, MapThenFoldSet
<1> HIDE DEF iter
<1>8. iter[{}] = 0
  BY <1>6
<1>9. \A s \in SUBSET (1 .. n) :
        s # {} /\ iter[s \ {Max(s)}] \in Nat => iter[s] = step[Max(s)][iter[s \ {Max(s)}]]
  <2> SUFFICES ASSUME NEW s \in SUBSET (1 .. n), s # {}, iter[s \ {Max(s)}] \in Nat
               PROVE  iter[s] = step[Max(s)][iter[s \ {Max(s)}]]
    OBVIOUS
  <2>1. iter[s] = iter[s \ {Max(s)}] + 1 + Len(Text[path[Max(s)]])
    BY <1>6
  <2>2. Max(s) \in 1 .. n
    BY <1>1, MaxIsGreatest
  <2> QED BY <2>1, <2>2, <1>2
<1>10. /\ \A j \in 0 .. n : iter[1 .. j] \in Nat
       /\ \A j \in 1 .. n : iter[1 .. j] = step[j][iter[1 .. j - 1]]
  <2>1. FoldsIn(iter, n, Nat, 0, step)
    BY <1>8, <1>9 DEF FoldsIn
  <2>2. PICK A : A = Nat
    OBVIOUS
  <2>3. /\ 0 \in A /\ FoldsIn(iter, n, A, 0, step) /\ Maps(step, n, A)
    BY <2>1, <2>2, <1>3 DEF Maps
  <2>4. Runs(iter, n, A, step)
    BY <2>3, <1>1, FoldRuns
  <2> QED BY <2>2, <2>4 DEF Runs
<1>11. PICK h : h = [j \in 0 .. n |-> iter[1 .. j]]
  OBVIOUS
<1>12. h \in [0 .. n -> Nat] /\ h[0] = 0 /\ h[n] = iter[1 .. n]
  <2>1. 0 \in 0 .. n /\ n \in 0 .. n /\ 1 .. 0 = {}
    BY <1>1
  <2> QED BY <2>1, <1>8, <1>10, <1>11
<1>13. ASSUME NEW j \in 1 .. n
       PROVE  h[j] = h[j - 1] + 1 + Len(Text[path[j]])
  <2>1. j \in 0 .. n /\ j - 1 \in 0 .. n
    BY <1>1
  <2>2. h[j] = step[j][h[j - 1]] /\ h[j - 1] \in Nat
    BY <2>1, <1>10, <1>11
  <2> QED BY <2>2, <1>2
<1> QED BY <1>7, <1>12, <1>13 DEF IsLengths, n

\* Lengths grow from name to name.
LEMMA LengthsGrow ==
    ASSUME NEW path \in Seq(Names), NEW f, IsLengths(f, path),
           NEW i \in 0 .. Len(path), NEW k \in 0 .. Len(path), i < k
    PROVE  f[i] + 2 <= f[k]
<1> DEFINE T == {j \in i + 1 .. Len(path) : ~ (f[i] + 2 <= f[j])}
<1> SUFFICES ASSUME T # {}
             PROVE  FALSE
  OBVIOUS
<1>1. PICK j \in T : \A l \in T : j <= l
  <2>1. T \subseteq Nat
    OBVIOUS
  <2> HIDE DEF T
  <2> QED BY <2>1, LeastNumber
<1>2. j \in 1 .. Len(path) /\ j - 1 \in 0 .. Len(path) /\ path[j] \in Names /\ j - 1 \notin T
  BY <1>1
<1>3. Len(Text[path[j]]) \in Nat /\ Len(Text[path[j]]) > 0
  BY <1>2, TextLength
<1>4. f[j] = f[j - 1] + 1 + Len(Text[path[j]]) /\ f[j] \in Nat /\ f[j - 1] \in Nat /\ f[i] \in Nat
  <2>1. f[j] = f[j - 1] + 1 + Len(Text[path[j]])
    BY <1>2 DEF IsLengths
  <2>2. j \in 0 .. Len(path) /\ f \in [0 .. Len(path) -> Nat]
    BY <1>2 DEF IsLengths
  <2> QED BY <2>1, <2>2, <1>2
<1>5. CASE j - 1 = i
  BY <1>1, <1>3, <1>4, <1>5
<1>6. CASE j - 1 # i
  <2>1. f[i] + 2 <= f[j - 1]
    <3>1. j - 1 \in i + 1 .. Len(path)
      BY <1>1, <1>2, <1>6
    <3> QED BY <1>2, <3>1
  <2>2. ~ (f[i] + 2 <= f[j])
    BY <1>1
  <2>3. \A a \in Nat, b \in Nat, l \in Nat : a + 2 <= b => a + 2 <= b + 1 + l
    OBVIOUS
  <2> HIDE DEF T
  <2> QED BY <1>3, <1>4, <2>1, <2>2, <2>3
<1> QED BY <1>5, <1>6

\* A path that begins another one is the shorter string.
LEMMA PrefixIsShorter ==
    ASSUME NEW p \in Seq(Names), NEW q \in Seq(Names), IsPrefix(p, q), Len(p) < Len(q)
    PROVE  len(p) \in Nat /\ len(q) \in Nat /\ len(p) < len(q)
<1>1. PICK f : IsLengths(f, p) /\ (p # <<>> => len(p) = f[Len(p)])
  BY LengthSums
<1>2. PICK g : IsLengths(g, q) /\ (q # <<>> => len(q) = g[Len(q)])
  BY LengthSums
<1>3. Len(p) \in Nat /\ Len(q) \in Nat /\ q # <<>> /\ Len(p) \in 0 .. Len(q) /\ Len(q) \in 0 .. Len(q) /\ 0 \in 0 .. Len(q)
  OBVIOUS
<1>4. g[0] + 2 <= g[Len(q)] /\ g[Len(p)] + 2 <= g[Len(q)] /\ g[0] = 0 /\ g[Len(q)] \in Nat /\ g[Len(p)] \in Nat
  <2>1. g[Len(p)] + 2 <= g[Len(q)]
    BY <1>2, <1>3, LengthsGrow
  <2>2. g[0] + 2 <= g[Len(q)]
    BY <1>2, <1>3, LengthsGrow
  <2> QED BY <2>1, <2>2, <1>2, <1>3 DEF IsLengths
<1>5. CASE p = <<>>
  <2>1. len(p) = 1
    BY <1>5 DEF len
  <2> QED BY <2>1, <1>2, <1>3, <1>4
<1>6. CASE p # <<>>
  <2>1. \A j \in 1 .. Len(p) : p[j] = q[j] /\ j \in 1 .. Len(q)
    <3>1. SubSeq(p, 1, Len(p)) = SubSeq(q, 1, Len(p))
      BY DEF IsPrefix
    <3>2. \A j \in 1 .. Len(p) : SubSeq(p, 1, Len(p))[j] = p[j] /\ SubSeq(q, 1, Len(p))[j] = q[j]
      BY <1>3
    <3> QED BY <3>1, <3>2, <1>3
  <2> DEFINE T == {j \in 0 .. Len(p) : f[j] # g[j]}
  <2>2. T = {}
    <3> SUFFICES ASSUME T # {}
                 PROVE  FALSE
      OBVIOUS
    <3>1. PICK j \in T : \A l \in T : j <= l
      <4>1. T \subseteq Nat
        OBVIOUS
      <4> HIDE DEF T
      <4> QED BY <4>1, LeastNumber
    <3>2. j # 0
      BY <3>1, <1>1, <1>2 DEF IsLengths
    <3>3. j \in 1 .. Len(p) /\ j - 1 \in 0 .. Len(p) /\ j - 1 \notin T
      BY <3>1, <3>2, <1>3
    <3>4. f[j - 1] = g[j - 1]
      BY <3>3
    <3>5. f[j] = f[j - 1] + 1 + Len(Text[p[j]])
      BY <3>3, <1>1 DEF IsLengths
    <3>6. g[j] = g[j - 1] + 1 + Len(Text[q[j]])
      BY <3>3, <2>1, <1>2 DEF IsLengths
    <3> QED BY <3>1, <3>3, <3>4, <3>5, <3>6, <2>1
  <2>3. f[Len(p)] = g[Len(p)]
    BY <2>2, <1>3
  <2> QED BY <2>3, <1>1, <1>2, <1>3, <1>4, <1>6
<1> QED BY <1>5, <1>6

LEMMA LengthType ==
    ASSUME NEW path \in Seq(Names)
    PROVE  len(path) \in Nat
<1>1. PICK f : IsLengths(f, path) /\ (path # <<>> => len(path) = f[Len(path)])
  BY LengthSums
<1>2. Len(path) \in 0 .. Len(path)
  OBVIOUS
<1> QED BY <1>1, <1>2 DEF IsLengths, len

-----------------------------------------------------------------------------
(* The sort *)

Mounts == [path : Seq(Names), fs : Systems]

Sorted(s) == \A i, k \in 1 .. Len(s) : i < k => len(s[i].path) >= len(s[k].path)

\* No two mounts at one path.
Apart(s) == \A i, k \in 1 .. Len(s) : s[i].path = s[k].path => i = k

Elements(s) == {s[i] : i \in 1 .. Len(s)}

LEMMA PlaceProperties ==
    ASSUME NEW s \in Seq(Mounts), NEW m
    PROVE  /\ SortedPlace(s, m) \in 1 .. Len(s) + 1
           /\ SortedPlace(s, m) <= Len(s) => len(s[SortedPlace(s, m)].path) < len(m.path)
           /\ \A i \in 1 .. Len(s) : i < SortedPlace(s, m) => ~ (len(s[i].path) < len(m.path))
<1> DEFINE P == {i \in 1 .. Len(s) + 1 : i <= Len(s) => len(s[i].path) < len(m.path)}
<1>1. Len(s) \in Nat
  OBVIOUS
<1>2. P \subseteq Nat /\ Len(s) + 1 \in P
  BY <1>1
<1>3. Min(P) \in P /\ \A y \in P : Min(P) <= y
  <2> HIDE DEF P
  <2> QED BY <1>2, MinIsLeast
<1>4. SortedPlace(s, m) = Min(P)
  BY DEF SortedPlace
<1>5. PICK p : p = Min(P)
  OBVIOUS
<1>6. p \in 1 .. Len(s) + 1 /\ (p <= Len(s) => len(s[p].path) < len(m.path))
  BY <1>3, <1>5
<1>7. ASSUME NEW i \in 1 .. Len(s), i < p
      PROVE  ~ (len(s[i].path) < len(m.path))
  <2>1. i \notin P
    BY <1>3, <1>5, <1>6, <1>7
  <2> QED BY <2>1, <1>1
<1> QED BY <1>4, <1>5, <1>6, <1>7

\* t is s with m at position p.
HasAt(t, s, p, m) ==
    /\ t \in Seq(Mounts) /\ Len(t) = Len(s) + 1
    /\ t[p] = m
    /\ \A i \in 1 .. Len(s) + 1 : i < p => i \in 1 .. Len(s) /\ t[i] = s[i]
    /\ \A i \in 1 .. Len(s) + 1 : i > p => i - 1 \in 1 .. Len(s) /\ t[i] = s[i - 1]

LEMMA InsertParts ==
    ASSUME NEW s \in Seq(Mounts), NEW m \in Mounts, NEW p \in 1 .. Len(s) + 1
    PROVE  HasAt(InsertAt(s, p, m), s, p, m)
<1> DEFINE a == SubSeq(s, 1, p - 1)
           b == SubSeq(s, p, Len(s))
<1>1. Len(s) \in Nat /\ p \in Nat
  OBVIOUS
<1>2. a \in Seq(Mounts) /\ Len(a) = p - 1 /\ \A i \in 1 .. p - 1 : a[i] = s[i]
  BY <1>1
<1>3. b \in Seq(Mounts) /\ Len(b) = Len(s) + 1 - p /\ \A i \in 1 .. Len(s) + 1 - p : b[i] = s[p + i - 1]
  <2>1. CASE p <= Len(s)
    BY <2>1, <1>1
  <2>2. CASE p = Len(s) + 1
    BY <2>2, <1>1
  <2> QED BY <2>1, <2>2
<1>4. InsertAt(s, p, m) = a \o <<m>> \o b
  BY DEF InsertAt
<1> HIDE DEF a, b
<1>5. PICK c : c = a \o <<m>>
  OBVIOUS
<1>6. c \in Seq(Mounts) /\ Len(c) = p /\ c[p] = m /\ \A i \in 1 .. p - 1 : c[i] = s[i]
  BY <1>1, <1>2, <1>5
<1>7. PICK t : t = c \o b
  OBVIOUS
<1>8. t \in Seq(Mounts) /\ Len(t) = Len(s) + 1
  BY <1>1, <1>3, <1>6, <1>7
<1>9. t[p] = m
  BY <1>1, <1>3, <1>6, <1>7
<1>10. ASSUME NEW i \in 1 .. Len(s) + 1, i < p
       PROVE  i \in 1 .. Len(s) /\ t[i] = s[i]
  BY <1>1, <1>3, <1>6, <1>7, <1>10
<1>11. ASSUME NEW i \in 1 .. Len(s) + 1, i > p
       PROVE  i - 1 \in 1 .. Len(s) /\ t[i] = s[i - 1]
  <2>1. i - p \in 1 .. Len(s) + 1 - p /\ p + (i - p) - 1 = i - 1
    BY <1>1, <1>11
  <2>2. t[i] = b[i - p]
    BY <1>1, <1>3, <1>6, <1>7, <1>11
  <2> QED BY <2>1, <2>2, <1>3, <1>1, <1>11
<1>12. HasAt(t, s, p, m)
  BY <1>8, <1>9, <1>10, <1>11 DEF HasAt
<1> QED BY <1>4, <1>5, <1>7, <1>12

\* The loop body of the sort.
Inserted(s, m) == InsertAt(s, SortedPlace(s, m), m)

LEMMA InsertSorts ==
    ASSUME NEW s \in Seq(Mounts), NEW m \in Mounts, Sorted(s)
    PROVE  Inserted(s, m) \in Seq(Mounts) /\ Sorted(Inserted(s, m))
<1>1. PICK p \in 1 .. Len(s) + 1 : p = SortedPlace(s, m)
  BY PlaceProperties
<1>2. PICK t : t = InsertAt(s, p, m)
  OBVIOUS
<1>3. /\ t \in Seq(Mounts) /\ Len(t) = Len(s) + 1
      /\ t[p] = m
      /\ \A i \in 1 .. Len(s) + 1 : i < p => i \in 1 .. Len(s) /\ t[i] = s[i]
      /\ \A i \in 1 .. Len(s) + 1 : i > p => i - 1 \in 1 .. Len(s) /\ t[i] = s[i - 1]
  <2>1. HasAt(t, s, p, m)
    BY <1>2, InsertParts
  <2> QED BY <2>1 DEF HasAt
<1>4. /\ p <= Len(s) => len(s[p].path) < len(m.path)
      /\ \A i \in 1 .. Len(s) : i < p => ~ (len(s[i].path) < len(m.path))
  BY <1>1, PlaceProperties
<1>5. len(m.path) \in Nat /\ \A i \in 1 .. Len(s) : len(s[i].path) \in Nat
  <2>1. \A n \in Mounts : n.path \in Seq(Names)
    BY DEF Mounts
  <2> QED BY <2>1, LengthType
<1>6. ASSUME NEW i \in 1 .. Len(t), NEW k \in 1 .. Len(t), i < k
      PROVE  len(t[i].path) >= len(t[k].path)
  <2>1. Len(s) \in Nat /\ i \in 1 .. Len(s) + 1 /\ k \in 1 .. Len(s) + 1
    BY <1>3
  <2>2. CASE k < p
    BY <2>1, <2>2, <1>3, <1>6 DEF Sorted
  <2>3. CASE k = p
    BY <2>1, <2>3, <1>3, <1>4, <1>5, <1>6
  <2>4. CASE i < p /\ k > p
    <3>1. i \in 1 .. Len(s) /\ k - 1 \in 1 .. Len(s) /\ t[i] = s[i] /\ t[k] = s[k - 1] /\ i < k - 1
      BY <2>1, <2>4, <1>3
    <3> QED BY <3>1 DEF Sorted
  <2>5. CASE i = p
    <3>1. k - 1 \in 1 .. Len(s) /\ t[k] = s[k - 1] /\ t[i] = m /\ p <= k - 1 /\ p \in 1 .. Len(s)
      BY <2>1, <2>5, <1>3, <1>6
    <3>2. len(s[p].path) < len(m.path)
      BY <3>1, <1>4
    <3>3. p = k - 1 \/ p < k - 1
      BY <3>1
    <3>4. len(s[p].path) >= len(s[k - 1].path)
      BY <3>1, <3>3, <1>5 DEF Sorted
    <3> QED BY <3>1, <3>2, <3>4, <1>5
  <2>6. CASE i > p
    <3>1. i - 1 \in 1 .. Len(s) /\ k - 1 \in 1 .. Len(s) /\ t[i] = s[i - 1] /\ t[k] = s[k - 1] /\ i - 1 < k - 1
      BY <2>1, <2>6, <1>3, <1>6
    <3> QED BY <3>1 DEF Sorted
  <2> QED BY <2>1, <2>2, <2>3, <2>4, <2>5, <2>6
<1>7. Inserted(s, m) = t
  BY <1>1, <1>2 DEF Inserted
<1> QED BY <1>3, <1>6, <1>7 DEF Sorted

LEMMA InsertKeeps ==
    ASSUME NEW s \in Seq(Mounts), NEW m \in Mounts, Apart(s),
           \A i \in 1 .. Len(s) : s[i].path # m.path
    PROVE  Elements(Inserted(s, m)) = Elements(s) \cup {m} /\ Apart(Inserted(s, m))
<1>1. PICK p \in 1 .. Len(s) + 1 : p = SortedPlace(s, m)
  BY PlaceProperties
<1>2. PICK t : t = InsertAt(s, p, m)
  OBVIOUS
<1>3. /\ t \in Seq(Mounts) /\ Len(t) = Len(s) + 1
      /\ t[p] = m
      /\ \A i \in 1 .. Len(s) + 1 : i < p => i \in 1 .. Len(s) /\ t[i] = s[i]
      /\ \A i \in 1 .. Len(s) + 1 : i > p => i - 1 \in 1 .. Len(s) /\ t[i] = s[i - 1]
  <2>1. HasAt(t, s, p, m)
    BY <1>2, InsertParts
  <2> QED BY <2>1 DEF HasAt
<1>4. Len(s) \in Nat /\ p \in Nat
  OBVIOUS
<1>5. ASSUME NEW i \in 1 .. Len(t)
      PROVE  t[i] \in Elements(s) \cup {m}
  <2>1. i < p \/ i = p \/ i > p
    BY <1>4
  <2> QED BY <2>1, <1>3 DEF Elements
<1>6. ASSUME NEW i \in 1 .. Len(s)
      PROVE  s[i] \in Elements(t)
  <2>1. CASE i < p
    <3>1. i \in 1 .. Len(s) + 1
      BY <1>4
    <3> QED BY <3>1, <2>1, <1>3 DEF Elements
  <2>2. CASE i >= p
    <3>1. i + 1 \in 1 .. Len(s) + 1 /\ i + 1 > p /\ (i + 1) - 1 = i
      BY <2>2, <1>4
    <3>2. t[i + 1] = s[i] /\ i + 1 \in 1 .. Len(t)
      BY <3>1, <1>3
    <3> QED BY <3>2 DEF Elements
  <2> QED BY <2>1, <2>2, <1>4
<1>7. m \in Elements(t)
  BY <1>3 DEF Elements
<1>8. ASSUME NEW i \in 1 .. Len(t), NEW k \in 1 .. Len(t), t[i].path = t[k].path
      PROVE  i = k
  <2>1. (i < p \/ i = p \/ i > p) /\ (k < p \/ k = p \/ k > p) /\ i \in 1 .. Len(s) + 1 /\ k \in 1 .. Len(s) + 1
    BY <1>3, <1>4
  <2>2. CASE i < p
    <3>1. t[i] = s[i] /\ i \in 1 .. Len(s)
      BY <2>1, <2>2, <1>3
    <3>2. CASE k < p
      BY <3>1, <3>2, <2>1, <1>3, <1>8 DEF Apart
    <3>3. CASE k = p
      BY <3>1, <3>3, <1>3, <1>8
    <3>4. CASE k > p
      <4>1. t[k] = s[k - 1] /\ k - 1 \in 1 .. Len(s)
        BY <2>1, <3>4, <1>3
      <4>2. i = k - 1
        BY <3>1, <4>1, <1>8 DEF Apart
      <4> QED BY <4>2, <2>2, <3>4, <2>1, <1>4
    <3> QED BY <2>1, <3>2, <3>3, <3>4
  <2>3. CASE i = p
    <3>1. CASE k < p
      BY <2>1, <2>3, <3>1, <1>3, <1>8
    <3>2. CASE k > p
      BY <2>1, <2>3, <3>2, <1>3, <1>8
    <3> QED BY <2>1, <2>3, <3>1, <3>2
  <2>4. CASE i > p
    <3>1. t[i] = s[i - 1] /\ i - 1 \in 1 .. Len(s)
      BY <2>1, <2>4, <1>3
    <3>2. CASE k < p
      <4>1. t[k] = s[k] /\ k \in 1 .. Len(s)
        BY <2>1, <3>2, <1>3
      <4>2. i - 1 = k
        BY <3>1, <4>1, <1>8 DEF Apart
      <4> QED BY <4>2, <2>4, <3>2, <2>1, <1>4
    <3>3. CASE k = p
      BY <3>1, <3>3, <1>3, <1>8
    <3>4. CASE k > p
      <4>1. t[k] = s[k - 1] /\ k - 1 \in 1 .. Len(s)
        BY <2>1, <3>4, <1>3
      <4>2. i - 1 = k - 1
        BY <3>1, <4>1, <1>8 DEF Apart
      <4> QED BY <4>2, <2>1, <1>4
    <3> QED BY <2>1, <3>2, <3>3, <3>4
  <2> QED BY <2>1, <2>2, <2>3, <2>4
<1>9. Inserted(s, m) = t
  BY <1>1, <1>2 DEF Inserted
<1>10. Elements(t) = Elements(s) \cup {m}
  <2>1. Elements(t) \subseteq Elements(s) \cup {m}
    BY <1>5 DEF Elements
  <2>2. Elements(s) \subseteq Elements(t)
    BY <1>6 DEF Elements
  <2> QED BY <2>1, <2>2, <1>7
<1> QED BY <1>8, <1>9, <1>10 DEF Apart

\* The sort orders the mounts and keeps all of them.
LEMMA SortSorts ==
    ASSUME NEW s \in Seq(Mounts), Apart(s)
    PROVE  /\ sort_by_len(s) \in Seq(Mounts)
           /\ Sorted(sort_by_len(s))
           /\ Apart(sort_by_len(s))
           /\ Elements(sort_by_len(s)) = Elements(s)
<1> DEFINE n == Len(s)
           A == {t \in Seq(Mounts) : Sorted(t)}
           Eq(f) == f = [x \in SUBSET (1 .. n) |->
                           IF x = {} THEN <<>> ELSE Inserted(f[x \ {Max(x)}], s[Max(x)])]
<1>1. n \in Nat /\ DOMAIN s = 1 .. n /\ <<>> \in A /\ \A i \in 1 .. n : s[i] \in Mounts
  BY DEF Sorted
<1>2. PICK step : step = [i \in 1 .. n |-> [d \in A |-> Inserted(d, s[i])]]
  OBVIOUS
<1>3. \A i \in 1 .. n : step[i] \in [A -> A]
  <2>1. \A i \in 1 .. n, d \in A : Inserted(d, s[i]) \in A
    BY <1>1, InsertSorts
  <2> HIDE DEF A, n
  <2> QED BY <2>1, <1>2
<1>4. \A d \in A : d \in Seq(Mounts) /\ Sorted(d)
  OBVIOUS
<1> HIDE DEF A, n
<1>5. PICK g : IsFold(g, n, A, <<>>, step)
  BY <1>1, <1>3, FoldExists
<1>6. Eq(g)
  <2>1. ASSUME NEW x \in SUBSET (1 .. n)
        PROVE  g[x] = IF x = {} THEN <<>> ELSE Inserted(g[x \ {Max(x)}], s[Max(x)])
    <3>1. g[x] = IF x = {} THEN <<>> ELSE step[Max(x)][g[x \ {Max(x)}]]
      BY <1>5 DEF IsFold
    <3>2. ASSUME x # {}
          PROVE  Max(x) \in 1 .. n /\ g[x \ {Max(x)}] \in A
      <4>1. Max(x) \in x
        BY <3>2, <1>1, MaxIsGreatest
      <4>2. x \ {Max(x)} \in SUBSET (1 .. n)
        OBVIOUS
      <4> QED BY <4>1, <4>2, <1>5 DEF IsFold
    <3> QED BY <3>1, <3>2, <1>2
  <2>2. g \in [SUBSET (1 .. n) -> A]
    BY <1>5 DEF IsFold
  <2> QED BY <2>1, <2>2
<1> DEFINE iter == CHOOSE f : Eq(f)
<1>7. Eq(iter)
  BY <1>6
<1>8. sort_by_len(s) = iter[1 .. n]
  BY <1>1 DEF sort_by_len, FoldLeft, MapThenFoldSet, Inserted
<1> HIDE DEF iter
<1>9. iter[{}] = <<>>
  BY <1>7
<1>10. \A x \in SUBSET (1 .. n) :
         x # {} /\ iter[x \ {Max(x)}] \in A => iter[x] = step[Max(x)][iter[x \ {Max(x)}]]
  <2> SUFFICES ASSUME NEW x \in SUBSET (1 .. n), x # {}, iter[x \ {Max(x)}] \in A
               PROVE  iter[x] = step[Max(x)][iter[x \ {Max(x)}]]
    OBVIOUS
  <2>1. iter[x] = Inserted(iter[x \ {Max(x)}], s[Max(x)])
    BY <1>7
  <2>2. Max(x) \in 1 .. n
    BY <1>1, MaxIsGreatest
  <2> QED BY <2>1, <2>2, <1>2
<1>11. /\ \A j \in 0 .. n : iter[1 .. j] \in A
       /\ \A j \in 1 .. n : iter[1 .. j] = step[j][iter[1 .. j - 1]]
  <2>1. FoldsIn(iter, n, A, <<>>, step)
    BY <1>9, <1>10 DEF FoldsIn
  <2>2. <<>> \in A /\ n \in Nat /\ Maps(step, n, A)
    BY <1>1, <1>3 DEF Maps
  <2>3. Runs(iter, n, A, step)
    BY <2>1, <2>2, FoldRuns
  <2> QED BY <2>3 DEF Runs
<1> DEFINE Good(j) == Apart(iter[1 .. j]) /\ Elements(iter[1 .. j]) = {s[i] : i \in 1 .. j}
           T == {j \in 0 .. n : ~ Good(j)}
<1>12. Good(0)
  <2>1. iter[1 .. 0] = <<>> /\ 1 .. 0 = {}
    <3>1. 1 .. 0 = {}
      OBVIOUS
    <3> QED BY <3>1, <1>9
  <2> QED BY <2>1 DEF Apart, Elements
<1>13. ASSUME NEW j \in 1 .. n, Good(j - 1)
       PROVE  Good(j)
  <2>1. j \in 0 .. n /\ j - 1 \in 0 .. n /\ 1 .. j = (1 .. j - 1) \cup {j} /\ s[j] \in Mounts
    BY <1>1
  <2>2. PICK d : d = iter[1 .. j - 1]
    OBVIOUS
  <2>3. d \in A /\ d \in Seq(Mounts) /\ Apart(d) /\ Elements(d) = {s[i] : i \in 1 .. j - 1}
    BY <2>1, <2>2, <1>4, <1>11, <1>13
  <2>4. iter[1 .. j] = Inserted(d, s[j])
    BY <2>2, <2>3, <1>2, <1>11
  <2>5. \A i \in 1 .. Len(d) : d[i].path # s[j].path
    <3> SUFFICES ASSUME NEW i \in 1 .. Len(d), d[i].path = s[j].path
                 PROVE  FALSE
      OBVIOUS
    <3>1. d[i] \in Elements(d)
      BY DEF Elements
    <3>2. PICK k \in 1 .. j - 1 : d[i] = s[k]
      BY <3>1, <2>3
    <3>3. k \in 1 .. Len(s) /\ j \in 1 .. Len(s) /\ k # j
      BY <1>1 DEF n
    <3> QED BY <3>2, <3>3 DEF Apart
  <2>6. Elements(Inserted(d, s[j])) = Elements(d) \cup {s[j]} /\ Apart(Inserted(d, s[j]))
    BY <2>1, <2>3, <2>5, InsertKeeps
  <2>7. Elements(d) \cup {s[j]} = {s[i] : i \in 1 .. j}
    BY <2>1, <2>3
  <2> QED BY <2>4, <2>6, <2>7
<1> HIDE DEF Good
<1>14. Good(n)
  <2> SUFFICES ASSUME T # {}
               PROVE  FALSE
    BY <1>1
  <2>1. PICK j \in T : \A l \in T : j <= l
    <3>1. T \subseteq Nat
      OBVIOUS
    <3> HIDE DEF T
    <3> QED BY <3>1, LeastNumber
  <2>2. j # 0
    BY <2>1, <1>12
  <2>3. j \in 1 .. n /\ j - 1 \in 0 .. n /\ j - 1 \notin T
    BY <2>1, <2>2, <1>1
  <2>4. Good(j - 1)
    BY <2>3
  <2> QED BY <2>1, <2>3, <2>4, <1>13
<1>15. iter[1 .. n] \in Seq(Mounts) /\ Sorted(iter[1 .. n])
  BY <1>1, <1>4, <1>11
<1>16. {s[i] : i \in 1 .. n} = Elements(s)
  BY DEF Elements, n
<1> QED BY <1>8, <1>14, <1>15, <1>16 DEF Good

-----------------------------------------------------------------------------
(* Paths and the mounts above them *)

LEMMA FirstNames ==
    ASSUME NEW s \in Seq(Names), NEW k \in 0 .. Len(s)
    PROVE  /\ SubSeq(s, 1, k) \in Seq(Names) /\ Len(SubSeq(s, 1, k)) = k
           /\ \A j \in 1 .. k : SubSeq(s, 1, k)[j] = s[j]
  OBVIOUS

\* A mount takes exactly the paths that it begins, name by name.
LEMMA TakesPrefix ==
    ASSUME NEW path \in Seq(Names), NEW m \in Seq(Names)
    PROVE  Takes(path, m) <=> IsPrefix(m, path)
<1>1. CASE m = <<>>
  BY <1>1 DEF Takes, IsPrefix
<1>2. CASE m # <<>>
  <2>1. Len(m) \in Nat /\ Len(m) > 0 /\ Len(path) \in Nat
    BY <1>2
  <2>2. ASSUME IsPrefix(m, path)
        PROVE  Takes(path, m)
    <3>1. Len(m) <= Len(path) /\ SubSeq(m, 1, Len(m)) = SubSeq(path, 1, Len(m))
      BY <2>2 DEF IsPrefix
    <3>2. \A j \in 1 .. Len(m) : m[j] = path[j]
      <4>1. \A j \in 1 .. Len(m) : SubSeq(m, 1, Len(m))[j] = m[j] /\ SubSeq(path, 1, Len(m))[j] = path[j]
        BY <2>1, <3>1
      <4> QED BY <3>1, <4>1
    <3>3. path[Len(m)] = Last(m) /\ Last(m) \in Names
      BY <2>1, <3>2 DEF Last
    <3>4. Front(m) = SubSeq(path, 1, Len(m) - 1)
      <4>1. Front(m) \in Seq(Names) /\ Len(Front(m)) = Len(m) - 1 /\ \A j \in 1 .. Len(m) - 1 : Front(m)[j] = m[j]
        <5>1. Len(m) - 1 \in 0 .. Len(m)
          BY <2>1
        <5> QED BY <5>1, FirstNames DEF Front
      <4>2. PICK u : u = SubSeq(path, 1, Len(m) - 1)
        OBVIOUS
      <4>3. u \in Seq(Names) /\ Len(u) = Len(m) - 1 /\ \A j \in 1 .. Len(m) - 1 : u[j] = path[j]
        <5>1. Len(m) - 1 \in 0 .. Len(path)
          BY <2>1, <3>1
        <5> QED BY <5>1, <4>2, FirstNames
      <4>4. \A j \in 1 .. Len(m) - 1 : j \in 1 .. Len(m)
        BY <2>1
      <4>5. PICK v : v = Front(m)
        OBVIOUS
      <4>6. v \in Seq(Names) /\ Len(v) = Len(m) - 1 /\ \A j \in 1 .. Len(m) - 1 : v[j] = u[j]
        BY <4>1, <4>3, <4>4, <4>5, <3>2
      <4>7. v = u
        BY <4>3, <4>6
      <4> QED BY <4>2, <4>5, <4>7
    <3>5. IsPrefix(Text[Last(m)], Text[path[Len(m)]])
      <4>1. Len(Text[Last(m)]) \in Nat
        BY <3>3, TextLength
      <4> QED BY <4>1, <3>3 DEF IsPrefix
    <3> QED BY <3>1, <3>3, <3>4, <3>5, <2>1 DEF Takes, starts_with
  <2>3. ASSUME Takes(path, m)
        PROVE  IsPrefix(m, path)
    <3>1. CASE path = m
      BY <3>1, <2>1 DEF IsPrefix
    <3>2. CASE starts_with(path, m) /\ path[Len(m)] = Last(m)
      <4>1. Len(m) <= Len(path) /\ Front(m) = SubSeq(path, 1, Len(m) - 1) /\ path[Len(m)] = m[Len(m)]
        BY <3>2, <2>1 DEF starts_with, Last
      <4>2. \A j \in 1 .. Len(m) - 1 : Front(m)[j] = m[j] /\ SubSeq(path, 1, Len(m) - 1)[j] = path[j]
        BY <4>1, <2>1 DEF Front
      <4>3. \A j \in 1 .. Len(m) : j = Len(m) \/ j \in 1 .. Len(m) - 1
        BY <2>1
      <4>4. \A j \in 1 .. Len(m) : m[j] = path[j]
        BY <4>1, <4>2, <4>3
      <4>5. PICK u : u = SubSeq(path, 1, Len(m))
        OBVIOUS
      <4>6. u \in Seq(Names) /\ Len(u) = Len(m) /\ \A j \in 1 .. Len(m) : u[j] = path[j]
        BY <4>1, <4>5, <2>1
      <4>7. u = m /\ SubSeq(m, 1, Len(m)) = m
        BY <4>4, <4>6, <2>1
      <4> QED BY <4>1, <4>5, <4>7 DEF IsPrefix
    <3> QED BY <2>3, <1>2, <3>1, <3>2 DEF Takes
  <2> QED BY <2>2, <2>3
<1> QED BY <1>1, <1>2

\* Of two beginnings of a path, the one with fewer names begins the other.
LEMMA PrefixesNest ==
    ASSUME NEW path \in Seq(Names), NEW p \in Seq(Names), NEW q \in Seq(Names),
           IsPrefix(p, path), IsPrefix(q, path), Len(p) <= Len(q)
    PROVE  IsPrefix(p, q) /\ (Len(p) = Len(q) => p = q)
<1>1. Len(p) \in Nat /\ Len(q) \in Nat /\ Len(path) \in Nat /\ Len(q) <= Len(path)
  BY DEF IsPrefix
<1>2. \A j \in 1 .. Len(q) : q[j] = path[j]
  <2>1. SubSeq(q, 1, Len(q)) = SubSeq(path, 1, Len(q))
    BY DEF IsPrefix
  <2>2. \A j \in 1 .. Len(q) : SubSeq(q, 1, Len(q))[j] = q[j] /\ SubSeq(path, 1, Len(q))[j] = path[j]
    BY <1>1
  <2> QED BY <2>1, <2>2
<1>3. \A j \in 1 .. Len(p) : p[j] = path[j]
  <2>1. SubSeq(p, 1, Len(p)) = SubSeq(path, 1, Len(p))
    BY DEF IsPrefix
  <2>2. \A j \in 1 .. Len(p) : SubSeq(p, 1, Len(p))[j] = p[j] /\ SubSeq(path, 1, Len(p))[j] = path[j]
    BY <1>1
  <2> QED BY <2>1, <2>2
<1>4. \A j \in 1 .. Len(p) : p[j] = q[j]
  BY <1>1, <1>2, <1>3
<1>5. PICK u : u = SubSeq(q, 1, Len(p))
  OBVIOUS
<1>6. u \in Seq(Names) /\ Len(u) = Len(p) /\ \A j \in 1 .. Len(p) : u[j] = q[j]
  BY <1>1, <1>5
<1>7. u = p /\ SubSeq(p, 1, Len(p)) = p
  BY <1>4, <1>6, <1>1
<1>8. IsPrefix(p, q)
  BY <1>5, <1>7 DEF IsPrefix
<1>9. ASSUME Len(p) = Len(q)
      PROVE  p = q
  BY <1>4, <1>9, <1>1
<1> QED BY <1>8, <1>9

-----------------------------------------------------------------------------
(* The table that a vector of mounts stands for *)

TableOf(ms) ==
    [p \in {ms[i].path : i \in DOMAIN ms} |-> ms[CHOOSE i \in DOMAIN ms : ms[i].path = p].fs]

LEMMA TableEntries ==
    ASSUME NEW ms \in Seq(Mounts), Apart(ms)
    PROVE  /\ DOMAIN TableOf(ms) = {e.path : e \in Elements(ms)}
           /\ \A e \in Elements(ms) : TableOf(ms)[e.path] = e.fs
           /\ TableOf(ms) = [p \in DOMAIN TableOf(ms) |-> TableOf(ms)[p]]
<1>1. DOMAIN ms = 1 .. Len(ms)
  OBVIOUS
<1>2. DOMAIN TableOf(ms) = {e.path : e \in Elements(ms)}
  BY <1>1 DEF TableOf, Elements
<1>3. ASSUME NEW i \in 1 .. Len(ms)
      PROVE  TableOf(ms)[ms[i].path] = ms[i].fs
  <2>1. PICK k : k = CHOOSE l \in DOMAIN ms : ms[l].path = ms[i].path
    OBVIOUS
  <2>2. k \in DOMAIN ms /\ ms[k].path = ms[i].path
    BY <2>1, <1>1
  <2>3. k = i
    BY <2>2, <1>1 DEF Apart
  <2>4. TableOf(ms)[ms[i].path] = ms[k].fs
    BY <2>1, <1>1 DEF TableOf
  <2> QED BY <2>3, <2>4
<1>4. \A e \in Elements(ms) : TableOf(ms)[e.path] = e.fs
  BY <1>3 DEF Elements
<1>5. TableOf(ms) = [p \in DOMAIN TableOf(ms) |-> TableOf(ms)[p]]
  BY DEF TableOf
<1> QED BY <1>2, <1>4, <1>5

\* A table with another entry, and one without the entry of a path.
Grown(table, m) ==
    [n \in DOMAIN table \cup {m.path} |-> IF n = m.path THEN m.fs ELSE table[n]]
Shrunk(table, path) == [n \in DOMAIN table \ {path} |-> table[n]]

\* One mount more is one entry more.
LEMMA TableGrows ==
    ASSUME NEW ms \in Seq(Mounts), Apart(ms), NEW t \in Seq(Mounts), Apart(t), NEW m \in Mounts,
           Elements(t) = Elements(ms) \cup {m}, m.path \notin DOMAIN TableOf(ms)
    PROVE  TableOf(t) = Grown(TableOf(ms), m)
<1>1. PICK a, b : a = TableOf(ms) /\ b = TableOf(t)
  OBVIOUS
<1>2. DOMAIN a = {e.path : e \in Elements(ms)} /\ \A e \in Elements(ms) : a[e.path] = e.fs
  BY <1>1, TableEntries
<1>3. DOMAIN b = {e.path : e \in Elements(t)} /\ (\A e \in Elements(t) : b[e.path] = e.fs)
      /\ b = [p \in DOMAIN b |-> b[p]]
  BY <1>1, TableEntries
<1>4. DOMAIN b = DOMAIN a \cup {m.path}
  BY <1>2, <1>3
<1>5. ASSUME NEW n \in DOMAIN b
      PROVE  b[n] = IF n = m.path THEN m.fs ELSE a[n]
  <2>1. CASE n = m.path
    BY <1>3, <2>1
  <2>2. CASE n # m.path
    <3>1. PICK e \in Elements(ms) : n = e.path
      BY <1>2, <1>4, <2>2
    <3> QED BY <3>1, <2>2, <1>2, <1>3
  <2> QED BY <2>1, <2>2
<1>6. b = [n \in DOMAIN a \cup {m.path} |-> IF n = m.path THEN m.fs ELSE a[n]]
  BY <1>3, <1>4, <1>5
<1> QED BY <1>1, <1>6 DEF Grown

\* One mount less is one entry less.
LEMMA TableShrinks ==
    ASSUME NEW ms \in Seq(Mounts), Apart(ms), NEW t \in Seq(Mounts), Apart(t), NEW m \in Elements(ms),
           Elements(t) = Elements(ms) \ {m}
    PROVE  TableOf(t) = Shrunk(TableOf(ms), m.path)
<1>1. PICK a, b : a = TableOf(ms) /\ b = TableOf(t)
  OBVIOUS
<1>2. DOMAIN a = {e.path : e \in Elements(ms)} /\ \A e \in Elements(ms) : a[e.path] = e.fs
  BY <1>1, TableEntries
<1>3. DOMAIN b = {e.path : e \in Elements(t)} /\ (\A e \in Elements(t) : b[e.path] = e.fs)
      /\ b = [p \in DOMAIN b |-> b[p]]
  BY <1>1, TableEntries
<1>4. \A e \in Elements(ms) : e.path = m.path => e = m
  BY DEF Elements, Apart
<1>5. DOMAIN b = DOMAIN a \ {m.path}
  BY <1>2, <1>3, <1>4
<1>6. ASSUME NEW n \in DOMAIN b
      PROVE  b[n] = a[n]
  <2>1. PICK e \in Elements(t) : n = e.path
    BY <1>3
  <2> QED BY <2>1, <1>2, <1>3
<1>7. b = [n \in DOMAIN a \ {m.path} |-> a[n]]
  BY <1>3, <1>5, <1>6
<1> QED BY <1>1, <1>7 DEF Shrunk

LEMMA RemoveKeeps ==
    ASSUME NEW s \in Seq(Mounts), Sorted(s), Apart(s), NEW i \in 1 .. Len(s)
    PROVE  /\ RemoveAt(s, i) \in Seq(Mounts) /\ Sorted(RemoveAt(s, i)) /\ Apart(RemoveAt(s, i))
           /\ Elements(RemoveAt(s, i)) = Elements(s) \ {s[i]}
<1> DEFINE a == SubSeq(s, 1, i - 1)
           b == SubSeq(s, i + 1, Len(s))
<1>1. Len(s) \in Nat /\ i \in Nat
  OBVIOUS
<1>2. a \in Seq(Mounts) /\ Len(a) = i - 1 /\ \A k \in 1 .. i - 1 : a[k] = s[k]
  BY <1>1
<1>3. b \in Seq(Mounts) /\ Len(b) = Len(s) - i /\ \A k \in 1 .. Len(s) - i : b[k] = s[i + k]
  <2>1. CASE i < Len(s)
    BY <2>1, <1>1
  <2>2. CASE i = Len(s)
    BY <2>2, <1>1
  <2> QED BY <2>1, <2>2
<1>4. RemoveAt(s, i) = a \o b
  BY DEF RemoveAt
<1> HIDE DEF a, b
<1>5. PICK t : t = a \o b
  OBVIOUS
<1>6. t \in Seq(Mounts) /\ Len(t) = Len(s) - 1
  <2>1. t \in Seq(Mounts) /\ Len(t) = Len(a) + Len(b)
    <3>1. a \in Seq(Mounts) /\ b \in Seq(Mounts)
      BY <1>2, <1>3
    <3> QED BY <3>1, <1>5
  <2> QED BY <2>1, <1>1, <1>2, <1>3
\* Where the mount at k was before.
<1> DEFINE Was(k) == IF k < i THEN k ELSE k + 1
<1>7. ASSUME NEW k \in 1 .. Len(t)
      PROVE  Was(k) \in 1 .. Len(s) /\ Was(k) # i /\ t[k] = s[Was(k)]
  <2>1. CASE k < i
    <3>1. k \in 1 .. i - 1
      BY <2>1, <1>1
    <3>2. t[k] = a[k]
      BY <3>1, <1>2, <1>3, <1>5, <1>6
    <3> QED BY <3>1, <3>2, <1>1, <1>2, <2>1
  <2>2. CASE ~ (k < i)
    <3>1. k - (i - 1) \in 1 .. Len(s) - i /\ i + (k - (i - 1)) = k + 1 /\ k + 1 \in 1 .. Len(s) /\ k + 1 # i
      BY <2>2, <1>1, <1>6
    <3>2. t[k] = b[k - (i - 1)]
      <4>1. Len(a) = i - 1 /\ k > Len(a) /\ k <= Len(a) + Len(b)
        BY <2>2, <1>1, <1>2, <1>3, <1>6
      <4>2. a \in Seq(Mounts) /\ b \in Seq(Mounts) /\ k \in 1 .. Len(a) + Len(b)
        BY <4>1, <1>1, <1>2, <1>3
      <4>3. t[k] = b[k - Len(a)]
        BY <4>1, <4>2, <1>5, ConcatProperties
      <4> QED BY <4>1, <4>3
    <3> QED BY <3>1, <3>2, <1>3, <2>2
  <2> QED BY <2>1, <2>2
<1>8. Sorted(t)
  <2> SUFFICES ASSUME NEW k \in 1 .. Len(t), NEW l \in 1 .. Len(t), k < l
               PROVE  len(t[k].path) >= len(t[l].path)
    BY DEF Sorted
  <2>1. Was(k) < Was(l)
    BY <1>1, <1>6
  <2> HIDE DEF Was
  <2> QED BY <2>1, <1>7 DEF Sorted
<1>9. Apart(t)
  <2> SUFFICES ASSUME NEW k \in 1 .. Len(t), NEW l \in 1 .. Len(t), t[k].path = t[l].path
               PROVE  k = l
    BY DEF Apart
  <2>1. Was(k) = Was(l)
    <3> HIDE DEF Was
    <3> QED BY <1>7 DEF Apart
  <2> QED BY <2>1, <1>1, <1>6
<1>10. Elements(t) = Elements(s) \ {s[i]}
  <2>1. ASSUME NEW k \in 1 .. Len(t)
        PROVE  t[k] \in Elements(s) /\ t[k] # s[i]
    <3> HIDE DEF Was
    <3>1. t[k] = s[Was(k)] /\ Was(k) \in 1 .. Len(s) /\ Was(k) # i
      BY <1>7
    <3> QED BY <3>1 DEF Elements, Apart
  <2>2. ASSUME NEW k \in 1 .. Len(s), k # i
        PROVE  s[k] \in Elements(t)
    <3>1. PICK l : l = IF k < i THEN k ELSE k - 1
      OBVIOUS
    <3>2. l \in 1 .. Len(t) /\ Was(l) = k
      BY <3>1, <2>2, <1>1, <1>6
    <3> HIDE DEF Was
    <3> QED BY <3>2, <1>7 DEF Elements
  <2>3. \A e \in Elements(t) : e \in Elements(s) \ {s[i]}
    BY <2>1 DEF Elements
  <2>4. \A e \in Elements(s) : e # s[i] => e \in Elements(t)
    <3> SUFFICES ASSUME NEW k \in 1 .. Len(s), s[k] # s[i]
                 PROVE  s[k] \in Elements(t)
      BY DEF Elements
    <3>1. k # i
      OBVIOUS
    <3> QED BY <3>1, <2>2
  <2> QED BY <2>3, <2>4
<1> QED BY <1>4, <1>5, <1>6, <1>8, <1>9, <1>10

-----------------------------------------------------------------------------
(* The search *)

\* The mounts that path lies at or below.
Above(ms, path) == {i \in 1 .. Len(ms) : IsPrefix(ms[i].path, path)}

LEMMA FirstIsInnermost ==
    ASSUME NEW ms \in Seq(Mounts), Sorted(ms), NEW path \in Seq(Names), Above(ms, path) # {}
    PROVE  /\ Min(Above(ms, path)) \in Above(ms, path)
           /\ \A k \in Above(ms, path) : Len(ms[k].path) <= Len(ms[Min(Above(ms, path))].path)
<1>1. PICK I : I = Above(ms, path)
  OBVIOUS
<1>2. I \subseteq Nat /\ I # {} /\ \A i \in I : i \in 1 .. Len(ms) /\ ms[i] \in Mounts /\ IsPrefix(ms[i].path, path)
  BY <1>1 DEF Above
<1>3. PICK r \in I : r = Min(I) /\ \A y \in I : r <= y
  BY <1>2, MinIsLeast
<1>4. ASSUME NEW k \in I
      PROVE  Len(ms[k].path) <= Len(ms[r].path)
  <2>1. PICK p, q : p = ms[r].path /\ q = ms[k].path
    OBVIOUS
  <2>2. p \in Seq(Names) /\ q \in Seq(Names) /\ IsPrefix(p, path) /\ IsPrefix(q, path)
    BY <2>1, <1>2 DEF Mounts
  <2>3. Len(p) \in Nat /\ Len(q) \in Nat
    BY <2>2
  <2> SUFFICES ASSUME Len(p) < Len(q)
               PROVE  FALSE
    BY <2>1, <2>3
  <2>4. IsPrefix(p, q)
    BY <2>2, <2>3, PrefixesNest
  <2>5. len(p) \in Nat /\ len(q) \in Nat /\ len(p) < len(q)
    BY <2>2, <2>4, PrefixIsShorter
  <2>6. r < k
    <3>1. r <= k /\ r # k
      BY <1>3, <2>1, <2>3
    <3> QED BY <3>1, <1>2
  <2>7. len(p) >= len(q)
    BY <2>1, <2>6, <1>2 DEF Sorted
  <2> QED BY <2>5, <2>7
<1> QED BY <1>1, <1>3, <1>4

-----------------------------------------------------------------------------
(* The refinement *)

MountInv == mounts \in Seq(Mounts) /\ Sorted(mounts) /\ Apart(mounts)

LEMMA AttachedTable == Attached = TableOf(mounts)
  BY DEF Attached, TableOf

\* resolve finds a mount when there is one above the path, and then the innermost.
LEMMA ResolveInnermost ==
    ASSUME MountInv, NEW path \in Seq(Names)
    PROVE  /\ (resolve(path) = 0) <=> (Abstract!Covering(path) = {})
           /\ resolve(path) # 0 => Target(path) = Abstract!Place(path)
<1>1. PICK ms, I, T : ms = mounts /\ I = Above(mounts, path) /\ T = TableOf(mounts)
  OBVIOUS
<1>2. ms \in Seq(Mounts) /\ Sorted(ms) /\ Apart(ms) /\ I = Above(ms, path) /\ Attached = T
  BY <1>1, AttachedTable DEF MountInv
<1>3. DOMAIN T = {e.path : e \in Elements(ms)} /\ \A e \in Elements(ms) : T[e.path] = e.fs
  BY <1>1, <1>2, TableEntries
<1>4. \A i \in 1 .. Len(ms) : ms[i] \in Mounts /\ ms[i].path \in Seq(Names)
  <2>1. \A i \in 1 .. Len(ms) : ms[i] \in Mounts
    BY <1>2
  <2>2. \A e \in Mounts : e.path \in Seq(Names)
    BY DEF Mounts
  <2> QED BY <2>1, <2>2
<1>5. {i \in 1 .. Len(ms) : Takes(path, ms[i].path)} = I
  BY <1>2, <1>4, TakesPrefix DEF Above
<1>6. resolve(path) = IF I # {} THEN Min(I) ELSE 0
  BY <1>1, <1>5 DEF resolve, SelectInSeq
<1>7. Abstract!Covering(path) = {ms[i].path : i \in I}
  <2>1. Abstract!Covering(path) = {m \in DOMAIN T : IsPrefix(m, path)}
    BY <1>2 DEF Abstract!Covering, Abstract!IsPrefix, IsPrefix
  <2>2. DOMAIN T = {ms[i].path : i \in 1 .. Len(ms)}
    BY <1>3 DEF Elements
  <2> QED BY <2>1, <2>2, <1>2 DEF Above
<1>8. CASE I = {}
  BY <1>6, <1>7, <1>8
<1>9. CASE I # {}
  <2>1. PICK r \in I : r = Min(I) /\ \A k \in I : Len(ms[k].path) <= Len(ms[r].path)
    BY <1>2, <1>9, FirstIsInnermost
  <2>2. r \in 1 .. Len(ms) /\ r # 0 /\ resolve(path) = r
    BY <1>2, <1>6, <1>9, <2>1 DEF Above
  <2>3. PICK m : m = ms[r].path
    OBVIOUS
  <2>4. m \in Abstract!Covering(path) /\ \A n \in Abstract!Covering(path) : Len(n) <= Len(m)
    BY <1>7, <2>1, <2>3
  <2>5. \A n \in Abstract!Covering(path) : n \in Seq(Names) /\ IsPrefix(n, path) /\ Len(n) \in Nat
    BY <1>2, <1>4, <1>7 DEF Above
  <2>6. Abstract!Innermost(path) = m
    <3>1. PICK x : x = Abstract!Innermost(path)
      OBVIOUS
    <3>2. x \in Abstract!Covering(path) /\ \A n \in Abstract!Covering(path) : Len(n) <= Len(x)
      BY <2>4, <3>1 DEF Abstract!Innermost
    <3>3. Len(x) = Len(m) /\ Len(x) <= Len(m)
      BY <2>4, <2>5, <3>2
    <3>4. x = m
      BY <2>4, <2>5, <3>2, <3>3, PrefixesNest
    <3> QED BY <3>1, <3>4
  <2>7. T[m] = ms[r].fs
    BY <1>3, <2>2, <2>3 DEF Elements
  <2>8. Target(path) = <<ms[r].fs, SubSeq(path, Len(m) + 1, Len(path))>>
    BY <1>1, <2>2, <2>3 DEF Target
  <2>9. Abstract!Place(path) = <<T[m], SubSeq(path, Len(m) + 1, Len(path))>>
    BY <1>2, <2>6 DEF Abstract!Place
  <2> QED BY <2>2, <2>4, <2>7, <2>8, <2>9
<1> QED BY <1>8, <1>9

LEMMA NormalPaths ==
    /\ \A p \in MountAt : normalize_path(p) \in Seq(Names) /\ normalize_path(p) \in Normal(MountAt)
    /\ \A p \in RawPaths : normalize_path(p) \in Seq(Names) /\ normalize_path(p) \in Normal(RawPaths)
<1>1. \A p \in MountAt \cup RawPaths : p \in Seq(Parts)
  BY PartsAssumption DEF Parts, Names
<1> QED BY <1>1, NormalizeType DEF Normal

AbstractVars == <<Attached, files, last>>

LEMMA MountStep ==
    ASSUME MountInv, NEW p \in MountAt, NEW fs \in Systems, mount(p, fs)
    PROVE  MountInv' /\ [Abstract!Next]_AbstractVars
<1>1. PICK path : path = normalize_path(p)
  OBVIOUS
<1>2. path \in Seq(Names) /\ path \in Normal(MountAt)
  BY <1>1, NormalPaths
<1>3. CASE \E i \in DOMAIN mounts : mounts[i].path = path
  <2>1. UNCHANGED vars
    BY <1>1, <1>3 DEF mount
  <2> QED BY <2>1 DEF vars, MountInv, AbstractVars, Attached
<1>4. CASE ~ \E i \in DOMAIN mounts : mounts[i].path = path
  <2>1. PICK ms, m : ms = mounts /\ m = [path |-> path, fs |-> fs]
    OBVIOUS
  <2>2. PICK s, t : s = Append(ms, m) /\ t = sort_by_len(s)
    OBVIOUS
  <2>3. mounts' = t /\ last' = path /\ files' = files /\ \A i \in DOMAIN ms : ms[i].fs # fs
    BY <1>1, <1>4, <2>1, <2>2 DEF mount
  <2>4. ms \in Seq(Mounts) /\ Sorted(ms) /\ Apart(ms) /\ m \in Mounts /\ m.path = path /\ m.fs = fs
    BY <1>2, <2>1 DEF MountInv, Mounts
  <2>5. DOMAIN ms = 1 .. Len(ms) /\ Len(ms) \in Nat /\ \A i \in 1 .. Len(ms) : ms[i].path # path
    BY <1>4, <2>1, <2>4
  <2>6. /\ s \in Seq(Mounts) /\ Len(s) = Len(ms) + 1 /\ s[Len(ms) + 1] = m
        /\ \A i \in 1 .. Len(ms) : s[i] = ms[i]
    BY <2>2, <2>4
  <2>7. \A i \in 1 .. Len(s) : i = Len(ms) + 1 \/ i \in 1 .. Len(ms)
    BY <2>5, <2>6
  <2>8. Apart(s)
    BY <2>4, <2>5, <2>6, <2>7 DEF Apart
  <2>9. Elements(s) = Elements(ms) \cup {m}
    <3>1. \A i \in 1 .. Len(ms) : i \in 1 .. Len(s)
      BY <2>5, <2>6
    <3>2. Len(ms) + 1 \in 1 .. Len(s)
      BY <2>5, <2>6
    <3>3. Elements(s) \subseteq Elements(ms) \cup {m}
      BY <2>6, <2>7 DEF Elements
    <3>4. Elements(ms) \subseteq Elements(s)
      BY <2>6, <3>1 DEF Elements
    <3>5. m \in Elements(s)
      BY <2>6, <3>2 DEF Elements
    <3> QED BY <3>3, <3>4, <3>5
  <2>10. t \in Seq(Mounts) /\ Sorted(t) /\ Apart(t) /\ Elements(t) = Elements(ms) \cup {m}
    BY <2>2, <2>6, <2>8, <2>9, SortSorts
  <2>11. DOMAIN TableOf(ms) = {e.path : e \in Elements(ms)} /\ \A e \in Elements(ms) : TableOf(ms)[e.path] = e.fs
    BY <2>4, TableEntries
  <2>12. path \notin DOMAIN TableOf(ms) /\ \A n \in DOMAIN TableOf(ms) : TableOf(ms)[n] # fs
    BY <2>3, <2>5, <2>11 DEF Elements
  <2>13. TableOf(t) = [n \in DOMAIN TableOf(ms) \cup {path} |-> IF n = path THEN fs ELSE TableOf(ms)[n]]
    <3>1. m.path \notin DOMAIN TableOf(ms)
      BY <2>4, <2>12
    <3>2. TableOf(t) = Grown(TableOf(ms), m)
      BY <2>4, <2>10, <3>1, TableGrows
    <3> QED BY <3>2, <2>4 DEF Grown
  <2>14. Attached = TableOf(ms) /\ Attached' = TableOf(t)
    BY <2>1, <2>3 DEF Attached, TableOf
  <2>15. Abstract!Attach(path, fs)
    BY <2>3, <2>12, <2>13, <2>14 DEF Abstract!Attach
  <2>16. Abstract!Next
    BY <1>2, <2>15 DEF Abstract!Next
  <2>17. MountInv'
    BY <2>3, <2>10 DEF MountInv
  <2> QED BY <2>16, <2>17
<1> QED BY <1>3, <1>4

LEMMA UnmountStep ==
    ASSUME MountInv, NEW p \in MountAt, unmount(p)
    PROVE  MountInv' /\ [Abstract!Next]_AbstractVars
<1>1. PICK path : path = normalize_path(p)
  OBVIOUS
<1>2. path \in Seq(Names) /\ path \in Normal(MountAt)
  BY <1>1, NormalPaths
<1>3. CASE {i \in DOMAIN mounts : mounts[i].path = path} = {}
  <2>1. UNCHANGED vars
    BY <1>1, <1>3 DEF unmount
  <2> QED BY <2>1 DEF vars, MountInv, AbstractVars, Attached
<1>4. CASE {i \in DOMAIN mounts : mounts[i].path = path} # {}
  <2>1. PICK i \in DOMAIN mounts : /\ mounts[i].path = path
                                   /\ mounts' = RemoveAt(mounts, i)
                                   /\ files' = {f \in files : f[1] # mounts[i].fs}
                                   /\ last' = path
    BY <1>1, <1>4 DEF unmount
  <2>2. PICK ms, t, m : ms = mounts /\ t = RemoveAt(ms, i) /\ m = mounts[i]
    OBVIOUS
  <2>3. ms \in Seq(Mounts) /\ Sorted(ms) /\ Apart(ms) /\ i \in 1 .. Len(ms) /\ m = ms[i] /\ m.path = path
    BY <2>1, <2>2 DEF MountInv
  <2>4. t \in Seq(Mounts) /\ Sorted(t) /\ Apart(t) /\ Elements(t) = Elements(ms) \ {m}
    BY <2>2, <2>3, RemoveKeeps
  <2>5. m \in Elements(ms)
    BY <2>3 DEF Elements
  <2>6. TableOf(t) = [n \in DOMAIN TableOf(ms) \ {path} |-> TableOf(ms)[n]]
    <3>1. TableOf(t) = Shrunk(TableOf(ms), m.path)
      BY <2>3, <2>4, <2>5, TableShrinks
    <3> QED BY <3>1, <2>3 DEF Shrunk
  <2>7. path \in DOMAIN TableOf(ms) /\ TableOf(ms)[path] = m.fs
    BY <2>3, <2>5, TableEntries
  <2>8. Attached = TableOf(ms) /\ Attached' = TableOf(t)
    BY <2>1, <2>2 DEF Attached, TableOf
  <2>9. Abstract!Detach(path)
    BY <2>1, <2>2, <2>6, <2>7, <2>8 DEF Abstract!Detach
  <2>10. Abstract!Next
    BY <1>2, <2>9 DEF Abstract!Next
  <2>11. MountInv'
    BY <2>1, <2>2, <2>4 DEF MountInv
  <2> QED BY <2>10, <2>11
<1> QED BY <1>3, <1>4

LEMMA FileStep ==
    ASSUME MountInv, NEW p \in RawPaths, create(p) \/ remove(p)
    PROVE  MountInv' /\ [Abstract!Next]_AbstractVars
<1>1. PICK path : path = normalize_path(p)
  OBVIOUS
<1>2. path \in Seq(Names) /\ path \in Normal(RawPaths)
  BY <1>1, NormalPaths
<1>3. resolve(path) # 0 /\ mounts' = mounts /\ last' = path
  BY <1>1 DEF create, remove
<1>4. Abstract!Covering(path) # {} /\ Target(path) = Abstract!Place(path)
  BY <1>2, <1>3, ResolveInnermost
<1>5. Attached' = Attached /\ MountInv'
  BY <1>3 DEF Attached, MountInv
<1>6. CASE create(p)
  <2>1. files' = files \cup {Target(path)}
    BY <1>1, <1>6 DEF create
  <2>2. Abstract!Create(path)
    BY <2>1, <1>3, <1>4, <1>5 DEF Abstract!Create
  <2>3. Abstract!Next
    BY <1>2, <2>2 DEF Abstract!Next
  <2> QED BY <2>3, <1>5
<1>7. CASE remove(p)
  <2>1. files' = files \ {Target(path)}
    BY <1>1, <1>7 DEF remove
  <2>2. Abstract!Delete(path)
    BY <2>1, <1>3, <1>4, <1>5 DEF Abstract!Delete
  <2>3. Abstract!Next
    BY <1>2, <2>2 DEF Abstract!Next
  <2> QED BY <2>3, <1>5
<1> QED BY <1>6, <1>7

(* The vector of mounts that Vfs keeps sorted by the length of the strings, and  *)
(* searches from the front by comparing strings, implements the table of mount   *)
(* points: resolve leads every path to the innermost file system above it, for   *)
(* any names (one may begin with another), any mounts and unmounts in any order. *)
THEOREM MountsAreTable == Spec => IsMountTable
<1>1. Init => MountInv /\ Abstract!Init
  <2> SUFFICES ASSUME Init
               PROVE  MountInv /\ Abstract!Init
    OBVIOUS
  <2>1. mounts = <<>> /\ files = {} /\ last = <<>>
    BY DEF Init
  <2>2. MountInv
    BY <2>1 DEF MountInv, Sorted, Apart
  <2>3. Attached = <<>>
    BY <2>1 DEF Attached
  <2> QED BY <2>1, <2>2, <2>3 DEF Abstract!Init
<1>2. MountInv /\ [Next]_vars => MountInv' /\ [Abstract!Next]_AbstractVars
  <2> SUFFICES ASSUME MountInv, [Next]_vars
               PROVE  MountInv' /\ [Abstract!Next]_AbstractVars
    OBVIOUS
  <2>1. CASE UNCHANGED vars
    BY <2>1 DEF vars, MountInv, AbstractVars, Attached
  <2>2. CASE \E p \in MountAt : unmount(p)
    BY <2>2, UnmountStep
  <2>3. CASE \E p \in MountAt : \E fs \in Systems : mount(p, fs)
    BY <2>3, MountStep
  <2>4. CASE \E p \in RawPaths : create(p) \/ remove(p)
    BY <2>4, FileStep
  <2> QED BY <2>1, <2>2, <2>3, <2>4 DEF Next
<1> QED BY <1>1, <1>2, PTL DEF Spec, IsMountTable, Abstract!Spec, AbstractVars

-----------------------------------------------------------------------------
(* Numbers and recursive functions *)

\* What integer division by a positive number yields.
LEMMA DivMod ==
  ASSUME NEW a \in Nat, NEW d \in Nat \ {0}
  PROVE  /\ a \div d \in Nat
         /\ a % d \in 0 .. (d - 1)
         /\ a = (a \div d) * d + (a % d)
         /\ (a \div d) * d \in Nat
  BY SMT

\* A product is monotone in its first factor, strictly so by whole steps.
LEMMA MultMono ==
  ASSUME NEW a \in Nat, NEW b \in Nat, NEW d \in Nat \ {0}, a < b
  PROVE  a * d + d <= b * d
  BY SMT

\* Two numbers with the same quotient and remainder, or ordered by them.
LEMMA DivOrder ==
  ASSUME NEW a \in Nat, NEW b \in Nat, NEW d \in Nat \ {0}
  PROVE  /\ a < b => a \div d <= b \div d
         /\ a \div d < b \div d => a < b
         /\ (a \div d = b \div d /\ a % d < b % d) => a < b
  <1> DEFINE p == a \div d
             q == b \div d
             r == a % d
             s == b % d
  <1>1. /\ p \in Nat /\ q \in Nat /\ r \in 0 .. (d - 1) /\ s \in 0 .. (d - 1)
        /\ a = p * d + r /\ b = q * d + s /\ p * d \in Nat /\ q * d \in Nat
    BY DivMod
  <1> HIDE DEF p, q, r, s
  <1>2. p < q => p * d + d <= q * d
    BY <1>1, MultMono
  <1>3. q < p => q * d + d <= p * d
    BY <1>1, MultMono
  <1>4. p < q => a < b
    BY <1>1, <1>2
  <1>5. q < p => b < a
    BY <1>1, <1>3
  <1>6. p = q /\ r < s => a < b
    BY <1>1
  <1> QED
    BY <1>1, <1>4, <1>5, <1>6 DEF p, q, r, s

\* A number is the one its quotient and remainder say.
LEMMA DivUnique ==
  ASSUME NEW q \in Nat, NEW d \in Nat \ {0}, NEW r \in 0 .. (d - 1)
  PROVE  q * d + r \in Nat /\ (q * d + r) \div d = q /\ (q * d + r) % d = r
  <1> DEFINE a == q * d + r
             p == a \div d
             s == a % d
  <1>1. q * d \in Nat
    BY SMT
  <1>2. a \in Nat
    BY <1>1
  <1>3. p \in Nat /\ s \in 0 .. (d - 1) /\ a = p * d + s /\ p * d \in Nat
    <2> HIDE DEF a
    <2> QED
      BY <1>2, DivMod
  <1>4. a = q * d + r
    OBVIOUS
  <1> HIDE DEF a, p, s
  <1>5. ~(p < q)
    <2> SUFFICES ASSUME p < q PROVE FALSE
      OBVIOUS
    <2>1. p * d + d <= q * d
      BY <1>3, MultMono
    <2> QED
      BY <1>1, <1>3, <1>4, <2>1
  <1>6. ~(q < p)
    <2> SUFFICES ASSUME q < p PROVE FALSE
      OBVIOUS
    <2>1. q * d + d <= p * d
      BY <1>3, MultMono
    <2> QED
      BY <1>1, <1>3, <1>4, <2>1
  <1>7. p = q
    BY <1>3, <1>5, <1>6
  <1>8. s = r
    BY <1>1, <1>3, <1>4, <1>7
  <1> QED
    BY <1>2, <1>7, <1>8 DEF a, p, s

\* The smaller of two numbers.
LEMMA MinOfTwo ==
  ASSUME NEW a \in Nat, NEW b \in Nat
  PROVE  Min({a, b}) = IF a <= b THEN a ELSE b
  <1> DEFINE m == IF a <= b THEN a ELSE b
  <1>1. m \in {a, b} /\ \A y \in {a, b} : m <= y
    OBVIOUS
  <1>2. ASSUME NEW x \in {a, b}, \A y \in {a, b} : x <= y PROVE x = m
    BY <1>2
  <1>3. Min({a, b}) \in {a, b} /\ \A y \in {a, b} : Min({a, b}) <= y
    BY <1>1 DEF Min
  <1> QED
    BY <1>2, <1>3

\* g is the function that starts with base and makes its value at i from the one before.
IsIteration(g, n, A, base, step) ==
  /\ g \in [0 .. n -> A]
  /\ g[0] = base
  /\ \A i \in 1 .. n : g[i] = step[i][g[i - 1]]

\* There is such a function.
LEMMA IterationExists ==
  ASSUME NEW n \in Nat, NEW A, NEW base \in A, NEW step, \A i \in 1 .. n : step[i] \in [A -> A]
  PROVE  \E g : IsIteration(g, n, A, base, step)
  <1> DEFINE T == {k \in 0 .. n : ~\E g : IsIteration(g, k, A, base, step)}
  <1> SUFFICES ASSUME T # {} PROVE FALSE
    OBVIOUS
  <1>1. PICK k \in T : \A j \in T : k <= j
    <2>1. T \subseteq Nat
      OBVIOUS
    <2> HIDE DEF T
    <2> QED
      BY <2>1, LeastNumber
  <1>2. CASE k = 0
    <2>1. PICK g : g = [i \in 0 .. 0 |-> base]
      OBVIOUS
    <2>2. IsIteration(g, 0, A, base, step)
      BY <2>1 DEF IsIteration
    <2> QED
      BY <1>1, <1>2, <2>2
  <1>3. CASE k # 0
    <2>1. k - 1 \in 0 .. n /\ k - 1 \notin T /\ k \in 1 .. n
      BY <1>1, <1>3
    <2>2. PICK g : IsIteration(g, k - 1, A, base, step)
      BY <2>1
    <2> DEFINE h == [i \in 0 .. k |-> IF i = k THEN step[k][g[k - 1]] ELSE g[i]]
    <2>3. g[k - 1] \in A /\ \A i \in 0 .. (k - 1) : g[i] \in A
      BY <2>1, <2>2 DEF IsIteration
    <2>4. step[k][g[k - 1]] \in A
      BY <2>1, <2>3
    <2>5. h \in [0 .. k -> A]
      BY <2>1, <2>3, <2>4
    <2>6. h[0] = base
      BY <1>3, <2>1, <2>2 DEF IsIteration
    <2>7. ASSUME NEW i \in 1 .. k PROVE h[i] = step[i][h[i - 1]]
      <3>1. i - 1 \in 0 .. k /\ i - 1 # k /\ h[i - 1] = g[i - 1]
        BY <2>1
      <3>2. CASE i = k
        BY <3>1, <3>2
      <3>3. CASE i # k
        <4>1. i \in 1 .. (k - 1) /\ h[i] = g[i]
          BY <2>1, <3>3
        <4> QED
          BY <2>2, <3>1, <4>1 DEF IsIteration
      <3> QED
        BY <3>2, <3>3
    <2> HIDE DEF h
    <2>8. IsIteration(h, k, A, base, step)
      BY <2>5, <2>6, <2>7 DEF IsIteration
    <2> QED
      BY <1>1, <2>8
  <1> QED
    BY <1>2, <1>3

-----------------------------------------------------------------------------
(* The block layer: the partition that is mounted *)

\* The records the loop of the parsers goes over.
Found(X) == [used : BOOLEAN, info : X]

\* What the loop of the parsers has found: nothing, or first the first entry in use.
FirstOf(es, k, found) ==
  \/ found = <<>> /\ \A j \in 1 .. k : ~es[j].used
  \/ \E i \in 1 .. k : /\ es[i].used /\ \A j \in 1 .. (i - 1) : ~es[j].used
                       /\ found # <<>> /\ Head(found) = es[i].info

LEMMA InUseFirst ==
  ASSUME NEW X, NEW es \in Seq(Found(X))
  PROVE  FirstOf(es, Len(es), InUse(es))
  <1> DEFINE n == Len(es)
             A == Seq(X)
             step == [i \in 1 .. n |->
                       [a \in A |-> IF es[i].used THEN Append(a, es[i].info) ELSE a]]
             Is(f) == f = [i \in 0 .. n |->
                             IF i = 0 THEN <<>>
                             ELSE IF es[i].used THEN Append(f[i - 1], es[i].info)
                             ELSE f[i - 1]]
             found == CHOOSE f : Is(f)
  <1>1. n \in Nat /\ <<>> \in A /\ \A i \in 1 .. n : es[i] \in Found(X)
    BY ElementOfSeq, LenProperties
  <1>2. \A i \in 1 .. n : es[i].info \in X /\ es[i].used \in BOOLEAN
    BY <1>1 DEF Found
  <1>3. \A i \in 1 .. n : step[i] \in [A -> A]
    BY <1>2, AppendProperties
  <1>4. PICK g : IsIteration(g, n, A, <<>>, step)
    BY <1>1, <1>3, IterationExists
  <1>5. g \in [0 .. n -> A] /\ g[0] = <<>>
    BY <1>4 DEF IsIteration
  <1>6. ASSUME NEW i \in 1 .. n
        PROVE  g[i] = IF es[i].used THEN Append(g[i - 1], es[i].info) ELSE g[i - 1]
    <2>1. g[i] = step[i][g[i - 1]] /\ i - 1 \in 0 .. n
      BY <1>1, <1>4 DEF IsIteration
    <2>2. g[i - 1] \in A
      BY <1>5, <2>1
    <2> QED
      BY <2>1, <2>2
  <1>7. Is(g)
    <2>1. ASSUME NEW i \in 0 .. n
          PROVE  g[i] = IF i = 0 THEN <<>>
                        ELSE IF es[i].used THEN Append(g[i - 1], es[i].info)
                        ELSE g[i - 1]
      <3>1. CASE i = 0
        BY <1>5, <3>1
      <3>2. CASE i # 0
        <4>1. i \in 1 .. n
          BY <1>1, <3>2
        <4> QED
          BY <1>6, <3>2, <4>1
      <3> QED
        BY <3>1, <3>2
    <2>2. g = [i \in 0 .. n |-> g[i]]
      BY <1>5
    <2> QED
      BY <2>1, <2>2
  <1>8. Is(found)
    <2> HIDE DEF Is
    <2> QED
      BY <1>7
  <1>9. InUse(es) = found[n]
    BY DEF InUse
  <1> HIDE DEF found, step
  <1>10. found[0] = <<>>
    BY <1>1, <1>8
  <1>11. ASSUME NEW i \in 1 .. n
         PROVE  found[i] = IF es[i].used THEN Append(found[i - 1], es[i].info)
                           ELSE found[i - 1]
    <2>1. i \in 0 .. n /\ i # 0
      BY <1>1
    <2> QED
      BY <1>8, <2>1, Zenon
  <1> HIDE DEF Is
  <1> DEFINE Good(k) == found[k] \in A /\ FirstOf(es, k, found[k])
             T == {k \in 0 .. n : ~Good(k)}
  <1>12. Good(0)
    BY <1>1, <1>10 DEF FirstOf
  <1>13. ASSUME NEW k \in 1 .. n, Good(k - 1) PROVE Good(k)
    <2>1. found[k - 1] \in A /\ k \in Nat
      BY <1>13
    <2>2. FirstOf(es, k - 1, found[k - 1])
      BY <1>13
    <2>3. CASE ~es[k].used
      <3>1. found[k] = found[k - 1]
        BY <1>11, <2>3
      <3>2. \A j \in 1 .. k : j \in 1 .. (k - 1) \/ j = k
        OBVIOUS
      <3>3. \A j \in 1 .. (k - 1) : j \in 1 .. k
        OBVIOUS
      <3> QED
        BY <2>1, <2>2, <2>3, <3>1, <3>2, <3>3 DEF FirstOf
    <2>4. CASE es[k].used
      <3>1. found[k] = Append(found[k - 1], es[k].info)
        BY <1>11, <2>4
      <3>2. /\ found[k] \in A /\ found[k] # <<>>
            /\ found[k - 1] = <<>> => Head(found[k]) = es[k].info
            /\ found[k - 1] # <<>> => Head(found[k]) = Head(found[k - 1])
        <4>1. es[k].info \in X
          BY <1>2
        <4> HIDE DEF A
        <4>2. PICK a \in Seq(X) : a = found[k - 1]
          BY <2>1 DEF A
        <4>3. PICK x \in X : x = es[k].info
          BY <4>1
        <4>4. found[k] = Append(a, x)
          BY <3>1, <4>2, <4>3
        <4>5. /\ Append(a, x) \in Seq(X) /\ Len(Append(a, x)) = Len(a) + 1
              /\ \A i \in 1 .. Len(a) : Append(a, x)[i] = a[i]
              /\ Append(a, x)[Len(a) + 1] = x
          BY AppendProperties
        <4>6. Len(a) \in Nat /\ (a # <<>> => Len(a) # 0) /\ (a = <<>> => Len(a) = 0)
          BY LenProperties, EmptySeq
        <4>7. Append(a, x) # <<>> /\ Head(Append(a, x)) = Append(a, x)[1]
          BY <4>5, <4>6, HeadTailProperties
        <4>8. a # <<>> => Head(a) = a[1]
          BY <4>6
        <4> QED
          BY <4>2, <4>3, <4>4, <4>5, <4>6, <4>7, <4>8 DEF A
      <3>3. CASE found[k - 1] = <<>> /\ \A j \in 1 .. (k - 1) : ~es[j].used
        BY <2>1, <2>4, <3>2, <3>3 DEF FirstOf
      <3>4. CASE \E i \in 1 .. (k - 1) : /\ es[i].used /\ \A j \in 1 .. (i - 1) : ~es[j].used
                             /\ found[k - 1] # <<>> /\ Head(found[k - 1]) = es[i].info
        <4>1. PICK i \in 1 .. (k - 1) : /\ es[i].used /\ \A j \in 1 .. (i - 1) : ~es[j].used
                             /\ found[k - 1] # <<>> /\ Head(found[k - 1]) = es[i].info
          BY <3>4
        <4>2. i \in 1 .. k
          BY <2>1
        <4> QED
          BY <3>2, <4>1, <4>2 DEF FirstOf
      <3> QED
        BY <2>2, <3>3, <3>4 DEF FirstOf
    <2> QED
      BY <2>3, <2>4
  <1>14. T = {}
    <2> SUFFICES ASSUME T # {} PROVE FALSE
      OBVIOUS
    <2>1. PICK k \in T : \A j \in T : k <= j
      <3>1. T \subseteq Nat
        BY <1>1
      <3> HIDE DEF T
      <3> QED
        BY <3>1, LeastNumber
    <2>2. k # 0 /\ k \in 0 .. n
      BY <1>12, <2>1
    <2>3. k \in 1 .. n /\ k - 1 \in 0 .. n /\ ~(k <= k - 1)
      BY <1>1, <2>2
    <2>4. Good(k - 1)
      BY <2>1, <2>3
    <2> QED
      BY <1>13, <2>1, <2>3, <2>4
  <1>15. Good(n)
    BY <1>1, <1>14
  <1> QED
    BY <1>9, <1>15

\* The sectors a partition reaches, when it ends on the disk.
LEMMA Reached ==
  ASSUME NEW start \in Nat, NEW count \in Nat, start + count <= LastSector + 1
  PROVE  {start + lba : lba \in {l \in Sectors : l < count}} \cap Sectors
           = start .. (start + count - 1)
  <1> DEFINE L == {start + lba : lba \in {l \in Sectors : l < count}} \cap Sectors
             R == start .. (start + count - 1)
  <1>1. ASSUME NEW x \in L PROVE x \in R
    BY DiskAssumption DEF Sectors
  <1>2. ASSUME NEW x \in R PROVE x \in L
    <2>1. x - start \in Sectors /\ x - start < count /\ x \in Sectors
      BY DiskAssumption DEF Sectors
    <2>2. start + (x - start) = x
      OBVIOUS
    <2> QED
      BY <2>1, <2>2
  <1> QED
    BY <1>1, <1>2

\* What the partition table of the disk is assumed to be.
LEMMA MbrExact ==
  ASSUME NEW l \in Labels, parse_mbr(l.mbr) # <<>>
  PROVE  LET used == {j \in DOMAIN l.mbr : l.mbr[j].ptype \notin {"empty", "gpt"}}
             e == l.mbr[CHOOSE j \in used : \A k \in used : j <= k]
         IN  /\ Head(parse_mbr(l.mbr)) = Info(e.start, e.count)
             /\ e.start \in Nat /\ e.count \in Nat /\ e.start + e.count <= LastSector + 1
  <1> DEFINE m == l.mbr
             n == Len(m)
             Inf == [start_lba : Nat, sector_count : Nat]
             es == [i \in 1 .. n |-> [used |-> m[i].ptype \notin {"empty", "gpt"},
                                      info |-> Info(m[i].start, m[i].count)]]
             used == {j \in DOMAIN m : m[j].ptype \notin {"empty", "gpt"}}
             first == CHOOSE j \in used : \A k \in used : j <= k
  <1>1. m \in Seq([ptype : STRING, start : Nat, count : Nat])
    BY LabelAssumption
  <1>2. n \in Nat /\ DOMAIN m = 1 .. n
        /\ \A i \in 1 .. n : m[i].start \in Nat /\ m[i].count \in Nat
    <2>1. \A i \in 1 .. n : m[i] \in [ptype : STRING, start : Nat, count : Nat]
      BY <1>1, ElementOfSeq, LenProperties
    <2> QED
      BY <1>1, <2>1, LenProperties
  <1>3. \A i \in 1 .. n : i \in used => m[i].start + m[i].count <= LastSector + 1
    BY <1>2, LabelAssumption
  <1> HIDE DEF m, n
  <1>4. es \in Seq(Found(Inf)) /\ Len(es) = n
    <2>1. \A i \in 1 .. n : es[i] \in Found(Inf)
      BY <1>2 DEF Found, Info
    <2>2. es \in [1 .. n -> Found(Inf)]
      BY <2>1
    <2> HIDE DEF es, Inf
    <2> QED
      BY <1>2, <2>2, IsASeq, LenProperties
  <1>5. \A i \in 1 .. n : es[i].used = (m[i].ptype \notin {"empty", "gpt"})
                          /\ es[i].info = Info(m[i].start, m[i].count)
    OBVIOUS
  <1>6. parse_mbr(m) = InUse(es)
    BY DEF parse_mbr, n
  <1> HIDE DEF es, Inf
  <1>7. FirstOf(es, n, InUse(es))
    BY <1>4, InUseFirst
  <1>8. PICK i \in 1 .. n : /\ es[i].used /\ \A j \in 1 .. (i - 1) : ~es[j].used
                            /\ Head(InUse(es)) = es[i].info
    BY <1>6, <1>7 DEF FirstOf, m
  <1>9. first = i
    <2>1. i \in used /\ \A k \in used : i <= k
      <3>1. i \in used
        BY <1>2, <1>5, <1>8
      <3>2. ASSUME NEW k \in used, ~(i <= k) PROVE FALSE
        <4>1. k \in 1 .. n /\ m[k].ptype \notin {"empty", "gpt"}
          BY <1>2
        <4>2. k \in 1 .. (i - 1)
          BY <1>2, <3>2, <4>1
        <4>3. es[k].used
          BY <1>5, <4>1
        <4> QED
          BY <1>8, <4>2, <4>3
      <3> QED
        BY <3>1, <3>2
    <2>2. \A x \in used : (\A k \in used : x <= k) => x = i
      <3>1. \A x \in used : x \in Nat
        BY <1>2
      <3> HIDE DEF used
      <3> QED
        BY <2>1, <3>1
    <2> HIDE DEF used
    <2> QED
      BY <2>1, <2>2
  <1>10. i \in used
    BY <1>2, <1>5, <1>8
  <1> HIDE DEF first, used
  <1>11. Head(parse_mbr(m)) = Info(m[first].start, m[first].count)
    BY <1>5, <1>6, <1>8, <1>9
  <1>12. /\ m[first].start \in Nat /\ m[first].count \in Nat
         /\ m[first].start + m[first].count <= LastSector + 1
    BY <1>2, <1>3, <1>9, <1>10
  <1> QED
    BY <1>11, <1>12 DEF m, first, used

\* The same of a GPT: the loop over entry numbers finds the first entry of the array.
LEMMA GptExact ==
  ASSUME NEW l \in Labels, parse_gpt(l.gpt) # <<>>
  PROVE  LET s == l.gpt.sectors
             used == {p \in (DOMAIN s) \X (1 .. l.gpt.per_sector) : s[p[1]][p[2]].used}
             first == CHOOSE p \in used : \A q \in used : ~Before(q, p)
             e == s[first[1]][first[2]]
         IN  /\ Head(parse_gpt(l.gpt)) = Info(e.start, e.last - e.start + 1)
             /\ e.start \in Nat /\ e.last \in Nat /\ e.start <= e.last /\ e.last <= LastSector
  <1> DEFINE g == l.gpt
             s == g.sectors
             per == g.per_sector
             m == Min({g.num_entries, MaxEntries})
             Inf == [start_lba : Nat, sector_count : Nat]
             Of(e) == [used |-> e.used, info |-> Info(e.start, (e.last - e.start + 1) % U32)]
             es == [i \in 1 .. m |-> Of(GptEntry(g, i - 1))]
             used == {p \in (DOMAIN s) \X (1 .. per) : s[p[1]][p[2]].used}
             first == CHOOSE p \in used : \A q \in used : ~Before(q, p)
             Ent == [used : BOOLEAN, start : Nat, last : Nat]
  <1>1. /\ g.num_entries \in Nat /\ per \in Nat \ {0} /\ s \in Seq(Seq(Ent))
        /\ \A i \in DOMAIN s : /\ Len(s[i]) = per
                               /\ \A j \in DOMAIN s[i] :
                                    s[i][j].used => /\ s[i][j].start <= s[i][j].last
                                                    /\ s[i][j].last <= LastSector
        /\ g.num_entries <= per * Len(s) \/ MaxEntries <= per * Len(s)
    BY LabelAssumption
  <1>2. m \in Nat /\ m <= per * Len(s) /\ Len(s) \in Nat /\ DOMAIN s = 1 .. Len(s)
    <2>1. m = IF g.num_entries <= MaxEntries THEN g.num_entries ELSE MaxEntries
      BY <1>1, BlockAssumption, MinOfTwo
    <2>2. Len(s) \in Nat /\ DOMAIN s = 1 .. Len(s)
      BY <1>1, LenProperties
    <2>3. per * Len(s) \in Nat
      BY <1>1, <2>2
    <2> HIDE DEF m, s, per, g
    <2> QED
      BY <1>1, <2>1, <2>2, <2>3, BlockAssumption
  <1>3. \A a \in 1 .. Len(s) : \A b \in 1 .. per :
          /\ s[a][b] \in Ent
          /\ s[a][b].used => s[a][b].start <= s[a][b].last /\ s[a][b].last <= LastSector
    <2> SUFFICES ASSUME NEW a \in 1 .. Len(s), NEW b \in 1 .. per
                 PROVE  /\ s[a][b] \in Ent
                        /\ s[a][b].used => s[a][b].start <= s[a][b].last /\ s[a][b].last <= LastSector
      OBVIOUS
    <2> HIDE DEF s, per, g, Ent, m
    <2>0. s[a] \in Seq(Ent) /\ Len(s[a]) = per
      BY <1>1, <1>2
    <2>1. DOMAIN s[a] = 1 .. per /\ s[a] \in Seq(Ent) /\ Len(s[a]) = per
      BY <2>0, LenProperties
    <2>2. s[a][b] \in Ent
      BY <2>1, ElementOfSeq
    <2> QED
      BY <1>1, <1>2, <2>1, <2>2
  <1> HIDE DEF m, s, per
  \* Where an entry number is, and which number an entry has.
  <1>4. ASSUME NEW i \in 1 .. m
        PROVE  /\ (i - 1) \div per + 1 \in 1 .. Len(s) /\ ((i - 1) % per) + 1 \in 1 .. per
               /\ GptEntry(g, i - 1) = s[(i - 1) \div per + 1][((i - 1) % per) + 1]
    <2> DEFINE a == i - 1
               q == a \div per
               r == a % per
    <2>1. a \in Nat /\ a < m
      BY <1>2
    <2>2. q \in Nat /\ r \in 0 .. (per - 1) /\ a = q * per + r /\ q * per \in Nat
      <3> HIDE DEF a
      <3> QED
        BY <1>1, <2>1, DivMod
    <2>3. GptEntry(g, a) = s[q + 1][r + 1]
      BY DEF GptEntry, s, per
    <2> HIDE DEF a, q, r
    <2>4. q < Len(s)
      <3> SUFFICES ASSUME ~(q < Len(s)) PROVE FALSE
        OBVIOUS
      <3>1. Len(s) * per <= q * per
        <4>1. CASE q = Len(s)
          BY <1>1, <1>2, <2>2, <4>1
        <4>2. CASE Len(s) < q
          <5>1. Len(s) * per + per <= q * per
            BY <1>1, <1>2, <2>2, <4>2, MultMono
          <5>2. Len(s) * per \in Nat
            BY <1>1, <1>2
          <5> QED
            BY <1>1, <2>2, <5>1, <5>2
        <4>3. Len(s) \in Nat /\ q \in Nat
          BY <1>2, <2>2
        <4>4. q = Len(s) \/ Len(s) < q
          BY <4>3
        <4> QED
          BY <4>1, <4>2, <4>4
      <3>2. Len(s) * per = per * Len(s) /\ per * Len(s) \in Nat
        BY <1>1, <1>2
      <3> QED
        BY <1>2, <2>1, <2>2, <3>1, <3>2
    <2>5. q + 1 \in 1 .. Len(s) /\ r + 1 \in 1 .. per
      BY <1>1, <1>2, <2>2, <2>4
    <2> QED
      BY <2>3, <2>5 DEF a, q, r
  <1>5. ASSUME NEW a \in 1 .. Len(s), NEW b \in 1 .. per
        PROVE  /\ (a - 1) * per + (b - 1) \in Nat
               /\ ((a - 1) * per + (b - 1)) \div per = a - 1
               /\ ((a - 1) * per + (b - 1)) % per = b - 1
    <2>1. a - 1 \in Nat /\ b - 1 \in 0 .. (per - 1)
      BY <1>1, <1>2
    <2> QED
      BY <1>1, <2>1, DivUnique
  <1>6. es \in Seq(Found(Inf)) /\ Len(es) = m
    <2>1. ASSUME NEW i \in 1 .. m PROVE es[i] \in Found(Inf)
      <3>1. GptEntry(g, i - 1) \in Ent
        BY <1>3, <1>4
      <3>2. PICK e \in Ent : e = GptEntry(g, i - 1)
        BY <3>1
      <3>3. e.last - e.start + 1 \in Int /\ U32 \in Nat \ {0}
        BY BlockAssumption, DiskAssumption
      <3>4. (e.last - e.start + 1) % U32 \in Nat
        BY <3>3
      <3>5. Of(e) \in Found(Inf)
        BY <3>4 DEF Found, Info
      <3> QED
        BY <3>2, <3>5
    <2>2. es \in [1 .. m -> Found(Inf)]
      <3>1. es = [i \in 1 .. m |-> es[i]]
        OBVIOUS
      <3> HIDE DEF es, Inf
      <3> QED
        BY <2>1, <3>1
    <2> HIDE DEF es, Inf
    <2> QED
      BY <1>2, <2>2, LenProperties
  <1>7. \A i \in 1 .. m : es[i] = Of(GptEntry(g, i - 1))
    OBVIOUS
  <1>8. parse_gpt(g) = InUse(es)
    BY DEF parse_gpt, m
  <1> HIDE DEF es, Inf, g
  <1>9. FirstOf(es, m, InUse(es))
    BY <1>6, InUseFirst
  <1>10. PICK i \in 1 .. m : /\ es[i].used /\ \A j \in 1 .. (i - 1) : ~es[j].used
                             /\ Head(InUse(es)) = es[i].info
    BY <1>8, <1>9 DEF FirstOf, g
  <1> DEFINE pa == (i - 1) \div per + 1
             pb == ((i - 1) % per) + 1
             p == <<pa, pb>>
  <1>11. /\ pa \in 1 .. Len(s) /\ pb \in 1 .. per
         /\ es[i] = Of(s[pa][pb]) /\ s[pa][pb].used
    BY <1>4, <1>7, <1>10
  <1>12. p \in used
    <2> HIDE DEF pa, pb
    <2> QED
      BY <1>2, <1>11
  <1>13. ASSUME NEW q \in used PROVE ~Before(q, p)
    <2> SUFFICES ASSUME Before(q, p) PROVE FALSE
      OBVIOUS
    <2>1. PICK a \in 1 .. Len(s), b \in 1 .. per : q = <<a, b>> /\ s[a][b].used
      BY <1>2
    <2>2. a < pa \/ (a = pa /\ b < pb)
      BY <2>1 DEF Before
    <2> DEFINE j == (a - 1) * per + (b - 1)
    <2>3. j \in Nat /\ j \div per = a - 1 /\ j % per = b - 1
      BY <1>5
    <2>4. (i - 1) \in Nat /\ (i - 1) \div per = pa - 1 /\ (i - 1) % per = pb - 1
      <3>1. i - 1 \in Nat /\ per \in Nat \ {0}
        BY <1>1, <1>2
      <3>2. (i - 1) \div per \in Nat /\ (i - 1) % per \in 0 .. (per - 1)
        BY <3>1, DivMod
      <3> QED
        BY <3>1, <3>2
    <2> HIDE DEF j, pa, pb
    <2>5. j < i - 1
      <3>1. j \div per < (i - 1) \div per \/ (j \div per = (i - 1) \div per /\ j % per < (i - 1) % per)
        <4>1. a \in Int /\ b \in Int /\ pa \in Int /\ pb \in Int
          BY <1>11
        <4>2. a - 1 < pa - 1 \/ (a - 1 = pa - 1 /\ b - 1 < pb - 1)
          BY <2>2, <4>1
        <4> QED
          BY <2>3, <2>4, <4>2
      <3> QED
        BY <1>1, <2>3, <2>4, <3>1, DivOrder
    <2>6. j + 1 \in 1 .. (i - 1) /\ j + 1 \in 1 .. m /\ (j + 1) - 1 = j
      BY <1>2, <2>3, <2>5
    <2>7. GptEntry(g, j) = s[a][b]
      <3>1. GptEntry(g, (j + 1) - 1) = s[((j + 1) - 1) \div per + 1][(((j + 1) - 1) % per) + 1]
        BY <1>4, <2>6
      <3>2. (a - 1) + 1 = a /\ (b - 1) + 1 = b
        BY <1>1, <1>2
      <3> QED
        BY <2>3, <2>6, <3>1, <3>2
    <2>8. es[j + 1] = Of(s[a][b])
      BY <1>7, <2>6, <2>7
    <2> QED
      BY <1>10, <2>1, <2>6, <2>8
  <1>14. ASSUME NEW q \in used, \A r \in used : ~Before(r, q) PROVE q = p
    <2>1. PICK a \in 1 .. Len(s), b \in 1 .. per : q = <<a, b>>
      BY <1>2
    <2>2. ~Before(q, p) /\ ~Before(p, q)
      BY <1>12, <1>13, <1>14
    <2> HIDE DEF pa, pb
    <2>3. a = pa /\ b = pb
      BY <1>1, <1>2, <1>11, <2>1, <2>2 DEF Before
    <2> QED
      BY <2>1, <2>3
  <1>15. first = p
    <2> HIDE DEF used, p
    <2> QED
      BY <1>12, <1>13, <1>14
  <1> DEFINE e == s[pa][pb]
  <1>16. e \in Ent /\ e.used /\ e.start <= e.last /\ e.last <= LastSector
    BY <1>3, <1>11
  <1> HIDE DEF first, pa, pb, used
  <1>17. first[1] = pa /\ first[2] = pb
    BY <1>15
  <1>18. Head(parse_gpt(g)) = Info(e.start, (e.last - e.start + 1) % U32)
    BY <1>8, <1>10, <1>11
  <1> HIDE DEF e
  <1>19. e.start \in Nat /\ e.last \in Nat /\ (e.last - e.start + 1) % U32 = e.last - e.start + 1
    BY <1>16, BlockAssumption, DiskAssumption
  <1>20. s[first[1]][first[2]] = e
    BY <1>17 DEF e
  <1> QED
    BY <1>16, <1>18, <1>19, <1>20 DEF first, used, s, g, per

\* The partition that is mounted is the first one the parser found.
PartInv ==
  /\ label \in Labels
  /\ part # None => /\ parse_partitions(label) # <<>>
                    /\ part = Head(parse_partitions(label))

\* That is the whole first partition of the table, and nothing else.
LEMMA PartExact == PartInv => PartitionExact
  <1> SUFFICES ASSUME PartInv, part # None
               PROVE  {part.start_lba + lba : lba \in {l \in Sectors : InPartition(l)}}
                        \cap Sectors = FirstRegion
    BY DEF PartitionExact
  <1>1. {part.start_lba + lba : lba \in {l \in Sectors : InPartition(l)}} \cap Sectors
          = {part.start_lba + lba : lba \in {l \in Sectors : l < part.sector_count}} \cap Sectors
    BY DEF InPartition
  <1>2. /\ label \in Labels /\ parse_partitions(label) # <<>>
        /\ part = Head(parse_partitions(label))
    BY DEF PartInv
  <1>3. CASE label.mbr[1].ptype = "gpt"
    <2> DEFINE s == label.gpt.sectors
               used == {p \in (DOMAIN s) \X (1 .. label.gpt.per_sector) : s[p[1]][p[2]].used}
               first == CHOOSE p \in used : \A q \in used : ~Before(q, p)
               e == s[first[1]][first[2]]
    <2>1. parse_partitions(label) = parse_gpt(label.gpt)
      BY <1>3 DEF parse_partitions
    <2>2. /\ part = Info(e.start, e.last - e.start + 1)
          /\ e.start \in Nat /\ e.last \in Nat /\ e.start <= e.last /\ e.last <= LastSector
      BY <1>2, <2>1, GptExact
    <2>3. FirstRegion = e.start .. e.last
      BY <1>3 DEF FirstRegion
    <2> HIDE DEF e
    <2>4. part.start_lba = e.start /\ part.sector_count = e.last - e.start + 1
      BY <2>2 DEF Info
    <2>5. /\ e.last - e.start + 1 \in Nat
          /\ e.start + (e.last - e.start + 1) <= LastSector + 1
          /\ e.start + (e.last - e.start + 1) - 1 = e.last
      BY <2>2, DiskAssumption
    <2>6. /\ part.start_lba \in Nat /\ part.sector_count \in Nat
          /\ part.start_lba + part.sector_count <= LastSector + 1
      BY <2>2, <2>4, <2>5
    <2>7. {part.start_lba + lba : lba \in {l \in Sectors : l < part.sector_count}} \cap Sectors
            = part.start_lba .. (part.start_lba + part.sector_count - 1)
      BY <2>6, Reached
    <2> QED
      BY <1>1, <2>3, <2>4, <2>5, <2>7
  <1>4. CASE label.mbr[1].ptype # "gpt"
    <2> DEFINE used == {j \in DOMAIN label.mbr : label.mbr[j].ptype \notin {"empty", "gpt"}}
               e == label.mbr[CHOOSE j \in used : \A k \in used : j <= k]
    <2>1. parse_partitions(label) = parse_mbr(label.mbr)
      BY <1>4 DEF parse_partitions
    <2>2. /\ part = Info(e.start, e.count)
          /\ e.start \in Nat /\ e.count \in Nat /\ e.start + e.count <= LastSector + 1
      BY <1>2, <2>1, MbrExact
    <2>3. FirstRegion = e.start .. (e.start + e.count - 1)
      BY <1>4 DEF FirstRegion
    <2> HIDE DEF e
    <2>4. part.start_lba = e.start /\ part.sector_count = e.count
      BY <2>2 DEF Info
    <2>5. /\ part.start_lba \in Nat /\ part.sector_count \in Nat
          /\ part.start_lba + part.sector_count <= LastSector + 1
      BY <2>2, <2>4
    <2>6. {part.start_lba + lba : lba \in {l \in Sectors : l < part.sector_count}} \cap Sectors
            = part.start_lba .. (part.start_lba + part.sector_count - 1)
      BY <2>5, Reached
    <2> QED
      BY <1>1, <2>3, <2>4, <2>6
  <1> QED
    BY <1>3, <1>4

LEMMA PartStep == PartInv /\ [BlockNext]_block_vars => PartInv'
  <1> SUFFICES ASSUME PartInv, [BlockNext]_block_vars PROVE PartInv'
    OBVIOUS
  <1>1. CASE mount_fat32
    BY <1>1 DEF mount_fat32, PartInv
  <1>2. CASE UNCHANGED <<label, part>>
    BY <1>2 DEF PartInv
  <1>3. mount_fat32 \/ UNCHANGED <<label, part>>
    BY DEF BlockNext, block_vars, register_device, unregister_device, partition_write, dev_open,
           dev_close, dev_read, write_prepare, write_back, write_fails, dev_seek
  <1> QED
    BY <1>1, <1>2, <1>3

(***************************************************************************)
(* The file system is mounted on exactly the first partition of the table, *)
(* for every MBR and GPT whose partitions lie on the disk: the index and   *)
(* count arithmetic of the parsers is right.                               *)
(***************************************************************************)
THEOREM PartitionIsExact == BlockSpec => []PartitionExact
  <1>1. BlockInit => PartInv
    BY DEF BlockInit, PartInv
  <1> QED
    BY <1>1, PartStep, PartExact, PTL DEF BlockSpec

-----------------------------------------------------------------------------
(* The block layer: writes through /dev *)

\* The write a task has prepared: the sector at its position with the new bytes in it.
Prepared(t) ==
  LET p == pending[t]
      first == BlockOffset(position[t])
  IN  /\ position[t] \in 0 .. MaxPosition
      /\ p.buf \in Seq(Bytes)
      /\ p.len = Min({Len(p.buf), SECTOR_SIZE - first})
      /\ p.sector = BlockNum(position[t])
      /\ ~raced /\ p.sector \in Sectors =>
           \A o \in Offsets :
             p.content[o] = IF o \in first .. (first + p.len - 1)
                            THEN p.buf[o - first + 1] ELSE sectors[p.sector][o]

\* Whoever has prepared a write holds DevFs.devices.
WriteInv ==
  /\ position \in [Tasks -> (0 .. MaxPosition) \cup {None}]
  /\ pending = [t \in Tasks |-> pending[t]]
  /\ sectors = [s \in Sectors |-> sectors[s]]
  /\ \A t \in Tasks : pending[t] # None => devices = t /\ Prepared(t)

\* Where a position lies, for one the handle may have.
LEMMA PositionBounds ==
  ASSUME NEW pos \in 0 .. MaxPosition
  PROVE  /\ BlockNum(pos) \in Nat /\ BlockOffset(pos) \in Offsets
         /\ pos = BlockNum(pos) * SECTOR_SIZE + BlockOffset(pos)
         /\ BlockNum(pos) = pos \div SECTOR_SIZE
  <1> DEFINE q == pos \div SECTOR_SIZE
             r == pos % SECTOR_SIZE
  <1>1. /\ q \in Nat /\ r \in 0 .. (SECTOR_SIZE - 1) /\ pos = q * SECTOR_SIZE + r
        /\ q * SECTOR_SIZE \in Nat
    <2>1. pos \in Nat /\ SECTOR_SIZE \in Nat \ {0}
      BY BlockAssumption
    <2> QED
      BY <2>1, DivMod
  <1>2. BlockNum(pos) = q % U32 /\ BlockOffset(pos) = r
    BY DEF BlockNum, BlockOffset
  <1> HIDE DEF q, r
  <1>3. q < U32
    <2> SUFFICES ASSUME ~(q < U32) PROVE FALSE
      OBVIOUS
    <2>1. U32 \in Nat /\ SECTOR_SIZE \in Nat \ {0} /\ SECTOR_SIZE * U32 = U32 * SECTOR_SIZE
          /\ U32 * SECTOR_SIZE \in Nat
      BY BlockAssumption
    <2>2. U32 * SECTOR_SIZE <= q * SECTOR_SIZE
      <3>1. CASE q = U32
        BY <2>1, <3>1
      <3>2. CASE U32 < q
        <4>1. U32 * SECTOR_SIZE + SECTOR_SIZE <= q * SECTOR_SIZE
          BY <1>1, <2>1, <3>2, MultMono
        <4> QED
          BY <1>1, <2>1, <4>1
      <3> QED
        BY <1>1, <2>1, <3>1, <3>2
    <2>3. pos < SECTOR_SIZE * U32
      BY BlockAssumption
    <2> QED
      BY <1>1, <2>1, <2>2, <2>3
  <1>4. U32 \in Nat \ {0}
    BY BlockAssumption, DiskAssumption
  <1>5. q % U32 = q
    BY <1>1, <1>3, <1>4
  <1> QED
    BY <1>1, <1>2, <1>5 DEF Offsets, q

\* Some of the sector is left at any position.
LEMMA OffsetInside ==
  ASSUME NEW pos \in 0 .. MaxPosition
  PROVE  SECTOR_SIZE - BlockOffset(pos) \in Nat
  <1>1. BlockOffset(pos) \in 0 .. (SECTOR_SIZE - 1)
    BY PositionBounds DEF Offsets
  <1>2. SECTOR_SIZE \in Nat
    BY BlockAssumption
  <1> QED
    BY <1>1, <1>2

\* A sector that is ready to be written back differs from the disk in the bytes asked for.
LEMMA BackWritten ==
  ASSUME WriteInv, NEW t \in Tasks, write_back(t), ~raced
  PROVE  LET n == position'[t] - position[t]
         IN  \A pos \in DiskBytes :
               ByteOf(sectors', pos) =
                 IF pos \in position[t] .. (position[t] + n - 1)
                 THEN pending[t].buf[pos - position[t] + 1]
                 ELSE ByteOf(sectors, pos)
  <1> DEFINE p == pending[t]
             start == position[t]
             n == position'[t] - position[t]
             first == BlockOffset(start)
             num == BlockNum(start)
  <1>1. /\ p # None /\ Prepared(t) /\ p.sector \in Sectors
        /\ sectors' = [sectors EXCEPT ![p.sector] = p.content]
        /\ position' = [position EXCEPT ![t] = @ + p.len]
    BY DEF WriteInv, write_back, Advance
  <1>2. /\ start \in 0 .. MaxPosition /\ p.sector = num /\ p.buf \in Seq(Bytes)
        /\ p.len = Min({Len(p.buf), SECTOR_SIZE - first})
        /\ \A o \in Offsets : p.content[o] = IF o \in first .. (first + p.len - 1)
                                             THEN p.buf[o - first + 1] ELSE sectors[num][o]
    BY <1>1 DEF Prepared
  <1>3. num \in Nat /\ first \in Offsets /\ start = num * SECTOR_SIZE + first
    BY <1>2, PositionBounds
  <1>4. p.len \in Nat /\ p.len <= SECTOR_SIZE - first
    <2>1. Len(p.buf) \in Nat /\ SECTOR_SIZE - first \in Nat
      BY <1>2, <1>3, BlockAssumption, LenProperties DEF Offsets
    <2>2. p.len = IF Len(p.buf) <= SECTOR_SIZE - first THEN Len(p.buf) ELSE SECTOR_SIZE - first
      BY <1>2, <2>1, MinOfTwo
    <2> QED
      BY <2>1, <2>2
  <1>5. n = p.len
    <2>1. position \in [Tasks -> (0 .. MaxPosition) \cup {None}]
      BY DEF WriteInv
    <2>2. position'[t] = start + p.len
      BY <1>1, <2>1
    <2> QED
      BY <1>2, <1>4, <2>2
  <1>6. \A s \in Sectors : sectors'[s] = IF s = num THEN p.content ELSE sectors[s]
    BY <1>1, <1>2 DEF WriteInv
  <1> HIDE DEF n, first, num, start, p
  <1>7. ASSUME NEW pos \in DiskBytes
        PROVE  ByteOf(sectors', pos) = IF pos \in start .. (start + n - 1)
                                       THEN p.buf[pos - start + 1] ELSE ByteOf(sectors, pos)
    <2> DEFINE s == pos \div SECTOR_SIZE
               o == pos % SECTOR_SIZE
    <2>1. pos \in Nat /\ pos < SECTOR_SIZE * (LastSector + 1)
      <3>1. SECTOR_SIZE * (LastSector + 1) \in Nat
        BY BlockAssumption, DiskAssumption
      <3> QED
        BY <3>1 DEF DiskBytes
    <2>2. /\ s \in Nat /\ o \in Offsets /\ pos = s * SECTOR_SIZE + o /\ s * SECTOR_SIZE \in Nat
      BY <2>1, BlockAssumption, DivMod DEF Offsets
    <2>3. ByteOf(sectors', pos) = sectors'[s][o] /\ ByteOf(sectors, pos) = sectors[s][o]
      BY DEF ByteOf
    <2> HIDE DEF s, o
    <2>4. s \in Sectors
      <3>1. s < LastSector + 1
        <4> SUFFICES ASSUME ~(s < LastSector + 1) PROVE FALSE
          OBVIOUS
        <4>1. /\ LastSector + 1 \in Nat /\ SECTOR_SIZE \in Nat \ {0}
              /\ SECTOR_SIZE * (LastSector + 1) = (LastSector + 1) * SECTOR_SIZE
              /\ (LastSector + 1) * SECTOR_SIZE \in Nat
          BY BlockAssumption, DiskAssumption
        <4>2. (LastSector + 1) * SECTOR_SIZE <= s * SECTOR_SIZE
          <5>1. CASE s = LastSector + 1
            BY <2>2, <4>1, <5>1
          <5>2. CASE LastSector + 1 < s
            <6>1. (LastSector + 1) * SECTOR_SIZE + SECTOR_SIZE <= s * SECTOR_SIZE
              BY <2>2, <4>1, <5>2, MultMono
            <6> QED
              BY <2>2, <4>1, <6>1
          <5> QED
            BY <2>2, <4>1, <5>1, <5>2
        <4> QED
          BY <2>1, <2>2, <4>1, <4>2 DEF Offsets
      <3> QED
        BY <2>2, <3>1, DiskAssumption DEF Sectors
    <2>5. SECTOR_SIZE \in Nat \ {0} /\ num * SECTOR_SIZE \in Nat
      BY <1>3, BlockAssumption
    <2>6. CASE s = num
      <3>1. pos \in start .. (start + n - 1) <=> o \in first .. (first + p.len - 1)
        BY <1>3, <1>4, <1>5, <2>2, <2>5, <2>6 DEF Offsets
      <3>2. pos - start + 1 = o - first + 1
        BY <1>3, <2>2, <2>5, <2>6 DEF Offsets
      <3> QED
        BY <1>2, <1>6, <2>2, <2>3, <2>4, <2>6, <3>1, <3>2
    <2>7. CASE s < num
      <3>1. s * SECTOR_SIZE + SECTOR_SIZE <= num * SECTOR_SIZE
        BY <1>3, <2>2, <2>5, <2>7, MultMono
      <3>2. pos < start
        BY <1>3, <2>2, <2>5, <3>1 DEF Offsets
      <3>3. pos \notin start .. (start + n - 1) /\ s # num
        BY <1>2, <1>3, <1>4, <1>5, <2>1, <2>2, <2>7, <3>2
      <3> QED
        BY <1>6, <2>3, <2>4, <3>3
    <2>8. CASE num < s
      <3>1. num * SECTOR_SIZE + SECTOR_SIZE <= s * SECTOR_SIZE
        BY <1>3, <2>2, <2>5, <2>8, MultMono
      <3>2. start + n <= pos
        BY <1>3, <1>4, <1>5, <2>2, <2>5, <3>1 DEF Offsets
      <3>3. pos \notin start .. (start + n - 1) /\ s # num
        BY <1>2, <1>3, <1>4, <1>5, <2>1, <2>2, <2>8, <3>2
      <3> QED
        BY <1>6, <2>3, <2>4, <3>3
    <2> QED
      BY <1>3, <2>2, <2>6, <2>7, <2>8
  <1> QED
    BY <1>7 DEF n, start, p

\* A step that leaves the prepared writes, their positions and their sectors alone.
LEMMA WriteKept ==
  ASSUME WriteInv, UNCHANGED <<pending, devices, sectors, raced>>,
         position' \in [Tasks -> (0 .. MaxPosition) \cup {None}],
         \A t \in Tasks : pending[t] # None => position'[t] = position[t]
  PROVE  WriteInv'
  BY DEF WriteInv, Prepared

\* The handle of one task moves, and it has no write in progress.
LEMMA HandleMoves ==
  ASSUME WriteInv, UNCHANGED <<pending, devices, sectors, raced>>, NEW t \in Tasks,
         pending[t] = None, NEW pos \in (0 .. MaxPosition) \cup {None},
         position' = [position EXCEPT ![t] = pos]
  PROVE  WriteInv'
  <1>1. position \in [Tasks -> (0 .. MaxPosition) \cup {None}]
    BY DEF WriteInv
  <1>2. position' \in [Tasks -> (0 .. MaxPosition) \cup {None}]
    BY <1>1
  <1>3. \A u \in Tasks : pending[u] # None => position'[u] = position[u]
    BY <1>1
  <1> QED
    BY <1>2, <1>3, WriteKept

\* The file system writes a sector: a prepared write of it is raced from now on.
LEMMA Step_partition_write ==
  ASSUME WriteInv, NEW lba \in Sectors, NEW content, partition_write(lba, content)
  PROVE  WriteInv'
  <1> DEFINE n == part.start_lba + lba
  <1>1. /\ n \in Sectors /\ sectors' = [sectors EXCEPT ![n] = content]
        /\ raced' = (raced \/ \E t \in Tasks : pending[t] # None /\ pending[t].sector = n)
        /\ UNCHANGED <<devices, position, pending>>
    BY DEF partition_write
  <1> HIDE DEF n
  <1>2. sectors' = [s \in Sectors |-> sectors'[s]]
        /\ \A s \in Sectors : s # n => sectors'[s] = sectors[s]
    BY <1>1 DEF WriteInv
  <1>3. ASSUME NEW t \in Tasks, pending[t] # None PROVE devices = t /\ Prepared(t)'
    <2>1. devices = t /\ Prepared(t)
      BY <1>3 DEF WriteInv
    <2>2. ~raced' => ~raced /\ pending[t].sector # n
      BY <1>1, <1>3
    <2> QED
      BY <1>1, <1>2, <2>1, <2>2 DEF Prepared
  <1> QED
    BY <1>1, <1>2, <1>3 DEF WriteInv

\* A write is prepared under the lock.
LEMMA Step_write_prepare ==
  ASSUME WriteInv, NEW t \in Tasks, NEW buf \in Buffers, write_prepare(t, buf)
  PROVE  WriteInv'
  <1> DEFINE pos == position[t]
             num == BlockNum(pos)
             first == BlockOffset(pos)
             old == IF MustRead(t, buf) THEN sectors[num] ELSE [o \in Offsets |-> 0]
             new == [o \in Offsets |-> IF o \in first .. (first + ToWrite(t, buf) - 1)
                                       THEN buf[o - first + 1] ELSE old[o]]
             p == [sector |-> num, len |-> ToWrite(t, buf), buf |-> buf, content |-> new]
  <1>1. /\ pos # None /\ devices = None /\ devices' = t
        /\ pending' = [pending EXCEPT ![t] = p]
        /\ raced' = FALSE /\ UNCHANGED <<position, sectors>>
    BY DEF write_prepare, with_device
  <1>2. pos \in 0 .. MaxPosition /\ buf \in Seq(Bytes)
    BY <1>1, BlockAssumption DEF WriteInv
  <1>3. \A u \in Tasks : pending[u] = None
    BY <1>1, BlockAssumption DEF WriteInv
  <1>4. /\ pending' = [u \in Tasks |-> pending'[u]]
        /\ pending'[t] = p /\ \A u \in Tasks : u # t => pending'[u] = None
    <2>1. pending = [u \in Tasks |-> pending[u]]
      BY DEF WriteInv
    <2> HIDE DEF p
    <2> QED
      BY <1>1, <1>3, <2>1
  <1>5. ToWrite(t, buf) = Min({Len(buf), SECTOR_SIZE - first})
    BY DEF ToWrite
  <1>6. ASSUME NEW o \in Offsets
        PROVE  new[o] = IF o \in first .. (first + ToWrite(t, buf) - 1)
                        THEN buf[o - first + 1] ELSE sectors[num][o]
    <2>1. CASE MustRead(t, buf)
      BY <2>1
    <2>2. CASE ~MustRead(t, buf)
      <3>1. first = 0 /\ ~(Len(buf) < SECTOR_SIZE)
        BY <2>2 DEF MustRead
      <3>2. Len(buf) \in Nat /\ SECTOR_SIZE \in Nat
        BY <1>2, BlockAssumption, LenProperties
      <3>3. SECTOR_SIZE - first = SECTOR_SIZE
        BY <3>1, <3>2
      <3>4. ToWrite(t, buf) = SECTOR_SIZE
        <4> HIDE DEF first
        <4>1. Min({Len(buf), SECTOR_SIZE}) = IF Len(buf) <= SECTOR_SIZE THEN Len(buf) ELSE SECTOR_SIZE
          BY <3>2, MinOfTwo
        <4> QED
          BY <1>5, <3>1, <3>2, <3>3, <4>1
      <3>5. o \in first .. (first + ToWrite(t, buf) - 1)
        BY <3>1, <3>2, <3>4 DEF Offsets
      <3> QED
        BY <3>5
    <2> QED
      BY <2>1, <2>2
  <1> HIDE DEF old
  <1>7. p.sector = num /\ p.len = ToWrite(t, buf) /\ p.buf = buf /\ p.content = new
    OBVIOUS
  <1> HIDE DEF new, p
  <1>8. Prepared(t)'
    <2>1. position'[t] = pos /\ pending'[t] = p /\ sectors' = sectors
      BY <1>1, <1>4
    <2>2. \A o \in Offsets : p.content[o] = IF o \in first .. (first + p.len - 1)
                                            THEN p.buf[o - first + 1] ELSE sectors[p.sector][o]
      BY <1>6, <1>7
    <2>3. BlockOffset(position'[t]) = first /\ BlockNum(position'[t]) = num
      BY <2>1
    <2> HIDE DEF first, num, pos
    <2>4. /\ position'[t] \in 0 .. MaxPosition
          /\ pending'[t].buf \in Seq(Bytes)
          /\ pending'[t].len = Min({Len(pending'[t].buf), SECTOR_SIZE - first})
          /\ pending'[t].sector = num
      BY <1>2, <1>5, <1>7, <2>1
    <2>5. \A o \in Offsets :
            pending'[t].content[o] = IF o \in first .. (first + pending'[t].len - 1)
                                     THEN pending'[t].buf[o - first + 1]
                                     ELSE sectors'[pending'[t].sector][o]
      BY <2>1, <2>2
    <2> QED
      BY <2>3, <2>4, <2>5 DEF Prepared
  <1> QED
    BY <1>1, <1>4, <1>8 DEF WriteInv

\* The call of a task that has a write prepared ends, written back or refused.
LEMMA Step_write_ends ==
  ASSUME WriteInv, NEW t \in Tasks, write_back(t) \/ write_fails(t)
  PROVE  WriteInv'
  <1>1. pending[t] # None /\ pending' = [pending EXCEPT ![t] = None]
    BY DEF write_back, write_fails
  <1>2. \A u \in Tasks : u # t => pending[u] = None
    BY <1>1 DEF WriteInv
  <1>3. pending' = [u \in Tasks |-> pending'[u]] /\ \A u \in Tasks : pending'[u] = None
    BY <1>1, <1>2 DEF WriteInv
  <1>4. position' \in [Tasks -> (0 .. MaxPosition) \cup {None}]
    <2>1. position \in [Tasks -> (0 .. MaxPosition) \cup {None}] /\ Prepared(t)
      BY <1>1 DEF WriteInv
    <2>2. CASE write_fails(t)
      BY <2>1, <2>2 DEF write_fails
    <2>3. CASE write_back(t)
      <3>1. /\ position' = [position EXCEPT ![t] = @ + pending[t].len]
            /\ position[t] + pending[t].len <= MaxPosition
        BY <2>3 DEF write_back, Advance
      <3>2. /\ position[t] \in 0 .. MaxPosition /\ pending[t].buf \in Seq(Bytes)
            /\ pending[t].len
                 = Min({Len(pending[t].buf), SECTOR_SIZE - BlockOffset(position[t])})
        BY <2>1 DEF Prepared
      <3>3. pending[t].len \in Nat
        <4>1. SECTOR_SIZE - BlockOffset(position[t]) \in Nat /\ Len(pending[t].buf) \in Nat
          BY <3>2, OffsetInside, LenProperties
        <4>2. PICK a \in Nat, b \in Nat : /\ a = Len(pending[t].buf)
                                           /\ b = SECTOR_SIZE - BlockOffset(position[t])
          BY <4>1
        <4> QED
          BY <3>2, <4>2, MinOfTwo
      <3>4. position[t] + pending[t].len \in 0 .. MaxPosition
        BY <3>1, <3>2, <3>3, BlockAssumption
      <3> QED
        BY <2>1, <3>1, <3>4
    <2> QED
      BY <2>2, <2>3
  <1>5. sectors' = [s \in Sectors |-> sectors'[s]]
    BY DEF WriteInv, write_back, write_fails
  <1> QED
    BY <1>3, <1>4, <1>5 DEF WriteInv

LEMMA WriteStep == WriteInv /\ [BlockNext]_block_vars => WriteInv'
  <1> SUFFICES ASSUME WriteInv, [BlockNext]_block_vars PROVE WriteInv'
    OBVIOUS
  <1>1. ASSUME UNCHANGED <<devices, position, pending, sectors, raced>> PROVE WriteInv'
    BY <1>1, WriteKept DEF WriteInv
  <1>2. CASE mount_fat32 \/ register_device \/ unregister_device \/ UNCHANGED block_vars
    BY <1>1, <1>2 DEF mount_fat32, register_device, unregister_device, block_vars
  <1>3. ASSUME NEW lba \in Sectors, NEW content \in [Offsets -> Bytes],
               partition_write(lba, content)
        PROVE  WriteInv'
    BY <1>3, Step_partition_write
  <1>4. ASSUME NEW t \in Tasks, dev_open(t) PROVE WriteInv'
    <2>1. position[t] = None /\ 0 \in (0 .. MaxPosition) \cup {None}
      BY <1>4, BlockAssumption DEF dev_open
    <2>2. pending[t] = None
      <3>1. position[t] \notin 0 .. MaxPosition
        BY <2>1, BlockAssumption
      <3> QED
        BY <3>1 DEF WriteInv, Prepared
    <2> QED
      BY <1>4, <2>1, <2>2, HandleMoves DEF dev_open
  <1>5. ASSUME NEW t \in Tasks, dev_close(t) PROVE WriteInv'
    BY <1>5, HandleMoves DEF dev_close
  <1>6. ASSUME NEW t \in Tasks, NEW asked \in Lengths, dev_read(t, asked) PROVE WriteInv'
    <2> DEFINE k == Min({asked, SECTOR_SIZE - BlockOffset(position[t])})
    <2>1. /\ position[t] # None /\ pending[t] = None /\ position[t] + k <= MaxPosition
          /\ position' = [position EXCEPT ![t] = @ + k]
          /\ UNCHANGED <<pending, devices, sectors, raced>>
      BY <1>6 DEF dev_read, with_device, Advance
    <2>2. position[t] \in 0 .. MaxPosition
      BY <2>1 DEF WriteInv
    <2>3. k \in Nat
      <3>1. SECTOR_SIZE - BlockOffset(position[t]) \in Nat /\ asked \in Nat
        BY <2>2, OffsetInside, BlockAssumption
      <3>2. PICK b \in Nat : b = SECTOR_SIZE - BlockOffset(position[t])
        BY <3>1
      <3> QED
        BY <3>1, <3>2, MinOfTwo
    <2> HIDE DEF k
    <2>4. position[t] + k \in 0 .. MaxPosition
      BY <2>1, <2>2, <2>3, BlockAssumption
    <2>5. position' = [position EXCEPT ![t] = position[t] + k]
      BY <2>1
    <2> QED
      BY <2>1, <2>4, <2>5, HandleMoves
  <1>7. ASSUME NEW t \in Tasks, NEW buf \in Buffers, write_prepare(t, buf) PROVE WriteInv'
    BY <1>7, Step_write_prepare
  <1>8. ASSUME NEW t \in Tasks, write_back(t) \/ write_fails(t) PROVE WriteInv'
    BY <1>8, Step_write_ends
  <1>9. ASSUME NEW t \in Tasks, NEW n \in Seeks, dev_seek(t, n) PROVE WriteInv'
    <2>1. PICK pos : pos \in 0 .. MaxPosition /\ position' = [position EXCEPT ![t] = pos]
      BY <1>9 DEF dev_seek
    <2> QED
      BY <1>9, <2>1, HandleMoves DEF dev_seek
  <1> QED
    BY <1>2, <1>3, <1>4, <1>5, <1>6, <1>7, <1>8, <1>9 DEF BlockNext

(***************************************************************************)
(* A write through /dev changes the bytes it was given and no others, for  *)
(* any number of tasks, sectors of any size and buffers of any length:     *)
(* DevFs.devices keeps the other handles away between the two halves, and  *)
(* the file system's writes are the only exception.                        *)
(***************************************************************************)
THEOREM WritesAreExact == BlockSpec => WritesOnlyAsked
  <1>1. BlockInit => WriteInv
    BY DEF BlockInit, WriteInv
  <1>2. WriteInv /\ [BlockNext]_block_vars =>
          [\A t \in Tasks :
             write_back(t) /\ ~raced =>
               LET n == position'[t] - position[t]
               IN  \A pos \in DiskBytes :
                     ByteOf(sectors', pos) =
                       IF pos \in position[t] .. (position[t] + n - 1)
                       THEN pending[t].buf[pos - position[t] + 1]
                       ELSE ByteOf(sectors, pos)]_block_vars
    BY BackWritten
  <1> QED
    BY <1>1, <1>2, WriteStep, PTL DEF BlockSpec, WritesOnlyAsked

=============================================================================
