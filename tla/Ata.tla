-------------------------------- MODULE Ata --------------------------------
(***************************************************************************)
(* The ATA driver of drivers/ata.rs: a host that polls the status register *)
(* of a drive a bounded number of times, and the drive, which answers in   *)
(* its own time.  The tasks' calls of read_sector and write_sector hold    *)
(* the ATA lock throughout; identify runs at boot, before there are tasks. *)
(*                                                                         *)
(* Some of these calls are made with SCHEDULER held: reads and writes of a *)
(* disk in /dev and the write-back of a closed file inside with_fd_table,  *)
(* with interrupts enabled, and the write-back of a dead task's files      *)
(* inside schedule().  Who holds SCHEDULER has the processor, and a timer  *)
(* interrupt, or a lock that a preempted task holds, stops it for good.    *)
(*                                                                         *)
(* The drive is external: it is modelled by the bits the driver reads      *)
(* (BSY, DRQ, ERR) and by when it raises them.  The registers are touched  *)
(* by the holder of the lock only, so that writing the taskfile and        *)
(* moving the 256 words of a sector are one step each.                     *)
(***************************************************************************)
EXTENDS Disk

CONSTANTS
  BOOT,         \* kmain, which calls init
  Addresses,    \* the sector numbers (u32) that callers ask for
  LBA_LIMIT,    \* 2^28: what fits in the address registers
  SectorData,   \* contents of a sector
  MaxPolls,     \* 1000000 in the code
  Free          \* nobody: an open lock, no command

ASSUME AddressAssumption ==
  /\ LBA_LIMIT \in Nat \ {0}
  /\ Addresses \subseteq Nat
  /\ LastSector < LBA_LIMIT

ASSUME OthersAssumption ==
  /\ BOOT \notin Tasks /\ Free \notin Tasks \cup {BOOT} \cup SectorData
  /\ MaxPolls \in Nat \ {0}

VARIABLES
  installed,   \* ATA is Some
  lock,        \* who holds ATA
  at,          \* where the holder stands in its call
  polls,       \* status reads of the current wait
  call,        \* the call of the holder: op, lba, data
  ok,          \* whether the call succeeded, when it returns
  scheduler,   \* who holds SCHEDULER
  reaping,     \* it is held in schedule(), interrupts disabled
  stuck,       \* the kernel spins for good, interrupts disabled
  present,     \* there is a drive
  busy, drq, err,   \* its status bits
  command,     \* what it works on: a call, with lba taken from the registers
  buffer,      \* the sector in its buffer
  media,       \* what it stores
  confused     \* history: it ignored a command since it was offering data

cpu == <<scheduler, reaping, stuck>>
host == <<installed, lock, at, polls, call, ok, cpu>>
drive == <<present, busy, drq, err, command, buffer, media, confused>>
ata_vars == <<host, drive>>

Callers == Tasks \cup {BOOT}
NoCall == [op |-> "none", lba |-> 0, data |-> Free]
Identify == [op |-> "identify", lba |-> 0, data |-> Free]

AtaInit ==
  /\ installed = FALSE
  /\ lock = BOOT
  /\ at = "ready"
  /\ polls = 0
  /\ call = Identify
  /\ ok = FALSE
  /\ scheduler = Free
  /\ reaping = FALSE
  /\ stuck = FALSE
  /\ present \in BOOLEAN
  /\ busy \in BOOLEAN /\ (busy => present)
  /\ drq = FALSE
  /\ err = FALSE
  /\ command = NoCall
  /\ buffer = Free
  /\ media \in [Sectors -> SectorData]
  /\ confused = FALSE

-----------------------------------------------------------------------------
(* SCHEDULER, taken and released around calls of the driver *)

\* t has the processor, or may be given it.
CanRun(t) == ~stuck /\ scheduler \in {Free, t}

\* with_fd_table, entered and left, by a task that is in no call of the driver.
with_fd_table(t) ==
  /\ CanRun(t) /\ lock \notin {t, BOOT} /\ ~reaping
  /\ scheduler' = IF scheduler = t THEN Free ELSE t
  /\ UNCHANGED <<installed, lock, at, polls, call, ok, reaping, stuck, drive>>

\* reap_dead drops a task whose files are written back, interrupts disabled:
\* if a call of the driver was preempted, its lock is never released.
reap_dead(t) ==
  /\ ~stuck /\ scheduler = Free /\ lock # BOOT
  /\ IF lock = Free
     THEN scheduler' = t /\ reaping' = TRUE /\ UNCHANGED stuck
     ELSE stuck' = TRUE /\ UNCHANGED <<scheduler, reaping>>
  /\ UNCHANGED <<installed, lock, at, polls, call, ok, drive>>

\* schedule() goes on to the next task.
reaped ==
  /\ ~stuck /\ reaping /\ lock = Free
  /\ scheduler' = Free
  /\ reaping' = FALSE
  /\ UNCHANGED <<installed, lock, at, polls, call, ok, stuck, drive>>

\* The timer interrupts with_fd_table: schedule() spins on SCHEDULER.
timer_handler ==
  /\ ~stuck /\ scheduler # Free /\ ~reaping
  /\ stuck' = TRUE
  /\ UNCHANGED <<installed, lock, at, polls, call, ok, scheduler, reaping, drive>>

\* The kernel has stopped; the drive goes on.
spinning == stuck /\ UNCHANGED ata_vars

-----------------------------------------------------------------------------
(* The driver *)

Return(success) ==
  /\ at' = "return"
  /\ ok' = success
  /\ polls' = 0

Goto(next) ==
  /\ at' = next
  /\ polls' = 0
  /\ ok' = ok

\* ATA.lock() and the test that a drive was found.
begin(t, c) ==
  /\ CanRun(t) /\ lock = Free
  /\ lock' = t
  /\ call' = c
  /\ IF installed THEN Goto("ready") ELSE Return(FALSE)
  /\ UNCHANGED <<installed, cpu, drive>>

read_sector(t, lba) == begin(t, [op |-> "read", lba |-> lba, data |-> Free])
write_sector(t, lba, d) == begin(t, [op |-> "write", lba |-> lba, data |-> d])

\* Mutant: a loop that waits for as long as it takes.
Bug_PollForever == polls' = polls /\ UNCHANGED <<at, ok>>

\* One more status read without the bit that is waited for.
PollAgain ==
  IF polls + 1 < MaxPolls THEN polls' = polls + 1 /\ UNCHANGED <<at, ok>>
  ELSE Return(FALSE)

\* Mutant: the wait before a command is left out.
Bug_NoWait ==
  /\ at = "ready"
  /\ Goto("command")
  /\ UNCHANGED <<installed, lock, call, drive>>

\* wait_ready before a command.
wait_ready ==
  /\ at = "ready"
  /\ IF busy THEN PollAgain ELSE Goto("command")
  /\ UNCHANGED <<installed, lock, call, drive>>

\* The address that reaches the drive: 28 bits of it.
TaskFile(c) == [c EXCEPT !.lba = @ % LBA_LIMIT]

(***************************************************************************)
(* The driver writes the registers and the command.  A busy drive does not *)
(* look at them.  One that is still offering data nobody fetched (DRQ set  *)
(* by an answer that came after the driver had given up) either drops it   *)
(* and starts the command, or ignores the command: ATA leaves that open.   *)
(***************************************************************************)
Accept ==
  /\ command' = TaskFile(call)
  /\ busy' = TRUE
  /\ drq' = FALSE
  /\ err' = FALSE
  /\ buffer' = Free
  /\ UNCHANGED confused

Ignore ==
  /\ confused' = (confused \/ drq)
  /\ UNCHANGED <<command, busy, drq, err, buffer>>

issue ==
  /\ at = "command"
  /\ \/ present /\ ~busy /\ Accept
     \/ present /\ (busy \/ drq) /\ Ignore
     \/ ~present /\ UNCHANGED <<command, busy, drq, err, buffer, confused>>
  /\ Goto(IF call.op = "identify" THEN "detect" ELSE "data")
  /\ UNCHANGED <<installed, lock, call, present, media>>

\* identify: a status of 0 means that there is no drive (a drive that is there
\* has at least BSY or DRDY set).
detect ==
  /\ at = "detect"
  /\ IF present THEN Goto("data") ELSE Return(FALSE)
  /\ UNCHANGED <<installed, lock, call, drive>>

\* wait_data: DRQ is looked at first, BSY not at all.
wait_data ==
  /\ at = "data"
  /\ \/ drq /\ Goto("transfer")
     \/ ~drq /\ err /\ Return(FALSE)
     \/ ~drq /\ ~err /\ PollAgain
  /\ UNCHANGED <<installed, lock, call, drive>>

\* The 256 words are read.
transfer_in ==
  /\ at = "transfer"
  /\ call.op \in {"read", "identify"}
  /\ call' = [call EXCEPT !.data = buffer]
  /\ Return(TRUE)
  /\ IF command.op = "write"
     THEN UNCHANGED <<drq, command, buffer>>
     ELSE drq' = FALSE /\ command' = NoCall /\ buffer' = Free
  /\ UNCHANGED <<installed, lock, present, busy, err, media, confused>>

\* Mutant: the call returns as soon as the words are written.
Bug_NoFinalWait ==
  /\ at = "transfer"
  /\ call.op = "write"
  /\ Return(TRUE)
  /\ IF command.op = "write"
     THEN drq' = FALSE /\ busy' = TRUE /\ buffer' = call.data
     ELSE UNCHANGED <<drq, busy, buffer>>
  /\ UNCHANGED <<installed, lock, call, present, err, command, media, confused>>

\* The 256 words are written; the drive takes them if it wants any.
transfer_out ==
  /\ at = "transfer"
  /\ call.op = "write"
  /\ Goto("settle")
  /\ IF command.op = "write"
     THEN drq' = FALSE /\ busy' = TRUE /\ buffer' = call.data
     ELSE UNCHANGED <<drq, busy, buffer>>
  /\ UNCHANGED <<installed, lock, call, present, err, command, media, confused>>

\* wait_ready at the end of write_sector.  ERR is not looked at.
wait_settled ==
  /\ at = "settle"
  /\ IF busy THEN PollAgain ELSE Return(TRUE)
  /\ UNCHANGED <<installed, lock, call, drive>>

\* The call returns and gives up the lock; init keeps the drive if it is there.
unlock ==
  /\ at = "return"
  /\ installed' = (installed \/ (call.op = "identify" /\ ok))
  /\ lock' = Free
  /\ at' = "idle"
  /\ call' = NoCall
  /\ ok' = FALSE
  /\ UNCHANGED <<polls, drive>>

-----------------------------------------------------------------------------
(* The drive *)

\* A drive that was busy at power-on becomes ready.
spin_up ==
  /\ busy /\ command.op = "none"
  /\ busy' = FALSE
  /\ UNCHANGED <<host, present, drq, err, command, buffer, media, confused>>

\* It has read the sector, or is ready to be given one.
offer ==
  /\ busy /\ buffer = Free
  /\ command.op \in {"identify", "write"} \/ command.lba \in Sectors
  /\ command.op # "none"
  /\ busy' = FALSE
  /\ drq' = TRUE
  /\ buffer' \in IF command.op = "read" THEN {media[command.lba]}
                 ELSE {buffer}
  /\ UNCHANGED <<host, present, err, command, media, confused>>

\* The command fails: a bad sector, an address beyond the drive.
refuse ==
  /\ busy /\ command.op # "none"
  /\ busy' = FALSE
  /\ err' = TRUE
  /\ command' = NoCall
  /\ buffer' = Free
  /\ UNCHANGED <<host, present, drq, media, confused>>

\* The sector that was written reaches the medium.
store ==
  /\ busy /\ command.op = "write" /\ buffer # Free
  /\ command.lba \in Sectors
  /\ media' = [media EXCEPT ![command.lba] = buffer]
  /\ busy' = FALSE
  /\ command' = NoCall
  /\ buffer' = Free
  /\ UNCHANGED <<host, present, drq, err, confused>>

-----------------------------------------------------------------------------

\* The holder of the lock goes on with its call.
Step ==
  /\ CanRun(lock)
  /\ \/ wait_ready \/ issue \/ detect \/ wait_data
     \/ transfer_in \/ transfer_out
     \/ wait_settled \/ unlock
  /\ UNCHANGED cpu

AtaNext ==
  \/ \E t \in Tasks, lba \in Addresses :
       \/ read_sector(t, lba)
       \/ \E d \in SectorData : write_sector(t, lba, d)
  \/ Step
  \/ \E t \in Tasks : with_fd_table(t) \/ reap_dead(t)
  \/ reaped \/ timer_handler \/ spinning
  \/ spin_up \/ offer \/ refuse \/ store

(***************************************************************************)
(* The holder of ATA, if it is preempted, is Ready and gets the processor  *)
(* again and again, each time with SCHEDULER free (ReadyRuns of Sched):    *)
(* strong fairness, for in between other tasks have it.  The timer is      *)
(* periodic: SCHEDULER held for good meets a tick.  Of the drive nothing   *)
(* is assumed, it may never answer, nor of how long a task that holds      *)
(* SCHEDULER waits for ATA.                                                *)
(***************************************************************************)
AtaSpec ==
  /\ AtaInit /\ [][AtaNext]_ata_vars
  /\ SF_ata_vars(Step)
  /\ WF_ata_vars(timer_handler)

-----------------------------------------------------------------------------
(* Properties *)

\* The calls, or the commands as the drive sees them, on some addresses.
CallsOn(lbas) ==
  [op : {"none", "identify", "read", "write"}, lba : lbas,
   data : SectorData \cup {Free}]

\* Types of what calls and commands carry.
AtaTypeOK ==
  /\ call \in CallsOn(Nat)
  /\ call.op = "write" => call.data \in SectorData
  /\ command \in CallsOn(0 .. (LBA_LIMIT - 1))
  /\ buffer \in SectorData \cup {Free}
  /\ media \in [Sectors -> SectorData]

\* The drive works on one thing at a time, and what it offers is current.
DriveInv ==
  /\ ~(busy /\ drq)
  /\ busy \/ drq => present
  /\ at = "transfer" => drq
  /\ drq => command.op \in {"identify", "read", "write"}
  /\ drq /\ command.op = "read" =>
       command.lba \in Sectors /\ buffer = media[command.lba]
  /\ buffer # Free => command.op \in {"read", "write"}

\* The drive works on the call, or has refused it.
Pending(c) == /\ drq \/ (busy /\ buffer = Free)
              /\ command = TaskFile(c)
Refused == ~busy /\ ~drq /\ err

\* Until the drive ignores a command, it does what the driver believes.
InStep ==
  /\ at \in {"ready", "command", "detect", "data", "transfer", "settle"} =>
       call.op # "none"
  /\ at = "command" => ~busy
  /\ at \in {"detect", "data"} /\ present => Pending(call) \/ Refused
  /\ at = "transfer" => command = TaskFile(call)
  /\ at = "return" /\ ok => ~busy
  /\ at = "settle" =>
       /\ call.op = "write"
       /\ \/ busy /\ command = TaskFile(call) /\ buffer = call.data
          \/ Refused
          \/ /\ ~busy /\ ~drq
             /\ call.lba < LBA_LIMIT =>
                  call.lba \in Sectors /\ media[call.lba] = call.data

\* A call that has succeeded and is about to return.
Done(op) == at = "return" /\ ok /\ call.op = op /\ call.lba < LBA_LIMIT

(***************************************************************************)
(* A read that reports success returns what the medium holds, whatever     *)
(* happened to earlier calls: timeouts, errors and answers that came too   *)
(* late, a write that was given up and reaches the medium afterwards.      *)
(* The exception is a drive that has ignored a command because it was      *)
(* still offering the data of a call that had timed out.                   *)
(***************************************************************************)
ReadIsTrue ==
  Done("read") /\ ~confused =>
    call.lba \in Sectors /\ call.data = media[call.lba]

(***************************************************************************)
(* A write that reports success is on the medium, unless the drive has     *)
(* refused it: the driver does not look at ERR after the transfer.         *)
(***************************************************************************)
WriteIsDone ==
  Done("write") /\ ~confused =>
    err \/ (call.lba \in Sectors /\ media[call.lba] = call.data)

\* The inductive invariant of the driver.
AtaInv ==
  /\ AtaTypeOK
  /\ DriveInv
  /\ ~confused => InStep /\ ReadIsTrue /\ WriteIsDone

(***************************************************************************)
(* No call keeps ATA forever, however the drive behaves: every wait ends   *)
(* after a number of polls.  Unless the kernel has stopped: a tick in      *)
(* with_fd_table, or a task reaped while another one's call was preempted. *)
(***************************************************************************)
LockReleased == \A t \in Callers : lock = t ~> (lock # t \/ stuck)

=============================================================================
