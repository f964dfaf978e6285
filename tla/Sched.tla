------------------------------- MODULE Sched -------------------------------
(***************************************************************************)
(* The preemptive round-robin scheduler of the Vyper kernel                *)
(* (vcore/src/sched/{mod,task,switch}.rs), driven by the local APIC timer  *)
(* (cpu/interrupts.rs) on one CPU.                                         *)
(*                                                                         *)
(* A task is identified by its id; pc[t] says which instruction of the     *)
(* scheduler's interface the task is about to execute.  A piece of code    *)
(* that runs with interrupts disabled is one step; code that runs with     *)
(* interrupts enabled is cut where the timer can strike.                   *)
(*                                                                         *)
(* Time is relative: wake_at and due hold the ticks that are still to come *)
(* before the deadline (the code holds the absolute tick and only ever     *)
(* compares it with the clock), so no counter grows without bound.         *)
(***************************************************************************)
EXTENDS Integers, Sequences, FiniteSets

CONSTANTS MaxTasks,    \* bound: tasks created in one boot, the kernel task included
          MaxSleep     \* bound: largest argument of sleep()

ASSUME BoundsAssumption == /\ MaxTasks \in Nat \ {0, 1}
                           /\ MaxSleep \in Nat

VARIABLES tasks,       \* Scheduler.tasks
          current,     \* Scheduler.current, counted from 1
          next_id,     \* NEXT_ID
          cpu,         \* stack in use, %cr3, TSS.rsp0, and whether the last %rsp loaded was a saved one
          pc,          \* per task: the next instruction
          due,         \* per task: the deadline a sleep() in progress has computed
          sched_lock,  \* holder of the SCHEDULER spin lock, interrupts enabled
          heap_lock,   \* holder of the allocator's spin lock, interrupts enabled
          disk_lock,   \* holder of a file system's and the drive's locks, interrupts enabled
          stuck        \* the CPU spins on a lock with interrupts disabled

vars == <<tasks, current, next_id, cpu, pc, due, sched_lock, heap_lock, disk_lock, stuck>>

Ids == 0 .. MaxTasks - 1
Nobody == -1           \* no lock holder
NoWake == -1           \* wake_at: None
States == {"Ready", "Running", "Sleeping", "Dead"}
Modes == {"Kernel", "User"}

Task == [id : Ids, state : States, mode : Modes,
         stack_ptr : {"saved", "stale"},
         cr3 : Ids, kernel_stack_top : Ids,
         wake_at : NoWake .. MaxSleep,
         unsaved : BOOLEAN]    \* it left a file open that is still to be written back

(***************************************************************************)
(* kernel_task: task 0 adopts the boot stack, so nothing is saved yet and  *)
(* it has no stack of its own (kernel_stack_top 0).  Its cr3 is the        *)
(* kernel's, written 0.                                                    *)
(***************************************************************************)
kernel_task == [id |-> 0, state |-> "Running", mode |-> "Kernel",
                stack_ptr |-> "stale", cr3 |-> 0, kernel_stack_top |-> 0,
                wake_at |-> NoWake, unsaved |-> FALSE]

(***************************************************************************)
(* Task::new / Task::new_user: a stack prepared so that the first switch   *)
(* pops six registers and returns into the trampoline.  A kernel task      *)
(* takes the %cr3 of the CPU, a user task that of its own address space    *)
(* (both written as the id of the task that owns it).                      *)
(***************************************************************************)
new_task(id, mode) == [id |-> id, state |-> "Ready", mode |-> mode,
                       stack_ptr |-> "saved",
                       cr3 |-> IF mode = "User" THEN id ELSE cpu.cr3,
                       kernel_stack_top |-> id,
                       wake_at |-> NoWake, unsaved |-> FALSE]

Init == /\ tasks = <<kernel_task>>
        /\ current = 1
        /\ next_id = 1
        /\ cpu = [task |-> 0, cr3 |-> 0, rsp0 |-> 0, valid |-> TRUE]
        /\ pc = [t \in Ids |-> IF t = 0 THEN "boot" ELSE "none"]
        /\ due = [t \in Ids |-> 0]
        /\ sched_lock = Nobody
        /\ heap_lock = Nobody
        /\ disk_lock = Nobody
        /\ stuck = FALSE

-----------------------------------------------------------------------------
(* reap_dead *)

Bug_ReapCurrentToo(ts, c) == {i \in DOMAIN ts : ts[i].state # "Dead"}

Bug_ReapNothing(ts, c) == DOMAIN ts

(***************************************************************************)
(* The indices reap_dead leaves in the queue: it walks down from the end   *)
(* and removes every Dead task except the current one.                     *)
(***************************************************************************)
Kept(ts, c) == {i \in DOMAIN ts : i = c \/ ts[i].state # "Dead"}

\* The position of index i once only the indices in S are left.
Rank(S, i) == Cardinality({j \in S : j <= i})

Reaped(ts, c) == LET S == Kept(ts, c)
                 IN [k \in 1 .. Cardinality(S) |->
                       ts[CHOOSE i \in S : Rank(S, i) = k]]

Bug_ForgetShift(ts, c) == IF c <= Cardinality(Kept(ts, c)) THEN c ELSE c - 1

\* `current` after reap_dead: one less for every task removed before it.
ReapedCurrent(ts, c) == Rank(Kept(ts, c), c)

-----------------------------------------------------------------------------
(* schedule *)

Bug_NeverWake(ts) == ts

\* A sleeper whose deadline has come becomes Ready.
Wake(ts) ==
    [i \in DOMAIN ts |->
        IF ts[i].state = "Sleeping" /\ ts[i].wake_at = 0
        THEN [ts[i] EXCEPT !.state = "Ready", !.wake_at = NoWake]
        ELSE ts[i]]

\* (current + i) % len with indices from 1 and i in 1..len.
Ahead(len, c, i) == IF c + i <= len THEN c + i ELSE c + i - len

Bug_StartAtCurrent(ts, c) == {i \in 0 .. Len(ts) - 1 : ts[Ahead(Len(ts), c, i)].state = "Ready"}

ReadyAhead(ts, c) == {i \in 1 .. Len(ts) : ts[Ahead(Len(ts), c, i)].state = "Ready"}

Bug_FromFront(ts, c) == CHOOSE i \in 1 .. Len(ts) :
                           /\ ts[i].state = "Ready"
                           /\ \A j \in 1 .. i - 1 : ts[j].state # "Ready"

\* next_ready when some task is Ready: the first one after `current`, cyclically.
NextReady(ts, c) ==
    Ahead(Len(ts), c, CHOOSE i \in ReadyAhead(ts, c) :
                         \A j \in ReadyAhead(ts, c) : i <= j)

Bug_RequeueAlways(ts, old, new) ==
    [i \in DOMAIN ts |->
        [ts[i] EXCEPT !.state = IF i = new THEN "Running" ELSE IF i = old THEN "Ready" ELSE @,
                      !.stack_ptr = IF i = new THEN "stale"
                                    ELSE IF i = old THEN "saved" ELSE @]]

(***************************************************************************)
(* The queue after a switch: the old task, if it was Running, is Ready     *)
(* again, and switch_context stores its %rsp; the new one is Running and   *)
(* its stored %rsp goes stale as soon as it runs.                          *)
(***************************************************************************)
Switched(ts, old, new) ==
    [i \in DOMAIN ts |->
        [ts[i] EXCEPT
            !.state = IF i = new THEN "Running"
                      ELSE IF i = old /\ @ = "Running" THEN "Ready" ELSE @,
            !.stack_ptr = IF i = new THEN "stale"
                          ELSE IF i = old THEN "saved" ELSE @]]

Bug_AlwaysOldSpace(old, new) ==
    [cpu EXCEPT !.task = new.id,
                !.rsp0 = IF new.kernel_stack_top # 0 THEN new.kernel_stack_top ELSE @,
                !.valid = new.stack_ptr = "saved"]

(***************************************************************************)
(* set_kernel_stack (not for stack 0) and switch_context, which reads the  *)
(* new %rsp before it saves the old one, loads %cr3 only if it differs and *)
(* jumps to whatever stack it was given.                                   *)
(***************************************************************************)
switch_context(old, new) ==
    [cpu EXCEPT !.task = new.id,
                !.cr3 = IF old.cr3 # new.cr3 THEN new.cr3 ELSE @,
                !.rsp0 = IF new.kernel_stack_top # 0 THEN new.kernel_stack_top ELSE @,
                !.valid = new.stack_ptr = "saved"]

(***************************************************************************)
(* What reap_dead needs to drop the tasks it removes: the allocator, to    *)
(* free their stacks, and, if one of them left a file open that is to be   *)
(* written back, the locks of its file system and of the drive.            *)
(***************************************************************************)
MustFree(ts) == Kept(ts, current) # DOMAIN ts
MustWriteBack(ts) == \E i \in DOMAIN ts \ Kept(ts, current) : ts[i].unsaved

\* schedule() spins, interrupts disabled, on a lock of the task it interrupted or preempted.
Spins(ts) ==
    \/ sched_lock # Nobody
    \/ heap_lock # Nobody /\ MustFree(ts)
    \/ disk_lock # Nobody /\ MustWriteBack(ts)

\* The continuations once only the tasks of the queue q are left: the others are freed.
Forget(q, pcs) ==
    [t \in Ids |-> IF t < next_id /\ \A i \in DOMAIN q : q[i].id # t THEN "gone" ELSE pcs[t]]

\* schedule() once the dead are reaped and the sleepers woken: the queue is q, `current` is c.
Dispatch(q, c) ==
    \/ /\ ReadyAhead(q, c) = {}
       /\ tasks' = q
       /\ current' = c
       /\ UNCHANGED cpu
    \/ /\ ReadyAhead(q, c) # {}
       /\ \E next \in {NextReady(q, c)} :
             /\ tasks' = Switched(q, c, next)
             /\ current' = next
             /\ cpu' = switch_context(q[c], q[next])

(***************************************************************************)
(* schedule(), called with the queue ts (its clock already advanced) and   *)
(* with the continuations pcs: reap, wake, pick, switch, all with          *)
(* interrupts disabled and hence in one step.  (q is bound by a quantifier *)
(* over one value so that TLC computes it once.)                           *)
(***************************************************************************)
schedule(ts, pcs) ==
    \/ /\ Spins(ts)
       /\ stuck' = TRUE
       /\ tasks' = ts
       /\ UNCHANGED <<current, cpu, pc>>
    \/ /\ ~Spins(ts)
       /\ \E q \in {Wake(Reaped(ts, current))} :
             /\ pc' = Forget(q, pcs)
             /\ Dispatch(q, ReapedCurrent(ts, current))
       /\ UNCHANGED stuck

-----------------------------------------------------------------------------
(* Boot: kmain creates the tasks with interrupts disabled, then idles *)

spawn(mode) ==
    /\ pc[0] = "boot"
    /\ next_id < MaxTasks
    /\ tasks' = Append(tasks, new_task(next_id, mode))
    /\ next_id' = next_id + 1
    /\ pc' = [pc EXCEPT ![next_id] = "start"]
    /\ UNCHANGED <<current, cpu, due, sched_lock, heap_lock, disk_lock, stuck>>

\* interrupts::enable() after the spawns; hcf() then only halts.
enable_interrupts ==
    /\ pc[0] = "boot"
    /\ next_id > 1
    /\ pc' = [pc EXCEPT ![0] = "idle"]
    /\ UNCHANGED <<tasks, current, next_id, cpu, due, sched_lock, heap_lock, disk_lock, stuck>>

-----------------------------------------------------------------------------
(* The timer interrupt *)

InterruptsOn == ~stuck /\ pc[cpu.task] \notin {"boot", "start"}

\* One tick brings every deadline one tick nearer.
Tick(ts) == [i \in DOMAIN ts |->
                [ts[i] EXCEPT !.wake_at = IF @ > 0 THEN @ - 1 ELSE @]]

timer_handler ==
    /\ InterruptsOn
    /\ due' = [t \in Ids |-> IF due[t] > 0 THEN due[t] - 1 ELSE 0]
    /\ schedule(Tick(tasks), pc)
    /\ UNCHANGED <<next_id, sched_lock, heap_lock, disk_lock>>

-----------------------------------------------------------------------------
(* What the task on the CPU does *)

Executes(t, at) == ~stuck /\ cpu.task = t /\ pc[t] = at

Goto(t, to) == pc' = [pc EXCEPT ![t] = to]

\* The trampoline of a task that runs for the first time: enable interrupts.
entry_wrapper(t) ==
    /\ Executes(t, "start")
    /\ Goto(t, "run")
    /\ UNCHANGED <<tasks, current, next_id, cpu, due, sched_lock, heap_lock, disk_lock, stuck>>

\* Only kernel tasks can reach yield_now and sleep: no system call does.
yield_now(t) ==
    /\ Executes(t, "run")
    /\ tasks[current].mode = "Kernel"
    /\ schedule(tasks, pc)
    /\ UNCHANGED <<next_id, due, sched_lock, heap_lock, disk_lock>>

\* sleep(n), first instruction: the clock is read with interrupts enabled.
sleep_read(t, n) ==
    /\ Executes(t, "run")
    /\ tasks[current].mode = "Kernel"
    /\ due' = [due EXCEPT ![t] = n]
    /\ Goto(t, "sleep")
    /\ UNCHANGED <<tasks, current, next_id, cpu, sched_lock, heap_lock, disk_lock, stuck>>

AsSleeping(t) == [tasks EXCEPT ![current].state = "Sleeping",
                               ![current].wake_at = due[t]]

\* sleep(n), critical section: the deadline and the state are written together.
sleep_mark(t) ==
    /\ Executes(t, "sleep")
    /\ sched_lock = Nobody
    /\ tasks' = AsSleeping(t)
    /\ Goto(t, "slept")
    /\ UNCHANGED <<current, next_id, cpu, due, sched_lock, heap_lock, disk_lock, stuck>>

\* sleep(n), last call.  The timer may have switched away and back before it.
sleep_schedule(t) ==
    /\ Executes(t, "slept")
    /\ schedule(tasks, [pc EXCEPT ![t] = "run"])
    /\ UNCHANGED <<next_id, due, sched_lock, heap_lock, disk_lock>>

AsDead(unsaved) == [tasks EXCEPT ![current].state = "Dead", ![current].unsaved = unsaved]

\* exit(): SYS_EXIT of a user task, the return of a kernel task's entry.  The files a
\* user task has open are dropped with it, when it is reaped.
exit_mark(t, unsaved) ==
    /\ Executes(t, "run")
    /\ unsaved => tasks[current].mode = "User"
    /\ sched_lock = Nobody
    /\ tasks' = AsDead(unsaved)
    /\ Goto(t, "exit")
    /\ UNCHANGED <<current, next_id, cpu, due, sched_lock, heap_lock, disk_lock, stuck>>

\* exit(), after the critical section: were schedule() to return, the task would halt forever.
exit_schedule(t) ==
    /\ Executes(t, "exit")
    /\ schedule(tasks, [pc EXCEPT ![t] = "hlt"])
    /\ UNCHANGED <<next_id, due, sched_lock, heap_lock, disk_lock>>

\* with_fd_table, get_cwd, set_cwd: SCHEDULER is taken with interrupts enabled.
lock_scheduler(t) ==
    /\ Executes(t, "run")
    /\ tasks[current].mode = "User"
    /\ sched_lock = Nobody
    /\ sched_lock' = t
    /\ Goto(t, "sched_section")
    /\ UNCHANGED <<tasks, current, next_id, cpu, due, heap_lock, disk_lock, stuck>>

unlock_scheduler(t) ==
    /\ Executes(t, "sched_section")
    /\ sched_lock' = Nobody
    /\ Goto(t, "run")
    /\ UNCHANGED <<tasks, current, next_id, cpu, due, heap_lock, disk_lock, stuck>>

\* Any allocation or deallocation outside schedule().
lock_heap(t) ==
    /\ Executes(t, "run")
    /\ heap_lock = Nobody
    /\ heap_lock' = t
    /\ Goto(t, "heap_section")
    /\ UNCHANGED <<tasks, current, next_id, cpu, due, sched_lock, disk_lock, stuck>>

unlock_heap(t) ==
    /\ Executes(t, "heap_section")
    /\ heap_lock' = Nobody
    /\ Goto(t, "run")
    /\ UNCHANGED <<tasks, current, next_id, cpu, due, sched_lock, disk_lock, stuck>>

\* open, mkdir, unlink, rmdir: a file system's lock, outside SCHEDULER.
lock_disk(t) ==
    /\ Executes(t, "run")
    /\ tasks[current].mode = "User"
    /\ disk_lock = Nobody
    /\ disk_lock' = t
    /\ Goto(t, "disk_section")
    /\ UNCHANGED <<tasks, current, next_id, cpu, due, sched_lock, heap_lock, stuck>>

unlock_disk(t) ==
    /\ Executes(t, "disk_section")
    /\ disk_lock' = Nobody
    /\ Goto(t, "run")
    /\ UNCHANGED <<tasks, current, next_id, cpu, due, sched_lock, heap_lock, stuck>>

\* The spin loop of a schedule() whose lock will never be released.
spinning == stuck /\ UNCHANGED vars

Next ==
    \/ \E mode \in Modes : spawn(mode)
    \/ enable_interrupts
    \/ timer_handler
    \/ \E t \in Ids :
        \/ entry_wrapper(t)
        \/ yield_now(t)
        \/ \E n \in 0 .. MaxSleep : sleep_read(t, n)
        \/ sleep_mark(t)
        \/ sleep_schedule(t)
        \/ \E unsaved \in BOOLEAN : exit_mark(t, unsaved)
        \/ exit_schedule(t)
        \/ lock_scheduler(t)
        \/ unlock_scheduler(t)
        \/ lock_heap(t)
        \/ unlock_heap(t)
        \/ lock_disk(t)
        \/ unlock_disk(t)
    \/ spinning

Spec == Init /\ [][Next]_vars

(***************************************************************************)
(* Fairness: kmain enables interrupts once it has spawned its tasks; the   *)
(* APIC timer is periodic, so an enabled interrupt is taken; and a task    *)
(* that has just been switched to, interrupts disabled, gets to the        *)
(* instruction that enables them.  Nothing is assumed of what a task does  *)
(* afterwards: it may compute forever.                                     *)
(***************************************************************************)
FairSpec == /\ Spec
            /\ WF_vars(enable_interrupts)
            /\ WF_vars(timer_handler)
            /\ WF_vars(\E t \in Ids : entry_wrapper(t))

\* In addition a task that keeps getting the CPU gets out of a short critical section.
SectionsFairSpec == /\ FairSpec
                    /\ SF_vars(\E t \in Ids : \/ unlock_scheduler(t)
                                                \/ unlock_heap(t) \/ unlock_disk(t))

-----------------------------------------------------------------------------
(* Properties *)

Pcs == {"none", "boot", "idle", "start", "run", "sleep", "slept", "exit", "hlt",
        "sched_section", "heap_section", "disk_section", "gone"}

\* Types of the scheduler's state; `current` is an index of the queue.
TypeOK ==
    /\ tasks \in Seq(Task)
    /\ current \in 1 .. Len(tasks)
    /\ next_id \in 1 .. MaxTasks
    /\ cpu \in [task : Ids, cr3 : Ids, rsp0 : Ids, valid : BOOLEAN]
    /\ pc \in [Ids -> Pcs]
    /\ due \in [Ids -> 0 .. MaxSleep]
    /\ sched_lock \in Ids \cup {Nobody}
    /\ heap_lock \in Ids \cup {Nobody}
    /\ disk_lock \in Ids \cup {Nobody}
    /\ stuck \in BOOLEAN

(***************************************************************************)
(* Scheduler.current denotes the task whose stack the CPU executes on,     *)
(* through every removal reap_dead makes before it: sleep, exit and the    *)
(* fd-table calls write to tasks[current] as "me".                         *)
(***************************************************************************)
CurrentIsOnCpu == tasks[current].id = cpu.task

(***************************************************************************)
(* The stack pointer switch_context loads was saved by an earlier switch   *)
(* (or prepared by spawn), never the stale one of a task that already      *)
(* runs: schedule() never switches a task to itself.                       *)
(***************************************************************************)
SwitchesToSavedStack == cpu.valid

(***************************************************************************)
(* The stack the CPU runs on and, for a user task, the stack the TSS names *)
(* for the next interrupt belong to a task that has not been reaped, the   *)
(* running one, and %cr3 is that task's page table.                        *)
(***************************************************************************)
CpuContextMatchesTask ==
    /\ cpu.cr3 = tasks[current].cr3
    /\ tasks[current].mode = "User" => cpu.rsp0 = tasks[current].kernel_stack_top

\* No step frees the stack it executes on: a Dead task is reaped from another task's stack.
NeverFreesOwnStack == [][pc[cpu.task] # "gone" => pc'[cpu.task] # "gone"]_vars

\* A Sleeping task has an alarm, and only a Sleeping one: no sleeper is forgotten.
SleeperHasAlarm ==
    \A i \in DOMAIN tasks : tasks[i].state = "Sleeping" <=> tasks[i].wake_at # NoWake

(***************************************************************************)
(* exit() does not return: a task that has given up the CPU as Dead never  *)
(* executes the code after schedule() (the hlt loop of exit, the           *)
(* unreachable!() of entry_wrapper).                                       *)
(***************************************************************************)
DeadNeverResumes == pc[cpu.task] # "hlt"

(***************************************************************************)
(* A preempted task never holds SCHEDULER (the timer would have got stuck  *)
(* instead of switching), so nobody but schedule() ever waits for it.      *)
(***************************************************************************)
LockHolderOnCpu == sched_lock # Nobody => sched_lock = cpu.task

\* No death is lost: at most one Dead task waits to be reaped, besides the current one.
OneCorpse == \A i, j \in DOMAIN tasks :
                (tasks[i].state = "Dead" /\ tasks[j].state = "Dead" /\ i # j)
                    => current \in {i, j}

-----------------------------------------------------------------------------
(* The inductive invariant: what schedule() relies on and re-establishes *)

(***************************************************************************)
(* Task 0 is first in the queue, never sleeps or exits, and is Ready       *)
(* whenever another task has the CPU: next_ready never fails then, nor     *)
(* wraps around to `current`.                                              *)
(***************************************************************************)
IdleFirst ==
    /\ tasks[1].id = 0
    /\ tasks[1].state \in {"Ready", "Running"}
    /\ tasks[1].state = "Running" <=> current = 1
    /\ pc[0] \in {"boot", "idle"}
    /\ pc[0] = "boot" => current = 1

(***************************************************************************)
(* A task that is off the CPU is not Running (one that is preempted while  *)
(* it marks itself Sleeping or Dead is not resurrected by the Running ->   *)
(* Ready transition of schedule()) and has its stack pointer saved.        *)
(***************************************************************************)
OffCpuSaved ==
    \A i \in DOMAIN tasks :
        i # current => tasks[i].state # "Running" /\ tasks[i].stack_ptr = "saved"

\* The current task is Running, or between its mark and its call of schedule().
CurrentState ==
    \/ tasks[current].state = "Running"
    \/ tasks[current].state = "Sleeping" /\ pc[cpu.task] = "slept"
    \/ tasks[current].state = "Dead" /\ pc[cpu.task] = "exit"

\* Ids are handed out once; only a user task's kernel stack is ever needed, and it has one.
QueueIds ==
    /\ \A i, j \in DOMAIN tasks : tasks[i].id = tasks[j].id => i = j
    /\ \A i \in DOMAIN tasks :
          /\ tasks[i].id < next_id
          /\ tasks[i].mode = "User" => tasks[i].kernel_stack_top # 0

\* A task in exit(), past the critical section, is Dead; a task in the queue is not freed.
PcMatchesState ==
    \A i \in DOMAIN tasks :
        /\ pc[tasks[i].id] \in {"exit", "hlt"} => tasks[i].state = "Dead"
        /\ pc[tasks[i].id] # "gone"

SchedInv ==
    /\ TypeOK
    /\ CurrentIsOnCpu
    /\ SwitchesToSavedStack
    /\ CpuContextMatchesTask
    /\ SleeperHasAlarm
    /\ LockHolderOnCpu
    /\ OneCorpse
    /\ IdleFirst
    /\ OffCpuSaved
    /\ CurrentState
    /\ QueueIds
    /\ PcMatchesState

-----------------------------------------------------------------------------
(* Liveness *)

InQueue(t, s) == \E i \in DOMAIN tasks : tasks[i].id = t /\ tasks[i].state \in s

\* Starvation freedom: a Ready task gets the CPU, unless schedule() hangs on a lock.
ReadyRuns == \A t \in Ids : InQueue(t, {"Ready"}) ~> (cpu.task = t \/ stuck)

\* A sleeping task wakes up, unless schedule() hangs on a lock.
SleeperWakes == \A t \in Ids : InQueue(t, {"Sleeping"}) ~> (~InQueue(t, {"Sleeping"}) \/ stuck)

\* A Dead task is eventually freed, unless schedule() hangs on a lock.
DeadReaped == \A t \in Ids : InQueue(t, {"Dead"}) ~> (pc[t] = "gone" \/ stuck)

(***************************************************************************)
(* A system call that uses the task's fd table or cwd gets through its     *)
(* critical section (what `ps` and `cat` of the shell promise).            *)
(***************************************************************************)
SectionCompletes == \A t \in Ids : (pc[t] = "sched_section") ~> (pc[t] # "sched_section")
=============================================================================
