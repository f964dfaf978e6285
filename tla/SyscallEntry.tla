---------------------------- MODULE SyscallEntry ----------------------------
(***************************************************************************)
(* The way of a user task into the kernel and back: the syscall            *)
(* instruction, syscall_entry of cpu/syscall.rs one instruction at a time, *)
(* and sysretq.                                                            *)
(*                                                                         *)
(* All user tasks share three things here: the GS base that swapgs         *)
(* exchanges (nothing saves it on a context switch), the user_rsp slot of  *)
(* CPU_LOCAL and SYSCALL_STACK, on which every call starts at the top.     *)
(* SFMask is empty, so interrupts stay enabled and the timer may switch to *)
(* another task between any two instructions.                              *)
(*                                                                         *)
(* A register value is written <<t, r>>: what the user code of task t had  *)
(* in r when it executed syscall.                                          *)
(***************************************************************************)
EXTENDS Naturals, Sequences

CONSTANTS
    Users,      \* the user tasks
    Idle        \* what runs when no user task does: kernel tasks make no system calls

ASSUME IdleAssumption == Idle \notin Users

VARIABLES
    cpu,        \* the task on the CPU
    pc,         \* the instruction each task executes next
    reg,        \* the registers of each task; "rsp" while it is on its user stack
    depth,      \* how many words of SYSCALL_STACK lie above the task's rsp
    gs,         \* which base is active: "user" (0) or "kernel" (CPU_LOCAL)
    user_rsp,   \* CPU_LOCAL.user_rsp
    stack,      \* SYSCALL_STACK, from the top: the words of one register frame
    intact,     \* is the context a preempted task left on SYSCALL_STACK still there?
    halted,     \* page_fault_handler has panicked: hcf with interrupts disabled
    overlapped  \* history: a call began while another was under way, or after an exit

vars == <<cpu, pc, reg, depth, gs, user_rsp, stack, intact, halted, overlapped>>

\* The order of the push instructions.
Pushed == <<"rcx", "r11", "rax", "rdi", "rsi", "rdx", "r10", "r8", "r9",
            "rbx", "rbp", "r12", "r13", "r14", "r15">>

\* Mutant: rbp and rbx are popped in the order they were pushed.
Bug_PopOrder == <<"r15", "r14", "r13", "r12", "rbx", "rbp", "r9", "r8", "r10",
                  "rdx", "rsi", "rdi", "skip", "r11", "rcx">>

\* The order of the pop instructions; "skip" is add rsp, 8: rax holds the result.
Popped == <<"r15", "r14", "r13", "r12", "rbp", "rbx", "r9", "r8", "r10",
            "rdx", "rsi", "rdi", "skip", "r11", "rcx">>

FrameSize == 15
Reg == {"rax", "rcx", "r11", "rdi", "rsi", "rdx", "r10", "r8", "r9",
        "rbx", "rbp", "r12", "r13", "r14", "r15", "rsp"}
CallerSaved == {"rcx", "r11", "rdi", "rsi", "rdx", "r10", "r8", "r9"}

Junk == <<Idle, "junk">>                    \* a value of the kernel's own
Value == (Users \X (Reg \cup {"rip", "rflags"})) \cup {Junk}

OnStackAt == {"push", "args", "handler", "pop", "restore_rsp"}
InsideAt == OnStackAt \cup {"save_rsp", "load_rsp", "swapgs_out"}
PC == InsideAt \cup {"new", "user", "swapgs_in", "sysretq", "dead", "lost"}

\* t's rsp points into SYSCALL_STACK.
OnStack(t) == pc[t] \in OnStackAt
\* t is between syscall and sysretq, or will never come out again.
InCall(t) == pc[t] \notin {"new", "user"}

TypeOK ==
    /\ cpu \in Users \cup {Idle}
    /\ pc \in [Users -> PC]
    /\ reg \in [Users -> [Reg -> Value]]
    /\ depth \in [Users -> 0 .. FrameSize]
    /\ gs \in {"user", "kernel"}
    /\ user_rsp \in Value
    /\ stack \in [1 .. FrameSize -> Value]
    /\ intact \in [Users -> BOOLEAN]
    /\ halted \in BOOLEAN
    /\ overlapped \in BOOLEAN

\* init: KernelGsBase holds CPU_LOCAL, which swapgs makes the active base. The user
\* tasks are in the scheduler's queue and have not run yet.
Init ==
    /\ cpu = Idle
    /\ pc = [t \in Users |-> "new"]
    /\ reg = [t \in Users |-> [r \in Reg |-> Junk]]
    /\ depth = [t \in Users |-> 0]
    /\ gs = "user"
    /\ user_rsp = Junk
    /\ stack = [i \in 1 .. FrameSize |-> Junk]
    /\ intact = [t \in Users |-> TRUE]
    /\ halted = FALSE
    /\ overlapped = FALSE

\* What user code has in its registers.
UserRegs(t) == [r \in Reg |-> <<t, r>>]

\* t executes the instruction at `from`.
At(t, from) == ~halted /\ cpu = t /\ pc[t] = from
Goto(t, to) == pc' = [pc EXCEPT ![t] = to]

\* A word below t's frame is written: a context some other task saved there is gone.
Clobber(t) == intact' = [u \in Users |-> intact[u] /\ (u = t \/ ~OnStack(u))]

\* gs:[...] with the user's base 0 is an access to page 0, which no task has mapped.
page_fault(t) ==
    /\ gs = "user"
    /\ halted' = TRUE
    /\ UNCHANGED <<cpu, pc, reg, depth, gs, user_rsp, stack, intact, overlapped>>

\* user_entry_wrapper, jump_to_usermode: a new task enters user mode by iretq.
jump_to_usermode(t) ==
    /\ At(t, "new")
    /\ Goto(t, "user")
    /\ reg' = [reg EXCEPT ![t] = UserRegs(t)]
    /\ UNCHANGED <<cpu, depth, gs, user_rsp, stack, intact, halted, overlapped>>

\* What the syscall instruction makes of them: the return address goes to rcx, the flags
\* to r11.
CallRegs(t) ==
    [r \in Reg |-> <<t, IF r = "rcx" THEN "rip" ELSE IF r = "r11" THEN "rflags" ELSE r>>]

\* syscall0 ... syscall5 of vlib.
syscall(t) ==
    /\ At(t, "user")
    /\ Goto(t, "swapgs_in")
    /\ reg' = [reg EXCEPT ![t] = CallRegs(t)]
    /\ overlapped' = (overlapped \/ \E u \in Users \ {t} : InCall(u))
    /\ UNCHANGED <<cpu, depth, gs, user_rsp, stack, intact, halted>>

Other(base) == IF base = "user" THEN "kernel" ELSE "user"

\* Mutant: the base is set, not exchanged.
Bug_SetKernelBase(t) ==
    /\ At(t, "swapgs_in")
    /\ gs' = "kernel"
    /\ Goto(t, "save_rsp")
    /\ UNCHANGED <<cpu, reg, depth, user_rsp, stack, intact, halted, overlapped>>

swapgs_in(t) ==
    /\ At(t, "swapgs_in")
    /\ gs' = Other(gs)
    /\ Goto(t, "save_rsp")
    /\ UNCHANGED <<cpu, reg, depth, user_rsp, stack, intact, halted, overlapped>>

\* mov gs:[0], rsp
save_rsp(t) ==
    /\ At(t, "save_rsp")
    /\ \/ page_fault(t)
       \/ /\ gs = "kernel"
          /\ user_rsp' = reg[t]["rsp"]
          /\ Goto(t, "load_rsp")
          /\ UNCHANGED <<cpu, reg, depth, gs, stack, intact, halted, overlapped>>

\* mov rsp, gs:[8]
load_rsp(t) ==
    /\ At(t, "load_rsp")
    /\ \/ page_fault(t)
       \/ /\ gs = "kernel"
          /\ depth' = [depth EXCEPT ![t] = 0]
          /\ reg' = [reg EXCEPT ![t]["rsp"] = Junk]
          /\ Goto(t, "push")
          /\ UNCHANGED <<cpu, gs, user_rsp, stack, intact, halted, overlapped>>

push(t) ==
    /\ At(t, "push")
    /\ depth' = [depth EXCEPT ![t] = @ + 1]
    /\ stack' = [stack EXCEPT ![depth[t] + 1] = reg[t][Pushed[depth[t] + 1]]]
    /\ Goto(t, IF depth[t] + 1 = FrameSize THEN "args" ELSE "push")
    /\ Clobber(t)
    /\ UNCHANGED <<cpu, reg, gs, user_rsp, halted, overlapped>>

\* The word at [rsp + i*8].
Word(t, i) == stack[depth[t] - i]

\* Mutant: one offset is a word short.
Bug_Arguments(t) == [reg[t] EXCEPT
    !["rdi"] = reg[t]["rax"], !["rsi"] = Word(t, 11), !["rdx"] = Word(t, 10),
    !["rcx"] = Word(t, 8), !["r8"] = Word(t, 8), !["r9"] = Word(t, 7)]

\* The registers of the C calling convention, from rax and the words just pushed.
Arguments(t) == [reg[t] EXCEPT
    !["rdi"] = reg[t]["rax"], !["rsi"] = Word(t, 11), !["rdx"] = Word(t, 10),
    !["rcx"] = Word(t, 9), !["r8"] = Word(t, 8), !["r9"] = Word(t, 7)]

call_handler(t) ==
    /\ At(t, "args")
    /\ reg' = [reg EXCEPT ![t] = Arguments(t)]
    /\ Goto(t, "handler")
    /\ Clobber(t)
    /\ UNCHANGED <<cpu, depth, gs, user_rsp, stack, halted, overlapped>>

\* syscall_handler returns: rax is the result, the caller-saved registers are lost.
handler_returns(t) ==
    /\ At(t, "handler")
    /\ reg' = [reg EXCEPT ![t] = [r \in Reg |->
                  IF r \in CallerSaved \cup {"rax"} THEN Junk ELSE reg[t][r]]]
    /\ Goto(t, "pop")
    /\ Clobber(t)
    /\ UNCHANGED <<cpu, depth, gs, user_rsp, stack, halted, overlapped>>

\* SYS_EXIT: sched::exit never returns, so the second swapgs is never executed.
handler_exits(t) ==
    /\ At(t, "handler")
    /\ Goto(t, "dead")
    /\ cpu' = Idle
    /\ Clobber(t)
    /\ UNCHANGED <<reg, depth, gs, user_rsp, stack, halted, overlapped>>

pop(t) ==
    /\ At(t, "pop")
    /\ LET r == Popped[FrameSize + 1 - depth[t]] IN
         reg' = IF r = "skip" THEN reg ELSE [reg EXCEPT ![t][r] = stack[depth[t]]]
    /\ depth' = [depth EXCEPT ![t] = @ - 1]
    /\ Goto(t, IF depth[t] = 1 THEN "restore_rsp" ELSE "pop")
    /\ UNCHANGED <<cpu, gs, user_rsp, stack, intact, halted, overlapped>>

\* mov rsp, gs:[0]
restore_rsp(t) ==
    /\ At(t, "restore_rsp")
    /\ \/ page_fault(t)
       \/ /\ gs = "kernel"
          /\ reg' = [reg EXCEPT ![t]["rsp"] = user_rsp]
          /\ Goto(t, "swapgs_out")
          /\ UNCHANGED <<cpu, depth, gs, user_rsp, stack, intact, halted, overlapped>>

swapgs_out(t) ==
    /\ At(t, "swapgs_out")
    /\ gs' = Other(gs)
    /\ Goto(t, "sysretq")
    /\ UNCHANGED <<cpu, reg, depth, user_rsp, stack, intact, halted, overlapped>>

sysretq(t) ==
    /\ At(t, "sysretq")
    /\ Goto(t, "user")
    /\ UNCHANGED <<cpu, reg, depth, gs, user_rsp, stack, intact, halted, overlapped>>

\* An interrupt, and the switch to task u if schedule() decides for one (u = cpu: it
\* returns to the same task). In kernel mode the CPU stays on the stack it is on, so the
\* frame and the saved registers go below the task's rsp: words of SYSCALL_STACK when
\* the task is on it. A task whose saved context was overwritten resumes anywhere.
timer_handler(u) ==
    /\ ~halted
    /\ u \notin {t \in Users : pc[t] \in {"dead", "lost"}}
    /\ cpu' = u
    /\ IF cpu \in Users /\ OnStack(cpu)
         THEN /\ intact' = [v \in Users |-> v = cpu \/ (intact[v] /\ ~OnStack(v))]
              /\ stack' = [i \in 1 .. FrameSize |-> IF i > depth[cpu] THEN Junk ELSE stack[i]]
         ELSE UNCHANGED <<intact, stack>>
    /\ pc' = IF u \in Users /\ u # cpu /\ OnStack(u) /\ ~intact[u]
               THEN [pc EXCEPT ![u] = "lost"] ELSE pc
    /\ UNCHANGED <<reg, depth, gs, user_rsp, halted, overlapped>>

\* rust_panic, hcf: a hlt loop that no interrupt ends, the fault's gate disabled them.
hcf == halted /\ UNCHANGED vars

\* One instruction of task t.
Step(t) ==
    \/ jump_to_usermode(t) \/ syscall(t) \/ swapgs_in(t) \/ save_rsp(t) \/ load_rsp(t)
    \/ push(t) \/ call_handler(t) \/ handler_returns(t) \/ handler_exits(t) \/ pop(t)
    \/ restore_rsp(t) \/ swapgs_out(t) \/ sysretq(t)

Next == (\E t \in Users : Step(t)) \/ (\E u \in Users \cup {Idle} : timer_handler(u)) \/ hcf

Spec == Init /\ [][Next]_vars
-----------------------------------------------------------------------------
\* What vlib's asm blocks promise the compiler: a call changes rax, rcx and r11 only,
\* and comes back on the caller's own stack.
Preserved(t) == \A r \in Reg \ {"rax", "rcx", "r11"} : reg[t][r] = <<t, r>>

\* t is about to continue in user mode, or does: where its syscall was.
ReturnsRight(t) ==
    /\ pc[t] \in {"sysretq", "user"} => Preserved(t)
    /\ pc[t] = "sysretq" => reg[t]["rcx"] = <<t, "rip">> /\ reg[t]["r11"] = <<t, "rflags">>
    /\ pc[t] # "lost"

\* The C arguments are the call's number and the registers vlib passes, in their order.
ArgumentsArrived(t) ==
    /\ reg[t]["rdi"] = <<t, "rax">> /\ reg[t]["rsi"] = <<t, "rdi">>
    /\ reg[t]["rdx"] = <<t, "rsi">> /\ reg[t]["rcx"] = <<t, "rdx">>
    /\ reg[t]["r8"] = <<t, "r10">>  /\ reg[t]["r9"] = <<t, "r8">>

(* What holds of task t at each instruction while calls exclude each other.            *)
Context(t) ==
    /\ pc[t] = "user" => Preserved(t)
    /\ pc[t] \in {"swapgs_in", "save_rsp", "load_rsp"} => reg[t] = CallRegs(t)
    /\ pc[t] \in OnStackAt \cup {"load_rsp"} => user_rsp = <<t, "rsp">>
    /\ pc[t] = "push" => depth[t] < FrameSize
    /\ pc[t] \in {"args", "handler"} => depth[t] = FrameSize
    /\ pc[t] = "pop" => depth[t] > 0
    /\ pc[t] \in OnStackAt \ {"restore_rsp"} =>
          \A i \in 1 .. depth[t] : stack[i] = CallRegs(t)[Pushed[i]]
    /\ pc[t] \in {"push", "args"} => \A r \in Reg \ {"rsp"} : reg[t][r] = CallRegs(t)[r]
    /\ pc[t] = "handler" => ArgumentsArrived(t)
    /\ pc[t] = "pop" => \A i \in depth[t] + 1 .. FrameSize :
                          Pushed[i] # "rax" => reg[t][Pushed[i]] = CallRegs(t)[Pushed[i]]
    /\ pc[t] \in {"restore_rsp", "swapgs_out", "sysretq"} =>
          \A r \in Reg \ {"rax", "rsp"} : reg[t][r] = CallRegs(t)[r]
    /\ pc[t] \in {"swapgs_out", "sysretq"} => reg[t]["rsp"] = <<t, "rsp">>
    /\ pc[t] # "lost"
    /\ intact[t]

\* t has executed the first swapgs and not the second, and may never come to it.
Inside(t) == pc[t] \in InsideAt \cup {"dead"}

(* The inductive invariant behind ExclusiveCallsSound: at most one task is in a call,  *)
(* the kernel's base is active exactly while one is inside or has exited, and the      *)
(* frame, the slot and the registers are that task's at every instruction.             *)
EntryInv ==
    ~overlapped =>
        /\ ~halted
        /\ \A t, u \in Users : InCall(t) /\ InCall(u) => t = u
        /\ gs = "kernel" <=> \E t \in Users : Inside(t)
        /\ \A t \in Users : Context(t)

(* As long as no user task enters the kernel while another one is inside, or after one *)
(* has exited, every call returns to its caller with all registers preserved, however  *)
(* often the timer preempts it inside syscall_entry or the handler, and no access      *)
(* through GS faults. This is what one shared stack, one user_rsp slot and a swapgs    *)
(* that no context switch knows about can guarantee.                                   *)
ExclusiveCallsSound ==
    ~overlapped => ~halted /\ \A t \in Users : ReturnsRight(t)

(* The handler receives the call's number and its arguments in the order vlib passes   *)
(* them (rax, rdi, rsi, rdx, r10, r8), through the offsets 11*8 ... 7*8 of the frame.  *)
HandlerGetsArguments ==
    ~overlapped => \A t \in Users : pc[t] = "handler" => ArgumentsArrived(t)

(* Two user tasks whose calls do overlap cannot corrupt each other unnoticed: the base *)
(* that the second swapgs leaves active makes one of them fault, and the kernel halt,  *)
(* before either returns to user mode with a register or a stack of the other.         *)
FaultsBeforeCorruption == \A t \in Users : ReturnsRight(t)

AtMostTwoUsers == \A t, u, v \in Users : t = u \/ u = v \/ t = v

(* The inductive invariant behind FaultsBeforeCorruption: an odd number of swapgs, and *)
(* with it the kernel's base, means that exactly one of the two tasks is inside. The   *)
(* one that came second cannot pass its first access through GS while the other stays, *)
(* so the stack and the slot never serve two calls.                                    *)
PairInv ==
    AtMostTwoUsers =>
        /\ gs = "kernel" <=> \E t \in Users : Inside(t) /\ \A u \in Users \ {t} : ~Inside(u)
        /\ \A t \in Users : \A u \in Users \ {t} :
              Inside(t) /\ Inside(u) => "save_rsp" \in {pc[t], pc[u]}
        /\ \A t \in Users : Context(t)
=============================================================================
