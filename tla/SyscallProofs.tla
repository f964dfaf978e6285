---------------------------- MODULE SyscallProofs ----------------------------
(***************************************************************************)
(* Proofs about SyscallEntry: for any set of user tasks and however the    *)
(* timer preempts them, calls that exclude each other return to their      *)
(* callers with everything preserved.                                      *)
(***************************************************************************)
EXTENDS SyscallEntry, TLAPS

(* The frame has a word for every register but rsp, and each pop (or add rsp, 8) of    *)
(* syscall_entry meets the word that the matching push wrote.                          *)
LEMMA FrameMatches ==
    /\ \A i \in 1 .. FrameSize :
          /\ Pushed[i] \in Reg \ {"rsp"}
          /\ Popped[FrameSize + 1 - i] = IF Pushed[i] = "rax" THEN "skip" ELSE Pushed[i]
    /\ \A i, j \in 1 .. FrameSize : Pushed[i] = Pushed[j] => i = j
    /\ \A r \in Reg \ {"rsp"} : \E i \in 1 .. FrameSize : Pushed[i] = r
<1>1. \A i \in 1 .. FrameSize : i = 1 \/ i = 2 \/ i = 3 \/ i = 4 \/ i = 5 \/ i = 6 \/ i = 7
        \/ i = 8 \/ i = 9 \/ i = 10 \/ i = 11 \/ i = 12 \/ i = 13 \/ i = 14 \/ i = 15
  BY DEF FrameSize
<1>2. ASSUME NEW i \in 1 .. FrameSize
      PROVE  /\ Pushed[i] \in Reg \ {"rsp"}
             /\ Popped[FrameSize + 1 - i] = IF Pushed[i] = "rax" THEN "skip" ELSE Pushed[i]
  BY <1>1 DEF Pushed, Popped, Reg, FrameSize
<1>3. ASSUME NEW i \in 1 .. FrameSize, NEW j \in 1 .. FrameSize, Pushed[i] = Pushed[j]
      PROVE  i = j
  BY <1>1, <1>3 DEF Pushed, FrameSize
<1>4. ASSUME NEW r \in Reg \ {"rsp"} PROVE \E i \in 1 .. FrameSize : Pushed[i] = r
  BY DEF Pushed, Reg, FrameSize
<1>5. QED BY <1>2, <1>3, <1>4

(* Register values of user code and of the syscall instruction are values.             *)
LEMMA UserValues ==
    ASSUME NEW t \in Users
    PROVE  /\ UserRegs(t) \in [Reg -> Value]
           /\ CallRegs(t) \in [Reg -> Value]
           /\ Junk \in Value
BY DEF UserRegs, CallRegs, Value, Reg, Junk

(* An instruction that writes one register of one task leaves all of them well-typed.  *)
LEMMA RegUpdate ==
    ASSUME NEW f \in [Users -> [Reg -> Value]], NEW t \in Users, NEW r, NEW v \in Value
    PROVE  [f EXCEPT ![t][r] = v] \in [Users -> [Reg -> Value]]
OBVIOUS

(* Type correctness is inductive on its own, but for the depth of the stack, which     *)
(* is bounded because the pushes and pops are counted.                                 *)
DepthOK ==
    \A t \in Users :
        /\ pc[t] = "push" => depth[t] < FrameSize
        /\ pc[t] \in {"args", "handler"} => depth[t] = FrameSize
        /\ pc[t] = "pop" => depth[t] > 0

LEMMA TypeInit == Init => TypeOK /\ DepthOK
<1> SUFFICES ASSUME Init PROVE TypeOK /\ DepthOK OBVIOUS
<1>1. Junk \in Value BY DEF Value
<1>2. "new" \in PC BY DEF PC
<1>3. reg \in [Users -> [Reg -> Value]] BY <1>1 DEF Init
<1>4. stack \in [1 .. FrameSize -> Value] /\ user_rsp \in Value BY <1>1 DEF Init
<1>5. pc \in [Users -> PC] /\ depth \in [Users -> 0 .. FrameSize] BY <1>2 DEF Init, FrameSize
<1>6. intact \in [Users -> BOOLEAN] BY DEF Init
<1>7. TypeOK BY <1>3, <1>4, <1>5, <1>6 DEF Init, TypeOK
<1>8. DepthOK BY DEF Init, DepthOK
<1>9. QED BY <1>7, <1>8

LEMMA TypeNext == TypeOK /\ DepthOK /\ [Next]_vars => TypeOK' /\ DepthOK'
<1> SUFFICES ASSUME TypeOK, DepthOK, [Next]_vars PROVE TypeOK' /\ DepthOK'
  OBVIOUS
<1> USE DEF TypeOK, DepthOK, PC, InsideAt, OnStackAt
<1>0. FrameSize \in Nat /\ FrameSize = 15
  BY DEF FrameSize
<1>1. ASSUME NEW t \in Users, jump_to_usermode(t) PROVE TypeOK' /\ DepthOK'
  BY <1>1, UserValues DEF jump_to_usermode, At, Goto
<1>2. ASSUME NEW t \in Users, syscall(t) PROVE TypeOK' /\ DepthOK'
  BY <1>2, UserValues DEF syscall, At, Goto
<1>3. ASSUME NEW t \in Users, swapgs_in(t) PROVE TypeOK' /\ DepthOK'
  BY <1>3 DEF swapgs_in, At, Goto, Other
<1>4. ASSUME NEW t \in Users, save_rsp(t) PROVE TypeOK' /\ DepthOK'
  <2>1. reg[t]["rsp"] \in Value BY DEF Reg
  <2>2. CASE page_fault(t) BY <2>2 DEF page_fault
  <2>3. CASE gs = "kernel" BY <1>4, <2>1, <2>3 DEF save_rsp, page_fault, At, Goto
  <2>4. QED BY <1>4, <2>2, <2>3 DEF save_rsp
<1>5. ASSUME NEW t \in Users, load_rsp(t) PROVE TypeOK' /\ DepthOK'
  <2>1. CASE page_fault(t) BY <2>1 DEF page_fault
  <2>2. CASE reg' = [reg EXCEPT ![t]["rsp"] = Junk] /\ gs = "kernel"
    <3>1. reg' \in [Users -> [Reg -> Value]] BY <2>2, UserValues, RegUpdate
    <3>2. depth' = [depth EXCEPT ![t] = 0] /\ pc' = [pc EXCEPT ![t] = "push"]
          /\ UNCHANGED <<cpu, gs, user_rsp, stack, intact, halted, overlapped>>
      BY <1>5, <2>2 DEF load_rsp, Goto, page_fault
    <3>3. depth' \in [Users -> 0 .. FrameSize] BY <3>2, <1>0
    <3>4. DepthOK' BY <3>2, <3>3, <1>0
    <3>5. QED BY <3>1, <3>2, <3>3, <3>4
  <2>3. QED BY <1>5, <2>1, <2>2 DEF load_rsp
<1>6. ASSUME NEW t \in Users, push(t) PROVE TypeOK' /\ DepthOK'
  <2>1. depth[t] + 1 \in 1 .. FrameSize BY <1>6, <1>0 DEF push, At
  <2>2. reg[t][Pushed[depth[t] + 1]] \in Value BY <2>1, FrameMatches
  <2>3. QED BY <1>6, <1>0, <2>1, <2>2 DEF push, At, Goto, Clobber
<1>7. ASSUME NEW t \in Users, call_handler(t) PROVE TypeOK' /\ DepthOK'
  <2>1. Arguments(t) \in [Reg -> Value]
    <3>1. depth[t] = 15 BY <1>7, <1>0 DEF call_handler, At
    <3>2. \A i \in 7 .. 11 : Word(t, i) \in Value BY <3>1, <1>0 DEF Word
    <3>3. reg[t] \in [Reg -> Value] /\ "rax" \in Reg BY DEF Reg
    <3>4. reg[t]["rax"] \in Value BY <3>3
    <3>5. 7 \in 7 .. 11 /\ 8 \in 7 .. 11 /\ 9 \in 7 .. 11 /\ 10 \in 7 .. 11 /\ 11 \in 7 .. 11
      OBVIOUS
    <3>6. QED BY <3>2, <3>3, <3>4, <3>5 DEF Arguments
  <2>2. QED BY <1>7, <2>1 DEF call_handler, At, Goto, Clobber
<1>8. ASSUME NEW t \in Users, handler_returns(t) PROVE TypeOK' /\ DepthOK'
  BY <1>8, <1>0, UserValues DEF handler_returns, At, Goto, Clobber
<1>9. ASSUME NEW t \in Users, handler_exits(t) PROVE TypeOK' /\ DepthOK'
  BY <1>9 DEF handler_exits, At, Goto, Clobber
<1>10. ASSUME NEW t \in Users, pop(t) PROVE TypeOK' /\ DepthOK'
  <2>1. depth[t] \in 1 .. FrameSize BY <1>10, <1>0 DEF pop, At
  <2>2. reg' \in [Users -> [Reg -> Value]] BY <1>10, <2>1, RegUpdate DEF pop
  <2>3. QED BY <1>10, <1>0, <2>1, <2>2 DEF pop, At, Goto
<1>11. ASSUME NEW t \in Users, restore_rsp(t) PROVE TypeOK' /\ DepthOK'
  <2>1. CASE page_fault(t) BY <2>1 DEF page_fault
  <2>2. CASE reg' = [reg EXCEPT ![t]["rsp"] = user_rsp] /\ gs = "kernel"
    <3>1. reg' \in [Users -> [Reg -> Value]] BY <2>2, RegUpdate
    <3>2. QED BY <1>11, <2>2, <3>1 DEF restore_rsp, At, Goto, page_fault
  <2>3. QED BY <1>11, <2>1, <2>2 DEF restore_rsp
<1>12. ASSUME NEW t \in Users, swapgs_out(t) PROVE TypeOK' /\ DepthOK'
  BY <1>12 DEF swapgs_out, At, Goto, Other
<1>13. ASSUME NEW t \in Users, sysretq(t) PROVE TypeOK' /\ DepthOK'
  BY <1>13 DEF sysretq, At, Goto
<1>14. ASSUME NEW u \in Users \cup {Idle}, timer_handler(u) PROVE TypeOK' /\ DepthOK'
  <2>1. stack' \in [1 .. FrameSize -> Value]
    <3>1. Junk \in Value BY DEF Value
    <3>2. QED BY <1>14, <3>1 DEF timer_handler
  <2>2. pc' \in [Users -> PC] /\ intact' \in [Users -> BOOLEAN] /\ UNCHANGED depth
    BY <1>14 DEF timer_handler
  <2>3. \A t \in Users : pc'[t] = pc[t] \/ pc'[t] = "lost"
    BY <1>14 DEF timer_handler
  <2>4. DepthOK' BY <2>2, <2>3
  <2>5. QED BY <1>14, <2>1, <2>2, <2>4 DEF timer_handler
<1>15. CASE hcf BY <1>15 DEF hcf, vars
<1>16. CASE UNCHANGED vars BY <1>16 DEF vars
<1>17. QED BY <1>1, <1>2, <1>3, <1>4, <1>5, <1>6, <1>7, <1>8, <1>9, <1>10, <1>11, <1>12, <1>13,
             <1>14, <1>15, <1>16 DEF Next, Step

(* Where one instruction takes a task, and what it does to the active base.            *)
LEMMA Moves ==
    ASSUME TypeOK, NEW t \in Users, Step(t)
    PROVE  /\ \A u \in Users \ {t} : pc'[u] = pc[u]
           /\ \/ /\ pc[t] = "new" /\ pc'[t] = "user"
                 /\ UNCHANGED <<gs, halted, overlapped>>
              \/ /\ pc[t] = "user" /\ pc'[t] = "swapgs_in"
                 /\ overlapped' = (overlapped \/ \E u \in Users \ {t} : InCall(u))
                 /\ UNCHANGED <<gs, halted>>
              \/ /\ pc[t] = "swapgs_in" /\ pc'[t] = "save_rsp" /\ gs' = Other(gs)
                 /\ UNCHANGED <<halted, overlapped>>
              \/ /\ pc[t] \in {"save_rsp", "load_rsp", "restore_rsp"} /\ gs = "user" /\ halted'
                 /\ UNCHANGED <<pc, gs, overlapped>>
              \/ /\ pc[t] \in {"save_rsp", "load_rsp", "restore_rsp"} /\ gs = "kernel"
                 /\ pc'[t] \in {"load_rsp", "push", "swapgs_out"}
                 /\ UNCHANGED <<gs, halted, overlapped>>
              \/ /\ pc[t] \in OnStackAt \ {"restore_rsp"} /\ pc'[t] \in OnStackAt \cup {"dead"}
                 /\ UNCHANGED <<gs, halted, overlapped>>
              \/ /\ pc[t] = "swapgs_out" /\ pc'[t] = "sysretq" /\ gs' = Other(gs)
                 /\ UNCHANGED <<halted, overlapped>>
              \/ /\ pc[t] = "sysretq" /\ pc'[t] = "user"
                 /\ UNCHANGED <<gs, halted, overlapped>>
<1> USE DEF At, Goto, OnStackAt
<1>0. pc \in [Users -> PC] BY DEF TypeOK
<1>1. CASE jump_to_usermode(t) BY <1>0, <1>1 DEF jump_to_usermode
<1>2. CASE syscall(t) BY <1>0, <1>2 DEF syscall
<1>3. CASE swapgs_in(t) BY <1>0, <1>3 DEF swapgs_in
<1>4. CASE save_rsp(t) BY <1>0, <1>4 DEF save_rsp, page_fault
<1>5. CASE load_rsp(t) BY <1>0, <1>5 DEF load_rsp, page_fault
<1>6. CASE push(t) BY <1>0, <1>6 DEF push
<1>7. CASE call_handler(t) BY <1>0, <1>7 DEF call_handler
<1>8. CASE handler_returns(t) BY <1>0, <1>8 DEF handler_returns
<1>9. CASE handler_exits(t) BY <1>0, <1>9 DEF handler_exits
<1>10. CASE pop(t) BY <1>0, <1>10 DEF pop
<1>11. CASE restore_rsp(t) BY <1>0, <1>11 DEF restore_rsp, page_fault
<1>12. CASE swapgs_out(t) BY <1>0, <1>12 DEF swapgs_out
<1>13. CASE sysretq(t) BY <1>0, <1>13 DEF sysretq
<1>14. QED BY <1>1, <1>2, <1>3, <1>4, <1>5, <1>6, <1>7, <1>8, <1>9, <1>10, <1>11, <1>12, <1>13
           DEF Step

(* An instruction of a task whose context is in order leaves it in order.              *)
LEMMA OwnStep ==
    ASSUME TypeOK, DepthOK, NEW t \in Users, Context(t), Step(t)
    PROVE  Context(t)'
<1>a. CallRegs(t)' = CallRegs(t) /\ intact[t] BY DEF CallRegs, Context
<1>c. FrameSize = 15 /\ depth[t] \in 0 .. FrameSize
  BY DEF FrameSize, TypeOK
<1>d. ASSUME page_fault(t) PROVE Context(t)'
  BY <1>a, <1>d DEF page_fault, Context, Preserved, ArgumentsArrived
<1>1. CASE jump_to_usermode(t)
  <2>1. pc' = [pc EXCEPT ![t] = "user"] /\ reg' = [reg EXCEPT ![t] = UserRegs(t)]
        /\ UNCHANGED <<intact, user_rsp, stack, depth>>
    BY <1>1 DEF jump_to_usermode, Goto
  <2>2. reg'[t] = UserRegs(t) /\ pc'[t] = "user" BY <2>1 DEF TypeOK
  <2>3. Preserved(t)' BY <2>2 DEF Preserved, UserRegs
  <2>4. QED BY <1>a, <2>1, <2>2, <2>3 DEF Context, OnStackAt
<1>2. CASE syscall(t)
  <2>1. /\ pc' = [pc EXCEPT ![t] = "swapgs_in"] /\ reg' = [reg EXCEPT ![t] = CallRegs(t)]
        /\ UNCHANGED <<intact, user_rsp, stack, depth>>
    BY <1>2 DEF syscall, Goto
  <2>2. reg'[t] = CallRegs(t) /\ pc'[t] = "swapgs_in" BY <2>1 DEF TypeOK
  <2>3. QED BY <1>a, <2>1, <2>2 DEF Context, OnStackAt
<1>3. CASE swapgs_in(t)
  <2>1. /\ pc' = [pc EXCEPT ![t] = "save_rsp"] /\ pc[t] = "swapgs_in"
        /\ UNCHANGED <<reg, intact, user_rsp, stack, depth>>
    BY <1>3 DEF swapgs_in, At, Goto
  <2>2. pc'[t] = "save_rsp" BY <2>1 DEF TypeOK
  <2>3. QED BY <1>a, <2>1, <2>2 DEF Context, OnStackAt
<1>4. CASE save_rsp(t)
  <2>1. SUFFICES ASSUME ~page_fault(t) PROVE Context(t)' BY <1>d
  <2>2. /\ pc' = [pc EXCEPT ![t] = "load_rsp"] /\ user_rsp' = reg[t]["rsp"]
        /\ pc[t] = "save_rsp" /\ UNCHANGED <<reg, intact, stack, depth>>
    BY <1>4, <2>1 DEF save_rsp, At, Goto
  <2>3. pc'[t] = "load_rsp" /\ reg[t] = CallRegs(t) BY <2>2 DEF TypeOK, Context
  <2>4. user_rsp' = <<t, "rsp">> BY <2>2, <2>3 DEF CallRegs, Reg
  <2>5. QED BY <1>a, <2>2, <2>3, <2>4 DEF Context, OnStackAt
<1>5. CASE load_rsp(t)
  <2>1. SUFFICES ASSUME ~page_fault(t) PROVE Context(t)' BY <1>d
  <2>2. /\ pc' = [pc EXCEPT ![t] = "push"] /\ depth' = [depth EXCEPT ![t] = 0]
        /\ reg' = [reg EXCEPT ![t]["rsp"] = Junk]
        /\ pc[t] = "load_rsp" /\ UNCHANGED <<user_rsp, intact, stack>>
    BY <1>5, <2>1 DEF load_rsp, At, Goto
  <2>3. pc'[t] = "push" /\ depth'[t] = 0 BY <2>2 DEF TypeOK
  <2>4. reg[t] = CallRegs(t) /\ user_rsp = <<t, "rsp">> BY <2>2 DEF Context
  <2>5. \A r \in Reg \ {"rsp"} : reg'[t][r] = CallRegs(t)[r] BY <2>2, <2>4 DEF TypeOK
  <2>6. QED BY <1>a, <1>c, <2>2, <2>3, <2>4, <2>5 DEF Context, OnStackAt
<1>6. CASE push(t)
  <2>1. pc[t] = "push" /\ OnStack(t) /\ depth[t] + 1 \in 1 .. FrameSize
    BY <1>6, <1>c DEF push, At, OnStack, OnStackAt, DepthOK
  <2>2. /\ pc' = [pc EXCEPT ![t] = IF depth[t] + 1 = FrameSize THEN "args" ELSE "push"]
        /\ depth' = [depth EXCEPT ![t] = @ + 1]
        /\ stack' = [stack EXCEPT ![depth[t] + 1] = reg[t][Pushed[depth[t] + 1]]]
        /\ intact' = [u \in Users |-> intact[u] /\ (u = t \/ ~OnStack(u))]
        /\ UNCHANGED <<user_rsp, reg>>
    BY <1>6 DEF push, Goto, Clobber
  <2>3. /\ pc'[t] = IF depth[t] + 1 = FrameSize THEN "args" ELSE "push"
        /\ depth'[t] = depth[t] + 1
    BY <2>2 DEF TypeOK
  <2>4. /\ user_rsp = <<t, "rsp">>
        /\ \A i \in 1 .. depth[t] : stack[i] = CallRegs(t)[Pushed[i]]
        /\ \A r \in Reg \ {"rsp"} : reg[t][r] = CallRegs(t)[r]
    BY <2>1 DEF Context, OnStackAt
  <2>5. \A i \in 1 .. depth'[t] : stack'[i] = CallRegs(t)[Pushed[i]]
    <3>1. stack'[depth[t] + 1] = CallRegs(t)[Pushed[depth[t] + 1]]
      BY <2>1, <2>2, <2>4, FrameMatches DEF TypeOK
    <3>2. \A i \in 1 .. depth[t] : stack'[i] = stack[i] BY <1>c, <2>1, <2>2 DEF TypeOK
    <3>3. QED BY <1>c, <2>3, <2>4, <3>1, <3>2
  <2>6. intact'[t] BY <1>a, <2>2
  <2>7. QED BY <1>a, <1>c, <2>1, <2>2, <2>3, <2>4, <2>5, <2>6 DEF Context, OnStackAt
<1>7. CASE call_handler(t)
  <2>1. pc[t] = "args" /\ depth[t] = 15 BY <1>7, <1>c DEF call_handler, At, DepthOK
  <2>2. /\ pc' = [pc EXCEPT ![t] = "handler"]
        /\ reg' = [reg EXCEPT ![t] = Arguments(t)]
        /\ intact' = [u \in Users |-> intact[u] /\ (u = t \/ ~OnStack(u))]
        /\ UNCHANGED <<user_rsp, stack, depth>>
    BY <1>7 DEF call_handler, Goto, Clobber
  <2>3. pc'[t] = "handler" /\ reg'[t] = Arguments(t) BY <2>2 DEF TypeOK
  <2>4. /\ user_rsp = <<t, "rsp">>
        /\ \A i \in 1 .. 15 : stack[i] = CallRegs(t)[Pushed[i]]
        /\ reg[t]["rax"] = CallRegs(t)["rax"]
    BY <2>1 DEF Context, OnStackAt, Reg
  <2>5. ArgumentsArrived(t)'
    <3>1. /\ Word(t, 11) = CallRegs(t)["rdi"] /\ Word(t, 10) = CallRegs(t)["rsi"]
          /\ Word(t, 9) = CallRegs(t)["rdx"] /\ Word(t, 8) = CallRegs(t)["r10"]
          /\ Word(t, 7) = CallRegs(t)["r8"]
      BY <2>1, <2>4 DEF Word, Pushed
    <3>2. /\ CallRegs(t)["rax"] = <<t, "rax">> /\ CallRegs(t)["rdi"] = <<t, "rdi">>
          /\ CallRegs(t)["rsi"] = <<t, "rsi">> /\ CallRegs(t)["rdx"] = <<t, "rdx">>
          /\ CallRegs(t)["r10"] = <<t, "r10">> /\ CallRegs(t)["r8"] = <<t, "r8">>
      BY DEF CallRegs, Reg
    <3>3. /\ Arguments(t)["rdi"] = reg[t]["rax"] /\ Arguments(t)["rsi"] = Word(t, 11)
          /\ Arguments(t)["rdx"] = Word(t, 10) /\ Arguments(t)["rcx"] = Word(t, 9)
          /\ Arguments(t)["r8"] = Word(t, 8) /\ Arguments(t)["r9"] = Word(t, 7)
      <4>1. reg[t] \in [Reg -> Value] BY DEF TypeOK
      <4>2. QED BY <4>1 DEF Arguments, Reg
    <3>4. QED BY <2>3, <2>4, <3>1, <3>2, <3>3 DEF ArgumentsArrived
  <2>6. intact'[t] BY <1>a, <2>2
  <2>7. QED BY <1>a, <1>c, <2>1, <2>2, <2>3, <2>4, <2>5, <2>6 DEF Context, OnStackAt
<1>8. CASE handler_returns(t)
  <2>1. pc[t] = "handler" /\ depth[t] = 15 BY <1>8, <1>c DEF handler_returns, At, DepthOK
  <2>2. /\ pc' = [pc EXCEPT ![t] = "pop"]
        /\ intact' = [u \in Users |-> intact[u] /\ (u = t \/ ~OnStack(u))]
        /\ UNCHANGED <<user_rsp, stack, depth>>
    BY <1>8 DEF handler_returns, Goto, Clobber
  <2>3. pc'[t] = "pop" /\ intact'[t] BY <1>a, <2>2 DEF TypeOK
  <2>4. /\ user_rsp = <<t, "rsp">>
        /\ \A i \in 1 .. 15 : stack[i] = CallRegs(t)[Pushed[i]]
    BY <2>1 DEF Context, OnStackAt
  <2>5. QED BY <1>a, <1>c, <2>1, <2>2, <2>3, <2>4 DEF Context, OnStackAt
<1>9. CASE handler_exits(t)
  <2>1. /\ pc' = [pc EXCEPT ![t] = "dead"]
        /\ intact' = [u \in Users |-> intact[u] /\ (u = t \/ ~OnStack(u))]
    BY <1>9 DEF handler_exits, Goto, Clobber
  <2>2. pc'[t] = "dead" /\ intact'[t] BY <1>a, <2>1 DEF TypeOK
  <2>3. QED BY <2>2 DEF Context, OnStackAt
<1>10. CASE pop(t)
  <2>1. pc[t] = "pop" /\ depth[t] \in 1 .. FrameSize BY <1>10, <1>c DEF pop, At, DepthOK
  <2> DEFINE d == depth[t]
  <2>2. /\ pc' = [pc EXCEPT ![t] = IF d = 1 THEN "restore_rsp" ELSE "pop"]
        /\ depth' = [depth EXCEPT ![t] = d - 1]
        /\ reg' = IF Pushed[d] = "rax" THEN reg ELSE [reg EXCEPT ![t][Pushed[d]] = stack[d]]
        /\ UNCHANGED <<user_rsp, stack, intact>>
    <3>1. Popped[FrameSize + 1 - d] = IF Pushed[d] = "rax" THEN "skip" ELSE Pushed[d]
      BY <2>1, FrameMatches
    <3>2. Pushed[d] # "skip" BY <2>1, FrameMatches DEF Reg
    <3>3. QED BY <1>10, <3>1, <3>2 DEF pop, Goto
  <2>3. /\ pc'[t] = IF d = 1 THEN "restore_rsp" ELSE "pop"
        /\ depth'[t] = d - 1
    BY <2>2 DEF TypeOK
  <2>4. /\ user_rsp = <<t, "rsp">>
        /\ \A i \in 1 .. d : stack[i] = CallRegs(t)[Pushed[i]]
        /\ \A i \in d + 1 .. FrameSize :
              Pushed[i] # "rax" => reg[t][Pushed[i]] = CallRegs(t)[Pushed[i]]
    BY <2>1 DEF Context, OnStackAt
  <2>5. \A i \in depth'[t] + 1 .. FrameSize :
              Pushed[i] # "rax" => reg'[t][Pushed[i]] = CallRegs(t)[Pushed[i]]
    <3>1. \A i \in 1 .. FrameSize : Pushed[i] \in Reg /\ (Pushed[i] = Pushed[d] => i = d)
      BY <2>1, FrameMatches
    <3>2. Pushed[d] # "rax" => reg'[t][Pushed[d]] = CallRegs(t)[Pushed[d]]
      BY <2>1, <2>2, <2>4, <3>1 DEF TypeOK
    <3>3. \A i \in d + 1 .. FrameSize : reg'[t][Pushed[i]] = reg[t][Pushed[i]]
      <4>1. SUFFICES ASSUME NEW i \in d + 1 .. FrameSize
                     PROVE reg'[t][Pushed[i]] = reg[t][Pushed[i]]
        OBVIOUS
      <4>2. i \in 1 .. FrameSize /\ i # d BY <1>c, <2>1
      <4>3. Pushed[i] # Pushed[d] BY <3>1, <4>2
      <4>4. QED BY <2>2, <4>3 DEF TypeOK
    <3>4. QED BY <1>c, <2>1, <2>3, <2>4, <3>2, <3>3
  <2>6. d = 1 => \A r \in Reg \ {"rax", "rsp"} : reg'[t][r] = CallRegs(t)[r]
    <3>1. SUFFICES ASSUME d = 1, NEW r \in Reg \ {"rax", "rsp"} PROVE reg'[t][r] = CallRegs(t)[r]
      OBVIOUS
    <3>2. PICK i \in 1 .. FrameSize : Pushed[i] = r BY FrameMatches
    <3>3. i \in depth'[t] + 1 .. FrameSize BY <2>3, <3>1
    <3>4. QED BY <2>5, <3>2, <3>3
  <2>7. \A i \in 1 .. depth'[t] : stack'[i] = CallRegs(t)[Pushed[i]]
    BY <1>c, <2>1, <2>2, <2>3, <2>4
  <2>8. CASE d = 1
    BY <1>a, <1>c, <2>2, <2>3, <2>4, <2>6, <2>8 DEF Context, OnStackAt
  <2>9. CASE d # 1
    BY <1>a, <1>c, <2>1, <2>2, <2>3, <2>4, <2>5, <2>7, <2>9 DEF Context, OnStackAt
  <2>10. QED BY <2>8, <2>9
<1>11. CASE restore_rsp(t)
  <2>1. SUFFICES ASSUME ~page_fault(t) PROVE Context(t)' BY <1>d
  <2>2. /\ pc' = [pc EXCEPT ![t] = "swapgs_out"]
        /\ reg' = [reg EXCEPT ![t]["rsp"] = user_rsp]
        /\ pc[t] = "restore_rsp" /\ UNCHANGED <<user_rsp, intact, stack, depth>>
    BY <1>11, <2>1 DEF restore_rsp, At, Goto
  <2>3. pc'[t] = "swapgs_out" BY <2>2 DEF TypeOK
  <2>4. /\ user_rsp = <<t, "rsp">>
        /\ \A r \in Reg \ {"rax", "rsp"} : reg[t][r] = CallRegs(t)[r]
    BY <2>2 DEF Context, OnStackAt
  <2>5. /\ reg'[t]["rsp"] = <<t, "rsp">>
        /\ \A r \in Reg \ {"rax", "rsp"} : reg'[t][r] = CallRegs(t)[r]
    <3>1. reg[t] \in [Reg -> Value] /\ "rsp" \in Reg BY DEF TypeOK, Reg
    <3>2. QED BY <2>2, <2>4, <3>1 DEF TypeOK
  <2>6. QED BY <1>a, <2>2, <2>3, <2>5 DEF Context, OnStackAt
<1>12. CASE swapgs_out(t)
  <2>1. /\ pc' = [pc EXCEPT ![t] = "sysretq"] /\ pc[t] = "swapgs_out"
        /\ UNCHANGED <<reg, intact, user_rsp, stack, depth>>
    BY <1>12 DEF swapgs_out, At, Goto
  <2>2. pc'[t] = "sysretq" BY <2>1 DEF TypeOK
  <2>3. QED BY <1>a, <2>1, <2>2 DEF Context, OnStackAt
<1>13. CASE sysretq(t)
  <2>1. /\ pc' = [pc EXCEPT ![t] = "user"] /\ pc[t] = "sysretq"
        /\ UNCHANGED <<reg, intact, user_rsp, stack, depth>>
    BY <1>13 DEF sysretq, At, Goto
  <2>2. pc'[t] = "user" BY <2>1 DEF TypeOK
  <2>3. Preserved(t)'
    <3>1. \A r \in Reg \ {"rcx", "r11"} : CallRegs(t)[r] = <<t, r>> BY DEF CallRegs
    <3>2. /\ \A r \in Reg \ {"rax", "rsp"} : reg[t][r] = CallRegs(t)[r]
          /\ reg[t]["rsp"] = <<t, "rsp">>
      BY <2>1 DEF Context
    <3>3. QED BY <2>1, <3>1, <3>2 DEF Preserved
  <2>4. QED BY <1>a, <2>1, <2>2, <2>3 DEF Context, OnStackAt
<1>14. QED BY <1>1, <1>2, <1>3, <1>4, <1>5, <1>6, <1>7, <1>8, <1>9, <1>10, <1>11, <1>12, <1>13
           DEF Step

(* ... and the context of another one, unless that is on SYSCALL_STACK too or has its  *)
(* stack pointer in the slot when this one overwrites it.                              *)
LEMMA OthersKeep ==
    ASSUME TypeOK, NEW t \in Users, NEW u \in Users \ {t}, Step(t), Context(u),
           pc[u] \in OnStackAt \cup {"load_rsp"} =>
               ~OnStack(t) /\ ~(pc[t] = "save_rsp" /\ gs = "kernel")
    PROVE  Context(u)'
<1>1. pc'[u] = pc[u] BY Moves
<1>2. reg'[u] = reg[u] /\ depth'[u] = depth[u]
  BY DEF TypeOK, Step, jump_to_usermode, syscall, swapgs_in, save_rsp, load_rsp, push,
         call_handler, handler_returns, handler_exits, pop, restore_rsp, swapgs_out, sysretq,
         page_fault
<1>3. \/ UNCHANGED intact
      \/ OnStack(t) /\ intact' = [v \in Users |-> intact[v] /\ (v = t \/ ~OnStack(v))]
  BY DEF Step, jump_to_usermode, syscall, swapgs_in, save_rsp, load_rsp, push, Clobber, At,
         call_handler, handler_returns, handler_exits, pop, restore_rsp, swapgs_out, sysretq,
         page_fault, OnStack, OnStackAt
<1>4. intact'[u]
  <2>1. intact[u] /\ (OnStack(t) => ~OnStack(u)) BY DEF Context, OnStack
  <2>2. QED BY <1>3, <2>1
<1>5. UNCHANGED user_rsp \/ (pc[t] = "save_rsp" /\ gs = "kernel")
  BY DEF Step, jump_to_usermode, syscall, swapgs_in, save_rsp, load_rsp, push, At,
         call_handler, handler_returns, handler_exits, pop, restore_rsp, swapgs_out, sysretq,
         page_fault
<1>6. UNCHANGED stack \/ OnStack(t)
  BY DEF Step, jump_to_usermode, syscall, swapgs_in, save_rsp, load_rsp, push, At,
         call_handler, handler_returns, handler_exits, pop, restore_rsp, swapgs_out, sysretq,
         page_fault, OnStack, OnStackAt
<1>7. pc[u] \in OnStackAt \cup {"load_rsp"} => UNCHANGED <<user_rsp, stack>>
  BY <1>5, <1>6
<1>8. CallRegs(u)' = CallRegs(u) BY DEF CallRegs
<1>9. CASE pc[u] \in OnStackAt \cup {"load_rsp"}
  BY <1>1, <1>2, <1>4, <1>7, <1>8, <1>9 DEF Context, Preserved, ArgumentsArrived
<1>10. CASE pc[u] \notin OnStackAt \cup {"load_rsp"}
  BY <1>1, <1>2, <1>4, <1>8, <1>10 DEF Context, Preserved, ArgumentsArrived, OnStackAt
<1>11. QED BY <1>9, <1>10

(* An interrupt keeps every context as long as one task at most is on the stack.       *)
LEMMA TimerKeeps ==
    ASSUME TypeOK, NEW u \in Users \cup {Idle}, timer_handler(u), \A v \in Users : Context(v),
           \A v, w \in Users : OnStack(v) /\ OnStack(w) => v = w
    PROVE  UNCHANGED <<pc, gs, halted, overlapped>> /\ \A v \in Users : Context(v)'
<1>1. \A v \in Users : intact[v] BY DEF Context
<1>2. UNCHANGED <<pc, reg, depth, gs, user_rsp, halted, overlapped>>
  BY <1>1 DEF timer_handler
<1>3. \A v \in Users : intact'[v]
  <2>1. CASE cpu \in Users /\ OnStack(cpu)
    <3>1. \A v \in Users : OnStack(v) => v = cpu BY <2>1
    <3>2. QED BY <1>1, <2>1, <3>1 DEF timer_handler
  <2>2. CASE ~(cpu \in Users /\ OnStack(cpu)) BY <1>1, <2>2 DEF timer_handler
  <2>3. QED BY <2>1, <2>2
<1>4. \A v \in Users : OnStack(v) => \A i \in 1 .. depth[v] : stack'[i] = stack[i]
  <2>1. CASE cpu \in Users /\ OnStack(cpu)
    <3>1. \A v \in Users : OnStack(v) => v = cpu BY <2>1
    <3>2. FrameSize \in Nat /\ depth[cpu] \in 0 .. FrameSize BY <2>1 DEF TypeOK, FrameSize
    <3>3. \A i \in 1 .. depth[cpu] : stack'[i] = stack[i]
      BY <2>1, <3>2 DEF timer_handler
    <3>4. QED BY <3>1, <3>3
  <2>2. CASE ~(cpu \in Users /\ OnStack(cpu)) BY <2>2 DEF timer_handler
  <2>3. QED BY <2>1, <2>2
<1>5. ASSUME NEW v \in Users PROVE Context(v)'
  <2>1. pc[v] \in OnStackAt => \A i \in 1 .. depth[v] : stack'[i] = stack[i]
    BY <1>4 DEF OnStack
  <2>2. Context(v) OBVIOUS
  <2>3. QED BY <1>2, <1>3, <2>1, <2>2 DEF Context, CallRegs, Preserved, ArgumentsArrived
<1>6. QED BY <1>2, <1>5

(* A task whose context is in order returns as its caller expects.                     *)
LEMMA ContextReturns == ASSUME NEW t \in Users, Context(t) PROVE ReturnsRight(t)
<1>1. pc[t] = "user" => Preserved(t) BY DEF Context
<1>2. pc[t] = "sysretq" => Preserved(t) /\ reg[t]["rcx"] = <<t, "rip">>
                           /\ reg[t]["r11"] = <<t, "rflags">>
  BY DEF Context, Preserved, CallRegs, Reg
<1>3. QED BY <1>1, <1>2 DEF ReturnsRight, Context

LEMMA EntryInit == Init => EntryInv
<1> SUFFICES ASSUME Init PROVE EntryInv OBVIOUS
<1>1. \A t \in Users : pc[t] = "new" /\ intact[t] BY DEF Init
<1>2. \A t \in Users : Context(t) BY <1>1 DEF Context, OnStackAt
<1>3. \A t \in Users : ~InCall(t) /\ ~Inside(t)
  BY <1>1 DEF InCall, Inside, InsideAt, OnStackAt
<1>4. ~halted /\ gs = "user" BY DEF Init
<1>5. QED BY <1>2, <1>3, <1>4 DEF EntryInv

LEMMA EntryNext == TypeOK /\ DepthOK /\ EntryInv /\ [Next]_vars => EntryInv'
<1> SUFFICES ASSUME TypeOK, DepthOK, EntryInv, [Next]_vars, ~overlapped' PROVE EntryInv'
  BY DEF EntryInv
<1>0. ~overlapped
  <2>1. ASSUME NEW t \in Users, Step(t) PROVE ~overlapped BY <2>1, Moves
  <2>2. QED BY <2>1 DEF Next, vars, timer_handler, hcf
<1>a. /\ ~halted
      /\ \A t, u \in Users : InCall(t) /\ InCall(u) => t = u
      /\ gs = "kernel" <=> \E t \in Users : Inside(t)
      /\ \A t \in Users : Context(t)
  BY <1>0 DEF EntryInv
<1>b. \A t \in Users : OnStack(t) \/ Inside(t) => InCall(t)
  BY DEF OnStack, Inside, InCall, InsideAt, OnStackAt
<1>1. ASSUME NEW t \in Users, Step(t) PROVE EntryInv'
  <2>1. InCall(t) => \A u \in Users \ {t} : ~InCall(u) /\ ~Inside(u) BY <1>a, <1>b
  <2>2. InCall(t) => (gs = "kernel" <=> Inside(t)) BY <1>a, <2>1
  <2>3. \A u \in Users \ {t} : pc'[u] = pc[u] BY <1>1, Moves
  <2>4. \A u \in Users \ {t} : (InCall(u)' <=> InCall(u)) /\ (Inside(u)' <=> Inside(u))
    BY <2>3 DEF InCall, Inside
  <2>5. Context(t)' BY <1>1, <1>a, OwnStep
  <2>6. ASSUME NEW u \in Users \ {t} PROVE Context(u)'
    <3>1. pc[u] \in OnStackAt \cup {"load_rsp"} =>
            ~OnStack(t) /\ ~(pc[t] = "save_rsp" /\ gs = "kernel")
      BY <2>1 DEF InCall, OnStack, OnStackAt
    <3>2. QED BY <1>1, <1>a, <3>1, OthersKeep
  <2>7. \A u \in Users : Context(u)' BY <2>5, <2>6
  <2>8. gs \in {"user", "kernel"} BY DEF TypeOK
  <2>9. CASE pc[t] = "new" /\ pc'[t] = "user" /\ UNCHANGED <<gs, halted>>
    <3>1. ~InCall(t)' /\ ~Inside(t)' /\ ~Inside(t)
      BY <2>9 DEF InCall, Inside, InsideAt, OnStackAt
    <3>2. \A u, v \in Users : InCall(u)' /\ InCall(v)' => u = v BY <1>a, <2>4, <3>1
    <3>3. gs' = "kernel" <=> \E u \in Users : Inside(u)' BY <1>a, <2>4, <2>9, <3>1
    <3>4. QED BY <1>a, <2>7, <2>9, <3>2, <3>3 DEF EntryInv
  <2>10. CASE /\ pc[t] = "user" /\ pc'[t] = "swapgs_in" /\ UNCHANGED <<gs, halted>>
              /\ overlapped' = (overlapped \/ \E u \in Users \ {t} : InCall(u))
    <3>1. \A u \in Users \ {t} : ~InCall(u)' BY <2>4, <2>10
    <3>2. ~Inside(t)' /\ ~Inside(t) BY <2>10 DEF Inside, InsideAt, OnStackAt
    <3>3. gs' = "kernel" <=> \E u \in Users : Inside(u)' BY <1>a, <2>4, <2>10, <3>2
    <3>4. QED BY <1>a, <2>7, <2>10, <3>1, <3>3 DEF EntryInv
  <2>11. CASE /\ InCall(t) /\ ~halted'
              /\ gs' = "kernel" <=> Inside(t)'
    <3>1. \A u \in Users \ {t} : ~InCall(u)' /\ ~Inside(u)' BY <2>1, <2>4, <2>11
    <3>2. QED BY <2>7, <2>11, <3>1 DEF EntryInv
  <2>12. CASE pc[t] = "swapgs_in" /\ pc'[t] = "save_rsp" /\ gs' = Other(gs) /\ UNCHANGED halted
    <3>1. InCall(t) /\ ~Inside(t) /\ Inside(t)'
      BY <2>12 DEF InCall, Inside, InsideAt, OnStackAt
    <3>2. QED BY <1>a, <2>2, <2>8, <2>11, <2>12, <3>1 DEF Other
  <2>13. CASE pc[t] \in {"save_rsp", "load_rsp", "restore_rsp"} /\ gs = "user"
    <3>1. InCall(t) /\ Inside(t) BY <2>13 DEF InCall, Inside, InsideAt, OnStackAt
    <3>2. QED BY <2>2, <2>13, <3>1
  <2>14. CASE /\ pc[t] \in {"save_rsp", "load_rsp", "restore_rsp"}
              /\ pc'[t] \in {"load_rsp", "push", "swapgs_out"}
              /\ UNCHANGED <<gs, halted>>
    <3>1. InCall(t) /\ Inside(t) /\ Inside(t)'
      BY <2>14 DEF InCall, Inside, InsideAt, OnStackAt
    <3>2. QED BY <1>a, <2>2, <2>11, <2>14, <3>1
  <2>15. CASE /\ pc[t] \in OnStackAt \ {"restore_rsp"} /\ pc'[t] \in OnStackAt \cup {"dead"}
              /\ UNCHANGED <<gs, halted>>
    <3>1. InCall(t) /\ Inside(t) /\ Inside(t)'
      BY <2>15 DEF InCall, Inside, InsideAt, OnStackAt
    <3>2. QED BY <1>a, <2>2, <2>11, <2>15, <3>1
  <2>16. CASE pc[t] = "swapgs_out" /\ pc'[t] = "sysretq" /\ gs' = Other(gs) /\ UNCHANGED halted
    <3>1. InCall(t) /\ Inside(t) /\ ~Inside(t)'
      BY <2>16 DEF InCall, Inside, InsideAt, OnStackAt
    <3>2. QED BY <1>a, <2>2, <2>11, <2>16, <3>1 DEF Other
  <2>17. CASE pc[t] = "sysretq" /\ pc'[t] = "user" /\ UNCHANGED <<gs, halted>>
    <3>1. InCall(t) /\ ~Inside(t) /\ ~Inside(t)'
      BY <2>17 DEF InCall, Inside, InsideAt, OnStackAt
    <3>2. QED BY <1>a, <2>2, <2>11, <2>17, <3>1
  <2>18. QED BY <1>1, <2>9, <2>10, <2>12, <2>13, <2>14, <2>15, <2>16, <2>17, Moves
<1>2. ASSUME NEW u \in Users \cup {Idle}, timer_handler(u) PROVE EntryInv'
  <2>1. \A v, w \in Users : OnStack(v) /\ OnStack(w) => v = w BY <1>a, <1>b
  <2>2. UNCHANGED <<pc, gs, halted>> /\ \A v \in Users : Context(v)'
    BY <1>2, <1>a, <2>1, TimerKeeps
  <2>3. QED BY <1>a, <2>2 DEF EntryInv, InCall, Inside
<1>3. CASE hcf BY <1>3, <1>a DEF hcf
<1>4. CASE UNCHANGED vars
  BY <1>4, <1>0 DEF vars, EntryInv, Context, InCall, Inside, Preserved, ArgumentsArrived, CallRegs
<1>5. QED BY <1>1, <1>2, <1>3, <1>4 DEF Next

(* The inductive invariant holds in every reachable state.                             *)
THEOREM EntryInvariant == Spec => [](TypeOK /\ DepthOK /\ EntryInv)
<1>1. Init => TypeOK /\ DepthOK /\ EntryInv BY TypeInit, EntryInit
<1>2. TypeOK /\ DepthOK /\ EntryInv /\ [Next]_vars => TypeOK' /\ DepthOK' /\ EntryInv'
  BY TypeNext, EntryNext
<1>3. QED BY <1>1, <1>2, PTL DEF Spec

(* For any set of user tasks: calls that do not overlap return to their callers with   *)
(* every register but rax, rcx and r11 and the stack pointer preserved, and never      *)
(* fault, wherever the timer preempts syscall_entry.                                   *)
THEOREM CallsReturn == Spec => []ExclusiveCallsSound
<1>1. TypeOK /\ DepthOK /\ EntryInv => ExclusiveCallsSound
  BY ContextReturns DEF ExclusiveCallsSound, EntryInv
<1>2. QED BY <1>1, EntryInvariant, PTL

(* ... and the handler is called with the caller's arguments, in order.                *)
THEOREM ArgumentsInOrder == Spec => []HandlerGetsArguments
<1>1. TypeOK /\ DepthOK /\ EntryInv => HandlerGetsArguments
  BY DEF EntryInv, Context, HandlerGetsArguments
<1>2. QED BY <1>1, EntryInvariant, PTL

(* Exactly one task is inside.                                                         *)
Alone == \E t \in Users : Inside(t) /\ \A u \in Users \ {t} : ~Inside(u)

(* Of two tasks at most, one is alone inside or not: if the other is not.              *)
LEMMA AloneIs ==
    ASSUME AtMostTwoUsers, NEW t \in Users
    PROVE  Alone <=> \/ Inside(t) /\ \A u \in Users \ {t} : ~Inside(u)
                     \/ ~Inside(t) /\ \E u \in Users \ {t} : Inside(u)
<1>1. ASSUME ~Inside(t), NEW u \in Users \ {t}, Inside(u) PROVE Alone
  <2>1. \A v \in Users \ {u} : v = t BY DEF AtMostTwoUsers
  <2>2. QED BY <1>1, <2>1 DEF Alone
<1>2. QED BY <1>1 DEF Alone

LEMMA PairInit == Init => PairInv
<1> SUFFICES ASSUME Init PROVE PairInv OBVIOUS
<1>1. \A t \in Users : pc[t] = "new" /\ intact[t] BY DEF Init
<1>2. \A t \in Users : Context(t) BY <1>1 DEF Context, OnStackAt
<1>3. \A t \in Users : ~Inside(t) BY <1>1 DEF Inside, InsideAt, OnStackAt
<1>4. gs = "user" BY DEF Init
<1>5. QED BY <1>2, <1>3, <1>4 DEF PairInv

LEMMA PairNext == TypeOK /\ DepthOK /\ PairInv /\ [Next]_vars => PairInv'
<1> SUFFICES ASSUME TypeOK, DepthOK, PairInv, [Next]_vars, AtMostTwoUsers PROVE PairInv'
  BY DEF PairInv, AtMostTwoUsers
<1>a. /\ gs = "kernel" <=> Alone
      /\ \A t \in Users : \A u \in Users \ {t} :
            Inside(t) /\ Inside(u) => "save_rsp" \in {pc[t], pc[u]}
      /\ \A t \in Users : Context(t)
  BY DEF PairInv, Alone
<1>b. SUFFICES /\ gs' = "kernel" <=> Alone'
               /\ \A t \in Users : \A u \in Users \ {t} :
                     Inside(t)' /\ Inside(u)' => "save_rsp" \in {pc'[t], pc'[u]}
               /\ \A t \in Users : Context(t)'
  BY DEF PairInv, Alone
<1>c. gs \in {"user", "kernel"} BY DEF TypeOK
<1>d. \A t \in Users : OnStack(t) \/ pc[t] \in {"save_rsp", "load_rsp"} => Inside(t)
  BY DEF OnStack, Inside, InsideAt
<1> DEFINE Safe == \A t \in Users : \A u \in Users \ {t} :
                     Inside(t)' /\ Inside(u)' => "save_rsp" \in {pc'[t], pc'[u]}
<1>1. ASSUME NEW t \in Users, Step(t)
      PROVE  (gs' = "kernel" <=> Alone') /\ Safe /\ \A u \in Users : Context(u)'
  <2>1. \A u \in Users \ {t} : pc'[u] = pc[u] BY <1>1, Moves
  <2>2. \A u \in Users \ {t} : Inside(u)' <=> Inside(u) BY <2>1 DEF Inside
  <2>3. gs = "kernel" /\ Inside(t) => \A u \in Users \ {t} : ~Inside(u)
    BY <1>a, AloneIs
  <2>4. Context(t)' BY <1>1, <1>a, OwnStep
  <2>5. ASSUME NEW u \in Users \ {t} PROVE Context(u)'
    <3>1. ASSUME pc[u] \in OnStackAt \cup {"load_rsp"}
          PROVE  ~OnStack(t) /\ ~(pc[t] = "save_rsp" /\ gs = "kernel")
      <4>1. Inside(u) /\ pc[u] # "save_rsp" BY <1>d, <3>1 DEF OnStack, OnStackAt
      <4>2. ~OnStack(t) BY <1>a, <1>d, <4>1 DEF OnStack, OnStackAt
      <4>3. ~(pc[t] = "save_rsp" /\ gs = "kernel") BY <1>d, <2>3, <4>1
      <4>4. QED BY <4>2, <4>3
    <3>2. QED BY <1>1, <1>a, <3>1, OthersKeep
  <2>6. \A u \in Users : Context(u)' BY <2>4, <2>5
  <2>7. /\ Alone <=> \/ Inside(t) /\ \A u \in Users \ {t} : ~Inside(u)
                     \/ ~Inside(t) /\ \E u \in Users \ {t} : Inside(u)
        /\ Alone' <=> \/ Inside(t)' /\ \A u \in Users \ {t} : ~Inside(u)'
                      \/ ~Inside(t)' /\ \E u \in Users \ {t} : Inside(u)'
    <3>1. /\ Alone' <=> \/ Inside(t)' /\ \A u \in Users \ {t} : ~Inside(u)'
                        \/ ~Inside(t)' /\ \E u \in Users \ {t} : Inside(u)'
      <4>1. ASSUME ~Inside(t)', NEW u \in Users \ {t}, Inside(u)' PROVE Alone'
        <5>1. \A v \in Users \ {u} : v = t BY DEF AtMostTwoUsers
        <5>2. QED BY <4>1, <5>1 DEF Alone
      <4>2. QED BY <4>1 DEF Alone
    <3>2. QED BY <3>1, AloneIs
  \* The other tasks stay where they are, so only t can bring two together inside.
  <2>8. ASSUME \A u \in Users \ {t} : Inside(t)' /\ Inside(u)' => "save_rsp" \in {pc'[t], pc'[u]}
        PROVE  Safe
    <3>1. SUFFICES ASSUME NEW v \in Users, NEW w \in Users \ {v}, Inside(v)', Inside(w)'
                   PROVE  "save_rsp" \in {pc'[v], pc'[w]}
      OBVIOUS
    <3>2. v = t \/ w = t BY DEF AtMostTwoUsers
    <3>3. QED BY <2>8, <3>1, <3>2
  <2>9. CASE (Inside(t)' <=> Inside(t)) /\ gs' = gs
    <3>1. gs' = "kernel" <=> Alone' BY <1>a, <2>2, <2>7, <2>9
    <3>2. CASE pc'[t] = pc[t] BY <1>a, <2>1, <2>2, <2>6, <2>8, <2>9, <3>1, <3>2
    <3>3. CASE pc[t] # "save_rsp" \/ gs = "kernel"
      BY <1>a, <2>1, <2>2, <2>3, <2>6, <2>8, <2>9, <3>1, <3>3
    <3>4. pc'[t] = pc[t] \/ pc[t] # "save_rsp" \/ gs = "kernel" BY <1>1, Moves DEF OnStackAt
    <3>5. QED BY <3>2, <3>3, <3>4
  <2>10. CASE pc[t] = "swapgs_in" /\ pc'[t] = "save_rsp" /\ gs' = Other(gs)
    <3>1. ~Inside(t) /\ Inside(t)' BY <2>10 DEF Inside, InsideAt, OnStackAt
    <3>2. gs' = "kernel" <=> ~Alone BY <1>a, <1>c, <2>10 DEF Other
    <3>3. QED BY <2>2, <2>6, <2>7, <2>8, <2>10, <3>1, <3>2
  <2>11. CASE pc[t] = "swapgs_out" /\ pc'[t] = "sysretq" /\ gs' = Other(gs)
    <3>1. Inside(t) /\ ~Inside(t)' BY <2>11 DEF Inside, InsideAt, OnStackAt
    <3>2. gs' = "kernel" <=> ~Alone BY <1>a, <1>c, <2>11 DEF Other
    <3>3. QED BY <2>2, <2>6, <2>7, <2>8, <3>1, <3>2
  <2>12. \/ (Inside(t)' <=> Inside(t)) /\ gs' = gs
         \/ pc[t] = "swapgs_in" /\ pc'[t] = "save_rsp" /\ gs' = Other(gs)
         \/ pc[t] = "swapgs_out" /\ pc'[t] = "sysretq" /\ gs' = Other(gs)
    BY <1>1, Moves DEF Inside, InsideAt, OnStackAt
  <2>13. QED BY <2>9, <2>10, <2>11, <2>12
<1>2. ASSUME NEW u \in Users \cup {Idle}, timer_handler(u)
      PROVE  (gs' = "kernel" <=> Alone') /\ Safe /\ \A v \in Users : Context(v)'
  <2>1. \A v, w \in Users : OnStack(v) /\ OnStack(w) => v = w
    BY <1>a, <1>d DEF OnStack, OnStackAt
  <2>2. UNCHANGED <<pc, gs>> /\ \A v \in Users : Context(v)'
    BY <1>2, <1>a, <2>1, TimerKeeps
  <2>3. QED BY <1>a, <2>2 DEF Alone, Inside
<1>3. CASE UNCHANGED vars
  <2>1. \A v \in Users : Context(v)'
    BY <1>3, <1>a DEF vars, Context, Preserved, ArgumentsArrived, CallRegs
  <2>2. QED BY <1>3, <1>a, <2>1 DEF vars, Alone, Inside
<1>4. QED BY <1>1, <1>2, <1>3 DEF Next, hcf

(* For two user tasks at most: no task ever continues in user mode with a register or  *)
(* a stack pointer of the other, or loses its saved context, however their calls       *)
(* overlap; the task that comes second faults at its first access through GS, or waits *)
(* there until the first has left. Three tasks would defeat it, hence the hypothesis.  *)
THEOREM CorruptionFaults == Spec => [](AtMostTwoUsers => FaultsBeforeCorruption)
<1>1. Init => TypeOK /\ DepthOK /\ PairInv BY TypeInit, PairInit
<1>2. TypeOK /\ DepthOK /\ PairInv /\ [Next]_vars => TypeOK' /\ DepthOK' /\ PairInv'
  BY TypeNext, PairNext
<1>3. PairInv => (AtMostTwoUsers => FaultsBeforeCorruption)
  BY ContextReturns DEF PairInv, FaultsBeforeCorruption
<1>4. QED BY <1>1, <1>2, <1>3, PTL DEF Spec
=============================================================================
