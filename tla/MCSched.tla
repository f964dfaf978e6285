------------------------------ MODULE MCSched ------------------------------
(***************************************************************************)
(* Sched on a small instance, with a history variable: overtakers[t] is    *)
(* the set of tasks that have been given the CPU while t was Ready and     *)
(* waiting for it.                                                         *)
(***************************************************************************)
EXTENDS Sched

VARIABLE overtakers

MCInit == Init /\ overtakers = [t \in Ids |-> {}]

Waiting(t) == cpu.task # t /\ InQueue(t, {"Ready"})

MCNext ==
    /\ Next
    /\ overtakers' = [t \in Ids |->
                        IF ~(Waiting(t) /\ Waiting(t)') THEN {}
                        ELSE IF cpu.task' = cpu.task THEN overtakers[t]
                        ELSE overtakers[t] \cup {cpu.task'}]

MCSpec == MCInit /\ [][MCNext]_<<vars, overtakers>>

\* The fairness of Sched, under which overtakers plays no part.
MCFairSpec == /\ MCSpec
              /\ WF_vars(enable_interrupts)
              /\ WF_vars(timer_handler)
              /\ WF_vars(\E t \in Ids : entry_wrapper(t))

(***************************************************************************)
(* Round-robin order: no task is given the CPU twice while another one     *)
(* that was Ready all along waits, whatever is woken, created or removed   *)
(* in the meantime.                                                        *)
(***************************************************************************)
NoDoubleOvertake ==
    [][cpu'.task # cpu.task =>
        \A t \in Ids : (Waiting(t) /\ Waiting(t)') => cpu'.task \notin overtakers[t]
      ]_<<vars, overtakers>>
=============================================================================
