----------------------------- MODULE MultiFcfs ------------------------------
(***************************************************************************)
(* The multi-level feedback queue against first come, first served.        *)
(***************************************************************************)
EXTENDS MultiScheduler

(***************************************************************************)
(* When no job exceeds the first quantum, the multi-level feedback queue   *)
(* "acts exactly like FCFS" (report.txt): step for step, with the same     *)
(* memory and the same status lines.                                       *)
(***************************************************************************)
Fcfs == INSTANCE FcfsScheduler WITH ready_queue <- ready_qs[1]

NoJobExceedsFirstQuantum ==
  \A p \in DOMAIN scheduled_processes :
    scheduled_processes[p].job_time <= Quantum[1]

ActsLikeFcfs ==
  /\ NoJobExceedsFirstQuantum => Fcfs!Init
  /\ [][NoJobExceedsFirstQuantum => Fcfs!Next]_vars
=============================================================================
