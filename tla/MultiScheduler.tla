--------------------------- MODULE MultiScheduler ---------------------------
(***************************************************************************)
(* multi_scheduler_runner: the multi-level feedback queue.                 *)
(***************************************************************************)
EXTENDS ProcessScheduler

VARIABLE ready_qs   \* one ready queue per priority level

vars == <<schedVars, ready_qs>>

Levels == 1 .. MIN_PRIORITY

Init == SchedInit /\ ready_qs = [i \in Levels |-> <<>>]

Arrive ==
  /\ StartNextScheduled
  /\ ready_qs' = [ready_qs EXCEPT ![1] = AppendPcb(spi + 1, @)]

Ready == {i \in Levels : ready_qs[i] # <<>>}

\* The highest priority (smallest number) with a process ready.
FirstReady == CHOOSE i \in Ready : \A j \in Ready : i <= j

Dispatch ==
  /\ pc = "arrive"
  /\ ~NextDue
  /\ \/ /\ running # None
        /\ GoOn /\ UNCHANGED ready_qs
     \/ /\ running = None
        /\ Ready # {}
        /\ Choose(Head(ready_qs[FirstReady]))
        /\ ready_qs' = [ready_qs EXCEPT ![FirstReady] = PopFrontPcb(@)]
     \/ /\ running = None /\ Ready = {}
        /\ IF NoMoreScheduled THEN Finish ELSE GoOn
        /\ UNCHANGED ready_qs
  /\ UNCHANGED <<scheduled_processes, spi, time, pcbs, terminated_list, output>>

Load == (LoadSwapIn \/ LoadPcb) /\ UNCHANGED ready_qs

\* The quantum is used up: back to the ready processes, one level down.
Demote ==
  LET pcb == ReadyAndDecreasePriority(running) IN
  /\ pcbs' = [pcbs EXCEPT ![running] = pcb]
  /\ ready_qs' = [ready_qs EXCEPT ![pcb.priority] = AppendPcb(running, @)]
  /\ running' = None
  /\ UNCHANGED <<memVars, terminated_list>>

\* Faulty variant: the quantum is tested before the end of the job.
Run_QuantumFirst ==
  \/ RunIdle /\ UNCHANGED ready_qs
  \/ /\ TimeStep /\ running # None
     /\ \/ IsQuantumExhausted(running) /\ Demote
        \/ /\ ~IsQuantumExhausted(running) /\ IsFinished(running)
           /\ Terminate /\ UNCHANGED ready_qs
        \/ /\ ~IsQuantumExhausted(running) /\ ~IsFinished(running)
           /\ RunOn /\ UNCHANGED ready_qs

Run ==
  \/ RunIdle /\ UNCHANGED ready_qs
  \/ /\ TimeStep /\ running # None
     /\ \/ IsFinished(running) /\ Terminate /\ UNCHANGED ready_qs
        \/ /\ ~IsFinished(running) /\ IsQuantumExhausted(running)
           /\ Demote
        \/ /\ ~IsFinished(running) /\ ~IsQuantumExhausted(running)
           /\ RunOn /\ UNCHANGED ready_qs

Next == Arrive \/ Dispatch \/ Load \/ Run \/ Stopped(vars)

Spec == Init /\ [][Next]_vars /\ WF_vars(Next)

-----------------------------------------------------------------------------
(* Properties *)

\* The types of the runner's variables.
TypeOK == SchedTypeOK /\ ready_qs \in [Levels -> Seq(Procs)]

\* A started process is in one ready queue, running or terminated, never in
\* two of these, in the state that belongs there, and, while in memory, tells
\* by its swap-in time when it came.
ProcessLifecycle ==
  TypeOK /\ Lifecycle(ready_qs) /\ UniqueSwapInTimes

(***************************************************************************)
(* Demotion accounts for CPU time exactly: a process waits in the queue of *)
(* its own priority; above the lowest level it has used one full quantum   *)
(* of each level it has left and nothing more; on the lowest level, a      *)
(* whole number of quanta of that level besides (lines 217-224, 533-538).  *)
(* QuantaDownTo[i] is the time in one quantum of each of levels 1 to i.    *)
(***************************************************************************)
QuantaDownTo[i \in 0 .. MIN_PRIORITY] ==
  IF i = 0 THEN 0 ELSE QuantaDownTo[i - 1] + Quantum[i]

FullQuanta(i, cpu_time) ==
  LET extra == cpu_time - QuantaDownTo[i - 1] IN
  IF i < MIN_PRIORITY THEN extra = 0
  ELSE extra >= 0 /\ extra % Quantum[i] = 0

DemotionAccountsForCpuTime ==
  \A i \in Levels : \A p \in Range(ready_qs[i]) :
    pcbs[p].priority = i /\ FullQuanta(i, pcbs[p].cpu_time)
=============================================================================
