--------------------------- MODULE FcfsScheduler ---------------------------
(***************************************************************************)
(* fcfs_scheduler_runner: first come, first served.                        *)
(***************************************************************************)
EXTENDS ProcessScheduler

VARIABLE ready_queue

vars == <<schedVars, ready_queue>>

Init == SchedInit /\ ready_queue = <<>>

Arrive ==
  /\ StartNextScheduled
  /\ ready_queue' = AppendPcb(spi + 1, ready_queue)

Dispatch ==
  /\ pc = "arrive"
  /\ ~NextDue
  /\ \/ /\ running # None
        /\ GoOn /\ UNCHANGED ready_queue
     \/ /\ running = None
        /\ ready_queue # <<>>
        /\ Choose(Head(ready_queue)) /\ ready_queue' = PopFrontPcb(ready_queue)
     \/ /\ running = None /\ ready_queue = <<>>
        /\ IF NoMoreScheduled THEN Finish ELSE GoOn
        /\ UNCHANGED ready_queue
  /\ UNCHANGED <<scheduled_processes, spi, time, pcbs, terminated_list, output>>

Load == (LoadSwapIn \/ LoadPcb) /\ UNCHANGED ready_queue

Run ==
  /\ UNCHANGED ready_queue
  /\ \/ RunIdle
     \/ TimeStep /\ running # None /\ ~IsFinished(running) /\ RunOn
     \/ TimeStep /\ running # None /\ IsFinished(running) /\ Terminate

Next == Arrive \/ Dispatch \/ Load \/ Run \/ Stopped(vars)

Spec == Init /\ [][Next]_vars /\ WF_vars(Next)

-----------------------------------------------------------------------------
(* Properties *)

\* The types of the runner's variables.
TypeOK == SchedTypeOK /\ ready_queue \in Seq(Procs)

\* A started process is in the ready queue, running or terminated, never in
\* two of these, and in the state that belongs there.
ProcessLifecycle == Lifecycle(<<ready_queue>>)

(***************************************************************************)
(* When first come, first served starts process p: at its turn in the      *)
(* file, once it and all before it are due and the one before has ended.   *)
(***************************************************************************)
StartTime(input) ==
  LET turns(p) == IF input[p].job_time < 1 THEN 1 ELSE input[p].job_time
      due(p) == IF input[p].start_time < 0 THEN 0 ELSE input[p].start_time
      start[p \in 1 .. Len(input)] ==
        IF p = 1 THEN due(1)
        ELSE LET free == start[p - 1] + turns(p - 1)
             IN  IF due(p) > free THEN due(p) ELSE free
  IN  start

(***************************************************************************)
(* The lines printed are the first come, first served schedule of the      *)
(* input: one line for each process, in the order of the file, at the time *)
(* the reference definition gives; nobody is preempted or started twice    *)
(* (report.txt: the number of lines is the number of processes).           *)
(***************************************************************************)
OutputIsSchedule ==
  /\ \A i \in DOMAIN output :
       /\ output[i].process_id = scheduled_processes[i].process_id
       /\ output[i].time = StartTime(scheduled_processes)[i]
  /\ pc = "done" => Len(output) = Len(scheduled_processes)

(***************************************************************************)
(* Main memory holds at most one process and, below it, at most one hole   *)
(* (report.txt), so nothing is ever evicted.                               *)
(***************************************************************************)
OneProcessInMemory ==
  /\ \A p, q \in Resident : p = q
  /\ Len(free_list) <= 1

(***************************************************************************)
(* Processes run one by one: each is loaded when the reference schedule    *)
(* says, has main memory to itself, and keeps the processor until its job  *)
(* time is over (lines 344-437).                                           *)
(***************************************************************************)
RunsOneByOne ==
  TypeOK /\ ProcessLifecycle /\ OutputIsSchedule /\ OneProcessInMemory
=============================================================================
