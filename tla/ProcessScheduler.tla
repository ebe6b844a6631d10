-------------------------- MODULE ProcessScheduler --------------------------
(***************************************************************************)
(* What the two schedulers of project1/process-scheduler.c share.  The     *)
(* scheduled processes of the input file are numbered from 1; process p,   *)
(* its process_control_block_t and its process_memory_t are all named p.   *)
(*                                                                         *)
(* pc is the place in the loop of a runner:                                *)
(*   "arrive"  check_scheduled_processes, then the choice of a process     *)
(*   "load"    load_pcb of the chosen process, and its status line         *)
(*   "run"     run_pcb, the time step, and what follows it                 *)
(*   "done"    the loop is left and the final line printed                 *)
(***************************************************************************)
EXTENDS MemoryManagement, FiniteSetsExt

CONSTANTS Inputs,        \* the input files, as parse_process_data_file returns them
          MIN_PRIORITY,  \* number of priority levels
          Quantum        \* time quantum of each level

ScheduledProcess ==
  [start_time : Int, process_id : Int, memory_size : Nat, job_time : Int]

ASSUME SchedulerAssumption ==
  /\ Inputs \subseteq Seq(ScheduledProcess)
  /\ \A input \in Inputs : DOMAIN input \subseteq Procs
  /\ MIN_PRIORITY \in Nat \ {0}
  /\ Quantum \in [1 .. MIN_PRIORITY -> Nat \ {0}]

VARIABLES
  scheduled_processes,  \* the input file
  spi,                  \* how many of them have been started
  time,
  running,              \* the executing process, or None
  pcbs,                 \* the process control blocks
  terminated_list,
  output,               \* the status lines printed so far
  pc

schedVars ==
  <<memVars, scheduled_processes, spi, time, running, pcbs, terminated_list,
    output, pc>>

NewProcessControlBlock ==
  [process_state |-> "ready", priority |-> 1, burst_time |-> 0, cpu_time |-> 0]

SchedInit ==
  /\ MemInit
  /\ scheduled_processes \in Inputs
  /\ spi = 0
  /\ time = 0
  /\ running = None
  /\ pcbs = [p \in Procs |-> NewProcessControlBlock]
  /\ terminated_list = <<>>
  /\ output = <<>>
  /\ pc = "arrive"

\* The queues and lists of process control blocks, as sequences.
AppendPcb(p, queue) == Append(queue, p)

PopFrontPcb(queue) == Tail(queue)

-----------------------------------------------------------------------------
NoMoreScheduled == spi = Len(scheduled_processes)

\* Faulty variant: a process is due one time step late.
NextDue_Late == ~NoMoreScheduled /\ scheduled_processes[spi + 1].start_time < time

NextDue == ~NoMoreScheduled /\ scheduled_processes[spi + 1].start_time <= time

\* One turn of the loop of check_scheduled_processes; the runner appends the
\* new process to its queue.
StartNextScheduled ==
  /\ pc = "arrive"
  /\ NextDue
  /\ spi' = spi + 1
  /\ pcbs' = [pcbs EXCEPT ![spi + 1] = NewProcessControlBlock]
  /\ AddNewProcessMemory(spi + 1, scheduled_processes[spi + 1].memory_size,
                         scheduled_processes[spi + 1].process_id)
  /\ UNCHANGED <<scheduled_processes, time, running, terminated_list, output, pc>>

\* A process has been popped: it runs next, after load_pcb.
Choose(p) ==
  /\ running' = p
  /\ pc' = "load"
  /\ IF InDisk(p) THEN SwapInCall(p) ELSE UNCHANGED memVars

\* A process is executing, or the CPU idles until the next arrival.
GoOn ==
  /\ pc' = "run"
  /\ UNCHANGED <<running, memVars>>

\* Nothing is running, ready or still to arrive: break.
Finish ==
  /\ pc' = "done"
  /\ UNCHANGED <<running, memVars>>

LoadSwapIn ==
  /\ pc = "load"
  /\ SwapInStep(time)
  /\ UNCHANGED <<scheduled_processes, spi, time, running, pcbs,
                 terminated_list, output, pc>>

\* print_simulation_status: memory usage is a percentage rounded up.
StatusLine(p) ==
  LET used == 100 * MapThenSumSet(LAMBDA q : mem[q].size, Resident) IN
  [time |-> time, process_id |-> scheduled_processes[p].process_id,
   numprocesses |-> Cardinality(Resident), numholes |-> Len(free_list),
   memusage |-> used \div memsize + (IF used % memsize = 0 THEN 0 ELSE 1)]

LoadPcb ==
  /\ pc = "load"
  /\ swapping = None
  /\ pcbs' = [pcbs EXCEPT ![running].process_state = "running",
                          ![running].burst_time = 0]
  /\ output' = Append(output, StatusLine(running))
  /\ pc' = "run"
  /\ UNCHANGED <<memVars, scheduled_processes, spi, time, running,
                 terminated_list>>

-----------------------------------------------------------------------------
(* The second half of the loop body: run_pcb and what follows the tick. *)

RunPcb(p) == [pcbs[p] EXCEPT !.burst_time = @ + 1, !.cpu_time = @ + 1]

\* Faulty variant: one time step too many.
IsFinished_OneMore(p) == RunPcb(p).cpu_time > scheduled_processes[p].job_time

IsFinished(p) == RunPcb(p).cpu_time >= scheduled_processes[p].job_time

QuantumOf(p) == Quantum[pcbs[p].priority]

\* Faulty variant: one time step more than the quantum.
IsQuantumExhausted_OneMore(p) == RunPcb(p).burst_time > QuantumOf(p)

IsQuantumExhausted(p) == RunPcb(p).burst_time >= QuantumOf(p)

TimeStep ==
  /\ pc = "run"
  /\ time' = time + 1
  /\ pc' = "arrive"
  /\ UNCHANGED <<scheduled_processes, spi, output>>

\* Faulty variant: time stands still while nothing runs.
RunIdle_NoTick ==
  /\ pc = "run"
  /\ running = None
  /\ pc' = "arrive"
  /\ UNCHANGED <<memVars, scheduled_processes, spi, time, running, pcbs,
                 terminated_list, output>>

RunIdle ==
  /\ TimeStep
  /\ running = None
  /\ UNCHANGED <<memVars, running, pcbs, terminated_list>>

RunOn ==
  /\ pcbs' = [pcbs EXCEPT ![running] = RunPcb(running)]
  /\ UNCHANGED <<memVars, running, terminated_list>>

Terminate ==
  /\ pcbs' = [pcbs EXCEPT ![running] =
                [RunPcb(running) EXCEPT !.process_state = "terminated"]]
  /\ SwapOutByProcessMemory(running)
  /\ terminated_list' = AppendPcb(running, terminated_list)
  /\ running' = None

ReadyAndDecreasePriority(p) ==
  [RunPcb(p) EXCEPT
     !.priority      = IF @ + 1 > MIN_PRIORITY THEN MIN_PRIORITY ELSE @ + 1,
     !.process_state = "ready",
     !.burst_time    = 0]

Stopped(vars) == (pc = "done" \/ fault) /\ UNCHANGED vars

-----------------------------------------------------------------------------
(* Properties *)

ProcessControlBlock ==
  [process_state : {"ready", "running", "terminated"},
   priority : 1 .. MIN_PRIORITY, burst_time : Nat, cpu_time : Nat]

\* The types of the runner's variables; a call to swap_in is made by load_pcb
\* for the process about to run, and no other.
SchedTypeOK ==
  /\ MemTypeOK
  /\ scheduled_processes \in Seq(ScheduledProcess)
  /\ spi \in 0 .. Len(scheduled_processes)
  /\ time \in Nat
  /\ running \in Procs \cup {None}
  /\ pcbs \in [Procs -> ProcessControlBlock]
  /\ terminated_list \in Seq(Procs)
  /\ pc \in {"arrive", "load", "run", "done"}
  /\ swapping # None => pc = "load" /\ swapping = running

\* A process takes its whole job time, and at least one time step.
TurnsNeeded(p) ==
  IF scheduled_processes[p].job_time < 1
  THEN 1 ELSE scheduled_processes[p].job_time

(***************************************************************************)
(* Where a started process is: in one place of one ready queue, running,   *)
(* or in one place of terminated_list (lines 150-200, 418-423, 519-539).   *)
(***************************************************************************)
Waiting(queues) == UNION {Range(queues[i]) : i \in DOMAIN queues}

NoneTwice(queues) ==
  \A i, j \in DOMAIN queues : \A k \in DOMAIN queues[i], l \in DOMAIN queues[j] :
    queues[i][k] = queues[j][l] => i = j /\ k = l

InOnePlace(queues) ==
  /\ NoneTwice(queues)
  /\ IsInjective(terminated_list)
  /\ Waiting(queues) \cap Range(terminated_list) = {}
  /\ running \notin Waiting(queues) \cup Range(terminated_list)
  /\ Waiting(queues) \cup Range(terminated_list) \cup ({running} \ {None}) = 1 .. spi

(***************************************************************************)
(* A process is in the state that belongs to its place.  One that waits or *)
(* runs still needs CPU time; one that executes is in main memory,         *)
(* whatever was evicted for it; one that has terminated got exactly its    *)
(* job time and holds no memory (lines 186-242).                           *)
(***************************************************************************)
StateFitsPlace(queues) ==
  /\ \A p \in Waiting(queues) :
       pcbs[p].process_state = "ready" /\ pcbs[p].cpu_time < TurnsNeeded(p)
  /\ running # None =>
       /\ pcbs[running].cpu_time < TurnsNeeded(running)
       /\ pc # "load" =>
            pcbs[running].process_state = "running" /\ ~InDisk(running)
  /\ \A p \in Range(terminated_list) :
       /\ pcbs[p].process_state = "terminated"
       /\ pcbs[p].cpu_time = TurnsNeeded(p)
       /\ InDisk(p)

Lifecycle(queues) == InOnePlace(queues) /\ StateFitsPlace(queues)

(***************************************************************************)
(* No two processes in memory were swapped in at the same time, so the     *)
(* "longest in memory" of an eviction is one process (lines 393, 497: at   *)
(* most one load between two time steps).                                  *)
(***************************************************************************)
UniqueSwapInTimes ==
  \A p, q \in Resident :
    /\ mem[p].swap_in_time <= time
    /\ p # q => mem[p].swap_in_time # mem[q].swap_in_time

(***************************************************************************)
(* Each status line describes a possible memory: the running process is in *)
(* it, usage is 1 to 100 percent, memory without a hole is full, and no    *)
(* two holes are adjacent (lines 249-266).                                  *)
(***************************************************************************)
StatusLinesConsistent ==
  \A i \in DOMAIN output :
    /\ output[i].numprocesses > 0
    /\ output[i].memusage \in 1 .. 100
    /\ output[i].numholes = 0 => output[i].memusage = 100
    /\ output[i].numholes <= output[i].numprocesses + 1

(***************************************************************************)
(* The simulation ends, with every process of the file run to completion.  *)
(***************************************************************************)
AllTerminate ==
  <>(pc = "done" /\ Range(terminated_list) = DOMAIN scheduled_processes)
=============================================================================
