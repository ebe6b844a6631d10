--------------------------- MODULE SchedulerProofs --------------------------
(***************************************************************************)
(* The multi-level feedback queue, for every input file, every number of   *)
(* levels and quanta and every size of main memory.                        *)
(***************************************************************************)
EXTENDS MultiScheduler, MemoryManagementProofs

(* A leaf goes to Zenon unless it names a prover. *)
USE ZenonT(30)

-----------------------------------------------------------------------------
(* The queues as a family of sequences. *)

\* What Append makes of a sequence of processes.
LEMMA AppendElements ==
  ASSUME NEW list \in Seq(Procs), NEW p \in Procs
  PROVE  /\ Append(list, p) \in Seq(Procs)
         /\ DOMAIN Append(list, p) = DOMAIN list \cup {Len(list) + 1}
         /\ Len(list) + 1 \notin DOMAIN list
         /\ Append(list, p)[Len(list) + 1] = p
         /\ \A k \in DOMAIN list : Append(list, p)[k] = list[k]
         /\ Range(Append(list, p)) = Range(list) \cup {p}
<1>1. /\ Append(list, p) \in Seq(Procs)
      /\ DOMAIN Append(list, p) = DOMAIN list \cup {Len(list) + 1}
      /\ Len(list) + 1 \notin DOMAIN list
      /\ Append(list, p)[Len(list) + 1] = p
      /\ \A k \in DOMAIN list : Append(list, p)[k] = list[k]
  BY SMTT(30)
<1> QED BY <1>1 DEF Range

Appended(queues, i, p, after) == after = [queues EXCEPT ![i] = AppendPcb(p, @)]

\* Which queue holds the process besides those it held before.
Gained(queues, i, p, after) ==
  /\ Range(after[i]) = Range(queues[i]) \cup {p}
  /\ \A j \in Levels : j # i => Range(after[j]) = Range(queues[j])

\* No queue holds a process it did not hold.
NoneGained(queues, after) ==
  \A j \in Levels : Range(after[j]) \subseteq Range(queues[j])

\* append_pcb_to_pcbs_list: one queue gains the process, the others stay.
LEMMA AppendToQueue ==
  ASSUME NEW queues \in [Levels -> Seq(Procs)], NEW i \in Levels, NEW p \in Procs,
         NoneTwice(queues), p \notin Waiting(queues),
         NEW after, Appended(queues, i, p, after)
  PROVE  /\ after \in [Levels -> Seq(Procs)]
         /\ NoneTwice(after)
         /\ Waiting(after) = Waiting(queues) \cup {p}
         /\ Gained(queues, i, p, after)
<1>1. /\ after \in [Levels -> Seq(Procs)]
      /\ after[i] = Append(queues[i], p)
      /\ \A j \in Levels : j # i => after[j] = queues[j]
  BY SMTT(30) DEF Appended, AppendPcb
<1>2. /\ queues[i] \in Seq(Procs)
      /\ DOMAIN after[i] = DOMAIN queues[i] \cup {Len(queues[i]) + 1}
      /\ Len(queues[i]) + 1 \notin DOMAIN queues[i]
      /\ after[i][Len(queues[i]) + 1] = p
      /\ \A k \in DOMAIN queues[i] : after[i][k] = queues[i][k]
  BY SMTT(30), <1>1, AppendElements
<1>3. \A j \in Levels : Range(after[j]) =
        IF j = i THEN Range(queues[j]) \cup {p} ELSE Range(queues[j])
  <2>1. Range(Append(queues[i], p)) = Range(queues[i]) \cup {p}
    BY <1>2, AppendElements
  <2> QED BY <1>1, <2>1, ZenonT(30)
<1>4. Waiting(after) = Waiting(queues) \cup {p}
  <2>1. \A r : r \in Waiting(after) <=> \E j \in Levels : r \in Range(after[j])
    BY <1>1 DEF Waiting
  <2>2. \A r : r \in Waiting(queues) <=> \E j \in Levels : r \in Range(queues[j])
    BY DEF Waiting
  <2> QED BY <1>3, <2>1, <2>2
<1>5. \A j \in Levels : \A k \in DOMAIN queues[j] : queues[j][k] # p
  BY SMTT(30) DEF Waiting, Range
<1>6. NoneTwice(after)
  <2> SUFFICES ASSUME NEW j \in Levels, NEW l \in Levels,
                      NEW k \in DOMAIN after[j], NEW m \in DOMAIN after[l],
                      after[j][k] = after[l][m]
               PROVE  j = l /\ k = m
    BY <1>1 DEF NoneTwice
  <2>1. \A h \in Levels : \A n \in DOMAIN after[h] :
          \/ n \in DOMAIN queues[h] /\ after[h][n] = queues[h][n] /\ after[h][n] # p
          \/ h = i /\ n = Len(queues[i]) + 1 /\ after[h][n] = p
    BY <1>1, <1>2, <1>5
  <2>2. /\ \/ k \in DOMAIN queues[j] /\ after[j][k] = queues[j][k] /\ after[j][k] # p
           \/ j = i /\ k = Len(queues[i]) + 1 /\ after[j][k] = p
        /\ \/ m \in DOMAIN queues[l] /\ after[l][m] = queues[l][m] /\ after[l][m] # p
           \/ l = i /\ m = Len(queues[i]) + 1 /\ after[l][m] = p
    BY <2>1, ZenonT(30)
  <2>3. CASE k \in DOMAIN queues[j] /\ m \in DOMAIN queues[l] /\ queues[j][k] = queues[l][m]
    <3>1. j \in DOMAIN queues /\ l \in DOMAIN queues
      OBVIOUS
    <3> QED BY SMTT(30), <2>3, <3>1 DEF NoneTwice
  <2> QED BY <2>2, <2>3
<1>7. Gained(queues, i, p, after)
  BY <1>3 DEF Gained
<1> QED BY <1>1, <1>4, <1>6, <1>7

\* The queues after the front of one of them has been taken.
Popped(queues, i, after) == after = [queues EXCEPT ![i] = PopFrontPcb(@)]

\* pop_front_pcb_from_pcbs_queue: the front leaves its queue, for good.
LEMMA PopFromQueue ==
  ASSUME NEW queues \in [Levels -> Seq(Procs)], NEW i \in Levels,
         NoneTwice(queues), queues[i] # <<>>,
         NEW after, Popped(queues, i, after),
         NEW p, p = Head(queues[i])
  PROVE  /\ after \in [Levels -> Seq(Procs)]
         /\ NoneTwice(after)
         /\ p \in Procs /\ p \in Range(queues[i]) /\ p \in Waiting(queues)
         /\ Waiting(after) = Waiting(queues) \ {p}
         /\ NoneGained(queues, after)
<1>1. /\ after \in [Levels -> Seq(Procs)]
      /\ after[i] = Tail(queues[i])
      /\ \A j \in Levels : j # i => after[j] = queues[j]
  BY SMTT(30) DEF Popped, PopFrontPcb
<1>2. /\ queues[i] \in Seq(Procs) /\ 1 \in DOMAIN queues[i] /\ p = queues[i][1]
      /\ p \in Procs
      /\ \A k \in DOMAIN after[i] : /\ k + 1 \in DOMAIN queues[i] /\ k \in Nat \ {0}
                                    /\ after[i][k] = queues[i][k + 1]
      /\ \A k \in DOMAIN queues[i] : k # 1 => /\ k - 1 \in DOMAIN after[i]
                                              /\ (k - 1) + 1 = k
  BY SMTT(30), <1>1
<1>3. ASSUME NEW j \in Levels PROVE Range(after[j]) \subseteq Range(queues[j])
  <2>1. CASE j = i
    BY SMTT(30), <1>2, <2>1 DEF Range
  <2>2. CASE j # i
    BY <1>1, <2>2
  <2> QED BY <2>1, <2>2
<1>4. p \in Range(queues[i]) /\ p \in Waiting(queues)
  BY SMTT(30), <1>2 DEF Range, Waiting
<1>5. ASSUME NEW j \in Levels PROVE p \notin Range(after[j])
  <2>1. CASE j = i
    BY SMTT(30), <1>1, <1>2, <2>1 DEF NoneTwice, Range
  <2>2. CASE j # i
    BY SMTT(30), <1>1, <1>2, <2>2 DEF NoneTwice, Range
  <2> QED BY <2>1, <2>2
<1>6. ASSUME NEW j \in Levels, NEW q \in Range(queues[j]), q # p
      PROVE  q \in Range(after[j])
  <2>1. PICK k \in DOMAIN queues[j] : queues[j][k] = q
    BY <1>6 DEF Range
  <2>2. CASE j = i
    <3>1. k # 1 /\ k - 1 \in DOMAIN after[i] /\ after[i][k - 1] = q
      BY <1>2, <1>6, <2>1, <2>2
    <3> QED BY <2>2, <3>1 DEF Range
  <2>3. CASE j # i
    BY <1>1, <1>6, <2>3
  <2> QED BY <2>2, <2>3
<1>7. Waiting(after) = Waiting(queues) \ {p}
  BY <1>1, <1>3, <1>5, <1>6 DEF Waiting
<1>8. NoneTwice(after)
  <2> SUFFICES ASSUME NEW j \in Levels, NEW l \in Levels,
                      NEW k \in DOMAIN after[j], NEW m \in DOMAIN after[l],
                      after[j][k] = after[l][m]
               PROVE  j = l /\ k = m
    BY <1>1 DEF NoneTwice
  <2> DEFINE was(h, n) == IF h = i THEN n + 1 ELSE n
  <2>1. ASSUME NEW h \in Levels, NEW n \in DOMAIN after[h]
        PROVE  was(h, n) \in DOMAIN queues[h] /\ after[h][n] = queues[h][was(h, n)] /\ n \in Nat
    <3>1. CASE h = i
      BY <1>2, <3>1
    <3>2. CASE h # i
      <4>1. after[h] = queues[h] /\ queues[h] \in Seq(Procs)
        BY <1>1, <3>2
      <4> QED BY SMTT(30), <3>2, <4>1
    <3> QED BY <3>1, <3>2
  <2>2. j = l /\ was(j, k) = was(l, m)
    <3>1. /\ was(j, k) \in DOMAIN queues[j] /\ was(l, m) \in DOMAIN queues[l]
          /\ queues[j][was(j, k)] = queues[l][was(l, m)]
          /\ j \in DOMAIN queues /\ l \in DOMAIN queues
      BY SMTT(30), <2>1
    <3> HIDE DEF was
    <3> QED BY <3>1 DEF NoneTwice
  <2> QED BY SMTT(30), <2>1, <2>2
<1>9. NoneGained(queues, after)
  BY <1>3 DEF NoneGained
<1> QED BY <1>1, <1>2, <1>4, <1>7, <1>8, <1>9

\* The list of terminated processes gains one it does not hold.
LEMMA AppendToList ==
  ASSUME NEW list \in Seq(Procs), NEW p \in Procs, IsInjective(list), p \notin Range(list)
  PROVE  /\ Append(list, p) \in Seq(Procs)
         /\ IsInjective(Append(list, p))
         /\ Range(Append(list, p)) = Range(list) \cup {p}
BY SMTT(30), AppendElements DEF IsInjective, Range


-----------------------------------------------------------------------------
(* The inductive invariant. *)

\* Only the process loaded in this time step can have come in this time step.
SwapTimes ==
  \A p \in Resident :
    \/ mem[p].swap_in_time < time
    \/ /\ mem[p].swap_in_time = time /\ p = running
       /\ pc = "run" \/ (pc = "load" /\ swapping = None)

\* A process is chosen before it is loaded, and while it is in disk the call
\* that brings it in has not returned.
Loading == pc = "load" => running # None /\ (InDisk(running) => swapping = running)

SchedInv ==
  /\ MemInv /\ TypeOK
  /\ scheduled_processes \in Inputs
  /\ Listed = 1 .. spi
  /\ InOnePlace(ready_qs) /\ StateFitsPlace(ready_qs)
  /\ Loading
  /\ SwapTimes /\ UniqueSwapInTimes

\* The facts about the constants and the input file that the steps need.
LEMMA Started ==
  ASSUME SchedInv
  PROVE  /\ MIN_PRIORITY \in Nat /\ 1 \in Levels /\ Levels \subseteq Nat /\ None \notin Procs
         /\ spi \in Nat /\ Len(scheduled_processes) \in Nat
         /\ DOMAIN scheduled_processes = 1 .. Len(scheduled_processes)
         /\ DOMAIN scheduled_processes \subseteq Procs
         /\ 1 .. spi \subseteq DOMAIN scheduled_processes
         /\ Waiting(ready_qs) \subseteq 1 .. spi
         /\ Range(terminated_list) \subseteq 1 .. spi
         /\ running # None => running \in 1 .. spi
<1>1. /\ scheduled_processes \in Seq(ScheduledProcess)
      /\ DOMAIN scheduled_processes \subseteq Procs
      /\ spi \in 0 .. Len(scheduled_processes)
  BY SchedulerAssumption DEF SchedInv, TypeOK, SchedTypeOK
<1>2. /\ Len(scheduled_processes) \in Nat
      /\ DOMAIN scheduled_processes = 1 .. Len(scheduled_processes)
  BY SMTT(30), <1>1
<1>3. MIN_PRIORITY \in Nat /\ 1 \in Levels /\ Levels \subseteq Nat /\ None \notin Procs
  BY SMTT(30), MemoryAssumption, SchedulerAssumption DEF Levels
<1>4. /\ Waiting(ready_qs) \subseteq 1 .. spi
      /\ Range(terminated_list) \subseteq 1 .. spi
      /\ running # None => running \in 1 .. spi
  BY DEF SchedInv, InOnePlace
<1> QED BY SMTT(30), <1>1, <1>2, <1>3, <1>4

\* What the input file says of a process.
LEMMA InputFields ==
  ASSUME SchedInv, NEW p \in DOMAIN scheduled_processes
  PROVE  /\ scheduled_processes[p].memory_size \in Nat
         /\ scheduled_processes[p].process_id \in Int
         /\ scheduled_processes[p].job_time \in Int
         /\ TurnsNeeded(p) \in Nat \ {0}
         /\ scheduled_processes[p].job_time <= TurnsNeeded(p)
         /\ TurnsNeeded(p) = 1 \/ TurnsNeeded(p) = scheduled_processes[p].job_time
<1>1. scheduled_processes \in Seq(ScheduledProcess)
  BY DEF SchedInv, TypeOK, SchedTypeOK
<1>2. scheduled_processes[p] \in ScheduledProcess
  BY SMTT(30), <1>1
<1>3. /\ scheduled_processes[p].memory_size \in Nat
      /\ scheduled_processes[p].process_id \in Int
      /\ scheduled_processes[p].job_time \in Int
  BY <1>2 DEF ScheduledProcess
<1> QED BY SMTT(30), <1>3 DEF TurnsNeeded

\* The fields of a process control block, before and after they are set.
LEMMA PcbFields ==
  ASSUME NEW pcb \in ProcessControlBlock
  PROVE  /\ pcb.process_state \in {"ready", "running", "terminated"}
         /\ pcb.priority \in 1 .. MIN_PRIORITY
         /\ pcb.burst_time \in Nat /\ pcb.cpu_time \in Nat
         /\ pcb = [process_state |-> pcb.process_state, priority |-> pcb.priority,
                   burst_time |-> pcb.burst_time, cpu_time |-> pcb.cpu_time]
BY DEF ProcessControlBlock

\* The simulation starts in the invariant.
LEMMA InitSchedInv ==
  ASSUME Init
  PROVE  SchedInv
<1>1. /\ MemInv /\ MemInit /\ ready_qs = [i \in Levels |-> <<>>]
      /\ scheduled_processes \in Inputs /\ spi = 0 /\ time = 0 /\ running = None
      /\ pcbs = [p \in Procs |-> NewProcessControlBlock]
      /\ terminated_list = <<>> /\ pc = "arrive" /\ swapping = None
  BY InitMemInv, MemoryAssumption DEF Init, SchedInit, MemInit
<1>2. Resident = {} /\ Listed = {}
  BY SMTT(30), <1>1 DEF MemInit, Resident, InDisk, NewProcessMemory, Listed, Range
<1>3. NewProcessControlBlock \in ProcessControlBlock
  BY SMTT(30), SchedulerAssumption DEF NewProcessControlBlock, ProcessControlBlock
<1>4. <<>> \in Seq(Procs)
  BY SMTT(30)
<1>5. scheduled_processes \in Seq(ScheduledProcess)
  BY <1>1, SchedulerAssumption
<1>6. TypeOK
  <2>1. spi \in 0 .. Len(scheduled_processes)
    BY SMTT(30), <1>1, <1>5
  <2> QED BY <1>1, <1>3, <1>4, <1>5, <2>1 DEF TypeOK, SchedTypeOK, MemInv
<1>7. Waiting(ready_qs) = {} /\ Range(terminated_list) = {} /\ NoneTwice(ready_qs)
  BY SMTT(30), <1>1 DEF Waiting, Range, NoneTwice
<1>8. InOnePlace(ready_qs)
  BY SMTT(30), <1>1, <1>7 DEF InOnePlace, IsInjective
<1>9. StateFitsPlace(ready_qs)
  BY <1>1, <1>7 DEF StateFitsPlace
<1>10. Listed = 1 .. spi
  BY SMTT(30), <1>1, <1>2
<1> QED BY <1>1, <1>2, <1>6, <1>8, <1>9, <1>10
        DEF SchedInv, Loading, SwapTimes, UniqueSwapInTimes

-----------------------------------------------------------------------------
(* One lemma for each action. *)

\* check_scheduled_processes: the new process is in memory's list and at the
\* end of the first queue, and was nowhere before.
LEMMA ArriveInv ==
  ASSUME SchedInv, Arrive
  PROVE  SchedInv'
<1> DEFINE p == spi + 1
<1>1. /\ pc = "arrive" /\ ~NoMoreScheduled /\ spi' = p
      /\ pcbs' = [pcbs EXCEPT ![p] = NewProcessControlBlock]
      /\ AddNewProcessMemory(p, scheduled_processes[p].memory_size,
                             scheduled_processes[p].process_id)
      /\ UNCHANGED <<scheduled_processes, time, running, terminated_list, output, pc>>
      /\ ready_qs' = [ready_qs EXCEPT ![1] = AppendPcb(p, @)]
  BY DEF Arrive, StartNextScheduled, NextDue
<1>2. p \in DOMAIN scheduled_processes /\ p \in Procs /\ p \notin 1 .. spi
  BY SMTT(30), <1>1, Started DEF NoMoreScheduled, SchedInv, TypeOK, SchedTypeOK
<1>3. /\ MemInv' /\ Listed' = Listed \cup {p} /\ Resident' = Resident
      /\ \A q \in Procs : q # p => mem'[q] = mem[q]
      /\ UNCHANGED swapping
  BY <1>1, <1>2, AddNewProcessMemoryInv, InputFields DEF SchedInv, AddNewProcessMemory
<1>4. /\ ready_qs' \in [Levels -> Seq(Procs)] /\ NoneTwice(ready_qs')
      /\ Waiting(ready_qs') = Waiting(ready_qs) \cup {p}
  <2>1. /\ ready_qs \in [Levels -> Seq(Procs)] /\ NoneTwice(ready_qs)
        /\ p \notin Waiting(ready_qs) /\ 1 \in Levels
    BY <1>2, Started DEF SchedInv, TypeOK, InOnePlace
  <2>2. Appended(ready_qs, 1, p, ready_qs') /\ p \in Procs
    BY <1>1, <1>2 DEF Appended
  <2> HIDE DEF p
  <2> QED BY <2>1, <2>2, AppendToQueue
<1>5. pcbs' \in [Procs -> ProcessControlBlock]
  <2>1. NewProcessControlBlock \in ProcessControlBlock
    BY SMTT(30), SchedulerAssumption DEF NewProcessControlBlock, ProcessControlBlock
  <2> QED BY <1>1, <2>1 DEF SchedInv, TypeOK, SchedTypeOK
<1>6. p \in 0 .. Len(scheduled_processes) /\ 1 .. p = (1 .. spi) \cup {p}
  BY SMTT(30), <1>2, Started
<1> HIDE DEF p
<1>7. TypeOK'
  BY <1>1, <1>3, <1>4, <1>5, <1>6 DEF SchedInv, TypeOK, SchedTypeOK, MemInv
<1>8. InOnePlace(ready_qs)'
  <2>1. /\ p \notin Range(terminated_list) /\ p # running
    BY <1>2, Started
  <2>2. InOnePlace(ready_qs)
    BY DEF SchedInv
  <2> QED BY <1>1, <1>4, <1>6, <2>1, <2>2 DEF InOnePlace
<1>9. StateFitsPlace(ready_qs)'
  <2>1. \A q \in 1 .. spi : pcbs'[q] = pcbs[q] /\ mem'[q] = mem[q]
    <3>1. \A q \in 1 .. spi : q \in Procs /\ q # p
      BY <1>2, Started
    <3>2. pcbs \in [Procs -> ProcessControlBlock]
      BY DEF SchedInv, TypeOK, SchedTypeOK
    <3>3. \A q \in 1 .. spi : pcbs'[q] = pcbs[q]
      BY <1>1, <3>1, <3>2
    <3> QED BY <1>3, <3>1, <3>3
  <2>2. pcbs'[p].process_state = "ready" /\ pcbs'[p].cpu_time = 0 /\ 0 < TurnsNeeded(p)
    BY SMTT(30), <1>1, <1>2, InputFields DEF NewProcessControlBlock, SchedInv, TypeOK, SchedTypeOK
  <2>3. StateFitsPlace(ready_qs)
    BY DEF SchedInv
  <2>4. /\ Waiting(ready_qs) \subseteq 1 .. spi /\ Range(terminated_list) \subseteq 1 .. spi
        /\ running # None => running \in 1 .. spi
    BY Started
  <2>5. UNCHANGED <<scheduled_processes, running, pc, terminated_list>>
    BY <1>1
  <2> QED BY <1>4, <2>1, <2>2, <2>3, <2>4, <2>5 DEF StateFitsPlace, InDisk, TurnsNeeded
<1>10. SwapTimes' /\ UniqueSwapInTimes'
  <2>1. \A q \in Resident : mem'[q] = mem[q]
    BY <1>2, <1>3 DEF Resident, SchedInv, MemInv, MemTypeOK
  <2> QED BY SMTT(30), <1>1, <1>3, <2>1 DEF SchedInv, SwapTimes, UniqueSwapInTimes
<1> QED BY <1>1, <1>3, <1>6, <1>7, <1>8, <1>9, <1>10 DEF SchedInv, Loading

\* A step that moves nothing but the place in the loop, and not to "load".
LEMMA MoveOnInv ==
  ASSUME SchedInv, pc = "arrive", pc' \in {"run", "done"},
         UNCHANGED <<memVars, scheduled_processes, spi, time, running, pcbs,
                     terminated_list, ready_qs>>
  PROVE  SchedInv'
<1>1. MemInv'
  BY StutterMemInv DEF SchedInv
<1>2. TypeOK'
  BY <1>1 DEF SchedInv, TypeOK, SchedTypeOK, MemInv, memVars
<1>3. InOnePlace(ready_qs)' /\ StateFitsPlace(ready_qs)'
  BY DEF SchedInv, InOnePlace, StateFitsPlace, TurnsNeeded, InDisk, memVars
<1>4. SwapTimes' /\ UniqueSwapInTimes' /\ Listed' = 1 .. spi'
  BY DEF SchedInv, SwapTimes, UniqueSwapInTimes, Resident, InDisk, Listed, memVars
<1> QED BY <1>1, <1>2, <1>3, <1>4 DEF SchedInv, Loading

\* The first queue with a process in it.
LEMMA FirstReadyFound ==
  ASSUME Ready # {}, Levels \subseteq Nat
  PROVE  FirstReady \in Levels /\ ready_qs[FirstReady] # <<>>
<1>1. \E i \in Ready : \A j \in Ready : i <= j
  BY LeastElement DEF Ready
<1> QED BY <1>1 DEF FirstReady, Ready

\* pop_front_pcb_from_pcbs_queue and the call of load_pcb.
LEMMA ChooseInv ==
  ASSUME SchedInv, pc = "arrive", running = None, Ready # {},
         Choose(Head(ready_qs[FirstReady])),
         ready_qs' = [ready_qs EXCEPT ![FirstReady] = PopFrontPcb(@)],
         UNCHANGED <<scheduled_processes, spi, time, pcbs, terminated_list>>
  PROVE  SchedInv'
<1> DEFINE p == Head(ready_qs[FirstReady])
<1>1. /\ ready_qs' \in [Levels -> Seq(Procs)] /\ NoneTwice(ready_qs')
      /\ p \in Procs /\ p \in Waiting(ready_qs)
      /\ Waiting(ready_qs') = Waiting(ready_qs) \ {p}
  <2>1. /\ FirstReady \in Levels /\ ready_qs[FirstReady] # <<>> /\ NoneTwice(ready_qs)
        /\ ready_qs \in [Levels -> Seq(Procs)]
    BY FirstReadyFound, Started DEF SchedInv, TypeOK, InOnePlace
  <2>2. Popped(ready_qs, FirstReady, ready_qs')
    BY DEF Popped
  <2> QED BY <2>1, <2>2, PopFromQueue
<1>2. /\ running' = p /\ pc' = "load"
      /\ IF InDisk(p) THEN SwapInCall(p) ELSE UNCHANGED memVars
  BY DEF Choose
<1> HIDE DEF p
<1>3. p \in 1 .. spi /\ p \in Listed /\ p # None
  BY <1>1, Started DEF SchedInv
<1>4. MemInv' /\ UNCHANGED <<mem, process_memories_list>>
  <2>1. CASE InDisk(p)
    BY <1>2, <1>3, <2>1, SwapInCallInv DEF SchedInv, SwapInCall
  <2>2. CASE ~InDisk(p)
    BY <1>2, <2>2, StutterMemInv DEF SchedInv, memVars
  <2> QED BY <2>1, <2>2
<1>5. swapping' = IF InDisk(p) THEN p ELSE None
  BY <1>2 DEF SwapInCall, memVars, SchedInv, TypeOK, SchedTypeOK
<1>6. TypeOK'
  BY <1>1, <1>2, <1>4, <1>5 DEF SchedInv, TypeOK, SchedTypeOK, MemInv
<1>7. InOnePlace(ready_qs)'
  BY <1>1, <1>2, <1>3 DEF SchedInv, InOnePlace
<1>8. StateFitsPlace(ready_qs)'
  BY <1>1, <1>2, <1>4 DEF SchedInv, StateFitsPlace, TurnsNeeded, InDisk
<1>9. SwapTimes' /\ UniqueSwapInTimes' /\ Listed' = 1 .. spi'
  BY <1>4 DEF SchedInv, SwapTimes, UniqueSwapInTimes, Resident, InDisk, Listed
<1>10. Loading'
  BY <1>2, <1>3, <1>4, <1>5 DEF Loading, InDisk
<1> QED BY <1>4, <1>6, <1>7, <1>8, <1>9, <1>10 DEF SchedInv


\* Each turn of swap_in_process_memory: evictions hit processes that wait, and
\* the one placed is the one to run.
LEMMA LoadSwapInInv ==
  ASSUME SchedInv, LoadSwapIn, UNCHANGED ready_qs
  PROVE  SchedInv'
<1>1. /\ pc = "load" /\ SwapInStep(time) /\ swapping # None
      /\ UNCHANGED <<scheduled_processes, spi, time, running, pcbs, terminated_list, pc>>
  BY DEF LoadSwapIn, SwapInStep
<1>2. /\ MemInv /\ MemTypeOK /\ None \notin Procs /\ time \in Nat
      /\ swapping = running /\ running \in Procs /\ running # None /\ InDisk(running)
  BY <1>1, MemoryAssumption DEF SchedInv, MemInv, TypeOK, SchedTypeOK, MemTypeOK
<1>3. MemInv'
  BY <1>1, <1>2, SwapInStepInv
<1>4. /\ UNCHANGED process_memories_list
      /\ swapping' = IF SwapInReturn(time) THEN None ELSE swapping
  BY <1>1 DEF SwapInStep, SwapInReturn, SwapOutProcessMemory, SwapOutUninitialised
<1>5. \A q \in Procs : q # running =>
        /\ InDisk(q) => InDisk(q)'
        /\ ~InDisk(q)' => mem'[q] = mem[q]
  <2>1. CASE SwapInReturn(time)
    <3>1. \A q \in Procs : q # running => mem'[q] = mem[q]
      BY <1>1, <1>2, <2>1, PlaceFields
    <3> QED BY <3>1 DEF InDisk
  <2>2. CASE SwapOutProcessMemory
    <3>1. PICK v \in Procs : Release(v)
      BY <1>2, <2>2, VictimResident DEF SwapOutProcessMemory, Resident
    <3>2. (\A q \in Procs : q # v => mem'[q] = mem[q]) /\ InDisk(v)'
      BY <1>2, <3>1, ReleaseFields
    <3> QED BY <3>2 DEF InDisk
  <2>3. CASE SwapOutUninitialised
    BY <2>3 DEF SwapOutUninitialised, InDisk
  <2> QED BY <1>1, <2>1, <2>2, <2>3 DEF SwapInStep
<1>6. IF SwapInReturn(time) THEN ~InDisk(running)' /\ mem'[running].swap_in_time = time
      ELSE InDisk(running)'
  <2>1. CASE SwapInReturn(time)
    <3>1. Resident' = Resident \cup {running}
      BY <1>1, <1>2, <2>1, PlaceFields
    <3>2. mem'[running].swap_in_time = time
      BY <1>2, <2>1 DEF SwapInReturn, MemTypeOK, ProcessMemory
    <3> QED BY <1>1, <1>2, <2>1, <3>1, <3>2 DEF Resident, InDisk
  <2>2. CASE SwapOutProcessMemory
    <3>1. PICK v \in Procs : Release(v) /\ ~SwapInReturn(time)
      BY <1>2, <2>2, VictimResident DEF SwapOutProcessMemory, Resident, SwapInReturn
    <3>2. Resident' = Resident \ {v}
      BY <1>2, <3>1, ReleaseFields
    <3> QED BY <1>1, <1>2, <3>1, <3>2 DEF Resident, InDisk
  <2>3. CASE SwapOutUninitialised
    BY <1>1, <1>2, <2>3 DEF SwapOutUninitialised, InDisk, SwapInReturn
  <2> QED BY <1>1, <2>1, <2>2, <2>3 DEF SwapInStep
<1>7. TypeOK'
  BY <1>1, <1>2, <1>3, <1>4 DEF SchedInv, TypeOK, SchedTypeOK, MemInv
<1>8. InOnePlace(ready_qs)'
  BY <1>1 DEF SchedInv, InOnePlace
<1>9. StateFitsPlace(ready_qs)'
  <2>1. \A q \in Range(terminated_list) : q \in Procs /\ q # running
    BY Started DEF SchedInv, InOnePlace
  <2> QED BY <1>1, <1>5, <2>1 DEF SchedInv, StateFitsPlace, TurnsNeeded
<1>10. Loading' /\ Listed' = 1 .. spi'
  BY <1>1, <1>2, <1>4, <1>6 DEF SchedInv, Loading, Listed
<1>11. \A q \in Resident' : q # running => q \in Resident /\ mem'[q] = mem[q]
  BY <1>5 DEF Resident
<1>12. \A q \in Resident : mem[q].swap_in_time < time
  BY <1>1, <1>2 DEF SchedInv, SwapTimes
<1>13. SwapTimes'
  BY <1>1, <1>4, <1>6, <1>11, <1>12 DEF SwapTimes, Resident
<1>14. UniqueSwapInTimes'
  <2>1. \A q \in Resident : mem[q].swap_in_time \in Nat
    BY <1>2, MemFields DEF Resident
  <2>2. running \in Resident' => mem'[running].swap_in_time = time
    BY <1>1, <1>6 DEF Resident, InDisk
  <2>3. UniqueSwapInTimes
    BY DEF SchedInv
  <2> QED BY SMTT(30), <1>1, <1>2, <1>11, <1>12, <2>1, <2>2, <2>3 DEF UniqueSwapInTimes
<1> QED BY <1>1, <1>3, <1>7, <1>8, <1>9, <1>10, <1>13, <1>14 DEF SchedInv

\* What load_pcb makes of the block of the chosen process.
LEMMA LoadedFields ==
  ASSUME SchedInv, LoadPcb
  PROVE  /\ running # None /\ running \in Procs /\ ~InDisk(running)
         /\ pcbs' \in [Procs -> ProcessControlBlock]
         /\ \A q \in Procs : q # running => pcbs'[q] = pcbs[q]
         /\ pcbs'[running].process_state = "running"
         /\ pcbs'[running].burst_time = 0
         /\ pcbs'[running].priority = pcbs[running].priority
         /\ pcbs'[running].cpu_time = pcbs[running].cpu_time
<1> DEFINE pcb == pcbs[running]
<1>1. /\ pc = "load" /\ swapping = None
      /\ pcbs' = [pcbs EXCEPT ![running].process_state = "running",
                              ![running].burst_time = 0]
  BY DEF LoadPcb
<1>2. /\ running # None /\ running \in Procs /\ ~InDisk(running)
      /\ pcbs \in [Procs -> ProcessControlBlock] /\ pcb \in ProcessControlBlock
  BY <1>1 DEF SchedInv, Loading, TypeOK, SchedTypeOK
<1>3. /\ \A q \in Procs : q # running => pcbs'[q] = pcbs[q]
      /\ pcbs'[running] = [pcbs[running] EXCEPT !.process_state = "running", !.burst_time = 0]
      /\ pcbs' = [pcbs EXCEPT ![running] = pcbs'[running]]
  <2> HIDE DEF pcb
  <2> QED BY <1>1, <1>2
<1>4. pcbs'[running] = [process_state |-> "running", priority |-> pcb.priority,
                        burst_time |-> 0, cpu_time |-> pcb.cpu_time]
  <2>1. pcbs'[running] = [pcb EXCEPT !.process_state = "running", !.burst_time = 0]
    BY <1>3
  <2> HIDE DEF pcb
  <2> QED BY <1>2, <2>1, PcbFields
<1> HIDE DEF pcb
<1>5. pcbs'[running] \in ProcessControlBlock
  BY <1>2, <1>4, PcbFields DEF ProcessControlBlock
<1>6. pcbs' \in [Procs -> ProcessControlBlock]
  BY <1>2, <1>3, <1>5
<1> QED BY <1>2, <1>3, <1>4, <1>6 DEF pcb

\* load_pcb returns and the status line is printed: the process runs.
LEMMA LoadPcbInv ==
  ASSUME SchedInv, LoadPcb, UNCHANGED ready_qs
  PROVE  SchedInv'
<1>1. /\ pc = "load" /\ swapping = None /\ pc' = "run" /\ UNCHANGED memVars
      /\ UNCHANGED <<scheduled_processes, spi, time, running, terminated_list>>
  BY DEF LoadPcb
<1>2. running # None /\ running \in Procs /\ ~InDisk(running)
  BY LoadedFields
<1>3. MemInv'
  BY <1>1, StutterMemInv DEF SchedInv
<1>4. \A q \in Procs : q # running => pcbs'[q] = pcbs[q]
  BY LoadedFields
<1>5. /\ pcbs'[running].process_state = "running"
      /\ pcbs'[running].cpu_time = pcbs[running].cpu_time
  BY LoadedFields
<1>6. pcbs' \in [Procs -> ProcessControlBlock]
  BY LoadedFields
<1>7. TypeOK'
  BY <1>1, <1>3, <1>6 DEF SchedInv, TypeOK, SchedTypeOK, MemInv, memVars
<1>8. InOnePlace(ready_qs)'
  BY <1>1 DEF SchedInv, InOnePlace
<1>9. StateFitsPlace(ready_qs)'
  <2>1. \A q \in Waiting(ready_qs) \cup Range(terminated_list) : q \in Procs /\ q # running
    BY Started DEF SchedInv, InOnePlace
  <2> QED BY <1>1, <1>2, <1>4, <1>5, <2>1
          DEF SchedInv, StateFitsPlace, TurnsNeeded, InDisk, memVars
<1>10. SwapTimes' /\ UniqueSwapInTimes' /\ Listed' = 1 .. spi'
  BY <1>1 DEF SchedInv, SwapTimes, UniqueSwapInTimes, Resident, InDisk, Listed, memVars
<1> QED BY <1>1, <1>3, <1>7, <1>8, <1>9, <1>10 DEF SchedInv, Loading


\* What run_pcb makes of the block of the running process.
LEMMA RunFields ==
  ASSUME SchedInv, pc = "run", running # None
  PROVE  /\ running \in Procs /\ running \in 1 .. spi
         /\ running \in DOMAIN scheduled_processes
         /\ pcbs \in [Procs -> ProcessControlBlock]
         /\ RunPcb(running) \in ProcessControlBlock
         /\ RunPcb(running).process_state = "running"
         /\ RunPcb(running).priority = pcbs[running].priority
         /\ RunPcb(running).cpu_time = pcbs[running].cpu_time + 1
         /\ RunPcb(running).burst_time = pcbs[running].burst_time + 1
         /\ pcbs[running].cpu_time \in Nat /\ pcbs[running].burst_time \in Nat
         /\ pcbs[running].cpu_time < TurnsNeeded(running)
         /\ ~InDisk(running)
<1>1. /\ running \in Procs /\ running \in 1 .. spi
      /\ running \in DOMAIN scheduled_processes
      /\ pcbs \in [Procs -> ProcessControlBlock]
  BY Started DEF SchedInv, TypeOK, SchedTypeOK
<1>2. /\ pcbs[running].process_state = "running"
      /\ pcbs[running].cpu_time < TurnsNeeded(running) /\ ~InDisk(running)
  BY DEF SchedInv, StateFitsPlace
<1> DEFINE pcb == pcbs[running]
<1>3. pcb \in ProcessControlBlock
  BY <1>1
<1> DEFINE burst == pcb.burst_time + 1
           cpu == pcb.cpu_time + 1
<1>4. RunPcb(running) = [pcb EXCEPT !.burst_time = burst, !.cpu_time = cpu]
  BY DEF RunPcb
<1> HIDE DEF pcb
<1>5. /\ pcb.cpu_time \in Nat /\ pcb.burst_time \in Nat
      /\ burst \in Nat /\ cpu \in Nat
  BY SMTT(30), <1>3, PcbFields
<1> HIDE DEF burst, cpu
<1>6. RunPcb(running) = [process_state |-> pcb.process_state, priority |-> pcb.priority,
                         burst_time |-> burst, cpu_time |-> cpu]
  <2>1. pcb = [process_state |-> pcb.process_state, priority |-> pcb.priority,
               burst_time |-> pcb.burst_time, cpu_time |-> pcb.cpu_time]
    BY <1>3, PcbFields
  <2> QED BY <1>4, <2>1
<1>7. RunPcb(running) \in ProcessControlBlock
  BY <1>3, <1>5, <1>6, PcbFields DEF ProcessControlBlock
<1>8. /\ RunPcb(running).process_state = pcb.process_state
      /\ RunPcb(running).priority = pcb.priority
      /\ RunPcb(running).cpu_time = cpu /\ RunPcb(running).burst_time = burst
  BY SMTT(30), <1>6
<1> QED BY <1>1, <1>2, <1>5, <1>7, <1>8 DEF pcb, burst, cpu

\* A time step in which no block moves: the processor idles, or the running
\* process goes on.
LEMMA TickInv ==
  ASSUME SchedInv, TimeStep, UNCHANGED <<memVars, running, terminated_list, ready_qs>>,
         \/ running = None /\ UNCHANGED pcbs
         \/ running # None /\ ~IsFinished(running) /\ RunOn
  PROVE  SchedInv'
<1>1. /\ pc = "run" /\ time' = time + 1 /\ pc' = "arrive"
      /\ UNCHANGED <<scheduled_processes, spi>>
  BY DEF TimeStep
<1>2. MemInv' /\ time \in Nat
  BY StutterMemInv DEF SchedInv, TypeOK, SchedTypeOK
<1>3. /\ pcbs' \in [Procs -> ProcessControlBlock]
      /\ \A q \in Procs : q # running => pcbs'[q] = pcbs[q]
      /\ running # None =>
           /\ pcbs'[running].process_state = "running"
           /\ pcbs'[running].cpu_time < TurnsNeeded(running)
  <2>1. CASE running = None /\ UNCHANGED pcbs
    BY <2>1 DEF SchedInv, TypeOK, SchedTypeOK
  <2>2. CASE running # None /\ ~IsFinished(running) /\ RunOn
    <3>1. pcbs' = [pcbs EXCEPT ![running] = RunPcb(running)]
      BY <2>2 DEF RunOn
    <3>2. RunPcb(running).cpu_time < TurnsNeeded(running)
      <4>1. RunPcb(running).cpu_time < scheduled_processes[running].job_time
        BY SMTT(30), <1>1, <2>2, RunFields, InputFields DEF IsFinished
      <4> QED BY SMTT(30), <1>1, <2>2, <4>1, RunFields, InputFields
    <3> QED BY <1>1, <2>2, <3>1, <3>2, RunFields
  <2> QED BY <2>1, <2>2
<1>4. TypeOK'
  BY SMTT(30), <1>1, <1>2, <1>3 DEF SchedInv, TypeOK, SchedTypeOK, MemInv, memVars
<1>5. InOnePlace(ready_qs)'
  BY <1>1 DEF SchedInv, InOnePlace
<1>6. StateFitsPlace(ready_qs)'
  <2>1. \A q \in Waiting(ready_qs) \cup Range(terminated_list) : q \in Procs /\ q # running
    BY Started DEF SchedInv, InOnePlace
  <2> QED BY <1>1, <1>3, <2>1 DEF SchedInv, StateFitsPlace, TurnsNeeded, InDisk, memVars
<1>7. SwapTimes' /\ UniqueSwapInTimes' /\ Listed' = 1 .. spi'
  <2>1. \A q \in Resident : mem[q].swap_in_time \in Nat
    BY MemFields DEF SchedInv, MemInv, Resident
  <2>2. Resident' = Resident /\ UNCHANGED mem
    BY DEF Resident, InDisk, memVars
  <2>3. Listed' = 1 .. spi' /\ SwapTimes /\ UniqueSwapInTimes
    BY <1>1 DEF SchedInv, Listed, memVars
  <2> QED BY SMTT(30), <1>1, <1>2, <2>1, <2>2, <2>3 DEF SwapTimes, UniqueSwapInTimes
<1> QED BY <1>1, <1>2, <1>4, <1>5, <1>6, <1>7 DEF SchedInv, Loading


\* terminate_pcb and append_pcb_to_pcbs_list: the process has had its job time
\* and gives its memory back.
LEMMA TerminateInv ==
  ASSUME SchedInv, TimeStep, running # None, IsFinished(running), Terminate,
         UNCHANGED ready_qs
  PROVE  SchedInv'
<1>1. /\ pc = "run" /\ time' = time + 1 /\ pc' = "arrive" /\ running' = None
      /\ SwapOutByProcessMemory(running)
      /\ terminated_list' = Append(terminated_list, running)
      /\ UNCHANGED <<scheduled_processes, spi>>
  BY DEF TimeStep, Terminate, AppendPcb
<1> DEFINE p == running
           pcb == [RunPcb(p) EXCEPT !.process_state = "terminated"]
<1>2. /\ p \in Procs /\ p \in 1 .. spi /\ p # None /\ ~InDisk(p) /\ MemInv /\ time \in Nat
      /\ MemTypeOK /\ None \notin Procs
  BY <1>1, RunFields, Started DEF SchedInv, TypeOK, SchedTypeOK, MemInv
<1>3. /\ MemInv' /\ UNCHANGED <<process_memories_list, swapping>>
      /\ \A q \in Procs : q # p => mem'[q] = mem[q]
      /\ Resident' = Resident \ {p}
  <2>1. Release(p) /\ UNCHANGED <<process_memories_list, swapping>>
    BY <1>1, <1>2 DEF SwapOutByProcessMemory
  <2> QED BY <1>1, <1>2, <2>1, SwapOutByProcessMemoryInv, ReleaseFields
<1>4. /\ pcb \in ProcessControlBlock
      /\ pcb.process_state = "terminated" /\ pcb.cpu_time = TurnsNeeded(p)
  <2>1. RunPcb(p) \in ProcessControlBlock
    BY <1>1, RunFields
  <2>2. pcb = [process_state |-> "terminated", priority |-> RunPcb(p).priority,
               burst_time |-> RunPcb(p).burst_time, cpu_time |-> RunPcb(p).cpu_time]
    BY SMTT(30), <2>1, PcbFields
  <2>3. pcb \in ProcessControlBlock
    BY <2>1, <2>2, PcbFields DEF ProcessControlBlock
  <2>4. RunPcb(p).cpu_time = TurnsNeeded(p)
    BY SMTT(30), <1>1, RunFields, InputFields DEF IsFinished
  <2> QED BY <2>2, <2>3, <2>4
<1>5. /\ pcbs' \in [Procs -> ProcessControlBlock] /\ pcbs'[p] = pcb
      /\ \A q \in Procs : q # p => pcbs'[q] = pcbs[q]
  <2>1. pcbs \in [Procs -> ProcessControlBlock] /\ pcbs' = [pcbs EXCEPT ![p] = pcb]
    BY <1>1, RunFields DEF Terminate
  <2> HIDE DEF pcb, p
  <2> QED BY <1>2, <1>4, <2>1
<1>6. /\ terminated_list' \in Seq(Procs) /\ IsInjective(terminated_list')
      /\ Range(terminated_list') = Range(terminated_list) \cup {p}
  BY <1>1, <1>2, AppendToList DEF SchedInv, TypeOK, SchedTypeOK, InOnePlace
<1>7. InOnePlace(ready_qs)
  BY DEF SchedInv
<1>8. StateFitsPlace(ready_qs) /\ SwapTimes /\ UniqueSwapInTimes
  BY DEF SchedInv
<1> HIDE DEF pcb
<1>9. TypeOK'
  BY SMTT(30), <1>1, <1>2, <1>3, <1>5, <1>6 DEF SchedInv, TypeOK, SchedTypeOK, MemInv
<1>10. InOnePlace(ready_qs)'
  <2>1. None \notin Waiting(ready_qs) \cup Range(terminated_list) \cup {p}
    BY <1>2, Started
  <2> QED BY <1>1, <1>2, <1>6, <1>7, <2>1 DEF InOnePlace
<1>11. StateFitsPlace(ready_qs)'
  <2>1. /\ \A q \in Waiting(ready_qs) \cup Range(terminated_list) :
             q \in Procs /\ q # p
    BY <1>7, Started DEF InOnePlace
  <2>2. mem'[p].start_address = IN_DISK
    BY <1>2, <1>3 DEF Resident, InDisk
  <2>3. \A q \in Waiting(ready_qs) \cup Range(terminated_list) :
          pcbs'[q] = pcbs[q] /\ mem'[q] = mem[q]
    BY <1>3, <1>5, <2>1
  <2> HIDE DEF p
  <2> QED BY <1>1, <1>4, <1>5, <1>6, <1>8, <2>2, <2>3 DEF StateFitsPlace, TurnsNeeded, InDisk
<1>12. SwapTimes' /\ UniqueSwapInTimes' /\ Listed' = 1 .. spi'
  <2>1. \A q \in Resident : mem[q].swap_in_time \in Nat
    BY <1>2, MemFields DEF Resident
  <2>2. \A q \in Resident' : q \in Resident /\ mem'[q] = mem[q]
    BY <1>3 DEF Resident
  <2>3. Listed' = 1 .. spi'
    BY <1>1, <1>3 DEF SchedInv, Listed
  <2> QED BY SMTT(30), <1>1, <1>2, <1>8, <2>1, <2>2, <2>3 DEF SwapTimes, UniqueSwapInTimes
<1> QED BY <1>1, <1>3, <1>9, <1>10, <1>11, <1>12 DEF SchedInv, Loading

\* What ready_and_decrease_priority_pcb makes of a block.
LEMMA DemotedFields ==
  ASSUME SchedInv, pc = "run", running # None,
         NEW pcb, pcb = ReadyAndDecreasePriority(running)
  PROVE  /\ pcb \in ProcessControlBlock
         /\ pcb.process_state = "ready" /\ pcb.burst_time = 0
         /\ pcb.cpu_time = pcbs[running].cpu_time + 1
         /\ pcb.priority \in Levels
         /\ pcb.priority = IF pcbs[running].priority < MIN_PRIORITY
                           THEN pcbs[running].priority + 1 ELSE MIN_PRIORITY
<1> DEFINE r == RunPcb(running)
           level == IF r.priority + 1 > MIN_PRIORITY THEN MIN_PRIORITY ELSE r.priority + 1
<1>1. r \in ProcessControlBlock /\ r.cpu_time = pcbs[running].cpu_time + 1
      /\ r.priority = pcbs[running].priority
  BY RunFields
<1>2. pcb = [r EXCEPT !.priority = level, !.process_state = "ready", !.burst_time = 0]
  BY DEF ReadyAndDecreasePriority
<1>3. r.priority \in 1 .. MIN_PRIORITY /\ MIN_PRIORITY \in Nat
  BY <1>1, PcbFields, Started
<1>4. /\ level \in 1 .. MIN_PRIORITY
      /\ level = IF r.priority < MIN_PRIORITY THEN r.priority + 1 ELSE MIN_PRIORITY
  BY SMTT(30), <1>3
<1> HIDE DEF r, level
<1>5. pcb = [process_state |-> "ready", priority |-> level,
             burst_time |-> 0, cpu_time |-> r.cpu_time]
  <2>1. r = [process_state |-> r.process_state, priority |-> r.priority,
             burst_time |-> r.burst_time, cpu_time |-> r.cpu_time]
    BY <1>1, PcbFields
  <2> QED BY <1>2, <2>1
<1>6. pcb \in ProcessControlBlock
  BY <1>1, <1>4, <1>5, PcbFields DEF ProcessControlBlock
<1> QED BY SMTT(30), <1>1, <1>4, <1>5, <1>6 DEF Levels

\* The quantum is used up: the process waits again, one level down.
LEMMA DemoteInv ==
  ASSUME SchedInv, TimeStep, running # None, ~IsFinished(running), Demote
  PROVE  SchedInv'
<1> DEFINE p == running
           pcb == ReadyAndDecreasePriority(running)
<1>1. /\ pc = "run" /\ time' = time + 1 /\ pc' = "arrive" /\ running' = None
      /\ UNCHANGED <<scheduled_processes, spi, memVars, terminated_list>>
      /\ pcbs' = [pcbs EXCEPT ![p] = pcb]
      /\ ready_qs' = [ready_qs EXCEPT ![pcb.priority] = AppendPcb(p, @)]
  BY DEF TimeStep, Demote
<1>2. /\ p \in Procs /\ p \in 1 .. spi /\ p # None /\ time \in Nat /\ None \notin Procs
      /\ pcbs \in [Procs -> ProcessControlBlock]
  BY <1>1, RunFields, Started DEF SchedInv, TypeOK, SchedTypeOK
<1>3. /\ pcb \in ProcessControlBlock /\ pcb.process_state = "ready"
      /\ pcb.cpu_time = pcbs[p].cpu_time + 1 /\ pcb.priority \in Levels
  BY <1>1, DemotedFields
<1>4. pcb.cpu_time < TurnsNeeded(p)
  <2>1. RunPcb(running).cpu_time < scheduled_processes[running].job_time
    BY SMTT(30), <1>1, RunFields, InputFields DEF IsFinished
  <2> QED BY SMTT(30), <1>1, <1>3, <2>1, RunFields, InputFields
<1>5. Appended(ready_qs, pcb.priority, p, ready_qs')
  BY <1>1 DEF Appended
<1> HIDE DEF pcb
<1>6. /\ pcbs' \in [Procs -> ProcessControlBlock] /\ pcbs'[p] = pcb
      /\ \A q \in Procs : q # p => pcbs'[q] = pcbs[q]
  <2> HIDE DEF p
  <2> QED BY <1>1, <1>2, <1>3
<1>7. /\ InOnePlace(ready_qs) /\ StateFitsPlace(ready_qs)
      /\ SwapTimes /\ UniqueSwapInTimes
  BY DEF SchedInv
<1>8. /\ ready_qs' \in [Levels -> Seq(Procs)] /\ NoneTwice(ready_qs')
      /\ Waiting(ready_qs') = Waiting(ready_qs) \cup {p}
  <2>1. /\ ready_qs \in [Levels -> Seq(Procs)] /\ NoneTwice(ready_qs)
        /\ p \notin Waiting(ready_qs)
    BY <1>7 DEF SchedInv, TypeOK, InOnePlace
  <2> HIDE DEF p
  <2> QED BY <1>2, <1>3, <1>5, <2>1, AppendToQueue
<1>9. MemInv'
  BY <1>1, StutterMemInv DEF SchedInv
<1>10. TypeOK'
  BY SMTT(30), <1>1, <1>2, <1>6, <1>8, <1>9 DEF SchedInv, TypeOK, SchedTypeOK, MemInv, memVars
<1>11. InOnePlace(ready_qs)'
  <2>1. None \notin Waiting(ready_qs) \cup Range(terminated_list) \cup {p}
    BY <1>2, Started
  <2> QED BY <1>1, <1>2, <1>7, <1>8, <2>1 DEF InOnePlace
<1>12. StateFitsPlace(ready_qs)'
  <2>1. \A q \in Waiting(ready_qs) \cup Range(terminated_list) : q \in Procs /\ q # p
    BY <1>7, Started DEF InOnePlace
  <2>2. \A q \in Waiting(ready_qs) \cup Range(terminated_list) : pcbs'[q] = pcbs[q]
    BY <1>6, <2>1
  <2>3. UNCHANGED mem
    BY <1>1 DEF memVars
  <2>4. pcbs'[p].process_state = "ready" /\ pcbs'[p].cpu_time < TurnsNeeded(p)
    BY <1>3, <1>4, <1>6
  <2> HIDE DEF p
  <2>5. \A q \in Waiting(ready_qs') :
          /\ pcbs'[q].process_state = "ready"
          /\ pcbs'[q].cpu_time < TurnsNeeded(q)
    BY <1>7, <1>8, <2>2, <2>4 DEF StateFitsPlace
  <2>6. \A q \in Range(terminated_list) :
          /\ pcbs'[q].process_state = "terminated"
          /\ pcbs'[q].cpu_time = TurnsNeeded(q) /\ mem'[q].start_address = IN_DISK
    BY <1>7, <2>2, <2>3 DEF StateFitsPlace, InDisk
  <2> QED BY <1>1, <2>5, <2>6 DEF StateFitsPlace, TurnsNeeded, InDisk
<1>13. SwapTimes' /\ UniqueSwapInTimes' /\ Listed' = 1 .. spi'
  <2>1. \A q \in Resident : mem[q].swap_in_time \in Nat
    BY MemFields DEF SchedInv, MemInv, Resident
  <2>2. Resident' = Resident /\ UNCHANGED mem
    BY <1>1 DEF Resident, InDisk, memVars
  <2>3. Listed' = 1 .. spi'
    BY <1>1 DEF SchedInv, Listed, memVars
  <2> QED BY SMTT(30), <1>1, <1>2, <1>7, <2>1, <2>2, <2>3 DEF SwapTimes, UniqueSwapInTimes
<1> QED BY <1>1, <1>9, <1>10, <1>11, <1>12, <1>13 DEF SchedInv, Loading

-----------------------------------------------------------------------------
(* The life of a process. *)

\* Every step of the simulation keeps the invariant.
LEMMA NextSchedInv ==
  ASSUME SchedInv, [Next]_vars
  PROVE  SchedInv'
<1>1. CASE Arrive
  BY <1>1, ArriveInv
<1>2. CASE Dispatch
  <2>1. CASE pc' \in {"run", "done"}
    <3>1. UNCHANGED <<memVars, running, ready_qs>>
      BY <1>2, <2>1 DEF Dispatch, GoOn, Finish, Choose
    <3> QED BY <1>2, <2>1, <3>1, MoveOnInv DEF Dispatch
  <2>2. CASE pc' \notin {"run", "done"}
    BY <1>2, <2>2, ChooseInv DEF Dispatch, GoOn, Finish
  <2> QED BY <2>1, <2>2
<1>3. CASE Load
  BY <1>3, LoadSwapInInv, LoadPcbInv DEF Load
<1>4. CASE Run
  <2>1. CASE RunIdle /\ UNCHANGED ready_qs
    BY <2>1, TickInv DEF RunIdle
  <2>2. CASE TimeStep /\ running # None /\ IsFinished(running) /\ Terminate /\ UNCHANGED ready_qs
    BY <2>2, TerminateInv
  <2>3. CASE TimeStep /\ running # None /\ ~IsFinished(running) /\ Demote
    BY <2>3, DemoteInv
  <2>4. CASE TimeStep /\ running # None /\ ~IsFinished(running) /\ RunOn /\ UNCHANGED ready_qs
    BY <2>4, TickInv DEF RunOn
  <2> QED BY <1>4, <2>1, <2>2, <2>3, <2>4 DEF Run
<1>5. CASE Stopped(vars) \/ UNCHANGED vars
  <2>1. UNCHANGED vars
    BY <1>5 DEF Stopped
  <2>2. UNCHANGED <<memVars, schedVars, ready_qs>>
    BY <2>1 DEF vars, schedVars
  <2>3. MemInv'
    BY <2>2, StutterMemInv DEF SchedInv
  <2> QED BY <2>2, <2>3
          DEF schedVars, memVars, SchedInv, TypeOK, SchedTypeOK, MemInv, InOnePlace, StateFitsPlace,
              Loading, SwapTimes, UniqueSwapInTimes, TurnsNeeded, Resident, InDisk, Listed
<1> QED BY <1>1, <1>2, <1>3, <1>4, <1>5 DEF Next

\* The inductive invariant, on which the theorems below rest.
LEMMA SchedInvariance == Spec => []SchedInv
<1>1. Init => SchedInv
  BY InitSchedInv
<1>2. SchedInv /\ [Next]_vars => SchedInv'
  BY NextSchedInv
<1> QED BY <1>1, <1>2, PTL DEF Spec

\* Whatever the input file and however often processes are demoted, evicted
\* and swapped in again, a started process is in one ready queue, running or
\* terminated, in the state that belongs there; it ends with exactly its job
\* time; and no two processes in memory came at the same time.
THEOREM LifeOfAProcess == Spec => []ProcessLifecycle
<1>1. SchedInv => ProcessLifecycle
  BY DEF SchedInv, ProcessLifecycle, Lifecycle
<1> QED BY <1>1, SchedInvariance, PTL

\* The multi-level feedback queue loses no memory and hands none out twice.
THEOREM SchedulerKeepsPartition == Spec => []MemoryPartition
<1>1. SchedInv => MemoryPartition
  BY DEF SchedInv, MemInv
<1> QED BY <1>1, SchedInvariance, PTL


-----------------------------------------------------------------------------
(* The accounts of demotion. *)

\* The sum of the quanta, level by level.
LEMMA QuantaSteps ==
  /\ QuantaDownTo[0] = 0
  /\ \A i \in Levels : QuantaDownTo[i] = QuantaDownTo[i - 1] + Quantum[i]
  /\ \A i \in 0 .. MIN_PRIORITY : QuantaDownTo[i] \in Nat
<1> DEFINE N == MIN_PRIORITY
           step == [w \in Nat \X (1 .. N) |-> w[1] + Quantum[w[2]]]
           IsLoop(f) == f = [i \in 0 .. N |-> IF i = 0 THEN 0 ELSE f[i - 1] + Quantum[i]]
<1>1. N \in Nat /\ 0 \in Nat /\ \A i \in 1 .. N : Quantum[i] \in Nat
  BY SchedulerAssumption
<1>2. step \in [Nat \X (1 .. N) -> Nat]
  <2>1. ASSUME NEW w \in Nat \X (1 .. N) PROVE w[1] + Quantum[w[2]] \in Nat
    BY SMTT(30), <1>1
  <2> QED BY <2>1
<1>3. PICK f : LoopValue(f, Nat, 0, N, step)
  <2> HIDE DEF step, N
  <2> QED BY <1>1, <1>2, LoopValues
<1>4. ASSUME NEW i \in 1 .. N PROVE f[i] = f[i - 1] + Quantum[i]
  <2>0. i - 1 \in 0 .. N /\ f \in [0 .. N -> Nat]
    BY SMTT(30), <1>1, <1>3 DEF LoopValue
  <2>1. f[i] = step[<<f[i - 1], i>>]
    BY <1>3, <2>0, ZenonT(30) DEF LoopValue
  <2>2. f[i - 1] \in Nat /\ <<f[i - 1], i>> \in Nat \X (1 .. N)
    BY <2>0
  <2> QED BY <2>1, <2>2
<1>5. IsLoop(f)
  BY SMTT(30), <1>1, <1>3, <1>4 DEF LoopValue
<1>6. IsLoop(QuantaDownTo)
  BY <1>5, ZenonT(30) DEF QuantaDownTo
<1>7. /\ QuantaDownTo[0] = 0
      /\ \A i \in 1 .. N : QuantaDownTo[i] = QuantaDownTo[i - 1] + Quantum[i]
  BY SMTT(30), <1>1, <1>6
<1> DEFINE S == {n \in Nat : n <= N => QuantaDownTo[n] \in Nat}
<1>8. 0 \in S
  BY SMTT(30), <1>7
<1>9. ASSUME NEW n \in Nat, n \in S PROVE n + 1 \in S
  BY SMTT(30), <1>1, <1>7, <1>9
<1>10. Nat \subseteq S
  <2> HIDE DEF S
  <2> QED BY <1>8, <1>9, NatSetInduction
<1> QED BY SMTT(30), <1>1, <1>7, <1>10 DEF Levels

\* A process starts with nothing to account for.
LEMMA FullQuantaAtFirst == FullQuanta(1, 0)
<1>1. Quantum[1] \in Nat \ {0} /\ QuantaDownTo[1 - 1] = 0
  BY SMTT(30), SchedulerAssumption, QuantaSteps
<1>2. 0 % Quantum[1] = 0
  BY SMTT(30), <1>1
<1> QED BY SMTT(30), <1>1, <1>2 DEF FullQuanta

LEMMA OneQuantumMore ==
  ASSUME NEW q \in Nat \ {0}, NEW x \in Nat, x % q = 0
  PROVE  (x + q) % q = 0
<1> DEFINE a == (x + q) \div q
           r == (x + q) % q
           u == x \div q
<1>1. a \in Int /\ r \in 0 .. q - 1 /\ x + q = q * a + r
  BY SMTT(30)
<1>2. u \in Int /\ x = q * u
  BY SMTT(30)
<1> HIDE DEF a, r, u
<1>3. q * (a - u - 1) = 0 - r
  BY SMTT(30), <1>1, <1>2
<1>4. CASE a - u - 1 >= 1
  BY SMTT(30), <1>1, <1>2, <1>3, <1>4
<1>5. CASE a - u - 1 =< -1
  BY SMTT(30), <1>1, <1>2, <1>3, <1>5
<1>6. r = 0
  BY SMTT(30), <1>1, <1>2, <1>3, <1>4, <1>5
<1> QED BY <1>6 DEF r

\* One more quantum, and the accounts are those of the next level.
LEMMA FullQuantaNext ==
  ASSUME NEW i \in Levels, NEW c \in Nat, FullQuanta(i, c),
         NEW j, j = IF i < MIN_PRIORITY THEN i + 1 ELSE MIN_PRIORITY
  PROVE  FullQuanta(j, c + Quantum[i])
<1>1. /\ MIN_PRIORITY \in Nat /\ i \in Nat \ {0} /\ i <= MIN_PRIORITY /\ i - 1 \in 0 .. MIN_PRIORITY
      /\ Quantum[i] \in Nat \ {0} /\ QuantaDownTo[i - 1] \in Nat
      /\ QuantaDownTo[i] = QuantaDownTo[i - 1] + Quantum[i]
  BY SMTT(30), SchedulerAssumption, QuantaSteps DEF Levels
<1>2. CASE i < MIN_PRIORITY
  <2>1. (c + Quantum[i]) - QuantaDownTo[j - 1] = 0
    BY SMTT(30), <1>1, <1>2 DEF FullQuanta
  <2>2. j \in 1 .. MIN_PRIORITY /\ Quantum[j] \in Nat \ {0}
    BY SMTT(30), <1>1, <1>2, SchedulerAssumption
  <2>3. 0 % Quantum[j] = 0
    BY SMTT(30), <2>2
  <2> DEFINE z == (c + Quantum[i]) - QuantaDownTo[j - 1]
  <2>4. z >= 0 /\ z % Quantum[j] = 0 /\ z = 0
    BY SMTT(30), <2>1, <2>3
  <2> HIDE DEF z
  <2>5. IF j < MIN_PRIORITY THEN z = 0 ELSE z >= 0 /\ z % Quantum[j] = 0
    BY <2>4
  <2> QED BY <2>5 DEF FullQuanta, z
<1>3. CASE ~(i < MIN_PRIORITY)
  <2> DEFINE extra == c - QuantaDownTo[i - 1]
             q == Quantum[i]
  <2>1. j = i /\ extra \in Nat /\ extra % q = 0 /\ q \in Nat \ {0}
    BY SMTT(30), <1>1, <1>3 DEF FullQuanta
  <2>2. (c + q) - QuantaDownTo[i - 1] = extra + q
    BY SMTT(30), <1>1
  <2> HIDE DEF extra, q
  <2>3. (extra + q) % q = 0
    BY <2>1, OneQuantumMore, ZenonT(30)
  <2> DEFINE z == (c + Quantum[j]) - QuantaDownTo[j - 1]
  <2>4. z >= 0 /\ z % Quantum[j] = 0
    BY SMTT(30), <2>1, <2>2, <2>3 DEF q
  <2> HIDE DEF z
  <2>5. IF j < MIN_PRIORITY THEN z = 0 ELSE z >= 0 /\ z % Quantum[j] = 0
    BY <1>3, <2>1, <2>4
  <2> QED BY <2>1, <2>5 DEF FullQuanta, z
<1> QED BY <1>2, <1>3


\* The running process: before load_pcb it has full quanta behind it; after
\* it, it has them behind the burst it is in, and the burst is not over.
RunningAccount ==
  running # None =>
    /\ pc = "load" => FullQuanta(pcbs[running].priority, pcbs[running].cpu_time)
    /\ pc # "load" =>
         /\ pcbs[running].burst_time < Quantum[pcbs[running].priority]
         /\ pcbs[running].burst_time <= pcbs[running].cpu_time
         /\ FullQuanta(pcbs[running].priority,
                       pcbs[running].cpu_time - pcbs[running].burst_time)

Accounts == DemotionAccountsForCpuTime /\ RunningAccount

\* Blocks that wait and are not touched keep their account.
LEMMA OthersKeepAccount ==
  ASSUME DemotionAccountsForCpuTime,
         NoneGained(ready_qs, ready_qs'),
         \A q \in Waiting(ready_qs) : pcbs'[q] = pcbs[q],
         DOMAIN ready_qs = Levels
  PROVE  DemotionAccountsForCpuTime'
<1>1. \A j \in Levels : \A q \in Range(ready_qs[j]) : q \in Waiting(ready_qs)
  BY DEF Waiting
<1> QED BY <1>1 DEF DemotionAccountsForCpuTime, NoneGained

\* A process joins a queue with its account in order.
LEMMA NewcomerAccount ==
  ASSUME SchedInv, DemotionAccountsForCpuTime,
         NEW p \in Procs, p \notin Waiting(ready_qs),
         NEW i \in Levels, Appended(ready_qs, i, p, ready_qs'),
         \A q \in Waiting(ready_qs) : pcbs'[q] = pcbs[q],
         pcbs'[p].priority = i, FullQuanta(i, pcbs'[p].cpu_time)
  PROVE  DemotionAccountsForCpuTime'
<1>1. ready_qs \in [Levels -> Seq(Procs)] /\ NoneTwice(ready_qs)
  BY DEF SchedInv, TypeOK, InOnePlace
<1>2. Gained(ready_qs, i, p, ready_qs')
  BY <1>1, AppendToQueue
<1>3. \A j \in Levels : \A q \in Range(ready_qs[j]) : q \in Waiting(ready_qs)
  BY <1>1 DEF Waiting
<1> QED BY SMTT(30), <1>2, <1>3 DEF DemotionAccountsForCpuTime, Gained

\* Every step of the simulation keeps the accounts.
LEMMA NextAccounts ==
  ASSUME SchedInv, Accounts, [Next]_vars
  PROVE  Accounts'
<1>1. /\ ready_qs \in [Levels -> Seq(Procs)] /\ pcbs \in [Procs -> ProcessControlBlock]
      /\ \A q \in Waiting(ready_qs) : q \in Procs /\ q # running
      /\ running # None => running \in Procs
      /\ Levels = 1 .. MIN_PRIORITY /\ MIN_PRIORITY \in Nat
  BY Started DEF SchedInv, TypeOK, SchedTypeOK, InOnePlace, Levels
<1>2. CASE Arrive
  <2> DEFINE p == spi + 1
  <2>1. /\ pc = "arrive" /\ ~NoMoreScheduled /\ UNCHANGED <<running, pc>>
        /\ pcbs' = [pcbs EXCEPT ![p] = NewProcessControlBlock]
        /\ Appended(ready_qs, 1, p, ready_qs')
    BY <1>2 DEF Arrive, StartNextScheduled, NextDue, Appended
  <2>2. p \in Procs /\ p \notin 1 .. spi /\ 1 \in Levels
    BY SMTT(30), <2>1, Started DEF NoMoreScheduled, SchedInv, TypeOK, SchedTypeOK
  <2>3. p \notin Waiting(ready_qs) /\ p # running
    BY <2>2, Started
  <2> HIDE DEF p
  <2>4. /\ pcbs'[p].priority = 1 /\ pcbs'[p].cpu_time = 0
        /\ \A q \in Procs : q # p => pcbs'[q] = pcbs[q]
    BY <1>1, <2>1, <2>2 DEF NewProcessControlBlock
  <2>5. /\ FullQuanta(1, pcbs'[p].cpu_time) /\ DemotionAccountsForCpuTime
        /\ \A q \in Waiting(ready_qs) : pcbs'[q] = pcbs[q]
    BY <1>1, <2>3, <2>4, FullQuantaAtFirst DEF Accounts
  <2>6. DemotionAccountsForCpuTime'
    BY <2>1, <2>2, <2>3, <2>4, <2>5, NewcomerAccount
  <2> QED BY <1>1, <2>1, <2>3, <2>4, <2>6 DEF Accounts, RunningAccount
<1>3. CASE Dispatch
  <2>1. UNCHANGED pcbs /\ pc = "arrive"
    BY <1>3 DEF Dispatch
  <2>2. CASE UNCHANGED <<running, ready_qs>> /\ pc' # "load"
    BY <2>1, <2>2 DEF Accounts, RunningAccount, DemotionAccountsForCpuTime
  <2>3. CASE /\ Ready # {} /\ Choose(Head(ready_qs[FirstReady]))
             /\ ready_qs' = [ready_qs EXCEPT ![FirstReady] = PopFrontPcb(@)]
    <3> DEFINE p == Head(ready_qs[FirstReady])
               i == FirstReady
    <3>1. /\ i \in Levels /\ p \in Range(ready_qs[i])
          /\ NoneGained(ready_qs, ready_qs')
      <4>1. i \in Levels /\ ready_qs[i] # <<>> /\ NoneTwice(ready_qs)
        BY <2>3, FirstReadyFound, Started DEF SchedInv, InOnePlace
      <4>2. p = Head(ready_qs[i]) /\ Popped(ready_qs, i, ready_qs')
        BY <2>3 DEF Popped
      <4> HIDE DEF p, i
      <4> QED BY <1>1, <4>1, <4>2, PopFromQueue
    <3>2. running' = p /\ pc' = "load"
      BY <2>3 DEF Choose
    <3> HIDE DEF p, i
    <3>3. DemotionAccountsForCpuTime'
      BY <1>1, <2>1, <3>1, OthersKeepAccount DEF Accounts, NoneGained
    <3>4. pcbs[p].priority = i /\ FullQuanta(i, pcbs[p].cpu_time)
      BY <3>1 DEF Accounts, DemotionAccountsForCpuTime
    <3> QED BY <2>1, <3>2, <3>3, <3>4 DEF Accounts, RunningAccount
  <2> QED BY <1>3, <2>2, <2>3 DEF Dispatch, GoOn, Finish
<1>4. CASE LoadSwapIn /\ UNCHANGED ready_qs
  <2>1. UNCHANGED <<pcbs, running, pc, ready_qs>>
    BY <1>4 DEF LoadSwapIn
  <2> QED BY <2>1 DEF Accounts, RunningAccount, DemotionAccountsForCpuTime

<1>5. CASE LoadPcb /\ UNCHANGED ready_qs
  <2>1. /\ running \in Procs /\ running # None /\ pc = "load"
        /\ UNCHANGED <<running, ready_qs>> /\ pc' = "run"
    BY <1>5, LoadedFields DEF LoadPcb
  <2>2. /\ \A q \in Procs : q # running => pcbs'[q] = pcbs[q]
        /\ pcbs'[running].burst_time = 0
        /\ pcbs'[running].priority = pcbs[running].priority
        /\ pcbs'[running].cpu_time = pcbs[running].cpu_time
    BY <1>5, LoadedFields
  <2>3. DemotionAccountsForCpuTime'
    BY <1>1, <2>1, <2>2, OthersKeepAccount DEF Accounts, NoneGained
  <2>4. /\ pcbs[running].cpu_time \in Nat
        /\ Quantum[pcbs[running].priority] \in Nat \ {0}
    BY <1>1, <2>1, PcbFields, SchedulerAssumption
  <2>5. FullQuanta(pcbs[running].priority, pcbs[running].cpu_time)
    BY <2>1 DEF Accounts, RunningAccount
  <2>6. pcbs'[running].cpu_time - pcbs'[running].burst_time = pcbs[running].cpu_time
    BY SMTT(30), <2>2, <2>4
  <2> QED BY SMTT(30), <2>1, <2>2, <2>3, <2>4, <2>5, <2>6 DEF Accounts, RunningAccount
<1>6. CASE Run
  <2>1. CASE RunIdle /\ UNCHANGED ready_qs
    BY <2>1 DEF RunIdle, TimeStep, Accounts, RunningAccount, DemotionAccountsForCpuTime
  <2>2. CASE running # None /\ Terminate /\ UNCHANGED ready_qs
    <3>1. running' = None /\ \A q \in Procs : q # running => pcbs'[q] = pcbs[q]
      BY <1>1, <2>2 DEF Terminate
    <3>2. DemotionAccountsForCpuTime'
      BY <1>1, <2>2, <3>1, OthersKeepAccount DEF Accounts, NoneGained
    <3> QED BY <3>1, <3>2 DEF Accounts, RunningAccount
  <2> DEFINE pcb == pcbs[running]
             used == pcb.cpu_time - pcb.burst_time
  <2>3. ASSUME TimeStep, running # None
        PROVE  /\ pcb.cpu_time \in Nat /\ pcb.burst_time \in Nat /\ pcb.priority \in Levels
               /\ pcb.burst_time < Quantum[pcb.priority] /\ pcb.burst_time <= pcb.cpu_time
               /\ FullQuanta(pcb.priority, used) /\ used \in Nat
               /\ RunPcb(running).cpu_time = pcb.cpu_time + 1
               /\ RunPcb(running).burst_time = pcb.burst_time + 1
               /\ RunPcb(running).priority = pcb.priority
               /\ Quantum[pcb.priority] \in Nat
    <3>1. pc = "run"
      BY <2>3 DEF TimeStep
    <3>2. pcb \in ProcessControlBlock
      BY <1>1, <2>3
    <3>3. /\ pcb.burst_time < Quantum[pcb.priority] /\ pcb.burst_time <= pcb.cpu_time
          /\ FullQuanta(pcb.priority, used)
      BY <2>3, <3>1 DEF Accounts, RunningAccount
    <3> HIDE DEF pcb
    <3>4. pcb.cpu_time \in Nat /\ pcb.burst_time \in Nat /\ pcb.priority \in 1 .. MIN_PRIORITY
      BY <3>2, PcbFields
    <3>5. used \in Nat /\ Quantum[pcb.priority] \in Nat
      BY SMTT(30), <3>3, <3>4, SchedulerAssumption
    <3>6. /\ RunPcb(running).cpu_time = pcb.cpu_time + 1
          /\ RunPcb(running).burst_time = pcb.burst_time + 1
          /\ RunPcb(running).priority = pcb.priority
      BY <2>3, <3>1, RunFields DEF pcb
    <3> QED BY <1>1, <3>3, <3>4, <3>5, <3>6
  <2>4. CASE TimeStep /\ running # None /\ IsQuantumExhausted(running) /\ Demote
    <3> DEFINE new == ReadyAndDecreasePriority(running)
    <3>1. /\ running' = None /\ pcbs' = [pcbs EXCEPT ![running] = new]
          /\ Appended(ready_qs, new.priority, running, ready_qs')
      BY <2>4 DEF Demote, Appended
    <3>2. /\ new.cpu_time = pcb.cpu_time + 1 /\ new.priority \in Levels
          /\ new.priority = IF pcb.priority < MIN_PRIORITY
                            THEN pcb.priority + 1 ELSE MIN_PRIORITY
      BY <2>4, DemotedFields DEF TimeStep
    <3> HIDE DEF new
    <3>3. pcb.burst_time + 1 = Quantum[pcb.priority]
      BY SMTT(30), <2>3, <2>4 DEF IsQuantumExhausted, QuantumOf
    <3> HIDE DEF pcb
    <3>4. pcb.cpu_time + 1 = used + Quantum[pcb.priority]
      BY SMTT(30), <2>3, <2>4, <3>3
    <3>5. FullQuanta(new.priority, used + Quantum[pcb.priority])
      <4> HIDE DEF used
      <4> QED BY <2>3, <2>4, <3>2, FullQuantaNext
    <3>6. FullQuanta(new.priority, new.cpu_time)
      BY <3>2, <3>4, <3>5
    <3>7. /\ running \in Procs /\ running \notin Waiting(ready_qs) /\ pcbs'[running] = new
          /\ \A q \in Waiting(ready_qs) : pcbs'[q] = pcbs[q]
      BY <1>1, <2>4, <3>1
    <3>8. DemotionAccountsForCpuTime'
      BY <3>1, <3>2, <3>6, <3>7, NewcomerAccount DEF Accounts
    <3> QED BY <3>1, <3>8 DEF Accounts, RunningAccount
  <2>5. CASE /\ TimeStep /\ running # None /\ ~IsQuantumExhausted(running)
             /\ RunOn /\ UNCHANGED ready_qs
    <3>1. /\ running' = running /\ pc' = "arrive" /\ pcbs'[running] = RunPcb(running)
          /\ \A q \in Procs : q # running => pcbs'[q] = pcbs[q]
      BY <1>1, <2>5 DEF RunOn, TimeStep
    <3>2. DemotionAccountsForCpuTime'
      BY <1>1, <2>5, <3>1, OthersKeepAccount DEF Accounts, NoneGained
    <3>3. pcb.burst_time + 1 < Quantum[pcb.priority]
      BY SMTT(30), <2>3, <2>5 DEF IsQuantumExhausted, QuantumOf
    <3>4. /\ pcbs'[running].cpu_time - pcbs'[running].burst_time = used
          /\ pcbs'[running].burst_time <= pcbs'[running].cpu_time
          /\ pcbs'[running].burst_time = pcb.burst_time + 1
          /\ pcbs'[running].priority = pcb.priority
      <4> HIDE DEF pcb
      <4> QED BY SMTT(30), <2>3, <2>5, <3>1
    <3>5. FullQuanta(pcb.priority, used)
      BY <2>3, <2>5
    <3> HIDE DEF used, pcb
    <3> QED BY <3>1, <3>2, <3>3, <3>4, <3>5 DEF Accounts, RunningAccount
  <2> QED BY <1>6, <2>1, <2>2, <2>4, <2>5 DEF Run
<1>7. CASE Stopped(vars) \/ UNCHANGED vars
  <2>1. UNCHANGED <<schedVars, ready_qs>>
    BY <1>7 DEF Stopped, vars, schedVars
  <2> QED BY <2>1 DEF schedVars, Accounts, RunningAccount, DemotionAccountsForCpuTime
<1> QED BY <1>2, <1>3, <1>4, <1>5, <1>6, <1>7 DEF Next, Load

\* Demotion accounts for CPU time exactly, for every input file, any number
\* of levels and any quanta: a waiting process has had one full quantum of
\* each level it has left, and of the lowest level a whole number.
THEOREM DemotionAccounts == Spec => []DemotionAccountsForCpuTime
<1>1. Init => Accounts
  BY SMTT(30) DEF Init, SchedInit, Accounts, RunningAccount, DemotionAccountsForCpuTime, Range
<1>2. SchedInv /\ Accounts /\ [Next]_vars => Accounts'
  BY NextAccounts
<1>3. Accounts => DemotionAccountsForCpuTime
  BY DEF Accounts
<1> QED BY <1>1, <1>2, <1>3, SchedInvariance, PTL DEF Spec

=============================================================================
