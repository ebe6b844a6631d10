-------------------------- MODULE MemoryManagement --------------------------
(***************************************************************************)
(* The memory manager of the process simulator                             *)
(* (project1/memory-management.c): its two lists, and one action per       *)
(* operation on them.  The schedulers, and MemoryClient, are built from    *)
(* these actions.                                                          *)
(*                                                                         *)
(* A process_memory_t object is an element of Procs; mem[p] holds its      *)
(* fields and process_memories_list the order of the linked list.          *)
(*                                                                         *)
(* swap_in_process_memory is a loop that evicts a process and tries again. *)
(* Each turn of the loop is one step: swapping is the argument of the call *)
(* in progress (None when there is none), and nothing else happens until   *)
(* the call returns.  fault records that the call has used                 *)
(* swap_out_proc_mem uninitialised.  What the program does from then on is *)
(* undefined (it may crash, spin, or go on with damaged lists), and the    *)
(* model stops there.                                                      *)
(***************************************************************************)
EXTENDS FreeMemorySegments

CONSTANTS Procs,     \* the process memory objects
          None,      \* the null pointer
          memsize    \* size of the main memory

ASSUME MemoryAssumption == None \notin Procs /\ memsize \in Nat \ {0}

VARIABLES process_memories_list, mem, free_list, swapping, fault

memVars == <<process_memories_list, mem, free_list, swapping, fault>>

IN_DISK == -1

InDisk(p) == mem[p].start_address = IN_DISK

Listed == Range(process_memories_list)

Resident == {p \in Procs : ~InDisk(p)}

NewProcessMemory(size, pid) ==
  [start_address |-> IN_DISK, size |-> size, swap_in_time |-> 0,
   process_id |-> pid]

MemInit ==
  /\ process_memories_list = <<>>
  /\ mem = [p \in Procs |-> NewProcessMemory(0, 0)]
  /\ free_list = NewFreeMemorySegmentsList(memsize)
  /\ swapping = None
  /\ fault = FALSE

-----------------------------------------------------------------------------
(* Operations that complete in one step. *)

AddNewProcessMemory(p, size, pid) ==
  /\ p \notin Listed
  /\ mem' = [mem EXCEPT ![p] = NewProcessMemory(size, pid)]
  /\ process_memories_list' = Append(process_memories_list, p)
  /\ UNCHANGED <<free_list, swapping, fault>>

\* What every way of swapping p out does to the two lists.
Release(p) ==
  /\ free_list' = AddFreeMemorySegment(
                    [start_address |-> mem[p].start_address,
                     size          |-> mem[p].size], free_list)
  /\ mem' = [mem EXCEPT ![p].start_address = IN_DISK,
                        ![p].swap_in_time  = 0]

SwapOutByProcessMemory(p) ==
  /\ IF InDisk(p) THEN UNCHANGED <<free_list, mem>> ELSE Release(p)
  /\ UNCHANGED <<process_memories_list, swapping, fault>>

\* The first object of the list with this process id is unlinked and freed.
RemoveByProcessId(pid) ==
  \E i \in DOMAIN process_memories_list :
    LET p == process_memories_list[i] IN
    /\ mem[p].process_id = pid
    /\ \A j \in 1 .. i - 1 : mem[process_memories_list[j]].process_id # pid
    /\ IF InDisk(p) THEN UNCHANGED <<free_list, mem>> ELSE Release(p)
    /\ process_memories_list' = UnlinkAt(process_memories_list, i)
    /\ UNCHANGED <<swapping, fault>>

-----------------------------------------------------------------------------
(* swap_in_process_memory *)

\* Faulty variant: the last of the largest is taken, however long it was there.
BetterVictim_AnyAge(p, q) == mem[p].size >= mem[q].size

(***************************************************************************)
(* The scan of swap_out_process_memory over the list: best[n] is the       *)
(* candidate after the first n objects.  An object replaces the candidate  *)
(* when it is larger, or as large and swapped in no later.                 *)
(***************************************************************************)
BetterVictim(p, q) ==
  \/ mem[p].size > mem[q].size
  \/ /\ mem[p].size = mem[q].size
     /\ mem[p].swap_in_time <= mem[q].swap_in_time

NextVictim(q, p) ==
  IF ~InDisk(p) /\ (q = None \/ BetterVictim(p, q)) THEN p ELSE q

SwapOutVictim ==
  LET best[n \in 0 .. Len(process_memories_list)] ==
        IF n = 0 THEN None
        ELSE NextVictim(best[n - 1], process_memories_list[n])
  IN  best[Len(process_memories_list)]

SwapInCall(p) ==
  /\ swapping = None
  /\ InDisk(p)
  /\ swapping' = p
  /\ UNCHANGED <<process_memories_list, mem, free_list, fault>>

\* A segment is found: occupy it and return.
SwapInReturn(t) ==
  LET k == FirstFit(mem[swapping].size, free_list) IN
  /\ Fits(mem[swapping].size, free_list)
  /\ mem' = [mem EXCEPT ![swapping].start_address = free_list[k].start_address,
                        ![swapping].swap_in_time  = t]
  /\ free_list' = OccupySegment(mem[swapping].size, free_list, k)
  /\ swapping' = None
  /\ UNCHANGED <<process_memories_list, fault>>

\* Faulty variant: only a process at least as large is evicted.
SwapOutProcessMemory_OnlyLarger ==
  /\ ~Fits(mem[swapping].size, free_list)
  /\ SwapOutVictim # None
  /\ IF mem[SwapOutVictim].size >= mem[swapping].size
     THEN Release(SwapOutVictim)
     ELSE UNCHANGED <<free_list, mem>>
  /\ UNCHANGED <<process_memories_list, swapping, fault>>

\* No segment is large enough: evict one process and look again.
SwapOutProcessMemory ==
  /\ ~Fits(mem[swapping].size, free_list)
  /\ SwapOutVictim # None
  /\ Release(SwapOutVictim)
  /\ UNCHANGED <<process_memories_list, swapping, fault>>

\* Nothing is left to evict: swap_out_proc_mem is used uninitialised.
SwapOutUninitialised ==
  /\ ~Fits(mem[swapping].size, free_list)
  /\ SwapOutVictim = None
  /\ fault' = TRUE
  /\ UNCHANGED <<process_memories_list, mem, free_list, swapping>>

SwapInStep(t) ==
  /\ swapping # None
  /\ ~fault
  /\ SwapInReturn(t) \/ SwapOutProcessMemory \/ SwapOutUninitialised

-----------------------------------------------------------------------------
(* Properties *)

ProcessMemory ==
  [start_address : Nat \cup {IN_DISK}, size : Nat, swap_in_time : Nat,
   process_id : Int]

\* The types of the lists and fields; an object is linked at most once, only
\* linked objects occupy memory, and the argument of a swap-in is not resident.
MemTypeOK ==
  /\ process_memories_list \in Seq(Procs)
  /\ IsInjective(process_memories_list)
  /\ mem \in [Procs -> ProcessMemory]
  /\ free_list \in Seq(Segment)
  /\ swapping \in Procs \cup {None}
  /\ fault \in BOOLEAN
  /\ Resident \subseteq Listed
  /\ swapping # None => swapping \in Listed /\ InDisk(swapping)

(***************************************************************************)
(* Every cell of main memory belongs to exactly one free segment or one    *)
(* resident process, and neither reaches outside main memory: no sequence  *)
(* of swaps, evictions, terminations and removals loses or doubly hands    *)
(* out memory (lines 113, 368-373, 446-452).                               *)
(***************************************************************************)
MemoryPartition ==
  /\ \A c \in 1 .. memsize :
       \/ \E k \in DOMAIN free_list : c \in Cells(free_list[k])
       \/ \E p \in Resident : c \in Cells(mem[p])
  /\ \A k \in DOMAIN free_list :
       /\ Cells(free_list[k]) \subseteq 1 .. memsize
       /\ \A j \in DOMAIN free_list \ {k} :
            Cells(free_list[j]) \cap Cells(free_list[k]) = {}
       /\ \A p \in Resident : Cells(mem[p]) \cap Cells(free_list[k]) = {}
  /\ \A p \in Resident :
       /\ Cells(mem[p]) \subseteq 1 .. memsize
       /\ \A q \in Resident \ {p} : Cells(mem[p]) \cap Cells(mem[q]) = {}

(***************************************************************************)
(* The free list is in descending order and fully consolidated: no segment *)
(* is empty and between two neighbours there is memory in use.  First fit  *)
(* and the number of holes printed with each status line rest on it (lines *)
(* 83, 140, 376).                                                          *)
(***************************************************************************)
HolesSeparated ==
  /\ \A k \in DOMAIN free_list : free_list[k].size > 0
  /\ \A j, k \in DOMAIN free_list :
       j < k => EndAddress(free_list[j]) > free_list[k].start_address

(***************************************************************************)
(* However fragmented the memory is, a swap-in reaches the uninitialised   *)
(* pointer of line 446 only for a process larger than main memory: once    *)
(* everything is evicted the holes have become one.                        *)
(***************************************************************************)
FaultOnlyIfOversized == fault => mem[swapping].size > memsize

(***************************************************************************)
(* An eviction takes the largest resident process and, among the largest,  *)
(* one that has been in memory longest (memory-management.h, comment on    *)
(* swap_out_process_memory).  The scan of lines 413-443 must deliver it    *)
(* whatever the order of the list.                                         *)
(***************************************************************************)
EvictsLargestThenOldest ==
  [][\A v \in Resident :
       (mem'[v].start_address = IN_DISK /\ swapping # None) =>
         \A p \in Resident :
           \/ mem[p].size < mem[v].size
           \/ /\ mem[p].size = mem[v].size
              /\ mem[p].swap_in_time >= mem[v].swap_in_time]_memVars
=============================================================================
