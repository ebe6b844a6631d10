---------------------------- MODULE MemoryClient ----------------------------
(***************************************************************************)
(* The memory manager under any client: one that creates processes of any  *)
(* size, swaps them in and out in any order and removes them, its clock    *)
(* standing still or advancing between two calls.  One call at a time, as  *)
(* in the simulator, which has a single thread.                            *)
(***************************************************************************)
EXTENDS MemoryManagement

CONSTANTS Sizes,     \* sizes the client gives its processes
          Pids,      \* process ids it gives them, not necessarily distinct
          MaxTime    \* bound on the clock

ASSUME ClientAssumption ==
  Sizes \subseteq Nat /\ Pids \subseteq Int /\ MaxTime \in Nat

VARIABLE time

vars == <<memVars, time>>

Init == MemInit /\ time = 0

Call ==
  /\ swapping = None
  /\ UNCHANGED time
  /\ \/ \E p \in Procs \ Listed, size \in Sizes, pid \in Pids :
         AddNewProcessMemory(p, size, pid)
     \/ \E p \in Listed : SwapInCall(p) \/ SwapOutByProcessMemory(p)
     \/ \E pid \in Pids : RemoveByProcessId(pid)

SwapIn == SwapInStep(time) /\ UNCHANGED time

Tick ==
  /\ swapping = None
  /\ time < MaxTime
  /\ time' = time + 1
  /\ UNCHANGED memVars

\* After the fault the behaviour is undefined and nothing is said about it.
Halted == fault /\ UNCHANGED vars

Next == Call \/ SwapIn \/ Tick \/ Halted

Spec == Init /\ [][Next]_vars

\* The types of the memory manager's variables and of the clock.
TypeOK == MemTypeOK /\ time \in Nat

(***************************************************************************)
(* The lists implement the memory map: the first segment that fits is the  *)
(* highest free block, a swap-out frees exactly the cells of its process,  *)
(* and processes that stay in memory do not move.                          *)
(***************************************************************************)
Owner(c) ==
  IF \E p \in Resident : c \in Cells(mem[p])
  THEN CHOOSE p \in Resident : c \in Cells(mem[p])
  ELSE None

OwnerMap == [c \in 1 .. memsize |-> Owner(c)]

SizeMap == [p \in Procs |-> mem[p].size]

Map == INSTANCE MemoryMap WITH owner <- OwnerMap, size <- SizeMap

ImplementsMemoryMap == Map!Spec
=============================================================================
