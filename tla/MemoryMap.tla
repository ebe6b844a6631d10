----------------------------- MODULE MemoryMap -----------------------------
(***************************************************************************)
(* What the memory manager promises, without its lists: an owner for each  *)
(* cell of main memory.  A process is placed in the highest block of free  *)
(* cells that holds it; only when there is none is some process evicted;   *)
(* no other process ever moves.                                            *)
(***************************************************************************)
EXTENDS Integers, FiniteSetsExt

CONSTANTS Procs, None, memsize

VARIABLES owner,     \* the process each cell belongs to, or None
          size,      \* the size of each process
          swapping   \* the process being swapped in, or None

vars == <<owner, size, swapping>>

Memory == 1 .. memsize

Owns(p) == \E c \in Memory : owner[c] = p

\* The start addresses at which a block of n free cells begins.
FreeBlocks(n) == {a \in n .. memsize : \A c \in a - n + 1 .. a : owner[c] = None}

Init ==
  /\ owner = [c \in Memory |-> None]
  /\ size = [p \in Procs |-> 0]
  /\ swapping = None

Create(p) ==
  /\ swapping = None /\ ~Owns(p)
  /\ size'[p] \in Nat \ {0}
  /\ size' = [size EXCEPT ![p] = size'[p]]
  /\ UNCHANGED <<owner, swapping>>

Free(p) ==
  /\ Owns(p)
  /\ owner' = [c \in Memory |-> IF owner[c] = p THEN None ELSE owner[c]]
  /\ UNCHANGED <<size, swapping>>

Request(p) ==
  /\ swapping = None /\ ~Owns(p)
  /\ swapping' = p
  /\ UNCHANGED <<owner, size>>

Place ==
  LET n == size[swapping]
      a == Max(FreeBlocks(n)) IN
  /\ swapping # None /\ FreeBlocks(n) # {}
  /\ owner' = [c \in Memory |->
                 IF c \in a - n + 1 .. a THEN swapping ELSE owner[c]]
  /\ swapping' = None
  /\ UNCHANGED size

Evict(p) ==
  /\ swapping # None /\ FreeBlocks(size[swapping]) = {}
  /\ Free(p)

Next ==
  \/ \E p \in Procs :
       \/ Create(p) \/ Request(p) \/ Evict(p)
       \/ swapping = None /\ Free(p)
  \/ Place

Spec == Init /\ [][Next]_vars
=============================================================================
