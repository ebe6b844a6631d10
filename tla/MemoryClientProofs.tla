------------------------- MODULE MemoryClientProofs -------------------------
(***************************************************************************)
(* The memory manager is correct under every client: for any number of     *)
(* processes, any sizes, any process ids and any size of main memory.      *)
(***************************************************************************)
EXTENDS MemoryClient, MemoryManagementProofs

(* The time a leaf may take, in seconds. *)
USE SMTT(30)

\* Every step of the client keeps the types and the partition.
LEMMA NextMemInv ==
  ASSUME MemInv, time \in Nat, [Next]_vars
  PROVE  MemInv' /\ time' \in Nat
<1> USE ClientAssumption, MemoryAssumption
<1>0. /\ MemTypeOK /\ Listed \subseteq Procs
      /\ Sizes \subseteq Nat /\ Pids \subseteq Int /\ None \notin Procs
  BY DEF MemInv, MemTypeOK, Listed, Range, ClientAssumption, MemoryAssumption
<1>1. CASE Call
  <2>1. time' \in Nat /\ swapping = None
    BY <1>1 DEF Call
  <2>2. CASE \E p \in Procs \ Listed, size \in Sizes, pid \in Pids :
               AddNewProcessMemory(p, size, pid)
    <3>1. PICK p \in Procs, size \in Nat, pid \in Int :
                 AddNewProcessMemory(p, size, pid)
      BY ZenonT(30), <1>0, <2>2
    <3> QED BY ZenonT(30), <2>1, <3>1, AddNewProcessMemoryInv
  <2>3. CASE \E p \in Listed : SwapInCall(p) \/ SwapOutByProcessMemory(p)
    BY SMTT(30), <1>0, <2>1, <2>3, SwapInCallInv, SwapOutByProcessMemoryInv
  <2>4. CASE \E pid \in Pids : RemoveByProcessId(pid)
    BY <2>1, <2>4, RemoveByProcessIdInv
  <2> QED BY <1>1, <2>2, <2>3, <2>4 DEF Call
<1>2. CASE SwapIn
  BY <1>0, <1>2, SwapInStepInv DEF SwapIn
<1>3. CASE Tick
  BY <1>3, StutterMemInv DEF Tick
<1>4. CASE Halted \/ UNCHANGED vars
  BY <1>4, StutterMemInv DEF Halted, vars
<1> QED BY SMTT(30), <1>1, <1>2, <1>3, <1>4 DEF Next

\* Every step of a client without empty processes keeps the holes apart.
LEMMA NextSizedInv ==
  ASSUME MemInv, SizedInv, time \in Nat, 0 \notin Sizes, [Next]_vars
  PROVE  SizedInv'
<1> USE ClientAssumption, MemoryAssumption
<1>0. /\ MemTypeOK /\ Listed \subseteq Procs
      /\ Sizes \subseteq Nat \ {0} /\ Pids \subseteq Int
  BY DEF MemInv, MemTypeOK, Listed, Range, ClientAssumption
<1>1. CASE Call
  <2>1. swapping = None
    BY <1>1 DEF Call
  <2>2. CASE \E p \in Procs \ Listed, size \in Sizes, pid \in Pids :
               AddNewProcessMemory(p, size, pid)
    BY <1>0, <2>2, AddNewProcessMemorySized
  <2>3. CASE \E p \in Listed : SwapInCall(p) \/ SwapOutByProcessMemory(p)
    BY SMTT(30), <1>0, <2>3, SwapInCallSized, SwapOutByProcessMemorySized
  <2>4. CASE \E pid \in Pids : RemoveByProcessId(pid)
    BY <2>1, <2>4, RemoveByProcessIdSized
  <2> QED BY SMTT(30), <1>1, <2>2, <2>3, <2>4 DEF Call
<1>2. CASE SwapIn
  BY <1>2, SwapInStepSized DEF SwapIn
<1>3. CASE Tick
  BY <1>3, StutterMemInv DEF Tick
<1>4. CASE Halted \/ UNCHANGED vars
  BY <1>4, StutterMemInv DEF Halted, vars
<1> QED BY SMTT(30), <1>1, <1>2, <1>3, <1>4 DEF Next

-----------------------------------------------------------------------------
\* The inductive invariant, on which the theorems below rest.
LEMMA Invariance == Spec => [](MemInv /\ time \in Nat)
<1>1. Init => MemInv /\ time \in Nat
  BY MemoryAssumption, InitMemInv DEF Init
<1>2. MemInv /\ time \in Nat /\ [Next]_vars => (MemInv /\ time \in Nat)'
  BY NextMemInv
<1> QED BY <1>1, <1>2, PTL DEF Spec

\* The lists and fields of the memory manager keep their types, objects are
\* linked at most once and only linked ones occupy memory, under every client.
THEOREM TypeCorrect == Spec => []TypeOK
<1>1. MemInv /\ time \in Nat => TypeOK
  BY DEF MemInv, TypeOK
<1> QED BY <1>1, Invariance, PTL

\* Every cell of main memory is in exactly one free segment or resident
\* process, whatever the client does: swap_in_process_memory, both ways of
\* swapping out and removal never lose memory or hand it out twice.
THEOREM MemoryIsPartitioned == Spec => []MemoryPartition
<1>1. MemInv => MemoryPartition
  BY DEF MemInv
<1> QED BY <1>1, Invariance, PTL

\* With no empty process the holes stay apart, along with the invariant above.
LEMMA SizedInvariance ==
  ASSUME 0 \notin Sizes
  PROVE  Spec => []SizedInv
<1>1. Init => SizedInv
  BY MemoryAssumption, InitSizedInv DEF Init
<1>2. SizedInv /\ (MemInv /\ time \in Nat) /\ [Next]_vars => SizedInv'
  BY NextSizedInv
<1> QED BY <1>1, <1>2, Invariance, PTL DEF Spec

\* When no process is empty, the free list stays in order and consolidated:
\* add_free_memory_segment's one pass of consolidation is enough.
THEOREM HolesStaySeparated ==
  ASSUME 0 \notin Sizes
  PROVE  Spec => []HolesSeparated
<1>1. SizedInv => HolesSeparated
  BY SMTT(30) DEF SizedInv
<1> QED BY <1>1, SizedInvariance, PTL

\* When no process is empty, swap_out_process_memory uses its uninitialised
\* pointer only on behalf of a process larger than main memory.
THEOREM UninitialisedOnlyIfOversized ==
  ASSUME 0 \notin Sizes
  PROVE  Spec => []FaultOnlyIfOversized
<1>1. SizedInv => FaultOnlyIfOversized
  BY DEF SizedInv, FaultOnlyIfOversized
<1> QED BY <1>1, SizedInvariance, PTL

\* Whatever the order of the list, every eviction takes the largest resident
\* process and, among the largest, one that has been in memory longest.
THEOREM EvictionOrder == Spec => EvictsLargestThenOldest
<1> DEFINE Largest(v) == \A p \in Resident :
                           \/ mem[p].size < mem[v].size
                           \/ /\ mem[p].size = mem[v].size
                              /\ mem[p].swap_in_time >= mem[v].swap_in_time
           Evicts == \A v \in Resident :
                       (mem'[v].start_address = IN_DISK /\ swapping # None) =>
                         Largest(v)
<1>1. ASSUME MemInv, time \in Nat, [Next]_vars PROVE [Evicts]_memVars
  <2> USE MemoryAssumption
  <2>1. MemTypeOK /\ None \notin Procs
    BY <1>1 DEF MemInv, MemoryAssumption
  <2> SUFFICES ASSUME NEW v \in Resident, mem'[v].start_address = IN_DISK,
                      swapping # None, memVars' # memVars
               PROVE  Largest(v)
    OBVIOUS
  <2>2. v \in Procs /\ mem[v].start_address # IN_DISK
    BY DEF Resident, InDisk
  <2>3. SwapIn
    BY <1>1 DEF Next, Call, Tick, Halted, vars, memVars
  <2>4. CASE SwapInReturn(time)
    <3>1. v # swapping /\ mem'[v] = mem[v]
      BY SMTT(30), <1>1, <2>1, <2>2, <2>4, PlaceFields
    <3> QED BY <2>2, <3>1
  <2>5. CASE SwapOutUninitialised
    BY <2>2, <2>5 DEF SwapOutUninitialised
  <2>6. CASE SwapOutProcessMemory
    <3>1. SwapOutVictim \in Resident /\ Release(SwapOutVictim)
      BY SMTT(30), <2>1, <2>6, VictimResident DEF SwapOutProcessMemory
    <3>2. v = SwapOutVictim
      BY SMTT(30), <2>1, <2>2, <3>1, ReleaseFields DEF Resident
    <3>3. BestOf(v, Len(process_memories_list))
      BY SMTT(30), <2>1, <3>2, VictimIsBest
    <3>4. \A p \in Resident : \E i \in 1 .. Len(process_memories_list) :
            process_memories_list[i] = p
      BY <2>1 DEF MemTypeOK, Listed, Range
    <3> QED BY <3>3, <3>4 DEF BestOf, Resident
  <2> QED BY SMTT(30), <2>3, <2>4, <2>5, <2>6 DEF SwapIn, SwapInStep
<1>2. MemInv /\ time \in Nat /\ [Next]_vars => [Evicts]_memVars
  BY <1>1
<1> QED BY <1>2, Invariance, PTL DEF Spec, EvictsLargestThenOldest

-----------------------------------------------------------------------------
(* The lists implement the memory map. *)

\* What the owner of a cell tells.
OwnerFacts ==
  /\ OwnerMap \in [1 .. memsize -> Procs \cup {None}]
  /\ \A c \in 1 .. memsize, p \in Procs :
       OwnerMap[c] = p <=> p \in Resident /\ c \in Cells(mem[p])

\* A cell of a resident process belongs to it and to no other.
LEMMA OwnersKnown == MemInv => OwnerFacts
<1> SUFFICES ASSUME MemInv PROVE OwnerFacts
  OBVIOUS
<1>1. None \notin Procs /\ Resident \subseteq Procs
  BY MemoryAssumption DEF Resident
<1>2. \A p, q \in Resident : p # q => Cells(mem[p]) \cap Cells(mem[q]) = {}
  BY PartitionViewed DEF MemInv, PartitionView
<1>3. ASSUME NEW c \in 1 .. memsize
      PROVE  /\ Owner(c) \in Procs \cup {None}
             /\ \A p \in Procs : Owner(c) = p <=> p \in Resident /\ c \in Cells(mem[p])
  <2>1. CASE \E p \in Resident : c \in Cells(mem[p])
    <3>1. Owner(c) \in Resident /\ c \in Cells(mem[Owner(c)])
      BY <2>1 DEF Owner
    <3> QED BY <1>1, <1>2, <3>1
  <2>2. CASE ~ \E p \in Resident : c \in Cells(mem[p])
    <3>1. Owner(c) = None
      BY <2>2 DEF Owner
    <3> QED BY <1>1, <2>2, <3>1
  <2> QED BY <2>1, <2>2
<1> QED BY <1>3 DEF OwnerFacts, OwnerMap

LEMMA OwnersKnownNext == MemInv' => OwnerFacts'
BY OwnersKnown, PTL

\* Nothing changes in the map while the processes and their places do not.
LEMMA MapUnchanged ==
  ASSUME UNCHANGED <<mem, swapping>>
  PROVE  UNCHANGED Map!vars
BY DEF Map!vars, OwnerMap, Owner, SizeMap, Resident, InDisk

\* A cell is free in the map when it is in a segment of the free list.
LEMMA FreeCells ==
  ASSUME MemInv
  PROVE  \A c \in 1 .. memsize : OwnerMap[c] = None <=> c \in Covered(free_list)
<1>1. None \notin Procs /\ OwnerFacts /\ PartitionView /\ Resident \subseteq Procs
  BY MemoryAssumption, OwnersKnown, PartitionViewed DEF MemInv, Resident
<1> TAKE c \in 1 .. memsize
<1>2. CASE \E p \in Resident : c \in Cells(mem[p])
  <2>1. PICK p \in Resident : c \in Cells(mem[p])
    BY <1>2
  <2>2. OwnerMap[c] = p
    BY <1>1, <2>1 DEF OwnerFacts
  <2>3. c \notin Covered(free_list)
    BY <1>1, <2>1 DEF PartitionView
  <2> QED BY <1>1, <2>2, <2>3
<1>3. CASE ~ \E p \in Resident : c \in Cells(mem[p])
  <2>1. c \in Covered(free_list)
    BY <1>1, <1>3 DEF PartitionView
  <2>2. OwnerMap[c] = None
    BY <1>1, <1>3 DEF OwnerFacts
  <2> QED BY <2>1, <2>2
<1> QED BY <1>2, <1>3

\* A process that is not empty owns cells exactly while it is resident.
LEMMA OwnsResident ==
  ASSUME MemInv, NEW p \in Procs
  PROVE  /\ Map!Owns(p) => p \in Resident
         /\ p \in Resident /\ mem[p].size > 0 => Map!Owns(p)
<1>1. OwnerFacts
  BY OwnersKnown
<1>2. Map!Owns(p) => p \in Resident
  BY <1>1 DEF Map!Owns, Map!Memory, OwnerFacts
<1>3. ASSUME p \in Resident, mem[p].size > 0 PROVE Map!Owns(p)
  <2> DEFINE c == mem[p].start_address
  <2>1. c \in Nat /\ mem[p].size \in Nat
    BY <1>3, MemFields DEF MemInv, Resident
  <2>2. c \in Cells(mem[p])
    BY <1>3, <2>1 DEF Cells, EndAddress
  <2>3. c \in 1 .. memsize
    BY <1>3, <2>2, PartitionViewed DEF MemInv, PartitionView
  <2> HIDE DEF c
  <2> QED BY <1>1, <1>3, <2>2, <2>3 DEF Map!Owns, Map!Memory, OwnerFacts
<1> QED BY <1>2, <1>3

\* Swapping out frees the cells of the process in the map.
LEMMA ReleaseFrees ==
  ASSUME MemInv, MemInv', NEW p \in Resident, mem[p].size > 0, Release(p), swapping' = swapping
  PROVE  Map!Free(p)
<1>1. p \in Procs /\ OwnerFacts /\ OwnerFacts' /\ None \notin Procs
  BY OwnersKnown, OwnersKnownNext, MemoryAssumption DEF Resident
<1>2. /\ Resident' = Resident \ {p}
      /\ \A q \in Procs : q # p => mem'[q] = mem[q]
      /\ \A q \in Procs : mem'[q].size = mem[q].size
  BY <1>1, ReleaseFields DEF MemInv
<1>3. ASSUME NEW c \in 1 .. memsize
      PROVE  OwnerMap'[c] = IF OwnerMap[c] = p THEN None ELSE OwnerMap[c]
  <2>1. /\ OwnerMap[c] \in Procs \cup {None} /\ OwnerMap'[c] \in Procs \cup {None}
        /\ \A q \in Procs : OwnerMap[c] = q <=> q \in Resident /\ c \in Cells(mem[q])
        /\ \A q \in Procs : OwnerMap'[c] = q <=> q \in Resident' /\ c \in Cells(mem'[q])
    BY <1>1 DEF OwnerFacts
  <2>2. \A q \in Procs : OwnerMap'[c] = q <=> OwnerMap[c] = q /\ q # p
    BY <1>2, <2>1
  <2> QED BY <1>1, <2>1, <2>2
<1>4. OwnerMap' = [c \in 1 .. memsize |-> IF OwnerMap[c] = p THEN None ELSE OwnerMap[c]]
  <2>1. OwnerMap' \in [1 .. memsize -> Procs \cup {None}]
    BY <1>1 DEF OwnerFacts
  <2> QED BY <1>3, <2>1
<1>5. SizeMap' = SizeMap
  BY <1>2 DEF SizeMap
<1> QED BY <1>1, <1>4, <1>5, OwnsResident DEF Map!Free, Map!Memory

\* A block of free cells of the map is in one segment that is large enough.
LEMMA BlockFits ==
  ASSUME MemInv, HolesSeparated, NEW n \in Nat \ {0}, NEW a \in Map!FreeBlocks(n)
  PROVE  \E j \in DOMAIN free_list :
           a <= free_list[j].start_address /\ n <= free_list[j].size
<1>1. /\ a \in Nat /\ memsize \in Nat
      /\ \A c \in a - n + 1 .. a : c \in 1 .. memsize /\ OwnerMap[c] = None
  BY MemoryAssumption DEF Map!FreeBlocks
<1>2. \A c \in a - n + 1 .. a : c \in Covered(free_list)
  BY <1>1, FreeCells
<1>3. free_list \in Seq(Segment) /\ Separated(free_list)
  BY DEF MemInv, MemTypeOK, HolesSeparated, Separated
<1> QED BY <1>1, <1>2, <1>3, BlockInOneSegment

\* The first segment that fits is the highest free block.
LEMMA FirstFitIsHighest ==
  ASSUME MemInv, HolesSeparated, NEW n \in Nat \ {0}, Fits(n, free_list),
         NEW k, k = FirstFit(n, free_list)
  PROVE  /\ Map!FreeBlocks(n) # {}
         /\ free_list[k].start_address = Map!Max(Map!FreeBlocks(n))
<1> DEFINE a == free_list[k].start_address
           Blocks == Map!FreeBlocks(n)
<1>1. free_list \in Seq(Segment) /\ Separated(free_list) /\ PartitionView
  BY PartitionViewed DEF MemInv, MemTypeOK, HolesSeparated, Separated
<1>2. /\ k \in DOMAIN free_list /\ n <= free_list[k].size
      /\ \A j \in 1 .. k - 1 : free_list[j].size < n
  BY <1>1, FirstFitFound
<1>3. \A j \in DOMAIN free_list :
        /\ j \in Nat \ {0}
        /\ free_list[j].start_address \in Nat /\ free_list[j].size \in Nat
  <2> TAKE j \in DOMAIN free_list
  <2>1. free_list[j] \in Segment /\ j \in Nat \ {0}
    BY <1>1
  <2> QED BY <2>1 DEF Segment
<1>4. a \in Blocks
  <2>1. \A c \in a - n + 1 .. a : c \in Covered(free_list)
    <3> TAKE c \in a - n + 1 .. a
    <3>1. c \in Cells(free_list[k])
      BY <1>2, <1>3 DEF Cells, EndAddress
    <3> QED BY <1>2, <3>1 DEF Covered
  <2>2. \A c \in a - n + 1 .. a : c \in 1 .. memsize /\ OwnerMap[c] = None
    BY <1>1, <2>1, FreeCells DEF PartitionView
  <2>3. a \in Nat /\ a \in a - n + 1 .. a /\ a - n + 1 \in a - n + 1 .. a
    BY <1>2, <1>3
  <2>4. a \in 1 .. memsize /\ a - n + 1 \in 1 .. memsize
    BY <2>2, <2>3
  <2>5. a \in n .. memsize
    BY <2>3, <2>4, MemoryAssumption
  <2> HIDE DEF a
  <2> QED BY <2>2, <2>5 DEF Map!FreeBlocks
<1>5. ASSUME NEW b \in Blocks PROVE a >= b
  <2>1. PICK j \in DOMAIN free_list :
          b <= free_list[j].start_address /\ n <= free_list[j].size
    BY BlockFits
  <2>2. b \in Nat
    BY MemoryAssumption DEF Map!FreeBlocks
  <2>3. ~(j < k)
    <3>1. /\ j \in Nat \ {0} /\ k \in Nat /\ n \in Nat
          /\ free_list[j].size \in Nat /\ n <= free_list[j].size
      BY <1>2, <1>3, <2>1
    <3>2. j < k => j \in 1 .. k - 1
      BY <3>1
    <3>3. j < k => free_list[j].size < n
      BY <1>2, <3>2
    <3> QED BY <3>1, <3>3
  <2>4. CASE j = k
    BY <1>3, <2>1, <2>2, <2>4
  <2>5. CASE k < j
    <3>1. EndAddress(free_list[k]) > free_list[j].start_address
      BY <1>1, <1>2, <2>5 DEF Separated
    <3>2. EndAddress(free_list[k]) <= a /\ EndAddress(free_list[k]) \in Int
      BY <1>2, <1>3 DEF EndAddress
    <3> QED BY <1>2, <1>3, <2>1, <2>2, <3>1, <3>2
  <2> QED BY <1>2, <1>3, <2>3, <2>4, <2>5
<1>6. Blocks \subseteq Int
  BY MemoryAssumption DEF Map!FreeBlocks
<1> HIDE DEF a, Blocks
<1>7. a = Map!Max(Blocks)
  <2>1. a \in Int
    BY <1>4, <1>6
  <2>2. \A x \in Blocks : (\A y \in Blocks : x >= y) => x = a
    BY <1>4, <1>5, <1>6
  <2>3. Map!Max(Blocks) \in Blocks /\ \A y \in Blocks : Map!Max(Blocks) >= y
    BY <1>4, <1>5 DEF Map!Max
  <2> QED BY <2>2, <2>3
<1> QED BY <1>4, <1>7 DEF a, Blocks

\* Placing: the last turn of swap_in_process_memory, in the map.
LEMMA PlaceInMap ==
  ASSUME MemInv, MemInv', SizedInv, NEW t \in Nat, swapping # None, SwapInReturn(t)
  PROVE  Map!Place
<1> DEFINE n == mem[swapping].size
           k == FirstFit(n, free_list)
           a == free_list[k].start_address
<1>1. OwnerFacts /\ OwnerFacts' /\ None \notin Procs /\ MemTypeOK
  BY OwnersKnown, OwnersKnownNext, MemoryAssumption DEF MemInv
<1>2. /\ swapping \in Procs /\ swapping \in Listed
      /\ \A q \in Procs : q # swapping => mem'[q] = mem[q]
      /\ \A q \in Procs : mem'[q].size = mem[q].size
      /\ mem'[swapping].start_address = a
      /\ Resident' = Resident \cup {swapping}
      /\ swapping \notin Resident
  BY <1>1, PlaceFields
<1>3. n \in Nat \ {0}
  BY <1>1, <1>2, MemFields DEF SizedInv
<1>4. Fits(n, free_list) /\ HolesSeparated
  BY DEF SwapInReturn, SizedInv
<1>5. Map!FreeBlocks(n) # {} /\ a = Map!Max(Map!FreeBlocks(n))
  BY <1>3, <1>4, FirstFitIsHighest
<1>6. Cells(mem'[swapping]) = a - n + 1 .. a
  BY <1>2 DEF Cells, EndAddress
<1>7. SizeMap' = SizeMap /\ SizeMap[swapping] = n /\ swapping' = None
  BY ZenonT(30), <1>2 DEF SizeMap, SwapInReturn
<1> HIDE DEF a, n, k
<1> DEFINE Cell(c) == IF c \in a - n + 1 .. a THEN swapping ELSE OwnerMap[c]
<1>8. ASSUME NEW c \in 1 .. memsize PROVE OwnerMap'[c] = Cell(c)
  <2>1. /\ OwnerMap[c] \in Procs \cup {None} /\ OwnerMap'[c] \in Procs \cup {None}
        /\ \A q \in Procs : OwnerMap[c] = q <=> q \in Resident /\ c \in Cells(mem[q])
        /\ \A q \in Procs : OwnerMap'[c] = q <=> q \in Resident' /\ c \in Cells(mem'[q])
    BY <1>1 DEF OwnerFacts
  <2>2. CASE c \in a - n + 1 .. a
    BY ZenonT(30), <1>2, <1>6, <2>1, <2>2
  <2>3. CASE c \notin a - n + 1 .. a
    <3>1. \A q \in Procs : OwnerMap'[c] = q <=> OwnerMap[c] = q
      BY ZenonT(30), <1>2, <1>6, <2>1, <2>3
    <3> QED BY <1>1, <2>1, <2>3, <3>1
  <2> QED BY <2>2, <2>3
<1>9. OwnerMap' = [c \in 1 .. memsize |-> Cell(c)]
  <2> HIDE DEF Cell
  <2>1. OwnerMap' \in [1 .. memsize -> Procs \cup {None}]
    BY <1>1 DEF OwnerFacts
  <2>2. OwnerMap' = [c \in 1 .. memsize |-> OwnerMap'[c]]
    BY <2>1
  <2> QED BY <1>8, <2>2
<1>10. Map!Max(Map!FreeBlocks(SizeMap[swapping])) = a /\ Map!FreeBlocks(SizeMap[swapping]) # {}
  BY <1>5, <1>7
<1> HIDE DEF Cell
<1>11. [c \in 1 .. memsize |-> Cell(c)] =
         [c \in Map!Memory |-> IF c \in a - SizeMap[swapping] + 1 .. a
                              THEN swapping ELSE OwnerMap[c]]
  BY <1>7, ZenonT(30) DEF Map!Memory, Cell
<1> QED BY <1>7, <1>9, <1>10, <1>11, ZenonT(30) DEF Map!Place

\* Each turn of a swap-in is a step of the map, or none.
LEMMA SwapInStepInMap ==
  ASSUME MemInv, MemInv', SizedInv, NEW t \in Nat, SwapInStep(t)
  PROVE  [Map!Next]_Map!vars
<1>1. MemTypeOK /\ None \notin Procs /\ swapping # None
  BY MemoryAssumption DEF MemInv, SwapInStep
<1>2. CASE SwapInReturn(t)
  BY <1>1, <1>2, PlaceInMap DEF Map!Next
<1>3. CASE SwapOutProcessMemory
  <2> DEFINE v == SwapOutVictim
  <2>1. v \in Resident /\ Release(v) /\ ~Fits(mem[swapping].size, free_list) /\ swapping' = swapping
    BY <1>1, <1>3, VictimResident DEF SwapOutProcessMemory
  <2> HIDE DEF v
  <2>2. v \in Procs /\ mem[v].size > 0
    BY <1>1, <2>1 DEF SizedInv, MemTypeOK, Resident
  <2>3. Map!Free(v)
    BY <2>1, <2>2, ReleaseFrees
  <2>4. swapping \in Procs /\ swapping \in Listed
    BY <1>1 DEF MemTypeOK
  <2>5. mem[swapping].size \in Nat \ {0}
    BY <1>1, <2>4, MemFields DEF SizedInv
  <2>6. Map!FreeBlocks(mem[swapping].size) = {}
    BY <2>1, <2>5, BlockFits DEF Fits, SizedInv
  <2>7. SizeMap[swapping] = mem[swapping].size
    BY <2>4 DEF SizeMap
  <2> QED BY <1>1, <2>2, <2>3, <2>6, <2>7 DEF Map!Next, Map!Evict
<1>4. CASE SwapOutUninitialised
  BY <1>4, MapUnchanged DEF SwapOutUninitialised
<1> QED BY <1>2, <1>3, <1>4 DEF SwapInStep

\* Each call of the client is a step of the map, or none.
LEMMA CallInMap ==
  ASSUME MemInv, MemInv', SizedInv, 0 \notin Sizes, Call
  PROVE  [Map!Next]_Map!vars
<1>1. /\ MemTypeOK /\ None \notin Procs /\ swapping = None
      /\ Listed \subseteq Procs /\ Resident \subseteq Listed
      /\ Sizes \subseteq Nat \ {0} /\ Pids \subseteq Int
  BY MemoryAssumption, ClientAssumption DEF MemInv, MemTypeOK, Listed, Range, Call
<1>2. ASSUME NEW p \in Procs \ Listed, NEW s \in Sizes, NEW pid \in Pids,
             AddNewProcessMemory(p, s, pid)
      PROVE  Map!Create(p)
  <2>1. ~Map!Owns(p)
    BY <1>1, OwnsResident
  <2>2. mem' = [mem EXCEPT ![p] = NewProcessMemory(s, pid)]
    BY <1>2 DEF AddNewProcessMemory
  <2>3. mem \in [Procs -> ProcessMemory]
    BY <1>1 DEF MemTypeOK
  <2>4. SizeMap' = [SizeMap EXCEPT ![p] = s]
    BY ZenonT(30), <2>2, <2>3 DEF SizeMap, NewProcessMemory
  <2>5. SizeMap'[p] = s
    BY <2>4 DEF SizeMap
  <2>6. InDisk(p) /\ InDisk(p)' /\ \A q \in Procs : q # p => mem'[q] = mem[q]
    BY <1>1, <2>2, <2>3 DEF Resident, InDisk, NewProcessMemory
  <2>7. Resident' = Resident
    BY <2>6 DEF Resident, InDisk
  <2>8. OwnerMap' = OwnerMap
    <3>1. \A c : Owner(c)' = Owner(c)
      BY ZenonT(30), <2>6, <2>7 DEF Owner, Resident
    <3> QED BY <3>1 DEF OwnerMap
  <2> QED BY ZenonT(30), <1>1, <1>2, <2>1, <2>4, <2>5, <2>8 DEF Map!Create, AddNewProcessMemory
<1>3. ASSUME NEW p \in Listed, SwapInCall(p)
      PROVE  Map!Request(p)
  <2>1. ~Map!Owns(p)
    BY <1>1, <1>3, OwnsResident DEF SwapInCall, Resident
  <2>2. OwnerMap' = OwnerMap /\ SizeMap' = SizeMap
    BY <1>3 DEF SwapInCall, OwnerMap, Owner, SizeMap, Resident, InDisk
  <2> QED BY <1>1, <1>3, <2>1, <2>2 DEF Map!Request, SwapInCall
<1>4. ASSUME NEW p \in Listed, UNCHANGED swapping,
             IF InDisk(p) THEN UNCHANGED <<free_list, mem>> ELSE Release(p)
      PROVE  Map!Free(p) \/ UNCHANGED Map!vars
  <2>1. CASE InDisk(p)
    BY <1>4, <2>1, MapUnchanged
  <2>2. CASE ~InDisk(p)
    <3>1. p \in Resident /\ mem[p].size > 0
      BY <1>1, <2>2 DEF Resident, SizedInv
    <3> QED BY <1>4, <2>2, <3>1, ReleaseFrees
  <2> QED BY <2>1, <2>2
<1>5. CASE \E p \in Procs \ Listed, s \in Sizes, pid \in Pids :
             AddNewProcessMemory(p, s, pid)
  BY <1>2, <1>5 DEF Map!Next
<1>6. CASE \E p \in Listed : SwapInCall(p)
  BY <1>1, <1>3, <1>6 DEF Map!Next
<1>7. CASE \E p \in Listed : SwapOutByProcessMemory(p)
  <2>1. PICK p \in Listed : SwapOutByProcessMemory(p)
    BY <1>7
  <2> QED BY <1>1, <1>4, <2>1 DEF Map!Next, SwapOutByProcessMemory
<1>8. CASE \E pid \in Pids : RemoveByProcessId(pid)
  <2>1. PICK i \in DOMAIN process_memories_list :
          LET p == process_memories_list[i] IN
          /\ UNCHANGED swapping
          /\ IF InDisk(p) THEN UNCHANGED <<free_list, mem>> ELSE Release(p)
    BY <1>8 DEF RemoveByProcessId
  <2>2. process_memories_list[i] \in Listed
    BY DEF Listed, Range
  <2> QED BY <1>1, <1>4, <2>1, <2>2 DEF Map!Next
<1> QED BY <1>5, <1>6, <1>7, <1>8 DEF Call

\* When no process is empty, the two linked lists of the memory manager
\* implement the memory map, under every client: swap_in_process_memory puts
\* a process into the highest free block and evicts only when there is none,
\* swapping out and removing free the cells of that process and of no other,
\* and no process ever moves while it is resident.
THEOREM MemoryManagerImplementsMap ==
  ASSUME 0 \notin Sizes
  PROVE  Spec => ImplementsMemoryMap
<1>1. ASSUME Init PROVE Map!Init
  <2>1. mem = [p \in Procs |-> NewProcessMemory(0, 0)] /\ swapping = None
    BY <1>1 DEF Init, MemInit
  <2>2. Resident = {}
    BY <2>1 DEF Resident, InDisk, NewProcessMemory
  <2>3. OwnerMap = [c \in Map!Memory |-> None]
    BY <2>2 DEF OwnerMap, Owner, Map!Memory
  <2>4. SizeMap = [p \in Procs |-> 0]
    BY <2>1 DEF SizeMap, NewProcessMemory
  <2> QED BY <2>1, <2>3, <2>4 DEF Map!Init
<1>2. ASSUME MemInv, time \in Nat, SizedInv, [Next]_vars
      PROVE  [Map!Next]_Map!vars
  <2>1. MemInv'
    BY <1>2, NextMemInv
  <2>2. CASE Call
    BY <1>2, <2>1, <2>2, CallInMap
  <2>3. CASE SwapIn
    BY <1>2, <2>1, <2>3, SwapInStepInMap DEF SwapIn
  <2>4. CASE Tick \/ Halted \/ UNCHANGED vars
    <3>1. UNCHANGED <<mem, swapping>>
      BY <2>4 DEF Tick, Halted, vars, memVars
    <3> QED BY <3>1, MapUnchanged
  <2> QED BY <1>2, <2>2, <2>3, <2>4 DEF Next
<1>3. (MemInv /\ time \in Nat) /\ SizedInv /\ [Next]_vars => [Map!Next]_Map!vars
  BY <1>2
<1>4. Init => Map!Init
  BY <1>1
<1> QED BY <1>3, <1>4, Invariance, SizedInvariance, PTL
        DEF Spec, ImplementsMemoryMap, Map!Spec

=============================================================================
