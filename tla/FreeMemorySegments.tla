------------------------- MODULE FreeMemorySegments -------------------------
(***************************************************************************)
(* The free list of the memory simulator (project1/memory-management.c),   *)
(* as operators on sequences.  A segment covers the addresses from its     *)
(* start_address down to, and not including, start_address - size: the     *)
(* whole memory of size m is the one segment with start_address m, size m. *)
(* The linked list is the sequence of its segments, head first.            *)
(***************************************************************************)
EXTENDS SequenceEdits

Segment == [start_address : Nat, size : Nat]

EndAddress(block) == block.start_address - block.size

\* The cells (one per unit of size) that a segment or a process memory covers.
Cells(block) == EndAddress(block) + 1 .. block.start_address

NewFreeMemorySegmentsList(memsize) ==
  <<[start_address |-> memsize, size |-> memsize]>>

(***************************************************************************)
(* The insertion scan stops at the first segment that does not start above *)
(* the new one, or falls off the end of the list.                          *)
(***************************************************************************)
InsertPosition(seg, segs) ==
  CHOOSE k \in 1 .. Len(segs) + 1 :
    /\ \A j \in 1 .. k - 1 : seg.start_address < segs[j].start_address
    /\ k <= Len(segs) => seg.start_address >= segs[k].start_address

(***************************************************************************)
(* consolidate walks the list once.  merged[n] is what the first n         *)
(* segments have become: segment n is added to the last one built when     *)
(* that one ends where n starts (the walk then stays on it), otherwise it  *)
(* becomes the new last one.                                               *)
(***************************************************************************)
MergeNext(done, seg) ==
  IF done # <<>> /\ EndAddress(done[Len(done)]) = seg.start_address
  THEN [done EXCEPT ![Len(done)].size = @ + seg.size]
  ELSE Append(done, seg)

Consolidate(segs) ==
  LET merged[n \in 0 .. Len(segs)] ==
        IF n = 0 THEN <<>> ELSE MergeNext(merged[n - 1], segs[n])
  IN  merged[Len(segs)]

\* Faulty variant: the trailing call to consolidate is missing.
AddFreeMemorySegment_NoConsolidate(seg, segs) ==
  LinkAt(segs, InsertPosition(seg, segs), seg)

AddFreeMemorySegment(seg, segs) ==
  Consolidate(LinkAt(segs, InsertPosition(seg, segs), seg))

-----------------------------------------------------------------------------
\* Faulty variant: a segment of exactly the right size is passed over.
Fits_Strict(size, segs) == \E k \in DOMAIN segs : size < segs[k].size

(***************************************************************************)
(* First fit: the search of swap_in_process_memory, and the occupation of  *)
(* the upper part of the segment found.                                    *)
(***************************************************************************)
Fits(size, segs) == \E k \in DOMAIN segs : size <= segs[k].size

\* Faulty variant: the search does not stop at the first segment that fits.
FirstFit_Last(size, segs) ==
  CHOOSE k \in DOMAIN segs :
    /\ size <= segs[k].size
    /\ \A j \in k + 1 .. Len(segs) : segs[j].size < size

FirstFit(size, segs) ==
  CHOOSE k \in DOMAIN segs :
    /\ size <= segs[k].size
    /\ \A j \in 1 .. k - 1 : segs[j].size < size

\* Faulty variant: the rest of the segment keeps its start address.
OccupySegment_KeepsStart(size, segs, k) ==
  IF segs[k].size = size
  THEN UnlinkAt(segs, k)
  ELSE [segs EXCEPT ![k].size = @ - size]

OccupySegment(size, segs, k) ==
  IF segs[k].size = size
  THEN UnlinkAt(segs, k)
  ELSE [segs EXCEPT ![k] = [start_address |-> @.start_address - size,
                            size          |-> @.size - size]]
=============================================================================
