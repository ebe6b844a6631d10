---------------------------- MODULE SequenceEdits ----------------------------
(***************************************************************************)
(* What linking and unlinking a node does to a linked list seen as the     *)
(* sequence of its elements, head first.  SequencesExt has the first two   *)
(* as InsertAt and RemoveAt; defined by their elements they are what the   *)
(* proofs about linked lists use, and SequencesExt would bring the theory  *)
(* of bags into every step of those proofs.                                *)
(***************************************************************************)
EXTENDS Integers, Sequences, Functions

\* The sequence with e linked in, so that it becomes the k-th element.
LinkAt(s, k, e) ==
  [i \in 1 .. Len(s) + 1 |->
     IF i < k THEN s[i] ELSE IF i = k THEN e ELSE s[i - 1]]

\* The sequence without its k-th element.
UnlinkAt(s, k) ==
  [i \in 1 .. Len(s) - 1 |-> IF i < k THEN s[i] ELSE s[i + 1]]

\* Where a search from the head finds e first, and 0 if it does not.
PositionOf(e, s) ==
  IF e \in Range(s)
  THEN CHOOSE k \in DOMAIN s : s[k] = e /\ \A j \in 1 .. k - 1 : s[j] # e
  ELSE 0

=============================================================================
