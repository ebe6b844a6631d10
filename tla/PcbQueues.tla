----------------------------- MODULE PcbQueues ------------------------------
(***************************************************************************)
(* The queues and lists of process control blocks at the level of their    *)
(* next pointers (project1/process-scheduler.c:57-200), which the module   *)
(* ProcessScheduler treats as sequences.  The runner creates blocks, adds  *)
(* them to a queue, takes the front of a queue and adds it to a queue or   *)
(* list again.  Adding walks through the list, one turn of the loop per    *)
(* step.  A list in SortedLists is filled by add_pcb_to_pcbs_queue, the    *)
(* others by append_pcb_to_pcbs_list.                                      *)
(*                                                                         *)
(* rank stands for the pair (priority, process_id) in its lexicographic    *)
(* order.  contents and pos are history variables: what each list should   *)
(* hold, and how many blocks the walk has passed.                          *)
(***************************************************************************)
EXTENDS Integers, Sequences

CONSTANTS Pcbs, Lists, SortedLists, Ranks, Nil

ASSUME PcbAssumption ==
    /\ Nil \notin Pcbs
    /\ SortedLists \subseteq Lists
    /\ Ranks \subseteq Int

VARIABLES
    pcb_next, queue_head,
    rank,
    uncreated,          \* the blocks not allocated yet
    running,            \* the block the runner holds, or Nil
    adding, pcbs_list,  \* the block being added, or Nil, and to which list
    prev_pcb, curr_pcb,
    contents, pos

pcbVars == <<pcb_next, queue_head, rank, uncreated, running, adding, pcbs_list,
             prev_pcb, curr_pcb, contents, pos>>

PcbInit ==
    /\ pcb_next = [p \in Pcbs |-> Nil]
    /\ queue_head = [l \in Lists |-> Nil]
    /\ rank \in [Pcbs -> Ranks]
    /\ uncreated = Pcbs
    /\ running = Nil
    /\ adding = Nil /\ pcbs_list \in Lists
    /\ prev_pcb = Nil /\ curr_pcb = Nil
    /\ contents = [l \in Lists |-> <<>>] /\ pos = 0

-----------------------------------------------------------------------------
(* The sequence s with p after its first n elements. *)
InsertAfter(s, n, p) ==
    [i \in 1 .. Len(s) + 1 |->
        IF i <= n THEN s[i] ELSE IF i = n + 1 THEN p ELSE s[i - 1]]

Idle == adding = Nil

(* The start of either function: an empty list gets the block as its head, *)
(* and the block's next pointer is left as it is.                          *)
StartAdding(p, l) ==
    IF queue_head[l] = Nil
    THEN /\ queue_head' = [queue_head EXCEPT ![l] = p]
         /\ contents' = [contents EXCEPT ![l] = <<p>>]
         /\ UNCHANGED <<adding, pcbs_list, prev_pcb, curr_pcb, pos>>
    ELSE /\ adding' = p /\ pcbs_list' = l
         /\ prev_pcb' = Nil /\ curr_pcb' = queue_head[l]
         /\ pos' = 0
         /\ UNCHANGED <<queue_head, contents>>

(* new_process_control_block, and the block goes to a list. *)
CreateAndAdd(p, l) ==
    /\ Idle /\ p \in uncreated
    /\ uncreated' = uncreated \ {p}
    /\ pcb_next' = [pcb_next EXCEPT ![p] = Nil]
    /\ StartAdding(p, l)
    /\ UNCHANGED <<rank, running>>

(* Faulty variant: the block keeps its place's next pointer. *)
LoadedNext_Kept(p) == pcb_next

(* What load_pcb does to the next pointers. *)
LoadedNext(p) == [pcb_next EXCEPT ![p] = Nil]

(* pop_front_pcb_from_pcbs_queue, and load_pcb of the block popped. *)
PopFrontAndLoad(l) ==
    /\ Idle /\ running = Nil /\ queue_head[l] # Nil
    /\ running' = queue_head[l]
    /\ queue_head' = [queue_head EXCEPT ![l] = pcb_next[queue_head[l]]]
    /\ pcb_next' = LoadedNext(queue_head[l])
    /\ contents' = [contents EXCEPT ![l] = Tail(@)]
    /\ UNCHANGED <<rank, uncreated, adding, pcbs_list, prev_pcb, curr_pcb, pos>>

(* The runner gives its block back, with the priority it has then. *)
GiveBack(l, r) ==
    /\ Idle /\ running # Nil
    /\ rank' = [rank EXCEPT ![running] = r]
    /\ running' = Nil
    /\ StartAdding(running, l)
    /\ UNCHANGED <<pcb_next, uncreated>>

-----------------------------------------------------------------------------
GoesBeforeCurr ==
    /\ curr_pcb # Nil /\ pcbs_list \in SortedLists
    /\ rank[adding] < rank[curr_pcb]

WalkOn ==
    /\ ~Idle /\ curr_pcb # Nil /\ ~GoesBeforeCurr
    /\ prev_pcb' = curr_pcb /\ curr_pcb' = pcb_next[curr_pcb]
    /\ pos' = pos + 1
    /\ UNCHANGED <<pcb_next, queue_head, rank, uncreated, running, adding,
                   pcbs_list, contents>>

Added ==
    /\ adding' = Nil /\ prev_pcb' = Nil /\ curr_pcb' = Nil /\ pos' = 0
    /\ contents' = [contents EXCEPT ![pcbs_list] = InsertAfter(@, pos, adding)]
    /\ UNCHANGED <<rank, uncreated, running, pcbs_list>>

InsertAtHead ==
    /\ ~Idle /\ GoesBeforeCurr /\ curr_pcb = queue_head[pcbs_list]
    /\ queue_head' = [queue_head EXCEPT ![pcbs_list] = adding]
    /\ pcb_next' = [pcb_next EXCEPT ![adding] = curr_pcb]
    /\ Added

InsertAfterPrev ==
    /\ ~Idle
    /\ \/ curr_pcb = Nil
       \/ GoesBeforeCurr /\ curr_pcb # queue_head[pcbs_list]
    /\ pcb_next' = [pcb_next EXCEPT ![prev_pcb] = adding, ![adding] = curr_pcb]
    /\ Added
    /\ UNCHANGED queue_head

PcbNext ==
    \/ \E p \in Pcbs, l \in Lists : CreateAndAdd(p, l)
    \/ \E l \in Lists : PopFrontAndLoad(l) \/ \E r \in Ranks : GiveBack(l, r)
    \/ WalkOn \/ InsertAtHead \/ InsertAfterPrev

PcbSpec == PcbInit /\ [][PcbNext]_pcbVars

-----------------------------------------------------------------------------
(* Between two calls every list read along its next pointers is what was   *)
(* added to it and not yet taken, in order, up to a null pointer.  No      *)
(* block drags along the rest of the queue it was taken from, although     *)
(* adding to an empty list does not set next (lines 87 and 157): it was    *)
(* reset by load_pcb (line 195) or when the block was created.             *)
ListsHoldTheirContents ==
    Idle => \A l \in Lists :
        LET c == contents[l]
        IN  /\ queue_head[l] = IF c = <<>> THEN Nil ELSE c[1]
            /\ \A i \in 1 .. Len(c) :
                  pcb_next[c[i]] = IF i = Len(c) THEN Nil ELSE c[i + 1]

(* No block is ever in two places: two lists, two places of one list, the  *)
(* runner's hands, or the hands of an unfinished insertion.                *)
EachPcbInOnePlace ==
    /\ \A l, m \in Lists : \A i \in 1 .. Len(contents[l]), j \in 1 .. Len(contents[m]) :
          contents[l][i] = contents[m][j] => l = m /\ i = j
    /\ \A l \in Lists : \A i \in 1 .. Len(contents[l]) :
          contents[l][i] \notin {running, adding} \cup uncreated

(* A list filled by add_pcb_to_pcbs_queue stays in the order of priority,  *)
(* then process id, also when blocks come back with a lower priority.      *)
SortedListsAreSorted ==
    \A l \in SortedLists : \A i, j \in 1 .. Len(contents[l]) :
        i < j => rank[contents[l][i]] <= rank[contents[l][j]]

(* Whatever the runners do with their blocks, the pointers keep the lists: *)
(* in order, with nothing lost, shared or dragged along (lines 80-200).    *)
PcbListsIntact ==
    ListsHoldTheirContents /\ EachPcbInOnePlace /\ SortedListsAreSorted

=============================================================================
