--------------------- MODULE ProducerConsumerSemaphore ----------------------
(***************************************************************************)
(* workshop/producer-consumer-problem-semaphore.c: the buffer behind a     *)
(* binary semaphore, with two counting semaphores for the free places and  *)
(* the items.                                                              *)
(***************************************************************************)
EXTENDS SharedBuffer

VARIABLES buffer_sem, space_sem, items_sem

semVars == <<buffer_sem, space_sem, items_sem>>
semaphoreVars == <<programVars, semVars>>

SemaphoreInit ==
    /\ BufferInit
    /\ buffer_sem = 1 /\ space_sem = BUFFER_SIZE /\ items_sem = 0

(* A turn of a thread's loop: a producer makes its item, and insert_item   *)
(* and remove_item return -1 when the program is exiting.                  *)
Work(t) ==
    /\ pc[t] = "work"
    /\ IF t \in Producers
       THEN \E x \in Items : item' = [item EXCEPT ![t] = x]
       ELSE UNCHANGED item
    /\ Goto(t, IF is_exiting THEN "done" ELSE "wait")
    /\ UNCHANGED <<buffer, buffer_space, buf_pos, is_exiting, main_pc, semVars>>

(* sem_wait(&space_sem) and sem_wait(&items_sem). *)
WaitForSpace(p) ==
    /\ pc[p] = "wait"
    /\ space_sem > 0
    /\ space_sem' = space_sem - 1
    /\ Goto(p, "lock")
    /\ UNCHANGED <<bufferVars, is_exiting, main_pc, buffer_sem, items_sem>>

WaitForItem(c) ==
    /\ pc[c] = "wait"
    /\ items_sem > 0
    /\ items_sem' = items_sem - 1
    /\ Goto(c, "lock")
    /\ UNCHANGED <<bufferVars, is_exiting, main_pc, buffer_sem, space_sem>>

(* sem_wait(&buffer_sem) and sem_post(&buffer_sem). *)
WaitForBuffer(t) ==
    /\ pc[t] = "lock"
    /\ buffer_sem > 0
    /\ buffer_sem' = buffer_sem - 1
    /\ Goto(t, "position")
    /\ UNCHANGED <<bufferVars, is_exiting, main_pc, space_sem, items_sem>>

PostBuffer(t) ==
    /\ pc[t] = "unlock"
    /\ buffer_sem' = buffer_sem + 1
    /\ Goto(t, "post")
    /\ UNCHANGED <<bufferVars, is_exiting, main_pc, space_sem, items_sem>>

(* Faulty variant: the new item is not announced. *)
PostItem_Forgotten(p) ==
    /\ pc[p] = "post"
    /\ Goto(p, "work")
    /\ UNCHANGED <<bufferVars, is_exiting, main_pc, semVars>>

(* sem_post(&items_sem) and sem_post(&space_sem). *)
PostItem(p) ==
    /\ pc[p] = "post"
    /\ items_sem' = items_sem + 1
    /\ Goto(p, "work")
    /\ UNCHANGED <<bufferVars, is_exiting, main_pc, buffer_sem, space_sem>>

PostSpace(c) ==
    /\ pc[c] = "post"
    /\ space_sem' = space_sem + 1
    /\ Goto(c, "work")
    /\ UNCHANGED <<bufferVars, is_exiting, main_pc, buffer_sem, items_sem>>

ProducerStep(p) ==
    \/ Work(p) \/ WaitForSpace(p) \/ WaitForBuffer(p) \/ PostBuffer(p) \/ PostItem(p)
    \/ InsertSection(p) /\ UNCHANGED semVars

ConsumerStep(c) ==
    \/ Work(c) \/ WaitForItem(c) \/ WaitForBuffer(c) \/ PostBuffer(c) \/ PostSpace(c)
    \/ RemoveSection(c) /\ UNCHANGED semVars

SemaphoreMainStep == (StopThreads \/ JoinThreads) /\ UNCHANGED semVars

SemaphoreNext ==
    \/ \E p \in Producers : ProducerStep(p)
    \/ \E c \in Consumers : ConsumerStep(c)
    \/ SemaphoreMainStep

SemaphoreSpec == SemaphoreInit /\ [][SemaphoreNext]_semaphoreVars

(* Every thread that can go on does, and main's sleep ends.  A thread that *)
(* waits on a semaphore posted over and over is not passed over for ever.  *)
SemaphoreFairSpec ==
    /\ SemaphoreSpec
    /\ \A p \in Producers : SF_semaphoreVars(ProducerStep(p))
    /\ \A c \in Consumers : SF_semaphoreVars(ConsumerStep(c))
    /\ WF_semaphoreVars(SemaphoreMainStep)

-----------------------------------------------------------------------------
(* The types of the buffer, the counters and the threads' positions. *)
SemaphoreTypeOK ==
    /\ buffer \in [0 .. BUFFER_SIZE - 1 -> Items \cup {0}]
    /\ buffer_space \in 0 .. BUFFER_SIZE
    /\ item \in [Threads -> Items \cup {0}]
    /\ buf_pos \in [Threads -> 0 .. BUFFER_SIZE - 1]
    /\ buffer_sem \in 0 .. 1
    /\ space_sem \in 0 .. BUFFER_SIZE /\ items_sem \in 0 .. BUFFER_SIZE
    /\ is_exiting \in BOOLEAN
    /\ main_pc \in {"sleep", "join", "exited"}

Between(S, points) == Cardinality({t \in S : pc[t] \in points})

(* The counting semaphores promise exactly the free places and the items   *)
(* of the buffer that no thread has claimed (lines 50-63, 83-102): no      *)
(* place and no item is lost to a thread that is between the semaphores.   *)
SemaphoresMatchBuffer ==
    /\ space_sem = buffer_space
                   - Between(Producers, {"lock", "position", "update", "count"})
                   - Between(Consumers, {"push up", "unlock", "post"})
    /\ items_sem = BUFFER_SIZE - buffer_space
                   - Between(Consumers, {"lock", "position", "update"})
                   - Between(Producers, {"unlock", "post"})

(* Once main has told the threads to exit, each of them ends or waits for  *)
(* ever on a semaphore only the other side posts: the producers on a full  *)
(* buffer, the consumers on an empty one.  The flag is read before         *)
(* sem_wait only (lines 45, 78), and main then stays in pthread_join.      *)
ExitOrStarve ==
    <>[](\A t \in Threads :
            \/ pc[t] = "done"
            \/ pc[t] = "wait" /\ Contents = <<>> /\ t \in Consumers
            \/ pc[t] = "wait" /\ Len(Contents) = BUFFER_SIZE /\ t \in Producers)

=============================================================================
