----------------------- MODULE ProducerConsumerMutex ------------------------
(***************************************************************************)
(* workshop/producer-consumer-problem.c: the same buffer behind one mutex. *)
(* A thread that finds no space, or no item, unlocks and tries again until *)
(* the program is exiting.                                                 *)
(***************************************************************************)
EXTENDS SharedBuffer

CONSTANT None

ASSUME NoneAssumption == None \notin Threads

VARIABLE buffer_lock   \* the thread that holds the mutex, or None

mutexVars == <<programVars, buffer_lock>>

MutexInit == BufferInit /\ buffer_lock = None

buffer_has_space == buffer_space > 0
buffer_has_item == buffer_space < BUFFER_SIZE

(* The body of the producer's loop up to insert_item: a new item. *)
Produce(p) ==
    /\ pc[p] = "work"
    /\ \E x \in Items : item' = [item EXCEPT ![p] = x]
    /\ Goto(p, "loop")
    /\ UNCHANGED <<buffer, buffer_space, buf_pos, is_exiting, main_pc, buffer_lock>>

(* The body of the consumer's loop up to remove_item. *)
Consume(c) ==
    /\ pc[c] = "work"
    /\ Goto(c, "loop")
    /\ UNCHANGED <<bufferVars, is_exiting, main_pc, buffer_lock>>

(* Faulty variant: the flag is not tested. *)
LoopTest_Forever(t) ==
    /\ pc[t] = "loop"
    /\ Goto(t, "lock")
    /\ UNCHANGED <<bufferVars, is_exiting, main_pc, buffer_lock>>

(* The test of the loop in insert_item and remove_item; a thread that      *)
(* leaves it without success ends, because is_exiting stays set.           *)
LoopTest(t) ==
    /\ pc[t] = "loop"
    /\ Goto(t, IF is_exiting THEN "done" ELSE "lock")
    /\ UNCHANGED <<bufferVars, is_exiting, main_pc, buffer_lock>>

(* Faulty variant: nobody is kept out. *)
Lock_Shared(t) ==
    /\ pc[t] = "lock"
    /\ buffer_lock' = t
    /\ Goto(t, "test")
    /\ UNCHANGED <<bufferVars, is_exiting, main_pc>>

Lock(t) ==
    /\ pc[t] = "lock"
    /\ buffer_lock = None
    /\ buffer_lock' = t
    /\ Goto(t, "test")
    /\ UNCHANGED <<bufferVars, is_exiting, main_pc>>

(* buffer_has_space and buffer_has_item, under the mutex. *)
TestSpace(p) ==
    /\ pc[p] = "test"
    /\ Goto(p, IF buffer_has_space THEN "position" ELSE "unlock and retry")
    /\ UNCHANGED <<bufferVars, is_exiting, main_pc, buffer_lock>>

TestItem(c) ==
    /\ pc[c] = "test"
    /\ Goto(c, IF buffer_has_item THEN "position" ELSE "unlock and retry")
    /\ UNCHANGED <<bufferVars, is_exiting, main_pc, buffer_lock>>

(* The unlock, then the next turn of this loop or of the thread's. *)
Unlock(t) ==
    /\ pc[t] \in {"unlock", "unlock and retry"}
    /\ buffer_lock' = None
    /\ Goto(t, IF pc[t] = "unlock" THEN "work" ELSE "loop")
    /\ UNCHANGED <<bufferVars, is_exiting, main_pc>>

insert_item(p) ==
    \/ LoopTest(p) \/ Lock(p) \/ TestSpace(p) \/ Unlock(p)
    \/ InsertSection(p) /\ UNCHANGED buffer_lock

remove_item(c) ==
    \/ LoopTest(c) \/ Lock(c) \/ TestItem(c) \/ Unlock(c)
    \/ RemoveSection(c) /\ UNCHANGED buffer_lock

MutexMainStep == (StopThreads \/ JoinThreads) /\ UNCHANGED buffer_lock

Exited == main_pc = "exited" /\ UNCHANGED mutexVars

MutexNext ==
    \/ \E p \in Producers : Produce(p) \/ insert_item(p)
    \/ \E c \in Consumers : Consume(c) \/ remove_item(c)
    \/ MutexMainStep
    \/ Exited

MutexSpec == MutexInit /\ [][MutexNext]_mutexVars

(* Every thread that can go on does, and main's sleep ends. *)
MutexFairSpec ==
    /\ MutexSpec
    /\ \A p \in Producers : WF_mutexVars(Produce(p) \/ insert_item(p))
    /\ \A c \in Consumers : WF_mutexVars(Consume(c) \/ remove_item(c))
    /\ WF_mutexVars(MutexMainStep)

-----------------------------------------------------------------------------
(* The types of the buffer, the counters and the threads' positions. *)
MutexTypeOK ==
    /\ buffer \in [0 .. BUFFER_SIZE - 1 -> Items \cup {0}]
    /\ buffer_space \in 0 .. BUFFER_SIZE
    /\ item \in [Threads -> Items \cup {0}]
    /\ buf_pos \in [Threads -> 0 .. BUFFER_SIZE - 1]
    /\ buffer_lock \in Threads \cup {None}
    /\ is_exiting \in BOOLEAN
    /\ main_pc \in {"sleep", "join", "exited"}

(* Line 171, "6. Exit": once the flag is set every thread leaves its loop, *)
(* full buffer or empty, and main joins them all.                          *)
ProgramExits == is_exiting ~> main_pc = "exited"

=============================================================================
