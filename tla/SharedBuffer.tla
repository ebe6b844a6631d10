---------------------------- MODULE SharedBuffer ----------------------------
(***************************************************************************)
(* The buffer of the producer-consumer programs (workshop/producer-        *)
(* consumer-problem-semaphore.c; producer-consumer-problem.c has the same  *)
(* code): an array with a count of its free places, and the sections that  *)
(* update them.  A section is split wherever another thread inside it      *)
(* would do harm; what keeps the others out is up to the program.          *)
(***************************************************************************)
EXTENDS Integers, Sequences, FiniteSets

CONSTANTS Producers, Consumers, Items, BUFFER_SIZE

ASSUME BufferAssumption ==
    /\ IsFiniteSet(Producers) /\ IsFiniteSet(Consumers)
    /\ Producers \cap Consumers = {}
    /\ BUFFER_SIZE \in Nat \ {0}
    /\ Items \subseteq Nat \ {0}

VARIABLES
    buffer,         \* places 0 .. BUFFER_SIZE - 1
    buffer_space,
    is_exiting,
    item, buf_pos,  \* local variables of each thread, 0 after their last use
    pc,             \* where each thread is
    main_pc         \* "sleep", then "join", then "exited"

bufferVars == <<buffer, buffer_space, item, buf_pos>>
programVars == <<bufferVars, is_exiting, pc, main_pc>>

Threads == Producers \cup Consumers

BufferInit ==
    /\ buffer = [i \in 0 .. BUFFER_SIZE - 1 |-> 0]
    /\ buffer_space = BUFFER_SIZE
    /\ is_exiting = FALSE
    /\ item = [t \in Threads |-> 0]
    /\ buf_pos = [t \in Threads |-> 0]
    /\ pc = [t \in Threads |-> "work"]
    /\ main_pc = "sleep"

Goto(t, point) == pc' = [pc EXCEPT ![t] = point]

-----------------------------------------------------------------------------
(* buf_pos: the first free place for a producer, the last occupied one for *)
(* a consumer.                                                             *)
Position(t) ==
    /\ pc[t] = "position"
    /\ buf_pos' = [buf_pos EXCEPT ![t] =
                      BUFFER_SIZE - buffer_space - (IF t \in Consumers THEN 1 ELSE 0)]
    /\ Goto(t, "update")
    /\ UNCHANGED <<buffer, buffer_space, item, is_exiting, main_pc>>

(* insert_item: the item is stored, then the place is taken. *)
Store(p) ==
    /\ pc[p] = "update"
    /\ buffer' = [buffer EXCEPT ![buf_pos[p]] = item[p]]
    /\ item' = [item EXCEPT ![p] = 0]
    /\ buf_pos' = [buf_pos EXCEPT ![p] = 0]
    /\ Goto(p, "count")
    /\ UNCHANGED <<buffer_space, is_exiting, main_pc>>

CountSpace(p) ==
    /\ pc[p] = "count"
    /\ buffer_space' = buffer_space - 1
    /\ Goto(p, "unlock")
    /\ UNCHANGED <<buffer, item, buf_pos, is_exiting, main_pc>>

(* remove_item: the first item is taken, then the others move up. *)
TakeFirst(c) ==
    /\ pc[c] = "update"
    /\ item' = [item EXCEPT ![c] = buffer[0]]
    /\ buffer_space' = buffer_space + 1
    /\ Goto(c, "push up")
    /\ UNCHANGED <<buffer, buf_pos, is_exiting, main_pc>>

(* Faulty variant: the last item is not moved. *)
PushUp_OneShort(c) ==
    /\ pc[c] = "push up"
    /\ buffer' = [i \in DOMAIN buffer |->
                     IF i < buf_pos[c] - 1 THEN buffer[i + 1] ELSE buffer[i]]
    /\ buf_pos' = [buf_pos EXCEPT ![c] = 0]
    /\ Goto(c, "unlock")
    /\ UNCHANGED <<buffer_space, item, is_exiting, main_pc>>

PushUp(c) ==
    /\ pc[c] = "push up"
    /\ buffer' = [i \in DOMAIN buffer |->
                     IF i < buf_pos[c] THEN buffer[i + 1] ELSE buffer[i]]
    /\ buf_pos' = [buf_pos EXCEPT ![c] = 0]
    /\ Goto(c, "unlock")
    /\ UNCHANGED <<buffer_space, item, is_exiting, main_pc>>

InsertSection(p) == Position(p) \/ Store(p) \/ CountSpace(p)
RemoveSection(c) == Position(c) \/ TakeFirst(c) \/ PushUp(c)

(* main wakes up and tells the threads to exit. *)
StopThreads ==
    /\ main_pc = "sleep"
    /\ is_exiting' = TRUE
    /\ main_pc' = "join"
    /\ UNCHANGED <<bufferVars, pc>>

(* main has joined every thread. *)
JoinThreads ==
    /\ main_pc = "join"
    /\ \A t \in Threads : pc[t] = "done"
    /\ main_pc' = "exited"
    /\ UNCHANGED <<bufferVars, pc, is_exiting>>

-----------------------------------------------------------------------------
(* The items in the buffer, in order; while a consumer moves them up they  *)
(* still start at place 1.                                                 *)
Contents ==
    LET first == IF \E c \in Consumers : pc[c] = "push up" THEN 1 ELSE 0
    IN  [i \in 1 .. BUFFER_SIZE - buffer_space |-> buffer[i - 1 + first]]

Queue == INSTANCE BoundedQueue
             WITH queue <- Contents, taken <- [c \in Consumers |-> item[c]]

(* Either program, the array and its count behind three semaphores or      *)
(* behind one mutex, implements a bounded first-in first-out queue         *)
(* (producer-consumer-problem-semaphore.c:36-105,                          *)
(* producer-consumer-problem.c:42-105): no item is lost, duplicated or     *)
(* overtaken, none is put in a full buffer or taken from an empty one, and *)
(* a place found free is still free when it is used.                       *)
ImplementsQueue == Queue!Spec

=============================================================================
