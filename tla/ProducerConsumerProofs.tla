----------------------- MODULE ProducerConsumerProofs -----------------------
(***************************************************************************)
(* The two producer-consumer programs implement the bounded queue, for any *)
(* numbers of producers and consumers, any items and any buffer size.      *)
(*                                                                         *)
(* First what both rely on: as long as one thread at a time is in the      *)
(* sections that update the buffer, and enters them when there is space or *)
(* an item, the array and its count are a first-in first-out queue.  Then  *)
(* the program with three semaphores, which match the buffer, and the      *)
(* polling program with its mutex.                                         *)
(***************************************************************************)
EXTENDS ProducerConsumerSemaphore, ProducerConsumerMutex, FiniteSetTheorems, TLAPS

(* A leaf goes to Zenon unless it names a prover. *)
USE ZenonT(30)

(* The points between the entry to a section and its last update. *)
Busy == {"position", "update", "count", "push up"}

(* All points of the threads of either program. *)
Points ==
    Busy \cup {"work", "wait", "loop", "lock", "test", "unlock", "unlock and retry", "post", "done"}

(* What the queue of SharedBuffer is read off. *)
QueueView == <<Contents, [c \in Consumers |-> item[c]]>>

BufferTypeOK ==
    /\ buffer \in [0 .. BUFFER_SIZE - 1 -> Items \cup {0}]
    /\ buffer_space \in 0 .. BUFFER_SIZE
    /\ item \in [Threads -> Items \cup {0}]
    /\ buf_pos \in [Threads -> 0 .. BUFFER_SIZE - 1]
    /\ pc \in [Threads -> Points]

(* A producer in its section has an item and a place for it, and once it   *)
(* has stored the item, the first free place holds one.                    *)
ProducerInv ==
    \A p \in Producers :
        /\ pc[p] # "push up"
        /\ pc[p] \in Busy => buffer_space > 0
        /\ pc[p] \in {"position", "update"} => item[p] \in Items
        /\ pc[p] = "update" => buf_pos[p] = BUFFER_SIZE - buffer_space
        /\ pc[p] = "count" => buffer[BUFFER_SIZE - buffer_space] \in Items

(* A consumer in its section has an item to take, the last one at buf_pos. *)
ConsumerInv ==
    \A c \in Consumers :
        /\ pc[c] # "count"
        /\ pc[c] \in {"position", "update"} => buffer_space < BUFFER_SIZE
        /\ pc[c] = "update" => buf_pos[c] = BUFFER_SIZE - buffer_space - 1
        /\ pc[c] = "push up" => buffer_space > 0 /\ buf_pos[c] = BUFFER_SIZE - buffer_space

OneBusy == \A t, u \in Threads : pc[t] \in Busy /\ pc[u] \in Busy => t = u

SectionInv == BufferTypeOK /\ ProducerInv /\ ConsumerInv /\ OneBusy

USE BufferAssumption DEF Threads

-----------------------------------------------------------------------------
(* The buffer starts empty and untouched. *)
LEMMA BufferInitInv == BufferInit => SectionInv /\ Queue!Init
<1> SUFFICES ASSUME BufferInit PROVE SectionInv /\ Queue!Init
  OBVIOUS
<1>1. SectionInv
  <2>1. BufferTypeOK
    BY SMTT(30) DEF BufferInit, BufferTypeOK, Points
  <2>2. \A t \in Threads : pc[t] = "work"
    BY DEF BufferInit
  <2>3. ProducerInv /\ ConsumerInv /\ OneBusy
    BY <2>2 DEF ProducerInv, ConsumerInv, OneBusy, Busy
  <2> QED BY <2>1, <2>3 DEF SectionInv
<1>2. Contents = << >>
  BY SMTT(30) DEF BufferInit, Contents
<1>3. [c \in Consumers |-> item[c]] = [c \in Consumers |-> 0]
  BY DEF BufferInit
<1> QED BY <1>1, <1>2, <1>3 DEF Queue!Init

(* A step outside the sections, or the entry to one, keeps the invariant   *)
(* and leaves the queue alone.                                             *)
LEMMA OutsideStep ==
  ASSUME SectionInv, NEW t \in Threads, NEW point \in Points,
         Goto(t, point), UNCHANGED <<buffer, buffer_space, buf_pos>>,
         item' \in [Threads -> Items \cup {0}],
         \A u \in Threads : u # t \/ t \in Consumers => item'[u] = item[u],
         pc[t] \notin Busy,
         point \notin Busy \/ /\ point = "position"
                              /\ \A u \in Threads : pc[u] \notin Busy
                              /\ t \in Producers => buffer_space > 0 /\ item'[t] \in Items
                              /\ t \in Consumers => buffer_space < BUFFER_SIZE
  PROVE  SectionInv' /\ UNCHANGED QueueView
<1>1. /\ pc' \in [Threads -> Points]
      /\ pc'[t] = point /\ \A u \in Threads \ {t} : pc'[u] = pc[u]
  BY DEF SectionInv, BufferTypeOK, Goto
<1>2. BufferTypeOK'
  BY <1>1 DEF SectionInv, BufferTypeOK
<1>3. ProducerInv'
  <2> SUFFICES ASSUME NEW p \in Producers
               PROVE  /\ pc'[p] # "push up"
                      /\ pc'[p] \in Busy => buffer_space > 0
                      /\ pc'[p] \in {"position", "update"} => item'[p] \in Items
                      /\ pc'[p] = "update" => buf_pos[p] = BUFFER_SIZE - buffer_space
                      /\ pc'[p] = "count" => buffer[BUFFER_SIZE - buffer_space] \in Items
    BY DEF ProducerInv
  <2>1. CASE p # t
    BY <1>1, <2>1 DEF SectionInv, ProducerInv
  <2>2. CASE p = t
    BY <1>1, <2>2 DEF Busy
  <2> QED BY <2>1, <2>2
<1>4. ConsumerInv'
  BY <1>1, ZenonT(60) DEF SectionInv, BufferTypeOK, ConsumerInv, Busy
<1>5. OneBusy'
  BY <1>1 DEF SectionInv, OneBusy, Busy
<1>6. \A c \in Consumers : pc'[c] = "push up" <=> pc[c] = "push up"
  BY <1>1 DEF Busy
<1>7. Contents' = Contents
  BY <1>6 DEF Contents
<1>8. [c \in Consumers |-> item[c]]' = [c \in Consumers |-> item[c]]
  BY DEF SectionInv, BufferTypeOK
<1> QED BY <1>2, <1>3, <1>4, <1>5, <1>7, <1>8 DEF SectionInv, QueueView

(* A step of main, or none at all. *)
LEMMA StutterSection ==
  ASSUME SectionInv, UNCHANGED <<bufferVars, pc>>
  PROVE  SectionInv' /\ UNCHANGED QueueView
BY DEF SectionInv, BufferTypeOK, ProducerInv, ConsumerInv, OneBusy, bufferVars,
       QueueView, Contents

(* The step of the only thread in a section: nobody else is at a point     *)
(* where the invariant says anything.                                      *)
LEMMA OthersOutside ==
  ASSUME SectionInv, NEW t \in Threads, pc[t] \in Busy,
         NEW point \in Points, Goto(t, point)
  PROVE  /\ pc' \in [Threads -> Points] /\ pc'[t] = point
         /\ \A u \in Threads \ {t} : pc'[u] = pc[u] /\ pc'[u] \notin Busy
         /\ OneBusy'
<1>1. /\ pc' \in [Threads -> Points] /\ pc'[t] = point
      /\ \A u \in Threads \ {t} : pc'[u] = pc[u]
  BY DEF SectionInv, BufferTypeOK, Goto
<1>2. \A u \in Threads \ {t} : pc[u] \notin Busy
  BY DEF SectionInv, OneBusy
<1> QED BY <1>1, <1>2 DEF OneBusy

(* How many items and places there are. *)
LEMMA SpaceFacts ==
  ASSUME SectionInv
  PROVE  /\ BUFFER_SIZE \in Nat /\ BUFFER_SIZE > 0
         /\ buffer_space \in Nat /\ buffer_space =< BUFFER_SIZE
BY SMTT(30) DEF SectionInv, BufferTypeOK

(* Both kinds of thread find the place they work on. *)
LEMMA PositionStep ==
  ASSUME SectionInv, NEW t \in Threads, Position(t)
  PROVE  SectionInv' /\ UNCHANGED QueueView
<1>1. /\ pc[t] = "position" /\ pc[t] \in Busy /\ Goto(t, "update") /\ "update" \in Points
      /\ UNCHANGED <<buffer, buffer_space, item>>
  BY DEF Position, Busy, Points
<1>2. /\ pc' \in [Threads -> Points] /\ pc'[t] = "update"
      /\ \A u \in Threads \ {t} : pc'[u] = pc[u] /\ pc'[u] \notin Busy
      /\ OneBusy'
  BY <1>1, OthersOutside
<1>3. /\ t \in Producers => buffer_space > 0 /\ item[t] \in Items
      /\ t \in Consumers => buffer_space < BUFFER_SIZE
  BY <1>1 DEF SectionInv, ProducerInv, ConsumerInv
<1>4. /\ buf_pos' \in [Threads -> 0 .. BUFFER_SIZE - 1]
      /\ buf_pos'[t] = BUFFER_SIZE - buffer_space - (IF t \in Consumers THEN 1 ELSE 0)
  BY SMTT(30), <1>3, SpaceFacts DEF Position, SectionInv, BufferTypeOK
<1>5. BufferTypeOK'
  BY <1>1, <1>2, <1>4 DEF SectionInv, BufferTypeOK
<1>6. ProducerInv'
  <2>1. \A p \in Producers : p # t => pc'[p] \notin Busy
    BY <1>2
  <2>2. t \in Producers => buf_pos'[t] = BUFFER_SIZE - buffer_space
    BY SMTT(30), <1>4, SpaceFacts
  <2> QED BY <1>1, <1>2, <1>3, <2>1, <2>2 DEF ProducerInv, Busy
<1>7. ConsumerInv'
  BY <1>1, <1>2, <1>3, SpaceFacts, <1>4 DEF ConsumerInv, Busy
<1>8. \A c \in Consumers : pc[c] # "push up" /\ pc'[c] # "push up"
  BY <1>1, <1>2 DEF Busy
<1>9. Contents' = Contents
  BY <1>1, <1>8 DEF Contents
<1> QED BY <1>1, <1>2, <1>5, <1>6, <1>7, <1>9 DEF SectionInv, QueueView

(* The item is stored behind the contents. *)
LEMMA StoreStep ==
  ASSUME SectionInv, NEW p \in Producers, Store(p)
  PROVE  SectionInv' /\ UNCHANGED QueueView
<1>1. /\ pc[p] = "update" /\ pc[p] \in Busy /\ Goto(p, "count") /\ "count" \in Points
      /\ p \in Threads /\ UNCHANGED buffer_space
  BY DEF Store, Busy, Points
<1>2. /\ pc' \in [Threads -> Points] /\ pc'[p] = "count"
      /\ \A u \in Threads \ {p} : pc'[u] = pc[u] /\ pc'[u] \notin Busy
      /\ OneBusy'
  BY <1>1, OthersOutside
<1>3. /\ buffer_space > 0 /\ item[p] \in Items /\ buf_pos[p] = BUFFER_SIZE - buffer_space
  BY <1>1 DEF SectionInv, ProducerInv
<1>4. /\ buffer' \in [0 .. BUFFER_SIZE - 1 -> Items \cup {0}]
      /\ buffer'[BUFFER_SIZE - buffer_space] \in Items
      /\ \A i \in 0 .. BUFFER_SIZE - buffer_space - 1 : buffer'[i] = buffer[i]
      /\ item' \in [Threads -> Items \cup {0}]
      /\ \A u \in Threads \ {p} : item'[u] = item[u]
      /\ buf_pos' \in [Threads -> 0 .. BUFFER_SIZE - 1]
  BY SMTT(30), <1>3, SpaceFacts DEF Store, SectionInv, BufferTypeOK
<1>5. BufferTypeOK'
  BY <1>1, <1>2, <1>4 DEF SectionInv, BufferTypeOK
<1>6. ProducerInv'
  BY <1>1, <1>2, <1>3, SpaceFacts, <1>4 DEF ProducerInv, Busy
<1>7. ConsumerInv'
  BY <1>1, <1>2 DEF ConsumerInv, Busy
<1>8. \A c \in Consumers : pc[c] # "push up" /\ pc'[c] # "push up" /\ item'[c] = item[c]
  BY <1>1, <1>2, <1>4 DEF Busy
<1>9. Contents' = Contents
  <2>1. ASSUME NEW i \in 1 .. BUFFER_SIZE - buffer_space
        PROVE  buffer'[i - 1 + 0] = buffer[i - 1 + 0]
    <3>1. i - 1 + 0 \in 0 .. BUFFER_SIZE - buffer_space - 1
      BY SMTT(30), SpaceFacts
    <3> QED BY <1>4, <3>1
  <2> QED BY <1>1, <1>8, <2>1 DEF Contents
<1> QED BY <1>2, <1>5, <1>6, <1>7, <1>8, <1>9 DEF SectionInv, QueueView

(* The item is counted: Put. *)
LEMMA CountSpaceStep ==
  ASSUME SectionInv, NEW p \in Producers, CountSpace(p)
  PROVE  SectionInv' /\ Queue!Next
<1>1. /\ pc[p] = "count" /\ pc[p] \in Busy /\ Goto(p, "unlock") /\ "unlock" \in Points
      /\ p \in Threads /\ UNCHANGED <<buffer, item, buf_pos>>
      /\ buffer_space' = buffer_space - 1
  BY DEF CountSpace, Busy, Points
<1>2. /\ pc' \in [Threads -> Points] /\ pc'[p] = "unlock"
      /\ \A u \in Threads \ {p} : pc'[u] = pc[u] /\ pc'[u] \notin Busy
      /\ OneBusy'
  BY <1>1, OthersOutside
<1>3. /\ buffer_space > 0 /\ buffer[BUFFER_SIZE - buffer_space] \in Items
  BY <1>1 DEF SectionInv, ProducerInv
<1>4. BufferTypeOK'
  BY SMTT(30), <1>1, <1>2, <1>3, SpaceFacts DEF SectionInv, BufferTypeOK
<1>5. ProducerInv' /\ ConsumerInv'
  BY <1>2 DEF ProducerInv, ConsumerInv, Busy
<1>6. \A c \in Consumers : pc[c] # "push up" /\ pc'[c] # "push up"
  BY <1>1, <1>2 DEF Busy
<1> DEFINE m == BUFFER_SIZE - buffer_space
<1>7. /\ Contents = [i \in 1 .. m |-> buffer[i - 1 + 0]]
      /\ Contents' = [i \in 1 .. m + 1 |-> buffer[i - 1 + 0]]
  <2>1. BUFFER_SIZE - buffer_space' = m + 1
    BY SMTT(30), <1>1, SpaceFacts
  <2> QED BY <1>1, <1>6, <2>1 DEF Contents
<1>8. Len(Contents) < BUFFER_SIZE /\ Contents' = Append(Contents, buffer[m])
  BY SMTT(30), <1>3, SpaceFacts, <1>7
<1>9. Queue!Put(buffer[m])
  BY <1>1, <1>8 DEF Queue!Put
<1> QED BY <1>2, <1>3, SpaceFacts, <1>4, <1>5, <1>9 DEF SectionInv, Queue!Next

(* The first item is taken: Get. *)
LEMMA TakeFirstStep ==
  ASSUME SectionInv, NEW c \in Consumers, TakeFirst(c)
  PROVE  SectionInv' /\ Queue!Next
<1>0. buffer_space' = buffer_space + 1 /\ UNCHANGED <<buffer, buf_pos>>
  BY DEF TakeFirst
<1>1. /\ pc[c] = "update" /\ pc[c] \in Busy /\ Goto(c, "push up") /\ "push up" \in Points
      /\ c \in Threads /\ c \notin Producers
  BY DEF TakeFirst, Busy, Points
<1>2. /\ pc' \in [Threads -> Points] /\ pc'[c] = "push up"
      /\ \A u \in Threads \ {c} : pc'[u] = pc[u] /\ pc'[u] \notin Busy
      /\ OneBusy'
  BY <1>1, OthersOutside
<1>3. /\ buffer_space < BUFFER_SIZE /\ buf_pos[c] = BUFFER_SIZE - buffer_space - 1
  BY <1>1 DEF SectionInv, ConsumerInv
<1>4. /\ item' \in [Threads -> Items \cup {0}] /\ item'[c] = buffer[0]
      /\ \A u \in Threads \ {c} : item'[u] = item[u]
  <2>1. 0 \in 0 .. BUFFER_SIZE - 1
    BY SMTT(30), SpaceFacts
  <2>2. buffer[0] \in Items \cup {0}
    BY <2>1 DEF SectionInv, BufferTypeOK
  <2> QED BY <2>2 DEF TakeFirst, SectionInv, BufferTypeOK
<1>5. BufferTypeOK'
  <2>1. buffer_space' \in 0 .. BUFFER_SIZE
    BY SMTT(30), <1>0, <1>3, SpaceFacts
  <2> QED BY <1>0, <1>1, <1>2, <1>4, <2>1 DEF SectionInv, BufferTypeOK
<1>6. ProducerInv'
  BY <1>0, <1>1, <1>2 DEF ProducerInv, Busy
<1>7. ConsumerInv'
  <2>1. \A d \in Consumers : d # c => pc'[d] \notin Busy
    BY <1>2
  <2>2. buffer_space' > 0 /\ buf_pos'[c] = BUFFER_SIZE - buffer_space'
    BY SMTT(30), <1>0, <1>3, SpaceFacts
  <2> QED BY <1>2, <2>1, <2>2 DEF ConsumerInv, Busy
<1>8. \A d \in Consumers : pc[d] # "push up"
  BY <1>0, <1>1, <1>2 DEF Busy
<1> DEFINE m == BUFFER_SIZE - buffer_space
<1>9. /\ Contents = [i \in 1 .. m |-> buffer[i - 1 + 0]]
      /\ Contents' = [i \in 1 .. m - 1 |-> buffer[i - 1 + 1]]
  <2>1. BUFFER_SIZE - buffer_space' = m - 1
    BY SMTT(30), <1>0, SpaceFacts
  <2> QED BY <1>0, <1>1, <1>2, <1>8, <2>1 DEF Contents
<1>10. Contents # << >> /\ Head(Contents) = buffer[0] /\ Contents' = Tail(Contents)
  BY SMTT(30), <1>3, SpaceFacts, <1>9
<1>11. [d \in Consumers |-> item[d]]'
          = [[d \in Consumers |-> item[d]] EXCEPT ![c] = Head(Contents)]
  BY <1>4, <1>10
<1>12. Queue!Get(c)
  BY <1>10, <1>11 DEF Queue!Get
<1> QED BY <1>2, <1>5, <1>6, <1>7, <1>12 DEF SectionInv, Queue!Next

(* The other items move up. *)
LEMMA PushUpStep ==
  ASSUME SectionInv, NEW c \in Consumers, PushUp(c)
  PROVE  SectionInv' /\ UNCHANGED QueueView
<1>1. /\ pc[c] = "push up" /\ pc[c] \in Busy /\ Goto(c, "unlock") /\ "unlock" \in Points
      /\ c \in Threads /\ UNCHANGED <<buffer_space, item>>
  BY DEF PushUp, Busy, Points
<1>2. /\ pc' \in [Threads -> Points] /\ pc'[c] = "unlock"
      /\ \A u \in Threads \ {c} : pc'[u] = pc[u] /\ pc'[u] \notin Busy
      /\ OneBusy'
  BY <1>1, OthersOutside
<1>3. /\ buffer_space > 0 /\ buf_pos[c] = BUFFER_SIZE - buffer_space
  BY <1>1 DEF SectionInv, ConsumerInv
<1>4. /\ buffer' \in [0 .. BUFFER_SIZE - 1 -> Items \cup {0}]
      /\ \A i \in 0 .. BUFFER_SIZE - buffer_space - 1 : buffer'[i] = buffer[i + 1]
      /\ buf_pos' \in [Threads -> 0 .. BUFFER_SIZE - 1]
  <2>1. /\ buffer' = [i \in 0 .. BUFFER_SIZE - 1 |->
                         IF i < BUFFER_SIZE - buffer_space THEN buffer[i + 1] ELSE buffer[i]]
        /\ buf_pos' = [buf_pos EXCEPT ![c] = 0]
    BY <1>3 DEF PushUp, SectionInv, BufferTypeOK
  <2>2. ASSUME NEW i \in 0 .. BUFFER_SIZE - 1
        PROVE  /\ i < BUFFER_SIZE - buffer_space => i + 1 \in 0 .. BUFFER_SIZE - 1
               /\ buffer[i] \in Items \cup {0}
    BY SMTT(30), <1>3, SpaceFacts DEF SectionInv, BufferTypeOK
  <2>3. buffer' \in [0 .. BUFFER_SIZE - 1 -> Items \cup {0}]
    BY <2>1, <2>2
  <2>4. \A i \in 0 .. BUFFER_SIZE - buffer_space - 1 : buffer'[i] = buffer[i + 1]
    BY SMTT(30), <1>3, <2>1, SpaceFacts
  <2>5. 0 \in 0 .. BUFFER_SIZE - 1
    BY SMTT(30), SpaceFacts
  <2> QED BY <2>1, <2>3, <2>4, <2>5 DEF SectionInv, BufferTypeOK
<1>5. BufferTypeOK'
  BY <1>1, <1>2, <1>4 DEF SectionInv, BufferTypeOK
<1>6. ProducerInv' /\ ConsumerInv'
  BY <1>2 DEF ProducerInv, ConsumerInv, Busy
<1>7. \A d \in Consumers : pc'[d] # "push up"
  BY <1>2 DEF Busy
<1>8. Contents' = Contents
  <2>1. ASSUME NEW i \in 1 .. BUFFER_SIZE - buffer_space
        PROVE  buffer'[i - 1 + 0] = buffer[i - 1 + 1]
    BY SMTT(30), <1>3, SpaceFacts, <1>4
  <2> QED BY <1>1, <1>7, <2>1 DEF Contents
<1> QED BY <1>1, <1>2, <1>5, <1>6, <1>8 DEF SectionInv, QueueView

-----------------------------------------------------------------------------
(* The program with semaphores. *)

(* The points between the wait for the buffer and the post. *)
Held == Busy \cup {"unlock"}

(* The threads between their semaphores, as in SemaphoresMatchBuffer. *)
PutPoints == {"lock", "position", "update", "count"}
PutDonePoints == {"unlock", "post"}
TakePoints == {"lock", "position", "update"}
TakeDonePoints == {"push up", "unlock", "post"}

Putting == Between(Producers, PutPoints)
PutDone == Between(Producers, PutDonePoints)
Taking == Between(Consumers, TakePoints)
TakeDone == Between(Consumers, TakeDonePoints)

(* The binary semaphore is down exactly while a thread is between wait and *)
(* post, and one at a time is.                                             *)
HeldInv ==
    /\ \A t, u \in Threads : pc[t] \in Held /\ pc[u] \in Held => t = u
    /\ buffer_sem = IF \E t \in Threads : pc[t] \in Held THEN 0 ELSE 1

SemInv ==
    /\ SectionInv /\ HeldInv /\ SemaphoresMatchBuffer
    /\ space_sem \in Nat /\ items_sem \in Nat
    /\ is_exiting \in BOOLEAN /\ main_pc \in {"sleep", "join", "exited"}
    /\ \A p \in Producers : pc[p] \in {"wait", "lock"} => item[p] \in Items

USE BufferAssumption DEF Threads

-----------------------------------------------------------------------------
(* The number of threads at some points. *)
LEMMA BetweenFacts ==
  ASSUME NEW S \in SUBSET Threads, NEW P
  PROVE  /\ Between(S, P) \in Nat
         /\ \A t \in S : pc[t] \in P => Between(S, P) >= 1
<1> DEFINE A == {u \in S : pc[u] \in P}
<1>1. IsFiniteSet(A)
  BY FS_Union, FS_Subset
<1>2. Cardinality(A) \in Nat
  BY <1>1, FS_CardinalityType
<1>3. A # {} => Cardinality(A) # 0
  BY <1>1, FS_EmptySet
<1>4. ASSUME NEW t \in S, pc[t] \in P PROVE A # {}
  BY <1>4
<1>5. Between(S, P) = Cardinality(A)
  BY DEF Between
<1> HIDE DEF A
<1> QED BY SMTT(30), <1>2, <1>3, <1>4, <1>5

(* How a step of thread t changes it. *)
LEMMA BetweenStep ==
  ASSUME NEW S \in SUBSET Threads, NEW P, pc \in [Threads -> Points],
         NEW t \in Threads, NEW point, Goto(t, point)
  PROVE  /\ t \notin S \/ (point \in P <=> pc[t] \in P) => Between(S, P)' = Between(S, P)
         /\ t \in S /\ point \in P /\ pc[t] \notin P => Between(S, P)' = Between(S, P) + 1
         /\ t \in S /\ point \notin P /\ pc[t] \in P => Between(S, P)' = Between(S, P) - 1
<1> DEFINE A == {u \in S : pc[u] \in P}
           B == {u \in S : pc'[u] \in P}
<1>1. IsFiniteSet(A) /\ IsFiniteSet(B)
  <2>1. IsFiniteSet(S)
    BY FS_Union, FS_Subset
  <2> QED BY <2>1, FS_Subset
<1>2. pc'[t] = point /\ \A u \in Threads \ {t} : pc'[u] = pc[u]
  BY DEF Goto
<1>3. Between(S, P) = Cardinality(A) /\ Between(S, P)' = Cardinality(B)
  BY DEF Between
<1>4. Cardinality(A) \in Nat /\ Cardinality(B) \in Nat
  BY <1>1, FS_CardinalityType
<1>5. PICK k : k = Cardinality(A \ {t}) /\ k = Cardinality(B \ {t})
  <2>1. A \ {t} = B \ {t}
    BY SMTT(30), <1>2
  <2> QED BY <2>1, ZenonT(30)
<1>6. k = IF t \in A THEN Cardinality(A) - 1 ELSE Cardinality(A)
  BY <1>1, <1>5, FS_RemoveElement
<1>7. k = IF t \in B THEN Cardinality(B) - 1 ELSE Cardinality(B)
  BY <1>1, <1>5, FS_RemoveElement
<1>8. /\ t \in A <=> t \in S /\ pc[t] \in P
      /\ t \in B <=> t \in S /\ point \in P
  BY <1>2
<1> HIDE DEF A, B
<1>9. /\ (t \in A <=> t \in B) => Cardinality(B) = Cardinality(A)
      /\ t \in B /\ t \notin A => Cardinality(B) = Cardinality(A) + 1
      /\ t \notin B /\ t \in A => Cardinality(B) = Cardinality(A) - 1
  BY SMTT(30), <1>4, <1>6, <1>7
<1> QED BY <1>3, <1>8, <1>9

(* The four numbers of SemaphoresMatchBuffer. *)
LEMMA CountFacts ==
  /\ Putting \in Nat /\ PutDone \in Nat /\ Taking \in Nat /\ TakeDone \in Nat
  /\ \A p \in Producers :
        pc[p] \in PutPoints => Putting >= 1
  /\ \A c \in Consumers : pc[c] \in TakePoints => Taking >= 1
<1>1. Producers \in SUBSET Threads /\ Consumers \in SUBSET Threads
  OBVIOUS
<1> QED BY <1>1, BetweenFacts, ZenonT(30) DEF Putting, PutDone, Taking, TakeDone

(* The four numbers after a step of thread t. *)
LEMMA CountsStep ==
  ASSUME SectionInv, NEW t \in Threads, NEW point, Goto(t, point)
  PROVE  /\ t \notin Producers \/ (point \in PutPoints <=> pc[t] \in PutPoints)
               => Putting' = Putting
         /\ t \in Producers /\ point \in PutPoints /\ pc[t] \notin PutPoints
               => Putting' = Putting + 1
         /\ t \in Producers /\ point \notin PutPoints /\ pc[t] \in PutPoints
               => Putting' = Putting - 1
         /\ t \notin Producers \/ (point \in PutDonePoints <=> pc[t] \in PutDonePoints)
               => PutDone' = PutDone
         /\ t \in Producers /\ point \in PutDonePoints /\ pc[t] \notin PutDonePoints
               => PutDone' = PutDone + 1
         /\ t \in Producers /\ point \notin PutDonePoints /\ pc[t] \in PutDonePoints
               => PutDone' = PutDone - 1
         /\ t \notin Consumers \/ (point \in TakePoints <=> pc[t] \in TakePoints)
               => Taking' = Taking
         /\ t \in Consumers /\ point \in TakePoints /\ pc[t] \notin TakePoints
               => Taking' = Taking + 1
         /\ t \in Consumers /\ point \notin TakePoints /\ pc[t] \in TakePoints
               => Taking' = Taking - 1
         /\ t \notin Consumers \/ (point \in TakeDonePoints <=> pc[t] \in TakeDonePoints)
               => TakeDone' = TakeDone
         /\ t \in Consumers /\ point \in TakeDonePoints /\ pc[t] \notin TakeDonePoints
               => TakeDone' = TakeDone + 1
         /\ t \in Consumers /\ point \notin TakeDonePoints /\ pc[t] \in TakeDonePoints
               => TakeDone' = TakeDone - 1
<1>1. pc \in [Threads -> Points] /\ Producers \in SUBSET Threads /\ Consumers \in SUBSET Threads
  BY DEF SectionInv, BufferTypeOK
<1> HIDE DEF Threads
<1>2. ASSUME NEW S \in SUBSET Threads, NEW P
      PROVE  /\ t \notin S \/ (point \in P <=> pc[t] \in P) => Between(S, P)' = Between(S, P)
             /\ t \in S /\ point \in P /\ pc[t] \notin P => Between(S, P)' = Between(S, P) + 1
             /\ t \in S /\ point \notin P /\ pc[t] \in P => Between(S, P)' = Between(S, P) - 1
  BY <1>1, BetweenStep
<1>3. ASSUME NEW P
      PROVE  /\ t \notin Producers \/ (point \in P <=> pc[t] \in P)
                   => Between(Producers, P)' = Between(Producers, P)
             /\ t \in Producers /\ point \in P /\ pc[t] \notin P
                   => Between(Producers, P)' = Between(Producers, P) + 1
             /\ t \in Producers /\ point \notin P /\ pc[t] \in P
                   => Between(Producers, P)' = Between(Producers, P) - 1
  BY <1>1, <1>2, ZenonT(30)
<1>4. ASSUME NEW P
      PROVE  /\ t \notin Consumers \/ (point \in P <=> pc[t] \in P)
                   => Between(Consumers, P)' = Between(Consumers, P)
             /\ t \in Consumers /\ point \in P /\ pc[t] \notin P
                   => Between(Consumers, P)' = Between(Consumers, P) + 1
             /\ t \in Consumers /\ point \notin P /\ pc[t] \in P
                   => Between(Consumers, P)' = Between(Consumers, P) - 1
  BY <1>1, <1>2, ZenonT(30)
<1> QED BY <1>3, <1>4, ZenonT(30) DEF Putting, PutDone, Taking, TakeDone

(* SemaphoresMatchBuffer in terms of the four numbers. *)
LEMMA MatchDef ==
  /\ SemaphoresMatchBuffer <=> /\ space_sem = buffer_space - Putting - TakeDone
                               /\ items_sem = BUFFER_SIZE - buffer_space - Taking - PutDone
  /\ SemaphoresMatchBuffer' <=> /\ space_sem' = buffer_space' - Putting' - TakeDone'
                                /\ items_sem' = BUFFER_SIZE - buffer_space' - Taking' - PutDone'
BY DEF SemaphoresMatchBuffer, Putting, PutDone, Taking, TakeDone,
       PutPoints, PutDonePoints, TakePoints, TakeDonePoints

(* A thread that has passed its first semaphore finds its place or item. *)
LEMMA Promised ==
  ASSUME SemInv, NEW t \in Threads
  PROVE  /\ t \in Producers /\ pc[t] \in PutPoints
               => buffer_space > 0
         /\ t \in Consumers /\ pc[t] \in TakePoints
               => buffer_space < BUFFER_SIZE
<1>1. /\ Putting \in Nat /\ PutDone \in Nat /\ Taking \in Nat /\ TakeDone \in Nat
      /\ t \in Producers /\ pc[t] \in PutPoints => Putting >= 1
      /\ t \in Consumers /\ pc[t] \in TakePoints => Taking >= 1
  BY CountFacts DEF SemInv
<1>2. /\ space_sem = buffer_space - Putting - TakeDone
      /\ items_sem = BUFFER_SIZE - buffer_space - Taking - PutDone
      /\ space_sem \in Nat /\ items_sem \in Nat
  BY MatchDef DEF SemInv
<1>3. SectionInv
  BY DEF SemInv
<1>4. BUFFER_SIZE \in Nat /\ buffer_space \in Nat
  BY <1>3, SpaceFacts
<1> QED BY SMTT(30), <1>1, <1>2, <1>4

(* A step of a thread keeps the promises of the counting semaphores. *)
LEMMA PutMatch ==
  ASSUME SemInv, NEW p \in Producers, ProducerStep(p)
  PROVE  SemaphoresMatchBuffer' /\ space_sem' \in Nat /\ items_sem' \in Nat
<1>0. SectionInv /\ space_sem \in Nat /\ items_sem \in Nat /\ SemaphoresMatchBuffer
  BY DEF SemInv
<1>1. /\ Putting \in Nat /\ PutDone \in Nat /\ Taking \in Nat /\ TakeDone \in Nat
      /\ BUFFER_SIZE \in Nat /\ buffer_space \in Nat
  BY <1>0, CountFacts, SpaceFacts
<1>2. p \in Threads /\ p \notin Consumers
  OBVIOUS
<1>3. CASE \/ Work(p) \/ WaitForBuffer(p) \/ PostBuffer(p)
           \/ (Position(p) \/ Store(p)) /\ UNCHANGED semVars
  <2>1. PICK point : Goto(p, point) /\ <<pc[p], point>> \in
          {<<"work", "wait">>, <<"work", "done">>, <<"lock", "position">>,
           <<"position", "update">>, <<"update", "count">>, <<"unlock", "post">>}
    BY <1>3 DEF Work, WaitForBuffer, PostBuffer, Position, Store
  <2>2. UNCHANGED <<space_sem, items_sem, buffer_space>>
    BY <1>3 DEF Work, WaitForBuffer, PostBuffer, Position, Store, semVars, bufferVars
  <2>3. /\ point \in PutPoints <=> pc[p] \in PutPoints
        /\ point \in PutDonePoints <=> pc[p] \in PutDonePoints
    BY <2>1 DEF PutPoints, PutDonePoints
  <2>4. Putting' = Putting /\ PutDone' = PutDone /\ Taking' = Taking /\ TakeDone' = TakeDone
    BY <1>0, <1>2, <2>1, <2>3, CountsStep, ZenonT(30)
  <2> QED BY <1>0, <2>2, <2>4, MatchDef
<1>4. CASE WaitForSpace(p)
  <2>1. /\ Goto(p, "lock") /\ space_sem > 0 /\ space_sem' = space_sem - 1
        /\ UNCHANGED <<items_sem, buffer_space>>
    BY <1>4 DEF WaitForSpace, bufferVars
  <2>2. /\ "lock" \in PutPoints /\ pc[p] \notin PutPoints
        /\ "lock" \notin PutDonePoints /\ pc[p] \notin PutDonePoints
    BY <1>4 DEF WaitForSpace, PutPoints, PutDonePoints
  <2>3. Putting' = Putting + 1 /\ PutDone' = PutDone /\ Taking' = Taking /\ TakeDone' = TakeDone
    BY <1>0, <1>2, <2>1, <2>2, CountsStep, ZenonT(30)
  <2> QED BY SMTT(30), <1>0, <1>1, <2>1, <2>3, MatchDef
<1>5. CASE PostItem(p)
  <2>1. /\ Goto(p, "work") /\ items_sem' = items_sem + 1
        /\ UNCHANGED <<space_sem, buffer_space>>
    BY <1>5 DEF PostItem, bufferVars
  <2>2. /\ "work" \notin PutPoints /\ pc[p] \notin PutPoints
        /\ "work" \notin PutDonePoints /\ pc[p] \in PutDonePoints
    BY <1>5 DEF PostItem, PutPoints, PutDonePoints
  <2>3. Putting' = Putting /\ PutDone' = PutDone - 1 /\ Taking' = Taking /\ TakeDone' = TakeDone
    BY <1>0, <1>2, <2>1, <2>2, CountsStep, ZenonT(30)
  <2> QED BY SMTT(30), <1>0, <1>1, <2>1, <2>3, MatchDef
<1>6. CASE CountSpace(p) /\ UNCHANGED semVars
  <2>1. /\ Goto(p, "unlock") /\ buffer_space' = buffer_space - 1
        /\ UNCHANGED <<space_sem, items_sem>>
    BY <1>6 DEF CountSpace, semVars
  <2>2. /\ "unlock" \notin PutPoints /\ pc[p] \in PutPoints
        /\ "unlock" \in PutDonePoints /\ pc[p] \notin PutDonePoints
    BY <1>6 DEF CountSpace, PutPoints, PutDonePoints
  <2>3. Putting' = Putting - 1 /\ PutDone' = PutDone + 1 /\ Taking' = Taking /\ TakeDone' = TakeDone
    BY <1>0, <1>2, <2>1, <2>2, CountsStep, ZenonT(30)
  <2> QED BY SMTT(30), <1>0, <1>1, <2>1, <2>3, MatchDef
<1> QED BY <1>3, <1>4, <1>5, <1>6 DEF ProducerStep, InsertSection

LEMMA TakeMatch ==
  ASSUME SemInv, NEW c \in Consumers, ConsumerStep(c)
  PROVE  SemaphoresMatchBuffer' /\ space_sem' \in Nat /\ items_sem' \in Nat
<1>0. SectionInv /\ space_sem \in Nat /\ items_sem \in Nat /\ SemaphoresMatchBuffer
  BY DEF SemInv
<1>1. /\ Putting \in Nat /\ PutDone \in Nat /\ Taking \in Nat /\ TakeDone \in Nat
      /\ BUFFER_SIZE \in Nat /\ buffer_space \in Nat
  BY <1>0, CountFacts, SpaceFacts
<1>2. c \in Threads /\ c \notin Producers
  OBVIOUS
<1>3. CASE \/ Work(c) \/ WaitForBuffer(c) \/ PostBuffer(c)
           \/ (Position(c) \/ PushUp(c)) /\ UNCHANGED semVars
  <2>1. PICK point : Goto(c, point) /\ <<pc[c], point>> \in
          {<<"work", "wait">>, <<"work", "done">>, <<"lock", "position">>,
           <<"position", "update">>, <<"push up", "unlock">>, <<"unlock", "post">>}
    BY <1>3 DEF Work, WaitForBuffer, PostBuffer, Position, PushUp
  <2>2. UNCHANGED <<space_sem, items_sem, buffer_space>>
    BY <1>3 DEF Work, WaitForBuffer, PostBuffer, Position, PushUp, semVars, bufferVars
  <2>3. /\ point \in TakePoints <=> pc[c] \in TakePoints
        /\ point \in TakeDonePoints <=> pc[c] \in TakeDonePoints
    BY <2>1 DEF TakePoints, TakeDonePoints
  <2>4. Putting' = Putting /\ PutDone' = PutDone /\ Taking' = Taking /\ TakeDone' = TakeDone
    BY <1>0, <1>2, <2>1, <2>3, CountsStep, ZenonT(30)
  <2> QED BY <1>0, <2>2, <2>4, MatchDef
<1>4. CASE WaitForItem(c)
  <2>1. /\ Goto(c, "lock") /\ items_sem > 0 /\ items_sem' = items_sem - 1
        /\ UNCHANGED <<space_sem, buffer_space>>
    BY <1>4 DEF WaitForItem, bufferVars
  <2>2. /\ "lock" \in TakePoints /\ pc[c] \notin TakePoints
        /\ "lock" \notin TakeDonePoints /\ pc[c] \notin TakeDonePoints
    BY <1>4 DEF WaitForItem, TakePoints, TakeDonePoints
  <2>3. Putting' = Putting /\ PutDone' = PutDone /\ Taking' = Taking + 1 /\ TakeDone' = TakeDone
    BY <1>0, <1>2, <2>1, <2>2, CountsStep, ZenonT(30)
  <2> QED BY SMTT(30), <1>0, <1>1, <2>1, <2>3, MatchDef
<1>5. CASE PostSpace(c)
  <2>1. /\ Goto(c, "work") /\ space_sem' = space_sem + 1
        /\ UNCHANGED <<items_sem, buffer_space>>
    BY <1>5 DEF PostSpace, bufferVars
  <2>2. /\ "work" \notin TakePoints /\ pc[c] \notin TakePoints
        /\ "work" \notin TakeDonePoints /\ pc[c] \in TakeDonePoints
    BY <1>5 DEF PostSpace, TakePoints, TakeDonePoints
  <2>3. Putting' = Putting /\ PutDone' = PutDone /\ Taking' = Taking /\ TakeDone' = TakeDone - 1
    BY <1>0, <1>2, <2>1, <2>2, CountsStep, ZenonT(30)
  <2> QED BY SMTT(30), <1>0, <1>1, <2>1, <2>3, MatchDef
<1>6. CASE TakeFirst(c) /\ UNCHANGED semVars
  <2>1. /\ Goto(c, "push up") /\ buffer_space' = buffer_space + 1
        /\ UNCHANGED <<space_sem, items_sem>>
    BY <1>6 DEF TakeFirst, semVars
  <2>2. /\ "push up" \notin TakePoints /\ pc[c] \in TakePoints
        /\ "push up" \in TakeDonePoints /\ pc[c] \notin TakeDonePoints
    BY <1>6 DEF TakeFirst, TakePoints, TakeDonePoints
  <2>3. Putting' = Putting /\ PutDone' = PutDone /\ Taking' = Taking - 1 /\ TakeDone' = TakeDone + 1
    BY <1>0, <1>2, <2>1, <2>2, CountsStep, ZenonT(30)
  <2>4. /\ space_sem = buffer_space - Putting - TakeDone
        /\ items_sem = BUFFER_SIZE - buffer_space - Taking - PutDone
    BY <1>0, MatchDef
  <2>5. /\ buffer_space - Putting - TakeDone = (buffer_space + 1) - Putting - (TakeDone + 1)
        /\ BUFFER_SIZE - buffer_space - Taking - PutDone
              = BUFFER_SIZE - (buffer_space + 1) - (Taking - 1) - PutDone
    BY SMTT(30), <1>1
  <2> QED BY <1>0, <2>1, <2>3, <2>4, <2>5, MatchDef
<1> QED BY <1>3, <1>4, <1>5, <1>6 DEF ConsumerStep, RemoveSection

(* A step keeps the binary semaphore's invariant. *)
LEMMA HeldStep ==
  ASSUME SemInv, NEW t \in Threads, NEW point, Goto(t, point),
         \/ (pc[t] \in Held <=> point \in Held) /\ UNCHANGED buffer_sem
         \/ pc[t] \notin Held /\ point \in Held /\ buffer_sem > 0 /\ buffer_sem' = buffer_sem - 1
         \/ pc[t] \in Held /\ point \notin Held /\ buffer_sem' = buffer_sem + 1
  PROVE  HeldInv'
<1>1. pc'[t] = point /\ \A u \in Threads \ {t} : pc'[u] = pc[u]
  BY DEF Goto, SemInv, SectionInv, BufferTypeOK
<1>2. /\ \A u, v \in Threads : pc[u] \in Held /\ pc[v] \in Held => u = v
      /\ buffer_sem = IF \E u \in Threads : pc[u] \in Held THEN 0 ELSE 1
  BY DEF SemInv, HeldInv
<1>3. CASE (pc[t] \in Held <=> point \in Held) /\ UNCHANGED buffer_sem
  <2>1. \A u \in Threads : pc'[u] \in Held <=> pc[u] \in Held
    BY <1>1, <1>3
  <2> QED BY <1>2, <1>3, <2>1 DEF HeldInv
<1>4. CASE pc[t] \notin Held /\ point \in Held /\ buffer_sem > 0 /\ buffer_sem' = buffer_sem - 1
  <2>1. \A u \in Threads : pc[u] \notin Held
    BY SMTT(30), <1>2, <1>4
  <2>2. buffer_sem' = 0
    BY SMTT(30), <1>2, <1>4, <2>1
  <2> QED BY <1>1, <1>4, <2>1, <2>2 DEF HeldInv
<1>5. CASE pc[t] \in Held /\ point \notin Held /\ buffer_sem' = buffer_sem + 1
  <2>1. \A u \in Threads : pc'[u] \notin Held
    BY <1>1, <1>2, <1>5
  <2>2. buffer_sem' = 1
    BY SMTT(30), <1>2, <1>5
  <2> QED BY <2>1, <2>2 DEF HeldInv
<1> QED BY <1>3, <1>4, <1>5

(* A thread outside the sections: nothing but its point, the semaphores    *)
(* and a producer's item change.                                           *)
LEMMA SemOutside ==
  ASSUME SemInv, NEW t \in Threads,
         \/ Work(t) \/ WaitForBuffer(t) \/ PostBuffer(t)
         \/ WaitForSpace(t) \/ WaitForItem(t) \/ PostItem(t) \/ PostSpace(t)
  PROVE  /\ SectionInv' /\ HeldInv' /\ UNCHANGED <<QueueView, is_exiting, main_pc>>
         /\ \A p \in Producers : pc'[p] \in {"wait", "lock"} => item'[p] \in Items
<1>0. PICK point : Goto(t, point) /\ <<pc[t], point>> \in
        {<<"work", "wait">>, <<"work", "done">>, <<"wait", "lock">>, <<"lock", "position">>,
         <<"unlock", "post">>, <<"post", "work">>}
  BY DEF Work, WaitForBuffer, PostBuffer, WaitForSpace, WaitForItem, PostItem, PostSpace
<1>1. /\ UNCHANGED <<buffer, buffer_space, buf_pos, is_exiting, main_pc>>
      /\ item' \in [Threads -> Items \cup {0}]
      /\ \A u \in Threads : u # t \/ t \in Consumers => item'[u] = item[u]
      /\ pc[t] # "work" => UNCHANGED item
      /\ pc[t] = "work" /\ t \in Producers => item'[t] \in Items
  <2>0. item \in [Threads -> Items \cup {0}]
    BY DEF SemInv, SectionInv, BufferTypeOK
  <2>1. CASE Work(t)
    <3>1. CASE t \in Producers
      <4>1. PICK x \in Items : item' = [item EXCEPT ![t] = x]
        BY <2>1, <3>1 DEF Work
      <4> QED BY <2>0, <2>1, <3>1, <4>1 DEF Work
    <3>2. CASE t \notin Producers
      BY <2>0, <2>1, <3>2 DEF Work
    <3> QED BY <3>1, <3>2
  <2>2. CASE ~Work(t)
    <3>1. UNCHANGED <<bufferVars, is_exiting, main_pc>> /\ pc[t] # "work"
      BY <2>2 DEF WaitForBuffer, PostBuffer, WaitForSpace, WaitForItem, PostItem, PostSpace
    <3> QED BY <2>0, <3>1 DEF bufferVars
  <2> QED BY <2>1, <2>2
<1>2. pc'[t] = point /\ \A u \in Threads \ {t} : pc'[u] = pc[u]
  BY <1>0 DEF Goto, SemInv, SectionInv, BufferTypeOK
<1>3. /\ pc[t] = "lock" <=> WaitForBuffer(t)
      /\ pc[t] = "unlock" <=> PostBuffer(t)
      /\ pc[t] \notin {"lock", "unlock"} => UNCHANGED buffer_sem
  BY DEF Work, WaitForBuffer, PostBuffer, WaitForSpace, WaitForItem, PostItem, PostSpace, semVars
<1>4. HeldInv'
  <2>1. /\ pc[t] = "lock" => buffer_sem > 0 /\ buffer_sem' = buffer_sem - 1
        /\ pc[t] = "unlock" => buffer_sem' = buffer_sem + 1
    BY <1>3 DEF WaitForBuffer, PostBuffer
  <2>2. \/ (pc[t] \in Held <=> point \in Held) /\ pc[t] \notin {"lock", "unlock"}
        \/ pc[t] \notin Held /\ point \in Held /\ pc[t] = "lock"
        \/ pc[t] \in Held /\ point \notin Held /\ pc[t] = "unlock"
    BY <1>0 DEF Held, Busy
  <2> QED BY <1>0, <1>3, <2>1, <2>2, HeldStep
<1>5. SectionInv' /\ UNCHANGED QueueView
  <2>1. SectionInv /\ point \in Points /\ pc[t] \notin Busy
    BY <1>0 DEF SemInv, Points, Busy
  <2>2. ASSUME pc[t] = "lock"
        PROVE  /\ \A u \in Threads : pc[u] \notin Busy
               /\ t \in Producers => buffer_space > 0 /\ item'[t] \in Items
               /\ t \in Consumers => buffer_space < BUFFER_SIZE
    <3>1. buffer_sem > 0
      BY <1>3, <2>2 DEF WaitForBuffer
    <3>2. \A u \in Threads : pc[u] \notin Busy
      BY SMTT(30), <3>1 DEF SemInv, HeldInv, Held
    <3>3. t \in Producers => buffer_space > 0
      BY <2>2, Promised DEF PutPoints
    <3>4. t \in Consumers => buffer_space < BUFFER_SIZE
      BY <2>2, Promised DEF TakePoints
    <3>5. t \in Producers => item'[t] \in Items
      BY <1>1, <2>2 DEF SemInv
    <3> QED BY <3>2, <3>3, <3>4, <3>5
  <2>3. point \notin Busy \/ (point = "position" /\ pc[t] = "lock")
    BY <1>0 DEF Busy
  <2> QED BY <1>0, <1>1, <2>1, <2>2, <2>3, OutsideStep
<1>6. \A p \in Producers : pc'[p] \in {"wait", "lock"} => item'[p] \in Items
  BY <1>0, <1>1, <1>2 DEF SemInv
<1> QED BY <1>1, <1>4, <1>5, <1>6

(* A step of the only thread in a section. *)
LEMMA SemSection ==
  ASSUME SemInv, NEW t \in Threads, UNCHANGED semVars,
         pc[t] \in Busy, NEW point \in Held, Goto(t, point),
         \A u \in Threads \ {t} : item'[u] = item[u]
  PROVE  /\ HeldInv'
         /\ \A p \in Producers : pc'[p] \in {"wait", "lock"} => item'[p] \in Items
<1>1. pc'[t] = point /\ \A u \in Threads \ {t} : pc'[u] = pc[u]
  BY DEF Goto, SemInv, SectionInv, BufferTypeOK
<1>2. HeldInv'
  BY HeldStep DEF Held, semVars
<1>3. point \notin {"wait", "lock"}
  BY DEF Held, Busy
<1> QED BY <1>1, <1>2, <1>3 DEF SemInv

(* Every step keeps the invariant and is a step of the queue, or none. *)
LEMMA SemStep ==
  ASSUME SemInv, [SemaphoreNext]_semaphoreVars
  PROVE  SemInv' /\ [Queue!Next]_QueueView
<1> DEFINE Rest == /\ SectionInv' /\ HeldInv' /\ UNCHANGED <<is_exiting, main_pc>>
                   /\ \A p \in Producers : pc'[p] \in {"wait", "lock"} => item'[p] \in Items
<1>0. SectionInv
  BY DEF SemInv
<1>1. ASSUME NEW t \in Threads,
             \/ Work(t) \/ WaitForBuffer(t) \/ PostBuffer(t)
             \/ WaitForSpace(t) \/ WaitForItem(t) \/ PostItem(t) \/ PostSpace(t)
      PROVE  Rest /\ UNCHANGED QueueView
  BY <1>1, SemOutside
<1>2. ASSUME NEW t \in Threads, Position(t), UNCHANGED semVars
      PROVE  Rest /\ UNCHANGED QueueView
  <2>1. /\ pc[t] \in Busy /\ Goto(t, "update") /\ "update" \in Held
        /\ UNCHANGED <<item, is_exiting, main_pc>>
    BY <1>2 DEF Position, Busy, Held
  <2> QED BY <1>0, <1>2, <2>1, PositionStep, SemSection
<1>3. ASSUME NEW p \in Producers, Store(p), UNCHANGED semVars
      PROVE  Rest /\ UNCHANGED QueueView
  <2>1. /\ pc[p] \in Busy /\ Goto(p, "count") /\ "count" \in Held
        /\ UNCHANGED <<is_exiting, main_pc>>
        /\ \A u \in Threads \ {p} : item'[u] = item[u]
    BY <1>0, <1>3 DEF Store, Busy, Held, SectionInv, BufferTypeOK
  <2> QED BY <1>0, <1>3, <2>1, StoreStep, SemSection
<1>4. ASSUME NEW p \in Producers, CountSpace(p), UNCHANGED semVars
      PROVE  Rest /\ Queue!Next
  <2>1. /\ pc[p] \in Busy /\ Goto(p, "unlock") /\ "unlock" \in Held
        /\ UNCHANGED <<item, is_exiting, main_pc>>
    BY <1>4 DEF CountSpace, Busy, Held
  <2> QED BY <1>0, <1>4, <2>1, CountSpaceStep, SemSection
<1>5. ASSUME NEW c \in Consumers, TakeFirst(c), UNCHANGED semVars
      PROVE  Rest /\ Queue!Next
  <2>1. /\ pc[c] \in Busy /\ Goto(c, "push up") /\ "push up" \in Held
        /\ UNCHANGED <<is_exiting, main_pc>>
        /\ \A u \in Threads \ {c} : item'[u] = item[u]
    BY <1>0, <1>5 DEF TakeFirst, Busy, Held, SectionInv, BufferTypeOK
  <2> QED BY <1>0, <1>5, <2>1, TakeFirstStep, SemSection
<1>6. ASSUME NEW c \in Consumers, PushUp(c), UNCHANGED semVars
      PROVE  Rest /\ UNCHANGED QueueView
  <2>1. /\ pc[c] \in Busy /\ Goto(c, "unlock") /\ "unlock" \in Held
        /\ UNCHANGED <<item, is_exiting, main_pc>>
    BY <1>6 DEF PushUp, Busy, Held
  <2> QED BY <1>0, <1>6, <2>1, PushUpStep, SemSection
<1>7. CASE SemaphoreMainStep \/ UNCHANGED semaphoreVars
  <2>1. UNCHANGED <<bufferVars, pc, semVars>>
    BY <1>7 DEF SemaphoreMainStep, StopThreads, JoinThreads, semaphoreVars, programVars
  <2>2. is_exiting' \in BOOLEAN /\ main_pc' \in {"sleep", "join", "exited"}
    BY <1>7 DEF SemaphoreMainStep, StopThreads, JoinThreads, semaphoreVars, programVars, SemInv
  <2>3. SectionInv' /\ UNCHANGED QueueView
    BY <1>0, <2>1, StutterSection
  <2>4. HeldInv' /\ SemaphoresMatchBuffer'
    BY <2>1 DEF SemInv, HeldInv, SemaphoresMatchBuffer, Between, bufferVars, semVars
  <2> QED BY <2>1, <2>2, <2>3, <2>4 DEF SemInv, bufferVars, semVars
<1>8. ASSUME NEW p \in Producers, ProducerStep(p)
      PROVE  SemInv' /\ [Queue!Next]_QueueView
  <2>1. Rest /\ [Queue!Next]_QueueView
    BY <1>1, <1>2, <1>3, <1>4, <1>8 DEF ProducerStep, InsertSection
  <2> QED BY <1>8, <2>1, PutMatch DEF SemInv
<1>9. ASSUME NEW c \in Consumers, ConsumerStep(c)
      PROVE  SemInv' /\ [Queue!Next]_QueueView
  <2>1. Rest /\ [Queue!Next]_QueueView
    BY <1>1, <1>2, <1>5, <1>6, <1>9 DEF ConsumerStep, RemoveSection
  <2> QED BY <1>9, <2>1, TakeMatch DEF SemInv
<1> QED BY <1>7, <1>8, <1>9 DEF SemaphoreNext

(* The program starts in the invariant, with an empty queue. *)
LEMMA SemInit == SemaphoreInit => SemInv /\ Queue!Init
<1> SUFFICES ASSUME SemaphoreInit PROVE SemInv /\ Queue!Init
  OBVIOUS
<1>1. SectionInv /\ Queue!Init
  BY BufferInitInv DEF SemaphoreInit
<1>2. \A t \in Threads : pc[t] = "work"
  BY DEF SemaphoreInit, BufferInit
<1>3. HeldInv
  BY <1>2 DEF SemaphoreInit, HeldInv, Held, Busy
<1>4. SemaphoresMatchBuffer
  <2>1. ASSUME NEW S \in SUBSET Threads, NEW P, "work" \notin P
        PROVE  Between(S, P) = 0
    BY <1>2, <2>1, FS_EmptySet DEF Between
  <2>2. Putting = 0 /\ PutDone = 0 /\ Taking = 0 /\ TakeDone = 0
    BY <2>1 DEF Putting, PutDone, Taking, TakeDone, PutPoints, PutDonePoints, TakePoints,
                TakeDonePoints
  <2> QED BY SMTT(30), <2>2, MatchDef DEF SemaphoreInit, BufferInit
<1> QED BY <1>1, <1>2, <1>3, <1>4 DEF SemaphoreInit, BufferInit, SemInv

LEMMA SemInvariant == SemaphoreSpec => []SemInv
<1>1. SemInv /\ [SemaphoreNext]_semaphoreVars => SemInv'
  BY SemStep
<1> QED BY SemInit, <1>1, PTL DEF SemaphoreSpec

-----------------------------------------------------------------------------
(* The fields keep their types: in particular the semaphores never exceed  *)
(* the size of the buffer and the binary one is 0 or 1 (lines 36-105).     *)
THEOREM SemaphoreTypeCorrect == SemaphoreSpec => []SemaphoreTypeOK
<1>1. ASSUME SemInv PROVE SemaphoreTypeOK
  <2>1. /\ Putting \in Nat /\ PutDone \in Nat /\ Taking \in Nat /\ TakeDone \in Nat
        /\ space_sem = buffer_space - Putting - TakeDone
        /\ items_sem = BUFFER_SIZE - buffer_space - Taking - PutDone
        /\ space_sem \in Nat /\ items_sem \in Nat
    BY <1>1, CountFacts, MatchDef DEF SemInv
  <2>2. BUFFER_SIZE \in Nat /\ buffer_space \in 0 .. BUFFER_SIZE
    BY <1>1 DEF SemInv, SectionInv, BufferTypeOK
  <2>3. space_sem \in 0 .. BUFFER_SIZE /\ items_sem \in 0 .. BUFFER_SIZE
    BY SMTT(30), <2>1, <2>2
  <2> QED BY SMTT(30), <1>1, <2>3 DEF SemInv, SectionInv, BufferTypeOK, HeldInv, SemaphoreTypeOK
<1> QED BY SemInvariant, <1>1, PTL

(* For any threads and buffer size the counting semaphores promise exactly *)
(* the places and items no thread has claimed (lines 50-63, 83-102).       *)
THEOREM SemaphoresMatch == SemaphoreSpec => []SemaphoresMatchBuffer
<1>1. SemInv => SemaphoresMatchBuffer
  BY DEF SemInv
<1> QED BY SemInvariant, <1>1, PTL

(* For any producers, consumers, items and buffer size the program with    *)
(* semaphores implements the bounded first-in first-out queue (lines       *)
(* 36-105).                                                                *)
THEOREM SemaphoreImplementsQueue == SemaphoreSpec => ImplementsQueue
<1>1. SemInv /\ [SemaphoreNext]_semaphoreVars => [Queue!Next]_QueueView
  BY SemStep
<1>2. SemaphoreInit => Queue!Init
  BY SemInit
<1> QED BY SemInvariant, <1>1, <1>2, PTL DEF SemaphoreSpec, ImplementsQueue, Queue!Spec, QueueView

-----------------------------------------------------------------------------
(* The program with a mutex. *)

(* The points between the lock and the unlock. *)
Locked == Busy \cup {"test", "unlock", "unlock and retry"}

(* The holder of the mutex is the thread between lock and unlock, and a    *)
(* producer keeps the item it has made until it is stored.                 *)
MutexInv ==
    /\ SectionInv
    /\ buffer_lock \in Threads \cup {None}
    /\ is_exiting \in BOOLEAN /\ main_pc \in {"sleep", "join", "exited"}
    /\ \A t \in Threads : pc[t] \in Locked <=> buffer_lock = t
    /\ \A p \in Producers :
          pc[p] \in {"loop", "lock", "test", "unlock and retry"} => item[p] \in Items

-----------------------------------------------------------------------------
USE BufferAssumption, NoneAssumption DEF Threads

(* The program starts in the invariant, with an empty queue. *)
LEMMA MutexInitInv == MutexInit => MutexInv /\ Queue!Init
<1> SUFFICES ASSUME MutexInit PROVE MutexInv /\ Queue!Init
  OBVIOUS
<1>1. SectionInv /\ Queue!Init
  BY BufferInitInv DEF MutexInit
<1>2. \A t \in Threads : pc[t] = "work" /\ buffer_lock # t
  BY NoneAssumption DEF MutexInit, BufferInit
<1> QED BY <1>1, <1>2 DEF MutexInit, BufferInit, MutexInv, Locked, Busy

(* A thread outside the sections: nothing but its point, the mutex and a   *)
(* producer's item change.                                                 *)
LEMMA MutexOutside ==
  ASSUME MutexInv, NEW t \in Threads,
         \/ t \in Producers /\ Produce(t)
         \/ t \in Consumers /\ Consume(t)
         \/ LoopTest(t) \/ Lock(t) \/ Unlock(t)
         \/ t \in Producers /\ TestSpace(t)
         \/ t \in Consumers /\ TestItem(t)
  PROVE  MutexInv' /\ UNCHANGED QueueView
<1>0. PICK point \in Points : Goto(t, point)
  BY DEF Produce, Consume, LoopTest, Lock, Unlock, TestSpace, TestItem, Points, Busy
<1>1. /\ UNCHANGED <<buffer, buffer_space, buf_pos, is_exiting, main_pc>>
      /\ item' \in [Threads -> Items \cup {0}]
      /\ \A u \in Threads : u # t \/ t \in Consumers => item'[u] = item[u]
  <2>0. item \in [Threads -> Items \cup {0}]
    BY DEF MutexInv, SectionInv, BufferTypeOK
  <2>1. CASE t \in Producers /\ Produce(t)
    BY <2>0, <2>1 DEF Produce
  <2>2. CASE ~(t \in Producers /\ Produce(t))
    <3>1. UNCHANGED <<bufferVars, is_exiting, main_pc>>
      BY <2>2 DEF Consume, LoopTest, Lock, Unlock, TestSpace, TestItem
    <3> QED BY <2>0, <3>1 DEF bufferVars
  <2> QED BY <2>1, <2>2
<1>2. pc'[t] = point /\ \A u \in Threads \ {t} : pc'[u] = pc[u]
  BY <1>0 DEF Goto, MutexInv, SectionInv, BufferTypeOK
<1>3. pc[t] \notin Busy
  BY DEF Produce, Consume, LoopTest, Lock, Unlock, TestSpace, TestItem, Busy
<1>4. point \in Busy => /\ point = "position" /\ pc[t] = "test"
                        /\ t \in Producers => buffer_space > 0
                        /\ t \in Consumers => buffer_space < BUFFER_SIZE
                        /\ UNCHANGED item
  BY <1>2, ZenonT(60) DEF Produce, Consume, LoopTest, Lock, Unlock, TestSpace, TestItem, Busy,
              buffer_has_space, buffer_has_item, bufferVars, Goto, MutexInv, SectionInv,
              BufferTypeOK
<1>5. ASSUME pc[t] = "test", NEW u \in Threads PROVE pc[u] \notin Busy
  BY <1>5 DEF MutexInv, Locked, Busy
<1>6. ASSUME point \in Busy, t \in Producers PROVE item'[t] \in Items
  BY <1>4, <1>6 DEF MutexInv
<1>7. SectionInv' /\ UNCHANGED QueueView
  <2>1. SectionInv
    BY DEF MutexInv
  <2>2. \/ point \notin Busy
        \/ /\ point = "position"
           /\ \A u \in Threads : pc[u] \notin Busy
           /\ t \in Producers => buffer_space > 0 /\ item'[t] \in Items
           /\ t \in Consumers => buffer_space < BUFFER_SIZE
    BY <1>4, <1>5, <1>6
  <2> QED BY <1>0, <1>1, <1>3, <2>1, <2>2, OutsideStep
<1>8. \A u \in Threads : pc'[u] \in Locked <=> buffer_lock' = u
  <2>0. pc \in [Threads -> Points] /\ \A u \in Threads : pc[u] \in Locked <=> buffer_lock = u
    BY DEF MutexInv, SectionInv, BufferTypeOK
  <2>1. CASE Lock(t)
    <3>1. buffer_lock = None /\ buffer_lock' = t /\ pc'[t] = "test"
      BY <2>0, <2>1 DEF Lock, Goto
    <3> QED BY <1>2, <2>0, <3>1 DEF Locked
  <2>2. CASE Unlock(t)
    <3>1. pc[t] \in Locked /\ buffer_lock' = None /\ pc'[t] \in {"work", "loop"}
      BY <2>0, <2>2 DEF Unlock, Goto, Locked
    <3> QED BY <1>2, <2>0, <3>1 DEF Locked, Busy
  <2>3. CASE ~Lock(t) /\ ~Unlock(t)
    <3>1. UNCHANGED buffer_lock
      BY <2>3 DEF Produce, Consume, LoopTest, TestSpace, TestItem
    <3>2. pc'[t] \in Locked <=> pc[t] \in Locked
      BY <2>0, <2>3
         DEF Produce, Consume, LoopTest, TestSpace, TestItem, Goto, Locked, Busy
    <3> QED BY <1>2, <2>0, <3>1, <3>2
  <2> QED BY <2>1, <2>2, <2>3
<1>9. \A p \in Producers :
        pc'[p] \in {"loop", "lock", "test", "unlock and retry"} => item'[p] \in Items
  <2>0. /\ item \in [Threads -> Items \cup {0}]
        /\ \A p \in Producers :
              pc[p] \in {"loop", "lock", "test", "unlock and retry"} => item[p] \in Items
    BY DEF MutexInv, SectionInv, BufferTypeOK
  <2> SUFFICES ASSUME NEW p \in Producers,
                      pc'[p] \in {"loop", "lock", "test", "unlock and retry"}
               PROVE  item'[p] \in Items
    OBVIOUS
  <2>1. CASE p # t
    BY <1>1, <1>2, <2>0, <2>1
  <2>2. CASE p = t /\ Produce(t)
    BY <2>0, <2>2 DEF Produce
  <2>3. CASE p = t /\ ~Produce(t)
    <3>1. pc[t] \in {"loop", "lock", "test", "unlock and retry"}
      <4>1. CASE Unlock(t)
        <5>1. pc[t] = "unlock" => pc'[t] = "work"
          BY <1>2, <4>1 DEF Unlock, Goto, MutexInv, SectionInv, BufferTypeOK
        <5> QED BY <2>3, <4>1, <5>1 DEF Unlock
      <4>2. CASE ~Unlock(t)
        BY <2>3, <4>2 DEF Consume, LoopTest, Lock, TestSpace, TestItem
      <4> QED BY <4>1, <4>2
    <3>2. UNCHANGED item
      BY <2>3 DEF Consume, LoopTest, Lock, Unlock, TestSpace, TestItem, bufferVars
    <3> QED BY <2>0, <2>3, <3>1, <3>2
  <2> QED BY <2>1, <2>2, <2>3
<1>10. buffer_lock' \in Threads \cup {None}
  BY DEF Produce, Consume, LoopTest, Lock, Unlock, TestSpace, TestItem, MutexInv
<1> QED BY <1>1, <1>7, <1>8, <1>9, <1>10 DEF MutexInv

(* A step of the only thread in a section. *)
LEMMA MutexSection ==
  ASSUME MutexInv, NEW t \in Threads, UNCHANGED <<buffer_lock, is_exiting, main_pc>>,
         pc[t] \in Busy, NEW point \in Busy \cup {"unlock"}, Goto(t, point),
         \A u \in Threads \ {t} : item'[u] = item[u], SectionInv'
  PROVE  MutexInv'
<1>1. pc'[t] = point /\ \A u \in Threads \ {t} : pc'[u] = pc[u]
  BY DEF Goto, MutexInv, SectionInv, BufferTypeOK
<1>2. \A u \in Threads : pc'[u] \in Locked <=> buffer_lock' = u
  BY <1>1 DEF MutexInv, Locked
<1>3. \A p \in Producers :
        pc'[p] \in {"loop", "lock", "test", "unlock and retry"} => item'[p] \in Items
  BY <1>1 DEF MutexInv, Busy
<1> QED BY <1>2, <1>3 DEF MutexInv

(* Every step keeps the invariant and is a step of the queue, or none. *)
LEMMA MutexStep ==
  ASSUME MutexInv, [MutexNext]_mutexVars
  PROVE  MutexInv' /\ [Queue!Next]_QueueView
<1>0. SectionInv
  BY DEF MutexInv
<1>1. ASSUME NEW p \in Producers,
             Produce(p) \/ LoopTest(p) \/ Lock(p) \/ TestSpace(p) \/ Unlock(p)
      PROVE  MutexInv' /\ UNCHANGED QueueView
  BY <1>1, MutexOutside
<1>2. ASSUME NEW c \in Consumers,
             Consume(c) \/ LoopTest(c) \/ Lock(c) \/ TestItem(c) \/ Unlock(c)
      PROVE  MutexInv' /\ UNCHANGED QueueView
  BY <1>2, MutexOutside
<1>3. ASSUME NEW t \in Threads, Position(t), UNCHANGED buffer_lock
      PROVE  MutexInv' /\ UNCHANGED QueueView
  <2>1. SectionInv' /\ UNCHANGED QueueView
    BY <1>0, <1>3, PositionStep
  <2>2. /\ pc[t] \in Busy /\ Goto(t, "update") /\ "update" \in Busy \cup {"unlock"}
        /\ UNCHANGED <<item, is_exiting, main_pc>>
    BY <1>3 DEF Position, Busy
  <2>3. MutexInv'
    BY <1>3, <2>1, <2>2, MutexSection
  <2> QED BY <2>1, <2>3
<1>4. ASSUME NEW p \in Producers, Store(p), UNCHANGED buffer_lock
      PROVE  MutexInv' /\ UNCHANGED QueueView
  <2>1. SectionInv' /\ UNCHANGED QueueView
    BY <1>0, <1>4, StoreStep
  <2>2. /\ pc[p] \in Busy /\ Goto(p, "count") /\ "count" \in Busy \cup {"unlock"}
        /\ UNCHANGED <<is_exiting, main_pc>>
        /\ \A u \in Threads \ {p} : item'[u] = item[u]
    BY <1>0, <1>4 DEF Store, Busy, SectionInv, BufferTypeOK
  <2>3. MutexInv'
    BY <1>4, <2>1, <2>2, MutexSection
  <2> QED BY <2>1, <2>3
<1>5. ASSUME NEW p \in Producers, CountSpace(p), UNCHANGED buffer_lock
      PROVE  MutexInv' /\ Queue!Next
  <2>1. SectionInv' /\ Queue!Next
    BY <1>0, <1>5, CountSpaceStep
  <2>2. /\ pc[p] \in Busy /\ Goto(p, "unlock") /\ UNCHANGED <<item, is_exiting, main_pc>>
    BY <1>5 DEF CountSpace, Busy
  <2>3. MutexInv'
    BY <1>5, <2>1, <2>2, MutexSection
  <2> QED BY <2>1, <2>3
<1>6. ASSUME NEW c \in Consumers, TakeFirst(c), UNCHANGED buffer_lock
      PROVE  MutexInv' /\ Queue!Next
  <2>1. SectionInv' /\ Queue!Next
    BY <1>0, <1>6, TakeFirstStep
  <2>2. /\ pc[c] \in Busy /\ Goto(c, "push up") /\ "push up" \in Busy \cup {"unlock"}
        /\ UNCHANGED <<is_exiting, main_pc>>
        /\ \A u \in Threads \ {c} : item'[u] = item[u]
    BY <1>0, <1>6 DEF TakeFirst, Busy, SectionInv, BufferTypeOK
  <2>3. MutexInv'
    BY <1>6, <2>1, <2>2, MutexSection
  <2> QED BY <2>1, <2>3
<1>7. ASSUME NEW c \in Consumers, PushUp(c), UNCHANGED buffer_lock
      PROVE  MutexInv' /\ UNCHANGED QueueView
  <2>1. SectionInv' /\ UNCHANGED QueueView
    BY <1>0, <1>7, PushUpStep
  <2>2. /\ pc[c] \in Busy /\ Goto(c, "unlock") /\ UNCHANGED <<item, is_exiting, main_pc>>
    BY <1>7 DEF PushUp, Busy
  <2>3. MutexInv'
    BY <1>7, <2>1, <2>2, MutexSection
  <2> QED BY <2>1, <2>3
<1>8. CASE MutexMainStep \/ Exited \/ UNCHANGED mutexVars
  <2>1. UNCHANGED <<bufferVars, pc, buffer_lock>>
    BY <1>8 DEF MutexMainStep, StopThreads, JoinThreads, Exited, mutexVars, programVars
  <2>2. is_exiting' \in BOOLEAN /\ main_pc' \in {"sleep", "join", "exited"}
    BY <1>8 DEF MutexMainStep, StopThreads, JoinThreads, Exited, mutexVars, programVars, MutexInv
  <2>3. SectionInv' /\ UNCHANGED QueueView
    BY <1>0, <2>1, StutterSection
  <2> QED BY <2>1, <2>2, <2>3 DEF MutexInv, bufferVars
<1> QED
  BY <1>1, <1>2, <1>3, <1>4, <1>5, <1>6, <1>7, <1>8
     DEF MutexNext, insert_item, remove_item, InsertSection, RemoveSection

LEMMA MutexInvariant == MutexSpec => []MutexInv
<1>1. MutexInv /\ [MutexNext]_mutexVars => MutexInv'
  BY MutexStep
<1> QED BY MutexInitInv, <1>1, PTL DEF MutexSpec

-----------------------------------------------------------------------------
(* The fields keep their types: in particular every position computed from *)
(* buffer_space is a place of the array (lines 42-105).                    *)
THEOREM MutexTypeCorrect == MutexSpec => []MutexTypeOK
<1>1. MutexInv => MutexTypeOK
  BY DEF MutexInv, SectionInv, BufferTypeOK, MutexTypeOK
<1> QED BY MutexInvariant, <1>1, PTL

(* For any producers, consumers, items and buffer size the polling program *)
(* implements the bounded first-in first-out queue (lines 42-105).         *)
THEOREM MutexImplementsQueue == MutexSpec => ImplementsQueue
<1>1. MutexInv /\ [MutexNext]_mutexVars => [Queue!Next]_QueueView
  BY MutexStep
<1>2. MutexInit => Queue!Init
  BY MutexInitInv
<1> QED BY MutexInvariant, <1>1, <1>2, PTL DEF MutexSpec, ImplementsQueue, Queue!Spec, QueueView

=============================================================================
