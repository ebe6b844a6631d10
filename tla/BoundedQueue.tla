---------------------------- MODULE BoundedQueue ----------------------------
(***************************************************************************)
(* What the two producer-consumer programs promise: a first-in first-out   *)
(* queue of at most BUFFER_SIZE items, from which every consumer takes the *)
(* oldest item.                                                            *)
(***************************************************************************)
EXTENDS Integers, Sequences

CONSTANTS Consumers, Items, BUFFER_SIZE

VARIABLES
    queue,
    taken      \* the item each consumer took last, 0 before the first

Init ==
    /\ queue = <<>>
    /\ taken = [c \in Consumers |-> 0]

Put(x) ==
    /\ Len(queue) < BUFFER_SIZE
    /\ queue' = Append(queue, x)
    /\ UNCHANGED taken

Get(c) ==
    /\ queue # <<>>
    /\ taken' = [taken EXCEPT ![c] = Head(queue)]
    /\ queue' = Tail(queue)

Next == (\E x \in Items : Put(x)) \/ (\E c \in Consumers : Get(c))

Spec == Init /\ [][Next]_<<queue, taken>>

=============================================================================
