----------------------------- MODULE LinkedList -----------------------------
(***************************************************************************)
(* The singly linked list of workshop/linked-list.c at the level of its    *)
(* pointers.  heap maps every allocated node to its two fields; malloc may *)
(* return any node that is not allocated.  One action is one call; its     *)
(* guard is the assertion at the start of the function.  call and returned *)
(* record the last call and what it returned: no value, one, or an array.  *)
(***************************************************************************)
EXTENDS SequenceEdits, FiniteSets

CONSTANTS
    Nodes,      \* the addresses malloc may return
    Data,       \* the values of data_t used
    NULL

ASSUME ListAssumption == NULL \notin Nodes /\ IsFiniteSet(Nodes) /\ Data \subseteq Int

VARIABLES heap, head, foot, size, call, returned

listVars == <<heap, head, foot, size, call, returned>>

ListInit ==
    /\ heap = <<>>
    /\ head = NULL /\ foot = NULL /\ size = 0
    /\ call = [op |-> "new", index |-> 0, data |-> 0]
    /\ returned = <<>>

-----------------------------------------------------------------------------
IsConsistent == (head = NULL) = (foot = NULL) /\ (foot = NULL) = (size = 0)

(* The node i steps after the head; index i of the list. *)
NodeAt(i) ==
    LET at[k \in 0 .. i] == IF k = 0 THEN head ELSE heap[at[k - 1]].next
    IN  at[i]

(* The nodes a loop from the head to NULL visits, in order. *)
Walk ==
    LET upTo == CHOOSE n \in 0 .. Cardinality(Nodes) :
                  NodeAt(n) = NULL /\ \A m \in 0 .. n - 1 : NodeAt(m) # NULL
    IN  [i \in 1 .. upTo |-> NodeAt(i - 1)]

Contents == [i \in 1 .. Len(Walk) |-> heap[Walk[i]].data]

Malloc == Nodes \ DOMAIN heap

Node(d, n) == [data |-> d, next |-> n]

With(h, node, value) == [n \in DOMAIN h \cup {node} |-> IF n = node THEN value ELSE h[n]]

Without(h, node) == [n \in DOMAIN h \ {node} |-> h[n]]

Link(h, from, to) == [h EXCEPT ![from].next = to]

Called(op, index, d, values) ==
    /\ call' = [op |-> op, index |-> index, data |-> d]
    /\ returned' = values

Observes(op, index, d, values) ==
    /\ Called(op, index, d, values)
    /\ UNCHANGED <<heap, head, foot, size>>

-----------------------------------------------------------------------------
AddOnly(node, d) ==
    /\ heap' = With(heap, node, Node(d, NULL))
    /\ head' = node /\ foot' = node /\ size' = 1

AddFoot(node, d) ==
    /\ heap' = With(Link(heap, foot, node), node, Node(d, NULL))
    /\ foot' = node /\ size' = size + 1
    /\ UNCHANGED head

AppendLinkedList(d) ==
    /\ IsConsistent
    /\ \E node \in Malloc :
          IF size = 0 THEN AddOnly(node, d) ELSE AddFoot(node, d)
    /\ Called("append", 0, d, <<>>)

AddHead(node, d) ==
    /\ heap' = With(heap, node, Node(d, head))
    /\ head' = node /\ size' = size + 1
    /\ UNCHANGED foot

(* Faulty variant: the loop counts from 1. *)
AddMiddle_FromOne(node, index, d) ==
    LET nodei == NodeAt(IF index = 1 THEN 0 ELSE index - 2)
    IN  /\ heap' = With(Link(heap, nodei, node), node, Node(d, heap[nodei].next))
        /\ size' = size + 1
        /\ UNCHANGED <<head, foot>>

AddMiddle(node, index, d) ==
    LET nodei == NodeAt(index - 1)
    IN  /\ heap' = With(Link(heap, nodei, node), node, Node(d, heap[nodei].next))
        /\ size' = size + 1
        /\ UNCHANGED <<head, foot>>

AddLinkedList(index, d) ==
    /\ size >= index /\ IsConsistent
    /\ \E node \in Malloc :
          CASE size = 0 -> AddOnly(node, d)
            [] size # 0 /\ index = 0 -> AddHead(node, d)
            [] size # 0 /\ index = size -> AddFoot(node, d)
            [] OTHER -> AddMiddle(node, index, d)
    /\ Called("add", index, d, <<>>)

(* No node comes before the only one, which therefore stays. *)
PopLinkedList ==
    /\ head # NULL /\ IsConsistent
    /\ Called("pop", 0, 0, <<heap[foot].data>>)
    /\ LET before == {n \in Range(Walk) : heap[n].next = foot}
       IN  IF before = {}
           THEN UNCHANGED <<heap, foot, size>>
           ELSE \E node \in before :
                   /\ heap' = Link(Without(heap, foot), node, NULL)
                   /\ foot' = node /\ size' = size - 1
    /\ UNCHANGED head

RemoveOnly ==
    /\ heap' = Without(heap, head)
    /\ head' = NULL /\ foot' = NULL /\ size' = 0

RemoveHead ==
    /\ heap' = Without(heap, head)
    /\ head' = heap[head].next /\ size' = size - 1
    /\ UNCHANGED foot

(* Faulty variant: the foot is not moved when it is the node removed. *)
RemoveAfter_KeepsFoot(prev, isFoot) ==
    LET node == heap[prev].next
    IN  /\ heap' = Without(Link(heap, prev, heap[node].next), node)
        /\ size' = size - 1
        /\ UNCHANGED <<head, foot>>

RemoveAfter(prev, isFoot) ==
    LET node == heap[prev].next
    IN  /\ heap' = Without(Link(heap, prev, heap[node].next), node)
        /\ foot' = IF isFoot THEN prev ELSE foot
        /\ size' = size - 1
        /\ UNCHANGED head

RemoveAtLinkedList(index) ==
    /\ size > index /\ IsConsistent
    /\ Called("removeat", index, 0, <<heap[NodeAt(index)].data>>)
    /\ IF size = 1 THEN RemoveOnly
       ELSE IF index = 0 THEN RemoveHead
       ELSE RemoveAfter(NodeAt(index - 1), index = size - 1)

RemoveFromLinkedList(d) ==
    LET i == PositionOf(d, Contents)
    IN  /\ IsConsistent
        /\ Called("removefrom", 0, d, <<IF i = 0 THEN 0 ELSE 1>>)
        /\ IF i = 0 THEN UNCHANGED <<heap, head, foot, size>>
           ELSE IF size = 1 THEN RemoveOnly
           ELSE IF Walk[i] = head THEN RemoveHead
           ELSE RemoveAfter(Walk[i - 1], Walk[i] = foot)

GetAtLinkedList(index) ==
    /\ head # NULL /\ size > index
    /\ Observes("getat", index, 0, <<heap[NodeAt(index)].data>>)

IndexOfLinkedList(d) ==
    Observes("indexof", 0, d, <<PositionOf(d, Contents) - 1>>)

ToArrayLinkedList == Observes("toarray", 0, 0, Contents)

(* freelinkedlist, followed by newlinkedlist. *)
FreeLinkedList ==
    /\ heap' = [n \in DOMAIN heap \ Range(Walk) |-> heap[n]]
    /\ head' = NULL /\ foot' = NULL /\ size' = 0
    /\ Called("free", 0, 0, <<>>)

ListNext ==
    \/ \E d \in Data :
          \/ AppendLinkedList(d)
          \/ RemoveFromLinkedList(d)
          \/ IndexOfLinkedList(d)
          \/ \E index \in 0 .. size : AddLinkedList(index, d)
    \/ \E index \in 0 .. size - 1 : RemoveAtLinkedList(index) \/ GetAtLinkedList(index)
    \/ PopLinkedList
    \/ ToArrayLinkedList
    \/ FreeLinkedList

ListSpec == ListInit /\ [][ListNext]_listVars

-----------------------------------------------------------------------------
(* After every call the nodes from the head lead to the foot and end there, *)
(* size counts them, and they are all the nodes ever allocated and not      *)
(* freed: no call loses, leaks or frees a node too early.  This is what     *)
(* isconsistentlinkedlist (lines 112-119) only samples and what the         *)
(* assertions inside the loops (174, 268, 356, 365) rely on.                *)
NodesFormTheList ==
    /\ IsConsistent
    /\ Len(Walk) = size
    /\ Range(Walk) = DOMAIN heap
    /\ size > 0 => Walk[size] = foot

Abstract == INSTANCE DataList WITH list <- Contents, MaxLen <- Cardinality(Nodes)

(* The one call that departs from its comment: a pop of the only element    *)
(* returns it and leaves it in the list.                                    *)
PopKeepsTheOnly ==
    /\ Len(Contents) = 1
    /\ Abstract!Calls("pop", 0, 0) /\ Abstract!Returns(<<Contents[1]>>)
    /\ Contents' = Contents

(* Every call, however the calls are mixed, does to the list what the       *)
(* comments of lines 35-107 say it does to a sequence, and returns the      *)
(* value they say; the one exception is the pop of the only element.        *)
ImplementsDataList ==
    Abstract!Init /\ [][Abstract!Next \/ PopKeepsTheOnly]_(Abstract!dataListVars)

(* "Return and remove the data at the end of the linked list" (line 72):    *)
(* every poplinkedlist (281-308) takes the last element out.                *)
PopRemovesTheEnd == [][PopLinkedList => Abstract!Pop]_listVars

=============================================================================
