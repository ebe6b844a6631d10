------------------------------ MODULE DataList ------------------------------
(***************************************************************************)
(* What the linked list of workshop/linked-list.c promises: its calls, as  *)
(* operations on one sequence of data, as the head comments of the         *)
(* functions (linked-list.c:35-107) describe them.                         *)
(***************************************************************************)
EXTENDS SequenceEdits

CONSTANTS Data, MaxLen

VARIABLES list, call, returned

dataListVars == <<list, call, returned>>

Calls(op, index, d) == call' = [op |-> op, index |-> index, data |-> d]

Returns(values) == returned' = values

Init ==
    /\ list = <<>>
    /\ call = [op |-> "new", index |-> 0, data |-> 0]
    /\ returned = <<>>

Add(index, d) ==
    /\ Calls("add", index, d) /\ Returns(<<>>)
    /\ Len(list) < MaxLen
    /\ list' = LinkAt(list, index + 1, d)

Append_(d) ==
    /\ Calls("append", 0, d) /\ Returns(<<>>)
    /\ Len(list) < MaxLen
    /\ list' = Append(list, d)

Pop ==
    /\ list # <<>>
    /\ Calls("pop", 0, 0) /\ Returns(<<list[Len(list)]>>)
    /\ list' = UnlinkAt(list, Len(list))

RemoveAt_(index) ==
    /\ Calls("removeat", index, 0) /\ Returns(<<list[index + 1]>>)
    /\ list' = UnlinkAt(list, index + 1)

RemoveFrom(d) ==
    /\ Calls("removefrom", 0, d)
    /\ Returns(<<IF d \in Range(list) THEN 1 ELSE 0>>)
    /\ list' = IF d \in Range(list) THEN UnlinkAt(list, PositionOf(d, list)) ELSE list

GetAt(index) ==
    /\ Calls("getat", index, 0) /\ Returns(<<list[index + 1]>>)
    /\ UNCHANGED list

IndexOf(d) ==
    /\ Calls("indexof", 0, d)
    /\ Returns(<<PositionOf(d, list) - 1>>)
    /\ UNCHANGED list

ToArray ==
    /\ Calls("toarray", 0, 0) /\ Returns(list)
    /\ UNCHANGED list

Free ==
    /\ Calls("free", 0, 0) /\ Returns(<<>>)
    /\ list' = <<>>

Next ==
    \/ \E d \in Data :
          \/ Append_(d) \/ RemoveFrom(d) \/ IndexOf(d)
          \/ \E index \in 0 .. Len(list) : Add(index, d)
    \/ \E index \in 0 .. Len(list) - 1 : RemoveAt_(index) \/ GetAt(index)
    \/ Pop \/ ToArray \/ Free

Spec == Init /\ [][Next]_dataListVars

=============================================================================
