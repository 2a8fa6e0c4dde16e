---------------------------- MODULE BoundedDeque ----------------------------
(***************************************************************************)
(* What the users of src/utils/circular_queue.h (recv_queue,               *)
(* async_recv_listener, the ping, arp and dns tools) rely on: a            *)
(* double-ended queue that holds at most Capacity elements, refuses a push *)
(* when it is full and a pop when it is empty, and never reorders,         *)
(* duplicates or loses an element.                                         *)
(***************************************************************************)
EXTENDS Integers, Sequences

CONSTANTS
  T,          \* the elements
  Capacity,   \* the most elements held at one time
  Nullptr     \* what a look at an empty queue returns

VARIABLES
  items,      \* the elements, front first
  ret         \* what the last call returned

vars == <<items, ret>>

Ok(val) == [ok |-> TRUE, val |-> val]
Refused == [ok |-> FALSE, val |-> Nullptr]

Init ==
  /\ items = <<>>
  /\ ret = Refused

PushBack(val) ==
  \/ /\ Len(items) < Capacity
     /\ items' = Append(items, val)
     /\ ret' = Ok(Nullptr)
  \/ /\ Len(items) = Capacity
     /\ ret' = Refused
     /\ UNCHANGED items

PushFront(val) ==
  \/ /\ Len(items) < Capacity
     /\ items' = <<val>> \o items
     /\ ret' = Ok(Nullptr)
  \/ /\ Len(items) = Capacity
     /\ ret' = Refused
     /\ UNCHANGED items

PopFront ==
  \/ /\ items # <<>>
     /\ items' = Tail(items)
     /\ ret' = Ok(Nullptr)
  \/ /\ items = <<>>
     /\ ret' = Refused
     /\ UNCHANGED items

PopBack ==
  \/ /\ items # <<>>
     /\ items' = SubSeq(items, 1, Len(items) - 1)
     /\ ret' = Ok(Nullptr)
  \/ /\ items = <<>>
     /\ ret' = Refused
     /\ UNCHANGED items

Front ==
  /\ ret' = IF items = <<>> THEN Refused ELSE Ok(items[1])
  /\ UNCHANGED items

Rear ==
  /\ ret' = IF items = <<>> THEN Refused ELSE Ok(items[Len(items)])
  /\ UNCHANGED items

Clear ==
  /\ items' = <<>>
  /\ UNCHANGED ret

Next ==
  \/ \E val \in T : PushBack(val) \/ PushFront(val)
  \/ PopFront \/ PopBack \/ Front \/ Rear \/ Clear

Spec == Init /\ [][Next]_vars
=============================================================================
