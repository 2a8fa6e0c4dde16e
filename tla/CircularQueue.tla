---------------------------- MODULE CircularQueue ---------------------------
(***************************************************************************)
(* src/utils/circular_queue.h: a ring of BUFF_SZ slots, the index base_in  *)
(* of the front element and the number count of elements.  The calls are   *)
(* made one at a time here; the users that share a queue between threads   *)
(* without a lock are modelled with those users.                           *)
(***************************************************************************)
EXTENDS Integers, Sequences

CONSTANTS
  T,          \* the element type
  Default,    \* a default-constructed T, what a slot holds at first
  Nullptr,    \* the null pointer front() and rear() return on a timeout
  BUFF_SZ     \* the number of slots (2000 unless the user says otherwise)

ASSUME BuffSzAssumption == BUFF_SZ \in Nat \ {0}

ASSUME ElementAssumption == Default \in T /\ Nullptr \notin T

VARIABLES
  buff,       \* T buff[BUFF_SZ]
  base_in,    \* int base_in
  count,      \* int count
  ret         \* what the last call returned: a bool, and the element a
              \* returned pointer points to

vars == <<buff, base_in, count, ret>>

Slots == 0 .. BUFF_SZ - 1

Ok(val) == [ok |-> TRUE, val |-> val]
Refused == [ok |-> FALSE, val |-> Nullptr]

TypeOK ==
  /\ buff \in [Slots -> T]
  /\ base_in \in Slots
  /\ count \in 0 .. BUFF_SZ
  /\ ret \in [ok : BOOLEAN, val : T \cup {Nullptr}]

Init ==
  /\ buff = [i \in Slots |-> Default]
  /\ base_in = 0
  /\ count = 0
  /\ ret = Refused

is_empty == count = 0
is_full == count = BUFF_SZ

(***************************************************************************)
(* front() and rear() poll until the queue is not empty or the timeout     *)
(* has passed.  With no other thread pushing, only the timeout ends the    *)
(* wait on an empty queue.                                                 *)
(***************************************************************************)
front ==
  /\ ret' = IF is_empty THEN Refused ELSE Ok(buff[base_in])
  /\ UNCHANGED <<buff, base_in, count>>

rear ==
  /\ ret' = IF is_empty THEN Refused
            ELSE Ok(buff[(base_in + count - 1) % BUFF_SZ])
  /\ UNCHANGED <<buff, base_in, count>>

\* Mutant: the front index is not wrapped around.
pop_front_no_wrap ==
  \/ /\ is_empty
     /\ ret' = Refused
     /\ UNCHANGED <<buff, base_in, count>>
  \/ /\ ~is_empty
     /\ base_in' = base_in + 1
     /\ count' = count - 1
     /\ ret' = Ok(Nullptr)
     /\ UNCHANGED buff

pop_front ==
  \/ /\ is_empty
     /\ ret' = Refused
     /\ UNCHANGED <<buff, base_in, count>>
  \/ /\ ~is_empty
     /\ base_in' = (base_in + 1) % BUFF_SZ
     /\ count' = count - 1
     /\ ret' = Ok(Nullptr)
     /\ UNCHANGED buff

pop_back ==
  \/ /\ is_empty
     /\ ret' = Refused
     /\ UNCHANGED <<buff, base_in, count>>
  \/ /\ ~is_empty
     /\ count' = count - 1
     /\ ret' = Ok(Nullptr)
     /\ UNCHANGED <<buff, base_in>>

clear ==
  /\ count' = 0
  /\ UNCHANGED <<buff, base_in, ret>>

push_back(val) ==
  \/ /\ is_full
     /\ ret' = Refused
     /\ UNCHANGED <<buff, base_in, count>>
  \/ /\ ~is_full
     /\ buff' = [buff EXCEPT ![(base_in + count) % BUFF_SZ] = val]
     /\ count' = count + 1
     /\ ret' = Ok(Nullptr)
     /\ UNCHANGED base_in

\* Mutant: push_front writes the slot base_in pointed to before it moved.
push_front_late_move(val) ==
  \/ /\ is_full
     /\ ret' = Refused
     /\ UNCHANGED <<buff, base_in, count>>
  \/ /\ ~is_full
     /\ base_in' = (base_in - 1 + BUFF_SZ) % BUFF_SZ
     /\ buff' = [buff EXCEPT ![base_in] = val]
     /\ count' = count + 1
     /\ ret' = Ok(Nullptr)

push_front(val) ==
  \/ /\ is_full
     /\ ret' = Refused
     /\ UNCHANGED <<buff, base_in, count>>
  \/ /\ ~is_full
     /\ base_in' = (base_in - 1 + BUFF_SZ) % BUFF_SZ
     /\ buff' = [buff EXCEPT ![base_in'] = val]
     /\ count' = count + 1
     /\ ret' = Ok(Nullptr)

Next ==
  \/ \E val \in T : push_back(val) \/ push_front(val)
  \/ pop_front \/ pop_back \/ front \/ rear \/ clear

Spec == Init /\ [][Next]_vars

(***************************************************************************)
(* The comment of circular_queue.h: "the current buffer is                 *)
(* [base_in, base_in + count), (circular indexes)".                        *)
(***************************************************************************)
Contents == [i \in 1 .. count |-> buff[(base_in + i - 1) % BUFF_SZ]]

Deque == INSTANCE BoundedDeque WITH items <- Contents, Capacity <- BUFF_SZ

(***************************************************************************)
(* Read through Contents, every call of the ring does what the same call   *)
(* of a bounded double-ended queue does: the index arithmetic of           *)
(* push_front, push_back and pop_front never overwrites a live slot, skips *)
(* one or reorders two, wherever in the ring the contents lie.             *)
(***************************************************************************)
ImplementsDeque == Deque!Spec
=============================================================================
