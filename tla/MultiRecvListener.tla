-------------------------- MODULE MultiRecvListener -------------------------
(***************************************************************************)
(* src/abstract/receiving/multi_recv_listener.h: forwards what it receives *)
(* to a std::set of listeners, which is ordered by the addresses of the    *)
(* listener objects.  handle_recv walks the set itself and not the copy it *)
(* has made under the mutex, so that the listeners it calls change what it *)
(* walks: a listener sets up or tears down net accesses on the same        *)
(* multi_net_access.                                                       *)
(*                                                                         *)
(* The walk and the calls made from it are one thread's.  A second thread  *)
(* that adds or removes while the walk reads the tree is a data race, which *)
(* is not modelled here.                                                   *)
(***************************************************************************)
EXTENDS ListenerSet, Sequences

CONSTANT MaxVisits   \* bound: calls made in one walk

ASSUME VisitsAssumption == MaxVisits \in Nat

VARIABLES
  called,     \* the listeners called in this walk, in order
  atStart,    \* the listeners registered when this walk started
  removed,    \* the listeners removed since then
  erased      \* the element the walk stands on has been erased

walk_vars == <<listeners, it, called, atStart, removed, erased>>

WalkTypeOK ==
  /\ listeners \subseteq Addr /\ atStart \subseteq Addr /\ removed \subseteq Addr
  /\ it \in Addr \cup {NoWalk}
  /\ called \in Seq(Addr)
  /\ erased \in BOOLEAN

WalkInit ==
  /\ listeners = {} /\ it = NoWalk
  /\ called = <<>> /\ atStart = {} /\ removed = {} /\ erased = FALSE

add_recv_listener(l) ==
  /\ listeners' = listeners \cup {l}
  /\ UNCHANGED <<it, called, atStart, removed, erased>>

remove_all_recv_listeners ==
  /\ listeners' = {}
  /\ removed' = removed \cup listeners
  /\ erased' = (erased \/ it \in listeners)
  /\ UNCHANGED <<it, called, atStart>>

\* A listener that is not there is not removed: the call returns false.
remove_listener(l) ==
  /\ l \in listeners
  /\ listeners' = listeners \ {l}
  /\ removed' = removed \cup {l}
  /\ erased' = (erased \/ it = l)
  /\ UNCHANGED <<it, called, atStart>>

\* The walk calls listener a, or ends.
Visit(a) ==
  /\ it' = a
  /\ called' = IF a = NoWalk THEN called ELSE Append(called, a)

handle_recv ==
  /\ it = NoWalk
  /\ atStart' = listeners
  /\ removed' = {}
  /\ erased' = FALSE
  /\ it' = Successor(listeners, NoWalk)
  /\ called' = IF listeners = {} THEN <<>> ELSE <<it'>>
  /\ UNCHANGED listeners

\* Mutant: the walk goes over the copy made when it started.
next_of_copy ==
  /\ it # NoWalk /\ ~erased
  /\ Visit(Successor(atStart, it))
  /\ UNCHANGED <<listeners, atStart, removed, erased>>

\* Mutant: every second listener is passed over.
next_skips ==
  /\ it # NoWalk /\ ~erased
  /\ LET n == Successor(listeners, it) IN
     Visit(IF n = NoWalk THEN NoWalk ELSE Successor(listeners, n))
  /\ UNCHANGED <<listeners, atStart, removed, erased>>

\* The call returns and the walk goes on to the next element.
next ==
  /\ it # NoWalk /\ ~erased
  /\ Visit(Successor(listeners, it))
  /\ UNCHANGED <<listeners, atStart, removed, erased>>

\* Incrementing an iterator whose element has been erased is undefined: the
\* freed node may still lead to any element, or to the end, for the rest of
\* the walk.
next_from_erased ==
  /\ it # NoWalk /\ erased
  /\ \E a \in {b \in listeners : Len(called) < MaxVisits} \cup {NoWalk} : Visit(a)
  /\ UNCHANGED <<listeners, atStart, removed, erased>>

WalkNext ==
  \/ \E l \in Addr : add_recv_listener(l) \/ remove_listener(l)
  \/ remove_all_recv_listeners
  \/ handle_recv \/ next \/ next_from_erased

WalkSpec == WalkInit /\ [][WalkNext]_walk_vars
-----------------------------------------------------------------------------
\* No listener is called twice in a walk, and at its end every listener that was
\* registered all the while has been called.
CalledAtMostOnce ==
  \A i, j \in 1 .. Len(called) : called[i] = called[j] => i = j
RegisteredThroughoutIsCalled ==
  it = NoWalk => \A l \in atStart \ removed : \E i \in 1 .. Len(called) : called[i] = l

(***************************************************************************)
(* Whatever the listeners that a walk calls add, remove and add again      *)
(* while it goes over the live set, it calls none twice, and when it is    *)
(* over it has called every listener that was registered when it started   *)
(* and has not been removed since: unless one has removed itself.          *)
(***************************************************************************)
EachCalledOnce == ~erased => CalledAtMostOnce /\ RegisteredThroughoutIsCalled

(***************************************************************************)
(* A call goes to a listener that is registered at that moment: one that   *)
(* an earlier call of the same walk removed, and whose net access may be   *)
(* gone, is not called any more.                                           *)
(***************************************************************************)
RemovedIsNotCalled ==
  [][called' # called /\ called' # <<>> /\ ~erased => it' \in listeners]_walk_vars
=============================================================================
