---------------------------- MODULE ListenerSet -----------------------------
(***************************************************************************)
(* The set of listeners of a multi_recv_listener (src/abstract/receiving/  *)
(* multi_recv_listener.h) and the place of the walk that handle_recv makes *)
(* over it: a std::set of pointers, ordered by the addresses of the        *)
(* listener objects.                                                       *)
(***************************************************************************)
EXTENDS Integers, FiniteSets, FiniteSetsExt

CONSTANT Addr   \* the addresses of listener objects

ASSUME AddrAssumption == Addr \subseteq Nat \ {0}

NoWalk == 0

VARIABLES
  listeners,    \* set<shared_ptr<recv_listener>> listeners
  it            \* the listener the walk is calling, or NoWalk

\* The first element of S after address a, NoWalk if there is none.
Successor(S, a) ==
  LET later == {b \in S : b > a} IN
  IF later = {} THEN NoWalk ELSE Min(later)
=============================================================================
