---------------------------- MODULE MCVirtualNet ----------------------------
(* One of the two asking nodes answers as well, so that with one request   *)
(* each a sender already meets a full queue whose receiver waits for the   *)
(* lock: c1 asks, c2 and s both want to answer, c2's main thread sends and *)
(* fills the queue of s, and c2's answer then waits for s.                 *)
EXTENDS VirtualNet

CONSTANTS c1, c2, s

MCNodes == {c1, c2, s}
MCAsking == {c1, c2}
MCAnswering == {c2, s}
MCPair == {c1, s}      \* the smaller network of virtual_net_blocked
MCOneAsking == {c1}
MCOneAnswering == {s}
=============================================================================
