----------------------------- MODULE MCPtpNode ------------------------------
(* Two clients and a server.  The lists: proper one-hop paths, one that    *)
(* names another node as its source, a two-hop one, one with a switch, one *)
(* with an end in the middle, one without a start and one without an end.  *)
EXTENDS PtpNode

MCAddrs == {"c1", "c2", "s"}
MCServers == {"s"}
MCNetIds == {1, 2}
MCLists ==
  {OneHop("c1", "s"), OneHop("c2", "s"),
   <<Start, Conn("c1", "s"), Conn("s", "c2"), End>>,
   <<Start, Switch(1, 2), Conn("c1", "s"), End>>,
   <<Start, Conn("c1", "s"), End, End>>,
   <<Conn("c1", "s"), Conn("c1", "s"), End>>,
   <<Start, Conn("c2", "c1")>>}
=============================================================================
