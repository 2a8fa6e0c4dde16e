------------------------------- MODULE PtpNode ------------------------------
(***************************************************************************)
(* The path traveling protocol (src/protocols/ptp): a packet carries the   *)
(* list of the actions of its path and the index of the current one, and a *)
(* node works the list off as far as it concerns it.  netcat_local_ptp     *)
(* puts a client and a server on one broadcast medium; the server answers  *)
(* along the reversed path.                                                *)
(*                                                                         *)
(* The payload is left out: a packet and its answer differ in their paths. *)
(***************************************************************************)
EXTENDS Integers, Sequences, FiniteSets

CONSTANTS
  Addrs,      \* node addresses; a node is named by its address
  Servers,    \* the nodes that answer what reaches an endpoint
  NetIds,     \* the networks a net_switch names
  Lists,      \* the action lists clients are started with
  MaxSends    \* bound: packets sent by the clients

ActionTypes == {"endpoint", "local_conn", "net_switch"}

Action ==
  [type : {"endpoint"}, src : {"none"}, dest : {"start", "end"}]
    \cup [type : {"local_conn"}, src : Addrs, dest : Addrs]
    \cup [type : {"net_switch"}, src : NetIds, dest : NetIds]

Start == [type |-> "endpoint", src |-> "none", dest |-> "start"]
End == [type |-> "endpoint", src |-> "none", dest |-> "end"]
Conn(a, b) == [type |-> "local_conn", src |-> a, dest |-> b]
Switch(i, j) == [type |-> "net_switch", src |-> i, dest |-> j]

ASSUME PtpAssumption ==
  /\ Servers \subseteq Addrs
  /\ Lists \subseteq Seq(Action) \ {<<>>}
  /\ \A list \in Lists : Len(list) < 256   \* or write_in_network_order throws
  /\ MaxSends \in Nat

VARIABLES
  wire,       \* packets under way: [to, header]
  delivered,  \* headers handed to the accesses of each node
  terminated, \* nodes whose process std::terminate has ended
  started     \* the lists each client has sent a packet along

vars == <<wire, delivered, terminated, started>>

Header == [actions : Seq(Action), curr_action : Nat, no_jumps : 0 .. 255]

TypeOK ==
  /\ wire \subseteq [to : Addrs, header : Header]
  /\ delivered \in [Addrs -> SUBSET Header]
  /\ terminated \subseteq Addrs
  /\ started \in [Addrs -> SUBSET Lists]

Init ==
  /\ wire = {}
  /\ delivered = [n \in Addrs |-> {}]
  /\ terminated = {}
  /\ started = [n \in Addrs |-> {}]

-----------------------------------------------------------------------------
(* src/protocols/ptp/ptp_header.cpp *)

create_reverse_endpoint(a) == IF a.dest = "start" THEN End ELSE Start

\* Mutant: an endpoint is left as it is.
create_reverse_action_keep(a) ==
  IF a.type = "endpoint" THEN a
  ELSE [type |-> a.type, src |-> a.dest, dest |-> a.src]

create_reverse_action(a) ==
  IF a.type = "endpoint" THEN create_reverse_endpoint(a)
  ELSE [type |-> a.type, src |-> a.dest, dest |-> a.src]

create_reverse_actions(actions) ==
  [i \in 1 .. Len(actions) |->
     create_reverse_action(actions[Len(actions) + 1 - i])]

\* Sequences count from 1, curr_action from 0.
ActionAt(actions, i) == actions[i + 1]

ptp_is_endpoint_end(header) ==
  /\ header.curr_action = Len(header.actions) - 1
  /\ ActionAt(header.actions, header.curr_action) = End

-----------------------------------------------------------------------------
(* net_access_single's send_data; virtual_net hands what is sent to every  *)
(* other node.                                                             *)

send_data(n, list) ==
  LET header == [actions |-> list, curr_action |-> 1, no_jumps |-> 1]
  IN  {[to |-> m, header |-> header] : m \in Addrs \ {n}}

Sends == {s \in Addrs \X Lists : s[2] \in started[s[1]]}

send(n, list) ==
  /\ Cardinality(Sends) < MaxSends
  /\ n \notin Servers \cup terminated
  /\ list \notin started[n]
  /\ started' = [started EXCEPT ![n] = @ \cup {list}]
  /\ wire' = wire \cup send_data(n, list)
  /\ UNCHANGED <<delivered, terminated>>

-----------------------------------------------------------------------------
(* node::handle_packet *)

\* Mutant: a node takes a connection that starts at it for its own.
passes_src(a, n) == a = Start \/ (a.type = "local_conn" /\ a.src = n)

\* The actions node n is done with: handle_packet goes on to the next one.
passes(a, n) == a = Start \/ (a.type = "local_conn" /\ a.dest = n)

\* Mutant: an end does not stop the node either.
StopsAtPastEnd(header, n) ==
  LET stops == {i \in header.curr_action .. Len(header.actions) - 1 :
                  LET a == ActionAt(header.actions, i)
                  IN  ~passes(a, n) /\ a # End}
  IN  IF stops = {} THEN Len(header.actions)
      ELSE CHOOSE i \in stops : \A j \in stops : i <= j

\* The index of the action at which node n stops working the list off; past
\* the end of the list, get_curr_action executes a throw with nothing to
\* rethrow, which ends the process.
StopsAt(header, n) ==
  LET stops == {i \in header.curr_action .. Len(header.actions) - 1 :
                  ~passes(ActionAt(header.actions, i), n)}
  IN  IF stops = {} THEN Len(header.actions)
      ELSE CHOOSE i \in stops : \A j \in stops : i <= j

\* The header as handle_recv and handle_packet leave it.
HeaderAt(header, n) ==
  [header EXCEPT !.curr_action = StopsAt(header, n),
                 !.no_jumps = (@ + 1) % 256]

\* The packet is handed to recv_endpoint_end and passes the filter there.
Arrives(header, n) ==
  /\ StopsAt(header, n) < Len(header.actions)
  /\ ActionAt(header.actions, StopsAt(header, n)) = End
  /\ ptp_is_endpoint_end(HeaderAt(header, n))

\* The handler of the server answers before handle_recv returns.
receive_end(p) ==
  /\ p.to \notin terminated
  /\ Arrives(p.header, p.to)
  /\ delivered' = [delivered EXCEPT ![p.to] = @ \cup {HeaderAt(p.header, p.to)}]
  /\ wire' = (wire \ {p}) \cup
       (IF p.to \in Servers
        THEN send_data(p.to, create_reverse_actions(p.header.actions))
        ELSE {})
  /\ UNCHANGED <<terminated, started>>

\* A connection to another node, a net_switch, or an end that is not the
\* last action: the packet is dropped.
receive_drop(p) ==
  /\ p.to \notin terminated
  /\ StopsAt(p.header, p.to) < Len(p.header.actions)
  /\ ~Arrives(p.header, p.to)
  /\ wire' = wire \ {p}
  /\ UNCHANGED <<delivered, terminated, started>>

receive_throw(p) ==
  /\ p.to \notin terminated
  /\ StopsAt(p.header, p.to) = Len(p.header.actions)
  /\ terminated' = terminated \cup {p.to}
  /\ wire' = wire \ {p}
  /\ UNCHANGED <<delivered, started>>

Receive(n) ==
  \E p \in wire :
    p.to = n /\ (receive_end(p) \/ receive_drop(p) \/ receive_throw(p))

Next ==
  \/ \E n \in Addrs : \E list \in Lists : send(n, list)
  \/ \E n \in Addrs : Receive(n)

Spec == Init /\ [][Next]_vars

\* virtual_net loses nothing between live processes, and their receiving
\* threads run.
FairSpec == Spec /\ \A n \in Addrs : WF_vars(Receive(n))
-----------------------------------------------------------------------------
(***************************************************************************)
(* Nothing is delivered at a node that is not where the path leads: every  *)
(* connection after the first action ends at that node.                    *)
(***************************************************************************)
DeliveredAtDestination ==
  \A n \in Addrs : \A h \in delivered[n] :
    \A i \in 1 .. Len(h.actions) - 1 :
      ActionAt(h.actions, i).type = "local_conn" =>
        ActionAt(h.actions, i).dest = n

(***************************************************************************)
(* A process is ended only by a packet along a path that the node would    *)
(* work off to beyond its last action, or by the answer to one whose       *)
(* reversed path is such a path (it did not begin with a start): a path    *)
(* from a start to an end ends nobody's process, the sender's included.    *)
(***************************************************************************)
Endless(list, n) == \A i \in 2 .. Len(list) : passes(list[i], n)

TerminatedByEndlessPath ==
  \A n \in terminated : \E m \in Addrs : \E list \in started[m] :
    Endless(list, n) \/ Endless(create_reverse_actions(list), n)

(***************************************************************************)
(* A packet sent from its source's address along a one-hop path to a       *)
(* server is answered: the reversed path leads back to the client and ends *)
(* there.  Only a path that does not run from a start to an end, sent by   *)
(* anyone, can prevent it, by ending one of the two processes.             *)
(***************************************************************************)
OneHop(a, b) == <<Start, Conn(a, b), End>>

Proper(list) == list[1] = Start /\ list[Len(list)] = End

Answered(c, s) ==
  \E h \in delivered[c] : h.actions = OneHop(s, c)

Prevented(c, s) ==
  /\ terminated \cap {c, s} # {}
  /\ \E m \in Addrs : \E list \in started[m] : ~Proper(list)

RoundTrip ==
  \A c \in Addrs \ Servers, s \in Servers :
    OneHop(c, s) \in started[c] ~> (Answered(c, s) \/ Prevented(c, s))
=============================================================================
