--------------------------- MODULE ProtocolStack ---------------------------
(***************************************************************************)
(* The programs that stack the protocols: a server that generates a        *)
(* net_access for every packet, and its clients, on one broadcast medium.  *)
(* In a behaviour all nodes run the same program:                          *)
(*   netcat_local_ether2, netcat_local_ip4: one protocol on the medium;    *)
(*     the server's listener neither answers nor keeps the access;         *)
(*   dns: dns_client and dns_server, udp on ip4 on ether2, where ip4 is    *)
(*     sent through a routing table whose default gateway is one fixed     *)
(*     node; the server generates an ip4 access, on it a udp access, keeps *)
(*     both in cycles of shared_ptr, and answers;                          *)
(*   eap, emp, nsp: the protocols no program of the repository uses; what  *)
(*     a listener does with a new access is left open.                     *)
(***************************************************************************)
EXTENDS Integers, Sequences, FiniteSets, Protocols

CONSTANTS
  Server,     \* the server's address (at every layer)
  Gateway,    \* the node that c4:eb:42:ed:c5:b7 stands for
  Clients,    \* the clients' addresses
  Dials,      \* the address each client takes for the server's
  Prots,      \* the protocol each client uses
  Prot,       \* the server's protocol
  Programs,   \* the programs checked
  MaxSends    \* bound: packets the clients send

Nodes == Clients \cup {Server, Gateway}

ASSUME StackAssumption ==
  /\ Server \notin Clients /\ Gateway \notin Clients /\ Server # Gateway
  /\ {Nullopt, Empty, Everyone} \cap Nodes = {}
  /\ Dials \in [Clients -> Clients \cup {Server}] /\ DOMAIN Prots = Clients
  /\ Nullopt \notin {Prot, "ip4", "53", "1234"} \cup {Prots[c] : c \in Clients}
  /\ Programs \subseteq {"netcat_local_ether2", "netcat_local_ip4", "dns", "eap", "emp", "nsp"}
  /\ MaxSends \in Nat

VARIABLES
  program,    \* what the nodes run
  inbox,      \* the frames waiting at each node
  slot,       \* what the recv_access of the server's surface leads to
  connected,  \* connect_net_access_generator_listener has returned
  multi_recv, \* the numbers of the accesses whose filters multi_recv holds
  sends,      \* the clients' packets: who sent them
  late,       \* those sent once the server was connected
  delivered,  \* <<access, no>> for every call of a recv_access at the server;
              \* an access has the number of the packet it was generated for
  answered,   \* the packets the server's listener has answered
  answers     \* the answers handed to the recv_access of each client

vars == <<program, inbox, slot, connected, multi_recv, sends, late, delivered,
          answered, answers>>
-----------------------------------------------------------------------------
(* The stacks.  medium: the access to the virtual net or the interface.    *)

medium == net_access_make_empty

netcat_ether2_client(c) == ether2_single(medium, Dials[c], c, Prots[c])
netcat_ether2_server == <<ether2_generator(Server, Prot)>>

netcat_ip4_client(c) == ip4_single(medium, Dials[c], c, Prots[c])
netcat_ip4_server == <<ip4_generator(Server, Prot)>>

\* The surface of dns_client and dns_server: all ip4 packets leave through the
\* default gateway, those addressed to this node's mac address come in.
\* (The programs still call net_access_override_send by an earlier name,
\* net_access_save_send_access.)
routing_table(n) == [rules |-> <<>>,
                     default_gateway |-> ether2_single(medium, Gateway, n, "ip4")]
ip4_surface(n) ==
  net_access_override_send(
    ether2_broadcast(medium, n, "ip4"),
    find_route(routing_table(n), {}))

dns_client(c) ==
  udp_single(ip4_single(ip4_surface(c), Dials[c], c, Prots[c]), "53", "1234")
dns_server == <<ip4_generator(Server, Prot), udp_generator("53")>>

client(c) ==
  CASE program = "netcat_local_ether2" -> netcat_ether2_client(c)
    [] program = "netcat_local_ip4" -> netcat_ip4_client(c)
    [] program = "dns" -> dns_client(c)
    [] program = "eap" -> eap_single(medium, Dials[c], c, Prots[c])
    [] program = "emp" -> emp_single(medium, Dials[c], c)
    [] program = "nsp" -> nsp_single(medium, Dials[c], c)

generators ==
  CASE program = "netcat_local_ether2" -> netcat_ether2_server
    [] program = "netcat_local_ip4" -> netcat_ip4_server
    [] program = "dns" -> dns_server
    [] program = "eap" -> <<eap_generator(Server, Prot)>>
    [] program = "emp" -> <<emp_generator(Server)>>
    [] program = "nsp" -> <<nsp_generator(Server)>>

\* The surface the first generator is connected to.
surface == IF program = "dns" THEN ip4_surface(Server) ELSE medium

\* The access generated for a packet with these headers: a second generator
\* adds one on top of the access of the first.
access(headers) ==
  LET base == Len(surface.recv)
      lower == generated(generators[1], surface, headers[base + 1])
  IN  IF Len(generators) = 1 THEN lower ELSE generated(generators[2], lower, headers[base + 2])

\* A packet with these headers comes through all the generators.
generates(headers) ==
  reaches([send |-> <<>>, recv |-> surface.recv \o generators], headers)
-----------------------------------------------------------------------------
Frame == [headers : Seq([src : Nodes \cup {"53", "1234", Empty}, dest : Nodes \cup {"53", "1234"},
                         prot : {Nullopt, Prot, Empty, "ip4"} \cup {Prots[c] : c \in Clients}]),
          no : 1 .. MaxSends, answer : BOOLEAN]

TypeOK ==
  /\ program \in Programs
  /\ inbox \in [Nodes -> Seq(Frame)]
  /\ slot \subseteq {"multi_recv", "generator"}
  /\ connected \in BOOLEAN
  /\ multi_recv \subseteq 1 .. MaxSends /\ answered \subseteq 1 .. MaxSends
  /\ sends \in Seq(Clients) /\ late \subseteq 1 .. Len(sends)
  /\ delivered \in Seq((1 .. MaxSends) \X (1 .. MaxSends))
  /\ answers \in [Clients -> Seq(1 .. MaxSends)]

Init ==
  /\ program \in Programs
  /\ inbox = [n \in Nodes |-> <<>>]
  /\ slot = {} /\ connected = FALSE
  /\ multi_recv = {} /\ late = {} /\ answered = {}
  /\ sends = <<>> /\ delivered = <<>>
  /\ answers = [c \in Clients |-> <<>>]

\* The clients' filters and the gateway's never change: a frame they drop
\* when it arrives is left out of their queues.
hears(n, headers) ==
  \/ n = Server
  \/ n \in Clients /\ reaches(client(n), headers)
  \/ n = Gateway /\ program = "dns" /\ headers[1].dest = Gateway

\* What node n sends, so many times, is put into the queue of every other node.
Broadcast(box, n, f, times) ==
  [m \in Nodes |-> IF m # n /\ hears(m, f.headers) THEN box[m] \o [i \in 1 .. times |-> f]
                   ELSE box[m]]

FrameOf(a, no, answer) == [headers |-> a.send, no |-> no, answer |-> answer]
-----------------------------------------------------------------------------
client_send(c) ==
  LET no == Len(sends) + 1
  IN  /\ Len(sends) < MaxSends
      /\ sends' = Append(sends, c)
      /\ late' = IF connected THEN late \cup {no} ELSE late
      /\ inbox' = Broadcast(inbox, c, FrameOf(client(c), no, FALSE), 1)
      /\ UNCHANGED <<program, slot, connected, multi_recv, delivered, answered, answers>>

client_recv(c) ==
  /\ inbox[c] # <<>>
  /\ inbox' = [inbox EXCEPT ![c] = Tail(@)]
  /\ answers' = [answers EXCEPT ![c] = Append(@, Head(inbox[c]).no)]
  /\ UNCHANGED <<program, slot, connected, multi_recv, sends, late, delivered, answered>>

\* External: the router passes an ip4 packet on to the node it is for.
gateway_forward ==
  LET f == Head(inbox[Gateway])
      to == Header(Gateway, f.headers[2].dest, "ip4")
  IN  /\ inbox[Gateway] # <<>>
      /\ inbox' = Broadcast([inbox EXCEPT ![Gateway] = Tail(@)], Gateway,
                            [f EXCEPT !.headers[1] = to], 1)
      /\ UNCHANGED <<program, slot, connected, multi_recv, sends, late, delivered,
                     answered, answers>>
-----------------------------------------------------------------------------
(* connect_net_access_generator_listener: the argument of connect_recv is  *)
(* evaluated first, and constructing its multi_net_access sets the slot;   *)
(* connect_recv then sets the slot to the filter.  The receiving thread is *)
(* running all the while.                                                  *)

construct_multi_access ==
  /\ slot = {}
  /\ slot' = {"multi_recv"}
  /\ UNCHANGED <<program, inbox, connected, multi_recv, sends, late, delivered,
                 answered, answers>>

\* Mutant: the multi_recv_listener is left in the slot.
connect_generator_kept_out ==
  /\ ~connected /\ slot = {"multi_recv"}
  /\ connected' = TRUE
  /\ UNCHANGED <<program, inbox, slot, multi_recv, sends, late, delivered, answered,
                 answers>>

connect_generator ==
  /\ ~connected /\ slot = {"multi_recv"}
  /\ slot' = {"generator"} /\ connected' = TRUE
  /\ UNCHANGED <<program, inbox, multi_recv, sends, late, delivered, answered, answers>>

\* What a listener may do with a new access: keep it, answer through it.
listeners ==
  CASE program \in {"netcat_local_ether2", "netcat_local_ip4"} -> {<<FALSE, FALSE>>}
    [] program = "dns" -> {<<TRUE, TRUE>>}
    [] OTHER -> BOOLEAN \X BOOLEAN

\* The receiving thread hands a frame to what the slot leads to.  The
\* generating filter makes an access, whose filter joins multi_recv; the
\* listener sets its recv_access, and the data is handed to it; unless the
\* listener keeps the access, it is destroyed and its filter leaves multi_recv.
\* An access the multi_recv_listener holds gets what passes its filter.
server_recv(keep, answer) ==
  LET f == Head(inbox[Server])
      new == IF "generator" \in slot /\ generates(f.headers) THEN <<f.no>> ELSE <<>>
      old == SetToSeq({a \in multi_recv : "multi_recv" \in slot /\ sends[a] = sends[f.no]
                                          /\ generates(f.headers)})
      called == new \o old
      rest == [inbox EXCEPT ![Server] = Tail(@)]
  IN  /\ inbox[Server] # <<>> /\ <<keep, answer>> \in listeners
      /\ delivered' = delivered \o [i \in 1 .. Len(called) |-> <<called[i], f.no>>]
      /\ multi_recv' = IF keep THEN multi_recv \cup ToSet(new) ELSE multi_recv
      /\ inbox' = Broadcast(rest, Server, FrameOf(access(f.headers), f.no, TRUE),
                            IF answer THEN Len(called) ELSE 0)
      /\ answered' = IF answer THEN answered \cup {f.no : a \in ToSet(called)} ELSE answered
      /\ UNCHANGED <<program, slot, connected, sends, late, answers>>

Next ==
  \/ \E c \in Clients : client_send(c) \/ client_recv(c)
  \/ gateway_forward
  \/ construct_multi_access \/ connect_generator
  \/ \E keep, answer \in BOOLEAN : server_recv(keep, answer)

Spec == Init /\ [][Next]_vars

\* The receiving threads run, and so does the router.
FairSpec ==
  /\ Spec
  /\ WF_vars(\E keep, answer \in BOOLEAN : server_recv(keep, answer))
  /\ WF_vars(gateway_forward)
  /\ \A c \in Clients : WF_vars(client_recv(c))
-----------------------------------------------------------------------------
\* The packets meant for the server and its protocol.
HasProt == program \notin {"emp", "nsp"}
ForServer(no) == Dials[sends[no]] = Server /\ (HasProt => Prots[sends[no]] = Prot)

(***************************************************************************)
(* In every stack, whatever travels on the medium, a client of the server  *)
(* is handed only answers to its own packets, each at most once, in the    *)
(* order of its packets: the headers a generated access sends pass the     *)
(* filters of the one client it is for (dns clients all use port 1234).    *)
(* A client that dials another is handed what that one sends, if it dials  *)
(* it too.                                                                 *)
(***************************************************************************)
OwnAnswersInOrder ==
  \A c \in Clients : \A i \in 1 .. Len(answers[c]) :
    LET no == answers[c][i]
    IN  /\ IF Dials[c] = Server THEN no \in answered /\ sends[no] = c
           ELSE sends[no] = Dials[c] /\ Dials[sends[no]] = c
        /\ \A j \in 1 .. i - 1 : answers[c][j] < no

(***************************************************************************)
(* Only packets meant for the server reach its listeners, each once and    *)
(* through the access generated for it: the accesses dns_server keeps for  *)
(* ever neither answer a second time nor get "another data" in the         *)
(* meantime, as the todo in ethernet2_protocol.cpp fears.                  *)
(***************************************************************************)
DeliveredOnceAndMeant ==
  \A i \in 1 .. Len(delivered) :
    /\ ForServer(delivered[i][2]) /\ delivered[i][1] = delivered[i][2]
    /\ \A j \in 1 .. Len(delivered) : delivered[j][2] = delivered[i][2] => i = j

(***************************************************************************)
(* A packet for the server that is sent once the generator is connected is *)
(* delivered, although the constructor of its multi_net_access had set the *)
(* surface's only slot to something else.                                  *)
(***************************************************************************)
LateIsDelivered ==
  \A no \in 1 .. MaxSends :
    (no \in late /\ ForServer(no))
      ~> (\E i \in 1 .. Len(delivered) : delivered[i][2] = no)

(***************************************************************************)
(* An answer reaches the client that asked, in dns through the gateway.    *)
(***************************************************************************)
AnswerArrives ==
  \A no \in 1 .. MaxSends :
    (no \in answered)
      ~> (\E c \in Clients : \E i \in 1 .. Len(answers[c]) :
            answers[c][i] = no /\ sends[no] = c)
=============================================================================
