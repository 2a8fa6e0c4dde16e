------------------------- MODULE ProtocolStackProofs ------------------------
(***************************************************************************)
(* The stacks of protocols, for any number of clients, whomever they dial, *)
(* any protocols and any number of packets: packets reach the server's     *)
(* listeners once, and answers the client they are for, in order.          *)
(***************************************************************************)
EXTENDS ProtocolStack, FiniteSetTheorems, SequenceTheorems, TLAPS

(* The headers and the filters of the stacks *)

\* The one protocol of a program other than dns, and the protocol numbers in
\* the headers of client c and of the server.
Own == CASE program = "netcat_local_ether2" -> "ether2"
         [] program = "netcat_local_ip4" -> "ip4"
         [] OTHER -> program
ProtOf(c) == IF HasProt THEN Prots[c] ELSE Nullopt
ServerProt == IF HasProt THEN Prot ELSE Nullopt

\* A packet from client c and an answer to it, as they are sent; in dns, where
\* they go to the gateway first, as that passes them on.
Request(c) ==
  IF program = "dns"
  THEN <<Header(c, Gateway, "ip4"), Header(c, Dials[c], Prots[c]), Header("1234", "53", Nullopt)>>
  ELSE <<Header(c, Dials[c], ProtOf(c))>>
Reply(c) ==
  IF program = "dns"
  THEN <<Header(Server, Gateway, "ip4"), Header(Server, c, Prot), Header("53", "1234", Nullopt)>>
  ELSE <<Header(Server, c, ServerProt)>>
Passed(headers) ==
  <<Header(Gateway, headers[2].dest, "ip4"), headers[2], headers[3]>>

\* What the facts below need of the constants.
Distinct ==
  /\ Server \notin Clients /\ Gateway \notin Clients /\ Server # Gateway
  /\ Nullopt \notin Clients /\ Nullopt # Server /\ Nullopt # Gateway
  /\ Nullopt # Prot /\ Nullopt # "ip4" /\ Nullopt # "53" /\ Nullopt # "1234"
  /\ \A c \in Clients : Prots[c] # Nullopt /\ Dials[c] \in Clients \cup {Server}
  /\ program \in {"netcat_local_ether2", "netcat_local_ip4", "dns", "eap", "emp", "nsp"}

(* The assumption on the constants gives them. *)
LEMMA DistinctHolds ==
  ASSUME program \in Programs
  PROVE  Distinct
  BY StackAssumption DEF Distinct, Nodes

(* Where no rule is given, there is none to be found. *)
LEMMA NoRules ==
  ASSUME NEW fits
  PROVE  impl_find_route(<<>>, fits) = 0
<1> DEFINE
      rules == <<>>
      body(f) == [i \in 0 .. Len(rules) |->
                    IF i = 0 THEN 0
                    ELSE IF i \in fits /\ (f[i - 1] = 0 \/ mask_len(rules[i].mask) > mask_len(rules[f[i - 1]].mask))
                         THEN i ELSE f[i - 1]]
      closest == CHOOSE f : f = body(f)
<1>1. impl_find_route(rules, fits) = closest[Len(rules)]
  BY DEF impl_find_route
<1>2. Len(rules) = 0
  OBVIOUS
<1>3. \E f : f = body(f)
  <2> DEFINE f == [i \in 0 .. 0 |-> 0]
  <2>1. f = body(f)
    BY <1>2
  <2> QED BY <2>1
<1>4. closest = body(closest)
  BY <1>3
<1> HIDE DEF closest
<1>5. closest[0] = 0
  BY <1>2, <1>4
<1> QED BY <1>1, <1>2, <1>5

(* A filter compares each field it has a value for. *)
LEMMA Connects ==
  ASSUME NEW f, NEW h, f.p \in {"ether2", "ip4", "eap", "udp", "emp", "nsp"},
         f.p \in {"udp", "emp", "nsp"} => f.prot = Nullopt
  PROVE  connect_recv(f, h) <=>
           has(f.src, h.src) /\ has(f.dest, h.dest) /\ has(f.prot, h.prot)
  BY DEF connect_recv, ether2_connect_recv, ip4_connect_recv, eap_connect_recv,
         udp_connect_recv, emp_connect_recv, nsp_connect_recv, has

(* The accesses of the clients. *)
LEMMA ClientAccess ==
  ASSUME Distinct, NEW c \in Clients
  PROVE  client(c) =
           IF program = "dns"
           THEN [send |-> Request(c),
                 recv |-> <<Filter("ether2", Nullopt, c, "ip4"),
                            Filter("ip4", Dials[c], c, Prots[c]),
                            Filter("udp", "53", "1234", Nullopt)>>]
           ELSE [send |-> Request(c),
                 recv |-> <<Filter(Own, Dials[c], c, ProtOf(c))>>]
<1>1. CASE program # "dns"
  BY <1>1 DEF Distinct, client, Own, ProtOf, HasProt, Request, netcat_ether2_client,
     netcat_ip4_client, ether2_single, ip4_single, eap_single, emp_single, nsp_single, medium,
     net_access_make_empty, OnTop, Header, Filter, value_or
<1>2. CASE program = "dns"
  <2>1. find_route(routing_table(c), {}) = routing_table(c).default_gateway
    BY NoRules DEF find_route, routing_table
  <2>2. ip4_surface(c) = [send |-> <<Header(c, Gateway, "ip4")>>,
                          recv |-> <<Filter("ether2", Nullopt, c, "ip4")>>]
    BY <2>1 DEF ip4_surface, routing_table, net_access_override_send, ether2_broadcast,
       ether2_single, medium, net_access_make_empty, OnTop, Header, Filter, value_or, Distinct
  <2>3. client(c) = dns_client(c)
    BY <1>2 DEF client
  <2> QED BY <1>2, <2>2, <2>3 DEF dns_client, udp_single, ip4_single, OnTop, Header, Filter,
             value_or, Distinct, Request
<1> QED BY <1>1, <1>2

(* What passes one filter. *)
LEMMA ReachesOne ==
  ASSUME NEW a, NEW f, NEW h, a.recv = <<f>>
  PROVE  reaches(a, <<h>>) <=> connect_recv(f, h)
  BY DEF reaches

(* What passes three filters. *)
LEMMA ReachesThree ==
  ASSUME NEW a, NEW f1, NEW f2, NEW f3, NEW h1, NEW h2, NEW h3, a.recv = <<f1, f2, f3>>
  PROVE  reaches(a, <<h1, h2, h3>>) <=>
           connect_recv(f1, h1) /\ connect_recv(f2, h2) /\ connect_recv(f3, h3)
  BY DEF reaches

(* The server's surface and generators. *)
LEMMA ServerAccess ==
  ASSUME Distinct
  PROVE  IF program = "dns"
         THEN /\ surface = [send |-> <<Header(Server, Gateway, "ip4")>>,
                            recv |-> <<Filter("ether2", Nullopt, Server, "ip4")>>]
              /\ generators = <<Filter("ip4", Nullopt, Server, Prot),
                                Filter("udp", Nullopt, "53", Nullopt)>>
         ELSE /\ surface = [send |-> <<>>, recv |-> <<>>]
              /\ generators = <<Filter(Own, Nullopt, Server, ServerProt)>>
<1>1. CASE program # "dns"
  BY <1>1 DEF Distinct, surface, medium, net_access_make_empty, generators, Own, ServerProt,
     HasProt, netcat_ether2_server, netcat_ip4_server, ether2_generator, ip4_generator,
     eap_generator, emp_generator, nsp_generator, Filter
<1>2. CASE program = "dns"
  <2>1. find_route(routing_table(Server), {}) = routing_table(Server).default_gateway
    BY NoRules DEF find_route, routing_table
  <2>2. ip4_surface(Server) = [send |-> <<Header(Server, Gateway, "ip4")>>,
                               recv |-> <<Filter("ether2", Nullopt, Server, "ip4")>>]
    BY <2>1 DEF ip4_surface, routing_table, net_access_override_send, ether2_broadcast,
       ether2_single, medium, net_access_make_empty, OnTop, Header, Filter, value_or, Distinct
  <2>3. generators = dns_server
    BY <1>2 DEF generators
  <2> QED BY <1>2, <2>2, <2>3 DEF surface, dns_server, ip4_generator, udp_generator, Filter
<1> QED BY <1>1, <1>2

(* Concatenations of filters, written out. *)
LEMMA JoinOne ==
  ASSUME NEW a
  PROVE  <<>> \o <<a>> = <<a>>
<1>1. <<a>> \in Seq({a})
  OBVIOUS
<1> QED BY <1>1, ConcatEmptySeq

(* The same for three. *)
LEMMA JoinThree ==
  ASSUME NEW a, NEW b, NEW c
  PROVE  <<a>> \o <<b, c>> = <<a, b, c>>
<1> DEFINE S == {a, b, c}
           s == <<a>> \o <<b, c>>
           t == <<a, b, c>>
<1>1. <<a>> \in Seq(S) /\ <<b, c>> \in Seq(S) /\ t \in Seq(S)
  OBVIOUS
<1>2. s \in Seq(S) /\ Len(s) = 3 /\ s[1] = a /\ s[2] = b /\ s[3] = c
  BY <1>1, ConcatProperties
<1>3. Len(t) = 3 /\ t[1] = a /\ t[2] = b /\ t[3] = c
  OBVIOUS
<1> HIDE DEF S, s, t
<1>4. \A i \in 1 .. Len(s) : s[i] = t[i]
  BY <1>2, <1>3
<1>5. s = t
  BY <1>1, <1>2, <1>3, <1>4, SeqEqual
<1> QED BY <1>5 DEF s, t

(* A third header behind two. *)
LEMMA AppendThird ==
  ASSUME NEW a, NEW b, NEW c
  PROVE  Append(<<a, b>>, c) = <<a, b, c>>
<1> DEFINE S == {a, b, c}
           s == Append(<<a, b>>, c)
           t == <<a, b, c>>
<1>1. <<a, b>> \in Seq(S) /\ t \in Seq(S) /\ c \in S
  OBVIOUS
<1>2. s \in Seq(S) /\ Len(s) = 3 /\ s[1] = a /\ s[2] = b /\ s[3] = c
  BY <1>1, AppendProperties
<1>3. Len(t) = 3 /\ t[1] = a /\ t[2] = b /\ t[3] = c
  OBVIOUS
<1> HIDE DEF S, s, t
<1>4. \A i \in 1 .. Len(s) : s[i] = t[i]
  BY <1>2, <1>3
<1>5. s = t
  BY <1>1, <1>2, <1>3, <1>4, SeqEqual
<1> QED BY <1>5 DEF s, t

(* What comes through the generator, in the stacks of one protocol. *)
LEMMA GeneratesOne ==
  ASSUME Distinct, program # "dns", NEW h
  PROVE  generates(<<h>>) <=> h.dest = Server /\ has(ServerProt, h.prot)
<1> DEFINE f == Filter(Own, Nullopt, Server, ServerProt)
<1>1. surface.recv \o generators = <<f>>
  <2>1. surface.recv = <<>> /\ generators = <<f>>
    BY ServerAccess
  <2> QED BY <2>1, JoinOne
<1>2. generates(<<h>>) <=> connect_recv(f, h)
  BY <1>1, ReachesOne DEF generates
<1>3. connect_recv(f, h) <=> has(f.src, h.src) /\ has(f.dest, h.dest) /\ has(f.prot, h.prot)
  BY Connects DEF Distinct, Own, Filter, ServerProt, HasProt
<1> QED BY <1>2, <1>3 DEF Filter, has, Distinct

(* The same in dns. *)
LEMMA GeneratesThree ==
  ASSUME Distinct, program = "dns", NEW h1, NEW h2, NEW h3
  PROVE  generates(<<h1, h2, h3>>) <=>
           /\ h1.dest = Server /\ h1.prot = "ip4"
           /\ h2.dest = Server /\ h2.prot = Prot /\ h3.dest = "53"
<1> DEFINE f1 == Filter("ether2", Nullopt, Server, "ip4")
           f2 == Filter("ip4", Nullopt, Server, Prot)
           f3 == Filter("udp", Nullopt, "53", Nullopt)
<1>1. surface.recv \o generators = <<f1, f2, f3>>
  <2>1. surface.recv = <<f1>> /\ generators = <<f2, f3>>
    BY ServerAccess
  <2> QED BY <2>1, JoinThree
<1>2. generates(<<h1, h2, h3>>) <=>
        connect_recv(f1, h1) /\ connect_recv(f2, h2) /\ connect_recv(f3, h3)
  BY <1>1, ReachesThree DEF generates
<1>3. /\ connect_recv(f1, h1) <=> h1.dest = Server /\ h1.prot = "ip4"
      /\ connect_recv(f2, h2) <=> h2.dest = Server /\ h2.prot = Prot
      /\ connect_recv(f3, h3) <=> h3.dest = "53"
  BY Connects DEF Filter, has, Distinct
<1> QED BY <1>2, <1>3

\* Client c means the server and its protocol.
Meant(c) == Dials[c] = Server /\ (HasProt => Prots[c] = Prot)

(* What comes through: the packets meant for the server, in dns once the   *)
(* gateway has passed them on, and no answer.                              *)
LEMMA GeneratesTable ==
  ASSUME Distinct, NEW c \in Clients
  PROVE  /\ program # "dns" => (generates(Request(c)) <=> Meant(c)) /\ ~generates(Reply(c))
         /\ program = "dns" => /\ ~generates(Request(c)) /\ ~generates(Reply(c))
                               /\ generates(Passed(Request(c))) <=> Meant(c)
                               /\ ~generates(Passed(Reply(c)))
<1>1. CASE program # "dns"
  <2>1. Request(c) = <<Header(c, Dials[c], ProtOf(c))>> /\ Reply(c) = <<Header(Server, c, ServerProt)>>
    BY <1>1 DEF Request, Reply
  <2>2. generates(Request(c)) <=> Dials[c] = Server /\ has(ServerProt, ProtOf(c))
    BY <1>1, <2>1, GeneratesOne DEF Header
  <2>3. generates(Reply(c)) <=> c = Server /\ has(ServerProt, ServerProt)
    BY <1>1, <2>1, GeneratesOne DEF Header
  <2> QED BY <1>1, <2>2, <2>3 DEF Distinct, Meant, has, ServerProt, ProtOf
<1>2. CASE program = "dns"
  <2>1. /\ generates(Request(c)) => Gateway = Server
        /\ generates(Reply(c)) => Gateway = Server
    BY <1>2, GeneratesThree DEF Request, Reply, Header
  <2>2. /\ Passed(Request(c)) = <<Header(Gateway, Dials[c], "ip4"), Header(c, Dials[c], Prots[c]),
                                  Header("1234", "53", Nullopt)>>
        /\ Passed(Reply(c)) = <<Header(Gateway, c, "ip4"), Header(Server, c, Prot),
                                Header("53", "1234", Nullopt)>>
    BY <1>2 DEF Request, Reply, Passed, Header
  <2>3. generates(Passed(Request(c))) <=> Dials[c] = Server /\ Prots[c] = Prot
    BY <1>2, <2>2, GeneratesThree DEF Header
  <2>4. generates(Passed(Reply(c))) => c = Server
    BY <1>2, <2>2, GeneratesThree DEF Header
  <2> QED BY <1>2, <2>1, <2>3, <2>4 DEF Distinct, Meant, HasProt
<1> QED BY <1>1, <1>2

(* Who hears what: the gateway what is sent to it; a client the answers to *)
(* it, from the server it dials, and in the stacks of one protocol the     *)
(* packets of a client it dials that dials it.                             *)
LEMMA HearsTable ==
  ASSUME Distinct, NEW c \in Clients
  PROVE  /\ \A d \in Clients :
              /\ hears(d, Request(c)) => program # "dns" /\ Dials[d] = c /\ Dials[c] = d
              /\ hears(d, Reply(c)) => d = c /\ Dials[d] = Server
              /\ program = "dns" => /\ ~hears(d, Reply(c)) /\ ~hears(d, Passed(Request(c)))
                                    /\ hears(d, Passed(Reply(c))) => d = c /\ Dials[d] = Server
         /\ program # "dns" => \A h : ~hears(Gateway, h)
         /\ program = "dns" => ~hears(Gateway, Passed(Request(c))) /\ ~hears(Gateway, Passed(Reply(c)))
<1>1. ASSUME NEW d \in Clients, program # "dns"
      PROVE  /\ hears(d, Request(c)) => Dials[d] = c /\ Dials[c] = d
             /\ hears(d, Reply(c)) => d = c /\ Dials[d] = Server
  <2> DEFINE f == Filter(Own, Dials[d], d, ProtOf(d))
  <2>1. Request(c) = <<Header(c, Dials[c], ProtOf(c))>> /\ Reply(c) = <<Header(Server, c, ServerProt)>>
    BY <1>1 DEF Request, Reply
  <2>2. client(d).recv = <<f>>
    BY <1>1, ClientAccess
  <2>3. \A h : hears(d, <<h>>) => connect_recv(f, h)
    BY <1>1, <2>2, ReachesOne DEF hears, Distinct
  <2>4. \A h : connect_recv(f, h) <=> has(f.src, h.src) /\ has(f.dest, h.dest) /\ has(f.prot, h.prot)
    BY <1>1, Connects DEF Distinct, Own, Filter, ProtOf, HasProt
  <2> QED BY <2>1, <2>3, <2>4 DEF Filter, Header, has, Distinct
<1>2. ASSUME NEW d \in Clients, program = "dns"
      PROVE  /\ ~hears(d, Request(c)) /\ ~hears(d, Reply(c)) /\ ~hears(d, Passed(Request(c)))
             /\ hears(d, Passed(Reply(c))) => d = c /\ Dials[d] = Server
  <2> DEFINE f1 == Filter("ether2", Nullopt, d, "ip4")
             f2 == Filter("ip4", Dials[d], d, Prots[d])
             f3 == Filter("udp", "53", "1234", Nullopt)
  <2>1. /\ Passed(Request(c)) = <<Header(Gateway, Dials[c], "ip4"), Header(c, Dials[c], Prots[c]),
                                  Header("1234", "53", Nullopt)>>
        /\ Passed(Reply(c)) = <<Header(Gateway, c, "ip4"), Header(Server, c, Prot),
                                Header("53", "1234", Nullopt)>>
    BY <1>2 DEF Request, Reply, Passed, Header
  <2>2. client(d).recv = <<f1, f2, f3>>
    BY <1>2, ClientAccess
  <2>3. \A h1, h2, h3 : hears(d, <<h1, h2, h3>>) =>
          connect_recv(f1, h1) /\ connect_recv(f2, h2) /\ connect_recv(f3, h3)
    BY <1>2, <2>2, ReachesThree DEF hears, Distinct
  <2>4. \A h : /\ connect_recv(f1, h) => h.dest = d
               /\ connect_recv(f2, h) => h.src = Dials[d] /\ h.dest = d
               /\ connect_recv(f3, h) => h.src = "53"
    BY <1>2, Connects DEF Distinct, Filter, has
  <2>5. ~hears(d, Request(c)) /\ ~hears(d, Reply(c))
    BY <1>2, <2>3, <2>4 DEF Request, Reply, Header, Distinct
  <2>6. ~hears(d, Passed(Request(c)))
    BY <2>1, <2>3, <2>4 DEF Header
  <2>7. hears(d, Passed(Reply(c))) => d = c /\ Dials[d] = Server
    BY <2>1, <2>3, <2>4 DEF Header
  <2> QED BY <2>5, <2>6, <2>7
<1>3. program # "dns" => \A h : ~hears(Gateway, h)
  BY DEF hears, Distinct
<1>4. program = "dns" => ~hears(Gateway, Passed(Request(c))) /\ ~hears(Gateway, Passed(Reply(c)))
  BY DEF hears, Distinct, Passed, Request, Reply, Header
<1> QED BY <1>1, <1>2, <1>3, <1>4

(* The answer to a packet goes back to where it came from. *)
LEMMA AccessTable ==
  ASSUME Distinct, NEW c \in Clients
  PROVE  /\ program # "dns" => access(Request(c)).send = Reply(c)
         /\ program = "dns" => access(Passed(Request(c))).send = Reply(c)
<1>1. ASSUME program # "dns" PROVE access(Request(c)).send = Reply(c)
  <2> DEFINE g == Filter(Own, Nullopt, Server, ServerProt)
             h == Header(c, Dials[c], ProtOf(c))
  <2>1. Request(c) = <<h>> /\ generators = <<g>> /\ surface = [send |-> <<>>, recv |-> <<>>]
    BY <1>1, ServerAccess DEF Request
  <2>2. Len(surface.recv) = 0 /\ Len(generators) = 1
    BY <2>1
  <2>3. access(Request(c)) = generated(g, surface, h)
    BY <2>1, <2>2 DEF access
  <2>4. generated(g, surface, h).send = <<Header(Server, c, ServerProt)>>
    BY <1>1, <2>1 DEF generated, Filter, Header, Own, ServerProt, HasProt, ether2_single,
       ip4_single, eap_single, emp_single, nsp_single, OnTop, value_or, Distinct
  <2> QED BY <1>1, <2>3, <2>4 DEF Reply
<1>2. ASSUME program = "dns" PROVE access(Passed(Request(c))).send = Reply(c)
  <2> DEFINE f == Filter("ether2", Nullopt, Server, "ip4")
             g1 == Filter("ip4", Nullopt, Server, Prot)
             g2 == Filter("udp", Nullopt, "53", Nullopt)
             h1 == Header(Gateway, Dials[c], "ip4")
             h2 == Header(c, Dials[c], Prots[c])
             h3 == Header("1234", "53", Nullopt)
             first == Header(Server, Gateway, "ip4")
             lower == generated(g1, surface, h2)
  <2>1. Passed(Request(c)) = <<h1, h2, h3>>
    BY <1>2 DEF Request, Passed, Header
  <2>2. generators = <<g1, g2>> /\ surface = [send |-> <<first>>, recv |-> <<f>>]
    BY <1>2, ServerAccess
  <2>3. Len(surface.recv) = 1 /\ Len(generators) = 2
    BY <2>2
  <2>4. access(Passed(Request(c))) = generated(g2, lower, h3)
    BY <2>1, <2>2, <2>3 DEF access
  <2>5. lower = [send |-> <<first, Header(Server, c, Prot)>>, recv |-> <<f, Filter("ip4", c, Server, Prot)>>]
    BY <2>2 DEF generated, Filter, Header, ip4_single, OnTop, value_or, Distinct
  <2> HIDE DEF lower
  <2>6. generated(g2, lower, h3) = udp_single(lower, "1234", "53")
    BY DEF generated, Filter, Header
  <2>7. udp_single(lower, "1234", "53").send = Append(lower.send, Header("53", "1234", Nullopt))
    BY DEF udp_single, OnTop, value_or, Distinct
  <2>8. lower.send = <<first, Header(Server, c, Prot)>>
    BY <2>5
  <2>9. Append(<<first, Header(Server, c, Prot)>>, Header("53", "1234", Nullopt))
          = <<first, Header(Server, c, Prot), Header("53", "1234", Nullopt)>>
    BY AppendThird
  <2> QED BY <1>2, <2>4, <2>6, <2>7, <2>8, <2>9 DEF Reply
<1> QED BY <1>1, <1>2
-----------------------------------------------------------------------------
(* The inductive invariant *)

\* The slot leads to the multi_recv_listener only while that holds no filter.
SlotInv ==
  /\ slot \in {{}, {"multi_recv"}, {"generator"}}
  /\ slot # {"generator"} => multi_recv = {}

\* Every frame is a packet of a client or an answer to one, as sent or as passed
\* on by the gateway, which hears only what is sent to it.
AsSent(f) == IF f.answer THEN Reply(sends[f.no]) ELSE Request(sends[f.no])
Known(f) ==
  /\ f.no \in 1 .. Len(sends)
  /\ f.headers = AsSent(f) \/ (program = "dns" /\ f.headers = Passed(AsSent(f)))
  /\ f.answer => f.no \in answered

\* What client c may be handed.
Owned(c, no) ==
  /\ no \in 1 .. Len(sends)
  /\ IF Dials[c] = Server THEN no \in answered /\ sends[no] = c
     ELSE sends[no] = Dials[c] /\ Dials[sends[no]] = c

FrameInv ==
  /\ \A n \in Nodes : \A i \in 1 .. Len(inbox[n]) : Known(inbox[n][i])
  /\ \A i \in 1 .. Len(inbox[Gateway]) :
       program = "dns" /\ inbox[Gateway][i].headers = AsSent(inbox[Gateway][i])
  /\ \A c \in Clients : \A i \in 1 .. Len(inbox[c]) : Owned(c, inbox[c][i].no)
  /\ \A c \in Clients : \A i \in 1 .. Len(answers[c]) : Owned(c, answers[c][i])

DeliveredInv ==
  \A i \in 1 .. Len(delivered) :
    /\ delivered[i][1] = delivered[i][2]
    /\ delivered[i][2] \in 1 .. Len(sends) /\ Meant(sends[delivered[i][2]])

\* The stages on the way of client c's packets, last ones first, each as pairs
\* of a position and a packet: 1 delivered, 2 answers handed to it, 3 answers in
\* its queue, 4 answers at the gateway, 5 packets at the server that will come
\* through, 6 packets at the gateway.
Stages(c) ==
  <<{<<i, delivered[i][2]>> : i \in {j \in 1 .. Len(delivered) : sends[delivered[j][2]] = c}},
    {<<i, answers[c][i]>> : i \in 1 .. Len(answers[c])},
    {<<i, inbox[c][i].no>> : i \in 1 .. Len(inbox[c])},
    {<<i, inbox[Gateway][i].no>> :
       i \in {j \in 1 .. Len(inbox[Gateway]) :
                inbox[Gateway][j].answer /\ sends[inbox[Gateway][j].no] = c}},
    {<<i, inbox[Server][i].no>> :
       i \in {j \in 1 .. Len(inbox[Server]) :
                generates(inbox[Server][j].headers) /\ sends[inbox[Server][j].no] = c}},
    {<<i, inbox[Gateway][i].no>> :
       i \in {j \in 1 .. Len(inbox[Gateway]) :
                ~inbox[Gateway][j].answer /\ sends[inbox[Gateway][j].no] = c}}>>

\* Stage s is nearer to the end than stage t (a packet that is delivered may be
\* answered, or not).
Nearer(s, t) == s <= t /\ (s = 1 => t \in {1, 5, 6})

\* Earlier packets are at nearer stages, and at earlier positions of a stage.
InOrder(P) ==
  \A s, t \in 1 .. 6 : Nearer(s, t) =>
    \A x \in P[s], y \in P[t] : (s = t => x[1] < y[1]) => x[2] < y[2]

OrderInv == \A c \in Clients : InOrder(Stages(c))

StackInv ==
  /\ TypeOK /\ Len(sends) <= MaxSends
  /\ SlotInv
  /\ FrameInv
  /\ DeliveredInv
  /\ OrderInv
-----------------------------------------------------------------------------
(* The order of the stages, in general *)

\* Six sets of pairs.
Six(P) == \A s \in 1 .. 6 : P[s] \subseteq Nat \X Nat

\* Stages Q arise from stages P: those of H lose their heads, packets may be
\* dropped anywhere, and those of D get a packet n at their ends.
Arises(P, Q, H, D, n) ==
  \A s \in 1 .. 6 : \A x \in Q[s] :
    \/ IF s \in H THEN 0 < x[1] /\ <<x[1] + 1, x[2]>> \in P[s] ELSE x \in P[s]
    \/ s \in D /\ x[2] = n /\ \A y \in Q[s] : y[1] <= x[1]

(* Dropping packets, and the heads of the stages H, keeps the order. *)
LEMMA OrderShift ==
  ASSUME NEW P, NEW Q, NEW H, NEW n, Six(P), Six(Q), InOrder(P), Arises(P, Q, H, {}, n)
  PROVE  InOrder(Q)
<1> SUFFICES ASSUME NEW s \in 1 .. 6, NEW t \in 1 .. 6, Nearer(s, t),
                    NEW x \in Q[s], NEW y \in Q[t], s = t => x[1] < y[1]
             PROVE  x[2] < y[2]
  BY DEF InOrder
<1> DEFINE u == IF s \in H THEN <<x[1] + 1, x[2]>> ELSE x
           v == IF t \in H THEN <<y[1] + 1, y[2]>> ELSE y
<1>1. u \in P[s] /\ v \in P[t] /\ u[2] = x[2] /\ v[2] = y[2]
  BY DEF Arises
<1>2. x \in Nat \X Nat /\ y \in Nat \X Nat
  BY DEF Six
<1>3. s = t => u[1] < v[1]
  BY <1>2
<1> HIDE DEF u, v
<1>4. u[2] < v[2]
  BY <1>1, <1>3 DEF InOrder
<1> QED BY <1>1, <1>4

(* So does moving the head n of stage a to the ends of the stages D, if    *)
(* nothing is between.                                                     *)
LEMMA OrderMove ==
  ASSUME NEW P, NEW Q, NEW H, NEW D \in SUBSET (1 .. 6), NEW a \in H, NEW n \in Nat,
         a \in 1 .. 6, Six(P), Six(Q), InOrder(P), <<1, n>> \in P[a],
         \A d \in D : d < a /\ Nearer(d, a)
                      /\ \A s \in 1 .. 6 : d < s /\ s < a /\ Nearer(d, s) => P[s] = {},
         \A d, e \in D : d < e => ~Nearer(d, e), Arises(P, Q, H, D, n)
  PROVE  InOrder(Q)
<1> DEFINE Old(s, x) == IF s \in H THEN 0 < x[1] /\ <<x[1] + 1, x[2]>> \in P[s] ELSE x \in P[s]
           New(s, x) == s \in D /\ x[2] = n /\ \A y \in Q[s] : y[1] <= x[1]
<1> SUFFICES ASSUME NEW s \in 1 .. 6, NEW t \in 1 .. 6, Nearer(s, t),
                    NEW x \in Q[s], NEW y \in Q[t], s = t => x[1] < y[1]
             PROVE  x[2] < y[2]
  BY DEF InOrder
<1>0. (Old(s, x) \/ New(s, x)) /\ (Old(t, y) \/ New(t, y))
  BY DEF Arises
<1>t. x \in Nat \X Nat /\ y \in Nat \X Nat
  BY DEF Six
<1>1. CASE Old(s, x) /\ Old(t, y)
  <2> DEFINE u == IF s \in H THEN <<x[1] + 1, x[2]>> ELSE x
             v == IF t \in H THEN <<y[1] + 1, y[2]>> ELSE y
  <2>1. u \in P[s] /\ v \in P[t] /\ u[2] = x[2] /\ v[2] = y[2]
    BY <1>1
  <2>2. s = t => u[1] < v[1]
    BY <1>t
  <2> HIDE DEF u, v
  <2>3. u[2] < v[2]
    BY <2>1, <2>2 DEF InOrder
  <2> QED BY <2>1, <2>3
<1>2. CASE Old(s, x) /\ New(t, y)
  <2> DEFINE u == IF s \in H THEN <<x[1] + 1, x[2]>> ELSE x
  <2>1. u \in P[s] /\ u[2] = x[2]
    BY <1>2
  <2>2. Nearer(s, a) /\ s # a
    BY <1>2 DEF Nearer
  <2> HIDE DEF u
  <2>3. u[2] < <<1, n>>[2]
    BY <2>1, <2>2 DEF InOrder
  <2> QED BY <1>2, <2>1, <2>3
<1>3. CASE New(s, x) /\ Old(t, y)
  <2> DEFINE v == IF t \in H THEN <<y[1] + 1, y[2]>> ELSE y
  <2>1. v \in P[t] /\ v[2] = y[2]
    BY <1>3
  <2>2. s # t
    BY <1>3, <1>t
  <2>3. ~(t < a)
    BY <1>3, <2>1, <2>2 DEF Nearer
  <2>4. Nearer(a, t) /\ (a = t => 1 < v[1])
    BY <1>3, <1>t, <2>3 DEF Nearer
  <2> HIDE DEF v
  <2>5. <<1, n>>[2] < v[2]
    BY <2>1, <2>4 DEF InOrder
  <2> QED BY <1>3, <2>1, <2>5
<1>4. CASE New(s, x) /\ New(t, y)
  <2>1. s = t
    BY <1>4 DEF Nearer
  <2> QED BY <1>4, <1>t, <2>1
<1> QED BY <1>0, <1>1, <1>2, <1>3, <1>4

(* So does adding a new packet n at the end of a stage d behind which      *)
(* there is nothing.                                                       *)
LEMMA OrderAdd ==
  ASSUME NEW P, NEW Q, NEW d \in 1 .. 6, NEW n \in Nat, Six(P), Six(Q), InOrder(P),
         \A s \in 1 .. 6 : \A x \in P[s] : x[2] < n,
         \A s \in 1 .. 6 : d < s /\ Nearer(d, s) => P[s] = {}, Arises(P, Q, {}, {d}, n)
  PROVE  InOrder(Q)
<1> DEFINE New(s, x) == s = d /\ x[2] = n /\ \A y \in Q[s] : y[1] <= x[1]
<1> SUFFICES ASSUME NEW s \in 1 .. 6, NEW t \in 1 .. 6, Nearer(s, t),
                    NEW x \in Q[s], NEW y \in Q[t], s = t => x[1] < y[1]
             PROVE  x[2] < y[2]
  BY DEF InOrder
<1>0. (x \in P[s] \/ New(s, x)) /\ (y \in P[t] \/ New(t, y))
  BY DEF Arises
<1>t. x \in Nat \X Nat /\ y \in Nat \X Nat
  BY DEF Six
<1>1. CASE x \in P[s] /\ y \in P[t]
  BY <1>1 DEF InOrder
<1>2. CASE x \in P[s] /\ New(t, y)
  BY <1>2
<1>3. CASE New(s, x) /\ y \in P[t]
  <2>1. s # t
    BY <1>3, <1>t
  <2> QED BY <1>3, <2>1 DEF Nearer
<1>4. CASE New(s, x) /\ New(t, y)
  BY <1>4, <1>t
<1> QED BY <1>0, <1>1, <1>2, <1>3, <1>4
-----------------------------------------------------------------------------
(* The queues and the server's step *)

(* The head of queue q leaves. *)
LEMMA PopForm ==
  ASSUME inbox \in [Nodes -> Seq(Frame)], NEW q \in Nodes, inbox[q] # <<>>,
         NEW rest, rest = [inbox EXCEPT ![q] = Tail(@)]
  PROVE  /\ rest \in [Nodes -> Seq(Frame)]
         /\ 1 \in 1 .. Len(inbox[q]) /\ Head(inbox[q]) = inbox[q][1] /\ Head(inbox[q]) \in Frame
         /\ \A m \in Nodes : \A i \in 1 .. Len(rest[m]) :
              IF m = q THEN i + 1 \in 1 .. Len(inbox[m]) /\ rest[m][i] = inbox[m][i + 1]
              ELSE i \in 1 .. Len(inbox[m]) /\ rest[m][i] = inbox[m][i]
<1>1. inbox[q] \in Seq(Frame)
  OBVIOUS
<1>2. /\ Head(inbox[q]) \in Frame /\ Tail(inbox[q]) \in Seq(Frame)
      /\ Len(Tail(inbox[q])) = Len(inbox[q]) - 1 /\ Len(inbox[q]) \in Nat \ {0}
      /\ \A i \in 1 .. Len(Tail(inbox[q])) : Tail(inbox[q])[i] = inbox[q][i + 1]
  BY <1>1, HeadTailProperties, EmptySeq
<1>3. Head(inbox[q]) = inbox[q][1]
  BY <1>1
<1>4. rest \in [Nodes -> Seq(Frame)]
  BY <1>2
<1>5. ASSUME NEW m \in Nodes, NEW i \in 1 .. Len(rest[m])
      PROVE  IF m = q THEN i + 1 \in 1 .. Len(inbox[m]) /\ rest[m][i] = inbox[m][i + 1]
             ELSE i \in 1 .. Len(inbox[m]) /\ rest[m][i] = inbox[m][i]
  <2>1. CASE m = q
    <3>1. rest[m] = Tail(inbox[q])
      BY <2>1
    <3> QED BY <1>2, <2>1, <3>1
  <2>2. CASE m # q
    <3>1. rest[m] = inbox[m]
      BY <2>2
    <3> QED BY <2>2, <3>1
  <2> QED BY <2>1, <2>2
<1> QED BY <1>2, <1>3, <1>4, <1>5

\* Who hears what node n sends.
Hearers(n, headers) == {m \in Nodes : m # n /\ hears(m, headers)}

\* From queues box to queues b only the frame g was added, at the ends of some of
\* the queues G.
Joined(box, b, G, g) ==
  \A m \in Nodes : \A i \in 1 .. Len(b[m]) :
    \/ i \in 1 .. Len(box[m]) /\ b[m][i] = box[m][i]
    \/ m \in G /\ i = Len(b[m]) /\ b[m][i] = g

(* What is broadcast, so many times, is the last in the queues of those    *)
(* who hear it.                                                            *)
LEMMA SpreadForm ==
  ASSUME NEW box \in [Nodes -> Seq(Frame)], NEW n, NEW f, NEW k \in {0, 1}, k = 1 => f \in Frame,
         NEW b, b = Broadcast(box, n, f, k)
  PROVE  /\ b \in [Nodes -> Seq(Frame)]
         /\ Joined(box, b, IF k = 1 THEN Hearers(n, f.headers) ELSE {}, f)
<1> DEFINE new == [i \in 1 .. k |-> f]
<1>1. new \in Seq(Frame) /\ Len(new) = k /\ (k = 1 => new[1] = f)
  <2>1. CASE k = 0
    BY <2>1
  <2>2. CASE k = 1
    BY <2>2
  <2> QED BY <2>1, <2>2
<1> HIDE DEF new
<1>2. ASSUME NEW m \in Nodes
      PROVE  /\ b[m] \in Seq(Frame)
             /\ \A i \in 1 .. Len(b[m]) :
                  \/ i \in 1 .. Len(box[m]) /\ b[m][i] = box[m][i]
                  \/ k = 1 /\ i = Len(b[m]) /\ b[m][i] = f /\ m # n /\ hears(m, f.headers)
  <2>1. box[m] \in Seq(Frame) /\ Len(box[m]) \in Nat
    OBVIOUS
  <2>2. CASE m # n /\ hears(m, f.headers)
    <3>1. b[m] = box[m] \o new
      BY <2>2 DEF Broadcast, new
    <3>2. /\ b[m] \in Seq(Frame) /\ Len(b[m]) = Len(box[m]) + k
          /\ \A i \in 1 .. Len(box[m]) + k :
               b[m][i] = IF i <= Len(box[m]) THEN box[m][i] ELSE new[i - Len(box[m])]
      BY <1>1, <2>1, <3>1, ConcatProperties
    <3>3. ASSUME NEW i \in 1 .. Len(b[m]), ~(i <= Len(box[m]))
          PROVE  k = 1 /\ i = Len(b[m]) /\ b[m][i] = f
      <4>1. k = 1 /\ i = Len(b[m]) /\ i - Len(box[m]) = 1
        BY <2>1, <3>2, <3>3
      <4> QED BY <1>1, <3>2, <3>3, <4>1
    <3> QED BY <2>1, <2>2, <3>2, <3>3
  <2>3. CASE ~(m # n /\ hears(m, f.headers))
    BY <2>1, <2>3 DEF Broadcast
  <2> QED BY <2>2, <2>3
<1>3. b \in [Nodes -> Seq(Frame)]
  <2>1. b = [m \in Nodes |-> b[m]]
    BY DEF Broadcast
  <2> QED BY <1>2, <2>1
<1> QED BY <1>2, <1>3 DEF Joined, Hearers

(* What is broadcast once. *)
LEMMA SpreadOnce ==
  ASSUME NEW box \in [Nodes -> Seq(Frame)], NEW n, NEW f \in Frame,
         NEW b, b = Broadcast(box, n, f, 1)
  PROVE  b \in [Nodes -> Seq(Frame)] /\ Joined(box, b, Hearers(n, f.headers), f)
<1>1. PICK k \in {0, 1} : k = 1
  OBVIOUS
<1>2. b = Broadcast(box, n, f, k) /\ (k = 1 => f \in Frame)
  BY <1>1
<1> QED BY <1>1, <1>2, SpreadForm

(* What is not sent is in no queue. *)
LEMMA SpreadNone ==
  ASSUME NEW box \in [Nodes -> Seq(Frame)], NEW n, NEW f, NEW b, b = Broadcast(box, n, f, 0)
  PROVE  b = box
<1> DEFINE new == [i \in 1 .. 0 |-> f]
<1>1. new = <<>>
  OBVIOUS
<1> HIDE DEF new
<1>2. ASSUME NEW m \in Nodes PROVE b[m] = box[m]
  <2>1. box[m] \in Seq(Frame) /\ box[m] \o <<>> = box[m]
    BY ConcatEmptySeq
  <2>2. b[m] = box[m] \o new \/ b[m] = box[m]
    BY DEF Broadcast, new
  <2> QED BY <1>1, <2>1, <2>2
<1>3. b = [m \in Nodes |-> b[m]]
  BY DEF Broadcast
<1> QED BY <1>2, <1>3

(* The program stays the same, and with it the headers and the filters. *)
LEMMA ProgramKept ==
  ASSUME program' = program
  PROVE  /\ \A c : Request(c)' = Request(c) /\ Reply(c)' = Reply(c) /\ Meant(c)' = Meant(c)
         /\ \A h : generates(h)' = generates(h)
<1>1. \A c : Request(c)' = Request(c) /\ Reply(c)' = Reply(c) /\ Meant(c)' = Meant(c)
  BY DEF Request, Reply, Meant, ProtOf, ServerProt, HasProt
<1>2. surface' = surface /\ generators' = generators
  BY DEF surface, generators
<1>3. \A h : generates(h)' = generates(h)
  BY <1>2 DEF generates
<1> QED BY <1>1, <1>3

\* What no step undoes.
Grows ==
  /\ program' = program /\ answered \subseteq answered'
  /\ Len(sends) <= Len(sends') /\ \A i \in 1 .. Len(sends) : sends'[i] = sends[i]

(* What is known of a frame, a packet that is handed to a client, or one   *)
(* that is delivered, stays so.                                            *)
LEMMA KnownKept ==
  ASSUME TypeOK, TypeOK', Grows
  PROVE  /\ \A f : Known(f) => Known(f)' /\ AsSent(f)' = AsSent(f)
         /\ \A c, no : Owned(c, no) => Owned(c, no)'
<1>1. Len(sends) \in Nat /\ Len(sends') \in Nat
  BY DEF TypeOK
<1>3. ASSUME NEW f, Known(f) PROVE Known(f)' /\ AsSent(f)' = AsSent(f)
  <2>1. f.no \in 1 .. Len(sends') /\ sends'[f.no] = sends[f.no]
    BY <1>1, <1>3 DEF Known, Grows
  <2>2. (f.answer => f.no \in answered') /\ program' = program
    BY <1>3 DEF Known, Grows
  <2>3. Reply(sends[f.no])' = Reply(sends[f.no]) /\ Request(sends[f.no])' = Request(sends[f.no])
    BY <2>1, <2>2 DEF Reply, Request, ProtOf, ServerProt, HasProt
  <2>4. AsSent(f)' = AsSent(f)
    BY <2>3 DEF AsSent
  <2> QED BY <1>3, <2>1, <2>2, <2>4 DEF Known, Passed
<1>4. ASSUME NEW c, NEW no, Owned(c, no) PROVE Owned(c, no)'
  <2>1. no \in 1 .. Len(sends') /\ sends'[no] = sends[no]
    BY <1>1, <1>4 DEF Owned, Grows
  <2> QED BY <1>4, <2>1 DEF Owned, Grows
<1> QED BY <1>3, <1>4

(* The sequence of no accesses. *)
LEMMA EmptySetToSeq == SetToSeq({}) = <<>>
<1>1. Cardinality({}) = 0
  BY FS_EmptySet
<1>2. [1 .. Cardinality({}) -> {}] = {<<>>}
  <2>1. <<>> \in [1 .. 0 -> {}]
    BY EmptySeq, LenProperties
  <2>2. ASSUME NEW g \in [1 .. 0 -> {}] PROVE g = <<>>
    <3>1. g \in Seq({})
      BY SeqDef
    <3>2. DOMAIN g = 1 .. Len(g) /\ DOMAIN g = 1 .. 0 /\ Len(g) \in Nat
      BY <3>1, LenProperties
    <3>3. Len(g) = 0
      BY <3>2
    <3> QED BY <3>1, <3>3, EmptySeq
  <2> QED BY <1>1, <2>1, <2>2
<1>3. IsInjective(<<>>)
  BY DEF IsInjective
<1> QED BY <1>2, <1>3 DEF SetToSeq

(* The server's step: what comes through the generators is delivered once, *)
(* to the access generated for it, and answered, if at all, once and to    *)
(* the client it came from.                                                *)
LEMMA ServerForm ==
  ASSUME StackInv, NEW keep \in BOOLEAN, NEW answer \in BOOLEAN, server_recv(keep, answer),
         NEW f, f = Head(inbox[Server]), NEW rest, rest = [inbox EXCEPT ![Server] = Tail(@)]
  PROVE  /\ inbox[Server] # <<>> /\ UNCHANGED <<program, slot, connected, sends, late, answers>>
         /\ f \in Frame /\ Known(f) /\ f = inbox[Server][1]
         /\ \/ /\ "generator" \in slot /\ generates(f.headers) /\ ~f.answer
               /\ Meant(sends[f.no]) /\ access(f.headers).send = Reply(sends[f.no])
               /\ delivered' = Append(delivered, <<f.no, f.no>>)
               /\ multi_recv' \in {multi_recv, multi_recv \cup {f.no}}
               /\ answered' = IF answer THEN answered \cup {f.no} ELSE answered
               /\ inbox' = Broadcast(rest, Server, FrameOf(access(f.headers), f.no, TRUE),
                                     IF answer THEN 1 ELSE 0)
            \/ /\ UNCHANGED <<delivered, multi_recv, answered>>
               /\ inbox' = Broadcast(rest, Server, FrameOf(access(f.headers), f.no, TRUE), 0)
<1> DEFINE new == IF "generator" \in slot /\ generates(f.headers) THEN <<f.no>> ELSE <<>>
           old == SetToSeq({a \in multi_recv : "multi_recv" \in slot /\ sends[a] = sends[f.no]
                                               /\ generates(f.headers)})
           called == new \o old
<1>1. /\ inbox[Server] # <<>> /\ UNCHANGED <<program, slot, connected, sends, late, answers>>
      /\ delivered' = delivered \o [i \in 1 .. Len(called) |-> <<called[i], f.no>>]
      /\ multi_recv' = IF keep THEN multi_recv \cup ToSet(new) ELSE multi_recv
      /\ inbox' = Broadcast(rest, Server, FrameOf(access(f.headers), f.no, TRUE),
                            IF answer THEN Len(called) ELSE 0)
      /\ answered' = IF answer THEN answered \cup {f.no : a \in ToSet(called)} ELSE answered
  BY DEF server_recv
<1>2. Server \in Nodes /\ inbox \in [Nodes -> Seq(Frame)]
  BY DEF Nodes, StackInv, TypeOK
<1>3. f \in Frame /\ f = inbox[Server][1] /\ 1 \in 1 .. Len(inbox[Server])
  BY <1>1, <1>2, PopForm
<1>4. Known(f)
  BY <1>2, <1>3 DEF StackInv, FrameInv
<1>5. old = <<>>
  <2>1. {a \in multi_recv : "multi_recv" \in slot /\ sends[a] = sends[f.no]
                             /\ generates(f.headers)} = {}
    BY DEF StackInv, SlotInv
  <2> QED BY <2>1, EmptySetToSeq
<1>6. f.no \in Nat /\ delivered \in Seq(Nat \X Nat)
  <2>1. f.no \in Nat
    BY <1>3, StackAssumption DEF Frame
  <2>2. delivered \in Seq((1 .. MaxSends) \X (1 .. MaxSends))
    BY DEF StackInv, TypeOK
  <2>3. (1 .. MaxSends) \X (1 .. MaxSends) \subseteq Nat \X Nat
    BY StackAssumption
  <2> QED BY <2>1, <2>2, <2>3, SeqMonotonic
<1>7. CASE "generator" \in slot /\ generates(f.headers)
  <2>1. called = <<f.no>>
    <3>1. <<f.no>> \in Seq(Nat)
      BY <1>6
    <3> QED BY <1>5, <1>7, <3>1, ConcatEmptySeq
  <2> HIDE DEF called
  <2>2. Len(called) = 1 /\ ToSet(called) = {f.no} /\ ToSet(new) = {f.no}
    BY <1>7, <2>1 DEF ToSet
  <2>3. delivered' = Append(delivered, <<f.no, f.no>>)
    <3>1. [i \in 1 .. Len(called) |-> <<called[i], f.no>>] = <<<<f.no, f.no>>>>
      BY <2>1, <2>2
    <3> DEFINE e == <<f.no, f.no>>
    <3>2. e \in Nat \X Nat
      BY <1>6
    <3>3. delivered' = delivered \o <<e>>
      BY <1>1, <3>1
    <3> HIDE DEF e
    <3>4. Append(delivered, e) = delivered \o <<e>>
      BY <1>6, <3>2, AppendIsConcat
    <3>5. delivered' = Append(delivered, e)
      BY <3>3, <3>4
    <3> QED BY <3>5 DEF e
  <2> DEFINE c == sends[f.no]
  <2>4. c \in Clients /\ Distinct
    BY <1>4, DistinctHolds DEF StackInv, TypeOK, Known
  <2>5. /\ ~f.answer /\ Meant(c)
        /\ f.headers = IF program = "dns" THEN Passed(Request(c)) ELSE Request(c)
    BY <1>4, <1>7, <2>4, GeneratesTable DEF Known, AsSent
  <2>6. access(f.headers).send = Reply(c)
    BY <2>4, <2>5, AccessTable
  <2>7. multi_recv' \in {multi_recv, multi_recv \cup {f.no}}
    BY <1>1, <2>2
  <2>8. answered' = IF answer THEN answered \cup {f.no} ELSE answered
    BY <1>1, <2>2
  <2> QED BY <1>1, <1>3, <1>4, <1>7, <2>2, <2>3, <2>5, <2>6, <2>7, <2>8
<1>8. CASE ~("generator" \in slot /\ generates(f.headers))
  <2>1. called = <<>>
    <3>1. <<>> \in Seq(Nat)
      OBVIOUS
    <3> QED BY <1>5, <1>8, <3>1, ConcatEmptySeq
  <2> HIDE DEF called
  <2>2. Len(called) = 0 /\ ToSet(called) = {} /\ ToSet(new) = {}
    BY <1>8, <2>1 DEF ToSet
  <2>3. delivered' = delivered
    <3>1. [i \in 1 .. Len(called) |-> <<called[i], f.no>>] = <<>>
      BY <2>2
    <3> QED BY <1>1, <1>6, <3>1, ConcatEmptySeq
  <2>4. multi_recv' = multi_recv /\ answered' = answered
    BY <1>1, <2>2
  <2>5. inbox' = Broadcast(rest, Server, FrameOf(access(f.headers), f.no, TRUE), 0)
    BY <1>1, <2>2
  <2> QED BY <1>1, <1>3, <1>4, <2>3, <2>4, <2>5
<1> QED BY <1>7, <1>8

(* A header that is replaced. *)
LEMMA FirstReplaced ==
  ASSUME NEW a, NEW b, NEW c, NEW e
  PROVE  [<<a, b, c>> EXCEPT ![1] = e] = <<e, b, c>>
<1> DEFINE S == {a, b, c, e}
           u == <<a, b, c>>
           s == [u EXCEPT ![1] = e]
           t == <<e, b, c>>
<1>1. u \in Seq(S) /\ Len(u) = 3 /\ t \in Seq(S) /\ e \in S /\ 1 \in 1 .. 3
  OBVIOUS
<1>2. /\ s \in Seq(S) /\ Len(s) = 3
      /\ \A j \in 1 .. 3 : s[j] = IF j = 1 THEN e ELSE u[j]
  BY <1>1, ExceptSeq
<1>3. /\ u[1] = a /\ u[2] = b /\ u[3] = c
      /\ Len(t) = 3 /\ t[1] = e /\ t[2] = b /\ t[3] = c
  OBVIOUS
<1> HIDE DEF S, s, t, u
<1>4. \A i \in 1 .. Len(s) : s[i] = t[i]
  BY <1>2, <1>3
<1>5. s = t
  BY <1>1, <1>2, <1>3, <1>4, SeqEqual
<1> QED BY <1>5 DEF s, t, u

(* The gateway's step: it passes on a packet or an answer. *)
LEMMA GatewayForm ==
  ASSUME StackInv, gateway_forward, NEW f, f = Head(inbox[Gateway]),
         NEW rest, rest = [inbox EXCEPT ![Gateway] = Tail(@)]
  PROVE  /\ inbox[Gateway] # <<>> /\ program = "dns"
         /\ f \in Frame /\ Known(f) /\ f = inbox[Gateway][1] /\ f.headers = AsSent(f)
         /\ inbox' = Broadcast(rest, Gateway, [headers |-> Passed(f.headers), no |-> f.no,
                                               answer |-> f.answer], 1)
         /\ UNCHANGED <<program, slot, connected, multi_recv, sends, late, delivered,
                        answered, answers>>
<1> DEFINE to == Header(Gateway, f.headers[2].dest, "ip4")
           g == [f EXCEPT !.headers[1] = to]
<1>1. /\ inbox[Gateway] # <<>> /\ inbox' = Broadcast(rest, Gateway, g, 1)
      /\ UNCHANGED <<program, slot, connected, multi_recv, sends, late, delivered,
                     answered, answers>>
  BY DEF gateway_forward
<1>2. Gateway \in Nodes /\ inbox \in [Nodes -> Seq(Frame)]
  BY DEF Nodes, StackInv, TypeOK
<1>3. f \in Frame /\ f = inbox[Gateway][1] /\ 1 \in 1 .. Len(inbox[Gateway])
  BY <1>1, <1>2, PopForm
<1>4. Known(f) /\ program = "dns" /\ f.headers = AsSent(f)
  BY <1>2, <1>3 DEF StackInv, FrameInv
<1>5. PICK h1, h2, h3 : f.headers = <<h1, h2, h3>>
  BY <1>4 DEF AsSent, Reply, Request
<1>6. [f.headers EXCEPT ![1] = to] = Passed(f.headers)
  BY <1>5, FirstReplaced DEF Passed
<1>7. g = [headers |-> Passed(f.headers), no |-> f.no, answer |-> f.answer]
  <2>1. g = [f EXCEPT !.headers = [f.headers EXCEPT ![1] = to]]
    BY <1>3 DEF Frame
  <2>2. \A p : [f EXCEPT !.headers = p] = [headers |-> p, no |-> f.no, answer |-> f.answer]
    BY <1>3 DEF Frame
  <2> QED BY <1>6, <2>1, <2>2
<1> QED BY <1>1, <1>3, <1>4, <1>7

(* Three headers in a row. *)
LEMMA ThreeInSeq ==
  ASSUME NEW S, NEW a \in S, NEW b \in S, NEW c \in S
  PROVE  <<a, b, c>> \in Seq(S)
  OBVIOUS

(* What travels is made of headers. *)
LEMMA KnownIsFrame ==
  ASSUME Distinct, NEW c \in Clients, NEW no \in 1 .. MaxSends, NEW answer \in BOOLEAN,
         NEW h \in {Request(c), Reply(c)}
  PROVE  /\ [headers |-> h, no |-> no, answer |-> answer] \in Frame
         /\ program = "dns" => [headers |-> Passed(h), no |-> no, answer |-> answer] \in Frame
<1> DEFINE S == [src : Nodes \cup {"53", "1234", Empty}, dest : Nodes \cup {"53", "1234"},
                 prot : {Nullopt, Prot, Empty, "ip4"} \cup {Prots[d] : d \in Clients}]
<1>1. \A x \in Nodes \cup {"53", "1234"}, y \in Nodes \cup {"53", "1234"},
         z \in {Nullopt, Prot, "ip4", Prots[c]} : Header(x, y, z) \in S
  BY DEF Header
<1>2. {c, Server, Gateway, Dials[c]} \subseteq Nodes
  BY DEF Distinct, Nodes
<1> HIDE DEF S
<1>3. CASE program = "dns"
  <2>1. /\ Header(c, Gateway, "ip4") \in S /\ Header(c, Dials[c], Prots[c]) \in S
        /\ Header("1234", "53", Nullopt) \in S /\ Header(Server, Gateway, "ip4") \in S
        /\ Header(Server, c, Prot) \in S /\ Header("53", "1234", Nullopt) \in S
        /\ Header(Gateway, Dials[c], "ip4") \in S /\ Header(Gateway, c, "ip4") \in S
    BY <1>1, <1>2
  <2>2. CASE h = Request(c)
    <3>1. /\ h = <<Header(c, Gateway, "ip4"), Header(c, Dials[c], Prots[c]),
                   Header("1234", "53", Nullopt)>>
          /\ Passed(h) = <<Header(Gateway, Dials[c], "ip4"), Header(c, Dials[c], Prots[c]),
                           Header("1234", "53", Nullopt)>>
      BY <1>3, <2>2 DEF Request, Passed, Header
    <3>2. h \in Seq(S) /\ Passed(h) \in Seq(S)
      BY <2>1, <3>1, ThreeInSeq
    <3> QED BY <3>2 DEF Frame, S
  <2>3. CASE h = Reply(c)
    <3>1. /\ h = <<Header(Server, Gateway, "ip4"), Header(Server, c, Prot),
                   Header("53", "1234", Nullopt)>>
          /\ Passed(h) = <<Header(Gateway, c, "ip4"), Header(Server, c, Prot),
                           Header("53", "1234", Nullopt)>>
      BY <1>3, <2>3 DEF Reply, Passed, Header
    <3>2. h \in Seq(S) /\ Passed(h) \in Seq(S)
      BY <2>1, <3>1, ThreeInSeq
    <3> QED BY <3>2 DEF Frame, S
  <2> QED BY <2>2, <2>3
<1>4. CASE program # "dns"
  <2>1. Header(c, Dials[c], ProtOf(c)) \in S /\ Header(Server, c, ServerProt) \in S
    BY <1>1, <1>2 DEF ProtOf, ServerProt
  <2>2. \A x \in S : <<x>> \in Seq(S)
    OBVIOUS
  <2>3. h \in Seq(S)
    BY <1>4, <2>1, <2>2 DEF Request, Reply
  <2> QED BY <1>4, <2>3 DEF Frame, S
<1> QED BY <1>3, <1>4
-----------------------------------------------------------------------------
(* The steps *)

\* The queues H lose their heads, and the queues G get the frame g at their ends
\* (or nothing).
Turned(H, G, g) ==
  \A m \in Nodes : \A i \in 1 .. Len(inbox'[m]) :
    \/ IF m \in H THEN i + 1 \in 1 .. Len(inbox[m]) /\ inbox'[m][i] = inbox[m][i + 1]
       ELSE i \in 1 .. Len(inbox[m]) /\ inbox'[m][i] = inbox[m][i]
    \/ m \in G /\ i = Len(inbox'[m]) /\ inbox'[m][i] = g

(* Nothing has been sent in the beginning. *)
LEMMA InitStack == Init => StackInv
<1> SUFFICES ASSUME Init PROVE StackInv
  OBVIOUS
<1> USE DEF Init
<1>1. <<>> \in Seq(Frame) /\ <<>> \in Seq(Clients) /\ <<>> \in Seq(1 .. MaxSends)
      /\ <<>> \in Seq((1 .. MaxSends) \X (1 .. MaxSends)) /\ Len(<<>>) = 0
  OBVIOUS
<1>2. TypeOK /\ Len(sends) <= MaxSends
  <2>1. Len(sends) <= MaxSends
    BY <1>1, StackAssumption
  <2>2. late \subseteq 1 .. Len(sends) /\ multi_recv \subseteq 1 .. MaxSends
        /\ answered \subseteq 1 .. MaxSends
    OBVIOUS
  <2> QED BY <1>1, <2>1, <2>2 DEF TypeOK
<1>3. SlotInv /\ DeliveredInv
  BY <1>1 DEF SlotInv, DeliveredInv
<1>4. FrameInv
  BY <1>1 DEF FrameInv, Nodes
<1>5. OrderInv
  <2> SUFFICES ASSUME NEW c \in Clients PROVE InOrder(Stages(c))
    BY DEF OrderInv
  <2>1. Len(delivered) = 0 /\ Len(answers[c]) = 0 /\ Len(inbox[c]) = 0
        /\ Len(inbox[Gateway]) = 0 /\ Len(inbox[Server]) = 0
    BY <1>1 DEF Nodes
  <2>2. Stages(c) = <<{}, {}, {}, {}, {}, {}>>
    BY <2>1 DEF Stages
  <2>3. \A s \in 1 .. 6 : Stages(c)[s] = {}
    BY <2>2
  <2> QED BY <2>3 DEF InOrder
<1> QED BY <1>2, <1>3, <1>4, <1>5 DEF StackInv

(* A client's packet is heard by others. *)
LEMMA SendForm ==
  ASSUME StackInv, NEW c \in Clients, client_send(c),
         NEW g, g = [headers |-> Request(c), no |-> Len(sends) + 1, answer |-> FALSE]
  PROVE  /\ TypeOK' /\ Len(sends') <= MaxSends /\ Grows
         /\ Turned({}, Hearers(c, Request(c)), g)
         /\ g.no \in 1 .. Len(sends') /\ sends'[g.no] = c
<1>1. TypeOK /\ Distinct
  BY DistinctHolds DEF StackInv, TypeOK
<1>2. sends \in Seq(Clients) /\ Len(sends) \in Nat /\ Len(sends) < MaxSends
  BY <1>1 DEF TypeOK, client_send
<1>3. /\ sends' \in Seq(Clients) /\ Len(sends') = Len(sends) + 1 /\ sends'[Len(sends) + 1] = c
      /\ \A i \in 1 .. Len(sends) : sends'[i] = sends[i]
  BY <1>2, AppendProperties DEF client_send
<1>4. g \in Frame
  <2>1. Len(sends) + 1 \in 1 .. MaxSends /\ FALSE \in BOOLEAN /\ Request(c) \in {Request(c), Reply(c)}
    BY <1>2, StackAssumption
  <2> QED BY <1>1, <2>1, KnownIsFrame
<1>5. inbox' = Broadcast(inbox, c, g, 1)
  <2>1. client(c).send = Request(c)
    BY <1>1, ClientAccess
  <2> QED BY <2>1 DEF client_send, FrameOf
<1>6. /\ inbox' \in [Nodes -> Seq(Frame)]
      /\ Joined(inbox, inbox', Hearers(c, g.headers), g)
  <2>1. inbox \in [Nodes -> Seq(Frame)]
    BY <1>1 DEF TypeOK
  <2> QED BY <1>4, <1>5, <2>1, SpreadOnce
<1>7. Turned({}, Hearers(c, Request(c)), g)
  BY <1>6 DEF Turned, Joined
<1>8. Len(sends') <= MaxSends /\ Grows /\ g.no \in 1 .. Len(sends') /\ sends'[g.no] = c
  BY <1>2, <1>3, StackAssumption DEF Grows, client_send
<1>9. late' \subseteq 1 .. Len(sends')
  <2>1. late \subseteq 1 .. Len(sends) /\ (late' = late \/ late' = late \cup {Len(sends) + 1})
    BY <1>1 DEF client_send, TypeOK
  <2>2. 1 .. Len(sends) \subseteq 1 .. Len(sends') /\ Len(sends) + 1 \in 1 .. Len(sends')
    BY <1>2, <1>3
  <2> QED BY <2>1, <2>2
<1>10. TypeOK'
  BY <1>1, <1>3, <1>6, <1>9 DEF TypeOK, client_send
<1> QED BY <1>7, <1>8, <1>10

(* A client is handed the head of its queue. *)
LEMMA RecvForm ==
  ASSUME StackInv, NEW c \in Clients, client_recv(c)
  PROVE  /\ TypeOK' /\ Len(sends') <= MaxSends /\ Grows /\ \A g : Turned({c}, {}, g)
         /\ 1 \in 1 .. Len(inbox[c])
         /\ \A d \in Clients : \A i \in 1 .. Len(answers'[d]) :
              \/ i \in 1 .. Len(answers[d]) /\ answers'[d][i] = answers[d][i]
              \/ d = c /\ i = Len(answers'[d]) /\ answers'[d][i] = inbox[c][1].no
<1>1. TypeOK /\ c \in Nodes /\ inbox \in [Nodes -> Seq(Frame)] /\ inbox[c] # <<>>
      /\ inbox' = [inbox EXCEPT ![c] = Tail(@)]
  BY DEF StackInv, TypeOK, client_recv, Nodes
<1>2. /\ inbox' \in [Nodes -> Seq(Frame)]
      /\ 1 \in 1 .. Len(inbox[c]) /\ Head(inbox[c]) = inbox[c][1] /\ Head(inbox[c]) \in Frame
      /\ \A m \in Nodes : \A i \in 1 .. Len(inbox'[m]) :
           IF m = c THEN i + 1 \in 1 .. Len(inbox[m]) /\ inbox'[m][i] = inbox[m][i + 1]
           ELSE i \in 1 .. Len(inbox[m]) /\ inbox'[m][i] = inbox[m][i]
  BY <1>1, PopForm
<1> DEFINE no == inbox[c][1].no
<1>3. no \in 1 .. MaxSends /\ answers[c] \in Seq(1 .. MaxSends) /\ Len(answers[c]) \in Nat
  BY <1>1, <1>2 DEF Frame, TypeOK
<1>4. answers' = [answers EXCEPT ![c] = Append(answers[c], no)] /\ answers'[c] = Append(answers[c], no)
  BY <1>1, <1>2 DEF client_recv, TypeOK
<1> HIDE DEF no
<1>5. /\ Append(answers[c], no) \in Seq(1 .. MaxSends)
      /\ Len(answers'[c]) = Len(answers[c]) + 1 /\ answers'[c][Len(answers[c]) + 1] = no
      /\ \A i \in 1 .. Len(answers[c]) : answers'[c][i] = answers[c][i]
  BY <1>3, <1>4, AppendProperties
<1>6. ASSUME NEW d \in Clients, NEW i \in 1 .. Len(answers'[d])
      PROVE  \/ i \in 1 .. Len(answers[d]) /\ answers'[d][i] = answers[d][i]
             \/ d = c /\ i = Len(answers'[d]) /\ answers'[d][i] = no
  <2>1. CASE d = c
    BY <1>3, <1>5, <2>1
  <2>2. CASE d # c
    <3>1. answers'[d] = answers[d]
      BY <1>1, <1>4, <2>2 DEF TypeOK
    <3> QED BY <3>1
  <2> QED BY <2>1, <2>2
<1>7. \A g : Turned({c}, {}, g)
  BY <1>2 DEF Turned
<1>8. Len(sends') <= MaxSends /\ Grows
  BY <1>1 DEF StackInv, Grows, client_recv, TypeOK
<1>9. TypeOK'
  BY <1>1, <1>2, <1>4, <1>5 DEF TypeOK, client_recv
<1> QED BY <1>2, <1>6, <1>7, <1>8, <1>9 DEF no

(* A queue loses its head, and a frame joins others. *)
LEMMA PopAndJoin ==
  ASSUME TypeOK, NEW q \in Nodes, inbox[q] # <<>>, NEW G, NEW g,
         NEW rest, rest = [inbox EXCEPT ![q] = Tail(@)], Joined(rest, inbox', G, g)
  PROVE  Turned({q}, G, g)
<1>1. \A m \in Nodes : \A i \in 1 .. Len(rest[m]) :
        IF m = q THEN i + 1 \in 1 .. Len(inbox[m]) /\ rest[m][i] = inbox[m][i + 1]
        ELSE i \in 1 .. Len(inbox[m]) /\ rest[m][i] = inbox[m][i]
  BY PopForm DEF TypeOK
<1> QED BY <1>1 DEF Turned, Joined

(* The gateway passes the head of its queue on. *)
LEMMA ForwardForm ==
  ASSUME StackInv, gateway_forward, NEW f, f = inbox[Gateway][1],
         NEW g, g = [headers |-> Passed(f.headers), no |-> f.no, answer |-> f.answer]
  PROVE  /\ TypeOK' /\ Len(sends') <= MaxSends /\ Grows
         /\ Turned({Gateway}, Hearers(Gateway, g.headers), g)
         /\ program = "dns" /\ Known(f) /\ f.headers = AsSent(f) /\ 1 \in 1 .. Len(inbox[Gateway])
         /\ UNCHANGED <<program, slot, connected, multi_recv, sends, late, delivered,
                        answered, answers>>
<1>1. PICK rest : rest = [inbox EXCEPT ![Gateway] = Tail(@)]
  OBVIOUS
<1>2. PICK e : e = Head(inbox[Gateway])
  OBVIOUS
<1>3. /\ inbox[Gateway] # <<>> /\ program = "dns"
      /\ e \in Frame /\ Known(e) /\ e = inbox[Gateway][1] /\ e.headers = AsSent(e)
      /\ inbox' = Broadcast(rest, Gateway, [headers |-> Passed(e.headers), no |-> e.no,
                                            answer |-> e.answer], 1)
      /\ UNCHANGED <<program, slot, connected, multi_recv, sends, late, delivered,
                     answered, answers>>
  BY <1>1, <1>2, GatewayForm
<1>4. e = f /\ inbox' = Broadcast(rest, Gateway, g, 1)
  BY <1>3
<1>5. TypeOK /\ Distinct /\ Gateway \in Nodes /\ inbox \in [Nodes -> Seq(Frame)]
  BY DistinctHolds DEF StackInv, TypeOK, Nodes
<1>6. rest \in [Nodes -> Seq(Frame)] /\ 1 \in 1 .. Len(inbox[Gateway])
  BY <1>1, <1>3, <1>5, PopForm
<1>7. g \in Frame
  <2> DEFINE c == sends[f.no]
  <2>1. c \in Clients /\ f.no \in 1 .. MaxSends /\ f.answer \in BOOLEAN
    BY <1>3, <1>4, <1>5 DEF Known, TypeOK, Frame
  <2>2. f.headers \in {Request(c), Reply(c)}
    BY <1>3, <1>4 DEF AsSent
  <2> HIDE DEF c
  <2> QED BY <1>3, <1>5, <2>1, <2>2, KnownIsFrame
<1>8. inbox' \in [Nodes -> Seq(Frame)] /\ Joined(rest, inbox', Hearers(Gateway, g.headers), g)
  BY <1>4, <1>6, <1>7, SpreadOnce
<1>9. Turned({Gateway}, Hearers(Gateway, g.headers), g)
  BY <1>1, <1>3, <1>5, <1>8, PopAndJoin
<1>10. TypeOK'
  BY <1>3, <1>5, <1>8 DEF TypeOK
<1>11. Len(sends') <= MaxSends /\ Grows
  BY <1>3, <1>5 DEF StackInv, Grows, TypeOK
<1> QED BY <1>3, <1>4, <1>6, <1>9, <1>10, <1>11

\* The server's listener gets the packet at the head of the queue.
Serves(answer) ==
  LET f == inbox[Server][1]
  IN  /\ "generator" \in slot /\ generates(f.headers) /\ ~f.answer /\ Meant(sends[f.no])
      /\ delivered' = Append(delivered, <<f.no, f.no>>)
      /\ answered' = IF answer THEN answered \cup {f.no} ELSE answered

(* The server takes the head of its queue, and may answer it. *)
LEMMA ServeForm ==
  ASSUME StackInv, NEW keep \in BOOLEAN, NEW answer \in BOOLEAN, server_recv(keep, answer),
         NEW f, f = inbox[Server][1],
         NEW g, g = [headers |-> Reply(sends[f.no]), no |-> f.no, answer |-> TRUE]
  PROVE  /\ TypeOK' /\ Len(sends') <= MaxSends /\ Grows /\ SlotInv'
         /\ Known(f) /\ 1 \in 1 .. Len(inbox[Server])
         /\ UNCHANGED <<program, slot, connected, sends, late, answers>>
         /\ \/ /\ Serves(answer)
               /\ Turned({Server}, IF answer THEN Hearers(Server, g.headers) ELSE {}, g)
            \/ UNCHANGED <<delivered, answered>> /\ Turned({Server}, {}, g)
<1>1. PICK rest : rest = [inbox EXCEPT ![Server] = Tail(@)]
  OBVIOUS
<1>2. PICK e : e = Head(inbox[Server])
  OBVIOUS
<1> DEFINE a == FrameOf(access(e.headers), e.no, TRUE)
           Does == /\ "generator" \in slot /\ generates(e.headers) /\ ~e.answer
                   /\ Meant(sends[e.no]) /\ access(e.headers).send = Reply(sends[e.no])
                   /\ delivered' = Append(delivered, <<e.no, e.no>>)
                   /\ multi_recv' \in {multi_recv, multi_recv \cup {e.no}}
                   /\ answered' = IF answer THEN answered \cup {e.no} ELSE answered
                   /\ inbox' = Broadcast(rest, Server, a, IF answer THEN 1 ELSE 0)
           Drops == /\ UNCHANGED <<delivered, multi_recv, answered>>
                    /\ inbox' = Broadcast(rest, Server, a, 0)
<1>3. /\ inbox[Server] # <<>> /\ UNCHANGED <<program, slot, connected, sends, late, answers>>
      /\ e \in Frame /\ Known(e) /\ e = inbox[Server][1] /\ (Does \/ Drops)
  BY <1>1, <1>2, ServerForm
<1>4. e = f
  BY <1>3
<1>5. TypeOK /\ Distinct /\ Server \in Nodes /\ inbox \in [Nodes -> Seq(Frame)]
  BY DistinctHolds DEF StackInv, TypeOK, Nodes
<1>6. rest \in [Nodes -> Seq(Frame)] /\ 1 \in 1 .. Len(inbox[Server])
  BY <1>1, <1>3, <1>5, PopForm
<1>7. f.no \in 1 .. MaxSends /\ sends[f.no] \in Clients /\ f.no \in 1 .. Len(sends)
  BY <1>3, <1>4, <1>5 DEF Known, TypeOK, Frame
<1>8. g \in Frame
  <2>1. Reply(sends[f.no]) \in {Request(sends[f.no]), Reply(sends[f.no])} /\ TRUE \in BOOLEAN
    OBVIOUS
  <2> QED BY <1>5, <1>7, <2>1, KnownIsFrame
<1>9. Len(sends') <= MaxSends
  BY <1>3 DEF StackInv
<1> HIDE DEF Does, Drops, a
<1>10. ASSUME inbox' = rest PROVE inbox' \in [Nodes -> Seq(Frame)] /\ Turned({Server}, {}, g)
  <2>1. Joined(rest, inbox', {}, g)
    BY <1>10 DEF Joined
  <2> QED BY <1>1, <1>3, <1>5, <1>6, <1>10, <2>1, PopAndJoin
<1>11. CASE Drops
  <2>0. /\ delivered' = delivered /\ multi_recv' = multi_recv /\ answered' = answered
        /\ inbox' = Broadcast(rest, Server, a, 0)
    BY <1>11 DEF Drops
  <2>1. inbox' = rest
    BY <1>6, <2>0, SpreadNone
  <2>2. TypeOK'
    BY <1>3, <1>5, <1>10, <2>0, <2>1 DEF TypeOK
  <2>3. SlotInv'
    BY <1>3, <2>0 DEF StackInv, SlotInv
  <2>4. Grows
    BY <1>3, <1>5, <2>0 DEF TypeOK, Grows
  <2> QED BY <1>3, <1>4, <1>6, <1>9, <1>10, <2>0, <2>1, <2>2, <2>3, <2>4
<1>12. CASE Does
  <2>1. Serves(answer)
    BY <1>3, <1>4, <1>12 DEF Does, Serves
  <2>2. /\ inbox' \in [Nodes -> Seq(Frame)]
        /\ Turned({Server}, IF answer THEN Hearers(Server, g.headers) ELSE {}, g)
    <3>1. CASE answer
      <4>1. inbox' = Broadcast(rest, Server, g, 1)
        BY <1>4, <1>12, <3>1 DEF Does, FrameOf, a
      <4>2. inbox' \in [Nodes -> Seq(Frame)] /\ Joined(rest, inbox', Hearers(Server, g.headers), g)
        BY <1>6, <1>8, <4>1, SpreadOnce
      <4>3. Turned({Server}, Hearers(Server, g.headers), g)
        BY <1>1, <1>3, <1>5, <4>2, PopAndJoin
      <4> QED BY <3>1, <4>2, <4>3
    <3>2. CASE ~answer
      <4>1. inbox' = rest
        <5>1. inbox' = Broadcast(rest, Server, a, 0)
          BY <1>12, <3>2 DEF Does
        <5> QED BY <1>6, <5>1, SpreadNone
      <4> QED BY <1>10, <3>2, <4>1
    <3> QED BY <3>1, <3>2
  <2>3. delivered' \in Seq((1 .. MaxSends) \X (1 .. MaxSends))
    <3> DEFINE S == (1 .. MaxSends) \X (1 .. MaxSends)
               p == <<f.no, f.no>>
    <3>1. p \in S /\ delivered \in Seq(S) /\ delivered' = Append(delivered, p)
      BY <1>4, <1>5, <1>7, <1>12 DEF TypeOK, Does
    <3> HIDE DEF S, p
    <3>2. delivered' \in Seq(S)
      BY <3>1, AppendProperties
    <3> QED BY <3>2 DEF S
  <2>4. multi_recv' \subseteq 1 .. MaxSends /\ answered' \subseteq 1 .. MaxSends
    BY <1>4, <1>5, <1>7, <1>12 DEF TypeOK, Does
  <2>5. TypeOK'
    BY <1>3, <1>5, <2>2, <2>3, <2>4 DEF TypeOK
  <2>6. SlotInv'
    BY <1>3, <1>12 DEF StackInv, SlotInv, Does
  <2>7. Grows
    BY <1>3, <1>5, <1>12 DEF TypeOK, Grows, Does
  <2> QED BY <1>3, <1>4, <1>6, <1>9, <2>1, <2>2, <2>5, <2>6, <2>7
<1> QED BY <1>3, <1>11, <1>12

(* The frames, after a step: what is new must be known, at the gateway as  *)
(* it was sent, and at a client its own.                                   *)
LEMMA FramesKept ==
  ASSUME StackInv, TypeOK', Grows, NEW H, NEW G, NEW g, Turned(H, G, g),
         G # {} => Known(g)',
         Gateway \in G => program = "dns" /\ (g.headers = AsSent(g))',
         \A c \in Clients : c \in G => Owned(c, g.no)',
         \A c \in Clients : \A i \in 1 .. Len(answers'[c]) :
           \E no : answers'[c][i] = no /\ Owned(c, no)
  PROVE  FrameInv'
<1>1. /\ \A f : Known(f) => Known(f)' /\ AsSent(f)' = AsSent(f)
      /\ \A c, no : Owned(c, no) => Owned(c, no)'
  BY KnownKept DEF StackInv
<1>2. Clients \subseteq Nodes /\ Gateway \in Nodes /\ FrameInv /\ program' = program
  BY DEF Nodes, StackInv, Grows
<1>3. ASSUME NEW n \in Nodes, NEW i \in 1 .. Len(inbox'[n]), NEW e, e = inbox'[n][i]
      PROVE  /\ Known(e)'
             /\ n = Gateway => program = "dns" /\ e.headers = AsSent(e)'
             /\ n \in Clients => Owned(n, e.no)'
  <2>1. CASE n \in G /\ e = g
    BY <1>3, <2>1
  <2>2. CASE ~(n \in G /\ e = g)
    <3>1. PICK j \in 1 .. Len(inbox[n]) : e = inbox[n][j]
      BY <1>3, <2>2 DEF Turned
    <3>2. /\ Known(e)
          /\ n = Gateway => program = "dns" /\ e.headers = AsSent(e)
          /\ n \in Clients => Owned(n, e.no)
      BY <1>2, <3>1 DEF FrameInv
    <3> QED BY <1>1, <3>2
  <2> QED BY <2>1, <2>2
<1>4. \A n \in Nodes : \A i \in 1 .. Len(inbox'[n]) : Known(inbox[n][i])'
  <2> SUFFICES ASSUME NEW n \in Nodes, NEW i \in 1 .. Len(inbox'[n])
               PROVE  Known(inbox[n][i])'
    OBVIOUS
  <2>1. PICK e : e = inbox'[n][i]
    OBVIOUS
  <2>2. Known(e)'
    BY <1>3, <2>1
  <2> QED BY <2>1, <2>2 DEF Known, AsSent
<1>5. \A i \in 1 .. Len(inbox'[Gateway]) :
        (program = "dns" /\ inbox[Gateway][i].headers = AsSent(inbox[Gateway][i]))'
  <2> SUFFICES ASSUME NEW i \in 1 .. Len(inbox'[Gateway])
               PROVE  (program = "dns" /\ inbox[Gateway][i].headers = AsSent(inbox[Gateway][i]))'
    OBVIOUS
  <2>1. PICK e : e = inbox'[Gateway][i]
    OBVIOUS
  <2>2. program = "dns" /\ e.headers = AsSent(e)'
    BY <1>2, <1>3, <2>1
  <2> QED BY <1>2, <2>1, <2>2 DEF AsSent
<1>6. \A c \in Clients : \A i \in 1 .. Len(inbox'[c]) : Owned(c, inbox[c][i].no)'
  <2> SUFFICES ASSUME NEW c \in Clients, NEW i \in 1 .. Len(inbox'[c])
               PROVE  Owned(c, inbox[c][i].no)'
    OBVIOUS
  <2>1. PICK e : e = inbox'[c][i]
    OBVIOUS
  <2>2. Owned(c, e.no)'
    BY <1>2, <1>3, <2>1
  <2> QED BY <2>1, <2>2 DEF Owned
<1>7. \A c \in Clients : \A i \in 1 .. Len(answers'[c]) : Owned(c, answers[c][i])'
  <2> SUFFICES ASSUME NEW c \in Clients, NEW i \in 1 .. Len(answers'[c])
               PROVE  Owned(c, answers[c][i])'
    OBVIOUS
  <2>1. PICK no : answers'[c][i] = no /\ Owned(c, no)
    OBVIOUS
  <2>2. Owned(c, no)'
    BY <1>1, <2>1
  <2> QED BY <2>1, <2>2 DEF Owned
<1> QED BY <1>4, <1>5, <1>6, <1>7 DEF FrameInv

-----------------------------------------------------------------------------
(* The order, after a step *)

\* The queue that stage s of client c is in, for s > 2, and what belongs to it.
Place(c, s) == IF s = 3 THEN c ELSE IF s = 5 THEN Server ELSE Gateway
Passes(c, s, f) ==
  s # 3 => /\ sends[f.no] = c
           /\ IF s = 5 THEN generates(f.headers) ELSE f.answer <=> s = 4

InStage(c, s, x) ==
  \E m, i, e : /\ m = Place(c, s) /\ i \in 1 .. Len(inbox[m]) /\ e = inbox[m][i]
               /\ Passes(c, s, e) /\ x = <<i, e.no>>

(* The stages in the queues. *)
LEMMA StageForm == \A c \in Clients, s \in 3 .. 6 : \A x : x \in Stages(c)[s] <=> InStage(c, s, x)
<1> SUFFICES ASSUME NEW c \in Clients, NEW s \in 3 .. 6, NEW x
             PROVE  x \in Stages(c)[s] <=> InStage(c, s, x)
  OBVIOUS
<1> USE DEF InStage
<1>3. CASE s = 3
  <2>1. Stages(c)[s] = {<<i, inbox[c][i].no>> : i \in 1 .. Len(inbox[c])}
    BY <1>3 DEF Stages
  <2> QED BY <1>3, <2>1 DEF Place, Passes
<1>4. CASE s = 4
  <2>1. Stages(c)[s] = {<<i, inbox[Gateway][i].no>> :
                          i \in {j \in 1 .. Len(inbox[Gateway]) :
                                   inbox[Gateway][j].answer /\ sends[inbox[Gateway][j].no] = c}}
    BY <1>4 DEF Stages
  <2> QED BY <1>4, <2>1 DEF Place, Passes
<1>5. CASE s = 5
  <2>1. Stages(c)[s] = {<<i, inbox[Server][i].no>> :
                          i \in {j \in 1 .. Len(inbox[Server]) :
                                   generates(inbox[Server][j].headers)
                                   /\ sends[inbox[Server][j].no] = c}}
    BY <1>5 DEF Stages
  <2> QED BY <1>5, <2>1 DEF Place, Passes
<1>6. CASE s = 6
  <2>1. Stages(c)[s] = {<<i, inbox[Gateway][i].no>> :
                          i \in {j \in 1 .. Len(inbox[Gateway]) :
                                   ~inbox[Gateway][j].answer /\ sends[inbox[Gateway][j].no] = c}}
    BY <1>6 DEF Stages
  <2> QED BY <1>6, <2>1 DEF Place, Passes
<1> QED BY <1>3, <1>4, <1>5, <1>6

(* The first two stages. *)
LEMMA EndForm ==
  \A c \in Clients : \A x :
    /\ x \in Stages(c)[1] <=> \E i \in 1 .. Len(delivered) : \E e :
         e = delivered[i] /\ sends[e[2]] = c /\ x = <<i, e[2]>>
    /\ x \in Stages(c)[2] <=> \E i \in 1 .. Len(answers[c]) : x = <<i, answers[c][i]>>
<1> SUFFICES ASSUME NEW c \in Clients, NEW x
             PROVE  /\ x \in Stages(c)[1] <=> \E i \in 1 .. Len(delivered) : \E e :
                         e = delivered[i] /\ sends[e[2]] = c /\ x = <<i, e[2]>>
                    /\ x \in Stages(c)[2] <=>
                         \E i \in 1 .. Len(answers[c]) : x = <<i, answers[c][i]>>
  OBVIOUS
<1>1. /\ Stages(c)[1] = {<<i, delivered[i][2]>> :
                           i \in {j \in 1 .. Len(delivered) : sends[delivered[j][2]] = c}}
      /\ Stages(c)[2] = {<<i, answers[c][i]>> : i \in 1 .. Len(answers[c])}
  BY DEF Stages
<1> QED BY <1>1

(* Positions and packets are numbers. *)
LEMMA StagesAreSix == \A c \in Clients : TypeOK => Six(Stages(c))
<1> SUFFICES ASSUME NEW c \in Clients, TypeOK, NEW s \in 1 .. 6, NEW x, x \in Stages(c)[s]
             PROVE  x \in Nat \X Nat
  BY DEF Six
<1>1. 1 .. MaxSends \subseteq Nat
  BY StackAssumption
<1>2. CASE s = 1
  <2>1. PICK i, e : i \in 1 .. Len(delivered) /\ e = delivered[i] /\ x = <<i, e[2]>>
    BY <1>2, EndForm
  <2>2. e \in (1 .. MaxSends) \X (1 .. MaxSends)
    BY <2>1 DEF TypeOK
  <2> QED BY <1>1, <2>1, <2>2
<1>3. CASE s = 2
  <2>1. PICK i \in 1 .. Len(answers[c]) : x = <<i, answers[c][i]>>
    BY <1>3, EndForm
  <2>2. answers[c][i] \in 1 .. MaxSends
    <3>1. answers[c] \in Seq(1 .. MaxSends)
      BY DEF TypeOK
    <3>2. i \in 1 .. Len(answers[c])
      BY <2>1
    <3> QED BY <3>1, <3>2, ElementOfSeq
  <2> QED BY <1>1, <2>1, <2>2
<1>4. CASE s \in 3 .. 6
  <2>1. PICK m : m = Place(c, s) /\ m \in Nodes
    BY DEF Place, Nodes
  <2>2. PICK i, e : i \in 1 .. Len(inbox[m]) /\ e = inbox[m][i] /\ x = <<i, e.no>>
    <3>1. InStage(c, s, x)
      BY <1>4, StageForm
    <3> QED BY <2>1, <3>1 DEF InStage
  <2>3. e \in Frame
    BY <2>1, <2>2 DEF TypeOK
  <2>4. e.no \in 1 .. MaxSends
    BY <2>3 DEF Frame
  <2> QED BY <1>1, <2>2, <2>4
<1> QED BY <1>2, <1>3, <1>4

(* The same in the next state. *)
LEMMA StagesNext ==
  /\ (\A c \in Clients, s \in 3 .. 6 : \A x : x \in Stages(c)[s] <=> InStage(c, s, x))'
  /\ (\A c \in Clients : \A x :
        /\ x \in Stages(c)[1] <=> \E i \in 1 .. Len(delivered) : \E e :
             e = delivered[i] /\ sends[e[2]] = c /\ x = <<i, e[2]>>
        /\ x \in Stages(c)[2] <=> \E i \in 1 .. Len(answers[c]) : x = <<i, answers[c][i]>>)'
  /\ (\A c \in Clients : TypeOK => Six(Stages(c)))'
  BY StageForm, EndForm, StagesAreSix, PTL

\* A pair x of stage s was in it before, a place further back if the queue is one
\* of H; or it is the frame g, the last of a queue of G.
WasThere(P, H, c, s, x) ==
  IF Place(c, s) \in H THEN 0 < x[1] /\ <<x[1] + 1, x[2]>> \in P[s] ELSE x \in P[s]
IsNew(R, G, g, c, s, x) ==
  Place(c, s) \in G /\ x[2] = g.no /\ \A y \in R[s] : y[1] <= x[1]

(* Where the packets of the stages come from. *)
LEMMA Origins ==
  ASSUME StackInv, TypeOK', Grows, NEW H, NEW G, NEW g, Turned(H, G, g),
         NEW c \in Clients, NEW P, NEW R, P = Stages(c), R = Stages(c)',
         NEW s \in 3 .. 6, NEW x, x \in R[s]
  PROVE  WasThere(P, H, c, s, x) \/ (IsNew(R, G, g, c, s, x) /\ Passes(c, s, g)')
<1>1. PICK m : m = Place(c, s) /\ m \in Nodes
  BY DEF Place, Nodes
<1>2. \A y : y \in R[s] <=> InStage(c, s, y)'
  BY StagesNext
<1>3. \A y : y \in P[s] <=> InStage(c, s, y)
  BY StageForm
<1>4. PICK i, e : i \in 1 .. Len(inbox'[m]) /\ e = inbox'[m][i] /\ Passes(c, s, e)' /\ x = <<i, e.no>>
  BY <1>1, <1>2 DEF InStage, Place
<1>5. inbox'[m] \in Seq(Frame) /\ inbox[m] \in Seq(Frame) /\ Len(inbox'[m]) \in Nat
  BY <1>1 DEF StackInv, TypeOK
<1>6. CASE m \in G /\ i = Len(inbox'[m]) /\ e = g
  <2>1. ASSUME NEW y, y \in R[s] PROVE y[1] <= x[1]
    <3>1. PICK j, h : j \in 1 .. Len(inbox'[m]) /\ y = <<j, h.no>>
      BY <1>1, <1>2, <2>1 DEF InStage, Place
    <3> QED BY <1>4, <1>5, <1>6, <3>1
  <2> QED BY <1>1, <1>4, <1>6, <2>1 DEF IsNew
<1>7. ASSUME NEW j, j \in 1 .. Len(inbox[m]), e = inbox[m][j]
      PROVE  <<j, x[2]>> \in P[s]
  <2>1. Known(e)
    BY <1>1, <1>7 DEF StackInv, FrameInv
  <2>2. sends'[e.no] = sends[e.no] /\ generates(e.headers)' = generates(e.headers)
    BY <2>1, ProgramKept DEF Known, Grows
  <2>3. Passes(c, s, e)
    BY <1>4, <2>2 DEF Passes
  <2>4. InStage(c, s, <<j, e.no>>)
    BY <1>1, <1>7, <2>3 DEF InStage
  <2> QED BY <1>3, <1>4, <2>4
<1>8. CASE ~(m \in G /\ i = Len(inbox'[m]) /\ e = g)
  <2>1. IF m \in H THEN i + 1 \in 1 .. Len(inbox[m]) /\ e = inbox[m][i + 1]
        ELSE i \in 1 .. Len(inbox[m]) /\ e = inbox[m][i]
    BY <1>1, <1>4, <1>8 DEF Turned
  <2>2. x[1] = i /\ 0 < i
    BY <1>4
  <2>3. CASE m \in H
    BY <1>1, <1>7, <2>1, <2>2, <2>3 DEF WasThere
  <2>4. CASE m \notin H
    <3>1. <<i, x[2]>> \in P[s] /\ <<i, x[2]>> = x
      BY <1>4, <1>7, <2>1, <2>4
    <3> QED BY <1>1, <2>4, <3>1 DEF WasThere
  <2> QED BY <2>3, <2>4
<1> QED BY <1>6, <1>8

(* How the stages of a client arise, if only those of N can get packet n.  *)
LEMMA StagesArise ==
  ASSUME StackInv, TypeOK', Grows, NEW H, NEW G, NEW g, Turned(H, G, g),
         NEW c \in Clients, NEW P, NEW R, P = Stages(c), R = Stages(c)',
         NEW N, NEW n, n = g.no,
         \A s \in {1, 2} : \A x \in R[s] :
           x \in P[s] \/ (s \in N /\ x[2] = n /\ \A y \in R[s] : y[1] <= x[1]),
         \A s \in 3 .. 6 : Place(c, s) \in G /\ Passes(c, s, g)' => s \in N
  PROVE  Arises(P, R, {s \in 3 .. 6 : Place(c, s) \in H}, N, n)
<1> SUFFICES ASSUME NEW s \in 1 .. 6, NEW x, x \in R[s]
             PROVE  \/ IF s \in {t \in 3 .. 6 : Place(c, t) \in H}
                       THEN 0 < x[1] /\ <<x[1] + 1, x[2]>> \in P[s] ELSE x \in P[s]
                    \/ s \in N /\ x[2] = n /\ \A y \in R[s] : y[1] <= x[1]
  BY DEF Arises
<1>1. CASE s \in {1, 2}
  BY <1>1
<1>2. CASE s \in 3 .. 6
  <2>1. WasThere(P, H, c, s, x) \/ (IsNew(R, G, g, c, s, x) /\ Passes(c, s, g)')
    BY <1>2, Origins
  <2>2. CASE WasThere(P, H, c, s, x)
    BY <1>2, <2>2 DEF WasThere
  <2>3. CASE IsNew(R, G, g, c, s, x) /\ Passes(c, s, g)'
    BY <1>2, <2>3 DEF IsNew
  <2> QED BY <2>1, <2>2, <2>3
<1> QED BY <1>1, <1>2

(* The order is kept where nothing is added. *)
LEMMA OrderQuiet ==
  ASSUME StackInv, TypeOK', Grows, NEW H, NEW G, NEW g, Turned(H, G, g),
         NEW c \in Clients, NEW P, NEW R, P = Stages(c), R = Stages(c)',
         R[1] \subseteq P[1], R[2] \subseteq P[2],
         \A s \in 3 .. 6 : ~(Place(c, s) \in G /\ Passes(c, s, g)')
  PROVE  InOrder(R)
<1>1. Arises(P, R, {s \in 3 .. 6 : Place(c, s) \in H}, {}, g.no)
  <2>1. \A s \in {1, 2} : \A x \in R[s] :
          x \in P[s] \/ (s \in {} /\ x[2] = g.no /\ \A y \in R[s] : y[1] <= x[1])
    OBVIOUS
  <2>2. \A s \in 3 .. 6 : Place(c, s) \in G /\ Passes(c, s, g)' => s \in {}
    OBVIOUS
  <2> QED BY <2>1, <2>2, StagesArise
<1>2. Six(P) /\ Six(R) /\ InOrder(P)
  BY StagesAreSix, StagesNext DEF StackInv, OrderInv
<1> QED BY <1>1, <1>2, OrderShift

(* The first two stages, where nothing is delivered or handed to a client, *)
(* and where one packet is.                                                *)
LEMMA EndsArise ==
  ASSUME StackInv, TypeOK', Grows, NEW c \in Clients, NEW P, NEW R, P = Stages(c), R = Stages(c)'
  PROVE  /\ delivered' = delivered => R[1] \subseteq P[1]
         /\ answers'[c] = answers[c] => R[2] \subseteq P[2]
         /\ \A n : delivered' = Append(delivered, <<n, n>>) /\ n \in 1 .. Len(sends) =>
              \A x \in R[1] : \/ x \in P[1]
                              \/ x[2] = n /\ sends[n] = c /\ \A y \in R[1] : y[1] <= x[1]
<1>1. \A x : /\ x \in P[1] <=> \E i \in 1 .. Len(delivered) : \E e :
                  e = delivered[i] /\ sends[e[2]] = c /\ x = <<i, e[2]>>
             /\ x \in P[2] <=> \E i \in 1 .. Len(answers[c]) : x = <<i, answers[c][i]>>
  BY EndForm
<1>2. \A x : /\ x \in R[1] <=> \E i \in 1 .. Len(delivered') : \E e :
                  e = delivered'[i] /\ sends'[e[2]] = c /\ x = <<i, e[2]>>
             /\ x \in R[2] <=> \E i \in 1 .. Len(answers'[c]) : x = <<i, answers'[c][i]>>
  BY StagesNext
<1>3. ASSUME answers'[c] = answers[c] PROVE R[2] \subseteq P[2]
  BY <1>1, <1>2, <1>3
<1>4. \A i \in 1 .. Len(delivered) : sends'[delivered[i][2]] = sends[delivered[i][2]]
  BY DEF StackInv, DeliveredInv, Grows
<1>5. ASSUME NEW x, NEW i \in 1 .. Len(delivered'), i \in 1 .. Len(delivered),
             delivered'[i] = delivered[i], x = <<i, delivered'[i][2]>>, sends'[delivered'[i][2]] = c
      PROVE  x \in P[1]
  BY <1>1, <1>4, <1>5
<1>6. ASSUME delivered' = delivered PROVE R[1] \subseteq P[1]
  BY <1>2, <1>5, <1>6
<1>7. ASSUME NEW n, delivered' = Append(delivered, <<n, n>>), n \in 1 .. Len(sends),
             NEW x, x \in R[1]
      PROVE  \/ x \in P[1]
             \/ x[2] = n /\ sends[n] = c /\ \A y \in R[1] : y[1] <= x[1]
  <2> DEFINE S == (1 .. MaxSends) \X (1 .. MaxSends)
             p == <<n, n>>
  <2>1. p \in S /\ delivered \in Seq(S) /\ delivered' = Append(delivered, p)
    BY <1>7, StackAssumption DEF StackInv, TypeOK
  <2>2. p[2] = n
    OBVIOUS
  <2> HIDE DEF S, p
  <2>3. /\ Len(delivered) \in Nat /\ Len(delivered') = Len(delivered) + 1
        /\ delivered'[Len(delivered) + 1] = p
        /\ \A i \in 1 .. Len(delivered) : delivered'[i] = delivered[i]
    BY <2>1, AppendProperties, LenProperties
  <2>4. PICK i, e : /\ i \in 1 .. Len(delivered') /\ e = delivered'[i]
                    /\ sends'[e[2]] = c /\ x = <<i, e[2]>>
    BY <1>2, <1>7
  <2>5. CASE i \in 1 .. Len(delivered)
    BY <1>5, <2>3, <2>4, <2>5
  <2>6. CASE i = Len(delivered')
    <3>1. e = p /\ sends'[n] = sends[n]
      BY <1>7, <2>3, <2>4, <2>6 DEF Grows
    <3>2. \A y \in R[1] : y[1] \in 1 .. Len(delivered')
      BY <1>2
    <3> QED BY <2>2, <2>3, <2>4, <2>6, <3>1, <3>2
  <2> QED BY <2>3, <2>4, <2>5, <2>6
<1> QED BY <1>3, <1>6, <1>7

(* What is on its way has been sent. *)
LEMMA StageNumbers ==
  ASSUME StackInv, NEW c \in Clients, NEW s \in 1 .. 6, NEW x, x \in Stages(c)[s]
  PROVE  x[2] \in 1 .. Len(sends)
<1>1. CASE s = 1
  <2>1. PICK i, e : i \in 1 .. Len(delivered) /\ e = delivered[i] /\ x = <<i, e[2]>>
    BY <1>1, EndForm
  <2> QED BY <2>1 DEF StackInv, DeliveredInv
<1>2. CASE s = 2
  <2>1. PICK i \in 1 .. Len(answers[c]) : x = <<i, answers[c][i]>>
    BY <1>2, EndForm
  <2> QED BY <2>1 DEF StackInv, FrameInv, Owned
<1>3. CASE s \in 3 .. 6
  <2>1. PICK m : m = Place(c, s) /\ m \in Nodes
    BY DEF Place, Nodes
  <2>2. InStage(c, s, x)
    BY <1>3, StageForm
  <2>3. PICK i, e : i \in 1 .. Len(inbox[m]) /\ e = inbox[m][i] /\ x = <<i, e.no>>
    BY <2>1, <2>2 DEF InStage
  <2> QED BY <2>1, <2>3 DEF StackInv, FrameInv, Known
<1> QED BY <1>1, <1>2, <1>3

(* The gateway gets packets in dns only. *)
LEMMA NoGateway ==
  ASSUME StackInv, NEW c \in Clients, program # "dns"
  PROVE  Stages(c)[4] = {} /\ Stages(c)[6] = {}
<1>1. \A i : ~(i \in 1 .. Len(inbox[Gateway]))
  BY DEF StackInv, FrameInv
<1>2. Place(c, 4) = Gateway /\ Place(c, 6) = Gateway /\ 4 \in 3 .. 6 /\ 6 \in 3 .. 6
  BY DEF Place
<1>3. \A x : ~InStage(c, 4, x) /\ ~InStage(c, 6, x)
  BY <1>1, <1>2 DEF InStage
<1>4. \A x : ~(x \in Stages(c)[4]) /\ ~(x \in Stages(c)[6])
  BY <1>2, <1>3, StageForm
<1> QED BY <1>4

(* What comes through the generators was meant for the server. *)
LEMMA ComesThrough ==
  ASSUME StackInv, NEW f, Known(f), generates(f.headers), NEW c, c = sends[f.no]
  PROVE  /\ ~f.answer /\ Meant(c) /\ c \in Clients
         /\ f.headers = IF program = "dns" THEN Passed(Request(c)) ELSE Request(c)
<1>1. c \in Clients /\ Distinct
  BY DistinctHolds DEF StackInv, TypeOK, Known
<1> QED BY <1>1, GeneratesTable DEF Known, AsSent

(* A client that does not dial the server has no packets coming through.   *)
LEMMA NoneComing ==
  ASSUME StackInv, NEW c \in Clients, Dials[c] # Server
  PROVE  Stages(c)[5] = {}
<1>1. ASSUME NEW x, x \in Stages(c)[5] PROVE FALSE
  <2>1. InStage(c, 5, x) /\ Place(c, 5) = Server
    BY <1>1, StageForm DEF Place
  <2>2. PICK i, e : i \in 1 .. Len(inbox[Server]) /\ e = inbox[Server][i] /\ Passes(c, 5, e)
    BY <2>1 DEF InStage
  <2>3. Known(e) /\ generates(e.headers) /\ sends[e.no] = c
    BY <2>2 DEF StackInv, FrameInv, Nodes, Passes
  <2> QED BY <2>3, ComesThrough DEF Meant
<1> QED BY <1>1

(* A client's packet is the last on its way. *)
LEMMA SendOrder ==
  ASSUME StackInv, NEW c \in Clients, client_send(c)
  PROVE  OrderInv'
<1>1. PICK g : g = [headers |-> Request(c), no |-> Len(sends) + 1, answer |-> FALSE]
  OBVIOUS
<1> DEFINE G == Hearers(c, Request(c))
           n == g.no
<1>2. /\ TypeOK' /\ Grows /\ Turned({}, G, g) /\ sends'[n] = c
  BY <1>1, SendForm
<1>3. Distinct /\ Len(sends) \in Nat /\ n = Len(sends) + 1 /\ ~g.answer /\ g.headers = Request(c)
  BY <1>1, DistinctHolds DEF StackInv, TypeOK
<1>4. delivered' = delivered /\ answers' = answers /\ program' = program
  BY DEF client_send
<1> HIDE DEF G, n
<1> SUFFICES ASSUME NEW d \in Clients PROVE InOrder(Stages(d))'
  BY DEF OrderInv
<1>5. PICK P, R : P = Stages(d) /\ R = Stages(d)'
  OBVIOUS
<1>6. R[1] \subseteq P[1] /\ R[2] \subseteq P[2]
  BY <1>2, <1>4, <1>5, EndsArise
<1>7. Six(P) /\ Six(R) /\ InOrder(P)
  BY <1>2, <1>5, StagesAreSix, StagesNext DEF StackInv, OrderInv
<1>8. \A s \in 1 .. 6 : \A x \in P[s] : x[2] < n
  BY <1>3, <1>5, StageNumbers
<1> DEFINE New(s) == Place(d, s) \in G /\ Passes(d, s, g)'
<1>9. /\ New(3) => program # "dns" /\ Dials[d] = c /\ d # c
      /\ ~New(4)
      /\ New(5) => program # "dns" /\ d = c
      /\ New(6) => program = "dns" /\ d = c
  <2>1. New(3) => program # "dns" /\ Dials[d] = c /\ d # c
    BY <1>3, HearsTable DEF Place, G, Hearers
  <2>2. ~New(4)
    BY <1>3 DEF Passes
  <2>3. New(5) => program # "dns" /\ d = c
    <3>1. New(5) => generates(g.headers)' /\ d = c
      BY <1>2, <1>3 DEF Passes, n
    <3>2. generates(g.headers)' => generates(g.headers)
      BY <1>4, ProgramKept
    <3>3. generates(g.headers) => program # "dns"
      BY <1>3, GeneratesTable
    <3> QED BY <3>1, <3>2, <3>3
  <2>4. New(6) => program = "dns" /\ d = c
    BY <1>2, <1>3 DEF Passes, Place, G, Hearers, hears, Distinct, n
  <2> QED BY <2>1, <2>2, <2>3, <2>4
<1>10. PICK a \in {3, 5, 6} : /\ \A s \in 3 .. 6 : New(s) => s = a
                              /\ \A s \in 1 .. 6 : a < s /\ Nearer(a, s) => P[s] = {}
  <2>1. CASE d # c /\ program # "dns" /\ Dials[d] = c
    <3>1. P[4] = {} /\ P[6] = {} /\ P[5] = {}
      BY <1>3, <1>5, <2>1, NoGateway, NoneComing DEF Distinct
    <3>2. \A s \in 3 .. 6 : New(s) => s = 3
      BY <1>9, <2>1
    <3>3. \A s \in 1 .. 6 : 3 < s /\ Nearer(3, s) => P[s] = {}
      BY <3>1
    <3> QED BY <3>2, <3>3
  <2>2. CASE d = c /\ program # "dns"
    <3>1. P[6] = {}
      BY <1>5, <2>2, NoGateway
    <3>2. \A s \in 3 .. 6 : New(s) => s = 5
      BY <1>9, <2>2
    <3>3. \A s \in 1 .. 6 : 5 < s /\ Nearer(5, s) => P[s] = {}
      BY <3>1
    <3> QED BY <3>2, <3>3
  <2>3. CASE ~(d # c /\ program # "dns" /\ Dials[d] = c) /\ ~(d = c /\ program # "dns")
    <3>1. \A s \in 3 .. 6 : New(s) => s = 6
      BY <1>9, <2>3
    <3>2. \A s \in 1 .. 6 : ~(6 < s)
      OBVIOUS
    <3> QED BY <3>1, <3>2
  <2> QED BY <2>1, <2>2, <2>3
<1>11. Arises(P, R, {}, {a}, n)
  <2>1. \A s \in {1, 2} : \A x \in R[s] :
          x \in P[s] \/ (s \in {a} /\ x[2] = n /\ \A y \in R[s] : y[1] <= x[1])
    BY <1>6
  <2>2. \A s \in 3 .. 6 : Place(d, s) \in G /\ Passes(d, s, g)' => s \in {a}
    BY <1>10
  <2>3. n = g.no
    BY DEF n
  <2>4. Arises(P, R, {s \in 3 .. 6 : Place(d, s) \in {}}, {a}, n)
    BY <1>2, <1>5, <2>1, <2>2, <2>3, StagesArise
  <2>5. {s \in 3 .. 6 : Place(d, s) \in {}} = {}
    OBVIOUS
  <2> QED BY <2>4, <2>5
<1>12. InOrder(R)
  <2>1. a \in 1 .. 6 /\ n \in Nat
    BY <1>3
  <2> QED BY <1>7, <1>8, <1>10, <1>11, <2>1, OrderAdd
<1> QED BY <1>5, <1>12 DEF InOrder

(* A head of a queue is in the stage it belongs to. *)
LEMMA HeadInStage ==
  ASSUME NEW c \in Clients, NEW s \in 3 .. 6, NEW m, m = Place(c, s), 1 \in 1 .. Len(inbox[m]),
         NEW f, f = inbox[m][1], Passes(c, s, f)
  PROVE  <<1, f.no>> \in Stages(c)[s]
<1>1. InStage(c, s, <<1, f.no>>)
  BY DEF InStage
<1> QED BY <1>1, StageForm

(* A client is handed its packets in order. *)
LEMMA RecvOrder ==
  ASSUME StackInv, NEW c \in Clients, client_recv(c)
  PROVE  OrderInv'
<1>1. PICK g : g = inbox[c][1]
  OBVIOUS
<1>2. /\ TypeOK' /\ Grows /\ Turned({c}, {}, g) /\ 1 \in 1 .. Len(inbox[c])
      /\ \A d \in Clients : \A i \in 1 .. Len(answers'[d]) :
           \/ i \in 1 .. Len(answers[d]) /\ answers'[d][i] = answers[d][i]
           \/ d = c /\ i = Len(answers'[d]) /\ answers'[d][i] = inbox[c][1].no
  BY RecvForm
<1>3. Distinct /\ delivered' = delivered /\ TypeOK
  BY DistinctHolds DEF StackInv, TypeOK, client_recv
<1> SUFFICES ASSUME NEW d \in Clients PROVE InOrder(Stages(d))'
  BY DEF OrderInv
<1>4. PICK P, R : P = Stages(d) /\ R = Stages(d)'
  OBVIOUS
<1>5. R[1] \subseteq P[1]
  BY <1>2, <1>3, <1>4, EndsArise
<1>6. Six(P) /\ Six(R) /\ InOrder(P)
  BY <1>2, <1>4, StagesAreSix, StagesNext DEF StackInv, OrderInv
<1>7. CASE d # c
  <2>1. answers'[d] = answers[d]
    BY <1>3, <1>7 DEF client_recv, TypeOK
  <2>2. R[2] \subseteq P[2]
    BY <1>2, <1>4, <2>1, EndsArise
  <2>3. InOrder(R)
    BY <1>2, <1>4, <1>5, <2>2, OrderQuiet
  <2> QED BY <1>4, <2>3 DEF InOrder
<1>8. CASE d = c
  <2> DEFINE n == g.no
  <2>1. <<1, n>> \in P[3] /\ n \in Nat
    <3>1. c = Place(c, 3) /\ Passes(c, 3, g)
      BY DEF Place, Passes
    <3>2. <<1, n>> \in P[3]
      BY <1>1, <1>2, <1>4, <1>8, <3>1, HeadInStage
    <3> QED BY <1>6, <3>2 DEF Six
  <2>2. \A x \in R[2] : x \in P[2] \/ (2 \in {2} /\ x[2] = n /\ \A y \in R[2] : y[1] <= x[1])
    <3> SUFFICES ASSUME NEW x, x \in R[2]
                 PROVE  x \in P[2] \/ (x[2] = n /\ \A y \in R[2] : y[1] <= x[1])
      OBVIOUS
    <3>1. \A y : /\ y \in P[2] <=> \E i \in 1 .. Len(answers[c]) : y = <<i, answers[c][i]>>
                 /\ y \in R[2] <=> \E i \in 1 .. Len(answers'[c]) : y = <<i, answers'[c][i]>>
      BY <1>4, <1>8, EndForm, StagesNext
    <3>2. PICK i \in 1 .. Len(answers'[c]) : x = <<i, answers'[c][i]>>
      BY <3>1
    <3>3. CASE i \in 1 .. Len(answers[c]) /\ answers'[c][i] = answers[c][i]
      BY <3>1, <3>2, <3>3
    <3>4. CASE i = Len(answers'[c]) /\ answers'[c][i] = n
      <4>1. \A y \in R[2] : y[1] \in 1 .. Len(answers'[c])
        BY <3>1
      <4> QED BY <3>2, <3>4, <4>1
    <3> QED BY <1>1, <1>2, <3>2, <3>3, <3>4
  <2>3. Arises(P, R, {3}, {2}, n)
    <3>0. PICK H, G, N, k : H = {c} /\ G = {} /\ N = {2} /\ k = n
      OBVIOUS
    <3>1. \A s \in {1, 2} : \A x \in R[s] :
            x \in P[s] \/ (s \in N /\ x[2] = k /\ \A y \in R[s] : y[1] <= x[1])
      BY <1>5, <2>2, <3>0
    <3>2. \A s \in 3 .. 6 : Place(d, s) \in G /\ Passes(d, s, g)' => s \in N
      BY <3>0
    <3>3. Turned(H, G, g) /\ k = g.no /\ TypeOK' /\ Grows
      BY <1>2, <3>0
    <3>4. Arises(P, R, {s \in 3 .. 6 : Place(d, s) \in H}, N, k)
      BY <1>4, <3>1, <3>2, <3>3, StagesArise
    <3>5. {s \in 3 .. 6 : Place(d, s) \in H} = {3}
      BY <1>3, <1>8, <3>0 DEF Place, Distinct
    <3> QED BY <3>0, <3>4, <3>5
  <2>4. InOrder(R)
    <3> HIDE DEF n
    <3>0. PICK a, H, D : a = 3 /\ H = {3} /\ D = {2}
      OBVIOUS
    <3>1. /\ \A e \in D : e < a /\ Nearer(e, a)
                          /\ \A s \in 1 .. 6 : e < s /\ s < a /\ Nearer(e, s) => P[s] = {}
          /\ \A e, b \in D : e < b => ~Nearer(e, b)
          /\ D \in SUBSET (1 .. 6) /\ a \in H /\ a \in 1 .. 6
      BY <3>0 DEF Nearer
    <3>2. <<1, n>> \in P[a] /\ Arises(P, R, H, D, n)
      BY <2>1, <2>3, <3>0
    <3> QED BY <1>6, <2>1, <3>1, <3>2, OrderMove
  <2> QED BY <1>4, <2>4 DEF InOrder
<1> QED BY <1>7, <1>8

(* Moving a head to the ends of other stages keeps the order: what the     *)
(* steps below have in common.                                             *)
LEMMA HeadMoves ==
  ASSUME StackInv, TypeOK', Grows, NEW H, NEW G, NEW g, Turned(H, G, g),
         NEW c \in Clients, NEW P, NEW R, P = Stages(c), R = Stages(c)',
         NEW D \in SUBSET (1 .. 6), NEW a \in 3 .. 6, Place(c, a) \in H, <<1, g.no>> \in P[a],
         \A d \in D : d < a /\ Nearer(d, a)
                      /\ \A s \in 1 .. 6 : d < s /\ s < a /\ Nearer(d, s) => P[s] = {},
         \A d, e \in D : d < e => ~Nearer(d, e),
         \A s \in {1, 2} : \A x \in R[s] :
           x \in P[s] \/ (s \in D /\ x[2] = g.no /\ \A y \in R[s] : y[1] <= x[1]),
         \A s \in 3 .. 6 : Place(c, s) \in G /\ Passes(c, s, g)' => s \in D
  PROVE  InOrder(R)
<1>1. PICK n, S : n = g.no /\ S = {s \in 3 .. 6 : Place(c, s) \in H}
  OBVIOUS
<1>2. Arises(P, R, S, D, n)
  <2>1. \A s \in {1, 2} : \A x \in R[s] :
          x \in P[s] \/ (s \in D /\ x[2] = n /\ \A y \in R[s] : y[1] <= x[1])
    BY <1>1
  <2>2. \A s \in 3 .. 6 : Place(c, s) \in G /\ Passes(c, s, g)' => s \in D
    OBVIOUS
  <2>3. /\ StackInv /\ TypeOK' /\ Grows /\ Turned(H, G, g) /\ c \in Clients
        /\ P = Stages(c) /\ R = Stages(c)' /\ n = g.no
    BY <1>1
  <2>4. Arises(P, R, {s \in 3 .. 6 : Place(c, s) \in H}, D, n)
    BY ONLY <2>1, <2>2, <2>3, StagesArise
  <2> QED BY <1>1, <2>4
<1>3. Six(P) /\ Six(R) /\ InOrder(P)
  BY StagesAreSix, StagesNext DEF StackInv, OrderInv
<1>4. a \in S /\ a \in 1 .. 6 /\ <<1, n>> \in P[a]
  BY <1>1
<1>5. n \in Nat
  BY <1>3, <1>4 DEF Six
<1> QED BY <1>2, <1>3, <1>4, <1>5, OrderMove

(* The gateway passes packets and answers on in their order. *)
LEMMA ForwardOrder ==
  ASSUME StackInv, gateway_forward
  PROVE  OrderInv'
<1>1. PICK f, g : /\ f = inbox[Gateway][1]
                  /\ g = [headers |-> Passed(f.headers), no |-> f.no, answer |-> f.answer]
  OBVIOUS
<1>2. PICK H, G : H = {Gateway} /\ G = Hearers(Gateway, g.headers)
  OBVIOUS
<1>3. /\ TypeOK' /\ Grows /\ Turned(H, G, g)
      /\ program = "dns" /\ Known(f) /\ f.headers = AsSent(f) /\ 1 \in 1 .. Len(inbox[Gateway])
      /\ program' = program /\ sends' = sends /\ delivered' = delivered /\ answers' = answers
  BY <1>1, <1>2, ForwardForm
<1>4. PICK c : c = sends[f.no]
  OBVIOUS
<1>5. /\ Distinct /\ c \in Clients
      /\ g.no = f.no /\ g.answer = f.answer
      /\ g.headers = IF f.answer THEN Passed(Reply(c)) ELSE Passed(Request(c))
  BY <1>1, <1>3, <1>4, DistinctHolds DEF StackInv, TypeOK, Known, AsSent
<1> SUFFICES ASSUME NEW d \in Clients PROVE InOrder(Stages(d))'
  BY DEF OrderInv
<1>6. PICK P, R : P = Stages(d) /\ R = Stages(d)'
  OBVIOUS
<1>7. R[1] \subseteq P[1] /\ R[2] \subseteq P[2]
  BY <1>3, <1>6, EndsArise
<1> DEFINE New(s) == Place(d, s) \in G /\ Passes(d, s, g)'
<1>8. /\ New(3) => f.answer /\ d = c
      /\ ~New(4) /\ ~New(6)
      /\ New(5) => ~f.answer /\ d = c
  <2>1. New(3) => f.answer /\ d = c
    BY <1>2, <1>3, <1>5, HearsTable DEF Place, Hearers
  <2>2. ~New(4) /\ ~New(6)
    BY <1>2 DEF Place, Hearers
  <2>3. New(5) => generates(g.headers)' /\ d = c
    BY <1>3, <1>4, <1>5 DEF Passes
  <2>4. generates(g.headers)' => generates(g.headers)
    BY <1>3, ProgramKept
  <2>5. generates(g.headers) => ~f.answer
    BY <1>3, <1>5, GeneratesTable
  <2> QED BY <2>1, <2>2, <2>3, <2>4, <2>5
<1>9. PICK a, D : /\ a \in {4, 6} /\ D = {a - 1} /\ (a = 4 <=> f.answer)
  <2>1. CASE f.answer
    <3>1. 4 \in {4, 6} /\ {3} = {4 - 1}
      OBVIOUS
    <3> QED BY <2>1, <3>1
  <2>2. CASE ~f.answer
    <3>1. 6 \in {4, 6} /\ {5} = {6 - 1} /\ 6 # 4
      OBVIOUS
    <3> QED BY <2>2, <3>1
  <2> QED BY <2>1, <2>2
<1>10. CASE d = c
  <2>1. a \in 3 .. 6 /\ Place(d, a) = Gateway /\ Passes(d, a, f)
    BY <1>4, <1>9, <1>10 DEF Place, Passes
  <2>2. <<1, g.no>> \in P[a]
    BY <1>1, <1>3, <1>5, <1>6, <2>1, HeadInStage
  <2>3. D \in SUBSET (1 .. 6) /\ Place(d, a) \in H
    BY <1>2, <1>9, <2>1
  <2>4. /\ \A e \in D : e < a /\ Nearer(e, a)
                        /\ \A s \in 1 .. 6 : e < s /\ s < a /\ Nearer(e, s) => P[s] = {}
        /\ \A e, b \in D : e < b => ~Nearer(e, b)
    BY <1>9 DEF Nearer
  <2>5. \A s \in {1, 2} : \A x \in R[s] :
          x \in P[s] \/ (s \in D /\ x[2] = g.no /\ \A y \in R[s] : y[1] <= x[1])
    BY <1>7
  <2>6. \A s \in 3 .. 6 : Place(d, s) \in G /\ Passes(d, s, g)' => s \in D
    BY <1>8, <1>9
  <2>7. TypeOK' /\ Grows /\ Turned(H, G, g)
    BY <1>3
  <2>8. InOrder(R)
    BY <1>6, <2>1, <2>2, <2>3, <2>4, <2>5, <2>6, <2>7, HeadMoves
  <2> QED BY <1>6, <2>8 DEF InOrder
<1>11. CASE d # c
  <2>1. \A s \in 3 .. 6 : ~(Place(d, s) \in G /\ Passes(d, s, g)')
    BY <1>8, <1>11
  <2>2. InOrder(R)
    BY <1>3, <1>6, <1>7, <2>1, OrderQuiet
  <2> QED BY <1>6, <2>2 DEF InOrder
<1> QED BY <1>10, <1>11

(* The server delivers and answers packets in their order. *)
LEMMA ServeOrder ==
  ASSUME StackInv, NEW keep \in BOOLEAN, NEW answer \in BOOLEAN, server_recv(keep, answer)
  PROVE  OrderInv'
<1>1. PICK f, g : /\ f = inbox[Server][1]
                  /\ g = [headers |-> Reply(sends[f.no]), no |-> f.no, answer |-> TRUE]
  OBVIOUS
<1>2. /\ TypeOK' /\ Grows /\ Known(f) /\ 1 \in 1 .. Len(inbox[Server])
      /\ program' = program /\ sends' = sends /\ answers' = answers
      /\ \/ /\ Serves(answer)
            /\ Turned({Server}, IF answer THEN Hearers(Server, g.headers) ELSE {}, g)
         \/ delivered' = delivered /\ Turned({Server}, {}, g)
  BY <1>1, ServeForm
<1>3. PICK c : c = sends[f.no]
  OBVIOUS
<1>4. /\ Distinct /\ c \in Clients /\ f.no \in 1 .. Len(sends)
      /\ g.no = f.no /\ g.answer /\ g.headers = Reply(c)
  BY <1>1, <1>2, <1>3, DistinctHolds DEF StackInv, TypeOK, Known
<1> SUFFICES ASSUME NEW d \in Clients PROVE InOrder(Stages(d))'
  BY DEF OrderInv
<1>5. PICK P, R : P = Stages(d) /\ R = Stages(d)'
  OBVIOUS
<1>6. R[2] \subseteq P[2]
  BY <1>2, <1>5, EndsArise
<1>7. CASE delivered' = delivered /\ Turned({Server}, {}, g)
  <2>1. R[1] \subseteq P[1]
    BY <1>2, <1>5, <1>7, EndsArise
  <2>2. InOrder(R)
    BY <1>2, <1>5, <1>6, <1>7, <2>1, OrderQuiet
  <2> QED BY <1>5, <2>2 DEF InOrder
<1>8. CASE /\ Serves(answer)
           /\ Turned({Server}, IF answer THEN Hearers(Server, g.headers) ELSE {}, g)
  <2>0. PICK H, G : H = {Server} /\ G = IF answer THEN Hearers(Server, g.headers) ELSE {}
    OBVIOUS
  <2>1. H = {Server} /\ G \subseteq Hearers(Server, g.headers)
    BY <2>0
  <2>2. TypeOK' /\ Grows /\ Turned(H, G, g)
    BY <1>2, <1>8, <2>0
  <2>3. delivered' = Append(delivered, <<f.no, f.no>>) /\ generates(f.headers)
    BY <1>1, <1>8 DEF Serves
  <2>4. \A x \in R[1] : x \in P[1] \/ (x[2] = g.no /\ d = c /\ \A y \in R[1] : y[1] <= x[1])
    BY <1>2, <1>3, <1>4, <1>5, <2>3, EndsArise
  <2> DEFINE New(s) == Place(d, s) \in G /\ Passes(d, s, g)'
  <2>5. /\ New(3) => program # "dns" /\ d = c
        /\ New(4) => program = "dns" /\ d = c
        /\ ~New(5) /\ ~New(6)
    <3>1. New(3) => program # "dns" /\ d = c
      BY <1>4, <2>1, HearsTable DEF Place, Hearers
    <3>2. New(4) => program = "dns" /\ d = c
      <4>1. New(4) => program = "dns"
        BY <1>4, <2>1, HearsTable DEF Place, Hearers
      <4>2. New(4) => d = c
        BY <1>2, <1>3, <1>4 DEF Passes
      <4> QED BY <4>1, <4>2
    <3>3. ~New(5) /\ ~New(6)
      BY <1>4, <2>1 DEF Place, Hearers, Passes
    <3> QED BY <3>1, <3>2, <3>3
  <2>6. CASE d = c
    <3>1. PICK a, b, D : a = 5 /\ b = (IF program = "dns" THEN 4 ELSE 3) /\ D = {1, b}
      OBVIOUS
    <3>2. Place(d, 5) = Server /\ Passes(d, 5, f) /\ a \in 3 .. 6 /\ Place(d, a) \in H
      BY <1>3, <2>1, <2>3, <2>6, <3>1 DEF Place, Passes
    <3>3. <<1, g.no>> \in P[a]
      BY <1>1, <1>2, <1>4, <1>5, <3>1, <3>2, HeadInStage
    <3>4. program # "dns" => P[4] = {}
      BY <1>5, NoGateway
    <3>5. /\ \A e \in D : e < a /\ Nearer(e, a)
                          /\ \A s \in 1 .. 6 : e < s /\ s < a /\ Nearer(e, s) => P[s] = {}
          /\ \A e, i \in D : e < i => ~Nearer(e, i)
          /\ D \in SUBSET (1 .. 6)
      <4>1. CASE program = "dns"
        BY <3>1, <4>1 DEF Nearer
      <4>2. CASE program # "dns"
        BY <3>1, <3>4, <4>2 DEF Nearer
      <4> QED BY <4>1, <4>2
    <3>6. \A s \in {1, 2} : \A x \in R[s] :
            x \in P[s] \/ (s \in D /\ x[2] = g.no /\ \A y \in R[s] : y[1] <= x[1])
      BY <1>6, <2>4, <3>1
    <3>7. \A s \in 3 .. 6 : Place(d, s) \in G /\ Passes(d, s, g)' => s \in D
      BY <2>5, <3>1
    <3>8. InOrder(R)
      BY <1>5, <2>2, <3>2, <3>3, <3>5, <3>6, <3>7, HeadMoves
    <3> QED BY <1>5, <3>8 DEF InOrder
  <2>7. CASE d # c
    <3>1. \A s \in 3 .. 6 : ~(Place(d, s) \in G /\ Passes(d, s, g)')
      BY <2>5, <2>7
    <3>2. R[1] \subseteq P[1]
      BY <2>4, <2>7
    <3>3. InOrder(R)
      BY <1>5, <1>6, <2>2, <3>1, <3>2, OrderQuiet
    <3> QED BY <1>5, <3>3 DEF InOrder
  <2> QED BY <2>6, <2>7
<1> QED BY <1>2, <1>7, <1>8

-----------------------------------------------------------------------------
(* The frames and the deliveries, after a step *)

(* What was handed to the clients stays theirs. *)
LEMMA AnswersKept ==
  ASSUME StackInv, answers' = answers
  PROVE  \A c \in Clients : \A i \in 1 .. Len(answers'[c]) :
           \E no : answers'[c][i] = no /\ Owned(c, no)
  BY DEF StackInv, FrameInv

(* What no step changes but the server's. *)
LEMMA DeliveredKept ==
  ASSUME StackInv, TypeOK', Grows, delivered' = delivered
  PROVE  DeliveredInv'
<1> SUFFICES ASSUME NEW i \in 1 .. Len(delivered)
             PROVE  (/\ delivered[i][1] = delivered[i][2]
                     /\ delivered[i][2] \in 1 .. Len(sends) /\ Meant(sends[delivered[i][2]]))'
  BY DEF DeliveredInv
<1>1. /\ delivered[i][1] = delivered[i][2] /\ delivered[i][2] \in 1 .. Len(sends)
      /\ Meant(sends[delivered[i][2]])
  BY DEF StackInv, DeliveredInv
<1>2. /\ sends'[delivered[i][2]] = sends[delivered[i][2]] /\ program' = program
      /\ Len(sends) <= Len(sends')
  BY <1>1 DEF Grows
<1>3. delivered[i][2] \in 1 .. Len(sends')
  <2>1. Len(sends) \in Nat /\ Len(sends') \in Nat
    BY DEF StackInv, TypeOK
  <2> QED BY <1>1, <1>2, <2>1
<1> QED BY <1>1, <1>2, <1>3 DEF Meant, HasProt

(* A client sends. *)
LEMMA SendFrames ==
  ASSUME StackInv, NEW c \in Clients, client_send(c)
  PROVE  FrameInv' /\ DeliveredInv' /\ SlotInv'
<1>1. PICK g : g = [headers |-> Request(c), no |-> Len(sends) + 1, answer |-> FALSE]
  OBVIOUS
<1>2. PICK H, G : H = {} /\ G = Hearers(c, Request(c))
  OBVIOUS
<1>3. /\ TypeOK' /\ Grows /\ Turned(H, G, g) /\ sends'[g.no] = c /\ g.no \in 1 .. Len(sends')
  BY <1>1, <1>2, SendForm
<1>4. /\ Distinct /\ ~g.answer /\ g.headers = Request(c)
      /\ program' = program /\ delivered' = delivered /\ answers' = answers
      /\ slot' = slot /\ multi_recv' = multi_recv
  BY <1>1, DistinctHolds DEF StackInv, TypeOK, client_send
<1>5. (g.headers = AsSent(g))'
  <2>1. Request(c)' = Request(c)
    BY <1>4, ProgramKept
  <2> QED BY <1>3, <1>4, <2>1 DEF AsSent, Request, ProtOf, HasProt
<1>6. Known(g)'
  BY <1>3, <1>4, <1>5 DEF Known
<1>7. Gateway \in G => program = "dns"
  BY <1>2, <1>4, HearsTable DEF Hearers
<1>8. ASSUME NEW d \in Clients, d \in G PROVE Owned(d, g.no)'
  <2>1. Dials[d] = c /\ Dials[c] = d
    BY <1>2, <1>4, <1>8, HearsTable DEF Hearers
  <2> QED BY <1>3, <1>4, <2>1 DEF Owned, Distinct
<1>9. FrameInv'
  BY <1>3, <1>4, <1>5, <1>6, <1>7, <1>8, AnswersKept, FramesKept
<1> QED BY <1>3, <1>4, <1>9, DeliveredKept DEF StackInv, SlotInv

(* A client is handed something. *)
LEMMA RecvFrames ==
  ASSUME StackInv, NEW c \in Clients, client_recv(c)
  PROVE  FrameInv' /\ DeliveredInv' /\ SlotInv'
<1>1. PICK g, H, G : g = inbox[c][1] /\ H = {c} /\ G = {}
  OBVIOUS
<1>2. /\ TypeOK' /\ Grows /\ Turned(H, G, g) /\ 1 \in 1 .. Len(inbox[c])
      /\ \A d \in Clients : \A i \in 1 .. Len(answers'[d]) :
           \/ i \in 1 .. Len(answers[d]) /\ answers'[d][i] = answers[d][i]
           \/ d = c /\ i = Len(answers'[d]) /\ answers'[d][i] = inbox[c][1].no
  BY <1>1, RecvForm
<1>3. delivered' = delivered /\ slot' = slot /\ multi_recv' = multi_recv
  BY DEF client_recv
<1>4. Owned(c, g.no)
  BY <1>1, <1>2 DEF StackInv, FrameInv
<1>5. \A d \in Clients : \A i \in 1 .. Len(answers'[d]) :
        \E no : answers'[d][i] = no /\ Owned(d, no)
  <2> SUFFICES ASSUME NEW d \in Clients, NEW i \in 1 .. Len(answers'[d])
               PROVE  \E no : answers'[d][i] = no /\ Owned(d, no)
    OBVIOUS
  <2>1. CASE i \in 1 .. Len(answers[d]) /\ answers'[d][i] = answers[d][i]
    BY <2>1 DEF StackInv, FrameInv
  <2>2. CASE d = c /\ answers'[d][i] = inbox[c][1].no
    BY <1>1, <1>4, <2>2
  <2> QED BY <1>2, <2>1, <2>2
<1>6. FrameInv'
  <2>1. TypeOK' /\ Grows /\ Turned(H, G, g) /\ G = {}
    BY <1>1, <1>2
  <2> QED BY <1>5, <2>1, FramesKept
<1> QED BY <1>2, <1>3, <1>6, DeliveredKept DEF StackInv, SlotInv

(* The gateway passes something on. *)
LEMMA ForwardFrames ==
  ASSUME StackInv, gateway_forward
  PROVE  FrameInv' /\ DeliveredInv' /\ SlotInv'
<1>1. PICK f, g : /\ f = inbox[Gateway][1]
                  /\ g = [headers |-> Passed(f.headers), no |-> f.no, answer |-> f.answer]
  OBVIOUS
<1>2. PICK H, G : H = {Gateway} /\ G = Hearers(Gateway, g.headers)
  OBVIOUS
<1>3. /\ TypeOK' /\ Grows /\ Turned(H, G, g)
      /\ program = "dns" /\ Known(f) /\ f.headers = AsSent(f) /\ 1 \in 1 .. Len(inbox[Gateway])
      /\ program' = program /\ sends' = sends /\ delivered' = delivered /\ answers' = answers
      /\ slot' = slot /\ multi_recv' = multi_recv /\ answered' = answered
  BY <1>1, <1>2, ForwardForm
<1>4. PICK c : c = sends[f.no]
  OBVIOUS
<1>5. /\ Distinct /\ c \in Clients /\ g.no = f.no /\ g.answer = f.answer
      /\ g.headers = Passed(AsSent(f))
      /\ AsSent(f) = IF f.answer THEN Reply(c) ELSE Request(c)
  BY <1>1, <1>3, <1>4, DistinctHolds DEF StackInv, TypeOK, Known, AsSent
<1>6. Known(g)
  <2>1. AsSent(g) = AsSent(f)
    BY <1>5 DEF AsSent
  <2> QED BY <1>3, <1>5, <2>1 DEF Known
<1>7. Known(g)'
  BY <1>3, <1>6, KnownKept DEF StackInv
<1>8. Gateway \notin G
  BY <1>2 DEF Hearers
<1>9. ASSUME NEW d \in Clients, d \in G PROVE Owned(d, g.no)'
  <2>1. d = c /\ Dials[d] = Server /\ f.answer
    BY <1>2, <1>3, <1>5, <1>9, HearsTable DEF Hearers
  <2>2. Owned(d, g.no)
    BY <1>3, <1>4, <1>5, <2>1 DEF Owned, Known
  <2> QED BY <1>3, <2>2, KnownKept DEF StackInv
<1>10. FrameInv'
  <2>1. TypeOK' /\ Grows /\ Turned(H, G, g) /\ answers' = answers
    BY <1>3
  <2> QED BY <1>7, <1>8, <1>9, <2>1, AnswersKept, FramesKept
<1> QED BY <1>3, <1>10, DeliveredKept DEF StackInv, SlotInv

(* The server takes a frame. *)
LEMMA ServeFrames ==
  ASSUME StackInv, NEW keep \in BOOLEAN, NEW answer \in BOOLEAN, server_recv(keep, answer)
  PROVE  FrameInv' /\ DeliveredInv'
<1>1. PICK f, g : /\ f = inbox[Server][1]
                  /\ g = [headers |-> Reply(sends[f.no]), no |-> f.no, answer |-> TRUE]
  OBVIOUS
<1>2. /\ TypeOK' /\ Grows /\ Known(f) /\ 1 \in 1 .. Len(inbox[Server])
      /\ program' = program /\ sends' = sends /\ answers' = answers
      /\ \/ /\ Serves(answer)
            /\ Turned({Server}, IF answer THEN Hearers(Server, g.headers) ELSE {}, g)
         \/ delivered' = delivered /\ Turned({Server}, {}, g)
  BY <1>1, ServeForm
<1>3. PICK c : c = sends[f.no]
  OBVIOUS
<1>4. /\ Distinct /\ c \in Clients /\ f.no \in 1 .. Len(sends)
      /\ g.no = f.no /\ g.answer /\ g.headers = Reply(c)
  BY <1>1, <1>2, <1>3, DistinctHolds DEF StackInv, TypeOK, Known
<1>5. CASE delivered' = delivered /\ Turned({Server}, {}, g)
  <2>1. PICK H, G : H = {Server} /\ G = {}
    OBVIOUS
  <2>2. TypeOK' /\ Grows /\ Turned(H, G, g) /\ answers' = answers /\ G = {}
    BY <1>2, <1>5, <2>1
  <2>3. FrameInv'
    BY <2>2, AnswersKept, FramesKept
  <2> QED BY <1>2, <1>5, <2>3, DeliveredKept
<1>6. CASE /\ Serves(answer)
           /\ Turned({Server}, IF answer THEN Hearers(Server, g.headers) ELSE {}, g)
  <2>0. PICK H, G : H = {Server} /\ G = IF answer THEN Hearers(Server, g.headers) ELSE {}
    OBVIOUS
  <2>1. /\ TypeOK' /\ Grows /\ Turned(H, G, g) /\ answers' = answers
        /\ G \subseteq Hearers(Server, g.headers) /\ (G # {} => answer)
    BY <1>2, <1>6, <2>0
  <2>2. /\ delivered' = Append(delivered, <<f.no, f.no>>) /\ Meant(c)
        /\ answer => answered' = answered \cup {f.no}
    BY <1>1, <1>3, <1>6 DEF Serves
  <2>3. (g.headers = AsSent(g))'
    <3>1. Reply(c)' = Reply(c)
      BY <1>2, ProgramKept
    <3> QED BY <1>2, <1>3, <1>4, <3>1 DEF AsSent, Reply, ServerProt, HasProt
  <2>4. G # {} => Known(g)'
    BY <1>2, <1>4, <2>1, <2>2, <2>3 DEF Known
  <2>5. Gateway \in G => program = "dns"
    BY <1>4, <2>1, HearsTable DEF Hearers
  <2>6. ASSUME NEW d \in Clients, d \in G PROVE Owned(d, g.no)'
    <3>1. d = c /\ Dials[d] = Server
      BY <1>4, <2>1, <2>6, HearsTable DEF Hearers
    <3> QED BY <1>2, <1>3, <1>4, <2>1, <2>2, <2>6, <3>1 DEF Owned
  <2>7. FrameInv'
    BY <2>1, <2>3, <2>4, <2>5, <2>6, AnswersKept, FramesKept
  <2>8. DeliveredInv'
    <3> DEFINE S == (1 .. MaxSends) \X (1 .. MaxSends)
               p == <<f.no, f.no>>
    <3>1. p \in S /\ delivered \in Seq(S) /\ delivered' = Append(delivered, p)
      BY <1>4, <2>2, StackAssumption DEF StackInv, TypeOK
    <3>2. p[1] = f.no /\ p[2] = f.no
      OBVIOUS
    <3> HIDE DEF S, p
    <3>3. /\ Len(delivered) \in Nat /\ Len(delivered') = Len(delivered) + 1
          /\ delivered'[Len(delivered) + 1] = p
          /\ \A i \in 1 .. Len(delivered) : delivered'[i] = delivered[i]
      BY <3>1, AppendProperties, LenProperties
    <3> SUFFICES ASSUME NEW i \in 1 .. Len(delivered')
                 PROVE  (/\ delivered[i][1] = delivered[i][2]
                         /\ delivered[i][2] \in 1 .. Len(sends) /\ Meant(sends[delivered[i][2]]))'
      BY DEF DeliveredInv
    <3>4. PICK e : e = delivered'[i]
      OBVIOUS
    <3>5. e[1] = e[2] /\ e[2] \in 1 .. Len(sends) /\ Meant(sends[e[2]])
      <4>1. CASE i \in 1 .. Len(delivered)
        BY <3>3, <3>4, <4>1 DEF StackInv, DeliveredInv
      <4>2. CASE i = Len(delivered) + 1
        BY <1>3, <1>4, <2>2, <3>2, <3>3, <3>4, <4>2
      <4> QED BY <3>3, <4>1, <4>2
    <3> QED BY <1>2, <3>4, <3>5 DEF Meant, HasProt
  <2> QED BY <2>7, <2>8
<1> QED BY <1>2, <1>5, <1>6

-----------------------------------------------------------------------------
(* The theorems *)

(* No step breaks the invariant: the frames that travel, what has been     *)
(* delivered and the order of every client's packets fit together.         *)
LEMMA StackStep == StackInv /\ [Next]_vars => StackInv'
<1> SUFFICES ASSUME StackInv, [Next]_vars PROVE StackInv'
  OBVIOUS
<1>1. ASSUME NEW c \in Clients, client_send(c) PROVE StackInv'
  <2>1. PICK g : g = [headers |-> Request(c), no |-> Len(sends) + 1, answer |-> FALSE]
    OBVIOUS
  <2>2. TypeOK' /\ Len(sends') <= MaxSends
    BY <1>1, <2>1, SendForm
  <2> QED BY <1>1, <2>2, SendFrames, SendOrder DEF StackInv
<1>2. ASSUME NEW c \in Clients, client_recv(c) PROVE StackInv'
  BY <1>2, RecvForm, RecvFrames, RecvOrder DEF StackInv
<1>3. ASSUME gateway_forward PROVE StackInv'
  <2>1. PICK f, g : /\ f = inbox[Gateway][1]
                    /\ g = [headers |-> Passed(f.headers), no |-> f.no, answer |-> f.answer]
    OBVIOUS
  <2>2. TypeOK' /\ Len(sends') <= MaxSends
    BY <1>3, <2>1, ForwardForm
  <2> QED BY <1>3, <2>2, ForwardFrames, ForwardOrder DEF StackInv
<1>4. ASSUME NEW keep \in BOOLEAN, NEW answer \in BOOLEAN, server_recv(keep, answer)
      PROVE  StackInv'
  <2>1. PICK f, g : /\ f = inbox[Server][1]
                    /\ g = [headers |-> Reply(sends[f.no]), no |-> f.no, answer |-> TRUE]
    OBVIOUS
  <2>2. TypeOK' /\ Len(sends') <= MaxSends /\ SlotInv'
    BY <1>4, <2>1, ServeForm
  <2> QED BY <1>4, <2>2, ServeFrames, ServeOrder DEF StackInv
\* The steps that move no frame.
<1>5. ASSUME /\ UNCHANGED <<program, inbox, multi_recv, sends, late, delivered, answered, answers>>
             /\ TypeOK' /\ SlotInv'
      PROVE  StackInv'
  <2>1. Grows /\ Len(sends') <= MaxSends
    BY <1>5 DEF Grows, StackInv, TypeOK
  <2>2. PICK g, H, G : g = 0 /\ H = {} /\ G = {}
    OBVIOUS
  <2>3. Turned(H, G, g)
    BY <1>5, <2>2 DEF Turned
  <2>4. FrameInv' /\ DeliveredInv'
    <3>1. answers' = answers /\ delivered' = delivered /\ TypeOK'
      BY <1>5
    <3> QED BY <2>1, <2>2, <2>3, <3>1, AnswersKept, FramesKept, DeliveredKept
  <2>5. ASSUME NEW d \in Clients PROVE InOrder(Stages(d))'
    <3>1. PICK P, R : P = Stages(d) /\ R = Stages(d)'
      OBVIOUS
    <3>2. answers' = answers /\ delivered' = delivered /\ TypeOK'
      BY <1>5
    <3>3. R[1] \subseteq P[1] /\ R[2] \subseteq P[2]
      BY <2>1, <3>1, <3>2, EndsArise
    <3>4. InOrder(R)
      BY <2>1, <2>2, <2>3, <3>1, <3>2, <3>3, OrderQuiet
    <3> QED BY <3>1, <3>4 DEF InOrder
  <2> QED BY <1>5, <2>1, <2>4, <2>5 DEF StackInv, OrderInv
<1>6. ASSUME construct_multi_access PROVE StackInv'
  <2>1. TypeOK' /\ SlotInv'
    BY <1>6 DEF StackInv, TypeOK, SlotInv, construct_multi_access
  <2> QED BY <1>5, <1>6, <2>1 DEF construct_multi_access
<1>7. ASSUME connect_generator PROVE StackInv'
  <2>1. TypeOK' /\ SlotInv'
    BY <1>7 DEF StackInv, TypeOK, SlotInv, connect_generator
  <2> QED BY <1>5, <1>7, <2>1 DEF connect_generator
<1>8. ASSUME UNCHANGED vars PROVE StackInv'
  <2>1. TypeOK' /\ SlotInv'
    BY <1>8 DEF StackInv, TypeOK, SlotInv, vars
  <2> QED BY <1>5, <1>8, <2>1 DEF vars
<1> QED BY <1>1, <1>2, <1>3, <1>4, <1>6, <1>7, <1>8 DEF Next

(* The invariant holds in every reachable state of the stacks. *)
THEOREM StackInvariant == Spec => []StackInv
<1>1. StackInv /\ [Next]_vars => StackInv'
  BY StackStep
<1> QED BY InitStack, <1>1, PTL DEF Spec

(* The queues, the slot and the records of what was delivered, answered    *)
(* and handed over keep their types (every frame is made of headers of the *)
(* nodes and the protocols).                                               *)
THEOREM TypeCorrect == Spec => []TypeOK
<1>1. StackInv => TypeOK
  BY DEF StackInv
<1> QED BY StackInvariant, <1>1, PTL

(* In every stack, for any clients, whomever they dial, a client of the    *)
(* server is handed only answers to its own packets, each once and in the  *)
(* order of its packets; one that dials another client, what that one      *)
(* sends to it, in order.                                                  *)
THEOREM OwnAnswers == Spec => []OwnAnswersInOrder
<1>1. ASSUME StackInv PROVE OwnAnswersInOrder
  <2> SUFFICES ASSUME NEW c \in Clients, NEW i \in 1 .. Len(answers[c])
               PROVE  /\ IF Dials[c] = Server
                         THEN answers[c][i] \in answered /\ sends[answers[c][i]] = c
                         ELSE sends[answers[c][i]] = Dials[c] /\ Dials[sends[answers[c][i]]] = c
                      /\ \A j \in 1 .. i - 1 : answers[c][j] < answers[c][i]
    BY DEF OwnAnswersInOrder
  <2>1. Owned(c, answers[c][i])
    BY <1>1 DEF StackInv, FrameInv
  <2>2. ASSUME NEW j \in 1 .. i - 1 PROVE answers[c][j] < answers[c][i]
    <3>1. j \in 1 .. Len(answers[c]) /\ j < i
      <4>1. Len(answers[c]) \in Nat
        BY <1>1 DEF StackInv, TypeOK
      <4> QED BY <2>2, <4>1
    <3>2. PICK x, y : x = <<j, answers[c][j]>> /\ y = <<i, answers[c][i]>>
      OBVIOUS
    <3>3. x \in Stages(c)[2] /\ y \in Stages(c)[2]
      BY <3>1, <3>2, EndForm
    <3>4. InOrder(Stages(c)) /\ Nearer(2, 2) /\ 2 \in 1 .. 6
      BY <1>1 DEF StackInv, OrderInv, Nearer
    <3>5. x[1] < y[1]
      BY <3>1, <3>2
    <3>6. x[2] < y[2]
      BY <3>3, <3>4, <3>5 DEF InOrder
    <3> QED BY <3>2, <3>6
  <2> QED BY <2>1, <2>2 DEF Owned
<1> QED BY StackInvariant, <1>1, PTL

(* Only packets meant for the server and its protocol reach its listeners, *)
(* each once and through the access generated for it, however many         *)
(* accesses the server keeps in its multi_recv_listener.                   *)
THEOREM DeliveredOnce == Spec => []DeliveredOnceAndMeant
<1>1. ASSUME StackInv PROVE DeliveredOnceAndMeant
  <2>1. ASSUME NEW i \in 1 .. Len(delivered)
        PROVE  ForServer(delivered[i][2]) /\ delivered[i][1] = delivered[i][2]
    BY <1>1 DEF StackInv, DeliveredInv, Meant, ForServer
  <2>2. ASSUME NEW i \in 1 .. Len(delivered), NEW j \in 1 .. Len(delivered), i < j,
               delivered[i][2] = delivered[j][2]
        PROVE  FALSE
    <3>1. PICK c : c = sends[delivered[i][2]] /\ c \in Clients
      <4>1. sends \in Seq(Clients)
        BY <1>1 DEF StackInv, TypeOK
      <4>2. delivered[i][2] \in 1 .. Len(sends)
        BY <1>1 DEF StackInv, DeliveredInv
      <4>3. sends[delivered[i][2]] \in Clients
        BY <4>1, <4>2
      <4> QED BY <4>3
    <3>2. PICK x, y : x = <<i, delivered[i][2]>> /\ y = <<j, delivered[j][2]>>
      OBVIOUS
    <3>3. x \in Stages(c)[1] /\ y \in Stages(c)[1]
      BY <2>2, <3>1, <3>2, EndForm
    <3>4. InOrder(Stages(c)) /\ Nearer(1, 1) /\ 1 \in 1 .. 6
      BY <1>1, <3>1 DEF StackInv, OrderInv, Nearer
    <3>5. x[1] < y[1] /\ x[2] = y[2]
      BY <2>2, <3>2
    <3>6. x[2] < y[2]
      BY <3>3, <3>4, <3>5 DEF InOrder
    <3>7. x[2] \in Nat
      BY <1>1, <3>2 DEF StackInv, DeliveredInv
    <3> QED BY <3>5, <3>6, <3>7
  <2>3. \A i, j \in 1 .. Len(delivered) : delivered[j][2] = delivered[i][2] => i = j
    <3> SUFFICES ASSUME NEW i \in 1 .. Len(delivered), NEW j \in 1 .. Len(delivered),
                        delivered[j][2] = delivered[i][2], i # j
                 PROVE  FALSE
      OBVIOUS
    <3>1. i < j \/ j < i
      OBVIOUS
    <3> QED BY <2>2, <3>1
  <2> QED BY <2>1, <2>3 DEF DeliveredOnceAndMeant
<1> QED BY StackInvariant, <1>1, PTL
=============================================================================
