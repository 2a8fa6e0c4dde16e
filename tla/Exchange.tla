------------------------------ MODULE Exchange ------------------------------
(***************************************************************************)
(* What the bytes of the protocols amount to, end to end.  A behaviour is  *)
(* one of                                                                  *)
(*   frame  data goes down a stack of protocols, each putting its header   *)
(*          in front, over the medium, and up the same stack; ip4 and ptp  *)
(*          find the next hop in a routing table; an analyzer looks on;    *)
(*   dns    a server loads its records, a client's query travels to it in  *)
(*          such a frame, and the answer back; or another server answers,  *)
(*          which compresses names;                                        *)
(*   scan   arp_tool asks for every address of a subnet, given as text;    *)
(*   text   an address or a ptp path is read from text.                    *)
(***************************************************************************)
EXTENDS Integers, Sequences, FiniteSets, Dns, NetAnalyzer, Protocols, AddrText

CONSTANTS
  Frames,     \* [stack, data, table]: the protocols with their headers, lowest
              \* first; a route of the table is the mac address of the next hop
  DnsStack,   \* the protocols a dns message travels in
  RecordSets, \* the files a server may load: sequences of [type, name, val]
  Questions,  \* the lists of queries it may be asked
  SoaJunk,    \* what can follow the serial number of its start of authority
  Subnets,    \* the subnets scanned: [numbers, bits]
  Skip,       \* skip_addrs of the scan
  MinFrame,   \* the length up to which an interface pads a frame
  Texts,      \* [p, str, meant]: a text, the kind of address it is (or a path),
              \* and what is to be read from it (<<>>: nothing)
  MaxOctets   \* the octets for which there is memory

Byte == 0 .. 255
Word == 0 .. 65535
Octets(n) == {s \in Seq(Byte) : Len(s) = n}
IsSeq(s) == s \in Seq({s[i] : i \in 1 .. Len(s)})
NoHop == <<>>
MaxData == 65507   \* what a datagram carries
Payload == {d \in Seq(Byte) : Len(d) <= MaxData}

\* The headers of each protocol, by the widths of their fields.  What sending fills
\* in is left open.
Ether2Header(h) ==
  /\ h = [dest_addr |-> h.dest_addr, src_addr |-> h.src_addr, prot |-> h.prot]
  /\ h.dest_addr \in Octets(6) /\ h.src_addr \in Octets(6) /\ h.prot \in Word
ArpHeader(h) ==
  /\ h = [hard_type |-> h.hard_type, prot_type |-> h.prot_type, op |-> h.op,
          sender_hard |-> h.sender_hard, sender_prot |-> h.sender_prot,
          target_hard |-> h.target_hard, target_prot |-> h.target_prot]
  /\ h.hard_type \in Word /\ h.prot_type \in Word /\ h.op \in Word
  /\ h.sender_hard \in Seq(Byte) /\ Len(h.sender_hard) \in Byte
  /\ h.sender_prot \in Seq(Byte) /\ Len(h.sender_prot) \in Byte
  /\ h.target_hard \in Octets(Len(h.sender_hard)) /\ h.target_prot \in Octets(Len(h.sender_prot))
Ip4Header(h) ==
  /\ h = [version |-> h.version, header_len |-> h.header_len, tos |-> h.tos, total_len |-> h.total_len,
          id |-> h.id, flags |-> h.flags, frag_off |-> h.frag_off, ttl |-> h.ttl, prot |-> h.prot,
          checksum |-> h.checksum, src_addr |-> h.src_addr, dest_addr |-> h.dest_addr]
  /\ h.version \in 0 .. 15 /\ h.header_len \in 0 .. 15 /\ h.tos \in Byte /\ h.id \in Word
  /\ h.flags \in 0 .. 7 /\ h.frag_off \in 0 .. 8191 /\ h.ttl \in Byte /\ h.prot \in Byte
  /\ h.src_addr \in Octets(4) /\ h.dest_addr \in Octets(4)
IcmpHeader(h) ==
  /\ h = [type |-> h.type, code |-> h.code, checksum |-> h.checksum, sequence |-> h.sequence, id |-> h.id]
  /\ h.type \in Byte /\ h.code \in Byte /\ h.sequence \in Word /\ h.id \in Word
UdpHeader(h) ==
  /\ h = [src_port |-> h.src_port, dest_port |-> h.dest_port, len |-> h.len, checksum |-> h.checksum]
  /\ h.src_port \in Word /\ h.dest_port \in Word
EmpHeader(h) ==
  /\ h = [src_port |-> h.src_port, dest_port |-> h.dest_port]
  /\ h.src_port \in Seq(Byte) /\ h.dest_port \in Seq(Byte)
NspHeader(h) ==
  /\ h = [src_id |-> h.src_id, dest_id |-> h.dest_id]
  /\ h.src_id \in Seq(Byte) /\ h.dest_id \in Seq(Byte)
EapHeader(h) ==
  /\ h = [src_addr |-> h.src_addr, dest_addr |-> h.dest_addr, no_jumps |-> h.no_jumps, prot |-> h.prot]
  /\ h.src_addr \in Seq(Byte) /\ h.dest_addr \in Seq(Byte) /\ h.no_jumps \in Byte /\ h.prot \in Byte
PtpAction(a) ==
  \/ a.type = 0 /\ a = [type |-> 0, val |-> a.val] /\ a.val \in Byte
  \/ /\ a.type \in {1, 2} /\ a = [type |-> a.type, src |-> a.src, dest |-> a.dest]
     /\ a.src \in Seq(Byte) /\ a.dest \in Seq(Byte)
PtpHeader(h) ==
  /\ h = [actions |-> h.actions, curr_action |-> h.curr_action, no_jumps |-> h.no_jumps]
  /\ IsSeq(h.actions) /\ Len(h.actions) \in Byte
  /\ \A i \in 1 .. Len(h.actions) : PtpAction(h.actions[i])
  /\ h.curr_action \in Byte /\ h.no_jumps \in Byte
HeaderOf(p, h) ==
  CASE p = "ether2" -> Ether2Header(h) [] p = "arp" -> ArpHeader(h) [] p = "ip4" -> Ip4Header(h)
    [] p = "icmp" -> IcmpHeader(h) [] p = "udp" -> UdpHeader(h) [] p = "emp" -> EmpHeader(h)
    [] p = "nsp" -> NspHeader(h) [] p = "eap" -> EapHeader(h) [] p = "ptp" -> PtpHeader(h)
    [] OTHER -> FALSE

\* Nothing is sent over arp and icmp, and over udp only data; ether2 is the lowest
\* protocol, with its type for the one above.
IsStack(s) ==
  /\ IsSeq(s) /\ s # <<>>
  /\ \A i \in 1 .. Len(s) :
       /\ HeaderOf(s[i].p, s[i].h)
       /\ s[i].p \in {"arp", "icmp", "udp"} => i = Len(s)
       /\ s[i].p = "ether2" =>
            /\ i = 1 /\ Len(s) > 1 /\ s[2].p \in {"arp", "ip4", "ptp"}
            /\ s[2].p = "arp" => s[1].h.prot = ethertype_arp /\ s[2].h.op \in {arp_request, arp_reply}
            /\ s[2].p = "ip4" => s[1].h.prot = ethertype_ip4
            /\ s[2].p = "ptp" => s[1].h.prot \notin {ethertype_arp, ethertype_ip4}

\* The mask of a rule, of ptp or of ip4; its route is the mac address of the next hop.
OfPtp(mask) == "prefix" \in DOMAIN mask
IsTable(t) ==
  /\ IsSeq(t.rules)
  /\ \A i \in 1 .. Len(t.rules) :
       LET mask == t.rules[i].mask
       IN  /\ t.rules[i].route \in Octets(6)
           /\ IF OfPtp(mask) THEN mask.prefix \in Seq(Byte)
              ELSE mask.base \in Octets(4) /\ mask.bits \in 0 .. 32
  /\ t.default_gateway \in Octets(6) \cup {NoHop}

\* The rules are those of the protocol above ether2, a path is at one of its actions.
TableOf(s, t) ==
  s[1].p = "ether2" =>
    /\ \A i \in 1 .. Len(t.rules) : OfPtp(t.rules[i].mask) <=> s[2].p = "ptp"
    /\ s[2].p = "ptp" => s[2].h.curr_action < Len(s[2].h.actions)

ASSUME FramesAssumption ==
  /\ \A f \in Frames : /\ IsStack(f.stack) /\ IsTable(f.table) /\ TableOf(f.stack, f.table)
                       /\ f.data \in Payload
  /\ IsStack(DnsStack) /\ DnsStack[1].p = "ether2"
  /\ MinFrame \in Nat

\* The server has a database for each of two types; the names, which operator>>
\* reads, are not empty, and the value of a line that does not parse is.
ASSUME RecordsAssumption ==
  RecordSets \subseteq Seq([type : {a_type, mx_type}, name : Seq(Byte) \ {<<>>}, val : Seq(Byte)])

\* A subnet's text: the numbers sscanf reads and the one stoi reads, if any.
ASSUME SubnetsAssumption == Subnets \subseteq [numbers : Seq(Nat), bits : Seq(Int)]

VARIABLES
  kind, pc,
  stack,      \* the protocols the data travels through
  table,      \* the sender's routing table
  layers,     \* how many of them the bytes in wire have the headers of
  wire,       \* the bytes
  data,       \* what was sent
  pad,        \* the padding the interface added
  got,        \* the headers taken off, lowest first
  shown,      \* what an analyzer on the medium has printed, frame by frame
  file, loaded, db, \* the records, how many of them are loaded, the tries
  queries,    \* what the client asks
  server,     \* who has answered
  answer,     \* the message the client has read
  mask, curr_ip, requested, \* the scan: the next address, those asked for
  text,       \* the text given
  path,       \* what has been read of it
  addrs,      \* the addresses of a path's action that have been read
  pos, octets \* the loop over the symbols of an address

travel == <<stack, table, layers, wire, data, pad, got, shown>>
dns == <<file, loaded, db, queries, server, answer>>
scanning == <<mask, curr_ip, requested>>
reading == <<text, path, addrs, pos, octets>>
vars == <<kind, pc, travel, dns, scanning, reading>>
-----------------------------------------------------------------------------
TypeOK ==
  /\ kind \in {"frame", "dns", "scan", "text"}
  /\ pc \in {"load", "send", "recv", "serve", "read", "start", "scan", "parse", "done", "dropped",
             "invalid", "terminated", "overrun", "cut"}
  /\ layers \in 0 .. Len(stack)
  /\ wire \in Seq(Byte) /\ data \in Seq(Byte) /\ pad \in Seq({0})
  /\ Len(got) <= Len(stack)
  /\ octets \in Seq(Byte) /\ Len(octets) <= MaxOctets

NoTravel == /\ table = [rules |-> <<>>, default_gateway |-> NoHop]
            /\ stack = <<>> /\ wire = <<>> /\ data = <<>>
NoDns == file = <<>> /\ queries = <<>>
NoText == text = <<>>

Init ==
  /\ layers = 0 /\ got = <<>> /\ pad = <<>> /\ shown = <<>>
  /\ loaded = 0 /\ db = [t \in {a_type, mx_type} |-> empty_trie]
  /\ server = "none" /\ answer = <<>>
  /\ mask = <<>> /\ curr_ip = <<>> /\ requested = {}
  /\ path = <<>> /\ addrs = <<>> /\ pos = 0 /\ octets = <<>>
  /\ \/ /\ kind = "frame" /\ pc = "send" /\ NoDns /\ NoText
        /\ \E f \in Frames : stack = f.stack /\ wire = f.data /\ data = f.data /\ table = f.table
     \/ /\ kind = "dns" /\ pc = "load" /\ NoTravel /\ NoText
        /\ file \in RecordSets /\ queries \in Questions
     \/ kind = "scan" /\ pc = "start" /\ NoTravel /\ NoDns /\ text \in Subnets
     \/ kind = "text" /\ pc = "parse" /\ NoTravel /\ NoDns /\ text \in Texts
-----------------------------------------------------------------------------
(* Down and up the stack *)

\* What net_access_single's send_data puts into an ip4 header about the data.
ip4_header(h, bytes) == [h EXCEPT !.total_len = 20 + Len(bytes)]

\* The next hop of a packet, by the destination in its bytes: ip4's, or that of
\* the local connection a ptp path is at; with another action there is none.
create_send_access_from_routing_table(p, packet) ==
  LET rules == 1 .. Len(table.rules)
      ptp == extract_ptp(packet)[1]
      action == ptp.actions[ptp.curr_action + 1]
      ip == extract_ip4(packet)[1].dest_addr
  IN  IF p = "ip4" THEN find_route(table, {r \in rules : is_inside_subnet(table.rules[r].mask, ip)})
      ELSE IF action.type # 1 THEN NoHop
      ELSE find_route(table, {r \in rules : is_inside_ptp_subnet(table.rules[r].mask, action.dest)})

\* One protocol's send.  A packet for which there is no route is dropped.
send_layer ==
  LET l == stack[Len(stack) - layers]
      above == stack[Len(stack) - layers + 1].p
      routed == l.p = "ether2" /\ above \in {"ip4", "ptp"}
      hop == create_send_access_from_routing_table(above, wire)
      h == CASE l.p = "ip4" -> ip4_header(l.h, wire)
             [] routed -> [l.h EXCEPT !.dest_addr = hop]
             [] OTHER -> l.h
  IN  /\ pc = "send" /\ layers < Len(stack)
      /\ IF routed /\ hop = NoHop THEN pc' = "dropped" /\ UNCHANGED <<wire, layers>>
         ELSE /\ pc' = pc /\ layers' = layers + 1
              /\ wire' = send(l.p, h, wire) /\ fits_buff(l.p, wire')
      /\ UNCHANGED <<kind, stack, table, data, pad, got, shown, dns, scanning, reading>>

\* The message is longer than the buffer it is put together in.  What writing
\* beyond that does is undefined: nothing is said of what follows.
send_overruns ==
  LET l == stack[Len(stack) - layers]
  IN  /\ pc = "send" /\ layers < Len(stack)
      /\ ~fits_buff(l.p, send(l.p, l.h, wire))
      /\ pc' = "overrun"
      /\ UNCHANGED <<kind, travel, dns, scanning, reading>>

\* The medium hands a frame on, to the receivers and to the sniffer.  The virtual
\* net carries it as it is; a network card (external) pads a short one with zeros,
\* and pcap captures it with them.
VIRTUAL_NET_MSG_MAX_SZ == 4096
my_handler(padded, attached) ==
  LET short == stack[1].p = "ether2" /\ Len(wire) < MinFrame
  IN  /\ pc = "send" /\ layers = Len(stack) /\ (padded => short)
      /\ Len(wire) <= VIRTUAL_NET_MSG_MAX_SZ
      /\ pad' = IF padded THEN [i \in 1 .. MinFrame - Len(wire) |-> 0] ELSE <<>>
      /\ wire' = wire \o pad'
      /\ shown' = IF stack[1].p = "ether2" THEN sniffer_recv(shown, wire', attached) ELSE shown
      /\ pc' = "recv" /\ got' = <<>>
      /\ UNCHANGED <<kind, stack, table, layers, data, dns, scanning, reading>>

\* Of a longer frame a receiver of the virtual net takes what its buffer holds,
\* and the rest is lost (a network card sends none of it).  What the protocols
\* make of the part is not followed.
recv_truncates ==
  /\ pc = "send" /\ layers = Len(stack)
  /\ Len(wire) > VIRTUAL_NET_MSG_MAX_SZ
  /\ pc' = "cut"
  /\ UNCHANGED <<kind, travel, dns, scanning, reading>>

\* One protocol's handle_recv: the header, and the data behind it.  icmp hands
\* on all it got, arp the header alone.
recv_layer ==
  LET p == stack[Len(got) + 1].p
      e == extract(p, wire)
  IN  /\ pc = "recv" /\ layers > 0
      /\ got' = Append(got, e[1])
      /\ wire' = IF p = "icmp" THEN wire ELSE IF p = "arp" THEN <<>> ELSE drop(wire, e[2])
      /\ layers' = layers - 1
      /\ pc' = IF layers > 1 THEN pc
               ELSE IF kind = "frame" THEN "done"
               ELSE IF server = "none" THEN "serve" ELSE "read"
      /\ UNCHANGED <<kind, stack, table, data, pad, shown, dns, scanning, reading>>
-----------------------------------------------------------------------------
(* dns *)

load_record ==
  /\ pc = "load" /\ loaded < Len(file)
  /\ db' = add_record(db, file[loaded + 1]) /\ loaded' = loaded + 1
  /\ UNCHANGED <<kind, pc, travel, file, queries, server, answer, scanning, reading>>

Hand(message) ==
  /\ data' = message /\ wire' = data' /\ layers' = 0 /\ stack' = DnsStack
  /\ table' = [rules |-> <<>>, default_gateway |-> DnsStack[1].h.dest_addr]
  /\ pc' = "send"

\* The client sends one query; others may put several into a message.
send_request(ad, cd) ==
  /\ pc = "load" /\ loaded = Len(file)
  /\ Hand(With([request(queries[1], ad, cd) EXCEPT !.queries = queries], write_dns_message))
  /\ UNCHANGED <<kind, pad, got, shown, dns, scanning, reading>>

\* my_dns_handler's handle_recv of dns_server, which writes its reply into a buffer
\* of a fixed size.
tmp_buff == 4096
reply(ad, cd, junk) ==
  With(With(extract_dns_message(wire), LAMBDA m : handle_query(db, m, ad, cd, junk)), write_dns_message)

serve(ad, cd, junk) ==
  /\ pc = "serve"
  /\ Hand(reply(ad, cd, junk)) /\ Len(data') <= tmp_buff
  /\ server' = "own"
  /\ UNCHANGED <<kind, pad, got, shown, file, loaded, db, queries, answer, scanning, reading>>

\* As send_overruns.
serve_overruns(ad, cd, junk) ==
  /\ pc = "serve"
  /\ Len(reply(ad, cd, junk)) > tmp_buff
  /\ pc' = "overrun"
  /\ UNCHANGED <<kind, travel, dns, scanning, reading>>

\* Where the build has put a number above the serial number, copying the bytes
\* between throws length_error, which nobody catches.
serve_terminates ==
  /\ pc = "serve"
  /\ \E i \in 1 .. Len(queries) : ~record(db, queries[i]).found
  /\ pc' = "terminated"
  /\ UNCHANGED <<kind, travel, dns, scanning, reading>>

\* External: another server answers an a query, with 127.0.0.1 for the name as
\* a jump to the question, and a further answer for the name w.<name>.
serve_other ==
  LET q == queries[1]
      rest == htons(q.type) \o htons(q.class) \o <<0, 0, 14, 16, 0, 4, 127, 0, 0, 1>>
  IN  /\ pc = "serve" /\ Len(queries) = 1
      /\ Hand(SubSeq(wire, 1, 2) \o <<129, 128, 0, 1, 0, 2, 0, 0, 0, 0>> \o write_dns_query(q)
                \o <<192, 12>> \o rest \o <<1, 119, 192, 12>> \o rest)
      /\ server' = "other"
      /\ UNCHANGED <<kind, pad, got, shown, file, loaded, db, queries, answer, scanning, reading>>

read_answer ==
  /\ pc = "read"
  /\ answer' = extract_dns_message(wire) /\ pc' = "done"
  /\ UNCHANGED <<kind, travel, file, loaded, db, queries, server, scanning, reading>>
-----------------------------------------------------------------------------
(* arp_scanner's scan of a subnet, and scan_entire_subnet's loop *)

\* The delay option is looked for under another name, which throws.
arp_scanner_main(delay) ==
  LET parsed == str_to_ip4_subnet_mask(text)
  IN  /\ pc = "start"
      /\ IF delay THEN pc' = "terminated" /\ UNCHANGED <<mask, curr_ip>>
         ELSE IF parsed = <<>> THEN pc' = "invalid" /\ UNCHANGED <<mask, curr_ip>>
         ELSE pc' = "scan" /\ mask' = parsed[1] /\ curr_ip' = smallest_ip_addr_in_subnet(mask')
      /\ UNCHANGED <<kind, travel, dns, requested, reading>>

arp_request_for(ip) ==
  [hard_type |-> 1, prot_type |-> ethertype_ip4, op |-> arp_request,
   sender_hard |-> <<2, 0, 0, 0, 0, 1>>, sender_prot |-> <<10, 0, 0, 1>>,
   target_hard |-> <<0, 0, 0, 0, 0, 0>>, target_prot |-> ip]

scan ==
  /\ pc = "scan"
  /\ IF is_inside_subnet(mask, curr_ip)
     THEN /\ pc' = pc
          /\ wire' = IF curr_ip \in Skip THEN wire ELSE send("arp", arp_request_for(curr_ip), <<>>)
          /\ requested' = IF curr_ip \in Skip THEN requested
                          ELSE requested \cup {extract_arp(wire')[1].target_prot}
          /\ curr_ip' = generate_next_ip(curr_ip)
     ELSE pc' = "done" /\ UNCHANGED <<wire, requested, curr_ip>>
  /\ UNCHANGED <<kind, stack, table, layers, data, pad, got, shown, dns, mask, reading>>
-----------------------------------------------------------------------------
(* Text *)

\* The part of a path that is read, what it begins with, and its addresses.
item == split_str(text.str, " ; ")[Len(path) + 1]
parser == IF text.p # "path" THEN text.p ELSE IF item = <<>> THEN "none" ELSE item[1]
parts == IF text.p = "path" THEN split_str(Tail(item), " -> ") ELSE <<text.str>>
one_by_one == {"ptp", "eap", "emp", "nsp", "conn ", "switch "}

Invalid == pc' = "invalid" /\ UNCHANGED <<path, addrs, pos, octets>>
Read(value) ==
  /\ path' = Append(path, value) /\ addrs' = <<>> /\ pos' = 0 /\ octets' = <<>>
  /\ pc' = IF text.p = "path" /\ Len(path') < Len(split_str(text.str, " ; ")) THEN pc ELSE "done"

\* What is read as a whole.
str_to_ptp_endpoint ==
  /\ pc = "parse" /\ text.p = "path" /\ parser \notin one_by_one
  /\ IF parser = "endpoint " /\ Tail(item) \in {<<"start">>, <<"end">>}
     THEN Read([type |-> 0, val |-> IF Tail(item) = <<"start">> THEN 0 ELSE 1])
     ELSE Invalid
  /\ UNCHANGED <<kind, text, travel, dns, scanning>>

read_mac_addr ==
  LET read == str_to_mac_addr(text.str)
  IN  /\ pc = "parse" /\ parser = "mac"
      /\ IF read # <<>> THEN Read(read[1]) ELSE Invalid
      /\ UNCHANGED <<kind, text, travel, dns, scanning>>

\* ping's main: the interval, if one is given, is read as another type than it
\* is stored as, which throws.
ping_main(interval) ==
  LET read == str_to_ip4_addr(text.str)
  IN  /\ pc = "parse" /\ parser = "ip4"
      /\ IF read = <<>> THEN Invalid
         ELSE IF interval THEN pc' = "terminated" /\ UNCHANGED <<path, addrs, pos, octets>>
         ELSE Read(read[1])
      /\ UNCHANGED <<kind, text, travel, dns, scanning>>

\* dns_client's main: the server, and the type and class of the record (<<>>:
\* not given, when they are a and in).
dns_client_main ==
  LET server_ip == str_to_ip4_addr(text.str.server)
      type == IF text.str.type = <<>> THEN <<a_type>> ELSE str_to_dns_record_type(text.str.type[1])
      class == IF text.str.class = <<>> THEN <<1>> ELSE str_to_dns_record_class(text.str.class[1])
  IN  /\ pc = "parse" /\ parser = "dns"
      /\ IF <<>> \in {server_ip, type, class} THEN Invalid
         ELSE Read([server |-> server_ip[1], type |-> type[1], class |-> class[1]])
      /\ UNCHANGED <<kind, text, travel, dns, scanning>>

\* Mutant: no octet is stepped over in a ptp address either.
str_to_ptp_addr_stays == 0

\* How far each parser goes on behind an octet it has read: they are the same
\* but for this.
str_to_ptp_addr == 2
str_to_ptp_net_id == 0
str_to_eap_addr == 0
str_to_emp_port == 0
str_to_nsp_id == 0

advance == CASE parser \in {"ptp", "conn "} -> str_to_ptp_addr [] parser = "switch " -> str_to_ptp_net_id
             [] parser = "eap" -> str_to_eap_addr [] parser = "emp" -> str_to_emp_port
             [] parser = "nsp" -> str_to_nsp_id

\* One turn of the loop over the octets.  Whatever is thrown in it, for want of
\* memory too, makes the text invalid.
str_to_octet ==
  LET str == parts[Len(addrs) + 1]
      from == IF pos = 0 THEN 0 ELSE pos + 1
  IN  /\ pc = "parse" /\ parser \in one_by_one
      /\ text.p = "path" => Len(parts) = 2
      /\ pos < Len(str)
      /\ IF \/ pos # 0 /\ str[pos + 1] # "."
            \/ Len(str) - from < 2
            \/ ~is_hex(str[from + 1])
            \/ Len(octets) = MaxOctets
         THEN Invalid
         ELSE /\ octets' = Append(octets, stoul(SubSeq(str, from + 1, from + 2)))
              /\ pos' = from + advance
              /\ UNCHANGED <<pc, path, addrs>>
      /\ UNCHANGED <<kind, text, travel, dns, scanning>>

str_to_ptp_local_conn(read) == [type |-> 1, src |-> read[1], dest |-> read[2]]
str_to_ptp_net_switch(read) == [type |-> 2, src |-> read[1], dest |-> read[2]]

\* The address is read, or there are not two of them.
str_to_ptp_action ==
  LET read == Append(addrs, octets)
  IN  /\ pc = "parse" /\ parser \in one_by_one
      /\ IF text.p # "path" THEN pos >= Len(text.str) /\ Read(octets)
         ELSE IF Len(parts) # 2 THEN Invalid
         ELSE /\ pos >= Len(parts[Len(addrs) + 1])
              /\ IF Len(read) = 2
                 THEN Read(IF parser = "conn " THEN str_to_ptp_local_conn(read)
                           ELSE str_to_ptp_net_switch(read))
                 ELSE addrs' = read /\ pos' = 0 /\ octets' = <<>> /\ UNCHANGED <<pc, path>>
      /\ UNCHANGED <<kind, text, travel, dns, scanning>>

\* Everything is done.
finished ==
  pc \in {"done", "dropped", "invalid", "terminated", "overrun", "cut"} /\ UNCHANGED vars

Next ==
  \/ send_layer \/ recv_layer \/ load_record
  \/ send_overruns \/ recv_truncates
  \/ \E padded, attached \in BOOLEAN : my_handler(padded, attached)
  \/ \E ad, cd \in {0, 1} : \/ send_request(ad, cd)
                            \/ \E junk \in SoaJunk : \/ serve(ad, cd, junk)
                                                      \/ serve_overruns(ad, cd, junk)
  \/ serve_terminates \/ serve_other \/ read_answer
  \/ scan \/ \E delay \in BOOLEAN : arp_scanner_main(delay)
  \/ str_to_ptp_endpoint \/ read_mac_addr \/ str_to_octet \/ str_to_ptp_action
  \/ dns_client_main \/ \E interval \in BOOLEAN : ping_main(interval)
  \/ finished

Spec == Init /\ [][Next]_vars /\ WF_vars(Next)
-----------------------------------------------------------------------------
\* The headers the stack was given, without the fields that sending fills in.
Given(l) == [f \in DOMAIN l.h \ {"len", "checksum", "total_len", "flags"} |-> l.h[f]]
Routed == Len(stack) > 1 /\ stack[1].p = "ether2" /\ stack[2].p \in {"ip4", "ptp"}

(***************************************************************************)
(* The receiver's protocols get the headers and the data that were sent,   *)
(* whatever bytes addresses, ports and data consist of (0 is the escape    *)
(* byte of the addresses of eap, emp, nsp and ptp): with the padding of a  *)
(* short frame behind the data, since no protocol looks at its length      *)
(* field, with udp's length of header and data, and with no flags in the   *)
(* ip4 header, whose extraction loses them.  So for what the buffers of    *)
(* senders and receivers hold.                                             *)
(***************************************************************************)
FrameKept ==
  (kind = "frame" /\ pc = "done") =>
    /\ \A i \in 1 .. Len(stack) :
         LET h == IF i = 1 /\ Routed THEN [Given(stack[1]) EXCEPT !.dest_addr = got[1].dest_addr]
                  ELSE Given(stack[i])
         IN  /\ \A f \in DOMAIN h : got[i][f] = h[f]
             /\ stack[i].p = "udp" => got[i].len = 8 + Len(data)
             /\ stack[i].p = "ip4" => got[i].flags = 0
    /\ LET top == stack[Len(stack)].p
       IN  top # "arp" => (IF top = "icmp" THEN drop(wire, 8) ELSE wire) = data \o pad

(***************************************************************************)
(* The checksums ip4 and icmp send verify: the sum over the received       *)
(* header, or message with its data and padding, checksum included, is 0.  *)
(***************************************************************************)
ChecksumVerifies ==
  (pc = "recv" /\ layers > 0) =>
    LET p == stack[Len(got) + 1].p
    IN  /\ p = "ip4" => internet_checksum(SubSeq(wire, 1, 20)) = 0
        /\ p = "icmp" => internet_checksum(wire) = 0

\* No ip4 mask of the table ends within an octet.
WholeOctets == \A i \in 1 .. Len(table.rules) :
                 LET m == table.rules[i].mask IN OfPtp(m) \/ m.bits % 8 = 0

\* a's first n octets are b's.
Prefix(n, a, b) == n <= Len(b) /\ SubSeq(a, 1, n) = SubSeq(b, 1, n)

(***************************************************************************)
(* A packet goes to the next hop of the first of the rules with the        *)
(* longest prefix of its destination, else to the default gateway, else    *)
(* nowhere.  ip4: for masks of whole octets (is_inside_subnet compares the *)
(* lowest bits of the octet in which another mask ends).  ptp: the         *)
(* destination of the local connection the path is at, which is not inside *)
(* the subnet that it is the prefix of; nowhere with any other action.     *)
(***************************************************************************)
RoutedByLongestPrefix ==
  (kind = "frame" /\ Routed /\ WholeOctets /\ pc \in {"done", "dropped"}) =>
    LET r == table.rules
        h == stack[2].h
        ip == stack[2].p = "ip4"
        at == h.actions[h.curr_action + 1]
        len(j) == IF ip THEN r[j].mask.bits \div 8 ELSE Len(r[j].mask.prefix)
        fits(j) == IF ip THEN Prefix(len(j), r[j].mask.base, h.dest_addr)
                   ELSE Prefix(len(j), r[j].mask.prefix, at.dest) /\ r[j].mask.prefix # at.dest
        best == {j \in 1 .. Len(r) : /\ fits(j)
                  /\ \A k \in 1 .. Len(r) : fits(k) => len(k) < len(j) \/ (len(k) = len(j) /\ j <= k)}
        hop == IF ~ip /\ at.type # 1 THEN NoHop
               ELSE IF best = {} THEN table.default_gateway
               ELSE r[CHOOSE j \in best : TRUE].route
    IN  IF hop = NoHop THEN pc = "dropped" ELSE pc = "done" /\ got[1].dest_addr = hop

(***************************************************************************)
(* What the analyzer shows of a frame on the medium is what its sender put *)
(* there: addresses and protocols, for an arp reply the pair it announces. *)
(* (Of arp addresses of other lengths than those of ip4 and ether2 it      *)
(* shows four and six octets.)                                             *)
(***************************************************************************)
AnalyzerShowsTheSender ==
  shown # <<>> =>
    LET e == stack[1].h
        p == stack[2].p
        h == stack[2].h
        line == Last(shown)
        ip(addr) == IF h.prot_type = ethertype_ip4 THEN addr ELSE <<>>
    IN  /\ line[1].src = e.src_addr /\ line[1].carries = e.prot
        /\ Len(line) = IF p = "ptp" THEN 1 ELSE 2
        /\ p = "ip4" => /\ line[2].src = h.src_addr /\ line[2].dest = h.dest_addr
                        /\ line[2].prot = p /\ line[2].carries = h.prot
        /\ (p = "arp" /\ Len(h.sender_prot) = 4 /\ Len(h.sender_hard) = 6) =>
                        /\ line[2].prot = p
                        /\ IF h.op = arp_request THEN line[2].asks = ip(h.target_prot)
                           ELSE line[2].ip = ip(h.sender_prot) /\ line[2].is = h.sender_hard

\* The records of the file that was loaded, latest first, that answer q.
Answering(q) ==
  SelectSeq(Reverse(file), LAMBDA r : r.type = q.type /\ Append(r.name, 0) = q.name /\ r.val # <<>>)

(***************************************************************************)
(* A dns client that asks this server gets its own questions back, under   *)
(* its id, as a response, and for each of them, in order, the value of the *)
(* last record of that name and type in the database file, or else a start *)
(* of authority: a name that merely begins another one's is not found.     *)
(* (The value is that of an a record.  The domain an mx record is answered *)
(* with lacks its last character: of that nothing is said here.)           *)
(***************************************************************************)
AnswersMatchDatabase ==
  (kind = "dns" /\ pc = "done" /\ server = "own") =>
    LET m == answer
        hit == SelectSeq(queries, LAMBDA q : Answering(q) # <<>>)
    IN  /\ m.header.id = 35152 /\ m.header.qr = 1 /\ m.header.rcode = 0
        /\ m.queries = queries
        /\ Len(m.ans) = Len(hit) /\ Len(m.ans_auth) = Len(queries) - Len(hit)
        /\ \A i \in 1 .. Len(hit) :
             LET val == Answering(hit[i])[1].val
             IN  /\ m.ans[i].name = hit[i].name /\ m.ans[i].type = hit[i].type
                 /\ m.ans[i].ttl = 3600
                 /\ hit[i].type = a_type => m.ans[i].rdata = val

(***************************************************************************)
(* A client reads the answers of a server that compresses names: both      *)
(* answers are found where they are, with the names the jumps stand for.   *)
(* (Of the ttl the upper two bytes are read.)                              *)
(***************************************************************************)
CompressedAnswersRead ==
  (kind = "dns" /\ pc = "done" /\ server = "other") =>
    LET m == answer
    IN  /\ m.queries = queries /\ Len(m.ans) = 2 /\ m.header.ra = 1
        /\ m.ans[1].name = queries[1].name /\ m.ans[2].name = <<119, dot>> \o queries[1].name
        /\ \A i \in {1, 2} : m.ans[i].rdata = <<127, 0, 0, 1>> /\ m.ans[i].ttl = 0

\* The addresses of the subnet a text shows: those that agree with its address in
\* as many of the highest bits as the mask has.
AddressesOf(t) ==
  LET n == t.bits[1] \div 8
      size == 2 ^ (8 - (t.bits[1] % 8))
      first == size * (t.numbers[n + 1] \div size)
      part(k) == IF k <= n THEN {t.numbers[k]}
                 ELSE IF k = n + 1 THEN first .. first + size - 1 ELSE Byte
  IN  {<<a, b, c, d>> : a \in part(1), b \in part(2), c \in part(3), d \in part(4)}

\* The numbers are octets, and the mask does not end within one.
OctetMask(t) == (t.bits[1] % 8 = 0) /\ \A i \in 1 .. Len(t.numbers) : t.numbers[i] \in Byte

(***************************************************************************)
(* A scan of a subnet whose mask ends at an octet asks for the addresses   *)
(* of that subnet, each but the skipped, and for no other, whatever the    *)
(* address before the slash has in the octets behind the mask.             *)
(***************************************************************************)
ScanAsksSubnet ==
  (kind = "scan" /\ pc = "done" /\ OctetMask(text)) => requested = AddressesOf(text) \ Skip

(***************************************************************************)
(* arp_scanner.cpp: "scan all ip addresses in a subnet".  Does not hold    *)
(* where the mask ends within an octet: of that octet the lowest bits are  *)
(* kept and compared, so that other addresses are asked for.               *)
(***************************************************************************)
EverySubnetIsScanned ==
  (kind = "scan" /\ pc = "done") => requested = AddressesOf(text) \ Skip

(***************************************************************************)
(* The scan's loop ends, also at the last address of all, which wraps.     *)
(***************************************************************************)
ScanEnds == pc = "scan" ~> pc = "done"

\* The addresses of a text that are read octet by octet, with what reads them.
Addresses(t) ==
  IF t.p # "path" THEN {<<t.p, o>> : o \in ToSet(t.meant)}
  ELSE UNION {{<<IF a.type = 1 THEN "ptp" ELSE "net_id", o>> : o \in {a.src, a.dest}} :
              a \in {b \in ToSet(t.meant) : b.type # 0}}

\* Digits in pairs, as the parsers take them; the programs' own output has octets
\* below 16 as single digits.
InPairs(str) ==
  \A i \in 1 .. Len(str) :
    is_hex(str[i]) => \/ i > 1 /\ is_hex(str[i - 1])
                      \/ i < Len(str) /\ is_hex(str[i + 1])

\* The texts the parsers were written for.  Not: numbers that are no octets, which
\* count modulo 256; mac addresses with both separators, of which octets are
\* lost; single digits; and addresses of eap, emp, nsp and nets, whose loop never
\* gets past the first octet.
InForm(t) ==
  CASE t.p = "ip4" -> \A i \in 1 .. Len(t.str) : t.str[i] \in Byte
    [] t.p = "dns" -> \A i \in 1 .. Len(t.str.server) : t.str.server[i] \in Byte
    [] t.p = "mac" -> ~({":", "-"} \subseteq ToSet(t.str))
    [] OTHER -> InPairs(t.str) /\ \A a \in Addresses(t) : a[1] = "ptp" \/ a[2] = <<>>

(***************************************************************************)
(* An address of ptp, ip4 or ether2, a ptp path or a query in its form is  *)
(* read as what it shows, and refused only if it shows nothing: an octet,  *)
(* an action or a symbol too many or too few.                              *)
(***************************************************************************)
TextReadAsShown ==
  (kind = "text" /\ InForm(text)) =>
    /\ pc = "done" => path = text.meant
    /\ pc = "invalid" => text.meant = <<>>
=============================================================================
