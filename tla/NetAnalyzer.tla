----------------------------- MODULE NetAnalyzer -----------------------------
(***************************************************************************)
(* tools/net_analyzer: the protocols of a sniffed frame, as far as it      *)
(* follows them (ether2, then arp or ip4), with what each line of the      *)
(* display says.                                                           *)
(***************************************************************************)
EXTENDS Wire

ethertype_ip4 == 2048
ethertype_arp == 2054
arp_request == 1
arp_reply == 2

\* An address that arp asks about or answers for; <<>> (unknown) if it is none of
\* ip4.  Four octets are read, and six of a mac address, however long the header
\* says they are.
ip_in(h, addr) == IF h.prot_type = ethertype_ip4 THEN SubSeq(addr, 1, 4) ELSE <<>>
mac_in(addr) == SubSeq(addr, 1, 6)

\* Mutant: a reply is shown with the addresses of the one it is for.
my_recv_arp_target(h) ==
  CASE h.op = arp_request -> [prot |-> "arp", asks |-> ip_in(h, h.target_prot)]
    [] h.op = arp_reply -> [prot |-> "arp", ip |-> ip_in(h, h.target_prot), is |-> mac_in(h.target_hard)]
    [] OTHER -> [prot |-> "arp", op |-> "unsupported"]

my_recv_arp(h) ==
  CASE h.op = arp_request -> [prot |-> "arp", asks |-> ip_in(h, h.target_prot)]
    [] h.op = arp_reply -> [prot |-> "arp", ip |-> ip_in(h, h.sender_prot), is |-> mac_in(h.sender_hard)]
    [] OTHER -> [prot |-> "arp", op |-> "unsupported"]

\* Of what ip4 carries nothing is parsed.
my_recv_ip4(h) == [prot |-> "ip4", src |-> h.src_addr, dest |-> h.dest_addr, carries |-> h.prot]

\* Its own line, and that of the protocol above.
my_recv_ether2(h, data) ==
  <<[prot |-> "ether2", src |-> h.src_addr, dest |-> h.dest_addr, carries |-> h.prot]>>
    \o CASE h.prot = ethertype_arp -> <<my_recv_arp(extract_arp(data)[1])>>
         [] h.prot = ethertype_ip4 -> <<my_recv_ip4(extract_ip4(data)[1])>>
         [] OTHER -> <<>>

parse_prots(frame) ==
  LET e == extract_ether2(frame) IN my_recv_ether2(e[1], drop(frame, e[2]))

\* The analyzer prints what it has parsed.
handle_sniff(printed, frame) == Append(printed, parse_prots(frame))

\* The sniffer hands a frame to its handlers: the analyzer, which is attached
\* once the sniffer is at the interface already.
sniffer_recv(printed, frame, attached) == IF attached THEN handle_sniff(printed, frame) ELSE printed
=============================================================================
