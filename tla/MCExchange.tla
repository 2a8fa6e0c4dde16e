----------------------------- MODULE MCExchange -----------------------------
(* Addresses, ports and data with the bytes that matter: 0, the escape and *)
(* terminating byte, 1, and 255; records where one name begins another.    *)
(* One message each that the buffers of a sender, of a receiver and of the *)
(* dns server are too small for.                                           *)
EXTENDS Exchange

MacA == <<2, 0, 0, 0, 0, 1>>
MacB == <<2, 0, 255, 0, 1, 0>>
MacC == <<2, 9, 9, 9, 9, 9>>
IpA == <<10, 0, 0, 1>>
IpB == <<10, 0, 7, 255>>

Ether2(prot) == [p |-> "ether2", h |-> [dest_addr |-> MacB, src_addr |-> MacA, prot |-> prot]]
Arp(op, prot) == [p |-> "arp", h |-> [hard_type |-> 1, prot_type |-> prot, op |-> op, sender_hard |-> MacA,
                                      sender_prot |-> IpA, target_hard |-> MacB, target_prot |-> IpB]]
Ip4(prot, flags, dest) ==
  [p |-> "ip4", h |-> [version |-> 4, header_len |-> 5, tos |-> 0, total_len |-> 0, id |-> 1234,
                       flags |-> flags, frag_off |-> 0, ttl |-> 255, prot |-> prot, checksum |-> 0,
                       src_addr |-> IpA, dest_addr |-> dest]]
Udp(src, dest) == [p |-> "udp", h |-> [src_port |-> src, dest_port |-> dest, len |-> 0, checksum |-> 7]]
Icmp(seq) == [p |-> "icmp", h |-> [type |-> 8, code |-> 0, checksum |-> 65535, sequence |-> seq,
                                   id |-> 4660]]

Addrs == {<<>>, <<0>>, <<0, 1>>, <<1, 0, 0>>, <<255>>}
Ptp(a, b, n) ==
  [p |-> "ptp", h |-> [actions |-> <<[type |-> 0, val |-> 0], [type |-> 1, src |-> a, dest |-> b],
                                     [type |-> 2, src |-> b, dest |-> a], [type |-> 0, val |-> 1]>>,
                       curr_action |-> n, no_jumps |-> 2]]
Short(a, b) ==
  {<<[p |-> "emp", h |-> [src_port |-> a, dest_port |-> b]]>>,
   <<[p |-> "nsp", h |-> [src_id |-> a, dest_id |-> b]]>>,
   <<[p |-> "eap", h |-> [src_addr |-> a, dest_addr |-> b, no_jumps |-> 0, prot |-> 3]]>>,
   <<Ptp(a, b, 1)>>}

Rule(base, bits, route) == [mask |-> [base |-> base, bits |-> bits], route |-> route]
PtpRule(prefix, route) == [mask |-> [prefix |-> prefix], route |-> route]
Tables(rules) == {[rules |-> r, default_gateway |-> g] : r \in rules \cup {<<>>}, g \in {<<>>, MacC}}
Ip4Tables ==
  Tables({<<Rule(<<10, 0, 0, 0>>, 8, MacA), Rule(<<10, 0, 0, 0>>, 16, MacB)>>,
          <<Rule(<<10, 0, 7, 0>>, 24, MacC), Rule(IpB, 24, MacB), Rule(<<10, 0, 0, 9>>, 8, MacA)>>})
PtpTables ==
  Tables({<<PtpRule(<<>>, MacA), PtpRule(<<1>>, MacB), PtpRule(<<1, 0>>, MacC), PtpRule(<<1, 0>>, MacA)>>,
          <<PtpRule(<<1, 0, 0>>, MacC), PtpRule(<<0>>, MacA)>>})

Over(stacks, tables, contents) ==
  {[stack |-> s, table |-> t, data |-> d] : s \in stacks, t \in tables, d \in contents}
Bytes(n) == [i \in 1 .. n |-> 255]
Contents == {<<>>, <<0, 1, 255>>, Bytes(40)}
NoTable == [rules |-> <<>>, default_gateway |-> <<>>]
MCFrames ==
  Over(UNION {Short(a, b) : a, b \in Addrs}, {NoTable}, Contents)
  \cup Over({<<Ether2(2048), Ip4(17, f, dest), Udp(1234, 256 * n)>> :
                f \in {0, 2}, dest \in {IpB, <<10, 1, 0, 0>>, <<11, 0, 0, 0>>}, n \in {0, 255}}
             \cup {<<Ether2(2048), Ip4(1, 0, IpB), Icmp(n)>> : n \in {10, 65535}}, Ip4Tables, Contents)
  \cup Over({<<Ether2(7), Ptp(a, b, n)>> : a \in {<<0, 1>>, <<255>>}, b \in Addrs, n \in {1, 2}},
            PtpTables, {<<0, 1, 255>>})
  \cup Over({<<Ether2(2054), Arp(op, prot)>> : op \in {1, 2}, prot \in {2048, 2054}}, {NoTable}, {<<>>})
  \cup Over({<<[p |-> "emp", h |-> [src_port |-> <<>>, dest_port |-> <<0>>]]>>}, {NoTable}, {Bytes(4091)})
  \cup Over({<<Ether2(2048), Ip4(17, 0, IpB), Udp(1234, 53)>>}, {[NoTable EXCEPT !.default_gateway = MacC]},
            {Bytes(4054), Bytes(4055)})

MCDnsStack == <<Ether2(2048), Ip4(17, 0, IpB), Udp(1234, 53)>>

A == 97
B == 98
Rec(type, name, val) == [type |-> type, name |-> name, val |-> val]
MCRecordSets ==
  {<<>>,
   <<Rec(1, <<A, B>>, IpA), Rec(1, <<A>>, <<>>), Rec(1, <<A, B>>, IpB)>>,
   <<Rec(1, <<A>>, IpA), Rec(15, <<A, 46, B>>, <<A, B, 46, B, A>>), Rec(15, <<A>>, <<A, 46, B>>)>>,
   <<Rec(1, <<A, 46, B>>, IpB), Rec(15, <<A, B>>, <<B, B>>)>>}
Q(type, name) == make_dns_query(name, type, 1)
MCQuestions ==
  {<<Q(t, n)>> : t \in {1, 2, 15}, n \in {<<A>>, <<A, B>>, <<A, 46, B>>}}
  \cup {<<Q(1, <<A>>), Q(15, <<A, 46, B>>), Q(1, <<A, B>>)>>,
        [i \in 1 .. 140 |-> Q(1, <<A>>)]}
MCSoaJunk == {<<>>, <<7, 192, 0, 69>>}

MCNothing == {}

MCSubnets ==
  {[numbers |-> b, bits |-> <<n>>] : b \in {IpB, <<255, 255, 255, 200>>}, n \in {20, 24, 29, 32, 33}}
  \cup {[numbers |-> <<10, 256, 1029, 7>>, bits |-> b] : b \in {<<24>>, <<>>}}
  \cup {[numbers |-> <<10, 0, 0>>, bits |-> <<24>>]}
MCWithinOctet == {[numbers |-> IpB, bits |-> <<29>>]}   \* of exchange_subnet
MCSkip == {IpA, <<10, 0, 7, 3>>}

End(n) == [type |-> 0, val |-> n]
Conn(a, b) == [type |-> 1, src |-> a, dest |-> b]
Switch(a, b) == [type |-> 2, src |-> a, dest |-> b]
SomeOctets == {<<>>, <<16>>, <<255, 17, 16>>, <<17, 5>>, <<5, 255>>, <<0>>}
Shown(p, str, meant) == [p |-> p, str |-> str, meant |-> meant]
MCTexts ==
  {Shown(p, addr_to_str(o), <<o>>) : p \in {"ptp", "eap", "emp", "nsp"}, o \in SomeOctets}
  \cup {Shown("path", ptp_action_list_to_str(l), l) :
          l \in UNION {{<<End(0), Conn(a, b), Conn(b, a), End(1)>>, <<End(0), Switch(a, b), Conn(a, b), End(1)>>} :
                       a, b \in SomeOctets}}
  \cup {Shown("ptp", <<"0", "5", ".", "1", "0">>, <<<<5, 16>>>>)}
  \cup {Shown("ptp", s, <<>>) : s \in {<<"1", "1", "2", "2">>, <<"1", "1", ".">>, <<".", "1", "1">>,
                                       <<"1", "1", ".", "z", "1">>}}
  \cup {Shown("path", s, <<>>) : s \in {<<>>, <<"endpoint ">>, <<"end">>, <<"conn ", "1", "1">>,
                                        <<"endpoint ", "start", " ; ">>}}
  \cup {Shown("mac", mac_addr_to_str(o), <<o>>) : o \in {MacA, MacB}}
  \cup {Shown("mac", [i \in 1 .. 17 |-> IF mac_addr_to_str(MacB)[i] = ":" THEN "-" ELSE mac_addr_to_str(MacB)[i]],
              <<MacB>>),
        Shown("mac", [mac_addr_to_str(MacB) EXCEPT ![9] = "-"], <<>>)}
  \cup {Shown("mac", SubSeq(mac_addr_to_str(MacA), 1, n), <<>>) : n \in {0, 14, 16}}
  \cup {Shown("ip4", IpB, <<IpB>>), Shown("ip4", <<10, 0, 263, 511>>, <<>>), Shown("ip4", <<10, 0>>, <<>>)}
  \cup {Shown("dns", [server |-> IpA, type |-> t[1], class |-> c[1]],
              IF t[2] = 0 \/ c[2] = 0 THEN <<>> ELSE <<[server |-> IpA, type |-> t[2], class |-> c[2]]>>) :
          t \in {<<<<>>, 1>>, <<<<"a">>, 1>>, <<<<"mx">>, 15>>, <<<<"soa">>, 6>>, <<<<"ptr">>, 12>>, <<<<"ns">>, 2>>,
                 <<<<"cname">>, 5>>, <<<<"A">>, 0>>},
          c \in {<<<<>>, 1>>, <<<<"in">>, 1>>, <<<<"ch">>, 3>>, <<<<"x">>, 0>>}}
  \cup {Shown("dns", [server |-> <<8, 8, 8>>, type |-> <<>>, class |-> <<>>], <<>>)}
=============================================================================
