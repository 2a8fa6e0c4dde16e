-------------------------------- MODULE Wire --------------------------------
(***************************************************************************)
(* The headers of the protocols as bytes: write_in_network_order and       *)
(* extract_from_network_order of each, the addresses in them, and what     *)
(* send of each protocol puts before the data.  The host is little-endian. *)
(* An extract gives the header and the number of bytes it took.            *)
(***************************************************************************)
EXTENDS Integers, Sequences, SequencesExt

htons(n) == <<(n \div 256) % 256, n % 256>>
ntohs(b, i) == 256 * b[i] + b[i + 1]
host16(n) == <<n % 256, n \div 256>>           \* stored without htons
from_host16(b, i) == b[i] + 256 * b[i + 1]
drop(b, n) == SubSeq(b, n + 1, Len(b))

\* f(x), for which TLC evaluates x once.
With(x, f(_)) == CHOOSE y \in {f(v) : v \in {x}} : TRUE

\* n items one behind the other: take(i) is the item behind the first i bytes
\* and its length.  The items, and the bytes up to their end.
items(n, start, take(_)) ==
  LET taken[k \in 0 .. n] ==
        IF k = 0 THEN <<<<>>, start>>
        ELSE With(taken[k - 1], LAMBDA a :
               With(take(a[2]), LAMBDA e : <<Append(a[1], e[1]), a[2] + e[2]>>))
  IN  taken[n]

-----------------------------------------------------------------------------
(* lib/var_len_encoding: 0 is the escape byte, 0 1 the delimiter. *)

var_len_encode_bytes(data) ==
  FlattenSeq([i \in 1 .. Len(data) |-> IF data[i] = 0 THEN <<0, 0>> ELSE <<data[i]>>])
    \o <<0, 1>>

\* Mutant: an escaped byte is skipped.
var_len_decode_bytes_skips(b) ==
  LET read[i \in 0 .. Len(b)] ==
        IF i = 0 THEN [at |-> "byte", res |-> <<>>, len |-> 0]
        ELSE With(read[i - 1], LAMBDA s :
               CASE s.at = "end" -> s
                 [] s.at = "byte" /\ b[i] = 0 -> [s EXCEPT !.at = "escape"]
                 [] s.at = "escape" /\ b[i] = 1 -> [s EXCEPT !.at = "end", !.len = i]
                 [] OTHER -> [s EXCEPT !.at = "byte", !.res = IF s.at = "byte" THEN Append(@, b[i]) ELSE @])
  IN  <<read[Len(b)].res, read[Len(b)].len>>

\* One byte after the other, up to the delimiter: what is read behind that is not
\* looked at.
var_len_decode_bytes(b) ==
  LET read[i \in 0 .. Len(b)] ==
        IF i = 0 THEN [at |-> "byte", res |-> <<>>, len |-> 0]
        ELSE With(read[i - 1], LAMBDA s :
               CASE s.at = "end" -> s
                 [] s.at = "byte" /\ b[i] = 0 -> [s EXCEPT !.at = "escape"]
                 [] s.at = "escape" /\ b[i] = 1 -> [s EXCEPT !.at = "end", !.len = i]
                 [] OTHER -> [s EXCEPT !.at = "byte", !.res = Append(@, b[i])])
  IN  <<read[Len(b)].res, read[Len(b)].len>>

\* Two addresses of bytes, as emp, nsp, eap and ptp have them, and their length.
two_addrs(b) ==
  With(var_len_decode_bytes(b), LAMBDA s :
    With(var_len_decode_bytes(drop(b, s[2])), LAMBDA d : <<s[1], d[1], s[2] + d[2]>>))

-----------------------------------------------------------------------------
(* Checksum of a header, in 16-bit words as the host reads them. *)

words_sum(b) ==
  LET sum[i \in 0 .. (Len(b) + 1) \div 2] ==
        IF i = 0 THEN 0
        ELSE sum[i - 1] + (IF 2 * i <= Len(b) THEN from_host16(b, 2 * i - 1) ELSE b[2 * i - 1])
  IN  sum[(Len(b) + 1) \div 2]

internet_checksum(b) ==
  LET fold(n) == (n \div 65536) + (n % 65536)
  IN  65535 - With(With(b, words_sum), LAMBDA n : With(fold(n), fold))

-----------------------------------------------------------------------------
(* Headers *)

write_ether2(h) == h.dest_addr \o h.src_addr \o htons(h.prot)
extract_ether2(b) ==
  <<[dest_addr |-> SubSeq(b, 1, 6), src_addr |-> SubSeq(b, 7, 12), prot |-> ntohs(b, 13)], 14>>

write_arp(h) ==
  htons(h.hard_type) \o htons(h.prot_type) \o <<Len(h.sender_hard), Len(h.sender_prot)>>
    \o htons(h.op) \o h.sender_hard \o h.sender_prot \o h.target_hard \o h.target_prot
extract_arp(b) ==
  LET m == b[5]
      n == b[6]
      part(i, k) == SubSeq(b, i, i + k - 1)
  IN  <<[hard_type |-> ntohs(b, 1), prot_type |-> ntohs(b, 3), op |-> ntohs(b, 7),
         sender_hard |-> part(9, m), sender_prot |-> part(9 + m, n),
         target_hard |-> part(9 + m + n, m), target_prot |-> part(9 + 2 * m + n, n)],
        8 + 2 * m + 2 * n>>

\* Mutant: the checksum is turned into network order.
write_ip4_htons(h) ==
  <<16 * h.version + h.header_len, h.tos>> \o htons(h.total_len) \o htons(h.id)
    \o htons(8192 * h.flags + h.frag_off) \o <<h.ttl, h.prot>> \o htons(h.checksum)
    \o h.src_addr \o h.dest_addr

write_ip4(h) ==
  <<16 * h.version + h.header_len, h.tos>> \o htons(h.total_len) \o htons(h.id)
    \o htons(8192 * h.flags + h.frag_off) \o <<h.ttl, h.prot>> \o host16(h.checksum)
    \o h.src_addr \o h.dest_addr
\* flags: the masked word is put into three bits without a shift.
extract_ip4(b) ==
  <<[version |-> b[1] \div 16, header_len |-> b[1] % 16, tos |-> b[2],
     total_len |-> ntohs(b, 3), id |-> ntohs(b, 5),
     flags |-> (8192 * (ntohs(b, 7) \div 8192)) % 8, frag_off |-> ntohs(b, 7) % 8192,
     ttl |-> b[9], prot |-> b[10], checksum |-> from_host16(b, 11),
     src_addr |-> SubSeq(b, 13, 16), dest_addr |-> SubSeq(b, 17, 20)], 20>>

\* content.raw of an echo: id is its low half.
write_icmp(h) == <<h.type, h.code>> \o host16(h.checksum) \o htons(h.sequence) \o htons(h.id)
extract_icmp(b) ==
  <<[type |-> b[1], code |-> b[2], checksum |-> from_host16(b, 3),
     sequence |-> ntohs(b, 5), id |-> ntohs(b, 7)], 8>>

write_udp(h) == htons(h.src_port) \o htons(h.dest_port) \o htons(h.len) \o htons(h.checksum)
extract_udp(b) ==
  <<[src_port |-> ntohs(b, 1), dest_port |-> ntohs(b, 3), len |-> ntohs(b, 5),
     checksum |-> ntohs(b, 7)], 8>>

write_emp(h) == var_len_encode_bytes(h.src_port) \o var_len_encode_bytes(h.dest_port)
extract_emp(b) ==
  With(two_addrs(b), LAMBDA t : <<[src_port |-> t[1], dest_port |-> t[2]], t[3]>>)

write_nsp(h) == var_len_encode_bytes(h.src_id) \o var_len_encode_bytes(h.dest_id)
extract_nsp(b) ==
  With(two_addrs(b), LAMBDA t : <<[src_id |-> t[1], dest_id |-> t[2]], t[3]>>)

write_eap(h) ==
  var_len_encode_bytes(h.src_addr) \o var_len_encode_bytes(h.dest_addr) \o <<h.no_jumps, h.prot>>
extract_eap(b) ==
  With(two_addrs(b), LAMBDA t :
    <<[src_addr |-> t[1], dest_addr |-> t[2], no_jumps |-> b[t[3] + 1], prot |-> b[t[3] + 2]],
      t[3] + 2>>)

\* A path action of ptp: its type and a value (endpoint: start or end; local
\* connection: the addresses of both sides; switch: the ids of both networks).
write_ptp_action(a) ==
  IF a.type = 0 THEN <<0, a.val>>
  ELSE <<a.type>> \o var_len_encode_bytes(a.src) \o var_len_encode_bytes(a.dest)
extract_ptp_action(b) ==
  IF b[1] = 0 THEN <<[type |-> 0, val |-> b[2]], 2>>
  ELSE With(two_addrs(Tail(b)), LAMBDA t :
         <<[type |-> b[1], src |-> t[1], dest |-> t[2]], 1 + t[3]>>)

write_ptp(h) ==
  <<Len(h.actions)>> \o FlattenSeq([i \in 1 .. Len(h.actions) |-> write_ptp_action(h.actions[i])])
    \o <<h.curr_action, h.no_jumps>>
extract_ptp(b) ==
  With(items(b[1], 1, LAMBDA i : extract_ptp_action(drop(b, i))), LAMBDA r :
    <<[actions |-> r[1], curr_action |-> b[r[2] + 1], no_jumps |-> b[r[2] + 2]], r[2] + 2>>)

-----------------------------------------------------------------------------
(* send of each protocol: the bytes handed to the surface below *)

ether2_send(h, data) == write_ether2(h) \o data
arp_send(h) == write_arp(h)
emp_send(h, data) == write_emp(h) \o data
nsp_send(h, data) == write_nsp(h) \o data
eap_send(h, data) == write_eap(h) \o data
ptp_send(h, data) == write_ptp(h) \o data

udp_send(h, data) == write_udp([h EXCEPT !.len = 8 + Len(data), !.checksum = 0]) \o data

ip4_send(h, data) ==
  write_ip4([h EXCEPT !.checksum = internet_checksum(write_ip4([h EXCEPT !.checksum = 0]))])
    \o data

icmp_send(h, data) ==
  write_icmp([h EXCEPT !.checksum =
                internet_checksum(write_icmp([h EXCEPT !.checksum = 0]) \o data)]) \o data

send(p, h, data) ==
  CASE p = "ether2" -> ether2_send(h, data) [] p = "arp" -> arp_send(h)
    [] p = "ip4" -> ip4_send(h, data) [] p = "icmp" -> icmp_send(h, data)
    [] p = "udp" -> udp_send(h, data) [] p = "emp" -> emp_send(h, data)
    [] p = "nsp" -> nsp_send(h, data) [] p = "eap" -> eap_send(h, data)
    [] p = "ptp" -> ptp_send(h, data)

\* emp, nsp, eap and ptp put header and data together in a buffer of a fixed size
\* and do not look whether they fit; the others allocate what they need.
big_buff == 4096
ptp_buff == 65536
fits_buff(p, message) ==
  /\ p \in {"emp", "nsp", "eap"} => Len(message) <= big_buff
  /\ p = "ptp" => Len(message) <= ptp_buff

extract(p, b) ==
  CASE p = "ether2" -> extract_ether2(b) [] p = "arp" -> extract_arp(b)
    [] p = "ip4" -> extract_ip4(b) [] p = "icmp" -> extract_icmp(b)
    [] p = "udp" -> extract_udp(b) [] p = "emp" -> extract_emp(b)
    [] p = "nsp" -> extract_nsp(b) [] p = "eap" -> extract_eap(b)
    [] p = "ptp" -> extract_ptp(b)

-----------------------------------------------------------------------------
(* ip4 subnets: a mask has a base address and a number of bits. *)

low(octet, n) == octet % (2 ^ n)

\* Octet bits/8 keeps its lowest bits%8 bits, the octets after it become 0.
smallest_ip_addr_in_subnet(mask) ==
  [i \in 1 .. 4 |-> IF i <= mask.bits \div 8 THEN mask.base[i]
                    ELSE IF i = mask.bits \div 8 + 1 THEN low(mask.base[i], mask.bits % 8) ELSE 0]

\* Mutant: the octet at the end of the mask is compared as a whole.
is_inside_subnet_octet(mask, ip) ==
  \A i \in 1 .. 4 : i <= mask.bits \div 8 + 1 => mask.base[i] = ip[i]

\* (bits = 32: the octet after the last is read too, and none of its bits used.)
is_inside_subnet(mask, ip) ==
  /\ \A i \in 1 .. mask.bits \div 8 : mask.base[i] = ip[i]
  /\ LET i == mask.bits \div 8 + 1
     IN  i <= 4 => low(mask.base[i], mask.bits % 8) = low(ip[i], mask.bits % 8)

\* A ptp subnet is the addresses that go on behind its prefix.
is_inside_ptp_subnet(mask, addr) ==
  Len(mask.prefix) < Len(addr) /\ SubSeq(addr, 1, Len(mask.prefix)) = mask.prefix

\* Mutant: no carry into the octet before.
generate_next_ip_wraps(ip) == [ip EXCEPT ![4] = (ip[4] + 1) % 256]

generate_next_ip(ip) ==
  LET full == {i \in 1 .. 4 : \A j \in i .. 4 : ip[j] = 255}
  IN  [i \in 1 .. 4 |-> IF i \in full THEN 0
                        ELSE IF i + 1 \in full \/ i = 4 THEN ip[i] + 1 ELSE ip[i]]
=============================================================================
