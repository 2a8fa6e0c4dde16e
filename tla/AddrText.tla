------------------------------ MODULE AddrText ------------------------------
(***************************************************************************)
(* Addresses and ptp paths as text, as the programs' options give them and *)
(* their output shows them.  A text is a sequence of symbols: a digit, and *)
(* each separator and each word of a path as one symbol.                   *)
(***************************************************************************)
EXTENDS Integers, Sequences, SequencesExt

Digits == <<"0", "1", "2", "3", "4", "5", "6", "7", "8", "9", "a", "b", "c", "d", "e", "f">>
is_hex(c) == c \in ToSet(Digits)
hex_value(c) == (CHOOSE n \in 1 .. 16 : Digits[n] = c) - 1

\* Two symbols, the first of them a digit: a second that is none ends the number.
stoul(s) == IF is_hex(s[2]) THEN 16 * hex_value(s[1]) + hex_value(s[2]) ELSE hex_value(s[1])

\* The tokens between the separators.
split_str(str, delimiter) ==
  LET cut == <<0>> \o SetToSortSeq({i \in 1 .. Len(str) : str[i] = delimiter}, <) \o <<Len(str) + 1>>
  IN  [k \in 1 .. Len(cut) - 1 |-> SubSeq(str, cut[k] + 1, cut[k + 1] - 1)]

\* The reverse: what the loops of the to_str functions put together.
join(parts, sep) ==
  FlattenSeq([i \in 1 .. Len(parts) |-> IF i = 1 THEN parts[i] ELSE <<sep>> \o parts[i]])

two_digits(n) == <<Digits[(n \div 16) + 1], Digits[(n % 16) + 1]>>
\* std::hex writes an octet below 16 with one digit.
one_or_two_digits(n) == IF n < 16 THEN <<Digits[n + 1]>> ELSE two_digits(n)

\* Addresses of any length: of ptp, its nets, eap, emp and nsp.
addr_to_str(octets) == join([i \in 1 .. Len(octets) |-> one_or_two_digits(octets[i])], ".")

ptp_endpoint_to_str(a) == <<IF a.val = 0 THEN "start" ELSE "end">>
ptp_local_conn_to_str(a) == addr_to_str(a.src) \o <<" -> ">> \o addr_to_str(a.dest)
ptp_net_switch_to_str(a) == addr_to_str(a.src) \o <<" -> ">> \o addr_to_str(a.dest)
ptp_action_to_str(a) ==
  CASE a.type = 0 -> <<"endpoint ">> \o ptp_endpoint_to_str(a)
    [] a.type = 1 -> <<"conn ">> \o ptp_local_conn_to_str(a)
    [] a.type = 2 -> <<"switch ">> \o ptp_net_switch_to_str(a)

ptp_action_list_to_str(list) == join([i \in 1 .. Len(list) |-> ptp_action_to_str(list[i])], " ; ")

mac_addr_to_str(octets) == join([i \in 1 .. 6 |-> two_digits(octets[i])], ":")

\* Six octets of two digits, with either separator between any two of them.  If a
\* colon is among them the text is cut at colons only, of what is between two of
\* them the first octet is read, and the last of these is read again in place of
\* those that are missing.
str_to_mac_addr(str) ==
  LET token == split_str(str, IF ":" \in ToSet(str) THEN ":" ELSE "-")
  IN  IF /\ Len(str) = 17
         /\ \A i \in 1 .. 17 : IF i % 3 = 0 THEN str[i] \in {":", "-"} ELSE is_hex(str[i])
      THEN <<[i \in 1 .. 6 |-> stoul(SubSeq(token[Min({i, Len(token)})], 1, 2))]>>
      ELSE <<>>

\* sscanf reads numbers, of which an octet keeps the lowest eight bits.
str_to_ip4_addr(numbers) == IF Len(numbers) = 4 THEN <<[i \in 1 .. 4 |-> numbers[i] % 256]>> ELSE <<>>

\* str: the numbers before the slash, and the one behind it, if there is one.
str_to_ip4_subnet_mask(str) ==
  IF str.bits # <<>> /\ str.bits[1] \in 0 .. 32 /\ str_to_ip4_addr(str.numbers) # <<>>
  THEN <<[base |-> str_to_ip4_addr(str.numbers)[1], bits |-> str.bits[1]]>>
  ELSE <<>>
=============================================================================
