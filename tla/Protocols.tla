----------------------------- MODULE Protocols -----------------------------
(***************************************************************************)
(* The protocols of src/protocols and the net_access objects they build    *)
(* on one another.  A net_access is what it adds to data on the way out    *)
(* and what it lets through on the way in:                                 *)
(*   send  the headers put before the data, the lowest protocol's first,   *)
(*   recv  the filters the data has to pass, the lowest protocol's first.  *)
(* A header has a source, a destination and, in ether2, ip4 and eap, the   *)
(* protocol of what it carries.  A filter has the same fields, each of     *)
(* which may be Nullopt, an optional without a value.                      *)
(***************************************************************************)
EXTENDS Integers, Sequences, SequencesExt

CONSTANTS Nullopt, Empty, Everyone   \* no value, the empty and the broadcast address

value_or(o, default) == IF o = Nullopt THEN default ELSE o
has(o, v) == o = Nullopt \/ o = v

Header(src, dest, prot) == [src |-> src, dest |-> dest, prot |-> prot]
Filter(p, src, dest, prot) == [p |-> p, src |-> src, dest |-> dest, prot |-> prot]

-----------------------------------------------------------------------------
(* net_access.cpp *)

net_access_make_empty == [send |-> <<>>, recv |-> <<>>]

net_access_override_send(a, s) == [a EXCEPT !.send = s.send]

\* A further protocol on top of access a.
OnTop(a, header, filter) ==
  [send |-> Append(a.send, header), recv |-> Append(a.recv, filter)]

-----------------------------------------------------------------------------
(* connect_recv of each protocol: does the filter f let the header h pass? *)

\* Mutant: the type is compared only when a source is given too.
ether2_connect_recv_mut(f, h) ==
  has(f.src, h.src) /\ has(f.dest, h.dest) /\ (f.src = Nullopt \/ has(f.prot, h.prot))

ether2_connect_recv(f, h) ==
  has(f.src, h.src) /\ has(f.dest, h.dest) /\ has(f.prot, h.prot)

ip4_connect_recv(f, h) ==
  has(f.src, h.src) /\ has(f.dest, h.dest) /\ has(f.prot, h.prot)

eap_connect_recv(f, h) ==
  has(f.src, h.src) /\ has(f.dest, h.dest) /\ has(f.prot, h.prot)

udp_connect_recv(f, h) == has(f.src, h.src) /\ has(f.dest, h.dest)

emp_connect_recv(f, h) == has(f.src, h.src) /\ has(f.dest, h.dest)

nsp_connect_recv(f, h) == has(f.src, h.src) /\ has(f.dest, h.dest)

connect_recv(f, h) ==
  CASE f.p = "ether2" -> ether2_connect_recv(f, h)
    [] f.p = "ip4" -> ip4_connect_recv(f, h)
    [] f.p = "eap" -> eap_connect_recv(f, h)
    [] f.p = "udp" -> udp_connect_recv(f, h)
    [] f.p = "emp" -> emp_connect_recv(f, h)
    [] f.p = "nsp" -> nsp_connect_recv(f, h)

\* What arrives with these headers reaches the recv_access of a.
reaches(a, headers) ==
  /\ Len(headers) >= Len(a.recv)
  /\ \A i \in 1 .. Len(a.recv) : connect_recv(a.recv[i], headers[i])

-----------------------------------------------------------------------------
(* net_access_single(access, src, dest, prot) of each protocol: receives   *)
(* from src and sends to it.  net_access_broadcast: receives from anyone,  *)
(* sends to the broadcast address.                                         *)

ether2_single(a, src, dest, prot) ==
  OnTop(a, Header(value_or(dest, Empty), src, value_or(prot, Empty)),
        Filter("ether2", src, dest, prot))

ether2_broadcast(a, dest, prot) ==
  OnTop(a, Header(value_or(dest, Empty), Everyone, value_or(prot, Empty)),
        Filter("ether2", Nullopt, dest, prot))

ip4_single(a, src, dest, prot) ==
  OnTop(a, Header(value_or(dest, Empty), src, value_or(prot, Empty)),
        Filter("ip4", src, dest, prot))

ip4_broadcast(a, dest, prot) ==
  OnTop(a, Header(value_or(dest, Empty), Everyone, value_or(prot, Empty)),
        Filter("ip4", Nullopt, dest, prot))

\* Mutant: the access listens to every destination.
eap_single_mut(a, src, dest, prot) ==
  OnTop(a, Header(value_or(dest, Empty), src, value_or(prot, Empty)),
        Filter("eap", src, Nullopt, prot))

eap_single(a, src, dest, prot) ==
  OnTop(a, Header(value_or(dest, Empty), src, value_or(prot, Empty)),
        Filter("eap", src, dest, prot))

eap_broadcast(a, dest, prot) ==
  OnTop(a, Header(value_or(dest, Empty), Everyone, value_or(prot, Empty)),
        Filter("eap", Nullopt, dest, prot))

udp_single(a, src, dest) ==
  OnTop(a, Header(dest, value_or(src, Empty), Nullopt), Filter("udp", src, dest, Nullopt))

emp_single(a, src, dest) ==
  OnTop(a, Header(dest, value_or(src, Empty), Nullopt), Filter("emp", src, dest, Nullopt))

nsp_single(a, src, dest) == OnTop(a, Header(dest, src, Nullopt), Filter("nsp", src, dest, Nullopt))

-----------------------------------------------------------------------------
(* connect_net_access_generator_listener of each protocol: the             *)
(* filter through which packets come, and the access a packet with header  *)
(* h gets on top of a.                                                     *)

ether2_generator(dest, prot) == Filter("ether2", Nullopt, dest, prot)
ip4_generator(dest, prot) == Filter("ip4", Nullopt, dest, prot)
eap_generator(dest, prot) == Filter("eap", Nullopt, dest, prot)
udp_generator(dest) == Filter("udp", Nullopt, dest, Nullopt)
emp_generator(dest) == Filter("emp", Nullopt, dest, Nullopt)
nsp_generator(dest) == Filter("nsp", Nullopt, dest, Nullopt)

\* Mutant: the new access answers to the packet's destination.
generated_mut(g, a, h) ==
  CASE g.p = "ether2" -> ether2_single(a, h.dest, g.dest, g.prot)
    [] g.p = "ip4" -> ip4_single(a, h.dest, g.dest, g.prot)
    [] g.p = "eap" -> eap_single(a, h.dest, g.dest, g.prot)
    [] g.p = "udp" -> udp_single(a, h.dest, g.dest)
    [] g.p = "emp" -> emp_single(a, h.dest, g.dest)
    [] g.p = "nsp" -> nsp_single(a, h.dest, g.dest)

generated(g, a, h) ==
  CASE g.p = "ether2" -> ether2_single(a, h.src, g.dest, g.prot)
    [] g.p = "ip4" -> ip4_single(a, h.src, g.dest, g.prot)
    [] g.p = "eap" -> eap_single(a, h.src, g.dest, g.prot)
    [] g.p = "udp" -> udp_single(a, h.src, g.dest)
    [] g.p = "emp" -> emp_single(a, h.src, g.dest)
    [] g.p = "nsp" -> nsp_single(a, h.src, g.dest)

-----------------------------------------------------------------------------
(* Routing tables.  A rule has a mask and a route; fits: the rules whose   *)
(* subnet the destination is inside (is_inside_subnet), by their places.   *)

\* How long a mask is: in bits for ip4, in octets for a ptp prefix.
mask_len(mask) == IF "prefix" \in DOMAIN mask THEN Len(mask.prefix) ELSE mask.bits

\* Mutant: the last of several rules with equally long masks is taken.
impl_find_route_mut(rules, fits) ==
  LET closest[i \in 0 .. Len(rules)] ==
        IF i = 0 THEN 0
        ELSE LET best == closest[i - 1]
             IN  IF i \in fits /\ (best = 0 \/ mask_len(rules[i].mask) >= mask_len(rules[best].mask))
                 THEN i ELSE best
  IN  closest[Len(rules)]

\* The loop over the rules keeps the closest one so far (0: none).
impl_find_route(rules, fits) ==
  LET closest[i \in 0 .. Len(rules)] ==
        IF i = 0 THEN 0
        ELSE LET best == closest[i - 1]
             IN  IF i \in fits /\ (best = 0 \/ mask_len(rules[i].mask) > mask_len(rules[best].mask))
                 THEN i ELSE best
  IN  closest[Len(rules)]

find_route(table, fits) ==
  LET i == impl_find_route(table.rules, fits)
  IN  IF i # 0 THEN table.rules[i].route ELSE table.default_gateway
=============================================================================
