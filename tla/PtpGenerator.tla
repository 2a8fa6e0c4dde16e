---------------------------- MODULE PtpGenerator ----------------------------
(***************************************************************************)
(* The server side of ptp (src/protocols/ptp/ptp_protocol.h and .cpp):     *)
(* connect_net_access_generator_listener splits the surface with           *)
(* multi_net_access_recv_split (src/abstract/net_access/                   *)
(* multi_net_access.cpp) into base_recv, whose filter generates a new      *)
(* net_access_single for every packet that has reached its endpoint, and   *)
(* generate_recv, which the generated accesses take over from one another. *)
(*                                                                         *)
(* Both filters are listeners of one multi_recv_listener, so an access is  *)
(* generated and connected in the middle of the walk that brings its       *)
(* packet.  The walk is the one of MultiRecvListener: by address, over the *)
(* set as it is.  Everything happens in the receiving thread.              *)
(***************************************************************************)
EXTENDS ListenerSet, Sequences

CONSTANTS
  MaxPackets,   \* bound: packets received
  MaxHeld       \* bound: accesses the generator's listener keeps alive

ASSUME BoundsAssumption == MaxPackets \in Nat /\ MaxHeld \in Nat

NoFilter == 0

VARIABLES
  base,         \* the filter of base_recv
  curr,         \* generate_recv's curr: the filter of the last access
  par,          \* the access each filter at an address reports to
  alive,        \* the generated accesses not destroyed yet
  packet,       \* the number of the packet being received
  isEnd,        \* it satisfies ptp_is_endpoint_end
  generated,    \* the packets an access was generated for
  delivered,    \* <<access, packet>> for every call of a recv_access
  stale         \* a filter has used an access that was destroyed

vars == <<listeners, it, base, curr, par, alive, packet, isEnd, generated,
          delivered, stale>>

Packets == 1 .. MaxPackets   \* an access has the number of its packet

TypeOK ==
  /\ listeners \subseteq Addr
  /\ it \in Addr \cup {NoWalk}
  /\ base \in Addr
  /\ curr \in Addr \cup {NoFilter}
  /\ par \in [Addr -> Packets \cup {0}]
  /\ alive \subseteq Packets /\ generated \subseteq Packets
  /\ packet \in 0 .. MaxPackets
  /\ isEnd \in BOOLEAN /\ stale \in BOOLEAN
  /\ delivered \in Seq(Packets \X Packets)

\* The split and the base filter.  Where it is allocated is up to the allocator.
connect_net_access_generator_listener ==
  base \in Addr /\ listeners = {base} /\ curr = NoFilter

Init ==
  /\ connect_net_access_generator_listener
  /\ it = NoWalk
  /\ par = [a \in Addr |-> 0]
  /\ alive = {} /\ packet = 0 /\ isEnd = FALSE
  /\ generated = {} /\ delivered = <<>> /\ stale = FALSE

\* recv_endpoint_end hands a packet to the multi_recv_listener.
recv_packet ==
  /\ it = NoWalk
  /\ packet < MaxPackets
  /\ packet' = packet + 1
  /\ isEnd' \in BOOLEAN
  /\ it' = Min(listeners)
  /\ UNCHANGED <<listeners, base, curr, par, alive, generated, delivered, stale>>

\* A filter whose condition does not hold returns.
no_match ==
  /\ it # NoWalk /\ ~isEnd
  /\ it' = Successor(listeners, it)
  /\ UNCHANGED <<listeners, base, curr, par, alive, packet, isEnd, generated,
                 delivered, stale>>

\* Mutant: set_recv_access adds the new filter and leaves the old one.
set_recv_access_keeps_old(f) == listeners' = listeners \cup {f} /\ curr' = f

\* Mutant: both slots of the split share one curr, which is the base filter
\* until an access has been generated.
set_recv_access_shared(f) ==
  /\ listeners' = (listeners \ {IF curr = NoFilter THEN base ELSE curr}) \cup {f}
  /\ curr' = f

\* impl_set_recv_access of a split: the new filter for the old one.
set_recv_access(f) == listeners' = (listeners \ {curr}) \cup {f} /\ curr' = f

(***************************************************************************)
(* my_net_access_generator_listener::handle_recv.  The new access's filter *)
(* is allocated while the old one still exists, then set_recv_access       *)
(* removes the old one and adds the new one; the listener sets the         *)
(* access's recv_access; the data is handed to it; and unless the listener *)
(* has kept the access it is destroyed on return (netcat_local_ptp keeps   *)
(* only a weak_ptr).  Nothing takes the filter of a destroyed access out.  *)
(***************************************************************************)
generate(kept) ==
  /\ it = base /\ isEnd
  /\ kept => Cardinality(alive) < MaxHeld
  /\ \E f \in Addr \ listeners :
       /\ set_recv_access(f)
       /\ par' = [par EXCEPT ![f] = packet]
       /\ it' = Successor(listeners', base)
  /\ generated' = generated \cup {packet}
  /\ delivered' = Append(delivered, <<packet, packet>>)
  /\ alive' = IF kept THEN alive \cup {packet} ELSE alive
  /\ UNCHANGED <<base, packet, isEnd, stale>>

\* The filter of net_access_single: forwards to the access's recv_access.
forward_to_access ==
  /\ it # NoWalk /\ it # base /\ isEnd
  /\ IF par[it] \in alive
     THEN /\ delivered' = Append(delivered, <<par[it], packet>>)
          /\ UNCHANGED stale
     ELSE /\ stale' = TRUE
          /\ UNCHANGED delivered
  /\ it' = Successor(listeners, it)
  /\ UNCHANGED <<listeners, base, curr, par, alive, packet, isEnd, generated>>

\* The listener lets go of an access it kept.
release(a) ==
  /\ it = NoWalk
  /\ alive' = alive \ {a}
  /\ UNCHANGED <<listeners, it, base, curr, par, packet, isEnd, generated,
                 delivered, stale>>

Next ==
  \/ recv_packet \/ no_match \/ forward_to_access
  \/ \E kept \in BOOLEAN : generate(kept)
  \/ \E a \in alive : release(a)

Spec == Init /\ [][Next]_vars
-----------------------------------------------------------------------------
Deliveries(k) == {i \in 1 .. Len(delivered) : delivered[i][2] = k}

(***************************************************************************)
(* By the end of its walk every packet that reached its endpoint has been  *)
(* handed to an access of its own: the walk comes to the base filter and   *)
(* generates one, although every packet before it has changed the set of   *)
(* filters in the middle of its walk, on either side of the base filter.   *)
(***************************************************************************)
EndpointIsServed ==
  (it = NoWalk /\ packet > 0 /\ isEnd) =>
    \E i \in Deliveries(packet) : delivered[i][1] = packet

(***************************************************************************)
(* Nobody but the access generated for a packet and the one generated      *)
(* before that is handed the packet: older accesses are disconnected.      *)
(***************************************************************************)
OnlyNewestTwoAreServed ==
  \A i \in 1 .. Len(delivered) :
    LET a == delivered[i][1]
        k == delivered[i][2]
    IN  a <= k /\ Cardinality({g \in generated : a < g /\ g < k}) = 0

(***************************************************************************)
(* The set does not grow with the packets: however many have come, it      *)
(* holds the base filter and the filter of the last access.                *)
(***************************************************************************)
TwoFiltersAtMost ==
  packet > 0 => listeners = {base} \cup ({curr} \ {NoFilter})
=============================================================================
