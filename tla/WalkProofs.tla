---------------------------- MODULE WalkProofs -----------------------------
(***************************************************************************)
(* What goes over the live set of a multi_recv_listener: the walk of its   *)
(* handle_recv, for any set of addresses and any changes that the          *)
(* listeners it calls make; and the generator of ptp accesses, two         *)
(* listeners of such a set, for any addresses its filters are allocated    *)
(* at, any number of packets and whatever its listener does with the       *)
(* accesses it is given.                                                   *)
(***************************************************************************)
EXTENDS MultiRecvListener, PtpGenerator, FiniteSetTheorems, WellFoundedInduction, TLAPS

-----------------------------------------------------------------------------
(* A set of natural numbers that is not empty has a least element. *)
LEMMA LeastAddress ==
  ASSUME NEW S \in SUBSET Nat, S # {}
  PROVE  Min(S) \in S /\ \A y \in S : Min(S) <= y
<1> DEFINE R == OpToRel(<, Nat)
<1>1. IsWellFoundedOn(R, Nat)
  BY NatLessThanWellFounded
<1>2. \A x, y \in Nat : y < x => <<y, x>> \in R
  BY DEF OpToRel
<1> HIDE DEF R
<1>3. PICK x \in S : \A y \in S : ~(<<y, x>> \in R)
  BY <1>1, WFMin
<1>4. ASSUME NEW y \in S PROVE x <= y
  <2>1. x \in Nat /\ y \in Nat
    OBVIOUS
  <2>2. ~(y < x)
    BY <1>2, <1>3, <2>1
  <2> QED BY <2>1, <2>2
<1> QED BY <1>3, <1>4 DEF Min

\* The addresses called so far go up to the one the walk stands on; whoever is
\* registered all the while and is not beyond it has been called.
Called(l) == \E i \in 1 .. Len(called) : called[i] = l

Ascending ==
  \A i, j \in 1 .. Len(called) : i < j => called[i] < called[j]

StandsOnLast ==
  it # NoWalk => /\ it \in listeners
                      /\ Len(called) > 0 /\ called[Len(called)] = it

PassedIsCalled ==
  \A l \in atStart \ removed : (it = NoWalk \/ l <= it) => Called(l)

StillRegistered == atStart \ removed \subseteq listeners

WalkInv ==
  /\ WalkTypeOK
  /\ StillRegistered
  /\ ~erased => Ascending /\ StandsOnLast /\ PassedIsCalled
-----------------------------------------------------------------------------
(* Successor: the end where no address of S is beyond a, and otherwise an  *)
(* address of S beyond a with none of S between.                           *)
LEMMA SuccessorIsNext ==
  ASSUME NEW S \in SUBSET Addr, NEW a \in Nat
  PROVE  \/ /\ Successor(S, a) = NoWalk
            /\ \A b \in S : b <= a
         \/ /\ Successor(S, a) \in S /\ Successor(S, a) # NoWalk
            /\ a < Successor(S, a)
            /\ \A b \in S : b <= a \/ Successor(S, a) <= b
<1> DEFINE later == {b \in S : b > a}
<1>1. S \subseteq Nat \ {0}
  BY AddrAssumption
<1>2. CASE later = {}
  <2>1. Successor(S, a) = NoWalk
    BY <1>2 DEF Successor
  <2>2. \A b \in S : b <= a
    BY <1>1, <1>2
  <2> QED BY <2>1, <2>2
<1>3. CASE later # {}
  <2>1. Successor(S, a) = Min(later)
    BY <1>3 DEF Successor
  <2>2. later \in SUBSET Nat
    BY <1>1
  <2>3. Min(later) \in later /\ \A y \in later : Min(later) <= y
    BY <1>3, <2>2, LeastAddress
  <2> QED BY <1>1, <2>1, <2>3 DEF NoWalk
<1> QED BY <1>2, <1>3
-----------------------------------------------------------------------------
(* Before the first walk nobody has been called. *)
LEMMA WalkBegins == WalkInit => WalkInv
<1> SUFFICES ASSUME WalkInit PROVE WalkInv
  OBVIOUS
<1>1. called = <<>> /\ Len(called) = 0 /\ called \in Seq(Addr)
  BY DEF WalkInit
<1>2. WalkTypeOK /\ StillRegistered
  BY <1>1 DEF WalkInit, WalkTypeOK, StillRegistered
<1>3. Ascending
  BY <1>1 DEF Ascending
<1>4. StandsOnLast /\ PassedIsCalled
  BY DEF WalkInit, StandsOnLast, PassedIsCalled
<1> QED BY <1>2, <1>3, <1>4 DEF WalkInv

(* A step of the walk to the next listener there is keeps the order, and   *)
(* passes over nobody that is registered.                                  *)
LEMMA VisitNext ==
  ASSUME WalkInv, ~erased, next
  PROVE  WalkInv'
<1> DEFINE n == Successor(listeners, it)
<1>1. listeners \in SUBSET Addr /\ it \in Nat /\ Addr \subseteq Nat \ {0}
  BY AddrAssumption DEF WalkInv, WalkTypeOK, NoWalk
<1>2. it # NoWalk /\ it' = n /\ called' = (IF n = NoWalk THEN called ELSE Append(called, n))
      /\ UNCHANGED <<listeners, atStart, removed, erased>>
  BY DEF next, Visit
<1>3. \/ n = NoWalk /\ \A b \in listeners : b <= it
      \/ /\ n \in listeners /\ n # NoWalk /\ it < n
         /\ \A b \in listeners : b <= it \/ n <= b
  BY <1>1, SuccessorIsNext
<1> HIDE DEF n
<1>4. called \in Seq(Addr) /\ Ascending /\ StandsOnLast /\ PassedIsCalled
      /\ StillRegistered /\ WalkTypeOK
  BY <1>1 DEF WalkInv, WalkTypeOK
<1>5. CASE n = NoWalk
  <2>1. called' = called
    BY <1>2, <1>5
  <2>2. PassedIsCalled'
    BY <1>2, <1>3, <1>4, <1>5, <2>1 DEF PassedIsCalled, StillRegistered, Called, NoWalk
  <2>3. WalkTypeOK' /\ StillRegistered' /\ Ascending' /\ StandsOnLast'
    BY <1>2, <1>4, <1>5, <2>1 DEF WalkTypeOK, StillRegistered, Ascending, StandsOnLast
  <2> QED BY <2>2, <2>3 DEF WalkInv
<1>6. CASE n # NoWalk
  <2>1. /\ n \in listeners /\ it < n /\ n \in Nat /\ n \in Addr
        /\ \A b \in listeners : b <= it \/ n <= b
        /\ called' = Append(called, n) /\ it' = n
    BY <1>1, <1>2, <1>3, <1>6
  <2>2. /\ Len(called') = Len(called) + 1 /\ called'[Len(called) + 1] = n
        /\ \A i \in 1 .. Len(called) : called'[i] = called[i]
        /\ called' \in Seq(Addr) /\ Len(called) \in Nat
    BY <1>4, <2>1
  <2>3. ASSUME NEW i \in 1 .. Len(called)
        PROVE  called[i] \in Nat /\ called[i] <= it
    <3>1. called[i] \in Nat
      <4>1. called[i] \in Addr
        BY <1>4
      <4> QED BY <1>1, <4>1
    <3>2. Len(called) \in Nat /\ Len(called) > 0 /\ called[Len(called)] = it
      BY <1>2, <1>4 DEF StandsOnLast
    <3>3. CASE i = Len(called)
      BY <1>1, <3>2, <3>3
    <3>4. CASE i # Len(called)
      <4>1. i < Len(called) /\ Len(called) \in 1 .. Len(called)
        BY <3>2, <3>4
      <4>2. called[i] < called[Len(called)]
        BY <1>4, <4>1 DEF Ascending
      <4> QED BY <1>1, <3>1, <3>2, <4>2
    <3> QED BY <1>1, <3>1, <3>3, <3>4
  <2>4. Ascending'
    <3> SUFFICES ASSUME NEW i \in 1 .. Len(called) + 1, NEW j \in 1 .. Len(called) + 1, i < j
                 PROVE  called'[i] < called'[j]
      BY <2>2 DEF Ascending
    <3>1. i \in 1 .. Len(called) /\ called'[i] = called[i]
      BY <2>2
    <3>2. CASE j = Len(called) + 1
      BY <1>1, <2>1, <2>2, <2>3, <3>1, <3>2
    <3>3. CASE j # Len(called) + 1
      <4>1. j \in 1 .. Len(called)
        BY <2>2, <3>3
      <4> QED BY <1>4, <2>2, <3>1, <4>1 DEF Ascending
    <3> QED BY <3>2, <3>3
  <2>5. StandsOnLast'
    BY <1>2, <2>1, <2>2 DEF StandsOnLast
  <2>6. PassedIsCalled'
    <3> SUFFICES ASSUME NEW l \in atStart \ removed, l <= n
                 PROVE  Called(l)'
      BY <1>2, <1>6, <2>1 DEF PassedIsCalled
    <3>1. l \in listeners /\ l \in Nat
      BY <1>1, <1>4 DEF StillRegistered
    <3>2. CASE l <= it
      <4>1. PICK i \in 1 .. Len(called) : called[i] = l
        BY <1>4, <3>2 DEF PassedIsCalled, Called
      <4> QED BY <2>2, <4>1 DEF Called
    <3>3. CASE l = n
      BY <2>2, <3>3 DEF Called
    <3> QED BY <2>1, <3>1, <3>2, <3>3
  <2>7. WalkTypeOK' /\ StillRegistered'
    BY <1>2, <1>4, <2>1, <2>2 DEF WalkTypeOK, StillRegistered
  <2> QED BY <2>4, <2>5, <2>6, <2>7 DEF WalkInv
<1> QED BY <1>5, <1>6

(* A walk that starts stands on the least listener, and has called it.     *)
LEMMA WalkStarts ==
  ASSUME WalkInv, handle_recv
  PROVE  WalkInv'
<1> DEFINE n == Successor(listeners, NoWalk)
<1>1. listeners \in SUBSET Addr /\ Addr \subseteq Nat \ {0} /\ NoWalk \in Nat
  BY AddrAssumption DEF WalkInv, WalkTypeOK, NoWalk
<1>2. \/ n = NoWalk /\ \A b \in listeners : b <= NoWalk
      \/ /\ n \in listeners /\ n # NoWalk /\ NoWalk < n
         /\ \A b \in listeners : b <= NoWalk \/ n <= b
  BY <1>1, SuccessorIsNext
<1>3. /\ it' = n /\ called' = (IF listeners = {} THEN <<>> ELSE <<n>>)
      /\ atStart' = listeners /\ removed' = {} /\ erased' = FALSE /\ listeners' = listeners
  BY DEF handle_recv
<1> HIDE DEF n
<1>4. CASE listeners = {}
  <2>1. n = NoWalk /\ called' = <<>>
    BY <1>2, <1>3, <1>4
  <2>2. Len(called') = 0 /\ called' \in Seq(Addr)
    BY <2>1
  <2>3. WalkTypeOK' /\ StillRegistered'
    BY <1>1, <1>3, <2>1, <2>2 DEF WalkTypeOK, StillRegistered
  <2>4. Ascending'
    BY <2>2 DEF Ascending
  <2>5. StandsOnLast' /\ PassedIsCalled'
    BY <1>3, <1>4, <2>1 DEF StandsOnLast, PassedIsCalled
  <2> QED BY <2>3, <2>4, <2>5 DEF WalkInv
<1>5. CASE listeners # {}
  <2>1. /\ n \in listeners /\ n # NoWalk /\ n \in Addr /\ n \in Nat
        /\ \A b \in listeners : b \in Nat /\ n <= b
    <3>1. \A b \in listeners : b \in Nat /\ ~(b <= NoWalk)
      BY <1>1 DEF NoWalk
    <3> QED BY <1>1, <1>2, <1>5, <3>1
  <2>2. called' = <<n>> /\ Len(called') = 1 /\ called'[1] = n /\ called' \in Seq(Addr)
    BY <1>3, <1>5, <2>1
  <2>3. PassedIsCalled'
    <3> SUFFICES ASSUME NEW l \in listeners, l <= n PROVE Called(l)'
      BY <1>3, <2>1 DEF PassedIsCalled
    <3>1. l = n
      BY <2>1
    <3> QED BY <2>2, <3>1 DEF Called
  <2>4. Ascending' /\ StandsOnLast'
    BY <1>3, <2>1, <2>2 DEF Ascending, StandsOnLast
  <2>5. WalkTypeOK' /\ StillRegistered'
    BY <1>1, <1>3, <2>1, <2>2 DEF WalkTypeOK, StillRegistered
  <2> QED BY <2>3, <2>4, <2>5 DEF WalkInv
<1> QED BY <1>4, <1>5

(* Every step keeps the invariant. *)
LEMMA WalkStep == WalkInv /\ [WalkNext]_walk_vars => WalkInv'
<1> SUFFICES ASSUME WalkInv, [WalkNext]_walk_vars PROVE WalkInv'
  OBVIOUS
<1> USE DEF WalkInv, WalkTypeOK, StillRegistered, Ascending, StandsOnLast, PassedIsCalled, Called
<1>1. ASSUME NEW l \in Addr, add_recv_listener(l) PROVE WalkInv'
  BY <1>1 DEF add_recv_listener
<1>2. ASSUME NEW l \in Addr, remove_listener(l) PROVE WalkInv'
  BY <1>2 DEF remove_listener
<1>3. CASE remove_all_recv_listeners
  BY <1>3 DEF remove_all_recv_listeners
<1>4. CASE handle_recv
  BY <1>4, WalkStarts
<1>5. CASE next
  BY <1>5, VisitNext DEF next
<1>6. CASE next_from_erased
  <2>1. PICK a \in {b \in listeners : Len(called) < MaxVisits} \cup {NoWalk} : Visit(a)
    BY <1>6 DEF next_from_erased
  <2>2. WalkTypeOK'
    BY <1>6, <2>1 DEF next_from_erased, Visit
  <2> QED BY <1>6, <2>2 DEF next_from_erased
<1>7. CASE UNCHANGED walk_vars
  BY <1>7 DEF walk_vars
<1> QED BY <1>1, <1>2, <1>3, <1>4, <1>5, <1>6, <1>7 DEF WalkNext
-----------------------------------------------------------------------------
(* The walk's variables keep their types, for any set of addresses. *)
THEOREM WalkTypeCorrect == WalkSpec => []WalkTypeOK
<1>1. WalkInv => WalkTypeOK
  BY DEF WalkInv
<1> QED BY WalkBegins, WalkStep, <1>1, PTL DEF WalkSpec

(* handle_recv over the live set: unless a called listener has removed     *)
(* itself, nobody is called twice, and whoever is registered from the      *)
(* start to the end of the walk is called, for any set of addresses and    *)
(* any changes made on the way.                                            *)
THEOREM WalkCallsEachOnce == WalkSpec => []EachCalledOnce
<1>1. ASSUME WalkInv PROVE EachCalledOnce
  <2>1. \A i \in 1 .. Len(called) : called[i] \in Nat
    <3>1. called \in Seq(Addr) /\ Addr \subseteq Nat
      BY <1>1, AddrAssumption DEF WalkInv, WalkTypeOK
    <3>2. \A i \in 1 .. Len(called) : called[i] \in Addr
      BY <3>1
    <3> QED BY <3>1, <3>2
  <2>2. Len(called) \in Nat
    BY <1>1 DEF WalkInv, WalkTypeOK
  <2>3. ~erased => CalledAtMostOnce
    <3> SUFFICES ASSUME ~erased, NEW i \in 1 .. Len(called), NEW j \in 1 .. Len(called),
                        called[i] = called[j]
                 PROVE  i = j
      BY DEF CalledAtMostOnce
    <3>1. ~(i < j) /\ ~(j < i)
      BY <1>1, <2>1 DEF WalkInv, Ascending
    <3> QED BY <2>2, <3>1
  <2>4. ~erased => RegisteredThroughoutIsCalled
    BY <1>1 DEF WalkInv, PassedIsCalled, Called, RegisteredThroughoutIsCalled
  <2> QED BY <2>3, <2>4 DEF EachCalledOnce
<1>2. WalkInv => EachCalledOnce
  BY <1>1
<1> QED BY WalkBegins, WalkStep, <1>2, PTL DEF WalkSpec

(* handle_recv calls a listener that is registered when it is called: none *)
(* that an earlier call of the same walk has removed.                      *)
THEOREM OnlyRegisteredAreCalled == WalkSpec => RemovedIsNotCalled
<1>1. ASSUME WalkInv, [WalkNext]_walk_vars, called' # called, called' # <<>>, ~erased
      PROVE  it' \in listeners
  <2>1. listeners \in SUBSET Addr /\ it \in Nat /\ NoWalk \in Nat
    BY <1>1, AddrAssumption DEF WalkInv, WalkTypeOK, NoWalk
  <2>2. CASE handle_recv
    <3>1. listeners # {}
      BY <1>1, <2>2 DEF handle_recv
    <3>2. PICK b \in listeners : TRUE
      BY <3>1
    <3>3. b \in Nat /\ ~(b <= NoWalk)
      <4>1. b \in Nat \ {0}
        BY <2>1, <3>2, AddrAssumption
      <4> QED BY <4>1 DEF NoWalk
    <3>4. Successor(listeners, NoWalk) \in listeners
      BY <2>1, <3>3, SuccessorIsNext
    <3> QED BY <2>2, <3>4 DEF handle_recv
  <2>3. CASE next
    <3>1. Successor(listeners, it) # NoWalk /\ it' = Successor(listeners, it)
      BY <1>1, <2>3 DEF next, Visit
    <3> QED BY <2>1, <3>1, SuccessorIsNext
  <2> QED BY <1>1, <2>2, <2>3 DEF WalkNext, walk_vars, add_recv_listener, remove_listener,
               remove_all_recv_listeners, next_from_erased
<1>2. WalkInv /\ [WalkNext]_walk_vars
        => [called' # called /\ called' # <<>> /\ ~erased => it' \in listeners]_walk_vars
  BY <1>1
<1> QED BY WalkBegins, WalkStep, <1>2, PTL DEF WalkSpec, RemovedIsNotCalled
-----------------------------------------------------------------------------
(* The generator *)

\* The walk stands on a filter that is registered, and a packet is being
\* received then.
BaseAndNewest == listeners = {base} \cup ({curr} \ {NoFilter})

WalkOnListener == it # NoWalk => it \in listeners /\ packet > 0

\* The last access generated is the one curr reports to.
NewestIsCurrent ==
  /\ curr # base
  /\ curr # NoFilter => /\ par[curr] \in generated
                        /\ \A g \in generated : g <= par[curr]

\* No access was generated between the one served and the packet.
ServedInTurn ==
  \A i \in 1 .. Len(delivered) :
    LET a == delivered[i][1]
        k == delivered[i][2]
    IN  a <= k /\ k <= packet /\ \A g \in generated : ~(a < g /\ g < k)

\* The packet being received has been handed to an access of its own, or the
\* walk has not come past the base filter yet.
Served == \E i \in 1 .. Len(delivered) : delivered[i] = <<packet, packet>>
ServedOrAhead ==
  (packet > 0 /\ isEnd) => Served \/ (it # NoWalk /\ it <= base)

GenInv ==
  /\ TypeOK
  /\ BaseAndNewest
  /\ WalkOnListener
  /\ NewestIsCurrent
  /\ \A g \in generated : g <= packet
  /\ ServedInTurn
  /\ ServedOrAhead
-----------------------------------------------------------------------------
(* The walk goes on to a filter of the set, or ends. *)
LEMMA SuccessorInSet ==
  ASSUME NEW S \in SUBSET Addr, NEW a
  PROVE  Successor(S, a) = NoWalk \/ Successor(S, a) \in S
<1> DEFINE later == {b \in S : b > a}
<1>1. later \in SUBSET Nat /\ later \subseteq S
  BY AddrAssumption, BoundsAssumption
<1>2. later # {} => Min(later) \in later
  BY <1>1, LeastAddress
<1> QED BY <1>1, <1>2 DEF Successor

(* What is appended to a sequence of deliveries, and what is not. *)
LEMMA AppendDelivery ==
  ASSUME NEW s \in Seq(Packets \X Packets), NEW d \in Packets \X Packets
  PROVE  /\ Append(s, d) \in Seq(Packets \X Packets)
         /\ Len(Append(s, d)) = Len(s) + 1 /\ Len(s) \in Nat
         /\ \A i \in 1 .. Len(s) : Append(s, d)[i] = s[i]
         /\ Append(s, d)[Len(s) + 1] = d
  OBVIOUS

(* Initially nothing was generated and only the base filter is there. *)
LEMMA GenInit == Init => GenInv
<1> SUFFICES ASSUME Init PROVE GenInv
  OBVIOUS
<1>1. base \in Addr /\ 0 \notin Addr
  BY AddrAssumption, BoundsAssumption DEF Init, connect_net_access_generator_listener
<1>2. TypeOK
  <2>1. delivered \in Seq(Packets \X Packets)
    BY DEF Init
  <2>2. par \in [Addr -> Packets \cup {0}] /\ packet \in 0 .. MaxPackets
    BY AddrAssumption, BoundsAssumption DEF Init
  <2> QED BY <1>1, <2>1, <2>2 DEF Init, TypeOK, connect_net_access_generator_listener
<1> QED BY <1>1, <1>2 DEF Init, connect_net_access_generator_listener, GenInv,
          BaseAndNewest, WalkOnListener, NewestIsCurrent, ServedInTurn,
          ServedOrAhead, NoFilter

(* A packet is handed to the generator by the base filter. *)
LEMMA GenerateStep ==
  ASSUME GenInv, NEW kept \in BOOLEAN, generate(kept)
  PROVE  GenInv'
<1>1. /\ Addr \subseteq Nat \ {0} /\ MaxPackets \in Nat
      /\ packet \in 0 .. MaxPackets /\ packet > 0 /\ packet \in Packets
      /\ TypeOK /\ BaseAndNewest /\ NewestIsCurrent /\ base \in Addr
  BY AddrAssumption, BoundsAssumption DEF GenInv, TypeOK, generate, WalkOnListener, NoWalk, Packets
<1>2. PICK f \in Addr \ listeners :
         /\ set_recv_access(f)
         /\ par' = [par EXCEPT ![f] = packet]
         /\ it' = Successor(listeners', base)
  BY DEF generate
<1>3. /\ generated' = generated \cup {packet}
      /\ delivered' = Append(delivered, <<packet, packet>>)
      /\ alive' = (IF kept THEN alive \cup {packet} ELSE alive)
      /\ base' = base /\ packet' = packet /\ isEnd' = isEnd /\ stale' = stale
  BY DEF generate
<1>4. /\ listeners' = {base, f} /\ curr' = f /\ f # base /\ f # NoFilter
      /\ listeners' \subseteq Addr
  BY <1>1, <1>2 DEF set_recv_access, BaseAndNewest, NewestIsCurrent, NoFilter, TypeOK
<1>5. it' = NoWalk \/ it' \in listeners'
  BY <1>2, <1>4, SuccessorInSet
<1>6. delivered \in Seq(Packets \X Packets) /\ <<packet, packet>> \in Packets \X Packets
  BY <1>1 DEF TypeOK
<1>7. /\ delivered' \in Seq(Packets \X Packets)
      /\ Len(delivered') = Len(delivered) + 1 /\ Len(delivered) \in Nat
      /\ \A i \in 1 .. Len(delivered) : delivered'[i] = delivered[i]
      /\ delivered'[Len(delivered) + 1] = <<packet, packet>>
  BY <1>3, <1>6, AppendDelivery
<1>8. par' \in [Addr -> Packets \cup {0}] /\ par'[f] = packet
  BY <1>1, <1>2 DEF TypeOK
<1>9. TypeOK'
  BY <1>1, <1>3, <1>4, <1>5, <1>7, <1>8 DEF TypeOK
<1>10. BaseAndNewest' /\ WalkOnListener'
  BY <1>1, <1>3, <1>4, <1>5 DEF BaseAndNewest, WalkOnListener
<1>11. /\ generated' \subseteq Packets
       /\ \A g \in generated' : g <= packet'
  BY <1>1, <1>3 DEF GenInv, TypeOK, Packets
<1>12. NewestIsCurrent'
  BY <1>3, <1>4, <1>8, <1>11 DEF NewestIsCurrent
<1>13. ServedInTurn'
  <2> SUFFICES ASSUME NEW i \in 1 .. Len(delivered) + 1
               PROVE  LET a == delivered'[i][1]
                          k == delivered'[i][2]
                      IN  a <= k /\ k <= packet
                            /\ \A g \in generated' : ~(a < g /\ g < k)
    BY <1>3, <1>7 DEF ServedInTurn
  <2>1. CASE i = Len(delivered) + 1
    BY <1>1, <1>3, <1>7, <1>11, <2>1 DEF Packets
  <2>2. CASE i # Len(delivered) + 1
    <3>1. i \in 1 .. Len(delivered) /\ delivered'[i] = delivered[i]
      BY <1>7, <2>2
    <3>2. delivered[i] \in Packets \X Packets
      BY <1>6, <3>1
    <3>3. delivered[i][1] \in Packets /\ delivered[i][2] \in Packets
      BY <3>2
    <3>4. /\ delivered[i][1] <= delivered[i][2] /\ delivered[i][2] <= packet
          /\ \A g \in generated : ~(delivered[i][1] < g /\ g < delivered[i][2])
      BY <3>1 DEF GenInv, ServedInTurn
    <3>5. ~(packet < delivered[i][2])
      BY <1>1, <3>3, <3>4 DEF Packets
    <3> QED BY <1>3, <3>1, <3>4, <3>5
  <2> QED BY <2>1, <2>2
<1>14. ServedOrAhead'
  <2>1. Len(delivered) + 1 \in 1 .. Len(delivered')
    BY <1>7
  <2> QED BY <1>3, <1>7, <2>1 DEF ServedOrAhead, Served
<1> QED BY <1>9, <1>10, <1>11, <1>12, <1>13, <1>14 DEF GenInv

(* A packet is handed on by the filter of the last access generated. *)
LEMMA ForwardStep ==
  ASSUME GenInv, forward_to_access
  PROVE  GenInv'
<1>1. /\ Addr \subseteq Nat \ {0} /\ MaxPackets \in Nat
      /\ packet \in 0 .. MaxPackets /\ packet > 0 /\ packet \in Packets
      /\ TypeOK /\ BaseAndNewest /\ NewestIsCurrent /\ listeners \in SUBSET Addr
  BY AddrAssumption, BoundsAssumption DEF GenInv, TypeOK, forward_to_access, WalkOnListener, NoWalk, Packets
<1>2. it = curr /\ curr # NoFilter
  BY DEF forward_to_access, GenInv, BaseAndNewest, WalkOnListener
<1>3. it' = NoWalk \/ it' \in listeners
  BY <1>1, SuccessorInSet DEF forward_to_access
<1>4. UNCHANGED <<listeners, base, curr, par, alive, packet, isEnd, generated>>
  BY DEF forward_to_access
<1>5. BaseAndNewest' /\ WalkOnListener' /\ NewestIsCurrent'
        /\ \A g \in generated' : g <= packet'
  BY <1>1, <1>3, <1>4 DEF BaseAndNewest, WalkOnListener, NewestIsCurrent, GenInv
<1>8. it <= base => it' # NoWalk /\ it' <= base
  <2> SUFFICES ASSUME it <= base PROVE it' # NoWalk /\ it' <= base
    OBVIOUS
  <2>1. base \in {b \in listeners : b > it} /\ {b \in listeners : b > it} \in SUBSET Nat
    BY <1>1 DEF forward_to_access, BaseAndNewest, TypeOK
  <2>2. it' = Min({b \in listeners : b > it})
    BY <2>1 DEF forward_to_access, Successor
  <2>3. it' \in listeners /\ it' <= base
    BY <2>1, <2>2, LeastAddress
  <2> QED BY <1>1, <2>3 DEF NoWalk
<1>6. CASE par[it] \in alive
  <2> DEFINE a == par[it]
  <2>1. /\ a \in Packets /\ a \in generated /\ a <= packet
        /\ \A g \in generated : g <= a
    BY <1>1, <1>2, <1>6 DEF TypeOK, NewestIsCurrent, GenInv
  <2>2. delivered' = Append(delivered, <<a, packet>>) /\ stale' = stale
    BY <1>6 DEF forward_to_access
  <2> HIDE DEF a
  <2>3. delivered \in Seq(Packets \X Packets) /\ <<a, packet>> \in Packets \X Packets
    BY <1>1, <2>1 DEF TypeOK
  <2>4. /\ delivered' \in Seq(Packets \X Packets)
        /\ Len(delivered') = Len(delivered) + 1 /\ Len(delivered) \in Nat
        /\ \A i \in 1 .. Len(delivered) : delivered'[i] = delivered[i]
        /\ delivered'[Len(delivered) + 1] = <<a, packet>>
    BY <2>2, <2>3, AppendDelivery
  <2>5. TypeOK'
    BY <1>1, <1>3, <1>4, <2>2, <2>4 DEF TypeOK
  <2>6. ServedInTurn'
    <3> SUFFICES ASSUME NEW i \in 1 .. Len(delivered) + 1
                 PROVE  /\ delivered'[i][1] <= delivered'[i][2]
                        /\ delivered'[i][2] <= packet
                        /\ \A g \in generated :
                             ~(delivered'[i][1] < g /\ g < delivered'[i][2])
      BY <1>4, <2>4 DEF ServedInTurn
    <3>1. CASE i = Len(delivered) + 1
      <4>1. generated \subseteq Packets
        BY <1>1 DEF TypeOK
      <4> QED BY <1>1, <2>1, <2>4, <3>1, <4>1 DEF Packets
    <3>2. CASE i # Len(delivered) + 1
      <4>1. i \in 1 .. Len(delivered) /\ delivered'[i] = delivered[i]
        BY <2>4, <3>2
      <4> QED BY <4>1 DEF GenInv, ServedInTurn
    <3> QED BY <3>1, <3>2
  <2>7. Served => Served'
    <3> SUFFICES ASSUME Served
                 PROVE  \E i \in 1 .. Len(delivered') : delivered'[i] = <<packet, packet>>
      BY <1>4 DEF Served
    <3>1. PICK i \in 1 .. Len(delivered) : delivered[i] = <<packet, packet>>
      BY DEF Served
    <3>2. i \in 1 .. Len(delivered') /\ delivered'[i] = delivered[i]
      BY <2>4
    <3> QED BY <3>1, <3>2
  <2>8. ServedOrAhead'
    BY <1>4, <1>8, <2>7 DEF ServedOrAhead, GenInv
  <2> QED BY <1>5, <2>5, <2>6, <2>8 DEF GenInv
<1>7. CASE par[it] \notin alive
  <2>1. delivered' = delivered /\ stale' = TRUE
    BY <1>7 DEF forward_to_access
  <2>2. TypeOK'
    BY <1>1, <1>3, <1>4, <2>1 DEF TypeOK
  <2>3. ServedOrAhead'
    BY <1>4, <1>8, <2>1 DEF GenInv, ServedOrAhead, Served
  <2> QED BY <1>4, <1>5, <2>1, <2>2, <2>3 DEF GenInv, ServedInTurn
<1> QED BY <1>6, <1>7

(* Every step keeps the invariant. *)
LEMMA GenStep ==
  ASSUME GenInv, [Next]_vars
  PROVE  GenInv'
<1>0. /\ Addr \subseteq Nat \ {0} /\ MaxPackets \in Nat
      /\ listeners \in SUBSET Addr /\ base \in listeners /\ packet \in 0 .. MaxPackets
      /\ generated \subseteq Packets
  BY AddrAssumption, BoundsAssumption DEF GenInv, TypeOK, BaseAndNewest
<1>1. CASE recv_packet
  <2>1. it' = Min(listeners) /\ packet' = packet + 1 /\ packet < MaxPackets
          /\ isEnd' \in BOOLEAN
          /\ UNCHANGED <<listeners, base, curr, par, alive, generated, delivered, stale>>
    BY <1>1 DEF recv_packet
  <2>2. it' \in listeners /\ it' <= base
    <3>1. listeners \in SUBSET Nat /\ listeners # {}
      BY <1>0
    <3> QED BY <1>0, <2>1, <3>1, LeastAddress
  <2>3. TypeOK'
    BY <1>0, <2>1, <2>2 DEF GenInv, TypeOK
  <2>4. BaseAndNewest' /\ WalkOnListener' /\ NewestIsCurrent' /\ ServedOrAhead'
    <3>1. packet' > 0 /\ it' # NoWalk
      BY <1>0, <2>1, <2>2 DEF NoWalk
    <3> QED BY <2>1, <2>2, <3>1 DEF GenInv, BaseAndNewest, WalkOnListener,
              NewestIsCurrent, ServedOrAhead
  <2>5. \A g \in generated' : g <= packet'
    BY <1>0, <2>1 DEF GenInv, Packets
  <2>6. ServedInTurn'
    <3> SUFFICES ASSUME NEW i \in 1 .. Len(delivered)
                 PROVE  /\ delivered[i][1] <= delivered[i][2]
                        /\ delivered[i][2] <= packet + 1
                        /\ \A g \in generated :
                             ~(delivered[i][1] < g /\ g < delivered[i][2])
      BY <2>1 DEF ServedInTurn
    <3>1. delivered[i] \in Packets \X Packets
      BY DEF GenInv, TypeOK
    <3>2. delivered[i][1] \in Packets /\ delivered[i][2] \in Packets
      BY <3>1
    <3>3. /\ delivered[i][1] <= delivered[i][2] /\ delivered[i][2] <= packet
          /\ \A g \in generated : ~(delivered[i][1] < g /\ g < delivered[i][2])
      BY DEF GenInv, ServedInTurn
    <3>4. delivered[i][2] <= packet + 1
      BY <1>0, <3>2, <3>3 DEF Packets
    <3> QED BY <3>3, <3>4
  <2> QED BY <2>3, <2>4, <2>5, <2>6 DEF GenInv
<1>2. CASE no_match
  <2>1. it' = NoWalk \/ it' \in listeners
    BY <1>0, <1>2, SuccessorInSet DEF no_match
  <2> QED BY <1>0, <1>2, <2>1 DEF no_match, GenInv, TypeOK, BaseAndNewest,
            WalkOnListener, NewestIsCurrent, ServedInTurn, ServedOrAhead, NoWalk
<1>3. CASE forward_to_access
  BY <1>3, ForwardStep
<1>4. ASSUME NEW kept \in BOOLEAN, generate(kept)
      PROVE  GenInv'
  BY <1>4, GenerateStep
<1>5. ASSUME NEW a \in alive, release(a)
      PROVE  GenInv'
  BY <1>5 DEF release, GenInv, TypeOK, BaseAndNewest, WalkOnListener, NewestIsCurrent,
       ServedInTurn, ServedOrAhead, Served
<1>6. CASE UNCHANGED vars
  BY <1>6 DEF vars, GenInv, TypeOK, BaseAndNewest, WalkOnListener, NewestIsCurrent,
       ServedInTurn, ServedOrAhead, Served
<1> QED BY <1>1, <1>2, <1>3, <1>4, <1>5, <1>6 DEF Next

(* The invariant holds of the generator. *)
LEMMA GenInvariant == Spec => []GenInv
<1>1. GenInv /\ [Next]_vars => GenInv'
  BY GenStep
<1> QED BY GenInit, <1>1, PTL DEF Spec
-----------------------------------------------------------------------------
(* The generator's state is well typed. *)
THEOREM TypeCorrect == Spec => []TypeOK
<1>1. GenInv => TypeOK
  BY DEF GenInv
<1> QED BY GenInvariant, <1>1, PTL

(* The set of filters does not grow with the packets: set_recv_access      *)
(* takes the filter of the access before out, whatever became of that      *)
(* access and wherever the new filter lies.                                *)
THEOREM NoFilterLeftBehind == Spec => []TwoFiltersAtMost
<1>1. GenInv => TwoFiltersAtMost
  BY DEF GenInv, BaseAndNewest, TwoFiltersAtMost
<1> QED BY GenInvariant, <1>1, PTL

(* Every packet that reached its endpoint is handed to an access of its    *)
(* own by the end of its walk, however the packets before it have changed  *)
(* the set: the walk is never past the base filter without having called   *)
(* it.                                                                     *)
THEOREM EndpointsAreServed == Spec => []EndpointIsServed
<1>1. GenInv => EndpointIsServed
  <2> SUFFICES ASSUME GenInv, it = NoWalk, packet > 0, isEnd
               PROVE  \E i \in Deliveries(packet) : delivered[i][1] = packet
    BY DEF EndpointIsServed
  <2>1. PICK i \in 1 .. Len(delivered) : delivered[i] = <<packet, packet>>
    BY DEF GenInv, ServedOrAhead, Served
  <2> QED BY <2>1 DEF Deliveries
<1> QED BY GenInvariant, <1>1, PTL

(* An access is handed its own packet and those up to the next one that    *)
(* generates an access, that one included, and none after it: the walk may *)
(* reach the old filter before the base filter replaces it.                *)
THEOREM OlderAreDisconnected == Spec => []OnlyNewestTwoAreServed
<1>1. GenInv => OnlyNewestTwoAreServed
  <2> SUFFICES ASSUME GenInv, NEW i \in 1 .. Len(delivered)
               PROVE  /\ delivered[i][1] <= delivered[i][2]
                      /\ Cardinality({g \in generated : delivered[i][1] < g
                                                          /\ g < delivered[i][2]}) = 0
    BY DEF OnlyNewestTwoAreServed
  <2>1. /\ delivered[i][1] <= delivered[i][2]
        /\ \A g \in generated : ~(delivered[i][1] < g /\ g < delivered[i][2])
    BY DEF GenInv, ServedInTurn
  <2>2. {g \in generated : delivered[i][1] < g /\ g < delivered[i][2]} = {}
    BY <2>1
  <2> QED BY <2>1, <2>2, FS_EmptySet
<1> QED BY GenInvariant, <1>1, PTL
=============================================================================
