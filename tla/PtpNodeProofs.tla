---------------------------- MODULE PtpNodeProofs ---------------------------
(***************************************************************************)
(* The path traveling protocol for any set of nodes and any paths: what    *)
(* reversing a path does, and that nothing is delivered off its path.      *)
(***************************************************************************)
EXTENDS PtpNode, SequenceTheorems, WellFoundedInduction, TLAPS

(* Reversing an action twice gives it back. *)
LEMMA ReverseActionTwice ==
  ASSUME NEW a \in Action
  PROVE  /\ create_reverse_action(a) \in Action
         /\ create_reverse_action(create_reverse_action(a)) = a
<1> USE DEF Action, create_reverse_action, create_reverse_endpoint, Start, End
<1>1. CASE a \in [type : {"endpoint"}, src : {"none"}, dest : {"start", "end"}]
  BY <1>1
<1>2. CASE a \in [type : {"local_conn"}, src : Addrs, dest : Addrs]
  BY <1>2
<1>3. CASE a \in [type : {"net_switch"}, src : NetIds, dest : NetIds]
  BY <1>3
<1> QED BY <1>1, <1>2, <1>3

(* A reversed path is a path of the same length. *)
LEMMA ReverseType ==
  ASSUME NEW s \in Seq(Action)
  PROVE  /\ create_reverse_actions(s) \in Seq(Action)
         /\ Len(create_reverse_actions(s)) = Len(s)
         /\ \A i \in 1 .. Len(s) :
              create_reverse_actions(s)[i]
                = create_reverse_action(s[Len(s) + 1 - i])
<1>1. Len(s) \in Nat
  OBVIOUS
<1>2. ASSUME NEW i \in 1 .. Len(s)
      PROVE  create_reverse_action(s[Len(s) + 1 - i]) \in Action
  <2>1. Len(s) + 1 - i \in 1 .. Len(s)
    BY <1>1
  <2>2. s[Len(s) + 1 - i] \in Action
    BY <2>1
  <2> QED BY <2>2, ReverseActionTwice
<1>3. create_reverse_actions(s) \in [1 .. Len(s) -> Action]
  BY <1>2 DEF create_reverse_actions
<1> QED BY <1>1, <1>3 DEF create_reverse_actions

(* create_reverse_actions is its own inverse: the answer to an answer      *)
(* travels the original path.                                              *)
THEOREM ReverseTwice ==
  \A s \in Seq(Action) : create_reverse_actions(create_reverse_actions(s)) = s
<1> TAKE s \in Seq(Action)
<1> DEFINE r == create_reverse_actions(s)
           n == Len(s)
<1>1. n \in Nat
  OBVIOUS
<1>2. /\ r \in Seq(Action) /\ Len(r) = n
      /\ \A i \in 1 .. n : r[i] = create_reverse_action(s[n + 1 - i])
  BY ReverseType
<1> HIDE DEF r
<1>3. /\ create_reverse_actions(r) \in Seq(Action)
      /\ Len(create_reverse_actions(r)) = n
      /\ \A i \in 1 .. n : create_reverse_actions(r)[i]
                             = create_reverse_action(r[n + 1 - i])
  BY <1>2, ReverseType
<1>4. ASSUME NEW i \in 1 .. n PROVE create_reverse_actions(r)[i] = s[i]
  <2>1. n + 1 - i \in 1 .. n /\ n + 1 - (n + 1 - i) = i
    BY <1>1
  <2>2. r[n + 1 - i] = create_reverse_action(s[i])
    BY <1>2, <2>1
  <2>3. s[i] \in Action
    BY <1>1
  <2>4. create_reverse_action(create_reverse_action(s[i])) = s[i]
    BY <2>3, ReverseActionTwice
  <2> QED BY <1>3, <2>2, <2>4
<1>5. create_reverse_actions(r) = s
  BY <1>3, <1>4, SeqEqual
<1> QED BY <1>5 DEF r

(* The reverse of a path of one hop is the path of one hop back: the       *)
(* server's answer is addressed to the client.                             *)
THEOREM ReverseOneHop ==
  \A a, b \in Addrs : create_reverse_actions(OneHop(a, b)) = OneHop(b, a)
<1> TAKE a \in Addrs, b \in Addrs
<1> DEFINE s == OneHop(a, b)
           t == OneHop(b, a)
<1>1. Start \in Action /\ End \in Action /\ Conn(a, b) \in Action
        /\ Conn(b, a) \in Action
  BY DEF Action, Start, End, Conn
<1>2. /\ s \in Seq(Action) /\ Len(s) = 3
      /\ s[1] = Start /\ s[2] = Conn(a, b) /\ s[3] = End
      /\ t \in Seq(Action) /\ Len(t) = 3
      /\ t[1] = Start /\ t[2] = Conn(b, a) /\ t[3] = End
  BY <1>1 DEF OneHop
<1> HIDE DEF s, t
<1>3. /\ create_reverse_actions(s) \in Seq(Action)
      /\ Len(create_reverse_actions(s)) = 3
      /\ \A i \in 1 .. 3 : create_reverse_actions(s)[i]
                             = create_reverse_action(s[3 + 1 - i])
  BY <1>2, ReverseType
<1>4. /\ create_reverse_action(Start) = End
      /\ create_reverse_action(End) = Start
      /\ create_reverse_action(Conn(a, b)) = Conn(b, a)
  BY DEF create_reverse_action, create_reverse_endpoint, Start, End, Conn
<1>5. /\ create_reverse_actions(s)[1] = Start
      /\ create_reverse_actions(s)[2] = Conn(b, a)
      /\ create_reverse_actions(s)[3] = End
  BY <1>2, <1>3, <1>4
<1>6. \A i \in 1 .. 3 : create_reverse_actions(s)[i] = t[i]
  BY <1>2, <1>5
<1>7. create_reverse_actions(s) = t
  BY <1>2, <1>3, <1>6, SeqEqual
<1> QED BY <1>7 DEF s, t

-----------------------------------------------------------------------------

(* A set of natural numbers that is not empty has a least element. *)
LEMMA LeastNat ==
  ASSUME NEW S \in SUBSET Nat, S # {}
  PROVE  \E x \in S : \A y \in S : x <= y
<1> DEFINE R == OpToRel(<, Nat)
<1>1. IsWellFoundedOn(R, Nat)
  BY NatLessThanWellFounded
<1>2. \A x, y \in Nat : y < x => <<y, x>> \in R
  BY DEF OpToRel
<1> HIDE DEF R
<1>3. PICK x \in S : \A y \in S : ~(<<y, x>> \in R)
  BY <1>1, WFMin
<1>4. ASSUME NEW y \in S PROVE x <= y
  <2>1. x \in Nat /\ y \in Nat
    OBVIOUS
  <2>2. ~(y < x)
    BY <1>2, <1>3, <2>1
  <2> QED BY <2>1, <2>2
<1> QED BY <1>4

(* Where a node stops: every action from the current one to there is one   *)
(* it is done with.                                                        *)
LEMMA StopsAtLeast ==
  ASSUME NEW h \in Header, NEW n \in Addrs
  PROVE  /\ StopsAt(h, n) \in Nat
         /\ \A i \in h.curr_action .. Len(h.actions) - 1 :
              i < StopsAt(h, n) => passes(ActionAt(h.actions, i), n)
<1> DEFINE stops == {i \in h.curr_action .. Len(h.actions) - 1 :
                       ~passes(ActionAt(h.actions, i), n)}
<1>1. h.curr_action \in Nat /\ Len(h.actions) \in Nat
  BY DEF Header
<1>2. stops \in SUBSET Nat
  BY <1>1
<1>3. CASE stops = {}
  BY <1>1, <1>3 DEF StopsAt
<1>4. CASE stops # {}
  <2>1. \E x \in stops : \A y \in stops : x <= y
    BY <1>2, <1>4, LeastNat
  <2>2. StopsAt(h, n) = CHOOSE i \in stops : \A j \in stops : i <= j
    BY <1>4 DEF StopsAt
  <2> HIDE DEF stops
  <2>3. StopsAt(h, n) \in stops /\ \A j \in stops : StopsAt(h, n) <= j
    BY <2>1, <2>2
  <2>4. ASSUME NEW i \in h.curr_action .. Len(h.actions) - 1,
               i < StopsAt(h, n)
        PROVE  i \notin stops
    <3>1. i \in Nat /\ StopsAt(h, n) \in Nat
      <4>1. i \in Nat
        BY <1>1
      <4>2. StopsAt(h, n) \in Nat
        BY <1>2, <2>3
      <4> QED BY <4>1, <4>2
    <3> QED BY <2>3, <2>4, <3>1
  <2> QED BY <1>2, <2>3, <2>4 DEF stops
<1> QED BY <1>3, <1>4

(* The header a node leaves behind is a header. *)
LEMMA HeaderAtType ==
  ASSUME NEW h \in Header, NEW n \in Addrs
  PROVE  /\ HeaderAt(h, n) \in Header
         /\ HeaderAt(h, n).actions = h.actions
         /\ HeaderAt(h, n).curr_action = StopsAt(h, n)
<1>1. StopsAt(h, n) \in Nat
  BY StopsAtLeast
<1>2. (h.no_jumps + 1) % 256 \in 0 .. 255
  <2>1. h.no_jumps \in 0 .. 255
    BY DEF Header
  <2>2. ASSUME NEW k \in 0 .. 255
        PROVE  (k + 1) % 256 \in 0 .. 255
    OBVIOUS
  <2> QED BY <2>1, <2>2
<1> DEFINE s == StopsAt(h, n)
<1> DEFINE j == (h.no_jumps + 1) % 256
<1>3. HeaderAt(h, n) = [h EXCEPT !.curr_action = s, !.no_jumps = j]
  BY DEF HeaderAt
<1>4. s \in Nat /\ j \in 0 .. 255
  BY <1>1, <1>2
<1> HIDE DEF s, j
<1>5. HeaderAt(h, n) = [actions |-> h.actions, curr_action |-> s, no_jumps |-> j]
  BY <1>3 DEF Header
<1>6. h.actions \in Seq(Action)
  BY DEF Header
<1>7. HeaderAt(h, n).curr_action = StopsAt(h, n)
  BY <1>5 DEF s
<1> QED BY <1>4, <1>5, <1>6, <1>7 DEF Header

(* What net_access_single sends are packets at their second action. *)
LEMMA SendType ==
  ASSUME NEW n \in Addrs, NEW list \in Seq(Action), NEW p \in send_data(n, list)
  PROVE  p \in [to : Addrs, header : Header] /\ p.header.curr_action = 1
<1>1. [actions |-> list, curr_action |-> 1, no_jumps |-> 1] \in Header
  BY DEF Header
<1> QED BY <1>1 DEF send_data

(* What a packet that arrives has behind it are connections to this node.  *)
LEMMA ArrivesAtDestination ==
  ASSUME NEW h \in Header, NEW n \in Addrs, h.curr_action = 1, Arrives(h, n)
  PROVE  \A i \in 1 .. Len(h.actions) - 1 :
           ActionAt(h.actions, i).type = "local_conn" =>
             ActionAt(h.actions, i).dest = n
<1>1. Len(h.actions) \in Nat /\ StopsAt(h, n) \in Nat
  BY StopsAtLeast DEF Header
<1>2. StopsAt(h, n) = Len(h.actions) - 1
        /\ ActionAt(h.actions, StopsAt(h, n)) = End
  BY HeaderAtType DEF Arrives, ptp_is_endpoint_end
<1>3. ASSUME NEW i \in 1 .. Len(h.actions) - 1,
             ActionAt(h.actions, i).type = "local_conn"
      PROVE  ActionAt(h.actions, i).dest = n
  <2>1. i # StopsAt(h, n)
    BY <1>2, <1>3 DEF End
  <2>2. i < StopsAt(h, n)
    BY <1>1, <1>2, <2>1
  <2>3. passes(ActionAt(h.actions, i), n)
    BY <2>2, StopsAtLeast
  <2> QED BY <1>3, <2>3 DEF passes, Start
<1> QED BY <1>3

(* Every packet under way is at its second action. *)
WireStartsAtOne == \A p \in wire : p.header.curr_action = 1

PtpInv == TypeOK /\ WireStartsAtOne /\ DeliveredAtDestination

(* Taking packets off the wire, and putting on what is sent, keeps it a    *)
(* wire of packets at their second action.                                 *)
LEMMA WireStep ==
  ASSUME PtpInv, NEW m \in Addrs, NEW list \in Seq(Action),
         wire' \subseteq wire \cup send_data(m, list)
  PROVE  wire' \subseteq [to : Addrs, header : Header] /\ WireStartsAtOne'
  BY SendType DEF PtpInv, TypeOK, WireStartsAtOne

(* Every step keeps the invariant. *)
LEMMA PtpStep ==
  ASSUME PtpInv, [Next]_vars
  PROVE  PtpInv'
<1> USE DEF PtpInv
<1>1. ASSUME NEW n \in Addrs, NEW list \in Lists, send(n, list)
      PROVE  PtpInv'
  <2>1. list \in Seq(Action) /\ wire' \subseteq wire \cup send_data(n, list)
    BY <1>1, PtpAssumption DEF send
  <2>2. wire' \subseteq [to : Addrs, header : Header] /\ WireStartsAtOne'
    BY <2>1, WireStep
  <2> QED BY <1>1, <2>2 DEF send, TypeOK, DeliveredAtDestination
<1>2. ASSUME NEW p \in wire, receive_end(p)
      PROVE  PtpInv'
  <2>1. p.to \in Addrs /\ p.header \in Header /\ p.header.curr_action = 1
          /\ p.header.actions \in Seq(Action)
    BY DEF TypeOK, WireStartsAtOne, Header
  <2>2. create_reverse_actions(p.header.actions) \in Seq(Action)
    BY <2>1, ReverseType
  <2>3. wire' \subseteq wire \cup
          send_data(p.to, create_reverse_actions(p.header.actions))
    BY <1>2 DEF receive_end
  <2>4. wire' \subseteq [to : Addrs, header : Header] /\ WireStartsAtOne'
    BY <2>1, <2>2, <2>3, WireStep
  <2>5. HeaderAt(p.header, p.to) \in Header
          /\ HeaderAt(p.header, p.to).actions = p.header.actions
    BY <2>1, HeaderAtType
  <2>6. \A i \in 1 .. Len(p.header.actions) - 1 :
          ActionAt(p.header.actions, i).type = "local_conn" =>
            ActionAt(p.header.actions, i).dest = p.to
    BY <1>2, <2>1, ArrivesAtDestination DEF receive_end
  <2>7. TypeOK'
    BY <1>2, <2>1, <2>4, <2>5 DEF receive_end, TypeOK
  <2>8. DeliveredAtDestination'
    <3> SUFFICES ASSUME NEW n \in Addrs, NEW h \in delivered'[n],
                        NEW i \in 1 .. Len(h.actions) - 1,
                        ActionAt(h.actions, i).type = "local_conn"
                 PROVE  ActionAt(h.actions, i).dest = n
      BY DEF DeliveredAtDestination
    <3>1. h \in delivered[n] \/ (n = p.to /\ h = HeaderAt(p.header, p.to))
      BY <1>2, <2>1 DEF receive_end, TypeOK
    <3>2. CASE h \in delivered[n]
      BY <3>2 DEF DeliveredAtDestination
    <3>3. CASE n = p.to /\ h = HeaderAt(p.header, p.to)
      BY <2>5, <2>6, <3>3
    <3> QED BY <3>1, <3>2, <3>3
  <2> QED BY <2>4, <2>7, <2>8
<1>3. ASSUME NEW p \in wire, receive_drop(p) \/ receive_throw(p)
      PROVE  PtpInv'
  BY <1>3 DEF receive_drop, receive_throw, TypeOK, WireStartsAtOne,
              DeliveredAtDestination
<1>4. CASE UNCHANGED vars
  BY <1>4 DEF vars, TypeOK, WireStartsAtOne, DeliveredAtDestination
<1> QED BY <1>1, <1>2, <1>3, <1>4 DEF Next, Receive

(* The invariant holds of the protocol. *)
LEMMA PtpInvariant == Spec => []PtpInv
<1>1. Init => PtpInv
  BY DEF Init, PtpInv, TypeOK, WireStartsAtOne, DeliveredAtDestination
<1>2. PtpInv /\ [Next]_vars => PtpInv'
  BY PtpStep
<1> QED BY <1>1, <1>2, PTL DEF Spec

(* Nothing is ever delivered to a node its path does not lead to, whatever *)
(* paths the clients and the answers use.                                  *)
THEOREM NoMisdelivery == Spec => []DeliveredAtDestination
<1>1. PtpInv => DeliveredAtDestination
  BY DEF PtpInv
<1> QED BY <1>1, PtpInvariant, PTL
-----------------------------------------------------------------------------
(* A path some client was started with, or the reverse of one: the answer  *)
(* to an answer is back on the path itself.                                *)
Known(actions) ==
  \E m \in Addrs : \E list \in started[m] :
    actions = list \/ actions = create_reverse_actions(list)

WireIsKnown == \A p \in wire : Known(p.header.actions)

EndInv == WireIsKnown /\ TerminatedByEndlessPath

(* What is known stays known, and so does the reverse of it. *)
LEMMA KnownStays ==
  ASSUME TypeOK, \A m \in Addrs : started[m] \subseteq started'[m],
         NEW actions, Known(actions)
  PROVE  Known(actions)' /\ Known(create_reverse_actions(actions))'
<1>0. PICK m \in Addrs : \E list \in started[m] :
         actions = list \/ actions = create_reverse_actions(list)
  BY DEF Known
<1>1. PICK list \in started[m] :
         actions = list \/ actions = create_reverse_actions(list)
  BY <1>0
<1>2. list \in Seq(Action) /\ list \in started'[m]
  BY PtpAssumption DEF TypeOK
<1>3. create_reverse_actions(create_reverse_actions(list)) = list
  BY <1>2, ReverseTwice
<1> QED BY <1>1, <1>2, <1>3 DEF Known

(* A node throws only at a path it has worked off to beyond its end. *)
LEMMA ThrowsAtEndless ==
  ASSUME NEW h \in Header, NEW n \in Addrs, h.curr_action = 1,
         StopsAt(h, n) = Len(h.actions)
  PROVE  Endless(h.actions, n)
<1>1. Len(h.actions) \in Nat
  BY DEF Header
<1>2. ASSUME NEW i \in 2 .. Len(h.actions)
      PROVE  passes(h.actions[i], n)
  <2>1. i - 1 \in 1 .. Len(h.actions) - 1 /\ i - 1 < Len(h.actions)
          /\ i - 1 + 1 = i
    BY <1>1
  <2>2. passes(ActionAt(h.actions, i - 1), n)
    BY <2>1, StopsAtLeast
  <2> QED BY <2>1, <2>2 DEF ActionAt
<1> QED BY <1>2 DEF Endless

(* Every step keeps the paths known, and ends a process only at one of     *)
(* them that is endless for its node.                                      *)
LEMMA EndStep ==
  ASSUME PtpInv, EndInv, [Next]_vars
  PROVE  EndInv'
<1>0. TypeOK /\ WireStartsAtOne
  BY DEF PtpInv
<1>1. ASSUME \A m \in Addrs : started[m] \subseteq started'[m],
             \A p \in wire' : p \in wire \/ Known(p.header.actions)',
             terminated' = terminated
      PROVE  EndInv'
  <2>1. WireIsKnown'
    BY <1>0, <1>1, KnownStays DEF EndInv, WireIsKnown
  <2>2. TerminatedByEndlessPath'
    BY <1>1 DEF EndInv, TerminatedByEndlessPath
  <2> QED BY <2>1, <2>2 DEF EndInv
<1>2. ASSUME NEW n \in Addrs, NEW list \in Lists, send(n, list)
      PROVE  EndInv'
  <2>1. \A m \in Addrs : started[m] \subseteq started'[m]
    BY <1>0, <1>2 DEF send, TypeOK
  <2>2. list \in started'[n]
    BY <1>0, <1>2 DEF send, TypeOK
  <2>3. Known(list)'
    BY <2>2 DEF Known
  <2>4. \A p \in wire' : p \in wire \/ p.header.actions = list
    BY <1>2 DEF send, send_data
  <2> QED BY <1>1, <1>2, <2>1, <2>3, <2>4 DEF send
<1>3. ASSUME NEW p \in wire, receive_end(p)
      PROVE  EndInv'
  <2> DEFINE r == create_reverse_actions(p.header.actions)
  <2>1. started' = started /\ terminated' = terminated
    BY <1>3 DEF receive_end
  <2>2. Known(r)'
    BY <1>0, <2>1, KnownStays DEF EndInv, WireIsKnown
  <2>3. \A q \in wire' : q \in wire \/ q.header.actions = r
    BY <1>3 DEF receive_end, send_data
  <2> HIDE DEF r
  <2> QED BY <1>1, <2>1, <2>2, <2>3
<1>4. ASSUME NEW p \in wire, receive_drop(p)
      PROVE  EndInv'
  BY <1>1, <1>4 DEF receive_drop
<1>5. ASSUME NEW p \in wire, receive_throw(p)
      PROVE  EndInv'
  <2>1. p.to \in Addrs /\ p.header \in Header /\ p.header.curr_action = 1
    BY <1>0 DEF TypeOK, WireStartsAtOne
  <2>2. Endless(p.header.actions, p.to)
    BY <1>5, <2>1, ThrowsAtEndless DEF receive_throw
  <2>0. PICK m \in Addrs : \E list \in started[m] :
           p.header.actions = list \/ p.header.actions = create_reverse_actions(list)
    BY DEF EndInv, WireIsKnown, Known
  <2>3. PICK list \in started[m] :
           p.header.actions = list \/ p.header.actions = create_reverse_actions(list)
    BY <2>0
  <2>4. Endless(list, p.to) \/ Endless(create_reverse_actions(list), p.to)
    BY <2>2, <2>3
  <2>5. started' = started /\ terminated' = terminated \cup {p.to} /\ wire' \subseteq wire
    BY <1>5 DEF receive_throw
  <2>6. TerminatedByEndlessPath'
    BY <2>4, <2>5 DEF EndInv, TerminatedByEndlessPath
  <2>7. WireIsKnown'
    BY <2>5 DEF EndInv, WireIsKnown, Known
  <2> QED BY <2>6, <2>7 DEF EndInv
<1>6. CASE UNCHANGED vars
  BY <1>1, <1>6 DEF vars
<1> QED BY <1>2, <1>3, <1>4, <1>5, <1>6 DEF Next, Receive

(* The invariant about the ends of processes holds of the protocol. *)
LEMMA EndInvariant == Spec => []EndInv
<1>1. Init => EndInv
  BY DEF Init, EndInv, WireIsKnown, TerminatedByEndlessPath
<1>2. PtpInv /\ EndInv /\ [Next]_vars => EndInv'
  BY EndStep
<1> QED BY <1>1, <1>2, PtpInvariant, PTL DEF Spec

(* A throw in get_curr_action ends a process only at a path that was       *)
(* endless for its node when a client started it, or whose reverse is.     *)
THEOREM EndedByEndlessPath == Spec => []TerminatedByEndlessPath
<1>1. EndInv => TerminatedByEndlessPath
  BY DEF EndInv
<1> QED BY <1>1, EndInvariant, PTL

\* No process has ended, if all paths run from a start to an end.
ProperEndsNobody ==
  (\A m \in Addrs : \A list \in started[m] : Proper(list)) => terminated = {}

(* While all paths run from a start to an end, as the tools' do, no        *)
(* packet and no answer ends a process.                                    *)
THEOREM ProperPathsAreSafe == Spec => []ProperEndsNobody
<1>1. ASSUME NEW s \in Seq(Action) \ {<<>>}, NEW n, s[Len(s)] = End, s[1] = Start
      PROVE  ~Endless(s, n)
  <2>1. Len(s) \in Nat /\ Len(s) # 0 /\ Start # End
    BY DEF Start, End
  <2>2. Len(s) \in 2 .. Len(s)
    BY <1>1, <2>1
  <2>3. ~passes(End, n)
    BY DEF passes, Start, End
  <2> QED BY <1>1, <2>2, <2>3 DEF Endless
<1>2. ASSUME NEW s \in Seq(Action) \ {<<>>}, Proper(s)
      PROVE  LET r == create_reverse_actions(s)
             IN  r \in Seq(Action) \ {<<>>} /\ r[Len(r)] = End /\ r[1] = Start
  <2>1. Len(s) \in Nat /\ Len(s) # 0 /\ Len(<<>>) = 0
    OBVIOUS
  <2>2. /\ create_reverse_actions(s) \in Seq(Action)
        /\ Len(create_reverse_actions(s)) = Len(s)
        /\ \A i \in 1 .. Len(s) : create_reverse_actions(s)[i]
                                   = create_reverse_action(s[Len(s) + 1 - i])
    BY ReverseType
  <2>3. 1 \in 1 .. Len(s) /\ Len(s) \in 1 .. Len(s)
          /\ Len(s) + 1 - 1 = Len(s) /\ Len(s) + 1 - Len(s) = 1
    BY <2>1
  <2>4. create_reverse_action(Start) = End /\ create_reverse_action(End) = Start
    BY DEF create_reverse_action, create_reverse_endpoint, Start, End
  <2> QED BY <1>2, <2>1, <2>2, <2>3, <2>4 DEF Proper
<1>3. ASSUME PtpInv, EndInv,
             \A m \in Addrs : \A list \in started[m] : Proper(list)
      PROVE  terminated = {}
  <2> SUFFICES ASSUME NEW n \in terminated PROVE FALSE
    OBVIOUS
  <2>0. PICK m \in Addrs : \E list \in started[m] :
           Endless(list, n) \/ Endless(create_reverse_actions(list), n)
    BY <1>3 DEF EndInv, TerminatedByEndlessPath
  <2>1. PICK list \in started[m] :
           Endless(list, n) \/ Endless(create_reverse_actions(list), n)
    BY <2>0
  <2>2. list \in Seq(Action) \ {<<>>} /\ Proper(list)
    BY <1>3, PtpAssumption DEF PtpInv, TypeOK
  <2>3. ~Endless(list, n)
    BY <1>1, <2>2 DEF Proper
  <2>4. ~Endless(create_reverse_actions(list), n)
    BY <1>1, <1>2, <2>2
  <2> QED BY <2>1, <2>3, <2>4
<1>4. PtpInv /\ EndInv => ProperEndsNobody
  BY <1>3 DEF ProperEndsNobody
<1> QED BY <1>4, PtpInvariant, EndInvariant, PTL
=============================================================================
