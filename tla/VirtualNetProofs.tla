-------------------------- MODULE VirtualNetProofs --------------------------
(***************************************************************************)
(* The virtual network for any set of nodes, any number of requests and    *)
(* any length of the queues: what reaches the nodes, in which order, and   *)
(* that nothing is lost, whoever joins, disconnects or ends meanwhile and  *)
(* whatever locks fail.                                                    *)
(***************************************************************************)
EXTENDS VirtualNet, SequenceTheorems, WellFoundedInduction, TLAPS

(* The inductive invariant *)

\* The flock is held by the thread that sends; a thread outside send_data has
\* no message, one outside the loop has no entries left to send to.
LockInv ==
  \A t \in Threads :
    /\ pc[t] = "sending" <=> lock = t
    /\ pc[t] = "idle" <=> msg[t] = NoMsg
    /\ pc[t] # "sending" => todo[t] = {}
    /\ pc[t] # "idle" => Running(Node(t))
    /\ Node(t) \notin todo[t]

\* A connected node has its file; nothing has reached a node before connect.
NodeInv ==
  \A n \in Nodes :
    /\ Connected(n) => n \in files
    /\ status[n] = "off" => Reached(n) = <<>>

Heard(n) == {Reached(n)[i] : i \in 1 .. Len(Reached(n))}
Taken(n) == {taken[n][i] : i \in 1 .. Len(taken[n])}
RequestOf(m) == Request(m.of, m.no)

\* What the two threads of a node send: its last request, and an answer to a
\* request of another node that it has taken.
MsgInv ==
  \A n \in Nodes :
    /\ LET m == msg[<<n, "main">>] IN m # NoMsg => m = Request(n, requests[n])
    /\ LET m == msg[<<n, "recv">>] IN
       m # NoMsg => m.by = n /\ m.of # n /\ RequestOf(m) \in Taken(n)

\* A node hears the others, and has not heard what is still to be sent to it.
HeardInv ==
  /\ \A n \in Nodes : \A m \in Heard(n) : m.by # n
  /\ \A t \in Threads : \A d \in todo[t] : msg[t] \notin Heard(d)

\* A message whose sending has begun; it is not one a thread is yet to begin
\* with, so none is sent twice.
Used(m) == (\E n \in Nodes : m \in Heard(n)) \/ (\E d \in Nodes : <<m, d>> \in owed)

UsedInv ==
  \A m \in Msg : Used(m) =>
    /\ m.no <= requests[m.of]
    /\ ~IsRequest(m) => RequestOf(m) \in Taken(m.by)
    /\ \A t \in Threads : pc[t] = "locking" => msg[t] # m

\* What is owed is owed by the connected to the connected.
OwedInv ==
  \A o \in owed :
    /\ Connected(o[2])
    /\ \A t \in Threads :
         (msg[t] = o[1] /\ o[2] \in todo[t]) => Connected(Node(t))

\* The order of the sendings: f numbers the messages, top the last of them,
\* in which each node has heard an ascending sequence.
Numbering(f, top) ==
  /\ \A n \in Nodes : \A i, j \in 1 .. Len(Reached(n)) :
       i < j => f[Reached(n)[i]] < f[Reached(n)[j]]
  /\ \A n \in Nodes : \A m \in Heard(n) :
       /\ f[m] <= top
       /\ \A t \in Threads : (lock = t /\ m # msg[t]) => f[m] < top
       /\ ~IsRequest(m) => f[RequestOf(m)] < f[m]
  /\ \A t \in Threads :
       lock = t => /\ f[msg[t]] = top
                   /\ ~IsRequest(msg[t]) => f[RequestOf(msg[t])] < top

OrderInv == \E f \in [Msg -> Nat] : \E top \in Nat : Numbering(f, top)

NetInv ==
  /\ TypeOK
  /\ LockInv
  /\ NodeInv
  /\ MsgInv
  /\ HeardInv
  /\ UsedInv
  /\ OwedInv
  /\ NothingLost
  /\ OrderInv
-----------------------------------------------------------------------------
(* Threads and messages *)

(* A thread is one of the two of its node. *)
LEMMA ThreadForm ==
  /\ \A n \in Nodes : /\ <<n, "main">> \in Threads /\ <<n, "recv">> \in Threads
                      /\ Node(<<n, "main">>) = n /\ Node(<<n, "recv">>) = n
                      /\ <<n, "main">> # <<n, "recv">>
  /\ \A t \in Threads : /\ Node(t) \in Nodes
                        /\ t = <<Node(t), "main">> \/ t = <<Node(t), "recv">>
  BY DEF Threads, Node

(* The fields of messages, requests and replies. *)
LEMMA MsgForm ==
  /\ \A m \in Msg : m.by \in Nodes /\ m.of \in Nodes /\ m.no \in 1 .. MaxRequests
  /\ \A n \in Nodes, k \in 1 .. MaxRequests :
       /\ Request(n, k) \in Msg /\ Request(n, k).by = n /\ Request(n, k).of = n
       /\ Request(n, k).no = k /\ IsRequest(Request(n, k))
  /\ \A m \in Msg : /\ RequestOf(m) \in Msg /\ IsRequest(RequestOf(m))
                    /\ IsRequest(m) => RequestOf(m) = m
  /\ \A n \in Nodes, m \in Msg :
       /\ Reply(n, m) \in Msg /\ Reply(n, m).by = n
       /\ Reply(n, m).of = m.of /\ Reply(n, m).no = m.no
       /\ RequestOf(Reply(n, m)) = RequestOf(m)
  BY DEF Msg, Request, Reply, RequestOf, IsRequest

(* NoMsg is no message and Free no thread. *)
LEMMA NoneForm == NoMsg \notin Msg /\ Free \notin Threads
  BY VirtualNetAssumption
-----------------------------------------------------------------------------
(* Type correctness *)

(* At the start the queues are empty. *)
LEMMA TypeInit == Init => TypeOK
<1> SUFFICES ASSUME Init PROVE TypeOK
  OBVIOUS
<1>1. queue \in [Nodes -> Seq(Msg)] /\ taken \in [Nodes -> Seq(Msg)]
        /\ \A n \in Nodes : Len(queue[n]) = 0
  BY DEF Init
<1>2. \A n \in Nodes : Len(queue[n]) <= QLen
  <2>1. 0 <= QLen
    BY VirtualNetAssumption
  <2> QED BY <1>1, <2>1
<1>3. requests \in [Nodes -> 0 .. MaxRequests]
  <2>1. 0 \in 0 .. MaxRequests
    BY VirtualNetAssumption
  <2> QED BY <2>1 DEF Init
<1> QED BY <1>1, <1>2, <1>3 DEF Init, TypeOK

(* Every step keeps the types: a queue grows only where its sender found a  *)
(* place and holds the lock.                                                *)
LEMMA TypeStep ==
  ASSUME TypeOK, LockInv, [Next]_vars
  PROVE  TypeOK'
<1> USE ThreadForm DEF TypeOK
<1>0. QLen \in Nat /\ MaxRequests \in Nat
  BY VirtualNetAssumption
<1>1. ASSUME NEW n \in Nodes, connect(n)
      PROVE  TypeOK'
  <2>1. todo' \in [Threads -> SUBSET Nodes]
    <3> DEFINE more(t) == IF pc[t] = "sending" THEN todo[t] \cup {n} ELSE todo[t]
    <3>1. \A t \in Threads : more(t) \in SUBSET Nodes
      OBVIOUS
    <3>2. todo' = todo \/ todo' = [t \in Threads |-> more(t)]
      BY <1>1 DEF connect
    <3> HIDE DEF more
    <3> QED BY <3>1, <3>2
  <2> QED BY <1>1, <2>1 DEF connect
<1>2. ASSUME NEW n \in Nodes, set_recv_access(n)
      PROVE  TypeOK'
  BY <1>2 DEF set_recv_access
<1>3. ASSUME NEW n \in Nodes, disconnect(n) \/ end_process(n)
      PROVE  TypeOK'
  <2>1. queue' = [queue EXCEPT ![n] = <<>>]
    BY <1>3 DEF disconnect, end_process
  <2>2. queue' \in [Nodes -> Seq(Msg)]
    BY <2>1
  <2>3. \A k \in Nodes : Len(queue'[k]) <= QLen
    <3>1. Len(<<>>) <= QLen
      BY <1>0
    <3> QED BY <2>1, <3>1
  <2>4. owed' \subseteq owed
    BY <1>3 DEF disconnect, end_process, OwedWithout
  <2>5. CASE disconnect(n)
    BY <2>2, <2>3, <2>4, <2>5 DEF disconnect
  <2>6. CASE end_process(n)
    BY <2>2, <2>3, <2>4, <2>6 DEF end_process
  <2> QED BY <1>3, <2>5, <2>6
<1>4. ASSUME NEW n \in Nodes, send_request(n)
      PROVE  TypeOK'
  <2>1. requests[n] + 1 \in 1 .. MaxRequests /\ requests[n] + 1 \in 0 .. MaxRequests
    BY <1>0, <1>4 DEF send_request
  <2>2. Request(n, requests[n] + 1) \in Msg
    BY <2>1, MsgForm
  <2> QED BY <1>4, <2>1, <2>2 DEF send_request
<1>5. ASSUME NEW n \in Nodes, recv(n)
      PROVE  TypeOK'
  <2>1. queue[n] \in Seq(Msg) /\ queue[n] # <<>>
    BY <1>5 DEF recv
  <2>2. Head(queue[n]) \in Msg /\ Tail(queue[n]) \in Seq(Msg)
          /\ Len(Tail(queue[n])) <= Len(queue[n])
    BY <2>1
  <2>3. Reply(n, Head(queue[n])) \in Msg
    BY <2>2, MsgForm
  <2>4. Append(taken[n], Head(queue[n])) \in Seq(Msg)
    BY <2>2
  <2>5. queue' \in [Nodes -> Seq(Msg)] /\ taken' \in [Nodes -> Seq(Msg)]
    BY <1>5, <2>2, <2>4 DEF recv
  <2>6. \A k \in Nodes : Len(queue'[k]) <= QLen
    <3>1. Len(Tail(queue[n])) <= QLen
      BY <1>0, <2>1, <2>2
    <3> QED BY <1>5, <3>1 DEF recv
  <2>7. pc' \in [Threads -> {"idle", "locking", "sending"}]
          /\ msg' \in [Threads -> Msg \cup {NoMsg}]
    <3>1. \/ /\ pc' = [pc EXCEPT ![<<n, "recv">>] = "locking"]
             /\ msg' = [msg EXCEPT ![<<n, "recv">>] = Reply(n, Head(queue[n]))]
          \/ pc' = pc /\ msg' = msg
      BY <1>5 DEF recv
    <3>2. <<n, "recv">> \in Threads
      OBVIOUS
    <3>3. pc \in [Threads -> {"idle", "locking", "sending"}]
            /\ msg \in [Threads -> Msg \cup {NoMsg}]
      OBVIOUS
    <3>4. CASE /\ pc' = [pc EXCEPT ![<<n, "recv">>] = "locking"]
               /\ msg' = [msg EXCEPT ![<<n, "recv">>] = Reply(n, Head(queue[n]))]
      BY <2>3, <3>2, <3>3, <3>4
    <3>5. CASE pc' = pc /\ msg' = msg
      BY <3>3, <3>5
    <3> QED BY <3>1, <3>4, <3>5
  <2>8. UNCHANGED <<status, files, listening, lock, todo, requests, owed>>
    BY <1>5 DEF recv
  <2> QED BY <2>5, <2>6, <2>7, <2>8
<1>6. ASSUME NEW t \in Threads, lock_file(t)
      PROVE  TypeOK'
  <2>1. msg[t] \in Msg
    BY <1>6 DEF lock_file, LockInv
  <2>2. Owing(t) \subseteq Msg \X Nodes
    BY <2>1 DEF Owing
  <2> QED BY <1>6, <2>2 DEF lock_file
<1>7. ASSUME NEW t \in Threads, lock_file_fails(t) \/ unlock_file(t)
      PROVE  TypeOK'
  BY <1>7 DEF lock_file_fails, unlock_file
<1>8. ASSUME NEW t \in Threads, NEW d \in Nodes, sendto(t, d)
      PROVE  TypeOK'
  <2>1. msg[t] \in Msg /\ queue[d] \in Seq(Msg)
    BY <1>8 DEF sendto, LockInv
  <2>2. todo' \in [Threads -> SUBSET Nodes]
    BY <1>8 DEF sendto
  <2>3. CASE Connected(d) /\ Connected(Node(t))
    <3>1. Len(queue[d]) < QLen /\ queue' = [queue EXCEPT ![d] = Append(@, msg[t])]
      BY <1>8, <2>3 DEF sendto
    <3>2. Append(queue[d], msg[t]) \in Seq(Msg) /\ Len(Append(queue[d], msg[t])) <= QLen
      BY <1>0, <2>1, <3>1
    <3>3. queue' \in [Nodes -> Seq(Msg)] /\ \A k \in Nodes : Len(queue'[k]) <= QLen
      BY <3>1, <3>2
    <3> QED BY <1>8, <2>2, <3>3 DEF sendto
  <2>4. CASE ~(Connected(d) /\ Connected(Node(t)))
    BY <1>8, <2>2, <2>4 DEF sendto
  <2> QED BY <2>3, <2>4
<1>9. CASE UNCHANGED vars
  BY <1>9 DEF vars
<1> QED BY <1>1, <1>2, <1>3, <1>4, <1>5, <1>6, <1>7, <1>8, <1>9 DEF Next
-----------------------------------------------------------------------------
(* The lock *)

(* Every step keeps the lock with the thread that sends. *)
LEMMA LockStep ==
  ASSUME TypeOK, LockInv, [Next]_vars
  PROVE  LockInv'
<1> USE DEF LockInv, Connected, Running
<1>0. /\ status \in [Nodes -> {"off", "connected", "disconnected", "ended"}]
      /\ pc \in [Threads -> {"idle", "locking", "sending"}]
      /\ msg \in [Threads -> Msg \cup {NoMsg}]
      /\ todo \in [Threads -> SUBSET Nodes]
      /\ lock \in Threads \cup {Free}
  BY DEF TypeOK
<1>1. ASSUME NEW n \in Nodes, connect(n)
      PROVE  LockInv'
  <2>1. pc' = pc /\ msg' = msg /\ lock' = lock /\ status[n] = "off"
          /\ status' = [status EXCEPT ![n] = "connected"]
    BY <1>1 DEF connect
  <2>2. ASSUME NEW t \in Threads
        PROVE  /\ pc[t] # "sending" => todo'[t] = {}
               /\ Node(t) \notin todo'[t]
               /\ pc[t] # "idle" => Running(Node(t))'
    <3>1. \/ todo'[t] = todo[t]
          \/ pc[t] = "sending" /\ todo'[t] = todo[t] \cup {n}
      BY <1>0, <1>1 DEF connect
    <3>2. pc[t] # "idle" => Node(t) # n
      BY <2>1
    <3> QED BY <1>0, <2>1, <3>1, <3>2, ThreadForm
  <2> QED BY <2>1, <2>2
<1>2. ASSUME NEW n \in Nodes, set_recv_access(n)
      PROVE  LockInv'
  BY <1>2 DEF set_recv_access
<1>3. ASSUME NEW n \in Nodes, disconnect(n)
      PROVE  LockInv'
  BY <1>0, <1>3, ThreadForm DEF disconnect
<1>4. ASSUME NEW n \in Nodes, end_process(n)
      PROVE  LockInv'
  <2> SUFFICES ASSUME NEW t \in Threads
               PROVE  /\ pc'[t] = "sending" <=> lock' = t
                      /\ pc'[t] = "idle" <=> msg'[t] = NoMsg
                      /\ pc'[t] # "sending" => todo'[t] = {}
                      /\ pc'[t] # "idle" => Running(Node(t))'
                      /\ Node(t) \notin todo'[t]
    OBVIOUS
  <2>1. lock' = (IF \E u \in Threads : lock = u /\ Node(u) = n THEN Free ELSE lock)
          /\ status' = [status EXCEPT ![n] = "ended"]
    BY <1>4 DEF end_process
  <2>2. CASE Node(t) = n
    <3>1. pc'[t] = "idle" /\ msg'[t] = NoMsg /\ todo'[t] = {}
      BY <1>4, <2>2 DEF end_process
    <3>2. lock' # t
      BY <2>1, <2>2, NoneForm
    <3> QED BY <3>1, <3>2
  <2>3. CASE Node(t) # n
    <3>1. pc'[t] = pc[t] /\ msg'[t] = msg[t] /\ todo'[t] = todo[t]
      BY <1>4, <2>3 DEF end_process
    <3>2. lock' = t <=> lock = t
      BY <2>1, <2>3, NoneForm
    <3> QED BY <1>0, <2>1, <2>3, <3>1, <3>2, ThreadForm
  <2> QED BY <2>2, <2>3
<1>5. ASSUME NEW n \in Nodes, send_request(n)
      PROVE  LockInv'
  <2> DEFINE u == <<n, "main">>
  <2>1. /\ u \in Threads /\ Node(u) = n /\ pc[u] = "idle" /\ status[n] = "connected"
        /\ pc' = [pc EXCEPT ![u] = "locking"]
        /\ msg' = [msg EXCEPT ![u] = Request(n, requests[n] + 1)]
        /\ UNCHANGED <<status, lock, todo>>
    BY <1>5, ThreadForm DEF send_request
  <2>2. Request(n, requests[n] + 1) # NoMsg
    <3>1. requests[n] + 1 \in 1 .. MaxRequests
      BY <1>5, VirtualNetAssumption DEF send_request, TypeOK
    <3> QED BY <3>1, MsgForm, NoneForm
  <2> HIDE DEF u
  <2> QED BY <1>0, <2>1, <2>2
<1>6. ASSUME NEW n \in Nodes, recv(n)
      PROVE  LockInv'
  <2> DEFINE u == <<n, "recv">>
             r == Reply(n, Head(queue[n]))
  <2>1. /\ u \in Threads /\ Node(u) = n /\ pc[u] = "idle" /\ status[n] = "connected"
        /\ UNCHANGED <<status, lock, todo>>
        /\ \/ /\ pc' = [pc EXCEPT ![u] = "locking"]
              /\ msg' = [msg EXCEPT ![u] = r]
           \/ UNCHANGED <<pc, msg>>
    BY <1>6, ThreadForm DEF recv
  <2>2. r # NoMsg
    <3>1. Head(queue[n]) \in Msg
      BY <1>6 DEF recv, TypeOK
    <3> QED BY <3>1, MsgForm, NoneForm
  <2> HIDE DEF u, r
  <2> QED BY <1>0, <2>1, <2>2
<1>7. ASSUME NEW t \in Threads, lock_file(t)
      PROVE  LockInv'
  BY <1>0, <1>7, NoneForm DEF lock_file
<1>8. ASSUME NEW t \in Threads, lock_file_fails(t)
      PROVE  LockInv'
  BY <1>0, <1>8 DEF lock_file_fails
<1>9. ASSUME NEW t \in Threads, unlock_file(t)
      PROVE  LockInv'
  BY <1>0, <1>9, NoneForm DEF unlock_file
<1>10. ASSUME NEW t \in Threads, NEW d \in Nodes, sendto(t, d)
       PROVE  LockInv'
  BY <1>0, <1>10 DEF sendto
<1>11. CASE UNCHANGED vars
  BY <1>11 DEF vars
<1> QED BY <1>1, <1>2, <1>3, <1>4, <1>5, <1>6, <1>7, <1>8, <1>9, <1>10, <1>11 DEF Next
-----------------------------------------------------------------------------
(* What has reached a node *)

(* It is a sequence of messages; what was taken comes first. *)
LEMMA ReachedForm ==
  ASSUME TypeOK, NEW n \in Nodes
  PROVE  /\ Reached(n) \in Seq(Msg) /\ Len(Reached(n)) \in Nat
         /\ Len(taken[n]) \in Nat /\ Len(taken[n]) <= Len(Reached(n))
         /\ \A i \in 1 .. Len(taken[n]) : Reached(n)[i] = taken[n][i]
         /\ Heard(n) \subseteq Msg
         /\ Taken(n) \subseteq Heard(n)
<1> DEFINE a == taken[n]
           b == queue[n]
<1>1. a \in Seq(Msg) /\ b \in Seq(Msg)
  BY DEF TypeOK
<1>3. Reached(n) = a \o b
  BY DEF Reached
<1> HIDE DEF a, b
<1>2. /\ a \o b \in Seq(Msg) /\ Len(a \o b) = Len(a) + Len(b)
      /\ Len(a) \in Nat /\ Len(b) \in Nat
      /\ \A i \in 1 .. Len(a) : (a \o b)[i] = a[i]
  BY <1>1
<1>4. Len(a) <= Len(a \o b) /\ Len(a \o b) \in Nat
  BY <1>2
<1>5. \A i \in 1 .. Len(a \o b) : (a \o b)[i] \in Msg
  BY <1>2
<1>6. \A i \in 1 .. Len(a) : i \in 1 .. Len(a \o b)
  BY <1>2
<1> QED BY <1>2, <1>3, <1>4, <1>5, <1>6 DEF Heard, Taken, a

(* What has reached n before a step is what has after it, or begins with   *)
(* that.                                                                   *)
Kept(n) ==
  /\ Len(Reached(n)') <= Len(Reached(n))
  /\ \A i \in 1 .. Len(Reached(n)') : Reached(n)'[i] = Reached(n)[i]

(* A node has then heard no more than before. *)
LEMMA KeptHeard ==
  ASSUME TypeOK, TypeOK', NEW n \in Nodes, Kept(n)
  PROVE  /\ Heard(n)' \subseteq Heard(n)
         /\ \A i \in 1 .. Len(Reached(n)') : i \in 1 .. Len(Reached(n))
<1>1. Len(Reached(n)) \in Nat /\ Len(Reached(n)') \in Nat
  <2>1. Len(Reached(n)) \in Nat
    BY ReachedForm
  <2>2. taken'[n] \in Seq(Msg) /\ queue'[n] \in Seq(Msg)
    BY DEF TypeOK
  <2>3. Reached(n)' \in Seq(Msg)
    BY <2>2 DEF Reached
  <2> QED BY <2>1, <2>3
<1>2. \A i \in 1 .. Len(Reached(n)') : i \in 1 .. Len(Reached(n))
  BY <1>1 DEF Kept
<1> QED BY <1>2 DEF Heard, Kept

(* recv moves the first datagram of the queue to what was taken. *)
LEMMA ReachedRecv ==
  ASSUME TypeOK, NEW n \in Nodes, recv(n)
  PROVE  /\ \A k \in Nodes : Reached(k)' = Reached(k)
         /\ \A k \in Nodes : Taken(k) \subseteq Taken(k)'
         /\ Head(queue[n]) \in Msg
         /\ Len(taken[n]) + 1 \in 1 .. Len(Reached(n))
         /\ Reached(n)[Len(taken[n]) + 1] = Head(queue[n])
         /\ Taken(n)' = Taken(n) \cup {Head(queue[n])}
<1> DEFINE a == taken[n]
           b == queue[n]
           h == Head(b)
<1>1. /\ a \in Seq(Msg) /\ b \in Seq(Msg) /\ b # <<>>
      /\ queue' = [queue EXCEPT ![n] = Tail(b)]
      /\ taken' = [taken EXCEPT ![n] = Append(a, h)]
  BY DEF TypeOK, recv
<1>2. /\ taken'[n] = Append(a, h) /\ queue'[n] = Tail(b)
      /\ \A k \in Nodes \ {n} : taken'[k] = taken[k] /\ queue'[k] = queue[k]
  BY <1>1 DEF TypeOK
<1>3. h \in Msg /\ Tail(b) \in Seq(Msg) /\ Len(b) \in Nat \ {0} /\ Len(a) \in Nat
        /\ h = b[1] /\ Len(Tail(b)) = Len(b) - 1
        /\ \A i \in 1 .. Len(b) - 1 : Tail(b)[i] = b[i + 1]
  BY <1>1
<1>4. Reached(n) = a \o b /\ Reached(n)' = Append(a, h) \o Tail(b)
  BY <1>2 DEF Reached
<1> HIDE DEF a, b, h
<1>5. Append(a, h) \o Tail(b) = a \o b
  <2> DEFINE p == Append(a, h) \o Tail(b)
             q == a \o b
  <2>1. p \in Seq(Msg) /\ q \in Seq(Msg)
    BY <1>1, <1>3
  <2>2. Len(p) = Len(a) + Len(b) /\ Len(q) = Len(a) + Len(b)
    BY <1>1, <1>3
  <2>3. ASSUME NEW i \in 1 .. Len(a) + Len(b) PROVE p[i] = q[i]
    <3>1. CASE i <= Len(a)
      BY <1>1, <1>3, <3>1
    <3>2. CASE i = Len(a) + 1
      BY <1>1, <1>3, <3>2
    <3>3. CASE i > Len(a) + 1
      <4>1. i - (Len(a) + 1) \in 1 .. Len(b) - 1 /\ i - (Len(a) + 1) + 1 = i - Len(a)
        BY <1>3, <3>3
      <4>2. p[i] = Tail(b)[i - (Len(a) + 1)]
        BY <1>1, <1>3, <3>3
      <4>3. q[i] = b[i - Len(a)]
        BY <1>1, <1>3, <3>3
      <4> QED BY <1>3, <4>1, <4>2, <4>3
    <3> QED BY <1>3, <3>1, <3>2, <3>3
  <2> HIDE DEF p, q
  <2>4. p = q
    BY <2>1, <2>2, <2>3, SeqEqual
  <2> QED BY <2>4 DEF p, q
<1>6. Len(a) + 1 \in 1 .. Len(a \o b) /\ (a \o b)[Len(a) + 1] = h
  BY <1>1, <1>3
<1>7. Len(Append(a, h)) = Len(a) + 1 /\ Append(a, h)[Len(a) + 1] = h
        /\ \A i \in 1 .. Len(a) : Append(a, h)[i] = a[i]
  BY <1>1, <1>3
<1>8. Taken(n) = {a[i] : i \in 1 .. Len(a)}
        /\ Taken(n)' = {Append(a, h)[i] : i \in 1 .. Len(Append(a, h))}
  BY <1>2 DEF Taken, a
<1>9. Taken(n)' = Taken(n) \cup {h}
  <2>1. ASSUME NEW m \in Taken(n)' PROVE m \in Taken(n) \cup {h}
    <3>1. PICK i \in 1 .. Len(a) + 1 : m = Append(a, h)[i]
      BY <1>7, <1>8
    <3>2. i \in 1 .. Len(a) \/ i = Len(a) + 1
      BY <1>3
    <3> QED BY <1>7, <1>8, <3>1, <3>2
  <2>2. ASSUME NEW m \in Taken(n) PROVE m \in Taken(n)'
    <3>1. PICK i \in 1 .. Len(a) : m = a[i]
      BY <1>8
    <3>2. i \in 1 .. Len(Append(a, h)) /\ Append(a, h)[i] = m
      BY <1>3, <1>7, <3>1
    <3> QED BY <1>8, <3>2
  <2>3. h \in Taken(n)'
    <3>1. Len(a) + 1 \in 1 .. Len(Append(a, h))
      BY <1>3, <1>7
    <3> QED BY <1>7, <1>8, <3>1
  <2> QED BY <2>1, <2>2, <2>3
<1>10. ASSUME NEW k \in Nodes PROVE Taken(k) \subseteq Taken(k)'
  <2>1. CASE k = n
    BY <1>9, <2>1
  <2>2. CASE k # n
    BY <1>2, <2>2 DEF Taken
  <2> QED BY <2>1, <2>2
<1>11. \A k \in Nodes : Reached(k)' = Reached(k)
  BY <1>2, <1>4, <1>5 DEF Reached
<1> QED BY <1>3, <1>4, <1>6, <1>9, <1>10, <1>11 DEF a, b, h

(* The message of thread t is put into the queue of d. *)
Delivers(t, d) == sendto(t, d) /\ Connected(d) /\ Connected(Node(t))

(* A sendto that succeeds appends the message to what has reached d. *)
LEMMA ReachedSend ==
  ASSUME TypeOK, LockInv, NEW t \in Threads, NEW d \in Nodes, Delivers(t, d)
  PROVE  /\ \A k \in Nodes \ {d} : Reached(k)' = Reached(k)
         /\ msg[t] \in Msg
         /\ Len(Reached(d)') = Len(Reached(d)) + 1
         /\ Reached(d)'[Len(Reached(d)) + 1] = msg[t]
         /\ \A i \in 1 .. Len(Reached(d)) : Reached(d)'[i] = Reached(d)[i]
         /\ Heard(d)' = Heard(d) \cup {msg[t]}
<1> DEFINE a == taken[d]
           b == queue[d]
           m == msg[t]
<1>1. /\ a \in Seq(Msg) /\ b \in Seq(Msg) /\ m \in Msg
      /\ taken' = taken /\ queue' = [queue EXCEPT ![d] = Append(b, m)]
  BY DEF TypeOK, LockInv, sendto, Delivers
<1>2. /\ taken'[d] = a /\ queue'[d] = Append(b, m)
      /\ \A k \in Nodes \ {d} : taken'[k] = taken[k] /\ queue'[k] = queue[k]
  BY <1>1 DEF TypeOK
<1>3. Reached(d) = a \o b /\ Reached(d)' = a \o Append(b, m)
  BY <1>2 DEF Reached
<1>4. \A k \in Nodes \ {d} : Reached(k)' = Reached(k)
  BY <1>2 DEF Reached
<1> HIDE DEF a, b, m
<1> DEFINE p == a \o b
           q == a \o Append(b, m)
<1>5. /\ Len(p) = Len(a) + Len(b) /\ Len(q) = Len(a) + Len(b) + 1
      /\ Len(a) \in Nat /\ Len(b) \in Nat
  BY <1>1
<1>6. q[Len(p) + 1] = m
  BY <1>1, <1>5
<1>7. ASSUME NEW i \in 1 .. Len(p) PROVE q[i] = p[i]
  <2>1. CASE i <= Len(a)
    BY <1>1, <1>5, <2>1
  <2>2. CASE i > Len(a)
    BY <1>1, <1>5, <2>2
  <2> QED BY <1>5, <2>1, <2>2
<1> HIDE DEF p, q
<1>8. {q[i] : i \in 1 .. Len(q)} = {p[i] : i \in 1 .. Len(p)} \cup {m}
  <2>1. Len(p) \in Nat /\ Len(q) = Len(p) + 1
    BY <1>5
  <2>2. \A i \in 1 .. Len(q) : i \in 1 .. Len(p) \/ i = Len(p) + 1
    BY <2>1
  <2>3. Len(p) + 1 \in 1 .. Len(q) /\ \A i \in 1 .. Len(p) : i \in 1 .. Len(q)
    BY <2>1
  <2> QED BY <1>6, <1>7, <2>2, <2>3
<1>9. Reached(d) = p /\ Reached(d)' = q
  BY <1>3 DEF p, q
<1>10. Heard(d)' = Heard(d) \cup {m}
  BY <1>8, <1>9 DEF Heard
<1> QED BY <1>1, <1>4, <1>5, <1>6, <1>7, <1>9, <1>10 DEF m

(* Any other step leaves every node with what has reached it, or with the  *)
(* part of that it has taken.                                              *)
LEMMA ReachedKept ==
  ASSUME TypeOK, [Next]_vars,
         ~\E t \in Threads, d \in Nodes : Delivers(t, d),
         NEW k \in Nodes
  PROVE  Kept(k) /\ Taken(k) \subseteq Taken(k)'
<1>0. /\ Len(Reached(k)) \in Nat
      /\ Len(taken[k]) <= Len(Reached(k))
      /\ \A i \in 1 .. Len(taken[k]) : Reached(k)[i] = taken[k][i]
  BY ReachedForm
<1>1. ASSUME taken' = taken, queue' = queue
      PROVE  Kept(k) /\ Taken(k) \subseteq Taken(k)'
  BY <1>0, <1>1 DEF Kept, Reached, Taken
<1>2. ASSUME NEW n \in Nodes, disconnect(n) \/ end_process(n)
      PROVE  Kept(k) /\ Taken(k) \subseteq Taken(k)'
  <2>1. taken' = taken /\ queue' = [queue EXCEPT ![n] = <<>>]
    BY <1>2 DEF disconnect, end_process
  <2>2. Taken(k)' = Taken(k)
    BY <2>1 DEF Taken
  <2>3. CASE k # n
    <3>1. Reached(k)' = Reached(k)
      BY <2>1, <2>3 DEF TypeOK, Reached
    <3> QED BY <1>0, <2>2, <3>1 DEF Kept
  <2>4. CASE k = n
    <3>1. taken'[k] = taken[k] /\ queue'[k] = <<>> /\ taken[k] \in Seq(Msg)
      BY <2>1, <2>4 DEF TypeOK
    <3>2. Reached(k)' = taken[k] \o <<>>
      BY <3>1 DEF Reached
    <3>3. taken[k] \o <<>> = taken[k]
      BY <3>1, ConcatEmptySeq
    <3> QED BY <1>0, <2>2, <3>2, <3>3 DEF Kept
  <2> QED BY <2>3, <2>4
<1>3. ASSUME NEW n \in Nodes, recv(n)
      PROVE  Kept(k) /\ Taken(k) \subseteq Taken(k)'
  BY <1>0, <1>3, ReachedRecv DEF Kept
<1>4. ASSUME NEW n \in Nodes, connect(n) \/ set_recv_access(n) \/ send_request(n)
      PROVE  Kept(k) /\ Taken(k) \subseteq Taken(k)'
  BY <1>1, <1>4 DEF connect, set_recv_access, send_request
<1>5. ASSUME NEW t \in Threads, lock_file(t) \/ lock_file_fails(t) \/ unlock_file(t)
      PROVE  Kept(k) /\ Taken(k) \subseteq Taken(k)'
  BY <1>1, <1>5 DEF lock_file, lock_file_fails, unlock_file
<1>6. ASSUME NEW t \in Threads, NEW d \in Nodes, sendto(t, d)
      PROVE  Kept(k) /\ Taken(k) \subseteq Taken(k)'
  BY <1>1, <1>6 DEF sendto, Delivers
<1>7. CASE UNCHANGED vars
  BY <1>1, <1>7 DEF vars
<1> QED BY <1>2, <1>3, <1>4, <1>5, <1>6, <1>7 DEF Next

(* What was taken stays taken. *)
LEMMA TakenStays ==
  ASSUME TypeOK, [Next]_vars, NEW k \in Nodes
  PROVE  Taken(k) \subseteq Taken(k)'
<1>1. CASE \E t \in Threads, d \in Nodes : Delivers(t, d)
  BY <1>1 DEF Delivers, sendto, Taken
<1>2. CASE ~\E t \in Threads, d \in Nodes : Delivers(t, d)
  BY <1>2, ReachedKept
<1> QED BY <1>1, <1>2

(* Nothing reaches a node that is not connected yet, and the file of a     *)
(* connected node is there.                                                *)
LEMMA NodeStep ==
  ASSUME NetInv, [Next]_vars
  PROVE  NodeInv'
<1>0. TypeOK /\ LockInv /\ NodeInv
  BY DEF NetInv
<1>1. status \in [Nodes -> {"off", "connected", "disconnected", "ended"}]
  BY <1>0 DEF TypeOK
<1>2. ASSUME NEW k \in Nodes
      PROVE  /\ status'[k] = "connected" => k \in files'
             /\ status'[k] = "off" => status[k] = "off"
  <2> DEFINE FilesAndOff == /\ status'[k] = "connected" => k \in files'
                            /\ status'[k] = "off" => status[k] = "off"
  <2>0. status[k] = "connected" => k \in files
    BY <1>0 DEF NodeInv, Connected
  <2>1. ASSUME NEW n \in Nodes, connect(n)
        PROVE  FilesAndOff
    BY <1>1, <2>0, <2>1 DEF connect
  <2>2. ASSUME NEW n \in Nodes, disconnect(n)
        PROVE  FilesAndOff
    BY <1>1, <2>0, <2>2 DEF disconnect
  <2>3. ASSUME NEW n \in Nodes, end_process(n)
        PROVE  FilesAndOff
    BY <1>1, <2>0, <2>3 DEF end_process
  <2>4. ASSUME NEW n \in Nodes, set_recv_access(n) \/ send_request(n) \/ recv(n)
        PROVE  FilesAndOff
    BY <2>0, <2>4 DEF set_recv_access, send_request, recv
  <2>5. ASSUME NEW t \in Threads,
               \/ lock_file(t) \/ lock_file_fails(t) \/ unlock_file(t)
               \/ \E d \in Nodes : sendto(t, d)
        PROVE  FilesAndOff
    BY <2>0, <2>5 DEF lock_file, lock_file_fails, unlock_file, sendto
  <2>6. CASE UNCHANGED vars
    BY <2>0, <2>6 DEF vars
  <2> QED BY <2>1, <2>2, <2>3, <2>4, <2>5, <2>6 DEF Next
<1>3. ASSUME NEW k \in Nodes, status'[k] = "off"
      PROVE  Reached(k)' = <<>>
  <2>1. status[k] = "off" /\ Reached(k) = <<>>
    BY <1>0, <1>2, <1>3 DEF NodeInv
  <2>2. CASE \E t \in Threads, d \in Nodes : Delivers(t, d)
    <3>1. PICK t \in Threads, d \in Nodes : Delivers(t, d)
      BY <2>2
    <3>2. k # d
      BY <2>1, <3>1 DEF Delivers, Connected
    <3> QED BY <1>0, <2>1, <3>1, <3>2, ReachedSend
  <2>3. CASE ~\E t \in Threads, d \in Nodes : Delivers(t, d)
    <3>1. Kept(k)
      BY <1>0, <2>3, ReachedKept
    <3>2. Len(Reached(k)') <= 0
      BY <2>1, <3>1 DEF Kept
    <3>3. taken'[k] \in Seq(Msg) /\ queue'[k] \in Seq(Msg)
      BY <1>0, TypeStep DEF TypeOK
    <3>4. Reached(k)' \in Seq(Msg)
      BY <3>3 DEF Reached
    <3> QED BY <3>2, <3>4
  <2> QED BY <2>2, <2>3
<1> QED BY <1>2, <1>3 DEF NodeInv, Connected
-----------------------------------------------------------------------------
(* What the threads send *)

(* A thread sends messages of its node; the main thread requests, the      *)
(* receiving thread replies.                                               *)
LEMMA MsgOfThread ==
  ASSUME NetInv, NEW t \in Threads, msg[t] # NoMsg
  PROVE  /\ msg[t] \in Msg /\ msg[t].by = Node(t)
         /\ t = <<Node(t), "main">> =>
              msg[t] = Request(Node(t), requests[Node(t)]) /\ IsRequest(msg[t])
         /\ t = <<Node(t), "recv">> =>
              RequestOf(msg[t]) \in Taken(Node(t)) /\ ~IsRequest(msg[t])
<1>1. Node(t) \in Nodes /\ (t = <<Node(t), "main">> \/ t = <<Node(t), "recv">>)
  BY ThreadForm
<1>2. msg[t] \in Msg /\ MsgInv
  BY DEF NetInv, TypeOK
<1>3. CASE t = <<Node(t), "main">>
  <2>1. msg[t] = Request(Node(t), requests[Node(t)])
    BY <1>1, <1>2, <1>3 DEF MsgInv
  <2>2. msg[t].by = Node(t) /\ msg[t].of = Node(t)
    BY <2>1 DEF Request
  <2>3. t # <<Node(t), "recv">>
    BY <1>1, <1>3, ThreadForm
  <2> QED BY <1>2, <1>3, <2>1, <2>2, <2>3 DEF IsRequest
<1>4. CASE t = <<Node(t), "recv">>
  <2>1. msg[t].by = Node(t) /\ msg[t].of # Node(t) /\ RequestOf(msg[t]) \in Taken(Node(t))
    BY <1>1, <1>2, <1>4 DEF MsgInv
  <2>2. t # <<Node(t), "main">>
    BY <1>1, <1>4, ThreadForm
  <2> QED BY <1>2, <2>1, <2>2 DEF IsRequest
<1> QED BY <1>1, <1>3, <1>4

(* No two threads send the same message. *)
LEMMA MsgDistinct ==
  ASSUME NetInv, NEW t \in Threads, NEW u \in Threads, t # u, msg[t] # NoMsg
  PROVE  msg[t] # msg[u]
<1>1. CASE msg[u] = NoMsg
  BY <1>1
<1>2. CASE msg[u] # NoMsg
  <2> SUFFICES ASSUME msg[t] = msg[u] PROVE FALSE
    OBVIOUS
  <2>1. Node(t) = Node(u)
    BY <1>2, MsgOfThread
  <2>2. (t = <<Node(t), "main">> /\ u = <<Node(u), "recv">>)
          \/ (t = <<Node(t), "recv">> /\ u = <<Node(u), "main">>)
    BY <2>1, ThreadForm
  <2> QED BY <1>2, <2>2, MsgOfThread
<1> QED BY <1>1, <1>2

(* Every step keeps what the threads send. *)
LEMMA MsgStep ==
  ASSUME NetInv, [Next]_vars
  PROVE  MsgInv'
<1>0. TypeOK /\ LockInv /\ MsgInv /\ HeardInv
  BY DEF NetInv
<1>1. msg \in [Threads -> Msg \cup {NoMsg}] /\ requests \in [Nodes -> 0 .. MaxRequests]
  BY <1>0 DEF TypeOK
<1>2. ASSUME requests' = requests,
             \A t \in Threads : msg'[t] = msg[t] \/ msg'[t] = NoMsg
      PROVE  MsgInv'
  BY <1>0, <1>2, TakenStays, ThreadForm DEF MsgInv
<1>3. ASSUME NEW n \in Nodes, send_request(n)
      PROVE  MsgInv'
  <2> DEFINE u == <<n, "main">>
  <2>1. /\ u \in Threads
        /\ msg' = [msg EXCEPT ![u] = Request(n, requests[n] + 1)]
        /\ requests' = [requests EXCEPT ![n] = requests[n] + 1]
    BY <1>3, ThreadForm DEF send_request
  <2>2. msg'[u] = Request(n, requests'[n])
    BY <1>1, <2>1
  <2>3. ASSUME NEW k \in Nodes, k # n
        PROVE  msg'[<<k, "main">>] = msg[<<k, "main">>] /\ requests'[k] = requests[k]
    <3>1. <<k, "main">> \in Threads /\ <<k, "main">> # u
      BY <2>3, ThreadForm
    <3> QED BY <1>1, <2>1, <2>3, <3>1
  <2>4. ASSUME NEW k \in Nodes
        PROVE  msg'[<<k, "recv">>] = msg[<<k, "recv">>]
    <3>1. <<k, "recv">> \in Threads /\ <<k, "recv">> # u
      BY ThreadForm
    <3> QED BY <1>1, <2>1, <3>1
  <2> QED BY <1>0, <2>2, <2>3, <2>4, TakenStays DEF MsgInv
<1>4. ASSUME NEW n \in Nodes, recv(n)
      PROVE  MsgInv'
  <2> DEFINE u == <<n, "recv">>
             h == Head(queue[n])
  <2>1. /\ u \in Threads /\ requests' = requests
        /\ \/ UNCHANGED msg
           \/ msg' = [msg EXCEPT ![u] = Reply(n, h)] /\ IsRequest(h)
    BY <1>4, ThreadForm DEF recv
  <2>2. CASE UNCHANGED msg
    BY <1>2, <2>1, <2>2
  <2>3. CASE msg' = [msg EXCEPT ![u] = Reply(n, h)] /\ IsRequest(h)
    <3>1. h \in Msg /\ h \in Heard(n) /\ h \in Taken(n)'
      BY <1>0, <1>4, ReachedRecv DEF Heard
    <3>2. h.by # n /\ h.of # n /\ RequestOf(h) = h
      BY <1>0, <2>3, <3>1, MsgForm DEF HeardInv, IsRequest
    <3>3. Reply(n, h).by = n /\ Reply(n, h).of # n /\ RequestOf(Reply(n, h)) = h
      BY <3>1, <3>2, MsgForm
    <3>4. msg'[u] = Reply(n, h)
      BY <1>1, <2>1, <2>3
    <3>5. ASSUME NEW k \in Nodes
          PROVE  msg'[<<k, "main">>] = msg[<<k, "main">>]
      <4>1. <<k, "main">> \in Threads /\ <<k, "main">> # u
        BY ThreadForm
      <4> QED BY <1>1, <2>3, <4>1
    <3>6. ASSUME NEW k \in Nodes, k # n
          PROVE  msg'[<<k, "recv">>] = msg[<<k, "recv">>]
      <4>1. <<k, "recv">> \in Threads /\ <<k, "recv">> # u
        BY <3>6, ThreadForm
      <4> QED BY <1>1, <2>3, <4>1
    <3>7. ASSUME NEW k \in Nodes, msg'[<<k, "recv">>] # NoMsg
          PROVE  /\ msg'[<<k, "recv">>].by = k /\ msg'[<<k, "recv">>].of # k
                 /\ RequestOf(msg'[<<k, "recv">>]) \in Taken(k)'
      <4>1. CASE k = n
        BY <3>1, <3>3, <3>4, <4>1
      <4>2. CASE k # n
        <5>1. Taken(k) \subseteq Taken(k)'
          BY <1>0, TakenStays
        <5> QED BY <1>0, <3>6, <3>7, <4>2, <5>1 DEF MsgInv
      <4> QED BY <4>1, <4>2
    <3> HIDE DEF u, h
    <3> QED BY <1>0, <2>1, <3>5, <3>7 DEF MsgInv
  <2> QED BY <2>1, <2>2, <2>3
<1>5. ASSUME NEW n \in Nodes, end_process(n)
      PROVE  MsgInv'
  BY <1>2, <1>5 DEF end_process
<1>6. ASSUME NEW n \in Nodes, connect(n) \/ set_recv_access(n) \/ disconnect(n)
      PROVE  MsgInv'
  BY <1>2, <1>6 DEF connect, set_recv_access, disconnect
<1>7. ASSUME NEW t \in Threads, lock_file_fails(t) \/ unlock_file(t)
      PROVE  MsgInv'
  BY <1>1, <1>2, <1>7 DEF lock_file_fails, unlock_file
<1>8. ASSUME NEW t \in Threads, lock_file(t) \/ \E d \in Nodes : sendto(t, d)
      PROVE  MsgInv'
  BY <1>2, <1>8 DEF lock_file, sendto
<1>9. CASE UNCHANGED vars
  BY <1>2, <1>9 DEF vars
<1> QED BY <1>3, <1>4, <1>5, <1>6, <1>7, <1>8, <1>9 DEF Next
-----------------------------------------------------------------------------
(* What the nodes hear *)

(* A thread that puts its message into a queue holds the lock, and is the  *)
(* only one that has entries left.                                         *)
LEMMA DeliversForm ==
  ASSUME NetInv, NEW t \in Threads, NEW d \in Nodes, Delivers(t, d)
  PROVE  /\ pc[t] = "sending" /\ lock = t /\ d \in todo[t] /\ d # Node(t)
         /\ msg[t] # NoMsg /\ msg[t] \in Msg
         /\ todo' = [todo EXCEPT ![t] = @ \ {d}]
         /\ \A u \in Threads : u # t => todo[u] = {}
         /\ UNCHANGED <<status, files, listening, taken, lock, pc, msg, requests, owed>>
<1>1. pc[t] = "sending" /\ d \in todo[t] /\ todo' = [todo EXCEPT ![t] = @ \ {d}]
        /\ UNCHANGED <<status, files, listening, taken, lock, pc, msg, requests, owed>>
  BY DEF Delivers, sendto
<1>2. LockInv /\ TypeOK
  BY DEF NetInv
<1>3. lock = t /\ msg[t] # NoMsg /\ msg[t] \in Msg /\ d # Node(t)
  BY <1>1, <1>2 DEF LockInv, TypeOK
<1>4. \A u \in Threads : u # t => todo[u] = {}
  BY <1>2, <1>3 DEF LockInv
<1> QED BY <1>1, <1>3, <1>4

(* In a step that puts nothing into a queue nobody hears more. *)
LEMMA NobodyHearsMore ==
  ASSUME NetInv, [Next]_vars, ~\E t \in Threads, d \in Nodes : Delivers(t, d)
  PROVE  \A k \in Nodes : Heard(k)' \subseteq Heard(k)
<1>1. TypeOK /\ TypeOK'
  BY TypeStep DEF NetInv
<1> QED BY <1>1, ReachedKept, KeptHeard

(* A node hears only others, and no message twice. *)
LEMMA HeardStep ==
  ASSUME NetInv, [Next]_vars
  PROVE  HeardInv'
<1>0. TypeOK /\ LockInv /\ NodeInv /\ HeardInv /\ UsedInv
  BY DEF NetInv
<1>1. todo \in [Threads -> SUBSET Nodes] /\ msg \in [Threads -> Msg \cup {NoMsg}]
        /\ pc \in [Threads -> {"idle", "locking", "sending"}]
  BY <1>0 DEF TypeOK
<1>2. CASE \E t \in Threads, d \in Nodes : Delivers(t, d)
  <2>1. PICK t \in Threads, d \in Nodes : Delivers(t, d)
    BY <1>2
  <2>2. /\ d # Node(t) /\ msg[t] # NoMsg /\ msg' = msg
        /\ todo' = [todo EXCEPT ![t] = @ \ {d}]
        /\ \A u \in Threads : u # t => todo[u] = {}
    BY <2>1, DeliversForm
  <2>3. /\ Heard(d)' = Heard(d) \cup {msg[t]}
        /\ \A k \in Nodes \ {d} : Heard(k)' = Heard(k)
    BY <1>0, <2>1, ReachedSend DEF Heard
  <2>4. msg[t].by # d
    BY <2>2, MsgOfThread
  <2>5. \A n \in Nodes : \A m \in Heard(n)' : m.by # n
    BY <1>0, <2>3, <2>4 DEF HeardInv
  <2>6. ASSUME NEW u \in Threads, NEW k \in todo'[u]
        PROVE  msg'[u] \notin Heard(k)'
    <3>1. u = t /\ k \in todo[t] /\ k # d /\ k \in Nodes
      BY <1>1, <2>2
    <3> QED BY <1>0, <2>2, <2>3, <3>1 DEF HeardInv
  <2> QED BY <2>5, <2>6 DEF HeardInv
<1>3. CASE ~\E t \in Threads, d \in Nodes : Delivers(t, d)
  <2>1. \A k \in Nodes : Heard(k)' \subseteq Heard(k)
    BY <1>3, NobodyHearsMore
  <2>2. todo' \in [Threads -> SUBSET Nodes]
    BY <1>0, TypeStep DEF TypeOK
  <2>3. ASSUME \A u \in Threads : \A k \in todo'[u] : msg'[u] \notin Heard(k)
        PROVE  HeardInv'
    BY <1>0, <2>1, <2>2, <2>3 DEF HeardInv
  <2>4. ASSUME \A u \in Threads : \/ todo'[u] = {}
                                  \/ todo'[u] \subseteq todo[u] /\ msg'[u] = msg[u]
        PROVE  HeardInv'
    BY <1>0, <2>3, <2>4 DEF HeardInv
  <2>5. ASSUME NEW n \in Nodes, connect(n)
        PROVE  HeardInv'
    <3>1. Reached(n) = <<>> /\ msg' = msg
      BY <1>0, <2>5 DEF connect, NodeInv
    <3>2. Heard(n) = {}
      BY <3>1 DEF Heard
    <3>3. \A u \in Threads : todo'[u] \subseteq todo[u] \cup {n}
      BY <1>1, <2>5 DEF connect
    <3> QED BY <1>0, <2>3, <3>1, <3>2, <3>3 DEF HeardInv
  <2>6. ASSUME NEW t \in Threads, lock_file(t)
        PROVE  HeardInv'
    <3>1. msg[t] \in Msg /\ pc[t] = "locking" /\ msg' = msg
            /\ todo' = [todo EXCEPT ![t] = files \ {Node(t)}]
      BY <1>0, <1>1, <2>6 DEF lock_file, LockInv
    <3>2. ~Used(msg[t])
      BY <1>0, <3>1 DEF UsedInv
    <3>3. files \subseteq Nodes
      BY <1>0 DEF TypeOK
    <3> QED BY <1>0, <1>1, <2>3, <3>1, <3>2, <3>3 DEF HeardInv, Used
  <2>7. ASSUME NEW n \in Nodes,
               \/ set_recv_access(n) \/ disconnect(n) \/ end_process(n)
        PROVE  HeardInv'
    BY <1>1, <2>4, <2>7 DEF set_recv_access, disconnect, end_process
  <2>8. ASSUME NEW n \in Nodes, send_request(n)
        PROVE  HeardInv'
    <3>1. <<n, "main">> \in Threads
      BY ThreadForm
    <3>2. todo[<<n, "main">>] = {}
      BY <1>0, <2>8, <3>1 DEF send_request, LockInv
    <3> QED BY <1>1, <2>4, <2>8, <3>1, <3>2 DEF send_request
  <2>9. ASSUME NEW n \in Nodes, recv(n)
        PROVE  HeardInv'
    <3>1. <<n, "recv">> \in Threads
      BY ThreadForm
    <3>2. todo[<<n, "recv">>] = {}
      BY <1>0, <2>9, <3>1 DEF recv, LockInv
    <3> QED BY <1>1, <2>4, <2>9, <3>1, <3>2 DEF recv
  <2>10. ASSUME NEW t \in Threads, lock_file_fails(t) \/ unlock_file(t)
         PROVE  HeardInv'
    <3>1. todo[t] = {}
      BY <1>0, <2>10 DEF lock_file_fails, unlock_file, LockInv
    <3> QED BY <1>1, <2>4, <2>10, <3>1 DEF lock_file_fails, unlock_file
  <2>11. ASSUME NEW t \in Threads, NEW d \in Nodes, sendto(t, d)
         PROVE  HeardInv'
    BY <1>1, <2>4, <2>11 DEF sendto
  <2>12. CASE UNCHANGED vars
    BY <2>4, <2>12 DEF vars
  <2> QED BY <2>5, <2>6, <2>7, <2>8, <2>9, <2>10, <2>11, <2>12 DEF Next
<1> QED BY <1>2, <1>3
-----------------------------------------------------------------------------
(* Which messages have been used *)

(* A request with a new number is a new message. *)
LEMMA FreshRequest ==
  ASSUME NetInv, NEW n \in Nodes, requests[n] < MaxRequests
  PROVE  ~Used(Request(n, requests[n] + 1))
<1>1. requests[n] \in 0 .. MaxRequests /\ MaxRequests \in Nat
  BY VirtualNetAssumption DEF NetInv, TypeOK
<1>2. requests[n] + 1 \in 1 .. MaxRequests /\ ~(requests[n] + 1 <= requests[n])
  BY <1>1
<1>3. /\ Request(n, requests[n] + 1) \in Msg
      /\ Request(n, requests[n] + 1).of = n
      /\ Request(n, requests[n] + 1).no = requests[n] + 1
  BY <1>2, MsgForm
<1> QED BY <1>2, <1>3 DEF NetInv, UsedInv

(* The answer to a request just taken is a new message: no datagram is     *)
(* taken twice.                                                            *)
LEMMA FreshReply ==
  ASSUME NetInv, NEW n \in Nodes, recv(n), IsRequest(Head(queue[n]))
  PROVE  ~Used(Reply(n, Head(queue[n])))
<1> DEFINE h == Head(queue[n])
           r == Reply(n, h)
<1>1. TypeOK /\ HeardInv /\ UsedInv
  BY DEF NetInv
<1>2. /\ h \in Msg /\ Len(taken[n]) + 1 \in 1 .. Len(Reached(n))
      /\ Reached(n)[Len(taken[n]) + 1] = h
  BY <1>1, ReachedRecv
<1>3. h \in Heard(n)
  BY <1>2 DEF Heard
<1>4. h.by # n /\ h.by = h.of /\ RequestOf(h) = h
  BY <1>1, <1>2, <1>3, MsgForm DEF HeardInv, IsRequest
<1>5. r \in Msg /\ r.by = n /\ RequestOf(r) = h /\ ~IsRequest(r)
  BY <1>2, <1>4, MsgForm DEF IsRequest
<1> HIDE DEF h, r
<1>6. ASSUME Used(r) PROVE FALSE
  <2>1. h \in Taken(n)
    BY <1>1, <1>5, <1>6 DEF UsedInv
  <2>2. PICK i \in 1 .. Len(taken[n]) : taken[n][i] = h
    BY <2>1 DEF Taken
  <2>3. /\ Len(taken[n]) \in Nat /\ Reached(n)[i] = h
        /\ i \in 1 .. Len(Reached(n))
    <3>1. /\ Len(taken[n]) \in Nat /\ Len(Reached(n)) \in Nat
          /\ Len(taken[n]) <= Len(Reached(n)) /\ Reached(n)[i] = taken[n][i]
      BY <1>1, ReachedForm
    <3> QED BY <2>2, <3>1
  <2>4. PICK f \in [Msg -> Nat], top \in Nat : Numbering(f, top)
    BY DEF NetInv, OrderInv
  <2>5. f[Reached(n)[i]] < f[Reached(n)[Len(taken[n]) + 1]]
    <3>1. i < Len(taken[n]) + 1
      BY <2>3
    <3> QED BY <1>2, <2>3, <2>4, <3>1 DEF Numbering
  <2>6. f[h] \in Nat /\ f[h] < f[h]
    BY <1>2, <2>3, <2>5
  <2> QED BY <2>6
<1> QED BY <1>6 DEF h, r

(* The numbers of requests only grow. *)
LEMMA RequestsGrow ==
  ASSUME TypeOK, [Next]_vars, NEW n \in Nodes
  PROVE  requests[n] <= requests'[n] /\ requests[n] \in Nat /\ requests'[n] \in Nat
<1>1. requests \in [Nodes -> 0 .. MaxRequests] /\ MaxRequests \in Nat
  BY VirtualNetAssumption DEF TypeOK
<1>2. requests[n] \in Nat
  BY <1>1
<1>3. requests' = requests
        \/ \E k \in Nodes : requests' = [requests EXCEPT ![k] = @ + 1]
  BY DEF Next, vars, connect, set_recv_access, disconnect, end_process, send_request,
         recv, lock_file, lock_file_fails, unlock_file, sendto
<1>4. requests'[n] = requests[n] \/ requests'[n] = requests[n] + 1
  BY <1>1, <1>3
<1> QED BY <1>2, <1>4

(* A message that has been used, or is in a thread's hands, has the number *)
(* of a request made, and the request it answers was taken.                *)
LEMMA UsedFacts ==
  ASSUME NetInv, [Next]_vars, NEW m \in Msg,
         Used(m) \/ \E t \in Threads : m = msg[t]
  PROVE  /\ m.no <= requests'[m.of]
         /\ ~IsRequest(m) => RequestOf(m) \in Taken(m.by)'
<1>0. TypeOK /\ UsedInv /\ m.of \in Nodes /\ m.by \in Nodes /\ m.no \in Nat
        /\ RequestOf(m) \in Msg /\ RequestOf(m).no = m.no /\ RequestOf(m).of = m.of
  <2>1. MaxRequests \in Nat /\ m.no \in 1 .. MaxRequests /\ m.of \in Nodes /\ m.by \in Nodes
    BY MsgForm, VirtualNetAssumption
  <2>2. RequestOf(m) \in Msg /\ RequestOf(m).no = m.no /\ RequestOf(m).of = m.of
    BY <2>1, MsgForm DEF RequestOf
  <2>3. m.no \in Nat
    BY <2>1
  <2> QED BY <2>1, <2>2, <2>3 DEF NetInv
<1>1. ASSUME m.no <= requests[m.of], ~IsRequest(m) => RequestOf(m) \in Taken(m.by)
      PROVE  /\ m.no <= requests'[m.of]
             /\ ~IsRequest(m) => RequestOf(m) \in Taken(m.by)'
  <2>1. requests[m.of] <= requests'[m.of] /\ requests[m.of] \in Nat
          /\ requests'[m.of] \in Nat
    BY <1>0, RequestsGrow
  <2>2. m.no <= requests'[m.of]
    BY <1>0, <1>1, <2>1
  <2>3. Taken(m.by) \subseteq Taken(m.by)'
    BY <1>0, TakenStays
  <2> QED BY <1>1, <2>2, <2>3
<1>2. CASE Used(m)
  BY <1>0, <1>1, <1>2 DEF UsedInv
<1>3. ASSUME NEW t \in Threads, m = msg[t]
      PROVE  m.no <= requests[m.of] /\ (~IsRequest(m) => RequestOf(m) \in Taken(m.by))
  <2>1. msg[t] # NoMsg
    BY <1>3, NoneForm
  <2>2. CASE t = <<Node(t), "main">>
    <3>1. m = Request(Node(t), requests[Node(t)]) /\ IsRequest(m)
      BY <1>3, <2>1, <2>2, MsgOfThread
    <3>2. m.no = requests[Node(t)] /\ m.of = Node(t)
      BY <3>1 DEF Request
    <3> QED BY <1>0, <3>1, <3>2
  <2>3. CASE t = <<Node(t), "recv">>
    <3>1. RequestOf(m) \in Taken(m.by) /\ ~IsRequest(m)
      BY <1>3, <2>1, <2>3, MsgOfThread
    <3>2. RequestOf(m) \in Heard(m.by)
      BY <1>0, <3>1, ReachedForm
    <3>3. Used(RequestOf(m))
      BY <1>0, <3>2 DEF Used
    <3>4. m.no <= requests[m.of]
      BY <1>0, <3>3 DEF UsedInv
    <3> QED BY <3>1, <3>4
  <2> QED BY <2>2, <2>3, ThreadForm
<1> QED BY <1>1, <1>2, <1>3

(* A thread begins to send only messages that have not been used. *)
LEMMA UsedStep ==
  ASSUME NetInv, [Next]_vars
  PROVE  UsedInv'
<1>0. TypeOK /\ LockInv /\ UsedInv
  BY DEF NetInv
<1>1. msg \in [Threads -> Msg \cup {NoMsg}] /\ pc \in [Threads -> {"idle", "locking", "sending"}]
  BY <1>0 DEF TypeOK
<1>2. ASSUME \A m \in Msg : Used(m)' =>
                /\ Used(m) \/ \E t \in Threads : m = msg[t]
                /\ \A u \in Threads : pc'[u] = "locking" => msg'[u] # m
      PROVE  UsedInv'
  BY <1>2, UsedFacts DEF UsedInv
<1>3. ASSUME NEW t \in Threads, pc[t] = "sending" \/ pc'[t] = "sending",
             pc[t] # "idle", msg' = msg,
             \A u \in Threads : pc'[u] = "locking" => pc[u] = "locking" /\ u # t,
             \A m \in Msg : Used(m)' => Used(m) \/ m = msg[t]
      PROVE  UsedInv'
  <2>1. msg[t] # NoMsg
    BY <1>0, <1>3 DEF LockInv
  <2>2. ASSUME NEW m \in Msg, Used(m)', NEW u \in Threads, pc'[u] = "locking"
        PROVE  msg'[u] # m
    <3>1. CASE Used(m)
      BY <1>0, <1>3, <2>2, <3>1 DEF UsedInv
    <3>2. CASE m = msg[t]
      BY <1>3, <2>1, <2>2, <3>2, MsgDistinct
    <3> QED BY <1>3, <2>2, <3>1, <3>2
  <2> QED BY <1>2, <1>3, <2>2
<1>4. CASE \E t \in Threads, d \in Nodes : Delivers(t, d)
  <2>1. PICK t \in Threads, d \in Nodes : Delivers(t, d)
    BY <1>4
  <2>2. pc[t] = "sending" /\ pc' = pc /\ msg' = msg /\ owed' = owed
    BY <2>1, DeliversForm
  <2>3. /\ Heard(d)' = Heard(d) \cup {msg[t]}
        /\ \A k \in Nodes \ {d} : Heard(k)' = Heard(k)
    BY <1>0, <2>1, ReachedSend DEF Heard
  <2>4. \A m \in Msg : Used(m)' => Used(m) \/ m = msg[t]
    BY <2>2, <2>3 DEF Used
  <2> QED BY <1>3, <2>2, <2>4
<1>5. CASE ~\E t \in Threads, d \in Nodes : Delivers(t, d)
  <2>1. \A k \in Nodes : Heard(k)' \subseteq Heard(k)
    BY <1>5, NobodyHearsMore
  <2>2. ASSUME NEW t \in Threads, lock_file(t)
        PROVE  UsedInv'
    <3>1. /\ pc[t] = "locking" /\ pc' = [pc EXCEPT ![t] = "sending"] /\ msg' = msg
          /\ owed' = owed \cup Owing(t)
      BY <2>2 DEF lock_file
    <3>2. \A m \in Msg : Used(m)' => Used(m) \/ m = msg[t]
      BY <2>1, <3>1 DEF Used, Owing
    <3>3. /\ pc'[t] = "sending"
          /\ \A u \in Threads : pc'[u] = "locking" => pc[u] = "locking" /\ u # t
      BY <1>1, <3>1
    <3> QED BY <1>3, <3>1, <3>2, <3>3
  <2>3. ASSUME owed' \subseteq owed
        PROVE  \A m \in Msg : Used(m)' => Used(m)
    BY <2>1, <2>3 DEF Used
  <2>4. ASSUME owed' \subseteq owed,
               \A u \in Threads : pc'[u] = "locking" =>
                  (pc[u] = "locking" /\ msg'[u] = msg[u]) \/ ~Used(msg'[u])
        PROVE  UsedInv'
    BY <1>0, <1>2, <2>3, <2>4 DEF UsedInv
  <2>5. ASSUME NEW n \in Nodes, send_request(n)
        PROVE  UsedInv'
    <3> DEFINE u == <<n, "main">>
    <3>1. /\ u \in Threads /\ requests[n] < MaxRequests /\ owed' = owed
          /\ pc' = [pc EXCEPT ![u] = "locking"]
          /\ msg' = [msg EXCEPT ![u] = Request(n, requests[n] + 1)]
      BY <2>5, ThreadForm DEF send_request
    <3>2. ~Used(Request(n, requests[n] + 1))
      BY <3>1, FreshRequest
    <3> HIDE DEF u
    <3> QED BY <1>1, <2>4, <3>1, <3>2
  <2>6. ASSUME NEW n \in Nodes, recv(n)
        PROVE  UsedInv'
    <3> DEFINE u == <<n, "recv">>
               r == Reply(n, Head(queue[n]))
    <3>1. /\ u \in Threads /\ owed' = owed
          /\ \/ UNCHANGED <<pc, msg>>
             \/ /\ IsRequest(Head(queue[n]))
                /\ pc' = [pc EXCEPT ![u] = "locking"] /\ msg' = [msg EXCEPT ![u] = r]
      BY <2>6, ThreadForm DEF recv
    <3>2. IsRequest(Head(queue[n])) => ~Used(r)
      BY <2>6, FreshReply
    <3> HIDE DEF u, r
    <3> QED BY <1>1, <2>4, <3>1, <3>2
  <2>7. ASSUME NEW n \in Nodes, connect(n) \/ set_recv_access(n)
        PROVE  UsedInv'
    BY <2>4, <2>7 DEF connect, set_recv_access
  <2>8. ASSUME NEW n \in Nodes, disconnect(n) \/ end_process(n)
        PROVE  UsedInv'
    BY <1>1, <2>4, <2>8 DEF disconnect, end_process, OwedWithout
  <2>9. ASSUME NEW t \in Threads, lock_file_fails(t) \/ unlock_file(t)
        PROVE  UsedInv'
    BY <1>1, <2>4, <2>9 DEF lock_file_fails, unlock_file
  <2>10. ASSUME NEW t \in Threads, NEW d \in Nodes, sendto(t, d)
         PROVE  UsedInv'
    BY <2>4, <2>10 DEF sendto
  <2>11. CASE UNCHANGED vars
    BY <2>4, <2>11 DEF vars
  <2> QED BY <2>2, <2>5, <2>6, <2>7, <2>8, <2>9, <2>10, <2>11 DEF Next
<1> QED BY <1>4, <1>5
-----------------------------------------------------------------------------
(* What is owed *)

(* A node has heard a message exactly where it is in what reached it. *)
LEMMA PosHeard ==
  ASSUME NEW n, NEW m
  PROVE  (Pos(Reached(n), m) # {}) <=> m \in Heard(n)
  BY DEF Pos, Heard

(* Message o[1] is with node o[2], or a thread has it still to send there. *)
Settled(o) ==
  \/ o[1] \in Heard(o[2])
  \/ \E t \in Threads : msg[t] = o[1] /\ o[2] \in todo[t]

(* NothingLost in these terms. *)
LEMMA NothingLostSettled == NothingLost <=> \A o \in owed : Settled(o)
  BY PosHeard DEF NothingLost, Settled

(* What is owed stays so between connected nodes, and is settled. *)
LEMMA OwedStep ==
  ASSUME NetInv, [Next]_vars
  PROVE  OwedInv' /\ NothingLost'
<1>0. TypeOK /\ LockInv /\ NodeInv /\ HeardInv /\ UsedInv /\ OwedInv
        /\ \A o \in owed : Settled(o)
  BY NothingLostSettled DEF NetInv
<1>1. /\ todo \in [Threads -> SUBSET Nodes] /\ msg \in [Threads -> Msg \cup {NoMsg}]
      /\ pc \in [Threads -> {"idle", "locking", "sending"}]
      /\ status \in [Nodes -> {"off", "connected", "disconnected", "ended"}]
      /\ owed \subseteq Msg \X Nodes
  BY <1>0 DEF TypeOK
<1>2. ASSUME OwedInv', \A o \in owed' : Settled(o)'
      PROVE  OwedInv' /\ NothingLost'
  <2>1. NothingLost'
    BY <1>2, PosHeard DEF NothingLost, Settled, Pos, Heard
  <2> QED BY <1>2, <2>1
<1>3. CASE \E t \in Threads, d \in Nodes : Delivers(t, d)
  <2>1. PICK t \in Threads, d \in Nodes : Delivers(t, d)
    BY <1>3
  <2>2. UNCHANGED <<status, msg, owed>> /\ todo' = [todo EXCEPT ![t] = @ \ {d}]
    BY <2>1, DeliversForm
  <2>3. /\ Heard(d)' = Heard(d) \cup {msg[t]}
        /\ \A k \in Nodes \ {d} : Heard(k)' = Heard(k)
    BY <1>0, <2>1, ReachedSend DEF Heard
  <2>4. OwedInv'
    BY <1>0, <1>1, <2>2 DEF OwedInv, Connected
  <2>5. ASSUME NEW o \in owed'
        PROVE  Settled(o)'
    <3>1. Settled(o) /\ o[2] \in Nodes
      BY <1>0, <1>1, <2>2
    <3>2. CASE o[1] \in Heard(o[2])
      BY <2>3, <3>1, <3>2 DEF Settled
    <3>3. ASSUME NEW u \in Threads, msg[u] = o[1], o[2] \in todo[u]
          PROVE  Settled(o)'
      <4>1. CASE u = t /\ o[2] = d
        BY <2>3, <3>3, <4>1 DEF Settled
      <4>2. CASE ~(u = t /\ o[2] = d)
        <5>1. o[2] \in todo'[u] /\ msg'[u] = o[1]
          BY <1>1, <2>2, <3>3, <4>2
        <5> QED BY <5>1 DEF Settled
      <4> QED BY <4>1, <4>2
    <3> QED BY <3>1, <3>2, <3>3 DEF Settled
  <2> QED BY <1>2, <2>4, <2>5
<1>4. CASE ~\E t \in Threads, d \in Nodes : Delivers(t, d)
  <2>1. ASSUME NEW n \in Nodes, disconnect(n) \/ end_process(n)
        PROVE  OwedInv' /\ NothingLost'
    <3>1. /\ owed' = OwedWithout(n)
          /\ taken' = taken /\ queue' = [queue EXCEPT ![n] = <<>>]
          /\ \A k \in Nodes \ {n} : status'[k] = status[k]
          /\ \A t \in Threads : \/ Node(t) = n /\ (todo'[t] = {} \/ todo'[t] = todo[t])
                                     /\ (msg'[t] = msg[t] \/ todo'[t] = {})
                                \/ Node(t) # n /\ todo'[t] = todo[t] /\ msg'[t] = msg[t]
      BY <1>1, <2>1 DEF disconnect, end_process
    <3>2. ASSUME NEW k \in Nodes \ {n} PROVE Heard(k)' = Heard(k)
      <4>1. taken'[k] = taken[k] /\ queue'[k] = queue[k]
        BY <1>0, <3>1 DEF TypeOK
      <4> QED BY <4>1 DEF Heard, Reached
    <3>3. ASSUME NEW o \in owed'
          PROVE  /\ o \in owed /\ o[2] # n /\ o[2] \in Nodes
                 /\ \A t \in Threads : Node(t) = n => ~(o[1] = msg[t] /\ o[2] \in todo[t])
      BY <1>1, <3>1 DEF OwedWithout
    <3>4. ASSUME NEW o \in owed'
          PROVE  Settled(o)'
      <4>1. CASE o[1] \in Heard(o[2])
        BY <3>2, <3>3, <4>1 DEF Settled
      <4>2. ASSUME NEW t \in Threads, msg[t] = o[1], o[2] \in todo[t]
            PROVE  Settled(o)'
        <5>1. Node(t) # n
          BY <3>3, <4>2
        <5> QED BY <3>1, <4>2, <5>1 DEF Settled
      <4> QED BY <1>0, <3>3, <4>1, <4>2 DEF Settled
    <3>5. ASSUME NEW o \in owed'
          PROVE  /\ status'[o[2]] = "connected"
                 /\ \A t \in Threads : (msg'[t] = o[1] /\ o[2] \in todo'[t])
                                         => status'[Node(t)] = "connected"
      <4>1. status'[o[2]] = "connected"
        BY <1>0, <3>1, <3>3 DEF OwedInv, Connected
      <4>2. ASSUME NEW t \in Threads, msg'[t] = o[1], o[2] \in todo'[t]
            PROVE  status'[Node(t)] = "connected"
        <5>1. Node(t) # n /\ msg[t] = o[1] /\ o[2] \in todo[t] /\ Node(t) \in Nodes
          BY <3>1, <3>3, <4>2, ThreadForm
        <5> QED BY <1>0, <3>1, <3>3, <5>1 DEF OwedInv, Connected
      <4> QED BY <4>1, <4>2
    <3>6. OwedInv'
      BY <3>5 DEF OwedInv, Connected
    <3> QED BY <1>2, <3>4, <3>6
  <2>2. ASSUME taken' = taken /\ queue' = queue
        PROVE  \A k \in Nodes : Heard(k)' = Heard(k)
    BY <2>2 DEF Heard, Reached
  <2>3. ASSUME \A k \in Nodes : Heard(k)' = Heard(k),
               owed' = owed, status' = status,
               \A t \in Threads : \/ todo[t] = {} /\ todo'[t] = {}
                                  \/ todo'[t] = todo[t] /\ msg'[t] = msg[t]
        PROVE  OwedInv' /\ NothingLost'
    <3>1. OwedInv'
      BY <1>0, <2>3 DEF OwedInv, Connected
    <3>2. \A o \in owed' : Settled(o)'
      BY <1>0, <1>1, <2>3 DEF Settled
    <3> QED BY <1>2, <3>1, <3>2
  <2>4. ASSUME NEW n \in Nodes, connect(n)
        PROVE  OwedInv' /\ NothingLost'
    <3>1. /\ status[n] = "off" /\ status' = [status EXCEPT ![n] = "connected"]
          /\ msg' = msg /\ owed' = owed /\ taken' = taken /\ queue' = queue
          /\ \A t \in Threads : todo'[t] = todo[t] \/ todo'[t] = todo[t] \cup {n}
      BY <1>1, <2>4 DEF connect
    <3>2. \A o \in owed : o[2] # n /\ o[2] \in Nodes
      BY <1>0, <1>1, <3>1 DEF OwedInv, Connected
    <3>3. \A k \in Nodes : status[k] = "connected" => status'[k] = "connected"
      BY <1>1, <3>1
    <3>4. OwedInv'
      <4> SUFFICES ASSUME NEW o \in owed
                   PROVE  /\ status'[o[2]] = "connected"
                          /\ \A t \in Threads : (msg[t] = o[1] /\ o[2] \in todo'[t])
                                                  => status'[Node(t)] = "connected"
        BY <3>1 DEF OwedInv, Connected
      <4>1. status'[o[2]] = "connected"
        BY <1>0, <3>2, <3>3 DEF OwedInv, Connected
      <4>2. ASSUME NEW t \in Threads, msg[t] = o[1], o[2] \in todo'[t]
            PROVE  status'[Node(t)] = "connected"
        <5>1. o[2] \in todo[t] /\ Node(t) \in Nodes
          BY <3>1, <3>2, <4>2, ThreadForm
        <5> QED BY <1>0, <3>3, <4>2, <5>1 DEF OwedInv, Connected
      <4> QED BY <4>1, <4>2
    <3>5. \A o \in owed' : Settled(o)'
      BY <1>0, <1>1, <2>2, <3>1 DEF Settled
    <3> QED BY <1>2, <3>4, <3>5
  <2>5. ASSUME NEW t \in Threads, lock_file(t)
        PROVE  OwedInv' /\ NothingLost'
    <3>1. /\ pc[t] = "locking" /\ status' = status /\ msg' = msg
          /\ taken' = taken /\ queue' = queue
          /\ todo' = [todo EXCEPT ![t] = files \ {Node(t)}]
          /\ owed' = owed \cup Owing(t)
      BY <2>5 DEF lock_file
    <3>2. todo[t] = {} /\ msg[t] \in Msg
      BY <1>0, <1>1, <3>1 DEF LockInv
    <3>3. ASSUME NEW o \in owed
          PROVE  o[1] # msg[t]
      <4>1. o = <<o[1], o[2]>> /\ o[1] \in Msg /\ o[2] \in Nodes
        BY <1>1
      <4>2. Used(o[1])
        BY <4>1 DEF Used
      <4> QED BY <1>0, <3>1, <4>1, <4>2 DEF UsedInv
    <3>4. ASSUME NEW o \in Owing(t)
          PROVE  /\ o[1] = msg[t] /\ o[2] \in Nodes /\ o[2] # Node(t)
                 /\ Connected(o[2]) /\ Connected(Node(t)) /\ o[2] \in todo'[t]
      <4>1. /\ o[1] = msg[t] /\ o[2] \in Nodes /\ o[2] # Node(t)
            /\ Connected(o[2]) /\ Connected(Node(t))
        BY DEF Owing
      <4>2. o[2] \in files
        BY <1>0, <4>1 DEF NodeInv
      <4> QED BY <1>1, <3>1, <4>1, <4>2
    <3>5. OwedInv'
      <4> SUFFICES ASSUME NEW o \in owed'
                   PROVE  /\ Connected(o[2])
                          /\ \A u \in Threads : (msg[u] = o[1] /\ o[2] \in todo'[u])
                                                  => Connected(Node(u))
        BY <3>1 DEF OwedInv, Connected
      <4>1. CASE o \in owed
        <5>1. \A u \in Threads : msg[u] = o[1] => todo'[u] = todo[u]
          BY <1>1, <3>1, <3>3, <4>1
        <5> QED BY <1>0, <4>1, <5>1 DEF OwedInv
      <4>2. CASE o \in Owing(t)
        <5>1. ASSUME NEW u \in Threads, msg[u] = o[1]
              PROVE  u = t
          <6>1. msg[t] # NoMsg
            BY <3>2, NoneForm
          <6> QED BY <3>4, <4>2, <5>1, <6>1, MsgDistinct
        <5> QED BY <3>4, <4>2, <5>1
      <4> QED BY <3>1, <4>1, <4>2
    <3>6. \A o \in owed' : Settled(o)'
      <4>1. ASSUME NEW o \in owed
            PROVE  Settled(o)'
        <5>1. \A u \in Threads : msg[u] = o[1] => todo'[u] = todo[u]
          BY <1>1, <3>1, <3>3
        <5>2. Settled(o) /\ o[2] \in Nodes
          BY <1>0, <1>1
        <5> QED BY <2>2, <3>1, <5>1, <5>2 DEF Settled
      <4>2. ASSUME NEW o \in Owing(t)
            PROVE  Settled(o)'
        BY <3>1, <3>4, <4>2 DEF Settled
      <4> QED BY <3>1, <4>1, <4>2
    <3> QED BY <1>2, <3>5, <3>6
  <2>6. ASSUME NEW t \in Threads, NEW d \in Nodes, sendto(t, d)
        PROVE  OwedInv' /\ NothingLost'
    <3>1. /\ ~(Connected(d) /\ Connected(Node(t)))
          /\ status' = status /\ msg' = msg /\ owed' = owed
          /\ taken' = taken /\ queue' = queue
          /\ todo' = [todo EXCEPT ![t] = @ \ {d}]
      BY <1>4, <2>6 DEF sendto, Delivers
    <3>2. OwedInv'
      BY <1>0, <1>1, <3>1 DEF OwedInv, Connected
    <3>3. ASSUME NEW o \in owed
          PROVE  Settled(o)'
      <4>1. Settled(o) /\ o[2] \in Nodes
        BY <1>0, <1>1
      <4>2. CASE o[1] \in Heard(o[2])
        BY <2>2, <3>1, <4>1, <4>2 DEF Settled
      <4>3. ASSUME NEW u \in Threads, msg[u] = o[1], o[2] \in todo[u]
            PROVE  Settled(o)'
        <5>1. ~(u = t /\ o[2] = d)
          BY <1>0, <3>1, <4>3 DEF OwedInv
        <5>2. o[2] \in todo'[u] /\ msg'[u] = o[1]
          BY <1>1, <3>1, <4>3, <5>1
        <5> QED BY <5>2 DEF Settled
      <4> QED BY <4>1, <4>2, <4>3 DEF Settled
    <3> QED BY <1>2, <3>1, <3>2, <3>3
  <2>7. ASSUME NEW n \in Nodes, send_request(n)
        PROVE  OwedInv' /\ NothingLost'
    <3>1. <<n, "main">> \in Threads
      BY ThreadForm
    <3>2. todo[<<n, "main">>] = {}
      BY <1>0, <2>7, <3>1 DEF send_request, LockInv
    <3> QED BY <1>1, <2>2, <2>3, <2>7, <3>1, <3>2 DEF send_request
  <2>8. ASSUME NEW n \in Nodes, recv(n)
        PROVE  OwedInv' /\ NothingLost'
    <3>1. <<n, "recv">> \in Threads
      BY ThreadForm
    <3>2. todo[<<n, "recv">>] = {}
      BY <1>0, <2>8, <3>1 DEF recv, LockInv
    <3>3. \A k \in Nodes : Heard(k)' = Heard(k)
      BY <1>0, <2>8, ReachedRecv DEF Heard
    <3> QED BY <1>1, <2>3, <2>8, <3>1, <3>2, <3>3 DEF recv
  <2>9. ASSUME NEW n \in Nodes, set_recv_access(n)
        PROVE  OwedInv' /\ NothingLost'
    BY <2>2, <2>3, <2>9 DEF set_recv_access
  <2>10. ASSUME NEW t \in Threads, lock_file_fails(t) \/ unlock_file(t)
         PROVE  OwedInv' /\ NothingLost'
    <3>1. todo[t] = {}
      BY <1>0, <2>10 DEF lock_file_fails, unlock_file, LockInv
    <3> QED BY <1>1, <2>2, <2>3, <2>10, <3>1 DEF lock_file_fails, unlock_file
  <2>11. CASE UNCHANGED vars
    BY <2>2, <2>3, <2>11 DEF vars
  <2> QED BY <2>1, <2>4, <2>5, <2>6, <2>7, <2>8, <2>9, <2>10, <2>11 DEF Next
<1> QED BY <1>3, <1>4
-----------------------------------------------------------------------------
(* The order *)

(* Where nobody hears more and no other thread gets the lock, the same     *)
(* numbers will do.                                                        *)
LEMMA OrderKept ==
  ASSUME TypeOK, TypeOK', OrderInv, \A n \in Nodes : Kept(n),
         \A t \in Threads : lock' = t => lock = t /\ msg'[t] = msg[t]
  PROVE  OrderInv'
<1>1. PICK f \in [Msg -> Nat], top \in Nat : Numbering(f, top)
  BY DEF OrderInv
<1>2. \A n \in Nodes : /\ Heard(n)' \subseteq Heard(n)
                       /\ \A i \in 1 .. Len(Reached(n)') : i \in 1 .. Len(Reached(n))
  BY KeptHeard
<1>3. \A n \in Nodes : \A i, j \in 1 .. Len(Reached(n)') :
         i < j => f[Reached(n)'[i]] < f[Reached(n)'[j]]
  BY <1>1, <1>2 DEF Kept, Numbering
<1>4. \A n \in Nodes : \A m \in Heard(n)' :
         /\ f[m] <= top
         /\ \A t \in Threads : (lock' = t /\ m # msg'[t]) => f[m] < top
         /\ ~IsRequest(m) => f[RequestOf(m)] < f[m]
  BY <1>1, <1>2 DEF Numbering
<1>5. \A t \in Threads :
         lock' = t => /\ f[msg'[t]] = top
                      /\ ~IsRequest(msg'[t]) => f[RequestOf(msg'[t])] < top
  BY <1>1 DEF Numbering
<1>6. Numbering(f, top)'
  BY <1>3, <1>4, <1>5 DEF Numbering
<1> QED BY <1>6 DEF OrderInv

(* A thread that gets the lock gives its message, which is new, the next   *)
(* number.                                                                 *)
LEMMA OrderLock ==
  ASSUME NetInv, NEW t \in Threads, lock_file(t)
  PROVE  OrderInv'
<1>0. TypeOK /\ LockInv /\ UsedInv
  BY DEF NetInv
<1>1. /\ pc[t] = "locking" /\ lock' = t /\ msg' = msg
      /\ taken' = taken /\ queue' = queue
  BY DEF lock_file
<1>2. msg[t] \in Msg /\ msg[t] # NoMsg
  BY <1>0, <1>1 DEF TypeOK, LockInv
<1>3. ~Used(msg[t])
  BY <1>0, <1>1, <1>2 DEF UsedInv
<1>4. PICK f \in [Msg -> Nat], top \in Nat : Numbering(f, top)
  BY DEF NetInv, OrderInv
<1>5. PICK g \in [Msg -> Nat] :
         g[msg[t]] = top + 1 /\ \A m \in Msg : m # msg[t] => g[m] = f[m]
  <2> DEFINE new == [f EXCEPT ![msg[t]] = top + 1]
  <2>1. /\ new \in [Msg -> Nat] /\ new[msg[t]] = top + 1
        /\ \A m \in Msg : m # msg[t] => new[m] = f[m]
    BY <1>2, <1>4
  <2> HIDE DEF new
  <2> QED BY <2>1
<1>6. ASSUME NEW n \in Nodes
      PROVE  /\ Reached(n)' = Reached(n) /\ Heard(n)' = Heard(n)
             /\ \A m \in Heard(n) : m \in Msg /\ m # msg[t]
             /\ \A i \in 1 .. Len(Reached(n)) : Reached(n)[i] \in Heard(n)
  <2>1. Reached(n)' = Reached(n)
    BY <1>1 DEF Reached
  <2>2. Heard(n) \subseteq Msg
    BY <1>0, ReachedForm
  <2> QED BY <1>3, <2>1, <2>2 DEF Heard, Used
<1>7. ASSUME NEW m \in Msg, ~IsRequest(m), Used(m) \/ m = msg[t]
      PROVE  /\ RequestOf(m) \in Msg /\ f[RequestOf(m)] <= top
             /\ g[RequestOf(m)] = f[RequestOf(m)]
  <2>1. RequestOf(m) \in Taken(m.by) /\ m.by \in Nodes
    <3>1. CASE Used(m)
      BY <1>0, <1>7, <3>1, MsgForm DEF UsedInv
    <3>2. CASE m = msg[t]
      BY <1>2, <1>7, <3>2, MsgOfThread, MsgForm, ThreadForm
    <3> QED BY <1>7, <3>1, <3>2
  <2>2. RequestOf(m) \in Heard(m.by)
    BY <1>0, <2>1, ReachedForm
  <2>3. f[RequestOf(m)] <= top
    BY <1>4, <2>1, <2>2 DEF Numbering
  <2> QED BY <1>5, <1>6, <2>1, <2>2, <2>3
<1>8. \A n \in Nodes : \A i, j \in 1 .. Len(Reached(n)') :
         i < j => g[Reached(n)'[i]] < g[Reached(n)'[j]]
  BY <1>4, <1>5, <1>6 DEF Numbering
<1>9. ASSUME NEW n \in Nodes, NEW m \in Heard(n)
      PROVE  /\ g[m] <= top + 1
             /\ g[m] < top + 1
             /\ ~IsRequest(m) => g[RequestOf(m)] < g[m]
  <2>1. m \in Msg /\ g[m] = f[m] /\ f[m] \in Nat /\ f[m] <= top /\ Used(m)
    BY <1>4, <1>5, <1>6 DEF Numbering, Used
  <2>2. ~IsRequest(m) => f[RequestOf(m)] < f[m]
    BY <1>4 DEF Numbering
  <2>3. ~IsRequest(m) => g[RequestOf(m)] = f[RequestOf(m)]
    BY <1>7, <2>1
  <2>4. g[m] <= top + 1 /\ g[m] < top + 1
    BY <2>1
  <2> QED BY <2>1, <2>2, <2>3, <2>4
<1>10. ~IsRequest(msg[t]) => g[RequestOf(msg[t])] < top + 1
  <2> SUFFICES ASSUME ~IsRequest(msg[t])
               PROVE  g[RequestOf(msg[t])] < top + 1
    OBVIOUS
  <2>1. RequestOf(msg[t]) \in Msg /\ f[RequestOf(msg[t])] <= top
          /\ g[RequestOf(msg[t])] = f[RequestOf(msg[t])]
    BY <1>2, <1>7
  <2>2. f[RequestOf(msg[t])] \in Nat
    BY <2>1
  <2> QED BY <2>1, <2>2
<1>11. \A n \in Nodes : \A m \in Heard(n)' :
         /\ g[m] <= top + 1
         /\ \A u \in Threads : (lock' = u /\ m # msg'[u]) => g[m] < top + 1
         /\ ~IsRequest(m) => g[RequestOf(m)] < g[m]
  BY <1>6, <1>9
<1>12. \A u \in Threads :
         lock' = u => /\ g[msg'[u]] = top + 1
                      /\ ~IsRequest(msg'[u]) => g[RequestOf(msg'[u])] < top + 1
  BY <1>1, <1>5, <1>10
<1>13. Numbering(g, top + 1)'
  BY <1>8, <1>11, <1>12 DEF Numbering
<1>14. top + 1 \in Nat
  OBVIOUS
<1> QED BY <1>13, <1>14 DEF OrderInv

(* The message put into a queue has a number beyond all that are there. *)
LEMMA OrderDelivers ==
  ASSUME NetInv, NEW t \in Threads, NEW d \in Nodes, Delivers(t, d)
  PROVE  OrderInv'
<1>0. TypeOK /\ LockInv /\ HeardInv
  BY DEF NetInv
<1> DEFINE m == msg[t]
<1>1. lock = t /\ d \in todo[t] /\ m \in Msg /\ lock' = lock /\ msg' = msg
  BY DeliversForm
<1>2. /\ \A k \in Nodes \ {d} : Reached(k)' = Reached(k) /\ Heard(k)' = Heard(k)
      /\ Len(Reached(d)') = Len(Reached(d)) + 1
      /\ Reached(d)'[Len(Reached(d)) + 1] = m
      /\ \A i \in 1 .. Len(Reached(d)) : Reached(d)'[i] = Reached(d)[i]
      /\ Heard(d)' = Heard(d) \cup {m}
  BY <1>0, ReachedSend DEF Heard
<1>3. PICK f \in [Msg -> Nat], top \in Nat : Numbering(f, top)
  BY DEF NetInv, OrderInv
<1>4. m \notin Heard(d) /\ f[m] = top /\ (~IsRequest(m) => f[RequestOf(m)] < top)
  BY <1>0, <1>1, <1>3 DEF HeardInv, Numbering
<1>5. \A x \in Heard(d) : f[x] < top
  BY <1>1, <1>3, <1>4 DEF Numbering
<1>6. Len(Reached(d)) \in Nat
        /\ \A i \in 1 .. Len(Reached(d)) : Reached(d)[i] \in Heard(d)
  BY <1>0, ReachedForm DEF Heard
<1>7. ASSUME NEW n \in Nodes, NEW i \in 1 .. Len(Reached(n)'),
             NEW j \in 1 .. Len(Reached(n)'), i < j
      PROVE  f[Reached(n)'[i]] < f[Reached(n)'[j]]
  <2>1. CASE n # d
    BY <1>2, <1>3, <1>7, <2>1 DEF Numbering
  <2>2. CASE n = d
    <3>1. i \in 1 .. Len(Reached(d)) /\ Reached(d)'[i] = Reached(d)[i]
      BY <1>2, <1>6, <1>7, <2>2
    <3>2. CASE j = Len(Reached(d)) + 1
      BY <1>2, <1>4, <1>5, <1>6, <2>2, <3>1, <3>2
    <3>3. CASE j # Len(Reached(d)) + 1
      <4>1. j \in 1 .. Len(Reached(d)) /\ Reached(d)'[j] = Reached(d)[j]
        BY <1>2, <1>6, <2>2, <3>3
      <4> QED BY <1>3, <1>7, <2>2, <3>1, <4>1 DEF Numbering
    <3> QED BY <3>2, <3>3
  <2> QED BY <2>1, <2>2
<1>8. ASSUME NEW n \in Nodes, NEW x \in Heard(n)'
      PROVE  /\ f[x] <= top
             /\ \A u \in Threads : (lock' = u /\ x # msg'[u]) => f[x] < top
             /\ ~IsRequest(x) => f[RequestOf(x)] < f[x]
  <2>1. CASE x \in Heard(n)
    BY <1>1, <1>3, <2>1 DEF Numbering
  <2>2. CASE x = m
    <3>1. f[x] <= top
      BY <1>4, <2>2
    <3>2. \A u \in Threads : lock' = u => x = msg'[u]
      BY <1>1, <2>2
    <3> QED BY <1>4, <2>2, <3>1, <3>2
  <2> QED BY <1>2, <2>1, <2>2
<1>9. Numbering(f, top)'
  BY <1>1, <1>3, <1>7, <1>8 DEF Numbering
<1> QED BY <1>9 DEF OrderInv

(* Every step keeps an order of the messages. *)
LEMMA OrderStep ==
  ASSUME NetInv, [Next]_vars
  PROVE  OrderInv'
<1>0. TypeOK /\ LockInv /\ OrderInv /\ TypeOK'
  BY TypeStep DEF NetInv
<1>1. msg \in [Threads -> Msg \cup {NoMsg}]
  BY <1>0 DEF TypeOK
<1>2. CASE \E t \in Threads, d \in Nodes : Delivers(t, d)
  BY <1>2, OrderDelivers
<1>3. CASE \E t \in Threads : lock_file(t)
  BY <1>3, OrderLock
<1>4. CASE ~(\E t \in Threads, d \in Nodes : Delivers(t, d))
             /\ ~(\E t \in Threads : lock_file(t))
  <2>1. \A n \in Nodes : Kept(n)
    BY <1>0, <1>4, ReachedKept
  <2>2. ASSUME NEW t \in Threads, lock' = t
        PROVE  lock = t /\ msg'[t] = msg[t]
    <3>1. ASSUME lock = t
          PROVE  pc[t] = "sending"
      BY <1>0, <3>1 DEF LockInv
    <3>2. ASSUME NEW n \in Nodes, send_request(n)
          PROVE  lock = t /\ msg'[t] = msg[t]
      <4>1. <<n, "main">> \in Threads /\ pc[<<n, "main">>] = "idle" /\ lock' = lock
        BY <3>2, ThreadForm DEF send_request
      <4>2. t # <<n, "main">>
        BY <2>2, <3>1, <4>1
      <4> QED BY <1>1, <2>2, <3>2, <4>1, <4>2 DEF send_request
    <3>3. ASSUME NEW n \in Nodes, recv(n)
          PROVE  lock = t /\ msg'[t] = msg[t]
      <4>1. <<n, "recv">> \in Threads /\ pc[<<n, "recv">>] = "idle" /\ lock' = lock
        BY <3>3, ThreadForm DEF recv
      <4>2. t # <<n, "recv">>
        BY <2>2, <3>1, <4>1
      <4> QED BY <1>1, <2>2, <3>3, <4>1, <4>2 DEF recv
    <3>4. ASSUME NEW n \in Nodes, connect(n) \/ set_recv_access(n) \/ disconnect(n)
          PROVE  lock = t /\ msg'[t] = msg[t]
      BY <2>2, <3>4 DEF connect, set_recv_access, disconnect
    <3>5. ASSUME NEW n \in Nodes, end_process(n)
          PROVE  lock = t /\ msg'[t] = msg[t]
      <4>1. lock = t /\ Node(t) # n
        BY <2>2, <3>5, NoneForm DEF end_process
      <4> QED BY <3>5, <4>1 DEF end_process
    <3>6. ASSUME NEW u \in Threads, lock_file_fails(u)
          PROVE  lock = t /\ msg'[t] = msg[t]
      <4>1. lock = t /\ pc[u] = "locking"
        BY <2>2, <3>6 DEF lock_file_fails
      <4>2. u # t
        BY <3>1, <4>1
      <4> QED BY <1>1, <3>6, <4>1, <4>2 DEF lock_file_fails
    <3>7. ASSUME NEW u \in Threads, unlock_file(u)
          PROVE  lock = t /\ msg'[t] = msg[t]
      BY <2>2, <3>7, NoneForm DEF unlock_file
    <3>8. ASSUME NEW u \in Threads, NEW d \in Nodes, sendto(u, d)
          PROVE  lock = t /\ msg'[t] = msg[t]
      BY <2>2, <3>8 DEF sendto
    <3>9. CASE UNCHANGED vars
      BY <2>2, <3>9 DEF vars
    <3> QED BY <1>4, <3>2, <3>3, <3>4, <3>5, <3>6, <3>7, <3>8, <3>9 DEF Next
  <2> QED BY <1>0, <2>1, <2>2, OrderKept
<1> QED BY <1>2, <1>3, <1>4
-----------------------------------------------------------------------------
(* Initially nobody has heard, owes or sends anything. *)
LEMMA NetInit == Init => NetInv
<1> SUFFICES ASSUME Init PROVE NetInv
  OBVIOUS
<1>1. TypeOK
  BY TypeInit
<1>2. \A n \in Nodes : taken[n] = <<>> /\ queue[n] = <<>>
  BY DEF Init
<1>3. \A n \in Nodes : Reached(n) = <<>>
  <2>1. <<>> \o <<>> = <<>>
    BY ConcatEmptySeq, EmptySeq
  <2> QED BY <1>2, <2>1 DEF Reached
<1>4. \A n \in Nodes : Heard(n) = {} /\ 1 .. Len(Reached(n)) = {}
  <2>1. Len(<<>>) = 0 /\ 1 .. 0 = {}
    OBVIOUS
  <2> QED BY <1>3, <2>1 DEF Heard
<1>5. LockInv
  BY NoneForm, ThreadForm DEF Init, LockInv
<1>6. NodeInv
  BY <1>3 DEF Init, NodeInv, Connected
<1>7. MsgInv
  BY ThreadForm DEF Init, MsgInv
<1>8. HeardInv /\ UsedInv /\ OwedInv /\ NothingLost
  BY <1>4 DEF Init, HeardInv, UsedInv, Used, OwedInv, NothingLost
<1>9. OrderInv
  <2> DEFINE f == [m \in Msg |-> 0]
  <2>1. f \in [Msg -> Nat]
    OBVIOUS
  <2>2. lock = Free
    BY DEF Init
  <2> HIDE DEF f
  <2>3. Numbering(f, 0)
    BY <1>4, <2>2, NoneForm DEF Numbering
  <2> QED BY <2>1, <2>3 DEF OrderInv
<1> QED BY <1>1, <1>5, <1>6, <1>7, <1>8, <1>9 DEF NetInv

(* The invariant holds of the network. *)
LEMMA NetInvariant == Spec => []NetInv
<1>1. NetInv /\ [Next]_vars => NetInv'
  <2> SUFFICES ASSUME NetInv, [Next]_vars PROVE NetInv'
    OBVIOUS
  <2>1. TypeOK' /\ LockInv'
    BY TypeStep, LockStep DEF NetInv
  <2> QED BY <2>1, NodeStep, MsgStep, HeardStep, UsedStep, OwedStep, OrderStep DEF NetInv
<1> QED BY NetInit, <1>1, PTL DEF Spec
-----------------------------------------------------------------------------
(* A set of natural numbers that is not empty has a least element. *)
LEMMA LeastNumber ==
  ASSUME NEW S \in SUBSET Nat, S # {}
  PROVE  \E x \in S : \A y \in S : x <= y
<1> DEFINE R == OpToRel(<, Nat)
<1>1. IsWellFoundedOn(R, Nat)
  BY NatLessThanWellFounded
<1>2. \A x, y \in Nat : y < x => <<y, x>> \in R
  BY DEF OpToRel
<1> HIDE DEF R
<1>3. PICK x \in S : \A y \in S : ~(<<y, x>> \in R)
  BY <1>1, WFMin
<1>4. ASSUME NEW y \in S PROVE x <= y
  <2>1. x \in Nat /\ y \in Nat
    OBVIOUS
  <2>2. ~(y < x)
    BY <1>2, <1>3, <2>1
  <2> QED BY <2>1, <2>2
<1> QED BY <1>4

(* The network's state is well typed. *)
THEOREM TypeCorrect == Spec => []TypeOK
<1>1. NetInv => TypeOK
  BY DEF NetInv
<1> QED BY NetInvariant, <1>1, PTL

(* Nothing that send_data was to bring to a connected node is lost between *)
(* nodes that stay, however many join, disconnect or end meanwhile.        *)
THEOREM NothingIsLost == Spec => []NothingLost
<1>1. NetInv => NothingLost
  BY DEF NetInv
<1> QED BY NetInvariant, <1>1, PTL

(* Whatever has been heard was heard in one order: of any messages there   *)
(* is a first, the one sent first under the lock.                          *)
THEOREM OneOrder == Spec => []SameOrder
<1>1. NetInv => SameOrder
  <2> SUFFICES ASSUME NetInv PROVE SameOrder
    OBVIOUS
  <2>0. \A n \in Nodes : Heard(n) \subseteq Msg
    BY ReachedForm DEF NetInv
  <2>1. PICK f \in [Msg -> Nat], top \in Nat : Numbering(f, top)
    BY DEF NetInv, OrderInv
  <2> DEFINE before == UNION {InOrder(Reached(n)) : n \in Nodes}
             heard == UNION {Heard(n) : n \in Nodes}
  <2>2. ASSUME NEW S \in SUBSET heard, S # {}
        PROVE  \E y \in S : \A x \in S : <<x, y>> \notin before
    <3>1. S \subseteq Msg /\ S # {}
      BY <2>0, <2>2
    <3> DEFINE F == {f[x] : x \in S}
    <3>2. F \in SUBSET Nat /\ F # {}
      BY <3>1
    <3>3. PICK z \in F : \A w \in F : z <= w
      BY <3>2, LeastNumber
    <3>4. PICK y \in S : z = f[y]
      BY <3>3
    <3>5. ASSUME NEW x \in S, <<x, y>> \in before PROVE FALSE
      <4>0. PICK n \in Nodes : <<x, y>> \in InOrder(Reached(n))
        BY <3>5
      <4>3. PICK q \in (DOMAIN Reached(n)) \X (DOMAIN Reached(n)) :
               q[1] < q[2] /\ <<x, y>> = <<Reached(n)[q[1]], Reached(n)[q[2]]>>
        BY <4>0 DEF InOrder
      <4>4. DOMAIN Reached(n) = 1 .. Len(Reached(n))
        BY ReachedForm DEF NetInv
      <4>5. /\ q[1] \in 1 .. Len(Reached(n)) /\ q[2] \in 1 .. Len(Reached(n))
            /\ q[1] < q[2] /\ x = Reached(n)[q[1]] /\ y = Reached(n)[q[2]]
        BY <4>3, <4>4
      <4>1. f[x] < f[y]
        BY <2>1, <4>5 DEF Numbering
      <4>2. f[y] <= f[x] /\ f[x] \in Nat /\ f[y] \in Nat
        BY <3>1, <3>3, <3>4
      <4> QED BY <4>1, <4>2
    <3> QED BY <3>5
  <2> QED BY <2>2 DEF SameOrder, Heard
<1> QED BY NetInvariant, <1>1, PTL

(* A node that gets a request and an answer to it gets the request first,  *)
(* although two processes have sent them.                                  *)
THEOREM RequestComesFirst == Spec => []RequestBeforeReply
<1>1. NetInv => RequestBeforeReply
  <2> SUFFICES ASSUME NetInv, NEW n \in Nodes,
                      NEW i \in 1 .. Len(Reached(n)), NEW j \in 1 .. Len(Reached(n)),
                      IsRequest(Reached(n)[j]), Reached(n)[i].of = Reached(n)[j].of,
                      Reached(n)[i].no = Reached(n)[j].no, ~IsRequest(Reached(n)[i])
               PROVE  j < i
    BY DEF RequestBeforeReply
  <2> DEFINE r == Reached(n)[i]
             m == Reached(n)[j]
  <2>1. r \in Heard(n) /\ m \in Heard(n) /\ r \in Msg /\ m \in Msg
          /\ Len(Reached(n)) \in Nat
    BY ReachedForm DEF NetInv, Heard
  <2>2. RequestOf(r) = m
    <3>1. RequestOf(m) = m /\ RequestOf(r) = RequestOf(m)
      BY <2>1, MsgForm DEF RequestOf
    <3> QED BY <3>1
  <2>3. PICK f \in [Msg -> Nat], top \in Nat : Numbering(f, top)
    BY DEF NetInv, OrderInv
  <2>4. f[m] < f[r] /\ f[m] \in Nat /\ f[r] \in Nat
    BY <2>1, <2>2, <2>3 DEF Numbering
  <2>5. ASSUME i < j PROVE FALSE
    <3>1. f[r] < f[m]
      BY <2>3, <2>5 DEF Numbering
    <3> QED BY <2>4, <3>1
  <2>6. i # j
    BY <2>4
  <2> QED BY <2>1, <2>5, <2>6
<1> QED BY NetInvariant, <1>1, PTL

\* A node hears no message a second time, and none of its own.
HeardOnce ==
  \A n \in Nodes :
    /\ \A i, j \in 1 .. Len(Reached(n)) : Reached(n)[i] = Reached(n)[j] => i = j
    /\ \A i \in 1 .. Len(Reached(n)) : Reached(n)[i].by # n

(* What is broadcast reaches no node twice and never its sender, although  *)
(* the directory changes while send_data goes through it and a lock or a   *)
(* sendto that fails is passed over.                                       *)
THEOREM ReachedOnce == Spec => []HeardOnce
<1>1. NetInv => HeardOnce
  <2> SUFFICES ASSUME NetInv, NEW n \in Nodes
               PROVE  /\ \A i, j \in 1 .. Len(Reached(n)) : Reached(n)[i] = Reached(n)[j] => i = j
                      /\ \A i \in 1 .. Len(Reached(n)) : Reached(n)[i].by # n
    BY DEF HeardOnce
  <2>1. Heard(n) \subseteq Msg /\ Len(Reached(n)) \in Nat
    BY ReachedForm DEF NetInv
  <2>2. PICK f \in [Msg -> Nat], top \in Nat : Numbering(f, top)
    BY DEF NetInv, OrderInv
  <2>3. ASSUME NEW i \in 1 .. Len(Reached(n)), NEW j \in 1 .. Len(Reached(n)),
               Reached(n)[i] = Reached(n)[j]
        PROVE  i = j
    <3> DEFINE m == Reached(n)[i]
    <3>1. m \in Msg
      BY <2>1 DEF Heard
    <3>2. f[m] \in Nat
      BY <3>1
    <3>3. ~(i < j) /\ ~(j < i)
      <4>1. \A k, l \in 1 .. Len(Reached(n)) : k < l => f[Reached(n)[k]] < f[Reached(n)[l]]
        BY <2>2 DEF Numbering
      <4>2. i < j => f[m] < f[m]
        BY <2>3, <4>1
      <4>3. j < i => f[m] < f[m]
        BY <2>3, <4>1
      <4> HIDE DEF m
      <4> QED BY <3>2, <4>2, <4>3
    <3> QED BY <2>1, <3>3
  <2>4. ASSUME NEW i \in 1 .. Len(Reached(n)) PROVE Reached(n)[i].by # n
    BY DEF NetInv, HeardInv, Heard
  <2> QED BY <2>3, <2>4
<1> QED BY NetInvariant, <1>1, PTL
=============================================================================
