----------------------------- MODULE VirtualNet -----------------------------
(***************************************************************************)
(* The virtual network of lib/linux/virtual_net.h and virtual_net.cpp:     *)
(* every process binds a datagram socket to a file in one directory, and   *)
(* send_data, under an exclusive flock of a lock file there, sends to      *)
(* every socket file in the directory but its own.  A receiving thread     *)
(* hands what arrives to recv_access.                                      *)
(*                                                                         *)
(* A node is a process.  Its main thread sends requests; a node of         *)
(* Answering sends a reply to a request from its receiving thread, before  *)
(* handle_recv returns, as the servers of netcat_local_ptp and dns_server  *)
(* do.  The sockets are blocking: sendto waits while the queue of a live   *)
(* receiver is full, and fails at a file whose process is gone.            *)
(***************************************************************************)
EXTENDS Integers, Sequences

CONSTANTS
  Nodes,
  Asking,       \* nodes whose main thread sends requests
  Answering,    \* nodes that answer requests in their receiving thread
  Free,         \* no thread holds the lock
  NoMsg,
  QLen,         \* what the socket queue of a receiver holds (external)
  MaxRequests,  \* bound: requests sent by a node
  MayEnd,       \* whether processes end or disconnect
  LockMayFail   \* whether lock_file may return no descriptor

Threads == Nodes \X {"main", "recv"}
Node(t) == t[1]

\* by: the sender; of, no: whose request it is or answers, and its number.
Msg == [by : Nodes, of : Nodes, no : 1 .. MaxRequests]
Request(n, k) == [by |-> n, of |-> n, no |-> k]
Reply(n, m) == [m EXCEPT !.by = n]
IsRequest(m) == m.by = m.of

ASSUME VirtualNetAssumption ==
  /\ Asking \subseteq Nodes /\ Answering \subseteq Nodes
  /\ Free \notin Threads /\ NoMsg \notin Msg
  /\ QLen \in Nat \ {0} /\ MaxRequests \in Nat
  /\ MayEnd \in BOOLEAN /\ LockMayFail \in BOOLEAN

VARIABLES
  status,     \* "off", "connected", "disconnected" or "ended", of each node
  files,      \* the nodes whose socket file is in the directory
  listening,  \* the nodes whose recv_access is set
  queue,      \* the datagrams waiting in the socket of each node
  taken,      \* the datagrams each receiving thread has taken out
  lock,       \* the thread that holds the flock
  pc, msg,    \* where each thread is, and the message it sends
  todo,       \* the entries each thread's directory_iterator has still to yield
  requests,   \* the number of requests each node has sent
  owed        \* <<m, d>>: d was connected when the sending of m began, and
              \* neither sender nor d has gone since

vars == <<status, files, listening, queue, taken, lock, pc, msg, todo,
          requests, owed>>

TypeOK ==
  /\ status \in [Nodes -> {"off", "connected", "disconnected", "ended"}]
  /\ files \subseteq Nodes /\ listening \subseteq Nodes
  /\ queue \in [Nodes -> Seq(Msg)] /\ taken \in [Nodes -> Seq(Msg)]
  /\ \A n \in Nodes : Len(queue[n]) <= QLen
  /\ lock \in Threads \cup {Free}
  /\ pc \in [Threads -> {"idle", "locking", "sending"}]
  /\ msg \in [Threads -> Msg \cup {NoMsg}]
  /\ todo \in [Threads -> SUBSET Nodes]
  /\ requests \in [Nodes -> 0 .. MaxRequests]
  /\ owed \subseteq Msg \X Nodes

Init ==
  /\ status = [n \in Nodes |-> "off"]
  /\ files = {} /\ listening = {} /\ owed = {}
  /\ queue = [n \in Nodes |-> <<>>] /\ taken = [n \in Nodes |-> <<>>]
  /\ lock = Free
  /\ pc = [t \in Threads |-> "idle"] /\ msg = [t \in Threads |-> NoMsg]
  /\ todo = [t \in Threads |-> {}]
  /\ requests = [n \in Nodes |-> 0]

Connected(n) == status[n] = "connected"
Running(n) == status[n] \in {"connected", "disconnected"}
-----------------------------------------------------------------------------
(* connect, impl_set_recv_access, disconnect, and the end of a process *)

\* A directory_iterator that is under way may or may not yield the new file.
connect(n) ==
  /\ status[n] = "off"
  /\ status' = [status EXCEPT ![n] = "connected"]
  /\ files' = files \cup {n}
  /\ \/ UNCHANGED todo
     \/ todo' = [t \in Threads |->
                   IF pc[t] = "sending" THEN todo[t] \cup {n} ELSE todo[t]]
  /\ UNCHANGED <<listening, queue, taken, lock, pc, msg, requests, owed>>

set_recv_access(n) ==
  /\ Running(n) /\ n \notin listening
  /\ listening' = listening \cup {n}
  /\ UNCHANGED <<status, files, queue, taken, lock, pc, msg, todo, requests, owed>>

\* What the connection of n still owed to the others, and they to it.
OwedWithout(n) ==
  {o \in owed : /\ o[2] # n
                /\ \A t \in Threads :
                     Node(t) = n => ~(o[1] = msg[t] /\ o[2] \in todo[t])}

\* The receiving thread is detached; the sockets and the file are gone.
disconnect(n) ==
  /\ MayEnd
  /\ Connected(n) /\ pc[<<n, "main">>] = "idle"
  /\ status' = [status EXCEPT ![n] = "disconnected"]
  /\ files' = files \ {n}
  /\ queue' = [queue EXCEPT ![n] = <<>>]
  /\ owed' = OwedWithout(n)
  /\ UNCHANGED <<listening, taken, lock, pc, msg, todo, requests>>

\* A signal ends the process: no destructor runs and the socket file stays;
\* the kernel drops the sockets and the flock.
end_process(n) ==
  /\ MayEnd
  /\ Running(n)
  /\ status' = [status EXCEPT ![n] = "ended"]
  /\ queue' = [queue EXCEPT ![n] = <<>>]
  /\ pc' = [t \in Threads |-> IF Node(t) = n THEN "idle" ELSE pc[t]]
  /\ msg' = [t \in Threads |-> IF Node(t) = n THEN NoMsg ELSE msg[t]]
  /\ todo' = [t \in Threads |-> IF Node(t) = n THEN {} ELSE todo[t]]
  /\ lock' = IF \E t \in Threads : lock = t /\ Node(t) = n THEN Free ELSE lock
  /\ owed' = OwedWithout(n)
  /\ UNCHANGED <<files, listening, taken, requests>>
-----------------------------------------------------------------------------
(* send_data *)

send_request(n) ==
  LET t == <<n, "main">> IN
  /\ n \in Asking /\ Connected(n) /\ pc[t] = "idle"
  /\ requests[n] < MaxRequests
  /\ requests' = [requests EXCEPT ![n] = @ + 1]
  /\ pc' = [pc EXCEPT ![t] = "locking"]
  /\ msg' = [msg EXCEPT ![t] = Request(n, requests[n] + 1)]
  /\ UNCHANGED <<status, files, listening, queue, taken, lock, todo, owed>>

\* What send_data is to bring to the connected nodes.
Owing(t) ==
  IF Connected(Node(t))
  THEN {msg[t]} \X {d \in Nodes \ {Node(t)} : Connected(d)}
  ELSE {}

\* Mutant: the lock file is opened and not locked.
lock_file_open(t) ==
  /\ pc[t] = "locking"
  /\ lock' = t
  /\ todo' = [todo EXCEPT ![t] = files \ {Node(t)}]
  /\ owed' = owed \cup Owing(t)
  /\ pc' = [pc EXCEPT ![t] = "sending"]
  /\ UNCHANGED <<status, files, listening, queue, taken, msg, requests>>

\* flock(LOCK_EX), then the directory_iterator is opened.
lock_file(t) ==
  /\ pc[t] = "locking" /\ lock = Free
  /\ lock' = t
  /\ todo' = [todo EXCEPT ![t] = files \ {Node(t)}]
  /\ owed' = owed \cup Owing(t)
  /\ pc' = [pc EXCEPT ![t] = "sending"]
  /\ UNCHANGED <<status, files, listening, queue, taken, msg, requests>>

\* open or flock fails: send_data returns ERR, which nobody looks at.
lock_file_fails(t) ==
  /\ LockMayFail
  /\ pc[t] = "locking"
  /\ pc' = [pc EXCEPT ![t] = "idle"]
  /\ msg' = [msg EXCEPT ![t] = NoMsg]
  /\ UNCHANGED <<status, files, listening, queue, taken, lock, todo, requests, owed>>

\* Mutant: an entry whose process is gone ends the loop.
sendto_breaks(t, d) ==
  /\ pc[t] = "sending" /\ d \in todo[t]
  /\ IF Connected(d) /\ Connected(Node(t))
     THEN /\ Len(queue[d]) < QLen
          /\ queue' = [queue EXCEPT ![d] = Append(@, msg[t])]
          /\ todo' = [todo EXCEPT ![t] = @ \ {d}]
     ELSE /\ todo' = [todo EXCEPT ![t] = {}]
          /\ UNCHANGED queue
  /\ UNCHANGED <<status, files, listening, taken, lock, pc, msg, requests, owed>>

\* sendto one entry; errors (the entry's process is gone, or the descriptor
\* of the sender is closed) are skipped.
sendto(t, d) ==
  /\ pc[t] = "sending" /\ d \in todo[t]
  /\ IF Connected(d) /\ Connected(Node(t))
     THEN /\ Len(queue[d]) < QLen
          /\ queue' = [queue EXCEPT ![d] = Append(@, msg[t])]
     ELSE UNCHANGED queue
  /\ todo' = [todo EXCEPT ![t] = @ \ {d}]
  /\ UNCHANGED <<status, files, listening, taken, lock, pc, msg, requests, owed>>

\* Mutant: send_data returns without unlocking.
unlock_file_forgotten(t) ==
  /\ pc[t] = "sending" /\ todo[t] = {}
  /\ pc' = [pc EXCEPT ![t] = "idle"]
  /\ msg' = [msg EXCEPT ![t] = NoMsg]
  /\ UNCHANGED <<status, files, listening, queue, taken, lock, todo, requests, owed>>

unlock_file(t) ==
  /\ pc[t] = "sending" /\ todo[t] = {}
  /\ lock' = Free
  /\ pc' = [pc EXCEPT ![t] = "idle"]
  /\ msg' = [msg EXCEPT ![t] = NoMsg]
  /\ UNCHANGED <<status, files, listening, queue, taken, todo, requests, owed>>
-----------------------------------------------------------------------------
(* The receiving thread: recv, then handle_recv if recv_access is set. *)

recv(n) ==
  LET t == <<n, "recv">>
      m == Head(queue[n])
  IN  /\ Connected(n) /\ pc[t] = "idle" /\ queue[n] # <<>>
      /\ queue' = [queue EXCEPT ![n] = Tail(@)]
      /\ taken' = [taken EXCEPT ![n] = Append(@, m)]
      /\ IF n \in listening \cap Answering /\ IsRequest(m)
         THEN /\ pc' = [pc EXCEPT ![t] = "locking"]
              /\ msg' = [msg EXCEPT ![t] = Reply(n, m)]
         ELSE UNCHANGED <<pc, msg>>
      /\ UNCHANGED <<status, files, listening, lock, todo, requests, owed>>

Next ==
  \/ \E n \in Nodes :
       \/ connect(n) \/ set_recv_access(n) \/ disconnect(n) \/ end_process(n)
       \/ send_request(n) \/ recv(n)
  \/ \E t \in Threads :
       \/ lock_file(t) \/ lock_file_fails(t) \/ unlock_file(t)
       \/ \E d \in Nodes : sendto(t, d)

Spec == Init /\ [][Next]_vars

\* As long as some thread can go on in send_data or in recv, some thread does
\* (the kernel grants a flock that is free).  What the nodes send is bounded,
\* so that no thread is passed over for ever.
FairSpec ==
  /\ Spec
  /\ WF_vars(\/ \E t \in Threads : \/ lock_file(t) \/ unlock_file(t)
                                   \/ \E d \in Nodes : sendto(t, d)
             \/ \E n \in Nodes : recv(n))
-----------------------------------------------------------------------------
\* What has reached node n, in order.
Reached(n) == taken[n] \o queue[n]
Pos(s, m) == {i \in 1 .. Len(s) : s[i] = m}

\* <<x, y>>: x stands before y in r.
InOrder(r) == {<<r[q[1]], r[q[2]]>> : q \in {p \in (DOMAIN r) \X (DOMAIN r) : p[1] < p[2]}}

(***************************************************************************)
(* One order of the messages explains what every node has heard: among any *)
(* of them there is one that no node heard after another of them.  The     *)
(* flock is held until a message is in every queue, whoever ends or joins  *)
(* in between.                                                             *)
(***************************************************************************)
SameOrder ==
  LET heard == UNION {{Reached(n)[i] : i \in 1 .. Len(Reached(n))} : n \in Nodes}
      before == UNION {InOrder(Reached(n)) : n \in Nodes}
  IN  \A S \in SUBSET heard :
        S # {} => \E y \in S : \A x \in S : <<x, y>> \notin before

(***************************************************************************)
(* A node that gets both a request and the answer to it gets the request   *)
(* first, although the answer comes from another sender.                   *)
(***************************************************************************)
RequestBeforeReply ==
  \A n \in Nodes : \A i, j \in 1 .. Len(Reached(n)) :
    LET r == Reached(n)[i]
        m == Reached(n)[j]
    IN  (IsRequest(m) /\ r.of = m.of /\ r.no = m.no /\ ~IsRequest(r)) => j < i

(***************************************************************************)
(* Nothing is lost between nodes that stay: what a send_data was to bring  *)
(* to a connected node is with it or still to be sent.                     *)
(***************************************************************************)
NothingLost ==
  \A o \in owed :
    \/ Pos(Reached(o[2]), o[1]) # {}
    \/ \E t \in Threads : msg[t] = o[1] /\ o[2] \in todo[t]

\* The holder of the lock waits for room at nodes whose receiving threads all
\* wait for the lock, to answer.
Blocked ==
  \E t \in Threads :
    /\ lock = t /\ pc[t] = "sending" /\ todo[t] # {} /\ Connected(Node(t))
    /\ \A d \in todo[t] : /\ Connected(d) /\ Len(queue[d]) = QLen
                          /\ pc[<<d, "recv">>] = "locking"

(***************************************************************************)
(* send_data returns, in whatever thread it is called, or it is caught in  *)
(* the one circle of waiting there is: time and again no thread is in it,  *)
(* or its holder of the lock has nobody left to send to but nodes with     *)
(* full queues that wait for the lock themselves.  Nothing else, a lock    *)
(* left behind by a process that ended, a failing lock or the file of a    *)
(* node that is gone, keeps a sender for ever.                             *)
(***************************************************************************)
ReturnsOrBlocked == []<>((\A t \in Threads : pc[t] = "idle") \/ Blocked)

(***************************************************************************)
(* virtual_net.h: "send to all other nodes in the network".  What send_data*)
(* begins to send reaches every connected node.  Does not hold: the holder *)
(* of the lock waits for room in the queue of a node whose receiving thread*)
(* waits for the lock, to send an answer.                                  *)
(***************************************************************************)
SentToAll ==
  \A m \in Msg, d \in Nodes :
    (<<m, d>> \in owed) ~> (Pos(Reached(d), m) # {} \/ <<m, d>> \notin owed)
=============================================================================
