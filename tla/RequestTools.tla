---------------------------- MODULE RequestTools ----------------------------
(***************************************************************************)
(* The tools that send requests and poll for replies: arp_tool (a search   *)
(* for one address, a scan of a subnet), ping_tool and dns_tool.  Each     *)
(* connects a recv_queue: the receiving thread pushes into its             *)
(* circular_queue while the main thread polls, pops and clears it, without *)
(* a lock.  A step below is one access to the queue's shared members.      *)
(* Requests and replies may be lost, delayed and duplicated.               *)
(*                                                                         *)
(* A reply has a key, what the tool compares (the sender's ip4 address or  *)
(* the message's id), and a val, what it is after (a mac address, the      *)
(* message's type).                                                        *)
(***************************************************************************)
EXTENDS Integers, Sequences, FiniteSets

CONSTANTS
  Tools,     \* the tools checked
  Size,      \* BUFF_SZ
  Rounds,    \* bound: echos ping sends (its option cnt)
  Subnet,    \* the addresses a scan asks for, in order
  Skip,      \* skip_addrs
  Mac,       \* the mac address of each address of Subnet
  Foreign    \* <<key, val>> of what arrives unasked, for each tool

ASSUME ToolsAssumption ==
  /\ Tools \subseteq {"search", "scan", "ping", "dns"}
  /\ Size \in Nat \ {0} /\ Rounds \in Nat \ {0}
  /\ Subnet \in Seq(STRING) /\ DOMAIN Mac = {Subnet[i] : i \in 1 .. Len(Subnet)}
  /\ \A t \in Tools : \A f \in Foreign[t] : f = <<f[1], f[2]>>

VARIABLES
  tool,      \* the tool that runs
  net,       \* the replies under way
  buff, base_in, count,   \* the circular_queue
  push,      \* the receiving thread inside push_back: where, what, a register
  pc, reply, reply_ip, tmp, \* the main thread: where, its pointer, locals
  round,     \* ping's loop counter; the next address of a scan
  res,       \* what the tool has found: <<key, val>>
  \* history
  received,  \* the replies handed to handle_recv
  stored,    \* the slots pushed into and neither popped nor cleared since
  raced,     \* a push overlapped a pop or a clear
  filled     \* a push found at most one slot free

shared == <<buff, base_in, count, push>>
main == <<pc, reply, reply_ip, tmp, round, res>>
history == <<received, stored, raced, filled>>
vars == <<tool, net, shared, main, history>>
-----------------------------------------------------------------------------
\* A slot nothing was pushed into holds a default-constructed value.
Default == [key |-> "none", val |-> "none", at |-> 0]
Idle == [pc |-> "idle", val |-> Default, tmp |-> 0]

\* What answers request r.  (No tool compares an answer with the request any
\* further: ping's sequence numbers, dns's question.)
Answer(r) == IF tool = "scan" THEN <<Subnet[r], Mac[Subnet[r]]>> ELSE <<"ours", "val">>

\* arp_tool::announce_new_pair broadcasts a reply nobody asked for.
announce_new_pair(ip, mac) == <<ip, mac>>

Unasked == {IF tool \in {"search", "scan"} THEN announce_new_pair(f[1], f[2]) ELSE f :
              f \in Foreign[tool]}

Replies ==
  Unasked \cup (IF tool = "scan" THEN {Answer(r) : r \in 1 .. Len(Subnet)} ELSE {Answer(1)})

\* What a slot of the queue holds; at is the round of ping it arrived in.
Entry == {Default} \cup {[key |-> m[1], val |-> m[2], at |-> k] :
                           m \in Replies, k \in 0 .. Rounds}

TypeOK ==
  /\ tool \in Tools /\ net \subseteq Replies /\ received \subseteq Replies
  /\ buff \in [0 .. Size - 1 -> Entry]
  /\ base_in \in 0 .. Size - 1 /\ count \in 0 .. Size
  /\ push \in [pc : {"idle", "write", "load", "store"}, val : Entry, tmp : 0 .. Size]
  /\ pc \in {"send", "front", "pop", "pop_load", "pop_store", "read", "read_mac", "clear",
             "done", "crashed"}
  /\ reply \in 0 .. Size - 1 /\ tmp \in 0 .. Size
  /\ round \in 1 .. 1 + Len(Subnet) + Rounds
  /\ stored \subseteq 0 .. Size - 1 /\ raced \in BOOLEAN /\ filled \in BOOLEAN

Init ==
  /\ tool \in Tools /\ net = Unasked
  /\ buff = [i \in 0 .. Size - 1 |-> Default] /\ base_in = 0 /\ count = 0 /\ push = Idle
  /\ pc = (IF tool = "ping" THEN "clear" ELSE "send")
  /\ reply = 0 /\ reply_ip = "none" /\ tmp = 0 /\ round = 1 /\ res = {}
  /\ received = {} /\ stored = {} /\ raced = FALSE /\ filled = FALSE

Pushing == push.pc # "idle"
At == IF tool = "ping" THEN round ELSE 0
Popping == pc \in {"pop_load", "pop_store"}
-----------------------------------------------------------------------------
(* The receiving thread: recv_queue::handle_recv, circular_queue::push_back *)

\* Mutant: a full queue is pushed into.
handle_recv_full(m, dup) ==
  /\ pc \notin {"done", "crashed"} /\ ~Pushing
  /\ m \in net /\ (dup => m \notin Unasked \cup received)
  /\ net' = IF dup THEN net ELSE net \ {m}
  /\ received' = received \cup {m}
  /\ push' = [pc |-> "write", val |-> [key |-> m[1], val |-> m[2], at |-> At], tmp |-> 0]
  /\ filled' = (filled \/ count >= Size - 1)
  /\ raced' = (raced \/ Popping)
  /\ UNCHANGED <<tool, buff, base_in, count, main, stored>>

\* The filter passes a reply; a full queue drops it.  The tool's end ends the
\* process.  Bound: an answer is duplicated once, what arrives unasked never.
handle_recv(m, dup) ==
  /\ pc \notin {"done", "crashed"} /\ ~Pushing
  /\ m \in net /\ (dup => m \notin Unasked \cup received)
  /\ net' = IF dup THEN net ELSE net \ {m}
  /\ received' = received \cup {m}
  /\ push' = IF count = Size THEN push
             ELSE [pc |-> "write", val |-> [key |-> m[1], val |-> m[2], at |-> At], tmp |-> 0]
  /\ filled' = (filled \/ count >= Size - 1)
  /\ raced' = (raced \/ Popping)
  /\ UNCHANGED <<tool, buff, base_in, count, main, stored>>

push_write ==
  LET i == (base_in + count) % Size
  IN  /\ push.pc = "write"
      /\ buff' = [buff EXCEPT ![i] = push.val]
      /\ stored' = stored \cup {i}
      /\ push' = [push EXCEPT !.pc = "load"]
      /\ UNCHANGED <<tool, net, base_in, count, main, received, raced, filled>>

push_load ==
  /\ push.pc = "load"
  /\ push' = [push EXCEPT !.pc = "store", !.tmp = count]
  /\ UNCHANGED <<tool, net, buff, base_in, count, main, history>>

push_store ==
  /\ push.pc = "store"
  /\ count' = push.tmp + 1
  /\ push' = Idle
  /\ UNCHANGED <<tool, net, buff, base_in, main, history>>
-----------------------------------------------------------------------------
(* The main thread *)

\* A request; its answer may come or not.  The scan asks for one address after
\* the other, and then waits and looks at what came.
send(answered) ==
  LET asks == tool # "scan" \/ (round <= Len(Subnet) /\ Subnet[round] \notin Skip)
  IN  /\ pc = "send"
      /\ net' = IF answered /\ asks THEN net \cup {Answer(round)} ELSE net
      /\ IF tool = "scan" /\ round <= Len(Subnet)
         THEN round' = round + 1 /\ pc' = pc
         ELSE round' = round /\ pc' = "front"
      /\ UNCHANGED <<tool, shared, reply, reply_ip, tmp, res, history>>

\* Mutant: the tool waits on instead of sending again.
front_waits ==
  /\ pc = "front" /\ count = 0
  /\ pc' = IF tool = "scan" THEN "done" ELSE pc
  /\ UNCHANGED <<tool, net, shared, reply, reply_ip, tmp, round, res, history>>

\* Nothing came in time: the request is sent again; a scan is over.
front_timeout ==
  /\ pc = "front" /\ count = 0
  /\ pc' = IF tool = "scan" THEN "done" ELSE "send"
  /\ UNCHANGED <<tool, net, shared, reply, reply_ip, tmp, round, res, history>>

front ==
  /\ pc = "front" /\ count # 0
  /\ reply' = base_in /\ pc' = "pop"
  /\ UNCHANGED <<tool, net, shared, reply_ip, tmp, round, res, history>>

pop_front ==
  /\ pc = "pop" /\ count # 0
  /\ base_in' = (base_in + 1) % Size /\ pc' = "pop_load"
  /\ stored' = stored \ {base_in} /\ raced' = (raced \/ Pushing)
  /\ UNCHANGED <<tool, net, buff, count, push, reply, reply_ip, tmp, round, res, received,
                 filled>>

pop_load ==
  /\ pc = "pop_load"
  /\ tmp' = count /\ pc' = "pop_store"
  /\ UNCHANGED <<tool, net, shared, reply, reply_ip, round, res, history>>

pop_store ==
  /\ pc = "pop_store"
  /\ count' = tmp - 1 /\ tmp' = 0 /\ pc' = "read"
  /\ UNCHANGED <<tool, net, buff, base_in, push, reply, reply_ip, round, res, history>>

\* Mutant: a reply from another address ends the search.
read_ip_unchecked ==
  /\ pc = "read" /\ tool \in {"search", "scan"}
  /\ reply_ip' = buff[reply].key
  /\ pc' = IF reply_ip' = "none" THEN "crashed" ELSE "read_mac"
  /\ UNCHANGED <<tool, net, shared, reply, tmp, round, res, history>>

\* Mutant: the scan asks whether anything was found already.
read_ip_first ==
  /\ pc = "read" /\ tool \in {"search", "scan"}
  /\ reply_ip' = buff[reply].key
  /\ pc' = CASE reply_ip' = "none" -> "crashed"
             [] tool = "search" -> IF reply_ip' = "ours" THEN "read_mac" ELSE "send"
             [] OTHER -> IF reply_ip' \in DOMAIN Mac /\ res = {} THEN "read_mac" ELSE "front"
  /\ UNCHANGED <<tool, net, shared, reply, tmp, round, res, history>>

\* An arp reply's ip address, which the search compares, and the scan with its
\* subnet and with what it has.  An arp_header nothing was stored in has no
\* bytes: the address is read from a null pointer.
read_ip ==
  /\ pc = "read" /\ tool \in {"search", "scan"}
  /\ reply_ip' = buff[reply].key
  /\ pc' = CASE reply_ip' = "none" -> "crashed"
             [] tool = "search" -> IF reply_ip' = "ours" THEN "read_mac" ELSE "send"
             [] OTHER -> IF reply_ip' \in DOMAIN Mac /\ reply_ip' \notin {r[1] : r \in res}
                         THEN "read_mac" ELSE "front"
  /\ UNCHANGED <<tool, net, shared, reply, tmp, round, res, history>>

\* Its mac address, through the same pointer.
read_mac ==
  /\ pc = "read_mac"
  /\ res' = res \cup {<<reply_ip, buff[reply].val>>}
  /\ pc' = IF tool = "search" THEN "clear" ELSE "front"
  /\ UNCHANGED <<tool, net, shared, reply, reply_ip, tmp, round, history>>

\* An icmp or dns reply is copied.  With another id the next one is awaited; an
\* icmp message of another type makes ping send again, an echo reply ends its
\* round, whichever echo it answers.
read_id ==
  LET r == buff[reply]
  IN  /\ pc = "read" /\ tool \in {"ping", "dns"}
      /\ IF r.key # "ours" THEN pc' = "front" /\ UNCHANGED <<res, round>>
         ELSE IF tool = "ping" /\ r.val = "other_type" THEN pc' = "send" /\ UNCHANGED <<res, round>>
         ELSE /\ res' = res \cup {<<r.key, r.val>>}
              /\ IF tool = "ping" /\ round < Rounds
                 THEN round' = round + 1 /\ pc' = "clear"
                 ELSE round' = round /\ pc' = "done"
      /\ UNCHANGED <<tool, net, shared, reply, reply_ip, tmp, history>>

\* Mutant: ping does not clear the queue.
clear_not ==
  /\ pc = "clear"
  /\ pc' = IF tool = "ping" THEN "send" ELSE "done"
  /\ UNCHANGED <<tool, net, shared, reply, reply_ip, tmp, round, res, history>>

\* ping: at the start of a round; search: before it returns.
clear ==
  /\ pc = "clear"
  /\ count' = 0 /\ stored' = {} /\ raced' = (raced \/ Pushing)
  /\ pc' = IF tool = "ping" THEN "send" ELSE "done"
  /\ UNCHANGED <<tool, net, buff, base_in, push, reply, reply_ip, tmp, round, res,
                 received, filled>>

Receiver ==
  \/ \E m \in Replies, dup \in BOOLEAN : handle_recv(m, dup)
  \/ push_write \/ push_load \/ push_store

Main ==
  \/ \E answered \in BOOLEAN : send(answered)
  \/ front_timeout \/ front \/ pop_front \/ pop_load \/ pop_store
  \/ read_ip \/ read_mac \/ read_id \/ clear

Next == Receiver \/ Main

Spec == Init /\ [][Next]_vars

\* Both threads run, and the network is fair: a request sent again and again
\* is answered, and what is answered again and again arrives.
FairSpec ==
  /\ Spec
  /\ WF_vars(Main) /\ SF_vars(send(TRUE))
  /\ WF_vars(push_write \/ push_load \/ push_store)
  /\ SF_vars(tool # "scan" /\ handle_recv(Answer(1), FALSE))
-----------------------------------------------------------------------------
(***************************************************************************)
(* Every pair a tool reports arrived in one reply, and the reply is one it *)
(* may accept: although the arp tools go on reading a slot they have       *)
(* popped, while replies are pushed.  Only when the queue has filled up    *)
(* may the slot be another reply's by then.                                *)
(***************************************************************************)
ResultWasReceived ==
  ~filled => \A r \in res : r \in received /\ (tool # "scan" => r[1] = "ours")

(***************************************************************************)
(* As long as no push overlaps a pop or a clear, the queue holds what was  *)
(* pushed and not yet popped, one reply in each of its slots (so a reply   *)
(* that comes when it is full changes nothing), and front points to one of *)
(* these.                                                                  *)
(***************************************************************************)
QueueKept ==
  ~raced => /\ pc = "pop" => reply \in stored
            /\ ~Pushing /\ ~Popping
                 => /\ stored = {(base_in + i) % Size : i \in 0 .. count - 1}
                    /\ count = Cardinality(stored)

(***************************************************************************)
(* Then, too, a tool that finds the queue empty has looked at every reply  *)
(* that came: a scan has an entry for every address of the subnet that     *)
(* answered, a search or a query still running has not had its answer.     *)
(***************************************************************************)
NothingOverlooked ==
  (pc = "front" /\ count = 0 /\ ~Pushing /\ ~raced /\ ~filled)
    => \A m \in received :
         IF tool = "scan" THEN m[1] \in DOMAIN Mac => m[1] \in {r[1] : r \in res}
         ELSE tool # "ping" => m[1] # "ours"

(***************************************************************************)
(* Then, too, ping ends a round with a message that arrived in that round: *)
(* the clear at its start drops what came earlier.  (It may still answer   *)
(* an earlier echo: the sequence is not compared.)                         *)
(***************************************************************************)
FreshReply ==
  (tool = "ping" /\ pc = "read" /\ buff[reply].key = "ours" /\ ~raced)
    => buff[reply].at = round

(***************************************************************************)
(* A tool ends: with a result, or by reading a slot nothing was stored in. *)
(***************************************************************************)
ToolFinishes == <>(pc \in {"done", "crashed"})

(***************************************************************************)
(* recv_queue.h: "receives buff and stores it in a queue"; so what front   *)
(* points to was stored, and not yet popped.  Does not hold: a push        *)
(* between the two assignments of pop_front writes one slot too far.       *)
(***************************************************************************)
FrontWasStored == pc = "pop" => reply \in stored
=============================================================================
