------------------------- MODULE RequestToolsProofs -------------------------
(***************************************************************************)
(* The tools that poll a recv_queue, for every BUFF_SZ, every subnet,      *)
(* every number of rounds and whatever arrives unasked: what the queue     *)
(* shared without a lock still guarantees.                                 *)
(***************************************************************************)
EXTENDS RequestTools, FiniteSetTheorems, TLAPS

\* The slot i places after slot b, and the c slots from slot b on.
Slot(b, i) == (b + i) % Size
SlotsFrom(b, c) == {Slot(b, i) : i \in 0 .. c - 1}

Pair(e) == <<e.key, e.val>>

(* The inductive invariant *)

\* The registers of count++ and count--: whatever overlaps, the value stored
\* by the one thread is never below, that of the other never above, count.
RegisterInv ==
  /\ push.pc \in {"write", "load"} =>
       count < Size /\ (~filled => count < Size - 1)
  /\ push.pc = "store" => push.tmp < Size /\ count <= push.tmp
  /\ pc \in {"pop", "pop_load"} => count > 0
  /\ pc = "pop_store" => tmp > 0 /\ tmp <= count

\* The tool reads the slot before the one base_in has moved on to.
ReadInv ==
  /\ pc = "pop" => reply = base_in
  /\ pc \in {"pop_load", "pop_store", "read", "read_mac"} => Slot(reply, 1) = base_in
  /\ pc = "read_mac" => /\ tool \in {"search", "scan"} /\ reply_ip # "none"
                        /\ tool = "search" => reply_ip = "ours"
                        /\ ~filled => buff[reply].key = reply_ip

RoundInv ==
  /\ tool = "scan" => round <= Len(Subnet) + 1
  /\ tool # "scan" => round <= Rounds
  /\ pc = "clear" => tool \in {"search", "ping"}

\* What is in the queue, or about to be, was received.
ReceivedInv ==
  /\ \A i \in 0 .. Size - 1 : buff[i] = Default \/ Pair(buff[i]) \in received
  /\ push.pc = "write" => Pair(push.val) \in received

\* The elements in the ring: a push counts from its write on, a pop from its
\* first assignment on.
InQueue ==
  count + (IF push.pc \in {"load", "store"} THEN 1 ELSE 0) - (IF Popping THEN 1 ELSE 0)

RingInv ==
  ~raced => /\ ~(Pushing /\ Popping)
            /\ push.pc = "store" => push.tmp = count
            /\ pc = "pop_store" => tmp = count
            /\ stored = SlotsFrom(base_in, InQueue)
            /\ IsFiniteSet(stored) /\ Cardinality(stored) = InQueue

\* Since ping's last clear only messages of its round were stored.
FreshInv ==
  (tool = "ping" /\ ~raced /\ pc # "clear") =>
    /\ \A i \in stored : buff[i].at = round
    /\ push.pc = "write" => push.val.at = round
    /\ pc \in {"pop_load", "pop_store", "read"} => buff[reply].at = round

\* The tool has looked at a reply like m, or is yet to.
Looked(m) ==
  IF tool = "scan" THEN m[1] \in DOMAIN Mac => m[1] \in {r[1] : r \in res}
  ELSE m[1] # "ours"

Waits(m) ==
  \/ \E i \in stored : Pair(buff[i]) = m
  \/ push.pc = "write" /\ Pair(push.val) = m
  \/ pc \in {"pop_load", "pop_store", "read"} /\ Pair(buff[reply]) = m
  \/ pc = "read_mac" /\ reply_ip = m[1]

LookInv ==
  (tool # "ping" /\ ~raced /\ ~filled /\ pc \notin {"clear", "done", "crashed"}) =>
    \A m \in received : Looked(m) \/ Waits(m)

ToolInv ==
  /\ TypeOK
  /\ RegisterInv
  /\ ReadInv
  /\ RoundInv
  /\ ReceivedInv
  /\ ResultWasReceived
  /\ RingInv
  /\ FreshInv
  /\ LookInv
-----------------------------------------------------------------------------
(* The ring *)

(* An index less than a turn past the end wraps around once. *)
LEMMA WrapOnce ==
  ASSUME NEW x \in Size .. 2 * Size - 1
  PROVE  x % Size = x - Size
  BY ToolsAssumption

(* A place of the ring in plain arithmetic. *)
LEMMA SlotValue ==
  ASSUME NEW b \in 0 .. Size - 1, NEW i \in 0 .. Size
  PROVE  /\ Slot(b, i) = IF b + i < Size THEN b + i ELSE b + i - Size
         /\ Slot(b, i) \in 0 .. Size - 1
<1> DEFINE x == b + i
<1>1. Size \in Nat \ {0} /\ b \in Nat /\ i \in Nat /\ b < Size /\ i <= Size
  BY ToolsAssumption
<1>2. CASE x < Size
  <2>1. x % Size = x
    BY <1>1, <1>2
  <2> QED BY <1>1, <1>2, <2>1 DEF Slot
<1>3. CASE x >= Size
  <2>1. x \in Size .. 2 * Size - 1
    BY <1>1, <1>3
  <2>2. x % Size = x - Size
    BY <2>1, WrapOnce
  <2> QED BY <1>1, <1>3, <2>1, <2>2 DEF Slot
<1> QED BY <1>1, <1>2, <1>3

(* Nothing else of the modulo arithmetic is used below: a place is a slot; *)
(* places less than a turn apart are two slots; counting from the slot     *)
(* after b is counting one further from b.                                 *)
LEMMA SlotFacts ==
  ASSUME NEW b \in 0 .. Size - 1
  PROVE  /\ \A i \in 0 .. Size : Slot(b, i) \in 0 .. Size - 1
         /\ Slot(b, 0) = b
         /\ \A i, j \in 0 .. Size - 1 : i # j => Slot(b, i) # Slot(b, j)
         /\ \A i \in 0 .. Size - 1 : Slot(Slot(b, 1), i) = Slot(b, i + 1)
<1>1. Size \in Nat /\ Size > 0 /\ b \in Nat /\ b < Size
  BY ToolsAssumption
<1>2. \A i \in 0 .. Size : Slot(b, i) \in 0 .. Size - 1
  BY SlotValue
<1>3. Slot(b, 0) = b
  <2>1. 0 \in 0 .. Size
    BY <1>1
  <2>2. Slot(b, 0) = IF b + 0 < Size THEN b + 0 ELSE b + 0 - Size
    BY <2>1, SlotValue
  <2> QED BY <1>1, <2>2
<1>4. ASSUME NEW i \in 0 .. Size - 1, NEW j \in 0 .. Size - 1, i # j
      PROVE  Slot(b, i) # Slot(b, j)
  <2>1. i \in 0 .. Size /\ j \in 0 .. Size
    BY <1>1
  <2>2. Slot(b, i) = IF b + i < Size THEN b + i ELSE b + i - Size
    BY <2>1, SlotValue
  <2>3. Slot(b, j) = IF b + j < Size THEN b + j ELSE b + j - Size
    BY <2>1, SlotValue
  <2> QED BY <1>1, <1>4, <2>2, <2>3
<1>5. ASSUME NEW i \in 0 .. Size - 1
      PROVE  Slot(Slot(b, 1), i) = Slot(b, i + 1)
  <2>1. 1 \in 0 .. Size /\ i \in 0 .. Size /\ i + 1 \in 0 .. Size
    BY <1>1
  <2>2. /\ Slot(b, 1) = IF b + 1 < Size THEN b + 1 ELSE b + 1 - Size
        /\ Slot(b, 1) \in 0 .. Size - 1
    BY <2>1, SlotValue
  <2>3. Slot(b, i + 1) = IF b + (i + 1) < Size THEN b + (i + 1) ELSE b + (i + 1) - Size
    BY <2>1, SlotValue
  <2> DEFINE c == Slot(b, 1)
  <2>4. Slot(c, i) = IF c + i < Size THEN c + i ELSE c + i - Size
    BY <2>1, <2>2, SlotValue
  <2> HIDE DEF c
  <2>5. c = IF b + 1 < Size THEN b + 1 ELSE b + 1 - Size
    BY <2>2 DEF c
  <2>6. Slot(c, i) = Slot(b, i + 1)
    BY <1>1, <2>3, <2>4, <2>5
  <2> QED BY <2>6 DEF c
<1> QED BY <1>2, <1>3, <1>4, <1>5

(* No slots; one more at the end; one less at the front. *)
LEMMA SlotsFromFacts ==
  ASSUME NEW b \in 0 .. Size - 1
  PROVE  /\ SlotsFrom(b, 0) = {}
         /\ \A c \in 0 .. Size - 1 :
              /\ SlotsFrom(b, c + 1) = SlotsFrom(b, c) \cup {Slot(b, c)}
              /\ Slot(b, c) \notin SlotsFrom(b, c)
              /\ SlotsFrom(Slot(b, 1), c) = SlotsFrom(b, c + 1) \ {b}
              /\ b \in SlotsFrom(b, c + 1)
<1>1. Size \in Nat /\ Size > 0 /\ b \in Nat /\ b < Size
  BY ToolsAssumption
<1>2. SlotsFrom(b, 0) = {}
  BY DEF SlotsFrom
<1>3. ASSUME NEW c \in 0 .. Size - 1
      PROVE  /\ SlotsFrom(b, c + 1) = SlotsFrom(b, c) \cup {Slot(b, c)}
             /\ Slot(b, c) \notin SlotsFrom(b, c)
             /\ SlotsFrom(Slot(b, 1), c) = SlotsFrom(b, c + 1) \ {b}
             /\ b \in SlotsFrom(b, c + 1)
  <2>0. c \in Nat /\ c <= Size - 1
    BY <1>1
  <2>1. 0 .. (c + 1) - 1 = (0 .. c - 1) \cup {c}
    BY <2>0
  <2>2. SlotsFrom(b, c + 1) = SlotsFrom(b, c) \cup {Slot(b, c)}
    BY <2>1 DEF SlotsFrom
  <2>3. Slot(b, c) \notin SlotsFrom(b, c)
    <3>1. ASSUME NEW i \in 0 .. c - 1 PROVE Slot(b, c) # Slot(b, i)
      <4>1. i \in 0 .. Size - 1 /\ i # c
        BY <1>1, <2>0
      <4> QED BY <4>1, SlotFacts
    <3> QED BY <3>1 DEF SlotsFrom
  <2>4. ASSUME NEW i \in 0 .. c - 1
        PROVE  /\ Slot(Slot(b, 1), i) = Slot(b, i + 1)
               /\ Slot(b, i + 1) # b
               /\ i + 1 \in 0 .. c
    <3>1. i \in 0 .. Size - 1 /\ i + 1 \in 0 .. Size - 1 /\ 0 \in 0 .. Size - 1
            /\ i + 1 # 0 /\ i + 1 \in 0 .. c
      BY <1>1, <2>0
    <3> QED BY <3>1, SlotFacts
  <2>5. Slot(b, 0) = b
    BY SlotFacts
  <2>6. SlotsFrom(Slot(b, 1), c) \subseteq SlotsFrom(b, c + 1) \ {b}
    BY <2>0, <2>1, <2>4 DEF SlotsFrom
  <2>7. ASSUME NEW x \in SlotsFrom(b, c + 1) \ {b}
        PROVE  x \in SlotsFrom(Slot(b, 1), c)
    <3>1. PICK i \in 0 .. (c + 1) - 1 : x = Slot(b, i)
      BY DEF SlotsFrom
    <3>2. i # 0
      BY <2>5, <2>7, <3>1
    <3>3. i - 1 \in 0 .. c - 1 /\ (i - 1) + 1 = i
      BY <2>0, <3>2
    <3>4. Slot(Slot(b, 1), i - 1) = x
      BY <2>4, <3>1, <3>3
    <3> QED BY <3>3, <3>4 DEF SlotsFrom
  <2>8. b \in SlotsFrom(b, c + 1)
    <3>1. 0 \in 0 .. (c + 1) - 1
      BY <2>0
    <3> QED BY <2>5, <3>1 DEF SlotsFrom
  <2> QED BY <2>2, <2>3, <2>6, <2>7, <2>8
<1> QED BY <1>2, <1>3
-----------------------------------------------------------------------------
(* The replies *)

(* The tool that runs stays the same, and with it what may arrive. *)
LEMMA ToolKept ==
  ASSUME tool' = tool
  PROVE  Replies' = Replies /\ Entry' = Entry /\ Unasked' = Unasked
<1>1. Unasked' = Unasked
  BY DEF Unasked, announce_new_pair
<1>2. Replies' = Replies
  BY <1>1 DEF Replies, Answer
<1> QED BY <1>1, <1>2 DEF Entry

(* Every step keeps the tool. *)
LEMMA StepKeepsTool ==
  ASSUME [Next]_vars
  PROVE  tool' = tool
  BY DEF Next, Receiver, Main, handle_recv, push_write, push_load, push_store, send,
         front_timeout, front, pop_front, pop_load, pop_store, read_ip, read_mac, read_id,
         clear, vars

(* A reply is the pair of its key and its val. *)
LEMMA ReplyIsPair ==
  ASSUME tool \in Tools, NEW m \in Replies
  PROVE  m = <<m[1], m[2]>>
<1>1. CASE m \in Unasked
  <2>1. PICK f \in Foreign[tool] :
          m = IF tool \in {"search", "scan"} THEN announce_new_pair(f[1], f[2]) ELSE f
    BY <1>1 DEF Unasked
  <2>2. f = <<f[1], f[2]>>
    BY <2>1, ToolsAssumption
  <2> QED BY <2>1, <2>2 DEF announce_new_pair
<1>2. CASE tool = "scan" /\ m \in {Answer(r) : r \in 1 .. Len(Subnet)}
  BY <1>2 DEF Answer
<1>3. CASE tool # "scan" /\ m = Answer(1)
  BY <1>3 DEF Answer
<1> QED BY <1>1, <1>2, <1>3 DEF Replies

(* What a request is answered with is a reply. *)
LEMMA AnswerIsReply ==
  ASSUME NEW r \in Nat, tool # "scan" \/ (0 < r /\ r <= Len(Subnet))
  PROVE  Answer(r) \in Replies
<1>1. Len(Subnet) \in Nat
  BY ToolsAssumption
<1> QED BY <1>1 DEF Replies, Answer

(* What the receiving thread stores of a reply, and the pair it stands for. *)
LEMMA EntryOfReply ==
  ASSUME TypeOK, RoundInv, NEW m \in Replies
  PROVE  /\ [key |-> m[1], val |-> m[2], at |-> At] \in Entry
         /\ Pair([key |-> m[1], val |-> m[2], at |-> At]) = m
<1>1. At \in 0 .. Rounds
  BY ToolsAssumption DEF At, TypeOK, RoundInv
<1>2. m = <<m[1], m[2]>>
  BY ReplyIsPair DEF TypeOK
<1> QED BY <1>1, <1>2 DEF Entry, Pair
-----------------------------------------------------------------------------
(* At the start the queue is empty and nothing has been received. *)
LEMMA InitTool == Init => ToolInv
<1> SUFFICES ASSUME Init PROVE ToolInv
  OBVIOUS
<1>0. Size \in Nat /\ Size > 0 /\ Rounds \in Nat /\ Rounds > 0 /\ Len(Subnet) \in Nat
  BY ToolsAssumption
<1>1. TypeOK
  <2>1. Default \in Entry /\ Unasked \subseteq Replies
    BY DEF Entry, Replies
  <2>2. buff \in [0 .. Size - 1 -> Entry]
    BY <2>1 DEF Init
  <2>3. push \in [pc : {"idle", "write", "load", "store"}, val : Entry, tmp : 0 .. Size]
    BY <1>0, <2>1 DEF Init, Idle
  <2>4. 0 \in 0 .. Size - 1 /\ 0 \in 0 .. Size /\ 1 \in 1 .. 1 + Len(Subnet) + Rounds
    BY <1>0
  <2> QED BY <2>1, <2>2, <2>3, <2>4 DEF TypeOK, Init
<1>2. RegisterInv /\ ReadInv /\ ReceivedInv /\ ResultWasReceived /\ FreshInv /\ LookInv
  BY DEF Init, RegisterInv, ReadInv, ReceivedInv, ResultWasReceived, FreshInv, LookInv,
         Idle
<1>3. RoundInv
  BY <1>0 DEF Init, RoundInv
<1>4. RingInv
  <2>1. InQueue = 0
    BY DEF Init, InQueue, Idle, Popping
  <2>2. SlotsFrom(base_in, 0) = {}
    BY DEF SlotsFrom
  <2> QED BY <2>1, <2>2, FS_EmptySet DEF Init, RingInv, Idle, Pushing, Popping
<1> QED BY <1>1, <1>2, <1>3, <1>4 DEF ToolInv
-----------------------------------------------------------------------------
(* Each part is kept by every step *)

(* The sizes are numbers. *)
LEMMA Bounds ==
  /\ Size \in Nat /\ Size > 0 /\ Rounds \in Nat /\ Rounds > 0 /\ Len(Subnet) \in Nat
  BY ToolsAssumption

(* The types are kept: count does not leave 0 .. Size because the registers *)
(* of count++ and count-- are bounded, the loop counter does not because    *)
(* each tool stops at its own bound.                                        *)
LEMMA TypeStep ==
  ASSUME ToolInv, [Next]_vars
  PROVE  TypeOK'
<1> USE DEF ToolInv
<1>0. TypeOK /\ RegisterInv /\ RoundInv
  OBVIOUS
<1>t. tool' = tool /\ Replies' = Replies /\ Entry' = Entry
  BY StepKeepsTool, ToolKept
<1>b. Size \in Nat /\ Size > 0 /\ Rounds \in Nat /\ Rounds > 0 /\ Len(Subnet) \in Nat
  BY Bounds
<1>1. ASSUME NEW m \in Replies, NEW dup \in BOOLEAN, handle_recv(m, dup)
      PROVE  TypeOK'
  <2>1. net' \subseteq Replies /\ received' \subseteq Replies
    BY <1>0, <1>1 DEF handle_recv, TypeOK
  <2>2. [key |-> m[1], val |-> m[2], at |-> At] \in Entry
    BY <1>0, EntryOfReply
  <2>3. push' \in [pc : {"idle", "write", "load", "store"}, val : Entry, tmp : 0 .. Size]
    BY <1>0, <1>1, <1>b, <2>2 DEF handle_recv, TypeOK
  <2>4. raced' \in BOOLEAN /\ filled' \in BOOLEAN
    BY <1>0, <1>1 DEF handle_recv, TypeOK, Popping
  <2> QED BY <1>0, <1>1, <1>t, <2>1, <2>3, <2>4 DEF handle_recv, TypeOK, main
<1>2. CASE push_write
  <2>1. (base_in + count) % Size \in 0 .. Size - 1
    BY <1>0, <1>b, SlotFacts DEF TypeOK, Slot
  <2>2. push.val \in Entry
    BY <1>0 DEF TypeOK
  <2>3. buff' \in [0 .. Size - 1 -> Entry]
    BY <1>0, <1>2, <2>1, <2>2 DEF push_write, TypeOK
  <2>4. push' \in [pc : {"idle", "write", "load", "store"}, val : Entry, tmp : 0 .. Size]
    BY <1>0, <1>2 DEF push_write, TypeOK
  <2>5. stored' \subseteq 0 .. Size - 1
    BY <1>0, <1>2, <2>1 DEF push_write, TypeOK
  <2> QED BY <1>0, <1>2, <1>t, <2>3, <2>4, <2>5 DEF push_write, TypeOK, main
<1>3. CASE push_load
  <2>1. push' \in [pc : {"idle", "write", "load", "store"}, val : Entry, tmp : 0 .. Size]
    BY <1>0, <1>3 DEF push_load, TypeOK
  <2> QED BY <1>0, <1>3, <1>t, <2>1 DEF push_load, TypeOK, main, history
<1>4. CASE push_store
  <2>1. push' \in [pc : {"idle", "write", "load", "store"}, val : Entry, tmp : 0 .. Size]
    BY <1>0, <1>4, <1>b DEF push_store, TypeOK, Idle, Entry
  <2>2. count' \in 0 .. Size
    BY <1>0, <1>4, <1>b DEF push_store, TypeOK, RegisterInv
  <2> QED BY <1>0, <1>4, <1>t, <2>1, <2>2 DEF push_store, TypeOK, main, history
<1>5. ASSUME NEW answered \in BOOLEAN, send(answered)
      PROVE  TypeOK'
  <2>1. net' \subseteq Replies
    <3>1. round \in Nat /\ 0 < round
      BY <1>0, <1>b DEF TypeOK
    <3> QED BY <1>0, <1>5, <3>1, AnswerIsReply DEF send, TypeOK
  <2>2. round' \in 1 .. 1 + Len(Subnet) + Rounds
    BY <1>0, <1>5, <1>b DEF send, TypeOK
  <2>3. pc' \in {"send", "front"}
    BY <1>5 DEF send
  <2> QED BY <1>0, <1>5, <1>t, <2>1, <2>2, <2>3 DEF send, TypeOK, shared, history
<1>6. CASE front_timeout \/ front \/ read_ip \/ read_mac \/ pop_load
  BY <1>0, <1>6, <1>t DEF front_timeout, front, read_ip, read_mac, pop_load, TypeOK, shared,
                          history
<1>7. CASE pop_front
  <2>1. base_in' \in 0 .. Size - 1
    BY <1>0, <1>7, <1>b, SlotFacts DEF pop_front, TypeOK, Slot
  <2>2. raced' \in BOOLEAN
    BY <1>0, <1>7 DEF pop_front, TypeOK, Pushing
  <2> QED BY <1>0, <1>7, <1>t, <2>1, <2>2 DEF pop_front, TypeOK
<1>8. CASE pop_store
  <2>1. count' \in 0 .. Size /\ tmp' \in 0 .. Size
    BY <1>0, <1>8, <1>b DEF pop_store, TypeOK, RegisterInv
  <2> QED BY <1>0, <1>8, <1>t, <2>1 DEF pop_store, TypeOK, history
<1>9. CASE read_id
  <2>1. round' \in 1 .. 1 + Len(Subnet) + Rounds
    BY <1>0, <1>9, <1>b DEF read_id, TypeOK
  <2>2. pc' \in {"front", "send", "clear", "done"}
    BY <1>9 DEF read_id
  <2> QED BY <1>0, <1>9, <1>t, <2>1, <2>2 DEF read_id, TypeOK, shared, history
<1>10. CASE clear
  <2>1. count' \in 0 .. Size /\ raced' \in BOOLEAN
    BY <1>0, <1>10, <1>b DEF clear, TypeOK, Pushing
  <2> QED BY <1>0, <1>10, <1>t, <2>1 DEF clear, TypeOK
<1>11. CASE UNCHANGED vars
  BY <1>0, <1>11, <1>t DEF vars, shared, main, history, TypeOK
<1> QED BY <1>1, <1>2, <1>3, <1>4, <1>5, <1>6, <1>7, <1>8, <1>9, <1>10, <1>11
        DEF Next, Receiver, Main

(* Whatever overlaps, count++ stores no less and count-- no more than the  *)
(* count it finds: while a push is under way only pops and clears change   *)
(* count, while a pop is, only pushes do.                                  *)
LEMMA RegisterStep ==
  ASSUME ToolInv, [Next]_vars
  PROVE  RegisterInv'
<1> USE DEF ToolInv
<1>0. TypeOK /\ RegisterInv
  OBVIOUS
<1>b. Size \in Nat /\ Size > 0
  BY Bounds
<1>c. count \in 0 .. Size /\ tmp \in 0 .. Size /\ push.tmp \in 0 .. Size /\ filled \in BOOLEAN
  BY <1>0 DEF TypeOK
<1>1. ASSUME NEW m \in Replies, NEW dup \in BOOLEAN, handle_recv(m, dup)
      PROVE  RegisterInv'
  <2>1. CASE count = Size
    BY <1>0, <1>1, <1>b, <1>c, <2>1 DEF handle_recv, RegisterInv, main
  <2>2. CASE count # Size
    <3>1. push'.pc = "write" /\ filled' = (filled \/ count >= Size - 1) /\ count' = count
            /\ pc' = pc /\ tmp' = tmp
      BY <1>1, <2>2 DEF handle_recv, main
    <3>2. ~filled' => ~filled /\ ~(count >= Size - 1)
      BY <3>1
    <3>3. count < Size /\ (~filled' => count < Size - 1)
      BY <1>b, <1>c, <2>2, <3>2
    <3> QED BY <1>0, <3>1, <3>3 DEF RegisterInv
  <2> QED BY <2>1, <2>2
<1>2. CASE push_write
  BY <1>0, <1>2, <1>b, <1>c DEF push_write, RegisterInv, main, TypeOK
<1>3. CASE push_load
  BY <1>0, <1>3, <1>b, <1>c DEF push_load, RegisterInv, main, history, TypeOK
<1>4. CASE push_store
  BY <1>0, <1>4, <1>b, <1>c DEF push_store, RegisterInv, main, history, Idle
<1>5. ASSUME NEW answered \in BOOLEAN, send(answered)
      PROVE  RegisterInv'
  BY <1>0, <1>5, <1>b, <1>c DEF send, RegisterInv, shared, history
<1>6. CASE front_timeout \/ front \/ read_ip \/ read_mac \/ pop_load
  BY <1>0, <1>6, <1>b, <1>c DEF front_timeout, front, read_ip, read_mac, pop_load,
     RegisterInv, shared, history
<1>7. CASE pop_front
  BY <1>0, <1>7, <1>b, <1>c DEF pop_front, RegisterInv
<1>8. CASE pop_store
  BY <1>0, <1>8, <1>b, <1>c DEF pop_store, RegisterInv, history
<1>9. CASE read_id
  BY <1>0, <1>9, <1>b, <1>c DEF read_id, RegisterInv, shared, history
<1>10. CASE clear
  BY <1>0, <1>10, <1>b, <1>c DEF clear, RegisterInv
<1>11. CASE UNCHANGED vars
  BY <1>0, <1>11 DEF vars, shared, main, history, RegisterInv
<1> QED BY <1>1, <1>2, <1>3, <1>4, <1>5, <1>6, <1>7, <1>8, <1>9, <1>10, <1>11
        DEF Next, Receiver, Main

(* The slot a push writes into is not in use, and it is not the one the    *)
(* tool still reads unless the push found at most one slot free.           *)
LEMMA PushedSlot ==
  ASSUME ToolInv, push.pc = "write", NEW i, i = (base_in + count) % Size
  PROVE  /\ i \in 0 .. Size - 1
         /\ ~raced => i \notin stored
         /\ ~filled /\ pc \in {"pop_load", "pop_store", "read", "read_mac"} => i # reply
<1> USE DEF ToolInv
<1>0. /\ base_in \in 0 .. Size - 1 /\ reply \in 0 .. Size - 1 /\ count \in 0 .. Size
      /\ count < Size /\ (~filled => count < Size - 1)
      /\ Size \in Nat /\ Size > 0
  BY Bounds DEF TypeOK, RegisterInv
<1>1. i = Slot(base_in, count)
  BY DEF Slot
<1>2. i \in 0 .. Size - 1
  BY <1>0, <1>1, SlotFacts
<1>3. ASSUME ~raced PROVE i \notin stored
  <2>1. ~Popping /\ stored = SlotsFrom(base_in, InQueue)
    BY <1>3 DEF RingInv, Pushing
  <2>2. InQueue = count
    BY <1>0, <2>1 DEF InQueue
  <2>3. count \in 0 .. Size - 1
    BY <1>0
  <2> QED BY <1>0, <1>1, <2>1, <2>2, <2>3, SlotsFromFacts
<1>4. ASSUME ~filled, pc \in {"pop_load", "pop_store", "read", "read_mac"}
      PROVE  i # reply
  <2>1. base_in = Slot(reply, 1)
    BY <1>4 DEF ReadInv
  <2>2. count \in 0 .. Size - 1 /\ count + 1 \in 0 .. Size - 1 /\ 0 \in 0 .. Size - 1
          /\ count + 1 # 0
    BY <1>0, <1>4
  <2>3. i = Slot(reply, count + 1)
    BY <1>0, <1>1, <2>1, <2>2, SlotFacts
  <2>4. Slot(reply, 0) = reply /\ Slot(reply, count + 1) # Slot(reply, 0)
    BY <1>0, <2>2, SlotFacts
  <2> QED BY <2>3, <2>4
<1> QED BY <1>2, <1>3, <1>4

(* The slot the tool reads stays the one before base_in, and what it has   *)
(* compared stays there until it has read the rest.                        *)
LEMMA ReadStep ==
  ASSUME ToolInv, [Next]_vars
  PROVE  ReadInv'
<1> USE DEF ToolInv
<1>0. TypeOK /\ ReadInv
  OBVIOUS
<1>1. ASSUME NEW m \in Replies, NEW dup \in BOOLEAN, handle_recv(m, dup)
      PROVE  ReadInv'
  <2>1. ~filled' => ~filled
    BY <1>1 DEF handle_recv
  <2> QED BY <1>0, <1>1, <2>1 DEF handle_recv, ReadInv, main, Slot
<1>2. CASE push_write
  <2> DEFINE i == (base_in + count) % Size
  <2>1. buff' = [buff EXCEPT ![i] = push.val] /\ push.pc = "write"
    BY <1>2 DEF push_write
  <2>2. ~filled /\ pc = "read_mac" => i # reply
    BY <2>1, PushedSlot
  <2>3. i # reply => buff'[reply] = buff[reply]
    BY <1>0, <2>1 DEF TypeOK
  <2> QED BY <1>0, <1>2, <2>2, <2>3 DEF push_write, ReadInv, main, Slot
<1>3. CASE push_load \/ push_store
  BY <1>0, <1>3 DEF push_load, push_store, ReadInv, main, history, Slot
<1>5. ASSUME NEW answered \in BOOLEAN, send(answered)
      PROVE  ReadInv'
  BY <1>0, <1>5 DEF send, ReadInv, shared, history
<1>6. CASE front_timeout \/ front \/ read_mac \/ pop_load
  BY <1>0, <1>6 DEF front_timeout, front, read_mac, pop_load, ReadInv, shared, history, Slot
<1>7. CASE pop_front
  BY <1>0, <1>7 DEF pop_front, ReadInv, Slot
<1>8. CASE pop_store
  BY <1>0, <1>8 DEF pop_store, ReadInv, history, Slot
<1>9. CASE read_id
  <2>1. pc' \in {"front", "send", "clear", "done"}
    BY <1>9 DEF read_id
  <2> QED BY <2>1 DEF ReadInv
<1>10. CASE clear
  BY <1>10 DEF clear, ReadInv
<1>11. CASE UNCHANGED vars
  BY <1>0, <1>11 DEF vars, shared, main, history, ReadInv, Slot
<1>12. CASE read_ip
  <2>1. /\ reply_ip' = buff[reply].key /\ buff' = buff /\ reply' = reply /\ base_in' = base_in
        /\ tool' = tool /\ tool \in {"search", "scan"} /\ pc = "read"
    BY <1>12 DEF read_ip, shared
  <2>2. pc' \in {"crashed", "read_mac", "send", "front"}
    BY <1>12 DEF read_ip
  <2>3. pc' = "read_mac" => reply_ip' # "none" /\ (tool = "search" => reply_ip' = "ours")
    BY <1>12, <2>1 DEF read_ip
  <2> QED BY <1>0, <2>1, <2>2, <2>3 DEF ReadInv, Slot
<1> QED BY <1>1, <1>2, <1>3, <1>5, <1>6, <1>7, <1>8, <1>9, <1>10, <1>11, <1>12
        DEF Next, Receiver, Main

(* The loop counter stays within the tool's own bound. *)
LEMMA RoundStep ==
  ASSUME ToolInv, [Next]_vars
  PROVE  RoundInv'
<1> USE DEF ToolInv
<1>0. RoundInv /\ ReadInv /\ tool' = tool
  BY StepKeepsTool
<1>b. Rounds \in Nat /\ Len(Subnet) \in Nat /\ round \in Nat
  BY Bounds DEF TypeOK
<1>1. ASSUME NEW answered \in BOOLEAN, send(answered)
      PROVE  RoundInv'
  <2>1. /\ pc' \in {"send", "front"}
        /\ (round' = round + 1 /\ tool = "scan" /\ round <= Len(Subnet)) \/ round' = round
    BY <1>1 DEF send
  <2> QED BY <1>0, <1>b, <2>1 DEF RoundInv
<1>2. CASE read_id
  <2>1. /\ pc' = "clear" => tool = "ping"
        /\ (round' = round + 1 /\ tool = "ping" /\ round < Rounds) \/ round' = round
    BY <1>2 DEF read_id
  <2> QED BY <1>0, <1>b, <2>1 DEF RoundInv
<1>3. CASE read_mac
  BY <1>0, <1>3 DEF RoundInv, read_mac
<1>4. CASE read_ip
  BY <1>0, <1>4 DEF RoundInv, read_ip
<1>5. ASSUME round' = round, pc' = "clear" => pc = "clear"
      PROVE  RoundInv'
  BY <1>0, <1>5 DEF RoundInv
<1> QED BY <1>1, <1>2, <1>3, <1>4, <1>5
        DEF Next, Receiver, Main, handle_recv, push_write, push_load, push_store,
            front_timeout, front, pop_front, pop_load, pop_store, clear, main, vars

(* Only what was received is ever in a slot of the queue. *)
LEMMA ReceivedStep ==
  ASSUME ToolInv, [Next]_vars
  PROVE  ReceivedInv'
<1> USE DEF ToolInv
<1>0. TypeOK /\ ReceivedInv /\ RoundInv
  OBVIOUS
<1>1. ASSUME NEW m \in Replies, NEW dup \in BOOLEAN, handle_recv(m, dup)
      PROVE  ReceivedInv'
  <2>1. buff' = buff /\ received' = received \cup {m} /\ push.pc # "write"
    BY <1>1 DEF handle_recv, Pushing
  <2>2. push'.pc = "write" => Pair(push'.val) = m
    <3>1. CASE count = Size
      BY <1>1, <2>1, <3>1 DEF handle_recv
    <3>2. CASE count # Size
      <4>1. push'.val = [key |-> m[1], val |-> m[2], at |-> At]
        BY <1>1, <3>2 DEF handle_recv
      <4> QED BY <1>0, <4>1, EntryOfReply
    <3> QED BY <3>1, <3>2
  <2> QED BY <1>0, <2>1, <2>2 DEF ReceivedInv, Pair
<1>2. CASE push_write
  <2> DEFINE i == (base_in + count) % Size
  <2>1. /\ buff' = [buff EXCEPT ![i] = push.val] /\ push.pc = "write"
        /\ received' = received /\ push'.pc = "load"
    BY <1>0, <1>2 DEF push_write, TypeOK
  <2>2. \A k \in 0 .. Size - 1 : buff'[k] = IF k = i THEN push.val ELSE buff[k]
    BY <1>0, <2>1 DEF TypeOK
  <2> QED BY <1>0, <2>1, <2>2 DEF ReceivedInv, Pair
<1>3. CASE push_load \/ push_store
  <2>1. buff' = buff /\ received' = received
    BY <1>3 DEF push_load, push_store, history
  <2>2. push'.pc \in {"store", "idle"}
    <3>1. push_load => push'.pc = "store"
      BY <1>0 DEF push_load, TypeOK
    <3>2. push_store => push'.pc = "idle"
      BY DEF push_store, Idle
    <3> QED BY <1>3, <3>1, <3>2
  <2> QED BY <1>0, <2>1, <2>2 DEF ReceivedInv, Pair
<1>4. ASSUME buff' = buff, received' = received, push' = push
      PROVE  ReceivedInv'
  BY <1>0, <1>4 DEF ReceivedInv, Pair
<1> QED BY <1>1, <1>2, <1>3, <1>4
        DEF Next, Receiver, Main, send, front_timeout, front, pop_front, pop_load, pop_store,
            read_ip, read_mac, read_id, clear, shared, history, vars

(* A pair that is reported was received as one reply.  For the arp tools,  *)
(* which read its two halves at two moments, because no push comes round   *)
(* to the slot in between.                                                 *)
LEMMA ResultStep ==
  ASSUME ToolInv, [Next]_vars
  PROVE  ResultWasReceived'
<1> USE DEF ToolInv
<1>0. TypeOK /\ ReceivedInv /\ ReadInv /\ ResultWasReceived /\ tool' = tool
  BY StepKeepsTool
<1>r. reply \in 0 .. Size - 1
  BY DEF TypeOK
<1>1. ASSUME NEW m \in Replies, NEW dup \in BOOLEAN, handle_recv(m, dup)
      PROVE  ResultWasReceived'
  <2>1. (~filled' => ~filled) /\ received' = received \cup {m} /\ res' = res
    BY <1>1 DEF handle_recv, main
  <2> QED BY <1>0, <2>1 DEF ResultWasReceived
<1>2. CASE read_mac
  <2>1. /\ res' = res \cup {<<reply_ip, buff[reply].val>>} /\ pc = "read_mac"
        /\ filled' = filled /\ received' = received
    BY <1>2 DEF read_mac, history
  <2>2. ASSUME ~filled
        PROVE  <<reply_ip, buff[reply].val>> \in received
    <3>1. buff[reply].key = reply_ip /\ reply_ip # "none"
      BY <1>0, <2>1, <2>2 DEF ReadInv
    <3>2. buff[reply] # Default
      BY <3>1 DEF Default
    <3> QED BY <1>0, <1>r, <3>1, <3>2 DEF ReceivedInv, Pair
  <2>3. tool # "scan" => reply_ip = "ours"
    BY <1>0, <2>1 DEF ReadInv
  <2> QED BY <1>0, <2>1, <2>2, <2>3 DEF ResultWasReceived
<1>3. CASE read_id
  <2>1. /\ \/ res' = res
           \/ res' = res \cup {Pair(buff[reply])} /\ buff[reply].key = "ours"
        /\ filled' = filled /\ received' = received
    BY <1>3 DEF read_id, history, Pair
  <2>2. buff[reply].key = "ours" =>
          Pair(buff[reply]) \in received /\ Pair(buff[reply])[1] = "ours"
    BY <1>0, <1>r DEF ReceivedInv, Pair, Default
  <2> QED BY <1>0, <2>1, <2>2 DEF ResultWasReceived
<1>4. ASSUME res' = res, received' = received, filled' = filled
      PROVE  ResultWasReceived'
  BY <1>0, <1>4 DEF ResultWasReceived
<1> QED BY <1>1, <1>2, <1>3, <1>4
        DEF Next, Receiver, Main, push_write, push_load, push_store, send, front_timeout,
            front, pop_front, pop_load, pop_store, read_ip, clear, main, history, vars

(* Without an overlap the stored slots are the InQueue slots from base_in  *)
(* on: a push's write adds the one behind them, a pop's first assignment   *)
(* takes the first away, and the stores of count only catch up.            *)
LEMMA RingStep ==
  ASSUME ToolInv, [Next]_vars
  PROVE  RingInv'
<1> USE DEF ToolInv
<1> DEFINE Kept == /\ ~(Pushing' /\ Popping')
                   /\ push'.pc = "store" => push'.tmp = count'
                   /\ pc' = "pop_store" => tmp' = count'
                   /\ stored' = SlotsFrom(base_in', InQueue')
                   /\ IsFiniteSet(stored') /\ Cardinality(stored') = InQueue'
<1> SUFFICES ASSUME ~raced' PROVE Kept
  BY DEF RingInv, SlotsFrom, Slot
<1>r. ~raced
  BY DEF Next, Receiver, Main, handle_recv, push_write, push_load, push_store, send,
         front_timeout, front, pop_front, pop_load, pop_store, read_ip, read_mac, read_id,
         clear, vars, history
<1>0. /\ ~(Pushing /\ Popping)
      /\ push.pc = "store" => push.tmp = count
      /\ pc = "pop_store" => tmp = count
      /\ stored = SlotsFrom(base_in, InQueue)
      /\ IsFiniteSet(stored) /\ Cardinality(stored) = InQueue
  BY <1>r DEF RingInv
<1>b. /\ Size \in Nat /\ Size > 0 /\ count \in 0 .. Size /\ base_in \in 0 .. Size - 1
      /\ push \in [pc : {"idle", "write", "load", "store"}, val : Entry, tmp : 0 .. Size]
  BY Bounds DEF TypeOK
<1>1. ASSUME NEW m \in Replies, NEW dup \in BOOLEAN, handle_recv(m, dup)
      PROVE  Kept
  <2>1. /\ ~Popping /\ push.pc = "idle" /\ count' = count /\ base_in' = base_in
        /\ pc' = pc /\ tmp' = tmp /\ stored' = stored
    BY <1>1 DEF handle_recv, Pushing, main
  <2>2. push'.pc \in {"idle", "write"}
    BY <1>1, <2>1 DEF handle_recv
  <2>3. InQueue' = InQueue /\ ~Popping'
    BY <1>b, <2>1, <2>2 DEF InQueue, Popping
  <2> QED BY <1>0, <2>1, <2>2, <2>3 DEF Popping
<1>2. CASE push_write
  <2> DEFINE i == (base_in + count) % Size
  <2>1. /\ push.pc = "write" /\ count' = count /\ base_in' = base_in
        /\ pc' = pc /\ tmp' = tmp /\ stored' = stored \cup {i}
    BY <1>2 DEF push_write, main
  <2>2. push'.pc = "load"
    BY <1>2, <1>b DEF push_write
  <2>3. ~Popping /\ ~Popping'
    BY <1>0, <2>1 DEF Pushing, Popping
  <2>4. InQueue = count /\ InQueue' = count + 1
    BY <1>b, <2>1, <2>2, <2>3 DEF InQueue
  <2>5. i = Slot(base_in, count) /\ i \notin stored /\ count \in 0 .. Size - 1
    BY <1>b, <1>r, <2>1, PushedSlot DEF Slot, RegisterInv
  <2>6. stored' = SlotsFrom(base_in, count + 1)
    BY <1>0, <1>b, <2>1, <2>4, <2>5, SlotsFromFacts
  <2>7. IsFiniteSet(stored') /\ Cardinality(stored') = count + 1
    BY <1>0, <2>1, <2>4, <2>5, FS_AddElement
  <2> QED BY <2>1, <2>2, <2>3, <2>4, <2>6, <2>7 DEF Popping
<1>3. CASE push_load
  <2>1. /\ push.pc = "load" /\ count' = count /\ base_in' = base_in
        /\ pc' = pc /\ tmp' = tmp /\ stored' = stored
    BY <1>3 DEF push_load, main, history
  <2>2. push'.pc = "store" /\ push'.tmp = count
    BY <1>3, <1>b DEF push_load
  <2>3. InQueue' = InQueue /\ ~Popping'
    BY <1>0, <1>b, <2>1, <2>2 DEF InQueue, Popping, Pushing
  <2> QED BY <1>0, <2>1, <2>2, <2>3 DEF Popping
<1>4. CASE push_store
  <2>1. /\ push.pc = "store" /\ count' = push.tmp + 1 /\ base_in' = base_in
        /\ pc' = pc /\ tmp' = tmp /\ stored' = stored /\ push'.pc = "idle"
    BY <1>4 DEF push_store, main, history, Idle
  <2>2. ~Popping /\ ~Popping' /\ count' = count + 1
    BY <1>0, <2>1 DEF Pushing, Popping
  <2>3. InQueue' = InQueue
    BY <1>b, <2>1, <2>2 DEF InQueue
  <2> QED BY <1>0, <2>1, <2>2, <2>3 DEF Popping
<1>5. CASE pop_front
  <2>1. /\ push.pc = "idle" /\ push' = push /\ count' = count /\ base_in' = Slot(base_in, 1)
        /\ pc = "pop" /\ pc' = "pop_load" /\ stored' = stored \ {base_in} /\ count # 0
    BY <1>5 DEF pop_front, Pushing, Slot
  <2>2. InQueue = count /\ InQueue' = count - 1
    BY <1>b, <2>1 DEF InQueue, Popping
  <2>3. count - 1 \in 0 .. Size - 1 /\ (count - 1) + 1 = count
    BY <1>b, <2>1
  <2>4. stored' = SlotsFrom(Slot(base_in, 1), count - 1) /\ base_in \in stored
    <3>1. /\ SlotsFrom(Slot(base_in, 1), count - 1) = SlotsFrom(base_in, (count - 1) + 1) \ {base_in}
          /\ base_in \in SlotsFrom(base_in, (count - 1) + 1)
      BY <1>b, <2>3, SlotsFromFacts
    <3>2. stored = SlotsFrom(base_in, (count - 1) + 1)
      BY <1>0, <2>2, <2>3
    <3> QED BY <2>1, <3>1, <3>2
  <2>5. IsFiniteSet(stored') /\ Cardinality(stored') = count - 1
    BY <1>0, <2>1, <2>2, <2>4, FS_RemoveElement
  <2> QED BY <2>1, <2>2, <2>4, <2>5 DEF Pushing
<1>6. CASE pop_load
  <2>1. /\ push' = push /\ count' = count /\ base_in' = base_in /\ tmp' = count
        /\ pc = "pop_load" /\ pc' = "pop_store" /\ stored' = stored
    BY <1>6 DEF pop_load, shared, history
  <2>2. InQueue' = InQueue
    BY <2>1 DEF InQueue, Popping
  <2> QED BY <1>0, <2>1, <2>2 DEF Pushing, Popping
<1>7. CASE pop_store
  <2>1. /\ push' = push /\ count' = tmp - 1 /\ base_in' = base_in
        /\ pc = "pop_store" /\ pc' = "read" /\ stored' = stored
    BY <1>7 DEF pop_store, history
  <2>2. push.pc = "idle" /\ count' = count - 1
    BY <1>0, <2>1 DEF Pushing, Popping
  <2>3. InQueue' = InQueue
    BY <1>b, <2>1, <2>2 DEF InQueue, Popping
  <2> QED BY <1>0, <2>1, <2>2, <2>3 DEF Pushing
<1>8. CASE clear
  <2>1. /\ push.pc = "idle" /\ push' = push /\ count' = 0 /\ base_in' = base_in
        /\ pc' \in {"send", "done"} /\ stored' = {}
    BY <1>8 DEF clear, Pushing
  <2>2. InQueue' = 0
    BY <2>1 DEF InQueue, Popping
  <2>3. SlotsFrom(base_in, 0) = {}
    BY DEF SlotsFrom
  <2> QED BY <2>1, <2>2, <2>3, FS_EmptySet DEF Pushing
<1>9. ASSUME UNCHANGED <<push, count, base_in, stored, tmp>>, ~Popping, ~Popping'
      PROVE  Kept
  <2>1. InQueue' = InQueue
    BY <1>9 DEF InQueue
  <2> QED BY <1>0, <1>9, <2>1 DEF Popping
<1>10. CASE UNCHANGED vars
  <2>1. UNCHANGED <<push, count, base_in, stored, tmp, pc>>
    BY <1>10 DEF vars, shared, main, history
  <2>2. InQueue' = InQueue /\ Popping' = Popping /\ Pushing' = Pushing
    BY <2>1 DEF InQueue, Popping, Pushing
  <2> QED BY <1>0, <2>1, <2>2
<1>11. ASSUME \/ \E answered \in BOOLEAN : send(answered)
              \/ front_timeout \/ front \/ read_ip \/ read_mac \/ read_id
       PROVE  Kept
  <2>1. UNCHANGED <<push, count, base_in, stored, tmp>>
    BY <1>11 DEF send, front_timeout, front, read_ip, read_mac, read_id, shared, history
  <2>2. ~Popping
    BY <1>11 DEF send, front_timeout, front, read_ip, read_mac, read_id, Popping
  <2>3. ~Popping'
    BY <1>11 DEF send, front_timeout, front, read_ip, read_mac, read_id, Popping
  <2> QED BY <1>9, <2>1, <2>2, <2>3
<1> QED BY <1>1, <1>2, <1>3, <1>4, <1>5, <1>6, <1>7, <1>8, <1>10, <1>11
        DEF Next, Receiver, Main

(* Without an overlap, front points to a stored slot. *)
LEMMA FrontIsStored ==
  ASSUME ToolInv, ~raced, ~Popping, count # 0
  PROVE  base_in \in stored
<1>1. /\ Size \in Nat /\ Size > 0 /\ count \in 0 .. Size /\ base_in \in 0 .. Size - 1
      /\ push.pc \in {"load", "store"} => count < Size
  BY Bounds DEF ToolInv, TypeOK, RegisterInv
<1>2. stored = SlotsFrom(base_in, InQueue)
  BY DEF ToolInv, RingInv
<1>3. InQueue - 1 \in 0 .. Size - 1 /\ (InQueue - 1) + 1 = InQueue
  BY <1>1 DEF InQueue
<1>4. base_in \in SlotsFrom(base_in, (InQueue - 1) + 1)
  BY <1>1, <1>3, SlotsFromFacts
<1> QED BY <1>2, <1>3, <1>4

(* What is stored since ping's last clear is of its round: the counter only *)
(* moves on together with the way to the next clear, which leaves nothing.  *)
LEMMA FreshStep ==
  ASSUME ToolInv, [Next]_vars
  PROVE  FreshInv'
<1> USE DEF ToolInv
<1> DEFINE Kept == /\ \A i \in stored' : buff'[i].at = round'
                   /\ push'.pc = "write" => push'.val.at = round'
                   /\ pc' \in {"pop_load", "pop_store", "read"} => buff'[reply'].at = round'
<1> SUFFICES ASSUME tool' = "ping", ~raced', pc' # "clear" PROVE Kept
  BY DEF FreshInv
<1>r. ~raced
  BY DEF Next, Receiver, Main, handle_recv, push_write, push_load, push_store, send,
         front_timeout, front, pop_front, pop_load, pop_store, read_ip, read_mac, read_id,
         clear, vars, history
<1>t. tool = "ping"
  BY StepKeepsTool
<1>b. /\ buff \in [0 .. Size - 1 -> Entry] /\ stored \subseteq 0 .. Size - 1
      /\ reply \in 0 .. Size - 1
      /\ push \in [pc : {"idle", "write", "load", "store"}, val : Entry, tmp : 0 .. Size]
  BY DEF TypeOK
<1>1. CASE pc = "clear"
  <2>1. CASE clear
    <3>1. push.pc = "idle" /\ push' = push /\ stored' = {} /\ pc' \in {"send", "done"}
      BY <2>1 DEF clear, Pushing
    <3> QED BY <3>1
  <2>2. CASE ~clear
    BY <1>1, <2>2 DEF Next, Receiver, Main, handle_recv, push_write, push_load, push_store,
       send, front_timeout, front, pop_front, pop_load, pop_store, read_ip, read_mac,
       read_id, vars, main
  <2> QED BY <2>1, <2>2
<1>2. CASE pc # "clear"
  <2>0. /\ \A i \in stored : buff[i].at = round
        /\ push.pc = "write" => push.val.at = round
        /\ pc \in {"pop_load", "pop_store", "read"} => buff[reply].at = round
    BY <1>2, <1>r, <1>t DEF FreshInv
  <2>1. ASSUME NEW m \in Replies, NEW dup \in BOOLEAN, handle_recv(m, dup)
        PROVE  Kept
    <3>1. /\ buff' = buff /\ stored' = stored /\ round' = round /\ reply' = reply /\ pc' = pc
          /\ push.pc = "idle"
      BY <2>1 DEF handle_recv, main, Pushing
    <3>2. push'.pc = "write" => push'.val.at = round
      BY <1>t, <2>1, <3>1 DEF handle_recv, At
    <3> QED BY <2>0, <3>1, <3>2
  <2>2. CASE push_write
    <3> DEFINE i == (base_in + count) % Size
    <3>1. /\ buff' = [buff EXCEPT ![i] = push.val] /\ push.pc = "write"
          /\ stored' = stored \cup {i} /\ round' = round /\ reply' = reply /\ pc' = pc
      BY <2>2 DEF push_write, main
    <3>2. push'.pc = "load"
      BY <1>b, <2>2 DEF push_write
    <3>3. i \in 0 .. Size - 1
      BY <3>1, PushedSlot
    <3>4. \A k \in 0 .. Size - 1 : buff'[k] = IF k = i THEN push.val ELSE buff[k]
      BY <1>b, <3>1
    <3> HIDE DEF i
    <3> QED BY <1>b, <2>0, <3>1, <3>2, <3>3, <3>4
  <2>3. CASE push_load \/ push_store
    <3>1. /\ buff' = buff /\ stored' = stored /\ round' = round /\ reply' = reply /\ pc' = pc
      BY <2>3 DEF push_load, push_store, main, history
    <3>2. push_load => push'.pc = "store"
      BY <1>b DEF push_load
    <3>3. push_store => push'.pc = "idle"
      BY DEF push_store, Idle
    <3> QED BY <2>0, <2>3, <3>1, <3>2, <3>3
  <2>4. CASE pop_front
    <3>1. /\ buff' = buff /\ stored' = stored \ {base_in} /\ round' = round /\ push' = push
          /\ reply' = reply /\ pc = "pop" /\ count # 0
      BY <2>4 DEF pop_front
    <3>2. reply \in stored
      BY <1>r, <3>1, FrontIsStored DEF Popping, ReadInv
    <3> QED BY <2>0, <3>1, <3>2
  <2>5. CASE read_id
    <3>1. /\ buff' = buff /\ stored' = stored /\ push' = push
      BY <2>5 DEF read_id, shared, history
    <3>2. round' = round /\ pc' \in {"front", "send", "done"}
      BY <2>5 DEF read_id
    <3> QED BY <2>0, <3>1, <3>2
  <2>6. ASSUME \/ \E answered \in BOOLEAN : send(answered)
               \/ front_timeout \/ front
        PROVE  Kept
    <3>1. /\ buff' = buff /\ stored' = stored /\ push' = push
      BY <2>6 DEF send, front_timeout, front, shared, history
    <3>2. round' = round /\ pc' \in {"send", "front", "done", "pop"}
      BY <1>t, <2>6 DEF send, front_timeout, front
    <3> QED BY <2>0, <3>1, <3>2
  <2>7. CASE pop_load \/ pop_store
    <3>1. /\ buff' = buff /\ stored' = stored /\ push' = push /\ round' = round
          /\ reply' = reply /\ pc \in {"pop_load", "pop_store"}
      BY <2>7 DEF pop_load, pop_store, shared, history
    <3> QED BY <2>0, <3>1
  <2>8. ~read_ip /\ ~read_mac /\ ~clear
    BY <1>2, <1>t DEF read_ip, read_mac, clear, ReadInv
  <2>9. CASE UNCHANGED vars
    <3>1. UNCHANGED <<buff, stored, push, round, reply, pc>>
      BY <2>9 DEF vars, shared, main, history
    <3> QED BY <2>0, <3>1
  <2> QED BY <2>1, <2>2, <2>3, <2>4, <2>5, <2>6, <2>7, <2>8, <2>9 DEF Next, Receiver, Main
<1> QED BY <1>1, <1>2

(* A reply that came is looked at or waits: from the push to the queue, to *)
(* the slot the tool has popped, to what it has read of it.                *)
LEMMA LookStep ==
  ASSUME ToolInv, [Next]_vars
  PROVE  LookInv'
<1> USE DEF ToolInv
<1> SUFFICES ASSUME tool' # "ping", ~raced', ~filled', pc' \notin {"clear", "done", "crashed"},
                    NEW m \in received'
             PROVE  Looked(m)' \/ Waits(m)'
  BY DEF LookInv
<1>r. ~raced /\ ~filled
  <2>1. ~raced
    BY DEF Next, Receiver, Main, handle_recv, push_write, push_load, push_store, send,
           front_timeout, front, pop_front, pop_load, pop_store, read_ip, read_mac, read_id,
           clear, vars, history
  <2>2. ~filled
    BY DEF Next, Receiver, Main, handle_recv, push_write, push_load, push_store, send,
           front_timeout, front, pop_front, pop_load, pop_store, read_ip, read_mac, read_id,
           clear, vars, history
  <2> QED BY <2>1, <2>2
<1>t. tool' = tool /\ tool # "ping"
  BY StepKeepsTool
<1>p. pc \notin {"done", "crashed"}
  BY DEF Next, Receiver, Main, handle_recv, push_write, push_load, push_store, send,
         front_timeout, front, pop_front, pop_load, pop_store, read_ip, read_mac, read_id,
         clear, vars, main
<1>c. pc # "clear"
  BY <1>t DEF Next, Receiver, Main, handle_recv, push_write, push_load, push_store, send,
         front_timeout, front, pop_front, pop_load, pop_store, read_ip, read_mac, read_id,
         clear, vars, main
<1>0. \A k \in received : Looked(k) \/ Waits(k)
  BY <1>r, <1>t, <1>p, <1>c DEF LookInv
<1>b. /\ buff \in [0 .. Size - 1 -> Entry] /\ stored \subseteq 0 .. Size - 1
      /\ reply \in 0 .. Size - 1
      /\ push \in [pc : {"idle", "write", "load", "store"}, val : Entry, tmp : 0 .. Size]
  BY DEF TypeOK
<1>k. ASSUME Looked(m), res \subseteq res' PROVE Looked(m)'
  BY <1>t, <1>k DEF Looked
<1>1. ASSUME NEW n \in Replies, NEW dup \in BOOLEAN, handle_recv(n, dup)
      PROVE  Looked(m)' \/ Waits(m)'
  <2>1. /\ UNCHANGED <<buff, stored, pc, reply, reply_ip, res>> /\ push.pc = "idle"
        /\ received' = received \cup {n} /\ filled' = (filled \/ count >= Size - 1)
    BY <1>1 DEF handle_recv, main, Pushing
  <2>2. count # Size
    <3>1. ~(count >= Size - 1)
      BY <2>1
    <3> QED BY <3>1, Bounds
  <2>3. push' = [pc |-> "write", val |-> [key |-> n[1], val |-> n[2], at |-> At], tmp |-> 0]
    BY <1>1, <2>2 DEF handle_recv
  <2>4. Pair(push'.val) = n
    BY <2>3, EntryOfReply
  <2>5. CASE m = n
    BY <2>3, <2>4, <2>5 DEF Waits, Pair
  <2>6. CASE m \in received
    BY <1>0, <1>k, <2>1, <2>6 DEF Waits, Pair
  <2> QED BY <2>1, <2>5, <2>6
<1>2. CASE push_write
  <2> DEFINE i == (base_in + count) % Size
  <2>1. /\ buff' = [buff EXCEPT ![i] = push.val] /\ push.pc = "write"
        /\ stored' = stored \cup {i} /\ UNCHANGED <<reply, reply_ip, pc, res, received>>
    BY <1>2 DEF push_write, main
  <2>2. /\ i \in 0 .. Size - 1 /\ i \notin stored
        /\ pc \in {"pop_load", "pop_store", "read", "read_mac"} => i # reply
    BY <1>r, <2>1, PushedSlot
  <2> HIDE DEF i
  <2>3. \A k \in 0 .. Size - 1 : buff'[k] = IF k = i THEN push.val ELSE buff[k]
    BY <1>b, <2>1
  <2>4. CASE Looked(m)
    BY <1>k, <2>1, <2>4
  <2>5. ASSUME NEW k \in stored, Pair(buff[k]) = m PROVE Waits(m)'
    <3>1. k \in stored' /\ buff'[k] = buff[k]
      BY <1>b, <2>1, <2>2, <2>3
    <3> QED BY <2>5, <3>1 DEF Waits, Pair
  <2>6. CASE Pair(push.val) = m
    <3>1. i \in stored' /\ buff'[i] = push.val
      BY <2>1, <2>2, <2>3
    <3> QED BY <2>6, <3>1 DEF Waits, Pair
  <2>7. CASE pc \in {"pop_load", "pop_store", "read"} /\ Pair(buff[reply]) = m
    <3>1. buff'[reply'] = buff[reply]
      BY <1>b, <2>1, <2>2, <2>3, <2>7
    <3> QED BY <2>1, <2>7, <3>1 DEF Waits, Pair
  <2>8. CASE pc = "read_mac" /\ reply_ip = m[1]
    BY <2>1, <2>8 DEF Waits
  <2> QED BY <1>0, <2>1, <2>4, <2>5, <2>6, <2>7, <2>8 DEF Waits
<1>3. CASE push_load \/ push_store
  <2>1. /\ UNCHANGED <<buff, stored, pc, reply, reply_ip, res, received>> /\ push.pc # "write"
    BY <1>3 DEF push_load, push_store, main, history
  <2> QED BY <1>0, <1>k, <2>1 DEF Waits, Pair
<1>4. CASE pop_front
  <2>1. /\ UNCHANGED <<buff, push, reply, res, received>> /\ stored' = stored \ {base_in}
        /\ pc = "pop" /\ pc' = "pop_load"
    BY <1>4 DEF pop_front
  <2>2. reply = base_in
    BY <2>1 DEF ReadInv
  <2> QED BY <1>0, <1>k, <2>1, <2>2 DEF Waits, Pair
<1>5. ASSUME \/ \E answered \in BOOLEAN : send(answered)
             \/ front_timeout \/ front
      PROVE  Looked(m)' \/ Waits(m)'
  <2>1. UNCHANGED <<buff, push, stored, res, received>>
    BY <1>5 DEF send, front_timeout, front, shared, history
  <2>2. pc \in {"send", "front"}
    BY <1>5 DEF send, front_timeout, front
  <2> QED BY <1>0, <1>k, <2>1, <2>2 DEF Waits, Pair
<1>6. CASE pop_load \/ pop_store
  <2>1. /\ UNCHANGED <<buff, push, stored, reply, res, received>>
        /\ pc \in {"pop_load", "pop_store"} /\ pc' \in {"pop_store", "read"}
    BY <1>6 DEF pop_load, pop_store, shared, history
  <2> QED BY <1>0, <1>k, <2>1 DEF Waits, Pair
<1>7. CASE read_ip
  <2>1. /\ UNCHANGED <<buff, push, stored, reply, res, received>> /\ pc = "read"
        /\ reply_ip' = buff[reply].key /\ tool \in {"search", "scan"}
    BY <1>7 DEF read_ip, shared, history
  <2>2. CASE Pair(buff[reply]) = m
    <3>1. reply_ip' = m[1]
      BY <2>1, <2>2 DEF Pair
    <3>2. CASE pc' = "read_mac"
      BY <3>1, <3>2 DEF Waits
    <3>3. CASE pc' # "read_mac" /\ tool = "search"
      <4>1. m[1] # "ours"
        BY <1>7, <3>1, <3>3 DEF read_ip
      <4> QED BY <1>t, <3>3, <4>1 DEF Looked
    <3>4. CASE pc' # "read_mac" /\ tool = "scan"
      <4>1. ~(m[1] \in DOMAIN Mac /\ m[1] \notin {r[1] : r \in res})
        BY <1>7, <3>1, <3>4 DEF read_ip
      <4> QED BY <1>t, <2>1, <3>4, <4>1 DEF Looked
    <3> QED BY <2>1, <3>2, <3>3, <3>4
  <2>3. CASE Pair(buff[reply]) # m
    BY <1>0, <1>k, <2>1, <2>3 DEF Waits, Pair
  <2> QED BY <2>2, <2>3
<1>8. CASE read_mac
  <2>1. /\ UNCHANGED <<buff, push, stored, received>> /\ pc = "read_mac"
        /\ res' = res \cup {<<reply_ip, buff[reply].val>>} /\ tool = "scan"
    BY <1>8 DEF read_mac, shared, history, ReadInv
  <2>2. CASE reply_ip = m[1]
    <3>1. <<reply_ip, buff[reply].val>> \in res' /\ <<reply_ip, buff[reply].val>>[1] = m[1]
      BY <2>1, <2>2
    <3>2. m[1] \in {r[1] : r \in res'}
      BY <3>1
    <3> QED BY <1>t, <2>1, <3>2 DEF Looked
  <2>3. CASE reply_ip # m[1]
    BY <1>0, <1>k, <2>1, <2>3 DEF Waits, Pair
  <2> QED BY <2>2, <2>3
<1>9. CASE read_id
  <2>1. /\ UNCHANGED <<buff, push, stored, received>> /\ pc = "read" /\ tool = "dns"
    BY <1>9, <1>t DEF read_id, shared, history
  <2>2. buff[reply].key # "ours" /\ res' = res
    BY <1>9, <2>1 DEF read_id
  <2>3. CASE Pair(buff[reply]) = m
    <3>1. m[1] # "ours"
      BY <2>2, <2>3 DEF Pair
    <3> QED BY <1>t, <2>1, <3>1 DEF Looked
  <2>4. CASE Pair(buff[reply]) # m
    BY <1>0, <1>k, <2>1, <2>2, <2>4 DEF Waits, Pair
  <2> QED BY <2>3, <2>4
<1>10. CASE UNCHANGED vars
  <2>1. UNCHANGED <<buff, push, stored, reply, reply_ip, pc, res, received>>
    BY <1>10 DEF vars, shared, main, history
  <2> QED BY <1>0, <1>k, <2>1 DEF Waits, Pair
<1> QED BY <1>1, <1>2, <1>3, <1>4, <1>5, <1>6, <1>7, <1>8, <1>9, <1>10, <1>c
        DEF Next, Receiver, Main, clear
-----------------------------------------------------------------------------
(* The theorems *)

(* The invariant holds throughout. *)
LEMMA ToolInvariant == Spec => []ToolInv
<1>1. ToolInv /\ [Next]_vars => ToolInv'
  BY TypeStep, RegisterStep, ReadStep, RoundStep, ReceivedStep, ResultStep, RingStep,
     FreshStep, LookStep DEF ToolInv
<1> QED BY InitTool, <1>1, PTL DEF Spec

(* Every variable keeps its type.  In particular count never leaves        *)
(* 0 .. BUFF_SZ, although push_back and pop_front read and write it        *)
(* without a lock.                                                         *)
THEOREM TypeCorrect == Spec => []TypeOK
<1>1. ToolInv => TypeOK
  BY DEF ToolInv
<1> QED BY ToolInvariant, <1>1, PTL

(* Unless the queue has filled up, every pair a tool reports arrived in    *)
(* one reply that it may accept, however the pushes and the reads of a     *)
(* popped slot interleave.                                                 *)
THEOREM ResultsWereReceived == Spec => []ResultWasReceived
<1>1. ToolInv => ResultWasReceived
  BY DEF ToolInv
<1> QED BY ToolInvariant, <1>1, PTL

(* As long as no push overlaps a pop or a clear, the queue holds exactly   *)
(* what was pushed and not yet popped, and front points to one of these.   *)
THEOREM QueueIsKept == Spec => []QueueKept
<1>1. ToolInv => QueueKept
  <2> SUFFICES ASSUME ToolInv, ~raced PROVE QueueKept
    BY DEF QueueKept
  <2>1. ASSUME pc = "pop" PROVE reply \in stored
    <3>1. reply = base_in /\ count # 0 /\ ~Popping
      BY <2>1 DEF ToolInv, TypeOK, ReadInv, RegisterInv, Popping
    <3> QED BY <3>1, FrontIsStored
  <2>2. ASSUME ~Pushing, ~Popping
        PROVE  /\ stored = {(base_in + i) % Size : i \in 0 .. count - 1}
               /\ count = Cardinality(stored)
    <3>1. InQueue = count
      BY <2>2 DEF ToolInv, TypeOK, InQueue, Pushing
    <3>2. stored = SlotsFrom(base_in, InQueue) /\ Cardinality(stored) = InQueue
      BY DEF ToolInv, RingInv
    <3> QED BY <3>1, <3>2 DEF SlotsFrom, Slot
  <2> QED BY <2>1, <2>2 DEF QueueKept
<1> QED BY ToolInvariant, <1>1, PTL

(* As long as no push overlaps a pop or a clear, ping ends a round with a  *)
(* message that arrived in that round.                                     *)
THEOREM RepliesAreFresh == Spec => []FreshReply
<1>1. ToolInv => FreshReply
  BY DEF ToolInv, FreshInv, FreshReply
<1> QED BY ToolInvariant, <1>1, PTL

(* And a tool that finds the queue empty has looked at every reply that    *)
(* came: nothing is left in the queue, in the push or in the popped slot.  *)
THEOREM NoReplyOverlooked == Spec => []NothingOverlooked
<1>1. ToolInv => NothingOverlooked
  <2> SUFFICES ASSUME ToolInv, pc = "front", count = 0, ~Pushing, ~raced, ~filled,
                      tool # "ping", NEW m \in received
               PROVE  Looked(m)
    BY DEF NothingOverlooked, Looked
  <2>1. Looked(m) \/ Waits(m)
    BY DEF ToolInv, LookInv
  <2>2. InQueue = 0
    BY DEF InQueue, Pushing, Popping
  <2>3. stored = {}
    BY <2>2 DEF ToolInv, RingInv, SlotsFrom
  <2> QED BY <2>1, <2>3 DEF Waits, Pushing
<1> QED BY ToolInvariant, <1>1, PTL
=============================================================================
