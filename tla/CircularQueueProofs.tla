------------------------- MODULE CircularQueueProofs ------------------------
(***************************************************************************)
(* circular_queue implements a bounded double-ended queue, for every       *)
(* element type and every BUFF_SZ.                                         *)
(***************************************************************************)
EXTENDS CircularQueue, SequenceTheorems, TLAPS

(* An index less than a turn past the end wraps around once. *)
LEMMA WrapOnce ==
  ASSUME NEW x \in BUFF_SZ .. 2 * BUFF_SZ - 1
  PROVE  x % BUFF_SZ = x - BUFF_SZ
  BY BuffSzAssumption

(* An index that has not left the ring is its own slot, and one past the   *)
(* end by less than a turn wraps around once.                              *)
LEMMA RingIndex ==
  ASSUME NEW b \in Slots, NEW i \in 0 .. BUFF_SZ
  PROVE  /\ (b + i) % BUFF_SZ = IF b + i < BUFF_SZ THEN b + i
                                ELSE b + i - BUFF_SZ
         /\ (b + i) % BUFF_SZ \in Slots
<1> DEFINE x == b + i
<1>1. CASE x < BUFF_SZ
  <2>1. x % BUFF_SZ = x
    BY <1>1, BuffSzAssumption DEF Slots
  <2> QED BY <1>1, <2>1, BuffSzAssumption DEF Slots
<1>2. CASE x >= BUFF_SZ
  <2>1. x \in BUFF_SZ .. 2 * BUFF_SZ - 1
    BY <1>2, BuffSzAssumption DEF Slots
  <2>2. x % BUFF_SZ = x - BUFF_SZ
    BY <2>1, BuffSzAssumption DEF Slots
  <2> QED BY <1>2, <2>1, <2>2, BuffSzAssumption DEF Slots
<1> QED BY <1>1, <1>2, BuffSzAssumption DEF Slots

(* Two places of the ring less than a turn apart are two slots. *)
LEMMA RingDistinct ==
  ASSUME NEW b \in Slots, NEW i \in 0 .. BUFF_SZ, NEW j \in 0 .. BUFF_SZ,
         i < j, j < i + BUFF_SZ
  PROVE  (b + i) % BUFF_SZ # (b + j) % BUFF_SZ
<1>1. (b + i) % BUFF_SZ = IF b + i < BUFF_SZ THEN b + i ELSE b + i - BUFF_SZ
  BY RingIndex
<1>2. (b + j) % BUFF_SZ = IF b + j < BUFF_SZ THEN b + j ELSE b + j - BUFF_SZ
  BY RingIndex
<1>3. b \in Int /\ i \in Int /\ j \in Int /\ BUFF_SZ \in Int
  BY BuffSzAssumption DEF Slots
<1>4. ASSUME NEW x \in Int, NEW y \in Int,
             x = (IF b + i < BUFF_SZ THEN b + i ELSE b + i - BUFF_SZ),
             y = (IF b + j < BUFF_SZ THEN b + j ELSE b + j - BUFF_SZ)
      PROVE  x # y
  BY <1>3, <1>4
<1> QED BY <1>1, <1>2, <1>3, <1>4

(* Counting from the slot after b is counting one further from b. *)
LEMMA RingShift ==
  ASSUME NEW b \in Slots, NEW i \in 0 .. BUFF_SZ - 1
  PROVE  (((b + 1) % BUFF_SZ) + i) % BUFF_SZ = (b + (i + 1)) % BUFF_SZ
<1>1. b \in Int /\ i \in Int /\ BUFF_SZ \in Int /\ 0 <= b /\ b < BUFF_SZ
        /\ 0 <= i /\ i < BUFF_SZ /\ 0 < BUFF_SZ
  BY BuffSzAssumption DEF Slots
<1>2. CASE b + 1 < BUFF_SZ
  <2>1. b + 1 \in Slots
    BY <1>1, <1>2 DEF Slots
  <2>2. (b + 1) % BUFF_SZ = b + 1
    BY <2>1, BuffSzAssumption DEF Slots
  <2>3. (b + 1) + i = b + (i + 1)
    BY <1>1
  <2> QED BY <2>2, <2>3
<1>3. CASE ~(b + 1 < BUFF_SZ)
  <2>1. b + 1 = BUFF_SZ
    BY <1>1, <1>3
  <2>2. BUFF_SZ \in BUFF_SZ .. 2 * BUFF_SZ - 1
    BY <1>1
  <2>3. BUFF_SZ % BUFF_SZ = 0
    BY <2>2, BuffSzAssumption
  <2>4. i + BUFF_SZ \in BUFF_SZ .. 2 * BUFF_SZ - 1 /\ i \in Slots
          /\ b + (i + 1) = i + BUFF_SZ /\ 0 + i = i
    BY <1>1, <2>1 DEF Slots
  <2>5. (i + BUFF_SZ) % BUFF_SZ = (i + BUFF_SZ) - BUFF_SZ
    BY <2>4, WrapOnce
  <2>6. i % BUFF_SZ = i
    BY <2>4, BuffSzAssumption DEF Slots
  <2>7. (i + BUFF_SZ) - BUFF_SZ = i
    BY <1>1
  <2> QED BY <2>1, <2>3, <2>4, <2>5, <2>6, <2>7
<1> QED BY <1>2, <1>3

(* The slot before b is the one b follows. *)
LEMMA RingBack ==
  ASSUME NEW b \in Slots
  PROVE  /\ (b - 1 + BUFF_SZ) % BUFF_SZ \in Slots
         /\ (((b - 1 + BUFF_SZ) % BUFF_SZ) + 1) % BUFF_SZ = b
<1>1. b \in Int /\ BUFF_SZ \in Int /\ 0 <= b /\ b < BUFF_SZ /\ 0 < BUFF_SZ
  BY BuffSzAssumption DEF Slots
<1>2. CASE b = 0
  <2>1. b - 1 + BUFF_SZ = BUFF_SZ - 1 /\ BUFF_SZ - 1 \in Slots
    BY <1>1, <1>2 DEF Slots
  <2>2. (BUFF_SZ - 1) % BUFF_SZ = BUFF_SZ - 1
    BY <2>1, BuffSzAssumption DEF Slots
  <2>3. (BUFF_SZ - 1) + 1 = BUFF_SZ /\ BUFF_SZ \in BUFF_SZ .. 2 * BUFF_SZ - 1
    BY <1>1
  <2>4. BUFF_SZ % BUFF_SZ = 0
    BY <2>3, BuffSzAssumption
  <2> QED BY <1>2, <2>1, <2>2, <2>3, <2>4
<1>3. CASE b # 0
  <2>1. b - 1 + BUFF_SZ \in BUFF_SZ .. 2 * BUFF_SZ - 1 /\ b - 1 \in Slots
          /\ (b - 1 + BUFF_SZ) - BUFF_SZ = b - 1 /\ (b - 1) + 1 = b
    BY <1>1, <1>3 DEF Slots
  <2>2. (b - 1 + BUFF_SZ) % BUFF_SZ = (b - 1 + BUFF_SZ) - BUFF_SZ
    BY <2>1, WrapOnce
  <2>3. b % BUFF_SZ = b
    BY BuffSzAssumption DEF Slots
  <2> QED BY <2>1, <2>2, <2>3
<1> QED BY <1>2, <1>3

-----------------------------------------------------------------------------

(* The slot i places after slot b. *)
Slot(b, i) == (b + i) % BUFF_SZ

(* The slot before b. *)
Before(b) == (b - 1 + BUFF_SZ) % BUFF_SZ

(* The facts above in terms of Slot and Before: nothing else of the modulo *)
(* arithmetic is used below.                                               *)
LEMMA SlotFacts ==
  /\ \A b \in Slots : \A i \in 0 .. BUFF_SZ : Slot(b, i) \in Slots
  /\ \A b \in Slots : \A i, j \in 0 .. BUFF_SZ :
        i < j /\ j < i + BUFF_SZ => Slot(b, i) # Slot(b, j)
  /\ \A b \in Slots : \A i \in 0 .. BUFF_SZ - 1 :
        Slot(Slot(b, 1), i) = Slot(b, i + 1)
  /\ \A b \in Slots : Before(b) \in Slots /\ Slot(Before(b), 1) = b
  /\ \A b \in Slots : Slot(b, 0) = b
<1>1. \A b \in Slots : \A i \in 0 .. BUFF_SZ : Slot(b, i) \in Slots
  BY RingIndex DEF Slot
<1>2. \A b \in Slots : \A i, j \in 0 .. BUFF_SZ :
        i < j /\ j < i + BUFF_SZ => Slot(b, i) # Slot(b, j)
  BY RingDistinct DEF Slot
<1>3. \A b \in Slots : \A i \in 0 .. BUFF_SZ - 1 :
        Slot(Slot(b, 1), i) = Slot(b, i + 1)
  BY RingShift DEF Slot
<1>4. \A b \in Slots : Before(b) \in Slots /\ Slot(Before(b), 1) = b
  BY RingBack DEF Slot, Before
<1>5. ASSUME NEW b \in Slots PROVE Slot(b, 0) = b
  <2>1. b + 0 = b
    BY BuffSzAssumption DEF Slots
  <2>2. b % BUFF_SZ = b
    BY BuffSzAssumption DEF Slots
  <2> QED BY <2>1, <2>2 DEF Slot
<1> QED BY <1>1, <1>2, <1>3, <1>4, <1>5

(* The n elements of the ring f from slot b on. *)
Ring(f, b, n) == [i \in 1 .. n |-> f[Slot(b, i - 1)]]

(* They are a sequence of n elements. *)
LEMMA RingSeq ==
  ASSUME NEW f \in [Slots -> T], NEW b \in Slots, NEW n \in 0 .. BUFF_SZ
  PROVE  /\ Ring(f, b, n) \in Seq(T)
         /\ Len(Ring(f, b, n)) = n
         /\ \A i \in 1 .. n : Ring(f, b, n)[i] = f[Slot(b, i - 1)]
<1>1. n \in Nat
  BY BuffSzAssumption
<1>2. ASSUME NEW i \in 1 .. n PROVE f[Slot(b, i - 1)] \in T
  <2>1. i - 1 \in 0 .. BUFF_SZ
    BY BuffSzAssumption
  <2> QED BY <2>1, SlotFacts
<1>3. Ring(f, b, n) \in [1 .. n -> T]
  BY <1>2 DEF Ring
<1> QED BY <1>1, <1>3 DEF Ring

(* Writing the slot after the last element appends to the contents. *)
LEMMA RingPushBack ==
  ASSUME NEW f \in [Slots -> T], NEW b \in Slots, NEW n \in 0 .. BUFF_SZ,
         n # BUFF_SZ, NEW v \in T
  PROVE  Ring([f EXCEPT ![Slot(b, n)] = v], b, n + 1)
           = Append(Ring(f, b, n), v)
<1> DEFINE g == [f EXCEPT ![Slot(b, n)] = v]
<1>1. n + 1 \in 0 .. BUFF_SZ /\ n \in Nat
  BY BuffSzAssumption
<1>2. Slot(b, n) \in Slots /\ g \in [Slots -> T]
  BY SlotFacts
<1>3. /\ Ring(g, b, n + 1) \in Seq(T)
      /\ Len(Ring(g, b, n + 1)) = n + 1
      /\ \A i \in 1 .. n + 1 : Ring(g, b, n + 1)[i] = g[Slot(b, i - 1)]
  BY <1>1, <1>2, RingSeq
<1>4. /\ Ring(f, b, n) \in Seq(T)
      /\ Len(Ring(f, b, n)) = n
      /\ \A i \in 1 .. n : Ring(f, b, n)[i] = f[Slot(b, i - 1)]
  BY RingSeq
<1>5. /\ Append(Ring(f, b, n), v) \in Seq(T)
      /\ Len(Append(Ring(f, b, n), v)) = n + 1
      /\ \A i \in 1 .. n : Append(Ring(f, b, n), v)[i] = f[Slot(b, i - 1)]
      /\ Append(Ring(f, b, n), v)[n + 1] = v
  BY <1>4, AppendProperties
<1>6. ASSUME NEW i \in 1 .. n PROVE g[Slot(b, i - 1)] = f[Slot(b, i - 1)]
  <2>1. i - 1 \in 0 .. BUFF_SZ /\ i - 1 < n /\ n < (i - 1) + BUFF_SZ
    BY <1>1, BuffSzAssumption
  <2>2. Slot(b, i - 1) # Slot(b, n) /\ Slot(b, i - 1) \in Slots
    BY <2>1, SlotFacts
  <2> QED BY <2>2
<1>7. g[Slot(b, (n + 1) - 1)] = v
  BY <1>1, <1>2
<1>8. ASSUME NEW i \in 1 .. n + 1
      PROVE  Ring(g, b, n + 1)[i] = Append(Ring(f, b, n), v)[i]
  <2>1. i \in 1 .. n \/ i = n + 1
    BY <1>1
  <2>2. CASE i \in 1 .. n
    BY <2>2, <1>3, <1>5, <1>6
  <2>3. CASE i = n + 1
    BY <2>3, <1>3, <1>5, <1>7
  <2> QED BY <2>1, <2>2, <2>3
<1> HIDE DEF g
<1>9. Ring(g, b, n + 1) = Append(Ring(f, b, n), v)
  BY <1>3, <1>5, <1>8, SeqEqual
<1> QED BY <1>9 DEF g

(* Writing the slot before the first element puts it in front. *)
LEMMA RingPushFront ==
  ASSUME NEW f \in [Slots -> T], NEW b \in Slots, NEW n \in 0 .. BUFF_SZ,
         n # BUFF_SZ, NEW v \in T
  PROVE  Ring([f EXCEPT ![Before(b)] = v], Before(b), n + 1)
           = <<v>> \o Ring(f, b, n)
<1> DEFINE g == [f EXCEPT ![Before(b)] = v]
           c == Before(b)
<1>1. n + 1 \in 0 .. BUFF_SZ /\ n \in Nat
  BY BuffSzAssumption
<1>2. c \in Slots /\ g \in [Slots -> T] /\ Slot(c, 0) = c /\ Slot(c, 1) = b
  BY SlotFacts
<1>3. /\ Ring(g, c, n + 1) \in Seq(T)
      /\ Len(Ring(g, c, n + 1)) = n + 1
      /\ \A i \in 1 .. n + 1 : Ring(g, c, n + 1)[i] = g[Slot(c, i - 1)]
  BY <1>1, <1>2, RingSeq
<1>4. /\ Ring(f, b, n) \in Seq(T)
      /\ Len(Ring(f, b, n)) = n
      /\ \A i \in 1 .. n : Ring(f, b, n)[i] = f[Slot(b, i - 1)]
  BY RingSeq
<1>5. <<v>> \in Seq(T) /\ Len(<<v>>) = 1 /\ <<v>>[1] = v
  OBVIOUS
<1>6. /\ <<v>> \o Ring(f, b, n) \in Seq(T)
      /\ Len(<<v>> \o Ring(f, b, n)) = 1 + n
      /\ \A i \in 1 .. 1 + n : (<<v>> \o Ring(f, b, n))[i] =
             IF i <= 1 THEN <<v>>[i] ELSE Ring(f, b, n)[i - 1]
  BY <1>4, <1>5, ConcatProperties
<1>7. ASSUME NEW i \in 2 .. n + 1
      PROVE  g[Slot(c, i - 1)] = Ring(f, b, n)[i - 1]
  <2>1. i - 1 \in 0 .. BUFF_SZ /\ 0 \in 0 .. BUFF_SZ /\ 0 < i - 1
          /\ i - 1 < 0 + BUFF_SZ /\ i - 1 \in 1 .. n
          /\ (i - 1) - 1 \in 0 .. BUFF_SZ - 1 /\ ((i - 1) - 1) + 1 = i - 1
    BY <1>1, BuffSzAssumption
  <2>2. Slot(c, i - 1) # c /\ Slot(c, i - 1) \in Slots
    <3>1. Slot(c, 0) # Slot(c, i - 1)
      BY <2>1, <1>2, SlotFacts
    <3> QED BY <3>1, <2>1, <1>2, SlotFacts
  <2>3. Slot(b, (i - 1) - 1) = Slot(c, i - 1)
    BY <2>1, <1>2, SlotFacts
  <2>4. g[Slot(c, i - 1)] = f[Slot(c, i - 1)]
    BY <2>2
  <2> QED BY <2>1, <2>3, <2>4, <1>4
<1>8. g[Slot(c, 1 - 1)] = v
  BY <1>2
<1>9. ASSUME NEW i \in 1 .. n + 1
      PROVE  Ring(g, c, n + 1)[i] = (<<v>> \o Ring(f, b, n))[i]
  <2>1. i = 1 \/ i \in 2 .. n + 1
    BY <1>1
  <2>2. CASE i = 1
    <3>1. 1 \in 1 .. n + 1 /\ 1 \in 1 .. 1 + n
      BY <1>1
    <3>2. (<<v>> \o Ring(f, b, n))[1] = v
      BY <3>1, <1>5, <1>6
    <3> HIDE DEF g, c
    <3>3. Ring(g, c, n + 1)[1] = v
      BY <3>1, <1>3, <1>8
    <3> QED BY <2>2, <3>2, <3>3
  <2>3. CASE i \in 2 .. n + 1
    <3>1. ~(i <= 1) /\ i \in 1 .. 1 + n
      BY <2>3, <1>1
    <3> HIDE DEF g, c
    <3> QED BY <2>3, <3>1, <1>3, <1>6, <1>7
  <2> QED BY <2>1, <2>2, <2>3
<1> HIDE DEF g, c
<1>10. n + 1 = 1 + n
  BY <1>1
<1>11. Ring(g, c, n + 1) = <<v>> \o Ring(f, b, n)
  BY <1>3, <1>6, <1>9, <1>10, SeqEqual
<1> QED BY <1>11 DEF g, c

(* Moving base_in on by one slot drops the first element. *)
LEMMA RingPopFront ==
  ASSUME NEW f \in [Slots -> T], NEW b \in Slots, NEW n \in 0 .. BUFF_SZ,
         n # 0
  PROVE  Ring(f, Slot(b, 1), n - 1) = Tail(Ring(f, b, n))
<1> DEFINE c == Slot(b, 1)
<1>1. n - 1 \in 0 .. BUFF_SZ /\ n \in Nat /\ 1 \in 0 .. BUFF_SZ
  BY BuffSzAssumption
<1>2. c \in Slots
  BY <1>1, SlotFacts
<1>3. /\ Ring(f, c, n - 1) \in Seq(T)
      /\ Len(Ring(f, c, n - 1)) = n - 1
      /\ \A i \in 1 .. n - 1 : Ring(f, c, n - 1)[i] = f[Slot(c, i - 1)]
  BY <1>1, <1>2, RingSeq
<1>4. /\ Ring(f, b, n) \in Seq(T)
      /\ Len(Ring(f, b, n)) = n
      /\ \A i \in 1 .. n : Ring(f, b, n)[i] = f[Slot(b, i - 1)]
  BY RingSeq
<1>5. Ring(f, b, n) # <<>>
  BY <1>4
<1>6. /\ Tail(Ring(f, b, n)) \in Seq(T)
      /\ Len(Tail(Ring(f, b, n))) = n - 1
      /\ \A i \in 1 .. n - 1 : Tail(Ring(f, b, n))[i] = Ring(f, b, n)[i + 1]
  BY <1>4, <1>5, HeadTailProperties
<1>7. ASSUME NEW i \in 1 .. n - 1
      PROVE  Ring(f, c, n - 1)[i] = Tail(Ring(f, b, n))[i]
  <2>1. i - 1 \in 0 .. BUFF_SZ - 1 /\ (i - 1) + 1 = (i + 1) - 1
          /\ i + 1 \in 1 .. n
    BY <1>1, BuffSzAssumption
  <2>2. Slot(c, i - 1) = Slot(b, (i + 1) - 1)
    BY <2>1, SlotFacts
  <2> HIDE DEF c
  <2> QED BY <2>1, <2>2, <1>3, <1>4, <1>6
<1> HIDE DEF c
<1>8. Ring(f, c, n - 1) = Tail(Ring(f, b, n))
  BY <1>3, <1>6, <1>7, SeqEqual
<1> QED BY <1>8 DEF c

(* Counting one element less drops the last element. *)
LEMMA RingPopBack ==
  ASSUME NEW f \in [Slots -> T], NEW b \in Slots, NEW n \in 0 .. BUFF_SZ,
         n # 0
  PROVE  Ring(f, b, n - 1) = SubSeq(Ring(f, b, n), 1, n - 1)
<1>1. n - 1 \in 0 .. BUFF_SZ /\ n \in Nat /\ n - 1 \in Int /\ 1 \in Int
  BY BuffSzAssumption
<1>2. /\ Ring(f, b, n - 1) \in Seq(T)
      /\ Len(Ring(f, b, n - 1)) = n - 1
      /\ \A i \in 1 .. n - 1 : Ring(f, b, n - 1)[i] = f[Slot(b, i - 1)]
  BY <1>1, RingSeq
<1>3. /\ Ring(f, b, n) \in Seq(T)
      /\ Len(Ring(f, b, n)) = n
      /\ \A i \in 1 .. n : Ring(f, b, n)[i] = f[Slot(b, i - 1)]
  BY RingSeq
<1>4. \A i \in 1 .. n - 1 : Ring(f, b, n)[i] \in T
  BY <1>1, <1>3
<1>5. /\ SubSeq(Ring(f, b, n), 1, n - 1) \in Seq(T)
      /\ Len(SubSeq(Ring(f, b, n), 1, n - 1)) =
            IF 1 <= n - 1 THEN (n - 1) - 1 + 1 ELSE 0
      /\ \A i \in 1 .. (n - 1) - 1 + 1 :
            SubSeq(Ring(f, b, n), 1, n - 1)[i] = Ring(f, b, n)[1 + i - 1]
  BY <1>1, <1>4, SubSeqProperties
<1>6. Len(SubSeq(Ring(f, b, n), 1, n - 1)) = n - 1
  BY <1>1, <1>5
<1>7. ASSUME NEW i \in 1 .. n - 1
      PROVE  Ring(f, b, n - 1)[i] = SubSeq(Ring(f, b, n), 1, n - 1)[i]
  <2>1. i \in 1 .. (n - 1) - 1 + 1 /\ 1 + i - 1 = i /\ i \in 1 .. n
    BY <1>1
  <2> QED BY <2>1, <1>2, <1>3, <1>5
<1> QED BY <1>2, <1>5, <1>6, <1>7, SeqEqual

(* A refused call changes nothing but what it returns. *)
LEMMA RefusedKeepsType ==
  ASSUME TypeOK, ret' = Refused, UNCHANGED <<buff, base_in, count>>
  PROVE  TypeOK'
  BY DEF TypeOK, Refused

(* The values a call returns. *)
LEMMA RetType ==
  ASSUME NEW val \in T \cup {Nullptr}
  PROVE  Ok(val) \in [ok : BOOLEAN, val : T \cup {Nullptr}]
  BY DEF Ok

(* The fields stay within their ranges: no index of buff is ever out of    *)
(* bounds.                                                                 *)
THEOREM TypeCorrect == Spec => []TypeOK
<1>1. Init => TypeOK
  BY BuffSzAssumption, ElementAssumption DEF Init, TypeOK, Slots, Refused
<1>2. TypeOK /\ [Next]_vars => TypeOK'
  <2> SUFFICES ASSUME TypeOK, [Next]_vars
               PROVE  TypeOK'
    OBVIOUS
  <2>0. Ok(Nullptr) \in [ok : BOOLEAN, val : T \cup {Nullptr}]
    BY RetType
  <2>1. ASSUME NEW val \in T, push_back(val)
        PROVE  TypeOK'
    <3>1. CASE is_full
      BY <2>1, <3>1, RefusedKeepsType DEF push_back
    <3>2. CASE ~is_full
      <4>1. count + 1 \in 0 .. BUFF_SZ
        BY <3>2, BuffSzAssumption DEF TypeOK, is_full
      <4> QED BY <2>0, <2>1, <3>2, <4>1 DEF push_back, TypeOK
    <3> QED BY <3>1, <3>2
  <2>2. ASSUME NEW val \in T, push_front(val)
        PROVE  TypeOK'
    <3>1. CASE is_full
      BY <2>2, <3>1, RefusedKeepsType DEF push_front
    <3>2. CASE ~is_full
      <4>1. count + 1 \in 0 .. BUFF_SZ
        BY <3>2, BuffSzAssumption DEF TypeOK, is_full
      <4>2. base_in' \in Slots
        BY <2>2, <3>2, RingBack DEF push_front, TypeOK
      <4> QED BY <2>0, <2>2, <3>2, <4>1, <4>2 DEF push_front, TypeOK
    <3> QED BY <3>1, <3>2
  <2>3. CASE pop_front
    <3>1. CASE is_empty
      BY <2>3, <3>1, RefusedKeepsType DEF pop_front
    <3>2. CASE ~is_empty
      <4>1. count - 1 \in 0 .. BUFF_SZ
        BY <3>2, BuffSzAssumption DEF TypeOK, is_empty
      <4>2. 1 \in 0 .. BUFF_SZ
        BY BuffSzAssumption
      <4>3. (base_in + 1) % BUFF_SZ \in Slots
        BY <4>2, RingIndex DEF TypeOK
      <4> QED BY <2>0, <2>3, <3>2, <4>1, <4>3 DEF pop_front, TypeOK
    <3> QED BY <3>1, <3>2
  <2>4. CASE pop_back
    <3>1. CASE is_empty
      BY <2>4, <3>1, RefusedKeepsType DEF pop_back
    <3>2. CASE ~is_empty
      <4>1. count - 1 \in 0 .. BUFF_SZ
        BY <3>2, BuffSzAssumption DEF TypeOK, is_empty
      <4> QED BY <2>0, <2>4, <3>2, <4>1 DEF pop_back, TypeOK
    <3> QED BY <3>1, <3>2
  <2>5. CASE front
    <3>1. CASE is_empty
      BY <2>5, <3>1, RefusedKeepsType DEF front
    <3>2. CASE ~is_empty
      BY <2>5, <3>2, RetType DEF front, TypeOK
    <3> QED BY <3>1, <3>2
  <2>6. CASE rear
    <3>1. CASE is_empty
      BY <2>6, <3>1, RefusedKeepsType DEF rear
    <3>2. CASE ~is_empty
      <4>1. count - 1 \in 0 .. BUFF_SZ
              /\ base_in + count - 1 = base_in + (count - 1)
        BY <3>2, BuffSzAssumption DEF TypeOK, is_empty, Slots
      <4>2. (base_in + count - 1) % BUFF_SZ \in Slots
        BY <4>1, RingIndex DEF TypeOK
      <4> QED BY <2>6, <3>2, <4>2, RetType DEF rear, TypeOK
    <3> QED BY <3>1, <3>2
  <2>7. CASE clear
    BY <2>7, BuffSzAssumption DEF clear, TypeOK
  <2>8. CASE UNCHANGED vars
    BY <2>8 DEF vars, TypeOK
  <2> QED BY <2>1, <2>2, <2>3, <2>4, <2>5, <2>6, <2>7, <2>8 DEF Next
<1> QED BY <1>1, <1>2, PTL DEF Spec

(* The contents, before and after a step, as the ring they are read from. *)
LEMMA ContentsIsRing ==
  ASSUME TypeOK, TypeOK'
  PROVE  /\ Contents = Ring(buff, base_in, count)
         /\ Contents' = Ring(buff', base_in', count')
<1>1. \A i \in 1 .. count : base_in + i - 1 = base_in + (i - 1)
  BY BuffSzAssumption DEF TypeOK, Slots
<1>2. \A i \in 1 .. count' : base_in' + i - 1 = base_in' + (i - 1)
  BY BuffSzAssumption DEF TypeOK, Slots
<1> QED BY <1>1, <1>2 DEF Contents, Ring, Slot

(* Each call of the ring is the call of the deque. *)
LEMMA StepRefines ==
  ASSUME TypeOK, TypeOK', [Next]_vars
  PROVE  [Deque!Next]_(Deque!vars)
<1>1. /\ Contents = Ring(buff, base_in, count)
      /\ Contents' = Ring(buff', base_in', count')
  BY ContentsIsRing
<1>2. /\ buff \in [Slots -> T] /\ base_in \in Slots /\ count \in 0 .. BUFF_SZ
      /\ count \in Nat /\ BUFF_SZ \in Nat
  BY BuffSzAssumption DEF TypeOK
<1>3. Contents \in Seq(T) /\ Len(Contents) = count
  BY <1>1, <1>2, RingSeq
<1>4. /\ is_empty <=> Contents = <<>>
      /\ is_full <=> Len(Contents) = BUFF_SZ
      /\ ~is_full <=> Len(Contents) < BUFF_SZ
  BY <1>2, <1>3 DEF is_empty, is_full
<1>5. UNCHANGED <<buff, base_in, count>> => Contents' = Contents
  BY <1>1
<1>6. ASSUME NEW val \in T, push_back(val)
      PROVE  Deque!PushBack(val)
  <2>1. CASE is_full
    BY <1>4, <1>5, <1>6, <2>1
       DEF push_back, Deque!PushBack, Refused, Deque!Refused
  <2>2. CASE ~is_full
    <3>1. /\ buff' = [buff EXCEPT ![Slot(base_in, count)] = val]
          /\ base_in' = base_in /\ count' = count + 1 /\ ret' = Ok(Nullptr)
      BY <1>6, <2>2 DEF push_back, Slot
    <3>2. Contents' = Append(Contents, val)
      BY <1>1, <1>2, <2>2, <3>1, RingPushBack DEF is_full
    <3> QED BY <1>4, <2>2, <3>1, <3>2 DEF Deque!PushBack, Ok, Deque!Ok
  <2> QED BY <2>1, <2>2
<1>7. ASSUME NEW val \in T, push_front(val)
      PROVE  Deque!PushFront(val)
  <2>1. CASE is_full
    BY <1>4, <1>5, <1>7, <2>1
       DEF push_front, Deque!PushFront, Refused, Deque!Refused
  <2>2. CASE ~is_full
    <3>1. /\ buff' = [buff EXCEPT ![Before(base_in)] = val]
          /\ base_in' = Before(base_in) /\ count' = count + 1
          /\ ret' = Ok(Nullptr)
      BY <1>7, <2>2 DEF push_front, Before
    <3>2. Contents' = <<val>> \o Contents
      BY <1>1, <1>2, <2>2, <3>1, RingPushFront DEF is_full
    <3> QED BY <1>4, <2>2, <3>1, <3>2 DEF Deque!PushFront, Ok, Deque!Ok
  <2> QED BY <2>1, <2>2
<1>8. CASE pop_front
  <2>1. CASE is_empty
    BY <1>4, <1>5, <1>8, <2>1
       DEF pop_front, Deque!PopFront, Deque!Next, Refused, Deque!Refused
  <2>2. CASE ~is_empty
    <3>1. /\ buff' = buff /\ base_in' = Slot(base_in, 1) /\ count' = count - 1
          /\ ret' = Ok(Nullptr)
      BY <1>8, <2>2 DEF pop_front, Slot
    <3>2. Contents' = Tail(Contents)
      BY <1>1, <1>2, <2>2, <3>1, RingPopFront DEF is_empty
    <3> QED BY <1>4, <2>2, <3>1, <3>2
            DEF Deque!PopFront, Deque!Next, Ok, Deque!Ok
  <2> QED BY <2>1, <2>2
<1>9. CASE pop_back
  <2>1. CASE is_empty
    BY <1>4, <1>5, <1>9, <2>1
       DEF pop_back, Deque!PopBack, Deque!Next, Refused, Deque!Refused
  <2>2. CASE ~is_empty
    <3>1. /\ buff' = buff /\ base_in' = base_in /\ count' = count - 1
          /\ ret' = Ok(Nullptr)
      BY <1>9, <2>2 DEF pop_back
    <3>2. Contents' = SubSeq(Contents, 1, Len(Contents) - 1)
      BY <1>1, <1>2, <1>3, <2>2, <3>1, RingPopBack DEF is_empty
    <3> QED BY <1>4, <2>2, <3>1, <3>2
            DEF Deque!PopBack, Deque!Next, Ok, Deque!Ok
  <2> QED BY <2>1, <2>2
<1>10. CASE front
  <2>1. CASE is_empty
    BY <1>4, <1>5, <1>10, <2>1
       DEF front, Deque!Front, Deque!Next, Refused, Deque!Refused
  <2>2. CASE ~is_empty
    <3>1. 1 \in 1 .. count /\ 1 - 1 = 0
      BY <1>2, <2>2 DEF is_empty
    <3>2. Contents[1] = buff[Slot(base_in, 1 - 1)]
      BY <1>1, <1>2, <3>1, RingSeq
    <3>3. Contents[1] = buff[base_in]
      BY <1>2, <3>1, <3>2, SlotFacts
    <3> QED BY <1>4, <1>5, <1>10, <2>2, <3>3
            DEF front, Deque!Front, Deque!Next, Ok, Deque!Ok
  <2> QED BY <2>1, <2>2
<1>11. CASE rear
  <2>1. CASE is_empty
    BY <1>4, <1>5, <1>11, <2>1
       DEF rear, Deque!Rear, Deque!Next, Refused, Deque!Refused
  <2>2. CASE ~is_empty
    <3>1. count \in 1 .. count /\ base_in + count - 1 = base_in + (count - 1)
      BY <1>2, <2>2 DEF is_empty, Slots
    <3>2. Contents[count] = buff[Slot(base_in, count - 1)]
      BY <1>1, <1>2, <3>1, RingSeq
    <3>3. Contents[Len(Contents)] = buff[(base_in + count - 1) % BUFF_SZ]
      BY <1>3, <3>1, <3>2 DEF Slot
    <3> QED BY <1>4, <1>5, <1>11, <2>2, <3>3
            DEF rear, Deque!Rear, Deque!Next, Ok, Deque!Ok
  <2> QED BY <2>1, <2>2
<1>12. CASE clear
  <2>1. Contents' = <<>>
    BY <1>1, <1>12 DEF clear, Ring
  <2> QED BY <1>12, <2>1 DEF clear, Deque!Clear, Deque!Next
<1>13. CASE UNCHANGED vars
  BY <1>5, <1>13 DEF vars, Deque!vars
<1> QED BY <1>6, <1>7, <1>8, <1>9, <1>10, <1>11, <1>12, <1>13
        DEF Next, Deque!Next

(* circular_queue is a bounded double-ended queue for every BUFF_SZ: its   *)
(* users may reason about a sequence and forget the ring.                  *)
THEOREM Refinement == Spec => ImplementsDeque
<1>1. Init => Deque!Init
  BY DEF Init, Deque!Init, Contents, Refused, Deque!Refused
<1>2. TypeOK /\ TypeOK' /\ [Next]_vars => [Deque!Next]_(Deque!vars)
  BY StepRefines
<1> QED BY <1>1, <1>2, TypeCorrect, PTL DEF Spec, ImplementsDeque, Deque!Spec

=============================================================================
