--------------------------- MODULE ExchangeProofs ---------------------------
(***************************************************************************)
(* What the bytes of the protocols amount to, for all headers, data,       *)
(* routing tables and subnets.                                             *)
(***************************************************************************)
EXTENDS Exchange, SequenceTheorems, WellFoundedInduction, TLAPS

(* Induction over the natural numbers, for a set of them. *)
LEMMA Induction ==
  ASSUME NEW P \in SUBSET Nat, 0 \in P, \A n \in P : n + 1 \in P
  PROVE  P = Nat
<1> DEFINE R == OpToRel(<, Nat)
           S == Nat \ P
<1>1. IsWellFoundedOn(R, Nat)
  BY NatLessThanWellFounded
<1>2. \A x, y \in Nat : y < x => <<y, x>> \in R
  BY DEF OpToRel
<1> HIDE DEF R
<1>3. ASSUME S # {} PROVE FALSE
  <2>1. PICK x \in S : \A y \in S : ~(<<y, x>> \in R)
    BY <1>1, <1>3, WFMin
  <2>2. x \in Nat /\ x # 0 /\ x - 1 \in Nat /\ x - 1 < x
    <3>1. x \in Nat /\ x # 0
      BY <2>1
    <3> QED BY <3>1
  <2>3. x - 1 \in P
    BY <1>2, <2>1, <2>2
  <2>4. (x - 1) + 1 \in P
    BY <2>3
  <2>5. x \in P
    BY <2>2, <2>4
  <2> QED BY <2>1, <2>5
<1> QED BY <1>3

\* f is the recursion along 0 .. n from base by step.
Follows(f, n, base, step) ==
  f[0] = base /\ \A i \in 1 .. n : f[i] = step[f[i - 1]][i]

(* A function defined by recursion along 0 .. n exists: its value at 0 and *)
(* how each follows from the one before, as a function, determine it.      *)
LEMMA Recursion ==
  ASSUME NEW n \in Nat, NEW S, NEW base \in S, NEW step \in [S -> [Nat -> S]]
  PROVE  \E f \in [0 .. n -> S] : Follows(f, n, base, step)
<1> DEFINE P == {m \in Nat : \E f \in [0 .. m -> S] : Follows(f, m, base, step)}
<1>1. 0 \in P
  <2> DEFINE f == [i \in 0 .. 0 |-> base]
  <2>1. f \in [0 .. 0 -> S] /\ Follows(f, 0, base, step)
    BY DEF Follows
  <2> QED BY <2>1
<1>2. ASSUME NEW m \in P PROVE m + 1 \in P
  <2>1. PICK f \in [0 .. m -> S] : Follows(f, m, base, step)
    OBVIOUS
  <2> DEFINE g == [i \in 0 .. m + 1 |-> IF i = m + 1 THEN step[f[m]][i] ELSE f[i]]
  <2>2. m \in Nat /\ f[m] \in S /\ m + 1 \in Nat
    OBVIOUS
  <2>3. step[f[m]][m + 1] \in S
    BY <2>2
  <2>4. g \in [0 .. m + 1 -> S]
    <3>1. ASSUME NEW i \in 0 .. m + 1
          PROVE  (IF i = m + 1 THEN step[f[m]][i] ELSE f[i]) \in S
      <4>1. i # m + 1 => i \in 0 .. m
        BY <2>2
      <4> QED BY <2>3, <4>1
    <3> QED BY <3>1
  <2>5. g[0] = base
    <3>1. 0 \in 0 .. m + 1 /\ 0 # m + 1
      BY <2>2
    <3>2. g[0] = f[0]
      BY <3>1
    <3> QED BY <2>1, <3>2 DEF Follows
  <2>6. ASSUME NEW i \in 1 .. m + 1 PROVE g[i] = step[g[i - 1]][i]
    <3>1. CASE i = m + 1
      BY <2>2, <3>1
    <3>2. CASE i # m + 1
      <4>1. i \in 1 .. m /\ i \in 0 .. m + 1 /\ i - 1 \in 0 .. m + 1 /\ i - 1 # m + 1
        BY <2>2, <3>2
      <4>2. g[i] = f[i] /\ g[i - 1] = f[i - 1]
        BY <3>2, <4>1
      <4> QED BY <2>1, <4>1, <4>2 DEF Follows
    <3> QED BY <3>1, <3>2
  <2> HIDE DEF g
  <2>7. Follows(g, m + 1, base, step)
    BY <2>5, <2>6 DEF Follows
  <2> QED BY <2>2, <2>4, <2>7
<1> HIDE DEF P
<1>3. P = Nat
  <2>1. P \in SUBSET Nat
    BY DEF P
  <2> QED BY <1>1, <1>2, <2>1, Induction
<1> QED BY <1>3 DEF P
-----------------------------------------------------------------------------
(* Routing tables *)

\* r is the first of the rules that fit with the longest mask, 0 if none fits.
Closest(rules, fits, n, r) ==
  \/ r = 0 /\ \A i \in 1 .. n : i \notin fits
  \/ /\ r \in 1 .. n /\ r \in fits
     /\ \A i \in 1 .. n : i \in fits =>
          \/ mask_len(rules[i].mask) < mask_len(rules[r].mask)
          \/ mask_len(rules[i].mask) = mask_len(rules[r].mask) /\ r <= i

(* impl_find_route: for every table and every set of rules that fit, the   *)
(* loop finds the first of those with the longest mask.                    *)
THEOREM FindsClosest ==
  ASSUME NEW rules, Len(rules) \in Nat, NEW fits,
         \A i \in 1 .. Len(rules) : mask_len(rules[i].mask) \in Nat
  PROVE  Closest(rules, fits, Len(rules), impl_find_route(rules, fits))
<1> DEFINE N == Len(rules)
           len(i) == mask_len(rules[i].mask)
           next(best, i) == IF i \in fits /\ (best = 0 \/ len(i) > len(best)) THEN i ELSE best
           Eq(f) == f = [i \in 0 .. N |-> IF i = 0 THEN 0 ELSE next(f[i - 1], i)]
           closest == CHOOSE f : Eq(f)
           S == 0 .. N
           step == [b \in S |-> [i \in Nat |-> IF i <= N THEN next(b, i) ELSE 0]]
<1>1. impl_find_route(rules, fits) = closest[N]
  BY DEF impl_find_route
<1>2. 0 \in S /\ N \in Nat /\ step \in [S -> [Nat -> S]]
  OBVIOUS
<1>3. PICK g \in [0 .. N -> S] : Follows(g, N, 0, step)
  <2> HIDE DEF step, N, S
  <2> QED BY <1>2, Recursion
<1>4. Eq(g)
  <2>1. ASSUME NEW i \in 0 .. N, i # 0 PROVE g[i] = next(g[i - 1], i)
    <3>1. i \in 1 .. N /\ i \in Nat /\ i <= N /\ i - 1 \in 0 .. N
      BY <2>1
    <3>2. step[g[i - 1]][i] = next(g[i - 1], i)
      BY <3>1
    <3> QED BY <1>3, <3>1, <3>2 DEF Follows
  <2> HIDE DEF next
  <2>2. g = [i \in 0 .. N |-> g[i]]
    OBVIOUS
  <2> QED BY <1>3, <2>1, <2>2 DEF Follows
<1> HIDE DEF next
<1>5. Eq(closest)
  BY <1>4
<1> HIDE DEF closest
<1> DEFINE P == {n \in Nat : n <= N => Closest(rules, fits, n, closest[n])}
<1>6. 0 \in P
  BY <1>5 DEF Closest
<1>7. ASSUME NEW n \in P PROVE n + 1 \in P
  <2> SUFFICES ASSUME n + 1 <= N PROVE Closest(rules, fits, n + 1, closest[n + 1])
    OBVIOUS
  <2>1. n \in Nat /\ n <= N /\ Closest(rules, fits, n, closest[n])
    OBVIOUS
  <2>2. closest[n + 1] = next(closest[n], n + 1)
    <3>1. n + 1 \in 0 .. N /\ n + 1 # 0 /\ (n + 1) - 1 = n
      BY <2>1
    <3> QED BY <1>5, <3>1
  <2> DEFINE r == closest[n]
  <2>3. /\ \A i \in 1 .. n + 1 : (i \in 1 .. n \/ i = n + 1) /\ len(i) \in Nat
        /\ \A i \in 1 .. n : i \in 1 .. n + 1 /\ i < n + 1
        /\ n + 1 \in 1 .. n + 1
    BY <2>1
  <2> HIDE DEF len, r
  <2>4. CASE n + 1 \notin fits
    BY <2>1, <2>2, <2>3, <2>4 DEF Closest, next, r
  <2>5. CASE n + 1 \in fits /\ r = 0
    BY <2>1, <2>2, <2>3, <2>5 DEF Closest, next, r, len
  <2>6. CASE n + 1 \in fits /\ r # 0
    <3>1. /\ r \in 1 .. n /\ r \in fits
          /\ \A i \in 1 .. n : i \in fits => len(i) < len(r) \/ (len(i) = len(r) /\ r <= i)
      BY <2>1, <2>6 DEF Closest, r, len
    <3>2. CASE len(n + 1) > len(r)
      <4>1. closest[n + 1] = n + 1
        BY <2>2, <2>6, <3>2 DEF next, r
      <4>2. \A i \in 1 .. n : i \in fits => len(i) < len(n + 1)
        BY <2>3, <3>1, <3>2
      <4> QED BY <2>3, <2>6, <4>1, <4>2 DEF Closest, len
    <3>3. CASE ~(len(n + 1) > len(r))
      <4>1. closest[n + 1] = r
        BY <2>2, <2>6, <3>3 DEF next, r
      <4>2. len(n + 1) < len(r) \/ (len(n + 1) = len(r) /\ r <= n + 1)
        BY <2>1, <2>3, <3>1, <3>3
      <4> QED BY <2>3, <2>6, <3>1, <4>1, <4>2 DEF Closest, len
    <3> QED BY <3>2, <3>3
  <2> QED BY <2>4, <2>5, <2>6
<1> HIDE DEF P
<1>8. P = Nat
  <2>1. P \in SUBSET Nat
    BY DEF P
  <2> QED BY <1>6, <1>7, <2>1, Induction
<1> QED BY <1>1, <1>8 DEF P

-----------------------------------------------------------------------------
(* Bytes and where they are *)

(* Two sequences joined: the elements of the first, then those of the       *)
(* second.                                                                  *)
LEMMA Joined ==
  ASSUME NEW T, NEW s \in Seq(T), NEW t \in Seq(T)
  PROVE  /\ s \o t \in Seq(T) /\ Len(s \o t) = Len(s) + Len(t)
         /\ \A i \in 1 .. Len(s) : (s \o t)[i] = s[i]
         /\ \A i \in 1 .. Len(t) : (s \o t)[Len(s) + i] = t[i]
  OBVIOUS

(* 0 is a 16-bit number. *)
LEMMA ZeroIsWord == 0 \in Word
  BY SMT DEF Word

(* A 16-bit number has a high byte and a low one. *)
LEMMA WordParts ==
  ASSUME NEW n \in Word
  PROVE  \E q \in Byte, r \in Byte : n = 256 * q + r /\ n \div 256 = q /\ n % 256 = r
<1>1. n \in Int /\ 0 <= n /\ n <= 65535
  BY SMT DEF Word
<1>2. n \div 256 \in Byte
  BY <1>1, SMT DEF Byte
<1>3. n % 256 \in Byte
  BY <1>1, SMT DEF Byte
<1>4. 256 * (n \div 256) + (n % 256) = n
  <2>1. \A k \in Int : 256 * (k \div 256) + (k % 256) = k
    BY SMT
  <2> QED BY <1>1, <2>1
<1> DEFINE q == n \div 256
           r == n % 256
<1>5. q \in Byte /\ r \in Byte /\ n = 256 * q + r /\ n \div 256 = q /\ n % 256 = r
  BY <1>2, <1>3, <1>4
<1> HIDE DEF q, r
<1> QED BY <1>5

(* A byte modulo 256 is itself. *)
LEMMA ByteMod ==
  ASSUME NEW q \in Byte
  PROVE  q % 256 = q
  BY SMT DEF Byte

(* htons: the high byte first, then the low one. *)
LEMMA Words ==
  ASSUME NEW n \in Word
  PROVE  \E q \in Byte, r \in Byte : n = 256 * q + r /\ htons(n) = <<q, r>>
<1>1. PICK q \in Byte, r \in Byte : n = 256 * q + r /\ n \div 256 = q /\ n % 256 = r
  BY WordParts
<1>2. q % 256 = q
  BY ByteMod
<1>3. htons(n) = <<q, r>>
  BY <1>1, <1>2, Zenon DEF htons
<1> QED BY <1>1, <1>3, Zenon


\* The bytes f are in b behind the first i.
At(b, i, f) == i + Len(f) <= Len(b) /\ \A k \in 1 .. Len(f) : b[i + k] = f[k]

(* Of two joined sequences, the first is in front and the second behind it. *)
LEMMA AtEnd ==
  ASSUME NEW s \in Seq(Byte), NEW t \in Seq(Byte)
  PROVE  At(s \o t, Len(s), t) /\ At(s \o t, 0, s) /\ At(s, 0, s)
<1>1. Len(s) \in Nat /\ Len(t) \in Nat
  OBVIOUS
<1>2. /\ Len(s \o t) = Len(s) + Len(t)
      /\ \A i \in 1 .. Len(s) : (s \o t)[i] = s[i]
      /\ \A i \in 1 .. Len(t) : (s \o t)[Len(s) + i] = t[i]
  BY Joined
<1>3. \A i \in 1 .. Len(s) : 0 + i = i
  BY <1>1
<1> QED BY <1>1, <1>2, <1>3 DEF At

(* Bytes stay where they are when others are put behind. *)
LEMMA AtKept ==
  ASSUME NEW s \in Seq(Byte), NEW t \in Seq(Byte), NEW i \in Nat, NEW f \in Seq(Byte), At(s, i, f)
  PROVE  At(s \o t, i, f)
<1>1. Len(s) \in Nat /\ Len(t) \in Nat /\ Len(f) \in Nat
  OBVIOUS
<1>2. /\ Len(s \o t) = Len(s) + Len(t)
      /\ \A k \in 1 .. Len(s) : (s \o t)[k] = s[k]
  BY Joined
<1>3. \A k \in 1 .. Len(f) : i + k \in 1 .. Len(s)
  BY <1>1 DEF At
<1> QED BY <1>1, <1>2, <1>3 DEF At

\* The n bytes of b behind the first i.
Field(b, i, n) == SubSeq(b, i + 1, i + n)

(* Bytes that are somewhere are what is read there. *)
LEMMA AtField ==
  ASSUME NEW b \in Seq(Byte), NEW i \in Nat, NEW f \in Seq(Byte), At(b, i, f)
  PROVE  Field(b, i, Len(f)) = f
<1> DEFINE n == Len(f)
           l == i + 1
           r == i + n
<1>1. Len(b) \in Nat /\ n \in Nat
  OBVIOUS
<1>2. i + n <= Len(b) /\ \A k \in 1 .. n : b[i + k] = f[k]
  BY DEF At
<1>3. \A k \in l .. r : b[k] \in Byte
  <2>1. \A k \in l .. r : k \in 1 .. Len(b)
    BY <1>1, <1>2
  <2> QED BY <2>1, ElementOfSeq
<1>4. l \in Int /\ r \in Int /\ r - l + 1 = n /\ \A k \in 1 .. n : l + k - 1 = i + k
  BY <1>1
<1>5. l <= r <=> n > 0
  BY <1>1
<1> HIDE DEF l, r
<1> DEFINE s == SubSeq(b, l, r)
<1>6. /\ s \in Seq(Byte)
      /\ Len(s) = IF l <= r THEN r - l + 1 ELSE 0
      /\ \A k \in 1 .. r - l + 1 : s[k] = b[l + k - 1]
  BY <1>3, <1>4, SubSeqProperties
<1> HIDE DEF s
<1>7. Len(s) = n
  BY <1>1, <1>4, <1>5, <1>6
<1>8. \A k \in 1 .. n : s[k] = f[k]
  BY <1>2, <1>4, <1>6
<1>9. s = f
  BY <1>6, <1>7, <1>8, SeqEqual
<1> QED BY <1>9 DEF Field, s, l, r

\* What joining 2 pieces gives.
Pieces2(p1, p2) ==
  LET b == p1 \o p2
  IN  /\ b \in Seq(Byte) /\ Len(b) = Len(p1) + Len(p2)
      /\ At(b, 0, p1)
      /\ At(b, Len(p1), p2)

(* Two pieces, joined, are where they belong. *)
LEMMA Parts2 ==
  ASSUME NEW p1 \in Seq(Byte), NEW p2 \in Seq(Byte)
  PROVE  Pieces2(p1, p2)
<1>1. Len(p1) \in Nat /\ Len(p2) \in Nat
  OBVIOUS
<1> QED BY <1>1, AtEnd, Joined DEF Pieces2

\* What joining 3 pieces gives.
Pieces3(p1, p2, p3) ==
  LET b == p1 \o p2 \o p3
  IN  /\ b \in Seq(Byte) /\ Len(b) = Len(p1) + Len(p2) + Len(p3)
      /\ At(b, 0, p1)
      /\ At(b, Len(p1), p2)
      /\ At(b, Len(p1) + Len(p2), p3)

(* Three pieces, joined, are where they belong. *)
LEMMA Parts3 ==
  ASSUME NEW p1 \in Seq(Byte), NEW p2 \in Seq(Byte), NEW p3 \in Seq(Byte)
  PROVE  Pieces3(p1, p2, p3)
<1> DEFINE a == p1 \o p2
<1>1. /\ a \in Seq(Byte) /\ Len(a) = Len(p1) + Len(p2)
      /\ At(a, 0, p1)
      /\ At(a, Len(p1), p2)
  BY Parts2 DEF Pieces2
<1>2. Len(p1) \in Nat /\ Len(p2) \in Nat /\ Len(p3) \in Nat
  OBVIOUS
<1> HIDE DEF a
<1>3. a \o p3 \in Seq(Byte) /\ Len(a \o p3) = Len(a) + Len(p3) /\ At(a \o p3, Len(a), p3)
  BY <1>1, AtEnd, Joined
<1>4. /\ At(a \o p3, 0, p1)
  BY <1>1, AtKept
<1>5. At(a \o p3, Len(p1), p2)
  <2>1. Len(p1) \in Nat
    BY <1>2
  <2> QED BY <1>1, <2>1, AtKept
<1> QED BY <1>1, <1>2, <1>3, <1>4, <1>5 DEF a, Pieces3

\* What joining 4 pieces gives.
Pieces4(p1, p2, p3, p4) ==
  LET b == p1 \o p2 \o p3 \o p4
  IN  /\ b \in Seq(Byte) /\ Len(b) = Len(p1) + Len(p2) + Len(p3) + Len(p4)
      /\ At(b, 0, p1)
      /\ At(b, Len(p1), p2)
      /\ At(b, Len(p1) + Len(p2), p3)
      /\ At(b, Len(p1) + Len(p2) + Len(p3), p4)

(* Four pieces, joined, are where they belong. *)
LEMMA Parts4 ==
  ASSUME NEW p1 \in Seq(Byte), NEW p2 \in Seq(Byte), NEW p3 \in Seq(Byte), NEW p4 \in Seq(Byte)
  PROVE  Pieces4(p1, p2, p3, p4)
<1> DEFINE a == p1 \o p2 \o p3
<1>1. /\ a \in Seq(Byte) /\ Len(a) = Len(p1) + Len(p2) + Len(p3)
      /\ At(a, 0, p1)
      /\ At(a, Len(p1), p2)
      /\ At(a, Len(p1) + Len(p2), p3)
  BY Parts3 DEF Pieces3
<1>2. Len(p1) \in Nat /\ Len(p2) \in Nat /\ Len(p3) \in Nat /\ Len(p4) \in Nat
  OBVIOUS
<1> HIDE DEF a
<1>3. a \o p4 \in Seq(Byte) /\ Len(a \o p4) = Len(a) + Len(p4) /\ At(a \o p4, Len(a), p4)
  BY <1>1, AtEnd, Joined
<1>4. /\ At(a \o p4, 0, p1)
  BY <1>1, AtKept
<1>5. At(a \o p4, Len(p1), p2)
  <2>1. Len(p1) \in Nat
    BY <1>2
  <2> QED BY <1>1, <2>1, AtKept
<1>6. At(a \o p4, Len(p1) + Len(p2), p3)
  <2>1. Len(p1) + Len(p2) \in Nat
    BY <1>2
  <2> QED BY <1>1, <2>1, AtKept
<1> QED BY <1>1, <1>2, <1>3, <1>4, <1>5, <1>6 DEF a, Pieces4

\* What joining 5 pieces gives.
Pieces5(p1, p2, p3, p4, p5) ==
  LET b == p1 \o p2 \o p3 \o p4 \o p5
  IN  /\ b \in Seq(Byte) /\ Len(b) = Len(p1) + Len(p2) + Len(p3) + Len(p4) + Len(p5)
      /\ At(b, 0, p1)
      /\ At(b, Len(p1), p2)
      /\ At(b, Len(p1) + Len(p2), p3)
      /\ At(b, Len(p1) + Len(p2) + Len(p3), p4)
      /\ At(b, Len(p1) + Len(p2) + Len(p3) + Len(p4), p5)

(* Five pieces, joined, are where they belong. *)
LEMMA Parts5 ==
  ASSUME NEW p1 \in Seq(Byte), NEW p2 \in Seq(Byte), NEW p3 \in Seq(Byte), NEW p4 \in Seq(Byte), NEW p5 \in Seq(Byte)
  PROVE  Pieces5(p1, p2, p3, p4, p5)
<1> DEFINE a == p1 \o p2 \o p3 \o p4
<1>1. /\ a \in Seq(Byte) /\ Len(a) = Len(p1) + Len(p2) + Len(p3) + Len(p4)
      /\ At(a, 0, p1)
      /\ At(a, Len(p1), p2)
      /\ At(a, Len(p1) + Len(p2), p3)
      /\ At(a, Len(p1) + Len(p2) + Len(p3), p4)
  BY Parts4 DEF Pieces4
<1>2. Len(p1) \in Nat /\ Len(p2) \in Nat /\ Len(p3) \in Nat /\ Len(p4) \in Nat /\ Len(p5) \in Nat
  OBVIOUS
<1> HIDE DEF a
<1>3. a \o p5 \in Seq(Byte) /\ Len(a \o p5) = Len(a) + Len(p5) /\ At(a \o p5, Len(a), p5)
  BY <1>1, AtEnd, Joined
<1>4. /\ At(a \o p5, 0, p1)
  BY <1>1, AtKept
<1>5. At(a \o p5, Len(p1), p2)
  <2>1. Len(p1) \in Nat
    BY <1>2
  <2> QED BY <1>1, <2>1, AtKept
<1>6. At(a \o p5, Len(p1) + Len(p2), p3)
  <2>1. Len(p1) + Len(p2) \in Nat
    BY <1>2
  <2> QED BY <1>1, <2>1, AtKept
<1>7. At(a \o p5, Len(p1) + Len(p2) + Len(p3), p4)
  <2>1. Len(p1) + Len(p2) + Len(p3) \in Nat
    BY <1>2
  <2> QED BY <1>1, <2>1, AtKept
<1> QED BY <1>1, <1>2, <1>3, <1>4, <1>5, <1>6, <1>7 DEF a, Pieces5

(* Bytes within bytes. *)
LEMMA AtWithin ==
  ASSUME NEW b \in Seq(Byte), NEW a \in Seq(Byte), NEW f \in Seq(Byte), NEW i \in Nat, NEW j \in Nat,
         At(b, i, a), At(a, j, f)
  PROVE  At(b, i + j, f)
<1>1. Len(b) \in Nat /\ Len(a) \in Nat /\ Len(f) \in Nat
  OBVIOUS
<1>2. i + j + Len(f) <= Len(b)
  BY <1>1 DEF At
<1>3. ASSUME NEW k \in 1 .. Len(f) PROVE b[i + j + k] = f[k]
  <2>1. a[j + k] = f[k] /\ j + k \in 1 .. Len(a) /\ i + (j + k) = i + j + k
    BY <1>1 DEF At
  <2>2. b[i + (j + k)] = a[j + k]
    BY <2>1 DEF At
  <2> QED BY <2>1, <2>2
<1> QED BY <1>2, <1>3 DEF At

\* A word in network order, read.
LEMMA AtWord ==
  ASSUME NEW b, NEW i \in Nat, NEW n \in Word, At(b, i, htons(n))
  PROVE  ntohs(b, i + 1) = n
<1>1. PICK q \in Byte, r \in Byte : n = 256 * q + r /\ htons(n) = <<q, r>>
  BY Words
<1>2. b[i + 1] = q /\ b[i + 2] = r
  <2>1. Len(htons(n)) = 2 /\ htons(n)[1] = q /\ htons(n)[2] = r
    BY <1>1
  <2>2. 1 \in 1 .. Len(htons(n)) /\ 2 \in 1 .. Len(htons(n))
    BY <2>1
  <2> QED BY <2>1, <2>2 DEF At
<1>3. (i + 1) + 1 = i + 2
  OBVIOUS
<1> QED BY <1>1, <1>2, <1>3 DEF ntohs

(* htons gives two bytes. *)
LEMMA WordBytes ==
  ASSUME NEW n \in Word
  PROVE  htons(n) \in Seq(Byte) /\ Len(htons(n)) = 2
<1>1. PICK q \in Byte, r \in Byte : htons(n) = <<q, r>>
  BY Words
<1> QED BY <1>1

(* arp: the header that is read is the one that was written, whatever       *)
(* follows.                                                                 *)
LEMMA ArpTravels ==
  ASSUME NEW h, ArpHeader(h), NEW z \in Seq(Byte)
  PROVE  /\ arp_send(h) \in Seq(Byte)
         /\ extract_arp(arp_send(h) \o z)[1] = h
<1> DEFINE p1 == htons(h.hard_type)
           p2 == htons(h.prot_type)
           p3 == <<Len(h.sender_hard), Len(h.sender_prot)>>
           p4 == htons(h.op)
           m == Len(h.sender_hard)
           n == Len(h.sender_prot)
           a == p1 \o p2 \o p3 \o p4 \o h.sender_hard
           w == a \o h.sender_prot \o h.target_hard \o h.target_prot
           b == w \o z
<1>1. /\ h.sender_hard \in Seq(Byte) /\ h.sender_prot \in Seq(Byte)
      /\ h.target_hard \in Seq(Byte) /\ h.target_prot \in Seq(Byte)
      /\ h.hard_type \in Word /\ h.prot_type \in Word /\ h.op \in Word
      /\ m \in Byte /\ n \in Byte /\ Len(h.target_hard) = m /\ Len(h.target_prot) = n
  BY DEF ArpHeader, Octets
<1>2. /\ p1 \in Seq(Byte) /\ p2 \in Seq(Byte) /\ p3 \in Seq(Byte) /\ p4 \in Seq(Byte)
      /\ Len(p1) = 2 /\ Len(p2) = 2 /\ Len(p3) = 2 /\ Len(p4) = 2
  BY <1>1, WordBytes
<1>3. write_arp(h) = w
  BY DEF write_arp
<1>4. m \in Nat /\ n \in Nat
  BY <1>1 DEF Byte
<1>5. p3[1] = m /\ p3[2] = n
  OBVIOUS
<1> HIDE DEF p1, p2, p3, p4, m, n
<1>6. /\ a \in Seq(Byte) /\ Len(a) = 8 + m
      /\ At(a, 0, p1) /\ At(a, 2, p2) /\ At(a, 4, p3) /\ At(a, 6, p4) /\ At(a, 8, h.sender_hard)
  <2>1. /\ a \in Seq(Byte) /\ Len(a) = Len(p1) + Len(p2) + Len(p3) + Len(p4) + Len(h.sender_hard)
        /\ At(a, 0, p1) /\ At(a, Len(p1), p2) /\ At(a, Len(p1) + Len(p2), p3)
        /\ At(a, Len(p1) + Len(p2) + Len(p3), p4)
        /\ At(a, Len(p1) + Len(p2) + Len(p3) + Len(p4), h.sender_hard)
    <3>1. Pieces5(p1, p2, p3, p4, h.sender_hard)
      BY <1>1, <1>2, Parts5
    <3> QED BY <3>1 DEF Pieces5
  <2>2. 2 + 2 = 4 /\ 2 + 2 + 2 = 6 /\ 2 + 2 + 2 + 2 = 8
    OBVIOUS
  <2> QED BY <1>2, <2>1, <2>2 DEF m
<1> HIDE DEF a
<1>7. w \in Seq(Byte)
  <2>1. Pieces4(a, h.sender_prot, h.target_hard, h.target_prot)
    BY <1>1, <1>6, Parts4
  <2> QED BY <2>1 DEF Pieces4
<1>8. /\ b \in Seq(Byte)
      /\ At(b, 0, a) /\ At(b, Len(a), h.sender_prot) /\ At(b, Len(a) + n, h.target_hard)
      /\ At(b, Len(a) + n + m, h.target_prot)
  <2>1. /\ b \in Seq(Byte)
        /\ At(b, 0, a) /\ At(b, Len(a), h.sender_prot) /\ At(b, Len(a) + Len(h.sender_prot), h.target_hard)
        /\ At(b, Len(a) + Len(h.sender_prot) + Len(h.target_hard), h.target_prot)
    <3>1. Pieces5(a, h.sender_prot, h.target_hard, h.target_prot, z)
      BY <1>1, <1>6, Parts5
    <3> QED BY <3>1 DEF Pieces5
  <2> QED BY <1>1, <2>1 DEF n
<1> HIDE DEF b, w
<1>9. /\ At(b, 0, p1) /\ At(b, 2, p2) /\ At(b, 4, p3) /\ At(b, 6, p4) /\ At(b, 8, h.sender_hard)
  <2>1. 0 + 0 = 0 /\ 0 + 2 = 2 /\ 0 + 4 = 4 /\ 0 + 6 = 6 /\ 0 + 8 = 8
    OBVIOUS
  <2> QED BY <1>1, <1>2, <1>6, <1>8, <2>1, AtWithin
<1>10. ntohs(b, 1) = h.hard_type /\ ntohs(b, 3) = h.prot_type /\ ntohs(b, 7) = h.op
  <2>1. ntohs(b, 0 + 1) = h.hard_type
    BY <1>1, <1>9, AtWord DEF p1
  <2>2. ntohs(b, 2 + 1) = h.prot_type
    BY <1>1, <1>9, AtWord DEF p2
  <2>3. ntohs(b, 6 + 1) = h.op
    BY <1>1, <1>9, AtWord DEF p4
  <2> QED BY <2>1, <2>2, <2>3, 0 + 1 = 1, 2 + 1 = 3, 6 + 1 = 7
<1>11. b[5] = m /\ b[6] = n
  BY <1>2, <1>5, <1>9 DEF At
<1>12. SubSeq(b, 9, 9 + m - 1) = h.sender_hard
  <2>1. 9 = (8) + 1 /\ 9 + m - 1 = (8) + m /\ 8 \in Nat
    BY <1>4, <1>6
  <2>2. Len(h.sender_hard) = m
    BY <1>1 DEF m, n
  <2>3. Field(b, 8, Len(h.sender_hard)) = h.sender_hard
    BY <1>1, <1>8, <1>9, <2>1, AtField
  <2> QED BY <2>1, <2>2, <2>3 DEF Field
<1>13. SubSeq(b, 9 + m, 9 + m + n - 1) = h.sender_prot
  <2>1. 9 + m = (Len(a)) + 1 /\ 9 + m + n - 1 = (Len(a)) + n /\ Len(a) \in Nat
    BY <1>4, <1>6
  <2>2. Len(h.sender_prot) = n
    BY <1>1 DEF m, n
  <2>3. Field(b, Len(a), Len(h.sender_prot)) = h.sender_prot
    BY <1>1, <1>8, <1>9, <2>1, AtField
  <2> QED BY <2>1, <2>2, <2>3 DEF Field
<1>14. SubSeq(b, 9 + m + n, 9 + m + n + m - 1) = h.target_hard
  <2>1. 9 + m + n = (Len(a) + n) + 1 /\ 9 + m + n + m - 1 = (Len(a) + n) + m /\ Len(a) + n \in Nat
    BY <1>4, <1>6
  <2>2. Len(h.target_hard) = m
    BY <1>1 DEF m, n
  <2>3. Field(b, Len(a) + n, Len(h.target_hard)) = h.target_hard
    BY <1>1, <1>8, <1>9, <2>1, AtField
  <2> QED BY <2>1, <2>2, <2>3 DEF Field
<1>15. SubSeq(b, 9 + 2 * m + n, 9 + 2 * m + n + n - 1) = h.target_prot
  <2>1. 9 + 2 * m + n = (Len(a) + n + m) + 1 /\ 9 + 2 * m + n + n - 1 = (Len(a) + n + m) + n /\ Len(a) + n + m \in Nat
    BY <1>4, <1>6
  <2>2. Len(h.target_prot) = n
    BY <1>1 DEF m, n
  <2>3. Field(b, Len(a) + n + m, Len(h.target_prot)) = h.target_prot
    BY <1>1, <1>8, <1>9, <2>1, AtField
  <2> QED BY <2>1, <2>2, <2>3 DEF Field
<1>16. extract_arp(b)[1] =
         [hard_type |-> h.hard_type, prot_type |-> h.prot_type, op |-> h.op,
          sender_hard |-> h.sender_hard, sender_prot |-> h.sender_prot,
          target_hard |-> h.target_hard, target_prot |-> h.target_prot]
  BY <1>10, <1>11, <1>12, <1>13, <1>14, <1>15 DEF extract_arp
<1> QED BY <1>3, <1>7, <1>16 DEF arp_send, b, ArpHeader

-----------------------------------------------------------------------------
(* The headers, written and read *)

(* Behind the bytes written first comes the rest. *)
LEMMA Behind ==
  ASSUME NEW w \in Seq(Byte), NEW d \in Seq(Byte), NEW z \in Seq(Byte)
  PROVE  drop((w \o d) \o z, Len(w)) = d \o z
<1> DEFINE n == Len(w)
           c == d \o z
           b == w \o c
<1>1. c \in Seq(Byte) /\ (w \o d) \o z = b
  BY ConcatAssociative, Joined
<1> HIDE DEF c
<1>2. b \in Seq(Byte) /\ Len(b) = n + Len(c) /\ At(b, n, c) /\ n \in Nat /\ Len(c) \in Nat
  BY <1>1, AtEnd, Joined
<1> HIDE DEF b
<1>3. Field(b, n, Len(c)) = c
  BY <1>1, <1>2, AtField
<1>4. SubSeq(b, n + 1, Len(b)) = c
  BY <1>2, <1>3 DEF Field
<1> QED BY <1>1, <1>4 DEF drop, c

(* ether2 *)
LEMMA Ether2Travels ==
  ASSUME NEW h, Ether2Header(h), NEW d \in Seq(Byte), NEW z \in Seq(Byte)
  PROVE  /\ ether2_send(h, d) \in Seq(Byte)
         /\ extract_ether2(ether2_send(h, d) \o z) = <<h, 14>>
         /\ drop(ether2_send(h, d) \o z, 14) = d \o z
<1> DEFINE p1 == h.dest_addr
           p2 == h.src_addr
           p3 == htons(h.prot)
           w == p1 \o p2 \o p3
           b == w \o d \o z
<1>1. /\ p1 \in Seq(Byte) /\ p2 \in Seq(Byte) /\ p3 \in Seq(Byte)
      /\ Len(p1) = 6 /\ Len(p2) = 6 /\ Len(p3) = 2 /\ h.prot \in Word
  BY WordBytes DEF Ether2Header, Octets
<1>2. ether2_send(h, d) = w \o d
  BY DEF ether2_send, write_ether2
<1>3. At(b, 12, htons(h.prot))
  <2>1. Pieces5(p1, p2, p3, d, z)
    BY <1>1, Parts5
  <2>2. At(b, Len(p1) + Len(p2), p3)
    BY <2>1 DEF Pieces5
  <2> QED BY <1>1, <2>2
<1> HIDE DEF p3
<1>4. b \in Seq(Byte) /\ At(b, 0, p1) /\ At(b, 6, p2)
  <2>1. Pieces5(p1, p2, p3, d, z)
    BY <1>1, Parts5
  <2> QED BY <1>1, <2>1 DEF Pieces5
<1>5. w \in Seq(Byte) /\ Len(w) = 14
  <2>1. Pieces3(p1, p2, p3)
    BY <1>1, Parts3
  <2>2. w \in Seq(Byte) /\ Len(w) = Len(p1) + Len(p2) + Len(p3)
    BY <2>1 DEF Pieces3
  <2> QED BY <1>1, <2>2
<1> HIDE DEF w
<1>6. w \o d \in Seq(Byte)
  BY <1>5, Joined
<1>7. drop(b, 14) = d \o z
  <2>1. drop(b, Len(w)) = d \o z
    BY <1>5, Behind
  <2> QED BY <1>5, <2>1
<1> HIDE DEF b
<1>8. ntohs(b, 13) = h.prot
  <2>1. ntohs(b, 12 + 1) = h.prot
    BY <1>1, <1>3, AtWord
  <2> QED BY <2>1
<1>9. SubSeq(b, 1, 6) = h.dest_addr
  <2>1. Field(b, 0, Len(p1)) = p1
    BY <1>1, <1>4, AtField
  <2> QED BY <1>1, <2>1, 0 + 1 = 1, 0 + 6 = 6 DEF Field
<1>10. SubSeq(b, 7, 12) = h.src_addr
  <2>1. Field(b, 6, Len(p2)) = p2
    BY <1>1, <1>4, AtField
  <2> QED BY <1>1, <2>1, 6 + 1 = 7, 6 + 6 = 12 DEF Field
<1>11. extract_ether2(b) = <<h, 14>>
  BY <1>8, <1>9, <1>10 DEF extract_ether2, Ether2Header
<1> QED BY <1>2, <1>6, <1>7, <1>11 DEF b

(* udp *)
LEMMA UdpTravels ==
  ASSUME NEW h, UdpHeader(h), NEW d \in Seq(Byte), NEW z \in Seq(Byte), 8 + Len(d) \in Word
  PROVE  /\ udp_send(h, d) \in Seq(Byte)
         /\ extract_udp(udp_send(h, d) \o z) =
              <<[src_port |-> h.src_port, dest_port |-> h.dest_port, len |-> 8 + Len(d), checksum |-> 0], 8>>
         /\ drop(udp_send(h, d) \o z, 8) = d \o z
<1> DEFINE n == 8 + Len(d)
           p1 == htons(h.src_port)
           p2 == htons(h.dest_port)
           p3 == htons(n)
           p4 == htons(0)
           w == p1 \o p2 \o p3 \o p4
           b == w \o d \o z
<1>0. h.src_port \in Word /\ h.dest_port \in Word /\ n \in Word /\ 0 \in Word
  BY ZeroIsWord DEF UdpHeader
<1>1. /\ p1 \in Seq(Byte) /\ p2 \in Seq(Byte) /\ p3 \in Seq(Byte) /\ p4 \in Seq(Byte)
      /\ Len(p1) = 2 /\ Len(p2) = 2 /\ Len(p3) = 2 /\ Len(p4) = 2
  BY <1>0, WordBytes
<1>2. udp_send(h, d) = w \o d
  <2> DEFINE r == [h EXCEPT !.len = n, !.checksum = 0]
  <2> HIDE DEF n
  <2>1. r.src_port = h.src_port /\ r.dest_port = h.dest_port /\ r.len = n /\ r.checksum = 0
    <3>1. h = [src_port |-> h.src_port, dest_port |-> h.dest_port, len |-> h.len, checksum |-> h.checksum]
      BY DEF UdpHeader
    <3> QED BY <3>1
  <2>2. udp_send(h, d) = write_udp(r) \o d
    BY DEF udp_send, n
  <2> HIDE DEF r
  <2> QED BY <2>1, <2>2 DEF write_udp
<1> HIDE DEF p1, p2, p3, p4
<1>3. /\ w \in Seq(Byte) /\ Len(w) = 8
      /\ At(w, 0, p1) /\ At(w, 2, p2) /\ At(w, 4, p3) /\ At(w, 6, p4)
  <2>1. Pieces4(p1, p2, p3, p4)
    BY <1>1, Parts4
  <2>2. 2 + 2 = 4 /\ 2 + 2 + 2 = 6 /\ 2 + 2 + 2 + 2 = 8
    OBVIOUS
  <2> QED BY <1>1, <2>1, <2>2 DEF Pieces4
<1> HIDE DEF w
<1>4. w \o d \in Seq(Byte) /\ b \in Seq(Byte)
  BY <1>3, Joined
<1>5. drop(b, 8) = d \o z
  <2>1. drop(b, Len(w)) = d \o z
    BY <1>3, Behind
  <2> QED BY <1>3, <2>1
<1>6. At(b, 0, p1) /\ At(b, 2, p2) /\ At(b, 4, p3) /\ At(b, 6, p4)
  BY <1>1, <1>3, <1>4, AtKept
<1> HIDE DEF b, n
<1>7. ntohs(b, 0 + 1) = h.src_port /\ ntohs(b, 2 + 1) = h.dest_port /\ ntohs(b, 4 + 1) = n /\ ntohs(b, 6 + 1) = 0
  BY <1>0, <1>6, AtWord DEF p1, p2, p3, p4
<1>8. ntohs(b, 1) = h.src_port /\ ntohs(b, 3) = h.dest_port /\ ntohs(b, 5) = n /\ ntohs(b, 7) = 0
  BY <1>7, 0 + 1 = 1, 2 + 1 = 3, 4 + 1 = 5, 6 + 1 = 7
<1> QED BY <1>2, <1>4, <1>5, <1>8 DEF extract_udp, b, n

\* A word as the host has it in memory.
LEMMA HostWord ==
  ASSUME NEW n \in Word
  PROVE  /\ host16(n) \in Seq(Byte) /\ Len(host16(n)) = 2
         /\ \E q \in Byte, r \in Byte : n = 256 * q + r /\ host16(n) = <<r, q>>
<1>1. PICK q \in Byte, r \in Byte : n = 256 * q + r /\ n \div 256 = q /\ n % 256 = r
  BY WordParts
<1>2. host16(n) = <<r, q>>
  BY <1>1, Zenon DEF host16
<1>3. <<r, q>> \in Seq(Byte) /\ Len(<<r, q>>) = 2
  OBVIOUS
<1>4. n = 256 * q + r
  BY <1>1
<1> QED BY <1>2, <1>3, <1>4, Zenon

(* A word as the host has it in memory, read. *)
LEMMA AtHostWord ==
  ASSUME NEW b, NEW i \in Nat, NEW n \in Word, At(b, i, host16(n))
  PROVE  from_host16(b, i + 1) = n
<1>1. PICK q \in Byte, r \in Byte : n = 256 * q + r /\ host16(n) = <<r, q>>
  BY HostWord
<1>2. b[i + 1] = r /\ b[i + 2] = q
  <2>1. Len(host16(n)) = 2 /\ host16(n)[1] = r /\ host16(n)[2] = q
    BY <1>1
  <2>2. 1 \in 1 .. Len(host16(n)) /\ 2 \in 1 .. Len(host16(n))
    BY <2>1
  <2> QED BY <2>1, <2>2 DEF At
<1>3. (i + 1) + 1 = i + 2 /\ r + 256 * q = 256 * q + r
  BY DEF Byte
<1> QED BY <1>1, <1>2, <1>3 DEF from_host16

\* A byte that is read.
LEMMA AtByte ==
  ASSUME NEW b, NEW i \in Nat, NEW x, NEW y, At(b, i, <<x, y>>)
  PROVE  b[i + 1] = x /\ b[i + 2] = y
<1>1. Len(<<x, y>>) = 2 /\ <<x, y>>[1] = x /\ <<x, y>>[2] = y
  OBVIOUS
<1>2. 1 \in 1 .. Len(<<x, y>>) /\ 2 \in 1 .. Len(<<x, y>>)
  BY <1>1
<1> QED BY <1>1, <1>2 DEF At

(* icmp, with whatever checksum *)
LEMMA IcmpTravels ==
  ASSUME NEW h, IcmpHeader(h), h.checksum \in Word, NEW d \in Seq(Byte), NEW z \in Seq(Byte)
  PROVE  /\ write_icmp(h) \o d \in Seq(Byte) /\ write_icmp(h) \in Seq(Byte) /\ Len(write_icmp(h)) = 8
         /\ extract_icmp((write_icmp(h) \o d) \o z) = <<h, 8>>
         /\ drop((write_icmp(h) \o d) \o z, 8) = d \o z
<1> DEFINE p1 == <<h.type, h.code>>
           p2 == host16(h.checksum)
           p3 == htons(h.sequence)
           p4 == htons(h.id)
           w == p1 \o p2 \o p3 \o p4
           b == w \o d \o z
<1>0. h.type \in Byte /\ h.code \in Byte /\ h.sequence \in Word /\ h.id \in Word
  BY DEF IcmpHeader
<1>1. /\ p1 \in Seq(Byte) /\ p2 \in Seq(Byte) /\ p3 \in Seq(Byte) /\ p4 \in Seq(Byte)
      /\ Len(p1) = 2 /\ Len(p2) = 2 /\ Len(p3) = 2 /\ Len(p4) = 2
  BY <1>0, WordBytes, HostWord
<1>2. write_icmp(h) = w
  BY DEF write_icmp
<1> HIDE DEF p1, p2, p3, p4
<1>3. /\ w \in Seq(Byte) /\ Len(w) = 8
      /\ At(w, 0, p1) /\ At(w, 2, p2) /\ At(w, 4, p3) /\ At(w, 6, p4)
  <2>1. Pieces4(p1, p2, p3, p4)
    BY <1>1, Parts4
  <2>2. 2 + 2 = 4 /\ 2 + 2 + 2 = 6 /\ 2 + 2 + 2 + 2 = 8
    OBVIOUS
  <2> QED BY <1>1, <2>1, <2>2 DEF Pieces4
<1> HIDE DEF w
<1>4. w \o d \in Seq(Byte) /\ b \in Seq(Byte)
  BY <1>3, Joined
<1>5. drop(b, 8) = d \o z
  <2>1. drop(b, Len(w)) = d \o z
    BY <1>3, Behind
  <2> QED BY <1>3, <2>1
<1>6. At(b, 0, p1) /\ At(b, 2, p2) /\ At(b, 4, p3) /\ At(b, 6, p4)
  BY <1>1, <1>3, <1>4, AtKept
<1> HIDE DEF b
<1>7. /\ b[0 + 1] = h.type /\ b[0 + 2] = h.code
      /\ from_host16(b, 2 + 1) = h.checksum /\ ntohs(b, 4 + 1) = h.sequence /\ ntohs(b, 6 + 1) = h.id
  BY <1>0, <1>6, AtByte, AtWord, AtHostWord DEF p1, p2, p3, p4
<1>8. /\ b[1] = h.type /\ b[2] = h.code
      /\ from_host16(b, 3) = h.checksum /\ ntohs(b, 5) = h.sequence /\ ntohs(b, 7) = h.id
  BY <1>7, 0 + 1 = 1, 0 + 2 = 2, 2 + 1 = 3, 4 + 1 = 5, 6 + 1 = 7
<1>9. extract_icmp(b) = <<h, 8>>
  BY <1>8 DEF extract_icmp, IcmpHeader
<1> QED BY <1>2, <1>3, <1>4, <1>5, <1>9 DEF b

-----------------------------------------------------------------------------
(* Subnets and their scan *)

Ips == [1 .. 4 -> Byte]
Less(x1, x2, x3, x4, y1, y2, y3, y4) ==
  \/ x1 < y1
  \/ x1 = y1 /\ x2 < y2
  \/ x1 = y1 /\ x2 = y2 /\ x3 < y3
  \/ x1 = y1 /\ x2 = y2 /\ x3 = y3 /\ x4 < y4
Below(x, y) == Less(x[1], x[2], x[3], x[4], y[1], y[2], y[3], y[4])

(* What the lowest bits of an octet make. *)
LEMMA LowBits ==
  ASSUME NEW b \in Byte, NEW r \in 0 .. 7
  PROVE  /\ low(b, r) \in 0 .. 127 /\ low(low(b, r), r) = low(b, r) /\ low(b, r) <= b
         /\ r = 0 => low(b, r) = 0
         /\ r # 0 => low(low(b, r) + 1, r) # low(b, r)
<1>0. b \in Int /\ 0 <= b /\ b <= 255
  BY DEF Byte
<1>1. CASE r = 0
  BY <1>0, <1>1, 2 ^ 0 = 1 DEF low
<1>2. CASE r = 1
  BY <1>0, <1>2, 2 ^ 1 = 2 DEF low
<1>3. CASE r = 2
  BY <1>0, <1>3, 2 ^ 2 = 4 DEF low
<1>4. CASE r = 3
  BY <1>0, <1>4, 2 ^ 3 = 8 DEF low
<1>5. CASE r = 4
  BY <1>0, <1>5, 2 ^ 4 = 16 DEF low
<1>6. CASE r = 5
  BY <1>0, <1>6, 2 ^ 5 = 32 DEF low
<1>7. CASE r = 6
  BY <1>0, <1>7, 2 ^ 6 = 64 DEF low
<1>8. CASE r = 7
  BY <1>0, <1>8, 2 ^ 7 = 128 DEF low
<1> QED BY <1>1, <1>2, <1>3, <1>4, <1>5, <1>6, <1>7, <1>8

(* generate_next_ip: the octets at the end that are 255 become 0, the one   *)
(* before them goes on.                                                     *)
LEMMA NextIp ==
  ASSUME NEW x \in Ips
  PROVE  /\ generate_next_ip(x) \in Ips
         /\ \A i \in 1 .. 4 : generate_next_ip(x)[i] =
              IF \A j \in i .. 4 : x[j] = 255 THEN 0
              ELSE IF i = 4 \/ \A j \in i + 1 .. 4 : x[j] = 255 THEN x[i] + 1 ELSE x[i]
<1>1. \A i \in 1 .. 4 : x[i] \in Int /\ 0 <= x[i] /\ x[i] <= 255
  BY DEF Ips, Byte
<1> DEFINE full == {i \in 1 .. 4 : \A j \in i .. 4 : x[j] = 255}
<1>2. generate_next_ip(x) = [i \in 1 .. 4 |-> IF i \in full THEN 0 ELSE IF i + 1 \in full \/ i = 4 THEN x[i] + 1 ELSE x[i]]
  BY DEF generate_next_ip
<1>3. ASSUME NEW i \in 1 .. 4
      PROVE  /\ i \in full <=> \A j \in i .. 4 : x[j] = 255
             /\ (i + 1 \in full \/ i = 4) <=> (i = 4 \/ \A j \in i + 1 .. 4 : x[j] = 255)
             /\ i \notin full /\ (i + 1 \in full \/ i = 4) => x[i] # 255
  <2>1. i # 4 => i + 1 \in 1 .. 4
    OBVIOUS
  <2>2. \A j \in i .. 4 : j = i \/ j \in i + 1 .. 4
    OBVIOUS
  <2>3. \A j \in 1 .. 4 : j \in full <=> \A k \in j .. 4 : x[k] = 255
    OBVIOUS
  <2>4. i = 4 => \A j \in i .. 4 : j = i
    OBVIOUS
  <2> HIDE DEF full
  <2> QED BY <1>1, <2>1, <2>2, <2>3, <2>4
<1> HIDE DEF full
<1>4. \A i \in 1 .. 4 : (IF i \in full THEN 0 ELSE IF i + 1 \in full \/ i = 4 THEN x[i] + 1 ELSE x[i]) \in Byte
  <2>1. SUFFICES ASSUME NEW i \in 1 .. 4
                 PROVE  (IF i \in full THEN 0 ELSE IF i + 1 \in full \/ i = 4 THEN x[i] + 1 ELSE x[i]) \in Byte
    OBVIOUS
  <2>2. x[i] \in Int /\ 0 <= x[i] /\ x[i] <= 255
    BY <1>1
  <2>3. i \notin full /\ (i + 1 \in full \/ i = 4) => x[i] # 255
    BY <1>3
  <2>4. 0 \in Byte /\ x[i] \in Byte /\ (x[i] # 255 => x[i] + 1 \in Byte)
    BY <2>2 DEF Byte
  <2> QED BY <2>3, <2>4
<1>5. generate_next_ip(x) \in Ips
  BY <1>2, <1>4 DEF Ips
<1> QED BY <1>2, <1>3, <1>5

\* The addresses the scan of a subnet is to ask for.
SubnetOf(m) ==
  {x \in Ips : /\ \A k \in 1 .. 4 : k <= m.bits \div 8 => x[k] = m.base[k]
               /\ \A k \in 1 .. 4 : (k = m.bits \div 8 + 1 /\ m.bits % 8 # 0) =>
                                      x[k] = low(m.base[k], m.bits % 8)}

(* A mask of at most 32 bits has at most four whole octets. *)
LEMMA Bits ==
  ASSUME NEW n \in 0 .. 32
  PROVE  /\ n \div 8 \in 0 .. 4 /\ n % 8 \in 0 .. 7
         /\ n > 0 => n \div 8 # 0 \/ n % 8 # 0
         /\ n \div 8 = 4 => n % 8 = 0
  OBVIOUS

(* The octets of an address, one by one. *)
LEMMA Components ==
  ASSUME NEW x \in Ips
  PROVE  /\ x[1] \in 0 .. 255 /\ x[2] \in 0 .. 255 /\ x[3] \in 0 .. 255 /\ x[4] \in 0 .. 255
  BY DEF Ips, Byte

(* Addresses with the same octets are the same. *)
LEMMA SameIp ==
  ASSUME NEW x \in Ips, NEW y \in Ips, x[1] = y[1], x[2] = y[2], x[3] = y[3], x[4] = y[4]
  PROVE  x = y
<1>1. \A i \in 1 .. 4 : x[i] = y[i]
  <2> SUFFICES ASSUME NEW i \in 1 .. 4 PROVE x[i] = y[i]
    OBVIOUS
  <2>1. i = 1 \/ i = 2 \/ i = 3 \/ i = 4
    OBVIOUS
  <2> QED BY <2>1
<1> QED BY <1>1 DEF Ips

\* The octets of the next address, one by one.
LEMMA NextOctets ==
  ASSUME NEW x \in Ips
  PROVE  LET y == generate_next_ip(x)
         IN  /\ y \in Ips
             /\ y[4] = IF x[4] = 255 THEN 0 ELSE x[4] + 1
             /\ y[3] = IF x[4] # 255 THEN x[3] ELSE IF x[3] = 255 THEN 0 ELSE x[3] + 1
             /\ y[2] = IF x[4] # 255 \/ x[3] # 255 THEN x[2] ELSE IF x[2] = 255 THEN 0 ELSE x[2] + 1
             /\ y[1] = IF x[4] # 255 \/ x[3] # 255 \/ x[2] # 255 THEN x[1]
                       ELSE IF x[1] = 255 THEN 0 ELSE x[1] + 1
<1> DEFINE y == generate_next_ip(x)
<1>1. y \in Ips
  BY NextIp
<1>2. \A j : j \in 4 .. 4 <=> j = 4
  OBVIOUS
<1>3. \A j : j \in 3 .. 4 <=> j = 3 \/ j = 4
  OBVIOUS
<1>4. \A j : j \in 2 .. 4 <=> j = 2 \/ j = 3 \/ j = 4
  OBVIOUS
<1>5. \A j : j \in 1 .. 4 <=> j = 1 \/ j = 2 \/ j = 3 \/ j = 4
  OBVIOUS
<1>6. y[4] = IF x[4] = 255 THEN 0 ELSE x[4] + 1
  BY NextIp, <1>2
<1>7. y[3] = IF x[4] # 255 THEN x[3] ELSE IF x[3] = 255 THEN 0 ELSE x[3] + 1
  <2>1. y[3] = IF \A j \in 3 .. 4 : x[j] = 255 THEN 0
               ELSE IF 3 = 4 \/ \A j \in 4 .. 4 : x[j] = 255 THEN x[3] + 1 ELSE x[3]
    BY NextIp, 3 + 1 = 4, 3 \in 1 .. 4
  <2> HIDE DEF y
  <2> QED BY <2>1, <1>2, <1>3
<1>8. y[2] = IF x[4] # 255 \/ x[3] # 255 THEN x[2] ELSE IF x[2] = 255 THEN 0 ELSE x[2] + 1
  <2>1. y[2] = IF \A j \in 2 .. 4 : x[j] = 255 THEN 0
               ELSE IF 2 = 4 \/ \A j \in 3 .. 4 : x[j] = 255 THEN x[2] + 1 ELSE x[2]
    BY NextIp, 2 + 1 = 3, 2 \in 1 .. 4
  <2> HIDE DEF y
  <2> QED BY <2>1, <1>3, <1>4
<1>9. y[1] = IF x[4] # 255 \/ x[3] # 255 \/ x[2] # 255 THEN x[1]
             ELSE IF x[1] = 255 THEN 0 ELSE x[1] + 1
  <2>1. y[1] = IF \A j \in 1 .. 4 : x[j] = 255 THEN 0
               ELSE IF 1 = 4 \/ \A j \in 2 .. 4 : x[j] = 255 THEN x[1] + 1 ELSE x[1]
    BY NextIp, 1 + 1 = 2, 1 \in 1 .. 4
  <2> HIDE DEF y
  <2> QED BY <2>1, <1>4, <1>5
<1> QED BY <1>1, <1>6, <1>7, <1>8, <1>9

(* is_inside_subnet holds of every address of the subnet. *)
LEMMA SubnetIsInside ==
  ASSUME NEW m, m.base \in Ips, m.bits \in 0 .. 32, NEW x \in SubnetOf(m)
  PROVE  is_inside_subnet(m, x)
<1> DEFINE n == m.bits \div 8
           r == m.bits % 8
<1>1. n \in 0 .. 4 /\ r \in 0 .. 7 /\ (n = 4 => r = 0)
  BY Bits
<1>2. x \in Ips /\ (\A k \in 1 .. 4 : k <= n => x[k] = m.base[k])
      /\ (\A k \in 1 .. 4 : (k = n + 1 /\ r # 0) => x[k] = low(m.base[k], r))
  BY DEF SubnetOf
<1> HIDE DEF n, r
<1>3. \A k \in 1 .. n : m.base[k] = x[k]
  <2>1. \A k \in 1 .. n : k \in 1 .. 4 /\ k <= n
    BY <1>1
  <2> QED BY <1>2, <2>1
<1>4. ASSUME n + 1 <= 4 PROVE low(m.base[n + 1], r) = low(x[n + 1], r)
  <2>1. n + 1 \in 1 .. 4
    BY <1>1, <1>4
  <2>2. m.base[n + 1] \in Byte /\ x[n + 1] \in Byte
    BY <1>2, <2>1 DEF Ips
  <2>3. CASE r = 0
    BY <1>1, <2>2, <2>3, LowBits
  <2>4. CASE r # 0
    BY <1>1, <1>2, <2>1, <2>2, <2>4, LowBits
  <2> QED BY <2>3, <2>4
<1> QED BY <1>3, <1>4 DEF is_inside_subnet, n, r

\* The number of octets the subnet's addresses have in common, and the last of them.
Common(m) == IF m.bits % 8 = 0 THEN m.bits \div 8 ELSE m.bits \div 8 + 1

\* With the common octets named, the subnet is those that have them.
LEMMA SubnetByOctets ==
  ASSUME NEW m, m.base \in Ips, m.bits \in 1 .. 32
  PROVE  /\ smallest_ip_addr_in_subnet(m) \in SubnetOf(m)
         /\ \A k \in 1 .. 4 : k > Common(m) => smallest_ip_addr_in_subnet(m)[k] = 0
         /\ Common(m) \in 1 .. 4
         /\ \A x \in Ips : x \in SubnetOf(m) <=>
              \A k \in 1 .. 4 : k <= Common(m) => x[k] = smallest_ip_addr_in_subnet(m)[k]
<1> DEFINE n == m.bits \div 8
           r == m.bits % 8
           s == smallest_ip_addr_in_subnet(m)
           q(i) == IF i <= n THEN m.base[i] ELSE IF i = n + 1 THEN low(m.base[i], r) ELSE 0
<1>1. n \in 0 .. 4 /\ r \in 0 .. 7 /\ (n = 4 => r = 0) /\ (n # 0 \/ r # 0)
  BY Bits
<1>2. s = [i \in 1 .. 4 |-> q(i)]
  BY DEF smallest_ip_addr_in_subnet
<1>3. \A x \in Ips : x \in SubnetOf(m) <=>
        /\ \A k \in 1 .. 4 : k <= n => x[k] = m.base[k]
        /\ \A k \in 1 .. 4 : (k = n + 1 /\ r # 0) => x[k] = low(m.base[k], r)
  BY DEF SubnetOf
<1>4. Common(m) = IF r = 0 THEN n ELSE n + 1
  BY DEF Common
<1>5. \A i \in 1 .. 4 : m.base[i] \in Byte /\ low(m.base[i], r) \in 0 .. 127
                        /\ (r = 0 => low(m.base[i], r) = 0)
  BY <1>1, LowBits DEF Ips
<1> HIDE DEF n, r
<1>6. \A i \in 1 .. 4 : s[i] \in Byte /\ s[i] = q(i)
  <2>1. \A i \in 1 .. 4 : q(i) \in Byte
    BY <1>1, <1>5 DEF Byte
  <2> HIDE DEF q, s
  <2> QED BY <1>2, <2>1
<1>7. s \in Ips
  <2> HIDE DEF q, s
  <2>1. s = [i \in 1 .. 4 |-> s[i]]
    BY <1>2
  <2> QED BY <1>6, <2>1 DEF Ips
<1> HIDE DEF s
<1>8. s \in SubnetOf(m)
  BY <1>1, <1>3, <1>6, <1>7
<1>9. \A k \in 1 .. 4 : k > Common(m) => s[k] = 0
  BY <1>1, <1>4, <1>5, <1>6
<1>10. ASSUME NEW x \in Ips
       PROVE  x \in SubnetOf(m) <=> \A k \in 1 .. 4 : k <= Common(m) => x[k] = s[k]
  BY <1>1, <1>3, <1>4, <1>6
<1>11. Common(m) \in 1 .. 4
  BY <1>1, <1>4
<1> QED BY <1>8, <1>9, <1>10, <1>11 DEF s

(* An address whose last common octet has gone on is not inside the subnet. *)
LEMMA LeavesSubnet ==
  ASSUME NEW m, m.base \in Ips, m.bits \in 1 .. 32, NEW x \in SubnetOf(m), NEW y \in Ips,
         y[Common(m)] = IF x[Common(m)] = 255 THEN 0 ELSE x[Common(m)] + 1
  PROVE  ~is_inside_subnet(m, y)
<1> DEFINE n == m.bits \div 8
           r == m.bits % 8
           c == Common(m)
<1>1. n \in 0 .. 4 /\ r \in 0 .. 7 /\ (n = 4 => r = 0) /\ (n # 0 \/ r # 0)
  BY Bits
<1>2. c = IF r = 0 THEN n ELSE n + 1
  BY DEF Common
<1>3. x \in Ips /\ (\A k \in 1 .. 4 : k <= n => x[k] = m.base[k])
      /\ (\A k \in 1 .. 4 : (k = n + 1 /\ r # 0) => x[k] = low(m.base[k], r))
  BY DEF SubnetOf
<1>4. is_inside_subnet(m, y) => /\ \A i \in 1 .. n : m.base[i] = y[i]
                                /\ n + 1 <= 4 => low(m.base[n + 1], r) = low(y[n + 1], r)
  BY DEF is_inside_subnet
<1> HIDE DEF n, r, c
<1>5. c \in 1 .. 4 /\ x[c] \in 0 .. 255 /\ m.base[c] \in Byte
  BY <1>1, <1>2, <1>3 DEF Ips, Byte
<1>6. y[c] = IF x[c] = 255 THEN 0 ELSE x[c] + 1
  BY DEF c
<1>7. y[c] # x[c]
  BY <1>5, <1>6
<1>8. CASE r = 0
  <2>1. c = n /\ c \in 1 .. n /\ c <= n
    BY <1>2, <1>5, <1>8
  <2>2. x[c] = m.base[c]
    BY <1>3, <1>5, <2>1
  <2> QED BY <1>4, <1>7, <2>1, <2>2
<1>9. CASE r # 0
  <2>1. c = n + 1 /\ n + 1 <= 4
    BY <1>2, <1>5, <1>9
  <2>2. x[c] = low(m.base[c], r)
    BY <1>3, <1>5, <1>9, <2>1
  <2>3. low(m.base[c], r) \in 0 .. 127 /\ low(low(m.base[c], r) + 1, r) # low(m.base[c], r)
    BY <1>1, <1>5, <1>9, LowBits
  <2>4. y[c] = low(m.base[c], r) + 1
    BY <1>6, <2>2, <2>3
  <2> QED BY <1>4, <2>1, <2>3, <2>4
<1> QED BY <1>8, <1>9

(* The loop goes through a subnet in the order of its addresses, and out of *)
(* it behind the last.                                                     *)
LEMMA NextInSubnet ==
  ASSUME NEW m, m.base \in Ips, m.bits \in 1 .. 32, NEW x \in SubnetOf(m)
  PROVE  LET y == generate_next_ip(x)
             passed == {z \in SubnetOf(m) : Below(z, x)} \cup {x}
         IN  \/ y \in SubnetOf(m) /\ passed = {z \in SubnetOf(m) : Below(z, y)}
             \/ ~is_inside_subnet(m, y) /\ passed = SubnetOf(m)
<1> DEFINE y == generate_next_ip(x)
           s == smallest_ip_addr_in_subnet(m)
           c == Common(m)
           passed == {z \in SubnetOf(m) : Below(z, x)} \cup {x}
<1>1. /\ x \in Ips
      /\ x[1] \in 0 .. 255 /\ x[2] \in 0 .. 255 /\ x[3] \in 0 .. 255 /\ x[4] \in 0 .. 255
  BY Components DEF SubnetOf
<1>2. /\ y \in Ips
      /\ y[4] = IF x[4] = 255 THEN 0 ELSE x[4] + 1
      /\ y[3] = IF x[4] # 255 THEN x[3] ELSE IF x[3] = 255 THEN 0 ELSE x[3] + 1
      /\ y[2] = IF x[4] # 255 \/ x[3] # 255 THEN x[2] ELSE IF x[2] = 255 THEN 0 ELSE x[2] + 1
      /\ y[1] = IF x[4] # 255 \/ x[3] # 255 \/ x[2] # 255 THEN x[1]
                ELSE IF x[1] = 255 THEN 0 ELSE x[1] + 1
  BY <1>1, NextOctets
<1>3. /\ c \in 1 .. 4
      /\ \A z \in Ips : z \in SubnetOf(m) <=> \A k \in 1 .. 4 : k <= c => z[k] = s[k]
  BY SubnetByOctets
<1>4. y[c] = (IF x[c] = 255 THEN 0 ELSE x[c] + 1) => ~is_inside_subnet(m, y)
  BY <1>2, LeavesSubnet
<1> HIDE DEF y, s, c
<1>5. ASSUME NEW z \in SubnetOf(m)
      PROVE  /\ z \in Ips
             /\ z[1] \in 0 .. 255 /\ z[2] \in 0 .. 255 /\ z[3] \in 0 .. 255 /\ z[4] \in 0 .. 255
             /\ \A k \in 1 .. 4 : k <= c => z[k] = x[k]
  <2>1. z \in Ips
    BY DEF SubnetOf
  <2> QED BY <1>1, <1>3, <2>1, Components
<1>6. y \in SubnetOf(m) <=> \A k \in 1 .. 4 : k <= c => y[k] = x[k]
  BY <1>1, <1>2, <1>3
<1>7. \A z \in SubnetOf(m) : z[1] = x[1] /\ z[2] = x[2] /\ z[3] = x[3] /\ z[4] = x[4] => z = x
  BY <1>1, <1>5, SameIp
<1> HIDE DEF passed
<1>8. ASSUME ~(y[c] = (IF x[c] = 255 THEN 0 ELSE x[c] + 1))
      PROVE  y \in SubnetOf(m) /\ \A z \in SubnetOf(m) : Below(z, y) <=> Below(z, x) \/ z = x
  <2>1. c = 1 \/ c = 2 \/ c = 3 \/ c = 4
    BY <1>3
  <2>2. \A k \in 1 .. 4 : k <= c => y[k] = x[k]
    BY <1>1, <1>2, <1>8, <2>1
  <2>3. \A z \in SubnetOf(m) : z[1] = x[1] /\ (c > 1 => z[2] = x[2]) /\ (c > 2 => z[3] = x[3]) /\ (c > 3 => z[4] = x[4])
    BY <1>5, <2>1
  <2>4. ASSUME NEW z \in SubnetOf(m) PROVE Below(z, y) <=> Below(z, x) \/ z = x
    <3> DEFINE same == z[1] = x[1] /\ z[2] = x[2] /\ z[3] = x[3] /\ z[4] = x[4]
    <3>1. z = x <=> same
      BY <1>7
    <3>2. /\ z[1] \in 0 .. 255 /\ z[2] \in 0 .. 255 /\ z[3] \in 0 .. 255 /\ z[4] \in 0 .. 255
      BY <1>5
    <3>3. c = 1 => y[1] = x[1]
      BY <2>2
    <3>4. c = 2 => y[1] = x[1] /\ y[2] = x[2]
      BY <2>2
    <3>5. c = 3 => y[1] = x[1] /\ y[2] = x[2] /\ y[3] = x[3]
      BY <2>2
    <3>6. c = 4 => y[1] = x[1] /\ y[2] = x[2] /\ y[3] = x[3] /\ y[4] = x[4]
      BY <2>2
    <3>7. c # 4
      BY <1>1, <1>2, <3>6
    <3>8. \/ y[1] = x[1] /\ y[2] = x[2] /\ y[3] = x[3] /\ y[4] = x[4] + 1
          \/ y[1] = x[1] /\ y[2] = x[2] /\ y[3] = x[3] + 1 /\ y[4] = 0 /\ x[4] = 255
          \/ y[1] = x[1] /\ y[2] = x[2] + 1 /\ y[3] = 0 /\ y[4] = 0 /\ x[4] = 255 /\ x[3] = 255
      <4>1. y[1] = x[1]
        BY <2>1, <3>3, <3>4, <3>5, <3>7
      <4> QED BY <1>1, <1>2, <4>1
    <3>9. /\ y[1] \in 0 .. 255 /\ y[2] \in 0 .. 255 /\ y[3] \in 0 .. 255 /\ y[4] \in 0 .. 255
      BY <1>2, Components
    <3>10. Less(z[1], z[2], z[3], z[4], y[1], y[2], y[3], y[4]) <=>
             Less(z[1], z[2], z[3], z[4], x[1], x[2], x[3], x[4]) \/ same
      <4>1. PICK x1 \in 0 .. 255, x2 \in 0 .. 255, x3 \in 0 .. 255, x4 \in 0 .. 255 :
              x[1] = x1 /\ x[2] = x2 /\ x[3] = x3 /\ x[4] = x4
        BY <1>1
      <4>2. PICK y1 \in 0 .. 255, y2 \in 0 .. 255, y3 \in 0 .. 255, y4 \in 0 .. 255 :
              y[1] = y1 /\ y[2] = y2 /\ y[3] = y3 /\ y[4] = y4
        BY <3>9
      <4>3. PICK z1 \in 0 .. 255, z2 \in 0 .. 255, z3 \in 0 .. 255, z4 \in 0 .. 255 :
              z[1] = z1 /\ z[2] = z2 /\ z[3] = z3 /\ z[4] = z4
        BY <3>2
      <4>4. \/ y1 = x1 /\ y2 = x2 /\ y3 = x3 /\ y4 = x4 + 1
            \/ y1 = x1 /\ y2 = x2 /\ y3 = x3 + 1 /\ y4 = 0 /\ x4 = 255
            \/ y1 = x1 /\ y2 = x2 + 1 /\ y3 = 0 /\ y4 = 0 /\ x4 = 255 /\ x3 = 255
        BY <3>8, <4>1, <4>2
      <4>5. Less(z1, z2, z3, z4, y1, y2, y3, y4) <=>
              Less(z1, z2, z3, z4, x1, x2, x3, x4) \/ (z1 = x1 /\ z2 = x2 /\ z3 = x3 /\ z4 = x4)
        BY <4>4 DEF Less
      <4> QED BY <4>1, <4>2, <4>3, <4>5, Zenon
    <3>11. Below(z, y) <=> Below(z, x) \/ same
      BY <3>10, Zenon DEF Below
    <3> HIDE DEF same
    <3> QED BY <3>1, <3>11, Zenon
  <2> QED BY <1>6, <2>2, <2>4
<1>9. ASSUME y[c] = (IF x[c] = 255 THEN 0 ELSE x[c] + 1)
      PROVE  \A z \in SubnetOf(m) : Below(z, x) \/ z = x
  <2>1. c = 1 \/ c = 2 \/ c = 3 \/ c = 4
    BY <1>3
  <2>2. (c < 2 => x[2] = 255) /\ (c < 3 => x[3] = 255) /\ (c < 4 => x[4] = 255)
    <3>1. CASE c = 1
      <4>1. y[1] = IF x[1] = 255 THEN 0 ELSE x[1] + 1
        BY <1>9, <3>1
      <4> QED BY <1>1, <1>2, <3>1, <4>1
    <3>2. CASE c = 2
      <4>1. y[2] = IF x[2] = 255 THEN 0 ELSE x[2] + 1
        BY <1>9, <3>2
      <4> QED BY <1>1, <1>2, <3>2, <4>1
    <3>3. CASE c = 3
      <4>1. y[3] = IF x[3] = 255 THEN 0 ELSE x[3] + 1
        BY <1>9, <3>3
      <4> QED BY <1>1, <1>2, <3>3, <4>1
    <3>4. CASE c = 4
      BY <3>4
    <3> QED BY <2>1, <3>1, <3>2, <3>3, <3>4
  <2>3. SUFFICES ASSUME NEW z \in SubnetOf(m) PROVE Below(z, x) \/ z = x
    OBVIOUS
  <2>4. z[1] = x[1] /\ (c > 1 => z[2] = x[2]) /\ (c > 2 => z[3] = x[3]) /\ (c > 3 => z[4] = x[4])
    BY <1>5, <2>1
  <2>5. /\ z[1] \in 0 .. 255 /\ z[2] \in 0 .. 255 /\ z[3] \in 0 .. 255 /\ z[4] \in 0 .. 255
    BY <1>5
  <2>6. z[1] = x[1] /\ z[2] = x[2] /\ z[3] = x[3] /\ z[4] = x[4] => z = x
    BY <1>7
  <2> QED BY <1>1, <2>1, <2>2, <2>4, <2>5, <2>6 DEF Below, Less
<1>10. x \in SubnetOf(m)
  OBVIOUS
<1> QED BY <1>4, <1>8, <1>9, <1>10 DEF y, passed

-----------------------------------------------------------------------------
(* The subnet of a mask that is read *)

(* An address is a sequence of four bytes. *)
LEMMA IpIsOctets ==
  ASSUME NEW x \in Ips
  PROVE  x \in Seq(Byte) /\ Len(x) = 4
<1>1. x \in [1 .. 4 -> Byte] /\ 4 \in Nat
  BY DEF Ips
<1>2. x \in Seq(Byte)
  BY <1>1, SeqDef
<1>3. DOMAIN x = 1 .. 4 /\ DOMAIN x = 1 .. Len(x) /\ Len(x) \in Nat
  BY <1>1, <1>2, LenProperties
<1> QED BY <1>2, <1>3

(* What a request for an address asks for is read as that address. *)
LEMMA AskedIsRead ==
  ASSUME NEW x \in Ips
  PROVE  extract_arp(send("arp", arp_request_for(x), <<>>))[1].target_prot = x
<1> DEFINE h == arp_request_for(x)
<1>1. ArpHeader(h)
  <2>1. x \in Seq(Byte) /\ Len(x) = 4
    BY IpIsOctets
  <2>2. /\ <<2, 0, 0, 0, 0, 1>> \in Seq(Byte) /\ <<10, 0, 0, 1>> \in Seq(Byte) /\ <<0, 0, 0, 0, 0, 0>> \in Seq(Byte)
        /\ Len(<<2, 0, 0, 0, 0, 1>>) = 6 /\ Len(<<10, 0, 0, 1>>) = 4 /\ Len(<<0, 0, 0, 0, 0, 0>>) = 6
    BY DEF Byte
  <2>3. 1 \in Word /\ 2048 \in Word /\ 4 \in Byte /\ 6 \in Byte
    BY SMT DEF Word, Byte
  <2>4. /\ h.hard_type = 1 /\ h.prot_type = 2048 /\ h.op = 1
        /\ h.sender_hard = <<2, 0, 0, 0, 0, 1>> /\ h.sender_prot = <<10, 0, 0, 1>>
        /\ h.target_hard = <<0, 0, 0, 0, 0, 0>> /\ h.target_prot = x
        /\ h = [hard_type |-> h.hard_type, prot_type |-> h.prot_type, op |-> h.op,
                sender_hard |-> h.sender_hard, sender_prot |-> h.sender_prot,
                target_hard |-> h.target_hard, target_prot |-> h.target_prot]
    BY SMT DEF arp_request_for, ethertype_ip4, arp_request
  <2> HIDE DEF h
  <2>5. /\ Len(h.sender_hard) = 6 /\ Len(h.target_hard) = 6
        /\ Len(h.sender_prot) = 4 /\ Len(h.target_prot) = 4
    BY <2>1, <2>2, <2>4, SMT
  <2> QED BY <2>1, <2>2, <2>3, <2>4, <2>5, SMT DEF ArpHeader, Octets
<1>2. h.target_prot = x
  BY DEF arp_request_for
<1> HIDE DEF h
<1>3. send("arp", h, <<>>) = arp_send(h)
  BY DEF send
<1>4. <<>> \in Seq(Byte)
  OBVIOUS
<1>5. arp_send(h) \in Seq(Byte) /\ extract_arp(arp_send(h) \o <<>>)[1] = h
  BY <1>1, <1>4, ArpTravels
<1>6. arp_send(h) \o <<>> = arp_send(h)
  BY <1>5, ConcatEmptySeq
<1> QED BY <1>2, <1>3, <1>5, <1>6 DEF h

\* The invariant of the scan's loop: asked for are the addresses below the next
\* one, or, once that has left the subnet, all of it.  (A mask without bits is
\* never left.)
Scanned ==
  /\ mask.base \in Ips /\ mask.bits \in 0 .. 32 /\ curr_ip \in Ips
  /\ str_to_ip4_subnet_mask(text) = <<mask>>
  /\ mask.bits > 0 =>
       \/ /\ curr_ip \in SubnetOf(mask)
          /\ requested = {x \in SubnetOf(mask) : Below(x, curr_ip)} \ Skip
       \/ ~is_inside_subnet(mask, curr_ip) /\ requested = SubnetOf(mask) \ Skip

ScanInv ==
  kind = "scan" =>
    /\ pc \in {"start", "scan", "done", "invalid", "terminated"} /\ text \in Subnets
    /\ pc = "start" => requested = {}
    /\ pc = "scan" => Scanned
    /\ pc = "done" => ScanAsksSubnet

(* str_to_ip4_subnet_mask: what a mask that is read consists of. *)
LEMMA MaskRead ==
  ASSUME NEW t \in Subnets, str_to_ip4_subnet_mask(t) # <<>>
  PROVE  /\ str_to_ip4_subnet_mask(t) = <<str_to_ip4_subnet_mask(t)[1]>>
         /\ str_to_ip4_subnet_mask(t)[1].base \in Ips
         /\ str_to_ip4_subnet_mask(t)[1].bits \in 0 .. 32
         /\ str_to_ip4_subnet_mask(t)[1].bits = t.bits[1]
         /\ \A i \in 1 .. 4 : str_to_ip4_subnet_mask(t)[1].base[i] = t.numbers[i] % 256 /\ t.numbers[i] \in Nat
<1>1. t.numbers \in Seq(Nat)
  BY SubnetsAssumption
<1>2. t.bits[1] \in 0 .. 32 /\ str_to_ip4_addr(t.numbers) # <<>>
  BY DEF str_to_ip4_subnet_mask
<1>3. Len(t.numbers) = 4 /\ str_to_ip4_addr(t.numbers) = <<[i \in 1 .. 4 |-> t.numbers[i] % 256]>>
  BY <1>2 DEF str_to_ip4_addr
<1>4. \A i \in 1 .. 4 : t.numbers[i] \in Nat
  BY <1>1, <1>3, ElementOfSeq
<1>5. \A k \in Nat : k % 256 \in Byte
  BY SMT DEF Byte
<1> DEFINE base == [i \in 1 .. 4 |-> t.numbers[i] % 256]
<1>6. base \in Ips /\ \A i \in 1 .. 4 : base[i] = t.numbers[i] % 256
  BY <1>4, <1>5 DEF Ips
<1> HIDE DEF base
<1>7. str_to_ip4_subnet_mask(t) = <<[base |-> base, bits |-> t.bits[1]]>>
  BY <1>3 DEF str_to_ip4_subnet_mask, base
<1> DEFINE m == [base |-> base, bits |-> t.bits[1]]
<1>8. m.base = base /\ m.bits = t.bits[1]
  OBVIOUS
<1> HIDE DEF m
<1>9. str_to_ip4_subnet_mask(t) = <<m>> /\ str_to_ip4_subnet_mask(t)[1] = m
  BY <1>7 DEF m
<1> QED BY <1>2, <1>4, <1>6, <1>8, <1>9

(* The subnet of the mask that is read is the one the text shows, if the mask *)
(* ends at an octet.                                                          *)
LEMMA SubnetAsShown ==
  ASSUME NEW t \in Subnets, NEW m, m.bits > 0, m.bits \in 0 .. 32, m.base \in Ips,
         str_to_ip4_subnet_mask(t) = <<m>>, OctetMask(t)
  PROVE  SubnetOf(m) = AddressesOf(t)
<1> DEFINE n == t.bits[1] \div 8
           size == 2 ^ (8 - (t.bits[1] % 8))
           first == size * (t.numbers[n + 1] \div size)
           part(k) == IF k <= n THEN {t.numbers[k]}
                      ELSE IF k = n + 1 THEN first .. first + size - 1 ELSE Byte
           named == {<<a, b, c, d>> : a \in part(1), b \in part(2), c \in part(3), d \in part(4)}
<1>1. m.bits = t.bits[1] /\ t.bits[1] % 8 = 0 /\ \A i \in 1 .. 4 : m.base[i] = t.numbers[i] /\ t.numbers[i] \in Byte
  <2>1. str_to_ip4_subnet_mask(t)[1] = m /\ str_to_ip4_subnet_mask(t) # <<>>
    OBVIOUS
  <2>2. m.bits = t.bits[1] /\ \A i \in 1 .. 4 : m.base[i] = t.numbers[i] % 256
    BY <2>1, MaskRead
  <2>3. Len(t.numbers) = 4
    BY <2>1 DEF str_to_ip4_subnet_mask, str_to_ip4_addr
  <2>4. t.bits[1] % 8 = 0 /\ \A i \in 1 .. 4 : t.numbers[i] \in Byte
    BY <2>3 DEF OctetMask
  <2>5. \A k \in Byte : k % 256 = k
    BY SMT DEF Byte
  <2> QED BY <2>2, <2>4, <2>5
<1>2. n \in 0 .. 4
  BY <1>1, Bits
<1>3. ASSUME n + 1 \in 1 .. 4 PROVE first .. first + size - 1 = Byte
  <2>1. size = 256
    BY <1>1, 8 - 0 = 8, 2 ^ 8 = 256
  <2>2. PICK k \in Byte : k = t.numbers[n + 1]
    BY <1>1, <1>3
  <2>3. first = 256 * (k \div 256)
    BY <2>1, <2>2
  <2>4. k \div 256 = 0
    BY SMT DEF Byte
  <2> HIDE DEF first, size
  <2> QED BY <2>1, <2>3, <2>4 DEF Byte
<1> HIDE DEF n
<1>4. \A i \in 1 .. 4 : m.base[i] \in Byte
  BY DEF Ips
<1>5. \A x \in Ips : x \in SubnetOf(m) <=> \A k \in 1 .. 4 : k <= n => x[k] = m.base[k]
  BY <1>1 DEF SubnetOf, n
<1>6. \A k \in 1 .. 4 : part(k) = IF k <= n THEN {m.base[k]} ELSE Byte
  <2> HIDE DEF first, size
  <2> QED BY <1>1, <1>2, <1>3
<1>7. \A k \in 1 .. 4 : part(k) \subseteq Byte
  BY <1>4, <1>6
<1> HIDE DEF part
<1>8. \A x \in Ips : x \in SubnetOf(m) <=> \A k \in 1 .. 4 : x[k] \in part(k)
  BY <1>5, <1>6 DEF Ips
<1>9. SubnetOf(m) = named
  <2>1. ASSUME NEW x \in SubnetOf(m) PROVE x \in named
    <3>1. x \in Ips
      BY DEF SubnetOf
    <3>2. x[1] \in part(1) /\ x[2] \in part(2) /\ x[3] \in part(3) /\ x[4] \in part(4)
      BY <1>8, <3>1
    <3>3. x = <<x[1], x[2], x[3], x[4]>>
      BY <3>1 DEF Ips
    <3> QED BY <3>2, <3>3
  <2>2. ASSUME NEW a \in part(1), NEW b \in part(2), NEW c \in part(3), NEW d \in part(4)
        PROVE  <<a, b, c, d>> \in SubnetOf(m)
    <3> DEFINE x == <<a, b, c, d>>
    <3>1. a \in Byte /\ b \in Byte /\ c \in Byte /\ d \in Byte
      BY <1>7
    <3>2. x \in Ips
      BY <3>1 DEF Ips
    <3>3. \A k \in 1 .. 4 : x[k] \in part(k)
      <4> SUFFICES ASSUME NEW k \in 1 .. 4 PROVE x[k] \in part(k)
        OBVIOUS
      <4>1. k = 1 \/ k = 2 \/ k = 3 \/ k = 4
        OBVIOUS
      <4>2. x[1] = a /\ x[2] = b /\ x[3] = c /\ x[4] = d
        OBVIOUS
      <4> HIDE DEF x
      <4> QED BY <4>1, <4>2
    <3> HIDE DEF x
    <3>4. x \in SubnetOf(m)
      BY <1>8, <3>2, <3>3
    <3> QED BY <3>4 DEF x
  <2> QED BY <2>1, <2>2
<1>10. AddressesOf(t) = named
  BY DEF AddressesOf, part, n
<1> QED BY <1>9, <1>10

-----------------------------------------------------------------------------
(* The scan of a subnet *)

\* A message that a buffer is too small for.
Beyond == \/ send_overruns \/ recv_truncates
          \/ \E ad, cd \in {0, 1} : \E junk \in SoaJunk : serve_overruns(ad, cd, junk)

(* A behaviour stays one of frame, dns, scan and text. *)
LEMMA KindKept ==
  ASSUME [Next]_vars
  PROVE  kind' = kind
<1>1. CASE UNCHANGED vars
  BY <1>1 DEF vars
<1>2. CASE send_layer \/ recv_layer \/ load_record
  BY <1>2 DEF send_layer, recv_layer, load_record
<1>3. CASE \E padded, attached \in BOOLEAN : my_handler(padded, attached)
  BY <1>3 DEF my_handler
<1>4. CASE \E ad, cd \in {0, 1} : send_request(ad, cd) \/ \E junk \in SoaJunk : serve(ad, cd, junk)
  BY <1>4 DEF send_request, serve
<1>5. CASE serve_terminates \/ serve_other \/ read_answer
  BY <1>5 DEF serve_terminates, serve_other, read_answer
<1>6. CASE scan \/ \E delay \in BOOLEAN : arp_scanner_main(delay)
  BY <1>6 DEF scan, arp_scanner_main
<1>7. CASE str_to_ptp_endpoint \/ read_mac_addr \/ str_to_octet \/ str_to_ptp_action
  BY <1>7 DEF str_to_ptp_endpoint, read_mac_addr, str_to_octet, str_to_ptp_action
<1>8. CASE dns_client_main \/ \E interval \in BOOLEAN : ping_main(interval)
  BY <1>8 DEF dns_client_main, ping_main
<1>9. CASE finished
  BY <1>9 DEF finished, vars
<1>10. CASE Beyond
  BY <1>10 DEF Beyond, send_overruns, recv_truncates, serve_overruns
<1> QED BY <1>1, <1>2, <1>3, <1>4, <1>5, <1>6, <1>7, <1>8, <1>9, <1>10 DEF Next, Beyond

(* While a subnet is scanned, nothing else happens. *)
LEMMA ScanSteps ==
  ASSUME ScanInv, [Next]_vars, kind = "scan"
  PROVE  \/ scan \/ (\E delay \in BOOLEAN : arp_scanner_main(delay)) \/ UNCHANGED vars
<1>1. pc \in {"start", "scan", "done", "invalid", "terminated"}
  BY DEF ScanInv
<1>2. ~send_layer /\ ~recv_layer /\ ~load_record
  BY <1>1 DEF send_layer, recv_layer, load_record
<1>3. ~\E padded, attached \in BOOLEAN : my_handler(padded, attached)
  BY <1>1 DEF my_handler
<1>4. ~\E ad, cd \in {0, 1} : send_request(ad, cd) \/ \E junk \in SoaJunk : serve(ad, cd, junk)
  BY <1>1 DEF send_request, serve
<1>5. ~serve_terminates /\ ~serve_other /\ ~read_answer
  BY <1>1 DEF serve_terminates, serve_other, read_answer
<1>6. ~str_to_ptp_endpoint /\ ~read_mac_addr /\ ~str_to_octet /\ ~str_to_ptp_action
  BY <1>1 DEF str_to_ptp_endpoint, read_mac_addr, str_to_octet, str_to_ptp_action
<1>7. ~dns_client_main /\ ~\E interval \in BOOLEAN : ping_main(interval)
  BY <1>1 DEF dns_client_main, ping_main
<1>8. ~Beyond
  BY <1>1 DEF Beyond, send_overruns, recv_truncates, serve_overruns
<1> QED BY <1>2, <1>3, <1>4, <1>5, <1>6, <1>7, <1>8 DEF Next, finished, Beyond

(* The scan starts at the lowest address of the subnet. *)
LEMMA StartsScan ==
  ASSUME ScanInv, kind = "scan", NEW delay \in BOOLEAN, arp_scanner_main(delay)
  PROVE  ScanInv'
<1> DEFINE parsed == str_to_ip4_subnet_mask(text)
<1>1. pc = "start" /\ kind' = kind /\ text' = text /\ requested' = requested /\ requested = {} /\ text \in Subnets
  BY DEF arp_scanner_main, ScanInv, reading
<1>2. \/ pc' = "terminated" \/ pc' = "invalid"
      \/ pc' = "scan" /\ parsed # <<>> /\ mask' = parsed[1] /\ curr_ip' = smallest_ip_addr_in_subnet(mask')
  BY DEF arp_scanner_main
<1>3. CASE pc' # "scan"
  BY <1>1, <1>2, <1>3 DEF ScanInv
<1>4. CASE pc' = "scan"
  <2>1. parsed # <<>> /\ mask' = parsed[1] /\ curr_ip' = smallest_ip_addr_in_subnet(mask')
    BY <1>2, <1>4
  <2>2. parsed = <<mask'>> /\ mask'.base \in Ips /\ mask'.bits \in 0 .. 32
    BY <1>1, <2>1, MaskRead
  <2> HIDE DEF parsed
  <2>3. PICK m : m = mask'
    OBVIOUS
  <2> DEFINE s == smallest_ip_addr_in_subnet(m)
  <2>4. m.base \in Ips /\ m.bits \in 0 .. 32 /\ curr_ip' = s
    BY <2>1, <2>2, <2>3
  <2>5. ASSUME m.bits = 0 PROVE s \in Ips
    <3>1. m.bits \div 8 = 0 /\ m.bits % 8 = 0
      BY <2>5
    <3>2. low(m.base[1], 0) = 0
      <4>1. m.base[1] \in Byte
        BY <2>4 DEF Ips
      <4> QED BY <4>1, LowBits
    <3>3. s = [i \in 1 .. 4 |-> 0]
      <4>1. \A i \in 1 .. 4 : (IF i <= 0 THEN m.base[i] ELSE IF i = 0 + 1 THEN low(m.base[i], 0) ELSE 0) = 0
        BY <3>2
      <4>2. s = [i \in 1 .. 4 |-> IF i <= 0 THEN m.base[i] ELSE IF i = 0 + 1 THEN low(m.base[i], 0) ELSE 0]
        BY <3>1 DEF smallest_ip_addr_in_subnet
      <4> QED BY <4>1, <4>2
    <3> QED BY <3>3 DEF Ips, Byte
  <2>6. ASSUME m.bits > 0 PROVE s \in SubnetOf(m) /\ \A x \in SubnetOf(m) : ~Below(x, s)
    <3>1. m.bits \in 1 .. 32
      BY <2>4, <2>6
    <3>2. /\ s \in SubnetOf(m) /\ \A k \in 1 .. 4 : k > Common(m) => s[k] = 0
          /\ Common(m) \in 1 .. 4
          /\ \A x \in Ips : x \in SubnetOf(m) <=> \A k \in 1 .. 4 : k <= Common(m) => x[k] = s[k]
      BY <2>4, <3>1, SubnetByOctets
    <3> HIDE DEF s
    <3>3. ASSUME NEW x \in SubnetOf(m) PROVE ~Below(x, s)
      <4>1. x \in Ips
        BY DEF SubnetOf
      <4>2. \A k \in 1 .. 4 : s[k] = x[k] \/ s[k] = 0
        BY <3>2, <4>1
      <4>3. x[1] \in 0 .. 255 /\ x[2] \in 0 .. 255 /\ x[3] \in 0 .. 255 /\ x[4] \in 0 .. 255
        BY <4>1, Components
      <4>4. /\ s[1] = x[1] \/ s[1] = 0
            /\ s[2] = x[2] \/ s[2] = 0
            /\ s[3] = x[3] \/ s[3] = 0
            /\ s[4] = x[4] \/ s[4] = 0
        BY <4>2
      <4>5. PICK x1 \in 0 .. 255, x2 \in 0 .. 255, x3 \in 0 .. 255, x4 \in 0 .. 255 :
              x[1] = x1 /\ x[2] = x2 /\ x[3] = x3 /\ x[4] = x4
        BY <4>3
      <4>6. PICK s1, s2, s3, s4 : s[1] = s1 /\ s[2] = s2 /\ s[3] = s3 /\ s[4] = s4
        OBVIOUS
      <4>7. (s1 = x1 \/ s1 = 0) /\ (s2 = x2 \/ s2 = 0) /\ (s3 = x3 \/ s3 = 0) /\ (s4 = x4 \/ s4 = 0)
        BY <4>4, <4>5, <4>6
      <4>8. ~Less(x1, x2, x3, x4, s1, s2, s3, s4)
        BY <4>7 DEF Less
      <4> QED BY <4>5, <4>6, <4>8, Zenon DEF Below
    <3> QED BY <3>2, <3>3
  <2>7. s \in Ips
    <3>1. CASE m.bits > 0
      BY <2>6, <3>1 DEF SubnetOf
    <3>2. CASE ~(m.bits > 0)
      BY <2>4, <2>5, <3>2
    <3> QED BY <3>1, <3>2
  <2> HIDE DEF s
  <2>8. m.bits > 0 => curr_ip' \in SubnetOf(m) /\ requested' = {x \in SubnetOf(m) : Below(x, curr_ip')} \ Skip
    BY <1>1, <2>4, <2>6
  <2>9. Scanned'
    BY <1>1, <2>2, <2>3, <2>4, <2>7, <2>8 DEF Scanned, parsed
  <2> QED BY <1>1, <1>4, <2>9 DEF ScanInv
<1> QED BY <1>3, <1>4

(* A turn of the scan's loop, and its end. *)
LEMMA ScansOn ==
  ASSUME ScanInv, kind = "scan", scan
  PROVE  ScanInv'
<1>1. pc = "scan" /\ kind' = kind /\ text' = text /\ mask' = mask /\ text \in Subnets /\ Scanned
  BY DEF scan, ScanInv, reading
<1>2. /\ mask.base \in Ips /\ mask.bits \in 0 .. 32 /\ curr_ip \in Ips
      /\ str_to_ip4_subnet_mask(text) = <<mask>>
  BY <1>1 DEF Scanned
<1>3. CASE is_inside_subnet(mask, curr_ip)
  <2>1. pc' = pc /\ curr_ip' = generate_next_ip(curr_ip)
    BY <1>3 DEF scan
  <2>2. requested' = requested \cup ({curr_ip} \ Skip)
    <3>1. CASE curr_ip \in Skip
      BY <1>3, <3>1 DEF scan
    <3>2. CASE curr_ip \notin Skip
      <4>1. wire' = send("arp", arp_request_for(curr_ip), <<>>)
            /\ requested' = requested \cup {extract_arp(wire')[1].target_prot}
        BY <1>3, <3>2 DEF scan
      <4> QED BY <1>2, <3>2, <4>1, AskedIsRead
    <3> QED BY <3>1, <3>2
  <2>3. curr_ip' \in Ips
    BY <1>2, <2>1, NextIp
  <2>4. ASSUME mask.bits > 0
        PROVE  \/ /\ curr_ip' \in SubnetOf(mask)
                  /\ requested' = {x \in SubnetOf(mask) : Below(x, curr_ip')} \ Skip
               \/ ~is_inside_subnet(mask, curr_ip') /\ requested' = SubnetOf(mask) \ Skip
    <3>1. mask.bits \in 1 .. 32
      BY <1>2, <2>4
    <3>2. curr_ip \in SubnetOf(mask) /\ requested = {x \in SubnetOf(mask) : Below(x, curr_ip)} \ Skip
      BY <1>1, <1>3, <2>4 DEF Scanned
    <3> DEFINE passed == {z \in SubnetOf(mask) : Below(z, curr_ip)} \cup {curr_ip}
    <3>3. requested' = passed \ Skip
      BY <2>2, <3>2
    <3>4. \/ curr_ip' \in SubnetOf(mask) /\ passed = {z \in SubnetOf(mask) : Below(z, curr_ip')}
          \/ ~is_inside_subnet(mask, curr_ip') /\ passed = SubnetOf(mask)
      BY <1>2, <2>1, <3>1, <3>2, NextInSubnet
    <3> HIDE DEF passed
    <3> QED BY <3>3, <3>4
  <2>5. Scanned'
    BY <1>1, <1>2, <2>3, <2>4 DEF Scanned
  <2> QED BY <1>1, <2>1, <2>5 DEF ScanInv
<1>4. CASE ~is_inside_subnet(mask, curr_ip)
  <2>1. pc' = "done" /\ requested' = requested
    BY <1>4 DEF scan
  <2>2. mask.bits > 0
    <3>1. ASSUME mask.bits = 0 PROVE is_inside_subnet(mask, curr_ip)
      <4>1. mask.bits \div 8 = 0 /\ mask.bits % 8 = 0
        BY <3>1
      <4>2. mask.base[1] \in Byte /\ curr_ip[1] \in Byte
        BY <1>2 DEF Ips
      <4>3. low(mask.base[1], 0) = 0 /\ low(curr_ip[1], 0) = 0
        BY <4>2, LowBits
      <4> QED BY <4>1, <4>3 DEF is_inside_subnet
    <3> QED BY <1>2, <1>4, <3>1
  <2>3. requested = SubnetOf(mask) \ Skip
    <3>1. curr_ip \notin SubnetOf(mask)
      BY <1>2, <1>4, SubnetIsInside
    <3> QED BY <1>1, <2>2, <3>1 DEF Scanned
  <2>4. ScanAsksSubnet'
    <3>1. OctetMask(text) => SubnetOf(mask) = AddressesOf(text)
      BY <1>1, <1>2, <2>2, SubnetAsShown
    <3> QED BY <1>1, <2>1, <2>3, <3>1 DEF ScanAsksSubnet, OctetMask
  <2> QED BY <1>1, <2>1, <2>4 DEF ScanInv
<1> QED BY <1>3, <1>4

(* A scan asks for exactly the addresses of the subnet it was given, for   *)
(* every base address, mask of whole octets and set of addresses to skip.  *)
THEOREM ScanOfSubnet == Spec => []ScanAsksSubnet
<1>1. Init => ScanInv
  BY DEF Init, ScanInv
<1>2. ScanInv /\ [Next]_vars => ScanInv'
  <2> SUFFICES ASSUME ScanInv, [Next]_vars PROVE ScanInv'
    OBVIOUS
  <2>1. CASE kind = "scan"
    <3>1. CASE UNCHANGED vars
      <4>1. /\ kind' = kind /\ pc' = pc /\ text' = text /\ mask' = mask /\ curr_ip' = curr_ip
            /\ requested' = requested
        BY <3>1 DEF vars, scanning, reading
      <4>2. Scanned' <=> Scanned
        BY <4>1 DEF Scanned
      <4> QED BY <4>1, <4>2 DEF ScanInv, ScanAsksSubnet, OctetMask
    <3> QED BY <2>1, <3>1, ScanSteps, StartsScan, ScansOn
  <2>2. CASE kind # "scan"
    BY <2>2, KindKept DEF ScanInv
  <2> QED BY <2>1, <2>2
<1>3. ScanInv => ScanAsksSubnet
  BY DEF ScanInv, ScanAsksSubnet
<1> QED BY <1>1, <1>2, <1>3, PTL DEF Spec

-----------------------------------------------------------------------------
(* Functions that follow by recursion, and the escaping of variable-length fields *)

(* A function that follows by recursion is determined. *)
LEMMA Determined ==
  ASSUME NEW n \in Nat, NEW base, NEW step, NEW f, NEW g,
         Follows(f, n, base, step), Follows(g, n, base, step)
  PROVE  \A i \in 0 .. n : f[i] = g[i]
<1> DEFINE P == {i \in Nat : i <= n => f[i] = g[i]}
<1>1. 0 \in P
  BY DEF Follows
<1>2. ASSUME NEW i \in P PROVE i + 1 \in P
  <2> SUFFICES ASSUME i + 1 <= n PROVE f[i + 1] = g[i + 1]
    OBVIOUS
  <2>1. i + 1 \in 1 .. n /\ (i + 1) - 1 = i /\ f[i] = g[i]
    OBVIOUS
  <2> QED BY <2>1 DEF Follows
<1> HIDE DEF P
<1>3. P = Nat
  <2>1. P \in SUBSET Nat
    BY DEF P
  <2> QED BY <1>1, <1>2, <2>1, Induction
<1> QED BY <1>3 DEF P

(* FlattenSeq joins one sequence after the other. *)
LEMMA Flattened ==
  ASSUME NEW n \in Nat, NEW T, NEW s \in [1 .. n -> Seq(T)]
  PROVE  \E F \in [0 .. n -> Seq(T)] :
           /\ F[0] = <<>> /\ \A i \in 1 .. n : F[i] = F[i - 1] \o s[i]
           /\ FlattenSeq(s) = F[n]
<1> DEFINE step == [b \in Seq(T) |-> [i \in Nat |-> IF i \in 1 .. n THEN b \o s[i] ELSE <<>>]]
<1>1. <<>> \in Seq(T) /\ step \in [Seq(T) -> [Nat -> Seq(T)]]
  <2>1. ASSUME NEW b \in Seq(T), NEW i \in 1 .. n PROVE b \o s[i] \in Seq(T)
    OBVIOUS
  <2> QED BY <2>1
<1>2. PICK F \in [0 .. n -> Seq(T)] : Follows(F, n, <<>>, step)
  <2> HIDE DEF step
  <2> QED BY <1>1, Recursion
<1>3. F[0] = <<>> /\ \A i \in 1 .. n : F[i] = F[i - 1] \o s[i]
  <2>1. ASSUME NEW i \in 1 .. n PROVE F[i] = F[i - 1] \o s[i]
    <3>1. F[i - 1] \in Seq(T) /\ i \in Nat
      OBVIOUS
    <3> QED BY <1>2, <3>1 DEF Follows
  <2> QED BY <1>2, <2>1 DEF Follows
<1>4. s \in Seq(Seq(T)) /\ Len(s) = n
  <2>1. s \in Seq(Seq(T))
    BY SeqDef
  <2>2. DOMAIN s = 1 .. n /\ DOMAIN s = 1 .. Len(s) /\ Len(s) \in Nat
    BY <2>1, LenProperties
  <2> QED BY <2>1, <2>2
<1>5. CASE n = 0
  <2>1. s = <<>>
    BY <1>4, <1>5, EmptySeq
  <2>2. FlattenSeq(s) = s
    BY <1>4, <1>5 DEF FlattenSeq
  <2> QED BY <1>3, <1>5, <2>1, <2>2
<1>6. CASE n # 0
  <2> DEFINE Eq(g) == g = [i \in 1 .. n |-> IF i = 1 THEN s[i] ELSE g[i - 1] \o s[i]]
             flatten == CHOOSE g : Eq(g)
             G == [i \in 1 .. n |-> F[i]]
  <2>1. FlattenSeq(s) = flatten[n]
    BY <1>4, <1>6, Zenon DEF FlattenSeq
  <2>2. F[1] = s[1]
    <3>1. 1 \in 1 .. n /\ 1 - 1 = 0
      BY <1>6
    <3>2. s[1] \in Seq(T) /\ F[1] = <<>> \o s[1]
      BY <1>3, <3>1
    <3> QED BY <3>2, ConcatEmptySeq
  <2>3. Eq(G)
    <3>1. ASSUME NEW i \in 1 .. n PROVE G[i] = IF i = 1 THEN s[i] ELSE G[i - 1] \o s[i]
      <4>1. CASE i = 1
        BY <2>2, <4>1
      <4>2. CASE i # 1
        <5>1. i - 1 \in 1 .. n
          BY <4>2
        <5> QED BY <1>3, <4>2, <5>1
      <4> QED BY <4>1, <4>2
    <3> QED BY <3>1
  <2> HIDE DEF G
  <2>4. Eq(flatten)
    BY <2>3
  <2> HIDE DEF flatten
  <2> DEFINE P == {i \in Nat : i + 1 <= n => flatten[i + 1] = F[i + 1]}
  <2>5. 0 \in P
    <3>1. 1 \in 1 .. n
      BY <1>6
    <3> QED BY <2>2, <2>4, <3>1
  <2>6. ASSUME NEW i \in P PROVE i + 1 \in P
    <3> SUFFICES ASSUME i + 1 + 1 <= n PROVE flatten[i + 1 + 1] = F[i + 1 + 1]
      OBVIOUS
    <3>1. i \in Nat /\ i + 1 + 1 \in 1 .. n /\ i + 1 + 1 # 1 /\ (i + 1 + 1) - 1 = i + 1
      OBVIOUS
    <3>2. flatten[i + 1] = F[i + 1]
      BY <3>1
    <3>3. flatten[i + 1 + 1] = flatten[i + 1] \o s[i + 1 + 1]
      BY <2>4, <3>1
    <3> QED BY <1>3, <3>1, <3>2, <3>3
  <2> HIDE DEF P
  <2>7. P = Nat
    <3>1. P \in SUBSET Nat
      BY DEF P
    <3> QED BY <2>5, <2>6, <3>1, Induction
  <2>8. n - 1 \in Nat /\ (n - 1) + 1 = n
    BY <1>6
  <2>9. flatten[n] = F[n]
    <3>1. \A i \in Nat : i + 1 <= n => flatten[i + 1] = F[i + 1]
      BY <2>7 DEF P
    <3>2. (n - 1) + 1 <= n => flatten[(n - 1) + 1] = F[(n - 1) + 1]
      BY <2>8, <3>1
    <3>3. n <= n
      OBVIOUS
    <3> QED BY <2>8, <3>2, <3>3
  <2> QED BY <1>3, <2>1, <2>9
<1> QED BY <1>5, <1>6

\* The states of the loop of var_len_decode_bytes.
States == [at : {"byte", "escape", "end"}, res : Seq(Byte), len : Nat]
State(at, res, len) == [at |-> at, res |-> res, len |-> len]

\* What var_len_decode_bytes makes of the state s at byte x, the ith.
Turn(s, x, i) ==
  CASE s.at = "end" -> s
    [] s.at = "byte" /\ x = 0 -> State("escape", s.res, s.len)
    [] s.at = "escape" /\ x = 1 -> State("end", s.res, i)
    [] OTHER -> State("byte", Append(s.res, x), s.len)

(* A turn of var_len_decode_bytes leaves a state of its loop. *)
LEMMA TurnTyped ==
  ASSUME NEW s \in States, NEW x \in Byte, NEW i \in Nat
  PROVE  Turn(s, x, i) \in States
  BY DEF States, Turn, State

(* A record of the loop, changed. *)
LEMMA Turned ==
  ASSUME NEW s \in States, NEW x \in Byte, NEW i \in Nat
  PROVE  Turn(s, x, i) =
           CASE s.at = "end" -> s
             [] s.at = "byte" /\ x = 0 -> [s EXCEPT !.at = "escape"]
             [] s.at = "escape" /\ x = 1 -> [s EXCEPT !.at = "end", !.len = i]
             [] OTHER -> [s EXCEPT !.at = "byte", !.res = Append(@, x)]
  BY DEF States, Turn, State

(* var_len_decode_bytes takes one turn for each byte. *)
LEMMA Decoding ==
  ASSUME NEW b \in Seq(Byte)
  PROVE  \E r \in [0 .. Len(b) -> States] :
           /\ r[0] = State("byte", <<>>, 0)
           /\ \A i \in 1 .. Len(b) : r[i] = Turn(r[i - 1], b[i], i)
           /\ var_len_decode_bytes(b) = <<r[Len(b)].res, r[Len(b)].len>>
<1> DEFINE n == Len(b)
           base == [at |-> "byte", res |-> <<>>, len |-> 0]
           turn(f, i) == With(f[i - 1], LAMBDA s :
               CASE s.at = "end" -> s
                 [] s.at = "byte" /\ b[i] = 0 -> [s EXCEPT !.at = "escape"]
                 [] s.at = "escape" /\ b[i] = 1 -> [s EXCEPT !.at = "end", !.len = i]
                 [] OTHER -> [s EXCEPT !.at = "byte", !.res = Append(@, b[i])])
           Eq(f) == f = [i \in 0 .. n |-> IF i = 0 THEN base ELSE turn(f, i)]
           read == CHOOSE f : Eq(f)
           step == [s \in States |-> [i \in Nat |-> IF i \in 1 .. n THEN Turn(s, b[i], i) ELSE base]]
<1>1. var_len_decode_bytes(b) = <<read[n].res, read[n].len>>
  BY Zenon DEF var_len_decode_bytes
<1>2. ASSUME NEW f, NEW i \in 1 .. n, f[i - 1] \in States
      PROVE  turn(f, i) = Turn(f[i - 1], b[i], i)
  <2>1. b[i] \in Byte /\ i \in Nat
    BY ElementOfSeq
  <2>2. PICK s \in States : s = f[i - 1]
    BY <1>2
  <2>3. turn(f, i) = CASE s.at = "end" -> s
                 [] s.at = "byte" /\ b[i] = 0 -> [s EXCEPT !.at = "escape"]
                 [] s.at = "escape" /\ b[i] = 1 -> [s EXCEPT !.at = "end", !.len = i]
                 [] OTHER -> [s EXCEPT !.at = "byte", !.res = Append(@, b[i])]
    BY <2>2 DEF With
  <2> HIDE DEF turn
  <2> QED BY <2>1, <2>2, <2>3, Turned
<1> HIDE DEF turn
<1>3. base \in States /\ base = State("byte", <<>>, 0) /\ step \in [States -> [Nat -> States]]
  <2>1. base \in States /\ base = State("byte", <<>>, 0)
    BY DEF States, State
  <2>2. \A i \in 1 .. n : b[i] \in Byte
    BY ElementOfSeq
  <2>3. ASSUME NEW s \in States, NEW i \in Nat
        PROVE  (IF i \in 1 .. n THEN Turn(s, b[i], i) ELSE base) \in States
    <3> HIDE DEF base
    <3> QED BY <2>1, <2>2, TurnTyped
  <2> HIDE DEF base, n
  <2> QED BY <2>1, <2>3
<1> HIDE DEF base
<1>4. n \in Nat
  OBVIOUS
<1>5. PICK r \in [0 .. n -> States] : Follows(r, n, base, step)
  <2> HIDE DEF step, n
  <2> QED BY <1>3, <1>4, Recursion
<1>6. r[0] = base /\ \A i \in 1 .. n : r[i] = Turn(r[i - 1], b[i], i)
  <2> HIDE DEF n
  <2>1. ASSUME NEW i \in 1 .. n PROVE r[i] = Turn(r[i - 1], b[i], i)
    <3>1. i \in Nat /\ r[i - 1] \in States
      BY <1>4
    <3> QED BY <1>5, <3>1 DEF Follows
  <2> QED BY <1>5, <2>1 DEF Follows
<1> HIDE DEF n
<1>7. Eq(r)
  <2>1. ASSUME NEW i \in 0 .. n PROVE r[i] = IF i = 0 THEN base ELSE turn(r, i)
    <3>1. CASE i = 0
      BY <1>6, <3>1
    <3>2. CASE i # 0
      <4>1. i \in 1 .. n /\ r[i - 1] \in States
        BY <1>4, <3>2
      <4> QED BY <1>2, <1>6, <3>2, <4>1
    <3> QED BY <3>1, <3>2
  <2>2. r = [i \in 0 .. n |-> r[i]]
    OBVIOUS
  <2> QED BY <2>1, <2>2
<1>8. Eq(read)
  BY <1>7
<1> HIDE DEF read
<1> DEFINE P == {i \in Nat : i <= n => read[i] = r[i]}
<1>9. 0 \in P
  <2>1. 0 \in 0 .. n
    BY <1>4
  <2> QED BY <1>6, <1>8, <2>1
<1>10. ASSUME NEW i \in P PROVE i + 1 \in P
  <2> SUFFICES ASSUME i + 1 <= n PROVE read[i + 1] = r[i + 1]
    OBVIOUS
  <2>1. i \in Nat /\ i + 1 \in 1 .. n /\ i + 1 \in 0 .. n /\ i + 1 # 0 /\ (i + 1) - 1 = i /\ i \in 0 .. n /\ i <= n
    BY <1>4
  <2>2. read[i] = r[i] /\ r[i] \in States
    BY <2>1
  <2>3. read[i + 1] = turn(read, i + 1)
    BY <1>8, <2>1
  <2>4. turn(read, i + 1) = Turn(read[i], b[i + 1], i + 1)
    <3>1. read[(i + 1) - 1] \in States
      BY <2>1, <2>2
    <3>2. turn(read, i + 1) = Turn(read[(i + 1) - 1], b[i + 1], i + 1)
      BY <1>2, <2>1, <3>1
    <3> QED BY <2>1, <3>2
  <2> QED BY <1>6, <2>1, <2>2, <2>3, <2>4
<1> HIDE DEF P
<1>11. P = Nat
  <2>1. P \in SUBSET Nat
    BY DEF P
  <2> QED BY <1>9, <1>10, <2>1, Induction
<1>12. read[n] = r[n]
  <2>1. \A i \in Nat : i <= n => read[i] = r[i]
    BY <1>11 DEF P
  <2> QED BY <1>4, <2>1
<1> QED BY <1>1, <1>3, <1>6, <1>12 DEF n

(* Each of the joined sequences is behind those before it. *)
LEMMA EachThere ==
  ASSUME NEW n \in Nat, NEW s \in [1 .. n -> Seq(Byte)], NEW F \in [0 .. n -> Seq(Byte)],
         \A i \in 1 .. n : F[i] = F[i - 1] \o s[i]
  PROVE  \A i \in 1 .. n : At(F[n], Len(F[i - 1]), s[i]) /\ Len(F[i]) = Len(F[i - 1]) + Len(s[i])
<1> DEFINE P == {m \in Nat : m <= n => \A i \in 0 .. m : At(F[m], 0, F[i])}
<1>1. ASSUME NEW i \in 1 .. n
      PROVE  /\ F[i - 1] \in Seq(Byte) /\ s[i] \in Seq(Byte) /\ F[i] \in Seq(Byte)
             /\ F[i] = F[i - 1] \o s[i] /\ Len(F[i]) = Len(F[i - 1]) + Len(s[i])
             /\ At(F[i], Len(F[i - 1]), s[i]) /\ At(F[i], 0, F[i - 1]) /\ At(F[i], 0, F[i])
  <2>1. F[i - 1] \in Seq(Byte) /\ s[i] \in Seq(Byte) /\ F[i] \in Seq(Byte) /\ F[i] = F[i - 1] \o s[i]
    OBVIOUS
  <2>2. At(F[i], 0, F[i])
    BY <2>1, AtEnd
  <2> QED BY <2>1, <2>2, AtEnd, Joined
<1>2. 0 \in P
  <2>1. F[0] \in Seq(Byte) /\ \A i \in 0 .. 0 : i = 0
    OBVIOUS
  <2> QED BY <2>1, AtEnd
<1>3. ASSUME NEW m \in P PROVE m + 1 \in P
  <2> SUFFICES ASSUME m + 1 <= n, NEW i \in 0 .. m + 1 PROVE At(F[m + 1], 0, F[i])
    OBVIOUS
  <2>1. m \in Nat /\ m + 1 \in 1 .. n /\ (m + 1) - 1 = m /\ i \in 0 .. n /\ F[i] \in Seq(Byte)
    OBVIOUS
  <2>2. CASE i = m + 1
    BY <1>1, <2>1, <2>2
  <2>3. CASE i # m + 1
    <3>1. At(F[m], 0, F[i])
      BY <2>1, <2>3
    <3>2. F[m + 1] = F[m] \o s[m + 1] /\ F[m] \in Seq(Byte) /\ s[m + 1] \in Seq(Byte)
      BY <1>1, <2>1
    <3> QED BY <2>1, <3>1, <3>2, AtKept
  <2> QED BY <2>2, <2>3
<1> HIDE DEF P
<1>4. P = Nat
  <2>1. P \in SUBSET Nat
    BY DEF P
  <2> QED BY <1>2, <1>3, <2>1, Induction
<1>5. \A i \in 0 .. n : At(F[n], 0, F[i])
  <2>1. \A m \in Nat : m <= n => \A i \in 0 .. m : At(F[m], 0, F[i])
    BY <1>4 DEF P
  <2> QED BY <2>1
<1> SUFFICES ASSUME NEW i \in 1 .. n
             PROVE  At(F[n], Len(F[i - 1]), s[i]) /\ Len(F[i]) = Len(F[i - 1]) + Len(s[i])
  OBVIOUS
<1>6. F[n] \in Seq(Byte) /\ Len(F[i - 1]) \in Nat /\ 0 + Len(F[i - 1]) = Len(F[i - 1])
  <2>1. F[i - 1] \in Seq(Byte)
    BY <1>1
  <2> QED BY <2>1
<1>7. At(F[n], 0, F[i]) /\ At(F[i], Len(F[i - 1]), s[i])
  BY <1>1, <1>5
<1>8. At(F[n], 0 + Len(F[i - 1]), s[i])
  BY <1>1, <1>6, <1>7, AtWithin
<1> QED BY <1>1, <1>6, <1>8

(* A sequence read up to one element, and the next. *)
LEMMA NextElement ==
  ASSUME NEW T, NEW d \in Seq(T), NEW i \in Nat, i + 1 <= Len(d)
  PROVE  Append(SubSeq(d, 1, i), d[i + 1]) = SubSeq(d, 1, i + 1)
<1>1. /\ SubSeq(d, 1, i) \in Seq(T) /\ Len(SubSeq(d, 1, i)) = i
      /\ \A k \in 1 .. i : SubSeq(d, 1, i)[k] = d[k]
  OBVIOUS
<1>2. /\ SubSeq(d, 1, i + 1) \in Seq(T) /\ Len(SubSeq(d, 1, i + 1)) = i + 1
      /\ \A k \in 1 .. i + 1 : SubSeq(d, 1, i + 1)[k] = d[k]
  OBVIOUS
<1> DEFINE a == SubSeq(d, 1, i)
           c == Append(a, d[i + 1])
           e == SubSeq(d, 1, i + 1)
<1>3. d[i + 1] \in T
  BY ElementOfSeq
<1> HIDE DEF a, e
<1>4. c \in Seq(T) /\ Len(c) = i + 1 /\ c[i + 1] = d[i + 1] /\ \A k \in 1 .. i : c[k] = a[k]
  BY <1>1, <1>3, AppendProperties DEF a
<1> HIDE DEF c
<1>5. \A k \in 1 .. i + 1 : c[k] = e[k]
  <2> SUFFICES ASSUME NEW k \in 1 .. i + 1 PROVE c[k] = e[k]
    OBVIOUS
  <2>1. k = i + 1 \/ k \in 1 .. i
    OBVIOUS
  <2> QED BY <1>1, <1>2, <1>4, <2>1 DEF a, e
<1>6. c = e
  BY <1>2, <1>4, <1>5, SeqEqual DEF e
<1> QED BY <1>6 DEF c, e, a

\* A byte as var_len_encode_bytes writes it.
escaped(x) == IF x = 0 THEN <<0, 0>> ELSE <<x>>

(* var_len_encode_bytes writes 0 twice, any other byte once. *)
LEMMA Escaped ==
  ASSUME NEW x \in Byte
  PROVE  /\ escaped(x) \in Seq(Byte) /\ escaped(x)[1] = x
         /\ x = 0 => Len(escaped(x)) = 2 /\ escaped(x)[2] = 0
         /\ x # 0 => Len(escaped(x)) = 1
<1>1. 0 \in Byte
  BY DEF Byte
<1>2. CASE x = 0
  <2>1. escaped(x) = <<0, 0>>
    BY <1>2 DEF escaped
  <2>2. <<0, 0>> \in Seq(Byte) /\ Len(<<0, 0>>) = 2 /\ <<0, 0>>[1] = 0 /\ <<0, 0>>[2] = 0
    BY <1>1
  <2> QED BY <1>2, <2>1, <2>2
<1>3. CASE x # 0
  <2>1. escaped(x) = <<x>>
    BY <1>3 DEF escaped
  <2> QED BY <1>3, <2>1
<1> QED BY <1>2, <1>3

(* The turns of the loop. *)
LEMMA Turns ==
  ASSUME NEW c, NEW m, NEW x, NEW i
  PROVE  /\ Turn(State("end", c, m), x, i) = State("end", c, m)
         /\ x = 0 => Turn(State("byte", c, m), x, i) = State("escape", c, m)
         /\ x # 0 => Turn(State("byte", c, m), x, i) = State("byte", Append(c, x), m)
         /\ x = 1 => Turn(State("escape", c, m), x, i) = State("end", c, i)
         /\ x # 1 => Turn(State("escape", c, m), x, i) = State("byte", Append(c, x), m)
<1>1. \A at : State(at, c, m).at = at /\ State(at, c, m).res = c /\ State(at, c, m).len = m
  BY DEF State
<1> QED BY <1>1 DEF Turn

(* The variable-length encoding: what is read is what was written, up to   *)
(* the delimiter, whatever the bytes are and whatever follows.             *)
LEMMA VarLenTravels ==
  ASSUME NEW d \in Seq(Byte), NEW z \in Seq(Byte)
  PROVE  /\ var_len_encode_bytes(d) \in Seq(Byte)
         /\ var_len_decode_bytes(var_len_encode_bytes(d) \o z) = <<d, Len(var_len_encode_bytes(d))>>
<1> DEFINE n == Len(d)
           s == [i \in 1 .. n |-> escaped(d[i])]
           w == var_len_encode_bytes(d)
           b == w \o z
<1>1. n \in Nat /\ \A i \in 1 .. n : d[i] \in Byte
  BY ElementOfSeq
<1>2. s \in [1 .. n -> Seq(Byte)] /\ \A i \in 1 .. n : s[i] = escaped(d[i])
  BY <1>1, Escaped
<1>3. w = FlattenSeq(s) \o <<0, 1>>
  BY DEF var_len_encode_bytes, escaped
<1> HIDE DEF n, s, w
<1>4. PICK F \in [0 .. n -> Seq(Byte)] :
        F[0] = <<>> /\ (\A i \in 1 .. n : F[i] = F[i - 1] \o s[i]) /\ FlattenSeq(s) = F[n]
  BY <1>1, <1>2, Flattened
<1> DEFINE e == F[n]
           l == Len(e)
           t == <<0, 1>>
<1>5. e \in Seq(Byte) /\ t \in Seq(Byte) /\ Len(t) = 2 /\ l \in Nat /\ t[1] = 0 /\ t[2] = 1
  BY <1>1, <1>4 DEF Byte
<1>6. w = e \o t
  BY <1>3, <1>4
<1> HIDE DEF e, l, t
<1>7. /\ w \in Seq(Byte) /\ Len(w) = l + 2 /\ At(w, 0, e) /\ At(w, l, t)
  <2>1. Pieces2(e, t)
    BY <1>5, Parts2
  <2> QED BY <1>5, <1>6, <2>1 DEF l, Pieces2
<1>8. /\ b \in Seq(Byte) /\ Len(b) >= l + 2 /\ Len(b) \in Nat /\ At(b, 0, e) /\ At(b, l, t)
  <2>1. b \in Seq(Byte) /\ Len(b) = Len(w) + Len(z) /\ Len(z) \in Nat
    <3>1. Pieces2(w, z)
      BY <1>7, Parts2
    <3> QED BY <3>1 DEF Pieces2
  <2>2. At(b, 0, e)
    BY <1>5, <1>7, AtKept
  <2>3. At(b, l, t)
    BY <1>5, <1>7, AtKept
  <2> QED BY <1>5, <1>7, <2>1, <2>2, <2>3
<1> HIDE DEF b
<1>9. ASSUME NEW i \in 1 .. n
      PROVE  /\ F[i - 1] \in Seq(Byte) /\ Len(F[i - 1]) \in Nat
             /\ Len(F[i]) = Len(F[i - 1]) + Len(s[i]) /\ At(b, Len(F[i - 1]), s[i])
  <2>1. At(e, Len(F[i - 1]), s[i]) /\ Len(F[i]) = Len(F[i - 1]) + Len(s[i])
    BY <1>1, <1>2, <1>4, EachThere DEF e
  <2>2. F[i - 1] \in Seq(Byte) /\ s[i] \in Seq(Byte)
    <3>1. i - 1 \in 0 .. n
      BY <1>1
    <3> QED BY <1>2, <1>4, <3>1
  <2>3. Len(F[i - 1]) \in Nat /\ 0 + Len(F[i - 1]) = Len(F[i - 1])
    BY <2>2
  <2>4. At(b, 0 + Len(F[i - 1]), s[i])
    BY <1>5, <1>8, <2>1, <2>2, <2>3, AtWithin
  <2> QED BY <2>1, <2>2, <2>3, <2>4
<1>10. PICK r \in [0 .. Len(b) -> States] :
         /\ r[0] = State("byte", <<>>, 0)
         /\ \A i \in 1 .. Len(b) : r[i] = Turn(r[i - 1], b[i], i)
         /\ var_len_decode_bytes(b) = <<r[Len(b)].res, r[Len(b)].len>>
  BY <1>8, Decoding
<1> DEFINE P == {i \in Nat : i <= n => r[Len(F[i])] = State("byte", SubSeq(d, 1, i), 0)}
<1>11. 0 \in P
  <2>1. SubSeq(d, 1, 0) = <<>> /\ Len(F[0]) = 0
    BY <1>4
  <2> QED BY <1>10, <2>1
<1>12. ASSUME NEW i \in P PROVE i + 1 \in P
  <2> SUFFICES ASSUME i + 1 <= n PROVE r[Len(F[i + 1])] = State("byte", SubSeq(d, 1, i + 1), 0)
    OBVIOUS
  <2> DEFINE x == d[i + 1]
             k == Len(F[i])
             c == SubSeq(d, 1, i)
  <2>1. i \in Nat /\ i + 1 \in 1 .. n /\ (i + 1) - 1 = i /\ i <= n
    BY <1>1
  <2>2. r[k] = State("byte", c, 0)
    BY <2>1
  <2>3. x \in Byte /\ s[i + 1] = escaped(x)
    BY <1>1, <1>2, <2>1
  <2>4. k \in Nat /\ Len(F[i + 1]) = k + Len(escaped(x)) /\ At(b, k, escaped(x))
    <3>1. /\ Len(F[(i + 1) - 1]) \in Nat
          /\ Len(F[i + 1]) = Len(F[(i + 1) - 1]) + Len(s[i + 1]) /\ At(b, Len(F[(i + 1) - 1]), s[i + 1])
      BY <1>9, <2>1
    <3> QED BY <2>1, <2>3, <3>1
  <2>5. Append(c, x) = SubSeq(d, 1, i + 1)
    BY <2>1, NextElement DEF n
  <2> HIDE DEF x, k, c
  <2>6. CASE x = 0
    <3>1. Len(escaped(x)) = 2 /\ escaped(x)[1] = 0 /\ escaped(x)[2] = 0
      BY <2>3, <2>6, Escaped
    <3>2. b[k + 1] = 0 /\ b[k + 2] = 0 /\ k + 1 \in 1 .. Len(b) /\ k + 2 \in 1 .. Len(b)
      <4>1. 1 \in 1 .. 2 /\ 2 \in 1 .. 2
        OBVIOUS
      <4> QED BY <1>8, <2>4, <3>1, <4>1 DEF At
    <3>3. (k + 1) - 1 = k /\ (k + 2) - 1 = k + 1 /\ Len(F[i + 1]) = k + 2
      BY <2>4, <3>1
    <3>4. r[k + 1] = Turn(r[k], 0, k + 1) /\ r[k + 2] = Turn(r[k + 1], 0, k + 2)
      BY <1>10, <3>2, <3>3
    <3>5. r[k + 1] = State("escape", c, 0)
      BY <2>2, <3>4, Turns
    <3>6. r[k + 2] = State("byte", Append(c, 0), 0)
      BY <3>4, <3>5, Turns, 0 # 1
    <3> QED BY <2>5, <2>6, <3>3, <3>6
  <2>7. CASE x # 0
    <3>1. Len(escaped(x)) = 1 /\ escaped(x)[1] = x
      BY <2>3, <2>7, Escaped
    <3>2. b[k + 1] = x /\ k + 1 \in 1 .. Len(b)
      <4>1. 1 \in 1 .. 1
        OBVIOUS
      <4> QED BY <1>8, <2>4, <3>1, <4>1 DEF At
    <3>3. (k + 1) - 1 = k /\ Len(F[i + 1]) = k + 1
      BY <2>4, <3>1
    <3>4. r[k + 1] = Turn(r[k], x, k + 1)
      BY <1>10, <3>2, <3>3
    <3>5. r[k + 1] = State("byte", Append(c, x), 0)
      BY <2>2, <2>7, <3>4, Turns
    <3> QED BY <2>5, <3>3, <3>5
  <2> QED BY <2>6, <2>7
<1> HIDE DEF P
<1>13. P = Nat
  <2>1. P \in SUBSET Nat
    BY DEF P
  <2> QED BY <1>11, <1>12, <2>1, Induction
<1>14. r[l] = State("byte", d, 0)
  <2>1. \A i \in Nat : i <= n => r[Len(F[i])] = State("byte", SubSeq(d, 1, i), 0)
    BY <1>13 DEF P
  <2>2. SubSeq(d, 1, n) = d
    BY DEF n
  <2>3. r[Len(F[n])] = State("byte", SubSeq(d, 1, n), 0)
    <3>1. n <= n
      BY <1>1
    <3> QED BY <1>1, <2>1, <3>1
  <2> QED BY <2>2, <2>3 DEF l, e
<1>15. r[l + 2] = State("end", d, l + 2)
  <2>1. 1 \in 1 .. 2 /\ 2 \in 1 .. 2
    OBVIOUS
  <2>2. b[l + 1] = 0 /\ b[l + 2] = 1
    BY <1>5, <1>8, <2>1 DEF At
  <2>3. l + 1 \in 1 .. Len(b) /\ l + 2 \in 1 .. Len(b) /\ (l + 1) - 1 = l /\ (l + 2) - 1 = l + 1
    BY <1>5, <1>8
  <2>4. r[l + 1] = Turn(r[l], 0, l + 1) /\ r[l + 2] = Turn(r[l + 1], 1, l + 2)
    BY <1>10, <2>2, <2>3
  <2>5. r[l + 1] = State("escape", d, 0)
    BY <1>14, <2>4, Turns
  <2> QED BY <2>4, <2>5, Turns
<1> DEFINE Q == {i \in Nat : (l + 2) + i <= Len(b) => r[(l + 2) + i] = State("end", d, l + 2)}
<1>16. 0 \in Q
  <2>1. (l + 2) + 0 = l + 2
    BY <1>5
  <2> QED BY <1>15, <2>1
<1>17. ASSUME NEW i \in Q PROVE i + 1 \in Q
  <2> SUFFICES ASSUME (l + 2) + (i + 1) <= Len(b) PROVE r[(l + 2) + (i + 1)] = State("end", d, l + 2)
    OBVIOUS
  <2> DEFINE m == (l + 2) + (i + 1)
  <2>1. i \in Nat /\ m \in 1 .. Len(b) /\ m - 1 = (l + 2) + i /\ (l + 2) + i <= Len(b)
    BY <1>5, <1>8
  <2>2. r[m - 1] = State("end", d, l + 2)
    BY <2>1
  <2>3. r[m] = Turn(r[m - 1], b[m], m)
    BY <1>10, <2>1
  <2> HIDE DEF m
  <2>4. r[m] = State("end", d, l + 2)
    BY <2>2, <2>3, Turns
  <2> QED BY <2>4 DEF m
<1> HIDE DEF Q
<1>18. Q = Nat
  <2>1. Q \in SUBSET Nat
    BY DEF Q
  <2> QED BY <1>16, <1>17, <2>1, Induction
<1>19. r[Len(b)] = State("end", d, l + 2)
  <2>1. Len(b) - (l + 2) \in Nat /\ (l + 2) + (Len(b) - (l + 2)) = Len(b) /\ Len(b) <= Len(b)
    BY <1>5, <1>8
  <2>2. \A i \in Nat : (l + 2) + i <= Len(b) => r[(l + 2) + i] = State("end", d, l + 2)
    BY <1>18 DEF Q
  <2> QED BY <2>1, <2>2
<1>20. var_len_decode_bytes(b) = <<d, l + 2>>
  BY <1>10, <1>19 DEF State
<1> QED BY <1>7, <1>20 DEF w, b

-----------------------------------------------------------------------------
(* The headers of variable length: eap, emp, nsp and ptp *)

(* Joining is associative. *)
LEMMA Regrouped ==
  ASSUME NEW a \in Seq(Byte), NEW b \in Seq(Byte), NEW c \in Seq(Byte)
  PROVE  (a \o b) \o c = a \o (b \o c)
  BY ConcatAssociative

(* Two addresses one behind the other are read as they were written. *)
LEMMA TwoAddrs ==
  ASSUME NEW s \in Seq(Byte), NEW d \in Seq(Byte), NEW z \in Seq(Byte)
  PROVE  LET w == var_len_encode_bytes(s) \o var_len_encode_bytes(d)
         IN  /\ w \in Seq(Byte) /\ two_addrs(w \o z) = <<s, d, Len(w)>>
<1> DEFINE e == var_len_encode_bytes(s)
           f == var_len_encode_bytes(d)
           w == e \o f
           b == w \o z
<1>1. e \in Seq(Byte) /\ f \in Seq(Byte)
  BY VarLenTravels
<1>2. \A y \in Seq(Byte) : /\ var_len_decode_bytes(e \o y) = <<s, Len(e)>>
                           /\ var_len_decode_bytes(f \o y) = <<d, Len(f)>>
  BY VarLenTravels
<1> HIDE DEF e, f
<1>3. w \in Seq(Byte) /\ Len(w) = Len(e) + Len(f) /\ b = e \o (f \o z) /\ f \o z \in Seq(Byte)
  <2>1. Pieces2(e, f) /\ Pieces2(f, z)
    BY <1>1, Parts2
  <2>2. (e \o f) \o z = e \o (f \o z)
    BY <1>1, ConcatAssociative
  <2> QED BY <2>1, <2>2 DEF Pieces2
<1>4. drop(b, Len(e)) = f \o z
  BY <1>1, Behind
<1>5. var_len_decode_bytes(b) = <<s, Len(e)>>
  BY <1>2, <1>3
<1> HIDE DEF b
<1>6. var_len_decode_bytes(drop(b, Len(e))) = <<d, Len(f)>>
  BY <1>2, <1>4
<1>7. two_addrs(b) = <<s, d, Len(e) + Len(f)>>
  <2>1. two_addrs(b) = <<s, var_len_decode_bytes(drop(b, Len(e)))[1],
                         Len(e) + var_len_decode_bytes(drop(b, Len(e)))[2]>>
    BY <1>5 DEF two_addrs, With
  <2> QED BY <1>6, <2>1
<1> QED BY <1>3, <1>7 DEF w, b, e, f

(* emp: the header that is read is the one that was written, whatever follows. *)
LEMMA EmpTravels ==
  ASSUME NEW h, EmpHeader(h), NEW d \in Seq(Byte), NEW z \in Seq(Byte)
  PROVE  /\ write_emp(h) \in Seq(Byte)
         /\ extract_emp((write_emp(h) \o d) \o z) = <<h, Len(write_emp(h))>>
<1> DEFINE w == write_emp(h)
           b == (w \o d) \o z
<1>1. h.src_port \in Seq(Byte) /\ h.dest_port \in Seq(Byte) /\ d \o z \in Seq(Byte)
  BY Joined DEF EmpHeader
<1>2. w \in Seq(Byte) /\ two_addrs(w \o (d \o z)) = <<h.src_port, h.dest_port, Len(w)>>
  BY <1>1, TwoAddrs DEF write_emp
<1> HIDE DEF w
<1>3. b = w \o (d \o z)
  BY <1>2, Regrouped
<1> HIDE DEF b
<1>4. extract_emp(b) = <<[src_port |-> h.src_port, dest_port |-> h.dest_port], Len(w)>>
  BY <1>2, <1>3 DEF extract_emp, With
<1> QED BY <1>2, <1>4 DEF w, b, EmpHeader

(* nsp: the header that is read is the one that was written, whatever follows. *)
LEMMA NspTravels ==
  ASSUME NEW h, NspHeader(h), NEW d \in Seq(Byte), NEW z \in Seq(Byte)
  PROVE  /\ write_nsp(h) \in Seq(Byte)
         /\ extract_nsp((write_nsp(h) \o d) \o z) = <<h, Len(write_nsp(h))>>
<1> DEFINE w == write_nsp(h)
           b == (w \o d) \o z
<1>1. h.src_id \in Seq(Byte) /\ h.dest_id \in Seq(Byte) /\ d \o z \in Seq(Byte)
  BY Joined DEF NspHeader
<1>2. w \in Seq(Byte) /\ two_addrs(w \o (d \o z)) = <<h.src_id, h.dest_id, Len(w)>>
  BY <1>1, TwoAddrs DEF write_nsp
<1> HIDE DEF w
<1>3. b = w \o (d \o z)
  BY <1>2, Regrouped
<1> HIDE DEF b
<1>4. extract_nsp(b) = <<[src_id |-> h.src_id, dest_id |-> h.dest_id], Len(w)>>
  BY <1>2, <1>3 DEF extract_nsp, With
<1> QED BY <1>2, <1>4 DEF w, b, NspHeader

(* eap: the header that is read is the one that was written, whatever follows. *)
LEMMA EapTravels ==
  ASSUME NEW h, EapHeader(h), NEW d \in Seq(Byte), NEW z \in Seq(Byte)
  PROVE  /\ write_eap(h) \in Seq(Byte)
         /\ extract_eap((write_eap(h) \o d) \o z) = <<h, Len(write_eap(h))>>
<1> DEFINE v == var_len_encode_bytes(h.src_addr) \o var_len_encode_bytes(h.dest_addr)
           t == <<h.no_jumps, h.prot>>
           w == v \o t
           y == d \o z
           b == (w \o d) \o z
<1>1. /\ h.src_addr \in Seq(Byte) /\ h.dest_addr \in Seq(Byte) /\ y \in Seq(Byte)
      /\ t \in Seq(Byte) /\ Len(t) = 2
  BY Joined DEF EapHeader
<1>2. /\ v \in Seq(Byte)
      /\ \A x \in Seq(Byte) : two_addrs(v \o x) = <<h.src_addr, h.dest_addr, Len(v)>>
  BY <1>1, TwoAddrs
<1>3. write_eap(h) = w
  BY DEF write_eap
<1>4. t = <<h.no_jumps, h.prot>>
  OBVIOUS
<1> HIDE DEF v, t, y
<1>5. w \in Seq(Byte) /\ Len(w) = Len(v) + 2 /\ t \o y \in Seq(Byte)
  <2>1. Pieces2(v, t) /\ Pieces2(t, y)
    BY <1>1, <1>2, Parts2
  <2> QED BY <1>1, <2>1 DEF Pieces2
<1>6. b = v \o (t \o y) /\ b = (v \o t) \o y
  <2>1. b = w \o y
    BY <1>5, ConcatAssociative DEF y
  <2> HIDE DEF b
  <2>2. (v \o t) \o y = v \o (t \o y)
    <3>1. v \in Seq(Byte) /\ t \in Seq(Byte) /\ y \in Seq(Byte)
      BY <1>1, <1>2
    <3> HIDE DEF w
    <3> QED BY <3>1, Regrouped, Zenon
  <2> QED BY <2>1, <2>2
<1> HIDE DEF b
<1>7. two_addrs(b) = <<h.src_addr, h.dest_addr, Len(v)>>
  BY <1>2, <1>5, <1>6
<1>8. b[Len(v) + 1] = h.no_jumps /\ b[Len(v) + 2] = h.prot
  <2>1. Pieces3(v, t, y)
    BY <1>1, <1>2, Parts3
  <2>2. At(v \o t \o y, Len(v), t)
    BY <2>1 DEF Pieces3
  <2>3. At(b, Len(v), <<h.no_jumps, h.prot>>)
    BY <1>4, <1>6, <2>2
  <2>4. Len(v) \in Nat
    BY <1>2
  <2> QED BY <2>3, <2>4, AtByte
<1>9. extract_eap(b) = <<[src_addr |-> h.src_addr, dest_addr |-> h.dest_addr, no_jumps |-> h.no_jumps,
                          prot |-> h.prot], Len(w)>>
  <2>1. extract_eap(b) = <<[src_addr |-> h.src_addr, dest_addr |-> h.dest_addr,
                            no_jumps |-> b[Len(v) + 1], prot |-> b[Len(v) + 2]], Len(v) + 2>>
    BY <1>7 DEF extract_eap, With
  <2> HIDE DEF w
  <2> QED BY <1>5, <1>8, <2>1
<1> QED BY <1>3, <1>5, <1>9 DEF b, EapHeader

(* An action of a ptp path that is read is the one that was written. *)
LEMMA PtpActionTravels ==
  ASSUME NEW a, PtpAction(a), NEW z \in Seq(Byte)
  PROVE  /\ write_ptp_action(a) \in Seq(Byte)
         /\ extract_ptp_action(write_ptp_action(a) \o z) = <<a, Len(write_ptp_action(a))>>
<1> DEFINE w == write_ptp_action(a)
           b == w \o z
<1>1. CASE a.type = 0 /\ a = [type |-> 0, val |-> a.val] /\ a.val \in Byte
  <2> DEFINE t == <<0, a.val>>
  <2>1. t \in Seq(Byte) /\ Len(t) = 2 /\ write_ptp_action(a) = t
    BY <1>1 DEF write_ptp_action, Byte
  <2>2. At(t \o z, 0, <<0, a.val>>)
    BY <2>1, AtEnd
  <2>3. (t \o z)[0 + 1] = 0 /\ (t \o z)[0 + 2] = a.val
    BY <2>2, AtByte
  <2>4. (t \o z)[1] = 0 /\ (t \o z)[2] = a.val
    BY <2>3, 0 + 1 = 1, 0 + 2 = 2
  <2> HIDE DEF t
  <2>5. extract_ptp_action(t \o z) = <<a, 2>>
    BY <1>1, <2>4 DEF extract_ptp_action
  <2> QED BY <2>1, <2>5
<1>2. CASE /\ a.type \in {1, 2} /\ a = [type |-> a.type, src |-> a.src, dest |-> a.dest]
           /\ a.src \in Seq(Byte) /\ a.dest \in Seq(Byte)
  <2> DEFINE t == <<a.type>>
             e == var_len_encode_bytes(a.src)
             f == var_len_encode_bytes(a.dest)
             v == e \o f
  <2>1. t \in Seq(Byte) /\ Len(t) = 1 /\ t[1] = a.type
    BY <1>2 DEF Byte
  <2>2. v \in Seq(Byte) /\ two_addrs(v \o z) = <<a.src, a.dest, Len(v)>>
    BY <1>2, TwoAddrs
  <2>3. e \in Seq(Byte) /\ f \in Seq(Byte)
    BY <1>2, VarLenTravels
  <2>4. write_ptp_action(a) = t \o v
    <3>1. write_ptp_action(a) = t \o e \o f
      BY <1>2 DEF write_ptp_action
    <3> HIDE DEF t, e, f
    <3> QED BY <2>1, <2>3, <3>1, Regrouped DEF v
  <2> HIDE DEF t, e, f, v
  <2>5. t \o v \in Seq(Byte) /\ Len(t \o v) = 1 + Len(v) /\ (t \o v) \o z \in Seq(Byte)
        /\ At((t \o v) \o z, 0, t)
    <3>1. Pieces2(t, v) /\ Pieces3(t, v, z)
      BY <2>1, <2>2, Parts2, Parts3
    <3> QED BY <2>1, <3>1 DEF Pieces2, Pieces3
  <2> DEFINE c == (t \o v) \o z
  <2>6. c[1] = a.type
    <3>1. 1 \in 1 .. 1 /\ 0 + 1 = 1
      OBVIOUS
    <3> QED BY <2>1, <2>5, <3>1 DEF At
  <2>7. Tail(c) = v \o z
    <3>1. drop(c, Len(t)) = v \o z
      BY <2>1, <2>2, Behind
    <3>2. c # <<>>
      BY <2>5, <2>1 DEF At
    <3>3. Tail(c) = SubSeq(c, 2, Len(c))
      BY <2>5, <3>2
    <3> HIDE DEF c
    <3> QED BY <2>1, <3>1, <3>3, 1 + 1 = 2 DEF drop
  <2> HIDE DEF c
  <2>8. extract_ptp_action(c) = <<[type |-> a.type, src |-> a.src, dest |-> a.dest], 1 + Len(v)>>
    <3>1. a.type # 0
      BY <1>2
    <3>2. two_addrs(Tail(c)) = <<a.src, a.dest, Len(v)>>
      BY <2>2, <2>7
    <3>3. extract_ptp_action(c) = With(two_addrs(Tail(c)), LAMBDA x : <<[type |-> c[1], src |-> x[1], dest |-> x[2]], 1 + x[3]>>)
      BY <2>6, <3>1 DEF extract_ptp_action
    <3>4. extract_ptp_action(c) = <<[type |-> c[1], src |-> a.src, dest |-> a.dest], 1 + Len(v)>>
      BY <3>2, <3>3 DEF With
    <3> QED BY <2>6, <3>4
  <2> QED BY <1>2, <2>4, <2>5, <2>8 DEF c
<1> QED BY <1>1, <1>2 DEF PtpAction

(* What is read from where bytes are begins with them. *)
LEMMA AtDrop ==
  ASSUME NEW b \in Seq(Byte), NEW i \in Nat, NEW f \in Seq(Byte), At(b, i, f)
  PROVE  \E y \in Seq(Byte) : drop(b, i) = f \o y
<1> DEFINE n == Len(f)
           m == Len(b)
           j == i + n
           l == i + 1
           k == j + 1
           u == SubSeq(b, l, m)
           y == SubSeq(b, k, m)
<1>1. n \in Nat /\ m \in Nat /\ j <= m /\ \A x \in 1 .. n : b[i + x] = f[x]
  BY DEF At
<1>2. \A x \in 1 .. m : b[x] \in Byte
  BY ElementOfSeq
<1>3. (\A x \in l .. m : b[x] \in Byte) /\ (\A x \in k .. m : b[x] \in Byte) /\ l \in Int /\ k \in Int /\ m \in Int
  <2>1. \A x \in l .. m : x \in 1 .. m
    BY <1>1
  <2>2. \A x \in k .. m : x \in 1 .. m
    BY <1>1
  <2> QED BY <1>1, <1>2, <2>1, <2>2
<1>4. (l <= m => m - l + 1 = m - i) /\ (~(l <= m) => m - i = 0) /\ (k <= m => m - k + 1 = m - j) /\ (~(k <= m) => m - j = 0)
  BY <1>1
<1>5. m - l + 1 = m - i /\ m - k + 1 = m - j
  BY <1>1
<1>6. (\A x \in 1 .. m - i : l + x - 1 = i + x) /\ (\A x \in 1 .. m - j : k + x - 1 = j + x)
  BY <1>1
<1> HIDE DEF l, k
<1>7. u \in Seq(Byte) /\ Len(u) = m - i /\ \A x \in 1 .. m - i : u[x] = b[i + x]
  <2>1. /\ u \in Seq(Byte) /\ Len(u) = (IF l <= m THEN m - l + 1 ELSE 0)
        /\ \A x \in 1 .. m - l + 1 : u[x] = b[l + x - 1]
    BY <1>3, SubSeqProperties
  <2> HIDE DEF u
  <2> QED BY <1>4, <1>5, <1>6, <2>1
<1>8. y \in Seq(Byte) /\ Len(y) = m - j /\ \A x \in 1 .. m - j : y[x] = b[j + x]
  <2>1. /\ y \in Seq(Byte) /\ Len(y) = (IF k <= m THEN m - k + 1 ELSE 0)
        /\ \A x \in 1 .. m - k + 1 : y[x] = b[k + x - 1]
    BY <1>3, SubSeqProperties
  <2> HIDE DEF y
  <2> QED BY <1>4, <1>5, <1>6, <2>1
<1>9. drop(b, i) = u
  BY DEF drop, l
<1> HIDE DEF u, y, m
<1>10. /\ f \o y \in Seq(Byte) /\ Len(f \o y) = n + (m - j)
       /\ \A x \in 1 .. n : (f \o y)[x] = f[x]
       /\ \A x \in 1 .. m - j : (f \o y)[n + x] = y[x]
  <2>1. /\ f \o y \in Seq(Byte) /\ Len(f \o y) = Len(f) + Len(y)
        /\ \A x \in 1 .. Len(f) : (f \o y)[x] = f[x]
        /\ \A x \in 1 .. Len(y) : (f \o y)[Len(f) + x] = y[x]
    <3>1. y \in Seq(Byte)
      BY <1>8
    <3> QED BY <3>1
  <2> QED BY <1>8, <2>1
<1> DEFINE v == f \o y
<1> HIDE DEF v
<1>11. n + (m - j) = m - i
  BY <1>1
<1>12. \A x \in 1 .. m - i : u[x] = v[x]
  <2> SUFFICES ASSUME NEW x \in 1 .. m - i PROVE u[x] = v[x]
    OBVIOUS
  <2>1. CASE x <= n
    <3>1. x \in 1 .. n
      BY <2>1
    <3> QED BY <1>1, <1>7, <1>10, <3>1 DEF v
  <2>2. CASE ~(x <= n)
    <3>1. x - n \in 1 .. m - j /\ n + (x - n) = x /\ j + (x - n) = i + x
      BY <1>1, <2>2
    <3>2. v[n + (x - n)] = y[x - n] /\ y[x - n] = b[j + (x - n)]
      BY <1>8, <1>10, <3>1 DEF v
    <3> QED BY <1>7, <3>1, <3>2
  <2> QED BY <2>1, <2>2
<1>13. u = v
  <2>1. v \in Seq(Byte) /\ Len(v) = m - i
    BY <1>10, <1>11 DEF v
  <2> QED BY <1>7, <1>12, <2>1, SeqEqual
<1> QED BY <1>8, <1>9, <1>13 DEF v

(* The path of a ptp header: the actions one behind the other. *)
LEMMA PathTravels ==
  ASSUME NEW b \in Seq(Byte), NEW A, NEW actions \in Seq(A), \A a \in A : PtpAction(a),
         NEW F \in [0 .. Len(actions) -> Seq(Byte)], F[0] = <<>>,
         \A i \in 1 .. Len(actions) :
           /\ Len(F[i]) = Len(F[i - 1]) + Len(write_ptp_action(actions[i]))
           /\ At(b, 1 + Len(F[i - 1]), write_ptp_action(actions[i]))
  PROVE  items(Len(actions), 1, LAMBDA i : extract_ptp_action(drop(b, i)))
           = <<actions, 1 + Len(F[Len(actions)])>>
<1> DEFINE n == Len(actions)
           turn(f, k) == With(f[k - 1], LAMBDA a : With(extract_ptp_action(drop(b, a[2])), LAMBDA e :
                           <<Append(a[1], e[1]), a[2] + e[2]>>))
           Eq(f) == f = [k \in 0 .. n |-> IF k = 0 THEN <<<<>>, 1>> ELSE turn(f, k)]
           taken == CHOOSE f : Eq(f)
           g == [k \in 0 .. n |-> <<SubSeq(actions, 1, k), 1 + Len(F[k])>>]
<1>1. items(n, 1, LAMBDA i : extract_ptp_action(drop(b, i))) = taken[n]
  BY Zenon DEF items
<1>2. n \in Nat
  OBVIOUS
<1>3. ASSUME NEW f, NEW k \in 1 .. n, f[k - 1] = <<SubSeq(actions, 1, k - 1), 1 + Len(F[k - 1])>>
      PROVE  turn(f, k) = <<SubSeq(actions, 1, k), 1 + Len(F[k])>>
  <2> DEFINE x == 1 + Len(F[k - 1])
             p == SubSeq(actions, 1, k - 1)
             w == write_ptp_action(actions[k])
  <2>1. actions[k] \in A /\ PtpAction(actions[k])
    <3>1. actions[k] \in A
      BY ElementOfSeq
    <3> QED BY <3>1
  <2>2. k - 1 \in 0 .. n /\ F[k - 1] \in Seq(Byte)
    <3>1. k - 1 \in 0 .. n
      <4> HIDE DEF n
      <4> QED BY <1>2
    <3> QED BY <3>1
  <2>3. x \in Nat /\ w \in Seq(Byte) /\ At(b, x, w)
    <3>1. <<>> \in Seq(Byte)
      OBVIOUS
    <3>2. w \in Seq(Byte)
      BY <2>1, <3>1, PtpActionTravels
    <3>3. Len(F[k - 1]) \in Nat
      BY <2>2
    <3>4. x \in Nat
      BY <3>3
    <3> HIDE DEF w
    <3>5. At(b, x, w)
      BY DEF w
    <3> QED BY <3>2, <3>4, <3>5
  <2>4. Append(p, actions[k]) = SubSeq(actions, 1, k)
    <3>1. k - 1 \in Nat /\ (k - 1) + 1 = k /\ k <= n
      BY <1>2
    <3>2. Append(SubSeq(actions, 1, k - 1), actions[(k - 1) + 1]) = SubSeq(actions, 1, (k - 1) + 1)
      BY <3>1, NextElement
    <3> QED BY <3>1, <3>2
  <2>5. x + Len(w) = 1 + Len(F[k])
    <3>1. Len(F[k]) = Len(F[k - 1]) + Len(w) /\ Len(F[k - 1]) \in Nat /\ Len(w) \in Nat
      <4>1. Len(F[k]) = Len(F[k - 1]) + Len(w)
        OBVIOUS
      <4> HIDE DEF w
      <4> QED BY <2>2, <2>3, <4>1
    <3> HIDE DEF w
    <3>2. PICK l1 \in Nat, l2 \in Nat : Len(F[k - 1]) = l1 /\ Len(w) = l2
      BY <3>1
    <3>3. (1 + l1) + l2 = 1 + (l1 + l2)
      OBVIOUS
    <3> QED BY <3>1, <3>2, <3>3
  <2>6. f[k - 1] = <<p, x>>
    BY <1>3
  <2> HIDE DEF x, p
  <2>7. PICK y \in Seq(Byte) : drop(b, x) = w \o y
    BY <2>3, AtDrop
  <2>8. extract_ptp_action(drop(b, x)) = <<actions[k], Len(w)>>
    BY <2>1, <2>7, PtpActionTravels
  <2> HIDE DEF w
  <2>9. turn(f, k) = With(extract_ptp_action(drop(b, x)), LAMBDA e : <<Append(p, e[1]), x + e[2]>>)
    BY <2>6 DEF With
  <2>10. With(extract_ptp_action(drop(b, x)), LAMBDA e : <<Append(p, e[1]), x + e[2]>>)
           = <<Append(p, actions[k]), x + Len(w)>>
    BY <2>8 DEF With
  <2> HIDE DEF turn
  <2> QED BY <2>4, <2>5, <2>9, <2>10
<1> HIDE DEF turn
<1>4. SubSeq(actions, 1, 0) = <<>> /\ Len(F[0]) = 0 /\ SubSeq(actions, 1, n) = actions
  OBVIOUS
<1>5. g[0] = <<<<>>, 1>> /\ \A k \in 0 .. n : g[k] = <<SubSeq(actions, 1, k), 1 + Len(F[k])>>
  <2>1. 0 \in 0 .. n /\ 1 + 0 = 1
    BY <1>2
  <2> QED BY <1>4, <2>1
<1>6. g = [k \in 0 .. n |-> g[k]]
  OBVIOUS
<1> HIDE DEF g, n
<1>7. Eq(g)
  <2>1. ASSUME NEW k \in 0 .. n PROVE g[k] = IF k = 0 THEN <<<<>>, 1>> ELSE turn(g, k)
    <3>1. CASE k = 0
      BY <1>5, <3>1
    <3>2. CASE k # 0
      <4>1. k \in 1 .. n /\ k - 1 \in 0 .. n
        BY <1>2, <3>2
      <4> QED BY <1>3, <1>5, <3>2, <4>1
    <3> QED BY <3>1, <3>2
  <2> QED BY <1>6, <2>1
<1>8. Eq(taken)
  BY <1>7
<1> HIDE DEF taken
<1> DEFINE P == {k \in Nat : k <= n => taken[k] = <<SubSeq(actions, 1, k), 1 + Len(F[k])>>}
<1>9. 0 \in P
  <2>1. 0 \in 0 .. n /\ 1 + 0 = 1
    BY <1>2
  <2> QED BY <1>4, <1>8, <2>1
<1>10. ASSUME NEW k \in P PROVE k + 1 \in P
  <2> SUFFICES ASSUME k + 1 <= n PROVE taken[k + 1] = <<SubSeq(actions, 1, k + 1), 1 + Len(F[k + 1])>>
    OBVIOUS
  <2>1. k \in Nat /\ k + 1 \in 1 .. n /\ k + 1 \in 0 .. n /\ k + 1 # 0 /\ (k + 1) - 1 = k /\ k <= n
    BY <1>2
  <2>2. taken[(k + 1) - 1] = <<SubSeq(actions, 1, (k + 1) - 1), 1 + Len(F[(k + 1) - 1])>>
    BY <2>1
  <2>3. taken[k + 1] = turn(taken, k + 1)
    BY <1>8, <2>1
  <2> QED BY <1>3, <2>1, <2>2, <2>3
<1> HIDE DEF P
<1>11. P = Nat
  <2>1. P \in SUBSET Nat
    BY DEF P
  <2> QED BY <1>9, <1>10, <2>1, Induction
<1>12. taken[n] = <<SubSeq(actions, 1, n), 1 + Len(F[n])>>
  <2>1. \A k \in Nat : k <= n => taken[k] = <<SubSeq(actions, 1, k), 1 + Len(F[k])>>
    BY <1>11 DEF P
  <2> QED BY <1>2, <2>1
<1> QED BY <1>1, <1>4, <1>12 DEF n

-----------------------------------------------------------------------------
(* Checksums *)

\* A number that fits into 16 bits.
Fits(n) == n \in Int /\ 0 <= n /\ n <= 65535

(* Word is the set of those. *)
LEMMA WordIs ==
  ASSUME NEW n
  PROVE  n \in Word <=> Fits(n)
<1>1. ASSUME n \in Word PROVE Fits(n)
  BY <1>1, SMT DEF Word, Fits
<1>2. ASSUME Fits(n), n \notin Word PROVE FALSE
  BY <1>2, SMT DEF Word, Fits
<1> QED BY <1>1, <1>2, Zenon

\* The sums of at most 32767 words.
Sum(n) == n \in Nat /\ n <= 2147385345

\* One turn of the loop that adds the carries of a sum.
Fold(n) == (n \div 65536) + (n % 65536)

\* n is 65536 times u, and l more.
Split(n, u, l) ==
  /\ u \in Nat /\ u <= 32767 /\ l \in Nat /\ l <= 65535
  /\ n = 65536 * u + l /\ Fold(n) = u + l

(* A sum has an upper half and a lower one. *)
LEMMA Halves ==
  ASSUME NEW n, Sum(n)
  PROVE  \E u, l : Split(n, u, l)
<1> DEFINE u == n \div 65536
           l == n % 65536
<1>1. u \in Int /\ l \in Int /\ n = 65536 * u + l /\ 0 <= l /\ l <= 65535
  BY SMT DEF Sum
<1>2. 0 <= u /\ u <= 32767
  BY <1>1, SMT DEF Sum
<1>3. Fold(n) = u + l
  BY SMT DEF Fold
<1> HIDE DEF u, l
<1>4. Split(n, u, l)
  BY <1>1, <1>2, <1>3, SMT DEF Split
<1> QED BY <1>4, Zenon

(* What the second fold of a sum adds. *)
LEMMA FoldsTwice ==
  ASSUME NEW n, Sum(n)
  PROVE  \E u, l, v, k : Split(n, u, l) /\ Split(u + l, v, k) /\ Fold(Fold(n)) = v + k /\ v <= 1 /\ v + k <= 65535
<1>1. PICK u, l : Split(n, u, l)
  BY Halves, Zenon
<1>0. u + l <= 98302
  BY <1>1, SMT DEF Split
<1>2. Sum(u + l)
  BY <1>1, SMT DEF Sum, Split
<1>3. PICK v, k : Split(u + l, v, k)
  BY <1>2, Halves, Zenon
<1>4. Fold(Fold(n)) = v + k
  BY <1>1, <1>3, SMT DEF Split
<1>5. v <= 1 /\ v + k <= 65535
  BY <1>0, <1>3, SMT DEF Split
<1> QED BY <1>1, <1>3, <1>4, <1>5, SMT

(* Folded twice, a sum of 16-bit words is one. *)
LEMMA FoldedIsWord ==
  ASSUME NEW n, Sum(n)
  PROVE  Fits(Fold(Fold(n)))
<1>1. PICK u, l, v, k : Split(n, u, l) /\ Split(u + l, v, k) /\ Fold(Fold(n)) = v + k /\ v <= 1 /\ v + k <= 65535
  BY FoldsTwice, SMT
<1> QED BY <1>1, SMT DEF Split, Fits

(* A sum with the checksum of the rest folds to 65535. *)
LEMMA FoldedWithChecksum ==
  ASSUME NEW n, Sum(n)
  PROVE  Fold(Fold(n + (65535 - Fold(Fold(n))))) = 65535
<1>1. PICK u, l, v, k : Split(n, u, l) /\ Split(u + l, v, k) /\ Fold(Fold(n)) = v + k /\ v <= 1 /\ v + k <= 65535
  BY FoldsTwice, SMT
<1> DEFINE t == n + (65535 - (v + k))
           q == u + v
<1>2. t = 65536 * q + (65535 - q) /\ q \in Nat /\ q <= 32768
  BY <1>1, SMT DEF Split
<1>3. n + (65535 - Fold(Fold(n))) = t
  BY <1>1, SMT
<1> HIDE DEF t, q
<1>4. t \div 65536 = q /\ t % 65536 = 65535 - q
  BY <1>2, SMT
<1>5. Fold(t) = 65535
  BY <1>2, <1>4, SMT DEF Fold
<1>6. Fold(65535) = 65535
  BY SMT DEF Fold
<1> QED BY <1>3, <1>5, <1>6, SMT

\* The ith 16-bit word of b, as the host reads it; the last may be one byte.
WordAt(b, i) == IF 2 * i <= Len(b) THEN from_host16(b, 2 * i - 1) ELSE b[2 * i - 1]

(* Each word that is summed fits into 16 bits. *)
LEMMA WordAtIsWord ==
  ASSUME NEW b \in Seq(Byte), NEW i \in 1 .. (Len(b) + 1) \div 2
  PROVE  WordAt(b, i) \in Word
<1>1. Len(b) \in Nat
  OBVIOUS
<1>2. i \in Nat /\ 2 * i - 1 \in 1 .. Len(b) /\ (2 * i - 1) + 1 = 2 * i
  BY <1>1, SMT
<1>3. b[2 * i - 1] \in Byte
  BY <1>2, ElementOfSeq
<1>4. PICK x \in Byte : b[2 * i - 1] = x
  BY <1>3
<1>5. CASE 2 * i <= Len(b)
  <2>1. 2 * i \in 1 .. Len(b)
    BY <1>1, <1>2, <1>5
  <2>2. b[2 * i] \in Byte
    BY <2>1, ElementOfSeq
  <2>3. PICK y \in Byte : b[2 * i] = y
    BY <2>2
  <2>4. WordAt(b, i) = x + 256 * y
    BY <1>2, <1>4, <1>5, <2>3 DEF WordAt, from_host16
  <2>5. Fits(x + 256 * y)
    BY SMT DEF Byte, Fits
  <2> QED BY <2>4, <2>5, WordIs, SMT
<1>6. CASE ~(2 * i <= Len(b))
  <2>1. WordAt(b, i) = x
    BY <1>4, <1>6 DEF WordAt
  <2>2. Fits(x)
    BY SMT DEF Byte, Fits
  <2> QED BY <2>1, <2>2, WordIs, SMT
<1> QED BY <1>5, <1>6

\* S adds up the words of b, one after the other.
Adds(S, b) ==
  /\ S \in [0 .. (Len(b) + 1) \div 2 -> Nat] /\ S[0] = 0
  /\ \A i \in 1 .. (Len(b) + 1) \div 2 : S[i] = S[i - 1] + WordAt(b, i)

(* words_sum adds up the words. *)
LEMMA Summed ==
  ASSUME NEW b \in Seq(Byte)
  PROVE  \E S : /\ Adds(S, b) /\ words_sum(b) = S[(Len(b) + 1) \div 2]
                /\ \A i \in 0 .. (Len(b) + 1) \div 2 : S[i] <= 65535 * i
<1> DEFINE m == (Len(b) + 1) \div 2
           Eq(f) == f = [i \in 0 .. m |-> IF i = 0 THEN 0 ELSE f[i - 1] + WordAt(b, i)]
           sum == CHOOSE f : Eq(f)
           step == [a \in Nat |-> [i \in Nat |-> IF i \in 1 .. m THEN a + WordAt(b, i) ELSE 0]]
<1>1. words_sum(b) = sum[m]
  BY Zenon DEF words_sum, WordAt
<1>2. m \in Nat
  <2>1. Len(b) \in Nat
    OBVIOUS
  <2> QED BY <2>1, SMT
<1>3. ASSUME NEW i \in 1 .. m PROVE WordAt(b, i) \in Nat /\ WordAt(b, i) <= 65535
  <2>1. WordAt(b, i) \in Word
    BY WordAtIsWord
  <2> QED BY <2>1, WordIs, SMT DEF Fits
<1> HIDE DEF m
<1>4. 0 \in Nat /\ step \in [Nat -> [Nat -> Nat]]
  BY <1>3
<1>5. PICK S \in [0 .. m -> Nat] : Follows(S, m, 0, step)
  <2> HIDE DEF step
  <2> QED BY <1>2, <1>4, Recursion
<1>6. S[0] = 0 /\ \A i \in 1 .. m : S[i] = S[i - 1] + WordAt(b, i)
  <2>1. ASSUME NEW i \in 1 .. m PROVE S[i] = S[i - 1] + WordAt(b, i)
    <3>1. i \in Nat /\ S[i - 1] \in Nat
      BY <1>2
    <3> QED BY <1>5, <3>1 DEF Follows
  <2> QED BY <1>5, <2>1 DEF Follows
<1>7. Eq(S)
  <2>1. \A i \in 0 .. m : i # 0 => i \in 1 .. m
    BY <1>2
  <2>2. S = [i \in 0 .. m |-> S[i]]
    OBVIOUS
  <2> QED BY <1>6, <2>1, <2>2
<1>8. Eq(sum)
  BY <1>7
<1> HIDE DEF sum
<1> DEFINE P == {i \in Nat : i <= m => sum[i] = S[i] /\ S[i] <= 65535 * i}
<1>9. 0 \in P
  <2>1. 0 \in 0 .. m
    BY <1>2
  <2>2. sum[0] = 0
    BY <1>8, <2>1
  <2>3. 0 <= 65535 * 0
    BY SMT
  <2> QED BY <1>6, <2>2, <2>3
<1>10. ASSUME NEW i \in P PROVE i + 1 \in P
  <2> SUFFICES ASSUME i + 1 <= m PROVE sum[i + 1] = S[i + 1] /\ S[i + 1] <= 65535 * (i + 1)
    OBVIOUS
  <2>1. i \in Nat /\ i <= m /\ i + 1 \in 1 .. m /\ i + 1 \in 0 .. m /\ i + 1 # 0 /\ (i + 1) - 1 = i /\ i \in 0 .. m
    BY <1>2
  <2>2. sum[i] = S[i] /\ S[i] <= 65535 * i /\ S[i] \in Nat
    BY <2>1
  <2>3. sum[i + 1] = sum[i] + WordAt(b, i + 1)
    BY <1>8, <2>1
  <2>4. S[i + 1] = S[i] + WordAt(b, i + 1)
    BY <1>6, <2>1
  <2>5. PICK x \in Nat, y \in Nat : S[i] = x /\ WordAt(b, i + 1) = y /\ y <= 65535 /\ x <= 65535 * i
    BY <1>3, <2>1, <2>2
  <2>6. x + y <= 65535 * (i + 1)
    BY <2>1, <2>5, SMT
  <2> QED BY <2>2, <2>3, <2>4, <2>5, <2>6
<1> HIDE DEF P
<1>11. P = Nat
  <2>1. P \in SUBSET Nat
    BY DEF P
  <2> QED BY <1>9, <1>10, <2>1, Induction
<1>12. ASSUME NEW i \in 0 .. m PROVE sum[i] = S[i] /\ S[i] <= 65535 * i
  <2>1. \A k \in Nat : k <= m => sum[k] = S[k] /\ S[k] <= 65535 * k
    BY <1>11 DEF P
  <2> QED BY <1>2, <2>1
<1>13. Adds(S, b)
  BY <1>6 DEF Adds, m
<1>14. words_sum(b) = S[m]
  BY <1>1, <1>2, <1>12, SMT
<1>15. \A i \in 0 .. m : S[i] <= 65535 * i
  BY <1>12, SMT
<1> QED BY <1>13, <1>14, <1>15, SMT DEF m

\* The longest message the sum of which is looked at.
MaxMessage == 65532

(* internet_checksum: the complement of the folded sum, a 16-bit number. *)
LEMMA ChecksumIsWord ==
  ASSUME NEW b \in Seq(Byte), Len(b) <= MaxMessage
  PROVE  /\ Sum(words_sum(b))
         /\ internet_checksum(b) = 65535 - Fold(Fold(words_sum(b)))
         /\ internet_checksum(b) \in Word
<1> DEFINE m == (Len(b) + 1) \div 2
<1>1. PICK S : /\ Adds(S, b) /\ words_sum(b) = S[m] /\ \A i \in 0 .. m : S[i] <= 65535 * i
  BY Summed, SMT
<1>2. Len(b) \in Nat
  OBVIOUS
<1>3. m \in Nat /\ m <= 32766 /\ m \in 0 .. m
  BY <1>2, SMT DEF MaxMessage
<1>4. S[m] \in Nat /\ S[m] <= 65535 * m
  BY <1>1, <1>3, SMT DEF Adds
<1> HIDE DEF m
<1>5. Sum(words_sum(b))
  <2>1. PICK x \in Nat : S[m] = x /\ x <= 65535 * m
    BY <1>4, SMT
  <2>2. Sum(x)
    BY <1>3, <2>1, SMT DEF Sum
  <2> QED BY <1>1, <2>1, <2>2, SMT
<1>6. internet_checksum(b) = 65535 - Fold(Fold(words_sum(b)))
  BY SMT DEF internet_checksum, With, Fold
<1>7. Fits(Fold(Fold(words_sum(b))))
  BY <1>5, FoldedIsWord
<1>8. internet_checksum(b) \in Word
  <2>1. Fits(65535 - Fold(Fold(words_sum(b))))
    BY <1>7, SMT DEF Fits
  <2> QED BY <1>6, <2>1, WordIs, SMT
<1> QED BY <1>5, <1>6, <1>8, SMT

-----------------------------------------------------------------------------
(* ptp, ip4 and icmp, with what sending fills in *)

(* ptp: the header that is read is the one that was written, whatever follows. *)
LEMMA PtpTravels ==
  ASSUME NEW h, PtpHeader(h), NEW d \in Seq(Byte), NEW z \in Seq(Byte)
  PROVE  /\ write_ptp(h) \in Seq(Byte)
         /\ extract_ptp((write_ptp(h) \o d) \o z) = <<h, Len(write_ptp(h))>>
<1> DEFINE actions == h.actions
           n == Len(actions)
           A == {actions[i] : i \in 1 .. n}
           s == [i \in 1 .. n |-> write_ptp_action(actions[i])]
           t == <<h.curr_action, h.no_jumps>>
           p == <<n>>
           w == p \o FlattenSeq(s) \o t
           b == w \o d \o z
<1>1. /\ actions \in Seq(A) /\ n \in Byte /\ n \in Nat /\ h.curr_action \in Byte /\ h.no_jumps \in Byte
      /\ \A i \in 1 .. n : PtpAction(actions[i])
  BY DEF PtpHeader, IsSeq, Byte
<1>2. \A a \in A : PtpAction(a)
  BY <1>1
<1>3. /\ p \in Seq(Byte) /\ Len(p) = 1 /\ p[1] = n /\ t \in Seq(Byte) /\ Len(t) = 2
      /\ t = <<h.curr_action, h.no_jumps>>
  BY <1>1
<1>4. write_ptp(h) = w
  BY DEF write_ptp
<1>5. s \in [1 .. n -> Seq(Byte)] /\ \A i \in 1 .. n : s[i] = write_ptp_action(actions[i])
  <2>1. <<>> \in Seq(Byte)
    OBVIOUS
  <2>2. \A i \in 1 .. n : write_ptp_action(actions[i]) \in Seq(Byte)
    BY <1>1, <2>1, PtpActionTravels
  <2> QED BY <2>2
<1> HIDE DEF s, n, p, t, A, actions
<1>6. PICK F \in [0 .. n -> Seq(Byte)] :
        F[0] = <<>> /\ (\A i \in 1 .. n : F[i] = F[i - 1] \o s[i]) /\ FlattenSeq(s) = F[n]
  BY <1>1, <1>5, Flattened
<1> DEFINE f == FlattenSeq(s)
           l == Len(f)
<1>7. f \in Seq(Byte) /\ l \in Nat /\ f = F[n]
  BY <1>1, <1>6
<1> HIDE DEF f
<1>8. w \in Seq(Byte) /\ Len(w) = (1 + l) + 2
  <2>1. Pieces3(p, f, t)
    BY <1>3, <1>7, Parts3
  <2>2. w \in Seq(Byte) /\ Len(w) = Len(p) + Len(f) + Len(t)
    BY <2>1 DEF Pieces3, f
  <2> QED BY <1>3, <1>7, <2>2
<1>9. b \in Seq(Byte) /\ At(b, 0, p) /\ At(b, 1, f) /\ At(b, 1 + l, t)
  <2>1. Pieces5(p, f, t, d, z)
    BY <1>3, <1>7, Parts5
  <2>2. b \in Seq(Byte) /\ At(b, 0, p) /\ At(b, Len(p), f) /\ At(b, Len(p) + Len(f), t)
    BY <2>1 DEF Pieces5, f
  <2> QED BY <1>3, <2>2
<1> HIDE DEF w, b, l
<1>10. b[1] = n
  <2>1. 1 \in 1 .. 1 /\ 0 + 1 = 1
    OBVIOUS
  <2> QED BY <1>3, <1>9, <2>1 DEF At
<1>11. b[(1 + l) + 1] = h.curr_action /\ b[(1 + l) + 2] = h.no_jumps
  <2>1. At(b, 1 + l, <<h.curr_action, h.no_jumps>>) /\ 1 + l \in Nat
    BY <1>3, <1>7, <1>9
  <2> QED BY <2>1, AtByte
<1>12. \A i \in 1 .. n : /\ Len(F[i]) = Len(F[i - 1]) + Len(s[i])
                         /\ At(b, 1 + Len(F[i - 1]), s[i])
  <2> SUFFICES ASSUME NEW i \in 1 .. n
               PROVE  Len(F[i]) = Len(F[i - 1]) + Len(s[i]) /\ At(b, 1 + Len(F[i - 1]), s[i])
    OBVIOUS
  <2>1. At(f, Len(F[i - 1]), s[i]) /\ Len(F[i]) = Len(F[i - 1]) + Len(s[i])
    BY <1>1, <1>5, <1>6, <1>7, EachThere
  <2>2. i - 1 \in 0 .. n
    BY <1>1
  <2>3. F[i - 1] \in Seq(Byte) /\ s[i] \in Seq(Byte)
    BY <1>5, <1>6, <2>2
  <2>4. Len(F[i - 1]) \in Nat
    BY <2>3
  <2>5. At(b, 1 + Len(F[i - 1]), s[i])
    BY <1>7, <1>9, <2>1, <2>3, <2>4, AtWithin
  <2> QED BY <2>1, <2>5
<1>13. items(n, 1, LAMBDA i : extract_ptp_action(drop(b, i))) = <<actions, 1 + l>>
  <2>1. \A i \in 1 .. Len(actions) :
           /\ Len(F[i]) = Len(F[i - 1]) + Len(write_ptp_action(actions[i]))
           /\ At(b, 1 + Len(F[i - 1]), write_ptp_action(actions[i]))
    BY <1>5, <1>12 DEF n
  <2>2. F \in [0 .. Len(actions) -> Seq(Byte)] /\ F[0] = <<>>
    BY <1>6 DEF n
  <2>3. items(Len(actions), 1, LAMBDA i : extract_ptp_action(drop(b, i))) = <<actions, 1 + Len(F[Len(actions)])>>
    BY <1>1, <1>2, <1>9, <2>1, <2>2, PathTravels
  <2> QED BY <1>7, <2>3 DEF n, l
<1>14. extract_ptp(b) = <<[actions |-> actions, curr_action |-> h.curr_action, no_jumps |-> h.no_jumps], Len(w)>>
  <2>1. items(b[1], 1, LAMBDA i : extract_ptp_action(drop(b, i))) = <<actions, 1 + l>>
    BY <1>10, <1>13
  <2> DEFINE it == items(b[1], 1, LAMBDA i : extract_ptp_action(drop(b, i)))
  <2>3. extract_ptp(b) = With(it, LAMBDA r :
          <<[actions |-> r[1], curr_action |-> b[r[2] + 1], no_jumps |-> b[r[2] + 2]], r[2] + 2>>)
    BY Zenon DEF extract_ptp
  <2>4. it = <<actions, 1 + l>>
    BY <2>1
  <2> HIDE DEF it
  <2>2. extract_ptp(b) = <<[actions |-> actions, curr_action |-> b[(1 + l) + 1], no_jumps |-> b[(1 + l) + 2]],
                           (1 + l) + 2>>
    BY <2>3, <2>4 DEF With
  <2> QED BY <1>8, <1>11, <2>2
<1> QED BY <1>4, <1>8, <1>14 DEF b, PtpHeader, actions

(* htons gives two bytes, of a longer number the lower ones. *)
LEMMA AnyWordBytes ==
  ASSUME NEW n \in Nat
  PROVE  htons(n) \in Seq(Byte) /\ Len(htons(n)) = 2
<1>1. n \div 256 \in Nat
  BY SMT
<1>2. \A k \in Nat : k % 256 \in Byte
  BY SMT DEF Byte
<1>3. PICK q \in Byte, r \in Byte : q = (n \div 256) % 256 /\ r = n % 256
  BY <1>1, <1>2
<1> QED BY <1>3 DEF htons

\* What the ip4 header h is read as, with the length that is read.
Ip4Read(h, total_len) ==
  [version |-> h.version, header_len |-> h.header_len, tos |-> h.tos, total_len |-> total_len,
   id |-> h.id, flags |-> 0, frag_off |-> h.frag_off, ttl |-> h.ttl, prot |-> h.prot,
   checksum |-> h.checksum, src_addr |-> h.src_addr, dest_addr |-> h.dest_addr]

(* ip4: all but the flags and the length are read as written. *)
LEMMA Ip4Travels ==
  ASSUME NEW h, Ip4Header(h), h.total_len \in Nat, h.checksum \in Word,
         NEW d \in Seq(Byte), NEW z \in Seq(Byte)
  PROVE  /\ write_ip4(h) \in Seq(Byte) /\ Len(write_ip4(h)) = 20
         /\ \E n : extract_ip4((write_ip4(h) \o d) \o z) = <<Ip4Read(h, n), 20>>
<1> DEFINE x == 16 * h.version + h.header_len
           y == 8192 * h.flags + h.frag_off
           p1 == <<x, h.tos>>
           p2 == htons(h.total_len)
           p3 == htons(h.id)
           p4 == htons(y)
           p5 == <<h.ttl, h.prot>>
           p6 == host16(h.checksum)
           a == p1 \o p2 \o p3 \o p4 \o p5
           w == a \o p6 \o h.src_addr \o h.dest_addr
           b == w \o d \o z
<1>1. /\ h.version \in 0 .. 15 /\ h.header_len \in 0 .. 15 /\ h.tos \in Byte /\ h.id \in Word
      /\ h.flags \in 0 .. 7 /\ h.frag_off \in 0 .. 8191 /\ h.ttl \in Byte /\ h.prot \in Byte
      /\ h.src_addr \in Seq(Byte) /\ h.dest_addr \in Seq(Byte) /\ Len(h.src_addr) = 4 /\ Len(h.dest_addr) = 4
  BY SMT DEF Ip4Header, Octets
<1>2. x \in Byte /\ x \div 16 = h.version /\ x % 16 = h.header_len
  <2>1. PICK u, v : h.version = u /\ h.header_len = v
    OBVIOUS
  <2>5. u \in 0 .. 15 /\ v \in 0 .. 15
    BY <2>1 DEF Ip4Header
  <2>2. u \in Nat /\ v \in Nat /\ u <= 15 /\ v <= 15
    BY <2>5, SMT
  <2>3. (16 * u + v) \div 16 = u /\ (16 * u + v) % 16 = v
    BY <2>2, SMT
  <2>4. 16 * u + v \in Byte
    BY <2>2, SMT DEF Byte
  <2> QED BY <2>1, <2>3, <2>4, SMT
<1>3. y \in Word /\ (8192 * (y \div 8192)) % 8 = 0 /\ y % 8192 = h.frag_off
  <2>5. PICK u, v : h.flags = u /\ h.frag_off = v
    OBVIOUS
  <2>6. Ip4Header(h) => u \in 0 .. 7 /\ v \in 0 .. 8191
    BY <2>5, SMT DEF Ip4Header
  <2>7. u \in 0 .. 7 /\ v \in 0 .. 8191
    BY <2>6, SMT
  <2>8. u \in Nat /\ v \in Nat /\ u <= 7 /\ v <= 8191
    BY <2>7, SMT
  <2>1. u \in Nat /\ v \in Nat /\ u <= 7 /\ v <= 8191 /\ h.flags = u /\ h.frag_off = v
    BY <2>5, <2>8, SMT
  <2>2. Fits(8192 * u + v) /\ (8192 * u + v) % 8192 = v /\ (8192 * u + v) \div 8192 = u
    BY <2>1, SMT DEF Fits
  <2>3. (8192 * u) % 8 = 0
    BY <2>1, SMT
  <2>4. Fits(y) /\ y % 8192 = v /\ y \div 8192 = u
    BY <2>1, <2>2, SMT
  <2> QED BY <2>1, <2>3, <2>4, WordIs, SMT
<1>4. /\ p1 \in Seq(Byte) /\ p2 \in Seq(Byte) /\ p3 \in Seq(Byte) /\ p4 \in Seq(Byte) /\ p5 \in Seq(Byte)
      /\ p6 \in Seq(Byte)
      /\ Len(p1) = 2 /\ Len(p2) = 2 /\ Len(p3) = 2 /\ Len(p4) = 2 /\ Len(p5) = 2 /\ Len(p6) = 2
  <2>1. p2 \in Seq(Byte) /\ Len(p2) = 2
    BY AnyWordBytes
  <2>2. p3 \in Seq(Byte) /\ Len(p3) = 2
    BY <1>1, WordBytes
  <2> HIDE DEF x, y
  <2>3. p4 \in Seq(Byte) /\ Len(p4) = 2
    BY <1>3, WordBytes
  <2>4. p6 \in Seq(Byte) /\ Len(p6) = 2
    BY HostWord
  <2>5. p1 \in Seq(Byte) /\ p5 \in Seq(Byte) /\ Len(p1) = 2 /\ Len(p5) = 2
    BY <1>1, <1>2, SMT
  <2> HIDE DEF p1, p2, p3, p4, p5, p6
  <2> QED BY <2>1, <2>2, <2>3, <2>4, <2>5
<1>5. write_ip4(h) = w
  BY SMT DEF write_ip4
<1> HIDE DEF x, y, p1, p2, p3, p4, p5, p6
<1>6. /\ a \in Seq(Byte) /\ Len(a) = 10
      /\ At(a, 0, p1) /\ At(a, 2, p2) /\ At(a, 4, p3) /\ At(a, 6, p4) /\ At(a, 8, p5)
  <2>1. /\ a \in Seq(Byte) /\ Len(a) = Len(p1) + Len(p2) + Len(p3) + Len(p4) + Len(p5)
        /\ At(a, 0, p1) /\ At(a, Len(p1), p2) /\ At(a, Len(p1) + Len(p2), p3)
        /\ At(a, Len(p1) + Len(p2) + Len(p3), p4)
        /\ At(a, Len(p1) + Len(p2) + Len(p3) + Len(p4), p5)
    <3>1. Pieces5(p1, p2, p3, p4, p5)
      BY <1>4, Parts5
    <3> QED BY <3>1 DEF Pieces5
  <2>2. 2 + 2 = 4 /\ 2 + 2 + 2 = 6 /\ 2 + 2 + 2 + 2 = 8 /\ 2 + 2 + 2 + 2 + 2 = 10
    OBVIOUS
  <2> HIDE DEF a
  <2> QED BY <1>4, <2>1, <2>2
<1> HIDE DEF a
<1>7. /\ w \in Seq(Byte) /\ Len(w) = 20
      /\ At(w, 0, a) /\ At(w, 10, p6) /\ At(w, 12, h.src_addr) /\ At(w, 16, h.dest_addr)
  <2>1. /\ w \in Seq(Byte) /\ Len(w) = Len(a) + Len(p6) + Len(h.src_addr) + Len(h.dest_addr)
        /\ At(w, 0, a) /\ At(w, Len(a), p6) /\ At(w, Len(a) + Len(p6), h.src_addr)
        /\ At(w, Len(a) + Len(p6) + Len(h.src_addr), h.dest_addr)
    <3>1. Pieces4(a, p6, h.src_addr, h.dest_addr)
      BY <1>1, <1>4, <1>6, Parts4
    <3> QED BY <3>1 DEF Pieces4
  <2>2. 10 + 2 = 12 /\ 10 + 2 + 4 = 16 /\ 10 + 2 + 4 + 4 = 20
    OBVIOUS
  <2> HIDE DEF w
  <2> QED BY <1>1, <1>4, <1>6, <2>1, <2>2
<1> HIDE DEF w
<1>8. w \o d \in Seq(Byte) /\ b \in Seq(Byte)
  <2>1. Pieces2(w, d) /\ Pieces3(w, d, z)
    BY <1>7, Parts2, Parts3
  <2> QED BY <2>1 DEF Pieces2, Pieces3
<1>9. At(b, 0, a) /\ At(b, 10, p6) /\ At(b, 12, h.src_addr) /\ At(b, 16, h.dest_addr)
  <2>1. At(w \o d, 0, a) /\ At(b, 0, a)
    BY <1>6, <1>7, <1>8, AtKept
  <2>2. At(w \o d, 10, p6) /\ At(b, 10, p6)
    BY <1>4, <1>7, <1>8, AtKept
  <2>5. h.src_addr \in Seq(Byte) /\ h.dest_addr \in Seq(Byte)
    BY <1>1, SMT
  <2>6. \A i \in Nat, f \in Seq(Byte) : At(w, i, f) => At(w \o d, i, f) /\ At(b, i, f)
    <3> SUFFICES ASSUME NEW i \in Nat, NEW f \in Seq(Byte), At(w, i, f)
                 PROVE  At(w \o d, i, f) /\ At(b, i, f)
      OBVIOUS
    <3>1. At(w \o d, i, f)
      BY <1>7, AtKept
    <3>2. At((w \o d) \o z, i, f)
      BY <1>8, <3>1, AtKept
    <3> QED BY <3>1, <3>2
  <2>7. 12 \in Nat /\ 16 \in Nat
    OBVIOUS
  <2>3. At(b, 12, h.src_addr)
    BY <1>7, <2>5, <2>6, <2>7, Zenon
  <2>4. At(b, 16, h.dest_addr)
    BY <1>7, <2>5, <2>6, <2>7, Zenon
  <2> QED BY <2>1, <2>2, <2>3, <2>4
<1> HIDE DEF b
<1>10. At(b, 0, p1) /\ At(b, 4, p3) /\ At(b, 6, p4) /\ At(b, 8, p5)
  <2>1. 0 + 0 = 0 /\ 0 + 4 = 4 /\ 0 + 6 = 6 /\ 0 + 8 = 8
    OBVIOUS
  <2>2. At(b, 0 + 0, p1)
    BY <1>4, <1>6, <1>8, <1>9, AtWithin
  <2>3. At(b, 0 + 4, p3)
    BY <1>4, <1>6, <1>8, <1>9, AtWithin
  <2>4. At(b, 0 + 6, p4)
    BY <1>4, <1>6, <1>8, <1>9, AtWithin
  <2>5. At(b, 0 + 8, p5)
    BY <1>4, <1>6, <1>8, <1>9, AtWithin
  <2> QED BY <2>1, <2>2, <2>3, <2>4, <2>5
<1>11. /\ b[1] = x /\ b[2] = h.tos /\ b[9] = h.ttl /\ b[10] = h.prot
       /\ ntohs(b, 5) = h.id /\ ntohs(b, 7) = y /\ from_host16(b, 11) = h.checksum
  <2>1. b[0 + 1] = x /\ b[0 + 2] = h.tos
    BY <1>10, AtByte DEF p1
  <2>2. b[8 + 1] = h.ttl /\ b[8 + 2] = h.prot
    BY <1>10, AtByte DEF p5
  <2>3. ntohs(b, 4 + 1) = h.id
    <3>1. At(b, 4, htons(h.id)) /\ h.id \in Word
      BY <1>1, <1>10, SMT DEF p3
    <3> QED BY <3>1, AtWord
  <2>4. ntohs(b, 6 + 1) = y
    <3>1. At(b, 6, htons(y)) /\ y \in Word
      BY <1>3, <1>10, SMT DEF p4
    <3> QED BY <3>1, AtWord
  <2>5. from_host16(b, 10 + 1) = h.checksum
    BY <1>9, AtHostWord DEF p6
  <2> QED BY <2>1, <2>2, <2>3, <2>4, <2>5, 0 + 1 = 1, 0 + 2 = 2, 8 + 1 = 9, 8 + 2 = 10, 4 + 1 = 5,
             6 + 1 = 7, 10 + 1 = 11
<1>12. SubSeq(b, 13, 16) = h.src_addr /\ SubSeq(b, 17, 20) = h.dest_addr
  <2>1. Field(b, 12, Len(h.src_addr)) = h.src_addr /\ Field(b, 16, Len(h.dest_addr)) = h.dest_addr
    <3>1. h.src_addr \in Seq(Byte) /\ h.dest_addr \in Seq(Byte)
      BY <1>1, SMT
    <3> QED BY <1>8, <1>9, <3>1, AtField
  <2> QED BY <1>1, <2>1, 12 + 1 = 13, 12 + 4 = 16, 16 + 1 = 17, 16 + 4 = 20 DEF Field
<1>13. extract_ip4(b) = <<Ip4Read(h, ntohs(b, 3)), 20>>
  <2>1. b[1] \div 16 = h.version /\ b[1] % 16 = h.header_len
    BY <1>2, <1>11
  <2>2. (8192 * (ntohs(b, 7) \div 8192)) % 8 = 0 /\ ntohs(b, 7) % 8192 = h.frag_off
    BY <1>3, <1>11
  <2> DEFINE fl == (8192 * (ntohs(b, 7) \div 8192)) % 8
             fr == ntohs(b, 7) % 8192
             ver == b[1] \div 16
             hl == b[1] % 16
  <2>3. extract_ip4(b) = <<[version |-> ver, header_len |-> hl, tos |-> b[2],
     total_len |-> ntohs(b, 3), id |-> ntohs(b, 5),
     flags |-> fl, frag_off |-> fr,
     ttl |-> b[9], prot |-> b[10], checksum |-> from_host16(b, 11),
     src_addr |-> SubSeq(b, 13, 16), dest_addr |-> SubSeq(b, 17, 20)], 20>>
    BY SMT DEF extract_ip4
  <2>4. ver = h.version /\ hl = h.header_len /\ fl = 0 /\ fr = h.frag_off
    BY <2>1, <2>2, SMT
  <2> HIDE DEF fl, fr, ver, hl
  <2> QED BY <1>11, <1>12, <2>3, <2>4 DEF Ip4Read
<1> QED BY <1>5, <1>7, <1>13, Zenon DEF b

\* The ip4 header h with another length and checksum, the icmp header h with another checksum.
Ip4With(h, n, c) ==
  [version |-> h.version, header_len |-> h.header_len, tos |-> h.tos, total_len |-> n,
   id |-> h.id, flags |-> h.flags, frag_off |-> h.frag_off, ttl |-> h.ttl, prot |-> h.prot,
   checksum |-> c, src_addr |-> h.src_addr, dest_addr |-> h.dest_addr]
IcmpWith(h, c) ==
  [type |-> h.type, code |-> h.code, checksum |-> c, sequence |-> h.sequence, id |-> h.id]

(* The fields of a header whose length or checksum is set. *)
LEMMA Ip4Fields ==
  ASSUME NEW h, Ip4Header(h), NEW n, NEW c
  PROVE  /\ Ip4Header(Ip4With(h, n, c))
         /\ write_ip4([h EXCEPT !.checksum = c]) = write_ip4(Ip4With(h, h.total_len, c))
         /\ LET g == [h EXCEPT !.total_len = n]
            IN  /\ Ip4Header(g) /\ g.total_len = n
                /\ \A m : Ip4With(g, n, m) = Ip4With(h, n, m)
<1>1. h = [version |-> h.version, header_len |-> h.header_len, tos |-> h.tos, total_len |-> h.total_len,
           id |-> h.id, flags |-> h.flags, frag_off |-> h.frag_off, ttl |-> h.ttl, prot |-> h.prot,
           checksum |-> h.checksum, src_addr |-> h.src_addr, dest_addr |-> h.dest_addr]
  BY SMT DEF Ip4Header
<1>2. Ip4Header(Ip4With(h, n, c))
  <2> DEFINE r == Ip4With(h, n, c)
  <2>1. r.version = h.version /\ r.header_len = h.header_len /\ r.tos = h.tos /\ r.total_len = n
        /\ r.id = h.id /\ r.flags = h.flags /\ r.frag_off = h.frag_off /\ r.ttl = h.ttl /\ r.prot = h.prot
        /\ r.checksum = c /\ r.src_addr = h.src_addr /\ r.dest_addr = h.dest_addr
    BY SMT DEF Ip4With
  <2>2. r = [version |-> r.version, header_len |-> r.header_len, tos |-> r.tos, total_len |-> r.total_len,
           id |-> r.id, flags |-> r.flags, frag_off |-> r.frag_off, ttl |-> r.ttl, prot |-> r.prot,
           checksum |-> r.checksum, src_addr |-> r.src_addr, dest_addr |-> r.dest_addr]
    BY SMT DEF Ip4With
  <2> HIDE DEF r
  <2>3. Ip4Header(r)
    BY <2>1, <2>2, SMT DEF Ip4Header
  <2> QED BY <2>3, Zenon DEF r
<1>3. write_ip4([h EXCEPT !.checksum = c]) = write_ip4(Ip4With(h, h.total_len, c))
  <2> DEFINE r == [h EXCEPT !.checksum = c]
             k == Ip4With(h, h.total_len, c)
  <2>1. r.version = h.version /\ r.header_len = h.header_len /\ r.tos = h.tos /\ r.total_len = h.total_len
        /\ r.id = h.id /\ r.flags = h.flags /\ r.frag_off = h.frag_off /\ r.ttl = h.ttl /\ r.prot = h.prot
        /\ r.checksum = c /\ r.src_addr = h.src_addr /\ r.dest_addr = h.dest_addr
    BY <1>1, SMT
  <2>2. k.version = h.version /\ k.header_len = h.header_len /\ k.tos = h.tos /\ k.total_len = h.total_len
        /\ k.id = h.id /\ k.flags = h.flags /\ k.frag_off = h.frag_off /\ k.ttl = h.ttl /\ k.prot = h.prot
        /\ k.checksum = c /\ k.src_addr = h.src_addr /\ k.dest_addr = h.dest_addr
    BY SMT DEF Ip4With
  <2> HIDE DEF r, k
  <2>3. /\ k.version = r.version /\ k.header_len = r.header_len /\ k.tos = r.tos /\ k.total_len = r.total_len
        /\ k.id = r.id /\ k.flags = r.flags /\ k.frag_off = r.frag_off /\ k.ttl = r.ttl /\ k.prot = r.prot
        /\ k.checksum = r.checksum /\ k.src_addr = r.src_addr /\ k.dest_addr = r.dest_addr
    BY <2>1, <2>2, SMT
  <2> QED BY <2>3, SMT DEF write_ip4, r, k
<1>4. LET g == [h EXCEPT !.total_len = n]
      IN  Ip4Header(g) /\ g.total_len = n /\ \A m : Ip4With(g, n, m) = Ip4With(h, n, m)
  <2> DEFINE r == [h EXCEPT !.total_len = n]
  <2>1. r.version = h.version /\ r.header_len = h.header_len /\ r.tos = h.tos /\ r.total_len = n
        /\ r.id = h.id /\ r.flags = h.flags /\ r.frag_off = h.frag_off /\ r.ttl = h.ttl /\ r.prot = h.prot
        /\ r.checksum = h.checksum /\ r.src_addr = h.src_addr /\ r.dest_addr = h.dest_addr
    BY <1>1, SMT
  <2>2. r = [version |-> r.version, header_len |-> r.header_len, tos |-> r.tos, total_len |-> r.total_len,
           id |-> r.id, flags |-> r.flags, frag_off |-> r.frag_off, ttl |-> r.ttl, prot |-> r.prot,
           checksum |-> r.checksum, src_addr |-> r.src_addr, dest_addr |-> r.dest_addr]
    BY <1>1, SMT
  <2> HIDE DEF r
  <2>3. Ip4Header(r)
    BY <2>1, <2>2, SMT DEF Ip4Header
  <2>4. ASSUME NEW m PROVE Ip4With(r, n, m) = Ip4With(h, n, m)
    BY <2>1, SMT DEF Ip4With
  <2> QED BY <2>1, <2>3, <2>4, Zenon DEF r
<1> QED BY <1>2, <1>3, <1>4, Zenon

(* icmp: the checksum is filled in, the other fields stay. *)
LEMMA IcmpFields ==
  ASSUME NEW h, IcmpHeader(h), NEW c
  PROVE  /\ IcmpHeader(IcmpWith(h, c))
         /\ write_icmp([h EXCEPT !.checksum = c]) = write_icmp(IcmpWith(h, c))
<1>1. h = [type |-> h.type, code |-> h.code, checksum |-> h.checksum, sequence |-> h.sequence, id |-> h.id]
  BY DEF IcmpHeader
<1> DEFINE r == [h EXCEPT !.checksum = c]
           k == IcmpWith(h, c)
<1>2. r.type = h.type /\ r.code = h.code /\ r.checksum = c /\ r.sequence = h.sequence /\ r.id = h.id
  BY <1>1, SMT
<1>3. /\ k.type = h.type /\ k.code = h.code /\ k.checksum = c /\ k.sequence = h.sequence /\ k.id = h.id
      /\ k = [type |-> k.type, code |-> k.code, checksum |-> k.checksum, sequence |-> k.sequence, id |-> k.id]
  BY SMT DEF IcmpWith
<1> HIDE DEF r, k
<1>4. IcmpHeader(k)
  BY <1>3, SMT DEF IcmpHeader
<1>5. write_icmp(r) = write_icmp(k)
  BY <1>2, <1>3, SMT DEF write_icmp
<1> QED BY <1>4, <1>5, Zenon DEF r, k

(* The checksum of a message is a word. *)
LEMMA ChecksumFits ==
  ASSUME NEW b \in Seq(Byte), Len(b) <= MaxMessage
  PROVE  internet_checksum(b) \in Word
BY ChecksumIsWord, SMT

(* What ip4 sends: the header with the checksum of its twenty bytes. *)
LEMMA Ip4Sends ==
  ASSUME NEW h, Ip4Header(h), h.total_len \in Nat
  PROVE  \E c \in Word :
           /\ c = internet_checksum(write_ip4(Ip4With(h, h.total_len, 0)))
           /\ \A d : ip4_send(h, d) = write_ip4(Ip4With(h, h.total_len, c)) \o d
<1> DEFINE k == Ip4With(h, h.total_len, 0)
           w == write_ip4(k)
           c == internet_checksum(w)
<1>1. Ip4Header(k) /\ k.total_len \in Nat /\ k.checksum \in Word
  <2>1. k.total_len = h.total_len /\ k.checksum = 0
    BY SMT DEF Ip4With
  <2>2. Ip4Header(k)
    BY Ip4Fields
  <2> HIDE DEF k
  <2> QED BY <2>1, <2>2, ZeroIsWord, Zenon
<1>2. w \in Seq(Byte) /\ Len(w) = 20
  <2>1. <<>> \in Seq(Byte)
    OBVIOUS
  <2> HIDE DEF k
  <2> QED BY <1>1, <2>1, Ip4Travels, Zenon
<1>3. c \in Word
  <2> HIDE DEF w
  <2>1. 20 <= MaxMessage
    BY SMT DEF MaxMessage
  <2> QED BY <1>2, <2>1, ChecksumFits
<1>4. ASSUME NEW d PROVE ip4_send(h, d) = write_ip4(Ip4With(h, h.total_len, c)) \o d
  <2>1. write_ip4([h EXCEPT !.checksum = 0]) = w
    BY Ip4Fields, Zenon
  <2>2. write_ip4([h EXCEPT !.checksum = c]) = write_ip4(Ip4With(h, h.total_len, c))
    BY Ip4Fields, Zenon
  <2> HIDE DEF w, k
  <2> QED BY <2>1, <2>2, Zenon DEF ip4_send
<1> QED BY <1>3, <1>4, Zenon

(* What icmp sends: the header with the checksum of header and data. *)
LEMMA IcmpSends ==
  ASSUME NEW h, IcmpHeader(h), NEW d \in Payload
  PROVE  \E c \in Word :
           /\ c = internet_checksum(write_icmp(IcmpWith(h, 0)) \o d)
           /\ icmp_send(h, d) = write_icmp(IcmpWith(h, c)) \o d
<1> DEFINE k == IcmpWith(h, 0)
           w == write_icmp(k) \o d
           c == internet_checksum(w)
<1>0. d \in Seq(Byte) /\ Len(d) <= MaxData
  BY SMT DEF Payload
<1>1. IcmpHeader(k) /\ k.checksum \in Word
  <2>1. k.checksum = 0
    BY SMT DEF IcmpWith
  <2>2. IcmpHeader(k)
    BY IcmpFields
  <2> HIDE DEF k
  <2> QED BY <2>1, <2>2, ZeroIsWord, Zenon
<1> HIDE DEF k
<1>2. w \in Seq(Byte) /\ write_icmp(k) \in Seq(Byte) /\ Len(write_icmp(k)) = 8
  <2>1. <<>> \in Seq(Byte)
    OBVIOUS
  <2> QED BY <1>0, <1>1, <2>1, IcmpTravels
<1>3. c \in Word
  <2>1. Len(w) = 8 + Len(d)
    <3>1. Pieces2(write_icmp(k), d)
      BY <1>0, <1>2, Parts2
    <3> QED BY <1>2, <3>1, Zenon DEF Pieces2
  <2>3. Len(d) \in Nat
    BY <1>0, SMT
  <2>2. Len(w) <= MaxMessage
    BY <1>0, <2>1, <2>3, SMT DEF MaxMessage, MaxData
  <2> HIDE DEF w
  <2> QED BY <1>2, <2>2, ChecksumFits
<1>4. icmp_send(h, d) = write_icmp(IcmpWith(h, c)) \o d
  <2>1. write_icmp([h EXCEPT !.checksum = 0]) = write_icmp(k)
    BY IcmpFields, Zenon DEF k
  <2>2. write_icmp([h EXCEPT !.checksum = c]) = write_icmp(IcmpWith(h, c))
    BY IcmpFields, Zenon
  <2> QED BY <2>1, <2>2, Zenon DEF icmp_send
<1> QED BY <1>3, <1>4, Zenon DEF k

-----------------------------------------------------------------------------
(* A protocol of the stack *)

\* The fields that sending fills in.
Filled == {"len", "checksum", "total_len", "flags"}

\* The header g that is read is the header h that was sent before d.
Kept(p, h, d, g) ==
  /\ \A f \in DOMAIN h \ Filled : g[f] = h[f]
  /\ p = "udp" => g.len = 8 + Len(d)
  /\ p = "ip4" => g.flags = 0

\* What protocol p sends is read by p, with whatever follows it.
Travels(p, h, d) ==
  /\ send(p, h, d) \in Seq(Byte)
  /\ \A z \in Seq(Byte) :
       LET b == send(p, h, d) \o z
       IN  /\ Kept(p, h, d, extract(p, b)[1])
           /\ p \notin {"arp", "icmp"} => drop(b, extract(p, b)[2]) = d \o z
           /\ p = "icmp" => drop(b, 8) = d \o z

(* A header of a fixed shape behind which the data follow. *)
LEMMA ReadBack ==
  ASSUME NEW p \in {"emp", "nsp", "eap", "ptp"}, NEW h, NEW d \in Seq(Byte), NEW w \in Seq(Byte),
         send(p, h, d) = w \o d,
         \A z \in Seq(Byte) : extract(p, (w \o d) \o z) = <<h, Len(w)>>
  PROVE  Travels(p, h, d)
<1>1. w \o d \in Seq(Byte)
  BY Joined
<1>2. p # "udp" /\ p # "ip4" /\ p # "arp" /\ p # "icmp"
  OBVIOUS
<1>3. ASSUME NEW z \in Seq(Byte)
      PROVE  /\ Kept(p, h, d, extract(p, (w \o d) \o z)[1])
             /\ drop((w \o d) \o z, extract(p, (w \o d) \o z)[2]) = d \o z
  <2>1. extract(p, (w \o d) \o z)[1] = h /\ extract(p, (w \o d) \o z)[2] = Len(w)
    BY SMT
  <2>2. drop((w \o d) \o z, Len(w)) = d \o z
    BY Behind
  <2> QED BY <1>2, <2>1, <2>2, Zenon DEF Kept
<1> QED BY <1>1, <1>2, <1>3, Zenon DEF Travels

(* What ether2 sends is read by ether2. *)
LEMMA Ether2Layer ==
  ASSUME NEW h, Ether2Header(h), NEW d \in Seq(Byte)
  PROVE  Travels("ether2", h, d)
<1>1. send("ether2", h, d) = ether2_send(h, d) /\ \A b : extract("ether2", b) = extract_ether2(b)
  BY Zenon DEF send, extract
<1>2. ether2_send(h, d) \in Seq(Byte)
  <2>1. <<>> \in Seq(Byte)
    OBVIOUS
  <2> QED BY <2>1, Ether2Travels
<1>3. ASSUME NEW z \in Seq(Byte)
      PROVE  LET b == ether2_send(h, d) \o z
             IN  Kept("ether2", h, d, extract_ether2(b)[1]) /\ drop(b, extract_ether2(b)[2]) = d \o z
  <2> DEFINE b == ether2_send(h, d) \o z
  <2>1. extract_ether2(b) = <<h, 14>> /\ drop(b, 14) = d \o z
    BY Ether2Travels
  <2> HIDE DEF b
  <2>2. extract_ether2(b)[1] = h /\ extract_ether2(b)[2] = 14
    BY <2>1, SMT
  <2> QED BY <2>1, <2>2, Zenon DEF Kept, b
<1> QED BY <1>1, <1>2, <1>3, Zenon DEF Travels

(* The same of udp, which fills in its length. *)
LEMMA UdpLayer ==
  ASSUME NEW h, UdpHeader(h), NEW d \in Payload
  PROVE  Travels("udp", h, d)
<1>0. d \in Seq(Byte) /\ Len(d) <= MaxData
  BY SMT DEF Payload
<1>1. send("udp", h, d) = udp_send(h, d) /\ \A b : extract("udp", b) = extract_udp(b)
  BY Zenon DEF send, extract
<1>2. 8 + Len(d) \in Word
  <2>1. Len(d) \in Nat
    BY <1>0, SMT
  <2>2. Fits(8 + Len(d))
    BY <1>0, <2>1, SMT DEF Fits, MaxData
  <2> QED BY <2>2, WordIs
<1>3. udp_send(h, d) \in Seq(Byte)
  <2>1. <<>> \in Seq(Byte)
    OBVIOUS
  <2> QED BY <1>0, <1>2, <2>1, UdpTravels
<1>4. ASSUME NEW z \in Seq(Byte)
      PROVE  LET b == udp_send(h, d) \o z
             IN  Kept("udp", h, d, extract_udp(b)[1]) /\ drop(b, extract_udp(b)[2]) = d \o z
  <2> DEFINE b == udp_send(h, d) \o z
             g == [src_port |-> h.src_port, dest_port |-> h.dest_port, len |-> 8 + Len(d), checksum |-> 0]
  <2>1. extract_udp(b) = <<g, 8>> /\ drop(b, 8) = d \o z
    BY <1>0, <1>2, UdpTravels
  <2> HIDE DEF b
  <2>3. Kept("udp", h, d, g)
    <3>1. h = [src_port |-> h.src_port, dest_port |-> h.dest_port, len |-> h.len, checksum |-> h.checksum]
      BY DEF UdpHeader
    <3>2. DOMAIN h \ Filled = {"src_port", "dest_port"}
      BY <3>1, SMT DEF Filled
    <3>3. g["src_port"] = h["src_port"] /\ g["dest_port"] = h["dest_port"] /\ g.len = 8 + Len(d)
      BY SMT
    <3> HIDE DEF g
    <3> QED BY <3>2, <3>3, Zenon DEF Kept
  <2> HIDE DEF g
  <2>2. extract_udp(b)[1] = g /\ extract_udp(b)[2] = 8
    BY <2>1, SMT
  <2> QED BY <2>1, <2>2, <2>3, Zenon DEF b
<1> QED BY <1>1, <1>3, <1>4, Zenon DEF Travels

(* The same of arp, whose header is all there is. *)
LEMMA ArpLayer ==
  ASSUME NEW h, ArpHeader(h), NEW d
  PROVE  Travels("arp", h, d)
<1>1. send("arp", h, d) = arp_send(h) /\ \A b : extract("arp", b) = extract_arp(b)
  BY Zenon DEF send, extract
<1>2. arp_send(h) \in Seq(Byte) /\ \A z \in Seq(Byte) : extract_arp(arp_send(h) \o z)[1] = h
  <2>1. <<>> \in Seq(Byte)
    OBVIOUS
  <2> QED BY <2>1, ArpTravels
<1> QED BY <1>1, <1>2, Zenon DEF Travels, Kept

(* The same of icmp, whose checksum is over the data too. *)
LEMMA IcmpLayer ==
  ASSUME NEW h, IcmpHeader(h), NEW d \in Payload
  PROVE  Travels("icmp", h, d)
<1>0. d \in Seq(Byte)
  BY SMT DEF Payload
<1>1. send("icmp", h, d) = icmp_send(h, d) /\ \A b : extract("icmp", b) = extract_icmp(b)
  BY Zenon DEF send, extract
<1>2. PICK c \in Word : icmp_send(h, d) = write_icmp(IcmpWith(h, c)) \o d
  BY IcmpSends, Zenon
<1> DEFINE k == IcmpWith(h, c)
<1>3. IcmpHeader(k) /\ k.checksum \in Word
  <2>1. k.checksum = c
    BY SMT DEF IcmpWith
  <2>2. IcmpHeader(k)
    BY IcmpFields, Zenon
  <2> QED BY <1>2, <2>1, <2>2, Zenon
<1>4. \A f \in DOMAIN h \ Filled : k[f] = h[f]
  <2>1. h = [type |-> h.type, code |-> h.code, checksum |-> h.checksum, sequence |-> h.sequence, id |-> h.id]
    BY DEF IcmpHeader
  <2>2. DOMAIN h \ Filled = {"type", "code", "sequence", "id"}
    BY <2>1, SMT DEF Filled
  <2>3. k["type"] = h["type"] /\ k["code"] = h["code"] /\ k["sequence"] = h["sequence"] /\ k["id"] = h["id"]
    BY SMT DEF IcmpWith
  <2> HIDE DEF k
  <2> QED BY <2>2, <2>3, Zenon
<1> HIDE DEF k
<1>5. write_icmp(k) \o d \in Seq(Byte)
  <2>1. <<>> \in Seq(Byte)
    OBVIOUS
  <2> QED BY <1>0, <1>3, <2>1, IcmpTravels
<1>6. ASSUME NEW z \in Seq(Byte)
      PROVE  LET b == (write_icmp(k) \o d) \o z
             IN  Kept("icmp", h, d, extract_icmp(b)[1]) /\ drop(b, 8) = d \o z
  <2> DEFINE b == (write_icmp(k) \o d) \o z
  <2>1. extract_icmp(b) = <<k, 8>> /\ drop(b, 8) = d \o z
    BY <1>0, <1>3, IcmpTravels
  <2> HIDE DEF b
  <2>2. extract_icmp(b)[1] = k
    BY <2>1, SMT
  <2> QED BY <1>4, <2>1, <2>2, Zenon DEF Kept, b
<1> QED BY <1>1, <1>2, <1>5, <1>6, Zenon DEF Travels, k

(* The same of ip4, which fills in its length and its checksum. *)
LEMMA Ip4Layer ==
  ASSUME NEW h, Ip4Header(h), h.total_len \in Nat, NEW d \in Seq(Byte)
  PROVE  Travels("ip4", h, d)
<1>1. send("ip4", h, d) = ip4_send(h, d) /\ \A b : extract("ip4", b) = extract_ip4(b)
  BY Zenon DEF send, extract
<1>2. PICK c \in Word : ip4_send(h, d) = write_ip4(Ip4With(h, h.total_len, c)) \o d
  BY Ip4Sends, Zenon
<1> DEFINE k == Ip4With(h, h.total_len, c)
<1>3. Ip4Header(k) /\ k.checksum \in Word /\ k.total_len \in Nat
  <2>1. k.checksum = c /\ k.total_len = h.total_len
    BY SMT DEF Ip4With
  <2>2. Ip4Header(k)
    BY Ip4Fields, Zenon
  <2> QED BY <1>2, <2>1, <2>2, Zenon
<1>4. ASSUME NEW n PROVE Kept("ip4", h, d, Ip4Read(k, n))
  <2> DEFINE g == Ip4Read(k, n)
  <2>1. h = [version |-> h.version, header_len |-> h.header_len, tos |-> h.tos, total_len |-> h.total_len,
             id |-> h.id, flags |-> h.flags, frag_off |-> h.frag_off, ttl |-> h.ttl, prot |-> h.prot,
             checksum |-> h.checksum, src_addr |-> h.src_addr, dest_addr |-> h.dest_addr]
    BY SMT DEF Ip4Header
  <2>2. DOMAIN h = {"version", "header_len", "tos", "total_len", "id", "flags", "frag_off", "ttl", "prot",
                    "checksum", "src_addr", "dest_addr"}
    BY <2>1, SMT
  <2>3. g["version"] = h["version"] /\ g["header_len"] = h["header_len"] /\ g["tos"] = h["tos"]
        /\ g["id"] = h["id"] /\ g["frag_off"] = h["frag_off"] /\ g["ttl"] = h["ttl"] /\ g["prot"] = h["prot"]
        /\ g["src_addr"] = h["src_addr"] /\ g["dest_addr"] = h["dest_addr"] /\ g.flags = 0
    BY SMT DEF Ip4With, Ip4Read
  <2> HIDE DEF g
  <2>4. \A f \in DOMAIN h \ Filled : g[f] = h[f]
    BY <2>2, <2>3, Zenon DEF Filled
  <2>5. "ip4" # "udp" /\ g.flags = 0
    BY <2>3
  <2> QED BY <2>4, <2>5, Zenon DEF Kept, g
<1> HIDE DEF k
<1>5. write_ip4(k) \in Seq(Byte) /\ Len(write_ip4(k)) = 20
  <2>1. <<>> \in Seq(Byte)
    OBVIOUS
  <2> QED BY <1>3, <2>1, Ip4Travels, Zenon
<1>6. write_ip4(k) \o d \in Seq(Byte)
  BY <1>5, Joined
<1>7. ASSUME NEW z \in Seq(Byte)
      PROVE  LET b == (write_ip4(k) \o d) \o z
             IN  Kept("ip4", h, d, extract_ip4(b)[1]) /\ drop(b, extract_ip4(b)[2]) = d \o z
  <2> DEFINE b == (write_ip4(k) \o d) \o z
  <2>1. PICK n : extract_ip4(b) = <<Ip4Read(k, n), 20>>
    BY <1>3, Ip4Travels, Zenon
  <2>2. drop(b, Len(write_ip4(k))) = d \o z
    BY <1>5, Behind
  <2> HIDE DEF b
  <2>3. extract_ip4(b)[1] = Ip4Read(k, n) /\ extract_ip4(b)[2] = 20
    BY <2>1, SMT
  <2> QED BY <1>4, <1>5, <2>2, <2>3, Zenon DEF b
<1> QED BY <1>1, <1>2, <1>6, <1>7, Zenon DEF Travels, k

(* Each protocol reads the header it wrote, and hands on the data that it  *)
(* was given, whatever padding follows.                                    *)
LEMMA LayerTravels ==
  ASSUME NEW p, NEW h, HeaderOf(p, h), p = "ip4" => h.total_len \in Nat,
         NEW d \in Seq(Byte), p \in {"udp", "icmp"} => d \in Payload
  PROVE  Travels(p, h, d)
<1>1. CASE p = "ether2"
  <2>1. Ether2Header(h)
    BY <1>1 DEF HeaderOf
  <2> QED BY <1>1, <2>1, Ether2Layer, Zenon
<1>2. CASE p = "arp"
  <2>1. ArpHeader(h)
    BY <1>2 DEF HeaderOf
  <2> QED BY <1>2, <2>1, ArpLayer, Zenon
<1>3. CASE p = "ip4"
  <2>1. Ip4Header(h)
    BY <1>3 DEF HeaderOf
  <2> QED BY <1>3, <2>1, Ip4Layer, Zenon
<1>4. CASE p = "icmp"
  <2>1. IcmpHeader(h)
    BY <1>4 DEF HeaderOf
  <2> QED BY <1>4, <2>1, IcmpLayer, Zenon
<1>5. CASE p = "udp"
  <2>1. UdpHeader(h)
    BY <1>5 DEF HeaderOf
  <2> QED BY <1>5, <2>1, UdpLayer, Zenon
<1>0. <<>> \in Seq(Byte)
  OBVIOUS
<1>6. CASE p = "emp"
  <2>1. EmpHeader(h)
    BY <1>6 DEF HeaderOf
  <2>2. send("emp", h, d) = write_emp(h) \o d /\ \A b : extract("emp", b) = extract_emp(b)
    BY Zenon DEF send, extract, emp_send
  <2>3. write_emp(h) \in Seq(Byte)
        /\ \A z \in Seq(Byte) : extract_emp((write_emp(h) \o d) \o z) = <<h, Len(write_emp(h))>>
    BY <1>0, <2>1, EmpTravels, Zenon
  <2> QED BY <1>6, <2>2, <2>3, ReadBack, Zenon
<1>7. CASE p = "nsp"
  <2>1. NspHeader(h)
    BY <1>7 DEF HeaderOf
  <2>2. send("nsp", h, d) = write_nsp(h) \o d /\ \A b : extract("nsp", b) = extract_nsp(b)
    BY Zenon DEF send, extract, nsp_send
  <2>3. write_nsp(h) \in Seq(Byte)
        /\ \A z \in Seq(Byte) : extract_nsp((write_nsp(h) \o d) \o z) = <<h, Len(write_nsp(h))>>
    BY <1>0, <2>1, NspTravels, Zenon
  <2> QED BY <1>7, <2>2, <2>3, ReadBack, Zenon
<1>8. CASE p = "eap"
  <2>1. EapHeader(h)
    BY <1>8 DEF HeaderOf
  <2>2. send("eap", h, d) = write_eap(h) \o d /\ \A b : extract("eap", b) = extract_eap(b)
    BY Zenon DEF send, extract, eap_send
  <2>3. write_eap(h) \in Seq(Byte)
        /\ \A z \in Seq(Byte) : extract_eap((write_eap(h) \o d) \o z) = <<h, Len(write_eap(h))>>
    BY <1>0, <2>1, EapTravels, Zenon
  <2> QED BY <1>8, <2>2, <2>3, ReadBack, Zenon
<1>9. CASE p = "ptp"
  <2>1. PtpHeader(h)
    BY <1>9 DEF HeaderOf
  <2>2. send("ptp", h, d) = write_ptp(h) \o d /\ \A b : extract("ptp", b) = extract_ptp(b)
    BY Zenon DEF send, extract, ptp_send
  <2>3. write_ptp(h) \in Seq(Byte)
        /\ \A z \in Seq(Byte) : extract_ptp((write_ptp(h) \o d) \o z) = <<h, Len(write_ptp(h))>>
    BY <1>0, <2>1, PtpTravels, Zenon
  <2> QED BY <1>9, <2>2, <2>3, ReadBack, Zenon
<1>10. p \in {"ether2", "arp", "ip4", "icmp", "udp", "emp", "nsp", "eap", "ptp"}
  BY DEF HeaderOf
<1> QED BY <1>1, <1>2, <1>3, <1>4, <1>5, <1>6, <1>7, <1>8, <1>9, <1>10

-----------------------------------------------------------------------------
(* The stack: what the upper protocols have made of the data *)

\* The next hop of the packet d.
Hop(d) == create_send_access_from_routing_table(stack[2].p, d)

\* The header that protocol i of the stack sends before d.
Hdr(i, d) ==
  IF stack[i].p = "ip4" THEN ip4_header(stack[i].h, d)
  ELSE IF i = 1 /\ Routed THEN [stack[1].h EXCEPT !.dest_addr = Hop(d)]
  ELSE stack[i].h

\* Protocol i has made b of d.
Sent(i, d, b) ==
  /\ d \in Seq(Byte) /\ b = send(stack[i].p, Hdr(i, d), d)
  /\ Travels(stack[i].p, Hdr(i, d), d)
  /\ (i = 1 /\ Routed) => Hop(d) # NoHop

\* W[j]: what the upper j protocols have made of the data.
Chain(W, n) ==
  /\ W[0] = data
  /\ \A j \in 1 .. n : Sent(Len(stack) + 1 - j, W[j - 1], W[j])

(* The lengths of a table's masks. *)
LEMMA MaskLens ==
  ASSUME NEW t, IsTable(t)
  PROVE  Len(t.rules) \in Nat /\ \A i \in 1 .. Len(t.rules) : mask_len(t.rules[i].mask) \in Nat
<1> DEFINE rules == t.rules
<1>1. Len(rules) \in Nat
  <2>1. rules \in Seq({rules[i] : i \in 1 .. Len(rules)})
    BY DEF IsTable, IsSeq
  <2> QED BY <2>1
<1>2. ASSUME NEW i \in 1 .. Len(rules) PROVE mask_len(rules[i].mask) \in Nat
  <2> DEFINE m == rules[i].mask
  <2>1. IF OfPtp(m) THEN m.prefix \in Seq(Byte) ELSE m.bits \in 0 .. 32
    BY DEF IsTable
  <2> HIDE DEF m, rules
  <2>2. CASE OfPtp(m)
    <3>1. m.prefix \in Seq(Byte)
      BY <2>1, <2>2
    <3>2. Len(m.prefix) \in Nat
      BY <3>1
    <3> QED BY <2>2, <3>2 DEF mask_len, OfPtp, m
  <2>3. CASE ~OfPtp(m)
    <3>1. m.bits \in 0 .. 32 /\ \A u \in 0 .. 32 : u \in Nat
      BY <2>1, <2>3
    <3>2. m.bits \in Nat
      BY <3>1, Zenon
    <3> QED BY <2>3, <3>2 DEF mask_len, OfPtp, m
  <2> QED BY <2>2, <2>3
<1> QED BY <1>1, <1>2

(* A route is the mac address of a next hop, or there is none. *)
LEMMA RouteKnown ==
  ASSUME NEW t, IsTable(t), NEW fits
  PROVE  find_route(t, fits) \in Octets(6) \cup {NoHop}
<1> DEFINE rules == t.rules
           r == impl_find_route(rules, fits)
<1>1. Len(rules) \in Nat /\ \A i \in 1 .. Len(rules) : mask_len(rules[i].mask) \in Nat
  BY MaskLens
<1>2. \A i \in 1 .. Len(rules) : rules[i].route \in Octets(6)
  BY DEF IsTable
<1>3. Closest(rules, fits, Len(rules), r)
  BY <1>1, FindsClosest
<1>4. r \in 0 .. Len(rules)
  BY <1>1, <1>3 DEF Closest
<1>5. find_route(t, fits) = IF r # 0 THEN rules[r].route ELSE t.default_gateway
  BY Zenon DEF find_route
<1>6. t.default_gateway \in Octets(6) \cup {NoHop}
  BY DEF IsTable
<1> HIDE DEF r, rules
<1>7. CASE r # 0
  <2>1. r \in 1 .. Len(rules)
    BY <1>1, <1>4, <1>7
  <2> QED BY <1>2, <1>5, <1>7, <2>1
<1> QED BY <1>5, <1>6, <1>7

(* A next hop is a mac address, or there is none. *)
LEMMA HopKnown ==
  ASSUME IsTable(table), NEW d
  PROVE  Hop(d) \in Octets(6) \cup {NoHop}
<1> DEFINE rules == 1 .. Len(table.rules)
           ptp == extract_ptp(d)[1]
           action == ptp.actions[ptp.curr_action + 1]
           ip == extract_ip4(d)[1].dest_addr
           a == find_route(table, {r \in rules : is_inside_subnet(table.rules[r].mask, ip)})
           b == find_route(table, {r \in rules : is_inside_ptp_subnet(table.rules[r].mask, action.dest)})
<1>1. a \in Octets(6) \cup {NoHop} /\ b \in Octets(6) \cup {NoHop}
  BY RouteKnown
<1>2. Hop(d) = IF stack[2].p = "ip4" THEN a ELSE IF action.type # 1 THEN NoHop ELSE b
  BY Zenon DEF Hop, create_send_access_from_routing_table
<1> HIDE DEF a, b, action
<1>3. Hop(d) = a \/ Hop(d) = b \/ Hop(d) = NoHop
  BY <1>2
<1> QED BY <1>1, <1>3

(* The header a protocol sends is one of its own, so it is read. *)
LEMMA HeaderSent ==
  ASSUME IsStack(stack), IsTable(table), data \in Payload,
         NEW i \in 1 .. Len(stack), NEW d \in Seq(Byte), i = Len(stack) => d = data,
         (i = 1 /\ Routed) => Hop(d) # NoHop
  PROVE  Sent(i, d, send(stack[i].p, Hdr(i, d), d))
<1> DEFINE p == stack[i].p
           h == stack[i].h
           g == Hdr(i, d)
<1>1. HeaderOf(p, h) /\ (p \in {"udp", "icmp"} => i = Len(stack))
  BY DEF IsStack
<1>2. HeaderOf(p, g) /\ (p = "ip4" => g.total_len \in Nat)
  <2>1. CASE p = "ip4"
    <3>1. g = [h EXCEPT !.total_len = 20 + Len(d)]
      BY <2>1, Zenon DEF Hdr, ip4_header
    <3>2. Ip4Header(h)
      BY <1>1, <2>1 DEF HeaderOf
    <3> HIDE DEF g, h
    <3>3. Ip4Header(g) /\ g.total_len = 20 + Len(d)
      BY <3>1, <3>2, Ip4Fields, Zenon
    <3>4. 20 + Len(d) \in Nat
      BY SMT
    <3>5. HeaderOf(p, g)
      BY <2>1, <3>3, Zenon DEF HeaderOf
    <3> QED BY <3>3, <3>4, <3>5, Zenon
  <2>2. CASE p # "ip4" /\ i = 1 /\ Routed
    <3>1. p = "ether2"
      BY <2>2 DEF Routed
    <3>2. g = [h EXCEPT !.dest_addr = Hop(d)]
      BY <2>2, Zenon DEF Hdr
    <3>3. Hop(d) \in Octets(6)
      BY <2>2, HopKnown
    <3>4. Ether2Header(h)
      BY <1>1, <3>1 DEF HeaderOf
    <3>5. PICK x : x = Hop(d)
      OBVIOUS
    <3> HIDE DEF g, h
    <3>6. Ether2Header(g)
      <4>1. h = [dest_addr |-> h.dest_addr, src_addr |-> h.src_addr, prot |-> h.prot]
            /\ h.src_addr \in Octets(6) /\ h.prot \in Word
        BY <3>4, Zenon DEF Ether2Header
      <4>2. g = [dest_addr |-> x, src_addr |-> h.src_addr, prot |-> h.prot]
        BY <3>2, <3>5, <4>1, SMT
      <4>3. g.dest_addr = x /\ g.src_addr = h.src_addr /\ g.prot = h.prot
        BY <4>2, SMT
      <4> QED BY <3>3, <3>5, <4>1, <4>2, <4>3, Zenon DEF Ether2Header
    <3> QED BY <3>1, <3>6, Zenon DEF HeaderOf
  <2>3. CASE p # "ip4" /\ ~(i = 1 /\ Routed)
    <3>1. g = h
      BY <2>3, Zenon DEF Hdr
    <3> QED BY <1>1, <2>3, <3>1, Zenon
  <2> QED BY <2>1, <2>2, <2>3, Zenon
<1> HIDE DEF p, h, g
<1>3. p \in {"udp", "icmp"} => d \in Payload
  BY <1>1, Zenon
<1>4. Travels(p, g, d)
  BY <1>2, <1>3, LayerTravels, Zenon
<1> QED BY <1>4, Zenon DEF Sent, p, g

(* One more protocol has sent. *)
LEMMA ChainGrows ==
  ASSUME NEW n \in Nat, NEW W, Chain(W, n), NEW b, Sent(Len(stack) - n, W[n], b), Len(stack) \in Nat
  PROVE  \E V : Chain(V, n + 1) /\ V[n] = W[n] /\ V[n + 1] = b
<1> DEFINE V == [k \in 0 .. n + 1 |-> IF k <= n THEN W[k] ELSE b]
<1>1. \A k \in 0 .. n : V[k] = W[k]
  OBVIOUS
<1>2. V[n + 1] = b /\ V[n] = W[n] /\ V[0] = W[0]
  OBVIOUS
<1> HIDE DEF V
<1>3. ASSUME NEW j \in 1 .. n + 1 PROVE Sent(Len(stack) + 1 - j, V[j - 1], V[j])
  <2>1. CASE j \in 1 .. n
    <3>1. V[j - 1] = W[j - 1] /\ V[j] = W[j]
      BY <1>1, <2>1
    <3> QED BY <2>1, <3>1, Zenon DEF Chain
  <2>2. CASE j = n + 1
    <3>1. Len(stack) + 1 - j = Len(stack) - n /\ j - 1 = n
      BY <2>2
    <3> QED BY <1>2, <2>2, <3>1, Zenon
  <2> QED BY <2>1, <2>2
<1>4. Chain(V, n + 1)
  BY <1>2, <1>3, Zenon DEF Chain
<1> QED BY <1>2, <1>4, Zenon

(* What the protocols made of the data depends on the stack, the table and the data alone. *)
LEMMA ChainKept ==
  ASSUME stack' = stack, table' = table, data' = data
  PROVE  /\ Routed' <=> Routed
         /\ \A d : Hop(d)' = Hop(d)
         /\ \A i, d : Hdr(i, d)' = Hdr(i, d)
         /\ \A W, n : Chain(W, n)' <=> Chain(W, n)
<1>1. Routed' <=> Routed
  BY Zenon DEF Routed
<1>2. \A d : Hop(d)' = Hop(d)
  BY Zenon DEF Hop, create_send_access_from_routing_table
<1>3. \A i, d : Hdr(i, d)' = Hdr(i, d)
  BY <1>1, <1>2, Zenon DEF Hdr
<1>4. \A i, d, b : Sent(i, d, b)' <=> Sent(i, d, b)
  BY <1>1, <1>2, <1>3, Zenon DEF Sent
<1>5. \A W, n : Chain(W, n)' <=> Chain(W, n)
  BY <1>4, Zenon DEF Chain
<1> QED BY <1>1, <1>2, <1>3, <1>5, Zenon

\* Nothing but zeros.
Zeros(s) == s \in Seq(Byte) /\ \A i \in 1 .. Len(s) : s[i] = 0

\* The lower protocols have read their headers, the others have not.
Taken(W) ==
  /\ Chain(W, Len(stack)) /\ Zeros(pad) /\ IsSeq(got)
  /\ layers \in 0 .. Len(stack) /\ Len(got) = Len(stack) - layers
  /\ \A i \in 1 .. Len(got) : Kept(stack[i].p, Hdr(i, W[Len(stack) - i]), W[Len(stack) - i], got[i])
  /\ layers > 0 => wire = W[layers] \o pad
  /\ layers = 0 => LET top == stack[Len(stack)].p
                   IN  top # "arp" => (IF top = "icmp" THEN drop(wire, 8) ELSE wire) = data \o pad

\* What holds while data that fit a datagram travel.
Travelling ==
  /\ pc = "send" => layers \in 0 .. Len(stack) /\ \E W : Chain(W, layers) /\ wire = W[layers]
  /\ pc = "recv" => layers > 0 /\ \E W : Taken(W)
  /\ (kind = "frame" /\ pc = "done") => layers = 0 /\ \E W : Taken(W)
  /\ (kind = "frame" /\ pc = "dropped") =>
       Routed /\ \E W : Chain(W, Len(stack) - 1) /\ Hop(W[Len(stack) - 1]) = NoHop

TripInv ==
  /\ kind = "frame" => pc \in {"send", "recv", "done", "dropped", "overrun", "cut"} /\ data \in Payload /\ TableOf(stack, table)
  /\ (kind = "frame" \/ pc \in {"send", "recv"}) => IsStack(stack) /\ IsTable(table)
  /\ data \in Payload => Travelling

(* The number of protocols of a stack. *)
LEMMA StackLen ==
  ASSUME IsStack(stack)
  PROVE  Len(stack) \in Nat /\ Len(stack) > 0
<1>1. stack \in Seq({stack[i] : i \in 1 .. Len(stack)}) /\ stack # <<>>
  BY DEF IsStack, IsSeq
<1> QED BY <1>1

(* One element more at the end. *)
LEMMA Appended ==
  ASSUME NEW s, IsSeq(s), NEW e
  PROVE  /\ Len(s) \in Nat /\ Len(Append(s, e)) = Len(s) + 1 /\ IsSeq(Append(s, e))
         /\ \A i \in 1 .. Len(s) : Append(s, e)[i] = s[i]
         /\ Append(s, e)[Len(s) + 1] = e
<1> DEFINE S == {s[i] : i \in 1 .. Len(s)} \cup {e}
           t == Append(s, e)
<1>1. s \in Seq(S)
  BY SMT DEF IsSeq
<1> HIDE DEF S
<1>2. e \in S
  BY DEF S
<1>3. /\ Len(s) \in Nat /\ Len(t) = Len(s) + 1 /\ t \in Seq(S)
      /\ \A i \in 1 .. Len(s) : t[i] = s[i]
      /\ t[Len(s) + 1] = e
  BY <1>1, <1>2, SMT
<1> HIDE DEF t
<1>4. t \in Seq({t[i] : i \in 1 .. Len(t)})
  BY <1>3, SMT
<1> QED BY <1>3, <1>4 DEF t, IsSeq

(* One protocol's send. *)
LEMMA SendKeeps ==
  ASSUME TripInv, send_layer
  PROVE  TripInv'
<1> DEFINE L == Len(stack)
<1>1. /\ pc = "send" /\ layers < L /\ kind' = kind /\ stack' = stack /\ table' = table /\ data' = data
      /\ IsStack(stack) /\ IsTable(table)
  BY DEF send_layer, TripInv
<1>2. L \in Nat /\ L > 0
  BY <1>1, StackLen
<1>3. IsStack(stack)' /\ IsTable(table)'
  BY <1>1 DEF IsStack, IsTable
<1>4. pc' \in {"send", "dropped"}
  BY <1>1 DEF send_layer
<1>5. ASSUME data \in Payload PROVE Travelling'
  <2>1. PICK W : layers \in 0 .. L /\ Chain(W, layers) /\ wire = W[layers]
    BY <1>1, <1>5 DEF TripInv, Travelling
  <2> DEFINE i == L - layers
  <2>2. i \in 1 .. L /\ layers \in Nat
    BY <1>1, <1>2, <2>1
  <2>3. wire \in Seq(Byte)
    <3>1. CASE layers = 0
      BY <1>5, <2>1, <3>1 DEF Chain, Payload
    <3>2. CASE layers # 0
      <4>1. layers \in 1 .. layers
        BY <2>2, <3>2
      <4>2. Sent(L + 1 - layers, W[layers - 1], W[layers])
        BY <2>1, <4>1, Zenon DEF Chain
      <4>3. wire \in Seq(Byte)
        BY <2>1, <4>2, Zenon DEF Sent, Travels
      <4> QED BY <4>3
    <3> QED BY <3>1, <3>2
  <2>4. i = L => wire = data
    <3>1. i = L => layers = 0
      BY <1>2, <2>2
    <3> QED BY <2>1, <3>1, Zenon DEF Chain
  <2> DEFINE l == stack[i]
             above == stack[i + 1].p
             routed == l.p = "ether2" /\ above \in {"ip4", "ptp"}
             hop == create_send_access_from_routing_table(above, wire)
             h == CASE l.p = "ip4" -> ip4_header(l.h, wire)
                    [] routed -> [l.h EXCEPT !.dest_addr = hop]
                    [] OTHER -> l.h
  <2>5. /\ IF routed /\ hop = NoHop THEN pc' = "dropped" /\ UNCHANGED <<wire, layers>>
           ELSE pc' = pc /\ wire' = send(l.p, h, wire) /\ layers' = layers + 1
    BY Zenon DEF send_layer
  <2>6. /\ routed <=> i = 1 /\ Routed
        /\ routed => hop = Hop(wire) /\ i = 1
    <3>1. l.p = "ether2" => i = 1 /\ L > 1
      BY <1>1, <2>2 DEF IsStack
    <3>2. i = 1 => i + 1 = 2
      OBVIOUS
    <3> HIDE DEF i
    <3> QED BY <3>1, <3>2, Zenon DEF Routed, Hop
  <2>7. h = Hdr(i, wire)
    <3>1. CASE l.p = "ip4"
      <4>1. l.p # "ether2"
        BY <3>1
      <4>2. h = ip4_header(l.h, wire)
        BY <3>1, <4>1
      <4> QED BY <3>1, <4>2, Zenon DEF Hdr
    <3>2. CASE l.p # "ip4" /\ routed
      <4>1. h = [l.h EXCEPT !.dest_addr = hop]
        BY <3>2
      <4> QED BY <2>6, <3>2, <4>1, Zenon DEF Hdr
    <3>3. CASE l.p # "ip4" /\ ~routed
      <4>1. h = l.h
        BY <3>3
      <4> QED BY <2>6, <3>3, <4>1, Zenon DEF Hdr
    <3> QED BY <3>1, <3>2, <3>3
  <2> HIDE DEF h, hop, i
  <2>8. CASE routed /\ hop = NoHop
    <3>1. pc' = "dropped" /\ Routed /\ Hop(wire) = NoHop /\ i = 1
      BY <2>5, <2>6, <2>8
    <3>2. layers = L - 1
      BY <1>2, <2>2, <3>1 DEF i
    <3>3. Chain(W, L - 1) /\ Hop(W[L - 1]) = NoHop
      BY <2>1, <3>1, <3>2
    <3>4. Chain(W, L - 1)' /\ Routed' /\ (Hop(W[L - 1]) = NoHop)'
      BY <1>1, <3>1, <3>3, ChainKept, Zenon
    <3> QED BY <1>1, <3>1, <3>4, Zenon DEF Travelling
  <2>9. CASE ~(routed /\ hop = NoHop)
    <3>1. pc' = "send" /\ wire' = send(stack[i].p, Hdr(i, wire), wire) /\ layers' = layers + 1
      BY <1>1, <2>5, <2>7, <2>9, Zenon
    <3>2. (i = 1 /\ Routed) => Hop(wire) # NoHop
      BY <2>6, <2>9
    <3>3. Sent(i, wire, wire')
      BY <1>1, <1>5, <2>2, <2>3, <2>4, <3>1, <3>2, HeaderSent, Zenon
    <3>4. PICK b, n : b = wire' /\ n = layers
      OBVIOUS
    <3>5. PICK V : Chain(V, n + 1) /\ V[n + 1] = b
      <4>1. Chain(W, n) /\ Sent(L - n, W[n], b) /\ n \in Nat
        BY <2>1, <2>2, <3>3, <3>4, Zenon DEF i
      <4> QED BY <1>2, <4>1, ChainGrows
    <3>6. PICK m : m = n + 1
      OBVIOUS
    <3>7. Chain(V, m)' /\ m = layers' /\ V[m] = wire'
      BY <1>1, <3>1, <3>4, <3>5, <3>6, ChainKept, Zenon
    <3>8. layers' \in 0 .. L
      BY <1>1, <1>2, <2>2, <3>1
    <3>9. (\E U : Chain(U, layers) /\ wire = U[layers])'
      BY <3>7, Zenon
    <3> QED BY <1>1, <3>1, <3>8, <3>9, Zenon DEF Travelling
  <2> QED BY <2>8, <2>9
<1> QED BY <1>1, <1>3, <1>4, <1>5, Zenon DEF TripInv

(* On the medium a frame stays as it is, but for the padding. *)
LEMMA MediumKeeps ==
  ASSUME TripInv, NEW padded \in BOOLEAN, NEW attached \in BOOLEAN, my_handler(padded, attached)
  PROVE  TripInv'
<1> DEFINE L == Len(stack)
<1>1. /\ pc = "send" /\ layers = L /\ kind' = kind /\ stack' = stack /\ table' = table /\ data' = data
      /\ IsStack(stack) /\ IsTable(table) /\ layers' = layers /\ got' = <<>> /\ pc' = "recv"
      /\ wire' = wire \o pad'
  BY DEF my_handler, TripInv
<1>2. L \in Nat /\ L > 0
  BY <1>1, StackLen
<1>3. IsStack(stack)' /\ IsTable(table)'
  BY <1>1 DEF IsStack, IsTable
<1>4. ASSUME data \in Payload PROVE Travelling'
  <2>1. PICK W : Chain(W, L) /\ wire = W[L]
    BY <1>1, <1>4 DEF TripInv, Travelling
  <2>2. wire \in Seq(Byte)
    <3>1. L \in 1 .. L
      BY <1>2
    <3>2. Sent(L + 1 - L, W[L - 1], W[L])
      BY <2>1, <3>1, Zenon DEF Chain
    <3> QED BY <2>1, <3>2, Zenon DEF Sent, Travels
  <2>3. Zeros(pad)'
    <3>1. CASE padded
      <4>1. /\ Len(wire) < MinFrame /\ pad' = [i \in 1 .. MinFrame - Len(wire) |-> 0]
        BY <3>1 DEF my_handler
      <4>2. PICK n : n = MinFrame - Len(wire) /\ n \in Nat
        BY <2>2, <4>1, FramesAssumption, SMT
      <4>3. Zeros([i \in 1 .. n |-> 0])
        BY <4>2 DEF Byte, Zeros
      <4>4. PICK z : z = pad'
        OBVIOUS
      <4>5. Zeros(z)
        BY <4>1, <4>2, <4>3, <4>4
      <4> QED BY <4>4, <4>5, Zenon DEF Zeros
    <3>2. CASE ~padded
      BY <3>2 DEF my_handler, Zeros
    <3> QED BY <3>1, <3>2
  <2>4. PICK n : n = L
    OBVIOUS
  <2>5. Chain(W, n)' /\ n = Len(stack)' /\ n = layers'
    BY <1>1, <2>1, <2>4, ChainKept, Zenon
  <2>6. Len(got)' = 0 /\ IsSeq(got)'
    BY <1>1 DEF IsSeq
  <2>7. layers' \in 0 .. n /\ 0 = n - layers' /\ layers' > 0 /\ 1 .. 0 = {}
    BY <1>1, <1>2, <2>4
  <2>8. wire' = W[n] \o pad'
    BY <1>1, <2>1, <2>4
  <2>9. layers' # 0
    BY <2>7
  <2>10. Taken(W)'
    BY <2>3, <2>5, <2>6, <2>7, <2>8, <2>9, Zenon DEF Taken
  <2> QED BY <1>1, <2>7, <2>10, Zenon DEF Travelling
<1> QED BY <1>1, <1>3, <1>4, Zenon DEF TripInv

(* One protocol's handle_recv. *)
LEMMA RecvKeeps ==
  ASSUME TripInv, recv_layer
  PROVE  TripInv'
<1> DEFINE L == Len(stack)
<1>1. /\ pc = "recv" /\ layers > 0 /\ kind' = kind /\ stack' = stack /\ table' = table /\ data' = data
      /\ IsStack(stack) /\ IsTable(table) /\ layers' = layers - 1 /\ pad' = pad
  BY DEF recv_layer, TripInv
<1>2. L \in Nat /\ L > 0
  BY <1>1, StackLen
<1>3. IsStack(stack)' /\ IsTable(table)'
  BY <1>1 DEF IsStack, IsTable
<1>4. /\ pc' \in {"recv", "done", "serve", "read"}
      /\ pc' = "recv" <=> layers > 1
      /\ kind = "frame" => pc' \in {"recv", "done"}
  BY <1>1 DEF recv_layer
<1>5. ASSUME data \in Payload PROVE Travelling'
  <2>1. PICK W : Taken(W)
    BY <1>1, <1>5 DEF TripInv, Travelling
  <2> DEFINE i == Len(got) + 1
             p == stack[i].p
             e == extract(p, wire)
             d == W[L - i]
  <2>2. /\ Chain(W, L) /\ Zeros(pad) /\ IsSeq(got) /\ layers \in 0 .. L /\ Len(got) = L - layers
        /\ wire = W[layers] \o pad
        /\ \A k \in 1 .. Len(got) : Kept(stack[k].p, Hdr(k, W[L - k]), W[L - k], got[k])
    BY <1>1, <2>1, Zenon DEF Taken
  <2>3. /\ layers \in 1 .. L /\ i \in 1 .. L /\ L - i = layers - 1 /\ L + 1 - layers = i /\ Len(got) \in Nat
    BY <1>1, <1>2, <2>2
  <2>4. Sent(i, d, W[layers])
    <3>1. Sent(L + 1 - layers, W[layers - 1], W[layers])
      BY <2>2, <2>3, Zenon DEF Chain
    <3> QED BY <2>3, <3>1, Zenon
  <2>5. got' = Append(got, e[1])
        /\ wire' = IF p = "icmp" THEN wire ELSE IF p = "arp" THEN <<>> ELSE drop(wire, e[2])
    BY DEF recv_layer
  <2> HIDE DEF i, p, d, e
  <2>6. /\ Kept(p, Hdr(i, d), d, e[1])
        /\ p \notin {"arp", "icmp"} => drop(wire, e[2]) = d \o pad
        /\ p = "icmp" => drop(wire, 8) = d \o pad
    <3>1. pad \in Seq(Byte)
      BY <2>2, Zenon DEF Zeros
    <3> QED BY <2>2, <2>4, <3>1, Zenon DEF Sent, Travels, p, e
  <2>7. p \in {"arp", "icmp"} => i = L
    BY <1>1, <2>3 DEF IsStack, p
  <2>8. /\ Len(got') = i /\ IsSeq(got')
        /\ \A k \in 1 .. Len(got) : got'[k] = got[k]
        /\ got'[i] = e[1]
    BY <2>2, <2>5, Appended DEF i
  <2>9. ASSUME NEW k \in 1 .. i
        PROVE  Kept(stack[k].p, Hdr(k, W[L - k]), W[L - k], got'[k])
    <3>1. CASE k = i
      BY <2>6, <2>8, <3>1, Zenon DEF p, d
    <3>2. CASE k # i
      <4>1. k \in 1 .. Len(got)
        BY <2>3, <3>2 DEF i
      <4> QED BY <2>2, <2>8, <4>1, Zenon
    <3> QED BY <3>1, <3>2
  <2>10. layers' > 0 => wire' = W[layers'] \o pad
    <3>1. layers' > 0 => p \notin {"arp", "icmp"} /\ d = W[layers']
      BY <1>1, <2>3, <2>7 DEF d
    <3> QED BY <2>5, <2>6, <3>1
  <2>11. ASSUME layers' = 0
         PROVE  LET top == stack[L].p
                IN  top # "arp" => (IF top = "icmp" THEN drop(wire', 8) ELSE wire') = data \o pad
    <3>1. i = L /\ L - i = 0
      BY <1>1, <1>2, <2>3, <2>11
    <3>2. stack[L].p = p /\ d = data
      BY <2>2, <3>1, Zenon DEF Chain, p, d
    <3>3. CASE p = "icmp"
      BY <2>5, <2>6, <3>2, <3>3
    <3>4. CASE p # "icmp" /\ p # "arp"
      BY <2>5, <2>6, <3>2, <3>4
    <3> QED BY <3>2, <3>3, <3>4, Zenon
  <2>12. PICK n, g, w, k : n = L /\ g = got' /\ w = wire' /\ k = layers'
    OBVIOUS
  <2>13. k \in 0 .. n /\ i = n - k
    BY <1>1, <1>2, <2>3, <2>12
  <2>14. /\ Chain(W, n)' /\ n = Len(stack)' /\ Zeros(pad)' /\ IsSeq(got)' /\ Len(got') = n - k
    BY <1>1, <2>2, <2>8, <2>12, <2>13, ChainKept, Zenon DEF Zeros
  <2>15. \A j \in 1 .. Len(got') : Kept(stack'[j].p, Hdr(j, W[n - j])', W[n - j], got'[j])
    <3> SUFFICES ASSUME NEW j \in 1 .. i PROVE Kept(stack'[j].p, Hdr(j, W[n - j])', W[n - j], got'[j])
      BY <2>8
    <3>1. Kept(stack[j].p, Hdr(j, W[n - j]), W[n - j], got'[j])
      BY <2>9, <2>12, Zenon
    <3>2. PICK u : u = W[n - j]
      OBVIOUS
    <3>3. Hdr(j, u)' = Hdr(j, u)
      BY <1>1, ChainKept, Zenon
    <3> QED BY <1>1, <3>1, <3>2, <3>3, Zenon
  <2>16. k > 0 => w = W[k] \o pad'
    BY <1>1, <2>10, <2>12, Zenon
  <2>17. k = 0 => LET top == stack'[n].p
                  IN  top # "arp" => (IF top = "icmp" THEN drop(w, 8) ELSE w) = data' \o pad'
    BY <1>1, <2>11, <2>12, Zenon
  <2>18. Taken(W)'
    BY <2>12, <2>13, <2>14, <2>15, <2>16, <2>17, Zenon DEF Taken
  <2>19. layers > 1 <=> layers' > 0
    BY <1>1, <2>3
  <2>20. ~(layers > 1) => layers' = 0
    BY <1>1, <2>3
  <2> QED BY <1>4, <2>18, <2>19, <2>20, Zenon DEF Travelling
<1> QED BY <1>1, <1>3, <1>4, <1>5, Zenon DEF TripInv

-----------------------------------------------------------------------------
(* The journey of the headers and the data *)

(* Steps in which nothing travels. *)
LEMMA OthersKeep ==
  ASSUME kind # "frame", kind' = kind, pc' \notin {"send", "recv"}
  PROVE  TripInv'
BY Zenon DEF TripInv, Travelling

(* A message is handed to the stack. *)
LEMMA HandKeeps ==
  ASSUME kind # "frame", kind' = kind, NEW m, data' = m, wire' = m, layers' = 0, stack' = DnsStack,
         table' = [rules |-> <<>>, default_gateway |-> DnsStack[1].h.dest_addr], pc' = "send"
  PROVE  TripInv'
<1>1. IsStack(DnsStack) /\ DnsStack[1].p = "ether2"
  BY FramesAssumption
<1>2. IsStack(stack)'
  BY <1>1 DEF IsStack
<1>3. DnsStack[1].h.dest_addr \in Octets(6) /\ Len(DnsStack) \in Nat
  <2>1. DnsStack \in Seq({DnsStack[i] : i \in 1 .. Len(DnsStack)}) /\ DnsStack # <<>>
    BY <1>1 DEF IsStack, IsSeq
  <2>2. Len(DnsStack) \in Nat /\ 1 \in 1 .. Len(DnsStack)
    BY <2>1
  <2>3. HeaderOf("ether2", DnsStack[1].h)
    BY <1>1, <2>2, Zenon DEF IsStack
  <2> QED BY <2>2, <2>3, Zenon DEF HeaderOf, Ether2Header
<1>4. IsTable(table)'
  <2> DEFINE t == [rules |-> <<>>, default_gateway |-> DnsStack[1].h.dest_addr]
  <2>1. t.rules = <<>> /\ t.default_gateway \in Octets(6) /\ Len(<<>>) = 0 /\ 1 .. 0 = {}
    BY <1>3
  <2>2. IsSeq(<<>>)
    BY DEF IsSeq
  <2> HIDE DEF t
  <2>3. IsTable(t)
    BY <2>1, <2>2, Zenon DEF IsTable
  <2> QED BY <2>3, Zenon DEF t
<1>5. Travelling'
  <2> DEFINE W == [k \in {0} |-> m]
  <2>1. W[0] = m /\ 1 .. 0 = {} /\ 0 \in 0 .. Len(DnsStack)
    BY <1>3
  <2> HIDE DEF W
  <2>2. Chain(W, 0)'
    BY <2>1, Zenon DEF Chain
  <2>3. (\E U : Chain(U, layers) /\ wire = U[layers])'
    BY <2>1, <2>2, Zenon
  <2> QED BY <2>1, <2>3, Zenon DEF Travelling
<1> QED BY <1>2, <1>4, <1>5, Zenon DEF TripInv

(* Nothing changes. *)
LEMMA StutterKeeps ==
  ASSUME TripInv, UNCHANGED vars
  PROVE  TripInv'
<1>1. /\ kind' = kind /\ pc' = pc /\ stack' = stack /\ table' = table /\ layers' = layers /\ wire' = wire
      /\ data' = data /\ pad' = pad /\ got' = got
  BY DEF vars, travel
<1>2. /\ Routed' <=> Routed
      /\ \A d : Hop(d)' = Hop(d)
      /\ \A i, d : Hdr(i, d)' = Hdr(i, d)
      /\ \A W, n : Chain(W, n)' <=> Chain(W, n)
  BY <1>1, ChainKept, Zenon
<1>3. IsStack(stack)' <=> IsStack(stack)
  BY <1>1 DEF IsStack
<1>4. IsTable(table)' <=> IsTable(table)
  BY <1>1 DEF IsTable
<1>5. ASSUME NEW W PROVE Taken(W)' <=> Taken(W)
  <2>1. IsSeq(got)' <=> IsSeq(got)
    BY <1>1, Zenon DEF IsSeq
  <2> QED BY <1>1, <1>2, <2>1, Zenon DEF Taken
<1>6. Travelling' <=> Travelling
  BY <1>1, <1>2, <1>5, Zenon DEF Travelling
<1> QED BY <1>1, <1>3, <1>4, <1>6, Zenon DEF TripInv

(* A message does not fit: nothing is said of what follows. *)
LEMMA BeyondKeeps ==
  ASSUME TripInv, Beyond
  PROVE  TripInv'
<1>1. /\ pc \in {"send", "serve"} /\ pc' \in {"overrun", "cut"} /\ kind' = kind
      /\ pc = "send" \/ pc' = "overrun"
  BY DEF Beyond, send_overruns, recv_truncates, serve_overruns
<1>2. stack' = stack /\ table' = table /\ data' = data
  BY DEF Beyond, send_overruns, recv_truncates, serve_overruns, travel
<1>3. Travelling'
  BY <1>1 DEF Travelling
<1>4. /\ IsStack(stack)' <=> IsStack(stack)
      /\ IsTable(table)' <=> IsTable(table)
      /\ TableOf(stack, table)' <=> TableOf(stack, table)
  BY <1>2 DEF IsStack, IsTable, TableOf
<1> QED BY <1>1, <1>2, <1>3, <1>4, Zenon DEF TripInv

(* Data travel as TripInv says, whatever happens. *)
LEMMA TripKept ==
  ASSUME TripInv, [Next]_vars
  PROVE  TripInv'
<1>0. kind' = kind
  BY KindKept
<1>1. pc \notin {"send", "recv", "done", "dropped", "overrun", "cut"} => kind # "frame"
  BY DEF TripInv
<1>2. CASE UNCHANGED vars
  BY <1>2, StutterKeeps
<1>3. CASE send_layer
  BY <1>3, SendKeeps
<1>4. CASE recv_layer
  BY <1>4, RecvKeeps
<1>5. CASE \E padded, attached \in BOOLEAN : my_handler(padded, attached)
  BY <1>5, MediumKeeps
<1>6. CASE load_record
  BY <1>0, <1>1, <1>6, OthersKeep DEF load_record
<1>7. CASE \E ad, cd \in {0, 1} : send_request(ad, cd) \/ \E junk \in SoaJunk : serve(ad, cd, junk)
  <2>1. PICK m : Hand(m) /\ pc \in {"load", "serve"}
    BY <1>7, Zenon DEF send_request, serve
  <2> QED BY <1>0, <1>1, <2>1, HandKeeps DEF Hand
<1>8. CASE serve_other
  <2>1. PICK m : Hand(m) /\ pc = "serve"
    BY <1>8, Zenon DEF serve_other
  <2> QED BY <1>0, <1>1, <2>1, HandKeeps DEF Hand
<1>9. CASE serve_terminates \/ read_answer
  BY <1>0, <1>1, <1>9, OthersKeep DEF serve_terminates, read_answer
<1>10. CASE scan \/ \E delay \in BOOLEAN : arp_scanner_main(delay)
  <2>1. pc \in {"start", "scan"} /\ pc' \notin {"send", "recv"}
    BY <1>10 DEF scan, arp_scanner_main
  <2> QED BY <1>0, <1>1, <2>1, OthersKeep
<1>11. CASE str_to_ptp_endpoint \/ read_mac_addr \/ str_to_octet \/ str_to_ptp_action
  <2>1. pc = "parse" /\ pc' \notin {"send", "recv"}
    BY <1>11 DEF str_to_ptp_endpoint, read_mac_addr, str_to_octet, str_to_ptp_action, Read, Invalid
  <2> QED BY <1>0, <1>1, <2>1, OthersKeep
<1>12. CASE dns_client_main \/ \E interval \in BOOLEAN : ping_main(interval)
  <2>1. pc = "parse" /\ pc' \notin {"send", "recv"}
    BY <1>12 DEF dns_client_main, ping_main, Read, Invalid
  <2> QED BY <1>0, <1>1, <2>1, OthersKeep
<1>13. CASE finished
  BY <1>13, StutterKeeps DEF finished
<1>14. CASE Beyond
  BY <1>14, BeyondKeeps
<1> QED BY <1>2, <1>3, <1>4, <1>5, <1>6, <1>7, <1>8, <1>9, <1>10, <1>11, <1>12, <1>13, <1>14 DEF Next, Beyond

(* No protocol has sent yet. *)
LEMMA TripStarts == Init => TripInv
<1> SUFFICES ASSUME Init PROVE TripInv
  OBVIOUS
<1>1. CASE kind = "frame"
  <2>1. PICK f \in Frames : stack = f.stack /\ wire = f.data /\ data = f.data /\ table = f.table
    BY <1>1 DEF Init
  <2>2. IsStack(stack) /\ IsTable(table) /\ data \in Payload /\ TableOf(stack, table)
    BY <2>1, FramesAssumption, Zenon
  <2>3. pc = "send" /\ layers = 0
    BY <1>1 DEF Init
  <2> DEFINE W == [k \in {0} |-> data]
  <2>4. W[0] = data /\ 1 .. 0 = {} /\ 0 \in 0 .. Len(stack)
    BY <2>2, StackLen
  <2> HIDE DEF W
  <2>5. Chain(W, 0) /\ wire = W[0]
    BY <2>1, <2>4, Zenon DEF Chain
  <2> QED BY <2>2, <2>3, <2>4, <2>5, Zenon DEF TripInv, Travelling
<1>2. CASE kind # "frame"
  <2>1. pc \notin {"send", "recv"}
    BY <1>2 DEF Init
  <2> QED BY <1>2, <2>1, Zenon DEF TripInv, Travelling
<1> QED BY <1>1, <1>2

(* What has arrived is what was sent. *)
LEMMA ArrivedAsSent == TripInv => FrameKept
<1> SUFFICES ASSUME TripInv, kind = "frame", pc = "done"
             PROVE  FrameKept
  BY Zenon DEF FrameKept
<1> DEFINE L == Len(stack)
<1>1. data \in Payload /\ IsStack(stack) /\ layers = 0
  BY DEF TripInv, Travelling
<1>2. PICK W : Taken(W)
  BY <1>1, Zenon DEF TripInv, Travelling
<1>3. L \in Nat /\ L > 0
  BY <1>1, StackLen
<1>4. /\ Len(got) = L /\ W[0] = data
      /\ \A i \in 1 .. Len(got) : Kept(stack[i].p, Hdr(i, W[L - i]), W[L - i], got[i])
  <2>1. Len(got) = L - layers /\ L - 0 = L
    BY <1>2, <1>3 DEF Taken
  <2> QED BY <1>1, <1>2, <2>1, Zenon DEF Taken, Chain
<1>5. LET top == stack[L].p
      IN  top # "arp" => (IF top = "icmp" THEN drop(wire, 8) ELSE wire) = data \o pad
  BY <1>1, <1>2, Zenon DEF Taken
<1>6. ASSUME NEW i \in 1 .. L
      PROVE  LET h == IF i = 1 /\ Routed THEN [Given(stack[1]) EXCEPT !.dest_addr = got[1].dest_addr]
                      ELSE Given(stack[i])
             IN  /\ \A f \in DOMAIN h : got[i][f] = h[f]
                 /\ stack[i].p = "udp" => got[i].len = 8 + Len(data)
                 /\ stack[i].p = "ip4" => got[i].flags = 0
  <2> DEFINE d == W[L - i]
             g == Hdr(i, d)
             s == stack[i].h
             G == Given(stack[i])
             h == IF i = 1 /\ Routed THEN [Given(stack[1]) EXCEPT !.dest_addr = got[1].dest_addr]
                  ELSE Given(stack[i])
  <2>1. Kept(stack[i].p, g, d, got[i])
    BY <1>4, Zenon
  <2>2. DOMAIN G = DOMAIN s \ Filled /\ \A f \in DOMAIN s \ Filled : G[f] = s[f]
    BY Zenon DEF Given, Filled
  <2>3. stack[i].p = "udp" => d = data
    <3>1. stack[i].p = "udp" => i = L
      BY <1>1 DEF IsStack
    <3>2. L - L = 0
      BY <1>3
    <3> QED BY <1>4, <3>1, <3>2, Zenon
  <2>4. /\ DOMAIN g = DOMAIN s
        /\ \A f \in DOMAIN s \ Filled : ~(i = 1 /\ Routed /\ f = "dest_addr") => g[f] = s[f]
    <3>1. CASE stack[i].p = "ip4"
      <4>1. g = [s EXCEPT !.total_len = 20 + Len(d)]
        BY <3>1, Zenon DEF Hdr, ip4_header
      <4>2. \A f \in DOMAIN s \ Filled : f # "total_len"
        BY DEF Filled
      <4> HIDE DEF g, s, d
      <4> QED BY <4>1, <4>2
    <3>2. CASE stack[i].p # "ip4" /\ i = 1 /\ Routed
      <4>1. PICK x : g = [s EXCEPT !.dest_addr = x]
        BY <3>2, Zenon DEF Hdr
      <4> HIDE DEF g, s, d
      <4>2. DOMAIN g = DOMAIN s /\ \A f \in DOMAIN s : f # "dest_addr" => g[f] = s[f]
        BY <4>1
      <4> QED BY <3>2, <4>2
    <3>3. CASE stack[i].p # "ip4" /\ ~(i = 1 /\ Routed)
      BY <3>3, Zenon DEF Hdr
    <3> QED BY <3>1, <3>2, <3>3
  <2> HIDE DEF g, d
  <2>5. \A f \in DOMAIN s \ Filled : ~(i = 1 /\ Routed /\ f = "dest_addr") => got[i][f] = s[f]
    BY <2>1, <2>4, Zenon DEF Kept
  <2>6. \A f \in DOMAIN h : got[i][f] = h[f]
    <3>1. CASE i = 1 /\ Routed
      <4>1. h = [G EXCEPT !.dest_addr = got[1].dest_addr]
        BY <3>1, Zenon
      <4> HIDE DEF h, G
      <4>2. DOMAIN h = DOMAIN G /\ \A f \in DOMAIN G : h[f] = IF f = "dest_addr" THEN got[1]["dest_addr"] ELSE G[f]
        BY <4>1
      <4> QED BY <2>2, <2>5, <3>1, <4>2, Zenon
    <3>2. CASE ~(i = 1 /\ Routed)
      <4>1. h = G
        BY <3>2, Zenon
      <4> HIDE DEF h, G
      <4> QED BY <2>2, <2>5, <3>2, <4>1, Zenon
    <3> QED BY <3>1, <3>2
  <2>7. /\ stack[i].p = "udp" => got[i].len = 8 + Len(data)
        /\ stack[i].p = "ip4" => got[i].flags = 0
    BY <2>1, <2>3, Zenon DEF Kept
  <2> QED BY <2>6, <2>7, Zenon
<1> QED BY <1>5, <1>6, Zenon DEF FrameKept

(* Whatever the stack of protocols, their headers, the data and the        *)
(* padding: where no buffer is too small for them, every header that is    *)
(* read is the one that was sent, and the data arrive behind them.         *)
THEOREM HeadersAndDataArrive == Spec => []FrameKept
<1>1. TripInv /\ [Next]_vars => TripInv'
  BY TripKept
<1> QED BY <1>1, TripStarts, ArrivedAsSent, PTL DEF Spec

-----------------------------------------------------------------------------
(* The routing table *)

\* The first of the longest rules of the table t among those in F.
Bests(t, F) ==
  {j \in 1 .. Len(t.rules) :
     /\ j \in F
     /\ \A k \in 1 .. Len(t.rules) : k \in F =>
          \/ mask_len(t.rules[k].mask) < mask_len(t.rules[j].mask)
          \/ mask_len(t.rules[k].mask) = mask_len(t.rules[j].mask) /\ j <= k}

(* find_route gives the route of that rule, or else the default gateway. *)
LEMMA BestRoute ==
  ASSUME NEW t, IsTable(t), NEW F
  PROVE  find_route(t, F) = IF Bests(t, F) = {} THEN t.default_gateway
                            ELSE t.rules[CHOOSE j \in Bests(t, F) : TRUE].route
<1> DEFINE rules == t.rules
           n == Len(rules)
           r == impl_find_route(rules, F)
           len(j) == mask_len(rules[j].mask)
<1>1. n \in Nat /\ \A i \in 1 .. n : len(i) \in Nat
  BY MaskLens
<1>2. Closest(rules, F, n, r)
  BY <1>1, FindsClosest
<1>3. find_route(t, F) = IF r # 0 THEN rules[r].route ELSE t.default_gateway
  BY Zenon DEF find_route
<1> HIDE DEF r, rules, n
<1>4. CASE r = 0
  <2>1. \A i \in 1 .. n : i \notin F
    BY <1>1, <1>2, <1>4 DEF Closest
  <2>2. Bests(t, F) = {}
    BY <2>1 DEF Bests, n, rules
  <2> QED BY <1>3, <1>4, <2>2
<1>5. CASE r # 0
  <2>1. /\ r \in 1 .. n /\ r \in F
        /\ \A i \in 1 .. n : i \in F => len(i) < len(r) \/ (len(i) = len(r) /\ r <= i)
    BY <1>2, <1>5, Zenon DEF Closest
  <2>2. r \in Bests(t, F)
    BY <2>1, Zenon DEF Bests, n, rules
  <2>3. ASSUME NEW j \in Bests(t, F) PROVE j = r
    <3>1. j \in 1 .. n /\ j \in F /\ \A k \in 1 .. n : k \in F => len(k) < len(j) \/ (len(k) = len(j) /\ j <= k)
      BY Zenon DEF Bests, n, rules
    <3>2. len(r) < len(j) \/ (len(r) = len(j) /\ j <= r)
      BY <2>1, <3>1, Zenon
    <3>3. len(j) < len(r) \/ (len(j) = len(r) /\ r <= j)
      BY <2>1, <3>1, Zenon
    <3>4. PICK u \in Nat, v \in Nat : u = len(r) /\ v = len(j)
      BY <1>1, <2>1, <3>1, Zenon
    <3> HIDE DEF len
    <3>5. j \in Int /\ r \in Int
      BY <1>1, <2>1, <3>1
    <3> QED BY <3>2, <3>3, <3>4, <3>5
  <2>4. (CHOOSE j \in Bests(t, F) : TRUE) = r
    <3>1. (CHOOSE j \in Bests(t, F) : TRUE) \in Bests(t, F)
      BY <2>2, Zenon
    <3> QED BY <2>3, <3>1, Zenon
  <2>5. Bests(t, F) # {}
    BY <2>2
  <2> QED BY <1>3, <1>5, <2>4, <2>5, Zenon DEF rules
<1> QED BY <1>4, <1>5

(* A ptp subnet: what goes on behind its prefix. *)
LEMMA InsidePtpSubnet ==
  ASSUME NEW m, m.prefix \in Seq(Byte), NEW a \in Seq(Byte)
  PROVE  is_inside_ptp_subnet(m, a) <=> Prefix(Len(m.prefix), m.prefix, a) /\ m.prefix # a
<1> DEFINE q == m.prefix
           n == Len(q)
<1>1. q \in Seq(Byte) /\ n \in Nat /\ Len(a) \in Nat
  OBVIOUS
<1>2. is_inside_ptp_subnet(m, a) <=> n < Len(a) /\ SubSeq(a, 1, n) = q
  BY Zenon DEF is_inside_ptp_subnet
<1>3. Prefix(n, q, a) <=> n <= Len(a) /\ SubSeq(q, 1, n) = SubSeq(a, 1, n)
  BY Zenon DEF Prefix
<1> HIDE DEF q
<1>4. SubSeq(q, 1, n) = q /\ SubSeq(a, 1, Len(a)) = a
  BY <1>1
<1>5. CASE n < Len(a)
  <2>1. q # a
    BY <1>5
  <2> QED BY <1>2, <1>3, <1>4, <1>5, <2>1 DEF q
<1>6. CASE ~(n < Len(a))
  <2>1. n <= Len(a) => n = Len(a)
    BY <1>1, <1>6
  <2> QED BY <1>2, <1>3, <1>4, <1>6, <2>1 DEF q
<1> QED BY <1>5, <1>6

(* An ip4 subnet of whole octets. *)
LEMMA InsideIp4Subnet ==
  ASSUME NEW m, m.base \in Octets(4), m.bits \in 0 .. 32, m.bits % 8 = 0, NEW a \in Octets(4)
  PROVE  is_inside_subnet(m, a) <=> Prefix(m.bits \div 8, m.base, a)
<1>1. PICK q, n : q = m.base /\ n = m.bits \div 8
  OBVIOUS
<1>2. /\ q \in Seq(Byte) /\ Len(q) = 4 /\ a \in Seq(Byte) /\ Len(a) = 4
  BY <1>1 DEF Octets
<1>3. n \in 0 .. 4
  <2>1. PICK b \in 0 .. 32 : b = m.bits
    OBVIOUS
  <2>2. b \div 8 \in 0 .. 4
    BY SMT
  <2> QED BY <1>1, <2>1, <2>2
<1>4. n + 1 <= 4 => low(q[n + 1], 0) = low(a[n + 1], 0)
  <2>1. ASSUME n + 1 <= 4 PROVE q[n + 1] \in Byte /\ a[n + 1] \in Byte
    <3>1. n + 1 \in 1 .. 4
      BY <1>3, <2>1
    <3>2. n + 1 \in 1 .. Len(q) /\ n + 1 \in 1 .. Len(a)
      BY <1>2, <3>1, Zenon
    <3>3. \A s \in Seq(Byte) : \A k \in 1 .. Len(s) : s[k] \in Byte
      OBVIOUS
    <3> QED BY <1>2, <3>2, <3>3, Zenon
  <2>2. \A x \in Byte : low(x, 0) = 0
    <3>1. 0 \in 0 .. 7
      OBVIOUS
    <3> QED BY <3>1, LowBits
  <2> QED BY <2>1, <2>2, Zenon
<1>5. is_inside_subnet(m, a) <=> \A i \in 1 .. n : q[i] = a[i]
  BY <1>1, <1>4, Zenon DEF is_inside_subnet
<1>6. Prefix(n, q, a) <=> n <= 4 /\ SubSeq(q, 1, n) = SubSeq(a, 1, n)
  BY <1>2, Zenon DEF Prefix
<1>7. SubSeq(q, 1, n) = SubSeq(a, 1, n) <=> \A i \in 1 .. n : q[i] = a[i]
  <2>1. /\ SubSeq(q, 1, n) \in Seq(Byte) /\ SubSeq(a, 1, n) \in Seq(Byte)
        /\ Len(SubSeq(q, 1, n)) = n /\ Len(SubSeq(a, 1, n)) = n
        /\ \A i \in 1 .. n : SubSeq(q, 1, n)[i] = q[i] /\ SubSeq(a, 1, n)[i] = a[i]
    <3>1. ASSUME NEW s \in Seq(Byte), NEW k \in Nat, k <= Len(s)
          PROVE  /\ SubSeq(s, 1, k) \in Seq(Byte) /\ Len(SubSeq(s, 1, k)) = k
                 /\ \A i \in 1 .. k : SubSeq(s, 1, k)[i] = s[i]
      BY <3>1
    <3>2. n \in Nat /\ n <= Len(q) /\ n <= Len(a)
      BY <1>2, <1>3
    <3> QED BY <1>2, <3>1, <3>2
  <2> QED BY <2>1
<1>8. n <= 4
  BY <1>3
<1> QED BY <1>1, <1>5, <1>6, <1>7, <1>8

(* Where an ip4 packet goes. *)
LEMMA Ip4Dest ==
  ASSUME NEW h, Ip4Header(h)
  PROVE  "dest_addr" \in DOMAIN h /\ h.dest_addr \in Octets(4)
<1>1. h = [version |-> h.version, header_len |-> h.header_len, tos |-> h.tos, total_len |-> h.total_len,
           id |-> h.id, flags |-> h.flags, frag_off |-> h.frag_off, ttl |-> h.ttl, prot |-> h.prot,
           checksum |-> h.checksum, src_addr |-> h.src_addr, dest_addr |-> h.dest_addr]
      /\ h.dest_addr \in Octets(4)
  BY SMT DEF Ip4Header
<1>2. "dest_addr" \in DOMAIN h
  BY <1>1, SMT
<1> QED BY <1>1, <1>2, Zenon

(* What the routing reads of a packet is what its protocol was given. *)
LEMMA PacketRead ==
  ASSUME IsStack(stack), Routed, NEW d, NEW b, Sent(2, d, b)
  PROVE  LET h == stack[2].h
         IN  /\ HeaderOf(stack[2].p, h)
             /\ stack[2].p = "ip4" => extract_ip4(b)[1].dest_addr = h.dest_addr
             /\ stack[2].p = "ptp" => /\ extract_ptp(b)[1].actions = h.actions
                                      /\ extract_ptp(b)[1].curr_action = h.curr_action
<1> DEFINE p == stack[2].p
           h == stack[2].h
           g == Hdr(2, d)
           e == extract(p, b)[1]
<1>1. 2 \in 1 .. Len(stack)
  BY StackLen DEF Routed
<1>2. HeaderOf(p, h)
  BY <1>1, Zenon DEF IsStack
<1>3. Kept(p, g, d, e)
  <2>1. b \in Seq(Byte) /\ Travels(p, g, d) /\ b = send(p, g, d)
    BY Zenon DEF Sent, Travels
  <2>2. <<>> \in Seq(Byte) /\ b \o <<>> = b
    BY <2>1
  <2> QED BY <2>1, <2>2, Zenon DEF Travels
<1>4. ASSUME p = "ip4" PROVE extract_ip4(b)[1].dest_addr = h.dest_addr
  <2>1. g = [h EXCEPT !.total_len = 20 + Len(d)]
    BY <1>4, Zenon DEF Hdr, ip4_header
  <2>2. Ip4Header(h)
    BY <1>2, <1>4, Zenon DEF HeaderOf
  <2>3. "dest_addr" \in DOMAIN h
    BY <2>2, Ip4Dest, Zenon
  <2> HIDE DEF g, h
  <2>4. "dest_addr" \in DOMAIN g /\ g["dest_addr"] = h["dest_addr"]
    BY <2>1, <2>3, SMT
  <2>5. "dest_addr" \notin Filled
    BY DEF Filled
  <2>6. e["dest_addr"] = h["dest_addr"]
    BY <1>3, <2>4, <2>5, Zenon DEF Kept
  <2>7. extract(p, b) = extract_ip4(b)
    BY <1>4, Zenon DEF extract
  <2> HIDE DEF p
  <2> QED BY <2>6, <2>7
<1>5. ASSUME p = "ptp" PROVE extract_ptp(b)[1].actions = h.actions /\ extract_ptp(b)[1].curr_action = h.curr_action
  <2>1. g = h
    <3>1. 2 # 1 /\ p # "ip4"
      BY <1>5
    <3> QED BY <3>1, Zenon DEF Hdr
  <2>2. PtpHeader(h)
    BY <1>2, <1>5, Zenon DEF HeaderOf
  <2>3. "actions" \in DOMAIN h /\ "curr_action" \in DOMAIN h
    BY <2>2, SMT DEF PtpHeader
  <2> HIDE DEF g, h
  <2>5. "actions" \notin Filled /\ "curr_action" \notin Filled
    BY DEF Filled
  <2>6. e["actions"] = h["actions"] /\ e["curr_action"] = h["curr_action"]
    BY <1>3, <2>1, <2>3, <2>5, Zenon DEF Kept
  <2>7. extract(p, b) = extract_ptp(b)
    BY <1>5, Zenon DEF extract
  <2> HIDE DEF p
  <2> QED BY <2>6, <2>7
<1> QED BY <1>2, <1>4, <1>5, Zenon

\* The next hop by the longest prefix, as RoutedByLongestPrefix has it.
Length(j) ==
  IF stack[2].p = "ip4" THEN table.rules[j].mask.bits \div 8 ELSE Len(table.rules[j].mask.prefix)
Fit(j) ==
  IF stack[2].p = "ip4" THEN Prefix(Length(j), table.rules[j].mask.base, stack[2].h.dest_addr)
  ELSE /\ Prefix(Length(j), table.rules[j].mask.prefix, stack[2].h.actions[stack[2].h.curr_action + 1].dest)
       /\ table.rules[j].mask.prefix # stack[2].h.actions[stack[2].h.curr_action + 1].dest
Firsts ==
  {j \in 1 .. Len(table.rules) : /\ Fit(j)
     /\ \A k \in 1 .. Len(table.rules) : Fit(k) => Length(k) < Length(j) \/ (Length(k) = Length(j) /\ j <= k)}
LongestHop ==
  IF ~(stack[2].p = "ip4") /\ stack[2].h.actions[stack[2].h.curr_action + 1].type # 1 THEN NoHop
  ELSE IF Firsts = {} THEN table.default_gateway
  ELSE table.rules[CHOOSE j \in Firsts : TRUE].route

(* Lengths in octets are ordered as lengths in bits. *)
LEMMA OctetOrder ==
  ASSUME NEW x \in 0 .. 32, NEW y \in 0 .. 32, x % 8 = 0, y % 8 = 0
  PROVE  /\ x \div 8 < y \div 8 <=> x < y
         /\ x \div 8 = y \div 8 <=> x = y
<1>1. PICK u \in 0 .. 4, v \in 0 .. 4 : x = 8 * u /\ y = 8 * v
  <2>1. x \div 8 \in 0 .. 4 /\ y \div 8 \in 0 .. 4 /\ x = 8 * (x \div 8) /\ y = 8 * (y \div 8)
    BY SMT
  <2> QED BY <2>1
<1>2. x \div 8 = u /\ y \div 8 = v
  BY <1>1, SMT
<1> QED BY <1>1, <1>2, SMT

(* The next hop a packet gets is that of the longest prefix. *)
LEMMA HopIsLongest ==
  ASSUME IsStack(stack), IsTable(table), TableOf(stack, table), Routed, WholeOctets,
         NEW d, NEW b, Sent(2, d, b)
  PROVE  Hop(b) = LongestHop
<1> DEFINE p == stack[2].p
           h == stack[2].h
           r == table.rules
           n == Len(r)
           rules == 1 .. n
           at == h.actions[h.curr_action + 1]
<1>0. p \in {"ip4", "ptp"} /\ stack[1].p = "ether2"
  BY DEF Routed
<1>1. /\ HeaderOf(p, h)
      /\ p = "ip4" => extract_ip4(b)[1].dest_addr = h.dest_addr
      /\ p = "ptp" => /\ extract_ptp(b)[1].actions = h.actions
                      /\ extract_ptp(b)[1].curr_action = h.curr_action
  BY PacketRead, Zenon
<1>2. n \in Nat /\ \A i \in rules : mask_len(r[i].mask) \in Nat
  BY MaskLens
<1>3. \A i \in rules : OfPtp(r[i].mask) <=> p = "ptp"
  BY <1>0, Zenon DEF TableOf
<1>4. ASSUME NEW F \in SUBSET rules, \A j \in rules : j \in F <=> Fit(j),
             \A j, k \in rules : /\ Length(k) < Length(j) <=> mask_len(r[k].mask) < mask_len(r[j].mask)
                                 /\ Length(k) = Length(j) <=> mask_len(r[k].mask) = mask_len(r[j].mask),
             p = "ip4" \/ at.type = 1
      PROVE  find_route(table, F) = LongestHop
  <2>1. Bests(table, F) = Firsts
    BY <1>4, Zenon DEF Bests, Firsts
  <2>2. find_route(table, F) = IF Bests(table, F) = {} THEN table.default_gateway
                               ELSE r[CHOOSE j \in Bests(table, F) : TRUE].route
    BY BestRoute, Zenon
  <2>3. LongestHop = IF Firsts = {} THEN table.default_gateway ELSE r[CHOOSE j \in Firsts : TRUE].route
    BY <1>4, Zenon DEF LongestHop
  <2> QED BY <2>1, <2>2, <2>3, Zenon
<1>5. CASE p = "ip4"
  <2> DEFINE F == {j \in rules : is_inside_subnet(r[j].mask, h.dest_addr)}
  <2>1. Hop(b) = find_route(table, F)
    BY <1>1, <1>5, Zenon DEF Hop, create_send_access_from_routing_table
  <2>2. h.dest_addr \in Octets(4)
    <3>1. Ip4Header(h)
      BY <1>1, <1>5, Zenon DEF HeaderOf
    <3> QED BY <3>1, Ip4Dest, Zenon
  <2>3. ASSUME NEW j \in rules
        PROVE  /\ r[j].mask.base \in Octets(4) /\ r[j].mask.bits \in 0 .. 32 /\ r[j].mask.bits % 8 = 0
               /\ mask_len(r[j].mask) = r[j].mask.bits /\ Length(j) = r[j].mask.bits \div 8
    <3>1. ~OfPtp(r[j].mask)
      BY <1>3, <1>5
    <3>2. r[j].mask.base \in Octets(4) /\ r[j].mask.bits \in 0 .. 32
      BY <3>1, Zenon DEF IsTable
    <3>3. r[j].mask.bits % 8 = 0
      BY <3>1, Zenon DEF WholeOctets
    <3>4. mask_len(r[j].mask) = r[j].mask.bits
      BY <3>1, Zenon DEF mask_len, OfPtp
    <3>5. Length(j) = r[j].mask.bits \div 8
      BY <1>5, Zenon DEF Length
    <3> QED BY <3>2, <3>3, <3>4, <3>5, Zenon
  <2>4. ASSUME NEW j \in rules PROVE j \in F <=> Fit(j)
    <3>1. is_inside_subnet(r[j].mask, h.dest_addr) <=> Prefix(r[j].mask.bits \div 8, r[j].mask.base, h.dest_addr)
      BY <2>2, <2>3, InsideIp4Subnet, Zenon
    <3> QED BY <1>5, <3>1, Zenon DEF Fit, Length
  <2>5. ASSUME NEW j \in rules, NEW k \in rules
        PROVE  /\ Length(k) < Length(j) <=> mask_len(r[k].mask) < mask_len(r[j].mask)
               /\ Length(k) = Length(j) <=> mask_len(r[k].mask) = mask_len(r[j].mask)
    <3>1. PICK x, y : x = r[k].mask.bits /\ y = r[j].mask.bits
      OBVIOUS
    <3>2. x \in 0 .. 32 /\ y \in 0 .. 32 /\ x % 8 = 0 /\ y % 8 = 0
      BY <2>3, <3>1, Zenon
    <3>3. (x \div 8 < y \div 8 <=> x < y) /\ (x \div 8 = y \div 8 <=> x = y)
      BY <3>2, OctetOrder, Zenon
    <3> QED BY <2>3, <3>1, <3>3, Zenon
  <2>6. F \in SUBSET rules
    OBVIOUS
  <2> HIDE DEF F
  <2> QED BY <1>4, <1>5, <2>1, <2>4, <2>5, <2>6, Zenon
<1>6. CASE p = "ptp"
  <2> DEFINE F == {j \in rules : is_inside_ptp_subnet(r[j].mask, at.dest)}
  <2>1. Hop(b) = IF at.type # 1 THEN NoHop ELSE find_route(table, F)
    <3>1. p # "ip4"
      BY <1>6
    <3> QED BY <1>1, <1>6, <3>1, Zenon DEF Hop, create_send_access_from_routing_table
  <2>2. CASE at.type # 1
    <3>1. p # "ip4"
      BY <1>6
    <3> QED BY <2>1, <2>2, <3>1, Zenon DEF LongestHop
  <2>3. CASE at.type = 1
    <3>1. at.dest \in Seq(Byte)
      <4>1. PtpHeader(h)
        BY <1>1, <1>6, Zenon DEF HeaderOf
      <4>2. h.curr_action < Len(h.actions)
        BY <1>0, <1>6, Zenon DEF TableOf
      <4>3. h.curr_action \in Nat /\ Len(h.actions) \in Nat
        <5>1. h.curr_action \in Byte /\ Len(h.actions) \in Byte
          BY <4>1, Zenon DEF PtpHeader
        <5>2. \A x \in Byte : x \in Nat
          BY DEF Byte
        <5> QED BY <5>1, <5>2, Zenon
      <4>4. h.curr_action + 1 \in 1 .. Len(h.actions)
        BY <4>2, <4>3
      <4>5. PtpAction(at)
        BY <4>1, <4>4, Zenon DEF PtpHeader
      <4> HIDE DEF at
      <4>6. 1 # 0
        OBVIOUS
      <4> QED BY <2>3, <4>5, <4>6, Zenon DEF PtpAction
    <3>2. ASSUME NEW j \in rules
          PROVE  /\ r[j].mask.prefix \in Seq(Byte)
                 /\ mask_len(r[j].mask) = Len(r[j].mask.prefix) /\ Length(j) = Len(r[j].mask.prefix)
      <4>1. OfPtp(r[j].mask) /\ p # "ip4"
        BY <1>3, <1>6
      <4>2. r[j].mask.prefix \in Seq(Byte)
        BY <4>1, Zenon DEF IsTable
      <4> QED BY <4>1, <4>2, Zenon DEF mask_len, OfPtp, Length
    <3>3. ASSUME NEW j \in rules PROVE j \in F <=> Fit(j)
      <4>1. is_inside_ptp_subnet(r[j].mask, at.dest)
              <=> Prefix(Len(r[j].mask.prefix), r[j].mask.prefix, at.dest) /\ r[j].mask.prefix # at.dest
        BY <3>1, <3>2, InsidePtpSubnet, Zenon
      <4>2. p # "ip4"
        BY <1>6
      <4> QED BY <4>1, <4>2, Zenon DEF Fit, Length
    <3>4. ASSUME NEW j \in rules, NEW k \in rules
          PROVE  /\ Length(k) < Length(j) <=> mask_len(r[k].mask) < mask_len(r[j].mask)
                 /\ Length(k) = Length(j) <=> mask_len(r[k].mask) = mask_len(r[j].mask)
      BY <3>2, Zenon
    <3>5. F \in SUBSET rules
      OBVIOUS
    <3> HIDE DEF F
    <3> QED BY <1>4, <2>1, <2>3, <3>3, <3>4, <3>5, Zenon
  <2> QED BY <2>2, <2>3
<1> QED BY <1>0, <1>5, <1>6

(* Where a frame has gone, and where the next one goes. *)
LEMMA WentToLongest == TripInv => RoutedByLongestPrefix
<1> SUFFICES ASSUME TripInv, kind = "frame", Routed, WholeOctets, pc \in {"done", "dropped"}
             PROVE  IF LongestHop = NoHop THEN pc = "dropped" ELSE pc = "done" /\ got[1].dest_addr = LongestHop
  BY Zenon DEF RoutedByLongestPrefix, LongestHop, Firsts, Fit, Length
<1> DEFINE L == Len(stack)
<1>1. IsStack(stack) /\ IsTable(table) /\ TableOf(stack, table) /\ data \in Payload
  BY DEF TripInv
<1>2. L \in Nat /\ L > 1 /\ stack[1].p = "ether2" /\ stack[1].p # "ip4" /\ stack[1].p # "arp"
  BY <1>1, StackLen DEF Routed
<1>3. ASSUME NEW W, NEW m \in {L, L - 1}, Chain(W, m) PROVE Hop(W[L - 1]) = LongestHop
  <2>1. L - 1 \in 1 .. m /\ L + 1 - (L - 1) = 2
    BY <1>2
  <2>2. Sent(2, W[(L - 1) - 1], W[L - 1])
    BY <1>3, <2>1, Zenon DEF Chain
  <2> QED BY <1>1, <2>2, HopIsLongest, Zenon
<1>4. CASE pc = "dropped"
  <2>1. PICK W : Chain(W, L - 1) /\ Hop(W[L - 1]) = NoHop
    BY <1>1, <1>4, Zenon DEF TripInv, Travelling
  <2>2. Hop(W[L - 1]) = LongestHop
    BY <1>3, <2>1, Zenon
  <2> QED BY <1>4, <2>1, <2>2, Zenon
<1>5. CASE pc = "done"
  <2>1. PICK W : layers = 0 /\ Taken(W)
    BY <1>1, <1>5, Zenon DEF TripInv, Travelling
  <2> DEFINE d == W[L - 1]
             g == Hdr(1, d)
  <2>2. Chain(W, L) /\ Hop(d) = LongestHop
    BY <1>3, <2>1, Zenon DEF Taken
  <2>3. Sent(1, d, W[L])
    <3>1. L \in 1 .. L /\ L + 1 - L = 1
      BY <1>2
    <3> QED BY <2>2, <3>1, Zenon DEF Chain
  <2>4. Hop(d) # NoHop
    BY <2>3, Zenon DEF Sent
  <2>5. Kept(stack[1].p, g, d, got[1])
    <3>1. Len(got) = L /\ 1 \in 1 .. Len(got)
      BY <1>2, <2>1 DEF Taken
    <3> QED BY <2>1, <3>1, Zenon DEF Taken
  <2>6. "dest_addr" \in DOMAIN g /\ g["dest_addr"] = Hop(d)
    <3>1. g = [stack[1].h EXCEPT !.dest_addr = Hop(d)]
      BY <1>2, Zenon DEF Hdr
    <3>2. "dest_addr" \in DOMAIN stack[1].h
      <4>1. 1 \in 1 .. L
        BY <1>2
      <4>2. HeaderOf("ether2", stack[1].h)
        BY <1>1, <1>2, <4>1, Zenon DEF IsStack
      <4>3. Ether2Header(stack[1].h)
        BY <4>2, Zenon DEF HeaderOf
      <4> QED BY <4>3, SMT DEF Ether2Header
    <3> HIDE DEF g, d
    <3> QED BY <3>1, <3>2, SMT
  <2>7. got[1]["dest_addr"] = Hop(d)
    <3>1. "dest_addr" \notin Filled
      BY DEF Filled
    <3> HIDE DEF g, d
    <3> QED BY <2>5, <2>6, <3>1, Zenon DEF Kept
  <2> QED BY <1>5, <2>2, <2>4, <2>7
<1> QED BY <1>4, <1>5

(* A packet goes to the next hop of the first of the rules with the        *)
(* longest prefix of its destination, whatever the table and the packet.   *)
THEOREM LongestPrefixRouted == Spec => []RoutedByLongestPrefix
<1>1. TripInv /\ [Next]_vars => TripInv'
  BY TripKept
<1> QED BY <1>1, TripStarts, WentToLongest, PTL DEF Spec

-----------------------------------------------------------------------------
(* What a checksum that was filled in sums to *)

\* Two sums of which the second has c where the first has 0, and zeros at its end.
Differ(n0, n1, q, c, A, B, S, T) ==
  /\ n0 \in Nat /\ n1 \in Nat /\ n0 <= n1 /\ q \in Nat /\ 1 <= q /\ q <= n0 /\ c \in Nat
  /\ A \in [1 .. n0 -> Nat] /\ B \in [1 .. n1 -> Nat]
  /\ S \in [0 .. n0 -> Nat] /\ T \in [0 .. n1 -> Nat] /\ S[0] = 0 /\ T[0] = 0
  /\ \A i \in 1 .. n0 : S[i] = S[i - 1] + A[i]
  /\ \A i \in 1 .. n1 : T[i] = T[i - 1] + B[i]
  /\ A[q] = 0 /\ B[q] = c
  /\ \A i \in 1 .. n0 : i # q => B[i] = A[i]
  /\ \A i \in 1 .. n1 : i > n0 => B[i] = 0

(* Up to where they differ, two sums are the same; from there on they      *)
(* differ by as much.                                                      *)
LEMMA SumsDiffer ==
  ASSUME NEW n0, NEW n1, NEW q, NEW c, NEW A, NEW B, NEW S, NEW T, Differ(n0, n1, q, c, A, B, S, T)
  PROVE  T[n1] = S[n0] + c
<1> DEFINE P == {i \in Nat : i <= n0 => /\ i < q => T[i] = S[i]
                                        /\ q <= i => T[i] = S[i] + c}
           Q == {i \in Nat : n0 + i <= n1 => T[n0 + i] = S[n0] + c}
<1>0. n0 \in Nat /\ n1 \in Nat /\ n0 <= n1 /\ q \in Nat /\ 1 <= q /\ q <= n0 /\ c \in Nat
  BY DEF Differ
<1>1. 0 \in P
  <2>1. S[0] = T[0] /\ 0 < q /\ ~(q <= 0) /\ 0 \in Nat
    BY <1>0 DEF Differ
  <2> QED BY <2>1, Zenon
<1>2. ASSUME NEW i \in P PROVE i + 1 \in P
  <2>0. i \in Nat /\ i + 1 \in Nat
    OBVIOUS
  <2> SUFFICES ASSUME i + 1 <= n0
               PROVE  /\ i + 1 < q => T[i + 1] = S[i + 1]
                      /\ q <= i + 1 => T[i + 1] = S[i + 1] + c
    BY <2>0
  <2>1. i <= n0 /\ i \in 0 .. n0 /\ i \in 0 .. n1 /\ i + 1 \in 1 .. n0 /\ i + 1 \in 1 .. n1 /\ (i + 1) - 1 = i
    BY <1>0, <2>0
  <2>2. (i < q => T[i] = S[i]) /\ (q <= i => T[i] = S[i] + c)
    BY <2>1
  <2>3. PICK s \in Nat, t \in Nat, a \in Nat, b \in Nat :
          S[i] = s /\ T[i] = t /\ A[i + 1] = a /\ B[i + 1] = b
    BY <2>1 DEF Differ
  <2>4. S[i + 1] = s + a /\ T[i + 1] = t + b
    <3>1. S[i + 1] = S[(i + 1) - 1] + A[i + 1] /\ T[i + 1] = T[(i + 1) - 1] + B[i + 1]
      BY <2>1 DEF Differ
    <3> QED BY <2>1, <2>3, <3>1
  <2>5. i + 1 = q => a = 0 /\ b = c
    BY <2>3 DEF Differ
  <2>6. i + 1 # q => b = a
    BY <2>1, <2>3 DEF Differ
  <2>7. (i < q => t = s) /\ (q <= i => t = s + c)
    BY <2>2, <2>3
  <2> HIDE DEF P
  <2>8. (i + 1 < q => t + b = s + a) /\ (q <= i + 1 => t + b = (s + a) + c)
    BY <1>0, <2>0, <2>5, <2>6, <2>7
  <2> QED BY <2>4, <2>8
<1>3. P = Nat
  <2> HIDE DEF P
  <2>1. P \in SUBSET Nat
    BY DEF P
  <2> QED BY <1>1, <1>2, <2>1, Induction
<1>4. T[n0] = S[n0] + c
  <2>1. n0 \in P
    BY <1>0, <1>3
  <2>2. n0 <= n0 /\ q <= n0
    BY <1>0
  <2> QED BY <2>1, <2>2, Zenon
<1>5. 0 \in Q
  <2>1. n0 + 0 = n0 /\ 0 \in Nat
    BY <1>0
  <2> QED BY <1>4, <2>1
<1>6. ASSUME NEW i \in Q PROVE i + 1 \in Q
  <2>0. i \in Nat /\ i + 1 \in Nat
    OBVIOUS
  <2> SUFFICES ASSUME n0 + (i + 1) <= n1 PROVE T[n0 + (i + 1)] = S[n0] + c
    BY <2>0
  <2>1. n0 + i <= n1 /\ n0 + i \in 0 .. n1 /\ n0 + (i + 1) \in 1 .. n1 /\ (n0 + (i + 1)) - 1 = n0 + i
        /\ n0 + (i + 1) > n0
    BY <1>0, <2>0
  <2>2. T[n0 + i] = S[n0] + c
    BY <2>1
  <2>3. B[n0 + (i + 1)] = 0 /\ T[n0 + (i + 1)] = T[(n0 + (i + 1)) - 1] + B[n0 + (i + 1)]
    BY <2>1 DEF Differ
  <2>4. T[n0 + i] \in Nat
    BY <2>1 DEF Differ
  <2>5. PICK t \in Nat : t = T[n0 + i]
    BY <2>4
  <2>6. t + 0 = t
    OBVIOUS
  <2> HIDE DEF Q
  <2> QED BY <2>1, <2>2, <2>3, <2>5, <2>6
<1>7. Q = Nat
  <2> HIDE DEF Q
  <2>1. Q \in SUBSET Nat
    BY DEF Q
  <2> QED BY <1>5, <1>6, <2>1, Induction
<1>8. n1 - n0 \in Nat /\ n0 + (n1 - n0) = n1 /\ n1 <= n1
  BY <1>0
<1>9. n1 - n0 \in Q
  BY <1>7, <1>8
<1> QED BY <1>8, <1>9

\* Where the words of the message m are, and where c is put in place of 0.
Patched(m, b, k, c) ==
  /\ k \in 1 .. Len(m) /\ k + 1 \in 1 .. Len(m) /\ Len(m) <= Len(b)
  /\ m[k] = 0 /\ m[k + 1] = 0 /\ b[k] + 256 * b[k + 1] = c
  /\ \A i \in 1 .. Len(m) : i # k /\ i # k + 1 => b[i] = m[i]
  /\ \A i \in 1 .. Len(b) : i > Len(m) => b[i] = 0

(* A word more in a message is as much more in its sum. *)
LEMMA PatchedSum ==
  ASSUME NEW m \in Seq(Byte), NEW b \in Seq(Byte), NEW j \in Nat, NEW c \in Nat, Patched(m, b, 2 * j + 1, c)
  PROVE  words_sum(b) = words_sum(m) + c
<1> DEFINE n0 == (Len(m) + 1) \div 2
           n1 == (Len(b) + 1) \div 2
           k == 2 * j + 1
           q == j + 1
           A == [i \in 1 .. n0 |-> WordAt(m, i)]
           B == [i \in 1 .. n1 |-> WordAt(b, i)]
<1>1. PICK l0 \in Nat, l1 \in Nat : l0 = Len(m) /\ l1 = Len(b)
  OBVIOUS
<1>2. k \in 1 .. l0 /\ k + 1 \in 1 .. l0 /\ l0 <= l1
  BY <1>1 DEF Patched
<1>3. /\ n0 \in Nat /\ n1 \in Nat /\ n0 <= n1 /\ q \in 1 .. n0 /\ q \in 1 .. n1 /\ 2 * q = k + 1 /\ 2 * q - 1 = k
      /\ \A i \in 1 .. n0 : i \in 1 .. n1
  BY <1>1, <1>2, SMT
<1>4. \A i \in 1 .. n0 : WordAt(m, i) \in Nat
  <2> SUFFICES ASSUME NEW i \in 1 .. n0 PROVE WordAt(m, i) \in Nat
    OBVIOUS
  <2>1. WordAt(m, i) \in Word
    BY WordAtIsWord
  <2> QED BY <2>1, WordIs, SMT DEF Fits
<1>5. \A i \in 1 .. n1 : WordAt(b, i) \in Nat
  <2> SUFFICES ASSUME NEW i \in 1 .. n1 PROVE WordAt(b, i) \in Nat
    OBVIOUS
  <2>1. WordAt(b, i) \in Word
    BY WordAtIsWord
  <2> QED BY <2>1, WordIs, SMT DEF Fits
<1>6. WordAt(m, q) = 0 /\ WordAt(b, q) = c
  <2>1. 2 * q <= l0 /\ 2 * q <= l1 /\ 2 * q - 1 = k /\ (2 * q - 1) + 1 = k + 1
    BY <1>2, <1>3
  <2>2. WordAt(m, q) = from_host16(m, 2 * q - 1) /\ WordAt(b, q) = from_host16(b, 2 * q - 1)
    BY <1>1, <2>1 DEF WordAt
  <2>3. from_host16(m, k) = m[k] + 256 * m[k + 1] /\ from_host16(b, k) = b[k] + 256 * b[k + 1]
    BY DEF from_host16
  <2>4. m[k] = 0 /\ m[k + 1] = 0 /\ b[k] + 256 * b[k + 1] = c
    BY DEF Patched
  <2> HIDE DEF k, q
  <2>5. m[k] + 256 * m[k + 1] = 0
    BY <2>4
  <2> QED BY <2>1, <2>2, <2>3, <2>4, <2>5
<1>7. ASSUME NEW i \in 1 .. n0, i # q PROVE WordAt(b, i) = WordAt(m, i)
  <2>1. i \in Nat /\ 2 * i - 1 \in 1 .. l0 /\ 2 * i - 1 # k /\ 2 * i - 1 # k + 1 /\ (2 * i - 1) + 1 = 2 * i
        /\ 2 * i # k /\ 2 * i # k + 1 /\ 2 * i >= 1
    BY <1>1, <1>7, SMT
  <2>2. b[2 * i - 1] = m[2 * i - 1]
    BY <1>1, <2>1 DEF Patched
  <2>3. CASE 2 * i <= l0
    <3>1. 2 * i \in 1 .. l0 /\ 2 * i <= l1
      BY <1>2, <2>1, <2>3
    <3>2. b[2 * i] = m[2 * i]
      BY <1>1, <2>1, <3>1 DEF Patched
    <3>3. WordAt(b, i) = from_host16(b, 2 * i - 1) /\ WordAt(m, i) = from_host16(m, 2 * i - 1)
      BY <1>1, <2>3, <3>1 DEF WordAt
    <3> QED BY <2>1, <2>2, <3>2, <3>3, Zenon DEF from_host16
  <2>4. CASE ~(2 * i <= l0)
    <3>1. WordAt(m, i) = m[2 * i - 1]
      BY <1>1, <2>4 DEF WordAt
    <3>2. CASE 2 * i <= l1
      <4>1. 2 * i \in 1 .. l1 /\ 2 * i > l0
        BY <2>1, <2>4, <3>2
      <4>2. b[2 * i] = 0
        BY <1>1, <4>1 DEF Patched
      <4>3. WordAt(b, i) = b[2 * i - 1] + 256 * b[2 * i]
        BY <1>1, <2>1, <3>2 DEF WordAt, from_host16
      <4>4. m[2 * i - 1] \in Byte
        BY <1>1, <2>1, ElementOfSeq
      <4>5. PICK x \in Byte : x = m[2 * i - 1]
        BY <4>4
      <4>6. x + 256 * 0 = x
        BY DEF Byte
      <4> QED BY <2>2, <3>1, <4>2, <4>3, <4>5, <4>6
    <3>3. CASE ~(2 * i <= l1)
      <4>1. WordAt(b, i) = b[2 * i - 1]
        BY <1>1, <3>3 DEF WordAt
      <4> QED BY <2>2, <3>1, <4>1
    <3> QED BY <3>2, <3>3
  <2> QED BY <2>3, <2>4
<1>8. ASSUME NEW i \in 1 .. n1, i > n0 PROVE WordAt(b, i) = 0
  <2>1. i \in Nat /\ 2 * i - 1 \in 1 .. l1 /\ 2 * i - 1 > l0 /\ (2 * i - 1) + 1 = 2 * i /\ 2 * i > l0 /\ 2 * i >= 1
    BY <1>1, <1>8, SMT
  <2>2. b[2 * i - 1] = 0
    BY <1>1, <2>1 DEF Patched
  <2>3. CASE 2 * i <= l1
    <3>1. 2 * i \in 1 .. l1
      BY <2>1, <2>3
    <3>2. b[2 * i] = 0
      BY <1>1, <2>1, <3>1 DEF Patched
    <3>3. WordAt(b, i) = b[2 * i - 1] + 256 * b[2 * i]
      BY <1>1, <2>1, <2>3 DEF WordAt, from_host16
    <3> QED BY <2>2, <3>2, <3>3
  <2>4. CASE ~(2 * i <= l1)
    BY <1>1, <2>2, <2>4 DEF WordAt
  <2> QED BY <2>3, <2>4
<1>9. PICK S : Adds(S, m) /\ words_sum(m) = S[n0]
  BY Summed, SMT
<1>10. PICK T : Adds(T, b) /\ words_sum(b) = T[n1]
  BY Summed, SMT
<1>11. S \in [0 .. n0 -> Nat] /\ S[0] = 0 /\ \A i \in 1 .. n0 : S[i] = S[i - 1] + A[i]
  BY <1>9, Zenon DEF Adds
<1>12. T \in [0 .. n1 -> Nat] /\ T[0] = 0 /\ \A i \in 1 .. n1 : T[i] = T[i - 1] + B[i]
  BY <1>10, Zenon DEF Adds
<1>13. A \in [1 .. n0 -> Nat] /\ B \in [1 .. n1 -> Nat] /\ A[q] = 0 /\ B[q] = c
  <2> HIDE DEF n0, n1, q
  <2> QED BY <1>3, <1>4, <1>5, <1>6, Zenon
<1>14. \A i \in 1 .. n0 : i # q => B[i] = A[i]
  BY <1>3, <1>7, Zenon
<1>15. \A i \in 1 .. n1 : i > n0 => B[i] = 0
  BY <1>8, Zenon
<1> HIDE DEF n0, n1, q, A, B
<1>16. T[n1] = S[n0] + c
  <2>1. q \in Nat /\ 1 <= q /\ q <= n0
    BY <1>3
  <2>2. Differ(n0, n1, q, c, A, B, S, T)
    BY <1>3, <1>11, <1>12, <1>13, <1>14, <1>15, <2>1, Zenon DEF Differ
  <2> QED BY <2>2, SumsDiffer
<1> QED BY <1>9, <1>10, <1>16

(* The checksum over a message with its checksum in it is 0. *)
LEMMA PatchedVerifies ==
  ASSUME NEW m \in Seq(Byte), Len(m) <= MaxMessage, NEW b \in Seq(Byte), NEW j \in Nat,
         Patched(m, b, 2 * j + 1, internet_checksum(m))
  PROVE  internet_checksum(b) = 0
<1> DEFINE n == words_sum(m)
<1>1. Sum(n) /\ internet_checksum(m) = 65535 - Fold(Fold(n)) /\ internet_checksum(m) \in Word
  BY ChecksumIsWord, SMT
<1>2. internet_checksum(m) \in Nat
  BY <1>1, WordIs, SMT DEF Fits
<1>3. words_sum(b) = n + internet_checksum(m)
  BY <1>2, PatchedSum
<1>4. internet_checksum(b) = 65535 - Fold(Fold(words_sum(b)))
  BY SMT DEF internet_checksum, With, Fold
<1>5. Fold(Fold(n + (65535 - Fold(Fold(n))))) = 65535
  BY <1>1, FoldedWithChecksum
<1> HIDE DEF n
<1>6. words_sum(b) = n + (65535 - Fold(Fold(n)))
  BY <1>1, <1>3, SMT
<1> QED BY <1>4, <1>5, <1>6, SMT

(* A word in a message, and zeros behind it. *)
LEMMA Stamped ==
  ASSUME NEW x \in Seq(Byte), NEW y \in Seq(Byte), NEW z, Zeros(z), NEW j \in Nat, Len(x) = 2 * j,
         NEW c \in Word
  PROVE  /\ x \o host16(0) \o y \in Seq(Byte) /\ ((x \o host16(c)) \o y) \o z \in Seq(Byte)
         /\ Patched(x \o host16(0) \o y, ((x \o host16(c)) \o y) \o z, 2 * j + 1, c)
<1> DEFINE u == host16(0)
           v == host16(c)
           m == x \o u \o y
           b == ((x \o v) \o y) \o z
           lx == Len(x)
           ly == Len(y)
           lz == Len(z)
<1>1. /\ u \in Seq(Byte) /\ Len(u) = 2 /\ v \in Seq(Byte) /\ Len(v) = 2 /\ z \in Seq(Byte)
      /\ lx \in Nat /\ ly \in Nat /\ lz \in Nat
  BY ZeroIsWord, HostWord DEF Zeros
<1>2. PICK q \in Byte, r \in Byte : c = 256 * q + r /\ v = <<r, q>>
  BY HostWord
<1>3. u = <<0, 0>>
  BY SMT DEF host16
<1> HIDE DEF u, v
<1>4. m \in Seq(Byte) /\ Len(m) = lx + 2 + ly /\ At(m, 0, x) /\ At(m, lx, u) /\ At(m, lx + 2, y)
  <2>1. Pieces3(x, u, y)
    BY <1>1, Parts3
  <2> QED BY <1>1, <2>1 DEF Pieces3
<1>5. /\ b \in Seq(Byte) /\ Len(b) = lx + 2 + ly + lz
      /\ At(b, 0, x) /\ At(b, lx, v) /\ At(b, lx + 2, y) /\ At(b, lx + 2 + ly, z)
  <2>1. Pieces4(x, v, y, z)
    BY <1>1, Parts4
  <2> QED BY <1>1, <2>1 DEF Pieces4
<1> HIDE DEF m, b
<1>6. lx = 2 * j
  OBVIOUS
<1>7. PICK k, l0, l1 : k = 2 * j + 1 /\ l0 = Len(m) /\ l1 = Len(b)
  OBVIOUS
<1>8. k = lx + 1 /\ k + 1 = lx + 2 /\ k \in Nat /\ l0 = lx + 2 + ly /\ l1 = l0 + lz /\ l0 \in Nat /\ l1 \in Nat
  BY <1>1, <1>4, <1>5, <1>6, <1>7
<1>9. m[k] = 0 /\ m[k + 1] = 0
  <2>1. At(m, lx, <<0, 0>>)
    BY <1>3, <1>4
  <2> QED BY <1>1, <1>8, <2>1, AtByte
<1>10. b[k] = r /\ b[k + 1] = q
  <2>1. At(b, lx, <<r, q>>)
    BY <1>2, <1>5
  <2> QED BY <1>1, <1>8, <2>1, AtByte
<1>11. r + 256 * q = c
  BY <1>2 DEF Byte
<1>12. ASSUME NEW i \in 1 .. l0, i # k, i # k + 1 PROVE b[i] = m[i]
  <2>1. CASE i <= lx
    <3>1. i \in 1 .. lx /\ 0 + i = i
      BY <1>1, <2>1
    <3>2. m[0 + i] = x[i] /\ b[0 + i] = x[i]
      BY <1>4, <1>5, <3>1 DEF At
    <3> QED BY <3>1, <3>2
  <2>2. CASE ~(i <= lx)
    <3>1. PICK n : n = i - (lx + 2)
      OBVIOUS
    <3>2. n \in 1 .. ly /\ (lx + 2) + n = i
      BY <1>1, <1>8, <1>12, <2>2, <3>1
    <3>3. m[(lx + 2) + n] = y[n] /\ b[(lx + 2) + n] = y[n]
      BY <1>4, <1>5, <3>2 DEF At
    <3> QED BY <3>2, <3>3
  <2> QED BY <2>1, <2>2
<1>13. ASSUME NEW i \in 1 .. l1, i > l0 PROVE b[i] = 0
  <2>1. PICK n : n = i - (lx + 2 + ly)
    OBVIOUS
  <2>2. n \in 1 .. lz /\ (lx + 2 + ly) + n = i
    BY <1>1, <1>8, <1>13, <2>1
  <2>3. b[(lx + 2 + ly) + n] = z[n] /\ z[n] = 0
    BY <1>5, <2>2 DEF At, Zeros
  <2> QED BY <2>2, <2>3
<1>14. k \in 1 .. l0 /\ k + 1 \in 1 .. l0 /\ l0 <= l1
  BY <1>1, <1>8
<1>15. Patched(m, b, k, c)
  BY <1>7, <1>9, <1>10, <1>11, <1>12, <1>13, <1>14 DEF Patched
<1> QED BY <1>4, <1>5, <1>7, <1>15 DEF m, b, u, v

(* An ip4 header: ten bytes, the checksum, and the addresses. *)
LEMMA Ip4Bytes ==
  ASSUME NEW h, Ip4Header(h), NEW n \in Nat
  PROVE  \E x \in Seq(Byte), y \in Seq(Byte) :
           Len(x) = 10 /\ \A c \in Word : write_ip4(Ip4With(h, n, c)) = (x \o host16(c)) \o y
<1> DEFINE e == 16 * h.version + h.header_len
           g == 8192 * h.flags + h.frag_off
           p1 == <<e, h.tos>>
           p2 == htons(n)
           p3 == htons(h.id)
           p4 == htons(g)
           p5 == <<h.ttl, h.prot>>
           x == p1 \o p2 \o p3 \o p4 \o p5
           y == h.src_addr \o h.dest_addr
<1>1. /\ h.tos \in Byte /\ h.id \in Word /\ h.ttl \in Byte /\ h.prot \in Byte
      /\ h.src_addr \in Seq(Byte) /\ h.dest_addr \in Seq(Byte)
  BY SMT DEF Ip4Header, Octets
<1>2. e \in Byte
  <2>1. PICK u, v : h.version = u /\ h.header_len = v
    OBVIOUS
  <2>2. u \in 0 .. 15 /\ v \in 0 .. 15
    BY <2>1 DEF Ip4Header
  <2>3. 16 * u + v \in Byte
    BY <2>2, SMT DEF Byte
  <2> QED BY <2>1, <2>3, SMT
<1>3. g \in Nat
  <2>1. PICK u, v : h.flags = u /\ h.frag_off = v
    OBVIOUS
  <2>2. Ip4Header(h) => u \in 0 .. 7 /\ v \in 0 .. 8191
    BY <2>1, SMT DEF Ip4Header
  <2>3. u \in 0 .. 7 /\ v \in 0 .. 8191
    BY <2>2, SMT
  <2>4. 8192 * u + v \in Nat
    BY <2>3, SMT
  <2> QED BY <2>1, <2>4, SMT
<1> HIDE DEF e, g
<1>4. /\ p1 \in Seq(Byte) /\ p2 \in Seq(Byte) /\ p3 \in Seq(Byte) /\ p4 \in Seq(Byte) /\ p5 \in Seq(Byte)
      /\ Len(p1) = 2 /\ Len(p2) = 2 /\ Len(p3) = 2 /\ Len(p4) = 2 /\ Len(p5) = 2
  <2>1. p2 \in Seq(Byte) /\ Len(p2) = 2 /\ p4 \in Seq(Byte) /\ Len(p4) = 2
    BY <1>3, AnyWordBytes
  <2>2. p3 \in Seq(Byte) /\ Len(p3) = 2
    BY <1>1, WordBytes
  <2>3. p1 \in Seq(Byte) /\ p5 \in Seq(Byte) /\ Len(p1) = 2 /\ Len(p5) = 2
    BY <1>1, <1>2, SMT
  <2> HIDE DEF p1, p2, p3, p4, p5
  <2> QED BY <2>1, <2>2, <2>3
<1>5. ASSUME NEW c \in Word PROVE write_ip4(Ip4With(h, n, c)) = (x \o host16(c)) \o h.src_addr \o h.dest_addr
  <2> DEFINE k == Ip4With(h, n, c)
  <2>1. k.version = h.version /\ k.header_len = h.header_len /\ k.tos = h.tos /\ k.total_len = n
        /\ k.id = h.id /\ k.flags = h.flags /\ k.frag_off = h.frag_off /\ k.ttl = h.ttl /\ k.prot = h.prot
        /\ k.checksum = c /\ k.src_addr = h.src_addr /\ k.dest_addr = h.dest_addr
    BY SMT DEF Ip4With
  <2> HIDE DEF k
  <2>2. write_ip4(k) = (x \o host16(c)) \o h.src_addr \o h.dest_addr
    BY <2>1, SMT DEF write_ip4, e, g
  <2> QED BY <2>2 DEF k
<1> HIDE DEF p1, p2, p3, p4, p5
<1>6. x \in Seq(Byte) /\ Len(x) = 10
  <2>1. Pieces5(p1, p2, p3, p4, p5)
    BY <1>4, Parts5
  <2>2. x \in Seq(Byte) /\ Len(x) = Len(p1) + Len(p2) + Len(p3) + Len(p4) + Len(p5)
    BY <2>1 DEF Pieces5
  <2> QED BY <1>4, <2>2
<1> HIDE DEF x
<1>7. y \in Seq(Byte)
  BY <1>1, Joined
<1>8. ASSUME NEW c \in Word PROVE write_ip4(Ip4With(h, n, c)) = (x \o host16(c)) \o y
  <2>1. host16(c) \in Seq(Byte)
    BY HostWord
  <2>2. x \o host16(c) \in Seq(Byte)
    BY <1>6, <2>1, Joined
  <2>3. ((x \o host16(c)) \o h.src_addr) \o h.dest_addr = (x \o host16(c)) \o y
    BY <1>1, <2>2, Regrouped
  <2> QED BY <1>5, <2>3
<1> HIDE DEF y
<1> QED BY <1>6, <1>7, <1>8

\* The message that icmp sends before d: x, the checksum, and y.
IcmpParts(h, d, x, y) ==
  Len(x) = 2 /\ \A c \in Word : write_icmp(IcmpWith(h, c)) \o d = (x \o host16(c)) \o y

(* An icmp message: its type and code, the checksum, and the rest. *)
LEMMA IcmpBytes ==
  ASSUME NEW h, IcmpHeader(h), NEW d \in Seq(Byte)
  PROVE  \E x \in Seq(Byte), y \in Seq(Byte) : IcmpParts(h, d, x, y)
<1> DEFINE x == <<h.type, h.code>>
           p3 == htons(h.sequence)
           p4 == htons(h.id)
           y == (p3 \o p4) \o d
<1>0. h.type \in Byte /\ h.code \in Byte /\ h.sequence \in Word /\ h.id \in Word
  BY DEF IcmpHeader
<1>1. x \in Seq(Byte) /\ p3 \in Seq(Byte) /\ p4 \in Seq(Byte) /\ Len(x) = 2
  BY <1>0, WordBytes
<1>2. ASSUME NEW c \in Word PROVE write_icmp(IcmpWith(h, c)) = x \o host16(c) \o p3 \o p4
  <2> DEFINE k == IcmpWith(h, c)
  <2>1. k.type = h.type /\ k.code = h.code /\ k.checksum = c /\ k.sequence = h.sequence /\ k.id = h.id
    BY SMT DEF IcmpWith
  <2> HIDE DEF k
  <2>2. write_icmp(k) = x \o host16(c) \o p3 \o p4
    BY <2>1, SMT DEF write_icmp
  <2> QED BY <2>2 DEF k
<1> HIDE DEF x, p3, p4
<1>3. p3 \o p4 \in Seq(Byte) /\ y \in Seq(Byte)
  BY <1>1, Joined
<1>4. ASSUME NEW c \in Word PROVE write_icmp(IcmpWith(h, c)) \o d = (x \o host16(c)) \o y
  <2> DEFINE a == x \o host16(c)
  <2>1. host16(c) \in Seq(Byte)
    BY HostWord
  <2>2. a \in Seq(Byte)
    BY <1>1, <2>1, Joined
  <2>3. write_icmp(IcmpWith(h, c)) = (a \o p3) \o p4
    BY <1>2
  <2> HIDE DEF a
  <2>4. (a \o p3) \o p4 = a \o (p3 \o p4)
    BY <1>1, <2>2, Regrouped
  <2>5. (a \o (p3 \o p4)) \o d = a \o y
    BY <1>3, <2>2, Regrouped
  <2> QED BY <2>3, <2>4, <2>5 DEF a
<1> HIDE DEF y
<1>5. IcmpParts(h, d, x, y)
  BY <1>1, <1>4, Zenon DEF IcmpParts
<1> QED BY <1>1, <1>3, <1>5, Zenon

(* Nothing but zeros: no bytes at all. *)
LEMMA NoZeros == Zeros(<<>>)
  BY DEF Zeros

(* The first twenty bytes of what ip4 sends, and whatever follows. *)
LEMMA Ip4Verifies ==
  ASSUME NEW h, Ip4Header(h), h.total_len \in Nat, NEW d \in Seq(Byte), NEW z \in Seq(Byte)
  PROVE  internet_checksum(SubSeq(ip4_send(h, d) \o z, 1, 20)) = 0
<1>1. PICK c \in Word :
        /\ c = internet_checksum(write_ip4(Ip4With(h, h.total_len, 0)))
        /\ \A e : ip4_send(h, e) = write_ip4(Ip4With(h, h.total_len, c)) \o e
  BY Ip4Sends, Zenon
<1>2. PICK x \in Seq(Byte), y \in Seq(Byte) :
        Len(x) = 10 /\ \A e \in Word : write_ip4(Ip4With(h, h.total_len, e)) = (x \o host16(e)) \o y
  BY Ip4Bytes
<1> DEFINE m == (x \o host16(0)) \o y
           w == (x \o host16(c)) \o y
<1>3. m = write_ip4(Ip4With(h, h.total_len, 0)) /\ w = write_ip4(Ip4With(h, h.total_len, c))
  BY <1>2, ZeroIsWord, Zenon
<1>4. m \in Seq(Byte) /\ Len(m) = 20 /\ w \in Seq(Byte) /\ Len(w) = 20
  <2>1. ASSUME NEW e \in Word
        PROVE  LET k == write_ip4(Ip4With(h, h.total_len, e)) IN k \in Seq(Byte) /\ Len(k) = 20
    <3> DEFINE k == Ip4With(h, h.total_len, e)
    <3>1. k.total_len = h.total_len /\ k.checksum = e
      BY SMT DEF Ip4With
    <3>2. Ip4Header(k)
      BY Ip4Fields
    <3> HIDE DEF k
    <3>3. write_ip4(k) \in Seq(Byte) /\ Len(write_ip4(k)) = 20
      BY <3>1, <3>2, Ip4Travels
    <3> QED BY <3>3, Zenon DEF k
  <2> HIDE DEF m, w
  <2> QED BY <1>3, <2>1, ZeroIsWord, Zenon
<1>5. w \o <<>> = w
  <2> HIDE DEF w
  <2> QED BY <1>4
<1>6. Patched(m, w, 2 * 5 + 1, c)
  <2>1. 5 \in Nat /\ Len(x) = 2 * 5
    BY <1>2
  <2>2. Patched(m, w \o <<>>, 2 * 5 + 1, c)
    BY <2>1, NoZeros, Stamped
  <2> HIDE DEF m, w
  <2> QED BY <1>5, <2>2, Zenon
<1> HIDE DEF m, w
<1>7. internet_checksum(w) = 0
  <2>1. Len(m) <= MaxMessage
    BY <1>4, SMT DEF MaxMessage
  <2>2. c = internet_checksum(m)
    BY <1>1, <1>3, Zenon
  <2> QED BY <1>4, <1>6, <2>1, <2>2, PatchedVerifies
<1>8. SubSeq(ip4_send(h, d) \o z, 1, 20) = w
  <2> DEFINE b == (w \o d) \o z
  <2>1. ip4_send(h, d) \o z = b
    BY <1>1, <1>3, Zenon
  <2>2. b \in Seq(Byte) /\ At(b, 0, w)
    <3>1. Pieces3(w, d, z)
      BY <1>4, Parts3
    <3> QED BY <3>1 DEF Pieces3
  <2> HIDE DEF b
  <2>3. Field(b, 0, Len(w)) = w
    BY <1>4, <2>2, AtField
  <2>4. 0 + 1 = 1 /\ 0 + 20 = 20
    OBVIOUS
  <2> QED BY <1>4, <2>1, <2>3, <2>4 DEF Field
<1> QED BY <1>7, <1>8

(* What icmp sends, with the padding behind it. *)
LEMMA IcmpVerifies ==
  ASSUME NEW h, IcmpHeader(h), NEW d \in Payload, NEW z, Zeros(z)
  PROVE  internet_checksum(icmp_send(h, d) \o z) = 0
<1>0. d \in Seq(Byte) /\ Len(d) <= MaxData
  BY SMT DEF Payload
<1>1. PICK c \in Word :
        /\ c = internet_checksum(write_icmp(IcmpWith(h, 0)) \o d)
        /\ icmp_send(h, d) = write_icmp(IcmpWith(h, c)) \o d
  BY IcmpSends, Zenon
<1>2. PICK x \in Seq(Byte), y \in Seq(Byte) : IcmpParts(h, d, x, y)
  BY <1>0, IcmpBytes, Zenon
<1> DEFINE m == (x \o host16(0)) \o y
           w == (x \o host16(c)) \o y
<1>3. m = write_icmp(IcmpWith(h, 0)) \o d /\ w = icmp_send(h, d)
  BY <1>1, <1>2, ZeroIsWord, Zenon DEF IcmpParts
<1>4. 1 \in Nat /\ Len(x) = 2 * 1
  BY <1>2 DEF IcmpParts
<1>5. m \in Seq(Byte) /\ w \o z \in Seq(Byte) /\ Patched(m, w \o z, 2 * 1 + 1, c)
  BY <1>4, Stamped
<1> HIDE DEF m, w
<1>6. Len(m) <= MaxMessage
  <2> DEFINE k == IcmpWith(h, 0)
  <2>1. k.checksum = 0
    BY SMT DEF IcmpWith
  <2>2. IcmpHeader(k)
    BY IcmpFields
  <2> HIDE DEF k
  <2>3. write_icmp(k) \in Seq(Byte) /\ Len(write_icmp(k)) = 8
    BY <1>0, <2>1, <2>2, IcmpTravels, ZeroIsWord, <<>> \in Seq(Byte)
  <2>4. Len(write_icmp(k) \o d) = 8 + Len(d)
    <3>1. Pieces2(write_icmp(k), d)
      BY <1>0, <2>3, Parts2
    <3> QED BY <2>3, <3>1, Zenon DEF Pieces2
  <2>5. Len(d) \in Nat
    BY <1>0, SMT
  <2>6. Len(write_icmp(k) \o d) <= MaxMessage
    BY <1>0, <2>4, <2>5, SMT DEF MaxMessage, MaxData
  <2> QED BY <1>3, <2>6, Zenon DEF k
<1>7. internet_checksum(w \o z) = 0
  <2>1. c = internet_checksum(m)
    BY <1>1, <1>3, Zenon
  <2> QED BY <1>4, <1>5, <1>6, <2>1, PatchedVerifies
<1> QED BY <1>3, <1>7

(* A checksum that is read verifies. *)
LEMMA ChecksumsRead == TripInv /\ data \in Payload => ChecksumVerifies
<1> SUFFICES ASSUME TripInv, data \in Payload, pc = "recv", layers > 0
             PROVE  ChecksumVerifies
  BY Zenon DEF ChecksumVerifies
<1> DEFINE L == Len(stack)
           i == Len(got) + 1
           p == stack[i].p
<1>1. IsStack(stack) /\ \E W : Taken(W)
  BY DEF TripInv, Travelling
<1>2. PICK W : Taken(W)
  BY <1>1, Zenon
<1>3. L \in Nat /\ L > 0
  BY <1>1, StackLen
<1>4. Chain(W, L) /\ Zeros(pad) /\ layers \in 0 .. L /\ Len(got) = L - layers /\ wire = W[layers] \o pad
  BY <1>2, Zenon DEF Taken
<1>5. layers \in 1 .. L /\ i \in 1 .. L /\ L + 1 - layers = i /\ (i = L => layers - 1 = 0)
  BY <1>3, <1>4
<1>6. PICK d, z : d = W[layers - 1] /\ z = pad
  OBVIOUS
<1>7. Sent(i, d, W[layers])
  <2>1. Sent(L + 1 - layers, W[layers - 1], W[layers])
    BY <1>4, <1>5, Zenon DEF Chain
  <2> QED BY <1>5, <1>6, <2>1, Zenon
<1>8. d \in Seq(Byte) /\ W[layers] = send(p, Hdr(i, d), d) /\ Zeros(z) /\ z \in Seq(Byte)
  BY <1>4, <1>6, <1>7, Zenon DEF Sent, Zeros
<1> HIDE DEF i
<1>9. ASSUME p = "ip4" PROVE internet_checksum(SubSeq(wire, 1, 20)) = 0
  <2>1. PICK h : h = stack[i].h
    OBVIOUS
  <2>2. Ip4Header(h)
    <3>1. HeaderOf("ip4", h)
      BY <1>1, <1>5, <1>9, <2>1, Zenon DEF IsStack
    <3> QED BY <3>1 DEF HeaderOf
  <2>3. PICK g : g = Hdr(i, d) /\ g = [h EXCEPT !.total_len = 20 + Len(d)]
    BY <1>9, <2>1, Zenon DEF Hdr, ip4_header
  <2>4. Ip4Header(g) /\ g.total_len = 20 + Len(d)
    BY <2>2, <2>3, Ip4Fields, Zenon
  <2>5. 20 + Len(d) \in Nat
    BY <1>8, SMT
  <2>6. wire = ip4_send(g, d) \o z
    <3>1. send("ip4", g, d) = ip4_send(g, d)
      BY Zenon DEF send
    <3> QED BY <1>4, <1>6, <1>8, <1>9, <2>3, <3>1, Zenon
  <2>7. internet_checksum(SubSeq(ip4_send(g, d) \o z, 1, 20)) = 0
    BY <1>8, <2>4, <2>5, Ip4Verifies, Zenon
  <2> QED BY <2>6, <2>7, Zenon
<1>10. ASSUME p = "icmp" PROVE internet_checksum(wire) = 0
  <2>1. PICK h : h = stack[i].h
    OBVIOUS
  <2>2. IcmpHeader(h)
    <3>1. HeaderOf("icmp", h)
      BY <1>1, <1>5, <1>10, <2>1, Zenon DEF IsStack
    <3> QED BY <3>1 DEF HeaderOf
  <2>3. Hdr(i, d) = h
    <3>1. i = 1 => ~Routed
      BY <1>10 DEF Routed
    <3>2. stack[i].p # "ip4"
      BY <1>10
    <3> QED BY <2>1, <3>1, <3>2, Zenon DEF Hdr
  <2>4. d \in Payload
    <3>1. i = L
      BY <1>1, <1>5, <1>10 DEF IsStack
    <3>2. d = data
      BY <1>4, <1>5, <1>6, <3>1, Zenon DEF Chain
    <3> QED BY <3>2, Zenon
  <2>5. wire = icmp_send(h, d) \o z
    <3>1. send("icmp", h, d) = icmp_send(h, d)
      BY Zenon DEF send
    <3> QED BY <1>4, <1>6, <1>8, <1>10, <2>3, <3>1, Zenon
  <2>6. internet_checksum(icmp_send(h, d) \o z) = 0
    BY <1>8, <2>2, <2>4, IcmpVerifies, Zenon
  <2> QED BY <2>5, <2>6, Zenon
<1> QED BY <1>9, <1>10, Zenon DEF ChecksumVerifies, i

(* Whatever data that fit a datagram travel, and however many zeros an     *)
(* interface adds to the frame: the checksums ip4 and icmp have sent       *)
(* verify when they are read.  The data of a frame always fit.             *)
THEOREM ChecksumsVerify == Spec => [](data \in Payload => ChecksumVerifies)
<1>1. TripInv /\ [Next]_vars => TripInv'
  BY TripKept
<1> QED BY <1>1, TripStarts, ChecksumsRead, PTL DEF Spec

-----------------------------------------------------------------------------
(* What the analyzer shows *)

\* The line shows what the protocols s have sent.
Shows(s, line) ==
  LET e == s[1].h
      p == s[2].p
      h == s[2].h
      ip(addr) == IF h.prot_type = ethertype_ip4 THEN addr ELSE <<>>
  IN  /\ line[1].src = e.src_addr /\ line[1].carries = e.prot
      /\ Len(line) = IF p = "ptp" THEN 1 ELSE 2
      /\ p = "ip4" => /\ line[2].src = h.src_addr /\ line[2].dest = h.dest_addr
                      /\ line[2].prot = p /\ line[2].carries = h.prot
      /\ (p = "arp" /\ Len(h.sender_prot) = 4 /\ Len(h.sender_hard) = 6) =>
                      /\ line[2].prot = p
                      /\ IF h.op = arp_request THEN line[2].asks = ip(h.target_prot)
                         ELSE line[2].ip = ip(h.sender_prot) /\ line[2].is = h.sender_hard

(* The first line, and what is shown of ptp, arp and ip4. *)
LEMMA LinesOf ==
  ASSUME NEW g, NEW b
  PROVE  LET first == [prot |-> "ether2", src |-> g.src_addr, dest |-> g.dest_addr, carries |-> g.prot]
             lines == my_recv_ether2(g, b)
         IN  /\ lines[1].src = g.src_addr /\ lines[1].carries = g.prot
             /\ g.prot \notin {ethertype_arp, ethertype_ip4} => Len(lines) = 1
             /\ g.prot = ethertype_arp => Len(lines) = 2 /\ lines[2] = my_recv_arp(extract_arp(b)[1])
             /\ g.prot = ethertype_ip4 => Len(lines) = 2 /\ lines[2] = my_recv_ip4(extract_ip4(b)[1])
<1> DEFINE first == [prot |-> "ether2", src |-> g.src_addr, dest |-> g.dest_addr, carries |-> g.prot]
           arp == my_recv_arp(extract_arp(b)[1])
           ip4 == my_recv_ip4(extract_ip4(b)[1])
           rest == CASE g.prot = ethertype_arp -> <<arp>> [] g.prot = ethertype_ip4 -> <<ip4>> [] OTHER -> <<>>
           lines == my_recv_ether2(g, b)
<1>0. first.src = g.src_addr /\ first.carries = g.prot
  OBVIOUS
<1>1. lines = <<first>> \o rest
  BY Zenon DEF my_recv_ether2
<1>2. ethertype_arp # ethertype_ip4
  BY SMT DEF ethertype_arp, ethertype_ip4
<1>3. /\ g.prot = ethertype_arp => rest = <<arp>>
      /\ g.prot = ethertype_ip4 => rest = <<ip4>>
      /\ g.prot \notin {ethertype_arp, ethertype_ip4} => rest = <<>>
  <2> HIDE DEF arp, ip4
  <2> QED BY <1>2
<1> HIDE DEF first, arp, ip4, rest, lines
<1>4. \A x : LET s == <<first>> \o <<x>> IN Len(s) = 2 /\ s[1] = first /\ s[2] = x
  OBVIOUS
<1>5. LET s == <<first>> \o <<>> IN Len(s) = 1 /\ s[1] = first
  OBVIOUS
<1>6. lines[1] = first
  BY <1>1, <1>3, <1>4, <1>5
<1>7. /\ g.prot \notin {ethertype_arp, ethertype_ip4} => Len(lines) = 1
      /\ g.prot = ethertype_arp => Len(lines) = 2 /\ lines[2] = arp
      /\ g.prot = ethertype_ip4 => Len(lines) = 2 /\ lines[2] = ip4
  BY <1>1, <1>3, <1>4, <1>5
<1> QED BY <1>0, <1>6, <1>7 DEF arp, ip4, lines

(* What is shown of a frame, whose headers are those of its protocols. *)
LEMMA ParsedLines ==
  ASSUME NEW g, Ether2Header(g), NEW d \in Seq(Byte), NEW z \in Seq(Byte)
  PROVE  parse_prots(ether2_send(g, d) \o z) = my_recv_ether2(g, d \o z)
<1> DEFINE b == ether2_send(g, d) \o z
<1>1. extract_ether2(b) = <<g, 14>> /\ drop(b, 14) = d \o z
  BY Ether2Travels
<1> HIDE DEF b
<1>2. extract_ether2(b)[1] = g /\ extract_ether2(b)[2] = 14
  BY <1>1, SMT
<1>3. parse_prots(b) = my_recv_ether2(extract_ether2(b)[1], drop(b, extract_ether2(b)[2]))
  BY Zenon DEF parse_prots
<1> QED BY <1>1, <1>2, <1>3, Zenon DEF b

(* An ip4 packet, read. *)
LEMMA Ip4Line ==
  ASSUME NEW h, Ip4Header(h), h.total_len \in Nat, NEW d \in Seq(Byte), NEW z \in Seq(Byte)
  PROVE  LET line == my_recv_ip4(extract_ip4(ip4_send(h, d) \o z)[1])
         IN  /\ line.prot = "ip4" /\ line.src = h.src_addr /\ line.dest = h.dest_addr /\ line.carries = h.prot
<1>1. PICK c \in Word : ip4_send(h, d) = write_ip4(Ip4With(h, h.total_len, c)) \o d
  BY Ip4Sends, Zenon
<1> DEFINE k == Ip4With(h, h.total_len, c)
<1>2. k.total_len = h.total_len /\ k.checksum = c /\ k.src_addr = h.src_addr /\ k.dest_addr = h.dest_addr
      /\ k.prot = h.prot
  BY SMT DEF Ip4With
<1>3. Ip4Header(k)
  BY Ip4Fields
<1> HIDE DEF k
<1>4. PICK n : extract_ip4((write_ip4(k) \o d) \o z) = <<Ip4Read(k, n), 20>>
  BY <1>2, <1>3, Ip4Travels
<1> DEFINE r == Ip4Read(k, n)
<1>5. r.src_addr = k.src_addr /\ r.dest_addr = k.dest_addr /\ r.prot = k.prot
  BY SMT DEF Ip4Read
<1> HIDE DEF r
<1>6. extract_ip4(ip4_send(h, d) \o z)[1] = r
  <2>1. extract_ip4(ip4_send(h, d) \o z) = <<r, 20>>
    BY <1>1, <1>4, Zenon DEF k, r
  <2> QED BY <2>1, SMT
<1>7. LET line == my_recv_ip4(r)
      IN  line.prot = "ip4" /\ line.src = r.src_addr /\ line.dest = r.dest_addr /\ line.carries = r.prot
  BY SMT DEF my_recv_ip4
<1> QED BY <1>2, <1>5, <1>6, <1>7, Zenon

(* All of a sequence. *)
LEMMA WholeOf ==
  ASSUME NEW o \in Seq(Byte)
  PROVE  SubSeq(o, 1, Len(o)) = o
OBVIOUS

(* An arp packet, read. *)
LEMMA ArpLine ==
  ASSUME NEW h, ArpHeader(h), h.op \in {arp_request, arp_reply}, NEW z \in Seq(Byte)
  PROVE  LET line == my_recv_arp(extract_arp(arp_send(h) \o z)[1])
         IN  /\ line.prot = "arp"
             /\ IF h.op = arp_request THEN line.asks = ip_in(h, h.target_prot)
                ELSE line.ip = ip_in(h, h.sender_prot) /\ line.is = mac_in(h.sender_hard)
<1>1. extract_arp(arp_send(h) \o z)[1] = h
  BY ArpTravels
<1>2. arp_request # arp_reply
  BY DEF arp_request, arp_reply
<1> DEFINE line == my_recv_arp(h)
<1>3. CASE h.op = arp_request
  <2>1. line = [prot |-> "arp", asks |-> ip_in(h, h.target_prot)]
    BY <1>2, <1>3 DEF my_recv_arp
  <2> HIDE DEF line
  <2>2. line.prot = "arp" /\ line.asks = ip_in(h, h.target_prot)
    BY <2>1
  <2> QED BY <1>1, <1>3, <2>2 DEF line
<1>4. CASE h.op = arp_reply
  <2>1. line = [prot |-> "arp", ip |-> ip_in(h, h.sender_prot), is |-> mac_in(h.sender_hard)]
    BY <1>2, <1>4 DEF my_recv_arp
  <2> HIDE DEF line
  <2>2. line.prot = "arp" /\ line.ip = ip_in(h, h.sender_prot) /\ line.is = mac_in(h.sender_hard)
    BY <2>1
  <2> QED BY <1>1, <1>2, <1>4, <2>2 DEF line
<1> QED BY <1>3, <1>4

(* What the analyzer makes of a frame on the medium. *)
LEMMA MediumShows ==
  ASSUME TripInv, data \in Payload, pc = "send", layers = Len(stack), stack[1].p = "ether2",
         NEW z \in Seq(Byte)
  PROVE  Shows(stack, parse_prots(wire \o z))
<1> DEFINE L == Len(stack)
<1>1. PICK W : Chain(W, L) /\ wire = W[L]
  BY Zenon DEF TripInv, Travelling
<1>2. IsStack(stack)
  BY DEF TripInv
<1>3. L \in Nat /\ L > 0
  BY <1>2, StackLen
<1>4. 1 \in 1 .. L
  BY <1>3
<1>5. /\ L > 1 /\ stack[2].p \in {"arp", "ip4", "ptp"}
      /\ stack[2].p = "arp" => stack[1].h.prot = ethertype_arp /\ stack[2].h.op \in {arp_request, arp_reply}
      /\ stack[2].p = "ip4" => stack[1].h.prot = ethertype_ip4
      /\ stack[2].p = "ptp" => stack[1].h.prot \notin {ethertype_arp, ethertype_ip4}
  BY <1>2, <1>4, Zenon DEF IsStack
<1>6. 2 \in 1 .. L /\ L \in 1 .. L /\ L - 1 \in 1 .. L /\ L + 1 - L = 1 /\ L + 1 - (L - 1) = 2
  BY <1>3, <1>5
<1>7. PICK d, c : d = W[L - 1] /\ c = W[(L - 1) - 1]
  OBVIOUS
<1>8. Sent(1, d, wire) /\ Sent(2, c, d)
  <2>1. Sent(L + 1 - L, W[L - 1], W[L]) /\ Sent(L + 1 - (L - 1), W[(L - 1) - 1], W[L - 1])
    BY <1>1, <1>6, Zenon DEF Chain
  <2> QED BY <1>1, <1>6, <1>7, <2>1, Zenon
<1>9. HeaderOf(stack[1].p, stack[1].h) /\ HeaderOf(stack[2].p, stack[2].h)
  BY <1>2, <1>4, <1>6, Zenon DEF IsStack
<1>10. PICK e, p, h, g : e = stack[1].h /\ p = stack[2].p /\ h = stack[2].h /\ g = Hdr(1, d)
  OBVIOUS
<1>11. Ether2Header(e)
  BY <1>9, <1>10, Zenon DEF HeaderOf
<1>12. Ether2Header(g) /\ g.src_addr = e.src_addr /\ g.prot = e.prot
  <2>0. stack[1].p # "ip4"
    OBVIOUS
  <2>1. CASE Routed
    <3>1. PICK x : x = Hop(d) /\ x \in Octets(6)
      <4>1. IsTable(table) /\ Hop(d) # NoHop
        BY <1>8, <2>1, Zenon DEF TripInv, Sent
      <4> QED BY <4>1, HopKnown
    <3>2. g = [e EXCEPT !.dest_addr = x]
      BY <1>10, <2>0, <2>1, <3>1, Zenon DEF Hdr
    <3>3. e = [dest_addr |-> e.dest_addr, src_addr |-> e.src_addr, prot |-> e.prot]
          /\ e.src_addr \in Octets(6) /\ e.prot \in Word
      BY <1>11, Zenon DEF Ether2Header
    <3>4. g = [dest_addr |-> x, src_addr |-> e.src_addr, prot |-> e.prot]
      BY <3>2, <3>3, SMT
    <3>5. g.dest_addr = x /\ g.src_addr = e.src_addr /\ g.prot = e.prot
      BY <3>4, SMT
    <3> QED BY <3>1, <3>3, <3>4, <3>5, Zenon DEF Ether2Header
  <2>2. CASE ~Routed
    <3>1. g = e
      BY <1>10, <2>0, <2>2, Zenon DEF Hdr
    <3> QED BY <1>11, <3>1, Zenon
  <2> QED BY <2>1, <2>2
<1>13. d \in Seq(Byte) /\ c \in Seq(Byte) /\ wire = ether2_send(g, d)
  <2>1. send("ether2", g, d) = ether2_send(g, d)
    BY Zenon DEF send
  <2>2. wire = send("ether2", g, d) /\ d \in Seq(Byte) /\ c \in Seq(Byte)
    BY <1>8, <1>10, Zenon DEF Sent
  <2> QED BY <2>1, <2>2, Zenon
<1> DEFINE lines == my_recv_ether2(g, d \o z)
<1>14. parse_prots(wire \o z) = lines
  BY <1>12, <1>13, ParsedLines, Zenon
<1>15. /\ lines[1].src = e.src_addr /\ lines[1].carries = e.prot
       /\ e.prot \notin {ethertype_arp, ethertype_ip4} => Len(lines) = 1
       /\ e.prot = ethertype_arp => Len(lines) = 2 /\ lines[2] = my_recv_arp(extract_arp(d \o z)[1])
       /\ e.prot = ethertype_ip4 => Len(lines) = 2 /\ lines[2] = my_recv_ip4(extract_ip4(d \o z)[1])
  BY <1>12, LinesOf, Zenon
<1> HIDE DEF lines
<1>16. ASSUME p = "ip4"
       PROVE  /\ Len(lines) = 2 /\ lines[2].src = h.src_addr /\ lines[2].dest = h.dest_addr
              /\ lines[2].prot = "ip4" /\ lines[2].carries = h.prot
  <2>1. Ip4Header(h)
    BY <1>9, <1>10, <1>16, Zenon DEF HeaderOf
  <2>2. PICK f : f = Hdr(2, c) /\ f = [h EXCEPT !.total_len = 20 + Len(c)]
    BY <1>10, <1>16, Zenon DEF Hdr, ip4_header
  <2>3. Ip4Header(f) /\ f.total_len = 20 + Len(c)
    BY <2>1, <2>2, Ip4Fields, Zenon
  <2>4. 20 + Len(c) \in Nat
    BY <1>13, SMT
  <2>5. f.src_addr = h.src_addr /\ f.dest_addr = h.dest_addr /\ f.prot = h.prot
    <3>1. h = [version |-> h.version, header_len |-> h.header_len, tos |-> h.tos, total_len |-> h.total_len,
           id |-> h.id, flags |-> h.flags, frag_off |-> h.frag_off, ttl |-> h.ttl, prot |-> h.prot,
           checksum |-> h.checksum, src_addr |-> h.src_addr, dest_addr |-> h.dest_addr]
      BY <2>1, SMT DEF Ip4Header
    <3> QED BY <2>2, <3>1, SMT
  <2>6. d = ip4_send(f, c)
    <3>1. send("ip4", f, c) = ip4_send(f, c)
      BY Zenon DEF send
    <3> QED BY <1>8, <1>10, <1>16, <2>2, <3>1, Zenon DEF Sent
  <2>7. LET line == my_recv_ip4(extract_ip4(d \o z)[1])
        IN  /\ line.prot = "ip4" /\ line.src = f.src_addr /\ line.dest = f.dest_addr /\ line.carries = f.prot
    <3>1. f.total_len \in Nat
      BY <2>3, <2>4
    <3>2. LET line == my_recv_ip4(extract_ip4(ip4_send(f, c) \o z)[1])
          IN  /\ line.prot = "ip4" /\ line.src = f.src_addr /\ line.dest = f.dest_addr /\ line.carries = f.prot
      BY <1>13, <2>3, <3>1, Ip4Line, Zenon
    <3> QED BY <2>6, <3>2, Zenon
  <2>8. Len(lines) = 2 /\ lines[2] = my_recv_ip4(extract_ip4(d \o z)[1])
    BY <1>5, <1>10, <1>15, <1>16, Zenon
  <2> QED BY <2>5, <2>7, <2>8, Zenon
<1>17. ASSUME p = "arp"
       PROVE  /\ Len(lines) = 2 /\ lines[2].prot = "arp"
              /\ IF h.op = arp_request THEN lines[2].asks = ip_in(h, h.target_prot)
                 ELSE lines[2].ip = ip_in(h, h.sender_prot) /\ lines[2].is = mac_in(h.sender_hard)
  <2>1. ArpHeader(h) /\ h.op \in {arp_request, arp_reply}
    BY <1>5, <1>9, <1>10, <1>17, Zenon DEF HeaderOf
  <2>2. Hdr(2, c) = h
    <3>1. stack[2].p # "ip4" /\ 2 # 1
      BY <1>10, <1>17
    <3> QED BY <1>10, <3>1, Zenon DEF Hdr
  <2>3. d = arp_send(h)
    <3>1. send("arp", h, c) = arp_send(h)
      BY Zenon DEF send
    <3> QED BY <1>8, <1>10, <1>17, <2>2, <3>1, Zenon DEF Sent
  <2>4. LET line == my_recv_arp(extract_arp(d \o z)[1])
        IN  /\ line.prot = "arp"
            /\ IF h.op = arp_request THEN line.asks = ip_in(h, h.target_prot)
               ELSE line.ip = ip_in(h, h.sender_prot) /\ line.is = mac_in(h.sender_hard)
    BY <2>1, <2>3, ArpLine, Zenon
  <2>5. Len(lines) = 2 /\ lines[2] = my_recv_arp(extract_arp(d \o z)[1])
    BY <1>5, <1>10, <1>15, <1>17, Zenon
  <2> QED BY <2>4, <2>5, Zenon
<1>18. p = "ptp" => Len(lines) = 1
  BY <1>5, <1>10, <1>15, Zenon
<1>19. p \in {"arp", "ip4", "ptp"} /\ "ip4" # "ptp" /\ "arp" # "ptp" /\ "arp" # "ip4"
  BY <1>5, <1>10
<1>20. ASSUME p = "arp", Len(h.sender_prot) = 4, Len(h.sender_hard) = 6
       PROVE  /\ mac_in(h.sender_hard) = h.sender_hard
              /\ \A addr \in {h.sender_prot, h.target_prot} :
                   ip_in(h, addr) = IF h.prot_type = ethertype_ip4 THEN addr ELSE <<>>
  <2>1. ArpHeader(h)
    BY <1>9, <1>10, <1>20, Zenon DEF HeaderOf
  <2>2. /\ h.sender_hard \in Octets(6) /\ h.sender_prot \in Octets(4) /\ h.target_prot \in Octets(4)
    BY <1>20, <2>1 DEF ArpHeader, Octets
  <2>3. \A o \in Octets(6) : SubSeq(o, 1, 6) = o
    BY WholeOf DEF Octets
  <2>4. \A o \in Octets(4) : SubSeq(o, 1, 4) = o
    BY WholeOf DEF Octets
  <2> QED BY <2>2, <2>3, <2>4, Zenon DEF mac_in, ip_in
<1>21. Shows(stack, lines)
  BY <1>10, <1>15, <1>16, <1>17, <1>18, <1>19, <1>20, Zenon DEF Shows
<1> QED BY <1>14, <1>21, Zenon

\* What is sent for dns goes through its protocols.
ShownInv ==
  /\ IsSeq(shown)
  /\ kind # "frame" => (pc = "send" \/ shown # <<>> => stack = DnsStack)

(* The analyzer shows what the protocols have sent. *)
LEMMA Shown ==
  AnalyzerShowsTheSender <=> (shown # <<>> => Shows(stack, Last(shown)))
BY Zenon DEF AnalyzerShowsTheSender, Shows

(* What the steps do to the stack and to what is shown. *)
LEMMA StepsShow ==
  ASSUME [Next]_vars
  PROVE  \/ \E padded, attached \in BOOLEAN : my_handler(padded, attached)
         \/ /\ stack' = stack /\ shown' = shown
            /\ pc' = "send" => pc = "send"
         \/ /\ pc \in {"load", "serve"} /\ stack' = DnsStack /\ shown' = shown
<1>1. CASE UNCHANGED vars
  BY <1>1 DEF vars, travel
<1>2. CASE send_layer
  BY <1>2 DEF send_layer
<1>3. CASE recv_layer
  BY <1>3 DEF recv_layer
<1>4. CASE \E padded, attached \in BOOLEAN : my_handler(padded, attached)
  BY <1>4
<1>5. CASE load_record
  BY <1>5 DEF load_record, travel
<1>6. CASE \E ad, cd \in {0, 1} : send_request(ad, cd) \/ \E junk \in SoaJunk : serve(ad, cd, junk)
  <2>1. PICK m : Hand(m) /\ pc \in {"load", "serve"} /\ shown' = shown
    BY <1>6, Zenon DEF send_request, serve
  <2> QED BY <2>1 DEF Hand
<1>7. CASE serve_other
  <2>1. PICK m : Hand(m) /\ pc = "serve" /\ shown' = shown
    BY <1>7, Zenon DEF serve_other
  <2> QED BY <2>1 DEF Hand
<1>8. CASE serve_terminates \/ read_answer
  BY <1>8 DEF serve_terminates, read_answer, travel
<1>9. CASE scan \/ \E delay \in BOOLEAN : arp_scanner_main(delay)
  <2>1. pc' # "send" /\ stack' = stack /\ shown' = shown
    BY <1>9 DEF scan, arp_scanner_main, travel
  <2> QED BY <2>1
<1>10. CASE str_to_ptp_endpoint \/ read_mac_addr \/ str_to_octet \/ str_to_ptp_action
  <2>1. pc' # "send" /\ stack' = stack /\ shown' = shown
    BY <1>10 DEF str_to_ptp_endpoint, read_mac_addr, str_to_octet, str_to_ptp_action, Read, Invalid, travel
  <2> QED BY <2>1
<1>11. CASE dns_client_main \/ \E interval \in BOOLEAN : ping_main(interval)
  <2>1. pc' # "send" /\ stack' = stack /\ shown' = shown
    BY <1>11 DEF dns_client_main, ping_main, Read, Invalid, travel
  <2> QED BY <2>1
<1>12. CASE finished
  BY <1>12 DEF finished, vars, travel
<1>13. CASE Beyond
  BY <1>13 DEF Beyond, send_overruns, recv_truncates, serve_overruns, travel
<1> QED BY <1>1, <1>2, <1>3, <1>4, <1>5, <1>6, <1>7, <1>8, <1>9, <1>10, <1>11, <1>12, <1>13 DEF Next, Beyond

(* Whatever happens, what has been shown stays what was sent. *)
LEMMA ShownKept ==
  ASSUME TripInv, ShownInv, [Next]_vars
  PROVE  /\ ShownInv'
         /\ data \in Payload /\ AnalyzerShowsTheSender => AnalyzerShowsTheSender'
<1>0. kind' = kind
  BY KindKept
<1>1. CASE \E padded, attached \in BOOLEAN : my_handler(padded, attached)
  <2>1. PICK padded \in BOOLEAN, attached \in BOOLEAN : my_handler(padded, attached)
    BY <1>1
  <2>2. PICK z, b : z = pad' /\ b = wire'
    OBVIOUS
  <2>3. /\ pc = "send" /\ layers = Len(stack) /\ stack' = stack /\ wire' = wire \o pad' /\ pc' = "recv"
        /\ shown' = IF stack[1].p = "ether2" THEN sniffer_recv(shown, b, attached) ELSE shown
    BY <2>1, <2>2 DEF my_handler
  <2>4. IsSeq(shown)
    BY DEF ShownInv
  <2>5. CASE stack[1].p = "ether2" /\ attached
    <3>1. PICK s, x : s = shown /\ x = parse_prots(b)
      OBVIOUS
    <3>2. shown' = Append(s, x)
      BY <2>3, <2>5, <3>1, Zenon DEF sniffer_recv, handle_sniff
    <3>3. /\ Len(s) \in Nat /\ Len(Append(s, x)) = Len(s) + 1 /\ IsSeq(Append(s, x))
          /\ Append(s, x)[Len(s) + 1] = x
      BY <2>4, <3>1, Appended
    <3>4. PICK t : t = Append(s, x)
      OBVIOUS
    <3>5. IsSeq(t) /\ Last(t) = x
      BY <3>3, <3>4, Zenon DEF Last
    <3>6. IsSeq(shown)' /\ Last(shown)' = x
      BY <3>2, <3>4, <3>5, Zenon DEF IsSeq, Last
    <3>7. ShownInv'
      <4>1. kind # "frame" => stack = DnsStack
        BY <2>3 DEF ShownInv
      <4> QED BY <1>0, <2>3, <3>6, <4>1, Zenon DEF ShownInv
    <3>8. ASSUME data \in Payload PROVE AnalyzerShowsTheSender'
      <4>1. z \in Seq(Byte)
        <5>1. TripInv'
          BY TripKept
        <5>2. data' = data
          BY <2>1 DEF my_handler
        <5>3. (\E W : Taken(W))'
          BY <2>3, <3>8, <5>1, <5>2, Zenon DEF TripInv, Travelling
        <5>4. pad' \in Seq(Byte)
          BY <5>3, Zenon DEF Taken, Zeros
        <5> QED BY <2>2, <5>4
      <4>2. b = wire \o z
        BY <2>2, <2>3
      <4>3. Shows(stack, x)
        BY <2>3, <2>5, <3>1, <3>8, <4>1, <4>2, MediumShows, Zenon
      <4>4. Shows(stack, Last(shown))'
        BY <2>3, <3>6, <4>3, Zenon DEF Shows
      <4>5. (AnalyzerShowsTheSender <=> (shown # <<>> => Shows(stack, Last(shown))))'
        BY Shown, PTL
      <4> QED BY <4>4, <4>5
    <3> QED BY <3>7, <3>8
  <2>6. CASE ~(stack[1].p = "ether2" /\ attached)
    <3>1. shown' = shown
      BY <2>3, <2>6, Zenon DEF sniffer_recv
    <3>2. kind # "frame" => stack = DnsStack
      BY <2>3 DEF ShownInv
    <3>3. ShownInv'
      BY <1>0, <2>3, <2>4, <3>1, <3>2, Zenon DEF ShownInv, IsSeq
    <3> QED BY <2>3, <3>1, <3>3, Zenon DEF AnalyzerShowsTheSender, Last
  <2> QED BY <2>5, <2>6
<1>2. CASE stack' = stack /\ shown' = shown /\ (pc' = "send" => pc = "send")
  <2>1. ShownInv'
    BY <1>0, <1>2, Zenon DEF ShownInv, IsSeq
  <2> QED BY <1>2, <2>1, Zenon DEF AnalyzerShowsTheSender, Last
<1>3. CASE pc \in {"load", "serve"} /\ stack' = DnsStack /\ shown' = shown
  <2>1. kind # "frame"
    BY <1>3 DEF TripInv
  <2>2. ShownInv'
    BY <1>0, <1>3, <2>1, Zenon DEF ShownInv, IsSeq
  <2>3. shown # <<>> => stack' = stack
    BY <1>3, <2>1, Zenon DEF ShownInv
  <2> QED BY <1>3, <2>2, <2>3, Zenon DEF AnalyzerShowsTheSender, Last
<1> QED BY <1>1, <1>2, <1>3, StepsShow

(* Nothing is shown at first. *)
LEMMA NothingShown == Init => ShownInv /\ AnalyzerShowsTheSender
BY DEF Init, ShownInv, IsSeq, AnalyzerShowsTheSender

(* An analyzer shows of every frame on the medium what its sender put      *)
(* there.                                                                  *)
THEOREM AnalyzerShowsFrames == Spec => [](kind = "frame" => AnalyzerShowsTheSender)
<1> DEFINE Inv == TripInv /\ ShownInv /\ (kind = "frame" => AnalyzerShowsTheSender)
<1>1. Init => Inv
  BY TripStarts, NothingShown
<1>2. Inv /\ [Next]_vars => Inv'
  <2>1. TripInv /\ kind = "frame" => data \in Payload
    BY DEF TripInv
  <2>2. [Next]_vars => (kind' = kind)
    BY KindKept
  <2> QED BY <2>1, <2>2, TripKept, ShownKept
<1> QED BY <1>1, <1>2, PTL DEF Spec

(* And of the frames with dns messages, as long as these fit a datagram.   *)
THEOREM AnalyzerShowsWhatFits == Spec /\ [](data \in Payload) => []AnalyzerShowsTheSender
<1> DEFINE Inv == TripInv /\ ShownInv /\ AnalyzerShowsTheSender
<1>1. Init => Inv
  BY TripStarts, NothingShown
<1>2. Inv /\ data \in Payload /\ [Next]_vars => Inv'
  BY TripKept, ShownKept
<1> QED BY <1>1, <1>2, PTL DEF Spec

-----------------------------------------------------------------------------
(* The records of the dns server *)

\* Record i of the file answers for the name w and type t.
Has(i, t, w) == file[i].type = t /\ file[i].name = w /\ file[i].val # <<>>

\* The last of the first n records that does.
LastOf(n, t, w, i) == i \in 1 .. n /\ Has(i, t, w) /\ \A j \in 1 .. n : Has(j, t, w) => j <= i

(***************************************************************************)
(* A search of the database finds a name, of a type, if and only if a      *)
(* record of it has been loaded, with the value of the last one: not the   *)
(* names that merely begin another.                                        *)
(***************************************************************************)
DatabaseFinds ==
  \A t \in {a_type, mx_type} : \A w :
    /\ search_record(db[t], w).found <=> \E i \in 1 .. loaded : Has(i, t, w)
    /\ \A i : LastOf(loaded, t, w, i) => search_record(db[t], w).key = file[i].val

\* The trie has word w with this key.
Key(trie, w, key) == contains_word(trie, w) /\ trie[w].key = key

\* A trie has its root, and its nodes are marked or not.
IsTrie(trie) == <<>> \in DOMAIN trie /\ \A w \in DOMAIN trie : trie[w].marked \in BOOLEAN

(* What adding a word changes. *)
LEMMA WordAdded ==
  ASSUME NEW trie, IsTrie(trie), NEW word \in Seq(Byte) \ {<<>>}, NEW key
  PROVE  /\ IsTrie(add_word(trie, word, key)) /\ Key(add_word(trie, word, key), word, key)
         /\ \A w : w # word => /\ contains_word(add_word(trie, word, key), w) <=> contains_word(trie, w)
                               /\ \A k : Key(add_word(trie, word, key), w, k) <=> Key(trie, w, k)
<1> DEFINE D == DOMAIN trie \cup {SubSeq(word, 1, k) : k \in 1 .. Len(word)}
           T == add_word(trie, word, key)
<1>1. word \in D
  <2>1. Len(word) \in 1 .. Len(word) /\ SubSeq(word, 1, Len(word)) = word
    OBVIOUS
  <2> QED BY <2>1
<1> HIDE DEF D
<1>2. /\ DOMAIN T = D
      /\ \A w \in D : T[w] = IF w = word THEN trie_node(TRUE, key)
                             ELSE IF w \in DOMAIN trie THEN trie[w] ELSE trie_node(FALSE, <<>>)
  BY Zenon DEF add_word, D
<1>3. \A m, k : trie_node(m, k).marked = m /\ trie_node(m, k).key = k
  BY SMT DEF trie_node
<1>4. DOMAIN trie \subseteq D
  BY DEF D
<1> HIDE DEF T
<1>5. IsTrie(T)
  <2>1. <<>> \in DOMAIN T
    BY <1>2, <1>4, Zenon DEF IsTrie
  <2>2. ASSUME NEW w \in DOMAIN T PROVE T[w].marked \in BOOLEAN
    <3>1. T[w] = trie_node(TRUE, key) \/ T[w] = trie_node(FALSE, <<>>) \/ (w \in DOMAIN trie /\ T[w] = trie[w])
      BY <1>2, Zenon
    <3>2. T[w].marked = TRUE \/ T[w].marked = FALSE \/ (w \in DOMAIN trie /\ T[w].marked = trie[w].marked)
      BY <1>3, <3>1, Zenon
    <3> QED BY <3>2, Zenon DEF IsTrie
  <2> QED BY <2>1, <2>2, Zenon DEF IsTrie
<1>6. Key(T, word, key)
  <2>1. word \in DOMAIN T /\ T[word] = trie_node(TRUE, key)
    BY <1>1, <1>2, Zenon
  <2>2. trie_node(TRUE, key).marked /\ trie_node(TRUE, key).key = key
    BY SMT DEF trie_node
  <2> QED BY <2>1, <2>2, Zenon DEF Key, contains_word
<1>7. ASSUME NEW w, w # word
      PROVE  /\ contains_word(T, w) <=> contains_word(trie, w)
             /\ \A k : Key(T, w, k) <=> Key(trie, w, k)
  <2>1. CASE w \in DOMAIN trie
    <3>1. w \in DOMAIN T /\ T[w] = trie[w]
      BY <1>2, <1>4, <1>7, <2>1, Zenon
    <3> QED BY <2>1, <3>1, Zenon DEF Key, contains_word
  <2>2. CASE w \notin DOMAIN trie
    <3>1. ~contains_word(trie, w)
      BY <2>2, Zenon DEF contains_word
    <3>2. w \in DOMAIN T => T[w] = trie_node(FALSE, <<>>)
      BY <1>2, <1>7, <2>2, Zenon
    <3>3. w \in DOMAIN T => T[w].marked = FALSE
      BY <1>3, <3>2, Zenon
    <3>4. ~contains_word(T, w)
      BY <3>3, Zenon DEF contains_word
    <3> QED BY <3>1, <3>4, Zenon DEF Key
  <2> QED BY <2>1, <2>2
<1> QED BY <1>5, <1>6, <1>7, Zenon DEF T

\* What the loop that loads the records keeps.
Records == Seq([type : {a_type, mx_type}, name : Seq(Byte) \ {<<>>}, val : Seq(Byte)])
LoadInv ==
  /\ file \in Records /\ loaded \in 0 .. Len(file)
  /\ DOMAIN db = {a_type, mx_type}
  /\ \A t \in {a_type, mx_type} :
       /\ IsTrie(db[t])
       /\ \A w : \/ /\ ~contains_word(db[t], w)
                    /\ \A i \in 1 .. loaded : ~Has(i, t, w)
                 \/ \E i : LastOf(loaded, t, w, i) /\ Key(db[t], w, file[i].val)

(* Every step but the loading of a record leaves the database alone. *)
LEMMA StepsLoad ==
  ASSUME [Next]_vars
  PROVE  file' = file /\ (load_record \/ (db' = db /\ loaded' = loaded))
<1>1. CASE UNCHANGED vars
  BY <1>1 DEF vars, dns
<1>2. CASE send_layer \/ recv_layer \/ \E padded, attached \in BOOLEAN : my_handler(padded, attached)
  BY <1>2 DEF send_layer, recv_layer, my_handler, dns
<1>3. CASE load_record
  BY <1>3 DEF load_record
<1>4. CASE \E ad, cd \in {0, 1} : send_request(ad, cd) \/ \E junk \in SoaJunk : serve(ad, cd, junk)
  BY <1>4, Zenon DEF send_request, serve, dns
<1>5. CASE serve_other \/ serve_terminates \/ read_answer
  BY <1>5, Zenon DEF serve_other, serve_terminates, read_answer, dns
<1>6. CASE scan \/ \E delay \in BOOLEAN : arp_scanner_main(delay)
  BY <1>6 DEF scan, arp_scanner_main, dns
<1>7. CASE str_to_ptp_endpoint \/ read_mac_addr \/ str_to_octet \/ str_to_ptp_action
  BY <1>7 DEF str_to_ptp_endpoint, read_mac_addr, str_to_octet, str_to_ptp_action, dns
<1>8. CASE dns_client_main \/ \E interval \in BOOLEAN : ping_main(interval)
  BY <1>8 DEF dns_client_main, ping_main, dns
<1>9. CASE finished
  BY <1>9 DEF finished, vars, dns
<1>10. CASE Beyond
  BY <1>10 DEF Beyond, send_overruns, recv_truncates, serve_overruns, dns
<1> QED BY <1>1, <1>2, <1>3, <1>4, <1>5, <1>6, <1>7, <1>8, <1>9, <1>10 DEF Next, Beyond

(* One record more. *)
LEMMA RecordLoaded ==
  ASSUME LoadInv, load_record
  PROVE  LoadInv'
<1> DEFINE n == loaded + 1
<1>1. PICK r : r = file[n]
  OBVIOUS
<1>2. /\ file \in Records /\ loaded \in Nat /\ n \in 1 .. Len(file) /\ file' = file /\ loaded' = n
      /\ db' = add_record(db, r) /\ DOMAIN db = {a_type, mx_type}
  BY <1>1 DEF load_record, LoadInv, Records
<1>3. r.type \in {a_type, mx_type} /\ r.name \in Seq(Byte) \ {<<>>}
  <2>1. file[n] \in [type : {a_type, mx_type}, name : Seq(Byte) \ {<<>>}, val : Seq(Byte)]
    BY <1>2, ElementOfSeq DEF Records
  <2> QED BY <1>1, <2>1
<1>4. \A i, t, w : Has(i, t, w)' <=> Has(i, t, w)
  BY <1>2, Zenon DEF Has
<1>5. /\ DOMAIN db' = {a_type, mx_type}
      /\ \A t \in {a_type, mx_type} :
           db'[t] = IF t = r.type /\ r.val # <<>> THEN add_word(db[t], r.name, r.val) ELSE db[t]
  <2>1. db' = [db EXCEPT ![r.type] = IF r.val = <<>> THEN db[r.type] ELSE add_word(db[r.type], r.name, r.val)]
    BY <1>2, Zenon DEF add_record
  <2> QED BY <1>2, <1>3, <2>1
<1>6. /\ loaded \in 0 .. loaded /\ n \in 1 .. n /\ (\A j \in 1 .. n : j <= n)
      /\ \A i \in 1 .. n : i = n \/ i \in 1 .. loaded
      /\ \A i \in 1 .. loaded : i \in 1 .. n
  BY <1>2
<1>7. ASSUME NEW t \in {a_type, mx_type}
      PROVE  /\ IsTrie(db'[t])
             /\ \A w : \/ /\ ~contains_word(db'[t], w)
                          /\ \A i \in 1 .. n : ~Has(i, t, w)
                       \/ \E i : LastOf(n, t, w, i) /\ Key(db'[t], w, file[i].val)
  <2>1. IsTrie(db[t])
    BY DEF LoadInv
  <2>2. ASSUME NEW w
        PROVE  \/ /\ ~contains_word(db[t], w)
                  /\ \A i \in 1 .. loaded : ~Has(i, t, w)
               \/ \E i : LastOf(loaded, t, w, i) /\ Key(db[t], w, file[i].val)
    BY Zenon DEF LoadInv
  <2>3. ASSUME NEW w, ~Has(n, t, w), NEW T,
               contains_word(T, w) <=> contains_word(db[t], w), \A k : Key(T, w, k) <=> Key(db[t], w, k)
        PROVE  \/ /\ ~contains_word(T, w)
                  /\ \A i \in 1 .. n : ~Has(i, t, w)
               \/ \E i : LastOf(n, t, w, i) /\ Key(T, w, file[i].val)
    <3>1. CASE ~contains_word(db[t], w) /\ \A i \in 1 .. loaded : ~Has(i, t, w)
      BY <1>6, <2>3, <3>1, Zenon
    <3>2. CASE \E i : LastOf(loaded, t, w, i) /\ Key(db[t], w, file[i].val)
      <4>1. PICK i : LastOf(loaded, t, w, i) /\ Key(db[t], w, file[i].val)
        BY <3>2
      <4>2. LastOf(n, t, w, i)
        BY <1>6, <2>3, <4>1, Zenon DEF LastOf
      <4> QED BY <2>3, <4>1, <4>2, Zenon
    <3> QED BY <2>2, <3>1, <3>2, Zenon
  <2>4. CASE t = r.type /\ r.val # <<>>
    <3> DEFINE T == add_word(db[t], r.name, r.val)
    <3>1. db'[t] = T
      BY <1>5, <2>4, Zenon
    <3>2. /\ IsTrie(T) /\ Key(T, r.name, r.val)
          /\ \A w : w # r.name => /\ contains_word(T, w) <=> contains_word(db[t], w)
                                  /\ \A k : Key(T, w, k) <=> Key(db[t], w, k)
      BY <1>3, <2>1, WordAdded, Zenon
    <3> HIDE DEF T
    <3>3. ASSUME NEW w
          PROVE  \/ /\ ~contains_word(T, w)
                    /\ \A i \in 1 .. n : ~Has(i, t, w)
                 \/ \E i : LastOf(n, t, w, i) /\ Key(T, w, file[i].val)
      <4>1. CASE w = r.name
        <5>1. Has(n, t, w)
          BY <1>1, <2>4, <4>1, Zenon DEF Has
        <5>2. LastOf(n, t, w, n)
          BY <1>6, <5>1, Zenon DEF LastOf
        <5> QED BY <1>1, <3>2, <4>1, <5>2, Zenon
      <4>2. CASE w # r.name
        <5>1. ~Has(n, t, w)
          BY <1>1, <4>2, Zenon DEF Has
        <5> QED BY <2>3, <3>2, <4>2, <5>1, Zenon
      <4> QED BY <4>1, <4>2
    <3> QED BY <3>1, <3>2, <3>3, Zenon
  <2>5. CASE ~(t = r.type /\ r.val # <<>>)
    <3>1. db'[t] = db[t]
      BY <1>5, <2>5, Zenon
    <3>2. ASSUME NEW w PROVE ~Has(n, t, w)
      BY <1>1, <2>5, Zenon DEF Has
    <3> QED BY <2>1, <2>3, <3>1, <3>2, Zenon
  <2> QED BY <2>4, <2>5
<1>8. PICK m : m = n
  OBVIOUS
<1>9. \A t, w : /\ (\A i \in 1 .. loaded : ~Has(i, t, w))' <=> \A i \in 1 .. m : ~Has(i, t, w)
                /\ (\E i : LastOf(loaded, t, w, i) /\ Key(db[t], w, file[i].val))'
                     <=> \E i : LastOf(m, t, w, i) /\ Key(db'[t], w, file[i].val)
  BY <1>2, <1>8, Zenon DEF LastOf, Has, Key, contains_word
<1>10. \A t, w : /\ contains_word(db[t], w)' <=> contains_word(db'[t], w)
                 /\ \A k : Key(db[t], w, k)' <=> Key(db'[t], w, k)
                 /\ IsTrie(db[t])' <=> IsTrie(db'[t])
  BY Zenon DEF contains_word, Key, IsTrie
<1>11. m \in 0 .. Len(file) /\ loaded' = m
  BY <1>2, <1>8
<1> HIDE DEF n
<1> QED BY <1>2, <1>4, <1>5, <1>7, <1>8, <1>9, <1>10, <1>11, Zenon DEF LoadInv

(* Records are loaded as LoadInv says, whatever happens. *)
LEMMA LoadKept ==
  ASSUME LoadInv, [Next]_vars
  PROVE  LoadInv'
<1>1. CASE load_record
  BY <1>1, RecordLoaded
<1>2. CASE file' = file /\ db' = db /\ loaded' = loaded
  <2>1. \A t, w : (\A i \in 1 .. loaded : ~Has(i, t, w))' <=> \A i \in 1 .. loaded : ~Has(i, t, w)
    BY <1>2, Zenon DEF Has
  <2>2. \A t, w : (\E i : LastOf(loaded, t, w, i) /\ Key(db[t], w, file[i].val))'
                    <=> \E i : LastOf(loaded, t, w, i) /\ Key(db[t], w, file[i].val)
    BY <1>2, Zenon DEF LastOf, Has, Key, contains_word
  <2>3. \A t, w : contains_word(db[t], w)' <=> contains_word(db[t], w)
    BY <1>2, Zenon DEF contains_word
  <2>4. \A t : IsTrie(db[t])' <=> IsTrie(db[t])
    BY <1>2, Zenon DEF IsTrie
  <2> QED BY <1>2, <2>1, <2>2, <2>3, <2>4, Zenon DEF LoadInv
<1> QED BY <1>1, <1>2, StepsLoad

(* The database is empty at first. *)
LEMMA LoadStarts == Init => LoadInv
<1> SUFFICES ASSUME Init PROVE LoadInv
  OBVIOUS
<1>1. file \in Records
  <2>1. file \in RecordSets \/ file = <<>>
    BY Zenon DEF Init, NoDns
  <2>2. RecordSets \subseteq Records
    BY RecordsAssumption, Zenon DEF Records
  <2>3. <<>> \in Records
    BY DEF Records
  <2> QED BY <2>1, <2>2, <2>3, Zenon
<1>2. loaded = 0 /\ loaded \in 0 .. Len(file) /\ 1 .. 0 = {}
  BY <1>1 DEF Init, Records
<1>3. DOMAIN db = {a_type, mx_type} /\ \A t \in {a_type, mx_type} : db[t] = empty_trie
  BY Zenon DEF Init
<1>4. DOMAIN empty_trie = {<<>>} /\ \A w \in {<<>>} : empty_trie[w] = trie_node(FALSE, <<>>)
  BY Zenon DEF empty_trie
<1>5. trie_node(FALSE, <<>>).marked = FALSE
  BY SMT DEF trie_node
<1>6. IsTrie(empty_trie)
  BY <1>4, <1>5, Zenon DEF IsTrie
<1>7. \A w : ~contains_word(empty_trie, w)
  BY <1>4, <1>5, Zenon DEF contains_word
<1> QED BY <1>1, <1>2, <1>3, <1>6, <1>7, Zenon DEF LoadInv

(* What a search finds. *)
LEMMA LoadedIsFound == LoadInv => DatabaseFinds
<1> SUFFICES ASSUME LoadInv, NEW t \in {a_type, mx_type}, NEW w
             PROVE  /\ search_record(db[t], w).found <=> \E i \in 1 .. loaded : Has(i, t, w)
                    /\ \A i : LastOf(loaded, t, w, i) => search_record(db[t], w).key = file[i].val
  BY Zenon DEF DatabaseFinds
<1> DEFINE T == db[t]
<1>1. /\ search_record(T, w).found = contains_word(T, w)
      /\ search_record(T, w).key = IF contains_word(T, w) THEN T[w].key ELSE <<>>
  BY SMT DEF search_record
<1>2. \/ ~contains_word(T, w) /\ \A i \in 1 .. loaded : ~Has(i, t, w)
      \/ \E i : LastOf(loaded, t, w, i) /\ Key(T, w, file[i].val)
  BY Zenon DEF LoadInv
<1>3. loaded \in Nat
  BY DEF LoadInv
<1> HIDE DEF T
<1>4. CASE ~contains_word(T, w) /\ \A i \in 1 .. loaded : ~Has(i, t, w)
  BY <1>1, <1>4, Zenon DEF LastOf, T
<1>5. CASE \E i : LastOf(loaded, t, w, i) /\ Key(T, w, file[i].val)
  <2>1. PICK i : LastOf(loaded, t, w, i) /\ Key(T, w, file[i].val)
    BY <1>5
  <2>2. ASSUME NEW j, LastOf(loaded, t, w, j) PROVE j = i
    <3>1. i \in 1 .. loaded /\ j \in 1 .. loaded /\ i <= j /\ j <= i
      BY <2>1, <2>2, Zenon DEF LastOf
    <3> QED BY <1>3, <3>1
  <2>3. contains_word(T, w) /\ T[w].key = file[i].val /\ i \in 1 .. loaded /\ Has(i, t, w)
    BY <2>1, Zenon DEF Key, LastOf
  <2> QED BY <1>1, <2>2, <2>3, Zenon DEF T
<1> QED BY <1>2, <1>4, <1>5

(* At any time the server finds the records it has loaded, the last of     *)
(* each name, and no other, for every file.                                *)
THEOREM DatabaseIsLoaded == Spec => []DatabaseFinds
<1>1. LoadInv /\ [Next]_vars => LoadInv'
  BY LoadKept
<1> QED BY <1>1, LoadStarts, LoadedIsFound, PTL DEF Spec
=============================================================================
