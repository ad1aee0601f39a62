----------------------------- MODULE QueueLemmas -----------------------------
(***************************************************************************)
(* Facts about queues, and about the remainders by which the slots and the *)
(* buffers of a ring are counted, that the proofs of several components    *)
(* use.                                                                    *)
(***************************************************************************)
EXTENDS Integers, Sequences, SequenceTheorems, TLAPS

(* What is appended is the last element, the others stay in their places. *)
LEMMA AppendedLast ==
  ASSUME NEW S, NEW s \in Seq(S), NEW x \in S
  PROVE  /\ Len(s) + 1 \notin DOMAIN s
         /\ DOMAIN Append(s, x) = DOMAIN s \cup {Len(s) + 1}
         /\ \A i \in DOMAIN s : Append(s, x)[i] = s[i] /\ i < Len(s) + 1
         /\ Append(s, x)[Len(s) + 1] = x
  OBVIOUS

(* Without its head, every other element is one place further ahead.       *)
LEMMA TailShifts ==
  ASSUME NEW S, NEW s \in Seq(S), s # <<>>
  PROVE  /\ 1 \in DOMAIN s /\ Head(s) = s[1] /\ DOMAIN s \subseteq Nat \ {0}
         /\ \A i \in DOMAIN Tail(s) :
              i \in Nat \ {0} /\ i + 1 \in DOMAIN s /\ Tail(s)[i] = s[i + 1]
         /\ \A i \in DOMAIN s : i # 1 => i - 1 \in DOMAIN Tail(s) /\ Tail(s)[i - 1] = s[i]
<1>1. /\ Len(s) \in Nat \ {0} /\ DOMAIN s = 1 .. Len(s) /\ Head(s) = s[1]
      /\ DOMAIN Tail(s) = 1 .. Len(s) - 1
      /\ \A i \in 1 .. Len(s) - 1 : Tail(s)[i] = s[i + 1]
  OBVIOUS
<1>2. \A i \in 1 .. Len(s) : i # 1 => i - 1 \in 1 .. Len(s) - 1 /\ (i - 1) + 1 = i
  BY <1>1
<1> QED
  BY <1>1, <1>2

-------------------------------------------------------------------------------
(* Division leaves a remainder smaller than the divisor.                   *)
LEMMA QuotientRemainder ==
  ASSUME NEW n \in Nat \ {0}, NEW a \in Nat
  PROVE  /\ a = n * (a \div n) + (a % n)
         /\ a % n \in 0 .. n - 1 /\ a \div n \in Nat
  OBVIOUS

(* ... and there is only one.                                              *)
LEMMA RemainderOf ==
  ASSUME NEW n \in Nat \ {0}, NEW q \in Nat, NEW r \in 0 .. n - 1
  PROVE  (n * q + r) % n = r
  OBVIOUS

(* Counting one further moves one place round the ring.                    *)
LEMMA NextRemainder ==
  ASSUME NEW n \in Nat \ {0}, NEW a \in Nat
  PROVE  /\ (a + 1) % n = ((a % n) + 1) % n
         /\ (a + 1) % n = IF (a % n) + 1 = n THEN 0 ELSE (a % n) + 1
<1> DEFINE q == a \div n
           r == a % n
<1>1. a = n * q + r /\ r \in 0 .. n - 1 /\ q \in Nat
  BY QuotientRemainder
<1> HIDE DEF q, r
<1>2. CASE r + 1 = n
  <2>1. a + 1 = n * (q + 1) + 0
    BY <1>1, <1>2
  <2>2. (a + 1) % n = 0
    BY <1>1, <2>1, RemainderOf
  <2>3. n % n = 0
    OBVIOUS
  <2> QED
    BY <1>2, <2>2, <2>3 DEF r
<1>3. CASE r + 1 # n
  <2>1. a + 1 = n * q + (r + 1) /\ r + 1 \in 0 .. n - 1
    BY <1>1, <1>3
  <2>2. (a + 1) % n = r + 1
    BY <1>1, <2>1, RemainderOf
  <2>3. (r + 1) % n = r + 1
    BY <2>1
  <2> QED
    BY <1>3, <2>2, <2>3 DEF r
<1> QED
  BY <1>2, <1>3

(* The same place of the ring is reached again a full turn later.          *)
LEMMA SameRemainder ==
  ASSUME NEW n \in Nat \ {0}, NEW a \in Nat, NEW b \in Nat, a % n = b % n, a < b
  PROVE  b - a >= n
<1> DEFINE p == a \div n
           q == b \div n
           r == a % n
<1>1. /\ a = n * p + r /\ b = n * q + r
      /\ p \in Nat /\ q \in Nat /\ r \in 0 .. n - 1
  BY QuotientRemainder
<1> HIDE DEF p, q, r
<1>2. b - a = n * (q - p)
  BY <1>1
<1>3. q - p \in Int /\ ~(q - p <= 0)
  <2>1. q - p <= 0 => n * (q - p) <= 0
    BY <1>1
  <2> QED
    BY <1>1, <1>2, <2>1
<1>4. n * (q - p) >= n
  BY <1>3
<1> QED
  BY <1>2, <1>4

(* Less than a full turn ahead is another place, and one further is the    *)
(* place after that.                                                       *)
LEMMA LessThanATurn ==
  ASSUME NEW n \in Nat \ {0}, NEW b \in 0 .. n - 1, NEW d \in 1 .. n - 1
  PROVE  /\ b # (b + d) % n
         /\ (b + (d + 1)) % n = (((b + d) % n) + 1) % n
<1>1. b \in Nat /\ d \in Nat /\ b + d \in Nat /\ b < b + d /\ (b + d) - b = d /\ d < n
  OBVIOUS
<1>2. b % n = b
  OBVIOUS
<1>3. b # (b + d) % n
  <2>1. SUFFICES ASSUME b = (b + d) % n PROVE FALSE
    OBVIOUS
  <2>2. b % n = (b + d) % n
    BY <1>2, <2>1
  <2>3. (b + d) - b >= n
    BY <1>1, <2>2, SameRemainder
  <2> QED
    BY <1>1, <2>3
<1>4. b + (d + 1) = (b + d) + 1
  BY <1>1
<1> QED
  BY <1>1, <1>3, <1>4, NextRemainder

(* frameNumber_ wraps at a multiple of the ring, so the wrap is no jump.   *)
LEMMA WrapKeepsRemainder ==
  ASSUME NEW n \in Nat \ {0}, NEW w \in Nat \ {0}, w % n = 0, NEW f \in 0 .. w - 1
  PROVE  ((f + 1) % w) % n = ((f % n) + 1) % n
<1> f \in Nat
  OBVIOUS
<1>1. (f + 1) % n = ((f % n) + 1) % n
  BY NextRemainder
<1>2. CASE f + 1 = w
  <2>1. (f + 1) % w = 0 /\ 0 % n = 0
    BY <1>2
  <2> QED
    BY <1>1, <1>2, <2>1
<1>3. CASE f + 1 # w
  <2>1. (f + 1) % w = f + 1
    BY <1>3
  <2> QED
    BY <1>1, <2>1
<1> QED
  BY <1>2, <1>3
===============================================================================
