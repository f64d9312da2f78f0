---------------------------- MODULE RingCounters ----------------------------
(***************************************************************************)
(* Facts about the counters of a ring buffer.  A counter takes the values  *)
(* 0 .. W - 1 and wraps; the slot of a counter is its remainder modulo P,  *)
(* the number of slots, which divides W.  pi->nread and pi->nwrite of      *)
(* kernel/pipe.c and the ring indexes of kernel/virtio_disk.c are such     *)
(* counters, with W = 2^32 and 2^16.                                       *)
(***************************************************************************)
EXTENDS Integers, TLAPS

-----------------------------------------------------------------------------
(* Remainders. *)

LEMMA ModDiv ==
    ASSUME NEW W \in Nat \ {0}, NEW x \in Nat
    PROVE  \E q \in Nat, r \in 0 .. W - 1 : x = q * W + r /\ x % W = r
<1>1. x % W \in 0 .. W - 1  OBVIOUS
<1>2. x = ((x \div W) * W) + (x % W)  OBVIOUS
<1>3. x \div W \in Nat  OBVIOUS
<1>4. QED BY <1>1, <1>2, <1>3

LEMMA ModUnique ==
    ASSUME NEW W \in Nat \ {0}, NEW q \in Int, NEW r \in 0 .. W - 1
    PROVE  (q * W + r) % W = r
OBVIOUS

LEMMA ModOnce ==
    ASSUME NEW W \in Nat \ {0}
    PROVE  /\ \A x \in 0 .. W - 1 : x % W = x
           /\ \A x \in W .. W + W - 1 : x % W = x - W
OBVIOUS

\* A counter that wraps at a multiple of P has the remainders of one that
\* does not wrap.
LEMMA ModMult ==
    ASSUME NEW P \in Nat \ {0}, NEW k \in Nat \ {0}, NEW x \in Nat
    PROVE  (x % (k * P)) % P = x % P
<1> DEFINE W == k * P
<1>1. W \in Nat \ {0}  OBVIOUS
<1>2. PICK a \in Nat, b \in 0 .. W - 1 : x = a * W + b /\ x % W = b
  BY Zenon, <1>1, ModDiv
<1>3. b \in Nat  BY <1>1
<1>4. PICK q \in Nat, r \in 0 .. P - 1 : b = q * P + r /\ b % P = r
  BY <1>3, ModDiv
<1>5. a * k + q \in Int  OBVIOUS
<1>6. x = (a * k + q) * P + r  BY <1>2, <1>4
<1>7. x % P = r  BY <1>5, <1>6, ModUnique
<1>8. QED BY <1>2, <1>4, <1>7

\* Fewer than P apart, two positions have different slots.
LEMMA ModApart ==
    ASSUME NEW P \in Nat \ {0}, NEW x \in Nat, NEW d \in 1 .. P - 1
    PROVE  (x + d) % P # x % P
<1>1. PICK q \in Nat, r \in 0 .. P - 1 : x = q * P + r /\ x % P = r
  BY Zenon, ModDiv
<1>2. CASE r + d < P
  <2>1. r + d \in 0 .. P - 1 /\ q \in Int  BY <1>2
  <2>2. x + d = q * P + (r + d)  BY <1>1
  <2>3. (x + d) % P = r + d  BY Zenon, <2>1, <2>2, ModUnique
  <2>4. QED BY <1>1, <2>3
<1>3. CASE r + d >= P
  <2>1. r + d - P \in 0 .. P - 1 /\ q + 1 \in Int  BY <1>3
  <2>2. x + d = (q + 1) * P + (r + d - P)  BY <1>1
  <2>3. (x + d) % P = r + d - P  BY Zenon, <2>1, <2>2, ModUnique
  <2>4. QED BY <1>1, <2>3
<1>4. QED BY <1>2, <1>3

-----------------------------------------------------------------------------
(* Counters. *)

LEMMA AddIs ==
    ASSUME NEW W \in Nat \ {0}, NEW a \in 0 .. W - 1, NEW b \in 0 .. W - 1
    PROVE  /\ a + b < W => (a + b) % W = a + b
           /\ a + b >= W => (a + b) % W = a + b - W
           /\ (a + b) % W \in 0 .. W - 1
<1>1. CASE a + b < W
  <2>1. PICK x \in 0 .. W - 1 : x = a + b  BY <1>1
  <2>2. x % W = x  OBVIOUS
  <2>3. QED BY <1>1, <2>1, <2>2
<1>2. CASE a + b >= W
  <2>1. PICK x \in 0 .. W - 1 : x + W = a + b
    <3>1. a + b - W \in 0 .. W - 1  BY <1>2
    <3>2. (a + b - W) + W = a + b  OBVIOUS
    <3>3. QED BY <3>1, <3>2
  <2>2. (x + W) % W = x  BY ModOnce
  <2>3. QED BY <1>2, <2>1, <2>2
<1>3. QED BY <1>1, <1>2

\* The number of steps from one counter to another.
LEMMA Distance ==
    ASSUME NEW W \in Nat \ {0}, NEW a \in 0 .. W - 1, NEW b \in 0 .. W - 1
    PROVE  /\ (b + W - a) % W \in 0 .. W - 1
           /\ b = (a + ((b + W - a) % W)) % W
<1>1. CASE b >= a
  <2>1. PICK x \in 0 .. W - 1 : a + x = b /\ b + W - a = x + W
    <3>1. /\ b - a \in 0 .. W - 1
          /\ a + (b - a) = b /\ b + W - a = (b - a) + W
      BY <1>1
    <3>2. QED BY <3>1
  <2>2. (x + W) % W = x /\ b % W = b  BY ModOnce
  <2>3. QED BY <2>1, <2>2
<1>2. CASE b < a
  <2>1. b + W - a \in 0 .. W - 1  BY <1>2
  <2>2. (b + W - a) % W = b + W - a  BY <2>1, ModOnce
  <2>3. a + (b + W - a) = b + W  OBVIOUS
  <2>4. b + W \in W .. W + W - 1  OBVIOUS
  <2>5. (b + W) % W = b  BY <2>4, ModOnce
  <2>6. QED BY <2>1, <2>2, <2>3, <2>5
<1>3. QED BY <1>1, <1>2

LEMMA DistanceIs ==
    ASSUME NEW W \in Nat \ {0}, NEW a \in 0 .. W - 1, NEW n \in 0 .. W - 1
    PROVE  (((a + n) % W) + W - a) % W = n
<1>1. CASE a + n < W
  <2>1. (a + n) % W = a + n  BY Zenon, <1>1, AddIs
  <2>2. (a + n) + W - a = n + W  OBVIOUS
  <2>3. n + W \in W .. W + W - 1  OBVIOUS
  <2>4. (n + W) % W = n  BY <2>3, ModOnce
  <2>5. QED BY <2>1, <2>2, <2>4
<1>2. CASE a + n >= W
  <2>1. (a + n) % W = a + n - W  BY Zenon, <1>2, AddIs
  <2>2. (a + n - W) + W - a = n  OBVIOUS
  <2>3. QED BY <2>1, <2>2, ModOnce
<1>3. QED BY <1>1, <1>2

\* The counter after a + n.
LEMMA OneMore ==
    ASSUME NEW W \in Nat \ {0}, NEW a \in 0 .. W - 1, NEW n \in 0 .. W - 1,
           n + 1 \in 0 .. W - 1
    PROVE  (((a + n) % W) + 1) % W = (a + (n + 1)) % W
<1>1. 1 \in 0 .. W - 1  OBVIOUS
<1>2. CASE a + n < W
  <2>1. (a + n) % W = a + n  BY Zenon, <1>2, AddIs
  <2>2. (a + n) + 1 = a + (n + 1)  OBVIOUS
  <2>3. QED BY <2>1, <2>2
<1>3. CASE a + n >= W
  <2>1. (a + n) % W = a + n - W  BY Zenon, <1>3, AddIs
  <2>2. a + (n + 1) >= W  BY <1>3
  <2>3. (a + (n + 1)) % W = a + (n + 1) - W  BY Zenon, <2>2, AddIs
  <2>4. PICK x \in 0 .. W - 1 : x = a + n - W /\ x + 1 < W
    <3>1. a + n - W \in 0 .. W - 1 /\ (a + n - W) + 1 < W  BY <1>3
    <3>2. QED BY <3>1
  <2>5. (x + 1) % W = x + 1  BY Zenon, <1>1, <2>4, AddIs
  <2>6. x + 1 = a + (n + 1) - W  BY <2>4
  <2>7. QED BY <2>1, <2>3, <2>4, <2>5, <2>6
<1>4. QED BY <1>2, <1>3

\* m steps after the counter after a.
LEMMA AfterOne ==
    ASSUME NEW W \in Nat \ {0}, 1 < W,
           NEW a \in 0 .. W - 1, NEW m \in 0 .. W - 1
    PROVE  /\ (a + 1) % W \in 0 .. W - 1
           /\ (((a + 1) % W) + m) % W = (a + (m + 1)) % W
<1>1. 1 \in 0 .. W - 1  OBVIOUS
<1>2. CASE a + 1 < W
  <2>1. (a + 1) % W = a + 1  BY Zenon, <1>1, <1>2, AddIs
  <2>2. (a + 1) + m = a + (m + 1)  OBVIOUS
  <2>3. a + 1 \in 0 .. W - 1  BY <1>2
  <2>4. QED BY <2>1, <2>2, <2>3
<1>3. CASE a + 1 >= W
  <2>1. a + 1 = W  BY <1>3
  <2>2. (a + 1) % W = 0  BY <1>1, <2>1, AddIs
  <2>3. a + (m + 1) = m + W /\ m + W \in W .. W + W - 1  BY <2>1
  <2>4. (m + W) % W = m  BY <1>1, <2>3, ModOnce
  <2>5. 0 + m = m /\ m % W = m  BY <1>1, ModOnce
  <2>6. QED BY <2>2, <2>3, <2>4, <2>5
<1>4. QED BY <1>2, <1>3

-----------------------------------------------------------------------------
(* Slots. *)

LEMMA SlotIs ==
    ASSUME NEW W \in Nat \ {0}, NEW P \in Nat \ {0}, W % P = 0, NEW x \in Nat
    PROVE  (x % W) % P = x % P /\ x % P \in 0 .. P - 1
<1>1. PICK k \in Nat, r \in 0 .. P - 1 : W = k * P + r /\ W % P = r
  BY Zenon, ModDiv
<1>2. k \in Nat \ {0} /\ W = k * P  BY <1>1
<1>3. (x % (k * P)) % P = x % P  BY ZenonT(40), <1>2, ModMult
<1>4. x % P \in 0 .. P - 1  OBVIOUS
<1>5. QED BY <1>2, <1>3, <1>4

\* The slots of two positions less than P apart.
LEMMA SlotsApart ==
    ASSUME NEW W \in Nat \ {0}, NEW P \in Nat \ {0}, W % P = 0,
           NEW a \in Nat, NEW i \in Nat, NEW j \in Nat, i < j, j - i < P
    PROVE  ((a + i) % W) % P # ((a + j) % W) % P
<1>1. PICK x \in Nat, d \in 1 .. P - 1 : x = a + i /\ x + d = a + j
  <2>1. a + i \in Nat /\ j - i \in 1 .. P - 1 /\ (a + i) + (j - i) = a + j
    OBVIOUS
  <2>2. QED BY <2>1
<1>2. (x + d) % P # x % P  BY ModApart
<1>3. (x % W) % P = x % P  BY ZenonT(40), SlotIs
<1>4. x + d \in Nat  OBVIOUS
<1>5. ((x + d) % W) % P = (x + d) % P  BY ZenonT(40), <1>4, SlotIs
<1>6. QED BY <1>1, <1>2, <1>3, <1>5
=============================================================================
