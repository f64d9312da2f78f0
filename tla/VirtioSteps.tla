---------------------------- MODULE VirtioSteps -----------------------------
(***************************************************************************)
(* Virtio keeps its inductive invariant IInv in the steps of the device, of*)
(* the interrupt handler and of processes that leave the rings alone.      *)
(***************************************************************************)
EXTENDS Virtio, RingCounters, FiniteSetTheorems, WellFoundedInduction

-----------------------------------------------------------------------------
(* Sizes. *)

LEMMA RingSize ==
    /\ NUM \in Nat \ {0} /\ Wrap \in Nat \ {0} /\ Wrap % NUM = 0 /\ NUM <= Wrap
<1>1. NUM \in Nat \ {0} /\ Wrap \in Nat \ {0} /\ Wrap % NUM = 0
  BY RingAssumption
<1>2. ASSUME Wrap < NUM PROVE FALSE
  <2>1. Wrap \in 0 .. NUM - 1  BY <1>1, <1>2
  <2>2. Wrap % NUM = Wrap  BY <1>1, <2>1, ModOnce
  <2>3. QED BY <1>1, <2>2
<1>3. QED BY <1>1, <1>2

\* Adding an element to a finite set, and taking one out.
LEMMA AddOne ==
    ASSUME NEW S, IsFiniteSet(S), NEW x, x \notin S
    PROVE  /\ IsFiniteSet(S \cup {x}) /\ Cardinality(S) \in Nat
           /\ Cardinality(S \cup {x}) = Cardinality(S) + 1
<1>1. IsFiniteSet(S \cup {x})  BY FS_AddElement
<1>2. Cardinality(S \cup {x}) = Cardinality(S) + 1  BY FS_AddElement
<1>3. Cardinality(S) \in Nat  BY FS_CardinalityType
<1>4. QED BY <1>1, <1>2, <1>3

LEMMA RemoveOne ==
    ASSUME NEW S, IsFiniteSet(S), NEW x \in S
    PROVE  /\ IsFiniteSet(S \ {x}) /\ Cardinality(S \ {x}) \in Nat
           /\ Cardinality(S) = Cardinality(S \ {x}) + 1
<1>1. IsFiniteSet(S \ {x})  BY FS_RemoveElement
<1>2. Cardinality(S \ {x}) \in Nat  BY <1>1, FS_CardinalityType
<1>3. S = (S \ {x}) \cup {x} /\ x \notin S \ {x}  OBVIOUS
<1>4. QED BY <1>1, <1>2, <1>3, AddOne

\* Three descriptors, added and taken away.
LEMMA AddThree ==
    ASSUME NEW S, IsFiniteSet(S), NEW x, NEW y, NEW z,
           x \notin S, y \notin S, z \notin S, x # y, x # z, y # z
    PROVE  /\ IsFiniteSet(S \cup {x, y, z}) /\ Cardinality(S) \in Nat
           /\ Cardinality(S \cup {x, y, z}) = Cardinality(S) + 3
<1>1. /\ IsFiniteSet(S \cup {x}) /\ Cardinality(S) \in Nat
      /\ Cardinality(S \cup {x}) = Cardinality(S) + 1
  BY AddOne
<1>2. /\ IsFiniteSet((S \cup {x}) \cup {y})
      /\ Cardinality((S \cup {x}) \cup {y}) = Cardinality(S \cup {x}) + 1
  <2>1. y \notin S \cup {x}  OBVIOUS
  <2>2. QED BY Zenon, <1>1, <2>1, AddOne
<1>3. /\ IsFiniteSet(((S \cup {x}) \cup {y}) \cup {z})
      /\ Cardinality(((S \cup {x}) \cup {y}) \cup {z})
           = Cardinality((S \cup {x}) \cup {y}) + 1
  <2>1. z \notin (S \cup {x}) \cup {y}  OBVIOUS
  <2>2. QED BY <1>2, <2>1, AddOne
<1>4. ((S \cup {x}) \cup {y}) \cup {z} = S \cup {x, y, z}  OBVIOUS
<1>5. QED BY <1>1, <1>2, <1>3, <1>4

\* A set of numbers that is not empty has a least one.
LEMMA Least ==
    ASSUME NEW S \in SUBSET Nat, S # {}
    PROVE  \E i \in S : \A j \in S : i <= j
<1>1. PICK i \in S : \A j \in S : ~ (<<j, i>> \in OpToRel(<, Nat))
  BY Zenon, NatLessThanWellFounded, WFMin
<1>2. \A j \in S : ~ (j < i)  BY Zenon, <1>1 DEF OpToRel
<1>3. QED BY <1>2

\* alloc_desc() finds three different free descriptors when there are three.
LEMMA NthFree ==
    ASSUME free \in SUBSET Desc, Cardinality(free) >= 3
    PROVE  /\ Nth(0) \in free /\ Nth(1) \in free /\ Nth(2) \in free
           /\ Nth(0) # Nth(1) /\ Nth(0) # Nth(2) /\ Nth(1) # Nth(2)
<1> DEFINE Below(i) == {j \in free : j < i}
<1>1. IsFiniteSet(free) /\ free \in SUBSET Nat
  <2>1. IsFiniteSet(Desc)  BY RingSize, FS_Interval DEF Desc
  <2>2. IsFiniteSet(free)  BY Zenon, <2>1, FS_Subset
  <2>3. free \in SUBSET Nat  BY RingSize DEF Desc
  <2>4. QED BY <2>2, <2>3
<1>2. Cardinality(free) \in Nat /\ free # {}
  BY <1>1, FS_CardinalityType, FS_EmptySet
<1>3. PICK a \in free : \A j \in free : a <= j
  BY <1>1, <1>2, Least
<1>4. Below(a) = {}
  <2>1. \A j \in free : ~ (j < a)  BY <1>1, <1>3
  <2>2. QED BY <2>1
<1>5. /\ IsFiniteSet(free \ {a}) /\ Cardinality(free \ {a}) \in Nat
      /\ Cardinality(free) = Cardinality(free \ {a}) + 1
  BY <1>1, RemoveOne
<1>6. free \ {a} # {} /\ free \ {a} \in SUBSET Nat
  BY <1>1, <1>5, FS_EmptySet
<1>7. PICK b \in free \ {a} : \A j \in free \ {a} : b <= j
  BY Zenon, <1>6, Least
<1>8. Below(b) = {a}
  <2>1. \A j \in free : j < b <=> j = a  BY <1>1, <1>3, <1>7
  <2>2. QED BY <2>1
<1>9. Cardinality(free \ {a}) = Cardinality((free \ {a}) \ {b}) + 1
      /\ IsFiniteSet((free \ {a}) \ {b})
  BY <1>5, RemoveOne
<1>10. (free \ {a}) \ {b} # {} /\ (free \ {a}) \ {b} \in SUBSET Nat
  BY <1>1, <1>5, <1>9, FS_EmptySet
<1>11. PICK c \in (free \ {a}) \ {b} : \A j \in (free \ {a}) \ {b} : c <= j
  BY Zenon, <1>10, Least
<1>12. Below(c) = {a} \cup {b}
  <2>1. a < b /\ b < c  BY <1>1, <1>3, <1>7, <1>11
  <2>2. \A j \in free : j < c => j = a \/ j = b  BY <1>1, <1>11
  <2>3. \A j \in free : j < c <=> j = a \/ j = b
    BY <1>1, <1>3, <1>7, <1>11, <2>1, <2>2
  <2>4. QED BY <2>3
<1>13. /\ Cardinality(Below(a)) = 0 /\ Cardinality(Below(b)) = 1
       /\ Cardinality(Below(c)) = 2
  <2>1. IsFiniteSet({a}) /\ Cardinality({a}) = 1 /\ b \notin {a}
    BY Zenon, <1>7, FS_Singleton
  <2>2. Cardinality({a} \cup {b}) = 2  BY <2>1, AddOne
  <2>3. QED BY <1>4, <1>8, <1>12, <2>1, <2>2, FS_EmptySet
<1>14. /\ Nth(0) \in free /\ Cardinality(Below(Nth(0))) = 0
       /\ Nth(1) \in free /\ Cardinality(Below(Nth(1))) = 1
       /\ Nth(2) \in free /\ Cardinality(Below(Nth(2))) = 2
  BY Zenon, <1>13 DEF Nth
<1>15. QED BY <1>14

-----------------------------------------------------------------------------
(* The rings. *)

LEMMA BetweenIs ==
    ASSUME NEW a \in 0 .. Wrap - 1, NEW b \in 0 .. Wrap - 1
    PROVE  /\ Between(a, b) \in 0 .. Wrap - 1 /\ Between(a, b) \in Nat
           /\ b = (a + Between(a, b)) % Wrap
           /\ Between(a, b) = 0 <=> a = b
<1>1. Between(a, b) \in 0 .. Wrap - 1 /\ b = (a + Between(a, b)) % Wrap
  BY ZenonT(40), RingSize, Distance DEF Between
<1>2. Between(a, b) \in Nat  BY <1>1, RingSize
<1>3. ASSUME Between(a, b) = 0 PROVE a = b
  <2>1. b = (a + 0) % Wrap  BY <1>1, <1>3
  <2>2. a + 0 = a  OBVIOUS
  <2>3. a % Wrap = a  BY RingSize, ModOnce
  <2>4. QED BY <2>1, <2>2, <2>3
<1>4. ASSUME a = b PROVE Between(a, b) = 0
  <2>1. b + Wrap - a = Wrap  BY <1>4, RingSize
  <2>2. Wrap % Wrap = 0  BY RingSize, ModOnce
  <2>3. QED BY <2>1, <2>2 DEF Between
<1>5. QED BY <1>1, <1>2, <1>3, <1>4

LEMMA EntrySlot ==
    ASSUME NEW a \in 0 .. Wrap - 1, NEW i \in Nat
    PROVE  ((a + i) % Wrap) % NUM \in Desc
<1>1. a + i \in Nat  OBVIOUS
<1>2. ((a + i) % Wrap) % NUM \in 0 .. NUM - 1
  BY ZenonT(40), <1>1, RingSize, SlotIs
<1>3. QED BY <1>2 DEF Desc

Rings == [Desc -> Desc \cup {Unset}]

\* ring[b % NUM] = x; b += 1;
LEMMA RingPut ==
    ASSUME NEW ring \in Rings, NEW new \in Rings,
           NEW a \in 0 .. Wrap - 1, NEW b \in 0 .. Wrap - 1,
           \A d \in Desc : d # b % NUM => new[d] = ring[d],
           NEW n \in Nat, Between(a, b) = n, n + 1 < NUM
    PROVE  /\ Inc(b) \in 0 .. Wrap - 1 /\ b % NUM \in Desc
           /\ Between(a, Inc(b)) = n + 1
           /\ \A i \in 0 .. n - 1 : Entry(new, a, i) = Entry(ring, a, i)
           /\ Entry(new, a, n) = new[b % NUM]
<1>1. /\ n \in 0 .. Wrap - 1 /\ b = (a + n) % Wrap
      /\ n + 1 \in 0 .. Wrap - 1 /\ n < NUM
  <2>1. b = (a + n) % Wrap  BY Zenon, BetweenIs
  <2>2. n \in 0 .. Wrap - 1 /\ n + 1 \in 0 .. Wrap - 1 /\ n < NUM
    BY RingSize
  <2>3. QED BY <2>1, <2>2
<1>2. Inc(b) = (a + (n + 1)) % Wrap
  <2>1. (((a + n) % Wrap) + 1) % Wrap = (a + (n + 1)) % Wrap
    BY ZenonT(40), <1>1, RingSize, OneMore
  <2>2. QED BY Zenon, <1>1, <2>1 DEF Inc
<1>3. Between(a, Inc(b)) = n + 1
  <2>1. (((a + (n + 1)) % Wrap) + Wrap - a) % Wrap = n + 1
    BY ZenonT(40), <1>1, RingSize, DistanceIs
  <2>2. QED BY Zenon, <1>2, <2>1 DEF Between
<1>4. Inc(b) \in 0 .. Wrap - 1
  <2>1. b + 1 \in Nat  BY RingSize
  <2>2. (b + 1) % Wrap \in 0 .. Wrap - 1  BY <2>1, RingSize
  <2>3. QED BY <2>2 DEF Inc
<1>5. b % NUM \in Desc  BY Zenon, <1>1, EntrySlot
<1>6. Entry(new, a, n) = new[b % NUM]  BY Zenon, <1>1 DEF Entry
<1>7. ASSUME NEW i \in 0 .. n - 1 PROVE Entry(new, a, i) = Entry(ring, a, i)
  <2>1. i \in Nat /\ i < n /\ n - i < NUM /\ a \in Nat  BY <1>1, RingSize
  <2>2. ((a + i) % Wrap) % NUM # ((a + n) % Wrap) % NUM
    BY ZenonT(40), <1>1, <2>1, RingSize, SlotsApart
  <2>3. ((a + i) % Wrap) % NUM \in Desc  BY Zenon, <2>1, EntrySlot
  <2>4. QED BY <1>1, <1>5, <2>2, <2>3 DEF Entry
<1>8. QED BY Zenon, <1>3, <1>4, <1>5, <1>6, <1>7

\* x = ring[a % NUM]; a += 1;
LEMMA RingTake ==
    ASSUME NEW ring \in Rings, NEW new \in Rings,
           NEW a \in 0 .. Wrap - 1, NEW b \in 0 .. Wrap - 1, a # b,
           \A d \in Desc : d # a % NUM => new[d] = ring[d],
           NEW n \in Nat, Between(a, b) = n, n < NUM
    PROVE  /\ Inc(a) \in 0 .. Wrap - 1 /\ a % NUM \in Desc
           /\ n # 0 /\ Between(Inc(a), b) = n - 1
           /\ Entry(ring, a, 0) = ring[a % NUM]
           /\ \A i \in 0 .. n - 2 : Entry(new, Inc(a), i) = Entry(ring, a, i + 1)
<1>1. n # 0 /\ n \in 0 .. Wrap - 1 /\ b = (a + n) % Wrap
  BY Zenon, BetweenIs
<1>2. PICK m \in 0 .. Wrap - 1 : m + 1 = n /\ m = n - 1
  <2>1. n - 1 \in 0 .. Wrap - 1 /\ (n - 1) + 1 = n  BY <1>1, RingSize
  <2>2. QED BY <2>1
<1>3. 1 < Wrap  BY <1>1, RingSize
<1>4. /\ Inc(a) \in 0 .. Wrap - 1
      /\ \A i \in 0 .. Wrap - 1 :
            (Inc(a) + i) % Wrap = (a + (i + 1)) % Wrap
  BY ZenonT(40), <1>3, RingSize, AfterOne DEF Inc
<1>5. Between(Inc(a), b) = m
  <2>1. (((Inc(a) + m) % Wrap) + Wrap - Inc(a)) % Wrap = m
    BY ZenonT(40), <1>2, <1>4, RingSize, DistanceIs
  <2>2. b = (Inc(a) + m) % Wrap  BY Zenon, <1>1, <1>2, <1>4
  <2>3. QED BY Zenon, <2>1, <2>2 DEF Between
<1>6. (a + 0) % Wrap = a
  <2>1. a + 0 = a /\ a % Wrap = a  BY RingSize, ModOnce
  <2>2. QED BY <2>1
<1>7. a % NUM \in Desc /\ Entry(ring, a, 0) = ring[a % NUM]
  <2>1. ((a + 0) % Wrap) % NUM \in Desc  BY EntrySlot
  <2>2. QED BY Zenon, <1>6, <2>1 DEF Entry
<1>8. ASSUME NEW i \in 0 .. n - 2
      PROVE Entry(new, Inc(a), i) = Entry(ring, a, i + 1)
  <2>1. /\ i \in 0 .. Wrap - 1 /\ i + 1 \in Nat /\ 0 < i + 1
        /\ (i + 1) - 0 < NUM /\ a \in Nat /\ 0 \in Nat
    BY <1>1, RingSize
  <2>2. ((a + 0) % Wrap) % NUM # ((a + (i + 1)) % Wrap) % NUM
    BY ZenonT(40), <2>1, RingSize, SlotsApart
  <2>3. ((a + (i + 1)) % Wrap) % NUM \in Desc  BY Zenon, <2>1, EntrySlot
  <2>4. new[((a + (i + 1)) % Wrap) % NUM] = ring[((a + (i + 1)) % Wrap) % NUM]
    BY <1>6, <1>7, <2>2, <2>3
  <2>5. QED BY Zenon, <1>4, <2>1, <2>4 DEF Entry
<1>9. QED BY Zenon, <1>1, <1>2, <1>4, <1>5, <1>7, <1>8

-----------------------------------------------------------------------------
(* What the invariant says of the sizes. *)

LEMMA DescFinite == ASSUME NEW S \in SUBSET Desc
                    PROVE  IsFiniteSet(S) /\ Cardinality(S) \in Nat
<1>1. IsFiniteSet(Desc)  BY RingSize, FS_Interval DEF Desc
<1>2. IsFiniteSet(S)  BY Zenon, <1>1, FS_Subset
<1>3. QED BY <1>2, FS_CardinalityType

LEMMA Sizes ==
    ASSUME IInv
    PROVE  /\ IsFiniteSet(free) /\ Cardinality(free) \in Nat
           /\ IsFiniteSet(inflight) /\ Cardinality(inflight) \in Nat
           /\ IsFiniteSet(Active) /\ Cardinality(Active) \in Nat
           /\ IsFiniteSet(Pending) /\ Cardinality(Pending) \in Nat
           /\ Pending \subseteq Active
           /\ Queued \in Nat /\ Unseen \in Nat
           /\ Queued + Cardinality(inflight) + Unseen = Cardinality(Pending)
           /\ Cardinality(Pending) <= Cardinality(Active)
           /\ Cardinality(free) = NUM - 3 * Cardinality(Active)
           /\ 3 * Cardinality(Active) <= NUM
<1>1. /\ free \in SUBSET Desc /\ inflight \in SUBSET Desc
      /\ taken \in 0 .. Wrap - 1 /\ used_idx \in 0 .. Wrap - 1
      /\ avail.idx \in 0 .. Wrap - 1 /\ used.idx \in 0 .. Wrap - 1
  BY DEF IInv, TypeOK
<1>2. /\ IsFiniteSet(free) /\ Cardinality(free) \in Nat
      /\ IsFiniteSet(inflight) /\ Cardinality(inflight) \in Nat
  BY <1>1, DescFinite
<1>3. IsFiniteSet(Active) /\ Cardinality(Active) \in Nat
  BY FS_CardinalityType DEF IInv, CountInv
<1>4. Pending \subseteq Active  BY DEF IInv, CallInv, Pending
<1>5. /\ IsFiniteSet(Pending) /\ Cardinality(Pending) \in Nat
      /\ Cardinality(Pending) <= Cardinality(Active)
  BY <1>3, <1>4, FS_Subset, FS_CardinalityType
<1>6. Queued \in Nat /\ Unseen \in Nat
  BY ZenonT(40), <1>1, BetweenIs DEF Queued, Unseen
<1>7. /\ Queued + Cardinality(inflight) + Unseen = Cardinality(Pending)
      /\ Cardinality(free) = NUM - 3 * Cardinality(Active)
  BY DEF IInv, CountInv
<1>8. 3 * Cardinality(Active) <= NUM  BY <1>2, <1>3, <1>7, RingSize
<1>9. QED BY <1>2, <1>3, <1>4, <1>5, <1>6, <1>7, <1>8

\* A descriptor heads the chain of at most one request.
LEMMA OneOwner ==
    ASSUME ChainInv, NEW p \in Active, NEW q \in Active, idx[p] = idx[q]
    PROVE  p = q
BY DEF ChainInv

-----------------------------------------------------------------------------
(* The steps that leave the rings alone. *)

LEMMA QuietStep ==
    ASSUME IInv, UNCHANGED <<ringVars, deviceVars, used_idx, idx>>,
           \A p \in Active : buf'[p] = buf[p],
           Pending' = Pending
    PROVE  /\ Active' = Active
           /\ ChainInv' /\ CountInv' /\ PlaceInv'
           /\ \A i \in 0 .. Unseen' - 1, p \in Active' : UsedAt(i)' = idx'[p] =>
                 buf'[p].data = media'[p] /\ info'[idx'[p]].status = 0
<1>1. /\ desc' = desc /\ free' = free /\ info' = info /\ avail' = avail
      /\ media' = media /\ used' = used /\ taken' = taken
      /\ inflight' = inflight /\ used_idx' = used_idx /\ idx' = idx
  BY DEF ringVars, deviceVars
<1>2. /\ Active' = Active /\ Queued' = Queued /\ Unseen' = Unseen
      /\ \A i : AvailAt(i)' = AvailAt(i) /\ UsedAt(i)' = UsedAt(i)
  BY <1>1 DEF Active, Queued, Unseen, AvailAt, UsedAt
<1>3. ChainInv'
  <2>1. \A p \in Active : /\ Second(p)' = Second(p) /\ Third(p)' = Third(p)
                          /\ Op(p)' = Op(p)
    BY <1>1 DEF Second, Third, Op
  <2>2. QED BY <1>1, <1>2, <2>1 DEF IInv, ChainInv
<1>4. CountInv'  BY <1>1, <1>2 DEF IInv, CountInv
<1>5. PlaceInv'  BY <1>1, <1>2 DEF IInv, PlaceInv
<1>6. QED BY <1>1, <1>2, <1>3, <1>4, <1>5 DEF IInv, DataInv

LEMMA BufField ==
    ASSUME buf \in [Proc -> [data : Data, valid : {0, 1}, disk : {0, 1}]],
           NEW p \in Proc
    PROVE  /\ \A d \in Data : [buf EXCEPT ![p].data = d]
                 \in [Proc -> [data : Data, valid : {0, 1}, disk : {0, 1}]]
           /\ \A v \in {0, 1} : [buf EXCEPT ![p].valid = v]
                 \in [Proc -> [data : Data, valid : {0, 1}, disk : {0, 1}]]
           /\ \A v \in {0, 1} : [buf EXCEPT ![p].disk = v]
                 \in [Proc -> [data : Data, valid : {0, 1}, disk : {0, 1}]]
<1> DEFINE R == [data : Data, valid : {0, 1}, disk : {0, 1}]
<1>1. buf[p] \in R  OBVIOUS
<1>2. ASSUME NEW r \in R PROVE [buf EXCEPT ![p] = r] \in [Proc -> R]
  OBVIOUS
<1>3. \A d \in Data : [buf[p] EXCEPT !.data = d] \in R  BY <1>1
<1>4. \A v \in {0, 1} : [buf[p] EXCEPT !.valid = v] \in R  BY <1>1
<1>5. \A v \in {0, 1} : [buf[p] EXCEPT !.disk = v] \in R  BY <1>1
<1> HIDE DEF R
<1>6. /\ \A d \in Data : [buf EXCEPT ![p].data = d] \in [Proc -> R]
      /\ \A v \in {0, 1} : [buf EXCEPT ![p].valid = v] \in [Proc -> R]
      /\ \A v \in {0, 1} : [buf EXCEPT ![p].disk = v] \in [Proc -> R]
  BY <1>2, <1>3, <1>4, <1>5
<1>7. QED BY <1>6 DEF R

LEMMA BreadIInv ==
    ASSUME IInv, NEW p \in Proc, NEW d \in Data, Bread(p, d) PROVE IInv'
<1>1. /\ buf' = [buf EXCEPT ![p] = [data |-> d, valid |-> 0, disk |-> 0]]
      /\ pc' = [pc EXCEPT ![p] = "start"] /\ pc[p] = "idle"
      /\ UNCHANGED <<ringVars, deviceVars, used_idx, irq, handler, idx, panicked>>
  BY DEF Bread, Goto, vdiskVars
<1>2. TypeOK' /\ panicked' = 0
  BY <1>1 DEF IInv, TypeOK, ringVars, deviceVars
<1>3. p \notin Active /\ p \notin Pending
  BY <1>1 DEF IInv, CallInv, Pending
<1>4. \A q \in Active : buf'[q] = buf[q]
  BY <1>1, <1>3 DEF IInv, TypeOK, Active
<1>5. Pending' = Pending
  BY <1>1, <1>3 DEF IInv, TypeOK, Pending
<1>6. /\ Active' = Active
      /\ ChainInv' /\ CountInv' /\ PlaceInv'
      /\ \A i \in 0 .. Unseen' - 1, q \in Active' : UsedAt(i)' = idx'[q] =>
            buf'[q].data = media'[q] /\ info'[idx'[q]].status = 0
  BY <1>1, <1>4, <1>5, QuietStep
<1>7. CallInv'
  BY <1>1, <1>3, <1>6 DEF IInv, TypeOK, CallInv, ringVars, deviceVars
<1>8. DataInv'
  BY <1>1, <1>3, <1>6 DEF IInv, TypeOK, DataInv, ringVars, deviceVars
<1>9. QED BY <1>2, <1>6, <1>7, <1>8 DEF IInv

LEMMA BwriteIInv ==
    ASSUME IInv, NEW p \in Proc, NEW d \in Data, Bwrite(p, d) PROVE IInv'
<1>1. /\ buf' = [buf EXCEPT ![p].data = d]
      /\ pc' = [pc EXCEPT ![p] = "start"] /\ pc[p] = "idle"
      /\ UNCHANGED <<ringVars, deviceVars, used_idx, irq, handler, idx, panicked>>
  BY DEF Bwrite, Goto, vdiskVars
<1>2. TypeOK' /\ panicked' = 0
  <2>1. buf' \in [Proc -> [data : Data, valid : {0, 1}, disk : {0, 1}]]
    BY Zenon, <1>1, BufField DEF IInv, TypeOK
  <2>2. QED BY <1>1, <2>1 DEF IInv, TypeOK, ringVars, deviceVars
<1>3. p \notin Active /\ p \notin Pending
  BY <1>1 DEF IInv, CallInv, Pending
<1>4. \A q \in Active : buf'[q] = buf[q]
  BY <1>1, <1>3 DEF IInv, TypeOK, Active
<1>5. Pending' = Pending
  BY <1>1, <1>3 DEF IInv, TypeOK, Pending
<1>6. /\ Active' = Active
      /\ ChainInv' /\ CountInv' /\ PlaceInv'
      /\ \A i \in 0 .. Unseen' - 1, q \in Active' : UsedAt(i)' = idx'[q] =>
            buf'[q].data = media'[q] /\ info'[idx'[q]].status = 0
  BY <1>1, <1>4, <1>5, QuietStep
<1>7. CallInv'
  BY <1>1, <1>3, <1>6 DEF IInv, TypeOK, CallInv, ringVars, deviceVars
<1>8. DataInv'
  BY <1>1, <1>3, <1>6 DEF IInv, TypeOK, DataInv, ringVars, deviceVars
<1>9. QED BY <1>2, <1>6, <1>7, <1>8 DEF IInv

\* Steps that only move processes, or the handler.
LEMMA MoveIInv ==
    ASSUME IInv, UNCHANGED <<buf, ringVars, deviceVars, used_idx, idx, panicked>>,
           irq' \in {0, 1}, handler' \in {0, 1},
           pc' \in [Proc -> {"idle", "start", "nodesc", "wait", "woken"}],
           \A q \in Proc :
              /\ pc'[q] \in {"wait", "woken"} <=> pc[q] \in {"wait", "woken"}
              /\ pc'[q] = "wait" => buf[q].disk = 1
              /\ pc'[q] = "nodesc" => Cardinality(free) < 3
              /\ pc'[q] = "idle" => pc[q] = "idle",
           used_idx # used.idx => irq' = 1 \/ handler' = 1
    PROVE  IInv'
<1>1. /\ desc' = desc /\ free' = free /\ info' = info /\ avail' = avail
      /\ media' = media /\ used' = used /\ taken' = taken
      /\ inflight' = inflight /\ used_idx' = used_idx /\ idx' = idx
      /\ buf' = buf /\ panicked' = panicked
  BY DEF ringVars, deviceVars
<1>2. TypeOK' /\ panicked' = 0  BY <1>1 DEF IInv, TypeOK
<1>3. Pending' = Pending  BY <1>1 DEF Pending
<1>4. /\ Active' = Active
      /\ ChainInv' /\ CountInv' /\ PlaceInv'
      /\ \A i \in 0 .. Unseen' - 1, q \in Active' : UsedAt(i)' = idx'[q] =>
            buf'[q].data = media'[q] /\ info'[idx'[q]].status = 0
  BY <1>1, <1>3, QuietStep
<1>5. CallInv'  BY <1>1, <1>4 DEF IInv, CallInv
<1>6. DataInv'  BY <1>1, <1>4 DEF IInv, DataInv
<1>7. QED BY <1>2, <1>4, <1>5, <1>6 DEF IInv

LEMMA NoDescriptorsIInv ==
    ASSUME IInv, NEW p \in Proc, NoDescriptors(p) PROVE IInv'
<1>1. /\ pc[p] = "start" /\ Cardinality(free) < 3
      /\ pc' = [(IF free = {} THEN pc ELSE Freed(pc)) EXCEPT ![p] = "nodesc"]
      /\ UNCHANGED <<buf, ringVars, deviceVars, used_idx, irq, handler, idx,
                     panicked>>
  BY DEF NoDescriptors, vdiskVars
<1>2. /\ pc' \in [Proc -> {"idle", "start", "nodesc", "wait", "woken"}]
      /\ \A q \in Proc : \/ pc'[q] = pc[q]
                         \/ pc'[q] = "nodesc" /\ q = p
                         \/ pc[q] = "nodesc" /\ pc'[q] = "start"
  <2> DEFINE f == IF free = {} THEN pc ELSE Freed(pc)
  <2>1. /\ f \in [Proc -> {"idle", "start", "nodesc", "wait", "woken"}]
        /\ \A q \in Proc : f[q] = pc[q] \/ (pc[q] = "nodesc" /\ f[q] = "start")
    BY DEF IInv, TypeOK, Freed
  <2>2. pc' = [f EXCEPT ![p] = "nodesc"]  BY <1>1
  <2> HIDE DEF f
  <2>3. QED BY <2>1, <2>2
<1>3. /\ \A q \in Proc :
              /\ pc'[q] \in {"wait", "woken"} <=> pc[q] \in {"wait", "woken"}
              /\ pc'[q] = "wait" => buf[q].disk = 1
              /\ pc'[q] = "nodesc" => Cardinality(free) < 3
              /\ pc'[q] = "idle" => pc[q] = "idle"
      /\ irq' \in {0, 1} /\ handler' \in {0, 1}
      /\ used_idx # used.idx => irq' = 1 \/ handler' = 1
  BY <1>1, <1>2 DEF IInv, TypeOK, CallInv
<1>4. QED BY <1>1, <1>2, <1>3, MoveIInv

LEMMA SleepAgainIInv ==
    ASSUME IInv, NEW p \in Proc, SleepAgain(p) PROVE IInv'
<1>1. /\ pc[p] = "woken" /\ buf[p].disk = 1
      /\ pc' = [pc EXCEPT ![p] = "wait"]
      /\ UNCHANGED <<buf, ringVars, deviceVars, used_idx, irq, handler, idx,
                     panicked>>
  BY DEF SleepAgain, Goto, vdiskVars
<1>2. pc' \in [Proc -> {"idle", "start", "nodesc", "wait", "woken"}]
  BY <1>1 DEF IInv, TypeOK
<1>3. /\ \A q \in Proc :
              /\ pc'[q] \in {"wait", "woken"} <=> pc[q] \in {"wait", "woken"}
              /\ pc'[q] = "wait" => buf[q].disk = 1
              /\ pc'[q] = "nodesc" => Cardinality(free) < 3
              /\ pc'[q] = "idle" => pc[q] = "idle"
      /\ irq' \in {0, 1} /\ handler' \in {0, 1}
      /\ used_idx # used.idx => irq' = 1 \/ handler' = 1
  BY <1>1 DEF IInv, TypeOK, CallInv
<1>4. QED BY <1>1, <1>2, <1>3, MoveIInv

LEMMA KillIInv ==
    ASSUME IInv, NEW p \in Proc, Kill(p) PROVE IInv'
<1>1. /\ \/ pc[p] = "nodesc" /\ pc' = [pc EXCEPT ![p] = "start"]
         \/ pc[p] = "wait" /\ pc' = [pc EXCEPT ![p] = "woken"]
      /\ UNCHANGED <<buf, ringVars, deviceVars, used_idx, irq, handler, idx,
                     panicked>>
  BY DEF Kill, Goto, vdiskVars
<1>2. pc' \in [Proc -> {"idle", "start", "nodesc", "wait", "woken"}]
  BY <1>1 DEF IInv, TypeOK
<1>3. /\ \A q \in Proc :
              /\ pc'[q] \in {"wait", "woken"} <=> pc[q] \in {"wait", "woken"}
              /\ pc'[q] = "wait" => buf[q].disk = 1
              /\ pc'[q] = "nodesc" => Cardinality(free) < 3
              /\ pc'[q] = "idle" => pc[q] = "idle"
      /\ irq' \in {0, 1} /\ handler' \in {0, 1}
      /\ used_idx # used.idx => irq' = 1 \/ handler' = 1
  BY <1>1 DEF IInv, TypeOK, CallInv
<1>4. QED BY <1>1, <1>2, <1>3, MoveIInv

LEMMA IntrEdgeIInv == ASSUME IInv, IntrStart \/ IntrEnd PROVE IInv'
<1>1. /\ \/ irq' = 0 /\ handler' = 1
         \/ irq' = irq /\ handler' = 0 /\ used_idx = used.idx
      /\ UNCHANGED <<buf, ringVars, deviceVars, used_idx, idx, panicked>>
      /\ pc' = pc
  BY DEF IntrStart, IntrEnd, LoopOver
<1>2. /\ irq' \in {0, 1} /\ handler' \in {0, 1}
      /\ pc' \in [Proc -> {"idle", "start", "nodesc", "wait", "woken"}]
  BY <1>1 DEF IInv, TypeOK
<1>3. /\ \A q \in Proc :
              /\ pc'[q] \in {"wait", "woken"} <=> pc[q] \in {"wait", "woken"}
              /\ pc'[q] = "wait" => buf[q].disk = 1
              /\ pc'[q] = "nodesc" => Cardinality(free) < 3
              /\ pc'[q] = "idle" => pc[q] = "idle"
      /\ used_idx # used.idx => irq' = 1 \/ handler' = 1
  BY <1>1 DEF IInv, CallInv
<1>4. QED BY <1>1, <1>2, <1>3, MoveIInv

-----------------------------------------------------------------------------
(* The device. *)

LEMMA DeviceTakeIInv == ASSUME IInv, DeviceTake PROVE IInv'
<1> DEFINE x == avail.ring[taken % NUM]
           ring == avail.ring
<1>1. /\ taken # avail.idx /\ inflight' = inflight \cup {x}
      /\ taken' = Inc(taken)
      /\ avail' = [avail EXCEPT !.ring[taken % NUM] = Unset]
      /\ buf' = buf /\ media' = media /\ desc' = desc /\ free' = free
      /\ info' = info /\ used' = used /\ used_idx' = used_idx /\ irq' = irq
      /\ handler' = handler /\ pc' = pc /\ idx' = idx /\ panicked' = panicked
  BY DEF DeviceTake
<1>2. /\ ring \in [Desc -> Desc \cup {Unset}]
      /\ taken \in 0 .. Wrap - 1 /\ avail.idx \in 0 .. Wrap - 1
      /\ avail = [ring |-> ring, idx |-> avail.idx]
  BY DEF IInv, TypeOK
<1>3. /\ avail'.ring = [ring EXCEPT ![taken % NUM] = Unset]
      /\ avail'.idx = avail.idx
  BY <1>1, <1>2
<1>4. Queued < NUM /\ Queued \in Nat
  BY Sizes, RingSize
<1>5. /\ Inc(taken) \in 0 .. Wrap - 1 /\ taken % NUM \in Desc
      /\ Queued # 0 /\ Queued' = Queued - 1 /\ AvailAt(0) = x
      /\ \A i \in 0 .. Queued - 2 : AvailAt(i)' = AvailAt(i + 1)
  <2> DEFINE new == avail'.ring  end == avail.idx  n == Queued
  <2>1. /\ \A d \in Desc : d # taken % NUM => new[d] = ring[d]
        /\ ring \in Rings /\ new \in Rings
        /\ taken # end /\ taken \in 0 .. Wrap - 1 /\ end \in 0 .. Wrap - 1
        /\ n \in Nat /\ Between(taken, end) = n /\ n < NUM
    BY Zenon, <1>1, <1>2, <1>3, <1>4 DEF Queued, Rings
  <2> HIDE DEF ring, new, end, n
  <2>2. /\ Inc(taken) \in 0 .. Wrap - 1 /\ taken % NUM \in Desc
        /\ n # 0 /\ Between(Inc(taken), end) = n - 1
        /\ Entry(ring, taken, 0) = ring[taken % NUM]
        /\ \A i \in 0 .. n - 2 :
              Entry(new, Inc(taken), i) = Entry(ring, taken, i + 1)
    BY SMTT(20), <2>1, RingTake
  <2>3. QED BY Zenon, <1>1, <1>3, <2>1, <2>2
    DEF Queued, AvailAt, ring, new, end, n, x
<1> HIDE DEF x, ring
<1>6. /\ Active' = Active /\ Pending' = Pending /\ Unseen' = Unseen
      /\ \A i : UsedAt(i)' = UsedAt(i)
      /\ \A p : Second(p)' = Second(p) /\ Third(p)' = Third(p) /\ Op(p)' = Op(p)
  BY <1>1 DEF Active, Pending, Unseen, UsedAt, Second, Third, Op
<1>7. /\ \E p \in Pending : x = idx[p]
      /\ x \notin inflight
      /\ \A i \in 1 .. Queued - 1 : AvailAt(i) # x
      /\ \A j \in 0 .. Unseen - 1 : UsedAt(j) # x
  <2>1. 0 \in 0 .. Queued - 1  BY <1>4, <1>5
  <2>2. \A i \in 1 .. Queued - 1 : i \in 0 .. Queued - 1 /\ i # 0  BY <1>4
  <2>3. QED BY <1>5, <2>1, <2>2 DEF IInv, PlaceInv
<1>8. x \in Desc
  BY <1>7, Sizes DEF IInv, TypeOK, Active
<1>9. TypeOK' /\ panicked' = 0
  <2>1. avail' \in [ring : [Desc -> Desc \cup {Unset}], idx : 0 .. Wrap - 1]
    <3>1. [ring EXCEPT ![taken % NUM] = Unset] \in [Desc -> Desc \cup {Unset}]
      BY Zenon, <1>2
    <3>2. avail' = [ring |-> [ring EXCEPT ![taken % NUM] = Unset],
                    idx |-> avail.idx]
      BY <1>1, <1>2
    <3>3. QED BY <1>2, <3>1, <3>2
  <2>2. inflight' \in SUBSET Desc  BY <1>1, <1>8 DEF IInv, TypeOK
  <2>3. taken' \in 0 .. Wrap - 1  BY <1>1, <1>5
  <2>4. QED BY SMTT(30), <1>1, <2>1, <2>2, <2>3 DEF IInv, TypeOK
<1>10. ChainInv'  BY <1>1, <1>6 DEF IInv, ChainInv
<1>11. CountInv'
  <2>1. Cardinality(inflight') = Cardinality(inflight) + 1
    BY <1>1, <1>7, Sizes, AddOne
  <2>2. Queued' + Cardinality(inflight') + Unseen' = Cardinality(Pending')
    BY <1>5, <1>6, <2>1, Sizes
  <2>3. QED BY <1>1, <1>6, <2>2 DEF IInv, CountInv
<1>12. PlaceInv'
  <2>1. \A i \in 0 .. Queued' - 1 :
            /\ i \in 0 .. Queued - 2 /\ i + 1 \in 0 .. Queued - 1
            /\ i + 1 \in 1 .. Queued - 1
            /\ AvailAt(i)' = AvailAt(i + 1)
    BY <1>4, <1>5
  <2>2. \A i \in 0 .. Queued' - 1 : \E p \in Pending' : AvailAt(i)' = idx'[p]
    BY <1>1, <1>6, <2>1 DEF IInv, PlaceInv
  <2>3. \A d \in inflight' : \E p \in Pending' : d = idx'[p]
    BY <1>1, <1>6, <1>7 DEF IInv, PlaceInv
  <2>4. \A i, j \in 0 .. Queued' - 1 : i # j => AvailAt(i)' # AvailAt(j)'
    <3>1. \A i, j \in 0 .. Queued' - 1 : i # j => i + 1 # j + 1  BY <1>5
    <3>2. QED BY <2>1, <3>1 DEF IInv, PlaceInv
  <2>5. \A i \in 0 .. Queued' - 1 : AvailAt(i)' \notin inflight'
    BY <1>1, <1>7, <2>1 DEF IInv, PlaceInv
  <2>6. \A i \in 0 .. Unseen' - 1 : UsedAt(i)' \notin inflight'
    BY <1>1, <1>6, <1>7 DEF IInv, PlaceInv
  <2>7. \A i \in 0 .. Queued' - 1, j \in 0 .. Unseen' - 1 :
            AvailAt(i)' # UsedAt(j)'
    BY <1>6, <2>1 DEF IInv, PlaceInv
  <2>8. /\ \A i \in 0 .. Unseen' - 1 : \E p \in Pending' : UsedAt(i)' = idx'[p]
        /\ \A i, j \in 0 .. Unseen' - 1 : i # j => UsedAt(i)' # UsedAt(j)'
    BY <1>1, <1>6 DEF IInv, PlaceInv
  <2>9. QED BY <2>2, <2>3, <2>4, <2>5, <2>6, <2>7, <2>8 DEF PlaceInv
<1>13. CallInv' /\ DataInv'
  BY SMTT(30), <1>1, <1>6 DEF IInv, CallInv, DataInv
<1>14. QED BY <1>9, <1>10, <1>11, <1>12, <1>13 DEF IInv

\* The chain of a request under way leads the device to the operation, the
\* block, the buffer and the status byte of that request.
LEMMA DeviceSees ==
    ASSUME IInv, NEW p \in Pending, NEW d, d = idx[p]
    PROVE  /\ p \in Proc /\ p \in Active /\ d \in Desc
           /\ desc[d].addr = <<Op(p), p>> /\ desc[desc[d].next].addr = p
           /\ desc[desc[desc[d].next].next].addr = d
           /\ info[d].b = p
<1>1. p \in Proc /\ p \in Active  BY Sizes DEF Active
<1>2. d \in Desc  BY <1>1 DEF IInv, TypeOK, Active
<1>3. QED BY ZenonT(40), <1>1, <1>2 DEF IInv, ChainInv, Second, Third

LEMMA ChainSame ==
    ASSUME ChainInv, Active' = Active, idx' = idx, desc' = desc, free' = free,
           \A q \in Active : Op(q)' = Op(q) /\ info'[idx[q]].b = info[idx[q]].b
    PROVE  ChainInv'
<1>1. \A q \in Active : Second(q)' = Second(q) /\ Third(q)' = Third(q)
  BY DEF Second, Third
<1>2. \A q \in Active' :
          /\ Second(q)' \in Desc /\ Third(q)' \in Desc
          /\ desc'[Third(q)'].next = Unset
          /\ idx'[q] # Second(q)' /\ idx'[q] # Third(q)' /\ Second(q)' # Third(q)'
          /\ idx'[q] \notin free' /\ Second(q)' \notin free'
          /\ Third(q)' \notin free'
          /\ desc'[idx'[q]].addr = <<Op(q)', q>>
          /\ desc'[Second(q)'].addr = q
          /\ desc'[Third(q)'].addr = idx'[q]
          /\ info'[idx'[q]].b = q
  BY <1>1 DEF ChainInv
<1>3. \A q, r \in Active' :
          q # r => {idx'[q], Second(q)', Third(q)'}
                     \cap {idx'[r], Second(r)', Third(r)'} = {}
    <2>1. ASSUME NEW q \in Active', NEW r \in Active', q # r
          PROVE  {idx'[q], Second(q)', Third(q)'}
                    \cap {idx'[r], Second(r)', Third(r)'} = {}
      <3>1. /\ q \in Active /\ r \in Active
            /\ idx'[q] = idx[q] /\ idx'[r] = idx[r]
        BY <1>1
      <3>2. {idx[q], Second(q), Third(q)} \cap {idx[r], Second(r), Third(r)} = {}
        BY Zenon, <2>1, <3>1 DEF ChainInv
      <3>3. /\ Second(q)' = Second(q) /\ Third(q)' = Third(q)
            /\ Second(r)' = Second(r) /\ Third(r)' = Third(r)
        BY <1>1, <3>1
      <3>4. QED BY <3>1, <3>2, <3>3
    <2>2. QED BY Zenon, <2>1
<1>4. QED BY Zenon, <1>2, <1>3 DEF ChainInv

LEMMA DeviceDoneIInv ==
    ASSUME IInv, NEW d \in Desc, DeviceDone(d) PROVE IInv'
<1> DEFINE ring == used.ring
<1>1. PICK p \in Pending : d = idx[p]
  BY ZenonT(40) DEF DeviceDone, IInv, PlaceInv
<1>2. /\ p \in Proc /\ p \in Active
      /\ desc[d].addr = <<Op(p), p>> /\ desc[desc[d].next].addr = p
      /\ desc[desc[desc[d].next].next].addr = d
      /\ info[d].b = p
  BY <1>1, DeviceSees
<1>3. \/ /\ buf' = [buf EXCEPT ![p].data = media[p]] /\ media' = media
      \/ /\ media' = [media EXCEPT ![p] = buf[p].data] /\ buf' = buf
  BY <1>2 DEF DeviceDone
<1>4. /\ d \in inflight /\ info' = [info EXCEPT ![d].status = 0]
      /\ used' = [ring |-> [ring EXCEPT ![used.idx % NUM] = d],
                  idx |-> Inc(used.idx)]
      /\ inflight' = inflight \ {d} /\ irq' = 1
      /\ desc' = desc /\ free' = free /\ avail' = avail /\ taken' = taken
      /\ used_idx' = used_idx /\ handler' = handler /\ pc' = pc /\ idx' = idx
      /\ panicked' = panicked
  BY <1>2 DEF DeviceDone
<1>5. /\ buf \in [Proc -> [data : Data, valid : {0, 1}, disk : {0, 1}]]
      /\ media \in [Proc -> Data]
      /\ info \in [Desc -> [b : Proc \cup {Nobody}, status : {0, 255}]]
      /\ ring \in [Desc -> Desc \cup {Unset}]
      /\ used_idx \in 0 .. Wrap - 1 /\ used.idx \in 0 .. Wrap - 1
  BY DEF IInv, TypeOK
<1>6. /\ buf' \in [Proc -> [data : Data, valid : {0, 1}, disk : {0, 1}]]
      /\ media' \in [Proc -> Data]
  <2>1. buf[p].data \in Data /\ media[p] \in Data  BY <1>2, <1>5
  <2>2. CASE buf' = [buf EXCEPT ![p].data = media[p]] /\ media' = media
    BY Zenon, <1>2, <1>5, <2>1, <2>2, BufField
  <2>3. CASE media' = [media EXCEPT ![p] = buf[p].data] /\ buf' = buf
    BY <1>2, <1>5, <2>1, <2>3
  <2>4. QED BY <1>3, <2>2, <2>3
<1>7. /\ buf'[p].data = media'[p]
      /\ \A q \in Proc : /\ buf'[q].valid = buf[q].valid
                         /\ buf'[q].disk = buf[q].disk
                         /\ q # p => buf'[q] = buf[q] /\ media'[q] = media[q]
  BY <1>2, <1>3, <1>5
<1>8. /\ info' \in [Desc -> [b : Proc \cup {Nobody}, status : {0, 255}]]
      /\ info'[d].status = 0
      /\ \A e \in Desc : info'[e].b = info[e].b
      /\ \A e \in Desc : e # d => info'[e] = info[e]
  BY <1>4, <1>5
<1>9. Unseen + 1 < NUM /\ Unseen \in Nat
  <2>1. /\ Cardinality(inflight) = Cardinality(inflight \ {d}) + 1
        /\ Cardinality(inflight \ {d}) \in Nat
    BY <1>4, Sizes, RemoveOne
  <2>2. QED BY <2>1, Sizes, RingSize
<1>10. /\ used'.idx \in 0 .. Wrap - 1 /\ used'.ring \in Rings
       /\ Unseen' = Unseen + 1
       /\ \A i \in Nat : i = Unseen => UsedAt(i)' = d
       /\ \A i \in 0 .. Unseen - 1 : UsedAt(i)' = UsedAt(i)
  <2> DEFINE new == used'.ring  end == used.idx  n == Unseen
  <2>1. /\ \A e \in Desc : e # end % NUM => new[e] = ring[e]
        /\ ring \in Rings /\ new \in Rings
        /\ used_idx \in 0 .. Wrap - 1 /\ end \in 0 .. Wrap - 1
        /\ n \in Nat /\ Between(used_idx, end) = n /\ n + 1 < NUM
    BY ZenonT(40), <1>4, <1>5, <1>9 DEF Unseen, Rings
  <2> HIDE DEF ring, new, end, n
  <2>2. /\ Inc(end) \in 0 .. Wrap - 1 /\ end % NUM \in Desc
        /\ Between(used_idx, Inc(end)) = n + 1
        /\ \A i \in 0 .. n - 1 :
              Entry(new, used_idx, i) = Entry(ring, used_idx, i)
        /\ Entry(new, used_idx, n) = new[end % NUM]
    BY SMTT(20), <2>1, RingPut
  <2>3. new[end % NUM] = d /\ used'.idx = Inc(end)
    BY <1>4, <1>5, <2>2 DEF new, end, ring
  <2>4. /\ Unseen' = n + 1
        /\ \A i : UsedAt(i)' = Entry(new, used_idx, i)
        /\ \A i : UsedAt(i) = Entry(ring, used_idx, i)
    BY Zenon, <1>4, <2>2, <2>3 DEF Unseen, UsedAt, new, ring
  <2>5. n = Unseen  BY DEF n
  <2>6. QED BY Zenon, <2>1, <2>2, <2>3, <2>4, <2>5 DEF new
<1> HIDE DEF ring
<1>11. /\ Active' = Active /\ Pending' = Pending /\ Queued' = Queued
       /\ \A i : AvailAt(i)' = AvailAt(i)
       /\ \A q \in Proc : Op(q)' = Op(q)
  BY <1>4, <1>7 DEF Active, Pending, Queued, AvailAt, Op
<1>12. TypeOK' /\ panicked' = 0
  <2>1. used' \in [ring : [Desc -> Desc \cup {Unset}], idx : 0 .. Wrap - 1]
    BY <1>4, <1>10 DEF Rings
  <2>2. QED BY <1>4, <1>6, <1>8, <2>1 DEF IInv, TypeOK
<1>13. ChainInv'
  <2>1. \A q \in Active : q \in Proc /\ idx[q] \in Desc
    BY DEF IInv, TypeOK, Active
  <2>2. \A q \in Active : Op(q)' = Op(q) /\ info'[idx[q]].b = info[idx[q]].b
    BY <1>8, <1>11, <2>1
  <2>3. ChainInv /\ Active' = Active /\ desc' = desc /\ idx' = idx /\ free' = free
    BY <1>4, <1>11 DEF IInv
  <2>4. QED BY <2>2, <2>3, ChainSame
<1>14. CountInv'
  <2>1. /\ Cardinality(inflight) = Cardinality(inflight') + 1
        /\ Cardinality(inflight') \in Nat
    BY <1>4, Sizes, RemoveOne
  <2>2. Queued' + Cardinality(inflight') + Unseen' = Cardinality(Pending')
    BY <1>10, <1>11, <2>1, Sizes
  <2>3. QED BY <1>4, <1>11, <2>2 DEF IInv, CountInv
<1>15. \A i \in 0 .. Unseen' - 1 :
           \/ i \in 0 .. Unseen - 1 /\ UsedAt(i)' = UsedAt(i)
           \/ i = Unseen /\ UsedAt(i)' = d
  <2>1. \A i \in 0 .. Unseen' - 1 : i \in Nat /\ (i \in 0 .. Unseen - 1 \/ i = Unseen)
    BY <1>9, <1>10
  <2>2. QED BY Zenon, <1>10, <2>1
<1>16. \A i \in 0 .. Unseen - 1 : UsedAt(i) # d
  BY <1>4 DEF IInv, PlaceInv
<1>17. PlaceInv'
  <2>1. \A i \in 0 .. Unseen' - 1 : \E q \in Pending' : UsedAt(i)' = idx'[q]
    BY SMTT(30), <1>1, <1>4, <1>11, <1>15 DEF IInv, PlaceInv
  <2>2. \A i, j \in 0 .. Unseen' - 1 : i # j => UsedAt(i)' # UsedAt(j)'
    BY <1>15, <1>16 DEF IInv, PlaceInv
  <2>3. \A i \in 0 .. Unseen' - 1 : UsedAt(i)' \notin inflight'
    BY <1>4, <1>15 DEF IInv, PlaceInv
  <2>4. \A i \in 0 .. Queued' - 1, j \in 0 .. Unseen' - 1 :
            AvailAt(i)' # UsedAt(j)'
    <3>1. \A i \in 0 .. Queued - 1 : AvailAt(i) # d
      BY <1>4 DEF IInv, PlaceInv
    <3>2. QED BY <1>11, <1>15, <3>1 DEF IInv, PlaceInv
  <2>5. /\ \A i \in 0 .. Queued' - 1 : \E q \in Pending' : AvailAt(i)' = idx'[q]
        /\ \A e \in inflight' : \E q \in Pending' : e = idx'[q]
        /\ \A i, j \in 0 .. Queued' - 1 : i # j => AvailAt(i)' # AvailAt(j)'
        /\ \A i \in 0 .. Queued' - 1 : AvailAt(i)' \notin inflight'
    BY <1>4, <1>11 DEF IInv, PlaceInv
  <2>6. QED BY <2>1, <2>2, <2>3, <2>4, <2>5 DEF PlaceInv
<1>18. CallInv'
  BY SMTT(30), <1>4, <1>7, <1>11 DEF IInv, CallInv
<1>19. DataInv'
  <2>1. buf[p].disk = 1 /\ pc[p] # "idle"
    BY <1>1, <1>2 DEF Pending, IInv, CallInv
  <2>2. \A q \in Proc :
          \/ pc'[q] = "idle" /\ buf'[q].valid = 1
          \/ q \in Active' /\ buf'[q].disk = 0
          => buf'[q].data = media'[q]
    BY SMTT(30), <1>4, <1>7, <1>11, <2>1 DEF IInv, DataInv
  <2>3. ASSUME NEW i \in 0 .. Unseen' - 1, NEW q \in Active', UsedAt(i)' = idx'[q]
        PROVE  buf'[q].data = media'[q] /\ info'[idx'[q]].status = 0
    <3>1. q \in Active /\ q \in Proc /\ idx'[q] = idx[q] /\ idx[q] \in Desc
      BY SMTT(30), <1>4, <1>11 DEF Active, IInv, TypeOK
    <3>2. CASE i \in 0 .. Unseen - 1 /\ UsedAt(i)' = UsedAt(i)
      <4>1. UsedAt(i) = idx[q] /\ idx[q] # d /\ q # p
        BY SMTT(30), <1>1, <1>16, <2>3, <3>1, <3>2
      <4>2. buf[q].data = media[q] /\ info[idx[q]].status = 0
        BY SMTT(30), <3>1, <3>2, <4>1 DEF IInv, DataInv
      <4>3. QED BY <1>7, <1>8, <3>1, <4>1, <4>2
    <3>3. CASE UsedAt(i)' = d
      <4>1. q = p  BY <1>1, <1>2, <2>3, <3>1, <3>3, OneOwner DEF IInv
      <4>2. QED BY SMTT(30), <1>1, <1>7, <1>8, <3>1, <4>1
    <3>4. QED BY <1>15, <3>2, <3>3
  <2>4. QED BY SMTT(30), <2>2, <2>3 DEF DataInv
<1>20. QED BY SMTT(30), <1>12, <1>13, <1>14, <1>17, <1>18, <1>19 DEF IInv

-----------------------------------------------------------------------------
(* The interrupt handler. *)

LEMMA IntrNextIInv == ASSUME IInv, IntrNext PROVE IInv'
<1> DEFINE d == used.ring[used_idx % NUM]
           ring == used.ring
<1>1. /\ ring \in Rings
      /\ used_idx \in 0 .. Wrap - 1 /\ used.idx \in 0 .. Wrap - 1
      /\ used = [ring |-> ring, idx |-> used.idx]
      /\ buf \in [Proc -> [data : Data, valid : {0, 1}, disk : {0, 1}]]
      /\ pc \in [Proc -> {"idle", "start", "nodesc", "wait", "woken"}]
  BY SMTT(30) DEF IInv, TypeOK, Rings
<1>2. used_idx # used.idx /\ handler = 1  BY Zenon DEF IntrNext
<1>3. Unseen < NUM /\ Unseen \in Nat  BY Sizes, RingSize
<1> DEFINE new == [ring EXCEPT ![used_idx % NUM] = Unset]
<1>4. /\ Inc(used_idx) \in 0 .. Wrap - 1 /\ used_idx % NUM \in Desc
      /\ new \in Rings
      /\ Unseen # 0 /\ Between(Inc(used_idx), used.idx) = Unseen - 1
      /\ UsedAt(0) = d
      /\ \A i \in 0 .. Unseen - 2 : Entry(new, Inc(used_idx), i) = UsedAt(i + 1)
  <2> DEFINE end == used.idx  n == Unseen
  <2>1. /\ \A e \in Desc : e # used_idx % NUM => new[e] = ring[e]
        /\ ring \in Rings /\ new \in Rings /\ used_idx # end
        /\ used_idx \in 0 .. Wrap - 1 /\ end \in 0 .. Wrap - 1
        /\ n \in Nat /\ Between(used_idx, end) = n /\ n < NUM
    BY ZenonT(40), <1>1, <1>2, <1>3 DEF Unseen, Rings
  <2> HIDE DEF ring, new, end, n
  <2>2. /\ Inc(used_idx) \in 0 .. Wrap - 1 /\ used_idx % NUM \in Desc
        /\ n # 0 /\ Between(Inc(used_idx), end) = n - 1
        /\ Entry(ring, used_idx, 0) = ring[used_idx % NUM]
        /\ \A i \in 0 .. n - 2 :
              Entry(new, Inc(used_idx), i) = Entry(ring, used_idx, i + 1)
    BY SMTT(20), <2>1, RingTake
  <2>3. QED BY Zenon, <2>1, <2>2 DEF UsedAt, ring, end, n, d
<1>5. 0 \in 0 .. Unseen - 1  BY <1>3, <1>4
<1>6. PICK p \in Pending : d = idx[p]
  BY <1>4, <1>5 DEF IInv, PlaceInv
<1>7. p \in Proc /\ p \in Active /\ d \in Desc /\ info[d].b = p
  BY <1>6, DeviceSees
<1>8. info[d].status = 0 /\ buf[p].data = media[p]
  BY <1>4, <1>5, <1>6, <1>7 DEF IInv, DataInv
<1>9. /\ buf' = [buf EXCEPT ![p].disk = 0]
      /\ pc' = [pc EXCEPT ![p] = IF @ = "wait" THEN "woken" ELSE @]
      /\ used' = [used EXCEPT !.ring[used_idx % NUM] = Unset]
      /\ used_idx' = Inc(used_idx) /\ panicked' = panicked
  BY SMTT(30), <1>7, <1>8 DEF IntrNext, Wakeup
<1>10. /\ desc' = desc /\ free' = free /\ info' = info /\ avail' = avail
       /\ media' = media /\ taken' = taken /\ inflight' = inflight
       /\ irq' = irq /\ handler' = handler /\ idx' = idx
  BY Zenon DEF IntrNext, ringVars
<1>11. used' = [ring |-> new, idx |-> used.idx]
  BY <1>1, <1>9
<1>12. /\ Unseen' = Unseen - 1
       /\ \A i \in 0 .. Unseen - 2 : UsedAt(i)' = UsedAt(i + 1)
  <2> HIDE DEF new
  <2>1. used'.ring = new /\ used'.idx = used.idx  BY <1>11
  <2>2. QED BY Zenon, <1>4, <1>9, <2>1 DEF Unseen, UsedAt
<1> HIDE DEF d, ring, new
<1>13. pc[p] \in {"wait", "woken"} /\ buf[p].disk = 1
  BY <1>6, <1>7 DEF IInv, CallInv, Pending
<1>14. /\ \A q \in Proc : buf'[q].valid = buf[q].valid /\ buf'[q].data = buf[q].data
       /\ \A q \in Proc : q # p => buf'[q] = buf[q] /\ pc'[q] = pc[q]
       /\ buf'[p].disk = 0 /\ pc'[p] = "woken"
  BY <1>1, <1>7, <1>9, <1>13
<1>15. /\ Active' = Active /\ Pending' = Pending \ {p} /\ Queued' = Queued
       /\ \A i : AvailAt(i)' = AvailAt(i)
       /\ \A q \in Proc : Op(q)' = Op(q)
  <2>1. Pending' = Pending \ {p}
    BY <1>7, <1>14 DEF Pending
  <2>2. Active' = Active /\ Queued' = Queued /\ \A i : AvailAt(i)' = AvailAt(i)
    BY <1>10 DEF Active, Queued, AvailAt
  <2>3. \A q \in Proc : Op(q)' = Op(q)  BY <1>14 DEF Op
  <2>4. QED BY <2>1, <2>2, <2>3
<1>16. TypeOK' /\ panicked' = 0
  <2>1. buf' \in [Proc -> [data : Data, valid : {0, 1}, disk : {0, 1}]]
    BY Zenon, <1>1, <1>7, <1>9, BufField
  <2>2. pc' \in [Proc -> {"idle", "start", "nodesc", "wait", "woken"}]
    BY <1>1, <1>7, <1>9, <1>13
  <2>3. used' \in [ring : [Desc -> Desc \cup {Unset}], idx : 0 .. Wrap - 1]
    BY <1>1, <1>4, <1>11 DEF Rings
  <2>4. QED BY Zenon, <1>4, <1>9, <1>10, <2>1, <2>2, <2>3 DEF IInv, TypeOK
<1>17. ChainInv'
  BY <1>10, <1>15, ChainSame DEF IInv, Active
<1>18. CountInv'
  <2>1. /\ Cardinality(Pending) = Cardinality(Pending') + 1
        /\ Cardinality(Pending') \in Nat
    BY <1>15, Sizes, RemoveOne
  <2>2. Queued' + Cardinality(inflight') + Unseen' = Cardinality(Pending')
    BY <1>10, <1>12, <1>15, <2>1, Sizes
  <2>3. QED BY <1>10, <1>15, <2>2 DEF IInv, CountInv
<1>19. \A i \in 0 .. Unseen' - 1 :
          /\ i \in 0 .. Unseen - 2 /\ i + 1 \in 0 .. Unseen - 1
          /\ i + 1 # 0 /\ UsedAt(i)' = UsedAt(i + 1)
  BY <1>3, <1>12
<1>20. PlaceInv'
  <2>1. /\ d \notin inflight
        /\ \A i \in 0 .. Queued - 1 : AvailAt(i) # d
        /\ \A i \in 0 .. Unseen' - 1 : UsedAt(i)' # d
    BY <1>4, <1>5, <1>19 DEF IInv, PlaceInv
  <2>2. \A i \in 0 .. Queued' - 1 : \E q \in Pending' : AvailAt(i)' = idx'[q]
    <3>1. \A i \in 0 .. Queued - 1 : \E q \in Pending : AvailAt(i) = idx[q]
      BY DEF IInv, PlaceInv
    <3>2. QED BY <1>6, <1>10, <1>15, <2>1, <3>1
  <2>3. \A e \in inflight' : \E q \in Pending' : e = idx'[q]
    BY <1>6, <1>10, <1>15, <2>1 DEF IInv, PlaceInv
  <2>4. \A i \in 0 .. Unseen' - 1 : \E q \in Pending' : UsedAt(i)' = idx'[q]
    <3>1. \A i \in 0 .. Unseen' - 1 : \E q \in Pending : UsedAt(i)' = idx[q]
      BY <1>19 DEF IInv, PlaceInv
    <3>2. QED BY <1>6, <1>10, <1>15, <2>1, <3>1
  <2>5. \A i, j \in 0 .. Unseen' - 1 : i # j => UsedAt(i)' # UsedAt(j)'
    <3>1. \A i, j \in 0 .. Unseen' - 1 : i # j => i + 1 # j + 1
      BY <1>3, <1>12
    <3>2. QED BY <1>19, <3>1 DEF IInv, PlaceInv
  <2>6. \A i \in 0 .. Unseen' - 1 : UsedAt(i)' \notin inflight'
    BY SMTT(30), <1>10, <1>19 DEF IInv, PlaceInv
  <2>7. \A i \in 0 .. Queued' - 1, j \in 0 .. Unseen' - 1 :
            AvailAt(i)' # UsedAt(j)'
    BY SMTT(30), <1>15, <1>19 DEF IInv, PlaceInv
  <2>8. /\ \A i, j \in 0 .. Queued' - 1 : i # j => AvailAt(i)' # AvailAt(j)'
        /\ \A i \in 0 .. Queued' - 1 : AvailAt(i)' \notin inflight'
    BY SMTT(30), <1>10, <1>15 DEF IInv, PlaceInv
  <2>9. QED BY <2>2, <2>3, <2>4, <2>5, <2>6, <2>7, <2>8 DEF PlaceInv
<1>21. CallInv'
  BY SMTT(30), <1>2, <1>7, <1>10, <1>13, <1>14, <1>15 DEF IInv, CallInv
<1>22. DataInv'
  <2>1. \A q \in Proc :
          \/ pc'[q] = "idle" /\ buf'[q].valid = 1
          \/ q \in Active' /\ buf'[q].disk = 0
          => buf'[q].data = media'[q]
    BY SMTT(30), <1>8, <1>10, <1>14, <1>15 DEF IInv, DataInv
  <2>2. ASSUME NEW i \in 0 .. Unseen' - 1, NEW q \in Active', UsedAt(i)' = idx'[q]
        PROVE  buf'[q].data = media'[q] /\ info'[idx'[q]].status = 0
    <3>1. /\ q \in Active /\ q \in Proc /\ idx'[q] = idx[q]
          /\ i + 1 \in 0 .. Unseen - 1 /\ UsedAt(i + 1) = idx[q]
      BY SMTT(30), <1>10, <1>15, <1>19, <2>2 DEF Active
    <3>2. buf[q].data = media[q] /\ info[idx[q]].status = 0
      BY SMTT(30), <3>1 DEF IInv, DataInv
    <3>3. QED BY <1>10, <1>14, <3>1, <3>2
  <2>3. QED BY SMTT(30), <2>1, <2>2 DEF DataInv
<1>23. QED BY SMTT(30), <1>16, <1>17, <1>18, <1>20, <1>21, <1>22 DEF IInv

=============================================================================
