---------------------------- MODULE VirtioProofs ----------------------------
(***************************************************************************)
(* The disk driver never loses or mixes up a request, never frees or uses  *)
(* a descriptor twice and never sleeps in vain, in whatever order the      *)
(* device works: for any processes, contents and ring sizes.               *)
(***************************************************************************)
EXTENDS VirtioSteps

-----------------------------------------------------------------------------
(* virtio_disk_rw(): a request is made. *)

\* The descriptors of the other requests are not touched, and the new request
\* gets three of its own.
LEMMA SubmitChains ==
    ASSUME IInv, NEW p \in Proc, p \notin Active,
           NEW i0 \in free, NEW i1 \in free, NEW i2 \in free,
           i0 # i1, i0 # i2, i1 # i2,
           free' = free \ {i0, i1, i2},
           desc' = [desc EXCEPT ![i0] = [addr |-> <<Op(p), p>>, next |-> i1],
                                ![i1] = [addr |-> p, next |-> i2],
                                ![i2] = [addr |-> i0, next |-> Unset]],
           info' = [info EXCEPT ![i0] = [b |-> p, status |-> 255]],
           idx' = [idx EXCEPT ![p] = i0],
           \A q \in Proc : Op(q)' = Op(q)
    PROVE  Active' = Active \cup {p} /\ ChainInv'
<1>1. /\ i0 \in Desc /\ i1 \in Desc /\ i2 \in Desc /\ Unset \notin Desc
      /\ desc = [i \in Desc |-> desc[i]]
      /\ info \in [Desc -> [b : Proc \cup {Nobody}, status : {0, 255}]]
      /\ idx \in [Proc -> Desc \cup {Unset}]
  BY SMTT(30), RingSize DEF IInv, TypeOK, Desc, Unset
<1>2. /\ desc'[i0] = [addr |-> <<Op(p), p>>, next |-> i1]
      /\ desc'[i1] = [addr |-> p, next |-> i2]
      /\ desc'[i2] = [addr |-> i0, next |-> Unset]
      /\ \A d \in Desc \ {i0, i1, i2} : desc'[d] = desc[d]
  <2> DEFINE D == desc'
  <2>1. D = [[[desc EXCEPT ![i0] = [addr |-> <<Op(p), p>>, next |-> i1]]
                    EXCEPT ![i1] = [addr |-> p, next |-> i2]]
                    EXCEPT ![i2] = [addr |-> i0, next |-> Unset]]
    OBVIOUS
  <2> HIDE DEF D
  <2>2. /\ D[i0] = [addr |-> <<Op(p), p>>, next |-> i1]
        /\ D[i1] = [addr |-> p, next |-> i2]
        /\ D[i2] = [addr |-> i0, next |-> Unset]
        /\ \A d \in Desc \ {i0, i1, i2} : D[d] = desc[d]
    BY <1>1, <2>1
  <2>3. QED BY Zenon, <2>2 DEF D
<1>3. /\ info'[i0].b = p /\ \A d \in Desc : d # i0 => info'[d] = info[d]
      /\ idx'[p] = i0 /\ \A q \in Proc : q # p => idx'[q] = idx[q]
  BY <1>1
<1>4. Active' = Active \cup {p}
  BY SMTT(30), <1>1, <1>3 DEF Active
<1>5. \A q \in Active :
         /\ q \in Proc /\ q # p /\ idx'[q] = idx[q]
         /\ idx[q] \in Desc \ {i0, i1, i2} /\ Second(q) \in Desc \ {i0, i1, i2}
         /\ Third(q) \in Desc \ {i0, i1, i2}
  <2>1. \A q \in Active : q \in Proc /\ q # p /\ idx[q] \in Desc
    BY DEF Active, IInv, TypeOK
  <2>2. \A q \in Active :
          /\ idx[q] \notin free /\ Second(q) \notin free /\ Third(q) \notin free
          /\ Second(q) \in Desc /\ Third(q) \in Desc
    BY DEF IInv, ChainInv
  <2>3. QED BY <1>3, <2>1, <2>2
<1>6. \A q \in Active : Second(q)' = Second(q) /\ Third(q)' = Third(q)
  <2>1. \A q \in Active : Second(q)' = Second(q)
    BY ZenonT(40), <1>2, <1>5 DEF Second
  <2>2. QED BY Zenon, <1>2, <1>5, <2>1 DEF Third
<1>7. Second(p)' = i1 /\ Third(p)' = i2
  <2>1. Second(p)' = i1  BY SMTT(30), <1>2, <1>3 DEF Second
  <2>2. QED BY <1>2, <2>1 DEF Third
<1>8. ASSUME NEW q \in Active'
      PROVE  /\ Second(q)' \in Desc /\ Third(q)' \in Desc
             /\ desc'[Third(q)'].next = Unset
             /\ idx'[q] # Second(q)' /\ idx'[q] # Third(q)'
             /\ Second(q)' # Third(q)'
             /\ idx'[q] \notin free' /\ Second(q)' \notin free'
             /\ Third(q)' \notin free'
             /\ desc'[idx'[q]].addr = <<Op(q)', q>>
             /\ desc'[Second(q)'].addr = q
             /\ desc'[Third(q)'].addr = idx'[q]
             /\ info'[idx'[q]].b = q
  <2>1. CASE q = p
    BY <1>1, <1>2, <1>3, <1>7, <2>1
  <2>2. CASE q \in Active
    <3>1. /\ Second(q) \in Desc /\ Third(q) \in Desc
          /\ desc[Third(q)].next = Unset
          /\ idx[q] # Second(q) /\ idx[q] # Third(q) /\ Second(q) # Third(q)
          /\ idx[q] \notin free /\ Second(q) \notin free /\ Third(q) \notin free
          /\ desc[idx[q]].addr = <<Op(q), q>>
          /\ desc[Second(q)].addr = q
          /\ desc[Third(q)].addr = idx[q]
          /\ info[idx[q]].b = q
      BY SMTT(30), <2>2 DEF IInv, ChainInv
    <3>2. /\ desc'[idx[q]] = desc[idx[q]] /\ desc'[Second(q)] = desc[Second(q)]
          /\ desc'[Third(q)] = desc[Third(q)] /\ info'[idx[q]] = info[idx[q]]
          /\ idx'[q] = idx[q] /\ Op(q)' = Op(q)
      BY ZenonT(40), <1>2, <1>3, <1>5, <2>2
    <3>3. Second(q)' = Second(q) /\ Third(q)' = Third(q)  BY Zenon, <1>6, <2>2
    <3>4. \A d : d \notin free => d \notin free'  BY SMTT(30)
    <3>5. QED BY Zenon, <3>1, <3>2, <3>3, <3>4
  <2>3. QED BY Zenon, <1>4, <2>1, <2>2
<1>9. ASSUME NEW q \in Active', NEW r \in Active', q # r
      PROVE  {idx'[q], Second(q)', Third(q)'}
                \cap {idx'[r], Second(r)', Third(r)'} = {}
  <2>1. ASSUME NEW t \in Active
        PROVE  /\ {idx'[t], Second(t)', Third(t)'}
                    = {idx[t], Second(t), Third(t)}
               /\ {idx'[t], Second(t)', Third(t)'} \cap {i0, i1, i2} = {}
    BY SMTT(30), <1>5, <1>6
  <2>2. {idx'[p], Second(p)', Third(p)'} = {i0, i1, i2}
    BY <1>3, <1>7
  <2>3. CASE q \in Active /\ r \in Active
    <3>1. {idx[q], Second(q), Third(q)} \cap {idx[r], Second(r), Third(r)} = {}
      BY Zenon, <1>9, <2>3 DEF IInv, ChainInv
    <3>2. QED BY Zenon, <2>1, <2>3, <3>1
  <2>4. CASE q = p /\ r \in Active  BY SMTT(30), <2>1, <2>2, <2>4
  <2>5. CASE r = p /\ q \in Active  BY <2>1, <2>2, <2>5
  <2>6. QED BY SMTT(30), <1>4, <1>9, <2>3, <2>4, <2>5
<1>10. ChainInv'
  BY Zenon, <1>8, <1>9 DEF ChainInv
<1>11. QED BY ZenonT(40), <1>4, <1>10

LEMMA SubmitIInv ==
    ASSUME IInv, NEW p \in Proc, Submit(p) PROVE IInv'
<1> DEFINE i0 == Nth(0)  i1 == Nth(1)  i2 == Nth(2)
           ring == avail.ring
<1>1. /\ pc[p] = "start" /\ Cardinality(free) >= 3
      /\ free' = free \ {i0, i1, i2}
      /\ desc' = [desc EXCEPT ![i0] = [addr |-> <<Op(p), p>>, next |-> i1],
                              ![i1] = [addr |-> p, next |-> i2],
                              ![i2] = [addr |-> i0, next |-> Unset]]
      /\ info' = [info EXCEPT ![i0] = [b |-> p, status |-> 255]]
      /\ avail' = [ring |-> [ring EXCEPT ![avail.idx % NUM] = i0],
                   idx |-> Inc(avail.idx)]
      /\ idx' = [idx EXCEPT ![p] = i0]
      /\ buf' = [buf EXCEPT ![p].disk = 1]
      /\ pc' = [pc EXCEPT ![p] = "wait"]
  BY DEF Submit, Goto
<1>2. /\ media' = media /\ used' = used /\ taken' = taken
      /\ inflight' = inflight /\ used_idx' = used_idx /\ irq' = irq
      /\ handler' = handler /\ panicked' = panicked
  BY DEF Submit, deviceVars
<1>3. /\ buf \in [Proc -> [data : Data, valid : {0, 1}, disk : {0, 1}]]
      /\ info \in [Desc -> [b : Proc \cup {Nobody}, status : {0, 255}]]
      /\ pc \in [Proc -> {"idle", "start", "nodesc", "wait", "woken"}]
      /\ idx \in [Proc -> Desc \cup {Unset}]
      /\ ring \in Rings /\ avail.idx \in 0 .. Wrap - 1
      /\ taken \in 0 .. Wrap - 1 /\ free \in SUBSET Desc
  BY DEF IInv, TypeOK, Rings
<1>4. /\ i0 \in free /\ i1 \in free /\ i2 \in free
      /\ i0 # i1 /\ i0 # i2 /\ i1 # i2
  BY <1>1, <1>3, NthFree
<1> HIDE DEF i0, i1, i2
<1>5. p \notin Active /\ p \notin Pending
  BY <1>1 DEF IInv, CallInv, Pending
<1>6. /\ \A q \in Proc : buf'[q].valid = buf[q].valid /\ buf'[q].data = buf[q].data
      /\ \A q \in Proc : q # p => buf'[q] = buf[q] /\ pc'[q] = pc[q]
      /\ buf'[p].disk = 1 /\ pc'[p] = "wait"
  BY <1>1, <1>3
<1>7. \A q \in Proc : Op(q)' = Op(q)  BY <1>6 DEF Op
<1>8. Active' = Active \cup {p} /\ ChainInv'
  BY Zenon, <1>1, <1>4, <1>5, <1>7, SubmitChains
<1>9. Pending' = Pending \cup {p}
  BY <1>6 DEF Pending
<1>10. Queued + 1 < NUM /\ Queued \in Nat
  BY <1>1, Sizes, RingSize
<1>11. /\ avail'.idx \in 0 .. Wrap - 1 /\ avail'.ring \in Rings
       /\ Queued' = Queued + 1
       /\ \A i \in Nat : i = Queued => AvailAt(i)' = i0
       /\ \A i \in 0 .. Queued - 1 : AvailAt(i)' = AvailAt(i)
  <2> DEFINE new == avail'.ring  end == avail.idx  n == Queued
  <2>1. /\ \A e \in Desc : e # end % NUM => new[e] = ring[e]
        /\ ring \in Rings /\ new \in Rings
        /\ taken \in 0 .. Wrap - 1 /\ end \in 0 .. Wrap - 1
        /\ n \in Nat /\ Between(taken, end) = n /\ n + 1 < NUM
    BY Zenon, <1>1, <1>3, <1>4, <1>10 DEF Queued, Rings
  <2> HIDE DEF ring, new, end, n
  <2>2. /\ Inc(end) \in 0 .. Wrap - 1 /\ end % NUM \in Desc
        /\ Between(taken, Inc(end)) = n + 1
        /\ \A i \in 0 .. n - 1 : Entry(new, taken, i) = Entry(ring, taken, i)
        /\ Entry(new, taken, n) = new[end % NUM]
    BY SMTT(20), <2>1, RingPut
  <2>3. new[end % NUM] = i0 /\ avail'.idx = Inc(end)
    BY <1>1, <1>3, <2>2 DEF new, end, ring, Rings
  <2>4. /\ Queued' = n + 1
        /\ \A i : AvailAt(i)' = Entry(new, taken, i)
        /\ \A i : AvailAt(i) = Entry(ring, taken, i)
    BY Zenon, <1>2, <2>2, <2>3 DEF Queued, AvailAt, new, ring
  <2>5. n = Queued  BY DEF n
  <2>6. QED BY Zenon, <2>1, <2>2, <2>3, <2>4, <2>5 DEF new
<1> HIDE DEF ring
<1>12. Unseen' = Unseen /\ \A i : UsedAt(i)' = UsedAt(i)
  BY SMTT(30), <1>2 DEF Unseen, UsedAt
<1>13. /\ idx'[p] = i0 /\ \A q \in Pending : q # p /\ idx'[q] = idx[q]
       /\ \A q \in Active : q # p /\ idx'[q] = idx[q] /\ idx[q] # i0
       /\ \A q \in Active : info'[idx[q]] = info[idx[q]]
  <2>1. \A q \in Active : q # p /\ q \in Proc /\ idx[q] \in Desc /\ idx[q] # i0
    <3>1. \A q \in Active : q \in Proc /\ idx[q] \in Desc
      BY SMTT(30) DEF IInv, TypeOK, Active
    <3>2. \A q \in Active : idx[q] \notin free  BY DEF IInv, ChainInv
    <3>3. QED BY <1>4, <1>5, <3>1, <3>2
  <2>2. idx'[p] = i0 /\ \A q \in Active : idx'[q] = idx[q]
    BY <1>1, <1>3, <2>1
  <2>3. \A q \in Active : info'[idx[q]] = info[idx[q]]
    BY SMTT(30), <1>1, <1>3, <2>1
  <2>4. QED BY <2>1, <2>2, <2>3, Sizes
<1>14. TypeOK' /\ panicked' = 0
  <2>1. buf' \in [Proc -> [data : Data, valid : {0, 1}, disk : {0, 1}]]
    BY Zenon, <1>1, <1>3, BufField
  <2>2. desc' = [i \in Desc |-> desc'[i]]
    BY Zenon, <1>1 DEF IInv, TypeOK
  <2>3. info' \in [Desc -> [b : Proc \cup {Nobody}, status : {0, 255}]]
    BY <1>1, <1>3, <1>4
  <2>4. avail' \in [ring : [Desc -> Desc \cup {Unset}], idx : 0 .. Wrap - 1]
    BY <1>1, <1>11 DEF Rings
  <2>5. idx' \in [Proc -> Desc \cup {Unset}]
    BY <1>1, <1>3, <1>4
  <2>6. pc' \in [Proc -> {"idle", "start", "nodesc", "wait", "woken"}]
    BY <1>1, <1>3
  <2>7. free' \in SUBSET Desc  BY <1>1, <1>3
  <2>8. QED BY SMTT(30), <1>2, <2>1, <2>2, <2>3, <2>4, <2>5, <2>6, <2>7 DEF IInv, TypeOK
<1>15. /\ Cardinality(free) = Cardinality(free') + 3 /\ Cardinality(free') \in Nat
  <2>1. IsFiniteSet(free')  BY <1>1, <1>3, DescFinite
  <2>2. free = free' \cup {i0, i1, i2}  BY <1>1, <1>4
  <2>3. i0 \notin free' /\ i1 \notin free' /\ i2 \notin free'  BY <1>1
  <2>4. QED BY ZenonT(40), <1>4, <2>1, <2>2, <2>3, AddThree
<1>16. CountInv'
  <2>1. /\ IsFiniteSet(Active') /\ Cardinality(Active) \in Nat
        /\ Cardinality(Active') = Cardinality(Active) + 1
    BY <1>5, <1>8, Sizes, AddOne
  <2>2. Cardinality(Pending') = Cardinality(Pending) + 1
    BY <1>5, <1>9, Sizes, AddOne
  <2>3. Cardinality(free') = NUM - 3 * Cardinality(Active')
    <3>1. /\ Cardinality(free) = NUM - 3 * Cardinality(Active)
          /\ NUM \in Nat
      BY Sizes, RingSize
    <3>2. QED BY <1>15, <2>1, <3>1
  <2>4. Queued' + Cardinality(inflight') + Unseen' = Cardinality(Pending')
    BY <1>2, <1>11, <1>12, <2>2, Sizes
  <2>5. QED BY <2>1, <2>3, <2>4 DEF CountInv
<1>17. \A i \in 0 .. Queued' - 1 :
           \/ i \in 0 .. Queued - 1 /\ AvailAt(i)' = AvailAt(i)
           \/ i = Queued /\ AvailAt(i)' = i0
  <2>1. \A i \in 0 .. Queued' - 1 : i \in Nat /\ (i \in 0 .. Queued - 1 \/ i = Queued)
    BY <1>10, <1>11
  <2>2. QED BY Zenon, <1>11, <2>1
<1>18. PlaceInv'
  <2>1. /\ \A i \in 0 .. Queued - 1 : AvailAt(i) # i0
        /\ \A i \in 0 .. Unseen - 1 : UsedAt(i) # i0
        /\ i0 \notin inflight
    BY <1>13, Sizes DEF IInv, PlaceInv
  <2>2. \A i \in 0 .. Queued' - 1 : \E q \in Pending' : AvailAt(i)' = idx'[q]
    <3>1. \A i \in 0 .. Queued - 1 : \E q \in Pending : AvailAt(i) = idx'[q]
      BY <1>13 DEF IInv, PlaceInv
    <3>2. ASSUME NEW i \in 0 .. Queued' - 1
          PROVE  \E q \in Pending' : AvailAt(i)' = idx'[q]
      <4>1. CASE i \in 0 .. Queued - 1 /\ AvailAt(i)' = AvailAt(i)
        BY Zenon, <1>9, <3>1, <4>1
      <4>2. CASE AvailAt(i)' = i0
        BY Zenon, <1>9, <1>13, <4>2
      <4>3. QED BY Zenon, <1>17, <4>1, <4>2
    <3>3. QED BY Zenon, <3>2
  <2>3. \A d \in inflight' : \E q \in Pending' : d = idx'[q]
    BY SMTT(30), <1>2, <1>9, <1>13 DEF IInv, PlaceInv
  <2>4. \A i \in 0 .. Unseen' - 1 : \E q \in Pending' : UsedAt(i)' = idx'[q]
    BY SMTT(30), <1>9, <1>12, <1>13 DEF IInv, PlaceInv
  <2>5. \A i, j \in 0 .. Queued' - 1 : i # j => AvailAt(i)' # AvailAt(j)'
    BY SMTT(30), <1>17, <2>1 DEF IInv, PlaceInv
  <2>6. \A i \in 0 .. Queued' - 1 : AvailAt(i)' \notin inflight'
    BY SMTT(30), <1>2, <1>17, <2>1 DEF IInv, PlaceInv
  <2>7. \A i \in 0 .. Queued' - 1, j \in 0 .. Unseen' - 1 :
            AvailAt(i)' # UsedAt(j)'
    BY SMTT(30), <1>12, <1>17, <2>1 DEF IInv, PlaceInv
  <2>8. /\ \A i, j \in 0 .. Unseen' - 1 : i # j => UsedAt(i)' # UsedAt(j)'
        /\ \A i \in 0 .. Unseen' - 1 : UsedAt(i)' \notin inflight'
    BY SMTT(30), <1>2, <1>12 DEF IInv, PlaceInv
  <2>9. QED BY SMTT(30), <2>2, <2>3, <2>4, <2>5, <2>6, <2>7, <2>8 DEF PlaceInv
<1>19. CallInv'
  <2>1. \A q \in Proc : pc[q] # "nodesc"
    BY SMTT(30), <1>1, Sizes DEF IInv, CallInv
  <2>2. \A q \in Proc :
          /\ q \in Active' <=> pc'[q] \in {"wait", "woken"}
          /\ buf'[q].disk = 1 => q \in Active'
          /\ pc'[q] = "wait" => buf'[q].disk = 1
          /\ pc'[q] # "nodesc"
    BY SMTT(30), <1>6, <1>8, <2>1 DEF IInv, CallInv
  <2>3. used_idx' # used'.idx => irq' = 1 \/ handler' = 1
    BY <1>2 DEF IInv, CallInv
  <2>4. QED BY <2>2, <2>3 DEF CallInv
<1>20. DataInv'
  <2>1. \A q \in Proc :
          \/ pc'[q] = "idle" /\ buf'[q].valid = 1
          \/ q \in Active' /\ buf'[q].disk = 0
          => buf'[q].data = media'[q]
    BY SMTT(30), <1>2, <1>6, <1>8 DEF IInv, DataInv
  <2>2. ASSUME NEW i \in 0 .. Unseen' - 1, NEW q \in Active', UsedAt(i)' = idx'[q]
        PROVE  buf'[q].data = media'[q] /\ info'[idx'[q]].status = 0
    <3>1. UsedAt(i) # i0
      BY SMTT(40), <1>12, <1>13, Sizes DEF IInv, PlaceInv
    <3>2. q \in Active /\ q \in Proc /\ idx'[q] = idx[q] /\ UsedAt(i) = idx[q]
      BY <1>8, <1>12, <1>13, <2>2, <3>1 DEF Active
    <3>3. buf[q].data = media[q] /\ info[idx[q]].status = 0
      BY <1>12, <3>2 DEF IInv, DataInv
    <3>4. QED BY SMTT(30), <1>2, <1>6, <1>13, <3>2, <3>3
  <2>3. QED BY SMTT(30), <2>1, <2>2 DEF DataInv
<1>21. QED BY <1>8, <1>14, <1>16, <1>18, <1>19, <1>20 DEF IInv

-----------------------------------------------------------------------------
(* virtio_disk_rw(): a request is finished. *)

\* free_chain() comes by the three descriptors of the request.
LEMMA ChainIs ==
    ASSUME IInv, NEW p \in Active
    PROVE  Chain(idx[p]) = {idx[p], Second(p), Third(p)}
<1>1. idx[p] \in Desc /\ Unset \notin Desc
  BY SMTT(30), RingSize DEF IInv, TypeOK, Active, Desc, Unset
<1>2. Second(p) \in Desc /\ Third(p) \in Desc  BY DEF IInv, ChainInv
<1>3. {idx[p], Second(p), Third(p)} \ {Unset} = {idx[p], Second(p), Third(p)}
  BY <1>1, <1>2
<1>4. QED BY Zenon, <1>1, <1>2, <1>3 DEF Chain, Second, Third

LEMMA FinishIInv ==
    ASSUME IInv, NEW p \in Proc, Finish(p) PROVE IInv'
<1> DEFINE C == {idx[p], Second(p), Third(p)}
<1>1. pc[p] = "woken" /\ buf[p].disk = 0  BY DEF Finish, MayFinish
<1>2. p \in Active /\ p \notin Pending  BY <1>1 DEF IInv, CallInv, Pending
<1>3. Chain(idx[p]) = C  BY <1>2, ChainIs
<1>4. /\ C \cap free = {} /\ C \subseteq Desc /\ idx[p] \in Desc
      /\ Second(p) \in Desc /\ Third(p) \in Desc
      /\ idx[p] # Second(p) /\ idx[p] # Third(p) /\ Second(p) # Third(p)
  <2>1. idx[p] \in Desc  BY SMTT(30), <1>2 DEF IInv, TypeOK, Active
  <2>2. /\ Second(p) \in Desc /\ Third(p) \in Desc
        /\ idx[p] # Second(p) /\ idx[p] # Third(p) /\ Second(p) # Third(p)
        /\ idx[p] \notin free /\ Second(p) \notin free /\ Third(p) \notin free
    BY <1>2 DEF IInv, ChainInv
  <2>3. QED BY <2>1, <2>2
<1>5. /\ info' = [info EXCEPT ![idx[p]].b = Nobody]
      /\ desc' = [i \in Desc |-> IF i \in C THEN NoDesc ELSE desc[i]]
      /\ free' = free \cup C
      /\ idx' = [idx EXCEPT ![p] = Unset]
      /\ buf' = [buf EXCEPT ![p].valid = 1]
      /\ pc' = [Freed(pc) EXCEPT ![p] = "idle"]
      /\ panicked' = panicked
  BY <1>3, <1>4 DEF Finish
<1>6. /\ media' = media /\ used' = used /\ taken' = taken
      /\ inflight' = inflight /\ avail' = avail /\ used_idx' = used_idx
      /\ irq' = irq /\ handler' = handler
  BY DEF Finish, deviceVars
<1>7. /\ buf \in [Proc -> [data : Data, valid : {0, 1}, disk : {0, 1}]]
      /\ info \in [Desc -> [b : Proc \cup {Nobody}, status : {0, 255}]]
      /\ pc \in [Proc -> {"idle", "start", "nodesc", "wait", "woken"}]
      /\ idx \in [Proc -> Desc \cup {Unset}]
      /\ free \in SUBSET Desc
  BY DEF IInv, TypeOK
<1> HIDE DEF C
<1>8. /\ pc' \in [Proc -> {"idle", "start", "nodesc", "wait", "woken"}]
      /\ pc'[p] = "idle" /\ \A q \in Proc : pc'[q] # "nodesc"
      /\ \A q \in Proc : q # p =>
            pc'[q] = pc[q] \/ (pc[q] = "nodesc" /\ pc'[q] = "start")
  <2> DEFINE f == Freed(pc)
  <2>1. /\ f \in [Proc -> {"idle", "start", "nodesc", "wait", "woken"}]
        /\ \A q \in Proc : f[q] # "nodesc"
        /\ \A q \in Proc : f[q] = pc[q] \/ (pc[q] = "nodesc" /\ f[q] = "start")
    BY <1>7 DEF Freed
  <2>2. pc' = [f EXCEPT ![p] = "idle"]  BY <1>5
  <2> HIDE DEF f
  <2>3. QED BY <2>1, <2>2
<1>9. /\ \A q \in Proc : buf'[q].disk = buf[q].disk /\ buf'[q].data = buf[q].data
      /\ \A q \in Proc : q # p => buf'[q] = buf[q] /\ idx'[q] = idx[q]
      /\ idx'[p] = Unset
  BY <1>5, <1>7
<1>10. Active' = Active \ {p} /\ Pending' = Pending
  BY SMTT(30), <1>9 DEF Active, Pending
<1>11. \A q \in Active' :
          /\ q \in Active /\ q \in Proc /\ q # p /\ idx'[q] = idx[q]
          /\ Op(q)' = Op(q) /\ idx[q] \in Desc
          /\ idx[q] \notin C /\ Second(q) \notin C /\ Third(q) \notin C
          /\ Second(q) \in Desc /\ Third(q) \in Desc
  <2>1. ASSUME NEW q \in Active'
        PROVE  /\ q \in Active /\ q \in Proc /\ q # p /\ idx'[q] = idx[q]
               /\ Op(q)' = Op(q) /\ idx[q] \in Desc
    BY <1>9, <1>10 DEF Op, Active, IInv, TypeOK
  <2>2. ASSUME NEW q \in Active'
        PROVE  /\ idx[q] \notin C /\ Second(q) \notin C /\ Third(q) \notin C
               /\ Second(q) \in Desc /\ Third(q) \in Desc
    <3>1. {idx[q], Second(q), Third(q)} \cap C = {}
      BY Zenon, <1>2, <2>1 DEF IInv, ChainInv, C
    <3>2. Second(q) \in Desc /\ Third(q) \in Desc
      BY <2>1 DEF IInv, ChainInv
    <3>3. QED BY <3>1, <3>2
  <2>3. QED BY SMTT(30), <2>1, <2>2
<1>12. \A i \in Desc : i \notin C => desc'[i] = desc[i]
  BY SMTT(30), <1>5
<1>13. \A q \in Active' : Second(q)' = Second(q) /\ Third(q)' = Third(q)
  <2>1. \A q \in Active' : Second(q)' = Second(q)
    BY <1>11, <1>12 DEF Second
  <2>2. QED BY SMTT(30), <1>11, <1>12, <2>1 DEF Third
<1>14. idx[p] \in C  BY DEF C
<1>15. \A d \in Desc : d \notin C => info'[d] = info[d]
  BY <1>5, <1>7, <1>14
<1>16. ChainInv'
  <2>1. ASSUME NEW q \in Active'
        PROVE  /\ Second(q)' \in Desc /\ Third(q)' \in Desc
               /\ desc'[Third(q)'].next = Unset
               /\ idx'[q] # Second(q)' /\ idx'[q] # Third(q)'
               /\ Second(q)' # Third(q)'
               /\ idx'[q] \notin free' /\ Second(q)' \notin free'
               /\ Third(q)' \notin free'
               /\ desc'[idx'[q]].addr = <<Op(q)', q>>
               /\ desc'[Second(q)'].addr = q
               /\ desc'[Third(q)'].addr = idx'[q]
               /\ info'[idx'[q]].b = q
    <3>1. /\ desc[Third(q)].next = Unset
          /\ idx[q] # Second(q) /\ idx[q] # Third(q) /\ Second(q) # Third(q)
          /\ idx[q] \notin free /\ Second(q) \notin free /\ Third(q) \notin free
          /\ desc[idx[q]].addr = <<Op(q), q>>
          /\ desc[Second(q)].addr = q
          /\ desc[Third(q)].addr = idx[q]
          /\ info[idx[q]].b = q
      BY SMTT(30), <1>11 DEF IInv, ChainInv
    <3>2. /\ desc'[idx[q]] = desc[idx[q]] /\ desc'[Second(q)] = desc[Second(q)]
          /\ desc'[Third(q)] = desc[Third(q)] /\ info'[idx[q]] = info[idx[q]]
          /\ idx'[q] = idx[q] /\ Op(q)' = Op(q)
      BY ZenonT(40), <1>11, <1>12, <1>15
    <3>3. /\ Second(q)' = Second(q) /\ Third(q)' = Third(q)
          /\ Second(q) \in Desc /\ Third(q) \in Desc
      BY <1>11, <1>13
    <3>4. /\ idx[q] \notin free' /\ Second(q) \notin free'
          /\ Third(q) \notin free'
      BY <1>5, <1>11, <3>1
    <3>5. QED BY Zenon, <3>1, <3>2, <3>3, <3>4
  <2>2. ASSUME NEW q \in Active', NEW r \in Active', q # r
        PROVE  {idx'[q], Second(q)', Third(q)'}
                  \cap {idx'[r], Second(r)', Third(r)'} = {}
    <3>1. {idx[q], Second(q), Third(q)} \cap {idx[r], Second(r), Third(r)} = {}
      BY Zenon, <1>11, <2>2 DEF IInv, ChainInv
    <3>2. /\ idx'[q] = idx[q] /\ Second(q)' = Second(q) /\ Third(q)' = Third(q)
          /\ idx'[r] = idx[r] /\ Second(r)' = Second(r) /\ Third(r)' = Third(r)
      BY <1>11, <1>13
    <3>3. QED BY <3>1, <3>2
  <2>3. QED BY Zenon, <2>1, <2>2 DEF ChainInv
<1>17. TypeOK' /\ panicked' = 0
  <2>1. buf' \in [Proc -> [data : Data, valid : {0, 1}, disk : {0, 1}]]
    BY Zenon, <1>5, <1>7, BufField
  <2>2. desc' = [i \in Desc |-> desc'[i]]  BY <1>5
  <2>3. info' \in [Desc -> [b : Proc \cup {Nobody}, status : {0, 255}]]
    BY SMTT(30), <1>4, <1>5, <1>7
  <2>4. idx' \in [Proc -> Desc \cup {Unset}]  BY <1>5, <1>7
  <2>5. free' \in SUBSET Desc  BY <1>4, <1>5, <1>7
  <2>6. QED BY SMTT(30), <1>5, <1>6, <1>8, <2>1, <2>2, <2>3, <2>4, <2>5 DEF IInv, TypeOK
<1>18. Queued' = Queued /\ Unseen' = Unseen
       /\ \A i : AvailAt(i)' = AvailAt(i) /\ UsedAt(i)' = UsedAt(i)
  BY <1>6 DEF Queued, Unseen, AvailAt, UsedAt
<1>19. CountInv'
  <2>1. /\ IsFiniteSet(Active') /\ Cardinality(Active') \in Nat
        /\ Cardinality(Active) = Cardinality(Active') + 1
    BY <1>2, <1>10, Sizes, RemoveOne
  <2>2. Cardinality(free') = Cardinality(free) + 3 /\ Cardinality(free) \in Nat
    <3>1. free' = free \cup {idx[p], Second(p), Third(p)}  BY <1>5 DEF C
    <3>2. idx[p] \notin free /\ Second(p) \notin free /\ Third(p) \notin free
      BY <1>4 DEF C
    <3>3. /\ IsFiniteSet(free)
          /\ idx[p] # Second(p) /\ idx[p] # Third(p) /\ Second(p) # Third(p)
      BY <1>4, Sizes
    <3>4. /\ Cardinality(free \cup {idx[p], Second(p), Third(p)})
               = Cardinality(free) + 3
          /\ Cardinality(free) \in Nat
      BY Zenon, <3>2, <3>3, AddThree
    <3>5. QED BY <3>1, <3>4
  <2>3. Cardinality(free') = NUM - 3 * Cardinality(Active')
    <3>1. /\ Cardinality(free) = NUM - 3 * Cardinality(Active)
          /\ NUM \in Nat
      BY Sizes, RingSize
    <3>2. QED BY SMTT(30), <2>1, <2>2, <3>1
  <2>4. QED BY SMTT(30), <1>6, <1>10, <1>18, <2>1, <2>3 DEF IInv, CountInv
<1>20. \A q \in Pending : q # p /\ q \in Proc /\ idx'[q] = idx[q]
  BY SMTT(30), <1>2, <1>9 DEF Pending
<1>21. PlaceInv'
  BY SMTT(30), <1>6, <1>10, <1>18, <1>20 DEF IInv, PlaceInv
<1>22. CallInv'
  BY SMTT(30), <1>1, <1>6, <1>8, <1>9, <1>10 DEF IInv, CallInv
<1>23. DataInv'
  <2>1. buf[p].data = media[p]  BY SMTT(30), <1>1, <1>2 DEF IInv, DataInv
  <2>2. \A q \in Proc :
          \/ pc'[q] = "idle" /\ buf'[q].valid = 1
          \/ q \in Active' /\ buf'[q].disk = 0
          => buf'[q].data = media'[q]
    BY SMTT(40), <1>6, <1>8, <1>9, <1>10, <2>1 DEF IInv, DataInv
  <2>3. ASSUME NEW i \in 0 .. Unseen' - 1, NEW q \in Active', UsedAt(i)' = idx'[q]
        PROVE  buf'[q].data = media'[q] /\ info'[idx'[q]].status = 0
    <3>1. buf[q].data = media[q] /\ info[idx[q]].status = 0
      BY SMTT(30), <1>11, <1>18, <2>3 DEF IInv, DataInv
    <3>2. QED BY Zenon, <1>6, <1>9, <1>11, <1>15, <3>1
  <2>4. QED BY Zenon, <2>2, <2>3 DEF DataInv
<1>24. QED BY <1>16, <1>17, <1>19, <1>21, <1>22, <1>23 DEF IInv

-----------------------------------------------------------------------------
(* The invariant as a whole, and what it implies. *)

LEMMA InitIInv == ASSUME Init PROVE IInv
<1>1. /\ buf \in [Proc -> [data : Data, valid : {0}, disk : {0}]]
      /\ pc = [p \in Proc |-> "idle"] /\ panicked = 0 /\ media \in [Proc -> Data]
      /\ desc = [i \in Desc |-> NoDesc] /\ free = Desc
      /\ info = [i \in Desc |-> [b |-> Nobody, status |-> 0]]
      /\ avail = [ring |-> [i \in Desc |-> Unset], idx |-> 0]
      /\ used = [ring |-> [i \in Desc |-> Unset], idx |-> 0]
      /\ used_idx = 0 /\ taken = 0 /\ inflight = {}
      /\ irq = 0 /\ handler = 0 /\ idx = [p \in Proc |-> Unset]
  BY DEF Init
<1>2. 0 \in 0 .. Wrap - 1  BY RingSize
<1>3. TypeOK  BY <1>1, <1>2 DEF TypeOK
<1>4. Active = {} /\ Pending = {}  BY <1>1 DEF Active, Pending
<1>5. Queued = 0 /\ Unseen = 0
  BY SMTT(30), <1>1, <1>2, BetweenIs DEF Queued, Unseen
<1>6. ChainInv /\ PlaceInv  BY SMTT(30), <1>1, <1>4, <1>5 DEF ChainInv, PlaceInv
<1>7. CountInv
  <2>1. Cardinality({}) = 0 /\ IsFiniteSet({})  BY FS_EmptySet
  <2>2. Cardinality(Desc) = NUM
    <3>1. 0 <= NUM - 1 \/ NUM - 1 < 0  BY RingSize
    <3>2. Cardinality(Desc) = (NUM - 1) - 0 + 1
      BY SMTT(30), RingSize, FS_Interval DEF Desc
    <3>3. QED BY <3>2, RingSize
  <2>3. QED BY <1>1, <1>4, <1>5, <2>1, <2>2, RingSize DEF CountInv
<1>8. CallInv /\ DataInv
  BY SMTT(30), <1>1, <1>4, <1>5 DEF CallInv, DataInv
<1>9. QED BY SMTT(30), <1>1, <1>3, <1>6, <1>7, <1>8 DEF IInv

LEMMA StutterIInv == ASSUME IInv, UNCHANGED vars PROVE IInv'
<1>1. /\ UNCHANGED <<buf, ringVars, deviceVars, used_idx, idx, panicked>>
      /\ pc' = pc /\ irq' = irq /\ handler' = handler
  BY DEF vars, vdiskVars
<1>2. /\ irq' \in {0, 1} /\ handler' \in {0, 1}
      /\ pc' \in [Proc -> {"idle", "start", "nodesc", "wait", "woken"}]
  BY SMTT(30), <1>1 DEF IInv, TypeOK
<1>3. /\ \A q \in Proc :
              /\ pc'[q] \in {"wait", "woken"} <=> pc[q] \in {"wait", "woken"}
              /\ pc'[q] = "wait" => buf[q].disk = 1
              /\ pc'[q] = "nodesc" => Cardinality(free) < 3
              /\ pc'[q] = "idle" => pc[q] = "idle"
      /\ used_idx # used.idx => irq' = 1 \/ handler' = 1
  BY <1>1 DEF IInv, CallInv
<1>4. QED BY <1>1, <1>2, <1>3, MoveIInv

LEMMA NextIInv == ASSUME IInv, [Next]_vars PROVE IInv'
<1>1. ASSUME NEW p \in Proc, NEW d \in Data, Bread(p, d) \/ Bwrite(p, d)
      PROVE  IInv'
  BY <1>1, BreadIInv, BwriteIInv
<1>2. ASSUME NEW p \in Proc, Driver(p) \/ Kill(p) PROVE IInv'
  BY <1>2, NoDescriptorsIInv, SubmitIInv, SleepAgainIInv, FinishIInv, KillIInv
  DEF Driver
<1>3. CASE Device  BY <1>3, DeviceTakeIInv, DeviceDoneIInv DEF Device
<1>4. CASE Intr  BY <1>4, IntrEdgeIInv, IntrNextIInv DEF Intr
<1>5. CASE UNCHANGED vars  BY <1>5, StutterIInv
<1>6. QED BY <1>1, <1>2, <1>3, <1>4, <1>5 DEF Next

\* IInv holds in every reachable state.
THEOREM InductiveInvariant == Spec => []IInv
<1>1. Init => IInv  BY InitIInv
<1>2. IInv /\ [Next]_vars => IInv'  BY NextIInv
<1>3. QED BY <1>1, <1>2, PTL DEF Spec

\* When bread() or bwrite() returns, the buffer and the block on the disk
\* agree, in whatever order the device finishes the requests
\* (virtio_disk_rw(), virtio_disk_intr()).
THEOREM TransfersDone == Spec => []TransferDone
<1>1. IInv => TransferDone  BY DEF IInv, DataInv, TransferDone
<1>2. QED BY <1>1, InductiveInvariant, PTL

\* A descriptor is free or belongs to the chain of one request, none is lost,
\* and free_desc() and virtio_disk_intr() never panic.
THEOREM DescriptorsOwned == Spec => []DescOwned
<1>1. IInv => DescOwned
  <2> SUFFICES ASSUME IInv PROVE DescOwned  OBVIOUS
  <2>1. ASSUME NEW p \in Proc, idx[p] # Unset
        PROVE  /\ p \in Active /\ Chain(idx[p]) = {idx[p], Second(p), Third(p)}
               /\ Chain(idx[p]) \cap free = {}
    <3>1. p \in Active  BY <2>1 DEF Active
    <3>2. Chain(idx[p]) = {idx[p], Second(p), Third(p)}  BY SMTT(30), <3>1, ChainIs
    <3>3. idx[p] \notin free /\ Second(p) \notin free /\ Third(p) \notin free
      BY <3>1 DEF IInv, ChainInv
    <3>4. QED BY <3>1, <3>2, <3>3
  <2>2. ASSUME NEW p \in Proc, NEW q \in Proc \ {p}, idx[p] # Unset, idx[q] # Unset
        PROVE  Chain(idx[p]) \cap Chain(idx[q]) = {}
    <3>1. {idx[p], Second(p), Third(p)} \cap {idx[q], Second(q), Third(q)} = {}
      BY Zenon, <2>1, <2>2 DEF IInv, ChainInv
    <3>2. QED BY ZenonT(40), <2>1, <2>2, <3>1
  <2>3. /\ panicked = 0
        /\ Cardinality(free)
             = NUM - 3 * Cardinality({p \in Proc : idx[p] # Unset})
    BY DEF IInv, CountInv, Active
  <2>4. QED BY <2>1, <2>2, <2>3 DEF DescOwned
<1>2. QED BY <1>1, InductiveInvariant, PTL

\* Nobody sleeps in virtio_disk_rw() for something that has already happened.
THEOREM SleepersWait == Spec => []NobodySleepsInVain
<1>1. IInv => NobodySleepsInVain
  BY DEF IInv, CallInv, NobodySleepsInVain
<1>2. QED BY <1>1, InductiveInvariant, PTL
=============================================================================
