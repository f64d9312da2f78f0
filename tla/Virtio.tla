------------------------------- MODULE Virtio -------------------------------
(***************************************************************************)
(* The disk driver, kernel/virtio_disk.c, and the device behind it.        *)
(*                                                                         *)
(* Driver and device share the descriptors, the avail ring (requests) and  *)
(* the used ring (completions); the device may finish requests in any      *)
(* order, and at any time between two steps of the driver.  A call of      *)
(* virtio_disk_rw() runs under vdisk_lock from one sleep() to the next,    *)
(* and each of these stretches is a step.  The interrupt handler, which    *)
(* races with the device, is a step per access to the used ring.           *)
(*                                                                         *)
(* Each process reads and writes one block through a buffer that it has    *)
(* locked, as bread() and bwrite() of kernel/bio.c do; process, block and  *)
(* buffer have the same name.                                              *)
(***************************************************************************)
EXTENDS Naturals, FiniteSets

CONSTANTS
    Proc, Data,
    Nobody,  \* a null pointer
    NUM,     \* descriptors, and entries of each ring
    Wrap     \* the ring counters are counted modulo Wrap: 2^16

ASSUME RingAssumption ==
    /\ NUM \in Nat \ {0} /\ Wrap \in Nat \ {0} /\ Wrap % NUM = 0
    /\ Nobody \notin Proc

Desc == 0 .. NUM - 1
Unset == NUM              \* no descriptor

VARIABLES
    buf,      \* data, valid and disk of each buffer
    media,    \* contents of the disk
    desc,     \* descriptors: what addr points to, and next
    free,     \* disk.free, as the set of free descriptors
    info,     \* disk.info: the buffer and the status of each chain
    avail,    \* avail ring and its index
    used,     \* used ring and its index
    used_idx, \* how far the driver has looked in the used ring
    taken,    \* device: how far it has looked in the avail ring
    inflight, \* device: the chains it works on
    irq,      \* device: INTERRUPT_STATUS
    handler,  \* 1 while virtio_disk_intr() runs, and owns vdisk_lock
    pc,       \* where each process is
    idx,      \* idx[0] of its request
    panicked

ringVars   == <<desc, free, info, avail>>
deviceVars == <<media, used, taken, inflight>>
vdiskVars  == <<ringVars, deviceVars, used_idx, irq, handler, idx>>
vars       == <<buf, vdiskVars, pc, panicked>>

NoDesc == [addr |-> Nobody, next |-> Unset]

Init ==
    /\ buf \in [Proc -> [data : Data, valid : {0}, disk : {0}]]
    /\ pc = [p \in Proc |-> "idle"]
    /\ panicked = 0
    /\ media \in [Proc -> Data]
    /\ desc = [i \in Desc |-> NoDesc]
    /\ free = Desc
    /\ info = [i \in Desc |-> [b |-> Nobody, status |-> 0]]
    /\ avail = [ring |-> [i \in Desc |-> Unset], idx |-> 0]
    /\ used = [ring |-> [i \in Desc |-> Unset], idx |-> 0]
    /\ used_idx = 0 /\ taken = 0 /\ inflight = {}
    /\ irq = 0 /\ handler = 0
    /\ idx = [p \in Proc |-> Unset]

Goto(p, l) == pc' = [pc EXCEPT ![p] = l]

Inc(n) == (n + 1) % Wrap

\* bread() reads exactly the buffers that are not valid; bwrite() has a valid
\* one.
Op(p) == IF buf[p].valid = 1 THEN "VIRTIO_BLK_T_OUT" ELSE "VIRTIO_BLK_T_IN"

\* wakeup(&disk.free[0]) on the processes of f
Freed(f) == [q \in Proc |-> IF f[q] = "nodesc" THEN "start" ELSE f[q]]

\* The n lowest free descriptors, which alloc_desc() returns one by one.
Nth(n) == CHOOSE i \in free : Cardinality({j \in free : j < i}) = n

-----------------------------------------------------------------------------
(* The callers, kernel/bio.c *)

\* bread() after bget() has recycled a buffer, with whatever was in it.
Bread(p, d) ==
    /\ pc[p] = "idle"
    /\ buf' = [buf EXCEPT ![p] = [data |-> d, valid |-> 0, disk |-> 0]]
    /\ Goto(p, "start")
    /\ UNCHANGED <<vdiskVars, panicked>>

\* bwrite() of contents that the process has put into the buffer.
Bwrite(p, d) ==
    /\ pc[p] = "idle" /\ buf[p].valid = 1
    /\ buf' = [buf EXCEPT ![p].data = d]
    /\ Goto(p, "start")
    /\ UNCHANGED <<vdiskVars, panicked>>

-----------------------------------------------------------------------------
(* virtio_disk_rw() *)

\* Fewer than three descriptors are free: alloc3_desc() gives back those it
\* got, and free_desc() wakes the others that wait.
NoDescriptors(p) ==
    /\ pc[p] = "start" /\ handler = 0
    /\ Cardinality(free) < 3
    /\ pc' = [(IF free = {} THEN pc ELSE Freed(pc)) EXCEPT ![p] = "nodesc"]
    /\ UNCHANGED <<buf, vdiskVars, panicked>>

\* The request is formatted and handed to the device; the process sleeps on
\* the buffer.
Submit(p) ==
    /\ pc[p] = "start" /\ handler = 0
    /\ Cardinality(free) >= 3
    /\ LET i0 == Nth(0)  i1 == Nth(1)  i2 == Nth(2)
       IN /\ free' = free \ {i0, i1, i2}
          /\ desc' = [desc EXCEPT
                 ![i0] = [addr |-> <<Op(p), p>>, next |-> i1],
                 ![i1] = [addr |-> p, next |-> i2],
                 ![i2] = [addr |-> i0, next |-> Unset]]
          /\ info' = [info EXCEPT ![i0] = [b |-> p, status |-> 255]]
          /\ avail' = [ring |-> [avail.ring EXCEPT ![avail.idx % NUM] = i0],
                       idx |-> Inc(avail.idx)]
          /\ idx' = [idx EXCEPT ![p] = i0]
    /\ buf' = [buf EXCEPT ![p].disk = 1]
    /\ Goto(p, "wait")
    /\ UNCHANGED <<deviceVars, used_idx, irq, handler, panicked>>

\* The loop around the second sleep(): woken up although the request is not
\* finished, it sleeps again.
SleepAgain(p) ==
    /\ pc[p] = "woken" /\ handler = 0
    /\ buf[p].disk = 1
    /\ Goto(p, "wait")
    /\ UNCHANGED <<buf, vdiskVars, panicked>>

\* The descriptors that free_chain() comes by.
ChainHeadOnly(i) == {i}
Chain(i) ==
    LET j == desc[i].next
    IN IF j = Unset THEN {i} ELSE ({i, j, desc[j].next} \ {Unset})

MayFinishAny(b) == TRUE
MayFinish(b) == buf[b].disk = 0

\* The caller of virtio_disk_rw() goes on with the buffer; bread() marks it
\* valid.
Finish(p) ==
    /\ pc[p] = "woken" /\ handler = 0
    /\ MayFinish(p)
    /\ IF Chain(idx[p]) \cap free # {}
       THEN panicked' = 1 /\ UNCHANGED <<buf, desc, free, info, idx, pc>>
       ELSE /\ info' = [info EXCEPT ![idx[p]].b = Nobody]
            /\ desc' = [i \in Desc |->
                            IF i \in Chain(idx[p]) THEN NoDesc ELSE desc[i]]
            /\ free' = free \cup Chain(idx[p])
            /\ idx' = [idx EXCEPT ![p] = Unset]
            /\ buf' = [buf EXCEPT ![p].valid = 1]
            /\ pc' = [Freed(pc) EXCEPT ![p] = "idle"]
            /\ UNCHANGED panicked
    /\ UNCHANGED <<deviceVars, avail, used_idx, irq, handler>>

\* kill() wakes a process in either of the two sleeps.
Kill(p) ==
    /\ \/ pc[p] = "nodesc" /\ Goto(p, "start")
       \/ pc[p] = "wait" /\ Goto(p, "woken")
    /\ UNCHANGED <<buf, vdiskVars, panicked>>

-----------------------------------------------------------------------------
(* The device.  An entry that was read from a ring is not read again.      *)

DeviceTake ==
    /\ taken # avail.idx
    /\ inflight' = inflight \cup {avail.ring[taken % NUM]}
    /\ taken' = Inc(taken)
    /\ avail' = [avail EXCEPT !.ring[taken % NUM] = Unset]
    /\ UNCHANGED <<buf, media, desc, free, info, used, used_idx, irq, handler,
                   pc, idx, panicked>>

\* The transfer, the status byte, the used entry and the interrupt.
DeviceDone(i) ==
    /\ i \in inflight
    /\ LET op == desc[i].addr
           b  == desc[desc[i].next].addr
           s  == desc[desc[desc[i].next].next].addr
       IN /\ IF op[1] = "VIRTIO_BLK_T_IN"
             THEN /\ buf' = [buf EXCEPT ![b].data = media[op[2]]]
                  /\ UNCHANGED media
             ELSE /\ media' = [media EXCEPT ![op[2]] = buf[b].data]
                  /\ UNCHANGED buf
          /\ info' = [info EXCEPT ![s].status = 0]
    /\ used' = [ring |-> [used.ring EXCEPT ![used.idx % NUM] = i],
                idx |-> Inc(used.idx)]
    /\ inflight' = inflight \ {i}
    /\ irq' = 1
    /\ UNCHANGED <<desc, free, avail, taken, used_idx, handler, pc, idx,
                   panicked>>

-----------------------------------------------------------------------------
(* virtio_disk_intr() *)

\* The interrupt is acknowledged before the used ring is looked at.
IntrStart ==
    /\ irq = 1 /\ handler = 0
    /\ handler' = 1
    /\ irq' = 0
    /\ UNCHANGED <<buf, ringVars, deviceVars, used_idx, pc, idx, panicked>>

\* wakeup(b)
Wakeup(b) ==
    pc' = [pc EXCEPT ![b] = IF @ = "wait" THEN "woken" ELSE @]

IntrNext ==
    /\ handler = 1 /\ used_idx # used.idx
    /\ LET id == used.ring[used_idx % NUM]
       IN IF info[id].status # 0
          THEN panicked' = 1 /\ UNCHANGED <<buf, pc, used, used_idx>>
          ELSE /\ buf' = [buf EXCEPT ![info[id].b].disk = 0]
               /\ Wakeup(info[id].b)
               /\ used' = [used EXCEPT !.ring[used_idx % NUM] = Unset]
               /\ used_idx' = Inc(used_idx)
               /\ UNCHANGED panicked
    /\ UNCHANGED <<ringVars, media, taken, inflight, irq, handler, idx>>

LoopOverAtOnce == TRUE
LoopOver == used_idx = used.idx
IntrEnd ==
    /\ handler = 1 /\ LoopOver
    /\ handler' = 0
    /\ UNCHANGED <<buf, ringVars, deviceVars, used_idx, irq, pc, idx,
                   panicked>>
-----------------------------------------------------------------------------
Driver(p) == NoDescriptors(p) \/ Submit(p) \/ SleepAgain(p) \/ Finish(p)

Device == DeviceTake \/ \E i \in Desc : DeviceDone(i)

Intr == IntrStart \/ IntrNext \/ IntrEnd

Next ==
    /\ panicked = 0
    /\ \/ \E p \in Proc : \/ \E d \in Data : Bread(p, d) \/ Bwrite(p, d)
                          \/ Driver(p) \/ Kill(p)
       \/ Device \/ Intr

Spec == Init /\ [][Next]_vars

-----------------------------------------------------------------------------
(* Properties. *)

\* virtio_disk.c:203-275 and bio.c:92-112: when bread() or bwrite() returns,
\* the buffer and the block on the disk agree, in whatever order the device
\* finished the requests, and although kill() may wake the process early.
TransferDone ==
    \A p \in Proc : pc[p] = "idle" /\ buf[p].valid = 1 =>
        buf[p].data = media[p]

\* virtio_disk.c:144-201 and 272-273: a descriptor is free, or belongs to the
\* chain of one request, so that the driver never frees one twice and finds
\* the status byte of the request that the device finished (the panics of
\* free_desc() and virtio_disk_intr()).
DescOwned ==
    /\ panicked = 0
    /\ \A p \in Proc : idx[p] # Unset =>
          /\ Chain(idx[p]) \cap free = {}
          /\ \A q \in Proc \ {p} :
                idx[q] # Unset => Chain(idx[p]) \cap Chain(idx[q]) = {}
    /\ Cardinality(free)
         = NUM - 3 * Cardinality({p \in Proc : idx[p] # Unset})

\* virtio_disk.c:285-313: nobody sleeps for nothing.  A completion that the
\* handler has not seen comes with an interrupt; a process sleeps on a buffer
\* that the device has not finished; and while a process sleeps for
\* descriptors, fewer than three are free.
NobodySleepsInVain ==
    /\ used_idx # used.idx => irq = 1 \/ handler = 1
    /\ \A p \in Proc :
          /\ pc[p] = "wait" => buf[p].disk = 1
          /\ pc[p] = "nodesc" => Cardinality(free) < 3
-----------------------------------------------------------------------------
(* The inductive invariant behind the properties above. *)

TypeOK ==
    /\ buf \in [Proc -> [data : Data, valid : {0, 1}, disk : {0, 1}]]
    /\ media \in [Proc -> Data]
    /\ desc = [i \in Desc |-> desc[i]]
    /\ free \in SUBSET Desc /\ inflight \in SUBSET Desc
    /\ info \in [Desc -> [b : Proc \cup {Nobody}, status : {0, 255}]]
    /\ avail \in [ring : [Desc -> Desc \cup {Unset}], idx : 0 .. Wrap - 1]
    /\ used \in [ring : [Desc -> Desc \cup {Unset}], idx : 0 .. Wrap - 1]
    /\ taken \in 0 .. Wrap - 1 /\ used_idx \in 0 .. Wrap - 1
    /\ irq \in {0, 1} /\ handler \in {0, 1}
    /\ pc \in [Proc -> {"idle", "start", "nodesc", "wait", "woken"}]
    /\ idx \in [Proc -> Desc \cup {Unset}]

\* The processes that have a request, and those whose request is under way.
Active  == {p \in Proc : idx[p] # Unset}
Pending == {p \in Proc : buf[p].disk = 1}

\* The second and the third descriptor of a request.
Second(p) == desc[idx[p]].next
Third(p)  == desc[Second(p)].next

\* Every request has three descriptors of its own, filled in for it.
ChainInv ==
    /\ \A p \in Active :
          /\ Second(p) \in Desc /\ Third(p) \in Desc
          /\ desc[Third(p)].next = Unset
          /\ idx[p] # Second(p) /\ idx[p] # Third(p) /\ Second(p) # Third(p)
          /\ idx[p] \notin free /\ Second(p) \notin free /\ Third(p) \notin free
          /\ desc[idx[p]].addr = <<Op(p), p>>
          /\ desc[Second(p)].addr = p
          /\ desc[Third(p)].addr = idx[p]
          /\ info[idx[p]].b = p
    /\ \A p, q \in Active :
          p # q => {idx[p], Second(p), Third(p)}
                     \cap {idx[q], Second(q), Third(q)} = {}

\* Entries from counter a up to counter b, and the i-th entry after a.
Between(a, b) == (b + Wrap - a) % Wrap
Entry(ring, a, i) == ring[((a + i) % Wrap) % NUM]

Queued == Between(taken, avail.idx)
Unseen == Between(used_idx, used.idx)
AvailAt(i) == Entry(avail.ring, taken, i)
UsedAt(i)  == Entry(used.ring, used_idx, i)

\* Descriptors, and requests under way, are accounted for.
CountInv ==
    /\ IsFiniteSet(Active)
    /\ Cardinality(free) = NUM - 3 * Cardinality(Active)
    /\ Queued + Cardinality(inflight) + Unseen = Cardinality(Pending)

\* The requests under way are queued, with the device, or finished and not
\* yet seen by the handler: each in one place, once.
PlaceInv ==
    /\ \A i \in 0 .. Queued - 1 : \E p \in Pending : AvailAt(i) = idx[p]
    /\ \A d \in inflight : \E p \in Pending : d = idx[p]
    /\ \A i \in 0 .. Unseen - 1 : \E p \in Pending : UsedAt(i) = idx[p]
    /\ \A i, j \in 0 .. Queued - 1 : i # j => AvailAt(i) # AvailAt(j)
    /\ \A i, j \in 0 .. Unseen - 1 : i # j => UsedAt(i) # UsedAt(j)
    /\ \A i \in 0 .. Queued - 1 : AvailAt(i) \notin inflight
    /\ \A i \in 0 .. Unseen - 1 : UsedAt(i) \notin inflight
    /\ \A i \in 0 .. Queued - 1, j \in 0 .. Unseen - 1 : AvailAt(i) # UsedAt(j)

CallInv ==
    /\ \A p \in Proc :
          /\ p \in Active <=> pc[p] \in {"wait", "woken"}
          /\ buf[p].disk = 1 => p \in Active
          /\ pc[p] = "wait" => buf[p].disk = 1
          /\ pc[p] = "nodesc" => Cardinality(free) < 3
    /\ used_idx # used.idx => irq = 1 \/ handler = 1

\* A finished transfer stays good until its caller returns, and then until the
\* next call.
DataInv ==
    /\ \A p \in Proc :
          \/ pc[p] = "idle" /\ buf[p].valid = 1
          \/ p \in Active /\ buf[p].disk = 0
          => buf[p].data = media[p]
    /\ \A i \in 0 .. Unseen - 1, p \in Active : UsedAt(i) = idx[p] =>
          buf[p].data = media[p] /\ info[idx[p]].status = 0

IInv ==
    /\ TypeOK /\ panicked = 0
    /\ ChainInv /\ CountInv /\ PlaceInv /\ CallInv /\ DataInv
=============================================================================
