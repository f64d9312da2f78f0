------------------------------ MODULE LogCalls ------------------------------
(***************************************************************************)
(* Log keeps its inductive invariant IInv when it boots and in the steps   *)
(* of a file-system call up to its end_op(); and those steps are steps of  *)
(* AtomicDisk or stutters.                                                 *)
(***************************************************************************)
EXTENDS Log, TLAPS

USE SentinelAssumption, SizeAssumption DEF Running, diskVars

-----------------------------------------------------------------------------
(* Facts used for several actions. *)

\* What the steps use of the sizes of sets of processes.  LogProofs proves it
\* from the library's theorems about finite sets, which would only be in the
\* provers' way here.
Sizes ==
    /\ Cardinality({}) = 0
    /\ \A S \in SUBSET Proc :
          /\ Cardinality(S) \in Nat
          /\ Cardinality(S) = 0 <=> S = {}
          /\ \A p \in Proc \ S : Cardinality(S \cup {p}) = Cardinality(S) + 1
          /\ \A p \in S : Cardinality(S \ {p}) = Cardinality(S) - 1

\* log.outstanding is 0 exactly when no call is in progress.
LEMMA OutstandingZero ==
    ASSUME Sizes, CountInv
    PROVE  outstanding \in Nat /\ (outstanding = 0 <=> Active = {})
<1>1. Active \in SUBSET Proc  BY DEF Active
<1>2. QED BY <1>1 DEF Sizes, CountInv

\* The committer is alone: no other process commits, none is in a call and
\* no changed buffer waits to be logged.
LEMMA CommitterAlone ==
    ASSUME Sizes, NEW p \in Proc, IInv, pc[p] \in Committer
    PROVE  /\ committing = 1 /\ outstanding = 0 /\ Active = {} /\ dirty = {}
           /\ \A q \in Proc : pc[q] \in Committer => q = p
           /\ \A l \in Committer : At(l) <=> pc[p] = l
BY OutstandingZero DEF IInv, TypeOK, CountInv, HeldInv, Active, At

\* Nothing is known of the log while nobody commits.
LEMMA PhaseIdle ==
    ASSUME boot' = "up", \A l \in Committer : ~At(l)' PROVE PhaseInv'
BY DEF PhaseInv, Committer

LEMMA SamePending ==
    ASSUME lh' = lh, tail' = tail,
           At("install")' <=> At("install"), At("erase")' <=> At("erase")
    PROVE  \A b \in Block : Pending(b)' <=> Pending(b)
BY Zenon DEF Pending

\* Steps that leave the log, and who commits, alone.
LEMMA SameHeader ==
    ASSUME HeaderInv, lh' = lh, head' = head, boot' = boot,
           committing' = committing, Active' = {} => Active = {},
           \A l \in Committer : At(l)' <=> At(l)
    PROVE  HeaderInv'
<1>1. /\ At("install")' <=> At("install")
      /\ At("erase")' <=> At("erase")
      /\ At("finish")' <=> At("finish")
  BY DEF Committer
<1>2. QED BY <1>1 DEF HeaderInv, Injective

LEMMA SamePhase ==
    ASSUME PhaseInv, lh' = lh, tail' = tail, boot' = boot, disk' = disk,
           logdata' = logdata, head' = head, cache' = cache,
           \A l \in Committer : At(l)' <=> At(l)
    PROVE  PhaseInv'
<1>1. /\ At("write_log")' <=> At("write_log")
      /\ At("write_head")' <=> At("write_head")
      /\ At("install")' <=> At("install")
      /\ At("erase")' <=> At("erase")
  BY DEF Committer
<1>2. QED BY Zenon, <1>1 DEF PhaseInv, Bread

-----------------------------------------------------------------------------
(* Initial states and the boot. *)

LEMMA InitIInv == ASSUME Sizes, Init PROVE IInv
<1> USE DEF Init
<1>1. TypeOK /\ BootQuiet /\ HeldInv /\ NobodyStranded
  BY DEF TypeOK, BootQuiet, HeldInv, NobodyStranded, Label
<1>2. CountInv
  <2>1. Active = {}  BY DEF Active
  <2>2. QED BY <2>1 DEF CountInv, Sizes, Committer
<1>3. HeaderInv /\ PhaseInv /\ CacheInv /\ PinsExact
  BY DEF HeaderInv, PhaseInv, CacheInv, PinsExact, Injective, At, Pending
<1>4. QED BY <1>1, <1>2, <1>3 DEF IInv

LEMMA ReadHeadIInv == ASSUME Sizes, IInv, ReadHead PROVE IInv'
<1>1. TypeOK' /\ BootQuiet' /\ HeldInv' /\ NobodyStranded'
  BY DEF IInv, TypeOK, ReadHead, BootQuiet, HeldInv, NobodyStranded
<1>2. CountInv'  BY DEF IInv, TypeOK, ReadHead, CountInv, Active
<1>3. HeaderInv' /\ PhaseInv'
  BY DEF IInv, TypeOK, ReadHead, HeaderInv, PhaseInv, Injective, BootQuiet, At
<1>4. CacheInv' /\ PinsExact'
  BY DEF IInv, TypeOK, ReadHead, CacheInv, PinsExact, BootQuiet
<1>5. QED BY <1>1, <1>2, <1>3, <1>4 DEF IInv

LEMMA RecoverBlockIInv == ASSUME Sizes, IInv, RecoverBlock PROVE IInv'
<1>1. tail + 1 \in Slots /\ tail + 1 \in 1 .. Len(lh) /\ lh[tail + 1] \in Block
  BY DEF IInv, TypeOK, RecoverBlock, PhaseInv, HeaderInv, Slots
<1>2. TypeOK'
  <2>1. logdata[tail + 1] \in Data
    BY Zenon, <1>1 DEF IInv, TypeOK, RecoverBlock
  <2>2. disk' \in [Block -> Data] /\ cache' \in [Block -> Data \cup {NotCached}]
    BY <1>1, <2>1 DEF IInv, TypeOK, RecoverBlock
  <2>3. QED BY <2>2 DEF IInv, TypeOK, RecoverBlock
<1>3. BootQuiet' /\ HeldInv' /\ NobodyStranded'
  BY DEF IInv, TypeOK, RecoverBlock, BootQuiet, HeldInv, NobodyStranded
<1>4. CountInv'  BY DEF IInv, TypeOK, RecoverBlock, CountInv, Active
<1>5. HeaderInv'
  BY DEF IInv, TypeOK, RecoverBlock, HeaderInv, Injective, BootQuiet, At
<1>6. PhaseInv'
  <2>1. \A i \in 1 .. tail + 1 : disk'[lh[i]] = logdata[i]
    BY <1>1 DEF IInv, TypeOK, RecoverBlock, PhaseInv, HeaderInv, Injective
  <2>2. lh = head /\ \A q \in Proc : pc'[q] = "idle"
    BY DEF IInv, TypeOK, RecoverBlock, PhaseInv, BootQuiet
  <2>3. QED BY <1>1, <2>1, <2>2 DEF IInv, TypeOK, RecoverBlock, PhaseInv, At
<1>7. CacheInv' /\ PinsExact'
  BY <1>1 DEF IInv, TypeOK, RecoverBlock, CacheInv, PinsExact, BootQuiet
<1>8. QED BY <1>2, <1>3, <1>4, <1>5, <1>6, <1>7 DEF IInv

LEMMA ClearHeadIInv == ASSUME Sizes, IInv, ClearHead PROVE IInv'
<1>1. TypeOK' /\ BootQuiet' /\ HeldInv' /\ NobodyStranded'
  BY DEF IInv, TypeOK, ClearHead, BootQuiet, HeldInv, NobodyStranded
<1>2. CountInv'  BY DEF IInv, TypeOK, ClearHead, CountInv, Active
<1>3. HeaderInv' /\ PhaseInv'
  BY DEF IInv, TypeOK, ClearHead, HeaderInv, PhaseInv, Injective, BootQuiet, At
<1>4. CacheInv' /\ PinsExact'
  BY DEF IInv, TypeOK, ClearHead, CacheInv, PinsExact, BootQuiet, Pending
<1>5. QED BY <1>1, <1>2, <1>3, <1>4 DEF IInv

-----------------------------------------------------------------------------
(* File-system calls. *)

LEMMA BeginOpIInv == ASSUME Sizes, NEW p \in Proc, IInv, BeginOp(p) PROVE IInv'
<1>0. /\ pc[p] \in {"idle", "begin"} /\ boot = "up"
      /\ pc \in [Proc -> Label] /\ wrote \in [Proc -> SUBSET Block]
      /\ outstanding \in Nat
  BY DEF BeginOp, IInv, TypeOK
<1>1. CASE MustWait
  <2>1. pc' = [pc EXCEPT ![p] = "sleep"]
        /\ UNCHANGED <<diskVars, cache, pins, lh, outstanding, committing,
                       held, dirty, wrote, tail, boot, panicked, crashes>>
    BY <1>1 DEF BeginOp
  <2>2. Active' = Active  BY <1>0, <2>1 DEF Active
  <2>3. TypeOK' /\ BootQuiet' /\ HeldInv'
    BY <1>0, <2>1 DEF IInv, TypeOK, BootQuiet, HeldInv, Label
  <2>4. CountInv'  BY <1>0, <2>1, <2>2 DEF IInv, CountInv, Committer
  <2>5. \A l \in Committer : At(l)' <=> At(l)
    BY <1>0, <2>1 DEF At, Committer
  <2>6. HeaderInv' /\ PhaseInv' /\ PinsExact' /\ CacheInv'
    <3>1. HeaderInv'  BY <2>1, <2>2, <2>5, SameHeader DEF IInv
    <3>2. PhaseInv'  BY <2>1, <2>5, SamePhase DEF IInv
    <3>3. \A b \in Block : Pending(b)' <=> Pending(b)
      BY <2>1, <2>5, SamePending DEF Committer
    <3>4. PinsExact' /\ CacheInv'
      BY <2>1, <3>3 DEF IInv, PinsExact, CacheInv
    <3>5. QED BY <3>1, <3>2, <3>4
  <2>7. NobodyStranded'
    <3>1. ~(committing = 0 /\ outstanding = 0)
      <4> SUFFICES ASSUME committing = 0, outstanding = 0 PROVE FALSE
        OBVIOUS
      <4>1. lh = <<>>  BY <1>0, OutstandingZero DEF IInv, HeaderInv
      <4>2. Len(lh) = 0 /\ (outstanding + 1) * MAXOPBLOCKS = MAXOPBLOCKS
        BY <4>1
      <4>3. QED BY <1>1, <4>2 DEF MustWait
    <3>2. QED BY <2>1, <3>1 DEF NobodyStranded, IInv, TypeOK
  <2>8. QED BY <2>3, <2>4, <2>6, <2>7 DEF IInv
<1>2. CASE ~MustWait
  <2>1. /\ pc' = [pc EXCEPT ![p] = "op"] /\ outstanding' = outstanding + 1
        /\ wrote' = [wrote EXCEPT ![p] = {}]
        /\ UNCHANGED <<diskVars, cache, pins, lh, committing, held, dirty,
                       tail, boot, panicked, crashes>>
    BY <1>2 DEF BeginOp
  <2>2. committing = 0  BY <1>2 DEF MustWait, IInv, TypeOK
  <2>3. Active' = Active \cup {p} /\ p \notin Active
    BY <1>0, <2>1 DEF Active
  <2>4. TypeOK' /\ BootQuiet' /\ HeldInv' /\ NobodyStranded'
    BY <1>0, <2>1 DEF IInv, TypeOK, BootQuiet, HeldInv, NobodyStranded, Label
  <2>5. CountInv'
    <3>1. outstanding' = Cardinality(Active')
      <4>1. Active \in SUBSET Proc /\ outstanding = Cardinality(Active)
        BY DEF IInv, CountInv, Active
      <4>2. Cardinality(Active \cup {p}) = Cardinality(Active) + 1
        BY <2>3, <4>1 DEF Sizes
      <4>3. QED BY <2>1, <2>3, <4>1, <4>2
    <3>2. QED BY <1>0, <2>1, <2>2, <3>1 DEF IInv, CountInv, Committer
  <2>6. \A l \in Committer : At(l)' <=> At(l)
    BY <1>0, <2>1 DEF At, Committer
  <2>7. HeaderInv' /\ PhaseInv'
    <3>1. HeaderInv'  BY <2>1, <2>3, <2>6, SameHeader DEF IInv
    <3>2. PhaseInv'  BY <2>1, <2>6, SamePhase DEF IInv
    <3>3. QED BY <3>1, <3>2
  <2>8. PinsExact' /\ CacheInv'
    <3>1. \A b \in Block : Pending(b)' <=> Pending(b)
      BY <2>1, <2>6, SamePending DEF Committer
    <3>2. QED BY <2>1, <3>1 DEF IInv, PinsExact, CacheInv
  <2>9. QED BY <2>4, <2>5, <2>7, <2>8 DEF IInv
<1>3. QED BY <1>1, <1>2

LEMMA LockBufferIInv ==
    ASSUME Sizes, NEW p \in Proc, NEW b \in Block, IInv, LockBuffer(p, b)
    PROVE  IInv'
<1>1. \A c \in Block : Bread(c)' = Bread(c)
  BY DEF IInv, TypeOK, LockBuffer, Bread
<1>2. TypeOK' /\ BootQuiet' /\ HeldInv' /\ NobodyStranded'
  BY DEF IInv, TypeOK, LockBuffer, BootQuiet, HeldInv, NobodyStranded, Free, Bread
<1>3. CountInv'  BY DEF IInv, TypeOK, LockBuffer, CountInv, Active
<1>4. HeaderInv'
  BY DEF IInv, TypeOK, LockBuffer, HeaderInv, Injective, At, Active
<1>5. PhaseInv'  BY <1>1 DEF IInv, TypeOK, LockBuffer, PhaseInv, At
<1>6. PinsExact'  BY DEF IInv, TypeOK, LockBuffer, PinsExact, Pending, At
<1>7. CacheInv'  BY DEF IInv, TypeOK, LockBuffer, CacheInv, Pending, At, Bread
<1>8. QED BY <1>2, <1>3, <1>4, <1>5, <1>6, <1>7 DEF IInv

LEMMA ModifyIInv ==
    ASSUME Sizes, NEW p \in Proc, NEW d \in Data, IInv, Modify(p, d)
    PROVE  IInv'
<1>1. ~ \E q \in Proc : pc[q] \in Committer
  BY DEF IInv, TypeOK, Modify, CountInv, Active
<1>2. TypeOK' /\ BootQuiet' /\ HeldInv' /\ NobodyStranded'
  BY DEF IInv, TypeOK, Modify, BootQuiet, HeldInv, NobodyStranded
<1>3. CountInv'  BY DEF IInv, TypeOK, Modify, CountInv, Active
<1>4. HeaderInv'  BY DEF IInv, TypeOK, Modify, HeaderInv, Injective, At, Active
<1>5. PhaseInv'  BY <1>1 DEF IInv, TypeOK, Modify, PhaseInv, At, Committer
<1>6. PinsExact'  BY DEF IInv, TypeOK, Modify, PinsExact, Pending, At
<1>7. CacheInv'
  <2> SUFFICES ASSUME NEW b \in Block PROVE CacheInv!(b)'
    BY DEF CacheInv
  <2>1. Pending(b)' = Pending(b)  BY DEF IInv, TypeOK, Modify, Pending, At
  <2>2. CASE b = held[p]  BY <2>1, <2>2 DEF IInv, TypeOK, Modify, CacheInv
  <2>3. CASE b # held[p]  BY <2>1, <2>3 DEF IInv, TypeOK, Modify, CacheInv
  <2>4. QED BY <2>2, <2>3 DEF IInv, TypeOK, Modify
<1>8. QED BY <1>2, <1>3, <1>4, <1>5, <1>6, <1>7 DEF IInv

LEMMA BrelseIInv == ASSUME Sizes, NEW p \in Proc, IInv, Brelse(p) PROVE IInv'
<1>1. TypeOK' /\ BootQuiet' /\ HeldInv' /\ NobodyStranded'
  BY DEF IInv, TypeOK, Brelse, BootQuiet, HeldInv, NobodyStranded
<1>2. CountInv'  BY DEF IInv, TypeOK, Brelse, CountInv, Active
<1>3. HeaderInv' /\ PinsExact'
  BY DEF IInv, TypeOK, Brelse, HeaderInv, Injective, At, Active, PinsExact, Pending
<1>4. PhaseInv'  BY DEF IInv, TypeOK, Brelse, PhaseInv, At, Bread
<1>5. CacheInv'
  <2> SUFFICES ASSUME NEW b \in Block PROVE CacheInv!(b)'
    BY DEF CacheInv
  <2>1. Pending(b)' = Pending(b)  BY DEF IInv, TypeOK, Brelse, Pending, At
  <2>2. (\E q \in Proc : held[q] = b /\ q \in dirty)
           => \E q \in Proc : held'[q] = b /\ q \in dirty'
    BY DEF IInv, TypeOK, Brelse
  <2>3. \A q \in Proc : held'[q] = b => held[q] = b
    BY DEF IInv, TypeOK, Brelse
  <2>4. QED BY <2>1, <2>2, <2>3 DEF IInv, TypeOK, Brelse, CacheInv
<1>6. QED BY <1>1, <1>2, <1>3, <1>4, <1>5 DEF IInv

LEMMA LogWriteIInv ==
    ASSUME Sizes, NEW p \in Proc, IInv, LogWrite(p) PROVE IInv'
<1>0. /\ pc[p] = "op" /\ held[p] \in Block /\ boot = "up" /\ p \in dirty
      /\ committing = 0 /\ ~ \E q \in Proc : pc[q] \in Committer
      /\ outstanding > 0
      /\ lh \in Seq(Block) /\ dirty \in SUBSET Proc
      /\ pc \in [Proc -> Label] /\ held \in [Proc -> Block \cup {NoBlock}]
      /\ pins \in [Block -> Nat] /\ wrote \in [Proc -> SUBSET Block]
  <2>1. /\ lh \in Seq(Block) /\ dirty \in SUBSET Proc /\ committing \in {0, 1}
        /\ pc \in [Proc -> Label] /\ held \in [Proc -> Block \cup {NoBlock}]
        /\ pins \in [Block -> Nat] /\ wrote \in [Proc -> SUBSET Block]
    BY DEF IInv, TypeOK
  <2>2. boot = "up" /\ p \in dirty /\ pc[p] = "op" /\ held[p] \in Block
    BY <2>1 DEF LogWrite, IInv, HeldInv
  <2>3. p \in Active  BY <2>2 DEF Active
  <2>4. /\ committing = 0 /\ ~ \E q \in Proc : pc[q] \in Committer
        /\ outstanding > 0
    BY <2>1, <2>3, OutstandingZero DEF IInv, CountInv
  <2>5. QED BY <2>1, <2>2, <2>4
<1>1. CASE NoRoom \/ outstanding < 1
  <2>1. /\ panicked' = 1
        /\ UNCHANGED <<diskVars, cache, pins, lh, outstanding, committing, pc,
                       held, dirty, wrote, tail, boot, crashes>>
    BY <1>1 DEF LogWrite
  <2>2. TypeOK' /\ BootQuiet' /\ HeldInv' /\ NobodyStranded' /\ CountInv'
    BY <2>1
    DEF IInv, TypeOK, BootQuiet, HeldInv, NobodyStranded, CountInv, Active
  <2>3. HeaderInv' /\ PhaseInv'
    <3>1. Active' = Active /\ \A l \in Committer : At(l)' <=> At(l)
      BY <2>1 DEF Active, At
    <3>2. HeaderInv'  BY <2>1, <3>1, SameHeader DEF IInv
    <3>3. PhaseInv'  BY <2>1, <3>1, SamePhase DEF IInv
    <3>4. QED BY <3>2, <3>3
  <2>4. \A b \in Block : Pending(b)' <=> Pending(b)
    BY Zenon, <2>1 DEF Pending, At
  <2>5. CacheInv' /\ PinsExact'
    BY <2>1, <2>4 DEF IInv, CacheInv, PinsExact
  <2>6. QED BY <2>2, <2>3, <2>5 DEF IInv
<1>2. CASE ~(NoRoom \/ outstanding < 1)
  <2>1. /\ dirty' = dirty \ {p}
        /\ wrote' = [wrote EXCEPT ![p] = @ \cup {held[p]}]
        /\ UNCHANGED <<diskVars, cache, outstanding, committing, pc, held,
                       tail, boot, panicked, crashes>>
    BY <1>2 DEF LogWrite
  <2>2. BootQuiet' /\ HeldInv' /\ NobodyStranded' /\ CountInv'
    BY <1>0, <2>1
    DEF IInv, BootQuiet, HeldInv, NobodyStranded, CountInv, Active
  <2>3. \A l \in Committer : ~At(l) /\ ~At(l)'
    BY <1>0, <2>1 DEF At
  <2>4. ~At("install") /\ ~At("erase") /\ ~At("install")' /\ ~At("erase")'
    BY <2>3 DEF Committer
  <2>5. \A b \in Block : b # held[p] =>
           ((\E q \in Proc : held[q] = b /\ q \in dirty)
               => \E q \in Proc : held'[q] = b /\ q \in dirty')
    BY <2>1
  <2>6. CASE Logged(held[p])
    <3>1. UNCHANGED <<lh, pins>>  BY <1>2, <2>6 DEF LogWrite
    <3>2. TypeOK'  BY <1>0, <2>1, <3>1 DEF IInv, TypeOK
    <3>3. HeaderInv'
      BY <1>0, <2>1, <2>4, <3>1 DEF IInv, HeaderInv, At, Active, Injective
    <3>9. PhaseInv'  BY <1>0, <2>1, <2>3, PhaseIdle
    <3>4. \A b \in Block : Pending(b)' <=> Pending(b)
      BY <2>1, <2>4, <3>1, SamePending
    <3>5. Pending(held[p])  BY Zenon, <2>4, <2>6 DEF Pending, Logged
    <3>6. PinsExact'  BY <2>1, <3>1, <3>4 DEF IInv, PinsExact
    <3>7. CacheInv'
      BY <1>0, <2>1, <2>5, <3>4, <3>5 DEF IInv, CacheInv
    <3>8. QED BY <2>2, <3>2, <3>3, <3>6, <3>7, <3>9 DEF IInv
  <2>7. CASE ~Logged(held[p])
    <3>1. lh' = Append(lh, held[p]) /\ pins' = [pins EXCEPT ![held[p]] = @ + 1]
      BY <1>2, <2>7 DEF LogWrite
    <3>2. TypeOK'
      <4>1. lh' \in Seq(Block) /\ pins' \in [Block -> Nat]  BY <1>0, <3>1
      <4>2. wrote' \in [Proc -> SUBSET Block]  BY <1>0, <2>1
      <4>3. QED BY <2>1, <4>1, <4>2 DEF IInv, TypeOK
    <3>3. /\ lh' \in Seq(Block) /\ Len(lh') = Len(lh) + 1
          /\ lh'[Len(lh) + 1] = held[p]
          /\ \A i \in 1 .. Len(lh) : lh'[i] = lh[i]
      BY <1>0, <3>1
    <3>4. HeaderInv'
      <4>1. Injective(lh)' /\ Len(lh') <= LOGSIZE
        <5>1. \A i \in 1 .. Len(lh) : lh[i] # held[p]
          BY <2>7 DEF Logged
        <5>2. Injective(lh)  BY DEF IInv, HeaderInv
        <5>3. ASSUME NEW i \in 1 .. Len(lh'), NEW j \in 1 .. Len(lh'),
                     lh'[i] = lh'[j]
              PROVE  i = j
          <6>1. i \in 1 .. Len(lh) \/ i = Len(lh) + 1  BY <1>0, <3>3
          <6>2. j \in 1 .. Len(lh) \/ j = Len(lh) + 1  BY <1>0, <3>3
          <6>3. CASE i \in 1 .. Len(lh) /\ j \in 1 .. Len(lh)
            BY <3>3, <5>2, <5>3, <6>3 DEF Injective
          <6>4. CASE i = Len(lh) + 1 \/ j = Len(lh) + 1
            BY ZenonT(40), <3>3, <5>1, <5>3, <6>1, <6>2, <6>4
          <6>5. QED BY <6>1, <6>2, <6>3, <6>4
        <5>4. QED BY <1>2, <3>3, <5>3 DEF Injective, NoRoom
      <4>2. p \in Active'  BY <1>0, <2>1 DEF Active
      <4>3. ~At("finish")'  BY <2>3 DEF Committer
      <4>4. QED BY <2>1, <2>4, <4>1, <4>2, <4>3
        DEF IInv, HeaderInv, Injective
    <3>5. PhaseInv'  BY <1>0, <2>1, <2>3, PhaseIdle
    <3>6. \A b \in Block : Pending(b)' <=> Pending(b) \/ b = held[p]
      <4> SUFFICES ASSUME NEW b \in Block
                   PROVE  Pending(b)' <=> Pending(b) \/ b = held[p]
        OBVIOUS
      <4>1. Pending(b)' <=> \E i \in 1 .. Len(lh) + 1 : lh'[i] = b
        BY <2>4, <3>3 DEF Pending
      <4>2. Pending(b) <=> \E i \in 1 .. Len(lh) : lh[i] = b
        BY <2>4 DEF Pending
      <4>3. \A i : i \in 1 .. Len(lh) + 1
                       <=> i \in 1 .. Len(lh) \/ i = Len(lh) + 1
        BY <1>0
      <4>4. QED BY Zenon, <3>3, <4>1, <4>2, <4>3
    <3>7. ~Pending(held[p])  BY <2>7 DEF Pending, Logged
    <3>8. PinsExact'
      BY <1>0, <2>1, <3>1, <3>6, <3>7 DEF IInv, PinsExact
    <3>9. CacheInv'
      BY <1>0, <2>1, <2>5, <3>6 DEF IInv, CacheInv
    <3>10. QED BY <2>2, <3>2, <3>4, <3>5, <3>8, <3>9 DEF IInv
  <2>8. QED BY <2>6, <2>7
<1>3. QED BY <1>1, <1>2

\* Only buffers equal to the disk are recycled.
LEMMA RecycledClean ==
    ASSUME NEW b \in Block, IInv, Recycle(b)
    PROVE  cache[b] = disk[b] /\ ~Pending(b) /\ \A q \in Proc : held[q] # b
<1>1. ~Pending(b) /\ \A q \in Proc : held[q] # b
  <2>1. boot = "up" /\ PinsExact /\ Unreferenced(b)  BY DEF Recycle, IInv
  <2>2. QED BY <2>1 DEF Unreferenced, PinsExact
<1>2. CacheInv /\ cache[b] # NotCached  BY DEF Recycle, IInv
<1>3. QED BY <1>1, <1>2 DEF CacheInv

LEMMA RecycleIInv == ASSUME Sizes, NEW b \in Block, IInv, Recycle(b) PROVE IInv'
<1>0. /\ lh \in Seq(Block) /\ tail \in Nat /\ boot = "up"
      /\ cache' = [cache EXCEPT ![b] = NotCached]
      /\ UNCHANGED <<disk, logdata, head, pins, lh, outstanding, committing, pc,
                     held, dirty, wrote, tail, boot, panicked, crashes>>
  BY DEF Recycle, IInv, TypeOK
<1>1. cache[b] = disk[b] /\ ~Pending(b) /\ \A q \in Proc : held[q] # b
  BY RecycledClean
<1>2. \A c \in Block : Bread(c)' = Bread(c)
  BY <1>0, <1>1 DEF Bread, IInv, TypeOK
<1>3. TypeOK' /\ BootQuiet' /\ HeldInv' /\ NobodyStranded' /\ CountInv'
  <2>1. TypeOK'  BY <1>0 DEF IInv, TypeOK
  <2>2. BootQuiet' /\ HeldInv' /\ NobodyStranded'
    BY <1>0 DEF IInv, BootQuiet, HeldInv, NobodyStranded
  <2>3. Active' = Active  BY <1>0 DEF Active
  <2>4. CountInv'  BY <1>0, <2>3 DEF IInv, CountInv
  <2>5. QED BY <2>1, <2>2, <2>4
<1>4. HeaderInv'  BY <1>0 DEF IInv, HeaderInv, Injective, At, Active
<1>5. PhaseInv'  BY <1>0, <1>2 DEF IInv, PhaseInv, At
<1>6. \A c \in Block : Pending(c)' = Pending(c)
  BY Zenon, <1>0 DEF Pending, At
<1>7. PinsExact'  BY <1>0, <1>6 DEF IInv, PinsExact
<1>8. CacheInv'  BY <1>0, <1>1, <1>6 DEF IInv, TypeOK, CacheInv
<1>9. QED BY <1>3, <1>4, <1>5, <1>7, <1>8 DEF IInv

-----------------------------------------------------------------------------
(* Every step of the boot and of a call is a step of AtomicDisk, or changes *)
(* nothing that AtomicDisk can see.                                         *)

\* The log's copies, and the blocks that the header does not name, are
\* those of v.
Agrees(h, l, d, v) ==
    /\ \A i \in 1 .. Len(h) : l[i] = v[h[i]]
    /\ \A b \in Block : (\A i \in 1 .. Len(h) : h[i] # b) => d[b] = v[b]

\* Recovery then yields v.
LEMMA RecoveredIs ==
    ASSUME NEW h, NEW l, NEW d, NEW v \in [Block -> Data], Agrees(h, l, d, v)
    PROVE  Recovered(h, l, d) = v
<1> USE DEF Agrees
<1>1. ASSUME NEW b \in Block, NEW i \in 1 .. Len(h), h[i] = b
      PROVE  l[CHOOSE j \in 1 .. Len(h) : h[j] = b] = v[b]
  <2> DEFINE k == CHOOSE j \in 1 .. Len(h) : h[j] = b
  <2>1. k \in 1 .. Len(h) /\ h[k] = b  BY <1>1
  <2>2. QED BY <2>1
<1>2. \A b \in Block : Recovered(h, l, d)[b] = v[b]
  BY <1>1 DEF Recovered
<1>3. QED BY <1>2 DEF Recovered

\* Recovery does not depend on the home blocks that the header names.
LEMMA RecoveredIgnores ==
    ASSUME NEW h, NEW l, NEW d, NEW e,
           \A b \in Block : (\A i \in 1 .. Len(h) : h[i] # b) => d[b] = e[b]
    PROVE  Recovered(h, l, d) = Recovered(h, l, e)
BY DEF Recovered

\* An empty header leaves the home blocks as they are.
LEMMA RecoveredEmpty ==
    ASSUME NEW l, NEW d \in [Block -> Data]
    PROVE  Recovered(<<>>, l, d) = d
BY DEF Recovered

LEMMA SameView ==
    ASSUME boot = "up", boot' = "up",
           \A b \in Block : Bread(b)' = Bread(b)
    PROVE  View' = View
BY DEF View

\* The steps of the boot are invisible: they only make the home blocks agree
\* with what recovery promised.
LEMMA BootStutters ==
    ASSUME IInv, Boot PROVE UNCHANGED <<Durable, View, Active>>
<1>0. disk \in [Block -> Data]  BY DEF IInv, TypeOK
<1>1. CASE ReadHead
  <2>1. boot # "up" /\ boot' # "up" /\ UNCHANGED <<disk, logdata, head, pc>>
    BY <1>1 DEF ReadHead
  <2>2. QED BY <2>1 DEF View, Durable, Active
<1>2. CASE RecoverBlock
  <2>1. /\ boot # "up" /\ boot' # "up" /\ UNCHANGED <<logdata, head, pc>>
        /\ tail + 1 \in 1 .. Len(head) /\ tail + 1 \in Slots
        /\ disk' = [disk EXCEPT ![head[tail + 1]] = logdata[tail + 1]]
        /\ Injective(head)
    BY <1>2 DEF RecoverBlock, IInv, TypeOK, PhaseInv, HeaderInv, Slots
  <2>2. \A b \in Block :
           (\A i \in 1 .. Len(head) : head[i] # b) => disk'[b] = disk[b]
    BY <1>0, <2>1
  <2>3. Recovered(head, logdata, disk') = Recovered(head, logdata, disk)
    BY ZenonT(40), <2>2, RecoveredIgnores
  <2>4. Durable' = Durable  BY <2>1, <2>3 DEF Durable
  <2>5. QED BY <2>1, <2>4 DEF View, Active
<1>3. CASE ClearHead
  <2>1. /\ boot # "up" /\ boot' = "up" /\ UNCHANGED <<disk, logdata, cache, pc>>
        /\ head' = <<>> /\ Injective(head)
        /\ \A i \in 1 .. Len(head) : disk[head[i]] = logdata[i]
    BY <1>3 DEF ClearHead, IInv, TypeOK, PhaseInv, HeaderInv
  <2>2. Durable = disk
    <3>1. Agrees(head, logdata, disk, disk)  BY <2>1 DEF Agrees
    <3>2. Recovered(head, logdata, disk) = disk  BY <1>0, <3>1, RecoveredIs
    <3>3. QED BY <3>2 DEF Durable
  <2>3. Durable' = disk  BY <1>0, <2>1, RecoveredEmpty DEF Durable
  <2>4. \A b \in Block : Bread(b)' = disk[b]
    BY <2>1 DEF Bread, IInv, CacheInv, BootQuiet, Pending
  <2>5. View = disk  BY <2>1, <2>2 DEF View
  <2>6. View' = disk
    <3>1. View' = [b \in Block |-> Bread(b)']  BY <2>1 DEF View
    <3>2. QED BY <1>0, <2>4, <3>1
  <2>7. QED BY <2>1, <2>2, <2>3, <2>5, <2>6 DEF Active
<1>4. QED BY <1>1, <1>2, <1>3 DEF Boot

\* begin_op(), the change of a buffer and end_op() are the steps of the
\* abstract disk; locking, logging and releasing a buffer are invisible.
LEMMA CallRefines ==
    ASSUME NEW p \in Proc, IInv,
           \/ BeginOp(p) \/ LogWrite(p) \/ Brelse(p) \/ EndOp(p)
           \/ \E b \in Block : LockBuffer(p, b)
           \/ \E d \in Data : Modify(p, d)
    PROVE  [Atomic!Next]_(Atomic!vars)
<1>0. /\ pc \in [Proc -> Label] /\ held \in [Proc -> Block \cup {NoBlock}]
      /\ cache \in [Block -> Data \cup {NotCached}]
  BY DEF IInv, TypeOK
<1> SUFFICES \/ UNCHANGED <<Durable, View, Active>>
             \/ Atomic!BeginOp(p) \/ Atomic!EndOp(p)
             \/ \E b \in Block, d \in Data : Atomic!Write(p, b, d)
  BY DEF Atomic!Next, Atomic!vars
<1>1. CASE BeginOp(p)
  <2>1. /\ pc[p] # "op"
        /\ UNCHANGED <<disk, logdata, head, cache, boot>>
        /\ \/ pc' = [pc EXCEPT ![p] = "sleep"]
           \/ pc' = [pc EXCEPT ![p] = "op"]
    BY <1>1 DEF BeginOp
  <2>2. Durable' = Durable /\ View' = View
    BY <2>1 DEF Durable, View, Bread
  <2>3. CASE pc' = [pc EXCEPT ![p] = "sleep"]
    <3>1. Active' = Active  BY <1>0, <2>1, <2>3 DEF Active
    <3>2. QED BY <2>2, <3>1
  <2>4. CASE pc' = [pc EXCEPT ![p] = "op"]
    <3>1. Active' = Active \cup {p} /\ p \notin Active
      BY <1>0, <2>1, <2>4 DEF Active
    <3>2. QED BY <2>2, <3>1 DEF Atomic!BeginOp
  <2>5. QED BY <2>1, <2>3, <2>4
<1>2. CASE LogWrite(p) \/ Brelse(p)
  <2>1. UNCHANGED <<disk, logdata, head, cache, boot, pc>>
    BY <1>2 DEF LogWrite, Brelse
  <2>2. QED BY <2>1 DEF Durable, View, Bread, Active
<1>3. CASE EndOp(p)
  <2>1. /\ pc[p] = "op" /\ committing = 0
        /\ UNCHANGED <<disk, logdata, head, cache, boot>>
    BY <1>3 DEF EndOp, IInv, TypeOK, CountInv, Active
  <2>2. Durable' = Durable /\ View' = View
    BY <2>1 DEF Durable, View, Bread
  <2>3. \A q \in Proc : pc'[q] = "op" <=> pc[q] = "op" /\ q # p
    BY <1>0, <1>3, <2>1 DEF EndOp, Wakeup
  <2>4. Active' = Active \ {p} /\ p \in Active
    BY <2>1, <2>3 DEF Active
  <2>5. QED BY <2>2, <2>4 DEF Atomic!EndOp
<1>4. ASSUME NEW b \in Block, LockBuffer(p, b)
      PROVE  UNCHANGED <<Durable, View, Active>>
  <2>1. /\ boot = "up" /\ UNCHANGED <<disk, logdata, head, boot, pc>>
        /\ \A c \in Block : Bread(c)' = Bread(c)
    BY <1>0, <1>4 DEF LockBuffer, Bread, IInv, TypeOK
  <2>2. QED BY <2>1, SameView DEF Durable, Active
<1>5. ASSUME NEW d \in Data, Modify(p, d)
      PROVE  Atomic!Write(p, held[p], d) /\ held[p] \in Block
  <2>1. /\ boot = "up" /\ boot' = "up" /\ held[p] \in Block /\ pc[p] = "op"
        /\ UNCHANGED <<disk, logdata, head, pc>>
        /\ cache' = [cache EXCEPT ![held[p]] = d]
    BY <1>0, <1>5 DEF Modify
  <2>2. \A c \in Block : Bread(c)' = IF c = held[p] THEN d ELSE Bread(c)
    BY <1>0, <2>1 DEF Bread
  <2>3. View' = [View EXCEPT ![held[p]] = d]
    <3>1. View = [c \in Block |-> Bread(c)]  BY <2>1 DEF View
    <3>2. View' = [c \in Block |-> Bread(c)']  BY <2>1 DEF View
    <3>3. QED BY Zenon, <2>1, <2>2, <3>1, <3>2
  <2>4. p \in Active /\ Active' = Active /\ Durable' = Durable
    BY <2>1 DEF Active, Durable
  <2>5. QED BY <2>1, <2>3, <2>4 DEF Atomic!Write
<1>6. QED BY <1>1, <1>2, <1>3, <1>4, <1>5

\* Recycling a buffer is invisible: only buffers equal to the disk are.
LEMMA RecycleStutters ==
    ASSUME NEW b \in Block, IInv, Recycle(b)
    PROVE  UNCHANGED <<Durable, View, Active>>
<1>1. /\ boot = "up" /\ UNCHANGED <<disk, logdata, head, boot, pc>>
      /\ cache' = [cache EXCEPT ![b] = NotCached]
      /\ cache[b] = disk[b]
  BY Zenon, RecycledClean DEF Recycle
<1>2. \A c \in Block : Bread(c)' = Bread(c)  BY <1>1 DEF Bread, IInv, TypeOK
<1>3. QED BY <1>1, <1>2, SameView DEF Durable, Active
=============================================================================
