----------------------------- MODULE LogProofs ------------------------------
(***************************************************************************)
(* The theorems about Log, for every number of processes, blocks and       *)
(* contents, and every log size.                                           *)
(***************************************************************************)
EXTENDS LogCommit, FiniteSetTheorems

USE SentinelAssumption, SizeAssumption DEF Running, diskVars

-----------------------------------------------------------------------------
(* The log never overflows. *)

\* The sizes of sets of blocks, and of sets of the blocks reserved.
RoomSizes ==
    /\ \A B \in SUBSET Block :
          /\ Cardinality(B) \in Nat
          /\ \A b \in Block \ B : Cardinality(B \cup {b}) = Cardinality(B) + 1
    /\ \A A \in SUBSET Proc : \A S \in SUBSET (A \X (1 .. MAXOPBLOCKS)) :
          /\ Cardinality(S) \in Nat
          /\ Cardinality(S) <= Cardinality(A) * MAXOPBLOCKS
          /\ \A T \in SUBSET S : Cardinality(T) <= Cardinality(S)
          /\ \A x \in S : Cardinality(S \ {x}) = Cardinality(S) - 1

LEMMA SpareSize ==
    ASSUME RoomSizes, NEW A \in SUBSET Proc,
           NEW S \in SUBSET (A \X (1 .. MAXOPBLOCKS))
    PROVE  /\ Cardinality(S) \in Nat
           /\ Cardinality(S) <= Cardinality(A) * MAXOPBLOCKS
           /\ \A T \in SUBSET S :
                 Cardinality(T) \in Nat /\ Cardinality(T) <= Cardinality(S)
           /\ \A x \in S : Cardinality(S \ {x}) = Cardinality(S) - 1
<1>1. \A T \in SUBSET S : T \in SUBSET (A \X (1 .. MAXOPBLOCKS))  OBVIOUS
<1>2. QED BY Zenon, <1>1 DEF RoomSizes

LEMMA SpareIs ==
    /\ Spare \in SUBSET (Active \X (1 .. MAXOPBLOCKS))
    /\ Spare' \in SUBSET (Active' \X (1 .. MAXOPBLOCKS))
    /\ Active \in SUBSET Proc /\ Active' \in SUBSET Proc
BY DEF Spare, Active

\* Steps that reserve nothing and log nothing.
LEMMA RoomKept ==
    ASSUME RoomSizes, IInv, RoomInv,
           Active' \subseteq Active, dirty' \subseteq dirty,
           wrote' = wrote, panicked' = 0, lh' = lh,
           \A q \in dirty' : held'[q] = held[q]
    PROVE  RoomInv'
<1>1. Len(lh) \in Nat  BY DEF IInv, TypeOK
<1>2. Spare' \in SUBSET Spare  BY DEF Spare
<1>3. /\ Cardinality(Spare') <= Cardinality(Spare)
      /\ Cardinality(Spare') \in Nat /\ Cardinality(Spare) \in Nat
  BY Zenon, <1>2, SpareIs, SpareSize
<1>4. Len(lh') + Cardinality(Spare') <= LOGSIZE  BY <1>1, <1>3 DEF RoomInv
<1>5. \A q \in Active' : /\ Cardinality(wrote'[q]) <= OpBlocks
                         /\ \A b \in wrote'[q] : Logged(b)'
  BY DEF RoomInv, Logged
<1>6. \A q \in dirty' :
          held'[q] \in wrote'[q] \/ Cardinality(wrote'[q]) < OpBlocks
  BY DEF RoomInv
<1>7. QED BY <1>4, <1>5, <1>6 DEF RoomInv

\* begin_op() admits a call when all calls in progress could still log
\* MAXOPBLOCKS blocks.
LEMMA BeginOpRoom ==
    ASSUME Sizes, RoomSizes, IInv, RoomInv, NEW p \in Proc, BeginOp(p)
    PROVE  RoomInv'
<1>1. /\ lh' = lh /\ dirty' = dirty /\ held' = held /\ panicked' = 0
      /\ Len(lh) \in Nat /\ pc[p] \in {"idle", "begin"}
      /\ pc \in [Proc -> Label] /\ wrote \in [Proc -> SUBSET Block]
  BY DEF BeginOp, IInv, TypeOK, RoomInv
<1>2. \A q \in dirty : q \in Active
  BY DEF IInv, TypeOK, HeldInv, Active
<1>3. p \notin Active  BY <1>1 DEF Active
<1>4. CASE MustWait
  <2>1. Active' = Active /\ wrote' = wrote
    BY <1>1, <1>4 DEF BeginOp, Active
  <2>2. QED BY <1>1, <2>1, RoomKept
<1>5. CASE ~MustWait
  <2>1. /\ Active' = Active \cup {p} /\ wrote' = [wrote EXCEPT ![p] = {}]
        /\ outstanding' = outstanding + 1
        /\ Len(lh) + (outstanding + 1) * MAXOPBLOCKS <= LOGSIZE
    BY <1>1, <1>5, OutstandingZero DEF BeginOp, Active, MustWait, IInv
  <2>2. wrote'[p] = {} /\ \A q \in Active : wrote'[q] = wrote[q]
    BY <1>1, <1>3, <2>1 DEF Active
  <2>3. Cardinality({}) = 0  BY DEF Sizes
  <2>4. Len(lh') + Cardinality(Spare') <= LOGSIZE
    <3>1. outstanding' = Cardinality(Active')
      BY BeginOpIInv DEF IInv, CountInv
    <3>2. /\ Cardinality(Spare') \in Nat
          /\ Cardinality(Spare') <= Cardinality(Active') * MAXOPBLOCKS
      BY Zenon, SpareIs, SpareSize
    <3>3. QED BY <1>1, <2>1, <3>1, <3>2, OutstandingZero DEF IInv
  <2>5. \A q \in Active' : /\ Cardinality(wrote'[q]) <= OpBlocks
                           /\ \A b \in wrote'[q] : Logged(b)'
    <3>1. \A b : Logged(b)' <=> Logged(b)  BY <1>1 DEF Logged
    <3>2. \A q \in Active : /\ Cardinality(wrote'[q]) <= OpBlocks
                            /\ \A b \in wrote'[q] : Logged(b)'
      BY <2>2, <3>1 DEF RoomInv
    <3>3. Cardinality(wrote'[p]) <= OpBlocks /\ \A b \in wrote'[p] : Logged(b)'
      BY <2>2, <2>3
    <3>4. QED BY <2>1, <3>2, <3>3
  <2>6. \A q \in dirty' :
            held'[q] \in wrote'[q] \/ Cardinality(wrote'[q]) < OpBlocks
    BY <1>1, <1>2, <2>2 DEF RoomInv
  <2>7. QED BY <1>1, <2>4, <2>5, <2>6 DEF RoomInv
<1>6. QED BY <1>4, <1>5

\* A call that has not used up its reservation finds room, and uses one block
\* of the reservation for a block it had not logged.
LEMMA LogWriteRoom ==
    ASSUME Roomy, Sizes, RoomSizes, IInv, RoomInv, NEW p \in Proc, LogWrite(p)
    PROVE  RoomInv'
<1> DEFINE w == Cardinality(wrote[p])
<1>1. /\ p \in dirty /\ p \in Active /\ held[p] \in Block
      /\ lh \in Seq(Block) /\ Len(lh) \in Nat /\ panicked = 0
      /\ pc' = pc /\ held' = held /\ wrote \in [Proc -> SUBSET Block]
  BY DEF LogWrite, IInv, TypeOK, HeldInv, Active, RoomInv
<1>2. /\ w \in Nat /\ w <= OpBlocks /\ (held[p] \in wrote[p] \/ w < OpBlocks)
      /\ held[p] \notin wrote[p] => Cardinality(wrote[p] \cup {held[p]}) = w + 1
  <2>1. wrote[p] \in SUBSET Block  BY <1>1
  <2>2. QED BY <1>1, <2>1 DEF RoomInv, RoomSizes
<1> HIDE DEF w
<1>3. Cardinality(Spare) \in Nat  BY Zenon, SpareIs, SpareSize
<1>4. ASSUME NEW k \in 1 .. MAXOPBLOCKS, k > w PROVE <<p, k>> \in Spare
  BY <1>1, <1>4 DEF Spare, w
<1>5. Cardinality(Spare) >= 2
  <2> DEFINE a == <<p, MAXOPBLOCKS>>  b == <<p, MAXOPBLOCKS - 1>>
  <2>1. a \in Spare /\ b \in Spare
    <3>1. /\ MAXOPBLOCKS \in 1 .. MAXOPBLOCKS /\ MAXOPBLOCKS > w
          /\ MAXOPBLOCKS - 1 \in 1 .. MAXOPBLOCKS /\ MAXOPBLOCKS - 1 > w
      BY <1>2 DEF Roomy
    <3>2. QED BY <1>4, <3>1
  <2>2. a # b  OBVIOUS
  <2> HIDE DEF a, b
  <2>3. Spare \ {a} \in SUBSET (Active \X (1 .. MAXOPBLOCKS)) /\ b \in Spare \ {a}
    BY <2>1, <2>2, SpareIs
  <2>4. /\ Cardinality(Spare \ {a}) = Cardinality(Spare) - 1
        /\ Cardinality((Spare \ {a}) \ {b}) = Cardinality(Spare \ {a}) - 1
        /\ Cardinality((Spare \ {a}) \ {b}) \in Nat
    <3>1. (Spare \ {a}) \ {b} \in SUBSET Spare  OBVIOUS
    <3>2. QED BY Zenon, <2>1, <2>3, <3>1, SpareIs, SpareSize
  <2>5. QED BY <1>3, <2>4
<1>6. ~NoRoom /\ ~(outstanding < 1)
  <2>1. ~NoRoom  BY <1>1, <1>3, <1>5 DEF NoRoom, Roomy, RoomInv
  <2>2. outstanding \in Nat /\ outstanding # 0
    BY <1>1, OutstandingZero DEF IInv
  <2>3. QED BY <2>1, <2>2
<1>7. /\ dirty' = dirty \ {p} /\ panicked' = 0
      /\ wrote' = [wrote EXCEPT ![p] = @ \cup {held[p]}]
      /\ \/ Logged(held[p]) /\ lh' = lh
         \/ ~Logged(held[p]) /\ lh' = Append(lh, held[p])
  BY <1>1, <1>6 DEF LogWrite
<1>8. Active' = Active  BY <1>1 DEF Active
<1>9. /\ wrote'[p] = wrote[p] \cup {held[p]}
      /\ \A q \in Proc : q # p => wrote'[q] = wrote[q]
  BY <1>1, <1>7
<1>10. CASE held[p] \in wrote[p]
  <2>1. wrote' = wrote  BY <1>1, <1>7, <1>10
  <2>2. Logged(held[p])  BY <1>1, <1>10 DEF RoomInv
  <2>3. lh' = lh  BY <1>7, <2>2
  <2>4. QED BY <1>1, <1>7, <1>8, <2>1, <2>3, RoomKept
<1>11. CASE held[p] \notin wrote[p]
  <2>1. Cardinality(wrote'[p]) = w + 1 /\ w < OpBlocks
    BY <1>2, <1>9, <1>11
  <2>2. <<p, w + 1>> \in Spare
    <3>1. w + 1 \in 1 .. MAXOPBLOCKS /\ w + 1 > w  BY <1>2, <2>1
    <3>2. QED BY <1>4, <3>1
  <2>3. Spare' \in SUBSET (Spare \ {<<p, w + 1>>})
    <3>1. ASSUME NEW r \in Spare' PROVE r \in Spare /\ r # <<p, w + 1>>
      <4>1. /\ r \in Active \X (1 .. MAXOPBLOCKS) /\ r[1] \in Proc
            /\ r[2] \in Nat /\ r[2] > Cardinality(wrote'[r[1]])
        BY <1>8 DEF Spare, Active
      <4>2. CASE r[1] = p
        <5>1. r[2] > w + 1  BY <2>1, <4>1, <4>2
        <5>2. r # <<p, w + 1>>  BY <1>2, <5>1
        <5>3. r[2] > Cardinality(wrote[r[1]])  BY <1>2, <4>1, <4>2, <5>1 DEF w
        <5>4. QED BY <4>1, <5>2, <5>3 DEF Spare
      <4>3. CASE r[1] # p
        <5>1. r[2] > Cardinality(wrote[r[1]])  BY <1>9, <4>1, <4>3
        <5>2. QED BY <4>1, <4>3, <5>1 DEF Spare
      <4>4. QED BY <4>2, <4>3
    <3>2. QED BY <3>1
  <2>4. /\ Cardinality(Spare') \in Nat
        /\ Cardinality(Spare') <= Cardinality(Spare) - 1
    <3>1. Spare \ {<<p, w + 1>>} \in SUBSET (Active \X (1 .. MAXOPBLOCKS))
      BY SpareIs
    <3>2. Cardinality(Spare \ {<<p, w + 1>>}) = Cardinality(Spare) - 1
      BY Zenon, <2>2, SpareIs, SpareSize
    <3>3. /\ Cardinality(Spare') \in Nat
          /\ Cardinality(Spare') <= Cardinality(Spare \ {<<p, w + 1>>})
      BY Zenon, <2>3, <3>1, SpareIs, SpareSize
    <3>4. QED BY <3>2, <3>3
  <2>5. /\ Len(lh') <= Len(lh) + 1 /\ Len(lh') \in Nat
        /\ Logged(held[p])' /\ \A b : Logged(b) => Logged(b)'
    <3>1. CASE Logged(held[p]) /\ lh' = lh
      BY <1>1, <3>1 DEF Logged
    <3>2. CASE lh' = Append(lh, held[p])
      <4>1. /\ Len(lh') = Len(lh) + 1 /\ lh'[Len(lh) + 1] = held[p]
            /\ \A i \in 1 .. Len(lh) : lh'[i] = lh[i]
        BY <1>1, <3>2
      <4>2. Len(lh) + 1 \in 1 .. Len(lh')  BY <1>1, <4>1
      <4>3. Logged(held[p])'  BY <1>1, <4>1, <4>2 DEF Logged
      <4>4. \A i \in 1 .. Len(lh) : i \in 1 .. Len(lh')  BY <1>1, <4>1
      <4>5. \A b : Logged(b) => Logged(b)'  BY Zenon, <4>1, <4>4 DEF Logged
      <4>6. QED BY <1>1, <4>1, <4>3, <4>5
    <3>3. QED BY <1>7, <3>1, <3>2
  <2>6. Len(lh') + Cardinality(Spare') <= LOGSIZE
    BY <1>1, <1>3, <2>4, <2>5 DEF RoomInv
  <2>7. \A q \in Active' : /\ Cardinality(wrote'[q]) <= OpBlocks
                           /\ \A b \in wrote'[q] : Logged(b)'
    <3>1. Cardinality(wrote'[p]) <= OpBlocks  BY <1>2, <2>1
    <3>2. \A b \in wrote'[p] : Logged(b)'
      <4>1. \A b \in wrote[p] : Logged(b)  BY <1>1 DEF RoomInv
      <4>2. \A b : b = held[p] => Logged(b)'  BY <1>1, <2>5 DEF Logged
      <4>3. QED BY <1>9, <2>5, <4>1, <4>2
    <3>3. ASSUME NEW q \in Active, q # p
          PROVE  Cardinality(wrote'[q]) <= OpBlocks /\ \A b \in wrote'[q] : Logged(b)'
      <4>1. wrote'[q] = wrote[q]  BY <1>9, <3>3 DEF Active
      <4>2. QED BY <2>5, <4>1 DEF RoomInv
    <3>4. QED BY <1>8, <3>1, <3>2, <3>3
  <2>8. \A q \in dirty' :
            held'[q] \in wrote'[q] \/ Cardinality(wrote'[q]) < OpBlocks
    <3>1. \A q \in dirty' : q \in dirty /\ q \in Proc /\ q # p
      BY <1>7 DEF IInv, TypeOK
    <3>2. QED BY <1>1, <1>9, <3>1 DEF RoomInv
  <2>9. QED BY Zenon, <1>7, <2>6, <2>7, <2>8 DEF RoomInv
<1>12. QED BY <1>10, <1>11

\* The other steps of a call.
LEMMA CallRoom ==
    ASSUME RoomSizes, IInv, RoomInv, NEW p \in Proc,
           \/ Brelse(p) \/ EndOp(p)
           \/ \E b \in Block : LockBuffer(p, b)
           \/ \E d \in Data : Modify(p, d)
    PROVE  RoomInv'
<1>1. /\ panicked = 0 /\ dirty \in SUBSET Proc
      /\ pc \in [Proc -> Label] /\ held \in [Proc -> Block \cup {NoBlock}]
  BY DEF IInv, TypeOK, RoomInv
<1>2. CASE Brelse(p)
  <2>1. /\ Active' = Active /\ dirty' = dirty /\ wrote' = wrote
        /\ panicked' = 0 /\ lh' = lh /\ \A q \in dirty : held'[q] = held[q]
    BY <1>1, <1>2 DEF Brelse, Active
  <2>2. QED BY <2>1, RoomKept
<1>3. ASSUME NEW b \in Block, LockBuffer(p, b) PROVE RoomInv'
  <2>1. p \notin dirty  BY <1>3 DEF LockBuffer, IInv, HeldInv
  <2>2. /\ Active' = Active /\ dirty' = dirty /\ wrote' = wrote
        /\ panicked' = 0 /\ lh' = lh /\ \A q \in dirty : held'[q] = held[q]
    BY <1>1, <1>3, <2>1 DEF LockBuffer, Active
  <2>3. QED BY <2>2, RoomKept
<1>4. ASSUME NEW d \in Data, Modify(p, d) PROVE RoomInv'
  <2>1. /\ Active' = Active /\ dirty' = dirty \cup {p} /\ wrote' = wrote
        /\ panicked' = 0 /\ lh' = lh /\ held' = held
        /\ held[p] \in wrote[p] \/ Cardinality(wrote[p]) < OpBlocks
    BY <1>1, <1>4 DEF Modify, Active
  <2>2. Spare' = Spare  BY <2>1 DEF Spare
  <2>3. QED BY <2>1, <2>2 DEF RoomInv, Logged
<1>5. CASE EndOp(p)
  <2>1. p \in Active  BY <1>5 DEF EndOp, Active
  <2>2. committing = 0  BY <2>1 DEF IInv, TypeOK, CountInv
  <2>3. /\ \/ \E l \in Committer : pc' = [pc EXCEPT ![p] = l]
           \/ pc' = Wakeup([pc EXCEPT ![p] = "idle"])
        /\ dirty' = dirty /\ wrote' = wrote /\ panicked' = 0 /\ lh' = lh
        /\ held' = held
    BY <1>1, <1>5, <2>2 DEF EndOp, Committer
  <2>4. Active' \subseteq Active
    BY <1>1, <2>3 DEF Active, Wakeup, Committer
  <2>5. QED BY <2>3, <2>4, RoomKept
<1>6. QED BY <1>2, <1>3, <1>4, <1>5

LEMMA NextRoom ==
    ASSUME Roomy, Sizes, RoomSizes, IInv, RoomInv, [Next]_vars PROVE RoomInv'
<1>1. /\ Len(lh) \in Nat /\ Len(head) \in Nat /\ panicked = 0
      /\ Len(lh) <= LOGSIZE /\ Len(head) <= LOGSIZE
      /\ pc \in [Proc -> Label] /\ Len(<<>>) = 0
  BY DEF IInv, TypeOK, HeaderInv, RoomInv
<1>2. ASSUME Active' = {}, dirty' = {}, panicked' = 0,
             lh' = lh \/ lh' = head \/ lh' = <<>>
      PROVE  RoomInv'
  <2>1. Spare' = {}  BY <1>2 DEF Spare
  <2>2. Cardinality(Spare') = 0  BY <2>1 DEF Sizes
  <2>3. QED BY <1>1, <1>2, <2>2 DEF RoomInv
<1>3. CASE Boot
  <2>1. Active = {} /\ dirty = {}
    BY <1>3 DEF Boot, ReadHead, RecoverBlock, ClearHead, IInv, TypeOK, BootQuiet,
                Active
  <2>2. /\ Active' = {} /\ dirty' = {} /\ panicked' = 0
        /\ lh' = lh \/ lh' = head \/ lh' = <<>>
    BY <1>1, <1>3, <2>1 DEF Boot, ReadHead, RecoverBlock, ClearHead, Active
  <2>3. QED BY <1>2, <2>2
<1>4. ASSUME NEW p \in Proc, Commit(p) PROVE RoomInv'
  <2>1. pc[p] \in Committer
    BY <1>4 DEF Commit, WriteLog, WriteHead, InstallTrans, EraseHead, Finish,
                Committer
  <2>2. Active = {} /\ dirty = {}  BY <2>1, CommitterAlone
  <2>3. /\ dirty' = {} /\ panicked' = 0 /\ (lh' = lh \/ lh' = <<>>)
        /\ \/ \E l \in Committer : pc' = [pc EXCEPT ![p] = l]
           \/ pc' = Wakeup([pc EXCEPT ![p] = "idle"])
    BY <1>1, <1>4, <2>1, <2>2
    DEF Commit, WriteLog, WriteHead, InstallTrans, EraseHead, Finish, Committer
  <2>4. Active' = {}  BY <1>1, <2>2, <2>3 DEF Active, Wakeup, Committer
  <2>5. QED BY <1>2, <2>3, <2>4
<1>5. ASSUME NEW b \in Block, Recycle(b) PROVE RoomInv'
  <2>1. /\ Active' = Active /\ dirty' = dirty /\ wrote' = wrote
        /\ panicked' = 0 /\ lh' = lh /\ held' = held
    BY <1>1, <1>5 DEF Recycle, Active
  <2>2. QED BY <2>1, RoomKept
<1>6. CASE Crash
  <2>1. Active' = {} /\ dirty' = {} /\ panicked' = 0 /\ lh' = <<>>
    BY <1>6 DEF Crash, Active
  <2>2. QED BY <1>2, <2>1
<1>7. CASE UNCHANGED vars
  <2>1. /\ Active' = Active /\ dirty' = dirty /\ wrote' = wrote
        /\ panicked' = 0 /\ lh' = lh /\ held' = held
    BY <1>1, <1>7 DEF vars, memVars, Active
  <2>2. QED BY <2>1, RoomKept
<1>8. QED
  BY <1>3, <1>4, <1>5, <1>6, <1>7, BeginOpRoom, LogWriteRoom, CallRoom DEF Next

LEMMA InitRoom == ASSUME Sizes, Init PROVE RoomInv
<1>1. Active = {} /\ dirty = {} /\ panicked = 0 /\ lh = <<>>
  BY DEF Init, Active
<1>2. Spare = {}  BY <1>1 DEF Spare
<1>3. Cardinality(Spare) = 0 /\ Len(lh) = 0  BY <1>1, <1>2 DEF Sizes
<1>4. QED BY <1>1, <1>3 DEF RoomInv

-----------------------------------------------------------------------------
(* The theorems.  The lemmas above take the facts about sizes that they use *)
(* as hypotheses; the library's theorems about finite sets, which would     *)
(* only be in the provers' way there, give them here.                       *)

LEMMA SubsetSize ==
    ASSUME NEW S, IsFiniteSet(S), NEW T \in SUBSET S
    PROVE  /\ IsFiniteSet(T) /\ Cardinality(T) \in Nat
           /\ Cardinality(T) <= Cardinality(S)
           /\ Cardinality(T) = 0 <=> T = {}
<1>1. IsFiniteSet(T) /\ Cardinality(T) <= Cardinality(S)  BY FS_Subset
<1>2. QED BY <1>1, FS_CardinalityType, FS_EmptySet

LEMMA AddSize ==
    ASSUME NEW S, IsFiniteSet(S), NEW x, x \notin S
    PROVE  Cardinality(S \cup {x}) = Cardinality(S) + 1
BY Zenon, FS_AddElement

LEMMA RemoveSize ==
    ASSUME NEW S, IsFiniteSet(S), NEW x \in S
    PROVE  Cardinality(S \ {x}) = Cardinality(S) - 1
BY Zenon, FS_RemoveElement

LEMMA FiniteSubset ==
    ASSUME NEW S, S \in SUBSET Proc \/ S \in SUBSET Block
    PROVE  /\ IsFiniteSet(S) /\ Cardinality(S) \in Nat
           /\ Cardinality(S) = 0 <=> S = {}
<1>1. IsFiniteSet(Proc) /\ IsFiniteSet(Block)  BY FiniteAssumption
<1> HIDE SentinelAssumption, SizeAssumption
<1>2. QED BY Zenon, <1>1, SubsetSize

LEMMA SizesHold == Sizes
<1>1. Cardinality({}) = 0  BY FS_EmptySet
<1>2. ASSUME NEW S \in SUBSET Proc, NEW p \in Proc \ S
      PROVE  Cardinality(S \cup {p}) = Cardinality(S) + 1
  BY FiniteSubset, AddSize
<1>3. ASSUME NEW S \in SUBSET Proc, NEW p \in S
      PROVE  Cardinality(S \ {p}) = Cardinality(S) - 1
  BY FiniteSubset, RemoveSize
<1> HIDE SentinelAssumption, SizeAssumption
<1>4. QED BY Zenon, <1>1, <1>2, <1>3, FiniteSubset DEF Sizes

LEMMA RoomSizesHold == RoomSizes
<1>1. ASSUME NEW B \in SUBSET Block
      PROVE  /\ Cardinality(B) \in Nat
             /\ \A b \in Block \ B : Cardinality(B \cup {b}) = Cardinality(B) + 1
  <2>1. IsFiniteSet(B) /\ Cardinality(B) \in Nat
    BY FiniteSubset
  <2>2. QED BY <2>1, AddSize
<1>2. ASSUME NEW A \in SUBSET Proc, NEW S \in SUBSET (A \X (1 .. MAXOPBLOCKS))
      PROVE  /\ Cardinality(S) \in Nat
             /\ Cardinality(S) <= Cardinality(A) * MAXOPBLOCKS
             /\ \A T \in SUBSET S : Cardinality(T) <= Cardinality(S)
             /\ \A x \in S : Cardinality(S \ {x}) = Cardinality(S) - 1
  <2>1. /\ IsFiniteSet(1 .. MAXOPBLOCKS)
        /\ Cardinality(1 .. MAXOPBLOCKS) = MAXOPBLOCKS
    <3>1. IsFiniteSet(1 .. MAXOPBLOCKS)  BY FS_Interval
    <3>2. Cardinality(1 .. MAXOPBLOCKS) = MAXOPBLOCKS - 1 + 1  BY FS_Interval
    <3>3. QED BY <3>1, <3>2
  <2>2. IsFiniteSet(A)  BY FiniteSubset
  <2>3. /\ IsFiniteSet(A \X (1 .. MAXOPBLOCKS))
        /\ Cardinality(A \X (1 .. MAXOPBLOCKS))
             = Cardinality(A) * Cardinality(1 .. MAXOPBLOCKS)
    BY Zenon, <2>1, <2>2, FS_Product
  <2>4. /\ IsFiniteSet(S) /\ Cardinality(S) \in Nat
        /\ Cardinality(S) <= Cardinality(A \X (1 .. MAXOPBLOCKS))
    BY Zenon, <2>3, SubsetSize
  <2>5. \A T \in SUBSET S : Cardinality(T) <= Cardinality(S)
    BY Zenon, <2>4, SubsetSize
  <2>6. \A x \in S : Cardinality(S \ {x}) = Cardinality(S) - 1
    BY <2>4, RemoveSize
  <2>7. Cardinality(S) <= Cardinality(A) * MAXOPBLOCKS
    BY Zenon, <2>1, <2>3, <2>4
  <2>8. QED BY <2>4, <2>5, <2>6, <2>7
<1> HIDE SentinelAssumption, SizeAssumption
<1>3. QED BY Zenon, <1>1, <1>2 DEF RoomSizes

\* IInv holds in every reachable state.
THEOREM InductiveInvariant == Spec => []IInv
<1>1. Init => IInv  BY SizesHold, InitIInv
<1>2. IInv /\ [Next]_vars => IInv'  BY SizesHold, NextIInv
<1>3. QED BY <1>1, <1>2, PTL DEF Spec

\* The variables of the log and of the disk keep their types.
THEOREM TypeCorrect == Spec => []TypeOK
<1>1. IInv => TypeOK  BY DEF IInv
<1>2. QED BY <1>1, InductiveInvariant, PTL

\* commit() runs while no call is in progress and no other process commits.
THEOREM CommitIsAlone == Spec => []CommitAlone
<1>1. IInv => CommitAlone
  BY SizesHold, CommitterAlone DEF CommitAlone, IInv, CountInv, Active, Committer
<1>2. QED BY <1>1, InductiveInvariant, PTL

\* A block is pinned, once, exactly while its logged change is not yet home.
THEOREM PinsAreExact == Spec => []PinsExact
<1>1. IInv => PinsExact  BY DEF IInv
<1>2. QED BY <1>1, InductiveInvariant, PTL

\* Nobody sleeps in begin_op() without a call or a commit left to wake it.
THEOREM SleepersHaveAWaker == Spec => []NobodyStranded
<1>1. IInv => NobodyStranded  BY DEF IInv
<1>2. QED BY <1>1, InductiveInvariant, PTL

\* For any processes, blocks, contents and log sizes, the log implements the
\* abstract disk on which groups of calls become durable atomically.
THEOREM Refinement == Spec => ImplementsAtomicDisk
<1>1. Init => Atomic!Init  BY InitRefines
<1>2. IInv /\ [Next]_vars => [Atomic!Next]_(Atomic!vars)  BY SizesHold, NextRefines
<1>3. QED
  BY <1>1, <1>2, InductiveInvariant, PTL
  DEF Spec, ImplementsAtomicDisk, Atomic!Spec

\* When the end_op() that commits returns, its group is durable.
THEOREM ReturnIsDurable == Spec => []DurableOnReturn
<1>1. IInv => DurableOnReturn
  <2> SUFFICES ASSUME IInv, NEW p \in Proc, Running, pc[p] = "finish"
               PROVE  Durable = View
    BY DEF DurableOnReturn
  <2>1. ~At("install") /\ ~At("erase") /\ At("finish") /\ dirty = {}
    <3>1. "finish" \in Committer /\ "install" \in Committer
          /\ "erase" \in Committer
      BY DEF Committer
    <3>2. dirty = {} /\ \A l \in Committer : At(l) <=> pc[p] = l
      BY Zenon, <3>1, SizesHold, CommitterAlone
    <3>3. QED BY <3>1, <3>2
  <2>2. head = <<>> /\ lh = <<>> /\ disk \in [Block -> Data]
    BY <2>1 DEF IInv, TypeOK, HeaderInv
  <2>3. Durable = disk  BY <2>2, RecoveredEmpty DEF Durable
  <2>4. \A b \in Block : Bread(b) = disk[b]
    BY <2>1, <2>2 DEF IInv, CacheInv, Pending, Bread
  <2>5. View = [b \in Block |-> Bread(b)]  BY DEF View
  <2>6. QED BY <2>2, <2>3, <2>4, <2>5
<1>2. QED BY <1>1, InductiveInvariant, PTL

\* A log_write() finds room for its block, whatever calls run together and
\* wherever the power was lost before, as long as a call changes two blocks
\* less than begin_op() reserved for it and mkfs gave the log LOGSIZE blocks.
THEOREM LogNeverOverflows == ASSUME Roomy PROVE Spec => []NoPanic
<1>1. Init => RoomInv  BY SizesHold, InitRoom
<1>2. IInv /\ RoomInv /\ [Next]_vars => RoomInv'
  BY SizesHold, RoomSizesHold, NextRoom
<1>3. RoomInv => NoPanic  BY DEF RoomInv, NoPanic
<1>4. QED BY <1>1, <1>2, <1>3, InductiveInvariant, PTL DEF Spec
=============================================================================
