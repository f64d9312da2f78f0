----------------------------- MODULE LogCommit ------------------------------
(***************************************************************************)
(* Log keeps its inductive invariant IInv when a call ends, in the steps   *)
(* of commit() and when the power fails, and so in every step; and every   *)
(* step of Log is a step of AtomicDisk or a stutter.                       *)
(***************************************************************************)
EXTENDS LogCalls

USE SentinelAssumption, SizeAssumption DEF Running, diskVars

-----------------------------------------------------------------------------
(* The end of a call. *)

LEMMA EndOpIInv == ASSUME Sizes, NEW p \in Proc, IInv, EndOp(p) PROVE IInv'
<1> USE DEF IInv, TypeOK
<1>0. /\ pc[p] = "op" /\ boot = "up" /\ p \in Active /\ p \notin dirty
      /\ committing = 0 /\ ~ \E q \in Proc : pc[q] \in Committer
      /\ outstanding > 0 /\ held[p] = NoBlock
  BY OutstandingZero DEF EndOp, HeldInv, CountInv, Active
<1>1. /\ outstanding' = outstanding - 1 /\ tail' = 0
      /\ UNCHANGED <<diskVars, cache, pins, lh, held, dirty, wrote, boot,
                     panicked, crashes>>
  BY <1>0 DEF EndOp
<1>2. Cardinality(Active \ {p}) = outstanding'
  <2>1. Active \in SUBSET Proc /\ outstanding = Cardinality(Active)
    BY DEF CountInv, Active
  <2>2. QED BY Zenon, <1>0, <1>1, <2>1 DEF Sizes
<1>3. \A l \in Committer : ~At(l)  BY <1>0 DEF At
<1>4. CASE outstanding = 1
  <2>1. committing' = 1
        /\ pc' = [pc EXCEPT ![p] = IF HasBlocks THEN "write_log" ELSE "finish"]
    BY <1>0, <1>4 DEF EndOp
  <2>2. Active' = Active \ {p}  BY <1>0, <2>1 DEF Active
  <2>3. Active' = {}
    <3>1. (Active \ {p}) \in SUBSET Proc  BY DEF Active
    <3>2. Cardinality(Active \ {p}) = 0  BY <1>1, <1>2, <1>4
    <3>3. QED BY Zenon, <2>2, <3>1, <3>2 DEF Sizes
  <2>4. TypeOK' /\ BootQuiet' /\ HeldInv'
    BY <1>0, <1>1, <1>4, <2>1 DEF BootQuiet, HeldInv, Committer, Label
  <2>13. NobodyStranded'  BY <1>0, <2>1 DEF NobodyStranded
  <2>5. CountInv'
    <3>1. \A q \in Proc : pc'[q] \in Committer <=> q = p
      BY <1>0, <2>1 DEF Committer
    <3>2. QED BY <1>2, <2>1, <2>2, <2>3, <3>1 DEF CountInv
  <2>6. /\ At("write_log")' => HasBlocks
        /\ At("finish")' => ~HasBlocks
        /\ ~At("write_head")' /\ ~At("install")' /\ ~At("erase")'
    BY <1>0, <2>1 DEF At, Committer
  <2>7. ~At("install") /\ ~At("erase")  BY <1>3 DEF Committer
  <2>8. HeaderInv'
    BY <1>0, <1>1, <2>1, <2>6, <2>7 DEF HeaderInv, Injective, HasBlocks
  <2>9. PhaseInv'
    BY <1>0, <1>1, <2>6 DEF PhaseInv, HasBlocks
  <2>10. \A b \in Block : Pending(b)' = Pending(b)
    BY <1>1, <2>6, <2>7 DEF Pending
  <2>11. PinsExact' /\ CacheInv'
    BY <1>1, <2>10 DEF PinsExact, CacheInv
  <2>12. QED BY <2>4, <2>5, <2>8, <2>9, <2>11, <2>13
<1>5. CASE outstanding # 1
  <2>1. committing' = 0 /\ pc' = Wakeup([pc EXCEPT ![p] = "idle"])
    BY <1>0, <1>5 DEF EndOp
  <2>2. \A q \in Proc :
           pc'[q] = IF q = p THEN "idle"
                    ELSE IF pc[q] = "sleep" THEN "begin" ELSE pc[q]
    BY <2>1 DEF Wakeup
  <2>3. Active' = Active \ {p}  BY <1>0, <2>2 DEF Active
  <2>4. TypeOK' /\ BootQuiet' /\ HeldInv'
    BY <1>0, <1>1, <2>1, <2>2 DEF BootQuiet, HeldInv, Wakeup, Label
  <2>5. NobodyStranded'  BY Zenon, <2>2 DEF NobodyStranded
  <2>6. CountInv'
    <3>1. \A q \in Proc : pc'[q] \notin Committer
      BY Zenon, <1>0, <2>2 DEF Committer
    <3>2. committing' = 0 /\ outstanding' = Cardinality(Active')
      BY <1>2, <2>1, <2>3
    <3>3. QED BY <3>1, <3>2 DEF CountInv
  <2>7. \A l \in Committer : ~At(l)'
    BY ZenonT(40), <1>0, <2>2 DEF At, Committer
  <2>8. /\ ~At("install") /\ ~At("erase") /\ ~At("install")' /\ ~At("erase")'
        /\ ~At("finish")'
    BY <1>3, <2>7 DEF Committer
  <2>9. Active' # {}
    <3>1. (Active \ {p}) \in SUBSET Proc  BY DEF Active
    <3>2. Cardinality(Active \ {p}) # 0  BY <1>0, <1>1, <1>2, <1>5
    <3>3. QED BY Zenon, <2>3, <3>1, <3>2 DEF Sizes
  <2>10. HeaderInv'
    BY <1>0, <1>1, <2>8, <2>9 DEF HeaderInv, Injective
  <2>11. PhaseInv'  BY <1>0, <1>1, <2>7, PhaseIdle
  <2>12. \A b \in Block : Pending(b)' = Pending(b)
    BY <1>1, <2>8 DEF Pending
  <2>13. PinsExact' /\ CacheInv'
    BY <1>1, <2>12 DEF PinsExact, CacheInv
  <2>14. QED BY <2>4, <2>5, <2>6, <2>10, <2>11, <2>13
<1>6. QED BY <1>4, <1>5

-----------------------------------------------------------------------------
(* Commit. *)

\* What is to be shown of the log for each phase of a commit.
LEMMA PhaseWriteLog ==
    ASSUME boot' = "up", ~At("write_head")', ~At("install")', ~At("erase")',
           tail' < Len(lh'),
           \A i \in 1 .. tail' : logdata'[i] = Bread(lh[i])'
    PROVE  PhaseInv'
BY DEF PhaseInv

LEMMA PhaseWriteHead ==
    ASSUME boot' = "up", ~At("write_log")', ~At("install")', ~At("erase")',
           tail' = 0, Len(lh') > 0,
           \A i \in 1 .. Len(lh') : logdata'[i] = Bread(lh[i])'
    PROVE  PhaseInv'
BY DEF PhaseInv

LEMMA PhaseInstall ==
    ASSUME boot' = "up", ~At("write_log")', ~At("write_head")', ~At("erase")',
           tail' < Len(lh'), head' = lh',
           \A i \in 1 .. Len(lh') : logdata'[i] = Bread(lh[i])',
           \A i \in 1 .. tail' : disk'[lh'[i]] = logdata'[i]
    PROVE  PhaseInv'
BY DEF PhaseInv

LEMMA PhaseErase ==
    ASSUME boot' = "up", ~At("write_log")', ~At("write_head")', ~At("install")',
           head' = lh', \A i \in 1 .. Len(lh') : disk'[lh'[i]] = logdata'[i]
    PROVE  PhaseInv'
BY DEF PhaseInv

LEMMA WriteLogIInv ==
    ASSUME Sizes, NEW p \in Proc, IInv, WriteLog(p) PROVE IInv'
<1> USE DEF IInv, TypeOK
<1> DEFINE b == lh[tail + 1]
           last == tail + 1 = Len(lh)
<1>0. /\ pc[p] = "write_log" /\ boot = "up"
      /\ tail + 1 \in Slots /\ tail + 1 \in 1 .. Len(lh) /\ b \in Block
      /\ \A i \in 1 .. tail : logdata[i] = Bread(lh[i])
  BY DEF WriteLog, PhaseInv, HeaderInv, At, Slots
<1>1. /\ cache' = [cache EXCEPT ![b] = Bread(b)]
      /\ logdata' = [logdata EXCEPT ![tail + 1] = Bread(b)]
      /\ tail' = IF last THEN 0 ELSE tail + 1
      /\ pc' = [pc EXCEPT ![p] = IF last THEN "write_head" ELSE @]
      /\ UNCHANGED <<disk, head, pins, lh, outstanding, committing, held,
                     dirty, wrote, boot, panicked, crashes>>
  BY DEF WriteLog
<1> HIDE DEF b, last
<1>2. /\ committing = 1 /\ \A q \in Proc : pc[q] \in Committer <=> q = p
  BY Zenon, <1>0, CommitterAlone DEF Committer
<1>3. \A q \in Proc : pc'[q] \in Committer <=> q = p
  BY <1>0, <1>1, <1>2 DEF Committer
<1>4. /\ ~At("install") /\ ~At("erase") /\ ~At("install")' /\ ~At("erase")'
      /\ ~At("finish")'
      /\ At("write_log")' <=> ~last
      /\ At("write_head")' <=> last
  BY <1>0, <1>1, <1>2, <1>3 DEF At, Committer
<1>5. \A c \in Block : Bread(c)' = Bread(c)  BY <1>0, <1>1 DEF Bread
<1>6. Bread(b) \in Data  BY <1>0 DEF Bread
<1>7. TypeOK'  BY <1>0, <1>1, <1>6 DEF Committer, Label
<1>8. BootQuiet' /\ HeldInv' /\ NobodyStranded'
  BY <1>0, <1>1 DEF BootQuiet, HeldInv, NobodyStranded
<1>9. CountInv'
  <2>1. Active' = Active  BY <1>0, <1>1 DEF Active
  <2>2. QED BY <1>1, <1>2, <1>3, <2>1 DEF CountInv
<1>10. HeaderInv'
  BY <1>0, <1>1, <1>2, <1>4 DEF HeaderInv, Injective
<1>11. PhaseInv'
  <2>1. \A i \in 1 .. tail + 1 : logdata'[i] = Bread(lh[i])'
    <3> SUFFICES ASSUME NEW i \in 1 .. tail + 1
                 PROVE  logdata'[i] = Bread(lh[i])
      BY <1>0, <1>1, <1>5
    <3>1. CASE i = tail + 1  BY <1>0, <1>1, <3>1 DEF b
    <3>2. CASE i # tail + 1  BY <1>0, <1>1, <3>2
    <3>3. QED BY <3>1, <3>2
  <2>2. CASE last
    <3>1. tail' = 0 /\ lh' = lh /\ tail + 1 = Len(lh) /\ Len(lh) > 0
      BY <1>1, <2>2 DEF last
    <3>2. QED BY <1>0, <1>1, <1>4, <2>1, <2>2, <3>1, PhaseWriteHead
  <2>3. CASE ~last
    <3>1. tail' = tail + 1 /\ tail + 1 < Len(lh) /\ lh' = lh
      BY <1>0, <1>1, <2>3 DEF last
    <3>2. QED BY <1>0, <1>1, <1>4, <2>1, <2>3, <3>1, PhaseWriteLog
  <2>4. QED BY <2>2, <2>3
<1>12. \A c \in Block : Pending(c)' = Pending(c)
  BY <1>1, <1>4 DEF Pending
<1>13. PinsExact'  BY <1>1, <1>12 DEF PinsExact
<1>14. CacheInv'  BY <1>0, <1>1, <1>6, <1>12 DEF CacheInv, Bread
<1>15. QED BY <1>7, <1>8, <1>9, <1>10, <1>11, <1>13, <1>14

LEMMA WriteHeadIInv ==
    ASSUME Sizes, NEW p \in Proc, IInv, WriteHead(p) PROVE IInv'
<1> USE DEF IInv, TypeOK, WriteHead
<1>1. \A l \in Committer :
         (At(l) <=> l = "write_head") /\ (At(l)' <=> l = "install")
  <2>1. \A q \in Proc : pc[q] \in Committer <=> q = p
    BY Zenon, CommitterAlone DEF Committer
  <2>2. QED BY <2>1 DEF At
<1>2. /\ ~At("install") /\ ~At("erase") /\ At("install")' /\ ~At("erase")'
      /\ ~At("finish")' /\ ~At("write_log")' /\ ~At("write_head")'
      /\ At("write_head")
  BY <1>1 DEF Committer
<1>3. TypeOK' /\ BootQuiet' /\ HeldInv' /\ NobodyStranded'
  BY DEF BootQuiet, HeldInv, NobodyStranded, Committer, Label
<1>4. CountInv'
  <2>1. Active' = Active  BY DEF Active
  <2>2. \A q \in Proc : pc'[q] \in Committer <=> q = p
    BY ZenonT(40), CommitterAlone DEF Committer
  <2>3. QED BY <2>1, <2>2, CommitterAlone DEF CountInv, Committer
<1>5. HeaderInv'
  <2>1. committing = 1  BY Zenon, CommitterAlone DEF Committer
  <2>2. QED BY <1>2, <2>1 DEF HeaderInv, Injective
<1>6. PhaseInv'  BY <1>2 DEF PhaseInv, Bread
<1>7. \A c \in Block : Pending(c)' = Pending(c)
  BY <1>2 DEF Pending, PhaseInv
<1>8. PinsExact' /\ CacheInv'  BY <1>7 DEF PinsExact, CacheInv
<1>9. QED BY <1>3, <1>4, <1>5, <1>6, <1>8

LEMMA InstallTransIInv ==
    ASSUME Sizes, NEW p \in Proc, IInv, InstallTrans(p) PROVE IInv'
<1> USE DEF IInv, TypeOK
<1> DEFINE b == lh[tail + 1]
           last == tail + 1 = Len(lh)
<1>0. /\ pc[p] = "install" /\ boot = "up"
      /\ tail + 1 \in Slots /\ tail + 1 \in 1 .. Len(lh) /\ b \in Block
      /\ logdata[tail + 1] = Bread(b) /\ logdata[tail + 1] \in Data
      /\ head = lh
      /\ \A i \in 1 .. Len(lh) : logdata[i] = Bread(lh[i])
      /\ \A i \in 1 .. tail : disk[lh[i]] = logdata[i]
  BY DEF InstallTrans, PhaseInv, HeaderInv, At, Slots
<1>1. /\ cache' = [cache EXCEPT ![b] = logdata[tail + 1]]
      /\ disk' = [disk EXCEPT ![b] = logdata[tail + 1]]
      /\ pins' = [pins EXCEPT ![b] = @ - 1]
      /\ tail' = tail + 1
      /\ pc' = [pc EXCEPT ![p] = IF last THEN "erase" ELSE @]
      /\ UNCHANGED <<logdata, head, lh, outstanding, committing, held, dirty,
                     wrote, boot, panicked, crashes>>
  BY DEF InstallTrans, Unpin
<1> HIDE DEF b, last
<1>2. /\ committing = 1 /\ \A q \in Proc : pc[q] \in Committer <=> q = p
  BY Zenon, <1>0, CommitterAlone DEF Committer
<1>3. \A q \in Proc : pc'[q] \in Committer <=> q = p
  BY <1>0, <1>1, <1>2 DEF Committer
<1>4. /\ At("install") /\ ~At("erase") /\ ~At("finish")' /\ ~At("write_log")'
      /\ ~At("write_head")'
      /\ At("install")' <=> ~last
      /\ At("erase")' <=> last
  BY <1>0, <1>1, <1>2, <1>3 DEF At, Committer
<1>5. \A i \in 1 .. Len(lh) : lh[i] = b => i = tail + 1
  BY <1>0 DEF HeaderInv, Injective, b
<1>6. Pending(b) /\ pins[b] = 1
  BY <1>0, <1>4 DEF Pending, PinsExact, b
<1>7. TypeOK'  BY <1>0, <1>1, <1>6 DEF Committer, Label
<1>8. BootQuiet' /\ HeldInv' /\ NobodyStranded'
  BY <1>0, <1>1 DEF BootQuiet, HeldInv, NobodyStranded
<1>9. CountInv'
  <2>1. Active' = Active  BY <1>0, <1>1 DEF Active
  <2>2. QED BY <1>1, <1>2, <1>3, <2>1 DEF CountInv
<1>10. HeaderInv'
  BY <1>0, <1>1, <1>2, <1>4 DEF HeaderInv, Injective
<1>11. PhaseInv'
  <2>1. \A i \in 1 .. Len(lh) : logdata'[i] = Bread(lh[i])'
    <3> SUFFICES ASSUME NEW i \in 1 .. Len(lh)
                 PROVE  logdata[i] = Bread(lh[i])'
      BY <1>1
    <3>1. CASE i = tail + 1  BY <1>0, <1>1, <3>1 DEF Bread, b
    <3>2. CASE i # tail + 1
      <4>1. lh[i] \in Block /\ lh[i] # b  BY <1>5, <3>2
      <4>2. QED BY <1>0, <1>1, <4>1 DEF Bread
    <3>3. QED BY <3>1, <3>2
  <2>2. \A i \in 1 .. tail + 1 : disk'[lh[i]] = logdata[i]
    <3> SUFFICES ASSUME NEW i \in 1 .. tail + 1 PROVE disk'[lh[i]] = logdata[i]
      OBVIOUS
    <3>1. CASE i = tail + 1  BY <1>0, <1>1, <3>1 DEF b
    <3>2. CASE i # tail + 1
      <4>1. /\ i \in 1 .. tail /\ i \in 1 .. Len(lh)
            /\ lh[i] \in Block /\ lh[i] # b
        BY <1>0, <1>5, <3>2
      <4>2. QED BY <1>0, <1>1, <4>1
    <3>3. QED BY <3>1, <3>2
  <2>3. CASE last
    <3>1. tail + 1 = Len(lh)  BY <2>3 DEF last
    <3>2. QED BY <1>0, <1>1, <1>4, <2>2, <2>3, <3>1, PhaseErase
  <2>4. CASE ~last
    <3>1. tail' = tail + 1 /\ tail + 1 < Len(lh)
      BY <1>0, <1>1, <2>4 DEF last
    <3>2. QED BY <1>0, <1>1, <1>4, <2>1, <2>2, <2>4, <3>1, PhaseInstall
  <2>5. QED BY <2>3, <2>4
<1>12. \A c \in Block : Pending(c)' <=> Pending(c) /\ c # b
  <2> SUFFICES ASSUME NEW c \in Block
               PROVE  Pending(c)' <=> Pending(c) /\ c # b
    OBVIOUS
  <2>1. Pending(c) <=> \E i \in 1 .. Len(lh) : lh[i] = c /\ i > tail
    BY <1>4 DEF Pending
  <2>2. Pending(c)' <=> \E i \in 1 .. Len(lh) : lh[i] = c /\ i > tail + 1
    <3>1. CASE last
      <4>1. ~Pending(c)'  BY <1>4, <3>1 DEF Pending
      <4>2. QED BY <1>0, <3>1, <4>1 DEF last
    <3>2. CASE ~last  BY <1>0, <1>1, <1>4, <3>2 DEF Pending
    <3>3. QED BY <3>1, <3>2
  <2>3. \A i \in 1 .. Len(lh) : i > tail <=> i > tail + 1 \/ i = tail + 1
    OBVIOUS
  <2>4. \A i \in 1 .. Len(lh) : lh[i] = b <=> i = tail + 1
    BY <1>0, <1>5 DEF b
  <2>5. \A i \in 1 .. Len(lh) : i > tail + 1 => i # tail + 1  OBVIOUS
  <2>6. QED BY Zenon, <1>0, <2>1, <2>2, <2>3, <2>4, <2>5
<1>13. PinsExact'  BY <1>0, <1>1, <1>6, <1>12 DEF PinsExact
<1>14. CacheInv'  BY <1>0, <1>1, <1>12 DEF CacheInv
<1>15. QED BY <1>7, <1>8, <1>9, <1>10, <1>11, <1>13, <1>14

LEMMA EraseHeadIInv ==
    ASSUME Sizes, NEW p \in Proc, IInv, EraseHead(p) PROVE IInv'
<1> USE DEF IInv, TypeOK, EraseHead
<1>1. \A l \in Committer : (At(l) <=> l = "erase") /\ (At(l)' <=> l = "finish")
  <2>1. \A q \in Proc : pc[q] \in Committer <=> q = p
    BY Zenon, CommitterAlone DEF Committer
  <2>2. QED BY <2>1 DEF At
<1>2. /\ At("erase") /\ ~At("install")' /\ ~At("erase")' /\ ~At("write_log")'
      /\ ~At("write_head")'
  BY <1>1 DEF Committer
<1>3. TypeOK' /\ BootQuiet' /\ HeldInv' /\ NobodyStranded'
  BY DEF BootQuiet, HeldInv, NobodyStranded, Committer, Label
<1>4. CountInv'
  <2>1. Active' = Active  BY DEF Active
  <2>2. \A q \in Proc : pc'[q] \in Committer <=> q = p
    BY ZenonT(40), CommitterAlone DEF Committer
  <2>3. QED BY <2>1, <2>2, CommitterAlone DEF CountInv, Committer
<1>5. HeaderInv' /\ PhaseInv'
  BY <1>2 DEF HeaderInv, Injective, PhaseInv
<1>6. \A c \in Block : ~Pending(c) /\ ~Pending(c)'  BY <1>2 DEF Pending
<1>7. PinsExact' /\ CacheInv'  BY <1>6 DEF PinsExact, CacheInv
<1>8. QED BY <1>3, <1>4, <1>5, <1>7

LEMMA FinishIInv == ASSUME Sizes, NEW p \in Proc, IInv, Finish(p) PROVE IInv'
<1> USE DEF IInv, TypeOK
<1>0. pc[p] = "finish" /\ boot = "up" /\ lh = <<>> /\ head = <<>>
  <2>1. pc[p] = "finish" /\ boot = "up"  BY DEF Finish
  <2>2. \A l \in Committer : At(l) <=> l = "finish"
    BY ZenonT(40), <2>1, CommitterAlone DEF Committer
  <2>3. At("finish") /\ ~At("install") /\ ~At("erase")  BY <2>2 DEF Committer
  <2>4. QED BY <2>1, <2>3 DEF HeaderInv
<1>1. /\ committing' = 0
      /\ UNCHANGED <<diskVars, cache, pins, lh, outstanding, held, dirty,
                     wrote, tail, boot, panicked, crashes>>
      /\ pc' \in [Proc -> Label]
      /\ \A q \in Proc :
            pc'[q] = IF q = p THEN "idle"
                     ELSE IF pc[q] = "sleep" THEN "begin" ELSE pc[q]
  BY <1>0 DEF Finish, Wakeup, Label
<1>2. Active' = Active /\ Active = {}
  <2>1. Active = {}  BY Zenon, <1>0, CommitterAlone DEF Committer
  <2>2. Active' = {}  BY Zenon, <1>1, <2>1 DEF Active
  <2>3. QED BY <2>1, <2>2
<1>3. \A q \in Proc : pc'[q] \notin Committer
  BY Zenon, <1>0, <1>1, CommitterAlone DEF Committer
<1>4. \A l \in Committer : ~At(l)'  BY <1>3 DEF At
<1>5. TypeOK' /\ BootQuiet' /\ HeldInv' /\ NobodyStranded'
  BY ZenonT(40), <1>0, <1>1 DEF BootQuiet, HeldInv, NobodyStranded
<1>6. CountInv'  BY <1>1, <1>2, <1>3 DEF CountInv
<1>7. HeaderInv' /\ PhaseInv'
  <2>1. HeaderInv'
    BY <1>0, <1>1, <1>4 DEF HeaderInv, Injective, PhaseInv, Committer
  <2>2. PhaseInv'  BY <1>0, <1>1, <1>4, PhaseIdle
  <2>3. QED BY <2>1, <2>2
<1>8. \A c \in Block : ~Pending(c) /\ ~Pending(c)'
  BY <1>0, <1>1 DEF Pending
<1>9. PinsExact' /\ CacheInv'  BY <1>1, <1>8 DEF PinsExact, CacheInv
<1>10. QED BY <1>5, <1>6, <1>7, <1>9

-----------------------------------------------------------------------------
(* Power loss, and the inductive invariant as a whole. *)

LEMMA CrashIInv == ASSUME Sizes, IInv, Crash PROVE IInv'
<1>0. disk \in [Block -> Data] /\ logdata \in [Slots -> Data] /\ TypeOK
  BY DEF IInv, TypeOK
<1>1. logdata' \in [Slots -> Data] /\ disk' \in [Block -> Data]
  <2>1. \/ logdata' = logdata
        \/ \E d \in Data : logdata' = [logdata EXCEPT ![tail + 1] = d]
    BY DEF Crash, TornLog
  <2>2. \/ disk' = disk
        \/ \E d \in Data : disk' = [disk EXCEPT ![lh[tail + 1]] = d]
    BY DEF Crash, TornHome
  <2>3. logdata' \in [Slots -> Data]  BY Zenon, <1>0, <2>1
  <2>4. disk' \in [Block -> Data]  BY Zenon, <1>0, <2>2
  <2>5. QED BY <2>3, <2>4
<1>2. /\ head' = head /\ lh' = <<>> /\ tail' = 0 /\ outstanding' = 0
      /\ cache' = [b \in Block |-> NotCached] /\ pins' = [b \in Block |-> 0]
      /\ pc' = [q \in Proc |-> "idle"] /\ held' = [q \in Proc |-> NoBlock]
      /\ wrote' = [q \in Proc |-> {}] /\ dirty' = {} /\ committing' = 0
      /\ boot' = "read_head" /\ panicked' = 0 /\ crashes' \in Nat
  BY <1>0 DEF Crash, TypeOK
<1>3. TypeOK'  BY <1>0, <1>1, <1>2 DEF TypeOK, Label
<1>4. BootQuiet' /\ HeldInv' /\ NobodyStranded'
  BY <1>2 DEF BootQuiet, HeldInv, NobodyStranded
<1>5. CountInv'
  <2>1. Active' = {}  BY <1>2 DEF Active
  <2>2. QED BY <1>2, <2>1 DEF CountInv, Sizes, Committer
<1>6. \A l \in Committer : ~At(l)'  BY <1>2 DEF At, Committer
<1>7. Injective(head) /\ Len(head) <= LOGSIZE  BY DEF IInv, HeaderInv
<1>8. HeaderInv' /\ PhaseInv'
  BY <1>2, <1>6, <1>7 DEF HeaderInv, PhaseInv, Injective, Committer
<1>9. CacheInv'  BY <1>2 DEF CacheInv
<1>10. PinsExact'  BY <1>2 DEF PinsExact
<1>11. QED BY <1>3, <1>4, <1>5, <1>8, <1>9, <1>10 DEF IInv

LEMMA StutterIInv == ASSUME IInv, UNCHANGED vars PROVE IInv'
<1> USE DEF vars, memVars
<1>1. TypeOK' /\ BootQuiet'  BY DEF IInv, TypeOK, BootQuiet
<1>2. Active' = Active  BY DEF Active
<1>3. \A l : At(l)' <=> At(l)  BY DEF At
<1>4. \A b : Bread(b)' = Bread(b)  BY DEF Bread
<1>5. \A b : Pending(b)' <=> Pending(b)  BY <1>3 DEF Pending
<1>6. CountInv' /\ HeldInv' /\ NobodyStranded'
  BY <1>2 DEF IInv, CountInv, HeldInv, NobodyStranded
<1>7. HeaderInv'  BY <1>2, <1>3 DEF IInv, HeaderInv, Injective
<1>8. PhaseInv'  BY <1>3, <1>4 DEF IInv, PhaseInv
<1>9. CacheInv' /\ PinsExact'  BY <1>5 DEF IInv, CacheInv, PinsExact
<1>10. QED BY <1>1, <1>6, <1>7, <1>8, <1>9 DEF IInv

LEMMA NextIInv == ASSUME Sizes, IInv, [Next]_vars PROVE IInv'
<1>1. CASE Boot
  BY <1>1, ReadHeadIInv, RecoverBlockIInv, ClearHeadIInv DEF Boot
<1>2. ASSUME NEW p \in Proc, Commit(p) PROVE IInv'
  BY <1>2, WriteLogIInv, WriteHeadIInv, InstallTransIInv, EraseHeadIInv,
     FinishIInv DEF Commit
<1>3. ASSUME NEW p \in Proc,
             \/ BeginOp(p) \/ LogWrite(p) \/ Brelse(p) \/ EndOp(p)
             \/ \E b \in Block : LockBuffer(p, b)
             \/ \E d \in Data : Modify(p, d)
      PROVE IInv'
  BY <1>3, BeginOpIInv, LogWriteIInv, BrelseIInv, EndOpIInv, LockBufferIInv,
     ModifyIInv
<1>4. ASSUME NEW b \in Block, Recycle(b) PROVE IInv'
  BY <1>4, RecycleIInv
<1>5. CASE Crash  BY <1>5, CrashIInv
<1>6. CASE UNCHANGED vars  BY <1>6, StutterIInv
<1>7. QED BY <1>1, <1>2, <1>3, <1>4, <1>5, <1>6 DEF Next

-----------------------------------------------------------------------------
(* The steps of commit() and power loss as steps of AtomicDisk. *)

\* The write of the header is the commit of the abstract disk; the other
\* steps of commit() are invisible.
LEMMA CommitRefines ==
    ASSUME Sizes, NEW p \in Proc, IInv, Commit(p)
    PROVE  UNCHANGED <<Durable, View, Active>> \/ Atomic!Commit
<1>0. /\ disk \in [Block -> Data] /\ logdata \in [Slots -> Data]
      /\ cache \in [Block -> Data \cup {NotCached}]
      /\ pc \in [Proc -> Label] /\ lh \in Seq(Block) /\ tail \in Nat
  BY DEF IInv, TypeOK
<1>1. /\ boot = "up" /\ boot' = "up" /\ pc[p] \in Committer
      /\ \A q \in Proc : pc'[q] = "op" <=> pc[q] = "op"
  BY <1>0 DEF Commit, WriteLog, WriteHead, InstallTrans, EraseHead, Finish,
              Wakeup, Committer, IInv, BootQuiet
<1>2. Active' = Active /\ Active = {} /\ dirty = {}
  <2>1. Active = {} /\ dirty = {}  BY Zenon, <1>1, CommitterAlone
  <2>2. QED BY <1>1, <2>1 DEF Active
<1>3. \A q \in Proc : pc[q] \in Committer => q = p
  BY ZenonT(40), <1>1, CommitterAlone
<1>4. CASE WriteLog(p)
  <2>1. /\ pc[p] = "write_log" /\ head' = head /\ disk' = disk
        /\ cache' = [cache EXCEPT ![lh[tail + 1]] = Bread(lh[tail + 1])]
        /\ lh[tail + 1] \in Block
    BY <1>0, <1>4 DEF WriteLog, IInv, PhaseInv, At
  <2>2. head = <<>>
    <3>1. ~At("install") /\ ~At("erase")  BY <1>3, <2>1 DEF At, Committer
    <3>2. QED BY <1>1, <3>1 DEF IInv, HeaderInv
  <2>3. Durable = disk /\ Durable' = disk
    BY <1>0, <2>1, <2>2, RecoveredEmpty DEF Durable
  <2>4. \A b \in Block : Bread(b)' = Bread(b)  BY <1>0, <2>1 DEF Bread
  <2>5. QED BY <1>1, <1>2, <2>3, <2>4, SameView
<1>5. CASE WriteHead(p)
  <2>1. /\ At("write_head") /\ ~At("install") /\ ~At("erase")
        /\ head' = lh /\ UNCHANGED <<disk, logdata, cache, lh>>
    BY <1>3, <1>5 DEF WriteHead, At, Committer
  <2>2. \A i \in 1 .. Len(lh) : lh[i] \in Block /\ logdata[i] = View[lh[i]]
    BY <1>0, <1>1, <2>1 DEF IInv, PhaseInv, View
  <2>3. \A b \in Block :
           (\A i \in 1 .. Len(lh) : lh[i] # b) => disk[b] = View[b]
    BY Zenon, <1>0, <1>1, <1>2, <2>1 DEF IInv, CacheInv, Pending, View, Bread
  <2>4. View \in [Block -> Data]  BY <1>0, <1>1 DEF View, Bread
  <2>5. Recovered(lh, logdata, disk) = View
    <3>1. Agrees(lh, logdata, disk, View)  BY <2>2, <2>3 DEF Agrees
    <3>2. QED BY <2>4, <3>1, RecoveredIs
  <2>6. Durable' = View  BY <2>1, <2>5 DEF Durable
  <2>7. View' = View  BY <1>1, <2>1, SameView DEF Bread
  <2>8. QED BY <1>2, <2>6, <2>7 DEF Atomic!Commit
<1>6. CASE InstallTrans(p)
  <2>1. /\ At("install") /\ UNCHANGED <<logdata, head>>
        /\ cache' = [cache EXCEPT ![lh[tail + 1]] = logdata[tail + 1]]
        /\ disk' = [disk EXCEPT ![lh[tail + 1]] = logdata[tail + 1]]
    BY <1>6 DEF InstallTrans, At
  <2>2. /\ tail + 1 \in 1 .. Len(head) /\ head = lh /\ lh[tail + 1] \in Block
        /\ tail + 1 \in Slots
        /\ logdata[tail + 1] = Bread(lh[tail + 1])
    BY <1>0, <2>1 DEF IInv, PhaseInv, HeaderInv, Slots
  <2>3. \A b \in Block :
           (\A i \in 1 .. Len(head) : head[i] # b) => disk'[b] = disk[b]
    BY <1>0, <2>1, <2>2
  <2>4. Durable' = Durable
    <3>1. Recovered(head, logdata, disk') = Recovered(head, logdata, disk)
      BY ZenonT(40), <2>3, RecoveredIgnores
    <3>2. QED BY <2>1, <3>1 DEF Durable
  <2>5. \A b \in Block : Bread(b)' = Bread(b)
    <3>1. logdata[tail + 1] # NotCached  BY <1>0, <2>2
    <3>2. QED BY <1>0, <2>1, <2>2, <3>1 DEF Bread
  <2>6. QED BY <1>1, <1>2, <2>4, <2>5, SameView
<1>7. CASE EraseHead(p)
  <2>1. At("erase") /\ head' = <<>> /\ UNCHANGED <<disk, logdata, cache>>
    BY <1>7 DEF EraseHead, At
  <2>2. \A i \in 1 .. Len(head) : logdata[i] = disk[head[i]]
    BY <2>1 DEF IInv, PhaseInv
  <2>3. Durable = disk
    <3>1. Agrees(head, logdata, disk, disk)  BY <2>2 DEF Agrees
    <3>2. Recovered(head, logdata, disk) = disk  BY <1>0, <3>1, RecoveredIs
    <3>3. QED BY <3>2 DEF Durable
  <2>4. Durable' = disk  BY <1>0, <2>1, RecoveredEmpty DEF Durable
  <2>5. View' = View  BY <1>1, <2>1, SameView DEF Bread
  <2>6. QED BY <1>2, <2>3, <2>4, <2>5
<1>8. CASE Finish(p)
  <2>1. UNCHANGED <<disk, logdata, head, cache>>  BY <1>8 DEF Finish
  <2>2. QED BY <1>1, <1>2, <2>1, SameView DEF Durable, Bread
<1>9. QED BY <1>4, <1>5, <1>6, <1>7, <1>8 DEF Commit

\* A crash loses the running view and nothing of what is durable, also when
\* it tears the block that was being written.
LEMMA CrashRefines == ASSUME Sizes, IInv, Crash PROVE Atomic!Crash
<1>0. disk \in [Block -> Data] /\ lh \in Seq(Block) /\ tail \in Nat
  BY DEF IInv, TypeOK
<1>1. head' = head /\ boot' = "read_head" /\ pc' = [q \in Proc |-> "idle"]
  BY DEF Crash
<1>2. CASE \E q \in Proc : pc[q] = "write_log"
  <2>1. PICK p \in Proc : pc[p] = "write_log"  BY <1>2
  <2>2. boot = "up"  BY <2>1 DEF IInv, BootQuiet
  <2>3. ~At("install") /\ ~At("erase")
    <3>1. "write_log" \in Committer /\ "install" \in Committer
          /\ "erase" \in Committer
      BY DEF Committer
    <3>2. \A l \in Committer : At(l) <=> pc[p] = l
      BY Zenon, <2>1, <3>1, CommitterAlone
    <3>3. QED BY <2>1, <3>1, <3>2
  <2>4. head = <<>>  BY <2>2, <2>3 DEF IInv, HeaderInv
  <2>5. disk' = disk  BY <2>2, <2>3 DEF Crash, TornHome, At
  <2>6. Durable' = Durable
    BY <1>0, <1>1, <2>4, <2>5, RecoveredEmpty DEF Durable
  <2>7. QED BY <1>1, <2>6 DEF Atomic!Crash, View, Active
<1>3. CASE ~ \E q \in Proc : pc[q] = "write_log"
  <2>1. logdata' = logdata  BY <1>3 DEF Crash, TornLog
  <2>2. \A b \in Block :
           (\A i \in 1 .. Len(head) : head[i] # b) => disk'[b] = disk[b]
    <3>1. CASE boot = "install" \/ At("install")
      <4>1. tail + 1 \in 1 .. Len(head) /\ head = lh
        BY <1>0, <3>1 DEF IInv, PhaseInv
      <4>2. \/ disk' = disk
            \/ \E d \in Data : disk' = [disk EXCEPT ![head[tail + 1]] = d]
        BY <3>1, <4>1 DEF Crash, TornHome, At
      <4>3. QED BY <1>0, <4>1, <4>2
    <3>2. CASE ~(boot = "install" \/ At("install"))
      BY <3>2 DEF Crash, TornHome, At
    <3>3. QED BY <3>1, <3>2
  <2>3. Durable' = Durable
    BY ZenonT(40), <1>1, <2>1, <2>2, RecoveredIgnores DEF Durable
  <2>4. QED BY <1>1, <2>3 DEF Atomic!Crash, View, Active
<1>4. QED BY <1>2, <1>3

LEMMA InitRefines == ASSUME Init PROVE Atomic!Init
<1>1. Durable = disk  BY RecoveredEmpty DEF Init, Durable
<1>2. View = Durable  BY DEF View, Init
<1>3. Active = {}  BY DEF Active, Init
<1>4. QED BY <1>1, <1>2, <1>3 DEF Init, Atomic!Init

LEMMA NextRefines ==
    ASSUME Sizes, IInv, [Next]_vars PROVE [Atomic!Next]_(Atomic!vars)
<1>1. CASE Boot  BY <1>1, BootStutters DEF Atomic!vars
<1>2. ASSUME NEW p \in Proc, Commit(p) PROVE [Atomic!Next]_(Atomic!vars)
  BY <1>2, CommitRefines DEF Atomic!Next, Atomic!vars
<1>3. ASSUME NEW p \in Proc,
             \/ BeginOp(p) \/ LogWrite(p) \/ Brelse(p) \/ EndOp(p)
             \/ \E b \in Block : LockBuffer(p, b)
             \/ \E d \in Data : Modify(p, d)
      PROVE [Atomic!Next]_(Atomic!vars)
  BY <1>3, CallRefines
<1>4. ASSUME NEW b \in Block, Recycle(b) PROVE [Atomic!Next]_(Atomic!vars)
  BY <1>4, RecycleStutters DEF Atomic!vars
<1>5. CASE Crash  BY <1>5, CrashRefines DEF Atomic!Next
<1>6. CASE UNCHANGED vars
  BY <1>6 DEF vars, memVars, diskVars, Atomic!vars, Durable, View, Active, Bread
<1>7. QED BY <1>1, <1>2, <1>3, <1>4, <1>5, <1>6 DEF Next
=============================================================================
