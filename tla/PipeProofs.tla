----------------------------- MODULE PipeProofs -----------------------------
(***************************************************************************)
(* A pipe is a bounded first-in first-out queue across the wrap-around of  *)
(* its counters, nobody sleeps on it in vain, and its page is freed once,  *)
(* last: for any processes, bytes, sizes and counter widths.               *)
(***************************************************************************)
EXTENDS Pipe, RingCounters, SequenceTheorems

-----------------------------------------------------------------------------
(* The counters. *)

LEMMA Sizes ==
    /\ PIPESIZE \in Nat \ {0} /\ Wrap \in Nat \ {0}
    /\ 1 < Wrap /\ PIPESIZE < Wrap /\ Wrap % PIPESIZE = 0
<1>1. PICK k \in 2 .. Wrap : Wrap = k * PIPESIZE  BY PipeAssumption
<1>2. PIPESIZE \in Nat \ {0} /\ Wrap \in Nat /\ k \in Nat \ {0, 1}
  BY PipeAssumption
<1>3. k * PIPESIZE >= 2 * PIPESIZE  BY <1>2
<1>4. Wrap = k * PIPESIZE + 0 /\ 0 \in 0 .. PIPESIZE - 1 /\ k \in Int
  BY <1>1, <1>2
<1>5. Wrap % PIPESIZE = 0  BY Zenon, <1>2, <1>4, ModUnique
<1>6. QED BY <1>1, <1>2, <1>3, <1>5

LEMMA CountIs ==
    ASSUME TypeOK
    PROVE  Count \in 0 .. Wrap - 1 /\ nwrite = (nread + Count) % Wrap
BY ZenonT(40), Sizes, Distance DEF TypeOK, Count

LEMMA FullEmpty ==
    ASSUME TypeOK PROVE (Full <=> Count = PIPESIZE) /\ (Empty <=> Count = 0)
<1> USE DEF TypeOK
<1>1. ASSUME Full PROVE Count = PIPESIZE
  <2>1. nwrite = (nread + PIPESIZE) % Wrap  BY <1>1 DEF Full, Add
  <2>2. PIPESIZE \in 0 .. Wrap - 1  BY Sizes
  <2>3. QED BY Zenon, <2>1, <2>2, Sizes, DistanceIs DEF Count
<1>2. ASSUME Empty PROVE Count = 0
  <2>1. nwrite + Wrap - nread = Wrap  BY <1>2, Sizes DEF Empty
  <2>2. Wrap % Wrap = 0  BY Sizes, ModOnce
  <2>3. QED BY <2>1, <2>2 DEF Count
<1>3. ASSUME Count = 0 PROVE Empty
  <2>1. nwrite = (nread + 0) % Wrap  BY <1>3, CountIs
  <2>2. nread + 0 = nread  OBVIOUS
  <2>3. nread % Wrap = nread  BY Zenon, Sizes, ModOnce
  <2>4. QED BY <2>1, <2>2, <2>3 DEF Empty
<1>4. ASSUME Count = PIPESIZE PROVE Full  BY <1>4, CountIs DEF Full, Add
<1>5. QED BY <1>1, <1>2, <1>3, <1>4

\* pi->nwrite++ and pi->nread++
LEMMA CountUp ==
    ASSUME TypeOK, Count < PIPESIZE, nwrite' = Add(nwrite, 1), nread' = nread
    PROVE  Count' = Count + 1 /\ nwrite' \in 0 .. Wrap - 1
<1>1. Count \in 0 .. Wrap - 1 /\ nwrite = (nread + Count) % Wrap
  BY CountIs
<1>2. PICK a \in 0 .. Wrap - 1, n \in 0 .. Wrap - 1 :
          a = nread /\ n = Count /\ n + 1 \in 0 .. Wrap - 1
  BY <1>1, Sizes DEF TypeOK
<1>3. (((a + n) % Wrap) + 1) % Wrap = (a + (n + 1)) % Wrap
  BY ZenonT(40), <1>2, Sizes, OneMore
<1>4. nwrite' = (a + (n + 1)) % Wrap  BY <1>1, <1>2, <1>3 DEF Add
<1>5. (nwrite' + Wrap - a) % Wrap = n + 1
  <2>1. (((a + (n + 1)) % Wrap) + Wrap - a) % Wrap = n + 1
    BY Zenon, <1>2, Sizes, DistanceIs
  <2>2. QED BY Zenon, <1>4, <2>1
<1>6. nwrite' \in 0 .. Wrap - 1  BY <1>2, <1>4, Sizes, AddIs
<1>7. QED BY <1>2, <1>5, <1>6 DEF Count

LEMMA CountDown ==
    ASSUME TypeOK, Count > 0, nread' = Add(nread, 1), nwrite' = nwrite
    PROVE  Count' = Count - 1 /\ nread' \in 0 .. Wrap - 1
<1>1. Count \in 0 .. Wrap - 1 /\ nwrite = (nread + Count) % Wrap
  BY CountIs
<1>2. PICK a \in 0 .. Wrap - 1, m \in 0 .. Wrap - 1 :
          a = nread /\ m + 1 = Count
  <2>1. Count - 1 \in 0 .. Wrap - 1 /\ (Count - 1) + 1 = Count
    BY <1>1, Sizes
  <2>2. QED BY <2>1 DEF TypeOK
<1>3. /\ nread' \in 0 .. Wrap - 1
      /\ (nread' + m) % Wrap = (a + (m + 1)) % Wrap
  BY ZenonT(40), <1>2, Sizes, AfterOne DEF Add
<1>4. (nwrite + Wrap - nread') % Wrap = m
  <2>1. (((nread' + m) % Wrap) + Wrap - nread') % Wrap = m
    BY Zenon, <1>2, <1>3, Sizes, DistanceIs
  <2>2. nwrite = (nread' + m) % Wrap  BY Zenon, <1>1, <1>2, <1>3
  <2>3. QED BY Zenon, <2>1, <2>2
<1>5. QED BY <1>2, <1>3, <1>4 DEF Count

-----------------------------------------------------------------------------
(* Every step keeps the inductive invariant. *)

LEMMA InitIInv == ASSUME Init PROVE IInv
<1> USE DEF Init
<1>1. TypeOK
  <2>1. (CHOOSE c \in Byte : TRUE) \in Byte  BY PipeAssumption
  <2>2. 0 \in 0 .. MaxCount + 1 /\ 0 \in 0 .. Wrap - 1
    BY PipeAssumption, Sizes
  <2>3. QED BY <2>1, <2>2 DEF TypeOK, Process
<1>2. LockInv /\ EndInv /\ SleepInv  BY DEF LockInv, EndInv, SleepInv
<1>3. Empty  BY DEF Empty
<1>4. Count <= PIPESIZE  BY <1>1, <1>3, FullEmpty, Sizes
<1>5. QED BY <1>1, <1>2, <1>4 DEF IInv

\* Steps that leave the counters alone leave Full, Empty and Count alone.
LEMMA SameCounters ==
    ASSUME UNCHANGED pipeVars
    PROVE  UNCHANGED <<Full, Empty, Count, Queue>>
BY DEF pipeVars, Full, Empty, Count, Queue, Add

\* Calls, lock acquisitions and kills.
LEMMA CallIInv ==
    ASSUME IInv, NEW p \in Process, NEW n \in 0 .. MaxCount,
           WriteCall(p, n) \/ ReadCall(p, n)
    PROVE  IInv'
<1> USE DEF IInv, TypeOK, WriteCall, ReadCall, Goto, openVars
<1>1. UNCHANGED pipeVars /\ UNCHANGED <<Full, Empty, Count>>  BY SameCounters
<1>2. TypeOK'
  <2>1. n \in 0 .. MaxCount + 1  BY PipeAssumption
  <2>2. /\ todo' = [todo EXCEPT ![p] = n]
        /\ \E l \in {"w_loop", "r_loop"} : pc' = [pc EXCEPT ![p] = l]
    OBVIOUS
  <2>3. UNCHANGED <<lock, killed>> /\ UNCHANGED openVars  OBVIOUS
  <2> HIDE DEF WriteCall, ReadCall
  <2>4. QED BY <1>1, <2>1, <2>2, <2>3 DEF pipeVars
<1>3. LockInv'  BY DEF LockInv
<1>4. EndInv'  BY DEF EndInv
<1>5. SleepInv'  BY <1>1 DEF SleepInv
<1>6. QED BY <1>1, <1>2, <1>3, <1>4, <1>5

LEMMA AcquireIInv ==
    ASSUME IInv, NEW p \in Process, Acquire(p) PROVE IInv'
<1> USE DEF IInv, TypeOK, Acquire, openVars
<1>1. UNCHANGED pipeVars /\ UNCHANGED <<Full, Empty, Count>>  BY SameCounters
<1>2. TypeOK'  BY <1>1 DEF pipeVars
<1>3. LockInv'  BY PipeAssumption DEF LockInv, Process
<1>4. EndInv'  BY DEF EndInv
<1>5. SleepInv'  BY <1>1 DEF SleepInv
<1>6. QED BY <1>1, <1>2, <1>3, <1>4, <1>5

LEMMA KillIInv == ASSUME IInv, NEW p \in Process, Kill(p) PROVE IInv'
<1> USE DEF IInv, TypeOK, Kill, openVars
<1>1. UNCHANGED pipeVars /\ UNCHANGED <<Full, Empty, Count>>  BY SameCounters
<1>2. TypeOK'  BY <1>1 DEF pipeVars
<1>3. LockInv'  BY DEF LockInv
<1>4. EndInv'  BY DEF EndInv
<1>5. SleepInv'  BY <1>1 DEF SleepInv
<1>6. QED BY <1>1, <1>2, <1>3, <1>4, <1>5

-----------------------------------------------------------------------------
(* pipewrite() *)

LEMMA WriteBrokenIInv ==
    ASSUME IInv, NEW p \in Process, WriteBroken(p) PROVE IInv'
<1> USE PipeAssumption DEF IInv, TypeOK, WriteBroken, Goto, Release, openVars
<1>1. UNCHANGED pipeVars /\ UNCHANGED <<Full, Empty, Count>>  BY SameCounters
<1>2. TypeOK'  BY <1>1 DEF pipeVars
<1>3. LockInv'  BY DEF LockInv
<1>4. EndInv'  BY DEF EndInv
<1>5. SleepInv'  BY <1>1 DEF SleepInv, Process
<1>6. QED BY <1>1, <1>2, <1>3, <1>4, <1>5

LEMMA WriteFullIInv ==
    ASSUME IInv, NEW p \in Process, WriteFull(p) PROVE IInv'
<1> USE PipeAssumption DEF IInv, TypeOK, WriteFull, WakeReaders, Release, openVars
<1>1. UNCHANGED pipeVars /\ UNCHANGED <<Full, Empty, Count>>  BY SameCounters
<1>2. TypeOK'  BY <1>1 DEF pipeVars
<1>3. LockInv'  BY DEF LockInv
<1>4. EndInv'  BY DEF EndInv
<1>5. SleepInv'  BY <1>1 DEF SleepInv, Process
<1>6. QED BY <1>1, <1>2, <1>3, <1>4, <1>5

LEMMA WriteDoneIInv ==
    ASSUME IInv, NEW p \in Process, WriteDone(p) PROVE IInv'
<1> USE PipeAssumption DEF IInv, TypeOK, WriteDone, WakeReaders, Release, openVars
<1>1. UNCHANGED pipeVars /\ UNCHANGED <<Full, Empty, Count>>  BY SameCounters
<1>2. TypeOK'  BY <1>1 DEF pipeVars
<1>3. LockInv'  BY DEF LockInv
<1>4. EndInv'  BY DEF EndInv
<1>5. SleepInv'  BY <1>1 DEF SleepInv, Process
<1>6. QED BY <1>1, <1>2, <1>3, <1>4, <1>5

LEMMA WriteByteIInv ==
    ASSUME IInv, NEW p \in Process, NEW c \in Byte, WriteByte(p, c) PROVE IInv'
<1> USE PipeAssumption DEF IInv, TypeOK, WriteByte, openVars
<1>1. Count < PIPESIZE
  <2>1. Count # PIPESIZE  BY FullEmpty
  <2>2. Count \in Nat  BY CountIs, Sizes
  <2>3. QED BY <2>1, <2>2, Sizes
<1>2. Count' = Count + 1 /\ nwrite' \in 0 .. Wrap - 1  BY <1>1, CountUp
<1>3. Count' <= PIPESIZE  BY <1>1, <1>2, CountIs, Sizes
<1>4. TypeOK'  BY <1>2
<1>5. LockInv' /\ EndInv'  BY DEF LockInv, EndInv
<1>6. SleepInv'  BY DEF SleepInv, Process
<1>7. QED BY <1>3, <1>4, <1>5, <1>6

-----------------------------------------------------------------------------
(* piperead() *)

LEMMA ReadKilledIInv ==
    ASSUME IInv, NEW p \in Process, ReadKilled(p) PROVE IInv'
<1> USE PipeAssumption DEF IInv, TypeOK, ReadKilled, Goto, Release, openVars
<1>1. UNCHANGED pipeVars /\ UNCHANGED <<Full, Empty, Count>>  BY SameCounters
<1>2. TypeOK'  BY <1>1 DEF pipeVars
<1>3. LockInv'  BY DEF LockInv
<1>4. EndInv'  BY DEF EndInv
<1>5. SleepInv'  BY <1>1 DEF SleepInv, Process
<1>6. QED BY <1>1, <1>2, <1>3, <1>4, <1>5

LEMMA ReadEmptyIInv ==
    ASSUME IInv, NEW p \in Process, ReadEmpty(p) PROVE IInv'
<1> USE PipeAssumption DEF IInv, TypeOK, ReadEmpty, Goto, Release, openVars
<1>1. UNCHANGED pipeVars /\ UNCHANGED <<Full, Empty, Count>>  BY SameCounters
<1>2. TypeOK'  BY <1>1 DEF pipeVars
<1>3. LockInv'  BY DEF LockInv
<1>4. EndInv'  BY DEF EndInv
<1>5. SleepInv'  BY <1>1 DEF SleepInv, Process
<1>6. QED BY <1>1, <1>2, <1>3, <1>4, <1>5

LEMMA ReadStartIInv ==
    ASSUME IInv, NEW p \in Process, ReadStart(p) PROVE IInv'
<1> USE PipeAssumption DEF IInv, TypeOK, ReadStart, Goto, openVars
<1>1. UNCHANGED pipeVars /\ UNCHANGED <<Full, Empty, Count>>  BY SameCounters
<1>2. TypeOK'  BY <1>1 DEF pipeVars
<1>3. LockInv'  BY DEF LockInv
<1>4. EndInv'  BY DEF EndInv
<1>5. SleepInv'  BY <1>1 DEF SleepInv, Process
<1>6. QED BY <1>1, <1>2, <1>3, <1>4, <1>5

LEMMA ReadByteIInv ==
    ASSUME IInv, NEW p \in Process, NEW ok \in BOOLEAN, ReadByte(p, ok)
    PROVE  IInv'
<1> USE PipeAssumption DEF IInv, TypeOK, ReadByte, openVars
<1>1. Count > 0
  <2>1. Count # 0  BY FullEmpty
  <2>2. Count \in 0 .. Wrap - 1  BY CountIs
  <2>3. QED BY <2>1, <2>2, Sizes
<1>2. Count' = Count - 1 /\ nread' \in 0 .. Wrap - 1  BY <1>1, CountDown
<1>3. Count' <= PIPESIZE  BY <1>1, <1>2, CountIs, Sizes
<1>4. TypeOK'
  <2>1. (IF ok THEN todo[p] - 1 ELSE 0) \in 0 .. MaxCount + 1  OBVIOUS
  <2>2. QED BY <1>2, <2>1
<1>5. LockInv'  BY DEF LockInv
<1>6. EndInv'  BY DEF EndInv
<1>7. SleepInv'  BY DEF SleepInv, Process
<1>8. QED BY <1>3, <1>4, <1>5, <1>6, <1>7

LEMMA ReadDoneIInv ==
    ASSUME IInv, NEW p \in Process, ReadDone(p) PROVE IInv'
<1> USE PipeAssumption DEF IInv, TypeOK, ReadDone, WakeWriters, Release, openVars
<1>1. UNCHANGED pipeVars /\ UNCHANGED <<Full, Empty, Count>>  BY SameCounters
<1>2. TypeOK'  BY <1>1 DEF pipeVars
<1>3. LockInv'  BY DEF LockInv
<1>4. EndInv'  BY DEF EndInv
<1>5. SleepInv'  BY <1>1 DEF SleepInv, Process
<1>6. QED BY <1>1, <1>2, <1>3, <1>4, <1>5

-----------------------------------------------------------------------------
(* Closing. *)

LEMMA DropIInv == ASSUME IInv, NEW p \in Process, Drop(p) PROVE IInv'
<1> USE DEF IInv, TypeOK
<1>1. /\ UNCHANGED <<readopen, writeopen, freed, lock, killed>>
      /\ UNCHANGED pipeVars /\ UNCHANGED <<Full, Empty, Count>>
      /\ pc[p] = "idle"
  BY SameCounters DEF Drop
<1>2. PICK e \in {"w", "r"} :
          /\ p \in holders[e]
          /\ holders' = [holders EXCEPT ![e] = @ \ {p}]
          /\ IF holders[e] = {p}
             THEN /\ pc' = [pc EXCEPT ![p] = "closing"]
                  /\ todo' = [todo EXCEPT ![p] = IF e = "w" THEN 1 ELSE 0]
             ELSE UNCHANGED <<pc, todo>>
  BY Zenon DEF Drop, Goto
<1>3. TypeOK'
  <2>1. (IF e = "w" THEN 1 ELSE 0) \in 0 .. MaxCount + 1
    BY PipeAssumption
  <2>2. /\ pc' \in [Process -> {"idle", "w_loop", "w_sleep", "r_loop",
                                "r_sleep", "r_copy", "closing"}]
        /\ todo' \in [Process -> 0 .. MaxCount + 1]
    <3>1. CASE holders[e] = {p}
      <4>1. /\ pc' = [pc EXCEPT ![p] = "closing"]
            /\ todo' = [todo EXCEPT ![p] = IF e = "w" THEN 1 ELSE 0]
        BY <1>2, <3>1
      <4>2. QED BY <2>1, <4>1
    <3>2. CASE holders[e] # {p}  BY <1>2, <3>2
    <3>3. QED BY <3>1, <3>2
  <2>3. holders' \in [w : SUBSET Process, r : SUBSET Process]  BY SMTT(30), <1>2
  <2>4. QED BY <1>1, <2>2, <2>3 DEF pipeVars
<1>4. LockInv'  BY <1>1, <1>2 DEF LockInv
<1>5. EndInv'
  <2>1. CASE e = "w"  BY SMTT(30), <1>1, <1>2, <2>1 DEF EndInv
  <2>2. CASE e = "r"  BY <1>1, <1>2, <2>2 DEF EndInv
  <2>3. QED BY <1>2, <2>1, <2>2
<1>6. SleepInv'  BY <1>1, <1>2 DEF SleepInv
<1>7. QED BY <1>1, <1>3, <1>4, <1>5, <1>6

LEMMA PipeCloseIInv ==
    ASSUME IInv, NEW p \in Process, PipeClose(p) PROVE IInv'
<1> USE PipeAssumption DEF IInv, TypeOK, PipeClose, Release, WakeReaders,
                           WakeWriters
<1>1. UNCHANGED pipeVars /\ UNCHANGED <<Full, Empty, Count>>  BY SameCounters
<1>2. TypeOK'  BY <1>1 DEF pipeVars
<1>3. LockInv'  BY DEF LockInv
<1>4. EndInv'  BY DEF EndInv, Last
<1>5. SleepInv'  BY <1>1 DEF SleepInv, Process
<1>6. QED BY <1>1, <1>2, <1>3, <1>4, <1>5

-----------------------------------------------------------------------------
(* The theorems. *)

LEMMA NextIInv == ASSUME IInv, [Next]_vars PROVE IInv'
<1>1. CASE Next
  BY <1>1, CallIInv, AcquireIInv, KillIInv, WriteBrokenIInv, WriteFullIInv,
     WriteDoneIInv, WriteByteIInv, ReadKilledIInv, ReadEmptyIInv,
     ReadStartIInv, ReadByteIInv, ReadDoneIInv, DropIInv, PipeCloseIInv
  DEF Next, Step
<1>2. CASE UNCHANGED vars
  <2> USE <1>2 DEF vars, openVars
  <2>1. UNCHANGED pipeVars /\ UNCHANGED <<Full, Empty, Count>>
    BY SameCounters
  <2>2. TypeOK' /\ LockInv' /\ EndInv'
    BY <2>1 DEF IInv, TypeOK, LockInv, EndInv, pipeVars
  <2>3. SleepInv'  BY <2>1 DEF IInv, SleepInv
  <2>4. QED BY <2>1, <2>2, <2>3 DEF IInv
<1>3. QED BY <1>1, <1>2

\* IInv holds in every reachable state.
THEOREM InductiveInvariant == Spec => []IInv
BY InitIInv, NextIInv, PTL DEF Spec

\* The page of a pipe is freed at most once, and then nobody holds an end of
\* the pipe and no call is using it.
THEOREM PageFreedLast == Spec => []FreedLast
<1>1. IInv => FreedLast  BY DEF IInv, TypeOK, EndInv, FreedLast
<1>2. QED BY <1>1, InductiveInvariant, PTL

\* A reader sleeps only while the pipe is empty and has a writer, a writer only
\* while it is full and has a reader: no wakeup is lost.
THEOREM SleepersWait == Spec => []NobodySleepsInVain
<1>1. IInv => NobodySleepsInVain
  BY PipeAssumption DEF IInv, SleepInv, NobodySleepsInVain
<1>2. QED BY <1>1, InductiveInvariant, PTL

-----------------------------------------------------------------------------
(* The pipe implements Fifo. *)

\* The slots in use are within the page.
LEMMA SlotOk ==
    ASSUME TypeOK, NEW i \in Nat
    PROVE  Add(nread, i) % PIPESIZE \in 0 .. PIPESIZE - 1
<1>1. nread + i \in Nat  BY DEF TypeOK
<1>2. QED BY Zenon, <1>1, Sizes, SlotIs DEF Add

LEMMA QueueIs ==
    ASSUME IInv
    PROVE  /\ Queue \in Seq(Byte) /\ Len(Queue) = Count
           /\ Count \in 0 .. PIPESIZE
           /\ \A i \in 1 .. Count :
                 Queue[i] = data[Add(nread, i - 1) % PIPESIZE]
<1>1. Count \in Nat /\ Count \in 0 .. PIPESIZE
  BY CountIs, Sizes DEF IInv
<1>2. ASSUME NEW i \in 1 .. Count
      PROVE data[Add(nread, i - 1) % PIPESIZE] \in Byte
  <2>1. i - 1 \in Nat  BY <1>1
  <2>2. Add(nread, i - 1) % PIPESIZE \in 0 .. PIPESIZE - 1
    BY <2>1, SlotOk DEF IInv
  <2>3. QED BY <2>2 DEF IInv, TypeOK
<1>3. Queue \in [1 .. Count -> Byte]  BY <1>2 DEF Queue
<1>4. QED BY <1>1, <1>3 DEF Queue

LEMMA WriteRefines ==
    ASSUME IInv, NEW p \in Process, NEW c \in Byte, WriteByte(p, c)
    PROVE  Bytes!Put(c)
<1>1. Count < PIPESIZE /\ Count \in 0 .. Wrap - 1 /\ Count \in Nat
  <2>1. Count # PIPESIZE  BY FullEmpty DEF IInv, WriteByte
  <2>2. QED BY <2>1, CountIs, Sizes DEF IInv
<1>2. Count' = Count + 1  BY <1>1, CountUp DEF IInv, WriteByte
<1>3. /\ Add(nread, Count) = nwrite
      /\ nwrite % PIPESIZE \in 0 .. PIPESIZE - 1
  BY <1>1, CountIs, SlotOk DEF IInv, Add
<1>4. ASSUME NEW i \in 1 .. Count PROVE Queue'[i] = Queue[i]
  <2>1. /\ i - 1 \in Nat /\ i - 1 < Count /\ Count - (i - 1) < PIPESIZE
        /\ nread \in Nat
    BY <1>1, Sizes DEF IInv, TypeOK
  <2>2. Add(nread, i - 1) % PIPESIZE # Add(nread, Count) % PIPESIZE
    BY ZenonT(40), <1>1, <2>1, Sizes, SlotsApart DEF Add
  <2>3. Add(nread, i - 1) % PIPESIZE \in 0 .. PIPESIZE - 1
    BY <2>1, SlotOk DEF IInv
  <2>4. data'[Add(nread, i - 1) % PIPESIZE]
            = data[Add(nread, i - 1) % PIPESIZE]
    BY <1>3, <2>2, <2>3 DEF IInv, TypeOK, WriteByte
  <2>5. i \in 1 .. Count'  BY <1>1, <1>2
  <2>6. Queue'[i] = data'[Add(nread, i - 1) % PIPESIZE]
    BY <2>5 DEF Queue, WriteByte, Add
  <2>7. QED BY <2>4, <2>6, QueueIs
<1>5. Queue'[Count + 1] = c
  <2>1. Count + 1 \in 1 .. Count' /\ (Count + 1) - 1 = Count  BY <1>1, <1>2
  <2>2. Queue'[Count + 1] = data'[Add(nread, Count) % PIPESIZE]
    BY <2>1 DEF Queue, WriteByte, Add
  <2>3. data'[nwrite % PIPESIZE] = c
    BY <1>3 DEF IInv, TypeOK, WriteByte
  <2>4. QED BY <1>3, <2>2, <2>3
<1>6. Queue \in Seq(Byte) /\ Len(Queue) = Count  BY QueueIs
<1>7. Queue' \in Seq(Byte) /\ Len(Queue') = Count + 1
  <2>1. Queue' = [i \in 1 .. Count + 1 |-> Queue'[i]]
    BY <1>2 DEF Queue
  <2>2. \A i \in 1 .. Count + 1 : Queue'[i] \in Byte
    BY <1>1, <1>4, <1>5, QueueIs
  <2>3. Queue' \in [1 .. Count + 1 -> Byte] /\ Count + 1 \in Nat
    BY <1>1, <2>1, <2>2
  <2>4. QED BY <2>3
<1>8. Append(Queue, c) = Queue'
  <2>1. /\ Append(Queue, c) \in Seq(Byte)
        /\ Len(Append(Queue, c)) = Count + 1
        /\ \A i \in 1 .. Count : Append(Queue, c)[i] = Queue[i]
        /\ Append(Queue, c)[Count + 1] = c
    BY <1>6, AppendProperties
  <2>2. \A i \in 1 .. Count + 1 : Append(Queue, c)[i] = Queue'[i]
    BY <1>1, <1>4, <1>5, <2>1
  <2>3. QED BY <1>7, <2>1, <2>2, SeqEqual
<1>9. QED BY <1>1, <1>6, <1>8 DEF Bytes!Put

LEMMA ReadRefines ==
    ASSUME IInv, NEW p \in Process, NEW ok \in BOOLEAN, ReadByte(p, ok)
    PROVE  Bytes!Get
<1>1. Count \in 1 .. Wrap - 1
  <2>1. Count # 0  BY FullEmpty DEF IInv, ReadByte
  <2>2. Count \in 0 .. Wrap - 1  BY CountIs DEF IInv
  <2>3. QED BY <2>1, <2>2, Sizes
<1>2. Count' = Count - 1  BY <1>1, CountDown DEF IInv, ReadByte
<1>3. Queue \in Seq(Byte) /\ Len(Queue) = Count /\ Queue # <<>>
  BY <1>1, QueueIs
<1>4. ASSUME NEW i \in 1 .. Count - 1 PROVE Queue'[i] = Queue[i + 1]
  <2>1. PICK m \in 0 .. Wrap - 1 : m = i - 1 /\ m + 1 = (i + 1) - 1
    <3>1. i - 1 \in 0 .. Wrap - 1 /\ (i - 1) + 1 = (i + 1) - 1
      BY <1>1, Sizes
    <3>2. QED BY <3>1
  <2>2. (((nread + 1) % Wrap) + m) % Wrap = (nread + (m + 1)) % Wrap
    BY ZenonT(40), Sizes, AfterOne DEF IInv, TypeOK
  <2>3. Add(nread', i - 1) = Add(nread, (i + 1) - 1)
    BY <2>1, <2>2 DEF Add, ReadByte
  <2>4. Queue'[i] = data[Add(nread', i - 1) % PIPESIZE]
    BY <1>2 DEF Queue, ReadByte, Add
  <2>5. i + 1 \in 1 .. Count  BY <1>1
  <2>6. Queue[i + 1] = data[Add(nread, (i + 1) - 1) % PIPESIZE]
    BY <2>5, QueueIs
  <2>7. QED BY <2>3, <2>4, <2>6
<1>5. Queue' \in Seq(Byte) /\ Len(Queue') = Count - 1
  <2>1. Queue' = [i \in 1 .. Count - 1 |-> Queue'[i]]
    BY <1>2 DEF Queue
  <2>2. \A i \in 1 .. Count - 1 : Queue'[i] \in Byte
    <3>1. ASSUME NEW i \in 1 .. Count - 1 PROVE Queue'[i] \in Byte
      <4>1. i + 1 \in 1 .. Len(Queue)  BY <1>1, <1>3
      <4>2. Queue[i + 1] \in Byte  BY <1>3, <4>1
      <4>3. QED BY <1>4, <4>2
    <3>2. QED BY <3>1
  <2>3. Queue' \in [1 .. Count - 1 -> Byte] /\ Count - 1 \in Nat
    BY <1>1, <2>1, <2>2
  <2>4. QED BY <2>3
<1>6. Tail(Queue) = Queue'
  <2>1. /\ Tail(Queue) \in Seq(Byte) /\ Len(Tail(Queue)) = Count - 1
        /\ \A i \in 1 .. Count - 1 : Tail(Queue)[i] = Queue[i + 1]
    BY <1>3, HeadTailProperties
  <2>2. \A i \in 1 .. Count - 1 : Tail(Queue)[i] = Queue'[i]
    BY <1>4, <2>1
  <2>3. QED BY <1>5, <2>1, <2>2, SeqEqual
<1>7. QED BY <1>3, <1>6 DEF Bytes!Get

LEMMA NextRefines == ASSUME IInv, [Next]_vars PROVE [Bytes!Next]_Queue
<1>1. ASSUME UNCHANGED pipeVars PROVE UNCHANGED Queue
  BY <1>1, SameCounters
<1>2. ASSUME NEW p \in Process, NEW c \in Byte, WriteByte(p, c)
      PROVE [Bytes!Next]_Queue
  BY <1>2, WriteRefines DEF Bytes!Next
<1>3. ASSUME NEW p \in Process, NEW ok \in BOOLEAN, ReadByte(p, ok)
      PROVE [Bytes!Next]_Queue
  BY SMTT(30), <1>3, ReadRefines DEF Bytes!Next
<1>4. ASSUME NEW p \in Process,
             \/ Acquire(p) \/ WriteBroken(p) \/ WriteFull(p) \/ WriteDone(p)
             \/ ReadKilled(p) \/ ReadEmpty(p) \/ ReadStart(p) \/ ReadDone(p)
             \/ PipeClose(p) \/ Drop(p) \/ Kill(p)
             \/ \E n \in 0 .. MaxCount : WriteCall(p, n) \/ ReadCall(p, n)
      PROVE UNCHANGED pipeVars
  BY <1>4 DEF Acquire, WriteBroken, WriteFull, WriteDone, ReadKilled, ReadEmpty,
     ReadStart, ReadDone, PipeClose, Drop, Kill, WriteCall, ReadCall
<1>5. CASE UNCHANGED vars  BY <1>1, <1>5 DEF vars
<1>6. QED BY <1>1, <1>2, <1>3, <1>4, <1>5 DEF Next, Step

\* The bytes of a pipe come out once each and in the order in which they went
\* in, at most PIPESIZE of them are in it, and nobody who is killed, who fails
\* to copy or who closes loses or repeats one.
THEOREM Refinement == Spec => ImplementsFifo
<1>1. Init => Bytes!Init
  <2> SUFFICES ASSUME Init PROVE Queue = <<>>  BY DEF Bytes!Init
  <2>1. Empty /\ IInv  BY InitIInv DEF Init, Empty
  <2>2. Count = 0  BY <2>1, FullEmpty DEF IInv
  <2>3. Queue \in Seq(Byte) /\ Len(Queue) = 0  BY <2>1, <2>2, QueueIs
  <2>4. QED BY <2>3, EmptySeq
<1>2. IInv /\ [Next]_vars => [Bytes!Next]_Queue  BY NextRefines
<1>3. QED
  BY <1>1, <1>2, InductiveInvariant, PTL DEF Spec, ImplementsFifo, Bytes!Spec
=============================================================================
