--------------------------- MODULE SpinlockProofs ---------------------------
(***************************************************************************)
(* acquire() and release() keep interrupts off around every lock and put   *)
(* them back afterwards, on any number of CPUs and for any locks; and on   *)
(* one CPU they exclude, plain loads and stores or not.                    *)
(***************************************************************************)
EXTENDS Spinlock, TLAPS, FiniteSetTheorems

USE SpinlockAssumption DEF Context, lockVars, cpuVars, codeVars, At, Goto, Arg

-----------------------------------------------------------------------------
(* The depth of push_off() calls and the interrupt state. *)

\* One lock fewer.
LEMMA RemoveOne ==
    ASSUME NEW S, IsFiniteSet(S), NEW l \in S
    PROVE  IsFiniteSet(S \ {l}) /\ Cardinality(S) = Cardinality(S \ {l}) + 1
<1>1. IsFiniteSet(S \ {l})  BY FS_RemoveElement
<1>2. Cardinality(S \ {l}) = Cardinality(S) - 1  BY FS_RemoveElement
<1>3. Cardinality(S) \in Nat  BY FS_CardinalityType
<1>4. QED BY <1>1, <1>2, <1>3

\* The number of locks that a context holds.
LEMMA HeldSize ==
    ASSUME IInv, NEW c \in CPU, NEW x \in Context
    PROVE  /\ IsFiniteSet(held[c][x]) /\ Cardinality(held[c][x]) \in Nat
           /\ Cardinality(held[c][x]) = 0 <=> held[c][x] = {}
<1>1. IsFiniteSet(held[c][x])  BY DEF IInv, DepthInv
<1>2. QED BY <1>1, FS_CardinalityType, FS_EmptySet

\* What the running context of a CPU has to do with c->noff.
LEMMA RunningDepth ==
    ASSUME IInv, NEW c \in CPU
    PROVE  /\ ctx[c] \in Context /\ noff[c] \in Nat
           /\ pc[c][ctx[c]] \in {"run", "push"} =>
                  noff[c] = Cardinality(held[c][ctx[c]])
           /\ pc[c][ctx[c]] \in Inside =>
                  noff[c] = Cardinality(held[c][ctx[c]]) + 1
<1>1. ctx[c] \in Context /\ noff[c] \in Nat  BY DEF IInv, TypeOK
<1>2. Cardinality(held[c][ctx[c]]) \in Nat  BY <1>1, HeldSize
<1>3. QED BY <1>1, <1>2 DEF IInv, DepthInv, Inside

LEMMA InitIInv == ASSUME Init PROVE IInv
BY FS_EmptySet DEF Init, IInv, TypeOK, DepthInv, ArgInv, IntrInv, Inside

LEMMA PushReadIInv ==
    ASSUME NEW c \in CPU, NEW l \in Lock, IInv, PushRead(c, l) PROVE IInv'
<1> USE DEF IInv, TypeOK, PushRead, Inside
<1>1. TypeOK'  OBVIOUS
<1>2. DepthInv'  BY DEF DepthInv
<1>3. ArgInv'  BY DEF ArgInv
<1>4. IntrInv'  BY DEF IntrInv, DepthInv
<1>5. QED BY <1>1, <1>2, <1>3, <1>4

LEMMA PushOffIInv == ASSUME NEW c \in CPU, IInv, PushOff(c) PROVE IInv'
<1> USE DEF IInv, TypeOK, PushOff, Inside
<1>1. TypeOK'  BY DEF IntrOff, Intena
<1>2. DepthInv'
  <2>1. noff[c] = Cardinality(held[c][ctx[c]]) /\ noff'[c] = noff[c] + 1
    BY RunningDepth
  <2>2. QED BY <2>1 DEF DepthInv
<1>3. ArgInv'  BY DEF ArgInv
<1>4. IntrInv'  BY DEF IntrInv, DepthInv, IntrOff, Intena
<1>5. QED BY <1>1, <1>2, <1>3, <1>4

LEMMA LoadIInv == ASSUME NEW c \in CPU, IInv, Load(c) PROVE IInv'
<1> USE DEF IInv, TypeOK, Load, Inside
<1>1. TypeOK'  OBVIOUS
<1>2. DepthInv'  BY DEF DepthInv
<1>3. ArgInv'  BY DEF ArgInv
<1>4. IntrInv'  BY DEF IntrInv, DepthInv
<1>5. QED BY <1>1, <1>2, <1>3, <1>4

LEMMA StoreIInv == ASSUME NEW c \in CPU, IInv, Store(c) PROVE IInv'
<1> USE DEF IInv, TypeOK, Store, Inside
<1>1. PICK l \in {"own", "load"} : pc' = [pc EXCEPT ![c][ctx[c]] = l]
  BY Zenon
<1>2. TypeOK'  BY <1>1
<1>3. DepthInv'  BY <1>1 DEF DepthInv
<1>4. ArgInv'  BY <1>1 DEF ArgInv
<1>5. IntrInv'  BY <1>1 DEF IntrInv, DepthInv
<1>6. QED BY <1>2, <1>3, <1>4, <1>5

LEMMA OwnIInv == ASSUME NEW c \in CPU, IInv, Own(c) PROVE IInv'
<1> USE DEF IInv, TypeOK, Own, Inside
<1>1. TypeOK'  BY DEF Owner
<1>2. DepthInv'
  <2> DEFINE S == held[c][ctx[c]]
  <2>1. IsFiniteSet(S) /\ noff[c] = Cardinality(S) + 1 /\ Arg(c) \notin S
    BY Zenon, RunningDepth, HeldSize DEF ArgInv
  <2>2. /\ IsFiniteSet(S \cup {Arg(c)})
        /\ noff[c] = Cardinality(S \cup {Arg(c)})
    BY Zenon, <2>1, FS_AddElement
  <2>3. QED BY <2>2 DEF DepthInv
<1>3. ArgInv'  BY DEF ArgInv
<1>4. IntrInv'  BY DEF IntrInv, DepthInv
<1>5. QED BY <1>1, <1>2, <1>3, <1>4

LEMMA ReleaseIInv ==
    ASSUME NEW c \in CPU, NEW l \in Lock, IInv, Release(c, l) PROVE IInv'
<1> USE DEF IInv, TypeOK, Inside
<1>1. CASE Holding(c, l)
  <2> DEFINE x == ctx[c]
             S == held[c][x]
  <2>1. /\ cpu' = [cpu EXCEPT ![l] = Nobody]
        /\ pc' = [pc EXCEPT ![c][x] = "unlock"]
        /\ lk' = [lk EXCEPT ![c][x] = l]
        /\ held' = [held EXCEPT ![c][x] = @ \ {l}]
        /\ UNCHANGED <<locked, intr, noff, intena, was, ctx, old, panicked>>
        /\ pc[c][x] = "run" /\ l \in S
    BY <1>1 DEF Release
  <2>2. TypeOK'  BY <2>1
  <2>3. DepthInv'
    <3>1. IsFiniteSet(S) /\ noff[c] = Cardinality(S)
      BY ZenonT(40), <2>1, RunningDepth, HeldSize
    <3>2. IsFiniteSet(S \ {l}) /\ noff[c] = Cardinality(S \ {l}) + 1
      BY SMTT(30), <2>1, <3>1, RemoveOne
    <3>3. QED BY <2>1, <3>2 DEF DepthInv
  <2>4. ArgInv'  BY <2>1 DEF ArgInv
  <2>5. IntrInv'  BY <2>1 DEF IntrInv, DepthInv
  <2>6. QED BY <2>2, <2>3, <2>4, <2>5
<1>2. CASE ~Holding(c, l)
  BY <1>2 DEF Release, DepthInv, ArgInv, IntrInv
<1>3. QED BY <1>1, <1>2

LEMMA UnlockIInv == ASSUME NEW c \in CPU, IInv, Unlock(c) PROVE IInv'
<1> USE DEF IInv, TypeOK, Unlock, Inside
<1>1. TypeOK'  BY DEF Unlocked
<1>2. DepthInv'  BY DEF DepthInv
<1>3. ArgInv'  BY DEF ArgInv
<1>4. IntrInv'  BY DEF IntrInv, DepthInv
<1>5. QED BY <1>1, <1>2, <1>3, <1>4

\* pop_off() finds interrupts off and c->noff above 0.
LEMMA PopOffChecks ==
    ASSUME NEW c \in CPU, IInv, At(c, "pop")
    PROVE  /\ noff[c] = Cardinality(held[c][ctx[c]]) + 1
           /\ Cardinality(held[c][ctx[c]]) \in Nat /\ intr[c] = 0
<1>1. noff[c] = Cardinality(held[c][ctx[c]]) + 1  BY RunningDepth DEF Inside
<1>2. Cardinality(held[c][ctx[c]]) \in Nat  BY RunningDepth, HeldSize
<1>3. QED BY <1>1, <1>2 DEF IInv, IntrInv

LEMMA PopOffIInv == ASSUME NEW c \in CPU, IInv, PopOff(c) PROVE IInv'
<1> USE DEF IInv, TypeOK, PopOff, Inside
<1>1. /\ noff[c] = Cardinality(held[c][ctx[c]]) + 1
      /\ Cardinality(held[c][ctx[c]]) \in Nat /\ intr[c] = 0
  BY Zenon, PopOffChecks
<1>2. /\ noff' = [noff EXCEPT ![c] = noff[c] - 1]
      /\ Goto(c, "run") /\ UNCHANGED panicked
      /\ intr' = [intr EXCEPT ![c] =
                      IF noff[c] = 1 /\ intena[c] = 1 THEN 1 ELSE @]
  BY <1>1 DEF Noff
<1>3. TypeOK'  BY <1>1, <1>2
<1>4. DepthInv'
  <2>1. noff'[c] = Cardinality(held[c][ctx[c]])  BY <1>1, <1>2
  <2>2. QED BY <1>2, <2>1 DEF DepthInv
<1>5. ArgInv'  BY <1>2 DEF ArgInv
<1>6. IntrInv'  BY <1>1, <1>2 DEF IntrInv, DepthInv
<1>7. QED BY <1>3, <1>4, <1>5, <1>6

LEMMA SetIntrIInv ==
    ASSUME NEW c \in CPU, NEW v \in {0, 1}, IInv, SetIntr(c, v) PROVE IInv'
<1> USE DEF IInv, TypeOK, SetIntr
<1>1. TypeOK'  OBVIOUS
<1>2. DepthInv' /\ ArgInv'  BY DEF DepthInv, ArgInv
<1>3. IntrInv'  BY DEF IntrInv, DepthInv
<1>4. QED BY <1>1, <1>2, <1>3

\* An interrupt is taken by a thread, and returned to, when neither context
\* holds a lock.
LEMMA InterruptIdle ==
    ASSUME NEW c \in CPU, IInv, Interrupt(c) \/ Return(c)
    PROVE  /\ noff[c] = 0 /\ held[c]["thread"] = {} /\ held[c]["handler"] = {}
           /\ pc[c]["thread"] \in {"run", "push"} /\ pc[c]["handler"] = "run"
<1> USE DEF IInv
<1>1. CASE Interrupt(c)
  <2>1. intr[c] = 1 /\ ctx[c] = "thread"  BY <1>1 DEF Interrupt
  <2>2. noff[c] = 0  BY <2>1, RunningDepth DEF IntrInv
  <2>3. Cardinality(held[c]["thread"]) \in Nat  BY HeldSize
  <2>4. pc[c]["thread"] \in {"run", "push"} \cup Inside  BY DEF TypeOK, Inside
  <2>5. pc[c]["thread"] \in {"run", "push"}
    BY <2>1, <2>2, <2>3, <2>4, RunningDepth
  <2>6. held[c]["thread"] = {}  BY <2>1, <2>2, <2>5, RunningDepth, HeldSize
  <2>7. QED BY <2>1, <2>2, <2>5, <2>6 DEF DepthInv
<1>2. CASE Return(c)
  <2>1. ctx[c] = "handler" /\ pc[c]["handler"] = "run"
        /\ held[c]["handler"] = {}
    BY <1>2 DEF Return
  <2>2. noff[c] = 0  BY <2>1, RunningDepth, HeldSize
  <2>3. QED BY <2>1, <2>2 DEF DepthInv
<1>3. QED BY <1>1, <1>2

LEMMA InterruptIInv == ASSUME NEW c \in CPU, IInv, Interrupt(c) PROVE IInv'
<1> USE DEF IInv, TypeOK, Interrupt
<1>1. /\ noff[c] = 0 /\ held[c]["thread"] = {} /\ held[c]["handler"] = {}
      /\ pc[c]["thread"] \in {"run", "push"} /\ pc[c]["handler"] = "run"
  BY Zenon, InterruptIdle
<1>2. TypeOK'  OBVIOUS
<1>3. DepthInv'
  <2>1. Cardinality(held'[c]["handler"]) = 0  BY <1>1, FS_EmptySet
  <2>2. \A d \in CPU \ {c} : UNCHANGED <<held[d], noff[d], ctx[d], pc[d]>>
    OBVIOUS
  <2>3. ctx'[c] = "handler" /\ UNCHANGED <<held, noff, pc>>  OBVIOUS
  <2> HIDE DEF Interrupt, Return, TypeOK
  <2>4. QED BY <1>1, <2>1, <2>2, <2>3 DEF DepthInv, Inside
<1>4. ArgInv'  BY DEF ArgInv
<1>5. IntrInv'  BY <1>1 DEF IntrInv
<1>6. QED BY <1>2, <1>3, <1>4, <1>5

LEMMA ReturnIInv == ASSUME NEW c \in CPU, IInv, Return(c) PROVE IInv'
<1> USE DEF IInv, TypeOK, Return
<1>1. /\ noff[c] = 0 /\ held[c]["thread"] = {} /\ held[c]["handler"] = {}
      /\ pc[c]["thread"] \in {"run", "push"} /\ pc[c]["handler"] = "run"
  BY Zenon, InterruptIdle
<1>2. TypeOK'  OBVIOUS
<1>3. DepthInv'
  <2>1. Cardinality(held'[c]["thread"]) = 0  BY <1>1, FS_EmptySet
  <2>2. \A d \in CPU \ {c} : UNCHANGED <<held[d], noff[d], ctx[d], pc[d]>>
    OBVIOUS
  <2>3. ctx'[c] = "thread" /\ UNCHANGED <<held, noff, pc>>  OBVIOUS
  <2> HIDE DEF Interrupt, Return, TypeOK
  <2>4. QED BY <1>1, <2>1, <2>2, <2>3 DEF DepthInv, Inside
<1>4. ArgInv'  BY DEF ArgInv
<1>5. IntrInv'  BY <1>1 DEF IntrInv
<1>6. QED BY <1>2, <1>3, <1>4, <1>5

LEMMA NextIInv == ASSUME IInv, [Next]_vars PROVE IInv'
<1>1. CASE Next
  BY SMTT(30), <1>1, PushReadIInv, PushOffIInv, LoadIInv, StoreIInv, OwnIInv, ReleaseIInv,
     UnlockIInv, PopOffIInv, SetIntrIInv, InterruptIInv, ReturnIInv
  DEF Next, AcquireStep, ReleaseStep
<1>2. CASE UNCHANGED vars
  BY <1>2 DEF vars, IInv, TypeOK, DepthInv, ArgInv, IntrInv
<1>3. QED BY <1>1, <1>2

\* IInv holds in every reachable state, on any number of CPUs.
THEOREM InductiveInvariant == Spec => []IInv
BY InitIInv, NextIInv, PTL DEF Spec

\* Interrupts are off on a CPU from its first acquire() to its last release(),
\* and a thread then finds them as they were, on any number of CPUs.
THEOREM InterruptsRestored == Spec => []IntrRestored
<1>1. IInv => IntrRestored  BY DEF IInv, IntrInv, IntrRestored
<1>2. QED BY <1>1, InductiveInvariant, PTL

-----------------------------------------------------------------------------
(* One CPU. *)

LEMMA OneCPULockInv ==
    ASSUME \A c, d \in CPU : c = d, IInv, LockInv, [Next]_vars PROVE LockInv'
<1> USE DEF IInv, TypeOK, LockInv
<1>1. ASSUME NEW c \in CPU, NEW l \in Lock, PushRead(c, l) PROVE LockInv'
  BY <1>1 DEF PushRead
<1>2. ASSUME NEW c \in CPU, PushOff(c) PROVE LockInv'
  BY <1>2 DEF PushOff, Holding, ArgInv
<1>3. ASSUME NEW c \in CPU, Load(c) PROVE LockInv'
  BY SMTT(30), <1>3 DEF Load, ArgInv
<1>4. ASSUME NEW c \in CPU, Store(c) PROVE LockInv'
  BY <1>4 DEF Store
<1>5. ASSUME NEW c \in CPU, Own(c) PROVE LockInv'
  BY <1>5 DEF Own, Owner
<1>6. ASSUME NEW c \in CPU, NEW l \in Lock, Release(c, l) PROVE LockInv'
  BY <1>6 DEF Release, Holding
<1>7. ASSUME NEW c \in CPU, Unlock(c) PROVE LockInv'
  BY SMTT(30), <1>7 DEF Unlock, Unlocked, ArgInv
<1>8. ASSUME NEW c \in CPU, PopOff(c) PROVE LockInv'
  <2>1. noff[c] >= 1 /\ intr[c] = 0
    BY <1>8, PopOffChecks DEF PopOff
  <2>2. QED BY <1>8, <2>1 DEF PopOff
<1>9. ASSUME NEW c \in CPU, NEW v \in {0, 1}, SetIntr(c, v) PROVE LockInv'
  BY SMTT(30), <1>9 DEF SetIntr
<1>10. ASSUME NEW c \in CPU, Interrupt(c) \/ Return(c) PROVE LockInv'
  <2>1. /\ held[c]["thread"] = {} /\ held[c]["handler"] = {}
        /\ pc[c]["thread"] \in {"run", "push"} /\ pc[c]["handler"] = "run"
    BY <1>10, InterruptIdle
  <2>2. CASE Interrupt(c)  BY <2>1, <2>2 DEF Interrupt
  <2>3. CASE Return(c)  BY <2>1, <2>3 DEF Return
  <2>4. QED BY SMTT(30), <1>10, <2>2, <2>3
<1>11. CASE UNCHANGED vars  BY <1>11 DEF vars
<1> HIDE DEF IInv, TypeOK, LockInv
<1>12. QED
  BY <1>1, <1>2, <1>3, <1>4, <1>5, <1>6, <1>7, <1>8, <1>9, <1>10, <1>11
  DEF Next, AcquireStep, ReleaseStep

\* On one CPU no assertion of acquire(), release() or pop_off() fails, whenever
\* interrupts come in.
THEOREM OneCPUNoPanic == ASSUME \A c, d \in CPU : c = d PROVE Spec => []NoPanic
<1>1. Init => LockInv  BY DEF Init, LockInv
<1>2. IInv /\ LockInv /\ [Next]_vars => LockInv'  BY OneCPULockInv
<1>3. LockInv => NoPanic  BY DEF LockInv, NoPanic
<1>4. QED BY <1>1, <1>2, <1>3, InductiveInvariant, PTL DEF Spec

\* On one CPU a lock has one holder, the thread or the handler above it, though
\* test_and_set() is a load and then a store.
THEOREM OneCPUExclusion ==
    ASSUME \A c, d \in CPU : c = d PROVE Spec => []MutualExclusion
<1>1. IInv => MutualExclusion
  BY DEF IInv, TypeOK, DepthInv, MutualExclusion
<1>2. QED BY <1>1, InductiveInvariant, PTL
=============================================================================
