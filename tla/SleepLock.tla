----------------------------- MODULE SleepLock ------------------------------
(***************************************************************************)
(* The sleep-lock of kernel/sleeplock.c on top of sleep() and wakeup().    *)
(* Every process acquires and releases the same lock again and again, in   *)
(* the middle of preemptions and of kill() calls by the others.            *)
(***************************************************************************)
EXTENDS Sched

CONSTANT MaxKills   \* bound on the number of kill() victims explored

VARIABLES
    locked, \* lk->locked
    pid     \* lk->pid: the process that set it

lockVars == <<locked, pid>>
vars     == <<schedVars, lockVars>>

Cond == CHOOSE l \in CondLock : TRUE    \* lk->lk

Init ==
    /\ state = [p \in Slot |-> "RUNNABLE"]
    /\ chan = [p \in Slot |-> 0]
    /\ killed = [p \in Slot |-> 0]
    /\ plock = [p \in Slot |-> 0]
    /\ lk = [l \in CondLock |-> 0]
    /\ run = {}
    /\ pc = [p \in Slot |-> "off"]
    /\ resume = [p \in Slot |-> "out"]
    /\ call = [p \in Slot |-> NoCall]
    /\ visit = [p \in Slot |-> 1]
    /\ locked = 0
    /\ pid = 0

\* acquire(&lk->lk) in acquiresleep()
Acquire(p) ==
    /\ pc[p] = "out" /\ lk[Cond] = 0
    /\ lk' = [lk EXCEPT ![Cond] = p]
    /\ Goto(p, "test")
    /\ UNCHANGED <<state, chan, killed, plock, swtchVars, callVars, lockVars>>

\* Where acquiresleep() continues after sleep(): back at the loop's test.
AfterSleepTakesIt == "take"
AfterSleep == "test"

Take(p) ==
    /\ \/ pc[p] = "test" /\ locked = 0
       \/ pc[p] = "take"
    /\ locked' = 1
    /\ pid' = p
    /\ lk' = [lk EXCEPT ![Cond] = 0]
    /\ Goto(p, "hold")
    /\ UNCHANGED <<state, chan, killed, plock, swtchVars, callVars>>

Wait(p) ==
    /\ pc[p] = "test" /\ locked = 1
    /\ CallSleep(p, Cond, Cond, AfterSleep)
    /\ UNCHANGED <<state, chan, killed, plock, lk, swtchVars, visit, lockVars>>

\* releasesleep(), up to the call of wakeup()
Release(p) ==
    /\ pc[p] = "hold" /\ lk[Cond] = 0
    /\ lk' = [lk EXCEPT ![Cond] = p]
    /\ locked' = 0
    /\ pid' = 0
    /\ CallWakeup(p, Cond, "released")
    /\ UNCHANGED <<state, chan, killed, plock, swtchVars, visit>>

Released(p) ==
    /\ pc[p] = "released"
    /\ lk' = [lk EXCEPT ![Cond] = 0]
    /\ Goto(p, "out")
    /\ UNCHANGED <<state, chan, killed, plock, swtchVars, callVars, lockVars>>

\* kill() by a process that is in neither call.
Kill(p, i) ==
    /\ pc[p] \in {"out", "hold"} /\ killed[i] = 0
    /\ Cardinality({j \in Slot : killed[j] = 1}) < MaxKills
    /\ KillSlot(i)
    /\ UNCHANGED <<chan, plock, lk, pc, swtchVars, callVars, lockVars>>

Step(p) == Take(p) \/ Wait(p) \/ Release(p) \/ Released(p)

Next ==
    \E p \in Slot :
        \/ SchedStep(p) /\ UNCHANGED lockVars
        \/ Acquire(p)
        \/ Step(p)
        \/ \E i \in Slot : Kill(p, i)

Spec == Init /\ [][Next]_vars

-----------------------------------------------------------------------------
\* The processes between acquiresleep() and releasesleep(), also while they
\* are preempted.
Holder ==
    {p \in Slot : \/ pc[p] = "hold"
                  \/ pc[p] \in {"off", "back", "sched"} /\ resume[p] = "hold"}

Lock == INSTANCE Mutex WITH Client <- SUBSET Slot, Nobody <- {},
                            owner <- Holder

\* sleeplock.c:21-41: however processes interleave, and although kill() may
\* end a sleep() at any time, the lock has one owner at a time.
ImplementsMutex == Lock!Spec

\* proc.c:533-547 and sleeplock.c:37-40: no wakeup is lost.  While a process
\* sleeps for the lock, the lock is taken, or the process that gave it up is
\* in the middle of wakeup() and has not yet passed the sleeper.
SleeperHasWaker ==
    \A p \in Slot :
        pc[p] = "off" /\ state[p] = "SLEEPING" /\ locked = 0 =>
            \E q \in Slot \ {p} : pc[q] = "wakeup" /\ visit[q] <= p
=============================================================================
