------------------------------- MODULE Sched --------------------------------
(***************************************************************************)
(* Processes on CPUs: scheduler(), sched(), yield(), sleep(), wakeup() and *)
(* kill() of kernel/proc.c, one action per acquisition of a spin-lock.     *)
(* The module is extended by the models of its callers (SleepLock, Proc),  *)
(* which add the steps that lead to sleep() and wakeup().                  *)
(*                                                                         *)
(* A spin-lock is its owner, or 0; acquire() is one step.  Spin-locks turn *)
(* interrupts off, so a process that owns one is not preempted.            *)
(***************************************************************************)
EXTENDS Naturals, FiniteSets

CONSTANTS
    NPROC,   \* slots of the process table
    NCPU,    \* number of CPUs
    CondLock \* the spin-locks that callers pass to sleep()

ASSUME CountAssumption == NPROC \in Nat \ {0} /\ NCPU \in Nat \ {0}

Slot == 1 .. NPROC

VARIABLES
    state,  \* p->state
    chan,   \* p->chan, 0 when the process does not sleep
    killed, \* p->killed
    plock,  \* p->lock: its owner
    lk,     \* owner of each condition lock
    run,    \* the processes that occupy a CPU
    pc,     \* where the kernel thread of each process is
    resume, \* where it continues after it has been switched back in
    call,   \* arguments and return label of the sleep() or wakeup() under way
    visit   \* index of the loop over the process table, 1 outside of loops

swtchVars == <<run, resume>>
callVars  == <<call, visit>>
schedVars == <<state, chan, killed, plock, lk, pc, swtchVars, callVars>>

procstate == {"UNUSED", "USED", "SLEEPING", "RUNNABLE", "RUNNING", "ZOMBIE"}

Goto(p, l) == pc' = [pc EXCEPT ![p] = l]

NoLockCounts(p) == FALSE
HoldsLock(p) == (\E l \in CondLock : lk[l] = p) \/ \E q \in Slot : plock[q] = p

\* Some CPU accepts an interrupt: it is idle, or its process owns no lock.
InterruptsOn == Cardinality({p \in run : HoldsLock(p)}) < NCPU

\* The effect of wakeup(c) on process i, and that of kill() on its victim.
Awake(s, i) ==
    [s EXCEPT ![i] = IF @ = "SLEEPING" THEN "RUNNABLE" ELSE @]

Wakes(s, i, c) == IF chan[i] = c THEN Awake(s, i) ELSE s

-----------------------------------------------------------------------------
\* No call of sleep() or wakeup() is under way.
NoCall == [chan |-> 0, lock |-> "none", ret |-> "none"]

\* The caller of sleep(c, l), or of wakeup(c), continues at the label r.
CallSleep(p, c, l, r) ==
    /\ Goto(p, "sleep")
    /\ call' = [call EXCEPT ![p] = [chan |-> c, lock |-> l, ret |-> r]]

CallWakeup(p, c, r) ==
    /\ Goto(p, "wakeup")
    /\ call' = [call EXCEPT ![p] = [chan |-> c, lock |-> "none", ret |-> r]]

-----------------------------------------------------------------------------
(* sleep() *)

SleepLockSelf(p) ==
    /\ pc[p] = "sleep" /\ plock[p] = 0
    /\ plock' = [plock EXCEPT ![p] = p]
    /\ Goto(p, "sleep2")
    /\ UNCHANGED <<state, chan, killed, lk, swtchVars, callVars>>

SleepSwitch(p) ==
    /\ pc[p] = "sleep2"
    /\ lk' = [lk EXCEPT ![call[p].lock] = 0]
    /\ chan' = [chan EXCEPT ![p] = call[p].chan]
    /\ state' = [state EXCEPT ![p] = "SLEEPING"]
    /\ resume' = [resume EXCEPT ![p] = "relock"]
    /\ Goto(p, "sched")
    /\ UNCHANGED <<killed, plock, run, callVars>>

\* A sleep() that gave up the condition lock before it took p->lock.
SleepUnlocksFirst(p) ==
    \/ /\ pc[p] = "sleep"
       /\ lk' = [lk EXCEPT ![call[p].lock] = 0]
       /\ Goto(p, "sleep2")
       /\ UNCHANGED <<state, chan, killed, plock, swtchVars, callVars>>
    \/ /\ pc[p] = "sleep2" /\ plock[p] = 0
       /\ plock' = [plock EXCEPT ![p] = p]
       /\ chan' = [chan EXCEPT ![p] = call[p].chan]
       /\ state' = [state EXCEPT ![p] = "SLEEPING"]
       /\ resume' = [resume EXCEPT ![p] = "relock"]
       /\ Goto(p, "sched")
       /\ UNCHANGED <<killed, lk, run, callVars>>

Sleep(p) == SleepLockSelf(p) \/ SleepSwitch(p)

Relock(p) ==
    /\ pc[p] = "relock" /\ lk[call[p].lock] = 0
    /\ lk' = [lk EXCEPT ![call[p].lock] = p]
    /\ Goto(p, call[p].ret)
    /\ call' = [call EXCEPT ![p] = NoCall]
    /\ UNCHANGED <<state, chan, killed, plock, swtchVars, visit>>

-----------------------------------------------------------------------------
(* wakeup(): one turn of the loop; the caller itself is skipped. *)

Wakeup(p) ==
    /\ pc[p] = "wakeup"
    /\ LET i == visit[p]
           last == i = NPROC
       IN /\ i = p \/ plock[i] = 0
          /\ state' = IF i = p THEN state ELSE Wakes(state, i, call[p].chan)
          /\ visit' = [visit EXCEPT ![p] = IF last THEN 1 ELSE i + 1]
          /\ Goto(p, IF last THEN call[p].ret ELSE "wakeup")
          /\ call' = IF last THEN [call EXCEPT ![p] = NoCall] ELSE call
    /\ UNCHANGED <<chan, killed, plock, lk, swtchVars>>

\* kill() on the process in slot i.
KillSlotAsleep(i) ==
    /\ plock[i] = 0
    /\ killed' = [killed EXCEPT ![i] = 1]
    /\ UNCHANGED state
KillSlot(i) ==
    /\ plock[i] = 0
    /\ killed' = [killed EXCEPT ![i] = 1]
    /\ state' = Awake(state, i)

-----------------------------------------------------------------------------
(* Switching. *)

\* The process in sched() leaves the CPU, and scheduler() drops its lock.
SwitchOut(p) ==
    /\ pc[p] = "sched"
    /\ plock' = [plock EXCEPT ![p] = 0]
    /\ run' = run \ {p}
    /\ Goto(p, "off")
    /\ UNCHANGED <<state, chan, killed, lk, resume, callVars>>

\* scheduler() picks p and switches to it with p->lock held.
Dispatch(p) ==
    /\ Cardinality(run) < NCPU
    /\ state[p] = "RUNNABLE" /\ plock[p] = 0
    /\ state' = [state EXCEPT ![p] = "RUNNING"]
    /\ plock' = [plock EXCEPT ![p] = p]
    /\ run' = run \cup {p}
    /\ Goto(p, "back")
    /\ UNCHANGED <<chan, killed, lk, resume, callVars>>

\* Back from sched() in sleep() or yield(), or in forkret().
Back(p) ==
    /\ pc[p] = "back"
    /\ chan' = [chan EXCEPT ![p] = 0]
    /\ plock' = [plock EXCEPT ![p] = 0]
    /\ Goto(p, resume[p])
    /\ resume' = [resume EXCEPT ![p] = "none"]
    /\ UNCHANGED <<state, killed, lk, run, callVars>>

\* A timer interrupt makes the process yield(), from usertrap() or
\* kerneltrap().
Yield(p) ==
    /\ state[p] = "RUNNING" /\ ~HoldsLock(p) /\ plock[p] = 0
    /\ plock' = [plock EXCEPT ![p] = p]
    /\ state' = [state EXCEPT ![p] = "RUNNABLE"]
    /\ resume' = [resume EXCEPT ![p] = pc[p]]
    /\ Goto(p, "sched")
    /\ UNCHANGED <<chan, killed, lk, run, callVars>>

SchedStep(p) ==
    \/ Sleep(p) \/ Relock(p) \/ Wakeup(p)
    \/ SwitchOut(p) \/ Dispatch(p) \/ Back(p) \/ Yield(p)

-----------------------------------------------------------------------------
(* Facts that every client relies on. *)

\* proc.c:480-487 and 450-457: sched() is entered with p->lock and no other
\* lock, after the state has changed; and a process that occupies no CPU is
\* off its stack: its lock is not its own, so a CPU may take it up.
SwitchSafe ==
    /\ \A p \in Slot : pc[p] = "sched" =>
          /\ plock[p] = p /\ state[p] # "RUNNING"
          /\ \A l \in CondLock : lk[l] # p
          /\ \A q \in Slot \ {p} : plock[q] # p
    /\ \A p \in Slot : p \notin run => ~HoldsLock(p) /\ pc[p] = "off"
    /\ Cardinality(run) <= NCPU

=============================================================================
