-------------------------------- MODULE Proc --------------------------------
(***************************************************************************)
(* The life of processes: fork(), exit(), wait(), kill() and sys_sleep()   *)
(* of kernel/proc.c and kernel/sysproc.c, with the clock interrupt and the *)
(* checks of p->killed in kernel/trap.c, on top of Sched.                  *)
(*                                                                         *)
(* Slot 1 is initproc.  A process is in user code at the label "user" and  *)
(* makes any call from there.  Memory, files and the exit status are left  *)
(* out, except that an allocation in fork() may fail.                      *)
(***************************************************************************)
EXTENDS Sched

CONSTANTS
    MaxPid,  \* bound on the pids handed out
    KillPids \* pids that user programs pass to kill()

init == 1

WaitLock  == "wait_lock"
TicksLock == "tickslock"
ticks     == NPROC + 1      \* the channel &ticks; p is the channel of wait()

ASSUME LockAssumption == CondLock = {WaitLock, TicksLock}

VARIABLES
    pid,      \* p->pid, 0 in a free slot
    nextpid,
    parent,   \* p->parent, 0 when there is none
    np,       \* the slot that the fork() under way has allocated
    left,     \* ticks that the sys_sleep() under way still has to wait
    condemned \* pids that were killed, by kill() or by a fault

treeVars == <<pid, nextpid, parent, np>>
vars     == <<schedVars, treeVars, left, condemned>>

Init ==
    /\ state = [p \in Slot |-> IF p = init THEN "RUNNABLE" ELSE "UNUSED"]
    /\ chan = [p \in Slot |-> 0]
    /\ killed = [p \in Slot |-> 0]
    /\ plock = [p \in Slot |-> 0]
    /\ lk = [l \in CondLock |-> 0]
    /\ run = {}
    /\ pc = [p \in Slot |-> "off"]
    /\ resume = [p \in Slot |-> IF p = init THEN "user" ELSE "none"]
    /\ call = [p \in Slot |-> NoCall]
    /\ visit = [p \in Slot |-> 1]
    /\ pid = [p \in Slot |-> IF p = init THEN 1 ELSE 0]
    /\ nextpid = 2
    /\ parent = [p \in Slot |-> 0]
    /\ np = [p \in Slot |-> 0]
    /\ left = [p \in Slot |-> 0]
    /\ condemned = {}

\* allocpid()
AllocPid == nextpid + 1

\* ticks - ticks0 in sys_sleep(), seen as the ticks left to wait.
Tick(n) == IF n > 0 THEN n - 1 ELSE 0

\* usertrap(): a killed process gets no further than the next trap.
MayCall(p) == pc[p] = "user" /\ killed[p] = 0

Lowest(S) == CHOOSE i \in S : \A j \in S : i <= j

-----------------------------------------------------------------------------
(* fork() *)

\* freeproc(): the whole slot is reset.
FreeProc(i) ==
    /\ state' = [state EXCEPT ![i] = "UNUSED"]
    /\ pid' = [pid EXCEPT ![i] = 0]
    /\ parent' = [parent EXCEPT ![i] = 0]
    /\ chan' = [chan EXCEPT ![i] = 0]
    /\ killed' = [killed EXCEPT ![i] = 0]

\* allocproc() and the copy of the parent, under np->lock.
ForkAlloc(p, i) ==
    /\ MayCall(p) /\ nextpid <= MaxPid
    /\ state[i] = "UNUSED" /\ plock[i] = 0
    /\ state' = [state EXCEPT ![i] = "USED"]
    /\ pid' = [pid EXCEPT ![i] = nextpid]
    /\ nextpid' = AllocPid
    /\ resume' = [resume EXCEPT ![i] = "user"]
    /\ np' = [np EXCEPT ![p] = i]
    /\ Goto(p, "fork2")
    /\ UNCHANGED <<chan, killed, plock, lk, run, callVars, parent, left,
                   condemned>>

\* A page cannot be allocated: the slot is freed again, the pid is used up.
ForkFail(p, i) ==
    /\ MayCall(p) /\ nextpid <= MaxPid
    /\ state[i] = "UNUSED" /\ plock[i] = 0
    /\ FreeProc(i)
    /\ nextpid' = AllocPid
    /\ UNCHANGED <<plock, lk, pc, swtchVars, callVars, np, left, condemned>>

ForkParent(p) ==
    /\ pc[p] = "fork2" /\ lk[WaitLock] = 0
    /\ parent' = [parent EXCEPT ![np[p]] = p]
    /\ Goto(p, "fork3")
    /\ UNCHANGED <<state, chan, killed, plock, lk, swtchVars, callVars, pid,
                   nextpid, np, left, condemned>>

ForkRun(p) ==
    /\ pc[p] = "fork3" /\ plock[np[p]] = 0
    /\ state' = [state EXCEPT ![np[p]] = "RUNNABLE"]
    /\ np' = [np EXCEPT ![p] = 0]
    /\ Goto(p, "user")
    /\ UNCHANGED <<chan, killed, plock, lk, swtchVars, callVars, pid, nextpid,
                   parent, left, condemned>>

-----------------------------------------------------------------------------
(* exit() *)

\* exit() by the program, or by usertrap() because the process was killed.
ExitLock(p) ==
    /\ pc[p] = "user" /\ p # init /\ lk[WaitLock] = 0
    /\ lk' = [lk EXCEPT ![WaitLock] = p]
    /\ Goto(p, "reparent")
    /\ UNCHANGED <<state, chan, killed, plock, swtchVars, callVars, treeVars,
                   left, condemned>>

\* usertrap(): an exception that is not a system call.
Fault(p) ==
    /\ MayCall(p) /\ p # init
    /\ killed' = [killed EXCEPT ![p] = 1]
    /\ condemned' = condemned \cup {pid[p]}
    /\ UNCHANGED <<state, chan, plock, lk, pc, swtchVars, callVars, treeVars,
                   left>>

Children(p) == {i \in Slot : parent[i] = p}

\* One turn of reparent(), which wakes init up for each child.
Reparent(p) ==
    /\ pc[p] = "reparent" /\ Children(p) # {}
    /\ parent' = [parent EXCEPT ![Lowest(Children(p))] = init]
    /\ CallWakeup(p, init, "reparent")
    /\ UNCHANGED <<state, chan, killed, plock, lk, swtchVars, visit, pid, nextpid,
                   np, left, condemned>>

ReparentNothing(p) ==
    /\ pc[p] = "reparent"
    /\ CallWakeup(p, parent[p], "zombie")
    /\ UNCHANGED <<state, chan, killed, plock, lk, swtchVars, visit, treeVars,
                   left, condemned>>
ReparentDone(p) ==
    /\ pc[p] = "reparent" /\ Children(p) = {}
    /\ CallWakeup(p, parent[p], "zombie")
    /\ UNCHANGED <<state, chan, killed, plock, lk, swtchVars, visit, treeVars,
                   left, condemned>>

Zombie(p) ==
    /\ pc[p] = "zombie" /\ plock[p] = 0
    /\ plock' = [plock EXCEPT ![p] = p]
    /\ state' = [state EXCEPT ![p] = "ZOMBIE"]
    /\ lk' = [lk EXCEPT ![WaitLock] = 0]
    /\ resume' = [resume EXCEPT ![p] = "dead"]
    /\ Goto(p, "sched")
    /\ UNCHANGED <<chan, killed, run, callVars, treeVars, left, condemned>>

-----------------------------------------------------------------------------
(* wait() *)

WaitEnter(p) ==
    /\ MayCall(p) /\ lk[WaitLock] = 0
    /\ lk' = [lk EXCEPT ![WaitLock] = p]
    /\ Goto(p, "scan")
    /\ UNCHANGED <<state, chan, killed, plock, swtchVars, callVars, treeVars,
                   left, condemned>>

\* The children that the scan has not looked at.
Unseen(p) == {i \in Children(p) : i >= visit[p]}

\* The scan looks at a child under the child's lock.
ChildLockedIgnored(i) == TRUE
ChildUnlocked(i) == plock[i] = 0

Scan(p) ==
    /\ pc[p] = "scan" /\ Unseen(p) # {}
    /\ LET i == Lowest(Unseen(p))
       IN /\ ChildUnlocked(i)
          /\ \/ /\ state[i] # "ZOMBIE"
                /\ visit' = [visit EXCEPT ![p] = i + 1]
                /\ UNCHANGED <<state, chan, killed, lk, pc, pid, parent>>
             \/ /\ state[i] = "ZOMBIE"
                /\ FreeProc(i)
                /\ lk' = [lk EXCEPT ![WaitLock] = 0]
                /\ visit' = [visit EXCEPT ![p] = 1]
                /\ Goto(p, "user")
             \/ \* copyout() of the status fails; init.c asks for none
                /\ state[i] = "ZOMBIE" /\ p # init
                /\ lk' = [lk EXCEPT ![WaitLock] = 0]
                /\ visit' = [visit EXCEPT ![p] = 1]
                /\ Goto(p, "user")
                /\ UNCHANGED <<state, chan, killed, pid, parent>>
    /\ UNCHANGED <<plock, swtchVars, call, nextpid, np, left,
                   condemned>>

\* havekids is true when some slot names p as its parent: only the holder of
\* wait_lock changes that.
WaitFails(p) ==
    /\ pc[p] = "scan" /\ Unseen(p) = {}
    /\ Children(p) = {} \/ killed[p] = 1
    /\ lk' = [lk EXCEPT ![WaitLock] = 0]
    /\ visit' = [visit EXCEPT ![p] = 1]
    /\ Goto(p, "user")
    /\ UNCHANGED <<state, chan, killed, plock, swtchVars, call, treeVars, left,
                   condemned>>

WaitSleep(p) ==
    /\ pc[p] = "scan" /\ Unseen(p) = {}
    /\ Children(p) # {} /\ killed[p] = 0
    /\ CallSleep(p, p, WaitLock, "scan")
    /\ visit' = [visit EXCEPT ![p] = 1]
    /\ UNCHANGED <<state, chan, killed, plock, lk, swtchVars, treeVars, left,
                   condemned>>

-----------------------------------------------------------------------------
(* kill(), sys_sleep() and the clock *)

Kill(p, t) ==
    /\ MayCall(p)
    /\ \E i \in Slot : pid[i] = t
    /\ KillSlot(Lowest({i \in Slot : pid[i] = t}))
    /\ condemned' = IF t = 0 THEN condemned ELSE condemned \cup {t}
    /\ UNCHANGED <<chan, plock, lk, pc, swtchVars, callVars, treeVars, left>>

\* sys_sleep(1); init.c makes no such call.
TicksEnter(p) ==
    /\ MayCall(p) /\ p # init /\ lk[TicksLock] = 0
    /\ lk' = [lk EXCEPT ![TicksLock] = p]
    /\ left' = [left EXCEPT ![p] = 1]
    /\ Goto(p, "ticks")
    /\ UNCHANGED <<state, chan, killed, plock, swtchVars, callVars, treeVars,
                   condemned>>

TicksDone(p) ==
    /\ pc[p] = "ticks" /\ (left[p] = 0 \/ killed[p] = 1)
    /\ lk' = [lk EXCEPT ![TicksLock] = 0]
    /\ left' = [left EXCEPT ![p] = 0]
    /\ Goto(p, "user")
    /\ UNCHANGED <<state, chan, killed, plock, swtchVars, callVars, treeVars,
                   condemned>>

TicksSleep(p) ==
    /\ pc[p] = "ticks" /\ left[p] > 0 /\ killed[p] = 0
    /\ CallSleep(p, ticks, TicksLock, "ticks")
    /\ UNCHANGED <<state, chan, killed, plock, lk, swtchVars, visit, treeVars,
                   left, condemned>>

\* clockintr(): its sleepers cannot move while it owns tickslock, so the
\* loop of wakeup() is one step.
Clock ==
    /\ InterruptsOn /\ lk[TicksLock] = 0 /\ \A p \in Slot : plock[p] = 0
    /\ left' = [p \in Slot |-> Tick(left[p])]
    /\ state' = [p \in Slot |-> Wakes(state, p, ticks)[p]]
    /\ UNCHANGED <<chan, killed, plock, lk, pc, swtchVars, callVars, treeVars,
                   condemned>>

-----------------------------------------------------------------------------
Fork(p) == ForkParent(p) \/ ForkRun(p)

Exit(p) == ExitLock(p) \/ Reparent(p) \/ ReparentDone(p) \/ Zombie(p)

WaitStep(p) == Scan(p) \/ WaitFails(p) \/ WaitSleep(p)

TicksStep(p) == TicksDone(p) \/ TicksSleep(p)

Next ==
    \/ \E p \in Slot :
          \/ SchedStep(p) /\ UNCHANGED <<treeVars, left, condemned>>
          \/ \E i \in Slot : ForkAlloc(p, i) \/ ForkFail(p, i)
          \/ Fork(p)
          \/ Exit(p)
          \/ Fault(p)
          \/ WaitEnter(p)
          \/ WaitStep(p)
          \/ \E t \in KillPids : Kill(p, t)
          \/ TicksEnter(p)
          \/ TicksStep(p)
    \/ Clock

Spec == Init /\ [][Next]_vars

\* The steps of a process that has interrupts off.
OwnStep(p) ==
    \/ (Sleep(p) \/ Wakeup(p) \/ SwitchOut(p) \/ Back(p))
          /\ UNCHANGED <<treeVars, left, condemned>>
    \/ Reparent(p) \/ ReparentDone(p) \/ Zombie(p) \/ WaitStep(p) \/ TicksStep(p)

\* Fairness on the single CPU of the Makefile.  The CPU executes its next
\* instruction and the timer interrupts it, whoever is running.  The loop of
\* the scheduler comes back to every runnable process, and a process that
\* owns no lock gets to its next step in the end.  A killed process traps
\* into the kernel at the next tick, and init calls wait() forever
\* (user/init.c).  Nothing is assumed of the clock: sys_sleep() may last as
\* long as it likes.
Fairness ==
    /\ WF_vars(\E p \in Slot : OwnStep(p))
    /\ SF_vars(\E p \in Slot : Yield(p) /\ UNCHANGED <<treeVars, left, condemned>>)
    /\ \A p \in Slot :
          /\ SF_vars(Dispatch(p) /\ UNCHANGED <<treeVars, left, condemned>>)
          /\ SF_vars(\/ Fork(p)
                     \/ Relock(p) /\ UNCHANGED <<treeVars, left, condemned>>)
          /\ SF_vars(\/ p # init /\ killed[p] = 1 /\ ExitLock(p)
                     \/ p = init /\ WaitEnter(p))

FairSpec == Spec /\ Fairness

-----------------------------------------------------------------------------
(* Properties. *)

TypeOK ==
    /\ state \in [Slot -> procstate]
    /\ chan \in [Slot -> 0 .. NPROC + 1]
    /\ killed \in [Slot -> {0, 1}]
    /\ plock \in [Slot -> 0 .. NPROC]
    /\ lk \in [CondLock -> 0 .. NPROC]
    /\ run \in SUBSET Slot
    /\ pid \in [Slot -> 0 .. MaxPid]
    /\ nextpid \in 2 .. MaxPid + 1
    /\ parent \in [Slot -> 0 .. NPROC]
    /\ np \in [Slot -> 0 .. NPROC]
    /\ left \in [Slot -> {0, 1}]

\* proc.c:397-398 and 369-377: a slot is freed, and handed out again, only
\* when the process that exited in it is off its kernel stack.
FreeSlotIdle ==
    \A p \in Slot :
        state[p] \in {"UNUSED", "USED"} => p \notin run /\ ~HoldsLock(p)

\* proc.c:321-334 and 361-364: the parent of a process has not exited, so
\* that there is always somebody to reap it.
ParentAlive ==
    \A p \in Slot :
        parent[p] # 0 => state[parent[p]] \notin {"UNUSED", "USED", "ZOMBIE"}

\* proc.c:366-377 and 419-426: a process does not sleep in wait() next to an
\* exited child, unless an exit() has passed the child on to it and is about
\* to wake it up.
NoMissedExit ==
    \A p, i \in Slot :
        /\ state[i] = "ZOMBIE" /\ parent[i] = p
        /\ state[p] = "SLEEPING" /\ chan[p] = p
        => \E q \in Slot : pc[q] = "wakeup" /\ call[q].chan = p /\ visit[q] <= p

\* proc.c:575-587: p->killed is set only for a process that kill() was asked
\* to kill or that faulted, whichever process had the slot before.
KilledForCause ==
    \A p \in Slot :
        state[p] # "UNUSED" /\ killed[p] = 1 => pid[p] \in condemned

\* proc.c:323-334 and 383-428, user/init.c:38-49: an exited process whose
\* parent is init is reaped.
InitReaps ==
    \A p \in Slot : state[p] = "ZOMBIE" /\ parent[p] = init
                        ~> state[p] = "UNUSED"

\* proc.c:575-591, trap.c:55-76 and sysproc.c:65-70: a killed process exits,
\* from user mode, from wait() and from sys_sleep(), whose sleep may otherwise
\* have no end: these look at p->killed when they wake up.
KilledExits ==
    \A p \in Slot : state[p] # "UNUSED" /\ killed[p] = 1
                        ~> state[p] \in {"ZOMBIE", "UNUSED"}

=============================================================================
