----------------------------- MODULE MCProcesses ----------------------------
(***************************************************************************)
(* Instances of Memory, Proc and SleepLock for TLC, side by side.  The     *)
(* behaviours are those of the three: part, chosen at the start, says      *)
(* which of them runs.                                                     *)
(***************************************************************************)
EXTENDS Memory

CONSTANT lk1   \* the lock of the sleep-lock

MCSbrk == {-2, 3}
MCSegment == {[vaddr |-> 0, memsz |-> 1], [vaddr |-> 2, memsz |-> 3],
              [vaddr |-> 1, memsz |-> 1], [vaddr |-> Wrap - 2, memsz |-> 3]}

VARIABLES
    part,
    \* of Proc
    t_state, t_chan, t_killed, t_plock, t_lk, t_run, t_pc, t_resume, t_call,
    t_visit, t_pid, t_nextpid, t_parent, t_np, t_left, t_condemned,
    \* of SleepLock
    s_state, s_chan, s_killed, s_plock, s_lk, s_run, s_pc, s_resume, s_call,
    s_visit, s_locked, s_pid

procVars == <<
    t_state, t_chan, t_killed, t_plock, t_lk, t_run, t_pc, t_resume, t_call,
    t_visit, t_pid, t_nextpid, t_parent, t_np, t_left, t_condemned>>
sleeplockVars == <<
    s_state, s_chan, s_killed, s_plock, s_lk, s_run, s_pc, s_resume, s_call,
    s_visit, s_locked, s_pid>>

Pr == INSTANCE Proc WITH
        NPROC <- 3, NCPU <- 2, CondLock <- {"wait_lock", "tickslock"},
        MaxPid <- 4, KillPids <- {2, 4}, state <- t_state, chan <- t_chan,
        killed <- t_killed, plock <- t_plock, lk <- t_lk, run <- t_run,
        pc <- t_pc, resume <- t_resume, call <- t_call, visit <- t_visit,
        pid <- t_pid, nextpid <- t_nextpid, parent <- t_parent, np <- t_np,
        left <- t_left, condemned <- t_condemned

Sl == INSTANCE SleepLock WITH
        NPROC <- 3, NCPU <- 2, CondLock <- {lk1}, MaxKills <- 3,
        state <- s_state, chan <- s_chan, killed <- s_killed,
        plock <- s_plock, lk <- s_lk, run <- s_run, pc <- s_pc,
        resume <- s_resume, call <- s_call, visit <- s_visit,
        locked <- s_locked, pid <- s_pid

allVars == <<part, vars, procVars, sleeplockVars>>

AllInit ==
    /\ part \in {"memory", "proc", "sleeplock"}
    /\ Init /\ Pr!Init /\ Sl!Init

AllNext ==
    \/ part = "memory" /\ Next
          /\ UNCHANGED <<part, procVars, sleeplockVars>>
    \/ part = "proc" /\ Pr!Next
          /\ UNCHANGED <<part, vars, sleeplockVars>>
    \/ part = "sleeplock" /\ Sl!Next
          /\ UNCHANGED <<part, vars, procVars>>

AllSpec == AllInit /\ [][AllNext]_allVars

\* kalloc.c and vm.c: a page has one owner.
PageOwners == part = "memory" => PagesOwned

\* exec.c and proc.c:250-268: an image is all there, whatever failed before.
ImageWhole == part = "memory" => ImageSound

\* vm.c:345-436: copies between the kernel and a process go to the pages that
\* the process sees.
CopiesRight == part = "memory" => CopiesExact

\* proc.c:471-492: sched() is entered as its assertions ask, in both instances.
SwitchSafe == CASE part = "proc" -> Pr!SwitchSafe
                [] part = "sleeplock" -> Sl!SwitchSafe
                [] OTHER -> TRUE

\* proc.c:369-379: a slot is freed only when nobody runs on its stack.
FreeSlotIdle == part = "proc" => Pr!FreeSlotIdle

\* proc.c:363-427: no parent sleeps in wait() past the exit of a child, and
\* every child has a live parent.
NoMissedExit == part = "proc" => Pr!NoMissedExit /\ Pr!ParentAlive

\* sleeplock.c:21-42: whoever sleeps for the lock has somebody to wake it.
SleeperHasWaker == part = "sleeplock" => Sl!SleeperHasWaker

\* sleeplock.c:21-42: the sleep-lock is a mutex.
ImplementsMutex ==
    Sl!Lock!Init /\ [][part = "sleeplock" => [Sl!Lock!Next]_(Sl!Holder)]_sleeplockVars
=============================================================================
