-------------------------------- MODULE Pipe --------------------------------
(***************************************************************************)
(* A pipe: kernel/pipe.c.  Processes that hold the write end and processes *)
(* that hold the read end call pipewrite() and piperead(), are killed, and *)
(* drop their ends; the last one to drop an end closes it (fileclose() of  *)
(* kernel/file.c), and the last close frees the pipe.                      *)
(*                                                                         *)
(* A step is one turn of a loop under pi->lock.  sleep() gives up the lock *)
(* and sleeps in one step, which is what the model Sched shows of it, and  *)
(* wakeup() takes effect at once, since the processes it wakes need the    *)
(* lock.  The counters are unsigned integers: they wrap at Wrap, which     *)
(* PIPESIZE divides as 512 divides 2^32.                                   *)
(***************************************************************************)
EXTENDS Naturals, Sequences, FiniteSets

CONSTANTS
    Writer, Reader, \* processes that hold the write end, or the read end
    Byte,           \* byte values
    Nobody,
    PIPESIZE,
    Wrap,           \* 2^32 in the code
    MaxCount        \* largest n passed to read() or write()

ASSUME PipeAssumption ==
    /\ PIPESIZE \in Nat \ {0} /\ Wrap \in Nat
    /\ \E k \in 2 .. Wrap : Wrap = k * PIPESIZE
    /\ MaxCount \in Nat /\ Byte # {}
    /\ Nobody \notin Writer \cup Reader

VARIABLES
    data, nread, nwrite, readopen, writeopen,
    freed,   \* number of times the page of the pipe was freed
    lock,    \* owner of pi->lock
    holders, \* processes that hold an end: [w |-> writers, r |-> readers]
    killed,  \* processes with p->killed set
    pc,      \* where each process is
    todo     \* bytes that the call under way still has to move

pipeVars == <<data, nread, nwrite>>
openVars == <<readopen, writeopen, freed, holders>>
vars     == <<pipeVars, openVars, lock, killed, pc, todo>>

Process == Writer \cup Reader

Add(a, b) == (a + b) % Wrap

\* pipewrite(): no room.  piperead(): nothing to read.
FullOneLate == nwrite = Add(nread, PIPESIZE + 1)
Full == nwrite = Add(nread, PIPESIZE)
Empty == nread = nwrite

Goto(p, l) == pc' = [pc EXCEPT ![p] = l]

\* wakeup(&pi->nread) and wakeup(&pi->nwrite): the sleepers go for the lock.
WakeReaders(f) ==
    [p \in Process |-> IF f[p] = "r_sleep" THEN "r_loop" ELSE f[p]]
WakeWriters(f) ==
    [p \in Process |-> IF f[p] = "w_sleep" THEN "w_loop" ELSE f[p]]

Release == lock' = Nobody

Init ==
    \* kalloc() fills the page with one value.
    /\ data = [i \in 0 .. PIPESIZE - 1 |-> CHOOSE c \in Byte : TRUE]
    /\ nread = 0 /\ nwrite = 0
    /\ readopen = 1 /\ writeopen = 1
    /\ freed = 0
    /\ lock = Nobody
    /\ holders = [w |-> Writer, r |-> Reader]
    /\ killed = {}
    /\ pc = [p \in Process |-> "idle"]
    /\ todo = [p \in Process |-> 0]

-----------------------------------------------------------------------------
(* pipewrite() *)

WriteCall(p, n) ==
    /\ pc[p] = "idle" /\ p \in holders.w
    /\ todo' = [todo EXCEPT ![p] = n]
    /\ Goto(p, "w_loop")
    /\ UNCHANGED <<pipeVars, openVars, lock, killed>>

\* The process gets pi->lock, in acquire() or on its way out of sleep().
Acquire(p) ==
    /\ pc[p] \in {"w_loop", "r_loop", "closing"} /\ lock = Nobody
    /\ lock' = p
    /\ UNCHANGED <<pipeVars, openVars, killed, pc, todo>>

\* The readers are gone or the process was killed: return -1.
WriteBroken(p) ==
    /\ pc[p] = "w_loop" /\ lock = p /\ todo[p] > 0
    /\ readopen = 0 \/ p \in killed
    /\ Release
    /\ todo' = [todo EXCEPT ![p] = 0]
    /\ Goto(p, "idle")
    /\ UNCHANGED <<pipeVars, openVars, killed>>

WriteFull(p) ==
    /\ pc[p] = "w_loop" /\ lock = p /\ todo[p] > 0
    /\ readopen = 1 /\ p \notin killed /\ Full
    /\ pc' = WakeReaders([pc EXCEPT ![p] = "w_sleep"])
    /\ Release
    /\ UNCHANGED <<pipeVars, openVars, killed, todo>>

WriteByte(p, c) ==
    /\ pc[p] = "w_loop" /\ lock = p /\ todo[p] > 0
    /\ readopen = 1 /\ p \notin killed /\ ~Full
    /\ data' = [data EXCEPT ![nwrite % PIPESIZE] = c]
    /\ nwrite' = Add(nwrite, 1)
    /\ todo' = [todo EXCEPT ![p] = @ - 1]
    /\ UNCHANGED <<nread, openVars, lock, killed, pc>>

\* All is written, or copyin() failed.
WriteDone(p) ==
    /\ pc[p] = "w_loop" /\ lock = p
    /\ todo[p] > 0 => readopen = 1 /\ p \notin killed /\ ~Full
    /\ pc' = WakeReaders([pc EXCEPT ![p] = "idle"])
    /\ todo' = [todo EXCEPT ![p] = 0]
    /\ Release
    /\ UNCHANGED <<pipeVars, openVars, killed>>

-----------------------------------------------------------------------------
(* piperead() *)

ReadCall(p, n) ==
    /\ pc[p] = "idle" /\ p \in holders.r
    /\ todo' = [todo EXCEPT ![p] = n]
    /\ Goto(p, "r_loop")
    /\ UNCHANGED <<pipeVars, openVars, lock, killed>>

ReadKilled(p) ==
    /\ pc[p] = "r_loop" /\ lock = p /\ Empty /\ writeopen = 1
    /\ p \in killed
    /\ Release
    /\ todo' = [todo EXCEPT ![p] = 0]
    /\ Goto(p, "idle")
    /\ UNCHANGED <<pipeVars, openVars, killed>>

ReadEmpty(p) ==
    /\ pc[p] = "r_loop" /\ lock = p /\ Empty /\ writeopen = 1
    /\ p \notin killed
    /\ Release
    /\ Goto(p, "r_sleep")
    /\ UNCHANGED <<pipeVars, openVars, killed, todo>>

\* The first wait is over; after it the loop stops at an empty pipe.
ReadStart(p) ==
    /\ pc[p] = "r_loop" /\ lock = p /\ (~Empty \/ writeopen = 0)
    /\ Goto(p, "r_copy")
    /\ UNCHANGED <<pipeVars, openVars, lock, killed, todo>>

\* The byte is consumed even if copyout() then fails, which ends the call.
ReadByte(p, ok) ==
    /\ pc[p] = "r_copy" /\ lock = p /\ todo[p] > 0 /\ ~Empty
    /\ nread' = Add(nread, 1)
    /\ todo' = [todo EXCEPT ![p] = IF ok THEN @ - 1 ELSE 0]
    /\ UNCHANGED <<data, nwrite, openVars, lock, killed, pc>>

ReadDone(p) ==
    /\ pc[p] = "r_copy" /\ lock = p
    /\ todo[p] = 0 \/ Empty
    /\ pc' = WakeWriters([pc EXCEPT ![p] = "idle"])
    /\ todo' = [todo EXCEPT ![p] = 0]
    /\ Release
    /\ UNCHANGED <<pipeVars, openVars, killed>>

-----------------------------------------------------------------------------
(* Dropping an end, and pipeclose(). *)

\* fileclose(): only the last holder of an end goes on to pipeclose().
Drop(p) ==
    /\ pc[p] = "idle"
    /\ \E e \in {"w", "r"} :
          /\ p \in holders[e]
          /\ holders' = [holders EXCEPT ![e] = @ \ {p}]
          /\ IF holders[e] = {p}
             THEN /\ Goto(p, "closing")
                  /\ todo' = [todo EXCEPT ![p] = IF e = "w" THEN 1 ELSE 0]
             ELSE UNCHANGED <<pc, todo>>
    /\ UNCHANGED <<pipeVars, readopen, writeopen, freed, lock, killed>>

\* The other end is closed too, so the page is freed.
LastEither(w, r) == w = 0 \/ r = 0
Last(w, r) == w = 0 /\ r = 0

\* pipeclose(pi, writable), with writable in todo[p]
PipeClose(p) ==
    /\ pc[p] = "closing" /\ lock = p
    /\ writeopen' = IF todo[p] = 1 THEN 0 ELSE writeopen
    /\ readopen' = IF todo[p] = 1 THEN readopen ELSE 0
    /\ pc' = LET f == [pc EXCEPT ![p] = "idle"]
             IN IF todo[p] = 1 THEN WakeReaders(f) ELSE WakeWriters(f)
    /\ freed' = IF Last(writeopen', readopen') THEN freed + 1 ELSE freed
    /\ todo' = [todo EXCEPT ![p] = 0]
    /\ Release
    /\ UNCHANGED <<pipeVars, holders, killed>>

\* kill() by another process: on one CPU not while pi->lock is held.
Kill(p) ==
    /\ lock = Nobody
    /\ killed' = killed \cup {p}
    /\ pc' = [pc EXCEPT ![p] = IF @ = "r_sleep" THEN "r_loop"
                               ELSE IF @ = "w_sleep" THEN "w_loop" ELSE @]
    /\ UNCHANGED <<pipeVars, openVars, lock, todo>>

-----------------------------------------------------------------------------
Step(p) ==
    \/ Acquire(p)
    \/ WriteBroken(p) \/ WriteFull(p) \/ WriteDone(p)
    \/ \E c \in Byte : WriteByte(p, c)
    \/ ReadKilled(p) \/ ReadEmpty(p) \/ ReadStart(p) \/ ReadDone(p)
    \/ \E ok \in BOOLEAN : ReadByte(p, ok)
    \/ PipeClose(p)

Next ==
    \E p \in Process :
        \/ Step(p)
        \/ \E n \in 0 .. MaxCount : WriteCall(p, n) \/ ReadCall(p, n)
        \/ Drop(p)
        \/ Kill(p)

Spec == Init /\ [][Next]_vars

-----------------------------------------------------------------------------
(* Properties. *)

TypeOK ==
    /\ data \in [0 .. PIPESIZE - 1 -> Byte]
    /\ nread \in 0 .. Wrap - 1 /\ nwrite \in 0 .. Wrap - 1
    /\ readopen \in {0, 1} /\ writeopen \in {0, 1}
    /\ freed \in Nat
    /\ lock \in Process \cup {Nobody}
    /\ holders \in [w : SUBSET Process, r : SUBSET Process]
    /\ killed \in SUBSET Process
    /\ pc \in [Process -> {"idle", "w_loop", "w_sleep", "r_loop", "r_sleep",
                           "r_copy", "closing"}]
    /\ todo \in [Process -> 0 .. MaxCount + 1]

\* The bytes in the pipe, oldest first.
Count == (nwrite + Wrap - nread) % Wrap

Queue == [i \in 1 .. Count |-> data[Add(nread, i - 1) % PIPESIZE]]

Bytes == INSTANCE Fifo WITH Capacity <- PIPESIZE, queue <- Queue

\* pipe.c:76-130: with any number of readers and writers, and across the
\* wrap-around of the counters, the pipe is a bounded first-in first-out
\* queue.
ImplementsFifo == Bytes!Spec

\* pipe.c:69-71 and file.c:60-80: the page is freed once, and only when no
\* call can touch the pipe any more.
FreedLast ==
    /\ freed <= 1
    /\ freed = 1 => /\ holders.w = {} /\ holders.r = {}
                    /\ \A p \in Process : pc[p] = "idle"

\* pipe.c:83-91, 99, 113-119 and 127: when nobody works on the pipe, a reader
\* sleeps only for an empty pipe with a writer left, and a writer only for a
\* full one with a reader left.
NobodySleepsInVain ==
    lock = Nobody =>
        \A p \in Process :
            /\ pc[p] = "r_sleep" => Empty /\ writeopen = 1 /\ p \notin killed
            /\ pc[p] = "w_sleep" => Full /\ readopen = 1 /\ p \notin killed
-----------------------------------------------------------------------------
(* The inductive invariant behind the properties above. *)

LockInv ==
    /\ lock # Nobody => pc[lock] \in {"w_loop", "r_loop", "r_copy", "closing"}
    /\ \A p \in Process : pc[p] = "r_copy" => lock = p

\* A process in a call holds the end it uses, an end that is held is open, one
\* process at most closes each end, and the page goes with the second end.
EndInv ==
    /\ \A p \in Process :
          /\ pc[p] \in {"w_loop", "w_sleep"} => p \in holders.w
          /\ pc[p] \in {"r_loop", "r_sleep", "r_copy"} => p \in holders.r
          /\ pc[p] = "closing" =>
                 \/ todo[p] = 1 /\ holders.w = {} /\ writeopen = 1
                 \/ todo[p] = 0 /\ holders.r = {} /\ readopen = 1
    /\ \A p, q \in Process :
          /\ pc[p] = "closing" /\ pc[q] = "closing" /\ todo[p] = todo[q]
          => p = q
    /\ holders.w # {} => writeopen = 1
    /\ holders.r # {} => readopen = 1
    /\ freed = IF writeopen = 0 /\ readopen = 0 THEN 1 ELSE 0

\* A sleeper's condition holds, or whoever made it false is still in its
\* critical section and calls wakeup() before it leaves.
SleepInv ==
    \A p \in Process :
        /\ pc[p] = "r_sleep" =>
               /\ writeopen = 1 /\ p \notin killed
               /\ \/ Empty
                  \/ /\ lock # Nobody /\ pc[lock] = "w_loop"
                     /\ readopen = 1 /\ lock \notin killed
        /\ pc[p] = "w_sleep" =>
               /\ readopen = 1 /\ p \notin killed
               /\ Full \/ (lock # Nobody /\ pc[lock] = "r_copy")

IInv == TypeOK /\ LockInv /\ EndInv /\ SleepInv /\ Count <= PIPESIZE
=============================================================================
