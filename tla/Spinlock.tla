------------------------------ MODULE Spinlock ------------------------------
(***************************************************************************)
(* Spin-locks and interrupts: kernel/spinlock.c.                           *)
(*                                                                         *)
(* Each CPU runs a kernel thread, and an interrupt handler on top of it    *)
(* when one comes in; both acquire and release locks, nested.  A step is a *)
(* load or a store of a lock word, since test_and_set() is plain C: one    *)
(* load and then one store.                                                *)
(***************************************************************************)
EXTENDS Naturals, FiniteSets

CONSTANTS
    CPU, Lock,
    Nobody,  \* lk->cpu of a free lock
    MaxNest  \* bound on the locks that a thread or a handler nests

ASSUME SpinlockAssumption == Nobody \notin CPU /\ MaxNest \in Nat

Context == {"thread", "handler"}

VARIABLES
    locked,  \* lk->locked
    cpu,     \* lk->cpu
    intr,    \* interrupts are enabled on the CPU
    noff,    \* mycpu()->noff
    intena,  \* mycpu()->intena
    ctx,     \* what the CPU is running
    pc,      \* where each context of each CPU is
    lk,      \* the lock that it is acquiring or releasing
    old,     \* the value of intr_get(), or of *locked, that it has read
    held,    \* the locks it has acquired and not yet released
    was,     \* what intr was when the CPU took its first lock
    panicked

lockVars == <<locked, cpu>>
cpuVars  == <<intr, noff, intena, was>>
codeVars == <<pc, lk, old, held>>
vars     == <<lockVars, cpuVars, ctx, codeVars, panicked>>

Init ==
    /\ locked = [l \in Lock |-> 0]
    /\ cpu = [l \in Lock |-> Nobody]
    /\ intr = [c \in CPU |-> 0]
    /\ noff = [c \in CPU |-> 0]
    /\ intena = [c \in CPU |-> 0]
    /\ ctx = [c \in CPU |-> "thread"]
    /\ pc = [c \in CPU |-> [x \in Context |-> "run"]]
    /\ lk \in [CPU -> [Context -> Lock]]
    /\ old = [c \in CPU |-> [x \in Context |-> 0]]
    /\ held = [c \in CPU |-> [x \in Context |-> {}]]
    /\ was = [c \in CPU |-> 0]
    /\ panicked = 0

At(c, l) == panicked = 0 /\ pc[c][ctx[c]] = l

Goto(c, l) == pc' = [pc EXCEPT ![c][ctx[c]] = l]

\* The lock that the running context of c is acquiring or releasing.
Arg(c) == lk[c][ctx[c]]

Holding(c, l) == locked[l] = 1 /\ cpu[l] = c

\* push_off() remembers the interrupt state of the outermost call only.
IntenaAlways(c, o) == o
Intena(c, o) == IF noff[c] = 0 THEN o ELSE intena[c]

\* intr_off()
IntrOff(c) == 0

\* lk->cpu = mycpu() in acquire()
Owner(c) == c

\* lk->locked = 0 in release()
UnlockForgotten(l) == locked[l]
Unlocked(l) == 0

\* c->noff -= 1 in pop_off()
Noff(c) == noff[c] - 1

-----------------------------------------------------------------------------
(* acquire() *)

\* intr_get() in push_off(); an interrupt may still come in after it.
PushRead(c, l) ==
    /\ At(c, "run") /\ l \notin held[c][ctx[c]]
    /\ Cardinality(held[c][ctx[c]]) < MaxNest
    /\ lk' = [lk EXCEPT ![c][ctx[c]] = l]
    /\ old' = [old EXCEPT ![c][ctx[c]] = intr[c]]
    /\ Goto(c, "push")
    /\ UNCHANGED <<lockVars, cpuVars, ctx, held, panicked>>

PushOff(c) ==
    /\ At(c, "push")
    /\ LET o == old[c][ctx[c]]
       IN /\ intr' = [intr EXCEPT ![c] = IntrOff(c)]
          /\ intena' = [intena EXCEPT ![c] = Intena(c, o)]
          /\ was' = IF noff[c] = 0 THEN [was EXCEPT ![c] = o] ELSE was
    /\ noff' = [noff EXCEPT ![c] = @ + 1]
    /\ panicked' = IF Holding(c, Arg(c)) THEN 1 ELSE 0
    /\ Goto(c, "load")
    /\ UNCHANGED <<lockVars, ctx, lk, old, held>>

\* test_and_set(): uint old = *locked; *locked = 1;
Load(c) ==
    /\ At(c, "load")
    /\ old' = [old EXCEPT ![c][ctx[c]] = locked[Arg(c)]]
    /\ Goto(c, "store")
    /\ UNCHANGED <<lockVars, cpuVars, ctx, lk, held, panicked>>

Store(c) ==
    /\ At(c, "store")
    /\ locked' = [locked EXCEPT ![Arg(c)] = 1]
    /\ Goto(c, IF old[c][ctx[c]] = 0 THEN "own" ELSE "load")
    /\ UNCHANGED <<cpu, cpuVars, ctx, lk, old, held, panicked>>

Own(c) ==
    /\ At(c, "own")
    /\ cpu' = [cpu EXCEPT ![Arg(c)] = Owner(c)]
    /\ held' = [held EXCEPT ![c][ctx[c]] = @ \cup {Arg(c)}]
    /\ Goto(c, "run")
    /\ UNCHANGED <<locked, cpuVars, ctx, lk, old, panicked>>

-----------------------------------------------------------------------------
(* release() *)

Release(c, l) ==
    /\ At(c, "run") /\ l \in held[c][ctx[c]]
    /\ IF Holding(c, l)
       THEN /\ cpu' = [cpu EXCEPT ![l] = Nobody]
            /\ Goto(c, "unlock")
            /\ lk' = [lk EXCEPT ![c][ctx[c]] = l]
            /\ held' = [held EXCEPT ![c][ctx[c]] = @ \ {l}]
            /\ UNCHANGED panicked
       ELSE panicked' = 1 /\ UNCHANGED <<cpu, pc, lk, held>>
    /\ UNCHANGED <<locked, cpuVars, ctx, old>>

Unlock(c) ==
    /\ At(c, "unlock")
    /\ locked' = [locked EXCEPT ![Arg(c)] = Unlocked(Arg(c))]
    /\ Goto(c, "pop")
    /\ UNCHANGED <<cpu, cpuVars, ctx, lk, old, held, panicked>>

PopOff(c) ==
    /\ At(c, "pop")
    /\ IF intr[c] = 1 \/ noff[c] < 1
       THEN panicked' = 1 /\ UNCHANGED <<intr, noff, pc>>
       ELSE /\ noff' = [noff EXCEPT ![c] = Noff(c)]
            /\ intr' = [intr EXCEPT ![c] =
                            IF noff[c] = 1 /\ intena[c] = 1 THEN 1 ELSE @]
            /\ Goto(c, "run")
            /\ UNCHANGED panicked
    /\ UNCHANGED <<lockVars, intena, was, ctx, lk, old, held>>

-----------------------------------------------------------------------------
(* Interrupts: usertrap(), usertrapret() and scheduler() turn them on and  *)
(* off while they own no lock; an interrupt is taken when they are on.     *)

SetIntr(c, v) ==
    /\ At(c, "run") /\ ctx[c] = "thread" /\ noff[c] = 0
    /\ intr' = [intr EXCEPT ![c] = v]
    /\ was' = [was EXCEPT ![c] = v]
    /\ UNCHANGED <<lockVars, noff, intena, ctx, codeVars, panicked>>

Interrupt(c) ==
    /\ panicked = 0 /\ ctx[c] = "thread" /\ intr[c] = 1
    /\ ctx' = [ctx EXCEPT ![c] = "handler"]
    /\ intr' = [intr EXCEPT ![c] = 0]
    /\ UNCHANGED <<lockVars, noff, intena, was, codeVars, panicked>>

\* sret: interrupts are as they were when this one was taken.
Return(c) ==
    /\ ctx[c] = "handler" /\ At(c, "run") /\ held[c]["handler"] = {}
    /\ ctx' = [ctx EXCEPT ![c] = "thread"]
    /\ intr' = [intr EXCEPT ![c] = 1]
    /\ was' = [was EXCEPT ![c] = 1]
    /\ UNCHANGED <<lockVars, noff, intena, codeVars, panicked>>

-----------------------------------------------------------------------------
AcquireStep(c) == PushOff(c) \/ Load(c) \/ Store(c) \/ Own(c)

ReleaseStep(c) == Unlock(c) \/ PopOff(c)

Next ==
    \E c \in CPU :
        \/ \E l \in Lock : PushRead(c, l) \/ Release(c, l)
        \/ AcquireStep(c) \/ ReleaseStep(c)
        \/ \E v \in {0, 1} : SetIntr(c, v)
        \/ Interrupt(c) \/ Return(c)

Spec == Init /\ [][Next]_vars

\* A CPU does not stop in the middle of acquire() or release(), and a handler
\* comes to its end.
FairSpec ==
    /\ Spec
    /\ \A c \in CPU :
          /\ WF_vars(AcquireStep(c) \/ ReleaseStep(c))
          /\ SF_vars(Return(c))
          /\ \A l \in Lock : SF_vars(ctx[c] = "handler" /\ Release(c, l))

-----------------------------------------------------------------------------
TypeOK ==
    /\ locked \in [Lock -> {0, 1}]
    /\ cpu \in [Lock -> CPU \cup {Nobody}]
    /\ intr \in [CPU -> {0, 1}]
    /\ noff \in [CPU -> Nat]
    /\ intena \in [CPU -> {0, 1}]
    /\ was \in [CPU -> {0, 1}]
    /\ ctx \in [CPU -> Context]
    /\ pc \in [CPU -> [Context -> {"run", "push", "load", "store", "own",
                                   "unlock", "pop"}]]
    /\ lk \in [CPU -> [Context -> Lock]]
    /\ old \in [CPU -> [Context -> {0, 1}]]
    /\ held \in [CPU -> [Context -> SUBSET Lock]]
    /\ panicked \in {0, 1}

\* spinlock.c:1 "Mutual exclusion spin locks": two holders never have the same
\* lock.
MutualExclusion ==
    \A c, d \in CPU, x, y \in Context :
        <<c, x>> # <<d, y>> => held[c][x] \cap held[d][y] = {}

\* spinlock.c:32-34, 57-58 and 112-115: the assertions of acquire(),
\* release() and pop_off() hold, whenever interrupts come in.
NoPanic == panicked = 0

\* spinlock.c:32 and 93-119: interrupts are off from the first acquire() to
\* the last release(), and after it they are what they were before.
IntrRestored ==
    \A c \in CPU :
        /\ noff[c] > 0 => intr[c] = 0
        /\ noff[c] = 0 /\ ctx[c] = "thread" => intr[c] = was[c]

\* spinlock.c:32 "disable interrupts to avoid deadlock": on one CPU nobody
\* spins forever.
SpinEnds ==
    \A c \in CPU, x \in Context : pc[c][x] = "load" ~> pc[c][x] = "own"
-----------------------------------------------------------------------------
(* The inductive invariants behind the properties above. *)

\* Where a context has called push_off() and has no lock to show for it.
Inside == {"load", "store", "own", "unlock", "pop"}

\* c->noff counts the locks of the running context and the acquire() or
\* release() that it is in; the other context has no lock and is in neither.
DepthInv ==
    \A c \in CPU :
        /\ \A x \in Context : IsFiniteSet(held[c][x])
        /\ noff[c] = Cardinality(held[c][ctx[c]])
                     + (IF pc[c][ctx[c]] \in Inside THEN 1 ELSE 0)
        /\ ctx[c] = "thread" =>
               held[c]["handler"] = {} /\ pc[c]["handler"] = "run"
        /\ ctx[c] = "handler" =>
               held[c]["thread"] = {} /\ pc[c]["thread"] \in {"run", "push"}

\* Nobody acquires a lock twice, and the lock in release() is given up.
ArgInv ==
    \A c \in CPU, x \in Context :
        pc[c][x] # "run" => lk[c][x] \notin held[c][x]

\* c->intena is what the interrupt bit was before the outermost push_off(), and
\* a thread that has read the bit finds it unchanged when it comes to use it.
IntrInv ==
    \A c \in CPU :
        /\ noff[c] > 0 => intr[c] = 0 /\ intena[c] = was[c]
        /\ noff[c] = 0 /\ ctx[c] = "thread" => intr[c] = was[c]
        /\ ctx[c] = "handler" =>
               /\ intr[c] = 0
               /\ noff[c] > 0 => intena[c] = 0
               /\ pc[c]["handler"] = "push" => old[c]["handler"] = 0
        /\ pc[c]["thread"] = "push" =>
               old[c]["thread"] = IF ctx[c] = "thread" THEN intr[c] ELSE 1

IInv == TypeOK /\ DepthInv /\ ArgInv /\ IntrInv

\* On one CPU the words of a lock say who has it, and test_and_set() finds it
\* free.
LockInv ==
    /\ panicked = 0
    /\ \A c \in CPU :
          /\ pc[c][ctx[c]] = "store" => old[c][ctx[c]] = 0
          /\ \A l \in Lock :
                /\ cpu[l] = c <=> l \in held[c][ctx[c]]
                /\ locked[l] = 1 <=> \/ l \in held[c][ctx[c]]
                                     \/ /\ pc[c][ctx[c]] \in {"own", "unlock"}
                                        /\ lk[c][ctx[c]] = l
=============================================================================
