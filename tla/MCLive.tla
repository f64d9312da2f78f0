------------------------------- MODULE MCLive -------------------------------
(***************************************************************************)
(* Liveness: small instances of Spinlock and Log, side by side.  The       *)
(* behaviours are those of the two: part, chosen at the start, says which  *)
(* of them runs, with the fairness conditions of its own module.           *)
(***************************************************************************)
EXTENDS Spinlock

CONSTANTS l1, p1, p2, b1, b2, d1, NotCached, NoBlock

VARIABLES
    part,
    \* of Log
    l_disk, l_logdata, l_head, l_cache, l_pins, l_lh, l_outstanding,
    l_committing, l_pc, l_held, l_dirty, l_wrote, l_tail, l_boot, l_panicked,
    l_crashes

logVars == <<
    l_disk, l_logdata, l_head, l_cache, l_pins, l_lh, l_outstanding,
    l_committing, l_pc, l_held, l_dirty, l_wrote, l_tail, l_boot, l_panicked,
    l_crashes>>

Lo == INSTANCE Log WITH
        Proc <- {p1, p2}, Block <- {b1, b2}, Data <- {d1}, MAXOPBLOCKS <- 2,
        OpBlocks <- 1, LOGSIZE <- 4, LogBlocks <- 4, MaxCrashes <- 1,
        disk <- l_disk, logdata <- l_logdata, head <- l_head,
        cache <- l_cache, pins <- l_pins, lh <- l_lh,
        outstanding <- l_outstanding, committing <- l_committing, pc <- l_pc,
        held <- l_held, dirty <- l_dirty, wrote <- l_wrote, tail <- l_tail,
        boot <- l_boot, panicked <- l_panicked, crashes <- l_crashes

allVars == <<part, vars, logVars>>

AllInit ==
    /\ part \in {"spinlock", "log"}
    /\ Init /\ Lo!Init
    /\ part = "log" => lk = [c \in CPU |-> [x \in Context |-> l1]]

AllNext ==
    \/ part = "spinlock" /\ Next /\ UNCHANGED <<part, logVars>>
    \/ part = "log" /\ Lo!Next /\ UNCHANGED <<part, vars>>

\* FairSpec of Spinlock
SpinStep(A) == part = "spinlock" /\ A /\ UNCHANGED <<part, logVars>>
SpinFairness ==
    \A c \in CPU :
        /\ WF_allVars(SpinStep(AcquireStep(c) \/ ReleaseStep(c)))
        /\ SF_allVars(SpinStep(Return(c)))
        /\ \A l \in Lock : SF_allVars(SpinStep(ctx[c] = "handler" /\ Release(c, l)))

\* Fairness of Log
LogStep(A) == part = "log" /\ A /\ UNCHANGED <<part, vars>>
LogFairness ==
    /\ WF_allVars(LogStep(Lo!Boot))
    /\ \A p \in {p1, p2} :
          /\ WF_allVars(LogStep(l_pc[p] = "begin" /\ Lo!BeginOp(p)))
          /\ WF_allVars(LogStep(Lo!LogWrite(p)))
          /\ SF_allVars(LogStep(Lo!Brelse(p)))
          /\ SF_allVars(LogStep(Lo!EndOp(p)))
          /\ SF_allVars(LogStep(Lo!Commit(p)))

AllFair ==
    /\ AllInit /\ [][AllNext]_allVars
    /\ SpinFairness /\ LogFairness

\* log.c:126-177: whoever sleeps in begin_op() is woken in the end, and a crash
\* is followed by a boot.
SleeperWoken == Lo!SleeperWoken
=============================================================================
