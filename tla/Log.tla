-------------------------------- MODULE Log ---------------------------------
(***************************************************************************)
(* The write-ahead log of kernel/log.c together with the part of the       *)
(* buffer cache (kernel/bio.c) that it depends on.                         *)
(*                                                                         *)
(* Processes run file-system calls between begin_op() and end_op().  A     *)
(* call locks a buffer (bread), changes it, records it with log_write()    *)
(* and releases it (brelse).  The last call to end commits the group: it   *)
(* copies the changed buffers to the log blocks, writes the header, copies *)
(* the log blocks home and clears the header.  The machine may crash       *)
(* between any two steps, and in the middle of the write of a data block;  *)
(* the boot then replays the log.                                          *)
(*                                                                         *)
(* Every section of code that holds log.lock, and every pair of bread and  *)
(* bwrite under a buffer's sleep-lock, is one action.  On the single CPU   *)
(* that the Makefile configures nothing else runs inside such a section.   *)
(***************************************************************************)
EXTENDS Naturals, Sequences, FiniteSets

CONSTANTS
    Proc,        \* processes
    Block,       \* home blocks (the disk without the log)
    Data,        \* contents of a block
    NotCached,   \* no buffer of the cache holds the block
    NoBlock,     \* the process holds no buffer
    MAXOPBLOCKS, \* param.h: blocks that begin_op() reserves for a call
    OpBlocks,    \* distinct blocks that a call really writes, at most
    LOGSIZE,     \* param.h: capacity of the header's block array
    LogBlocks,   \* sb.nlog: blocks of the on-disk log, the header included
    MaxCrashes   \* bound on the number of crashes explored

ASSUME SentinelAssumption == NotCached \notin Data /\ NoBlock \notin Block

ASSUME SizeAssumption ==
    /\ MAXOPBLOCKS \in Nat \ {0}
    /\ OpBlocks \in 1 .. MAXOPBLOCKS
    /\ LOGSIZE \in Nat /\ LOGSIZE >= MAXOPBLOCKS
    /\ LogBlocks \in Nat
    /\ MaxCrashes \in Nat

ASSUME FiniteAssumption == IsFiniteSet(Proc) /\ IsFiniteSet(Block)

VARIABLES
    \* the disk
    disk,        \* contents of the home blocks
    logdata,     \* contents of the log's data blocks, slot 1 first
    head,        \* the header block: the block numbers of a committed group
    \* memory, lost in a crash
    cache,       \* buffer contents, NotCached where there is no buffer
    pins,        \* references taken by bpin() and not yet dropped
    lh,          \* log.lh: block numbers logged so far
    outstanding, \* log.outstanding
    committing,  \* log.committing
    pc,          \* where each process is
    held,        \* the buffer each process has locked
    dirty,       \* processes that changed their buffer and have not logged it
    wrote,       \* blocks that the process's current call has logged
    tail,        \* loop index of write_log() and install_trans()
    boot,        \* progress of recover_from_log()
    panicked,    \* the kernel called panic()
    crashes      \* number of crashes so far

diskVars == <<disk, logdata, head>>
memVars  == <<cache, pins, lh, outstanding, committing, pc, held, dirty,
              wrote, tail, panicked>>
vars     == <<diskVars, memVars, boot, crashes>>

Slots == 1 .. LOGSIZE

Committer == {"write_log", "write_head", "install", "erase", "finish"}

Label == {"idle", "begin", "sleep", "op"} \cup Committer

\* Contents of b as bread() returns them.
Bread(b) == IF cache[b] = NotCached THEN disk[b] ELSE cache[b]

\* No process but p has the buffer of b locked.
Free(p, b) == \A q \in Proc \ {p} : held[q] # b

\* wakeup(&log)
WakeupNobody(f) == f
Wakeup(f) == [q \in Proc |-> IF f[q] = "sleep" THEN "begin" ELSE f[q]]

\* begin_op() has to wait: a commit is running, or the log might overflow.
MustWaitNoCommitTest ==
    Len(lh) + (outstanding + 1) * MAXOPBLOCKS > LOGSIZE
MustWaitForgetsItself ==
    committing = 1 \/ Len(lh) + outstanding * MAXOPBLOCKS > LOGSIZE
MustWait ==
    committing = 1 \/ Len(lh) + (outstanding + 1) * MAXOPBLOCKS > LOGSIZE

\* log_write() has no room for one more block, which it tests before it
\* looks for the block in the header.
NoRoom == Len(lh) >= LOGSIZE \/ Len(lh) + 1 >= LogBlocks

\* log_write() finds the block in the header.
LoggedNoAbsorption(b) == FALSE
Logged(b) == \E i \in 1 .. Len(lh) : lh[i] = b

\* bget() may recycle the buffer of b: its refcnt is 0.
UnreferencedIgnoresPins(b) == \A q \in Proc : held[q] # b
Unreferenced(b) == pins[b] = 0 /\ \A q \in Proc : held[q] # b

\* bunpin() in install_trans()
Unpin(b) == [pins EXCEPT ![b] = @ - 1]

\* commit() has something to write.
HasBlocksOffByOne == Len(lh) > 1
HasBlocks == Len(lh) > 0

Running == boot = "up" /\ panicked = 0

Init ==
    /\ disk \in [Block -> Data]
    /\ logdata \in [Slots -> Data]
    /\ head = <<>>
    /\ cache = [b \in Block |-> NotCached]
    /\ pins = [b \in Block |-> 0]
    /\ lh = <<>>
    /\ outstanding = 0
    /\ committing = 0
    /\ pc = [p \in Proc |-> "idle"]
    /\ held = [p \in Proc |-> NoBlock]
    /\ dirty = {}
    /\ wrote = [p \in Proc |-> {}]
    /\ tail = 0
    /\ boot = "read_head"
    /\ panicked = 0
    /\ crashes = 0

-----------------------------------------------------------------------------
(* Boot: initlog() and recover_from_log(), before any process makes calls. *)

ReadHead ==
    /\ boot = "read_head"
    /\ lh' = head
    /\ tail' = 0
    /\ boot' = IF head = <<>> THEN "clear" ELSE "install"
    /\ UNCHANGED <<diskVars, cache, pins, outstanding, committing, pc, held,
                   dirty, wrote, panicked, crashes>>

\* One turn of install_trans(1).
RecoverBlock ==
    /\ boot = "install"
    /\ disk' = [disk EXCEPT ![lh[tail + 1]] = logdata[tail + 1]]
    /\ cache' = [cache EXCEPT ![lh[tail + 1]] = logdata[tail + 1]]
    /\ tail' = tail + 1
    /\ boot' = IF tail + 1 = Len(lh) THEN "clear" ELSE "install"
    /\ UNCHANGED <<logdata, head, pins, lh, outstanding, committing, pc, held,
                   dirty, wrote, panicked, crashes>>

ClearHead ==
    /\ boot = "clear"
    /\ lh' = <<>>
    /\ head' = <<>>
    /\ boot' = "up"
    /\ UNCHANGED <<disk, logdata, cache, pins, outstanding, committing, pc,
                   held, dirty, wrote, tail, panicked, crashes>>

-----------------------------------------------------------------------------
(* File-system calls. *)

BeginOp(p) ==
    /\ Running /\ pc[p] \in {"idle", "begin"} /\ held[p] = NoBlock
    /\ IF MustWait
       THEN /\ pc' = [pc EXCEPT ![p] = "sleep"]
            /\ UNCHANGED <<outstanding, wrote>>
       ELSE /\ pc' = [pc EXCEPT ![p] = "op"]
            /\ outstanding' = outstanding + 1
            /\ wrote' = [wrote EXCEPT ![p] = {}]
    /\ UNCHANGED <<diskVars, cache, pins, lh, committing, held, dirty, tail,
                   boot, panicked, crashes>>

\* bread(): calls read blocks inside a transaction, and stat() or read()
\* also outside one.
LockBuffer(p, b) ==
    /\ Running /\ pc[p] \in {"idle", "op"} /\ held[p] = NoBlock
    /\ Free(p, b)
    /\ held' = [held EXCEPT ![p] = b]
    /\ cache' = [cache EXCEPT ![b] = Bread(b)]
    /\ UNCHANGED <<diskVars, pins, lh, outstanding, committing, pc, dirty,
                   wrote, tail, boot, panicked, crashes>>

\* The caller changes b->data; it has MAXOPBLOCKS blocks reserved and uses
\* at most OpBlocks of them.
Modify(p, d) ==
    /\ Running /\ pc[p] = "op" /\ held[p] # NoBlock /\ p \notin dirty
    /\ held[p] \in wrote[p] \/ Cardinality(wrote[p]) < OpBlocks
    /\ cache' = [cache EXCEPT ![held[p]] = d]
    /\ dirty' = dirty \cup {p}
    /\ UNCHANGED <<diskVars, pins, lh, outstanding, committing, pc, held,
                   wrote, tail, boot, panicked, crashes>>

LogWrite(p) ==
    /\ Running /\ p \in dirty
    /\ IF NoRoom \/ outstanding < 1
       THEN /\ panicked' = 1
            /\ UNCHANGED <<lh, pins, dirty, wrote>>
       ELSE /\ dirty' = dirty \ {p}
            /\ wrote' = [wrote EXCEPT ![p] = @ \cup {held[p]}]
            /\ IF Logged(held[p])
               THEN UNCHANGED <<lh, pins>>
               ELSE /\ lh' = Append(lh, held[p])
                    /\ pins' = [pins EXCEPT ![held[p]] = @ + 1]
            /\ UNCHANGED panicked
    /\ UNCHANGED <<diskVars, cache, outstanding, committing, pc, held, tail,
                   boot, crashes>>

Brelse(p) ==
    /\ Running /\ held[p] # NoBlock /\ p \notin dirty
    /\ held' = [held EXCEPT ![p] = NoBlock]
    /\ UNCHANGED <<diskVars, cache, pins, lh, outstanding, committing, pc,
                   dirty, wrote, tail, boot, panicked, crashes>>

\* bget() recycles a buffer that nobody references.
Recycle(b) ==
    /\ Running /\ cache[b] # NotCached
    /\ Unreferenced(b)
    /\ cache' = [cache EXCEPT ![b] = NotCached]
    /\ UNCHANGED <<diskVars, pins, lh, outstanding, committing, pc, held,
                   dirty, wrote, tail, boot, panicked, crashes>>

EndOp(p) ==
    /\ Running /\ pc[p] = "op" /\ held[p] = NoBlock
    /\ outstanding' = outstanding - 1
    /\ IF committing = 1
       THEN panicked' = 1 /\ UNCHANGED <<committing, pc, tail>>
       ELSE /\ IF outstanding = 1
               THEN /\ committing' = 1
                    /\ pc' = [pc EXCEPT ![p] = IF HasBlocks THEN "write_log"
                                               ELSE "finish"]
               ELSE /\ pc' = Wakeup([pc EXCEPT ![p] = "idle"])
                    /\ UNCHANGED committing
            /\ tail' = 0
            /\ UNCHANGED panicked
    /\ UNCHANGED <<diskVars, cache, pins, lh, held, dirty, wrote, boot,
                   crashes>>

-----------------------------------------------------------------------------
(* commit(), run by the process whose end_op() found no other call. *)

\* One turn of write_log(): cached block to log block.
WriteLog(p) ==
    /\ Running /\ pc[p] = "write_log"
    /\ LET b == lh[tail + 1]
           last == tail + 1 = Len(lh)
       IN /\ Free(p, b)
          /\ cache' = [cache EXCEPT ![b] = Bread(b)]
          /\ logdata' = [logdata EXCEPT ![tail + 1] = Bread(b)]
          /\ tail' = IF last THEN 0 ELSE tail + 1
          /\ pc' = [pc EXCEPT ![p] = IF last THEN "write_head" ELSE @]
    /\ UNCHANGED <<disk, head, pins, lh, outstanding, committing, held, dirty,
                   wrote, boot, panicked, crashes>>

WriteHead(p) ==
    /\ Running /\ pc[p] = "write_head"
    /\ head' = lh
    /\ pc' = [pc EXCEPT ![p] = "install"]
    /\ UNCHANGED <<disk, logdata, cache, pins, lh, outstanding, committing,
                   held, dirty, wrote, tail, boot, panicked, crashes>>

\* One turn of install_trans(0): log block to home block, and bunpin().
InstallTrans(p) ==
    /\ Running /\ pc[p] = "install"
    /\ LET b == lh[tail + 1]
           last == tail + 1 = Len(lh)
       IN /\ Free(p, b)
          /\ cache' = [cache EXCEPT ![b] = logdata[tail + 1]]
          /\ disk' = [disk EXCEPT ![b] = logdata[tail + 1]]
          /\ pins' = Unpin(b)
          /\ tail' = tail + 1
          /\ pc' = [pc EXCEPT ![p] = IF last THEN "erase" ELSE @]
    /\ UNCHANGED <<logdata, head, lh, outstanding, committing, held, dirty,
                   wrote, boot, panicked, crashes>>

EraseHead(p) ==
    /\ Running /\ pc[p] = "erase"
    /\ lh' = <<>>
    /\ head' = <<>>
    /\ pc' = [pc EXCEPT ![p] = "finish"]
    /\ UNCHANGED <<disk, logdata, cache, pins, outstanding, committing, held,
                   dirty, wrote, tail, boot, panicked, crashes>>

Finish(p) ==
    /\ Running /\ pc[p] = "finish"
    /\ committing' = 0
    /\ pc' = Wakeup([pc EXCEPT ![p] = "idle"])
    /\ UNCHANGED <<diskVars, cache, pins, lh, outstanding, held, dirty, wrote,
                   tail, boot, panicked, crashes>>

-----------------------------------------------------------------------------
(* Power loss.  The write of a data block that is under way may leave any  *)
(* contents in that block; the header fits in one disk sector, and its     *)
(* write is assumed to happen or not.                                      *)

TornLog ==
    IF \E p \in Proc : pc[p] = "write_log"
    THEN {[logdata EXCEPT ![tail + 1] = d] : d \in Data} ELSE {}

TornHome ==
    IF boot = "install" \/ \E p \in Proc : pc[p] = "install"
    THEN {[disk EXCEPT ![lh[tail + 1]] = d] : d \in Data} ELSE {}

Crash ==
    /\ crashes < MaxCrashes
    /\ crashes' = crashes + 1
    /\ logdata' \in {logdata} \cup TornLog
    /\ disk' \in {disk} \cup TornHome
    /\ UNCHANGED head
    /\ cache' = [b \in Block |-> NotCached]
    /\ pins' = [b \in Block |-> 0]
    /\ lh' = <<>>
    /\ outstanding' = 0
    /\ committing' = 0
    /\ pc' = [p \in Proc |-> "idle"]
    /\ held' = [p \in Proc |-> NoBlock]
    /\ dirty' = {}
    /\ wrote' = [p \in Proc |-> {}]
    /\ tail' = 0
    /\ boot' = "read_head"
    /\ panicked' = 0

-----------------------------------------------------------------------------
Boot == ReadHead \/ RecoverBlock \/ ClearHead

Commit(p) == \/ WriteLog(p) \/ WriteHead(p) \/ InstallTrans(p)
             \/ EraseHead(p) \/ Finish(p)

Next ==
    \/ Boot
    \/ \E p \in Proc :
          \/ BeginOp(p)
          \/ \E b \in Block : LockBuffer(p, b)
          \/ \E d \in Data : Modify(p, d)
          \/ LogWrite(p)
          \/ Brelse(p)
          \/ EndOp(p)
          \/ Commit(p)
    \/ \E b \in Block : Recycle(b)
    \/ Crash

Spec == Init /\ [][Next]_vars

\* Fairness.  A process that can take the next step of a call takes it: the
\* scheduler runs every runnable process.  brelse(), end_op() and the steps of
\* a commit need strong fairness: a call reads and changes finitely many
\* blocks before it ends, and a committer competes with readers for a
\* buffer's sleep-lock.
Fairness ==
    /\ WF_vars(Boot)
    /\ \A p \in Proc :
          /\ WF_vars(pc[p] = "begin" /\ BeginOp(p))
          /\ WF_vars(LogWrite(p))
          /\ SF_vars(Brelse(p))
          /\ SF_vars(EndOp(p))
          /\ SF_vars(Commit(p))

FairSpec == Spec /\ Fairness

-----------------------------------------------------------------------------
(* Properties. *)

TypeOK ==
    /\ disk \in [Block -> Data]
    /\ logdata \in [Slots -> Data]
    /\ head \in Seq(Block)
    /\ cache \in [Block -> Data \cup {NotCached}]
    /\ pins \in [Block -> Nat]
    /\ lh \in Seq(Block)
    /\ outstanding \in Nat
    /\ committing \in {0, 1}
    /\ pc \in [Proc -> Label]
    /\ held \in [Proc -> Block \cup {NoBlock}]
    /\ dirty \in SUBSET Proc
    /\ wrote \in [Proc -> SUBSET Block]
    /\ tail \in Nat
    /\ boot \in {"read_head", "install", "clear", "up"}
    /\ panicked \in {0, 1}
    /\ crashes \in Nat

\* The contents that a reboot in the current state would end with: the log
\* block where the header names the block, the home block elsewhere.
Recovered(h, l, d) ==
    [b \in Block |->
        IF \E i \in 1 .. Len(h) : h[i] = b
        THEN l[CHOOSE i \in 1 .. Len(h) : h[i] = b]
        ELSE d[b]]

Durable == Recovered(head, logdata, disk)

\* What a reader of the buffer cache gets; before the boot is over nobody
\* reads, and the view is what the recovery is about to establish.
View == IF boot = "up" THEN [b \in Block |-> Bread(b)] ELSE Durable

\* The processes between begin_op() and end_op().
Active == {p \in Proc : pc[p] = "op"}

Atomic == INSTANCE AtomicDisk
              WITH durable <- Durable, view <- View,
                   active <- Active

\* log.c:10-31: whatever the interleaving of calls and wherever the machine
\* crashes, torn block writes included, the disk after recovery holds the
\* writes of whole groups of calls only, and every committed group.
ImplementsAtomicDisk == Atomic!Spec

\* log.c:11-15: the log is written out only while no call is in progress,
\* and by one process; commit() takes no lock and relies on this.
CommitAlone ==
    \A p \in Proc : pc[p] \in Committer =>
        /\ committing = 1 /\ outstanding = 0
        /\ \A q \in Proc \ {p} : pc[q] \notin Committer \cup {"op"}

At(l) == \E p \in Proc : pc[p] = l

\* A logged block whose new contents are not yet at home.
Pending(b) ==
    \E i \in 1 .. Len(lh) :
        lh[i] = b /\ (At("install") => i > tail) /\ ~At("erase")

\* log.c:227-233 and 78: a logged block carries exactly one pin until it is
\* installed, and no other block carries any, so that a changed buffer is
\* never recycled and the cache never loses a buffer for good.
PinsExact ==
    boot = "up" => \A b \in Block : pins[b] = IF Pending(b) THEN 1 ELSE 0

\* log.c:126-172: a process sleeps in begin_op() only while there is a call
\* in progress or a commit, that is, somebody left to wake it up.
NobodyStranded ==
    (\E p \in Proc : pc[p] = "sleep") => committing = 1 \/ outstanding > 0

\* log.c:152-153 and 220-223: calls that write fewer distinct blocks than
\* begin_op() reserves for them, by two at least when LogBlocks = LOGSIZE,
\* never run into "too big a transaction", "log_write outside of trans" or
\* "log.committing".
NoPanic == panicked = 0

\* log.c:164-172: when the end_op() that commits returns, what the group
\* wrote is on the disk.
DurableOnReturn ==
    \A p \in Proc : Running /\ pc[p] = "finish" => Durable = View

\* log.c:130-135: a process that sleeps in begin_op() is woken up.
SleeperWoken == \A p \in Proc : pc[p] = "sleep" ~> pc[p] # "sleep"

-----------------------------------------------------------------------------
(* The inductive invariant behind the properties above. *)

Injective(s) == \A i, j \in 1 .. Len(s) : s[i] = s[j] => i = j

\* Before the boot is over no process runs.
BootQuiet ==
    boot # "up" =>
        /\ \A p \in Proc : pc[p] = "idle" /\ held[p] = NoBlock /\ p \notin dirty
        /\ \A b \in Block : pins[b] = 0
        /\ outstanding = 0 /\ committing = 0

\* log.outstanding and log.committing say what the processes are doing.
CountInv ==
    /\ outstanding = Cardinality(Active)
    /\ committing = 1 <=> \E p \in Proc : pc[p] \in Committer
    /\ committing = 1 => Active = {}
    /\ \A p, q \in Proc :
          pc[p] \in Committer /\ pc[q] \in Committer => p = q

\* A changed buffer belongs to a call in progress that has it locked.
HeldInv ==
    /\ \A p \in Proc : p \in dirty => pc[p] = "op" /\ held[p] # NoBlock
    /\ \A p, q \in Proc : held[p] = held[q] /\ held[p] # NoBlock => p = q

\* The headers name each block once, and between commits with no call in
\* progress the log is empty.
HeaderInv ==
    /\ Injective(lh) /\ Len(lh) <= LOGSIZE
    /\ Injective(head) /\ Len(head) <= LOGSIZE
    /\ boot = "up" /\ Active = {} /\ committing = 0 => lh = <<>>
    /\ At("finish") => lh = <<>>
    /\ boot = "up" /\ ~At("install") /\ ~At("erase") => head = <<>>

\* How far write_log() and install_trans() have come.
PhaseInv ==
    /\ At("write_log") =>
          /\ tail < Len(lh)
          /\ \A i \in 1 .. tail : logdata[i] = Bread(lh[i])
    /\ At("write_head") =>
          /\ tail = 0 /\ Len(lh) > 0
          /\ \A i \in 1 .. Len(lh) : logdata[i] = Bread(lh[i])
    /\ At("install") =>
          /\ tail < Len(lh) /\ head = lh
          /\ \A i \in 1 .. Len(lh) : logdata[i] = Bread(lh[i])
          /\ \A i \in 1 .. tail : disk[lh[i]] = logdata[i]
    /\ At("erase") =>
          /\ head = lh
          /\ \A i \in 1 .. Len(lh) : disk[lh[i]] = logdata[i]
    /\ boot = "install" =>
          /\ tail < Len(lh) /\ lh = head
          /\ \A i \in 1 .. tail : disk[lh[i]] = logdata[i]
    /\ boot = "clear" =>
          /\ lh = head
          /\ \A i \in 1 .. Len(lh) : disk[lh[i]] = logdata[i]

\* A cached block differs from the disk only while its change waits for the
\* commit, or before log_write() records it.
CacheInv ==
    \A b \in Block :
        /\ boot = "up" /\ Pending(b) => cache[b] # NotCached
        /\ \A p \in Proc : held[p] = b => cache[b] # NotCached
        /\ \/ cache[b] = NotCached
           \/ cache[b] = disk[b]
           \/ boot = "up" /\ Pending(b)
           \/ \E p \in Proc : held[p] = b /\ p \in dirty

IInv ==
    /\ TypeOK /\ BootQuiet /\ CountInv /\ HeldInv /\ HeaderInv /\ PhaseInv
    /\ CacheInv /\ PinsExact /\ NobodyStranded

\* The blocks that begin_op() reserved and the calls in progress have not
\* used up, numbered for each call.
Spare ==
    {r \in Active \X (1 .. MAXOPBLOCKS) : r[2] > Cardinality(wrote[r[1]])}

\* The log has room for all that is still reserved, so that log_write() finds
\* some whenever a call in progress has not used its reservation up.
RoomInv ==
    /\ panicked = 0
    /\ Len(lh) + Cardinality(Spare) <= LOGSIZE
    /\ \A p \in Active : /\ Cardinality(wrote[p]) <= OpBlocks
                         /\ \A b \in wrote[p] : Logged(b)
    /\ \A p \in dirty :
          held[p] \in wrote[p] \/ Cardinality(wrote[p]) < OpBlocks

\* A call leaves two blocks of its reservation unused, and the log is as
\* large as the header: log_write() wants one block more than it needs, and
\* the header takes one.
Roomy == OpBlocks + 2 <= MAXOPBLOCKS /\ LOGSIZE <= LogBlocks

=============================================================================
