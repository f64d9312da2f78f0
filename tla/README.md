# Verification of xv6-rv32im

TLA+ models of the xv6 kernel for rv32im under `src/`, the TLC runs that check
them on small instances, and TLAPS proofs about the log, the spin-locks, the
pipe and the disk driver for instances of any size. `PROJECT.json` lists the
components, the runs, the source lines behind every definition, the hazards
and the theorems; this file explains them.

Contents: [the system](#the-system), [the modules](#the-modules),
[the runs](#the-runs), [bounds](#bounds), [fairness](#fairness),
[what is proved](#what-is-proved),
[what is only model-checked](#what-is-only-model-checked),
[disagreements](#disagreements-with-the-code),
[what is left out](#what-is-left-out).

## The system

A Unix kernel of about 7000 lines for a 32-bit RISC-V machine: one CPU by
default (`src/Makefile:173`), written for up to `NCPU`. Processes enter it by
system calls and faults, devices by interrupts. Whatever they share is
protected by spin-locks (held with interrupts off, never across a wait) or by
sleep-locks (held across disk I/O).

| part | source | state | operations | module |
|---|---|---|---|---|
| spin-locks | `spinlock.c` | `locked`, `cpu`; per CPU `noff`, `intena`, the interrupt bit | `acquire`, `release`, `push_off`, `pop_off` | `Spinlock` |
| scheduler | `proc.c` | process states, channels, process locks, who has a CPU | `scheduler`, `sched`, `yield`, `sleep`, `wakeup` | `Sched` |
| sleep-locks | `sleeplock.c` | `locked`, `pid` | `acquiresleep`, `releasesleep` | `SleepLock` |
| processes | `proc.c`, `sysproc.c`, `trap.c` | slots, pids, parents, `killed`, ticks | `fork`, `exit`, `wait`, `kill`, `sys_sleep`, `clockintr` | `Proc` |
| memory | `kalloc.c`, `vm.c`, `exec.c` | free list, page tables, images | `kalloc`, `kfree`, `uvmalloc`, `uvmcopy`, `copyin`, `copyout`, `exec`, `fork`, `sbrk` | `Memory` |
| pipes | `pipe.c` | ring buffer, `nread`, `nwrite`, open ends | `pipealloc`, `pipewrite`, `piperead`, `pipeclose` | `Pipe` |
| file table | `file.c`, `sysfile.c` | `ref`, types, descriptors | `filealloc`, `filedup`, `fileclose`, `fdalloc` and their callers | `FileTable` |
| inodes, directories | `fs.c`, `sysfile.c` | inode table, disk inodes, entries, link counts | `iget` ... `iput`, `namex`, `dirlink`; open, mkdir, mknod, link, unlink, chdir | `FileSys` |
| file contents | `fs.c`, `file.c` | bitmap, block addresses, bytes, offsets | `balloc`, `bfree`, `bmap`, `readi`, `writei`, `itrunc` | `FileData` |
| log | `log.c` | header and log blocks on disk, `log.lh`, `outstanding`, `committing` | `begin_op`, `log_write`, `end_op`, `commit`, recovery | `Log` |
| buffer cache | `bio.c` | buffer contents, sleep-lock holder, pins | `bread`, `bwrite`, `brelse`, `bpin`, `bunpin` | `Log`, in part |
| disk driver | `virtio_disk.c` | descriptors, avail and used ring shared with the device | `virtio_disk_rw`, `virtio_disk_intr` | `Virtio` |
| console, UART | `console.c`, `uart.c` | line buffer `r`/`w`/`e`; transmit ring | `consoleread`, `consolewrite`, `consoleintr`, `uartputc`, `uartintr` | `Console` |
| TCP | `tcp.c`, `socket.c` | control blocks, receive buffers, sequence numbers | connect, send, read, close; segment arrival | `Tcp` |
| UDP, ARP, IP, Ethernet, card | `udp.c`, `arp.c`, `ip.c`, `ethernet.c`, `e1000.c`, `mbuf.c`, `socket.c` | rings of the card, ARP table, queues, list of sockets | open, connect, send, read, close; interrupt | `Net` |

How they interact. A system call that changes files runs between `begin_op`
and `end_op`; its path lookup locks inodes with sleep-locks, reads blocks
through the buffer cache and the disk driver, and hands changed buffers to
`log_write`. Sleep-locks, pipes, the log, `wait` and the drivers all wait with
`sleep` and are released by `wakeup`, which depend on the process locks and on
the hand-over of `p->lock` across `swtch`. `fork` and `exit` copy and drop
file references; the last `fileclose` closes a pipe end or drops an inode
reference, and the last reference to an unlinked inode frees it on disk.

What is hard to get right here, and to test: crashes between any two disk
writes; a wakeup between the test of a condition and the sleep; `exit` racing
with `wait` and with the exit of the parent; a `kill` of a process that is
about to sleep; a device that works between two steps of the driver; a
reference dropped by one process while another looks the object up; memory
that runs out half way through a call; counters that wrap; segments that are
lost, repeated or late. The list, with lines, is `hazards` in `PROJECT.json`.

## The modules

`MC*` modules instantiate the others for TLC. Some hold several components
side by side; their variable `part`, chosen in the initial state, says which
of them runs, and a property of one part is stated under `part = ...`. A definition
whose name says that something is wrong (`IntenaAlways`, `LastUseAnyLinks`) is
a deliberately broken variant of the one after it; no specification uses it,
and the `mutants` of `PROJECT.json` say which property fails when it is put in
place.

**`Log`** models `log.c` on top of the part of `bio.c` that it needs. The disk
is three variables (home blocks, log blocks, header); memory is the buffer
cache, the pins, `log.lh`, `outstanding` and `committing`. A process goes
through `begin_op`, any number of reads and changes of buffers (each under the
buffer's sleep-lock), and `end_op`; the last one out commits, one disk write
per step: `write_log`, `write_head`, `install_trans`, the erased header.
Buffers without references may be recycled at any time, so that later reads
come from the disk. `Crash` may happen at any moment and throws the memory
away; a crash during a data-block write leaves any contents in that block. The
header write is taken to be atomic: the header (`4 * (LOGSIZE + 1)` bytes)
fits into one sector, and `log.c:99-101` calls this write the point of commit.
`Boot` is `recover_from_log`, step by step, and may itself crash.

**`AtomicDisk`** is what `log.c:10-31` promises: durable contents, the view of
the running calls, and a commit that makes the view durable in one step when
no call is in progress. `Log` implements it under the mapping *durable* = what
a reboot would recover now, *view* = what readers of the cache get.

**`Spinlock`** is below the others: a load or store of a lock word per step,
and interrupts taken between any two. The other modules take `acquire` as one
step; the theorem `OneCPUExclusion` justifies this for one CPU, and
`spinlock_two` shows that several need an atomic `test_and_set`.

**`Sched`** models `scheduler`, `sched`, `yield`, `sleep`, `wakeup` and the
waking half of `kill`, one action per acquisition of a spin-lock, on `NCPU`
CPUs with preemption wherever no spin-lock is held. `p->lock` is taken by one
thread and released by another across `swtch`, as in the code. Its clients
extend it: **`SleepLock`** adds `acquiresleep` and `releasesleep` and
implements **`Mutex`**; **`Proc`** adds the life of a process (`allocproc`,
`freeproc`, `fork`, `exit` with `reparent`, `wait`, `kill`, `sys_sleep`, the
clock). The ghost variable `condemned` of `Proc` holds the pids somebody had a
reason to kill. Loops over the process table are one step per slot, since
each takes that slot's lock.

**`Memory`** models physical pages and the calls that build and destroy
address spaces. Every `kalloc` is a step and may find the memory exhausted;
what a failing call gives back it gives back in one step. Page tables have two
levels, as in the code; `PGSIZE`, the span of a table and the address space
are small, and addresses wrap as 32-bit ones do.

**`Pipe`** models `pipe.c` with counters modulo `Wrap` (a multiple of
`PIPESIZE`, as 2^32 is of 512), readers and writers that can be killed, and
closes at any moment; it implements **`Fifo`**.

**`FileTable`** models the reference counts of `file.c` and the descriptor
tables, with the system calls that create, copy and drop references and the
failures they handle (table full, no descriptor left, no page). `fileclose` is
two steps, because it copies the file and unlocks the table before it closes
the pipe end or the inode.

**`FileSys`** models the in-memory inode table against the inodes on disk and
the calls that change directories. A step reaches from one `ilock` to the next
point where the process can wait; in between it holds the locks it needs. Each
process makes the calls that the constant `Calls` lists, in any order and any
number. **`FileData`** models the contents below it: the bitmap, direct and
indirect blocks, bytes and sizes, under reads, writes and truncations of
processes that share an open file.

**`Virtio`** models the disk driver and the device. A stretch of
`virtio_disk_rw` between two sleeps is a step, the handler a step per access
to the used ring; the device takes and finishes requests in any order in
between. The ring counters wrap at `Wrap` (2^16 in the code).

**`Console`** models both directions of the console: input implements
**`LineInput`** (a line can be edited until it is ended; ended lines are read
in order), output implements `Fifo`. Echoes, interrupts of the UART and kills
happen at any time.

**`Tcp`** models the control blocks of `tcp.c` against peers (external to the
repository) behind a network that loses, repeats and reorders: whatever a peer
may have sent may arrive now, again, or never. **`Net`** models the rest of
the network: the rings of the card, ARP, UDP, the socket list, and which of
them owns each packet buffer.

**`RingCounters`** states facts about counters that wrap, for `Pipe` and
`Virtio`; `LogCalls`, `LogCommit`, `LogProofs`, `SpinlockProofs`,
`PipeProofs`, `VirtioSteps` and `VirtioProofs` hold the
[proofs](#what-is-proved).

## The runs

Twelve runs; `tlc -config <cfg> <module>` repeats one.

| run | what it checks and shows |
|---|---|
| `log_safety` | `ImplementsAtomicDisk`: with two processes, two crashes and torn writes, a reboot finds whole groups of calls and every committed one. `CommitAlone`: the committer, which holds no lock, is alone. `PinsExact`: a buffer is pinned exactly while its change is not at home. `NobodyStranded`: who sleeps in `begin_op` has somebody to wake it. `DurableOnReturn`: when the committing `end_op` returns, the group is on the disk. `NoPanic`: none of the log's panics, also with calls that change different blocks and use up the room that `begin_op` gave them. |
| `live` | One CPU: interrupts are off while a lock is held and restored afterwards (`IntrRestored`), and nobody spins forever (`SpinEnds`). Log: who sleeps in `begin_op` is woken up, crashes included (`SleeperWoken`). |
| `proc_live` | `InitReaps`: an exited child of init is reaped. `KilledExits`: a killed process exits, from user mode and from the sleeps of `wait` and `sys_sleep`. |
| `processes` | Memory: a page has one owner (`PageOwners`), an image is complete whatever failed before (`ImageWhole`), copies between kernel and user go to the pages the process sees (`CopiesRight`). Processes: a slot is reused only when its last owner is off its kernel stack (`FreeSlotIdle`); nobody sleeps in `wait` beside an exited child, and every child has a live parent (`NoMissedExit`). Scheduler: `sched` is entered with `p->lock` and no other lock (`SwitchSafe`). Sleep-locks: `ImplementsMutex`, and nobody sleeps on a free lock unless a wakeup is on its way (`SleeperHasWaker`). |
| `streams` | Pipe: a bounded FIFO across the wrap of the counters (`PipeIsFifo`), whose page is freed once, when no call can touch it (`FreedLast`). TCP: the bytes read and buffered are the first bytes the peer sent, as many as were acknowledged (`StreamKept`), and a read returns 0 only at the true end (`EofTrue`). Both: sleepers have a reason to sleep (`StreamSleepers`). The three statements about TCP leave out connections lost at `tcp.c:404` (below). |
| `file` | Reference counts match descriptors and calls under way (`RefsExact`); closing the last reference gives back the pipe end or the inode once (`EndsMatch`, `InodeRefs`). |
| `files` | Names: inode counts are the users, link counts are the names, but for an inode whose directory was removed around it (`CountsExact`); one slot per inode, a coherent copy, no inode freed under its users but by way of `..` of a removed directory, no other panic (`TableSound`). Data: a block in use has one owner (`BlocksOwned`), a file holds the bytes written to it (`ContentExact`), an operation fits into its share of the log (`OpFits`). Console: edited lines and a FIFO (`ConsoleQueues`), sleepers have a reason to sleep (`SleepersServed`). |
| `disk` | A returned transfer is done (`TransferDone`); a descriptor is free or in one request, none is lost, no panic (`DescOwned`); nobody sleeps for what has happened (`NobodySleepsInVain`). |
| `network` | A socket delivers the datagrams for it, once and in order (`DatagramsExact`); a packet buffer is in one place, and until the transmit ring overruns the card has still to send what was handed to the driver, in order and untouched (`MbufsOwned`); a sleeping reader has nothing to read (`ReaderSleepsOnEmpty`). |
| `proc_kill_zero` | violation: `kill(0)` hits a free slot (below). |
| `spinlock_two` | violation: two CPUs in one lock (below). |
| `file_panic` | violation: `open` without a free descriptor stops the kernel (below). |

## Bounds

- `Log`, part `crash`: two processes are enough for a group of calls, for a
  sleeper and a committer, and for a call that starts during another; two
  blocks for an absorbed write and a group of two; two values for "old" and
  "new". Two crashes let the second hit the recovery from the first. `LOGSIZE`
  and `LogBlocks` are 4 and `MAXOPBLOCKS` is 2, so that `begin_op` admits a
  second call and makes one wait. Part `room` is about the room in the log:
  five blocks, a log of 6, `MAXOPBLOCKS` 3, and calls that change one block
  each (`OpBlocks`, within `Roomy` below). Calls that start one after another
  in one group fill the log up to the last place that `log_write` accepts, so
  that a `begin_op` that reserves too little leads to "too big a transaction".
  It has no crash and one value. The liveness run has one crash and one value.
- `Proc`: three slots on two CPUs have a sleeper, a waker and a third that
  interferes, with one more process than CPUs. Pids run to 4, so that a slot
  is reused and `kill` may name the old or the new owner. `proc_live` has
  three slots on the single CPU of the Makefile, and pids up to 3.
- `SleepLock`: three processes on two CPUs, three kills.
- `Memory`: ten pages of two bytes, page-table pages that map three pages, an
  address space of 14 pages; two processes. An image takes most of the memory,
  so that each allocation of `fork`, `exec` and `sbrk` fails in some behaviour.
  There is room for an `exec` of a program with one page, whose guard page is
  then the second; a larger program fails half way.
  Program headers include one that starts inside a page and overlaps another
  and one whose end wraps around.
- `Pipe`: a buffer of two bytes with counters modulo 4 wraps within two writes
  of up to two bytes; two readers and two writers compete.
- `Tcp`: one control block that two processes compete for and reuse, a buffer
  of two bytes, three bytes in and one out. Of the 32 sequence numbers the
  peer's first ones are just below the wrap, and those of the second
  connection follow directly, so that a late segment is off by little. Both
  ways of closing run to their end, and the block is opened again after each.
- `FileTable`: two files, two descriptors per process and one pipe are used up
  by a few calls of three processes, so that every failure path is taken.
- `FileSys`: three inode numbers (the root and two more) and two names; a
  directory and a file compete for them, numbers run out (`ialloc: no inodes`)
  and are reused. Running out of inodes stops the kernel in this code and is a
  limit, not a violation of `NoPanic`. One process creates, links and unlinks
  `/a` and `/a/b`, the other makes the directory `/a`, moves into it, removes
  it and uses a name relative to it. In part `dots` the paths go up by `..`
  as well, out of directories that may have been removed.
- `FileData`: ten blocks of two bytes, two direct addresses, writes of 3 and 7
  bytes that are cut into pieces by the limit of `filewrite`, start in the
  middle of a block and reach the indirect block; three calls.
- `Console`, in three instances, each with two different characters besides
  the control characters: two readers on a line buffer of two; one reader on a
  line buffer of three, where erasing a line and erasing a character differ;
  two writers on a transmit ring of two. The indexes wrap at twice the size
  (at 4 with two writers, whose line buffer holds one).
- `Virtio`: seven descriptors are two requests and one to spare, for three
  processes; the counters wrap at 14.
- `Net`: a table of one ARP entry, two sockets of two processes. Part
  `receive`: a receive ring of two, which three packets go round, one of them
  not UDP. Part `send`: three datagrams, with an ARP request for each, on a
  transmit ring of three, which is used up and overruns when the card falls
  behind; one control block for two sockets; and ARP replies with an address
  that is all zero. 13 packet buffers are enough that `kalloc` does not fail.
- `Spinlock`: two locks nest on one CPU, in a thread and in the handler above
  it.

Symmetry (processes, blocks and data of the log and the disk driver; readers,
writers and bytes of the pipe; processes of the file table other than init, of
the network and of the console; files; CPUs) is used in safety runs only,
where no action or property tells the values apart.
`CHECK_DEADLOCK FALSE` is given for `FileTable`, where all processes may have
exited, and for `Net`, which stops when the packets are used up.

## Fairness

- `Log`: weak fairness of the steps a process takes alone; strong fairness of
  `brelse`, `end_op` and the commit steps, which compete for a buffer's
  sleep-lock. A call reads and writes finitely many blocks before it ends
  (`MAXOPBLOCKS`), and the scheduler goes round all runnable processes
  (`proc.c:444-465`).
- `Proc`: on one CPU. The CPU executes its next instruction, whoever runs
  (weak fairness of the steps of all processes together), and the timer
  interrupts it (strong fairness of `yield`). The loop of the scheduler comes
  back to every runnable process (strong fairness of its dispatch), and a
  process that keeps being scheduled gets to its next step. Init waits forever
  (`user/init.c`), and a killed process traps at the next tick. The clock owes
  nothing: `sys_sleep` may last forever.
- `Spinlock`: a CPU executes its next instruction, and an interrupt handler
  releases its locks and returns. Nothing is assumed about interrupts coming
  in or about threads releasing their locks.

Liveness of sleep-locks, pipes and drivers is not claimed: on several CPUs a
plain test-and-set lock lets one CPU lose forever, and a device owes no
answer. What is checked instead is the safety half: nobody sleeps without a
reason or a wakeup on its way (`SleeperHasWaker`, `StreamSleepers`,
`NobodySleepsInVain`, `SleepersServed`, `ReaderSleepsOnEmpty`).

## What is proved

TLAPS proves the following for every value of the constants that satisfies the
named `ASSUME`s of the module: any number of processes, blocks, CPUs and
values, any sizes, any number of crashes. TLC evaluates the `ASSUME`s in the
runs of the module.

| module | theorem | statement |
|---|---|---|
| `LogProofs` | `InductiveInvariant` | `Spec => []IInv` |
| | `TypeCorrect` | `Spec => []TypeOK` |
| | `CommitIsAlone` | `Spec => []CommitAlone` |
| | `PinsAreExact` | `Spec => []PinsExact` |
| | `SleepersHaveAWaker` | `Spec => []NobodyStranded` |
| | `ReturnIsDurable` | `Spec => []DurableOnReturn` |
| | `Refinement` | `Spec => ImplementsAtomicDisk` |
| | `LogNeverOverflows` | `Roomy` implies `Spec => []NoPanic` |
| `SpinlockProofs` | `InductiveInvariant` | `Spec => []IInv` |
| | `InterruptsRestored` | `Spec => []IntrRestored`, on any number of CPUs |
| | `OneCPUNoPanic` | on one CPU `Spec => []NoPanic` |
| | `OneCPUExclusion` | on one CPU `Spec => []MutualExclusion` |
| `PipeProofs` | `InductiveInvariant` | `Spec => []IInv` |
| | `PageFreedLast` | `Spec => []FreedLast` |
| | `SleepersWait` | `Spec => []NobodySleepsInVain` |
| | `Refinement` | `Spec => ImplementsFifo` |
| `VirtioProofs` | `InductiveInvariant` | `Spec => []IInv` |
| | `TransfersDone` | `Spec => []TransferDone` |
| | `DescriptorsOwned` | `Spec => []DescOwned` |
| | `SleepersWait` | `Spec => []NobodySleepsInVain` |

None of the properties is inductive by itself. Each component's module ends
with the stronger `IInv` that is.

**Log.** Assumed: finitely many processes and blocks, positive sizes, markers
that are no data and no block. That a reboot finds whole groups rests on what
the log blocks hold while the header is written, that on which buffers agree
with the disk, and that on who holds which buffer. `IInv` has the properties
`PinsExact` and `NobodyStranded` and

- `BootQuiet`: no process runs before the recovery is over;
- `CountInv`: `outstanding` counts the calls in progress, and `committing`
  says that there is exactly one committer and no call;
- `HeldInv`: a changed buffer that is not logged belongs to one call, which
  has it locked;
- `HeaderInv`: a header names each block once, the header on disk is empty
  except between commit and erasure, and the one in memory is empty between
  groups;
- `PhaseInv`: how far the loops of `write_log` and `install_trans` have come,
  in terms of what is in the log and at home;
- `CacheInv`: a cached block differs from the disk only while its change
  waits for the commit or its holder has not logged it yet.

From `IInv` the refinement is a case per action: a crash, and any step of the
recovery or of `install_trans`, leaves what a reboot would find as it is;
`write_head` replaces it by the view; every other step touches only the view
or nothing.

`LogNeverOverflows` is about "too big a transaction" and the other panics. It
needs `Roomy`: the log on disk has `LOGSIZE` blocks or more, and a call
changes at most `MAXOPBLOCKS - 2` different blocks. The code has both: `mkfs`
makes a log of `LOGSIZE` blocks, and `filewrite` cuts its writes so that 8 of
the 10 blocks are used (`OpFits` is the check of this in `FileData`). Two are
needed rather than one because one log block is the header, and because
`log_write` asks for room even for a block that the group already has.
`RoomInv` says that the blocks still to come from the calls in progress,
`Spare` of them, fit behind those that are in the header.

The proof is three modules because it is long: `LogCalls` (the initial state,
the boot and the steps of a call, with their refinement), `LogCommit`
(`end_op`, the commit, crashes, and so the whole next-state relation) and
`LogProofs` (room, and the theorems). The first two state the facts about
cardinalities that they use as a hypothesis (`Sizes`); `LogProofs` proves it.

**Spin-locks.** Assumed: a marker that is no CPU. `DepthInv`: `noff` is the
number of locks of the running context and the `acquire` or `release` it is
in, and an interrupted thread has none; `ArgInv`: no lock is taken twice;
`IntrInv`: `intena` is the interrupt bit before the outermost `push_off`, and
the bit that a thread has read there is still right when it is used, although
an interrupt may come in between. For one CPU, `LockInv` says that the words
of a lock tell who has it and that `test_and_set` always finds 0.

**Pipe.** Assumed: the counters wrap at a proper multiple of `PIPESIZE`.
`EndInv`: a call holds an open end, one process at most closes each end, and
the page goes with the second; `SleepInv`: a sleeper's condition holds, or
whoever made it false is still in its critical section, before its `wakeup`;
and at most `PIPESIZE` bytes are stored. The refinement rests on the lemmas of
`RingCounters`: the distance of two wrapping counters is the length of the
queue, and different positions of the queue are different places in the
buffer, which is where the multiple is needed.

**Disk driver.** Assumed: the ring counters wrap at a multiple of `NUM`.
`ChainInv`: each request has three descriptors of its own, filled in for it;
`CountInv`: the free ones are the rest, and each request under way is queued,
with the device or finished; `PlaceInv`: in one of these places, once;
`CallInv`: a sleeper waits for what has not happened, and an interrupt is
pending while the used ring has unseen entries; `DataInv`: a finished transfer
stays good until its caller returns. That the rings never overrun is not an
assumption: it follows from the descriptors, three to a request.

## What is only model-checked

- Liveness (`SpinEnds`, `SleeperWoken`, `InitReaps`, `KilledExits`): fairness
  and `ENABLED` are beyond the prover.
- `Sched`, `SleepLock` and `Proc`: their invariants, `ImplementsMutex`
  included, concern the hand-over of process locks between threads, and have
  no inductive strengthening here yet.
- `FileTable`, `FileSys`, `FileData`, `Console`, `Memory`, `Tcp` and `Net`.
  Several of their properties are about what a fold or a recursive function
  computes for all inputs (content of a file, walk through a page table, sums
  over references), which needs induction over data.
- The properties of `MC*` modules that join those of two parts.

## Disagreements with the code

- `spinlock_two`: `test_and_set` (`spinlock.c:14`) is a load and a store in C;
  two CPUs can both read 0 and both hold the lock, although `spinlock.c:36`
  speaks of an atomic swap. With the default of one CPU the locks do exclude,
  since interrupts are off (`OneCPUExclusion`). The modules with several CPUs
  (`Sched`, `SleepLock`, `Proc`) show that the code above the spin-locks is
  right given locks that exclude.
- `proc_kill_zero`: `kill(0)` finds the pid 0 of a free slot and sets its
  `killed`, which `allocproc` does not clear, so that the next process in the
  slot dies. The other runs of `Proc` kill real pids only.
- `file_panic`: with the descriptor table full, `sys_open` closes a file
  whose type is still `FD_NONE`, on which `fileclose` panics.

Others, met while modelling, that have no run of their own:

- A log of `LOGSIZE` blocks holds `LOGSIZE - 1` data blocks, but `begin_op`
  reserves up to `LOGSIZE` (`log.c:133` against `log.c:220`). Calls that each
  use all of `MAXOPBLOCKS` could reach "too big a transaction"; those of
  `sysfile.c` and `file.c` stay below (`Roomy`).
- A failing `connect` may lose its file; `RefsExact` of `FileTable` leaves
  sockets out for this reason.
- Nothing keeps a directory from being removed between the lookup of a path
  and the lock of its last directory. `create` then enters the new file into a
  removed directory, and the file keeps a link count of 1 without a name when
  that directory is freed; `fs.c:107-109` says that `nlink` counts the
  entries. The history field `orphan` marks such inodes, and `LinksExact`
  states the equality for all others. A lookup of `..` in a removed directory
  finds the number of the old parent, which may be free by then, and the
  `ilock` of it panics ("ilock: no type", action `ILockPanic`). `InodeStays`
  allows this one way to meet a free inode; the run goes through it in part
  `dots`.
- `tcp_close` clears the control block after its sleep without a look at it
  (`tcp.c:404`). In `LAST_ACK` the acknowledgement of the peer has already
  cleared the block when it woke the closer (`tcp.c:266-269`), so that another
  process may have opened the block in between. Its connection is then cleared
  under it: later calls fail, and a reader that sleeps on the block is not
  woken and, should a kill wake it, gets zeros. `Tcp` has this sequence; the history field `lost`
  marks the connections it hits, and `StreamKept`, `EofTrue` and
  `ReaderHasNothing` are stated for the others.
- `socket_close` compares from the second socket of the list on
  (`socket.c:84`), so that the head of a longer list stays linked when its
  page is freed. The next close that comes to it follows a pointer in a
  freed page; `Net` stops there (its variable `stopped`).
- `udp_open` with a full table returns -1, which `socket_alloc` keeps as the
  index 255 and does not test. Writes and the close are then refused, so that
  the socket stays in the list, but `udp_read` does not look at the index and
  uses memory beyond the table; `Net` stops there too.
- TCP never retransmits, so a `connect` whose SYN is lost waits forever
  (`tcp.c:448`), killed or not; nor does the loop of `udp_read` look at
  `killed`. `KilledExits` is about the sleeps of `Proc`, which do. `StreamKept`
  is about what was acknowledged and says nothing about progress.
- The test for a full transmit ring (`e1000.c:132`) never succeeds, because
  the bit it looks at is set at the start and not cleared when a descriptor is
  used. When the card falls behind by a whole ring, the tail comes round to
  the head and the card takes the ring for empty: the frames in it are not
  sent. The history variable `overrun` of `Net` says that this has happened;
  the part of `MbufsOwned` about the order of frames holds until then, the one
  about owners for ever.
- A packet that arrives between the end of the loop of `e1000_recv` and the
  read of the interrupt cause (`e1000.c:187`) waits for the next interrupt.
  `DatagramsExact` speaks of the packets taken off the ring.
- Packet buffers are lost in places: the one of a UDP socket's `socket_alloc`
  (`socket.c:45`), ARP packets and IP protocols other than UDP and TCP, and
  datagrams queued at `udp_close`. `MbufsOwned` says that no buffer is in two
  places, not that each comes back.
- Error paths that return with a lock held: the "reusing" branches of
  `tcp_open` and `udp_open`, and the failing `copyout` of `tcp_read`. The
  models leave these paths out.

## What is left out

- The LRU list of the buffer cache, and the panic when all buffers are in use.
- `FileSys` and `FileData` are checked apart, each above an atomic log:
  directory entries are a function from names in `FileSys`, so that the growth
  of a directory cannot fail there.
- `fork` and `exit` of `Proc` neither copy nor free memory; that a page cannot
  be had is a choice of `fork` (`ForkFail`). `Memory` has the pages.
- Passive opens of TCP: no call of the kernel enters `LISTEN`, so that its
  code cannot be reached. The copies kept for a retransmission, which nothing
  reads.
- The save and restore of `intena` around `swtch` (`proc.c:489-491`):
  `Spinlock` has the bit but no switch, `Sched` the switch but not the bit.
- Registers, trap frames and assembly; start-up, strings, `printf`; user
  programs except init's loop; `mkfs`; `ramdisk.c`, which is not linked.
