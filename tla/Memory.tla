------------------------------- MODULE Memory -------------------------------
(***************************************************************************)
(* Physical pages, page tables and the calls that build and destroy user   *)
(* memory: kernel/kalloc.c, kernel/vm.c, kernel/exec.c, and fork(), wait() *)
(* and sbrk() of kernel/proc.c as far as they handle memory.               *)
(*                                                                         *)
(* The processes compete for few pages.  Every kalloc() is a step, so that *)
(* it may find the memory exhausted at any point of a call that needs      *)
(* several pages; giving pages back, which cannot fail, is one step.       *)
(*                                                                         *)
(* Which free page kalloc() returns makes no difference up to a renaming   *)
(* of the pages: the free list is a set, and the lowest page is taken.     *)
(***************************************************************************)
EXTENDS Integers, Sequences, FiniteSets, TLC

CONSTANTS
    NPROC,   \* slots of the process table; slot 1 is init
    NPAGE,   \* pages of RAM
    PGSIZE,  \* bytes of a page
    SPAN,    \* pages that one page-table page maps
    VPAGES,  \* pages of the virtual address space: 2^32 / PGSIZE
    SBRK,    \* arguments of sbrk()
    SEGMENT, \* program headers that exec() meets
    MAXSEG,  \* bound on the headers of a program
    MAXARG   \* bound on the arguments of exec()

Slot == 1 .. NPROC
Page == 1 .. NPAGE
Wrap == VPAGES * PGSIZE

TRAMPOLINE == VPAGES - 1
TRAPFRAME  == VPAGES - 2
trampoline == NPAGE + 1   \* the page of kernel text, which is not RAM

\* As with 128 MB of RAM in an address space of 4 GB, the memory is exhausted
\* before a process reaches the trapframe, which shares its page-table page
\* with the trampoline.
ASSUME RamAssumption ==
    /\ NPAGE < TRAPFRAME
    /\ TRAPFRAME \div SPAN = TRAMPOLINE \div SPAN
    /\ \A ph \in SEGMENT : ph.vaddr < Wrap /\ ph.memsz < Wrap

\* The page tables: that of a process, and the one exec() builds.
Handle == Slot \X {"proc", "image"}

VARIABLES
    free,      \* kmem.freelist
    trapframe, \* p->trapframe, or 0
    tab,       \* the page tables: root page, directory, leaves
    sz,        \* p->sz, and sz of exec()
    argv,      \* argument pages of sys_exec()
    pc,        \* where each process is, "unused" for a free slot
    job,       \* locals of the call under way
    panicked

vars == <<free, trapframe, tab, sz, argv, pc, job, panicked>>

NoSegment == [vaddr |-> Wrap, memsz |-> 0]
NoTable == [root |-> 0, dir |-> <<>>, leaf |-> <<>>, noU |-> {}]
NoJob   == [op |-> "none", h |-> <<1, "proc">>, from |-> 0, a |-> 0, to |-> 0,
            mem |-> 0, segs |-> 0, ph |-> NoSegment]

PX(v)     == v \div SPAN
PgDown(x) == x \div PGSIZE
PgUp(x)   == (x + PGSIZE - 1) \div PGSIZE

Without(f, S) == [x \in DOMAIN f \ S |-> f[x]]
Values(f) == {f[x] : x \in DOMAIN f}

\* kinit(): freerange() frees all the pages of RAM.
Kinit == Page

\* The table that proc_pagetable() and uvminit() make for the first process.
InitTable ==
    [root |-> 2, dir |-> (PX(TRAPFRAME) :> 3 @@ 0 :> 5),
     leaf |-> (TRAMPOLINE :> trampoline @@ TRAPFRAME :> 1 @@ 0 :> 4),
     noU |-> {TRAMPOLINE, TRAPFRAME}]

\* userinit(): one page of code, its page tables and a trapframe.
Init ==
    /\ free = Kinit \ 1 .. 5
    /\ trapframe = [p \in Slot |-> IF p = 1 THEN 1 ELSE 0]
    /\ tab = [h \in Handle |->
                  IF h = <<1, "proc">> THEN InitTable ELSE NoTable]
    /\ sz = [h \in Handle |-> IF h = <<1, "proc">> THEN PGSIZE ELSE 0]
    /\ argv = [p \in Slot |-> <<>>]
    /\ pc = [p \in Slot |-> IF p = 1 THEN "run" ELSE "unused"]
    /\ job = [p \in Slot |-> NoJob]
    /\ panicked = 0

Goto(p, l) == pc' = [pc EXCEPT ![p] = l]

Kfree(S) == free' = free \cup S
Kalloc == CHOOSE pg \in free : \A o \in free : pg <= o

-----------------------------------------------------------------------------
(* Taking tables apart.  x.t is the table, x.fr the pages handed to        *)
(* kfree(), and x.ok is 0 once the code would have panicked.               *)

Begin(t) == [t |-> t, fr |-> {}, ok |-> 1]

\* uvmunmap()
Uvmunmap(x, V, do_free) ==
    LET W == V \cap DOMAIN x.t.leaf
    IN [t  |-> [x.t EXCEPT !.leaf = Without(@, V), !.noU = @ \ V],
        fr |-> x.fr \cup (IF do_free = 1 THEN {x.t.leaf[v] : v \in W} ELSE {}),
        ok |-> IF W = V THEN x.ok ELSE 0]

\* uvmdealloc() from page hi down to page lo, as sizes rounded up
UvmdeallocRoundsDown(x, hi, lo) ==
    Uvmunmap(x, (lo - 1 .. hi - 1) \cap DOMAIN x.t.leaf, 1)
Uvmdealloc(x, hi, lo) == Uvmunmap(x, lo .. hi - 1, 1)

\* A freewalk() that frees the root only
UvmfreeRoot(x, n) ==
    LET y == Uvmunmap(x, 0 .. n - 1, 1)
    IN [t |-> NoTable, fr |-> y.fr \cup {y.t.root}, ok |-> y.ok]

\* uvmfree() with freewalk()
Uvmfree(x, n) ==
    LET y == Uvmunmap(x, 0 .. n - 1, 1)
    IN [t  |-> NoTable,
        fr |-> y.fr \cup {y.t.root} \cup Values(y.t.dir),
        ok |-> IF DOMAIN y.t.leaf = {} THEN y.ok ELSE 0]

ProcFreepagetable(x, n) ==
    Uvmfree(Uvmunmap(Uvmunmap(x, {TRAMPOLINE}, 0), {TRAPFRAME}, 0), n)

-----------------------------------------------------------------------------
(* Calls that need memory. *)

\* allocproc() of fork(): a slot and its trapframe.  With no free slot or no
\* free page the call fails and leaves nothing behind.
Fork(p) ==
    /\ pc[p] = "run" /\ free # {}
    /\ \E np \in Slot :
          /\ pc[np] = "unused" /\ \A q \in Slot : q < np => pc[q] # "unused"
          /\ trapframe' = [trapframe EXCEPT ![np] = Kalloc]
          /\ job' = [job EXCEPT
                         ![p] = [NoJob EXCEPT !.op = "fork", !.h = <<np, "proc">>]]
          /\ pc' = [pc EXCEPT ![p] = "root", ![np] = "used"]
    /\ free' = free \ {Kalloc}
    /\ UNCHANGED <<tab, sz, argv, panicked>>

\* growproc(): a size that wraps around changes nothing.
Sbrk(p, n) ==
    /\ pc[p] = "run"
    /\ LET h == <<p, "proc">>
           newsz == (sz[h] + n) % Wrap
       IN \/ /\ n > 0 /\ newsz > sz[h]
             /\ job' = [job EXCEPT ![p] = [NoJob EXCEPT
                   !.op = "sbrk", !.h = h, !.from = PgUp(sz[h]),
                   !.a = PgUp(sz[h]), !.to = newsz]]
             /\ Goto(p, "grow")
             /\ UNCHANGED <<free, tab, sz, panicked>>
          \/ /\ n < 0 /\ newsz < sz[h]
             /\ LET x == Uvmdealloc(Begin(tab[h]), PgUp(sz[h]), PgUp(newsz))
                IN /\ tab' = [tab EXCEPT ![h] = x.t]
                   /\ Kfree(x.fr)
                   /\ panicked' = 1 - x.ok
             /\ sz' = [sz EXCEPT ![h] = newsz]
             /\ UNCHANGED <<job, pc>>
    /\ UNCHANGED <<trapframe, argv>>

\* sys_exec(): a page for each argument.
ExecCall(p) ==
    /\ pc[p] = "run"
    /\ Goto(p, "argv")
    /\ UNCHANGED <<free, trapframe, tab, sz, argv, job, panicked>>

ExecArg(p) ==
    /\ pc[p] = "argv" /\ Len(argv[p]) < MAXARG /\ free # {}
    /\ argv' = [argv EXCEPT ![p] = Append(@, Kalloc)]
    /\ free' = free \ {Kalloc}
    /\ UNCHANGED <<trapframe, tab, sz, pc, job, panicked>>

\* An argument cannot be fetched, there are too many or there is no page; or
\* exec() does not find the program.
ExecRefused(p) ==
    /\ pc[p] = "argv"
    /\ Kfree(Values(argv[p]))
    /\ argv' = [argv EXCEPT ![p] = <<>>]
    /\ Goto(p, "run")
    /\ UNCHANGED <<trapframe, tab, sz, job, panicked>>

Exec(p) ==
    /\ pc[p] = "argv"
    /\ job' = [job EXCEPT
                   ![p] = [NoJob EXCEPT !.op = "exec", !.h = <<p, "image">>]]
    /\ Goto(p, "root")
    /\ UNCHANGED <<free, trapframe, tab, sz, argv, panicked>>

-----------------------------------------------------------------------------
(* Failure: each call undoes what it has done. *)

InHand(p) == {job[p].mem} \ {0}

\* What uvmalloc() and uvmcopy() free of the table they were filling.
Undo(p) ==
    LET j == job[p]
    IN Uvmdealloc(Begin(tab[j.h]), j.a, j.from)

\* proc_freepagetable() of whatever proc_pagetable() has built so far
TakeDown(x, size) ==
    IF x.t.root = 0 THEN x
    ELSE IF x.t.dir = <<>> THEN Uvmfree(x, 0)
    ELSE ProcFreepagetable(x, PgUp(size))

\* When exec() returns, sys_exec() frees the pages of the arguments.
Arguments(p) == Values(argv[p])

\* bad: of exec() with a table x of the given size, and the end of sys_exec()
ExecBad(p, x, size) ==
    LET h == <<p, "image">>
        y == TakeDown(x, size)
    IN /\ tab' = [tab EXCEPT ![h] = y.t]
       /\ Kfree(y.fr \cup Arguments(p) \cup InHand(p))
       /\ sz' = [sz EXCEPT ![h] = 0]
       /\ panicked' = 1 - y.ok
       /\ argv' = [argv EXCEPT ![p] = <<>>]
       /\ job' = [job EXCEPT ![p] = NoJob]
       /\ Goto(p, "run")
       /\ UNCHANGED trapframe

\* freeproc() of slot s, whose table has become x
Freeproc(s, x, mem) ==
    LET h == <<s, "proc">>
        y == TakeDown(x, sz[h])
    IN /\ tab' = [tab EXCEPT ![h] = y.t]
       /\ Kfree(y.fr \cup {trapframe[s]} \cup mem)
       /\ sz' = [sz EXCEPT ![h] = 0]
       /\ trapframe' = [trapframe EXCEPT ![s] = 0]
       /\ panicked' = 1 - y.ok
       /\ UNCHANGED argv

SbrkFails(p) ==
    /\ job[p].op = "sbrk"
    /\ LET x == Undo(p)
       IN /\ tab' = [tab EXCEPT ![job[p].h] = x.t]
          /\ Kfree(x.fr \cup InHand(p))
          /\ panicked' = 1 - x.ok
    /\ job' = [job EXCEPT ![p] = NoJob]
    /\ Goto(p, "run")
    /\ UNCHANGED <<trapframe, sz, argv>>

ForkFails(p) ==
    /\ job[p].op = "fork"
    /\ Freeproc(job[p].h[1], Undo(p), InHand(p))
    /\ job' = [job EXCEPT ![p] = NoJob]
    /\ pc' = [pc EXCEPT ![p] = "run", ![job[p].h[1]] = "unused"]

ExecFails(p) ==
    /\ job[p].op = "exec"
    /\ ExecBad(p, Undo(p), sz[job[p].h])

BuildFails(p) == ForkFails(p) \/ ExecFails(p)

-----------------------------------------------------------------------------
(* proc_pagetable() *)

Uvmcreate(p) ==
    /\ pc[p] = "root"
    /\ IF free = {} THEN BuildFails(p)
       ELSE /\ tab' = [tab EXCEPT ![job[p].h] = [NoTable EXCEPT !.root = Kalloc]]
            /\ free' = free \ {Kalloc}
            /\ Goto(p, "top")
            /\ UNCHANGED <<trapframe, sz, argv, job, panicked>>

\* The trampoline and the trapframe need one page-table page.  fork() goes on
\* with uvmcopy(), exec() with the segments.
MapTop(p) ==
    /\ pc[p] = "top"
    /\ LET h == job[p].h
           s == h[1]
       IN IF free = {} THEN BuildFails(p)
          ELSE /\ tab' = [tab EXCEPT
                     ![h].dir = PX(TRAPFRAME) :> Kalloc,
                     ![h].leaf = TRAMPOLINE :> trampoline
                                 @@ TRAPFRAME :> trapframe[s],
                     ![h].noU = {TRAMPOLINE, TRAPFRAME}]
               /\ free' = free \ {Kalloc}
               /\ IF job[p].op = "fork"
                  THEN job' = [job EXCEPT ![p].to = sz[<<p, "proc">>]]
                  ELSE UNCHANGED job
               /\ Goto(p, IF job[p].op = "fork" THEN "grow" ELSE "seg")
               /\ UNCHANGED <<trapframe, sz, argv, panicked>>

-----------------------------------------------------------------------------
(* The loop of uvmalloc() and of uvmcopy() *)

More(p) == job[p].a < PgUp(job[p].to)

GrowPage(p) ==
    /\ pc[p] = "grow" /\ More(p)
    /\ IF free = {} THEN SbrkFails(p) \/ BuildFails(p)
       ELSE /\ job' = [job EXCEPT ![p].mem = Kalloc]
            /\ free' = free \ {Kalloc}
            /\ Goto(p, "map")
            /\ UNCHANGED <<trapframe, tab, sz, argv, panicked>>

\* walk() has to allocate a page-table page.
NeedsTable(t, v) == PX(v) \notin DOMAIN t.dir

\* uvmcopy() gives the page of the child the flags of the parent's.
Flags(p) ==
    IF job[p].op = "fork" THEN {job[p].a} \cap tab[<<p, "proc">>].noU ELSE {}

\* mappages() of one page
MapPage(p) ==
    /\ pc[p] = "map"
    /\ LET j == job[p]
           t == tab[j.h]
           walk == NeedsTable(t, j.a)
       IN IF walk /\ free = {} THEN SbrkFails(p) \/ BuildFails(p)
          ELSE /\ tab' = [tab EXCEPT
                     ![j.h].dir = IF walk THEN @ @@ PX(j.a) :> Kalloc ELSE @,
                     ![j.h].leaf = j.a :> j.mem @@ @,
                     ![j.h].noU = @ \cup Flags(p)]
               /\ free' = IF walk THEN free \ {Kalloc} ELSE free
               /\ job' = [job EXCEPT ![p].mem = 0, ![p].a = @ + 1]
               /\ panicked' = IF j.a \in DOMAIN t.leaf THEN 1 ELSE 0
               /\ Goto(p, "grow")
               /\ UNCHANGED <<trapframe, sz, argv>>

SbrkDone(p) ==
    /\ pc[p] = "grow" /\ ~More(p) /\ job[p].op = "sbrk"
    /\ sz' = [sz EXCEPT ![job[p].h] = job[p].to]
    /\ job' = [job EXCEPT ![p] = NoJob]
    /\ Goto(p, "run")
    /\ UNCHANGED <<free, trapframe, tab, argv, panicked>>

ForkDone(p) ==
    /\ pc[p] = "grow" /\ ~More(p) /\ job[p].op = "fork"
    /\ sz' = [sz EXCEPT ![job[p].h] = sz[<<p, "proc">>]]
    /\ job' = [job EXCEPT ![p] = NoJob]
    /\ pc' = [pc EXCEPT ![p] = "run", ![job[p].h[1]] = "run"]
    /\ UNCHANGED <<free, trapframe, tab, argv, panicked>>

-----------------------------------------------------------------------------
(* exec(), after proc_pagetable() *)

\* Room for the segment of a program header.  One that wraps around is bad.
ExecSegment(p, ph) ==
    /\ pc[p] = "seg" /\ job[p].segs < MAXSEG
    /\ LET h == job[p].h
           end == (ph.vaddr + ph.memsz) % Wrap
           to == IF end < sz[h] THEN sz[h] ELSE end
       IN IF end < ph.vaddr \/ to = 0
          THEN ExecBad(p, Begin(tab[h]), sz[h])
          ELSE /\ job' = [job EXCEPT ![p].from = PgUp(sz[h]),
                     ![p].a = PgUp(sz[h]), ![p].to = to,
                     ![p].segs = @ + 1, ![p].ph = ph]
               /\ Goto(p, "grow")
               /\ UNCHANGED <<free, trapframe, tab, sz, argv, panicked>>

\* A header that cannot be read, or with less memory than file.
ExecBadHeader(p) ==
    /\ pc[p] = "seg"
    /\ ExecBad(p, Begin(tab[job[p].h]), sz[job[p].h])

SegmentReady(p) ==
    pc[p] = "grow" /\ ~More(p) /\ job[p].op = "exec" /\ job[p].ph # NoSegment

WalkaddrAny(t, v) == IF v \in DOMAIN t.leaf THEN t.leaf[v] ELSE 0

\* walkaddr()
Walkaddr(t, v) == IF v \in DOMAIN t.leaf \ t.noU THEN t.leaf[v] ELSE 0

\* loadseg() of an aligned segment, all of which is in the file
ExecLoad(p) ==
    /\ SegmentReady(p) /\ job[p].ph.vaddr % PGSIZE = 0
    /\ LET ph == job[p].ph
           in == {PgDown(ph.vaddr) + i : i \in 0 .. PgUp(ph.memsz) - 1}
       IN panicked' = IF \E v \in in : Walkaddr(tab[job[p].h], v) = 0
                      THEN 1 ELSE 0
    /\ sz' = [sz EXCEPT ![job[p].h] = job[p].to]
    /\ job' = [job EXCEPT ![p].ph = NoSegment]
    /\ Goto(p, "seg")
    /\ UNCHANGED <<free, trapframe, tab, argv>>

\* The segment is not aligned, or readi() fails.
ExecLoadFails(p) ==
    /\ SegmentReady(p)
    /\ ExecBad(p, Begin(tab[job[p].h]), job[p].to)

\* Two pages above the last segment, a guard page and the stack.
ExecStack(p) ==
    /\ pc[p] = "seg"
    /\ LET h == job[p].h
           n == PgUp(sz[h])
       IN /\ sz' = [sz EXCEPT ![h] = n * PGSIZE]
          /\ job' = [job EXCEPT ![p].from = n, ![p].a = n,
                                ![p].to = (n + 2) * PGSIZE]
    /\ Goto(p, "grow")
    /\ UNCHANGED <<free, trapframe, tab, argv, panicked>>

StackReady(p) ==
    pc[p] = "grow" /\ ~More(p) /\ job[p].op = "exec" /\ job[p].ph = NoSegment

\* The arguments do not fit on the stack.
ExecArgsFail(p) ==
    /\ StackReady(p)
    /\ ExecBad(p, Begin(tab[job[p].h]), job[p].to)

\* The new image replaces the old one, which is freed.
ExecCommit(p) ==
    /\ StackReady(p)
    /\ LET h == <<p, "proc">>
           old == ProcFreepagetable(Begin(tab[h]), PgUp(sz[h]))
           g == PgUp(job[p].to) - 2
       IN /\ tab' = [tab EXCEPT ![h] = [tab[job[p].h] EXCEPT !.noU = @ \cup {g}],
                                ![job[p].h] = NoTable]
          /\ sz' = [sz EXCEPT ![h] = job[p].to, ![job[p].h] = 0]
          /\ Kfree(old.fr \cup Arguments(p))
          /\ panicked' = IF g \in DOMAIN tab[job[p].h].leaf
                         THEN 1 - old.ok ELSE 1
    /\ argv' = [argv EXCEPT ![p] = <<>>]
    /\ job' = [job EXCEPT ![p] = NoJob]
    /\ Goto(p, "run")
    /\ UNCHANGED trapframe

-----------------------------------------------------------------------------
(* exit(), and wait() in the parent *)

Exit(p) ==
    /\ p # 1 /\ pc[p] = "run"
    /\ Goto(p, "zombie")
    /\ UNCHANGED <<free, trapframe, tab, sz, argv, job, panicked>>

Wait(p, c) ==
    /\ pc[p] = "run" /\ pc[c] = "zombie"
    /\ Freeproc(c, Begin(tab[<<c, "proc">>]), {})
    /\ Goto(c, "unused")
    /\ UNCHANGED job

-----------------------------------------------------------------------------
(* copyout(), copyin() and copyinstr(), on the bytes of a page table        *)

\* How many of n bytes at a are in its page, and the start of the next page
InPage(a, n) ==
    LET k == PGSIZE - (a % PGSIZE) IN IF k > n THEN n ELSE k
NextPage(a) == ((PgDown(a) + 1) * PGSIZE) % Wrap

\* The physical bytes that a copy of len bytes at va goes through, in order,
\* and whether it comes to its end.
CopyBytes(t, va, len) ==
    LET loop[a \in 0 .. Wrap - 1, n \in 0 .. len] ==
          LET pa == Walkaddr(t, PgDown(a))
              k  == InPage(a, n)
              rest == loop[NextPage(a), n - k]
          IN IF n = 0 THEN [bytes |-> <<>>, ret |-> 0]
             ELSE IF pa = 0 THEN [bytes |-> <<>>, ret |-> -1]
             ELSE [bytes |-> [i \in 1 .. k |-> pa * PGSIZE + (a % PGSIZE) + i - 1]
                             \o rest.bytes,
                   ret |-> rest.ret]
    IN loop[va, len]

\* copyinstr() from memory in which the bytes of Z are 0.
CopyString(t, va, max, Z) ==
    LET loop[a \in 0 .. Wrap - 1, n \in 0 .. max] ==
          LET pa == Walkaddr(t, PgDown(a))
              k  == InPage(a, n)
              at(i) == pa * PGSIZE + (a % PGSIZE) + i - 1
              nul == {i \in 1 .. k : at(i) \in Z}
              rest == loop[NextPage(a), n - k]
          IN IF n = 0 \/ pa = 0 THEN -1
             ELSE IF nul # {} THEN 0
             ELSE rest
    IN loop[va, max]

-----------------------------------------------------------------------------
Build(p) == Uvmcreate(p) \/ MapTop(p) \/ GrowPage(p) \/ MapPage(p)

ExecStep(p) ==
    \/ ExecArg(p) \/ ExecRefused(p) \/ Exec(p)
    \/ (\E ph \in SEGMENT : ExecSegment(p, ph)) \/ ExecBadHeader(p)
    \/ ExecLoad(p) \/ ExecLoadFails(p) \/ ExecStack(p) \/ ExecArgsFail(p)
    \/ ExecCommit(p)

Next ==
    /\ panicked = 0
    /\ \E p \in Slot :
          \/ Fork(p) \/ ExecCall(p) \/ (\E n \in SBRK : Sbrk(p, n))
          \/ Build(p) \/ SbrkDone(p) \/ ForkDone(p) \/ ExecStep(p)
          \/ Exit(p) \/ (\E c \in Slot : Wait(p, c))

Spec == Init /\ [][Next]_vars

-----------------------------------------------------------------------------
(* Properties. *)

UserPages(t) == DOMAIN t.leaf \ {TRAMPOLINE, TRAPFRAME}

\* The places that hold a page, each with its page.
Holdings ==
    {<<"trapframe", p, trapframe[p]>> : p \in {q \in Slot : trapframe[q] # 0}}
    \cup {<<"mem", p, job[p].mem>> : p \in {q \in Slot : job[q].mem # 0}}
    \cup {<<"root", h, tab[h].root>> : h \in {g \in Handle : tab[g].root # 0}}
    \cup UNION {{<<"argv", <<p, i>>, argv[p][i]>> : i \in DOMAIN argv[p]}
                : p \in Slot}
    \cup UNION {{<<"dir", <<h, i>>, tab[h].dir[i]>> : i \in DOMAIN tab[h].dir}
                \cup {<<"leaf", <<h, v>>, tab[h].leaf[v]>> :
                         v \in UserPages(tab[h])} : h \in Handle}

\* kalloc.c:47-82, vm.c:221-330, exec.c:121-128 and proc.c:150-210: no page is
\* lost and none is used twice.  Whatever call fails at whatever point, a page
\* is free or has one owner: a trapframe, a page table, the memory of one
\* process, or a call under way.
PagesOwned ==
    /\ {x[3] : x \in Holdings} = Page \ free
    /\ Cardinality(Holdings) = NPAGE - Cardinality(free)

\* proc.c:250-268, exec.c:67-117 and vm.c:167-188, 268-343: a process that is
\* not in the middle of sbrk() has its memory mapped from 0 up to its size,
\* and nothing else but the trampoline and its own trapframe; no function of
\* vm.c panics on the tables that the calls leave behind, finished or failed.
ImageSound ==
    /\ panicked = 0
    /\ \A p \in Slot :
          LET t == tab[<<p, "proc">>]
          IN pc[p] \notin {"unused", "used"} /\ job[p].op # "sbrk" =>
               /\ UserPages(t) = 0 .. PgUp(sz[<<p, "proc">>]) - 1
               /\ t.leaf[TRAPFRAME] = trapframe[p]
               /\ DOMAIN t.leaf \subseteq {v \in 0 .. VPAGES - 1 :
                                             PX(v) \in DOMAIN t.dir}

\* vm.c:345-436: a copy between kernel and user memory touches exactly the
\* bytes that the addresses name, in order, stops before the first page that
\* is not the user's (the guard page of the stack, the trapframe, beyond the
\* size or beyond the end of the address space), and succeeds only if it got to
\* the end; a string ends at its first 0.  (Tables depend on their own process
\* alone, so it is enough to look when the others are at rest.)
CopiesExact ==
    \A p \in {q \in Slot : /\ pc[q] = "run"
                           /\ \A o \in Slot : pc[o] \in {"run", "unused"}} :
      LET t == tab[<<p, "proc">>]
          user(a) == a < Wrap /\ PgDown(a) \in UserPages(t) \ t.noU
          byte(a) == t.leaf[PgDown(a)] * PGSIZE + (a % PGSIZE)
      IN \A va \in 0 .. Wrap - 1, len \in 0 .. 2 * PGSIZE :
           LET c == CopyBytes(t, va, len)
               good == {n \in 0 .. len : \A i \in 0 .. n - 1 : user(va + i)}
               most == CHOOSE n \in good : \A m \in good : m <= n
           IN /\ c.ret = IF most = len THEN 0 ELSE -1
              /\ Len(c.bytes) = most
              /\ \A i \in 1 .. most : c.bytes[i] = byte(va + i - 1)
              /\ \A z \in va .. va + len :
                    user(z) => CopyString(t, va, len, {byte(z)})
                        = IF \A i \in va .. z : user(i) /\ z < va + len
                          THEN 0 ELSE -1
=============================================================================
