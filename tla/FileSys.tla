------------------------------ MODULE FileSys -------------------------------
(***************************************************************************)
(* Inodes and directories: the in-memory inode table of kernel/fs.c, path  *)
(* lookup, and the calls of kernel/sysfile.c that change the tree.         *)
(*                                                                         *)
(* The disk is seen through the log: what a call writes is seen at once by *)
(* the others.  An action is a section under itable.lock, or the part of a *)
(* call from an ilock(), where it may wait for the inode's sleep-lock, to  *)
(* the next ilock() or iput().                                             *)
(* begin_op() and end_op() only delay a call and are left out, and so are  *)
(* the contents of files and their blocks.                                 *)
(***************************************************************************)
EXTENDS Naturals, Sequences, FiniteSets

CONSTANTS
    Proc,
    Name,    \* names of directory entries
    NINUM,   \* the highest inode number, sb.ninodes - 1
    NINODE,  \* size of the in-memory table
    Calls    \* what the program of each process may call: a call with its
             \* path or paths, sequences of names, "/", "." and ".."

VARIABLES
    dinode,  \* inodes on disk and, of a directory, its entries
    itable,  \* the in-memory inodes
    lock,    \* the holder of each inode's sleep-lock
    cwd,     \* p->cwd
    file,    \* an open file of the process, 0 when none
    r,       \* the call's arguments and its local inode pointers
    pc,
    put,     \* the inode passed to iput(), and where it returns
    panicked

vars == <<dinode, itable, lock, cwd, file, r, pc, put, panicked>>

Inum == 1 .. NINUM
Slot == 1 .. NINODE

ROOTINO == 1

\* orphan, a history: the only name of the inode went with the directory that
\* held it.
Free == [type |-> "none", nlink |-> 0, entry |-> [n \in Name |-> 0], up |-> 0,
         orphan |-> FALSE]
EmptySlot == [inum |-> 0, ref |-> 0, valid |-> 0, type |-> "none", nlink |-> 0]
Local == [op |-> "none", path |-> <<>>, new |-> <<>>, ip |-> 0, dp |-> 0,
          old |-> 0, inum |-> 0]
NoPut == [ip |-> 0, ret |-> "none"]

Init ==
    /\ dinode = [i \in Inum |->
                    IF i = ROOTINO
                    THEN [Free EXCEPT !.type = "dir", !.nlink = 1, !.up = 1]
                    ELSE Free]
    /\ itable = [s \in Slot |->
                    IF s = 1
                    THEN [EmptySlot EXCEPT !.inum = ROOTINO,
                                           !.ref = Cardinality(Proc)]
                    ELSE EmptySlot]
    /\ lock = [s \in Slot |-> {}]
    /\ cwd = [p \in Proc |-> 1]
    /\ file = [p \in Proc |-> 0]
    /\ r = [p \in Proc |-> Local]
    /\ pc = [p \in Proc |-> "user"]
    /\ put = [p \in Proc |-> NoPut]
    /\ panicked = "no"

Up == panicked = "no"
At(p, l) == Up /\ pc[p] = l
Goto(p, l) == pc' = [pc EXCEPT ![p] = l]
Panic(why) ==
    panicked' = why
    /\ UNCHANGED <<dinode, itable, lock, cwd, file, r, pc, put>>

Lowest(S) == CHOOSE i \in S : \A j \in S : i <= j

-----------------------------------------------------------------------------
(* iget() in the table t: the slot that already holds inode i, or the      *)
(* first empty one.                                                        *)

Holding(t, i) == {s \in Slot : t[s].ref > 0 /\ t[s].inum = i}
Empty(t) == {s \in Slot : t[s].ref = 0}
CanGet(t, i) == Holding(t, i) # {} \/ Empty(t) # {}
GetSlot(t, i) ==
    Lowest(IF Holding(t, i) # {} THEN Holding(t, i) ELSE Empty(t))
Got(t, i) ==
    IF Holding(t, i) # {}
    THEN [t EXCEPT ![GetSlot(t, i)].ref = @ + 1]
    ELSE [t EXCEPT ![GetSlot(t, i)] = [EmptySlot EXCEPT !.inum = i, !.ref = 1]]

(* ilock() *)

\* ilock() reads the inode from disk when the slot is not valid.
Loaded(s) ==
    IF itable[s].valid = 1 THEN itable[s]
    ELSE [itable[s] EXCEPT !.valid = 1,
                           !.type = dinode[itable[s].inum].type,
                           !.nlink = dinode[itable[s].inum].nlink]

\* The process gets the lock of s; the table is then With(s).  Where ilock()
\* panics see ILockPanic.
ILock(s) ==
    /\ itable[s].ref >= 1 /\ lock[s] = {}
    /\ itable[s].valid = 0 => Loaded(s).type # "none"
With(s) == [itable EXCEPT ![s] = Loaded(s)]

Locked(p, s) == [lock EXCEPT ![s] = {p}]
Unlocked(s) == [lock EXCEPT ![s] = {}]

\* Calls iput(s), which returns to l.
IPut(p, s, l) ==
    /\ Goto(p, "iput")
    /\ put' = [put EXCEPT ![p] = [ip |-> s, ret |-> l]]

\* The end of a call.
Return(p) == r' = [r EXCEPT ![p] = Local]

\* A change of nlink in the table t, and the iupdate() that follows.
Links(t, s, n) == [t EXCEPT ![s].nlink = n]
DiskLinks(d, s, n) == [d EXCEPT ![itable[s].inum].nlink = n]

-----------------------------------------------------------------------------
(* iput() *)

LastUseAnyLinks(s) == itable[s].ref = 1 /\ itable[s].valid = 1
LastUse(s) == itable[s].ref = 1 /\ itable[s].valid = 1 /\ itable[s].nlink = 0

\* The fields of an empty slot mean nothing and are reset.
Dropped(s) ==
    [itable EXCEPT ![s] = IF @.ref = 1 THEN EmptySlot
                          ELSE [@ EXCEPT !.ref = @ - 1]]

\* The caller holds itable.lock, so it must not sleep for the inode's lock.
IPutStart(p) ==
    /\ At(p, "iput")
    /\ LET s == put[p].ip
       IN IF LastUse(s)
          THEN IF lock[s] # {} THEN Panic("sched locks")
               ELSE /\ lock' = Locked(p, s)
                    /\ Goto(p, "itrunc")
                    /\ UNCHANGED <<dinode, itable, cwd, file, r, put, panicked>>
          ELSE /\ itable' = Dropped(s)
               /\ Goto(p, put[p].ret)
               /\ put' = [put EXCEPT ![p] = NoPut]
               /\ UNCHANGED <<dinode, lock, cwd, file, r, panicked>>

\* itrunc(), the type set to 0, iupdate(), valid = 0 and releasesleep().
FreedValid(s) == [itable EXCEPT ![s].type = "none"]
Freed(s) == [itable EXCEPT ![s].type = "none", ![s].valid = 0]

IPutFree(p) ==
    /\ At(p, "itrunc")
    /\ LET s == put[p].ip
           i == itable[s].inum
       IN /\ dinode' = [j \in Inum |->
                 IF j = i THEN Free
                 ELSE [dinode[j] EXCEPT !.orphan =
                          @ \/ \E n \in Name : dinode[i].entry[n] = j]]
          /\ itable' = Freed(s)
          /\ lock' = Unlocked(s)
    /\ Goto(p, "ref--")
    /\ UNCHANGED <<cwd, file, r, put, panicked>>

IPutDone(p) ==
    /\ At(p, "ref--")
    /\ itable' = Dropped(put[p].ip)
    /\ Goto(p, put[p].ret)
    /\ put' = [put EXCEPT ![p] = NoPut]
    /\ UNCHANGED <<dinode, lock, cwd, file, r, panicked>>

-----------------------------------------------------------------------------
(* System calls: their arguments, and the start of namex(). *)

Elements(path) == SelectSeq(path, LAMBDA n : n # "/")

StartSlot(p, path) == IF path[1] = "/" THEN GetSlot(itable, ROOTINO) ELSE cwd[p]
StartTable(p, path) ==
    IF path[1] = "/" THEN Got(itable, ROOTINO)
    ELSE [itable EXCEPT ![cwd[p]].ref = @ + 1]      \* idup()

Call(p, c) ==
    /\ At(p, "user")
    /\ c[1] \in {"open", "create"} => file[p] = 0
    /\ r' = [r EXCEPT ![p] =
                 [Local EXCEPT !.op = c[1], !.path = Elements(c[2]),
                               !.new = IF c[1] = "link" THEN c[3] ELSE <<>>,
                               !.ip = StartSlot(p, c[2])]]
    /\ itable' = StartTable(p, c[2])
    /\ Goto(p, "walk")
    /\ UNCHANGED <<dinode, lock, cwd, file, put, panicked>>

Close(p) ==
    /\ At(p, "user") /\ file[p] # 0
    /\ file' = [file EXCEPT ![p] = 0]
    /\ IPut(p, file[p], "user")
    /\ UNCHANGED <<dinode, itable, lock, cwd, r, panicked>>

-----------------------------------------------------------------------------
(* namex() and dirlookup() *)

\* The call looks for the parent of its path, with nameiparent().
Parent(p) == r[p].op \in {"create", "mkdir", "mknod", "unlink", "link2"}

Lookup(s, n) ==
    LET i == itable[s].inum
    IN CASE n = "."  -> i
         [] n = ".." -> dinode[i].up
         [] OTHER    -> dinode[i].entry[n]

\* Where a call goes on when the lookup fails.
Fail(p) ==
    IF r[p].op = "link2" THEN r' = [r EXCEPT ![p].ip = 0, ![p].path = <<>>]
    ELSE Return(p)
FailLabel(p) == IF r[p].op = "link2" THEN "bad" ELSE "user"

\* One turn of the loop: the lock is given up before the next inode's is
\* taken.
Walk(p) ==
    /\ At(p, "walk") /\ r[p].path # <<>> /\ ILock(r[p].ip)
    /\ LET s    == r[p].ip
           t    == With(s)
           i    == Lookup(s, Head(r[p].path))
           last == Parent(p) /\ Len(r[p].path) = 1
       IN \/ /\ t[s].type # "dir" \/ (~last /\ i = 0)
             /\ itable' = t
             /\ IPut(p, s, FailLabel(p)) /\ Fail(p)
             /\ UNCHANGED panicked
          \/ /\ t[s].type = "dir" /\ last
             /\ itable' = t
             /\ r' = [r EXCEPT ![p].dp = s, ![p].ip = 0]
             /\ Goto(p, "parent")
             /\ UNCHANGED <<put, panicked>>
          \/ /\ t[s].type = "dir" /\ ~last /\ i # 0
             /\ IF CanGet(t, i)
                THEN /\ itable' = Got(t, i)
                     /\ r' = [r EXCEPT ![p].ip = GetSlot(t, i),
                                       ![p].path = Tail(@)]
                     /\ IPut(p, s, "walk")
                     /\ UNCHANGED panicked
                ELSE /\ panicked' = "iget: no inodes"
                     /\ UNCHANGED <<itable, r, pc, put>>
    /\ UNCHANGED <<dinode, lock, cwd, file>>

\* nameiparent() of a path without elements.
WalkNoName(p) ==
    /\ At(p, "walk") /\ r[p].path = <<>> /\ Parent(p)
    /\ IPut(p, r[p].ip, FailLabel(p)) /\ Fail(p)
    /\ UNCHANGED <<dinode, itable, lock, cwd, file, panicked>>

\* namei() has returned the inode that the call op now locks.
Found(p, op) ==
    At(p, "walk") /\ r[p].path = <<>> /\ r[p].op = op /\ ILock(r[p].ip)

-----------------------------------------------------------------------------
(* open() of a file that exists, and chdir() *)

\* The call fails for a directory that is not opened for reading only, and
\* when no file or descriptor is left.
Open(p) ==
    /\ Found(p, "open")
    /\ itable' = With(r[p].ip)
    /\ \/ /\ file' = [file EXCEPT ![p] = r[p].ip]
          /\ Goto(p, "user")
          /\ UNCHANGED put
       \/ /\ IPut(p, r[p].ip, "user")
          /\ UNCHANGED file
    /\ Return(p)
    /\ UNCHANGED <<dinode, lock, cwd, panicked>>

Chdir(p) ==
    /\ Found(p, "chdir")
    /\ itable' = With(r[p].ip)
    /\ IF With(r[p].ip)[r[p].ip].type = "dir"
       THEN IPut(p, cwd[p], "user") /\ cwd' = [cwd EXCEPT ![p] = r[p].ip]
       ELSE IPut(p, r[p].ip, "user") /\ UNCHANGED cwd
    /\ Return(p)
    /\ UNCHANGED <<dinode, lock, file, panicked>>

-----------------------------------------------------------------------------
(* unlink() *)

Last(p) == Head(r[p].path)
Entry(p) == Lookup(r[p].dp, Last(p))
Dots == {".", ".."}

\* The parent directory is locked, and its entry looked up.
ParentLocked(p, ops) ==
    At(p, "parent") /\ r[p].op \in ops /\ ILock(r[p].dp)

UnlinkNothing(p) ==
    /\ ParentLocked(p, {"unlink"}) /\ (Last(p) \in Dots \/ Entry(p) = 0)
    /\ itable' = With(r[p].dp)
    /\ IPut(p, r[p].dp, "user") /\ Return(p)
    /\ UNCHANGED <<dinode, lock, cwd, file, panicked>>

\* The directory stays locked until its entry is gone.
KeepLock(p) == Locked(p, r[p].dp)

UnlinkFound(p) ==
    /\ ParentLocked(p, {"unlink"}) /\ Last(p) \notin Dots /\ Entry(p) # 0
    /\ LET t == With(r[p].dp)
       IN IF CanGet(t, Entry(p))
          THEN /\ itable' = Got(t, Entry(p))
               /\ r' = [r EXCEPT ![p].ip = GetSlot(t, Entry(p))]
               /\ lock' = KeepLock(p)
               /\ Goto(p, "child")
               /\ UNCHANGED <<dinode, cwd, file, put, panicked>>
          ELSE Panic("iget: no inodes")

IsDirEmpty(i) == \A n \in Name : dinode[i].entry[n] = 0

\* The child is locked too.  A directory that is removed gives back the link
\* of its "..".
Unlink(p) ==
    /\ At(p, "child") /\ ILock(r[p].ip)
    /\ LET s   == r[p].ip
           d   == r[p].dp
           t   == With(s)
           i   == t[s].inum
           n   == itable[d].nlink - 1
           cut == [dinode EXCEPT ![itable[d].inum].entry[Last(p)] = 0]
       IN IF t[s].nlink < 1 THEN Panic("unlink: nlink < 1")
          ELSE /\ \/ /\ t[s].type = "dir" /\ ~IsDirEmpty(i)
                     /\ itable' = t
                     /\ IPut(p, s, "refused")
                     /\ r' = [r EXCEPT ![p].ip = 0]
                     /\ UNCHANGED <<dinode, lock>>
                  \/ /\ t[s].type = "dir" => IsDirEmpty(i)
                     /\ IF t[s].type = "dir"
                        THEN /\ dinode' = DiskLinks(cut, d, n)
                             /\ itable' = Links(t, d, n)
                        ELSE dinode' = cut /\ itable' = t
                     /\ lock' = [Locked(p, s) EXCEPT ![d] = {}]
                     /\ IPut(p, d, "unlinked")
                     /\ r' = [r EXCEPT ![p].dp = 0, ![p].path = <<>>]
               /\ UNCHANGED <<cwd, file, panicked>>

UnlinkRefused(p) ==
    /\ At(p, "refused")
    /\ lock' = Unlocked(r[p].dp)
    /\ IPut(p, r[p].dp, "user") /\ Return(p)
    /\ UNCHANGED <<dinode, itable, cwd, file, panicked>>

Unlinked(p) ==
    /\ At(p, "unlinked")
    /\ LET s == r[p].ip
       IN /\ dinode' = DiskLinks(dinode, s, itable[s].nlink - 1)
          /\ itable' = Links(itable, s, itable[s].nlink - 1)
          /\ lock' = Unlocked(s)
          /\ IPut(p, s, "user") /\ Return(p)
    /\ UNCHANGED <<cwd, file, panicked>>

-----------------------------------------------------------------------------
(* create(), for open() with O_CREATE, mkdir() and mknod() *)

CreateFound(p) ==
    /\ ParentLocked(p, {"create", "mkdir", "mknod"}) /\ Entry(p) # 0
    /\ LET t == With(r[p].dp)
       IN IF CanGet(t, Entry(p))
          THEN /\ itable' = Got(t, Entry(p))
               /\ r' = [r EXCEPT ![p].ip = GetSlot(t, Entry(p)), ![p].dp = 0,
                                 ![p].path = <<>>]
               /\ IPut(p, r[p].dp, "existing")
               /\ UNCHANGED <<dinode, lock, cwd, file, panicked>>
          ELSE Panic("iget: no inodes")

\* open() with the inode of create(), which it keeps in a file when there is
\* one left; mkdir() and mknod() drop it.
Finish(p) ==
    /\ \/ /\ r[p].op = "create"
          /\ file' = [file EXCEPT ![p] = r[p].ip]
          /\ Goto(p, "user")
          /\ UNCHANGED put
       \/ IPut(p, r[p].ip, "user") /\ UNCHANGED file
    /\ Return(p)

\* The name exists: open() takes a file or a device, everything else fails.
Existing(p) ==
    /\ At(p, "existing") /\ ILock(r[p].ip)
    /\ itable' = With(r[p].ip)
    /\ IF r[p].op = "create" /\ With(r[p].ip)[r[p].ip].type # "dir"
       THEN Finish(p)
       ELSE IPut(p, r[p].ip, "user") /\ Return(p) /\ UNCHANGED file
    /\ UNCHANGED <<dinode, lock, cwd, panicked>>

NewType(op) ==
    CASE op = "create" -> "file"
      [] op = "mkdir" -> "dir"
      [] op = "mknod" -> "dev"

FreeInums == {i \in Inum : dinode[i].type = "none"}

\* ialloc() marks an inode on disk, and then calls iget().
IAlloc(p) ==
    /\ ParentLocked(p, {"create", "mkdir", "mknod"}) /\ Entry(p) = 0
    /\ IF FreeInums = {} THEN Panic("ialloc: no inodes")
       ELSE LET i == Lowest(FreeInums)
            IN /\ dinode' = [dinode EXCEPT ![i].type = NewType(r[p].op)]
               /\ itable' = With(r[p].dp)
               /\ lock' = Locked(p, r[p].dp)
               /\ r' = [r EXCEPT ![p].inum = i]
               /\ Goto(p, "ialloc")
               /\ UNCHANGED <<cwd, file, put, panicked>>

IAllocGet(p) ==
    /\ At(p, "ialloc")
    /\ LET i == r[p].inum
       IN IF CanGet(itable, i)
          THEN /\ itable' = Got(itable, i)
               /\ r' = [r EXCEPT ![p].ip = GetSlot(itable, i), ![p].inum = 0]
               /\ Goto(p, "new")
               /\ UNCHANGED <<dinode, lock, cwd, file, put, panicked>>
          ELSE Panic("iget: no inodes")

\* dirlink() writes an entry for inode i into directory u.
DirLink(d, u, name, i) == [d EXCEPT ![u].entry[name] = i]

\* nlink = 1, "." and ".." with the link to the parent, and the new entry.
Create(p) ==
    /\ At(p, "new") /\ ILock(r[p].ip)
    /\ LET s == r[p].ip
           d == r[p].dp
           i == itable[s].inum
           u == itable[d].inum
           n == itable[d].nlink + IF r[p].op = "mkdir" THEN 1 ELSE 0
           made == [dinode EXCEPT
                       ![i].nlink = 1,
                       ![i].up = IF r[p].op = "mkdir" THEN u ELSE 0,
                       ![u].nlink = n]
       IN /\ dinode' = DirLink(made, u, Last(p), i)
          /\ itable' = Links(Links(With(s), s, 1), d, n)
          /\ lock' = [Locked(p, s) EXCEPT ![d] = {}]
          /\ IPut(p, d, "created")
    /\ r' = [r EXCEPT ![p].dp = 0, ![p].path = <<>>]
    /\ UNCHANGED <<cwd, file, panicked>>

Created(p) ==
    /\ At(p, "created")
    /\ lock' = Unlocked(r[p].ip)
    /\ Finish(p)
    /\ UNCHANGED <<dinode, itable, cwd, panicked>>

-----------------------------------------------------------------------------
(* link(): the link is counted first, and taken back when the new name     *)
(* cannot be entered.                                                      *)

Link(p) ==
    /\ Found(p, "link")
    /\ LET s == r[p].ip
           t == With(s)
       IN IF t[s].type = "dir"
          THEN /\ itable' = t
               /\ IPut(p, s, "user") /\ Return(p)
               /\ UNCHANGED dinode
          ELSE /\ dinode' = DiskLinks(dinode, s, t[s].nlink + 1)
               /\ itable' = Links(t, s, t[s].nlink + 1)
               /\ r' = [r EXCEPT ![p].old = s, ![p].ip = 0]
               /\ Goto(p, "nameiparent")
               /\ UNCHANGED put
    /\ UNCHANGED <<lock, cwd, file, panicked>>

LinkWalk(p) ==
    /\ At(p, "nameiparent")
    /\ r' = [r EXCEPT ![p].op = "link2", ![p].path = Elements(r[p].new),
                      ![p].new = <<>>, ![p].ip = StartSlot(p, r[p].new)]
    /\ itable' = StartTable(p, r[p].new)
    /\ Goto(p, "walk")
    /\ UNCHANGED <<dinode, lock, cwd, file, put, panicked>>

LinkEntry(p) ==
    /\ ParentLocked(p, {"link2"}) /\ Entry(p) = 0
    /\ dinode' = DirLink(dinode, itable[r[p].dp].inum, Last(p),
                         itable[r[p].old].inum)
    /\ itable' = With(r[p].dp)
    /\ IPut(p, r[p].dp, "linked")
    /\ r' = [r EXCEPT ![p].dp = 0, ![p].path = <<>>]
    /\ UNCHANGED <<lock, cwd, file, panicked>>

Linked(p) ==
    /\ At(p, "linked")
    /\ IPut(p, r[p].old, "user") /\ Return(p)
    /\ UNCHANGED <<dinode, itable, lock, cwd, file, panicked>>

\* dirlink() finds the name, and drops the inode that it found.
LinkFound(p) ==
    /\ ParentLocked(p, {"link2"}) /\ Entry(p) # 0
    /\ LET t == With(r[p].dp)
       IN IF CanGet(t, Entry(p))
          THEN /\ itable' = Got(t, Entry(p))
               /\ lock' = Locked(p, r[p].dp)
               /\ IPut(p, GetSlot(t, Entry(p)), "exists")
               /\ UNCHANGED <<dinode, cwd, file, r, panicked>>
          ELSE Panic("iget: no inodes")

LinkExists(p) ==
    /\ At(p, "exists")
    /\ lock' = Unlocked(r[p].dp)
    /\ IPut(p, r[p].dp, "bad")
    /\ r' = [r EXCEPT ![p].dp = 0, ![p].path = <<>>]
    /\ UNCHANGED <<dinode, itable, cwd, file, panicked>>

LinkBad(p) ==
    /\ At(p, "bad") /\ ILock(r[p].old)
    /\ LET s == r[p].old
           n == With(s)[s].nlink - 1
       IN /\ dinode' = DiskLinks(dinode, s, n)
          /\ itable' = Links(With(s), s, n)
          /\ IPut(p, s, "user") /\ Return(p)
    /\ UNCHANGED <<lock, cwd, file, panicked>>

-----------------------------------------------------------------------------
\* The inode that the process is about to lock, 0 when none.
WaitsFor(p) ==
    CASE pc[p] = "walk" /\ ~(r[p].path = <<>> /\ Parent(p)) -> r[p].ip
      [] pc[p] \in {"child", "existing", "new"} -> r[p].ip
      [] pc[p] = "parent" -> r[p].dp
      [] pc[p] = "bad" -> r[p].old
      [] OTHER -> 0

\* The inode that ilock() reads from disk is free.
ILockPanic(p) ==
    /\ Up /\ WaitsFor(p) # 0 /\ lock[WaitsFor(p)] = {} /\ ~ILock(WaitsFor(p))
    /\ Panic("ilock: no type")

\* panic() stops everything.
Halted == ~Up /\ UNCHANGED vars

Step(p) ==
    \/ IPutStart(p) \/ IPutFree(p) \/ IPutDone(p)
    \/ Walk(p) \/ WalkNoName(p) \/ Open(p) \/ Chdir(p)
    \/ UnlinkNothing(p) \/ UnlinkFound(p) \/ Unlink(p) \/ UnlinkRefused(p)
    \/ Unlinked(p)
    \/ CreateFound(p) \/ Existing(p) \/ IAlloc(p) \/ IAllocGet(p)
    \/ Create(p) \/ Created(p)
    \/ Link(p) \/ LinkWalk(p) \/ LinkEntry(p) \/ Linked(p) \/ LinkFound(p)
    \/ LinkExists(p) \/ LinkBad(p)
    \/ ILockPanic(p)

Next ==
    \/ \E p \in Proc :
          \/ Step(p)
          \/ Close(p)
          \/ \E c \in Calls[p] : Call(p, c)
    \/ Halted

Spec == Init /\ [][Next]_vars

-----------------------------------------------------------------------------
(* Properties. *)

\* fs.c:242-273: an inode has one entry in the table at a time, so that its
\* lock excludes and its copies do not diverge.
OneSlot ==
    \A s, t \in Slot :
        /\ itable[s].ref > 0 /\ itable[t].ref > 0
        /\ itable[s].inum = itable[t].inum
        => s = t

\* The pointers to slot s in current directories, open files and calls.
Pointers(s) ==
      Cardinality({p \in Proc : cwd[p] = s})
    + Cardinality({p \in Proc : file[p] = s})
    + Cardinality({p \in Proc : put[p].ip = s})
    + Cardinality({x \in Proc \X {"ip", "dp", "old"} : r[x[1]][x[2]] = s})

\* fs.c:121-127: ip->ref is the number of pointers to the entry, in every
\* path through the calls, the failing ones included.
RefsExact == Up => \A s \in Slot : itable[s].ref = Pointers(s)

\* fs.c:129-137: the copy of an inode in the table is what is on disk, unless
\* its lock is held or it is not valid.
Coherent ==
    \A s \in Slot :
        itable[s].ref > 0 /\ itable[s].valid = 1 /\ lock[s] = {} =>
            /\ itable[s].type = dinode[itable[s].inum].type
            /\ itable[s].nlink = dinode[itable[s].inum].nlink

\* The names of inode i.
Names(i) ==
    {x \in Inum \X Name :
        dinode[x[1]].type = "dir" /\ dinode[x[1]].entry[x[2]] = i}

\* fs.c:325-357 and sysfile.c:120-285: an inode that has a name is allocated
\* and counts all its names, so that iput() never frees it.
NamesCovered ==
    \A i \in Inum : Names(i) # {} =>
        dinode[i].type # "none" /\ dinode[i].nlink >= Cardinality(Names(i))

\* What the link count of i is made of: its names, the root's own link, and
\* ".." in the directories below it.
LinksOf(i) ==
      Cardinality(Names(i))
    + (IF i = ROOTINO THEN 1 ELSE 0)
    + Cardinality({d \in Inum \ {ROOTINO} :
                      dinode[d].type = "dir" /\ dinode[d].up = i /\ Names(d) # {}})

\* sysfile.c:120-285: between calls the link counts are exact, whatever calls
\* have raced or failed.  The one inode that counts a link it does not have
\* was created in a directory that had been removed meanwhile and was then
\* freed with the name in it.
LinksExact ==
    Up /\ (\A p \in Proc : pc[p] = "user") =>
        \A i \in Inum : dinode[i].type # "none" /\ ~dinode[i].orphan =>
            dinode[i].nlink = LinksOf(i)

\* i is ".." of a directory that was removed but is still in use.
UpOfRemoved(i) ==
    \E d \in Inum \ {ROOTINO} :
        dinode[d].type = "dir" /\ dinode[d].up = i /\ Names(d) = {}

\* fs.c:293-311: a call that is about to lock an inode, and holds nothing but a
\* reference to it, never finds that it was freed, unless it got there by the
\* ".." of a removed directory.  Only then does ilock() panic.
InodeStays ==
    \A p \in Proc : WaitsFor(p) # 0 /\ lock[WaitsFor(p)] = {} =>
        ILock(WaitsFor(p)) \/ UpOfRemoved(itable[WaitsFor(p)].inum)

\* fs.c:337-339 and sysfile.c:211-212: the acquiresleep() that iput() calls
\* with a spin-lock held never has to wait, and unlink() never finds an
\* inode without links.  Running out of inodes, in memory or on disk, is a
\* limit, and InodeStays says when ilock() panics.
NoPanic == panicked \in {"no", "iget: no inodes", "ialloc: no inodes",
                         "ilock: no type"}
=============================================================================
