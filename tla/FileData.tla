------------------------------ MODULE FileData ------------------------------
(***************************************************************************)
(* The contents of files: balloc(), bfree(), bmap(), itrunc(), readi() and *)
(* writei() of kernel/fs.c, called by fileread(), filewrite() and an       *)
(* open() that truncates.  Each file is open once, and the processes share *)
(* the struct file, with its offset, as they do after fork().              *)
(*                                                                         *)
(* ip->lock is held from ilock() to iunlock(); a buffer from bread() to    *)
(* brelse().  A step is what happens to one block between the two, so that *)
(* processes at work on different files interleave in the bitmap.  Crashes *)
(* are the concern of Log.  A cell of a block is a byte, or a block number *)
(* in an indirect block, so NINDIRECT is BSIZE.                            *)
(***************************************************************************)
EXTENDS Integers, Sequences, FiniteSets, FiniteSetsExt

CONSTANTS
    File, Process, Nobody,
    NBLOCK,       \* data blocks; enough that balloc() does not panic
    BSIZE, NDIRECT, MAXOPBLOCKS,
    MaxCalls,     \* calls of read(), write() and open() in a behaviour
    Count(_),     \* the n that a process passes to read() and write()
    Value(_)      \* the byte that a process writes

Block == 1 .. NBLOCK
BitmapBlock == 0    \* FSSIZE < BPB, so there is one
NINDIRECT == BSIZE
MAXFILE == NDIRECT + NINDIRECT
Cell == 0 .. BSIZE - 1
Zeros == [k \in Cell |-> 0]
Unknown == -1       \* a byte that a failed copy may have changed
Stale == [k \in Cell |-> Unknown]      \* what a free block holds

VARIABLES
    bitmap,         \* the blocks marked in use
    blk,            \* the cells of each block
    addrs, size,    \* of each inode
    lock,           \* ip->lock
    foff,           \* f->off
    pc, file, n, i, \* per process: place, file, and filewrite()'s n and i
    off, tot,       \* writei()'s off and tot
    fresh,          \* the block that balloc() has marked and is to zero
    logged,         \* what the process has passed to log_write() in this operation
    calls,          \* how many calls there have been
    content         \* history: the bytes of each file, as its users know them

disk == <<bitmap, blk>>
inode == <<addrs, size>>
call == <<file, n, i>>
loop == <<off, tot>>
vars == <<disk, inode, lock, foff, pc, call, loop, fresh, logged, calls, content>>

Init ==
    /\ bitmap = {} /\ blk = [b \in Block |-> Stale]
    /\ addrs = [f \in File |-> [k \in 0 .. NDIRECT |-> 0]]
    /\ size = [f \in File |-> 0] /\ foff = [f \in File |-> 0]
    /\ lock = [f \in File |-> Nobody]
    /\ pc = [p \in Process |-> "user"]
    /\ file = [p \in Process |-> Nobody]
    /\ n = [p \in Process |-> 0] /\ i = [p \in Process |-> 0]
    /\ off = [p \in Process |-> 0] /\ tot = [p \in Process |-> 0]
    /\ fresh = [p \in Process |-> 0]
    /\ logged = [p \in Process |-> {}]
    /\ calls = 0 /\ content = [f \in File |-> <<>>]

Call(p) == pc[p] = "user" /\ calls < MaxCalls /\ calls' = calls + 1
Goto(p, l) == pc' = [pc EXCEPT ![p] = l]
Return(p) ==
    /\ Goto(p, "user")
    /\ file' = [file EXCEPT ![p] = Nobody]
    /\ n' = [n EXCEPT ![p] = 0] /\ i' = [i EXCEPT ![p] = 0]
Log(p, S) == logged' = [logged EXCEPT ![p] = @ \cup S]

\* filewrite(): the bytes of one operation, and of the next one of p.
maxNoSlop == (MAXOPBLOCKS - 1 - 1) * BSIZE
max == ((MAXOPBLOCKS - 1 - 1 - 2) \div 2) * BSIZE
n1(p) == Min({n[p] - i[p], max})

\* bmap(), when the block is there; 0 otherwise.
Addr(f, bn) ==
    IF bn < NDIRECT THEN addrs[f][bn]
    ELSE IF addrs[f][NDIRECT] = 0 THEN 0 ELSE blk[addrs[f][NDIRECT]][bn - NDIRECT]

-----------------------------------------------------------------------------
(* filewrite() and writei() *)

WriteCall(p, f) ==
    /\ Call(p)
    /\ file' = [file EXCEPT ![p] = f]
    /\ n' = [n EXCEPT ![p] = Count(p)] /\ i' = [i EXCEPT ![p] = 0]
    /\ Goto(p, "begin")
    /\ UNCHANGED <<disk, inode, lock, foff, loop, fresh, logged, content>>

\* begin_op(), ilock() and the tests at the start of writei(), which answer -1.
WriteBegin(p) ==
    LET f == file[p] IN
    /\ pc[p] = "begin" /\ lock[f] = Nobody
    /\ IF foff[f] > size[f] \/ foff[f] + n1(p) > MAXFILE * BSIZE
       THEN Return(p) /\ UNCHANGED <<lock, loop>>
       ELSE /\ lock' = [lock EXCEPT ![f] = p]
            /\ off' = [off EXCEPT ![p] = foff[f]] /\ tot' = [tot EXCEPT ![p] = 0]
            /\ Goto(p, "write") /\ UNCHANGED call
    /\ UNCHANGED <<disk, inode, foff, fresh, logged, content, calls>>

More(p) == pc[p] = "write" /\ tot[p] < n1(p)
Bn(p) == off[p] \div BSIZE

\* balloc(): mark the first free block.
balloc(p) ==
    /\ More(p) /\ Addr(file[p], Bn(p)) = 0 /\ bitmap # Block
    /\ fresh' = [fresh EXCEPT ![p] = Min(Block \ bitmap)]
    /\ bitmap' = bitmap \cup {Min(Block \ bitmap)}
    /\ Log(p, {BitmapBlock})
    /\ Goto(p, "zero")
    /\ UNCHANGED <<blk, inode, lock, foff, call, loop, content, calls>>

\* bzero(), and bmap() enters the block where it was missing.
bzero(b) == [blk EXCEPT ![b] = Zeros]

bmap(p) ==
    LET f == file[p]
        b == fresh[p]
        root == addrs[f][NDIRECT]
    IN /\ pc[p] = "zero"
       /\ IF Bn(p) < NDIRECT
          THEN addrs' = [addrs EXCEPT ![f][Bn(p)] = b] /\ blk' = bzero(b) /\ Log(p, {b})
          ELSE IF root = 0
          THEN addrs' = [addrs EXCEPT ![f][NDIRECT] = b] /\ blk' = bzero(b) /\ Log(p, {b})
          ELSE /\ blk' = [bzero(b) EXCEPT ![root][Bn(p) - NDIRECT] = b]
               /\ Log(p, {b, root}) /\ UNCHANGED addrs
       /\ fresh' = [fresh EXCEPT ![p] = 0]
       /\ Goto(p, "write")
       /\ UNCHANGED <<bitmap, size, lock, foff, call, loop, content, calls>>

\* One turn of the loop of writei().  A copy that fails may have copied some
\* of the m bytes, done of them, into the buffer.
m(p) == Min({n1(p) - tot[p], BSIZE - (off[p] % BSIZE)})

Copied(p, done) ==
    [blk EXCEPT ![Addr(file[p], Bn(p))] =
        [k \in Cell |-> IF k >= off[p] % BSIZE /\ k < (off[p] % BSIZE) + done THEN Value(p) ELSE @[k]]]

WriteBlock(p) ==
    /\ More(p) /\ Addr(file[p], Bn(p)) # 0
    /\ blk' = Copied(p, m(p))
    /\ Log(p, {Addr(file[p], Bn(p))})
    /\ off' = [off EXCEPT ![p] = @ + m(p)] /\ tot' = [tot EXCEPT ![p] = @ + m(p)]
    /\ UNCHANGED <<bitmap, inode, lock, foff, pc, call, fresh, content, calls>>

WriteBlockFails(p) ==
    /\ More(p) /\ Addr(file[p], Bn(p)) # 0
    /\ \E done \in 0 .. m(p) - 1 :
         /\ blk' = Copied(p, done)
         /\ content' = [content EXCEPT ![file[p]] =
              [k \in DOMAIN @ |-> IF k > off[p] /\ k <= off[p] + done THEN Unknown ELSE @[k]]]
    /\ Goto(p, "failed")
    /\ UNCHANGED <<bitmap, inode, lock, foff, call, loop, fresh, logged, calls>>

\* After the loop: the new size, iupdate(), f->off, iunlock(), end_op(), and
\* filewrite() goes on to the next operation.
NewSizeAdds(p, f) == size[f] + tot[p]
NewSize(p, f) == Max({size[f], off[p]})

WriteEnd(p) ==
    LET f == file[p] IN
    /\ pc[p] = "failed" \/ (pc[p] = "write" /\ tot[p] = n1(p))
    /\ size' = [size EXCEPT ![f] = NewSize(p, f)]
    /\ foff' = [foff EXCEPT ![f] = @ + tot[p]]
    /\ content' = [content EXCEPT ![f] =
         [k \in 1 .. Max({Len(@), foff[f] + tot[p]}) |->
            IF k > foff[f] /\ k <= foff[f] + tot[p] THEN Value(p) ELSE @[k]]]
    /\ lock' = [lock EXCEPT ![f] = Nobody]
    /\ logged' = [logged EXCEPT ![p] = {}]
    /\ IF tot[p] = n1(p) /\ i[p] + tot[p] < n[p]
       THEN i' = [i EXCEPT ![p] = @ + tot[p]] /\ Goto(p, "begin") /\ UNCHANGED <<file, n>>
       ELSE Return(p)
    /\ off' = [off EXCEPT ![p] = 0] /\ tot' = [tot EXCEPT ![p] = 0]
    /\ UNCHANGED <<disk, addrs, fresh, calls>>

-----------------------------------------------------------------------------
(* fileread() and readi() *)

\* The bytes that readi() copies, and its result; a hole would be filled.
Readable(f, k) == IF foff[f] > size[f] THEN 0 ELSE Min({k, size[f] - foff[f]})
ByteAt(f, o) == LET b == Addr(f, o \div BSIZE) IN IF b = 0 THEN Unknown ELSE blk[b][o % BSIZE]

Read(p, f) ==
    /\ Call(p) /\ lock[f] = Nobody
    /\ Readable(f, Count(p)) > 0
    /\ foff' = [foff EXCEPT ![f] = @ + Readable(f, Count(p))]
    /\ UNCHANGED <<disk, inode, lock, pc, call, loop, fresh, logged, content>>

-----------------------------------------------------------------------------
(* open() *)

\* All have closed the file, and a process opens it again: f->off is 0.
Reopen(p, f) ==
    /\ Call(p) /\ foff[f] # 0
    /\ \A r \in Process : file[r] # f
    /\ foff' = [foff EXCEPT ![f] = 0]
    /\ UNCHANGED <<disk, inode, lock, pc, call, loop, fresh, logged, content>>

\* An open() with O_TRUNC while the others have the file open: itrunc() under
\* ip->lock.
OpenTrunc(p, f) ==
    /\ Call(p) /\ lock[f] = Nobody
    /\ lock' = [lock EXCEPT ![f] = p]
    /\ file' = [file EXCEPT ![p] = f]
    /\ Goto(p, "direct")
    /\ UNCHANGED <<disk, inode, foff, n, i, loop, fresh, logged, content>>

\* A free block keeps whatever it held: no matter what, it is not read.
bfreeForgotten(p, b) == UNCHANGED disk /\ Log(p, {BitmapBlock})
bfree(p, b) ==
    /\ bitmap' = bitmap \ {b}
    /\ blk' = [blk EXCEPT ![b] = Stale]
    /\ Log(p, {BitmapBlock})

FreeDirect(p) ==
    LET f == file[p]
        mapped == {k \in 0 .. NDIRECT - 1 : addrs[f][k] # 0}
    IN /\ pc[p] = "direct"
       /\ IF mapped = {}
          THEN /\ Goto(p, IF addrs[f][NDIRECT] # 0 THEN "indirect" ELSE "empty")
               /\ UNCHANGED <<disk, addrs, logged>>
          ELSE /\ bfree(p, addrs[f][Min(mapped)])
               /\ addrs' = [addrs EXCEPT ![f][Min(mapped)] = 0]
               /\ UNCHANGED pc
       /\ UNCHANGED <<size, lock, foff, call, loop, fresh, content, calls>>

\* tot is the j of the loop over the entries of the indirect block.
FreeIndirect(p) ==
    LET f == file[p]
        b == blk[addrs[f][NDIRECT]][tot[p]]
    IN /\ pc[p] = "indirect"
       /\ IF tot[p] < NINDIRECT
          THEN /\ IF b # 0 THEN bfree(p, b) ELSE UNCHANGED <<disk, logged>>
               /\ tot' = [tot EXCEPT ![p] = @ + 1]
               /\ UNCHANGED <<addrs, pc>>
          ELSE /\ bfree(p, addrs[f][NDIRECT])
               /\ addrs' = [addrs EXCEPT ![f][NDIRECT] = 0]
               /\ tot' = [tot EXCEPT ![p] = 0]
               /\ Goto(p, "empty")
       /\ UNCHANGED <<size, lock, foff, call, off, fresh, content, calls>>

Empty(p) ==
    LET f == file[p] IN
    /\ pc[p] = "empty"
    /\ size' = [size EXCEPT ![f] = 0]
    /\ content' = [content EXCEPT ![f] = <<>>]
    /\ lock' = [lock EXCEPT ![f] = Nobody]
    /\ logged' = [logged EXCEPT ![p] = {}]
    /\ Return(p)
    /\ UNCHANGED <<disk, addrs, foff, loop, fresh, calls>>

-----------------------------------------------------------------------------
Next ==
    \E p \in Process :
       \/ \E f \in File :
            WriteCall(p, f) \/ Read(p, f) \/ Reopen(p, f) \/ OpenTrunc(p, f)
       \/ WriteBegin(p) \/ balloc(p) \/ bmap(p) \/ WriteBlock(p) \/ WriteBlockFails(p)
       \/ WriteEnd(p) \/ FreeDirect(p) \/ FreeIndirect(p) \/ Empty(p)

Spec == Init /\ [][Next]_vars

-----------------------------------------------------------------------------
(* Properties *)

\* How many references there are to a block: entries of addrs, entries of an
\* indirect block that itrunc() has not passed yet, and a balloc() under way.
Passed(f) == IF lock[f] # Nobody /\ pc[lock[f]] = "indirect" THEN tot[lock[f]] ELSE 0
Refs(b) ==
    Cardinality({<<f, k>> \in File \X (0 .. NDIRECT) : addrs[f][k] = b})
    + Cardinality({<<f, j>> \in File \X Cell :
          addrs[f][NDIRECT] # 0 /\ j >= Passed(f) /\ blk[addrs[f][NDIRECT]][j] = b})
    + Cardinality({p \in Process : fresh[p] = b})

\* The bitmap is exact in every state: a block marked in use has exactly one
\* place that refers to it, in one file, and a free block has none.  So two
\* files never share a block, none leaks, and bfree() never panics with
\* "freeing free block", whichever way allocations by one process and
\* truncations by another interleave (fs.c 63-103, 375-437).
BlocksOwned == \A b \in Block : Refs(b) = (IF b \in bitmap THEN 1 ELSE 0)

\* Whoever gets ip->lock finds the bytes written so far: the file has the
\* length its writers have been told, no hole that readi() would have to fill,
\* and each byte is the last one written there (fs.c 451-517).  Bytes that a
\* failed copy may have changed in the buffer are exempt.
ContentExact ==
    \A f \in File : lock[f] = Nobody =>
        /\ size[f] = Len(content[f])
        /\ \A o \in 0 .. size[f] - 1 :
             /\ Addr(f, o \div BSIZE) # 0
             /\ content[f][o + 1] \in {Unknown, ByteAt(f, o)}

\* One operation of filewrite() or of an open that truncates writes at most
\* the MAXOPBLOCKS blocks that begin_op() reserves for it, with writes that
\* are not aligned and with an indirect block to be made (file.c 161-167).
OpFits == \A p \in Process : Cardinality(logged[p] \cup {file[p]}) <= MAXOPBLOCKS
=============================================================================
