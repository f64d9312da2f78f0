------------------------------- MODULE MCFiles ------------------------------
(***************************************************************************)
(* Instances of FileSys, FileData and Console for TLC, side by side.  The  *)
(* behaviours are those of the three: part, chosen at the start, says      *)
(* which of them runs, FileSys with one or the other set of calls.         *)
(***************************************************************************)
EXTENDS FileSys, TLC

CONSTANTS p1, p2, f1, f2, Nobody

\* The files of FileData are alike, and so are the processes of Console.
Symmetry == Permutations({f1, f2})

\* FileSys: both processes make and remove the name a; one of them links
\* files, the other moves to the directory a and uses a name relative to it.
Root == <<"/">>
A == <<"/", "a">>
AB == <<"/", "a", "b">>
B == <<"b">>
SomeCalls ==
    (p1 :> {<<"open", A>>, <<"create", A>>, <<"create", AB>>, <<"unlink", A>>,
            <<"unlink", AB>>, <<"link", A, B>>} @@
     p2 :> {<<"mkdir", A>>, <<"unlink", A>>, <<"mknod", B>>, <<"mknod", Root>>,
            <<"chdir", A>>, <<"chdir", Root>>})

\* One process makes and removes a directory in a directory; the other moves
\* into it, comes back by its "..", and makes a file in it.
DotDot == <<"..">>
DotCalls ==
    (p1 :> {<<"mkdir", A>>, <<"mkdir", AB>>, <<"unlink", AB>>, <<"unlink", A>>} @@
     p2 :> {<<"chdir", AB>>, <<"chdir", DotDot>>, <<"create", B>>})
Dd == INSTANCE FileSys WITH Calls <- DotCalls

\* FileData: the processes write bytes of their own, 3 and 7 at a time.
CountOf(p) == IF p = p1 THEN 3 ELSE 7
ValueOf(p) == IF p = p1 THEN 1 ELSE 2

VARIABLES
    part,
    \* of Console
    c_buf, c_r, c_w, c_e, c_lock, c_tx, c_tx_r, c_tx_w, c_busy, c_rhr, c_irq,
    c_handler, c_echo, c_pc, c_n, c_target, c_killed, c_use,
    \* of FileData
    d_bitmap, d_blk, d_addrs, d_size, d_lock, d_foff, d_pc, d_file, d_n, d_i,
    d_off, d_tot, d_fresh, d_logged, d_calls, d_content

consoleVars == <<
    c_buf, c_r, c_w, c_e, c_lock, c_tx, c_tx_r, c_tx_w, c_busy, c_rhr, c_irq,
    c_handler, c_echo, c_pc, c_n, c_target, c_killed, c_use>>
dataVars == <<
    d_bitmap, d_blk, d_addrs, d_size, d_lock, d_foff, d_pc, d_file, d_n, d_i,
    d_off, d_tot, d_fresh, d_logged, d_calls, d_content>>

\* Console: two processes read; one process reads lines of up to three
\* characters; two processes write.
Co == INSTANCE Console WITH
        Process <- {f1, f2}, INPUT_BUF <- 2, UART_TX_BUF_SIZE <- 2,
        Wrap <- 4, MaxCount <- 2, Written <- {"x", "y"}, buf <- c_buf, r <- c_r,
        w <- c_w, e <- c_e, lock <- c_lock, tx <- c_tx, tx_r <- c_tx_r,
        tx_w <- c_tx_w, busy <- c_busy, rhr <- c_rhr, irq <- c_irq,
        handler <- c_handler, echo <- c_echo, pc <- c_pc, n <- c_n,
        target <- c_target, killed <- c_killed, use <- c_use

Cl == INSTANCE Console WITH
        Process <- {p1}, INPUT_BUF <- 3, UART_TX_BUF_SIZE <- 2,
        Wrap <- 6, MaxCount <- 2, Written <- {"x", "y"}, buf <- c_buf, r <- c_r,
        w <- c_w, e <- c_e, lock <- c_lock, tx <- c_tx, tx_r <- c_tx_r,
        tx_w <- c_tx_w, busy <- c_busy, rhr <- c_rhr, irq <- c_irq,
        handler <- c_handler, echo <- c_echo, pc <- c_pc, n <- c_n,
        target <- c_target, killed <- c_killed, use <- c_use

Cw == INSTANCE Console WITH
        Process <- {f1, f2}, INPUT_BUF <- 1, UART_TX_BUF_SIZE <- 2,
        Wrap <- 4, MaxCount <- 2, Written <- {"x", "y"}, buf <- c_buf, r <- c_r,
        w <- c_w, e <- c_e, lock <- c_lock, tx <- c_tx, tx_r <- c_tx_r,
        tx_w <- c_tx_w, busy <- c_busy, rhr <- c_rhr, irq <- c_irq,
        handler <- c_handler, echo <- c_echo, pc <- c_pc, n <- c_n,
        target <- c_target, killed <- c_killed, use <- c_use

Fd == INSTANCE FileData WITH
        File <- {f1, f2}, Process <- {p1, p2}, NBLOCK <- 10, BSIZE <- 2,
        NDIRECT <- 2, MAXOPBLOCKS <- 6, MaxCalls <- 3, Count <- CountOf,
        Value <- ValueOf, bitmap <- d_bitmap, blk <- d_blk, addrs <- d_addrs,
        size <- d_size, lock <- d_lock, foff <- d_foff, pc <- d_pc,
        file <- d_file, n <- d_n, i <- d_i, off <- d_off, tot <- d_tot,
        fresh <- d_fresh, logged <- d_logged, calls <- d_calls,
        content <- d_content

allVars == <<part, vars, consoleVars, dataVars>>

AllInit ==
    /\ part \in {"names", "dots", "readers", "line", "writers", "data"}
    /\ Init /\ Fd!Init
    /\ CASE part = "line" -> Cl!Init
         [] part = "writers" -> Cw!Init
         [] OTHER -> Co!Init
    /\ c_use = IF part = "writers" THEN "write" ELSE "read"

AllNext ==
    \/ part = "names" /\ Next
          /\ UNCHANGED <<part, consoleVars, dataVars>>
    \/ part = "dots" /\ Dd!Next
          /\ UNCHANGED <<part, consoleVars, dataVars>>
    \/ part = "readers" /\ Co!Next
          /\ UNCHANGED <<part, vars, dataVars>>
    \/ part = "line" /\ Cl!Next
          /\ UNCHANGED <<part, vars, dataVars>>
    \/ part = "writers" /\ Cw!Next
          /\ UNCHANGED <<part, vars, dataVars>>
    \/ part = "data" /\ Fd!Next
          /\ UNCHANGED <<part, vars, consoleVars>>
    \/ part = "data" /\ d_calls = 3 /\ (\A p \in {p1, p2} : d_pc[p] = "user")
          /\ UNCHANGED allVars

AllSpec == AllInit /\ [][AllNext]_allVars

\* console.c:58-127 and uart.c:86-192: a process asleep for input or for room
\* in the transmit buffer has reason to be.
SleepersServed ==
    CASE part = "readers" -> Co!SleepersServed
      [] part = "line" -> Cl!SleepersServed
      [] part = "writers" -> Cw!SleepersServed
      [] OTHER -> TRUE

\* console.c:79-179 and uart.c:86-159: the console hands over whole lines, as
\* edited, and the transmit buffer is a bounded queue of bytes.
ConsoleQueues ==
    /\ c_r = c_w /\ c_w = c_e /\ c_tx_r = c_tx_w
    /\ [][CASE part = "readers" ->
                  [Co!Line!Next]_<<Co!Chars(c_r, c_w), Co!Chars(c_w, c_e)>>
            [] part = "line" ->
                  [Cl!Line!Next]_<<Cl!Chars(c_r, c_w), Cl!Chars(c_w, c_e)>>
            [] part = "writers" -> [Cw!Sent!Next]_(Cw!Ring)
            [] OTHER -> TRUE]_consoleVars

\* fs.c:242-366 and sysfile.c:120-240: the count of an inode slot is the
\* number of its users, and link counts cover the names in directories.
CountsExact ==
    part \in {"names", "dots"} => RefsExact /\ NamesCovered /\ LinksExact

\* fs.c:195-358: one slot per inode, a copy that agrees with the disk, no
\* inode freed under its users, and no panic.
TableSound ==
    part \in {"names", "dots"} => OneSlot /\ Coherent /\ InodeStays /\ NoPanic

\* fs.c:63-103 and 375-437: a block in use has one owner, a free one none.
BlocksOwned == part = "data" => Fd!BlocksOwned

\* fs.c:451-517: a file holds the bytes that were written to it.
ContentExact == part = "data" => Fd!ContentExact

\* file.c:161-184: an operation fits into its share of the log.
OpFits == part = "data" => Fd!OpFits
=============================================================================
