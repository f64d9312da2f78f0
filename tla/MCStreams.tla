------------------------------ MODULE MCStreams -----------------------------
(***************************************************************************)
(* Instances of Pipe and Tcp, the two kinds of byte streams, for TLC: a    *)
(* pipe with its writers and readers, and two processes with the two       *)
(* connections they open.  part, chosen at the start, says which of the    *)
(* two runs.                                                               *)
(***************************************************************************)
EXTENDS Pipe, TLC

Symmetry == Permutations(Writer) \cup Permutations(Reader) \cup Permutations(Byte)

VARIABLES
    part,
    \* of Tcp
    t_cb, t_conn, t_sock, t_at, t_asleep

tcpVars == <<
    t_cb, t_conn, t_sock, t_at, t_asleep>>

Tc == INSTANCE Tcp WITH
        Process <- Writer, TCP_CB_TABLE_SIZE <- 1, BUF <- 2, SEQ <- 32,
        ISS <- {3, 6}, Remote <- {<<1, 2>>}, Chunk <- {1, 2}, MaxOpen <- 2,
        MaxIn <- 3, MaxOut <- 1, cb <- t_cb, conn <- t_conn, sock <- t_sock,
        at <- t_at, asleep <- t_asleep

allVars == <<part, vars, tcpVars>>

AllInit ==
    /\ part \in {"pipe", "tcp"}
    /\ Init /\ Tc!Init

AllNext ==
    \/ part = "pipe" /\ Next
          /\ UNCHANGED <<part, tcpVars>>
    \/ part = "tcp" /\ Tc!Next
          /\ UNCHANGED <<part, vars>>
    \/ part = "tcp" /\ UNCHANGED allVars   \* no connection is left

AllSpec == AllInit /\ [][AllNext]_allVars

\* pipe.c:83-119 and tcp.c:266-302, 488-495: a process asleep in a read() or a
\* write() has nothing to read, or no room, unless its connection was lost to
\* the clearing of its block at tcp.c:404.
StreamSleepers == IF part = "tcp" THEN Tc!ReaderHasNothing ELSE NobodySleepsInVain

\* pipe.c:76-130: a pipe is a bounded first-in first-out queue.
PipeIsFifo == Bytes!Init /\ [][part = "pipe" => [Bytes!Next]_Queue]_pipeVars

\* tcp.c:221-305 and 454-504: what is acknowledged of a stream is kept.
StreamKept == part = "tcp" => Tc!StreamKept

\* tcp.c:286-302 and 488-504: the end of the stream comes after all of it.
EofTrue == part = "tcp" => Tc!EofTrue
=============================================================================
