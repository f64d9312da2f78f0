--------------------------------- MODULE Tcp ---------------------------------
(***************************************************************************)
(* The TCP of the kernel (kernel/tcp.c) with the sockets above it          *)
(* (socket_alloc, socket_read, socket_write and socket_close of            *)
(* kernel/socket.c) and, outside the repository, the peers it talks to.    *)
(*                                                                         *)
(* Everything in tcp.c runs under one spin lock, so a step is what happens *)
(* between acquire(&lock) and the next release or sleep().  tcp_rx() runs  *)
(* from the network card's interrupt.                                      *)
(*                                                                         *)
(* The peers are correct servers behind a network that loses, repeats and  *)
(* reorders: whatever a peer may have sent so far may arrive now, again,   *)
(* or never.  The network is therefore not a variable; the segments that   *)
(* may arrive are computed from what the peer has sent (Segment).          *)
(*                                                                         *)
(* Only active opens exist: no function of the kernel puts a control block *)
(* in LISTEN, so LISTEN, SYN_RCVD and CLOSING are never entered, and the   *)
(* backlog is always empty.  The copies tcp_txq_add() keeps are never read *)
(* and are not modelled.                                                   *)
(***************************************************************************)
EXTENDS Integers, Sequences, FiniteSets, FiniteSetsExt

CONSTANTS Process,      \* the processes that use sockets
          TCP_CB_TABLE_SIZE,
          BUF,          \* sizeof(cb->buf)
          SEQ,          \* sequence numbers are taken modulo SEQ (2^32)
          ISS,          \* what rand() may return; below SEQ / 2
          Remote,       \* addresses and ports of servers, as pairs of halves
          Chunk,        \* lengths of a read, of a write and of a segment
          MaxOpen, MaxIn, MaxOut   \* bounds: sockets, bytes in, bytes out

VARIABLES cb,           \* cb_table
          conn,         \* history: the connections, in the order of tcp_open
          sock,         \* the socket of a process, or NoSocket
          at,           \* where a process is: "user" or a function's name
          asleep        \* the processes in sleep()

vars == <<cb, conn, sock, at, asleep>>

Slot == 1 .. TCP_CB_TABLE_SIZE
Port == 1 .. TCP_CB_TABLE_SIZE   \* the search never goes further
NoSocket == [cb |-> 0, conn |-> 0]

\* The byte order of the machine is not the one of the wire.
toggle(r) == <<r[2], r[1]>>

Zero == <<0, 0>>
PeerByte(c, k) == <<c, k>>           \* the k-th byte the peer of connection c sends

\* memset(cb, 0, sizeof(*cb)): no window, hence "full" of zeros.
Cleared == [used |-> FALSE, state |-> "CLOSED", port |-> 0, peer |-> Zero, iss |-> 0,
            snd |-> 0, una |-> 0, rcv |-> 0, wnd |-> 0,
            buf |-> [k \in 1 .. BUF |-> Zero], conn |-> 0]

NewConn == [port |-> 0, peer |-> Zero, iss |-> 0, snt |-> 0, isn |-> 0, syn |-> FALSE,
            len |-> 0, fin |-> FALSE, limit |-> 0, got |-> <<>>, eof |-> FALSE,
            lost |-> FALSE]

Init == /\ cb = [i \in Slot |-> Cleared]
        /\ conn = <<>>
        /\ sock = [p \in Process |-> NoSocket]
        /\ at = [p \in Process |-> "user"]
        /\ asleep = {}

\* wakeup(cb): the sleepers' channel is the control block.
Wakeup(i) == asleep' = {p \in asleep : sock[p].cb # i}

(***************************************************************************)
(* What the peer learns from a segment with ACK set: it may send up to the *)
(* acknowledged byte plus the window.  Bytes are counted from its own      *)
(* first one.                                                              *)
(***************************************************************************)
Rel(seq, c) == (seq - (conn[c].isn + 1)) % SEQ
Told(c, ack, wnd) == Max({conn[c].limit, Rel(ack, c) + wnd})

(***************************************************************************)
(* tcp_incoming_event().  Each part takes a control block and a segment    *)
(* and yields the new block, whether the sleepers are woken, and the       *)
(* acknowledgements sent, as <<rcv.nxt, rcv.wnd>>.                         *)
(***************************************************************************)
Result(b, wake, acks) == [cb |-> b, wake |-> wake, acks |-> acks]
Nothing(b) == Result(b, FALSE, {})

SynSent(b, s) ==
  LET unacceptable == "ACK" \in s.flg /\ (s.ack <= b.iss \/ s.ack > b.snd)
      heard == [b EXCEPT !.rcv = (s.seq + 1) % SEQ]
      established == [heard EXCEPT !.una = s.ack, !.state = "ESTABLISHED"]
  IN CASE unacceptable -> Nothing(b)        \* answered with RST
       [] ~unacceptable /\ ("RST" \in s.flg \/ "SYN" \notin s.flg) -> Nothing(b)
       [] ~unacceptable /\ "RST" \notin s.flg /\ {"SYN", "ACK"} \subseteq s.flg ->
            Result(established, TRUE, {<<established.rcv, b.wnd>>})
       [] OTHER -> Result(heard, FALSE, {<<heard.rcv, b.wnd>>})

\* memmove() to the end of the buffered bytes.
Text(b, s) ==
  IF s.len > 0 /\ b.state \in {"ESTABLISHED", "FIN_WAIT1", "FIN_WAIT2"}
  THEN LET n == [b EXCEPT !.buf = @ \o s.text, !.rcv = (s.seq + s.len) % SEQ, !.wnd = @ - s.len]
       IN Result(n, TRUE, {<<n.rcv, n.wnd>>})
  ELSE Nothing(b)

\* Variant: a FIN wakes nobody.
FinQuiet(b, s) ==
  IF "FIN" \in s.flg
  THEN LET n == [b EXCEPT !.rcv = (@ + 1) % SEQ,
                          !.state = CASE @ = "ESTABLISHED" -> "CLOSE_WAIT"
                                      [] @ = "FIN_WAIT1" -> "FIN_WAIT2"
                                      [] @ = "FIN_WAIT2" -> "TIME_WAIT"
                                      [] OTHER -> @]
       IN Result(n, FALSE, {<<n.rcv, n.wnd>>})
  ELSE Nothing(b)

Fin(b, s) ==
  IF "FIN" \in s.flg
  THEN LET n == [b EXCEPT !.rcv = (@ + 1) % SEQ,
                          !.state = CASE @ = "ESTABLISHED" -> "CLOSE_WAIT"
                                      [] @ = "FIN_WAIT1" -> "FIN_WAIT2"
                                      [] @ = "FIN_WAIT2" -> "TIME_WAIT"
                                      [] OTHER -> @]
       IN Result(n, b.state \in {"ESTABLISHED", "FIN_WAIT2"}, {<<n.rcv, n.wnd>>})
  ELSE Nothing(b)

Acked(b, s) ==
  LET una == IF b.una < s.ack /\ s.ack <= b.snd THEN s.ack ELSE b.una
  IN [b EXCEPT !.una = una,
               !.state = IF @ = "FIN_WAIT1" /\ s.ack = b.snd THEN "FIN_WAIT2" ELSE @]

\* Variant: any segment is taken for the next one.
SynchronizedAnySeq(b, s) ==
  IF s.flg \cap {"RST", "SYN"} # {} \/ "ACK" \notin s.flg THEN Nothing(b)
  ELSE IF b.state = "LAST_ACK" THEN Result(Cleared, TRUE, {})
  ELSE IF b.state # "TIME_WAIT" /\ s.ack > b.snd THEN Result(b, FALSE, {<<b.rcv, b.wnd>>})
  ELSE LET a == IF b.state = "TIME_WAIT" THEN b ELSE Acked(b, s)
           t == Text(a, s)
           f == Fin(t.cb, s)
       IN Result(f.cb, t.wake \/ f.wake, t.acks \cup f.acks)

\* The states in which the ACK is looked at; in TIME_WAIT it is not.
Synchronized(b, s) ==
  IF s.seq # b.rcv \/ s.flg \cap {"RST", "SYN"} # {} \/ "ACK" \notin s.flg THEN Nothing(b)
  ELSE IF b.state = "LAST_ACK" THEN Result(Cleared, TRUE, {})
  ELSE IF b.state # "TIME_WAIT" /\ s.ack > b.snd THEN Result(b, FALSE, {<<b.rcv, b.wnd>>})
  ELSE LET a == IF b.state = "TIME_WAIT" THEN b ELSE Acked(b, s)
           t == Text(a, s)
           f == Fin(t.cb, s)
       IN Result(f.cb, t.wake \/ f.wake, t.acks \cup f.acks)

Incoming(b, s) == CASE b.state = "CLOSED" -> Nothing(b)    \* answered with RST
                    [] b.state = "SYN_SENT" -> SynSent(b, s)
                    [] OTHER -> Synchronized(b, s)

(***************************************************************************)
(* The peer of connection c (external).  It accepts at most once, sends    *)
(* within the window it was told, and closes its side after its last byte. *)
(* The initial sequence numbers of different connections are far apart.    *)
(***************************************************************************)
PeerAccept(c) ==
  /\ conn[c].port # 0 /\ ~conn[c].syn
  /\ conn' = [conn EXCEPT ![c].syn = TRUE]
  /\ UNCHANGED <<cb, sock, at, asleep>>

PeerSend(c) ==
  /\ conn[c].len < Min({conn[c].limit, MaxIn}) /\ ~conn[c].fin
  /\ conn' = [conn EXCEPT ![c].len = @ + 1]
  /\ UNCHANGED <<cb, sock, at, asleep>>

PeerFin(c) ==
  /\ conn[c].limit > 0 /\ ~conn[c].fin
  /\ conn' = [conn EXCEPT ![c].fin = TRUE]
  /\ UNCHANGED <<cb, sock, at, asleep>>

\* Everything the peer of c may have sent, or send again.  Its FIN takes a
\* sequence number, which its later acknowledgements are past.
Segment(c) ==
  LET k == conn[c]
      next == k.isn + 1 + k.len + (IF k.fin THEN 1 ELSE 0)
      Seg(seq, ack, flg, from, len) ==
        [seq |-> seq % SEQ, ack |-> ack, flg |-> flg, len |-> len,
         text |-> [j \in 1 .. len |-> PeerByte(c, from + j)]]
  IN IF k.port = 0 THEN {}
     ELSE IF ~k.syn THEN {Seg(0, k.iss + 1, {"RST", "ACK"}, 0, 0)}
     ELSE {Seg(k.isn, k.iss + 1, {"SYN", "ACK"}, 0, 0), Seg(next, k.snt, {"RST", "ACK"}, 0, 0)}
          \cup (IF k.fin THEN {Seg(next, ack, {"ACK"}, 0, 0) : ack \in k.iss + 1 .. k.snt} ELSE {})
          \cup (IF k.limit = 0 THEN {}
                ELSE UNION {{Seg(k.isn + 1 + i, ack, flg, i, n) :
                               ack \in k.iss + 1 .. k.snt,
                               flg \in {{"ACK"}} \cup IF k.fin /\ i + n = k.len THEN {{"ACK", "FIN"}} ELSE {}} :
                             <<i, n>> \in {x \in (0 .. k.len) \X (Chunk \cup {0}) : x[1] + x[2] <= k.len}})

\* The loop of tcp_rx(): the used block of that port and peer.
Match(c) == {i \in Slot : cb[i].used /\ cb[i].port = conn[c].port /\ cb[i].peer = conn[c].peer}

tcp_rx(c) ==
  \E i \in Match(c) : \E s \in Segment(c) :
    LET r == Incoming(cb[i], s)
    IN /\ r # Nothing(cb[i])
       /\ cb' = [cb EXCEPT ![i] = r.cb]
       /\ conn' = [conn EXCEPT ![cb[i].conn].limit =
                      Max({@} \cup {Told(cb[i].conn, a[1], a[2]) : a \in r.acks})]
       /\ IF r.wake THEN Wakeup(i) ELSE UNCHANGED asleep
       /\ UNCHANGED <<sock, at>>

(***************************************************************************)
(* socket_alloc(): tcp_open() and tcp_connect() lock separately.  With no  *)
(* free block the socket gets an index that no call accepts.               *)
(***************************************************************************)
tcp_open(p, r) ==
  /\ at[p] = "user" /\ sock[p] = NoSocket /\ Len(conn) < MaxOpen
  /\ \A i \in Slot : cb[i].used => cb[i].peer # r     \* otherwise returns with the lock held
  /\ \E i \in Slot :
       /\ ~cb[i].used /\ \A j \in 1 .. i - 1 : cb[j].used
       /\ cb' = [cb EXCEPT ![i].used = TRUE]
       /\ sock' = [sock EXCEPT ![p] = [cb |-> i, conn |-> Len(conn) + 1]]
  /\ conn' = Append(conn, [NewConn EXCEPT !.peer = toggle(r)])
  /\ at' = [at EXCEPT ![p] = "open"]
  /\ UNCHANGED asleep

FreePort == Min({q \in Port : \A i \in Slot : ~(cb[i].used /\ cb[i].port = q)})

tcp_connect(p, iss) ==
  /\ at[p] = "open"
  /\ \A c \in DOMAIN conn : conn[c].iss # iss        \* rand() does not repeat itself
  /\ LET i == sock[p].cb
         c == sock[p].conn
     IN IF ~cb[i].used \/ cb[i].state # "CLOSED"
        THEN at' = [at EXCEPT ![p] = "user"] /\ UNCHANGED <<cb, conn, asleep>>
        ELSE /\ cb' = [cb EXCEPT ![i] = [@ EXCEPT !.port = FreePort, !.peer = conn[c].peer,
                         !.wnd = BUF, !.buf = <<>>, !.iss = iss, !.snd = iss + 1,
                         !.state = "SYN_SENT", !.conn = c]]
             /\ conn' = [conn EXCEPT ![c] = [@ EXCEPT !.port = FreePort, !.iss = iss,
                           !.snt = iss + 1, !.isn = (SEQ - 2 + (c - 1) * (MaxIn + 3)) % SEQ]]
             /\ at' = [at EXCEPT ![p] = "connect"]
             /\ asleep' = asleep \cup {p}
  /\ UNCHANGED sock

\* The loop around sleep() in tcp_connect().
ConnectAwake(p) ==
  /\ at[p] = "connect" /\ p \notin asleep
  /\ IF cb[sock[p].cb].state = "SYN_SENT"
     THEN asleep' = asleep \cup {p} /\ UNCHANGED at
     ELSE at' = [at EXCEPT ![p] = "user"] /\ UNCHANGED asleep
  /\ UNCHANGED <<cb, conn, sock>>

tcp_send(p, n) ==
  /\ at[p] = "user" /\ sock[p] # NoSocket
  /\ LET i == sock[p].cb
         c == cb[i].conn
     IN /\ cb[i].used /\ cb[i].state \in {"ESTABLISHED", "CLOSE_WAIT"}
        /\ cb[i].snd + n <= cb[i].iss + 1 + MaxOut
        /\ cb' = [cb EXCEPT ![i].snd = @ + n]
        /\ conn' = [conn EXCEPT ![c].snt = cb[i].snd + n, ![c].limit = Told(c, cb[i].rcv, cb[i].wnd)]
  /\ UNCHANGED <<sock, at, asleep>>

(***************************************************************************)
(* One turn of the loop of tcp_read(): from a system call, or after the    *)
(* sleep() in it.  "used" is looked at only on entry.  What is read from a *)
(* block that was cleared is recorded for the socket's connection.         *)
(***************************************************************************)
RxReady(b) == b.state \in {"ESTABLISHED", "FIN_WAIT1", "FIN_WAIT2"}

\* Variant: the state is tested before the buffer.
OutcomeStateFirst(b) == CASE ~RxReady(b) -> "eof"
                          [] RxReady(b) /\ b.wnd # BUF -> "data"
                          [] OTHER -> "sleep"

Outcome(b) == CASE b.wnd # BUF -> "data"
                [] b.wnd = BUF /\ ~RxReady(b) -> "eof"
                [] OTHER -> "sleep"

tcp_read(p, n) ==
  /\ sock[p] # NoSocket
  /\ \/ at[p] = "user" /\ cb[sock[p].cb].used
     \/ at[p] = "read" /\ p \notin asleep
  /\ LET i == sock[p].cb
         b == cb[i]
         c == IF b.conn = 0 THEN sock[p].conn ELSE b.conn
         total == BUF - b.wnd
         len == Min({n, total})
     IN CASE Outcome(b) = "sleep" ->
               /\ at' = [at EXCEPT ![p] = "read"] /\ asleep' = asleep \cup {p}
               /\ UNCHANGED <<cb, conn>>
          [] Outcome(b) = "eof" ->
               /\ at' = [at EXCEPT ![p] = "user"]
               /\ conn' = [conn EXCEPT ![c].eof = TRUE]
               /\ UNCHANGED <<cb, asleep>>
          [] OTHER ->
               /\ at' = [at EXCEPT ![p] = "user"]
               /\ cb' = [cb EXCEPT ![i].buf = SubSeq(@, len + 1, total), ![i].wnd = @ + len]
               /\ conn' = [conn EXCEPT ![c].got = @ \o SubSeq(b.buf, 1, len)]
               /\ UNCHANGED asleep
  /\ UNCHANGED sock

(***************************************************************************)
(* close(): the last close of the file, which may be in another process    *)
(* than the one that connected, reaches tcp_close() through                *)
(* socket_close().                                                         *)
(***************************************************************************)
Shared(p) == \E q \in Process \ {p} : sock[q] = sock[p]

\* tcp_cb_clear() by p.  The block may be another socket's by now, and the
\* connection of that socket is then lost.
Clear(p) ==
  /\ cb' = [cb EXCEPT ![sock[p].cb] = Cleared]
  /\ conn' = [c \in DOMAIN conn |->
                [conn[c] EXCEPT !.lost = @ \/ \E q \in Process :
                   /\ sock[q].cb = sock[p].cb /\ sock[q].conn = c
                   /\ c # sock[p].conn]]

tcp_close(p) ==
  /\ at[p] = "user" /\ sock[p] # NoSocket
  /\ LET i == sock[p].cb
         b == cb[i]
         last == CASE b.state = "ESTABLISHED" -> "FIN_WAIT1"
                   [] b.state = "CLOSE_WAIT" -> "LAST_ACK"
                   [] OTHER -> "CLOSED"
     IN CASE Shared(p) \/ ~b.used ->
               sock' = [sock EXCEPT ![p] = NoSocket] /\ UNCHANGED <<cb, conn, at, asleep>>
          [] ~Shared(p) /\ b.used /\ last = "CLOSED" ->
               /\ sock' = [sock EXCEPT ![p] = NoSocket]
               /\ Clear(p)
               /\ UNCHANGED <<at, asleep>>
          [] OTHER ->
               /\ cb' = [cb EXCEPT ![i].state = last, ![i].snd = @ + 1]
               /\ conn' = [conn EXCEPT ![b.conn].snt = b.snd + 1,
                                       ![b.conn].limit = Told(b.conn, b.rcv, b.wnd)]
               /\ at' = [at EXCEPT ![p] = "close"] /\ asleep' = asleep \cup {p}
               /\ UNCHANGED sock

\* After sleep(), whatever has become of the block meanwhile.
CloseAwake(p) ==
  /\ at[p] = "close" /\ p \notin asleep
  /\ Clear(p)
  /\ sock' = [sock EXCEPT ![p] = NoSocket]
  /\ at' = [at EXCEPT ![p] = "user"]
  /\ UNCHANGED asleep

\* fork() copies the descriptor; kill() ends a sleep.
ForkSocket(p, q) ==
  /\ at[p] = "user" /\ at[q] = "user" /\ sock[p] # NoSocket /\ sock[q] = NoSocket
  /\ sock' = [sock EXCEPT ![q] = sock[p]]
  /\ UNCHANGED <<cb, conn, at, asleep>>

KillSleeper(p) == p \in asleep /\ asleep' = asleep \ {p} /\ UNCHANGED <<cb, conn, sock, at>>

Peer == \E c \in DOMAIN conn : PeerAccept(c) \/ PeerSend(c) \/ PeerFin(c)

Call(p) == \/ \E r \in Remote : tcp_open(p, r)
           \/ \E iss \in ISS : tcp_connect(p, iss)
           \/ \E n \in Chunk : tcp_send(p, n)
           \/ \E n \in Chunk : tcp_read(p, n)
           \/ ConnectAwake(p) \/ tcp_close(p) \/ CloseAwake(p) \/ KillSleeper(p)
           \/ \E q \in Process \ {p} : ForkSocket(p, q)

Next == Peer \/ (\E c \in DOMAIN conn : tcp_rx(c)) \/ (\E p \in Process : Call(p))

Spec == Init /\ [][Next]_vars

-----------------------------------------------------------------------------
\* The bytes and the FIN acknowledged to the peer of c by block b.
AckedTo(b) == Rel(b.rcv, b.conn)

(***************************************************************************)
(* What has been acknowledged is kept: the bytes read from a connection    *)
(* followed by the ones in cb->buf are exactly the first bytes the peer    *)
(* sent, as many as rcv.nxt acknowledges (one more number for a FIN that   *)
(* was really sent), and the window is the room that is left, whatever is  *)
(* lost, repeated or comes out of order.  The one exception is the lost    *)
(* connection, whose block was cleared at tcp.c:404 by a close() that had  *)
(* been asleep since the block was another's.                              *)
(***************************************************************************)
StreamKept ==
  /\ \A i \in Slot :
       cb[i].state \notin {"CLOSED", "SYN_SENT"} =>
         LET b == cb[i]
             k == conn[b.conn]
             kept == k.got \o b.buf
         IN /\ kept = [j \in 1 .. Len(kept) |-> PeerByte(b.conn, j)]
            /\ Len(b.buf) + b.wnd = BUF /\ b.wnd >= 0
            /\ Len(kept) <= k.len
            /\ \/ AckedTo(b) = Len(kept)
               \/ AckedTo(b) = Len(kept) + 1 /\ k.fin /\ k.len = Len(kept)
  /\ \A c \in DOMAIN conn :
       LET got == conn[c].got
       IN conn[c].lost \/ got = [j \in 1 .. Len(got) |-> PeerByte(c, j)]

(***************************************************************************)
(* A read that returns 0 says the truth, unless the connection was lost:   *)
(* the peer has closed its side and every byte it sent before has been     *)
(* read.                                                                   *)
(***************************************************************************)
EofTrue ==
  \A c \in DOMAIN conn :
    conn[c].eof /\ ~conn[c].lost => conn[c].fin /\ Len(conn[c].got) = conn[c].len

(***************************************************************************)
(* No wakeup is lost between a reader's test and its sleep(): a process    *)
(* asleep in tcp_read() has no byte to read, and its connection can still  *)
(* bring one, unless it was lost.                                          *)
(***************************************************************************)
ReaderHasNothing ==
  \A p \in asleep : at[p] = "read" /\ ~conn[sock[p].conn].lost =>
    cb[sock[p].cb].wnd = BUF /\ RxReady(cb[sock[p].cb])
=============================================================================
