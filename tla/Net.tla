--------------------------------- MODULE Net ---------------------------------
(***************************************************************************)
(* The network below TCP: the e1000 driver and its two rings, Ethernet and *)
(* IP demultiplexing, ARP, UDP, the list of sockets and the packet buffers *)
(* (mbufs) that travel between them (kernel/e1000.c, ethernet.c, ip.c,     *)
(* arp.c, udp.c, socket.c and mbuf.c).                                     *)
(*                                                                         *)
(* The kernel runs on one CPU (CPUS := 1 in the Makefile).  A step of a    *)
(* process is what it does under one spin lock, with interrupts off; the   *)
(* interrupt handler runs to its end while processes stand still, but the  *)
(* card goes on storing and sending packets between its steps.             *)
(*                                                                         *)
(* mbufs are pages of kalloc(); which free one is handed out makes no      *)
(* difference, so it is the lowest.  Bounds: enough of them that kalloc()  *)
(* does not fail, MaxOpen sockets, MaxWire packets of which MaxOther not   *)
(* UDP, MaxSent datagrams sent.                                            *)
(***************************************************************************)
EXTENDS Integers, Sequences, FiniteSets, FiniteSetsExt

CONSTANTS Process, NMBUF, RX_RING_SIZE, TX_RING_SIZE, UDP_CB_TABLE_SIZE, ARP_TABLE_SIZE,
          Remote,            \* addresses of hosts, as pairs of halves
          Mac, GATEWAY_MAC_ADDR,
          MaxOpen, MaxWire, MaxOther, MaxSent

VARIABLES
  free,                      \* the mbufs that are free
  content,                   \* the packet in each mbuf
  rx, dd, rdh, rdt,          \* rx_mbufs, RXD_STAT_DD, RDH and RDT
  tx, tdh, tdt,              \* tx_mbufs, TDH and TDT
  icr,                       \* the card asks for an interrupt
  intr,                      \* the handler: "off", "loop" (e1000_recv) or "ack"
  pos,                       \* its desc_pos
  arp,                       \* arp_table
  ucb,                       \* cb_table of udp.c
  list,                      \* the head of the list of sockets
  sk,                        \* the sockets: control block, nxt, and if allocated
  fd, at, asleep,            \* per process: its socket and where it is
  stopped,                   \* a call used memory that is not its own (a freed socket, an
                             \* entry past cb_table); what comes next depends on what is
                             \* there, and is left out
  wire, seen,                \* history: packets stored by the card; handled
  got, since,                \* history: datagrams read from a socket; seen when it connected
  queue, overrun,            \* history: frames given to e1000_send() and not yet sent; the
                             \* ring was full when one more came
  sent                       \* datagrams sent, for the bound

ring == <<rx, dd, rdh, rdt, icr, wire>>
txr == <<tx, tdh, tdt, queue, overrun>>
handler == <<intr, pos, seen>>
procs == <<fd, at, asleep>>
lists == <<list, sk, stopped>>
vars == <<free, content, ring, txr, handler, arp, ucb, lists, procs, got, since, sent>>

Mbuf == 1 .. NMBUF
RxSlot == 0 .. RX_RING_SIZE - 1
TxSlot == 0 .. TX_RING_SIZE - 1
Cb == 1 .. UDP_CB_TABLE_SIZE
Socket == 1 .. MaxOpen
NULL == 0
JUNK == MaxOpen + 1          \* what kfree() leaves in a page

toggle(a) == <<a[2], a[1]>>  \* host to network byte order
Packet == [kind : {"udp"}, from : Remote, port : 1 .. UDP_CB_TABLE_SIZE]
          \cup [kind : {"arp_request", "ip_other", "other"}, from : Remote]
          \cup [kind : {"arp_reply"}, from : Remote, mac : Mac]
NoPacket == [kind |-> "none"]
ETHERNET_ADDR_ANY == "any"   \* all zero
Unused == [used |-> FALSE, port |-> 0, peer |-> <<0, 0>>, mbufs |-> <<>>]

ASSUME NetAssumption ==
  /\ RX_RING_SIZE > 1
  /\ TX_RING_SIZE > 2        \* a step adds two frames at most
  /\ \A r \in Remote : toggle(r) \notin Remote

\* e1000_rx_init() and e1000_tx_init(); the rest is zeroed memory.
Init ==
  /\ rx = [i \in RxSlot |-> i + 1]
  /\ free = Mbuf \ {i + 1 : i \in RxSlot}
  /\ content = [m \in Mbuf |-> NoPacket]
  /\ dd = [i \in RxSlot |-> FALSE] /\ rdh = 0 /\ rdt = RX_RING_SIZE - 1
  /\ tx = [i \in TxSlot |-> NULL] /\ tdh = 0 /\ tdt = 0
  /\ queue = <<>> /\ overrun = FALSE
  /\ icr = FALSE /\ intr = "off" /\ pos = 0
  /\ arp = <<>> /\ ucb = [i \in Cb |-> Unused]
  /\ list = NULL /\ sk = [s \in Socket |-> [cb |-> 0, nxt |-> NULL, live |-> FALSE]]
  /\ fd = [p \in Process |-> 0] /\ at = [p \in Process |-> "user"] /\ asleep = {}
  /\ stopped = FALSE /\ wire = <<>> /\ seen = 0
  /\ got = [s \in Socket |-> <<>>] /\ since = [s \in Socket |-> 0] /\ sent = 0

mbuf_alloc(avail) == Min(avail)

(***************************************************************************)
(* The card (external).  It fills the descriptors from RDH up to RDT, and  *)
(* sends the ones from TDH up to TDT; it drops a packet when it has no     *)
(* descriptor for it.                                                      *)
(***************************************************************************)
CardReceive(k) ==
  /\ Len(wire) < MaxWire /\ rdh # rdt
  /\ k.kind # "udp" => Len(SelectSeq(wire, LAMBDA w : w.kind # "udp")) < MaxOther
  /\ content' = [content EXCEPT ![rx[rdh]] = [pkt |-> k, num |-> Len(wire) + 1]]
  /\ dd' = [dd EXCEPT ![rdh] = TRUE]
  /\ rdh' = (rdh + 1) % RX_RING_SIZE
  /\ icr' = TRUE
  /\ wire' = Append(wire, k)
  /\ UNCHANGED <<free, rx, rdt, txr, handler, arp, ucb, lists, procs, got, since, sent>>

CardSend ==
  /\ tdh # tdt
  /\ tdh' = (tdh + 1) % TX_RING_SIZE
  /\ queue' = IF overrun THEN queue ELSE Tail(queue)
  /\ UNCHANGED <<free, content, ring, tx, tdt, overrun, handler, arp, ucb, lists, procs, got, since, sent>>

(***************************************************************************)
(* e1000_send() of the frame k in mbuf m.  DD is set in every descriptor   *)
(* from the start and never cleared, so the test for a full ring never     *)
(* succeeds.  When the card has not kept up the frame goes in all the      *)
(* same, TDT comes round to TDH, and the card takes the ring for empty.    *)
(* out is the state of the send side.                                      *)
(***************************************************************************)
Out == [free |-> free, content |-> content, tx |-> tx, tdt |-> tdt, queue |-> queue,
        overrun |-> overrun]

Sent(out, m, k, old) ==
  LET over == out.overrun \/ (out.tdt + 1) % TX_RING_SIZE = tdh
  IN [free |-> out.free \cup (old \ {NULL}),
      content |-> [out.content EXCEPT ![m] = k],
      tx |-> [out.tx EXCEPT ![out.tdt] = m],
      tdt |-> (out.tdt + 1) % TX_RING_SIZE,
      queue |-> IF over THEN <<>> ELSE Append(out.queue, k),
      overrun |-> over]

\* Variant: the mbuf of the next descriptor is freed.
e1000_sendFreesNext(out, m, k) == Sent(out, m, k, {out.tx[(out.tdt + 1) % TX_RING_SIZE]})
e1000_send(out, m, k) == Sent(out, m, k, {out.tx[out.tdt]})

arp_tx(out, op, ip, mac) ==
  LET m == mbuf_alloc(out.free)
  IN IF out.free = {} THEN out
     ELSE e1000_send([out EXCEPT !.free = @ \ {m}], m, [kind |-> op, to |-> ip, mac |-> mac])

\* arp_resolve(): the first entry of that address, unless its MAC address is
\* zero, or a request and no answer.  ip_tx() then takes the gateway's.
Known(ip) == {i \in DOMAIN arp : arp[i].ip = ip}

arp_resolve(out, ip) ==
  LET mac == IF Known(ip) = {} THEN ETHERNET_ADDR_ANY ELSE arp[Min(Known(ip))].mac
  IN CASE mac # ETHERNET_ADDR_ANY -> [out |-> out, mac |-> mac]
       [] Known(ip) = {} /\ Len(arp) = ARP_TABLE_SIZE -> [out |-> out, mac |-> GATEWAY_MAC_ADDR]
       [] OTHER -> [out |-> arp_tx(out, "arp_request", ip, "broadcast"), mac |-> GATEWAY_MAC_ADDR]

\* The mbuf of the datagram is taken before the one of an ARP request.
ip_tx(out, m, ip) ==
  LET r == IF ip = <<0, 0>> THEN [out |-> out, mac |-> "broadcast"] ELSE arp_resolve(out, ip)
  IN e1000_send(r.out, m, [kind |-> "udp", to |-> ip, mac |-> r.mac])

\* A control block keeps the address of its peer with its bytes swapped.
udp_tx(out, m, cb) == ip_tx(out, m, toggle(cb.peer))

Sends(out) ==
  /\ free' = out.free /\ content' = out.content /\ tx' = out.tx
  /\ tdt' = out.tdt /\ queue' = out.queue /\ overrun' = out.overrun /\ tdh' = tdh

(***************************************************************************)
(* The interrupt handler.  devintr() comes here while the card asks for    *)
(* an interrupt and no process holds a spin lock.                          *)
(***************************************************************************)
e1000_intr ==
  /\ intr = "off" /\ icr /\ ~stopped
  /\ intr' = "loop" /\ pos' = (rdt + 1) % RX_RING_SIZE
  /\ UNCHANGED <<free, content, ring, txr, seen, arp, ucb, lists, procs, got, since, sent>>

\* The control block udp_rx() finds for a datagram.
Match(k) == {i \in Cb : ucb[i].used /\ ucb[i].peer = toggle(k.from) /\ ucb[i].port = k.port}

\* append() to the list of mbufs of the control block, and wakeup() on it.
appendFront(q, m) == <<m>> \o q
append(q, m) == Append(q, m)

WokenNone(i) == {}
Woken(i) == {p \in asleep : sk[fd[p]].cb = i}

\* What becomes of a received mbuf m that holds k: queued, freed, or leaked.
udp_rx(m, k) ==
  /\ IF Match(k) = {}
     THEN free' = (free \ {rx'[pos]}) \cup {m} /\ UNCHANGED <<ucb, asleep>>
     ELSE LET i == Min(Match(k))
          IN /\ ucb' = [ucb EXCEPT ![i].mbufs = append(@, m)]
             /\ asleep' = asleep \ Woken(i)
             /\ free' = free \ {rx'[pos]}
  /\ UNCHANGED <<content, txr, arp>>

arp_rx(m, k) ==
  /\ IF k.kind = "arp_request"
     THEN /\ Sends(arp_tx([Out EXCEPT !.free = @ \ {rx'[pos]}], "arp_reply", k.from, "sender"))
          /\ UNCHANGED arp
     ELSE /\ arp' = IF Len(arp) < ARP_TABLE_SIZE THEN Append(arp, [ip |-> k.from, mac |-> k.mac]) ELSE arp
          /\ free' = free \ {rx'[pos]}
          /\ UNCHANGED <<content, txr>>
  /\ UNCHANGED <<ucb, asleep>>

\* ethernet_rx() and ip_rx(): the other protocols keep their mbuf for ever.
ethernet_rx(m, k) ==
  CASE k.kind = "udp" -> udp_rx(m, k)
    [] k.kind \in {"arp_request", "arp_reply"} -> arp_rx(m, k)
    [] k.kind = "ip_other" -> free' = free \ {rx'[pos]} /\ UNCHANGED <<content, txr, arp, ucb, asleep>>
    [] OTHER -> free' = (free \ {rx'[pos]}) \cup {m} /\ UNCHANGED <<content, txr, arp, ucb, asleep>>

\* One turn of the loop of e1000_recv(); a new mbuf replaces m in the ring.
Refill(m) == mbuf_alloc(free)

e1000_recv ==
  /\ intr = "loop" /\ dd[pos] /\ free # {}
  /\ LET m == rx[pos]
     IN /\ rx' = [rx EXCEPT ![pos] = Refill(m)]
        /\ dd' = [dd EXCEPT ![pos] = FALSE]
        /\ rdt' = pos
        /\ pos' = (pos + 1) % RX_RING_SIZE
        /\ seen' = seen + 1
        /\ ethernet_rx(m, content[m].pkt)
  /\ UNCHANGED <<rdh, icr, wire, intr, lists, fd, at, got, since, sent>>

RecvEnds ==
  /\ intr = "loop" /\ ~dd[pos]
  /\ intr' = "ack"
  /\ UNCHANGED <<free, content, ring, txr, pos, seen, arp, ucb, lists, procs, got, since, sent>>

\* Reading E1000_ICR clears it.
ReadIcr ==
  /\ intr = "ack"
  /\ intr' = "off" /\ icr' = FALSE
  /\ UNCHANGED <<free, content, rx, dd, rdh, rdt, wire, txr, pos, seen, arp, ucb, lists, procs, got, since, sent>>

(***************************************************************************)
(* System calls.  connect() is socket_alloc(): link the socket, then       *)
(* udp_open(), then udp_connect(), each under its own lock.                *)
(***************************************************************************)
Runs(p, l) == intr = "off" /\ ~stopped /\ at[p] = l /\ p \notin asleep
Goto(p, l) == at' = [at EXCEPT ![p] = l]
quiet == <<content, ring, txr, handler, arp, sent>>

socket_alloc(p) ==
  \E s \in Socket :
    /\ Runs(p, "user") /\ fd[p] = 0
    /\ ~sk[s].live /\ sk[s].nxt = NULL /\ \A t \in 1 .. s - 1 : sk[t].live \/ sk[t].nxt = JUNK
    /\ sk' = [sk EXCEPT ![s] = [cb |-> 0, nxt |-> list, live |-> TRUE]]
    /\ list' = s
    /\ fd' = [fd EXCEPT ![p] = s]
    /\ Goto(p, "open")
    /\ UNCHANGED <<free, quiet, ucb, asleep, stopped, got, since>>

\* With no free block the index is 255, -1 in a uint8 and here 0, and socket_alloc() goes on.
udp_open(p) ==
  /\ Runs(p, "open")
  /\ \A i \in Cb : ucb[i].used => ucb[i].peer \notin Remote   \* otherwise returns with the lock held
  /\ LET unused == {i \in Cb : ~ucb[i].used}
     IN IF unused = {} THEN UNCHANGED <<ucb, sk>>
        ELSE /\ ucb' = [ucb EXCEPT ![Min(unused)].used = TRUE]
             /\ sk' = [sk EXCEPT ![fd[p]].cb = Min(unused)]
  /\ Goto(p, "connect")
  /\ UNCHANGED <<free, quiet, list, stopped, fd, asleep, got, since>>

Opened(p) == sk[fd[p]].cb # 0

\* socket_alloc() gets an mbuf for it, which nobody uses or frees; here it is
\* the last one.
udp_connect(p, r) ==
  /\ Runs(p, "connect")
  /\ LET i == sk[fd[p]].cb
         port == Min({q \in 1 .. UDP_CB_TABLE_SIZE : \A j \in Cb : ~(ucb[j].used /\ ucb[j].port = q)})
     IN ucb' = IF Opened(p) THEN [ucb EXCEPT ![i].peer = toggle(r), ![i].port = port] ELSE ucb
  /\ free' = IF free = {} THEN free ELSE free \ {Max(free)}
  /\ since' = [since EXCEPT ![fd[p]] = seen]
  /\ Goto(p, "user")
  /\ UNCHANGED <<quiet, lists, fd, asleep, got>>

\* With an invalid index the mbuf is neither sent nor freed.
udp_send(out, m, i) == Sends(IF i = 0 THEN out ELSE udp_tx(out, m, ucb[i]))

\* write() on the socket: an mbuf for the bytes of the user.  A copy from the
\* user that fails gives it back and changes nothing.
socket_write(p) ==
  /\ Runs(p, "user") /\ fd[p] # 0 /\ sent < MaxSent /\ Cardinality(free) > 1
  /\ LET m == mbuf_alloc(free)
     IN udp_send([Out EXCEPT !.free = @ \ {m}], m, sk[fd[p]].cb)
  /\ sent' = sent + 1
  /\ UNCHANGED <<ring, handler, arp, ucb, lists, procs, got, since>>

\* One turn of the loop of udp_read().
udp_read(p) ==
  /\ LET s == fd[p]
         q == ucb[sk[s].cb].mbufs
     IN IF q = <<>>
        THEN Goto(p, "read") /\ asleep' = asleep \cup {p} /\ UNCHANGED <<free, ucb, got>>
        ELSE /\ ucb' = [ucb EXCEPT ![sk[s].cb].mbufs = Tail(q)]
             /\ free' = free \cup {Head(q)}
             /\ got' = [got EXCEPT ![s] = Append(@, content[Head(q)].num)]
             /\ Goto(p, "user") /\ UNCHANGED asleep
  /\ UNCHANGED <<quiet, lists, fd, since>>

\* read() on the socket, from the user or after the sleep() in udp_read(),
\* which does not look at the index.
socket_read(p) ==
  /\ fd[p] # 0 /\ (Runs(p, "user") \/ Runs(p, "read"))
  /\ IF Opened(p) THEN udp_read(p)
     ELSE stopped' = TRUE
          /\ UNCHANGED <<free, quiet, ucb, list, sk, procs, got, since>>

\* The last close(): udp_close() forgets the queued mbufs.  With an invalid
\* index socket_close() fails and the socket stays in the list.
udp_close(p) ==
  /\ Runs(p, "user") /\ fd[p] # 0
  /\ IF ~Opened(p) \/ \E q \in Process \ {p} : fd[q] = fd[p]
     THEN fd' = [fd EXCEPT ![p] = 0] /\ UNCHANGED <<ucb, at>>
     ELSE ucb' = [ucb EXCEPT ![sk[fd[p]].cb] = Unused] /\ Goto(p, "close") /\ UNCHANGED fd
  /\ UNCHANGED <<free, quiet, lists, asleep, got, since>>

\* The nodes visited by the loop of socket_close(), from the head on.
Visit[k \in 0 .. MaxOpen] == IF k = 0 THEN list
                             ELSE IF Visit[k - 1] \in Socket THEN sk[Visit[k - 1]].nxt ELSE NULL

\* The rest of socket_close(): unlink and free.  All the sockets are UDP.
socket_close(p) ==
  /\ Runs(p, "close")
  /\ LET s == fd[p]
         hit == {k \in 1 .. MaxOpen : Visit[k] \in Socket /\ sk[Visit[k]].cb = sk[s].cb}
         last == IF hit = {} THEN MaxOpen ELSE Min(hit)
         before == Visit[last - 1]
         unlinked == IF hit = {} THEN sk ELSE [sk EXCEPT ![before].nxt = sk[s].nxt]
     IN IF \E k \in 0 .. last : Visit[k] = JUNK
        THEN stopped' = TRUE /\ UNCHANGED <<list, sk, fd, at>>
        ELSE /\ list' = IF sk[list].nxt = NULL THEN NULL ELSE list
             /\ sk' = [unlinked EXCEPT ![s].nxt = JUNK, ![s].live = FALSE]
             /\ fd' = [fd EXCEPT ![p] = 0] /\ Goto(p, "user") /\ UNCHANGED stopped
  /\ UNCHANGED <<free, quiet, ucb, asleep, got, since>>

ForkFd(p, q) ==
  /\ Runs(p, "user") /\ fd[p] # 0 /\ at[q] = "user" /\ fd[q] = 0
  /\ fd' = [fd EXCEPT ![q] = fd[p]]
  /\ UNCHANGED <<free, quiet, ucb, lists, at, asleep, got, since>>

\* kill() ends the sleep; the loop of udp_read() does not look at p->killed.
KillReader(p) ==
  /\ intr = "off" /\ ~stopped /\ p \in asleep
  /\ asleep' = asleep \ {p}
  /\ UNCHANGED <<free, quiet, ucb, lists, fd, at, got, since>>

Card == (\E k \in Packet : CardReceive(k)) \/ CardSend

Handler == e1000_intr \/ e1000_recv \/ RecvEnds \/ ReadIcr

Call(p) == \/ socket_alloc(p) \/ udp_open(p) \/ \E r \in Remote : udp_connect(p, r)
           \/ socket_write(p) \/ socket_read(p) \/ udp_close(p) \/ socket_close(p) \/ KillReader(p)
           \/ \E q \in Process \ {p} : ForkFd(p, q)

Next == Card \/ Handler \/ \E p \in Process : Call(p)

Spec == Init /\ [][Next]_vars

-----------------------------------------------------------------------------
\* The numbers of the packets handled so far that are for socket s.
For(s) ==
  LET c == ucb[sk[s].cb]
      forS(k) == k > since[s] /\ wire[k].kind = "udp" /\ toggle(wire[k].from) = c.peer
                   /\ wire[k].port = c.port
  IN SelectSeq([k \in 1 .. seen |-> k], forS)

(***************************************************************************)
(* A connected socket delivers exactly the datagrams its peer sent to its  *)
(* port: the ones read, followed by the ones queued, are those the handler *)
(* has taken off the ring since udp_connect(), in the order in which the   *)
(* card stored them, whatever else arrives and however the handler, the    *)
(* card and the readers interleave.                                        *)
(***************************************************************************)
DatagramsExact ==
  \A p \in Process :
    fd[p] # 0 /\ at[p] \in {"user", "read"} /\ Opened(p) =>
      LET q == ucb[sk[fd[p]].cb].mbufs
      IN got[fd[p]] \o [k \in 1 .. Len(q) |-> content[q[k]].num] = For(fd[p])

\* The mbufs behind the descriptors the card has still to send.
Pending == [k \in 1 .. (tdt - tdh) % TX_RING_SIZE |-> tx[(tdh + k - 1) % TX_RING_SIZE]]

(***************************************************************************)
(* No mbuf is in two places: free, behind a receive descriptor, behind a   *)
(* transmit descriptor or queued on a socket.  Until the transmit ring     *)
(* overruns, the frames the card has still to send are the ones handed to  *)
(* e1000_send(), all of them, in order and untouched since, although slots *)
(* and mbufs are used again; and a datagram goes to the gateway or to an   *)
(* address that an ARP reply gave for its destination.                     *)
(***************************************************************************)
MbufsOwned ==
  LET queued(i) == {ucb[i].mbufs[k] : k \in 1 .. Len(ucb[i].mbufs)}
      held == {free, {rx[i] : i \in RxSlot}, {tx[i] : i \in TxSlot} \ {NULL}}
  IN /\ \A i \in RxSlot : rx[i] \notin free /\ \A j \in RxSlot \ {i} : rx[i] # rx[j]
     /\ \A i \in TxSlot : tx[i] # NULL => tx[i] \notin free \cup {rx[j] : j \in RxSlot}
                                           /\ \A j \in TxSlot \ {i} : tx[i] # tx[j]
     /\ \A i \in DOMAIN ucb :
          /\ Cardinality(queued(i)) = Len(ucb[i].mbufs)
          /\ \A h \in held \cup {queued(j) : j \in DOMAIN ucb \ {i}} : queued(i) \cap h = {}
     /\ ~overrun => queue = [k \in DOMAIN Pending |-> content[Pending[k]]]
     /\ \A k \in DOMAIN queue : queue[k].kind = "udp" /\ queue[k].mac # GATEWAY_MAC_ADDR =>
          /\ queue[k].mac # ETHERNET_ADDR_ANY
          /\ \E n \in 1 .. seen : /\ wire[n].kind = "arp_reply" /\ wire[n].from = queue[k].to
                                  /\ wire[n].mac = queue[k].mac

\* No wakeup is lost: a process asleep in udp_read() has nothing to read.
ReaderSleepsOnEmpty == \A p \in asleep : ucb[sk[fd[p]].cb].mbufs = <<>>
=============================================================================
