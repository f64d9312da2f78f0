------------------------------ MODULE Console -------------------------------
(***************************************************************************)
(* The console: kernel/console.c over kernel/uart.c, on one CPU.           *)
(*                                                                         *)
(* Processes read and write the console device and are killed; characters  *)
(* are typed; the UART sends one character at a time and interrupts when   *)
(* it is ready for the next one.  A step is one turn of a loop; while a    *)
(* process owns a spin-lock interrupts are off, so the handler runs only   *)
(* when nobody does, and runs to its end.  The indexes are 32-bit unsigned *)
(* integers that wrap at Wrap, which the sizes of both buffers divide.     *)
(***************************************************************************)
EXTENDS Integers, Sequences, FiniteSets

CONSTANTS
    Process, Nobody,
    INPUT_BUF, UART_TX_BUF_SIZE, Wrap,
    MaxCount,     \* largest n passed to read()
    Written       \* characters that write() sends

NL == "newline"
CR == "return"
EOT == "ctrl-D"
Typed == {"a", NL, CR, EOT, "ctrl-U", "ctrl-H"}
Char == {"a", NL, EOT}
\* What a slot holds that no index reaches makes no difference.
Stale == "a"
Unsent == CHOOSE c \in Written : TRUE

VARIABLES
    buf, r, w, e,           \* cons.buf, cons.r, cons.w, cons.e
    lock,                   \* owner of cons.lock, when it is a process
    tx, tx_r, tx_w,         \* uart_tx_buf and its indexes
    busy,                   \* the UART's holding register is full: ~LSR_TX_IDLE
    rhr,                    \* the character in RHR, or "none"
    irq,                    \* the UART asks for an interrupt
    handler,                \* "off", "rx" (the loop of uartintr) or "tx" (uartstart)
    echo,                   \* echoes the handler has still to send; one erases a character
    pc, n, target, killed,  \* per process: its place, and consoleread()'s variables
    use                     \* bound: in one behaviour all read, or all write

input == <<buf, r, w, e>>
output == <<tx, tx_r, tx_w>>
uart == <<busy, rhr, irq>>
intr == <<handler, echo>>
procs == <<pc, n, target, use>>
vars == <<input, lock, output, uart, intr, procs, killed>>

Add(a, b) == (a + b) % Wrap

\* uartinit(): interrupts on, and nothing sent or received.
uartinit ==
    /\ tx = [i \in 0 .. UART_TX_BUF_SIZE - 1 |-> Unsent]
    /\ tx_r = 0 /\ tx_w = 0
    /\ busy = FALSE /\ rhr = "none" /\ irq = FALSE

Init ==
    /\ uartinit
    /\ buf = [i \in 0 .. INPUT_BUF - 1 |-> Stale] /\ r = 0 /\ w = 0 /\ e = 0
    /\ lock = Nobody
    /\ handler = "off" /\ echo = 0
    /\ pc = [p \in Process |-> "user"]
    /\ n = [p \in Process |-> 0] /\ target = [p \in Process |-> 0]
    /\ killed = {} /\ use \in {"read", "write"}

Goto(p, l) == pc' = [pc EXCEPT ![p] = l]

\* A process runs only while the handler does not, and no other process is
\* between acquire() and release().
Runs(p, l) == handler = "off" /\ lock \in {p, Nobody} /\ pc[p] = l

\* wakeup() of the sleepers at label s, which go on at label l.
Woken(f, s, l) == [p \in Process |-> IF f[p] = s THEN l ELSE f[p]]

-----------------------------------------------------------------------------
(* The UART (external): it sends, and a character arrives. *)

UartSends == /\ busy /\ busy' = FALSE /\ irq' = TRUE
             /\ UNCHANGED <<input, lock, output, rhr, intr, procs, killed>>

UartHears(c) == /\ rhr = "none" /\ rhr' = c /\ irq' = TRUE
                /\ UNCHANGED <<input, lock, output, busy, intr, procs, killed>>

-----------------------------------------------------------------------------
(* consoleread() *)

ReadCall(p, k) ==
    /\ Runs(p, "user") /\ p \notin killed /\ use = "read"
    /\ n' = [n EXCEPT ![p] = k] /\ target' = [target EXCEPT ![p] = k]
    /\ Goto(p, "read")
    /\ UNCHANGED <<input, lock, output, uart, intr, killed, use>>

\* return, with the lock released
Return(p) == Goto(p, "user") /\ lock' = Nobody
Forget(p) == n' = [n EXCEPT ![p] = 0] /\ target' = [target EXCEPT ![p] = 0]

ReadEmpty(p) ==
    /\ Runs(p, "read") /\ n[p] > 0 /\ r = w
    /\ IF p \in killed THEN Return(p) /\ Forget(p)
       ELSE Goto(p, "read_sleep") /\ lock' = Nobody /\ UNCHANGED <<n, target>>
    /\ UNCHANGED <<input, output, uart, intr, killed, use>>

\* c = cons.buf[cons.r++ % INPUT_BUF] and what follows.  ok: the copy to the
\* user's memory succeeds.
ReadChar(p, ok) ==
    /\ Runs(p, "read") /\ n[p] > 0 /\ r # w
    /\ LET c == buf[r % INPUT_BUF]
       IN /\ r' = IF c = EOT /\ n[p] < target[p] THEN r ELSE Add(r, 1)
          /\ buf' = IF r' = r THEN buf ELSE [buf EXCEPT ![r % INPUT_BUF] = Stale]
          /\ IF c = EOT \/ ~ok \/ c = NL THEN Return(p) /\ Forget(p)
             ELSE n' = [n EXCEPT ![p] = @ - 1] /\ lock' = p /\ UNCHANGED <<pc, target>>
    /\ UNCHANGED <<w, e, output, uart, intr, killed, use>>

ReadDone(p) ==
    /\ Runs(p, "read") /\ n[p] = 0
    /\ Return(p) /\ Forget(p)
    /\ UNCHANGED <<input, output, uart, intr, killed, use>>

-----------------------------------------------------------------------------
(* consoleintr(): the new e, and how many characters are echoed. *)

Full(from, to, size) == to = Add(from, size)
Before(i) == (i + Wrap - 1) % Wrap

\* The characters that the loop for control-U passes.
Erasable == {k \in 0 .. INPUT_BUF :
               /\ k <= (e - w) % Wrap
               /\ \A j \in 1 .. k : buf[((e - j) % Wrap) % INPUT_BUF] # NL}
Longest(S) == CHOOSE k \in S : \A j \in S : j <= k

\* consputc() k times.  The three characters that erase one go as one.
consputc(k) == echo' = k

\* Erasing stops at the last line that was ended (w).
Erased(c) == IF c = "ctrl-U" THEN Longest(Erasable) ELSE IF e # w THEN 1 ELSE 0

Erase(c) ==
    /\ e' = (e - Erased(c)) % Wrap
    /\ consputc(Erased(c))
    /\ buf' = [i \in DOMAIN buf |-> IF i \in {((e - j) % Wrap) % INPUT_BUF : j \in 1 .. Erased(c)}
                                    THEN Stale ELSE buf[i]]
    /\ UNCHANGED <<r, w, pc>>

\* A line is handed over when it is ended, or when the buffer is full.
HandoverLines(c) == c \in {NL, EOT}
Handover(c) == c \in {NL, EOT} \/ Full(r, Add(e, 1), INPUT_BUF)

Store(c) ==
    IF (e - r) % Wrap < INPUT_BUF
    THEN /\ buf' = [buf EXCEPT ![e % INPUT_BUF] = c]
         /\ e' = Add(e, 1)
         /\ w' = IF Handover(c) THEN Add(e, 1) ELSE w
         /\ pc' = IF Handover(c) THEN Woken(pc, "read_sleep", "read") ELSE pc
         /\ consputc(1)
         /\ UNCHANGED r
    ELSE UNCHANGED <<input, pc, echo>>

consoleintr(c) == IF c \in {"ctrl-U", "ctrl-H"} THEN Erase(c)
                  ELSE Store(IF c = CR THEN NL ELSE c)

-----------------------------------------------------------------------------
(* uartintr(), called by devintr(). *)

Interrupt ==
    /\ irq /\ handler = "off" /\ lock = Nobody
    /\ handler' = "rx" /\ irq' = FALSE
    /\ UNCHANGED <<input, lock, output, busy, rhr, echo, procs, killed>>

Getc ==
    /\ handler = "rx" /\ echo = 0 /\ rhr # "none"
    /\ rhr' = "none"
    /\ consoleintr(rhr)
    /\ UNCHANGED <<lock, output, busy, irq, handler, n, target, killed, use>>

\* uartputc_sync() spins until the UART is idle.
Echo ==
    /\ echo > 0 /\ ~busy
    /\ echo' = echo - 1 /\ busy' = TRUE
    /\ UNCHANGED <<input, lock, output, rhr, irq, handler, procs, killed>>

RxDone ==
    /\ handler = "rx" /\ echo = 0 /\ rhr = "none"
    /\ handler' = "tx"
    /\ UNCHANGED <<input, lock, output, uart, echo, procs, killed>>

\* One turn of the loop of uartstart(): a character goes to the idle UART.
Starts == tx_r # tx_w /\ ~busy

UartstartQuiet ==
    /\ Starts
    /\ tx_r' = Add(tx_r, 1) /\ busy' = TRUE
    /\ tx' = [tx EXCEPT ![tx_r % UART_TX_BUF_SIZE] = Unsent]
    /\ UNCHANGED <<input, lock, tx_w, rhr, irq, intr, procs, killed>>
UartstartTurn ==
    /\ Starts
    /\ tx_r' = Add(tx_r, 1) /\ busy' = TRUE
    /\ tx' = [tx EXCEPT ![tx_r % UART_TX_BUF_SIZE] = Unsent]
    /\ pc' = Woken(pc, "write_sleep", "write")
    /\ UNCHANGED <<input, lock, tx_w, rhr, irq, intr, n, target, killed, use>>

TxTurn == handler = "tx" /\ UartstartTurn

TxDone ==
    /\ handler = "tx" /\ ~Starts
    /\ handler' = "off"
    /\ UNCHANGED <<input, lock, output, uart, echo, procs, killed>>

-----------------------------------------------------------------------------
(* consolewrite(): uartputc() of each character. *)

WriteCall(p) ==
    /\ Runs(p, "user") /\ p \notin killed /\ use = "write"
    /\ Goto(p, "write")
    /\ UNCHANGED <<input, lock, output, uart, intr, n, target, killed, use>>

TxFull == Full(tx_r, tx_w, UART_TX_BUF_SIZE)

WriteFull(p) ==
    /\ Runs(p, "write") /\ TxFull
    /\ Goto(p, "write_sleep")
    /\ UNCHANGED <<input, lock, output, uart, intr, n, target, killed, use>>

uartputc(p, c) ==
    /\ Runs(p, "write") /\ ~TxFull
    /\ tx' = [tx EXCEPT ![tx_w % UART_TX_BUF_SIZE] = c]
    /\ tx_w' = Add(tx_w, 1)
    /\ lock' = p
    /\ Goto(p, "start")
    /\ UNCHANGED <<input, tx_r, uart, intr, n, target, killed, use>>

StartTurn(p) == Runs(p, "start") /\ UartstartTurn

StartDone(p) ==
    /\ Runs(p, "start") /\ ~Starts
    /\ Return(p)
    /\ UNCHANGED <<input, output, uart, intr, n, target, killed, use>>

\* kill(): the sleeper at either label wakes up.
Kill(p) ==
    /\ handler = "off" /\ lock = Nobody /\ p \notin killed
    /\ killed' = killed \cup {p}
    /\ pc' = [pc EXCEPT ![p] = IF @ = "read_sleep" THEN "read"
                               ELSE IF @ = "write_sleep" THEN "write" ELSE @]
    /\ UNCHANGED <<input, lock, output, uart, intr, n, target, use>>

Handler == Interrupt \/ Getc \/ Echo \/ RxDone \/ TxTurn \/ TxDone

Next ==
    \/ UartSends \/ (\E c \in Typed : UartHears(c))
    \/ Handler
    \/ \E p \in Process :
         \/ \E k \in 0 .. MaxCount : ReadCall(p, k)
         \/ ReadEmpty(p) \/ ReadDone(p) \/ \E ok \in BOOLEAN : ReadChar(p, ok)
         \/ WriteCall(p) \/ WriteFull(p) \/ \E c \in Written : uartputc(p, c)
         \/ StartTurn(p) \/ StartDone(p)
         \/ Kill(p)

Spec == Init /\ [][Next]_vars

-----------------------------------------------------------------------------
Chars(from, to) == [i \in 1 .. (to - from) % Wrap |-> buf[Add(from, i - 1) % INPUT_BUF]]

Line == INSTANCE LineInput WITH Ends <- {NL, EOT}, Capacity <- INPUT_BUF,
                                ready <- Chars(r, w), edit <- Chars(w, e)

\* console.c:3-8 "Reads are line at a time" with the special input characters:
\* across the wrap-around of the indexes, with a full buffer and any number of
\* readers, the three indexes implement a queue of lines with an editor.
ImplementsLines == Line!Spec

Ring == [i \in 1 .. (tx_w - tx_r) % Wrap |-> tx[Add(tx_r, i - 1) % UART_TX_BUF_SIZE]]

Sent == INSTANCE Fifo WITH Byte <- Written, Capacity <- UART_TX_BUF_SIZE, queue <- Ring

\* uart.c:94-107 and 136-159: the characters of write() leave in the order in
\* which they were put in the ring, none lost and none twice, although the
\* handler and the writers both empty it.
ImplementsFifo == Sent!Spec

\* console.c:89-97 and uart.c:94-107, 144-157: nobody sleeps in vain.  A
\* reader sleeps only while no line is ready; a writer only while the ring is
\* full and the UART is still to interrupt: it is busy, or has asked for an
\* interrupt, or the handler is running.
SleepersServed ==
    \A p \in Process :
        /\ pc[p] = "read_sleep" => r = w /\ p \notin killed
        /\ pc[p] = "write_sleep" => /\ Full(tx_r, tx_w, UART_TX_BUF_SIZE)
                                    /\ busy \/ irq \/ handler # "off"
=============================================================================
