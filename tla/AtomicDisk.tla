----------------------------- MODULE AtomicDisk -----------------------------
(***************************************************************************)
(* What the logging layer (kernel/log.c) promises to the file-system calls *)
(* that run between begin_op() and end_op(): the disk as a map from block  *)
(* numbers to contents, of which a whole group of calls becomes durable at *)
(* once, at a moment when no call is in progress, or not at all.           *)
(*                                                                         *)
(* Nothing of the mechanism (log blocks, header, pinned buffers, recovery) *)
(* appears here; module Log is shown to implement this one.                *)
(***************************************************************************)
CONSTANTS
    Proc,    \* processes that make file-system calls
    Block,   \* disk blocks outside the log
    Data     \* contents of a block

VARIABLES
    durable, \* the contents a reboot would find
    view,    \* the contents that the running calls read
    active   \* the processes between begin_op() and end_op()

vars == <<durable, view, active>>

Init ==
    /\ durable \in [Block -> Data]
    /\ view = durable
    /\ active = {}

BeginOp(p) ==
    /\ p \notin active
    /\ active' = active \cup {p}
    /\ UNCHANGED <<durable, view>>

\* Only a call in progress changes a block, and only in the running view.
Write(p, b, d) ==
    /\ p \in active
    /\ view' = [view EXCEPT ![b] = d]
    /\ UNCHANGED <<durable, active>>

EndOp(p) ==
    /\ p \in active
    /\ active' = active \ {p}
    /\ UNCHANGED <<durable, view>>

\* All that the finished calls wrote becomes durable in one step.
Commit ==
    /\ active = {}
    /\ durable' = view
    /\ UNCHANGED <<view, active>>

Crash ==
    /\ view' = durable
    /\ active' = {}
    /\ UNCHANGED durable

Next ==
    \/ \E p \in Proc :
          \/ BeginOp(p)
          \/ \E b \in Block, d \in Data : Write(p, b, d)
          \/ EndOp(p)
    \/ Commit
    \/ Crash

Spec == Init /\ [][Next]_vars

=============================================================================
