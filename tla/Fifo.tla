-------------------------------- MODULE Fifo --------------------------------
(***************************************************************************)
(* What a pipe promises its users: the bytes come out in the order in      *)
(* which they went in, none twice and none lost, and at most Capacity of   *)
(* them are under way.                                                     *)
(***************************************************************************)
EXTENDS Naturals, Sequences

CONSTANTS Byte, Capacity

VARIABLE queue

Init == queue = <<>>

Put(c) == Len(queue) < Capacity /\ queue' = Append(queue, c)

Get == queue # <<>> /\ queue' = Tail(queue)

Next == (\E c \in Byte : Put(c)) \/ Get

Spec == Init /\ [][Next]_queue
=============================================================================
