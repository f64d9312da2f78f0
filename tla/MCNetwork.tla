------------------------------ MODULE MCNetwork -----------------------------
(***************************************************************************)
(* Instances of Net for TLC, with two processes and two sockets.  part,    *)
(* chosen at the start, says which of them runs: "receive", where packets  *)
(* come round the receive ring, or "send", where more datagrams are sent   *)
(* than the transmit ring holds, and a single control block is left.       *)
(***************************************************************************)
EXTENDS Net, TLC

VARIABLE part

MCRemote == {<<1, 2>>}
Symmetry == Permutations(Process)

Tx == INSTANCE Net WITH UDP_CB_TABLE_SIZE <- 1, Mac <- {"m", "any"}, MaxWire <- 1,
                        MaxSent <- 3

allVars == <<part, vars>>

AllInit ==
  /\ part \in {"receive", "send"}
  /\ IF part = "send" THEN Tx!Init ELSE Init

AllNext ==
  /\ IF part = "send" THEN Tx!Next ELSE Next
  /\ UNCHANGED part

AllSpec == AllInit /\ [][AllNext]_allVars
=============================================================================
