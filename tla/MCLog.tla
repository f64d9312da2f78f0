------------------------------- MODULE MCLog --------------------------------
(***************************************************************************)
(* Instances of Log for TLC.  part, chosen at the start, says which one    *)
(* runs: "crash", two blocks and a machine that crashes, or "room", with   *)
(* more blocks than the log holds, where begin_op() must keep two calls    *)
(* from filling it.  In "room" the properties speak of the blocks of the   *)
(* first instance, which are among its own.                                *)
(***************************************************************************)
EXTENDS Log, TLC

CONSTANT MoreBlocks

VARIABLE part

Symmetry == Permutations(Proc) \cup Permutations(Block)

Room == INSTANCE Log WITH
          Block <- Block \cup MoreBlocks, Data <- {CHOOSE d \in Data : TRUE},
          MAXOPBLOCKS <- 3, OpBlocks <- 1, LOGSIZE <- 6, LogBlocks <- 6,
          MaxCrashes <- 0

allVars == <<part, vars>>

AllInit ==
    /\ part \in {"crash", "room"}
    /\ IF part = "room" THEN Room!Init ELSE Init

AllNext ==
    /\ IF part = "room" THEN Room!Next ELSE Next
    /\ UNCHANGED part

AllSpec == AllInit /\ [][AllNext]_allVars
=============================================================================
