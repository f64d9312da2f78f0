------------------------------- MODULE Mutex --------------------------------
(***************************************************************************)
(* What a sleep-lock promises: at any time it has at most one owner, and   *)
(* only the owner gives it up.                                             *)
(***************************************************************************)
CONSTANTS Client, Nobody

VARIABLE owner

Init == owner = Nobody

Acquire(p) == owner = Nobody /\ owner' = p

Release(p) == owner = p /\ owner' = Nobody

Next == \E p \in Client : Acquire(p) \/ Release(p)

Spec == Init /\ [][Next]_owner
=============================================================================
