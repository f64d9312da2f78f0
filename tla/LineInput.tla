----------------------------- MODULE LineInput ------------------------------
(***************************************************************************)
(* What the console promises its readers: the line being typed can be      *)
(* edited until it is ended, and the ended lines are read in the order in  *)
(* which they were typed.  At most Capacity characters are under way; a    *)
(* line that fills the buffer is ended as it stands.                       *)
(***************************************************************************)
EXTENDS Naturals, Sequences

CONSTANTS Char, Ends, Capacity    \* Ends: the characters that end a line

VARIABLES ready, edit             \* ended lines; the line being typed

Init == ready = <<>> /\ edit = <<>>

Type(c) ==
    /\ Len(ready) + Len(edit) < Capacity
    /\ IF c \in Ends \/ Len(ready) + Len(edit) + 1 = Capacity
       THEN ready' = ready \o edit \o <<c>> /\ edit' = <<>>
       ELSE edit' = Append(edit, c) /\ ready' = ready

Erase == /\ edit # <<>>
         /\ edit' = SubSeq(edit, 1, Len(edit) - 1) /\ ready' = ready

KillLine == edit' = <<>> /\ ready' = ready

Take == ready # <<>> /\ ready' = Tail(ready) /\ edit' = edit

Next == (\E c \in Char : Type(c)) \/ Erase \/ KillLine \/ Take

Spec == Init /\ [][Next]_<<ready, edit>>
=============================================================================
