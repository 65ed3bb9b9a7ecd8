---------------------------- MODULE BoundedFifo -----------------------------
(***************************************************************************)
(* What every ring of the library promises its clients: a first-in         *)
(* first-out queue of at most Size elements.  hist is everything that was  *)
(* ever put, in order; the first rd of them have been taken.               *)
(***************************************************************************)
EXTENDS Naturals, Sequences

CONSTANTS Size, Elements
VARIABLES hist, rd

Init == hist = <<>> /\ rd = 0

Put == /\ Len(hist) < rd + Size
       /\ \E v \in Elements : hist' = Append(hist, v)
       /\ rd' = rd

Take == /\ rd < Len(hist)
        /\ rd' = rd + 1
        /\ hist' = hist

Next == Put \/ Take

Spec == Init /\ [][Next]_<<hist, rd>>
=============================================================================
