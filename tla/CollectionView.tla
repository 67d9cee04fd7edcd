--------------------------- MODULE CollectionView ---------------------------
(***************************************************************************)
(* What a watch stream promises the table it feeds: the rows shown are     *)
(* always the whole collection as it was at one version, and that version  *)
(* only moves forward.  It may skip versions (a snapshot does) and it may  *)
(* lag, but it never mixes two versions.                                   *)
(***************************************************************************)
EXTENDS Naturals, Sequences

VARIABLES hist, shown, view

Init == Len(hist) = 1 /\ shown = 0

(* The apiserver accepts a write. *)
Write ==
    /\ Len(hist') = Len(hist) + 1
    /\ \A r \in 1..Len(hist) : hist'[r] = hist[r]
    /\ UNCHANGED <<shown, view>>

(* The table moves to a version no older than the one it shows. *)
Advance ==
    /\ shown' \in 1..Len(hist) /\ shown' >= shown
    /\ view' = hist[shown'].rows
    /\ UNCHANGED hist

Spec == Init /\ [][Write \/ Advance]_<<hist, shown, view>>
=============================================================================
