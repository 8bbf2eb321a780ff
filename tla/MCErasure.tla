----------------------------- MODULE MCErasure ------------------------------
(***************************************************************************)
(* Small instances of Erasure for TLC.                                     *)
(***************************************************************************)
EXTENDS Erasure, TLC

\* All calls of Submit fall on one day.
OneDay == [r \in Request |-> 1]
=============================================================================
