----------------------------- MODULE MCJobsList ------------------------------
(***************************************************************************)
(* A small instance of JobsList for TLC: three jobs, pages of one.         *)
(***************************************************************************)
EXTENDS JobsList, TLC
=============================================================================
