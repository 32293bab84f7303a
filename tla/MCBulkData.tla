----------------------------- MODULE MCBulkData -----------------------------
(***************************************************************************)
(* A small instance of BulkData for TLC.                                   *)
(***************************************************************************)
EXTENDS BulkData, TLC

ReportSymmetry == Permutations(Reports)
=============================================================================
