------------------------------- MODULE TempFiles -------------------------------
(***************************************************************************)
(* The directory of partial files (storage.tmp_dir), which a server writes *)
(* to and every start sweeps.                                              *)
(***************************************************************************)
EXTENDS Naturals

CONSTANT MaxNames       \* bound on the partial files at one time

ASSUME TempFilesAssumption == MaxNames \in Nat

VARIABLE parts          \* the .part files in tmp_dir

Names == 1 .. MaxNames  \* 0 is none
================================================================================
