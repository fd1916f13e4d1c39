------------------------------- MODULE MCServing -------------------------------
(***************************************************************************)
(* Instances of Serving for TLC.                                           *)
(***************************************************************************)
EXTENDS Serving, TLC

CONSTANTS t1, t2, t3
================================================================================
