------------------------------- MODULE MCStartup -------------------------------
(***************************************************************************)
(* Instances of Startup for TLC.                                           *)
(***************************************************************************)
EXTENDS Startup

CONSTANTS server, tool

\* migrations/1-init.sql creates what does not exist; 2-request_count.sql adds a
\* column.
Adopting == {1}
================================================================================
