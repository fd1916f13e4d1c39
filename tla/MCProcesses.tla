------------------------------ MODULE MCProcesses ------------------------------
(***************************************************************************)
(* Instances of Processes for TLC.                                         *)
(***************************************************************************)
EXTENDS Processes, TLC

CONSTANTS server, command, t1, t2

\* migrations/1-init.sql creates what does not exist; 2-request_count.sql adds a
\* column.
Adopting == {1}

Alike == Permutations({t1, t2})

\* Bound: commands run beside a server whose path is immutable and whose store has
\* no limit; a server that evicts or refreshes runs alone.
OneMeddler ==
    evicting # "never" \/ refreshing # "never" => \A p \in Commands : stage[p] = "idle"
================================================================================
