------------------------------- MODULE Processes -------------------------------
(***************************************************************************)
(* The processes on one storage: a server (Startup, then Serving) beside   *)
(* the commands that an operator runs (src/src/cli/command).  A command    *)
(* starts like a server, and so sweeps the directory of partial files; the *)
(* cache commands migrate the database too; `cache remove-prefix` removes  *)
(* files and rows (remove_prefix in src/src/cache/maintain.rs).  What is   *)
(* in the memory of the server, the busy paths above all, it cannot see.   *)
(***************************************************************************)
EXTENDS Naturals, FiniteSets, Startup, Serving, Responses

CONSTANT
    Server

ASSUME ProcessesAssumption == Server \in Procs

Commands == Procs \ {Server}      \* the other processes

VARIABLE
    removal        \* where each command is in remove_prefix

vars == <<parts, processVars, serveVars, removal>>

Listed == UNION {listing[p] : p \in Procs}

-----------------------------------------------------------------------------
(* Starts                                                                   *)

Started(p) == Launch(p) /\ UNCHANGED <<serveVars, removal>>

Cleanup(p) ==
    /\ Sweep(p)
    /\ IF parts' # parts THEN Interfere ELSE UNCHANGED interfered
    /\ left' = left \cap parts'
    /\ UNCHANGED <<record, file, memoryVars, removal>>

\* `config check` is done after the sweep.
Check(p) == p \in Commands /\ Checked(p) /\ UNCHANGED <<serveVars, removal>>

Migrate(p) ==
    /\ ReadVersion(p) \/ Ready(p) \/ Apply(p) \/ TimeOut(p) \/ Stamp(p) \/ Commit(p)
    /\ UNCHANGED <<serveVars, removal>>

-----------------------------------------------------------------------------
(* The server                                                               *)

\* A new partial file has a name that no process knows.
Request(t) ==
    /\ stage[Server] = "up"
    /\ TaskStep(t, Listed)
    /\ UNCHANGED <<processVars, removal>>

Drop(t) ==
    /\ stage[Server] = "up"
    /\ Cancel(t)
    /\ UNCHANGED <<processVars, removal>>

Maintain ==
    /\ stage[Server] = "up"
    /\ Upkeep
    /\ UNCHANGED <<processVars, removal>>

\* The memory of a server is lost when it ends: what it was writing is left behind.
Forget ==
    /\ registry' = 0
    /\ value' = [c \in Cells |-> Nothing]
    /\ active' = NoEntry
    /\ refs' = [n \in Names |-> 0]
    /\ pc' = [t \in Tasks |-> "idle"]
    /\ cell' = [t \in Tasks |-> 0]
    /\ held' = [t \in Tasks |-> Nothing]
    /\ outdated' = {}
    /\ evicting' = IF evicting = "never" THEN "never" ELSE "none"
    /\ refreshing' = IF refreshing = "never" THEN "never" ELSE "none"
    /\ left' = parts
    /\ interfered' = FALSE
    /\ UNCHANGED <<record, file>>

-----------------------------------------------------------------------------
(* cache remove-prefix                                                      *)

\* The rows are read.
Select(p) ==
    /\ p \in Commands /\ stage[p] = "up" /\ removal[p] = "none"
    /\ record
    /\ removal' = [removal EXCEPT ![p] = "unlink"]
    /\ UNCHANGED <<parts, processVars, serveVars>>

\* The registry of busy paths is that of this process, and empty.
Unlink(p) ==
    /\ removal[p] = "unlink"
    /\ file' = "absent"
    /\ Interfere
    /\ removal' = [removal EXCEPT ![p] = "delete"]
    /\ UNCHANGED <<parts, processVars, record, memoryVars, left>>

Delete(p) ==
    /\ removal[p] = "delete"
    /\ record' = FALSE
    /\ Interfere
    /\ removal' = [removal EXCEPT ![p] = "none"]
    /\ UNCHANGED <<parts, processVars, file, memoryVars, left>>

\* A process ends, a server when its requests have, or is killed at any step.
End(p) ==
    /\ Kill(p) \/ (Exit(p) /\ (p = Server => Quiet))
    /\ removal' = [removal EXCEPT ![p] = "none"]
    /\ IF p = Server THEN Forget ELSE UNCHANGED serveVars

-----------------------------------------------------------------------------
Init ==
    /\ StartInit
    /\ ServeInit
    /\ removal = [p \in Procs |-> "none"]

Removal(p) == Select(p) \/ Unlink(p) \/ Delete(p)
Next ==
    \/ \E p \in Procs : Started(p) \/ Cleanup(p) \/ Check(p) \/ Migrate(p) \/ End(p)
    \/ \E t \in Tasks : Request(t) \/ Drop(t)
    \/ Maintain
    \/ \E p \in Commands : Removal(p)

Spec == Init /\ [][Next]_vars

-----------------------------------------------------------------------------
(* Properties: those of Startup and of Serving, in their composition, and   *)
(* what only both together can promise.                                     *)

TypeOK ==
    /\ StartTypeOK /\ ServeTypeOK
    /\ removal \in [Procs -> {"none", "unlink", "delete"}]
    /\ stage[Server] # "up" => Quiet

\* A server takes requests on a directory without the partial files of an earlier one.
StartsClean == [][stage[Server] # "up" /\ stage'[Server] = "up" => parts' = {}]_vars

\* The range of a response is computed from the size in the row: the file that is
\* being sent has that size, unless it was replaced under the request, and for
\* every size and all headers the answer is what the request names.
RangeServed ==
    \A t \in Tasks : pc[t] = "stream" /\ ~interfered =>
        (held[t].kind = "passthrough" \/ file = "fits") /\ EveryRangeAsNamed
================================================================================
