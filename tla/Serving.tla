-------------------------------- MODULE Serving --------------------------------
(***************************************************************************)
(* The requests of a server for one path at the grain of its threads:      *)
(* ArtifactCache takes what a task does between two awaits as one step,    *)
(* but the runtime has many threads, and three objects are shared by them  *)
(* in several operations each:                                             *)
(*   - the map of flights, whose entry run_flight finds, compares and      *)
(*     removes in operations of its own (src/src/cache/serve.rs);          *)
(*   - ServeRegistry, whose guard counts down and removes the entry in two *)
(*     (src/src/cache/types.rs);                                           *)
(*   - SharedTemp, the counted reference of the requests that share one    *)
(*     passthrough download (src/src/cache/types.rs).                      *)
(* Beside the requests the server evicts and refreshes the path.  The      *)
(* search for a source is that of UpstreamClient; the other files of a     *)
(* bundle, and what makes an eviction start, are those of ArtifactCache.   *)
(***************************************************************************)
EXTENDS Naturals, FiniteSets, FiniteSetsExt, TempFiles

CONSTANTS
    Tasks,         \* the requests that a server works on at one time
    MaxCells,      \* bound on the flights at one time
    MaxLeft,       \* bound on the parts that dropped requests leave
    Width          \* 2^w for the count of active responses, a usize

\* A server has no 2^w requests at one time.
ASSUME ServingAssumption ==
    /\ IsFiniteSet(Tasks)
    /\ {MaxCells, MaxLeft} \subseteq Nat
    /\ Width \in Nat \ {0, 1}
    /\ Cardinality(Tasks) < Width

Cells == 1 .. MaxCells      \* flights; 0 is none

VARIABLES
    record,        \* whether the path has a row
    file,          \* whether its file is there, and of the size in the row
    outdated,      \* whose row was overwritten before they renamed its file
    registry,      \* the flight registered for the path
    value,         \* the outcome of each flight
    active,        \* the entry of the path in ServeRegistry
    refs,          \* the references of each SharedTemp
    pc,            \* where each task is
    cell,          \* the flight a task holds
    held,          \* the outcome it has taken, or the part it is writing
    evicting,      \* how far an eviction is with the path; never in a store without limit
    refreshing,    \* how far the refresh of the path is; never of one that is immutable
    left,          \* history: the parts of requests dropped while they wrote them
    interfered     \* history: while there were requests, a file was removed, or the
                   \* row written anew for another version

upkeepVars == <<outdated, evicting, refreshing>>
memoryVars == <<registry, value, active, refs, pc, cell, held, upkeepVars>>
historyVars == <<left, interfered>>
serveVars == <<record, file, memoryVars, historyVars>>
requestVars == <<parts, serveVars>>

NoEntry == [present |-> FALSE, count |-> 0]
Entry(n) == [present |-> TRUE, count |-> n % Width]

Nothing == [kind |-> "nothing", name |-> 0]
Outcome(kind) == [kind |-> kind, name |-> 0]
Part(n) == [kind |-> "part", name |-> n]
Passthrough(n) == [kind |-> "passthrough", name |-> n]
Outcomes == {Nothing, Outcome("installed"), Outcome("failed"), Outcome("broken")}
            \cup {Passthrough(n) : n \in Names}

\* get_or_init runs the download in the first task that holds the cell; a path
\* through a flight ends when the task has let go of it.
Initialising == {"get_flight", "stat_flight", "fetch", "body", "upsert", "rename", "settle"}
InFlight == {"join", "take", "remove", "leave"} \cup Initialising
Awaiting == {"get", "stat", "join", "get_final", "stat_final"} \cup Initialising
PCs == {"idle", "enter", "mark", "open", "stream", "lost", "unmark", "error"} \cup Awaiting \cup InFlight

Files == {"absent", "fits", "differs"}

Goto(t, at) == pc' = [pc EXCEPT ![t] = at]
Hold(t, what) == held' = [held EXCEPT ![t] = what]
Unchanged(variables) == UNCHANGED <<variables, upkeepVars, left, interfered>>

Quiet == \A t \in Tasks : pc[t] = "idle"

\* What happens under a request is remembered until all have ended.
Interfere == interfered' = (interfered \/ ~Quiet)

\* A row is written: of a mutable path, it may describe another version than the
\* file that is there, until the file of that row is renamed into place.
Renaming ==
    {t \in Tasks : pc[t] = "rename"} \cup (IF refreshing = "rename" THEN {"refresh"} ELSE {})

NewRow(who) ==
    /\ record' = TRUE
    /\ file' \in IF file = "absent" \/ refreshing = "never" THEN {file} ELSE {"fits", "differs"}
    /\ outdated' = Renaming \ {who}
    /\ IF file = "fits" /\ file' = "differs" THEN Interfere ELSE UNCHANGED interfered

NewFile(who) ==
    /\ file' \in IF who \in outdated /\ refreshing # "never" THEN {"fits", "differs"} ELSE {"fits"}
    /\ outdated' = outdated \ {who}
    /\ IF file' = "differs" THEN Interfere ELSE UNCHANGED interfered

\* SharedTemp::drop: whoever drops the last reference removes the file.  (Mutant:
\* whoever drops one.)
LastAny(n) == refs[n] > 0
Last(n) == refs[n] = 1

DropReference(n) ==
    /\ refs' = [refs EXCEPT ![n] = @ - 1]
    /\ parts' = IF Last(n) THEN parts \ {n} ELSE parts

\* (Mutant: the clone of an outcome does not count.)
ClonedUncounted(what) == refs
Cloned(what) ==
    IF what.kind = "passthrough" THEN [refs EXCEPT ![what.name] = @ + 1] ELSE refs

-----------------------------------------------------------------------------
(* CacheManager::get: the cached file                                       *)

Begin(t) ==
    /\ pc[t] = "idle"
    /\ Goto(t, "get")
    /\ interfered' = (interfered /\ \E u \in Tasks : pc[u] # "idle")
    /\ UNCHANGED <<record, file, parts, registry, value, active, refs, cell, held, upkeepVars, left>>

\* The row is read, and the file looked up, before the flight, within it and after it.
Get(t) ==
    /\ \/ pc[t] = "get" /\ Goto(t, IF record THEN "stat" ELSE "enter")
       \/ pc[t] = "get_flight" /\ Goto(t, IF record THEN "stat_flight" ELSE "fetch")
       \/ pc[t] = "get_final" /\ Goto(t, IF record THEN "stat_final" ELSE "error")
    /\ Unchanged(<<record, file, parts, registry, value, active, refs, cell, held>>)

\* A file of another size than in its row counts as missing.
Stat(t) ==
    /\ \/ pc[t] = "stat" /\ Goto(t, IF file = "fits" THEN "mark" ELSE "enter")
       \/ pc[t] = "stat_final" /\ Goto(t, IF file = "fits" THEN "mark" ELSE "error")
    /\ Unchanged(<<record, file, parts, registry, value, active, refs, cell, held>>)

\* ServeRegistry::acquire; a stale hit has started a refresh, one at a time.
Mark(t) ==
    /\ pc[t] = "mark"
    /\ active' = Entry(active.count + 1)
    /\ refreshing' \in IF refreshing = "none" THEN {"none", "fetch"} ELSE {refreshing}
    /\ Goto(t, "open")
    /\ UNCHANGED <<record, file, parts, registry, value, refs, cell, held, outdated, evicting,
                   left, interfered>>

-----------------------------------------------------------------------------
(* run_flight                                                               *)

Unused == {c \in Cells : c # registry /\ value[c] = Nothing /\ \A t \in Tasks : cell[t] # c}

Enter(t) ==
    /\ pc[t] = "enter"
    /\ IF registry # 0
       THEN cell' = [cell EXCEPT ![t] = registry] /\ UNCHANGED registry
       ELSE /\ Unused # {}
            /\ registry' = Min(Unused)
            /\ cell' = [cell EXCEPT ![t] = Min(Unused)]
    /\ Goto(t, "join")
    /\ Unchanged(<<record, file, parts, value, active, refs, held>>)

\* OnceCell::get_or_init.
Initialise(t) ==
    /\ pc[t] = "join" /\ value[cell[t]] = Nothing
    /\ \A u \in Tasks : cell[u] = cell[t] => pc[u] \notin Initialising
    /\ Goto(t, "get_flight")
    /\ Unchanged(<<record, file, parts, registry, value, active, refs, cell, held>>)

\* (Mutant: the task that ran the download leaves the removal to the others.)
SameFlightWaiting(t) == registry = cell[t] /\ pc[t] = "join"
SameFlight(t) == registry = cell[t]

\* The clone of the outcome is a reference of its own; nobody can tell when it is
\* made before remove_completed_flight compares, and then removes by the path.
Take(t) ==
    /\ pc[t] \in {"join", "take"} /\ value[cell[t]] # Nothing
    /\ refs' = Cloned(value[cell[t]])
    /\ Hold(t, value[cell[t]])
    /\ Goto(t, IF SameFlight(t) THEN "remove" ELSE "leave")
    /\ Unchanged(<<record, file, parts, registry, value, active, cell>>)

Remove(t) ==
    /\ pc[t] = "remove"
    /\ registry' = 0
    /\ Goto(t, "leave")
    /\ Unchanged(<<record, file, parts, value, active, refs, cell, held>>)

\* The task lets go of its cell, whose last holder drops the outcome in it.
LetGo(t) ==
    LET c == cell[t] IN
    /\ cell' = [cell EXCEPT ![t] = 0]
    /\ IF c = registry \/ \E u \in Tasks \ {t} : cell[u] = c
       THEN UNCHANGED <<value, refs, parts>>
       ELSE /\ value' = [value EXCEPT ![c] = Nothing]
            /\ IF value[c].kind = "passthrough"
               THEN DropReference(value[c].name)
               ELSE UNCHANGED <<refs, parts>>

\* 404 or 502 ends the request; an installed file is looked up; a passed one is
\* opened.
After(outcome) ==
    CASE outcome.kind = "installed" -> "get_final"
      [] outcome.kind = "passthrough" -> "open"
      [] outcome.kind = "failed" -> "idle"
      [] outcome.kind = "broken" -> "error"

Leave(t) ==
    /\ pc[t] = "leave"
    /\ LetGo(t)
    /\ Goto(t, After(held[t]))
    /\ IF held[t].kind = "passthrough" THEN UNCHANGED held ELSE Hold(t, Nothing)
    /\ Unchanged(<<record, file, registry, active>>)

-----------------------------------------------------------------------------
(* fetch_main_or_cached, in the task that initialises                       *)

\* The flight is completed.
Complete(t, outcome) ==
    /\ value' = [value EXCEPT ![cell[t]] = outcome]
    /\ Hold(t, Nothing)
    /\ Goto(t, "take")

\* Another request has installed the file meanwhile.
StatFlight(t) ==
    /\ pc[t] = "stat_flight"
    /\ IF file = "fits" THEN Complete(t, Outcome("installed"))
       ELSE Goto(t, "fetch") /\ UNCHANGED <<value, held>>
    /\ Unchanged(<<record, file, parts, registry, active, refs, cell>>)

\* A name is new (a UUID): none of those in use, and none of `others`.
FreeNames(others) ==
    {n \in Names \ (parts \cup others) : refs[n] = 0 /\ \A t \in Tasks : held[t].name # n}

\* The search finds no source, or the body of one is written to a part.
Fetch(t, others) ==
    /\ pc[t] = "fetch"
    /\ \/ /\ Complete(t, Outcome("failed"))
          /\ UNCHANGED parts
       \/ /\ FreeNames(others) # {}
          /\ parts' = parts \cup {Min(FreeNames(others))}
          /\ Hold(t, Part(Min(FreeNames(others))))
          /\ Goto(t, "body")
          /\ UNCHANGED value
    /\ Unchanged(<<record, file, registry, active, refs, cell>>)

\* The body of the last source breaks off.  (Mutant: its part stays.)
DiscardedNot(n) == parts
Discarded(n) == parts \ {n}

BrokenOff(t) ==
    /\ pc[t] = "body"
    /\ parts' = Discarded(held[t].name)
    /\ Complete(t, Outcome("failed"))
    /\ Unchanged(<<record, file, registry, active, refs, cell>>)

\* The body is whole: the repository allows it to be cached, or it is passed on.
Delivered(t) ==
    LET n == held[t].name IN
    /\ pc[t] = "body"
    /\ \/ Goto(t, "upsert") /\ UNCHANGED <<value, held, refs>>
       \/ Complete(t, Passthrough(n)) /\ refs' = [refs EXCEPT ![n] = 1]
    /\ Unchanged(<<record, file, parts, registry, active, cell>>)

Upsert(t) ==
    /\ pc[t] = "upsert"
    /\ NewRow(t)
    /\ Goto(t, "rename")
    /\ UNCHANGED <<parts, registry, value, active, refs, cell, held, evicting, refreshing, left>>

\* A part that is gone cannot be renamed: an internal error for all who wait.
Rename(t) ==
    LET n == held[t].name IN
    /\ pc[t] = "rename"
    /\ parts' = parts \ {n}
    /\ IF n \in parts
       THEN /\ NewFile(t)
            /\ Hold(t, Nothing) /\ Goto(t, "settle") /\ UNCHANGED value
       ELSE /\ Complete(t, Outcome("broken"))
            /\ outdated' = outdated \ {t}
            /\ UNCHANGED <<file, interfered>>
    /\ UNCHANGED <<record, registry, active, refs, cell, evicting, refreshing, left>>

\* The eviction of install_bundle is over.
Settle(t) ==
    /\ pc[t] = "settle"
    /\ Complete(t, Outcome("installed"))
    /\ Unchanged(<<record, file, parts, registry, active, refs, cell>>)

-----------------------------------------------------------------------------
(* cached_response, and the response until it is dropped                    *)

\* An open file can be removed; it is read to its end all the same.
Open(t) ==
    /\ pc[t] = "open"
    /\ Goto(t, IF IF held[t].kind = "passthrough" THEN held[t].name \in parts ELSE file # "absent"
               THEN "stream" ELSE "lost")
    /\ Unchanged(<<record, file, parts, registry, value, active, refs, cell, held>>)

\* ServeGuard::drop: the entry is counted down under its lock, and removed in
\* another operation when the count has come to zero.  (Mutant: it is never
\* removed.)
AtZeroKept(entry) == "idle"
AtZero(entry) == IF entry.count = 0 THEN "unmark" ELSE "idle"

DropGuard(t) ==
    IF active.present
    THEN /\ active' = Entry(active.count + Width - 1)
         /\ Goto(t, AtZero(active'))
    ELSE Goto(t, "idle") /\ UNCHANGED active

Unmark(t) ==
    /\ pc[t] = "unmark"
    /\ active' = NoEntry
    /\ Goto(t, "idle")
    /\ Unchanged(<<record, file, parts, registry, value, refs, cell, held>>)

\* The response is sent, breaks off, or its client is gone; HEAD opens nothing.
Release(t) ==
    IF held[t].kind = "passthrough"
    THEN /\ DropReference(held[t].name)
         /\ Hold(t, Nothing) /\ Goto(t, "idle")
         /\ UNCHANGED active
    ELSE DropGuard(t) /\ UNCHANGED <<refs, parts, held>>

Finish(t) ==
    /\ pc[t] \in {"open", "stream", "lost"}
    /\ Release(t)
    /\ Unchanged(<<record, file, registry, value, cell>>)

\* 500, for a request that has neither a file nor a guard.
Respond(t) ==
    /\ pc[t] = "error"
    /\ Goto(t, "idle")
    /\ Unchanged(<<record, file, parts, registry, value, active, refs, cell, held>>)

-----------------------------------------------------------------------------
(* A request is dropped at an await before it has a response.  The part it   *)
(* writes stays until a process starts.                                      *)

Cancel(t) ==
    /\ pc[t] \in Awaiting
    /\ held[t].kind = "part" => Cardinality(left) < MaxLeft
    /\ left' = IF held[t].kind = "part" THEN left \cup {held[t].name} ELSE left
    /\ Hold(t, Nothing) /\ Goto(t, "idle")
    /\ IF cell[t] = 0 THEN UNCHANGED <<cell, value, refs, parts>> ELSE LetGo(t)
    /\ outdated' = outdated \ {t}
    /\ UNCHANGED <<record, file, registry, active, evicting, refreshing, interfered>>

-----------------------------------------------------------------------------
(* The server's own eviction, in the handler of another path, and refresh.   *)

Busy == registry # 0 \/ refreshing \in {"fetch", "rename"} \/ active.present

\* enforce_capacity picks the path from its list of rows, unlinks its file and
\* deletes its row; it is dropped with its handler at any of these.
EvictPick ==
    /\ evicting = "none" /\ record /\ ~Busy
    /\ evicting' = "unlink"
    /\ UNCHANGED <<record, file, parts, registry, value, active, refs, pc, cell, held, outdated,
                   refreshing, left, interfered>>

EvictFile ==
    /\ evicting = "unlink"
    /\ file' = "absent"
    /\ Interfere
    /\ evicting' = "delete"
    /\ UNCHANGED <<record, parts, registry, value, active, refs, pc, cell, held, outdated,
                   refreshing, left>>

EvictRow ==
    /\ evicting = "delete"
    /\ record' = FALSE
    /\ Interfere
    /\ evicting' = "none"
    /\ UNCHANGED <<file, parts, registry, value, active, refs, pc, cell, held, outdated,
                   refreshing, left>>

EvictEnd ==
    /\ evicting \in {"unlink", "delete"}
    /\ evicting' = "none"
    /\ UNCHANGED <<record, file, parts, registry, value, active, refs, pc, cell, held, outdated,
                   refreshing, left, interfered>>

\* A refresh installs another version, or ends without: nothing newer was found, or
\* it failed.  Its part is none of `parts`.
RefreshRow ==
    /\ refreshing = "fetch"
    /\ NewRow("refresh")
    /\ refreshing' = "rename"
    /\ UNCHANGED <<parts, registry, value, active, refs, pc, cell, held, evicting, left>>

RefreshFile ==
    /\ refreshing = "rename"
    /\ NewFile("refresh")
    /\ refreshing' = "none"
    /\ UNCHANGED <<record, parts, registry, value, active, refs, pc, cell, held, evicting, left>>

RefreshEnd ==
    /\ refreshing \in {"fetch", "rename"}
    /\ refreshing' = "none"
    /\ outdated' = outdated \ {"refresh"}
    /\ UNCHANGED <<record, file, parts, registry, value, active, refs, pc, cell, held, evicting,
                   left, interfered>>

Upkeep ==
    EvictPick \/ EvictFile \/ EvictRow \/ EvictEnd \/ RefreshRow \/ RefreshFile \/ RefreshEnd

-----------------------------------------------------------------------------
\* The cache and the partial files are those of an earlier process.
ServeInit ==
    /\ record \in BOOLEAN /\ file \in Files /\ (file # "absent" => record)
    /\ evicting \in {"never", "none"} /\ refreshing \in {"never", "none"}
    /\ file = "differs" => refreshing # "never"
    /\ outdated = {}
    /\ parts \in SUBSET Names /\ left = parts
    /\ registry = 0
    /\ value = [c \in Cells |-> Nothing]
    /\ active = NoEntry
    /\ refs = [n \in Names |-> 0]
    /\ pc = [t \in Tasks |-> "idle"]
    /\ cell = [t \in Tasks |-> 0]
    /\ held = [t \in Tasks |-> Nothing]
    /\ interfered = FALSE

Lookup(t) == Begin(t) \/ Get(t) \/ Stat(t) \/ Mark(t)
Flight(t) == Enter(t) \/ Initialise(t) \/ Take(t) \/ Remove(t) \/ Leave(t)
Download(t, others) ==
    \/ StatFlight(t) \/ Fetch(t, others) \/ BrokenOff(t) \/ Delivered(t)
    \/ Upsert(t) \/ Rename(t) \/ Settle(t)
Response(t) == Open(t) \/ Finish(t) \/ Unmark(t) \/ Respond(t)
TaskStep(t, others) == Lookup(t) \/ Flight(t) \/ Download(t, others) \/ Response(t)

\* Other processes may have listed names that this one must not take for new.
ServeNext ==
    \/ \E t \in Tasks : Cancel(t) \/ \E others \in SUBSET Names : TaskStep(t, others)
    \/ Upkeep

ServeSpec == ServeInit /\ [][ServeNext]_requestVars

-----------------------------------------------------------------------------
(* Properties                                                               *)

\* The types, and what a task holds where.
ServeTypeOK ==
    /\ record \in BOOLEAN /\ file \in Files
    /\ outdated \subseteq Tasks \cup {"refresh"}
    /\ evicting \in {"never", "none", "unlink", "delete"}
    /\ refreshing \in {"never", "none", "fetch", "rename"}
    /\ parts \subseteq Names /\ left \subseteq Names
    /\ registry \in Cells \cup {0}
    /\ value \in [Cells -> Outcomes]
    /\ active \in {NoEntry} \cup {Entry(n) : n \in 0 .. Width - 1}
    /\ refs \in [Names -> Nat]
    /\ pc \in [Tasks -> PCs]
    /\ cell \in [Tasks -> Cells \cup {0}]
    /\ held \in [Tasks -> Outcomes \cup {Part(n) : n \in Names}]
    /\ interfered \in BOOLEAN
    /\ \A t \in Tasks : pc[t] \in InFlight <=> cell[t] # 0
    /\ \A t \in Tasks : held[t].kind = "part" <=> pc[t] \in {"body", "upsert", "rename"}

\* run_flight: "a completed flight is removed so a later request can restart it":
\* whoever is dropped or overtaken, a completed flight is never left registered.
CompletedLeaves ==
    registry # 0 /\ value[registry] # Nothing =>
        \E t \in Tasks : cell[t] = registry /\ pc[t] \in {"take", "remove"}

\* SharedTemp counts its holders, responses and completed flights alike, and every
\* partial file belongs to a download, to a holder, or to a dropped request: none
\* is lost while the server runs, and none is removed from under a response.
TempCounted ==
    \A n \in Names :
        refs[n] = Cardinality({t \in Tasks : held[t] = Passthrough(n)})
                  + Cardinality({c \in Cells : value[c] = Passthrough(n)})
TempReclaimed ==
    \A n \in parts : refs[n] > 0 \/ n \in left \/ \E t \in Tasks : held[t] = Part(n)

\* A path does not stay busy: although a guard that comes between the last count
\* down and the removal of the entry is lost, and the count may wrap, the entry is
\* gone when the last response is.
BusyReleased ==
    active.present => \E t \in Tasks :
        pc[t] \in {"open", "stream", "lost", "unmark"} /\ held[t] = Nothing

\* A request that ends in 500 had its file removed, or its row written anew, while
\* it ran: by an eviction or a refresh, by a second download of the path, or by
\* another process.  What else a server does makes no request fail: what a flight
\* installs is there for all who wait for it, and what it passes on for each.
UndisturbedSucceed == (\E t \in Tasks : pc[t] \in {"error", "lost"}) => interfered

\* remove_completed_flight: it "removes a finished flight from the registry unless
\* a newer flight already replaced it", so a path has one download at a time.
OneDownload == Cardinality({t \in Tasks : pc[t] \in Initialising}) <= 1
================================================================================
