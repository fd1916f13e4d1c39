---------------------------- MODULE ArtifactCache ----------------------------
(***************************************************************************)
(* The cache manager of maven-haste (src/src/cache): client requests,      *)
(* coalesced downloads, background refreshes, bundle installation and      *)
(* capacity eviction over two stores that share no transaction, the SQLite *)
(* table of artifact records and the directory of files.                   *)
(*                                                                         *)
(* Every worker is one tokio task.  A step of a worker is what it does     *)
(* between two awaits: one database statement or transaction, one file     *)
(* system call, or one update of the in-memory registries.  Client tasks   *)
(* may be dropped at any await (the client went away): what they had just  *)
(* asked of the database or the file system is done before that, or later, *)
(* beside whoever took over.  The process may be killed at any point; the  *)
(* two stores survive.                                                     *)
(*                                                                         *)
(* The data is abstract.  A main artifact has one generated checksum       *)
(* sibling (the code has three, installed alike); the content of a file is *)
(* the upstream version it comes from and who wrote it; the record of a    *)
(* path is the content it describes.  The age of a record, the access      *)
(* order of eviction and the answers of the upstreams are left open.       *)
(***************************************************************************)
EXTENDS Naturals, FiniteSets, FiniteSetsExt

CONSTANTS
    Tasks,        \* client request tasks
    Mains,        \* artifacts, each with a main file and a checksum file
    Refreshers,   \* the paths of Mutable policy that age: each names its refresh
    Versions,     \* the contents an upstream may have for a main file
    SizeOf,       \* the size of each version
    SumSize,      \* the size of a generated checksum file
    RawSumSize,   \* the size of a checksum file fetched from an upstream
    Dirs, DirOf,  \* the directory in which the files of an artifact lie
    MaxSize,      \* cache.max_size, or Unlimited
    Unlimited,
    Cells,        \* the OnceCells that the downloads of one path may have in use
    MayOvertake,  \* whether a flight may be registered under another's removal
    MaxLate,      \* bound on the calls under way that a dropped client left behind
    MaxCrashes,   \* bound on the kills of the process
    NoContent, NoPath, NoFlight, Vacant

Kinds == {"main", "sum"}
Path == Mains \X Kinds
Content == [of : Versions, by : {"upstream", "cache"}]
MainOf(p) == <<p[1], "main">>
SumOf(p) == <<p[1], "sum">>
IsSum(p) == p[2] = "sum"
DirectoryOf(p) == DirOf[p[1]]

Workers == Tasks \cup Refreshers
Outcomes == {"ok", "err"}

ASSUME ConstantsAssumption ==
    /\ IsFiniteSet(Mains) /\ IsFiniteSet(Versions) /\ IsFiniteSet(Tasks)
    /\ Refreshers \subseteq Path
    /\ SizeOf \in [Versions -> Nat]
    /\ SumSize \in Nat /\ RawSumSize \in Nat
    /\ DirOf \in [Mains -> Dirs]
    /\ MaxSize \in Nat \cup {Unlimited} /\ Unlimited \notin Nat
    /\ MaxCrashes \in Nat /\ MaxLate \in Nat /\ MayOvertake \in BOOLEAN
    /\ NoContent \notin Content \cup Versions /\ NoPath \notin Path
    /\ Tasks \cap Path = {} /\ Tasks \cap ({Vacant} \cup Outcomes) = {}
    /\ NoFlight \notin Cells /\ Vacant \notin Outcomes

(***************************************************************************)
(* A store maps every path to a content or to nothing: the table, the      *)
(* directory, a prepared bundle and an eviction snapshot are all stores.   *)
(***************************************************************************)
Store == [Path -> Content \cup {NoContent}]
EmptyStore == [p \in Path |-> NoContent]
Held(store) == {p \in Path : store[p] # NoContent}

\* (Mutant: an existing row is kept, ON CONFLICT DO NOTHING.)
OverlayKeeping(store, above) ==
    [p \in Path |-> IF store[p] = NoContent THEN above[p] ELSE store[p]]

\* upsert_many: the rows of a bundle replace those of their paths.
Overlay(store, above) ==
    [p \in Path |-> IF above[p] = NoContent THEN store[p] ELSE above[p]]
Fetched(v) == [of |-> v, by |-> "upstream"]
Computed(v) == [of |-> v, by |-> "cache"]

\* ArtifactRecord.file_size, and the length of the file itself.
Size(p, c) ==
    IF ~IsSum(p) THEN SizeOf[c.of]
    ELSE IF c.by = "cache" THEN SumSize ELSE RawSumSize

TotalSize(store) == MapThenSumSet(LAMBDA p : Size(p, store[p]), Held(store))

WithinLimitByOne(n) == n <= MaxSize + 1  \* mutant: off by one
WithinLimit(n) == n <= MaxSize

VARIABLES
    records,  \* the artifacts table (durable)
    files,    \* the files under storage.root (durable)
    dirs,     \* the directories that exist (durable)
    flights,  \* path -> the cell registered for its download, or NoFlight
    cells,    \* path, cell -> the task that initialises it, Vacant, or its outcome
    pc,       \* where each worker is
    job,      \* the local state of each worker
    budget,   \* the total size that a worker's eviction believes to remain
    late,     \* the calls that dropped clients left under way
    overtaken,  \* history: a flight was registered between another task's
                \* comparison of the registered one and its removal
    crashes

vars == <<records, files, dirs, flights, cells, pc, job, budget, late, overtaken, crashes>>
stores == <<records, files, dirs>>
flying == <<flights, cells, overtaken>>

(***************************************************************************)
(* The local state of a worker: the path it was asked for, the path whose  *)
(* download it is in and the cell it holds of that, the cell of the        *)
(* checksum's flight while it is in its main file's, the record it read    *)
(* last, the prepared bundle with the paths not yet renamed into place,    *)
(* and the snapshot and the victim of an eviction.                         *)
(***************************************************************************)
Job == [want : Path \cup {NoPath}, key : Path \cup {NoPath},
        cell : Cells \cup {NoFlight}, outer : Cells \cup {NoFlight},
        seen : Content \cup {NoContent},
        bundle : Store, left : SUBSET Path,
        victims : Store, victim : Path \cup {NoPath}]

NoJob == [want |-> NoPath, key |-> NoPath, cell |-> NoFlight, outer |-> NoFlight,
          seen |-> NoContent, bundle |-> EmptyStore, left |-> {},
          victims |-> EmptyStore, victim |-> NoPath]

\* A download, from the check inside the flight to the last eviction.
Downloading == {"get_flight", "stat_flight", "fetch", "mkdir", "upsert",
                "rename", "stats", "candidates", "evict", "unlink", "delete",
                "get_sum", "stat_sum", "source_get", "source_hash",
                "ok", "err"}
PCs == {"idle", "stat_first", "hit", "join", "wait", "take", "remove", "get_final",
        "stat_final", "guard", "open", "stream"} \cup Downloading

\* Where a step is one call to the database or the file system that changes it,
\* and such a call on its own: the rows it writes or the file it puts into place,
\* or the path it removes.
Changing == {"mkdir", "upsert", "rename", "unlink", "delete"}
LateCall == [at : Changing, bundle : Store, path : Path \cup {NoPath}]

\* (Mutants: a refresh counts until it installs; guards do not count.)
RefreshingFetch(p) == p \in Refreshers /\ pc[p] = "fetch"
Refreshing(p) == p \in Refreshers /\ pc[p] # "idle"
Guarded(p) == \E t \in Tasks : pc[t] \in {"open", "stream"} /\ job[t].want = p
BusyUnguarded(p) == flights[p] # NoFlight \/ Refreshing(p)
Busy(p) == flights[p] # NoFlight \/ Refreshing(p) \/ Guarded(p)

\* positive_cache: the record has a file, and the file has the record's size.
Positive(p, c) ==
    /\ c # NoContent
    /\ files[p] # NoContent
    /\ Size(p, files[p]) = Size(p, c)

Goto(w, at) == pc' = [pc EXCEPT ![w] = at]
Set(w, j) == job' = [job EXCEPT ![w] = j]
Stop(w) == Goto(w, "idle") /\ Set(w, NoJob)

\* database.get: the row of p, for the step that follows.
Read(t, from, to, p) ==
    /\ pc[t] = from
    /\ Goto(t, to)
    /\ Set(t, [job[t] EXCEPT !.seen = records[p]])
    /\ UNCHANGED <<stores, flying, budget, late, crashes>>

-----------------------------------------------------------------------------
(* Serving: get, positive_cache, trigger_refresh, cached_response           *)

\* A request arrives and reads its record.
Begin(t, p) ==
    /\ pc[t] = "idle"
    /\ Goto(t, "stat_first")
    /\ Set(t, [NoJob EXCEPT !.want = p, !.key = p, !.seen = records[p]])
    /\ UNCHANGED <<stores, flying, budget, late, crashes>>

StatFirst(t) ==
    /\ pc[t] = "stat_first"
    /\ IF Positive(job[t].want, job[t].seen)
       THEN Goto(t, "hit") /\ UNCHANGED job
       ELSE Goto(t, "join") /\ Set(t, [job[t] EXCEPT !.seen = NoContent])
    /\ UNCHANGED <<stores, flying, budget, late, crashes>>

\* A hit marks the path as served.  A mutable record may be stale by now: the
\* hit then starts the refresh of its path unless one is running.
Hit(t) ==
    LET p == job[t].want IN
    /\ pc[t] = "hit"
    /\ \/ Goto(t, "open") /\ UNCHANGED job
       \/ /\ p \in Refreshers
          /\ ~Refreshing(p)
          /\ pc' = [pc EXCEPT ![t] = "open", ![p] = "fetch"]
          /\ Set(p, [NoJob EXCEPT !.want = p, !.key = p])
    /\ UNCHANGED <<stores, flying, budget, late, crashes>>

\* The last look after a download: Miss, or "download completed without a
\* cache record".
GetFinal(t) == Read(t, "get_final", "stat_final", job[t].want)

StatFinal(t) ==
    /\ pc[t] = "stat_final"
    /\ IF Positive(job[t].want, job[t].seen)
       THEN Goto(t, "guard") /\ UNCHANGED job
       ELSE Stop(t)
    /\ UNCHANGED <<stores, flying, budget, late, crashes>>

Guard(t) ==
    /\ pc[t] = "guard"
    /\ Goto(t, "open")
    /\ UNCHANGED <<stores, flying, job, budget, late, crashes>>

\* The response opens the file by name, under the headers of the record it has;
\* once open, its bytes are fixed.
Open(t) ==
    /\ pc[t] = "open"
    /\ IF files[job[t].want] = NoContent
       THEN Stop(t)
       ELSE /\ Goto(t, "stream")
            /\ Set(t, [job[t] EXCEPT !.seen = NoContent])
    /\ UNCHANGED <<stores, flying, budget, late, crashes>>

\* The body ends or is dropped: the guard goes with it.
Finish(t) ==
    /\ pc[t] = "stream"
    /\ Stop(t)
    /\ UNCHANGED <<stores, flying, budget, late, crashes>>

-----------------------------------------------------------------------------
(* Downloads: run_flight, download_initial, fetch_main_or_cached            *)

\* The cells of p that the registry or a task holds; the last of them that lets a
\* cell go frees it.
InUse(p, registry, jobs) ==
    {registry[p]} \cup {jobs[t].cell : t \in {u \in Tasks : jobs[u].key = p}}
                  \cup {jobs[t].outer : t \in {u \in Tasks : jobs[u].want = p}}
Reclaimed(values, registry, jobs) ==
    [p \in Path |-> [c \in Cells |->
        IF c \in InUse(p, registry, jobs) THEN values[p][c] ELSE Vacant]]
Fresh(p) == Cells \ InUse(p, flights, job)

\* The cell of k: the registered one, or a new one.  (Mutant: every request gets
\* a cell of its own.)
CellOfOwn(k) == CHOOSE c \in Fresh(k) : TRUE
CellOf(k) == IF flights[k] = NoFlight THEN CHOOSE c \in Fresh(k) : TRUE ELSE flights[k]

\* A flight registered now is removed by a task that was in an earlier one.
Overtakes(k) == flights[k] = NoFlight /\ \E u \in Tasks : pc[u] = "remove" /\ job[u].key = k

\* Look up the flight of job[t].key, or register one.  (Bounds: Cells, MayOvertake.)
Enter(t) ==
    LET k == job[t].key IN
    /\ pc[t] = "join"
    /\ flights[k] # NoFlight \/ Fresh(k) # {}
    /\ flights' = [flights EXCEPT ![k] = CellOf(k)]
    /\ Overtakes(k) => MayOvertake
    /\ overtaken' = (overtaken \/ Overtakes(k))
    /\ Goto(t, "wait")
    /\ Set(t, [job[t] EXCEPT !.cell = CellOf(k)])
    /\ UNCHANGED <<stores, cells, budget, late, crashes>>

\* Whoever finds no initialiser in its cell runs it, be it new or left by one that
\* was dropped; that of a checksum enters its main file's flight.
Initialise(t) ==
    LET j == job[t] IN
    /\ pc[t] = "wait" /\ cells[j.key][j.cell] = Vacant
    /\ cells' = [cells EXCEPT ![j.key][j.cell] = t]
    /\ IF IsSum(j.key)
       THEN /\ Goto(t, "join")
            /\ Set(t, [j EXCEPT !.key = MainOf(@), !.outer = j.cell, !.cell = NoFlight])
       ELSE Goto(t, "get_flight") /\ UNCHANGED job
    /\ UNCHANGED <<stores, flights, overtaken, budget, late, crashes>>

GetFlight(t) == Read(t, "get_flight", "stat_flight", job[t].key)

\* The second look, inside the flight.  (Mutant: there is none.)
CachedMeanwhileNot(t) == FALSE
CachedMeanwhile(t) == Positive(job[t].key, job[t].seen)

StatFlight(t) ==
    /\ pc[t] = "stat_flight"
    /\ Goto(t, IF CachedMeanwhile(t) THEN "ok" ELSE "fetch")
    /\ Set(t, [job[t] EXCEPT !.seen = NoContent])
    /\ UNCHANGED <<stores, flying, budget, late, crashes>>

\* prepare_bundle: a main file brings its computed checksum; a checksum path
\* (only a refresh fetches one) is the upstream's file alone.
Prepared(p, v) ==
    [q \in Path |->
        IF q = p THEN Fetched(v)
        ELSE IF ~IsSum(p) /\ q = SumOf(p) THEN Computed(v)
        ELSE NoContent]

\* The upstreams answer with some version, with none, or not at all.  For a
\* refresh every answer but a new version ends it ("ok": touch_refresh_attempt).
Fetch(w) ==
    /\ pc[w] = "fetch"
    /\ \/ \E v \in Versions :
            LET b == Prepared(job[w].key, v) IN
            /\ Goto(w, "mkdir")
            /\ Set(w, [job[w] EXCEPT !.bundle = b, !.left = Held(b)])
       \/ Goto(w, IF w \in Tasks THEN "err" ELSE "ok") /\ UNCHANGED job
    /\ UNCHANGED <<stores, flying, budget, late, crashes>>

\* After the main flight of a checksum request: is the checksum there by now?
GetSum(t) == Read(t, "get_sum", "stat_sum", job[t].want)

StatSum(t) ==
    /\ pc[t] = "stat_sum"
    /\ Goto(t, IF Positive(job[t].key, job[t].seen) THEN "ok" ELSE "source_get")
    /\ Set(t, [job[t] EXCEPT !.seen = NoContent])
    /\ UNCHANGED <<stores, flying, budget, late, crashes>>

\* regenerate_checksum: hash the cached main file.
SourceGet(t) ==
    /\ pc[t] = "source_get"
    /\ Goto(t, IF records[MainOf(job[t].want)] = NoContent THEN "err" ELSE "source_hash")
    /\ UNCHANGED <<stores, flying, job, budget, late, crashes>>

SourceHash(t) ==
    LET p == job[t].want
        source == files[MainOf(p)]
    IN
    /\ pc[t] = "source_hash"
    /\ IF source = NoContent
       THEN Goto(t, "err") /\ UNCHANGED job
       ELSE /\ Goto(t, "mkdir")
            /\ Set(t, [job[t] EXCEPT !.bundle = [EmptyStore EXCEPT ![p] = Computed(source.of)],
                                     !.left = {p}])
    /\ UNCHANGED <<stores, flying, budget, late, crashes>>

\* The initialiser is through: the cell is set, and every task that holds it goes
\* on with the outcome, each on a thread of its own.
Complete(t) ==
    /\ pc[t] \in Outcomes
    /\ cells' = [cells EXCEPT ![job[t].key][job[t].cell] = pc[t]]
    /\ Goto(t, "take")
    /\ UNCHANGED <<stores, flights, overtaken, job, budget, late, crashes>>

\* Out of the flight of k: to the last look, to the checksum that the main file
\* was wanted for, or to the error (which also fails the flight of a checksum).
After(t, k, outcome) ==
    IF job[t].want = k
    THEN IF outcome = "ok" THEN "get_final" ELSE "idle"
    ELSE IF outcome = "ok" THEN "get_sum" ELSE "err"

Leave(t) ==
    LET j == job[t]
        at == After(t, j.key, cells[j.key][j.cell])
    IN
    /\ Goto(t, at)
    /\ Set(t, IF at = "idle" THEN NoJob
              ELSE [NoJob EXCEPT !.want = j.want, !.key = j.want, !.cell = j.outer])
    /\ cells' = Reclaimed(cells, flights', job')
    /\ UNCHANGED <<stores, overtaken, budget, late, crashes>>

\* remove_completed_flight, for every task that was in the flight: is its cell
\* the one that is registered?  (Mutant: it does not compare.)
SameFlightAny(t) == flights[job[t].key] # NoFlight
SameFlight(t) == flights[job[t].key] = job[t].cell

Take(t) ==
    /\ pc[t] \in {"wait", "take"} /\ cells[job[t].key][job[t].cell] \in Outcomes
    /\ \/ /\ SameFlight(t)
          /\ Goto(t, "remove")
          /\ UNCHANGED <<stores, flying, job, budget, late, crashes>>
       \/ ~SameFlight(t) /\ UNCHANGED flights /\ Leave(t)

\* The removal is by key, a moment after the comparison.
Remove(t) ==
    /\ pc[t] = "remove"
    /\ flights' = [flights EXCEPT ![job[t].key] = NoFlight]
    /\ Leave(t)

EndRefresh(p) ==
    /\ pc[p] \in {"ok", "err"}
    /\ Stop(p)
    /\ UNCHANGED <<stores, flying, budget, late, crashes>>

-----------------------------------------------------------------------------
(* Installation and eviction: install_bundle, enforce_capacity              *)

Mkdir(w) ==
    /\ pc[w] = "mkdir"
    /\ dirs' = dirs \cup {DirectoryOf(p) : p \in job[w].left}
    /\ Goto(w, "upsert")
    /\ UNCHANGED <<records, files, flying, job, budget, late, crashes>>

\* One transaction writes the records of the whole bundle, before any rename.
Upsert(w) ==
    /\ pc[w] = "upsert"
    /\ records' = Overlay(records, job[w].bundle)
    /\ Goto(w, "rename")
    /\ UNCHANGED <<files, dirs, flying, job, budget, late, crashes>>

\* The checksums are renamed into place first and the main file last.
\* (Mutant: the main file first.)
NextRenameMainFirst(left) ==
    CHOOSE p \in left : ~IsSum(p) \/ \A q \in left : IsSum(q)

NextRename(left) ==
    CHOOSE p \in left : IsSum(p) \/ \A q \in left : ~IsSum(q)

\* (Mutant: the loop runs once too often.)
AllRenamedNever(left) == FALSE
AllRenamed(left) == left = {}

\* A rename fails when the directory was removed since it was made; the rest of
\* the bundle is then discarded.
Rename(w) ==
    LET p == NextRename(job[w].left) IN
    /\ pc[w] = "rename"
    /\ IF DirectoryOf(p) \in dirs
       THEN /\ files' = [files EXCEPT ![p] = job[w].bundle[p]]
            /\ Set(w, [job[w] EXCEPT !.left = @ \ {p}])
            /\ Goto(w, IF ~AllRenamed(job[w].left \ {p}) THEN "rename"
                       ELSE IF MaxSize = Unlimited THEN "ok" ELSE "stats")
       ELSE Goto(w, "err") /\ UNCHANGED <<files, job>>
    /\ UNCHANGED <<records, dirs, flying, budget, late, crashes>>

Stats(w) ==
    LET total == TotalSize(records) IN
    /\ pc[w] = "stats"
    /\ budget' = [budget EXCEPT ![w] = IF WithinLimit(total) THEN 0 ELSE total]
    /\ Goto(w, IF WithinLimit(total) THEN "ok" ELSE "candidates")
    /\ UNCHANGED <<stores, flying, job, late, crashes>>

\* The snapshot of all records; the bundle just installed is protected.
Candidates(w) ==
    /\ pc[w] = "candidates"
    /\ Goto(w, "evict")
    /\ Set(w, [job[w] EXCEPT !.victims =
                 [p \in Path |-> IF p \in Held(job[w].bundle) THEN NoContent ELSE records[p]]])
    /\ UNCHANGED <<stores, flying, budget, late, crashes>>

\* Take the next record of the snapshot unless enough is freed; a busy path is
\* passed over.
Evict(w) ==
    LET j == job[w]
        over == ~WithinLimit(budget[w])
    IN
    /\ pc[w] = "evict"
    /\ \/ /\ ~over \/ Held(j.victims) = {}
          /\ Goto(w, "ok")
          /\ budget' = [budget EXCEPT ![w] = 0]
          /\ UNCHANGED job
       \/ \E p \in Held(j.victims) :
            /\ over
            /\ IF Busy(p)
               THEN Set(w, [j EXCEPT !.victims[p] = NoContent]) /\ UNCHANGED pc
               ELSE Set(w, [j EXCEPT !.victim = p]) /\ Goto(w, "unlink")
            /\ UNCHANGED budget
    /\ UNCHANGED <<stores, flying, late, crashes>>

\* (Mutant: a removal that failed counts as done.)
WithoutFileNot(p) == files
WithoutFile(p) == [files EXCEPT ![p] = NoContent]

\* What the removal of p frees: the size in the snapshot, file or no file.
\* (Mutant: a file that was not there frees nothing.)
FreedIfThere(p, c) == IF files[p] = NoContent THEN 0 ELSE Size(p, c)
Freed(p, c) == Size(p, c)

\* Remove the victim's file, then its directory if nothing is left in it.
Unlink(w) ==
    LET j == job[w]
        p == j.victim
        d == DirectoryOf(p)
        freed == Freed(p, j.victims[p])
        emptied == files[p] # NoContent /\ ~\E q \in Held(files) \ {p} : DirectoryOf(q) = d
    IN
    /\ pc[w] = "unlink"
    /\ files' = WithoutFile(p)
    /\ dirs' = IF emptied THEN dirs \ {d} ELSE dirs
    /\ budget' = [budget EXCEPT ![w] = IF @ > freed THEN @ - freed ELSE 0]
    /\ Set(w, [j EXCEPT !.victims[p] = NoContent])
    /\ Goto(w, "delete")
    /\ UNCHANGED <<records, flying, late, crashes>>

\* The row goes after the file, in a statement of its own.
Delete(w) ==
    /\ pc[w] = "delete"
    /\ records' = [records EXCEPT ![job[w].victim] = NoContent]
    /\ Set(w, [job[w] EXCEPT !.victim = NoPath])
    /\ Goto(w, "evict")
    /\ UNCHANGED <<files, dirs, flying, budget, late, crashes>>

-----------------------------------------------------------------------------
(* Interruptions                                                            *)

\* What becomes of the cells when t is dropped: one it was initialising stays
\* registered, for the next that holds it.  (Mutant: the cell stays dead.)
AbandonNot(t) == cells
Abandon(t) ==
    [p \in Path |-> [c \in Cells |-> IF cells[p][c] = t THEN Vacant ELSE cells[p][c]]]

\* The call of t that is under way, without t.
Issued(t) ==
    LET j == job[t]
        p == NextRename(j.left)
    IN  [at |-> pc[t], path |-> j.victim,
         bundle |-> IF pc[t] = "rename" THEN [EmptyStore EXCEPT ![p] = j.bundle[p]]
                    ELSE IF pc[t] \in {"mkdir", "upsert"} THEN j.bundle
                    ELSE EmptyStore]

\* The client goes away: its handler is dropped at an await.  The call that the
\* await is for runs on a thread of its own and is not dropped with it.  (Between
\* the end of a download and the removal of its flight there is no await.)
Cancel(t) ==
    /\ pc[t] \notin {"idle", "take", "remove"}
    /\ Stop(t)
    /\ cells' = Reclaimed(Abandon(t), flights, job')
    /\ budget' = [budget EXCEPT ![t] = 0]
    /\ \/ UNCHANGED late
       \/ pc[t] \in Changing /\ Cardinality(late) < MaxLate /\ late' = late \cup {Issued(t)}
    /\ UNCHANGED <<stores, flights, overtaken, crashes>>

\* A call that outlived its request is done: what Mkdir, Upsert, Rename, Unlink
\* and Delete do, and nothing that would come after it.
Land(c) ==
    /\ \/ /\ c.at = "mkdir"
          /\ dirs' = dirs \cup {DirectoryOf(p) : p \in Held(c.bundle)}
          /\ UNCHANGED <<records, files>>
       \/ /\ c.at = "upsert"
          /\ records' = Overlay(records, c.bundle)
          /\ UNCHANGED <<files, dirs>>
       \/ /\ c.at = "rename"
          /\ files' = IF {DirectoryOf(p) : p \in Held(c.bundle)} \subseteq dirs
                      THEN Overlay(files, c.bundle) ELSE files
          /\ UNCHANGED <<records, dirs>>
       \/ /\ c.at = "unlink"
          /\ files' = WithoutFile(c.path)
          /\ UNCHANGED <<records, dirs>>
       \/ /\ c.at = "delete"
          /\ records' = [records EXCEPT ![c.path] = NoContent]
          /\ UNCHANGED <<files, dirs>>
    /\ late' = late \ {c}
    /\ UNCHANGED <<flying, pc, job, budget, crashes>>

\* The process is killed and started again: only the two stores survive.
Crash ==
    /\ crashes < MaxCrashes
    /\ crashes' = crashes + 1
    /\ flights' = [p \in Path |-> NoFlight]
    /\ cells' = [p \in Path |-> [c \in Cells |-> Vacant]]
    /\ pc' = [w \in Workers |-> "idle"]
    /\ job' = [w \in Workers |-> NoJob]
    /\ budget' = [w \in Workers |-> 0]
    /\ late' = {}
    /\ UNCHANGED <<stores, overtaken>>

-----------------------------------------------------------------------------
Init ==
    /\ records = EmptyStore
    /\ files = EmptyStore
    /\ dirs = {}
    /\ flights = [p \in Path |-> NoFlight]
    /\ cells = [p \in Path |-> [c \in Cells |-> Vacant]]
    /\ pc = [w \in Workers |-> "idle"]
    /\ job = [w \in Workers |-> NoJob]
    /\ budget = [w \in Workers |-> 0]
    /\ late = {}
    /\ overtaken = FALSE
    /\ crashes = 0

Install(w) == Mkdir(w) \/ Upsert(w) \/ Rename(w)
Enforce(w) == Stats(w) \/ Candidates(w) \/ Evict(w) \/ Unlink(w) \/ Delete(w)
Serve(t) == StatFirst(t) \/ Hit(t) \/ GetFinal(t) \/ StatFinal(t) \/ Guard(t) \/ Open(t)
Fly(t) == Enter(t) \/ Initialise(t) \/ Complete(t) \/ Take(t) \/ Remove(t)
Download(t) == \/ GetFlight(t) \/ StatFlight(t) \/ GetSum(t) \/ StatSum(t)
               \/ SourceGet(t) \/ SourceHash(t)

TaskStep(t) == Serve(t) \/ Fly(t) \/ Download(t) \/ Fetch(t) \/ Install(t) \/ Enforce(t)
RefreshStep(p) == Fetch(p) \/ Install(p) \/ Enforce(p) \/ EndRefresh(p)

Next ==
    \/ \E t \in Tasks : \/ \E p \in Path : Begin(t, p)
                        \/ TaskStep(t) \/ Finish(t) \/ Cancel(t)
    \/ \E p \in Refreshers : RefreshStep(p)
    \/ \E c \in late : Land(c)
    \/ Crash

Spec == Init /\ [][Next]_vars

\* tokio keeps polling a task that can proceed, and every await of these steps
\* ends (database, file system, and upstreams under their timeouts).  A cell's
\* semaphore serves its waiters in order, so one that waits is reached however
\* many initialisers are dropped before it.
FairSpec ==
    /\ Spec
    /\ \A t \in Tasks : WF_vars(TaskStep(t)) /\ WF_vars(Finish(t)) /\ SF_vars(Initialise(t))
    /\ \A p \in Refreshers : WF_vars(RefreshStep(p))

-----------------------------------------------------------------------------
(* Properties                                                               *)

\* The types, and what the steps of a worker rely on: a rename has a file left
\* to rename, an eviction step has a victim, a busy worker has its paths.
TypeOK ==
    /\ records \in Store
    /\ files \in Store
    /\ dirs \subseteq Dirs
    /\ flights \in [Path -> Cells \cup {NoFlight}]
    /\ cells \in [Path -> [Cells -> Tasks \cup {Vacant} \cup Outcomes]]
    /\ pc \in [Workers -> PCs]
    /\ job \in [Workers -> Job]
    /\ budget \in [Workers -> Nat]
    /\ late \subseteq LateCall
    /\ overtaken \in BOOLEAN
    /\ crashes \in 0 .. MaxCrashes
    /\ \A w \in Workers :
          /\ job[w].left \subseteq Held(job[w].bundle)
          /\ pc[w] = "rename" => job[w].left # {}
          /\ pc[w] \in {"unlink", "delete"} => job[w].victim # NoPath
          /\ pc[w] # "idle" => job[w].want # NoPath /\ job[w].key # NoPath

\* Nothing lies in the cache directory that the table does not know: the order
\* of install_bundle (records, then renames) and of remove_records (file, then
\* row) keeps this through every interruption.
NoUntrackedFiles == Held(files) \subseteq Held(records)

Quiet == \A w \in Workers : pc[w] = "idle"

(***************************************************************************)
(* Where a property says "overtaken \/", it holds until a flight is        *)
(* registered between the comparison and the removal of another task       *)
(* (serve.rs:239-245), which then removes the wrong flight: Serving shows  *)
(* that, and nothing else that the tasks of this module do breaks it.      *)
(***************************************************************************)

\* When nothing runs, a checksum file that would be served is the hash of the
\* main file that would be served: README "always computed from the bytes
\* actually stored", whatever was interrupted or evicted before.
ChecksumOfStoredBytes ==
    Quiet /\ ~overtaken => \A m \in Mains :
        LET main == <<m, "main">>
            sum == <<m, "sum">>
        IN  Positive(main, records[main]) /\ Positive(sum, records[sum])
                => files[sum] = Computed(files[main].of)

Opens(t) == pc[t] = "open" /\ pc'[t] = "stream"

\* A main file goes out under the record that describes its bytes, so under
\* their ETag and Content-Length, even after an install was cut short.
MainBodyMatchesRecord ==
    [][\A t \in Tasks : Opens(t) /\ ~IsSum(job[t].want) /\ ~overtaken
                           => files[job[t].want] = job[t].seen]_vars

\* The same for every path (install.rs:69-72: an interruption leaves "a record
\* whose file is missing or stale, which the next request detects").
BodyMatchesRecord ==
    [][\A t \in Tasks : Opens(t) => files[job[t].want] = job[t].seen]_vars

\* A download that reports success has put the path where the last look of the
\* request and the response find it: neither "download completed without a
\* cache record" nor "cached file disappeared" comes of sharing flights, taking
\* over dropped downloads and repairing what a kill left.
InstalledIsServed ==
    overtaken \/ \A t \in Tasks :
        /\ pc[t] = "stat_final" => Positive(job[t].want, job[t].seen)
        /\ pc[t] = "open" => files[job[t].want] # NoContent

\* enforce_capacity ends with the table within cache.max_size, or with nothing
\* left that it may remove.
CapacityRestored ==
    \A w \in Workers :
        pc[w] = "ok" /\ Held(job[w].bundle) # {} /\ MaxSize # Unlimited =>
            \/ TotalSize(records) <= MaxSize
            \/ \A p \in Held(records) \ Held(job[w].bundle) : Busy(p)

\* An eviction goes no further than it must: a lone client removes nothing from a
\* table that is within cache.max_size, also when some of its victims were gone.
NothingEvictedInVain ==
    \A w \in Workers : pc[w] = "unlink" => ~WithinLimit(TotalSize(records))

\* Eviction and removal consult the registry "so a response never loses its
\* file" (types.rs:9-10): a guarded response finds its file when it opens it.
GuardedFilePresent ==
    \A t \in Tasks : pc[t] = "open" => files[job[t].want] # NoContent

\* What a response has guarded, found on the disk and not lost to an eviction that
\* chose it earlier (types.rs:9-10, CHANGELOG "Serving a cached artifact no longer
\* races with eviction or removal").
Holds(t) ==
    LET p == job[t].want IN
    /\ pc[t] = "open" /\ files[p] # NoContent
    /\ ~\E w \in Workers : pc[w] = "unlink" /\ job[w].victim = p
    /\ ~\E c \in late : c.at = "unlink" /\ c.path = p

\* From then on until it opens the file no eviction chooses or removes it, and no
\* install, refresh or late call takes it away.
GuardKeepsFile ==
    [][\A t \in Tasks : Holds(t) /\ pc'[t] = "open" => Holds(t)']_vars

\* One download per path (serve.rs:183): at most one task is between becoming the
\* initialiser of a flight and setting its outcome, also when initialisers are
\* dropped and waiters take over, when each waiter compares and removes the flight
\* on its own, and when checksum flights ride on main flights.
OneDownloadPerPath ==
    overtaken \/ \A t, u \in Tasks :
        /\ pc[t] \in Downloading /\ pc[u] \in Downloading
        /\ job[t].key = job[u].key
        => t = u

\* While a bundle is between its upsert and the end of its eviction, its main
\* path is marked busy: no waiter of an earlier flight of the path takes the mark
\* away.
Storing == {"upsert", "rename", "stats", "candidates", "evict", "unlink", "delete"}

InstallIsBusy ==
    overtaken \/ \A w \in Workers : pc[w] \in Storing =>
        \A p \in Held(job[w].bundle) : ~IsSum(p) => flights[p] # NoFlight \/ Refreshing(p)

\* So no eviction picks a main file that is being installed, by itself or by
\* another request or refresh, however old the snapshot is that it picks from.
InstallNotPicked ==
    [][\A w, x \in Workers :
          pc[w] = "evict" /\ pc'[w] = "unlink" /\ pc[x] \in Storing /\ ~overtaken
             => job'[w].victim \notin {p \in Held(job[x].bundle) : ~IsSum(p)}]_vars

\* The version of which p has a file.
VersionIn(p) == IF files[p] = NoContent THEN NoContent ELSE files[p].of

\* What a client is being sent of a main file.
LentTo(t) ==
    LET p == job[t].want IN
    IF pc[t] = "stream" /\ ~IsSum(p) THEN [main |-> p[1], of |-> VersionIn(p)] ELSE NoContent

Shelf == [m \in Mains |-> VersionIn(<<m, "main">>)]
Digests == [m \in Mains |-> VersionIn(<<m, "sum">>)]
Lent == [t \in Tasks |-> LentTo(t)]

Books == INSTANCE Library WITH
    Clients <- Tasks, None <- NoContent, shelf <- Shelf, digests <- Digests, lent <- Lent

\* While nothing is refreshed or evicted the cache implements Library: with its
\* flights, its two stores, its hits and its repairs it stores a main file once,
\* beside the checksum of its version, and sends that version ever after.
ImplementsLibrary ==
    Books!Init /\ [][overtaken' \/ Books!Next]_<<Shelf, Digests, Lent>>

\* Every request ends: with a response, an error, or its client's departure.
RequestsEnd == \A t \in Tasks : pc[t] # "idle" ~> pc[t] = "idle"
=============================================================================
