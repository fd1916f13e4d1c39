------------------------- MODULE ArtifactCache_proofs -------------------------
(***************************************************************************)
(* Proofs about ArtifactCache, for every number of tasks, artifacts,       *)
(* versions and crashes:                                                   *)
(*   - Typed: the shapes of all variables but budget, where workers are    *)
(*     with their paths, and who owns a flight;                            *)
(*   - OneDownload: at most one task downloads a path, until a flight is   *)
(*     registered under the removal of an earlier one (overtaken);         *)
(*   - InstallBusy, InstallUndisturbed: until then a main path is busy     *)
(*     while it is installed, and no eviction picks it;                    *)
(*   - FilesTracked: without a size limit no file is ever untracked;       *)
(*   - GuardHeld: no eviction that starts later, no install and no call of *)
(*     a client that left takes the file that a response holds;            *)
(*   - ChecksumsAgree, InstalledServed, MainBodiesMatch: while nothing is  *)
(*     refreshed or evicted, no flight overtaken and no call of a client   *)
(*     that left under way, checksums are those of the files they lie      *)
(*     beside, a finished download is found, and bodies match records;     *)
(*   - RefinesLibrary: nor is a stored version ever replaced or another    *)
(*     one sent;                                                           *)
(*   - TypeCorrect: the whole type invariant; the sizes in a store add up  *)
(*     to a number (TotalNumber).                                          *)
(***************************************************************************)
EXTENDS ArtifactCache, FiniteSetTheorems, WellFoundedInduction, TLAPS

USE DEF stores, flying

CellTable == [Path -> [Cells -> Tasks \cup {Vacant} \cup Outcomes]]

Shape ==
    /\ records \in Store
    /\ files \in Store
    /\ flights \in [Path -> Cells \cup {NoFlight}]
    /\ cells \in CellTable
    /\ pc \in [Workers -> PCs]
    /\ job \in [Workers -> Job]
    /\ late \subseteq LateCall

\* A worker that runs knows its paths.
Placed ==
    \A w \in Workers : pc[w] # "idle" => job[w].want \in Path /\ job[w].key \in Path

LEMMA StoreOps ==
    /\ EmptyStore \in Store
    /\ NoJob \in Job
    /\ \A s, u \in Store : Overlay(s, u) \in Store
    /\ \A p \in Path : MainOf(p) \in Path /\ SumOf(p) \in Path
    /\ \A p \in Path : IsSum(MainOf(p)) = FALSE
    /\ \A p \in Path, v \in Versions : Prepared(p, v) \in Store
PROOF
  <1>1. EmptyStore \in Store
    BY DEF EmptyStore, Store
  <1>2. NoJob \in Job
    BY <1>1 DEF NoJob, Job
  <1>3. \A s, u \in Store : Overlay(s, u) \in Store
    BY DEF Overlay, Store
  <1>4. \A p \in Path : MainOf(p) \in Path /\ SumOf(p) \in Path
    BY DEF Path, MainOf, SumOf, Kinds
  <1>5. \A p \in Path : IsSum(MainOf(p)) = FALSE
    BY DEF Path, MainOf, IsSum, Kinds
  <1>6. \A p \in Path, v \in Versions : Prepared(p, v) \in Store
    BY DEF Prepared, Store, Fetched, Computed, Content
  <1> QED
    BY <1>1, <1>2, <1>3, <1>4, <1>5, <1>6

LEMMA ShapeInit == Init => Shape
PROOF
  BY StoreOps DEF Init, Shape, Workers, PCs, CellTable

LEMMA CellOps ==
    /\ \A f \in CellTable : \A r, j : Reclaimed(f, r, j) \in CellTable
    /\ \A f \in CellTable : \A p, c : \A v \in Tasks \cup {Vacant} \cup Outcomes :
          [f EXCEPT ![p][c] = v] \in CellTable
    /\ cells \in CellTable => \A t : Abandon(t) \in CellTable
PROOF
  <1>1. ASSUME NEW f \in CellTable, NEW r, NEW j
        PROVE  Reclaimed(f, r, j) \in CellTable
    BY DEF Reclaimed, CellTable
  <1>2. ASSUME NEW f \in CellTable, NEW p, NEW c, NEW v \in Tasks \cup {Vacant} \cup Outcomes
        PROVE  [f EXCEPT ![p][c] = v] \in CellTable
    <2>1. CASE p \in Path
      <3>1. [f[p] EXCEPT ![c] = v] \in [Cells -> Tasks \cup {Vacant} \cup Outcomes]
        BY <2>1 DEF CellTable
      <3> QED
        BY <2>1, <3>1 DEF CellTable
    <2>2. CASE p \notin Path
      BY <2>2 DEF CellTable
    <2> QED
      BY <2>1, <2>2
  <1>3. ASSUME cells \in CellTable, NEW t
        PROVE  Abandon(t) \in CellTable
    BY <1>3 DEF Abandon, CellTable
  <1> QED
    BY <1>1, <1>2, <1>3

\* A request finds the cell of its path, or makes one that nobody holds.
LEMMA CellFound ==
    ASSUME Shape, NEW k \in Path, flights[k] # NoFlight \/ Fresh(k) # {}
    PROVE  /\ CellOf(k) \in Cells
           /\ flights[k] # NoFlight => CellOf(k) = flights[k]
           /\ flights[k] = NoFlight => CellOf(k) \in Fresh(k)
PROOF
  BY DEF Shape, CellOf, Fresh

\* The parts of a step that only move a worker and rewrite its local state.
LEMMA MoveShape ==
    ASSUME Shape, NEW w \in Workers, NEW at \in PCs, NEW j \in Job,
           Goto(w, at), Set(w, j)
    PROVE  pc' \in [Workers -> PCs] /\ job' \in [Workers -> Job]
PROOF
  BY DEF Shape, Goto, Set

LEMMA TypedSteps ==
    ASSUME Shape, Placed, [Next]_vars
    PROVE  Shape'
PROOF
  <1> USE StoreOps, ConstantsAssumption
  <1> DEFINE typed == pc' \in [Workers -> PCs] /\ job' \in [Workers -> Job]
  <1>1. ASSUME NEW t \in Tasks, NEW p \in Path, Begin(t, p)
        PROVE  Shape'
    <2>1. [NoJob EXCEPT !.want = p, !.key = p, !.seen = records[p]] \in Job
      BY <1>1 DEF Shape, Job, NoJob, Store
    <2>2. typed
      BY <1>1, <2>1, MoveShape DEF Begin, Workers, PCs
    <2> QED
      BY <1>1, <2>2 DEF Begin, Shape
  <1>2. ASSUME NEW t \in Tasks, NEW from, NEW to \in PCs, NEW p \in Path, Read(t, from, to, p)
        PROVE  Shape'
    <2>1. [job[t] EXCEPT !.seen = records[p]] \in Job
      BY <1>2 DEF Shape, Job, Store, Workers
    <2>2. typed
      BY <1>2, <2>1, MoveShape DEF Read, Workers
    <2> QED
      BY <1>2, <2>2 DEF Read, Shape
  <1>3. ASSUME NEW t \in Tasks, NEW at \in PCs, Goto(t, at),
               UNCHANGED <<records, files, flights, cells, late>>,
               \/ UNCHANGED job
               \/ Set(t, NoJob)
               \/ Set(t, [job[t] EXCEPT !.seen = NoContent])
        PROVE  Shape'
    <2>1. [job[t] EXCEPT !.seen = NoContent] \in Job /\ job[t] \in Job
      BY DEF Shape, Job, Workers
    <2>2. typed
      BY <1>3, <2>1, MoveShape DEF Shape, Goto, Workers
    <2> QED
      BY <1>3, <2>2 DEF Shape
  <1>4. ASSUME NEW t \in Tasks, Serve(t)
        PROVE  Shape'
    <2>1. t \in Workers /\ {"idle", "hit", "join", "open", "guard", "stream", "stat_final"} \subseteq PCs
      BY DEF Workers, PCs
    <2>2. CASE StatFirst(t)
      BY <2>1, <2>2, <1>3 DEF StatFirst
    <2>3. CASE Hit(t)
      <3>1. CASE Goto(t, "open") /\ UNCHANGED job
        BY <2>1, <2>3, <3>1, <1>3 DEF Hit
      <3>2. CASE ~(Goto(t, "open") /\ UNCHANGED job)
        <4> DEFINE p == job[t].want
        <4>1. /\ p \in Refreshers
              /\ pc' = [pc EXCEPT ![t] = "open", ![p] = "fetch"]
              /\ Set(p, [NoJob EXCEPT !.want = p, !.key = p])
          BY <2>3, <3>2 DEF Hit
        <4>2. p \in Workers /\ p \in Path
          BY <4>1 DEF Workers
        <4>3. [NoJob EXCEPT !.want = p, !.key = p] \in Job
          BY <4>2 DEF NoJob, Job
        <4>4. typed
          BY <4>1, <4>2, <4>3, <2>1 DEF Set, Shape, PCs, Downloading
        <4> QED
          BY <4>4, <2>3 DEF Hit, Shape
      <3> QED
        BY <3>1, <3>2
    <2>4. CASE GetFinal(t)
      BY <2>1, <2>4, <1>2 DEF GetFinal, Read, Placed
    <2>5. CASE StatFinal(t)
      BY <2>1, <2>5, <1>3 DEF StatFinal, Stop
    <2>6. CASE Guard(t)
      BY <2>1, <2>6, <1>3 DEF Guard
    <2>7. CASE Open(t)
      BY <2>1, <2>7, <1>3 DEF Open, Stop
    <2> QED
      BY <1>4, <2>2, <2>3, <2>4, <2>5, <2>6, <2>7 DEF Serve
  <1>5. ASSUME NEW t \in Tasks, Download(t)
        PROVE  Shape'
    <2> DEFINE k == job[t].key
    <2>1. t \in Workers /\ {"get_flight", "stat_flight", "fetch", "get_sum", "stat_sum", "wait",
             "join", "source_get", "source_hash", "mkdir", "idle", "get_final", "ok", "err"} \subseteq PCs
      BY DEF Workers, PCs, Downloading
    <2>2. pc[t] # "idle" => job[t].want \in Path /\ k \in Path
      BY <2>1 DEF Placed
    <2>4. CASE GetFlight(t)
      BY <2>1, <2>2, <2>4, <1>2 DEF GetFlight, Read
    <2>5. CASE StatFlight(t)
      BY <2>1, <2>5, <1>3 DEF StatFlight
    <2>6. CASE GetSum(t)
      BY <2>1, <2>2, <2>6, <1>2 DEF GetSum, Read
    <2>7. CASE StatSum(t)
      BY <2>1, <2>7, <1>3 DEF StatSum
    <2>8. CASE SourceGet(t)
      BY <2>1, <2>8, <1>3 DEF SourceGet
    <2>9. CASE SourceHash(t)
      <3> DEFINE p == job[t].want
                 source == files[MainOf(p)]
                 hashed == [job[t] EXCEPT !.bundle = [EmptyStore EXCEPT ![p] = Computed(source.of)],
                                          !.left = {p}]
      <3>1. CASE source = NoContent
        BY <2>1, <2>9, <3>1, <1>3 DEF SourceHash
      <3>2. CASE source # NoContent
        <4>1. p \in Path /\ MainOf(p) \in Path /\ job[t] \in Job
          BY <2>1, <2>2, <2>9 DEF SourceHash, Shape
        <4>2. source \in Content
          BY <3>2, <4>1 DEF Shape, Store
        <4>3. Computed(source.of) \in Content
          BY <4>2 DEF Computed, Content
        <4>4. [EmptyStore EXCEPT ![p] = Computed(source.of)] \in Store
          BY <4>1, <4>3 DEF Store
        <4>5. hashed \in Job
          BY <4>1, <4>4 DEF Job
        <4>6. Goto(t, "mkdir") /\ Set(t, hashed)
          BY <2>9, <3>2 DEF SourceHash
        <4>7. typed
          BY <2>1, <4>5, <4>6, MoveShape
        <4> QED
          BY <2>9, <4>7 DEF SourceHash, Shape
      <3> QED
        BY <3>1, <3>2
    <2> QED
      BY <1>5, <2>4, <2>5, <2>6, <2>7, <2>8, <2>9 DEF Download
  <1>13. ASSUME NEW t \in Tasks, NEW k, Leave(t),
                \/ UNCHANGED flights
                \/ flights' = [flights EXCEPT ![k] = NoFlight]
         PROVE  Shape'
    <2> DEFINE at == After(t, job[t].key, cells[job[t].key][job[t].cell])
    <2>1. at \in PCs /\ t \in Workers
      BY DEF After, PCs, Downloading, Workers
    <2>2. [NoJob EXCEPT !.want = job[t].want, !.key = job[t].want, !.cell = job[t].outer] \in Job
      BY <2>1 DEF Shape, Job, NoJob
    <2>3. typed
      BY <1>13, <2>1, <2>2, MoveShape DEF Leave
    <2>4. cells' \in CellTable
      BY <1>13, CellOps DEF Leave, Shape
    <2>5. flights' \in [Path -> Cells \cup {NoFlight}]
      BY <1>13 DEF Shape
    <2> QED
      BY <1>13, <2>3, <2>4, <2>5 DEF Leave, Shape
  <1>14. ASSUME NEW t \in Tasks, Fly(t)
         PROVE  Shape'
    <2> DEFINE j == job[t]
               k == job[t].key
    <2>1. t \in Workers /\ {"wait", "join", "get_flight", "take", "remove"} \subseteq PCs
      BY DEF Workers, PCs, Downloading
    <2>2. j \in Job /\ (pc[t] # "idle" => j.want \in Path /\ k \in Path)
      BY <2>1 DEF Shape, Placed
    <2>3. CASE Enter(t)
      <3>1. CellOf(k) \in Cells /\ k \in Path
        BY <2>2, <2>3, CellFound DEF Enter
      <3>2. flights' \in [Path -> Cells \cup {NoFlight}]
        BY <2>3, <3>1 DEF Enter, Shape
      <3>3. [j EXCEPT !.cell = CellOf(k)] \in Job
        BY <2>2, <3>1 DEF Job
      <3>4. typed
        BY <2>1, <2>3, <3>3, MoveShape DEF Enter
      <3> QED
        BY <2>3, <3>2, <3>4 DEF Enter, Shape
    <2>4. CASE Initialise(t)
      <3>1. cells' \in CellTable
        BY <2>4, CellOps DEF Initialise, Shape
      <3>2. [j EXCEPT !.key = MainOf(@), !.outer = j.cell, !.cell = NoFlight] \in Job
        BY <2>2, <2>4 DEF Job, Initialise
      <3>3. typed
        BY <2>1, <2>2, <2>4, <3>2, MoveShape DEF Initialise, Shape, Goto
      <3> QED
        BY <2>4, <3>1, <3>3 DEF Initialise, Shape
    <2>5. CASE Complete(t)
      <3>1. cells' \in CellTable
        BY <2>5, CellOps DEF Complete, Shape
      <3> QED
        BY <2>1, <2>5, <3>1 DEF Complete, Shape, Goto
    <2>6. CASE Take(t)
      <3>1. CASE SameFlight(t)
        BY <2>1, <2>6, <3>1 DEF Take, Shape, Goto
      <3>2. CASE ~SameFlight(t)
        BY <2>6, <3>2, <1>13 DEF Take
      <3> QED
        BY <3>1, <3>2
    <2>7. CASE Remove(t)
      BY <2>7, <1>13 DEF Remove
    <2> QED
      BY <1>14, <2>3, <2>4, <2>5, <2>6, <2>7 DEF Fly
  <1>6. ASSUME NEW w \in Workers, Fetch(w)
        PROVE  Shape'
    <2>1. job[w] \in Job /\ job[w].key \in Path
      BY <1>6 DEF Shape, Placed, Fetch
    <2>2. ASSUME NEW v \in Versions
          PROVE  [job[w] EXCEPT !.bundle = Prepared(job[w].key, v),
                                !.left = Held(Prepared(job[w].key, v))] \in Job
      BY <2>1 DEF Job, Held
    <2>3. typed
      <3>1. {"mkdir", "ok", "err"} \subseteq PCs
        BY DEF PCs, Downloading
      <3>2. CASE \E v \in Versions :
                   /\ Goto(w, "mkdir")
                   /\ Set(w, [job[w] EXCEPT !.bundle = Prepared(job[w].key, v),
                                            !.left = Held(Prepared(job[w].key, v))])
        <4>1. PICK v \in Versions :
                /\ Goto(w, "mkdir")
                /\ Set(w, [job[w] EXCEPT !.bundle = Prepared(job[w].key, v),
                                         !.left = Held(Prepared(job[w].key, v))])
          BY <3>2
        <4> QED
          BY <4>1, <2>2, <3>1, MoveShape
      <3>3. CASE Goto(w, IF w \in Tasks THEN "err" ELSE "ok") /\ UNCHANGED job
        BY <3>1, <3>3 DEF Shape, Goto
      <3> QED
        BY <1>6, <3>2, <3>3 DEF Fetch
    <2> QED
      BY <1>6, <2>3 DEF Fetch, Shape
  <1>7. ASSUME NEW w \in Workers, Install(w)
        PROVE  Shape'
    <2>1. job[w] \in Job /\ {"upsert", "rename", "stats", "ok", "err"} \subseteq PCs
      BY DEF Shape, PCs, Downloading
    <2>2. CASE Mkdir(w)
      BY <2>1, <2>2 DEF Mkdir, Shape, Goto
    <2>3. CASE Upsert(w)
      <3>1. job[w].bundle \in Store
        BY <2>1 DEF Job
      <3>2. records' \in Store
        BY <2>3, <3>1 DEF Upsert, Shape
      <3> QED
        BY <2>1, <2>3, <3>2 DEF Upsert, Shape, Goto
    <2>4. CASE Rename(w)
      <3> DEFINE p == NextRename(job[w].left)
      <3>1. [job[w] EXCEPT !.left = @ \ {p}] \in Job
        BY <2>1 DEF Job
      <3>2. [files EXCEPT ![p] = job[w].bundle[p]] \in Store
        <4>1. CASE p \in Path
          BY <2>1, <4>1 DEF Job, Store, Shape
        <4>2. CASE p \notin Path
          BY <4>2 DEF Store, Shape
        <4> QED
          BY <4>1, <4>2
      <3>3. files' \in Store
        BY <2>4, <3>2 DEF Rename, Shape
      <3>4. pc' \in [Workers -> PCs]
        BY <2>1, <2>4 DEF Rename, Shape, Goto
      <3>5. job' \in [Workers -> Job]
        BY <2>4, <3>1 DEF Rename, Shape, Set
      <3> QED
        BY <2>4, <3>3, <3>4, <3>5 DEF Rename, Shape
    <2> QED
      BY <1>7, <2>2, <2>3, <2>4 DEF Install
  <1>8. ASSUME NEW w \in Workers, Enforce(w)
        PROVE  Shape'
    <2>1. job[w] \in Job /\ {"candidates", "evict", "unlink", "delete", "ok"} \subseteq PCs
      BY DEF Shape, PCs, Downloading
    <2>2. ASSUME NEW p \in Path
          PROVE  /\ [job[w] EXCEPT !.victims[p] = NoContent] \in Job
                 /\ [job[w] EXCEPT !.victim = p] \in Job
      BY <2>1 DEF Job, Store
    <2>3. CASE Stats(w)
      BY <2>1, <2>3 DEF Stats, Shape, Goto
    <2>4. CASE Candidates(w)
      <3> DEFINE snapshot == [p \in Path |-> IF p \in Held(job[w].bundle) THEN NoContent ELSE records[p]]
      <3>1. snapshot \in Store
        BY DEF Shape, Store
      <3>2. [job[w] EXCEPT !.victims = snapshot] \in Job
        BY <2>1, <3>1 DEF Job
      <3> QED
        BY <2>1, <2>4, <3>2 DEF Candidates, Shape, Goto, Set
    <2>5. CASE Evict(w)
      <3>1. CASE Goto(w, "ok") /\ UNCHANGED job
        BY <2>1, <2>5, <3>1 DEF Evict, Shape, Goto
      <3>2. CASE ~(Goto(w, "ok") /\ UNCHANGED job)
        <4>1. PICK p \in Held(job[w].victims) :
                IF Busy(p)
                THEN Set(w, [job[w] EXCEPT !.victims[p] = NoContent]) /\ UNCHANGED pc
                ELSE Set(w, [job[w] EXCEPT !.victim = p]) /\ Goto(w, "unlink")
          BY <2>5, <3>2 DEF Evict
        <4>2. p \in Path
          BY DEF Held
        <4>3. typed
          BY <2>1, <2>2, <4>1, <4>2 DEF Shape, Goto, Set
        <4> QED
          BY <2>5, <4>3 DEF Evict, Shape
      <3> QED
        BY <3>1, <3>2
    <2>6. CASE Unlink(w)
      <3> DEFINE p == job[w].victim
      <3>1. files' \in Store
        BY <2>6 DEF Unlink, WithoutFile, Shape, Store
      <3>2. [job[w] EXCEPT !.victims[p] = NoContent] \in Job
        BY <2>1 DEF Job, Store
      <3> QED
        BY <2>1, <2>6, <3>1, <3>2 DEF Unlink, Shape, Goto, Set
    <2>7. CASE Delete(w)
      <3>1. records' \in Store
        BY <2>7 DEF Delete, Shape, Store
      <3>2. [job[w] EXCEPT !.victim = NoPath] \in Job
        BY <2>1 DEF Job
      <3> QED
        BY <2>1, <2>7, <3>1, <3>2 DEF Delete, Shape, Goto, Set
    <2> QED
      BY <1>8, <2>3, <2>4, <2>5, <2>6, <2>7 DEF Enforce
  <1>9. ASSUME NEW w \in Workers, EndRefresh(w) \/ Finish(w)
        PROVE  Shape'
    BY <1>9 DEF EndRefresh, Finish, Stop, Goto, Set, Shape, PCs
  <1>10. ASSUME NEW t \in Tasks, Cancel(t)
         PROVE  Shape'
    <2>1. job[t] \in Job
      BY DEF Shape, Workers
    <2>2. pc[t] \in Changing => Issued(t) \in LateCall
      <3>1. [EmptyStore EXCEPT ![NextRename(job[t].left)] = job[t].bundle[NextRename(job[t].left)]] \in Store
        BY <2>1 DEF Job, Store
      <3> QED
        BY <2>1, <3>1 DEF Issued, LateCall, Job
    <2>3. late' \subseteq LateCall
      BY <1>10, <2>2 DEF Cancel, Shape
    <2>4. cells' \in CellTable
      BY <1>10, CellOps DEF Cancel, Shape
    <2> QED
      BY <1>10, <2>3, <2>4 DEF Cancel, Stop, Goto, Set, Shape, PCs
  <1>11. CASE Crash
    BY <1>11 DEF Crash, Shape, PCs, CellTable
  <1>12. CASE UNCHANGED vars
    BY <1>12 DEF vars, Shape
  <1>15. ASSUME NEW c \in late, Land(c)
         PROVE  Shape'
    <2>1. c.bundle \in Store
      BY DEF Shape, LateCall
    <2>2. /\ [records EXCEPT ![c.path] = NoContent] \in Store
          /\ WithoutFile(c.path) \in Store
      BY DEF Shape, Store, WithoutFile
    <2>3. /\ Overlay(records, c.bundle) \in Store
          /\ Overlay(files, c.bundle) \in Store
      BY <2>1 DEF Shape
    <2>4. records' \in Store /\ files' \in Store
      BY <1>15, <2>2, <2>3 DEF Land, Shape
    <2> QED
      BY <1>15, <2>4 DEF Land, Shape
  <1> QED
    BY <1>1, <1>4, <1>5, <1>6, <1>7, <1>8, <1>9, <1>10, <1>11, <1>12, <1>14, <1>15
       DEF Next, TaskStep, RefreshStep, Workers

-----------------------------------------------------------------------------
(* Who owns a flight                                                        *)

\* A task in a download is the initialiser of the cell it holds of its path; a
\* task that runs a main download for the sake of a checksum is the initialiser
\* of its cell of that as well; one that goes on has its cell's outcome.
Owner(t) ==
    LET j == job[t] IN
    /\ pc[t] \in Downloading => j.cell \in Cells /\ cells[j.key][j.cell] = t
    /\ pc[t] \in {"wait", "take", "remove"} => j.cell \in Cells
    /\ pc[t] \in {"take", "remove"} => cells[j.key][j.cell] \in Outcomes
    /\ pc[t] # "idle" /\ j.key = j.want => j.outer = NoFlight
    /\ pc[t] # "idle" /\ j.key # j.want =>
          /\ IsSum(j.want) /\ j.key = MainOf(j.want)
          /\ j.outer \in Cells /\ cells[j.want][j.outer] = t

\* The cells that are initialised, or will be, are the registered ones, and whoever
\* is about to remove a cell finds that cell or none.
Entered(t) ==
    LET j == job[t] IN
    /\ pc[t] \in Downloading => flights[j.key] = j.cell
    /\ pc[t] = "wait" /\ cells[j.key][j.cell] \notin Outcomes => flights[j.key] = j.cell
    /\ pc[t] = "remove" => flights[j.key] \in {j.cell, NoFlight}
    /\ pc[t] # "idle" /\ j.key # j.want => flights[j.want] = j.outer

OwnedBy(t) == Owner(t) /\ (~overtaken => Entered(t))
Owned == \A t \in Tasks : OwnedBy(t)

Grips(u, p, c) ==
    \/ job[u].key = p /\ job[u].cell = c
    \/ job[u].want = p /\ job[u].outer = c

\* A worker that moves inside its download, or outside of one, keeps its paths
\* and its flights.
LEMMA OwnStep ==
    ASSUME Shape, Placed, Owned, NEW w \in Workers, NEW at \in PCs, Goto(w, at),
           \A x \in Workers : x # w => job'[x] = job[x],
           job'[w].want = job[w].want, job'[w].key = job[w].key,
           job'[w].cell = job[w].cell, job'[w].outer = job[w].outer,
           UNCHANGED flying, pc[w] # "idle",
           at \in Downloading => pc[w] \in Downloading,
           at \notin {"wait", "take", "remove"}
    PROVE  Placed' /\ Owned'
PROOF
  <1>1. \A x \in Workers : /\ pc'[x] = IF x = w THEN at ELSE pc[x]
                           /\ job'[x].want = job[x].want /\ job'[x].key = job[x].key
                           /\ job'[x].cell = job[x].cell /\ job'[x].outer = job[x].outer
    BY DEF Shape, Goto
  <1>2. Placed'
    BY <1>1 DEF Placed
  <1>3. ASSUME NEW t \in Tasks
        PROVE  OwnedBy(t)'
    <2>1. OwnedBy(t) /\ t \in Workers
      BY DEF Owned, Workers
    <2>2. Owner(t)'
      BY <1>1, <2>1 DEF OwnedBy, Owner
    <2>3. ~overtaken' => Entered(t)'
      BY <1>1, <2>1 DEF OwnedBy, Entered
    <2> QED
      BY <2>2, <2>3 DEF OwnedBy
  <1> QED
    BY <1>2, <1>3 DEF Owned

\* A task that does not move keeps its flights if its cells keep their initialiser
\* or outcome and their registration.
LEMMA OtherStep ==
    ASSUME Shape, Placed, Owned, NEW u \in Tasks,
           pc'[u] = pc[u], job'[u] = job[u], overtaken => overtaken',
           \A p \in Path, c \in Cells :
              Grips(u, p, c) /\ cells[p][c] \in {u} \cup Outcomes => cells'[p][c] = cells[p][c],
           ~overtaken' =>
              /\ \A p \in Path, c \in Cells :
                    Grips(u, p, c) /\ flights[p] = c /\ cells[p][c] \notin Outcomes => flights'[p] = c
              /\ pc[u] = "remove" => flights'[job[u].key] \in {flights[job[u].key], NoFlight}
    PROVE  OwnedBy(u)'
PROOF
  <1> DEFINE j == job[u]
  <1>1. OwnedBy(u) /\ u \in Workers /\ u \notin Outcomes
    BY ConstantsAssumption DEF Owned, Workers
  <1>2. pc[u] # "idle" => j.want \in Path /\ j.key \in Path
    BY <1>1 DEF Placed
  <1>3. \A c : Grips(u, j.key, j.cell) /\ Grips(u, j.want, j.outer)
    BY DEF Grips
  <1>4. Downloading \cap {"idle", "wait", "take", "remove"} = {}
    BY DEF Downloading
  <1>5. Owner(u)
    BY <1>1 DEF OwnedBy
  <1>6. Owner(u)'
    <2>1. pc[u] \in Downloading => j.cell \in Cells /\ cells'[j.key][j.cell] = u
      BY <1>2, <1>3, <1>4, <1>5 DEF Owner
    <2>2. pc[u] \in {"take", "remove"} => cells'[j.key][j.cell] \in Outcomes
      BY <1>2, <1>3, <1>5 DEF Owner
    <2>3. pc[u] # "idle" /\ j.key # j.want => j.outer \in Cells /\ cells'[j.want][j.outer] = u
      BY <1>2, <1>3, <1>5 DEF Owner
    <2> QED
      BY <1>5, <2>1, <2>2, <2>3 DEF Owner
  <1>7. ASSUME ~overtaken'
        PROVE  Entered(u)'
    <2>1. Entered(u)
      BY <1>1, <1>7 DEF OwnedBy
    <2>2. pc[u] \in Downloading => flights'[j.key] = j.cell
      BY <1>1, <1>2, <1>3, <1>4, <1>5, <1>7, <2>1 DEF Owner, Entered
    <2>3. pc[u] = "wait" /\ cells'[j.key][j.cell] \notin Outcomes => flights'[j.key] = j.cell
      <3>1. SUFFICES ASSUME pc[u] = "wait", cells'[j.key][j.cell] \notin Outcomes
                     PROVE  flights'[j.key] = j.cell
        OBVIOUS
      <3>2. j.key \in Path /\ j.cell \in Cells
        BY <1>2, <1>5, <3>1 DEF Owner
      <3>3. cells[j.key][j.cell] \notin Outcomes
        BY <1>3, <3>1, <3>2
      <3> QED
        BY <1>3, <1>7, <2>1, <3>1, <3>2, <3>3 DEF Entered
    <2>4. pc[u] = "remove" => flights'[j.key] \in {j.cell, NoFlight}
      BY <1>7, <2>1 DEF Entered
    <2>5. pc[u] # "idle" /\ j.key # j.want => flights'[j.want] = j.outer
      BY <1>1, <1>2, <1>3, <1>5, <1>7, <2>1 DEF Owner, Entered
    <2> QED
      BY <2>2, <2>3, <2>4, <2>5 DEF Entered
  <1> QED
    BY <1>6, <1>7 DEF OwnedBy

\* A worker that stops leaves the flights of the others alone.
LEMMA StopStep ==
    ASSUME Shape, Placed, Owned, NEW w \in Workers, Stop(w), UNCHANGED flying
    PROVE  Placed' /\ Owned'
PROOF
  <1>1. \A x \in Workers : x # w => pc'[x] = pc[x] /\ job'[x] = job[x]
    BY DEF Shape, Stop, Goto, Set
  <1>2. pc'[w] = "idle"
    BY DEF Shape, Stop, Goto
  <1>3. Placed'
    BY <1>1, <1>2 DEF Placed
  <1>4. ASSUME NEW t \in Tasks, t # w
        PROVE  OwnedBy(t)'
    BY <1>1, <1>4, OtherStep DEF Workers
  <1>5. w \in Tasks => OwnedBy(w)'
    BY <1>2 DEF OwnedBy, Owner, Entered, Downloading
  <1> QED
    BY <1>3, <1>4, <1>5 DEF Owned

\* What a task holds is not freed.
LEMMA GripKept ==
    ASSUME NEW u \in Tasks, NEW f, NEW r, NEW p \in Path, NEW c \in Cells,
           job'[u] = job[u], Grips(u, p, c)
    PROVE  Reclaimed(f, r, job')[p][c] = f[p][c]
PROOF
  <1>1. c \in InUse(p, r, job')
    BY DEF Grips, InUse
  <1> QED
    BY <1>1 DEF Reclaimed

\* A task goes on from a flight that is over.
LEMMA LeaveStep ==
    ASSUME Shape, Placed, Owned, NEW t \in Tasks, Leave(t),
           pc[t] \in {"wait", "take", "remove"},
           cells[job[t].key][job[t].cell] \in Outcomes,
           \/ UNCHANGED flights
           \/ pc[t] = "remove" /\ flights' = [flights EXCEPT ![job[t].key] = NoFlight]
    PROVE  Placed' /\ Owned'
PROOF
  <1> USE ConstantsAssumption
  <1> DEFINE j == job[t]
             k == job[t].key
             p == job[t].want
             to == After(t, k, cells[k][j.cell])
             next == IF to = "idle" THEN NoJob
                     ELSE [NoJob EXCEPT !.want = p, !.key = p, !.cell = j.outer]
  <1>1. t \in Workers /\ k \in Path /\ p \in Path /\ j.cell \in Cells /\ OwnedBy(t)
    BY DEF Workers, Placed, Owned, OwnedBy, Owner
  <1>2. pc' = [pc EXCEPT ![t] = to] /\ job' = [job EXCEPT ![t] = next]
    BY DEF Leave, Goto, Set
  <1>3. \A x \in Workers : x # t => pc'[x] = pc[x] /\ job'[x] = job[x]
    BY <1>2 DEF Shape
  <1>4. pc'[t] = to /\ job'[t] = next
    BY <1>1, <1>2 DEF Shape
  <1>5. to # "idle" => next.want = p /\ next.key = p /\ next.cell = j.outer /\ next.outer = NoFlight
    BY DEF NoJob
  <1>6. Placed'
    BY <1>1, <1>3, <1>4, <1>5 DEF Placed
  <1>7. overtaken' = overtaken /\ cells' = Reclaimed(cells, flights', job')
    BY DEF Leave
  <1>8. \A q \in Path : q # k => flights'[q] = flights[q]
    BY DEF Shape
  <1>9. ASSUME NEW u \in Tasks, u # t
        PROVE  OwnedBy(u)'
    <2>1. pc'[u] = pc[u] /\ job'[u] = job[u] /\ u \in Workers
      BY <1>3, <1>9 DEF Workers
    <2>2. \A q \in Path, c \in Cells : Grips(u, q, c) => cells'[q][c] = cells[q][c]
      BY <1>7, <2>1, GripKept
    <2>3. ASSUME ~overtaken', NEW q \in Path, NEW c \in Cells, flights[q] = c, cells[q][c] \notin Outcomes
          PROVE  flights'[q] = c
      <3>1. CASE UNCHANGED flights
        BY <2>3, <3>1
      <3>2. CASE pc[t] = "remove" /\ flights' = [flights EXCEPT ![k] = NoFlight]
        <4>1. flights[k] \in {j.cell, NoFlight}
          BY <1>1, <1>7, <2>3, <3>2 DEF OwnedBy, Entered
        <4>2. q # k
          BY <2>3, <4>1
        <4> QED
          BY <1>8, <2>3, <4>2
      <3> QED
        BY <3>1, <3>2
    <2>4. pc[u] # "idle" => flights'[job[u].key] \in {flights[job[u].key], NoFlight}
      BY <1>1, <2>1 DEF Shape, Placed
    <2> QED
      BY <1>7, <2>1, <2>2, <2>3, <2>4, OtherStep
  <1>10. OwnedBy(t)'
    <2>1. CASE p = k
      <3>1. pc'[t] \in {"get_final", "idle"}
        BY <1>4, <2>1 DEF After
      <3> QED
        BY <1>4, <1>5, <3>1 DEF OwnedBy, Owner, Entered, Downloading
    <2>2. CASE p # k
      <3>1. pc'[t] \in {"get_sum", "err"} /\ to # "idle"
        BY <1>4, <2>2 DEF After
      <3>2. j.outer \in Cells /\ cells[p][j.outer] = t
        BY <1>1, <2>2 DEF OwnedBy, Owner
      <3>3. j.outer \in InUse(p, flights', job')
        <4>1. job'[t].key = p /\ job'[t].cell = j.outer
          BY <1>4, <1>5, <3>1
        <4> HIDE DEF next, to
        <4> QED
          BY <4>1 DEF InUse
      <3>4. cells'[p][j.outer] = t
        BY <1>1, <1>7, <3>2, <3>3 DEF Reclaimed
      <3>5. Owner(t)'
        BY <1>4, <1>5, <3>1, <3>2, <3>4 DEF Owner
      <3>6. ~overtaken' => flights'[p] = j.outer
        BY <1>1, <1>7, <1>8, <2>2 DEF OwnedBy, Entered
      <3>7. ~overtaken' => Entered(t)'
        BY <1>4, <1>5, <3>1, <3>6 DEF Entered
      <3> QED
        BY <3>5, <3>7 DEF OwnedBy
    <2> QED
      BY <2>1, <2>2
  <1> QED
    BY <1>6, <1>9, <1>10 DEF Owned

LEMMA EnterStep ==
    ASSUME Shape, Placed, Owned, NEW t \in Tasks, Enter(t)
    PROVE  Placed' /\ Owned'
PROOF
  <1> USE ConstantsAssumption
  <1> DEFINE j == job[t]
             k == job[t].key
             p == job[t].want
             c == CellOf(k)
  <1>1. t \in Workers /\ OwnedBy(t) /\ pc[t] = "join"
    BY DEF Workers, Owned, Enter
  <1>2. k \in Path /\ p \in Path
    BY <1>1 DEF Placed
  <1>3. c \in Cells /\ (flights[k] # NoFlight => c = flights[k])
    BY <1>2, CellFound DEF Enter
  <1>4. \A x \in Workers : x # t => pc'[x] = pc[x] /\ job'[x] = job[x]
    BY DEF Enter, Goto, Set, Shape
  <1>5. pc'[t] = "wait" /\ job'[t] = [j EXCEPT !.cell = c]
    BY <1>1 DEF Enter, Goto, Set, Shape
  <1>6. /\ job'[t].want = p /\ job'[t].key = k /\ job'[t].cell = c
        /\ job'[t].outer = j.outer
    BY <1>1, <1>5 DEF Shape, Job
  <1>7. Placed'
    BY <1>2, <1>4, <1>6 DEF Placed
  <1>8. /\ flights'[k] = c
        /\ \A q \in Path : flights[q] # NoFlight => flights'[q] = flights[q]
    BY <1>2, <1>3 DEF Enter, Shape
  <1>9. cells' = cells /\ overtaken' = (overtaken \/ Overtakes(k))
    BY DEF Enter
  <1>10. ASSUME NEW u \in Tasks, u # t
         PROVE  OwnedBy(u)'
    <2>1. pc'[u] = pc[u] /\ job'[u] = job[u] /\ u \in Workers
      BY <1>4, <1>10 DEF Workers
    <2>2. ASSUME ~overtaken', pc[u] = "remove"
          PROVE  flights'[job[u].key] \in {flights[job[u].key], NoFlight}
      <3>1. job[u].key \in Path
        BY <2>1, <2>2 DEF Placed
      <3>2. CASE job[u].key = k
        BY <1>8, <1>9, <2>2, <3>1, <3>2 DEF Overtakes
      <3>3. CASE job[u].key # k
        BY <1>2, <3>1, <3>3 DEF Enter, Shape
      <3> QED
        BY <3>2, <3>3
    <2> QED
      BY <1>8, <1>9, <2>1, <2>2, OtherStep
  <1>11. Owner(t)'
    BY <1>1, <1>3, <1>5, <1>6, <1>9 DEF OwnedBy, Owner, Downloading
  <1>12. ASSUME ~overtaken'
         PROVE  Entered(t)'
    <2>1. k # p => flights'[p] = j.outer
      BY <1>1, <1>2, <1>8, <1>9, <1>12 DEF OwnedBy, Owner, Entered
    <2> QED
      BY <1>5, <1>6, <1>8, <2>1 DEF Entered, Downloading
  <1> QED
    BY <1>7, <1>10, <1>11, <1>12 DEF Owned, OwnedBy

LEMMA InitialiseStep ==
    ASSUME Shape, Placed, Owned, NEW t \in Tasks, Initialise(t)
    PROVE  Placed' /\ Owned'
PROOF
  <1> USE StoreOps, ConstantsAssumption
  <1> DEFINE j == job[t]
             k == job[t].key
             p == job[t].want
             c == job[t].cell
  <1>1. /\ t \in Workers /\ OwnedBy(t) /\ pc[t] = "wait" /\ cells[k][c] = Vacant
        /\ j \in Job
    BY DEF Workers, Owned, Initialise, Shape
  <1>2. k \in Path /\ p \in Path /\ c \in Cells
    BY <1>1 DEF Placed, OwnedBy, Owner
  <1>3. /\ cells'[k][c] = t
        /\ \A q \in Path, d \in Cells : ~(q = k /\ d = c) => cells'[q][d] = cells[q][d]
    BY <1>2 DEF Initialise, Shape, CellTable
  <1>4. \A x \in Workers : x # t => pc'[x] = pc[x] /\ job'[x] = job[x]
    BY DEF Initialise, Goto, Set, Shape
  <1>5. flights' = flights /\ overtaken' = overtaken
    BY DEF Initialise
  <1>6. ASSUME NEW u \in Tasks, u # t
        PROVE  OwnedBy(u)'
    BY <1>1, <1>3, <1>4, <1>5, <1>6, OtherStep DEF Workers
  <1>7. ~overtaken => flights[k] = c
    BY <1>1 DEF OwnedBy, Entered
  <1>8. CASE IsSum(k)
    <2>1. p = k
      BY <1>1, <1>2, <1>8 DEF OwnedBy, Owner
    <2>2. pc'[t] = "join" /\ job'[t] = [j EXCEPT !.key = MainOf(k), !.outer = c, !.cell = NoFlight]
      BY <1>1, <1>8 DEF Initialise, Goto, Set, Shape
    <2>3. job'[t].want = k /\ job'[t].key = MainOf(k) /\ job'[t].outer = c
      BY <1>1, <2>1, <2>2 DEF Job
    <2>4. MainOf(k) \in Path /\ MainOf(k) # k
      BY <1>2, <1>8
    <2>5. Placed'
      BY <1>2, <1>4, <2>3, <2>4 DEF Placed
    <2>6. OwnedBy(t)'
      BY <1>2, <1>3, <1>5, <1>7, <1>8, <2>2, <2>3, <2>4 DEF OwnedBy, Owner, Entered, Downloading
    <2> QED
      BY <1>6, <2>5, <2>6 DEF Owned
  <1>9. CASE ~IsSum(k)
    <2>1. pc'[t] = "get_flight" /\ job'[t] = j
      BY <1>1, <1>9 DEF Initialise, Goto, Shape
    <2>2. Placed'
      BY <1>2, <1>4, <2>1 DEF Placed
    <2>3. p # k => cells'[p][j.outer] = cells[p][j.outer]
      BY <1>1, <1>2, <1>3 DEF OwnedBy, Owner
    <2>4. Owner(t)'
      BY <1>1, <1>2, <1>3, <2>1, <2>3 DEF OwnedBy, Owner
    <2>5. ~overtaken' => Entered(t)'
      BY <1>1, <1>5, <1>7, <2>1 DEF OwnedBy, Entered
    <2> QED
      BY <1>6, <2>2, <2>4, <2>5 DEF Owned, OwnedBy
  <1> QED
    BY <1>8, <1>9

LEMMA CompleteStep ==
    ASSUME Shape, Placed, Owned, NEW t \in Tasks, Complete(t)
    PROVE  Placed' /\ Owned'
PROOF
  <1> USE ConstantsAssumption
  <1> DEFINE j == job[t]
             k == job[t].key
             p == job[t].want
             c == job[t].cell
  <1>1. /\ t \in Workers /\ OwnedBy(t) /\ pc[t] \in Outcomes /\ pc[t] # "idle"
        /\ t \notin Outcomes
    BY DEF Workers, Owned, Complete, Outcomes
  <1>2. k \in Path /\ p \in Path /\ c \in Cells /\ cells[k][c] = t
    BY <1>1 DEF Placed, OwnedBy, Owner, Outcomes, Downloading
  <1>3. /\ cells'[k][c] = pc[t]
        /\ \A q \in Path, d \in Cells : ~(q = k /\ d = c) => cells'[q][d] = cells[q][d]
    BY <1>2 DEF Complete, Shape, CellTable
  <1>4. \A x \in Workers : pc'[x] = (IF x = t THEN "take" ELSE pc[x]) /\ job'[x] = job[x]
    BY DEF Complete, Goto, Shape
  <1>5. flights' = flights /\ overtaken' = overtaken
    BY DEF Complete
  <1>6. Placed'
    BY <1>1, <1>4 DEF Placed
  <1>7. ASSUME NEW u \in Tasks, u # t
        PROVE  OwnedBy(u)'
    BY <1>1, <1>2, <1>3, <1>4, <1>5, <1>7, OtherStep DEF Workers
  <1>8. Owner(t)'
    <2>1. p # k => cells'[p][j.outer] = cells[p][j.outer]
      BY <1>1, <1>2, <1>3 DEF OwnedBy, Owner
    <2> QED
      BY <1>1, <1>2, <1>3, <1>4, <2>1 DEF OwnedBy, Owner, Downloading
  <1>9. ~overtaken' => Entered(t)'
    BY <1>1, <1>4, <1>5 DEF OwnedBy, Entered, Downloading
  <1> QED
    BY <1>6, <1>7, <1>8, <1>9 DEF Owned, OwnedBy

LEMMA OwnedSteps ==
    ASSUME Shape, Placed, Owned, [Next]_vars
    PROVE  Placed' /\ Owned'
PROOF
  <1> USE StoreOps, ConstantsAssumption
  <1>1. ASSUME NEW t \in Tasks, NEW p \in Path, Begin(t, p)
        PROVE  Placed' /\ Owned'
    <2>1. \A x \in Workers : x # t => pc'[x] = pc[x] /\ job'[x] = job[x]
      BY <1>1 DEF Begin, Goto, Set, Shape
    <2>2. t \in Workers /\ pc'[t] = "stat_first" /\ job'[t].want = p /\ job'[t].key = p
      BY <1>1 DEF Begin, Goto, Set, Shape, Workers, NoJob
    <2>3. Placed'
      BY <2>1, <2>2 DEF Placed
    <2>4. ASSUME NEW u \in Tasks, u # t
          PROVE  OwnedBy(u)'
      BY <1>1, <2>1, <2>4, OtherStep DEF Begin, Workers
    <2>5. OwnedBy(t)'
      <3>1. job'[t] = [NoJob EXCEPT !.want = p, !.key = p, !.seen = records[p]]
        BY <1>1, <2>2 DEF Begin, Set, Shape
      <3>2. job'[t].outer = NoFlight
        BY <3>1 DEF NoJob
      <3> QED
        BY <2>2, <3>2 DEF OwnedBy, Owner, Entered, Downloading
    <2>6. Owned'
      BY <2>4, <2>5 DEF Owned
    <2> QED
      BY <2>3, <2>6
  <1>2. ASSUME NEW t \in Tasks, NEW from, NEW to \in PCs, NEW p, Read(t, from, to, p),
               from # "idle", to \in Downloading => from \in Downloading,
               to \notin {"wait", "take", "remove"}
        PROVE  Placed' /\ Owned'
    <2>1. \A x \in Workers : x # t => job'[x] = job[x]
      BY <1>2 DEF Read, Set, Shape
    <2>2. /\ job'[t].want = job[t].want /\ job'[t].key = job[t].key /\ t \in Workers
          /\ job'[t].cell = job[t].cell /\ job'[t].outer = job[t].outer
      BY <1>2 DEF Read, Set, Shape, Job, Workers
    <2> QED
      BY <1>2, <2>1, <2>2, OwnStep DEF Read
  <1>3. ASSUME NEW t \in Tasks, Serve(t)
        PROVE  Placed' /\ Owned'
    <2>1. t \in Workers /\ {"idle", "hit", "join", "open", "guard", "stream", "stat_final"} \subseteq PCs \ Downloading
      BY DEF Workers, PCs, Downloading
    <2> DEFINE kept == /\ \A x \in Workers : x # t => job'[x] = job[x]
                       /\ job'[t].want = job[t].want /\ job'[t].key = job[t].key
                       /\ job'[t].cell = job[t].cell /\ job'[t].outer = job[t].outer
    <2>2. UNCHANGED job \/ Set(t, [job[t] EXCEPT !.seen = NoContent]) => kept
      BY <2>1 DEF Set, Shape, Job
    <2>3. CASE StatFirst(t)
      BY <2>1, <2>2, <2>3, OwnStep DEF StatFirst
    <2>4. CASE Hit(t)
      <3>1. CASE Goto(t, "open") /\ UNCHANGED job
        BY <2>1, <2>2, <2>4, <3>1, OwnStep DEF Hit
      <3>2. CASE ~(Goto(t, "open") /\ UNCHANGED job)
        <4> DEFINE p == job[t].want
        <4>1. /\ p \in Refreshers
              /\ pc' = [pc EXCEPT ![t] = "open", ![p] = "fetch"]
              /\ Set(p, [NoJob EXCEPT !.want = p, !.key = p])
          BY <2>4, <3>2 DEF Hit
        <4>2. p \in Workers /\ p \in Path /\ p \notin Tasks
          BY <4>1 DEF Workers
        <4>3. /\ \A x \in Workers : x # p => job'[x] = job[x]
              /\ job'[p].want = p /\ job'[p].key = p
          BY <4>1, <4>2 DEF Set, Shape, NoJob
        <4>4. \A x \in Workers : x # p => pc'[x] = IF x = t THEN "open" ELSE pc[x]
          BY <2>1, <4>1, <4>2 DEF Shape
        <4>5. Placed'
          BY <2>1, <2>4, <4>2, <4>3, <4>4 DEF Placed, Hit
        <4>6. ASSUME NEW u \in Tasks, u # t
              PROVE  OwnedBy(u)'
          BY <2>4, <4>2, <4>3, <4>4, <4>6, OtherStep DEF Hit, Workers
        <4>7. OwnedBy(t)'
          BY <2>1, <2>4, <4>2, <4>3, <4>4 DEF Hit, Owned, OwnedBy, Owner, Entered
        <4>8. Owned'
          BY <4>6, <4>7 DEF Owned
        <4> QED
          BY <4>5, <4>8
      <3> QED
        BY <3>1, <3>2
    <2>5. CASE GetFinal(t)
      BY <2>1, <2>5, <1>2 DEF GetFinal
    <2>6. CASE StatFinal(t)
      <3>1. CASE Stop(t)
        BY <2>1, <2>6, <3>1, StopStep DEF StatFinal
      <3>2. CASE ~Stop(t)
        BY <2>1, <2>2, <2>6, <3>2, OwnStep DEF StatFinal
      <3> QED
        BY <3>1, <3>2
    <2>7. CASE Guard(t)
      BY <2>1, <2>2, <2>7, OwnStep DEF Guard
    <2>8. CASE Open(t)
      <3>1. CASE Stop(t)
        BY <2>1, <2>8, <3>1, StopStep DEF Open
      <3>2. CASE ~Stop(t)
        BY <2>1, <2>2, <2>8, <3>2, OwnStep DEF Open
      <3> QED
        BY <3>1, <3>2
    <2> QED
      BY <1>3, <2>3, <2>4, <2>5, <2>6, <2>7, <2>8 DEF Serve
  <1>4. ASSUME NEW t \in Tasks, Download(t)
        PROVE  Placed' /\ Owned'
    <2> DEFINE k == job[t].key
               p == job[t].want
    <2>1. t \in Workers /\ {"get_flight", "stat_flight", "fetch", "get_sum", "stat_sum", "wait",
             "join", "source_get", "source_hash", "mkdir", "idle", "get_final", "ok", "err"} \subseteq PCs
      BY DEF Workers, PCs, Downloading
    <2>2. /\ {"get_flight", "stat_flight", "fetch", "get_sum", "stat_sum", "source_get",
              "source_hash", "mkdir", "ok", "err"} \subseteq Downloading
          /\ {"join", "wait", "idle", "get_final"} \cap Downloading = {}
      BY DEF Downloading
    <2>3. pc[t] # "idle" => p \in Path /\ k \in Path
      BY <2>1 DEF Placed
    <2> DEFINE kept == /\ \A x \in Workers : x # t => job'[x] = job[x]
                       /\ job'[t].want = job[t].want /\ job'[t].key = job[t].key
                       /\ job'[t].cell = job[t].cell /\ job'[t].outer = job[t].outer
    <2>4. UNCHANGED job \/ Set(t, [job[t] EXCEPT !.seen = NoContent]) => kept
      BY <2>1 DEF Set, Shape, Job
    <2>6. CASE GetFlight(t)
      BY <2>1, <2>2, <2>6, <1>2 DEF GetFlight
    <2>7. CASE StatFlight(t)
      BY <2>1, <2>2, <2>4, <2>7, OwnStep DEF StatFlight
    <2>8. CASE GetSum(t)
      BY <2>1, <2>2, <2>8, <1>2 DEF GetSum
    <2>9. CASE StatSum(t)
      BY <2>1, <2>2, <2>4, <2>9, OwnStep DEF StatSum
    <2>10. CASE SourceGet(t)
      BY <2>1, <2>2, <2>4, <2>10, OwnStep DEF SourceGet
    <2>11. CASE SourceHash(t)
      <3>1. kept
        <4>1. CASE UNCHANGED job
          BY <2>4, <4>1
        <4>2. CASE ~UNCHANGED job
          <5>1. Set(t, [job[t] EXCEPT !.bundle = [EmptyStore EXCEPT ![p] = Computed(files[MainOf(p)].of)],
                                      !.left = {p}])
            BY <2>11, <4>2 DEF SourceHash
          <5> QED
            BY <2>1, <5>1 DEF Set, Shape, Job
        <4> QED
          BY <4>1, <4>2
      <3> QED
        BY <2>1, <2>2, <2>11, <3>1, OwnStep DEF SourceHash
    <2> QED
      BY <1>4, <2>6, <2>7, <2>8, <2>9, <2>10, <2>11 DEF Download
  <1>10. ASSUME NEW t \in Tasks, Fly(t)
         PROVE  Placed' /\ Owned'
    <2> DEFINE j == job[t]
               k == job[t].key
               p == job[t].want
    <2>1. t \in Workers /\ OwnedBy(t) /\ t \notin Outcomes /\ t # Vacant
      BY DEF Workers, Owned
    <2>2. pc[t] # "idle" => p \in Path /\ k \in Path
      BY <2>1 DEF Placed
    <2>3. "ok" \in Downloading /\ "err" \in Downloading
      BY DEF Downloading
    <2>4. CASE Enter(t)
      BY <2>4, EnterStep
    <2>5. CASE Initialise(t)
      BY <2>5, InitialiseStep
    <2>6. CASE Complete(t)
      BY <2>6, CompleteStep
    <2>7. CASE Take(t)
      <3>1. CASE SameFlight(t)
        <4>1. pc' = [pc EXCEPT ![t] = "remove"] /\ UNCHANGED <<flying, job>>
          BY <2>7, <3>1 DEF Take, Goto
        <4>2. \A x \in Workers : pc'[x] = (IF x = t THEN "remove" ELSE pc[x]) /\ job'[x] = job[x]
          BY <4>1 DEF Shape
        <4>3. Placed'
          BY <2>7, <4>2 DEF Placed, Take
        <4>4. ASSUME NEW u \in Tasks, u # t
              PROVE  OwnedBy(u)'
          BY <4>1, <4>2, <4>4, OtherStep DEF Workers
        <4>5. Owner(t)'
          BY <2>1, <2>7, <4>1, <4>2 DEF OwnedBy, Owner, Take, Downloading
        <4>6. ~overtaken' => Entered(t)'
          BY <2>1, <2>7, <3>1, <4>1, <4>2 DEF OwnedBy, Entered, SameFlight, Take, Downloading
        <4> QED
          BY <4>3, <4>4, <4>5, <4>6 DEF Owned, OwnedBy
      <3>2. CASE ~SameFlight(t)
        BY <2>7, <3>2, LeaveStep DEF Take
      <3> QED
        BY <3>1, <3>2
    <2>8. CASE Remove(t)
      <3>1. cells[k][j.cell] \in Outcomes
        BY <2>1, <2>8 DEF Remove, OwnedBy, Owner
      <3> QED
        BY <2>8, <3>1, LeaveStep DEF Remove
    <2> QED
      BY <1>10, <2>4, <2>5, <2>6, <2>7, <2>8 DEF Fly
  <1>5. ASSUME NEW w \in Workers, Fetch(w) \/ Install(w) \/ Enforce(w)
        PROVE  Placed' /\ Owned'
    <2>1. \E at \in {"mkdir", "upsert", "rename", "stats", "candidates", "evict", "unlink",
                     "delete", "ok", "err"} : pc' = [pc EXCEPT ![w] = at]
      <3>1. CASE Fetch(w)
        BY <3>1 DEF Fetch, Goto
      <3>2. CASE Install(w)
        BY <3>2 DEF Install, Mkdir, Upsert, Rename, Goto
      <3>3. CASE Enforce(w)
        BY <3>3 DEF Enforce, Stats, Candidates, Evict, Unlink, Delete, Goto, Shape
      <3> QED
        BY <1>5, <3>1, <3>2, <3>3
    <2>2. PICK at \in {"mkdir", "upsert", "rename", "stats", "candidates", "evict", "unlink",
                       "delete", "ok", "err"} : Goto(w, at)
      BY <2>1 DEF Goto
    <2>3. at \in PCs
      BY DEF PCs, Downloading
    <2>4. UNCHANGED flying /\ pc[w] \in Downloading
      <3>1. CASE Fetch(w)
        BY <3>1 DEF Fetch, Downloading
      <3>2. CASE Install(w)
        BY <3>2 DEF Install, Mkdir, Upsert, Rename, Downloading
      <3>3. CASE Enforce(w)
        BY <3>3 DEF Enforce, Stats, Candidates, Evict, Unlink, Delete, Downloading
      <3> QED
        BY <1>5, <3>1, <3>2, <3>3
    <2>5. /\ \A x \in Workers : x # w => job'[x] = job[x]
          /\ job'[w].want = job[w].want /\ job'[w].key = job[w].key
          /\ job'[w].cell = job[w].cell /\ job'[w].outer = job[w].outer
      <3>1. job[w] \in Job
        BY DEF Shape
      <3>2. CASE Fetch(w)
        <4>1. CASE UNCHANGED job
          BY <4>1
        <4>2. CASE ~UNCHANGED job
          <5>1. PICK v \in Versions :
                  Set(w, [job[w] EXCEPT !.bundle = Prepared(job[w].key, v),
                                        !.left = Held(Prepared(job[w].key, v))])
            BY <3>2, <4>2 DEF Fetch
          <5> QED
            BY <3>1, <5>1 DEF Set, Shape, Job
        <4> QED
          BY <4>1, <4>2
      <3>3. CASE Install(w)
        BY <3>1, <3>3 DEF Install, Mkdir, Upsert, Rename, Set, Shape, Job
      <3>4. CASE Enforce(w)
        BY <3>1, <3>4 DEF Enforce, Stats, Candidates, Evict, Unlink, Delete, Set, Shape, Job
      <3> QED
        BY <1>5, <3>2, <3>3, <3>4
    <2>6. pc[w] # "idle"
      BY <2>4 DEF Downloading
    <2> QED
      BY <2>2, <2>3, <2>4, <2>5, <2>6, OwnStep
  <1>6. ASSUME NEW w \in Workers, EndRefresh(w) \/ Finish(w)
        PROVE  Placed' /\ Owned'
    BY <1>6, StopStep DEF EndRefresh, Finish
  <1>7. ASSUME NEW t \in Tasks, Cancel(t)
        PROVE  Placed' /\ Owned'
    <2>1. \A x \in Workers : x # t => pc'[x] = pc[x] /\ job'[x] = job[x]
      BY <1>7 DEF Cancel, Stop, Goto, Set, Shape
    <2>2. pc'[t] = "idle"
      BY <1>7 DEF Cancel, Stop, Goto, Shape, Workers
    <2>3. Placed'
      BY <2>1, <2>2 DEF Placed
    <2>4. ASSUME NEW u \in Tasks, u # t
          PROVE  OwnedBy(u)'
      <3>1. pc'[u] = pc[u] /\ job'[u] = job[u]
        BY <2>1, <2>4 DEF Workers
      <3>2. \A q \in Path, c \in Cells :
               Grips(u, q, c) /\ cells[q][c] \in {u} \cup Outcomes => cells'[q][c] = cells[q][c]
        <4>1. SUFFICES ASSUME NEW q \in Path, NEW c \in Cells, Grips(u, q, c),
                              cells[q][c] \in {u} \cup Outcomes
                       PROVE  cells'[q][c] = cells[q][c]
          OBVIOUS
        <4>2. cells'[q][c] = Abandon(t)[q][c]
          BY <1>7, <3>1, <4>1, GripKept DEF Cancel
        <4>3. cells[q][c] # t
          BY <2>4, <4>1
        <4> QED
          BY <4>2, <4>3 DEF Abandon
      <3> QED
        BY <1>7, <3>1, <3>2, OtherStep DEF Cancel
    <2>5. OwnedBy(t)'
      BY <2>2 DEF OwnedBy, Owner, Entered, Downloading
    <2> QED
      BY <2>3, <2>4, <2>5 DEF Owned
  <1>8. CASE Crash
    BY <1>8 DEF Crash, Placed, Owned, OwnedBy, Owner, Entered, Downloading, Workers
  <1>9. CASE UNCHANGED vars
    BY <1>9 DEF vars, Placed, Owned, OwnedBy, Owner, Entered
  <1>11. ASSUME NEW c \in late, Land(c)
         PROVE  Placed' /\ Owned'
    BY <1>11 DEF Land, Placed, Owned, OwnedBy, Owner, Entered
  <1> QED
    BY <1>1, <1>3, <1>4, <1>5, <1>6, <1>7, <1>8, <1>9, <1>10, <1>11
       DEF Next, TaskStep, RefreshStep, Workers

\* Every state of the store is well formed: the types of all variables but the
\* eviction budget.
THEOREM Typed == Spec => [](Shape /\ Placed /\ Owned)
PROOF
  <1>1. Init => Shape /\ Placed /\ Owned
    BY ShapeInit DEF Init, Placed, Owned, OwnedBy, Owner, Entered, Downloading, Workers
  <1>2. Shape /\ Placed /\ Owned /\ [Next]_vars => (Shape /\ Placed /\ Owned)'
    BY TypedSteps, OwnedSteps
  <1> QED
    BY <1>1, <1>2, PTL DEF Spec

\* One download per path (OneDownloadPerPath of ArtifactCache; serve.rs:183):
\* however flights are entered, abandoned and taken over, and although every task
\* that was in one compares and removes it for itself, two tasks never run the
\* download of the same path at the same time, until a flight is registered
\* between the comparison of another task and its removal.
THEOREM OneDownload == Spec => []OneDownloadPerPath
PROOF
  <1>1. Shape /\ Placed /\ Owned => OneDownloadPerPath
    BY DEF Owned, OwnedBy, Owner, Entered, OneDownloadPerPath
  <1> QED
    BY <1>1, Typed, PTL

-----------------------------------------------------------------------------
(* What a worker installs                                                   *)

Bundling == {"mkdir", "upsert", "rename", "stats", "candidates", "evict", "unlink", "delete"}

\* What the steps of worker w rely on at each point: a refresh stays on its path,
\* the only main file of a bundle is the one under its key, an install has a file
\* left to rename, an eviction step has a victim.
Fit(w, at, j) ==
    /\ w \in Refreshers /\ at # "idle" => j.key = w
    /\ at \in {"get_sum", "stat_sum", "source_get", "source_hash"} => j.key = j.want
    /\ at \in Bundling => \A p \in Held(j.bundle) : ~IsSum(p) => p = j.key
    /\ j.left \subseteq Held(j.bundle)
    /\ at \in {"mkdir", "upsert", "rename"} => j.left # {}
    /\ at = "unlink" => j.victim \in Held(j.victims)
    /\ at = "delete" => j.victim \in Path

Fitted == \A w \in Workers : Fit(w, pc[w], job[w])

LEMMA FitStep ==
    ASSUME Shape, Fitted, NEW w \in Workers, NEW at, NEW j,
           Goto(w, at), job' = [job EXCEPT ![w] = j], Fit(w, at, j)
    PROVE  Fitted'
PROOF
  <1>1. ASSUME NEW x \in Workers
        PROVE  Fit(x, pc'[x], job'[x])
    <2>1. CASE x = w
      <3>1. pc'[x] = at /\ job'[x] = j
        BY <2>1 DEF Shape, Goto
      <3> QED
        BY <2>1, <3>1
    <2>2. CASE x # w
      <3>1. pc'[x] = pc[x] /\ job'[x] = job[x]
        BY <2>2 DEF Shape, Goto
      <3> QED
        BY <3>1 DEF Fitted
    <2> QED
      BY <2>1, <2>2
  <1> QED
    BY <1>1 DEF Fitted, Fit

\* A task outside of bundles and checksum regeneration has nothing to keep but
\* what it was going to rename.
LEMMA LooseStep ==
    ASSUME Shape, Fitted, NEW t \in Tasks, NEW at, NEW j,
           Goto(t, at), job' = [job EXCEPT ![t] = j],
           at \notin Bundling \cup {"get_sum", "stat_sum", "source_get", "source_hash"},
           (j.left = job[t].left /\ j.bundle = job[t].bundle) \/ j = NoJob
    PROVE  Fitted'
PROOF
  <1>1. t \in Workers /\ t \notin Refreshers
    BY ConstantsAssumption DEF Workers
  <1>2. j.left \subseteq Held(j.bundle)
    BY <1>1 DEF Fitted, Fit, NoJob
  <1>3. Fit(t, at, j)
    BY <1>1, <1>2 DEF Fit, Bundling
  <1> QED
    BY <1>1, <1>3, FitStep

\* What a download installs: the path it was for, and no other main file.
LEMMA PreparedHolds ==
    ASSUME NEW p \in Path, NEW v \in Versions
    PROVE  /\ p \in Held(Prepared(p, v))
           /\ \A q \in Held(Prepared(p, v)) : ~IsSum(q) => q = p
PROOF
  <1>1. Fetched(v) # NoContent
    BY ConstantsAssumption DEF Fetched, Content
  <1>2. IsSum(SumOf(p))
    BY DEF IsSum, SumOf
  <1> QED
    BY <1>1, <1>2 DEF Held, Prepared

\* A step through a flight moves one task and leaves the stores alone.
LEMMA FlyMoves ==
    ASSUME NEW t \in Tasks, Fly(t)
    PROVE  /\ \E at \in {"wait", "join", "get_flight", "take", "remove", "get_final", "idle",
                        "get_sum", "err"} : Goto(t, at)
           /\ UNCHANGED job \/ \E j : Set(t, j)
           /\ UNCHANGED <<records, files, dirs, budget, late, crashes>>
PROOF
  <1>1. CASE Leave(t)
    BY <1>1 DEF Leave, After
  <1>2. CASE ~Leave(t)
    BY <1>2 DEF Fly, Enter, Initialise, Complete, Take, Remove
  <1> QED
    BY <1>1, <1>2

LEMMA FittedSteps ==
    ASSUME Shape, Placed, Fitted, [Next]_vars
    PROVE  Fitted'
PROOF
  <1> USE StoreOps, ConstantsAssumption
  <1>0. ASSUME NEW w \in Workers
        PROVE  job[w] \in Job /\ Fit(w, pc[w], job[w]) /\ job = [job EXCEPT ![w] = job[w]]
    BY DEF Shape, Fitted
  <1>1. ASSUME NEW t \in Tasks, NEW p \in Path, Begin(t, p)
        PROVE  Fitted'
    <2>1. Fit(t, "stat_first", [NoJob EXCEPT !.want = p, !.key = p, !.seen = records[p]])
      BY DEF Fit, NoJob, Bundling
    <2> QED
      BY <1>1, <2>1, FitStep DEF Begin, Set, Workers
  <1>2. ASSUME NEW t \in Tasks, Serve(t)
        PROVE  Fitted'
    <2> DEFINE loose(at) == at \notin Bundling \cup {"get_sum", "stat_sum", "source_get", "source_hash"}
               kept(j) == (j.left = job[t].left /\ j.bundle = job[t].bundle) \/ j = NoJob
    <2>1. /\ loose("idle") /\ loose("hit") /\ loose("join") /\ loose("open") /\ loose("guard")
          /\ loose("stream") /\ loose("stat_final")
      BY DEF Bundling
    <2>2. t \in Workers
      BY DEF Workers
    <2>3. \A c : kept([job[t] EXCEPT !.seen = c]) /\ kept(job[t]) /\ kept(NoJob)
      BY <1>0, <2>2 DEF Job
    <2>4. CASE StatFirst(t)
      BY <1>0, <2>1, <2>2, <2>3, <2>4, LooseStep DEF StatFirst, Set
    <2>5. CASE Hit(t)
      <3>1. CASE Goto(t, "open") /\ UNCHANGED job
        BY <1>0, <2>1, <2>2, <2>3, <3>1, LooseStep
      <3>2. CASE ~(Goto(t, "open") /\ UNCHANGED job)
        <4> DEFINE p == job[t].want
                   j == [NoJob EXCEPT !.want = p, !.key = p]
        <4>1. /\ p \in Refreshers
              /\ pc' = [pc EXCEPT ![t] = "open", ![p] = "fetch"]
              /\ Set(p, j)
          BY <2>5, <3>2 DEF Hit
        <4>2. p \in Workers /\ p # t
          BY <4>1 DEF Workers
        <4>3. Fit(p, "fetch", j)
          BY DEF Fit, NoJob, Bundling
        <4>4. Fit(t, "open", job[t])
          BY <1>0, <2>1, <2>2 DEF Fit
        <4>5. ASSUME NEW x \in Workers
              PROVE  Fit(x, pc'[x], job'[x])
          <5>1. CASE x = p
            BY <4>1, <4>2, <4>3, <5>1 DEF Shape, Set
          <5>2. CASE x = t
            BY <4>1, <4>2, <4>4, <5>2 DEF Shape, Set
          <5>3. CASE x # p /\ x # t
            <6>1. pc'[x] = pc[x] /\ job'[x] = job[x]
              BY <4>1, <5>3 DEF Shape, Set
            <6> QED
              BY <1>0, <6>1
          <5> QED
            BY <5>1, <5>2, <5>3
        <4> QED
          BY <4>5 DEF Fitted, Fit
      <3> QED
        BY <3>1, <3>2
    <2>6. CASE GetFinal(t)
      BY <1>0, <2>1, <2>2, <2>3, <2>6, LooseStep DEF GetFinal, Read, Set
    <2>7. CASE StatFinal(t)
      BY <1>0, <2>1, <2>2, <2>3, <2>7, LooseStep DEF StatFinal, Stop, Set
    <2>8. CASE Guard(t)
      BY <1>0, <2>1, <2>2, <2>3, <2>8, LooseStep DEF Guard
    <2>9. CASE Open(t)
      BY <1>0, <2>1, <2>2, <2>3, <2>9, LooseStep DEF Open, Stop, Set
    <2> QED
      BY <1>2, <2>4, <2>5, <2>6, <2>7, <2>8, <2>9 DEF Serve
  <1>3. ASSUME NEW t \in Tasks, Download(t)
        PROVE  Fitted'
    <2> DEFINE loose(at) == at \notin Bundling \cup {"get_sum", "stat_sum", "source_get", "source_hash"}
               kept(j) == (j.left = job[t].left /\ j.bundle = job[t].bundle) \/ j = NoJob
    <2>1. /\ loose("idle") /\ loose("wait") /\ loose("join") /\ loose("get_flight")
          /\ loose("stat_flight") /\ loose("fetch") /\ loose("ok") /\ loose("err")
          /\ loose("get_final")
      BY DEF Bundling
    <2>2. t \in Workers /\ t \notin Refreshers
      BY DEF Workers
    <2>3. \A c : /\ kept([job[t] EXCEPT !.seen = c]) /\ kept([job[t] EXCEPT !.key = c])
                 /\ kept(job[t]) /\ kept(NoJob)
      BY <1>0, <2>2 DEF Job
    <2>5. CASE GetFlight(t)
      BY <1>0, <2>1, <2>2, <2>3, <2>5, LooseStep DEF GetFlight, Read, Set
    <2>6. CASE StatFlight(t)
      BY <1>0, <2>1, <2>2, <2>3, <2>6, LooseStep DEF StatFlight, Set
    <2>7. ASSUME pc[t] \in {"get_sum", "stat_sum", "source_get"},
                 NEW at \in {"stat_sum", "source_get", "source_hash", "ok", "err"}, Goto(t, at),
                 NEW c, job' = [job EXCEPT ![t] = [job[t] EXCEPT !.seen = c]] \/ UNCHANGED job
          PROVE  Fitted'
      <3>1. \A j \in {job[t], [job[t] EXCEPT !.seen = c]} : Fit(t, at, j)
        BY <1>0, <2>2, <2>7 DEF Fit, Bundling, Job
      <3> QED
        BY <1>0, <2>2, <2>7, <3>1, FitStep
    <2>8. CASE GetSum(t)
      BY <2>7, <2>8 DEF GetSum, Read, Set
    <2>9. CASE StatSum(t)
      BY <2>7, <2>9 DEF StatSum, Set
    <2>10. CASE SourceGet(t)
      BY <2>7, <2>10 DEF SourceGet
    <2>11. CASE SourceHash(t)
      <3> DEFINE p == job[t].want
                 j == [job[t] EXCEPT !.bundle = [EmptyStore EXCEPT ![p] = Computed(files[MainOf(p)].of)],
                                     !.left = {p}]
      <3>1. CASE Goto(t, "err") /\ UNCHANGED job
        BY <1>0, <2>1, <2>2, <2>3, <3>1, LooseStep
      <3>2. CASE ~(Goto(t, "err") /\ UNCHANGED job)
        <4>1. Goto(t, "mkdir") /\ Set(t, j) /\ pc[t] = "source_hash"
              /\ files[MainOf(p)] # NoContent
          BY <2>11, <3>2 DEF SourceHash
        <4>2. p \in Path /\ job[t].key = p
          BY <1>0, <2>2, <4>1 DEF Placed, Fit
        <4>3. files[MainOf(p)] \in Content
          BY <4>1, <4>2 DEF Shape, Store
        <4>4. Computed(files[MainOf(p)].of) # NoContent
          BY <4>3 DEF Computed, Content
        <4>5. Held(j.bundle) = {p} /\ j.left = {p} /\ j.key = p
          BY <1>0, <2>2, <4>2, <4>4 DEF Held, EmptyStore, Job
        <4>6. Fit(t, "mkdir", j)
          BY <2>2, <4>5 DEF Fit
        <4> QED
          BY <2>2, <4>1, <4>6, FitStep DEF Set
      <3> QED
        BY <3>1, <3>2
    <2> QED
      BY <1>3, <2>5, <2>6, <2>8, <2>9, <2>10, <2>11 DEF Download
  <1>10. ASSUME NEW t \in Tasks, Fly(t)
         PROVE  Fitted'
    <2> DEFINE j == job[t]
               kept(i) == i.left = j.left /\ i.bundle = j.bundle
    <2>1. t \in Workers /\ t \notin Refreshers /\ j \in Job
      BY <1>0 DEF Workers
    <2>2. /\ \A c : kept([j EXCEPT !.cell = c])
          /\ kept([j EXCEPT !.key = MainOf(@), !.outer = j.cell, !.cell = NoFlight])
      BY <2>1 DEF Job
    <2>3. CASE Enter(t)
      BY <2>1, <2>2, <2>3, LooseStep DEF Enter, Set, Bundling
    <2>4. CASE Initialise(t)
      <3>1. CASE IsSum(j.key)
        BY <2>1, <2>2, <2>4, <3>1, LooseStep DEF Initialise, Set, Bundling
      <3>2. CASE ~IsSum(j.key)
        BY <1>0, <2>1, <2>4, <3>2, LooseStep DEF Initialise, Bundling
      <3> QED
        BY <3>1, <3>2
    <2>5. CASE Complete(t)
      BY <1>0, <2>1, <2>5, LooseStep DEF Complete, Bundling
    <2>6. CASE Leave(t)
      <3> DEFINE to == After(t, j.key, cells[j.key][j.cell])
                 next == [NoJob EXCEPT !.want = j.want, !.key = j.want, !.cell = j.outer]
      <3>1. Goto(t, to) /\ Set(t, IF to = "idle" THEN NoJob ELSE next)
        BY <2>6 DEF Leave
      <3>2. to \in {"idle", "get_final", "get_sum", "err"}
        BY DEF After
      <3>3. next.key = next.want /\ next.left = {}
        BY DEF NoJob
      <3>4. Fit(t, to, IF to = "idle" THEN NoJob ELSE next)
        <4>1. CASE to = "idle"
          BY <2>1, <4>1 DEF Fit, Bundling, NoJob
        <4>2. CASE to # "idle"
          <5> HIDE DEF to, next
          <5> QED
            BY <2>1, <3>2, <3>3, <4>2 DEF Fit, Bundling
        <4> QED
          BY <4>1, <4>2
      <3> QED
        BY <2>1, <3>1, <3>4, FitStep DEF Set
    <2>7. CASE Take(t) /\ ~Leave(t)
      BY <1>0, <2>1, <2>7, LooseStep DEF Take, Bundling
    <2> QED
      BY <1>10, <2>3, <2>4, <2>5, <2>6, <2>7 DEF Fly, Remove
  <1>4. ASSUME NEW w \in Workers, Fetch(w)
        PROVE  Fitted'
    <2>1. job[w].key \in Path
      BY <1>4 DEF Placed, Fetch
    <2>2. w \in Refreshers => job[w].key = w
      BY <1>0, <1>4 DEF Fit, Fetch
    <2> DEFINE j(v) == [job[w] EXCEPT !.bundle = Prepared(job[w].key, v),
                                      !.left = Held(Prepared(job[w].key, v))]
               last == IF w \in Tasks THEN "err" ELSE "ok"
    <2>3. CASE \E v \in Versions : Goto(w, "mkdir") /\ Set(w, j(v))
      <3>1. PICK v \in Versions : Goto(w, "mkdir") /\ Set(w, j(v))
        BY <2>3
      <3>2. /\ j(v).key = job[w].key
            /\ j(v).bundle = Prepared(job[w].key, v)
            /\ j(v).left = Held(Prepared(job[w].key, v))
        BY <1>0 DEF Job
      <3> HIDE DEF j
      <3>3. Fit(w, "mkdir", j(v))
        BY <2>1, <2>2, <3>2, PreparedHolds DEF Fit
      <3> QED
        BY <3>1, <3>3, FitStep DEF Set
    <2>4. CASE Goto(w, last) /\ UNCHANGED job
      <3>1. Fit(w, last, job[w])
        BY <1>0, <2>2 DEF Fit, Bundling
      <3> QED
        BY <1>0, <2>4, <3>1, FitStep
    <2> QED
      BY <1>4, <2>3, <2>4 DEF Fetch
  <1>5. ASSUME NEW w \in Workers, Install(w)
        PROVE  Fitted'
    <2>1. job[w] \in Job /\ job[w].left \subseteq Held(job[w].bundle)
      BY <1>0 DEF Fit
    <2>2. CASE Mkdir(w)
      <3>1. Fit(w, "upsert", job[w])
        BY <1>0, <2>2 DEF Mkdir, Fit, Bundling
      <3> QED
        BY <1>0, <2>2, <3>1, FitStep DEF Mkdir
    <2>3. CASE Upsert(w)
      <3>1. Fit(w, "rename", job[w])
        BY <1>0, <2>3 DEF Upsert, Fit, Bundling
      <3> QED
        BY <1>0, <2>3, <3>1, FitStep DEF Upsert
    <2>4. CASE Rename(w)
      <3> DEFINE p == NextRename(job[w].left)
                 j == [job[w] EXCEPT !.left = @ \ {p}]
                 at == IF ~AllRenamed(job[w].left \ {p}) THEN "rename"
                       ELSE IF MaxSize = Unlimited THEN "ok" ELSE "stats"
      <3>1. CASE Goto(w, "err") /\ UNCHANGED job
        <4>1. Fit(w, "err", job[w])
          BY <1>0, <2>4 DEF Rename, Fit, Bundling
        <4> QED
          BY <1>0, <3>1, <4>1, FitStep
      <3>2. CASE Set(w, j) /\ Goto(w, at)
        <4>1. /\ j.left = job[w].left \ {p} /\ j.bundle = job[w].bundle
              /\ j.key = job[w].key
          BY <2>1 DEF Job
        <4>2. at = "rename" => j.left # {}
          BY <4>1 DEF AllRenamed
        <4>3. at \in {"rename", "ok", "stats"}
          OBVIOUS
        <4>4. pc[w] = "rename"
          BY <2>4 DEF Rename
        <4> HIDE DEF at, j
        <4>5. Fit(w, at, j)
          BY <1>0, <2>1, <4>1, <4>2, <4>3, <4>4 DEF Fit, Bundling
        <4> QED
          BY <3>2, <4>5, FitStep DEF Set
      <3> QED
        BY <2>4, <3>1, <3>2 DEF Rename
    <2> QED
      BY <1>5, <2>2, <2>3, <2>4 DEF Install
  <1>6. ASSUME NEW w \in Workers, Enforce(w)
        PROVE  Fitted'
    <2>1. job[w] \in Job /\ Fit(w, pc[w], job[w])
      BY <1>0
    <2>2. ASSUME pc[w] \in {"stats", "candidates", "evict", "unlink", "delete"},
                 NEW j, j.key = job[w].key, j.bundle = job[w].bundle, j.left = job[w].left,
                 NEW at \in {"ok", "candidates", "evict", "unlink", "delete"},
                 at = "unlink" => j.victim \in Held(j.victims),
                 at = "delete" => j.victim \in Path,
                 Goto(w, at), job' = [job EXCEPT ![w] = j]
          PROVE  Fitted'
      <3>1. Fit(w, at, j)
        BY <2>1, <2>2 DEF Fit, Bundling
      <3> QED
        BY <2>2, <3>1, FitStep
    <2>3. CASE Stats(w)
      <3>1. \E at \in {"ok", "candidates"} : Goto(w, at)
        BY <2>3 DEF Stats
      <3> QED
        BY <1>0, <2>2, <2>3, <3>1 DEF Stats
    <2>4. CASE Candidates(w)
      <3>1. \A s : LET j == [job[w] EXCEPT !.victims = s]
                   IN  j.key = job[w].key /\ j.bundle = job[w].bundle /\ j.left = job[w].left
        BY <2>1 DEF Job
      <3> QED
        BY <2>2, <2>4, <3>1 DEF Candidates, Set
    <2>5. CASE Evict(w)
      <3>1. CASE Goto(w, "ok") /\ UNCHANGED job
        BY <1>0, <2>2, <2>5, <3>1 DEF Evict
      <3>2. CASE ~(Goto(w, "ok") /\ UNCHANGED job)
        <4>1. PICK p \in Held(job[w].victims) :
                IF Busy(p)
                THEN Set(w, [job[w] EXCEPT !.victims[p] = NoContent]) /\ UNCHANGED pc
                ELSE Set(w, [job[w] EXCEPT !.victim = p]) /\ Goto(w, "unlink")
          BY <2>5, <3>2 DEF Evict
        <4>2. CASE Busy(p)
          <5> DEFINE j == [job[w] EXCEPT !.victims[p] = NoContent]
          <5>1. j.key = job[w].key /\ j.bundle = job[w].bundle /\ j.left = job[w].left
            BY <2>1 DEF Job
          <5>2. Goto(w, "evict")
            BY <2>5, <4>1, <4>2 DEF Evict, Goto, Shape
          <5> HIDE DEF j
          <5> QED
            BY <2>2, <2>5, <4>1, <4>2, <5>1, <5>2 DEF Evict, Set, j
        <4>3. CASE ~Busy(p)
          <5> DEFINE j == [job[w] EXCEPT !.victim = p]
          <5>1. /\ j.key = job[w].key /\ j.bundle = job[w].bundle /\ j.left = job[w].left
                /\ j.victim = p /\ j.victims = job[w].victims
            BY <2>1 DEF Job
          <5> QED
            BY <2>2, <2>5, <4>1, <4>3, <5>1 DEF Evict, Set
        <4> QED
          BY <4>2, <4>3
      <3> QED
        BY <3>1, <3>2
    <2>6. CASE Unlink(w)
      <3> DEFINE j == [job[w] EXCEPT !.victims[job[w].victim] = NoContent]
      <3>1. /\ j.key = job[w].key /\ j.bundle = job[w].bundle /\ j.left = job[w].left
            /\ j.victim = job[w].victim
        BY <2>1 DEF Job
      <3>2. job[w].victim \in Path
        BY <2>1, <2>6 DEF Unlink, Fit, Held
      <3>3. Goto(w, "delete") /\ Set(w, j)
        BY <2>6 DEF Unlink
      <3> HIDE DEF j
      <3> QED
        BY <2>2, <2>6, <3>1, <3>2, <3>3 DEF Unlink, Set
    <2>7. CASE Delete(w)
      <3> DEFINE j == [job[w] EXCEPT !.victim = NoPath]
      <3>1. j.key = job[w].key /\ j.bundle = job[w].bundle /\ j.left = job[w].left
        BY <2>1 DEF Job
      <3> QED
        BY <2>2, <2>7, <3>1 DEF Delete, Set
    <2> QED
      BY <1>6, <2>3, <2>4, <2>5, <2>6, <2>7 DEF Enforce
  <1>7. ASSUME NEW w \in Workers, Stop(w)
        PROVE  Fitted'
    <2>1. Fit(w, "idle", NoJob)
      BY DEF Fit, NoJob, Bundling
    <2> QED
      BY <1>7, <2>1, FitStep DEF Stop, Set
  <1>8. CASE Crash
    BY <1>8 DEF Crash, Fitted, Fit, NoJob, Bundling
  <1>9. CASE UNCHANGED vars
    BY <1>9 DEF vars, Fitted
  <1>11. ASSUME NEW c \in late, Land(c)
         PROVE  Fitted'
    BY <1>11 DEF Land, Fitted
  <1> QED
    BY <1>1, <1>2, <1>3, <1>4, <1>5, <1>6, <1>7, <1>8, <1>9, <1>10, <1>11
       DEF Next, TaskStep, RefreshStep, EndRefresh, Finish, Cancel, Workers

LEMMA StoringBusy ==
    ASSUME Shape, Placed, Owned, Fitted
    PROVE  InstallIsBusy
PROOF
  <1> SUFFICES ASSUME ~overtaken, NEW w \in Workers, pc[w] \in Bundling \ {"mkdir"},
                      NEW p \in Held(job[w].bundle), ~IsSum(p)
               PROVE  flights[p] # NoFlight \/ Refreshing(p)
    BY DEF InstallIsBusy, Storing, Bundling
  <1>1. p = job[w].key
    BY DEF Fitted, Fit
  <1>2. CASE w \in Tasks
    <2>1. flights[p] \in Cells
      BY <1>1, <1>2 DEF Owned, OwnedBy, Owner, Entered, Bundling, Downloading
    <2> QED
      BY <1>2, <2>1, ConstantsAssumption
  <1>3. CASE w \in Refreshers
    <2>1. pc[w] # "idle"
      BY DEF Bundling
    <2>2. p = w
      BY <1>1, <1>3, <2>1 DEF Fitted, Fit
    <2> QED
      BY <1>3, <2>1, <2>2 DEF Refreshing
  <1> QED
    BY <1>2, <1>3 DEF Workers

LEMMA FittedAlways == Spec => []Fitted
PROOF
  <1>1. Init => Fitted
    BY DEF Init, Fitted, Fit, NoJob, Bundling
  <1>2. Shape /\ Placed /\ Fitted /\ [Next]_vars => Fitted'
    BY FittedSteps
  <1> QED
    BY <1>1, <1>2, Typed, PTL DEF Spec

\* Only an eviction picks a victim.
LEMMA Picker ==
    ASSUME Shape, Next, NEW w \in Workers, pc[w] = "evict", pc'[w] = "unlink"
    PROVE  Evict(w)
PROOF
  <1>1. ASSUME NEW x \in Workers, x # w, UNCHANGED pc \/ \E at : Goto(x, at)
        PROVE  FALSE
    BY <1>1 DEF Goto, Shape
  <1>2. ASSUME NEW x \in Tasks, Fly(x)
        PROVE  FALSE
    <2>1. \E at : at # "unlink" /\ Goto(x, at)
      BY <1>2, FlyMoves
    <2> QED
      BY <2>1 DEF Goto, Shape, Workers
  <1>3. ASSUME NEW x \in Tasks, \/ Serve(x) \/ Download(x) \/ Finish(x) \/ Cancel(x)
                               \/ \E p \in Path : Begin(x, p)
        PROVE  FALSE
    <2>1. \/ Hit(x)
          \/ \E at : at # "unlink" /\ Goto(x, at)
      BY <1>3 DEF Serve, Download, Finish, Cancel, Begin, StatFirst, Hit, GetFinal, StatFinal,
                  Guard, Open, Read, GetFlight, StatFlight, GetSum, StatSum, SourceGet, SourceHash,
                  Stop
    <2> QED
      BY <2>1 DEF Hit, Goto, Shape, Workers
  <1>4. ASSUME NEW x \in Workers, Fetch(x) \/ Install(x) \/ EndRefresh(x) \/ Stats(x)
                 \/ Candidates(x) \/ Unlink(x) \/ Delete(x)
        PROVE  FALSE
    <2>1. \E at : at # "unlink" /\ Goto(x, at)
      BY <1>4 DEF Fetch, Install, Mkdir, Upsert, Rename, EndRefresh, Stats, Candidates, Unlink,
                  Delete, Stop
    <2> QED
      BY <2>1 DEF Goto, Shape
  <1>5. ASSUME NEW x \in Workers, Evict(x)
        PROVE  x = w
    BY <1>1, <1>5 DEF Evict
  <1>6. ASSUME NEW c \in late, Land(c)
        PROVE  FALSE
    BY <1>6 DEF Land
  <1>7. ~Crash
    BY DEF Crash
  <1> QED
    BY <1>2, <1>3, <1>4, <1>5, <1>6, <1>7 DEF Next, TaskStep, RefreshStep, Enforce, Workers

\* Until a flight is overtaken, the main path of a bundle is busy from the moment
\* its rows are written until its own eviction is over, whichever worker installs
\* it and whichever of the waiters of its flight or of earlier ones are removing
\* what they waited for (InstallIsBusy of ArtifactCache; serve.rs:200-201, 236-247).
THEOREM InstallBusy == Spec => []InstallIsBusy
PROOF
  <1> QED
    BY StoringBusy, FittedAlways, Typed, PTL

\* Until then evictions and installs keep out of each other's way, under every
\* limit and beside any number of clients and refreshes: the main file that one
\* installs is never the victim that another one picks (InstallNotPicked of
\* ArtifactCache; install.rs:132-143).
THEOREM InstallUndisturbed == Spec => InstallNotPicked
PROOF
  <1> DEFINE Apart ==
        \A w, x \in Workers :
          pc[w] = "evict" /\ pc'[w] = "unlink" /\ pc[x] \in Storing /\ ~overtaken
             => job'[w].victim \notin {p \in Held(job[x].bundle) : ~IsSum(p)}
  <1>1. ASSUME Shape, InstallIsBusy, Next
        PROVE  Apart
    <2> SUFFICES ASSUME NEW w \in Workers, NEW x \in Workers, pc[w] = "evict", pc'[w] = "unlink",
                        pc[x] \in Storing, ~overtaken,
                        NEW p \in Held(job[x].bundle), ~IsSum(p), job'[w].victim = p
                 PROVE  FALSE
      OBVIOUS
    <2>1. Busy(p)
      BY <1>1 DEF InstallIsBusy, Busy
    <2>2. Evict(w)
      BY <1>1, Picker
    <2>3. PICK q \in Held(job[w].victims) : ~Busy(q) /\ Set(w, [job[w] EXCEPT !.victim = q])
      BY <1>1, <2>2 DEF Evict, Goto, Shape
    <2>4. job'[w].victim = q
      BY <1>1, <2>3 DEF Set, Shape, Job
    <2> QED
      BY <2>1, <2>3, <2>4
  <1> HIDE DEF Apart
  <1>2. Shape /\ InstallIsBusy /\ [Next]_vars => [Apart]_vars
    BY <1>1
  <1>3. Spec => [][Apart]_vars
    BY <1>2, InstallBusy, Typed, PTL DEF Spec
  <1> QED
    BY <1>3 DEF Apart, InstallNotPicked

-----------------------------------------------------------------------------
(* The two stores                                                           *)

Evicting == {"stats", "candidates", "evict", "unlink", "delete"}

\* Every file has its row, the rows of a bundle are there before its first
\* rename, also a late one, and without a limit nobody evicts.
LateTracked(c) ==
    /\ c.at \notin {"unlink", "delete"}
    /\ c.at = "rename" => Held(c.bundle) \subseteq Held(records)

Tracked ==
    /\ NoUntrackedFiles
    /\ \A w \in Workers : pc[w] = "rename" => Held(job[w].bundle) \subseteq Held(records)
    /\ \A w \in Workers : pc[w] \notin Evicting
    /\ \A c \in late : LateTracked(c)

\* A step that leaves both stores alone and lets nobody reach a rename.
LEMMA ApartStep ==
    ASSUME Tracked, UNCHANGED <<records, files>>, \A c \in late' : c \in late \/ LateTracked(c),
           \A w \in Workers : \/ pc'[w] \notin Evicting \cup {"rename"}
                              \/ pc'[w] = pc[w] /\ job'[w].bundle = job[w].bundle
    PROVE  Tracked'
PROOF
  <1>1. Held(records') = Held(records) /\ Held(files') = Held(files)
    BY DEF Held
  <1> QED
    BY <1>1 DEF Tracked, NoUntrackedFiles, LateTracked, Held

LEMMA TrackedSteps ==
    ASSUME MaxSize = Unlimited, Shape, Fitted, Tracked, [Next]_vars
    PROVE  Tracked'
PROOF
  <1> DEFINE apart(w) == \/ pc'[w] \notin Evicting \cup {"rename"}
                         \/ pc'[w] = pc[w] /\ job'[w].bundle = job[w].bundle
  <1>1. ASSUME NEW w \in Workers, NEW at, at \notin Evicting \cup {"rename"}, Goto(w, at),
               \A x \in Workers : x # w => job'[x] = job[x],
               UNCHANGED <<records, files>>, \A c \in late' : c \in late \/ LateTracked(c)
        PROVE  Tracked'
    <2>1. \A x \in Workers : apart(x)
      BY <1>1 DEF Goto, Shape
    <2> QED
      BY <1>1, <2>1, ApartStep
  <1>2. ASSUME NEW w \in Workers, UNCHANGED job \/ \E j : Set(w, j)
        PROVE  \A x \in Workers : x # w => job'[x] = job[x]
    BY <1>2 DEF Set, Shape
  <1>3. ASSUME NEW t \in Tasks, NEW p \in Path, Begin(t, p)
        PROVE  Tracked'
    <2>1. "stat_first" \notin Evicting \cup {"rename"} /\ t \in Workers
      BY DEF Evicting, Workers
    <2> QED
      BY <1>1, <1>2, <1>3, <2>1 DEF Begin
  <1>4. ASSUME NEW t \in Tasks, Serve(t)
        PROVE  Tracked'
    <2>1. /\ {"idle", "hit", "join", "open", "guard", "stream", "stat_final"}
               \cap (Evicting \cup {"rename"}) = {}
          /\ t \in Workers
      BY DEF Evicting, Workers
    <2>2. CASE Hit(t)
      <3>1. CASE Goto(t, "open") /\ UNCHANGED job
        BY <1>1, <1>2, <2>1, <2>2, <3>1 DEF Hit
      <3>2. CASE ~(Goto(t, "open") /\ UNCHANGED job)
        <4> DEFINE p == job[t].want
        <4>1. /\ p \in Refreshers
              /\ pc' = [pc EXCEPT ![t] = "open", ![p] = "fetch"]
              /\ Set(p, [NoJob EXCEPT !.want = p, !.key = p])
          BY <2>2, <3>2 DEF Hit
        <4>2. \A x \in Workers : apart(x)
          BY <4>1 DEF Shape, Set, Evicting
        <4> QED
          BY <2>2, <4>2, ApartStep DEF Hit
      <3> QED
        BY <3>1, <3>2
    <2>3. CASE ~Hit(t)
      <3>1. /\ \E at \in {"idle", "hit", "join", "open", "guard", "stream", "stat_final"} : Goto(t, at)
            /\ UNCHANGED job \/ \E j : Set(t, j)
            /\ UNCHANGED <<records, files, late>>
        BY <1>4, <2>3 DEF Serve, StatFirst, GetFinal, StatFinal, Guard, Open, Read, Stop
      <3> QED
        BY <1>1, <1>2, <2>1, <3>1
    <2> QED
      BY <2>2, <2>3
  <1>5. ASSUME NEW t \in Tasks, Download(t)
        PROVE  Tracked'
    <2> DEFINE ats == {"stat_flight", "fetch", "stat_sum", "source_get", "source_hash", "mkdir",
                       "ok", "err"}
    <2>1. ats \cap (Evicting \cup {"rename"}) = {} /\ t \in Workers
      BY DEF Evicting, Workers
    <2>2. /\ \E at \in ats : Goto(t, at)
          /\ UNCHANGED job \/ \E j : Set(t, j)
          /\ UNCHANGED <<records, files, late>>
      BY <1>5 DEF Download, GetFlight, StatFlight, GetSum, StatSum, SourceGet, SourceHash, Read
    <2> QED
      BY <1>1, <1>2, <2>1, <2>2
  <1>13. ASSUME NEW t \in Tasks, Fly(t)
         PROVE  Tracked'
    <2>1. /\ {"wait", "join", "get_flight", "take", "remove", "get_final", "idle", "get_sum", "err"}
               \cap (Evicting \cup {"rename"}) = {}
          /\ t \in Workers
      BY DEF Evicting, Workers
    <2> QED
      BY <1>1, <1>2, <1>13, <2>1, FlyMoves
  <1>6. ASSUME NEW w \in Workers, Fetch(w) \/ Mkdir(w) \/ EndRefresh(w) \/ Finish(w)
        PROVE  Tracked'
    <2>1. {"mkdir", "ok", "err", "upsert", "idle"} \cap (Evicting \cup {"rename"}) = {}
      BY DEF Evicting
    <2>2. /\ \E at \in {"mkdir", "ok", "err", "upsert", "idle"} : Goto(w, at)
          /\ UNCHANGED job \/ \E j : Set(w, j)
          /\ UNCHANGED <<records, files, late>>
      BY <1>6 DEF Fetch, Mkdir, EndRefresh, Finish, Stop
    <2> QED
      BY <1>1, <1>2, <2>1, <2>2
  <1>7. ASSUME NEW w \in Workers, Upsert(w)
        PROVE  Tracked'
    <2>1. job[w].bundle \in Store
      BY DEF Shape, Job
    <2>2. Held(records') = Held(records) \cup Held(job[w].bundle)
      BY <1>7, <2>1 DEF Upsert, Overlay, Held
    <2>3. Held(files') = Held(files)
      BY <1>7 DEF Upsert, Held
    <2>4. \A x \in Workers : pc'[x] = (IF x = w THEN "rename" ELSE pc[x]) /\ job'[x] = job[x]
      BY <1>7 DEF Upsert, Goto, Shape
    <2>5. \A c \in late' : LateTracked(c)'
      BY <1>7, <2>2 DEF Upsert, Tracked, LateTracked
    <2> QED
      BY <2>2, <2>3, <2>4, <2>5 DEF Tracked, NoUntrackedFiles, Evicting
  <1>8. ASSUME NEW w \in Workers, Rename(w)
        PROVE  Tracked'
    <2> DEFINE p == NextRename(job[w].left)
    <2>1. /\ Held(job[w].bundle) \subseteq Held(records)
          /\ job[w].left \subseteq Held(job[w].bundle) /\ job[w].left # {}
      BY <1>8 DEF Rename, Tracked, Fitted, Fit
    <2>2. p \in job[w].left
      <3>1. \E q \in job[w].left : IsSum(q) \/ \A r \in job[w].left : ~IsSum(r)
        BY <2>1
      <3> QED
        BY <3>1 DEF NextRename
    <2>3. Held(files') \subseteq Held(files) \cup {p}
      BY <1>8 DEF Rename, Held, Shape, Store
    <2>4. Held(records') = Held(records)
      BY <1>8 DEF Rename, Held
    <2>5. \A x \in Workers :
             /\ job'[x].bundle = job[x].bundle
             /\ x # w => pc'[x] = pc[x]
             /\ x = w => pc'[x] \in {"rename", "ok", "err"}
      <3>1. job[w] \in Job
        BY DEF Shape
      <3>2. \A x \in Workers : job'[x].bundle = job[x].bundle
        BY <1>8, <3>1 DEF Rename, Set, Shape, Job
      <3>3. \E at \in {"rename", "ok", "err"} : Goto(w, at)
        BY <1>8 DEF Rename
      <3> QED
        BY <3>2, <3>3 DEF Goto, Shape
    <2>6. pc[w] = "rename"
      BY <1>8 DEF Rename
    <2>7. NoUntrackedFiles'
      BY <2>1, <2>2, <2>3, <2>4 DEF Tracked, NoUntrackedFiles
    <2>8. \A x \in Workers : pc'[x] = "rename" => Held(job'[x].bundle) \subseteq Held(records')
      BY <2>1, <2>4, <2>5 DEF Tracked
    <2>9. \A x \in Workers : pc'[x] \notin Evicting
      BY <2>5 DEF Tracked, Evicting
    <2>10. \A c \in late' : LateTracked(c)'
      BY <1>8, <2>4 DEF Rename, Tracked, LateTracked
    <2> QED
      BY <2>7, <2>8, <2>9, <2>10 DEF Tracked
  <1>9. ASSUME NEW w \in Workers
        PROVE  ~Enforce(w)
    BY DEF Enforce, Stats, Candidates, Evict, Unlink, Delete, Tracked, Evicting
  <1>10. ASSUME NEW t \in Tasks, Cancel(t)
         PROVE  Tracked'
    <2>1. "idle" \notin Evicting \cup {"rename"} /\ t \in Workers
      BY DEF Evicting, Workers
    <2>2. pc[t] \in Changing => LateTracked(Issued(t))
      <3>1. Held([EmptyStore EXCEPT ![NextRename(job[t].left)] = job[t].bundle[NextRename(job[t].left)]])
               \subseteq Held(job[t].bundle)
        BY DEF Held, EmptyStore
      <3>2. /\ Issued(t).at = pc[t]
            /\ pc[t] = "rename" => Held(Issued(t).bundle) \subseteq Held(job[t].bundle)
        BY <3>1 DEF Issued
      <3> QED
        BY <2>1, <3>2 DEF LateTracked, Tracked, Evicting
    <2>3. \A c \in late' : c \in late \/ LateTracked(c)
      BY <1>10, <2>2 DEF Cancel
    <2> QED
      BY <1>1, <1>2, <1>10, <2>1, <2>3 DEF Cancel, Stop
  <1>11. CASE Crash
    <2>1. \A x \in Workers : apart(x)
      BY <1>11 DEF Crash, Evicting
    <2> QED
      BY <1>11, <2>1, ApartStep DEF Crash
  <1>12. CASE UNCHANGED vars
    BY <1>12, ApartStep DEF vars
  <1>14. ASSUME NEW c \in late, Land(c)
         PROVE  Tracked'
    <2>1. LateTracked(c) /\ c.bundle \in Store /\ late' = late \ {c} /\ UNCHANGED <<pc, job>>
      BY <1>14 DEF Tracked, Shape, LateCall, Land
    <2>2. Held(records) \subseteq Held(records') /\ Held(files') \subseteq Held(records')
      <3>1. CASE c.at = "upsert"
        BY <1>14, <2>1, <3>1 DEF Land, Overlay, Held, Tracked, NoUntrackedFiles
      <3>2. CASE c.at = "rename"
        BY <1>14, <2>1, <3>2 DEF Land, Overlay, Held, Tracked, NoUntrackedFiles, LateTracked
      <3>3. CASE c.at \notin {"upsert", "rename"}
        BY <1>14, <2>1, <3>3 DEF Land, Held, Tracked, NoUntrackedFiles, LateTracked
      <3> QED
        BY <3>1, <3>2, <3>3
    <2>3. \A d \in late' : LateTracked(d)'
      BY <2>1, <2>2 DEF Tracked, LateTracked
    <2> QED
      BY <2>1, <2>2, <2>3 DEF Tracked, NoUntrackedFiles
  <1> QED
    BY <1>3, <1>4, <1>5, <1>6, <1>7, <1>8, <1>9, <1>10, <1>11, <1>12, <1>13, <1>14
       DEF Next, TaskStep, RefreshStep, Install, Workers

\* Without a size limit, no file is ever in the cache directory that the table
\* does not know (NoUntrackedFiles of ArtifactCache; install.rs:69): not after a
\* crash between the transaction and the renames, not when downloads, checksum
\* regenerations and refreshes of the same paths overlap, not when a rename is
\* done after its request was dropped.
THEOREM FilesTracked == MaxSize = Unlimited => (Spec => []NoUntrackedFiles)
PROOF
  <1>1. ASSUME MaxSize = Unlimited
        PROVE  Spec => []NoUntrackedFiles
    <2>1. Init => Fitted /\ Tracked
      BY DEF Init, Fitted, Fit, NoJob, Bundling, Tracked, NoUntrackedFiles, Held, EmptyStore,
             Evicting, LateTracked
    <2>2. Shape /\ Placed /\ Fitted /\ Tracked /\ [Next]_vars => (Fitted /\ Tracked)'
      BY <1>1, FittedSteps, TrackedSteps
    <2>3. Tracked => NoUntrackedFiles
      BY DEF Tracked
    <2> QED
      BY <2>1, <2>2, <2>3, Typed, PTL DEF Spec
  <1> QED
    BY <1>1

-----------------------------------------------------------------------------
(* A guarded response has its file                                          *)

\* Whoever found its file, is about to open it or reads it: it is there still.
Located ==
    \A t \in Tasks :
        pc[t] \in {"hit", "guard", "open", "stream"} => files[job[t].want] # NoContent

\* Without a limit a file is replaced, never removed.
LEMMA FilesStay ==
    ASSUME MaxSize = Unlimited, Shape, Fitted, Tracked, [Next]_vars
    PROVE  \A p \in Path : files[p] # NoContent => files'[p] # NoContent
PROOF
  <1>1. ASSUME NEW w \in Workers, Rename(w)
        PROVE  \A p \in Path : files[p] # NoContent => files'[p] # NoContent
    <2> DEFINE q == NextRename(job[w].left)
    <2>1. job[w].left \subseteq Held(job[w].bundle) /\ job[w].left # {}
      BY <1>1 DEF Rename, Fitted, Fit
    <2>2. q \in job[w].left
      <3>1. \E p \in job[w].left : IsSum(p) \/ \A r \in job[w].left : ~IsSum(r)
        BY <2>1
      <3> QED
        BY <3>1 DEF NextRename
    <2>3. job[w].bundle[q] # NoContent
      BY <2>1, <2>2 DEF Held
    <2>4. files' = files \/ files' = [files EXCEPT ![q] = job[w].bundle[q]]
      BY <1>1 DEF Rename
    <2> HIDE DEF q
    <2> QED
      BY <2>3, <2>4 DEF Shape, Store
  <1>2. ASSUME NEW w \in Workers
        PROVE  ~Enforce(w)
    BY DEF Enforce, Stats, Candidates, Evict, Unlink, Delete, Tracked, Evicting
  <1>5. ASSUME NEW c \in late, Land(c)
        PROVE  \A p \in Path : files[p] # NoContent => files'[p] # NoContent
    <2>1. LateTracked(c) /\ c.bundle \in Store
      BY DEF Tracked, Shape, LateCall
    <2>2. files' = files \/ files' = Overlay(files, c.bundle)
      BY <1>5, <2>1 DEF Land, LateTracked
    <2> QED
      BY <2>1, <2>2 DEF Overlay
  <1>3. CASE (\E w \in Workers : Rename(w)) \/ \E c \in late : Land(c)
    BY <1>1, <1>3, <1>5
  <1>4. CASE ~(\E w \in Workers : Rename(w)) /\ ~\E c \in late : Land(c)
    <2>1. files' = files
      <3>1. ASSUME NEW t \in Tasks,
                   Serve(t) \/ Fly(t) \/ Download(t) \/ Finish(t) \/ Cancel(t) \/ \E p \in Path : Begin(t, p)
            PROVE  files' = files
        BY <3>1, FlyMoves
           DEF Serve, Download, Finish, Cancel, Begin, StatFirst, Hit, GetFinal, StatFinal,
               Guard, Open, Read, GetFlight, StatFlight, GetSum, StatSum, SourceGet, SourceHash
      <3>2. ASSUME NEW w \in Workers, Fetch(w) \/ Mkdir(w) \/ Upsert(w) \/ EndRefresh(w)
            PROVE  files' = files
        BY <3>2 DEF Fetch, Mkdir, Upsert, EndRefresh
      <3>3. CASE Crash \/ UNCHANGED vars
        BY <3>3 DEF Crash, vars
      <3> QED
        BY <1>2, <1>4, <3>1, <3>2, <3>3 DEF Next, TaskStep, RefreshStep, Install, Workers
    <2> QED
      BY <2>1
  <1> QED
    BY <1>3, <1>4

LEMMA LocatedSteps ==
    ASSUME MaxSize = Unlimited, Shape, Placed, Fitted, Tracked, Located, [Next]_vars
    PROVE  Located'
PROOF
  <1> DEFINE Sure == {"hit", "guard", "open", "stream"}
             stays(t) == \/ pc'[t] \notin Sure
                         \/ pc[t] \in Sure /\ job'[t].want = job[t].want
                         \/ /\ pc[t] \in {"stat_first", "stat_final"}
                            /\ files[job[t].want] # NoContent /\ job'[t].want = job[t].want
  <1>1. \A p \in Path : files[p] # NoContent => files'[p] # NoContent
    BY FilesStay
  <1>2. ASSUME \A t \in Tasks : stays(t)
        PROVE  Located'
    <2> SUFFICES ASSUME NEW t \in Tasks, pc'[t] \in Sure
                 PROVE  files'[job'[t].want] # NoContent
      BY DEF Located
    <2>1. pc[t] # "idle" /\ files[job[t].want] # NoContent /\ job'[t].want = job[t].want
      BY <1>2 DEF Located
    <2>2. job[t].want \in Path
      BY <2>1 DEF Placed, Workers
    <2> QED
      BY <1>1, <2>1, <2>2
  <1>3. ASSUME NEW w \in Workers, NEW at, at \notin Sure, Goto(w, at),
               \A x \in Workers : x # w => job'[x] = job[x]
        PROVE  Located'
    <2>1. \A t \in Tasks : stays(t)
      BY <1>3 DEF Goto, Shape, Workers
    <2> QED
      BY <1>2, <2>1
  <1>4. ASSUME NEW w \in Workers, UNCHANGED job \/ \E j : Set(w, j)
        PROVE  \A x \in Workers : x # w => job'[x] = job[x]
    BY <1>4 DEF Set, Shape
  <1>5. ASSUME NEW t \in Tasks, NEW p \in Path, Begin(t, p)
        PROVE  Located'
    BY <1>3, <1>4, <1>5 DEF Begin, Workers
  <1>6. ASSUME NEW t \in Tasks, Serve(t)
        PROVE  Located'
    <2>1. t \in Workers
      BY DEF Workers
    <2>2. CASE StatFirst(t) \/ StatFinal(t)
      <3>1. CASE Positive(job[t].want, job[t].seen)
        <4>1. /\ files[job[t].want] # NoContent /\ UNCHANGED job
              /\ \E at \in Sure : Goto(t, at)
              /\ pc[t] \in {"stat_first", "stat_final"}
          BY <2>2, <3>1 DEF StatFirst, StatFinal, Positive
        <4>2. \A x \in Tasks : stays(x)
          BY <4>1 DEF Goto, Shape, Workers
        <4> QED
          BY <1>2, <4>2
      <3>2. CASE ~Positive(job[t].want, job[t].seen)
        <4>1. (\E at \in {"join", "idle"} : Goto(t, at)) /\ \E j : Set(t, j)
          BY <2>2, <3>2 DEF StatFirst, StatFinal, Stop
        <4> QED
          BY <1>3, <1>4, <2>1, <4>1
      <3> QED
        BY <3>1, <3>2
    <2>3. CASE Hit(t)
      <3>1. pc[t] = "hit" /\ job'[t] = job[t] /\ \A x \in Tasks : x # t => pc'[x] = pc[x] /\ job'[x] = job[x]
        <4>1. Tasks \cap Refreshers = {}
          BY ConstantsAssumption
        <4> QED
          BY <2>1, <2>3, <4>1 DEF Hit, Goto, Set, Shape, Workers
      <3>2. \A x \in Tasks : stays(x)
        BY <3>1
      <3> QED
        BY <1>2, <3>2
    <2>4. CASE Guard(t)
      <3>1. pc[t] = "guard" /\ UNCHANGED job /\ \A x \in Tasks : x # t => pc'[x] = pc[x]
        BY <2>4 DEF Guard, Goto, Shape, Workers
      <3>2. \A x \in Tasks : stays(x)
        BY <3>1
      <3> QED
        BY <1>2, <3>2
    <2>5. CASE GetFinal(t)
      <3>1. Goto(t, "stat_final") /\ \E j : Set(t, j)
        BY <2>5 DEF GetFinal, Read
      <3> QED
        BY <1>3, <1>4, <2>1, <3>1
    <2>6. CASE Open(t)
      <3>1. CASE Stop(t)
        <4>1. Goto(t, "idle") /\ \E j : Set(t, j)
          BY <3>1 DEF Stop
        <4> QED
          BY <1>3, <1>4, <2>1, <4>1
      <3>2. CASE ~Stop(t)
        <4>1. /\ pc[t] = "open" /\ Set(t, [job[t] EXCEPT !.seen = NoContent])
              /\ \A x \in Tasks : x # t => pc'[x] = pc[x]
          BY <2>6, <3>2 DEF Open, Goto, Shape, Workers
        <4>2. /\ job'[t].want = job[t].want
              /\ \A x \in Tasks : x # t => job'[x] = job[x]
          BY <2>1, <4>1 DEF Set, Shape, Job, Workers
        <4>3. \A x \in Tasks : stays(x)
          BY <4>1, <4>2
        <4> QED
          BY <1>2, <4>3
      <3> QED
        BY <3>1, <3>2
    <2> QED
      BY <1>6, <2>2, <2>3, <2>4, <2>5, <2>6 DEF Serve
  <1>7. ASSUME NEW t \in Tasks, Download(t)
        PROVE  Located'
    <2> DEFINE ats == {"stat_flight", "fetch", "stat_sum", "source_get", "source_hash", "mkdir",
                       "ok", "err"}
    <2>1. ats \cap Sure = {} /\ t \in Workers
      BY DEF Workers
    <2>2. (\E at \in ats : Goto(t, at)) /\ (UNCHANGED job \/ \E j : Set(t, j))
      BY <1>7 DEF Download, GetFlight, StatFlight, GetSum, StatSum, SourceGet, SourceHash, Read
    <2> QED
      BY <1>3, <1>4, <2>1, <2>2
  <1>13. ASSUME NEW t \in Tasks, Fly(t)
         PROVE  Located'
    <2>1. {"wait", "join", "get_flight", "take", "remove", "get_final", "idle", "get_sum", "err"}
             \cap Sure = {} /\ t \in Workers
      BY DEF Workers
    <2> QED
      BY <1>3, <1>4, <1>13, <2>1, FlyMoves
  <1>14. ASSUME NEW c \in late, Land(c)
         PROVE  Located'
    <2>1. \A t \in Tasks : stays(t)
      BY <1>14 DEF Land
    <2> QED
      BY <1>2, <2>1
  <1>8. ASSUME NEW w \in Workers, Fetch(w) \/ Install(w) \/ EndRefresh(w) \/ Finish(w)
        PROVE  Located'
    <2> DEFINE ats == {"mkdir", "upsert", "rename", "stats", "ok", "err", "idle"}
    <2>1. ats \cap Sure = {}
      OBVIOUS
    <2>2. (\E at \in ats : Goto(w, at)) /\ (UNCHANGED job \/ \E j : Set(w, j))
      BY <1>8 DEF Fetch, Install, Mkdir, Upsert, Rename, EndRefresh, Finish, Stop
    <2> QED
      BY <1>3, <1>4, <2>1, <2>2
  <1>9. ASSUME NEW w \in Workers
        PROVE  ~Enforce(w)
    BY DEF Enforce, Stats, Candidates, Evict, Unlink, Delete, Tracked, Evicting
  <1>10. ASSUME NEW t \in Tasks, Cancel(t)
         PROVE  Located'
    BY <1>3, <1>4, <1>10 DEF Cancel, Stop, Workers
  <1>11. CASE Crash
    <2>1. \A t \in Tasks : stays(t)
      BY <1>11 DEF Crash, Workers
    <2> QED
      BY <1>2, <2>1
  <1>12. CASE UNCHANGED vars
    BY <1>12 DEF vars, Located
  <1> QED
    BY <1>5, <1>6, <1>7, <1>8, <1>9, <1>10, <1>11, <1>12, <1>13, <1>14
       DEF Next, TaskStep, RefreshStep, Workers

-----------------------------------------------------------------------------
(* A guard keeps its file                                                   *)

LEMMA HoldsKept ==
    ASSUME NEW t \in Tasks, Holds(t), pc'[t] = pc[t], job'[t] = job[t],
           files'[job[t].want] # NoContent,
           \A w \in Workers : pc'[w] = "unlink" =>
              \/ pc[w] = "unlink" /\ job'[w].victim = job[w].victim
              \/ job'[w].victim # job[t].want,
           \A c \in late' : c.at = "unlink" => c \in late \/ c.path # job[t].want
    PROVE  Holds(t)'
PROOF
  BY DEF Holds

\* A step of another worker that neither starts a removal nor takes a file away.
LEMMA HoldsApart ==
    ASSUME Shape, NEW t \in Tasks, Holds(t), NEW w \in Workers, w # t,
           NEW at, at # "unlink", Goto(w, at), UNCHANGED job \/ \E j : Set(w, j),
           files'[job[t].want] # NoContent,
           \A c \in late' : c.at = "unlink" => c \in late \/ c.path # job[t].want
    PROVE  Holds(t)'
PROOF
  <1>1. \A x \in Workers : x # w => pc'[x] = pc[x] /\ job'[x] = job[x]
    BY DEF Shape, Goto, Set
  <1>2. pc'[w] = at
    BY DEF Shape, Goto
  <1>3. pc'[t] = pc[t] /\ job'[t] = job[t]
    BY <1>1 DEF Workers
  <1>4. \A x \in Workers : pc'[x] = "unlink" => pc[x] = "unlink" /\ job'[x].victim = job[x].victim
    BY <1>1, <1>2
  <1> QED
    BY <1>3, <1>4, HoldsKept

LEMMA GuardSteps ==
    ASSUME Shape, Placed, Fitted, NEW t \in Tasks, Holds(t), Next, pc'[t] = "open"
    PROVE  Holds(t)'
PROOF
  <1> DEFINE p == job[t].want
  <1>1. pc[t] = "open" /\ files[p] # NoContent /\ t \in Workers /\ p \in Path
    BY DEF Holds, Workers, Placed
  <1>2. ASSUME NEW x \in Tasks, NEW q \in Path, Begin(x, q)
        PROVE  Holds(t)'
    BY <1>1, <1>2, HoldsApart DEF Begin, Workers
  <1>3. ASSUME NEW x \in Tasks, Hit(x)
        PROVE  Holds(t)'
    <2>1. t \notin Path /\ x \notin Path /\ x # t
      BY <1>1, <1>3, ConstantsAssumption DEF Hit
    <2>2. /\ pc'[t] = pc[t] /\ job'[t] = job[t]
          /\ \A y \in Workers : pc'[y] = "unlink" => pc[y] = "unlink" /\ job'[y] = job[y]
          /\ UNCHANGED <<files, late>>
      BY <1>1, <1>3, <2>1 DEF Hit, Goto, Set, Shape, Workers
    <2> QED
      BY <1>1, <2>2, HoldsKept
  <1>4. ASSUME NEW x \in Tasks, Serve(x), ~Hit(x)
        PROVE  Holds(t)'
    <2>1. x # t
      <3>1. CASE Open(x)
        BY <1>1, <3>1 DEF Open, Stop, Goto, Shape
      <3>2. CASE ~Open(x)
        BY <1>1, <1>4, <3>2 DEF Serve, StatFirst, GetFinal, StatFinal, Guard, Read
      <3> QED
        BY <3>1, <3>2
    <2>2. /\ \E at \in {"hit", "join", "open", "stat_final", "guard", "idle", "stream"} : Goto(x, at)
          /\ UNCHANGED job \/ \E j : Set(x, j)
          /\ UNCHANGED <<files, late>>
      BY <1>4 DEF Serve, StatFirst, GetFinal, StatFinal, Guard, Open, Read, Stop
    <2> QED
      BY <1>1, <2>1, <2>2, HoldsApart DEF Workers
  <1>5. ASSUME NEW x \in Tasks, Fly(x) \/ Download(x)
        PROVE  Holds(t)'
    <2>1. x # t
      BY <1>1, <1>5 DEF Fly, Enter, Initialise, Complete, Take, Remove, Outcomes,
                        Download, GetFlight, StatFlight, GetSum, StatSum, SourceGet, SourceHash, Read
    <2>2. CASE Fly(x)
      <3>1. /\ \E at : at # "unlink" /\ Goto(x, at)
            /\ UNCHANGED job \/ \E j : Set(x, j)
            /\ UNCHANGED <<files, late>>
        BY <2>2, FlyMoves
      <3> QED
        BY <1>1, <2>1, <3>1, HoldsApart DEF Workers
    <2>3. CASE Download(x)
      <3>1. /\ \E at \in {"stat_flight", "fetch", "stat_sum", "source_get", "source_hash", "mkdir",
                          "ok", "err"} : Goto(x, at)
            /\ UNCHANGED job \/ \E j : Set(x, j)
            /\ UNCHANGED <<files, late>>
        BY <2>3 DEF Download, GetFlight, StatFlight, GetSum, StatSum, SourceGet, SourceHash, Read
      <3> QED
        BY <1>1, <2>1, <3>1, HoldsApart DEF Workers
    <2> QED
      BY <1>5, <2>2, <2>3
  <1>6. ASSUME NEW x \in Tasks, Finish(x)
        PROVE  Holds(t)'
    <2>1. x # t /\ x \in Workers
      BY <1>1, <1>6 DEF Finish, Workers
    <2> QED
      BY <1>1, <1>6, <2>1, HoldsApart DEF Finish, Stop
  <1>7. ASSUME NEW x \in Tasks, Cancel(x)
        PROVE  Holds(t)'
    <2>1. x \in Workers /\ x # t /\ Goto(x, "idle") /\ Set(x, NoJob) /\ files' = files
      BY <1>1, <1>7 DEF Cancel, Stop, Goto, Shape, Workers
    <2>2. ASSUME NEW c \in late', c.at = "unlink", c \notin late
          PROVE  c.path # p
      <3>1. c = Issued(x)
        BY <1>7, <2>2 DEF Cancel
      <3>2. c.at = pc[x] /\ c.path = job[x].victim
        BY <3>1 DEF Issued
      <3> QED
        BY <2>1, <2>2, <3>2 DEF Holds
    <2> QED
      BY <1>1, <2>1, <2>2, HoldsApart
  <1>8. ASSUME NEW w \in Workers, Fetch(w) \/ EndRefresh(w) \/ Mkdir(w) \/ Upsert(w) \/ Stats(w)
                 \/ Candidates(w) \/ Delete(w)
        PROVE  Holds(t)'
    <2>1. w # t
      BY <1>1, <1>8 DEF Fetch, EndRefresh, Mkdir, Upsert, Stats, Candidates, Delete
    <2>2. /\ \E at \in {"mkdir", "ok", "err", "idle", "upsert", "rename", "candidates", "evict"} :
                Goto(w, at)
          /\ UNCHANGED job \/ \E j : Set(w, j)
          /\ UNCHANGED <<files, late>>
      BY <1>8 DEF Fetch, EndRefresh, Mkdir, Upsert, Stats, Candidates, Delete, Stop
    <2> QED
      BY <1>1, <2>1, <2>2, HoldsApart
  <1>9. ASSUME NEW w \in Workers, Rename(w)
        PROVE  Holds(t)'
    <2> DEFINE q == NextRename(job[w].left)
    <2>1. w # t /\ pc[w] = "rename" /\ job[w].left \subseteq Held(job[w].bundle) /\ job[w].left # {}
      BY <1>1, <1>9 DEF Rename, Fitted, Fit
    <2>2. q \in job[w].left
      <3>1. \E r \in job[w].left : IsSum(r) \/ \A o \in job[w].left : ~IsSum(o)
        BY <2>1
      <3> QED
        BY <3>1 DEF NextRename
    <2>3. job[w].bundle[q] # NoContent /\ q \in Path
      BY <2>1, <2>2 DEF Held
    <2>4. files' = files \/ files' = [files EXCEPT ![q] = job[w].bundle[q]]
      BY <1>9 DEF Rename
    <2>5. /\ \E at \in {"rename", "ok", "stats", "err"} : Goto(w, at)
          /\ UNCHANGED job \/ \E j : Set(w, j)
          /\ UNCHANGED late
      BY <1>9 DEF Rename
    <2> HIDE DEF q
    <2>6. files'[p] # NoContent
      BY <1>1, <2>3, <2>4 DEF Shape, Store
    <2> QED
      BY <2>1, <2>5, <2>6, HoldsApart
  <1>10. ASSUME NEW w \in Workers, Evict(w)
         PROVE  Holds(t)'
    <2>1. w # t /\ pc[w] = "evict" /\ UNCHANGED <<files, late>>
      BY <1>1, <1>10 DEF Evict
    <2>2. \A x \in Workers : x # w => pc'[x] = pc[x] /\ job'[x] = job[x]
      BY <1>10 DEF Evict, Goto, Set, Shape
    <2>3. pc'[w] = "unlink" => job'[w].victim # p
      <3>1. Busy(p)
        BY <1>1 DEF Busy, Guarded
      <3>2. ASSUME pc'[w] = "unlink"
            PROVE  \E q \in Held(job[w].victims) : ~Busy(q) /\ Set(w, [job[w] EXCEPT !.victim = q])
        BY <1>10, <2>1, <3>2 DEF Evict, Goto, Shape
      <3>3. job[w] \in Job
        BY DEF Shape
      <3> QED
        BY <3>1, <3>2, <3>3 DEF Set, Shape, Job
    <2> QED
      BY <1>1, <2>1, <2>2, <2>3, HoldsKept DEF Workers
  <1>11. ASSUME NEW w \in Workers, Unlink(w)
         PROVE  Holds(t)'
    <2>1. w # t /\ Goto(w, "delete") /\ (\E j : Set(w, j)) /\ late' = late
      BY <1>1, <1>11 DEF Unlink
    <2>2. files'[p] # NoContent
      BY <1>1, <1>11 DEF Unlink, WithoutFile, Holds, Shape, Store
    <2> QED
      BY <2>1, <2>2, HoldsApart
  <1>12. ASSUME NEW c \in late, Land(c)
         PROVE  Holds(t)'
    <2>1. late' \subseteq late /\ UNCHANGED <<pc, job>>
      BY <1>12 DEF Land
    <2>2. files'[p] # NoContent
      <3>1. c.at = "unlink" => c.path # p
        BY DEF Holds
      <3>2. c.bundle \in Store
        BY DEF Shape, LateCall
      <3> QED
        BY <1>1, <1>12, <3>1, <3>2 DEF Land, Overlay, WithoutFile, Shape, Store
    <2> QED
      BY <1>1, <2>1, <2>2, HoldsKept
  <1>13. ~Crash
    BY <1>1 DEF Crash
  <1> QED
    BY <1>2, <1>3, <1>4, <1>5, <1>6, <1>7, <1>8, <1>9, <1>10, <1>11, <1>12, <1>13
       DEF Next, TaskStep, RefreshStep, Install, Enforce, Workers

\* A guard does what it is for (GuardKeepsFile of ArtifactCache; types.rs:9-10),
\* under every limit and beside any number of clients, refreshes, evictions and
\* calls of clients that left: a file that a response holds, and that no eviction
\* had chosen before, is there until the response opens it.
THEOREM GuardHeld == Spec => GuardKeepsFile
PROOF
  <1>1. Shape /\ Placed /\ Fitted /\ [Next]_vars =>
          [\A t \in Tasks : Holds(t) /\ pc'[t] = "open" => Holds(t)']_vars
    BY GuardSteps
  <1> QED
    BY <1>1, FittedAlways, Typed, PTL DEF Spec, GuardKeepsFile

-----------------------------------------------------------------------------
(* The two stores agree                                                     *)

\* Nothing is refreshed and nothing evicted, and what a dropped client has under
\* way is done before it goes.
Settled == MaxSize = Unlimited /\ Refreshers = {} /\ MaxLate = 0

LEMMA NoneLate ==
    ASSUME MaxLate = 0, late = {}, [Next]_vars
    PROVE  late' = {}
PROOF
  <1>1. ~(Cardinality(late) < MaxLate)
    BY FS_EmptySet
  <1>2. ASSUME NEW t \in Tasks,
               \/ Serve(t) \/ Fly(t) \/ Download(t) \/ Finish(t) \/ Cancel(t)
               \/ \E p \in Path : Begin(t, p)
        PROVE  late' = {}
    BY <1>1, <1>2, FlyMoves
       DEF Serve, Download, Finish, Cancel, Begin, StatFirst, Hit, GetFinal, StatFinal,
           Guard, Open, Read, GetFlight, StatFlight, GetSum, StatSum, SourceGet, SourceHash
  <1>3. ASSUME NEW w, Fetch(w) \/ Install(w) \/ Enforce(w) \/ EndRefresh(w)
        PROVE  late' = {}
    BY <1>3 DEF Fetch, Install, Enforce, EndRefresh, Mkdir, Upsert, Rename, Stats, Candidates,
                Evict, Unlink, Delete
  <1>4. CASE Crash \/ UNCHANGED vars
    BY <1>4 DEF Crash, vars
  <1> QED
    BY <1>2, <1>3, <1>4 DEF Next, TaskStep, RefreshStep

WrittenBy(p) == IF IsSum(p) THEN "cache" ELSE "upstream"

\* A main file that lies in the cache directory is the one its record describes,
\* and the checksum beside it is its own; the main files are the upstream's and
\* the checksums the cache's.
Agree(fs, rs) ==
    /\ \A p \in Path : ~IsSum(p) /\ fs[p] # NoContent =>
          rs[p] = fs[p] /\ fs[SumOf(p)] = Computed(fs[p].of)
    /\ \A p \in Path : rs[p] # NoContent => rs[p].by = WrittenBy(p)
    /\ \A p \in Path : fs[p] # NoContent => fs[p].by = WrittenBy(p)

Installing == {"mkdir", "upsert", "rename"}
Hashing == {"get_sum", "stat_sum", "source_get", "source_hash"}

\* What a task with the locals j knows at each point of its download.  A download
\* installs a main file only where there is none, under the record it has just
\* written and after its checksum; a regeneration hashes a file that stays.
Sound(at, j, fs, rs) ==
    /\ at \in {"get_flight", "stat_flight", "fetch"} => ~IsSum(j.key)
    /\ at = "stat_flight" => j.seen = rs[j.key]
    /\ at = "fetch" => fs[j.key] = NoContent
    /\ at \in Installing => j.key \in j.left
    /\ at \in {"mkdir", "upsert"} => j.left = Held(j.bundle)
    /\ at \in Installing /\ ~IsSum(j.key) =>
          /\ fs[j.key] = NoContent
          /\ \E v \in Versions : j.bundle = Prepared(j.key, v)
    /\ at \in Installing /\ IsSum(j.key) =>
          /\ fs[MainOf(j.key)] # NoContent
          /\ j.bundle = [EmptyStore EXCEPT ![j.key] = Computed(fs[MainOf(j.key)].of)]
    /\ at = "rename" /\ ~IsSum(j.key) =>
          /\ rs[j.key] = j.bundle[j.key]
          /\ SumOf(j.key) \notin j.left => fs[SumOf(j.key)] = j.bundle[SumOf(j.key)]
    /\ at = "ok" => fs[j.key] # NoContent
    /\ at \in Hashing => IsSum(j.want)
    /\ at \in {"get_final", "stat_final"} => fs[j.want] # NoContent
    /\ at = "stat_final" =>
          /\ j.seen # NoContent /\ j.seen.by = WrittenBy(j.want)
          /\ ~IsSum(j.want) => j.seen = fs[j.want]

Coherent ==
    Agree(files, records) /\ \A t \in Tasks : Sound(pc[t], job[t], files, records)

\* A flight that succeeded has left the file of its path.
Arrived == \A p \in Path, c \in Cells : cells[p][c] = "ok" => files[p] # NoContent

\* The places at which a task knows nothing of the stores.
Unsure == {"idle", "stat_first", "hit", "join", "wait", "take", "remove", "guard", "open",
           "stream", "err"}

LEMMA UnsureSound ==
    ASSUME NEW at \in Unsure, NEW j, NEW fs, NEW rs
    PROVE  Sound(at, j, fs, rs)
PROOF
  BY DEF Unsure, Sound, Installing, Hashing

LEMMA SoundStep ==
    ASSUME Shape, Coherent, NEW t \in Tasks, NEW at, NEW j,
           Goto(t, at), job' = [job EXCEPT ![t] = j], UNCHANGED <<records, files>>,
           Sound(at, j, files, records)
    PROVE  Coherent'
PROOF
  <1>1. ASSUME NEW x \in Tasks
        PROVE  Sound(pc'[x], job'[x], files', records')
    <2>1. CASE x = t
      <3>1. pc'[x] = at /\ job'[x] = j /\ files' = files /\ records' = records
        BY <2>1 DEF Shape, Goto, Workers
      <3> QED
        BY <3>1
    <2>2. CASE x # t
      <3>1. pc'[x] = pc[x] /\ job'[x] = job[x] /\ files' = files /\ records' = records
        BY <2>2 DEF Shape, Goto, Workers
      <3>2. Sound(pc[x], job[x], files, records)
        BY DEF Coherent
      <3> QED
        BY <3>1, <3>2
    <2> QED
      BY <2>1, <2>2
  <1>2. Agree(files', records')
    BY DEF Coherent
  <1> QED
    BY <1>1, <1>2 DEF Coherent

\* A task gives up what it knew.
LEMMA UnsureStep ==
    ASSUME Shape, Coherent, NEW t \in Tasks, NEW at \in Unsure,
           Goto(t, at), UNCHANGED job \/ \E j : Set(t, j), UNCHANGED <<records, files>>
    PROVE  Coherent'
PROOF
  <1>1. \E j : job' = [job EXCEPT ![t] = j]
    BY DEF Set, Shape, Workers
  <1> QED
    BY <1>1, SoundStep, UnsureSound

\* What the owner of a main flight knows of it, no other task does.
LEMMA OwnersDiffer ==
    ASSUME Owned, ~overtaken, NEW t \in Tasks, NEW x \in Tasks, x # t,
           pc[t] \in Downloading, pc[x] \in Downloading
    PROVE  job[x].key # job[t].key
PROOF
  BY DEF Owned, OwnedBy, Owner, Entered

LEMMA PathFacts ==
    /\ \A p \in Path : SumOf(p) \in Path /\ IsSum(SumOf(p)) /\ MainOf(p) \in Path /\ ~IsSum(MainOf(p))
    /\ \A p \in Path : ~IsSum(p) => MainOf(SumOf(p)) = p /\ MainOf(p) = p /\ SumOf(p) # p
    /\ \A p \in Path : IsSum(p) => SumOf(MainOf(p)) = p
    /\ \A p, q \in Path : ~IsSum(p) /\ ~IsSum(q) /\ SumOf(p) = SumOf(q) => p = q
PROOF
  BY DEF Path, Kinds, SumOf, MainOf, IsSum

LEMMA MainBundle ==
    ASSUME NEW p \in Path, NEW v \in Versions, ~IsSum(p)
    PROVE  /\ Prepared(p, v) \in Store
           /\ Held(Prepared(p, v)) = {p, SumOf(p)}
           /\ Prepared(p, v)[p] = Fetched(v) /\ Prepared(p, v)[SumOf(p)] = Computed(v)
           /\ Fetched(v) \in Content /\ Computed(v) \in Content
           /\ \A q \in Path \ {p, SumOf(p)} : Prepared(p, v)[q] = NoContent
PROOF
  <1>1. Fetched(v) \in Content /\ Computed(v) \in Content
    BY DEF Fetched, Computed, Content
  <1>2. Fetched(v) # NoContent /\ Computed(v) # NoContent
    BY <1>1, ConstantsAssumption
  <1> QED
    BY <1>1, <1>2, PathFacts, StoreOps DEF Held, Prepared

LEMMA SumBundle ==
    ASSUME NEW p \in Path, NEW c \in Content
    PROVE  LET b == [EmptyStore EXCEPT ![p] = Computed(c.of)] IN
           /\ b \in Store /\ Held(b) = {p} /\ b[p] = Computed(c.of) /\ Computed(c.of) \in Content
           /\ \A q \in Path \ {p} : b[q] = NoContent
PROOF
  <1>1. Computed(c.of) \in Content /\ Computed(c.of) # NoContent
    BY ConstantsAssumption DEF Computed, Content
  <1> QED
    BY <1>1 DEF EmptyStore, Held, Store

\* What a task knows survives a change of the stores that removes no file,
\* replaces no main file, and leaves the paths of its own download alone.
LEMMA SoundFrame ==
    ASSUME NEW at, NEW j, NEW fs, NEW rs, NEW fs2, NEW rs2,
           j.want \in Path, j.key \in Path, Sound(at, j, fs, rs),
           \A q \in Path : fs[q] # NoContent => fs2[q] # NoContent,
           \A q \in Path : ~IsSum(q) /\ fs[q] # NoContent => fs2[q] = fs[q],
           at \in Downloading /\ ~IsSum(j.key) => fs2[j.key] = fs[j.key] /\ rs2[j.key] = rs[j.key],
           at = "rename" /\ ~IsSum(j.key) => fs2[SumOf(j.key)] = fs[SumOf(j.key)]
    PROVE  Sound(at, j, fs2, rs2)
PROOF
  <1>1. MainOf(j.key) \in Path /\ ~IsSum(MainOf(j.key))
    BY PathFacts
  <1>2. {"stat_flight", "fetch"} \cup Installing \subseteq Downloading
    BY DEF Installing, Downloading
  <1>3. /\ at \in {"get_flight", "stat_flight", "fetch"} => ~IsSum(j.key)
        /\ at = "stat_flight" => j.seen = rs2[j.key]
        /\ at = "fetch" => fs2[j.key] = NoContent
    BY <1>2 DEF Sound
  <1>4. /\ at \in Installing => j.key \in j.left
        /\ at \in {"mkdir", "upsert"} => j.left = Held(j.bundle)
        /\ at \in Installing /\ ~IsSum(j.key) =>
              /\ fs2[j.key] = NoContent
              /\ \E v \in Versions : j.bundle = Prepared(j.key, v)
    BY <1>2 DEF Sound
  <1>5. at \in Installing /\ IsSum(j.key) =>
          /\ fs2[MainOf(j.key)] # NoContent
          /\ j.bundle = [EmptyStore EXCEPT ![j.key] = Computed(fs2[MainOf(j.key)].of)]
    BY <1>1 DEF Sound
  <1>6. at = "rename" /\ ~IsSum(j.key) =>
          /\ rs2[j.key] = j.bundle[j.key]
          /\ SumOf(j.key) \notin j.left => fs2[SumOf(j.key)] = j.bundle[SumOf(j.key)]
    BY <1>2 DEF Sound, Installing
  <1>7. /\ at = "ok" => fs2[j.key] # NoContent
        /\ at \in Hashing => IsSum(j.want)
        /\ at \in {"get_final", "stat_final"} => fs2[j.want] # NoContent
    BY DEF Sound
  <1>8. at = "stat_final" =>
          /\ j.seen # NoContent /\ j.seen.by = WrittenBy(j.want)
          /\ ~IsSum(j.want) => j.seen = fs2[j.want]
    BY DEF Sound
  <1> QED
    BY <1>3, <1>4, <1>5, <1>6, <1>7, <1>8 DEF Sound

\* The other tasks, when the owner t of a flight writes a row or a file: their
\* downloads are of other main files.
LEMMA OthersSound ==
    ASSUME Shape, Placed, Owned, ~overtaken, Coherent, NEW t \in Tasks, NEW k, k = job[t].key,
           pc[t] \in Downloading,
           \A q \in Path : ~IsSum(q) /\ q # k => files'[q] = files[q] /\ records'[q] = records[q],
           ~IsSum(k) => files[k] = NoContent /\ \A q \in Path \ {k, SumOf(k)} : files'[q] = files[q],
           IsSum(k) => files[MainOf(k)] # NoContent /\ \A q \in Path \ {k} : files'[q] = files[q],
           \A q \in Path : files[q] # NoContent => files'[q] # NoContent
    PROVE  \A x \in Tasks \ {t} : Sound(pc[x], job[x], files', records')
PROOF
  <1> SUFFICES ASSUME NEW x \in Tasks, x # t
               PROVE  Sound(pc[x], job[x], files', records')
    OBVIOUS
  <1>1. Sound(pc[x], job[x], files, records)
    BY DEF Coherent
  <1>2. CASE pc[x] = "idle"
    BY <1>2, UnsureSound DEF Unsure
  <1>3. CASE pc[x] # "idle"
    <2>1. job[x].want \in Path /\ job[x].key \in Path /\ k \in Path
      BY <1>3 DEF Placed, Workers, Downloading
    <2>2. pc[x] \in Downloading => job[x].key # k
      BY OwnersDiffer
    <2>3. \A q \in Path : ~IsSum(q) /\ files[q] # NoContent => files'[q] = files[q]
      BY <2>1
    <2>4. pc[x] \in Downloading /\ ~IsSum(job[x].key) =>
            files'[job[x].key] = files[job[x].key] /\ records'[job[x].key] = records[job[x].key]
      BY <2>1, <2>2
    <2>5. ASSUME pc[x] = "rename", ~IsSum(job[x].key)
          PROVE  files'[SumOf(job[x].key)] = files[SumOf(job[x].key)]
      <3>1. files[job[x].key] = NoContent
        BY <1>1, <2>5 DEF Sound, Installing
      <3>2. job[x].key # k
        BY <2>2, <2>5 DEF Downloading
      <3>3. SumOf(job[x].key) \in Path /\ IsSum(SumOf(job[x].key))
        BY <2>1, PathFacts
      <3>4. CASE IsSum(k)
        <4>1. SumOf(job[x].key) # k
          BY <2>1, <2>5, <3>1, <3>4, PathFacts
        <4> QED
          BY <3>3, <3>4, <4>1
      <3>5. CASE ~IsSum(k)
        <4>1. SumOf(job[x].key) # SumOf(k)
          BY <2>1, <2>5, <3>2, <3>5, PathFacts
        <4> QED
          BY <3>3, <3>5, <4>1
      <3> QED
        BY <3>4, <3>5
    <2> QED
      BY <1>1, <2>1, <2>3, <2>4, <2>5, SoundFrame
  <1> QED
    BY <1>2, <1>3

LEMMA UpsertCoherent ==
    ASSUME Shape, Placed, Owned, ~overtaken, Coherent, NEW t \in Tasks, Upsert(t)
    PROVE  Coherent'
PROOF
  <1> DEFINE k == job[t].key
             b == job[t].bundle
  <1>1. /\ pc[t] = "upsert" /\ files' = files /\ records' = Overlay(records, b)
        /\ Goto(t, "rename") /\ job' = job /\ t \in Workers
    BY DEF Upsert, Workers
  <1>2. k \in Path /\ job[t] \in Job /\ files \in Store /\ records \in Store
    BY <1>1 DEF Placed, Shape
  <1>3. Sound("upsert", job[t], files, records)
    BY <1>1 DEF Coherent
  <1>4. \A q \in Path : records'[q] = IF b[q] = NoContent THEN records[q] ELSE b[q]
    BY <1>1 DEF Overlay
  <1>5. CASE ~IsSum(k)
    <2>1. PICK v \in Versions : b = Prepared(k, v)
      BY <1>3, <1>5 DEF Sound, Installing
    <2>2. files[k] = NoContent /\ job[t].left = Held(b)
      BY <1>3, <1>5 DEF Sound, Installing
    <2> HIDE DEF k, b
    <2>3. /\ records'[k] = b[k] /\ b[k] = Fetched(v)
          /\ records'[SumOf(k)] = Computed(v) /\ SumOf(k) \in job[t].left
          /\ \A q \in Path \ {k, SumOf(k)} : records'[q] = records[q]
      BY <1>2, <1>4, <1>5, <2>1, <2>2, MainBundle, PathFacts, ConstantsAssumption
    <2>4. Agree(files', records')
      <3>1. \A p \in Path : ~IsSum(p) /\ files[p] # NoContent =>
              records'[p] = files[p] /\ files[SumOf(p)] = Computed(files[p].of)
        BY <1>2, <2>2, <2>3, PathFacts DEF Coherent, Agree
      <3>2. \A p \in Path : records'[p] # NoContent => records'[p].by = WrittenBy(p)
        BY <1>2, <1>5, <2>3, PathFacts DEF Coherent, Agree, WrittenBy, Fetched, Computed
      <3> QED
        BY <1>1, <3>1, <3>2 DEF Coherent, Agree
    <2>5. Sound("rename", job[t], files', records')
      BY <1>1, <1>3, <1>5, <2>1, <2>2, <2>3 DEF Sound, Installing, Hashing, k, b
    <2>6. \A x \in Tasks \ {t} : Sound(pc[x], job[x], files', records')
      <3>1. /\ pc[t] \in Downloading /\ k = job[t].key
            /\ \A q \in Path : ~IsSum(q) /\ q # k => files'[q] = files[q] /\ records'[q] = records[q]
        BY <1>1, <1>2, <2>3, PathFacts DEF Downloading, k
      <3> QED
        BY <1>1, <1>5, <2>2, <3>1, OthersSound
    <2> QED
      BY <1>1, <2>4, <2>5, <2>6 DEF Coherent, Goto, Shape, Workers
  <1>6. CASE IsSum(k)
    <2>1. files[MainOf(k)] # NoContent /\ b = [EmptyStore EXCEPT ![k] = Computed(files[MainOf(k)].of)]
      BY <1>3, <1>6 DEF Sound, Installing
    <2>2. files[MainOf(k)] \in Content
      BY <1>2, <2>1, PathFacts DEF Store
    <2> HIDE DEF k, b
    <2>3. /\ records'[k] \in {records[k], Computed(files[MainOf(k)].of)}
          /\ \A q \in Path \ {k} : records'[q] = records[q]
      BY <1>2, <1>4, <2>1, <2>2, SumBundle
    <2>4. Agree(files', records')
      <3>1. \A p \in Path : ~IsSum(p) => records'[p] = records[p]
        BY <1>6, <2>3
      <3>2. \A p \in Path : records'[p] # NoContent => records'[p].by = WrittenBy(p)
        BY <1>2, <1>6, <2>3 DEF Coherent, Agree, WrittenBy, Computed
      <3> QED
        BY <1>1, <3>1, <3>2 DEF Coherent, Agree
    <2>5. Sound("rename", job[t], files', records')
      BY <1>1, <1>3, <1>6 DEF Sound, Installing, Hashing, k
    <2>6. \A x \in Tasks \ {t} : Sound(pc[x], job[x], files', records')
      <3>1. /\ pc[t] \in Downloading /\ k = job[t].key
            /\ \A q \in Path : ~IsSum(q) /\ q # k => files'[q] = files[q] /\ records'[q] = records[q]
        BY <1>1, <1>2, <2>3 DEF Downloading, k
      <3> QED
        BY <1>1, <1>6, <2>1, <3>1, OthersSound
    <2> QED
      BY <1>1, <2>4, <2>5, <2>6 DEF Coherent, Goto, Shape, Workers
  <1> QED
    BY <1>5, <1>6

\* The file of p, the next of t's bundle, is in place.
LEMMA RenameCoherent ==
    ASSUME Settled, Shape, Placed, Owned, ~overtaken, Fitted, Tracked, Coherent,
           NEW t \in Tasks, Rename(t)
    PROVE  Coherent'
PROOF
  <1> DEFINE k == job[t].key
             b == job[t].bundle
             left == job[t].left
             p == NextRename(left)
             j == [job[t] EXCEPT !.left = @ \ {p}]
             at == IF left \ {p} # {} THEN "rename" ELSE "ok"
  <1>1. CASE DirectoryOf(p) \notin dirs
    <2>1. Goto(t, "err") /\ UNCHANGED <<files, job>> /\ UNCHANGED records
      BY <1>1 DEF Rename
    <2> QED
      BY <2>1, UnsureStep DEF Unsure
  <1>2. CASE DirectoryOf(p) \in dirs
    <2>1. /\ pc[t] = "rename" /\ records' = records /\ files' = [files EXCEPT ![p] = b[p]]
          /\ Set(t, j) /\ Goto(t, at)
      BY <1>2 DEF Rename, AllRenamed, Settled
    <2>2. k \in Path /\ job[t] \in Job /\ files \in Store /\ records \in Store /\ t \in Workers
      BY <2>1 DEF Placed, Shape, Workers
    <2>3. /\ j.key = k /\ j.bundle = b /\ j.left = left \ {p} /\ j.want = job[t].want
          /\ j.seen = job[t].seen
      BY <2>2 DEF Job
    <2>4. Sound("rename", job[t], files, records) /\ k \in left /\ left \subseteq Held(b)
      BY <2>1, <2>2 DEF Coherent, Sound, Installing, Fitted, Fit
    <2>5. p \in left /\ (IsSum(p) \/ \A q \in left : ~IsSum(q))
      <3>1. \E q \in left : IsSum(q) \/ \A r \in left : ~IsSum(r)
        BY <2>4
      <3> QED
        BY <3>1 DEF NextRename
    <2>6. job' = [job EXCEPT ![t] = j] /\ pc' = [pc EXCEPT ![t] = at] /\ pc[t] \in Downloading
      BY <2>1 DEF Set, Goto, Downloading
    <2>7. ASSUME Agree(files', records'), Sound(at, j, files', records'),
                 \A x \in Tasks \ {t} : Sound(pc[x], job[x], files', records')
          PROVE  Coherent'
      <3>1. \A x \in Tasks : pc'[x] = (IF x = t THEN at ELSE pc[x])
                             /\ job'[x] = (IF x = t THEN j ELSE job[x])
        BY <2>6 DEF Shape, Workers
      <3> QED
        BY <2>7, <3>1 DEF Coherent
    <2> HIDE DEF p, j
    <2>8. CASE ~IsSum(k)
      <3>1. PICK v \in Versions : b = Prepared(k, v)
        BY <2>4, <2>8 DEF Sound, Installing
      <3>2. /\ files[k] = NoContent /\ records[k] = b[k]
            /\ SumOf(k) \notin left => files[SumOf(k)] = b[SumOf(k)]
        BY <2>4, <2>8 DEF Sound, Installing
      <3>3. /\ left \subseteq {k, SumOf(k)} /\ b[k] = Fetched(v) /\ b[SumOf(k)] = Computed(v)
            /\ Fetched(v) # NoContent /\ SumOf(k) \in Path /\ IsSum(SumOf(k)) /\ SumOf(k) # k
            /\ Computed(v) # NoContent
        BY <2>2, <2>4, <2>8, <3>1, MainBundle, PathFacts, ConstantsAssumption
      <3>4. CASE SumOf(k) \in left
        <4>1. p = SumOf(k)
          BY <2>5, <2>8, <3>3, <3>4
        <4>2. /\ files'[SumOf(k)] = Computed(v)
              /\ \A q \in Path \ {SumOf(k)} : files'[q] = files[q]
          BY <2>1, <2>2, <3>3, <4>1 DEF Store
        <4>3. Agree(files', records')
          <5>1. \A q \in Path : ~IsSum(q) /\ files'[q] # NoContent =>
                  records'[q] = files'[q] /\ files'[SumOf(q)] = Computed(files'[q].of)
            BY <2>1, <2>2, <2>8, <3>2, <3>3, <4>2, PathFacts DEF Coherent, Agree
          <5>2. \A q \in Path : files'[q] # NoContent => files'[q].by = WrittenBy(q)
            BY <3>3, <4>2 DEF Coherent, Agree, WrittenBy, Computed
          <5> QED
            BY <2>1, <5>1, <5>2 DEF Coherent, Agree
        <4>4. at = "rename" /\ k \in left \ {p}
          BY <2>4, <3>3, <4>1
        <4>5. Sound(at, j, files', records')
          BY <2>1, <2>2, <2>3, <2>8, <3>1, <3>2, <3>3, <4>2, <4>4 DEF Sound, Installing, Hashing
        <4>6. \A x \in Tasks \ {t} : Sound(pc[x], job[x], files', records')
          <5>1. /\ \A q \in Path : ~IsSum(q) /\ q # k =>
                      files'[q] = files[q] /\ records'[q] = records[q]
                /\ \A q \in Path \ {k, SumOf(k)} : files'[q] = files[q]
                /\ \A q \in Path : files[q] # NoContent => files'[q] # NoContent
            BY <2>1, <3>3, <4>2
          <5> QED
            BY <2>6, <2>8, <3>2, <5>1, OthersSound
        <4> QED
          BY <2>7, <4>3, <4>5, <4>6
      <3>5. CASE SumOf(k) \notin left
        <4>1. p = k /\ left \ {p} = {}
          BY <2>4, <2>5, <3>3, <3>5
        <4>2. /\ files'[k] = Fetched(v)
              /\ \A q \in Path \ {k} : files'[q] = files[q]
          BY <2>1, <2>2, <3>3, <4>1 DEF Store
        <4>3. Agree(files', records')
          <5>1. \A q \in Path : ~IsSum(q) /\ files'[q] # NoContent =>
                  records'[q] = files'[q] /\ files'[SumOf(q)] = Computed(files'[q].of)
            <6> SUFFICES ASSUME NEW q \in Path, ~IsSum(q), files'[q] # NoContent
                         PROVE  records'[q] = files'[q] /\ files'[SumOf(q)] = Computed(files'[q].of)
              OBVIOUS
            <6>1. SumOf(q) \in Path /\ IsSum(SumOf(q))
              BY PathFacts
            <6>2. CASE q = k
              BY <2>1, <3>2, <3>3, <3>5, <4>2, <6>2 DEF Fetched
            <6>3. CASE q # k
              BY <2>1, <2>8, <4>2, <6>1, <6>3 DEF Coherent, Agree
            <6> QED
              BY <6>2, <6>3
          <5>2. \A q \in Path : files'[q] # NoContent => files'[q].by = WrittenBy(q)
            BY <2>8, <4>2 DEF Coherent, Agree, WrittenBy, Fetched
          <5> QED
            BY <2>1, <5>1, <5>2 DEF Coherent, Agree
        <4>4. Sound(at, j, files', records')
          <5>1. at = "ok" /\ files'[j.key] # NoContent
            BY <2>3, <3>3, <4>1, <4>2
          <5> QED
            BY <5>1 DEF Sound, Installing, Hashing
        <4>5. \A x \in Tasks \ {t} : Sound(pc[x], job[x], files', records')
          <5>1. /\ \A q \in Path : ~IsSum(q) /\ q # k =>
                      files'[q] = files[q] /\ records'[q] = records[q]
                /\ \A q \in Path \ {k, SumOf(k)} : files'[q] = files[q]
                /\ \A q \in Path : files[q] # NoContent => files'[q] # NoContent
            BY <2>1, <3>2, <4>2
          <5> QED
            BY <2>6, <2>8, <3>2, <5>1, OthersSound
        <4> QED
          BY <2>7, <4>3, <4>4, <4>5
      <3> QED
        BY <3>4, <3>5
    <2>9. CASE IsSum(k)
      <3> DEFINE m == MainOf(k)
      <3>1. files[m] # NoContent /\ b = [EmptyStore EXCEPT ![k] = Computed(files[m].of)]
        BY <2>4, <2>9 DEF Sound, Installing
      <3>2. m \in Path /\ ~IsSum(m) /\ files[m] \in Content /\ SumOf(m) = k
        BY <2>2, <2>9, <3>1, PathFacts DEF Store
      <3>3. Held(b) = {k} /\ b[k] = Computed(files[m].of) /\ Computed(files[m].of) # NoContent
        BY <2>2, <3>1, <3>2, SumBundle, ConstantsAssumption
      <3>4. p = k /\ left \ {p} = {}
        BY <2>4, <2>5, <3>3
      <3> HIDE DEF m
      <3>5. /\ files'[k] = Computed(files[m].of)
            /\ \A q \in Path \ {k} : files'[q] = files[q]
        BY <2>1, <2>2, <3>3, <3>4 DEF Store
      <3>6. Agree(files', records')
        <4>1. \A q \in Path : ~IsSum(q) /\ files'[q] # NoContent =>
                records'[q] = files'[q] /\ files'[SumOf(q)] = Computed(files'[q].of)
          <5> SUFFICES ASSUME NEW q \in Path, ~IsSum(q), files'[q] # NoContent
                       PROVE  records'[q] = files'[q] /\ files'[SumOf(q)] = Computed(files'[q].of)
            OBVIOUS
          <5>1. SumOf(q) \in Path /\ q # k /\ files'[q] = files[q]
            BY <2>9, <3>5, PathFacts
          <5>2. CASE q = m
            BY <2>1, <3>2, <3>5, <5>1, <5>2 DEF Coherent, Agree
          <5>3. CASE q # m
            <6>1. SumOf(q) # k
              BY <3>2, <5>3, PathFacts
            <6> QED
              BY <2>1, <3>5, <5>1, <6>1 DEF Coherent, Agree
          <5> QED
            BY <5>2, <5>3
        <4>2. \A q \in Path : files'[q] # NoContent => files'[q].by = WrittenBy(q)
          BY <2>9, <3>5 DEF Coherent, Agree, WrittenBy, Computed
        <4> QED
          BY <2>1, <4>1, <4>2 DEF Coherent, Agree
      <3>7. Sound(at, j, files', records')
        <4>1. at = "ok" /\ files'[j.key] # NoContent
          BY <2>3, <3>3, <3>4, <3>5
        <4> QED
          BY <4>1 DEF Sound, Installing, Hashing
      <3>8. \A x \in Tasks \ {t} : Sound(pc[x], job[x], files', records')
        <4>1. /\ \A q \in Path : ~IsSum(q) /\ q # k =>
                    files'[q] = files[q] /\ records'[q] = records[q]
              /\ \A q \in Path \ {k} : files'[q] = files[q]
              /\ \A q \in Path : files[q] # NoContent => files'[q] # NoContent
          BY <2>1, <2>9, <3>3, <3>5
        <4> QED
          BY <2>6, <2>9, <3>1, <4>1, OthersSound DEF m
      <3> QED
        BY <2>7, <3>6, <3>7, <3>8
    <2> QED
      BY <2>8, <2>9
  <1> QED
    BY <1>1, <1>2

LEMMA DownloadCoherent ==
    ASSUME Settled, Shape, Placed, Owned, Fitted, Coherent, NEW t \in Tasks, Download(t)
    PROVE  Coherent'
PROOF
  <1> DEFINE k == job[t].key
             w == job[t].want
  <1>1. /\ t \in Workers /\ job[t] \in Job /\ Sound(pc[t], job[t], files, records)
        /\ job = [job EXCEPT ![t] = job[t]]
        /\ pc[t] # "idle" => k \in Path /\ w \in Path
    BY DEF Workers, Shape, Coherent, Placed
  <1>3. CASE GetFlight(t)
    <2> DEFINE j == [job[t] EXCEPT !.seen = records[k]]
    <2>1. j.key = k /\ j.seen = records[k] /\ ~IsSum(k)
      BY <1>1, <1>3 DEF GetFlight, Read, Job, Sound
    <2>2. Sound("stat_flight", j, files, records)
      BY <2>1 DEF Sound, Installing, Hashing
    <2>3. Goto(t, "stat_flight") /\ job' = [job EXCEPT ![t] = j] /\ UNCHANGED <<records, files>>
      BY <1>3 DEF GetFlight, Read, Set
    <2> QED
      BY <2>2, <2>3, SoundStep
  <1>4. CASE StatFlight(t)
    <2> DEFINE j == [job[t] EXCEPT !.seen = NoContent]
               at == IF CachedMeanwhile(t) THEN "ok" ELSE "fetch"
    <2>1. j.key = k /\ ~IsSum(k) /\ job[t].seen = records[k] /\ k \in Path
      BY <1>1, <1>4 DEF StatFlight, Job, Sound
    <2>2. CachedMeanwhile(t) <=> files[k] # NoContent
      BY <2>1 DEF CachedMeanwhile, Positive, Coherent, Agree
    <2>3. Sound(at, j, files, records)
      BY <2>1, <2>2 DEF Sound, Installing, Hashing
    <2>4. Goto(t, at) /\ job' = [job EXCEPT ![t] = j] /\ UNCHANGED <<records, files>>
      BY <1>4 DEF StatFlight, Set
    <2> QED
      BY <2>3, <2>4, SoundStep
  <1>5. CASE GetSum(t)
    <2> DEFINE j == [job[t] EXCEPT !.seen = records[w]]
    <2>1. j.want = w /\ IsSum(w)
      BY <1>1, <1>5 DEF GetSum, Read, Job, Sound, Hashing
    <2>2. Sound("stat_sum", j, files, records)
      BY <2>1 DEF Sound, Installing, Hashing
    <2>3. Goto(t, "stat_sum") /\ job' = [job EXCEPT ![t] = j] /\ UNCHANGED <<records, files>>
      BY <1>5 DEF GetSum, Read, Set
    <2> QED
      BY <2>2, <2>3, SoundStep
  <1>6. CASE StatSum(t)
    <2> DEFINE j == [job[t] EXCEPT !.seen = NoContent]
               at == IF Positive(k, job[t].seen) THEN "ok" ELSE "source_get"
    <2>1. j.want = w /\ j.key = k /\ IsSum(w)
      BY <1>1, <1>6 DEF StatSum, Job, Sound, Hashing
    <2>2. Sound(at, j, files, records)
      BY <2>1 DEF Sound, Installing, Hashing, Positive
    <2>3. Goto(t, at) /\ job' = [job EXCEPT ![t] = j] /\ UNCHANGED <<records, files>>
      BY <1>6 DEF StatSum, Set
    <2> QED
      BY <2>2, <2>3, SoundStep
  <1>7. CASE SourceGet(t)
    <2>1. IsSum(w)
      BY <1>1, <1>7 DEF SourceGet, Sound, Hashing
    <2>2. CASE Goto(t, "err")
      BY <1>7, <2>2, UnsureStep DEF SourceGet, Unsure
    <2>3. CASE Goto(t, "source_hash")
      <3>1. Sound("source_hash", job[t], files, records)
        BY <2>1 DEF Sound, Installing, Hashing
      <3> QED
        BY <1>1, <1>7, <2>3, <3>1, SoundStep DEF SourceGet
    <2> QED
      BY <1>7, <2>2, <2>3 DEF SourceGet
  <1>8. CASE SourceHash(t)
    <2> DEFINE source == files[MainOf(w)]
               b == [EmptyStore EXCEPT ![w] = Computed(source.of)]
               j == [job[t] EXCEPT !.bundle = b, !.left = {w}]
    <2>1. w \in Path /\ IsSum(w) /\ k = w /\ pc[t] = "source_hash"
      BY <1>1, <1>8 DEF SourceHash, Sound, Hashing, Fitted, Fit
    <2>2. CASE source = NoContent
      BY <1>8, <2>2, UnsureStep DEF SourceHash, Unsure
    <2>3. CASE source # NoContent
      <3>1. source \in Content
        BY <2>1, <2>3, PathFacts DEF Shape, Store
      <3>2. Held(b) = {w}
        BY <2>1, <3>1, SumBundle
      <3>3. j.key = w /\ j.left = {w} /\ j.bundle = b
        BY <1>1, <2>1 DEF Job
      <3> HIDE DEF j
      <3>4. Sound("mkdir", j, files, records)
        BY <2>1, <2>3, <3>2, <3>3 DEF Sound, Installing, Hashing
      <3>5. Goto(t, "mkdir") /\ job' = [job EXCEPT ![t] = j] /\ UNCHANGED <<records, files>>
        BY <1>8, <2>3 DEF SourceHash, Set, j
      <3> QED
        BY <3>4, <3>5, SoundStep
    <2> QED
      BY <2>2, <2>3
  <1> QED
    BY <1>3, <1>4, <1>5, <1>6, <1>7, <1>8 DEF Download

\* Where a task is after a flight: at the error, or at a file that is there.
LEMMA LeaveCoherent ==
    ASSUME Shape, Placed, Owned, Coherent, Arrived, NEW t \in Tasks,
           pc[t] \in {"wait", "take", "remove"}, Leave(t)
    PROVE  Coherent'
PROOF
  <1> DEFINE k == job[t].key
             w == job[t].want
             outcome == cells[k][job[t].cell]
             at == After(t, k, outcome)
             j == IF at = "idle" THEN NoJob
                  ELSE [NoJob EXCEPT !.want = w, !.key = w, !.cell = job[t].outer]
  <1>1. /\ k \in Path /\ w \in Path /\ job[t].cell \in Cells
        /\ k # w => IsSum(w)
    BY DEF Placed, Workers, Owned, OwnedBy, Owner
  <1>2. Goto(t, at) /\ job' = [job EXCEPT ![t] = j] /\ UNCHANGED <<records, files>>
    BY DEF Leave, Set
  <1>3. Sound(at, j, files, records)
    <2>1. CASE at \in Unsure
      BY <2>1, UnsureSound
    <2>2. CASE at \notin Unsure
      <3>1. outcome = "ok" /\ at = IF w = k THEN "get_final" ELSE "get_sum"
        BY <2>2 DEF After, Unsure
      <3>2. files[k] # NoContent
        BY <1>1, <3>1 DEF Arrived
      <3>3. j.want = w
        BY <3>1 DEF NoJob
      <3> HIDE DEF j, at
      <3> QED
        BY <1>1, <3>1, <3>2, <3>3 DEF Sound, Installing, Hashing
    <2> QED
      BY <2>1, <2>2
  <1> HIDE DEF j, at
  <1> QED
    BY <1>2, <1>3, SoundStep

LEMMA FlyCoherent ==
    ASSUME Shape, Placed, Owned, Coherent, Arrived, NEW t \in Tasks, Fly(t)
    PROVE  Coherent'
PROOF
  <1>1. CASE Leave(t) /\ (Take(t) \/ Remove(t))
    BY <1>1, LeaveCoherent DEF Take, Remove
  <1>2. CASE Initialise(t) /\ ~IsSum(job[t].key)
    <2>1. Sound("get_flight", job[t], files, records)
      BY <1>2 DEF Sound, Installing, Hashing
    <2>2. job' = [job EXCEPT ![t] = job[t]]
      BY <1>2 DEF Initialise, Shape
    <2> QED
      BY <1>2, <2>1, <2>2, SoundStep DEF Initialise
  <1>3. CASE Initialise(t) /\ IsSum(job[t].key)
    BY <1>3, UnsureStep DEF Initialise, Unsure
  <1>4. CASE Enter(t) \/ Complete(t)
    BY <1>4, UnsureStep DEF Enter, Complete, Unsure
  <1>5. CASE Take(t) /\ ~Leave(t)
    BY <1>5, UnsureStep DEF Take, Unsure
  <1> QED
    BY <1>1, <1>2, <1>3, <1>4, <1>5 DEF Fly, Remove

LEMMA CoherentSteps ==
    ASSUME Settled, Shape, Placed, Owned, ~overtaken, Fitted, Tracked, late = {}, Coherent, Arrived,
           [Next]_vars
    PROVE  Coherent'
PROOF
  <1>1. \A w \in Workers : w \in Tasks
    BY DEF Settled, Workers
  <1>2. ASSUME NEW t \in Tasks
        PROVE  /\ t \in Workers /\ job[t] \in Job /\ Sound(pc[t], job[t], files, records)
               /\ job = [job EXCEPT ![t] = job[t]]
               /\ pc[t] # "idle" => job[t].key \in Path /\ job[t].want \in Path
    BY DEF Workers, Shape, Coherent, Placed
  <1>3. ASSUME NEW t \in Tasks, NEW p \in Path, Begin(t, p)
        PROVE  Coherent'
    BY <1>3, UnsureStep DEF Begin, Unsure
  <1>4. ASSUME NEW t \in Tasks, Serve(t)
        PROVE  Coherent'
    <2> DEFINE w == job[t].want
    <2>1. CASE GetFinal(t)
      <3> DEFINE j == [job[t] EXCEPT !.seen = records[w]]
      <3>1. /\ j.want = w /\ j.seen = records[w] /\ w \in Path /\ files[w] # NoContent
            /\ Goto(t, "stat_final") /\ job' = [job EXCEPT ![t] = j]
            /\ UNCHANGED <<records, files>>
        BY <1>2, <2>1 DEF GetFinal, Read, Set, Job, Sound
      <3>2. records[w] # NoContent /\ records[w].by = WrittenBy(w)
        BY <3>1 DEF Coherent, Agree, Tracked, NoUntrackedFiles, Held
      <3>3. ~IsSum(w) => records[w] = files[w]
        BY <3>1 DEF Coherent, Agree
      <3> HIDE DEF j
      <3>4. Sound("stat_final", j, files, records)
        BY <3>1, <3>2, <3>3 DEF Sound, Installing, Hashing
      <3> QED
        BY <3>1, <3>4, SoundStep
    <2>2. CASE ~GetFinal(t)
      <3>1. Refreshers = {}
        BY DEF Settled
      <3>2. /\ \E at \in {"hit", "join", "open", "guard", "idle", "stream"} : Goto(t, at)
            /\ UNCHANGED job \/ \E j : Set(t, j)
            /\ UNCHANGED <<records, files>>
        BY <1>4, <2>2, <3>1 DEF Serve, StatFirst, Hit, StatFinal, Guard, Open, Stop
      <3> QED
        BY <3>2, UnsureStep DEF Unsure
    <2> QED
      BY <2>1, <2>2
  <1>5. ASSUME NEW t \in Tasks, Download(t) \/ Fly(t)
        PROVE  Coherent'
    BY <1>5, DownloadCoherent, FlyCoherent
  <1>6. ASSUME NEW t \in Tasks, Fetch(t)
        PROVE  Coherent'
    <2> DEFINE k == job[t].key
    <2>1. /\ pc[t] = "fetch" /\ k \in Path /\ ~IsSum(k) /\ files[k] = NoContent
          /\ UNCHANGED <<records, files>>
      BY <1>2, <1>6 DEF Fetch, Sound
    <2>2. CASE Goto(t, "err") /\ UNCHANGED job
      BY <2>1, <2>2, UnsureStep DEF Unsure
    <2>3. ASSUME NEW v \in Versions, Goto(t, "mkdir"),
                 Set(t, [job[t] EXCEPT !.bundle = Prepared(k, v), !.left = Held(Prepared(k, v))])
          PROVE  Coherent'
      <3> DEFINE j == [job[t] EXCEPT !.bundle = Prepared(k, v), !.left = Held(Prepared(k, v))]
      <3>1. j.key = k /\ j.bundle = Prepared(k, v) /\ j.left = Held(Prepared(k, v))
        BY <1>2 DEF Job
      <3>2. k \in Held(Prepared(k, v))
        BY <2>1, PreparedHolds
      <3>3. job' = [job EXCEPT ![t] = j]
        BY <2>3 DEF Set
      <3> HIDE DEF j
      <3>4. Sound("mkdir", j, files, records)
        BY <2>1, <3>1, <3>2 DEF Sound, Installing, Hashing
      <3> QED
        BY <2>1, <2>3, <3>3, <3>4, SoundStep
    <2> QED
      BY <1>6, <2>2, <2>3 DEF Fetch
  <1>7. ASSUME NEW t \in Tasks, Mkdir(t)
        PROVE  Coherent'
    <2>1. Sound("upsert", job[t], files, records)
      BY <1>2, <1>7 DEF Mkdir, Sound, Installing, Hashing
    <2> QED
      BY <1>2, <1>7, <2>1, SoundStep DEF Mkdir
  <1>8. ASSUME NEW t \in Tasks, Upsert(t) \/ Rename(t)
        PROVE  Coherent'
    BY <1>8, UpsertCoherent, RenameCoherent
  <1>9. ASSUME NEW t \in Tasks
        PROVE  ~Enforce(t)
    BY <1>2 DEF Enforce, Stats, Candidates, Evict, Unlink, Delete, Tracked, Evicting
  <1>10. ASSUME NEW t \in Tasks, Finish(t) \/ Cancel(t)
         PROVE  Coherent'
    BY <1>10, UnsureStep DEF Finish, Cancel, Stop, Unsure
  <1>11. CASE Crash
    <2>1. \A t \in Tasks : Sound(pc'[t], job'[t], files', records')
      BY <1>11, UnsureSound DEF Crash, Workers, Unsure
    <2> QED
      BY <1>11, <2>1 DEF Crash, Coherent
  <1>12. CASE UNCHANGED vars
    BY <1>12 DEF vars, Coherent
  <1>13. ~\E p \in Refreshers : RefreshStep(p)
    BY DEF Settled
  <1> QED
    BY <1>3, <1>4, <1>5, <1>6, <1>7, <1>8, <1>9, <1>10, <1>11, <1>12, <1>13
       DEF Next, TaskStep, Install

LEMMA ArrivedSteps ==
    ASSUME Settled, Shape, Placed, Owned, Fitted, Tracked, Coherent, Arrived, [Next]_vars
    PROVE  Arrived'
PROOF
  <1>1. \A p \in Path : files[p] # NoContent => files'[p] # NoContent
    BY FilesStay DEF Settled
  <1>2. ASSUME \A p \in Path, c \in Cells : cells'[p][c] = "ok" => cells[p][c] = "ok"
        PROVE  Arrived'
    BY <1>1, <1>2 DEF Arrived
  <1>3. Vacant # "ok" /\ \A t \in Tasks : t # "ok"
    BY ConstantsAssumption DEF Outcomes
  <1>4. ASSUME NEW registry, NEW jobs,
               cells' = Reclaimed(cells, registry, jobs)
        PROVE  Arrived'
    BY <1>2, <1>3, <1>4 DEF Reclaimed
  <1>5. ASSUME NEW t \in Tasks, Fly(t)
        PROVE  Arrived'
    <2>1. CASE Enter(t)
      BY <1>2, <2>1 DEF Enter
    <2>2. CASE Initialise(t)
      BY <1>2, <1>3, <2>2 DEF Initialise, Shape, CellTable
    <2>3. CASE Complete(t)
      <3> DEFINE k == job[t].key
                 x == job[t].cell
      <3>1. k \in Path /\ x \in Cells
        BY <2>3 DEF Complete, Placed, Workers, Owned, OwnedBy, Owner, Downloading, Outcomes
      <3>2. pc[t] = "ok" => files[k] # NoContent
        BY DEF Coherent, Sound
      <3>3. \A p \in Path, c \in Cells :
              cells'[p][c] = IF p = k /\ c = x THEN pc[t] ELSE cells[p][c]
        BY <2>3, <3>1 DEF Complete, Shape, CellTable
      <3> QED
        BY <1>1, <3>1, <3>2, <3>3 DEF Arrived
    <2>4. CASE Leave(t)
      BY <1>4, <2>4 DEF Leave
    <2>5. CASE Take(t) /\ ~Leave(t)
      BY <1>2, <2>5 DEF Take
    <2> QED
      BY <1>5, <2>1, <2>2, <2>3, <2>4, <2>5 DEF Fly, Remove
  <1>6. ASSUME NEW t \in Tasks, Cancel(t)
        PROVE  Arrived'
    <2>1. \A p \in Path, c \in Cells : cells'[p][c] = "ok" => cells[p][c] = "ok"
      BY <1>3, <1>6 DEF Cancel, Reclaimed, Abandon
    <2> QED
      BY <1>2, <2>1
  <1>7. ASSUME NEW t \in Tasks,
               Serve(t) \/ Download(t) \/ Finish(t) \/ \E p \in Path : Begin(t, p)
        PROVE  Arrived'
    <2>1. cells' = cells
      BY <1>7 DEF Serve, Download, Finish, Begin, StatFirst, Hit, GetFinal, StatFinal, Guard, Open,
                  Read, GetFlight, StatFlight, GetSum, StatSum, SourceGet, SourceHash
    <2> QED
      BY <1>2, <2>1
  <1>8. ASSUME NEW w, Fetch(w) \/ Install(w) \/ Enforce(w) \/ EndRefresh(w)
        PROVE  Arrived'
    <2>1. cells' = cells
      BY <1>8 DEF Fetch, Install, Enforce, EndRefresh, Mkdir, Upsert, Rename, Stats, Candidates,
                  Evict, Unlink, Delete
    <2> QED
      BY <1>2, <2>1
  <1>9. ASSUME NEW c, Land(c)
        PROVE  Arrived'
    BY <1>2, <1>9 DEF Land
  <1>10. CASE Crash
    BY <1>2, <1>3, <1>10 DEF Crash
  <1>11. CASE UNCHANGED vars
    BY <1>2, <1>11 DEF vars
  <1> QED
    BY <1>5, <1>6, <1>7, <1>8, <1>9, <1>10, <1>11 DEF Next, TaskStep, RefreshStep

\* A flight that was registered under another's removal stays noted.
LEMMA OvertakenStays ==
    ASSUME [Next]_vars, ~overtaken'
    PROVE  ~overtaken
PROOF
  <1>1. ASSUME NEW t \in Tasks,
               \/ Serve(t) \/ Fly(t) \/ Download(t) \/ Finish(t) \/ Cancel(t)
               \/ \E p \in Path : Begin(t, p)
        PROVE  ~overtaken
    BY <1>1 DEF Serve, Download, Finish, Cancel, Begin, StatFirst, Hit, GetFinal, StatFinal, Guard,
                Open, Read, GetFlight, StatFlight, GetSum, StatSum, SourceGet, SourceHash,
                Fly, Enter, Initialise, Complete, Take, Remove, Leave
  <1>2. ASSUME NEW w, Fetch(w) \/ Install(w) \/ Enforce(w) \/ EndRefresh(w)
        PROVE  ~overtaken
    BY <1>2 DEF Fetch, Install, Enforce, EndRefresh, Mkdir, Upsert, Rename, Stats, Candidates,
                Evict, Unlink, Delete
  <1>3. ASSUME NEW c, Land(c)
        PROVE  ~overtaken
    BY <1>3 DEF Land
  <1>4. CASE Crash \/ UNCHANGED vars
    BY <1>4 DEF Crash, vars
  <1> QED
    BY <1>1, <1>2, <1>3, <1>4 DEF Next, TaskStep, RefreshStep

\* All of the invariants of a cache that only downloads.
SettledInv ==
    /\ Shape /\ Placed /\ Owned /\ Fitted /\ Tracked /\ Located /\ late = {}
    /\ ~overtaken => Coherent /\ Arrived

LEMMA SettledAlways == Settled => (Spec => []SettledInv)
PROOF
  <1>1. ASSUME Settled
        PROVE  Spec => []SettledInv
    <2> DEFINE Rest == /\ Fitted /\ Tracked /\ Located /\ late = {}
                       /\ ~overtaken => Coherent /\ Arrived
    <2>1. MaxSize = Unlimited /\ MaxLate = 0
      BY <1>1 DEF Settled
    <2>2. Init => Rest
      <3>1. Init => Fitted /\ Tracked
        BY DEF Init, Fitted, Fit, NoJob, Bundling, Tracked, NoUntrackedFiles, Held, EmptyStore,
               Evicting
      <3>2. Init => Located
        BY DEF Init, Located, Workers
      <3>3. Init => Coherent
        BY UnsureSound DEF Init, Coherent, Agree, EmptyStore, Workers, Unsure
      <3>4. Init => Arrived
        BY ConstantsAssumption DEF Init, Arrived, Outcomes
      <3> QED
        BY <3>1, <3>2, <3>3, <3>4 DEF Init
    <2>3. Shape /\ Placed /\ Owned /\ Rest /\ [Next]_vars => Rest'
      BY <1>1, <2>1, FittedSteps, TrackedSteps, LocatedSteps, NoneLate, CoherentSteps, ArrivedSteps,
         OvertakenStays
    <2>4. SettledInv <=> Shape /\ Placed /\ Owned /\ Rest
      BY DEF SettledInv
    <2> HIDE DEF Rest
    <2> QED
      BY <2>2, <2>3, <2>4, Typed, PTL DEF Spec
  <1> QED
    BY <1>1

\* While nothing is refreshed or evicted, a checksum that would be served is the
\* hash of the main file that would be (ChecksumOfStoredBytes of ArtifactCache;
\* README "always computed from the bytes actually stored"), for any number of
\* clients, departures and kills: a regeneration never races the install of the
\* file it hashes.
THEOREM ChecksumsAgree == Settled => (Spec => []ChecksumOfStoredBytes)
PROOF
  <1>1. SettledInv => ChecksumOfStoredBytes
    <2> SUFFICES ASSUME Shape, Agree(files, records), NEW m \in Mains,
                        Positive(<<m, "main">>, records[<<m, "main">>])
                 PROVE  files[<<m, "sum">>] = Computed(files[<<m, "main">>].of)
      BY DEF SettledInv, Coherent, ChecksumOfStoredBytes
    <2>1. /\ <<m, "main">> \in Path /\ ~IsSum(<<m, "main">>)
          /\ SumOf(<<m, "main">>) = <<m, "sum">>
      BY DEF Path, Kinds, IsSum, SumOf
    <2> QED
      BY <2>1 DEF Agree, Positive
  <1> QED
    BY <1>1, SettledAlways, PTL

\* Nor does a client whose download succeeded meet "download completed without a
\* cache record" or "cached file disappeared" then (InstalledIsServed of
\* ArtifactCache; serve.rs:82, server.rs:449).
THEOREM InstalledServed == Settled => (Spec => []InstalledIsServed)
PROOF
  <1>1. SettledInv => InstalledIsServed
    <2> SUFFICES ASSUME SettledInv, ~overtaken, NEW t \in Tasks
                 PROVE  /\ pc[t] = "stat_final" => Positive(job[t].want, job[t].seen)
                        /\ pc[t] = "open" => files[job[t].want] # NoContent
      BY DEF InstalledIsServed
    <2> DEFINE w == job[t].want
               seen == job[t].seen
    <2>1. ASSUME pc[t] = "stat_final"
          PROVE  Positive(w, seen)
      <3>1. w \in Path
        BY <2>1 DEF SettledInv, Placed, Workers
      <3>2. /\ seen # NoContent /\ seen.by = WrittenBy(w) /\ files[w] # NoContent
            /\ ~IsSum(w) => seen = files[w]
        BY <2>1 DEF SettledInv, Coherent, Sound
      <3>3. files[w].by = WrittenBy(w)
        BY <3>1, <3>2 DEF SettledInv, Coherent, Agree
      <3>4. Size(w, files[w]) = Size(w, seen)
        BY <3>2, <3>3 DEF Size, WrittenBy
      <3> QED
        BY <3>2, <3>4 DEF Positive
    <2>2. pc[t] = "open" => files[w] # NoContent
      BY DEF SettledInv, Located
    <2> QED
      BY <2>1, <2>2
  <1> QED
    BY <1>1, SettledAlways, PTL

-----------------------------------------------------------------------------
(* A body and its headers                                                   *)

\* The length of a main file tells its version.
Distinct == \A v, u \in Versions : SizeOf[v] = SizeOf[u] => v = u

\* A record that was read says who wrote its file; whoever is about to open a
\* main file holds the record of what lies there.
Matched ==
    \A t \in Tasks :
        /\ pc[t] = "stat_first" /\ job[t].seen # NoContent => job[t].seen.by = WrittenBy(job[t].want)
        /\ pc[t] \in {"hit", "guard", "open"} /\ ~IsSum(job[t].want) =>
              job[t].seen = files[job[t].want]

\* Nothing but a rename changes the files.
LEMMA FilesKept ==
    ASSUME Settled, SettledInv, [Next]_vars, ~\E t \in Tasks : Rename(t)
    PROVE  files' = files
PROOF
  <1> USE DEF SettledInv
  <1>1. ASSUME NEW t \in Tasks
        PROVE  ~Enforce(t)
    BY <1>1 DEF Enforce, Stats, Candidates, Evict, Unlink, Delete, Tracked, Evicting, Workers
  <1>2. ASSUME NEW t \in Tasks,
               \/ Serve(t) \/ Fly(t) \/ Download(t) \/ Finish(t) \/ Cancel(t)
               \/ \E p \in Path : Begin(t, p)
        PROVE  files' = files
    BY <1>2, FlyMoves
       DEF Serve, Download, Finish, Cancel, Begin, StatFirst, Hit, GetFinal, StatFinal,
           Guard, Open, Read, GetFlight, StatFlight, GetSum, StatSum, SourceGet, SourceHash
  <1>3. ASSUME NEW t \in Tasks, Fetch(t) \/ Mkdir(t) \/ Upsert(t)
        PROVE  files' = files
    BY <1>3 DEF Fetch, Mkdir, Upsert
  <1>4. CASE Crash \/ UNCHANGED vars
    BY <1>4 DEF Crash, vars
  <1> QED
    BY <1>1, <1>2, <1>3, <1>4 DEF Next, TaskStep, Install, Settled

\* A main file is installed only where there is none.
LEMMA MainFilesStay ==
    ASSUME Settled, SettledInv, ~overtaken, [Next]_vars
    PROVE  \A q \in Path : ~IsSum(q) /\ files[q] # NoContent => files'[q] = files[q]
PROOF
  <1> USE DEF SettledInv
  <1>1. \A w \in Workers : w \in Tasks
    BY DEF Settled, Workers
  <1>2. ASSUME NEW t \in Tasks, Rename(t)
        PROVE  \A q \in Path : ~IsSum(q) /\ files[q] # NoContent => files'[q] = files[q]
    <2> DEFINE left == job[t].left
               p == NextRename(left)
    <2>1. t \in Workers /\ pc[t] = "rename" /\ left \subseteq Held(job[t].bundle) /\ left # {}
      BY <1>2 DEF Rename, Fitted, Fit, Workers
    <2>2. p \in left
      <3>1. \E q \in left : IsSum(q) \/ \A r \in left : ~IsSum(r)
        BY <2>1
      <3> QED
        BY <3>1 DEF NextRename
    <2>3. ~IsSum(p) => files[p] = NoContent
      <3>1. ~IsSum(p) => p = job[t].key
        BY <2>1, <2>2 DEF Fitted, Fit, Bundling
      <3>2. Sound("rename", job[t], files, records)
        BY <2>1 DEF Coherent
      <3> QED
        BY <3>1, <3>2 DEF Sound, Installing
    <2>4. files' = files \/ files' = [files EXCEPT ![p] = job[t].bundle[p]]
      BY <1>2 DEF Rename
    <2> HIDE DEF p
    <2> QED
      BY <2>3, <2>4 DEF Shape, Store
  <1>3. ASSUME ~\E t \in Tasks : Rename(t)
        PROVE  files' = files
    BY <1>3, FilesKept
  <1> QED
    BY <1>2, <1>3

\* A main file of the size its record gives is the file of that record.
LEMMA PositiveMain ==
    ASSUME Distinct, Agree(files, records), Shape, NEW p \in Path, ~IsSum(p),
           NEW c \in Content, c.by = "upstream", Positive(p, c)
    PROVE  c = files[p]
PROOF
  <1>1. files[p] \in Content /\ files[p].by = "upstream"
    BY DEF Positive, Shape, Store, Agree, WrittenBy
  <1>2. files[p].of = c.of
    BY <1>1 DEF Positive, Size, Distinct, Content
  <1> QED
    BY <1>1, <1>2 DEF Content

LEMMA MatchedSteps ==
    ASSUME Settled, Distinct, SettledInv, ~overtaken, Matched, [Next]_vars
    PROVE  Matched'
PROOF
  <1> USE DEF SettledInv
  <1> DEFINE Sure == {"hit", "guard", "open"}
             stays(t) ==
                \/ pc'[t] \notin Sure \cup {"stat_first"}
                \/ pc'[t] = pc[t] /\ job'[t] = job[t]
                \/ pc'[t] \in Sure /\ pc[t] \in Sure /\ job'[t] = job[t]
                \/ /\ pc'[t] \in Sure /\ pc[t] \in {"stat_first", "stat_final"}
                   /\ job'[t] = job[t] /\ files[job[t].want] # NoContent
                   /\ ~IsSum(job[t].want) => job[t].seen = files[job[t].want]
                \/ /\ pc'[t] = "stat_first"
                   /\ job'[t].seen # NoContent => job'[t].seen.by = WrittenBy(job'[t].want)
  <1>1. \A q \in Path : ~IsSum(q) /\ files[q] # NoContent => files'[q] = files[q]
    BY MainFilesStay
  <1>2. ASSUME \A t \in Tasks : stays(t)
        PROVE  Matched'
    <2>1. ASSUME NEW t \in Tasks, pc'[t] = "stat_first", job'[t].seen # NoContent
          PROVE  job'[t].seen.by = WrittenBy(job'[t].want)
      BY <1>2, <2>1 DEF Matched
    <2>2. ASSUME NEW t \in Tasks, pc'[t] \in Sure, ~IsSum(job'[t].want)
          PROVE  job'[t].seen = files'[job'[t].want]
      <3>1. /\ job'[t] = job[t] /\ pc[t] # "idle" /\ files[job[t].want] # NoContent
            /\ job[t].seen = files[job[t].want]
        BY <1>2, <2>2 DEF Matched, Located
      <3>2. job[t].want \in Path
        BY <3>1 DEF Placed, Workers
      <3> QED
        BY <1>1, <2>2, <3>1, <3>2
    <2> QED
      BY <2>1, <2>2 DEF Matched
  <1>3. ASSUME NEW t \in Tasks, NEW at, at \notin Sure \cup {"stat_first"}, Goto(t, at),
               UNCHANGED job \/ \E j : Set(t, j)
        PROVE  Matched'
    <2>1. \A x \in Tasks : stays(x)
      BY <1>3 DEF Goto, Set, Shape, Workers
    <2> QED
      BY <1>2, <2>1
  <1>4. ASSUME NEW t \in Tasks, NEW p \in Path, Begin(t, p)
        PROVE  Matched'
    <2> DEFINE j == [NoJob EXCEPT !.want = p, !.key = p, !.seen = records[p]]
    <2>1. j.want = p /\ j.seen = records[p]
      BY DEF NoJob
    <2>2. \A x \in Tasks : /\ pc'[x] = IF x = t THEN "stat_first" ELSE pc[x]
                           /\ job'[x] = IF x = t THEN j ELSE job[x]
      BY <1>4 DEF Begin, Goto, Set, Shape, Workers
    <2>3. j.seen # NoContent => j.seen.by = WrittenBy(j.want)
      BY <2>1 DEF Coherent, Agree
    <2> HIDE DEF j
    <2>4. \A x \in Tasks : stays(x)
      BY <2>2, <2>3
    <2> QED
      BY <1>2, <2>4
  <1>5. ASSUME NEW t \in Tasks, Serve(t)
        PROVE  Matched'
    <2> DEFINE w == job[t].want
               seen == job[t].seen
    <2>1. t \in Workers /\ (pc[t] # "idle" => w \in Path) /\ seen \in Content \cup {NoContent}
      BY DEF Workers, Placed, Shape, Job
    <2>2. ASSUME NEW at \in Sure, Goto(t, at), UNCHANGED job,
                 pc[t] \in {"stat_first", "stat_final"}, Positive(w, seen)
          PROVE  Matched'
      <3>1. files[w] # NoContent /\ seen # NoContent
        BY <2>2 DEF Positive
      <3>2. ~IsSum(w) => seen.by = "upstream"
        <4>1. pc[t] = "stat_final" => seen.by = WrittenBy(w)
          BY DEF Coherent, Sound
        <4> QED
          BY <2>2, <3>1, <4>1 DEF Matched, WrittenBy
      <3>3. ~IsSum(w) => seen = files[w]
        BY <2>1, <2>2, <3>1, <3>2, PositiveMain DEF Coherent
      <3>4. \A x \in Tasks : stays(x)
        BY <2>2, <3>1, <3>3 DEF Goto, Shape, Workers
      <3> QED
        BY <1>2, <3>4
    <2>3. CASE StatFirst(t)
      <3>1. CASE Positive(w, seen)
        BY <2>2, <2>3, <3>1 DEF StatFirst
      <3>2. CASE ~Positive(w, seen)
        BY <1>3, <2>3, <3>2 DEF StatFirst
      <3> QED
        BY <3>1, <3>2
    <2>4. CASE StatFinal(t)
      <3>1. CASE Positive(w, seen)
        BY <2>2, <2>4, <3>1 DEF StatFinal
      <3>2. CASE ~Positive(w, seen)
        BY <1>3, <2>4, <3>2 DEF StatFinal, Stop
      <3> QED
        BY <3>1, <3>2
    <2>5. CASE Hit(t) \/ Guard(t)
      <3>1. pc[t] \in Sure /\ Goto(t, "open") /\ UNCHANGED job
        BY <2>5 DEF Hit, Guard, Settled
      <3>2. \A x \in Tasks : stays(x)
        BY <3>1 DEF Goto, Shape, Workers
      <3> QED
        BY <1>2, <3>2
    <2>6. CASE GetFinal(t) \/ Open(t)
      <3>1. (\E at \in {"stat_final", "idle", "stream"} : Goto(t, at)) /\ \E j : Set(t, j)
        BY <2>6 DEF GetFinal, Open, Read, Stop
      <3> QED
        BY <1>3, <3>1
    <2> QED
      BY <1>5, <2>3, <2>4, <2>5, <2>6 DEF Serve
  <1>6. ASSUME NEW t \in Tasks, Fly(t) \/ Download(t)
        PROVE  Matched'
    <2> DEFINE ats == {"stat_flight", "fetch", "stat_sum", "source_get", "source_hash", "mkdir",
                       "ok", "err"}
    <2>1. CASE Fly(t)
      BY <1>3, <2>1, FlyMoves
    <2>2. CASE Download(t)
      <3>1. (\E at \in ats : Goto(t, at)) /\ (UNCHANGED job \/ \E j : Set(t, j))
        BY <2>2 DEF Download, GetFlight, StatFlight, GetSum, StatSum, SourceGet, SourceHash, Read
      <3> QED
        BY <1>3, <3>1
    <2> QED
      BY <1>6, <2>1, <2>2
  <1>7. ASSUME NEW t \in Tasks, Fetch(t) \/ Install(t) \/ Finish(t) \/ Cancel(t)
        PROVE  Matched'
    <2>1. /\ \E at \in {"mkdir", "upsert", "rename", "stats", "ok", "err", "idle"} : Goto(t, at)
          /\ UNCHANGED job \/ \E j : Set(t, j)
      BY <1>7 DEF Fetch, Install, Mkdir, Upsert, Rename, Finish, Cancel, Stop
    <2> QED
      BY <1>3, <2>1
  <1>8. ASSUME NEW t \in Tasks
        PROVE  ~Enforce(t)
    BY DEF Enforce, Stats, Candidates, Evict, Unlink, Delete, Tracked, Evicting, Workers
  <1>9. CASE Crash
    <2>1. \A t \in Tasks : stays(t)
      BY <1>9 DEF Crash, Workers
    <2> QED
      BY <1>2, <2>1
  <1>10. CASE UNCHANGED vars
    BY <1>10 DEF vars, Matched
  <1> QED
    BY <1>4, <1>5, <1>6, <1>7, <1>8, <1>9, <1>10 DEF Next, TaskStep, Settled

\* While nothing is refreshed or evicted, a main file goes out under the record
\* of its own bytes, and so under their ETag and Content-Length
\* (MainBodyMatchesRecord of ArtifactCache; server.rs:366), whatever installs of it
\* were cut short before; granted that versions of one path differ in length,
\* which is all that positive_cache compares.
THEOREM MainBodiesMatch == Settled /\ Distinct => (Spec => MainBodyMatchesRecord)
PROOF
  <1>1. ASSUME Settled, Distinct
        PROVE  Spec => MainBodyMatchesRecord
    <2> DEFINE Inv == ~overtaken => Matched
    <2>1. Init => Inv
      BY DEF Init, Matched, Workers
    <2>2. SettledInv /\ Inv /\ [Next]_vars => Inv'
      BY <1>1, MatchedSteps, OvertakenStays
    <2>3. Inv =>
            [\A t \in Tasks : Opens(t) /\ ~IsSum(job[t].want) /\ ~overtaken
                                => files[job[t].want] = job[t].seen]_vars
      BY DEF Matched, Opens
    <2>4. Spec => []SettledInv
      BY <1>1, SettledAlways
    <2> QED
      BY <2>1, <2>2, <2>3, <2>4, PTL DEF Spec, MainBodyMatchesRecord
  <1> QED
    BY <1>1

-----------------------------------------------------------------------------
(* The cache is a library                                                   *)

\* What a rename puts in place: the checksum of the version that is there or of
\* none, or a main file where there is none and after its checksum.
LEMMA Renamed ==
    ASSUME Settled, SettledInv, ~overtaken, NEW t \in Tasks, Rename(t)
    PROVE  \/ files' = files
           \/ \E m \in Mains, v \in Versions :
                 /\ VersionIn(<<m, "main">>) \in {NoContent, v}
                 /\ files' = [files EXCEPT ![<<m, "sum">>] = Computed(v)]
           \/ \E m \in Mains, v \in Versions :
                 /\ files[<<m, "main">>] = NoContent
                 /\ files[<<m, "sum">>] = Computed(v)
                 /\ files' = [files EXCEPT ![<<m, "main">>] = Fetched(v)]
PROOF
  <1> USE DEF SettledInv
  <1> DEFINE k == job[t].key
             b == job[t].bundle
             left == job[t].left
             p == NextRename(left)
  <1>1. /\ pc[t] = "rename"
        /\ files' = files \/ files' = [files EXCEPT ![p] = b[p]]
    BY DEF Rename
  <1>2. k \in Path /\ job[t] \in Job /\ files \in Store /\ t \in Workers
    BY <1>1 DEF Placed, Shape, Workers
  <1>3. Sound("rename", job[t], files, records) /\ k \in left /\ left \subseteq Held(b)
    BY <1>1, <1>2 DEF Coherent, Sound, Installing, Fitted, Fit
  <1>4. p \in left /\ (IsSum(p) \/ \A q \in left : ~IsSum(q))
    <2>1. \E q \in left : IsSum(q) \/ \A r \in left : ~IsSum(r)
      BY <1>3
    <2> QED
      BY <2>1 DEF NextRename
  <1> HIDE DEF p
  <1>5. CASE ~IsSum(k)
    <2>1. PICK v \in Versions : b = Prepared(k, v)
      BY <1>3, <1>5 DEF Sound, Installing
    <2>2. /\ files[k] = NoContent
          /\ SumOf(k) \notin left => files[SumOf(k)] = b[SumOf(k)]
      BY <1>3, <1>5 DEF Sound, Installing
    <2>3. /\ left \subseteq {k, SumOf(k)}
          /\ b[k] = Fetched(v) /\ b[SumOf(k)] = Computed(v) /\ IsSum(SumOf(k))
      BY <1>2, <1>3, <1>5, <2>1, MainBundle, PathFacts
    <2>4. PICK m \in Mains : k = <<m, "main">> /\ SumOf(k) = <<m, "sum">>
      BY <1>2, <1>5 DEF Path, Kinds, IsSum, SumOf
    <2>5. CASE p = SumOf(k)
      BY <1>1, <2>2, <2>3, <2>4, <2>5 DEF VersionIn
    <2>6. CASE p = k
      <3>1. SumOf(k) \notin left
        BY <1>4, <1>5, <2>3, <2>6
      <3> QED
        BY <1>1, <2>2, <2>3, <2>4, <2>6, <3>1
    <2> QED
      BY <1>4, <2>3, <2>5, <2>6
  <1>6. CASE IsSum(k)
    <2> DEFINE main == MainOf(k)
    <2>1. files[main] # NoContent /\ b = [EmptyStore EXCEPT ![k] = Computed(files[main].of)]
      BY <1>3, <1>6 DEF Sound, Installing
    <2>2. main \in Path /\ files[main] \in Content
      BY <1>2, <2>1, PathFacts DEF Store
    <2>3. files[main].of \in Versions
      BY <2>2 DEF Content
    <2>4. Held(b) = {k} /\ b[k] = Computed(files[main].of)
      BY <1>2, <2>1, <2>2, SumBundle
    <2>5. PICK m \in Mains : k = <<m, "sum">> /\ main = <<m, "main">>
      BY <1>2, <1>6 DEF Path, Kinds, IsSum, MainOf
    <2>6. p = k
      BY <1>3, <1>4, <2>4
    <2> QED
      BY <1>1, <2>1, <2>3, <2>4, <2>5, <2>6 DEF VersionIn
  <1> QED
    BY <1>5, <1>6

\* Who is being sent what it was.
SameReader(x) ==
    /\ pc[x] = "stream" <=> pc'[x] = "stream"
    /\ pc[x] = "stream" => job'[x].want = job[x].want

\* The main file of a response stays, and with it the version that is being sent.
LEMMA LentKept ==
    ASSUME Settled, SettledInv, ~overtaken, [Next]_vars, \A x \in Tasks : SameReader(x)
    PROVE  Lent' = Lent
PROOF
  <1> USE DEF SettledInv
  <1>1. \A q \in Path : ~IsSum(q) /\ files[q] # NoContent => files'[q] = files[q]
    BY MainFilesStay
  <1>2. ASSUME NEW x \in Tasks
        PROVE  LentTo(x)' = LentTo(x)
    <2>1. CASE pc[x] = "stream"
      <3>1. /\ pc'[x] = "stream" /\ job'[x].want = job[x].want
            /\ job[x].want \in Path /\ files[job[x].want] # NoContent
        BY <2>1 DEF SameReader, Placed, Located, Workers
      <3>2. ~IsSum(job[x].want) => files'[job[x].want] = files[job[x].want]
        BY <1>1, <3>1
      <3> QED
        BY <2>1, <3>1, <3>2 DEF LentTo, VersionIn
    <2>2. CASE pc[x] # "stream"
      BY <2>2 DEF SameReader, LentTo
    <2> QED
      BY <2>1, <2>2
  <1> QED
    BY <1>2 DEF Lent

\* A step of a worker that neither opens a file nor ends a response.
LEMMA SameReaders ==
    ASSUME Settled, SettledInv, NEW t \in Tasks,
           TaskStep(t) \/ \E p \in Path : Begin(t, p), ~Open(t)
    PROVE  \A x \in Tasks : SameReader(x)
PROOF
  <1> USE DEF SettledInv
  <1>1. t \in Workers /\ Tasks \subseteq Workers
    BY DEF Workers
  <1>2. ASSUME NEW at, at # "stream", pc[t] # "stream", Goto(t, at),
               UNCHANGED job \/ \E j : Set(t, j)
        PROVE  \A x \in Tasks : SameReader(x)
    BY <1>1, <1>2 DEF Goto, Set, Shape, SameReader
  <1>3. CASE \E p \in Path : Begin(t, p)
    BY <1>2, <1>3 DEF Begin
  <1>4. CASE Serve(t)
    <2>1. /\ pc[t] # "stream"
          /\ \E at \in {"hit", "join", "open", "stat_final", "guard", "idle"} : Goto(t, at)
          /\ UNCHANGED job \/ \E j : Set(t, j)
      BY <1>4 DEF Serve, StatFirst, Hit, GetFinal, StatFinal, Guard, Read, Stop, Settled
    <2> QED
      BY <1>2, <2>1
  <1>5. CASE Fly(t)
    <2>1. pc[t] # "stream"
      BY <1>5 DEF Fly, Enter, Initialise, Complete, Take, Remove, Outcomes
    <2> QED
      BY <1>2, <1>5, <2>1, FlyMoves
  <1>6. CASE Download(t)
    <2>1. /\ pc[t] # "stream"
          /\ \E at \in {"stat_flight", "fetch", "stat_sum", "source_get", "source_hash", "mkdir",
                        "ok", "err"} : Goto(t, at)
          /\ UNCHANGED job \/ \E j : Set(t, j)
      BY <1>6 DEF Download, GetFlight, StatFlight, GetSum, StatSum, SourceGet, SourceHash, Read
    <2> QED
      BY <1>2, <2>1
  <1>7. CASE Fetch(t) \/ Install(t)
    <2>1. /\ pc[t] # "stream"
          /\ \E at \in {"mkdir", "upsert", "rename", "stats", "ok", "err"} : Goto(t, at)
          /\ UNCHANGED job \/ \E j : Set(t, j)
      BY <1>7 DEF Fetch, Install, Mkdir, Upsert, Rename
    <2> QED
      BY <1>2, <2>1
  <1>8. ~Enforce(t)
    BY <1>1 DEF Enforce, Stats, Candidates, Evict, Unlink, Delete, Tracked, Evicting
  <1> QED
    BY <1>3, <1>4, <1>5, <1>6, <1>7, <1>8 DEF TaskStep

\* A response that ends, or whose client leaves, gives back what it was sent.
LEMMA Returned ==
    ASSUME SettledInv, NEW t \in Tasks, Stop(t), files' = files
    PROVE  Books!Return(t)
PROOF
  <1>1. \A x \in Tasks : LentTo(x)' = IF x = t THEN NoContent ELSE LentTo(x)
    BY DEF SettledInv, Stop, Goto, Set, Shape, Workers, LentTo, VersionIn
  <1>2. Lent' = [Lent EXCEPT ![t] = NoContent]
    BY <1>1 DEF Lent
  <1> QED
    BY <1>2 DEF Books!Return, Shelf, Digests, VersionIn

\* A file opened is lent, and the file of a main path is the one on the shelf.
LEMMA Opened ==
    ASSUME Settled, SettledInv, ~overtaken, NEW t \in Tasks, Open(t), [Next]_vars
    PROVE  [Books!Next]_<<Shelf, Digests, Lent>>
PROOF
  <1> USE DEF SettledInv
  <1> DEFINE p == job[t].want
  <1>1. /\ pc[t] = "open" /\ p \in Path /\ files[p] # NoContent /\ t \in Workers
        /\ files' = files
    BY DEF Open, Placed, Located, Workers
  <1>2. /\ Goto(t, "stream") /\ Set(t, [job[t] EXCEPT !.seen = NoContent])
    BY <1>1 DEF Open
  <1>3. \A x \in Tasks : /\ pc'[x] = IF x = t THEN "stream" ELSE pc[x]
                         /\ job'[x].want = job[x].want
    BY <1>1, <1>2 DEF Goto, Set, Shape, Workers, Job
  <1>4. UNCHANGED <<Shelf, Digests>>
    BY <1>1 DEF Shelf, Digests, VersionIn
  <1>5. \A x \in Tasks : x # t => LentTo(x)' = LentTo(x)
    BY <1>1, <1>3 DEF LentTo, VersionIn
  <1>6. CASE IsSum(p)
    <2>1. LentTo(t)' = LentTo(t)
      BY <1>1, <1>3, <1>6 DEF LentTo
    <2> QED
      BY <1>4, <1>5, <2>1 DEF Lent
  <1>7. CASE ~IsSum(p)
    <2>1. PICK m \in Mains : p = <<m, "main">>
      BY <1>1, <1>7 DEF Path, Kinds, IsSum
    <2>2. LentTo(t)' = [main |-> m, of |-> Shelf[m]] /\ LentTo(t) = NoContent
      BY <1>1, <1>3, <1>7, <2>1 DEF LentTo, VersionIn, Shelf
    <2>3. Lent' = [Lent EXCEPT ![t] = [main |-> m, of |-> Shelf[m]]] /\ Lent[t] = NoContent
      BY <1>5, <2>2 DEF Lent
    <2>4. Shelf[m] # NoContent
      BY <1>1, <2>1, ConstantsAssumption DEF Shelf, VersionIn, Shape, Store, Content
    <2> QED
      BY <1>4, <2>3, <2>4 DEF Books!Next, Books!Lend
  <1> QED
    BY <1>6, <1>7

\* Every step of the cache is one of the library or leaves it as it is.
LEMMA LibrarySteps ==
    Settled /\ SettledInv /\ ~overtaken /\ [Next]_vars => [Books!Next]_<<Shelf, Digests, Lent>>
PROOF
  <1> SUFFICES ASSUME Settled, SettledInv, ~overtaken, [Next]_vars
               PROVE  [Books!Next]_<<Shelf, Digests, Lent>>
    OBVIOUS
  <1>0. files \in Store
    BY DEF SettledInv, Shape
  <1>1. ASSUME NEW t \in Tasks, Rename(t)
        PROVE  [Books!Next]_<<Shelf, Digests, Lent>>
    <2>1. UNCHANGED Lent
      <3>1. TaskStep(t) /\ ~Open(t)
        BY <1>1 DEF TaskStep, Install, Rename, Open
      <3> QED
        BY <3>1, SameReaders, LentKept
    <2>2. CASE files' = files
      BY <2>1, <2>2 DEF Shelf, Digests, VersionIn
    <2>3. ASSUME NEW m \in Mains, NEW v \in Versions,
                 VersionIn(<<m, "main">>) \in {NoContent, v},
                 files' = [files EXCEPT ![<<m, "sum">>] = Computed(v)]
          PROVE  Books!Digest(m)
      <3>1. /\ \A n \in Mains : files'[<<n, "main">>] = files[<<n, "main">>]
            /\ \A n \in Mains : n # m => files'[<<n, "sum">>] = files[<<n, "sum">>]
            /\ files'[<<m, "sum">>] = Computed(v) /\ Computed(v) # NoContent
            /\ Computed(v).of = v
        BY <1>0, <2>3, ConstantsAssumption DEF Store, Path, Kinds, Computed, Content
      <3>2. UNCHANGED Shelf /\ Digests' = [Digests EXCEPT ![m] = v]
        BY <3>1 DEF Shelf, Digests, VersionIn
      <3> QED
        BY <2>1, <2>3, <3>2 DEF Books!Digest, Shelf
    <2>4. ASSUME NEW m \in Mains, NEW v \in Versions,
                 files[<<m, "main">>] = NoContent, files[<<m, "sum">>] = Computed(v),
                 files' = [files EXCEPT ![<<m, "main">>] = Fetched(v)]
          PROVE  Books!Shelve(m)
      <3>1. /\ \A n \in Mains : files'[<<n, "sum">>] = files[<<n, "sum">>]
            /\ \A n \in Mains : n # m => files'[<<n, "main">>] = files[<<n, "main">>]
            /\ files'[<<m, "main">>] = Fetched(v) /\ Fetched(v) # NoContent
            /\ Fetched(v).of = v /\ Computed(v).of = v /\ Computed(v) # NoContent
        BY <1>0, <2>4, ConstantsAssumption DEF Store, Path, Kinds, Computed, Fetched, Content
      <3>2. UNCHANGED Digests /\ Shelf' = [Shelf EXCEPT ![m] = v]
        BY <3>1 DEF Shelf, Digests, VersionIn
      <3>3. Shelf[m] = NoContent /\ Digests[m] = v
        BY <2>4, <3>1 DEF Shelf, Digests, VersionIn
      <3> QED
        BY <2>1, <3>2, <3>3 DEF Books!Shelve
    <2> QED
      BY <1>1, <2>2, <2>3, <2>4, Renamed DEF Books!Next
  <1>2. ASSUME NEW t \in Tasks, Open(t)
        PROVE  [Books!Next]_<<Shelf, Digests, Lent>>
    BY <1>2, Opened
  <1>3. ASSUME NEW t \in Tasks, Finish(t) \/ Cancel(t)
        PROVE  [Books!Next]_<<Shelf, Digests, Lent>>
    <2>1. Stop(t) /\ files' = files
      BY <1>3 DEF Finish, Cancel
    <2> QED
      BY <2>1, Returned DEF Books!Next
  <1>4. ASSUME NEW t \in Tasks, TaskStep(t) \/ \E p \in Path : Begin(t, p), ~Open(t),
               ~\E x \in Tasks : Rename(x)
        PROVE  UNCHANGED <<Shelf, Digests, Lent>>
    <2>1. files' = files
      BY <1>4, FilesKept
    <2>2. UNCHANGED Lent
      BY <1>4, SameReaders, LentKept
    <2> QED
      BY <2>1, <2>2 DEF Shelf, Digests, VersionIn
  <1>5. CASE Crash
    <2>1. files' = files /\ \A x \in Tasks : pc'[x] = "idle"
      BY <1>5 DEF Crash, Workers
    <2>2. Lent' = Books!Nothing
      BY <2>1 DEF Lent, LentTo, Books!Nothing
    <2>3. Books!Close
      BY <2>1, <2>2 DEF Books!Close, Shelf, Digests, VersionIn
    <2> QED
      BY <2>3 DEF Books!Next
  <1>6. CASE UNCHANGED vars
    BY <1>6 DEF vars, Shelf, Digests, Lent, LentTo, VersionIn
  <1>7. late = {}
    BY DEF SettledInv
  <1> QED
    BY <1>1, <1>2, <1>3, <1>4, <1>5, <1>6, <1>7 DEF Next, Settled

\* While nothing is refreshed or evicted the cache implements Library
\* (ImplementsLibrary): a main file is stored once, after the checksum of its
\* version, and whoever is sent it is sent that version, beside any number of
\* clients that leave and kills between the renames of a bundle.
THEOREM RefinesLibrary == Settled => (Spec => ImplementsLibrary)
PROOF
  <1>1. ASSUME Settled
        PROVE  Spec => ImplementsLibrary
    <2>1. Init => Books!Init
      BY DEF Init, EmptyStore, Path, Kinds, Workers, Books!Init, Books!Nothing, Shelf, Digests,
             Lent, LentTo, VersionIn
    <2>2. SettledInv /\ [Next]_vars => [overtaken' \/ Books!Next]_<<Shelf, Digests, Lent>>
      BY <1>1, LibrarySteps, OvertakenStays
    <2>3. Spec => []SettledInv
      BY <1>1, SettledAlways
    <2> QED
      BY <2>1, <2>2, <2>3, PTL DEF Spec, ImplementsLibrary
  <1> QED
    BY <1>1

-----------------------------------------------------------------------------
(* Sums of sizes: what MapThenSumSet adds is a number, and less by the size *)
(* of any one path without it.  The facts are inductions over the subsets   *)
(* of a finite set, each by a smallest set that would be an exception.      *)

\* A set of numbers has a least element.
LEMMA LeastNumber ==
    ASSUME NEW S \in SUBSET Nat, S # {}
    PROVE  \E n \in S : \A m \in S : n <= m
PROOF
  <1>1. PICK n \in S : \A m \in S : <<m, n>> \notin OpToRel(<, Nat)
    BY NatLessThanWellFounded, WFMin
  <1>2. \A m \in S : n <= m
    <2> SUFFICES ASSUME NEW m \in S PROVE n <= m
      OBVIOUS
    <2>1. ~(m < n)
      BY <1>1 DEF OpToRel
    <2> QED
      BY <2>1
  <1> QED
    BY <1>2

\* f adds the weights w over the subsets of S, as MapThenSumSet does.
Pick(s) == CHOOSE x \in s : TRUE
Adds(f, w, S) ==
    f = [s \in SUBSET S |-> IF s = {} THEN 0 ELSE w[Pick(s)] + f[s \ {Pick(s)}]]

LEMMA AddsAt ==
    ASSUME NEW f, NEW w, NEW S, Adds(f, w, S)
    PROVE  /\ f[{}] = 0
           /\ \A s \in SUBSET S : s # {} =>
                 /\ Pick(s) \in s
                 /\ s \ {Pick(s)} \in SUBSET S
                 /\ f[s] = w[Pick(s)] + f[s \ {Pick(s)}]
PROOF
  <1>1. \A s \in SUBSET S : f[s] = IF s = {} THEN 0 ELSE w[Pick(s)] + f[s \ {Pick(s)}]
    BY DEF Adds
  <1>2. {} \in SUBSET S
    OBVIOUS
  <1>3. \A s : s # {} => Pick(s) \in s
    BY DEF Pick
  <1> QED
    BY <1>1, <1>2, <1>3

\* Taking an element out of a finite set leaves a smaller one.
LEMMA Smaller ==
    ASSUME NEW S, IsFiniteSet(S), NEW s \in SUBSET S, NEW x \in s
    PROVE  /\ IsFiniteSet(s) /\ Cardinality(s) \in Nat /\ Cardinality(s \ {x}) \in Nat
           /\ Cardinality(s \ {x}) < Cardinality(s)
PROOF
  <1>1. IsFiniteSet(s) /\ IsFiniteSet(s \ {x})
    BY FS_Subset
  <1>2. Cardinality(s) \in Nat /\ Cardinality(s \ {x}) \in Nat
    BY <1>1, FS_CardinalityType
  <1>3. Cardinality(s \ {x}) = Cardinality(s) - 1
    BY <1>1, FS_RemoveElement
  <1> QED
    BY <1>1, <1>2, <1>3

\* Among the sets of a family of finite sets, one is smallest.
LEMMA Smallest ==
    ASSUME NEW S, IsFiniteSet(S), NEW F \in SUBSET SUBSET S, F # {}
    PROVE  \E s \in F : \A r \in F : Cardinality(s) <= Cardinality(r)
PROOF
  <1> DEFINE N == {Cardinality(s) : s \in F}
  <1>1. \A s \in F : Cardinality(s) \in Nat
    BY FS_Subset, FS_CardinalityType
  <1>2. N \in SUBSET Nat /\ N # {}
    BY <1>1
  <1>3. PICK n \in N : \A m \in N : n <= m
    BY <1>2, LeastNumber
  <1> QED
    BY <1>3

LEMMA SumType ==
    ASSUME NEW S, IsFiniteSet(S), NEW w, \A x \in S : w[x] \in Nat,
           NEW f, Adds(f, w, S)
    PROVE  \A s \in SUBSET S : f[s] \in Nat
PROOF
  <1> DEFINE bad == {s \in SUBSET S : f[s] \notin Nat}
  <1> SUFFICES ASSUME bad # {} PROVE FALSE
    OBVIOUS
  <1>1. PICK s \in bad : \A r \in bad : Cardinality(s) <= Cardinality(r)
    BY Smallest
  <1>2. s # {}
    <2>1. f[{}] = 0
      BY AddsAt
    <2> QED
      BY <2>1
  <1>3. /\ Pick(s) \in s /\ s \ {Pick(s)} \in SUBSET S
        /\ f[s] = w[Pick(s)] + f[s \ {Pick(s)}]
    BY <1>2, AddsAt
  <1>4. s \ {Pick(s)} \notin bad
    <2>1. /\ Cardinality(s \ {Pick(s)}) < Cardinality(s)
          /\ Cardinality(s) \in Nat /\ Cardinality(s \ {Pick(s)}) \in Nat
      BY <1>3, Smaller
    <2> QED
      BY <1>1, <2>1
  <1>5. f[s \ {Pick(s)}] \in Nat /\ w[Pick(s)] \in Nat
    BY <1>3, <1>4
  <1> QED
    BY <1>3, <1>5

\* Which element is taken out first makes no difference.
LEMMA SumWithout ==
    ASSUME NEW S, IsFiniteSet(S), NEW w, \A x \in S : w[x] \in Nat,
           NEW f, Adds(f, w, S)
    PROVE  \A s \in SUBSET S : \A x \in s : f[s] = w[x] + f[s \ {x}]
PROOF
  <1> DEFINE bad == {s \in SUBSET S : \E x \in s : f[s] # w[x] + f[s \ {x}]}
  <1> SUFFICES ASSUME bad # {} PROVE FALSE
    OBVIOUS
  <1>1. PICK s \in bad : \A r \in bad : Cardinality(s) <= Cardinality(r)
    BY Smallest
  <1>2. PICK x \in s : f[s] # w[x] + f[s \ {x}]
    OBVIOUS
  <1> DEFINE y == Pick(s)
  <1>3. y \in s /\ f[s] = w[y] + f[s \ {y}]
    BY <1>2, AddsAt
  <1>4. x # y
    BY <1>2, <1>3
  <1>5. s \ {y} \notin bad /\ s \ {x} \notin bad
    <2>1. \A z \in s : /\ Cardinality(s \ {z}) < Cardinality(s)
                       /\ Cardinality(s) \in Nat /\ Cardinality(s \ {z}) \in Nat
      BY Smaller
    <2> HIDE DEF bad
    <2> QED
      BY <1>1, <1>2, <1>3, <2>1
  <1>6. f[s \ {y}] = w[x] + f[(s \ {y}) \ {x}]
    BY <1>2, <1>4, <1>5
  <1>7. f[s \ {x}] = w[y] + f[(s \ {x}) \ {y}]
    BY <1>3, <1>4, <1>5
  <1>8. (s \ {y}) \ {x} = (s \ {x}) \ {y} /\ (s \ {x}) \ {y} \in SUBSET S
    OBVIOUS
  <1>9. w[x] \in Nat /\ w[y] \in Nat /\ f[(s \ {x}) \ {y}] \in Nat
    BY <1>2, <1>3, <1>8, SumType
  <1> DEFINE rest == f[(s \ {x}) \ {y}]
  <1>10. /\ f[s] = w[y] + f[s \ {y}] /\ f[s \ {y}] = w[x] + rest
         /\ f[s \ {x}] = w[y] + rest /\ rest \in Nat
    BY <1>3, <1>6, <1>7, <1>8, <1>9
  <1> HIDE DEF y, rest, bad
  <1> QED
    BY <1>2, <1>9, <1>10

\* Sums of the same weights are the same, whatever else the sets hold.
LEMMA SumAgrees ==
    ASSUME NEW S, IsFiniteSet(S), NEW T, NEW w, NEW v, NEW f, NEW g,
           Adds(f, w, S), Adds(g, v, T),
           NEW U, U \subseteq S, U \subseteq T, \A x \in U : w[x] = v[x]
    PROVE  f[U] = g[U]
PROOF
  <1> DEFINE bad == {s \in SUBSET U : f[s] # g[s]}
  <1> SUFFICES ASSUME bad # {} PROVE FALSE
    OBVIOUS
  <1>1. PICK s \in bad : \A r \in bad : Cardinality(s) <= Cardinality(r)
    BY Smallest
  <1>2. s # {}
    <2>1. f[{}] = 0 /\ g[{}] = 0
      BY AddsAt
    <2> QED
      BY <2>1
  <1>3. /\ Pick(s) \in s
        /\ f[s] = w[Pick(s)] + f[s \ {Pick(s)}]
        /\ g[s] = v[Pick(s)] + g[s \ {Pick(s)}]
    <2>1. s \in SUBSET S /\ s \in SUBSET T
      OBVIOUS
    <2> HIDE DEF bad
    <2>2. Pick(s) \in s /\ f[s] = w[Pick(s)] + f[s \ {Pick(s)}]
      BY <1>2, <2>1, AddsAt
    <2>3. g[s] = v[Pick(s)] + g[s \ {Pick(s)}]
      BY <1>2, <2>1, AddsAt
    <2> QED
      BY <2>2, <2>3
  <1>4. s \ {Pick(s)} \notin bad
    <2>1. /\ Cardinality(s \ {Pick(s)}) < Cardinality(s)
          /\ Cardinality(s) \in Nat /\ Cardinality(s \ {Pick(s)}) \in Nat
      BY <1>3, Smaller
    <2> QED
      BY <1>1, <2>1
  <1> QED
    BY <1>3, <1>4

\* Such a sum exists.
LEMMA SumExists ==
    ASSUME NEW S, IsFiniteSet(S), NEW w, \A x \in S : w[x] \in Nat
    PROVE  \E f : Adds(f, w, S)
PROOF
  <1> DEFINE Upto(n) == {s \in SUBSET S : Cardinality(s) <= n}
             Begun(n) == \E f \in [Upto(n) -> Nat] : \A s \in Upto(n) :
                            f[s] = IF s = {} THEN 0 ELSE w[Pick(s)] + f[s \ {Pick(s)}]
             bad == {n \in Nat : ~Begun(n)}
  <1>0. /\ \A s : s # {} => Pick(s) \in s
        /\ \A s \in SUBSET S : Cardinality(s) \in Nat
    BY FS_Subset, FS_CardinalityType DEF Pick
  <1>1. bad = {}
    <2> SUFFICES ASSUME bad # {} PROVE FALSE
      OBVIOUS
    <2>1. PICK n \in bad : \A m \in bad : n <= m
      BY LeastNumber
    <2>2. Begun(0)
      <3> DEFINE f == [s \in Upto(0) |-> 0]
      <3>1. \A s \in Upto(0) : s = {}
        BY <1>0, FS_Subset, FS_EmptySet
      <3>2. f \in [Upto(0) -> Nat] /\ \A s \in Upto(0) : f[s] = 0
        OBVIOUS
      <3> QED
        BY <3>1, <3>2
    <2>3. n # 0 /\ n - 1 \in Nat
      <3> HIDE DEF Begun
      <3> QED
        BY <2>2
    <2>4. Begun(n - 1)
      <3> HIDE DEF Begun
      <3> QED
        BY <2>1, <2>3
    <2>5. PICK f \in [Upto(n - 1) -> Nat] : \A s \in Upto(n - 1) :
                            f[s] = IF s = {} THEN 0 ELSE w[Pick(s)] + f[s \ {Pick(s)}]
      BY <2>4
    <2> DEFINE g == [s \in Upto(n) |-> IF s = {} THEN 0 ELSE w[Pick(s)] + f[s \ {Pick(s)}]]
    <2>6. \A s \in Upto(n) : s # {} => s \ {Pick(s)} \in Upto(n - 1) /\ s \ {Pick(s)} \in Upto(n)
                                        /\ Pick(s) \in S
      <3> SUFFICES ASSUME NEW s \in Upto(n), s # {}
                   PROVE  s \ {Pick(s)} \in Upto(n - 1) /\ s \ {Pick(s)} \in Upto(n)
                                        /\ Pick(s) \in S
        OBVIOUS
      <3>1. Pick(s) \in s
        BY <1>0
      <3>2. /\ Cardinality(s \ {Pick(s)}) < Cardinality(s)
            /\ Cardinality(s) \in Nat /\ Cardinality(s \ {Pick(s)}) \in Nat
        BY <3>1, Smaller
      <3> QED
        BY <2>3, <3>1, <3>2
    <2>7. g \in [Upto(n) -> Nat]
      BY <2>5, <2>6
    <2>8. \A s \in Upto(n - 1) : s \in Upto(n) /\ g[s] = f[s]
      <3>1. \A s \in Upto(n - 1) : s \in Upto(n)
        BY <1>0, <2>3
      <3> QED
        BY <2>5, <3>1
    <2>9. \A s \in Upto(n) : g[s] = IF s = {} THEN 0 ELSE w[Pick(s)] + g[s \ {Pick(s)}]
      BY <2>6, <2>8
    <2>10. Begun(n)
      BY <2>7, <2>9
    <2> HIDE DEF Begun
    <2> QED
      BY <2>10
  <1>2. Cardinality(S) \in Nat
    BY FS_CardinalityType
  <1>3. Upto(Cardinality(S)) = SUBSET S
    BY FS_Subset
  <1>4. Begun(Cardinality(S))
    <2> HIDE DEF Begun
    <2> QED
      BY <1>1, <1>2
  <1>5. PICK f \in [SUBSET S -> Nat] : \A s \in SUBSET S :
                            f[s] = IF s = {} THEN 0 ELSE w[Pick(s)] + f[s \ {Pick(s)}]
    <2> HIDE DEF Upto
    <2> QED
      BY <1>3, <1>4
  <1>6. Adds(f, w, S)
    BY <1>5 DEF Adds
  <1> QED
    BY <1>6

LEMMA SizeType == \A p \in Path, c \in Content : Size(p, c) \in Nat
PROOF
  BY ConstantsAssumption DEF Size, Content

\* The size of each path of a store.
Weights(store) == [p \in Path |-> Size(p, store[p])]

LEMMA HeldFinite ==
    ASSUME NEW store
    PROVE  Held(store) \subseteq Path /\ IsFiniteSet(Held(store))
PROOF
  <1>1. IsFiniteSet(Kinds)
    <2>1. IsFiniteSet({"main"}) /\ Kinds = {"main"} \cup {"sum"}
      BY FS_Singleton DEF Kinds
    <2> QED
      BY <2>1, FS_AddElement
  <1>2. IsFiniteSet(Path)
    BY <1>1, ConstantsAssumption, FS_Product DEF Path
  <1> QED
    BY <1>2, FS_Subset DEF Held

LEMMA TotalAdds ==
    ASSUME NEW store \in Store
    PROVE  \E f : Adds(f, Weights(store), Held(store)) /\ TotalSize(store) = f[Held(store)]
PROOF
  <1> DEFINE H == Held(store)
             Rec(f) == f = [s \in SUBSET H |->
                              IF s = {} THEN 0
                              ELSE Size(Pick(s), store[Pick(s)]) + f[s \ {Pick(s)}]]
  <1>1. TotalSize(store) = (CHOOSE f : Rec(f))[H]
    BY DEF TotalSize, MapThenSumSet, MapThenFoldSet, Pick
  <1>2. \A f : Rec(f) <=> Adds(f, Weights(store), H)
    <2>1. \A s \in SUBSET H : s # {} => Pick(s) \in Path
      BY HeldFinite DEF Pick
    <2>2. \A s \in SUBSET H : s # {} => Weights(store)[Pick(s)] = Size(Pick(s), store[Pick(s)])
      BY <2>1 DEF Weights
    <2> QED
      BY <2>2 DEF Adds
  <1>3. \A p \in H : Weights(store)[p] \in Nat
    BY SizeType DEF Weights, Held, Store
  <1>4. \E f : Adds(f, Weights(store), H)
    BY <1>3, HeldFinite, SumExists
  <1> DEFINE f == CHOOSE f : Rec(f)
  <1>5. Rec(f)
    BY <1>2, <1>4
  <1> QED
    BY <1>1, <1>2, <1>5

LEMMA TotalNumber ==
    ASSUME NEW store \in Store
    PROVE  TotalSize(store) \in Nat
PROOF
  <1>1. \A p \in Held(store) : Weights(store)[p] \in Nat
    BY SizeType DEF Weights, Held, Store
  <1> QED
    BY <1>1, TotalAdds, HeldFinite, SumType

LEMMA TotalWithout ==
    ASSUME NEW store \in Store, NEW p \in Held(store)
    PROVE  TotalSize(store) = Size(p, store[p]) + TotalSize([store EXCEPT ![p] = NoContent])
PROOF
  <1> DEFINE rest == [store EXCEPT ![p] = NoContent]
  <1>1. p \in Path /\ rest \in Store /\ Held(rest) = Held(store) \ {p}
    BY DEF Held, Store
  <1>2. PICK f : Adds(f, Weights(store), Held(store)) /\ TotalSize(store) = f[Held(store)]
    BY TotalAdds
  <1>3. PICK g : Adds(g, Weights(rest), Held(rest)) /\ TotalSize(rest) = g[Held(rest)]
    BY <1>1, TotalAdds
  <1>4. \A q \in Held(store) : Weights(store)[q] \in Nat
    BY SizeType DEF Weights, Held, Store
  <1>5. f[Held(store)] = Weights(store)[p] + f[Held(store) \ {p}]
    BY <1>2, <1>4, HeldFinite, SumWithout
  <1>6. \A q \in Held(rest) : Weights(store)[q] = Weights(rest)[q]
    BY <1>1 DEF Weights, Held, Store
  <1>7. f[Held(rest)] = g[Held(rest)]
    <2> HIDE DEF rest
    <2> QED
      BY <1>1, <1>2, <1>3, <1>6, HeldFinite, SumAgrees
  <1>8. Weights(store)[p] = Size(p, store[p])
    BY <1>1 DEF Weights
  <1>9. f[Held(store) \ {p}] = f[Held(rest)]
    BY <1>1
  <1> HIDE DEF rest
  <1>10. TotalSize(store) = Size(p, store[p]) + TotalSize(rest)
    BY <1>2, <1>3, <1>5, <1>7, <1>8, <1>9
  <1> QED
    BY <1>10 DEF rest

-----------------------------------------------------------------------------
(* The whole type invariant                                                 *)

Counted ==
    /\ dirs \subseteq Dirs
    /\ budget \in [Workers -> Nat]
    /\ overtaken \in BOOLEAN
    /\ crashes \in 0 .. MaxCrashes

LEMMA CountedInit == Init => Counted
PROOF
  <1>1. Init => overtaken \in BOOLEAN
    BY Zenon DEF Init
  <1>2. Init => dirs \subseteq Dirs /\ budget \in [Workers -> Nat] /\ crashes \in 0 .. MaxCrashes
    BY ConstantsAssumption DEF Init
  <1> QED
    BY <1>1, <1>2 DEF Counted

LEMMA CountedSteps ==
    ASSUME Shape, Fitted, Counted, [Next]_vars
    PROVE  Counted'
PROOF
  <1> USE ConstantsAssumption
  <1>1. ASSUME UNCHANGED <<dirs, overtaken, crashes>>, NEW w \in Workers, NEW n \in Nat,
               budget' \in {budget, [budget EXCEPT ![w] = n]}
        PROVE  Counted'
    BY <1>1 DEF Counted
  <1>2. ASSUME NEW w \in Workers, Mkdir(w)
        PROVE  Counted'
    <2>1. \A p \in job[w].left : DirectoryOf(p) \in Dirs
      <3>1. job[w].left \subseteq Path
        BY DEF Fitted, Fit, Held
      <3> QED
        BY <3>1 DEF DirectoryOf, Path
    <2> QED
      BY <1>2, <2>1 DEF Mkdir, Counted
  <1>3. ASSUME NEW w \in Workers, Stats(w)
        PROVE  Counted'
    <2>1. TotalSize(records) \in Nat
      BY TotalNumber DEF Shape
    <2> QED
      BY <1>3, <2>1 DEF Stats, Counted
  <1>4. ASSUME NEW w \in Workers, Evict(w)
        PROVE  Counted'
    BY <1>4, <1>1 DEF Evict
  <1>5. ASSUME NEW w \in Workers, Unlink(w)
        PROVE  Counted'
    <2> DEFINE p == job[w].victim
               freed == Freed(p, job[w].victims[p])
    <2>1. p \in Held(job[w].victims) /\ job[w].victims \in Store
      BY <1>5 DEF Unlink, Fitted, Fit, Shape, Job
    <2>2. freed \in Nat
      BY <2>1, SizeType DEF Held, Store, Freed
    <2>3. budget[w] \in Nat
      BY DEF Counted
    <2> HIDE DEF freed
    <2>4. (IF budget[w] > freed THEN budget[w] - freed ELSE 0) \in Nat
      BY <2>2, <2>3
    <2>5. /\ budget' = [budget EXCEPT ![w] = IF budget[w] > freed THEN budget[w] - freed ELSE 0]
          /\ dirs' \subseteq dirs /\ UNCHANGED <<overtaken, crashes>>
      BY <1>5 DEF Unlink, freed
    <2> QED
      BY <2>4, <2>5 DEF Counted
  <1>6. ASSUME NEW w \in Workers,
               Upsert(w) \/ Rename(w) \/ Candidates(w) \/ Delete(w) \/ Fetch(w)
                 \/ EndRefresh(w) \/ Finish(w)
        PROVE  Counted'
    BY <1>6, <1>1 DEF Upsert, Rename, Candidates, Delete, Fetch, EndRefresh, Finish
  <1>7. ASSUME NEW t \in Tasks, Cancel(t)
        PROVE  Counted'
    BY <1>7, <1>1 DEF Cancel, Workers
  <1>8. CASE Crash
    BY <1>8 DEF Crash, Counted
  <1>9. ASSUME NEW t \in Tasks, Serve(t) \/ Download(t) \/ \E p \in Path : Begin(t, p)
        PROVE  Counted'
    BY <1>9 DEF Serve, Download, Begin, StatFirst, Hit, GetFinal, StatFinal, Guard, Open, Read,
                GetFlight, StatFlight, GetSum, StatSum, SourceGet, SourceHash, Counted
  <1>10. ASSUME NEW t \in Tasks, Fly(t)
         PROVE  Counted'
    <2>1. overtaken' \in BOOLEAN
      BY <1>10 DEF Fly, Enter, Initialise, Complete, Take, Remove, Leave, Counted
    <2> QED
      BY <1>10, <2>1, FlyMoves DEF Counted
  <1>11. ASSUME NEW c \in late, Land(c)
         PROVE  Counted'
    <2>1. \A p \in Held(c.bundle) : DirectoryOf(p) \in Dirs
      BY DEF Held, DirectoryOf, Path
    <2> QED
      BY <1>11, <2>1 DEF Land, Counted
  <1>12. CASE UNCHANGED vars
    BY <1>12 DEF vars, Counted
  <1> QED
    BY <1>2, <1>3, <1>4, <1>5, <1>6, <1>7, <1>8, <1>9, <1>10, <1>11, <1>12
       DEF Next, TaskStep, RefreshStep, Install, Enforce, Workers

\* The type invariant of ArtifactCache with what its steps rely on (TypeOK): a
\* rename has a file left, an eviction step a victim, a busy worker its paths.
THEOREM TypeCorrect == Spec => []TypeOK
PROOF
  <1>1. Init => Fitted /\ Counted
    BY CountedInit DEF Init, Fitted, Fit, NoJob, Bundling
  <1>2. Shape /\ Placed /\ Fitted /\ Counted /\ [Next]_vars => (Fitted /\ Counted)'
    BY FittedSteps, CountedSteps
  <1>3. Shape /\ Placed /\ Fitted /\ Counted => TypeOK
    BY ConstantsAssumption DEF Shape, CellTable, Placed, Fitted, Fit, Counted, TypeOK, Held
  <1> QED
    BY <1>1, <1>2, <1>3, Typed, PTL DEF Spec
===============================================================================
