---------------------------- MODULE LoneClient_proofs ----------------------------
(***************************************************************************)
(* Proofs about ArtifactCache for a single client whose cache is limited   *)
(* or not, and for every number of artifacts, versions and crashes: what   *)
(* installation and eviction keep between the table, the directory and the *)
(* running total when nobody interferes.  Among several clients these      *)
(* properties need more than the code does (see README): another eviction  *)
(* may take what this one installs.                                        *)
(***************************************************************************)
EXTENDS ArtifactCache_proofs

USE DEF stores, flying

\* Nothing runs beside the client, not even what it left behind itself.
Alone == Refreshers = {} /\ MaxLate = 0 /\ \A t, u \in Tasks : t = u

\* What every interruption leaves: a main file lies under its own record and beside
\* its own checksum or none, a file has a row, and whoever wrote the row of a path
\* wrote what belongs there.  A row may be left without its file, and a checksum
\* without its main file or of another.
Consistent(fs, rs) ==
    /\ \A p \in Path : ~IsSum(p) /\ fs[p] # NoContent =>
          rs[p] = fs[p] /\ fs[SumOf(p)] \in {NoContent, Computed(fs[p].of)}
    /\ \A p \in Path : rs[p] # NoContent => rs[p].by = WrittenBy(p)
    /\ \A p \in Path : fs[p] # NoContent => fs[p].by = WrittenBy(p) /\ rs[p] # NoContent

\* What the client knows of the stores.
Finding(at, j, fs, rs) ==
    /\ at \in {"get_flight", "stat_flight", "fetch"} => ~IsSum(j.key)
    /\ at \in Hashing => IsSum(j.want) /\ j.key = j.want
    /\ at = "stat_flight" => j.seen = rs[j.key]
    /\ at = "fetch" => fs[j.key] = NoContent
    /\ at \in {"stat_first", "join", "wait", "get_flight", "stat_flight", "get_sum", "stat_sum"} =>
          Held(j.bundle) = {}
    /\ at \in {"get_final", "stat_final", "hit", "guard", "open"} => fs[j.want] # NoContent
    /\ at = "stat_final" => j.seen = rs[j.want]

\* What it installs.
Placing(at, j, fs, rs) ==
    /\ at \in Installing => j.key \in j.left
    /\ at \in {"mkdir", "upsert"} => j.left = Held(j.bundle)
    /\ at \in Installing /\ ~IsSum(j.key) =>
          fs[j.key] = NoContent /\ \E v \in Versions : j.bundle = Prepared(j.key, v)
    /\ at \in Installing /\ IsSum(j.key) =>
          /\ fs[MainOf(j.key)] # NoContent
          /\ j.bundle = [EmptyStore EXCEPT ![j.key] = Computed(fs[MainOf(j.key)].of)]
    /\ at = "rename" =>
          /\ \A p \in Held(j.bundle) : rs[p] = j.bundle[p]
          /\ \A p \in Held(j.bundle) \ j.left : fs[p] = j.bundle[p]
    /\ at \in Evicting => MaxSize # Unlimited /\ j.key \in Held(j.bundle)
    /\ at \in Evicting \cup {"ok"} => fs[j.key] # NoContent

Settles(j, rs, fl) ==
    \/ TotalSize(rs) <= MaxSize
    \/ \A p \in Held(rs) \ Held(j.bundle) : fl[p] # NoFlight

\* What is left to remove.
Removing(at, j, fs, rs, fl, left) ==
    /\ at \in {"evict", "unlink", "delete"} =>
          /\ \A p \in Held(j.victims) : p \notin Held(j.bundle) /\ j.victims[p] = rs[p]
          /\ \A p \in Held(rs) \ Held(j.bundle) :
                p \in Held(j.victims) \/ fl[p] # NoFlight \/ (at = "delete" /\ p = j.victim)
    /\ at = "unlink" => j.victim \in Held(j.victims) /\ ~WithinLimit(left)
    /\ at \in {"candidates", "evict", "unlink"} => left = TotalSize(rs)
    /\ at = "delete" =>
          /\ j.victim \in Held(rs) /\ j.victim \notin Held(j.bundle) /\ fs[j.victim] = NoContent
          /\ j.victim \notin Held(j.victims)
          /\ left = TotalSize([rs EXCEPT ![j.victim] = NoContent])
    /\ at = "ok" /\ Held(j.bundle) # {} /\ MaxSize # Unlimited => Settles(j, rs, fl)

Knows(at, j, fs, rs, fl, left) ==
    Finding(at, j, fs, rs) /\ Placing(at, j, fs, rs) /\ Removing(at, j, fs, rs, fl, left)

LoneInv ==
    /\ Consistent(files, records)
    /\ \A t \in Tasks : Knows(pc[t], job[t], files, records, flights, budget[t])

\* The outcome of a flight is gone with the client that left the flight, and until
\* then the file that a success speaks of is there.
Clean ==
    \A p \in Path, c \in Cells : cells[p][c] \in Outcomes =>
        \E t \in Tasks : pc[t] \in {"take", "remove"} /\ job[t].key = p /\ job[t].cell = c

Handed ==
    \A t \in Tasks : pc[t] \in {"take", "remove"} /\ cells[job[t].key][job[t].cell] = "ok"
                        => files[job[t].key] # NoContent

FlightInv == Clean /\ Handed /\ ~overtaken /\ late = {}

AloneInv == Shape /\ Placed /\ Owned /\ Fitted /\ Counted /\ FlightInv /\ LoneInv

\* A step of the client that leaves the stores consistent, and after which it knows
\* what it should, preserves the invariant: there is nobody else to know anything.
LEMMA AloneStep ==
    ASSUME Alone, Shape, Counted, LoneInv, NEW t \in Tasks, NEW at, NEW j,
           Goto(t, at), job' = [job EXCEPT ![t] = j],
           Consistent(files', records'),
           Knows(at, j, files', records', flights', budget'[t])
    PROVE  LoneInv'
PROOF
  <1>1. t \in Workers /\ pc'[t] = at /\ job'[t] = j
    BY DEF Workers, Shape, Goto
  <1>2. \A u \in Tasks : u = t
    BY DEF Alone
  <1> QED
    BY <1>1, <1>2 DEF LoneInv

\* Whoever is done, or has failed, knows nothing.
LEMMA DoneStep ==
    ASSUME Alone, Shape, Counted, LoneInv, NEW t \in Tasks,
           NEW at \in {"idle", "err", "stream", "take", "remove"},
           Goto(t, at), UNCHANGED job \/ \E j : Set(t, j), UNCHANGED <<records, files>>
    PROVE  LoneInv'
PROOF
  <1>1. \A j, fs, rs, fl, b : Knows(at, j, fs, rs, fl, b)
    BY DEF Knows, Finding, Placing, Removing, Hashing, Installing, Evicting
  <1>2. PICK j : job' = [job EXCEPT ![t] = j]
    <2>1. UNCHANGED job => job' = [job EXCEPT ![t] = job[t]]
      BY DEF Shape
    <2> QED
      BY <2>1 DEF Set
  <1>3. Consistent(files', records')
    BY DEF LoneInv
  <1> QED
    BY <1>1, <1>2, <1>3, AloneStep

\* A client that has downloaded nothing has nothing to install.
LEMMA EmptyBundle == Held(EmptyStore) = {} /\ NoJob.bundle = EmptyStore
PROOF
  BY DEF Held, EmptyStore, NoJob

-----------------------------------------------------------------------------
\* Lookups and responses.
LEMMA LoneServe ==
    ASSUME Alone, AloneInv, NEW t \in Tasks, Serve(t)
    PROVE  LoneInv'
PROOF
  <1> USE DEF AloneInv
  <1> DEFINE j == job[t]
             known == Knows(pc[t], j, files, records, flights, budget[t])
  <1>0. known /\ Consistent(files, records) /\ t \in Workers
    BY DEF LoneInv, Workers
  <1>1. UNCHANGED <<records, files, flights, budget>>
    BY DEF Serve, StatFirst, Hit, GetFinal, Read, StatFinal, Guard, Open
  <1>2. j.bundle = [j EXCEPT !.seen = NoContent].bundle /\ job = [job EXCEPT ![t] = j]
    BY DEF Shape, Job
  <1>3. CASE StatFirst(t)
    <2>1. CASE Positive(j.want, j.seen)
      <3>1. Knows("hit", j, files, records, flights, budget[t])
        BY <2>1 DEF Positive, Knows, Finding, Placing, Removing, Hashing, Installing, Evicting
      <3>2. Goto(t, "hit") /\ job' = job
        BY <1>3, <2>1 DEF StatFirst
      <3> QED
        BY <1>0, <1>1, <1>2, <3>1, <3>2, AloneStep
    <2>2. CASE ~Positive(j.want, j.seen)
      <3>1. Held(j.bundle) = {}
        BY <1>0, <1>3 DEF StatFirst, Knows, Finding
      <3>2. Knows("join", [j EXCEPT !.seen = NoContent], files, records, flights, budget[t])
        BY <1>2, <3>1 DEF Knows, Finding, Placing, Removing, Hashing, Installing, Evicting
      <3>3. Goto(t, "join") /\ Set(t, [j EXCEPT !.seen = NoContent])
        BY <1>3, <2>2 DEF StatFirst
      <3> QED
        BY <1>0, <1>1, <3>2, <3>3, AloneStep DEF Set
    <2> QED
      BY <2>1, <2>2
  <1>4. CASE Hit(t) \/ Guard(t)
    <2>1. Goto(t, "open") /\ job' = job /\ pc[t] \in {"hit", "guard"}
      BY <1>4 DEF Hit, Guard, Alone
    <2>2. Knows("open", j, files, records, flights, budget[t])
      BY <1>0, <2>1 DEF Knows, Finding, Placing, Removing, Hashing, Installing, Evicting
    <2> QED
      BY <1>0, <1>1, <1>2, <2>1, <2>2, AloneStep
  <1>5. CASE GetFinal(t)
    <2> DEFINE read == [j EXCEPT !.seen = records[j.want]]
    <2>1. Goto(t, "stat_final") /\ Set(t, read) /\ pc[t] = "get_final"
      BY <1>5 DEF GetFinal, Read
    <2>2. read.want = j.want /\ read.seen = records[j.want]
      BY <1>0 DEF Shape, Job
    <2>3. Knows("stat_final", read, files, records, flights, budget[t])
      BY <1>0, <2>1, <2>2 DEF Knows, Finding, Placing, Removing, Hashing, Installing, Evicting
    <2> QED
      BY <1>0, <1>1, <2>1, <2>3, AloneStep DEF Set
  <1>6. CASE StatFinal(t)
    <2>1. CASE Positive(j.want, j.seen)
      <3>1. Knows("guard", j, files, records, flights, budget[t])
        BY <2>1 DEF Positive, Knows, Finding, Placing, Removing, Hashing, Installing, Evicting
      <3>2. Goto(t, "guard") /\ job' = job
        BY <1>6, <2>1 DEF StatFinal
      <3> QED
        BY <1>0, <1>1, <1>2, <3>1, <3>2, AloneStep
    <2>2. CASE ~Positive(j.want, j.seen)
      BY <1>1, <1>6, <2>2, DoneStep DEF StatFinal, Stop
    <2> QED
      BY <2>1, <2>2
  <1>7. CASE Open(t)
    <2>1. (Goto(t, "idle") \/ Goto(t, "stream")) /\ \E k : Set(t, k)
      BY <1>7 DEF Open, Stop
    <2> QED
      BY <1>1, <2>1, DoneStep
  <1> QED
    BY <1>3, <1>4, <1>5, <1>6, <1>7 DEF Serve

\* Flights, downloads and regenerations.
LEMMA LoneDownload ==
    ASSUME Alone, AloneInv, NEW t \in Tasks, Download(t)
    PROVE  LoneInv'
PROOF
  <1> USE DEF AloneInv
  <1> DEFINE j == job[t]
             k == job[t].key
             seen(s) == [j EXCEPT !.seen = s]
             Same(at, jj) == Knows(at, jj, files, records, flights, budget[t])
  <1>0. /\ Knows(pc[t], j, files, records, flights, budget[t])
        /\ Consistent(files, records) /\ t \in Workers
    BY DEF LoneInv, Workers
  <1>1. UNCHANGED <<records, files, budget>>
    BY DEF Download, GetFlight, StatFlight, GetSum, StatSum, Read, SourceGet, SourceHash
  <1>2. /\ \A s : /\ seen(s).bundle = j.bundle /\ seen(s).key = k
                   /\ seen(s).want = j.want /\ seen(s).seen = s
        /\ job = [job EXCEPT ![t] = j]
    BY <1>0 DEF Shape, Job
  <1>4. CASE GetFlight(t)
    <2>1. /\ Goto(t, "stat_flight") /\ Set(t, seen(records[k])) /\ pc[t] = "get_flight"
          /\ UNCHANGED flights
      BY <1>4 DEF GetFlight, Read
    <2>2. Same("stat_flight", seen(records[k]))
      BY <1>0, <1>2, <2>1 DEF Knows, Finding, Placing, Removing, Hashing, Installing, Evicting
    <2> QED
      BY <1>0, <1>1, <2>1, <2>2, AloneStep DEF Set
  <1>5. CASE StatFlight(t)
    <2>1. /\ Goto(t, IF CachedMeanwhile(t) THEN "ok" ELSE "fetch")
          /\ Set(t, seen(NoContent)) /\ pc[t] = "stat_flight" /\ UNCHANGED flights
      BY <1>5 DEF StatFlight
    <2>2. ~IsSum(k) /\ j.seen = records[k] /\ Held(j.bundle) = {} /\ k \in Path
      BY <1>0, <2>1 DEF Knows, Finding, Placed
    <2>3. CASE CachedMeanwhile(t)
      <3>1. Same("ok", seen(NoContent))
        BY <1>2, <2>2, <2>3 DEF CachedMeanwhile, Positive, Knows, Finding, Placing, Removing,
                                Hashing, Installing, Evicting
      <3> QED
        BY <1>0, <1>1, <2>1, <2>3, <3>1, AloneStep DEF Set
    <2>4. CASE ~CachedMeanwhile(t)
      <3>1. files[k] = NoContent
        BY <1>0, <2>2, <2>4 DEF CachedMeanwhile, Positive, Consistent
      <3>2. Same("fetch", seen(NoContent))
        BY <1>2, <2>2, <3>1 DEF Knows, Finding, Placing, Removing, Hashing, Installing, Evicting
      <3> QED
        BY <1>0, <1>1, <2>1, <2>4, <3>2, AloneStep DEF Set
    <2> QED
      BY <2>3, <2>4
  <1>6. CASE GetSum(t)
    <2>1. /\ Goto(t, "stat_sum") /\ Set(t, seen(records[j.want])) /\ pc[t] = "get_sum"
          /\ UNCHANGED flights
      BY <1>6 DEF GetSum, Read
    <2>2. Same("stat_sum", seen(records[j.want]))
      BY <1>0, <1>2, <2>1 DEF Knows, Finding, Placing, Removing, Hashing, Installing, Evicting
    <2> QED
      BY <1>0, <1>1, <2>1, <2>2, AloneStep DEF Set
  <1>7. CASE StatSum(t)
    <2>1. /\ Goto(t, IF Positive(k, j.seen) THEN "ok" ELSE "source_get")
          /\ Set(t, seen(NoContent)) /\ pc[t] = "stat_sum" /\ UNCHANGED flights
      BY <1>7 DEF StatSum
    <2>2. Held(j.bundle) = {} /\ IsSum(j.want) /\ k = j.want
      BY <1>0, <2>1 DEF Knows, Finding, Hashing
    <2>3. CASE Positive(k, j.seen)
      <3>1. Same("ok", seen(NoContent))
        BY <1>2, <2>2, <2>3 DEF Positive, Knows, Finding, Placing, Removing, Hashing, Installing,
                                Evicting
      <3> QED
        BY <1>0, <1>1, <2>1, <2>3, <3>1, AloneStep DEF Set
    <2>4. CASE ~Positive(k, j.seen)
      <3>1. Same("source_get", seen(NoContent))
        BY <1>2, <2>2 DEF Knows, Finding, Placing, Removing, Hashing, Installing, Evicting
      <3> QED
        BY <1>0, <1>1, <2>1, <2>4, <3>1, AloneStep DEF Set
    <2> QED
      BY <2>3, <2>4
  <1>8. CASE SourceGet(t)
    <2>1. /\ UNCHANGED <<job, flights>> /\ pc[t] = "source_get"
          /\ Goto(t, "err") \/ Goto(t, "source_hash")
      BY <1>8 DEF SourceGet
    <2>2. Same("source_hash", j)
      BY <1>0, <2>1 DEF Knows, Finding, Placing, Removing, Hashing, Installing, Evicting
    <2> QED
      BY <1>0, <1>1, <1>2, <2>1, <2>2, AloneStep, DoneStep
  <1>9. CASE SourceHash(t)
    <2> DEFINE source == files[MainOf(j.want)]
               b == [EmptyStore EXCEPT ![j.want] = Computed(source.of)]
               made == [j EXCEPT !.bundle = b, !.left = {j.want}]
    <2>1. CASE source = NoContent
      BY <1>1, <1>9, <2>1, DoneStep DEF SourceHash
    <2>2. CASE source # NoContent
      <3>1. /\ Goto(t, "mkdir") /\ Set(t, made) /\ pc[t] = "source_hash" /\ UNCHANGED flights
        BY <1>9, <2>2 DEF SourceHash
      <3>2. IsSum(j.want) /\ k = j.want /\ j.want \in Path
        BY <1>0, <3>1 DEF Knows, Finding, Hashing, Placed
      <3>3. source \in Content
        BY <2>2, <3>2, PathFacts DEF Shape, Store
      <3>4. Held(b) = {j.want}
        BY <3>2, <3>3, SumBundle
      <3>5. made.bundle = b /\ made.left = {j.want} /\ made.key = j.want
        BY <1>0, <3>2 DEF Shape, Job
      <3> HIDE DEF made
      <3>6. Same("mkdir", made)
        <4>1. Finding("mkdir", made, files, records)
          BY DEF Finding, Hashing
        <4>2. Placing("mkdir", made, files, records)
          BY <2>2, <3>2, <3>4, <3>5 DEF Placing, Installing, Evicting
        <4>3. Removing("mkdir", made, files, records, flights, budget[t])
          BY DEF Removing
        <4> QED
          BY <4>1, <4>2, <4>3 DEF Knows
      <3> QED
        BY <1>0, <1>1, <3>1, <3>6, AloneStep DEF Set
    <2> QED
      BY <2>1, <2>2
  <1> QED
    BY <1>4, <1>5, <1>6, <1>7, <1>8, <1>9 DEF Download

\* Out of a flight: what succeeded is there.
LEMMA LoneLeave ==
    ASSUME Alone, AloneInv, NEW t \in Tasks, pc[t] \in {"take", "remove"}, Leave(t)
    PROVE  LoneInv'
PROOF
  <1> USE DEF AloneInv
  <1> DEFINE k == job[t].key
             w == job[t].want
             outcome == cells[k][job[t].cell]
             at == After(t, k, outcome)
             again == [NoJob EXCEPT !.want = w, !.key = w, !.cell = job[t].outer]
  <1>1. /\ k \in Path /\ w \in Path /\ outcome \in Outcomes
        /\ k # w => IsSum(w)
    BY DEF Placed, Workers, Owned, OwnedBy, Owner
  <1>2. /\ Goto(t, at) /\ Set(t, IF at = "idle" THEN NoJob ELSE again)
        /\ UNCHANGED <<records, files, budget>>
    BY DEF Leave
  <1>3. again.want = w /\ again.key = w /\ Held(again.bundle) = {}
    BY EmptyBundle DEF NoJob
  <1>4. CASE at \in {"idle", "err"}
    <2> HIDE DEF at
    <2> QED
      BY <1>2, <1>4, DoneStep
  <1>5. CASE at \notin {"idle", "err"}
    <2>1. outcome = "ok" /\ at = IF w = k THEN "get_final" ELSE "get_sum"
      BY <1>1, <1>5 DEF After, Outcomes
    <2>2. files[k] # NoContent
      BY <2>1 DEF FlightInv, Handed
    <2> HIDE DEF again, at
    <2>3. Knows(at, again, files', records', flights', budget'[t])
      BY <1>1, <1>2, <1>3, <2>1, <2>2
         DEF Knows, Finding, Placing, Removing, Hashing, Installing, Evicting
    <2>4. job' = [job EXCEPT ![t] = again]
      BY <1>2, <1>5 DEF Set
    <2>5. Consistent(files', records')
      BY <1>2 DEF LoneInv
    <2> QED
      BY <1>2, <2>3, <2>4, <2>5, AloneStep
  <1> QED
    BY <1>4, <1>5

\* Entering a flight and leaving it.
LEMMA LoneFly ==
    ASSUME Alone, AloneInv, NEW t \in Tasks, Fly(t)
    PROVE  LoneInv'
PROOF
  <1> USE DEF AloneInv
  <1> DEFINE j == job[t]
             k == job[t].key
  <1>0. /\ Knows(pc[t], j, files, records, flights, budget[t])
        /\ Consistent(files, records) /\ t \in Workers
    BY DEF LoneInv, Workers
  <1>1. UNCHANGED <<records, files, budget>>
    BY FlyMoves
  <1>2. CASE Enter(t)
    <2> DEFINE held == [j EXCEPT !.cell = CellOf(k)]
    <2>1. Goto(t, "wait") /\ Set(t, held) /\ Held(j.bundle) = {}
      BY <1>0, <1>2 DEF Enter, Knows, Finding
    <2>2. held.bundle = j.bundle
      BY DEF Shape, Job
    <2> HIDE DEF held
    <2>3. Knows("wait", held, files', records', flights', budget'[t])
      BY <2>1, <2>2 DEF Knows, Finding, Placing, Removing, Hashing, Installing, Evicting
    <2> QED
      BY <1>0, <1>1, <2>1, <2>3, AloneStep DEF Set
  <1>3. CASE Initialise(t) /\ IsSum(k)
    <2> DEFINE main == [j EXCEPT !.key = MainOf(@), !.outer = j.cell, !.cell = NoFlight]
    <2>1. Goto(t, "join") /\ Set(t, main) /\ Held(j.bundle) = {}
      BY <1>0, <1>3 DEF Initialise, Knows, Finding
    <2>2. main.bundle = j.bundle
      BY <1>0 DEF Shape, Job
    <2> HIDE DEF main
    <2>3. Knows("join", main, files', records', flights', budget'[t])
      BY <2>1, <2>2 DEF Knows, Finding, Placing, Removing, Hashing, Installing, Evicting
    <2> QED
      BY <1>0, <1>1, <2>1, <2>3, AloneStep DEF Set
  <1>4. CASE Initialise(t) /\ ~IsSum(k)
    <2>1. Goto(t, "get_flight") /\ job' = job /\ Held(j.bundle) = {}
      BY <1>0, <1>4 DEF Initialise, Knows, Finding
    <2>2. Knows("get_flight", j, files', records', flights', budget'[t])
      BY <1>4, <2>1 DEF Knows, Finding, Placing, Removing, Hashing, Installing, Evicting
    <2>3. job' = [job EXCEPT ![t] = j]
      BY <2>1 DEF Shape
    <2> QED
      BY <1>0, <1>1, <2>1, <2>2, <2>3, AloneStep
  <1>5. CASE Complete(t)
    BY <1>1, <1>5, DoneStep DEF Complete
  <1>6. CASE Take(t) \/ Remove(t)
    <2>1. pc[t] \in {"take", "remove"}
      <3>1. ASSUME pc[t] = "wait", cells[k][j.cell] \in Outcomes
            PROVE  FALSE
        <4>1. k \in Path /\ j.cell \in Cells
          BY <1>0, <3>1 DEF Placed, Owned, OwnedBy, Owner
        <4> QED
          BY <3>1, <4>1 DEF FlightInv, Clean, Alone
      <3> QED
        BY <1>6, <3>1 DEF Take, Remove
    <2>2. CASE Leave(t)
      BY <2>1, <2>2, LoneLeave
    <2>3. CASE ~Leave(t)
      BY <1>1, <1>6, <2>3, DoneStep DEF Take, Remove
    <2> QED
      BY <2>2, <2>3
  <1> QED
    BY <1>2, <1>3, <1>4, <1>5, <1>6 DEF Fly

LEMMA FlightSteps ==
    ASSUME Alone, AloneInv, [Next]_vars
    PROVE  FlightInv'
PROOF
  <1> USE DEF AloneInv
  <1>1. /\ late' = {} /\ Vacant \notin Outcomes
        /\ \A t \in Tasks : t \notin Outcomes
    BY NoneLate, ConstantsAssumption DEF Alone, FlightInv
  \* Outside of the end of a flight no cell has an outcome.
  <1>2. ASSUME NEW t \in Tasks, pc[t] \notin {"take", "remove"}
        PROVE  \A p \in Path, c \in Cells : cells[p][c] \notin Outcomes
    BY <1>2 DEF FlightInv, Clean, Alone
  <1>3. ASSUME NEW t \in Tasks, pc'[t] \notin {"take", "remove"}, overtaken' = overtaken,
               \A p \in Path, c \in Cells : cells'[p][c] \notin Outcomes
        PROVE  FlightInv'
    <2>1. \A u \in Tasks : u = t
      BY DEF Alone
    <2> QED
      BY <1>1, <1>3, <2>1 DEF FlightInv, Clean, Handed
  <1>4. ASSUME NEW t \in Tasks, pc[t] \notin {"take", "remove"}, overtaken' = overtaken,
               NEW at, at \notin {"take", "remove"}, Goto(t, at),
               \/ cells' = cells
               \/ \E registry, jobs : cells' = Reclaimed(Abandon(t), registry, jobs)
        PROVE  FlightInv'
    <2>1. pc'[t] = at
      BY <1>4 DEF Goto, Shape, Workers
    <2>2. \A p \in Path, c \in Cells : cells'[p][c] \notin Outcomes
      BY <1>1, <1>2, <1>4 DEF Reclaimed, Abandon
    <2> QED
      BY <1>3, <1>4, <2>1, <2>2
  <1>5. ASSUME NEW t \in Tasks,
               \/ Serve(t) \/ Download(t) \/ Finish(t) \/ Cancel(t)
               \/ \E p \in Path : Begin(t, p)
        PROVE  FlightInv'
    <2>1. CASE Serve(t)
      <3>1. /\ pc[t] \notin {"take", "remove"} /\ overtaken' = overtaken /\ cells' = cells
            /\ \E at \in {"hit", "join", "open", "stat_final", "guard", "idle", "stream"} : Goto(t, at)
        BY <2>1 DEF Serve, StatFirst, Hit, GetFinal, StatFinal, Guard, Open, Read, Stop, Alone
      <3> QED
        BY <1>4, <3>1
    <2>2. CASE Download(t)
      <3>1. /\ pc[t] \notin {"take", "remove"} /\ overtaken' = overtaken /\ cells' = cells
            /\ \E at \in {"stat_flight", "fetch", "stat_sum", "source_get", "source_hash", "mkdir",
                          "ok", "err"} : Goto(t, at)
        BY <2>2 DEF Download, GetFlight, StatFlight, GetSum, StatSum, SourceGet, SourceHash, Read
      <3> QED
        BY <1>4, <3>1
    <2>3. CASE Finish(t) \/ Cancel(t) \/ \E p \in Path : Begin(t, p)
      <3>1. /\ pc[t] \notin {"take", "remove"} /\ overtaken' = overtaken
            /\ \E at \in {"idle", "stat_first"} : Goto(t, at)
            /\ cells' = cells \/ \E registry, jobs : cells' = Reclaimed(Abandon(t), registry, jobs)
        BY <2>3 DEF Finish, Cancel, Begin, Stop
      <3> QED
        BY <1>4, <3>1
    <2> QED
      BY <1>5, <2>1, <2>2, <2>3
  <1>6. ASSUME NEW t \in Tasks, Fetch(t) \/ Install(t) \/ Enforce(t)
        PROVE  FlightInv'
    <2>1. /\ pc[t] \notin {"take", "remove"} /\ overtaken' = overtaken /\ cells' = cells
          /\ \/ \E at \in {"mkdir", "upsert", "rename", "stats", "candidates", "evict", "unlink",
                           "delete", "ok", "err"} : Goto(t, at)
             \/ pc' = pc
      BY <1>6 DEF Fetch, Install, Enforce, Mkdir, Upsert, Rename, Stats, Candidates, Evict, Unlink,
                  Delete
    <2>2. pc' = pc => Goto(t, pc[t])
      BY DEF Goto, Shape
    <2> QED
      BY <1>4, <2>1, <2>2
  <1>7. ASSUME NEW t \in Tasks, Fly(t)
        PROVE  FlightInv'
    <2> DEFINE k == job[t].key
               x == job[t].cell
    <2>0. t \in Workers /\ \A u \in Tasks : u = t
      BY DEF Alone, Workers
    <2>1. CASE Enter(t)
      <3>1. ~Overtakes(k)
        BY <2>0, <2>1 DEF Overtakes, Enter
      <3>2. overtaken' = overtaken
        <4>1. overtaken' = (overtaken \/ Overtakes(k)) /\ overtaken \in BOOLEAN
          BY <2>1 DEF Enter, Counted
        <4> QED
          BY Zenon, <3>1, <4>1
      <3> QED
        BY <1>4, <2>1, <3>2 DEF Enter
    <2>2. CASE Initialise(t)
      <3>1. \A p \in Path, c \in Cells : cells'[p][c] \in {cells[p][c], t}
        BY <2>2 DEF Initialise, Shape, CellTable
      <3>2. pc[t] \notin {"take", "remove"} /\ pc'[t] \notin {"take", "remove"}
        BY <2>0, <2>2 DEF Initialise, Goto, Shape
      <3>3. \A p \in Path, c \in Cells : cells'[p][c] \notin Outcomes
        BY <1>1, <1>2, <3>1, <3>2
      <3> QED
        BY <1>3, <2>2, <3>2, <3>3 DEF Initialise
    <2>3. CASE Complete(t)
      <3>1. pc[t] \in Outcomes /\ pc[t] \notin {"take", "remove"} /\ pc'[t] = "take" /\ job' = job
        BY <2>0, <2>3 DEF Complete, Goto, Shape, Outcomes
      <3>2. k \in Path /\ x \in Cells
        BY <2>0, <3>1 DEF Placed, Owned, OwnedBy, Owner, Downloading, Outcomes
      <3>3. \A p \in Path, c \in Cells :
              cells'[p][c] = IF p = k /\ c = x THEN pc[t] ELSE cells[p][c]
        BY <2>3, <3>2 DEF Complete, Shape, CellTable
      <3>4. \A p \in Path, c \in Cells : cells'[p][c] \in Outcomes => p = k /\ c = x
        BY <1>2, <3>1, <3>3
      <3>5. pc[t] = "ok" => files[k] # NoContent
        BY DEF LoneInv, Knows, Placing
      <3>6. Clean'
        BY <3>1, <3>4 DEF Clean
      <3>7. Handed'
        BY <2>0, <2>3, <3>1, <3>2, <3>3, <3>5 DEF Handed, Complete
      <3>8. ~overtaken'
        BY <2>3 DEF Complete, FlightInv
      <3> QED
        BY <1>1, <3>6, <3>7, <3>8 DEF FlightInv
    <2>4. CASE Take(t) \/ Remove(t)
      <3>1. pc[t] \in {"take", "remove"}
        <4>1. ASSUME pc[t] = "wait", cells[k][x] \in Outcomes
              PROVE  FALSE
          <5>1. k \in Path /\ x \in Cells
            BY <2>0, <4>1 DEF Placed, Owned, OwnedBy, Owner
          <5> QED
            BY <1>2, <4>1, <5>1
        <4> QED
          BY <2>4, <4>1 DEF Take, Remove
      <3>2. k \in Path /\ job[t].want \in Path /\ x \in Cells
        BY <2>0, <3>1 DEF Placed, Owned, OwnedBy, Owner
      <3>3. CASE ~Leave(t)
        <4>1. pc'[t] = "remove" /\ UNCHANGED <<files, cells, job, overtaken>>
          BY <2>0, <2>4, <3>3 DEF Take, Remove, Goto, Shape
        <4> QED
          BY <1>1, <2>0, <3>1, <4>1 DEF FlightInv, Clean, Handed
      <3>4. CASE Leave(t)
        <4>1. flights'[k] # x
          <5>1. pc'[t] # "remove"
            BY <2>0, <3>4 DEF Leave, After, Goto, Shape
          <5>2. \/ flights[k] # x /\ UNCHANGED flights
                \/ flights' = [flights EXCEPT ![k] = NoFlight]
            BY <2>0, <2>4, <5>1 DEF Take, SameFlight, Remove, Goto, Shape
          <5> QED
            BY <3>2, <5>2, ConstantsAssumption DEF Shape
        <4>2. /\ \A p \in Path, c \in Cells :
                    cells'[p][c] \in {cells[p][c], Vacant}
              /\ x \notin InUse(k, flights', job') => cells'[k][x] = Vacant
              /\ overtaken' = overtaken
          BY <3>2, <3>4 DEF Leave, Reclaimed
        <4>3. /\ job'[t].key = k => job'[t].cell = NoFlight
              /\ job'[t].outer = NoFlight
          <5> DEFINE again == [NoJob EXCEPT !.want = job[t].want, !.key = job[t].want,
                                            !.cell = job[t].outer]
          <5>1. job'[t] \in {NoJob, again}
            BY <2>0, <3>4 DEF Leave, Set, Shape
          <5>2. /\ again.key = job[t].want /\ again.cell = job[t].outer /\ again.outer = NoFlight
                /\ NoJob.cell = NoFlight /\ NoJob.outer = NoFlight
            BY DEF NoJob
          <5>3. k = job[t].want => job[t].outer = NoFlight
            BY <3>1 DEF Owned, OwnedBy, Owner
          <5> HIDE DEF again
          <5> QED
            BY <5>1, <5>2, <5>3
        <4>4. x \notin InUse(k, flights', job')
          BY <2>0, <3>2, <4>1, <4>3, ConstantsAssumption DEF InUse
        <4>5. \A p \in Path, c \in Cells : cells'[p][c] \notin Outcomes
          <5>1. \A p \in Path, c \in Cells : cells[p][c] \in Outcomes => p = k /\ c = x
            BY <2>0 DEF FlightInv, Clean
          <5> QED
            BY <1>1, <4>2, <4>4, <5>1
        <4>6. pc'[t] \notin {"take", "remove"}
          BY <2>0, <3>4 DEF Leave, After, Goto, Shape
        <4> QED
          BY <1>3, <4>2, <4>5, <4>6
      <3> QED
        BY <3>3, <3>4
    <2> QED
      BY <1>7, <2>1, <2>2, <2>3, <2>4 DEF Fly
  <1>8. CASE Crash
    BY <1>1, <1>8 DEF Crash, FlightInv, Clean, Handed, Workers
  <1>9. CASE UNCHANGED vars
    BY <1>9 DEF vars, FlightInv, Clean, Handed
  <1> QED
    BY <1>5, <1>6, <1>7, <1>8, <1>9 DEF Next, TaskStep, Alone, FlightInv

\* What a bundle holds, in terms of the path it is for.
LEMMA BundleOf ==
    ASSUME Alone, AloneInv, NEW t \in Tasks, pc[t] \in Installing
    PROVE  LET k == job[t].key
               b == job[t].bundle
           IN  /\ k \in Path /\ k \in Held(b) /\ b \in Store
               /\ job[t].left \subseteq Held(b) /\ k \in job[t].left
               /\ \A q \in Held(b) : b[q] \in Content /\ b[q].by = WrittenBy(q)
               /\ ~IsSum(k) => /\ Held(b) = {k, SumOf(k)} /\ b[SumOf(k)] = Computed(b[k].of)
                               /\ files[k] = NoContent
               /\ IsSum(k) => /\ Held(b) = {k} /\ b[k] = Computed(files[MainOf(k)].of)
                              /\ files[MainOf(k)] # NoContent
PROOF
  <1> USE DEF AloneInv
  <1> DEFINE k == job[t].key
             b == job[t].bundle
  <1>1. t \in Workers /\ k \in Path /\ b \in Store
    BY DEF Workers, Placed, Shape, Job, Installing
  <1>2. k \in job[t].left /\ job[t].left \subseteq Held(b)
    BY <1>1 DEF LoneInv, Knows, Placing, Fitted, Fit
  <1>3. CASE ~IsSum(k)
    <2>1. PICK v \in Versions : b = Prepared(k, v)
      BY <1>3 DEF LoneInv, Knows, Placing
    <2>2. files[k] = NoContent
      BY <1>3 DEF LoneInv, Knows, Placing
    <2>3. /\ Held(b) = {k, SumOf(k)} /\ b[k] = Fetched(v) /\ b[SumOf(k)] = Computed(v)
          /\ Fetched(v) \in Content /\ Computed(v) \in Content
      BY <1>1, <1>3, <2>1, MainBundle
    <2>4. Fetched(v).by = WrittenBy(k) /\ Computed(v).by = WrittenBy(SumOf(k)) /\ Fetched(v).of = v
      BY <1>1, <1>3, PathFacts DEF Fetched, Computed, WrittenBy
    <2> QED
      BY <1>1, <1>2, <1>3, <2>2, <2>3, <2>4
  <1>4. CASE IsSum(k)
    <2> DEFINE c == files[MainOf(k)]
    <2>1. c # NoContent /\ b = [EmptyStore EXCEPT ![k] = Computed(c.of)]
      BY <1>4 DEF LoneInv, Knows, Placing
    <2>2. c \in Content
      BY <1>1, <2>1, PathFacts DEF Shape, Store
    <2>3. Held(b) = {k} /\ b[k] = Computed(c.of) /\ Computed(c.of) \in Content
      BY <1>1, <2>1, <2>2, SumBundle
    <2>4. Computed(c.of).by = WrittenBy(k)
      BY <1>4 DEF Computed, WrittenBy
    <2> QED
      BY <1>1, <1>2, <1>4, <2>1, <2>3, <2>4
  <1> QED
    BY <1>3, <1>4

\* An installation: the rows, then the files, the main file last.
LEMMA LoneInstall ==
    ASSUME Alone, AloneInv, NEW t \in Tasks, Fetch(t) \/ Install(t)
    PROVE  LoneInv'
PROOF
  <1> USE DEF AloneInv
  <1> DEFINE j == job[t]
             k == job[t].key
             b == job[t].bundle
  <1>0. /\ Knows(pc[t], j, files, records, flights, budget[t])
        /\ Consistent(files, records) /\ t \in Workers /\ job = [job EXCEPT ![t] = j]
    BY DEF LoneInv, Workers, Shape
  <1>1. CASE Fetch(t)
    <2>1. CASE Goto(t, "err") /\ UNCHANGED job
      BY <1>1, <2>1, DoneStep DEF Fetch
    <2>2. CASE ~(Goto(t, "err") /\ UNCHANGED job)
      <3>1. PICK v \in Versions :
               /\ Goto(t, "mkdir")
               /\ Set(t, [j EXCEPT !.bundle = Prepared(k, v), !.left = Held(Prepared(k, v))])
        BY <1>1, <2>2 DEF Fetch
      <3>2. pc[t] = "fetch" /\ ~IsSum(k) /\ files[k] = NoContent /\ k \in Path
            /\ UNCHANGED <<records, files, flights, budget>>
        BY <1>0, <1>1 DEF Fetch, Knows, Finding, Placed
      <3> DEFINE made == [j EXCEPT !.bundle = Prepared(k, v), !.left = Held(Prepared(k, v))]
      <3>3. made.bundle = Prepared(k, v) /\ made.left = Held(Prepared(k, v)) /\ made.key = k
        BY <1>0 DEF Shape, Job
      <3>4. k \in Held(Prepared(k, v))
        BY <3>2, PreparedHolds
      <3> HIDE DEF made
      <3>5. Knows("mkdir", made, files, records, flights, budget[t])
        <4>1. Finding("mkdir", made, files, records)
          BY DEF Finding, Hashing
        <4>2. Placing("mkdir", made, files, records)
          BY <3>2, <3>3, <3>4 DEF Placing, Installing, Evicting
        <4>3. Removing("mkdir", made, files, records, flights, budget[t])
          BY DEF Removing
        <4> QED
          BY <4>1, <4>2, <4>3 DEF Knows
      <3> QED
        BY <1>0, <3>1, <3>2, <3>5, AloneStep DEF Set, made
    <2> QED
      BY <2>1, <2>2
  <1>2. CASE Mkdir(t)
    <2>1. /\ pc[t] = "mkdir" /\ Goto(t, "upsert")
          /\ UNCHANGED <<records, files, flights, job, budget>>
      BY <1>2 DEF Mkdir
    <2>2. Knows("upsert", j, files, records, flights, budget[t])
      BY <1>0, <2>1 DEF Knows, Finding, Placing, Removing, Hashing, Installing, Evicting
    <2> QED
      BY <1>0, <2>1, <2>2, AloneStep
  <1>3. CASE Upsert(t)
    <2>1. /\ pc[t] = "upsert" /\ Goto(t, "rename") /\ records' = Overlay(records, b)
          /\ UNCHANGED <<files, flights, job, budget>>
      BY <1>3 DEF Upsert
    <2>2. /\ k \in Path /\ k \in Held(b) /\ b \in Store /\ k \in j.left
          /\ \A q \in Held(b) : b[q] \in Content /\ b[q].by = WrittenBy(q)
          /\ ~IsSum(k) => Held(b) = {k, SumOf(k)} /\ files[k] = NoContent
          /\ IsSum(k) => Held(b) = {k}
      BY <2>1, BundleOf DEF Installing
    <2>3. \A q \in Path : records'[q] = IF q \in Held(b) THEN b[q] ELSE records[q]
      BY <2>1 DEF Overlay, Held
    <2>4. \A q \in Held(b) : IsSum(q) \/ files[q] = NoContent
      BY <2>2, PathFacts
    <2>5. Consistent(files', records')
      <3>1. NoContent \notin Content
        BY ConstantsAssumption
      <3> QED
        BY <1>0, <2>1, <2>2, <2>3, <2>4, <3>1 DEF Consistent
    <2>6. Knows("rename", j, files', records', flights', budget'[t])
      <3>1. Finding("rename", j, files', records')
        BY DEF Finding, Hashing
      <3>2. Placing("rename", j, files', records')
        <4>1. Placing("upsert", j, files, records)
          BY <1>0, <2>1 DEF Knows
        <4>2. j.left = Held(b)
          BY <4>1 DEF Placing
        <4>3. \A p \in Held(b) : records'[p] = b[p]
          BY <2>3 DEF Held
        <4> QED
          BY <2>1, <4>1, <4>2, <4>3 DEF Placing, Installing, Evicting
      <3>3. Removing("rename", j, files', records', flights', budget'[t])
        BY DEF Removing
      <3> QED
        BY <3>1, <3>2, <3>3 DEF Knows
    <2> QED
      BY <1>0, <2>1, <2>5, <2>6, AloneStep
  <1>4. CASE Rename(t)
    <2> DEFINE left == j.left
               p == NextRename(left)
               rest == [j EXCEPT !.left = @ \ {p}]
               at == IF left \ {p} # {} THEN "rename"
                     ELSE IF MaxSize = Unlimited THEN "ok" ELSE "stats"
    <2>1. pc[t] = "rename" /\ UNCHANGED <<records, flights, budget>>
      BY <1>4 DEF Rename
    <2>2. /\ k \in Path /\ k \in Held(b) /\ b \in Store /\ left \subseteq Held(b) /\ k \in left
          /\ \A q \in Held(b) : b[q] \in Content /\ b[q].by = WrittenBy(q)
          /\ ~IsSum(k) => /\ Held(b) = {k, SumOf(k)} /\ b[SumOf(k)] = Computed(b[k].of)
                          /\ files[k] = NoContent
          /\ IsSum(k) => /\ Held(b) = {k} /\ b[k] = Computed(files[MainOf(k)].of)
                         /\ files[MainOf(k)] # NoContent
      BY <2>1, BundleOf DEF Installing
    <2>3. CASE DirectoryOf(p) \notin dirs
      BY <1>4, <2>1, <2>3, DoneStep DEF Rename
    <2>4. CASE DirectoryOf(p) \in dirs
      <3>1. files' = [files EXCEPT ![p] = b[p]] /\ Set(t, rest) /\ Goto(t, at)
        BY <1>4, <2>4 DEF Rename, AllRenamed
      <3>2. p \in left /\ (IsSum(p) \/ \A q \in left : ~IsSum(q))
        <4>1. \E q \in left : IsSum(q) \/ \A r \in left : ~IsSum(r)
          BY <2>2
        <4> QED
          BY <4>1 DEF NextRename
      <3>3. rest.left = left \ {p} /\ rest.bundle = b /\ rest.key = k
        BY <1>0 DEF Shape, Job
      <3>4. /\ \A q \in Held(b) : records[q] = b[q]
            /\ \A q \in Held(b) \ left : files[q] = b[q]
        BY <1>0, <2>1 DEF Knows, Placing
      <3> HIDE DEF p, rest
      <3>5. \A q \in Path : files'[q] = IF q = p THEN b[p] ELSE files[q]
        BY <3>1 DEF Shape, Store
      <3>6. p \in Path /\ b[p] # NoContent
        BY <2>2, <3>2 DEF Held
      <3>7. ~IsSum(p) => /\ p = k /\ files[p] = NoContent /\ left \ {p} = {}
                         /\ files[SumOf(p)] = b[SumOf(p)] /\ b[SumOf(p)] = Computed(b[p].of)
        <4>1. SumOf(k) \in Path /\ (~IsSum(k) => IsSum(SumOf(k)))
          BY <2>2, PathFacts
        <4> QED
          BY <2>2, <3>2, <3>4, <4>1
      <3>8. IsSum(p) /\ ~IsSum(k) => p = SumOf(k) /\ k \in left \ {p} /\ files'[k] = NoContent
        BY <2>2, <3>2, <3>5
      <3>9. IsSum(p) /\ IsSum(k) => p = k /\ left \ {p} = {}
        BY <2>2, <3>2
      <3>10. Consistent(files', records')
        <4>1. ASSUME NEW q \in Path, ~IsSum(q), files'[q] # NoContent
              PROVE  /\ records[q] = files'[q]
                     /\ files'[SumOf(q)] \in {NoContent, Computed(files'[q].of)}
          <5>1. SumOf(q) \in Path /\ IsSum(SumOf(q)) /\ SumOf(q) # q
            BY <4>1, PathFacts
          <5>2. CASE q = p
            BY <2>2, <3>2, <3>4, <3>5, <3>7, <4>1, <5>1, <5>2
          <5>3. CASE q # p /\ SumOf(q) # p
            BY <1>0, <3>5, <4>1, <5>1, <5>3 DEF Consistent
          <5>4. CASE q # p /\ SumOf(q) = p
            <6>1. files'[q] = files[q] /\ files'[SumOf(q)] = b[p]
              BY <3>5, <5>1, <5>4
            <6>2. IsSum(k)
              <7>1. ~IsSum(k) => q = k
                BY <2>2, <3>8, <4>1, <5>1, <5>4, PathFacts
              <7> QED
                BY <3>8, <4>1, <5>1, <5>4, <7>1
            <6>3. p = k /\ MainOf(k) = q
              BY <3>9, <4>1, <5>1, <5>4, <6>2, PathFacts
            <6> QED
              BY <1>0, <2>2, <4>1, <6>1, <6>2, <6>3 DEF Consistent
          <5> QED
            BY <5>2, <5>3, <5>4
        <4>2. ASSUME NEW q \in Path, files'[q] # NoContent
              PROVE  files'[q].by = WrittenBy(q) /\ records[q] # NoContent
          BY <1>0, <2>2, <3>2, <3>4, <3>5, <3>6, <4>2 DEF Consistent
        <4> QED
          BY <1>0, <2>1, <4>1, <4>2 DEF Consistent
      <3>11. Knows(at, rest, files', records', flights', budget'[t])
        <4>1. CASE left \ {p} # {}
          <5>1. IsSum(p) /\ ~IsSum(k) /\ at = "rename"
            BY <3>7, <3>9, <4>1
          <5>2. \E v \in Versions : b = Prepared(k, v)
            BY <1>0, <2>1, <5>1 DEF Knows, Placing, Installing
          <5>3. \A q \in Held(b) \ (left \ {p}) : files'[q] = b[q]
            BY <3>4, <3>5 DEF Held
          <5>4. Placing("rename", rest, files', records')
            BY <2>1, <3>3, <3>4, <3>8, <5>1, <5>2, <5>3 DEF Placing, Installing, Evicting
          <5>5. Finding("rename", rest, files', records')
            BY DEF Finding, Hashing
          <5>6. Removing("rename", rest, files', records', flights', budget'[t])
            BY DEF Removing
          <5> QED
            BY <5>1, <5>4, <5>5, <5>6 DEF Knows
        <4>2. CASE left \ {p} = {}
          <5>1. p = k /\ files'[k] # NoContent
            BY <2>2, <3>5, <3>6, <4>2
          <5>2. at \in {"ok", "stats"} /\ (at = "ok" <=> MaxSize = Unlimited)
            BY <4>2
          <5> HIDE DEF at
          <5>3. Placing(at, rest, files', records')
            BY <2>2, <3>3, <5>1, <5>2 DEF Placing, Installing, Evicting
          <5>4. Finding(at, rest, files', records')
            BY <5>2 DEF Finding, Hashing
          <5>5. Removing(at, rest, files', records', flights', budget'[t])
            BY <5>2 DEF Removing
          <5> QED
            BY <5>3, <5>4, <5>5 DEF Knows
        <4> QED
          BY <4>1, <4>2
      <3> QED
        BY <3>1, <3>10, <3>11, AloneStep DEF Set
    <2> QED
      BY <2>3, <2>4
  <1> QED
    BY <1>1, <1>2, <1>3, <1>4 DEF Install

-----------------------------------------------------------------------------
(* Eviction                                                                 *)

\* During an eviction nobody is guarded, so only a flight makes a path busy.
LEMMA BusyAlone ==
    ASSUME Alone, NEW t \in Tasks, pc[t] \notin {"open", "stream"}
    PROVE  \A p \in Path : Busy(p) <=> flights[p] # NoFlight
PROOF
  BY DEF Alone, Busy, Refreshing, Guarded

\* An eviction: the candidates, and of each the file, then the row.
LEMMA LoneEnforce ==
    ASSUME Alone, AloneInv, NEW t \in Tasks, Enforce(t)
    PROVE  LoneInv'
PROOF
  <1> USE DEF AloneInv
  <1> DEFINE j == job[t]
             k == job[t].key
             b == job[t].bundle
  <1>0. /\ Knows(pc[t], j, files, records, flights, budget[t])
        /\ Consistent(files, records) /\ t \in Workers /\ job = [job EXCEPT ![t] = j]
        /\ j \in Job
    BY DEF LoneInv, Workers, Shape
  <1>1. /\ pc[t] \in Evicting /\ UNCHANGED flights
        /\ MaxSize # Unlimited /\ k \in Held(b) /\ files[k] # NoContent
    <2>1. pc[t] \in Evicting /\ UNCHANGED flights
      BY DEF Enforce, Stats, Candidates, Evict, Unlink, Delete, Evicting
    <2> QED
      BY <1>0, <2>1 DEF Knows, Placing
  <1>2. MaxSize \in Nat /\ budget[t] \in Nat /\ TotalSize(records) \in Nat
    BY <1>0, <1>1, TotalNumber, ConstantsAssumption DEF Counted, Shape
  <1>3. \A at \in Evicting \cup {"ok"} : \A jj, fs, rs :
           jj.key = k /\ jj.bundle = b /\ fs[k] # NoContent
              => Finding(at, jj, fs, rs) /\ Placing(at, jj, fs, rs)
    BY <1>1 DEF Finding, Placing, Installing, Hashing, Evicting
  <1>4. CASE Stats(t)
    <2> DEFINE total == TotalSize(records)
               at == IF WithinLimit(total) THEN "ok" ELSE "candidates"
    <2>1. /\ budget' = [budget EXCEPT ![t] = IF WithinLimit(total) THEN 0 ELSE total]
          /\ Goto(t, at) /\ UNCHANGED <<records, files, job>>
      BY <1>4 DEF Stats
    <2>2. budget'[t] = IF WithinLimit(total) THEN 0 ELSE total
      BY <1>0, <2>1 DEF Counted
    <2>3. at \in Evicting \cup {"ok"}
      BY DEF Evicting
    <2>4. Removing(at, j, files, records, flights, budget'[t])
      BY <2>2 DEF Removing, Settles, WithinLimit
    <2> HIDE DEF at
    <2>5. Knows(at, j, files', records', flights', budget'[t])
      BY <1>1, <1>3, <2>1, <2>3, <2>4 DEF Knows
    <2> QED
      BY <1>0, <2>1, <2>5, AloneStep
  <1>5. CASE Candidates(t)
    <2> DEFINE all == [p \in Path |-> IF p \in Held(b) THEN NoContent ELSE records[p]]
               made == [j EXCEPT !.victims = all]
    <2>1. /\ Goto(t, "evict") /\ Set(t, made) /\ pc[t] = "candidates"
          /\ UNCHANGED <<records, files, budget>>
      BY <1>5 DEF Candidates
    <2>2. made.victims = all /\ made.key = k /\ made.bundle = b
      BY <1>0 DEF Job
    <2>3. /\ \A p \in Held(all) : p \notin Held(b) /\ all[p] = records[p]
          /\ \A p \in Held(records) \ Held(b) : p \in Held(all)
      BY DEF Held
    <2>4. budget[t] = TotalSize(records)
      BY <1>0, <2>1 DEF Knows, Removing
    <2> HIDE DEF made, all
    <2>5. Removing("evict", made, files, records, flights, budget[t])
      BY <2>2, <2>3, <2>4 DEF Removing
    <2>6. Knows("evict", made, files', records', flights', budget'[t])
      BY <1>1, <1>3, <2>1, <2>2, <2>5 DEF Knows, Evicting
    <2> QED
      BY <1>0, <2>1, <2>6, AloneStep DEF Set
  <1>6. CASE Evict(t)
    <2>0. pc[t] = "evict" /\ UNCHANGED <<records, files>>
      BY <1>6 DEF Evict
    <2>1. /\ \A p \in Held(j.victims) : p \notin Held(b) /\ j.victims[p] = records[p]
          /\ \A p \in Held(records) \ Held(b) : p \in Held(j.victims) \/ flights[p] # NoFlight
          /\ budget[t] = TotalSize(records)
      BY <1>0, <2>0 DEF Knows, Removing
    <2>2. CASE /\ WithinLimit(budget[t]) \/ Held(j.victims) = {}
               /\ Goto(t, "ok") /\ budget' = [budget EXCEPT ![t] = 0] /\ UNCHANGED job
      <3>1. Settles(j, records, flights)
        BY <2>1, <2>2 DEF Settles, WithinLimit
      <3>2. Removing("ok", j, files, records, flights, budget'[t])
        BY <3>1 DEF Removing
      <3>3. Knows("ok", j, files', records', flights', budget'[t])
        BY <1>1, <1>3, <2>0, <3>2 DEF Knows
      <3> QED
        BY <1>0, <2>0, <2>2, <3>3, AloneStep
    <2>3. ASSUME NEW p \in Held(j.victims), ~WithinLimit(budget[t]), UNCHANGED budget,
                 IF Busy(p)
                 THEN Set(t, [j EXCEPT !.victims[p] = NoContent]) /\ UNCHANGED pc
                 ELSE Set(t, [j EXCEPT !.victim = p]) /\ Goto(t, "unlink")
          PROVE  LoneInv'
      <3>1. p \in Path
        BY DEF Held
      <3>2. CASE Busy(p)
        <4> DEFINE made == [j EXCEPT !.victims[p] = NoContent]
        <4>1. made.key = k /\ made.bundle = b /\ made.victims = [j.victims EXCEPT ![p] = NoContent]
          BY <1>0 DEF Job
        <4>2. flights[p] # NoFlight
          BY <2>0, <3>1, <3>2, BusyAlone
        <4>3. Held(made.victims) = Held(j.victims) \ {p}
              /\ \A q \in Held(made.victims) : made.victims[q] = j.victims[q]
          BY <1>0, <3>1, <4>1 DEF Held, Job, Store
        <4>4. Goto(t, "evict") /\ Set(t, made)
          BY <1>0, <2>0, <2>3, <3>2 DEF Goto, Shape
        <4> HIDE DEF made
        <4>5. Removing("evict", made, files, records, flights, budget[t])
          BY <2>1, <4>1, <4>2, <4>3 DEF Removing
        <4>6. Knows("evict", made, files', records', flights', budget'[t])
          BY <1>1, <1>3, <2>0, <2>3, <4>1, <4>5 DEF Knows, Evicting
        <4> QED
          BY <1>0, <2>0, <4>4, <4>6, AloneStep DEF Set
      <3>3. CASE ~Busy(p)
        <4> DEFINE made == [j EXCEPT !.victim = p]
        <4>1. made.key = k /\ made.bundle = b /\ made.victims = j.victims /\ made.victim = p
          BY <1>0 DEF Job
        <4>2. Goto(t, "unlink") /\ Set(t, made)
          BY <2>3, <3>3
        <4> HIDE DEF made
        <4>3. Removing("unlink", made, files, records, flights, budget[t])
          BY <2>1, <2>3, <4>1 DEF Removing
        <4>4. Knows("unlink", made, files', records', flights', budget'[t])
          BY <1>1, <1>3, <2>0, <2>3, <4>1, <4>3 DEF Knows, Evicting
        <4> QED
          BY <1>0, <2>0, <4>2, <4>4, AloneStep DEF Set
      <3> QED
        BY <3>2, <3>3
    <2> QED
      BY <1>6, <2>2, <2>3 DEF Evict
  <1>7. CASE Unlink(t)
    <2> DEFINE p == j.victim
               freed == Freed(p, j.victims[p])
               rest == [records EXCEPT ![p] = NoContent]
               made == [j EXCEPT !.victims[p] = NoContent]
    <2>1. /\ pc[t] = "unlink" /\ files' = [files EXCEPT ![p] = NoContent]
          /\ budget' = [budget EXCEPT ![t] = IF @ > freed THEN @ - freed ELSE 0]
          /\ Set(t, made) /\ Goto(t, "delete") /\ UNCHANGED records
      BY <1>7 DEF Unlink, WithoutFile
    <2>2. /\ \A q \in Held(j.victims) : q \notin Held(b) /\ j.victims[q] = records[q]
          /\ \A q \in Held(records) \ Held(b) : q \in Held(j.victims) \/ flights[q] # NoFlight
          /\ budget[t] = TotalSize(records) /\ p \in Held(j.victims)
      BY <1>0, <2>1 DEF Knows, Removing
    <2>3. /\ made.key = k /\ made.bundle = b /\ made.victim = p
          /\ made.victims = [j.victims EXCEPT ![p] = NoContent]
      BY <1>0 DEF Job
    <2>4. /\ p \in Path /\ p \in Held(records) /\ p \notin Held(b) /\ p # k
          /\ freed = Size(p, records[p])
      BY <1>1, <2>2 DEF Held, Freed
    <2>5. /\ Held(made.victims) = Held(j.victims) \ {p}
          /\ \A q \in Held(made.victims) : made.victims[q] = j.victims[q]
      BY <1>0, <2>3, <2>4 DEF Held, Job, Store
    <2>6. budget'[t] = TotalSize(rest)
      <3>1. rest \in Store
        BY <2>4 DEF Shape, Store
      <3>2. TotalSize(records) = freed + TotalSize(rest)
        BY <2>4, TotalWithout DEF Shape
      <3>3. TotalSize(rest) \in Nat
        BY <3>1, TotalNumber
      <3>4. freed \in Nat
        BY <2>4, SizeType DEF Shape, Store, Held
      <3>5. budget'[t] = IF budget[t] > freed THEN budget[t] - freed ELSE 0
        BY <1>0, <2>1 DEF Counted
      <3> HIDE DEF freed, rest
      <3> QED
        BY <2>2, <3>2, <3>3, <3>4, <3>5
    <2>7. \A q \in Path : files'[q] = IF q = p THEN NoContent ELSE files[q]
      BY <2>1 DEF Shape, Store
    <2> HIDE DEF made, freed, p
    <2>8. Consistent(files', records')
      BY <1>0, <2>1, <2>7, PathFacts DEF Consistent
    <2>9. files'[k] # NoContent
      BY <1>0, <1>1, <2>4, <2>7 DEF Held
    <2>10. Removing("delete", made, files', records', flights', budget'[t])
      BY <1>1, <2>1, <2>2, <2>3, <2>4, <2>5, <2>6, <2>7 DEF Removing
    <2>11. Knows("delete", made, files', records', flights', budget'[t])
      BY <1>3, <2>3, <2>9, <2>10 DEF Knows, Evicting
    <2> QED
      BY <1>0, <2>1, <2>8, <2>11, AloneStep DEF Set
  <1>8. CASE Delete(t)
    <2> DEFINE p == j.victim
               made == [j EXCEPT !.victim = NoPath]
    <2>1. /\ pc[t] = "delete" /\ records' = [records EXCEPT ![p] = NoContent]
          /\ Set(t, made) /\ Goto(t, "evict") /\ UNCHANGED <<files, budget>>
      BY <1>8 DEF Delete
    <2>2. /\ \A q \in Held(j.victims) : q \notin Held(b) /\ j.victims[q] = records[q]
          /\ \A q \in Held(records) \ Held(b) : \/ q \in Held(j.victims) \/ flights[q] # NoFlight
                                               \/ q = p
          /\ p \in Held(records) /\ p \notin Held(b) /\ files[p] = NoContent
          /\ p \notin Held(j.victims)
          /\ budget[t] = TotalSize([records EXCEPT ![p] = NoContent])
      BY <1>0, <2>1 DEF Knows, Removing
    <2>3. made.key = k /\ made.bundle = b /\ made.victims = j.victims
      BY <1>0 DEF Job
    <2>4. \A q \in Path : records'[q] = IF q = p THEN NoContent ELSE records[q]
      BY <2>1 DEF Shape, Store
    <2>5. Held(records') = Held(records) \ {p} /\ Held(j.victims) \subseteq Path
      BY <2>4 DEF Held
    <2> HIDE DEF made, p
    <2>6. Consistent(files', records')
      <3>1. \A q \in Path : /\ files[q] # NoContent => records'[q] = records[q]
                            /\ records'[q] = NoContent \/ records'[q] = records[q]
        BY <2>2, <2>4
      <3>2. \A q \in Path : ~IsSum(q) /\ files[q] # NoContent =>
               records'[q] = files[q] /\ files[SumOf(q)] \in {NoContent, Computed(files[q].of)}
        BY <1>0, <3>1 DEF Consistent
      <3>3. \A q \in Path : records'[q] # NoContent => records'[q].by = WrittenBy(q)
        BY <1>0, <3>1 DEF Consistent
      <3>4. \A q \in Path : files[q] # NoContent =>
               files[q].by = WrittenBy(q) /\ records'[q] # NoContent
        BY <1>0, <3>1 DEF Consistent
      <3>5. files' = files
        BY <2>1
      <3>6. Consistent(files, records')
        BY <3>2, <3>3, <3>4 DEF Consistent
      <3> QED
        BY <3>5, <3>6
    <2>7. Removing("evict", made, files', records', flights', budget'[t])
      <3>1. \A q \in Held(made.victims) : q \notin Held(made.bundle) /\ made.victims[q] = records'[q]
        BY <2>2, <2>3, <2>4, <2>5
      <3>2. \A q \in Held(records') \ Held(made.bundle) :
               q \in Held(made.victims) \/ flights'[q] # NoFlight
        BY <1>1, <2>2, <2>3, <2>5
      <3>3. budget'[t] = TotalSize(records')
        BY <2>1, <2>2
      <3> QED
        BY <3>1, <3>2, <3>3 DEF Removing
    <2>8. Knows("evict", made, files', records', flights', budget'[t])
      BY <1>1, <1>3, <2>1, <2>3, <2>7 DEF Knows, Evicting
    <2> QED
      BY <1>0, <2>1, <2>6, <2>8, AloneStep DEF Set
  <1> QED
    BY <1>4, <1>5, <1>6, <1>7, <1>8 DEF Enforce

\* The invariant is inductive, through cancellations and kills.
LEMMA LoneSteps == Alone /\ AloneInv /\ [Next]_vars => LoneInv'
PROOF
  <1> SUFFICES ASSUME Alone, AloneInv, [Next]_vars PROVE LoneInv'
    OBVIOUS
  <1> USE DEF AloneInv
  <1>1. ASSUME NEW t \in Tasks, NEW p \in Path, Begin(t, p)
        PROVE  LoneInv'
    <2> DEFINE j == [NoJob EXCEPT !.want = p, !.key = p, !.seen = records[p]]
    <2>1. Held(j.bundle) = {}
      BY EmptyBundle DEF NoJob
    <2>2. Goto(t, "stat_first") /\ Set(t, j) /\ UNCHANGED <<records, files, flights, budget>>
      BY <1>1 DEF Begin
    <2> HIDE DEF j
    <2>3. Knows("stat_first", j, files', records', flights', budget'[t])
      BY <2>1 DEF Knows, Finding, Placing, Removing, Hashing, Installing, Evicting
    <2> QED
      BY <2>2, <2>3, AloneStep DEF Set, LoneInv
  <1>2. ASSUME NEW t \in Tasks, Finish(t) \/ Cancel(t)
        PROVE  LoneInv'
    BY <1>2, DoneStep DEF Finish, Cancel, Stop
  <1>3. CASE Crash
    <2>1. \A j, fs, rs, fl, b : Knows("idle", j, fs, rs, fl, b)
      BY DEF Knows, Finding, Placing, Removing, Hashing, Installing, Evicting
    <2> QED
      BY <1>3, <2>1 DEF Crash, LoneInv, Workers
  <1>4. CASE UNCHANGED vars
    BY <1>4 DEF vars, LoneInv
  <1> QED
    BY <1>1, <1>2, <1>3, <1>4, LoneServe, LoneFly, LoneDownload, LoneInstall, LoneEnforce
       DEF Next, TaskStep, Alone, FlightInv

\* So it holds in every state, with the invariants that need no lone client.
LEMMA AloneAlways == Alone => (Spec => []AloneInv)
PROOF
  <1>1. ASSUME Alone
        PROVE  Spec => []AloneInv
    <2>1. Init => Fitted /\ Counted /\ FlightInv /\ LoneInv
      <3>1. Init => Fitted /\ Counted
        BY CountedInit DEF Init, Fitted, Fit, NoJob, Bundling
      <3>2. Init => LoneInv
        <4> SUFFICES ASSUME Init PROVE LoneInv
          OBVIOUS
        <4>1. Consistent(files, records)
          BY DEF Init, EmptyStore, Consistent
        <4>2. \A j, fs, rs, fl, b : Knows("idle", j, fs, rs, fl, b)
          BY DEF Knows, Finding, Placing, Removing, Hashing, Installing, Evicting
        <4> QED
          BY <4>1, <4>2 DEF Init, LoneInv, Workers
      <3>3. Init => FlightInv
        BY ConstantsAssumption DEF Init, FlightInv, Clean, Handed, Workers
      <3> QED
        BY <3>1, <3>2, <3>3
    <2>2. AloneInv /\ [Next]_vars => (Fitted /\ Counted /\ FlightInv /\ LoneInv)'
      BY <1>1, FittedSteps, CountedSteps, FlightSteps, LoneSteps DEF AloneInv
    <2>3. Shape /\ Placed /\ Owned /\ Fitted /\ Counted /\ FlightInv /\ LoneInv <=> AloneInv
      BY DEF AloneInv
    <2> QED
      BY <2>1, <2>2, <2>3, Typed, PTL DEF Spec
  <1> QED
    BY <1>1

-----------------------------------------------------------------------------
(* The theorems                                                             *)

\* A lone client's eviction ends within cache.max_size or with nothing left that
\* it may remove (CapacityRestored; enforce_capacity, install.rs): the budget that
\* shrinks by the sizes of the snapshot is at each step the total of the table.
THEOREM LoneCapacity == Alone => (Spec => []CapacityRestored)
PROOF
  <1>1. ASSUME Alone
        PROVE  Spec => []CapacityRestored
    <2>1. AloneInv => CapacityRestored
      <3> SUFFICES ASSUME AloneInv, NEW w \in Workers, pc[w] = "ok",
                          Held(job[w].bundle) # {}, MaxSize # Unlimited
                   PROVE  \/ TotalSize(records) <= MaxSize
                          \/ \A p \in Held(records) \ Held(job[w].bundle) : Busy(p)
        BY DEF CapacityRestored
      <3>1. w \in Tasks
        BY <1>1 DEF Alone, Workers
      <3>2. Settles(job[w], records, flights)
        BY <3>1 DEF AloneInv, LoneInv, Knows, Removing
      <3> QED
        BY <3>2 DEF Settles, Busy
    <2>2. Spec => []AloneInv
      BY <1>1, AloneAlways
    <2> QED
      BY <2>1, <2>2, PTL
  <1> QED
    BY <1>1

\* A lone client's eviction removes nothing from a table that is within
\* cache.max_size (NothingEvictedInVain; install.rs:126): the budget never exceeds
\* the total, as a victim whose file was gone counts like any other.
THEOREM LoneFrugal == Alone => (Spec => []NothingEvictedInVain)
PROOF
  <1>1. ASSUME Alone
        PROVE  Spec => []NothingEvictedInVain
    <2>1. AloneInv => NothingEvictedInVain
      <3> SUFFICES ASSUME AloneInv, NEW w \in Workers, pc[w] = "unlink"
                   PROVE  ~WithinLimit(TotalSize(records))
        BY DEF NothingEvictedInVain
      <3>1. w \in Tasks
        BY <1>1 DEF Alone, Workers
      <3> QED
        BY <3>1 DEF AloneInv, LoneInv, Knows, Removing
    <2>2. Spec => []AloneInv
      BY <1>1, AloneAlways
    <2> QED
      BY <2>1, <2>2, PTL
  <1> QED
    BY <1>1

\* Nothing lies in the directory that the table does not know (NoUntrackedFiles),
\* under any limit: eviction removes the file before the row.
THEOREM LoneTracked == Alone => (Spec => []NoUntrackedFiles)
PROOF
  <1>1. ASSUME AloneInv
        PROVE  NoUntrackedFiles
    <2>1. \A p \in Path : files[p] # NoContent => records[p] # NoContent
      BY <1>1 DEF AloneInv, LoneInv, Consistent
    <2> QED
      BY <2>1 DEF NoUntrackedFiles, Held
  <1> QED
    BY <1>1, AloneAlways, PTL

\* A checksum that would be served is that of the main file that would be
\* (ChecksumOfStoredBytes), whichever of the two was evicted and installed again,
\* and wherever the process was killed.
THEOREM LoneChecksums == Alone => (Spec => []ChecksumOfStoredBytes)
PROOF
  <1>1. AloneInv => ChecksumOfStoredBytes
    <2> SUFFICES ASSUME AloneInv, NEW m \in Mains,
                        files[<<m, "main">>] # NoContent, files[<<m, "sum">>] # NoContent
                 PROVE  files[<<m, "sum">>] = Computed(files[<<m, "main">>].of)
      BY DEF ChecksumOfStoredBytes, Positive
    <2>1. <<m, "main">> \in Path /\ ~IsSum(<<m, "main">>) /\ SumOf(<<m, "main">>) = <<m, "sum">>
      BY DEF Path, Kinds, IsSum, SumOf
    <2> QED
      BY <2>1 DEF AloneInv, LoneInv, Consistent
  <1> QED
    BY <1>1, AloneAlways, PTL

\* What a lone client has downloaded is found by its last look and by its response
\* (InstalledIsServed), whatever its own eviction removed: the bundle is protected.
THEOREM LoneServed == Alone => (Spec => []InstalledIsServed)
PROOF
  <1>1. AloneInv => InstalledIsServed
    <2> SUFFICES ASSUME AloneInv, NEW t \in Tasks
                 PROVE  /\ pc[t] = "stat_final" => Positive(job[t].want, job[t].seen)
                        /\ pc[t] = "open" => files[job[t].want] # NoContent
      BY DEF InstalledIsServed
    <2> DEFINE w == job[t].want
    <2>1. pc[t] = "open" => files[w] # NoContent
      BY DEF AloneInv, LoneInv, Knows, Finding
    <2>2. pc[t] = "stat_final" => Positive(w, job[t].seen)
      <3> SUFFICES ASSUME pc[t] = "stat_final" PROVE Positive(w, job[t].seen)
        OBVIOUS
      <3>1. files[w] # NoContent /\ job[t].seen = records[w] /\ w \in Path
        BY DEF AloneInv, LoneInv, Knows, Finding, Placed, Workers
      <3>2. /\ records[w] # NoContent
            /\ records[w].by = WrittenBy(w) /\ files[w].by = WrittenBy(w)
            /\ ~IsSum(w) => records[w] = files[w]
        BY <3>1 DEF AloneInv, LoneInv, Consistent
      <3>3. Size(w, files[w]) = Size(w, records[w])
        BY <3>2 DEF Size, WrittenBy
      <3> QED
        BY <3>1, <3>2, <3>3 DEF Positive
    <2> QED
      BY <2>1, <2>2
  <1> QED
    BY <1>1, AloneAlways, PTL
==================================================================================
