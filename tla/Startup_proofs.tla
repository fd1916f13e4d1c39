---------------------------- MODULE Startup_proofs ----------------------------
(***************************************************************************)
(* Proofs about Startup, for every set of processes and every number of    *)
(* migrations, wherever a process is killed: the version never runs ahead  *)
(* of the schema, and a process that has started finds the whole schema,   *)
(* although the version is read outside the transactions that change it.   *)
(***************************************************************************)
EXTENDS Startup, TLAPS

Migrating == {"migrate", "stamp", "commit", "up"}

\* What a start has behind it is in the database.
DoneBefore ==
    \A p \in Procs : stage[p] \in Migrating =>
        /\ index[p] \in 1 .. Target + 1
        /\ 1 .. index[p] - 1 \subseteq applied
        /\ stage[p] = "up" => index[p] = Target + 1

StartIInv == StartTypeOK /\ VersionBacked /\ DoneBefore

LEMMA StartInitIInv == StartInit => StartIInv
PROOF
  <1> SUFFICES ASSUME StartInit PROVE StartIInv
    OBVIOUS
  <1> USE StartupAssumption
  <1>1. version \in 0 .. Target /\ version \in Nat /\ 1 .. version \subseteq 1 .. Target
    BY DEF StartInit
  <1>2. /\ applied \subseteq 1 .. Target
        /\ 1 .. version \subseteq applied
    BY <1>1 DEF StartInit
  <1>3. parts \subseteq Names /\ 0 \in 0 .. Target + 1 /\ "idle" \in Stages
    BY DEF StartInit, Stages
  <1>4. StartTypeOK
    BY <1>1, <1>2, <1>3 DEF StartInit, StartTypeOK
  <1>5. DoneBefore
    BY DEF StartInit, DoneBefore, Migrating
  <1> QED
    BY <1>2, <1>4, <1>5 DEF StartIInv, VersionBacked

\* A process that leaves its transaction releases the lock.
LEMMA QuitKeeps ==
    ASSUME StartIInv, NEW p \in Procs, NEW at \in {"idle", "failed"}, Quit(p, at),
           parts' \subseteq Names
    PROVE  StartIInv'
PROOF
  <1> USE StartupAssumption
  <1>1. /\ stage' = [stage EXCEPT ![p] = at] /\ listing' = [listing EXCEPT ![p] = {}]
        /\ index' = [index EXCEPT ![p] = 0] /\ snapshot' = [snapshot EXCEPT ![p] = "none"]
        /\ writer' = (IF writer = p THEN NoProcess ELSE writer)
        /\ UNCHANGED <<version, applied>>
    BY DEF Quit, RolledBack
  <1>2. at \in Stages /\ at \notin Starting /\ at \notin Migrating
    BY DEF Stages, Starting, Migrating
  <1>3. 0 \in 0 .. Target + 1
    OBVIOUS
  <1>4. /\ stage' \in [Procs -> Stages] /\ index' \in [Procs -> 0 .. Target + 1]
        /\ listing' \in [Procs -> SUBSET Names]
        /\ snapshot' \in [Procs -> {"none", "current", "outdated"}]
        /\ writer' \in Procs \cup {NoProcess}
    BY <1>1, <1>2, <1>3 DEF StartIInv, StartTypeOK
  <1>5. \A q \in Procs : stage'[q] \in {"stamp", "commit"} => index'[q] \in 1 .. Target
    BY <1>1, <1>2 DEF StartIInv, StartTypeOK, Starting
  <1>6. \A q \in Procs : writer' = q => stage'[q] \in {"stamp", "commit"}
    BY <1>1 DEF StartIInv, StartTypeOK
  <1>7. StartTypeOK'
    BY <1>1, <1>4, <1>5, <1>6 DEF StartIInv, StartTypeOK
  <1>8. DoneBefore'
    BY <1>1, <1>2 DEF StartIInv, StartTypeOK, DoneBefore
  <1> QED
    BY <1>1, <1>7, <1>8 DEF StartIInv, VersionBacked

LEMMA StartNextIInv == StartIInv /\ [StartNext]_startVars => StartIInv'
PROOF
  <1> SUFFICES ASSUME StartIInv, [StartNext]_startVars PROVE StartIInv'
    OBVIOUS
  <1> USE StartupAssumption DEF Stages, Starting, Migrating
  <1>0. StartTypeOK /\ VersionBacked /\ DoneBefore
    BY DEF StartIInv
  <1>1. ASSUME NEW p \in Procs, Launch(p)
        PROVE  StartIInv'
    BY <1>0, <1>1 DEF Launch, Reach, databaseVars, StartIInv, StartTypeOK, VersionBacked, DoneBefore
  <1>2. ASSUME NEW p \in Procs, Sweep(p)
        PROVE  StartIInv'
    <2>1. PICK f \in listing[p] :
             IF f \in parts
             THEN /\ parts' = parts \ {f}
                  /\ listing' = [listing EXCEPT ![p] = @ \ {f}]
                  /\ UNCHANGED <<stage, index, databaseVars>>
             ELSE Quit(p, "failed") /\ UNCHANGED parts
      BY <1>2 DEF Sweep
    <2>2. CASE f \in parts
      <3>1. /\ parts' = parts \ {f} /\ listing' = [listing EXCEPT ![p] = @ \ {f}]
            /\ UNCHANGED <<stage, index, version, applied, writer, snapshot>>
        BY <2>1, <2>2 DEF databaseVars
      <3>2. listing' \in [Procs -> SUBSET Names]
        <4>1. listing[p] \ {f} \in SUBSET Names
          BY <1>0 DEF StartTypeOK
        <4> QED
          BY <1>0, <3>1, <4>1 DEF StartTypeOK
      <3>3. StartTypeOK'
        BY <1>0, <3>1, <3>2 DEF StartTypeOK
      <3>4. DoneBefore'
        BY <1>0, <3>1 DEF DoneBefore
      <3> QED
        BY <1>0, <3>1, <3>3, <3>4 DEF StartIInv, VersionBacked
    <2>3. CASE f \notin parts
      BY <1>0, <2>1, <2>3, QuitKeeps DEF StartTypeOK
    <2> QED
      BY <2>2, <2>3
  <1>3. ASSUME NEW p \in Procs, Checked(p) \/ Exit(p) \/ Kill(p) \/ TimeOut(p)
        PROVE  StartIInv'
    <2>1. PICK at \in {"idle", "failed"} : Quit(p, at) /\ UNCHANGED parts
      BY <1>3 DEF Checked, Exit, Kill, TimeOut
    <2> QED
      BY <1>0, <2>1, QuitKeeps DEF StartTypeOK
  <1>4. ASSUME NEW p \in Procs, ReadVersion(p)
        PROVE  StartIInv'
    <2>1. /\ index' = [index EXCEPT ![p] = version + 1]
          /\ stage' = [stage EXCEPT ![p] = "migrate"] /\ stage[p] = "sweep"
          /\ UNCHANGED <<parts, listing, version, applied, writer, snapshot>>
      BY <1>4 DEF ReadVersion, FirstOf, Reach, databaseVars, Swept
    <2>2. version + 1 \in 1 .. Target + 1 /\ version + 1 - 1 = version
      BY <1>0 DEF StartTypeOK
    <2>3. index' \in [Procs -> 0 .. Target + 1]
      BY <1>0, <2>1, <2>2 DEF StartTypeOK
    <2>4. StartTypeOK'
      BY <1>0, <2>1, <2>3 DEF StartTypeOK
    <2>5. DoneBefore'
      BY <1>0, <2>1, <2>2 DEF DoneBefore, StartTypeOK, VersionBacked
    <2> QED
      BY <1>0, <2>1, <2>4, <2>5 DEF StartIInv, VersionBacked
  <1>5. ASSUME NEW p \in Procs, Ready(p)
        PROVE  StartIInv'
    <2>1. /\ stage' = [stage EXCEPT ![p] = "up"] /\ stage[p] = "migrate"
          /\ ~(index[p] <= Target)
          /\ UNCHANGED <<parts, listing, index, version, applied, writer, snapshot>>
      BY <1>5 DEF Ready, Pending, Reach, databaseVars
    <2>2. StartTypeOK'
      BY <1>0, <2>1 DEF StartTypeOK
    <2>3. index[p] = Target + 1
      BY <1>0, <2>1 DEF StartTypeOK
    <2>4. DoneBefore'
      BY <1>0, <2>1, <2>3 DEF DoneBefore, StartTypeOK
    <2> QED
      BY <1>0, <2>1, <2>2, <2>4 DEF StartIInv, VersionBacked
  <1>6. ASSUME NEW p \in Procs, Apply(p)
        PROVE  StartIInv'
    <2>1. CASE Quit(p, "failed") /\ UNCHANGED parts
      BY <1>0, <2>1, QuitKeeps DEF StartTypeOK
    <2>2. CASE /\ stage' = [stage EXCEPT ![p] = "stamp"] /\ stage[p] = "migrate"
               /\ index[p] <= Target
               /\ snapshot' = [snapshot EXCEPT ![p] = "current"]
               /\ writer' \in {writer, p}
               /\ UNCHANGED <<parts, listing, index, version, applied>>
      <3>1. index[p] \in 1 .. Target
        BY <1>0, <2>2 DEF StartTypeOK, DoneBefore
      <3>2. \A q \in Procs : writer' = q => stage'[q] \in {"stamp", "commit"}
        BY <1>0, <2>2 DEF StartTypeOK
      <3>3. StartTypeOK'
        BY <1>0, <2>2, <3>1, <3>2 DEF StartTypeOK
      <3>4. DoneBefore'
        BY <1>0, <2>2 DEF DoneBefore, StartTypeOK
      <3> QED
        BY <1>0, <2>2, <3>3, <3>4 DEF StartIInv, VersionBacked
    <2> QED
      BY <1>6, <2>1, <2>2 DEF Apply, Pending, Reach
  <1>7. ASSUME NEW p \in Procs, Stamp(p)
        PROVE  StartIInv'
    <2>1. CASE Quit(p, "failed") /\ UNCHANGED parts
      BY <1>0, <2>1, QuitKeeps DEF StartTypeOK
    <2>2. CASE /\ stage' = [stage EXCEPT ![p] = "commit"] /\ stage[p] = "stamp"
               /\ writer' = p /\ writer \in {p, NoProcess}
               /\ UNCHANGED <<parts, listing, index, version, applied, snapshot>>
      <3>1. StartTypeOK'
        BY <1>0, <2>2 DEF StartTypeOK
      <3>2. DoneBefore'
        BY <1>0, <2>2 DEF DoneBefore, StartTypeOK
      <3> QED
        BY <1>0, <2>2, <3>1, <3>2 DEF StartIInv, VersionBacked
    <2> QED
      BY <1>7, <2>1, <2>2 DEF Stamp, MayWrite, Reach
  <1>8. ASSUME NEW p \in Procs, Commit(p)
        PROVE  StartIInv'
    <2> DEFINE i == index[p]
    <2>1. /\ stage' = [stage EXCEPT ![p] = "migrate"] /\ stage[p] = "commit"
          /\ version' = i /\ applied' = applied \cup {i} /\ writer' = NoProcess
          /\ index' = [index EXCEPT ![p] = i + 1]
          /\ snapshot' = [q \in Procs |->
                            IF q = p \/ snapshot[q] = "none" THEN "none" ELSE "outdated"]
          /\ UNCHANGED <<parts, listing>>
      BY <1>8 DEF Commit, Reach
    <2>2. i \in 1 .. Target /\ i + 1 \in 1 .. Target + 1 /\ 1 .. i - 1 \subseteq applied
      BY <1>0, <2>1 DEF StartTypeOK, DoneBefore
    <2>3. 1 .. i \subseteq applied' /\ applied \subseteq applied'
      BY <2>1, <2>2
    <2>4. StartTypeOK'
      <3>1. index' \in [Procs -> 0 .. Target + 1]
        BY <1>0, <2>1, <2>2 DEF StartTypeOK
      <3>2. snapshot' \in [Procs -> {"none", "current", "outdated"}]
        BY <2>1
      <3>3. version' \in 0 .. Target /\ applied' \subseteq 1 .. Target
        <4>1. applied \subseteq 1 .. Target
          BY <1>0 DEF StartTypeOK
        <4> HIDE DEF i
        <4>2. version' \in 0 .. Target
          BY <2>1, <2>2
        <4> QED
          BY <2>1, <2>2, <4>1, <4>2
      <3>4. \A q \in Procs : stage'[q] \in {"stamp", "commit"} => index'[q] \in 1 .. Target
        BY <1>0, <2>1 DEF StartTypeOK
      <3>5. \A q \in Procs : writer' = q => stage'[q] \in {"stamp", "commit"}
        BY <2>1
      <3> QED
        BY <1>0, <2>1, <3>1, <3>2, <3>3, <3>4, <3>5 DEF StartTypeOK
    <2>5. DoneBefore'
      <3> SUFFICES ASSUME NEW q \in Procs, stage'[q] \in Migrating
                   PROVE  /\ index'[q] \in 1 .. Target + 1
                          /\ 1 .. index'[q] - 1 \subseteq applied'
                          /\ stage'[q] = "up" => index'[q] = Target + 1
        BY DEF DoneBefore
      <3>1. CASE q = p
        <4>1. index'[q] = i + 1 /\ stage'[q] = "migrate" /\ i + 1 - 1 = i
          BY <1>0, <2>1, <2>2, <3>1 DEF StartTypeOK
        <4> QED
          BY <2>2, <2>3, <4>1
      <3>2. CASE q # p
        <4>1. index'[q] = index[q] /\ stage'[q] = stage[q]
          BY <1>0, <2>1, <3>2 DEF StartTypeOK
        <4> QED
          BY <1>0, <2>3, <4>1 DEF DoneBefore
      <3> QED
        BY <3>1, <3>2
    <2> QED
      BY <2>1, <2>3, <2>4, <2>5 DEF StartIInv, VersionBacked
  <1>9. CASE UNCHANGED startVars
    BY <1>0, <1>9 DEF startVars, processVars, databaseVars, StartIInv, StartTypeOK, VersionBacked, DoneBefore
  <1> QED
    BY <1>1, <1>2, <1>3, <1>4, <1>5, <1>6, <1>7, <1>8, <1>9 DEF StartNext, StartStep

\* What others do to the partial files does not concern a start.
LEMMA StartFrame ==
    ASSUME StartIInv, UNCHANGED processVars, parts' \subseteq Names
    PROVE  StartIInv'
PROOF
  BY DEF processVars, databaseVars, StartIInv, StartTypeOK, VersionBacked, DoneBefore

LEMMA StartInvariant == StartSpec => []StartIInv
PROOF
  BY StartInitIInv, StartNextIInv, PTL DEF StartSpec

\* What the invariant says of the properties, for those who compose Startup.
LEMMA StartPromises == StartIInv => StartTypeOK /\ VersionBacked /\ SchemaComplete
PROOF
  <1> SUFFICES ASSUME StartIInv PROVE SchemaComplete
    BY DEF StartIInv
  <1> SUFFICES ASSUME NEW p \in Procs, stage[p] = "up"
               PROVE  applied = 1 .. Target
    BY DEF SchemaComplete
  <1>1. index[p] - 1 = Target
    BY StartupAssumption DEF StartIInv, DoneBefore, Migrating
  <1> QED
    BY <1>1 DEF StartIInv, StartTypeOK, DoneBefore, Migrating

\* The types of a start, and that the lock is held within a transaction only.
THEOREM StartTyped == StartSpec => []StartTypeOK
PROOF
  BY StartPromises, StartInvariant, PTL

\* user_version never counts a migration that is not in the database (VersionBacked).
THEOREM StartVersionBacked == StartSpec => []VersionBacked
PROOF
  BY StartPromises, StartInvariant, PTL

\* A process that has started finds every migration applied (SchemaComplete).
THEOREM StartSchemaComplete == StartSpec => []SchemaComplete
PROOF
  BY StartPromises, StartInvariant, PTL
===============================================================================
