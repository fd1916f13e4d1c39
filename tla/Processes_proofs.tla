--------------------------- MODULE Processes_proofs ---------------------------
(***************************************************************************)
(* Proofs about Processes, for every set of processes and of requests:     *)
(* what Startup and Serving promise by themselves survives in their        *)
(* composition, while other processes sweep the directory of partial files *)
(* and remove files and rows, and wherever any of them is killed.          *)
(*                                                                         *)
(* The invariant is that of both, with two facts that tie them together:   *)
(* only a server that is up has requests, and a server that starts finds   *)
(* in the directory only what it is still going to remove.                 *)
(*                                                                         *)
(* Of a response: the file that is sent still has the size that its range  *)
(* was computed from, unless it was replaced; and for files of every size  *)
(* and every range header the range is the one that the request names.     *)
(***************************************************************************)
EXTENDS Processes, Startup_proofs, Serving_proofs

Sweeping ==
    /\ stage[Server] = "sweep" => parts \subseteq listing[Server]
    /\ stage[Server] \in {"migrate", "stamp", "commit"} => parts = {}

Tied ==
    /\ removal \in [Procs -> {"none", "unlink", "delete"}]
    /\ stage[Server] # "up" => Quiet
    /\ Sweeping

IInv == StartIInv /\ ServeIInv /\ Tied

LEMMA InitIInv == Init => IInv
PROOF
  BY ProcessesAssumption, StartInitIInv, ServeInitIInv
     DEF Init, StartInit, ServeInit, IInv, Tied, Quiet, Sweeping

-----------------------------------------------------------------------------
(* What the other processes do to the requests                              *)

LEMMA FreshAgain == Fresh' => ServeIInv'
PROOF
  BY FreshIInv, PTL

\* Something is removed, which is remembered if there are requests.
LEMMA Disturbed ==
    ASSUME ServeIInv, UNCHANGED memoryVars, record' \in BOOLEAN, file' \in Files,
           parts' \subseteq parts, left \cap parts' \subseteq left', left' \subseteq left,
           \/ interfered' = (interfered \/ ~Quiet)
           \/ UNCHANGED <<record, file, parts, interfered>>
    PROVE  ServeIInv'
PROOF
  <1>0. Kept /\ UNCHANGED <<registry, value, active, refs, pc, cell, held, upkeepVars>>
    BY DEF ServeIInv, memoryVars
  <1>1. Types' /\ UpkeepTypes'
    BY <1>0 DEF Kept, Types, UpkeepTypes, upkeepVars
  <1>2. CompletedLeaves' /\ BusyCounted' /\ OneInitialises' /\ Counted' /\ ValuesHeld'
    BY <1>0 DEF Kept, CompletedLeaves, BusyCounted, Marked, OneInitialises, Counted, TempCounted,
                ValuesHeld
  <1>3. Owned'
    BY <1>0 DEF Kept, Owned, PartsOwned, TempReclaimed
  <1>4. CASE interfered'
    BY <1>1, <1>2, <1>3, <1>4 DEF ServeIInv, Kept
  <1>5. CASE ~interfered' /\ UNCHANGED <<record, file, parts, interfered>>
    <2>1. Backed /\ Present
      BY <1>5 DEF ServeIInv
    <2>2. Backed' /\ Present'
      BY <1>0, <1>5, <2>1 DEF Backed, Present, Installed
    <2> QED
      BY <1>1, <1>2, <1>3, <2>2 DEF ServeIInv, Kept
  <1>6. CASE ~interfered' /\ interfered' = (interfered \/ ~Quiet)
    <2>1. \A t \in Tasks : pc'[t] = "idle"
      BY <1>0, <1>6 DEF Quiet, Kept, Types
    <2>2. Backed' /\ Present'
      BY <1>1, <1>2, <2>1, RestingAgain DEF Resting
    <2> QED
      BY <1>1, <1>2, <1>3, <2>2 DEF ServeIInv, Kept
  <1> QED
    BY <1>4, <1>5, <1>6

\* Nothing that a request knows of changes.
LEMMA ServeFrame ==
    ASSUME ServeIInv, UNCHANGED <<parts, serveVars>>
    PROVE  ServeIInv'
PROOF
  BY ServeNextIInv DEF requestVars

-----------------------------------------------------------------------------
(* Steps                                                                    *)

\* A start of another process, or one that has not come up yet.
LEMMA StartTied ==
    ASSUME IInv, NEW p \in Procs, UNCHANGED <<pc, removal>>,
           Launch(p) \/ Sweep(p) \/ (p # Server /\ Checked(p))
              \/ ReadVersion(p) \/ Ready(p) \/ Apply(p) \/ TimeOut(p) \/ Stamp(p) \/ Commit(p)
    PROVE  Tied'
PROOF
  <1> USE ProcessesAssumption
  <1>0. StartTypeOK /\ Tied
    BY DEF IInv, StartIInv
  <1>1. stage[p] # "up" /\ parts' \subseteq parts
    BY DEF Launch, Sweep, Checked, Swept, ReadVersion, Ready, Apply, TimeOut, Stamp, Commit, Quit
  <1>2. \A q \in Procs \ {p} : stage'[q] = stage[q] /\ listing'[q] = listing[q]
    BY <1>0 DEF StartTypeOK, Launch, Sweep, Checked, ReadVersion, Ready, Apply, TimeOut, Stamp,
                Commit, Quit, Reach
  <1>3. CASE p # Server
    BY <1>0, <1>1, <1>2, <1>3 DEF Tied, Quiet, Sweeping
  <1>4. CASE p = Server
    <2>1. Quiet'
      BY <1>0, <1>1, <1>4 DEF Tied, Quiet
    <2>2. CASE Launch(p)
      BY <1>0, <1>4, <2>1, <2>2 DEF Tied, Sweeping, Launch, Reach, StartTypeOK
    <2>3. CASE Sweep(p)
      <3>1. PICK f \in listing[p] :
               IF f \in parts
               THEN /\ parts' = parts \ {f}
                    /\ listing' = [listing EXCEPT ![p] = @ \ {f}]
                    /\ UNCHANGED <<stage, index, databaseVars>>
               ELSE Quit(p, "failed") /\ UNCHANGED parts
        BY <2>3 DEF Sweep
      <3>2. CASE f \in parts
        BY <1>0, <1>4, <2>1, <2>3, <3>1, <3>2 DEF Tied, Sweeping, Sweep, StartTypeOK
      <3>3. CASE f \notin parts
        BY <1>0, <1>4, <2>1, <3>1, <3>3 DEF Tied, Sweeping, Quit, StartTypeOK
      <3> QED
        BY <3>2, <3>3
    <2>4. CASE ReadVersion(p)
      <3>1. stage[p] = "sweep" /\ listing[p] = {} /\ stage'[p] = "migrate" /\ parts' = parts
        BY <1>0, <2>4 DEF ReadVersion, Swept, Reach, StartTypeOK
      <3> QED
        BY <1>0, <1>4, <2>1, <3>1 DEF Tied, Sweeping
    <2>5. CASE Ready(p) \/ Apply(p) \/ TimeOut(p) \/ Stamp(p) \/ Commit(p)
      <3>1. /\ stage[p] \in {"migrate", "stamp", "commit"} /\ parts' = parts
            /\ stage'[p] # "sweep"
        BY <1>0, <2>5 DEF Ready, Apply, TimeOut, Stamp, Commit, Quit, Reach, StartTypeOK
      <3> QED
        BY <1>0, <1>4, <2>1, <3>1 DEF Tied, Sweeping
    <2> QED
      BY <1>4, <2>2, <2>3, <2>4, <2>5
  <1> QED
    BY <1>3, <1>4

LEMMA NextIInv == IInv /\ [Next]_vars => IInv'
PROOF
  <1> SUFFICES ASSUME IInv, [Next]_vars PROVE IInv'
    OBVIOUS
  <1> USE ProcessesAssumption
  <1>0. StartIInv /\ ServeIInv /\ Tied /\ StartTypeOK /\ Types /\ UpkeepTypes
    BY DEF IInv, StartIInv, ServeIInv, Kept
  <1>1. ASSUME NEW p \in Procs, Started(p) \/ Check(p) \/ Migrate(p)
        PROVE  IInv'
    <2>1. StartNext /\ UNCHANGED <<serveVars, removal>>
      BY <1>1 DEF Started, Check, Migrate, StartNext, StartStep
    <2>2. UNCHANGED <<parts, pc>>
      BY <1>1, <2>1 DEF Started, Check, Migrate, Launch, Checked, ReadVersion, Ready, Apply,
                        TimeOut, Stamp, Commit, serveVars, memoryVars
    <2>3. StartIInv' /\ ServeIInv'
      BY <1>0, <2>1, <2>2, StartNextIInv, ServeFrame
    <2>4. Tied'
      BY <1>1, <2>1, <2>2, StartTied DEF Started, Check, Migrate, Commands
    <2> QED
      BY <2>3, <2>4 DEF IInv
  <1>2. ASSUME NEW p \in Procs, Cleanup(p)
        PROVE  IInv'
    <2>1. /\ Sweep(p) /\ UNCHANGED <<record, file, memoryVars, removal>>
          /\ left' = left \cap parts'
          /\ IF parts' # parts THEN Interfere ELSE UNCHANGED interfered
      BY <1>2 DEF Cleanup
    <2>2. parts' \subseteq parts
      BY <2>1 DEF Sweep
    <2>3. StartIInv'
      BY <1>0, <2>1, StartNextIInv DEF StartNext, StartStep
    <2>4. ServeIInv'
      BY <1>0, <2>1, <2>2, Disturbed DEF Interfere, Types
    <2>5. Tied'
      BY <2>1, StartTied DEF memoryVars
    <2> QED
      BY <2>3, <2>4, <2>5 DEF IInv
  <1>3. CASE Maintain \/ \E t \in Tasks : Request(t) \/ Drop(t)
    <2>1. stage[Server] = "up" /\ UNCHANGED <<processVars, removal>>
      BY <1>3 DEF Request, Drop, Maintain
    <2>2. Listed \in SUBSET Names
      BY <1>0 DEF Listed, StartTypeOK
    <2>3. ServeNext
      BY <1>3, <2>2 DEF Request, Drop, Maintain, ServeNext
    <2>4. ServeIInv'
      BY <1>0, <2>3, ServeNextIInv
    <2>5. StartIInv'
      BY <1>0, <2>1, <2>4, StartFrame DEF ServeIInv, Kept, Types
    <2>6. Tied'
      BY <1>0, <2>1 DEF Tied, Sweeping, processVars
    <2> QED
      BY <2>4, <2>5, <2>6 DEF IInv
  <1>4. ASSUME NEW p \in Commands, Removal(p)
        PROVE  IInv'
    <2>1. /\ UNCHANGED <<parts, processVars, memoryVars, left>>
          /\ removal' \in [Procs -> {"none", "unlink", "delete"}]
          /\ record' \in BOOLEAN /\ file' \in Files
          /\ \/ interfered' = (interfered \/ ~Quiet)
             \/ UNCHANGED <<record, file, interfered>>
      BY <1>0, <1>4 DEF Removal, Select, Unlink, Delete, Interfere, Tied, Types, Files,
                        serveVars, historyVars
    <2>2. ServeIInv'
      BY <1>0, <2>1, Disturbed
    <2>3. StartIInv'
      BY <1>0, <2>1, StartFrame DEF StartTypeOK
    <2>4. Tied'
      BY <1>0, <2>1 DEF Tied, Quiet, Sweeping, processVars, memoryVars
    <2> QED
      BY <2>2, <2>3, <2>4 DEF IInv
  <1>5. ASSUME NEW p \in Procs, End(p)
        PROVE  IInv'
    <2>1. /\ Quit(p, "idle") /\ UNCHANGED parts /\ StartNext
          /\ removal' = [removal EXCEPT ![p] = "none"]
          /\ IF p = Server THEN Forget ELSE UNCHANGED serveVars
      BY <1>5 DEF End, Kill, Exit, StartNext
    <2>2. StartIInv'
      BY <1>0, <2>1, StartNextIInv
    <2>3. /\ stage'[p] = "idle"
          /\ \A q \in Procs \ {p} : stage'[q] = stage[q] /\ listing'[q] = listing[q]
      BY <1>0, <2>1 DEF Quit, StartTypeOK
    <2>4. removal' \in [Procs -> {"none", "unlink", "delete"}]
      BY <1>0, <2>1 DEF Tied
    <2>5. CASE p = Server
      <3>1. Fresh'
        BY <1>0, <2>1, <2>5 DEF Forget, Fresh, Types, UpkeepTypes
      <3>2. ServeIInv' /\ Quiet'
        BY <3>1, FreshAgain DEF Fresh, Quiet
      <3> QED
        BY <2>2, <2>3, <2>4, <2>5, <3>2 DEF IInv, Tied, Sweeping
    <2>6. CASE p # Server
      <3>1. ServeIInv' /\ pc' = pc
        BY <1>0, <2>1, <2>6, ServeFrame DEF serveVars, memoryVars
      <3> QED
        BY <1>0, <2>1, <2>2, <2>3, <2>4, <2>6, <3>1 DEF IInv, Tied, Quiet, Sweeping
    <2> QED
      BY <2>5, <2>6
  <1>6. CASE UNCHANGED vars
    <2>1. UNCHANGED <<parts, processVars, serveVars, removal>>
      BY <1>6 DEF vars
    <2>2. StartIInv' /\ ServeIInv'
      BY <1>0, <2>1, StartFrame, ServeFrame DEF StartTypeOK
    <2>3. Tied'
      BY <1>0, <2>1 DEF Tied, Quiet, Sweeping, processVars, serveVars, memoryVars
    <2> QED
      BY <2>2, <2>3 DEF IInv
  <1> QED
    BY <1>1, <1>2, <1>3, <1>4, <1>5, <1>6 DEF Next

LEMMA Invariant == Spec => []IInv
PROOF
  BY InitIInv, NextIInv, PTL DEF Spec

-----------------------------------------------------------------------------
(* The theorems                                                             *)

LEMMA Promises ==
    IInv => /\ TypeOK /\ VersionBacked /\ SchemaComplete
            /\ CompletedLeaves /\ BusyReleased /\ TempCounted /\ TempReclaimed
            /\ UndisturbedSucceed
PROOF
  BY StartPromises, ServePromises DEF IInv, Tied, TypeOK

\* The types; only a server that is up has requests.
THEOREM ProcessesTyped == Spec => []TypeOK
PROOF
  BY Promises, Invariant, PTL

\* user_version never counts a migration that is not in the database, whichever
\* processes migrate it and wherever they are killed.
THEOREM DatabaseBacked == Spec => []VersionBacked
PROOF
  BY Promises, Invariant, PTL

\* A server or a command that has started finds every migration applied.
THEOREM SchemaIsComplete == Spec => []SchemaComplete
PROOF
  BY Promises, Invariant, PTL

\* A completed flight never stays registered, whoever is dropped or overtaken.
THEOREM CompletedFlightsLeave == Spec => []CompletedLeaves
PROOF
  BY Promises, Invariant, PTL

\* A path does not stay busy in the server, whatever a command removes.
THEOREM BusyPathsReleased == Spec => []BusyReleased
PROOF
  BY Promises, Invariant, PTL

\* SharedTemp counts its holders, even of a file that a start has swept away.
THEOREM SharedTempsCounted == Spec => []TempCounted
PROOF
  BY Promises, Invariant, PTL

\* A partial file is never lost while the server runs: it belongs to a download, to
\* a holder, or to a request that was dropped.
THEOREM PartialFilesReclaimed == Spec => []TempReclaimed
PROOF
  BY Promises, Invariant, PTL

\* Beside commands that remove and kills at any step as well, a request is answered
\* 500 only if its file was removed or its row written anew while it ran.
THEOREM FailuresExplained == Spec => []UndisturbedSucceed
PROOF
  BY Promises, Invariant, PTL

\* A server comes up on a directory without partial files of an earlier one.
THEOREM ServerStartsClean == Spec => StartsClean
PROOF
  <1>1. IInv /\ [Next]_vars =>
           [stage[Server] # "up" /\ stage'[Server] = "up" => parts' = {}]_vars
    <2> SUFFICES ASSUME IInv, Next, stage[Server] # "up", stage'[Server] = "up"
                 PROVE  parts' = {}
      OBVIOUS
    <2> USE ProcessesAssumption
    <2>1. StartTypeOK /\ Tied
      BY DEF IInv, StartIInv
    <2>2. PICK p \in Procs : Started(p) \/ Cleanup(p) \/ Check(p) \/ Migrate(p) \/ End(p)
      BY DEF Next, Request, Drop, Maintain, Removal, Select, Unlink, Delete, processVars
    <2>3. p = Server /\ Ready(p)
      BY <2>1, <2>2 DEF StartTypeOK, Started, Cleanup, Check, Migrate, End, Launch, Sweep, Checked,
                        ReadVersion, Ready, Apply, TimeOut, Stamp, Commit, Kill, Exit, Quit, Reach
    <2> QED
      BY <2>1, <2>3 DEF Tied, Sweeping, Ready
  <1> QED
    BY <1>1, Invariant, PTL DEF Spec, StartsClean

-----------------------------------------------------------------------------
(* The bytes of a response.  What the code computes (RequestedRange, by     *)
(* comparisons and saturating subtractions) is compared with the set of     *)
(* positions (Named), one form of the header at a time.                     *)

\* bytes=first-last and bytes=first-, where the header asks for something.
LEMMA FromFirst ==
    ASSUME NEW size \in 1 .. MaxSize, NEW range \in Ranges,
           range.form \in {"closed", "open"}, Asks(range)
    PROVE  /\ range.first >= size =>
                /\ RequestedRange(range, size) = Unsatisfiable
                /\ Named(range, size) = {}
           /\ range.first < size =>
                /\ RequestedRange(range, size) = Partial(range.first, LastByte(range, size))
                /\ LastByte(range, size) \in Nat
                /\ range.first <= LastByte(range, size) /\ LastByte(range, size) < size
                /\ Named(range, size) = range.first .. LastByte(range, size)
PROOF
  <1> USE SizesAssumption
  <1> DEFINE first == range.first
             last == range.last
             upto == LastByte(range, size)
  <1>1. first \in Nat /\ last \in Nat /\ size \in Nat /\ size > 0 /\ size <= MaxSize
    BY DEF Ranges
  <1>2. /\ range.form = "open" => upto = size - 1
        /\ range.form = "closed" => upto = Least(last, size - 1)
    BY DEF LastByte
  <1>3. size - 1 \in Nat
    BY <1>1
  <1>4. upto \in Nat /\ upto < size
    <2>1. CASE range.form = "open"
      BY <1>1, <1>2, <1>3, <2>1
    <2>2. CASE range.form = "closed"
      BY <1>1, <1>2, <1>3, <2>2 DEF Least
    <2> QED
      BY <2>1, <2>2
  <1>5. RequestedRange(range, size) =
           IF first >= size THEN Unsatisfiable
           ELSE IF upto < first THEN Full ELSE Partial(first, upto)
    BY <1>1 DEF RequestedRange
  <1>6. range.form = "closed" => first <= last
    BY <1>1 DEF Asks, Invalid
  <1>7. first < size => first <= upto
    <2>1. CASE range.form = "open"
      BY <1>1, <1>2, <2>1
    <2>2. CASE range.form = "closed"
      BY <1>1, <1>2, <1>6, <2>2 DEF Least
    <2> QED
      BY <2>1, <2>2
  <1>8. Named(range, size) =
           {i \in 0 .. MaxSize : i < size /\ first <= i /\ (range.form = "closed" => i <= last)}
    BY DEF Named
  <1>9. \A i \in Nat : i < size /\ (range.form = "closed" => i <= last) <=> i <= upto
    <2>1. CASE range.form = "open"
      BY <1>1, <1>2, <2>1
    <2>2. CASE range.form = "closed"
      BY <1>1, <1>2, <2>2 DEF Least
    <2> QED
      BY <2>1, <2>2
  <1> HIDE DEF upto, first, last
  <1>10. Named(range, size) = first .. upto
    BY <1>1, <1>4, <1>8, <1>9
  <1>11. first >= size => Named(range, size) = {}
    BY <1>1, <1>4, <1>10
  <1>12. first < size => ~(upto < first)
    BY <1>1, <1>4, <1>7
  <1> QED
    BY <1>1, <1>4, <1>5, <1>7, <1>10, <1>11, <1>12 DEF first, last, upto

\* bytes=-last.
LEMMA Suffix ==
    ASSUME NEW size \in 1 .. MaxSize, NEW range \in Ranges,
           range.form = "suffix"
    PROVE  /\ range.last = 0 =>
                /\ RequestedRange(range, size) = Unsatisfiable
                /\ Named(range, size) = {}
           /\ range.last # 0 =>
                /\ RequestedRange(range, size) = Partial(Saturating(size, range.last), size - 1)
                /\ Saturating(size, range.last) \in Nat
                /\ Saturating(size, range.last) <= size - 1
                /\ Named(range, size) = Saturating(size, range.last) .. size - 1
PROOF
  <1> USE SizesAssumption
  <1> DEFINE last == range.last
             from == Saturating(size, last)
  <1>1. last \in Nat /\ size \in Nat /\ size > 0 /\ size <= MaxSize
    BY DEF Ranges
  <1>2. RequestedRange(range, size) =
           IF last = 0 THEN Unsatisfiable ELSE Partial(from, size - 1)
    BY <1>1 DEF RequestedRange
  <1>3. Named(range, size) = {i \in 0 .. MaxSize : i < size /\ size <= i + last}
    BY DEF Named
  <1>4. from \in Nat /\ (last # 0 => from <= size - 1)
    BY <1>1 DEF Saturating
  <1>5. \A i \in Nat : size <= i + last <=> from <= i
    BY <1>1 DEF Saturating
  <1> HIDE DEF last, from
  <1>6. Named(range, size) = from .. size - 1
    BY <1>1, <1>3, <1>4, <1>5
  <1>7. last = 0 => Named(range, size) = {}
    BY <1>1, <1>3
  <1> QED
    BY <1>2, <1>4, <1>6, <1>7 DEF last, from

\* A header that asks for nothing brings the whole file, or is a disputed one.
LEMMA Ignored ==
    ASSUME NEW size \in 0 .. MaxSize, NEW range \in Ranges, ~Asks(range)
    PROVE  \/ RequestedRange(range, size) = Full
           \/ Disputed(range, size) /\ RequestedRange(range, size) = Unsatisfiable
PROOF
  <1> USE SizesAssumption
  <1>1. range.first \in Nat /\ range.last \in Nat /\ size \in Nat
    BY DEF Ranges
  <1>2. CASE range.form \in {"none", "ignored"}
    BY <1>2 DEF RequestedRange
  <1>3. CASE range.form \in {"garbled", "misended"}
    BY <1>1, <1>3 DEF RequestedRange, Disputed, Invalid
  <1>4. CASE range.form = "closed" /\ range.last < range.first
    <2>1. CASE size = 0 \/ range.first >= size
      BY <1>1, <1>4, <2>1 DEF RequestedRange, Disputed, Invalid
    <2>2. CASE size > 0 /\ range.first < size
      <3>1. LastByte(range, size) < range.first
        BY <1>1, <1>4, <2>2 DEF LastByte, Least
      <3> QED
        BY <1>1, <1>4, <2>2, <3>1 DEF RequestedRange
    <2> QED
      BY <1>1, <2>1, <2>2
  <1> QED
    BY <1>2, <1>3, <1>4 DEF Asks, Invalid

\* What is sent of a range is what lies between its ends.
LEMMA SentOfPartial ==
    ASSUME NEW first \in Nat, NEW last \in 0 .. MaxSize, first <= last
    PROVE  /\ Saturating(last, first) + 1 = last - first + 1
           /\ {i \in 0 .. MaxSize : first <= i /\ i < first + (Saturating(last, first) + 1)}
                 = first .. last
           /\ first .. last # {}
PROOF
  <1> USE SizesAssumption
  <1>1. Saturating(last, first) = last - first
    BY DEF Saturating
  <1>2. first \in first .. last
    OBVIOUS
  <1> QED
    BY <1>1, <1>2

\* A response holds exactly the bytes that its request names (EveryRangeAsNamed;
\* cached_response and requested_range, server.rs): the range of a valid header,
\* the whole file under any other, and nothing for a client whose copy is current,
\* whose range lies outside the file, or whose invalid header the code compares
\* with the size first.
THEOREM RangesAsNamed == EveryRangeAsNamed
PROOF
  <1> USE SizesAssumption
  <1> SUFFICES ASSUME NEW size \in 0 .. MaxSize, NEW headers \in Headers
               PROVE  \/ AsNamed(headers, size)
                      \/ /\ Disputed(headers.range, size)
                         /\ CachedResponse(headers, size) = Answer("range_not_satisfiable", 0, 0)
    BY DEF EveryRangeAsNamed
  <1> DEFINE range == headers.range
             answer == CachedResponse(headers, size)
             Sent(a) == {i \in 0 .. MaxSize : a.start <= i /\ i < a.start + a.length}
             ranged == IfRangeMatches(headers) /\ Asks(range)
  <1>1. range \in Ranges /\ size \in Nat
    BY DEF Headers
  <1>2. Sent(Answer("not_modified", 0, 0)) = {} /\ Sent(Answer("range_not_satisfiable", 0, 0)) = {}
    BY DEF Answer
  <1>3. CASE ClientCacheIsFresh(headers)
    BY <1>2, <1>3 DEF AsNamed, CachedResponse, Answer
  <1>4. CASE ~ClientCacheIsFresh(headers) /\ ~ranged
    <2>1. CASE IfRangeMatches(headers) => RequestedRange(range, size) = Full
      <3>1. answer = Answer("ok", 0, size)
        BY <1>4, <2>1 DEF CachedResponse, Full
      <3> QED
        BY <1>4, <3>1 DEF AsNamed
    <2>2. CASE IfRangeMatches(headers) /\ RequestedRange(range, size) # Full
      <3>1. Disputed(range, size) /\ RequestedRange(range, size) = Unsatisfiable
        BY <1>1, <1>4, <2>2, Ignored
      <3> QED
        BY <1>4, <2>2, <3>1 DEF CachedResponse, Unsatisfiable
    <2> QED
      BY <2>1, <2>2
  <1>5. CASE ~ClientCacheIsFresh(headers) /\ ranged
    <2>1. CASE size = 0
      <3>1. RequestedRange(range, size) = Unsatisfiable
        BY <1>5, <2>1 DEF Asks, RequestedRange
      <3>2. answer = Answer("range_not_satisfiable", 0, 0)
        BY <1>5, <3>1 DEF CachedResponse, Unsatisfiable
      <3>3. Named(range, size) = {}
        <4>1. \A i \in 0 .. MaxSize : ~(i < size)
          BY <2>1
        <4> QED
          BY <4>1 DEF Named
      <3> QED
        BY <1>2, <1>5, <3>2, <3>3 DEF AsNamed, Answer
    <2>2. CASE size # 0
      <3>1. /\ size \in 1 .. MaxSize
            /\ range.form \in {"closed", "open", "suffix"}
        BY <1>1, <1>5, <2>2 DEF Asks, Invalid, Ranges, RangeForms
      <3>2. \/ /\ RequestedRange(range, size) = Unsatisfiable
               /\ Named(range, size) = {}
            \/ \E first \in Nat, last \in 0 .. MaxSize :
                  /\ first <= last
                  /\ RequestedRange(range, size) = Partial(first, last)
                  /\ Named(range, size) = first .. last
        <4>1. CASE range.form = "suffix"
          <5>1. size - 1 \in 0 .. MaxSize
            BY <3>1
          <5> QED
            BY <1>1, <3>1, <4>1, <5>1, Suffix
        <4>2. CASE range.form \in {"closed", "open"} /\ range.first >= size
          BY <1>1, <1>5, <3>1, <4>2, FromFirst
        <4>3. CASE range.form \in {"closed", "open"} /\ range.first < size
          <5>1. range.first \in Nat
            BY <1>1 DEF Ranges
          <5>2. LastByte(range, size) \in 0 .. MaxSize
            BY <1>1, <1>5, <3>1, <4>3, FromFirst
          <5> QED
            BY <1>1, <1>5, <3>1, <4>3, <5>1, <5>2, FromFirst
        <4> QED
          BY <1>1, <3>1, <4>1, <4>2, <4>3 DEF Ranges
      <3>3. CASE RequestedRange(range, size) = Unsatisfiable /\ Named(range, size) = {}
        <4>1. answer = Answer("range_not_satisfiable", 0, 0)
          BY <1>5, <3>3 DEF CachedResponse, Unsatisfiable
        <4> QED
          BY <1>2, <1>5, <3>3, <4>1 DEF AsNamed, Answer
      <3>4. CASE \E first \in Nat, last \in 0 .. MaxSize :
                    /\ first <= last
                    /\ RequestedRange(range, size) = Partial(first, last)
                    /\ Named(range, size) = first .. last
        <4>1. PICK first \in Nat, last \in 0 .. MaxSize :
                    /\ first <= last
                    /\ RequestedRange(range, size) = Partial(first, last)
                    /\ Named(range, size) = first .. last
          BY <3>4
        <4>2. answer = Answer("partial_content", first, Saturating(last, first) + 1)
          BY <1>5, <4>1 DEF CachedResponse, Partial
        <4>3. Sent(answer) = {i \in 0 .. MaxSize :
                                first <= i /\ i < first + (Saturating(last, first) + 1)}
          BY <4>2 DEF Answer
        <4>4. Sent(answer) = first .. last /\ first .. last # {}
          BY <4>1, <4>3, SentOfPartial
        <4> QED
          BY <1>5, <4>1, <4>2, <4>4 DEF AsNamed, Answer
      <3> QED
        BY <3>2, <3>3, <3>4
    <2> QED
      BY <2>1, <2>2
  <1> QED
    BY <1>3, <1>4, <1>5

\* While the file of a response is sent it has the size that the range was computed
\* from, unless it was replaced meanwhile, and the range is the one that the request
\* names (RangeServed).
THEOREM RangesServed == Spec => []RangeServed
PROOF
  <1>1. IInv => RangeServed
    <2> SUFFICES ASSUME IInv, NEW t \in Tasks, pc[t] = "stream", ~interfered
                 PROVE  held[t].kind = "passthrough" \/ file = "fits"
      BY RangesAsNamed DEF RangeServed
    <2>1. held[t] \in {Nothing} \cup Passed
      <3>1. held[t] \in Contents(pc[t])
        BY DEF IInv, ServeIInv, Kept, Types
      <3> QED
        BY <3>1 DEF Contents, Responding, Writing
    <2>2. held[t] = Nothing => file = "fits"
      BY DEF IInv, ServeIInv, Present
    <2> QED
      BY <2>1, <2>2 DEF Passed, Passthrough
  <1> QED
    BY <1>1, Invariant, PTL
===============================================================================
