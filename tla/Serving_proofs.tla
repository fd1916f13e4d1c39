---------------------------- MODULE Serving_proofs ----------------------------
(***************************************************************************)
(* Proofs about Serving, for every finite set of requests and all bounds:  *)
(* whatever the threads do between each other's steps, a shared temporary  *)
(* file is counted and reclaimed, a completed flight leaves the registry,  *)
(* a busy path is released, and a request under which nothing is removed   *)
(* or written anew never ends in 500.                                      *)
(***************************************************************************)
EXTENDS Serving, FiniteSetTheorems, WellFoundedInduction, TLAPS

-----------------------------------------------------------------------------
(* Values                                                                   *)

Passed == {Passthrough(n) : n \in Names}
Written == {Part(n) : n \in Names}
Settled == Outcomes \ {Nothing}

LEMMA Kinds ==
    /\ Nothing.kind = "nothing" /\ Nothing.name = 0
    /\ \A n : Passthrough(n).kind = "passthrough" /\ Passthrough(n).name = n
    /\ \A n : Part(n).kind = "part" /\ Part(n).name = n
    /\ Outcome("installed").kind = "installed" /\ Outcome("installed").name = 0
    /\ Outcome("failed").kind = "failed" /\ Outcome("failed").name = 0
    /\ Outcome("broken").kind = "broken" /\ Outcome("broken").name = 0
PROOF
  BY DEF Nothing, Passthrough, Part, Outcome

LEMMA OutcomeCases ==
    /\ {Outcome("installed"), Outcome("failed"), Outcome("broken")} \subseteq Settled
    /\ Passed \subseteq Settled
    /\ Nothing \in Outcomes
    /\ \A w \in Settled :
          \/ w = Outcome("installed") \/ w = Outcome("failed") \/ w = Outcome("broken")
          \/ w \in Passed
    /\ \A w \in Outcomes : w.kind = "passthrough" <=> w \in Passed
    /\ \A w \in Outcomes : w.kind # "part"
    /\ \A w \in Passed : w.name \in Names /\ w = Passthrough(w.name) /\ w.kind = "passthrough"
    /\ \A w \in Written : w.name \in Names /\ w = Part(w.name) /\ w.kind = "part"
    /\ \A w \in Written : w \notin Outcomes
    /\ \A w \in Passed : w # Nothing
PROOF
  BY Kinds DEF Outcomes, Settled, Passed, Written

\* Min is defined on every set of naturals that is not empty.
LEMMA MinDef ==
    ASSUME NEW S \in SUBSET Nat, S # {}
    PROVE  Min(S) \in S
PROOF
  <1>1. PICK x \in S : \A y \in S : <<y, x>> \notin OpToRel(<, Nat)
    BY NatLessThanWellFounded, WFMin
  <1>2. \A y \in S : x <= y
    <2> SUFFICES ASSUME NEW y \in S PROVE x <= y
      OBVIOUS
    <2>1. ~(y < x)
      BY <1>1 DEF OpToRel
    <2> QED
      BY <2>1
  <1>3. \E z \in S : \A y \in S : z <= y
    BY <1>2
  <1> QED
    BY <1>3 DEF Min

-----------------------------------------------------------------------------
(* The inductive invariant                                                  *)

Responding == {"open", "stream", "lost"}
Writing == {"body", "upsert", "rename"}

\* What a task holds follows from where it is.
Contents(at) ==
    IF at \in {"remove", "leave"} THEN Settled
    ELSE IF at \in Writing THEN Written
    ELSE IF at \in Responding THEN {Nothing} \cup Passed
    ELSE {Nothing}

Types ==
    /\ record \in BOOLEAN /\ file \in Files
    /\ parts \subseteq Names /\ left \subseteq Names
    /\ registry \in Cells \cup {0}
    /\ value \in [Cells -> Outcomes]
    /\ active \in {NoEntry} \cup {Entry(n) : n \in 0 .. Width - 1}
    /\ pc \in [Tasks -> PCs]
    /\ cell \in [Tasks -> Cells \cup {0}]
    /\ held \in [Tasks -> Outcomes \cup Written]
    /\ interfered \in BOOLEAN
    /\ \A t \in Tasks : pc[t] \in InFlight <=> cell[t] # 0
    /\ \A t \in Tasks : held[t] \in Contents(pc[t])

\* One task at most downloads for a flight, and only while it has no outcome.
OneInitialises ==
    /\ \A t \in Tasks : pc[t] \in Initialising => value[cell[t]] = Nothing
    /\ \A t, u \in Tasks :
          pc[t] \in Initialising /\ pc[u] \in Initialising /\ cell[t] = cell[u] => t = u

-----------------------------------------------------------------------------
(* Types                                                                    *)

LEMMA CellsNames == Cells \subseteq Nat \ {0} /\ Names \subseteq Nat \ {0} /\ IsFiniteSet(Cells)
PROOF
  <1>1. MaxNames \in Int /\ MaxCells \in Int /\ 1 \in Int
    BY ServingAssumption, TempFilesAssumption
  <1>2. IsFiniteSet(1 .. MaxCells)
    BY <1>1, FS_Interval
  <1> QED
    BY <1>1, <1>2 DEF Cells, Names

\* A task that moves and changes what it holds accordingly.
LEMMA Moved ==
    ASSUME Types, NEW t \in Tasks, NEW at \in PCs, NEW w \in Contents(at),
           pc' = [pc EXCEPT ![t] = at], held' = [held EXCEPT ![t] = w]
    PROVE  /\ pc' \in [Tasks -> PCs] /\ held' \in [Tasks -> Outcomes \cup Written]
           /\ \A u \in Tasks : held'[u] \in Contents(pc'[u])
PROOF
  <1>1. w \in Outcomes \cup Written
    BY OutcomeCases DEF Contents, Settled
  <1> QED
    BY <1>1 DEF Types

\* A task that moves within its contents.
LEMMA Stepped ==
    ASSUME Types, NEW t \in Tasks, NEW at \in PCs, held[t] \in Contents(at),
           pc' = [pc EXCEPT ![t] = at], held' = held
    PROVE  /\ pc' \in [Tasks -> PCs] /\ held' \in [Tasks -> Outcomes \cup Written]
           /\ \A u \in Tasks : held'[u] \in Contents(pc'[u])
PROOF
  BY DEF Types

LEMMA AfterCases ==
    /\ After(Outcome("installed")) = "get_final"
    /\ After(Outcome("failed")) = "idle"
    /\ After(Outcome("broken")) = "error"
    /\ \A w \in Passed : After(w) = "open"
    /\ \A w \in Settled : After(w) \in {"get_final", "idle", "error", "open"}
PROOF
  <1>1. /\ After(Outcome("installed")) = "get_final"
        /\ After(Outcome("failed")) = "idle"
        /\ After(Outcome("broken")) = "error"
        /\ \A w \in Passed : After(w) = "open"
    BY Kinds, OutcomeCases DEF After
  <1> QED
    BY <1>1, OutcomeCases

\* Where a task may be and what it may hold there do not depend on each other.
LEMMA Places ==
    /\ InFlight \subseteq PCs /\ Initialising \subseteq InFlight /\ Writing \subseteq Initialising
    /\ Awaiting \subseteq PCs /\ Responding \subseteq PCs
    /\ \A at \in PCs : at \notin Writing \cup Responding \cup {"remove", "leave"}
                       => Contents(at) = {Nothing}
    /\ \A at \in Awaiting : Contents(at) \subseteq {Nothing} \cup Written
PROOF
  BY DEF InFlight, PCs, Initialising, Writing, Awaiting, Responding, Contents

LEMMA ActiveTyped ==
    /\ NoEntry \in {NoEntry} \cup {Entry(n) : n \in 0 .. Width - 1}
    /\ \A n \in Nat : Entry(n) \in {NoEntry} \cup {Entry(m) : m \in 0 .. Width - 1}
PROOF
  <1>1. ASSUME NEW n \in Nat
        PROVE  Entry(n) \in {Entry(m) : m \in 0 .. Width - 1}
    <2>1. n % Width \in 0 .. Width - 1 /\ (n % Width) % Width = n % Width
      BY ServingAssumption
    <2> QED
      BY <2>1 DEF Entry
  <1> QED
    BY <1>1

LEMMA CountTyped ==
    ASSUME active \in {NoEntry} \cup {Entry(n) : n \in 0 .. Width - 1}
    PROVE  /\ active.count \in 0 .. Width - 1
           /\ ~active.present => active.count = 0
PROOF
  <1>1. \A n \in 0 .. Width - 1 : n % Width = n
    BY ServingAssumption
  <1>2. CASE active = NoEntry
    BY <1>2, ServingAssumption DEF NoEntry
  <1>3. ASSUME NEW n \in 0 .. Width - 1, active = Entry(n)
        PROVE  active.count \in 0 .. Width - 1 /\ active.present
    BY <1>1, <1>3 DEF Entry
  <1> QED
    BY <1>2, <1>3

\* What the steps of a request outside its flight do to the types.
LEMMA LookupTypes ==
    ASSUME Types, NEW t \in Tasks, Lookup(t)
    PROVE  Types'
PROOF
  <1>1. CASE Begin(t)
    <2>1. Contents("get") = {Nothing} /\ held[t] \in Contents("get") /\ "get" \in PCs
      BY <1>1 DEF Begin, Types, Contents, PCs, Awaiting, Writing, Responding
    <2>2. /\ pc' = [pc EXCEPT ![t] = "get"] /\ held' = held /\ interfered' \in BOOLEAN
          /\ UNCHANGED <<record, file, parts, registry, value, active, cell, left>>
      BY <1>1 DEF Begin, Goto
    <2>3. pc[t] \notin InFlight /\ "get" \notin InFlight
      BY <1>1 DEF Begin, InFlight, Initialising
    <2> QED
      BY <2>1, <2>2, <2>3, Stepped DEF Types
  <1>2. CASE Get(t)
    <2>1. PICK at \in {"stat", "enter", "stat_flight", "fetch", "stat_final", "error"} :
             /\ pc' = [pc EXCEPT ![t] = at] /\ held' = held
             /\ pc[t] \in {"get", "get_flight", "get_final"}
             /\ pc[t] = "get_flight" <=> at \in {"stat_flight", "fetch"}
             /\ UNCHANGED <<record, file, parts, registry, value, active, cell, left, interfered>>
      BY <1>2 DEF Get, Goto, Unchanged
    <2>2. Contents(at) = {Nothing} /\ held[t] \in Contents(at) /\ at \in PCs
      BY <2>1 DEF Types, Contents, PCs, InFlight, Initialising, Awaiting, Writing, Responding
    <2>3. pc[t] \in InFlight <=> at \in InFlight
      BY <2>1 DEF InFlight, Initialising
    <2> QED
      BY <2>1, <2>2, <2>3, Stepped DEF Types
  <1>3. CASE Stat(t)
    <2>1. PICK at \in {"mark", "enter", "error"} :
             /\ pc' = [pc EXCEPT ![t] = at] /\ held' = held
             /\ pc[t] \in {"stat", "stat_final"}
             /\ UNCHANGED <<record, file, parts, registry, value, active, cell, left, interfered>>
      BY <1>3 DEF Stat, Goto, Unchanged
    <2>2. Contents(at) = {Nothing} /\ held[t] \in Contents(at) /\ at \in PCs
      BY <2>1 DEF Types, Contents, PCs, InFlight, Initialising, Awaiting, Writing, Responding
    <2>3. pc[t] \notin InFlight /\ at \notin InFlight
      BY <2>1 DEF InFlight, Initialising
    <2> QED
      BY <2>1, <2>2, <2>3, Stepped DEF Types
  <1>4. CASE Mark(t)
    <2>1. /\ pc' = [pc EXCEPT ![t] = "open"] /\ held' = held
          /\ pc[t] = "mark" /\ active' = Entry(active.count + 1)
          /\ UNCHANGED <<record, file, parts, registry, value, cell, left, interfered>>
      BY <1>4 DEF Mark, Goto
    <2>2. held[t] \in Contents("open") /\ "open" \in PCs
      BY <2>1 DEF Types, Contents, PCs, Writing, Responding
    <2>3. pc[t] \notin InFlight /\ "open" \notin InFlight
      BY <2>1 DEF InFlight, Initialising
    <2>4. active.count + 1 \in Nat
      BY CountTyped, ServingAssumption DEF Types
    <2> QED
      BY <2>1, <2>2, <2>3, <2>4, Stepped, ActiveTyped DEF Types
  <1> QED
    BY <1>1, <1>2, <1>3, <1>4 DEF Lookup

LEMMA HeldTyped ==
    ASSUME Types, NEW t \in Tasks, held' = held, NEW at \in PCs,
           pc' = [pc EXCEPT ![t] = at], Contents(at) = Contents(pc[t]),
           at \in InFlight <=> cell[t] # 0, cell' = cell,
           UNCHANGED <<parts, left, active>>, interfered' \in BOOLEAN,
           record' \in BOOLEAN, file' \in Files, registry' \in Cells \cup {0},
           value' \in [Cells -> Outcomes]
    PROVE  Types'
PROOF
  <1>1. held[t] \in Contents(at)
    BY DEF Types
  <1> QED
    BY <1>1, Stepped DEF Types

\* The flight has come to an end in the task that runs it.
LEMMA CompleteTyped ==
    ASSUME Types, NEW t \in Tasks, NEW w \in Settled, Complete(t, w), pc[t] \in Initialising,
           parts' \in SUBSET Names, file' \in Files, interfered' \in BOOLEAN,
           UNCHANGED <<record, registry, active, cell, left>>
    PROVE  Types'
PROOF
  <1>1. /\ value' = [value EXCEPT ![cell[t]] = w]
        /\ held' = [held EXCEPT ![t] = Nothing] /\ pc' = [pc EXCEPT ![t] = "take"]
    BY DEF Complete, Hold, Goto
  <1>2. Nothing \in Contents("take") /\ "take" \in PCs /\ "take" \in InFlight
    BY DEF Contents, PCs, InFlight, Writing, Responding
  <1>3. pc[t] \in InFlight
    BY DEF InFlight
  <1>4. value' \in [Cells -> Outcomes]
    BY <1>1 DEF Types, Settled
  <1> QED
    BY <1>1, <1>2, <1>3, <1>4, Moved DEF Types

LEMMA LetGoTyped ==
    ASSUME Types, NEW t \in Tasks, LetGo(t)
    PROVE  /\ cell' = [cell EXCEPT ![t] = 0]
           /\ value' \in [Cells -> Outcomes]
           /\ parts' \in SUBSET Names
PROOF
  <1>1. parts' \subseteq parts
    BY DEF LetGo, DropReference
  <1>2. value' = value \/ value' = [value EXCEPT ![cell[t]] = Nothing]
    BY DEF LetGo
  <1> QED
    BY <1>1, <1>2, OutcomeCases DEF Types, LetGo

LEMMA FlightTypes ==
    ASSUME Types, NEW t \in Tasks, Flight(t)
    PROVE  Types'
PROOF
  <1>1. CASE Enter(t)
    <2>1. PICK c \in Cells :
             /\ cell' = [cell EXCEPT ![t] = c] /\ registry' \in Cells \cup {0}
      <3>1. CASE registry # 0
        BY <1>1, <3>1 DEF Enter, Types
      <3>2. CASE registry = 0
        <4>1. Unused # {} /\ Unused \in SUBSET Nat /\ Unused \subseteq Cells
          BY <1>1, <3>2, CellsNames DEF Enter, Unused
        <4>2. Min(Unused) \in Cells
          BY <4>1, MinDef
        <4> QED
          BY <1>1, <3>2, <4>2 DEF Enter
      <3> QED
        BY <3>1, <3>2
    <2>2. /\ pc' = [pc EXCEPT ![t] = "join"] /\ held' = held /\ pc[t] = "enter"
          /\ UNCHANGED <<record, file, parts, value, active, left, interfered>>
      BY <1>1 DEF Enter, Goto, Unchanged
    <2>3. Contents("join") = Contents("enter") /\ "join" \in PCs /\ "join" \in InFlight
      BY DEF Contents, PCs, InFlight, Writing, Responding
    <2>4. held[t] \in Contents("join") /\ c # 0
      BY <2>2, <2>3, CellsNames DEF Types
    <2> QED
      BY <2>1, <2>2, <2>3, <2>4, Stepped DEF Types
  <1>2. CASE Initialise(t)
    <2>1. /\ pc[t] = "join" /\ pc' = [pc EXCEPT ![t] = "get_flight"]
          /\ UNCHANGED <<record, file, parts, registry, value, active, cell, held, left, interfered>>
      BY <1>2 DEF Initialise, Goto, Unchanged
    <2>2. /\ Contents("join") = Contents("get_flight") /\ "get_flight" \in PCs
          /\ "join" \in InFlight /\ "get_flight" \in InFlight
      BY DEF Contents, PCs, InFlight, Initialising, Writing, Responding
    <2> QED
      BY <2>1, <2>2, HeldTyped DEF Types
  <1>3. CASE Take(t)
    <2>1. PICK at \in {"remove", "leave"} :
             /\ pc' = [pc EXCEPT ![t] = at] /\ held' = [held EXCEPT ![t] = value[cell[t]]]
             /\ pc[t] \in {"join", "take"} /\ value[cell[t]] # Nothing
             /\ UNCHANGED <<record, file, parts, registry, value, active, cell, left, interfered>>
      BY <1>3 DEF Take, Goto, Hold, Unchanged
    <2>2. pc[t] \in InFlight /\ at \in InFlight /\ at \in PCs /\ Contents(at) = Settled
      BY <2>1 DEF InFlight, PCs, Contents
    <2>3. cell[t] \in Cells
      BY <2>2 DEF Types
    <2>4. value[cell[t]] \in Settled
      BY <2>1, <2>3 DEF Settled, Types
    <2> QED
      BY <2>1, <2>2, <2>3, <2>4, Moved DEF Types
  <1>4. CASE Remove(t)
    <2>1. /\ pc[t] = "remove" /\ pc' = [pc EXCEPT ![t] = "leave"] /\ registry' = 0
          /\ UNCHANGED <<record, file, parts, value, active, cell, held, left, interfered>>
      BY <1>4 DEF Remove, Goto, Unchanged
    <2>2. /\ Contents("remove") = Contents("leave") /\ "leave" \in PCs
          /\ "remove" \in InFlight /\ "leave" \in InFlight
      BY DEF Contents, PCs, InFlight
    <2> QED
      BY <2>1, <2>2, HeldTyped DEF Types
  <1>5. CASE Leave(t)
    <2>1. /\ pc[t] = "leave" /\ LetGo(t) /\ pc' = [pc EXCEPT ![t] = After(held[t])]
          /\ UNCHANGED <<record, file, registry, active, left, interfered>>
      BY <1>5 DEF Leave, Goto, Unchanged
    <2>2. held[t] \in Settled /\ "leave" \in InFlight
      BY <2>1 DEF Types, Contents, InFlight
    <2>3. /\ After(held[t]) \in PCs \ InFlight
          /\ Nothing \in Contents(After(held[t]))
      BY <2>2, AfterCases DEF PCs, InFlight, Initialising, Awaiting, Contents, Writing, Responding
    <2>4. CASE held[t] \in Passed
      <3>1. held' = held /\ held[t] \in Contents(After(held[t]))
        BY <1>5, <2>2, <2>4, AfterCases, OutcomeCases DEF Leave, Contents, Writing, Responding, Settled
      <3> QED
        BY <2>1, <2>2, <2>3, <3>1, LetGoTyped, Stepped DEF Types
    <2>5. CASE held[t] \notin Passed
      <3>1. held' = [held EXCEPT ![t] = Nothing]
        BY <1>5, <2>2, <2>5, OutcomeCases DEF Leave, Hold, Settled
      <3> QED
        BY <2>1, <2>2, <2>3, <3>1, LetGoTyped, Moved DEF Types
    <2> QED
      BY <2>4, <2>5
  <1> QED
    BY <1>1, <1>2, <1>3, <1>4, <1>5 DEF Flight

LEMMA DownloadTypes ==
    ASSUME Types, NEW t \in Tasks, NEW others, Download(t, others)
    PROVE  Types'
PROOF
  <1>0. /\ Outcome("installed") \in Settled /\ Outcome("failed") \in Settled
        /\ Outcome("broken") \in Settled
    BY OutcomeCases
  <1> USE DEF Initialising
  <1>1. CASE StatFlight(t)
    <2>1. CASE Complete(t, Outcome("installed"))
      BY <1>0, <1>1, <2>1, CompleteTyped DEF StatFlight, Unchanged, Types
    <2>2. CASE Goto(t, "fetch") /\ UNCHANGED <<value, held>>
      <3>1. /\ pc[t] = "stat_flight" /\ pc' = [pc EXCEPT ![t] = "fetch"]
            /\ UNCHANGED <<record, file, parts, registry, value, active, cell, held, left, interfered>>
        BY <1>1, <2>2 DEF StatFlight, Goto, Unchanged
      <3>2. /\ Contents("stat_flight") = Contents("fetch") /\ "fetch" \in PCs
            /\ "stat_flight" \in InFlight /\ "fetch" \in InFlight
        BY DEF Contents, PCs, InFlight, Writing, Responding
      <3> QED
        BY <3>1, <3>2, HeldTyped DEF Types
    <2> QED
      BY <1>1, <2>1, <2>2 DEF StatFlight
  <1>2. CASE Fetch(t, others)
    <2>1. CASE Complete(t, Outcome("failed")) /\ UNCHANGED parts
      BY <1>0, <1>2, <2>1, CompleteTyped DEF Fetch, Unchanged, Types
    <2>2. CASE /\ FreeNames(others) # {}
               /\ parts' = parts \cup {Min(FreeNames(others))}
               /\ Hold(t, Part(Min(FreeNames(others))))
               /\ Goto(t, "body")
               /\ UNCHANGED value
      <3> DEFINE n == Min(FreeNames(others))
      <3>1. n \in Names
        BY <2>2, CellsNames, MinDef DEF FreeNames
      <3>2. /\ pc[t] = "fetch" /\ pc' = [pc EXCEPT ![t] = "body"]
            /\ held' = [held EXCEPT ![t] = Part(n)] /\ parts' = parts \cup {n}
            /\ UNCHANGED <<record, file, registry, value, active, cell, left, interfered>>
        BY <1>2, <2>2 DEF Fetch, Goto, Hold, Unchanged
      <3> HIDE DEF n
      <3>3. Part(n) \in Contents("body") /\ "body" \in PCs
            /\ "body" \in InFlight /\ "fetch" \in InFlight
        BY <3>1 DEF Contents, Written, PCs, InFlight, Writing
      <3> QED
        BY <3>1, <3>2, <3>3, Moved DEF Types
    <2> QED
      BY <1>2, <2>1, <2>2 DEF Fetch
  <1>3. CASE BrokenOff(t)
    <2>1. parts' \in SUBSET Names
      BY <1>3 DEF BrokenOff, Discarded, Types
    <2> QED
      BY <1>0, <1>3, <2>1, CompleteTyped DEF BrokenOff, Unchanged, Types
  <1>4. CASE Delivered(t)
    <2>1. CASE Goto(t, "upsert") /\ UNCHANGED <<value, held, refs>>
      <3>1. /\ pc[t] = "body" /\ pc' = [pc EXCEPT ![t] = "upsert"]
            /\ UNCHANGED <<record, file, parts, registry, value, active, cell, held, left, interfered>>
        BY <1>4, <2>1 DEF Delivered, Goto, Unchanged
      <3>2. /\ Contents("body") = Contents("upsert") /\ "upsert" \in PCs
            /\ "body" \in InFlight /\ "upsert" \in InFlight
        BY DEF Contents, PCs, InFlight, Writing, Responding
      <3> QED
        BY <3>1, <3>2, HeldTyped DEF Types
    <2>2. CASE Complete(t, Passthrough(held[t].name))
      <3>1. held[t] \in Written
        BY <1>4 DEF Delivered, Types, Contents, Writing
      <3>2. Passthrough(held[t].name) \in Settled
        BY <3>1, OutcomeCases DEF Passed
      <3> QED
        BY <1>4, <2>2, <3>2, CompleteTyped DEF Delivered, Unchanged, Types
    <2> QED
      BY <1>4, <2>1, <2>2 DEF Delivered
  <1>5. CASE Upsert(t)
    <2>1. /\ pc[t] = "upsert" /\ pc' = [pc EXCEPT ![t] = "rename"] /\ record' = TRUE
          /\ file' \in Files /\ interfered' \in BOOLEAN
          /\ UNCHANGED <<parts, registry, value, active, cell, held, left>>
      BY <1>5 DEF Upsert, NewRow, Interfere, Files, Goto, Types
    <2>2. /\ Contents("upsert") = Contents("rename") /\ "rename" \in PCs
          /\ "upsert" \in InFlight /\ "rename" \in InFlight
      BY DEF Contents, PCs, InFlight, Writing, Responding
    <2> QED
      BY <2>1, <2>2, HeldTyped DEF Types
  <1>6. CASE Rename(t)
    <2>1. CASE held[t].name \in parts
      <3>1. /\ pc[t] = "rename" /\ pc' = [pc EXCEPT ![t] = "settle"]
            /\ held' = [held EXCEPT ![t] = Nothing]
            /\ file' \in Files /\ interfered' \in BOOLEAN
            /\ parts' = parts \ {held[t].name}
            /\ UNCHANGED <<record, registry, value, active, cell, left>>
        BY <1>6, <2>1 DEF Rename, NewFile, Interfere, Files, Goto, Hold, Types
      <3>2. /\ Nothing \in Contents("settle") /\ "settle" \in PCs
            /\ "rename" \in InFlight /\ "settle" \in InFlight
        BY DEF Contents, PCs, InFlight, Writing, Responding
      <3> QED
        BY <3>1, <3>2, Moved DEF Types
    <2>2. CASE Complete(t, Outcome("broken")) /\ UNCHANGED <<file, interfered>>
      <3>1. parts' \in SUBSET Names
        BY <1>6 DEF Rename, Types
      <3> QED
        BY <1>0, <1>6, <2>2, <3>1, CompleteTyped DEF Rename, Unchanged, Types
    <2> QED
      BY <1>6, <2>1, <2>2 DEF Rename
  <1>7. CASE Settle(t)
    BY <1>0, <1>7, CompleteTyped DEF Settle, Unchanged, Types
  <1> QED
    BY <1>1, <1>2, <1>3, <1>4, <1>5, <1>6, <1>7 DEF Download

\* A response ends; the guard of a cached file is dropped.
LEMMA ResponseTypes ==
    ASSUME Types, NEW t \in Tasks, Response(t)
    PROVE  Types'
PROOF
  <1>1. CASE Open(t)
    <2>1. PICK at \in {"stream", "lost"} :
             /\ pc[t] = "open" /\ pc' = [pc EXCEPT ![t] = at]
             /\ UNCHANGED <<record, file, parts, registry, value, active, cell, held, left, interfered>>
      BY <1>1 DEF Open, Goto, Unchanged
    <2>2. /\ Contents("open") = Contents(at) /\ at \in PCs
          /\ "open" \notin InFlight /\ at \notin InFlight
      BY DEF Contents, PCs, InFlight, Initialising, Writing, Responding
    <2> QED
      BY <2>1, <2>2, HeldTyped DEF Types
  <1>2. CASE Finish(t)
    <2>1. /\ pc[t] \in Responding /\ pc[t] \notin InFlight
          /\ UNCHANGED <<record, file, registry, value, cell, left, interfered>>
      BY <1>2 DEF Finish, Unchanged, Responding, InFlight, Initialising
    <2>2. held[t] \in {Nothing} \cup Passed
      BY <2>1 DEF Types, Contents, Responding, Writing
    <2>3. \A at \in {"idle", "unmark"} :
             at \in PCs /\ at \notin InFlight /\ Contents(at) = {Nothing}
      BY DEF PCs, InFlight, Initialising, Contents, Writing, Responding
    <2>4. CASE held[t] \in Passed
      <3>1. /\ pc' = [pc EXCEPT ![t] = "idle"] /\ held' = [held EXCEPT ![t] = Nothing]
            /\ parts' \subseteq parts /\ active' = active
        BY <1>2, <2>4, OutcomeCases DEF Finish, Release, DropReference, Goto, Hold
      <3> QED
        BY <2>1, <2>3, <3>1, Moved DEF Types
    <2>5. CASE held[t] = Nothing
      <3>1. DropGuard(t) /\ parts' = parts /\ held' = held
        BY <1>2, <2>5, Kinds DEF Finish, Release
      <3>2. active.count + Width - 1 \in Nat
        BY CountTyped, ServingAssumption DEF Types
      <3>3. PICK at \in {"idle", "unmark"} :
               /\ pc' = [pc EXCEPT ![t] = at]
               /\ active' = active \/ active' = Entry(active.count + Width - 1)
        BY <3>1 DEF DropGuard, Goto, AtZero
      <3>4. active' \in {NoEntry} \cup {Entry(n) : n \in 0 .. Width - 1}
        BY <3>2, <3>3, ActiveTyped DEF Types
      <3> QED
        BY <2>1, <2>3, <2>5, <3>1, <3>3, <3>4, Stepped DEF Types
    <2> QED
      BY <2>2, <2>4, <2>5
  <1>3. CASE Unmark(t) \/ Respond(t)
    <2>1. /\ pc[t] \in {"unmark", "error"} /\ pc' = [pc EXCEPT ![t] = "idle"]
          /\ active' = active \/ active' = NoEntry
          /\ UNCHANGED <<record, file, parts, registry, value, cell, held, left, interfered>>
      BY <1>3 DEF Unmark, Respond, Goto, Unchanged
    <2>2. /\ pc[t] \notin InFlight /\ "idle" \notin InFlight /\ "idle" \in PCs
          /\ Contents(pc[t]) = Contents("idle")
      BY <2>1 DEF PCs, InFlight, Initialising, Contents, Writing, Responding
    <2>3. held[t] \in Contents("idle")
      BY <2>2 DEF Types
    <2> QED
      BY <2>1, <2>2, <2>3, Stepped, ActiveTyped DEF Types
  <1> QED
    BY <1>1, <1>2, <1>3 DEF Response

LEMMA CancelTypes ==
    ASSUME Types, NEW t \in Tasks, Cancel(t)
    PROVE  Types'
PROOF
  <1>1. /\ pc[t] \in Awaiting
        /\ pc' = [pc EXCEPT ![t] = "idle"] /\ held' = [held EXCEPT ![t] = Nothing]
        /\ left' = (IF held[t].kind = "part" THEN left \cup {held[t].name} ELSE left)
        /\ UNCHANGED <<record, file, registry, active, interfered>>
    BY DEF Cancel, Hold, Goto
  <1>2. Nothing \in Contents("idle") /\ "idle" \in PCs /\ "idle" \notin InFlight
    BY DEF Contents, PCs, InFlight, Initialising, Writing, Responding
  <1>3. left' \subseteq Names
    <2>1. held[t] \in {Nothing} \cup Written
      BY <1>1, Places DEF Types
    <2> QED
      BY <1>1, <2>1, OutcomeCases, Kinds DEF Types
  <1>4. CASE cell[t] = 0
    <2>1. UNCHANGED <<cell, value, refs, parts>>
      BY <1>4 DEF Cancel
    <2> QED
      BY <1>1, <1>2, <1>3, <1>4, <2>1, Moved DEF Types
  <1>5. CASE cell[t] # 0
    <2>1. LetGo(t)
      BY <1>5 DEF Cancel
    <2> QED
      BY <1>1, <1>2, <1>3, <2>1, LetGoTyped, Moved DEF Types
  <1> QED
    BY <1>4, <1>5

\* Eviction and refresh touch nothing but the cached file and its row.
Aside == Upkeep \/ UNCHANGED requestVars

LEMMA AsideLeaves ==
    ASSUME Types, Aside
    PROVE  /\ record' \in BOOLEAN /\ file' \in Files /\ interfered' \in BOOLEAN
           /\ UNCHANGED <<parts, left, registry, value, active, refs, pc, cell, held>>
PROOF
  BY DEF Aside, Upkeep, EvictPick, EvictFile, EvictRow, EvictEnd, RefreshRow, RefreshFile,
         RefreshEnd, NewRow, NewFile, Interfere, Files, Types, requestVars, serveVars, memoryVars,
         historyVars

LEMMA NextTypes == Types /\ [ServeNext]_requestVars => Types'
PROOF
  <1> SUFFICES ASSUME Types, [ServeNext]_requestVars PROVE Types'
    OBVIOUS
  <1>1. CASE Aside
    BY <1>1, AsideLeaves DEF Types
  <1>2. ASSUME NEW t \in Tasks, NEW others \in SUBSET Names, TaskStep(t, others)
        PROVE  Types'
    BY <1>2, LookupTypes, FlightTypes, DownloadTypes, ResponseTypes DEF TaskStep
  <1> QED
    BY <1>1, <1>2, CancelTypes DEF ServeNext, Aside

-----------------------------------------------------------------------------
(* A completed flight is on its way out of the registry                     *)

\* A task that is not about to remove the flight, and does not complete it, is not
\* the one that CompletedLeaves relies on.
LEMMA OthersLeave ==
    ASSUME Types, CompletedLeaves, NEW t \in Tasks,
           \/ pc[t] \notin {"take", "remove"}
           \/ cell[t] # registry,
           registry' = registry, registry # 0 => value'[registry] = value[registry],
           NEW at, pc' = [pc EXCEPT ![t] = at],
           NEW c, cell' = [cell EXCEPT ![t] = c]
    PROVE  CompletedLeaves'
PROOF
  <1> SUFFICES ASSUME registry # 0, value[registry] # Nothing
               PROVE  \E u \in Tasks : cell'[u] = registry /\ pc'[u] \in {"take", "remove"}
    BY DEF CompletedLeaves
  <1>1. PICK u \in Tasks : cell[u] = registry /\ pc[u] \in {"take", "remove"}
    BY DEF CompletedLeaves
  <1>2. u # t
    BY <1>1
  <1> QED
    BY <1>1, <1>2 DEF Types

\* The task that completes the registered flight is the one.
LEMMA CompleteLeaves ==
    ASSUME Types, CompletedLeaves, NEW t \in Tasks, NEW w, Complete(t, w),
           pc[t] \in Initialising, UNCHANGED <<registry, cell>>
    PROVE  CompletedLeaves'
PROOF
  <1>1. pc' = [pc EXCEPT ![t] = "take"] /\ value' = [value EXCEPT ![cell[t]] = w]
    BY DEF Complete, Goto
  <1>2. CASE cell[t] = registry
    BY <1>1, <1>2 DEF CompletedLeaves, Types
  <1>3. CASE cell[t] # registry
    <2>1. registry # 0 => value'[registry] = value[registry]
      BY <1>1, <1>3 DEF Types
    <2>2. pc[t] \notin {"take", "remove"} /\ cell' = [cell EXCEPT ![t] = cell[t]]
      BY DEF Initialising, Types
    <2> QED
      BY <1>1, <2>1, <2>2, OthersLeave
  <1> QED
    BY <1>2, <1>3

\* So does a task that moves on without touching the flights.
LEMMA MovesLeave ==
    ASSUME Types, CompletedLeaves, NEW t \in Tasks, pc[t] \notin {"take", "remove"},
           UNCHANGED <<registry, cell, value>>, NEW at, pc' = [pc EXCEPT ![t] = at]
    PROVE  CompletedLeaves'
PROOF
  <1>1. cell' = [cell EXCEPT ![t] = cell[t]]
    BY DEF Types
  <1> QED
    BY <1>1, OthersLeave

LEMMA NextCompletedLeaves ==
    ASSUME Types, CompletedLeaves, [ServeNext]_requestVars
    PROVE  CompletedLeaves'
PROOF
  <1>1. CASE Aside
    BY <1>1, AsideLeaves DEF CompletedLeaves
  <1>2. ASSUME NEW t \in Tasks, Lookup(t)
        PROVE  CompletedLeaves'
    <2>1. PICK at : pc' = [pc EXCEPT ![t] = at]
      BY <1>2 DEF Lookup, Begin, Get, Stat, Mark, Goto
    <2>2. pc[t] \notin {"take", "remove"} /\ UNCHANGED <<registry, cell, value>>
      BY <1>2 DEF Lookup, Begin, Get, Stat, Mark, Unchanged
    <2> QED
      BY <2>1, <2>2, MovesLeave
  <1>3. ASSUME NEW t \in Tasks, Flight(t)
        PROVE  CompletedLeaves'
    <2>1. CASE Enter(t)
      <3>1. /\ pc' = [pc EXCEPT ![t] = "join"] /\ value' = value /\ pc[t] = "enter"
        BY <2>1 DEF Enter, Goto, Unchanged
      <3>2. CASE registry # 0
        <4>1. registry' = registry /\ cell' = [cell EXCEPT ![t] = registry]
          BY <2>1, <3>2 DEF Enter
        <4> QED
          BY <3>1, <4>1, OthersLeave
      <3>3. CASE registry = 0
        <4>1. Unused # {} /\ Unused \in SUBSET Nat
          BY <2>1, <3>3, CellsNames DEF Enter, Unused
        <4>2. registry' \in Unused
          BY <2>1, <3>3, <4>1, MinDef DEF Enter
        <4> QED
          BY <3>1, <4>2 DEF CompletedLeaves, Unused
      <3> QED
        BY <3>2, <3>3
    <2>2. CASE Initialise(t)
      BY <2>2, MovesLeave DEF Initialise, Goto, Unchanged
    <2>3. CASE Take(t)
      <3>1. /\ pc[t] \in {"join", "take"} /\ UNCHANGED <<registry, value, cell>>
            /\ pc' = [pc EXCEPT ![t] = IF registry = cell[t] THEN "remove" ELSE "leave"]
        BY <2>3 DEF Take, Goto, Unchanged, SameFlight
      <3>2. CASE registry = cell[t]
        <4>1. pc'[t] = "remove" /\ cell'[t] = registry'
          BY <3>1, <3>2 DEF Types
        <4> QED
          BY <4>1 DEF CompletedLeaves
      <3>3. CASE registry # cell[t]
        <4>1. cell' = [cell EXCEPT ![t] = cell[t]]
          BY <3>1 DEF Types
        <4> QED
          BY <3>1, <3>3, <4>1, OthersLeave
      <3> QED
        BY <3>2, <3>3
    <2>4. CASE Remove(t)
      BY <2>4 DEF Remove, CompletedLeaves
    <2>5. CASE Leave(t)
      <3>1. /\ pc[t] = "leave" /\ LetGo(t) /\ pc' = [pc EXCEPT ![t] = After(held[t])]
            /\ registry' = registry
        BY <2>5 DEF Leave, Goto, Unchanged
      <3>2. cell' = [cell EXCEPT ![t] = 0] /\ (registry # 0 => value'[registry] = value[registry])
        BY <3>1 DEF LetGo, Types
      <3> QED
        BY <3>1, <3>2, OthersLeave
    <2> QED
      BY <1>3, <2>1, <2>2, <2>3, <2>4, <2>5 DEF Flight
  <1>4. ASSUME NEW t \in Tasks, NEW others \in SUBSET Names, Download(t, others)
        PROVE  CompletedLeaves'
    <2>1. pc[t] \in Initialising /\ pc[t] \notin {"take", "remove"} /\ UNCHANGED <<registry, cell>>
      BY <1>4 DEF Download, StatFlight, Fetch, BrokenOff, Delivered, Upsert, Rename, Settle,
                  Unchanged, Initialising
    <2>2. \/ \E w : Complete(t, w)
          \/ value' = value /\ \E at : pc' = [pc EXCEPT ![t] = at]
      BY <1>4 DEF Download, StatFlight, Fetch, BrokenOff, Delivered, Upsert, Rename, Settle,
                  Unchanged, Goto
    <2> QED
      BY <2>1, <2>2, CompleteLeaves, MovesLeave
  <1>5. ASSUME NEW t \in Tasks, Response(t)
        PROVE  CompletedLeaves'
    <2>1. PICK at : pc' = [pc EXCEPT ![t] = at]
      BY <1>5 DEF Response, Open, Finish, Release, DropGuard, AtZero, Unmark, Respond, Goto
    <2>2. pc[t] \notin {"take", "remove"} /\ UNCHANGED <<registry, cell, value>>
      BY <1>5 DEF Response, Open, Finish, Unmark, Respond, Unchanged
    <2> QED
      BY <2>1, <2>2, MovesLeave
  <1>6. ASSUME NEW t \in Tasks, Cancel(t)
        PROVE  CompletedLeaves'
    <2>1. /\ pc[t] \notin {"take", "remove"} /\ registry' = registry
          /\ pc' = [pc EXCEPT ![t] = "idle"]
      BY <1>6 DEF Cancel, Goto, Awaiting, Initialising
    <2>2. /\ \E c : cell' = [cell EXCEPT ![t] = c]
          /\ registry # 0 => value'[registry] = value[registry]
      <3>1. CASE cell[t] = 0
        <4>1. cell' = [cell EXCEPT ![t] = cell[t]] /\ value' = value
          BY <1>6, <3>1 DEF Cancel, Types
        <4> QED
          BY <4>1
      <3>2. CASE cell[t] # 0
        BY <1>6, <3>2 DEF Cancel, LetGo, Types
      <3> QED
        BY <3>1, <3>2
    <2> QED
      BY <2>1, <2>2, OthersLeave
  <1> QED
    BY <1>1, <1>2, <1>3, <1>4, <1>5, <1>6 DEF ServeNext, Aside, TaskStep

-----------------------------------------------------------------------------
(* A busy path is released                                                  *)

\* The responses with a guard, lost or counted.
Marked == {t \in Tasks : pc[t] \in Responding /\ held[t] = Nothing}

\* Unless a guard is about to remove the entry, the entry counts one response at
\* least, and no more than there are: it does not wrap.
BusyCounted ==
    active.present =>
        \/ \E t \in Tasks : pc[t] = "unmark"
        \/ active.count \in 1 .. Cardinality(Marked)

LEMMA MarkedFinite == IsFiniteSet(Marked) /\ Cardinality(Marked) \in Nat /\ Cardinality(Marked) < Width
PROOF
  <1>1. IsFiniteSet(Tasks) /\ Marked \subseteq Tasks
    BY ServingAssumption DEF Marked
  <1>2. IsFiniteSet(Marked) /\ Cardinality(Marked) <= Cardinality(Tasks)
    BY <1>1, FS_Subset
  <1>3. Cardinality(Marked) \in Nat /\ Cardinality(Tasks) \in Nat
    BY <1>1, <1>2, FS_CardinalityType
  <1> QED
    BY <1>2, <1>3, ServingAssumption

\* A step that neither ends nor begins a response with a guard.
LEMMA SameMarked ==
    ASSUME Types, BusyCounted, active' = active, NEW t \in Tasks,
           \A u \in Tasks \ {t} : pc'[u] = pc[u] /\ held'[u] = held[u],
           pc[t] # "unmark", t \in Marked <=> pc'[t] \in Responding /\ held'[t] = Nothing
    PROVE  BusyCounted'
PROOF
  <1>1. Marked' = Marked
    BY DEF Marked
  <1>2. (\E u \in Tasks : pc[u] = "unmark") => \E u \in Tasks : pc'[u] = "unmark"
    OBVIOUS
  <1> QED
    BY <1>1, <1>2 DEF BusyCounted

LEMMA NextBusyCounted ==
    ASSUME Types, BusyCounted, [ServeNext]_requestVars
    PROVE  BusyCounted'
PROOF
  <1> USE DEF Responding
  <1>1. CASE Aside
    BY <1>1, AsideLeaves DEF BusyCounted, Marked
  <1>2. ASSUME NEW t \in Tasks, Begin(t) \/ Get(t) \/ Stat(t)
        PROVE  BusyCounted'
    <2>1. PICK at \in {"get", "stat", "enter", "stat_flight", "fetch", "stat_final", "error", "mark"} :
             pc' = [pc EXCEPT ![t] = at]
      BY <1>2 DEF Begin, Get, Stat, Goto
    <2>2. /\ active' = active /\ held' = held
          /\ pc[t] \in {"idle", "get", "get_flight", "get_final", "stat", "stat_final"}
      BY <1>2 DEF Begin, Get, Stat, Unchanged
    <2> QED
      BY <2>1, <2>2, SameMarked DEF Types, Marked
  <1>3. ASSUME NEW t \in Tasks, Mark(t)
        PROVE  BusyCounted'
    <2>1. /\ pc[t] = "mark" /\ pc' = [pc EXCEPT ![t] = "open"] /\ held' = held
          /\ active' = Entry(active.count + 1)
      BY <1>3 DEF Mark, Goto, Unchanged
    <2>2. held[t] = Nothing
      BY <2>1 DEF Types, Contents, Writing
    <2>3. t \notin Marked /\ Marked' = Marked \cup {t}
      BY <2>1, <2>2 DEF Marked, Types
    <2>4. Cardinality(Marked') = Cardinality(Marked) + 1
      BY <2>3, MarkedFinite, FS_AddElement
    <2>5. Cardinality(Marked') < Width
      <3>1. /\ IsFiniteSet(Tasks) /\ Marked' \subseteq Tasks
        BY <2>3, ServingAssumption DEF Marked
      <3> QED
        BY <2>4, <3>1, FS_Subset, FS_CardinalityType, ServingAssumption, MarkedFinite
    <2>6. ASSUME ~ \E u \in Tasks : pc[u] = "unmark"
          PROVE  active.count \in 0 .. Cardinality(Marked)
      BY <2>6, CountTyped, MarkedFinite DEF BusyCounted, Types
    <2>7. CASE \E u \in Tasks : pc[u] = "unmark"
      BY <2>1, <2>7 DEF BusyCounted, Types
    <2>8. CASE ~ \E u \in Tasks : pc[u] = "unmark"
      <3>1. active.count + 1 \in 1 .. Cardinality(Marked')
        BY <2>4, <2>6, <2>8, MarkedFinite
      <3>2. (active.count + 1) % Width = active.count + 1
        BY <2>4, <2>5, <3>1, MarkedFinite, ServingAssumption
      <3>3. active'.count = active.count + 1
        BY <2>1, <3>2 DEF Entry
      <3> QED
        BY <3>1, <3>3 DEF BusyCounted
    <2> QED
      BY <2>7, <2>8
  <1>4. ASSUME NEW t \in Tasks, Flight(t)
        PROVE  BusyCounted'
    <2>1. CASE Leave(t)
      <3>1. /\ pc[t] = "leave" /\ pc' = [pc EXCEPT ![t] = After(held[t])] /\ active' = active
            /\ held' = (IF held[t].kind = "passthrough" THEN held ELSE [held EXCEPT ![t] = Nothing])
        BY <2>1 DEF Leave, Goto, Hold, Unchanged
      <3>2. held[t] \in Settled
        BY <3>1 DEF Types, Contents
      <3>3. held[t].kind = "passthrough" <=> held[t] \in Passed
        BY <3>2, OutcomeCases DEF Settled
      <3>4. held[t] \notin Passed => After(held[t]) \notin Responding
        BY <3>2, AfterCases, OutcomeCases
      <3>5. held[t] \in Passed => held[t] # Nothing
        BY OutcomeCases
      <3> QED
        BY <3>1, <3>3, <3>4, <3>5, SameMarked DEF Types, Marked
    <2>2. CASE ~Leave(t)
      <3>1. PICK at \in {"join", "get_flight", "remove", "leave"} : pc' = [pc EXCEPT ![t] = at]
        BY <1>4, <2>2 DEF Flight, Enter, Initialise, Take, Remove, Goto
      <3>2. /\ active' = active /\ pc[t] \in {"enter", "join", "take", "remove"}
            /\ held' = held \/ \E w : held' = [held EXCEPT ![t] = w]
        BY <1>4, <2>2 DEF Flight, Enter, Initialise, Take, Remove, Hold, Unchanged
      <3> QED
        BY <3>1, <3>2, SameMarked DEF Types, Marked
    <2> QED
      BY <2>1, <2>2
  <1>5. ASSUME NEW t \in Tasks, NEW others \in SUBSET Names, Download(t, others)
        PROVE  BusyCounted'
    <2>1. PICK at \in {"take", "fetch", "body", "upsert", "rename", "settle"} :
             pc' = [pc EXCEPT ![t] = at]
      BY <1>5 DEF Download, StatFlight, Fetch, BrokenOff, Delivered, Upsert, Rename, Settle,
                  Complete, Goto
    <2>2. /\ active' = active /\ pc[t] \in Initialising
          /\ held' = held \/ \E w : held' = [held EXCEPT ![t] = w]
      BY <1>5 DEF Download, StatFlight, Fetch, BrokenOff, Delivered, Upsert, Rename, Settle,
                  Complete, Hold, Unchanged, Initialising
    <2> QED
      BY <2>1, <2>2, SameMarked DEF Types, Marked, Initialising
  <1>6. ASSUME NEW t \in Tasks, Open(t) \/ Respond(t)
        PROVE  BusyCounted'
    <2>1. /\ active' = active /\ held' = held
          /\ \/ pc[t] = "open" /\ \E at \in {"stream", "lost"} : pc' = [pc EXCEPT ![t] = at]
             \/ pc[t] = "error" /\ pc' = [pc EXCEPT ![t] = "idle"]
      BY <1>6 DEF Open, Respond, Goto, Unchanged
    <2> QED
      BY <2>1, SameMarked DEF Types, Marked
  <1>7. ASSUME NEW t \in Tasks, Finish(t)
        PROVE  BusyCounted'
    <2>1. pc[t] \in Responding /\ held[t] \in {Nothing} \cup Passed
      BY <1>7 DEF Finish, Types, Contents, Writing
    <2>2. CASE held[t] \in Passed
      <3>1. /\ pc' = [pc EXCEPT ![t] = "idle"] /\ held' = [held EXCEPT ![t] = Nothing]
            /\ active' = active /\ held[t] # Nothing
        BY <1>7, <2>2, OutcomeCases DEF Finish, Release, Goto, Hold
      <3> QED
        BY <2>1, <3>1, SameMarked DEF Types, Marked
    <2>3. CASE held[t] = Nothing
      <3>1. DropGuard(t) /\ held' = held
        BY <1>7, <2>3, Kinds DEF Finish, Release
      <3>2. CASE ~active.present
        <4>1. active' = active
          BY <3>1, <3>2 DEF DropGuard
        <4> QED
          BY <3>2, <4>1 DEF BusyCounted
      <3>3. CASE active.present /\ \E u \in Tasks : pc[u] = "unmark"
        <4>1. PICK u \in Tasks : pc[u] = "unmark"
          BY <3>3
        <4>2. pc'[u] = "unmark"
          BY <2>1, <3>1, <4>1 DEF DropGuard, AtZero, Goto, Types
        <4> QED
          BY <4>2 DEF BusyCounted
      <3>4. CASE active.present /\ ~ \E u \in Tasks : pc[u] = "unmark"
        <4>1. active.count \in 1 .. Cardinality(Marked)
          BY <3>4 DEF BusyCounted
        <4>2. /\ active' = Entry(active.count + Width - 1)
              /\ pc' = [pc EXCEPT ![t] = IF active'.count = 0 THEN "unmark" ELSE "idle"]
          BY <3>1, <3>4 DEF DropGuard, AtZero, Goto
        <4>3. (active.count + Width - 1) % Width = active.count - 1
          <5> DEFINE c == active.count - 1
          <5>1. c \in 0 .. Width - 1 /\ Width \in Nat \ {0}
            BY <4>1, MarkedFinite, ServingAssumption
          <5> HIDE DEF c
          <5>2. (c + Width) % Width = c
            BY <5>1
          <5>3. active.count + Width - 1 = c + Width
            BY <4>1, MarkedFinite, ServingAssumption DEF c
          <5> QED
            BY <5>2, <5>3 DEF c
        <4>4. active'.count = active.count - 1
          BY <4>2, <4>3 DEF Entry
        <4>5. t \in Marked /\ Marked' = Marked \ {t}
          BY <2>1, <2>3, <3>1, <4>2 DEF Marked, Types
        <4>6. Cardinality(Marked') = Cardinality(Marked) - 1
          BY <4>5, MarkedFinite, FS_RemoveElement
        <4>7. CASE active'.count = 0
          <5>1. pc'[t] = "unmark"
            BY <4>2, <4>7 DEF Types
          <5> QED
            BY <5>1 DEF BusyCounted
        <4>8. CASE active'.count # 0
          BY <4>1, <4>4, <4>6, <4>8, MarkedFinite DEF BusyCounted
        <4> QED
          BY <4>7, <4>8
      <3> QED
        BY <3>2, <3>3, <3>4
    <2> QED
      BY <2>1, <2>2, <2>3
  <1>8. ASSUME NEW t \in Tasks, Unmark(t)
        PROVE  BusyCounted'
    BY <1>8 DEF Unmark, NoEntry, BusyCounted
  <1>9. ASSUME NEW t \in Tasks, Cancel(t)
        PROVE  BusyCounted'
    <2>1. /\ active' = active /\ held' = [held EXCEPT ![t] = Nothing]
          /\ pc[t] \in Awaiting /\ pc' = [pc EXCEPT ![t] = "idle"]
      BY <1>9 DEF Cancel, Goto, Hold
    <2> QED
      BY <2>1, SameMarked DEF Types, Marked, Awaiting, Initialising
  <1> QED
    BY <1>1, <1>2, <1>3, <1>4, <1>5, <1>6, <1>7, <1>8, <1>9 DEF ServeNext, Aside, TaskStep, Lookup, Response

LEMMA CountedReleased == Types /\ BusyCounted => BusyReleased
PROOF
  <1> SUFFICES ASSUME Types, BusyCounted, active.present
               PROVE  \E t \in Tasks : /\ pc[t] \in {"open", "stream", "lost", "unmark"}
                                       /\ held[t] = Nothing
    BY DEF BusyReleased
  <1>1. ASSUME NEW t \in Tasks, pc[t] = "unmark"
        PROVE  held[t] = Nothing
    BY <1>1 DEF Types, Contents, Writing, Responding
  <1>2. CASE active.count \in 1 .. Cardinality(Marked)
    <2>1. Cardinality(Marked) # 0
      BY <1>2, MarkedFinite
    <2>2. Marked # {}
      BY <2>1, FS_EmptySet
    <2> QED
      BY <2>2 DEF Marked, Responding
  <1> QED
    BY <1>1, <1>2 DEF BusyCounted

-----------------------------------------------------------------------------
(* One task downloads for a flight                                          *)

LEMMA SameInitialises ==
    ASSUME Types, OneInitialises, NEW t \in Tasks, NEW at, pc' = [pc EXCEPT ![t] = at],
           at \in Initialising => pc[t] \in Initialising /\ cell'[t] = cell[t],
           \A u \in Tasks \ {t} : cell'[u] = cell[u],
           \A u \in Tasks : pc'[u] \in Initialising => value'[cell[u]] = value[cell[u]]
    PROVE  OneInitialises'
PROOF
  <1>1. \A u \in Tasks : pc'[u] \in Initialising => pc[u] \in Initialising /\ cell'[u] = cell[u]
    BY DEF Types
  <1> QED
    BY <1>1 DEF OneInitialises

LEMMA CompleteInitialises ==
    ASSUME Types, OneInitialises, NEW t \in Tasks, NEW w, Complete(t, w),
           pc[t] \in Initialising, cell' = cell
    PROVE  OneInitialises'
PROOF
  <1>1. pc' = [pc EXCEPT ![t] = "take"] /\ value' = [value EXCEPT ![cell[t]] = w]
    BY DEF Complete, Goto
  <1>2. "take" \notin Initialising
    BY DEF Initialising
  <1>3. ASSUME NEW u \in Tasks, pc'[u] \in Initialising
        PROVE  value'[cell[u]] = value[cell[u]]
    <2>1. u # t /\ pc[u] \in Initialising
      BY <1>1, <1>2, <1>3 DEF Types
    <2>2. cell[u] # cell[t]
      BY <2>1 DEF OneInitialises
    <2> QED
      BY <1>1, <2>2 DEF Types
  <1> QED
    BY <1>1, <1>2, <1>3, SameInitialises

\* An outcome that is dropped was that of a flight which nobody else holds.
LEMMA LetGoInitialises ==
    ASSUME Types, NEW t \in Tasks, LetGo(t), NEW u \in Tasks \ {t}
    PROVE  /\ cell'[u] = cell[u]
           /\ pc[u] \in Initialising => value'[cell[u]] = value[cell[u]]
PROOF
  <1>1. pc[u] \in Initialising => cell[u] \in Cells
    BY DEF Types, InFlight
  <1>2. cell'[u] = cell[u]
    BY DEF Types, LetGo
  <1>3. CASE cell[t] = registry \/ \E v \in Tasks \ {t} : cell[v] = cell[t]
    BY <1>2, <1>3 DEF LetGo
  <1>4. CASE ~(cell[t] = registry \/ \E v \in Tasks \ {t} : cell[v] = cell[t])
    <2>1. value' = [value EXCEPT ![cell[t]] = Nothing] /\ cell[u] # cell[t]
      BY <1>4 DEF LetGo
    <2> QED
      BY <1>1, <1>2, <2>1 DEF Types
  <1> QED
    BY <1>3, <1>4

LEMMA NextOneInitialises ==
    ASSUME Types, OneInitialises, [ServeNext]_requestVars
    PROVE  OneInitialises'
PROOF
  <1>1. CASE Aside
    BY <1>1, AsideLeaves DEF OneInitialises
  <1>2. ASSUME NEW t \in Tasks, Lookup(t) \/ Response(t)
        PROVE  OneInitialises'
    <2>1. PICK at : /\ pc' = [pc EXCEPT ![t] = at]
                    /\ at \in Initialising => pc[t] \in Initialising
      BY <1>2 DEF Lookup, Begin, Get, Stat, Mark, Response, Open, Finish, Release, DropGuard,
                  AtZero, Unmark, Respond, Goto, Initialising
    <2>2. UNCHANGED <<cell, value>>
      BY <1>2 DEF Lookup, Begin, Get, Stat, Mark, Response, Open, Finish, Unmark, Respond, Unchanged
    <2> QED
      BY <2>1, <2>2, SameInitialises
  <1>3. ASSUME NEW t \in Tasks, Flight(t)
        PROVE  OneInitialises'
    <2>1. CASE Initialise(t)
      <3>1. /\ pc[t] = "join" /\ pc' = [pc EXCEPT ![t] = "get_flight"]
            /\ value[cell[t]] = Nothing /\ UNCHANGED <<cell, value>>
            /\ \A u \in Tasks : cell[u] = cell[t] => pc[u] \notin Initialising
        BY <2>1 DEF Initialise, Goto, Unchanged
      <3> QED
        BY <3>1 DEF OneInitialises, Types
    <2>2. CASE Leave(t)
      <3>1. /\ pc[t] = "leave" /\ pc' = [pc EXCEPT ![t] = After(held[t])] /\ LetGo(t)
        BY <2>2 DEF Leave, Goto
      <3>2. held[t] \in Settled
        BY <3>1 DEF Types, Contents
      <3>3. After(held[t]) \notin Initialising
        BY <3>2, AfterCases DEF Initialising
      <3>4. \A u \in Tasks : pc'[u] \in Initialising => u # t /\ pc[u] \in Initialising
        BY <3>1, <3>3 DEF Types
      <3> QED
        BY <3>1, <3>3, <3>4, LetGoInitialises, SameInitialises
    <2>3. CASE ~Initialise(t) /\ ~Leave(t)
      <3>1. PICK at \in {"join", "remove", "leave"} : pc' = [pc EXCEPT ![t] = at]
        BY <1>3, <2>3 DEF Flight, Enter, Take, Remove, Goto
      <3>2. value' = value /\ \A u \in Tasks \ {t} : cell'[u] = cell[u]
        BY <1>3, <2>3 DEF Flight, Enter, Take, Remove, Unchanged, Types
      <3> QED
        BY <3>1, <3>2, SameInitialises DEF Initialising
    <2> QED
      BY <2>1, <2>2, <2>3
  <1>4. ASSUME NEW t \in Tasks, NEW others \in SUBSET Names, Download(t, others)
        PROVE  OneInitialises'
    <2>1. pc[t] \in Initialising /\ cell' = cell
      BY <1>4 DEF Download, StatFlight, Fetch, BrokenOff, Delivered, Upsert, Rename, Settle,
                  Unchanged, Initialising
    <2>2. \/ \E w : Complete(t, w)
          \/ value' = value /\ \E at : pc' = [pc EXCEPT ![t] = at]
      BY <1>4 DEF Download, StatFlight, Fetch, BrokenOff, Delivered, Upsert, Rename, Settle,
                  Unchanged, Goto
    <2> QED
      BY <2>1, <2>2, CompleteInitialises, SameInitialises
  <1>5. ASSUME NEW t \in Tasks, Cancel(t)
        PROVE  OneInitialises'
    <2>1. pc' = [pc EXCEPT ![t] = "idle"] /\ "idle" \notin Initialising
      BY <1>5 DEF Cancel, Goto, Initialising
    <2>2. \A u \in Tasks : pc'[u] \in Initialising => u # t /\ pc[u] \in Initialising
      BY <2>1 DEF Types
    <2>3. \A u \in Tasks \ {t} :
             /\ cell'[u] = cell[u]
             /\ pc[u] \in Initialising => value'[cell[u]] = value[cell[u]]
      BY <1>5, LetGoInitialises DEF Cancel
    <2> QED
      BY <2>1, <2>2, <2>3, SameInitialises
  <1> QED
    BY <1>1, <1>2, <1>3, <1>4, <1>5 DEF ServeNext, Aside, TaskStep

-----------------------------------------------------------------------------
(* The references of a shared temporary file                                *)

Is(v, w) == IF v = w THEN 1 ELSE 0
Matching(f, S, v) == {s \in S : f[s] = v}

\* How many arguments have a value, when one of them gets another.
LEMMA CountUpdate ==
    ASSUME NEW S, IsFiniteSet(S), NEW f, NEW x \in S, NEW g, NEW y, f = [s \in S |-> f[s]],
           \A s \in S \ {x} : g[s] = f[s]
    PROVE  /\ Cardinality(Matching(f, S, y)) \in Nat
           /\ Cardinality(Matching(g, S, y)) \in Nat
           /\ Cardinality(Matching(g, S, y))
                = Cardinality(Matching(f, S, y)) + Is(g[x], y) - Is(f[x], y)
PROOF
  <1> DEFINE F == {s \in S : f[s] = y}
             G == {s \in S : g[s] = y}
             R == F \ {x}
  <1>1. IsFiniteSet(F) /\ IsFiniteSet(R)
    <2>1. F \in SUBSET S /\ R \in SUBSET S
      OBVIOUS
    <2> QED
      BY <2>1, FS_Subset
  <1>2. Cardinality(F) \in Nat /\ Cardinality(R) \in Nat
    BY <1>1, FS_CardinalityType
  <1>3. F = (IF f[x] = y THEN R \cup {x} ELSE R) /\ G = (IF g[x] = y THEN R \cup {x} ELSE R)
    OBVIOUS
  <1>4. Cardinality(R \cup {x}) = Cardinality(R) + 1
    BY <1>1, FS_AddElement
  <1> HIDE DEF F, G, R
  <1>5. Cardinality(F) = Cardinality(R) + Is(f[x], y) /\ Cardinality(G) = Cardinality(R) + Is(g[x], y)
    BY <1>2, <1>3, <1>4 DEF Is
  <1>6. /\ Cardinality(G) \in Nat
        /\ Cardinality(G) = Cardinality(F) + Is(g[x], y) - Is(f[x], y)
    BY <1>2, <1>5 DEF Is
  <1> QED
    BY <1>2, <1>6 DEF F, G, Matching

Counted == refs \in [Names -> Nat] /\ TempCounted

\* A reference that somebody holds is counted.
LEMMA RefsKnown ==
    ASSUME Types, Counted, NEW n \in Names
    PROVE  /\ \A t \in Tasks : held[t] = Passthrough(n) => refs[n] > 0
           /\ \A c \in Cells : value[c] = Passthrough(n) => refs[n] > 0
PROOF
  <1> DEFINE H == {t \in Tasks : held[t] = Passthrough(n)}
             V == {c \in Cells : value[c] = Passthrough(n)}
  <1>1. refs[n] = Cardinality(H) + Cardinality(V)
    BY DEF Counted, TempCounted
  <1>2. IsFiniteSet(H) /\ IsFiniteSet(V)
    <2>1. H \in SUBSET Tasks /\ V \in SUBSET Cells
      OBVIOUS
    <2> QED
      BY <2>1, FS_Subset, CellsNames, ServingAssumption
  <1>3. Cardinality(H) \in Nat /\ Cardinality(V) \in Nat
    BY <1>2, FS_CardinalityType
  <1>4. (H # {} => Cardinality(H) # 0) /\ (V # {} => Cardinality(V) # 0)
    BY <1>2, FS_EmptySet
  <1>5. H # {} \/ V # {} => refs[n] > 0
    <2> HIDE DEF H, V
    <2> QED
      BY <1>1, <1>3, <1>4
  <1> QED
    BY <1>5

\* Nothing that is counted changes.
LEMMA SameCount ==
    ASSUME Counted, refs' = refs,
           \A t \in Tasks : held'[t] = held[t] \/ (held'[t] \notin Passed /\ held[t] \notin Passed),
           \A c \in Cells : value'[c] = value[c] \/ (value'[c] \notin Passed /\ value[c] \notin Passed)
    PROVE  Counted'
PROOF
  <1> SUFFICES ASSUME NEW n \in Names
               PROVE  /\ {t \in Tasks : held'[t] = Passthrough(n)} = {t \in Tasks : held[t] = Passthrough(n)}
                      /\ {c \in Cells : value'[c] = Passthrough(n)} = {c \in Cells : value[c] = Passthrough(n)}
    BY DEF Counted, TempCounted
  <1>1. Passthrough(n) \in Passed
    BY DEF Passed
  <1> QED
    BY <1>1

\* What one task holds changes, and the outcome of one flight, and the counts do so
\* accordingly.
LEMMA CountedStep ==
    ASSUME Types, Counted, NEW t \in Tasks, NEW c \in Cells,
           \A u \in Tasks \ {t} : held'[u] = held[u],
           \A d \in Cells \ {c} : value'[d] = value[d],
           refs' = [n \in Names |-> refs'[n]],
           \A n \in Names :
              refs'[n] = refs[n] + Is(held'[t], Passthrough(n)) - Is(held[t], Passthrough(n))
                         + Is(value'[c], Passthrough(n)) - Is(value[c], Passthrough(n))
    PROVE  Counted'
PROOF
  <1> SUFFICES ASSUME NEW n \in Names
               PROVE  /\ refs'[n] \in Nat
                      /\ refs'[n] = Cardinality({u \in Tasks : held'[u] = Passthrough(n)})
                                    + Cardinality({d \in Cells : value'[d] = Passthrough(n)})
    BY DEF Counted, TempCounted
  <1> DEFINE H == Cardinality(Matching(held, Tasks, Passthrough(n)))
             V == Cardinality(Matching(value, Cells, Passthrough(n)))
             NewH == Cardinality(Matching(held', Tasks, Passthrough(n)))
             NewV == Cardinality(Matching(value', Cells, Passthrough(n)))
  <1>1. /\ H \in Nat /\ NewH \in Nat
        /\ NewH = H + Is(held'[t], Passthrough(n)) - Is(held[t], Passthrough(n))
    <2>1. IsFiniteSet(Tasks) /\ held = [u \in Tasks |-> held[u]]
      BY ServingAssumption DEF Types
    <2> QED
      BY <2>1, CountUpdate
  <1>2. /\ V \in Nat /\ NewV \in Nat
        /\ NewV = V + Is(value'[c], Passthrough(n)) - Is(value[c], Passthrough(n))
    <2>1. IsFiniteSet(Cells) /\ value = [d \in Cells |-> value[d]]
      BY CellsNames DEF Types
    <2> QED
      BY <2>1, CountUpdate
  <1>4. refs[n] = H + V
    BY DEF Counted, TempCounted, Matching
  <1> HIDE DEF H, V, NewH, NewV
  <1>5. refs'[n] = NewH + NewV
    BY <1>1, <1>2, <1>4 DEF Is
  <1> QED
    BY <1>1, <1>2, <1>5 DEF NewH, NewV, Matching

\* The same when no outcome changes.
LEMMA CountedHeld ==
    ASSUME Types, Counted, NEW t \in Tasks, value' = value,
           \A u \in Tasks \ {t} : held'[u] = held[u],
           refs' = [n \in Names |-> refs'[n]],
           \A n \in Names :
              refs'[n] = refs[n] + Is(held'[t], Passthrough(n)) - Is(held[t], Passthrough(n))
    PROVE  Counted'
PROOF
  <1> SUFFICES ASSUME NEW n \in Names
               PROVE  /\ refs'[n] \in Nat
                      /\ refs'[n] = Cardinality({u \in Tasks : held'[u] = Passthrough(n)})
                                    + Cardinality({d \in Cells : value[d] = Passthrough(n)})
    BY DEF Counted, TempCounted
  <1> DEFINE H == Cardinality(Matching(held, Tasks, Passthrough(n)))
             V == Cardinality(Matching(value, Cells, Passthrough(n)))
             NewH == Cardinality(Matching(held', Tasks, Passthrough(n)))
  <1>1. /\ H \in Nat /\ NewH \in Nat
        /\ NewH = H + Is(held'[t], Passthrough(n)) - Is(held[t], Passthrough(n))
    <2>1. IsFiniteSet(Tasks) /\ held = [u \in Tasks |-> held[u]]
      BY ServingAssumption DEF Types
    <2> QED
      BY <2>1, CountUpdate
  <1>2. V \in Nat
    <2>1. Matching(value, Cells, Passthrough(n)) \in SUBSET Cells
      BY DEF Matching
    <2> QED
      BY <2>1, FS_Subset, FS_CardinalityType, CellsNames
  <1>3. refs[n] = H + V
    BY DEF Counted, TempCounted, Matching
  <1> HIDE DEF H, V, NewH
  <1>4. refs'[n] = NewH + V
    BY <1>1, <1>2, <1>3 DEF Is
  <1> QED
    BY <1>1, <1>2, <1>4 DEF NewH, V, Matching

\* A download owns the part it writes.
PartsOwned ==
    \A t \in Tasks, n \in Names :
        held[t] = Part(n) => refs[n] = 0 /\ \A u \in Tasks : held[u] = Part(n) => u = t

\* What is written or referenced is there.
Backed ==
    \A n \in Names :
        /\ refs[n] > 0 => n \in parts
        /\ \A t \in Tasks : held[t] = Part(n) => n \in parts

LEMMA Distinct ==
    /\ \A m, n : Passthrough(m) = Passthrough(n) => m = n
    /\ \A m, n : Part(m) = Part(n) => m = n
    /\ \A n \in Names : Passthrough(n) \in Passed /\ Part(n) \in Written
    /\ \A w : w \in Written => w \notin Passed /\ w # Nothing
    /\ Nothing \notin Passed
    /\ \A w \in {Outcome("installed"), Outcome("failed"), Outcome("broken")} : w \notin Passed
    /\ \A v, w : Is(v, w) \in {0, 1}
    /\ \A w, n : n \in Names /\ w \notin Passed => Is(w, Passthrough(n)) = 0
    /\ \A m, n : Is(Passthrough(m), Passthrough(n)) = IF m = n THEN 1 ELSE 0
PROOF
  <1>1. \A m, n : Passthrough(m) = Passthrough(n) => m = n
    <2> SUFFICES ASSUME NEW m, NEW n, Passthrough(m) = Passthrough(n) PROVE m = n
      OBVIOUS
    <2>1. Passthrough(m).name = m /\ Passthrough(n).name = n
      BY Kinds
    <2> QED
      BY <2>1
  <1>2. \A m, n : Part(m) = Part(n) => m = n
    <2> SUFFICES ASSUME NEW m, NEW n, Part(m) = Part(n) PROVE m = n
      OBVIOUS
    <2>1. Part(m).name = m /\ Part(n).name = n
      BY Kinds
    <2> QED
      BY <2>1
  <1>3. \A n \in Names : Passthrough(n) \in Passed /\ Part(n) \in Written
    BY DEF Passed, Written
  <1>4. \A w \in Passed : w.kind = "passthrough"
    BY OutcomeCases
  <1>5. \A w \in Written : w.kind = "part"
    BY OutcomeCases
  <1>6. \A w : w \in Written => w \notin Passed /\ w # Nothing
    BY <1>4, <1>5, Kinds
  <1>7. Nothing \notin Passed
    BY <1>4, Kinds
  <1>8. \A w \in {Outcome("installed"), Outcome("failed"), Outcome("broken")} : w \notin Passed
    BY <1>4, Kinds
  <1> QED
    BY <1>1, <1>2, <1>3, <1>6, <1>7, <1>8 DEF Is

LEMMA LetGoCounted ==
    ASSUME Types, Counted, NEW t \in Tasks, LetGo(t), cell[t] \in Cells,
           \A u \in Tasks \ {t} : held'[u] = held[u],
           held'[t] = held[t] \/ (held'[t] \notin Passed /\ held[t] \notin Passed)
    PROVE  Counted'
PROOF
  <1> DEFINE c == cell[t]
  <1>1. value[c] \in Outcomes
    BY DEF Types
  <1>2. CASE UNCHANGED <<value, refs, parts>>
    BY <1>2, SameCount
  <1>3. CASE value' = [value EXCEPT ![c] = Nothing] /\ value[c] \in Passed
             /\ DropReference(value[c].name)
    <2>1. PICK m \in Names : value[c] = Passthrough(m) /\ value[c].name = m
      BY <1>3, OutcomeCases
    <2>2. refs' = [refs EXCEPT ![m] = @ - 1]
      BY <1>3, <2>1 DEF DropReference
    <2>3. value'[c] = Nothing /\ \A d \in Cells \ {c} : value'[d] = value[d]
      BY <1>3 DEF Types
    <2>4. refs' = [n \in Names |-> refs'[n]]
      BY <2>2 DEF Counted
    <2>5. ASSUME NEW n \in Names
          PROVE  refs'[n] = refs[n] + Is(held'[t], Passthrough(n)) - Is(held[t], Passthrough(n))
                            + Is(value'[c], Passthrough(n)) - Is(value[c], Passthrough(n))
      <3>1. Is(held'[t], Passthrough(n)) = Is(held[t], Passthrough(n))
            /\ Is(held[t], Passthrough(n)) \in {0, 1}
        BY Distinct
      <3>2. Is(value'[c], Passthrough(n)) = 0
        BY <2>3, Distinct
      <3>3. Is(value[c], Passthrough(n)) = IF m = n THEN 1 ELSE 0
        BY <2>1, Distinct
      <3>4. refs[n] \in Nat /\ refs'[n] = IF m = n THEN refs[n] - 1 ELSE refs[n]
        BY <2>2 DEF Counted
      <3> HIDE DEF c
      <3> QED
        BY <3>1, <3>2, <3>3, <3>4
    <2> QED
      BY <2>3, <2>4, <2>5, CountedStep
  <1>4. CASE value' = [value EXCEPT ![c] = Nothing] /\ value[c] \notin Passed
             /\ UNCHANGED <<refs, parts>>
    <2>1. \A d \in Cells : value'[d] = value[d] \/ (value'[d] \notin Passed /\ value[d] \notin Passed)
      BY <1>4, Distinct DEF Types
    <2> QED
      BY <1>4, <2>1, SameCount
  <1> QED
    BY <1>1, <1>2, <1>3, <1>4, OutcomeCases DEF LetGo

\* A flight that is completed without a file to share.
LEMMA CompleteCounted ==
    ASSUME Types, Counted, OneInitialises, NEW t \in Tasks, pc[t] \in Initialising,
           NEW w \in {Outcome("installed"), Outcome("failed"), Outcome("broken")},
           Complete(t, w), refs' = refs
    PROVE  Counted'
PROOF
  <1>1. value' = [value EXCEPT ![cell[t]] = w] /\ held' = [held EXCEPT ![t] = Nothing]
    BY DEF Complete, Hold
  <1>2. value[cell[t]] = Nothing
    BY DEF OneInitialises
  <1>3. held[t] \in {Nothing} \cup Written
    BY DEF Types, Contents, Initialising, Writing, Responding
  <1> QED
    BY <1>1, <1>2, <1>3, Distinct, SameCount DEF Types

LEMMA NextCounted ==
    ASSUME Types, Counted, OneInitialises, PartsOwned, [ServeNext]_requestVars
    PROVE  Counted'
PROOF
  <1>1. CASE Aside
    BY <1>1, AsideLeaves, SameCount
  <1>2. ASSUME NEW t \in Tasks, Lookup(t) \/ Open(t) \/ Unmark(t) \/ Respond(t)
        PROVE  Counted'
    <2>1. UNCHANGED <<refs, held, value>>
      BY <1>2 DEF Lookup, Begin, Get, Stat, Mark, Open, Unmark, Respond, Unchanged
    <2> QED
      BY <2>1, SameCount
  <1>3. ASSUME NEW t \in Tasks, Enter(t) \/ Initialise(t) \/ Remove(t) \/ Upsert(t)
        PROVE  Counted'
    <2>1. UNCHANGED <<refs, held, value>>
      BY <1>3 DEF Enter, Initialise, Remove, Upsert, Unchanged
    <2> QED
      BY <2>1, SameCount
  <1>4. ASSUME NEW t \in Tasks, Take(t)
        PROVE  Counted'
    <2> DEFINE w == value[cell[t]]
    <2>1. /\ pc[t] \in {"join", "take"} /\ w # Nothing /\ value' = value
          /\ refs' = Cloned(w) /\ held' = [held EXCEPT ![t] = w]
      BY <1>4 DEF Take, Hold, Unchanged
    <2>2. cell[t] \in Cells /\ held[t] = Nothing
      BY <2>1 DEF Types, InFlight, Contents, Writing, Responding
    <2>3. w \in Outcomes /\ held'[t] = w /\ \A u \in Tasks \ {t} : held'[u] = held[u]
      BY <2>1, <2>2 DEF Types
    <2> HIDE DEF w
    <2>4. CASE w \notin Passed
      <3>1. refs' = refs
        BY <2>1, <2>3, <2>4, OutcomeCases DEF Cloned
      <3> QED
        BY <2>1, <2>2, <2>3, <2>4, <3>1, SameCount, Distinct
    <2>5. CASE w \in Passed
      <3>1. PICK m \in Names : w = Passthrough(m) /\ refs' = [refs EXCEPT ![m] = @ + 1]
        BY <2>1, <2>5, OutcomeCases DEF Cloned
      <3>2. refs' = [n \in Names |-> refs'[n]]
        BY <3>1 DEF Counted
      <3>3. ASSUME NEW n \in Names
            PROVE  refs'[n] = refs[n] + Is(held'[t], Passthrough(n)) - Is(held[t], Passthrough(n))
        <4>1. Is(held'[t], Passthrough(n)) = IF m = n THEN 1 ELSE 0
          BY <2>3, <3>1, Distinct
        <4>2. Is(held[t], Passthrough(n)) = 0
          BY <2>2, Distinct
        <4>3. refs[n] \in Nat /\ refs'[n] = IF m = n THEN refs[n] + 1 ELSE refs[n]
          BY <3>1 DEF Counted
        <4> QED
          BY <4>1, <4>2, <4>3
      <3> QED
        BY <2>1, <2>3, <3>2, <3>3, CountedHeld
    <2> QED
      BY <2>4, <2>5
  <1>5. ASSUME NEW t \in Tasks, Leave(t)
        PROVE  Counted'
    <2>1. pc[t] = "leave" /\ LetGo(t)
      BY <1>5 DEF Leave
    <2>2. cell[t] \in Cells /\ held[t] \in Settled
      BY <2>1 DEF Types, InFlight, Contents
    <2>3. held' = held \/ (held[t] \notin Passed /\ held' = [held EXCEPT ![t] = Nothing])
      BY <1>5, <2>2, OutcomeCases DEF Leave, Hold, Settled
    <2>4. /\ \A u \in Tasks \ {t} : held'[u] = held[u]
          /\ held'[t] = held[t] \/ (held'[t] \notin Passed /\ held[t] \notin Passed)
      BY <2>3, Distinct DEF Types
    <2> QED
      BY <2>1, <2>2, <2>4, LetGoCounted
  <1>6. ASSUME NEW t \in Tasks, NEW others \in SUBSET Names,
               StatFlight(t) \/ Fetch(t, others) \/ BrokenOff(t) \/ Rename(t) \/ Settle(t)
        PROVE  Counted'
    <2>1. refs' = refs /\ pc[t] \in Initialising
      BY <1>6 DEF StatFlight, Fetch, BrokenOff, Rename, Settle, Unchanged, Initialising
    <2>2. CASE \E w \in {Outcome("installed"), Outcome("failed"), Outcome("broken")} : Complete(t, w)
      BY <2>1, <2>2, CompleteCounted
    <2>3. CASE value' = value /\ \E w : w \notin Passed /\ held' \in {held, [held EXCEPT ![t] = w]}
      <3>1. held[t] \notin Passed
        BY <2>1, Distinct DEF Types, Contents, Initialising, Writing, Responding
      <3> QED
        BY <2>1, <2>3, <3>1, SameCount DEF Types
    <2>4. \A n : Part(n) \notin Passed
      <3> SUFFICES ASSUME NEW n, Part(n) \in Passed PROVE FALSE
        OBVIOUS
      <3>1. Part(n).kind = "passthrough"
        BY OutcomeCases
      <3> QED
        BY <3>1, Kinds
    <2> QED
      BY <1>6, <2>2, <2>3, <2>4, Distinct
         DEF StatFlight, Fetch, BrokenOff, Rename, Settle, Hold
  <1>7. ASSUME NEW t \in Tasks, Delivered(t)
        PROVE  Counted'
    <2> DEFINE m == held[t].name
               c == cell[t]
    <2>1. pc[t] = "body" /\ held[t] \in Written
      BY <1>7 DEF Delivered, Types, Contents, Writing
    <2>2. m \in Names /\ held[t] = Part(m) /\ refs[m] = 0
      BY <2>1, OutcomeCases DEF PartsOwned
    <2>3. c \in Cells /\ value[c] = Nothing
      BY <2>1 DEF Types, OneInitialises, InFlight, Initialising
    <2>4. CASE UNCHANGED <<value, held, refs>>
      BY <2>4, SameCount
    <2>5. CASE Complete(t, Passthrough(m)) /\ refs' = [refs EXCEPT ![m] = 1]
      <3>1. /\ value'[c] = Passthrough(m) /\ \A d \in Cells \ {c} : value'[d] = value[d]
            /\ held'[t] = Nothing /\ \A u \in Tasks \ {t} : held'[u] = held[u]
        BY <2>3, <2>5 DEF Complete, Hold, Types
      <3>2. refs' = [n \in Names |-> refs'[n]]
        BY <2>5 DEF Counted
      <3>3. ASSUME NEW n \in Names
            PROVE  refs'[n] = refs[n] + Is(held'[t], Passthrough(n)) - Is(held[t], Passthrough(n))
                              + Is(value'[c], Passthrough(n)) - Is(value[c], Passthrough(n))
        <4>1. Is(held'[t], Passthrough(n)) = 0 /\ Is(held[t], Passthrough(n)) = 0
          BY <2>1, <3>1, Distinct
        <4>2. Is(value[c], Passthrough(n)) = 0
          BY <2>3, Distinct
        <4>3. Is(value'[c], Passthrough(n)) = IF m = n THEN 1 ELSE 0
          BY <3>1, Distinct
        <4>4. refs[n] \in Nat /\ refs'[n] = IF m = n THEN 1 ELSE refs[n]
          BY <2>2, <2>5 DEF Counted
        <4> HIDE DEF c, m
        <4> QED
          BY <2>2, <4>1, <4>2, <4>3, <4>4
      <3> QED
        BY <2>3, <3>1, <3>2, <3>3, CountedStep
    <2> QED
      BY <1>7, <2>4, <2>5 DEF Delivered
  <1>8. ASSUME NEW t \in Tasks, Finish(t)
        PROVE  Counted'
    <2>1. held[t] \in {Nothing} \cup Passed /\ value' = value
      BY <1>8 DEF Finish, Types, Contents, Writing, Responding, Unchanged
    <2>2. CASE held[t] = Nothing
      BY <1>8, <2>1, <2>2, Kinds, SameCount DEF Finish, Release
    <2>3. CASE held[t] \in Passed
      <3>1. PICK m \in Names : held[t] = Passthrough(m) /\ held[t].name = m
        BY <2>3, OutcomeCases
      <3>2. refs' = [refs EXCEPT ![m] = @ - 1] /\ held' = [held EXCEPT ![t] = Nothing]
        BY <1>8, <3>1, Kinds DEF Finish, Release, DropReference, Hold
      <3>3. /\ refs' = [n \in Names |-> refs'[n]]
            /\ held'[t] = Nothing /\ \A u \in Tasks \ {t} : held'[u] = held[u]
        BY <3>2 DEF Counted, Types
      <3>4. ASSUME NEW n \in Names
            PROVE  refs'[n] = refs[n] + Is(held'[t], Passthrough(n)) - Is(held[t], Passthrough(n))
        <4>1. Is(held[t], Passthrough(n)) = IF m = n THEN 1 ELSE 0
          BY <3>1, Distinct
        <4>2. Is(held'[t], Passthrough(n)) = 0
          BY <3>3, Distinct
        <4>3. refs[n] \in Nat /\ refs'[n] = IF m = n THEN refs[n] - 1 ELSE refs[n]
          BY <3>2 DEF Counted
        <4> QED
          BY <4>1, <4>2, <4>3
      <3> QED
        BY <2>1, <3>3, <3>4, CountedHeld
    <2> QED
      BY <2>1, <2>2, <2>3
  <1>9. ASSUME NEW t \in Tasks, Cancel(t)
        PROVE  Counted'
    <2>1. pc[t] \in Awaiting /\ held' = [held EXCEPT ![t] = Nothing]
      BY <1>9 DEF Cancel, Hold
    <2>2. held[t] \in {Nothing} \cup Written
      BY <2>1, Places DEF Types
    <2>3. /\ \A u \in Tasks \ {t} : held'[u] = held[u]
          /\ held'[t] \notin Passed /\ held[t] \notin Passed
      BY <2>1, <2>2, Distinct DEF Types
    <2>4. CASE cell[t] = 0
      BY <1>9, <2>3, <2>4, SameCount DEF Cancel
    <2>5. CASE cell[t] # 0
      BY <1>9, <2>3, <2>5, LetGoCounted DEF Cancel, Types
    <2> QED
      BY <2>4, <2>5
  <1> QED
    BY <1>1, <1>2, <1>3, <1>4, <1>5, <1>6, <1>7, <1>8, <1>9
       DEF ServeNext, Aside, TaskStep, Flight, Download, Response

-----------------------------------------------------------------------------
(* Every partial file belongs to somebody                                   *)

Owned == PartsOwned /\ TempReclaimed

\* What a step of a request does to both.
OwnedStill == Owned' /\ (Backed => Backed')

\* A step that makes neither a part nor the first reference to one: what it removes
\* nobody owns any more, and what it lets go of is removed or remembered.
LEMMA OwnedStep ==
    ASSUME Types, Counted, Owned, NEW t \in Tasks,
           \A u \in Tasks \ {t} : held'[u] = held[u],
           held'[t] = held[t] \/ held'[t] \notin Written,
           parts' \subseteq parts, left \subseteq left',
           refs' \in [Names -> Nat],
           \A n \in Names : refs'[n] > 0 => refs[n] > 0,
           \A n \in parts \ parts' :
              refs'[n] = 0 /\ \A u \in Tasks : held'[u] # Part(n),
           \A n \in parts' : refs[n] > 0 => refs'[n] > 0,
           \A n \in parts' : held[t] = Part(n) => held'[t] = Part(n) \/ n \in left'
    PROVE  OwnedStill
PROOF
  <1>1. parts \subseteq Names /\ \A n \in Names : refs[n] \in Nat /\ refs'[n] \in Nat
    BY DEF Types, Counted
  <1>2. \A n \in Names, u \in Tasks : held'[u] = Part(n) => held[u] = Part(n)
    BY Distinct
  <1>3. PartsOwned'
    <2> SUFFICES ASSUME NEW u \in Tasks, NEW n \in Names, held'[u] = Part(n)
                 PROVE  refs'[n] = 0 /\ \A v \in Tasks : held'[v] = Part(n) => v = u
      BY DEF PartsOwned
    <2>1. held[u] = Part(n)
      BY <1>2
    <2>2. refs[n] = 0 /\ \A v \in Tasks : held[v] = Part(n) => v = u
      BY <2>1 DEF Owned, PartsOwned
    <2> QED
      BY <1>1, <1>2, <2>2
  <1>4. Backed => Backed'
    <2> SUFFICES ASSUME Backed, NEW n \in Names,
                        refs'[n] > 0 \/ \E u \in Tasks : held'[u] = Part(n)
                 PROVE  n \in parts'
      BY DEF Backed
    <2>1. n \in parts
      BY <1>2 DEF Backed
    <2> QED
      BY <1>1, <2>1
  <1>5. TempReclaimed'
    <2> SUFFICES ASSUME NEW n \in parts'
                 PROVE  refs'[n] > 0 \/ n \in left' \/ \E u \in Tasks : held'[u] = Part(n)
      BY DEF TempReclaimed
    <2>1. refs[n] > 0 \/ n \in left \/ \E u \in Tasks : held[u] = Part(n)
      BY DEF Owned, TempReclaimed
    <2> QED
      BY <2>1
  <1> QED
    BY <1>3, <1>4, <1>5 DEF Owned, OwnedStill

\* A reference is dropped: its file is removed with the last one only.
LEMMA DroppedOwned ==
    ASSUME Types, Counted, Owned, NEW t \in Tasks, NEW n \in Names, DropReference(n), refs[n] > 0,
           \A u \in Tasks \ {t} : held'[u] = held[u],
           held'[t] = held[t] \/ held'[t] \notin Written,
           left \subseteq left',
           \A m \in parts : held[t] = Part(m) => held'[t] = Part(m) \/ m \in left'
    PROVE  OwnedStill
PROOF
  <1>1. /\ refs' = [refs EXCEPT ![n] = @ - 1]
        /\ parts' = IF refs[n] = 1 THEN parts \ {n} ELSE parts
    BY DEF DropReference, Last
  <1>2. refs[n] \in Nat /\ refs' \in [Names -> Nat]
        /\ \A m \in Names : refs'[m] = IF m = n THEN refs[n] - 1 ELSE refs[m]
    BY <1>1 DEF Counted
  <1>3. \A m \in Names : refs'[m] > 0 => refs[m] > 0
    BY <1>2
  <1>4. \A u \in Tasks : held'[u] # Part(n)
    <2> SUFFICES ASSUME NEW u \in Tasks, held'[u] = Part(n) PROVE FALSE
      OBVIOUS
    <2>1. held[u] = Part(n)
      BY Distinct
    <2> QED
      BY <2>1 DEF Owned, PartsOwned
  <1>5. \A m \in parts \ parts' : refs'[m] = 0 /\ \A u \in Tasks : held'[u] # Part(m)
    BY <1>1, <1>2, <1>4
  <1>6. \A m \in parts' : refs[m] > 0 => refs'[m] > 0
    BY <1>1, <1>2 DEF Types
  <1>7. parts' \subseteq parts
    BY <1>1
  <1> QED
    BY <1>2, <1>3, <1>5, <1>6, <1>7, OwnedStep

\* Nothing that is owned changes but what a task holds.
LEMMA SameOwned ==
    ASSUME Types, Counted, Owned, NEW t \in Tasks,
           \A u \in Tasks \ {t} : held'[u] = held[u],
           held'[t] = held[t] \/ held'[t] \notin Written,
           UNCHANGED <<parts, refs>>, left \subseteq left',
           \A m \in parts : held[t] = Part(m) => held'[t] = Part(m) \/ m \in left'
    PROVE  OwnedStill
PROOF
  <1>1. refs' \in [Names -> Nat]
    BY DEF Counted
  <1> QED
    BY <1>1, OwnedStep

LEMMA LetGoOwned ==
    ASSUME Types, Counted, Owned, NEW t \in Tasks, LetGo(t), cell[t] \in Cells,
           \A u \in Tasks \ {t} : held'[u] = held[u],
           held'[t] = held[t] \/ held'[t] \notin Written,
           left \subseteq left',
           \A m \in parts : held[t] = Part(m) => held'[t] = Part(m) \/ m \in left'
    PROVE  OwnedStill
PROOF
  <1>1. CASE UNCHANGED <<parts, refs>>
    BY <1>1, SameOwned
  <1>2. CASE value[cell[t]].kind = "passthrough" /\ DropReference(value[cell[t]].name)
    <2>1. value[cell[t]] \in Passed
      BY <1>2, OutcomeCases DEF Types
    <2>2. PICK n \in Names : value[cell[t]] = Passthrough(n) /\ value[cell[t]].name = n
      BY <2>1, OutcomeCases
    <2>3. refs[n] > 0
      BY <2>2, RefsKnown
    <2> QED
      BY <1>2, <2>2, <2>3, DroppedOwned
  <1> QED
    BY <1>1, <1>2 DEF LetGo

\* The part of a download that fails, or that is installed, is removed or renamed.
LEMMA PartGone ==
    ASSUME Types, Counted, Owned, NEW t \in Tasks, pc[t] \in Writing,
           parts' = parts \ {held[t].name}, held' = [held EXCEPT ![t] = Nothing],
           UNCHANGED <<refs, left>>
    PROVE  OwnedStill
PROOF
  <1>1. held[t] \in Written
    BY DEF Types, Contents, Writing
  <1>2. PICK n \in Names : held[t] = Part(n) /\ held[t].name = n
    BY <1>1, OutcomeCases
  <1>3. refs[n] = 0 /\ \A u \in Tasks : held[u] = Part(n) => u = t
    BY <1>2 DEF Owned, PartsOwned
  <1>4. held'[t] = Nothing /\ \A u \in Tasks \ {t} : held'[u] = held[u]
    BY DEF Types
  <1>5. \A u \in Tasks : held'[u] # Part(n)
    BY <1>2, <1>3, <1>4, Distinct
  <1>6. \A m \in parts' : held[t] # Part(m)
    BY <1>2, Distinct
  <1>7. held'[t] \notin Written /\ refs' \in [Names -> Nat]
    BY <1>4, Distinct DEF Counted
  <1> QED
    BY <1>2, <1>3, <1>4, <1>5, <1>6, <1>7, OwnedStep

LEMMA NextOwned ==
    ASSUME Types, Counted, OneInitialises, Owned, [ServeNext]_requestVars
    PROVE  OwnedStill
PROOF
  <1>0. Nothing \notin Written
    BY Distinct
  <1>1. CASE Aside
    BY <1>1, AsideLeaves DEF OwnedStill, Owned, PartsOwned, Backed, TempReclaimed
  <1>2. ASSUME NEW t \in Tasks, Lookup(t) \/ Open(t) \/ Unmark(t) \/ Respond(t)
        PROVE  OwnedStill
    <2>1. UNCHANGED <<refs, held, parts, left>>
      BY <1>2 DEF Lookup, Begin, Get, Stat, Mark, Open, Unmark, Respond, Unchanged
    <2> QED
      BY <2>1, SameOwned
  <1>3. ASSUME NEW t \in Tasks, Enter(t) \/ Initialise(t) \/ Remove(t) \/ Upsert(t)
        PROVE  OwnedStill
    <2>1. UNCHANGED <<refs, held, parts, left>>
      BY <1>3 DEF Enter, Initialise, Remove, Upsert, Unchanged
    <2> QED
      BY <2>1, SameOwned
  <1>4. ASSUME NEW t \in Tasks, Take(t)
        PROVE  OwnedStill
    <2> DEFINE w == value[cell[t]]
    <2>1. /\ pc[t] \in {"join", "take"} /\ w # Nothing /\ UNCHANGED <<value, parts, left>>
          /\ refs' = Cloned(w) /\ held' = [held EXCEPT ![t] = w]
      BY <1>4 DEF Take, Hold, Unchanged
    <2>2. cell[t] \in Cells /\ held[t] = Nothing
      BY <2>1 DEF Types, InFlight, Contents, Writing, Responding
    <2>3. w \in Outcomes /\ held'[t] = w /\ \A u \in Tasks \ {t} : held'[u] = held[u]
      BY <2>1, <2>2 DEF Types
    <2>4. w \notin Written /\ \A m \in parts : held[t] # Part(m)
      BY <2>2, <2>3, OutcomeCases, Distinct DEF Types
    <2>5. w \in Passed => \E m \in Names : w = Passthrough(m) /\ w.name = m /\ refs[m] > 0
      BY <2>2, OutcomeCases, RefsKnown
    <2> HIDE DEF w
    <2>6. refs' = refs \/ \E m \in Names : refs[m] > 0 /\ refs' = [refs EXCEPT ![m] = @ + 1]
      BY <2>1, <2>3, <2>5, OutcomeCases DEF Cloned
    <2>7. refs' \in [Names -> Nat] /\ \A n \in Names : refs'[n] > 0 <=> refs[n] > 0
      BY <2>6 DEF Counted
    <2> QED
      BY <2>1, <2>3, <2>4, <2>7, OwnedStep DEF Types
  <1>5. ASSUME NEW t \in Tasks, Leave(t)
        PROVE  OwnedStill
    <2>1. pc[t] = "leave" /\ LetGo(t) /\ left' = left
      BY <1>5 DEF Leave, Unchanged
    <2>2. cell[t] \in Cells /\ held[t] \in Settled
      BY <2>1 DEF Types, InFlight, Contents
    <2>3. held' = held \/ held' = [held EXCEPT ![t] = Nothing]
      BY <1>5 DEF Leave, Hold
    <2>4. /\ \A u \in Tasks \ {t} : held'[u] = held[u]
          /\ held'[t] = held[t] \/ held'[t] \notin Written
      BY <1>0, <2>3 DEF Types
    <2>5. \A m \in parts : held[t] # Part(m)
      BY <2>2, OutcomeCases, Distinct DEF Settled, Types
    <2> QED
      BY <2>1, <2>2, <2>4, <2>5, LetGoOwned
  <1>6. ASSUME NEW t \in Tasks, StatFlight(t) \/ Settle(t)
        PROVE  OwnedStill
    <2>1. /\ UNCHANGED <<refs, parts, left>> /\ pc[t] \in {"stat_flight", "settle"}
          /\ held' = held \/ held' = [held EXCEPT ![t] = Nothing]
      BY <1>6 DEF StatFlight, Settle, Complete, Hold, Unchanged
    <2>2. held[t] = Nothing
      BY <2>1 DEF Types, Contents, Writing, Responding
    <2>3. held' = held
      BY <2>1, <2>2 DEF Types
    <2> QED
      BY <2>1, <2>3, SameOwned
  <1>7. ASSUME NEW t \in Tasks, NEW others \in SUBSET Names, Fetch(t, others)
        PROVE  OwnedStill
    <2>1. pc[t] = "fetch" /\ UNCHANGED <<refs, left>>
      BY <1>7 DEF Fetch, Unchanged
    <2>2. held[t] = Nothing
      BY <2>1 DEF Types, Contents, Writing, Responding
    <2>3. CASE Complete(t, Outcome("failed")) /\ UNCHANGED parts
      <3>1. held' = held
        BY <2>2, <2>3 DEF Complete, Hold, Types
      <3> QED
        BY <2>1, <2>3, <3>1, SameOwned
    <2>4. CASE /\ FreeNames(others) # {}
               /\ parts' = parts \cup {Min(FreeNames(others))}
               /\ Hold(t, Part(Min(FreeNames(others))))
      <3> DEFINE n == Min(FreeNames(others))
      <3>1. n \in FreeNames(others)
        BY <2>4, CellsNames, MinDef DEF FreeNames
      <3>2. n \in Names \ parts /\ refs[n] = 0 /\ \A u \in Tasks : held[u].name # n
        BY <3>1 DEF FreeNames
      <3>3. /\ parts' = parts \cup {n} /\ held'[t] = Part(n)
            /\ \A u \in Tasks \ {t} : held'[u] = held[u]
        BY <2>4 DEF Hold, Types
      <3> HIDE DEF n
      <3>4. \A u \in Tasks : held[u] # Part(n)
        BY <3>2, Kinds
      <3>5. PartsOwned'
        <4> SUFFICES ASSUME NEW u \in Tasks, NEW m \in Names, held'[u] = Part(m)
                     PROVE  /\ refs'[m] = 0
                            /\ \A v \in Tasks : held'[v] = Part(m) => v = u
          BY DEF PartsOwned
        <4>1. CASE m = n
          BY <2>1, <3>2, <3>3, <3>4, <4>1
        <4>2. CASE m # n
          <5>1. u # t /\ \A v \in Tasks : held'[v] = Part(m) => held[v] = Part(m)
            BY <3>3, <4>2, Distinct
          <5>2. held[u] = Part(m)
            BY <5>1
          <5> QED
            BY <2>1, <3>3, <5>1, <5>2 DEF Owned, PartsOwned
        <4> QED
          BY <4>1, <4>2
      <3>6. Backed => Backed'
        <4> SUFFICES ASSUME Backed, NEW m \in Names,
                            refs'[m] > 0 \/ \E u \in Tasks : held'[u] = Part(m)
                     PROVE  m \in parts'
          BY DEF Backed
        <4>1. CASE refs'[m] > 0
          BY <2>1, <3>3, <4>1 DEF Backed
        <4>2. ASSUME NEW u \in Tasks, held'[u] = Part(m)
              PROVE  m \in parts'
          BY <3>3, <4>2, Distinct DEF Backed
        <4> QED
          BY <4>1, <4>2
      <3>7. TempReclaimed'
        <4> SUFFICES ASSUME NEW m \in parts'
                     PROVE  refs'[m] > 0 \/ m \in left' \/ \E u \in Tasks : held'[u] = Part(m)
          BY DEF TempReclaimed
        <4>1. CASE m = n
          BY <3>3, <4>1
        <4>2. CASE m # n
          <5>1. refs[m] > 0 \/ m \in left \/ \E u \in Tasks : held[u] = Part(m)
            BY <3>3, <4>2 DEF Owned, TempReclaimed
          <5>2. held[t] # Part(m)
            BY <2>2, <3>3, <4>2, Kinds
          <5> QED
            BY <2>1, <3>3, <5>1, <5>2
        <4> QED
          BY <4>1, <4>2
      <3> QED
        BY <3>5, <3>6, <3>7 DEF Owned, OwnedStill
    <2> QED
      BY <1>7, <2>3, <2>4 DEF Fetch
  <1>8. ASSUME NEW t \in Tasks, BrokenOff(t)
        PROVE  OwnedStill
    BY <1>8, PartGone DEF BrokenOff, Discarded, Complete, Hold, Unchanged, Writing
  <1>9. ASSUME NEW t \in Tasks, Rename(t)
        PROVE  OwnedStill
    BY <1>9, PartGone DEF Rename, Complete, Hold, Unchanged, Writing
  <1>10. ASSUME NEW t \in Tasks, Delivered(t)
         PROVE  OwnedStill
    <2> DEFINE n == held[t].name
    <2>1. pc[t] = "body" /\ held[t] \in Written /\ UNCHANGED <<parts, left>>
      BY <1>10 DEF Delivered, Types, Contents, Writing, Unchanged
    <2>2. n \in Names /\ held[t] = Part(n)
      BY <2>1, OutcomeCases
    <2> HIDE DEF n
    <2>3. CASE UNCHANGED <<held, refs>>
      BY <2>1, <2>3, SameOwned
    <2>4. CASE Complete(t, Passthrough(n)) /\ refs' = [refs EXCEPT ![n] = 1]
      <3>1. /\ held'[t] = Nothing /\ \A u \in Tasks \ {t} : held'[u] = held[u]
            /\ \A m \in Names : refs'[m] = IF m = n THEN 1 ELSE refs[m]
        BY <2>4 DEF Complete, Hold, Types, Counted
      <3>2. \A u \in Tasks : held[u] = Part(n) => u = t
        BY <2>2 DEF Owned, PartsOwned
      <3>3. PartsOwned'
        <4> SUFFICES ASSUME NEW u \in Tasks, NEW m \in Names, held'[u] = Part(m)
                     PROVE  /\ refs'[m] = 0
                            /\ \A v \in Tasks : held'[v] = Part(m) => v = u
          BY DEF PartsOwned
        <4>1. Nothing # Part(m)
          BY Distinct
        <4>2. held[u] = Part(m) /\ m # n /\ \A v \in Tasks : held'[v] = Part(m) => held[v] = Part(m)
          BY <3>1, <3>2, <4>1
        <4> QED
          BY <2>1, <3>1, <4>2 DEF Owned, PartsOwned
      <3>4. Backed => Backed'
        <4> SUFFICES ASSUME Backed, NEW m \in Names,
                            refs'[m] > 0 \/ \E u \in Tasks : held'[u] = Part(m)
                     PROVE  m \in parts
          BY <2>1 DEF Backed
        <4>1. CASE refs'[m] > 0
          BY <2>2, <3>1, <4>1 DEF Backed
        <4>2. ASSUME NEW u \in Tasks, held'[u] = Part(m)
              PROVE  m \in parts
          BY <3>1, <4>2, Distinct DEF Backed
        <4> QED
          BY <4>1, <4>2
      <3>5. TempReclaimed'
        <4> SUFFICES ASSUME NEW m \in parts
                     PROVE  refs'[m] > 0 \/ m \in left \/ \E u \in Tasks : held'[u] = Part(m)
          BY <2>1 DEF TempReclaimed
        <4>1. m \in Names /\ (refs[m] > 0 \/ m \in left \/ \E u \in Tasks : held[u] = Part(m))
          BY DEF Owned, TempReclaimed, Types
        <4>2. CASE m = n
          BY <3>1, <4>1, <4>2
        <4>3. CASE m # n
          <5>1. held[t] # Part(m)
            BY <2>2, <4>3, Distinct
          <5> QED
            BY <3>1, <4>1, <4>3, <5>1
        <4> QED
          BY <4>2, <4>3
      <3> QED
        BY <3>3, <3>4, <3>5 DEF Owned, OwnedStill
    <2> QED
      BY <1>10, <2>3, <2>4 DEF Delivered, n
  <1>11. ASSUME NEW t \in Tasks, Finish(t)
         PROVE  OwnedStill
    <2>1. held[t] \in {Nothing} \cup Passed /\ left' = left
      BY <1>11 DEF Finish, Types, Contents, Writing, Responding, Unchanged
    <2>2. \A m \in parts : held[t] # Part(m)
      BY <2>1, OutcomeCases, Distinct DEF Types
    <2>3. CASE held[t] = Nothing
      <3>1. UNCHANGED <<refs, parts, held>>
        BY <1>11, <2>3, Kinds DEF Finish, Release
      <3> QED
        BY <2>1, <3>1, SameOwned
    <2>4. CASE held[t] \in Passed
      <3>1. PICK n \in Names : held[t] = Passthrough(n) /\ held[t].name = n
        BY <2>4, OutcomeCases
      <3>2. DropReference(n) /\ held' = [held EXCEPT ![t] = Nothing] /\ refs[n] > 0
        BY <1>11, <3>1, Kinds, RefsKnown DEF Finish, Release, Hold
      <3>3. held'[t] = Nothing /\ \A u \in Tasks \ {t} : held'[u] = held[u]
        BY <3>2 DEF Types
      <3> QED
        BY <1>0, <2>1, <2>2, <3>2, <3>3, DroppedOwned
    <2> QED
      BY <2>1, <2>3, <2>4
  <1>12. ASSUME NEW t \in Tasks, Cancel(t)
         PROVE  OwnedStill
    <2>1. /\ pc[t] \in Awaiting /\ held' = [held EXCEPT ![t] = Nothing]
          /\ left' = (IF held[t].kind = "part" THEN left \cup {held[t].name} ELSE left)
      BY <1>12 DEF Cancel, Hold
    <2>2. held'[t] = Nothing /\ \A u \in Tasks \ {t} : held'[u] = held[u]
      BY <2>1 DEF Types
    <2>3. left \subseteq left' /\ \A m \in parts : held[t] = Part(m) => m \in left'
      BY <2>1, Kinds
    <2>4. CASE cell[t] = 0
      <3>1. UNCHANGED <<refs, parts>>
        BY <1>12, <2>4 DEF Cancel
      <3> QED
        BY <1>0, <2>2, <2>3, <3>1, SameOwned
    <2>5. CASE cell[t] # 0
      BY <1>0, <1>12, <2>2, <2>3, <2>5, LetGoOwned DEF Cancel, Types
    <2> QED
      BY <2>4, <2>5
  <1> QED
    BY <1>1, <1>2, <1>3, <1>4, <1>5, <1>6, <1>7, <1>8, <1>9, <1>10, <1>11, <1>12
       DEF ServeNext, Aside, TaskStep, Flight, Download, Response

-----------------------------------------------------------------------------
(* What is promised is there                                                *)

\* While nothing is removed and no row written for another version, what a step has
\* found or made is still there when a later one relies on it.
Installed == record /\ file = "fits"
Present ==
    /\ \A t \in Tasks :
          /\ pc[t] \notin {"error", "lost"}
          /\ pc[t] \in {"settle", "get_final"} => Installed
          /\ pc[t] \in {"stat_flight", "rename"} => record
          /\ pc[t] \in {"mark", "stat_final"} => file = "fits"
          /\ pc[t] \in {"open", "stream"} /\ held[t] = Nothing => file = "fits"
          /\ held[t] # Outcome("broken")
          /\ held[t] = Outcome("installed") => Installed
    /\ \A c \in Cells :
          /\ value[c] # Outcome("broken")
          /\ value[c] = Outcome("installed") => Installed

LEMMA OutcomesDiffer ==
    /\ Nothing # Outcome("broken") /\ Nothing # Outcome("installed")
    /\ Outcome("failed") # Outcome("broken") /\ Outcome("failed") # Outcome("installed")
    /\ Outcome("installed") # Outcome("broken")
    /\ \A n : /\ Passthrough(n) \notin {Nothing, Outcome("broken"), Outcome("installed")}
              /\ Part(n) \notin {Nothing, Outcome("broken"), Outcome("installed")}
PROOF
  <1>1. ASSUME NEW n
        PROVE  /\ Passthrough(n) \notin {Nothing, Outcome("broken"), Outcome("installed")}
               /\ Part(n) \notin {Nothing, Outcome("broken"), Outcome("installed")}
    <2>1. Passthrough(n).kind = "passthrough" /\ Part(n).kind = "part"
      BY Kinds
    <2> QED
      BY <2>1, Kinds
  <1> QED
    BY <1>1, Kinds

\* Nothing is lost in a step.
Lasting ==
    /\ record => record'
    /\ file = "fits" => file' = "fits"

\* A step of one task: nothing is removed, and where it comes to it finds what it
\* needs.
LEMMA PresentStep ==
    ASSUME Types, Present, NEW t \in Tasks, Lasting,
           \A u \in Tasks \ {t} : pc'[u] = pc[u] /\ held'[u] = held[u],
           pc'[t] \notin {"error", "lost"},
           pc'[t] \in {"settle", "get_final"} => Installed',
           pc'[t] \in {"stat_flight", "rename"} => record',
           pc'[t] \in {"mark", "stat_final"} => file' = "fits",
           pc'[t] \in {"open", "stream"} /\ held'[t] = Nothing => file' = "fits",
           held'[t] # Outcome("broken"), held'[t] = Outcome("installed") => Installed',
           \A c \in Cells :
              \/ value'[c] = value[c]
              \/ value'[c] # Outcome("broken") /\ (value'[c] = Outcome("installed") => Installed')
    PROVE  Present'
PROOF
  <1>1. Installed => Installed'
    BY DEF Lasting, Installed
  <1> QED
    BY <1>1 DEF Present, Lasting

LEMMA CompletePresent ==
    ASSUME Types, Present, NEW t \in Tasks, NEW w, Complete(t, w), w # Outcome("broken"),
           w = Outcome("installed") => Installed', Lasting
    PROVE  Present'
PROOF
  <1>1. /\ value' = [value EXCEPT ![cell[t]] = w]
        /\ held' = [held EXCEPT ![t] = Nothing] /\ pc' = [pc EXCEPT ![t] = "take"]
    BY DEF Complete, Hold, Goto
  <1>2. /\ held'[t] = Nothing /\ pc'[t] = "take"
        /\ \A u \in Tasks \ {t} : pc'[u] = pc[u] /\ held'[u] = held[u]
    BY <1>1 DEF Types
  <1>3. \A c \in Cells :
           \/ value'[c] = value[c]
           \/ value'[c] # Outcome("broken") /\ (value'[c] = Outcome("installed") => Installed')
    BY <1>1 DEF Types
  <1> QED
    BY <1>2, <1>3, OutcomesDiffer, PresentStep

\* What an eviction or a refresh does beside requests, unless it is remembered.
LEMMA AsideLasting ==
    ASSUME Types, Aside, ~interfered', ~Quiet
    PROVE  Lasting
PROOF
  BY DEF Aside, Upkeep, EvictPick, EvictFile, EvictRow, EvictEnd, RefreshRow, RefreshFile,
         RefreshEnd, NewRow, NewFile, Interfere, Files, Lasting, Types, requestVars, serveVars,
         memoryVars, historyVars

LEMMA AsidePresent ==
    ASSUME Types, Present, Aside, ~interfered', ~Quiet
    PROVE  Present'
PROOF
  <1>1. Lasting /\ (Installed => Installed') /\ UNCHANGED <<value, pc, held>>
    BY AsideLasting, AsideLeaves DEF Lasting, Installed
  <1> QED
    BY <1>1 DEF Present, Lasting

LEMMA NextPresent ==
    ASSUME Types, Counted, Backed, Present, [ServeNext]_requestVars, ~interfered',
           ~Quiet \/ ~Aside
    PROVE  Present'
PROOF
  <1>0. Nothing # Outcome("broken") /\ Nothing # Outcome("installed")
    BY OutcomesDiffer
  <1>1. CASE Aside
    BY <1>1, AsidePresent
  <1>2. ASSUME NEW t \in Tasks, Lookup(t)
        PROVE  Present'
    <2>1. UNCHANGED <<record, file, value, held>>
      BY <1>2 DEF Lookup, Begin, Get, Stat, Mark, Unchanged
    <2>2. held[t] # Outcome("broken") /\ (held[t] = Outcome("installed") => Installed)
      BY DEF Present
    <2> DEFINE Arrives(at) == pc' = [pc EXCEPT ![t] = at]
    <2>3. \/ Arrives("get") \/ Arrives("stat") \/ Arrives("enter") \/ Arrives("fetch")
          \/ Arrives("stat_flight") /\ record
          \/ Arrives("stat_final") /\ pc[t] = "get_final"
          \/ Arrives("error") /\ pc[t] = "get_final" /\ ~record
          \/ Arrives("error") /\ pc[t] = "stat_final" /\ file # "fits"
          \/ Arrives("mark") /\ file = "fits"
          \/ Arrives("open") /\ pc[t] = "mark"
      <3>1. CASE Begin(t)
        BY <3>1 DEF Begin, Goto
      <3>2. CASE Get(t)
        BY <3>2 DEF Get, Goto
      <3>3. CASE Stat(t)
        BY <3>3 DEF Stat, Goto
      <3>4. CASE Mark(t)
        BY <3>4 DEF Mark, Goto
      <3> QED
        BY <1>2, <3>1, <3>2, <3>3, <3>4 DEF Lookup
    <2>4. PICK at : /\ Arrives(at) /\ at \notin {"error", "lost", "settle", "get_final", "stream", "rename"}
                    /\ at = "stat_flight" => record
                    /\ at \in {"stat_final", "mark", "open"} => file = "fits"
      BY <2>3 DEF Present, Installed
    <2>5. pc'[t] = at /\ \A u \in Tasks \ {t} : pc'[u] = pc[u]
      BY <2>4 DEF Types
    <2>6. Lasting /\ (Installed <=> Installed')
      BY <2>1 DEF Lasting, Installed
    <2> QED
      BY <2>1, <2>2, <2>4, <2>5, <2>6, PresentStep
  <1>3. ASSUME NEW t \in Tasks, Enter(t) \/ Initialise(t) \/ Remove(t) \/ Upsert(t)
        PROVE  Present'
    <2>1. /\ UNCHANGED <<value, held>>
          /\ \E at \in {"join", "get_flight", "leave", "rename"} :
                pc' = [pc EXCEPT ![t] = at] /\ (at = "rename" => record')
      BY <1>3 DEF Enter, Initialise, Remove, Upsert, NewRow, Unchanged, Goto
    <2>2. Lasting
      <3>1. CASE Enter(t) \/ Initialise(t) \/ Remove(t)
        BY <3>1 DEF Enter, Initialise, Remove, Unchanged, Lasting
      <3>2. CASE Upsert(t)
        <4>1. pc[t] = "upsert" /\ NewRow(t)
          BY <3>2 DEF Upsert
        <4>2. ~Quiet
          BY <4>1 DEF Quiet
        <4> QED
          BY <4>1, <4>2 DEF NewRow, Interfere, Lasting
      <3> QED
        BY <1>3, <3>1, <3>2
    <2>3. Installed => Installed'
      BY <2>2 DEF Lasting, Installed
    <2> QED
      BY <2>1, <2>2, <2>3 DEF Present, Types, Lasting
  <1>4. ASSUME NEW t \in Tasks, Take(t)
        PROVE  Present'
    <2>1. /\ pc[t] \in {"join", "take"} /\ held' = [held EXCEPT ![t] = value[cell[t]]]
          /\ \E at \in {"remove", "leave"} : pc' = [pc EXCEPT ![t] = at]
          /\ UNCHANGED <<record, file, value>>
      BY <1>4 DEF Take, Goto, Hold, Unchanged
    <2>2. cell[t] \in Cells
      BY <2>1 DEF Types, InFlight
    <2>3. /\ value[cell[t]] # Outcome("broken")
          /\ value[cell[t]] = Outcome("installed") => Installed
      BY <2>2 DEF Present
    <2>4. /\ held'[t] = value[cell[t]] /\ pc'[t] \in {"remove", "leave"}
          /\ \A u \in Tasks \ {t} : pc'[u] = pc[u] /\ held'[u] = held[u]
      BY <2>1 DEF Types
    <2>5. Lasting /\ (Installed <=> Installed')
      BY <2>1 DEF Lasting, Installed
    <2> QED
      BY <2>1, <2>3, <2>4, <2>5, PresentStep
  <1>5. ASSUME NEW t \in Tasks, Leave(t)
        PROVE  Present'
    <2>1. /\ pc[t] = "leave" /\ LetGo(t) /\ pc' = [pc EXCEPT ![t] = After(held[t])]
          /\ UNCHANGED <<record, file>> /\ Lasting /\ (Installed <=> Installed')
      BY <1>5 DEF Leave, Goto, Unchanged, Lasting, Installed
    <2>2. held[t] \in Settled /\ held[t] # Outcome("broken")
          /\ (held[t] = Outcome("installed") => Installed)
      BY <2>1 DEF Types, Contents, Present
    <2>3. held' = held \/ held' = [held EXCEPT ![t] = Nothing]
      BY <1>5 DEF Leave, Hold
    <2>4. held[t] \in Passed => held' = held
      BY <1>5, OutcomeCases DEF Leave, Hold
    <2>5. /\ held'[t] # Outcome("broken") /\ (held'[t] = Outcome("installed") => Installed)
          /\ \A u \in Tasks \ {t} : pc'[u] = pc[u] /\ held'[u] = held[u]
          /\ pc'[t] = After(held[t])
      BY <1>0, <2>1, <2>2, <2>3 DEF Types
    <2>6. \/ pc'[t] = "get_final" /\ Installed
          \/ pc'[t] = "idle"
          \/ pc'[t] = "open" /\ held'[t] # Nothing
      <3>1. held[t] = Outcome("installed") \/ held[t] = Outcome("failed") \/ held[t] \in Passed
        BY <2>2, OutcomeCases
      <3> QED
        BY <2>2, <2>4, <2>5, <3>1, AfterCases, OutcomeCases
    <2>7. \A c \in Cells : value'[c] = value[c] \/ value'[c] = Nothing
      BY <2>1 DEF LetGo, Types
    <2> QED
      BY <1>0, <2>1, <2>2, <2>5, <2>6, <2>7, PresentStep
  <1>6. ASSUME NEW t \in Tasks, NEW others \in SUBSET Names, Download(t, others), ~Upsert(t)
        PROVE  Present'
    <2>1. CASE StatFlight(t)
      <3>1. CASE file = "fits"
        <4>1. Complete(t, Outcome("installed")) /\ Lasting /\ Installed'
          BY <2>1, <3>1 DEF StatFlight, Unchanged, Present, Lasting, Installed
        <4> QED
          BY <4>1, CompletePresent, OutcomesDiffer
      <3>2. CASE file # "fits"
        <4>1. pc' = [pc EXCEPT ![t] = "fetch"] /\ UNCHANGED <<record, file, value, held>>
          BY <2>1, <3>2 DEF StatFlight, Goto, Unchanged
        <4> QED
          BY <4>1 DEF Present, Types, Installed
      <3> QED
        BY <3>1, <3>2
    <2>2. CASE Fetch(t, others) \/ BrokenOff(t)
      <3>1. UNCHANGED <<record, file>> /\ Lasting /\ (Installed <=> Installed')
        BY <2>2 DEF Fetch, BrokenOff, Unchanged, Lasting, Installed
      <3>2. CASE Complete(t, Outcome("failed"))
        BY <3>1, <3>2, CompletePresent, OutcomesDiffer
      <3>3. CASE /\ \E n : held' = [held EXCEPT ![t] = Part(n)]
                 /\ pc' = [pc EXCEPT ![t] = "body"] /\ value' = value
        <4>1. PICK n : held' = [held EXCEPT ![t] = Part(n)]
          BY <3>3
        <4>2. /\ held'[t] = Part(n) /\ pc'[t] = "body"
              /\ \A u \in Tasks \ {t} : pc'[u] = pc[u] /\ held'[u] = held[u]
          BY <3>3, <4>1 DEF Types
        <4>3. held'[t] # Outcome("broken") /\ held'[t] # Outcome("installed")
          BY <4>2, OutcomesDiffer
        <4> QED
          BY <3>1, <3>3, <4>2, <4>3, PresentStep
      <3> QED
        BY <2>2, <3>2, <3>3 DEF Fetch, BrokenOff, Goto, Hold
    <2>3. CASE Delivered(t)
      <3>1. UNCHANGED <<record, file>> /\ Lasting
        BY <2>3 DEF Delivered, Unchanged, Lasting
      <3>2. CASE Complete(t, Passthrough(held[t].name))
        BY <3>1, <3>2, CompletePresent, OutcomesDiffer
      <3>3. CASE pc' = [pc EXCEPT ![t] = "upsert"] /\ UNCHANGED <<value, held>>
        BY <3>1, <3>3 DEF Present, Types, Installed
      <3> QED
        BY <2>3, <3>2, <3>3 DEF Delivered, Goto
    <2>4. CASE Rename(t)
      <3>1. pc[t] = "rename" /\ held[t] \in Written
        BY <2>4 DEF Rename, Types, Contents, Writing
      <3>2. record /\ held[t].name \in parts
        BY <3>1, OutcomeCases DEF Present, Backed
      <3>5. NewFile(t) /\ ~Quiet
        BY <2>4, <3>1, <3>2 DEF Rename, Quiet
      <3>3. /\ file' = "fits" /\ held' = [held EXCEPT ![t] = Nothing]
            /\ pc' = [pc EXCEPT ![t] = "settle"] /\ UNCHANGED <<record, value>>
        BY <2>4, <3>2, <3>5 DEF Rename, NewFile, Interfere, Hold, Goto
      <3>4. /\ held'[t] = Nothing /\ pc'[t] = "settle"
            /\ \A u \in Tasks \ {t} : pc'[u] = pc[u] /\ held'[u] = held[u]
        BY <3>3 DEF Types
      <3>6. Lasting /\ Installed'
        BY <3>2, <3>3 DEF Lasting, Installed
      <3> QED
        BY <1>0, <3>2, <3>3, <3>4, <3>6, PresentStep
    <2>5. CASE Settle(t)
      <3>1. Installed' /\ Lasting
        BY <2>5 DEF Settle, Present, Unchanged, Installed, Lasting
      <3> QED
        BY <2>5, <3>1, CompletePresent, OutcomesDiffer DEF Settle
    <2> QED
      BY <1>6, <2>1, <2>2, <2>3, <2>4, <2>5 DEF Download
  <1>7. ASSUME NEW t \in Tasks, Open(t)
        PROVE  Present'
    <2>1. /\ pc[t] = "open" /\ UNCHANGED <<record, file, value, held>>
          /\ pc' = [pc EXCEPT ![t] =
                IF IF held[t].kind = "passthrough" THEN held[t].name \in parts ELSE file # "absent"
                THEN "stream" ELSE "lost"]
      BY <1>7 DEF Open, Goto, Unchanged
    <2>2. held[t] \in {Nothing} \cup Passed
      BY <2>1 DEF Types, Contents, Writing, Responding
    <2>3. IF held[t].kind = "passthrough" THEN held[t].name \in parts ELSE file # "absent"
      <3>1. CASE held[t] = Nothing
        BY <2>1, <3>1, Kinds DEF Present
      <3>2. CASE held[t] \in Passed
        <4>1. PICK n \in Names : held[t] = Passthrough(n) /\ held[t].name = n
          BY <3>2, OutcomeCases
        <4>2. n \in parts
          BY <4>1, RefsKnown DEF Backed
        <4> QED
          BY <4>1, <4>2, Kinds
      <3> QED
        BY <2>2, <3>1, <3>2
    <2>4. pc' = [pc EXCEPT ![t] = "stream"]
      BY <2>1, <2>3
    <2> QED
      BY <2>1, <2>4 DEF Present, Types, Installed
  <1>8. ASSUME NEW t \in Tasks, Finish(t) \/ Unmark(t) \/ Respond(t)
        PROVE  Present'
    <2>1. /\ UNCHANGED <<record, file, value>>
          /\ held' = held \/ held' = [held EXCEPT ![t] = Nothing]
          /\ \E at \in {"idle", "unmark"} : pc' = [pc EXCEPT ![t] = at]
      BY <1>8 DEF Finish, Release, DropGuard, AtZero, Unmark, Respond, Goto, Hold, Unchanged
    <2> QED
      BY <1>0, <2>1 DEF Present, Types, Installed
  <1>9. ASSUME NEW t \in Tasks, Cancel(t)
        PROVE  Present'
    <2>1. /\ UNCHANGED <<record, file>> /\ held' = [held EXCEPT ![t] = Nothing]
          /\ pc' = [pc EXCEPT ![t] = "idle"]
      BY <1>9 DEF Cancel, Goto, Hold
    <2>2. \A c \in Cells : value'[c] = value[c] \/ value'[c] = Nothing
      BY <1>9 DEF Cancel, LetGo, Types
    <2> QED
      BY <1>0, <2>1, <2>2 DEF Present, Types, Installed
  <1> QED
    BY <1>1, <1>2, <1>3, <1>4, <1>5, <1>6, <1>7, <1>8, <1>9
       DEF ServeNext, Aside, TaskStep, Flight, Download, Response

-----------------------------------------------------------------------------
(* Whoever has interfered, a new beginning finds nothing amiss              *)

\* An outcome is kept for those who hold its flight: LetGo drops it with the last.
ValuesHeld == \A c \in Cells : value[c] # Nothing => \E t \in Tasks : cell[t] = c

LEMMA LetGoHeld ==
    ASSUME Types, ValuesHeld, CompletedLeaves', registry' = registry, NEW t \in Tasks, LetGo(t),
           cell[t] \in Cells
    PROVE  ValuesHeld'
PROOF
  <1> SUFFICES ASSUME NEW d \in Cells, value'[d] # Nothing
               PROVE  \E u \in Tasks : cell'[u] = d
    BY DEF ValuesHeld
  <1>1. /\ cell' = [cell EXCEPT ![t] = 0]
        /\ \/ value' = value /\ (cell[t] = registry \/ \E u \in Tasks \ {t} : cell[u] = cell[t])
           \/ value' = [value EXCEPT ![cell[t]] = Nothing]
    BY DEF LetGo
  <1>2. value[d] # Nothing
    BY <1>1 DEF Types
  <1>3. PICK u \in Tasks : cell[u] = d
    BY <1>2 DEF ValuesHeld
  <1>4. CASE u # t
    BY <1>1, <1>3, <1>4 DEF Types
  <1>5. CASE u = t
    <2>1. d = registry \/ \E v \in Tasks \ {t} : cell[v] = d
      BY <1>1, <1>3, <1>5 DEF Types
    <2>2. CASE d = registry
      <3>1. registry' # 0
        BY <2>2, CellsNames
      <3> QED
        BY <2>2, <3>1 DEF CompletedLeaves
    <2>3. CASE \E v \in Tasks \ {t} : cell[v] = d
      BY <1>1, <2>3 DEF Types
    <2> QED
      BY <2>1, <2>2, <2>3
  <1> QED
    BY <1>4, <1>5

LEMMA NextValuesHeld ==
    ASSUME Types, ValuesHeld, CompletedLeaves', [ServeNext]_requestVars
    PROVE  ValuesHeld'
PROOF
  <1>1. CASE Aside
    BY <1>1, AsideLeaves DEF ValuesHeld
  <1>2. ASSUME NEW t \in Tasks,
               \/ Lookup(t) \/ Response(t) \/ Initialise(t) \/ Take(t) \/ Remove(t)
               \/ \E others \in SUBSET Names : Download(t, others)
        PROVE  ValuesHeld'
    <2>1. cell' = cell
      BY <1>2 DEF Lookup, Begin, Get, Stat, Mark, Response, Open, Finish, Unmark, Respond,
                  Initialise, Take, Remove, Download, StatFlight, Fetch, BrokenOff, Delivered,
                  Upsert, Rename, Settle, Unchanged
    <2>2. value' = value \/ \E w : value' = [value EXCEPT ![cell[t]] = w]
      BY <1>2 DEF Lookup, Begin, Get, Stat, Mark, Response, Open, Finish, Unmark, Respond,
                  Initialise, Take, Remove, Download, StatFlight, Fetch, BrokenOff, Delivered,
                  Upsert, Rename, Settle, Unchanged, Complete
    <2>3. \A c \in Cells : value'[c] = value[c] \/ cell[t] = c
      BY <2>2 DEF Types
    <2> QED
      BY <2>1, <2>3 DEF ValuesHeld
  <1>3. ASSUME NEW t \in Tasks, Enter(t)
        PROVE  ValuesHeld'
    <2>1. pc[t] = "enter" /\ value' = value /\ \E c : cell' = [cell EXCEPT ![t] = c]
      BY <1>3 DEF Enter, Unchanged
    <2>2. cell[t] \notin Cells
      BY <2>1, CellsNames DEF Types, InFlight, Initialising
    <2>3. \A u \in Tasks : cell[u] \in Cells => cell'[u] = cell[u]
      BY <2>1, <2>2 DEF Types
    <2> QED
      BY <2>1, <2>3 DEF ValuesHeld
  <1>4. ASSUME NEW t \in Tasks, Leave(t) \/ Cancel(t)
        PROVE  ValuesHeld'
    <2>1. CASE cell[t] = 0
      <3>1. UNCHANGED <<cell, value>>
        BY <1>4, <2>1 DEF Leave, Cancel, Types, InFlight
      <3> QED
        BY <3>1 DEF ValuesHeld
    <2>2. CASE cell[t] # 0
      BY <1>4, <2>2, LetGoHeld DEF Leave, Cancel, Unchanged, Types
    <2> QED
      BY <2>1, <2>2
  <1> QED
    BY <1>1, <1>2, <1>3, <1>4 DEF ServeNext, Aside, TaskStep, Flight

\* Without a request there is neither a reference nor an outcome.
Resting == Types /\ Counted /\ ValuesHeld /\ \A t \in Tasks : pc[t] = "idle"

LEMMA RestingSound == Resting => Backed /\ Present
PROOF
  <1> SUFFICES ASSUME Resting PROVE Backed /\ Present
    OBVIOUS
  <1>1. \A t \in Tasks : cell[t] = 0 /\ held[t] = Nothing
    BY DEF Resting, Types, Contents, InFlight, Initialising, Writing, Responding
  <1>2. \A c \in Cells : value[c] = Nothing
    BY <1>1, CellsNames DEF Resting, ValuesHeld
  <1>3. ASSUME NEW n \in Names
        PROVE  refs[n] = 0
    <2>1. /\ {t \in Tasks : held[t] = Passthrough(n)} = {}
          /\ {c \in Cells : value[c] = Passthrough(n)} = {}
      BY <1>1, <1>2, OutcomesDiffer
    <2> QED
      BY <2>1, FS_EmptySet DEF Resting, Counted, TempCounted
  <1>4. Backed
    BY <1>1, <1>3, Distinct DEF Backed
  <1>5. Present
    BY <1>1, <1>2, OutcomesDiffer DEF Resting, Present, Installed
  <1> QED
    BY <1>4, <1>5

LEMMA RestingAgain == Resting' => Backed' /\ Present'
PROOF
  BY RestingSound, PTL

\* What has happened is forgotten when a request begins on its own.
LEMMA Forgotten ==
    ASSUME Types, [ServeNext]_requestVars, interfered, ~interfered'
    PROVE  Quiet
PROOF
  <1>1. CASE Aside
    BY <1>1 DEF Aside, Upkeep, EvictPick, EvictFile, EvictRow, EvictEnd, RefreshRow, RefreshFile,
                RefreshEnd, NewRow, NewFile, Interfere, requestVars, serveVars, historyVars
  <1>2. ASSUME NEW t \in Tasks, Upsert(t) \/ Rename(t)
        PROVE  FALSE
    BY <1>2 DEF Upsert, Rename, NewRow, NewFile, Interfere, Complete, Hold, Goto
  <1>3. ASSUME NEW t \in Tasks, ~Aside, ~Upsert(t), ~Rename(t),
               Cancel(t) \/ \E others \in SUBSET Names : TaskStep(t, others)
        PROVE  Begin(t)
    BY <1>3 DEF TaskStep, Lookup, Get, Stat, Mark, Response, Open, Finish, Unmark, Respond,
                Flight, Enter, Initialise, Take, Remove, Leave, Download, StatFlight, Fetch,
                BrokenOff, Delivered, Settle, Cancel, Unchanged
  <1>4. ASSUME NEW t \in Tasks, Begin(t)
        PROVE  Quiet
    BY <1>4 DEF Begin, Quiet
  <1> QED
    BY <1>1, <1>2, <1>3, <1>4 DEF ServeNext, Aside

\* How far eviction and refresh are.
UpkeepTypes ==
    /\ outdated \subseteq Tasks \cup {"refresh"}
    /\ evicting \in {"never", "none", "unlink", "delete"}
    /\ refreshing \in {"never", "none", "fetch", "rename"}

LEMMA NextUpkeepTypes ==
    ASSUME UpkeepTypes, [ServeNext]_requestVars
    PROVE  UpkeepTypes'
PROOF
  <1>1. CASE Aside
    BY <1>1 DEF Aside, Upkeep, EvictPick, EvictFile, EvictRow, EvictEnd, RefreshRow, RefreshFile,
                RefreshEnd, NewRow, NewFile, Renaming, UpkeepTypes, requestVars, serveVars,
                memoryVars, upkeepVars
  <1>2. ASSUME NEW t \in Tasks, Upsert(t) \/ Rename(t) \/ Mark(t) \/ Cancel(t)
        PROVE  UpkeepTypes'
    BY <1>2 DEF Upsert, Rename, Mark, Cancel, NewRow, NewFile, Renaming, UpkeepTypes
  <1>3. ASSUME NEW t \in Tasks, NEW others \in SUBSET Names, TaskStep(t, others),
               ~Upsert(t), ~Rename(t), ~Mark(t)
        PROVE  UNCHANGED upkeepVars
    BY <1>3 DEF TaskStep, Lookup, Begin, Get, Stat, Response, Open, Finish, Unmark, Respond,
                Flight, Enter, Initialise, Take, Remove, Leave, Download, StatFlight, Fetch,
                BrokenOff, Delivered, Settle, Unchanged
  <1> QED
    BY <1>1, <1>2, <1>3 DEF ServeNext, Aside, UpkeepTypes, upkeepVars

-----------------------------------------------------------------------------
(* The theorems                                                             *)

\* What holds whatever is removed, and what holds until something is.
Kept ==
    /\ Types /\ UpkeepTypes /\ CompletedLeaves /\ BusyCounted /\ OneInitialises
    /\ Counted /\ Owned /\ ValuesHeld
ServeIInv == Kept /\ (interfered \/ (Backed /\ Present))

\* A server that has no request.
Fresh ==
    /\ record \in BOOLEAN /\ file \in Files /\ UpkeepTypes
    /\ parts \in SUBSET Names /\ left = parts
    /\ registry = 0
    /\ value = [c \in Cells |-> Nothing]
    /\ active = NoEntry
    /\ refs = [n \in Names |-> 0]
    /\ pc = [t \in Tasks |-> "idle"]
    /\ cell = [t \in Tasks |-> 0]
    /\ held = [t \in Tasks |-> Nothing]
    /\ interfered = FALSE

LEMMA FreshIInv == Fresh => ServeIInv
PROOF
  <1> SUFFICES ASSUME Fresh PROVE ServeIInv
    OBVIOUS
  <1>1. Types
    BY OutcomeCases DEF Fresh, Types, PCs, Contents, Writing, Responding, InFlight, Initialising
  <1>2. UpkeepTypes /\ CompletedLeaves /\ BusyCounted /\ OneInitialises /\ ValuesHeld
    BY DEF Fresh, CompletedLeaves, BusyCounted, NoEntry, OneInitialises, Initialising, ValuesHeld
  <1>3. Counted
    <2> SUFFICES ASSUME NEW n \in Names
                 PROVE  refs[n] = Cardinality({t \in Tasks : held[t] = Passthrough(n)})
                                  + Cardinality({c \in Cells : value[c] = Passthrough(n)})
      BY DEF Fresh, Counted, TempCounted
    <2>1. /\ {t \in Tasks : held[t] = Passthrough(n)} = {}
          /\ {c \in Cells : value[c] = Passthrough(n)} = {}
      BY OutcomesDiffer DEF Fresh
    <2>2. refs[n] = 0
      BY DEF Fresh
    <2> QED
      BY <2>1, <2>2, FS_EmptySet
  <1>4. Owned
    <2>1. \A n : Nothing # Part(n)
      BY OutcomesDiffer
    <2> QED
      BY <2>1 DEF Fresh, Owned, PartsOwned, TempReclaimed
  <1>5. Backed /\ Present
    BY <1>1, <1>2, <1>3, RestingSound DEF Fresh, Resting
  <1> QED
    BY <1>1, <1>2, <1>3, <1>4, <1>5 DEF ServeIInv, Kept

LEMMA ServeInitIInv == ServeInit => ServeIInv
PROOF
  BY FreshIInv DEF ServeInit, Fresh, UpkeepTypes

LEMMA ServeNextIInv == ServeIInv /\ [ServeNext]_requestVars => ServeIInv'
PROOF
  <1> SUFFICES ASSUME ServeIInv, [ServeNext]_requestVars PROVE ServeIInv'
    OBVIOUS
  <1>1. Kept /\ (interfered \/ (Backed /\ Present))
    BY DEF ServeIInv
  <1>2. /\ Types' /\ UpkeepTypes' /\ CompletedLeaves' /\ BusyCounted' /\ OneInitialises' /\ Counted'
        /\ OwnedStill
    BY <1>1, NextTypes, NextUpkeepTypes, NextCompletedLeaves, NextBusyCounted, NextOneInitialises,
       NextCounted, NextOwned DEF Kept, Owned
  <1>3. ValuesHeld'
    BY <1>1, <1>2, NextValuesHeld DEF Kept
  <1>4. CASE ~interfered'
    <2>1. Backed /\ Present
      BY <1>1, <1>4, Forgotten, RestingSound DEF Kept, Resting, Quiet
    <2>2. Backed'
      BY <1>2, <2>1 DEF OwnedStill
    <2>3. ASSUME ~Quiet \/ ~Aside
          PROVE  Present'
      BY <1>1, <1>4, <2>1, <2>3, NextPresent DEF Kept
    <2>4. ASSUME Quiet, Aside
          PROVE  Present'
      <3>1. pc' = pc
        BY <1>1, <2>4, AsideLeaves DEF Kept
      <3> QED
        BY <1>2, <1>3, <2>4, <3>1, RestingAgain DEF Resting, Quiet
    <2> QED
      BY <1>2, <1>3, <2>2, <2>3, <2>4 DEF Kept, OwnedStill, ServeIInv
  <1> QED
    BY <1>2, <1>3, <1>4 DEF Kept, OwnedStill, ServeIInv

LEMMA ServeInvariant == ServeSpec => []ServeIInv
PROOF
  BY ServeInitIInv, ServeNextIInv, PTL DEF ServeSpec

\* What the invariant says of the properties, for those who compose Serving.
LEMMA ServePromises ==
    ServeIInv => /\ ServeTypeOK /\ CompletedLeaves /\ BusyReleased /\ TempCounted /\ TempReclaimed
                 /\ UndisturbedSucceed
PROOF
  <1> SUFFICES ASSUME ServeIInv
               PROVE  /\ ServeTypeOK /\ CompletedLeaves /\ BusyReleased /\ TempCounted
                      /\ TempReclaimed /\ UndisturbedSucceed
    OBVIOUS
  <1>1. Types /\ UpkeepTypes /\ Counted /\ Owned /\ CompletedLeaves /\ BusyCounted
    BY DEF ServeIInv, Kept
  <1>2. ServeTypeOK
    <2>1. held \in [Tasks -> Outcomes \cup {Part(n) : n \in Names}]
      BY <1>1 DEF Types, Written
    <2>2. ASSUME NEW t \in Tasks
          PROVE  held[t].kind = "part" <=> pc[t] \in {"body", "upsert", "rename"}
      <3>1. held[t] \in Contents(pc[t])
        BY <1>1 DEF Types
      <3> QED
        BY <3>1, OutcomeCases, Kinds DEF Contents, Settled, Writing
    <2> QED
      BY <1>1, <2>1, <2>2 DEF Types, UpkeepTypes, Counted, ServeTypeOK
  <1>3. UndisturbedSucceed
    BY DEF ServeIInv, Present, UndisturbedSucceed
  <1> QED
    BY <1>1, <1>2, <1>3, CountedReleased DEF Counted, Owned

\* The types, and what a task holds where.
THEOREM ServingTyped == ServeSpec => []ServeTypeOK
PROOF
  BY ServePromises, ServeInvariant, PTL

\* A completed flight never stays registered, whoever is dropped or overtaken.
THEOREM FlightsLeave == ServeSpec => []CompletedLeaves
PROOF
  BY ServePromises, ServeInvariant, PTL

\* The entry of a path is gone when its last response is: the count of the entry is
\* never more than that of the responses, although guards are lost.
THEOREM PathsReleased == ServeSpec => []BusyReleased
PROOF
  BY ServePromises, ServeInvariant, PTL

\* A shared temporary file has as many references as responses and flights hold it.
THEOREM TempsCounted == ServeSpec => []TempCounted
PROOF
  BY ServePromises, ServeInvariant, PTL

\* Every partial file belongs to a download, a holder or a dropped request.
THEOREM TempsReclaimed == ServeSpec => []TempReclaimed
PROOF
  BY ServePromises, ServeInvariant, PTL

\* A server with its own eviction and refresh answers 500 only to a request under
\* which a file was removed or a row written for another version.
THEOREM FailuresCaused == ServeSpec => []UndisturbedSucceed
PROOF
  BY ServePromises, ServeInvariant, PTL
================================================================================
