---------------------------- MODULE UpstreamClient ----------------------------
(***************************************************************************)
(* Asking the upstream repositories for one path: the ordered search with  *)
(* its retries (src/src/upstream.rs), the circuit breaker of every         *)
(* repository (src/src/circuit.rs), and the loop that falls back to other  *)
(* sources and keeps the negative cache (prepare_fetch in                  *)
(* src/src/cache/download.rs).                                             *)
(*                                                                         *)
(* A task is a download or a refresh.  A step is what it does between two  *)
(* awaits.  Time passes in ticks; an age stops counting at its timeout.    *)
(* The permit of RequestScheduler is part of the wait for an answer, and   *)
(* the three checksum files are asked for as one.                          *)
(***************************************************************************)
EXTENDS Naturals, Sequences, SequencesExt

CONSTANTS
    Clients,         \* tasks of client requests: fetch
    Refreshes,       \* background tasks: refresh
    Repositories,
    Order,           \* the candidates of the path, in configuration order
    CacheWrites,     \* the repositories with cache_writes
    Mutable,         \* the cache policy of the path
    Threshold,       \* circuit_breaker.failure_threshold
    Recovery,        \* circuit_breaker.recovery_timeout, in ticks
    NegativeTTL,     \* cache.negative_ttl, in ticks
    MaxAttempts,     \* MAX_ATTEMPTS
    ChecksumPath,    \* the path is a checksum file: its content is not validated
    MaxValidations,  \* MAX_CHECKSUM_VALIDATION_ATTEMPTS
    MaxCancels,      \* bound on the client tasks dropped
    NoEntry, NoRepository

Tasks == Clients \cup Refreshes
Candidates == ToSet(Order)

ASSUME UpstreamAssumption ==
    /\ Clients \cap Refreshes = {} /\ (Refreshes # {} => Mutable)
    /\ Order \in Seq(Repositories)
    /\ CacheWrites \subseteq Repositories
    /\ Mutable \in BOOLEAN /\ ChecksumPath \in BOOLEAN
    /\ Threshold \in Nat \ {0} /\ Recovery \in Nat \ {0} /\ NegativeTTL \in Nat
    /\ MaxAttempts \in Nat \ {0} /\ MaxValidations \in Nat \ {0, 1} /\ MaxCancels \in Nat
    /\ NoEntry \notin Nat /\ NoRepository \notin Repositories

VARIABLES
    circuit,     \* the circuit of each repository
    negative,    \* the age of the path's negative entry for each repository
    down,        \* the repositories that fail to answer or to deliver
    pc,          \* where each task is
    job,         \* the local state of each task
    told,        \* history: what the repositories told each task
    sinceProbe,  \* history: the time since each circuit last admitted a probe
    cancels

vars == <<circuit, negative, down, pc, job, told, sinceProbe, cancels>>

Ticked(age, end) == IF age < end THEN age + 1 ELSE end

-----------------------------------------------------------------------------
(* The circuit breaker: its age is that of the opening or of the probe.     *)

Circuit == [mode : {"closed", "open", "half_open"}, failures : 0 .. Threshold,
            age : 0 .. Recovery]
Closed == [mode |-> "closed", failures |-> 0, age |-> 0]
Opened == [mode |-> "open", failures |-> Threshold, age |-> 0]

\* allow: an open circuit whose time is over admits one probe, and another when
\* the lease of that one is over.  (Mutant: a half-open circuit admits nobody.)
AllowOnce(c) == c.mode = "closed" \/ (c.mode = "open" /\ c.age = Recovery)
Allow(c) == c.mode = "closed" \/ c.age = Recovery

\* (Mutant: a later probe does not renew the lease.)
AdmittedUnleased(c) == IF c.mode = "closed" THEN c ELSE [c EXCEPT !.mode = "half_open"]
Admitted(c) ==
    IF c.mode = "closed" THEN c ELSE [c EXCEPT !.mode = "half_open", !.age = 0]

\* record_success: an open circuit stays as it is.
Success(c) == IF c.mode = "open" THEN c ELSE Closed

\* record_failure.  (Mutant: the failures of a closed circuit go past the threshold.)
FailureStrict(c) ==
    CASE c.mode = "half_open" -> Opened
      [] c.mode = "open" -> c
      [] c.mode = "closed" ->
            IF c.failures + 1 > Threshold THEN Opened
            ELSE [c EXCEPT !.failures = @ + 1]
Failure(c) ==
    CASE c.mode = "half_open" -> Opened
      [] c.mode = "open" -> c
      [] c.mode = "closed" ->
            IF c.failures + 1 >= Threshold THEN Opened
            ELSE [c EXCEPT !.failures = @ + 1]

-----------------------------------------------------------------------------
(***************************************************************************)
(* The local state of a task: the repository its record came from; what    *)
(* prepare_fetch keeps through its loop (excluded, negative, whether an    *)
(* upstream failed); the search in progress (for the main file, for a      *)
(* checksum of it, or for the main file again), with the repositories      *)
(* still to ask, the attempt, its failures and its 404s; and the           *)
(* repository and the round of the download under validation.              *)
(***************************************************************************)
Job == [preferred : Repositories \cup {NoRepository},
        excluded : SUBSET Repositories, negative : SUBSET Repositories,
        expired : SUBSET Repositories, upstreamFailure : BOOLEAN,
        purpose : {"main", "checksum", "again"}, queue : SUBSET Repositories,
        attempt : 0 .. MaxAttempts - 1, gatewayFailure : BOOLEAN,
        notFound : SUBSET Repositories,
        repository : Repositories \cup {NoRepository}, round : 0 .. MaxValidations]

NoJob == [preferred |-> NoRepository, excluded |-> {}, negative |-> {}, expired |-> {},
          upstreamFailure |-> FALSE, purpose |-> "main", queue |-> {}, attempt |-> 0,
          gatewayFailure |-> FALSE, notFound |-> {}, repository |-> NoRepository, round |-> 0]

Results == {"bundle", "not_modified", "not_found", "gateway"}
PCs == {"idle", "expire", "ask", "sent", "remember", "remember_same", "forget", "forget_same",
        "body", "sum_body", "issues"} \cup Results

Goto(t, at) == pc' = [pc EXCEPT ![t] = at]
Set(t, j) == job' = [job EXCEPT ![t] = j]
Report(r, outcome) == circuit' = [circuit EXCEPT ![r] = outcome]

\* History: what t learned of the path itself.
Learn(t, field, r) ==
    told' = IF job[t].purpose = "main" THEN [told EXCEPT ![t][field] = @ \cup {r}] ELSE told

\* A search for one of the three purposes begins.
Asking(j, purpose, queue) ==
    [j EXCEPT !.purpose = purpose, !.queue = queue, !.attempt = 0,
              !.gatewayFailure = FALSE, !.notFound = {}]

\* The repositories of fetch and refresh: the preferred one and the candidates,
\* without the excluded and the negative ones.
Sources(j) ==
    (Candidates \cup ({j.preferred} \ {NoRepository})) \ (j.excluded \cup j.negative)

\* The preferred one comes first, the others in their order.
Position == [r \in Candidates |-> CHOOSE i \in DOMAIN Order : Order[i] = r]
First(j) ==
    IF j.preferred \in j.queue THEN {j.preferred}
    ELSE {r \in j.queue : \A other \in j.queue : Position[r] <= Position[other]}

\* A round of prepare_fetch asks the remaining sources for the path.
Round(j) == [Asking(j, "main", Sources(j)) EXCEPT !.repository = NoRepository, !.round = 0]

\* The search goes on without r.  (Mutant: the failure of one repository ends it.)
NextSourceLast(j, r, failure) ==
    [j EXCEPT !.queue = IF failure THEN {} ELSE @ \ {r}, !.attempt = 0,
              !.gatewayFailure = @ \/ failure]
NextSource(j, r, failure) ==
    [j EXCEPT !.queue = @ \ {r}, !.attempt = 0, !.gatewayFailure = @ \/ failure]

-----------------------------------------------------------------------------
(* prepare_fetch: the negative entries of the path                          *)

Fresh == {r \in Repositories : negative[r] # NoEntry /\ negative[r] # NegativeTTL}
Expired == {r \in Repositories : negative[r] = NegativeTTL}

\* A download or a refresh begins.  That of a mutable path reads the negative
\* entries (fresh_negative_entries).
Begin(t) ==
    LET known == IF Mutable THEN Fresh ELSE {}
        expired == IF Mutable THEN Expired ELSE {}
    IN
    /\ pc[t] = "idle"
    /\ \E p \in IF t \in Clients THEN {NoRepository} ELSE Repositories :
          Set(t, Round([NoJob EXCEPT !.preferred = p, !.negative = known, !.expired = expired]))
    /\ Goto(t, IF expired = {} THEN "ask" ELSE "expire")
    /\ told' = [told EXCEPT ![t] = [absent |-> known, failed |-> {}]]
    /\ UNCHANGED <<circuit, negative, down, sinceProbe, cancels>>

\* The entries that had expired are deleted, in a statement of its own.
Expire(t) ==
    /\ pc[t] = "expire"
    /\ negative' = [r \in Repositories |-> IF r \in job[t].expired THEN NoEntry ELSE negative[r]]
    /\ Set(t, [job[t] EXCEPT !.expired = {}])
    /\ Goto(t, "ask")
    /\ UNCHANGED <<circuit, down, told, sinceProbe, cancels>>

\* What a finished round comes to when nothing was found.  (Mutant: what failed
\* in earlier rounds is forgotten.)
ResultOfRound(j) == IF j.gatewayFailure THEN "gateway" ELSE "not_found"
Result(j) == IF j.gatewayFailure \/ j.upstreamFailure THEN "gateway" ELSE "not_found"

\* The 404s of a round become negative entries.
Remember(t) ==
    LET j == job[t] IN
    /\ pc[t] \in {"remember", "remember_same"}
    /\ negative' = [r \in Repositories |-> IF r \in j.notFound THEN 0 ELSE negative[r]]
    /\ Set(t, [j EXCEPT !.negative = @ \cup j.notFound, !.notFound = {}])
    /\ Goto(t, IF pc[t] = "remember_same" THEN "forget_same"
               ELSE IF j.repository # NoRepository THEN "forget" ELSE Result(j))
    /\ UNCHANGED <<circuit, down, told, sinceProbe, cancels>>

\* Whoever has the path loses its negative entry.
Forget(t) ==
    /\ pc[t] \in {"forget", "forget_same"}
    /\ negative' = [negative EXCEPT ![job[t].repository] = NoEntry]
    /\ Goto(t, IF pc[t] = "forget" THEN "body" ELSE "not_modified")
    /\ UNCHANGED <<circuit, down, job, told, sinceProbe, cancels>>

-----------------------------------------------------------------------------
(* fetch_ordered and fetch_repository                                       *)

\* The next repository is asked if its circuit allows it.
Ask(t, r) ==
    /\ pc[t] = "ask" /\ r \in First(job[t])
    /\ IF Allow(circuit[r])
       THEN /\ Report(r, Admitted(circuit[r]))
            /\ sinceProbe' = IF circuit[r].mode = "closed" THEN sinceProbe
                             ELSE [sinceProbe EXCEPT ![r] = 0]
            /\ Goto(t, "sent")
            /\ UNCHANGED <<job, told>>
       ELSE /\ Set(t, NextSource(job[t], r, TRUE))
            /\ Learn(t, "failed", r)
            /\ UNCHANGED <<circuit, sinceProbe, pc>>
    /\ UNCHANGED <<negative, down, cancels>>

\* No repository is left.  A search for a checksum raises no issue then, and one
\* for the main file again accepts the first download.
Conclude(t) ==
    LET j == job[t] IN
    /\ pc[t] = "ask" /\ j.queue = {}
    /\ Goto(t, IF j.purpose # "main" THEN "bundle"
               ELSE IF Mutable /\ j.notFound # {} THEN "remember"
               ELSE Result(j))
    /\ UNCHANGED <<circuit, negative, down, job, told, sinceProbe, cancels>>

\* 200: the headers are there; the circuit hears of it when the body is.
Found(t, r) ==
    LET j == job[t] IN
    /\ pc[t] = "sent" /\ r \in First(job[t])
    /\ Set(t, [j EXCEPT !.repository = r])
    /\ Goto(t, IF j.purpose = "checksum" THEN "sum_body"
               ELSE IF j.purpose = "again" \/ ~Mutable THEN "body"
               ELSE IF j.notFound # {} THEN "remember"
               ELSE "forget")
    /\ UNCHANGED <<circuit, negative, down, told, sinceProbe, cancels>>

\* 304, whether or not the request was conditional, from any repository: the search
\* for the path ends; a checksum is passed over, and no second download is made.
NotModified(t, r) ==
    LET j == job[t] IN
    /\ pc[t] = "sent" /\ r \in First(j)
    /\ Report(r, Success(circuit[r]))
    /\ IF j.purpose = "main" THEN Set(t, [j EXCEPT !.repository = r]) ELSE UNCHANGED job
    /\ Goto(t, IF j.purpose # "main" THEN "bundle"
               ELSE IF ~Mutable THEN "not_modified"
               ELSE IF j.notFound # {} THEN "remember_same"
               ELSE "forget_same")
    /\ UNCHANGED <<negative, down, told, sinceProbe, cancels>>

NotFound(t, r) ==
    /\ pc[t] = "sent" /\ r \in First(job[t])
    /\ Report(r, Success(circuit[r]))
    /\ Set(t, [NextSource(job[t], r, FALSE) EXCEPT !.notFound = @ \cup ({r} \cap CacheWrites)])
    /\ Goto(t, "ask")
    /\ Learn(t, "absent", r)
    /\ UNCHANGED <<negative, down, sinceProbe, cancels>>

\* 401, 403 or an unexpected status: a failure, but none of the circuit's.
Rejected(t, r) ==
    /\ pc[t] = "sent" /\ r \in First(job[t])
    /\ Report(r, Success(circuit[r]))
    /\ Set(t, NextSource(job[t], r, TRUE))
    /\ Goto(t, "ask")
    /\ Learn(t, "failed", r)
    /\ UNCHANGED <<negative, down, sinceProbe, cancels>>

\* A server error or none at all: another attempt, or the failure of the repository.
Unanswered(t, r) ==
    /\ pc[t] = "sent" /\ r \in First(job[t]) /\ r \in down
    /\ IF job[t].attempt + 1 < MaxAttempts
       THEN Set(t, [job[t] EXCEPT !.attempt = @ + 1]) /\ UNCHANGED <<circuit, pc, told>>
       ELSE /\ Report(r, Failure(circuit[r]))
            /\ Set(t, NextSource(job[t], r, TRUE))
            /\ Goto(t, "ask")
            /\ Learn(t, "failed", r)
    /\ UNCHANGED <<negative, down, sinceProbe, cancels>>

-----------------------------------------------------------------------------
(* download_main, select_stable_download, checksum_issues                   *)

\* The repository is given up for this path, and the other sources are asked.
\* (Mutant: it is not excluded.)
GiveUpNot(j) == Round([j EXCEPT !.upstreamFailure = TRUE])
GiveUp(j) ==
    Round([j EXCEPT !.upstreamFailure = TRUE, !.excluded = @ \cup {j.repository}])

Abandon(t) ==
    LET r == job[t].repository IN
    /\ Report(r, Failure(circuit[r]))
    /\ Set(t, GiveUp(job[t]))
    /\ Goto(t, "ask")
    /\ told' = [told EXCEPT ![t].failed = @ \cup {r}]

\* The body arrives whole; its checksum is asked for next.
Delivered(t) ==
    LET j == job[t]
        r == j.repository
    IN
    /\ pc[t] = "body"
    /\ Report(r, Success(circuit[r]))
    /\ Set(t, [Asking(j, "checksum", {r}) EXCEPT !.round = @ + 1])
    /\ Goto(t, IF ChecksumPath THEN "bundle" ELSE "ask")
    /\ UNCHANGED <<negative, down, told, sinceProbe, cancels>>

\* The body breaks off.  The first one fails the repository; a later one only
\* ends the validation, with the first download accepted.
BrokenOff(t) ==
    /\ pc[t] = "body" /\ job[t].repository \in down
    /\ IF job[t].round = 0
       THEN Abandon(t)
       ELSE Goto(t, "bundle") /\ UNCHANGED <<circuit, job, told>>
    /\ UNCHANGED <<negative, down, sinceProbe, cancels>>

\* The upstream's checksum agrees, disagrees, or cannot be read.
Checksum(t) ==
    LET r == job[t].repository IN
    /\ pc[t] = "sum_body"
    /\ \/ Report(r, Success(circuit[r])) /\ Goto(t, "bundle")
       \/ Report(r, Success(circuit[r])) /\ Goto(t, "issues")
       \/ r \in down /\ Goto(t, "issues") /\ UNCHANGED circuit
    /\ UNCHANGED <<negative, down, job, told, sinceProbe, cancels>>

\* Content seen before is accepted; otherwise the main file is asked for again, and
\* content that changed every time fails the repository, which need not be down.
Issues(t) ==
    LET j == job[t] IN
    /\ pc[t] = "issues"
    /\ \/ /\ j.round > 1
          /\ Goto(t, "bundle")
          /\ UNCHANGED <<circuit, job, told>>
       \/ /\ j.round < MaxValidations
          /\ Set(t, Asking(j, "again", {j.repository}))
          /\ Goto(t, "ask")
          /\ UNCHANGED <<circuit, told>>
       \/ j.round = MaxValidations /\ Abandon(t)
    /\ UNCHANGED <<negative, down, sinceProbe, cancels>>

Finish(t) ==
    /\ pc[t] \in Results
    /\ Goto(t, "idle")
    /\ Set(t, NoJob)
    /\ told' = [told EXCEPT ![t] = [absent |-> {}, failed |-> {}]]
    /\ UNCHANGED <<circuit, negative, down, sinceProbe, cancels>>

-----------------------------------------------------------------------------
(* The client, the upstreams and the clock                                  *)

\* The task of a client is dropped: nothing is reported.
Cancel(t) ==
    /\ pc[t] \notin Results \cup {"idle"}
    /\ cancels < MaxCancels
    /\ cancels' = cancels + 1
    /\ Goto(t, "idle")
    /\ Set(t, NoJob)
    /\ told' = [told EXCEPT ![t] = [absent |-> {}, failed |-> {}]]
    /\ UNCHANGED <<circuit, negative, down, sinceProbe>>

Upstream(r) ==
    /\ down' = IF r \in down THEN down \ {r} ELSE down \cup {r}
    /\ UNCHANGED <<circuit, negative, pc, job, told, sinceProbe, cancels>>

Tick ==
    /\ circuit' = [r \in Repositories |->
                     IF circuit[r].mode = "closed" THEN circuit[r]
                     ELSE [circuit[r] EXCEPT !.age = Ticked(@, Recovery)]]
    /\ negative' = [r \in Repositories |->
                      IF negative[r] = NoEntry THEN NoEntry
                      ELSE Ticked(negative[r], NegativeTTL)]
    /\ sinceProbe' = [r \in Repositories |-> Ticked(sinceProbe[r], Recovery)]
    /\ UNCHANGED <<down, pc, job, told, cancels>>

\* The process starts with what an earlier one left in the negative cache.
Init ==
    /\ circuit = [r \in Repositories |-> Closed]
    /\ negative \in [Repositories -> {NoEntry, 0, NegativeTTL}]
    /\ down = {}
    /\ pc = [t \in Tasks |-> "idle"]
    /\ job = [t \in Tasks |-> NoJob]
    /\ told = [t \in Tasks |-> [absent |-> {}, failed |-> {}]]
    /\ sinceProbe = [r \in Repositories |-> Recovery]
    /\ cancels = 0

Answered(t) ==
    \E r \in Repositories :
        Found(t, r) \/ NotModified(t, r) \/ NotFound(t, r) \/ Rejected(t, r) \/ Unanswered(t, r)
Body(t) == Delivered(t) \/ BrokenOff(t) \/ Checksum(t) \/ Issues(t)
TaskStep(t) == \/ Expire(t) \/ Remember(t) \/ Forget(t)
               \/ (\E r \in Repositories : Ask(t, r)) \/ Conclude(t) \/ Answered(t) \/ Body(t) \/ Finish(t)

Next ==
    \/ \E t \in Tasks : Begin(t) \/ TaskStep(t)
    \/ \E t \in Clients : Cancel(t)
    \/ \E r \in Repositories : Upstream(r)
    \/ Tick

Spec == Init /\ [][Next]_vars

\* Every request to an upstream is answered or times out, and time passes.
FairSpec == Spec /\ WF_vars(Tick) /\ \A t \in Tasks : WF_vars(TaskStep(t))

\* And the clients keep asking.
BusySpec == FairSpec /\ \A t \in Clients : WF_vars(Begin(t))

-----------------------------------------------------------------------------
(* Properties                                                               *)

\* The types; a circuit is closed exactly as long as its failures are below the
\* threshold, whichever late outcomes of older requests it is told.
TypeOK ==
    /\ circuit \in [Repositories -> Circuit]
    /\ \A r \in Repositories : circuit[r].mode = "closed" <=> circuit[r].failures < Threshold
    /\ negative \in [Repositories -> (0 .. NegativeTTL) \cup {NoEntry}]
    /\ down \subseteq Repositories
    /\ pc \in [Tasks -> PCs]
    /\ job \in [Tasks -> Job]
    /\ told \in [Tasks -> [absent : SUBSET Repositories, failed : SUBSET Repositories]]
    /\ sinceProbe \in [Repositories -> 0 .. Recovery]
    /\ cancels \in 0 .. MaxCancels

\* A client gets 404 only if every candidate said 404, to this download or, for
\* a mutable path, within the negative TTL before it: what was skipped, failed,
\* broke off or proved unstable in any round is never taken for missing.
NotFoundIsConfirmed ==
    \A t \in Tasks : pc[t] = "not_found" => Candidates \subseteq told[t].absent

\* README: content that fails is discarded "and other sources are tried": a
\* download gives up only when no candidate is left.  (A 304 is no giving up: it
\* ends the search, for a client, who asked without conditions, with 502.)
EverySourceTried ==
    \A t \in Tasks : pc[t] \in {"not_found", "gateway"} =>
        Candidates \subseteq told[t].absent \cup told[t].failed

\* circuit.rs: "In the half-open state exactly one probe is admitted": the
\* requests that a circuit which is not closed lets through are at least a
\* recovery timeout apart, whatever was reported or dropped in between.
Probes(r) ==
    /\ circuit[r].mode # "closed"
    /\ \E t \in Tasks : pc[t] = "ask" /\ pc'[t] = "sent" /\ r \in First(job[t])
ProbesSpaced ==
    [][\A r \in Repositories : Probes(r) => sinceProbe[r] = Recovery]_vars

\* A download ends: the rounds of prepare_fetch, the attempts and the
\* validations do not go on for ever, even if every upstream keeps failing.
FetchEnds == \A t \in Tasks : pc[t] # "idle" ~> pc[t] = "idle"

\* The last validation of a download has found an issue.
Unstable == \E t \in Tasks : pc[t] = "issues" /\ job[t].round = MaxValidations

\* CHANGELOG: a canceled probe no longer wedges the repository: when the first
\* candidate is up for good, its content stable, and clients keep asking, its
\* circuit closes for good.
CircuitRecovers ==
    LET r == Head(Order)
    IN  <>[](r \notin down /\ ~Unstable) => <>[](circuit[r].mode = "closed")
=============================================================================
