------------------------- MODULE UpstreamClient_proofs -------------------------
(***************************************************************************)
(* Proofs about UpstreamClient, for all tasks, repositories and limits:    *)
(* what a download tells its client of a path is what the repositories     *)
(* told the download, and the probes of a circuit keep their distance.     *)
(***************************************************************************)
EXTENDS UpstreamClient, TLAPS

-----------------------------------------------------------------------------
(* The inductive invariant                                                  *)

\* What a task at a place knows: a repository that is excluded has failed, one with
\* a negative entry has said 404; a candidate that the search does not ask any more
\* has done one or the other, and a failure is not forgotten.
Good(at, j, known) ==
    /\ j.excluded \subseteq known.failed /\ j.negative \subseteq known.absent
    /\ j.purpose = "main" =>
          /\ j.notFound \subseteq known.absent
          /\ known.failed = {} \/ j.gatewayFailure \/ j.upstreamFailure
          /\ at \in {"expire", "ask", "sent"} =>
                Candidates \subseteq known.absent \cup known.failed \cup j.queue
    /\ at = "remember" /\ j.repository = NoRepository =>
          Candidates \subseteq known.absent \cup known.failed
    /\ at \in {"not_found", "gateway"} => Candidates \subseteq known.absent \cup known.failed
    /\ at = "not_found" => Candidates \subseteq known.absent

\* Where a task is, the round of its download and what it may ask.
Placed(at, j) ==
    /\ at \in {"remember_same", "forget", "forget_same", "body", "sum_body", "issues"} =>
          j.repository # NoRepository
    /\ j.purpose # "main" => j.repository # NoRepository
    /\ at \in {"expire", "remember", "remember_same", "forget"} => j.purpose = "main" /\ j.round = 0
    /\ at \in {"ask", "sent"} /\ j.purpose = "main" => j.round = 0
    /\ at \in {"ask", "sent"} /\ j.purpose = "again" => j.round < MaxValidations
    /\ at = "body" => j.round < MaxValidations
    /\ IF j.purpose = "main" THEN j.queue \subseteq Candidates \cup {j.preferred}
                             ELSE j.queue \subseteq {j.repository}

Known == [absent : SUBSET Repositories, failed : SUBSET Repositories]

TasksOK ==
    /\ pc \in [Tasks -> PCs] /\ job \in [Tasks -> Job] /\ told \in [Tasks -> Known]
    /\ \A t \in Tasks : Good(pc[t], job[t], told[t]) /\ Placed(pc[t], job[t])

\* A circuit that is not closed has not been so for longer than its last probe is ago.
CircuitOK(c) == c \in Circuit /\ (c.mode = "closed" <=> c.failures < Threshold)
CircuitsOK ==
    /\ circuit \in [Repositories -> Circuit] /\ sinceProbe \in [Repositories -> 0 .. Recovery]
    /\ \A r \in Repositories :
          /\ CircuitOK(circuit[r])
          /\ circuit[r].mode # "closed" => circuit[r].age <= sinceProbe[r]

OthersOK ==
    /\ negative \in [Repositories -> (0 .. NegativeTTL) \cup {NoEntry}]
    /\ down \subseteq Repositories
    /\ cancels \in 0 .. MaxCancels

IInv == TasksOK /\ CircuitsOK /\ OthersOK

-----------------------------------------------------------------------------
(* The local state                                                          *)

LEMMA CandidatesKnown == Candidates \subseteq Repositories
PROOF
  BY UpstreamAssumption DEF Candidates, ToSet

LEMMA AttemptsAndRounds == 0 \in 0 .. MaxAttempts - 1 /\ 0 \in 0 .. MaxValidations
PROOF
  BY UpstreamAssumption

LEMMA NoJobGood ==
    /\ NoJob \in Job
    /\ NoJob.purpose = "main" /\ NoJob.queue = {} /\ NoJob.excluded = {} /\ NoJob.negative = {}
    /\ NoJob.notFound = {} /\ NoJob.round = 0 /\ ~NoJob.upstreamFailure /\ ~NoJob.gatewayFailure
    /\ \A at \in {"idle"} :
          Good(at, NoJob, [absent |-> {}, failed |-> {}]) /\ Placed(at, NoJob)
PROOF
  BY AttemptsAndRounds DEF NoJob, Job, Good, Placed

\* A round that begins asks every candidate of which nothing is known yet.
LEMMA RoundGood ==
    ASSUME NEW j \in Job, NEW known \in Known, NEW at \in {"ask", "expire"},
           j.excluded \subseteq known.failed, j.negative \subseteq known.absent,
           known.failed = {} \/ j.upstreamFailure
    PROVE  Round(j) \in Job /\ Good(at, Round(j), known) /\ Placed(at, Round(j))
PROOF
  <1> DEFINE a == Asking(j, "main", Sources(j))
  <1>1. /\ Sources(j) \in SUBSET Repositories
        /\ Candidates \subseteq Sources(j) \cup j.excluded \cup j.negative
        /\ Sources(j) \subseteq Candidates \cup {j.preferred}
    BY CandidatesKnown DEF Sources, Job
  <1>2. /\ a \in Job /\ a.purpose = "main" /\ a.queue = Sources(j)
        /\ a.notFound = {} /\ a.preferred = j.preferred /\ a.excluded = j.excluded
        /\ a.negative = j.negative /\ a.upstreamFailure = j.upstreamFailure
    BY <1>1, AttemptsAndRounds DEF Asking, Job
  <1> HIDE DEF a
  <1>3. Round(j) = [a EXCEPT !.repository = NoRepository, !.round = 0]
    BY DEF Round, a
  <1>5. /\ Round(j) \in Job /\ Round(j).purpose = "main" /\ Round(j).queue = Sources(j)
        /\ Round(j).notFound = {} /\ Round(j).preferred = j.preferred
        /\ Round(j).excluded = j.excluded /\ Round(j).negative = j.negative
        /\ Round(j).upstreamFailure = j.upstreamFailure /\ Round(j).round = 0
    BY <1>2, <1>3, AttemptsAndRounds DEF Job
  <1>6. Good(at, Round(j), known)
    BY <1>1, <1>5 DEF Good
  <1>7. Placed(at, Round(j))
    BY <1>1, <1>5 DEF Placed
  <1> QED
    BY <1>5, <1>6, <1>7

\* What t learns of r, if it searches for the path itself.
Learned(j, known, field, r) ==
    IF j.purpose = "main" THEN [known EXCEPT ![field] = @ \cup {r}] ELSE known

LEMMA LearnIs ==
    ASSUME TasksOK, NEW t \in Tasks, NEW field \in {"absent", "failed"}, NEW r, Learn(t, field, r)
    PROVE  told' = [told EXCEPT ![t] = Learned(job[t], told[t], field, r)]
PROOF
  BY DEF Learn, Learned, TasksOK

\* The repository that failed is left out of the search, and the failure is known.
LEMMA FailedGood ==
    ASSUME NEW j \in Job, NEW known \in Known, NEW r \in Repositories,
           NEW at \in {"ask", "sent"}, Good(at, j, known), Placed(at, j)
    PROVE  /\ NextSource(j, r, TRUE) \in Job
           /\ Learned(j, known, "failed", r) \in Known
           /\ Good("ask", NextSource(j, r, TRUE), Learned(j, known, "failed", r))
           /\ Placed("ask", NextSource(j, r, TRUE))
PROOF
  <1> DEFINE n == NextSource(j, r, TRUE)
             k == Learned(j, known, "failed", r)
  <1>1. /\ n \in Job /\ n.queue = j.queue \ {r} /\ n.gatewayFailure = TRUE
        /\ n.purpose = j.purpose /\ n.notFound = j.notFound
        /\ n.preferred = j.preferred /\ n.excluded = j.excluded /\ n.negative = j.negative
        /\ n.repository = j.repository /\ n.round = j.round
    BY AttemptsAndRounds DEF NextSource, Job
  <1>2. /\ k \in Known /\ k.absent = known.absent
        /\ k.failed = IF j.purpose = "main" THEN known.failed \cup {r} ELSE known.failed
    BY DEF Learned, Known
  <1> HIDE DEF n, k
  <1>3. Good("ask", n, k)
    BY <1>1, <1>2 DEF Good
  <1>4. Placed("ask", n)
    BY <1>1 DEF Placed
  <1> QED
    BY <1>1, <1>2, <1>3, <1>4 DEF n, k

\* The search goes on after the 404 of r.
Missing(j, r) == [NextSource(j, r, FALSE) EXCEPT !.notFound = @ \cup ({r} \cap CacheWrites)]

LEMMA AbsentGood ==
    ASSUME NEW j \in Job, NEW known \in Known, NEW r \in Repositories,
           Good("sent", j, known), Placed("sent", j)
    PROVE  /\ Missing(j, r) \in Job /\ Learned(j, known, "absent", r) \in Known
           /\ Good("ask", Missing(j, r), Learned(j, known, "absent", r))
           /\ Placed("ask", Missing(j, r))
PROOF
  <1> DEFINE m == NextSource(j, r, FALSE)
             n == Missing(j, r)
             k == Learned(j, known, "absent", r)
  <1>1. /\ m \in Job /\ m.queue = j.queue \ {r} /\ m.gatewayFailure = j.gatewayFailure
        /\ m.purpose = j.purpose /\ m.notFound = j.notFound
        /\ m.preferred = j.preferred /\ m.excluded = j.excluded /\ m.negative = j.negative
        /\ m.upstreamFailure = j.upstreamFailure
        /\ m.repository = j.repository /\ m.round = j.round
    BY AttemptsAndRounds DEF NextSource, Job
  <1>2. /\ k \in Known /\ k.failed = known.failed
        /\ k.absent = IF j.purpose = "main" THEN known.absent \cup {r} ELSE known.absent
    BY DEF Learned, Known
  <1> HIDE DEF m, k
  <1>3. /\ n \in Job /\ n.queue = j.queue \ {r} /\ n.gatewayFailure = j.gatewayFailure
        /\ n.purpose = j.purpose /\ n.notFound \subseteq j.notFound \cup {r}
        /\ n.preferred = j.preferred /\ n.excluded = j.excluded /\ n.negative = j.negative
        /\ n.upstreamFailure = j.upstreamFailure
        /\ n.repository = j.repository /\ n.round = j.round
    BY <1>1 DEF Missing, Job, m
  <1> HIDE DEF n
  <1>4. Good("ask", n, k)
    BY <1>2, <1>3 DEF Good
  <1>5. Placed("ask", n)
    BY <1>3 DEF Placed
  <1> QED
    BY <1>2, <1>3, <1>4, <1>5 DEF n, k
-----------------------------------------------------------------------------
(* Steps of a task                                                          *)

\* One task moves, and is as it should be where it arrives.
LEMMA TaskMoves ==
    ASSUME TasksOK, NEW t \in Tasks, NEW at \in PCs, NEW j \in Job, NEW known \in Known,
           pc' = [pc EXCEPT ![t] = at], job' = [job EXCEPT ![t] = j],
           told' = [told EXCEPT ![t] = known], Good(at, j, known), Placed(at, j)
    PROVE  TasksOK'
PROOF
  <1>1. /\ pc' \in [Tasks -> PCs] /\ job' \in [Tasks -> Job] /\ told' \in [Tasks -> Known]
        /\ pc'[t] = at /\ job'[t] = j /\ told'[t] = known
        /\ \A u \in Tasks \ {t} : pc'[u] = pc[u] /\ job'[u] = job[u] /\ told'[u] = told[u]
    BY DEF TasksOK
  <1>2. ASSUME NEW u \in Tasks PROVE Good(pc'[u], job'[u], told'[u]) /\ Placed(pc'[u], job'[u])
    <2>1. CASE u = t
      BY <2>1, <1>1
    <2>2. CASE u # t
      BY <2>2, <1>1 DEF TasksOK
    <2> QED
      BY <2>1, <2>2
  <1> QED
    BY <1>1, <1>2 DEF TasksOK

\* What a step leaves alone is what it was.
LEMMA Stays ==
    ASSUME TasksOK, NEW t \in Tasks
    PROVE  /\ pc = [pc EXCEPT ![t] = pc[t]] /\ job = [job EXCEPT ![t] = job[t]]
           /\ told = [told EXCEPT ![t] = told[t]]
           /\ pc[t] \in PCs /\ job[t] \in Job /\ told[t] \in Known
           /\ Good(pc[t], job[t], told[t]) /\ Placed(pc[t], job[t])
PROOF
  BY DEF TasksOK

\* A task that ends or is dropped forgets everything.
LEMMA IdleAgain ==
    ASSUME TasksOK, NEW t \in Tasks, Goto(t, "idle"), Set(t, NoJob),
           told' = [told EXCEPT ![t] = [absent |-> {}, failed |-> {}]]
    PROVE  TasksOK'
PROOF
  <1>1. "idle" \in PCs /\ [absent |-> {}, failed |-> {}] \in Known
    BY DEF PCs, Known
  <1> QED
    BY <1>1, NoJobGood, TaskMoves DEF Goto, Set

LEMMA BeginTasks ==
    ASSUME TasksOK, NEW t \in Tasks, Begin(t) PROVE TasksOK'
PROOF
  <1> DEFINE known == IF Mutable THEN Fresh ELSE {}
             expired == IF Mutable THEN Expired ELSE {}
             at == IF expired = {} THEN "ask" ELSE "expire"
             heard == [absent |-> known, failed |-> {}]
  <1>1. PICK p \in Repositories \cup {NoRepository} :
            Set(t, Round([NoJob EXCEPT !.preferred = p, !.negative = known, !.expired = expired]))
    BY DEF Begin
  <1> DEFINE j == [NoJob EXCEPT !.preferred = p, !.negative = known, !.expired = expired]
  <1>2. known \in SUBSET Repositories /\ expired \in SUBSET Repositories
    BY DEF Fresh, Expired
  <1>3. /\ at \in {"ask", "expire"} /\ at \in PCs
        /\ pc' = [pc EXCEPT ![t] = at] /\ told' = [told EXCEPT ![t] = heard]
    BY DEF Begin, Goto, PCs
  <1>4. heard \in Known /\ heard.absent = known /\ heard.failed = {}
    BY <1>2 DEF Known
  <1> HIDE DEF known, expired, at, heard
  <1>5. j \in Job /\ j.excluded = {} /\ j.negative = known
    BY <1>2, AttemptsAndRounds DEF NoJob, Job
  <1>6. job' = [job EXCEPT ![t] = Round(j)]
    BY <1>1 DEF Set
  <1> HIDE DEF j
  <1>7. Round(j) \in Job /\ Good(at, Round(j), heard) /\ Placed(at, Round(j))
    BY <1>3, <1>4, <1>5, RoundGood
  <1> QED
    BY <1>3, <1>4, <1>6, <1>7, TaskMoves

LEMMA ExpireTasks ==
    ASSUME TasksOK, NEW t \in Tasks, Expire(t) PROVE TasksOK'
PROOF
  <1> DEFINE j == [job[t] EXCEPT !.expired = {}]
  <1>1. /\ pc[t] = "expire" /\ pc' = [pc EXCEPT ![t] = "ask"]
        /\ job' = [job EXCEPT ![t] = j] /\ told' = [told EXCEPT ![t] = told[t]]
    BY Stays DEF Expire, Goto, Set
  <1>2. /\ j \in Job /\ j.purpose = job[t].purpose /\ j.queue = job[t].queue
        /\ j.notFound = job[t].notFound /\ j.preferred = job[t].preferred
        /\ j.excluded = job[t].excluded /\ j.negative = job[t].negative
        /\ j.upstreamFailure = job[t].upstreamFailure
        /\ j.gatewayFailure = job[t].gatewayFailure
        /\ j.repository = job[t].repository /\ j.round = job[t].round
    BY Stays DEF Job
  <1> HIDE DEF j
  <1>3. Good("ask", j, told[t])
    BY <1>1, <1>2, Stays DEF Good
  <1>4. Placed("ask", j)
    BY <1>1, <1>2, Stays DEF Placed
  <1> QED
    BY <1>1, <1>2, <1>3, <1>4, Stays, TaskMoves DEF PCs

LEMMA RememberTasks ==
    ASSUME TasksOK, NEW t \in Tasks, Remember(t) PROVE TasksOK'
PROOF
  <1> DEFINE j == [job[t] EXCEPT !.negative = @ \cup job[t].notFound, !.notFound = {}]
             at == IF pc[t] = "remember_same" THEN "forget_same"
                   ELSE IF job[t].repository # NoRepository THEN "forget" ELSE Result(job[t])
  <1>1. /\ pc[t] \in {"remember", "remember_same"} /\ pc' = [pc EXCEPT ![t] = at]
        /\ job' = [job EXCEPT ![t] = j] /\ told' = [told EXCEPT ![t] = told[t]]
    BY Stays DEF Remember, Goto, Set
  <1>2. /\ j \in Job /\ j.purpose = job[t].purpose /\ j.queue = job[t].queue
        /\ j.notFound = {} /\ j.preferred = job[t].preferred
        /\ j.excluded = job[t].excluded /\ j.negative = job[t].negative \cup job[t].notFound
        /\ j.upstreamFailure = job[t].upstreamFailure
        /\ j.gatewayFailure = job[t].gatewayFailure
        /\ j.repository = job[t].repository /\ j.round = job[t].round
    BY Stays DEF Job
  <1>3. /\ at \in {"forget", "forget_same", "not_found", "gateway"} /\ at \in PCs
        /\ at = "forget_same" <=> pc[t] = "remember_same"
        /\ pc[t] = "remember" => (at = "forget" <=> job[t].repository # NoRepository)
        /\ at = "not_found" => ~job[t].gatewayFailure /\ ~job[t].upstreamFailure
    BY DEF Result, PCs, Results
  <1> HIDE DEF j, at
  <1>4. job[t].purpose = "main" /\ job[t].round = 0
    BY <1>1, Stays DEF Placed
  <1>5. Good(at, j, told[t])
    BY <1>1, <1>2, <1>3, <1>4, Stays DEF Good
  <1>6. Placed(at, j)
    BY <1>1, <1>2, <1>3, <1>4, Stays DEF Placed
  <1> QED
    BY <1>1, <1>2, <1>3, <1>5, <1>6, Stays, TaskMoves

\* A step that only changes the place of the task.
LEMMA OnlyPlace ==
    ASSUME TasksOK, NEW t \in Tasks, NEW at \in PCs, Goto(t, at), UNCHANGED <<job, told>>,
           Good(at, job[t], told[t]), Placed(at, job[t])
    PROVE  TasksOK'
PROOF
  BY Stays, TaskMoves DEF Goto

LEMMA ForgetTasks ==
    ASSUME TasksOK, NEW t \in Tasks, Forget(t) PROVE TasksOK'
PROOF
  <1>1. MaxValidations > 0
    BY UpstreamAssumption
  <1>2. CASE pc[t] = "forget"
    BY <1>1, <1>2, Stays, OnlyPlace DEF Forget, PCs, Good, Placed
  <1>3. CASE pc[t] = "forget_same"
    BY <1>3, Stays, OnlyPlace DEF Forget, PCs, Results, Good, Placed
  <1> QED
    BY <1>2, <1>3 DEF Forget
\* The step of a task that leaves out a repository that failed.
LEMMA FailedTasks ==
    ASSUME TasksOK, NEW t \in Tasks, NEW r \in Repositories, pc[t] \in {"ask", "sent"},
           pc' = [pc EXCEPT ![t] = "ask"], Set(t, NextSource(job[t], r, TRUE)),
           Learn(t, "failed", r)
    PROVE  TasksOK'
PROOF
  <1>1. told' = [told EXCEPT ![t] = Learned(job[t], told[t], "failed", r)]
    BY LearnIs
  <1>2. /\ NextSource(job[t], r, TRUE) \in Job
        /\ Learned(job[t], told[t], "failed", r) \in Known
        /\ Good("ask", NextSource(job[t], r, TRUE), Learned(job[t], told[t], "failed", r))
        /\ Placed("ask", NextSource(job[t], r, TRUE))
    <2>1. /\ job[t] \in Job /\ told[t] \in Known
          /\ Good(pc[t], job[t], told[t]) /\ Placed(pc[t], job[t])
      BY Stays
    <2> QED
      BY <2>1, FailedGood
  <1>3. job' = [job EXCEPT ![t] = NextSource(job[t], r, TRUE)]
    BY DEF Set
  <1> QED
    BY <1>1, <1>2, <1>3, TaskMoves DEF PCs

LEMMA AskTasks ==
    ASSUME TasksOK, NEW t \in Tasks, NEW r \in Repositories, Ask(t, r) PROVE TasksOK'
PROOF
  <1>1. pc[t] = "ask"
    BY DEF Ask
  <1>2. CASE Allow(circuit[r])
    <2>1. Goto(t, "sent") /\ UNCHANGED <<job, told>>
      BY <1>2 DEF Ask
    <2>2. Good("sent", job[t], told[t]) /\ Placed("sent", job[t])
      BY <1>1, Stays DEF Good, Placed
    <2> QED
      BY <2>1, <2>2, OnlyPlace DEF PCs
  <1>3. CASE ~Allow(circuit[r])
    BY <1>1, <1>3, Stays, FailedTasks DEF Ask
  <1> QED
    BY <1>2, <1>3

LEMMA ConcludeTasks ==
    ASSUME TasksOK, NEW t \in Tasks, Conclude(t) PROVE TasksOK'
PROOF
  <1>1. pc[t] = "ask" /\ job[t].queue = {} /\ UNCHANGED <<job, told>>
    BY DEF Conclude
  <1>2. CASE job[t].purpose # "main"
    BY <1>1, <1>2, Stays, OnlyPlace DEF Conclude, PCs, Results, Good, Placed
  <1>3. CASE job[t].purpose = "main" /\ Mutable /\ job[t].notFound # {}
    BY <1>1, <1>3, Stays, OnlyPlace DEF Conclude, PCs, Good, Placed
  <1>4. CASE job[t].purpose = "main" /\ ~(Mutable /\ job[t].notFound # {})
    BY <1>1, <1>4, Stays, OnlyPlace DEF Conclude, Result, PCs, Results, Good, Placed
  <1> QED
    BY <1>2, <1>3, <1>4

LEMMA FoundTasks ==
    ASSUME TasksOK, NEW t \in Tasks, NEW r \in Repositories, Found(t, r) PROVE TasksOK'
PROOF
  <1> DEFINE j == [job[t] EXCEPT !.repository = r]
             at == IF job[t].purpose = "checksum" THEN "sum_body"
                   ELSE IF job[t].purpose = "again" \/ ~Mutable THEN "body"
                   ELSE IF job[t].notFound # {} THEN "remember" ELSE "forget"
  <1>1. /\ pc[t] = "sent" /\ r \in job[t].queue /\ pc' = [pc EXCEPT ![t] = at]
        /\ job' = [job EXCEPT ![t] = j] /\ told' = [told EXCEPT ![t] = told[t]]
    BY Stays DEF Found, First, Goto, Set
  <1>2. /\ j \in Job /\ j.purpose = job[t].purpose /\ j.queue = job[t].queue
        /\ j.notFound = job[t].notFound /\ j.preferred = job[t].preferred
        /\ j.excluded = job[t].excluded /\ j.negative = job[t].negative
        /\ j.upstreamFailure = job[t].upstreamFailure
        /\ j.gatewayFailure = job[t].gatewayFailure
        /\ j.repository = r /\ j.round = job[t].round
    BY Stays DEF Job
  <1>3. /\ at \in {"sum_body", "body", "remember", "forget"} /\ at \in PCs
        /\ at = "sum_body" <=> job[t].purpose = "checksum"
        /\ at \in {"remember", "forget"} => job[t].purpose = "main"
    BY Stays DEF PCs, Job
  <1> HIDE DEF j, at
  <1>4. r # NoRepository /\ MaxValidations > 0
    BY UpstreamAssumption
  <1>5. Good(at, j, told[t])
    BY <1>1, <1>2, <1>3, <1>4, Stays DEF Good
  <1>6. job[t].purpose \in {"main", "checksum", "again"}
    BY Stays DEF Job
  <1>7. Placed(at, j)
    BY <1>1, <1>2, <1>3, <1>4, <1>6, Stays DEF Placed
  <1> QED
    BY <1>1, <1>2, <1>3, <1>5, <1>7, Stays, TaskMoves

LEMMA NotModifiedTasks ==
    ASSUME TasksOK, NEW t \in Tasks, NEW r \in Repositories, NotModified(t, r) PROVE TasksOK'
PROOF
  <1> DEFINE j == [job[t] EXCEPT !.repository = r]
             at == IF ~Mutable THEN "not_modified"
                   ELSE IF job[t].notFound # {} THEN "remember_same" ELSE "forget_same"
  <1>0. CASE job[t].purpose # "main"
    <2>1. pc[t] = "sent" /\ Goto(t, "bundle") /\ UNCHANGED <<job, told>>
      BY <1>0 DEF NotModified
    <2>2. Good("bundle", job[t], told[t]) /\ Placed("bundle", job[t])
      BY <1>0, <2>1, Stays DEF Good, Placed
    <2> QED
      BY <2>1, <2>2, OnlyPlace DEF PCs, Results
  <1> SUFFICES ASSUME job[t].purpose = "main" PROVE TasksOK'
    BY <1>0
  <1>1. /\ pc[t] = "sent"
        /\ pc' = [pc EXCEPT ![t] = at]
        /\ job' = [job EXCEPT ![t] = j] /\ told' = [told EXCEPT ![t] = told[t]]
    BY Stays DEF NotModified, Goto, Set
  <1>6. at \in {"not_modified", "remember_same", "forget_same"} /\ at \in PCs
    BY DEF PCs, Results
  <1>2. /\ j \in Job /\ j.purpose = "main" /\ j.queue = job[t].queue
        /\ j.notFound = job[t].notFound /\ j.preferred = job[t].preferred
        /\ j.excluded = job[t].excluded /\ j.negative = job[t].negative
        /\ j.upstreamFailure = job[t].upstreamFailure
        /\ j.gatewayFailure = job[t].gatewayFailure
        /\ j.repository = r /\ j.round = job[t].round
    BY <1>1, Stays DEF Job
  <1>3. r # NoRepository
    BY UpstreamAssumption
  <1> HIDE DEF j, at
  <1>4. Good(at, j, told[t])
    BY <1>6, <1>1, <1>2, Stays DEF Good
  <1>5. Placed(at, j)
    BY <1>6, <1>1, <1>2, <1>3, Stays DEF Placed
  <1> QED
    BY <1>6, <1>1, <1>2, <1>4, <1>5, Stays, TaskMoves

LEMMA NotFoundTasks ==
    ASSUME TasksOK, NEW t \in Tasks, NEW r \in Repositories, NotFound(t, r) PROVE TasksOK'
PROOF
  <1> DEFINE n == Missing(job[t], r)
             k == Learned(job[t], told[t], "absent", r)
  <1>1. /\ pc[t] = "sent" /\ pc' = [pc EXCEPT ![t] = "ask"]
        /\ job' = [job EXCEPT ![t] = n] /\ Learn(t, "absent", r)
    BY DEF NotFound, Missing, Goto, Set
  <1>2. told' = [told EXCEPT ![t] = k]
    BY <1>1, LearnIs
  <1>3. n \in Job /\ k \in Known /\ Good("ask", n, k) /\ Placed("ask", n)
    <2>1. /\ job[t] \in Job /\ told[t] \in Known
          /\ Good(pc[t], job[t], told[t]) /\ Placed(pc[t], job[t])
      BY Stays
    <2> QED
      BY <1>1, <2>1, AbsentGood
  <1> QED
    BY <1>1, <1>2, <1>3, TaskMoves DEF PCs

LEMMA RejectedTasks ==
    ASSUME TasksOK, NEW t \in Tasks, NEW r \in Repositories, Rejected(t, r) PROVE TasksOK'
PROOF
  BY FailedTasks DEF Rejected, Goto

LEMMA UnansweredTasks ==
    ASSUME TasksOK, NEW t \in Tasks, NEW r \in Repositories, Unanswered(t, r) PROVE TasksOK'
PROOF
  <1>1. pc[t] = "sent"
    BY DEF Unanswered
  <1>2. CASE job[t].attempt + 1 < MaxAttempts
    <2> DEFINE j == [job[t] EXCEPT !.attempt = @ + 1]
    <2>1. /\ pc' = [pc EXCEPT ![t] = pc[t]] /\ job' = [job EXCEPT ![t] = j]
          /\ told' = [told EXCEPT ![t] = told[t]]
      BY <1>2, Stays DEF Unanswered, Set
    <2>2. job[t].attempt + 1 \in 0 .. MaxAttempts - 1
      BY <1>2, Stays, UpstreamAssumption DEF Job
    <2>3. /\ j \in Job /\ j.purpose = job[t].purpose /\ j.queue = job[t].queue
          /\ j.notFound = job[t].notFound /\ j.preferred = job[t].preferred
          /\ j.excluded = job[t].excluded /\ j.negative = job[t].negative
          /\ j.upstreamFailure = job[t].upstreamFailure
          /\ j.gatewayFailure = job[t].gatewayFailure
          /\ j.repository = job[t].repository /\ j.round = job[t].round
      BY <2>2, Stays DEF Job
    <2> HIDE DEF j
    <2>4. Good(pc[t], j, told[t])
      BY <2>3, Stays DEF Good
    <2>5. Placed(pc[t], j)
      BY <2>3, Stays DEF Placed
    <2> QED
      BY <2>1, <2>3, <2>4, <2>5, Stays, TaskMoves
  <1>3. CASE ~(job[t].attempt + 1 < MaxAttempts)
    BY <1>1, <1>3, FailedTasks DEF Unanswered, Goto
  <1> QED
    BY <1>2, <1>3

\* A repository that is given up for the path is one that failed.
LEMMA AbandonTasks ==
    ASSUME TasksOK, NEW t \in Tasks, pc[t] \in {"body", "issues"}, Abandon(t) PROVE TasksOK'
PROOF
  <1> DEFINE r == job[t].repository
             j == [job[t] EXCEPT !.upstreamFailure = TRUE, !.excluded = @ \cup {r}]
             k == [told[t] EXCEPT !.failed = @ \cup {r}]
  <1>1. r \in Repositories
    BY Stays DEF Placed, Job
  <1>2. /\ j \in Job /\ j.excluded = job[t].excluded \cup {r}
        /\ j.negative = job[t].negative /\ j.upstreamFailure = TRUE
    BY <1>1, Stays DEF Job
  <1>3. k \in Known /\ k.absent = told[t].absent /\ k.failed = told[t].failed \cup {r}
    BY <1>1, Stays DEF Known
  <1>4. /\ pc' = [pc EXCEPT ![t] = "ask"] /\ job' = [job EXCEPT ![t] = Round(j)]
        /\ told' = [told EXCEPT ![t] = k]
    BY Stays DEF Abandon, GiveUp, Goto, Set, TasksOK, Known
  <1>5. job[t].excluded \subseteq told[t].failed /\ job[t].negative \subseteq told[t].absent
    BY Stays DEF Good
  <1> HIDE DEF r, j, k
  <1>6. Round(j) \in Job /\ Good("ask", Round(j), k) /\ Placed("ask", Round(j))
    BY <1>2, <1>3, <1>5, RoundGood
  <1> QED
    BY <1>3, <1>4, <1>6, TaskMoves DEF PCs
LEMMA DeliveredTasks ==
    ASSUME TasksOK, NEW t \in Tasks, Delivered(t) PROVE TasksOK'
PROOF
  <1> DEFINE r == job[t].repository
             a == Asking(job[t], "checksum", {r})
             j == [a EXCEPT !.round = @ + 1]
             at == IF ChecksumPath THEN "bundle" ELSE "ask"
  <1>1. /\ pc[t] = "body" /\ pc' = [pc EXCEPT ![t] = at]
        /\ job' = [job EXCEPT ![t] = j] /\ told' = [told EXCEPT ![t] = told[t]]
    BY Stays DEF Delivered, Goto, Set
  <1>2. r \in Repositories /\ job[t].round + 1 \in 0 .. MaxValidations
    BY <1>1, Stays, UpstreamAssumption DEF Placed, Job
  <1>3. /\ a \in Job /\ a.purpose = "checksum" /\ a.queue = {r} /\ a.repository = r
        /\ a.excluded = job[t].excluded /\ a.negative = job[t].negative
        /\ a.round = job[t].round
    BY <1>2, Stays, AttemptsAndRounds DEF Asking, Job
  <1> HIDE DEF a
  <1>4. /\ j \in Job /\ j.purpose = "checksum" /\ j.queue = {r} /\ j.repository = r
        /\ j.excluded = job[t].excluded /\ j.negative = job[t].negative
    BY <1>2, <1>3 DEF Job
  <1>5. r # NoRepository
    BY <1>2, UpstreamAssumption
  <1>6. at \in {"bundle", "ask"} /\ at \in PCs
    BY DEF PCs, Results
  <1> HIDE DEF j, r, at
  <1>7. Good(at, j, told[t])
    BY <1>4, <1>6, Stays DEF Good
  <1>8. Placed(at, j)
    BY <1>4, <1>5, <1>6 DEF Placed
  <1> QED
    BY <1>1, <1>4, <1>6, <1>7, <1>8, Stays, TaskMoves

LEMMA BrokenOffTasks ==
    ASSUME TasksOK, NEW t \in Tasks, BrokenOff(t) PROVE TasksOK'
PROOF
  <1>1. pc[t] = "body"
    BY DEF BrokenOff
  <1>2. CASE job[t].round = 0
    BY <1>1, <1>2, AbandonTasks DEF BrokenOff
  <1>3. CASE job[t].round # 0
    <2>1. Goto(t, "bundle") /\ UNCHANGED <<job, told>>
      BY <1>3 DEF BrokenOff
    <2>2. Good("bundle", job[t], told[t]) /\ Placed("bundle", job[t])
      BY <1>1, Stays DEF Good, Placed
    <2> QED
      BY <2>1, <2>2, OnlyPlace DEF PCs, Results
  <1> QED
    BY <1>2, <1>3

LEMMA ChecksumTasks ==
    ASSUME TasksOK, NEW t \in Tasks, Checksum(t) PROVE TasksOK'
PROOF
  <1>1. PICK at \in {"bundle", "issues"} : Goto(t, at) /\ UNCHANGED <<job, told>>
    BY DEF Checksum
  <1>2. pc[t] = "sum_body"
    BY DEF Checksum
  <1>3. Good(at, job[t], told[t]) /\ Placed(at, job[t])
    BY <1>1, <1>2, Stays DEF Good, Placed
  <1> QED
    BY <1>1, <1>3, OnlyPlace DEF PCs, Results

LEMMA IssuesTasks ==
    ASSUME TasksOK, NEW t \in Tasks, Issues(t) PROVE TasksOK'
PROOF
  <1>1. pc[t] = "issues"
    BY DEF Issues
  <1>2. CASE Goto(t, "bundle") /\ UNCHANGED <<job, told>>
    <2>1. Good("bundle", job[t], told[t]) /\ Placed("bundle", job[t])
      BY <1>1, Stays DEF Good, Placed
    <2> QED
      BY <1>2, <2>1, OnlyPlace DEF PCs, Results
  <1>3. CASE /\ job[t].round < MaxValidations
             /\ Set(t, Asking(job[t], "again", {job[t].repository}))
             /\ Goto(t, "ask") /\ UNCHANGED told
    <2> DEFINE r == job[t].repository
               j == Asking(job[t], "again", {r})
    <2>1. r \in Repositories /\ r # NoRepository
      BY <1>1, Stays DEF Placed, Job
    <2>2. /\ j \in Job /\ j.purpose = "again" /\ j.queue = {r} /\ j.repository = r
          /\ j.excluded = job[t].excluded /\ j.negative = job[t].negative
          /\ j.round = job[t].round
      BY <2>1, Stays, AttemptsAndRounds DEF Asking, Job
    <2>3. /\ pc' = [pc EXCEPT ![t] = "ask"] /\ job' = [job EXCEPT ![t] = j]
          /\ told' = [told EXCEPT ![t] = told[t]]
      BY <1>3, Stays DEF Goto, Set
    <2> HIDE DEF r, j
    <2>4. Good("ask", j, told[t])
      BY <2>2, Stays DEF Good
    <2>5. Placed("ask", j)
      BY <1>3, <2>1, <2>2 DEF Placed
    <2> QED
      BY <2>2, <2>3, <2>4, <2>5, Stays, TaskMoves DEF PCs
  <1>4. CASE Abandon(t)
    BY <1>1, <1>4, AbandonTasks
  <1> QED
    BY <1>2, <1>3, <1>4 DEF Issues

-----------------------------------------------------------------------------
(* Steps of a circuit                                                       *)

\* Whatever a circuit is told, its mode follows from its failures.
LEMMA CircuitMoves ==
    ASSUME NEW c \in Circuit, CircuitOK(c)
    PROVE  /\ CircuitOK(Success(c)) /\ CircuitOK(Failure(c)) /\ CircuitOK(Admitted(c))
           /\ Success(c).mode # "closed" => Success(c) = c
           /\ Failure(c).mode # "closed" => Failure(c) = c \/ Failure(c).age = 0
           /\ Admitted(c).mode # "closed" => Admitted(c).age = 0
           /\ c.mode = "closed" => Admitted(c) = c
PROOF
  <1>1. /\ Threshold \in Nat /\ Threshold > 0 /\ 0 \in 0 .. Threshold /\ Threshold \in 0 .. Threshold
        /\ 0 \in 0 .. Recovery
    BY UpstreamAssumption
  <1>2. CircuitOK(Closed) /\ CircuitOK(Opened) /\ Closed.mode = "closed" /\ Opened.age = 0
    BY <1>1 DEF Closed, Opened, CircuitOK, Circuit
  <1>3. CircuitOK(Success(c)) /\ (Success(c).mode # "closed" => Success(c) = c)
    BY <1>2 DEF Success
  <1>4. /\ CircuitOK(Failure(c))
        /\ Failure(c).mode # "closed" => Failure(c) = c \/ Failure(c).age = 0
    <2>1. CASE c.mode = "closed" /\ c.failures + 1 < Threshold
      <3> DEFINE d == [c EXCEPT !.failures = @ + 1]
      <3>1. c.failures \in Nat /\ c.failures + 1 \in 0 .. Threshold
        BY <2>1, <1>1 DEF Circuit
      <3>2. Failure(c) = d
        BY <2>1, <3>1, <1>1 DEF Failure
      <3>3. d \in Circuit /\ d.mode = "closed" /\ d.failures = c.failures + 1
        BY <2>1, <3>1 DEF Circuit
      <3> QED
        BY <2>1, <3>2, <3>3 DEF CircuitOK
    <2>2. CASE c.mode = "closed" /\ ~(c.failures + 1 < Threshold)
      <3>1. c.failures + 1 >= Threshold
        BY <2>2, <1>1 DEF Circuit
      <3> QED
        BY <2>2, <3>1, <1>2 DEF Failure
    <2>3. CASE c.mode \in {"open", "half_open"}
      BY <2>3, <1>2 DEF Failure
    <2> QED
      BY <2>1, <2>2, <2>3 DEF Circuit
  <1>5. /\ CircuitOK(Admitted(c))
        /\ Admitted(c).mode # "closed" => Admitted(c).age = 0
        /\ c.mode = "closed" => Admitted(c) = c
    BY <1>1 DEF Admitted, CircuitOK, Circuit
  <1> QED
    BY <1>3, <1>4, <1>5

\* One circuit changes; if it stays open, its age is still below the distance
\* from its last probe.
LEMMA CircuitReported ==
    ASSUME CircuitsOK, NEW r \in Repositories, NEW c, CircuitOK(c), circuit' = [circuit EXCEPT ![r] = c],
           sinceProbe' \in [Repositories -> 0 .. Recovery],
           \A s \in Repositories \ {r} : sinceProbe'[s] = sinceProbe[s],
           c.mode # "closed" => c.age <= sinceProbe'[r]
    PROVE  CircuitsOK'
PROOF
  <1>1. /\ circuit' \in [Repositories -> Circuit] /\ circuit'[r] = c
        /\ \A s \in Repositories \ {r} : circuit'[s] = circuit[s]
    BY DEF CircuitsOK, CircuitOK
  <1> QED
    BY <1>1 DEF CircuitsOK

\* The outcome of a request is reported, late or not.
LEMMA OutcomeReported ==
    ASSUME CircuitsOK, NEW r \in Repositories, UNCHANGED sinceProbe,
           Report(r, Success(circuit[r])) \/ Report(r, Failure(circuit[r]))
    PROVE  CircuitsOK'
PROOF
  <1> DEFINE c == circuit[r]
  <1>1. /\ c \in Circuit /\ CircuitOK(c)
        /\ c.mode # "closed" => c.age <= sinceProbe[r]
        /\ sinceProbe[r] \in 0 .. Recovery
    BY DEF CircuitsOK
  <1>2. PICK d \in {Success(c), Failure(c)} : circuit' = [circuit EXCEPT ![r] = d]
    BY DEF Report
  <1> HIDE DEF c
  <1>3. CircuitOK(d) /\ (d.mode # "closed" => d.age <= sinceProbe[r])
    BY <1>1, <1>2, CircuitMoves
  <1> QED
    BY <1>2, <1>3, CircuitReported DEF CircuitsOK

LEMMA AskCircuits ==
    ASSUME CircuitsOK, NEW t \in Tasks, NEW r \in Repositories, Ask(t, r) PROVE CircuitsOK'
PROOF
  <1>1. CASE Allow(circuit[r])
    <2> DEFINE c == circuit[r]
    <2>1. c \in Circuit /\ CircuitOK(c) /\ sinceProbe[r] \in 0 .. Recovery
      BY DEF CircuitsOK
    <2>2. /\ circuit' = [circuit EXCEPT ![r] = Admitted(c)]
          /\ sinceProbe' = IF c.mode = "closed" THEN sinceProbe ELSE [sinceProbe EXCEPT ![r] = 0]
      BY <1>1 DEF Ask, Report
    <2>3. CircuitOK(Admitted(c)) /\ (Admitted(c).mode # "closed" => Admitted(c).age = 0)
      BY <2>1, CircuitMoves
    <2> HIDE DEF c
    <2>4. /\ sinceProbe' \in [Repositories -> 0 .. Recovery]
          /\ \A s \in Repositories \ {r} : sinceProbe'[s] = sinceProbe[s]
          /\ sinceProbe'[r] >= 0
      BY <2>1, <2>2, UpstreamAssumption DEF CircuitsOK
    <2> QED
      BY <2>2, <2>3, <2>4, CircuitReported
  <1>2. CASE ~Allow(circuit[r])
    BY <1>2 DEF Ask, CircuitsOK
  <1> QED
    BY <1>1, <1>2

\* What a repository delivers or fails to deliver is reported to its circuit.
LEMMA BodyCircuits ==
    ASSUME TasksOK, CircuitsOK, NEW t \in Tasks, Body(t) PROVE CircuitsOK'
PROOF
  <1>1. UNCHANGED sinceProbe /\ pc[t] \in {"body", "sum_body", "issues"}
    BY DEF Body, Delivered, BrokenOff, Checksum, Issues
  <1>2. job[t].repository \in Repositories
    BY <1>1, Stays DEF Placed, Job
  <1>3. \/ UNCHANGED circuit
        \/ Report(job[t].repository, Success(circuit[job[t].repository]))
        \/ Report(job[t].repository, Failure(circuit[job[t].repository]))
    BY DEF Body, Delivered, BrokenOff, Checksum, Issues, Abandon
  <1>4. CASE UNCHANGED circuit
    BY <1>1, <1>4 DEF CircuitsOK
  <1> QED
    BY <1>1, <1>2, <1>3, <1>4, OutcomeReported

LEMMA TickCircuits ==
    ASSUME CircuitsOK, Tick PROVE CircuitsOK'
PROOF
  <1>1. ASSUME NEW r \in Repositories
        PROVE  /\ circuit'[r] \in Circuit /\ CircuitOK(circuit'[r])
               /\ sinceProbe'[r] \in 0 .. Recovery
               /\ circuit'[r].mode # "closed" => circuit'[r].age <= sinceProbe'[r]
    <2> DEFINE c == circuit[r]
               d == circuit'[r]
    <2>1. /\ c \in Circuit /\ CircuitOK(c) /\ sinceProbe[r] \in 0 .. Recovery
          /\ c.mode # "closed" => c.age <= sinceProbe[r]
          /\ c.age \in 0 .. Recovery /\ Recovery \in Nat
      BY UpstreamAssumption DEF CircuitsOK, Circuit
    <2>2. /\ d = IF c.mode = "closed" THEN c ELSE [c EXCEPT !.age = Ticked(@, Recovery)]
          /\ sinceProbe'[r] = Ticked(sinceProbe[r], Recovery)
      BY DEF Tick
    <2> HIDE DEF c, d
    <2>3. /\ Ticked(sinceProbe[r], Recovery) \in 0 .. Recovery
          /\ Ticked(sinceProbe[r], Recovery) >= sinceProbe[r]
          /\ Ticked(c.age, Recovery) \in 0 .. Recovery
          /\ c.age <= sinceProbe[r] => Ticked(c.age, Recovery) <= Ticked(sinceProbe[r], Recovery)
      BY <2>1 DEF Ticked
    <2>4. CASE c.mode = "closed"
      BY <2>1, <2>2, <2>3, <2>4 DEF d
    <2>5. CASE c.mode # "closed"
      <3>1. d = [c EXCEPT !.age = Ticked(c.age, Recovery)]
        BY <2>2, <2>5
      <3>2. /\ d \in Circuit /\ d.mode = c.mode /\ d.failures = c.failures
            /\ d.age = Ticked(c.age, Recovery)
        BY <2>1, <2>3, <3>1 DEF Circuit
      <3> QED
        BY <2>1, <2>2, <2>3, <2>5, <3>2 DEF CircuitOK, d
    <2> QED
      BY <2>4, <2>5
  <1>2. /\ circuit' = [r \in Repositories |-> circuit'[r]]
        /\ sinceProbe' = [r \in Repositories |-> sinceProbe'[r]]
    BY DEF Tick
  <1> QED
    BY <1>1, <1>2 DEF CircuitsOK
-----------------------------------------------------------------------------
(* The invariant is inductive                                               *)

\* What the step of a task leaves alone.
LEMMA TaskFrame ==
    ASSUME NEW t \in Tasks, TaskStep(t)
    PROVE  /\ UNCHANGED <<down, cancels>>
           /\ UNCHANGED negative \/ Expire(t) \/ Remember(t) \/ Forget(t)
PROOF
  <1>1. CASE Expire(t) \/ Remember(t) \/ Forget(t)
    BY <1>1 DEF Expire, Remember, Forget
  <1>2. CASE \E r \in Repositories : Ask(t, r)
    BY <1>2 DEF Ask
  <1>3. CASE Conclude(t) \/ Finish(t)
    BY <1>3 DEF Conclude, Finish
  <1>4. CASE Answered(t)
    BY <1>4 DEF Answered, Found, NotModified, NotFound, Rejected, Unanswered
  <1>5. CASE Body(t)
    BY <1>5 DEF Body, Delivered, BrokenOff, Checksum, Issues
  <1> QED
    BY <1>1, <1>2, <1>3, <1>4, <1>5 DEF TaskStep

\* What no task and no circuit depends on.
LEMMA OthersMove ==
    ASSUME TasksOK, OthersOK, [Next]_vars PROVE OthersOK'
PROOF
  <1>1. /\ NegativeTTL \in Nat /\ 0 \in 0 .. NegativeTTL /\ MaxCancels \in Nat
    BY UpstreamAssumption
  <1>2. \A n \in 0 .. NegativeTTL : Ticked(n, NegativeTTL) \in 0 .. NegativeTTL
    BY <1>1 DEF Ticked
  <1>3. negative' \in [Repositories -> (0 .. NegativeTTL) \cup {NoEntry}]
    <2>1. CASE UNCHANGED negative
      BY <2>1 DEF OthersOK
    <2>2. ASSUME NEW t \in Tasks, Expire(t) \/ Remember(t) \/ Forget(t)
          PROVE  negative' \in [Repositories -> (0 .. NegativeTTL) \cup {NoEntry}]
      BY <2>2, <1>1 DEF Expire, Remember, Forget, OthersOK
    <2>3. CASE Tick
      BY <2>3, <1>2 DEF Tick, OthersOK
    <2> QED
      BY <2>1, <2>2, <2>3, TaskFrame DEF Next, vars, Begin, Cancel, Upstream
  <1>4. down' \subseteq Repositories
    <2>1. CASE UNCHANGED down
      BY <2>1 DEF OthersOK
    <2>2. ASSUME NEW r \in Repositories, Upstream(r) PROVE down' \subseteq Repositories
      BY <2>2 DEF Upstream, OthersOK
    <2> QED
      BY <2>1, <2>2, TaskFrame DEF Next, vars, Begin, Cancel, Tick
  <1>5. cancels' \in 0 .. MaxCancels
    <2>1. CASE UNCHANGED cancels
      BY <2>1 DEF OthersOK
    <2>2. ASSUME NEW t \in Clients, Cancel(t) PROVE cancels' \in 0 .. MaxCancels
      BY <2>2, <1>1 DEF Cancel, OthersOK
    <2> QED
      BY <2>1, <2>2, TaskFrame DEF Next, vars, Begin, Upstream, Tick
  <1> QED
    BY <1>3, <1>4, <1>5 DEF OthersOK

LEMMA TasksMove ==
    ASSUME TasksOK, [Next]_vars PROVE TasksOK'
PROOF
  <1>1. ASSUME NEW t \in Tasks, TaskStep(t) PROVE TasksOK'
    <2>1. CASE Expire(t) \/ Remember(t) \/ Forget(t) \/ Conclude(t)
      BY <2>1, ExpireTasks, RememberTasks, ForgetTasks, ConcludeTasks
    <2>2. ASSUME NEW r \in Repositories, Ask(t, r) PROVE TasksOK'
      BY <2>2, AskTasks
    <2>3. CASE Answered(t)
      BY <2>3, FoundTasks, NotModifiedTasks, NotFoundTasks, RejectedTasks, UnansweredTasks
         DEF Answered
    <2>4. CASE Body(t)
      BY <2>4, DeliveredTasks, BrokenOffTasks, ChecksumTasks, IssuesTasks DEF Body
    <2>5. CASE Finish(t)
      BY <2>5, IdleAgain DEF Finish
    <2> QED
      BY <1>1, <2>1, <2>2, <2>3, <2>4, <2>5 DEF TaskStep
  <1>2. ASSUME NEW t \in Clients, Cancel(t) PROVE TasksOK'
    BY <1>2, IdleAgain DEF Cancel, Tasks
  <1>3. CASE UNCHANGED <<pc, job, told>>
    BY <1>3 DEF TasksOK
  <1> QED
    BY <1>1, <1>2, <1>3, BeginTasks DEF Next, vars, Upstream, Tick

LEMMA CircuitsMove ==
    ASSUME TasksOK, CircuitsOK, [Next]_vars PROVE CircuitsOK'
PROOF
  <1>1. ASSUME NEW t \in Tasks, TaskStep(t) PROVE CircuitsOK'
    <2>1. ASSUME NEW r \in Repositories, Ask(t, r) PROVE CircuitsOK'
      BY <2>1, AskCircuits
    <2>2. ASSUME NEW r \in Repositories,
                 NotModified(t, r) \/ NotFound(t, r) \/ Rejected(t, r) \/ Unanswered(t, r)
          PROVE  CircuitsOK'
      <3>1. /\ UNCHANGED sinceProbe
            /\ \/ UNCHANGED circuit
               \/ Report(r, Success(circuit[r])) \/ Report(r, Failure(circuit[r]))
        BY <2>2 DEF NotModified, NotFound, Rejected, Unanswered
      <3>2. CASE UNCHANGED circuit
        BY <3>1, <3>2 DEF CircuitsOK
      <3> QED
        BY <3>1, <3>2, OutcomeReported
    <2>3. CASE Body(t)
      BY <2>3, BodyCircuits
    <2>4. CASE UNCHANGED <<circuit, sinceProbe>>
      BY <2>4 DEF CircuitsOK
    <2> QED
      BY <1>1, <2>1, <2>2, <2>3, <2>4 DEF TaskStep, Answered, Expire, Remember, Forget,
         Conclude, Found, Finish
  <1>2. CASE UNCHANGED <<circuit, sinceProbe>>
    BY <1>2 DEF CircuitsOK
  <1> QED
    BY <1>1, <1>2, TickCircuits DEF Next, vars, Begin, Cancel, Upstream

LEMMA InitIInv == Init => IInv
PROOF
  <1> SUFFICES ASSUME Init PROVE IInv
    OBVIOUS
  <1>1. TasksOK
    BY NoJobGood DEF Init, TasksOK, PCs, Known
  <1>2. CircuitOK(Closed) /\ Closed.mode = "closed" /\ Recovery \in 0 .. Recovery
    BY UpstreamAssumption DEF Closed, CircuitOK, Circuit
  <1>3. CircuitsOK
    BY <1>2 DEF Init, CircuitsOK, CircuitOK
  <1>4. OthersOK
    BY UpstreamAssumption DEF Init, OthersOK
  <1> QED
    BY <1>1, <1>3, <1>4 DEF IInv

LEMMA NextIInv == IInv /\ [Next]_vars => IInv'
PROOF
  BY TasksMove, CircuitsMove, OthersMove DEF IInv

LEMMA Invariant == Spec => []IInv
PROOF
  BY InitIInv, NextIInv, PTL DEF Spec

-----------------------------------------------------------------------------
(* The properties                                                           *)

\* Types, and a circuit is closed exactly as long as its failures are below the
\* threshold, whichever outcomes of older requests it is told.
THEOREM UpstreamTyped == Spec => []TypeOK
PROOF
  <1>1. IInv => TypeOK
    BY DEF IInv, TasksOK, CircuitsOK, CircuitOK, OthersOK, TypeOK, Known
  <1> QED
    BY <1>1, Invariant, PTL

\* A client gets 404 only if every candidate said 404, now or within the negative
\* TTL before, through any rounds of fallback.
THEOREM NotFoundConfirmed == Spec => []NotFoundIsConfirmed
PROOF
  <1>1. IInv => NotFoundIsConfirmed
    BY DEF IInv, TasksOK, Good, NotFoundIsConfirmed
  <1> QED
    BY <1>1, Invariant, PTL

\* A download gives up only when every candidate failed or has not got the path.
THEOREM SourcesTried == Spec => []EverySourceTried
PROOF
  <1>1. IInv => EverySourceTried
    BY DEF IInv, TasksOK, Good, EverySourceTried
  <1> QED
    BY <1>1, Invariant, PTL

\* A search asks one repository at a time.
LEMMA OneFirst ==
    ASSUME TasksOK, NEW t \in Tasks, NEW r \in First(job[t]), NEW s \in First(job[t])
    PROVE  r = s
PROOF
  <1>1. CASE job[t].preferred \in job[t].queue
    BY <1>1 DEF First
  <1>2. CASE job[t].preferred \notin job[t].queue
    <2>1. r \in job[t].queue /\ s \in job[t].queue /\ Position[r] <= Position[s] /\ Position[s] <= Position[r]
      BY <1>2 DEF First
    <2>2. CASE job[t].purpose # "main"
      BY <2>1, <2>2, Stays DEF Placed
    <2>3. CASE job[t].purpose = "main"
      <3>1. r \in Candidates /\ s \in Candidates
        BY <1>2, <2>1, <2>3, Stays DEF Placed
      <3>2. \A q \in Candidates :
                Position[q] \in DOMAIN Order /\ Order[Position[q]] = q
        BY DEF Position, Candidates, ToSet
      <3>3. DOMAIN Order \subseteq Nat
        BY UpstreamAssumption
      <3>4. Position[r] = Position[s]
        BY <2>1, <3>1, <3>2, <3>3
      <3> QED
        BY <3>1, <3>2, <3>4
    <2> QED
      BY <2>2, <2>3
  <1> QED
    BY <1>1, <1>2

\* Only Ask sends a request.
LEMMA OnlyAskSends ==
    ASSUME TasksOK, [Next]_vars, NEW t \in Tasks, pc[t] = "ask", pc'[t] = "sent"
    PROVE  \E r \in Repositories : Ask(t, r) /\ Allow(circuit[r])
PROOF
  <1>1. ASSUME NEW u \in Tasks, u # t, NEW at, Goto(u, at) PROVE FALSE
    BY <1>1 DEF Goto, TasksOK
  <1>2. ASSUME NEW at, at # "sent", Goto(t, at) PROVE FALSE
    BY <1>2 DEF Goto, TasksOK
  <1>3. pc' # pc
    OBVIOUS
  <1>4. ASSUME NEW u \in Tasks, Begin(u) \/ Cancel(u) \/ Finish(u) PROVE FALSE
    <2>1. PICK at \in {"ask", "expire", "idle"} : Goto(u, at)
      BY <1>4 DEF Begin, Cancel, Finish
    <2> QED
      BY <2>1, <1>1, <1>2
  <1>5. ASSUME NEW u \in Tasks, Expire(u) \/ Remember(u) \/ Forget(u) \/ Conclude(u) PROVE FALSE
    <2>1. PICK at \in PCs \ {"sent"} : Goto(u, at)
      BY <1>5 DEF Expire, Remember, Forget, Conclude, Result, PCs, Results
    <2> QED
      BY <2>1, <1>1, <1>2
  <1>6. ASSUME NEW u \in Tasks, Answered(u) PROVE FALSE
    <2>1. PICK at \in PCs \ {"sent"} : Goto(u, at)
      <3>1. ASSUME NEW r \in Repositories, NotModified(u, r)
            PROVE  \E at \in PCs \ {"sent"} : Goto(u, at)
        BY <3>1 DEF NotModified, PCs, Results
      <3> QED
        BY <1>3, <1>6, <3>1 DEF Answered, Found, NotFound, Rejected, Unanswered, PCs
    <2> QED
      BY <2>1, <1>1, <1>2
  <1>7. ASSUME NEW u \in Tasks, Body(u) PROVE FALSE
    <2>1. PICK at \in PCs \ {"sent"} : Goto(u, at)
      BY <1>7 DEF Body, Delivered, BrokenOff, Checksum, Issues, Abandon, PCs, Results
    <2> QED
      BY <2>1, <1>1, <1>2
  <1>8. ASSUME NEW u \in Tasks, NEW r \in Repositories, Ask(u, r)
        PROVE  Ask(t, r) /\ Allow(circuit[r])
    <2>1. Allow(circuit[r]) /\ Goto(u, "sent")
      BY <1>3, <1>8 DEF Ask
    <2> QED
      BY <2>1, <1>1, <1>8
  <1> QED
    BY <1>3, <1>4, <1>5, <1>6, <1>7, <1>8 DEF Next, vars, TaskStep, Upstream, Tick, Tasks

\* Two requests that a circuit which is not closed lets through are at least a
\* recovery timeout apart, whatever was reported late or dropped in between.
THEOREM ProbesKeepDistance == Spec => ProbesSpaced
PROOF
  <1>1. ASSUME IInv, [Next]_vars, NEW r \in Repositories, Probes(r)
        PROVE  sinceProbe[r] = Recovery
    <2>1. PICK t \in Tasks : pc[t] = "ask" /\ pc'[t] = "sent" /\ r \in First(job[t])
      BY <1>1 DEF Probes
    <2>2. PICK s \in Repositories : Ask(t, s) /\ Allow(circuit[s])
      BY <1>1, <2>1, OnlyAskSends DEF IInv
    <2>3. s = r
      BY <1>1, <2>1, <2>2, OneFirst DEF IInv, Ask
    <2>4. circuit[r].age = Recovery
      BY <1>1, <2>2, <2>3 DEF Probes, Allow
    <2>5. circuit[r].age <= sinceProbe[r] /\ sinceProbe[r] \in 0 .. Recovery /\ Recovery \in Nat
      BY <1>1, UpstreamAssumption DEF Probes, IInv, CircuitsOK
    <2> QED
      BY <2>4, <2>5
  <1>2. IInv /\ [Next]_vars => [\A r \in Repositories : Probes(r) => sinceProbe[r] = Recovery]_vars
    BY <1>1
  <1> QED
    BY <1>2, Invariant, PTL DEF Spec, ProbesSpaced
=============================================================================
