--------------------------- MODULE RequestScheduler ---------------------------
(***************************************************************************)
(* The admission of upstream requests (src/src/upstream.rs): a global      *)
(* limit, a limit per repository, and two queues, of first-time downloads  *)
(* (foreground) and of cache refreshes (background).                       *)
(*                                                                         *)
(* The state lies behind one mutex.  acquire and release change it and     *)
(* then hold the mutex through the loop of schedule; each iteration of the *)
(* loop is a step here, so that a receiver can be dropped, which needs no  *)
(* mutex, between any two of them.  A granted permit belongs to its task   *)
(* from the send on, received or not.                                      *)
(***************************************************************************)
EXTENDS Naturals, Sequences, SequencesExt, FiniteSets, FiniteSetsExt

CONSTANTS
    Foreground,       \* client tasks: their handler may be dropped while it waits
    Background,       \* refresh tasks: detached, never dropped
    Repositories,
    GlobalLimit,      \* upstream.max_concurrency
    RepositoryLimit,  \* max_concurrency of each repository
    Burst             \* upstream.foreground_priority_burst

Tasks == Foreground \cup Background

ASSUME LimitsAssumption ==
    /\ IsFiniteSet(Foreground) /\ IsFiniteSet(Background)
    /\ Foreground \cap Background = {}
    /\ Repositories # {}
    /\ GlobalLimit \in Nat \ {0} /\ Burst \in Nat \ {0}
    /\ RepositoryLimit \in [Repositories -> Nat \ {0}]

VARIABLES
    pc,                     \* where each task is with its request
    repository,             \* the repository each task asks for
    foreground, background, \* the queues of waiters, each the task it belongs to
    globalInUse, repositoryInUse,
    consecutiveForeground,
    scheduling,             \* the mutex is held by a schedule loop
    sinceBackground         \* history: foreground grants since the last background one

vars == <<pc, repository, foreground, background, globalInUse, repositoryInUse,
          consecutiveForeground, scheduling, sinceBackground>>

PCs == {"idle", "waiting", "dropped", "holding"}

Queued == {t \in Tasks : pc[t] \in {"waiting", "dropped"}}
Holding == {t \in Tasks : pc[t] = "holding"}
HoldingAt(r) == {t \in Holding : repository[t] = r}

-----------------------------------------------------------------------------
\* eligible_index: the first waiter whose repository has room.  (Mutants: only
\* the head of the queue is looked at; the last one found is taken; the limit of
\* a repository is passed by one.)
RoomByOne(r) == repositoryInUse[r] <= RepositoryLimit[r]
Room(r) == repositoryInUse[r] < RepositoryLimit[r]
EligibleHeadOnly(queue) == {i \in DOMAIN queue : i = 1 /\ Room(repository[queue[i]])}
Eligible(queue) == {i \in DOMAIN queue : Room(repository[queue[i]])}
EligibleIndexLast(queue) == Max(Eligible(queue))
EligibleIndex(queue) == Min(Eligible(queue))

\* Whose turn it is when both queues have an eligible waiter.
BackgroundTurn == consecutiveForeground >= Burst

\* (Mutant: the global limit is passed by one.)
GlobalRoomByOne == globalInUse <= GlobalLimit
GlobalRoom == globalInUse < GlobalLimit

\* RequestPriority: client tasks download, refresh tasks refresh.  (Mutant: a
\* refresh asks with the priority of a download.)
IsForegroundAlways(t) == TRUE
IsForeground(t) == t \in Foreground

\* acquire: a waiter enters the queue of its priority, and the scheduler runs.
Acquire(t, r) ==
    /\ pc[t] = "idle" /\ ~scheduling
    /\ pc' = [pc EXCEPT ![t] = "waiting"]
    /\ repository' = [repository EXCEPT ![t] = r]
    /\ IF IsForeground(t)
       THEN foreground' = Append(foreground, t) /\ UNCHANGED background
       ELSE background' = Append(background, t) /\ UNCHANGED foreground
    /\ scheduling' = TRUE
    /\ UNCHANGED <<globalInUse, repositoryInUse, consecutiveForeground, sinceBackground>>

\* What the counts become when a permit for r is sent to t: a receiver that was
\* dropped gives it back at once.  (Mutant: only the global count is restored.)
CountsKept(t, r) ==
    /\ globalInUse' = IF pc[t] = "waiting" THEN globalInUse + 1 ELSE globalInUse
    /\ repositoryInUse' = [repositoryInUse EXCEPT ![r] = @ + 1]
Counts(t, r) ==
    IF pc[t] = "waiting"
    THEN /\ globalInUse' = globalInUse + 1
         /\ repositoryInUse' = [repositoryInUse EXCEPT ![r] = @ + 1]
    ELSE UNCHANGED <<globalInUse, repositoryInUse>>

Send(t) ==
    /\ Counts(t, repository[t])
    /\ pc' = [pc EXCEPT ![t] = IF @ = "waiting" THEN "holding" ELSE "idle"]

\* A foreground waiter is chosen.  The burst counts the grants that passed over
\* an eligible background waiter.
Passing == Eligible(background) # {}

GrantForeground ==
    LET i == EligibleIndex(foreground)
        t == foreground[i]
    IN
    /\ scheduling /\ GlobalRoom
    /\ Eligible(foreground) # {}
    /\ Eligible(background) = {} \/ ~BackgroundTurn
    /\ foreground' = RemoveAt(foreground, i)
    /\ Send(t)
    /\ IF pc[t] # "waiting"
       THEN UNCHANGED <<consecutiveForeground, sinceBackground>>
       ELSE /\ consecutiveForeground' = IF Passing THEN consecutiveForeground + 1 ELSE 0
            /\ sinceBackground' = Min({Burst, sinceBackground + 1})
    /\ UNCHANGED <<repository, background, scheduling>>

\* What a background grant leaves of the burst.  (Mutant: it is not reset.)
ConsecutiveKept == consecutiveForeground
ConsecutiveReset == 0

GrantBackground ==
    LET i == EligibleIndex(background)
        t == background[i]
    IN
    /\ scheduling /\ GlobalRoom
    /\ Eligible(background) # {}
    /\ Eligible(foreground) = {} \/ BackgroundTurn
    /\ background' = RemoveAt(background, i)
    /\ Send(t)
    /\ IF pc[t] # "waiting"
       THEN UNCHANGED <<consecutiveForeground, sinceBackground>>
       ELSE consecutiveForeground' = ConsecutiveReset /\ sinceBackground' = 0
    /\ UNCHANGED <<repository, foreground, scheduling>>

\* The loop ends and the mutex is released.
EndSchedule ==
    /\ scheduling
    /\ ~GlobalRoom \/ Eligible(foreground) \cup Eligible(background) = {}
    /\ scheduling' = FALSE
    /\ UNCHANGED <<pc, repository, foreground, background, globalInUse, repositoryInUse,
                   consecutiveForeground, sinceBackground>>

\* A permit is dropped: at the end of a response body, of an attempt, or with
\* the channel of a receiver that never looked.  (Mutant: the release does not
\* run the scheduler.)
WakeNobody == FALSE
WakeWaiters == TRUE

Release(t) ==
    /\ pc[t] = "holding" /\ ~scheduling
    /\ pc' = [pc EXCEPT ![t] = "idle"]
    /\ globalInUse' = globalInUse - 1
    /\ repositoryInUse' = [repositoryInUse EXCEPT ![repository[t]] = @ - 1]
    /\ scheduling' = WakeWaiters
    /\ UNCHANGED <<repository, foreground, background, consecutiveForeground, sinceBackground>>

\* The receiver of a queued waiter is dropped with the task of its client.  The
\* waiter stays in its queue.
DropReceiver(t) ==
    /\ pc[t] = "waiting"
    /\ pc' = [pc EXCEPT ![t] = "dropped"]
    /\ UNCHANGED <<repository, foreground, background, globalInUse, repositoryInUse,
                   consecutiveForeground, scheduling, sinceBackground>>

-----------------------------------------------------------------------------
Init ==
    /\ pc = [t \in Tasks |-> "idle"]
    /\ repository \in [Tasks -> Repositories]
    /\ foreground = <<>> /\ background = <<>>
    /\ globalInUse = 0
    /\ repositoryInUse = [r \in Repositories |-> 0]
    /\ consecutiveForeground = 0
    /\ scheduling = FALSE
    /\ sinceBackground = 0

Schedule == GrantForeground \/ GrantBackground \/ EndSchedule

Next ==
    \/ \E t \in Tasks, r \in Repositories : Acquire(t, r)
    \/ \E t \in Tasks : Release(t)
    \/ \E t \in Foreground : DropReceiver(t)
    \/ Schedule

Spec == Init /\ [][Next]_vars

\* The thread in the loop goes on, and every permit is dropped some day (requests
\* have timeouts): its task gets the mutex, which nobody keeps.
FairSpec ==
    /\ Spec
    /\ WF_vars(Schedule)
    /\ \A t \in Tasks : SF_vars(Release(t))

-----------------------------------------------------------------------------
(* Properties                                                               *)

TypeOK ==
    /\ pc \in [Tasks -> PCs]
    /\ repository \in [Tasks -> Repositories]
    /\ foreground \in Seq(Foreground) /\ background \in Seq(Background)
    /\ globalInUse \in Nat
    /\ repositoryInUse \in [Repositories -> Nat]
    /\ consecutiveForeground \in Nat
    /\ scheduling \in BOOLEAN
    /\ sinceBackground \in 0 .. Burst

\* The counts are those of the permits that exist ("request permit count is
\* balanced", upstream.rs:173-180), whichever waiters were dropped in between.
PermitsBalanced ==
    /\ globalInUse = Cardinality(Holding)
    /\ \A r \in Repositories : repositoryInUse[r] = Cardinality(HoldingAt(r))

\* README: "Upstream requests are bounded by a global concurrency limit and a
\* per-repository limit": the requests in flight, not the counts of them.
LimitsRespected ==
    /\ Cardinality(Holding) <= GlobalLimit
    /\ \A r \in Repositories : Cardinality(HoldingAt(r)) <= RepositoryLimit[r]

\* No permit lies idle: when the mutex is free, every queued waiter is kept out
\* by a limit that is reached, so no wakeup was lost.
WorkConserving ==
    scheduling \/ \A t \in Queued :
        \/ Cardinality(Holding) = GlobalLimit
        \/ Cardinality(HoldingAt(repository[t])) = RepositoryLimit[repository[t]]

\* A refresh passes a first-time download that could have been served only
\* after Burst grants of first-time downloads in a row.
RefreshWaitsItsTurn ==
    [][Len(background') < Len(background) /\ Eligible(foreground) # {}
          => sinceBackground = Burst]_vars

\* A dropped receiver is no longer a request, although its waiter stays queued.
AdmissionOf(at) ==
    CASE at \in {"idle", "dropped"} -> "idle"
      [] at = "waiting" -> "waiting"
      [] at = "holding" -> "admitted"
AdmissionState == [t \in Tasks |-> AdmissionOf(pc[t])]

Abstract == INSTANCE Admission WITH state <- AdmissionState, asksFor <- repository

\* The scheduler implements Admission: with its queues, its burst, its counts and
\* the waiters nobody waits for any more, it admits only whom the limits admit,
\* and takes a permit from nobody.
ImplementsAdmission == Abstract!Spec

\* Requests of one priority for one repository are served in their order.
Served(t) == pc[t] = "waiting" /\ pc'[t] = "holding"
InOrder(queue) ==
    \A i, j \in DOMAIN queue :
        i < j /\ Served(queue[j]) => repository[queue[i]] # repository[queue[j]]
FirstComeFirstServed == [][InOrder(foreground) /\ InOrder(background)]_vars

\* A request for a repository that the global limit alone restrains is served,
\* also a refresh under a constant load of first-time downloads.
Unrestrained(t) == RepositoryLimit[repository[t]] >= GlobalLimit
UnrestrainedServed ==
    \A t \in Tasks : pc[t] = "waiting" /\ Unrestrained(t) ~> pc[t] # "waiting"

\* README: "the scheduler prioritizes first-time downloads while periodically
\* leaving room for cache refreshes": every refresh is served.
RefreshesServed == \A t \in Background : pc[t] = "waiting" ~> pc[t] # "waiting"
=============================================================================
