------------------------------- MODULE Admission -------------------------------
(***************************************************************************)
(* What the request scheduler (src/src/upstream.rs) promises to the tasks  *)
(* that ask it for permits, without its queues, its counts, its mutex and  *)
(* its loop: a task that waits may be admitted as long as the permits in   *)
(* use, of all repositories and of its own, are fewer than their limits.   *)
(***************************************************************************)
EXTENDS Naturals, FiniteSets

CONSTANTS Tasks, Repositories, GlobalLimit, RepositoryLimit

VARIABLES
    state,     \* whether a task is idle, waits for a permit or has one
    asksFor    \* the repository it asked for last

Admitted == {t \in Tasks : state[t] = "admitted"}
AdmittedTo(r) == {t \in Admitted : asksFor[t] = r}

Init ==
    /\ state = [t \in Tasks |-> "idle"]
    /\ asksFor \in [Tasks -> Repositories]

Ask(t, r) ==
    /\ state[t] = "idle"
    /\ state' = [state EXCEPT ![t] = "waiting"]
    /\ asksFor' = [asksFor EXCEPT ![t] = r]

Admit(t) ==
    /\ state[t] = "waiting"
    /\ Cardinality(Admitted) < GlobalLimit
    /\ Cardinality(AdmittedTo(asksFor[t])) < RepositoryLimit[asksFor[t]]
    /\ state' = [state EXCEPT ![t] = "admitted"]
    /\ UNCHANGED asksFor

\* The task has its response, or no longer wants one.
GiveBack(t) ==
    /\ state[t] # "idle"
    /\ state' = [state EXCEPT ![t] = "idle"]
    /\ UNCHANGED asksFor

Next ==
    \E t \in Tasks :
        \/ \E r \in Repositories : Ask(t, r)
        \/ Admit(t)
        \/ GiveBack(t)

Spec == Init /\ [][Next]_<<state, asksFor>>
================================================================================
