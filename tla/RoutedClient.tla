------------------------------ MODULE RoutedClient ------------------------------
(***************************************************************************)
(* UpstreamClient with the candidates that Routing finds: a search asks    *)
(* the repositories of a configuration by their rules                      *)
(* (UpstreamClient::fetch and refresh in src/src/upstream.rs, candidates   *)
(* in src/src/routing.rs).                                                 *)
(***************************************************************************)
EXTENDS UpstreamClient, Routing

CONSTANTS
    Configured,    \* the repositories in configuration order
    RulesOf,       \* the rules of each
    Path           \* the path that is asked for

Rules == [include : BOOLEAN, pattern : Patterns]

\* A configuration names a repository once (config.rs); what is left of it for the
\* path keeps its order.
ASSUME RoutedAssumption ==
    /\ Configured \in Seq(ToSet(Configured)) /\ Path \in Paths
    /\ \A i \in DOMAIN Configured : RulesOf[Configured[i]] \in Seq(Rules)
    /\ \A i, k \in DOMAIN Configured : Configured[i] = Configured[k] => i = k
    /\ Candidates = {r \in ToSet(Configured) : Participates(RulesOf[r], Path)}
    /\ \A i, k \in DOMAIN Order : i < k =>
          \E m, n \in DOMAIN Configured :
             m < n /\ Configured[m] = Order[i] /\ Configured[n] = Order[k]

\* Bound: the rules do without `**/`, which the code reads in a way of its own.
PlainRules ==
    \A i \in DOMAIN Configured : \A n \in DOMAIN RulesOf[Configured[i]] :
        Plain(RulesOf[Configured[i]][n].pattern)

\* Those whom the rules include, by the reference.
Participants == {i \in DOMAIN Configured : Included(RulesOf[Configured[i]], Path)}

\* README: "Repositories are tried in configuration order", and "the first matching
\* rule determines whether the repository participates": in every round, whoever is
\* asked for the path is included by its rules, and all the included ones configured
\* before it have failed or said 404 to this download; a download that gives up has
\* missed no included one.  The repository that a refreshed file came from is asked
\* first, whatever its rules say now.
RoutedByRules ==
    PlainRules => \A t \in Tasks :
        /\ pc[t] = "sent" /\ job[t].purpose = "main" => \A r \in First(job[t]) :
              r = job[t].preferred \/ \E i \in Participants :
                  /\ Configured[i] = r
                  /\ \A k \in Participants : k < i =>
                        Configured[k] \in told[t].absent \cup told[t].failed
        /\ pc[t] \in {"not_found", "gateway"} => \A i \in Participants :
              Configured[i] \in told[t].absent \cup told[t].failed
================================================================================
