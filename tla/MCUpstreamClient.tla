--------------------------- MODULE MCUpstreamClient ---------------------------
(***************************************************************************)
(* Instances of UpstreamClient for TLC, with the candidates that Routing   *)
(* finds for a path.                                                       *)
(***************************************************************************)
EXTENDS RoutedClient, TLC

CONSTANTS c1, c2, u1, a, b, c

Include(pattern) == [include |-> TRUE, pattern |-> pattern]
Exclude(pattern) == [include |-> FALSE, pattern |-> pattern]

\* The path a/a, asked of a repository that keeps to other paths, one that a rule
\* for its first segment alone would exclude, and one that a later rule excludes.
AllConfigured == <<c, a, b>>
RulesOfAll ==
    c :> <<Exclude(<<"a", "/", "*", "*">>)>> @@
    a :> <<Exclude(<<"*">>), Include(<<"a", "/", "*">>), Exclude(<<"*", "*">>)>> @@
    b :> <<Include(<<"*", "*", "a">>), Exclude(<<"a", "*", "*">>)>>
Asked == <<"a", "/", "a">>
TwoSources == RouteCandidates(AllConfigured, RulesOfAll, Asked)

OneConfigured == <<a>>
NoRules == a :> <<>>
OneSource == RouteCandidates(OneConfigured, NoRules, Asked)
=============================================================================
