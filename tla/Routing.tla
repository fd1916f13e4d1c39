-------------------------------- MODULE Routing --------------------------------
(***************************************************************************)
(* Which repositories a path is asked of: the rules of RouteEngine and the *)
(* glob matcher (src/src/routing.rs), with a reference for them.  Strings  *)
(* are sequences over a small alphabet; matching goes from the ends of the *)
(* strings to their starts, as the memo of the code is filled.             *)
(***************************************************************************)
EXTENDS Naturals, Sequences, SequencesExt

CONSTANTS
    MaxPattern, MaxPath    \* bounds on the lengths of the reference check

ASSUME LengthsAssumption == MaxPattern \in Nat /\ MaxPath \in Nat

Letters == {"a", "/"}
Patterns == UNION {[1 .. n -> Letters \cup {"*"}] : n \in 0 .. MaxPattern}

\* request_path.rs and config.rs admit no empty segment in a path.
Paths == {v \in UNION {[1 .. n -> Letters] : n \in 1 .. MaxPath} :
            /\ v[1] # "/" /\ v[Len(v)] # "/"
            /\ \A i \in 1 .. Len(v) - 1 : ~(v[i] = "/" /\ v[i + 1] = "/")}

-----------------------------------------------------------------------------
(* glob_matches                                                             *)

\* The end of the stars that start at i.
StarsEnd(pattern, i) ==
    CHOOSE j \in i .. Len(pattern) + 1 :
        /\ \A k \in i .. j - 1 : pattern[k] = "*"
        /\ j <= Len(pattern) => pattern[j] # "*"

\* Two stars or more cross "/", and stand for the "/" after them as well.
Recursive(pattern, i) == StarsEnd(pattern, i) - i >= 2

AfterStars(pattern, i) ==
    LET j == StarsEnd(pattern, i)
    IN  IF Recursive(pattern, i) /\ j <= Len(pattern) /\ pattern[j] = "/" THEN j + 1 ELSE j

\* (Mutant: one star crosses "/".)
CrossesAlways(pattern, i, letter) == TRUE
Crosses(pattern, i, letter) == Recursive(pattern, i) \/ letter # "/"

\* Whether the pattern from its i-th letter matches the path from its k-th, at <<i, k>>.
GlobMatches(pattern, path) ==
    LET matches[at \in (1 .. Len(pattern) + 1) \X (1 .. Len(path) + 1)] ==
            LET i == at[1]
                k == at[2]
            IN
            IF i > Len(pattern) THEN k > Len(path)
            ELSE IF pattern[i] = "*"
            THEN \/ matches[<<AfterStars(pattern, i), k>>]
                 \/ /\ k <= Len(path) /\ Crosses(pattern, i, path[k])
                    /\ matches[<<i, k + 1>>]
            ELSE k <= Len(path) /\ pattern[i] = path[k] /\ matches[<<i + 1, k + 1>>]
    IN  matches[<<1, 1>>]

\* The first rule that matches decides; without one the repository takes part.
Participates(rules, path) ==
    LET matching == {i \in 1 .. Len(rules) : GlobMatches(rules[i].pattern, path)}
    IN  matching = {} \/ rules[CHOOSE i \in matching : \A j \in matching : i <= j].include

\* The repositories keep the order of the configuration.
RouteCandidates(repositories, rulesOf, path) ==
    SelectSeq(repositories, LAMBDA r : Participates(rulesOf[r], path))

-----------------------------------------------------------------------------
(* The reference: README, "`*` matches within one path segment, and `**`    *)
(* matches across `/`", and a test of the code, globstar matches "zero or   *)
(* more path segments" where it stands before a "/".  A pattern is a        *)
(* sequence of letters and wildcards, and matches a path that can be cut    *)
(* into what they stand for.                                                *)

Token(pattern, i) ==
    CASE pattern[i] # "*" -> [from |-> i, upto |-> i, stands |-> {pattern[i]}, many |-> FALSE]
      [] pattern[i] = "*" -> [from |-> i, upto |-> AfterStars(pattern, i) - 1, many |-> TRUE,
                              stands |-> IF Recursive(pattern, i) THEN Letters ELSE Letters \ {"/"}]

Tokens(pattern) ==
    LET from[i \in 1 .. Len(pattern) + 1] ==
            IF i > Len(pattern) THEN <<>>
            ELSE <<Token(pattern, i)>> \o from[Token(pattern, i).upto + 1]
    IN  from[1]

\* `**/` stands for whole segments, each with the "/" after it.
Segments(pattern, token) == token.many /\ pattern[token.upto] = "/"

Cuts(n, m) == {cut \in [0 .. n -> 0 .. m] :
                 cut[0] = 0 /\ cut[n] = m /\ \A i \in 1 .. n : cut[i - 1] <= cut[i]}

Denoted(pattern, path) ==
    LET tokens == Tokens(pattern) IN
    \E cut \in Cuts(Len(tokens), Len(path)) : \A i \in 1 .. Len(tokens) :
        /\ tokens[i].many \/ cut[i] = cut[i - 1] + 1
        /\ \A k \in cut[i - 1] + 1 .. cut[i] : path[k] \in tokens[i].stands
        /\ Segments(pattern, tokens[i]) => cut[i] = cut[i - 1] \/ path[cut[i]] = "/"

\* The code lets `**/` stand for a part of a segment as well: net/**/loader matches
\* net/xloader.  Without it the reference and the code agree.
Plain(pattern) ==
    \A i \in 1 .. Len(pattern) - 2 :
        ~(pattern[i] = "*" /\ pattern[i + 1] = "*" /\ pattern[i + 2] = "/")

\* "The first matching rule determines whether the repository participates", and
\* one without takes part.
Included(rules, path) ==
    \A i \in 1 .. Len(rules) :
        /\ Denoted(rules[i].pattern, path)
        /\ \A k \in 1 .. i - 1 : ~Denoted(rules[k].pattern, path)
        => rules[i].include
================================================================================
