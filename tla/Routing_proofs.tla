----------------------------- MODULE Routing_proofs -----------------------------
(***************************************************************************)
(* Proofs about Routing, for patterns and paths of every length, and about *)
(* RoutedClient: the glob matcher finds whatever the reference does, and   *)
(* without a globstar before a "/" nothing else; so a search asks by the   *)
(* rules README states, the first that matches and the order of the        *)
(* configuration.                                                          *)
(*                                                                         *)
(* The matcher and the reading of a pattern into tokens are recursive      *)
(* functions, so each is what CHOOSE finds for its recurrence.  The cuts   *)
(* of the reference satisfy the recurrence of the matcher, and the two     *)
(* differ nowhere, for they would differ first where the rest of the       *)
(* pattern and of the path is least.  Of a search the invariant of         *)
(* UpstreamClient_proofs tells which candidates it has heard of.           *)
(***************************************************************************)
EXTENDS RoutedClient, UpstreamClient_proofs, SequenceTheorems, WellFoundedInduction

Globs == Seq(Letters \cup {"*"})
Names == Seq(Letters)

\* A set of numbers that is not empty has a least one.
LEMMA LeastOf ==
    ASSUME NEW S \in SUBSET Nat, S # {}
    PROVE  \E x \in S : \A y \in S : x <= y
PROOF
  <1>1. PICK x \in S : \A y \in S : <<y, x>> \notin OpToRel(<, Nat)
    BY NatLessThanWellFounded, WFMin
  <1>2. \A y \in S : x <= y
    <2> SUFFICES ASSUME NEW y \in S PROVE x <= y
      OBVIOUS
    <2>1. ~(y < x)
      BY <1>1 DEF OpToRel
    <2> QED
      BY <2>1
  <1> QED
    BY <1>2

-----------------------------------------------------------------------------
(* The stars of a pattern                                                   *)

\* StarsEnd is where the stars that start at i end.
LEMMA StarsEndDef ==
    ASSUME NEW pattern \in Globs, NEW i \in 1 .. Len(pattern) + 1
    PROVE  /\ StarsEnd(pattern, i) \in i .. Len(pattern) + 1
           /\ \A k \in i .. StarsEnd(pattern, i) - 1 : pattern[k] = "*"
           /\ StarsEnd(pattern, i) <= Len(pattern) => pattern[StarsEnd(pattern, i)] # "*"
PROOF
  <1> DEFINE n == Len(pattern)
             Ends(j) == j <= n => pattern[j] # "*"
             S == {j \in i .. n + 1 : Ends(j)}
  <1>1. n \in Nat /\ i \in Nat /\ i <= n + 1
    BY LenProperties DEF Globs
  <1>2. S \in SUBSET Nat /\ n + 1 \in S
    BY <1>1
  <1>3. PICK j \in S : \A x \in S : j <= x
    BY <1>2, LeastOf
  <1>4. \A k \in i .. j - 1 : pattern[k] = "*"
    <2> SUFFICES ASSUME NEW k \in i .. j - 1, pattern[k] # "*" PROVE FALSE
      OBVIOUS
    <2>1. k \in S /\ k < j
      BY <1>1, <1>3
    <2> QED
      BY <1>1, <1>3, <2>1
  <1>5. \E x \in i .. Len(pattern) + 1 : /\ \A k \in i .. x - 1 : pattern[k] = "*"
                                         /\ x <= Len(pattern) => pattern[x] # "*"
    BY <1>3, <1>4
  <1> HIDE DEF n, S
  <1> QED
    BY <1>5 DEF StarsEnd

\* Past the stars the pattern is shorter.
LEMMA AfterStarsDef ==
    ASSUME NEW pattern \in Globs, NEW i \in 1 .. Len(pattern), pattern[i] = "*"
    PROVE  AfterStars(pattern, i) \in i + 1 .. Len(pattern) + 1
PROOF
  <1> DEFINE j == StarsEnd(pattern, i)
  <1>1. Len(pattern) \in Nat /\ i \in 1 .. Len(pattern) + 1
    BY LenProperties DEF Globs
  <1>2. j \in i .. Len(pattern) + 1 /\ (j <= Len(pattern) => pattern[j] # "*")
    BY <1>1, StarsEndDef
  <1> HIDE DEF j
  <1>3. j \in i + 1 .. Len(pattern) + 1
    BY <1>1, <1>2
  <1>4. AfterStars(pattern, i) = j \/ (AfterStars(pattern, i) = j + 1 /\ j <= Len(pattern))
    BY DEF AfterStars, j
  <1> QED
    BY <1>1, <1>3, <1>4

-----------------------------------------------------------------------------
(* The tokens of a pattern                                                  *)

TokenSet == [from : Nat, upto : Nat, many : BOOLEAN, stands : SUBSET Letters]

\* What Token reads at a place of the pattern, and that it reads on.
LEMMA TokenType ==
    ASSUME NEW pattern \in Globs, NEW i \in 1 .. Len(pattern)
    PROVE  /\ Token(pattern, i) \in TokenSet
           /\ Token(pattern, i).upto + 1 \in i + 1 .. Len(pattern) + 1
PROOF
  <1>1. Len(pattern) \in Nat /\ pattern[i] \in Letters \cup {"*"}
    BY LenProperties, ElementOfSeq DEF Globs
  <1>2. CASE pattern[i] # "*"
    BY <1>1, <1>2 DEF Token, TokenSet
  <1>3. CASE pattern[i] = "*"
    <2>1. AfterStars(pattern, i) \in i + 1 .. Len(pattern) + 1
      BY <1>3, AfterStarsDef
    <2> QED
      BY <1>1, <1>3, <2>1 DEF Token, TokenSet
  <1> QED
    BY <1>2, <1>3

\* f reads the pattern from each of its letters on.
ReadAt(pattern, f, i) ==
    IF i > Len(pattern) THEN <<>> ELSE <<Token(pattern, i)>> \o f[Token(pattern, i).upto + 1]
Reading(pattern, f) == f = [i \in 1 .. Len(pattern) + 1 |-> ReadAt(pattern, f, i)]

\* Tokens is the reading of the pattern from its first letter.
LEMMA TokensDef ==
    ASSUME NEW pattern
    PROVE  Tokens(pattern) = (CHOOSE f : Reading(pattern, f))[1]
PROOF
  BY DEF Tokens, Reading, ReadAt

\* A reading exists: there is one of every end of the pattern.
LEMMA ReadingExists ==
    ASSUME NEW pattern \in Globs
    PROVE  \E f : Reading(pattern, f)
PROOF
  <1> DEFINE n == Len(pattern)
             From(x) == n + 1 - x .. n + 1
             Begun(x) == \E f : f = [i \in From(x) |-> ReadAt(pattern, f, i)]
             bad == {x \in 0 .. n : ~Begun(x)}
  <1>1. n \in Nat
    BY LenProperties DEF Globs
  <1>2. Begun(0)
    <2> DEFINE f == [i \in From(0) |-> <<>>]
    <2>1. \A i \in From(0) : i > n
      BY <1>1
    <2>2. \A i \in From(0) : ReadAt(pattern, f, i) = <<>>
      BY <2>1 DEF ReadAt
    <2>3. f = [i \in From(0) |-> ReadAt(pattern, f, i)]
      BY <2>2
    <2> QED
      BY <2>3
  <1>3. ASSUME NEW x \in 0 .. n - 1, Begun(x)
        PROVE  Begun(x + 1)
    <2>1. PICK f : f = [i \in From(x) |-> ReadAt(pattern, f, i)]
      BY <1>3
    <2> DEFINE g == [i \in From(x + 1) |-> ReadAt(pattern, f, i)]
    <2>2. \A i \in From(x) : g[i] = f[i]
      <3>1. From(x) \subseteq From(x + 1)
        BY <1>1
      <3> HIDE DEF From
      <3> QED
        BY <2>1, <3>1
    <2>3. \A i \in From(x + 1) : ReadAt(pattern, g, i) = ReadAt(pattern, f, i)
      <3> SUFFICES ASSUME NEW i \in From(x + 1)
                   PROVE  ReadAt(pattern, g, i) = ReadAt(pattern, f, i)
        OBVIOUS
      <3>1. CASE i > n
        BY <3>1 DEF ReadAt
      <3>2. CASE ~(i > n)
        <4>1. i \in 1 .. n
          BY <1>1, <3>2
        <4>2. Token(pattern, i).upto + 1 \in From(x)
          <5>1. Token(pattern, i).upto + 1 \in i + 1 .. n + 1
            BY <4>1, TokenType
          <5> QED
            BY <1>1, <4>1, <5>1
        <4> HIDE DEF g, From
        <4> QED
          BY <2>2, <4>2 DEF ReadAt
      <3> QED
        BY <3>1, <3>2
    <2>4. g = [i \in From(x + 1) |-> ReadAt(pattern, g, i)]
      BY <2>3
    <2> QED
      BY <2>4
  <1>4. bad = {}
    <2> HIDE DEF Begun
    <2> SUFFICES ASSUME bad # {} PROVE FALSE
      OBVIOUS
    <2>1. bad \in SUBSET Nat
      OBVIOUS
    <2>2. PICK x \in bad : \A y \in bad : x <= y
      BY <2>1, LeastOf
    <2>3. x # 0 /\ x - 1 \in 0 .. n - 1 /\ Begun(x - 1)
      BY <1>1, <1>2, <2>2
    <2>4. Begun(x - 1 + 1)
      BY <1>3, <2>3
    <2>5. x - 1 + 1 = x
      BY <2>2
    <2> QED
      BY <2>2, <2>4, <2>5
  <1>5. Begun(n)
    BY <1>1, <1>4
  <1>6. From(n) = 1 .. n + 1
    BY <1>1
  <1> QED
    BY <1>5, <1>6 DEF Reading

\* What a reading is, at every place: tokens of the pattern.
LEMMA ReadingOf ==
    ASSUME NEW pattern \in Globs, NEW f, Reading(pattern, f),
           NEW T, \A i \in 1 .. Len(pattern) : Token(pattern, i) \in T
    PROVE  \A i \in 1 .. Len(pattern) + 1 :
               f[i] = ReadAt(pattern, f, i) /\ f[i] \in Seq(T)
PROOF
  <1> DEFINE n == Len(pattern)
             bad == {x \in 0 .. n : f[n + 1 - x] \notin Seq(T)}
  <1>1. n \in Nat
    BY LenProperties DEF Globs
  <1>2. \A i \in 1 .. n + 1 : f[i] = ReadAt(pattern, f, i)
    BY DEF Reading
  <1>3. bad = {}
    <2> SUFFICES ASSUME bad # {} PROVE FALSE
      OBVIOUS
    <2>1. bad \in SUBSET Nat
      OBVIOUS
    <2>2. PICK x \in bad : \A y \in bad : x <= y
      BY <2>1, LeastOf
    <2> DEFINE i == n + 1 - x
    <2>3. i \in 1 .. n + 1
      BY <1>1
    <2>4. CASE i > n
      <3>1. f[i] = <<>>
        BY <1>2, <2>3, <2>4 DEF ReadAt
      <3>2. f[i] \in Seq(T)
        <4>1. <<>> \in Seq(T)
          OBVIOUS
        <4> QED
          BY <3>1, <4>1
      <3> QED
        BY <3>2
    <2>5. CASE ~(i > n)
      <3> DEFINE j == Token(pattern, i).upto + 1
      <3>1. i \in 1 .. n
        BY <1>1, <2>3, <2>5
      <3>2. Token(pattern, i) \in T /\ j \in i + 1 .. n + 1
        BY <3>1, TokenType
      <3>3. f[i] = <<Token(pattern, i)>> \o f[j]
        BY <1>2, <2>3, <2>5 DEF ReadAt
      <3> HIDE DEF j
      <3>4. f[j] \in Seq(T)
        <4> DEFINE y == n + 1 - j
        <4>1. y \in 0 .. n /\ ~(x <= y) /\ n + 1 - y = j
          BY <1>1, <2>2, <3>2
        <4>2. y \notin bad
          BY <2>2, <4>1
        <4> QED
          BY <4>1, <4>2
      <3>5. f[i] \in Seq(T)
        BY <3>2, <3>3, <3>4
      <3> QED
        BY <3>5
    <2> QED
      BY <2>4, <2>5
  <1>4. \A i \in 1 .. n + 1 : n + 1 - i \in 0 .. n /\ n + 1 - (n + 1 - i) = i
    BY <1>1
  <1>5. \A i \in 1 .. n + 1 : f[i] \in Seq(T)
    BY <1>3, <1>4
  <1> QED
    BY <1>2, <1>5

LEMMA ReadingType ==
    ASSUME NEW pattern \in Globs, NEW f, Reading(pattern, f)
    PROVE  \A i \in 1 .. Len(pattern) + 1 :
               f[i] = ReadAt(pattern, f, i) /\ f[i] \in Seq(TokenSet)
PROOF
  <1>1. \A i \in 1 .. Len(pattern) : Token(pattern, i) \in TokenSet
    BY TokenType
  <1> QED
    BY <1>1, ReadingOf

\* Without `**/` in the pattern no token stands for whole segments.
LEMMA PlainTokens ==
    ASSUME NEW pattern \in Globs, Plain(pattern), NEW n \in 1 .. Len(Tokens(pattern))
    PROVE  ~Segments(pattern, Tokens(pattern)[n])
PROOF
  <1> DEFINE f == CHOOSE x : Reading(pattern, x)
             T == {Token(pattern, i) : i \in 1 .. Len(pattern)}
  <1>1. Reading(pattern, f)
    BY ReadingExists
  <1>2. Tokens(pattern) = f[1]
    BY TokensDef
  <1> HIDE DEF f
  <1>3. \A i \in 1 .. Len(pattern) : Token(pattern, i) \in T
    OBVIOUS
  <1>4. Len(pattern) \in Nat /\ 1 \in 1 .. Len(pattern) + 1
    BY LenProperties DEF Globs
  <1> HIDE DEF T
  <1>5. Tokens(pattern) \in Seq(T)
    BY <1>1, <1>2, <1>3, <1>4, ReadingOf
  <1>6. Tokens(pattern)[n] \in T
    BY <1>5, ElementOfSeq
  <1>7. PICK i \in 1 .. Len(pattern) : Tokens(pattern)[n] = Token(pattern, i)
    BY <1>6 DEF T
  <1>8. CASE pattern[i] # "*"
    BY <1>7, <1>8 DEF Segments, Token
  <1>9. CASE pattern[i] = "*"
    <2> DEFINE j == StarsEnd(pattern, i)
    <2>1. Tokens(pattern)[n].upto = AfterStars(pattern, i) - 1
      BY <1>7, <1>9 DEF Token
    <2>2. i \in 1 .. Len(pattern) + 1
      BY <1>4
    <2>3. /\ j \in i .. Len(pattern) + 1 /\ \A k \in i .. j - 1 : pattern[k] = "*"
          /\ j <= Len(pattern) => pattern[j] # "*"
      BY <2>2, StarsEndDef
    <2>4. Recursive(pattern, i) = (j - i >= 2)
      BY DEF Recursive
    <2>5. AfterStars(pattern, i) =
             IF j - i >= 2 /\ j <= Len(pattern) /\ pattern[j] = "/" THEN j + 1 ELSE j
      BY <2>4 DEF AfterStars
    <2> HIDE DEF j
    <2>6. ~(j - i >= 2 /\ j <= Len(pattern) /\ pattern[j] = "/")
      <3> SUFFICES ASSUME j - i >= 2, j <= Len(pattern), pattern[j] = "/" PROVE FALSE
        OBVIOUS
      <3>1. /\ j - 2 \in 1 .. Len(pattern) - 2 /\ j - 2 \in i .. j - 1 /\ j - 1 \in i .. j - 1
            /\ j - 2 + 1 = j - 1 /\ j - 2 + 2 = j
        BY <1>4, <2>3
      <3> QED
        BY <2>3, <3>1 DEF Plain
    <2>7. i # j
      BY <1>9, <2>3, <1>4
    <2>8. j - 1 \in i .. j - 1
      BY <1>4, <2>3, <2>7
    <2>9. pattern[Tokens(pattern)[n].upto] = "*"
      BY <2>1, <2>3, <2>5, <2>6, <2>8
    <2> QED
      BY <2>9 DEF Segments
  <1> QED
    BY <1>8, <1>9

-----------------------------------------------------------------------------
(* The cuts of a path                                                       *)

\* The token stands for the letters after the place before up to the place upto.
Stands(token, path, before, upto) ==
    /\ before <= upto /\ (token.many \/ upto = before + 1)
    /\ \A l \in before + 1 .. upto : path[l] \in token.stands

\* cut cuts the path from its k-th letter on into what the tokens stand for.
IsCut(cut, tokens, path, k) ==
    /\ cut \in [0 .. Len(tokens) -> 0 .. Len(path)]
    /\ cut[0] = k - 1 /\ cut[Len(tokens)] = Len(path)
    /\ \A i \in 1 .. Len(tokens) : Stands(tokens[i], path, cut[i - 1], cut[i])
Cuttable(tokens, path, k) == \E cut : IsCut(cut, tokens, path, k)

\* The reference asks for a cut of the whole path, in which what stands for segments
\* stands for whole ones.
LEMMA DenotedDef ==
    ASSUME NEW pattern, NEW path
    PROVE  /\ Denoted(pattern, path) => Cuttable(Tokens(pattern), path, 1)
           /\ /\ Cuttable(Tokens(pattern), path, 1)
              /\ \A n \in 1 .. Len(Tokens(pattern)) : ~Segments(pattern, Tokens(pattern)[n])
              => Denoted(pattern, path)
PROOF
  <1> DEFINE tokens == Tokens(pattern)
             Whole(cut) == /\ \A i \in 1 .. Len(tokens) : cut[i - 1] <= cut[i]
                           /\ \A i \in 1 .. Len(tokens) :
                                 /\ tokens[i].many \/ cut[i] = cut[i - 1] + 1
                                 /\ \A k \in cut[i - 1] + 1 .. cut[i] : path[k] \in tokens[i].stands
             Ends(cut) == \A i \in 1 .. Len(tokens) :
                             Segments(pattern, tokens[i]) => cut[i] = cut[i - 1] \/ path[cut[i]] = "/"
             Pieces(cut) == \A i \in 1 .. Len(tokens) : Stands(tokens[i], path, cut[i - 1], cut[i])
  <1>1. \A cut : Whole(cut) <=> Pieces(cut)
    BY DEF Stands
  <1>2. Denoted(pattern, path) <=>
            \E cut \in [0 .. Len(tokens) -> 0 .. Len(path)] :
                cut[0] = 0 /\ cut[Len(tokens)] = Len(path) /\ Whole(cut) /\ Ends(cut)
    BY DEF Denoted, Cuts
  <1>3. Cuttable(tokens, path, 1) <=>
            \E cut \in [0 .. Len(tokens) -> 0 .. Len(path)] :
                cut[0] = 1 - 1 /\ cut[Len(tokens)] = Len(path) /\ Pieces(cut)
    BY DEF Cuttable, IsCut
  <1>4. 1 - 1 = 0
    OBVIOUS
  <1>5. (\A n \in 1 .. Len(tokens) : ~Segments(pattern, tokens[n])) => \A cut : Ends(cut)
    OBVIOUS
  <1> HIDE DEF Whole, Pieces, Ends, tokens
  <1>6. /\ Denoted(pattern, path) => Cuttable(tokens, path, 1)
        /\ /\ Cuttable(tokens, path, 1)
           /\ \A n \in 1 .. Len(tokens) : ~Segments(pattern, tokens[n])
           => Denoted(pattern, path)
    BY <1>1, <1>2, <1>3, <1>4, <1>5
  <1> QED
    BY <1>6 DEF tokens

\* No token stands for the end of the path only.
LEMMA CutNone ==
    ASSUME NEW path \in Names, NEW k \in 1 .. Len(path) + 1
    PROVE  Cuttable(<<>>, path, k) <=> k > Len(path)
PROOF
  <1>1. Len(path) \in Nat /\ Len(<<>>) = 0
    BY LenProperties DEF Names
  <1>2. ASSUME k > Len(path)
        PROVE  Cuttable(<<>>, path, k)
    <2> DEFINE cut == [i \in 0 .. 0 |-> Len(path)]
    <2>1. cut \in [0 .. 0 -> 0 .. Len(path)] /\ cut[0] = Len(path)
      BY <1>1
    <2>2. k - 1 = Len(path)
      BY <1>1, <1>2
    <2> HIDE DEF cut
    <2>3. IsCut(cut, <<>>, path, k)
      BY <1>1, <2>1, <2>2 DEF IsCut
    <2> QED
      BY <2>3 DEF Cuttable
  <1>3. ASSUME Cuttable(<<>>, path, k)
        PROVE  k > Len(path)
    BY <1>1, <1>3 DEF Cuttable, IsCut
  <1> QED
    BY <1>2, <1>3

\* The first token stands for the letters up to e, and the others for the rest.
LEMMA CutFirst ==
    ASSUME NEW path \in Names, NEW k \in 1 .. Len(path) + 1,
           NEW token \in TokenSet, NEW rest \in Seq(TokenSet)
    PROVE  Cuttable(<<token>> \o rest, path, k) <=>
               \E e \in k - 1 .. Len(path) :
                   Stands(token, path, k - 1, e) /\ Cuttable(rest, path, e + 1)
PROOF
  <1> DEFINE all == <<token>> \o rest
             n == Len(rest)
             m == Len(path)
  <1>1. m \in Nat /\ n \in Nat /\ k \in Nat /\ k - 1 \in Nat /\ k - 1 + 1 = k /\ k - 1 <= m
    BY LenProperties DEF Names
  <1>2. Len(all) = n + 1 /\ all[1] = token /\ \A i \in 1 .. n : all[i + 1] = rest[i]
    <2>1. all \in Seq(TokenSet) /\ Len(all) = 1 + n
      BY ConcatProperties
    <2>2. \A i \in 1 .. 1 + n : all[i] = IF i <= 1 THEN token ELSE rest[i - 1]
      BY ConcatProperties
    <2> HIDE DEF all
    <2>3. \A i \in 1 .. n : i + 1 \in 1 .. 1 + n /\ ~(i + 1 <= 1) /\ i + 1 - 1 = i
      BY <1>1
    <2>4. 1 \in 1 .. 1 + n
      BY <1>1
    <2> QED
      BY <1>1, <2>1, <2>2, <2>3, <2>4
  <1> HIDE DEF all
  <1>3. ASSUME NEW cut, IsCut(cut, all, path, k)
        PROVE  \E e \in k - 1 .. m :
                   Stands(token, path, k - 1, e) /\ Cuttable(rest, path, e + 1)
    <2>1. /\ cut \in [0 .. n + 1 -> 0 .. m] /\ cut[0] = k - 1 /\ cut[n + 1] = m
          /\ \A i \in 1 .. n + 1 : Stands(all[i], path, cut[i - 1], cut[i])
      BY <1>2, <1>3 DEF IsCut
    <2>2. 0 \in 0 .. n + 1 /\ 1 \in 1 .. n + 1 /\ 1 \in 0 .. n + 1 /\ 1 - 1 = 0
      BY <1>1
    <2>3. Stands(token, path, k - 1, cut[1])
      BY <1>2, <2>1, <2>2
    <2>4. PICK e \in k - 1 .. m : e = cut[1]
      <3>1. k - 1 <= cut[1] /\ cut[1] \in 0 .. m
        BY <2>1, <2>2, <2>3 DEF Stands
      <3> QED
        BY <1>1, <3>1
    <2>5. \A i \in 0 .. n : i + 1 \in 0 .. n + 1
      BY <1>1
    <2>6. PICK sub \in [0 .. n -> 0 .. m] : \A i \in 0 .. n : sub[i] = cut[i + 1]
      <3> DEFINE sub == [i \in 0 .. n |-> cut[i + 1]]
      <3>1. sub \in [0 .. n -> 0 .. m] /\ \A i \in 0 .. n : sub[i] = cut[i + 1]
        BY <2>1, <2>5
      <3> QED
        BY <3>1
    <2>7. IsCut(sub, rest, path, e + 1)
      <3>1. sub[0] = e + 1 - 1 /\ sub[n] = m
        BY <1>1, <2>1, <2>4, <2>6
      <3>2. \A i \in 1 .. n : /\ i \in 0 .. n /\ i - 1 \in 0 .. n /\ i + 1 \in 1 .. n + 1
                              /\ i - 1 + 1 = i /\ i + 1 - 1 = i
        BY <1>1
      <3>3. \A i \in 1 .. n : sub[i - 1] = cut[i] /\ sub[i] = cut[i + 1]
        BY <2>6, <3>2
      <3>4. ASSUME NEW i \in 1 .. n
            PROVE  Stands(rest[i], path, sub[i - 1], sub[i])
        <4>1. Stands(all[i + 1], path, cut[i + 1 - 1], cut[i + 1])
          BY <2>1, <3>2
        <4> QED
          BY <1>2, <3>2, <3>3, <4>1
      <3> QED
        BY <3>1, <3>4 DEF IsCut
    <2> QED
      BY <2>3, <2>4, <2>7 DEF Cuttable
  <1>4. ASSUME NEW e \in k - 1 .. m, Stands(token, path, k - 1, e),
               NEW sub, IsCut(sub, rest, path, e + 1)
        PROVE  Cuttable(all, path, k)
    <2> DEFINE cut == [i \in 0 .. n + 1 |-> IF i = 0 THEN k - 1 ELSE sub[i - 1]]
    <2>1. /\ sub \in [0 .. n -> 0 .. m] /\ sub[0] = e /\ sub[n] = m
          /\ \A i \in 1 .. n : Stands(rest[i], path, sub[i - 1], sub[i])
      <3>1. e + 1 - 1 = e
        BY <1>1
      <3> QED
        BY <1>4, <3>1 DEF IsCut
    <2>2. /\ \A i \in 0 .. n + 1 : i # 0 => i - 1 \in 0 .. n
          /\ 0 \in 0 .. n + 1 /\ 1 \in 0 .. n + 1 /\ n + 1 \in 0 .. n + 1 /\ n + 1 # 0
          /\ 1 - 1 = 0 /\ n + 1 - 1 = n
      BY <1>1
    <2>3. cut \in [0 .. n + 1 -> 0 .. m]
      BY <1>1, <2>1, <2>2
    <2>4. /\ cut[0] = k - 1 /\ cut[1] = e /\ cut[n + 1] = m
          /\ \A i \in 1 .. n : cut[i + 1] = sub[i]
      BY <1>1, <2>1, <2>2
    <2> HIDE DEF cut
    <2>5. ASSUME NEW i \in 2 .. n + 1
          PROVE  /\ i - 1 \in 1 .. n
                 /\ cut[i] = sub[i - 1] /\ cut[i - 1] = sub[i - 1 - 1]
                 /\ all[i] = rest[i - 1]
      <3>1. i - 1 \in 1 .. n /\ i - 1 + 1 = i
        BY <1>1
      <3>2. cut[i] = sub[i - 1] /\ all[i] = rest[i - 1]
        BY <1>2, <2>4, <3>1
      <3>3. cut[i - 1] = sub[i - 1 - 1]
        <4>1. CASE i = 2
          <5>1. i - 1 = 1 /\ i - 1 - 1 = 0
            BY <4>1
          <5> QED
            BY <2>1, <2>4, <5>1
        <4>2. CASE i # 2
          <5>1. i - 1 - 1 \in 1 .. n /\ i - 1 - 1 + 1 = i - 1
            BY <1>1, <4>2
          <5> QED
            BY <2>4, <5>1
        <4> QED
          BY <4>1, <4>2
      <3> QED
        BY <3>1, <3>2, <3>3
    <2>6. \A i \in 1 .. n + 1 : i = 1 \/ i \in 2 .. n + 1
      BY <1>1
    <2>7. ASSUME NEW i \in 1 .. n + 1
          PROVE  Stands(all[i], path, cut[i - 1], cut[i])
      <3>1. CASE i = 1
        <4>1. cut[i - 1] = k - 1 /\ cut[i] = e /\ all[i] = token
          BY <1>2, <2>2, <2>4, <3>1
        <4> QED
          BY <1>1, <1>4, <4>1
      <3>2. CASE i \in 2 .. n + 1
        BY <2>1, <2>5, <3>2
      <3> QED
        BY <2>6, <3>1, <3>2
    <2>8. IsCut(cut, all, path, k)
      BY <1>2, <2>3, <2>4, <2>7 DEF IsCut
    <2> QED
      BY <2>8 DEF Cuttable
  <1> QED
    BY <1>3, <1>4 DEF Cuttable, all

-----------------------------------------------------------------------------
(* The matcher                                                              *)

\* f says from which letter of the pattern on it matches the path from which of its
\* letters on.
MatchesAt(pattern, path, f, i, k) ==
    IF i > Len(pattern) THEN k > Len(path)
    ELSE IF pattern[i] = "*"
    THEN \/ f[<<AfterStars(pattern, i), k>>]
         \/ /\ k <= Len(path) /\ Crosses(pattern, i, path[k])
            /\ f[<<i, k + 1>>]
    ELSE k <= Len(path) /\ pattern[i] = path[k] /\ f[<<i + 1, k + 1>>]
Places(pattern, path) == (1 .. Len(pattern) + 1) \X (1 .. Len(path) + 1)
Matching(pattern, path, f) ==
    f = [at \in Places(pattern, path) |-> MatchesAt(pattern, path, f, at[1], at[2])]

\* The matcher is the function of that recurrence, asked at the two starts.
LEMMA GlobMatchesDef ==
    ASSUME NEW pattern, NEW path
    PROVE  GlobMatches(pattern, path) = (CHOOSE f : Matching(pattern, path, f))[<<1, 1>>]
PROOF
  BY DEF GlobMatches, Matching, Places, MatchesAt

\* The recurrence at one place.
LEMMA MatchingAt ==
    ASSUME NEW pattern, NEW path, NEW f, Matching(pattern, path, f),
           NEW i \in 1 .. Len(pattern) + 1, NEW k \in 1 .. Len(path) + 1
    PROVE  f[<<i, k>>] = MatchesAt(pattern, path, f, i, k)
PROOF
  BY DEF Matching, Places

\* The cuts of the rest of the path into the rest of the tokens are where the
\* matcher looks for them.
LEMMA CuttableAt ==
    ASSUME NEW pattern \in Globs, NEW path \in Names, NEW f, Reading(pattern, f),
           NEW i \in 1 .. Len(pattern) + 1, NEW k \in 1 .. Len(path) + 1
    PROVE  Cuttable(f[i], path, k) <=>
               IF i > Len(pattern) THEN k > Len(path)
               ELSE IF pattern[i] = "*"
               THEN \/ Cuttable(f[AfterStars(pattern, i)], path, k)
                    \/ /\ k <= Len(path) /\ Crosses(pattern, i, path[k])
                       /\ Cuttable(f[i], path, k + 1)
               ELSE k <= Len(path) /\ pattern[i] = path[k] /\ Cuttable(f[i + 1], path, k + 1)
PROOF
  <1> DEFINE n == Len(pattern)
             m == Len(path)
             token == Token(pattern, i)
             rest == f[token.upto + 1]
  <1>1. n \in Nat /\ m \in Nat
    BY LenProperties DEF Globs, Names
  <1>2. CASE i > n
    <2>1. f[i] = <<>>
      BY <1>2, ReadingType DEF ReadAt
    <2> QED
      BY <1>2, <2>1, CutNone
  <1>3. ASSUME i <= n
        PROVE  /\ i \in 1 .. n
               /\ token \in TokenSet /\ token.upto + 1 \in 1 .. n + 1
               /\ rest \in Seq(TokenSet) /\ f[i] = <<token>> \o rest
    <2>1. i \in 1 .. n /\ ~(i > n)
      BY <1>1, <1>3
    <2>2. token \in TokenSet /\ token.upto + 1 \in i + 1 .. n + 1
      BY <2>1, TokenType
    <2> HIDE DEF token
    <2>3. token.upto + 1 \in 1 .. n + 1
      BY <1>1, <2>1, <2>2
    <2>4. f[i] = <<token>> \o rest
      BY <2>1, ReadingType DEF ReadAt, token
    <2>5. rest \in Seq(TokenSet)
      BY <2>3, ReadingType
    <2> QED
      BY <2>1, <2>2, <2>3, <2>4, <2>5
  <1>4. ASSUME i <= n, NEW q \in 1 .. m + 1
        PROVE  Cuttable(f[i], path, q) <=>
                   \E e \in q - 1 .. m : Stands(token, path, q - 1, e) /\ Cuttable(rest, path, e + 1)
    <2>1. token \in TokenSet /\ rest \in Seq(TokenSet) /\ f[i] = <<token>> \o rest
      BY <1>3, <1>4
    <2> HIDE DEF token, rest
    <2> QED
      BY <2>1, CutFirst
  <1>5. CASE i <= n /\ pattern[i] # "*"
    <2>1. token.many = FALSE /\ token.stands = {pattern[i]} /\ token.upto + 1 = i + 1
      BY <1>5 DEF Token
    <2>2. rest = f[i + 1]
      BY <2>1
    <2> HIDE DEF token, rest
    <2>3. \A e : Stands(token, path, k - 1, e) <=> e = k /\ path[k] = pattern[i]
      <3>1. k - 1 + 1 = k /\ k - 1 <= k /\ \A l : l \in k .. k <=> l = k
        BY <1>1
      <3> QED
        BY <2>1, <3>1 DEF Stands
    <2>4. Cuttable(f[i], path, k) <=> \E e \in k - 1 .. m : /\ e = k /\ path[k] = pattern[i]
                                                            /\ Cuttable(f[i + 1], path, e + 1)
      BY <1>4, <1>5, <2>2, <2>3
    <2>5. k \in k - 1 .. m <=> k <= m
      BY <1>1
    <2>6. ~(i > n)
      BY <1>1, <1>5
    <2> QED
      BY <1>5, <2>4, <2>5, <2>6
  <1>6. CASE i <= n /\ pattern[i] = "*"
    <2>1. i \in 1 .. n /\ AfterStars(pattern, i) \in i + 1 .. n + 1
      BY <1>1, <1>6, AfterStarsDef
    <2>2. /\ token.many = TRUE /\ token.upto = AfterStars(pattern, i) - 1
          /\ token.stands = IF Recursive(pattern, i) THEN Letters ELSE Letters \ {"/"}
      BY <1>6 DEF Token
    <2> HIDE DEF token
    <2>3. token.upto + 1 = AfterStars(pattern, i)
      BY <1>1, <2>1, <2>2
    <2>4. rest = f[AfterStars(pattern, i)]
      BY <2>3
    <2> HIDE DEF rest
    <2>5. \A l \in 1 .. m : path[l] \in token.stands <=> Crosses(pattern, i, path[l])
      <3>1. \A l \in 1 .. m : path[l] \in Letters
        BY ElementOfSeq DEF Names
      <3> QED
        BY <2>2, <3>1 DEF Crosses
    <2>6. \A before, upto : Stands(token, path, before, upto) <=>
             before <= upto /\ \A l \in before + 1 .. upto : path[l] \in token.stands
      BY <2>2 DEF Stands
    <2>7. \A q \in 1 .. m + 1 : Cuttable(f[i], path, q) <=>
             \E e \in q - 1 .. m : Stands(token, path, q - 1, e) /\ Cuttable(rest, path, e + 1)
      BY <1>4, <1>6
    <2>8. k - 1 + 1 = k /\ k + 1 - 1 = k
      BY <1>1
    <2>9. ASSUME Cuttable(rest, path, k)
          PROVE  Cuttable(f[i], path, k)
      <3>1. k - 1 \in k - 1 .. m /\ k - 1 <= k - 1 /\ \A l : l \notin k .. k - 1
        BY <1>1
      <3>2. Stands(token, path, k - 1, k - 1)
        BY <2>6, <2>8, <3>1
      <3> QED
        BY <2>7, <2>8, <2>9, <3>1, <3>2
    <2>10. ASSUME k <= m, Crosses(pattern, i, path[k]), Cuttable(f[i], path, k + 1)
           PROVE  Cuttable(f[i], path, k)
      <3>1. k + 1 \in 1 .. m + 1 /\ k \in 1 .. m
        BY <1>1, <2>10
      <3>2. PICK e \in k .. m : Stands(token, path, k, e) /\ Cuttable(rest, path, e + 1)
        BY <2>7, <2>8, <2>10, <3>1
      <3>3. \A l \in k .. e : l = k \/ l \in k + 1 .. e
        BY <1>1
      <3>4. e \in k - 1 .. m /\ k - 1 <= e
        BY <1>1
      <3>5. Stands(token, path, k - 1, e)
        BY <2>5, <2>6, <2>8, <2>10, <3>1, <3>2, <3>3, <3>4
      <3> QED
        BY <2>7, <3>2, <3>4, <3>5
    <2>11. ASSUME Cuttable(f[i], path, k)
           PROVE  \/ Cuttable(rest, path, k)
                  \/ k <= m /\ Crosses(pattern, i, path[k]) /\ Cuttable(f[i], path, k + 1)
      <3>1. PICK e \in k - 1 .. m : Stands(token, path, k - 1, e) /\ Cuttable(rest, path, e + 1)
        BY <2>7, <2>11
      <3>2. CASE e = k - 1
        BY <2>8, <3>1, <3>2
      <3>3. CASE e # k - 1
        <4>1. k <= m /\ k \in 1 .. m /\ k \in k .. e /\ k <= e /\ e \in k + 1 - 1 .. m
              /\ k + 1 \in 1 .. m + 1
          BY <1>1, <3>3
        <4>2. Crosses(pattern, i, path[k])
          BY <2>5, <2>6, <2>8, <3>1, <4>1
        <4>3. Stands(token, path, k, e)
          <5>1. \A l \in k + 1 .. e : l \in k .. e
            BY <1>1
          <5> QED
            BY <2>6, <2>8, <3>1, <4>1, <5>1
        <4>4. Cuttable(f[i], path, k + 1)
          BY <2>7, <2>8, <3>1, <4>1, <4>3
        <4> QED
          BY <4>1, <4>2, <4>4
      <3> QED
        BY <3>2, <3>3
    <2>12. ~(i > n)
      BY <1>1, <1>6
    <2> QED
      BY <1>6, <2>4, <2>9, <2>10, <2>11, <2>12
  <1>7. i > n \/ i <= n
    BY <1>1
  <1> QED
    BY <1>2, <1>5, <1>6, <1>7

\* The matcher is defined: the cuts are such a function.
LEMMA CutsMatch ==
    ASSUME NEW pattern \in Globs, NEW path \in Names, NEW f, Reading(pattern, f)
    PROVE  Matching(pattern, path,
                    [at \in Places(pattern, path) |-> Cuttable(f[at[1]], path, at[2])])
PROOF
  <1> DEFINE n == Len(pattern)
             m == Len(path)
             g == [at \in Places(pattern, path) |-> Cuttable(f[at[1]], path, at[2])]
  <1>1. n \in Nat /\ m \in Nat
    BY LenProperties DEF Globs, Names
  <1>2. \A i \in 1 .. n + 1, k \in 1 .. m + 1 : g[<<i, k>>] = Cuttable(f[i], path, k)
    BY DEF Places
  <1>3. ASSUME NEW i \in 1 .. n + 1, NEW k \in 1 .. m + 1
        PROVE  Cuttable(f[i], path, k) <=> MatchesAt(pattern, path, g, i, k)
    <2> HIDE DEF g
    <2>1. CASE i > n
      BY <2>1, CuttableAt DEF MatchesAt
    <2>2. CASE i <= n /\ pattern[i] = "*"
      <3>1. i \in 1 .. n /\ ~(i > n) /\ (k <= m => k + 1 \in 1 .. m + 1)
        BY <1>1, <2>2
      <3>2. AfterStars(pattern, i) \in 1 .. n + 1
        <4>1. AfterStars(pattern, i) \in i + 1 .. n + 1
          BY <2>2, <3>1, AfterStarsDef
        <4> QED
          BY <1>1, <3>1, <4>1
      <3>3. g[<<AfterStars(pattern, i), k>>] = Cuttable(f[AfterStars(pattern, i)], path, k)
        BY <1>2, <3>2
      <3>4. k <= m => g[<<i, k + 1>>] = Cuttable(f[i], path, k + 1)
        BY <1>2, <3>1
      <3> QED
        BY <2>2, <3>1, <3>3, <3>4, CuttableAt DEF MatchesAt
    <2>3. CASE i <= n /\ pattern[i] # "*"
      <3>1. ~(i > n) /\ i + 1 \in 1 .. n + 1 /\ (k <= m => k + 1 \in 1 .. m + 1)
        BY <1>1, <2>3
      <3>2. k <= m => g[<<i + 1, k + 1>>] = Cuttable(f[i + 1], path, k + 1)
        BY <1>2, <3>1
      <3> QED
        BY <2>3, <3>1, <3>2, CuttableAt DEF MatchesAt
    <2> QED
      BY <1>1, <2>1, <2>2, <2>3
  <1>4. \A at \in Places(pattern, path) :
            Cuttable(f[at[1]], path, at[2]) = MatchesAt(pattern, path, g, at[1], at[2])
    <2> HIDE DEF g
    <2>1. ASSUME NEW i, NEW k
          PROVE  Cuttable(f[i], path, k) \in BOOLEAN /\ MatchesAt(pattern, path, g, i, k) \in BOOLEAN
      <3>1. Cuttable(f[i], path, k) \in BOOLEAN
        BY DEF Cuttable
      <3>2. CASE i > n
        BY <3>1, <3>2 DEF MatchesAt
      <3>3. CASE ~(i > n) /\ pattern[i] = "*"
        BY <3>1, <3>3 DEF MatchesAt
      <3>4. CASE ~(i > n) /\ pattern[i] # "*"
        BY <3>1, <3>4 DEF MatchesAt
      <3> QED
        BY <3>2, <3>3, <3>4
    <2>2. \A i \in 1 .. n + 1, k \in 1 .. m + 1 :
              Cuttable(f[i], path, k) = MatchesAt(pattern, path, g, i, k)
      BY <1>3, <2>1
    <2>3. \A at \in Places(pattern, path) : at[1] \in 1 .. n + 1 /\ at[2] \in 1 .. m + 1
      BY DEF Places
    <2> QED
      BY <2>2, <2>3
  <1>5. g = [at \in Places(pattern, path) |-> MatchesAt(pattern, path, g, at[1], at[2])]
    BY <1>4
  <1> QED
    BY <1>5 DEF Matching

\* There is one such function only.
LEMMA MatchingUnique ==
    ASSUME NEW pattern \in Globs, NEW path \in Names,
           NEW f, Matching(pattern, path, f), NEW g, Matching(pattern, path, g),
           NEW i \in 1 .. Len(pattern) + 1, NEW k \in 1 .. Len(path) + 1
    PROVE  f[<<i, k>>] = g[<<i, k>>]
PROOF
  <1> DEFINE n == Len(pattern)
             m == Len(path)
             Left(x, y) == (n + 1 - x) + (m + 1 - y)
             Differ(x, y) == f[<<x, y>>] # g[<<x, y>>]
             bad == {l \in Nat : \E x \in 1 .. n + 1, y \in 1 .. m + 1 :
                                    l = Left(x, y) /\ Differ(x, y)}
  <1>1. n \in Nat /\ m \in Nat
    BY LenProperties DEF Globs, Names
  <1>2. \A x \in 1 .. n + 1, y \in 1 .. m + 1 : Left(x, y) \in Nat
    BY <1>1
  <1>3. bad = {}
    <2> SUFFICES ASSUME bad # {} PROVE FALSE
      OBVIOUS
    <2>1. bad \in SUBSET Nat
      OBVIOUS
    <2>2. PICK l \in bad : \A z \in bad : l <= z
      BY <2>1, LeastOf
    <2>3. PICK x \in 1 .. n + 1, y \in 1 .. m + 1 : l = Left(x, y) /\ Differ(x, y)
      BY <2>2
    <2>4. ASSUME NEW u \in 1 .. n + 1, NEW v \in 1 .. m + 1, Left(u, v) < Left(x, y)
          PROVE  f[<<u, v>>] = g[<<u, v>>]
      <3>1. Left(u, v) \notin bad
        <4>1. Left(u, v) \in Nat /\ Left(x, y) \in Nat
          BY <1>2
        <4> HIDE DEF Left, bad
        <4> QED
          BY <2>2, <2>3, <2>4, <4>1
      <3>2. Left(u, v) \in Nat
        BY <1>2
      <3>3. ~Differ(u, v)
        <4> HIDE DEF Left, Differ
        <4> QED
          BY <3>1, <3>2
      <3> QED
        BY <3>3
    <2>5. /\ f[<<x, y>>] = MatchesAt(pattern, path, f, x, y)
          /\ g[<<x, y>>] = MatchesAt(pattern, path, g, x, y)
      BY MatchingAt
    <2>6. CASE x > n
      BY <2>3, <2>5, <2>6 DEF MatchesAt
    <2>7. CASE x <= n /\ pattern[x] = "*"
      <3>1. x \in 1 .. n /\ ~(x > n)
        BY <1>1, <2>7
      <3>2. AfterStars(pattern, x) \in x + 1 .. n + 1
        BY <2>7, <3>1, AfterStarsDef
      <3>3. AfterStars(pattern, x) \in 1 .. n + 1 /\ Left(AfterStars(pattern, x), y) < Left(x, y)
        BY <1>1, <3>1, <3>2
      <3>4. y <= m => y + 1 \in 1 .. m + 1 /\ Left(x, y + 1) < Left(x, y)
        BY <1>1
      <3> HIDE DEF Left
      <3>5. f[<<AfterStars(pattern, x), y>>] = g[<<AfterStars(pattern, x), y>>]
        BY <2>4, <3>3
      <3>6. y <= m => f[<<x, y + 1>>] = g[<<x, y + 1>>]
        BY <2>4, <3>4
      <3> QED
        BY <2>3, <2>5, <2>7, <3>1, <3>5, <3>6 DEF MatchesAt
    <2>8. CASE x <= n /\ pattern[x] # "*"
      <3>1. ~(x > n) /\ x + 1 \in 1 .. n + 1
        BY <1>1, <2>8
      <3>2. y <= m => y + 1 \in 1 .. m + 1 /\ Left(x + 1, y + 1) < Left(x, y)
        BY <1>1, <2>8
      <3> HIDE DEF Left
      <3>3. y <= m => f[<<x + 1, y + 1>>] = g[<<x + 1, y + 1>>]
        BY <2>4, <3>1, <3>2
      <3> QED
        BY <2>3, <2>5, <2>8, <3>1, <3>3 DEF MatchesAt
    <2> QED
      BY <1>1, <2>6, <2>7, <2>8
  <1>4. Left(i, k) \notin bad
    BY <1>3
  <1> HIDE DEF Left
  <1> QED
    BY <1>2, <1>4

\* glob_matches finds a match exactly when the path can be cut into what the code
\* reads the stars and the letters of the pattern to stand for.
LEMMA MatchesAsRead ==
    ASSUME NEW pattern \in Globs, NEW path \in Names
    PROVE  GlobMatches(pattern, path) <=> Cuttable(Tokens(pattern), path, 1)
PROOF
  <1> DEFINE f == CHOOSE x : Reading(pattern, x)
             g == CHOOSE x : Matching(pattern, path, x)
             h == [at \in Places(pattern, path) |-> Cuttable(f[at[1]], path, at[2])]
  <1>1. Reading(pattern, f)
    BY ReadingExists
  <1>2. Tokens(pattern) = f[1]
    BY TokensDef
  <1> HIDE DEF f
  <1>3. Matching(pattern, path, h)
    BY <1>1, CutsMatch
  <1>4. 1 \in 1 .. Len(pattern) + 1 /\ 1 \in 1 .. Len(path) + 1
    BY LenProperties DEF Globs, Names
  <1>5. h[<<1, 1>>] = Cuttable(f[1], path, 1)
    BY <1>4 DEF Places
  <1> HIDE DEF h
  <1>6. Matching(pattern, path, g)
    BY <1>3
  <1>7. GlobMatches(pattern, path) = g[<<1, 1>>]
    BY GlobMatchesDef
  <1> HIDE DEF g
  <1>8. g[<<1, 1>>] = h[<<1, 1>>]
    BY <1>3, <1>4, <1>6, MatchingUnique
  <1> QED
    BY <1>2, <1>5, <1>7, <1>8

\* README, "`*` matches within one path segment, and `**` matches across `/`":
\* glob_matches finds every match of the reference, and, of a pattern without `**/`,
\* no other.  (Before a "/" the code lets `**` stand for parts of segments too.)
THEOREM MatchesAsDenoted ==
    ASSUME NEW pattern \in Globs, NEW path \in Names
    PROVE  /\ Denoted(pattern, path) => GlobMatches(pattern, path)
           /\ Plain(pattern) /\ GlobMatches(pattern, path) => Denoted(pattern, path)
PROOF
  BY MatchesAsRead, DenotedDef, PlainTokens

-----------------------------------------------------------------------------
(* The rules and the search                                                 *)

LEMMA Bounded == Patterns \subseteq Globs /\ Paths \subseteq Names
PROOF
  <1>1. Patterns \subseteq Globs
    BY LengthsAssumption DEF Patterns, Globs
  <1>2. Paths \subseteq Names
    BY LengthsAssumption DEF Paths, Names
  <1> QED
    BY <1>1, <1>2

\* "The first matching rule determines whether the repository participates."
LEMMA FirstRuleDecides ==
    ASSUME NEW rules \in Seq(Rules), NEW path \in Paths,
           \A i \in 1 .. Len(rules) : Plain(rules[i].pattern)
    PROVE  Participates(rules, path) <=> Included(rules, path)
PROOF
  <1> DEFINE matching == {i \in 1 .. Len(rules) : GlobMatches(rules[i].pattern, path)}
             first == CHOOSE i \in matching : \A k \in matching : i <= k
  <1>1. Len(rules) \in Nat
    BY LenProperties
  <1>2. \A i \in 1 .. Len(rules) : rules[i].pattern \in Globs
    <2> SUFFICES ASSUME NEW i \in 1 .. Len(rules) PROVE rules[i].pattern \in Globs
      OBVIOUS
    <2>1. rules[i] \in Rules
      BY ElementOfSeq
    <2> QED
      BY <2>1, Bounded DEF Rules
  <1>3. path \in Names
    BY Bounded
  <1>4. \A i \in 1 .. Len(rules) : i \in matching <=> Denoted(rules[i].pattern, path)
    <2> SUFFICES ASSUME NEW i \in 1 .. Len(rules)
                 PROVE  GlobMatches(rules[i].pattern, path) <=> Denoted(rules[i].pattern, path)
      OBVIOUS
    <2> QED
      BY <1>2, <1>3, MatchesAsDenoted
  <1>5. Participates(rules, path) <=> matching = {} \/ rules[first].include
    BY DEF Participates
  <1>6. matching \in SUBSET Nat /\ matching \subseteq 1 .. Len(rules)
    BY <1>1
  <1> HIDE DEF matching
  <1>7. matching # {} => first \in matching /\ \A k \in matching : first <= k
    <2>1. matching # {} => \E i \in matching : \A k \in matching : i <= k
      BY <1>6, LeastOf
    <2> QED
      BY <2>1
  <1> HIDE DEF first
  <1>8. Included(rules, path) <=>
            \A i \in matching : (\A k \in 1 .. i - 1 : k \notin matching) => rules[i].include
    <2>1. \A i \in matching : \A k \in 1 .. i - 1 : k \in 1 .. Len(rules)
      BY <1>1, <1>6
    <2> QED
      BY <1>4, <1>6, <2>1 DEF Included
  <1>9. \A i \in matching :
            (\A k \in 1 .. i - 1 : k \notin matching) <=> \A k \in matching : i <= k
    BY <1>1, <1>6
  <1>10. \A i \in matching : (\A k \in matching : i <= k) => i = first
    <2> SUFFICES ASSUME NEW i \in matching, \A k \in matching : i <= k PROVE i = first
      OBVIOUS
    <2>1. first \in matching /\ i <= first /\ first <= i
      BY <1>7
    <2>2. i \in Nat /\ first \in Nat
      BY <1>6, <2>1
    <2> QED
      BY <2>1, <2>2
  <1> QED
    BY <1>5, <1>7, <1>8, <1>9, <1>10

\* The candidates are those whom the rules include.
LEMMA CandidatesIncluded ==
    ASSUME PlainRules
    PROVE  Candidates = {Configured[i] : i \in Participants}
PROOF
  <1>1. ToSet(Configured) = {Configured[i] : i \in DOMAIN Configured}
    BY DEF ToSet
  <1>2. ASSUME NEW i \in DOMAIN Configured
        PROVE  Participates(RulesOf[Configured[i]], Path) <=> i \in Participants
    <2>1. RulesOf[Configured[i]] \in Seq(Rules) /\ Path \in Paths
      BY RoutedAssumption
    <2>2. \A n \in 1 .. Len(RulesOf[Configured[i]]) : Plain(RulesOf[Configured[i]][n].pattern)
      <3>1. DOMAIN RulesOf[Configured[i]] = 1 .. Len(RulesOf[Configured[i]])
        BY <2>1, LenProperties
      <3> QED
        BY <3>1 DEF PlainRules
    <2> QED
      BY <2>1, <2>2, FirstRuleDecides DEF Participants
  <1>3. Candidates = {r \in ToSet(Configured) : Participates(RulesOf[r], Path)}
    BY RoutedAssumption
  <1>4. Participants \subseteq DOMAIN Configured
    BY DEF Participants
  <1> QED
    BY <1>1, <1>2, <1>3, <1>4

\* A candidate that was configured before another comes before it in the order.
LEMMA ConfiguredOrder ==
    ASSUME NEW i \in DOMAIN Configured, NEW k \in DOMAIN Configured, k < i,
           Configured[i] \in Candidates, Configured[k] \in Candidates
    PROVE  ~(Position[Configured[i]] <= Position[Configured[k]])
PROOF
  <1> DEFINE m == Position[Configured[i]]
             n == Position[Configured[k]]
  <1>0. i \in Nat /\ k \in Nat
    BY LenProperties, RoutedAssumption
  <1>1. \A q \in Candidates : Position[q] \in DOMAIN Order /\ Order[Position[q]] = q
    BY DEF Position, Candidates, ToSet
  <1>2. DOMAIN Order \subseteq Nat
    BY UpstreamAssumption
  <1>3. m \in DOMAIN Order /\ n \in DOMAIN Order /\ Order[m] = Configured[i] /\ Order[n] = Configured[k]
    BY <1>1
  <1> HIDE DEF m, n
  <1>4. CASE m = n
    <2>1. i = k
      BY <1>3, <1>4, RoutedAssumption
    <2> QED
      BY <1>0, <2>1
  <1>5. CASE m < n
    <2>1. PICK x, y \in DOMAIN Configured : x < y /\ Configured[x] = Order[m] /\ Configured[y] = Order[n]
      BY <1>3, <1>5, RoutedAssumption
    <2>2. x = i /\ y = k
      BY <1>3, <2>1, RoutedAssumption
    <2> QED
      BY <1>0, <2>1, <2>2
  <1> QED
    BY <1>2, <1>3, <1>4, <1>5 DEF m, n

\* A search asks by the rules of README (RoutedByRules): whoever is asked is included
\* by the first of its rules that matches, and those included before it in the
\* configuration have been heard of; for rules without `**/`, of any length.
THEOREM Routed == Spec => []RoutedByRules
PROOF
  <1>1. IInv => RoutedByRules
    <2> SUFFICES ASSUME IInv, PlainRules, NEW t \in Tasks
                 PROVE  /\ pc[t] = "sent" /\ job[t].purpose = "main" => \A r \in First(job[t]) :
                              r = job[t].preferred \/ \E i \in Participants :
                                  /\ Configured[i] = r
                                  /\ \A k \in Participants : k < i =>
                                        Configured[k] \in told[t].absent \cup told[t].failed
                        /\ pc[t] \in {"not_found", "gateway"} => \A i \in Participants :
                              Configured[i] \in told[t].absent \cup told[t].failed
      BY DEF RoutedByRules
    <2>1. Candidates = {Configured[i] : i \in Participants}
      BY CandidatesIncluded
    <2>2. Good(pc[t], job[t], told[t]) /\ Placed(pc[t], job[t])
      BY DEF IInv, TasksOK
    <2>3. ASSUME pc[t] = "sent", job[t].purpose = "main", NEW r \in First(job[t]),
                 r # job[t].preferred
          PROVE  \E i \in Participants :
                     /\ Configured[i] = r
                     /\ \A k \in Participants : k < i =>
                           Configured[k] \in told[t].absent \cup told[t].failed
      <3>1. r \in job[t].queue /\ \A s \in job[t].queue : Position[r] <= Position[s]
        BY <2>3 DEF First
      <3>2. r \in Candidates
        BY <2>2, <2>3, <3>1 DEF Placed
      <3>3. PICK i \in Participants : Configured[i] = r
        BY <2>1, <3>2
      <3>4. ASSUME NEW k \in Participants, k < i
            PROVE  Configured[k] \in told[t].absent \cup told[t].failed
        <4>1. Configured[k] \in Candidates
          BY <2>1
        <4>2. i \in DOMAIN Configured /\ k \in DOMAIN Configured
          BY DEF Participants
        <4>3. ~(Position[r] <= Position[Configured[k]])
          BY <3>2, <3>3, <3>4, <4>1, <4>2, ConfiguredOrder
        <4>4. Configured[k] \notin job[t].queue
          BY <3>1, <4>3
        <4> QED
          BY <2>2, <2>3, <4>1, <4>4 DEF Good
      <3> QED
        BY <3>3, <3>4
    <2>4. ASSUME pc[t] \in {"not_found", "gateway"}, NEW i \in Participants
          PROVE  Configured[i] \in told[t].absent \cup told[t].failed
      BY <2>1, <2>2, <2>4 DEF Good
    <2> QED
      BY <2>3, <2>4
  <1> QED
    BY <1>1, Invariant, PTL
================================================================================
