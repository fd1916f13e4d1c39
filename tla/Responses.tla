------------------------------- MODULE Responses -------------------------------
(***************************************************************************)
(* What a request for a cached file is answered: the conditional and range *)
(* headers of src/src/server.rs (cached_response and its helpers), with a  *)
(* reference for them.  A validator of the client is the current one, a    *)
(* former one, or absent; a Range header is what its value parses to.      *)
(***************************************************************************)
EXTENDS Naturals

CONSTANTS
    MaxSize        \* bound on the sizes and positions of the reference check

ASSUME SizesAssumption == MaxSize \in Nat

Validators == {"absent", "current", "former"}

\* No Range header; one of another unit or of several ranges; one whose first
\* position, or suffix, is no number; bytes=first-x, where x is none; and
\* bytes=first-last, bytes=first-, bytes=-last.
RangeForms == {"none", "ignored", "garbled", "misended", "closed", "open", "suffix"}
Ranges == [form : RangeForms, first : 0 .. MaxSize + 1, last : 0 .. MaxSize + 1]

Headers == [ifNoneMatch : Validators \cup {"any"}, ifModifiedSince : Validators,
            ifRange : Validators, range : Ranges]

Full == [kind |-> "full", first |-> 0, last |-> 0]
Unsatisfiable == [kind |-> "unsatisfiable", first |-> 0, last |-> 0]
Partial(first, last) == [kind |-> "partial", first |-> first, last |-> last]

Least(x, y) == IF x < y THEN x ELSE y
Saturating(x, y) == IF x < y THEN 0 ELSE x - y

\* (Mutant: the last position is not brought down to the end of the file.)
LastByteUnbounded(range, size) == IF range.form = "open" THEN size - 1 ELSE range.last
LastByte(range, size) ==
    IF range.form = "open" THEN size - 1 ELSE Least(range.last, size - 1)

RequestedRange(range, size) ==
    CASE range.form \in {"none", "ignored"} -> Full
      [] range.form \notin {"none", "ignored"} /\ size = 0 -> Unsatisfiable
      [] range.form = "garbled" /\ size > 0 -> Full
      [] range.form = "suffix" /\ size > 0 ->
            IF range.last = 0 THEN Unsatisfiable
            ELSE Partial(Saturating(size, range.last), size - 1)
      [] range.form \in {"misended", "closed", "open"} /\ size > 0 ->
            IF range.first >= size THEN Unsatisfiable
            ELSE IF range.form = "misended" THEN Full
            ELSE IF LastByte(range, size) < range.first THEN Full
            ELSE Partial(range.first, LastByte(range, size))

\* If-None-Match, when there is one, decides alone.
ClientCacheIsFresh(headers) ==
    IF headers.ifNoneMatch # "absent"
    THEN headers.ifNoneMatch \in {"any", "current"}
    ELSE headers.ifModifiedSince = "current"

IfRangeMatches(headers) == headers.ifRange \in {"absent", "current"}

Answer(status, start, length) == [status |-> status, start |-> start, length |-> length]

CachedResponse(headers, size) ==
    LET range == IF IfRangeMatches(headers) THEN RequestedRange(headers.range, size) ELSE Full
    IN  CASE ClientCacheIsFresh(headers) -> Answer("not_modified", 0, 0)
          [] ~ClientCacheIsFresh(headers) /\ range.kind = "unsatisfiable" ->
                Answer("range_not_satisfiable", 0, 0)
          [] ~ClientCacheIsFresh(headers) /\ range.kind = "full" -> Answer("ok", 0, size)
          [] ~ClientCacheIsFresh(headers) /\ range.kind = "partial" ->
                Answer("partial_content", range.first, Saturating(range.last, range.first) + 1)

-----------------------------------------------------------------------------
(* The reference: the positions of the file that a Range header names.      *)

Named(range, size) ==
    {i \in 0 .. MaxSize : i < size /\
        CASE range.form = "closed" -> range.first <= i /\ i <= range.last
          [] range.form = "open" -> range.first <= i
          [] range.form = "suffix" -> size <= i + range.last
          [] range.form \in {"none", "ignored", "garbled", "misended"} -> FALSE}

\* Whether there is a valid header to be obeyed does not depend on the file: "a
\* last-byte-pos below the first-byte-pos makes the whole header invalid, and an
\* invalid Range header must be ignored" (server.rs).
Invalid(range) ==
    range.form \in {"garbled", "misended"} \/ (range.form = "closed" /\ range.last < range.first)
Asks(range) == range.form \notin {"none", "ignored"} /\ ~Invalid(range)

\* Not so in the code, which compares with the size of the file before it has seen
\* that the header is invalid: these are answered 416.
Disputed(range, size) ==
    Invalid(range) /\ (size = 0 \/ (range.form # "garbled" /\ range.first >= size))

AsNamed(headers, size) ==
    LET answer == CachedResponse(headers, size)
        sent == {i \in 0 .. MaxSize : answer.start <= i /\ i < answer.start + answer.length}
    IN  IF ClientCacheIsFresh(headers) THEN answer.status = "not_modified" /\ sent = {}
        ELSE IF ~(IfRangeMatches(headers) /\ Asks(headers.range)) THEN answer = Answer("ok", 0, size)
        ELSE IF Named(headers.range, size) = {}
             THEN answer.status = "range_not_satisfiable" /\ sent = {}
        ELSE answer.status = "partial_content" /\ sent = Named(headers.range, size)

\* A response holds exactly the bytes its request names: the range, the whole
\* file for a header that is to be ignored, nothing for an unchanged or an
\* unsatisfiable one; and it never reaches past the end of the file.  Of the
\* disputed headers only this is said: they bring no byte of the file.
EveryRangeAsNamed ==
    \A size \in 0 .. MaxSize : \A headers \in Headers :
        \/ AsNamed(headers, size)
        \/ /\ Disputed(headers.range, size)
           /\ CachedResponse(headers, size) = Answer("range_not_satisfiable", 0, 0)
================================================================================
