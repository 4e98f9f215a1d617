---------------------------- MODULE CompareVector ----------------------------
(***************************************************************************)
(* compare_vector (src/tests/integration/indicator/menuharness/            *)
(* MatchResult.cpp), the ordering of failure locations (paths of item      *)
(* indices) in MatchResult's std::map.  std::map needs a strict weak order *)
(* under which equivalent keys are equal vectors; the intended order is    *)
(* the lexicographic one, so that failures print in menu order.  The       *)
(* operator is checked against a reference definition on every pair of    *)
(* vectors up to a bounded length over a bounded alphabet.                 *)
(***************************************************************************)
EXTENDS Naturals, Sequences, SequencesExt

CONSTANTS Indices,    \* item indices a location may hold
          MaxDepth    \* bound: length of a location

Vecs == BoundedSeq(Indices, MaxDepth)

\* Mutant: the loop's "b ran out" test returns true (b shorter means a < b).
RECURSIVE CompareVectorShortFirst(_, _)
CompareVectorShortFirst(a, b) ==
    IF a = <<>> THEN b /= <<>>
    ELSE IF b = <<>> THEN TRUE
    ELSE IF Head(b) > Head(a) THEN TRUE
    ELSE IF Head(a) > Head(b) THEN FALSE
    ELSE CompareVectorShortFirst(Tail(a), Tail(b))

\* operator()(a, b): walk both vectors; the first differing index decides;
\* if a runs out first, a < b exactly when b has elements left.
RECURSIVE CompareVector(_, _)
CompareVector(a, b) ==
    IF a = <<>> THEN b /= <<>>
    ELSE IF b = <<>> THEN FALSE
    ELSE IF Head(b) > Head(a) THEN TRUE
    ELSE IF Head(a) > Head(b) THEN FALSE
    ELSE CompareVector(Tail(a), Tail(b))

\* Reference: strict lexicographic order on sequences of naturals.
LexLess(a, b) ==
    \/ IsStrictPrefix(a, b)
    \/ \E k \in 1..Min({Len(a), Len(b)}) :
         /\ SubSeq(a, 1, k - 1) = SubSeq(b, 1, k - 1)
         /\ a[k] < b[k]

VARIABLES a, b
vars == <<a, b>>

\* Every pair of bounded vectors is one initial state; nothing changes.
Init == a \in Vecs /\ b \in Vecs
Next == UNCHANGED vars
Spec == Init /\ [][Next]_vars

\* compare_vector orders failure locations lexicographically: it is the
\* reference strict order on this pair, and the keys it treats as
\* equivalent (neither less) are exactly equal vectors, as std::map needs.
CompareIsLexicographic ==
    /\ CompareVector(a, b) = LexLess(a, b)
    /\ (~CompareVector(a, b) /\ ~CompareVector(b, a)) = (a = b)
=============================================================================
