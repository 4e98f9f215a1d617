----------------------------- MODULE MatchResult -----------------------------
(***************************************************************************)
(* MatchResult (src/tests/integration/indicator/menuharness/               *)
(* MatchResult.cpp): the outcome of matching an exported menu against the  *)
(* expected one.  A result keeps a hard-failure flag, a success flag and a *)
(* map from failure location to the messages recorded there.  Matchers    *)
(* record failures in their own result and merge child results into their *)
(* parent's, so a long sequence of failure() and merge() calls over        *)
(* several results decides what the test prints.                           *)
(*                                                                         *)
(* m_failures is a std::map ordered by compare_vector (CompareVector.tla): *)
(* find() and insert() treat a key as present when an equivalent key      *)
(* (neither less than the other) is.  A location is a vector of item       *)
(* indices; a map is a function over Locs whose empty entries are absent   *)
(* keys.                                                                   *)
(***************************************************************************)
EXTENDS Naturals, Sequences, SequencesExt

CONSTANTS Results,    \* MatchResult objects
          Locs,       \* failure locations: vectors of item indices
          Msgs,       \* failure messages
          MaxMsgs     \* bound: messages per location

VARIABLES hard,       \* hard[r]: p->m_hardFailure
          success,    \* success[r]: p->m_success
          failures,   \* failures[r][l]: p->m_failures[l]; <<>> = no key
          reported    \* history: <<l, m>> pairs reported to r, directly
                      \*   by failure() or through a merged result

vars == <<hard, success, failures, reported>>

NoFailures == [l \in Locs |-> <<>>]

LOCAL CV == INSTANCE CompareVector WITH Indices <- {}, MaxDepth <- 0,
                                        a <- <<>>, b <- <<>>

\* The map's key comparison: neither key is less than the other.
Equivalent(k, l) == ~CV!CompareVector(k, l) /\ ~CV!CompareVector(l, k)

Keys(f) == {k \in Locs : f[k] /= <<>>}

\* m_failures.find(location): the present key equivalent to the location.
\* find() followed by insert() when it fails yields the location itself.
FindOrInsert(f, l) ==
    IF \E k \in Keys(f) : Equivalent(k, l)
    THEN CHOOSE k \in Keys(f) : Equivalent(k, l)
    ELSE l

\* m_failures.insert(e) for each entry e of g: an entry whose key has an
\* equivalent in f is dropped, and f's messages stay as they are.
InsertAll(f, g) ==
    [l \in Locs |-> IF \E k \in Keys(f) : Equivalent(k, l) THEN f[l]
                   ELSE g[l]]

\* MatchResult(): a fresh Priv.
Init ==
    /\ hard = [r \in Results |-> FALSE]
    /\ success = [r \in Results |-> TRUE]
    /\ failures = [r \in Results |-> NoFailures]
    /\ reported = [r \in Results |-> {}]

\* hardFailure()
HardFailure(r) ==
    /\ hard' = [hard EXCEPT ![r] = TRUE]
    /\ success' = [success EXCEPT ![r] = FALSE]
    /\ UNCHANGED <<failures, reported>>

\* failure(location, message): find or insert the key, append the message.
Failure(r, l, m) ==
    LET k == FindOrInsert(failures[r], l)
    IN /\ Len(failures[r][k]) < MaxMsgs
       /\ failures' = [failures EXCEPT ![r][k] = Append(@, m)]
    /\ success' = [success EXCEPT ![r] = FALSE]
    /\ reported' = [reported EXCEPT ![r] = @ \cup {<<l, m>>}]
    /\ UNCHANGED hard

\* Mutant: merge assigns the other's success flag instead of and-ing it.
MergeSuccessAssign(r, o) ==
    /\ hard' = [hard EXCEPT ![r] = @ \/ hard[o]]
    /\ success' = [success EXCEPT ![r] = success[o]]
    /\ failures' = [failures EXCEPT ![r] = InsertAll(@, failures[o])]
    /\ reported' = [reported EXCEPT ![r] = @ \cup reported[o]]

\* merge(other): or the hard flags, and the success flags, and
\* m_failures.insert(e) for each entry of other, which leaves an existing
\* key's messages as they are.
Merge(r, o) ==
    /\ hard' = [hard EXCEPT ![r] = @ \/ hard[o]]
    /\ success' = [success EXCEPT ![r] = @ /\ success[o]]
    /\ failures' = [failures EXCEPT ![r] = InsertAll(@, failures[o])]
    /\ reported' = [reported EXCEPT ![r] = @ \cup reported[o]]

\* operator=(const MatchResult&): copy all three members.
Assign(r, o) ==
    /\ hard' = [hard EXCEPT ![r] = hard[o]]
    /\ success' = [success EXCEPT ![r] = success[o]]
    /\ failures' = [failures EXCEPT ![r] = failures[o]]
    /\ reported' = [reported EXCEPT ![r] = reported[o]]

Next ==
    \/ \E r \in Results : HardFailure(r)
    \/ \E r \in Results, l \in Locs, m \in Msgs : Failure(r, l, m)
    \/ \E r, o \in Results : r /= o /\ (Merge(r, o) \/ Assign(r, o))

Spec == Init /\ [][Next]_vars

-----------------------------------------------------------------------------
\* success() is false exactly when a hard failure or some failure message
\* has reached the result, through any sequence of failure(), merge() and
\* copies over several results.
SuccessMeansClean ==
    \A r \in Results :
        success[r] = (~hard[r] /\ \A l \in Locs : failures[r][l] = <<>>)

\* Every message reported to a result, directly or through a merged child,
\* is among the messages concat_failures() prints for its location.
NoMessageLost ==
    \A r \in Results : \A lm \in reported[r] :
        Contains(failures[r][lm[1]], lm[2])

=============================================================================
