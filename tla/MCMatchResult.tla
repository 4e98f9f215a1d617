---------------------------- MODULE MCMatchResult ----------------------------
EXTENDS MatchResult

\* A location and its proper prefix: compare_vector decides on length, the
\* case a map keyed by a wrong comparator gets wrong.  Locations differing
\* in an index are covered by MCCompareVector.
MCLocs == {<<0>>, <<0, 1>>}
=============================================================================
