--------------------------- MODULE MCCompareVector ---------------------------
EXTENDS CompareVector

\* Locations of depth up to three over three indices: every case of the
\* loop (a shorter, b shorter, equal, first, middle or last index differs).
MCIndices == {0, 1, 2}
MCMaxDepth == 3
=============================================================================
