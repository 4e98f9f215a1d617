CONSTANTS
    Indices <- MCIndices
    MaxDepth <- MCMaxDepth

SPECIFICATION Spec

INVARIANT CompareIsLexicographic
