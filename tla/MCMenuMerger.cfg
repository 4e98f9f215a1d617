CONSTANTS
    Sections <- MCSections
    Items <- MCItems
    MaxLen <- MCMaxLen

SPECIFICATION Spec

INVARIANT TypeOK
INVARIANT MergedIsConcatenation
