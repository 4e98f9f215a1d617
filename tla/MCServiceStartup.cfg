\* GMainLoopDispatch as util.cpp implements it.
CONSTANTS
    SectionOrder <- MCSectionOrder
    MenuOrder <- MCMenuOrder
    Items <- MCItems
    MaxLen = 2
    MaxSignals = 2
    OffLoopDispatch = TRUE
SPECIFICATION Spec
INVARIANT MergedMenusConsistent
