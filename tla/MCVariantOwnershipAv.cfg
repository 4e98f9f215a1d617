\* The av decoder under the same make_gvariant_ptr contract.
CONSTANTS
    NChildren <- MCNChildren
    Keys <- MCKeys
    Decoders = {"av"}
    MakePtrContract = "sink_floating"
    None = None
SPECIFICATION Spec
INVARIANT NoUseAfterFree
