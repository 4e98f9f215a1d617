\* The vardict decoder with make_gvariant_ptr adopting a non-floating value.
CONSTANTS
    NChildren <- MCNChildren
    Keys <- MCKeys
    Decoders = {"vardict"}
    MakePtrContract = "sink_floating"
    None = None
SPECIFICATION Spec
INVARIANT RefsAccounted
