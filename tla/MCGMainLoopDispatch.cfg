CONSTANTS
    Main = Main
    None = None
    Workers <- MCWorkers
    MaxCalls <- MCMaxCalls

SPECIFICATION Spec

INVARIANT TypeOK
INVARIANT MutualExclusion
INVARIANT RunsOnLoopThreadOnceLooping
PROPERTY ExecutorSpec
