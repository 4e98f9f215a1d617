------------------------- MODULE MCGMainLoopDispatch -------------------------
EXTENDS GMainLoopDispatch

\* Two bus worker threads and the main thread, each constructing at most
\* two dispatches: enough for a worker to find _funcs non-empty, for the
\* main thread to dispatch from inside a dispatched function, and for a
\* worker to run a function before the main loop starts.
MCWorkers == {"w1", "w2"}
MCMaxCalls == 2
=============================================================================
