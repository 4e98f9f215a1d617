-------------------------- MODULE GMainLoopDispatch --------------------------
(***************************************************************************)
(* GMainLoopDispatch (src/src/menumodel-cpp/gio-helpers/util.cpp): the     *)
(* helper through which callbacks arriving on bus worker threads are       *)
(* handed to the GLib main loop.  The constructor takes the static mutex   *)
(* _lock and tries g_main_context_acquire on the default context:          *)
(*  - acquired and _funcs empty: unlock, run the function on the calling   *)
(*    thread, release the context;                                         *)
(*  - acquired and _funcs non-empty: push_back, release the context;       *)
(*  - not acquired: g_idle_add(dispatch_cb) if _funcs is empty, push_back. *)
(* dispatch_cb, run by the main loop, walks _funcs under _lock, dropping   *)
(* the lock around every call, then clears the list.                       *)
(*                                                                         *)
(* Each thread keeps a stack of frames so that a function being run may    *)
(* itself construct a GMainLoopDispatch (a nested call).  The main thread  *)
(* starts outside the loop ("before") and enters g_main_loop_run, which    *)
(* holds the default context from then on.                                 *)
(***************************************************************************)
EXTENDS Naturals, Sequences, SequencesExt, FiniteSets

CONSTANTS Main,       \* the thread that runs g_main_loop_run
          Workers,    \* bus worker threads that call GMainLoopDispatch
          MaxCalls,   \* bound: dispatches constructed per thread
          None        \* no thread / no function

Threads == {Main} \cup Workers
FuncIds == Threads \X (1..MaxCalls)

ASSUME Main \notin Workers /\ MaxCalls \in Nat \ {0} /\ None \notin Threads

VARIABLES frames,     \* frames[t]: call stack of thread t, innermost last
          issued,     \* issued[t]: dispatches constructed by t so far
          mtx,        \* holder of GMainLoopDispatch::_lock, or None
          ctxOwner,   \* owner of g_main_context_default(), or None
          ctxDepth,   \* acquire count of the owner (acquire is recursive)
          funcs,      \* GMainLoopDispatch::_funcs
          idle,       \* dispatch_cb idle sources added and not yet removed
          order,      \* history: functions in the order their caller
                      \*   decided, under _lock, how to hand them over
          executed,   \* history: functions in the order they started
          running     \* <<thread, function>> pairs currently executing

vars == <<frames, issued, mtx, ctxOwner, ctxDepth, funcs, idle,
          order, executed, running>>

Frame(pc, fn, pos) == [pc |-> pc, fn |-> fn, pos |-> pos]
Top(t) == Last(frames[t])
SetTop(t, f) == frames' = [frames EXCEPT ![t] = [@ EXCEPT ![Len(@)] = f]]
Pop(t) == frames' = [frames EXCEPT ![t] = Front(@)]
\* Replace the top frame by f and push g above it.
SetTopAndPush(t, f, g) ==
    frames' = [frames EXCEPT ![t] = Append([@ EXCEPT ![Len(@)] = f], g)]

\* Mutant: g_main_context_release treated as non-recursive.
ReleaseCtxNonRecursive ==
    /\ ctxDepth' = ctxDepth - 1
    /\ ctxOwner' = None

\* g_main_context_release on a context t owns.
ReleaseCtx ==
    /\ ctxDepth' = ctxDepth - 1
    /\ ctxOwner' = IF ctxDepth = 1 THEN None ELSE ctxOwner

Init ==
    /\ frames = [t \in Threads |->
                   <<Frame(IF t = Main THEN "before" ELSE "idle", None, 0)>>]
    /\ issued = [t \in Threads |-> 0]
    /\ mtx = None
    /\ ctxOwner = None
    /\ ctxDepth = 0
    /\ funcs = <<>>
    /\ idle = 0
    /\ order = <<>>
    /\ executed = <<>>
    /\ running = {}

-----------------------------------------------------------------------------
(* The constructor GMainLoopDispatch(func), util.cpp 39-62.                *)

\* A thread that is idle, or a function body that is running, constructs a
\* GMainLoopDispatch for a fresh function.
Construct(t) ==
    /\ Top(t).pc \in {"idle", "before", "loop", "body"}
    /\ issued[t] < MaxCalls
    /\ issued' = [issued EXCEPT ![t] = @ + 1]
    /\ frames' = [frames EXCEPT ![t] =
                    Append(@, Frame("lock", <<t, issued[t] + 1>>, 0))]
    /\ UNCHANGED <<mtx, ctxOwner, ctxDepth, funcs, idle, order, executed,
                   running>>

\* std::unique_lock<std::mutex> lock(_lock)
Lock(t) ==
    /\ Top(t).pc = "lock"
    /\ mtx = None
    /\ mtx' = t
    /\ SetTop(t, [Top(t) EXCEPT !.pc = "acquire"])
    /\ UNCHANGED <<issued, ctxOwner, ctxDepth, funcs, idle, order, executed,
                   running>>

\* Mutant: the result of g_main_context_acquire is ignored.
CanAcquireIgnoringOwner(t) == TRUE

CanAcquire(t) == ctxOwner \in {None, t}

\* Mutant: the _funcs.empty() test of the acquired branch is dropped, so the
\* function runs at once even when older ones are queued.
AcquireRunNowIgnoringQueue(t) ==
    /\ Top(t).pc = "acquire"
    /\ CanAcquire(t)
    /\ ctxOwner' = t
    /\ ctxDepth' = ctxDepth + 1
    /\ mtx' = None
    /\ order' = Append(order, Top(t).fn)
    /\ SetTop(t, [Top(t) EXCEPT !.pc = "call"])
    /\ UNCHANGED <<issued, funcs, idle, executed, running>>

\* Context acquired, _funcs empty: lock.unlock(); func(); the release of the
\* context follows when func returns.
AcquireRunNow(t) ==
    /\ Top(t).pc = "acquire"
    /\ CanAcquire(t)
    /\ funcs = <<>>
    /\ ctxOwner' = t
    /\ ctxDepth' = ctxDepth + 1
    /\ mtx' = None
    /\ order' = Append(order, Top(t).fn)
    /\ SetTop(t, [Top(t) EXCEPT !.pc = "call"])
    /\ UNCHANGED <<issued, funcs, idle, executed, running>>

\* Context acquired, _funcs non-empty: push_back, release the context, and
\* the unique_lock destructor unlocks.
AcquireEnqueue(t) ==
    /\ Top(t).pc = "acquire"
    /\ CanAcquire(t)
    /\ funcs /= <<>>
    /\ funcs' = Append(funcs, Top(t).fn)
    /\ order' = Append(order, Top(t).fn)
    /\ mtx' = None
    /\ UNCHANGED <<ctxOwner, ctxDepth>>   \* acquire then release
    /\ Pop(t)
    /\ UNCHANGED <<issued, idle, executed, running>>

\* Context owned by another thread: add the idle source if _funcs was
\* empty, push_back, unlock.
NotAcquiredEnqueue(t) ==
    /\ Top(t).pc = "acquire"
    /\ ~CanAcquire(t)
    /\ idle' = IF funcs = <<>> THEN idle + 1 ELSE idle
    /\ funcs' = Append(funcs, Top(t).fn)
    /\ order' = Append(order, Top(t).fn)
    /\ mtx' = None
    /\ Pop(t)
    /\ UNCHANGED <<issued, ctxOwner, ctxDepth, executed, running>>

\* func() on the calling thread.
CallNow(t) ==
    /\ Top(t).pc = "call"
    /\ executed' = Append(executed, Top(t).fn)
    /\ running' = running \cup {<<t, Top(t).fn>>}
    /\ SetTopAndPush(t, [Top(t) EXCEPT !.pc = "release"],
                        Frame("body", Top(t).fn, 0))
    /\ UNCHANGED <<issued, mtx, ctxOwner, ctxDepth, funcs, idle, order>>

\* g_main_context_release after func() returned.
Release(t) ==
    /\ Top(t).pc = "release"
    /\ ReleaseCtx
    /\ Pop(t)
    /\ UNCHANGED <<issued, mtx, funcs, idle, order, executed, running>>

\* A function body returns to whoever called it.
Return(t) ==
    /\ Top(t).pc = "body"
    /\ running' = running \ {<<t, Top(t).fn>>}
    /\ Pop(t)
    /\ UNCHANGED <<issued, mtx, ctxOwner, ctxDepth, funcs, idle, order,
                   executed>>

-----------------------------------------------------------------------------
(* The main loop and dispatch_cb, util.cpp 25-37.                          *)

\* g_main_loop_run acquires the default context (waiting while another
\* thread owns it) and keeps it while the loop runs.
RunLoop ==
    /\ Top(Main).pc = "before"
    /\ ctxOwner = None
    /\ ctxOwner' = Main
    /\ ctxDepth' = 1
    /\ SetTop(Main, [Top(Main) EXCEPT !.pc = "loop"])
    /\ UNCHANGED <<issued, mtx, funcs, idle, order, executed, running>>

\* The loop dispatches a pending idle source: dispatch_cb starts.
DispatchIdle ==
    /\ Top(Main).pc = "loop"
    /\ idle > 0
    /\ frames' = [frames EXCEPT ![Main] = Append(@, Frame("dlock", None, 1))]
    /\ UNCHANGED <<issued, mtx, ctxOwner, ctxDepth, funcs, idle, order,
                   executed, running>>

\* lock.lock(), then the range-for test: another element, or the end of the
\* list, where _funcs.clear() runs under the lock and the source is removed.
DispatchLock ==
    /\ Top(Main).pc = "dlock"
    /\ mtx = None
    /\ IF Top(Main).pos <= Len(funcs)
         THEN /\ SetTop(Main, [Top(Main) EXCEPT !.pc = "dcall"])
              /\ UNCHANGED <<funcs, idle>>
         ELSE /\ funcs' = <<>>
              /\ idle' = idle - 1
              /\ Pop(Main)
    /\ UNCHANGED <<issued, mtx, ctxOwner, ctxDepth, order, executed, running>>

\* lock.unlock(); (*func)(); on return the loop goes back to lock.lock().
DispatchCall ==
    LET pos == Top(Main).pos
        fn  == funcs[pos]
    IN /\ Top(Main).pc = "dcall"
       /\ executed' = Append(executed, fn)
       /\ running' = running \cup {<<Main, fn>>}
       /\ SetTopAndPush(Main, Frame("dlock", None, pos + 1),
                              Frame("body", fn, 0))
       /\ UNCHANGED <<issued, mtx, ctxOwner, ctxDepth, funcs, idle, order>>

\* Nothing left to do: every thread is back at its base frame and nothing
\* is queued.  The loop waits for events forever.
Quiescent ==
    /\ \A t \in Threads : Len(frames[t]) = 1
    /\ Top(Main).pc = "loop"
    /\ funcs = <<>>
    /\ idle = 0
    /\ UNCHANGED vars

ThreadStep(t) ==
    \/ Construct(t) \/ Lock(t) \/ AcquireRunNow(t) \/ AcquireEnqueue(t)
    \/ NotAcquiredEnqueue(t) \/ CallNow(t) \/ Release(t) \/ Return(t)

LoopStep == RunLoop \/ DispatchIdle \/ DispatchLock \/ DispatchCall

Next == (\E t \in Threads : ThreadStep(t)) \/ LoopStep \/ Quiescent

\* Taking a mutex or the context is only intermittently possible, so those
\* steps are strongly fair; every other step of a started call is weakly
\* fair.  Construct has no fairness: nobody has to dispatch anything.
Fairness ==
    /\ \A t \in Threads :
         /\ SF_vars(Lock(t))
         /\ WF_vars(AcquireRunNow(t) \/ AcquireEnqueue(t)
                    \/ NotAcquiredEnqueue(t))
         /\ WF_vars(CallNow(t)) /\ WF_vars(Release(t)) /\ WF_vars(Return(t))
    /\ SF_vars(RunLoop) /\ WF_vars(DispatchIdle)
    /\ SF_vars(DispatchLock) /\ WF_vars(DispatchCall)

Spec == Init /\ [][Next]_vars /\ Fairness

-----------------------------------------------------------------------------
PCs == {"idle", "before", "loop", "lock", "acquire", "call", "release",
        "body", "dlock", "dcall"}

TypeOK ==
    /\ \A t \in Threads :
         /\ frames[t] \in Seq([pc : PCs, fn : FuncIds \cup {None},
                                 pos : Nat])
         /\ Len(frames[t]) >= 1
    /\ issued \in [Threads -> 0..MaxCalls]
    /\ mtx \in Threads \cup {None}
    /\ ctxOwner \in Threads \cup {None}
    /\ ctxDepth \in Nat
    /\ (ctxOwner = None) = (ctxDepth = 0)
    /\ funcs \in Seq(FuncIds)
    /\ idle \in Nat
    /\ order \in Seq(FuncIds) /\ executed \in Seq(FuncIds)
    /\ running \subseteq Threads \X FuncIds

\* Dispatched functions never run at the same time on two threads: whoever
\* runs one (dispatch_cb on the loop, or a constructor that found _funcs
\* empty) holds the default context for the whole call.
MutualExclusion == Cardinality({r[1] : r \in running}) <= 1

\* GMainLoopDispatch implements a serial FIFO executor: functions start in
\* the order their constructors took _lock, each exactly once, and every
\* handed-over function is eventually started (no lost wake-up between the
\* _funcs.empty() test, g_idle_add and dispatch_cb's final clear()).
Executor == INSTANCE SerialExecutor
              WITH Funcs <- FuncIds,
                   queue <- SubSeq(order, Len(executed) + 1, Len(order)),
                   ran <- executed
ExecutorSpec == Executor!Spec

\* The header of every dispatched consumer (e.g. SimUnlockDialog: "all
\* signals and property changes dispatched from GMainLoop") relies on
\* dispatched functions running on the main-loop thread.  Once
\* g_main_loop_run has started, no worker's function runs: the loop holds
\* the default context, every nested acquire and release of the main
\* thread keeps it, and a worker that started a function before the loop
\* holds the context until it returns, so the loop cannot start under it.
\* (Before the loop starts, a worker does run functions itself; the
\* ServiceStartup runs show what that does to the menus.)
RunsOnLoopThreadOnceLooping ==
    frames[Main][1].pc = "loop" => \A r \in running : r[1] = Main

=============================================================================
