--------------------------- MODULE SerialExecutor ---------------------------
(***************************************************************************)
(* What GMainLoopDispatch promises its callers: every function handed to   *)
(* it is run exactly once, one at a time, in the order the calls were      *)
(* made (the order in which they took GMainLoopDispatch::_lock), and every *)
(* submitted function is eventually run.                                   *)
(***************************************************************************)
EXTENDS Sequences, SequencesExt

CONSTANT Funcs            \* identities of the std::function objects

VARIABLES queue,          \* submitted, not yet started, oldest first
          ran             \* functions started so far, in start order

vars == <<queue, ran>>

Init == queue = <<>> /\ ran = <<>>

\* A caller hands over a function it has not handed over before.
Submit(f) ==
    /\ ~Contains(queue, f)
    /\ ~Contains(ran, f)
    /\ queue' = Append(queue, f)
    /\ UNCHANGED ran

\* The oldest submitted function is started.
Run ==
    /\ queue /= <<>>
    /\ ran' = Append(ran, Head(queue))
    /\ queue' = Tail(queue)

Next == (\E f \in Funcs : Submit(f)) \/ Run

Spec == Init /\ [][Next]_vars /\ WF_vars(Run)

=============================================================================
