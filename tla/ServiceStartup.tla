--------------------------- MODULE ServiceStartup ---------------------------
(***************************************************************************)
(* The Service constructor (src/network/service.h) composed with the       *)
(* MenuMerger of each indicator menu and with GMainLoopDispatch.           *)
(*                                                                         *)
(* The main thread runs Service(): it creates the connectivity manager     *)
(* (Manager::createInstance, src/src/connectivity-cpp/src/manager.cpp),    *)
(* then creates each section and adds it to the desktop and the phone menu *)
(* in turn.  Adding a section is MenuMerger::append: compute the start,   *)
(* record it, insert the section's current items, and only then connect    *)
(* to its items-changed signal.  Finally the menus are exported and the    *)
(* main thread enters g_main_loop_run.                                     *)
(*                                                                         *)
(* Meanwhile the platform delivers signals on a bus worker thread.  Each   *)
(* one changes a section's GMenu in a function handed to                   *)
(* GMainLoopDispatch.  util.cpp runs that function on the worker at once  *)
(* when no thread owns the default context (before the loop runs).  With   *)
(* OffLoopDispatch = FALSE it is queued for the main loop instead, as     *)
(* spec.md section 5 requires.  A section change and the items-changed     *)
(* handlers it triggers run as one step.                                   *)
(***************************************************************************)
EXTENDS Naturals, Sequences, SequencesExt

CONSTANTS SectionOrder,     \* sections in the order Service() creates them
          MenuOrder,        \* menus each section is added to, in order
          Items, MaxLen,    \* item contents; bound on items per section
          MaxSignals,       \* bound: platform signals delivered
          OffLoopDispatch   \* GMainLoopDispatch runs callbacks off the loop

Sections == Range(SectionOrder)
Menus == Range(MenuOrder)

\* Service() creates each section once and adds it to each menu once.
ASSUME IsInjective(SectionOrder) /\ IsInjective(MenuOrder)

VARIABLES pc,         \* main thread: where Service() and main() are
          cur,        \* index into SectionOrder of the section being added
          mi,         \* index into MenuOrder (0: section not created yet)
          section,    \* section[s]: items of section s's GMenu
          created,    \* sections constructed so far
          menus, start, gmenu,   \* per menu: its MenuMerger's members
          connected,  \* <<menu, section>> pairs with items_changed_cb connected
          exported,   \* menus exported on the bus
          queue,      \* section changes waiting for dispatch_cb
          signals     \* platform signals delivered so far

vars == <<pc, cur, mi, section, created, menus, start, gmenu, connected,
          exported, queue, signals>>

\* One MenuMerger per menu, for its pure helpers.
MM(m) == INSTANCE MenuMerger WITH menus <- menus[m], start <- start[m],
                                  gmenu <- gmenu[m], Sections <- Sections

Changes == [sec : Sections, position : 0..MaxLen, removed : 0..MaxLen,
            ins : BoundedSeq(Items, MaxLen)]

Init ==
    /\ pc = "create_instance"
    /\ cur = 1
    /\ mi = 0
    /\ section = [s \in Sections |-> <<>>]
    /\ created = {}
    /\ menus = [m \in Menus |-> <<>>]
    /\ start = [m \in Menus |-> [s \in Sections |-> 0]]
    /\ gmenu = [m \in Menus |-> <<>>]
    /\ connected = {}
    /\ exported = {}
    /\ queue = <<>>
    /\ signals = 0

-----------------------------------------------------------------------------
(* Service(), service.h 91-154                                              *)

\* m_manager = Manager::createInstance(): the platform manager is built, or
\* its constructor throws and the catch block calls exit(0).
CreateInstance ==
    /\ pc = "create_instance"
    /\ pc' \in {"create_state", "exited"}
    /\ UNCHANGED <<cur, mi, section, created, menus, start, gmenu, connected,
                   exported, queue, signals>>

\* ModemManager, RootState and the ten IndicatorMenus, each with an empty
\* MenuMerger.
CreateState ==
    /\ pc = "create_state"
    /\ pc' = "create_section"
    /\ UNCHANGED <<cur, mi, section, created, menus, start, gmenu, connected,
                   exported, queue, signals>>

\* m_xSection = std::make_shared<XSection>(...): the section starts with
\* the items the platform state gives it.
CreateSection ==
    LET s == SectionOrder[cur]
    IN /\ pc = "create_section"
       /\ \E init \in BoundedSeq(Items, MaxLen) :
            section' = [section EXCEPT ![s] = init]
       /\ created' = created \cup {s}
       /\ mi' = 1
       /\ pc' = "append_start"
       /\ UNCHANGED <<cur, menus, start, gmenu, connected, exported, queue,
                      signals>>

\* append(), menu-merger.h 92-99: the new section starts after the last.
AppendStartPos(m, s) ==
    IF menus[m] = <<>> THEN 0
    ELSE start[m][Last(menus[m])] + Len(section[Last(menus[m])])

\* append(), menu-merger.h 101-103: record the section and its start.
AppendStart ==
    LET s == SectionOrder[cur]
        m == MenuOrder[mi]
    IN /\ pc = "append_start"
       /\ menus' = [menus EXCEPT ![m] = Append(@, s)]
       /\ start' = [start EXCEPT ![m][s] = AppendStartPos(m, s)]
       /\ pc' = "append_items"
       /\ UNCHANGED <<cur, mi, section, created, gmenu, connected, exported,
                      queue, signals>>

\* append(), menu-merger.h 106: itemsChanged(menu, 0, 0, n_items).
AppendItems ==
    LET s == SectionOrder[cur]
        m == MenuOrder[mi]
    IN /\ pc = "append_items"
       /\ gmenu' = [gmenu EXCEPT ![m] =
                      MM(m)!MergeItems(@, start[m][s], section[s], 0, 0,
                                       Len(section[s]))]
       /\ pc' = "append_connect"
       /\ UNCHANGED <<cur, mi, section, created, menus, start, connected,
                      exported, queue, signals>>

\* append(), menu-merger.h 108-112: connect items_changed_cb; then the next
\* menu, the next section, or the exporters.
AppendConnect ==
    LET s == SectionOrder[cur]
        m == MenuOrder[mi]
    IN /\ pc = "append_connect"
       /\ connected' = connected \cup {<<m, s>>}
       /\ IF mi < Len(MenuOrder)
            THEN /\ mi' = mi + 1 /\ pc' = "append_start" /\ UNCHANGED cur
            ELSE /\ mi' = 0
                 /\ IF cur < Len(SectionOrder)
                      THEN cur' = cur + 1 /\ pc' = "create_section"
                      ELSE UNCHANGED cur /\ pc' = "publish"
       /\ UNCHANGED <<section, created, menus, start, gmenu, exported, queue,
                      signals>>

\* The MenuExporters, the ActionGroupExporter and the bus name.
Publish ==
    /\ pc = "publish"
    /\ exported' = Menus
    /\ pc' = "run"
    /\ UNCHANGED <<cur, mi, section, created, menus, start, gmenu, connected,
                   queue, signals>>

\* main(): g_main_loop_run takes the default context.
RunLoop ==
    /\ pc = "run"
    /\ pc' = "loop"
    /\ UNCHANGED <<cur, mi, section, created, menus, start, gmenu, connected,
                   exported, queue, signals>>

-----------------------------------------------------------------------------
(* Section changes                                                          *)

\* The section's GMenu changes and emits items-changed, and every merger
\* connected to it runs itemsChanged (menu-merger.h 41-80).
ApplyChange(c) ==
    LET s   == c.sec
        old == section[s]
        new == SubSeq(old, 1, c.position) \o c.ins
                 \o SubSeq(old, c.position + c.removed + 1, Len(old))
        add == Len(c.ins)
        hit == {m \in Menus : <<m, s>> \in connected}
    IN /\ section' = [section EXCEPT ![s] = new]
       /\ gmenu' = [m \in Menus |->
                      IF m \in hit
                        THEN MM(m)!MergeItems(gmenu[m], start[m][s] + c.position,
                                              new, c.position, c.removed, add)
                        ELSE gmenu[m]]
       /\ start' = [m \in Menus |->
                      IF m \in hit THEN MM(m)!ShiftLater(start[m], s, add - c.removed)
                      ELSE start[m]]

\* A change the platform can make to section s as it is now: the section's
\* callback rebuilds its items from the platform objects when it runs.
Valid(c, s) ==
    /\ c.sec = s
    /\ c.position + c.removed <= Len(section[s])
    /\ Len(section[s]) - c.removed + Len(c.ins) <= MaxLen
    /\ c.removed + Len(c.ins) > 0

\* The section's callback, wherever it runs.
UpdateSection(s) == \E c \in Changes : Valid(c, s) /\ ApplyChange(c)

\* A platform signal for a created section arrives on a worker thread,
\* which hands the section's callback to GMainLoopDispatch.  Before the
\* loop owns the context, util.cpp 43-46 runs it on the worker at once.
Signal(s) ==
    /\ s \in created
    /\ signals < MaxSignals
    /\ signals' = signals + 1
    /\ IF OffLoopDispatch /\ pc /= "loop"
         THEN UpdateSection(s) /\ UNCHANGED queue
         ELSE queue' = Append(queue, s) /\ UNCHANGED <<section, gmenu, start>>
    /\ UNCHANGED <<pc, cur, mi, created, menus, connected, exported>>

\* dispatch_cb on the main loop runs the oldest queued callback.
Dispatch ==
    /\ pc = "loop"
    /\ queue /= <<>>
    /\ UpdateSection(Head(queue))
    /\ queue' = Tail(queue)
    /\ UNCHANGED <<pc, cur, mi, created, menus, connected, exported, signals>>

\* The loop waits with nothing to do, or the process has exited.
Idle ==
    /\ (pc = "loop" /\ queue = <<>>) \/ pc = "exited"
    /\ UNCHANGED vars

\* The main thread's steps, from createInstance to g_main_loop_run.
MainStep ==
    \/ CreateInstance \/ CreateState \/ CreateSection
    \/ AppendStart \/ AppendItems \/ AppendConnect \/ Publish \/ RunLoop

Next == MainStep \/ (\E s \in Sections : Signal(s)) \/ Dispatch \/ Idle

Spec == Init /\ [][Next]_vars

-----------------------------------------------------------------------------
\* The items the menu m should show: its sections' items, in append order.
Expected(m) == FoldLeft(LAMBDA acc, s : acc \o section[s], <<>>, menus[m])

\* A merger is between append's start and its items (menu-merger.h 103-106).
MidAppend(m) == pc = "append_items" /\ MenuOrder[mi] = m

\* Whenever no append is half done, every indicator menu shows exactly its
\* sections' items, through Service()'s whole construction and the platform
\* signals that race with it: a section change that lands between
\* append()'s itemsChanged and its g_signal_connect is never lost.
MergedMenusConsistent ==
    \A m \in Menus : ~MidAppend(m) => gmenu[m] = Expected(m)


=============================================================================
