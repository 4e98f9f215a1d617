----------------------------- MODULE MenuMerger -----------------------------
(***************************************************************************)
(* MenuMerger (src/network/menumodel-cpp/menu-merger.h) concatenates the   *)
(* items of several section menus into one GMenu.  It keeps the start      *)
(* position of every appended menu (m_startPositions) and, on each         *)
(* "items-changed" signal of a section (position, removed, added), removes *)
(* and inserts items in its own GMenu at start + position and shifts the   *)
(* start of every later section by added - removed.                        *)
(*                                                                         *)
(* A GMenu emits items-changed synchronously from the mutating call, so a  *)
(* section change and the merger's callback form one step.  Items are     *)
(* abstracted to a small set of labels: only their order matters.          *)
(***************************************************************************)
EXTENDS Naturals, Sequences, SequencesExt

CONSTANTS Sections,   \* the section menus (model values)
          Items,      \* item contents
          MaxLen      \* bound: items per section

ASSUME MaxLen \in Nat \ {0}

VARIABLES section,    \* section[s]: the items of section menu s
          menus,      \* m_menus: appended sections, in append order
          start,      \* m_startPositions
          gmenu       \* m_gmenu: the merged menu

vars == <<section, menus, start, gmenu>>

\* g_menu_insert_item(m, offset, item): an offset past the end appends.
InsertItem(m, offset, item) ==
    IF offset > Len(m) THEN Append(m, item)
    ELSE SubSeq(m, 1, offset) \o <<item>> \o SubSeq(m, offset + 1, Len(m))

\* g_menu_remove(m, offset): g_return_if_fail on an offset past the end.
RemoveItem(m, offset) ==
    IF offset >= Len(m) THEN m
    ELSE SubSeq(m, 1, offset) \o SubSeq(m, offset + 2, Len(m))

Init ==
    /\ section \in [Sections -> BoundedSeq(Items, MaxLen)]
    /\ menus = <<>>
    /\ start = [s \in Sections |-> 0]
    /\ gmenu = <<>>

-----------------------------------------------------------------------------
(* itemsChanged(model, position, removed, added), menu-merger.h 51-80, run *)
(* against the model's new contents `new`.                                 *)

\* The g_menu_remove loop then the g_menu_insert_item loop, i = added-1..0.
RECURSIVE InsertFrom(_, _, _, _, _)
InsertFrom(m, offset, new, position, i) ==
    IF i < 0 THEN m
    ELSE InsertFrom(InsertItem(m, offset, new[position + i + 1]),
                    offset, new, position, i - 1)

RECURSIVE RemoveN(_, _, _)
RemoveN(m, offset, n) ==
    IF n = 0 THEN m ELSE RemoveN(RemoveItem(m, offset), offset, n - 1)

\* Mutant: the insert loop runs i = 0..added-1, at the same offset.
RECURSIVE InsertAscending(_, _, _, _, _, _)
InsertAscending(m, offset, new, position, i, added) ==
    IF i >= added THEN m
    ELSE InsertAscending(InsertItem(m, offset, new[position + i + 1]),
                         offset, new, position, i + 1, added)
MergeItemsAscending(m, offset, new, position, removed, added) ==
    InsertAscending(RemoveN(m, offset, removed), offset, new, position, 0, added)

MergeItems(m, offset, new, position, removed, added) ==
    InsertFrom(RemoveN(m, offset, removed), offset, new, position, added - 1)

\* Index of s in m_menus.
IndexOf(s) == CHOOSE i \in 1..Len(menus) : menus[i] = s

\* Mutant: the shift starts at the changed section instead of after it.
ShiftLaterFromSelf(st, model, delta) ==
    [s \in Sections |->
        IF Contains(menus, s) /\ IndexOf(s) >= IndexOf(model)
          THEN st[s] + delta ELSE st[s]]

\* Mutant: the shift uses removed - added instead of added - removed.
ShiftLaterNegated(st, model, delta) ==
    [s \in Sections |->
        IF Contains(menus, s) /\ IndexOf(s) > IndexOf(model)
          THEN st[s] - delta ELSE st[s]]

\* The m_menus loop: every section after `model` moves by delta.
ShiftLater(st, model, delta) ==
    [s \in Sections |->
        IF Contains(menus, s) /\ IndexOf(s) > IndexOf(model)
          THEN st[s] + delta ELSE st[s]]

ItemsChanged(model, new, position, removed, added) ==
    LET offset == start[model] + position
    IN /\ gmenu' = MergeItems(gmenu, offset, new, position, removed, added)
       /\ start' = ShiftLater(start, model, added - removed)

-----------------------------------------------------------------------------

\* append(menu), menu-merger.h 90-113: start after the last section, record
\* it, add all its items, connect to its items-changed signal.
AppendMenu(s) ==
    /\ LET pos == IF menus = <<>> THEN 0
                  ELSE start[Last(menus)] + Len(section[Last(menus)])
       IN /\ menus' = Append(menus, s)
          /\ start' = [start EXCEPT ![s] = pos]
          /\ gmenu' = MergeItems(gmenu, pos, section[s], 0, 0, Len(section[s]))
    /\ UNCHANGED section

\* A section's GMenu changes: `removed` items at `position` replaced by
\* `ins`.  If the section is appended, items_changed_cb runs in the same
\* step (g_menu emits items-changed synchronously).
SectionChanged(s, position, removed, ins) ==
    LET old == section[s]
        new == SubSeq(old, 1, position) \o ins
                 \o SubSeq(old, position + removed + 1, Len(old))
    IN /\ position + removed <= Len(old)
       /\ Len(new) <= MaxLen
       /\ removed + Len(ins) > 0
       /\ section' = [section EXCEPT ![s] = new]
       /\ IF Contains(menus, s)
            THEN ItemsChanged(s, new, position, removed, Len(ins))
            ELSE UNCHANGED <<start, gmenu>>
       /\ UNCHANGED menus

\* append() does not reject a menu it already holds (the handler would be
\* connected twice and the first copy's start overwritten); its caller,
\* Service(), appends each section once (ServiceStartup), and so does the
\* model.
Next ==
    \/ \E s \in Sections : ~Contains(menus, s) /\ AppendMenu(s)
    \/ \E s \in Sections, position \in 0..MaxLen, removed \in 0..MaxLen,
          ins \in BoundedSeq(Items, MaxLen) :
         SectionChanged(s, position, removed, ins)

Spec == Init /\ [][Next]_vars

-----------------------------------------------------------------------------
TypeOK ==
    /\ section \in [Sections -> BoundedSeq(Items, MaxLen)]
    /\ menus \in Seq(Sections)
    /\ start \in [Sections -> Nat]
    /\ gmenu \in Seq(Items)

\* The merged menu is always the concatenation of the appended sections,
\* in append order, after any sequence of removals and insertions in any of
\* them: the start positions never drift from the section lengths.
MergedIsConcatenation ==
    gmenu = FoldLeft(LAMBDA acc, s : acc \o section[s], <<>>, menus)

=============================================================================
