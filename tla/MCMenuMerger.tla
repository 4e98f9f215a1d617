---------------------------- MODULE MCMenuMerger ----------------------------
EXTENDS MenuMerger

\* Three sections (as the phone menu has: quick access, Wi-Fi, cellular),
\* so that a change in the first shifts two later sections; two labels and
\* two items per section, so that a change can insert two items at once.
MCSections == {"quickaccess", "wifi", "wwan"}
MCItems == {"a", "b"}
MCMaxLen == 2
=============================================================================
