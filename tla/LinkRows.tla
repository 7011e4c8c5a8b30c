------------------------------ MODULE LinkRows ------------------------------
(***************************************************************************)
(* Rows of the links table as schedules and bulk operations see them       *)
(* (panel/app/lib/bulk.server.ts and schedules.server.ts): some columns,   *)
(* and whether the link is in the trash.                                   *)
(***************************************************************************)
CONSTANTS
    Links,      \* ids of links; the database and the panel sort them alike
    Columns,    \* columns a change may touch: target_url, tag_id, active
    Values      \* what a column may hold

Row == [cols: [Columns -> Values], deleted: BOOLEAN]
NoRow == [cols |-> [c \in {} |-> "none"], deleted |-> FALSE]

\* What a change sets: a value for some of the columns, the others are kept.
Patches == [Columns -> Values \cup {"keep"}]
NoPatch == [c \in Columns |-> "keep"]

Patched(row, patch) ==
    [row EXCEPT !.cols = [c \in Columns |-> IF patch[c] = "keep" THEN row.cols[c] ELSE patch[c]]]

\* The values a patch replaces, and no others.
Replaced(row, patch) ==
    [c \in Columns |-> IF patch[c] = "keep" THEN "keep" ELSE row.cols[c]]

\* A row of link_versions: its source, and the link before and after.
Sources == {"panel", "schedule"}
Version == [by: Sources, before: Row, after: Row]
VersionOf(by, before, after) == [by |-> by, before |-> before, after |-> after]
=============================================================================
