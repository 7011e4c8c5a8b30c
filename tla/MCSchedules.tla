----------------------------- MODULE MCSchedules -----------------------------
(* TLC instances of Schedules. *)
EXTENDS Schedules, TLC

CONSTANTS r1, r2, o1, o2, s1, s2

\* s1 sets the target; s2 sets the target of an overlapping selection and
\* pauses it.  Links 1 and 3 have one slug between them.
MCSlug == 1 :> "x" @@ 2 :> "y" @@ 3 :> "x"
MCPatch == [s \in Schedules |-> IF s = s1 THEN [target |-> "b", active |-> "keep"]
                                          ELSE [target |-> "c", active |-> "b"]]
MCFireAt == [s \in Schedules |-> 1]
MCWanted == [s \in Schedules |-> IF s = s1 THEN {1, 2} ELSE {2, 3}]

\* All at one target, active, and some in the trash.
MCStart == {[l \in Links |-> [cols |-> [c \in Columns |-> "a"], deleted |-> l \in T]] :
              T \in {{1}, {3}, {1, 3}}}

MCChanges == {[kind |-> "set", patch |-> [target |-> "c", active |-> "a"]],
              [kind |-> "swap", patch |-> [target |-> "b", active |-> "keep"]],
              [kind |-> "delete", patch |-> NoPatch],
              [kind |-> "restore", patch |-> NoPatch]}
MCTrash == {change \in MCChanges : change.kind \in {"delete", "restore"}}

Symmetry == Permutations(Runners) \cup Permutations(Operators)
=============================================================================
