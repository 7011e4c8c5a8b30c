----------------------------- MODULE AtomicSwaps -----------------------------
(***************************************************************************)
(* What scheduled swaps promise, with no word about runners, transactions  *)
(* or row locks.  A schedule is pending until it fires, is called off or   *)
(* is given up, and is never heard of again after that.  Firing changes    *)
(* the links it reaches all at once, reaches at least one, none that is in *)
(* the trash, and keeps exactly the values it replaced.  Nothing changes a *)
(* link without a version that says so, taken from the row as it stood.    *)
(***************************************************************************)
EXTENDS LinkRows

CONSTANTS Schedules, Patch

VARIABLES links, newest, status, linkIds, previous

store == <<links, newest, status, linkIds, previous>>

Create(s) ==
    /\ status[s] = "none"
    /\ status' = [status EXCEPT ![s] = "pending"]
    /\ \E ids \in SUBSET Links : linkIds' = [linkIds EXCEPT ![s] = ids]
    /\ UNCHANGED <<links, newest, previous>>

\* The values under the columns the patch sets.
Kept(row, patch) == [c \in Columns |-> IF patch[c] \in Values THEN row.cols[c] ELSE "keep"]

Fire(s) ==
    /\ status[s] = "pending"
    /\ status' = [status EXCEPT ![s] = "completed"]
    /\ \E reached \in SUBSET linkIds[s] :
          /\ reached # {}
          /\ \A l \in reached : ~links[l].deleted
          /\ links' = [l \in Links |-> IF l \in reached THEN Patched(links[l], Patch[s]) ELSE links[l]]
          /\ previous' = [previous EXCEPT ![s] =
                 [l \in Links |-> IF l \in reached THEN Kept(links[l], Patch[s]) ELSE NoPatch]]
          /\ newest' = [l \in Links |-> IF l \in reached THEN VersionOf("schedule", links[l], links'[l])
                                                         ELSE newest[l]]
    /\ UNCHANGED linkIds

\* Called off by somebody, or given up.
End(s) ==
    /\ status[s] = "pending"
    /\ \E end \in {"cancelled", "failed"} : status' = [status EXCEPT ![s] = end]
    /\ UNCHANGED <<links, newest, linkIds, previous>>

\* Anything the panel does to links, an undo included: every link either stays
\* as it is or gets its new row and its version.
Change ==
    /\ \A l \in Links :
          \/ links'[l] = links[l] /\ newest'[l] = newest[l]
          \/ \E by \in Sources : newest'[l] = VersionOf(by, links[l], links'[l])
    /\ UNCHANGED <<status, linkIds, previous>>

Init ==
    /\ links \in [Links -> Row]
    /\ newest = [l \in Links |-> VersionOf("panel", links[l], links[l])]
    /\ status = [s \in Schedules |-> "none"]
    /\ linkIds = [s \in Schedules |-> {}]
    /\ previous = [s \in Schedules |-> [l \in Links |-> NoPatch]]

Next == Change \/ \E s \in Schedules : Create(s) \/ Fire(s) \/ End(s)

Spec == Init /\ [][Next]_store
=============================================================================
