-------------------------- MODULE SchedulesProofs ---------------------------
(***************************************************************************)
(* Types of Schedules, and why schedules fire atomically, for any links,   *)
(* schedules, runners and operators.  A row is held by one transaction,    *)
(* which therefore writes over what it read; a schedule is applied by one  *)
(* runner, while pending.                                                  *)
(***************************************************************************)
EXTENDS Schedules, FiniteSetTheorems, TLAPS

-----------------------------------------------------------------------------
(* Rows, patches, versions.                                                *)

\* A row nobody has read is not a row.
LEMMA NoRowIsNoRow == NoRow \notin Row
<1>1. ASSUME NoRow \in Row
      PROVE  FALSE
    <2>1. NoRow.cols \in [Columns -> Values]
        BY <1>1 DEF Row
    <2>2. DOMAIN NoRow.cols = Columns /\ DOMAIN NoRow.cols = {}
        BY <2>1 DEF NoRow
    <2>3. QED BY <2>2, ScheduleConstants DEF ScheduleConstants
<1>2. QED BY <1>1

\* Changing a row leaves a row, and what a change replaces is a change.
LEMMA PatchedIsRow ==
    ASSUME NEW row \in Row, NEW patch \in Patches
    PROVE  /\ Patched(row, patch) \in Row
           /\ Patched(row, patch).deleted = row.deleted
           /\ Replaced(row, patch) \in Patches
<1>1. row.cols \in [Columns -> Values]
    BY DEF Row
<1>2. [c \in Columns |-> IF patch[c] = "keep" THEN row.cols[c] ELSE patch[c]] \in [Columns -> Values]
    BY <1>1 DEF Patches
<1>3. Patched(row, patch) \in Row /\ Patched(row, patch).deleted = row.deleted
    BY <1>2 DEF Patched, Row
<1>4. Replaced(row, patch) \in Patches
    BY <1>1 DEF Replaced, Patches
<1>5. QED BY <1>3, <1>4

\* A change that keeps everything is one, and there is a plan of nothing else.
LEMMA NoPatchIsPatch == NoPatch \in Patches /\ NoPlan \in [Links -> Patches]
BY DEF NoPatch, Patches, NoPlan

\* A version of two rows is a version.
LEMMA VersionIsVersion ==
    ASSUME NEW by \in Sources, NEW before \in Row, NEW after \in Row
    PROVE  VersionOf(by, before, after) \in Version
BY DEF VersionOf, Version

\* A bulk operation leaves rows.
LEMMA OutcomeIsRow ==
    ASSUME TypeOK, NEW o \in Operators, NEW l \in Links
    PROVE  Outcome(o, l) \in Row
<1>1. links[l] \in Row /\ plan[o][l] \in Patches
    BY DEF TypeOK, StoreTypeOK, ProcsTypeOK
<1>2. Patched(links[l], plan[o][l]) \in Row
    BY <1>1, PatchedIsRow
<1>3. [links[l] EXCEPT !.deleted = (kind[o] = "delete")] \in Row
    BY <1>1 DEF Row
<1>4. QED BY <1>2, <1>3 DEF Outcome

\* A row that a process holds was read.
LEMMA HeldIsRow ==
    ASSUME TypeOK, NEW p \in Procs, NEW l \in Links, Holds(p, l)
    PROVE  seen[p][l] \in Row
BY DEF TypeOK, ProcsTypeOK, Holds

-----------------------------------------------------------------------------
(* Types.                                                                  *)

\* Firing a schedule keeps the types of the database.
LEMMA ApplyTypes ==
    ASSUME TypeOK, NEW r \in Runners, Apply(r)
    PROVE  StoreTypeOK'
<1> DEFINE s == sched[r]
<1>1. s \in Schedules /\ Patch[s] \in Patches
    BY ScheduleConstants DEF TypeOK, Apply, ScheduleConstants
<1>2. \A l \in Reached(r) : l \in Links /\ seen[r][l] \in Row
    BY HeldIsRow DEF Reached, Procs
<1>3. \A l \in Links : links[l] \in Row
    BY DEF TypeOK, StoreTypeOK
<1>4. links' \in [Links -> Row]
    BY <1>1, <1>3, PatchedIsRow DEF Apply
<1>5. \A l \in Reached(r) : VersionOf("schedule", seen[r][l], links'[l]) \in Version
    BY <1>2, <1>4, VersionIsVersion DEF Sources
<1>6. newest' \in [Links -> Version]
    BY <1>5 DEF Apply, TypeOK, StoreTypeOK
<1>7. \A l \in Reached(r) : Replaced(seen[r][l], Patch[s]) \in Patches
    BY <1>1, <1>2, PatchedIsRow
<1>8. [l \in Links |-> IF l \in Reached(r) THEN Replaced(seen[r][l], Patch[s]) ELSE NoPatch]
          \in [Links -> Patches]
    BY <1>7, NoPatchIsPatch
<1>9. previous' \in [Schedules -> [Links -> Patches]]
    BY <1>1, <1>8 DEF Apply, TypeOK, StoreTypeOK
<1>10. QED BY <1>1, <1>4, <1>6, <1>9 DEF Apply, TypeOK, StoreTypeOK

\* So does the commit of a bulk operation.
LEMMA CommitTypes ==
    ASSUME TypeOK, WritesHeld, NEW o \in Operators, CommitBulk(o)
    PROVE  StoreTypeOK'
<1>1. \A l \in wrote[o] : l \in Links /\ seen[o][l] \in Row /\ Outcome(o, l) \in Row
    BY HeldIsRow, OutcomeIsRow DEF WritesHeld, Procs, TypeOK, ProcsTypeOK
<1>2. links' \in [Links -> Row]
    BY <1>1 DEF CommitBulk, TypeOK, StoreTypeOK
<1>3. \A l \in wrote[o] : VersionOf(SourceOf(o), seen[o][l], Outcome(o, l)) \in Version
    BY <1>1, VersionIsVersion DEF Sources, SourceOf
<1>4. newest' \in [Links -> Version]
    BY <1>3 DEF CommitBulk, TypeOK, StoreTypeOK
<1>5. QED BY <1>2, <1>4 DEF CommitBulk, TypeOK, StoreTypeOK

\* Every step keeps the types of the database.
LEMMA StoreStep ==
    ASSUME TypeOK, WritesHeld, IdleHoldNothing, InsertsNew, [Next]_vars
    PROVE  StoreTypeOK'
<1> USE DEF TypeOK, StoreTypeOK
<1>1. ASSUME NEW r \in Runners, MarkFailed(r)
      PROVE  StoreTypeOK'
    <2>1. sched[r] \in Schedules
        BY <1>1 DEF MarkFailed, Reasons
    <2>2. QED BY <1>1, <2>1 DEF MarkFailed, Done
<1>2. ASSUME NEW o \in Operators, CreateInsert(o)
      PROVE  StoreTypeOK'
    <2>1. sched[o] \in Schedules /\ todo[o] \in SUBSET Links
        BY <1>2 DEF CreateInsert, InsertsNew, ProcsTypeOK, Procs
    <2>2. QED BY <1>2, <2>1 DEF CreateInsert
<1>3. ASSUME NEW s \in Schedules, Cancel(s)
      PROVE  StoreTypeOK'
    BY <1>3 DEF Cancel
<1>4. CASE Tick
    BY <1>4 DEF Tick, store
<1>5. ASSUME NEW r \in Runners, Claim(r) \/ Recheck(r) \/ LockLink(r) \/ NoLiveLinks(r)
      PROVE  StoreTypeOK'
    BY <1>5 DEF Claim, Recheck, LockLink, NoLiveLinks, store
<1>6. ASSUME NEW r \in Runners, LockTimeout(r) \/ CrashRunner(r)
      PROVE  StoreTypeOK'
    BY <1>6 DEF LockTimeout, CrashRunner, Event, store, ScheduleConstants
<1>7. ASSUME NEW o \in Operators, LockOne(o) \/ WriteRestored(o) \/ CrashOperator(o)
      PROVE  StoreTypeOK'
    BY <1>7 DEF LockOne, WriteRestored, CrashOperator, Event, store
<1>8. ASSUME NEW o \in Operators, NEW k, NEW patches, NEW ids, Begin(o, k, patches, ids)
      PROVE  StoreTypeOK'
    BY <1>8 DEF Begin, Event, store
<1>9. ASSUME NEW o \in Operators, NEW s \in Schedules, CreateRead(o, s)
      PROVE  StoreTypeOK'
    BY <1>9 DEF CreateRead, store
<1>10. ASSUME NEW p \in Procs, DeadlockVictim(p)
       PROVE  StoreTypeOK'
    BY <1>10 DEF DeadlockVictim, store
<1>11. CASE UNCHANGED vars
    BY <1>11 DEF vars
<1>12. QED
    BY <1>1, <1>2, <1>3, <1>4, <1>5, <1>6, <1>7, <1>8, <1>9, <1>10, <1>11, ApplyTypes, CommitTypes
    DEF Next, RunnerStep, OperatorStep, BeginBulk, BeginUndo

\* Ending a transaction leaves its process idle and well typed.
LEMMA DoneTypes ==
    ASSUME TypeOK, NEW p \in Procs, Done(p)
    PROVE  /\ pc' \in [Procs -> {"idle", "lock", "write", "insert"} \cup Reasons]
           /\ todo' \in [Procs -> SUBSET Links]
           /\ seen' \in [Procs -> [Links -> Row \cup {NoRow}]]
           /\ sched' \in [Procs -> Schedules \cup {"none"}]
           /\ passed' \in [Runners -> SUBSET Links]
           /\ \A r \in Runners : pc'[r] # "idle" => sched'[r] \in Schedules
<1>1. Nothing \in [Links -> Row \cup {NoRow}]
    BY DEF Nothing
<1>2. QED BY <1>1 DEF TypeOK, ProcsTypeOK, Done, Procs

\* Every step of a runner keeps the types of the processes.
LEMMA RunnerProcs ==
    ASSUME TypeOK, NEW r \in Runners, RunnerStep(r) \/ LockTimeout(r) \/ CrashRunner(r)
    PROVE  ProcsTypeOK' /\ \A q \in Runners : pc'[q] # "idle" => sched'[q] \in Schedules
<1> USE DEF TypeOK, ProcsTypeOK
<1> r \in Procs
    BY DEF Procs
<1>1. CASE Claim(r)
    <2>1. PICK B \in SUBSET Claimable : batch' = [batch EXCEPT ![r] = B]
        BY <1>1 DEF Claim
    <2>2. QED BY <1>1, <2>1 DEF Claim, Claimable, work, request
<1>2. CASE Recheck(r)
    <2>1. PICK s \in batch[r] :
              /\ batch' = [batch EXCEPT ![r] = @ \ {s}]
              /\ \/ /\ pc' = [pc EXCEPT ![r] = "lock"]
                    /\ todo' = [todo EXCEPT ![r] = Targets(s)]
                    /\ sched' = [sched EXCEPT ![r] = s]
                    /\ passed' = [passed EXCEPT ![r] = linkIds[s] \ Targets(s)]
                    /\ UNCHANGED seen
                 \/ UNCHANGED <<pc, todo, seen, sched, passed>>
        BY <1>2 DEF Recheck, work
    <2>2. s \in Schedules /\ Targets(s) \in SUBSET Links /\ linkIds[s] \ Targets(s) \in SUBSET Links
        BY DEF StoreTypeOK, Targets
    <2>3. UNCHANGED <<kind, plan, wrote>>
        BY <1>2 DEF Recheck, request
    <2>4. batch' \in [Runners -> SUBSET Schedules]
        BY <2>1
    <2>5. CASE UNCHANGED <<pc, todo, seen, sched, passed>>
        BY <2>3, <2>4, <2>5
    <2>6. CASE /\ pc' = [pc EXCEPT ![r] = "lock"]
               /\ todo' = [todo EXCEPT ![r] = Targets(s)]
               /\ sched' = [sched EXCEPT ![r] = s]
               /\ passed' = [passed EXCEPT ![r] = linkIds[s] \ Targets(s)]
               /\ UNCHANGED seen
        BY <2>2, <2>3, <2>4, <2>6
    <2>7. QED BY <2>1, <2>5, <2>6
<1>3. CASE LockLink(r)
    <2>1. PICK l \in todo[r] : Lock(r, l) /\ todo' = [todo EXCEPT ![r] = @ \ {l}]
        BY <1>3 DEF LockLink, RunnerNext, First
    <2>2. l \in Links /\ links[l] \in Row
        BY DEF StoreTypeOK
    <2>3. QED BY <1>3, <2>1, <2>2 DEF LockLink, Lock, request
<1>4. CASE Apply(r) \/ MarkFailed(r)
    BY <1>4, DoneTypes DEF Apply, MarkFailed, request
<1>5. CASE NoLiveLinks(r) \/ LockTimeout(r)
    <2>1. Nothing \in [Links -> Row \cup {NoRow}]
        BY DEF Nothing
    <2>2. PICK reason \in Reasons : RollBack(r, reason)
        BY <1>5 DEF NoLiveLinks, LockTimeout, Reasons
    <2>3. pc[r] # "idle"
        BY <1>5 DEF NoLiveLinks, LockTimeout
    <2>4. UNCHANGED <<batch, kind, plan, wrote>>
        BY <1>5 DEF NoLiveLinks, LockTimeout, request
    <2>5. QED BY <2>1, <2>2, <2>3, <2>4 DEF RollBack
<1>6. CASE CrashRunner(r)
    BY <1>6, DoneTypes DEF CrashRunner, request
<1>7. QED BY <1>1, <1>2, <1>3, <1>4, <1>5, <1>6 DEF RunnerStep

\* And so does every step of an operator.
LEMMA OperatorProcs ==
    ASSUME TypeOK, NEW o \in Operators,
           \/ OperatorStep(o) \/ CrashOperator(o)
           \/ \E change \in Changes, ids \in Selections : BeginBulk(o, change, ids)
           \/ \E s \in Schedules : BeginUndo(o, s) \/ CreateRead(o, s)
    PROVE  ProcsTypeOK' /\ \A q \in Runners : pc'[q] # "idle" => sched'[q] \in Schedules
<1> USE DEF TypeOK, ProcsTypeOK
<1> o \in Procs /\ o \notin Runners
    BY ScheduleConstants DEF Procs, ScheduleConstants
<1>1. CASE LockOne(o)
    <2>1. PICK l \in todo[o] :
              \/ todo' = [todo EXCEPT ![o] = @ \ {l}] /\ UNCHANGED <<pc, seen, wrote>>
              \/ /\ Lock(o, l)
                 /\ todo' = [todo EXCEPT ![o] = @ \ {l}]
                 /\ wrote' = [wrote EXCEPT ![o] = IF Skipped(o, l) THEN @ ELSE @ \cup {l}]
                 /\ UNCHANGED pc
              \/ /\ Lock(o, l)
                 /\ pc' = [pc EXCEPT ![o] = "write"]
                 /\ UNCHANGED <<todo, wrote>>
        BY <1>1 DEF LockOne, BulkNext, First
    <2>2. l \in Links /\ links[l] \in Row
        BY DEF StoreTypeOK
    <2>3. UNCHANGED <<sched, batch, passed, kind, plan>>
        BY <1>1 DEF LockOne
    <2>4. CASE todo' = [todo EXCEPT ![o] = @ \ {l}] /\ UNCHANGED <<pc, seen, wrote>>
        BY <2>3, <2>4
    <2>5. CASE /\ Lock(o, l)
               /\ todo' = [todo EXCEPT ![o] = @ \ {l}]
               /\ wrote' = [wrote EXCEPT ![o] = IF Skipped(o, l) THEN @ ELSE @ \cup {l}]
               /\ UNCHANGED pc
        <3>1. wrote' \in [Operators -> SUBSET Links]
            BY <2>2, <2>5
        <3>2. seen' \in [Procs -> [Links -> Row \cup {NoRow}]]
            BY <2>2, <2>5 DEF Lock
        <3>3. QED BY <2>3, <2>5, <3>1, <3>2
    <2>6. CASE Lock(o, l) /\ pc' = [pc EXCEPT ![o] = "write"] /\ UNCHANGED <<todo, wrote>>
        <3>1. seen' \in [Procs -> [Links -> Row \cup {NoRow}]]
            BY <2>2, <2>6 DEF Lock
        <3>2. /\ pc' \in [Procs -> {"idle", "lock", "write", "insert"} \cup Reasons]
              /\ \A q \in Runners : pc'[q] = pc[q]
            BY <2>6
        <3>3. QED BY <2>3, <2>6, <3>1, <3>2
    <2>7. QED BY <2>1, <2>4, <2>5, <2>6
<1>2. CASE WriteRestored(o)
    <2>1. PICK l \in todo[o] :
              \/ LetGo(o, l) /\ UNCHANGED wrote
              \/ /\ pc' = [pc EXCEPT ![o] = "lock"]
                 /\ todo' = [todo EXCEPT ![o] = @ \ {l}]
                 /\ wrote' = [wrote EXCEPT ![o] = @ \cup {l}]
                 /\ UNCHANGED seen
        BY <1>2 DEF WriteRestored, BulkNext, First
    <2>2. UNCHANGED <<sched, batch, passed, kind, plan>>
        BY <1>2 DEF WriteRestored
    <2>3. CASE LetGo(o, l) /\ UNCHANGED wrote
        BY <2>2, <2>3 DEF LetGo
    <2>4. CASE /\ pc' = [pc EXCEPT ![o] = "lock"]
               /\ todo' = [todo EXCEPT ![o] = @ \ {l}]
               /\ wrote' = [wrote EXCEPT ![o] = @ \cup {l}]
               /\ UNCHANGED seen
        BY <2>2, <2>4
    <2>5. QED BY <2>1, <2>3, <2>4
<1>3. CASE CommitBulk(o) \/ CrashOperator(o)
    <2>1. "none" \in Kinds /\ NoPlan \in [Links -> Patches]
        BY NoPatchIsPatch DEF Kinds
    <2>2. Done(o)
        BY <1>3 DEF CommitBulk, CrashOperator
    <2>3. /\ kind' = [kind EXCEPT ![o] = "none"] /\ plan' = [plan EXCEPT ![o] = NoPlan]
          /\ wrote' = [wrote EXCEPT ![o] = {}] /\ batch' = batch
        BY <1>3 DEF CommitBulk, CrashOperator
    <2>4. kind' \in [Operators -> Kinds] /\ plan' \in [Operators -> [Links -> Patches]]
        BY <2>1, <2>3
    <2>5. QED BY <2>2, <2>3, <2>4, DoneTypes
<1>4. CASE CreateInsert(o)
    BY <1>4, DoneTypes DEF CreateInsert, request
<1>5. ASSUME NEW k \in Kinds, NEW patches \in [Links -> Patches], NEW ids \in SUBSET Links,
             Begin(o, k, patches, ids)
      PROVE  ProcsTypeOK' /\ \A q \in Runners : pc'[q] # "idle" => sched'[q] \in Schedules
    BY <1>5 DEF Begin
<1>6. ASSUME NEW change \in Changes, NEW ids \in Selections, BeginBulk(o, change, ids)
      PROVE  ProcsTypeOK' /\ \A q \in Runners : pc'[q] # "idle" => sched'[q] \in Schedules
    <2>1. change.kind \in Kinds /\ change.patch \in Patches /\ ids \in SUBSET Links
        BY ScheduleConstants DEF ScheduleConstants
    <2>2. QED BY <1>5, <1>6, <2>1 DEF BeginBulk
<1>7. ASSUME NEW s \in Schedules, BeginUndo(o, s)
      PROVE  ProcsTypeOK' /\ \A q \in Runners : pc'[q] # "idle" => sched'[q] \in Schedules
    <2>1. "undo" \in Kinds /\ previous[s] \in [Links -> Patches]
        BY DEF Kinds, StoreTypeOK
    <2>2. {l \in Links : previous[s][l] # NoPatch} \in SUBSET Links
        OBVIOUS
    <2>3. Begin(o, "undo", previous[s], {l \in Links : previous[s][l] # NoPatch})
        BY <1>7 DEF BeginUndo
    <2>4. QED BY <1>5, <2>1, <2>2, <2>3
<1>8. ASSUME NEW s \in Schedules, CreateRead(o, s)
      PROVE  ProcsTypeOK' /\ \A q \in Runners : pc'[q] # "idle" => sched'[q] \in Schedules
    <2>1. {l \in Wanted[s] : ~links[l].deleted} \in SUBSET Links
        BY ScheduleConstants DEF ScheduleConstants
    <2>2. QED BY <1>8, <2>1 DEF CreateRead, request
<1>9. QED BY <1>1, <1>2, <1>3, <1>4, <1>6, <1>7, <1>8 DEF OperatorStep

\* Every step keeps every type.
LEMMA TypeStep ==
    ASSUME TypeOK, WritesHeld, IdleHoldNothing, InsertsNew, [Next]_vars
    PROVE  TypeOK'
<1>1. StoreTypeOK'
    BY StoreStep
<1>2. ASSUME NEW p \in Procs, DeadlockVictim(p)
      PROVE  ProcsTypeOK' /\ \A q \in Runners : pc'[q] # "idle" => sched'[q] \in Schedules
    <2> USE DEF TypeOK, ProcsTypeOK
    <2>1. CASE p \in Runners /\ Done(p)
        BY <1>2, <2>1, DoneTypes DEF DeadlockVictim, request
    <2>2. CASE p \in Operators /\ (\E l \in BulkNext(todo[p]) : LetGo(p, l)) /\ UNCHANGED <<sched, passed>>
        <3>1. PICK l \in todo[p] : LetGo(p, l)
            BY <2>2 DEF BulkNext, First
        <3>2. l \in Links /\ p \notin Runners
            BY <2>2, ScheduleConstants DEF ScheduleConstants
        <3>3. QED BY <1>2, <2>2, <3>1, <3>2 DEF DeadlockVictim, LetGo, request, Procs
    <2>3. QED BY <1>2, <2>1, <2>2 DEF DeadlockVictim
<1>3. CASE Tick \/ (\E s \in Schedules : Cancel(s)) \/ UNCHANGED vars
    <2>1. UNCHANGED <<pc, todo, seen, sched, batch, passed, kind, plan, wrote>>
        BY <1>3 DEF Tick, Cancel, vars, work, request
    <2>2. QED BY <1>1, <2>1 DEF TypeOK, ProcsTypeOK
<1>4. QED BY <1>1, <1>2, <1>3, RunnerProcs, OperatorProcs DEF Next, TypeOK

\* The initial state is well typed.
LEMMA InitTypes == Init => TypeOK
<1> SUFFICES ASSUME Init PROVE TypeOK
    OBVIOUS
<1>1. links \in [Links -> Row]
    BY ScheduleConstants DEF Init, ScheduleConstants
<1>2. newest \in [Links -> Version]
    BY <1>1, VersionIsVersion DEF Init, Sources
<1>3. Nothing \in [Links -> Row \cup {NoRow}] /\ NoPlan \in [Links -> Patches] /\ "none" \in Kinds
    BY NoPatchIsPatch DEF Nothing, Kinds
<1>4. StoreTypeOK
    BY <1>1, <1>2, <1>3 DEF Init, StoreTypeOK
<1>5. ProcsTypeOK
    BY <1>3 DEF Init, ProcsTypeOK
<1>6. QED BY <1>4, <1>5 DEF TypeOK, Init, Procs

-----------------------------------------------------------------------------
(* Who touches what.                                                       *)

\* A step lets one process lock a free row, lets go of rows, or changes rows
\* its process holds and lets go of all of them.
LEMMA LockMoves ==
    ASSUME TypeOK, WritesHeld, [Next]_vars
    PROVE  \/ links' = links /\ seen' = seen
           \/ links' = links /\ \E p \in Procs : seen' = [seen EXCEPT ![p] = Nothing]
           \/ links' = links /\ \E p \in Procs, l \in Links : seen' = [seen EXCEPT ![p][l] = NoRow]
           \/ links' = links /\ \E p \in Procs, l \in Links : Free(p, l) /\ Lock(p, l)
           \/ \E p \in Procs : /\ seen' = [seen EXCEPT ![p] = Nothing]
                               /\ \A l \in Links : ~Holds(p, l) => links'[l] = links[l]
<1> DEFINE
       Emptied == links' = links /\ \E p \in Procs : seen' = [seen EXCEPT ![p] = Nothing]
       LetGoOf == links' = links /\ \E p \in Procs, l \in Links : seen' = [seen EXCEPT ![p][l] = NoRow]
       Locks   == links' = links /\ \E p \in Procs, l \in Links : Free(p, l) /\ Lock(p, l)
       Writes  == \E p \in Procs : /\ seen' = [seen EXCEPT ![p] = Nothing]
                                   /\ \A l \in Links : ~Holds(p, l) => links'[l] = links[l]
       Goal == (links' = links /\ seen' = seen) \/ Emptied \/ LetGoOf \/ Locks \/ Writes
<1>0. \A p \in Procs : First(todo[p]) \subseteq Links
    BY DEF First, TypeOK, ProcsTypeOK
<1>1. ASSUME NEW r \in Runners, RunnerStep(r) \/ LockTimeout(r) \/ CrashRunner(r)
      PROVE  Goal
    <2> r \in Procs
        BY DEF Procs
    <2>1. CASE Claim(r) \/ Recheck(r)
        BY <1>1, <2>1 DEF Claim, Recheck, store, work
    <2>2. CASE LockLink(r)
        BY <1>0, <2>2 DEF LockLink, RunnerNext, store
    <2>3. CASE Apply(r)
        BY <2>3 DEF Apply, Done, Reached
    <2>4. CASE NoLiveLinks(r) \/ LockTimeout(r)
        BY <2>4 DEF NoLiveLinks, LockTimeout, RollBack, store
    <2>5. CASE MarkFailed(r) \/ CrashRunner(r)
        BY <2>5 DEF MarkFailed, CrashRunner, Done, store
    <2>6. QED BY <1>1, <2>1, <2>2, <2>3, <2>4, <2>5 DEF RunnerStep
<1>2. ASSUME NEW o \in Operators, OperatorStep(o) \/ CrashOperator(o)
      PROVE  Goal
    <2> o \in Procs
        BY DEF Procs
    <2>1. CASE LockOne(o)
        BY <1>0, <2>1 DEF LockOne, BulkNext, store
    <2>2. CASE WriteRestored(o)
        BY <1>0, <2>2 DEF WriteRestored, LetGo, BulkNext, store
    <2>3. CASE CommitBulk(o)
        BY <2>3 DEF CommitBulk, Done, WritesHeld
    <2>4. CASE CreateInsert(o) \/ CrashOperator(o)
        BY <2>4 DEF CreateInsert, CrashOperator, Done, store
    <2>5. QED BY <1>2, <2>1, <2>2, <2>3, <2>4 DEF OperatorStep
<1>3. ASSUME NEW o \in Operators,
             \/ \E change \in Changes, ids \in Selections : BeginBulk(o, change, ids)
             \/ \E s \in Schedules : BeginUndo(o, s) \/ CreateRead(o, s)
      PROVE  Goal
    BY <1>3 DEF BeginBulk, BeginUndo, Begin, CreateRead, store
<1>4. ASSUME NEW p \in Procs, DeadlockVictim(p)
      PROVE  Goal
    BY <1>0, <1>4 DEF DeadlockVictim, Done, LetGo, BulkNext, store
<1>5. CASE Tick \/ (\E s \in Schedules : Cancel(s)) \/ UNCHANGED vars
    BY <1>5 DEF Tick, Cancel, vars, store, work
<1>6. QED BY <1>1, <1>2, <1>3, <1>4, <1>5 DEF Next

\* Two transactions never hold one row, and what was read under a lock stays true.
LEMMA LocksStep ==
    ASSUME TypeOK, WritesHeld, LocksExclude, SeenIsCurrent, [Next]_vars
    PROVE  LocksExclude' /\ SeenIsCurrent'
<1> USE DEF LocksExclude, SeenIsCurrent, Holds
<1> seen \in [Procs -> [Links -> Row \cup {NoRow}]]
    BY DEF TypeOK, ProcsTypeOK
<1>1. CASE links' = links /\ seen' = seen
    BY <1>1
<1>2. ASSUME NEW p \in Procs, seen' = [seen EXCEPT ![p] = Nothing],
             \A l \in Links : ~Holds(p, l) => links'[l] = links[l]
      PROVE  LocksExclude' /\ SeenIsCurrent'
    BY <1>2 DEF Nothing
<1>3. ASSUME NEW p \in Procs, NEW l \in Links, links' = links, seen' = [seen EXCEPT ![p][l] = NoRow]
      PROVE  LocksExclude' /\ SeenIsCurrent'
    BY <1>3
<1>4. ASSUME NEW p \in Procs, NEW l \in Links, links' = links, Free(p, l), Lock(p, l)
      PROVE  LocksExclude' /\ SeenIsCurrent'
    BY <1>4 DEF Free, Lock
<1>5. QED BY <1>1, <1>2, <1>3, <1>4, LockMoves

\* What operators do leaves the runners where they are, and they start
\* schedules but never end one.
LEMMA OperatorsLeaveRunners ==
    ASSUME TypeOK, IdleHoldNothing, InsertsNew, NEW o \in Operators,
           \/ OperatorStep(o) \/ CrashOperator(o)
           \/ \E change \in Changes, ids \in Selections : BeginBulk(o, change, ids)
           \/ \E s \in Schedules : BeginUndo(o, s) \/ CreateRead(o, s)
    PROVE  /\ \A r \in Runners : /\ pc'[r] = pc[r] /\ todo'[r] = todo[r]
                                 /\ seen'[r] = seen[r] /\ sched'[r] = sched[r]
                                 /\ passed'[r] = passed[r]
           /\ \A s \in Schedules : status[s] = "pending" =>
                 status'[s] = "pending" /\ linkIds'[s] = linkIds[s]
<1> o \in Procs /\ o \notin Runners /\ Runners \subseteq Procs
    BY ScheduleConstants DEF Procs, ScheduleConstants
<1> USE DEF TypeOK, ProcsTypeOK
<1>1. CASE LockOne(o)
    BY <1>1 DEF LockOne, Lock, store
<1>2. CASE WriteRestored(o)
    BY <1>2 DEF WriteRestored, LetGo, store
<1>3. CASE CommitBulk(o) \/ CrashOperator(o)
    BY <1>3 DEF CommitBulk, CrashOperator, Done, store
<1>4. CASE CreateInsert(o)
    BY <1>4 DEF CreateInsert, Done, InsertsNew, StoreTypeOK
<1>5. CASE \/ \E change \in Changes, ids \in Selections : BeginBulk(o, change, ids)
           \/ \E s \in Schedules : BeginUndo(o, s)
    BY <1>5 DEF BeginBulk, BeginUndo, Begin, store
<1>6. CASE \E s \in Schedules : CreateRead(o, s)
    BY <1>6 DEF CreateRead, store
<1>7. QED BY <1>1, <1>2, <1>3, <1>4, <1>5, <1>6 DEF OperatorStep

\* What runners do leaves the operators where they are, and the schedules
\* nobody has stored.
LEMMA RunnersLeaveOperators ==
    ASSUME TypeOK, IdleHoldNothing, AppliesPending, NEW r \in Runners,
           RunnerStep(r) \/ LockTimeout(r) \/ CrashRunner(r)
    PROVE  /\ \A o \in Operators : /\ pc'[o] = pc[o] /\ todo'[o] = todo[o]
                                   /\ seen'[o] = seen[o] /\ sched'[o] = sched[o]
           /\ wrote' = wrote
           /\ \A s \in Schedules : status[s] = "none" => status'[s] = "none"
<1> r \in Procs /\ r \notin Operators /\ Operators \subseteq Procs
    BY ScheduleConstants DEF Procs, ScheduleConstants
<1> USE DEF TypeOK, ProcsTypeOK
<1>1. CASE Claim(r)
    BY <1>1 DEF Claim, work, store, request
<1>2. CASE Recheck(r)
    BY <1>2 DEF Recheck, work, store, request
<1>3. CASE LockLink(r)
    BY <1>3 DEF LockLink, Lock, store, request
<1>4. CASE Apply(r)
    BY <1>4 DEF Apply, Done, AppliesPending, StoreTypeOK, request
<1>5. CASE NoLiveLinks(r) \/ LockTimeout(r)
    BY <1>5 DEF NoLiveLinks, LockTimeout, RollBack, store, request
<1>6. CASE MarkFailed(r)
    BY <1>6 DEF MarkFailed, StillOpen, Done, Reasons, StoreTypeOK, request
<1>7. CASE CrashRunner(r)
    BY <1>7 DEF CrashRunner, Done, store, request
<1>8. QED BY <1>1, <1>2, <1>3, <1>4, <1>5, <1>6, <1>7 DEF RunnerStep

-----------------------------------------------------------------------------
(* Processes.                                                              *)

\* Only an open transaction holds rows.
LEMMA IdleStep ==
    ASSUME TypeOK, IdleHoldNothing, [Next]_vars
    PROVE  IdleHoldNothing'
<1> Runners \cap Operators = {} /\ Procs = Runners \cup Operators
    BY ScheduleConstants DEF ScheduleConstants, Procs
<1> USE DEF IdleHoldNothing, TypeOK, ProcsTypeOK
<1>1. ASSUME NEW p \in Procs, pc' = [pc EXCEPT ![p] = "idle"], seen' = [seen EXCEPT ![p] = Nothing]
      PROVE  IdleHoldNothing'
    BY <1>1
<1>2. ASSUME NEW r \in Runners, NEW reason \in Reasons, RollBack(r, reason)
      PROVE  IdleHoldNothing'
    BY <1>2 DEF RollBack
<1>3. ASSUME NEW p \in Procs, NEW l, pc[p] \in {"lock", "write"}, LetGo(p, l), p \in Operators
      PROVE  IdleHoldNothing'
    BY <1>3 DEF LetGo
<1>4. ASSUME NEW r \in Runners, RunnerStep(r) \/ LockTimeout(r) \/ CrashRunner(r)
      PROVE  IdleHoldNothing'
    <2>1. CASE Claim(r)
        BY <2>1 DEF Claim, work
    <2>2. CASE Recheck(r)
        <3>1. \/ UNCHANGED <<pc, seen>>
              \/ pc' = [pc EXCEPT ![r] = "lock"] /\ UNCHANGED seen
            BY <2>2 DEF Recheck, work
        <3>2. QED BY <3>1
    <2>3. CASE LockLink(r)
        BY <2>3 DEF LockLink, Lock
    <2>4. CASE Apply(r) \/ MarkFailed(r) \/ CrashRunner(r)
        BY <1>1, <2>4 DEF Apply, MarkFailed, CrashRunner, Done
    <2>5. CASE NoLiveLinks(r) \/ LockTimeout(r)
        BY <1>2, <2>5 DEF NoLiveLinks, LockTimeout, Reasons
    <2>6. QED BY <1>4, <2>1, <2>2, <2>3, <2>4, <2>5 DEF RunnerStep
<1>5. ASSUME NEW o \in Operators, OperatorStep(o) \/ CrashOperator(o)
      PROVE  IdleHoldNothing'
    <2>1. CASE LockOne(o)
        <3>1. /\ pc[o] = "lock"
              /\ pc' = pc \/ pc' = [pc EXCEPT ![o] = "write"]
              /\ seen' = seen \/ \E l \in BulkNext(todo[o]) : seen' = [seen EXCEPT ![o][l] = links[l]]
            BY <2>1 DEF LockOne, Lock
        <3>2. pc'[o] \in {"lock", "write"} /\ \A p \in Procs \ {o} : pc'[p] = pc[p] /\ seen'[p] = seen[p]
            BY <3>1
        <3>3. QED BY <3>2, ZenonT(60)
    <2>2. CASE WriteRestored(o)
        <3>1. CASE \E l \in BulkNext(todo[o]) : LetGo(o, l)
            BY <1>3, <2>2, <3>1 DEF WriteRestored
        <3>2. CASE pc' = [pc EXCEPT ![o] = "lock"] /\ UNCHANGED seen
            BY <3>2
        <3>3. QED BY <2>2, <3>1, <3>2 DEF WriteRestored
    <2>3. CASE CommitBulk(o) \/ CreateInsert(o) \/ CrashOperator(o)
        BY <1>1, <2>3 DEF CommitBulk, CreateInsert, CrashOperator, Done
    <2>4. QED BY <1>5, <2>1, <2>2, <2>3 DEF OperatorStep
<1>6. ASSUME NEW o \in Operators,
             \/ \E change \in Changes, ids \in Selections : BeginBulk(o, change, ids)
             \/ \E s \in Schedules : BeginUndo(o, s) \/ CreateRead(o, s)
      PROVE  IdleHoldNothing'
    <2>1. /\ pc[o] = "idle" /\ seen' = seen
          /\ pc' = [pc EXCEPT ![o] = "lock"] \/ pc' = [pc EXCEPT ![o] = "insert"]
        BY <1>6 DEF BeginBulk, BeginUndo, Begin, CreateRead
    <2>2. QED BY <2>1, ZenonT(60)
<1>7. ASSUME NEW p \in Procs, DeadlockVictim(p)
      PROVE  IdleHoldNothing'
    <2>1. pc[p] \in {"lock", "write"}
        BY <1>7 DEF DeadlockVictim, Waiting
    <2>2. CASE p \in Runners /\ Done(p)
        BY <1>1, <2>2 DEF Done
    <2>3. CASE p \in Operators /\ \E l \in BulkNext(todo[p]) : LetGo(p, l)
        BY <1>3, <2>1, <2>3
    <2>4. QED BY <1>7, <2>2, <2>3 DEF DeadlockVictim
<1>8. CASE Tick \/ (\E s \in Schedules : Cancel(s)) \/ UNCHANGED vars
    <2>1. UNCHANGED <<pc, seen>>
        BY <1>8 DEF Tick, Cancel, vars, work
    <2>2. QED BY <2>1
<1>9. QED BY <1>4, <1>5, <1>6, <1>7, <1>8 DEF Next

\* A schedule is applied by one runner, while it is pending, to links it names.
LEMMA RunnersStep ==
    ASSUME TypeOK, IdleHoldNothing, AppliesAlone, AppliesPending, InsertsNew, [Next]_vars
    PROVE  AppliesAlone' /\ AppliesPending'
<1> Runners \cap Operators = {} /\ Procs = Runners \cup Operators
    BY ScheduleConstants DEF ScheduleConstants, Procs
<1>1. ASSUME \A r \in Runners : /\ pc'[r] = pc[r] /\ todo'[r] = todo[r]
                                /\ seen'[r] = seen[r] /\ sched'[r] = sched[r],
             \A s \in Schedules : (\E r \in Runners : pc[r] = "lock" /\ sched[r] = s) =>
                 status'[s] = status[s] /\ linkIds'[s] = linkIds[s]
      PROVE  AppliesAlone' /\ AppliesPending'
    <2>1. AppliesAlone'
        BY <1>1 DEF AppliesAlone
    <2>2. AppliesPending'
        BY <1>1 DEF AppliesPending, Holds
    <2>3. QED BY <2>1, <2>2
\* A runner that is not applying anything any more disturbs nobody.
<1>2. ASSUME NEW r \in Runners, pc'[r] # "lock",
             \A q \in Runners \ {r} : /\ pc'[q] = pc[q] /\ todo'[q] = todo[q]
                                      /\ seen'[q] = seen[q] /\ sched'[q] = sched[q],
             \A s \in Schedules : (\E q \in Runners \ {r} : pc[q] = "lock" /\ sched[q] = s) =>
                 status'[s] = status[s] /\ linkIds'[s] = linkIds[s]
      PROVE  AppliesAlone' /\ AppliesPending'
    <2>1. AppliesAlone'
        BY <1>2 DEF AppliesAlone
    <2>2. AppliesPending'
        BY <1>2 DEF AppliesPending, Holds
    <2>3. QED BY <2>1, <2>2
<1> USE DEF AppliesAlone, AppliesPending, Holds, TypeOK, ProcsTypeOK
<1>3. ASSUME NEW r \in Runners, RunnerStep(r) \/ LockTimeout(r) \/ CrashRunner(r)
      PROVE  AppliesAlone' /\ AppliesPending'
    <2>1. CASE Claim(r)
        BY <1>1, <2>1 DEF Claim, work, store
    <2>2. CASE Recheck(r)
        <3>1. CASE UNCHANGED work
            BY <1>1, <2>2, <3>1 DEF Recheck, work, store
        <3>2. ASSUME NEW s \in batch[r], pc[r] = "idle", status[s] = "pending", ~Locked(s),
                     pc' = [pc EXCEPT ![r] = "lock"],
                     todo' = [todo EXCEPT ![r] = Targets(s)],
                     sched' = [sched EXCEPT ![r] = s], seen' = seen, status' = status,
                     linkIds' = linkIds
              PROVE  AppliesAlone' /\ AppliesPending'
            <4>1. s \in Schedules /\ Targets(s) \subseteq linkIds[s] /\ linkIds[s] \subseteq Links
                BY DEF StoreTypeOK, Targets
            <4>2. seen[r] = Nothing
                BY <3>2 DEF IdleHoldNothing
            <4>3. \A q \in Runners \ {r} : pc[q] = "lock" => sched[q] # s
                BY <3>2 DEF Locked
            <4>4. AppliesAlone'
                BY <3>2, <4>3
            <4>5. AppliesPending'
                BY <3>2, <4>1, <4>2 DEF Nothing
            <4>6. QED BY <4>4, <4>5
        <3>3. QED BY <2>2, <3>1, <3>2 DEF Recheck, store
    <2>3. CASE LockLink(r)
        <3>1. PICK l \in todo[r] : Lock(r, l) /\ todo' = [todo EXCEPT ![r] = @ \ {l}]
            BY <2>3 DEF LockLink, RunnerNext, First
        <3>2. UNCHANGED <<pc, sched, status, linkIds>> /\ pc[r] = "lock"
            BY <2>3 DEF LockLink, store
        <3>3. \A k \in Links : Holds(r, k)' => Holds(r, k) \/ k = l
            BY <3>1 DEF Lock
        <3>4. \A q \in Runners \ {r} : seen'[q] = seen[q] /\ todo'[q] = todo[q]
            BY <3>1 DEF Lock
        <3>5. todo'[r] \subseteq todo[r]
            BY <3>1
        <3>6. QED BY <3>1, <3>2, <3>3, <3>4, <3>5
    <2>4. CASE Apply(r)
        BY <1>2, <2>4 DEF Apply, Done, StoreTypeOK
    <2>5. CASE NoLiveLinks(r) \/ LockTimeout(r)
        <3>1. pc'[r] # "lock"
            BY <2>5 DEF NoLiveLinks, LockTimeout, RollBack
        <3>2. QED BY <1>2, <2>5, <3>1 DEF NoLiveLinks, LockTimeout, RollBack, store
    <2>6. CASE MarkFailed(r)
        BY <1>2, <2>6 DEF MarkFailed, Done, Locked, StoreTypeOK, Reasons
    <2>7. CASE CrashRunner(r)
        BY <1>2, <2>7 DEF CrashRunner, Done, store
    <2>8. QED BY <1>3, <2>1, <2>2, <2>3, <2>4, <2>5, <2>6, <2>7 DEF RunnerStep
<1>4. ASSUME NEW o \in Operators,
             \/ OperatorStep(o) \/ CrashOperator(o)
             \/ \E change \in Changes, ids \in Selections : BeginBulk(o, change, ids)
             \/ \E s \in Schedules : BeginUndo(o, s) \/ CreateRead(o, s)
      PROVE  AppliesAlone' /\ AppliesPending'
    BY <1>1, <1>4, OperatorsLeaveRunners
<1>5. ASSUME NEW p \in Procs, DeadlockVictim(p)
      PROVE  AppliesAlone' /\ AppliesPending'
    <2>1. CASE p \in Runners /\ Done(p)
        BY <1>2, <1>5, <2>1 DEF DeadlockVictim, Done, store
    <2>2. CASE p \in Operators /\ (\E l \in BulkNext(todo[p]) : LetGo(p, l)) /\ UNCHANGED <<sched, passed>>
        BY <1>1, <1>5, <2>2 DEF DeadlockVictim, LetGo, store
    <2>3. QED BY <1>5, <2>1, <2>2 DEF DeadlockVictim
<1>6. ASSUME NEW s \in Schedules, Cancel(s)
      PROVE  AppliesAlone' /\ AppliesPending'
    BY <1>1, <1>6 DEF Cancel, Locked, work, StoreTypeOK
<1>7. CASE Tick \/ UNCHANGED vars
    BY <1>1, <1>7 DEF Tick, vars, work, store
<1>8. QED BY <1>3, <1>4, <1>5, <1>6, <1>7 DEF Next

\* No link a schedule names is lost sight of.
LEMMA AccountedStep ==
    ASSUME TypeOK, IdleHoldNothing, AppliesPending, AllAccounted, InsertsNew, [Next]_vars
    PROVE  AllAccounted'
<1> Runners \cap Operators = {} /\ Procs = Runners \cup Operators
    BY ScheduleConstants DEF ScheduleConstants, Procs
<1> DEFINE Settled(r) == /\ pc'[r] = pc[r] /\ todo'[r] = todo[r] /\ seen'[r] = seen[r]
                         /\ sched'[r] = sched[r] /\ passed'[r] = passed[r]
           NamesKept == \A s \in Schedules : status[s] = "pending" => linkIds'[s] = linkIds[s]
\* A runner that is not applying anything any more has nothing to account for.
<1>1. ASSUME NamesKept, \A r \in Runners : Settled(r) \/ pc'[r] # "lock"
      PROVE  AllAccounted'
    BY <1>1 DEF AllAccounted, AppliesPending, Holds
<1> USE DEF TypeOK, ProcsTypeOK
<1>2. ASSUME NEW r \in Runners, Recheck(r)
      PROVE  AllAccounted'
    <2>1. CASE UNCHANGED <<work, passed>>
        BY <1>1, <1>2, <2>1 DEF Recheck, work, store
    <2>2. ASSUME NEW s \in batch[r], pc' = [pc EXCEPT ![r] = "lock"],
                 todo' = [todo EXCEPT ![r] = Targets(s)], sched' = [sched EXCEPT ![r] = s],
                 passed' = [passed EXCEPT ![r] = linkIds[s] \ Targets(s)],
                 UNCHANGED <<seen, linkIds>>
          PROVE  AllAccounted'
        BY <2>2 DEF AllAccounted, Holds
    <2>3. QED BY <1>2, <2>1, <2>2 DEF Recheck, store
<1>3. ASSUME NEW r \in Runners, LockLink(r)
      PROVE  AllAccounted'
    <2>1. PICK l \in todo[r] : Lock(r, l) /\ todo' = [todo EXCEPT ![r] = @ \ {l}]
        BY <1>3 DEF LockLink, RunnerNext, First
    <2>2. links[l] # NoRow /\ l \in Links
        BY NoRowIsNoRow DEF StoreTypeOK
    <2>3. \A k \in Links : Holds(r, k) \/ k = l => Holds(r, k)'
        BY <2>1, <2>2 DEF Holds, Lock
    <2>4. UNCHANGED <<pc, sched, passed, linkIds>>
        BY <1>3 DEF LockLink, store
    <2>5. \A q \in Runners \ {r} : seen'[q] = seen[q] /\ todo'[q] = todo[q]
        BY <2>1 DEF Lock
    <2>6. \A k \in todo[r] : k \in todo'[r] \/ k = l
        BY <2>1
    <2>7. ASSUME NEW q \in Runners, pc'[q] = "lock", NEW k \in linkIds'[sched'[q]]
          PROVE  k \in todo'[q] \/ Holds(q, k)' \/ k \in passed'[q]
        <3>1. k \in Links /\ (k \in todo[q] \/ Holds(q, k) \/ k \in passed[q])
            BY <2>4, <2>7 DEF AllAccounted, AppliesPending, StoreTypeOK
        <3>2. CASE q = r
            BY <2>2, <2>3, <2>4, <2>6, <3>1, <3>2
        <3>3. CASE q # r
            BY <2>4, <2>5, <3>1, <3>3 DEF Holds
        <3>4. QED BY <3>2, <3>3
    <2>8. QED BY <2>7 DEF AllAccounted
<1>4. ASSUME NEW r \in Runners, Claim(r)
      PROVE  AllAccounted'
    BY <1>1, <1>4 DEF Claim, work, store
<1>5. ASSUME NEW r \in Runners, Apply(r) \/ MarkFailed(r) \/ CrashRunner(r)
      PROVE  AllAccounted'
    BY <1>1, <1>5 DEF Apply, MarkFailed, CrashRunner, Done, store
<1>6. ASSUME NEW r \in Runners, NoLiveLinks(r) \/ LockTimeout(r)
      PROVE  AllAccounted'
    <2>1. pc'[r] # "lock" /\ \A q \in Runners \ {r} : Settled(q)
        BY <1>6 DEF NoLiveLinks, LockTimeout, RollBack
    <2>2. QED BY <1>1, <1>6, <2>1 DEF NoLiveLinks, LockTimeout, store
<1>7. ASSUME NEW o \in Operators,
             \/ OperatorStep(o) \/ CrashOperator(o)
             \/ \E change \in Changes, ids \in Selections : BeginBulk(o, change, ids)
             \/ \E s \in Schedules : BeginUndo(o, s) \/ CreateRead(o, s)
      PROVE  AllAccounted'
    BY <1>1, <1>7, OperatorsLeaveRunners
<1>8. ASSUME NEW p \in Procs, DeadlockVictim(p)
      PROVE  AllAccounted'
    <2>1. CASE p \in Runners /\ Done(p)
        BY <1>1, <1>8, <2>1 DEF DeadlockVictim, Done, store
    <2>2. CASE p \in Operators /\ (\E l \in BulkNext(todo[p]) : LetGo(p, l)) /\ UNCHANGED <<sched, passed>>
        BY <1>1, <1>8, <2>2 DEF DeadlockVictim, LetGo, store
    <2>3. QED BY <1>8, <2>1, <2>2 DEF DeadlockVictim
<1>9. CASE Tick \/ (\E s \in Schedules : Cancel(s)) \/ UNCHANGED vars
    BY <1>1, <1>9 DEF Tick, Cancel, vars, work, store
<1>10. QED BY <1>2, <1>3, <1>4, <1>5, <1>6, <1>7, <1>8, <1>9 DEF Next, RunnerStep

\* A bulk operation has changed only rows it holds and is through with.
LEMMA WritesStep ==
    ASSUME TypeOK, IdleHoldNothing, AppliesPending, WritesHeld, [Next]_vars
    PROVE  WritesHeld'
<1> Runners \cap Operators = {} /\ Procs = Runners \cup Operators
    BY ScheduleConstants DEF ScheduleConstants, Procs
<1> USE DEF WritesHeld, Holds, BulkNext, TypeOK, ProcsTypeOK
<1>1. ASSUME \A o \in Operators : pc'[o] = pc[o] /\ todo'[o] = todo[o] /\ seen'[o] = seen[o],
             wrote' = wrote
      PROVE  WritesHeld'
    BY <1>1
<1>2. ASSUME NEW o \in Operators, wrote'[o] = {}, pc'[o] # "write",
             \A q \in Operators \ {o} :
                 pc'[q] = pc[q] /\ todo'[q] = todo[q] /\ seen'[q] = seen[q] /\ wrote'[q] = wrote[q]
      PROVE  WritesHeld'
    BY <1>2, SMTT(30)
\* While it holds nothing, it has changed nothing.
<1>3. ASSUME NEW o \in Operators, pc[o] \notin {"lock", "write"}
      PROVE  wrote[o] = {}
    <2>1. \A l \in Links : ~Holds(o, l)
        BY <1>3 DEF IdleHoldNothing, Nothing
    <2>2. QED BY <2>1
\* The next link is one link.
<1>4. ASSUME NEW o \in Operators, NEW l \in First(todo[o])
      PROVE  l \in todo[o] /\ First(todo[o]) = {l}
    <2>1. todo[o] \subseteq Links /\ Links \subseteq Nat
        BY ScheduleConstants DEF ScheduleConstants
    <2>2. l \in todo[o] /\ \A k \in todo[o] : l <= k
        BY DEF First
    <2>3. ASSUME NEW m \in First(todo[o])
          PROVE  m = l
        <3>1. m \in todo[o] /\ m <= l
            BY <2>2, <2>3 DEF First
        <3>2. l \in Nat /\ m \in Nat /\ l <= m
            BY <2>1, <2>2, <3>1
        <3>3. QED BY <3>1, <3>2
    <2>4. QED BY <2>2, <2>3
\* A link let go of had not been changed.
<1>5. ASSUME NEW o \in Operators, NEW l \in First(todo[o]), LetGo(o, l), wrote' = wrote
      PROVE  WritesHeld'
    <2>1. l \notin wrote[o]
        BY <1>4, <1>5
    <2>2. /\ pc' = [pc EXCEPT ![o] = "lock"]
          /\ todo' = [todo EXCEPT ![o] = @ \ {l}]
          /\ seen' = [seen EXCEPT ![o][l] = NoRow]
        BY <1>5 DEF LetGo
    <2>3. \A k \in wrote[o] : Holds(o, k)' /\ k \notin todo'[o]
        BY <2>1, <2>2
    <2>4. \A q \in Operators \ {o} :
              pc'[q] = pc[q] /\ todo'[q] = todo[q] /\ seen'[q] = seen[q]
        BY <2>2
    <2>5. pc'[o] # "write"
        BY <2>2
    <2>6. ASSUME NEW q \in Operators
          PROVE  /\ \A k \in wrote'[q] : Holds(q, k)' /\ k \notin todo'[q]
                 /\ pc'[q] = "write" => \A k \in First(todo'[q]) : Holds(q, k)'
        <3>1. CASE q = o
            BY <1>5, <2>3, <2>5, <3>1
        <3>2. CASE q # o
            BY <1>5, <2>4, <3>2
        <3>3. QED BY <3>1, <3>2
    <2>7. QED BY <2>6
<1>6. ASSUME NEW r \in Runners, RunnerStep(r) \/ LockTimeout(r) \/ CrashRunner(r)
      PROVE  WritesHeld'
    BY <1>1, <1>6, RunnersLeaveOperators
<1>7. ASSUME NEW o \in Operators, LockOne(o)
      PROVE  WritesHeld'
    <2>1. PICK l \in First(todo[o]) :
              \/ todo' = [todo EXCEPT ![o] = @ \ {l}] /\ UNCHANGED <<pc, seen, wrote>>
              \/ /\ Lock(o, l)
                 /\ todo' = [todo EXCEPT ![o] = @ \ {l}]
                 /\ wrote' = [wrote EXCEPT ![o] = IF Skipped(o, l) THEN @ ELSE @ \cup {l}]
                 /\ UNCHANGED pc
              \/ /\ Lock(o, l)
                 /\ pc' = [pc EXCEPT ![o] = "write"]
                 /\ UNCHANGED <<todo, wrote>>
        BY <1>7 DEF LockOne
    <2>2. l \in Links /\ links[l] # NoRow /\ First(todo[o]) = {l}
        BY <1>4, NoRowIsNoRow DEF StoreTypeOK
    <2>3. CASE todo' = [todo EXCEPT ![o] = @ \ {l}] /\ UNCHANGED <<pc, seen, wrote>>
        BY <1>7, <2>3 DEF LockOne
    <2>4. CASE /\ Lock(o, l)
               /\ todo' = [todo EXCEPT ![o] = @ \ {l}]
               /\ wrote' = [wrote EXCEPT ![o] = IF Skipped(o, l) THEN @ ELSE @ \cup {l}]
               /\ UNCHANGED pc
        BY <1>7, <2>2, <2>4 DEF LockOne, Lock
    <2>5. CASE Lock(o, l) /\ pc' = [pc EXCEPT ![o] = "write"] /\ UNCHANGED <<todo, wrote>>
        BY <2>2, <2>5 DEF Lock
    <2>6. QED BY <2>1, <2>3, <2>4, <2>5
<1>8. ASSUME NEW o \in Operators, WriteRestored(o)
      PROVE  WritesHeld'
    <2>1. PICK l \in First(todo[o]) :
              \/ LetGo(o, l) /\ UNCHANGED wrote
              \/ /\ pc' = [pc EXCEPT ![o] = "lock"]
                 /\ todo' = [todo EXCEPT ![o] = @ \ {l}]
                 /\ wrote' = [wrote EXCEPT ![o] = @ \cup {l}]
                 /\ UNCHANGED seen
        BY <1>8 DEF WriteRestored
    <2>2. Holds(o, l) /\ l \in Links
        BY <1>8, <1>4 DEF WriteRestored
    <2>3. CASE /\ pc' = [pc EXCEPT ![o] = "lock"]
               /\ todo' = [todo EXCEPT ![o] = @ \ {l}]
               /\ wrote' = [wrote EXCEPT ![o] = @ \cup {l}]
               /\ UNCHANGED seen
        BY <2>2, <2>3
    <2>4. QED BY <1>5, <2>1, <2>3
<1>9. ASSUME NEW o \in Operators, CommitBulk(o) \/ CrashOperator(o) \/ CreateInsert(o)
      PROVE  WritesHeld'
    <2>1. Done(o)
        BY <1>9 DEF CommitBulk, CrashOperator, CreateInsert
    <2>2. wrote' = [wrote EXCEPT ![o] = {}] \/ (wrote' = wrote /\ wrote[o] = {})
        BY <1>3, <1>9 DEF CommitBulk, CrashOperator, CreateInsert, request
    <2>3. QED BY <1>2, <2>1, <2>2 DEF Done
<1>10. ASSUME NEW o \in Operators,
              \/ \E change \in Changes, ids \in Selections : BeginBulk(o, change, ids)
              \/ \E s \in Schedules : BeginUndo(o, s) \/ CreateRead(o, s)
       PROVE  WritesHeld'
    <2>1. /\ pc[o] = "idle" /\ wrote' = wrote /\ seen' = seen
          /\ \E ids : todo' = [todo EXCEPT ![o] = ids]
          /\ pc' = [pc EXCEPT ![o] = "lock"] \/ pc' = [pc EXCEPT ![o] = "insert"]
        BY <1>10 DEF BeginBulk, BeginUndo, Begin, CreateRead, request
    <2>2. wrote[o] = {}
        BY <1>3, <2>1
    <2>3. QED BY <1>2, <2>1, <2>2
<1>11. ASSUME NEW p \in Procs, DeadlockVictim(p)
       PROVE  WritesHeld'
    <2>1. wrote' = wrote
        BY <1>11 DEF DeadlockVictim, request
    <2>2. CASE p \in Runners /\ Done(p)
        BY <1>1, <2>1, <2>2 DEF Done
    <2>3. CASE p \in Operators /\ \E l \in BulkNext(todo[p]) : LetGo(p, l)
        BY <1>5, <2>1, <2>3
    <2>4. QED BY <1>11, <2>2, <2>3 DEF DeadlockVictim
<1>12. CASE Tick \/ (\E s \in Schedules : Cancel(s)) \/ UNCHANGED vars
    BY <1>1, <1>12 DEF Tick, Cancel, vars, work, request
<1>13. QED BY <1>6, <1>7, <1>8, <1>9, <1>10, <1>11, <1>12 DEF Next, OperatorStep

\* A schedule about to be stored is stored by one request, for the first time.
LEMMA InsertsStep ==
    ASSUME TypeOK, IdleHoldNothing, AppliesPending, InsertsNew, [Next]_vars
    PROVE  InsertsNew'
<1> Runners \cap Operators = {} /\ Procs = Runners \cup Operators
    BY ScheduleConstants DEF ScheduleConstants, Procs
<1>1. ASSUME \A o \in Operators : pc'[o] = pc[o] /\ sched'[o] = sched[o],
             \A s \in Schedules : status[s] = "none" => status'[s] = "none"
      PROVE  InsertsNew'
    BY <1>1 DEF InsertsNew
<1>2. ASSUME NEW o \in Operators, pc'[o] # "insert", sched'[o] = "none",
             \A q \in Operators \ {o} : pc'[q] = pc[q] /\ sched'[q] = sched[q],
             \A s \in Schedules : (\E q \in Operators \ {o} : pc[q] = "insert" /\ sched[q] = s) =>
                 status'[s] = status[s]
      PROVE  InsertsNew'
    BY <1>2 DEF InsertsNew
<1> USE DEF TypeOK, ProcsTypeOK
<1>3. ASSUME NEW r \in Runners, RunnerStep(r) \/ LockTimeout(r) \/ CrashRunner(r)
      PROVE  InsertsNew'
    BY <1>1, <1>3, RunnersLeaveOperators
<1>4. ASSUME NEW o \in Operators, LockOne(o) \/ WriteRestored(o)
      PROVE  InsertsNew'
    <2>1. /\ pc[o] # "insert" /\ sched' = sched /\ status' = status
          /\ \/ pc' = pc \/ pc' = [pc EXCEPT ![o] = "lock"] \/ pc' = [pc EXCEPT ![o] = "write"]
        BY <1>4 DEF LockOne, WriteRestored, LetGo, store
    <2>2. sched[o] = "none"
        BY <2>1 DEF InsertsNew
    <2>3. QED BY <1>2, <2>1, <2>2
<1>5. ASSUME NEW o \in Operators, CommitBulk(o) \/ CrashOperator(o)
      PROVE  InsertsNew'
    BY <1>2, <1>5 DEF CommitBulk, CrashOperator, Done, store
<1>6. ASSUME NEW o \in Operators, CreateInsert(o)
      PROVE  InsertsNew'
    BY <1>2, <1>6 DEF CreateInsert, Done, InsertsNew, StoreTypeOK
<1>7. ASSUME NEW o \in Operators,
             \/ \E change \in Changes, ids \in Selections : BeginBulk(o, change, ids)
             \/ \E s \in Schedules : BeginUndo(o, s)
      PROVE  InsertsNew'
    <2>1. pc[o] = "idle" /\ pc' = [pc EXCEPT ![o] = "lock"] /\ sched' = sched /\ status' = status
        BY <1>7 DEF BeginBulk, BeginUndo, Begin, store
    <2>2. sched[o] = "none"
        BY <2>1 DEF InsertsNew
    <2>3. QED BY <1>2, <2>1, <2>2
<1>8. ASSUME NEW o \in Operators, NEW s \in Schedules, CreateRead(o, s)
      PROVE  InsertsNew'
    <2>1. /\ status[s] = "none" /\ status' = status
          /\ \A q \in Operators : sched[q] # s
          /\ pc' = [pc EXCEPT ![o] = "insert"] /\ sched' = [sched EXCEPT ![o] = s]
        BY <1>8 DEF CreateRead, store
    <2>2. QED BY <2>1 DEF InsertsNew
<1>9. ASSUME NEW p \in Procs, DeadlockVictim(p)
      PROVE  InsertsNew'
    <2>1. CASE p \in Runners /\ Done(p)
        BY <1>1, <1>9, <2>1 DEF DeadlockVictim, Done, store
    <2>2. CASE p \in Operators /\ (\E l \in BulkNext(todo[p]) : LetGo(p, l)) /\ UNCHANGED <<sched, passed>>
        <3>1. /\ pc[p] # "insert" /\ sched' = sched /\ status' = status
              /\ pc' = [pc EXCEPT ![p] = "lock"]
            BY <1>9, <2>2 DEF DeadlockVictim, Waiting, LetGo, store
        <3>2. sched[p] = "none"
            BY <2>2, <3>1 DEF InsertsNew
        <3>3. QED BY <1>2, <2>2, <3>1, <3>2
    <2>3. QED BY <1>9, <2>1, <2>2 DEF DeadlockVictim
<1>10. ASSUME NEW s \in Schedules, Cancel(s)
       PROVE  InsertsNew'
    BY <1>1, <1>10 DEF Cancel, work, StoreTypeOK
<1>11. CASE Tick \/ UNCHANGED vars
    BY <1>1, <1>11 DEF Tick, vars, work, store
<1>12. QED BY <1>3, <1>4, <1>5, <1>6, <1>7, <1>8, <1>9, <1>10, <1>11 DEF Next, OperatorStep

-----------------------------------------------------------------------------
(* The invariant.                                                          *)

\* Nobody holds or does anything at first.
LEMMA InitInv == Init => IInv
<1> SUFFICES ASSUME Init PROVE IInv
    OBVIOUS
<1>1. TypeOK
    BY InitTypes
<1>2. \A p \in Procs, l \in Links : ~Holds(p, l)
    BY DEF Init, Holds, Nothing
<1>3. LocksExclude /\ SeenIsCurrent
    BY <1>2 DEF LocksExclude, SeenIsCurrent
<1>4. \A p \in Procs : pc[p] = "idle" /\ sched[p] = "none" /\ seen[p] = Nothing
    BY DEF Init
<1>5. IdleHoldNothing /\ AppliesAlone /\ AppliesPending /\ AllAccounted /\ InsertsNew
    BY <1>4 DEF IdleHoldNothing, AppliesAlone, AppliesPending, AllAccounted, InsertsNew, Procs
<1>6. WritesHeld
    BY <1>4 DEF WritesHeld, Init, Procs
<1>7. QED BY <1>1, <1>3, <1>5, <1>6 DEF IInv

\* The invariant is inductive: it holds of every reachable state.
THEOREM Inductive == Spec => []IInv
<1>1. IInv /\ [Next]_vars => IInv'
    BY TypeStep, LocksStep, IdleStep, RunnersStep, AccountedStep, WritesStep, InsertsStep DEF IInv
<1>2. QED BY <1>1, InitInv, PTL DEF Spec

\* Every variable keeps its type, and whoever works on a schedule has one, for
\* any number of runners, operators, crashes, timeouts and deadlocks
\* (runDueSchedules and applyBulk).
THEOREM TypeCorrect == Spec => []TypeOK
<1>1. IInv => TypeOK
    BY DEF IInv
<1>2. QED BY <1>1, Inductive, PTL

\* A schedule about to be applied reaches every link it names, except those in
\* the trash and those that were when they were selected, whoever deleted or
\* restored links meanwhile (applyScheduleRow).
THEOREM ReachesAllLive == Spec => []FiresOnAllLive
<1>1. IInv => FiresOnAllLive
    <2> SUFFICES ASSUME IInv, NEW r \in Runners, pc[r] = "lock", todo[r] = {},
                        NEW l \in linkIds[sched[r]] \ Reached(r), l \notin passed[r]
                 PROVE  links[l].deleted
        BY DEF FiresOnAllLive
    <2>1. l \in Links /\ r \in Procs
        BY DEF IInv, AppliesPending, TypeOK, StoreTypeOK, Procs
    <2>2. Holds(r, l)
        BY DEF IInv, AllAccounted
    <2>3. seen[r][l].deleted /\ seen[r][l] = links[l]
        BY <2>1, <2>2 DEF Reached, IInv, SeenIsCurrent
    <2>4. QED BY <2>3
<1>2. QED BY <1>1, Inductive, PTL

-----------------------------------------------------------------------------
(* Rows are locked in the order of their ids.                              *)

\* A set of naturals has a least element.
LEMMA LeastOf ==
    ASSUME NEW T \in SUBSET Nat, T # {}
    PROVE  \E n \in T : \A m \in T : n <= m
<1>1. PICK n \in T : \A m \in T : ~(<<m, n>> \in OpToRel(<, Nat))
    BY NatLessThanWellFounded, WFMin
<1>2. \A m \in T : ~(m < n)
    BY <1>1 DEF OpToRel
<1>3. QED BY <1>2

\* A finite one has a greatest: take the smallest that had none, and an element
\* out of it.
LEMMA GreatestOf ==
    ASSUME NEW T \in SUBSET Nat, T # {}, IsFiniteSet(T)
    PROVE  \E n \in T : \A m \in T : m <= n
<1> DEFINE Topped(U) == \E n \in U : \A m \in U : m <= n
           Sizes == {n \in Nat : \E U \in SUBSET T : U # {} /\ IsFiniteSet(U) /\ Cardinality(U) = n /\ ~Topped(U)}
<1>1. SUFFICES ASSUME ~Topped(T) PROVE FALSE
    OBVIOUS
<1>2. Cardinality(T) \in Sizes
    BY <1>1, FS_CardinalityType
<1>3. PICK n \in Sizes : \A m \in Sizes : n <= m
    BY <1>2, LeastOf
<1>4. PICK U \in SUBSET T : U # {} /\ IsFiniteSet(U) /\ Cardinality(U) = n /\ ~Topped(U)
    BY <1>3
<1>5. PICK x \in U : TRUE
    BY <1>4
<1>6. IsFiniteSet(U \ {x}) /\ Cardinality(U \ {x}) = n - 1 /\ Cardinality(U \ {x}) \in Nat
    BY <1>4, <1>5, FS_RemoveElement, FS_CardinalityType
<1>7. CASE U \ {x} = {}
    BY <1>4, <1>5, <1>7
<1>8. CASE U \ {x} # {}
    <2>1. Topped(U \ {x})
        <3> SUFFICES ASSUME ~Topped(U \ {x}) PROVE FALSE
            OBVIOUS
        <3>1. n - 1 \in Sizes
            BY <1>4, <1>6, <1>8
        <3>2. n \in Nat /\ n <= n - 1
            BY <1>3, <3>1
        <3>3. QED BY <3>2
    <2>2. PICK m \in U \ {x} : \A k \in U \ {x} : k <= m
        BY <2>1
    <2>3. \A k \in U : k <= IF m <= x THEN x ELSE m
        BY <1>5, <2>2
    <2>4. QED BY <1>4, <1>5, <2>2, <2>3
<1>9. QED BY <1>7, <1>8

\* Whoever has rows still to lock holds only rows that come before them; one about
\* to write a restored row holds the first of them already.
Ascends(p) ==
    \A l \in Links : \A k \in todo[p] : Holds(p, l) => l <= k /\ (pc[p] # "write" => l < k)
Ascending == \A p \in Procs : Ascends(p)

\* The next row to lock is one of the first of those still to lock.
LEMMA NextIsFirst ==
    ASSUME TypeOK, NEW p \in Procs, NEW l \in First(todo[p])
    PROVE  l \in todo[p] /\ l \in Links /\ l \in Nat /\ todo[p] \subseteq Nat /\ \A k \in todo[p] \ {l} : l < k
<1>1. todo[p] \subseteq Links /\ Links \subseteq Nat
    BY ScheduleConstants DEF TypeOK, ProcsTypeOK
<1>2. l \in todo[p] /\ \A k \in todo[p] : l <= k
    BY DEF First
<1>3. l \in Links /\ l \in Nat /\ todo[p] \subseteq Nat
    BY <1>1, <1>2
<1>4. ASSUME NEW k \in todo[p] \ {l} PROVE l < k
    <2>1. l <= k /\ k # l /\ k \in Nat
        BY <1>2, <1>3
    <2>2. QED BY <1>3, <2>1
<1>5. QED BY <1>2, <1>3, <1>4

\* A process that lets go of its rows, or has none, ascends.
LEMMA EmptyAscends ==
    ASSUME NEW p \in Procs, seen'[p] = Nothing
    PROVE  Ascends(p)'
BY DEF Ascends, Holds, Nothing

\* One that takes the next row ascends still, whether it is through with it or
\* has it yet to write, and so does one that is through with the next one.
LEMMA NextAscends ==
    ASSUME TypeOK, NEW p \in Procs, Ascends(p), NEW l \in First(todo[p]),
           \A k \in Links : k # l /\ Holds(p, k)' => Holds(p, k),
           \/ todo'[p] = todo[p] \ {l} /\ pc'[p] = "lock"
           \/ todo'[p] = todo[p] /\ pc'[p] = "write"
    PROVE  Ascends(p)'
<1>1. l \in todo[p] /\ l \in Links /\ l \in Nat /\ todo[p] \subseteq Nat /\ \A k \in todo[p] \ {l} : l < k
    BY NextIsFirst
<1>2. Links \subseteq Nat
    BY ScheduleConstants
<1>3. SUFFICES ASSUME NEW j \in Links, NEW k \in todo'[p], Holds(p, j)'
               PROVE  j <= k /\ (pc'[p] # "write" => j < k)
    BY DEF Ascends
<1>4. j \in Nat /\ k \in Nat /\ k \in todo[p]
    BY <1>1, <1>2
<1>5. j = l \/ j <= l
    BY <1>1, <1>3 DEF Ascends
<1>6. CASE todo'[p] = todo[p] \ {l} /\ pc'[p] = "lock"
    <2>1. l < k
        BY <1>1, <1>6
    <2>2. QED BY <1>1, <1>4, <1>5, <2>1
<1>7. CASE todo'[p] = todo[p] /\ pc'[p] = "write"
    <2>1. l <= k
        BY <1>1, <1>4
    <2>2. QED BY <1>1, <1>4, <1>5, <1>7, <2>1
<1>8. QED BY <1>6, <1>7

\* Every step keeps the order.
LEMMA AscendsStep ==
    ASSUME TypeOK, IdleHoldNothing, Ascending, [Next]_vars
    PROVE  Ascending'
<1> Runners \cap Operators = {} /\ Procs = Runners \cup Operators
    BY ScheduleConstants DEF Procs
<1>1. /\ pc \in [Procs -> {"idle", "lock", "write", "insert"} \cup Reasons] /\ todo \in [Procs -> SUBSET Links]
      /\ seen \in [Procs -> [Links -> Row \cup {NoRow}]]
    BY DEF TypeOK, ProcsTypeOK
<1>2. ASSUME NEW p \in Procs, pc'[p] = pc[p], todo'[p] = todo[p], seen'[p] = seen[p]
      PROVE  Ascends(p)'
    BY <1>2 DEF Ascending, Ascends, Holds
<1>3. ASSUME NEW q \in Procs, Ascends(q)',
             \A p \in Procs \ {q} : pc'[p] = pc[p] /\ todo'[p] = todo[p] /\ seen'[p] = seen[p]
      PROVE  Ascending'
    BY <1>2, <1>3 DEF Ascending
<1>4. ASSUME NEW q \in Procs, Done(q) PROVE Ascending'
    <2>1. seen'[q] = Nothing
        BY <1>1, <1>4 DEF Done
    <2>2. \A p \in Procs \ {q} : pc'[p] = pc[p] /\ todo'[p] = todo[p] /\ seen'[p] = seen[p]
        BY <1>1, <1>4 DEF Done
    <2>3. QED BY <1>3, <2>1, <2>2, EmptyAscends
<1>5. ASSUME NEW r \in Runners, NEW reason, RollBack(r, reason) PROVE Ascending'
    <2>1. seen'[r] = Nothing
        BY <1>1, <1>5 DEF RollBack
    <2>2. \A p \in Procs \ {r} : pc'[p] = pc[p] /\ todo'[p] = todo[p] /\ seen'[p] = seen[p]
        BY <1>1, <1>5 DEF RollBack
    <2>3. QED BY <1>3, <2>1, <2>2, EmptyAscends
<1>6. ASSUME NEW q \in Procs, pc[q] = "idle", seen' = seen,
             \A p \in Procs \ {q} : pc'[p] = pc[p] /\ todo'[p] = todo[p]
      PROVE  Ascending'
    <2>1. seen'[q] = Nothing
        BY <1>6 DEF IdleHoldNothing
    <2>2. QED BY <1>3, <1>6, <2>1, EmptyAscends
<1>7. ASSUME NEW q \in Procs, pc[q] \in {"lock", "write"}, NEW l \in First(todo[q]), LetGo(q, l)
      PROVE  Ascending'
    <2>1. /\ pc'[q] = "lock" /\ todo'[q] = todo[q] \ {l} /\ seen'[q] = [seen[q] EXCEPT ![l] = NoRow]
          /\ \A p \in Procs \ {q} : pc'[p] = pc[p] /\ todo'[p] = todo[p] /\ seen'[p] = seen[p]
        BY <1>1, <1>7 DEF LetGo
    <2>2. \A k \in Links : k # l /\ Holds(q, k)' => Holds(q, k)
        BY <1>1, <2>1 DEF Holds
    <2>3. Ascends(q)'
        BY <2>1, <2>2, NextAscends DEF Ascending
    <2>4. QED BY <1>3, <2>1, <2>3
<1>8. ASSUME NEW q \in Procs, NEW l \in First(todo[q]), pc[q] = "lock" \/ pc[q] = "write",
             \/ pc' = pc /\ pc[q] = "lock" /\ todo' = [todo EXCEPT ![q] = @ \ {l}]
             \/ pc' = [pc EXCEPT ![q] = "lock"] /\ todo' = [todo EXCEPT ![q] = @ \ {l}]
             \/ pc' = [pc EXCEPT ![q] = "write"] /\ UNCHANGED todo,
             seen' = seen \/ Lock(q, l)
      PROVE  Ascending'
    <2>1. \A p \in Procs \ {q} : pc'[p] = pc[p] /\ todo'[p] = todo[p] /\ seen'[p] = seen[p]
        BY <1>1, <1>8 DEF Lock
    <2>2. \A k \in Links : k # l /\ Holds(q, k)' => Holds(q, k)
        BY <1>1, <1>8 DEF Holds, Lock
    <2>3. \/ todo'[q] = todo[q] \ {l} /\ pc'[q] = "lock"
          \/ todo'[q] = todo[q] /\ pc'[q] = "write"
        BY <1>1, <1>8
    <2>4. Ascends(q)'
        BY <2>2, <2>3, NextAscends DEF Ascending
    <2>5. QED BY <1>3, <2>1, <2>4
<1>9. ASSUME UNCHANGED <<pc, todo, seen>> PROVE Ascending'
    BY <1>2, <1>9 DEF Ascending
<1>10. ASSUME NEW r \in Runners, RunnerStep(r) \/ LockTimeout(r) \/ CrashRunner(r)
       PROVE  Ascending'
    <2>1. CASE Claim(r)
        BY <1>9, <2>1 DEF Claim, work
    <2>2. CASE Recheck(r)
        <3>1. UNCHANGED <<pc, todo, seen>> \/ (pc[r] = "idle" /\ seen' = seen
                /\ \A p \in Procs \ {r} : pc'[p] = pc[p] /\ todo'[p] = todo[p])
            BY <1>1, <2>2 DEF Recheck, work
        <3>2. QED BY <1>6, <1>9, <3>1
    <2>3. CASE LockLink(r)
        BY <1>8, <2>3 DEF LockLink, RunnerNext
    <2>4. CASE Apply(r) \/ MarkFailed(r) \/ CrashRunner(r)
        BY <1>4, <2>4 DEF Apply, MarkFailed, CrashRunner
    <2>5. CASE NoLiveLinks(r) \/ LockTimeout(r)
        BY <1>5, <2>5 DEF NoLiveLinks, LockTimeout
    <2>6. QED BY <1>10, <2>1, <2>2, <2>3, <2>4, <2>5 DEF RunnerStep
<1>11. ASSUME NEW o \in Operators, OperatorStep(o) \/ CrashOperator(o)
       PROVE  Ascending'
    <2>1. CASE LockOne(o)
        BY <1>8, <2>1 DEF LockOne, BulkNext
    <2>2. CASE WriteRestored(o)
        <3>1. pc[o] = "write"
            BY <2>2 DEF WriteRestored
        <3>2. CASE \E l \in First(todo[o]) : LetGo(o, l)
            BY <1>7, <3>1, <3>2
        <3>3. CASE \E l \in First(todo[o]) :
                      pc' = [pc EXCEPT ![o] = "lock"] /\ todo' = [todo EXCEPT ![o] = @ \ {l}] /\ UNCHANGED seen
            BY <1>8, <3>1, <3>3
        <3>4. QED BY <2>2, <3>2, <3>3 DEF WriteRestored, BulkNext
    <2>3. CASE CommitBulk(o) \/ CreateInsert(o) \/ CrashOperator(o)
        BY <1>4, <2>3 DEF CommitBulk, CreateInsert, CrashOperator
    <2>4. QED BY <1>11, <2>1, <2>2, <2>3 DEF OperatorStep
<1>12. ASSUME NEW o \in Operators,
              \/ \E change \in Changes, ids \in Selections : BeginBulk(o, change, ids)
              \/ \E s \in Schedules : BeginUndo(o, s) \/ CreateRead(o, s)
       PROVE  Ascending'
    <2>1. /\ pc[o] = "idle" /\ seen' = seen
          /\ \A p \in Procs \ {o} : pc'[p] = pc[p] /\ todo'[p] = todo[p]
        BY <1>1, <1>12 DEF BeginBulk, BeginUndo, Begin, CreateRead
    <2>2. QED BY <1>6, <2>1
<1>13. ASSUME NEW p \in Procs, DeadlockVictim(p)
       PROVE  Ascending'
    <2>1. pc[p] \in {"lock", "write"}
        BY <1>13 DEF DeadlockVictim, Waiting
    <2>2. CASE Done(p)
        BY <1>4, <2>2
    <2>3. CASE \E l \in First(todo[p]) : LetGo(p, l)
        BY <1>7, <2>1, <2>3
    <2>4. QED BY <1>13, <2>2, <2>3 DEF DeadlockVictim, BulkNext
<1>14. CASE Tick \/ (\E s \in Schedules : Cancel(s)) \/ UNCHANGED vars
    BY <1>9, <1>14 DEF Tick, Cancel, vars, work
<1>15. QED BY <1>10, <1>11, <1>12, <1>13, <1>14 DEF Next

\* For any number of runners, operators and links: processes that wait for rows
\* alone never wait in a circle, because one of them waits for the row with the
\* greatest id, and whoever holds it has only rows past it to lock
\* (schedules.server.ts, ORDER BY id; bulk.server.ts, uniqueIds).
THEOREM RowsInOrder == Spec => []RowsNeverDeadlock
<1>1. Init => Ascending
    <2>1. Init => \A p \in Procs : seen[p] = Nothing
        BY DEF Init
    <2>2. (\A p \in Procs : seen[p] = Nothing) => Ascending
        BY DEF Ascending, Ascends, Holds, Nothing
    <2>3. QED BY <2>1, <2>2
<1>2. IInv /\ Ascending /\ [Next]_vars => Ascending'
    BY AscendsStep DEF IInv
<1>3. IInv /\ Ascending => RowsNeverDeadlock
    <2> SUFFICES ASSUME IInv, Ascending, NEW S \in SUBSET Waiting, S # {}
                 PROVE  \E p \in S : \A q \in S : ~WaitsForRow(p, q)
        BY DEF RowsNeverDeadlock
    <2> DEFINE Next1 == {l \in Links : \E p \in S : l \in First(todo[p])}
    <2>1. CASE \E p \in S : pc[p] # "lock"
        BY <2>1 DEF WaitsForRow
    <2>2. CASE \A p \in S : pc[p] = "lock"
        <3>1. \A p \in S : p \in Procs /\ todo[p] # {} /\ todo[p] \subseteq Links
            BY DEF Waiting, IInv, TypeOK, ProcsTypeOK
        <3>2. \A p \in S : \E l \in First(todo[p]) : l \in Links
            BY <3>1, LeastOf, ScheduleConstants DEF First
        <3>3. Next1 # {} /\ Next1 \subseteq Nat /\ IsFiniteSet(Next1)
            <4>1. Next1 # {}
                BY <3>2
            <4>2. Next1 \subseteq Links
                OBVIOUS
            <4>3. IsFiniteSet(Next1)
                BY <4>2, LinksFinite, FS_Subset
            <4>4. Next1 \subseteq Nat
                BY <4>2, ScheduleConstants
            <4>5. QED BY <4>1, <4>3, <4>4
        <3>4. PICK n \in Next1 : \A m \in Next1 : m <= n
            BY <3>3, GreatestOf
        <3>5. PICK p \in S : n \in First(todo[p])
            BY <3>4
        <3>6. ASSUME NEW q \in S, WaitsForRow(p, q) PROVE FALSE
            <4>1. PICK l \in First(todo[p]) : Holds(q, l)
                BY <3>6 DEF WaitsForRow, RunnerNext, BulkNext
            <4>2. l = n /\ n \in Links /\ n \in Nat
                BY <3>1, <3>3, <3>5, <4>1, NextIsFirst DEF IInv
            <4>3. PICK m \in First(todo[q]) : m \in Links
                BY <3>2
            <4>4. m \in todo[q] /\ m \in Next1 /\ m \in Nat
                BY <3>3, <4>3 DEF First
            <4>5. n < m
                BY <2>2, <3>1, <4>1, <4>2, <4>4 DEF Ascending, Ascends
            <4>6. QED BY <3>4, <4>2, <4>4, <4>5
        <3>7. QED BY <3>6
    <2>3. QED BY <2>1, <2>2
<1>4. QED BY <1>1, <1>2, <1>3, Inductive, PTL DEF Spec

-----------------------------------------------------------------------------
(* Firing atomically.                                                      *)

\* The two modules mean the same by what a schedule keeps.
LEMMA KeptIsReplaced ==
    ASSUME NEW row \in Row, NEW patch \in Patches
    PROVE  Swaps!Kept(row, patch) = Replaced(row, patch)
BY ScheduleConstants DEF Swaps!Kept, Replaced, Patches, ScheduleConstants

\* And the rest of LinkRows is the same seen through AtomicSwaps.
LEMMA SamePatched ==
    /\ \A row, patch : Swaps!Patched(row, patch) = Patched(row, patch)
    /\ \A by, before, after : Swaps!VersionOf(by, before, after) = VersionOf(by, before, after)
    /\ Swaps!NoPatch = NoPatch
BY DEF Swaps!Patched, Patched, Swaps!VersionOf, VersionOf, Swaps!NoPatch, NoPatch

\* A runner's commit fires its schedule on the links it holds: they are as they
\* were read, live, and named by the schedule.
LEMMA ApplyFires ==
    ASSUME IInv, NEW r \in Runners, Apply(r)
    PROVE  Swaps!Fire(sched[r])
<1> DEFINE s == sched[r]
           reached == Reached(r)
<1> r \in Procs
    BY DEF Procs
<1>1. s \in Schedules /\ status[s] = "pending" /\ Patch[s] \in Patches
    BY ScheduleConstants DEF IInv, AppliesPending, Apply, ScheduleConstants
<1>2. reached \in SUBSET linkIds[s] /\ reached # {}
    BY DEF IInv, AppliesPending, Apply, Reached
<1>3. \A l \in reached : l \in Links /\ seen[r][l] = links[l] /\ ~links[l].deleted /\ links[l] \in Row
    BY DEF IInv, SeenIsCurrent, Reached, TypeOK, StoreTypeOK
<1>4. status' = [status EXCEPT ![s] = "completed"] /\ UNCHANGED linkIds
    BY DEF Apply
<1>5. links' = [l \in Links |-> IF l \in reached THEN Swaps!Patched(links[l], Patch[s]) ELSE links[l]]
    BY SamePatched DEF Apply
<1>6. previous' = [previous EXCEPT ![s] =
          [l \in Links |-> IF l \in reached THEN Swaps!Kept(links[l], Patch[s]) ELSE Swaps!NoPatch]]
    <2>1. \A l \in reached : Replaced(seen[r][l], Patch[s]) = Swaps!Kept(links[l], Patch[s])
        BY <1>1, <1>3, KeptIsReplaced
    <2>2. [l \in Links |-> IF l \in reached THEN Replaced(seen[r][l], Patch[s]) ELSE NoPatch]
          = [l \in Links |-> IF l \in reached THEN Swaps!Kept(links[l], Patch[s]) ELSE Swaps!NoPatch]
        BY <2>1, SamePatched
    <2>3. QED BY <2>2 DEF Apply
<1>7. newest' = [l \in Links |->
          IF l \in reached THEN Swaps!VersionOf("schedule", links[l], links'[l]) ELSE newest[l]]
    BY <1>3, SamePatched DEF Apply
<1>8. QED BY <1>1, <1>2, <1>3, <1>4, <1>5, <1>6, <1>7 DEF Swaps!Fire

\* A bulk operation's commit leaves a version of each row it changes, taken from
\* the row as it stood.
LEMMA CommitChanges ==
    ASSUME IInv, NEW o \in Operators, CommitBulk(o)
    PROVE  Swaps!Change
<1>1. \A l \in wrote[o] : l \in Links /\ seen[o][l] = links[l]
    BY DEF IInv, WritesHeld, SeenIsCurrent, TypeOK, ProcsTypeOK, Procs
<1>2. ASSUME NEW l \in Links
      PROVE  \/ links'[l] = links[l] /\ newest'[l] = newest[l]
             \/ \E by \in Swaps!Sources : newest'[l] = Swaps!VersionOf(by, links[l], links'[l])
    <2>1. CASE l \in wrote[o]
        <3>1. newest'[l] = Swaps!VersionOf(SourceOf(o), links[l], links'[l])
            BY <1>1, <2>1, SamePatched DEF CommitBulk
        <3>2. QED BY <3>1 DEF SourceOf, Swaps!Sources
    <2>2. CASE l \notin wrote[o]
        BY <2>2 DEF CommitBulk
    <2>3. QED BY <2>1, <2>2
<1>3. QED BY <1>2 DEF Swaps!Change, CommitBulk

\* Every step is a step of AtomicSwaps or changes nothing it knows of.
LEMMA StepRefines ==
    ASSUME IInv, [Next]_vars
    PROVE  [Swaps!Next]_(Swaps!store)
<1> DEFINE Same == UNCHANGED <<links, newest, status, linkIds, previous>>
<1>1. ASSUME NEW r \in Runners, Apply(r)
      PROVE  Swaps!Next
    <2>1. sched[r] \in Schedules
        BY <1>1 DEF IInv, AppliesPending, Apply
    <2>2. QED BY <1>1, <2>1, ApplyFires DEF Swaps!Next
<1>2. ASSUME NEW r \in Runners, MarkFailed(r)
      PROVE  Swaps!Next \/ Same
    <2>1. sched[r] \in Schedules
        BY <1>2 DEF IInv, TypeOK, MarkFailed, Reasons
    <2>2. CASE StillOpen(sched[r])
        BY <1>2, <2>1, <2>2 DEF MarkFailed, StillOpen, Swaps!Next, Swaps!End
    <2>3. CASE ~StillOpen(sched[r])
        BY <1>2, <2>3 DEF MarkFailed
    <2>4. QED BY <2>2, <2>3
<1>3. ASSUME NEW o \in Operators, CreateInsert(o)
      PROVE  Swaps!Next
    <2>1. sched[o] \in Schedules /\ status[sched[o]] = "none" /\ todo[o] \in SUBSET Links
        BY <1>3 DEF IInv, InsertsNew, CreateInsert, TypeOK, ProcsTypeOK, Procs
    <2>2. Swaps!Create(sched[o])
        BY <1>3, <2>1 DEF CreateInsert, Swaps!Create
    <2>3. QED BY <2>1, <2>2 DEF Swaps!Next
<1>4. ASSUME NEW s \in Schedules, Cancel(s)
      PROVE  Swaps!Next
    BY <1>4 DEF Cancel, Swaps!Next, Swaps!End
<1>5. ASSUME NEW o \in Operators, CommitBulk(o)
      PROVE  Swaps!Next
    BY <1>5, CommitChanges DEF Swaps!Next
<1>6. ASSUME NEW r \in Runners,
             \/ Claim(r) \/ Recheck(r) \/ LockLink(r) \/ NoLiveLinks(r)
             \/ LockTimeout(r) \/ CrashRunner(r)
      PROVE  Same
    BY <1>6 DEF Claim, Recheck, LockLink, NoLiveLinks, LockTimeout, CrashRunner, store
<1>7. ASSUME NEW o \in Operators,
             \/ LockOne(o) \/ WriteRestored(o) \/ CrashOperator(o)
             \/ \E change \in Changes, ids \in Selections : BeginBulk(o, change, ids)
             \/ \E s \in Schedules : BeginUndo(o, s) \/ CreateRead(o, s)
      PROVE  Same
    <2>1. CASE LockOne(o) \/ WriteRestored(o) \/ CrashOperator(o)
        BY <2>1 DEF LockOne, WriteRestored, CrashOperator, store
    <2>2. CASE \E change \in Changes, ids \in Selections : BeginBulk(o, change, ids)
        BY <2>2 DEF BeginBulk, Begin, store
    <2>3. CASE \E s \in Schedules : BeginUndo(o, s) \/ CreateRead(o, s)
        BY <2>3 DEF BeginUndo, Begin, CreateRead, store
    <2>4. QED BY <1>7, <2>1, <2>2, <2>3
<1>8. ASSUME \/ \E p \in Procs : DeadlockVictim(p)
             \/ Tick \/ UNCHANGED vars
      PROVE  Same
    <2>1. UNCHANGED store \/ UNCHANGED vars
        BY <1>8 DEF DeadlockVictim, Tick
    <2>2. QED BY <2>1 DEF vars, store
<1>9. QED
    BY <1>1, <1>2, <1>3, <1>4, <1>5, <1>6, <1>7, <1>8
    DEF Next, RunnerStep, OperatorStep, Swaps!store

\* For any links, schedules, runners and operators: a schedule fires once, whole
\* and on live links it names, or is called off or given up untouched; it keeps
\* exactly what it replaced; and every change to a link leaves a version taken
\* from the row as it stood (runDueSchedules, applyBulk, cancelSchedule).
THEOREM FiresOnceAndWhole == Spec => FiresAtomically
<1>1. Init => Swaps!Init
    <2> SUFFICES ASSUME Init PROVE Swaps!Init
        OBVIOUS
    <2>1. links \in [Links -> Swaps!Row]
        BY InitTypes DEF TypeOK, StoreTypeOK, Row, Swaps!Row
    <2>2. newest = [l \in Links |-> Swaps!VersionOf("panel", links[l], links[l])]
        BY SamePatched DEF Init
    <2>3. QED BY <2>1, <2>2, SamePatched DEF Init, Swaps!Init, NoPlan
<1>2. IInv /\ [Next]_vars => [Swaps!Next]_(Swaps!store)
    BY StepRefines
<1>3. QED BY <1>1, <1>2, Inductive, PTL DEF Spec, FiresAtomically, Swaps!Spec
=============================================================================
