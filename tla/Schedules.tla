------------------------------ MODULE Schedules ------------------------------
(***************************************************************************)
(* Scheduled swaps (panel/app/lib/schedules.server.ts) and the bulk        *)
(* operations they share the links with (bulk.server.ts, links.server.ts). *)
(* Runners are the edge replicas' timers and whoever runs the executor by  *)
(* hand; operators are requests to the panel.                              *)
(*                                                                         *)
(* Every statement that can wait for a row lock, or that other             *)
(* transactions can see the effect of, is an action of its own.  What a    *)
(* transaction has written is seen by others when it commits; the rows it  *)
(* has locked are the domain of seen.                                      *)
(***************************************************************************)
EXTENDS LinkRows, Naturals, FiniteSets

CONSTANTS
    Schedules,  \* ids of schedules
    Runners,    \* processes that run due schedules, one run at a time each
    Operators,  \* requests of the panel
    Slug,       \* [Links -> slugs]: at most one live link has any slug
    Patch,      \* [Schedules -> Patches]: what each schedule sets
    FireAt,     \* [Schedules -> Nat]: when each is due
    Wanted,     \* [Schedules -> SUBSET Links]: the selection each is made for
    Start,      \* what the links may be at the beginning
    Batch,      \* BATCH
    Changes,    \* what operators do: kinds of bulk operation, with a patch
    Selections, \* the links they may select together
    MaxEvents   \* bound on bulk operations, crashes and timeouts, all together

Kinds == {"none", "set", "swap", "delete", "restore", "undo"}

ASSUME ScheduleConstants ==
    /\ Runners \cap Operators = {}
    /\ Links \subseteq Nat
    /\ Columns # {}
    /\ "keep" \notin Values
    /\ Patch \in [Schedules -> Patches \ {NoPatch}]
    /\ FireAt \in [Schedules -> Nat]
    /\ Wanted \in [Schedules -> SUBSET Links]
    /\ "none" \notin Schedules
    /\ Start \subseteq [Links -> Row]
    /\ Batch \in Nat \ {0}
    /\ Changes \subseteq [kind: Kinds \ {"none", "undo"}, patch: Patches]
    /\ Selections \subseteq (SUBSET Links) \ {{}}
    /\ MaxEvents \in Nat

\* There are finitely many rows in the table.
ASSUME LinksFinite == IsFiniteSet(Links)

VARIABLES
    links,     \* [Links -> Row], as committed
    newest,    \* [Links -> Version]: the newest row of link_versions
    status,    \* [Schedules -> "none" before it is created, or its status]
    linkIds,   \* [Schedules -> link_ids]
    previous,  \* [Schedules -> what it replaced, by link]
    note,      \* [Schedules -> why it failed, or "none"]
    now,       \* the database's clock
    pc,        \* [Procs -> what the process does next]
    todo,      \* [Procs -> links its transaction has yet to lock]
    seen,      \* [Procs -> the links its transaction has locked, each as it was read]
    sched,     \* [Procs -> the schedule it works on, or "none"]
    batch,     \* [Runners -> schedules claimed and not looked at again yet]
    passed,    \* [Runners -> links its schedule names that it found in the trash]
    kind,      \* [Operators -> kind of bulk operation]
    plan,      \* [Operators -> a patch for each selected link]
    wrote,     \* [Operators -> links its open transaction has changed]
    events     \* operations, crashes and timeouts so far

Procs == Runners \cup Operators

store    == <<links, newest, status, linkIds, previous, note>>
work     == <<pc, todo, seen, sched>>
request  == <<kind, plan, wrote>>
vars == <<links, newest, status, linkIds, previous, note, now, pc, todo, seen,
          sched, batch, passed, kind, plan, wrote, events>>

-----------------------------------------------------------------------------
(* Locks.                                                                  *)

Holds(p, l) == seen[p][l] # NoRow
Nothing == [l \in Links |-> NoRow]
NoPlan  == [l \in Links |-> NoPatch]

Free(p, l)  == \A q \in Procs \ {p} : ~Holds(q, l)
Lock(p, l)  == seen' = [seen EXCEPT ![p][l] = links[l]]

\* The row of schedule s is locked: a runner is applying it.
Locked(s) == \E r \in Runners : pc[r] = "lock" /\ sched[r] = s

\* ORDER BY id for runners, uniqueIds for bulk operations (whose mutant takes
\* the selection newest first).
First(S) == {l \in S : \A k \in S : l <= k}
LastFirst(S) == {l \in S : \A k \in S : k <= l}
RunnerNext(S) == First(S)
BulkNext(S) == First(S)

\* The transaction is over and its locks are gone.
Done(p) ==
    /\ pc'    = [pc EXCEPT ![p] = "idle"]
    /\ todo'  = [todo EXCEPT ![p] = {}]
    /\ seen'  = [seen EXCEPT ![p] = Nothing]
    /\ sched' = [sched EXCEPT ![p] = "none"]
    /\ passed' = [r \in Runners |-> IF r = p THEN {} ELSE passed[r]]

\* Room for one more operation, crash or timeout.
Event == events < MaxEvents /\ events' = events + 1

-----------------------------------------------------------------------------
(* runDueSchedules.                                                        *)

\* (the mutant is an off-by-one at the instant itself)
DueLate(s) == FireAt[s] < now
Due(s) == FireAt[s] <= now

Claimable == {s \in Schedules : status[s] = "pending" /\ Due(s) /\ ~Locked(s)}

\* The earliest BATCH of the schedules that are due and that nobody is applying;
\* the claim's own locks are gone with its transaction.
Claim(r) ==
    /\ pc[r] = "idle" /\ batch[r] = {}
    /\ \E B \in (SUBSET Claimable) \ {{}} :
          /\ B = Claimable \/ Cardinality(B) = Batch
          /\ Cardinality(B) <= Batch
          /\ \A s \in B, u \in Claimable \ B : FireAt[s] <= FireAt[u]
          /\ batch' = [batch EXCEPT ![r] = B]
    /\ UNCHANGED <<store, now, work, passed, request, events>>

\* Earliest first, each is looked at again and its row locked.  The links are
\* selected next, those live in the statement's snapshot: what commits between
\* the two could as well have committed before the first.
Targets(s) == {l \in linkIds[s] : ~links[l].deleted}

Recheck(r) ==
    /\ pc[r] = "idle"
    /\ \E s \in batch[r] :
          /\ \A u \in batch[r] : FireAt[s] <= FireAt[u]
          /\ batch' = [batch EXCEPT ![r] = @ \ {s}]
          /\ \/ /\ status[s] = "pending" /\ ~Locked(s)
                /\ pc'    = [pc EXCEPT ![r] = "lock"]
                /\ todo'  = [todo EXCEPT ![r] = Targets(s)]
                /\ sched' = [sched EXCEPT ![r] = s]
                /\ passed' = [passed EXCEPT ![r] = linkIds[s] \ Targets(s)]
                /\ UNCHANGED seen
             \/ /\ status[s] # "pending" \/ Locked(s)
                /\ UNCHANGED <<work, passed>>
    /\ UNCHANGED <<store, now, request, events>>

\* FOR UPDATE waits, and then reads the row as it has become; the mutant skips
\* locked rows as the claim does.
LockLinkSkipping(r) ==
    /\ pc[r] = "lock"
    /\ \E l \in RunnerNext(todo[r]) :
          /\ IF Free(r, l) THEN Lock(r, l) ELSE UNCHANGED seen
          /\ todo' = [todo EXCEPT ![r] = @ \ {l}]
    /\ UNCHANGED <<store, now, pc, sched, batch, passed, request, events>>

LockLink(r) ==
    /\ pc[r] = "lock"
    /\ \E l \in RunnerNext(todo[r]) :
          /\ Free(r, l)
          /\ Lock(r, l)
          /\ todo' = [todo EXCEPT ![r] = @ \ {l}]
    /\ UNCHANGED <<store, now, pc, sched, batch, passed, request, events>>

\* A row deleted while it was waited for is locked and left out.
Reached(r) == {l \in Links : Holds(r, l) /\ ~seen[r][l].deleted}

\* The writes, the schedule's own row and the commit.
Apply(r) ==
    /\ pc[r] = "lock" /\ todo[r] = {} /\ Reached(r) # {}
    /\ LET s == sched[r] IN
          /\ links' = [l \in Links |->
                          IF l \in Reached(r) THEN Patched(links[l], Patch[s]) ELSE links[l]]
          /\ newest' = [l \in Links |->
                          IF l \in Reached(r) THEN VersionOf("schedule", seen[r][l], links'[l])
                                              ELSE newest[l]]
          /\ previous' = [previous EXCEPT ![s] =
                             [l \in Links |-> IF l \in Reached(r) THEN Replaced(seen[r][l], Patch[s])
                                                               ELSE NoPatch]]
          /\ status' = [status EXCEPT ![s] = "completed"]
    /\ Done(r)
    /\ UNCHANGED <<linkIds, note, now, batch, request, events>>

\* An error rolls back and is written down in a statement of its own.
Reasons == {"no_live_links", "timeout"}

\* (the mutant loses sight of which schedule it was)
RollBackForgetting(r, reason) ==
    /\ pc' = [pc EXCEPT ![r] = reason]
    /\ todo' = [todo EXCEPT ![r] = {}]
    /\ seen' = [seen EXCEPT ![r] = Nothing]
    /\ sched' = [sched EXCEPT ![r] = "none"]
    /\ passed' = [passed EXCEPT ![r] = {}]

RollBack(r, reason) ==
    /\ pc'   = [pc EXCEPT ![r] = reason]
    /\ todo' = [todo EXCEPT ![r] = {}]
    /\ seen' = [seen EXCEPT ![r] = Nothing]
    /\ passed' = [passed EXCEPT ![r] = {}]
    /\ UNCHANGED sched

NoLiveLinks(r) ==
    /\ pc[r] = "lock" /\ todo[r] = {} /\ Reached(r) = {}
    /\ RollBack(r, "no_live_links")
    /\ UNCHANGED <<store, now, batch, request, events>>

\* The edge's pool cancels a statement after two seconds, and a cancelled one
\* is not among the RETRYABLE.
LockTimeout(r) ==
    /\ pc[r] = "lock"
    /\ \E l \in RunnerNext(todo[r]) : ~Free(r, l)
    /\ Event
    /\ RollBack(r, "timeout")
    /\ UNCHANGED <<store, now, batch, request>>

\* In between, the schedule may have been applied or called off; the mutant
\* forgets to ask.
StillOpenAlways(s) == TRUE
StillOpen(s) == status[s] = "pending"

MarkFailed(r) ==
    /\ pc[r] \in Reasons
    /\ ~Locked(sched[r])
    /\ IF StillOpen(sched[r])
       THEN /\ status' = [status EXCEPT ![sched[r]] = "failed"]
            /\ note' = [note EXCEPT ![sched[r]] = pc[r]]
       ELSE UNCHANGED <<status, note>>
    /\ Done(r)
    /\ UNCHANGED <<links, newest, linkIds, previous, now, batch, request, events>>

-----------------------------------------------------------------------------
(* applyBulk, and updateLink, which is a bulk of one link and all columns. *)

\* A bulk operation, or an undo: the patches are then what the schedule replaced.
Begin(o, k, patches, ids) ==
    /\ pc[o] = "idle"
    /\ Event
    /\ pc'   = [pc EXCEPT ![o] = "lock"]
    /\ todo' = [todo EXCEPT ![o] = ids]
    /\ kind' = [kind EXCEPT ![o] = k]
    /\ plan' = [plan EXCEPT ![o] = patches]
    /\ UNCHANGED <<store, now, seen, sched, batch, passed, wrote>>

BeginBulk(o, change, ids) == Begin(o, change.kind, [l \in Links |-> change.patch], ids)
BeginUndo(o, s) ==
    /\ status[s] = "completed"
    /\ Begin(o, "undo", previous[s], {l \in Links : previous[s][l] # NoPatch})

\* applyOne: the row is locked and judged as it is read.  One that fails gives
\* its lock back with the savepoint; one there is nothing to do for keeps it.
OnItsSide(o, row) == row.deleted <=> kind[o] = "restore"
Skipped(o, l) == kind[o] = "swap" /\ Patched(links[l], plan[o][l]) = links[l]

LockOne(o) ==
    /\ pc[o] = "lock"
    /\ \E l \in BulkNext(todo[o]) :
          /\ Free(o, l)
          /\ \/ /\ ~OnItsSide(o, links[l])
                /\ todo' = [todo EXCEPT ![o] = @ \ {l}]
                /\ UNCHANGED <<pc, seen, wrote>>
             \/ /\ OnItsSide(o, links[l]) /\ kind[o] # "restore"
                /\ Lock(o, l)
                /\ todo' = [todo EXCEPT ![o] = @ \ {l}]
                /\ wrote' = [wrote EXCEPT ![o] = IF Skipped(o, l) THEN @ ELSE @ \cup {l}]
                /\ UNCHANGED pc
             \/ /\ OnItsSide(o, links[l]) /\ kind[o] = "restore"
                /\ Lock(o, l)
                /\ pc' = [pc EXCEPT ![o] = "write"]
                /\ UNCHANGED <<todo, wrote>>
    /\ UNCHANGED <<store, now, sched, batch, passed, kind, plan, events>>

\* The unique index: a live link with the slug refuses the restore, and one
\* that another open transaction has changed makes it wait for the outcome.
Rivals(l) == {k \in Links \ {l} : Slug[k] = Slug[l]}
Unsettled(o, k) == \E q \in Operators \ {o} : k \in wrote[q]
Taken(o, l) == \E k \in Rivals(l) : \/ k \in wrote[o]
                                    \/ ~links[k].deleted /\ ~Unsettled(o, k)

\* ROLLBACK TO SAVEPOINT: the link is reported as failed and let go.
LetGo(o, l) ==
    /\ pc'   = [pc EXCEPT ![o] = "lock"]
    /\ todo' = [todo EXCEPT ![o] = @ \ {l}]
    /\ seen' = [seen EXCEPT ![o][l] = NoRow]

WriteRestored(o) ==
    /\ pc[o] = "write"
    /\ \E l \in BulkNext(todo[o]) :
          \/ /\ Taken(o, l)
             /\ LetGo(o, l)
             /\ UNCHANGED wrote
          \/ /\ ~Taken(o, l)
             /\ \A k \in Rivals(l) : ~Unsettled(o, k)
             /\ pc' = [pc EXCEPT ![o] = "lock"]
             /\ todo' = [todo EXCEPT ![o] = @ \ {l}]
             /\ wrote' = [wrote EXCEPT ![o] = @ \cup {l}]
             /\ UNCHANGED seen
    /\ UNCHANGED <<store, now, sched, batch, passed, kind, plan, events>>

\* What writeLinkChange leaves of a row.
Outcome(o, l) ==
    IF kind[o] \in {"set", "swap", "undo"} THEN Patched(links[l], plan[o][l])
    ELSE [links[l] EXCEPT !.deleted = (kind[o] = "delete")]

SourceOf(o) == IF kind[o] = "undo" THEN "schedule" ELSE "panel"

CommitBulk(o) ==
    /\ pc[o] = "lock" /\ todo[o] = {}
    /\ links' = [l \in Links |-> IF l \in wrote[o] THEN Outcome(o, l) ELSE links[l]]
    /\ newest' = [l \in Links |->
                     IF l \in wrote[o] THEN VersionOf(SourceOf(o), seen[o][l], Outcome(o, l))
                                       ELSE newest[l]]
    /\ Done(o)
    /\ kind' = [kind EXCEPT ![o] = "none"]
    /\ plan' = [plan EXCEPT ![o] = NoPlan]
    /\ wrote' = [wrote EXCEPT ![o] = {}]
    /\ UNCHANGED <<status, linkIds, previous, note, now, batch, events>>

-----------------------------------------------------------------------------
(* createSchedule and cancelSchedule.                                      *)

\* One query keeps the links that are live, and another stores the schedule.
CreateRead(o, s) ==
    /\ pc[o] = "idle"
    /\ status[s] = "none" /\ now < FireAt[s]
    /\ \A q \in Operators : sched[q] # s
    /\ {l \in Wanted[s] : ~links[l].deleted} # {}
    /\ pc' = [pc EXCEPT ![o] = "insert"]
    /\ todo' = [todo EXCEPT ![o] = {l \in Wanted[s] : ~links[l].deleted}]
    /\ sched' = [sched EXCEPT ![o] = s]
    /\ UNCHANGED <<store, now, seen, batch, passed, request, events>>

CreateInsert(o) ==
    /\ pc[o] = "insert"
    /\ status' = [status EXCEPT ![sched[o]] = "pending"]
    /\ linkIds' = [linkIds EXCEPT ![sched[o]] = todo[o]]
    /\ Done(o)
    /\ UNCHANGED <<links, newest, previous, note, now, batch, request, events>>

\* One UPDATE, which waits for a runner that is applying the schedule.
Cancel(s) ==
    /\ status[s] = "pending" /\ ~Locked(s)
    /\ status' = [status EXCEPT ![s] = "cancelled"]
    /\ UNCHANGED <<links, newest, linkIds, previous, note, now, work, batch,
                   passed, request, events>>

-----------------------------------------------------------------------------
(* Deadlocks, crashes, time.                                               *)

WaitsForRow(p, q) ==
    /\ p # q /\ pc[p] = "lock"
    /\ \E l \in (IF p \in Runners THEN RunnerNext(todo[p]) ELSE BulkNext(todo[p])) : Holds(q, l)

WaitsForSlug(p, q) ==
    /\ p # q /\ pc[p] = "write" /\ q \in Operators
    /\ \E l \in BulkNext(todo[p]) : ~Taken(p, l) /\ \E k \in Rivals(l) : k \in wrote[q]

Waiting == {p \in Procs : pc[p] \in {"lock", "write"} /\ todo[p] # {}}

\* Everybody in S waits for somebody in S.
Stuck(S) == S # {} /\ \A p \in S : \E q \in S : WaitsForRow(p, q) \/ WaitsForSlug(p, q)

\* The database ends a deadlock by failing a statement of one of the waiting
\* transactions.  A schedule stays pending, a bulk operation loses one link.
DeadlockVictim(p) ==
    /\ p \in Waiting
    /\ \E S \in SUBSET Waiting :
          p \in S /\ Stuck(S) /\ \A T \in SUBSET S : Stuck(T) => T = S
    /\ \/ /\ p \in Runners
          /\ Done(p)
       \/ /\ p \in Operators
          /\ \E l \in BulkNext(todo[p]) : LetGo(p, l)
          /\ UNCHANGED <<sched, passed>>
    /\ UNCHANGED <<store, now, batch, request, events>>

\* A process dies, or loses its connection, and its transaction is rolled back.
CrashRunner(r) ==
    /\ pc[r] # "idle" \/ batch[r] # {}
    /\ Event
    /\ Done(r)
    /\ batch' = [batch EXCEPT ![r] = {}]
    /\ UNCHANGED <<store, now, request>>

CrashOperator(o) ==
    /\ pc[o] # "idle"
    /\ Event
    /\ Done(o)
    /\ kind' = [kind EXCEPT ![o] = "none"]
    /\ plan' = [plan EXCEPT ![o] = NoPlan]
    /\ wrote' = [wrote EXCEPT ![o] = {}]
    /\ UNCHANGED <<store, now, batch>>

Tick ==
    /\ \E s \in Schedules : now < FireAt[s]
    /\ now' = now + 1
    /\ UNCHANGED <<store, work, batch, passed, request, events>>

-----------------------------------------------------------------------------

Init ==
    /\ links \in Start
    /\ \A k, l \in Links : ~links[k].deleted /\ ~links[l].deleted /\ Slug[k] = Slug[l] => k = l
    /\ newest = [l \in Links |-> VersionOf("panel", links[l], links[l])]
    /\ status = [s \in Schedules |-> "none"]
    /\ linkIds = [s \in Schedules |-> {}]
    /\ previous = [s \in Schedules |-> NoPlan]
    /\ note = [s \in Schedules |-> "none"]
    /\ now = 0
    /\ pc = [p \in Procs |-> "idle"]
    /\ todo = [p \in Procs |-> {}]
    /\ seen = [p \in Procs |-> Nothing]
    /\ sched = [p \in Procs |-> "none"]
    /\ batch = [r \in Runners |-> {}]
    /\ passed = [r \in Runners |-> {}]
    /\ kind = [o \in Operators |-> "none"]
    /\ plan = [o \in Operators |-> NoPlan]
    /\ wrote = [o \in Operators |-> {}]
    /\ events = 0

\* What a runner does with the schedules it has claimed, and a request with
\* the links it was given.
RunnerStep(r) ==
    Claim(r) \/ Recheck(r) \/ LockLink(r) \/ Apply(r) \/ NoLiveLinks(r) \/ MarkFailed(r)
OperatorStep(o) ==
    LockOne(o) \/ WriteRestored(o) \/ CommitBulk(o) \/ CreateInsert(o)

Next ==
    \/ \E r \in Runners : RunnerStep(r) \/ LockTimeout(r) \/ CrashRunner(r)
    \/ \E o \in Operators :
          \/ OperatorStep(o) \/ CrashOperator(o)
          \/ \E change \in Changes, ids \in Selections : BeginBulk(o, change, ids)
          \/ \E s \in Schedules : BeginUndo(o, s) \/ CreateRead(o, s)
    \/ \E p \in Procs : DeadlockVictim(p)
    \/ \E s \in Schedules : Cancel(s)
    \/ Tick

Spec == Init /\ [][Next]_vars

\* The timer fires again and again in every runner, a request the panel has
\* accepted is carried on, and the database breaks deadlocks.
FairSpec ==
    /\ Spec
    /\ \A r \in Runners : WF_vars(RunnerStep(r))
    /\ \A o \in Operators : WF_vars(OperatorStep(o))
    /\ WF_vars(\E p \in Procs : DeadlockVictim(p))

-----------------------------------------------------------------------------
(* Properties.                                                             *)

StoreTypeOK ==
    /\ links \in [Links -> Row]
    /\ newest \in [Links -> Version]
    /\ status \in [Schedules -> {"none", "pending", "completed", "failed", "cancelled"}]
    /\ linkIds \in [Schedules -> SUBSET Links]
    /\ previous \in [Schedules -> [Links -> Patches]]
    /\ note \in [Schedules -> {"none"} \cup Reasons]
    /\ now \in Nat
    /\ events \in Nat

ProcsTypeOK ==
    /\ pc \in [Procs -> {"idle", "lock", "write", "insert"} \cup Reasons]
    /\ todo \in [Procs -> SUBSET Links]
    /\ seen \in [Procs -> [Links -> Row \cup {NoRow}]]
    /\ sched \in [Procs -> Schedules \cup {"none"}]
    /\ batch \in [Runners -> SUBSET Schedules]
    /\ passed \in [Runners -> SUBSET Links]
    /\ kind \in [Operators -> Kinds]
    /\ plan \in [Operators -> [Links -> Patches]]
    /\ wrote \in [Operators -> SUBSET Links]

\* Every variable has its type, and whoever works on a schedule has one.
TypeOK ==
    /\ StoreTypeOK
    /\ ProcsTypeOK
    /\ \A r \in Runners : pc[r] # "idle" => sched[r] \in Schedules

\* However runners, operators, deadlocks, timeouts and crashes interleave, a
\* schedule fires once, whole and on live links, or is called off or given up
\* untouched; it keeps exactly what it replaced; and every change to a link
\* leaves a version taken from the row as it stood (runDueSchedules, applyBulk).
Swaps == INSTANCE AtomicSwaps
FiresAtomically == Swaps!Spec

\* Sorting ids is enough for row locks: nobody ever waits in a circle for rows
\* alone, whatever the selections; every deadlock left needs the slug index.
RowsNeverDeadlock ==
    \A S \in (SUBSET Waiting) \ {{}} : \E p \in S : \A q \in S : ~WaitsForRow(p, q)

\* A schedule about to be applied leaves out only links that are in the trash,
\* or were when the links were selected.
FiresOnAllLive ==
    \A r \in Runners : pc[r] = "lock" /\ todo[r] = {} =>
        \A l \in linkIds[sched[r]] \ Reached(r) : links[l].deleted \/ l \in passed[r]

\* A schedule that is due does not stay pending, although runners pass over what
\* others hold, lose deadlocks, die and come back.
DueFires ==
    \A s \in Schedules :
        (status[s] = "pending" /\ FireAt[s] <= now) ~> status[s] # "pending"

\* "A lock conflict is not a broken schedule": waiting for a lock is never what
\* a schedule is marked as failed for.
LockConflictStaysPending == \A s \in Schedules : note[s] # "timeout"

-----------------------------------------------------------------------------
(* Why schedules fire atomically: an inductive invariant.                  *)

\* Two transactions never hold one row, and what a transaction read under its
\* lock is still what the row is.
LocksExclude == \A p, q \in Procs : \A l \in Links : Holds(p, l) /\ Holds(q, l) => p = q
SeenIsCurrent == \A p \in Procs : \A l \in Links : Holds(p, l) => seen[p][l] = links[l]

\* Only an open transaction holds rows.
IdleHoldNothing ==
    /\ \A r \in Runners : pc[r] \in {"idle", "lock"} \cup Reasons
    /\ \A o \in Operators : pc[o] \in {"idle", "lock", "write", "insert"}
    /\ \A p \in Procs : pc[p] \notin {"lock", "write"} => seen[p] = Nothing

\* A schedule is applied by one runner at a time, while it is pending, and to
\* links it names.
AppliesAlone ==
    \A r, q \in Runners : pc[r] = "lock" /\ pc[q] = "lock" /\ sched[r] = sched[q] => r = q
AppliesPending ==
    \A r \in Runners : pc[r] = "lock" =>
        /\ sched[r] \in Schedules
        /\ status[sched[r]] = "pending"
        /\ todo[r] \subseteq linkIds[sched[r]]
        /\ \A l \in Links : Holds(r, l) => l \in linkIds[sched[r]]

\* Every link the schedule names is still to be locked, or locked, or was in the
\* trash when the links were selected.
AllAccounted ==
    \A r \in Runners : pc[r] = "lock" =>
        \A l \in linkIds[sched[r]] : l \in todo[r] \/ Holds(r, l) \/ l \in passed[r]

\* A bulk operation has changed rows it holds and is through with, and a
\* restore holds the row it is about to write.
WritesHeld ==
    \A o \in Operators :
        /\ \A l \in wrote[o] : Holds(o, l) /\ l \notin todo[o]
        /\ pc[o] = "write" => \A l \in BulkNext(todo[o]) : Holds(o, l)

\* A schedule about to be stored is stored by one request, for the first time.
InsertsNew ==
    /\ \A o \in Operators :
          /\ pc[o] # "insert" => sched[o] = "none"
          /\ pc[o] = "insert" => sched[o] \in Schedules /\ status[sched[o]] = "none"
    /\ \A o, q \in Operators : pc[o] = "insert" /\ pc[q] = "insert" /\ sched[o] = sched[q] => o = q

IInv ==
    /\ TypeOK /\ LocksExclude /\ SeenIsCurrent /\ IdleHoldNothing
    /\ AppliesAlone /\ AppliesPending /\ AllAccounted /\ WritesHeld /\ InsertsNew
=============================================================================
