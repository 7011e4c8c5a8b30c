------------------------------- MODULE Rollup -------------------------------
(***************************************************************************)
(* From raw clicks to the figures the reports read: the partitions of      *)
(* click_events and their purge (db/retention.mjs), the fold into          *)
(* click_daily (panel/app/lib/rollup.server.ts) and the scheduler tick of  *)
(* each edge replica that runs it (edge/src/server.mjs).                   *)
(*                                                                         *)
(* Time is counted in ticks, a day has DayTicks of them, and a month is    *)
(* MonthDays days.  A figure of click_daily is the set of clicks it was    *)
(* computed from, so that a short figure can be told from a full one.      *)
(***************************************************************************)
EXTENDS Integers, FiniteSets

CONSTANTS
    Clicks,      \* clicks on links that exist
    Folders,     \* edge replicas, each folding on its own tick
    DayTicks, MonthDays,
    Recent,      \* the ticks rollupRecent is called with
    Retention,   \* the ticks raw clicks are kept
    MaxLate,     \* ticks a click may take from the visit to its row
    MaxOutage,   \* whole ticks that may pass without any replica completing a fold
    MaxTicks     \* bound on the clock

ASSUME RollupConstants ==
    /\ Clicks \cup Folders \subseteq Nat /\ {DayTicks, MonthDays} \subseteq Nat \ {0}
    /\ {Recent, Retention, MaxLate, MaxOutage, MaxTicks} \subseteq Nat

\* Two hours are folded, and a day is kept at the least (edge/src/server.mjs:249,
\* db/retention.mjs:30).
ASSUME FoldsInTime == Recent <= Retention

\* What a deployment has to see to: rows come, and folds come back, in time.
ASSUME OutagesFit == MaxLate + MaxOutage < Recent

VARIABLES
    tick,       \* ticks since the first day began
    at,         \* [Clicks -> the tick of the visit, or -1]
    row,        \* [Clicks -> "none", the partition its row is in, or "purged"]
    partitions, \* months with a partition of their own
    daily,      \* [days -> clicks in the figure]
    fold,       \* [Folders -> the statement each has open: what it read, and
                \*  whether another has committed since]
    foldedAt    \* the tick of the last fold completed

rollup == <<tick, at, row, partitions, daily, fold, foldedAt>>

DayOf(h) == h \div DayTicks
MonthOf(d) == d \div MonthDays
Days == 0..DayOf(MaxTicks)
Months == 0..MonthOf(DayOf(MaxTicks))

NoFold == [open |-> FALSE, passed |-> FALSE, read |-> [d \in Days |-> {}]]

-----------------------------------------------------------------------------
(* Rows.                                                                   *)

\* Clicks are alike, and so are replicas: the first is the next.
Visit(c) ==
    /\ at[c] = -1 /\ \A b \in Clicks : b < c => at[b] # -1
    /\ at' = [at EXCEPT ![c] = tick]
    /\ UNCHANGED <<tick, row, partitions, daily, fold, foldedAt>>

\* The insert goes to the month's partition, or to the catch-all.
Insert(c) ==
    /\ at[c] # -1 /\ row[c] = "none"
    /\ row' = [row EXCEPT ![c] = IF MonthOf(DayOf(at[c])) \in partitions THEN "month" ELSE "default"]
    /\ UNCHANGED <<tick, at, partitions, daily, fold, foldedAt>>

InMonth(m, where) == {c \in Clicks : row[c] = where /\ MonthOf(DayOf(at[c])) = m}

\* ensure_click_partition: the CREATE is refused while the catch-all holds rows
\* of the month.
Ensure(m) ==
    /\ m \notin partitions
    /\ InMonth(m, "default") = {}
    /\ partitions' = partitions \cup {m}
    /\ UNCHANGED <<tick, at, row, daily, fold, foldedAt>>

\* dropExpiredPartitions: the months whose last day is behind the cutoff.
MonthEnd(m) == (m + 1) * MonthDays * DayTicks
DropExpired(m) ==
    /\ m \in partitions /\ MonthEnd(m) <= tick - Retention
    /\ partitions' = partitions \ {m}
    /\ row' = [c \in Clicks |-> IF c \in InMonth(m, "month") THEN "purged" ELSE row[c]]
    /\ UNCHANGED <<tick, at, daily, fold, foldedAt>>

-----------------------------------------------------------------------------
(* Folds.                                                                  *)

\* (mutant: only the current day)
WindowToday == {d \in Days : d = DayOf(tick)}

\* rollupRecent: whole days, from the one Recent ticks ago to the current one.
Window == {d \in Days : DayOf(IF tick > Recent THEN tick - Recent ELSE 0) <= d /\ d <= DayOf(tick)}
LiteralSpan == {c \in Clicks : at[c] >= tick - Recent}

\* One statement: its snapshot, and its rows when it commits.
RowsOf(d) == {c \in Clicks : row[c] \in {"month", "default"} /\ DayOf(at[c]) = d}
Opens(f) == ~fold[f].open /\ \A g \in Folders : g < f => fold[g].open

\* (mutant: the window is the literal last ticks)
FoldReadLiteral(f) ==
    /\ Opens(f)
    /\ fold' = [fold EXCEPT ![f] =
           [open |-> TRUE, passed |-> FALSE, read |-> [d \in Days |-> IF d \in Window THEN RowsOf(d) \cap LiteralSpan ELSE {}]]]
    /\ UNCHANGED <<tick, at, row, partitions, daily, foldedAt>>

FoldRead(f) ==
    /\ Opens(f)
    /\ fold' = [fold EXCEPT ![f] =
           [open |-> TRUE, passed |-> FALSE, read |-> [d \in Days |-> IF d \in Window THEN RowsOf(d) ELSE {}]]]
    /\ UNCHANGED <<tick, at, row, partitions, daily, foldedAt>>

\* The statements left open have been passed by this one.
Close(f) == fold' = [g \in Folders |-> IF g = f THEN NoFold
                                      ELSE [fold[g] EXCEPT !.passed = fold[g].open]]

\* A day without clicks gives no row, and its figure stays as it is.
FoldCommit(f) ==
    /\ fold[f].open
    /\ daily' = [d \in Days |-> IF fold[f].read[d] # {} THEN fold[f].read[d] ELSE daily[d]]
    /\ Close(f)
    /\ foldedAt' = tick
    /\ UNCHANGED <<tick, at, row, partitions>>

FoldFails(f) ==
    /\ fold[f].open
    /\ fold' = [fold EXCEPT ![f] = NoFold]
    /\ UNCHANGED <<tick, at, row, partitions, daily, foldedAt>>

\* A statement does not outlast its tick; rows are late, and folds are missed,
\* no longer than the bounds allow.
TimePasses ==
    /\ tick < MaxTicks
    /\ \A f \in Folders : ~fold[f].open
    /\ \A c \in Clicks : at[c] # -1 /\ row[c] = "none" => tick < at[c] + MaxLate
    /\ tick - foldedAt <= MaxOutage
    /\ tick' = tick + 1
    /\ UNCHANGED <<at, row, partitions, daily, fold, foldedAt>>

RollupInit ==
    /\ tick = 0
    /\ at = [c \in Clicks |-> -1]
    /\ row = [c \in Clicks |-> "none"]
    /\ partitions \in SUBSET Months
    /\ daily = [d \in Days |-> {}]
    /\ fold = [f \in Folders |-> NoFold]
    /\ foldedAt = -1

RollupNext ==
    \/ \E c \in Clicks : Visit(c) \/ Insert(c)
    \/ \E m \in Months : Ensure(m) \/ DropExpired(m)
    \/ \E f \in Folders : FoldRead(f) \/ FoldCommit(f) \/ FoldFails(f)
    \/ TimePasses

RollupSpec == RollupInit /\ [][RollupNext]_rollup

-----------------------------------------------------------------------------
(* Properties.                                                             *)

RollupTypeOK ==
    /\ tick \in 0..MaxTicks /\ foldedAt \in -1..MaxTicks
    /\ at \in [Clicks -> -1..MaxTicks]
    /\ row \in [Clicks -> {"none", "month", "default", "purged"}]
    /\ partitions \subseteq Months
    /\ daily \in [Days -> SUBSET Clicks]
    /\ fold \in [Folders -> [open: BOOLEAN, passed: BOOLEAN, read: [Days -> SUBSET Clicks]]]

\* Every click of day d whose row was ever written.
Recorded(d) == {c \in Clicks : row[c] # "none" /\ DayOf(at[c]) = d}

Settled(d) == d < DayOf(tick) /\ d \notin Window /\ \A f \in Folders : fold[f].read[d] = {}

\* A day the window has left, with no statement still open on it, shows every
\* click it had, through folds that overlap, rows that came late, missed folds
\* and the purge of its raw clicks (rollup.server.ts:32-36: "a missed run, a
\* deploy, or an event that arrived late must not leave a day permanently
\* short").  It holds as long as lateness and outages stay under the window.
DaysSettle == \A d \in Days : Settled(d) => daily[d] = Recorded(d)

\* A figure falls only when a fold commits that another has committed under
\* since it read; folds that do not overlap never lower one, whatever is purged.
FallsOnlyOverlapped ==
    [][\A d \in Days : ~(daily[d] \subseteq daily'[d]) =>
          \E f \in Folders : fold[f].passed /\ ~fold'[f].open]_rollup
=============================================================================
