# Linkyard, specified

TLA+ modules for [linkyard](../src/README.md), a self-hosted link shortener: a panel
(React Router, PostgreSQL) in which operators create links and connect domains, an edge
service that redirects visitors and collects clicks, and a hosted installer that sets up
both. The modules are checked with TLC on small instances; of what they say, all of the safety
but what section 5 names, and none of the liveness, is proved with TLAPS for every value of the
constants, or for inputs of any size.

All paths below are relative to `src/`.

## 1. The system

| Part | State | Operations | What is hard about it |
|---|---|---|---|
| **Domain provisioning** (`panel/app/lib/provisioning.server.ts`, `routes/domains.new.tsx`, `infra/railway.ts`, `dns/cloudflare.ts`) | one `audit_log` row per job holding a whole document, the row is also the lock; `domains`, `subdomains`; the DNS zone and the infrastructure provider | start, discard, advance (infra, dns, certificate, record) | requests of several tabs interleave at every await; whole documents are written back from stale copies; providers fail before or after they acted; others edit the zone |
| **Scheduled swaps** (`schedules.server.ts`, the timer in `edge/src/server.mjs`) | `schedules` rows, row locks | create, cancel, run due, undo | several runners, `SKIP LOCKED`, row locks shared with bulk operations, retry against give-up, statement timeouts |
| **Links, trash, bulk** (`links.server.ts`, `bulk.server.ts`, `links.bulk.tsx`, `editor.server.ts`, `routes/link-edit.tsx`) | `links`, `link_versions`, `audit_log`, a partial unique index on live slugs | create, update, pause, tag, utms, swap, delete, restore | savepoint per link, lock order, slug collisions on restore, forms that write every column, rules the panel and the edge each apply |
| **Click collector** (`edge/src/collect.mjs`) | queue, timer, a chain of writes and its depth, counter of dropped clicks | record, flush, stop | a database that never answers, the flush at shutdown |
| **Edge resolver** (`edge/src/resolve.mjs`, `root.mjs`, `server.mjs`) | host cache (30 s, 1000 entries) | lookup, resolve, scheduler tick | staleness, misses cached, order of the decisions |
| **Rollup and retention** (`rollup.server.ts`, `db/retention.mjs`) | `click_daily`, partitions of `click_events` | fold, drop | overlapping folds, late events |
| **Migrations** (`db/migrate.mjs`) | `schema_migrations` | migrate | two processes at once |
| **Members** (`members.server.ts`, `permission.server.ts`), **first run** (`setup.server.ts`) | `users`, `invites`, grants | change role, transfer, suspend, remove, invite, revoke, redeem, claim | checks made before the transaction that acts on them |
| **Sessions, sign-in** (`session.server.ts`, `login-guard.server.ts`) | `sessions`, cookies, counters in memory | create, resolve, refresh, revoke | two clocks, two expiries |
| **Hosted installer** (`setup/src/provision.mjs`, `server.mjs`) | jobs in memory, an inventory of what was created, two credentials per job | verify, start, run, roll back, clean up, drain | lost answers, shutdown in mid-job, credentials of dropped jobs |
| **Usage** (`usage.server.ts`) | `usage_samples` | sample, project, advise | arithmetic at boundaries, readings without a price |
| **Reports** (`reports.server.ts`) | none, reads `click_daily` and `click_events` | report, export | shares that must come to 100 %, two sources with different reach |
| **Geo** (`edge/src/geo.mjs`) | database files, the lookup in use, timers | refresh round, download, read a record | one of two databases missing, encodings with several lengths |
| **Backup** (`scripts/backup.mjs`) | a file | export, restore | merging by name into an installation in use |
| **Doctor** (`scripts/doctor.mjs`) | none | checks, a next step for each failure | checks that hide one another, steps that must heal |
| Vault, pages, i18n, seed data, CLI | little or none | | not modelled, see section 7 |

The parts meet in PostgreSQL. The edge runs the schedules, the rollup and the usage sample
on one timer; the panel's provisioning fills the `subdomains` the edge resolves hosts from;
schedules and bulk operations lock the same `links` rows; the collector's `click_events`
are what the rollup folds and retention drops. The installer makes both services and their
database, and each service migrates the schema before it serves; the backup reads all of it.

### What makes each part correct

* Provisioning: nothing in the zone that is not the panel's own or its provider's is ever
  removed; a job that says a step is done is right; one job at a time; a job can be resumed
  from wherever it stopped, and ends.
* Schedules: fired once and as a whole, on live links only; never after a cancel; the values
  to undo are exactly those replaced; no lock order that can deadlock; a due schedule fires.
* Links: the version log is a chain with no gaps; a failed link leaves no trace.
* Collector: every click taken is written once, counted as dropped, or still in memory, of
  which there is a bounded amount; a shutdown ends, with nothing left in memory.
* Resolver: what is served from memory is stale for a bounded time; a link never is.
* Rollup: a day that is over shows every click it had, whatever overlapped, came late, was
  missed or was purged.
* Links and editor: a visitor cannot override what a link declares; what the panel shows of a
  link is what the edge does with it.
* Geo: failed downloads never take away what is loaded, and something is open or about to be tried
  for; a record is read back as it was written.
* Usage, reports: figures add up; a projection follows the last price known.
* Members: exactly one owner, who can sign in; an invitation makes one account.
* Sessions: nobody is let in after a sign-out, a suspension, a removal or either limit; the
  browser keeps its cookie as long as the row would let it in. Guesses are bounded.
* Migrations: every version takes effect once, in order, or not at all; every container comes
  up in the end.
* Installer: whatever was created is rolled back, or named to the visitor; a token is called
  gone only when it is; every run ends. What it agrees to build is safe for the visitor's zone.
* Backup: a restore changes nothing that was there and gives nobody what they did not have.
* Doctor: it passes what is in order and nothing else, and its next steps lead there.

## 2. Modules

| Module | Models |
|---|---|
| `Provisioning` | the jobs, their lock and tie-break, the four steps, the zone and the providers |
| `ZoneGuard` | abstract: what the owner of a zone is promised |
| `MCProvisioning` (+ five `.cfg`) | instances of `Provisioning` for TLC |
| `ProvisioningProofs` | its types, its inductive invariants, three safety invariants and the refinement of `ZoneGuard`, proved |
| `LinkRows` | rows of `links`, patches, versions: what the next two share |
| `Schedules` | runners of due schedules, operators' bulk operations, undo, create and cancel, row locks, the slug index, deadlocks, timeouts and crashes |
| `AtomicSwaps` | abstract: what scheduled swaps promise |
| `MCSchedules` (+ three `.cfg`) | instances of `Schedules` for TLC |
| `SchedulesProofs` | its types, its inductive invariant, `FiresOnAllLive`, `RowsNeverDeadlock` and the refinement of `AtomicSwaps`, proved |
| `ClickLedger` | abstract: what becomes of a click |
| `Collector` | requests that answer and then record, the buffer, its timer, the chain of writes, the edge's shutdown |
| `LinkRules` | pure: parameters, the order of the redirect decisions, link status, the visitor's address |
| `Resolver` | the host cache and the requests that use it while the panel edits; extends `LinkRules` |
| `Editor` | pure: the editor's form, checks, paste and row, the root's policies, the edge's own paths; extends `LinkRules` |
| `Rollup` | clicks by day, partitions, folds of several replicas, retention |
| `GeoRefresh` | rounds of downloads, the retry, the lookup in use, the stop |
| `GeoReader` | pure: pointers, sizes and records of a database, its search tree, reserved ranges, the archive |
| `Usage` | pure: samples, the window, the projection, the level, the advice |
| `Reports` | pure: scopes, daily figures, breakdowns, comparisons, the export |
| `MCEdge` (+ `Edge.cfg`) | the eight above, staged, for TLC |
| `CollectorProofs` | the collector's invariants and the refinement of `ClickLedger`, proved |
| `EdgeProofs` | what `Resolver`, `GeoRefresh`, `Rollup` and `LinkRules` keep, and `MCEdge` that stages them, proved |
| `PureProofs` | what `Editor`, `GeoReader`, `Usage` and `Reports` compute, for inputs of any size, proved |
| `Accounts`, `MCAccounts` | the claim, members, invitations, with requests that overlap |
| `Sessions` | rows, cookies, two limits, the member behind them |
| `SignInGuard` | the counters of failed sign-ins beside the await of the password check |
| `Migrations` | containers of two releases that migrate one database, die and start again |
| `Providers` | what the installer makes of the answers of Railway and Cloudflare |
| `Installer` | jobs, their ceiling and sweep, runs, inventory, rollback, tokens, the drain; extends `Providers` |
| `InstallPlan` | pure: the form, the hosts, the records; extends `Providers` |
| `ServiceOrder` | pure: the order and the secrets of the services; extends `InstallPlan` |
| `Backup` | tables in use, the export table by table, the restore, the permission model |
| `Doctor` | pure: the checks and the next steps |
| `MCInstallation` (+ `Installation.cfg`, `OwnerLost.cfg`, `CookieLapses.cfg`) | the eight components above, staged, for TLC |
| `InstallationProofs` | what `Migrations`, `Sessions`, `SignInGuard` and `Installer` keep, and what `InstallPlan` and `Doctor` answer, proved |
| `AccountsProofs` | who may own an installation, and what invitations are worth, proved |
| `BackupProofs` | what exports and restores keep, proved |

### How `Provisioning` corresponds to the code

*Where actions begin and end.* Node runs a handler without interruption between awaits, so
an action is what happens between two awaits and `pc[t]` names the await a request is
suspended at. A tab has one request in flight at most. A query that reads and the code
after it up to the next await are one action; a write takes effect in the action that ends
the await before it.

*Jobs.* `jobs` is what other transactions can read. `save` (`provisioning.server.ts:113`)
writes the whole document from the request's own copy `mem[t]`, so `Save` overwrites the row
whatever is there. The document keeps the fields the control flow reads: host, state, the
set of steps that are `ok`, the start, whether a verification TXT is called for, and what
kind of error was stored. `hostId` and `cnameTarget` are set by the save that marks `infra`
and have no field of their own.

*Starting.* `startProvision` is `StartClaim` (the query of `claimLock`), `AbandonExpired`
(one save per job past the TTL), `StartCheck` (zones, scope, host taken), `StartInsert` and
`StartCommit` (an INSERT takes its id and timestamp when it begins, and others see the row
when it commits), and `StartContend` (the tie-break).

*Advancing.* The route takes the newest job in flight (`Advance`), loads it (`Load`), and
runs one step. `stepDns` has four awaits after the read of the records: delete, create, and
the TXT. A call to a provider may fail before or after it took effect; both outcomes are
choices of the action (`Fault`). A record read by one request is deleted by id later;
`held[t]` is the content the id stands for, and goes back to "none" once the record at the
host changes, because the id then names nothing.

*The zone.* At a host there is nothing, an address record, or one CNAME: somebody else's
("foreign"), one shaped like the provider's targets but not this job's (`Siblings`), the
job's own value DNS-only ("own") or through the proxy ("proxied").

*The rest.* `Outsider` is anybody else editing the records of the host, `Issue` the
provider's certificate, `Crash` the panel dying or a query throwing at an await, `Tick` the
clock, of which one tick is minutes: none passes while a start is between its INSERT and the end of
its tie-break. `ended` records which jobs were over, discarded say, before their own start came to
the tie-break, for the property.

### How `Schedules` corresponds to the code

*Processes.* A runner is a replica's timer (`startScheduler`, `edge/src/server.mjs:221`, which
never runs twice at once) or anybody who calls `runDueSchedules`; an operator is a request of
the panel. `pc[p]` is the statement a process is at: locking links ("lock"), writing a
restored row ("write"), about to store a new schedule ("insert"), or about to write down why
a schedule failed.

*Transactions.* A transaction's locks are the rows in `seen[p]`, each with what was read when
it was locked. Its writes are seen by others at its commit, so `Apply` and `CommitBulk` do
them all at once, from `seen`; `wrote[o]` are the rows an open bulk operation has changed so
far, which is what the unique index makes others wait for. `Done` is the end of a
transaction either way.

*Runners.* `Claim` is the claiming transaction, whose locks are gone when it commits; `batch`
is what it returned. `Recheck` is the second look with `SKIP LOCKED` and the snapshot of the
`SELECT`; `LockLink` its `FOR UPDATE`, one row at a time in the order of ids, each re-read
after a wait; `Apply` the writes, the schedule's row and the commit. An error rolls back
(`NoLiveLinks`, `LockTimeout`) and `MarkFailed` is the statement that follows; a deadlock
leaves the schedule pending (`DeadlockVictim`).

*Operators.* All six bulk operations are `applyBulk` with another plan: `LockOne` is
`applyOne` under its savepoint, `WriteRestored` the one write that can be refused or can wait,
`CommitBulk` the end. Pause, tag, UTM and `updateLink` are "set", which differ in the columns
they name; `updateLink` is a batch of one that sets them all. `computeSwap` is "swap": a value
the link may have already. `undoSchedule` is a batch whose patches are what the schedule
replaced. `createSchedule` is a read and an insert (`CreateRead`, `CreateInsert`),
`cancelSchedule` one guarded update.

### Staged modules

Components that share no state with each other in an interesting way are checked together:
`MCEdge` and `MCInstallation` have a variable `stage`, chosen at the start, which says whose
steps a behaviour takes; the others rest in their initial state. A staged run is therefore the
union of the components' own state spaces, and each property is judged on all of them. A pure
component is a variable that holds one input and never changes: its runs go over the inputs.

### How the edge's modules correspond to the code

*`Collector`.* The process is single-threaded; an action is what runs between two awaits.
`Record`, `Flush` and `TimerFires` are the functions of `collect.mjs`; `chain` is the promise
chain, of which the first write alone is under way, and its counter `inFlightBatches` is kept
apart as in the code. A write ends stored (`Written`), refused (`Refused`), or given up on by
the client after `query_timeout` although the server stored it (`TimedOut`). The server of
`edge/src/server.mjs` is `Arrive`, `Leave` (the visitor goes before the answer), `Answer` (the
answer, then the click, in one turn), `Fail`, `Signal`, `Stop` and `Exit`; a click of a visitor
who left can come after `stop()` has set its flag, and is then not taken.

*`Resolver`.* A query is its snapshot (`SiteSnapshot`) and its answer (`SiteAnswer`), between
which the panel edits and other requests fill the map. `Put` is a `Map` with its insertion
order; `Purged` the deletion of an expired entry on `get`. Deciding is `LinkRules!ResolveLink`.
`until` remembers when each row was replaced, for the property.

*`Rollup`.* A fold is one statement: `FoldRead` its snapshot, `FoldCommit` its upsert of whole
days. A figure is kept as the set of clicks it was computed from. `Ensure` and `DropExpired` are
`db/retention.mjs`, the insert falls into the catch-all where a month has no partition.

*`GeoRefresh`.* A round (`Refresh`, then `EnsureEdition` for each, then `Install`) comes from the
weekly interval (`IntervalFires`), of which the first tick is the process's start, or from the
retry (`RetryFires`). `current`, `signature`, `retry`, `halted` and `round # 0` are the variables
of `startGeoRefresh`'s closure (`current`, `signature`, `retryTimer`, `stopped`, `running`).
`found` is what `ensureDatabase` answered, `loaded` what `createGeoLookup` could open of it:
a file can be gone, or unreadable for once, whenever it is looked at (`Lose`, `Unreadable`), and
the lookup is then made current without it. The disk is when each file was fetched, which is what
its freshness goes by; a build is named by when it was made, every `Rebuild` ticks.

*`LinkRules`, `Editor`, `GeoReader`, `Usage`, `Reports`.* One operator per function. Values are
what the branches tell apart: a URL is its kind, whose host it has and its query; a slug a word
and whether it is in lower case; money is in cents and time in hours. An expiry is an instant in
the row and minutes of a clock in the form: `Shown` cuts the instant to the minute of UTC, as
`link-edit.tsx:75` does to the ISO text the loader sent, and `Read` takes the minutes for the
server's local time, as `new Date` does of a date without a zone (`editor.server.ts:73`). In
`Reports` the browsers are summed over raw events (`Raw`), which retention drops and of which a
fold may not have seen the latest; everything else over the rollup. `GeoReader` compares the
reader with what a writer of the format lays out (external, after the reader's own arithmetic).

### How the installation's modules correspond to the code

*`Accounts`.* A request is three moments: `Begin` (the session gives the role of whoever makes
it), `Check` (the target is loaded and judged), `Write` (the transaction); a transfer is
`Promote`, `Snapshot` and `Transfer`, because its second statement takes its snapshot while the
first holds the successor's row; an invitation is `Supersede` and `Invite`. Redeeming is one
transaction. `overlapped` remembers whether two requests were ever under way at once.

*`Sessions`, `SignInGuard`.* `Visit` is `resolveSession` followed by `refreshedCookieHeader`;
`Try` and `Wrong`/`Correct` are the two sides of the await in the route. The guard's prune keeps
what it keeps in the order of the first failures, ties left open.

*`Migrations`.* `Apply` opens a transaction and runs the statements, which wait for whoever has
the same ones open and fail if they are there already; `Commit` records the version with them.
An error ends the process.

*`Providers`.* A call's reply is a status, its errors and its data, or no reply; `Classify`,
`Graphql` and the functions after them turn it into a code, and `Outcomes`, `Deletions`,
`Destructions`, `Verdicts` are what a caller can come to believe beside what really happened,
over every reply. `Installer` draws on these sets, so a rollback meets exactly the failures the
clients can report.

*`Installer`.* `Verify`, `Verified`, `Rejected`, `Confirm` are the routes; a run is a walk over
`Plan`, whose entries are the calls by what they make. `made` is what exists at the providers,
`inventory` what the job believes, `unheard` what was made by a call that answered with an
error. `Undo` goes from the newest entry to the oldest; `Cleanup` is what `destroyToken` says;
`Signal`, `Drain`, `Leave` the shutdown with its limit.

*`InstallPlan`, `ServiceOrder`.* Hosts are sequences of labels; the records Railway asks for are
written up to the first that is refused (`RunDns`). Services are places in the template, a
variable's value a secret, a reference, or neither. `orderServices` visits services depth first,
which is the recursion that sets the second module apart from the first.

*`Backup`.* The export reads one table per step while the panel goes on (`torn` once something
moved in between); the restore is `Restored(db, file)`, table after table, each row by its name.

*`Doctor`.* `RunChecks` is the sequence of checks with its early stops; `Treat` is what comes of
doing what each failure printed. The certificate and the health of a host are asked for by name
(`Connects`), so both fail where the name leads to no address.

## 3. Runs

| Run | Instance | Shows |
|---|---|---|
| `provisioning` | two tabs, one host, two job ids, TTL 1, one tick, failure or foreign edit | `TypeOK`, `DoneIsRecorded`, `DnsOkMeansPointed`, `TieBreakLeavesOne`, refinement of `ZoneGuard` (`ZonePromise`) |
| `provisioning_live` | one tab, every kind of record at the host, up to three ticks, failures and edits | `JobEnds`, under fairness |
| `two_winners` | two tabs, no failures | violates `OneProvisionAtATime` |
| `discard` | two tabs, no failures | violates `DiscardReleases` |
| `overwrite` | two tabs, two hosts, no failures | violates `OverwriteIsInformed` |
| `schedules` | two runners, two operators, two schedules over overlapping pairs of three links, two of which share a slug | `TypeOK`, `RowsNeverDeadlock`, `FiresOnAllLive`, refinement of `AtomicSwaps` (`FiresAtomically`) |
| `schedules_live` | the same processes and links, one schedule, operators that delete and restore | `DueFires`, under fairness |
| `lock_timeout` | a runner, an operator, a schedule | violates `LockConflictStaysPending` |
| `edge` | the edge's eight components, staged | `EdgeTypeOK`; `ClicksAreSafe`, `ShutdownEnds` (liveness), refinement of `ClickLedger` (`Implements`); `AnswersAreFresh`; `DaysSettle`, `FallsOnlyOverlapped`; `LookupStaysCurrent`, `KeepsWhatItHas`; `VisitorsFillGaps`, `PanelAgreesWithEdge`, `GeoReadsWhatIsWritten`, `ProjectionHolds`, `ReportsAddUp` |
| `installation` | the installation's eight components, staged | `InstallationTypeOK`; `AloneKeepsOneOwner`, `OwnershipFlows`, `InvitesAreSeats`; `SessionsEnd`, `GuessesBounded`; `LandsWhole`, `BootsEventually` (liveness); `RunsEndClean`, `JobsEnd` (liveness), `PlanIsSafe`, `ServicesAreOrdered`; `RestoreMerges`; `DoctorIsRight`, `NextStepsHeal` |
| `owner_lost` | requests that overlap, from an owner, an admin and an editor | violates `OwnerRemains` |
| `cookie_lapses` | one browser, the code's limits of 7 and 30 days | violates `CookieFollowsRow` |

*Bounds (provisioning).* Two tabs and two rows are the least with which documents overwrite one another,
tie-breaks meet and expired rows are abandoned twice; with one host both rows fight over one
record. `MaxEvents` bounds ticks, failures and foreign edits together: one is enough to reach
a job past the TTL, a step that failed after it took effect, or a foreign record that appears
between the read and the delete. The safety properties and the refinement are proved without
any bound but one: the tie-break reads the ten newest jobs in progress (`Listed`, 10 in every
instance), more than there are ids. `JobIds` bounds the number of starts. `MaxEvents` is a guard of the model only; no
property depends on a bound being reached. Deadlock is not checked: with its ids and events
used up the instance may rest.

*Bounds (schedules).* Two runners are the least that can claim one schedule twice, and two
operators with three links the least with which restores deadlock on the slug index (each
holds one row and waits for the other's slug) while a runner waits behind them. Two columns
tell a schedule that sets one from one that sets both. `MaxEvents` bounds bulk operations,
undos, crashes and timeouts together: two let two operations run at once, three (liveness) a
crash or a timeout on top of them. `Batch` is one, so runners come back for the rest. Both
schedules are due at the same instant and the clock stops there; all the statements with
times are whether a schedule is due and which is earlier.

*Bounds (edge).* Four visits with batches of two and one write in flight are the least with which
a batch is written, another refused at the limit and a third left in the buffer when the signal
comes. The clock of `Resolver` runs to `TTL` plus `QueryTime` (2 + 1), when nothing from before
may be served any more, and an entry brought by the slowest query is still served one tick
earlier; two requests suffice for an old answer to overwrite a newer one, one map entry for
an eviction. Two folders overlap; a day is longer than the window reaches back (`Recent` 3 of
`DayTicks` 4), lateness and outage together stay under the window, which is what the property
asks (`OutagesFit`), and eight ticks let a day settle and its month be dropped. A geo week is three
ticks, builds come every two, so that the two fall together and apart, and the clock goes past the
second interval; two files are lost or unreadable at most, which is both editions at once, or one
at the round and one at the open. The dates of the editor lie on both sides of the moment and of
the minute it is in, on servers in UTC, an hour ahead and three behind. The inputs of the pure parts are listed in their modules' last sections and
hold each boundary the code compares with, and the values on both sides.

*Bounds (installation).* Two tabs overlap; four users and two invitations let a transfer, a
removal and an invitation meet. The ceiling of a session comes after its idle window (3 and 2
days) and the clock goes past both. Two forms race past a lock of two attempts, with one entry
tracked, so entries are evicted; that the map keeps its ceiling, the last part of
`GuessesBounded`, cannot fail with two keys and rests on its theorem. A container of each release and two faults. Two jobs of one
visitor with a ceiling of one: the second can only begin once the first is dropped, and the TTLs
are zero so that the sweep acts on the next tick. The plan makes the project, something inside
it, and a record outside it, which is where the rollback differs, and ends with a call that makes
nothing, so that the record too is rolled back. `MaxAge`, `MaxDay`,
`MaxMinute`, `MaxTime`, `MaxTicks`, `MaxGeoTime` are clocks; `MaxEdits`, `MaxLosses`, `MaxAsked`,
`MaxFaults`, `MaxChanges`, `MaxMoves`, `MaxUsers`, `MaxInvites`, `MaxLinks` bound how often
others act. They are guards of the model only. Deadlock is not checked in either run: a process
that has exited, or an instance whose clock has run out, rests.

*Symmetry.* Tabs are interchangeable, and so are runners and operators; the safety runs use
it; the liveness runs and the staged ones, which check liveness too, do not: there the first
free of several like actors (tabs, requests, replicas, clicks) is the next to act.

*Fairness (provisioning).* A request the server accepted is carried on (`WF` on `Continue`), because
handlers run to completion unless the process dies, and dying is the bounded `Crash`. The
operator keeps pressing continue (`SF` on `Advance` without overwrite: the button is there
each time the tab is idle). The provider issues a certificate for a host that points at it
and is verified (`WF` on `Issue`). Nothing is owed by discards, foreign edits or the clock.
`JobEnds` excuses jobs that wait for somebody else: a replaceable record nobody confirmed, a
host others edited, and an adopted host that came back with no token.

*Fairness (schedules).* The timer fires every minute in every replica and a run goes on to its
end (`WF` on `RunnerStep`); a request the panel accepted is carried on (`WF` on
`OperatorStep`); PostgreSQL breaks deadlocks (`WF` on `DeadlockVictim`). Crashes and timeouts
are bounded and owed nothing, nobody owes a cancel, and the clock need not move: a schedule is
judged from when it is due.

*Fairness (edge).* A request under way is answered or fails and a write settles, because the
pool's `query_timeout` is two seconds (`edge/src/server.mjs:313-314`); a timer that is set fires;
`server.close` calls back once no connection is left, and the process exits once the chain is
done (`CollectorFairness`). Nobody owes a visit or a signal.

*Fairness (installation).* A container that fails is started again (`ON_FAILURE` in
`railway.panel.json` and `railway.edge.json`) and the database answers; failures themselves are
bounded (`MigrationsFairness`). Every call of an installer's run ends, because fetch gives up on
a silent server (by Node's limits, the code sets none) and polls are counted (`InstallerFairness`). Nothing is owed by visitors, members or clocks.

## 4. What the violations say

Six comments of the code are not true of it.

1. *"The oldest job wins and the younger one stands down. Both tabs then agree about which
   provision is running"* (`provisioning.server.ts:242-245`; "One provision at a time", line
   35). Timestamp and id are taken when the INSERT begins, the row is seen when it commits.
   The younger request can commit and read the table before the older row is there: each
   finds itself the oldest. `TieBreakLeavesOne`, that the tie-break never sends everybody
   away, does hold (and is proved, section 5).
2. A job *"can be discarded from the same screen"* (lines 169-170; the test at
   `panel/test/provisioning.test.ts:685`). A step awaiting a provider when the job is
   discarded saves its own copy afterwards, with state `in_progress`, and the lock is back.
3. The overwrite is *"set only by an operator who has been shown the record that will be
   replaced"* (line 309; `domains.new.tsx:294-295`). The form names neither job nor record.
   With two jobs in flight, which the first finding allows, the confirmation given for one
   host is applied to another.
4. *"A lock conflict is not a broken schedule. Leaving it pending means the next tick picks it
   up; marking it failed would bury it forever"* (`schedules.server.ts:316-317`). That holds
   for deadlocks. The timer uses the edge's pool, whose statements are cancelled after two
   seconds (`edge/src/server.mjs:313-314`), and neither the server's code for that (57014) nor
   the client's (none) is in `RETRYABLE`: a wait of that length for one link, behind a large
   bulk operation for instance, marks the schedule failed.
5. The checks of a change of role or status keep it from locking "everyone out", "leaving
   nobody who can undo it" (`members.server.ts:174-178`). They judge the successor's row before
   the transaction of the transfer, whose two updates (lines 190-206) match whatever is there by
   then. A suspension or a removal of the successor that commits in between leaves an
   installation with no owner who can sign in. `AloneKeepsOneOwner` shows that it takes an
   overlap, `OwnershipFlows` that nobody gains anything from it.
6. *"The cookie has to slide with the row, or the idle window is a lie"*
   (`session.server.ts:193-202`). `resolveSession` has moved the row before
   `refreshedCookieHeader` (line 213) compares it with the value it was moved to: they are equal
   at every visit, no cookie goes out, and someone who comes every day is signed out on day 7.

What follows was met while modelling. It is modelled as the code has it; a property states what
remains true beside it, or there is none to state because no line of the code promises otherwise.

* *Provisioning.* That whoever stands down leaves somebody who did not holds only of jobs that
  nobody ended before their own tie-break, which is why `TieBreakLeavesOne` speaks of them. It takes three tabs: a
  start whose job a third tab discards between its commit and its tie-break still stands down, for
  the next oldest, which may itself have stood down for the discarded one and not have said so yet.
  Then neither goes on. Nothing is stuck, as nothing is in progress either.
* *Rollup.* A fold that read less and commits last lowers a day's figure until the next fold
  (`FallsOnlyOverlapped`). `dropExpiredPartitions` and `ensure_click_partition` are called by no
  scheduler; the model lets them happen at any time.
* *Members.* Two first-run claims that overlap make two owners; a transfer to a member removed
  meanwhile leaves none; an admin's request judged before a transfer can demote or remove the
  new owner. Reactivating a suspended member revives the sessions from before.
* *Links.* `healthz` is the edge's own path and not among the reserved slugs, so a link of that
  name never answers (`server.mjs:92-94`, `links.ts:27-36`). Saving a paused link in the editor
  activates it, clears `pass_through` and makes a 307 a 302 (`links.server.ts:165-179`); a link
  that has expired cannot be saved without another date. The date in the form is UTC read back as
  the server's local time, so on a server ahead of UTC by some minutes every save of a page brings
  the expiry forward by as many, and a save anywhere cuts its seconds off
  (`PanelAgreesWithEdge`); that "The server runs in UTC" (`bulk-bar.tsx:349`) is what the panel
  counts on. The fallback URL is not checked for loops. A root whose own
  policy is `custom_url` with no usable target follows the domain's target whatever the domain's
  policy is. `setLinkActive` writes no version although lines 183-185 say every write does.
* *Geo.* The databases are replaced every second week, because a file fetched some time into a
  round is a little younger than a week at the next (`LookupStaysCurrent` has two weeks, and the
  time between two builds on top). An edition whose file vanishes is lost from the lookup at the
  next round. `retryMs` is "how soon to try again while nothing is loaded" (`geo.mjs:737`), but a
  lookup is made of whatever can be opened of what the round found (lines 432-438, 782): if the
  files are gone or unreadable by then it is a lookup of nothing, current all the same, with its
  signature noted. No retry is set (line 760), and no click has a country until a round finds other
  builds. So `LookupStaysCurrent` says that there is a lookup or a retry, and of what is open only
  that it is of what was found, all of it while nothing is lost.
* *Usage.* With only the last month priced the level is "ok" and not "unknown"
  (`usage.server.ts:419-430`); prices pushed out of the window of samples make it unknown.
* *Installer.* `release` looks for credentials under `job.credentials`, which no job has
  (`setup/src/provision.mjs:263-286`), so the tokens of jobs that are dropped or swept are never
  destroyed. A call that took effect and answered with an error leaves something no inventory
  names (`unheard` in `LeftoversAreNamed`). The drain waits for 20 seconds. One failed poll of a
  domain's or deployment's status rolls the whole run back. A username of one letter, or a
  well-formed time zone that does not exist, is taken by the form and refused by the panel at the
  last call (`OwnerIsTaken`). Two verifications of one visitor at once take two places.
* *Backup.* A restore done twice doubles the links in the trash; a schedule that named a trashed
  link comes back onto a live link of that name, or not at all; a grant in a domain that is
  missing comes back as a grant in every domain, which takes a file that was torn, the export
  being no snapshot (`RestoreMerges` says that the file of a database nobody changed meanwhile
  gives nobody a new ability); a username that is taken rolls the whole restore back.
* *Doctor.* "An unexpected error has to arrive as a finding like any other" (`doctor.mjs:567-569`),
  but three lookups are started together and awaited in turn (lines 221-233), so one that fails
  before its turn is a rejection without a handler and ends the process with no report
  (`KillsRun`). `DoctorIsRight` and `NextStepsHeal` are about the runs that do report. A URL with
  sslmode
  `prefer` or `no-verify` is probed in plain TCP. The advice for a missing partition is refused by
  PostgreSQL while the catch-all holds rows of that month. A health check that fails says "The
  name and the certificate are fine" whether or not they are.

## 5. Proofs

TLC says that a property holds of the instances of section 3. The theorems below say that it
holds for every value of the constants that meets the assumptions, with no bound on how many
tabs, visits, replicas, browsers or jobs there are. `MaxEvents` and its like are constants of
the modules, so a theorem holds for each of their values. For each invariant the proof gives a
stronger one that every step keeps; most lemmas are named for the one fact they carry.

| Module | Proves about |
|---|---|
| `ProvisioningProofs` | `Provisioning` |
| `SchedulesProofs` | `Schedules` |
| `CollectorProofs` | `Collector` |
| `EdgeProofs` | `Resolver`, `GeoRefresh`, `Rollup`, `LinkRules`, `MCEdge` (with `CollectorProofs`) |
| `PureProofs` | `Editor`, `GeoReader`, `Usage`, `Reports` |
| `InstallationProofs` | `Migrations`, `Sessions`, `SignInGuard`, `Installer`, `InstallPlan`, `Doctor` |
| `AccountsProofs` | `Accounts` |
| `BackupProofs` | `Backup` |

### Provisioning

`ConstantsAssumption` (in `Provisioning`) is all that is assumed: `TTL` is a positive number,
ids are positive numbers, and the kinds of records are distinct. Tabs, hosts and siblings are
any sets, `MaxEvents` any number.

| Theorem | Statement |
|---|---|
| `TypeCorrect` | `Spec => []TypeOK` |
| `Inductive` | `Spec => []IInv` |
| `DoneIsAlwaysRecorded` | `Spec => []DoneIsRecorded` |
| `DnsOkAlwaysPointed` | `Spec => []DnsOkMeansPointed` |
| `OneAlwaysRemains` | `Spec /\ []FitsTheList => []TieBreakLeavesOne` |
| `KeepsZonePromise` | `Spec => ZonePromise` |

*The argument.* `DoneIsRecorded` and `DnsOkMeansPointed` are about rows, but any copy of a
row in a request's hands, and any row a start is about to abandon, may be written over a row
later: the invariant has to say the same ("honest") of `mem` and of `expired`. A copy stays
honest while it waits because what it claims cannot be taken back: hosts are never removed
from `subdomains` or `registered`, and the host a document calls pointed keeps its record
unless somebody else touches it. That last part needs `HeldIsThere`: a record id in a
request's hands names a record that is a sibling's or proxied, so no request deletes "own"
DNS-only, the one value an honest document relies on. `ReadyAt` says what a request has seen
by the time it gets to a place in the code (a request about to mark `record` has
`certificate`, one past the create has a host that points here). `IInv` is the conjunction;
TLC was run with it as an invariant on the instance of `provisioning` first. The refinement
follows: the only steps that change the zone are `DnsDelete`, which clears what `HeldIsThere`
says is replaceable, `DnsCreate`, which writes `Written` where nothing stands, and
`Outsider`, which counts itself.

*The tie-break.* `TInv` adds to `IInv` what `TieBreakLeavesOne` needs. Ids are given once and a
row appears with its commit (`RowsAppear`); every copy has the instant of its row, and a start
is over within that instant (`InstantsAgree`); a job that is not in progress although its start
has yet to look was ended by somebody (`EndsAreKnown`). Then `SomeoneStands`: for a job that
stood down there is one, less than the TTL older, that was ended so, or that did not stand down
and is older in the order the code sorts by. The step that matters is the tie-break itself
(`TieBreakFinds`). The job it stands down for may be standing down too, without having said so
yet; it then began at the same instant, and whoever it stood down for is older still. Whoever
relied on the job that now stands down relies on that one from here on. All of this is of what the
tie-break can see, and `inFlightJobs` lists the ten newest (`provisioning.server.ts:107`): a job
that is not among them finds ten younger ones and stands down for the oldest of those. So the theorem
asks that the list has room for every job in progress (`FitsTheList`; `AllAreListed` is where it is
used). Nothing in the code bounds how many there are but the lock, which keeps starts apart that do
not overlap: it takes more than ten that overlap, or that come back (section 4, 2).

### Schedules

`ScheduleConstants` is what is assumed: runners and operators are different processes, links
are numbers (so that they have an order), a link has at least one column, "keep" is no value,
and the constants have the types their comments give; a schedule changes something, as
`normalizePatch` and a constraint of the table require. For `RowsInOrder` the links are finitely
many (`LinksFinite`); nothing else is assumed to be finite.

| Theorem | Statement |
|---|---|
| `TypeCorrect` | `Spec => []TypeOK` |
| `Inductive` | `Spec => []IInv` |
| `ReachesAllLive` | `Spec => []FiresOnAllLive` |
| `RowsInOrder` | `Spec => []RowsNeverDeadlock` |
| `FiresOnceAndWhole` | `Spec => FiresAtomically` |

*The argument.* A commit writes what it computed from rows read earlier. That is a step of
`AtomicSwaps`, which looks at the rows as they are, because of two facts that need each
other: no row is held by two transactions (`LocksExclude`), so what was read under a lock is
still there (`SeenIsCurrent`). That a schedule fires once needs that only one runner applies it
(`AppliesAlone`), that it is still pending then and that the links held are its own
(`AppliesPending`); cancels, failures and other runners leave it alone while its row is
locked. `WritesHeld` says that a bulk operation changed only rows it holds, also after a
savepoint was rolled back, and `InsertsNew` that a schedule is stored once. `AllAccounted`
(each link a schedule names is to be locked, is locked, or was in the trash) gives
`FiresOnAllLive`. `LockMoves` is the lemma the locks rest on: whatever the action, a step locks
one free row, or lets go of rows, or changes rows its process holds and lets go of them all.
`Ascending` says that what a process has yet to lock comes after all it holds: of those who wait
for a row, the one that waits for the greatest waits for nobody who waits.

### The click collector

`CollectorConstants`: the visits are finitely many (so that the clicks in memory can be
counted), both limits are positive.

| Theorem | Statement |
|---|---|
| `CollectorInductive` | `CollectorSpec => []CInv` |
| `ClicksStaySafe` | `CollectorSpec => []ClicksAreSafe` |
| `KeepsLedger` | `CollectorSpec => Implements` |

*The argument.* `ClicksAreSafe` is `MemoryBounded`, that `pending` never says less than is held and
what is held has a limit, and `AnsweredAreAccounted`. The buffer is below one batch and the chain below its limit (`Limited`), which
bounds the memory only if every batch of the chain is as small; as a sum over a sequence would be
an induction, `TailsFit` bounds what is left behind each place of the chain, which every step
keeps by itself: a batch leaves in front and enters at the back. `HeldOnce` says that a click is
in one place; so a write that ends, whether stored, refused or given up on, takes exactly its
clicks out of memory, and the counter grows by their number and no other (`Accounted`). `Drains`
says that stopping begins when no connection is open and leaves nothing behind.

### The edge

| Theorem | Statement |
|---|---|
| `ResolverInductive` | `ResolverSpec => []RInv` |
| `AnswersStayFresh` | `ResolverSpec => []AnswersAreFresh` |
| `GeoInductive` | `GeoRefreshSpec => []GInv` |
| `LookupIsCurrent` | `GeoRefreshSpec => []LookupStaysCurrent` |
| `LookupNeverAges` | `GeoRefreshSpec => KeepsWhatItHas` |
| `RollupInductive` | `RollupSpec => []LInv` |
| `DaysStaySettled` | `RollupSpec => []DaysSettle` |
| `FiguresFallOnlyOverlapped` | `RollupSpec => FallsOnlyOverlapped` |
| `VisitorsDecideNothing` | `VisitorsFillGaps`, for any input of `LinkRules` |
| `EdgeStaysTyped` | `EdgeSpec => []EdgeTypeOK` |

*`Resolver`* (`ResolverConstants`: times are numbers, rows have their types). `AnswersAreFresh` is
`ServedRecently`, of hosts, and `LinksAreLive`, of links. The row of an entry
was its host's no longer ago, counted from when the entry expires, than the time to live and a
query together (`EntriesFit`), because an answer on its way is no older than a query may take
(`AnswersFit`). That a late answer overwrites a newer entry does not hurt: it brings its own
expiry.

*`GeoRefresh`* (`GeoRefreshConstants`: a week is more than one tick, builds come some ticks apart, the
editions are a sequence). What is open is what the last change named, less what could not be opened
(`Named`). While no file is lost, what a round has found is no older than what is open (`OnDisk`);
while nothing fails either, rounds begin on the week (`RoundsOnTime`) and `KeptYoung` says how old
each build may be before, during and after one. `GoesOn`: there is a lookup or an attempt is due.

*`Rollup`.* Three assumptions. `RollupConstants` gives types; `FoldsInTime`, that what is folded
is kept, follows from the constants of the code (`edge/src/server.mjs:249`,
`db/retention.mjs:30`); `OutagesFit`, that a row is late and the folding is out for less than the
window together, is not the code's to promise but the deployment's to see to, and `DaysSettle`
is only claimed of such. It cannot be weakened: with the two sums equal, TLC finds a day that
stays short. Once all rows of a day are in, a statement that reads it reads all (`FoldsFit`), and
one has read it before the window leaves it (`FiguresFit`).

*`LinkRules`* (`RuleConstants`: the UTM keys are not among the others). The module is pure, so the
theorem is about any `rule`; its hypothesis says what an input with a forwarding header is, a
sequence and a number of proxies.

*`MCEdge`.* Whichever component is staged, a step of the edge is a step of every component or
leaves it alone (`StagesOne`); so the four invariants hold together (`EInv`), the collector's
among them, and with them the types the run checks.

### What is computed and changes nothing

These modules have one variable, the input, which never changes, so a theorem is about any input of
a kind: `rule \in AnyRule`, and so on. The kinds are larger than what the run enumerates and as large
as the code takes them, and four lemmas say that they contain it (`InputsAreRules`,
`InputsAreReadings`, `InputsAreData`, `InputsAreViews`): the hypotheses are met, by every input the
run has for the property.

| Theorem | Statement | The run has | The theorem has |
|---|---|---|---|
| `PanelAlwaysAgrees` | `rule \in AnyRule => PanelAgreesWithEdge` | up to three parameters, three zones | queries and forms with any number of parameters, any slug, row and root, any moment, expiry and zone |
| `GeoAlwaysReadsWhatIsWritten` | `datum \in AnyDatum => GeoReadsWhatIsWritten` | records, pointers and sizes at their boundaries, some tables | any two records of 28 bits, any pointer and size, any table, any address, three files of any size cut anywhere |
| `ProjectionAlwaysHolds` | `reading \in AnyReading => ProjectionHolds` | `Moments` and `Costs` | three samples and a look at any times, any costs |
| `ReportsAlwaysAddUp` | `view \in AnyView => ReportsAddUp` | tables of three days | any counts, any table of any number of days, any raw events a fold has not seen, any scope and range |

*`Editor`.* A query is laid out key by key in the order of first appearance; `LaidOut` and `OnlyIs`
say what that leaves of one key, which is what the edge reads, and `FilledTwice` that to fill in
twice is to fill in once. `RowShown` and `ResavedIs` follow a link through the form and back, its
expiry by division with remainder.

*`GeoReader`.* The reader takes bytes apart with divisions and remainders and the writer puts them
together; they meet at each of the lengths at which the encoding changes (`PointersMeetAt`,
`SizesMeetAt`). The tree that a writer builds is a set of nodes, and the walk down it comes to where
the longest matching prefix is (`WalkFinds`); in the archive, the offset of a file is the sum of what is
padded before it (`OffsetsAre`).

*`Usage`* (`UsageConstants`: cycle, ceiling and window are positive). `NewestIs` says which of three
samples the projection is of, `RateFalls` that an older reading projects less.

*`Reports`* (`ReportConstants`: the ranking is a finite sequence that has "other"). What a report adds
up to is a sum over links and days, which the community modules define by recursion over a set. The
theory of such sums is proved first, from the least size of a set at which each fact would fail: the
value does not depend on the order (`SumsAgree`), a sum splits, regroups and swaps (`SumSplit`,
`SumGroups`, `SumSwap`), and keeps `<=` (`SumLess`). With it shares come to 100.0% exactly
(`SharesAddUp`: what rounding leaves is less than one tenth for each row, and is given to as many
rows), a folded breakdown keeps every click (`BreakdownAlwaysAddsUp`), and days, links and
totals agree (`DaysJoin`, `LinksJoin`, `TotalsAre`). The browsers come from other rows than the totals:
`BrowsersAre` puts the difference down to the days that were dropped and the clicks not folded yet.

### Making an installation, and getting into it

| Theorem | Statement |
|---|---|
| `MigrationsLandWhole` | `MigrationsSpec => []LandsWhole` |
| `SessionsAlwaysEnd` | `SessionsSpec => SessionsEnd` |
| `GuessesStayBounded` | `SignInSpec => []GuessesBounded` |
| `InstallsEndClean` | `InstallerSpec => []RunsEndClean` |
| `PlanIsAlwaysSafe` | `form \in AnyForm => PlanIsSafe` |
| `DoctorIsAlwaysRight` | `patient \in AnyPatient => DoctorIsRight` |

*`Migrations`* (`MigrationConstants`: one container ships the most versions, which a finite
deployment has). `InTurn`: a transaction that is open brings the next version, which no other
container has open; what a container read of the ledger is still in it.

*`Sessions`* (`SessionConstants`: the idle window is no longer than the ceiling). `RowsLapse`: a row
expires within the idle window of its last use and within the ceiling of its creation.

*`SignInGuard`* (`SignInConstants`: at least one attempt is allowed, and finitely many forms are
open). `RoomLeft` counts the sign-ins being verified with the failures, since each may become one:
that is why the route may exceed its limit by them and by no more. `WindowsCounted` ties the
counter to the failures that really happened: an entry counts those since its first, those before
are one window's worth, and a new entry begins where the last can say no more. Sums over time are
recursive functions; what is needed of them is proved from the least instant at which it would fail.

*`Installer`* (`InstallerConstants`: the plan is not empty and makes the project first, and once).
`Planned` and `RollingBack` say of one job what exists because of it: the plan up to where the run
is; in a rollback what no answer told of, what is stranded, what has its turn still to come, and
what goes with the project. `StoreOK` is the ceiling and the drain. What the providers' answers can
make a run believe is computed by `Providers` and proved apart (`Outcomes`, `Deletions`,
`Destructions`): an answer that calls a thing gone is only given when it is.

*`InstallPlan`* (`PlanConstants`: labels that are certainly hostnames are among those). Of any sequences
of labels typed, any lengths of the owner's fields, any sequence of names asked for in any zone.
`UnderApex` reads `assertCreatableHost` label by label from the end. The run of the records stops at the
first that is refused (`RunIs`); what it wrote before was free in the zone and not written a moment ago
(`RefusedIs`), and neither the apex nor its www nor its proof is ever agreed to (`ApexIsRefused`).

*`Doctor`* (`DoctorConstants`: finitely many releases, a month has days). Of any partitions, clocks,
certificates and any checks that throw. Each check's finding is put beside the condition of `InOrder`
it stands for; what the proof adds to the run is that they are all of it, at every tolerance and month.
`InputsArePatients` says that the inputs of the run are among those of the theorem.

### Accounts

`AccountConstants`: a team that is there at first has one owner, who is active, and no address
twice.

| Theorem | Statement |
|---|---|
| `AccountsInductive` | `AccountsSpec => []AInv` |
| `OneOwnerStays` | `AccountsSpec => []AloneKeepsOneOwner` |
| `OwnershipIsGiven` | `AccountsSpec => OwnershipFlows` |
| `InvitationsAreSeats` | `AccountsSpec => InvitesAreSeats` |

*The argument.* `TabsFit` says what a request has established at each of its moments, and holds
whatever else goes on; a request that would make an owner is an owner's, which is all that
`OwnershipFlows` needs. What a request found out about *others* is only still so if none overlapped
it: `Alone` says that under `~overlapped`, and that one owner is active. `LastPending`, that a
pending invitation is the last for its address, is what the unique index is for.

### Backup

`BackupConstants`: the databases there are at first are such as the tables allow.

| Theorem | Statement |
|---|---|
| `BackupInductive` | `BackupSpec => []BInv` |
| `RestoreMergesAlways` | `BackupSpec => []RestoreMerges` |

*The argument.* Whatever the panel does, the database stays one its constraints allow: live links have
different names, schedules and grants name what exists (`BackupTypeOK`). A file may be torn between two
states of it, so all the invariant says of any file is `Fitting`: its rows have their types and a
schedule asks for no fewer links than it names. Of a file that is not torn `FileFollows` says that the
tables written so far are those of the database it is exported from. What `RestoreMerges` promises is
then about two values, a database and a file. Inserting links one after the other is a recursion over
the file; `MergedKeeps` and `MergedAgain`, proved from the least place at which they would fail, say
that it only appends, under names that are not there, and that a second pass finds every name.
`BoundToAll` says that a schedule comes back on links that have exactly the names it had.

### What stays with TLC

* Liveness (`JobEnds`, `DueFires`, `ShutdownEnds`, `BootsEventually`, `JobsEnd`): it is about
  fairness, and out of the prover's reach.
* `ServicesAreOrdered`: `orderServices` is a depth-first walk, and an operator that is declared
  RECURSIVE is out of the prover's reach.
* `NextStepsHeal`: following the doctor's steps is four runs of a fold in no particular order, over
  inputs the run enumerates.
* `InstallationTypeOK`, the types of all components `MCInstallation` stages: it extends `ServiceOrder`,
  which is RECURSIVE. Those of each component are part of its own invariant, which is proved.

## 6. Plan

`Provisioning` and `Schedules` came first, being the two parts in which most processes share
most state, then the click path, then what makes and keeps an installation, then the pure parts.
Every safety invariant and action property is stated by a theorem but the four just named. What is
left, in this order:

1. `ServicesAreOrdered`, with the walk written as a recursive function over the services seen.
2. `NextStepsHeal`, once it is shown that the order in which next steps are followed does not matter.
3. The hazards of `PROJECT.json` that no property covers, which take a change of the code first: a
   create that took effect is adopted without its ownership token, a record edited in place keeps its
   id, and the credentials of a dropped job are looked for under the wrong name.

## 7. Not modelled

* Credentials at rest (`core/`): encryption of single values, with no state between calls.
* The panel's pages, wording and translations, the installer's page (`setup/src/page.mjs`), demo
  data (`panel/seed/`), the command line, which drives external programs, and the build files.
* The challenge before the installer's form, its note to the operator, headers and HTML of the
  edge's answers, the parsing of user agents and the list of bot patterns (data), hashing of
  passwords and addresses, decompression of downloads.
* Of provisioning: the parsing of provider responses and the `readiness` screens.
* Of links: per-link authorisation inside a batch (a refused link, like one `computeSwap` cannot
  rewrite, is let go with its savepoint, as one on the wrong side of the trash is), and links
  removed with their domain.
* Of schedules: time zones, notes other than the reason of a failure, and audit rows.
  `cancelSchedule` holds its row lock for one action. No page calls `cancelSchedule` or
  `undoSchedule`: they are modelled as the library offers them and its tests use them.
* Of members: audit rows, mails, and the setup token, which is taken to match.
* Of reports: that the reads of one report run in parallel and may straddle a fold; they are one look
  at the rollup and at the events. The floating
  point of shares is modelled as the choice it leaves between equal remainders.
* Of schedules and bulk operations, the share locks PostgreSQL takes for foreign keys.
* Liveness that nothing in the code owes: that a visitor comes back, that an operator upgrades,
  that the purge is called.
