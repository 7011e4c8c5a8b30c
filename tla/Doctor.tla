-------------------------------- MODULE Doctor --------------------------------
(***************************************************************************)
(* The diagnostic an operator runs (scripts/doctor.mjs): its checks, in    *)
(* the order and with the stops of runChecks, and the next step each       *)
(* failure prints.  `patient` is one installation, chosen at the start;    *)
(* Treat is what comes of following every next step, and is the operator's.*)
(***************************************************************************)
EXTENDS Integers, FiniteSets, FiniteSetsExt

CONSTANTS
    Releases,   \* migrations that exist
    Tolerance,  \* clockToleranceMs
    MonthDays,  \* days in a month
    Today       \* now, in days

ASSUME DoctorConstants ==
    /\ IsFiniteSet(Releases) /\ Tolerance \in Nat /\ MonthDays \in Nat \ {0} /\ Today \in Nat

VARIABLE patient

Finding(check, ok, next) == [check |-> check, ok |-> ok, next |-> IF ok THEN "nothing" ELSE next]

-----------------------------------------------------------------------------
(* The connection.  `server` says which connections are accepted, and what   *)
(* trouble keeps it from any, named after the error.                         *)

Troubles == {"ENOTFOUND", "ECONNREFUSED", "ETIMEDOUT", "28P01", "28000", "3D000", "unknown"}

\* parseUrl, and the driver's own reading of a URL: every sslmode but disable.
WantsTls(url) == url = "require"
DriverTls(url) == url \in {"require", "prefer"}

\* probeConnection.
Reaches(p, tls) == p.trouble = "none" /\ IF tls THEN p.server \in {"tls", "both"} ELSE p.server \in {"plain", "both"}

\* checkDatabase: the other mode is tried before anything is called unreachable,
\* and what is unreachable gets the step of its error (unreachableNextStep).
CheckDatabase(p) ==
    Finding("database", Reaches(p, WantsTls(p.url)),
            IF ~Reaches(p, ~WantsTls(p.url)) THEN p.trouble
            ELSE IF WantsTls(p.url) THEN "remove sslmode" ELSE "append sslmode")

-----------------------------------------------------------------------------
(* The schema and the clock.                                                 *)

\* (mutant: what is behind is told to deploy)
CheckMigrationsSwapped(p) ==
    LET behind == ~p.migrated \/ ~(p.disk \subseteq p.ledger) IN
    Finding("migrations", ~behind /\ p.ledger = p.disk, IF behind THEN "deploy" ELSE "migrate")

\* checkMigrations.
CheckMigrations(p) ==
    LET behind == ~p.migrated \/ ~(p.disk \subseteq p.ledger) IN
    Finding("migrations", ~behind /\ p.ledger = p.disk, IF behind THEN "migrate" ELSE "deploy")

\* checkClock: against the middle of the round trip.
CheckClock(p) ==
    LET twice == 2 * p.clock.db - p.clock.before - p.clock.after IN
    Finding("clock", twice <= 2 * Tolerance /\ -twice <= 2 * Tolerance, "ntp")

-----------------------------------------------------------------------------
(* A host: the records its name has, the certificate and the answer behind   *)
(* it.  `settles` is the order the three lookups settle in.                  *)

Lookups == <<"CNAME", "A", "AAAA">>

\* resolveHost awaits the lookups one at a time: one refused while an earlier is
\* still awaited has no handler yet, and an unhandled rejection ends the process.
KillsRun(h) == \E i, j \in 1..3 :
    /\ i < j /\ Lookups[j] \notin h.records
    /\ \E m, n \in 1..3 : m < n /\ h.settles[m] = Lookups[j] /\ h.settles[n] = Lookups[i]

\* A connection is by name, which an alias of nothing does not answer.
Connects(h) == h.records \cap {"A", "AAAA"} # {} /\ h.listens

\* inspectCertificate, and what checkSubdomain makes of it.
CheckCertificate(h) ==
    Finding("certificate", Connects(h) /\ h.trusted /\ h.days >= 7,
            IF ~Connects(h) THEN "start tls" ELSE IF ~h.trusted \/ h.days < 0 THEN "reissue" ELSE "renew")

\* fetchHealth: a fetch needs a connection and a valid certificate to be answered.
Answer(h) == IF Connects(h) /\ h.trusted /\ h.days >= 0 THEN h.edge ELSE "none"

\* checkSubdomain, and dnsNextStep.
CheckSubdomain(h) ==
    {Finding("dns", h.records # {}, IF h.recorded THEN "create record" ELSE "provision"),
     CheckCertificate(h), Finding("health", Answer(h) = "200", "read logs")}

\* checkSubdomains: of the hosts that are on.
CheckSubdomains(p) ==
    {Finding("subdomains", TRUE, "")} \cup (IF p.host.on THEN CheckSubdomain(p.host) ELSE {})

-----------------------------------------------------------------------------
(* Partitions and retention.  Months are numbered; `caught` are those the    *)
(* catch-all holds rows of, and a window of zero is no setting.              *)

Wanted == LET month == Today \div MonthDays IN {month, month + 1}

\* checkPartitions.
CheckPartitions(p) == Finding("partitions", Wanted \subseteq p.partitions, "ensure")

\* What dropExpiredPartitions leaves.
Remaining(partitions, window) == {m \in partitions : (m + 1) * MonthDays > Today - window}

\* (mutant: a month expires with its first day)
CheckRetentionStrict(p) ==
    Finding("retention", p.window # 0 /\ \A m \in p.partitions : m * MonthDays > Today - p.window,
            IF p.window = 0 THEN "restore setting" ELSE "purge")

\* checkRetention.
CheckRetention(p) ==
    Finding("retention", p.window # 0 /\ \A m \in p.partitions : (m + 1) * MonthDays > Today - p.window,
            IF p.window = 0 THEN "restore setting" ELSE "purge")

-----------------------------------------------------------------------------
(* The runner.                                                               *)

\* guard, guardMany: what a check throws becomes a finding.
Guard(p, check, findings) == IF check \in p.throws THEN {Finding(check, FALSE, "compare")} ELSE findings

\* runChecks: without a database nothing else is checked, and without its
\* migrations only the clock.
RunChecks(p) ==
    IF p.url = "none" THEN {Finding("database", FALSE, "export")}
    ELSE IF p.url = "garbage" THEN {Finding("database", FALSE, "rewrite")}
    ELSE IF ~CheckDatabase(p).ok THEN {CheckDatabase(p)}
    ELSE LET migrations == Guard(p, "migrations", {CheckMigrations(p)}) IN
         {CheckDatabase(p)} \cup migrations \cup Guard(p, "clock", {CheckClock(p)}) \cup
         (IF \A f \in migrations : f.ok
            THEN Guard(p, "subdomains", CheckSubdomains(p)) \cup
                 Guard(p, "partitions", {CheckPartitions(p)}) \cup Guard(p, "retention", {CheckRetention(p)})
            ELSE {})

Fails(p) == {f \in RunChecks(p) : ~f.ok}

\* Does the run end without a report?
Dead(p) == p.host.on /\ KillsRun(p.host) /\ \E f \in RunChecks(p) : f.check = "health"

-----------------------------------------------------------------------------
(* The operator.                                                             *)

\* What comes of one next step.  PostgreSQL refuses a partition for a month the
\* catch-all holds rows of; the steps for the edge and the server mend them, and
\* the one for a handshake that fails is about the records as well.
Follow(f, p) ==
    CASE f.next \in {"export", "rewrite", "remove sslmode"} -> [p EXCEPT !.url = "bare"]
      [] f.next = "append sslmode"  -> [p EXCEPT !.url = "require"]
      [] f.next \in Troubles        -> [p EXCEPT !.trouble = "none"]
      [] f.next = "migrate"         -> [p EXCEPT !.migrated = TRUE, !.ledger = @ \cup p.disk]
      [] f.next = "deploy"          -> [p EXCEPT !.disk = @ \cup p.ledger]
      [] f.next = "ntp"             -> [p EXCEPT !.clock = [before |-> 0, db |-> 0, after |-> 0]]
      [] f.next = "create record"   -> [p EXCEPT !.host.records = {"CNAME", "A"}]
      [] f.next = "provision"       -> [p EXCEPT !.host.records = {"CNAME", "A"}, !.host.recorded = TRUE]
      [] f.next = "start tls"       -> [p EXCEPT !.host.records = {"CNAME", "A"}, !.host.listens = TRUE]
      [] f.next = "reissue"         -> [p EXCEPT !.host.trusted = TRUE, !.host.days = 90]
      [] f.next = "renew"           -> [p EXCEPT !.host.days = 90]
      [] f.next = "read logs"       -> [p EXCEPT !.host.edge = "200"]
      [] f.next = "ensure"          -> [p EXCEPT !.partitions = @ \cup (Wanted \ p.caught)]
      [] f.next = "restore setting" -> [p EXCEPT !.window = 180]
      [] f.next = "purge"           -> [p EXCEPT !.partitions = Remaining(@, p.window)]
      [] f.next = "compare"         -> [p EXCEPT !.throws = @ \ {f.check}]

\* A run, and every step it prints followed.
Treat(p) == FoldSet(Follow, p, Fails(p))

-----------------------------------------------------------------------------
(* Inputs and the property.                                                  *)

Hosts == [on: BOOLEAN, recorded: BOOLEAN, records: SUBSET {"CNAME", "A", "AAAA"}, listens: BOOLEAN,
          trusted: BOOLEAN, days: {-1, 0, 6, 7}, edge: {"200", "302", "none"},
          settles: {s \in [1..3 -> {"CNAME", "A", "AAAA"}] : \A i, j \in 1..3 : i # j => s[i] # s[j]}]
Healthy ==
    [of |-> "doctor", url |-> "bare", server |-> "plain", trouble |-> "none", throws |-> {},
     migrated |-> TRUE, ledger |-> Releases, disk |-> Releases,
     clock |-> [before |-> 0, db |-> 0, after |-> 0],
     host |-> [on |-> TRUE, recorded |-> TRUE, records |-> {"CNAME", "A"}, listens |-> TRUE, trusted |-> TRUE,
               days |-> 60, edge |-> "200", settles |-> Lookups],
     partitions |-> Wanted, caught |-> {}, window |-> 180]

\* One part of an installation out of order, or two that are found in turn.
DoctorInputs ==
    {[Healthy EXCEPT !.url = url, !.server = server, !.trouble = trouble, !.ledger = ledger] :
        url \in {"none", "garbage", "bare", "require", "prefer"}, server \in {"plain", "tls", "both"},
        trouble \in {"none"} \cup Troubles, ledger \in {{}, Releases}} \cup
    {[Healthy EXCEPT !.migrated = migrated, !.ledger = IF migrated THEN ledger ELSE {}, !.disk = disk, !.throws = throws] :
        migrated \in BOOLEAN, ledger \in SUBSET Releases, disk \in (SUBSET Releases) \ {{}},
        throws \in SUBSET {"migrations", "clock", "subdomains", "partitions", "retention"}} \cup
    {[Healthy EXCEPT !.clock = clock] : clock \in [before: {0}, db: -3..6, after: 0..5]} \cup
    {[Healthy EXCEPT !.host = host] : host \in Hosts} \cup
    {[Healthy EXCEPT !.partitions = partitions, !.caught = caught, !.window = window] :
        partitions \in SUBSET (0..(Today \div MonthDays + 1)), caught \in SUBSET Wanted, window \in {0, 1, MonthDays, 2 * MonthDays}}
DoctorInit == patient \in DoctorInputs

\* Is the installation in order?  The services connect as their driver reads
\* the URL, the schema is this release's, and so on to the last host.
InOrder(p) ==
    /\ p.url \notin {"none", "garbage"} /\ Reaches(p, DriverTls(p.url))
    /\ p.throws = {} /\ p.migrated /\ p.ledger = p.disk
    /\ 2 * p.clock.db - p.clock.before - p.clock.after \in -2 * Tolerance .. 2 * Tolerance
    /\ p.host.on => p.host.records # {} /\ Answer(p.host) = "200" /\ p.host.days > 6
    /\ Wanted \subseteq p.partitions /\ p.window # 0 /\ Remaining(p.partitions, p.window) = p.partitions

\* The installation n runs later.
After(p, n) == LET run[i \in 0..n] == IF i = 0 THEN p ELSE Treat(run[i - 1]) IN run[n]

\* What the diagnosis is worth.  A run that reports passes exactly the
\* installations that are in order, save that a URL whose sslmode is none of the
\* three it knows is probed in plain TCP while the services take TLS
\* (doctor.mjs:36-48).  Runs that die are left out, although an unexpected error
\* is to arrive as a finding (doctor.mjs:567-569): see KillsRun.
DoctorIsRight ==
    patient.of = "doctor" /\ ~Dead(patient) /\ patient.url # "prefer" =>
        (Fails(patient) = {} <=> InOrder(patient))

\* And its next steps heal (doctor.mjs:3-5: "one specific next step"): followed
\* until nothing fails, which takes no more than four runs, they leave nothing
\* that fails and break nothing that passed -- unless the catch-all already holds
\* clicks of a month without a partition, for then the step printed is refused.
NextStepsHeal ==
    patient.of = "doctor" /\ ~Dead(patient) =>
        /\ Fails(After(patient, 4)) = {} <=> patient.caught \subseteq patient.partitions
        /\ \A f \in RunChecks(patient), g \in Fails(Treat(patient)) : f.ok => f.check # g.check
=============================================================================
