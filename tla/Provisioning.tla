---------------------------- MODULE Provisioning ----------------------------
(***************************************************************************)
(* Connecting a domain (panel/app/lib/provisioning.server.ts and the route *)
(* that drives it).  A job is one row of audit_log holding a whole         *)
(* document; every request loads the document, awaits a provider and       *)
(* writes the whole document back from its own copy.  The row in state     *)
(* "in_progress" is also the lock.                                         *)
(*                                                                         *)
(* An await is where one action ends and the next begins: between the two, *)
(* other tabs, the zone's owner and the providers move.                    *)
(***************************************************************************)
EXTENDS Naturals, FiniteSets

CONSTANTS
    Tabs,       \* browser tabs; each has at most one request in flight
    Hosts,      \* hosts that can be connected
    Siblings,   \* CNAME values shaped like this provider's targets but not this job's own
    JobIds,     \* audit_log ids the run can hand out: 1..n
    TTL,        \* LOCK_TTL_MS, in clock ticks
    Listed,     \* how many jobs inFlightJobs lists at most
    Found,      \* what may stand at a host before anything is done
    MaxEvents   \* bound on ticks, failures and changes by others, all together

ASSUME ConstantsAssumption ==
    /\ TTL \in Nat \ {0}
    /\ Listed \in Nat \ {0}
    /\ MaxEvents \in Nat
    /\ JobIds \subseteq Nat \ {0}
    /\ Siblings \cap {"none", "address", "foreign", "own", "proxied"} = {}
    /\ Found \subseteq {"none", "address", "foreign", "own", "proxied"} \cup Siblings

VARIABLES
    jobs,        \* [JobIds -> document or NoDoc]: the rows other requests can see
    ended,       \* ids of the jobs that others ended before their start came to the tie-break
    nextId,      \* the id sequence
    clock,       \* the database's and the panel's clock
    zone,        \* [Hosts -> Record]: what stands at the host in the DNS zone
    txt,         \* hosts whose ownership TXT record exists
    registered,  \* hosts the infrastructure provider knows
    cert,        \* [Hosts -> certificate status at the provider]
    subdomains,  \* hosts recorded in the panel's own table
    pc,          \* [Tabs -> where the tab's request is suspended]
    job,         \* [Tabs -> id of the row the request works on, or 0]
    mem,         \* [Tabs -> the request's own copy of the document, or NoDoc]
    expired,     \* [Tabs -> rows past the TTL the request has yet to abandon]
    confirm,     \* [Tabs -> the form carried overwrite=1]
    held,        \* [Tabs -> content of the record whose id the request is about to delete]
    shown,       \* [Tabs -> <<host, value>> of the replaceable record on screen, or Nothing]
    edits,       \* changes made to the zone by anyone else
    touched,     \* hosts such a change was made at
    faults       \* failures so far

worldVars == <<zone, txt, registered, cert, edits, touched>>
reqVars   == <<pc, job, mem, expired, confirm, held, shown>>
vars == <<jobs, ended, nextId, clock, zone, txt, registered, cert, subdomains,
          pc, job, mem, expired, confirm, held, shown, edits, touched, faults>>

-----------------------------------------------------------------------------
(* Documents.                                                              *)

Steps  == {"infra", "dns", "certificate", "record"}
States == {"in_progress", "done", "error", "abandoned"}
Errors == {"null", "failed", "held", "expired", "discarded"}

Doc == [host: Hosts, state: States, steps: SUBSET Steps,
        started: Nat, verification: BOOLEAN, error: Errors]
NoDoc   == [host |-> "none"]
Nothing == <<>>

\* steps is the set of steps that are 'ok'; hostId and cnameTarget are set by
\* the same save that marks infra, and have no field of their own.
NewDoc(h) == [host |-> h, state |-> "in_progress", steps |-> {},
              started |-> clock, verification |-> FALSE, error |-> "null"]

\* fail; its mutant writes a state no reader of the row knows.
FailedOddly(d) == [d EXCEPT !.state = "failed", !.error = "failed"]
Failed(d) == [d EXCEPT !.state = "error", !.error = "failed"]
Abandoned(d, why) == [d EXCEPT !.state = "abandoned", !.error = why]

\* save merges the step into the copy's steps; its mutant replaces them.
StepOkReplacing(d, step) == [d EXCEPT !.steps = {step}]
StepOk(d, step) == [d EXCEPT !.steps = @ \cup {step}]

Visible    == {j \in JobIds : jobs[j] # NoDoc}
InProgress == {j \in Visible : jobs[j].state = "in_progress"}
Fresh(j)   == clock - jobs[j].started < TTL
Older(i, j) == \/ jobs[i].started < jobs[j].started
               \/ jobs[i].started = jobs[j].started /\ i < j

\* inFlightJobs: of the jobs in progress, the newest.
InFlight == {j \in InProgress : Cardinality({k \in InProgress : Older(j, k)}) < Listed}

-----------------------------------------------------------------------------
(* The zone.  A name holds an address record, or one CNAME, or neither:    *)
(* the DNS provider refuses anything else.                                 *)

Records == {"none", "address", "foreign", "own", "proxied"} \cup Siblings

\* This job's own value, whether the record is proxied or DNS-only.
Ours(r) == r \in {"own", "proxied"}

\* Nothing needs doing; the mutant forgets to look at the proxy flag.
RightEvenProxied(r) == Ours(r)
Right(r) == Ours(r) /\ r # "proxied"

\* ownsRecordValue or looksLikeRailwayTarget; the mutant takes any CNAME.
ReplaceableAny(r) == Ours(r) \/ r \in Siblings \/ r = "foreign"
Replaceable(r) == Ours(r) \/ r \in Siblings

\* createRecord never asks for the proxy.
Written == "own"

\* A record id stops naming anything once the record at h changes.
Forget(h) == [t \in Tabs |-> IF mem[t].host = h THEN "none" ELSE held[t]]

-----------------------------------------------------------------------------
(* Requests.                                                               *)

PCs == {"idle", "claim", "check", "insert", "commit", "contend", "load",
        "infra", "dns", "delete", "create", "txt", "certificate",
        "record", "recordUpdate", "recordInsert", "save"}

Goto(t, l) == pc' = [pc EXCEPT ![t] = l]
Remember(t, d) == mem' = [mem EXCEPT ![t] = d]

\* A job is over, and not because its start stood down.
Over(d) == d.state # "in_progress" /\ d.error # "held"

\* What ended is once d is written to row j.
EndedWith(j, d) ==
    IF Over(d) /\ \E t \in Tabs : pc[t] = "contend" /\ job[t] = j
    THEN ended \cup {j} ELSE ended

\* The response: the tab is free again, and shows what the response said.
Respond(t, screen) ==
    /\ pc'      = [pc EXCEPT ![t] = "idle"]
    /\ job'     = [job EXCEPT ![t] = 0]
    /\ mem'     = [mem EXCEPT ![t] = NoDoc]
    /\ expired' = [expired EXCEPT ![t] = {}]
    /\ confirm' = [confirm EXCEPT ![t] = FALSE]
    /\ held'    = [held EXCEPT ![t] = "none"]
    /\ shown'   = [shown EXCEPT ![t] = screen]

\* The request goes on to save document d.
ThenSave(t, d) ==
    /\ Goto(t, "save")
    /\ Remember(t, d)
    /\ UNCHANGED <<job, expired, confirm, held, shown>>

\* Room for one more tick, failure or change by others.
MoreMayHappen == clock + edits + faults < MaxEvents

\* A call fails, a token is refused or a request is dropped.
Fault == MoreMayHappen /\ faults' = faults + 1

-----------------------------------------------------------------------------
(* startProvision.                                                         *)

\* claimLock: any job within the TTL refuses; otherwise every job found is to
\* be abandoned, newest first, one save at a time.
StartClaim(t, h) ==
    /\ pc[t] = "idle"
    /\ nextId \in JobIds
    /\ \/ /\ \E j \in InFlight : Fresh(j)
          /\ Respond(t, Nothing)
       \/ /\ \A j \in InFlight : ~Fresh(j)
          /\ Goto(t, IF InFlight = {} THEN "check" ELSE "claim")
          /\ Remember(t, NewDoc(h))
          /\ expired' = [expired EXCEPT ![t] = {<<j, jobs[j]>> : j \in InFlight}]
          /\ shown' = [shown EXCEPT ![t] = Nothing]
          /\ UNCHANGED <<job, confirm, held>>
    /\ UNCHANGED <<jobs, ended, nextId, clock, subdomains, faults, worldVars>>

AbandonExpired(t) ==
    /\ pc[t] = "claim"
    /\ \E row \in expired[t] :
          /\ \A other \in expired[t] : other[1] <= row[1]
          /\ jobs' = [jobs EXCEPT ![row[1]] = Abandoned(row[2], "expired")]
          /\ ended' = EndedWith(row[1], Abandoned(row[2], "expired"))
          /\ expired' = [expired EXCEPT ![t] = @ \ {row}]
          /\ Goto(t, IF expired[t] = {row} THEN "check" ELSE "claim")
    /\ UNCHANGED <<nextId, clock, subdomains, job, mem, confirm, held, shown,
                   faults, worldVars>>

\* listZones and tokenScope, then the query for the host: an unreachable
\* provider, a zone the token cannot see, a refused scope and a taken host all
\* end the request with no job.
StartCheck(t) ==
    /\ pc[t] = "check"
    /\ \/ Fault /\ Respond(t, Nothing)
       \/ /\ mem[t].host \in subdomains
          /\ Respond(t, Nothing)
          /\ UNCHANGED faults
       \/ /\ mem[t].host \notin subdomains
          /\ Goto(t, "insert")
          /\ UNCHANGED <<job, mem, expired, confirm, held, shown, faults>>
    /\ UNCHANGED <<jobs, ended, nextId, clock, subdomains, worldVars>>

\* The INSERT takes its id and its timestamp when it begins ...
StartInsert(t) ==
    /\ pc[t] = "insert"
    /\ nextId \in JobIds
    /\ job' = [job EXCEPT ![t] = nextId]
    /\ nextId' = nextId + 1
    /\ Remember(t, [mem[t] EXCEPT !.started = clock])
    /\ Goto(t, "commit")
    /\ UNCHANGED <<jobs, ended, clock, subdomains, expired, confirm, held, shown,
                   faults, worldVars>>

\* ... and is seen by others when it commits.
StartCommit(t) ==
    /\ pc[t] = "commit"
    /\ jobs' = [jobs EXCEPT ![job[t]] = mem[t]]
    /\ Goto(t, "contend")
    /\ UNCHANGED <<ended, nextId, clock, subdomains, job, mem, expired, confirm,
                   held, shown, faults, worldVars>>

\* The tie-break: the oldest job within the TTL wins, the others stand down.
Contenders == {j \in InFlight : Fresh(j)}
\* (the mutant stands down before any other contender)
StandsDownAlways(j) == \E w \in Contenders : w # j
StandsDown(j) == \E w \in Contenders : w # j /\ \A k \in Contenders \ {w} : Older(w, k)

StartContend(t) ==
    /\ pc[t] = "contend"
    /\ \/ /\ StandsDown(job[t])
          /\ ThenSave(t, Abandoned(mem[t], "held"))
       \/ /\ ~StandsDown(job[t])
          /\ Respond(t, Nothing)
    /\ UNCHANGED <<jobs, ended, nextId, clock, subdomains, faults, worldVars>>

-----------------------------------------------------------------------------
(* save and discardProvision.                                              *)

\* The whole document is written from the request's copy; nothing is asked
\* about what the row holds by now.
Save(t) ==
    /\ pc[t] = "save"
    /\ jobs' = [jobs EXCEPT ![job[t]] = mem[t]]
    /\ ended' = EndedWith(job[t], mem[t])
    /\ Respond(t, Nothing)
    /\ UNCHANGED <<nextId, clock, subdomains, faults, worldVars>>

Discard(t, j) ==
    /\ pc[t] = "idle"
    /\ j \in InProgress
    /\ Goto(t, "save")
    /\ job' = [job EXCEPT ![t] = j]
    /\ Remember(t, Abandoned(jobs[j], "discarded"))
    /\ shown' = [shown EXCEPT ![t] = Nothing]
    /\ UNCHANGED <<jobs, ended, nextId, clock, subdomains, expired, confirm, held,
                   faults, worldVars>>

-----------------------------------------------------------------------------
(* advanceProvision.                                                       *)

\* The route advances the newest job in flight, whichever job the form was
\* rendered for; overwrite=1 is posted from the screen of a replaceable record.
Advance(t, overwrite) ==
    /\ pc[t] = "idle"
    /\ overwrite => shown[t] # Nothing
    /\ \E j \in InFlight :
          /\ \A k \in InFlight \ {j} : Older(k, j)
          /\ job' = [job EXCEPT ![t] = j]
    /\ confirm' = [confirm EXCEPT ![t] = overwrite]
    /\ shown' = [shown EXCEPT ![t] = IF overwrite THEN @ ELSE Nothing]
    /\ Goto(t, "load")
    /\ UNCHANGED <<jobs, ended, nextId, clock, subdomains, mem, expired, held,
                   faults, worldVars>>

\* The first step that is not 'ok'.
NextStep(d) == IF "infra" \notin d.steps THEN "infra"
               ELSE IF "dns" \notin d.steps THEN "dns"
               ELSE IF "certificate" \notin d.steps THEN "certificate"
               ELSE "record"

Load(t) ==
    /\ pc[t] = "load"
    /\ \/ /\ job[t] \notin InProgress
          /\ Respond(t, Nothing)
       \/ /\ job[t] \in InProgress
          /\ Remember(t, jobs[job[t]])
          /\ Goto(t, NextStep(jobs[job[t]]))
          /\ UNCHANGED <<job, expired, confirm, held, shown>>
    /\ UNCHANGED <<jobs, ended, nextId, clock, subdomains, faults, worldVars>>

\* ensureHost: a host already registered is adopted, and an adopted host may
\* come back without the ownership token.
EnsureHost(h, token) == token \/ h \in registered

\* A call can fail after it took effect.
StepInfra(t) ==
    /\ pc[t] = "infra"
    /\ LET h == mem[t].host IN
       \/ \E token \in BOOLEAN :
            /\ EnsureHost(h, token)
            /\ registered' = registered \cup {h}
            /\ ThenSave(t, [StepOk(mem[t], "infra") EXCEPT !.verification = token])
            /\ UNCHANGED faults
       \/ /\ Fault
          /\ registered' \in {registered, registered \cup {h}}
          /\ ThenSave(t, Failed(mem[t]))
    /\ UNCHANGED <<jobs, ended, nextId, clock, subdomains, zone, txt, cert, edits, touched>>

\* stepDns up to its first write: the scope is asked again, then the records.
StepDns(t) ==
    /\ pc[t] = "dns"
    /\ LET h == mem[t].host  r == zone[h] IN
       \/ Fault /\ ThenSave(t, Failed(mem[t]))
       \/ Fault /\ Respond(t, Nothing)                  \* the token no longer fits: blocked
       \/ /\ r # "none" /\ ~Replaceable(r)
          /\ ThenSave(t, Failed(mem[t]))
          /\ UNCHANGED faults
       \/ /\ Replaceable(r) /\ ~Ours(r) /\ ~confirm[t]
          /\ Respond(t, <<h, r>>)
          /\ UNCHANGED faults
       \/ /\ Replaceable(r) /\ ~Right(r) /\ (Ours(r) \/ confirm[t])
          /\ Goto(t, "delete")
          /\ held' = [held EXCEPT ![t] = r]
          /\ UNCHANGED <<job, mem, expired, confirm, shown, faults>>
       \/ /\ r = "none" \/ Right(r)
          /\ Goto(t, IF r = "none" THEN "create" ELSE "txt")
          /\ UNCHANGED <<job, mem, expired, confirm, held, shown, faults>>
    /\ UNCHANGED <<jobs, ended, nextId, clock, subdomains, worldVars>>

\* Delete, then create: the id may name nothing by now, and either call can
\* fail before or after it took effect.
DnsDelete(t) ==
    /\ pc[t] = "delete"
    /\ LET h == mem[t].host IN
       \/ /\ held[t] # "none"
          /\ zone' = [zone EXCEPT ![h] = "none"]
          /\ held' = Forget(h)
          /\ \/ /\ Goto(t, "create")
                /\ UNCHANGED <<mem, faults>>
             \/ /\ Fault
                /\ Goto(t, "save")
                /\ Remember(t, Failed(mem[t]))
          /\ UNCHANGED <<job, expired, confirm, shown>>
       \/ /\ \/ held[t] = "none" /\ UNCHANGED faults
             \/ Fault
          /\ ThenSave(t, Failed(mem[t]))
          /\ UNCHANGED zone
    /\ UNCHANGED <<jobs, ended, nextId, clock, subdomains, txt, registered, cert,
                   edits, touched>>

DnsCreate(t) ==
    /\ pc[t] = "create"
    /\ LET h == mem[t].host IN
       \/ /\ zone[h] = "none"
          /\ zone' = [zone EXCEPT ![h] = Written]
          /\ \/ /\ Goto(t, "txt")
                /\ UNCHANGED <<job, mem, expired, confirm, held, shown, faults>>
             \/ /\ Fault
                /\ ThenSave(t, Failed(mem[t]))
       \/ /\ \/ zone[h] # "none" /\ UNCHANGED faults
             \/ Fault
          /\ ThenSave(t, Failed(mem[t]))
          /\ UNCHANGED zone
    /\ UNCHANGED <<jobs, ended, nextId, clock, subdomains, txt, registered, cert,
                   edits, touched>>

DnsTxt(t) ==
    /\ pc[t] = "txt"
    /\ LET h == mem[t].host IN
       \/ /\ txt' = IF mem[t].verification THEN txt \cup {h} ELSE txt
          /\ ThenSave(t, StepOk(mem[t], "dns"))
          /\ UNCHANGED faults
       \/ /\ mem[t].verification
          /\ Fault
          /\ txt' \in {txt, txt \cup {h}}
          /\ ThenSave(t, Failed(mem[t]))
    /\ UNCHANGED <<jobs, ended, nextId, clock, subdomains, zone, registered, cert,
                   edits, touched>>

\* hostStatus, then the probe.  A host that does not answer keeps the job
\* waiting, and waiting saves the document too.
StepCertificate(t) ==
    /\ pc[t] = "certificate"
    /\ LET h == mem[t].host IN
       \/ Fault /\ ThenSave(t, Failed(mem[t]))
       \/ /\ cert[h] = "failed"
          /\ ThenSave(t, Failed(mem[t]))
          /\ UNCHANGED faults
       \/ /\ cert[h] = "pending" \/ zone[h] # "own"
          /\ cert[h] # "failed"
          /\ ThenSave(t, mem[t])
          /\ UNCHANGED faults
       \/ /\ cert[h] = "valid" /\ zone[h] = "own"
          /\ ThenSave(t, StepOk(mem[t], "certificate"))
          /\ UNCHANGED faults
    /\ UNCHANGED <<jobs, ended, nextId, clock, subdomains, worldVars>>

\* stepRecord's transaction: select, then update the row or insert it.  Two
\* inserts of one host meet the unique index, and the loser throws.
StepRecord(t) ==
    /\ pc[t] = "record"
    /\ Goto(t, IF mem[t].host \in subdomains THEN "recordUpdate" ELSE "recordInsert")
    /\ UNCHANGED <<jobs, ended, nextId, clock, subdomains, job, mem, expired, confirm,
                   held, shown, faults, worldVars>>

\* (the mutant calls the job done before the rows are there)
RecordSaveOnly(t) ==
    /\ pc[t] \in {"recordUpdate", "recordInsert"}
    /\ ThenSave(t, [StepOk(mem[t], "record") EXCEPT !.state = "done"])
    /\ UNCHANGED <<jobs, ended, nextId, clock, subdomains, faults, worldVars>>

RecordCommit(t) ==
    /\ \/ pc[t] = "recordUpdate"
       \/ pc[t] = "recordInsert" /\ mem[t].host \notin subdomains
    /\ subdomains' = subdomains \cup {mem[t].host}
    /\ ThenSave(t, [StepOk(mem[t], "record") EXCEPT !.state = "done"])
    /\ UNCHANGED <<jobs, ended, nextId, clock, faults, worldVars>>

RecordConflict(t) ==
    /\ pc[t] = "recordInsert" /\ mem[t].host \in subdomains
    /\ Respond(t, Nothing)
    /\ UNCHANGED <<jobs, ended, nextId, clock, subdomains, faults, worldVars>>

-----------------------------------------------------------------------------
(* The rest of the world.                                                  *)

\* The panel process dies, or a query throws, at any await.
Crash(t) ==
    /\ pc[t] # "idle"
    /\ Fault
    /\ Respond(t, Nothing)
    /\ UNCHANGED <<jobs, ended, nextId, clock, subdomains, worldVars>>

\* Somebody else changes the records at the host.
Outsider(h) ==
    /\ MoreMayHappen
    /\ edits' = edits + 1
    /\ touched' = touched \cup {h}
    /\ \E r \in Records : zone' = [zone EXCEPT ![h] = r]
    /\ txt' \in {txt, txt \ {h}}
    /\ held' = Forget(h)
    /\ UNCHANGED <<jobs, ended, nextId, clock, registered, cert, subdomains, pc, job,
                   mem, expired, confirm, shown, faults>>

\* The certificate is issued once the host points here and its owner is proven.
Issue(h) ==
    /\ h \in registered /\ cert[h] = "pending"
    /\ \/ /\ zone[h] = "own" /\ h \in txt
          /\ cert' = [cert EXCEPT ![h] = "valid"]
          /\ UNCHANGED faults
       \/ /\ Fault
          /\ cert' = [cert EXCEPT ![h] = "failed"]
    /\ UNCHANGED <<jobs, ended, nextId, clock, zone, txt, registered, subdomains,
                   edits, touched, reqVars>>

\* t is about to write that its job stood down.
StandingDown(t) == pc[t] = "save" /\ mem[t].error = "held"

\* A tick is minutes, and the statements a start ends with, from its INSERT to
\* its tie-break and the save with which it stands down, do not last one.
Tick ==
    /\ MoreMayHappen
    /\ \A t \in Tabs : pc[t] \notin {"commit", "contend"} /\ ~StandingDown(t)
    /\ clock' = clock + 1
    /\ UNCHANGED <<jobs, ended, nextId, zone, txt, registered, cert, subdomains,
                   edits, touched, faults, reqVars>>

-----------------------------------------------------------------------------

Init ==
    /\ jobs = [j \in JobIds |-> NoDoc]
    /\ ended = {}
    /\ nextId = 1
    /\ clock = 0
    /\ zone \in [Hosts -> Found]
    /\ txt = {}
    /\ registered = {}
    /\ cert = [h \in Hosts |-> "pending"]
    /\ subdomains = {}
    /\ pc = [t \in Tabs |-> "idle"]
    /\ job = [t \in Tabs |-> 0]
    /\ mem = [t \in Tabs |-> NoDoc]
    /\ expired = [t \in Tabs |-> {}]
    /\ confirm = [t \in Tabs |-> FALSE]
    /\ held = [t \in Tabs |-> "none"]
    /\ shown = [t \in Tabs |-> Nothing]
    /\ edits = 0
    /\ touched = {}
    /\ faults = 0

\* What the panel does for a request it has already accepted.
Continue(t) ==
    \/ AbandonExpired(t) \/ StartCheck(t) \/ StartInsert(t) \/ StartCommit(t)
    \/ StartContend(t) \/ Save(t) \/ Load(t) \/ StepInfra(t) \/ StepDns(t)
    \/ DnsDelete(t) \/ DnsCreate(t) \/ DnsTxt(t) \/ StepCertificate(t)
    \/ StepRecord(t) \/ RecordCommit(t) \/ RecordConflict(t)

Next ==
    \/ \E t \in Tabs :
          \/ \E h \in Hosts : StartClaim(t, h)
          \/ \E j \in JobIds : Discard(t, j)
          \/ \E overwrite \in BOOLEAN : Advance(t, overwrite)
          \/ Continue(t)
          \/ Crash(t)
    \/ \E h \in Hosts : Outsider(h) \/ Issue(h)
    \/ Tick

Spec == Init /\ [][Next]_vars

\* A request once accepted is carried on by the server unless it crashes, and
\* an operator with a job on screen keeps pressing continue.  What the zone's
\* owner, the clock and a discard do is not owed to anybody.
FairSpec ==
    /\ Spec
    /\ \A t \in Tabs : WF_vars(Continue(t)) /\ SF_vars(Advance(t, FALSE))
    /\ \A h \in Hosts : WF_vars(Issue(h))

-----------------------------------------------------------------------------
(* Properties.                                                             *)

RowsTypeOK ==
    /\ jobs \in [JobIds -> Doc \cup {NoDoc}]
    /\ ended \subseteq JobIds
    /\ nextId \in Nat \ {0}
    /\ clock \in Nat
    /\ subdomains \subseteq Hosts

WorldTypeOK ==
    /\ zone \in [Hosts -> Records]
    /\ txt \subseteq Hosts
    /\ registered \subseteq Hosts
    /\ cert \in [Hosts -> {"pending", "valid", "failed"}]
    /\ edits \in Nat
    /\ touched \subseteq Hosts
    /\ faults \in Nat

RequestsTypeOK ==
    /\ pc \in [Tabs -> PCs]
    /\ job \in [Tabs -> JobIds \cup {0}]
    /\ mem \in [Tabs -> Doc \cup {NoDoc}]
    /\ expired \in [Tabs -> SUBSET (JobIds \X Doc)]
    /\ confirm \in [Tabs -> BOOLEAN]
    /\ held \in [Tabs -> Records]
    /\ shown \in [Tabs -> {Nothing} \cup (Hosts \X Siblings)]

\* A request that is past its first query works on a document, and one that
\* will write a row works on a row.
RequestsHaveWork ==
    \A t \in Tabs :
        /\ pc[t] \notin {"idle", "load"} => mem[t] \in Doc
        /\ pc[t] \notin {"idle", "claim", "check", "insert"} => job[t] \in JobIds

\* Every variable has its type, and no request works on a row or a document it
\* never got hold of.
TypeOK == RowsTypeOK /\ WorldTypeOK /\ RequestsTypeOK /\ RequestsHaveWork

\* A document never claims a step whose predecessors it does not claim, claims
\* the last one exactly when the job is done, and is right about the rows and
\* the host its steps left behind.
Sound(d) ==
    /\ "dns" \in d.steps => "infra" \in d.steps
    /\ "certificate" \in d.steps => "dns" \in d.steps
    /\ "record" \in d.steps => "certificate" \in d.steps
    /\ d.state = "done" <=> "record" \in d.steps
    /\ d.state = "done" => d.host \in subdomains
    /\ "infra" \in d.steps => d.host \in registered

\* However many tabs write whole stale documents over one another, a row that
\* says done belongs to a host that every step was carried out for and that the
\* panel's own table holds (stepRecord commits before it saves).
DoneIsRecorded == \A j \in Visible : Sound(jobs[j])

Pointed(d) ==
    "dns" \in d.steps /\ d.host \notin touched =>
        /\ zone[d.host] = "own"
        /\ d.verification => d.host \in txt

\* Once a row says the DNS step is ok, and as long as nobody else has changed
\* the records at that host, the host points here DNS-only and the ownership
\* TXT stands: no other tab's delete-then-create takes it away again.
DnsOkMeansPointed == \A j \in Visible : Pointed(jobs[j])

\* j stood down at the tie-break, or is about to say so.
StoodDown(j) ==
    \/ jobs[j].error = "held"
    \/ \E t \in Tabs : StandingDown(t) /\ job[t] = j

\* The tie-break never makes every contender stand down, whatever instants the
\* rows became visible at and whatever others did to them: for a job that stood
\* down there is one, less than the TTL older, that did not, or that somebody
\* ended before its own start came to the tie-break.
TieBreakLeavesOne ==
    \A j \in Visible : StoodDown(j) =>
        \E k \in Visible : /\ ~StoodDown(k) \/ k \in ended
                          /\ jobs[j].started < jobs[k].started + TTL

\* What the zone's owner was promised, as an abstract specification.
Guard == INSTANCE ZoneGuard
ZonePromise == Guard!Spec

\* A job somebody keeps coming back to is over in the end, whatever request was
\* dropped half way: the steps pick up from what is stored.  The exceptions wait
\* for somebody else: a replaceable record nobody has confirmed, a host whose
\* records others changed, and an adopted host that came back with no token.
WaitsForOthers(j) ==
    \/ zone[jobs[j].host] \in Siblings
    \/ jobs[j].host \in touched
    \/ "infra" \in jobs[j].steps /\ ~jobs[j].verification

JobEnds ==
    \A j \in JobIds : (j \in InProgress) ~> (j \notin InProgress \/ WaitsForOthers(j))

\* "One provision at a time": leaving aside jobs whose start has not answered
\* yet, at most one job within the TTL is in progress.
Started == {j \in InProgress : Fresh(j) /\ \A t \in Tabs : job[t] = j => pc[t] \notin {"contend", "save"}}
OneProvisionAtATime == Cardinality(Started) <= 1

\* A discarded job stays discarded: the lock it held is released for good.
DiscardReleases ==
    [][\A j \in JobIds :
         (jobs[j] # NoDoc /\ jobs[j].error = "discarded") => jobs'[j].error = "discarded"]_vars

\* The overwrite is only asked for by an operator who has been shown the record
\* that is replaced.
OverwriteIsInformed ==
    \A t \in Tabs :
        pc[t] = "delete" /\ held[t] \in Siblings => shown[t] = <<mem[t].host, held[t]>>

-----------------------------------------------------------------------------
(* Why the first two hold: an inductive invariant.                         *)

Honest(d) == Sound(d) /\ Pointed(d)

RowsHonest    == \A j \in Visible : Honest(jobs[j])
CopiesHonest  == \A t \in Tabs : mem[t] # NoDoc => Honest(mem[t])
ExpiredHonest == \A t \in Tabs : \A row \in expired[t] :
                     row[2].state = "in_progress" /\ Honest(row[2])

\* What a request has seen of its document by the time it gets to where it is.
ReadyAt(t) ==
    /\ pc[t] \notin {"idle", "load", "save"} => mem[t].state = "in_progress"
    /\ pc[t] \in {"claim", "check", "insert", "commit", "contend"} => mem[t].steps = {}
    /\ pc[t] = "infra" => "infra" \notin mem[t].steps
    /\ pc[t] \in {"dns", "delete", "create", "txt"} => "infra" \in mem[t].steps
    /\ pc[t] = "txt" /\ mem[t].host \notin touched => zone[mem[t].host] = "own"
    /\ pc[t] = "certificate" => "dns" \in mem[t].steps
    /\ pc[t] \in {"record", "recordUpdate", "recordInsert"} => "certificate" \in mem[t].steps

Ready == \A t \in Tabs : ReadyAt(t)

\* A record id in a request's hands still names the record it was read from,
\* and that record is one the panel may replace and does not want as it is.
HeldAt(t) ==
    held[t] # "none" =>
        /\ pc[t] \in {"delete", "save"}
        /\ held[t] = zone[mem[t].host]
        /\ held[t] \in Siblings \cup {"proxied"}

HeldIsThere == \A t \in Tabs : HeldAt(t)

IInv ==
    TypeOK /\ RowsHonest /\ CopiesHonest /\ ExpiredHonest /\ Ready /\ HeldIsThere

-----------------------------------------------------------------------------
(* Why the tie-break leaves one: an inductive invariant.                   *)

\* A job that stood down is given up, wherever its document is.
Plain(d) == d.error = "held" => d.state = "abandoned"

DocsPlain ==
    /\ \A j \in Visible : Plain(jobs[j])
    /\ \A t \in Tabs : /\ mem[t] # NoDoc => Plain(mem[t])
                       /\ \A row \in expired[t] : Plain(row[2])

\* t's start has its id and has not yet said how it ended.
Starting(t) == pc[t] \in {"commit", "contend"} \/ StandingDown(t)

\* A row is there from its commit on, nobody works on a row before that, and no
\* two starts work on one row.
RowsAppear ==
    /\ \A j \in Visible : j < nextId
    /\ \A t \in Tabs :
          /\ job[t] < nextId
          /\ pc[t] = "commit" => job[t] \notin Visible
          /\ pc[t] \notin {"idle", "claim", "check", "insert", "commit"} => job[t] \in Visible
          /\ \A u \in Tabs \ {t} : Starting(t) /\ Starting(u) => job[t] # job[u]
          /\ \A row \in expired[t] : row[1] \in Visible

\* No copy of a document says another instant than its row does, and a start is
\* over within the instant of its row.
InstantsAgree ==
    /\ \A j \in Visible : jobs[j].started <= clock
    /\ \A t \in Tabs :
          /\ pc[t] \notin {"idle", "claim", "check", "insert", "commit", "load"} =>
                mem[t].started = jobs[job[t]].started
          /\ Starting(t) => mem[t].started = clock
          /\ \A row \in expired[t] : row[2].started = jobs[row[1]].started

\* A job that is not in progress although its start has yet to look at the
\* others came to an end.
EndsAreKnown ==
    \A t \in Tabs : pc[t] = "contend" =>
        jobs[job[t]].state = "in_progress" \/ job[t] \in ended

\* The list is long enough for every job in progress.
FitsTheList == IsFiniteSet(InProgress) /\ Cardinality(InProgress) <= Listed

\* k was there for j to stand down for.
StandsFor(k, j) ==
    /\ k \in ended \/ (~StoodDown(k) /\ Older(k, j))
    /\ jobs[j].started < jobs[k].started + TTL

SomeoneStands == \A j \in Visible : StoodDown(j) => \E k \in Visible : StandsFor(k, j)

TInv ==
    DocsPlain /\ RowsAppear /\ InstantsAgree /\ EndsAreKnown /\ SomeoneStands
=============================================================================
