------------------------------ MODULE Installer ------------------------------
(***************************************************************************)
(* The hosted installer (setup/src/provision.mjs, setup/src/server.mjs):   *)
(* the store of jobs with its ceiling and its sweep, the calls a job makes *)
(* to two providers and the inventory it keeps of what they made, the      *)
(* rollback, the destruction of the visitor's token, and the drain at      *)
(* shutdown.                                                               *)
(*                                                                         *)
(* A job is a visitor's attempt, numbered as it begins, and its number is  *)
(* never given again.  A plan is a sequence of calls; what a call makes is *)
(* named by its place in it.                                               *)
(***************************************************************************)
EXTENDS Providers

CONSTANTS
    Jobs, Visitors,
    Plan,           \* the calls of a plan, by what each makes, "nothing" for the rest
    MaxConcurrent,  \* createJobStore's ceiling
    PendingTtl, Ttl,
    MaxAge          \* bound on the clock

ASSUME InstallerConstants ==
    /\ Jobs \subseteq Nat \ {0}
    /\ Plan \in Seq({"project", "railway", "dns-record", "nothing"})
    /\ Plan # <<>> /\ Plan[1] = "project"
    /\ \A i \in DOMAIN Plan : Plan[i] = "project" => i = 1
    /\ {MaxConcurrent, PendingTtl, Ttl, MaxAge} \subseteq Nat

VARIABLES
    age,      \* the clock
    job,      \* [Jobs -> the job object of each, or NoJob]
    store,    \* jobs the map has
    jar,      \* [Visitors -> the job its cookie opens, or 0]
    made,     \* [Jobs -> what exists at the providers because of each]
    unheard,  \* [Jobs -> of that, what was made by a call that failed all the same]
    token,    \* [Jobs -> is the visitor's token "alive" or "dead"]
    service,  \* "serving", "closing", "draining" or "ended"
    awaited,  \* jobs whose end the drain waits for
    timedOut

installer == <<age, job, store, jar, made, unheard, token, service, awaited, timedOut>>

\* pc is where the request, or then the run, of the job is; `at` the call of the
\* plan, or the entry of the inventory being rolled back.
NoJob == [pc |-> "none", state |-> "none", born |-> 0, at |-> 0, inventory |-> <<>>,
          stranded |-> {}, deleted |-> FALSE, confirmed |-> FALSE]

\* A run that is over and out of the map: nothing refers to its object.
Gone == [NoJob EXCEPT !.pc = "over"]

Up == service # "ended"
Occupied == {j \in store : job[j].state \in {"running", "awaiting_confirmation"}}
Started(j) == job[j].pc \in {"plan", "rollback", "cleanup", "over"}
Becomes(j, r) == job' = [job EXCEPT ![j] = r]

-----------------------------------------------------------------------------
(* The store and the requests.                                             *)

\* sweep: what waited too long, and what ended too long ago.
Swept ==
    {j \in store :
        \/ job[j].state = "awaiting_confirmation" /\ age > job[j].born + PendingTtl
        \/ job[j].state \notin {"awaiting_confirmation", "running"} /\ age > job[j].born + Ttl}

\* The visitor's earlier job, unless it runs.
Previous(v) == {j \in {jar[v]} \cap store : job[j].state # "running"}

\* POST /api/verify, as far as the credentials' check: the caller's earlier job
\* goes, then the sweep, and then the ceiling is looked at.
Verify(v, j) ==
    /\ service \in {"serving", "closing"}
    /\ job[j] = NoJob /\ \A k \in Jobs : k < j => job[k] # NoJob
    /\ LET left == store \ (Previous(v) \cup Swept)
           full == Cardinality(left \cap Occupied) >= MaxConcurrent
           new  == [NoJob EXCEPT !.pc = "verifying", !.born = age, !.state = "awaiting_confirmation"]
       IN  /\ store' = IF full THEN left ELSE left \cup {j}
           /\ job' = [k \in Jobs |-> IF k = j /\ ~full THEN new
                                     ELSE IF k \in store \ left /\ job[k].pc = "over" THEN Gone
                                     ELSE job[k]]
    /\ UNCHANGED <<age, jar, made, unheard, token, service, awaited, timedOut>>

\* The credentials answer: the cookie goes out, or the slot is freed.
Verified(v, j) ==
    /\ Up /\ job[j].pc = "verifying"
    /\ Becomes(j, [job[j] EXCEPT !.pc = "waiting"])
    /\ jar' = [jar EXCEPT ![v] = j]
    /\ UNCHANGED <<age, store, made, unheard, token, service, awaited, timedOut>>

Rejected(j) ==
    /\ Up /\ job[j].pc = "verifying"
    /\ Becomes(j, [job[j] EXCEPT !.pc = "rejected"])
    /\ store' = store \ {j}
    /\ UNCHANGED <<age, jar, made, unheard, token, service, awaited, timedOut>>

\* POST /api/confirm
Confirm(v) ==
    LET j == jar[v] IN
    /\ service \in {"serving", "closing"}
    /\ j \in store /\ job[j].state = "awaiting_confirmation"
    /\ Becomes(j, [job[j] EXCEPT !.pc = "plan", !.state = "running", !.at = 1])
    /\ UNCHANGED <<age, store, jar, made, unheard, token, service, awaited, timedOut>>

-----------------------------------------------------------------------------
(* The run.                                                                *)

\* A failure of any call starts the rollback, from the newest entry.
Failing(r) == [r EXCEPT !.pc = "rollback", !.at = Len(r.inventory)]

\* (mutant: an entry is written down once the next call is made)
CallRecordingLate(j, outcome) ==
    LET r == job[j]
        makes == Plan[r.at] # "nothing" /\ outcome # "refused"
        noted == IF r.at > 1 /\ Plan[r.at - 1] # "nothing"
                   THEN [r EXCEPT !.inventory = Append(@, r.at - 1)] ELSE r
    IN
    /\ Up /\ r.pc = "plan" /\ r.at <= Len(Plan)
    /\ made' = [made EXCEPT ![j] = IF makes THEN @ \cup {r.at} ELSE @]
    /\ unheard' = [unheard EXCEPT ![j] = IF makes /\ outcome = "lost" THEN @ \cup {r.at} ELSE @]
    /\ Becomes(j, IF outcome = "ok" THEN [noted EXCEPT !.at = r.at + 1] ELSE Failing(r))
    /\ UNCHANGED <<age, store, jar, token, service, awaited, timedOut>>

\* The call the plan is at: made and recorded before the next, refused, or made
\* by a call whose answer is an error (lost, or without the records it should
\* carry).
Call(j, outcome) ==
    LET r == job[j]
        makes == Plan[r.at] # "nothing" /\ outcome # "refused"
        noted == IF makes THEN [r EXCEPT !.inventory = Append(@, r.at)] ELSE r
    IN
    /\ Up /\ r.pc = "plan" /\ r.at <= Len(Plan)
    /\ made' = [made EXCEPT ![j] = IF makes THEN @ \cup {r.at} ELSE @]
    /\ unheard' = [unheard EXCEPT ![j] = IF makes /\ outcome = "lost" THEN @ \cup {r.at} ELSE @]
    /\ Becomes(j, IF outcome = "ok" THEN [noted EXCEPT !.at = r.at + 1] ELSE Failing(r))
    /\ UNCHANGED <<age, store, jar, token, service, awaited, timedOut>>

Finish(j) ==
    /\ Up /\ job[j].pc = "plan" /\ job[j].at > Len(Plan)
    /\ Becomes(j, [job[j] EXCEPT !.pc = "cleanup", !.state = "done"])
    /\ UNCHANGED <<age, store, jar, made, unheard, token, service, awaited, timedOut>>

Railway == {i \in DOMAIN Plan : Plan[i] \in {"project", "railway"}}

\* One entry of the rollback: a record or the project is deleted, the rest goes
\* with the project; a deletion that fails may have happened.
Undo(j, deletion) ==
    LET r == job[j]
        entry == r.inventory[r.at]
        gone == CASE Plan[entry] = "project"    -> Railway
                  [] Plan[entry] = "dns-record" -> {entry}
                  [] Plan[entry] = "railway"    -> {}
    IN
    /\ Up /\ r.pc = "rollback" /\ r.at > 0
    /\ deletion \in Deletions[Plan[entry]]
    /\ made' = [made EXCEPT ![j] = IF deletion.happens THEN @ \ gone ELSE @]
    /\ Becomes(j, [r EXCEPT !.at = @ - 1,
                            !.stranded = IF deletion.succeeds \/ Plan[entry] = "railway" THEN @ ELSE @ \cup {entry}])
    /\ UNCHANGED <<age, store, jar, unheard, token, service, awaited, timedOut>>

\* (mutant: a rollback that left something behind waits for somebody)
RolledBackClean(j) ==
    LET r == job[j] IN
    /\ Up /\ r.pc = "rollback" /\ r.at = 0 /\ r.stranded = {}
    /\ Becomes(j, [r EXCEPT !.pc = "cleanup", !.state = "failed"])
    /\ UNCHANGED <<age, store, jar, made, unheard, token, service, awaited, timedOut>>

\* A project that stayed strands what was made in it.
RolledBack(j) ==
    LET r == job[j]
        recorded == {r.inventory[i] : i \in DOMAIN r.inventory}
        named == IF 1 \in r.stranded THEN r.stranded \cup (recorded \cap Railway) ELSE r.stranded
    IN
    /\ Up /\ r.pc = "rollback" /\ r.at = 0
    /\ Becomes(j, [r EXCEPT !.pc = "cleanup", !.stranded = named,
                            !.state = IF named = {} THEN "failed" ELSE "manual_cleanup_required"])
    /\ UNCHANGED <<age, store, jar, made, unheard, token, service, awaited, timedOut>>

\* cleanup: whatever destroyToken says is kept, and the credentials are let go.
Cleanup(j, end) ==
    /\ Up /\ job[j].pc = "cleanup"
    /\ end \in Destructions
    /\ token' = [token EXCEPT ![j] = IF end.dies THEN "dead" ELSE @]
    /\ Becomes(j, IF j \in store
                    THEN [job[j] EXCEPT !.pc = "over", !.deleted = end.said.deleted, !.confirmed = end.said.confirmed]
                    ELSE Gone)
    /\ UNCHANGED <<age, store, jar, made, unheard, service, awaited, timedOut>>

-----------------------------------------------------------------------------
(* The process.                                                            *)

Signal ==
    /\ service = "serving" /\ service' = "closing"
    /\ UNCHANGED <<age, job, store, jar, made, unheard, token, awaited, timedOut>>

\* (mutant: what has its result is not waited for)
DrainRunning ==
    /\ service = "closing" /\ service' = "draining"
    /\ awaited' = {j \in store : job[j].pc # "over" /\ job[j].state = "running"}
    /\ UNCHANGED <<age, job, store, jar, made, unheard, token, timedOut>>

\* No connection is left: drain() takes every promise of the map.
Drain ==
    /\ service = "closing" /\ service' = "draining"
    /\ awaited' = {j \in store : Started(j) /\ job[j].pc # "over"}
    /\ UNCHANGED <<age, job, store, jar, made, unheard, token, timedOut>>

Leave(late) ==
    /\ service = "draining" /\ service' = "ended"
    /\ late \/ \A j \in awaited : job[j].pc = "over"
    /\ timedOut' = late
    /\ UNCHANGED <<age, job, store, jar, made, unheard, token, awaited>>

Ages ==
    /\ Up /\ age < MaxAge /\ age' = age + 1
    /\ UNCHANGED <<job, store, jar, made, unheard, token, service, awaited, timedOut>>

InstallerInit ==
    /\ age = 0
    /\ job = [j \in Jobs |-> NoJob] /\ store = {}
    /\ jar = [v \in Visitors |-> 0]
    /\ made = [j \in Jobs |-> {}] /\ unheard = [j \in Jobs |-> {}]
    /\ token = [j \in Jobs |-> "alive"]
    /\ service = "serving" /\ awaited = {} /\ timedOut = FALSE

Checks(v, j) == \E verdict \in Verdicts : IF verdict = "ok" THEN Verified(v, j) ELSE Rejected(j)
Calls(j) == job[j].pc = "plan" /\ job[j].at <= Len(Plan) /\ \E outcome \in Outcomes[Plan[job[j].at]] : Call(j, outcome)
Undoes(j) == \E succeeds, happens \in BOOLEAN : Undo(j, Deletion(succeeds, happens))
Cleans(j) == \E end \in Destructions : Cleanup(j, end)
Runs(j) == Calls(j) \/ Finish(j) \/ Undoes(j) \/ RolledBack(j) \/ Cleans(j)

InstallerNext ==
    \/ \E v \in Visitors, j \in Jobs : Verify(v, j) \/ Checks(v, j)
    \/ \E j \in Jobs : Runs(j)
    \/ \E v \in Visitors : Confirm(v)
    \/ Signal \/ Drain \/ Ages
    \/ \E late \in BOOLEAN : Leave(late)

\* Every call of a run ends: fetch gives up on a silent server, and the polls
\* are counted.
InstallerFairness == \A j \in Jobs : WF_installer(Runs(j))
InstallerSpec == InstallerInit /\ [][InstallerNext]_installer /\ InstallerFairness

-----------------------------------------------------------------------------
(* Properties.                                                             *)

JobObjects ==
    [pc: {"none", "verifying", "rejected", "waiting", "plan", "rollback", "cleanup", "over"},
     state: {"none", "awaiting_confirmation", "running", "done", "failed", "manual_cleanup_required"},
     born: Nat, at: Nat, inventory: Seq(DOMAIN Plan), stranded: SUBSET DOMAIN Plan,
     deleted: BOOLEAN, confirmed: BOOLEAN]

InstallerTypeOK ==
    /\ age \in 0..MaxAge
    /\ job \in [Jobs -> JobObjects]
    /\ store \subseteq {j \in Jobs : job[j] # NoJob}
    /\ jar \in [Visitors -> Jobs \cup {0}]
    /\ {made, unheard} \subseteq [Jobs -> SUBSET DOMAIN Plan]
    /\ token \in [Jobs -> {"alive", "dead"}]
    /\ service \in {"serving", "closing", "draining", "ended"}
    /\ awaited \subseteq Jobs /\ timedOut \in BOOLEAN

\* When a run has ended badly, whatever is still at the providers because of it
\* is named to the visitor, unless no answer ever told the installer it was made;
\* a run that ended well left all of its plan.
LeftoversAreNamed ==
    \A j \in Jobs :
        job[j].pc \in {"cleanup", "over"} =>
            /\ job[j].state = "done" => made[j] = {i \in DOMAIN Plan : Plan[i] # "nothing"}
            /\ job[j].state = "manual_cleanup_required" => made[j] \subseteq job[j].stranded \cup unheard[j]
            /\ job[j].state = "failed" => made[j] \subseteq unheard[j]

\* A visitor is told a token is gone only when it is, whatever answers the calls
\* that delete it and try it get.
TokensAreProved == \A j \in Jobs : job[j].confirmed => token[j] = "dead"

\* A running job is always in the map, so the ceiling counts it and the drain
\* waits for it; a process that exits without giving up left no run of the map
\* half done.
RunsAreCounted ==
    /\ \A j \in Jobs : job[j].state = "running" => j \in store
    /\ Cardinality(Occupied) <= MaxConcurrent
    /\ service = "ended" /\ ~timedOut => \A j \in store : Started(j) => job[j].pc = "over"

\* What a run leaves behind, at the providers and in the process, is accounted for.
RunsEndClean == LeftoversAreNamed /\ TokensAreProved /\ RunsAreCounted

\* Whatever fails, a confirmed job ends with its token dealt with, unless the
\* process ends first.
JobsEnd == \A j \in Jobs : (job[j].pc = "plan") ~> (job[j].pc = "over" \/ service = "ended")
=============================================================================
