------------------------- MODULE ProvisioningProofs -------------------------
(***************************************************************************)
(* What holds of Provisioning for any number of tabs, hosts, jobs, ticks,  *)
(* failures and changes by others: types; the inductive invariant IInv, so *)
(* that what rows say is true however stale the document a request writes  *)
(* back; and that every step is one the zone's owner was promised.         *)
(***************************************************************************)
EXTENDS Provisioning, FiniteSetTheorems, TLAPS

-----------------------------------------------------------------------------
(* Documents.                                                              *)

\* The empty slot of an unused id is not a document.
LEMMA NoDocIsNoDoc == NoDoc \notin Doc
BY DEF NoDoc, Doc

\* Every change a request can make to a document keeps it a document.
LEMMA DocsStayDocs ==
    ASSUME NEW d \in Doc, NEW step \in Steps, NEW why \in Errors
    PROVE  /\ Failed(d) \in Doc
           /\ Abandoned(d, why) \in Doc
           /\ StepOk(d, step) \in Doc
           /\ [StepOk(d, step) EXCEPT !.state = "done"] \in Doc
           /\ \A token \in BOOLEAN : [StepOk(d, step) EXCEPT !.verification = token] \in Doc
           /\ \A n \in Nat : [d EXCEPT !.started = n] \in Doc
BY DEF Doc, Failed, Abandoned, StepOk, Steps, Errors, States

\* A new document is one.
LEMMA NewDocIsDoc ==
    ASSUME NEW h \in Hosts, clock \in Nat
    PROVE  NewDoc(h) \in Doc
BY DEF NewDoc, Doc, States, Errors

\* A job that is listed is in progress.
LEMMA ListedAreInProgress == InFlight \subseteq InProgress
BY DEF InFlight

-----------------------------------------------------------------------------
(* Types.                                                                  *)

\* A response leaves the tab idle and well typed.
LEMMA RespondTypes ==
    ASSUME RequestsTypeOK, RequestsHaveWork, NEW t \in Tabs,
           NEW screen \in {Nothing} \cup (Hosts \X Siblings), Respond(t, screen)
    PROVE  RequestsTypeOK' /\ RequestsHaveWork'
BY DEF RequestsTypeOK, RequestsHaveWork, Respond, PCs, Records

\* So does going on to save a document.
LEMMA ThenSaveTypes ==
    ASSUME RequestsTypeOK, RequestsHaveWork, NEW t \in Tabs, NEW d \in Doc,
           job[t] \in JobIds, ThenSave(t, d)
    PROVE  RequestsTypeOK' /\ RequestsHaveWork'
BY DEF RequestsTypeOK, RequestsHaveWork, ThenSave, Goto, Remember, PCs

\* And moving on with nothing else changed.
LEMMA GotoTypes ==
    ASSUME RequestsTypeOK, RequestsHaveWork, NEW t \in Tabs, NEW l \in PCs \ {"idle", "load"},
           Goto(t, l), mem[t] \in Doc, job[t] \in JobIds,
           UNCHANGED <<job, mem, expired, confirm, held, shown>>
    PROVE  RequestsTypeOK' /\ RequestsHaveWork'
BY DEF RequestsTypeOK, RequestsHaveWork, Goto, PCs

\* Forgetting what was held leaves contents in place.
LEMMA ForgetTypes ==
    ASSUME RequestsTypeOK, NEW h \in Hosts
    PROVE  Forget(h) \in [Tabs -> Records]
BY DEF RequestsTypeOK, Forget, Records

\* Every step keeps every type.
LEMMA TypeStep == TypeOK /\ [Next]_vars => TypeOK'
<1> USE ConstantsAssumption
<1> SUFFICES ASSUME RowsTypeOK, WorldTypeOK, RequestsTypeOK, RequestsHaveWork, [Next]_vars
             PROVE  TypeOK'
    BY DEF TypeOK
<1> DEFINE RequestsOK == RequestsTypeOK /\ RequestsHaveWork
<1>1. ASSUME NEW t \in Tabs, NEW h \in Hosts, StartClaim(t, h)
      PROVE  TypeOK'
    <2>1. NewDoc(h) \in Doc
        BY NewDocIsDoc DEF RowsTypeOK
    <2>2. CASE Respond(t, Nothing)
        BY <1>1, <2>2, RespondTypes DEF StartClaim, TypeOK, RowsTypeOK, WorldTypeOK, worldVars
    <2>3. CASE /\ Goto(t, IF InFlight = {} THEN "check" ELSE "claim")
               /\ Remember(t, NewDoc(h))
               /\ expired' = [expired EXCEPT ![t] = {<<j, jobs[j]>> : j \in InFlight}]
               /\ shown' = [shown EXCEPT ![t] = Nothing]
               /\ UNCHANGED <<job, confirm, held>>
        <3>1. \A j \in InFlight : j \in JobIds /\ jobs[j] \in Doc
            BY ListedAreInProgress DEF InProgress, Visible, RowsTypeOK
        <3>2. {<<j, jobs[j]>> : j \in InFlight} \subseteq JobIds \X Doc
            BY <3>1
        <3>3. RequestsTypeOK'
            BY <2>1, <2>3, <3>2 DEF RequestsTypeOK, Goto, Remember, PCs
        <3>4. RequestsHaveWork'
            BY <2>1, <2>3 DEF RequestsHaveWork, RequestsTypeOK, Goto, Remember
        <3>5. RowsTypeOK' /\ WorldTypeOK'
            BY <1>1 DEF StartClaim, RowsTypeOK, WorldTypeOK, worldVars
        <3>6. QED BY <3>3, <3>4, <3>5 DEF TypeOK
    <2>4. QED BY <1>1, <2>2, <2>3 DEF StartClaim
<1>2. ASSUME NEW t \in Tabs, NEW j \in JobIds, Discard(t, j)
      PROVE  TypeOK'
    <2>1. jobs[j] \in Doc
        BY <1>2 DEF Discard, InProgress, Visible, RowsTypeOK
    <2>2. Abandoned(jobs[j], "discarded") \in Doc
        BY <2>1, DocsStayDocs DEF Errors, Steps
    <2>3. RequestsTypeOK' /\ RequestsHaveWork'
        BY <1>2, <2>2 DEF Discard, RequestsTypeOK, RequestsHaveWork, Goto, Remember, PCs
    <2>4. QED BY <1>2, <2>3 DEF Discard, TypeOK, RowsTypeOK, WorldTypeOK, worldVars
<1>3. ASSUME NEW t \in Tabs, NEW overwrite \in BOOLEAN, Advance(t, overwrite)
      PROVE  TypeOK'
    <2>1. RequestsTypeOK' /\ RequestsHaveWork'
        BY <1>3, ListedAreInProgress DEF Advance, RequestsTypeOK, RequestsHaveWork, Goto, PCs, InProgress, Visible
    <2>2. QED BY <1>3, <2>1 DEF Advance, TypeOK, RowsTypeOK, WorldTypeOK, worldVars
<1>4. ASSUME NEW t \in Tabs, AbandonExpired(t)
      PROVE  TypeOK'
    <2>1. PICK row \in expired[t] :
              /\ jobs' = [jobs EXCEPT ![row[1]] = Abandoned(row[2], "expired")]
              /\ ended' = EndedWith(row[1], Abandoned(row[2], "expired"))
              /\ expired' = [expired EXCEPT ![t] = @ \ {row}]
              /\ Goto(t, IF expired[t] = {row} THEN "check" ELSE "claim")
        BY <1>4 DEF AbandonExpired
    <2>2. row[1] \in JobIds /\ row[2] \in Doc
        BY <2>1 DEF RequestsTypeOK
    <2>3. Abandoned(row[2], "expired") \in Doc
        BY <2>2, DocsStayDocs DEF Errors, Steps
    <2>4. RequestsTypeOK' /\ RequestsHaveWork'
        BY <1>4, <2>1 DEF AbandonExpired, RequestsTypeOK, RequestsHaveWork, Goto, PCs
    <2>5. RowsTypeOK' /\ WorldTypeOK'
        BY <1>4, <2>1, <2>2, <2>3 DEF AbandonExpired, RowsTypeOK, WorldTypeOK, worldVars, EndedWith
    <2>6. QED BY <2>4, <2>5 DEF TypeOK
<1>5. ASSUME NEW t \in Tabs, StartCheck(t) \/ Crash(t)
      PROVE  TypeOK'
    <2>1. RequestsTypeOK' /\ RequestsHaveWork'
        <3>1. CASE Respond(t, Nothing)
            BY <3>1, RespondTypes
        <3>2. CASE /\ pc[t] = "check" /\ Goto(t, "insert")
                   /\ UNCHANGED <<job, mem, expired, confirm, held, shown>>
            BY <3>2 DEF RequestsTypeOK, RequestsHaveWork, Goto, PCs
        <3>3. QED BY <1>5, <3>1, <3>2 DEF StartCheck, Crash
    <2>2. RowsTypeOK'
        BY <1>5 DEF StartCheck, Crash, RowsTypeOK
    <2>3. faults' \in Nat
        BY <1>5 DEF StartCheck, Crash, Fault, WorldTypeOK
    <2>4. WorldTypeOK'
        BY <1>5, <2>3 DEF StartCheck, Crash, WorldTypeOK, worldVars
    <2>5. QED BY <2>1, <2>2, <2>4 DEF TypeOK
<1>6. ASSUME NEW t \in Tabs, StartInsert(t)
      PROVE  TypeOK'
    <2>1. mem[t] \in Doc /\ [mem[t] EXCEPT !.started = clock] \in Doc
        BY <1>6, DocsStayDocs DEF StartInsert, RequestsHaveWork, RowsTypeOK, Steps, Errors
    <2>2. RequestsTypeOK' /\ RequestsHaveWork'
        BY <1>6, <2>1 DEF StartInsert, RequestsTypeOK, RequestsHaveWork, Goto, Remember, PCs
    <2>3. QED
        BY <1>6, <2>2 DEF StartInsert, TypeOK, RowsTypeOK, WorldTypeOK, worldVars
<1>7. ASSUME NEW t \in Tabs, StartCommit(t)
      PROVE  TypeOK'
    <2>1. mem[t] \in Doc /\ job[t] \in JobIds
        BY <1>7 DEF StartCommit, RequestsHaveWork
    <2>2. RequestsTypeOK' /\ RequestsHaveWork'
        BY <1>7, <2>1, GotoTypes DEF StartCommit, PCs
    <2>3. QED
        BY <1>7, <2>1, <2>2 DEF StartCommit, TypeOK, RowsTypeOK, WorldTypeOK, worldVars
<1>8. ASSUME NEW t \in Tabs, StartContend(t) \/ Save(t)
      PROVE  TypeOK'
    <2>1. mem[t] \in Doc /\ job[t] \in JobIds /\ Abandoned(mem[t], "held") \in Doc
        BY <1>8, DocsStayDocs DEF StartContend, Save, RequestsHaveWork, Errors, Steps
    <2>2. RequestsTypeOK' /\ RequestsHaveWork'
        BY <1>8, <2>1, ThenSaveTypes, RespondTypes DEF StartContend, Save
    <2>3. QED
        BY <1>8, <2>1, <2>2 DEF StartContend, Save, TypeOK, RowsTypeOK, WorldTypeOK, worldVars, EndedWith
<1>9. ASSUME NEW t \in Tabs, Load(t)
      PROVE  TypeOK'
    <2>1. CASE Respond(t, Nothing)
        BY <1>9, <2>1, RespondTypes DEF Load, TypeOK, RowsTypeOK, WorldTypeOK, worldVars
    <2>2. CASE /\ job[t] \in InProgress
               /\ Remember(t, jobs[job[t]])
               /\ Goto(t, NextStep(jobs[job[t]]))
               /\ UNCHANGED <<job, expired, confirm, held, shown>>
        <3>1. jobs[job[t]] \in Doc /\ job[t] \in JobIds
            BY <2>2 DEF InProgress, Visible, RowsTypeOK
        <3>2. NextStep(jobs[job[t]]) \in {"infra", "dns", "certificate", "record"}
            BY DEF NextStep
        <3>3. RequestsTypeOK' /\ RequestsHaveWork'
            BY <2>2, <3>1, <3>2 DEF RequestsTypeOK, RequestsHaveWork, Goto, Remember, PCs
        <3>4. QED BY <1>9, <3>3 DEF Load, TypeOK, RowsTypeOK, WorldTypeOK, worldVars
    <2>3. QED BY <1>9, <2>1, <2>2 DEF Load
<1>10. ASSUME NEW t \in Tabs, StepInfra(t)
       PROVE  TypeOK'
    <2>1. mem[t] \in Doc /\ job[t] \in JobIds /\ mem[t].host \in Hosts
        BY <1>10 DEF StepInfra, RequestsHaveWork, Doc
    <2>2. /\ Failed(mem[t]) \in Doc
          /\ \A token \in BOOLEAN : [StepOk(mem[t], "infra") EXCEPT !.verification = token] \in Doc
        BY <2>1, DocsStayDocs DEF Steps, Errors
    <2>3. RequestsTypeOK' /\ RequestsHaveWork'
        BY <1>10, <2>1, <2>2, ThenSaveTypes DEF StepInfra
    <2>4. registered' \subseteq Hosts /\ faults' \in Nat
        <3>1. registered' \in {registered, registered \cup {mem[t].host}}
            BY <1>10 DEF StepInfra
        <3>2. faults' \in {faults, faults + 1}
            BY <1>10 DEF StepInfra, Fault
        <3>3. QED BY <3>1, <3>2, <2>1 DEF WorldTypeOK
    <2>5. RowsTypeOK' /\ WorldTypeOK'
        BY <1>10, <2>4 DEF StepInfra, RowsTypeOK, WorldTypeOK
    <2>6. QED BY <2>3, <2>5 DEF TypeOK
<1>11. ASSUME NEW t \in Tabs, StepDns(t)
       PROVE  TypeOK'
    <2>1. mem[t] \in Doc /\ job[t] \in JobIds /\ mem[t].host \in Hosts
        BY <1>11 DEF StepDns, RequestsHaveWork, Doc
    <2>2. Failed(mem[t]) \in Doc
        BY <2>1, DocsStayDocs DEF Steps, Errors
    <2> DEFINE h == mem[t].host
               r == zone[h]
    <2>3. r \in Records
        BY <2>1 DEF WorldTypeOK
    <2>4. RequestsTypeOK' /\ RequestsHaveWork'
        <3>1. CASE ThenSave(t, Failed(mem[t]))
            BY <3>1, <2>1, <2>2, ThenSaveTypes
        <3>2. CASE Respond(t, Nothing)
            BY <3>2, RespondTypes
        <3>3. CASE Replaceable(r) /\ ~Ours(r) /\ Respond(t, <<h, r>>)
            <4>1. <<h, r>> \in Hosts \X Siblings
                BY <3>3, <2>1 DEF Replaceable
            <4>2. QED BY <4>1, <3>3, RespondTypes
        <3>4. CASE /\ Goto(t, "delete")
                   /\ held' = [held EXCEPT ![t] = r]
                   /\ UNCHANGED <<job, mem, expired, confirm, shown>>
            BY <3>4, <2>1, <2>3 DEF RequestsTypeOK, RequestsHaveWork, Goto, PCs
        <3>5. CASE /\ Goto(t, IF r = "none" THEN "create" ELSE "txt")
                   /\ UNCHANGED <<job, mem, expired, confirm, held, shown>>
            BY <3>5, <2>1 DEF RequestsTypeOK, RequestsHaveWork, Goto, PCs
        <3>6. QED BY <1>11, <3>1, <3>2, <3>3, <3>4, <3>5 DEF StepDns
    <2>5. RowsTypeOK' /\ WorldTypeOK'
        BY <1>11 DEF StepDns, Fault, RowsTypeOK, WorldTypeOK, worldVars
    <2>6. QED BY <2>4, <2>5 DEF TypeOK
<1>12. ASSUME NEW t \in Tabs, DnsDelete(t)
       PROVE  TypeOK'
    <2>1. mem[t] \in Doc /\ job[t] \in JobIds /\ mem[t].host \in Hosts
        BY <1>12 DEF DnsDelete, RequestsHaveWork, Doc
    <2>2. Failed(mem[t]) \in Doc
        BY <2>1, DocsStayDocs DEF Steps, Errors
    <2>3. Forget(mem[t].host) \in [Tabs -> Records]
        BY <2>1, ForgetTypes
    <2>4. RequestsTypeOK' /\ RequestsHaveWork'
        <3>1. CASE ThenSave(t, Failed(mem[t]))
            BY <3>1, <2>1, <2>2, ThenSaveTypes
        <3>2. CASE /\ held' = Forget(mem[t].host)
                   /\ Goto(t, "create")
                   /\ UNCHANGED <<mem, job, expired, confirm, shown>>
            BY <3>2, <2>1, <2>3 DEF RequestsTypeOK, RequestsHaveWork, Goto, PCs
        <3>3. CASE /\ held' = Forget(mem[t].host)
                   /\ Goto(t, "save")
                   /\ Remember(t, Failed(mem[t]))
                   /\ UNCHANGED <<job, expired, confirm, shown>>
            BY <3>3, <2>1, <2>2, <2>3 DEF RequestsTypeOK, RequestsHaveWork, Goto, Remember, PCs
        <3>4. QED BY <1>12, <3>1, <3>2, <3>3 DEF DnsDelete
    <2>5. zone' \in [Hosts -> Records] /\ faults' \in Nat
        BY <1>12, <2>1 DEF DnsDelete, Fault, WorldTypeOK, Records
    <2>6. RowsTypeOK' /\ WorldTypeOK'
        BY <1>12, <2>5 DEF DnsDelete, RowsTypeOK, WorldTypeOK
    <2>7. QED BY <2>4, <2>6 DEF TypeOK
<1>13. ASSUME NEW t \in Tabs, DnsCreate(t)
       PROVE  TypeOK'
    <2>1. mem[t] \in Doc /\ job[t] \in JobIds /\ mem[t].host \in Hosts
        BY <1>13 DEF DnsCreate, RequestsHaveWork, Doc
    <2>2. Failed(mem[t]) \in Doc
        BY <2>1, DocsStayDocs DEF Steps, Errors
    <2>3. RequestsTypeOK' /\ RequestsHaveWork'
        <3>1. CASE ThenSave(t, Failed(mem[t]))
            BY <3>1, <2>1, <2>2, ThenSaveTypes
        <3>2. CASE /\ Goto(t, "txt")
                   /\ UNCHANGED <<job, mem, expired, confirm, held, shown>>
            BY <3>2, <2>1, GotoTypes DEF PCs
        <3>3. QED BY <1>13, <3>1, <3>2 DEF DnsCreate
    <2>4. zone' \in [Hosts -> Records] /\ faults' \in Nat
        BY <1>13, <2>1 DEF DnsCreate, Written, Fault, WorldTypeOK, Records
    <2>5. RowsTypeOK' /\ WorldTypeOK'
        BY <1>13, <2>4 DEF DnsCreate, RowsTypeOK, WorldTypeOK
    <2>6. QED BY <2>3, <2>5 DEF TypeOK
<1>14. ASSUME NEW t \in Tabs, DnsTxt(t) \/ StepCertificate(t)
       PROVE  TypeOK'
    <2>1. mem[t] \in Doc /\ job[t] \in JobIds /\ mem[t].host \in Hosts
        BY <1>14 DEF DnsTxt, StepCertificate, RequestsHaveWork, Doc
    <2>2. /\ Failed(mem[t]) \in Doc
          /\ StepOk(mem[t], "dns") \in Doc
          /\ StepOk(mem[t], "certificate") \in Doc
        BY <2>1, DocsStayDocs DEF Steps, Errors
    <2>3. RequestsTypeOK' /\ RequestsHaveWork'
        BY <1>14, <2>1, <2>2, ThenSaveTypes DEF DnsTxt, StepCertificate
    <2>4. txt' \subseteq Hosts /\ faults' \in Nat
        BY <1>14, <2>1 DEF DnsTxt, StepCertificate, Fault, WorldTypeOK, worldVars
    <2>5. RowsTypeOK' /\ WorldTypeOK'
        BY <1>14, <2>4 DEF DnsTxt, StepCertificate, RowsTypeOK, WorldTypeOK, worldVars
    <2>6. QED BY <2>3, <2>5 DEF TypeOK
<1>15. ASSUME NEW t \in Tabs, StepRecord(t) \/ RecordCommit(t) \/ RecordConflict(t)
       PROVE  TypeOK'
    <2>1. mem[t] \in Doc /\ job[t] \in JobIds /\ mem[t].host \in Hosts
        BY <1>15 DEF StepRecord, RecordCommit, RecordConflict, RequestsHaveWork, Doc
    <2>2. [StepOk(mem[t], "record") EXCEPT !.state = "done"] \in Doc
        BY <2>1, DocsStayDocs DEF Steps, Errors
    <2>3. RequestsTypeOK' /\ RequestsHaveWork'
        <3>1. CASE StepRecord(t)
            BY <3>1, <2>1, GotoTypes DEF StepRecord, PCs
        <3>2. CASE RecordCommit(t)
            BY <3>2, <2>1, <2>2, ThenSaveTypes DEF RecordCommit
        <3>3. CASE RecordConflict(t)
            BY <3>3, RespondTypes DEF RecordConflict
        <3>4. QED BY <1>15, <3>1, <3>2, <3>3
    <2>4. RowsTypeOK' /\ WorldTypeOK'
        BY <1>15, <2>1 DEF StepRecord, RecordCommit, RecordConflict,
                           RowsTypeOK, WorldTypeOK, worldVars
    <2>5. QED BY <2>3, <2>4 DEF TypeOK
<1>16. ASSUME NEW h \in Hosts, Outsider(h)
       PROVE  TypeOK'
    <2>1. RequestsTypeOK' /\ RequestsHaveWork'
        BY <1>16, ForgetTypes DEF Outsider, RequestsTypeOK, RequestsHaveWork
    <2>2. RowsTypeOK' /\ WorldTypeOK'
        BY <1>16 DEF Outsider, RowsTypeOK, WorldTypeOK
    <2>3. QED BY <2>1, <2>2 DEF TypeOK
<1>17. ASSUME Tick \/ \E h \in Hosts : Issue(h)
       PROVE  TypeOK'
    <2>1. RequestsTypeOK' /\ RequestsHaveWork'
        BY <1>17 DEF Tick, Issue, RequestsTypeOK, RequestsHaveWork, reqVars
    <2>2. RowsTypeOK'
        <3>1. UNCHANGED <<jobs, ended, nextId, subdomains>> /\ clock' \in {clock, clock + 1}
            BY <1>17 DEF Tick, Issue
        <3>2. clock' \in Nat
            BY <3>1 DEF RowsTypeOK
        <3>3. QED BY <3>1, <3>2 DEF RowsTypeOK
    <2>3. faults' \in Nat
        BY <1>17 DEF Tick, Issue, Fault, WorldTypeOK
    <2>4. WorldTypeOK'
        BY <1>17, <2>3 DEF Tick, Issue, WorldTypeOK
    <2>5. QED BY <2>1, <2>2, <2>4 DEF TypeOK
<1>18. CASE UNCHANGED vars
    BY <1>18 DEF vars, TypeOK, RowsTypeOK, WorldTypeOK, RequestsTypeOK, RequestsHaveWork
<1>19. QED
    BY <1>1, <1>2, <1>3, <1>4, <1>5, <1>6, <1>7, <1>8, <1>9, <1>10, <1>11, <1>12,
       <1>13, <1>14, <1>15, <1>16, <1>17, <1>18
    DEF Next, Continue

\* The initial states are well typed.
LEMMA InitTypes == Init => TypeOK
<1> SUFFICES ASSUME Init PROVE TypeOK
    OBVIOUS
<1>1. RowsTypeOK
    BY DEF Init, RowsTypeOK
<1>2. WorldTypeOK
    <2>1. Found \subseteq Records
        BY ConstantsAssumption DEF Records
    <2>2. QED BY <2>1 DEF Init, WorldTypeOK
<1>3. RequestsTypeOK
    BY DEF Init, RequestsTypeOK, PCs, Records
<1>4. RequestsHaveWork
    BY DEF Init, RequestsHaveWork
<1>5. QED BY <1>1, <1>2, <1>3, <1>4 DEF TypeOK

\* Types hold in every state of every behaviour.
THEOREM TypeCorrect == Spec => []TypeOK
BY InitTypes, TypeStep, PTL DEF Spec

\* The zone and the panel's tables only change in ways that keep a document
\* that is right about them right, unless others changed the host's records.
WorldKeeps ==
    /\ subdomains \subseteq subdomains'
    /\ registered \subseteq registered'
    /\ touched \subseteq touched'
    /\ \A h \in Hosts : h \notin touched' => /\ zone[h] = "own" => zone'[h] = "own"
                                             /\ h \in txt => h \in txt'

-----------------------------------------------------------------------------
(* The zone.                                                               *)

\* DnsDelete takes away the record its id names, and that one is replaceable.
LEMMA DeleteClears ==
    ASSUME TypeOK, HeldIsThere, NEW t \in Tabs, DnsDelete(t)
    PROVE  /\ mem[t].host \in Hosts
           /\ \/ UNCHANGED zone
              \/ /\ zone[mem[t].host] \in Siblings \cup {"proxied"}
                 /\ zone' = [zone EXCEPT ![mem[t].host] = "none"]
BY DEF DnsDelete, TypeOK, RequestsHaveWork, Doc, HeldIsThere, HeldAt, ThenSave

\* Every step is a step of the abstract specification, or stutters.
LEMMA ZoneStep ==
    TypeOK /\ HeldIsThere /\ [Next]_vars => [Guard!Next]_<<zone, edits>>
<1> SUFFICES ASSUME TypeOK, HeldIsThere, [Next]_vars
             PROVE  [Guard!Next]_<<zone, edits>>
    OBVIOUS
<1>1. ASSUME NEW t \in Tabs, DnsDelete(t)
      PROVE  [Guard!Next]_<<zone, edits>>
    <2>1. CASE UNCHANGED zone
        BY <1>1, <2>1 DEF DnsDelete
    <2>2. CASE /\ zone[mem[t].host] \in Siblings \cup {"proxied"}
               /\ zone' = [zone EXCEPT ![mem[t].host] = "none"]
        BY <1>1, <2>2, DeleteClears DEF DnsDelete, Guard!Next, Guard!Clear
    <2>3. QED BY <1>1, <2>1, <2>2, DeleteClears
<1>2. ASSUME NEW t \in Tabs, DnsCreate(t)
      PROVE  [Guard!Next]_<<zone, edits>>
    <2>1. mem[t].host \in Hosts
        BY <1>2 DEF DnsCreate, TypeOK, RequestsHaveWork, Doc
    <2>2. CASE UNCHANGED zone
        BY <1>2, <2>2 DEF DnsCreate
    <2>3. CASE zone[mem[t].host] = "none" /\ zone' = [zone EXCEPT ![mem[t].host] = "own"]
        BY <1>2, <2>1, <2>3 DEF DnsCreate, Guard!Next, Guard!Point
    <2>4. QED BY <1>2, <2>2, <2>3 DEF Written, DnsCreate
<1>3. ASSUME NEW h \in Hosts, Outsider(h)
      PROVE  [Guard!Next]_<<zone, edits>>
    BY <1>3 DEF Outsider, Guard!Next, Guard!Others, Records, Guard!Records
<1>4. ASSUME NEW t \in Tabs, Continue(t), ~DnsDelete(t), ~DnsCreate(t)
      PROVE  UNCHANGED <<zone, edits>>
    BY <1>4 DEF Continue, AbandonExpired, StartCheck, StartInsert, StartCommit,
                StartContend, Save, Load, StepInfra, StepDns, DnsTxt, StepCertificate,
                StepRecord, RecordCommit, RecordConflict, worldVars
<1>5. ASSUME NEW t \in Tabs,
             \/ \E h \in Hosts : StartClaim(t, h)
             \/ \E j \in JobIds : Discard(t, j)
             \/ \E overwrite \in BOOLEAN : Advance(t, overwrite)
             \/ Crash(t)
      PROVE  UNCHANGED <<zone, edits>>
    BY <1>5 DEF StartClaim, Discard, Advance, Crash, worldVars
<1>6. ASSUME Tick \/ \E h \in Hosts : Issue(h)
      PROVE  UNCHANGED <<zone, edits>>
    BY <1>6 DEF Tick, Issue
<1>7. CASE UNCHANGED vars
    BY <1>7 DEF vars
<1>8. QED
    BY <1>1, <1>2, <1>3, <1>4, <1>5, <1>6, <1>7 DEF Next

\* What a document is right about it stays right about.
LEMMA WorldStep ==
    TypeOK /\ HeldIsThere /\ [Next]_vars => WorldKeeps
<1> SUFFICES ASSUME TypeOK, HeldIsThere, [Next]_vars
             PROVE  WorldKeeps
    OBVIOUS
<1> USE DEF WorldKeeps
<1>1. ASSUME NEW t \in Tabs, DnsDelete(t)
      PROVE  WorldKeeps
    <2>1. Siblings \cap {"own"} = {}
        BY ConstantsAssumption
    <2>2. QED
        BY <1>1, <2>1, DeleteClears DEF DnsDelete, TypeOK, WorldTypeOK
<1>2. ASSUME NEW t \in Tabs, DnsCreate(t)
      PROVE  WorldKeeps
    BY <1>2 DEF Written, DnsCreate, TypeOK, WorldTypeOK
<1>3. ASSUME NEW h \in Hosts, Outsider(h)
      PROVE  WorldKeeps
    BY <1>3 DEF Outsider, TypeOK, WorldTypeOK
<1>4. ASSUME NEW t \in Tabs, StepInfra(t) \/ DnsTxt(t) \/ RecordCommit(t)
      PROVE  WorldKeeps
    BY <1>4 DEF StepInfra, DnsTxt, RecordCommit, worldVars
<1>5. ASSUME NEW t \in Tabs, Continue(t), ~DnsDelete(t), ~DnsCreate(t), ~StepInfra(t),
             ~DnsTxt(t), ~RecordCommit(t)
      PROVE  WorldKeeps
    BY <1>5 DEF Continue, AbandonExpired, StartCheck, StartInsert, StartCommit,
                StartContend, Save, Load, StepDns, StepCertificate,
                StepRecord, RecordConflict, worldVars
<1>6. ASSUME NEW t \in Tabs,
             \/ \E h \in Hosts : StartClaim(t, h)
             \/ \E j \in JobIds : Discard(t, j)
             \/ \E overwrite \in BOOLEAN : Advance(t, overwrite)
             \/ Crash(t)
      PROVE  WorldKeeps
    BY <1>6 DEF StartClaim, Discard, Advance, Crash, worldVars
<1>7. ASSUME Tick \/ \E h \in Hosts : Issue(h)
      PROVE  WorldKeeps
    BY <1>7 DEF Tick, Issue
<1>8. CASE UNCHANGED vars
    BY <1>8 DEF vars
<1>9. QED
    BY <1>1, <1>2, <1>3, <1>4, <1>5, <1>6, <1>7, <1>8 DEF Next

\* Hence an honest document stays honest.
LEMMA HonestStays ==
    ASSUME WorldKeeps
    PROVE  \A d \in Doc : Honest(d) => Honest(d)'
BY DEF WorldKeeps, Honest, Sound, Pointed, Doc

\* A document whose job is given up or fails says no more than before.
LEMMA GivenUpHonest ==
    ASSUME NEW d \in Doc, d.state = "in_progress", Honest(d), NEW why \in Errors
    PROVE  Honest(Failed(d)) /\ Honest(Abandoned(d, why))
BY DEF Honest, Sound, Pointed, Failed, Abandoned, Doc

-----------------------------------------------------------------------------
(* Rows.                                                                   *)

\* A write of an honest document leaves every row honest.
LEMMA WriteHonest ==
    ASSUME TypeOK, RowsHonest, WorldKeeps,
           NEW j \in JobIds, NEW d \in Doc, Honest(d), jobs' = [jobs EXCEPT ![j] = d]
    PROVE  RowsHonest'
<1>1. ASSUME NEW k \in JobIds, jobs'[k] # NoDoc
      PROVE  \E e \in Doc : e = jobs'[k] /\ Honest(e)
    BY <1>1 DEF TypeOK, RowsTypeOK, RowsHonest, Visible
<1>2. QED
    BY <1>1, HonestStays DEF RowsHonest, Visible, Honest, Sound, Pointed

\* So does no write at all.
LEMMA NoWriteHonest ==
    ASSUME TypeOK, RowsHonest, WorldKeeps, UNCHANGED jobs
    PROVE  RowsHonest'
<1>1. ASSUME NEW k \in JobIds, jobs'[k] # NoDoc
      PROVE  \E e \in Doc : e = jobs'[k] /\ Honest(e)
    BY <1>1 DEF TypeOK, RowsTypeOK, RowsHonest, Visible
<1>2. QED
    BY <1>1, HonestStays DEF RowsHonest, Visible, Honest, Sound, Pointed

\* Only three actions write a row.
LEMMA RowsStep ==
    TypeOK /\ RowsHonest /\ CopiesHonest /\ ExpiredHonest /\ WorldKeeps /\ [Next]_vars
        => RowsHonest'
<1> SUFFICES ASSUME TypeOK, RowsHonest, CopiesHonest, ExpiredHonest, WorldKeeps, [Next]_vars
             PROVE  RowsHonest'
    OBVIOUS
<1>1. ASSUME NEW t \in Tabs, AbandonExpired(t)
      PROVE  RowsHonest'
    <2>1. PICK row \in expired[t] : jobs' = [jobs EXCEPT ![row[1]] = Abandoned(row[2], "expired")]
        BY <1>1 DEF AbandonExpired
    <2>2. /\ row[1] \in JobIds
          /\ row[2] \in Doc
          /\ row[2].state = "in_progress"
          /\ Honest(row[2])
        BY <2>1 DEF TypeOK, RequestsTypeOK, ExpiredHonest
    <2>3. Abandoned(row[2], "expired") \in Doc /\ Honest(Abandoned(row[2], "expired"))
        BY <2>2, DocsStayDocs, GivenUpHonest DEF Errors, Steps
    <2>4. QED BY <2>1, <2>2, <2>3, WriteHonest
<1>2. ASSUME NEW t \in Tabs, StartCommit(t) \/ Save(t)
      PROVE  RowsHonest'
    <2>1. mem[t] \in Doc /\ job[t] \in JobIds /\ jobs' = [jobs EXCEPT ![job[t]] = mem[t]]
        BY <1>2 DEF StartCommit, Save, TypeOK, RequestsHaveWork
    <2>2. Honest(mem[t])
        BY <2>1, NoDocIsNoDoc DEF CopiesHonest
    <2>3. QED BY <2>1, <2>2, WriteHonest
<1>3. ASSUME NEW t \in Tabs, Continue(t), ~AbandonExpired(t), ~StartCommit(t), ~Save(t)
      PROVE  UNCHANGED jobs
    BY <1>3 DEF Continue, StartCheck, StartInsert, StartContend, Load, StepInfra, StepDns,
                DnsDelete, DnsCreate, DnsTxt, StepCertificate, StepRecord, RecordCommit,
                RecordConflict
<1>4. ASSUME NEW t \in Tabs,
             \/ \E h \in Hosts : StartClaim(t, h)
             \/ \E j \in JobIds : Discard(t, j)
             \/ \E overwrite \in BOOLEAN : Advance(t, overwrite)
             \/ Crash(t)
      PROVE  UNCHANGED jobs
    BY <1>4 DEF StartClaim, Discard, Advance, Crash
<1>5. ASSUME Tick \/ \E h \in Hosts : Outsider(h) \/ Issue(h)
      PROVE  UNCHANGED jobs
    BY <1>5 DEF Tick, Outsider, Issue
<1>6. CASE UNCHANGED vars
    BY <1>6, NoWriteHonest DEF vars
<1>7. QED
    BY <1>1, <1>2, <1>3, <1>4, <1>5, <1>6, NoWriteHonest DEF Next

-----------------------------------------------------------------------------
(* Copies.                                                                 *)

\* One request's copy changes, to a document that is honest afterwards.
LEMMA CopyHonest ==
    ASSUME TypeOK, CopiesHonest, WorldKeeps, NEW t \in Tabs,
           \A u \in Tabs \ {t} : mem'[u] = mem[u],
           mem'[t] \in Doc \cup {NoDoc},
           \A e \in Doc : e = mem'[t] => Honest(e)'
    PROVE  CopiesHonest'
<1>1. ASSUME NEW u \in Tabs, mem'[u] # NoDoc
      PROVE  \E e \in Doc : e = mem'[u] /\ Honest(e)'
    <2>1. CASE u = t
        BY <1>1, <2>1
    <2>2. CASE u # t
        <3>1. mem[u] \in Doc /\ Honest(mem[u])
            BY <1>1, <2>2 DEF TypeOK, RequestsTypeOK, CopiesHonest
        <3>2. PICK e \in Doc : e = mem[u]
            BY <3>1
        <3>3. Honest(e)
            BY <3>1, <3>2
        <3>4. QED BY <2>2, <3>2, <3>3, HonestStays
    <2>3. QED BY <2>1, <2>2
<1>2. QED
    BY <1>1 DEF CopiesHonest, Honest, Sound, Pointed

\* It changes to a document that is honest already ...
LEMMA CopyAlreadyHonest ==
    ASSUME TypeOK, CopiesHonest, WorldKeeps, NEW t \in Tabs, NEW d \in Doc, Honest(d),
           mem' = [mem EXCEPT ![t] = d]
    PROVE  CopiesHonest'
<1>1. \A e \in Doc : e = mem'[t] => Honest(e)'
    BY HonestStays DEF TypeOK, RequestsTypeOK
<1>2. QED
    BY <1>1, CopyHonest DEF TypeOK, RequestsTypeOK

\* ... or it is dropped, or no copy changes.
LEMMA CopyDropped ==
    ASSUME TypeOK, CopiesHonest, WorldKeeps, NEW t \in Tabs,
           mem' = [mem EXCEPT ![t] = NoDoc] \/ UNCHANGED mem
    PROVE  CopiesHonest'
<1>1. CASE mem' = [mem EXCEPT ![t] = NoDoc]
    BY <1>1, NoDocIsNoDoc, CopyHonest DEF TypeOK, RequestsTypeOK
<1>2. CASE UNCHANGED mem
    <2>1. \A e \in Doc : e = mem'[t] => Honest(e)'
        BY <1>2, HonestStays, NoDocIsNoDoc DEF CopiesHonest
    <2>2. QED BY <1>2, <2>1, CopyHonest DEF TypeOK, RequestsTypeOK
<1>3. QED BY <1>1, <1>2

\* The four actions that add a step to what a document claims.
LEMMA StepsHonest ==
    ASSUME TypeOK, CopiesHonest, Ready, WorldKeeps, NEW t \in Tabs,
           StepInfra(t) \/ DnsTxt(t) \/ StepCertificate(t) \/ RecordCommit(t)
    PROVE  CopiesHonest'
<1> DEFINE d == mem[t]
<1>1. d \in Doc /\ Honest(d) /\ d.state = "in_progress"
    BY NoDocIsNoDoc DEF TypeOK, RequestsHaveWork, CopiesHonest, Ready, ReadyAt,
                        StepInfra, DnsTxt, StepCertificate, RecordCommit
<1>2. Failed(d) \in Doc /\ Honest(Failed(d))
    BY <1>1, DocsStayDocs, GivenUpHonest DEF Errors, Steps
<1>3. CASE ThenSave(t, Failed(d))
    BY <1>2, <1>3, CopyAlreadyHonest DEF ThenSave, Remember
<1>4. ASSUME NEW token \in BOOLEAN, StepInfra(t),
             registered' = registered \cup {d.host},
             ThenSave(t, [StepOk(d, "infra") EXCEPT !.verification = token])
      PROVE  CopiesHonest'
    <2>1. PICK e \in Doc : e = [StepOk(d, "infra") EXCEPT !.verification = token]
        BY <1>1, DocsStayDocs DEF Steps, Errors
    <2>2. mem' = [mem EXCEPT ![t] = e]
        BY <1>4, <2>1 DEF ThenSave, Remember
    <2>3. /\ e.host = d.host
          /\ e.state = "in_progress"
          /\ e.steps = d.steps \cup {"infra"}
        BY <1>1, <2>1 DEF StepOk, Doc
    <2>4. "infra" \notin d.steps
        BY <1>4 DEF StepInfra, Ready, ReadyAt
    <2>5. Honest(e)'
        BY <1>1, <1>4, <2>3, <2>4 DEF Honest, Sound, Pointed
    <2>6. QED BY <2>2, <2>5, CopyHonest DEF TypeOK, RequestsTypeOK
<1>5. ASSUME DnsTxt(t), ThenSave(t, StepOk(d, "dns")),
             txt' = IF d.verification THEN txt \cup {d.host} ELSE txt
      PROVE  CopiesHonest'
    <2>1. PICK e \in Doc : e = StepOk(d, "dns")
        BY <1>1, DocsStayDocs DEF Steps, Errors
    <2>2. mem' = [mem EXCEPT ![t] = e]
        BY <1>5, <2>1 DEF ThenSave, Remember
    <2>3. /\ e.host = d.host
          /\ e.state = "in_progress"
          /\ e.verification = d.verification
          /\ e.steps = d.steps \cup {"dns"}
        BY <1>1, <2>1 DEF StepOk, Doc
    <2>4. "infra" \in d.steps /\ (d.host \notin touched => zone[d.host] = "own")
        BY <1>5 DEF DnsTxt, Ready, ReadyAt
    <2>5. UNCHANGED <<subdomains, registered, zone, touched>>
        BY <1>5 DEF DnsTxt
    <2>6. Sound(e)'
        BY <1>1, <2>3, <2>4, <2>5 DEF Honest, Sound
    <2>7. Pointed(e)'
        BY <1>5, <2>3, <2>4, <2>5 DEF Pointed
    <2>8. Honest(e)'
        BY <2>6, <2>7 DEF Honest
    <2>9. QED BY <2>2, <2>8, CopyHonest DEF TypeOK, RequestsTypeOK
<1>6. ASSUME StepCertificate(t), ThenSave(t, StepOk(d, "certificate"))
      PROVE  CopiesHonest'
    <2>1. PICK e \in Doc : e = StepOk(d, "certificate")
        BY <1>1, DocsStayDocs DEF Steps, Errors
    <2>2. /\ e.host = d.host
          /\ e.state = "in_progress"
          /\ e.verification = d.verification
          /\ e.steps = d.steps \cup {"certificate"}
        BY <1>1, <2>1 DEF StepOk, Doc
    <2>3. Honest(e)
        BY <1>1, <1>6, <2>2 DEF StepCertificate, Ready, ReadyAt, Honest, Sound, Pointed
    <2>4. QED BY <1>6, <2>1, <2>3, CopyAlreadyHonest DEF ThenSave, Remember
<1>7. ASSUME RecordCommit(t)
      PROVE  CopiesHonest'
    <2>1. PICK e \in Doc : e = [StepOk(d, "record") EXCEPT !.state = "done"]
        BY <1>1, DocsStayDocs DEF Steps, Errors
    <2>2. mem' = [mem EXCEPT ![t] = e] /\ subdomains' = subdomains \cup {d.host}
        BY <1>7, <2>1 DEF RecordCommit, ThenSave, Remember
    <2>3. /\ e.host = d.host
          /\ e.state = "done"
          /\ e.verification = d.verification
          /\ e.steps = d.steps \cup {"record"}
        BY <1>1, <2>1 DEF StepOk, Doc
    <2>4. "certificate" \in d.steps /\ UNCHANGED <<registered, zone, txt, touched>>
        BY <1>7 DEF RecordCommit, Ready, ReadyAt, worldVars
    <2>5. Honest(e)'
        BY <1>1, <2>2, <2>3, <2>4 DEF Honest, Sound, Pointed
    <2>6. QED BY <2>2, <2>5, CopyHonest DEF TypeOK, RequestsTypeOK
<1>8. CASE ThenSave(t, d)
    BY <1>1, <1>8, CopyAlreadyHonest DEF ThenSave, Remember
<1>9. QED
    BY <1>3, <1>4, <1>5, <1>6, <1>7, <1>8 DEF StepInfra, DnsTxt, StepCertificate

\* Every step leaves every copy honest.
LEMMA CopiesStep ==
    /\ TypeOK /\ RowsHonest /\ CopiesHonest /\ Ready /\ WorldKeeps
    /\ [Next]_vars
    => CopiesHonest'
<1> SUFFICES ASSUME TypeOK, RowsHonest, CopiesHonest, Ready, WorldKeeps, [Next]_vars
             PROVE  CopiesHonest'
    OBVIOUS
<1>1. ASSUME NEW t \in Tabs, NEW h \in Hosts, StartClaim(t, h)
      PROVE  CopiesHonest'
    <2>1. NewDoc(h) \in Doc /\ Honest(NewDoc(h))
        BY NewDocIsDoc DEF TypeOK, RowsTypeOK, NewDoc, Honest, Sound, Pointed
    <2>2. QED
        BY <1>1, <2>1, CopyAlreadyHonest, CopyDropped DEF StartClaim, Respond, Remember
<1>2. ASSUME NEW t \in Tabs, StartInsert(t)
      PROVE  CopiesHonest'
    <2>1. mem[t] \in Doc /\ Honest(mem[t])
        BY <1>2, NoDocIsNoDoc DEF StartInsert, TypeOK, RequestsHaveWork, CopiesHonest
    <2>2. PICK e \in Doc : e = [mem[t] EXCEPT !.started = clock]
        BY <2>1, DocsStayDocs DEF TypeOK, RowsTypeOK, Steps, Errors
    <2>3. /\ e.host = mem[t].host
          /\ e.state = mem[t].state
          /\ e.steps = mem[t].steps
          /\ e.verification = mem[t].verification
        BY <2>1, <2>2 DEF Doc
    <2>4. Honest(e)
        BY <2>1, <2>3 DEF Honest, Sound, Pointed
    <2>5. QED BY <1>2, <2>2, <2>4, CopyAlreadyHonest DEF StartInsert, Remember
<1>3. ASSUME NEW t \in Tabs, StartContend(t)
      PROVE  CopiesHonest'
    <2>1. mem[t] \in Doc /\ Honest(mem[t]) /\ mem[t].state = "in_progress"
        BY <1>3, NoDocIsNoDoc DEF StartContend, TypeOK, RequestsHaveWork, CopiesHonest, Ready, ReadyAt
    <2>2. Abandoned(mem[t], "held") \in Doc /\ Honest(Abandoned(mem[t], "held"))
        BY <2>1, DocsStayDocs, GivenUpHonest DEF Errors, Steps
    <2>3. QED
        BY <1>3, <2>2, CopyAlreadyHonest, CopyDropped
        DEF StartContend, ThenSave, Respond, Remember
<1>4. ASSUME NEW t \in Tabs, NEW j \in JobIds, Discard(t, j)
      PROVE  CopiesHonest'
    <2>1. jobs[j] \in Doc /\ Honest(jobs[j]) /\ jobs[j].state = "in_progress"
        BY <1>4 DEF Discard, InProgress, Visible, TypeOK, RowsTypeOK, RowsHonest
    <2>2. Abandoned(jobs[j], "discarded") \in Doc /\ Honest(Abandoned(jobs[j], "discarded"))
        BY <2>1, DocsStayDocs, GivenUpHonest DEF Errors, Steps
    <2>3. QED BY <1>4, <2>2, CopyAlreadyHonest DEF Discard, Remember
<1>5. ASSUME NEW t \in Tabs, Load(t)
      PROVE  CopiesHonest'
    <2>1. CASE Respond(t, Nothing)
        BY <2>1, CopyDropped DEF Respond
    <2>2. CASE job[t] \in InProgress /\ Remember(t, jobs[job[t]])
        <3>1. jobs[job[t]] \in Doc /\ Honest(jobs[job[t]])
            BY <2>2 DEF InProgress, Visible, TypeOK, RowsTypeOK, RowsHonest
        <3>2. QED BY <2>2, <3>1, CopyAlreadyHonest DEF Remember
    <2>3. QED BY <1>5, <2>1, <2>2 DEF Load
<1>6. ASSUME NEW t \in Tabs, StepDns(t) \/ DnsDelete(t) \/ DnsCreate(t)
      PROVE  CopiesHonest'
    <2>1. mem[t] \in Doc /\ Honest(mem[t]) /\ mem[t].state = "in_progress"
        BY <1>6, NoDocIsNoDoc
        DEF StepDns, DnsDelete, DnsCreate, TypeOK, RequestsHaveWork, CopiesHonest, Ready, ReadyAt
    <2>2. Failed(mem[t]) \in Doc /\ Honest(Failed(mem[t]))
        BY <2>1, DocsStayDocs, GivenUpHonest DEF Errors, Steps
    <2>3. \/ mem' = [mem EXCEPT ![t] = Failed(mem[t])]
          \/ mem' = [mem EXCEPT ![t] = NoDoc]
          \/ UNCHANGED mem
        BY <1>6 DEF StepDns, DnsDelete, DnsCreate, ThenSave, Respond, Remember
    <2>4. QED BY <2>2, <2>3, CopyAlreadyHonest, CopyDropped
<1>7. ASSUME NEW t \in Tabs,
             \/ AbandonExpired(t) \/ StartCheck(t) \/ StartCommit(t) \/ Save(t)
             \/ StepRecord(t) \/ RecordConflict(t) \/ Crash(t)
             \/ \E overwrite \in BOOLEAN : Advance(t, overwrite)
      PROVE  CopiesHonest'
    <2>1. mem' = [mem EXCEPT ![t] = NoDoc] \/ UNCHANGED mem
        BY <1>7 DEF AbandonExpired, StartCheck, StartCommit, Save, StepRecord,
                    RecordConflict, Crash, Advance, Respond
    <2>2. QED BY <2>1, CopyDropped
<1>8. ASSUME \/ Tick \/ \E h \in Hosts : Outsider(h) \/ Issue(h)
             \/ UNCHANGED vars
      PROVE  CopiesHonest'
    <2>1. UNCHANGED mem
        BY <1>8 DEF Tick, Outsider, Issue, reqVars, vars
    <2>2. CASE Tabs = {}
        BY <2>2 DEF CopiesHonest
    <2>3. QED BY <2>1, <2>2, CopyDropped
<1>9. QED
    BY <1>1, <1>2, <1>3, <1>4, <1>5, <1>6, <1>7, <1>8, StepsHonest DEF Next, Continue

\* The rows a start is about to give up were in progress when it read them.
LEMMA ExpiredStep ==
    TypeOK /\ RowsHonest /\ ExpiredHonest /\ WorldKeeps /\ [Next]_vars => ExpiredHonest'
<1> SUFFICES ASSUME TypeOK, RowsHonest, ExpiredHonest, WorldKeeps, [Next]_vars
             PROVE  ExpiredHonest'
    OBVIOUS
<1>1. ASSUME \A u \in Tabs : \A row \in expired'[u] :
                 \E e \in Doc : e = row[2] /\ e.state = "in_progress" /\ Honest(e)
      PROVE  ExpiredHonest'
    BY <1>1, HonestStays DEF ExpiredHonest, Honest, Sound, Pointed
<1>2. ASSUME NEW u \in Tabs, NEW row \in expired[u]
      PROVE  \E e \in Doc : e = row[2] /\ e.state = "in_progress" /\ Honest(e)
    BY <1>2 DEF TypeOK, RequestsTypeOK, ExpiredHonest
<1>3. ASSUME NEW t \in Tabs, NEW h \in Hosts, StartClaim(t, h)
      PROVE  ExpiredHonest'
    <2>1. \A row \in {<<j, jobs[j]>> : j \in InFlight} :
              \E e \in Doc : e = row[2] /\ e.state = "in_progress" /\ Honest(e)
        BY ListedAreInProgress DEF InProgress, Visible, TypeOK, RowsTypeOK, RowsHonest
    <2>2. \A u \in Tabs : \/ expired'[u] \subseteq expired[u]
                          \/ expired'[u] = {<<j, jobs[j]>> : j \in InFlight}
        BY <1>3 DEF StartClaim, Respond, TypeOK, RequestsTypeOK
    <2>3. QED BY <1>1, <1>2, <2>1, <2>2
<1>4. ASSUME NEW t \in Tabs,
             \/ Continue(t) \/ Crash(t)
             \/ \E j \in JobIds : Discard(t, j)
             \/ \E overwrite \in BOOLEAN : Advance(t, overwrite)
      PROVE  ExpiredHonest'
    <2>1. CASE Respond(t, Nothing) \/ \E screen : Respond(t, screen)
        BY <1>1, <1>2, <2>1 DEF Respond, TypeOK, RequestsTypeOK
    <2>2. CASE UNCHANGED expired
        BY <1>1, <1>2, <2>2
    <2>3. CASE AbandonExpired(t)
        BY <1>1, <1>2, <2>3 DEF AbandonExpired, TypeOK, RequestsTypeOK
    <2>4. QED
        BY <1>4, <2>1, <2>2, <2>3
        DEF Continue, StartCheck, StartInsert, StartCommit, StartContend, Save, Load,
            StepInfra, StepDns, DnsDelete, DnsCreate, DnsTxt, StepCertificate, StepRecord,
            RecordCommit, RecordConflict, Crash, Discard, Advance, ThenSave
<1>5. ASSUME \/ Tick \/ \E h \in Hosts : Outsider(h) \/ Issue(h)
             \/ UNCHANGED vars
      PROVE  ExpiredHonest'
    BY <1>1, <1>2, <1>5 DEF Tick, Outsider, Issue, reqVars, vars
<1>6. QED
    BY <1>3, <1>4, <1>5 DEF Next

-----------------------------------------------------------------------------
(* Requests.                                                               *)

\* What one request does leaves the others as ready as they were.
LEMMA OthersReady ==
    ASSUME TypeOK, Ready, WorldKeeps, NEW u \in Tabs, pc'[u] = pc[u], mem'[u] = mem[u]
    PROVE  ReadyAt(u)'
<1>1. ASSUME pc[u] = "txt"
      PROVE  mem[u].host \in Hosts
    BY <1>1 DEF TypeOK, RequestsHaveWork, Doc
<1>2. QED BY <1>1 DEF Ready, ReadyAt, WorldKeeps

\* A request that has answered or goes on to save has nothing more to be ready for.
LEMMA SettledReady ==
    ASSUME TypeOK, NEW t \in Tabs, NEW l \in {"idle", "load", "save"}, pc' = [pc EXCEPT ![t] = l]
    PROVE  ReadyAt(t)'
BY DEF ReadyAt, TypeOK, RequestsTypeOK

\* Every step leaves the request that took it ready for where it now is.
LEMMA ReadyStep ==
    TypeOK /\ Ready /\ CopiesHonest /\ RowsHonest /\ WorldKeeps /\ [Next]_vars => Ready'
<1> SUFFICES ASSUME TypeOK, Ready, CopiesHonest, RowsHonest, WorldKeeps, [Next]_vars
             PROVE  Ready'
    OBVIOUS
<1>1. ASSUME NEW t \in Tabs, ReadyAt(t)',
             \A u \in Tabs \ {t} : pc'[u] = pc[u] /\ mem'[u] = mem[u]
      PROVE  Ready'
    BY <1>1, OthersReady DEF Ready
<1>2. ASSUME NEW t \in Tabs, NEW l \in {"idle", "load", "save"}, pc' = [pc EXCEPT ![t] = l],
             \A u \in Tabs \ {t} : mem'[u] = mem[u]
      PROVE  Ready'
    <2>1. ReadyAt(t)'
        BY <1>2, SettledReady
    <2>2. QED BY <1>1, <1>2, <2>1 DEF TypeOK, RequestsTypeOK
<1>3. ASSUME NEW t \in Tabs, NEW screen, Respond(t, screen)
      PROVE  Ready'
    BY <1>2, <1>3 DEF Respond, TypeOK, RequestsTypeOK
<1>4. ASSUME NEW t \in Tabs, NEW d, ThenSave(t, d)
      PROVE  Ready'
    BY <1>2, <1>4 DEF ThenSave, Goto, Remember, TypeOK, RequestsTypeOK
<1>5. ASSUME NEW t \in Tabs, NEW h \in Hosts, StartClaim(t, h)
      PROVE  Ready'
    <2>1. CASE Goto(t, IF InFlight = {} THEN "check" ELSE "claim") /\ Remember(t, NewDoc(h))
        <3>1. ReadyAt(t)'
            BY <2>1 DEF Goto, Remember, NewDoc, ReadyAt, TypeOK, RequestsTypeOK
        <3>2. QED BY <1>1, <2>1, <3>1 DEF Goto, Remember, TypeOK, RequestsTypeOK
    <2>2. QED BY <1>3, <1>5, <2>1 DEF StartClaim
<1>6. ASSUME NEW t \in Tabs, AbandonExpired(t) \/ StartCheck(t) \/ StartCommit(t)
      PROVE  Ready'
    <2>1. CASE Respond(t, Nothing)
        BY <1>3, <2>1
    <2>2. CASE /\ pc[t] \in {"claim", "check", "commit"}
               /\ \E l \in {"claim", "check", "insert", "contend"} : Goto(t, l)
               /\ UNCHANGED mem
        <3>1. ReadyAt(t)'
            BY <2>2 DEF Goto, Ready, ReadyAt, TypeOK, RequestsTypeOK
        <3>2. QED BY <1>1, <2>2, <3>1 DEF Goto, TypeOK, RequestsTypeOK
    <2>3. QED BY <1>6, <2>1, <2>2 DEF AbandonExpired, StartCheck, StartCommit
<1>7. ASSUME NEW t \in Tabs, StartInsert(t)
      PROVE  Ready'
    <2>1. mem[t] \in Doc
        BY <1>7 DEF StartInsert, TypeOK, RequestsHaveWork
    <2>2. ReadyAt(t)'
        BY <1>7, <2>1 DEF StartInsert, Goto, Remember, Ready, ReadyAt, TypeOK, RequestsTypeOK, Doc
    <2>3. QED BY <1>1, <1>7, <2>2 DEF StartInsert, Goto, Remember, TypeOK, RequestsTypeOK
<1>8. ASSUME NEW t \in Tabs, Load(t)
      PROVE  Ready'
    <2>1. CASE job[t] \in InProgress /\ Remember(t, jobs[job[t]]) /\ Goto(t, NextStep(jobs[job[t]]))
        <3>1. jobs[job[t]].state = "in_progress"
            BY <2>1 DEF InProgress
        <3>2. ReadyAt(t)'
            BY <2>1, <3>1 DEF Remember, Goto, NextStep, ReadyAt, TypeOK, RequestsTypeOK
        <3>3. QED BY <1>1, <2>1, <3>2 DEF Goto, Remember, TypeOK, RequestsTypeOK
    <2>2. QED BY <1>3, <1>8, <2>1 DEF Load
<1>9. ASSUME NEW t \in Tabs, StepDns(t)
      PROVE  Ready'
    <2>1. mem[t].host \in Hosts
        BY <1>9 DEF StepDns, TypeOK, RequestsHaveWork, Doc
    <2> DEFINE r == zone[mem[t].host]
    <2>2. CASE /\ \/ Goto(t, "delete")
                  \/ (r = "none" \/ Right(r)) /\ Goto(t, IF r = "none" THEN "create" ELSE "txt")
               /\ UNCHANGED mem
        <3>1. UNCHANGED <<zone, touched>> /\ pc[t] = "dns"
            BY <1>9 DEF StepDns, worldVars
        <3>2. ReadyAt(t)'
            BY <2>2, <3>1 DEF Goto, Right, Ours, Ready, ReadyAt, TypeOK, RequestsTypeOK
        <3>3. QED BY <1>1, <2>2, <3>2 DEF Goto, TypeOK, RequestsTypeOK
    <2>3. QED BY <1>3, <1>4, <1>9, <2>2 DEF StepDns
<1>10. ASSUME NEW t \in Tabs, DnsDelete(t)
       PROVE  Ready'
    <2>1. CASE Goto(t, "create") /\ UNCHANGED mem
        <3>1. ReadyAt(t)'
            BY <1>10, <2>1 DEF DnsDelete, Goto, Ready, ReadyAt, TypeOK, RequestsTypeOK
        <3>2. QED BY <1>1, <2>1, <3>1 DEF Goto, TypeOK, RequestsTypeOK
    <2>2. CASE Goto(t, "save") /\ Remember(t, Failed(mem[t]))
        BY <1>2, <2>2 DEF Goto, Remember, TypeOK, RequestsTypeOK
    <2>3. QED BY <1>4, <1>10, <2>1, <2>2 DEF DnsDelete
<1>11. ASSUME NEW t \in Tabs, DnsCreate(t)
       PROVE  Ready'
    <2>1. CASE Goto(t, "txt") /\ zone' = [zone EXCEPT ![mem[t].host] = "own"] /\ UNCHANGED mem
        <3>1. mem[t].host \in Hosts
            BY <1>11 DEF DnsCreate, TypeOK, RequestsHaveWork, Doc
        <3>2. ReadyAt(t)'
            BY <1>11, <2>1, <3>1
            DEF DnsCreate, Goto, Ready, ReadyAt, TypeOK, RequestsTypeOK, WorldTypeOK
        <3>3. QED BY <1>1, <2>1, <3>2 DEF Goto, TypeOK, RequestsTypeOK
    <2>2. QED BY <1>4, <1>11, <2>1 DEF Written, DnsCreate
<1>12. ASSUME NEW t \in Tabs, StepRecord(t)
       PROVE  Ready'
    <2>1. ReadyAt(t)'
        BY <1>12 DEF StepRecord, Goto, Ready, ReadyAt, TypeOK, RequestsTypeOK
    <2>2. QED BY <1>1, <1>12, <2>1 DEF StepRecord, Goto, TypeOK, RequestsTypeOK
<1>13. ASSUME NEW t \in Tabs,
              \/ StartContend(t) \/ Save(t) \/ StepInfra(t) \/ DnsTxt(t)
              \/ StepCertificate(t) \/ RecordCommit(t) \/ RecordConflict(t) \/ Crash(t)
       PROVE  Ready'
    BY <1>3, <1>4, <1>13 DEF StartContend, Save, StepInfra, DnsTxt, StepCertificate,
                             RecordCommit, RecordConflict, Crash
<1>14. ASSUME NEW t \in Tabs, (\E j \in JobIds : Discard(t, j)) \/ \E o \in BOOLEAN : Advance(t, o)
       PROVE  Ready'
    BY <1>2, <1>14 DEF Discard, Advance, Goto, Remember, TypeOK, RequestsTypeOK
<1>15. ASSUME \/ Tick \/ \E h \in Hosts : Outsider(h) \/ Issue(h)
              \/ UNCHANGED vars
       PROVE  Ready'
    BY <1>15, OthersReady DEF Tick, Outsider, Issue, reqVars, vars, Ready
<1>16. QED
    BY <1>5, <1>6, <1>7, <1>8, <1>9, <1>10, <1>11, <1>12, <1>13, <1>14, <1>15
    DEF Next, Continue

\* A record id stays good until the record goes: whoever removes or writes the
\* record at that host makes every request forget it.
LEMMA HeldStep ==
    TypeOK /\ HeldIsThere /\ [Next]_vars => HeldIsThere'
<1> SUFFICES ASSUME TypeOK, HeldIsThere, [Next]_vars
             PROVE  HeldIsThere'
    OBVIOUS
<1>1. ASSUME NEW t \in Tabs, held[t] = "none" \/ held'[t] = "none", UNCHANGED zone,
             \A u \in Tabs \ {t} : pc'[u] = pc[u] /\ mem'[u] = mem[u],
             \A u \in Tabs : held'[u] \in {held[u], "none"}
      PROVE  HeldIsThere'
    BY <1>1 DEF HeldIsThere, HeldAt
<1>2. ASSUME NEW t \in Tabs, NEW screen, Respond(t, screen), UNCHANGED zone
      PROVE  HeldIsThere'
    BY <1>1, <1>2 DEF Respond, TypeOK, RequestsTypeOK
<1>3. ASSUME NEW t \in Tabs, held[t] = "none", UNCHANGED <<zone, held>>,
             \E l : Goto(t, l), UNCHANGED mem \/ \E d : Remember(t, d)
      PROVE  HeldIsThere'
    BY <1>1, <1>3 DEF Goto, Remember, TypeOK, RequestsTypeOK
<1>4. ASSUME NEW t \in Tabs, pc[t] \notin {"delete", "save"}
      PROVE  held[t] = "none"
    BY <1>4 DEF HeldIsThere, HeldAt
<1>5. ASSUME NEW t \in Tabs,
             \/ \E h \in Hosts : StartClaim(t, h)
             \/ \E j \in JobIds : Discard(t, j)
             \/ \E overwrite \in BOOLEAN : Advance(t, overwrite)
             \/ Crash(t) \/ AbandonExpired(t) \/ StartCheck(t) \/ StartInsert(t)
             \/ StartCommit(t) \/ StartContend(t) \/ Save(t) \/ Load(t) \/ StepInfra(t)
             \/ DnsTxt(t) \/ StepCertificate(t) \/ StepRecord(t) \/ RecordCommit(t)
             \/ RecordConflict(t)
      PROVE  HeldIsThere'
    BY <1>2, <1>3, <1>4, <1>5
    DEF StartClaim, Discard, Advance, Crash, AbandonExpired, StartCheck, StartInsert,
        StartCommit, StartContend, Save, Load, StepInfra, DnsTxt, StepCertificate,
        StepRecord, RecordCommit, RecordConflict, ThenSave, worldVars
<1>6. ASSUME NEW t \in Tabs, StepDns(t)
      PROVE  HeldIsThere'
    <2>1. held[t] = "none" /\ UNCHANGED zone
        BY <1>4, <1>6 DEF StepDns, worldVars
    <2> DEFINE r == zone[mem[t].host]
    <2>2. CASE /\ Replaceable(r) /\ ~Right(r)
               /\ Goto(t, "delete")
               /\ held' = [held EXCEPT ![t] = r]
               /\ UNCHANGED mem
        BY <2>1, <2>2 DEF Goto, Replaceable, Ours, Right, HeldIsThere, HeldAt,
                          TypeOK, RequestsTypeOK
    <2>3. QED BY <1>2, <1>3, <1>6, <2>1, <2>2 DEF StepDns, ThenSave
\* Whoever held a record at h forgets it, and no other record changes.
<1>7. ASSUME NEW h \in Hosts, held' = Forget(h), \A k \in Hosts \ {h} : zone'[k] = zone[k],
             NEW t \in Tabs, mem[t].host = h \/ UNCHANGED <<pc, mem>>,
             \A u \in Tabs \ {t} : pc'[u] = pc[u] /\ mem'[u] = mem[u]
      PROVE  HeldIsThere'
    <2>1. ASSUME NEW u \in Tabs, held'[u] # "none"
          PROVE  HeldAt(u)'
        <3>1. held[u] = held'[u] /\ mem[u].host # h
            BY <1>7, <2>1 DEF Forget
        <3>2. pc'[u] = pc[u] /\ mem'[u] = mem[u]
            BY <1>7, <3>1
        <3>3. HeldAt(u) /\ pc[u] \in {"delete", "save"}
            BY <2>1, <3>1 DEF HeldIsThere, HeldAt
        <3>4. mem[u].host \in Hosts
            BY <3>3 DEF TypeOK, RequestsHaveWork, Doc
        <3>5. QED BY <1>7, <3>1, <3>2, <3>3, <3>4 DEF HeldAt
    <2>2. QED BY <2>1 DEF HeldIsThere, HeldAt
<1>8. ASSUME NEW t \in Tabs, DnsDelete(t)
      PROVE  HeldIsThere'
    <2>1. mem[t] \in Doc /\ mem[t].host \in Hosts /\ pc[t] = "delete"
        BY <1>8 DEF DnsDelete, TypeOK, RequestsHaveWork, Doc
    <2>2. CASE held' = Forget(mem[t].host) /\ zone' = [zone EXCEPT ![mem[t].host] = "none"]
        <3>1. \A u \in Tabs \ {t} : pc'[u] = pc[u] /\ mem'[u] = mem[u]
            BY <1>8 DEF DnsDelete, Goto, Remember, ThenSave, TypeOK, RequestsTypeOK
        <3>2. \A k \in Hosts \ {mem[t].host} : zone'[k] = zone[k]
            BY <2>2 DEF TypeOK, WorldTypeOK
        <3>3. QED BY <1>7, <2>1, <2>2, <3>1, <3>2
    <2>3. CASE ThenSave(t, Failed(mem[t])) /\ UNCHANGED zone
        <3>1. Failed(mem[t]).host = mem[t].host
            BY <2>1 DEF Failed, Doc
        <3>2. QED
            BY <2>1, <2>3, <3>1 DEF ThenSave, Goto, Remember, HeldIsThere, HeldAt,
                                    TypeOK, RequestsTypeOK
    <2>4. QED BY <1>8, <2>2, <2>3 DEF DnsDelete
<1>9. ASSUME NEW t \in Tabs, DnsCreate(t)
      PROVE  HeldIsThere'
    <2>1. mem[t].host \in Hosts /\ held[t] = "none"
        BY <1>4, <1>9 DEF DnsCreate, TypeOK, RequestsHaveWork, Doc
    <2>2. CASE UNCHANGED zone
        BY <1>3, <1>9, <2>1, <2>2 DEF DnsCreate, ThenSave
    <2>3. CASE zone[mem[t].host] = "none" /\ zone' = [zone EXCEPT ![mem[t].host] = "own"]
        <3>1. UNCHANGED held /\ \A u \in Tabs \ {t} : pc'[u] = pc[u] /\ mem'[u] = mem[u]
            BY <1>9 DEF DnsCreate, ThenSave, Goto, Remember, TypeOK, RequestsTypeOK
        <3>2. ASSUME NEW u \in Tabs, held[u] # "none"
              PROVE  /\ u # t
                     /\ zone'[mem[u].host] = zone[mem[u].host]
            <4>1. HeldAt(u)
                BY DEF HeldIsThere
            <4>2. mem[u].host \in Hosts
                BY <3>2, <4>1 DEF HeldAt, TypeOK, RequestsHaveWork, Doc
            <4>3. mem[u].host # mem[t].host
                BY <2>3, <3>2, <4>1 DEF HeldAt
            <4>4. QED BY <2>1, <2>3, <3>2, <4>2, <4>3 DEF TypeOK, WorldTypeOK
        <3>3. QED BY <3>1, <3>2 DEF HeldIsThere, HeldAt
    <2>4. QED BY <1>9, <2>2, <2>3 DEF Written, DnsCreate
<1>10. ASSUME NEW h \in Hosts, Outsider(h)
       PROVE  HeldIsThere'
    <2>1. /\ held' = Forget(h)
          /\ UNCHANGED <<pc, mem>>
          /\ \A k \in Hosts \ {h} : zone'[k] = zone[k]
        BY <1>10 DEF Outsider, TypeOK, WorldTypeOK
    <2>2. CASE Tabs = {}
        BY <2>2 DEF HeldIsThere
    <2>3. QED BY <1>7, <2>1, <2>2
<1>11. ASSUME (Tick \/ \E h \in Hosts : Issue(h)) \/ UNCHANGED vars
       PROVE  HeldIsThere'
    BY <1>11 DEF Tick, Issue, reqVars, vars, HeldIsThere, HeldAt
<1>12. QED
    BY <1>5, <1>6, <1>8, <1>9, <1>10, <1>11 DEF Next, Continue

-----------------------------------------------------------------------------
(* The tie-break.  Each step is told by what it does to one request's      *)
(* place, row and copies and to the rows everybody sees.                   *)

Advancing == {"infra", "dns", "delete", "create", "txt", "certificate", "record",
              "recordUpdate", "recordInsert"}

RowsStay == UNCHANGED <<jobs, ended, nextId, clock>>
Rests    == RowsStay /\ UNCHANGED <<pc, job, mem, expired>>

OthersWait(t) ==
    \A u \in Tabs \ {t} :
        pc'[u] = pc[u] /\ job'[u] = job[u] /\ mem'[u] = mem[u] /\ expired'[u] = expired[u]

\* The request is answered.
Ends(t) ==
    /\ RowsStay
    /\ pc'[t] = "idle" /\ job'[t] = 0 /\ mem'[t] = NoDoc /\ expired'[t] = {}

\* It claims the lock from whoever let the TTL pass.
Claims(t) ==
    /\ RowsStay
    /\ pc'[t] \in {"claim", "check"} /\ job'[t] = job[t] /\ mem'[t].error = "null"
    /\ expired'[t] = {<<j, jobs[j]>> : j \in InFlight}

\* It takes up a job in flight, or a copy of its row.
Takes(t) ==
    /\ RowsStay
    /\ job'[t] \in InProgress /\ expired'[t] = expired[t]
    /\ \/ pc'[t] = "load" /\ mem'[t] = mem[t]
       \/ /\ pc'[t] \in Advancing \cup {"save"}
          /\ mem'[t].started = jobs[job'[t]].started
          /\ mem'[t].error # "held"

\* It carries a job on.
Works(t) ==
    /\ RowsStay
    /\ \/ pc[t] = "check" /\ pc'[t] = "insert"
       \/ pc[t] \in Advancing /\ pc'[t] \in Advancing \cup {"save"}
    /\ job'[t] = job[t] /\ expired'[t] = expired[t]
    /\ mem'[t].started = mem[t].started
    /\ mem'[t].error # "held"

\* Its row takes an id ...
Inserts(t) ==
    /\ UNCHANGED <<jobs, ended, clock>>
    /\ nextId' = nextId + 1
    /\ pc'[t] = "commit" /\ job'[t] = nextId /\ expired'[t] = expired[t]
    /\ mem'[t].started = clock
    /\ mem'[t].error # "held"

\* ... and is there.
Commits(t) ==
    /\ UNCHANGED <<ended, nextId, clock>>
    /\ jobs' = [jobs EXCEPT ![job[t]] = mem[t]]
    /\ pc[t] = "commit" /\ pc'[t] = "contend"
    /\ job'[t] = job[t] /\ mem'[t] = mem[t] /\ expired'[t] = expired[t]

\* It is about to say that its job stood down.
Declines(t) ==
    /\ RowsStay
    /\ pc[t] = "contend" /\ StandsDown(job[t])
    /\ pc'[t] = "save" /\ job'[t] = job[t] /\ expired'[t] = expired[t]
    /\ mem'[t] = Abandoned(mem[t], "held")

\* It gives up a job that outlived the TTL.
Abandons(t) ==
    /\ UNCHANGED <<nextId, clock>>
    /\ \E row \in expired[t] :
          /\ jobs' = [jobs EXCEPT ![row[1]] = Abandoned(row[2], "expired")]
          /\ ended' = EndedWith(row[1], Abandoned(row[2], "expired"))
          /\ expired'[t] = expired[t] \ {row}
    /\ pc'[t] \in {"claim", "check"} /\ job'[t] = job[t] /\ mem'[t] = mem[t]

\* It writes its copy over the row.
Saves(t) ==
    /\ UNCHANGED <<nextId, clock>>
    /\ pc[t] = "save"
    /\ jobs' = [jobs EXCEPT ![job[t]] = mem[t]]
    /\ ended' = EndedWith(job[t], mem[t])
    /\ pc'[t] = "idle" /\ job'[t] = 0 /\ mem'[t] = NoDoc /\ expired'[t] = {}

Moves(t) ==
    /\ OthersWait(t)
    /\ \/ Ends(t) \/ Claims(t) \/ Takes(t) \/ Works(t) \/ Inserts(t) \/ Commits(t)
       \/ Declines(t) \/ Abandons(t) \/ Saves(t)

\* A copy that is still worked on does not say its job stood down.
LEMMA WorkedOnIsPlain ==
    ASSUME Ready, TypeOK, DocsPlain, NEW t \in Tabs, pc[t] \notin {"idle", "load", "save"}
    PROVE  mem[t] \in Doc /\ mem[t].error # "held"
BY NoDocIsNoDoc DEF TypeOK, RequestsHaveWork, Ready, ReadyAt, DocsPlain, Plain

\* A response ends the request.
LEMMA RespondEnds ==
    ASSUME TypeOK, NEW t \in Tabs, NEW screen, Respond(t, screen), RowsStay
    PROVE  OthersWait(t) /\ Ends(t)
BY DEF TypeOK, RequestsTypeOK, Respond, OthersWait, Ends

\* The steps of advanceProvision carry the job on, or end the request.
LEMMA AdvancingMoves ==
    ASSUME TypeOK, Ready, DocsPlain, NEW t \in Tabs,
           \/ StepInfra(t) \/ StepDns(t) \/ DnsDelete(t) \/ DnsCreate(t) \/ DnsTxt(t)
           \/ StepCertificate(t) \/ StepRecord(t) \/ RecordCommit(t) \/ RecordConflict(t)
    PROVE  Moves(t)
<1>1. RowsStay /\ pc[t] \in Advancing
    BY DEF RowsStay, Advancing, StepInfra, StepDns, DnsDelete, DnsCreate, DnsTxt, StepCertificate,
           StepRecord, RecordCommit, RecordConflict, worldVars
<1>2. mem[t] \in Doc /\ mem[t].error # "held"
    BY <1>1, WorkedOnIsPlain DEF Advancing
<1>3. CASE \E screen : Respond(t, screen)
    BY <1>1, <1>3, RespondEnds DEF Moves
<1>4. ASSUME NEW d, ThenSave(t, d) \/ (Goto(t, "save") /\ Remember(t, d) /\ UNCHANGED <<job, expired>>),
             d.started = mem[t].started, d.error # "held"
      PROVE  Moves(t)
    BY <1>1, <1>4 DEF Moves, OthersWait, Works, ThenSave, Goto, Remember, TypeOK, RequestsTypeOK
<1>5. ASSUME NEW l \in Advancing, Goto(t, l), UNCHANGED <<job, mem, expired>>
      PROVE  Moves(t)
    BY <1>1, <1>2, <1>5 DEF Moves, OthersWait, Works, Goto, TypeOK, RequestsTypeOK
<1>6. /\ Failed(mem[t]).started = mem[t].started /\ Failed(mem[t]).error # "held"
      /\ \A step \in Steps, token \in BOOLEAN :
            LET d == StepOk(mem[t], step)
            IN /\ d.started = mem[t].started /\ d.error # "held"
               /\ [d EXCEPT !.verification = token].started = mem[t].started
               /\ [d EXCEPT !.verification = token].error # "held"
               /\ [d EXCEPT !.state = "done"].started = mem[t].started
               /\ [d EXCEPT !.state = "done"].error # "held"
    BY <1>2 DEF Failed, StepOk, Doc
<1>7. CASE StepInfra(t)
    BY <1>4, <1>6, <1>7 DEF StepInfra, Steps
<1>8. CASE StepDns(t)
    BY <1>3, <1>4, <1>5, <1>6, <1>8 DEF StepDns, Advancing
<1>9. CASE DnsDelete(t)
    BY <1>4, <1>5, <1>6, <1>9 DEF DnsDelete, Advancing
<1>10. CASE DnsCreate(t)
    BY <1>4, <1>5, <1>6, <1>10 DEF DnsCreate, Advancing
<1>11. CASE DnsTxt(t)
    BY <1>4, <1>6, <1>11 DEF DnsTxt, Steps
<1>12. CASE StepCertificate(t)
    BY <1>2, <1>4, <1>6, <1>12 DEF StepCertificate, Steps
<1>13. CASE StepRecord(t)
    BY <1>5, <1>13 DEF StepRecord, Advancing
<1>14. CASE RecordCommit(t) \/ RecordConflict(t)
    BY <1>3, <1>4, <1>6, <1>14 DEF RecordCommit, RecordConflict, Steps
<1>15. QED
    BY <1>7, <1>8, <1>9, <1>10, <1>11, <1>12, <1>13, <1>14

\* Every step is one request's move, a tick, or leaves rows and requests alone.
LEMMA StepMoves ==
    ASSUME TypeOK, Ready, DocsPlain, [Next]_vars
    PROVE  Rests \/ Tick \/ \E t \in Tabs : Moves(t)
<1>1. ASSUME NEW t \in Tabs, NEW h \in Hosts, StartClaim(t, h)
      PROVE  Moves(t)
    <2>1. RowsStay
        BY <1>1 DEF StartClaim, RowsStay
    <2>2. CASE Respond(t, Nothing)
        BY <2>1, <2>2, RespondEnds DEF Moves
    <2>3. CASE /\ Goto(t, IF InFlight = {} THEN "check" ELSE "claim")
               /\ Remember(t, NewDoc(h))
               /\ expired' = [expired EXCEPT ![t] = {<<j, jobs[j]>> : j \in InFlight}]
               /\ UNCHANGED job
        <3>1. OthersWait(t)
            BY <2>3 DEF OthersWait, Goto, Remember, TypeOK, RequestsTypeOK
        <3>2. Claims(t)
            BY <2>1, <2>3 DEF Claims, NewDoc, Goto, Remember, TypeOK, RequestsTypeOK
        <3>3. QED BY <3>1, <3>2 DEF Moves
    <2>4. QED BY <1>1, <2>2, <2>3 DEF StartClaim
<1>2. ASSUME NEW t \in Tabs, NEW j \in JobIds, Discard(t, j)
      PROVE  Moves(t)
    <2>1. jobs[j] \in Doc /\ j \in InProgress /\ RowsStay
        BY <1>2 DEF Discard, InProgress, Visible, TypeOK, RowsTypeOK, RowsStay
    <2>2. /\ Abandoned(jobs[j], "discarded").started = jobs[j].started
          /\ Abandoned(jobs[j], "discarded").error # "held"
        BY <2>1 DEF Abandoned, Doc
    <2>3. OthersWait(t) /\ pc'[t] = "save" /\ job'[t] = j /\ expired'[t] = expired[t]
        BY <1>2 DEF Discard, OthersWait, Goto, Remember, TypeOK, RequestsTypeOK
    <2>4. mem'[t] = Abandoned(jobs[j], "discarded")
        BY <1>2 DEF Discard, Remember, TypeOK, RequestsTypeOK
    <2>5. QED BY <2>1, <2>2, <2>3, <2>4 DEF Moves, Takes
<1>3. ASSUME NEW t \in Tabs, NEW overwrite \in BOOLEAN, Advance(t, overwrite)
      PROVE  Moves(t)
    BY <1>3, ListedAreInProgress DEF Advance, Moves, Takes, RowsStay, OthersWait, Goto, TypeOK, RequestsTypeOK
<1>4. ASSUME NEW t \in Tabs, Crash(t) \/ StartCheck(t)
      PROVE  Moves(t)
    <2>1. RowsStay
        BY <1>4 DEF Crash, StartCheck, RowsStay
    <2>2. CASE Respond(t, Nothing)
        BY <2>1, <2>2, RespondEnds DEF Moves
    <2>3. CASE pc[t] = "check" /\ Goto(t, "insert") /\ UNCHANGED <<job, mem, expired>>
        <3>1. mem[t].error # "held"
            BY <2>3, WorkedOnIsPlain
        <3>2. QED
            BY <2>1, <2>3, <3>1 DEF Moves, Works, OthersWait, Goto, TypeOK, RequestsTypeOK
    <2>4. QED BY <1>4, <2>2, <2>3 DEF Crash, StartCheck
<1>5. ASSUME NEW t \in Tabs, AbandonExpired(t)
      PROVE  Moves(t)
    <2>1. OthersWait(t)
        BY <1>5 DEF AbandonExpired, OthersWait, Goto, TypeOK, RequestsTypeOK
    <2>2. Abandons(t)
        BY <1>5 DEF AbandonExpired, Abandons, Goto, TypeOK, RequestsTypeOK
    <2>3. QED BY <2>1, <2>2 DEF Moves
<1>6. ASSUME NEW t \in Tabs, StartInsert(t)
      PROVE  Moves(t)
    <2>1. mem[t] \in Doc /\ mem[t].error # "held"
        BY <1>6, WorkedOnIsPlain DEF StartInsert
    <2>2. /\ [mem[t] EXCEPT !.started = clock].started = clock
          /\ [mem[t] EXCEPT !.started = clock].error # "held"
        BY <2>1 DEF Doc
    <2>3. mem'[t] = [mem[t] EXCEPT !.started = clock]
        BY <1>6 DEF StartInsert, Remember, TypeOK, RequestsTypeOK
    <2>4. OthersWait(t)
        BY <1>6 DEF StartInsert, OthersWait, Goto, Remember, TypeOK, RequestsTypeOK
    <2>5. Inserts(t)
        BY <1>6, <2>2, <2>3 DEF StartInsert, Inserts, Goto, TypeOK, RequestsTypeOK
    <2>6. QED BY <2>4, <2>5 DEF Moves
<1>7. ASSUME NEW t \in Tabs, StartCommit(t)
      PROVE  Moves(t)
    BY <1>7 DEF StartCommit, Moves, Commits, OthersWait, Goto, TypeOK, RequestsTypeOK
<1>8. ASSUME NEW t \in Tabs, StartContend(t)
      PROVE  Moves(t)
    <2>1. RowsStay
        BY <1>8 DEF StartContend, RowsStay
    <2>2. CASE Respond(t, Nothing)
        BY <2>1, <2>2, RespondEnds DEF Moves
    <2>3. CASE pc[t] = "contend" /\ StandsDown(job[t]) /\ ThenSave(t, Abandoned(mem[t], "held"))
        BY <2>1, <2>3 DEF Moves, Declines, OthersWait, ThenSave, Goto, Remember, TypeOK,
                          RequestsTypeOK
    <2>4. QED BY <1>8, <2>2, <2>3 DEF StartContend
<1>9. ASSUME NEW t \in Tabs, Save(t)
      PROVE  Moves(t)
    BY <1>9 DEF Save, Respond, Moves, Saves, OthersWait, TypeOK, RequestsTypeOK
<1>10. ASSUME NEW t \in Tabs, Load(t)
       PROVE  Moves(t)
    <2>1. RowsStay
        BY <1>10 DEF Load, RowsStay
    <2>2. CASE Respond(t, Nothing)
        BY <2>1, <2>2, RespondEnds DEF Moves
    <2>3. CASE /\ job[t] \in InProgress
               /\ Remember(t, jobs[job[t]])
               /\ Goto(t, NextStep(jobs[job[t]]))
               /\ UNCHANGED <<job, expired>>
        <3>1. jobs[job[t]].error # "held"
            BY <2>3 DEF InProgress, DocsPlain, Plain
        <3>2. NextStep(jobs[job[t]]) \in Advancing
            BY DEF NextStep, Advancing
        <3>3. OthersWait(t)
            BY <2>3 DEF OthersWait, Goto, Remember, TypeOK, RequestsTypeOK
        <3>4. Takes(t)
            BY <2>1, <2>3, <3>1, <3>2 DEF Takes, Goto, Remember, TypeOK, RequestsTypeOK
        <3>5. QED BY <3>3, <3>4 DEF Moves
    <2>4. QED BY <1>10, <2>2, <2>3 DEF Load
<1>11. ASSUME \E h \in Hosts : Outsider(h) \/ Issue(h)
       PROVE  Rests
    BY <1>11 DEF Outsider, Issue, Rests, RowsStay, reqVars
<1>12. CASE UNCHANGED vars
    BY <1>12 DEF vars, Rests, RowsStay
<1>13. QED
    BY <1>1, <1>2, <1>3, <1>4, <1>5, <1>6, <1>7, <1>8, <1>9, <1>10, <1>11, <1>12, AdvancingMoves
    DEF Next, Continue

\* No step takes a row away or changes the instant it started at, and only a
\* commit adds one.
LEMMA RowsKept ==
    ASSUME TypeOK, TypeOK', RowsAppear, InstantsAgree, NEW t \in Tabs, Moves(t)
    PROVE  /\ \A j \in Visible : j \in Visible' /\ jobs'[j].started = jobs[j].started
           /\ \A j \in Visible' : j \in Visible \/ (Commits(t) /\ j = job[t])
           /\ ended \subseteq ended'
<1>1. CASE UNCHANGED <<jobs, ended>>
    BY <1>1 DEF Visible
<1>2. CASE Commits(t)
    <2>1. mem[t] \in Doc /\ job[t] \in JobIds /\ job[t] \notin Visible
        BY <1>2 DEF Commits, TypeOK, RequestsHaveWork, RowsAppear
    <2>2. jobs' = [jobs EXCEPT ![job[t]] = mem[t]] /\ ended' = ended
        BY <1>2 DEF Commits
    <2>3. QED BY <1>2, <2>1, <2>2, NoDocIsNoDoc DEF Visible, TypeOK, RowsTypeOK
<1>3. ASSUME NEW x \in Visible, NEW d \in Doc, d.started = jobs[x].started,
             jobs' = [jobs EXCEPT ![x] = d], ended \subseteq ended'
      PROVE  /\ \A j \in Visible : j \in Visible' /\ jobs'[j].started = jobs[j].started
             /\ \A j \in Visible' : j \in Visible
    BY <1>3, NoDocIsNoDoc DEF Visible, TypeOK, RowsTypeOK
<1>4. CASE Saves(t)
    <2>1. mem[t] \in Doc /\ job[t] \in Visible /\ mem[t].started = jobs[job[t]].started
        BY <1>4 DEF Saves, TypeOK, RequestsHaveWork, RowsAppear, InstantsAgree
    <2>2. jobs' = [jobs EXCEPT ![job[t]] = mem[t]] /\ ended \subseteq ended'
        BY <1>4 DEF Saves, EndedWith
    <2>3. QED BY <1>3, <2>1, <2>2
<1>5. CASE Abandons(t)
    <2>1. PICK row \in expired[t] :
              /\ jobs' = [jobs EXCEPT ![row[1]] = Abandoned(row[2], "expired")]
              /\ ended' = EndedWith(row[1], Abandoned(row[2], "expired"))
        BY <1>5 DEF Abandons
    <2>2. row[1] \in Visible /\ row[2] \in Doc /\ row[2].started = jobs[row[1]].started
        BY DEF TypeOK, RequestsTypeOK, RowsAppear, InstantsAgree
    <2>3. Abandoned(row[2], "expired") \in Doc
        BY <2>2, DocsStayDocs DEF Errors, Steps
    <2>4. Abandoned(row[2], "expired").started = row[2].started
        BY <2>2 DEF Abandoned, Doc
    <2>5. QED BY <1>3, <2>1, <2>2, <2>3, <2>4 DEF EndedWith
<1>6. QED
    BY <1>1, <1>2, <1>4, <1>5
    DEF Moves, Ends, Claims, Takes, Works, Inserts, Declines, RowsStay

\* Documents stay plain.
LEMMA PlainStep ==
    ASSUME TypeOK, Ready, DocsPlain, NEW t \in Tabs, Moves(t)
    PROVE  DocsPlain'
<1>1. \A u \in Tabs \ {t} : /\ mem'[u] # NoDoc => Plain(mem'[u])
                            /\ \A row \in expired'[u] : Plain(row[2])
    BY DEF Moves, OthersWait, DocsPlain, Plain
<1>2. /\ mem'[t] # NoDoc => Plain(mem'[t])
      /\ \A row \in expired'[t] : Plain(row[2])
    <2>1. CASE Declines(t)
        <3>1. mem[t] \in Doc
            BY <2>1, WorkedOnIsPlain DEF Declines
        <3>2. Plain(mem'[t])
            BY <2>1, <3>1 DEF Declines, Abandoned, Plain, Doc
        <3>3. QED BY <2>1, <3>2 DEF Declines, DocsPlain, Plain
    <2>2. CASE Claims(t)
        BY <2>2, ListedAreInProgress DEF Claims, DocsPlain, Plain, InProgress
    <2>3. QED
        BY <2>1, <2>2 DEF Moves, Ends, Takes, Works, Inserts, Commits, Abandons, Saves, DocsPlain, Plain
<1>3. \A j \in Visible' : Plain(jobs'[j])
    <2>1. CASE UNCHANGED jobs
        BY <2>1 DEF DocsPlain, Visible, Plain
    <2>2. ASSUME NEW x \in JobIds, NEW d \in Doc, Plain(d), jobs' = [jobs EXCEPT ![x] = d]
          PROVE  \A j \in Visible' : Plain(jobs'[j])
        BY <2>2 DEF DocsPlain, Visible, Plain, TypeOK, RowsTypeOK
    <2>3. CASE Commits(t) \/ Saves(t)
        <3>1. mem[t] \in Doc /\ job[t] \in JobIds /\ Plain(mem[t])
            BY <2>3, NoDocIsNoDoc DEF Commits, Saves, TypeOK, RequestsHaveWork, DocsPlain
        <3>2. jobs' = [jobs EXCEPT ![job[t]] = mem[t]]
            BY <2>3 DEF Commits, Saves
        <3>3. QED BY <2>2, <3>1, <3>2
    <2>4. CASE Abandons(t)
        <3>1. PICK row \in expired[t] : jobs' = [jobs EXCEPT ![row[1]] = Abandoned(row[2], "expired")]
            BY <2>4 DEF Abandons
        <3>2. row[1] \in JobIds /\ row[2] \in Doc
            BY DEF TypeOK, RequestsTypeOK
        <3>3. Abandoned(row[2], "expired") \in Doc
            BY <3>2, DocsStayDocs DEF Errors, Steps
        <3>4. Plain(Abandoned(row[2], "expired"))
            BY <3>2 DEF Abandoned, Plain, Doc
        <3>5. QED BY <2>2, <3>1, <3>2, <3>3, <3>4
    <2>5. QED
        BY <2>1, <2>3, <2>4
        DEF Moves, Ends, Claims, Takes, Works, Inserts, Declines, RowsStay
<1>4. QED BY <1>1, <1>2, <1>3 DEF DocsPlain, Plain

\* Whether a request is on its way from its INSERT to its answer only depends on
\* its own place and copy.
LEMMA OthersStart ==
    ASSUME NEW t \in Tabs, OthersWait(t)
    PROVE  \A u \in Tabs \ {t} : /\ Starting(u)' <=> Starting(u)
                                 /\ StandingDown(u)' <=> StandingDown(u)
BY DEF OthersWait, Starting, StandingDown

\* What a move makes of its own start.
LEMMA OwnStart ==
    ASSUME TypeOK, Ready, DocsPlain, NEW t \in Tabs, Moves(t)
    PROVE  /\ Starting(t)' => Inserts(t) \/ Commits(t) \/ Declines(t)
           /\ StandingDown(t)' => Declines(t)
<1>1. CASE Ends(t) \/ Claims(t) \/ Takes(t) \/ Works(t) \/ Abandons(t) \/ Saves(t)
    BY <1>1 DEF Ends, Claims, Takes, Works, Abandons, Saves, Starting, StandingDown, Advancing
<1>2. CASE Inserts(t) \/ Commits(t)
    BY <1>2 DEF Inserts, Commits, Starting, StandingDown
<1>3. CASE Declines(t)
    <2>1. mem[t] \in Doc
        BY <1>3, WorkedOnIsPlain DEF Declines
    <2>2. mem'[t].error = "held"
        BY <1>3, <2>1 DEF Declines, Abandoned, Doc
    <2>3. QED BY <1>3, <2>2 DEF Declines, Starting, StandingDown
<1>4. QED BY <1>1, <1>2, <1>3 DEF Moves

\* Rows appear at their commit, and starts keep apart.
LEMMA AppearStep ==
    ASSUME TypeOK, TypeOK', Ready, DocsPlain, RowsAppear, InstantsAgree, NEW t \in Tabs, Moves(t)
    PROVE  RowsAppear'
<1> DEFINE Before == {"idle", "claim", "check", "insert", "commit"}
<1>1. nextId \in Nat /\ nextId' \in {nextId, nextId + 1} /\ nextId # 0
    BY DEF Moves, Ends, Claims, Takes, Works, Inserts, Commits, Declines, Abandons, Saves,
           RowsStay, TypeOK, RowsTypeOK
<1>2. \A j \in JobIds : j \in Nat
    BY ConstantsAssumption
<1>3. \A j \in Visible : j < nextId /\ j \in JobIds /\ j \in Visible'
    BY RowsKept DEF RowsAppear, Visible
<1>4. Starting(t)' => Inserts(t) \/ Commits(t) \/ Declines(t)
    BY OwnStart
<1>5. \A j \in Visible' : j < nextId'
    <2> SUFFICES ASSUME NEW j \in Visible' PROVE j < nextId'
        OBVIOUS
    <2>1. j \in JobIds /\ (j \in Visible \/ j = job[t])
        BY RowsKept DEF Visible
    <2>2. j < nextId
        BY <2>1 DEF RowsAppear
    <2>3. QED BY <1>1, <1>2, <2>1, <2>2
<1>6. ASSUME NEW u \in Tabs, job'[u] = job[u] \/ job'[u] = 0 \/ job'[u] \in Visible
      PROVE  job'[u] < nextId'
    <2>1. job'[u] \in Nat /\ job[u] < nextId /\ job[u] \in Nat
        BY <1>2 DEF TypeOK, RequestsTypeOK, RowsAppear
    <2>2. job'[u] < nextId
        BY <1>1, <1>3, <1>6, <2>1
    <2>3. QED BY <1>1, <2>1, <2>2
<1>7. ASSUME NEW u \in Tabs \ {t}
      PROVE  /\ job'[u] < nextId'
             /\ pc'[u] = "commit" => job'[u] \notin Visible'
             /\ pc'[u] \notin Before => job'[u] \in Visible'
             /\ Starting(t)' /\ Starting(u)' => job'[t] # job'[u]
             /\ \A row \in expired'[u] : row[1] \in Visible'
    <2>1. pc'[u] = pc[u] /\ job'[u] = job[u] /\ expired'[u] = expired[u]
        BY DEF Moves, OthersWait
    <2>2. job'[u] < nextId'
        BY <1>6, <2>1
    <2>3. ASSUME pc'[u] = "commit" PROVE job'[u] \notin Visible'
        <3>1. job[u] \notin Visible
            BY <2>1, <2>3 DEF RowsAppear
        <3>2. Commits(t) => job[u] # job[t]
            BY <2>1, <2>3 DEF Commits, RowsAppear, Starting
        <3>3. QED BY <2>1, <3>1, <3>2, RowsKept
    <2>4. pc'[u] \notin Before => job'[u] \in Visible'
        BY <1>3, <2>1 DEF RowsAppear
    <2>5. ASSUME Starting(t)', Starting(u)' PROVE job'[t] # job'[u]
        <3>1. Starting(u)
            BY <2>5, OthersStart DEF Moves
        <3>2. CASE Inserts(t)
            <4>1. job'[t] = nextId /\ job[u] < nextId /\ job[u] \in Nat
                BY <3>2, <1>2 DEF Inserts, RowsAppear, TypeOK, RequestsTypeOK
            <4>2. QED BY <1>1, <2>1, <4>1
        <3>3. CASE Commits(t) \/ Declines(t)
            BY <2>1, <3>1, <3>3 DEF Commits, Declines, RowsAppear, Starting
        <3>4. QED BY <1>4, <2>5, <3>2, <3>3
    <2>6. \A row \in expired'[u] : row[1] \in Visible'
        BY <1>3, <2>1 DEF RowsAppear
    <2>7. QED BY <2>2, <2>3, <2>4, <2>5, <2>6
<1>8. /\ job'[t] < nextId'
      /\ pc'[t] = "commit" => job'[t] \notin Visible'
      /\ pc'[t] \notin Before => job'[t] \in Visible'
    <2>1. CASE Inserts(t)
        <3>1. job'[t] = nextId /\ nextId' = nextId + 1 /\ Visible' = Visible /\ pc'[t] = "commit"
            BY <2>1 DEF Inserts, Visible
        <3>2. nextId \notin Visible
            BY <1>1, <1>3
        <3>3. QED BY <1>1, <3>1, <3>2
    <2>2. CASE Commits(t)
        <3>1. job[t] \in Visible'
            <4>1. mem[t] \in Doc /\ job[t] \in JobIds
                BY <2>2 DEF Commits, TypeOK, RequestsHaveWork
            <4>2. QED BY <2>2, <4>1, NoDocIsNoDoc DEF Commits, Visible, TypeOK, RowsTypeOK
        <3>2. QED BY <1>6, <2>2, <3>1 DEF Commits
    <2>3. CASE Ends(t) \/ Saves(t) \/ Claims(t) \/ Abandons(t)
        BY <1>6, <2>3 DEF Ends, Saves, Claims, Abandons
    <2>4. CASE Takes(t)
        BY <1>3, <1>6, <2>4 DEF Takes, InProgress, Advancing
    <2>5. CASE Works(t) \/ Declines(t)
        <3>1. pc[t] = "check" \/ job[t] \in Visible
            BY <2>5 DEF Works, Declines, RowsAppear, Advancing
        <3>2. QED BY <1>3, <1>6, <2>5, <3>1 DEF Works, Declines, Advancing
    <2>6. QED BY <2>1, <2>2, <2>3, <2>4, <2>5 DEF Moves
<1>9. \A row \in expired'[t] : row[1] \in Visible'
    <2>1. \A row \in expired'[t] : row[1] \in Visible
        BY ListedAreInProgress DEF Moves, Ends, Claims, Takes, Works, Inserts, Commits, Declines, Abandons, Saves,
               InProgress, RowsAppear
    <2>2. QED BY <1>3, <2>1
<1>10. \A u, v \in Tabs : u # v /\ u # t /\ v # t /\ Starting(u)' /\ Starting(v)' => job'[u] # job'[v]
    BY OthersStart DEF Moves, OthersWait, RowsAppear
<1>11. QED BY <1>5, <1>7, <1>8, <1>9, <1>10 DEF RowsAppear

\* Rows, copies and the clock keep agreeing on the instants.
LEMMA InstantsStep ==
    ASSUME TypeOK, TypeOK', Ready, DocsPlain, RowsAppear, RowsAppear', InstantsAgree,
           NEW t \in Tabs, Moves(t)
    PROVE  InstantsAgree'
<1> DEFINE Early == {"idle", "claim", "check", "insert", "commit", "load"}
<1>1. clock' = clock /\ clock \in Nat
    BY DEF Moves, Ends, Claims, Takes, Works, Inserts, Commits, Declines, Abandons, Saves,
           RowsStay, TypeOK, RowsTypeOK
<1>2. ASSUME Commits(t)
      PROVE  /\ mem[t] \in Doc /\ job[t] \in JobIds
             /\ jobs'[job[t]] = mem[t] /\ mem[t].started = clock
    BY <1>2 DEF Commits, TypeOK, RequestsHaveWork, RowsTypeOK, InstantsAgree, Starting
<1>3. \A j \in Visible' : jobs'[j].started <= clock'
    <2> SUFFICES ASSUME NEW j \in Visible' PROVE jobs'[j].started <= clock'
        OBVIOUS
    <2>1. CASE j \in Visible
        BY <1>1, <2>1, RowsKept DEF InstantsAgree
    <2>2. CASE Commits(t) /\ j = job[t]
        BY <1>1, <1>2, <2>2
    <2>3. QED BY <2>1, <2>2, RowsKept
<1>4. ASSUME NEW u \in Tabs \ {t}
      PROVE  /\ pc'[u] \notin Early => mem'[u].started = jobs'[job'[u]].started
             /\ Starting(u)' => mem'[u].started = clock'
             /\ \A row \in expired'[u] : row[2].started = jobs'[row[1]].started
    <2>1. pc'[u] = pc[u] /\ job'[u] = job[u] /\ mem'[u] = mem[u] /\ expired'[u] = expired[u]
        BY DEF Moves, OthersWait
    <2>2. pc[u] \notin Early => job[u] \in Visible
        BY DEF RowsAppear
    <2>3. pc'[u] \notin Early => mem'[u].started = jobs'[job'[u]].started
        BY <2>1, <2>2, RowsKept DEF InstantsAgree
    <2>4. Starting(u)' => mem'[u].started = clock'
        BY <1>1, <2>1, OthersStart DEF Moves, InstantsAgree
    <2>5. \A row \in expired'[u] : row[2].started = jobs'[row[1]].started
        BY <2>1, RowsKept DEF InstantsAgree, RowsAppear
    <2>6. QED BY <2>3, <2>4, <2>5
<1>5. pc'[t] \notin Early => mem'[t].started = jobs'[job'[t]].started
    <2>1. CASE Takes(t)
        BY <2>1, RowsKept DEF Takes, InProgress
    <2>2. CASE Works(t)
        <3>1. pc'[t] \notin Early => pc[t] \in Advancing
            BY <2>2 DEF Works
        <3>2. pc[t] \in Advancing => job[t] \in Visible /\ mem[t].started = jobs[job[t]].started
            BY DEF Advancing, RowsAppear, InstantsAgree
        <3>3. QED BY <2>2, <3>1, <3>2, RowsKept DEF Works
    <2>3. CASE Commits(t)
        BY <1>2, <2>3 DEF Commits
    <2>4. CASE Declines(t)
        <3>1. mem[t] \in Doc /\ job[t] \in Visible /\ mem[t].started = jobs[job[t]].started
            BY <2>4, WorkedOnIsPlain DEF Declines, RowsAppear, InstantsAgree
        <3>2. mem'[t].started = mem[t].started /\ job'[t] = job[t]
            BY <2>4, <3>1 DEF Declines, Abandoned, Doc
        <3>3. QED BY <3>1, <3>2, RowsKept
    <2>5. CASE Ends(t) \/ Claims(t) \/ Inserts(t) \/ Abandons(t) \/ Saves(t)
        BY <2>5 DEF Ends, Claims, Inserts, Abandons, Saves
    <2>6. QED BY <2>1, <2>2, <2>3, <2>4, <2>5 DEF Moves
<1>6. Starting(t)' => mem'[t].started = clock'
    <2>1. CASE Inserts(t)
        BY <1>1, <2>1 DEF Inserts
    <2>2. CASE Commits(t)
        BY <1>1, <1>2, <2>2 DEF Commits
    <2>3. CASE Declines(t)
        <3>1. mem[t] \in Doc /\ mem[t].started = clock
            BY <2>3, WorkedOnIsPlain DEF Declines, InstantsAgree, Starting
        <3>2. mem'[t].started = mem[t].started
            BY <2>3, <3>1 DEF Declines, Abandoned, Doc
        <3>3. QED BY <1>1, <3>1, <3>2
    <2>4. QED BY <2>1, <2>2, <2>3, OwnStart
<1>7. \A row \in expired'[t] : row[2].started = jobs'[row[1]].started
    <2>1. \A row \in expired'[t] : row[1] \in Visible /\ row[2].started = jobs[row[1]].started
        BY ListedAreInProgress DEF Moves, Ends, Claims, Takes, Works, Inserts, Commits, Declines, Abandons, Saves,
               InProgress, RowsAppear, InstantsAgree
    <2>2. QED BY <2>1, RowsKept
<1>8. QED BY <1>3, <1>4, <1>5, <1>6, <1>7 DEF InstantsAgree

\* Whatever takes a contending job out of progress ends it.
LEMMA EndsStep ==
    ASSUME TypeOK, TypeOK', Ready, DocsPlain, RowsAppear, InstantsAgree, EndsAreKnown,
           NEW t \in Tabs, Moves(t)
    PROVE  EndsAreKnown'
<1> SUFFICES ASSUME NEW u \in Tabs, pc'[u] = "contend"
             PROVE  jobs'[job'[u]].state = "in_progress" \/ job'[u] \in ended'
    BY DEF EndsAreKnown
<1>1. CASE u = t
    <2>1. Commits(t)
        BY <1>1 DEF Moves, Ends, Claims, Takes, Works, Inserts, Declines, Abandons, Saves, Advancing
    <2>2. mem[t].state = "in_progress" /\ job[t] \in JobIds
        BY <2>1 DEF Commits, Ready, ReadyAt, TypeOK, RequestsHaveWork
    <2>3. QED BY <1>1, <2>1, <2>2 DEF Commits, TypeOK, RowsTypeOK
<1>2. CASE u # t
    <2>1. pc[u] = "contend" /\ job'[u] = job[u] /\ job[u] \in Visible /\ Starting(u)
        BY <1>2 DEF Moves, OthersWait, RowsAppear, Starting
    <2>2. jobs[job[u]].state = "in_progress" \/ job[u] \in ended
        BY <2>1 DEF EndsAreKnown
    <2>3. CASE UNCHANGED <<jobs, ended>>
        BY <2>1, <2>2, <2>3
    <2>4. CASE Commits(t)
        <3>1. job[t] # job[u]
            BY <1>2, <2>1, <2>4 DEF Commits, RowsAppear, Starting
        <3>2. jobs'[job[u]] = jobs[job[u]] /\ ended' = ended
            BY <2>1, <2>4, <3>1 DEF Commits, TypeOK, RowsTypeOK, Visible
        <3>3. QED BY <2>1, <2>2, <3>2
    <2>5. CASE Saves(t)
        <3>1. CASE job[t] # job[u]
            <4>1. jobs'[job[u]] = jobs[job[u]] /\ ended \subseteq ended'
                BY <2>1, <2>5, <3>1 DEF Saves, EndedWith, TypeOK, RowsTypeOK, Visible
            <4>2. QED BY <2>1, <2>2, <4>1
        <3>2. CASE job[t] = job[u]
            <4>1. jobs'[job[u]] = mem[t]
                BY <2>1, <2>5, <3>2 DEF Saves, TypeOK, RowsTypeOK, Visible
            <4>2. mem[t].error # "held"
                BY <1>2, <2>1, <2>5, <3>2 DEF Saves, RowsAppear, Starting, StandingDown
            <4>3. QED BY <2>1, <2>5, <3>2, <4>1, <4>2 DEF Saves, Over, EndedWith
        <3>3. QED BY <3>1, <3>2
    <2>6. CASE Abandons(t)
        <3>1. PICK row \in expired[t] :
                  /\ jobs' = [jobs EXCEPT ![row[1]] = Abandoned(row[2], "expired")]
                  /\ ended' = EndedWith(row[1], Abandoned(row[2], "expired"))
            BY <2>6 DEF Abandons
        <3>2. CASE row[1] = job[u]
            <4>1. Over(Abandoned(row[2], "expired"))
                BY DEF TypeOK, RequestsTypeOK, Abandoned, Over, Doc
            <4>2. QED BY <2>1, <3>1, <3>2, <4>1 DEF EndedWith
        <3>3. CASE row[1] # job[u]
            <4>1. jobs'[job[u]] = jobs[job[u]]
                BY <2>1, <3>1, <3>3 DEF TypeOK, RowsTypeOK, Visible
            <4>2. QED BY <2>1, <2>2, <3>1, <4>1 DEF EndedWith
        <3>4. QED BY <3>2, <3>3
    <2>7. QED
        BY <2>3, <2>4, <2>5, <2>6
        DEF Moves, Ends, Claims, Takes, Works, Inserts, Declines, RowsStay
<1>3. QED BY <1>1, <1>2

\* Only the tie-break makes a job stand down.
LEMMA OnlyTieBreak ==
    ASSUME TypeOK, TypeOK', Ready, DocsPlain, RowsAppear, InstantsAgree,
           NEW t \in Tabs, Moves(t), NEW j \in Visible', StoodDown(j)'
    PROVE  j \in Visible /\ (StoodDown(j) \/ (Declines(t) /\ j = job[t]))
<1>1. j \in JobIds /\ (j \in Visible \/ (Commits(t) /\ j = job[t]))
    BY RowsKept DEF Visible
<1>2. ASSUME NEW u \in Tabs \ {t}, StandingDown(u)', job'[u] = j
      PROVE  StandingDown(u) /\ job[u] = j /\ j \in Visible
    <2>1. StandingDown(u) /\ job[u] = j
        BY <1>2, OthersStart DEF Moves, OthersWait
    <2>2. job[u] \in Visible
        BY <2>1 DEF StandingDown, RowsAppear
    <2>3. QED BY <2>1, <2>2
<1>3. ASSUME StandingDown(t)', job'[t] = j
      PROVE  Declines(t) /\ j = job[t] /\ j \in Visible
    <2>1. Declines(t) /\ j = job[t]
        BY <1>3, OwnStart DEF Declines
    <2>2. QED BY <2>1 DEF Declines, RowsAppear
<1>4. ASSUME jobs'[j].error = "held"
      PROVE  j \in Visible /\ StoodDown(j)
    <2>1. CASE jobs'[j] = jobs[j]
        <3>1. j \in Visible
            BY <2>1 DEF Visible
        <3>2. QED BY <1>4, <2>1, <3>1 DEF StoodDown
    <2>2. CASE Commits(t)
        <3>1. mem[t].error # "held"
            BY <2>2, WorkedOnIsPlain DEF Commits
        <3>2. jobs'[j] = jobs[j]
            BY <1>1, <1>4, <2>2, <3>1 DEF Commits, TypeOK, RowsTypeOK
        <3>3. QED BY <2>1, <3>2
    <2>3. CASE Saves(t)
        <3>1. CASE j = job[t]
            <4>1. mem[t].error = "held"
                BY <1>1, <1>4, <2>3, <3>1 DEF Saves, TypeOK, RowsTypeOK
            <4>2. StandingDown(t) /\ job[t] \in Visible
                BY <2>3, <4>1 DEF Saves, StandingDown, RowsAppear
            <4>3. QED BY <3>1, <4>2 DEF StoodDown
        <3>2. CASE j # job[t]
            <4>1. jobs'[j] = jobs[j]
                BY <1>1, <2>3, <3>2 DEF Saves, TypeOK, RowsTypeOK
            <4>2. QED BY <2>1, <4>1
        <3>3. QED BY <3>1, <3>2
    <2>4. CASE Abandons(t)
        <3>1. PICK row \in expired[t] : jobs' = [jobs EXCEPT ![row[1]] = Abandoned(row[2], "expired")]
            BY <2>4 DEF Abandons
        <3>2. row[1] \in JobIds /\ row[2] \in Doc
            BY DEF TypeOK, RequestsTypeOK
        <3>3. Abandoned(row[2], "expired").error = "expired"
            BY <3>2 DEF Abandoned, Doc
        <3>4. jobs'[j] = jobs[j]
            BY <1>1, <1>4, <3>1, <3>2, <3>3 DEF TypeOK, RowsTypeOK
        <3>5. QED BY <2>1, <3>4
    <2>5. QED
        BY <2>1, <2>2, <2>3, <2>4
        DEF Moves, Ends, Claims, Takes, Works, Inserts, Declines, RowsStay
<1>5. PICK u \in Tabs : jobs'[j].error = "held" \/ (StandingDown(u)' /\ job'[u] = j)
    BY DEF StoodDown
<1>6. CASE jobs'[j].error = "held"
    BY <1>4, <1>6
<1>7. CASE StandingDown(u)' /\ job'[u] = j
    BY <1>2, <1>3, <1>7 DEF StoodDown
<1>8. QED BY <1>5, <1>6, <1>7

\* The instants of visible rows are numbers, and so are their ids.
LEMMA Instants ==
    ASSUME TypeOK
    PROVE  /\ \A j \in Visible : j \in Nat /\ jobs[j].started \in Nat
           /\ TTL \in Nat /\ TTL > 0 /\ clock \in Nat
BY ConstantsAssumption DEF TypeOK, RowsTypeOK, Visible, Doc

\* Being older is a strict order of the visible rows.
LEMMA OlderOrders ==
    ASSUME TypeOK, NEW i \in Visible, NEW j \in Visible, NEW k \in Visible,
           Older(i, j), Older(j, k)
    PROVE  Older(i, k) /\ i # k
<1>1. /\ i \in Nat /\ j \in Nat /\ k \in Nat
      /\ jobs[i].started \in Nat /\ jobs[j].started \in Nat /\ jobs[k].started \in Nat
    BY Instants
<1>2. QED BY <1>1 DEF Older

\* A list that is long enough holds every job in progress.
LEMMA AllAreListed ==
    ASSUME TypeOK, FitsTheList
    PROVE  InFlight = InProgress
<1> SUFFICES ASSUME NEW j \in InProgress
             PROVE  Cardinality({k \in InProgress : Older(j, k)}) < Listed
    BY DEF InFlight
<1> DEFINE Newer == {k \in InProgress : Older(j, k)}
<1>1. Newer \subseteq InProgress \ {j}
    <2>1. j \in Visible
        BY DEF InProgress
    <2>2. ~Older(j, j)
        BY <2>1, OlderOrders
    <2>3. QED BY <2>2
<1>2. /\ IsFiniteSet(InProgress \ {j})
      /\ Cardinality(InProgress \ {j}) = Cardinality(InProgress) - 1
    BY FS_RemoveElement DEF FitsTheList
<1>3. Cardinality(Newer) <= Cardinality(InProgress \ {j})
    BY <1>1, <1>2, FS_Subset
<1>4. Cardinality(Newer) \in Nat /\ Cardinality(InProgress) \in Nat
    BY <1>1, <1>2, FS_Subset, FS_CardinalityType DEF FitsTheList
<1>5. QED BY <1>2, <1>3, <1>4, ConstantsAssumption DEF FitsTheList

\* The job that a start stands down for, or one that job stood down for in the
\* same instant, remains; or the start's own job has come to an end already.
LEMMA TieBreakFinds ==
    ASSUME TypeOK, Ready, DocsPlain, RowsAppear, InstantsAgree, EndsAreKnown, SomeoneStands, FitsTheList,
           NEW t \in Tabs, Declines(t)
    PROVE  /\ job[t] \in Visible /\ jobs[job[t]].started = clock
           /\ \/ job[t] \in ended
              \/ \E k \in Visible \ {job[t]} :
                    /\ k \in ended \/ (~StoodDown(k) /\ Older(k, job[t]))
                    /\ clock < jobs[k].started + TTL
<1> DEFINE j == job[t]
<1>1. j \in Visible /\ pc[t] = "contend" /\ StandsDown(j)
    BY DEF Declines, RowsAppear
<1>2. jobs[j].started = clock
    BY <1>1 DEF InstantsAgree, Starting
<1>3. PICK w \in Contenders : w # j /\ \A k \in Contenders \ {w} : Older(w, k)
    BY <1>1 DEF StandsDown
<1>4. w \in Visible /\ w \in InFlight /\ clock < jobs[w].started + TTL
    <2>1. w \in Visible /\ w \in InFlight /\ clock - jobs[w].started < TTL
        BY ListedAreInProgress DEF Contenders, InProgress, Fresh
    <2>2. jobs[w].started \in Nat /\ clock \in Nat /\ TTL \in Nat
        BY <2>1, Instants
    <2>3. QED BY <2>1, <2>2
<1>5. CASE j \notin Contenders
    <2>1. Fresh(j)
        BY <1>2, Instants DEF Fresh
    <2>2. jobs[j].state # "in_progress"
        BY <1>1, <1>5, <2>1, AllAreListed DEF Contenders, InProgress
    <2>3. QED BY <1>1, <1>2, <2>2 DEF EndsAreKnown
<1>6. CASE j \in Contenders /\ ~StoodDown(w)
    BY <1>1, <1>2, <1>3, <1>4, <1>6
<1>7. CASE j \in Contenders /\ StoodDown(w)
    <2>1. Older(w, j)
        BY <1>3, <1>7
    <2>2. jobs[w].error # "held"
        BY <1>4, ListedAreInProgress DEF InProgress, DocsPlain, Plain
    <2>3. PICK u \in Tabs : StandingDown(u) /\ job[u] = w
        BY <1>7, <2>2 DEF StoodDown
    <2>4. jobs[w].started = clock
        BY <2>3 DEF StandingDown, Starting, InstantsAgree
    <2>5. PICK k \in Visible : StandsFor(k, w)
        BY <1>4, <1>7 DEF SomeoneStands
    <2>6. CASE k = j
        <3>1. ~Older(j, w)
            BY <1>1, <1>4, <2>1, OlderOrders
        <3>2. QED BY <1>1, <1>2, <2>5, <2>6, <3>1 DEF StandsFor
    <2>7. CASE k # j
        BY <1>1, <1>2, <1>4, <2>1, <2>4, <2>5, <2>7, OlderOrders DEF StandsFor
    <2>8. QED BY <2>6, <2>7
<1>8. QED BY <1>5, <1>6, <1>7

\* For every job that stood down there remains one it may have stood down for.
LEMMA StandsStep ==
    ASSUME TypeOK, TypeOK', Ready, DocsPlain, RowsAppear, InstantsAgree, EndsAreKnown,
           SomeoneStands, FitsTheList, NEW t \in Tabs, Moves(t)
    PROVE  SomeoneStands'
<1> SUFFICES ASSUME NEW j \in Visible', StoodDown(j)'
             PROVE  \E k \in Visible' : StandsFor(k, j)'
    BY DEF SomeoneStands
<1>1. j \in Visible /\ (StoodDown(j) \/ (Declines(t) /\ j = job[t]))
    BY OnlyTieBreak
<1>2. ASSUME NEW k \in Visible, StandsFor(k, j),
             k \in ended \/ ~(Declines(t) /\ k = job[t])
      PROVE  k \in Visible' /\ StandsFor(k, j)'
    <2>1. /\ k \in Visible' /\ jobs'[k].started = jobs[k].started
          /\ jobs'[j].started = jobs[j].started
          /\ ended \subseteq ended'
        BY <1>1, RowsKept
    <2>2. k \notin ended => ~StoodDown(k)'
        BY <1>2, <2>1, OnlyTieBreak DEF StandsFor
    <2>3. QED BY <1>2, <2>1, <2>2 DEF StandsFor, Older
<1>3. CASE StoodDown(j) /\ ~Declines(t)
    BY <1>1, <1>2, <1>3 DEF SomeoneStands
<1>4. CASE Declines(t)
    <2> DEFINE i == job[t]
    <2>1. i \in Visible /\ jobs[i].started = clock
        BY <1>4, TieBreakFinds
    <2>2. CASE i \in ended
        <3>1. CASE StoodDown(j)
            BY <1>1, <1>2, <2>2, <3>1 DEF SomeoneStands
        <3>2. CASE j = i
            <4>1. StandsFor(i, j)
                BY <2>1, <2>2, <3>2, Instants DEF StandsFor
            <4>2. QED BY <1>2, <2>1, <2>2, <4>1
        <3>3. QED BY <1>1, <3>1, <3>2
    <2>3. CASE i \notin ended
        <3>1. PICK k \in Visible \ {i} :
                  /\ k \in ended \/ (~StoodDown(k) /\ Older(k, i))
                  /\ clock < jobs[k].started + TTL
            BY <1>4, <2>3, TieBreakFinds
        <3>2. CASE j = i
            <4>1. StandsFor(k, j)
                BY <2>1, <3>1, <3>2 DEF StandsFor
            <4>2. QED BY <1>2, <3>1, <4>1
        <3>3. CASE j # i
            <4>1. PICK m \in Visible : StandsFor(m, j)
                BY <1>1, <3>3 DEF SomeoneStands
            <4>2. CASE m # i
                BY <1>2, <4>1, <4>2
            <4>3. CASE m = i
                <5>1. Older(i, j)
                    BY <2>3, <4>1, <4>3 DEF StandsFor
                <5>2. jobs[j].started = clock
                    <6>1. jobs[j].started <= clock /\ jobs[j].started \in Nat /\ clock \in Nat
                        BY <1>1, Instants DEF InstantsAgree
                    <6>2. QED BY <2>1, <5>1, <6>1 DEF Older
                <5>3. Older(k, i) => Older(k, j)
                    BY <1>1, <2>1, <3>1, <5>1, OlderOrders
                <5>4. StandsFor(k, j)
                    BY <3>1, <5>2, <5>3 DEF StandsFor
                <5>5. QED BY <1>2, <3>1, <5>4
            <4>4. QED BY <4>2, <4>3
        <3>4. QED BY <3>2, <3>3
    <2>4. QED BY <2>2, <2>3
<1>5. QED BY <1>1, <1>3, <1>4

\* TInv is kept by every step, as long as the list is long enough.
LEMMA TieBreakStep ==
    IInv /\ IInv' /\ TInv /\ FitsTheList /\ [Next]_vars => TInv'
<1> SUFFICES ASSUME IInv, IInv', TInv, FitsTheList, [Next]_vars PROVE TInv'
    OBVIOUS
<1> USE DEF IInv, TInv
<1>1. ASSUME NEW t \in Tabs, Moves(t) PROVE TInv'
    <2>1. DocsPlain'
        BY <1>1, PlainStep
    <2>2. RowsAppear'
        BY <1>1, AppearStep
    <2>3. InstantsAgree'
        BY <1>1, <2>2, InstantsStep
    <2>4. EndsAreKnown'
        BY <1>1, EndsStep
    <2>5. SomeoneStands'
        BY <1>1, StandsStep
    <2>6. QED BY <2>1, <2>2, <2>3, <2>4, <2>5
<1>2. ASSUME UNCHANGED <<jobs, ended, nextId, pc, job, mem, expired>>,
             clock' = clock \/ (clock' = clock + 1 /\ \A t \in Tabs : ~Starting(t))
      PROVE  TInv'
    <2>1. DocsPlain'
        BY <1>2 DEF DocsPlain, Visible, Plain
    <2>2. RowsAppear'
        BY <1>2 DEF RowsAppear, Visible, Starting, StandingDown
    <2>3. InstantsAgree'
        <3>1. \A j \in Visible : jobs[j].started <= clock'
            BY <1>2, Instants DEF InstantsAgree
        <3>2. \A t \in Tabs : Starting(t) => mem[t].started = clock'
            BY <1>2 DEF InstantsAgree
        <3>3. QED
            BY <1>2, <3>1, <3>2 DEF InstantsAgree, Visible, Starting, StandingDown
    <2>4. EndsAreKnown'
        BY <1>2 DEF EndsAreKnown
    <2>5. SomeoneStands'
        BY <1>2 DEF SomeoneStands, StandsFor, Visible, StoodDown, StandingDown, Older
    <2>6. QED BY <2>1, <2>2, <2>3, <2>4, <2>5
<1>3. CASE Rests
    BY <1>2, <1>3 DEF Rests, RowsStay
<1>4. CASE Tick
    BY <1>2, <1>4 DEF Tick, reqVars, Starting
<1>5. QED BY <1>1, <1>3, <1>4, StepMoves

-----------------------------------------------------------------------------
(* The theorems.                                                           *)

\* IInv holds at first and every step keeps it.
THEOREM Inductive == Spec => []IInv
<1>1. Init => IInv
    <2> SUFFICES ASSUME Init PROVE IInv
        OBVIOUS
    <2>1. TypeOK
        BY InitTypes
    <2>2. RowsHonest /\ CopiesHonest /\ ExpiredHonest
        BY DEF Init, RowsHonest, Visible, CopiesHonest, ExpiredHonest
    <2>3. Ready /\ HeldIsThere
        BY DEF Init, Ready, ReadyAt, HeldIsThere, HeldAt
    <2>4. QED BY <2>1, <2>2, <2>3 DEF IInv
<1>2. IInv /\ [Next]_vars => IInv'
    BY TypeStep, WorldStep, RowsStep, CopiesStep, ExpiredStep, ReadyStep, HeldStep DEF IInv
<1>3. QED BY <1>1, <1>2, PTL DEF Spec

\* A row that says done belongs to a host every step was carried out for, however
\* many requests write stale documents over one another (provisioning.server.ts,
\* save and stepRecord).
THEOREM DoneIsAlwaysRecorded == Spec => []DoneIsRecorded
<1>1. IInv => DoneIsRecorded
    BY DEF IInv, RowsHonest, Honest, DoneIsRecorded
<1>2. QED BY <1>1, Inductive, PTL

\* A host whose row says the DNS step is ok points here for as long as nobody
\* else changes its records (stepDns's delete, create and TXT).
THEOREM DnsOkAlwaysPointed == Spec => []DnsOkMeansPointed
<1>1. IInv => DnsOkMeansPointed
    BY DEF IInv, RowsHonest, Honest, DnsOkMeansPointed
<1>2. QED BY <1>1, Inductive, PTL

\* The panel keeps what it promised the zone's owner: Provisioning implements
\* ZoneGuard.
THEOREM KeepsZonePromise == Spec => ZonePromise
<1>1. Init => Guard!Init
    <2>1. Found \subseteq Records
        BY ConstantsAssumption DEF Records
    <2>2. QED BY <2>1 DEF Init, Guard!Init, Records, Guard!Records
<1>2. IInv /\ [Next]_vars => [Guard!Next]_<<zone, edits>>
    BY ZoneStep DEF IInv
<1>3. QED BY <1>1, <1>2, Inductive, PTL DEF Spec, ZonePromise, Guard!Spec

\* The tie-break never makes every contender stand down: for a job that stood down
\* there is one, less than the TTL older, that did not, or that somebody ended
\* before its own start came to it (startProvision in provisioning.server.ts), as
\* long as no more jobs are in progress at once than inFlightJobs lists.
THEOREM OneAlwaysRemains == Spec /\ []FitsTheList => []TieBreakLeavesOne
<1>1. Init => TInv
    <2> SUFFICES ASSUME Init PROVE TInv
        OBVIOUS
    <2>1. Visible = {} /\ \A t \in Tabs : pc[t] = "idle" /\ mem[t] = NoDoc /\ job[t] = 0 /\ expired[t] = {}
        BY DEF Init, Visible
    <2>2. DocsPlain /\ EndsAreKnown /\ SomeoneStands
        BY <2>1 DEF DocsPlain, EndsAreKnown, SomeoneStands
    <2>3. \A t \in Tabs : ~Starting(t)
        BY <2>1 DEF Starting, StandingDown
    <2>4. RowsAppear
        BY <2>1, <2>3 DEF Init, RowsAppear
    <2>5. InstantsAgree
        BY <2>1, <2>3 DEF InstantsAgree
    <2>6. QED BY <2>2, <2>4, <2>5 DEF TInv
<1>2. TInv => TieBreakLeavesOne
    BY DEF TInv, SomeoneStands, StandsFor, TieBreakLeavesOne
<1>3. QED BY <1>1, <1>2, TieBreakStep, Inductive, PTL DEF Spec
=============================================================================
