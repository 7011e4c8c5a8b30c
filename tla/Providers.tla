------------------------------ MODULE Providers ------------------------------
(***************************************************************************)
(* The two providers as the hosted installer hears them                    *)
(* (setup/src/railway.mjs, setup/src/cloudflare.mjs): the answers a call   *)
(* may get, the failure code each is turned into, and what the installer   *)
(* then believes was made, deleted or proved.                              *)
(***************************************************************************)
EXTENDS Naturals, Sequences, FiniteSets

-----------------------------------------------------------------------------
(* Railway.  A reply has a status, the kind of the errors it lists, and    *)
(* the data: "empty" carries no identifier, "bare" no records.             *)

Reply(status, errors, data) == [status |-> status, errors |-> errors, data |-> data]
Silence == Reply(0, "none", "none")

Classify(reply) ==
    CASE reply.status \in {401, 403} -> "railway_token_invalid"
      [] reply.status = 429          -> "railway_rate_limited"
      [] reply.status \notin {401, 403, 429} ->
            CASE reply.errors = "unauthorised" -> "railway_token_invalid"
              [] reply.errors = "rate limit"   -> "railway_rate_limited"
              [] reply.errors \in {"none", "other"} -> "railway_api_failed"

\* "ok", or the code of the failure.
Graphql(reply) ==
    CASE reply = Silence -> "railway_unreachable"
      [] reply # Silence /\ (reply.status # 200 \/ reply.errors # "none") -> Classify(reply)
      [] reply.status = 200 /\ reply.errors = "none" ->
            IF reply.data = "none" THEN "railway_api_failed" ELSE "ok"

\* createProject, createService, createVolume, createServiceDomain
Created(reply) ==
    IF Graphql(reply) = "ok" /\ reply.data = "empty" THEN "railway_api_failed" ELSE Graphql(reply)

\* A host that was claimed without the records to prove it is a failure.
CreateCustomDomain(reply) ==
    IF Created(reply) = "ok" /\ reply.data = "bare" THEN "railway_domain_records_missing" ELSE Created(reply)

\* The account behind a token: one of a project reaches the API but not `me`.
ResolveAccount(reply, workspaces) ==
    CASE Graphql(reply) = "railway_token_invalid" -> "railway_token_not_account"
      [] Graphql(reply) = "ok" /\ workspaces = 0  -> "railway_workspace_missing"
      [] OTHER -> Graphql(reply)

TerminalFailures == {"FAILED", "CRASHED", "REMOVED"}

\* Polling, as often as there are tries: the first status that settles it.
WaitForDeployment(statuses) ==
    LET final == {i \in DOMAIN statuses : statuses[i] \in TerminalFailures \cup {"SUCCESS"}} IN
    IF \E i \in final : statuses[i] = "SUCCESS" /\ \A k \in final : i <= k
      THEN "ok" ELSE "railway_deploy_failed"

\* The wait for a certificate: a status by any of its healthy names.
Issued(statuses) ==
    IF \E i \in DOMAIN statuses : statuses[i] \in {"ISSUED", "VALID", "ACTIVE"}
      THEN "ok" ELSE "certificate_timeout"

\* What Railway says to a token that lives or not, about a call it did or did not
\* do; a token that lives is never told it is not authorised.
Answers(lives, acted) ==
    {Silence, Reply(429, "none", "none"), Reply(500, "none", "none"), Reply(200, "rate limit", "none")} \cup
    (IF ~lives THEN {Reply(401, "none", "none"), Reply(200, "unauthorised", "none")}
     ELSE IF acted THEN {Reply(200, "none", d) : d \in {"none", "empty", "bare", "full"}}
     ELSE {Reply(200, "other", "none")})

\* What those answers come to.
Codes(lives, acted) == {Graphql(r) : r \in Answers(lives, acted)}

\* What `me` comes to, after the token was deleted.
\* (mutant: any error is taken for the proof)
ProofByAnyError(code) ==
    [deleted |-> TRUE, confirmed |-> code # "ok", unsure |-> FALSE]

Proof(code) ==
    [deleted   |-> TRUE,
     confirmed |-> code = "railway_token_invalid",
     unsure    |-> code \notin {"ok", "railway_token_invalid"}]

Spared == [deleted |-> FALSE, confirmed |-> FALSE, unsure |-> FALSE]

\* The token is found among the account's by its two ends, deleted, and tried;
\* an answer that proves nothing is asked for once more.
DestroyToken(heard) ==
    IF heard.listing # "ok" \/ heard.matches # 1 \/ heard.deletion # "ok" THEN Spared
    ELSE IF Proof(heard.first).unsure THEN Proof(heard.second) ELSE Proof(heard.first)

\* What is heard on the way when the token dies or not.  A deletion that is
\* answered well is a claim all the same.
Hearings(dies) ==
    [listing: Codes(TRUE, TRUE), matches: 0..2, deletion: Codes(TRUE, dies) \cup {"ok"},
     first: Codes(~dies, TRUE), second: Codes(~dies, TRUE)]

\* Whether the token dies, with what the installer says of it.
Destructions ==
    UNION {{[dies |-> dies, said |-> DestroyToken(heard)] : heard \in Hearings(dies)} : dies \in BOOLEAN}

-----------------------------------------------------------------------------
(* Cloudflare.  A reply that says it did not succeed is one, whatever its  *)
(* status; what it found is a set or a record.                             *)

Said(status, success, result) == [status |-> status, success |-> success, result |-> result]
Mute == Said(0, FALSE, "none")

\* "ok", or the code of the failure.
Request(reply) ==
    CASE reply = Mute -> "cloudflare_unreachable"
      [] reply # Mute /\ reply.status \in {401, 403} -> "cloudflare_token_invalid"
      [] reply # Mute /\ reply.status \notin {401, 403} ->
            IF reply.status = 200 /\ reply.success /\ reply.result # "none"
              THEN "ok" ELSE "cloudflare_api_failed"

VerifyToken(reply, active) ==
    IF Request(reply) = "ok" /\ ~active THEN "cloudflare_token_invalid" ELSE Request(reply)

\* A token that sees more zones than one is refused before it is used.
ResolveZone(reply, zones, apex) ==
    CASE Request(reply) # "ok" -> Request(reply)
      [] Request(reply) = "ok" /\ Cardinality(zones) > 1 -> "cloudflare_token_unscoped"
      [] Request(reply) = "ok" /\ Cardinality(zones) <= 1 ->
            IF apex \in zones THEN "ok" ELSE "cloudflare_zone_not_found"

\* The token's own record may be out of its reach; one that can be read and
\* never expires is refused.
DescribeToken(reply, expires) ==
    CASE reply = Mute -> "cloudflare_unreachable"
      [] Request(reply) = "ok" /\ ~expires -> "cloudflare_token_no_ttl"
      [] OTHER -> "ok"

InspectCredential(verify, active, list, zones, apex, describe, expires) ==
    IF VerifyToken(verify, active) # "ok" THEN VerifyToken(verify, active)
    ELSE IF ResolveZone(list, zones, apex) # "ok" THEN ResolveZone(list, zones, apex)
    ELSE DescribeToken(describe, expires)

\* The name is read first, and a record of any type ends it; a duplicate the
\* provider saw first is told from every other refusal.
CreateRecord(found, existing, reply) ==
    CASE Request(found) # "ok" -> Request(found)
      [] Request(found) = "ok" /\ existing # {} -> "dns_record_exists"
      [] Request(found) = "ok" /\ existing = {} ->
            IF reply # Mute /\ ~reply.success /\ reply.result = "duplicate"
              THEN "dns_record_exists" ELSE Request(reply)

Heard(acted) ==
    {Mute, Said(500, FALSE, "none"), Said(200, TRUE, "none")} \cup
    (IF acted THEN {Said(200, TRUE, "some")}
     ELSE {Said(403, FALSE, "none"), Said(400, FALSE, "duplicate"), Said(200, FALSE, "none")})

-----------------------------------------------------------------------------
(* What a call of a run may come to: "ok", "refused", or "lost" when it was *)
(* done and its answer is an error.                                         *)

Came(acted, code) == IF code = "ok" THEN "ok" ELSE IF acted THEN "lost" ELSE "refused"

\* Found is the answer to the reading a record's creation begins with.
Found == Said(200, TRUE, "some")
RecordOutcomes ==
    {Came(FALSE, CreateRecord(r, {"A"}, Mute)) : r \in {Found, Mute}} \cup
    UNION {{Came(acted, CreateRecord(Found, {}, r)) : r \in Heard(acted)} : acted \in BOOLEAN}

\* By what the call makes.
Outcomes ==
    [kind \in {"project", "railway", "dns-record", "nothing"} |->
        CASE kind \in {"project", "railway"} ->
                UNION {{Came(acted, Created(r)) : r \in Answers(TRUE, acted)} \cup
                       {Came(acted, CreateCustomDomain(r)) : r \in Answers(TRUE, acted)} : acted \in BOOLEAN}
          [] kind = "dns-record" -> RecordOutcomes
          [] kind = "nothing" ->
                {Came(FALSE, Graphql(r)) : r \in Answers(TRUE, TRUE)} \cup
                {Came(FALSE, WaitForDeployment(s)) : s \in [1..2 -> {"BUILDING", "SUCCESS", "CRASHED"}]} \cup
                {Came(FALSE, Issued(s)) : s \in [1..2 -> {"VALIDATING", "ISSUED"}]}]

\* A deletion: whether the installer takes it for done, and whether it was.
Deletion(succeeds, happens) == [succeeds |-> succeeds, happens |-> happens]
Deletions ==
    [kind \in {"project", "railway", "dns-record"} |->
        CASE kind = "project" -> UNION {{Deletion(Graphql(r) = "ok", a) : r \in Answers(TRUE, a)} : a \in BOOLEAN}
          [] kind = "dns-record" ->
                {Deletion(r # Mute /\ r.status = 200 /\ r.success, TRUE) : r \in Heard(TRUE)} \cup {Deletion(FALSE, FALSE)}
          [] kind = "railway" -> {Deletion(TRUE, TRUE)}]

\* What a visitor's two credentials come to: the account first, then the zone.
VerifyCredentials(account, zone) == IF account # "ok" THEN account ELSE zone

AccountVerdicts == {ResolveAccount(r, w) : r \in Answers(TRUE, TRUE) \cup Answers(FALSE, TRUE), w \in {0, 1}}
ZoneVerdicts ==
    {InspectCredential(v, active, l, zones, "apex", d, expires) :
        v, l, d \in Heard(TRUE) \cup Heard(FALSE), active, expires \in BOOLEAN,
        zones \in SUBSET {"apex", "other"}}
Verdicts == {VerifyCredentials(account, zone) : account \in AccountVerdicts, zone \in ZoneVerdicts}
=============================================================================
