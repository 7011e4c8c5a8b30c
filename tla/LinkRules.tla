------------------------------ MODULE LinkRules ------------------------------
(***************************************************************************)
(* The link rules the panel and the edge share (panel/app/lib/links.ts),   *)
(* where the edge applies them (edge/src/resolve.mjs), and the address a   *)
(* click is counted under (edge/src/collect.mjs).  They are pure functions:*)
(* `rule` is one input, chosen at the start.                               *)
(*                                                                         *)
(* A query string is a sequence of <<key, value>>, a set of parameters a   *)
(* function on a set of keys.                                              *)
(***************************************************************************)
EXTENDS Naturals, Sequences, SequencesExt

CONSTANTS
    Utms,    \* UTM_KEYS
    Others,  \* other keys
    Texts    \* values

\* The text of a field left empty.
Blank == ""

ASSUME RuleConstants == Utms \cap Others = {} /\ Blank \in Texts

Keys == Utms \cup Others

VARIABLE rule

-----------------------------------------------------------------------------
(* Destinations.                                                           *)

KeysOf(query) == {query[i][1] : i \in DOMAIN query}

\* URLSearchParams.get is the first value, .set leaves one, the last.
FirstOf(query) == [k \in KeysOf(query) |->
    LET at == CHOOSE i \in DOMAIN query : query[i][1] = k /\ \A j \in 1..(i-1) : query[j][1] # k
    IN  query[at][2]]
LastOf(query) == FirstOf(Reverse(query))

Filled(fields) == [k \in {k \in DOMAIN fields : fields[k] # Blank} |-> fields[k]]

\* Each source fills gaps only.
Under(f, g) == [k \in DOMAIN f \cup DOMAIN g |-> IF k \in DOMAIN f THEN f[k] ELSE g[k]]

\* buildTargetUrl: what each key of the destination says in the end.
BuildTargetUrl(target, utms, params, passed) ==
    Under(Under(Under(target, Filled(utms)), Filled(params)), passed)

\* splitUtmsFromUrl, of a URL that carries a UTM.
SplitUtms(query) ==
    [base |-> [k \in KeysOf(query) \ Utms |-> LastOf(query)[k]],
     utms |-> [k \in KeysOf(query) \cap Utms |-> LastOf(query)[k]]]

Queries == UNION {[1..n -> Keys \X Texts] : n \in 1..3}
Params == UNION {[K -> Texts] : K \in {K \in SUBSET Keys : Cardinality(K) <= 2}}

-----------------------------------------------------------------------------
(* Links and hosts.                                                        *)

\* A link row: `parses` is whether its target is a URL; a fallback is "none"
\* unless it is an absolute http(s) URL.
LinkRow == [active: BOOLEAN, expired: BOOLEAN, scheduled: BOOLEAN, parses: BOOLEAN,
            fallback: {"none", "own"}]
NoLink == [active |-> FALSE, expired |-> FALSE, scheduled |-> FALSE, parses |-> FALSE,
           fallback |-> "missing"]

Redirect(to, counts) == [type |-> "redirect", to |-> to, counts |-> counts]
NotFound(counts) == [type |-> "not_found", to |-> "page", counts |-> counts]

\* fallbackFor, and what an answer that needs one comes to.
FallbackFor(link, site) ==
    IF link.fallback = "own" THEN "own" ELSE site.fallback
OrNotFound(link, site, counts) ==
    IF FallbackFor(link, site) = "none" THEN NotFound(counts)
    ELSE Redirect(FallbackFor(link, site), counts)

\* (mutant: a paused link falls back as an expired one does)
ResolvePausedFalls(site, link) ==
    IF link = NoLink THEN OrNotFound(NoLink, site, FALSE)
    ELSE IF link.expired \/ ~link.active \/ ~link.parses THEN OrNotFound(link, site, TRUE)
    ELSE Redirect("target", TRUE)

\* resolveRequest once it has both rows; `counts` is whether linkId is set.
ResolveLink(site, link) ==
    CASE link = NoLink -> OrNotFound(NoLink, site, FALSE)
      [] link # NoLink /\ link.expired -> OrNotFound(link, site, TRUE)
      [] link # NoLink /\ ~link.expired /\ ~link.active -> NotFound(TRUE)
      [] link # NoLink /\ ~link.expired /\ link.active ->
           IF link.parses THEN Redirect("target", TRUE) ELSE OrNotFound(link, site, TRUE)

\* linkStatus, what the panel shows of a link, and the filters of listLinks.
LinkStatus(link) ==
    IF link.expired THEN "expired" ELSE IF ~link.active THEN "paused"
    ELSE IF link.scheduled THEN "scheduled" ELSE "active"
Listed(link) == {status \in {"active", "paused", "expired", "scheduled"} :
    CASE status = "active"    -> link.active /\ ~link.expired
      [] status = "paused"    -> ~link.active
      [] status = "expired"   -> link.expired
      [] status = "scheduled" -> link.scheduled}

-----------------------------------------------------------------------------
(* Addresses.                                                              *)

\* clientIp: counted from the end the proxies write.  `header` has no blank
\* entries; hops below one count as one (trustedHops).
Hops(hops) == IF hops > 0 THEN hops ELSE 1
\* (mutant: the leftmost entry)
ClientIpLeftmost(header, hops, socket) == IF header = <<>> THEN socket ELSE Head(header)

ClientIp(header, hops, socket) ==
    IF header = <<>> THEN socket
    ELSE header[IF Len(header) > Hops(hops) THEN Len(header) - Hops(hops) + 1 ELSE 1]

\* What the visitor sent, then what each proxy in front appends: the address it
\* was called from, the first of them by the visitor.
Forwarded(sent, hops) == sent \o [i \in 1..hops |-> IF i = 1 THEN "visitor" ELSE "proxy"]

-----------------------------------------------------------------------------
(* Inputs and properties.                                                  *)

RuleInputs ==
    [of: {"build"}, target: Params, stored: Params, passed: Params] \cup
    [of: {"link"}, link: LinkRow, site: [fallback: {"none", "shared"}]] \cup
    [of: {"address"}, sent: UNION {[1..n -> {"x", "y"}] : n \in 0..2}, hops: 0..3]

LinkRulesInit == rule \in RuleInputs

\* What a visitor sends decides nothing but gaps.  Whatever is in the query
\* string of a link that passes it through, every parameter the destination or
\* the link declares is sent as declared (links.ts:115-116: "fills gaps only --
\* never overwrites what the link itself declared"); and whatever is claimed in
\* the forwarding header, the address a click is counted under is the one the
\* outermost trusted proxy saw, when as many proxies stand in front as the edge
\* was told (with none told, one is assumed).
VisitorsFillGaps ==
    /\ rule.of = "build" =>
          LET alone  == BuildTargetUrl(rule.target, <<>>, rule.stored, <<>>)
              passed == BuildTargetUrl(rule.target, <<>>, rule.stored, rule.passed)
          IN  /\ \A k \in DOMAIN alone : passed[k] = alone[k]
              /\ \A k \in DOMAIN rule.passed \ DOMAIN alone : passed[k] = rule.passed[k]
    /\ rule.of = "address" /\ rule.hops > 0 =>
          ClientIp(Forwarded(rule.sent, rule.hops), rule.hops, "socket") = "visitor"
=============================================================================
