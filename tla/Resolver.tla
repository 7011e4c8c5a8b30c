------------------------------- MODULE Resolver -------------------------------
(***************************************************************************)
(* Resolution (edge/src/resolve.mjs) as the edge's handler drives it       *)
(* (edge/src/server.mjs): the host's row from a bounded map with a time to *)
(* live, or from the database; the link's row from the database; and the   *)
(* panel changing both under it.  Every query is two actions: the          *)
(* statement's snapshot, and the answer the handler continues with.        *)
(***************************************************************************)
EXTENDS LinkRules, Integers

CONSTANTS
    Hosts, Requests,
    TTL,        \* HOST_CACHE_TTL_MS, in ticks
    QueryTime,  \* the pool's query_timeout, in ticks
    MaxEntries, \* createHostCache's max
    SiteRows,   \* [Hosts -> rows the panel may give each host]
    LinkRows,   \* rows it may give its link
    MaxTime,    \* bound on the clock
    MaxEdits    \* bound on changes by the panel

\* A row is told apart from the row of a host deleted and created again by its id.
NoSite == [active |-> FALSE, fallback |-> "none", id |-> 0]
SiteRow == {NoSite} \cup [active: BOOLEAN, fallback: {"none", "shared"}, id: Nat \ {0}]

ASSUME ResolverConstants ==
    /\ Requests \cup {TTL, QueryTime, MaxTime, MaxEdits} \subseteq Nat /\ MaxEntries \in Nat \ {0}
    /\ SiteRows \in [Hosts -> SUBSET SiteRow] /\ LinkRows \subseteq LinkRow

VARIABLES
    clock,
    sites,    \* [Hosts -> the row of each host, or NoSite]
    links,    \* [Hosts -> the one link of each host, or NoLink]
    until,    \* [Hosts -> [rows -> the tick each was last replaced in, or -1]]
    entries,  \* the host cache, oldest insertion first
    req,      \* [Requests -> what the handler is waiting for]
    edits

rvars == <<clock, sites, links, until, entries, req, edits>>

Live == [active |-> TRUE, expired |-> FALSE, scheduled |-> FALSE, parses |-> TRUE, fallback |-> "own"]
NoRequest == [pc |-> "idle", host |-> "none", site |-> NoSite,
              since |-> 0, served |-> "none", steady |-> FALSE]

-----------------------------------------------------------------------------
(* The map.                                                                *)

At(host) == {i \in DOMAIN entries : entries[i].host = host}
Expired(e) == clock >= e.expires

\* get: an entry past its time is deleted on the way.
Hit(host) == \E i \in At(host) : ~Expired(entries[i])
Row(host) == (CHOOSE e \in {entries[i] : i \in At(host)} : TRUE).row
Purged(host) ==
    IF \E i \in At(host) : Expired(entries[i])
      THEN RemoveAt(entries, CHOOSE i \in At(host) : Expired(entries[i])) ELSE entries

\* set: a key that is there keeps its place; a full map loses its oldest.
Entry(host, row) == [host |-> host, row |-> row, expires |-> clock + TTL]
\* (mutant: no bound)
PutUnbounded(host, row) == Append(entries, Entry(host, row))

Put(host, row) ==
    IF At(host) # {}
      THEN [i \in DOMAIN entries |-> IF i \in At(host) THEN Entry(host, row) ELSE entries[i]]
      ELSE Append(IF Len(entries) >= MaxEntries THEN Tail(entries) ELSE entries, Entry(host, row))

-----------------------------------------------------------------------------
(* Requests.                                                               *)

\* What an answer was is kept until something else happens.
Over(r) == IF r.pc = "done" THEN NoRequest ELSE r
Become(q, r) == req' = [p \in Requests |-> IF p = q THEN r ELSE Over(req[p])]

\* Requests are alike: the first one free is the next to come in.
Free(q) == req[q].pc \in {"idle", "done"}
ComesIn(q) == Free(q) /\ \A r \in Requests : r < q => ~Free(r)

\* (mutant: a hit is as good as a fresh answer)
AskRenewing(q, host) ==
    /\ ComesIn(q)
    /\ entries' = IF Hit(host) THEN Put(host, Row(host)) ELSE Purged(host)
    /\ Become(q, [NoRequest EXCEPT
           !.host = host, !.steady = TRUE,
           !.pc   = IF Hit(host) THEN "found" ELSE "query",
           !.site = IF Hit(host) THEN Row(host) ELSE NoSite])
    /\ UNCHANGED <<clock, sites, links, until, edits>>

\* lookupHost, as far as its first await.
Ask(q, host) ==
    /\ ComesIn(q)
    /\ entries' = Purged(host)
    /\ Become(q, [NoRequest EXCEPT
           !.host = host, !.steady = TRUE,
           !.pc   = IF Hit(host) THEN "found" ELSE "query",
           !.site = IF Hit(host) THEN Row(host) ELSE NoSite])
    /\ UNCHANGED <<clock, sites, links, until, edits>>

SiteSnapshot(q) ==
    /\ req[q].pc = "query"
    /\ Become(q, [req[q] EXCEPT !.pc = "answering", !.site = sites[req[q].host], !.since = clock])
    /\ UNCHANGED <<clock, sites, links, until, entries, edits>>

\* The answer goes into the map, a miss as much as a row, and whatever the map
\* has learnt meanwhile.
SiteAnswer(q) ==
    /\ req[q].pc = "answering"
    /\ entries' = Put(req[q].host, req[q].site)
    /\ Become(q, [req[q] EXCEPT !.pc = "found", !.since = 0])
    /\ UNCHANGED <<clock, sites, links, until, edits>>

\* The query fails or times out, and with it the request: a branded 500.
QueryFails(q) ==
    /\ req[q].pc \in {"query", "answering", "found"}
    /\ Become(q, NoRequest)
    /\ UNCHANGED <<clock, sites, links, until, entries, edits>>

\* What needs no link: an unknown host and one switched off (404, and nothing
\* recorded), and the root, which any host has.
AnswerWithout(q) ==
    /\ req[q].pc = "found"
    /\ Become(q, NoRequest)
    /\ UNCHANGED <<clock, sites, links, until, entries, edits>>

Done(q, answer) == Become(q, [req[q] EXCEPT !.pc = "done", !.served = answer, !.since = 0])

\* (mutant: a link found through a host in the map is the one last served)
AnswerLinkCached(q) ==
    /\ req[q].pc = "found" /\ req[q].site.active
    /\ LET link == IF At(req[q].host) # {} THEN Live
                   ELSE IF sites[req[q].host].id = req[q].site.id THEN links[req[q].host] ELSE NoLink
       IN  Done(q, ResolveLink(req[q].site, link).to)
    /\ UNCHANGED <<clock, sites, links, until, entries, edits>>

\* The statement for the link asks for the row's subdomain by the id that was
\* read; how long its answer travels changes nothing of it.
AnswerLink(q) ==
    /\ req[q].pc = "found" /\ req[q].site.active
    /\ LET link == IF sites[req[q].host].id = req[q].site.id THEN links[req[q].host] ELSE NoLink
       IN  Done(q, ResolveLink(req[q].site, link).to)
    /\ UNCHANGED <<clock, sites, links, until, entries, edits>>

-----------------------------------------------------------------------------
(* The panel and the clock.                                                *)

Edit == edits < MaxEdits /\ edits' = edits + 1

\* Requests that had begun are no longer sure what the link is.
Unsteady(host) == req' = [q \in Requests |-> IF req[q].host = host
                                               THEN Over([req[q] EXCEPT !.steady = FALSE]) ELSE Over(req[q])]

SetSite(host) ==
    /\ Edit
    /\ \E row \in SiteRows[host] \ {sites[host]} :
          /\ row # NoSite /\ sites[host] # NoSite => row.id = sites[host].id
          /\ sites' = [sites EXCEPT ![host] = row]
          /\ until' = [until EXCEPT ![host][sites[host]] = clock]
          /\ links' = [links EXCEPT ![host] = IF row = NoSite THEN NoLink ELSE @]
    /\ Unsteady(host)
    /\ UNCHANGED <<clock, entries>>

SetLink(host) ==
    /\ Edit
    /\ sites[host] # NoSite
    /\ \E row \in LinkRows \ {links[host]} :
          links' = [links EXCEPT ![host] = row]
    /\ Unsteady(host)
    /\ UNCHANGED <<clock, sites, until, entries>>

\* No query outlives the pool's timeout.
Passes ==
    /\ clock < MaxTime
    /\ \A q \in Requests : req[q].pc = "answering" => clock < req[q].since + QueryTime
    /\ clock' = clock + 1
    /\ UNCHANGED <<until, sites, links, entries, req, edits>>

ResolverInit ==
    /\ clock = 0
    /\ sites \in {s \in [Hosts -> UNION Range(SiteRows)] : \A h \in Hosts : s[h] \in SiteRows[h]}
    /\ links = [h \in Hosts |-> IF sites[h] = NoSite THEN NoLink ELSE Live]
    /\ until = [h \in Hosts |-> [row \in SiteRows[h] |-> -1]]
    /\ entries = <<>>
    /\ req = [q \in Requests |-> NoRequest]
    /\ edits = 0

ResolverNext ==
    \/ \E q \in Requests :
          \/ \E h \in Hosts : Ask(q, h)
          \/ SiteSnapshot(q) \/ SiteAnswer(q) \/ QueryFails(q)
          \/ AnswerWithout(q) \/ AnswerLink(q)
    \/ \E h \in Hosts : SetSite(h) \/ SetLink(h)
    \/ Passes

ResolverSpec == ResolverInit /\ [][ResolverNext]_rvars

-----------------------------------------------------------------------------
(* Properties.                                                             *)

\* The Host header is the visitor's to choose, so the map's bound is part of it.
ResolverTypeOK ==
    /\ clock \in 0..MaxTime
    /\ sites \in [Hosts -> SiteRow] /\ \A h \in Hosts : sites[h] \in SiteRows[h]
    /\ links \in [Hosts -> LinkRow \cup {NoLink}]
    /\ DOMAIN until = Hosts /\ \A h \in Hosts : until[h] \in [SiteRows[h] -> -1..MaxTime]
    /\ entries \in Seq([host: Hosts, row: SiteRow, expires: Nat])
    /\ Len(entries) <= MaxEntries
    /\ \A i, j \in DOMAIN entries : entries[i].host = entries[j].host => i = j
    /\ req \in [Requests -> [pc: {"idle", "query", "answering", "found", "done"}, host: Hosts \cup {"none"},
                            site: SiteRow, since: 0..MaxTime, served: {"none", "target", "own", "shared", "page"},
                            steady: BOOLEAN]]

Lately(host) ==
    {sites[host]} \cup {row \in SiteRows[host] : until[host][row] # -1 /\ until[host][row] + TTL + QueryTime > clock}

\* A host's row, or the fact that there was none, is served from memory for no
\* longer than its time to live plus the time the query that brought it could
\* take: an older answer that comes late and overwrites a newer one included.
ServedRecently ==
    \A i \in DOMAIN entries :
        ~Expired(entries[i]) => entries[i].row \in Lately(entries[i].host)

\* While it runs, a request whose host and link nobody has touched since it came
\* in is answered by the link as it is, however old the host's row it holds: a
\* pause, a deletion or a new destination waits for no cache.
LinksAreLive ==
    \A q \in Requests :
        req[q].pc = "done" /\ req[q].steady =>
            LET live == IF sites[req[q].host].id = req[q].site.id THEN links[req[q].host] ELSE NoLink
            IN  /\ req[q].served = "target" <=> live.active /\ ~live.expired /\ live.parses
                /\ live # NoLink /\ ~live.active /\ ~live.expired => req[q].served = "page"

\* What a visitor is answered is as fresh as it can be: the host as it was a
\* bounded time ago, and the link as it is.
AnswersAreFresh == ServedRecently /\ LinksAreLive
=============================================================================
