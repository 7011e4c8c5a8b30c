------------------------------ MODULE EdgeProofs ------------------------------
(***************************************************************************)
(* The edge: what resolution, the fold into click_daily, the geolocation   *)
(* databases and the link rules keep, whatever the hosts, the requests,    *)
(* the replicas, the editions and the bounds.                              *)
(***************************************************************************)
EXTENDS MCEdge, CollectorProofs, WellFoundedInduction

-----------------------------------------------------------------------------
(* Resolution: the map of hosts.                                           *)

\* The numbers among the constants.
LEMMA ResolverNumbers ==
    TTL \in Nat /\ QueryTime \in Nat /\ MaxTime \in Nat /\ MaxEntries \in Nat \ {0} /\ MaxEdits \in Nat
    /\ 0 \in 0..MaxTime
BY ResolverConstants

EntryOf == [host: Hosts, row: SiteRow, expires: Nat]

\* A row is, or was until t at the earliest, the row of its host.
UntilAt(host, site, t) == site = sites[host] \/ (until[host][site] # -1 /\ until[host][site] >= t)

\* The same, after a step.
UntilAfter(host, site, t) == site = sites'[host] \/ (until'[host][site] # -1 /\ until'[host][site] >= t)

\* An entry expires no later than one made now would, and its row was its host's
\* no longer ago, counted from when it expires, than its time to live and a query.
EntriesFit ==
    \A i \in DOMAIN entries :
        LET e == entries[i] IN
        /\ e.row \in SiteRows[e.host] /\ e.expires <= clock + TTL
        /\ UntilAt(e.host, e.row, e.expires - (TTL + QueryTime))

\* An answer on its way was its host's row when the statement took its snapshot,
\* no longer ago than a query may take.
AnswersFit ==
    \A q \in Requests :
        /\ req[q].pc \in {"query", "answering", "found"} => req[q].host \in Hosts
        /\ req[q].pc = "answering" =>
              /\ req[q].site \in SiteRows[req[q].host]
              /\ req[q].since <= clock /\ clock <= req[q].since + QueryTime
              /\ UntilAt(req[q].host, req[q].site, req[q].since)

RInv == ResolverTypeOK /\ EntriesFit /\ AnswersFit /\ LinksAreLive

\* Replacing dates the row that is replaced, and takes no other row's date back.
LEMMA UntilHolds ==
    ASSUME ResolverTypeOK, NEW host \in Hosts, NEW new \in SiteRows[host],
           sites' = [sites EXCEPT ![host] = new],
           until' = [until EXCEPT ![host][sites[host]] = clock],
           NEW h \in Hosts, NEW site \in SiteRows[h], NEW t \in Int, t <= clock, UntilAt(h, site, t)
    PROVE  UntilAt(h, site, t)'
<1>1. clock \in Int /\ clock # -1
    BY ResolverConstants DEF ResolverTypeOK
<1>2. /\ \A x \in Hosts : sites'[x] = IF x = host THEN new ELSE sites[x]
      /\ \A x \in Hosts : \A y \in SiteRows[x] :
            until'[x][y] = IF x = host /\ y = sites[host] THEN clock ELSE until[x][y]
    BY DEF ResolverTypeOK
<1>3. QED BY <1>1, <1>2 DEF UntilAt

\* What an entry that is dropped leaves.
LEMMA DropsOne ==
    ASSUME NEW S, NEW s \in Seq(S), NEW i \in DOMAIN s
    PROVE  /\ RemoveAt(s, i) \in Seq(S) /\ Len(RemoveAt(s, i)) = Len(s) - 1
           /\ DOMAIN RemoveAt(s, i) = 1 .. Len(s) - 1
           /\ \A k \in 1 .. Len(s) - 1 : RemoveAt(s, i)[k] = IF k < i THEN s[k] ELSE s[k + 1]
<1>1. i \in 1 .. Len(s) /\ Len(s) \in Nat
    OBVIOUS
<1> DEFINE a == SubSeq(s, 1, i - 1)
           b == SubSeq(s, i + 1, Len(s))
<1>2. /\ a \in Seq(S) /\ Len(a) = i - 1 /\ \A k \in 1 .. i - 1 : a[k] = s[k]
    BY <1>1, SubSeqProperties
<1>3. /\ b \in Seq(S) /\ Len(b) = Len(s) - i /\ \A k \in 1 .. Len(s) - i : b[k] = s[k + i]
    BY <1>1, SubSeqProperties
<1> HIDE DEF a, b
<1>4. RemoveAt(s, i) = a \o b
    BY DEF RemoveAt, a, b
<1> DEFINE c == a \o b
<1>5. /\ c \in Seq(S) /\ Len(c) = Len(a) + Len(b)
      /\ \A k \in 1 .. Len(a) + Len(b) : c[k] = IF k <= Len(a) THEN a[k] ELSE b[k - Len(a)]
    BY <1>2, <1>3, ConcatProperties
<1> HIDE DEF c
<1>6. Len(c) = Len(s) - 1 /\ DOMAIN c = 1 .. Len(s) - 1
    BY <1>1, <1>2, <1>3, <1>5
<1>7. ASSUME NEW k \in 1 .. Len(s) - 1
      PROVE  c[k] = IF k < i THEN s[k] ELSE s[k + 1]
    <2>1. c[k] = IF k <= i - 1 THEN a[k] ELSE b[k - (i - 1)]
        <3>1. Len(a) = i - 1 /\ Len(b) = Len(s) - i
            BY <1>2, <1>3
        <3>2. k \in 1 .. Len(a) + Len(b)
            BY <1>1, <3>1
        <3>3. c[k] = IF k <= Len(a) THEN a[k] ELSE b[k - Len(a)]
            BY <1>5, <3>2
        <3>4. QED BY <3>1, <3>3
    <2>2. CASE k < i
        BY <1>1, <1>2, <2>1, <2>2
    <2>3. CASE ~(k < i)
        <3>1. k - (i - 1) \in 1 .. Len(s) - i /\ (k - (i - 1)) + i = k + 1
            BY <1>1, <2>3
        <3>2. b[k - (i - 1)] = s[(k - (i - 1)) + i]
            BY <1>3, <3>1
        <3>3. QED BY <1>1, <2>1, <2>3, <3>1, <3>2
    <2>4. QED BY <2>2, <2>3
<1>8. RemoveAt(s, i) = c
    BY <1>4 DEF c
<1>9. QED BY <1>5, <1>6, <1>7, <1>8

MapOK(es) ==
    /\ es \in Seq(EntryOf) /\ Len(es) <= MaxEntries
    /\ \A i, j \in DOMAIN es : es[i].host = es[j].host => i = j

\* What get and set leave of the map: entries it had, and the one set.
LEMMA Purges ==
    ASSUME ResolverTypeOK, NEW host
    PROVE  /\ MapOK(Purged(host))
           /\ \A k \in DOMAIN Purged(host) : \E i \in DOMAIN entries : Purged(host)[k] = entries[i]
<1> DEFINE i == CHOOSE x \in At(host) : Expired(entries[x])
<1>1. entries \in Seq(EntryOf) /\ MapOK(entries)
    BY DEF ResolverTypeOK, EntryOf, MapOK
<1>2. CASE \E x \in At(host) : Expired(entries[x])
    <2>1. i \in DOMAIN entries /\ Purged(host) = RemoveAt(entries, i)
        BY <1>2 DEF At, Purged
    <2> HIDE DEF i
    <2>2. /\ Purged(host) \in Seq(EntryOf) /\ Len(Purged(host)) = Len(entries) - 1
          /\ DOMAIN Purged(host) = 1 .. Len(entries) - 1
          /\ \A k \in 1 .. Len(entries) - 1 : Purged(host)[k] = IF k < i THEN entries[k] ELSE entries[k + 1]
        BY <1>1, <2>1, DropsOne
    <2>3. DOMAIN entries = 1 .. Len(entries) /\ Len(entries) \in Nat /\ Len(entries) <= MaxEntries
        BY <1>1 DEF MapOK
    <2>4. \A k \in DOMAIN Purged(host) : \E x \in DOMAIN entries : Purged(host)[k] = entries[x]
        BY <2>1, <2>2, <2>3
    <2>5. ASSUME NEW x \in DOMAIN Purged(host), NEW y \in DOMAIN Purged(host),
                 Purged(host)[x].host = Purged(host)[y].host
          PROVE  x = y
        <3> DEFINE old(k) == IF k < i THEN k ELSE k + 1
        <3>1. x \in 1 .. Len(entries) - 1 /\ y \in 1 .. Len(entries) - 1 /\ i \in 1 .. Len(entries)
            BY <2>1, <2>2, <2>3
        <3>2. old(x) \in DOMAIN entries /\ old(y) \in DOMAIN entries
            BY <2>3, <3>1
        <3>3. entries[old(x)].host = entries[old(y)].host
            BY <2>2, <2>5, <3>1
        <3>4. old(x) = old(y)
            BY <1>1, <3>2, <3>3 DEF MapOK
        <3>5. QED BY <3>1, <3>4
    <2>6. QED BY <2>2, <2>3, <2>4, <2>5, ResolverConstants DEF MapOK
<1>3. CASE ~ \E x \in At(host) : Expired(entries[x])
    BY <1>1, <1>3 DEF Purged
<1>4. QED BY <1>2, <1>3

\* A row put in the map is an entry of its own there, and the map stays within its
\* bound with one entry for each host.
LEMMA Puts ==
    ASSUME ResolverTypeOK, NEW host \in Hosts, NEW site \in SiteRow
    PROVE  /\ MapOK(Put(host, site)) /\ Entry(host, site) \in EntryOf
           /\ \A k \in DOMAIN Put(host, site) :
                 Put(host, site)[k] = Entry(host, site) \/ \E i \in DOMAIN entries : Put(host, site)[k] = entries[i]
<1> DEFINE new == Entry(host, site)
           P == Put(host, site)
<1>1. entries \in Seq(EntryOf) /\ MapOK(entries) /\ DOMAIN entries = 1 .. Len(entries) /\ Len(entries) \in Nat
    BY DEF ResolverTypeOK, EntryOf, MapOK
<1>2. new \in EntryOf /\ new.host = host
    <2>1. clock + TTL \in Nat
        BY ResolverNumbers DEF ResolverTypeOK
    <2>2. QED BY <2>1 DEF Entry, EntryOf
<1> HIDE DEF new
<1>3. CASE At(host) # {}
    <2>1. P = [i \in DOMAIN entries |-> IF i \in At(host) THEN new ELSE entries[i]]
        BY <1>3 DEF Put, new
    <2> HIDE DEF P
    <2>2. DOMAIN P = 1 .. Len(entries) /\ \A i \in 1 .. Len(entries) : P[i] = IF i \in At(host) THEN new ELSE entries[i]
        BY <1>1, <2>1
    <2>3. \A i \in 1 .. Len(entries) : P[i] \in EntryOf
        BY <1>1, <1>2, <2>2
    <2>4. P \in Seq(EntryOf) /\ Len(P) = Len(entries)
        BY <1>1, <2>1, <2>2, <2>3
    <2>5. ASSUME NEW x \in DOMAIN P, NEW y \in DOMAIN P, P[x].host = P[y].host
          PROVE  x = y
        BY <1>1, <1>2, <2>2, <2>5 DEF MapOK, At
    <2>6. QED BY <1>1, <1>2, <2>2, <2>4, <2>5 DEF MapOK, P, new
<1>4. CASE At(host) = {}
    <2> DEFINE base == IF Len(entries) >= MaxEntries THEN Tail(entries) ELSE entries
    <2>1. P = Append(base, new)
        BY <1>4 DEF Put, new
    <2>2. /\ base \in Seq(EntryOf) /\ Len(base) \in Nat /\ Len(base) + 1 <= MaxEntries
          /\ DOMAIN base = 1 .. Len(base)
          /\ \E d \in {0, 1} : Len(base) = Len(entries) - d /\ \A k \in 1 .. Len(base) : base[k] = entries[k + d]
        <3>1. MaxEntries \in Nat \ {0} /\ Len(entries) <= MaxEntries
            BY <1>1, ResolverConstants DEF MapOK
        <3>2. CASE Len(entries) >= MaxEntries
            <4>1. entries # <<>> /\ base = Tail(entries)
                BY <1>1, <3>1, <3>2
            <4>2. base \in Seq(EntryOf) /\ Len(base) = Len(entries) - 1 /\ \A k \in 1 .. Len(base) : base[k] = entries[k + 1]
                BY <1>1, <4>1, HeadTailProperties
            <4>3. QED BY <1>1, <3>1, <3>2, <4>2
        <3>3. CASE ~(Len(entries) >= MaxEntries)
            <4>1. base = entries
                BY <3>3
            <4> HIDE DEF base
            <4>2. Len(base) = Len(entries) - 0 /\ \A k \in 1 .. Len(base) : k + 0 = k
                BY <1>1, <4>1
            <4>3. QED BY <1>1, <3>1, <3>3, <4>1, <4>2
        <3>4. QED BY <3>2, <3>3
    <2> HIDE DEF base, P
    <2>3. /\ P \in Seq(EntryOf) /\ Len(P) = Len(base) + 1 /\ DOMAIN P = 1 .. Len(base) + 1
          /\ \A k \in 1 .. Len(base) : P[k] = base[k]
          /\ P[Len(base) + 1] = new
        BY <1>2, <2>1, <2>2
    <2>4. \A k \in DOMAIN entries : entries[k].host # host
        BY <1>4 DEF At
    <2>5. PICK d \in {0, 1} : Len(base) = Len(entries) - d /\ \A k \in 1 .. Len(base) : base[k] = entries[k + d]
        BY <2>2
    <2>6. \A k \in 1 .. Len(base) : k + d \in DOMAIN entries /\ P[k] = entries[k + d]
        BY <1>1, <2>2, <2>3, <2>5
    <2>7. ASSUME NEW x \in DOMAIN P, NEW y \in DOMAIN P, P[x].host = P[y].host
          PROVE  x = y
        <3>1. x \in 1 .. Len(base) + 1 /\ y \in 1 .. Len(base) + 1
            BY <2>3
        <3>2. CASE x \in 1 .. Len(base) /\ y \in 1 .. Len(base)
            BY <1>1, <2>6, <2>7, <3>2 DEF MapOK
        <3>3. CASE x = Len(base) + 1 \/ y = Len(base) + 1
            <4>1. \A k \in 1 .. Len(base) : P[k].host # host
                BY <2>4, <2>6
            <4>2. P[Len(base) + 1].host = host
                BY <1>2, <2>3
            <4>3. QED BY <2>2, <2>7, <3>1, <3>3, <4>1, <4>2
        <3>4. QED BY <2>2, <3>1, <3>2, <3>3
    <2>8. MapOK(P)
        BY <2>2, <2>3, <2>7 DEF MapOK
    <2>9. \A k \in DOMAIN P : P[k] = new \/ \E i \in DOMAIN entries : P[k] = entries[i]
        <3>1. ASSUME NEW k \in DOMAIN P
              PROVE  P[k] = new \/ \E i \in DOMAIN entries : P[k] = entries[i]
            <4>1. k \in 1 .. Len(base) \/ k = Len(base) + 1
                BY <2>2, <2>3
            <4>2. QED BY <2>3, <2>6, <4>1
        <3>2. QED BY <3>1
    <2>10. QED BY <1>2, <2>8, <2>9 DEF P, new
<1>5. QED BY <1>3, <1>4

\* A map that changes so, under a panel and a clock that stand still, stays as it
\* should be.
LEMMA MapKept ==
    ASSUME RInv, UNCHANGED <<clock, sites, links, until, edits>>, MapOK(entries'),
           \A k \in DOMAIN entries' :
              \/ \E i \in DOMAIN entries : entries'[k] = entries[i]
              \/ /\ entries'[k].row \in SiteRows[entries'[k].host] /\ entries'[k].expires = clock + TTL
                 /\ UntilAt(entries'[k].host, entries'[k].row, clock - QueryTime)
    PROVE  EntriesFit'
<1>1. \A h, site, t : UntilAt(h, site, t)' <=> UntilAt(h, site, t)
    BY DEF UntilAt
<1>2. clock \in Nat /\ TTL \in Nat /\ QueryTime \in Nat /\ (clock + TTL) - (TTL + QueryTime) = clock - QueryTime
    <2>1. clock \in Nat
        BY ResolverConstants DEF RInv, ResolverTypeOK
    <2>2. TTL \in Nat /\ QueryTime \in Nat
        BY ResolverConstants
    <2>3. QED BY <2>1, <2>2
<1>3. ASSUME NEW k \in DOMAIN entries'
      PROVE  LET e == entries'[k] IN
             /\ e.row \in SiteRows[e.host] /\ e.expires <= clock + TTL
             /\ UntilAt(e.host, e.row, e.expires - (TTL + QueryTime))
    BY <1>2, <1>3 DEF RInv, EntriesFit
<1>4. QED BY <1>1, <1>3 DEF EntriesFit

\* A row whose host it was until t was its host's until any time before.
LEMMA UntilBefore ==
    ASSUME ResolverTypeOK, NEW h \in Hosts, NEW site \in SiteRows[h], NEW t \in Int, NEW u \in Int, u <= t,
           UntilAt(h, site, t)
    PROVE  UntilAt(h, site, u)
<1>1. until[h][site] \in Int
    BY ResolverNumbers DEF ResolverTypeOK
<1>2. QED BY <1>1 DEF UntilAt

-----------------------------------------------------------------------------
(* Resolution: the requests.                                               *)

RequestOf ==
    [pc: {"idle", "query", "answering", "found", "done"}, host: Hosts \cup {"none"},
     site: SiteRow, since: 0..MaxTime, served: {"none", "target", "own", "shared", "page"}, steady: BOOLEAN]

\* One request moves, and an answer given before is forgotten.
LEMMA OneRequest ==
    ASSUME ResolverTypeOK, NEW q \in Requests, NEW r \in RequestOf, Become(q, r)
    PROVE  /\ req' \in [Requests -> RequestOf] /\ req'[q] = r
           /\ \A p \in Requests : p # q => req'[p].pc # "done" /\ req'[p] \in {req[p], NoRequest}
<1>1. NoRequest \in RequestOf /\ NoRequest.pc = "idle"
    BY ResolverNumbers DEF NoRequest, RequestOf, SiteRow
<1>2. req \in [Requests -> RequestOf]
    BY DEF ResolverTypeOK, RequestOf
<1>3. \A p \in Requests : Over(req[p]) \in {req[p], NoRequest} /\ Over(req[p]).pc # "done"
    BY <1>1 DEF Over
<1>4. QED BY <1>1, <1>2, <1>3 DEF Become

\* Where it leaves the answers on their way, and the answers given.
LEMMA AnswersKept ==
    ASSUME RInv, NEW q \in Requests, NEW r \in RequestOf, Become(q, r),
           UNCHANGED <<clock, sites, links, until, edits>>,
           r.pc \in {"query", "answering", "found"} => r.host \in Hosts,
           r.pc = "answering" => /\ r.site \in SiteRows[r.host] /\ r.since <= clock /\ clock <= r.since + QueryTime
                                 /\ UntilAt(r.host, r.site, r.since),
           r.pc = "done" =>
              LET live == IF sites[r.host].id = r.site.id THEN links[r.host] ELSE NoLink
              IN  /\ r.served = "target" <=> live.active /\ ~live.expired /\ live.parses
                  /\ live # NoLink /\ ~live.active /\ ~live.expired => r.served = "page"
    PROVE  AnswersFit' /\ LinksAreLive' /\ req' \in [Requests -> RequestOf]
<1>1. /\ req' \in [Requests -> RequestOf] /\ req'[q] = r
      /\ \A p \in Requests : p # q => req'[p].pc # "done" /\ req'[p] \in {req[p], NoRequest}
    BY OneRequest DEF RInv
<1>2. NoRequest.pc = "idle"
    BY DEF NoRequest
<1>3. \A h, site, t : UntilAt(h, site, t)' <=> UntilAt(h, site, t)
    BY DEF UntilAt
<1>4. ASSUME NEW p \in Requests
      PROVE  /\ req'[p].pc \in {"query", "answering", "found"} => req'[p].host \in Hosts
             /\ req'[p].pc = "answering" =>
                  /\ req'[p].site \in SiteRows[req'[p].host]
                  /\ req'[p].since <= clock /\ clock <= req'[p].since + QueryTime
                  /\ UntilAt(req'[p].host, req'[p].site, req'[p].since)
    <2>1. CASE p = q
        BY <1>1, <2>1
    <2>2. CASE p # q /\ req'[p] = NoRequest
        BY <1>2, <2>2
    <2>3. CASE p # q /\ req'[p] = req[p]
        BY <2>3 DEF RInv, AnswersFit
    <2>4. QED BY <1>1, <2>1, <2>2, <2>3
<1>5. AnswersFit'
    BY <1>3, <1>4 DEF AnswersFit
<1>6. LinksAreLive'
    BY <1>1 DEF LinksAreLive
<1>7. QED BY <1>1, <1>5, <1>6

\* What an answer is, by the rows it was found with.
LEMMA AnswerIs ==
    ASSUME NEW site \in SiteRow, NEW link \in LinkRow \cup {NoLink}
    PROVE  /\ ResolveLink(site, link).to \in {"target", "own", "shared", "page"}
           /\ ResolveLink(site, link).to = "target" <=> link.active /\ ~link.expired /\ link.parses
           /\ link # NoLink /\ ~link.active /\ ~link.expired => ResolveLink(site, link).to = "page"
<1> DEFINE answer == ResolveLink(site, link)
<1>1. site.fallback \in {"none", "shared"}
    BY DEF SiteRow, NoSite
<1>2. /\ ~NoLink.active /\ NoLink.fallback = "missing"
      /\ link # NoLink => link.active \in BOOLEAN /\ link.expired \in BOOLEAN /\ link.parses \in BOOLEAN
                          /\ link.fallback \in {"none", "own"}
    <2>1. ~NoLink.active /\ NoLink.fallback = "missing"
        BY DEF NoLink
    <2>2. CASE link \in LinkRow
        BY <2>1, <2>2 DEF LinkRow
    <2>3. QED BY <2>1, <2>2
<1>3. \A l : l.fallback \in {"none", "own", "missing"} => FallbackFor(l, site) \in {"own", "none", "shared"}
    BY <1>1 DEF FallbackFor
<1>4. CASE link = NoLink
    <2>1. answer = OrNotFound(NoLink, site, FALSE)
        BY <1>4 DEF ResolveLink
    <2>2. NoLink.fallback \in {"none", "own", "missing"}
        BY <1>2
    <2>3. answer.to \in {"own", "shared", "page"}
        <3>1. FallbackFor(NoLink, site) \in {"own", "none", "shared"}
            BY <1>3, <2>2
        <3>2. CASE FallbackFor(NoLink, site) = "none"
            BY <2>1, <3>2 DEF OrNotFound, NotFound
        <3>3. CASE FallbackFor(NoLink, site) # "none"
            BY <2>1, <3>1, <3>3 DEF OrNotFound, Redirect
        <3>4. QED BY <3>1, <3>2, <3>3
    <2>4. QED BY <1>2, <1>4, <2>3
<1>5. CASE link # NoLink /\ link.expired
    <2>1. answer = OrNotFound(link, site, TRUE)
        BY <1>5 DEF ResolveLink
    <2>2. link.fallback \in {"none", "own", "missing"}
        BY <1>2, <1>5
    <2>3. answer.to \in {"own", "shared", "page"}
        <3>1. FallbackFor(link, site) \in {"own", "none", "shared"}
            BY <1>3, <2>2
        <3>2. CASE FallbackFor(link, site) = "none"
            BY <2>1, <3>2 DEF OrNotFound, NotFound
        <3>3. CASE FallbackFor(link, site) # "none"
            BY <2>1, <3>1, <3>3 DEF OrNotFound, Redirect
        <3>4. QED BY <3>1, <3>2, <3>3
    <2>4. QED BY <1>5, <2>3
<1>6. CASE link # NoLink /\ ~link.expired /\ ~link.active
    <2>1. answer = NotFound(TRUE)
        BY <1>6 DEF ResolveLink
    <2>2. answer.to = "page"
        BY <2>1 DEF NotFound
    <2>3. QED BY <1>6, <2>2
<1>7. CASE link # NoLink /\ ~link.expired /\ link.active /\ link.parses
    <2>1. answer = Redirect("target", TRUE)
        BY <1>7 DEF ResolveLink
    <2>2. answer.to = "target"
        BY <2>1 DEF Redirect
    <2>3. QED BY <1>7, <2>2
<1>8. CASE link # NoLink /\ ~link.expired /\ link.active /\ ~link.parses
    <2>1. answer = OrNotFound(link, site, TRUE)
        BY <1>8 DEF ResolveLink
    <2>2. link.fallback \in {"none", "own", "missing"}
        BY <1>2, <1>8
    <2>3. answer.to \in {"own", "shared", "page"}
        <3>1. FallbackFor(link, site) \in {"own", "none", "shared"}
            BY <1>3, <2>2
        <3>2. CASE FallbackFor(link, site) = "none"
            BY <2>1, <3>2 DEF OrNotFound, NotFound
        <3>3. CASE FallbackFor(link, site) # "none"
            BY <2>1, <3>1, <3>3 DEF OrNotFound, Redirect
        <3>4. QED BY <3>1, <3>2, <3>3
    <2>4. QED BY <1>8, <2>3
<1>9. QED BY <1>4, <1>5, <1>6, <1>7, <1>8

-----------------------------------------------------------------------------
(* Resolution: the steps.                                                  *)

\* A request that comes in: what it finds of its host in the map is there.
LEMMA AskStep ==
    ASSUME RInv, NEW q \in Requests, NEW host \in Hosts, Ask(q, host)
    PROVE  RInv'
<1> DEFINE r == [NoRequest EXCEPT
                   !.host = host, !.steady = TRUE,
                   !.pc   = IF Hit(host) THEN "found" ELSE "query",
                   !.site = IF Hit(host) THEN Row(host) ELSE NoSite]
<1>1. /\ Become(q, r) /\ entries' = Purged(host)
      /\ UNCHANGED <<clock, sites, links, until, edits>>
    BY DEF Ask
<1>2. Hit(host) => Row(host) \in SiteRow
    <2>1. entries \in Seq(EntryOf)
        BY DEF RInv, ResolverTypeOK, EntryOf
    <2>2. SUFFICES ASSUME Hit(host) PROVE Row(host) \in SiteRow
        OBVIOUS
    <2>3. \E e \in {entries[i] : i \in At(host)} : TRUE
        BY <2>2 DEF Hit
    <2>4. ASSUME NEW e \in {entries[i] : i \in At(host)} PROVE e.row \in SiteRow
        <3>1. PICK i \in At(host) : e = entries[i]
            OBVIOUS
        <3>2. e \in EntryOf
            BY <2>1, <3>1 DEF At
        <3>3. QED BY <3>2 DEF EntryOf
    <2>5. QED BY <2>3, <2>4 DEF Row
<1>3. r \in RequestOf /\ r.host = host /\ r.pc \in {"found", "query"}
    <2>1. NoRequest \in RequestOf
        BY ResolverNumbers DEF NoRequest, RequestOf, SiteRow
    <2> DEFINE pc == IF Hit(host) THEN "found" ELSE "query"
               found1 == IF Hit(host) THEN Row(host) ELSE NoSite
    <2>2. pc \in {"found", "query"} /\ found1 \in SiteRow
        BY <1>2 DEF SiteRow
    <2> HIDE DEF pc, found1
    <2>3. r = [NoRequest EXCEPT !.host = host, !.steady = TRUE, !.pc = pc, !.site = found1]
        BY DEF r, pc, found1
    <2>4. QED BY <2>1, <2>2, <2>3 DEF RequestOf
<1> HIDE DEF r
<1>4. AnswersFit' /\ LinksAreLive' /\ req' \in [Requests -> RequestOf]
    BY <1>1, <1>3, AnswersKept
<1>5. MapOK(entries') /\ \A k \in DOMAIN entries' : \E i \in DOMAIN entries : entries'[k] = entries[i]
    BY <1>1, Purges DEF RInv
<1>6. EntriesFit'
    BY <1>1, <1>5, MapKept
<1>7. ResolverTypeOK'
    BY <1>1, <1>4, <1>5 DEF RInv, ResolverTypeOK, MapOK, EntryOf, RequestOf
<1>8. QED BY <1>4, <1>6, <1>7 DEF RInv

\* A statement for the host's row reads it.
LEMMA SnapshotStep ==
    ASSUME RInv, NEW q \in Requests, SiteSnapshot(q)
    PROVE  RInv'
<1> DEFINE r == [req[q] EXCEPT !.pc = "answering", !.site = sites[req[q].host], !.since = clock]
<1>1. /\ Become(q, r) /\ entries' = entries /\ req[q].pc = "query"
      /\ UNCHANGED <<clock, sites, links, until, edits>>
    BY DEF SiteSnapshot
<1>2. req[q] \in RequestOf /\ req[q].host \in Hosts /\ clock \in 0..MaxTime /\ clock \in Nat
    BY <1>1, ResolverNumbers DEF RInv, ResolverTypeOK, AnswersFit, RequestOf
<1>3. sites[req[q].host] \in SiteRow /\ sites[req[q].host] \in SiteRows[req[q].host]
    BY <1>2 DEF RInv, ResolverTypeOK
<1>4. /\ r \in RequestOf /\ r.host = req[q].host /\ r.pc = "answering"
      /\ r.site = sites[req[q].host] /\ r.since = clock
    BY <1>2, <1>3 DEF RequestOf
<1> HIDE DEF r
<1>5. UntilAt(r.host, r.site, r.since)
    BY <1>4 DEF UntilAt
<1>6. clock <= clock + QueryTime /\ clock <= clock
    BY <1>2, ResolverNumbers
<1>7. AnswersFit' /\ LinksAreLive' /\ req' \in [Requests -> RequestOf]
    BY <1>1, <1>2, <1>3, <1>4, <1>5, <1>6, AnswersKept
<1>8. MapOK(entries') /\ \A k \in DOMAIN entries' : \E i \in DOMAIN entries : entries'[k] = entries[i]
    BY <1>1 DEF RInv, ResolverTypeOK, MapOK, EntryOf
<1>9. EntriesFit'
    BY <1>1, <1>8, MapKept
<1>10. ResolverTypeOK'
    BY <1>1, <1>7, <1>8 DEF RInv, ResolverTypeOK, MapOK, EntryOf, RequestOf
<1>11. QED BY <1>7, <1>9, <1>10 DEF RInv

\* Its answer arrives, and goes into the map: late or not, what it says was so
\* when its statement read.
LEMMA SiteAnswerStep ==
    ASSUME RInv, NEW q \in Requests, SiteAnswer(q)
    PROVE  RInv'
<1> DEFINE r == [req[q] EXCEPT !.pc = "found", !.since = 0]
           h == req[q].host
           s == req[q].site
<1>1. /\ Become(q, r) /\ entries' = Put(h, s) /\ req[q].pc = "answering"
      /\ UNCHANGED <<clock, sites, links, until, edits>>
    BY DEF SiteAnswer
<1>2. /\ req[q] \in RequestOf /\ h \in Hosts /\ s \in SiteRow /\ s \in SiteRows[h]
      /\ clock <= req[q].since + QueryTime /\ UntilAt(h, s, req[q].since)
      /\ clock \in Int /\ req[q].since \in Int /\ QueryTime \in Int
    BY <1>1, ResolverNumbers DEF RInv, ResolverTypeOK, AnswersFit, RequestOf
<1>3. r \in RequestOf /\ r.host = h /\ r.pc = "found"
    <2>1. 0 \in 0..MaxTime
        BY ResolverNumbers
    <2>2. QED BY <1>2, <2>1 DEF RequestOf
<1> HIDE DEF r, h, s
<1>4. AnswersFit' /\ LinksAreLive' /\ req' \in [Requests -> RequestOf]
    BY <1>1, <1>2, <1>3, AnswersKept
<1>5. UntilAt(h, s, clock - QueryTime)
    <2>1. clock - QueryTime \in Int /\ clock - QueryTime <= req[q].since
        BY <1>2
    <2>2. QED BY <1>2, <2>1, UntilBefore DEF RInv
<1>6. MapOK(entries')
    BY <1>1, <1>2, Puts DEF RInv
<1>7. ASSUME NEW k \in DOMAIN entries'
      PROVE  \/ \E i \in DOMAIN entries : entries'[k] = entries[i]
             \/ /\ entries'[k].row \in SiteRows[entries'[k].host] /\ entries'[k].expires = clock + TTL
                /\ UntilAt(entries'[k].host, entries'[k].row, clock - QueryTime)
    <2>1. entries'[k] = Entry(h, s) \/ \E i \in DOMAIN entries : entries'[k] = entries[i]
        BY <1>1, <1>2, Puts DEF RInv
    <2>2. Entry(h, s).row = s /\ Entry(h, s).host = h /\ Entry(h, s).expires = clock + TTL
        BY DEF Entry
    <2>3. QED BY <1>2, <1>5, <2>1, <2>2
<1>8. EntriesFit'
    BY <1>1, <1>6, <1>7, MapKept
<1>9. ResolverTypeOK'
    BY <1>1, <1>4, <1>6 DEF RInv, ResolverTypeOK, MapOK, EntryOf, RequestOf
<1>10. QED BY <1>4, <1>8, <1>9 DEF RInv

\* A request that ends, or fails, or is answered by its link.
LEMMA EndStep ==
    ASSUME RInv, NEW q \in Requests, QueryFails(q) \/ AnswerWithout(q) \/ AnswerLink(q)
    PROVE  RInv'
<1>1. entries' = entries /\ UNCHANGED <<clock, sites, links, until, edits>>
    BY DEF QueryFails, AnswerWithout, AnswerLink
<1>2. AnswersFit' /\ LinksAreLive' /\ req' \in [Requests -> RequestOf]
    <2>1. CASE Become(q, NoRequest)
        <3>1. NoRequest \in RequestOf /\ NoRequest.pc = "idle"
            BY ResolverNumbers DEF NoRequest, RequestOf, SiteRow
        <3>2. QED BY <1>1, <2>1, <3>1, AnswersKept
    <2>2. CASE AnswerLink(q)
        <3> DEFINE link == IF sites[req[q].host].id = req[q].site.id THEN links[req[q].host] ELSE NoLink
                   answer == ResolveLink(req[q].site, link).to
                   r == [req[q] EXCEPT !.pc = "done", !.served = answer, !.since = 0]
        <3>1. Become(q, r) /\ req[q].pc = "found"
            BY <2>2 DEF AnswerLink, Done
        <3>2. req[q] \in RequestOf /\ req[q].host \in Hosts /\ req[q].site \in SiteRow
            BY <3>1 DEF RInv, ResolverTypeOK, AnswersFit, RequestOf
        <3>3. link \in LinkRow \cup {NoLink}
            BY <3>2 DEF RInv, ResolverTypeOK
        <3> HIDE DEF link
        <3>4. /\ answer \in {"target", "own", "shared", "page"}
              /\ answer = "target" <=> link.active /\ ~link.expired /\ link.parses
              /\ link # NoLink /\ ~link.active /\ ~link.expired => answer = "page"
            BY <3>2, <3>3, AnswerIs
        <3> HIDE DEF answer
        <3>5. /\ r \in RequestOf /\ r.pc = "done" /\ r.host = req[q].host /\ r.site = req[q].site
              /\ r.served = answer
            <4>1. 0 \in 0..MaxTime /\ answer \in {"none", "target", "own", "shared", "page"}
                BY <3>4, ResolverNumbers
            <4>2. QED BY <3>2, <4>1 DEF RequestOf
        <3> HIDE DEF r
        <3>6. link = IF sites[r.host].id = r.site.id THEN links[r.host] ELSE NoLink
            BY <3>5 DEF link
        <3>7. QED BY <1>1, <3>1, <3>4, <3>5, <3>6, AnswersKept
    <2>3. QED BY <2>1, <2>2 DEF QueryFails, AnswerWithout
<1>3. MapOK(entries') /\ \A k \in DOMAIN entries' : \E i \in DOMAIN entries : entries'[k] = entries[i]
    BY <1>1 DEF RInv, ResolverTypeOK, MapOK, EntryOf
<1>4. EntriesFit'
    BY <1>1, <1>3, MapKept
<1>5. ResolverTypeOK'
    BY <1>1, <1>2, <1>3 DEF RInv, ResolverTypeOK, MapOK, EntryOf, RequestOf
<1>6. QED BY <1>2, <1>4, <1>5 DEF RInv

\* Requests that were under way when the panel changed something: none of them
\* is answered yet, and an answer on its way to one is the answer it was.
LEMMA Unsettles ==
    ASSUME RInv, NEW host \in Hosts, Unsteady(host), clock' = clock,
           \A h \in Hosts : \A site \in SiteRows[h] : \A t \in Int :
              t <= clock /\ UntilAt(h, site, t) => UntilAfter(h, site, t)
    PROVE  AnswersFit' /\ LinksAreLive' /\ req' \in [Requests -> RequestOf]
<1>1. NoRequest \in RequestOf /\ NoRequest.pc = "idle"
    BY ResolverNumbers DEF NoRequest, RequestOf, SiteRow
<1>2. req \in [Requests -> RequestOf]
    BY DEF RInv, ResolverTypeOK, RequestOf
<1>3. ASSUME NEW q \in Requests
      PROVE  /\ req'[q] \in RequestOf /\ req'[q].pc # "done"
             /\ req'[q].pc \in {"query", "answering", "found"} =>
                  /\ req'[q].pc = req[q].pc /\ req'[q].host = req[q].host
                  /\ req'[q].site = req[q].site /\ req'[q].since = req[q].since
    <2> DEFINE r == [req[q] EXCEPT !.steady = FALSE]
    <2>1. /\ r \in RequestOf /\ r.pc = req[q].pc /\ r.host = req[q].host
          /\ r.site = req[q].site /\ r.since = req[q].since
        BY <1>2 DEF RequestOf
    <2>2. req'[q] = IF req[q].host = host THEN Over(r) ELSE Over(req[q])
        BY DEF Unsteady
    <2> HIDE DEF r
    <2>3. req'[q] \in {r, req[q], NoRequest} /\ req'[q].pc # "done"
        BY <1>1, <2>2 DEF Over
    <2>4. QED BY <1>1, <1>2, <2>1, <2>3
<1>4. req' \in [Requests -> RequestOf]
    <2>1. DOMAIN req' = Requests /\ req' = [q \in Requests |-> req'[q]]
        BY DEF Unsteady
    <2>2. QED BY <1>3, <2>1
<1>5. LinksAreLive'
    BY <1>3 DEF LinksAreLive
<1>6. ASSUME NEW q \in Requests, req'[q].pc = "answering"
      PROVE  /\ req'[q].site \in SiteRows[req'[q].host]
             /\ req'[q].since <= clock' /\ clock' <= req'[q].since + QueryTime
             /\ UntilAfter(req'[q].host, req'[q].site, req'[q].since)
    <2>1. /\ req[q].pc = "answering" /\ req'[q].host = req[q].host
          /\ req'[q].site = req[q].site /\ req'[q].since = req[q].since
        BY <1>3, <1>6
    <2>2. /\ req[q].site \in SiteRows[req[q].host] /\ req[q].host \in Hosts
          /\ req[q].since <= clock /\ clock <= req[q].since + QueryTime
          /\ UntilAt(req[q].host, req[q].site, req[q].since)
        BY <2>1 DEF RInv, AnswersFit
    <2>3. req[q].since \in Int
        BY <1>2, ResolverNumbers DEF RequestOf
    <2>4. req[q].since <= clock /\ req[q].since \in Int => UntilAfter(req[q].host, req[q].site, req[q].since)
        BY <2>2
    <2>5. QED BY <2>1, <2>2, <2>3, <2>4
<1>7. AnswersFit'
    <2>1. ASSUME NEW q \in Requests, req'[q].pc \in {"query", "answering", "found"}
          PROVE  req'[q].host \in Hosts
        BY <1>3, <2>1 DEF RInv, AnswersFit
    <2>2. QED BY <1>6, <2>1 DEF AnswersFit, UntilAt, UntilAfter
<1>8. QED BY <1>4, <1>5, <1>7

\* The panel changes a host or its link.
LEMMA EditStep ==
    ASSUME RInv, NEW host \in Hosts, SetSite(host) \/ SetLink(host)
    PROVE  RInv'
<1>1. /\ Unsteady(host) /\ UNCHANGED <<clock, entries>>
    BY DEF SetSite, SetLink
<1>2. /\ sites' \in [Hosts -> SiteRow] /\ \A h \in Hosts : sites'[h] \in SiteRows[h]
      /\ links' \in [Hosts -> LinkRow \cup {NoLink}]
      /\ DOMAIN until' = Hosts /\ \A h \in Hosts : until'[h] \in [SiteRows[h] -> -1..MaxTime]
      /\ \A h \in Hosts : \A site \in SiteRows[h] : \A t \in Int :
            t <= clock /\ UntilAt(h, site, t) => UntilAfter(h, site, t)
    <2>1. CASE SetSite(host)
        <3>1. PICK new \in SiteRows[host] \ {sites[host]} :
                 /\ sites' = [sites EXCEPT ![host] = new]
                 /\ until' = [until EXCEPT ![host][sites[host]] = clock]
                 /\ links' = [links EXCEPT ![host] = IF new = NoSite THEN NoLink ELSE @]
            BY <2>1 DEF SetSite
        <3>2. new \in SiteRow
            BY ResolverConstants
        <3>3. links' \in [Hosts -> LinkRow \cup {NoLink}]
            BY <3>1 DEF RInv, ResolverTypeOK
        <3>4. sites' \in [Hosts -> SiteRow] /\ \A h \in Hosts : sites'[h] \in SiteRows[h]
            BY <3>1, <3>2 DEF RInv, ResolverTypeOK
        <3>5. DOMAIN until' = Hosts /\ \A h \in Hosts : until'[h] \in [SiteRows[h] -> -1..MaxTime]
            <4>1. clock \in -1..MaxTime
                BY ResolverNumbers DEF RInv, ResolverTypeOK
            <4>2. QED BY <3>1, <4>1 DEF RInv, ResolverTypeOK
        <3>6. ASSUME NEW h \in Hosts, NEW site \in SiteRows[h], NEW t \in Int, t <= clock, UntilAt(h, site, t)
              PROVE  UntilAfter(h, site, t)
            <4>1. UntilAt(h, site, t)'
                BY <3>1, <3>6, UntilHolds DEF RInv
            <4>2. QED BY <4>1 DEF UntilAt, UntilAfter
        <3>7. QED BY <3>3, <3>4, <3>5, <3>6
    <2>2. CASE SetLink(host)
        <3>1. UNCHANGED <<sites, until>> /\ \E new \in LinkRows : links' = [links EXCEPT ![host] = new]
            BY <2>2 DEF SetLink
        <3>2. links' \in [Hosts -> LinkRow \cup {NoLink}]
            BY <3>1, ResolverConstants DEF RInv, ResolverTypeOK
        <3>3. QED BY <3>1, <3>2 DEF RInv, ResolverTypeOK, UntilAt, UntilAfter
    <2>3. QED BY <2>1, <2>2
<1>3. AnswersFit' /\ LinksAreLive' /\ req' \in [Requests -> RequestOf]
    BY <1>1, <1>2, Unsettles
<1>4. EntriesFit'
    <2>1. ASSUME NEW i \in DOMAIN entries
          PROVE  LET e == entries[i] IN
                 /\ e.row \in SiteRows[e.host] /\ e.expires <= clock + TTL
                 /\ UntilAfter(e.host, e.row, e.expires - (TTL + QueryTime))
        <3> DEFINE e == entries[i]
                   t == e.expires - (TTL + QueryTime)
        <3>1. e \in EntryOf
            <4>1. entries \in Seq(EntryOf)
                BY DEF RInv, ResolverTypeOK, EntryOf
            <4>2. QED BY <4>1
        <3>2. e.row \in SiteRows[e.host] /\ e.expires <= clock + TTL /\ UntilAt(e.host, e.row, t)
            BY DEF RInv, EntriesFit
        <3>3. t \in Int /\ t <= clock
            <4>1. e.expires \in Int /\ clock \in Int
                BY <3>1, ResolverNumbers DEF EntryOf, RInv, ResolverTypeOK
            <4> HIDE DEF e
            <4>2. QED BY <3>2, <4>1, ResolverNumbers
        <3>4. e.host \in Hosts
            BY <3>1 DEF EntryOf
        <3> HIDE DEF e, t
        <3>5. UntilAfter(e.host, e.row, t)
            BY <1>2, <3>2, <3>3, <3>4
        <3>6. QED BY <3>2, <3>5 DEF e, t
    <2>2. QED BY <1>1, <2>1 DEF EntriesFit, UntilAt, UntilAfter
<1>5. ResolverTypeOK'
    BY <1>1, <1>2, <1>3 DEF RInv, ResolverTypeOK, RequestOf
<1>6. QED BY <1>3, <1>4, <1>5 DEF RInv

\* Time passes, for no statement longer than a query may take.
LEMMA PassesStep ==
    ASSUME RInv, Passes
    PROVE  RInv'
<1>1. /\ clock < MaxTime /\ clock' = clock + 1 /\ UNCHANGED <<until, sites, links, entries, req, edits>>
      /\ \A q \in Requests : req[q].pc = "answering" => clock < req[q].since + QueryTime
    BY DEF Passes
<1>2. clock \in Nat /\ clock' \in 0..MaxTime
    BY <1>1, ResolverNumbers DEF RInv, ResolverTypeOK
<1>3. \A h, site, t : UntilAt(h, site, t)' <=> UntilAt(h, site, t)
    BY <1>1 DEF UntilAt
<1>4. req \in [Requests -> RequestOf]
    BY DEF RInv, ResolverTypeOK, RequestOf
<1>5. ASSUME NEW q \in Requests, req[q].pc = "answering"
      PROVE  req[q].since <= clock' /\ clock' <= req[q].since + QueryTime
    <2>1. req[q].since \in Nat /\ req[q].since <= clock
        BY <1>4, <1>5, ResolverNumbers DEF RequestOf, RInv, AnswersFit
    <2>2. QED BY <1>1, <1>2, <1>5, <2>1, ResolverNumbers
<1>6. AnswersFit'
    BY <1>1, <1>3, <1>5 DEF RInv, AnswersFit
<1>7. ASSUME NEW i \in DOMAIN entries
      PROVE  entries[i].expires <= clock' + TTL
    <2>1. entries[i].expires \in Int /\ entries[i].expires <= clock + TTL
        <3>1. entries \in Seq(EntryOf)
            BY DEF RInv, ResolverTypeOK, EntryOf
        <3>2. entries[i] \in EntryOf
            BY <3>1
        <3>3. QED BY <3>2 DEF EntryOf, RInv, EntriesFit
    <2>2. QED BY <1>1, <1>2, <2>1, ResolverNumbers
<1>8. EntriesFit'
    BY <1>1, <1>3, <1>7 DEF RInv, EntriesFit
<1>9. LinksAreLive'
    BY <1>1 DEF RInv, LinksAreLive
<1>10. ResolverTypeOK'
    BY <1>1, <1>2 DEF RInv, ResolverTypeOK
<1>11. QED BY <1>6, <1>8, <1>9, <1>10 DEF RInv

\* The invariant holds to begin with.
LEMMA ResolverStarts == ResolverInit => RInv
<1> SUFFICES ASSUME ResolverInit PROVE RInv
    OBVIOUS
<1>1. /\ clock = 0 /\ \A h \in Hosts : sites[h] \in SiteRows[h]
      /\ DOMAIN sites = Hosts
      /\ links = [h \in Hosts |-> IF sites[h] = NoSite THEN NoLink ELSE Live]
      /\ until = [h \in Hosts |-> [r \in SiteRows[h] |-> -1]]
      /\ entries = <<>> /\ req = [q \in Requests |-> NoRequest]
    BY DEF ResolverInit
<1>2. sites \in [Hosts -> SiteRow]
    <2>1. \A h \in Hosts : sites[h] \in SiteRow
        BY <1>1, ResolverConstants
    <2>2. sites = [h \in Hosts |-> sites[h]]
        BY DEF ResolverInit
    <2>3. QED BY <2>1, <2>2
<1>3. Live \in LinkRow
    BY DEF Live, LinkRow
<1>4. NoRequest \in RequestOf /\ NoRequest.pc = "idle"
    BY ResolverNumbers DEF NoRequest, RequestOf, SiteRow
<1>5. -1 \in -1..MaxTime /\ 0 \in 0..MaxTime /\ MaxEntries \in Nat
    BY ResolverNumbers
<1>6. /\ links \in [Hosts -> LinkRow \cup {NoLink}]
      /\ DOMAIN until = Hosts /\ \A h \in Hosts : until[h] \in [SiteRows[h] -> -1..MaxTime]
      /\ req \in [Requests -> RequestOf]
    BY <1>1, <1>3, <1>4, <1>5
<1>7. /\ entries \in Seq(EntryOf) /\ Len(entries) = 0 /\ DOMAIN entries = {}
    BY <1>1
<1>8. ResolverTypeOK
    BY <1>1, <1>2, <1>5, <1>6, <1>7 DEF ResolverTypeOK, EntryOf, RequestOf
<1>9. EntriesFit
    BY <1>7 DEF EntriesFit
<1>10. AnswersFit /\ LinksAreLive
    BY <1>1, <1>4 DEF AnswersFit, LinksAreLive
<1>11. QED BY <1>8, <1>9, <1>10 DEF RInv

\* Every step of a request, of the panel and of the clock keeps the invariant.
LEMMA ResolverStep == RInv /\ [ResolverNext]_rvars => RInv'
<1> SUFFICES ASSUME RInv, [ResolverNext]_rvars PROVE RInv'
    OBVIOUS
<1>1. CASE \E q \in Requests : \E h \in Hosts : Ask(q, h)
    BY <1>1, AskStep
<1>2. CASE \E q \in Requests : SiteSnapshot(q)
    BY <1>2, SnapshotStep
<1>3. CASE \E q \in Requests : SiteAnswer(q)
    BY <1>3, SiteAnswerStep
<1>4. CASE \E q \in Requests : QueryFails(q) \/ AnswerWithout(q) \/ AnswerLink(q)
    BY <1>4, EndStep
<1>5. CASE \E h \in Hosts : SetSite(h) \/ SetLink(h)
    BY <1>5, EditStep
<1>6. CASE Passes
    BY <1>6, PassesStep
<1>7. CASE UNCHANGED rvars
    <2>1. \A h, site, t : UntilAt(h, site, t)' <=> UntilAt(h, site, t)
        BY <1>7 DEF rvars, UntilAt
    <2>2. QED BY <1>7, <2>1 DEF rvars, RInv, ResolverTypeOK, EntriesFit, AnswersFit, LinksAreLive
<1>8. QED BY <1>1, <1>2, <1>3, <1>4, <1>5, <1>6, <1>7 DEF ResolverNext

\* RInv is an invariant of the resolver.
THEOREM ResolverInductive == ResolverSpec => []RInv
BY ResolverStarts, ResolverStep, PTL DEF ResolverSpec

\* For every number of hosts, of requests under way and of entries in the map,
\* and for every time to live and query timeout, a row the map serves was its
\* host's row no longer ago than the one and the other together, late answers
\* that overwrite newer ones included.
LEMMA HostsServedRecently == ResolverSpec => []ServedRecently
<1>1. ASSUME RInv PROVE ServedRecently
    <2> SUFFICES ASSUME NEW i \in DOMAIN entries, ~Expired(entries[i])
                 PROVE  entries[i].row \in Lately(entries[i].host)
        BY DEF ServedRecently
    <2> DEFINE e == entries[i]
    <2>1. e \in EntryOf /\ clock \in Nat
        <3>1. entries \in Seq(EntryOf) /\ clock \in Nat
            BY <1>1, ResolverNumbers DEF RInv, ResolverTypeOK, EntryOf
        <3>2. QED BY <3>1
    <2>2. e.row \in SiteRows[e.host] /\ UntilAt(e.host, e.row, e.expires - (TTL + QueryTime))
        BY <1>1 DEF RInv, EntriesFit
    <2>3. e.host \in Hosts /\ e.expires \in Nat
        BY <2>1 DEF EntryOf
    <2>4. until[e.host][e.row] \in Int
        BY <1>1, <2>2, <2>3, ResolverNumbers DEF RInv, ResolverTypeOK
    <2>5. ~(clock >= e.expires)
        BY DEF Expired
    <2> HIDE DEF e
    <2>6. e.row = sites[e.host] \/ (until[e.host][e.row] # -1 /\ until[e.host][e.row] + TTL + QueryTime > clock)
        BY <2>1, <2>2, <2>3, <2>4, <2>5, ResolverNumbers DEF UntilAt
    <2>7. e.row \in Lately(e.host)
        BY <2>2, <2>6 DEF Lately
    <2>8. QED BY <2>7 DEF e
<1>2. QED BY <1>1, ResolverInductive, PTL

\* A request nobody has touched the host or the link of since it came in is
\* answered by the link as it is, through however old a row of the host.
LEMMA LinksAnswerLive == ResolverSpec => []LinksAreLive
<1>1. RInv => LinksAreLive
    BY DEF RInv
<1>2. QED BY <1>1, ResolverInductive, PTL

\* Both, of whatever a visitor is answered (resolve.mjs, createResolver).
THEOREM AnswersStayFresh == ResolverSpec => []AnswersAreFresh
<1>1. ServedRecently /\ LinksAreLive => AnswersAreFresh
    BY DEF AnswersAreFresh
<1>2. QED BY <1>1, HostsServedRecently, LinksAnswerLive, PTL

-----------------------------------------------------------------------------
(* Keeping the geolocation databases current.                              *)

\* The numbers among the constants, and the editions by their place.
LEMMA GeoNumbers ==
    /\ Week \in Nat /\ Week > 1 /\ Rebuild \in Nat /\ Rebuild > 0 /\ MaxGeoTime \in Nat /\ MaxLosses \in Nat
    /\ DOMAIN Editions = 1..Len(Editions) /\ Len(Editions) \in Nat
    /\ \A i \in 1..Len(Editions) : Editions[i] \in Eds
    /\ \A e \in Eds : \E i \in 1..Len(Editions) : e = Editions[i]
BY GeoRefreshConstants DEF Eds

\* There are finitely many editions.
LEMMA EdsFinite == IsFiniteSet(Eds)
<1>1. Editions \in Surjection(1..Len(Editions), Eds)
    <2>1. Editions \in [1..Len(Editions) -> Eds]
        <3>1. Editions \in [1..Len(Editions) -> STRING]
            BY GeoRefreshConstants
        <3>2. QED BY <3>1, GeoNumbers
    <2>2. QED BY <2>1, GeoNumbers DEF Surjection
<1>2. IsFiniteSet(1..Len(Editions))
    BY GeoNumbers, FS_Interval
<1>3. QED BY <1>1, <1>2, FS_Surjection

\* Quotients put numbers in order.
LEMMA Multiples ==
    ASSUME NEW W \in Nat \ {0}, NEW t \in Nat
    PROVE  \E q \in Nat : t = W * q + (t % W) /\ t % W \in 0..(W - 1)
<1> DEFINE q == t \div W
<1>1. q \in Nat /\ t = W * q + (t % W) /\ t % W \in 0..(W - 1)
    OBVIOUS
<1> HIDE DEF q
<1>2. QED BY <1>1

\* Weeks follow each other: a week after one is the next, and there is none
\* between.
LEMMA NextWeek ==
    ASSUME NEW s \in Nat, s % Week = 0
    PROVE  /\ (s + Week) % Week = 0
           /\ \A t \in Nat : t % Week = 0 /\ s < t /\ t <= s + Week => t = s + Week
<1>1. Week \in Nat \ {0} /\ Week > 0
    BY GeoNumbers
<1>2. PICK n \in Nat : s = Week * n
    <2>1. PICK q \in Nat : s = Week * q + (s % Week)
        BY <1>1, Multiples
    <2>2. QED BY <1>1, <2>1
<1>3. (s + Week) % Week = 0
    BY <1>1, <1>2
<1>4. ASSUME NEW t \in Nat, t % Week = 0, s < t, t <= s + Week
      PROVE  t = s + Week
    <2>1. PICK m \in Nat : t = Week * m
        <3>1. PICK q \in Nat : t = Week * q + (t % Week)
            BY <1>1, Multiples
        <3>2. QED BY <1>1, <1>4, <3>1
    <2>2. m > n
        BY <1>1, <1>2, <1>4, <2>1
    <2>3. m <= n + 1
        BY <1>1, <1>2, <1>4, <2>1
    <2>4. m = n + 1
        BY <2>2, <2>3
    <2>5. QED BY <1>1, <1>2, <2>1, <2>4
<1>5. QED BY <1>3, <1>4

\* A build is less than the time between two old, and a later one no older.
LEMMA BuildsCome ==
    /\ \A t \in Nat : Build(t) \in Nat /\ Build(t) <= t /\ t < Build(t) + Rebuild
    /\ \A s, t \in Nat : s <= t => Build(s) <= Build(t)
<1>1. Rebuild \in Nat \ {0}
    BY GeoNumbers
<1>2. ASSUME NEW t \in Nat
      PROVE  \E q \in Nat : Build(t) = Rebuild * q /\ Build(t) \in Nat /\ Build(t) <= t /\ t < Build(t) + Rebuild
    <2>1. PICK q \in Nat : t = Rebuild * q + (t % Rebuild) /\ t % Rebuild \in 0..(Rebuild - 1)
        BY <1>1, Multiples
    <2> DEFINE b == Rebuild * q
               r == t % Rebuild
    <2>2. b \in Nat /\ r \in 0..(Rebuild - 1) /\ t = b + r /\ Build(t) = t - r
        BY <1>1, <2>1 DEF Build
    <2> HIDE DEF b, r
    <2>3. Build(t) = b
        BY <1>1, <2>2
    <2>4. b \in Nat /\ b <= t /\ t < b + Rebuild
        BY <1>1, <2>2
    <2>5. QED BY <2>3, <2>4 DEF b
<1>3. ASSUME NEW s \in Nat, NEW t \in Nat, s <= t
      PROVE  Build(s) <= Build(t)
    <2>1. PICK p \in Nat : Build(s) = Rebuild * p /\ Build(s) \in Nat /\ Build(s) <= s
        BY <1>2
    <2>2. PICK q \in Nat : Build(t) = Rebuild * q /\ Build(t) \in Nat /\ t < Build(t) + Rebuild
        BY <1>2
    <2>3. Rebuild * p < Rebuild * (q + 1)
        <3>1. Build(s) < Build(t) + Rebuild
            BY <1>1, <1>3, <2>1, <2>2
        <3>2. Rebuild * (q + 1) = Rebuild * q + Rebuild
            BY <1>1
        <3>3. QED BY <2>1, <2>2, <3>1, <3>2
    <2>4. p <= q
        BY <1>1, <2>3
    <2>5. Rebuild * p <= Rebuild * q
        BY <1>1, <2>4
    <2>6. QED BY <2>1, <2>2, <2>5
<1>4. QED BY <1>2, <1>3

\* Unless a file was lost, what the lookup has open, and what the round has found,
\* is no newer than what is on disk, and what the round has found no older than
\* what is open.
OnDisk ==
    /\ \A e \in Eds : disk[e] <= geoTime
    /\ losses = 0 =>
          /\ \A e \in Eds : loaded[e] <= BuiltAt(e) /\ found[e] <= BuiltAt(e)
          /\ \A i \in 1..Len(Editions) : i < round => loaded[Editions[i]] <= found[Editions[i]]

\* The interval fires on the week, nothing comes before the first, and a round is
\* over by the next tick.
RoundsOnTime ==
    /\ round # 0 => began <= geoTime /\ geoTime <= began + 1
    /\ ~halted =>
          /\ fired = -1 => round = 0 /\ ~retry /\ ~current /\ loaded = None /\ geoTime = 0
          /\ fired # -1 => fired % Week = 0 /\ fired <= geoTime /\ geoTime <= fired + Week

\* What is open is what was named, all of it unless a file was lost, and nothing
\* without a lookup.
Named ==
    /\ \A e \in Eds : loaded[e] \in {-1, signature[e]}
    /\ losses = 0 /\ ~halted => loaded = signature
    /\ ~current => loaded = None

\* How old the builds are, while every download succeeds: what a round has found,
\* between rounds what is open, and what is open while the next round is under way.
\* No retry is needed then.
Oldest == Week + Rebuild - 1
KeptYoung ==
    ~failed /\ losses = 0 /\ ~halted =>
        /\ \A e \in Eds : ~retry /\ (round # 0 => began = fired /\ fired # -1)
        /\ \A i \in 1..Len(Editions) : i < round =>
              found[Editions[i]] > fired - Oldest /\ found[Editions[i]] >= 0
        /\ round = 0 /\ fired # -1 => \A e \in Eds : loaded[e] > fired - Oldest /\ loaded[e] >= 0
        /\ round # 0 => \A e \in Eds : loaded[e] # -1 =>
              /\ geoTime - loaded[e] <= Week + Oldest
              /\ geoTime = fired => loaded[e] > fired - Week - Oldest

\* There is a lookup or another attempt due, and nothing once stopped; without a
\* lookup nothing is open, and with one, unless a file was lost or a download
\* failed, everything is.
GoesOn ==
    /\ ~halted /\ round = 0 /\ fired # -1 => current \/ retry
    /\ halted => ~current /\ loaded = None /\ ~retry
    /\ ~failed /\ losses = 0 /\ ~halted => \A e \in Eds : loaded[e] = -1 => ~current

GInv == GeoRefreshTypeOK /\ OnDisk /\ RoundsOnTime /\ Named /\ KeptYoung /\ GoesOn

\* The types of the state, one variable at a time.
LEMMA GeoTypes ==
    ASSUME GeoRefreshTypeOK
    PROVE  /\ geoTime \in Nat /\ geoTime \in 0..MaxGeoTime
           /\ fired \in Int /\ fired >= -1 /\ began \in Int /\ began >= -1
           /\ \A e \in Eds : disk[e] \in Int /\ disk[e] >= -1
           /\ \A e \in Eds : found[e] \in Int /\ found[e] >= -1
           /\ \A e \in Eds : loaded[e] \in Int /\ loaded[e] >= -1
           /\ \A e \in Eds : signature[e] \in Int /\ signature[e] >= -1
           /\ round \in Nat /\ round <= Len(Editions) + 1
           /\ current \in BOOLEAN /\ retry \in BOOLEAN /\ halted \in BOOLEAN /\ failed \in BOOLEAN
           /\ losses \in Nat
BY GeoNumbers DEF GeoRefreshTypeOK

\* What it takes to keep the types: those of what changes, one variable at a time.
LEMMA GeoTypesStay ==
    ASSUME geoTime' \in 0..MaxGeoTime, began' \in -1..MaxGeoTime, fired' \in -1..MaxGeoTime,
           disk' \in [Eds -> -1..MaxGeoTime], found' \in [Eds -> -1..MaxGeoTime],
           loaded' \in [Eds -> -1..MaxGeoTime], signature' \in [Eds -> -1..MaxGeoTime],
           round' \in 0..(Len(Editions) + 1),
           current' \in BOOLEAN, retry' \in BOOLEAN, halted' \in BOOLEAN, failed' \in BOOLEAN,
           losses' \in 0..MaxLosses
    PROVE  GeoRefreshTypeOK'
BY Zenon DEF GeoRefreshTypeOK

\* And what they are.
LEMMA GeoTyped ==
    ASSUME GeoRefreshTypeOK
    PROVE  /\ geoTime \in 0..MaxGeoTime /\ began \in -1..MaxGeoTime /\ fired \in -1..MaxGeoTime
           /\ disk \in [Eds -> -1..MaxGeoTime] /\ found \in [Eds -> -1..MaxGeoTime]
           /\ loaded \in [Eds -> -1..MaxGeoTime] /\ signature \in [Eds -> -1..MaxGeoTime]
           /\ round \in 0..(Len(Editions) + 1)
           /\ current \in BOOLEAN /\ retry \in BOOLEAN /\ halted \in BOOLEAN /\ failed \in BOOLEAN
           /\ losses \in 0..MaxLosses
BY Zenon DEF GeoRefreshTypeOK

\* The build of a file on disk.
LEMMA BuiltIs ==
    ASSUME GeoRefreshTypeOK, NEW e \in Eds
    PROVE  /\ BuiltAt(e) \in -1..MaxGeoTime /\ BuiltAt(e) \in Int /\ BuiltAt(e) <= disk[e]
           /\ BuiltAt(e) = -1 <=> disk[e] = -1
           /\ disk[e] # -1 => BuiltAt(e) = Build(disk[e]) /\ disk[e] < BuiltAt(e) + Rebuild
<1>1. disk[e] \in -1..MaxGeoTime /\ MaxGeoTime \in Nat
    BY GeoNumbers DEF GeoRefreshTypeOK
<1>2. CASE disk[e] = -1
    BY <1>1, <1>2 DEF BuiltAt
<1>3. CASE disk[e] # -1
    <2>1. disk[e] \in Nat
        BY <1>1, <1>3
    <2>2. Build(disk[e]) \in Nat /\ Build(disk[e]) <= disk[e] /\ disk[e] < Build(disk[e]) + Rebuild
        BY <2>1, BuildsCome
    <2>3. QED BY <1>1, <1>3, <2>2 DEF BuiltAt
<1>4. QED BY <1>2, <1>3

\* Nothing open is younger than nothing.
LEMMA NoneIsEmpty == None \in [Eds -> -1..MaxGeoTime] /\ \A e \in Eds : None[e] = -1
BY GeoNumbers DEF None

\* Reading everything costs nothing.
LEMMA Readable ==
    ASSUME GeoRefreshTypeOK, NEW S \in SUBSET Eds, Unreadable(S)
    PROVE  losses' \in 0..MaxLosses /\ (losses' = 0 => losses = 0 /\ S = {})
<1>1. Cardinality(S) \in Nat /\ (Cardinality(S) = 0 <=> S = {})
    BY EdsFinite, FS_Subset, FS_CardinalityType, FS_EmptySet
<1> DEFINE n == Cardinality(S)
<1>2. losses' = losses + n /\ losses + n <= MaxLosses
    BY DEF Unreadable
<1> HIDE DEF n
<1>3. n \in Nat /\ (n = 0 <=> S = {})
    BY <1>1 DEF n
<1>4. QED BY <1>2, <1>3, GeoNumbers, GeoTypes

\* The interval or the retry fires, and begins a round unless there is one.
LEMMA BeginStep ==
    ASSUME GInv, IntervalFires \/ RetryFires
    PROVE  GInv'
<1> USE GeoNumbers, GeoTypes, NoneIsEmpty
<1>1. /\ UNCHANGED <<geoTime, disk, current, loaded, signature, halted, losses, failed>>
      /\ ~halted
      /\ \/ Due /\ fired' = geoTime /\ retry' = retry
         \/ retry /\ fired' = fired /\ retry' = FALSE
      /\ \/ round = 0 /\ round' = 1 /\ found' = None /\ began' = geoTime
         \/ round # 0 /\ UNCHANGED <<round, found, began>>
    <2>1. CASE IntervalFires
        BY <2>1 DEF IntervalFires, Refresh
    <2>2. CASE RetryFires
        BY <2>2 DEF RetryFires, Refresh, GInv, GoesOn
    <2>3. QED BY <2>1, <2>2
<1>2. /\ fired' % Week = 0 /\ fired' <= geoTime /\ geoTime <= fired' + Week
      /\ fired' # -1 /\ fired' \in -1..MaxGeoTime
    <2>1. CASE Due /\ fired' = geoTime
        BY <2>1 DEF GInv, Due
    <2>2. CASE retry /\ fired' = fired
        BY <1>1, <2>2 DEF GInv, RoundsOnTime, GeoRefreshTypeOK
    <2>3. QED BY <1>1, <2>1, <2>2
<1>3. GeoRefreshTypeOK'
    <2>1. /\ found' \in [Eds -> -1..MaxGeoTime] /\ round' \in 0..(Len(Editions) + 1)
          /\ began' \in -1..MaxGeoTime
        BY <1>1 DEF GInv, GeoRefreshTypeOK
    <2>2. retry' \in {retry, FALSE} /\ retry \in BOOLEAN
        BY <1>1, Zenon DEF GInv
    <2>3. retry' \in BOOLEAN
        BY <2>2, Zenon
    <2>4. UNCHANGED <<geoTime, disk, current, loaded, signature, halted, losses, failed>>
        BY <1>1
    <2>5. QED BY <1>2, <2>1, <2>3, <2>4, GeoTyped, GeoTypesStay, Zenon DEF GInv
<1>4. OnDisk'
    <2>1. \A e \in Eds : BuiltAt(e)' = BuiltAt(e) /\ BuiltAt(e) \in Int /\ BuiltAt(e) >= -1
        BY <1>1, BuiltIs DEF GInv, BuiltAt
    <2>2. CASE round = 0
        BY <1>1, <2>1, <2>2 DEF GInv, OnDisk
    <2>3. CASE round # 0
        BY <1>1, <2>1, <2>3 DEF GInv, OnDisk
    <2>4. QED BY <2>2, <2>3
<1>5. RoundsOnTime'
    <2>1. geoTime \in Int /\ began \in Int /\ (round # 0 => began <= geoTime /\ geoTime <= began + 1)
        BY DEF GInv, RoundsOnTime
    <2>2. began' <= geoTime /\ geoTime <= began' + 1
        BY <1>1, <2>1
    <2>3. QED BY <1>1, <1>2, <2>2 DEF RoundsOnTime
<1>6. Named'
    BY <1>1 DEF GInv, Named
<1>7. ASSUME ~failed, losses = 0, NEW e \in Eds
      PROVE  ~retry /\ round = 0 /\ fired' = geoTime
    <2>1. ~retry /\ (round # 0 => began = fired /\ fired # -1)
        BY <1>1, <1>7 DEF GInv, KeptYoung
    <2>2. Due /\ fired' = geoTime
        BY <1>1, <2>1
    <2>3. ASSUME round # 0 PROVE FALSE
        <3>1. fired \in Nat /\ fired % Week = 0 /\ fired <= geoTime /\ geoTime <= fired + Week /\ geoTime <= fired + 1
            BY <1>1, <2>1, <2>3 DEF GInv, RoundsOnTime
        <3>2. geoTime \in Nat /\ geoTime % Week = 0 /\ fired < geoTime
            <4>1. geoTime % Week = 0 /\ fired # geoTime
                BY <2>2 DEF Due
            <4>2. geoTime \in Nat
                BY DEF GInv
            <4>3. QED BY <3>1, <4>1, <4>2
        <3>3. geoTime = fired + Week
            BY <3>1, <3>2, NextWeek
        <3>4. QED BY <3>1, <3>3
    <2>4. QED BY <2>1, <2>2, <2>3
<1>8. ASSUME ~failed, losses = 0, NEW e \in Eds, loaded[e] # -1
      PROVE  geoTime - loaded[e] <= Week + Oldest /\ loaded[e] > fired' - Week - Oldest
    <2>1. fired # -1
        BY <1>1, <1>8 DEF GInv, RoundsOnTime
    <2>2. loaded[e] > fired - Oldest /\ geoTime <= fired + Week /\ round = 0 /\ fired' = geoTime
        BY <1>1, <1>7, <1>8, <2>1 DEF GInv, RoundsOnTime, KeptYoung
    <2>3. loaded[e] \in Int /\ geoTime \in Int /\ fired \in Int
        BY <1>8 DEF GInv
    <2>4. QED BY <2>2, <2>3 DEF Oldest
<1>9. KeptYoung'
    <2> SUFFICES ASSUME ~failed, losses = 0 PROVE KeptYoung'
        BY <1>1 DEF KeptYoung
    <2>1. \A e \in Eds : ~retry' /\ began' = fired' /\ fired' # -1 /\ round' # 0
        BY <1>1, <1>2, <1>7
    <2>2. ASSUME NEW i \in 1..Len(Editions), i < round' PROVE FALSE
        BY <1>1, <1>7, <2>2
    <2>3. Eds = {} \/ round' # 0
        BY <2>1
    <2>4. QED BY <1>1, <1>8, <2>1, <2>2 DEF KeptYoung
<1>10. GoesOn'
    BY <1>1, <1>2 DEF GoesOn, GInv, RoundsOnTime
<1>11. QED BY <1>3, <1>4, <1>5, <1>6, <1>9, <1>10 DEF GInv

\* It makes sure of one edition.
LEMMA EnsureStep ==
    ASSUME GInv, NEW outcome \in {"fresh", "downloaded", "failed"}, NEW unread \in SUBSET Eds,
           EnsureEdition(outcome, unread)
    PROVE  GInv'
<1>1. /\ round \in DOMAIN Editions /\ Unreadable(unread)
      /\ (outcome = "fresh" => Fresh /\ unread = {})
      /\ disk' = (IF outcome = "downloaded" THEN [disk EXCEPT ![Edition] = geoTime] ELSE disk)
      /\ found' = [found EXCEPT ![Edition] =
                      CASE outcome = "downloaded" -> Build(geoTime)
                        [] outcome # "downloaded" /\ unread = {} -> BuiltAt(Edition)
                        [] outcome # "downloaded" /\ unread # {} -> -1]
      /\ round' = round + 1 /\ failed' = (failed \/ outcome = "failed")
      /\ UNCHANGED <<geoTime, began, fired, current, loaded, signature, retry, halted>>
    BY DEF EnsureEdition
<1> USE GeoNumbers, GeoTypes
<1>2. round \in 1..Len(Editions) /\ Edition \in Eds /\ Edition = Editions[round]
    BY <1>1 DEF Edition
<1>3. /\ disk \in [Eds -> -1..MaxGeoTime] /\ found \in [Eds -> -1..MaxGeoTime]
      /\ geoTime \in -1..MaxGeoTime /\ geoTime \in Nat
      /\ Build(geoTime) \in Nat /\ Build(geoTime) <= geoTime /\ geoTime < Build(geoTime) + Rebuild
    <2>1. geoTime \in Nat /\ geoTime \in -1..MaxGeoTime
        BY DEF GInv
    <2>2. Build(geoTime) \in Nat /\ Build(geoTime) <= geoTime /\ geoTime < Build(geoTime) + Rebuild
        BY <2>1, BuildsCome
    <2>3. QED BY <2>1, <2>2 DEF GInv, GeoRefreshTypeOK
<1>4. /\ disk' \in [Eds -> -1..MaxGeoTime]
      /\ \A e \in Eds : disk'[e] = IF e = Edition /\ outcome = "downloaded" THEN geoTime ELSE disk[e]
    BY <1>1, <1>2, <1>3
<1>5. losses' \in 0..MaxLosses /\ (losses' = 0 => losses = 0 /\ unread = {})
    BY <1>1, Readable DEF GInv
<1>6. /\ BuiltAt(Edition) \in -1..MaxGeoTime
      /\ disk[Edition] # -1 => disk[Edition] < BuiltAt(Edition) + Rebuild
    BY <1>2, BuiltIs DEF GInv
<1> DEFINE now == CASE outcome = "downloaded" -> Build(geoTime)
                    [] outcome # "downloaded" /\ unread = {} -> BuiltAt(Edition)
                    [] outcome # "downloaded" /\ unread # {} -> -1
<1>7. /\ now \in -1..MaxGeoTime
      /\ outcome = "downloaded" => now = Build(geoTime)
      /\ outcome # "downloaded" /\ unread = {} => now = BuiltAt(Edition)
    <2>1. CASE outcome = "downloaded"
        BY <1>3, <2>1
    <2>2. CASE outcome # "downloaded" /\ unread = {}
        BY <1>6, <2>2
    <2>3. CASE outcome # "downloaded" /\ unread # {}
        BY <2>3
    <2>4. QED BY <2>1, <2>2, <2>3
<1>8. found' = [found EXCEPT ![Edition] = now]
    BY <1>1
<1> HIDE DEF now
<1>9. /\ found' \in [Eds -> -1..MaxGeoTime]
      /\ \A e \in Eds : found'[e] = IF e = Edition THEN now ELSE found[e]
    BY <1>2, <1>3, <1>7, <1>8
<1>10. GeoRefreshTypeOK'
    <2>1. failed' \in BOOLEAN
        BY <1>1, Zenon
    <2>2. round' \in 0..(Len(Editions) + 1)
        BY <1>1, <1>2
    <2>3. /\ disk' \in [Eds -> -1..MaxGeoTime] /\ found' \in [Eds -> -1..MaxGeoTime] /\ losses' \in 0..MaxLosses
        BY <1>4, <1>5, <1>9
    <2>4. UNCHANGED <<geoTime, began, fired, current, loaded, signature, retry, halted>>
        BY <1>1
    <2>5. QED BY <2>1, <2>2, <2>3, <2>4, GeoTyped, GeoTypesStay, Zenon DEF GInv
<1>11. OnDisk'
    <2>1. \A e \in Eds : disk'[e] <= geoTime'
        BY <1>1, <1>4 DEF GInv, OnDisk
    <2>2. ASSUME NEW e \in Eds
          PROVE  /\ BuiltAt(e) <= BuiltAt(e)' /\ BuiltAt(e) \in Int /\ BuiltAt(e)' \in Int
                 /\ e = Edition => BuiltAt(e)' = IF outcome = "downloaded" THEN Build(geoTime) ELSE BuiltAt(e)
        <3>1. CASE e = Edition /\ outcome = "downloaded"
            <4>1. BuiltAt(e)' = Build(geoTime)
                BY <1>3, <1>4, <3>1 DEF BuiltAt
            <4>2. disk[e] # -1 => Build(disk[e]) <= Build(geoTime)
                <5>1. disk[e] # -1 => disk[e] \in Nat /\ disk[e] <= geoTime
                    BY DEF GInv, OnDisk
                <5>2. QED BY <1>3, <5>1, BuildsCome
            <4>3. BuiltAt(e) \in Int /\ (disk[e] # -1 => BuiltAt(e) = Build(disk[e])) /\ (disk[e] = -1 => BuiltAt(e) = -1)
                BY BuiltIs DEF GInv
            <4>4. QED BY <1>3, <3>1, <4>1, <4>2, <4>3
        <3>2. CASE ~(e = Edition /\ outcome = "downloaded")
            <4>1. disk'[e] = disk[e]
                BY <1>4, <3>2
            <4>2. BuiltAt(e)' = BuiltAt(e)
                BY <4>1 DEF BuiltAt
            <4>3. BuiltAt(e) \in Int
                BY BuiltIs DEF GInv
            <4>4. QED BY <3>2, <4>2, <4>3
        <3>3. QED BY <3>1, <3>2
    <2>3. ASSUME losses' = 0, NEW e \in Eds
          PROVE  /\ loaded[e] <= BuiltAt(e)' /\ found'[e] <= BuiltAt(e)'
                 /\ loaded[e] <= found[e] => loaded[e] <= found'[e]
                 /\ e = Edition => loaded[e] <= found'[e]
        <3>1. /\ loaded[e] <= BuiltAt(e) /\ found[e] <= BuiltAt(e)
              /\ loaded[e] \in Int /\ found[e] \in Int
            BY <1>5, <2>3 DEF GInv, OnDisk
        <3>2. CASE e = Edition
            <4>1. found'[e] = BuiltAt(e)'
                BY <1>5, <1>7, <1>9, <2>2, <2>3, <3>2
            <4>2. QED BY <2>2, <3>1, <4>1
        <3>3. CASE e # Edition
            BY <1>9, <2>2, <3>1, <3>3
        <3>4. QED BY <3>2, <3>3
    <2>4. ASSUME losses' = 0, NEW i \in 1..Len(Editions), i < round + 1
          PROVE  loaded[Editions[i]] <= found'[Editions[i]]
        <3>1. CASE i < round
            BY <1>5, <2>3, <2>4, <3>1 DEF GInv, OnDisk
        <3>2. CASE i = round
            BY <1>2, <2>3, <2>4, <3>2
        <3>3. QED BY <1>2, <2>4, <3>1, <3>2
    <2>5. QED BY <1>1, <2>1, <2>3, <2>4 DEF OnDisk
<1>16. /\ UNCHANGED <<geoTime, began, fired, current, loaded, signature, retry, halted>>
       /\ round # 0 /\ round' # 0
    BY <1>1, <1>2
<1>12. RoundsOnTime' /\ Named'
    <2>1. RoundsOnTime'
        BY <1>16 DEF GInv, RoundsOnTime
    <2>2. UNCHANGED <<loaded, signature, current, halted>>
        BY <1>16
    <2>3. losses' = 0 => losses = 0
        BY <1>5
    <2>4. Named'
        BY <2>2, <2>3 DEF GInv, Named
    <2>5. QED BY <2>1, <2>4
<1>13. KeptYoung'
    <2> SUFFICES ASSUME ~failed', losses' = 0, ~halted PROVE KeptYoung'
        BY <1>1 DEF KeptYoung
    <2>1. ~failed /\ outcome # "failed" /\ losses = 0 /\ unread = {} /\ round # 0
        <3>1. ~failed /\ outcome # "failed"
            BY <1>1, Zenon
        <3>2. QED BY <1>2, <1>5, <3>1
    <2>2. fired # -1 /\ fired <= geoTime /\ fired \in Int /\ ~retry
        BY <1>2, <2>1 DEF GInv, RoundsOnTime, KeptYoung
    <2>3. now > fired - Oldest /\ now >= 0
        <3>1. CASE outcome = "downloaded"
            BY <1>3, <1>7, <2>2, <3>1 DEF Oldest
        <3>2. CASE outcome = "fresh"
            <4>1. disk[Edition] # -1 /\ geoTime - disk[Edition] < Week
                BY <1>1, <3>2 DEF Fresh
            <4>2. disk[Edition] \in Int /\ disk[Edition] < BuiltAt(Edition) + Rebuild
                BY <1>2, <1>6, <4>1 DEF GInv
            <4>3. BuiltAt(Edition) \in Int /\ BuiltAt(Edition) >= -1 /\ BuiltAt(Edition) # -1
                BY <1>2, <4>1, BuiltIs DEF GInv
            <4>4. now = BuiltAt(Edition)
                BY <1>7, <2>1, <3>2
            <4>5. fired - (Week + Rebuild - 1) < BuiltAt(Edition) /\ BuiltAt(Edition) >= 0
                <5>1. geoTime \in Int /\ Week \in Int /\ Rebuild \in Int
                    BY <1>3
                <5>2. geoTime - Week < BuiltAt(Edition) + Rebuild - 1
                    BY <4>1, <4>2, <4>3, <5>1
                <5>3. QED BY <2>2, <4>3, <5>1, <5>2
            <4>6. QED BY <4>4, <4>5 DEF Oldest
        <3>3. QED BY <2>1, <3>1, <3>2
    <2>4. ASSUME NEW i \in 1..Len(Editions), i < round + 1
          PROVE  found'[Editions[i]] > fired - Oldest /\ found'[Editions[i]] >= 0
        <3>1. CASE Editions[i] = Edition
            BY <1>2, <1>9, <2>3, <3>1
        <3>2. CASE Editions[i] # Edition
            <4>1. i < round
                BY <1>2, <2>4, <3>2
            <4>2. QED BY <1>9, <2>1, <3>2, <4>1 DEF GInv, KeptYoung
        <3>3. QED BY <3>1, <3>2
    <2>5. /\ \A e \in Eds : began = fired
          /\ \A e \in Eds : loaded[e] # -1 =>
                /\ geoTime - loaded[e] <= Week + Oldest
                /\ geoTime = fired => loaded[e] > fired - Week - Oldest
        BY <2>1 DEF GInv, KeptYoung
    <2>6. round' # 0
        BY <1>1, <1>2
    <2>7. QED BY <1>1, <2>2, <2>4, <2>5, <2>6 DEF KeptYoung
<1>14. GoesOn'
    <2>1. ~failed' => ~failed
        BY <1>1, Zenon
    <2>2. QED BY <1>5, <1>16, <2>1 DEF GInv, GoesOn
<1>15. QED BY <1>10, <1>11, <1>12, <1>13, <1>14 DEF GInv

\* What a round that is over leaves open, and that no edition in it gets older.
LEMMA InstallStep ==
    ASSUME GInv, NEW unread \in SUBSET Eds, Install(unread)
    PROVE  /\ GInv'
           /\ losses' = 0 /\ ~halted => \A e \in Eds : loaded'[e] >= loaded[e]
<1>1. /\ round = Len(Editions) + 1 /\ round' = 0 /\ Unreadable(unread)
      /\ IF Unchanged THEN UNCHANGED <<current, loaded, signature>>
         ELSE current' = TRUE /\ loaded' = LookupOf(unread) /\ signature' = found
      /\ retry' = (~halted /\ (retry \/ ~current'))
      /\ UNCHANGED <<geoTime, disk, found, began, fired, halted, failed>>
    BY DEF Install, RoundOver
<1> USE GeoNumbers, GeoTypes, NoneIsEmpty
<1>2. losses' \in 0..MaxLosses /\ (losses' = 0 => losses = 0 /\ unread = {})
    BY <1>1, Readable DEF GInv
<1>3. /\ LookupOf(unread) \in [Eds -> -1..MaxGeoTime]
      /\ \A e \in Eds : LookupOf(unread)[e] \in {-1, found[e]}
    BY DEF GInv, GeoRefreshTypeOK, LookupOf
<1>4. ASSUME losses' = 0 PROVE LookupOf(unread) = found
    <2>1. ASSUME NEW e \in Eds PROVE disk[e] = -1 => found[e] = -1
        <3>1. found[e] <= BuiltAt(e) /\ (disk[e] = -1 => BuiltAt(e) = -1) /\ found[e] \in Int /\ found[e] >= -1
            BY <1>2, <1>4, BuiltIs DEF GInv, OnDisk
        <3>2. QED BY <3>1
    <2>2. \A e \in Eds : (IF disk[e] = -1 \/ e \in unread THEN -1 ELSE found[e]) = found[e]
        BY <1>2, <1>4, <2>1
    <2>3. found \in [Eds -> -1..MaxGeoTime]
        BY DEF GInv, GeoRefreshTypeOK
    <2>4. LookupOf(unread) = [e \in Eds |-> found[e]]
        BY <2>2 DEF LookupOf
    <2>5. QED BY <2>3, <2>4
<1>5. GeoRefreshTypeOK'
    <2>1. /\ loaded' \in [Eds -> -1..MaxGeoTime] /\ signature' \in [Eds -> -1..MaxGeoTime]
          /\ round' \in 0..(Len(Editions) + 1)
        <3>1. {loaded, signature, found} \subseteq [Eds -> -1..MaxGeoTime]
            BY DEF GInv, GeoRefreshTypeOK
        <3>2. loaded' \in {loaded, LookupOf(unread)} /\ signature' \in {signature, found}
            BY <1>1, Zenon
        <3>3. round' \in 0..(Len(Editions) + 1)
            BY <1>1
        <3>4. QED BY <1>3, <3>1, <3>2, <3>3, Zenon
    <2>2. retry' \in BOOLEAN
        BY <1>1, Zenon
    <2>3. current' \in {current, TRUE} /\ current \in BOOLEAN
        BY <1>1 DEF GInv
    <2>4. current' \in BOOLEAN
        BY <2>3, Zenon
    <2>5. UNCHANGED <<geoTime, disk, found, began, fired, halted, failed>>
        BY <1>1
    <2>6. QED BY <1>2, <2>1, <2>2, <2>4, <2>5, GeoTyped, GeoTypesStay, Zenon DEF GInv
<1>6. ASSUME losses = 0, NEW e \in Eds
      PROVE  loaded[e] <= found[e]
    <2>1. PICK i \in 1..Len(Editions) : e = Editions[i]
        OBVIOUS
    <2>2. i < round
        BY <1>1
    <2>3. QED BY <1>6, <2>1, <2>2 DEF GInv, OnDisk
<1>7. losses' = 0 => loaded' \in {loaded, found}
    BY <1>1, <1>4
<1>8. losses' = 0 => \A e \in Eds : loaded'[e] >= loaded[e]
    BY <1>2, <1>6, <1>7 DEF GInv
<1>9. OnDisk'
    <2>1. \A e \in Eds : BuiltAt(e)' = BuiltAt(e)
        BY <1>1 DEF BuiltAt
    <2>2. QED BY <1>1, <1>2, <1>7, <2>1 DEF GInv, OnDisk
<1>10. RoundsOnTime'
    <2>1. ~halted => fired # -1
        BY <1>1 DEF GInv, RoundsOnTime
    <2>2. QED BY <1>1, <2>1 DEF GInv, RoundsOnTime
<1>11. Named'
    <2>1. CASE Unchanged
        BY <1>1, <1>2, <2>1 DEF GInv, Named
    <2>2. CASE ~Unchanged
        BY <1>1, <1>3, <1>4, <2>2 DEF Named
    <2>3. QED BY <2>1, <2>2
<1>12. ASSUME ~failed, losses' = 0, ~halted, NEW e \in Eds
       PROVE  /\ loaded'[e] > fired - Oldest /\ loaded'[e] >= 0
              /\ current' /\ ~retry'
    <2>1. PICK i \in 1..Len(Editions) : e = Editions[i]
        OBVIOUS
    <2>2. found[e] > fired - Oldest /\ found[e] >= 0 /\ ~retry /\ losses = 0
        BY <1>1, <1>2, <1>12, <2>1 DEF GInv, KeptYoung
    <2>3. found # None
        BY <2>2
    <2>4. loaded' = found /\ current'
        <3>1. CASE found = signature
            <4>1. loaded = found /\ Unchanged
                BY <1>12, <2>2, <3>1 DEF GInv, Named, Unchanged
            <4>2. loaded[e] # -1
                BY <2>2, <4>1
            <4>3. current
                BY <4>2 DEF GInv, Named
            <4>4. QED BY <1>1, <4>1, <4>3
        <3>2. CASE found # signature
            <4>1. ~Unchanged
                BY <1>12, <2>3, <3>2 DEF Unchanged
            <4>2. QED BY <1>1, <1>4, <1>12, <4>1
        <3>3. QED BY <3>1, <3>2
    <2>5. QED BY <1>1, <2>2, <2>4
<1>13. KeptYoung'
    BY <1>1, <1>12 DEF KeptYoung
<1>14. GoesOn'
    <2>1. halted => ~current' /\ loaded' = None /\ ~retry'
        BY <1>1 DEF GInv, GoesOn, Unchanged
    <2>2. ~halted => current' \/ retry'
        BY <1>1
    <2>3. ~failed /\ losses' = 0 /\ ~halted => \A e \in Eds : loaded'[e] # -1
        BY <1>12
    <2>4. QED BY <1>1, <2>1, <2>2, <2>3 DEF GoesOn
<1>15. QED BY <1>5, <1>8, <1>9, <1>10, <1>11, <1>13, <1>14 DEF GInv

\* Stopping, a file lost from the disk, and the clock.
LEMMA OtherGeoSteps ==
    ASSUME GInv, Halt \/ GeoTick \/ \E e \in Eds : Lose(e)
    PROVE  GInv'
<1> USE GeoNumbers, GeoTypes, NoneIsEmpty
<1>1. CASE Halt
    <2>1. /\ halted' = TRUE /\ retry' = FALSE /\ current' = FALSE /\ loaded' = None
          /\ UNCHANGED <<geoTime, disk, round, found, began, fired, signature, losses, failed>>
        BY <1>1 DEF Halt
    <2>2. GeoRefreshTypeOK'
        <3>1. {halted', retry', current'} \subseteq BOOLEAN
            BY <2>1
        <3>2. QED BY <2>1, <3>1, NoneIsEmpty, GeoTyped, GeoTypesStay, Zenon DEF GInv
    <2>3. OnDisk'
        <3>1. \A e \in Eds : BuiltAt(e)' = BuiltAt(e) /\ BuiltAt(e) \in Int /\ BuiltAt(e) >= -1
            BY <2>1, BuiltIs DEF GInv, BuiltAt
        <3>2. QED BY <2>1, <3>1 DEF GInv, OnDisk
    <2>4. RoundsOnTime' /\ Named' /\ KeptYoung' /\ GoesOn'
        BY <2>1 DEF GInv, RoundsOnTime, Named, KeptYoung, GoesOn
    <2>5. QED BY <2>2, <2>3, <2>4 DEF GInv
<1>2. CASE GeoTick
    <2>1. /\ geoTime < MaxGeoTime /\ (round # 0 => geoTime = began)
          /\ (~halted => ~Due)
          /\ geoTime' = geoTime + 1
          /\ UNCHANGED <<disk, round, found, began, fired, current, loaded, signature, retry, halted, losses, failed>>
        BY <1>2 DEF GeoTick
    <2>2. GeoRefreshTypeOK'
        <3>1. geoTime' \in 0..MaxGeoTime
            BY <2>1 DEF GInv
        <3>2. QED BY <2>1, <3>1, GeoTyped, GeoTypesStay, Zenon DEF GInv
    <2>3. OnDisk'
        <3>1. \A e \in Eds : BuiltAt(e)' = BuiltAt(e)
            BY <2>1 DEF BuiltAt
        <3>2. ASSUME NEW e \in Eds PROVE disk'[e] <= geoTime'
            <4>1. disk[e] <= geoTime /\ disk[e] \in Int /\ geoTime \in Int
                BY DEF GInv, OnDisk
            <4>2. QED BY <2>1, <4>1
        <3>3. /\ UNCHANGED <<losses, loaded, found, round>>
              /\ losses = 0 =>
                    /\ \A e \in Eds : loaded[e] <= BuiltAt(e) /\ found[e] <= BuiltAt(e)
                    /\ \A i \in 1..Len(Editions) : i < round => loaded[Editions[i]] <= found[Editions[i]]
            BY <2>1, Zenon DEF GInv, OnDisk
        <3>4. QED BY <3>1, <3>2, <3>3 DEF OnDisk
    <2>4. ASSUME ~halted
          PROVE  fired # -1 /\ fired <= geoTime /\ geoTime < fired + Week /\ fired % Week = 0
        <3>1. fired # -1
            <4>1. fired = -1 => geoTime = 0 /\ Due
                BY <2>4 DEF GInv, RoundsOnTime, Due
            <4>2. QED BY <2>1, <2>4, <4>1
        <3>2. fired \in Nat /\ fired <= geoTime /\ geoTime <= fired + Week /\ fired % Week = 0
            BY <2>4, <3>1 DEF GInv, RoundsOnTime
        <3>3. geoTime # fired + Week
            <4>1. geoTime = fired + Week => Due
                <5>1. (fired + Week) % Week = 0 /\ fired # fired + Week
                    BY <3>2, NextWeek
                <5>2. QED BY <5>1 DEF Due
            <4>2. QED BY <2>1, <2>4, <3>2, <4>1 DEF GInv
        <3>4. geoTime < fired + Week
            <4>1. geoTime \in Int /\ fired \in Int
                BY DEF GInv
            <4>2. QED BY <3>2, <3>3, <4>1
        <3>5. QED BY <3>1, <3>2, <3>4
    <2>5. RoundsOnTime'
        <3>1. geoTime \in Int /\ fired \in Int /\ began \in Int
            BY DEF GInv
        <3>2. round # 0 => began <= geoTime' /\ geoTime' <= began + 1
            BY <2>1, <3>1
        <3>3. ~halted => fired <= geoTime' /\ geoTime' <= fired + Week
            BY <2>1, <2>4, <3>1
        <3>4. QED BY <2>1, <2>4, <3>2, <3>3 DEF RoundsOnTime
    <2>6. KeptYoung'
        <3> SUFFICES ASSUME ~failed, losses = 0, ~halted PROVE KeptYoung'
            BY <2>1 DEF KeptYoung
        <3>1. ASSUME round # 0, NEW e \in Eds, loaded[e] # -1
              PROVE  geoTime' - loaded[e] <= Week + Oldest /\ geoTime' # fired
            <4>1. geoTime = fired /\ loaded[e] > fired - Week - Oldest
                BY <2>1, <3>1 DEF GInv, KeptYoung
            <4>2. loaded[e] \in Int /\ geoTime \in Int
                BY DEF GInv
            <4>3. QED BY <2>1, <4>1, <4>2 DEF Oldest
        <3>2. QED BY <2>1, <3>1 DEF GInv, KeptYoung
    <2>7. Named' /\ GoesOn'
        BY <2>1 DEF GInv, Named, GoesOn
    <2>8. QED BY <2>2, <2>3, <2>5, <2>6, <2>7 DEF GInv
<1>3. CASE \E e \in Eds : Lose(e)
    <2>1. PICK e \in Eds : Lose(e)
        BY <1>3
    <2>2. /\ Unreadable({e}) /\ disk' = [disk EXCEPT ![e] = -1]
          /\ UNCHANGED <<geoTime, round, found, began, fired, current, loaded, signature, retry, halted, failed>>
        BY <2>1 DEF Lose
    <2>3. losses' # 0 /\ losses' \in 0..MaxLosses
        BY <2>2, Readable DEF GInv
    <2>4. disk' \in [Eds -> -1..MaxGeoTime] /\ \A d \in Eds : disk'[d] = IF d = e THEN -1 ELSE disk[d]
        BY <2>2 DEF GInv, GeoRefreshTypeOK
    <2>5. GeoRefreshTypeOK'
        <3>1. disk' \in [Eds -> -1..MaxGeoTime] /\ losses' \in 0..MaxLosses
            BY <2>3, <2>4
        <3>2. QED BY <2>2, <3>1, GeoTyped, GeoTypesStay, Zenon DEF GInv
    <2>6. OnDisk'
        <3>1. ASSUME NEW d \in Eds PROVE disk'[d] <= geoTime
            <4>1. disk[d] <= geoTime /\ geoTime \in Nat
                BY DEF GInv, OnDisk
            <4>2. QED BY <2>4, <4>1
        <3>2. QED BY <2>2, <2>3, <3>1 DEF OnDisk
    <2>7. RoundsOnTime' /\ Named' /\ KeptYoung' /\ GoesOn'
        BY <2>2, <2>3 DEF GInv, RoundsOnTime, Named, KeptYoung, GoesOn
    <2>8. QED BY <2>5, <2>6, <2>7 DEF GInv
<1>4. QED BY <1>1, <1>2, <1>3

\* The invariant holds to begin with.
LEMMA GeoStarts == GeoRefreshInit => GInv
<1> SUFFICES ASSUME GeoRefreshInit PROVE GInv
    OBVIOUS
<1> USE GeoNumbers, NoneIsEmpty
<1>1. disk \in [Eds -> -1..MaxGeoTime] /\ \A e \in Eds : disk[e] \in {-1, 0}
    BY DEF GeoRefreshInit
<1>2. GeoRefreshTypeOK
    <2>1. /\ 0 \in 0..MaxGeoTime /\ -1 \in -1..MaxGeoTime /\ 0 \in 0..MaxLosses
          /\ 0 \in 0..(Len(Editions) + 1) /\ FALSE \in BOOLEAN
        OBVIOUS
    <2>2. QED BY <1>1, <2>1 DEF GeoRefreshInit, GeoRefreshTypeOK
<1>3. OnDisk
    <2>1. \A e \in Eds : BuiltAt(e) \in -1..MaxGeoTime
        BY <1>2, BuiltIs
    <2>2. QED BY <1>1, <2>1 DEF GeoRefreshInit, OnDisk
<1>4. RoundsOnTime /\ Named /\ KeptYoung /\ GoesOn
    BY DEF GeoRefreshInit, RoundsOnTime, Named, KeptYoung, GoesOn
<1>5. QED BY <1>2, <1>3, <1>4 DEF GInv

\* Every step keeps it.
LEMMA GeoStep == GInv /\ [GeoRefreshNext]_geo => GInv'
<1> SUFFICES ASSUME GInv, [GeoRefreshNext]_geo PROVE GInv'
    OBVIOUS
<1>1. CASE UNCHANGED geo
    <2>1. \A e : BuiltAt(e)' = BuiltAt(e)
        BY <1>1 DEF geo, BuiltAt
    <2>2. QED BY <1>1, <2>1 DEF geo, GInv, GeoRefreshTypeOK, OnDisk, RoundsOnTime, Named, KeptYoung, GoesOn
<1>2. QED BY <1>1, BeginStep, EnsureStep, InstallStep, OtherGeoSteps DEF GeoRefreshNext

\* GInv is an invariant of the refresh.
THEOREM GeoInductive == GeoRefreshSpec => []GInv
BY GeoStarts, GeoStep, PTL DEF GeoRefreshSpec

\* For every list of editions, every length of the week and every time between two
\* builds: there is a lookup or another attempt due sooner than the week, and
\* neither once stopped; only files lost or not readable are missing from the
\* lookup; and while every download succeeds and none is, nothing is older than two
\* weeks and the time between two builds.
THEOREM LookupIsCurrent == GeoRefreshSpec => []LookupStaysCurrent
<1>1. ASSUME GInv PROVE LookupStaysCurrent
    <2> USE GeoNumbers, GeoTypes
    <2>1. ASSUME ~failed, losses = 0, ~halted, NEW e \in Eds, loaded[e] # -1
          PROVE  geoTime - loaded[e] < 2 * Week + Rebuild
        <3>1. loaded[e] \in Int /\ geoTime \in Int /\ fired \in Int
            BY <1>1 DEF GInv
        <3>2. CASE round # 0
            <4>1. geoTime - loaded[e] <= Week + Oldest
                BY <1>1, <2>1, <3>2 DEF GInv, KeptYoung
            <4>2. QED BY <3>1, <4>1 DEF Oldest
        <3>3. CASE round = 0
            <4>1. fired # -1
                BY <1>1, <2>1, NoneIsEmpty DEF GInv, RoundsOnTime
            <4>2. geoTime <= fired + Week /\ loaded[e] > fired - Oldest
                BY <1>1, <2>1, <3>3, <4>1 DEF GInv, RoundsOnTime, KeptYoung
            <4>3. QED BY <3>1, <4>2 DEF Oldest
        <3>4. QED BY <3>2, <3>3
    <2>2. QED BY <1>1, <2>1 DEF GInv, GoesOn, Named, LookupStaysCurrent
<1>2. QED BY <1>1, GeoInductive, PTL

\* Whatever downloads fail, in whatever order, no step takes an edition from the
\* lookup or puts an older build in its place, unless a file is lost or cannot be
\* read.
THEOREM LookupNeverAges == GeoRefreshSpec => KeepsWhatItHas
<1>1. ASSUME GInv, [GeoRefreshNext]_geo, losses' = 0, ~halted', NEW e \in Eds
      PROVE  loaded'[e] >= loaded[e]
    <2>1. CASE \E unread \in SUBSET Eds : Install(unread)
        <3>1. PICK unread \in SUBSET Eds : Install(unread)
            BY <2>1
        <3>2. ~halted
            BY <1>1, <3>1 DEF Install
        <3>3. QED BY <1>1, <3>1, <3>2, InstallStep
    <2>2. CASE loaded' = loaded
        BY <1>1, <2>2, GeoTypes DEF GInv
    <2>3. CASE Halt
        BY <1>1, <2>3 DEF Halt
    <2>4. QED BY <1>1, <2>1, <2>2, <2>3 DEF GeoRefreshNext, IntervalFires, RetryFires, EnsureEdition, Lose, GeoTick, geo
<1>2. GInv /\ [GeoRefreshNext]_geo =>
          [losses' = 0 /\ ~halted' => \A e \in Eds : loaded[e] # -1 => loaded'[e] >= loaded[e]]_geo
    BY <1>1
<1>3. QED BY <1>2, GeoInductive, PTL DEF GeoRefreshSpec, KeepsWhatItHas

-----------------------------------------------------------------------------
(* The fold into click_daily.                                              *)

\* The numbers among the constants.
LEMMA RollupNumbers ==
    /\ Clicks \subseteq Nat /\ Folders \subseteq Nat /\ DayTicks \in Nat \ {0} /\ MonthDays \in Nat \ {0}
    /\ Recent \in Nat /\ Retention \in Nat /\ MaxLate \in Nat /\ MaxOutage \in Nat /\ MaxTicks \in Nat
BY RollupConstants

\* The first tick after a day.
DayEnd(d) == (d + 1) * DayTicks

\* What a quotient says of its dividend.
LEMMA Quotient ==
    ASSUME NEW x \in Nat, NEW n \in Nat \ {0}
    PROVE  /\ x \div n \in Nat
           /\ \A k \in Nat : x \div n <= k <=> x < (k + 1) * n
<1>1. PICK q \in Nat, r \in Nat : q = x \div n /\ x = n * q + r /\ r < n
    <2>1. x \div n \in Nat /\ x % n \in Nat /\ x % n < n /\ x = n * (x \div n) + (x % n)
        OBVIOUS
    <2>2. QED BY <2>1
<1>2. ASSUME NEW k \in Nat
      PROVE  q <= k <=> x < (k + 1) * n
    <2>1. CASE q <= k
        <3>1. n * q + n <= n * k + n
            BY <2>1
        <3>2. QED BY <1>1, <2>1, <3>1
    <2>2. CASE q >= k + 1
        <3>1. n * q >= n * (k + 1)
            BY <2>2
        <3>2. QED BY <1>1, <2>2, <3>1
    <2>3. QED BY <2>1, <2>2
<1>3. QED BY <1>1, <1>2

\* Days and where they end.
LEMMA DaysEnd ==
    /\ \A d \in Nat : DayEnd(d) \in Nat
    /\ \A x \in Nat : DayOf(x) \in Nat
    /\ \A x \in Nat : \A d \in Nat : DayOf(x) <= d <=> x < DayEnd(d)
    /\ Days \subseteq Nat
<1>1. \A d \in Nat : DayEnd(d) \in Nat
    BY RollupNumbers DEF DayEnd
<1>2. ASSUME NEW x \in Nat
      PROVE  DayOf(x) \in Nat /\ \A d \in Nat : DayOf(x) <= d <=> x < DayEnd(d)
    BY Quotient, RollupNumbers DEF DayOf, DayEnd
<1>3. Days \subseteq Nat
    BY <1>2, RollupNumbers DEF Days
<1>4. QED BY <1>1, <1>2, <1>3

\* A month ends no sooner than its days.
LEMMA MonthsEnd ==
    ASSUME NEW d \in Nat
    PROVE  MonthEnd(MonthOf(d)) \in Nat /\ DayEnd(d) <= MonthEnd(MonthOf(d))
<1> DEFINE m == MonthOf(d)
           k == (m + 1) * MonthDays
<1>1. m \in Nat /\ (m <= m <=> d < k)
    BY Quotient, RollupNumbers DEF MonthOf
<1> HIDE DEF m
<1>2. k \in Nat
    BY <1>1, RollupNumbers
<1>3. MonthEnd(m) = k * DayTicks
    BY <1>1, RollupNumbers DEF MonthEnd
<1>4. d + 1 <= k
    <2>1. m <= m
        BY <1>1
    <2> HIDE DEF k
    <2>2. QED BY <1>1, <1>2, <2>1
<1> HIDE DEF k
<1>5. (d + 1) * DayTicks <= k * DayTicks /\ k * DayTicks \in Nat
    BY <1>2, <1>4, RollupNumbers
<1>6. QED BY <1>3, <1>5 DEF DayEnd, m

\* From when every row of a day is in, and from when no fold reads the day.
RowsIn(d) == DayEnd(d) + MaxLate
FoldsEnd(d) == DayEnd(d) + Recent

\* A row is written within the bound, and what is purged is past its time.
RowsFit ==
    \A c \in Clicks :
        /\ at[c] = -1 => row[c] = "none"
        /\ at[c] # -1 /\ row[c] = "none" => tick <= at[c] + MaxLate
        /\ row[c] = "purged" => MonthEnd(MonthOf(DayOf(at[c]))) <= tick - Retention

\* What an open statement has read of a day is part of what was recorded of it;
\* all of it, if every row is in; and no less than its figure shows, unless
\* another has committed since.
FoldsFit ==
    \A f \in Folders : \A d \in Days :
        /\ fold[f].read[d] \subseteq Recorded(d)
        /\ ~fold[f].open \/ d \notin Window => fold[f].read[d] = {}
        /\ fold[f].open /\ d \in Window /\ tick >= RowsIn(d) => fold[f].read[d] = Recorded(d)
        /\ fold[f].open /\ ~fold[f].passed /\ fold[f].read[d] # {} => daily[d] \subseteq fold[f].read[d]

\* A figure shows no click that was not recorded, and every one that was once a
\* fold has completed after the last of them, as it has before the folds end.
FiguresFit ==
    \A d \in Days :
        /\ daily[d] \subseteq Recorded(d)
        /\ foldedAt >= RowsIn(d) \/ tick >= FoldsEnd(d) => daily[d] = Recorded(d)

LInv == RollupTypeOK /\ foldedAt <= tick /\ RowsFit /\ FoldsFit /\ FiguresFit

\* The types of the state, one variable at a time.
LEMMA RollupTypes ==
    ASSUME RollupTypeOK
    PROVE  /\ tick \in Nat /\ tick <= MaxTicks /\ foldedAt \in Int
           /\ \A c \in Clicks : at[c] \in Int /\ at[c] >= -1 /\ (at[c] # -1 => at[c] \in Nat)
           /\ \A c \in Clicks : row[c] \in {"none", "month", "default", "purged"}
           /\ \A d \in Days : daily[d] \subseteq Clicks
           /\ \A f \in Folders : \A d \in Days : fold[f].read[d] \subseteq Clicks
           /\ \A f \in Folders : fold[f].open \in BOOLEAN
<1>1. /\ tick \in Nat /\ tick <= MaxTicks /\ foldedAt \in Int
      /\ \A c \in Clicks : at[c] \in Int /\ at[c] >= -1
      /\ \A c \in Clicks : row[c] \in {"none", "month", "default", "purged"}
      /\ \A d \in Days : daily[d] \subseteq Clicks
    BY RollupNumbers DEF RollupTypeOK
<1>2. ASSUME NEW f \in Folders
      PROVE  fold[f].read \in [Days -> SUBSET Clicks] /\ fold[f].open \in BOOLEAN
    BY DEF RollupTypeOK
<1>3. QED BY <1>1, <1>2

\* The bounds of a day, in order.
LEMMA DayOrder ==
    ASSUME NEW d \in Days
    PROVE  /\ d \in Nat /\ DayEnd(d) \in Nat /\ RowsIn(d) \in Nat /\ FoldsEnd(d) \in Nat
           /\ RowsIn(d) + MaxOutage < FoldsEnd(d) /\ DayEnd(d) <= RowsIn(d)
BY DaysEnd, RollupNumbers, OutagesFit DEF RowsIn, FoldsEnd

\* When a day is in the window that folds read.
LEMMA WindowEnds ==
    ASSUME RollupTypeOK, NEW d \in Days
    PROVE  /\ d \in Window <=> DayOf(tick) >= d /\ tick < FoldsEnd(d)
           /\ tick >= DayEnd(d) /\ tick < FoldsEnd(d) => d \in Window
<1> USE RollupNumbers, DaysEnd, RollupTypes, DayOrder
<1> DEFINE from == IF tick > Recent THEN tick - Recent ELSE 0
<1>1. from \in Nat /\ (from < DayEnd(d) <=> tick < FoldsEnd(d))
    <2>1. DayEnd(d) \in Nat /\ DayEnd(d) >= 1
        BY DEF DayEnd
    <2>2. QED BY <2>1, SMTT(30) DEF FoldsEnd
<1>2. d \in Window <=> DayOf(from) <= d /\ d <= DayOf(tick)
    BY DEF Window
<1> HIDE DEF from
<1>3. DayOf(from) <= d <=> tick < FoldsEnd(d)
    BY <1>1
<1>4. DayOf(tick) \in Nat /\ DayOf(tick) \in Int /\ d \in Int
    OBVIOUS
<1>5. tick >= DayEnd(d) => d <= DayOf(tick)
    <2>1. ~(DayOf(tick) <= d) \/ tick < DayEnd(d)
        OBVIOUS
    <2>2. QED BY <1>4, <2>1
<1>6. QED BY <1>2, <1>3, <1>4, <1>5

\* While folds read a day nothing of it is purged, so they read all there is.
LEMMA WholeDays ==
    ASSUME LInv, NEW d \in Days
    PROVE  RowsOf(d) \subseteq Recorded(d) /\ (d \in Window => RowsOf(d) = Recorded(d))
<1>1. RowsOf(d) \subseteq Recorded(d)
    BY DEF RowsOf, Recorded
<1>2. ASSUME d \in Window, NEW c \in Recorded(d)
      PROVE  c \in RowsOf(d)
    <2>1. c \in Clicks /\ row[c] # "none" /\ DayOf(at[c]) = d
        BY DEF Recorded
    <2>2. tick < FoldsEnd(d)
        BY <1>2, WindowEnds DEF LInv
    <2>3. row[c] # "purged"
        <3>1. SUFFICES ASSUME row[c] = "purged" PROVE FALSE
            OBVIOUS
        <3>2. MonthEnd(MonthOf(d)) <= tick - Retention
            BY <2>1, <3>1 DEF LInv, RowsFit
        <3>3. MonthEnd(MonthOf(d)) \in Nat /\ DayEnd(d) <= MonthEnd(MonthOf(d)) /\ DayEnd(d) \in Nat /\ tick \in Nat
            BY MonthsEnd, DayOrder, RollupTypes DEF LInv
        <3>4. QED BY <2>2, <3>2, <3>3, RollupNumbers, FoldsInTime DEF FoldsEnd
    <2>4. row[c] \in {"none", "month", "default", "purged"}
        BY <2>1, RollupTypes DEF LInv
    <2>5. QED BY <2>1, <2>3, <2>4 DEF RowsOf
<1>3. QED BY <1>1, <1>2

\* Once every row of a day is in, there is none to come.
LEMMA NoneToCome ==
    ASSUME LInv, NEW d \in Days, tick >= RowsIn(d), NEW c \in Clicks, at[c] # -1, row[c] = "none"
    PROVE  DayOf(at[c]) # d
<1>1. at[c] \in Nat /\ tick <= at[c] + MaxLate /\ tick \in Nat
    BY RollupTypes DEF LInv, RowsFit
<1>2. at[c] >= DayEnd(d)
    BY <1>1, DayOrder, RollupNumbers DEF RowsIn
<1>3. d \in Nat /\ (DayOf(at[c]) <= d <=> at[c] < DayEnd(d)) /\ DayEnd(d) \in Nat
    BY <1>1, DaysEnd, DayOrder
<1>4. QED BY <1>1, <1>2, <1>3

\* Rows that change under figures and statements that do not: what was recorded
\* only grows, and not of a day whose rows are in.
LEMMA RowsMove ==
    ASSUME LInv, UNCHANGED <<tick, daily, fold, foldedAt>>,
           \A d \in Days : Recorded(d) \subseteq Recorded(d)' /\ (tick >= RowsIn(d) => Recorded(d)' = Recorded(d))
    PROVE  FoldsFit' /\ FiguresFit'
<1>1. Window' = Window
    BY DEF Window
<1>2. ASSUME NEW f \in Folders, NEW d \in Days
      PROVE  /\ fold[f].read[d] \subseteq Recorded(d)'
             /\ ~fold[f].open \/ d \notin Window => fold[f].read[d] = {}
             /\ fold[f].open /\ d \in Window /\ tick >= RowsIn(d) => fold[f].read[d] = Recorded(d)'
             /\ fold[f].open /\ ~fold[f].passed /\ fold[f].read[d] # {} => daily[d] \subseteq fold[f].read[d]
    BY <1>2 DEF LInv, FoldsFit
<1>3. FoldsFit'
    BY <1>1, <1>2 DEF FoldsFit, RowsIn
<1>4. ASSUME NEW d \in Days
      PROVE  /\ daily[d] \subseteq Recorded(d)'
             /\ foldedAt >= RowsIn(d) \/ tick >= FoldsEnd(d) => daily[d] = Recorded(d)'
    <2>1. foldedAt >= RowsIn(d) \/ tick >= FoldsEnd(d) => tick >= RowsIn(d)
        <3>1. tick \in Int /\ foldedAt \in Int /\ foldedAt <= tick
            BY RollupTypes DEF LInv
        <3>2. QED BY <3>1, DayOrder, RollupNumbers
    <2>2. QED BY <2>1 DEF LInv, FiguresFit
<1>5. FiguresFit'
    BY <1>4 DEF FiguresFit, RowsIn, FoldsEnd
<1>6. QED BY <1>3, <1>5

\* A click, and its row.
LEMMA ClickStep ==
    ASSUME LInv, NEW c \in Clicks, Visit(c) \/ Insert(c)
    PROVE  LInv'
<1> USE RollupNumbers
<1>1. CASE Visit(c)
    <2>1. at[c] = -1 /\ at' = [at EXCEPT ![c] = tick] /\ UNCHANGED <<tick, row, partitions, daily, fold, foldedAt>>
        BY <1>1 DEF Visit
    <2>2. row[c] = "none" /\ tick \in -1..MaxTicks /\ tick \in Nat
        BY <2>1 DEF LInv, RowsFit, RollupTypeOK
    <2>3. at' \in [Clicks -> -1..MaxTicks] /\ \A b \in Clicks : at'[b] = IF b = c THEN tick ELSE at[b]
        BY <2>1, <2>2 DEF LInv, RollupTypeOK
    <2>4. RollupTypeOK'
        BY <2>1, <2>3 DEF LInv, RollupTypeOK
    <2>5. RowsFit'
        BY <2>1, <2>2, <2>3 DEF LInv, RowsFit
    <2>6. \A d \in Days : Recorded(d)' = Recorded(d)
        BY <2>1, <2>2, <2>3 DEF Recorded
    <2>7. QED BY <2>1, <2>4, <2>5, <2>6, RowsMove DEF LInv
<1>2. CASE Insert(c)
    <2> DEFINE to == IF MonthOf(DayOf(at[c])) \in partitions THEN "month" ELSE "default"
    <2>1. /\ at[c] # -1 /\ row[c] = "none" /\ row' = [row EXCEPT ![c] = to]
          /\ UNCHANGED <<tick, at, partitions, daily, fold, foldedAt>>
        BY <1>2 DEF Insert
    <2>2. to \in {"month", "default"}
        OBVIOUS
    <2> HIDE DEF to
    <2>3. /\ row' \in [Clicks -> {"none", "month", "default", "purged"}]
          /\ \A b \in Clicks : row'[b] = IF b = c THEN to ELSE row[b]
        BY <2>1, <2>2 DEF LInv, RollupTypeOK
    <2>4. RollupTypeOK'
        BY <2>1, <2>3 DEF LInv, RollupTypeOK
    <2>5. RowsFit'
        BY <2>1, <2>2, <2>3 DEF LInv, RowsFit
    <2>6. ASSUME NEW d \in Days
          PROVE  Recorded(d) \subseteq Recorded(d)' /\ (tick >= RowsIn(d) => Recorded(d)' = Recorded(d))
        <3>1. Recorded(d)' = IF DayOf(at[c]) = d THEN Recorded(d) \cup {c} ELSE Recorded(d)
            BY <2>1, <2>2, <2>3 DEF Recorded
        <3>2. tick >= RowsIn(d) => DayOf(at[c]) # d
            BY <2>1, NoneToCome
        <3>3. QED BY <3>1, <3>2
    <2>7. QED BY <2>1, <2>4, <2>5, <2>6, RowsMove DEF LInv
<1>3. QED BY <1>1, <1>2

\* A partition made, and one dropped with what it holds.
LEMMA PartitionStep ==
    ASSUME LInv, NEW m \in Months, Ensure(m) \/ DropExpired(m)
    PROVE  LInv'
<1>1. CASE Ensure(m)
    <2>1. partitions' = partitions \cup {m} /\ UNCHANGED <<tick, at, row, daily, fold, foldedAt>>
        BY <1>1 DEF Ensure
    <2>2. RollupTypeOK' /\ RowsFit'
        BY <2>1 DEF LInv, RollupTypeOK, RowsFit
    <2>3. \A d \in Days : Recorded(d)' = Recorded(d)
        BY <2>1 DEF Recorded
    <2>4. QED BY <2>1, <2>2, <2>3, RowsMove DEF LInv
<1>2. CASE DropExpired(m)
    <2>1. /\ MonthEnd(m) <= tick - Retention /\ partitions' = partitions \ {m}
          /\ row' = [c \in Clicks |-> IF c \in InMonth(m, "month") THEN "purged" ELSE row[c]]
          /\ UNCHANGED <<tick, at, daily, fold, foldedAt>>
        BY <1>2 DEF DropExpired
    <2>2. \A c \in Clicks : row'[c] = IF row[c] = "month" /\ MonthOf(DayOf(at[c])) = m THEN "purged" ELSE row[c]
        BY <2>1 DEF InMonth
    <2>3. row' \in [Clicks -> {"none", "month", "default", "purged"}]
        BY <2>1, RollupTypes DEF LInv
    <2>4. RollupTypeOK'
        BY <2>1, <2>3 DEF LInv, RollupTypeOK
    <2>5. RowsFit'
        BY <2>1, <2>2 DEF LInv, RowsFit
    <2>6. \A d \in Days : Recorded(d)' = Recorded(d)
        BY <2>1, <2>2 DEF Recorded
    <2>7. QED BY <2>1, <2>4, <2>5, <2>6, RowsMove DEF LInv
<1>3. QED BY <1>1, <1>2

\* A statement's snapshot, and one that fails.
LEMMA ReadStep ==
    ASSUME LInv, NEW f \in Folders, FoldRead(f) \/ FoldFails(f)
    PROVE  LInv'
<1> DEFINE read == [d \in Days |-> IF d \in Window THEN RowsOf(d) ELSE {}]
           new == [open |-> TRUE, passed |-> FALSE, read |-> read]
<1>1. UNCHANGED <<tick, at, row, partitions, daily, foldedAt>>
    BY DEF FoldRead, FoldFails
<1>2. fold' = [fold EXCEPT ![f] = new] \/ fold' = [fold EXCEPT ![f] = NoFold]
    BY DEF FoldRead, FoldFails
<1>3. /\ new.open = TRUE /\ new.passed = FALSE /\ new.read = read
      /\ NoFold.open = FALSE /\ \A d \in Days : NoFold.read[d] = {}
    BY DEF NoFold
<1>4. \A d \in Days : read[d] = IF d \in Window THEN Recorded(d) ELSE {}
    BY WholeDays
<1>5. read \in [Days -> SUBSET Clicks]
    BY DEF RowsOf
<1> HIDE DEF read
<1>6. /\ new \in [open: BOOLEAN, passed: BOOLEAN, read: [Days -> SUBSET Clicks]]
      /\ NoFold \in [open: BOOLEAN, passed: BOOLEAN, read: [Days -> SUBSET Clicks]]
    BY <1>5 DEF NoFold
<1> HIDE DEF new
<1>7. RollupTypeOK'
    BY <1>1, <1>2, <1>6 DEF LInv, RollupTypeOK
<1>8. Window' = Window /\ \A d \in Days : Recorded(d)' = Recorded(d)
    BY <1>1 DEF Window, Recorded
<1>9. ASSUME NEW g \in Folders, NEW d \in Days
      PROVE  /\ fold'[g].read[d] \subseteq Recorded(d)
             /\ ~fold'[g].open \/ d \notin Window => fold'[g].read[d] = {}
             /\ fold'[g].open /\ d \in Window /\ tick >= RowsIn(d) => fold'[g].read[d] = Recorded(d)
             /\ fold'[g].open /\ ~fold'[g].passed /\ fold'[g].read[d] # {} => daily[d] \subseteq fold'[g].read[d]
    <2>1. fold'[g] \in {fold[g], new, NoFold}
        BY <1>2 DEF LInv, RollupTypeOK
    <2>2. CASE fold'[g] = fold[g]
        BY <2>2 DEF LInv, FoldsFit
    <2>3. CASE fold'[g] = new
        BY <1>3, <1>4, <2>3 DEF LInv, FiguresFit
    <2>4. CASE fold'[g] = NoFold
        BY <1>3, <2>4
    <2>5. QED BY <2>1, <2>2, <2>3, <2>4
<1>10. FoldsFit'
    BY <1>1, <1>8, <1>9 DEF FoldsFit, RowsIn
<1>11. RowsFit' /\ FiguresFit'
    BY <1>1, <1>8 DEF LInv, RowsFit, FiguresFit, RowsIn, FoldsEnd
<1>12. QED BY <1>1, <1>7, <1>10, <1>11 DEF LInv

\* A statement commits: what it read replaces the figures of the days it found
\* rows of, and the statements still open have been passed.
LEMMA CommitStep ==
    ASSUME LInv, NEW f \in Folders, FoldCommit(f)
    PROVE  /\ LInv'
           /\ \A d \in Days : ~(daily[d] \subseteq daily'[d]) => fold[f].passed /\ ~fold'[f].open
<1>1. /\ fold[f].open /\ daily' = [d \in Days |-> IF fold[f].read[d] # {} THEN fold[f].read[d] ELSE daily[d]]
      /\ fold' = [g \in Folders |-> IF g = f THEN NoFold ELSE [fold[g] EXCEPT !.passed = fold[g].open]]
      /\ foldedAt' = tick /\ UNCHANGED <<tick, at, row, partitions>>
    BY DEF FoldCommit, Close
<1>2. NoFold.open = FALSE /\ NoFold \in [open: BOOLEAN, passed: BOOLEAN, read: [Days -> SUBSET Clicks]]
      /\ \A d \in Days : NoFold.read[d] = {}
    BY DEF NoFold
<1>3. \A g \in Folders : fold[g] \in [open: BOOLEAN, passed: BOOLEAN, read: [Days -> SUBSET Clicks]]
    BY DEF LInv, RollupTypeOK
<1>4. ASSUME NEW g \in Folders
      PROVE  /\ fold'[g] \in [open: BOOLEAN, passed: BOOLEAN, read: [Days -> SUBSET Clicks]]
             /\ \/ fold'[g] = NoFold
                \/ /\ fold'[g].open = fold[g].open /\ fold'[g].passed = fold[g].open
                   /\ fold'[g].read = fold[g].read
    <2>1. CASE g = f
        BY <1>1, <1>2, <2>1
    <2>2. CASE g # f
        <3>1. fold'[g] = [fold[g] EXCEPT !.passed = fold[g].open]
            BY <1>1, <2>2
        <3>2. QED BY <1>3, <3>1
    <2>3. QED BY <2>1, <2>2
<1>5. \A d \in Days : daily'[d] = IF fold[f].read[d] # {} THEN fold[f].read[d] ELSE daily[d]
    BY <1>1
<1>6. RollupTypeOK'
    <2>1. daily' \in [Days -> SUBSET Clicks]
        BY <1>1, RollupTypes DEF LInv
    <2>2. fold' \in [Folders -> [open: BOOLEAN, passed: BOOLEAN, read: [Days -> SUBSET Clicks]]]
        BY <1>1, <1>4
    <2>3. foldedAt' \in -1..MaxTicks
        BY <1>1, RollupNumbers DEF LInv, RollupTypeOK
    <2>4. QED BY <1>1, <2>1, <2>2, <2>3 DEF LInv, RollupTypeOK
<1>7. Window' = Window /\ \A d \in Days : Recorded(d)' = Recorded(d)
    BY <1>1 DEF Window, Recorded
<1>8. ASSUME NEW g \in Folders, NEW d \in Days
      PROVE  /\ fold'[g].read[d] \subseteq Recorded(d)
             /\ ~fold'[g].open \/ d \notin Window => fold'[g].read[d] = {}
             /\ fold'[g].open /\ d \in Window /\ tick >= RowsIn(d) => fold'[g].read[d] = Recorded(d)
             /\ fold'[g].open /\ ~fold'[g].passed => FALSE
    <2>1. CASE fold'[g] = NoFold
        BY <1>2, <2>1
    <2>2. CASE fold'[g] # NoFold
        BY <1>4, <2>2 DEF LInv, FoldsFit
    <2>3. QED BY <2>1, <2>2
<1>9. FoldsFit'
    BY <1>1, <1>7, <1>8 DEF FoldsFit, RowsIn
<1>10. ASSUME NEW d \in Days
       PROVE  /\ daily'[d] \subseteq Recorded(d)
              /\ tick >= RowsIn(d) \/ tick >= FoldsEnd(d) => daily'[d] = Recorded(d)
              /\ ~(daily[d] \subseteq daily'[d]) => fold[f].passed
    <2>1. daily[d] \subseteq Recorded(d) /\ fold[f].read[d] \subseteq Recorded(d)
        BY DEF LInv, FoldsFit, FiguresFit
    <2>2. daily'[d] = fold[f].read[d] \/ (daily'[d] = daily[d] /\ fold[f].read[d] = {})
        BY <1>5
    <2>3. CASE tick >= FoldsEnd(d)
        <3>1. d \notin Window /\ daily[d] = Recorded(d)
            <4>1. tick \in Nat /\ RollupTypeOK
                BY RollupTypes DEF LInv
            <4>2. QED BY <2>3, <4>1, DayOrder, WindowEnds DEF LInv, FiguresFit
        <3>2. fold[f].read[d] = {}
            BY <3>1 DEF LInv, FoldsFit
        <3>3. QED BY <1>5, <3>1, <3>2
    <2>4. CASE tick >= RowsIn(d) /\ ~(tick >= FoldsEnd(d))
        <3>1. d \in Window
            <4>1. tick \in Nat /\ RollupTypeOK
                BY RollupTypes DEF LInv
            <4>2. tick >= DayEnd(d) /\ tick < FoldsEnd(d)
                BY <2>4, <4>1, DayOrder
            <4>3. QED BY <4>1, <4>2, WindowEnds
        <3>2. fold[f].read[d] = Recorded(d)
            BY <1>1, <2>4, <3>1 DEF LInv, FoldsFit
        <3>3. daily'[d] = Recorded(d)
            BY <2>1, <2>2, <3>2
        <3>4. QED BY <2>1, <3>3
    <2>5. CASE ~(tick >= RowsIn(d)) /\ ~(tick >= FoldsEnd(d))
        BY <1>1, <1>5, <2>1, <2>2, <2>5 DEF LInv, FoldsFit
    <2>6. QED BY <2>3, <2>4, <2>5
<1>11. FiguresFit'
    BY <1>1, <1>7, <1>10 DEF FiguresFit, RowsIn, FoldsEnd
<1>12. RowsFit'
    BY <1>1 DEF LInv, RowsFit
<1>13. foldedAt' <= tick'
    BY <1>1, RollupTypes DEF LInv
<1>14. ~fold'[f].open
    BY <1>1, <1>2
<1>15. QED BY <1>6, <1>9, <1>10, <1>11, <1>12, <1>13, <1>14 DEF LInv

\* A tick passes, with no statement open, no row overdue, and a fold completed
\* within the bound.
LEMMA TickStep ==
    ASSUME LInv, TimePasses
    PROVE  LInv'
<1>1. /\ tick < MaxTicks /\ tick' = tick + 1 /\ \A f \in Folders : ~fold[f].open
      /\ \A c \in Clicks : at[c] # -1 /\ row[c] = "none" => tick < at[c] + MaxLate
      /\ tick - foldedAt <= MaxOutage /\ UNCHANGED <<at, row, partitions, daily, fold, foldedAt>>
    BY DEF TimePasses
<1>2. tick \in Nat /\ foldedAt \in Int /\ foldedAt <= tick /\ \A c \in Clicks : at[c] \in Int
    BY RollupTypes DEF LInv
<1> USE RollupNumbers
<1>3. RollupTypeOK' /\ foldedAt' <= tick'
    BY <1>1, <1>2 DEF LInv, RollupTypeOK
<1>4. RowsFit'
    <2>1. ASSUME NEW c \in Clicks
          PROVE  /\ at[c] = -1 => row[c] = "none"
                 /\ at[c] # -1 /\ row[c] = "none" => tick' <= at[c] + MaxLate
        BY <1>1, <1>2 DEF LInv, RowsFit
    <2>2. ASSUME NEW c \in Clicks, row[c] = "purged"
          PROVE  MonthEnd(MonthOf(DayOf(at[c]))) <= tick' - Retention
        <3>1. at[c] \in Nat
            BY <2>2, RollupTypes DEF LInv, RowsFit
        <3>2. MonthEnd(MonthOf(DayOf(at[c]))) \in Nat
            BY <3>1, DaysEnd, MonthsEnd
        <3>3. MonthEnd(MonthOf(DayOf(at[c]))) <= tick - Retention
            BY <2>2 DEF LInv, RowsFit
        <3>4. QED BY <1>1, <1>2, <3>2, <3>3
    <2>3. QED BY <1>1, <2>1, <2>2 DEF RowsFit
<1>5. \A d \in Days : Recorded(d)' = Recorded(d)
    BY <1>1 DEF Recorded
<1>6. \A f \in Folders : \A d \in Days : fold[f].read[d] = {}
    BY <1>1 DEF LInv, FoldsFit
<1>7. FoldsFit'
    BY <1>1, <1>5, <1>6 DEF FoldsFit
<1>8. ASSUME NEW d \in Days
      PROVE  /\ daily[d] \subseteq Recorded(d)
             /\ foldedAt >= RowsIn(d) \/ tick' >= FoldsEnd(d) => daily[d] = Recorded(d)
    <2>1. tick' >= FoldsEnd(d) => foldedAt >= RowsIn(d) \/ tick >= FoldsEnd(d)
        BY <1>1, <1>2, DayOrder
    <2>2. QED BY <2>1 DEF LInv, FiguresFit
<1>9. FiguresFit'
    BY <1>1, <1>5, <1>8 DEF FiguresFit, RowsIn, FoldsEnd
<1>10. QED BY <1>3, <1>4, <1>7, <1>9 DEF LInv

\* The invariant holds to begin with.
LEMMA RollupStarts == RollupInit => LInv
<1> SUFFICES ASSUME RollupInit PROVE LInv
    OBVIOUS
<1> USE RollupNumbers
<1>1. /\ tick = 0 /\ foldedAt = -1 /\ \A c \in Clicks : at[c] = -1 /\ row[c] = "none"
      /\ \A d \in Days : daily[d] = {} /\ \A f \in Folders : fold[f] = NoFold
    BY DEF RollupInit
<1>2. NoFold.open = FALSE /\ NoFold \in [open: BOOLEAN, passed: BOOLEAN, read: [Days -> SUBSET Clicks]]
      /\ \A d \in Days : NoFold.read[d] = {}
    BY DEF NoFold
<1>3. RollupTypeOK
    <2>1. -1 \in -1..MaxTicks /\ 0 \in 0..MaxTicks
        OBVIOUS
    <2>2. QED BY <1>2, <2>1 DEF RollupInit, RollupTypeOK
<1>4. RowsFit
    BY <1>1 DEF RowsFit
<1>5. FoldsFit
    BY <1>1, <1>2 DEF FoldsFit
<1>6. ASSUME NEW d \in Days
      PROVE  Recorded(d) = {}
    BY <1>1 DEF Recorded
<1>7. FiguresFit
    BY <1>1, <1>6 DEF FiguresFit
<1>8. QED BY <1>1, <1>3, <1>4, <1>5, <1>7 DEF LInv

\* Every step keeps it.
LEMMA RollupStep == LInv /\ [RollupNext]_rollup => LInv'
<1> SUFFICES ASSUME LInv, [RollupNext]_rollup PROVE LInv'
    OBVIOUS
<1>1. CASE UNCHANGED rollup
    <2>1. RollupTypeOK' /\ RowsFit' /\ foldedAt' <= tick'
        BY <1>1 DEF rollup, LInv, RollupTypeOK, RowsFit
    <2>2. \A d \in Days : Recorded(d)' = Recorded(d)
        BY <1>1 DEF rollup, Recorded
    <2>3. QED BY <1>1, <2>1, <2>2, RowsMove DEF rollup, LInv
<1>2. QED BY <1>1, ClickStep, PartitionStep, ReadStep, CommitStep, TickStep DEF RollupNext

\* LInv is an invariant of the fold.
THEOREM RollupInductive == RollupSpec => []LInv
BY RollupStarts, RollupStep, PTL DEF RollupSpec

\* For every number of replicas and of clicks, every length of the day, the month
\* and the window: as long as lateness and outages together stay under the window,
\* a day that folds have left shows every click it had.
THEOREM DaysStaySettled == RollupSpec => []DaysSettle
<1>1. ASSUME LInv, NEW d \in Days, Settled(d)
      PROVE  daily[d] = Recorded(d)
    <2>1. d < DayOf(tick) /\ d \notin Window /\ RollupTypeOK
        BY <1>1 DEF Settled, LInv
    <2>2. DayOf(tick) >= d /\ tick \in Nat /\ FoldsEnd(d) \in Nat
        BY <2>1, DaysEnd, DayOrder, RollupTypes
    <2>3. tick >= FoldsEnd(d)
        BY <2>1, <2>2, WindowEnds
    <2>4. QED BY <1>1, <2>3 DEF LInv, FiguresFit
<1>2. LInv => DaysSettle
    BY <1>1 DEF DaysSettle
<1>3. QED BY <1>2, RollupInductive, PTL

\* No step lowers a figure but the commit of a statement that another has passed.
THEOREM FiguresFallOnlyOverlapped == RollupSpec => FallsOnlyOverlapped
<1>1. ASSUME LInv, RollupNext, NEW d \in Days, ~(daily[d] \subseteq daily'[d])
      PROVE  \E f \in Folders : fold[f].passed /\ ~fold'[f].open
    <2>1. daily' # daily
        BY <1>1
    <2>2. \E f \in Folders : FoldCommit(f)
        BY <1>1, <2>1 DEF RollupNext, Visit, Insert, Ensure, DropExpired, FoldRead, FoldFails, TimePasses
    <2>3. QED BY <1>1, <2>2, CommitStep
<1>2. LInv /\ [RollupNext]_rollup =>
         [\A d \in Days : ~(daily[d] \subseteq daily'[d]) => \E f \in Folders : fold[f].passed /\ ~fold'[f].open]_rollup
    BY <1>1
<1>3. QED BY <1>2, RollupInductive, PTL DEF RollupSpec, FallsOnlyOverlapped

-----------------------------------------------------------------------------
(* What a visitor may decide.                                              *)

\* A source under another fills its gaps.
LEMMA UnderFills ==
    ASSUME NEW f, NEW g
    PROVE  /\ DOMAIN Under(f, g) = DOMAIN f \cup DOMAIN g
           /\ \A k \in DOMAIN f : Under(f, g)[k] = f[k]
           /\ \A k \in DOMAIN g \ DOMAIN f : Under(f, g)[k] = g[k]
BY DEF Under

\* Nothing fills no gap.
LEMMA NothingFills ==
    ASSUME NEW f
    PROVE  DOMAIN Under(f, <<>>) = DOMAIN f /\ \A k \in DOMAIN f : Under(f, <<>>)[k] = f[k]
<1> DEFINE nothing == <<>>
<1>1. DOMAIN nothing = {}
    OBVIOUS
<1> HIDE DEF nothing
<1>2. /\ DOMAIN Under(f, nothing) = DOMAIN f \cup DOMAIN nothing
      /\ \A k \in DOMAIN f : Under(f, nothing)[k] = f[k]
    BY UnderFills
<1>3. DOMAIN Under(f, nothing) = DOMAIN f
    BY <1>1, <1>2
<1>4. QED BY <1>2, <1>3 DEF nothing

\* The address counted from the end is the one the outermost proxy saw, whatever
\* was sent in front of it.
LEMMA CountedFromTheEnd ==
    ASSUME NEW S, NEW sent \in Seq(S), NEW hops \in Nat, hops > 0
    PROVE  ClientIp(Forwarded(sent, hops), hops, "socket") = "visitor"
<1> DEFINE added == [i \in 1..hops |-> IF i = 1 THEN "visitor" ELSE "proxy"]
           header == Forwarded(sent, hops)
           T == S \cup {"visitor", "proxy"}
<1>1. added \in Seq(T) /\ Len(added) = hops /\ added[1] = "visitor"
    <2>1. 1 \in 1..hops
        OBVIOUS
    <2>2. "visitor" \in T /\ "proxy" \in T
        OBVIOUS
    <2> HIDE DEF T
    <2>3. \A i \in 1..hops : added[i] = IF i = 1 THEN "visitor" ELSE "proxy"
        OBVIOUS
    <2>4. added \in [1..hops -> T]
        BY <2>2
    <2> HIDE DEF added
    <2>5. added \in Seq(T) /\ Len(added) = hops
        BY <2>4
    <2>6. QED BY <2>1, <2>3, <2>5
<1>2. sent \in Seq(T)
    <2>1. sent \in [1..Len(sent) -> S] /\ Len(sent) \in Nat
        OBVIOUS
    <2>2. sent \in [1..Len(sent) -> T]
        BY <2>1
    <2> HIDE DEF T
    <2>3. QED BY <2>1, <2>2
<1> HIDE DEF added, T
<1>3. header = sent \o added
    BY DEF Forwarded, added
<1>4. /\ header \in Seq(T) /\ Len(header) = Len(sent) + hops /\ Len(sent) \in Nat
      /\ header[Len(sent) + 1] = "visitor"
    <2>1. /\ sent \o added \in Seq(T) /\ Len(sent \o added) = Len(sent) + Len(added)
          /\ \A i \in 1 .. Len(sent) + Len(added) :
                (sent \o added)[i] = IF i <= Len(sent) THEN sent[i] ELSE added[i - Len(sent)]
        BY <1>1, <1>2, ConcatProperties
    <2>2. Len(sent) \in Nat /\ Len(sent) + 1 \in 1 .. Len(sent) + Len(added) /\ (Len(sent) + 1) - Len(sent) = 1
        BY <1>1
    <2>3. QED BY <1>1, <1>3, <2>1, <2>2
<1> HIDE DEF header
<1>5. header # <<>> /\ Hops(hops) = hops
    BY <1>4 DEF Hops
<1>6. (IF Len(header) > hops THEN Len(header) - hops + 1 ELSE 1) = Len(sent) + 1
    BY <1>4
<1>7. ClientIp(header, hops, "socket") = header[Len(sent) + 1]
    BY <1>5, <1>6 DEF ClientIp
<1>8. QED BY <1>4, <1>7 DEF header

\* Whatever keys and values the destination, the link and the visitor bring,
\* however long the forwarding header and however many the proxies, what a
\* visitor sends decides nothing but gaps.
THEOREM VisitorsDecideNothing ==
    ASSUME rule.of = "address" => rule.hops \in Nat /\ \E S : rule.sent \in Seq(S)
    PROVE  VisitorsFillGaps
<1> DEFINE base   == Under(Under(rule.target, Filled(<<>>)), Filled(rule.stored))
           alone  == BuildTargetUrl(rule.target, <<>>, rule.stored, <<>>)
           passed == BuildTargetUrl(rule.target, <<>>, rule.stored, rule.passed)
<1>1. alone = Under(base, <<>>) /\ passed = Under(base, rule.passed)
    BY DEF BuildTargetUrl
<1> HIDE DEF base, alone, passed
<1>2. DOMAIN alone = DOMAIN base /\ \A k \in DOMAIN base : alone[k] = base[k]
    BY <1>1, NothingFills
<1>3. /\ \A k \in DOMAIN base : passed[k] = base[k]
      /\ \A k \in DOMAIN rule.passed \ DOMAIN base : passed[k] = rule.passed[k]
    <2>1. /\ \A k \in DOMAIN base : Under(base, rule.passed)[k] = base[k]
          /\ \A k \in DOMAIN rule.passed \ DOMAIN base : Under(base, rule.passed)[k] = rule.passed[k]
        BY UnderFills, Zenon
    <2>2. QED BY <1>1, <2>1
<1>4. /\ \A k \in DOMAIN alone : passed[k] = alone[k]
      /\ \A k \in DOMAIN rule.passed \ DOMAIN alone : passed[k] = rule.passed[k]
    BY <1>2, <1>3
<1>5. rule.of = "address" /\ rule.hops > 0 =>
          ClientIp(Forwarded(rule.sent, rule.hops), rule.hops, "socket") = "visitor"
    BY CountedFromTheEnd
<1>6. QED BY <1>4, <1>5 DEF VisitorsFillGaps, alone, passed

-----------------------------------------------------------------------------
(* The edge as the runs stage it.                                          *)

\* Each component's inductive invariant.
EInv == CInv /\ RInv /\ LInv /\ GInv

\* Whichever component is staged, the others stay as they start.
LEMMA StagesOne ==
    ASSUME [EdgeNext]_all
    PROVE  [CollectorNext]_cvars /\ [ResolverNext]_rvars /\ [RollupNext]_rollup /\ [GeoRefreshNext]_geo
<1>1. CASE UNCHANGED all
    BY <1>1 DEF all
<1>2. CASE EdgeNext
    BY <1>2 DEF EdgeNext
<1>3. QED BY <1>1, <1>2

\* EInv is an invariant of the staged edge.
THEOREM EdgeInductive == EdgeSpec => []EInv
<1>1. EdgeInit => EInv
    BY CollectorStarts, ResolverStarts, RollupStarts, GeoStarts DEF EdgeInit, EInv
<1>2. EInv /\ [EdgeNext]_all => EInv'
    BY StagesOne, CollectorStep, ResolverStep, RollupStep, GeoStep DEF EInv
<1>3. QED BY <1>1, <1>2, PTL DEF EdgeSpec

\* The clicks, the hosts, the folds and the databases keep their types together,
\* the bounds of the queue, the chain and the map of hosts among them
\* (collect.mjs, resolve.mjs, rollup.mjs and geo.mjs).
THEOREM EdgeStaysTyped == EdgeSpec => []EdgeTypeOK
<1>1. EInv => EdgeTypeOK
    BY DEF EInv, CInv, RInv, LInv, GInv, EdgeTypeOK
<1>2. QED BY <1>1, EdgeInductive, PTL
=============================================================================
