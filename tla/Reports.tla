------------------------------- MODULE Reports -------------------------------
(***************************************************************************)
(* What a report computes from the rollup (panel/app/lib/reports.server.ts)*)
(* and what its CSV carries.  Nothing changes state: `view` is one input,  *)
(* chosen at the start.  Days count from 0; a rollup row holds the clicks  *)
(* of one link on one day by country, its visit days and its bots, and the *)
(* other dimensions are read as countries are, but for the browsers, which *)
(* are counted in the raw events.  Each of two links is on a domain of its *)
(* own; a tag or a search narrows as a domain does.                        *)
(***************************************************************************)
EXTENDS Integers, FiniteSets, FiniteSetsExt

CONSTANTS
    Ranked,      \* the keys of a dimension, in their order; "other" among them
    MaxBuckets,  \* MAX_BUCKETS
    TopCount,    \* TOP_LINKS
    RawFrom      \* the first day whose raw events retention has left

ASSUME ReportConstants ==
    /\ {MaxBuckets, TopCount} \subseteq Nat \ {0} /\ RawFrom \in Nat
    /\ \E n \in DOMAIN Ranked : n \in Nat /\ DOMAIN Ranked = 1..n
    /\ \E i \in DOMAIN Ranked : Ranked[i] = "other"

VARIABLE view

Countries == {Ranked[i] : i \in DOMAIN Ranked}
Place(k) == CHOOSE i \in DOMAIN Ranked : Ranked[i] = k
SumOver(f, S) == MapThenSumSet(LAMBDA k : f[k], S)
Total(f) == SumOver(f, DOMAIN f)

-----------------------------------------------------------------------------
(* Breakdowns.                                                             *)

\* byClicksThenKey
Precedes(counts, j, k) == counts[j] > counts[k] \/ (counts[j] = counts[k] /\ Place(j) < Place(k))

\* toBreakdown: the first buckets, and the rest folded into "other", which may
\* be there already.
Folded(counts) ==
    LET present == {k \in DOMAIN counts : counts[k] > 0}
        head == {k \in present : Cardinality({j \in present : Precedes(counts, j, k)}) < MaxBuckets}
        rest == SumOver(counts, present \ head)
    IN  [k \in head \cup (IF rest > 0 THEN {"other"} ELSE {}) |->
            (IF k \in head THEN counts[k] ELSE 0) + (IF k = "other" THEN rest ELSE 0)]

\* (mutant: each bucket is rounded on its own)
SharesRounded(clicks) ==
    IF Total(clicks) = 0 THEN {[k \in DOMAIN clicks |-> 0]}
    ELSE {[k \in DOMAIN clicks |-> (2000 * clicks[k] + Total(clicks)) \div (2 * Total(clicks))]}

\* assignShares, in tenths of a percent.  The remainders are floating-point
\* numbers, so which of two equal ones is first is left open.
Shares(clicks) ==
    IF Total(clicks) = 0 THEN {[k \in DOMAIN clicks |-> 0]}
    ELSE LET tenths == [k \in DOMAIN clicks |-> (1000 * clicks[k]) \div Total(clicks)]
             over(k) == (1000 * clicks[k]) % Total(clicks)
             Up == {U \in SUBSET DOMAIN clicks :
                      /\ Cardinality(U) = 1000 - Total(tenths)
                      /\ \A a \in U, b \in DOMAIN clicks \ U : over(a) >= over(b)}
         IN  {[k \in DOMAIN clicks |-> tenths[k] + (IF k \in U THEN 1 ELSE 0)] : U \in Up}

-----------------------------------------------------------------------------
(* Reports.                                                                *)

\* scopeConditions: filters narrow together, and a list of none selects none.
InScope(scope) ==
    {l \in {"one", "two"} :
        /\ l \in scope.trash => scope.includeDeleted
        /\ l \in scope.linkIds
        /\ scope.domain \in {"any", l}}

\* readDaily, readRollup and, of the raw events of people, readBrowsers, over a
\* window of days.
ReportRows(links, from, to) == links \X {d \in 0..to : d >= from}
Daily(table, links, from, to) ==
    LET rows == ReportRows(links, from, to)
    IN  [clicks    |-> Total([at \in rows |-> Total(table[at].countries)]),
         visitDays |-> Total([at \in rows |-> table[at].visitDays]),
         bots      |-> Total([at \in rows |-> table[at].bots])]
ReadRollup(table, links, from, to) ==
    [k \in Countries |-> Total([at \in ReportRows(links, from, to) |-> table[at].countries[k]])]
ReadBrowsers(raw, links, from, to) ==
    [k \in Countries |-> Total([at \in ReportRows(links, from, to) |-> raw[at][k]])]

\* readTopLinks: which of the links with clicks have the most.
ReadTopLinks(table, links, from, to) ==
    LET of(l) == Daily(table, {l}, from, to).clicks
        ahead(l) == {m \in links : of(m) > of(l) \/ (of(m) = of(l) /\ m = "one" /\ l = "two")}
        top == {l \in links : of(l) > 0 /\ Cardinality(ahead(l)) < TopCount}
    IN  [l \in top |-> of(l)]

\* percentChange, in tenths, gated on its own baseline: no change without one.
Against(current, previous) ==
    IF previous = 0 THEN {} ELSE {(2000 * (current - previous) + previous) \div (2 * previous)}

\* buildReport, of a range that does not end before it starts.
Report(table, raw, scope, from, to) ==
    LET links    == InScope(scope)
        days     == to - from + 1
        totals   == Daily(table, links, from, to)
        previous == Daily(table, links, from - days, from - 1)
        series   == [d \in from..to |-> Daily(table, links, d, d)]
        busiest  == {d \in from..to : /\ series[d].clicks > 0
                                      /\ \A e \in from..to : \/ series[e].clicks < series[d].clicks
                                                             \/ series[e].clicks = series[d].clicks /\ d <= e}
    IN  [totals    |-> totals,
         links     |-> Cardinality(links),
         change    |-> [clicks    |-> Against(totals.clicks, previous.clicks),
                        visitDays |-> Against(totals.visitDays, previous.visitDays)],
         series    |-> series,
         byCountry |-> Folded(ReadRollup(table, links, from, to)),
         byBrowser |-> Folded(ReadBrowsers(raw, links, from, to)),
         topLinks  |-> ReadTopLinks(table, links, from, to),
         peak      |-> busiest]

\* exportReportCsv: a row <<section, key, clicks>> for each figure.
Csv(report) ==
    {<<"day", d, report.series[d].clicks>> : d \in DOMAIN report.series} \cup
    {<<"country", k, report.byCountry[k]>> : k \in DOMAIN report.byCountry} \cup
    {<<"browser", k, report.byBrowser[k]>> : k \in DOMAIN report.byBrowser} \cup
    {<<"link", l, report.topLinks[l]>> : l \in DOMAIN report.topLinks}
SectionTotal(rows, section) ==
    Total([row \in {at \in rows : at[1] = section} |-> row[3]])

-----------------------------------------------------------------------------
(* Inputs and properties.                                                  *)

RollupRow(a, b, visitDays, bots) ==
    [countries |-> [k \in Countries |-> IF k = Ranked[1] THEN a ELSE IF k = "other" THEN b ELSE 0],
     visitDays |-> visitDays, bots |-> bots]
RollupRows == {RollupRow(0, 0, 0, 1), RollupRow(1, 1, 1, 1), RollupRow(2, 0, 2, 0)}
Wide == [trash |-> {}, includeDeleted |-> FALSE, linkIds |-> {"one", "two"}, domain |-> "any"]
Scopes == {Wide, [Wide EXCEPT !.trash = {"two"}], [Wide EXCEPT !.trash = {"two"}, !.includeDeleted = TRUE],
           [Wide EXCEPT !.linkIds = {}], [Wide EXCEPT !.linkIds = {"one"}, !.domain = "two"]}

\* The raw events of a rollup, when as many are `late`, written since the last fold
\* of their day: those of the days retention has left.
Raw(table, late) ==
    [at \in DOMAIN table |-> [k \in Countries |->
        IF at[2] < RawFrom THEN 0
        ELSE table[at].countries[k] + (IF k = "other" THEN late[at] ELSE 0)]]
FewRows == {"one", "two"} \X (0..2)
Late(at) == IF at = <<"one", 2>> /\ RawFrom <= 2 THEN 3 ELSE 0
Lates == {[at \in FewRows |-> 0], [at \in FewRows |-> Late(at)]}

ReportInputs ==
    [of: {"breakdown"}, counts: [Countries -> 0..4]] \cup
    {[of |-> "report", table |-> table, raw |-> Raw(table, late), late |-> late,
      scope |-> scope, from |-> from, to |-> 2] :
        table \in [FewRows -> RollupRows], late \in Lates, scope \in Scopes, from \in 0..2}

ReportsInit == view \in ReportInputs

\* A breakdown keeps every click, and its shares come to exactly 100.0%, none
\* a tenth or more from its bucket's part and none out of order with the clicks
\* (reports.server.ts:259-267).
BreakdownAddsUp(counts) ==
    LET clicks == Folded(counts) IN
    /\ Total(clicks) = Total(counts)
    /\ Cardinality(DOMAIN clicks) <= MaxBuckets + 1
    /\ \A share \in Shares(clicks) :
          /\ Total(share) = IF Total(clicks) = 0 THEN 0 ELSE 1000
          /\ \A j, k \in DOMAIN clicks : clicks[j] > clicks[k] => share[j] >= share[k]
          /\ \A k \in DOMAIN clicks :
                LET off == share[k] * Total(clicks) - 1000 * clicks[k]
                IN  -Total(clicks) < off /\ off < Total(clicks)

\* Whatever is exported about a scope agrees: the days, the countries and, when
\* every link is listed, the links each sum to the totals; the browsers, which are
\* counted elsewhere, do so but for the days whose events retention has dropped and
\* for the clicks no fold has seen yet; the figures of a range and of the one it is
\* compared with are those of the range over both; the peak is one of the days
\* unless there was no click; and a deleted link counts only where asked for.
Dropped(table, links, from, to) ==
    Daily(table, links, from, IF to < RawFrom THEN to ELSE RawFrom - 1).clicks
Unfolded(late, links, from, to) == Total([at \in ReportRows(links, from, to) |-> late[at]])
ReportAddsUp(table, raw, late, scope, from, to) ==
    LET report == Report(table, raw, scope, from, to)
        links  == InScope(scope)
        days   == to - from + 1
        before == Report(table, raw, scope, from - days, from - 1)
        both   == Report(table, raw, scope, from - days, to)
        rows   == Csv(report)
        clicks == report.totals.clicks
    IN  /\ SectionTotal(rows, "day") = clicks /\ SectionTotal(rows, "country") = clicks
        /\ SectionTotal(rows, "link") <= clicks
        /\ report.links <= TopCount => SectionTotal(rows, "link") = clicks
        /\ SectionTotal(rows, "browser") + Dropped(table, links, from, to) =
               clicks + Unfolded(late, links, from, to)
        /\ before.totals.clicks + clicks = both.totals.clicks
        /\ report.change.clicks = {} <=> before.totals.clicks = 0
        /\ Cardinality(report.peak) = IF clicks = 0 THEN 0 ELSE 1
        /\ ~scope.includeDeleted => DOMAIN report.topLinks \cap scope.trash = {}

\* Both halves of what a report adds up to.
ReportsAddUp ==
    /\ view.of = "breakdown" => BreakdownAddsUp(view.counts)
    /\ view.of = "report" => ReportAddsUp(view.table, view.raw, view.late, view.scope, view.from, view.to)
=============================================================================
