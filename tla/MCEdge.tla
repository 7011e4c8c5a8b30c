-------------------------------- MODULE MCEdge --------------------------------
(***************************************************************************)
(* The edge and what it feeds, one component at a time: a behaviour stages *)
(* one of them, and the others stay as they start.                         *)
(***************************************************************************)
EXTENDS Collector, Resolver, Rollup, GeoRefresh, GeoReader, Editor, Usage, Reports, TLC

CONSTANTS h1, h2

VARIABLE stage

Pure == <<rule, datum, reading, view>>
all == <<stage, cvars, rvars, rollup, geo, Pure>>

\* h1 may be switched off, deleted and created again; h2 is a name nobody serves.
MCSiteRows ==
    h1 :> {NoSite, [active |-> TRUE, fallback |-> "shared", id |-> 1],
           [active |-> FALSE, fallback |-> "shared", id |-> 1],
           [active |-> TRUE, fallback |-> "none", id |-> 2]} @@
    h2 :> {NoSite}
Start == [active |-> TRUE, fallback |-> "shared", id |-> 1]
MCLinkRows == {Live, [Live EXCEPT !.active = FALSE]}
MCRanked == <<"br", "de", "other", "us">>
MCEditions == <<"city", "asn">>

Input(name, variable, Inputs) ==
    IF stage = name THEN variable \in Inputs ELSE variable = [of |-> "none"]

EdgeInit ==
    /\ stage \in {"collector", "resolver", "rollup", "geo", "rules", "reader", "usage", "reports"}
    /\ CollectorInit /\ ResolverInit /\ sites[h1] = Start
    /\ RollupInit /\ GeoRefreshInit
    /\ stage # "rollup" => partitions = {}
    /\ stage # "geo" => disk = None
    /\ Input("rules", rule, EditorInputs)
    /\ Input("reader", datum, GeoInputs)
    /\ Input("usage", reading, UsageInputs)
    /\ Input("reports", view, ReportInputs)

EdgeNext ==
    /\ UNCHANGED <<stage, Pure>>
    /\ \/ stage = "collector" /\ CollectorNext /\ UNCHANGED <<rvars, rollup, geo>>
       \/ stage = "resolver" /\ ResolverNext /\ UNCHANGED <<cvars, rollup, geo>>
       \/ stage = "rollup" /\ RollupNext /\ UNCHANGED <<cvars, rvars, geo>>
       \/ stage = "geo" /\ GeoRefreshNext /\ UNCHANGED <<cvars, rvars, rollup>>

\* CollectorFairness; off stage it asks nothing.
StagedFairness ==
    LET Fair(A) == stage = "collector" /\ A IN
    /\ \A v \in Visits : WF_cvars(Fair(Answer(v) \/ Fail(v)))
    /\ WF_cvars(Fair(Running /\ TimerFires))
    /\ WF_cvars(Fair(Running /\ (Written \/ Refused \/ TimedOut)))
    /\ WF_cvars(Fair(Stop)) /\ WF_cvars(Fair(Exit))

EdgeSpec == EdgeInit /\ [][EdgeNext]_all /\ StagedFairness

\* One typing invariant for the edge's state.
EdgeTypeOK == CollectorTypeOK /\ ResolverTypeOK /\ RollupTypeOK /\ GeoRefreshTypeOK
=============================================================================
