-------------------------------- MODULE Usage --------------------------------
(***************************************************************************)
(* The usage monitor's arithmetic (panel/app/lib/usage.server.ts): what a  *)
(* sample records, the projection of the cycle's cost and the level it     *)
(* makes.  Money is in cents and time in hours; `reading` is one history   *)
(* and one moment, chosen at the start.                                    *)
(***************************************************************************)
EXTENDS Integers, Sequences

CONSTANTS
    Cycle,    \* hours in a billing cycle
    Ceiling,  \* planCeiling, in cents
    SampleWindow,   \* SAMPLE_WINDOW
    Moments,  \* hours a sample or a look may fall on
    Costs     \* what the provider may report

ASSUME UsageConstants ==
    /\ Cycle \in Nat \ {0} /\ Ceiling \in Nat \ {0} /\ SampleWindow \in Nat \ {0}
    /\ Moments \subseteq Nat /\ Costs \subseteq Nat

VARIABLE reading

\* An answer of the provider's is a cost, or Unpriced when it measured anything
\* else, or Silent: no answer, one with errors, or nothing recognisable in it.
Unpriced == -1
Silent == -2

\* readRailway, localSample and sampleUsage: a sample of the provider's if there
\* are credentials and it answers, a local one without a price otherwise.
SampleOf(at, credentials, answer) ==
    IF credentials /\ answer # Silent THEN [at |-> at, source |-> "railway", cost |-> answer]
    ELSE [at |-> at, source |-> "local", cost |-> Unpriced]

\* recentSamples.
RecentSamples(samples) == SubSeq(samples, IF Len(samples) > SampleWindow THEN Len(samples) - SampleWindow + 1 ELSE 1, Len(samples))

\* calendarMonth, and resolvePeriod: samples carry the month they were taken in,
\* so an open period of the newest is the month of now.
Opened(now) == (now \div Cycle) * Cycle

\* Math.round of a positive quotient.
Rounded(n, d) == (2 * n + d) \div (2 * d)

\* The readings with a price, those of them of the cycle of now, and the newest of
\* some: samples are in the order of their moments.
Priced(samples) == {i \in DOMAIN samples : samples[i].cost # Unpriced}
InCycle(samples, now) == {i \in Priced(samples) : Opened(samples[i].at) = Opened(now)}
Newest(samples, at) == samples[CHOOSE i \in at : \A j \in at : j <= i]

\* (mutant: last month's reading is carried over)
ProjectCarried(samples, now) ==
    LET spent   == Newest(samples, Priced(samples)).cost
        elapsed == now - Opened(now)
    IN  IF Priced(samples) = {} THEN 0
        ELSE IF elapsed < 1 THEN spent ELSE Rounded(spent * Cycle, elapsed)

\* projectCost: the newest priced reading of this cycle, at the rate since the
\* cycle opened, withheld in its first hour.
Project(samples, now) ==
    LET spent   == Newest(samples, InCycle(samples, now)).cost
        elapsed == now - Opened(now)
    IN  IF InCycle(samples, now) = {} THEN 0
        ELSE IF elapsed < 1 THEN spent ELSE Rounded(spent * Cycle, elapsed)

\* perDay, in cents: nothing in the first hour, or when nothing was read.
PerDay(samples, now) ==
    LET elapsed == now - Opened(now)
    IN  IF InCycle(samples, now) = {} \/ elapsed < 1 THEN 0
        ELSE Rounded(Newest(samples, InCycle(samples, now)).cost * 24, elapsed)

\* usageStatus: over the ceiling, past four fifths of it, or under.
Level(samples, now) ==
    CASE Priced(samples) = {} -> "unknown"
      [] Priced(samples) # {} /\ Project(samples, now) > Ceiling -> "over"
      [] Priced(samples) # {} /\ Project(samples, now) <= Ceiling ->
           IF 5 * Project(samples, now) > 4 * Ceiling THEN "warning" ELSE "ok"

\* What usageStatus advises, each line by what it says; `host` is "railway" when
\* INFRA_PROVIDER is.
Advice(samples, now, credentials, host) ==
    LET level == Level(samples, now)
        railway == host = "railway"
    IN  {line \in {"no sample", "not answering", "set the token", "no forecast yet", "closes at",
                   "cut retention", "sleep the panel", "one replica", "raise the ceiling"} :
         CASE line = "no sample"         -> samples = <<>>
           [] line = "not answering"     -> samples # <<>> /\ samples[Len(samples)].source = "local" /\ credentials
           [] line = "set the token"     -> samples # <<>> /\ level = "unknown" /\ ~credentials /\ railway
           [] line = "no forecast yet"   -> level # "unknown" /\ PerDay(samples, now) = 0
           [] line \in {"closes at", "cut retention"}      -> level \in {"warning", "over"}
           [] line \in {"sleep the panel", "one replica"}  -> level \in {"warning", "over"} /\ railway
           [] line = "raise the ceiling" -> level = "over"}

\* Histories of up to three samples, of an installation that has credentials and
\* of one that has none.
UsageInputs ==
    LET Times == {t \in Moments \X Moments \X Moments \X Moments : t[1] <= t[2] /\ t[2] <= t[3] /\ t[3] <= t[4]}
        Answers == Costs \cup {Unpriced, Silent}
    IN  [of: {"usage"}, times: Times, answers: Answers \X Answers \X Answers, credentials: {TRUE}, host: {"railway"}]
        \cup [of: {"usage"}, times: {t \in Times : t[1] = t[2]}, answers: {<<0, 0, 0>>}, credentials: {FALSE}, host: {"railway", "vps"}]
UsageInit == reading \in UsageInputs

\* What the readings of a cycle make of it.  Money known to be spent past the
\* ceiling always shows as over, until as many samples without a price follow
\* as are looked at; without any reading among those nothing is shown as fine.
\* While no new reading comes the projection of a cycle past its first hour only
\* falls, and never under what was spent.  A cycle nothing was read in projects
\* nothing, whatever the one before it cost -- and, though the level is then "ok"
\* (usage.server.ts:419-422 would have it judge nothing), says that its figure
\* is no forecast; and a provider that has stopped answering is named.
ProjectionHolds ==
    reading.of = "usage" =>
        LET taken   == [i \in 1..3 |-> SampleOf(reading.times[i], reading.credentials, reading.answers[i])]
            samples == RecentSamples(taken)
            now     == reading.times[4]
            read    == {i \in DOMAIN samples : samples[i].cost # Unpriced /\ Opened(samples[i].at) = Opened(now)}
            newest  == CHOOSE i \in read : \A j \in read : j <= i
            advice  == Advice(samples, now, reading.credentials, reading.host)
        IN  /\ read = {} => Project(samples, now) = 0
            /\ read # {} /\ samples[newest].cost > Ceiling => Level(samples, now) = "over"
            /\ Level(samples, now) = "unknown" <=> \A i \in DOMAIN samples : samples[i].cost = Unpriced
            /\ read # {} => Project(samples, now) >= samples[newest].cost
            /\ now > Opened(now) => \A later \in Moments :
                  later >= now /\ Opened(later) = Opened(now) => Project(samples, later) <= Project(samples, now)
            /\ Level(samples, now) = "ok" /\ read = {} => "no forecast yet" \in advice
            /\ reading.credentials /\ reading.answers[3] = Silent => "not answering" \in advice
            /\ reading.host # "railway" => advice \cap {"set the token", "sleep the panel", "one replica"} = {}
=============================================================================
