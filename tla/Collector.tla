------------------------------ MODULE Collector ------------------------------
(***************************************************************************)
(* Click collection (edge/src/collect.mjs) and the life of the edge's      *)
(* server around it (edge/src/server.mjs): requests that answer first and  *)
(* record after, the buffer that flushes by size or by timer, the chain of *)
(* writes with its depth limit, and the shutdown that drains it.           *)
(*                                                                         *)
(* One process, one thread: a step runs until the next await.  A click is  *)
(* identified with the visit it comes from; the order of clicks inside one *)
(* INSERT is not observable, so a batch is a set.                          *)
(***************************************************************************)
EXTENDS Naturals, Sequences, FiniteSets

CONSTANTS
    Visits,      \* requests the edge receives, each at most once
    Linked,      \* those whose outcome names a link
    MaxBatch,    \* maxBatch
    MaxInFlight  \* maxInFlight

ASSUME CollectorConstants ==
    /\ IsFiniteSet(Visits) /\ Linked \subseteq Visits
    /\ MaxBatch \in Nat \ {0} /\ MaxInFlight \in Nat \ {0}

VARIABLES
    visit,           \* [Visits -> where the request is]
    queue,           \* clicks buffered
    timer,           \* is the flush timer set
    chain,           \* batches whose write has not settled; the first is being written
    inFlightBatches, \* its counter
    dropped,         \* clicks reported dropped
    stopped,         \* stop() was called
    server,          \* "listening", "closing", "draining" or "ended"
    table,           \* [Visits -> how many rows click_events has of it]
    answered         \* visits whose answer went out to somebody still there

collector == <<queue, timer, chain, inFlightBatches, dropped, stopped>>
cvars == <<visit, queue, timer, chain, inFlightBatches, dropped, stopped, server, table, answered>>

-----------------------------------------------------------------------------
(* The buffer and the chain.                                               *)

\* (mutant: the overflowing batch goes without being counted)
FlushUncounted(B) ==
    /\ queue' = {}
    /\ timer' = FALSE
    /\ IF B # {} /\ inFlightBatches < MaxInFlight
         THEN chain' = Append(chain, B) /\ inFlightBatches' = inFlightBatches + 1
         ELSE UNCHANGED <<chain, inFlightBatches>>
    /\ UNCHANGED dropped

\* flush() with B in the buffer: an empty buffer writes nothing, and a chain at
\* its limit takes no more.
Flush(B) ==
    /\ queue' = {}
    /\ timer' = FALSE
    /\ IF B # {} /\ inFlightBatches < MaxInFlight
         THEN /\ chain' = Append(chain, B)
              /\ inFlightBatches' = inFlightBatches + 1
              /\ UNCHANGED dropped
         ELSE /\ dropped' = dropped + Cardinality(B)
              /\ UNCHANGED <<chain, inFlightBatches>>

\* record(): nothing once stopped; a full buffer is flushed at once, any other
\* sets the timer.
Record(v) ==
    IF stopped
      THEN UNCHANGED collector
      ELSE LET B == queue \cup {v} IN
           /\ UNCHANGED stopped
           /\ IF Cardinality(B) >= MaxBatch
                THEN Flush(B)
                ELSE queue' = B /\ timer' = TRUE /\ UNCHANGED <<chain, inFlightBatches, dropped>>

TimerFires == timer /\ Flush(queue) /\ UNCHANGED <<visit, stopped, server, table, answered>>

\* The first write settles: its rows are stored, refused as one, or stored after
\* the client's query_timeout gave it up.
Settles(stores, counts) ==
    /\ chain # <<>>
    /\ chain' = Tail(chain)
    /\ inFlightBatches' = inFlightBatches - 1
    /\ table' = [v \in Visits |-> IF stores /\ v \in Head(chain) THEN table[v] + 1 ELSE table[v]]
    /\ dropped' = IF counts THEN dropped + Cardinality(Head(chain)) ELSE dropped
    /\ UNCHANGED <<visit, queue, timer, stopped, server, answered>>

\* (mutant: a refused batch goes back into the buffer as well as the counter)
RefusedRetrying ==
    /\ chain # <<>>
    /\ chain' = Tail(chain)
    /\ inFlightBatches' = inFlightBatches - 1
    /\ dropped' = dropped + Cardinality(Head(chain))
    /\ queue' = queue \cup Head(chain)
    /\ timer' = TRUE
    /\ UNCHANGED <<visit, stopped, server, table, answered>>

Written  == Settles(TRUE, FALSE)
Refused  == Settles(FALSE, TRUE)
TimedOut == Settles(TRUE, TRUE)

-----------------------------------------------------------------------------
(* Requests and the server.                                                *)

Arrive(v) ==
    /\ server = "listening" /\ visit[v] = "none"
    /\ visit' = [visit EXCEPT ![v] = "open"]
    /\ UNCHANGED <<collector, server, table, answered>>

\* The visitor goes; the handler is still awaiting the database.
Leave(v) ==
    /\ visit[v] = "open"
    /\ visit' = [visit EXCEPT ![v] = "left"]
    /\ UNCHANGED <<collector, server, table, answered>>

\* The answer, and then, in the same turn, the click.
Answer(v) ==
    /\ server # "ended" /\ visit[v] \in {"open", "left"}
    /\ visit' = [visit EXCEPT ![v] = IF stopped THEN "gone" ELSE "done"]
    /\ answered' = IF visit[v] = "open" THEN answered \cup {v} ELSE answered
    /\ IF v \in Linked THEN Record(v) ELSE UNCHANGED collector
    /\ UNCHANGED <<server, table>>

\* handle() throws (the lookup failed): the branded 500, and no click.
Fail(v) ==
    /\ server # "ended" /\ visit[v] \in {"open", "left"}
    /\ visit' = [visit EXCEPT ![v] = "gone"]
    /\ UNCHANGED <<collector, server, table, answered>>

Signal ==
    /\ server = "listening"
    /\ server' = "closing"
    /\ UNCHANGED <<visit, collector, table, answered>>

\* server.close calls back when no connection is left, and stop() begins: the
\* flag, then the flush.
Closed == server = "closing" /\ \A v \in Visits : visit[v] # "open"
Stop ==
    /\ Closed
    /\ server' = "draining"
    /\ stopped' = TRUE
    /\ Flush(queue)
    /\ UNCHANGED <<visit, table, answered>>

\* (mutant: it leaves only when every click was stored)
ExitWhenStored ==
    /\ server = "draining" /\ chain = <<>> /\ dropped = 0
    /\ server' = "ended"
    /\ UNCHANGED <<visit, collector, table, answered>>

\* stop() awaits the chain; then the process exits.
Exit ==
    /\ server = "draining" /\ chain = <<>>
    /\ server' = "ended"
    /\ UNCHANGED <<visit, collector, table, answered>>

CollectorInit ==
    /\ visit = [v \in Visits |-> "none"]
    /\ queue = {} /\ timer = FALSE /\ chain = <<>> /\ inFlightBatches = 0
    /\ dropped = 0 /\ stopped = FALSE
    /\ server = "listening"
    /\ table = [v \in Visits |-> 0]
    /\ answered = {}

Running == server # "ended"

CollectorNext ==
    \/ \E v \in Visits : Arrive(v) \/ Leave(v) \/ Answer(v) \/ Fail(v)
    \/ Running /\ (TimerFires \/ Written \/ Refused \/ TimedOut)
    \/ Signal \/ Stop \/ Exit

\* The visitor's queries and the collector's all time out (two seconds each),
\* a timer that is set fires, and close() is called back.
CollectorFairness ==
    /\ \A v \in Visits : WF_cvars(Answer(v) \/ Fail(v))
    /\ WF_cvars(Running /\ TimerFires)
    /\ WF_cvars(Running /\ (Written \/ Refused \/ TimedOut))
    /\ WF_cvars(Stop) /\ WF_cvars(Exit)

CollectorSpec == CollectorInit /\ [][CollectorNext]_cvars /\ CollectorFairness

-----------------------------------------------------------------------------
(* Properties.                                                             *)

Batches == {chain[i] : i \in DOMAIN chain}
Held == queue \cup UNION Batches

CollectorTypeOK ==
    /\ visit \in [Visits -> {"none", "open", "left", "done", "gone"}]
    /\ queue \subseteq Linked
    /\ chain \in Seq(SUBSET Linked)
    /\ inFlightBatches \in Nat /\ dropped \in Nat
    /\ timer \in BOOLEAN /\ stopped \in BOOLEAN
    /\ server \in {"listening", "closing", "draining", "ended"}
    /\ table \in [Visits -> Nat]
    /\ answered \subseteq Visits

Taken == {v \in Linked : visit[v] = "done"}
Stored == {v \in Visits : table[v] > 0}

\* (mutant: the figure the comment complains of)
PendingQueue == Cardinality(queue)

Pending == Cardinality(queue) + inFlightBatches * MaxBatch

\* However long the database hangs, the process holds a bounded number of
\* clicks, and `pending`, the figure an operator reads, is never below it
\* (collect.mjs:349-354: "Reporting only the queue said nothing pending").
MemoryBounded ==
    /\ Cardinality(Held) <= Pending
    /\ Pending < (MaxInFlight + 1) * MaxBatch

Counted == Cardinality((answered \cap Linked) \ (Held \cup Stored))

\* A click whose visitor was answered is never lost in silence: it is held, or
\* stored, or the counter reached it; and a process that exits holds nothing.
\* (A visitor who left before the answer may not be counted at all: the drain
\* does not wait for them.)  And nothing waits in the buffer with no timer to
\* move it: a quiet link's last click is written too.
AnsweredAreAccounted ==
    /\ Counted <= dropped
    /\ server = "ended" => Held = {}
    /\ queue # {} => timer

\* What the process holds is bounded, and it owes nobody a click.
ClicksAreSafe == MemoryBounded /\ AnsweredAreAccounted

Ledger == INSTANCE ClickLedger
          WITH taken <- Taken, held <- Held, stored <- table

\* What the collector took, it keeps, or stores once, or counts, and a batch is
\* stored or dropped as one and never retried: it implements the ledger.
Implements == Ledger!Spec

\* Every shutdown ends, with everything it held stored or counted, whether the
\* database answers or not.
ShutdownEnds == server = "closing" ~> server = "ended"
=============================================================================
