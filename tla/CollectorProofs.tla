--------------------------- MODULE CollectorProofs ---------------------------
(***************************************************************************)
(* What the click collector keeps, whatever the visits, the batch size and *)
(* the depth of its chain: the memory bound, the account of every answered *)
(* click, and the ledger it implements.                                    *)
(*                                                                         *)
(* A batch leaves the chain from the front and enters it at the back, so   *)
(* the argument speaks of what is left behind each place of the chain.     *)
(***************************************************************************)
EXTENDS Collector, FiniteSetTheorems, SequenceTheorems, TLAPS

-----------------------------------------------------------------------------
(* The inductive invariant.                                                *)

\* The clicks of the batches from place k of s on.
From(s, k) == UNION {s[i] : i \in k .. Len(s)}

\* The counter is the chain's length, and neither the chain nor the buffer is
\* over its limit.
Limited ==
    /\ inFlightBatches = Len(chain)
    /\ Len(chain) <= MaxInFlight
    /\ Cardinality(queue) < MaxBatch

\* What is left behind each place takes no more than its batches may.
TailsFit ==
    \A k \in 1 .. Len(chain) :
        Cardinality(From(chain, k)) <= (Len(chain) + 1 - k) * MaxBatch

\* A click is held in one place, and only after its visit.
HeldOnce ==
    /\ queue \subseteq Taken
    /\ \A i \in 1 .. Len(chain) : chain[i] \subseteq Taken /\ chain[i] \cap queue = {}
    /\ \A i, j \in 1 .. Len(chain) : i # j => chain[i] \cap chain[j] = {}

\* The shutdown: stop() begins once no connection is open and ends with the chain.
Drains ==
    /\ stopped <=> server \in {"draining", "ended"}
    /\ stopped => queue = {} /\ \A v \in Visits : visit[v] # "open"
    /\ server = "ended" => chain = <<>>
    /\ queue # {} => timer

\* Answered clicks are taken, and the counter reaches those that are nowhere else.
Accounted ==
    /\ answered \cap Linked \subseteq Taken
    /\ Counted <= dropped

CInv == CollectorTypeOK /\ Limited /\ TailsFit /\ HeldOnce /\ Drains /\ Accounted

-----------------------------------------------------------------------------
(* Sets, sums and chains.                                                  *)

\* There are finitely many clicks, and at most MaxBatch and MaxInFlight of what
\* they bound.
LEMMA Constants ==
    /\ Linked \subseteq Visits /\ IsFiniteSet(Visits) /\ IsFiniteSet(Linked)
    /\ MaxBatch \in Nat /\ MaxBatch > 0 /\ MaxInFlight \in Nat /\ MaxInFlight > 0
BY CollectorConstants, FS_Subset

\* Two sets of clicks make a finite one, no larger than both together.
LEMMA Together ==
    ASSUME NEW A \in SUBSET Visits, NEW B \in SUBSET Visits
    PROVE  /\ Cardinality(A) \in Nat /\ Cardinality(B) \in Nat
           /\ Cardinality(A \cup B) \in Nat
           /\ Cardinality(A \cup B) <= Cardinality(A) + Cardinality(B)
           /\ A \subseteq B => Cardinality(A) <= Cardinality(B)
<1>1. IsFiniteSet(A) /\ IsFiniteSet(B) /\ IsFiniteSet(A \cap B)
    BY Constants, FS_Subset
<1>2. Cardinality(A \cap B) \in Nat /\ Cardinality(A) \in Nat /\ Cardinality(B) \in Nat
    BY <1>1, FS_CardinalityType
<1>3. /\ IsFiniteSet(A \cup B)
      /\ Cardinality(A \cup B) = Cardinality(A) + Cardinality(B) - Cardinality(A \cap B)
    BY <1>1, FS_Union
<1>4. Cardinality(A \cup B) \in Nat
    BY <1>3, FS_CardinalityType
<1>5. A \subseteq B => Cardinality(A) <= Cardinality(B)
    BY <1>1, FS_Subset
<1>6. QED BY <1>2, <1>3, <1>4, <1>5

\* One click more.
LEMMA OneMore ==
    ASSUME NEW A \in SUBSET Visits, NEW v \in Visits
    PROVE  Cardinality(A \cup {v}) <= Cardinality(A) + 1
<1>1. IsFiniteSet(A)
    BY Constants, FS_Subset
<1>2. Cardinality(A) \in Nat
    BY <1>1, FS_CardinalityType
<1>3. Cardinality(A \cup {v}) = IF v \in A THEN Cardinality(A) ELSE Cardinality(A) + 1
    BY <1>1, FS_AddElement
<1>4. QED BY <1>2, <1>3

\* Products of a number of batches.
LEMMA Products ==
    ASSUME NEW n \in Nat, NEW b \in Nat, NEW c \in Nat, b <= c
    PROVE  /\ 0 * n = 0 /\ 1 * n = n
           /\ b * n \in Nat
           /\ (b + 1) * n = b * n + n
           /\ b * n <= c * n
<1>1. PICK d \in Nat : c = b + d
    <2>1. c - b \in Nat /\ c = b + (c - b)
        OBVIOUS
    <2>2. QED BY <2>1
<1>2. (b + d) * n = b * n + d * n
    OBVIOUS
<1>3. b * n \in Nat /\ d * n \in Nat
    OBVIOUS
<1>4. QED BY <1>1, <1>2, <1>3

\* A batch appended lies behind every place.
LEMMA FromAppend ==
    ASSUME NEW s \in Seq(SUBSET Visits), NEW B \in SUBSET Visits,
           NEW k \in 1 .. (Len(s) + 1)
    PROVE  From(Append(s, B), k) = From(s, k) \cup B
<1> DEFINE t == Append(s, B)
<1>1. /\ Len(s) \in Nat /\ Len(t) = Len(s) + 1
      /\ \A i \in 1 .. Len(s) : t[i] = s[i]
      /\ t[Len(s) + 1] = B
    BY AppendProperties, LenProperties
<1>2. k .. Len(t) = (k .. Len(s)) \cup {Len(s) + 1}
    BY <1>1
<1> HIDE DEF t
<1>3. {t[i] : i \in k .. Len(t)} = {s[i] : i \in k .. Len(s)} \cup {B}
    BY <1>1, <1>2
<1>4. QED BY <1>3 DEF From, t

\* Without its first batch, a chain has behind each place what it had behind the
\* next; and behind the first, all but that batch.
LEMMA FromTail ==
    ASSUME NEW s \in Seq(SUBSET Visits), s # <<>>
    PROVE  /\ \A k \in 1 .. Len(s) : From(Tail(s), k) = From(s, k + 1)
           /\ From(s, 1) = s[1] \cup From(s, 2)
<1> DEFINE t == Tail(s)
<1>1. /\ Len(s) \in Nat /\ Len(s) >= 1 /\ Len(t) = Len(s) - 1
      /\ \A i \in 1 .. Len(t) : t[i] = s[i + 1]
    BY HeadTailProperties, EmptySeq, LenProperties
<1> HIDE DEF t
<1>2. ASSUME NEW k \in 1 .. Len(s)
      PROVE  From(t, k) = From(s, k + 1)
    <2>1. \A i \in k .. Len(t) : t[i] = s[i + 1] /\ i + 1 \in (k + 1) .. Len(s)
        BY <1>1
    <2>2. \A j \in (k + 1) .. Len(s) : j - 1 \in k .. Len(t) /\ t[j - 1] = s[j]
        BY <1>1
    <2>3. {t[i] : i \in k .. Len(t)} \subseteq {s[j] : j \in (k + 1) .. Len(s)}
        BY <2>1
    <2>4. {s[j] : j \in (k + 1) .. Len(s)} \subseteq {t[i] : i \in k .. Len(t)}
        BY <2>2
    <2>5. QED BY <2>3, <2>4 DEF From
<1>3. From(s, 1) = s[1] \cup From(s, 2)
    <2>1. 1 .. Len(s) = {1} \cup (2 .. Len(s))
        BY <1>1
    <2>2. {s[i] : i \in 1 .. Len(s)} = {s[1]} \cup {s[i] : i \in 2 .. Len(s)}
        BY <2>1
    <2>3. QED BY <2>2 DEF From
<1>4. QED BY <1>2, <1>3 DEF t

\* What is behind a place is clicks.
LEMMA FromType ==
    ASSUME NEW S, NEW s \in Seq(SUBSET S)
    PROVE  /\ \A k \in Nat \ {0} : From(s, k) \subseteq S
           /\ From(s, Len(s) + 1) = {}
           /\ \A i \in 1 .. Len(s) : s[i] \subseteq From(s, 1)
<1>1. Len(s) \in Nat
    BY LenProperties
<1>2. \A i \in 1 .. Len(s) : s[i] \in SUBSET S
    BY ElementOfSeq
<1>3. QED BY <1>1, <1>2 DEF From

\* A chain's batches are what lies behind its head.
LEMMA ChainIs ==
    ASSUME NEW s \in Seq(SUBSET Linked)
    PROVE  /\ s \in Seq(SUBSET Visits) /\ Len(s) \in Nat
           /\ UNION {s[i] : i \in DOMAIN s} = From(s, 1)
<1>1. SUBSET Linked \subseteq SUBSET Visits
    BY Constants
<1>2. s \in Seq(SUBSET Visits)
    BY <1>1, SeqMonotonic
<1>3. QED BY <1>2, LenProperties DEF From

-----------------------------------------------------------------------------
(* The types.                                                              *)

\* flush() keeps the types.
LEMMA FlushTypes ==
    ASSUME CollectorTypeOK, NEW B \in SUBSET Linked, Flush(B)
    PROVE  /\ queue' \subseteq Linked /\ timer' \in BOOLEAN
           /\ chain' \in Seq(SUBSET Linked)
           /\ inFlightBatches' \in Nat /\ dropped' \in Nat
<1>1. Cardinality(B) \in Nat
    BY Constants, Together
<1>2. Append(chain, B) \in Seq(SUBSET Linked)
    BY AppendProperties DEF CollectorTypeOK
<1>3. inFlightBatches' \in Nat /\ dropped' \in Nat /\ chain' \in Seq(SUBSET Linked)
    <2>1. CASE B # {} /\ inFlightBatches < MaxInFlight
        BY <1>2, <2>1, SMTT(30) DEF Flush, CollectorTypeOK
    <2>2. CASE ~(B # {} /\ inFlightBatches < MaxInFlight)
        BY <1>1, <2>2 DEF Flush, CollectorTypeOK
    <2>3. QED BY <2>1, <2>2
<1>4. QED BY <1>3 DEF Flush

\* Every step keeps the types.
LEMMA TypeStep ==
    ASSUME CollectorTypeOK, Limited, [CollectorNext]_cvars
    PROVE  CollectorTypeOK'
<1> USE DEF CollectorTypeOK
<1>1. ASSUME NEW v \in Visits, Arrive(v) \/ Leave(v) \/ Fail(v)
      PROVE  CollectorTypeOK'
    BY <1>1 DEF Arrive, Leave, Fail, collector
<1>2. ASSUME NEW v \in Visits, Answer(v)
      PROVE  CollectorTypeOK'
    <2>1. /\ visit' \in [Visits -> {"none", "open", "left", "done", "gone"}]
          /\ answered' \subseteq Visits
          /\ UNCHANGED <<stopped, server, table>>
        BY <1>2 DEF Answer, Record, collector
    <2>2. CASE v \in Linked /\ Flush(queue \cup {v})
        BY <2>1, <2>2, FlushTypes
    <2>3. CASE ~(v \in Linked /\ Flush(queue \cup {v}))
        BY <1>2, <2>1, <2>3 DEF Answer, Record, collector
    <2>4. QED BY <2>2, <2>3
<1>3. ASSUME TimerFires \/ Stop
      PROVE  CollectorTypeOK'
    <2>1. Flush(queue)
        BY <1>3 DEF TimerFires, Stop
    <2>2. QED BY <1>3, <2>1, FlushTypes DEF TimerFires, Stop
<1>4. ASSUME NEW stores \in BOOLEAN, NEW counts \in BOOLEAN, Settles(stores, counts)
      PROVE  CollectorTypeOK'
    <2>1. /\ Head(chain) \in SUBSET Linked /\ Tail(chain) \in Seq(SUBSET Linked)
          /\ Len(chain) \in Nat \ {0}
        BY <1>4, HeadTailProperties, EmptySeq DEF Settles
    <2>2. Cardinality(Head(chain)) \in Nat
        BY <2>1, Constants, Together
    <2>3. inFlightBatches - 1 \in Nat
        BY <2>1 DEF Limited
    <2>4. table' \in [Visits -> Nat]
        BY <1>4 DEF Settles
    <2>5. QED BY <1>4, <2>1, <2>2, <2>3, <2>4 DEF Settles
<1>5. ASSUME Signal \/ Exit \/ UNCHANGED cvars
      PROVE  CollectorTypeOK'
    BY <1>5 DEF Signal, Exit, cvars, collector
<1>6. QED
    BY <1>1, <1>2, <1>3, <1>4, <1>5 DEF CollectorNext, Written, Refused, TimedOut

-----------------------------------------------------------------------------
(* What a step does to the clicks.                                         *)

\* The clicks N a step takes: none, or one not taken before.
Takes(N) ==
    /\ N = {} \/ \E v \in Linked : N = {v}
    /\ N \cap Taken = {} /\ N \cap answered = {}
    /\ Taken' = Taken \cup N
    /\ answered' \cap Linked \subseteq answered \cup N
    /\ Cardinality(queue \cup N) <= MaxBatch

\* They stay in the buffer, or enter the chain with it, or are dropped with it.
Buffers(N) ==
    /\ queue' = queue \cup N
    /\ Cardinality(queue') < MaxBatch
    /\ UNCHANGED <<chain, inFlightBatches, dropped, table>>

Enters(N) ==
    /\ inFlightBatches < MaxInFlight
    /\ queue' = {}
    /\ chain' = Append(chain, queue \cup N)
    /\ inFlightBatches' = inFlightBatches + 1
    /\ UNCHANGED <<dropped, table>>

Discards(N) ==
    /\ queue' = {}
    /\ dropped' = dropped + Cardinality(queue \cup N)
    /\ UNCHANGED <<chain, inFlightBatches, table>>

\* Every step takes clicks and does one of those three things with them, or takes
\* none and settles a write.
LEMMA Moves ==
    ASSUME CInv, [CollectorNext]_cvars
    PROVE  \/ \E N \in SUBSET Linked : Takes(N) /\ (Buffers(N) \/ Enters(N) \/ Discards(N))
           \/ /\ Takes({})
              /\ \E stores, counts \in BOOLEAN : (stores \/ counts) /\ Settles(stores, counts)
<1> USE DEF CInv
<1> DEFINE Goal == \E N \in SUBSET Linked : Takes(N) /\ (Buffers(N) \/ Enters(N) \/ Discards(N))
<1>0. /\ Linked \subseteq Visits
      /\ \A v \in Visits : Cardinality(queue \cup {v}) <= MaxBatch
      /\ Cardinality(queue) <= MaxBatch
    <2>1. ASSUME NEW v \in Visits
          PROVE  Cardinality(queue \cup {v}) <= MaxBatch
        <3>1. /\ Cardinality(queue) \in Nat /\ Cardinality(queue \cup {v}) \in Nat
              /\ Cardinality(queue \cup {v}) <= Cardinality(queue) + 1
            BY Constants, Together, OneMore DEF CollectorTypeOK
        <3>2. QED BY <3>1, Constants DEF Limited
    <2>2. Cardinality(queue) \in Nat
        BY Constants, Together DEF CollectorTypeOK
    <2>3. QED BY <2>1, <2>2, Constants DEF Limited
<1>1. queue \cup {} = queue
    OBVIOUS
\* Nothing taken, nothing moved.
<1>2. ASSUME UNCHANGED <<queue, chain, inFlightBatches, dropped, table>>,
             Taken' = Taken, answered' \cap Linked \subseteq answered
      PROVE  Goal
    BY <1>0, <1>1, <1>2 DEF Takes, Buffers, Limited
\* The buffer is flushed with what was taken.
<1>3. ASSUME NEW N \in SUBSET Linked, Takes(N), Flush(queue \cup N), UNCHANGED table
      PROVE  Goal
    BY <1>3 DEF Flush, Enters, Discards
<1>4. ASSUME NEW v \in Visits, Arrive(v) \/ Leave(v) \/ Fail(v)
      PROVE  Goal
    <2>1. Taken' = Taken
        BY <1>0, <1>4 DEF Arrive, Leave, Fail, Taken, CollectorTypeOK
    <2>2. QED BY <1>2, <1>4, <2>1 DEF Arrive, Leave, Fail, collector
<1>5. ASSUME NEW v \in Visits, Answer(v), v \notin Linked \/ stopped
      PROVE  Goal
    <2>1. Taken' = Taken
        BY <1>0, <1>5 DEF Answer, Taken, CollectorTypeOK
    <2>2. answered' \cap Linked \subseteq answered
        BY <1>5 DEF Answer, Drains
    <2>3. UNCHANGED <<queue, chain, inFlightBatches, dropped, table>>
        BY <1>5 DEF Answer, Record, collector
    <2>4. QED BY <1>2, <2>1, <2>2, <2>3
<1>6. ASSUME NEW v \in Visits, Answer(v), v \in Linked, ~stopped
      PROVE  Goal
    <2>1. Taken' = Taken \cup {v} /\ v \notin Taken
        BY <1>0, <1>6 DEF Answer, Taken, CollectorTypeOK
    <2>2. v \notin answered /\ answered' \subseteq answered \cup {v}
        BY <1>6, <2>1 DEF Answer, Accounted
    <2>3. Takes({v})
        BY <1>0, <1>6, <2>1, <2>2 DEF Takes
    <2>4. CASE Flush(queue \cup {v})
        BY <1>3, <1>6, <2>3, <2>4 DEF Answer
    <2>5. Cardinality(queue \cup {v}) \in Nat
        BY Constants, Together DEF CollectorTypeOK
    <2>6. CASE Cardinality(queue \cup {v}) < MaxBatch
        <3>1. ~(Cardinality(queue \cup {v}) >= MaxBatch)
            BY <2>6, <2>5, Constants
        <3>2. Buffers({v})
            BY <1>6, <2>6, <3>1 DEF Answer, Record, Buffers
        <3>3. QED BY <1>6, <2>3, <3>2
    <2>7. QED BY <1>6, <2>4, <2>5, <2>6, Constants DEF Answer, Record
<1>7. ASSUME TimerFires \/ Stop
      PROVE  Goal
    <2>1. Takes({}) /\ Flush(queue \cup {}) /\ UNCHANGED table
        BY <1>0, <1>1, <1>7 DEF TimerFires, Stop, Takes, Taken
    <2>2. QED BY <1>3, <2>1
<1>8. ASSUME NEW stores \in BOOLEAN, NEW counts \in BOOLEAN, Settles(stores, counts)
      PROVE  Takes({})
    BY <1>0, <1>1, <1>8 DEF Settles, Takes, Taken
<1>9. ASSUME Signal \/ Exit \/ UNCHANGED cvars
      PROVE  Goal
    <2>1. UNCHANGED <<queue, chain, inFlightBatches, dropped, table, visit, answered>>
        BY <1>9 DEF Signal, Exit, cvars, collector
    <2>2. QED BY <1>2, <2>1 DEF Taken
<1>10. QED
    BY <1>4, <1>5, <1>6, <1>7, <1>8, <1>9 DEF CollectorNext, Written, Refused, TimedOut

\* What a settled write leaves.
LEMMA WriteSettles ==
    ASSUME CollectorTypeOK, NEW stores, NEW counts, Settles(stores, counts)
    PROVE  /\ Head(chain) = chain[1] /\ Head(chain) \in SUBSET Linked
           /\ Len(chain) \in Nat /\ Len(chain) >= 1
           /\ Len(chain') = Len(chain) - 1
           /\ \A i \in 1 .. Len(chain') : chain'[i] = chain[i + 1]
<1>1. chain \in Seq(SUBSET Linked) /\ chain # <<>> /\ chain' = Tail(chain)
    BY DEF CollectorTypeOK, Settles
<1>2. Len(chain) \in Nat /\ Len(chain) >= 1 /\ 1 \in 1 .. Len(chain)
    BY <1>1, EmptySeq
<1>3. Head(chain) = chain[1]
    BY <1>1
<1>4. QED BY <1>1, <1>2, <1>3, HeadTailProperties

\* What a batch entering the chain leaves.
LEMMA ClickEnters ==
    ASSUME CollectorTypeOK, NEW N \in SUBSET Linked, Enters(N)
    PROVE  /\ Len(chain) \in Nat /\ Len(chain') = Len(chain) + 1
           /\ \A i \in 1 .. Len(chain) : chain'[i] = chain[i]
           /\ chain'[Len(chain) + 1] = queue \cup N
<1>1. queue \cup N \in SUBSET Linked
    BY DEF CollectorTypeOK
<1>2. QED BY <1>1, LenProperties, AppendProperties DEF CollectorTypeOK, Enters

\* A step takes or leaves what is held.
LEMMA HeldMoves ==
    ASSUME CollectorTypeOK, CollectorTypeOK', HeldOnce
    PROVE  /\ Held \subseteq Taken /\ queue \subseteq Held
           /\ \A N \in SUBSET Linked :
                /\ Buffers(N) \/ Enters(N) => Held' = Held \cup N
                /\ Discards(N) => Held' = Held \ queue
           /\ \A stores, counts \in BOOLEAN :
                Settles(stores, counts) =>
                    /\ Head(chain) \subseteq Held
                    /\ Held' = Held \ Head(chain)
<1>1. chain \in Seq(SUBSET Visits) /\ Len(chain) \in Nat /\ Held = queue \cup From(chain, 1)
    BY ChainIs DEF CollectorTypeOK, Held, Batches
<1>2. Held' = queue' \cup From(chain', 1)
    BY ChainIs DEF CollectorTypeOK, Held, Batches
<1>3. From(chain, 1) \subseteq Taken /\ From(chain, 1) \cap queue = {}
    BY DEF HeldOnce, From
<1>4. ASSUME NEW N \in SUBSET Linked, Enters(N)
      PROVE  Held' = Held \cup N
    <2>1. queue \cup N \in SUBSET Visits
        BY Constants DEF CollectorTypeOK
    <2>2. From(chain', 1) = From(chain, 1) \cup (queue \cup N)
        BY <1>1, <1>4, <2>1, FromAppend DEF Enters
    <2>3. QED BY <1>1, <1>2, <1>4, <2>2 DEF Enters
<1>5. ASSUME NEW N \in SUBSET Linked, Buffers(N)
      PROVE  Held' = Held \cup N
    BY <1>1, <1>2, <1>5 DEF Buffers
<1>6. ASSUME NEW N \in SUBSET Linked, Discards(N)
      PROVE  Held' = Held \ queue
    BY <1>1, <1>2, <1>3, <1>6 DEF Discards
<1>7. ASSUME NEW stores \in BOOLEAN, NEW counts \in BOOLEAN, Settles(stores, counts)
      PROVE  Head(chain) \subseteq Held /\ Held' = Held \ Head(chain)
    <2>1. Head(chain) = chain[1] /\ 1 \in 1 .. Len(chain)
        BY <1>7, WriteSettles
    <2>2. From(chain, 1) = chain[1] \cup From(chain, 2) /\ From(chain', 1) = From(chain, 2)
        BY <1>1, <1>7, <2>1, FromTail DEF Settles
    <2>3. From(chain, 2) \cap chain[1] = {}
        BY <2>1 DEF HeldOnce, From
    <2>4. chain[1] \cap queue = {}
        BY <2>1 DEF HeldOnce
    <2>5. queue' = queue
        BY <1>7 DEF Settles
    <2>6. QED BY <1>1, <1>2, <2>1, <2>2, <2>3, <2>4, <2>5
<1>8. Held \subseteq Taken /\ queue \subseteq Held
    BY <1>1, <1>3 DEF HeldOnce
<1>9. QED BY <1>4, <1>5, <1>6, <1>7, <1>8

-----------------------------------------------------------------------------
(* Every step keeps the invariant.                                         *)

\* The chain and the buffer stay within their limits.
LEMMA LimitsStep ==
    ASSUME CInv, [CollectorNext]_cvars
    PROVE  Limited'
<1> USE DEF CInv
<1>1. ASSUME NEW N \in SUBSET Linked, Buffers(N)
      PROVE  Limited'
    BY <1>1 DEF Limited, Buffers
<1>2. ASSUME NEW N \in SUBSET Linked, Enters(N)
      PROVE  Limited'
    BY <1>2, ClickEnters, FS_EmptySet, Constants DEF Limited, Enters
<1>3. ASSUME NEW N \in SUBSET Linked, Discards(N)
      PROVE  Limited'
    BY <1>3, FS_EmptySet, Constants DEF Limited, Discards
<1>4. ASSUME NEW stores \in BOOLEAN, NEW counts \in BOOLEAN, Settles(stores, counts)
      PROVE  Limited'
    BY <1>4, WriteSettles, Constants DEF Limited, Settles
<1>5. QED BY <1>1, <1>2, <1>3, <1>4, Moves

\* So does what is left behind each place of the chain.
LEMMA TailsStep ==
    ASSUME CInv, [CollectorNext]_cvars
    PROVE  TailsFit'
<1> USE DEF CInv
<1>0. chain \in Seq(SUBSET Visits) /\ Len(chain) \in Nat
    BY ChainIs DEF CollectorTypeOK
<1>1. ASSUME UNCHANGED chain
      PROVE  TailsFit'
    BY <1>1 DEF TailsFit
<1>2. ASSUME NEW N \in SUBSET Linked, Takes(N), Enters(N)
      PROVE  TailsFit'
    <2> DEFINE B == queue \cup N
               n == Len(chain)
    <2>1. B \in SUBSET Visits /\ Cardinality(B) \in Nat /\ Cardinality(B) <= MaxBatch
        BY <1>2, Constants, Together DEF CollectorTypeOK, Takes
    <2>2. SUFFICES ASSUME NEW k \in 1 .. (n + 1)
                   PROVE  Cardinality(From(chain', k)) <= (n + 2 - k) * MaxBatch
        BY <1>0, <1>2, ClickEnters DEF TailsFit
    <2> HIDE DEF B
    <2>3. From(chain', k) = From(chain, k) \cup B
        BY <1>0, <1>2, <2>1, FromAppend DEF Enters, B
    <2>4. From(chain, k) \in SUBSET Visits /\ Cardinality(From(chain, k)) \in Nat
        <3>1. From(chain, k) \in SUBSET Visits
            BY <1>0, FromType
        <3>2. QED BY <3>1, Together
    <2>5. Cardinality(From(chain', k)) <= Cardinality(From(chain, k)) + MaxBatch
        <3>1. Cardinality(From(chain, k) \cup B) <= Cardinality(From(chain, k)) + Cardinality(B)
            BY <2>1, <2>4, Together
        <3>2. Cardinality(From(chain, k) \cup B) \in Nat
            BY <2>1, <2>4, Together
        <3>3. QED BY <2>1, <2>3, <2>4, <3>1, <3>2, Constants
    <2>6. Cardinality(From(chain, k)) <= (n + 1 - k) * MaxBatch
        <3>1. CASE k \in 1 .. n
            BY <3>1 DEF TailsFit
        <3>2. CASE k = n + 1
            <4>1. Cardinality(From(chain, k)) = 0
                BY <1>0, <3>2, FromType, FS_EmptySet
            <4>2. (n + 1 - k) * MaxBatch = 0
                BY <1>0, <3>2, Constants
            <4>3. QED BY <4>1, <4>2
        <3>3. QED BY <1>0, <3>1, <3>2
    <2>7. /\ n + 1 - k \in Nat /\ (n + 1 - k) * MaxBatch \in Nat
          /\ (n + 2 - k) * MaxBatch = (n + 1 - k) * MaxBatch + MaxBatch
        <3>1. n + 1 - k \in Nat /\ n + 2 - k = (n + 1 - k) + 1
            BY <1>0
        <3>2. QED BY <3>1, Constants, Products
    <2>8. Cardinality(From(chain', k)) \in Nat
        BY <2>1, <2>3, <2>4, Together
    <2>9. QED BY <2>4, <2>5, <2>6, <2>7, <2>8, Constants
<1>3. ASSUME NEW stores \in BOOLEAN, NEW counts \in BOOLEAN, Settles(stores, counts)
      PROVE  TailsFit'
    <2>1. Len(chain') = Len(chain) - 1 /\ Len(chain) >= 1
        BY <1>3, WriteSettles
    <2>2. SUFFICES ASSUME NEW k \in 1 .. (Len(chain) - 1)
                   PROVE  Cardinality(From(chain', k)) <= (Len(chain) - k) * MaxBatch
        BY <1>0, <2>1 DEF TailsFit
    <2>3. From(chain', k) = From(chain, k + 1)
        BY <1>0, <1>3, FromTail DEF Settles
    <2>4. k + 1 \in 1 .. Len(chain) /\ Len(chain) + 1 - (k + 1) = Len(chain) - k
        BY <1>0
    <2>5. QED BY <2>3, <2>4 DEF TailsFit
<1>4. QED BY <1>1, <1>2, <1>3, Moves DEF Buffers, Discards

\* A click stays in one place.
LEMMA HeldStep ==
    ASSUME CInv, [CollectorNext]_cvars
    PROVE  HeldOnce'
<1> USE DEF CInv
<1>0. Len(chain) \in Nat /\ \A i \in 1 .. Len(chain) : chain[i] \subseteq Taken
    BY ChainIs DEF CollectorTypeOK, HeldOnce
<1>1. ASSUME NEW N \in SUBSET Linked, Takes(N), Buffers(N)
      PROVE  HeldOnce'
    BY <1>0, <1>1 DEF HeldOnce, Takes, Buffers
<1>2. ASSUME NEW N \in SUBSET Linked, Takes(N), Enters(N)
      PROVE  HeldOnce'
    <2> DEFINE n == Len(chain)
               B == queue \cup N
    <2>1. /\ Len(chain') = n + 1 /\ chain'[n + 1] = B
          /\ \A i \in 1 .. n : chain'[i] = chain[i]
        BY <1>2, ClickEnters
    <2>2. B \subseteq Taken' /\ Taken \subseteq Taken' /\ queue' = {}
        BY <1>2 DEF Takes, Enters, HeldOnce
    <2>3. \A i \in 1 .. n : chain[i] \cap B = {}
        BY <1>0, <1>2 DEF HeldOnce, Takes
    <2>4. 1 .. (n + 1) = (1 .. n) \cup {n + 1}
        BY <1>0
    <2> HIDE DEF B
    <2>5. \A i \in 1 .. (n + 1) : chain'[i] \subseteq Taken' /\ chain'[i] \cap queue' = {}
        BY <1>0, <2>1, <2>2, <2>4
    <2>6. ASSUME NEW i \in 1 .. (n + 1), NEW j \in 1 .. (n + 1), i # j
          PROVE  chain'[i] \cap chain'[j] = {}
        BY <2>1, <2>3, <2>4, <2>6 DEF HeldOnce
    <2>7. QED BY <2>1, <2>2, <2>5, <2>6 DEF HeldOnce
<1>3. ASSUME NEW N \in SUBSET Linked, Takes(N), Discards(N)
      PROVE  HeldOnce'
    BY <1>0, <1>3 DEF HeldOnce, Takes, Discards
<1>4. ASSUME NEW stores \in BOOLEAN, NEW counts \in BOOLEAN, Takes({}), Settles(stores, counts)
      PROVE  HeldOnce'
    <2>1. /\ Len(chain') = Len(chain) - 1
          /\ \A i \in 1 .. Len(chain') : chain'[i] = chain[i + 1] /\ i + 1 \in 1 .. Len(chain)
        BY <1>0, <1>4, WriteSettles
    <2>2. Taken' = Taken /\ queue' = queue
        BY <1>4 DEF Takes, Settles
    <2>3. ASSUME NEW i \in 1 .. Len(chain'), NEW j \in 1 .. Len(chain'), i # j
          PROVE  chain'[i] \cap chain'[j] = {}
        <3>1. i + 1 # j + 1
            BY <1>0, <2>1, <2>3
        <3>2. QED BY <2>1, <3>1 DEF HeldOnce
    <2>4. QED BY <2>1, <2>2, <2>3 DEF HeldOnce
<1>5. QED BY <1>1, <1>2, <1>3, <1>4, Moves

\* The shutdown keeps its order.
LEMMA DrainsStep ==
    ASSUME CInv, [CollectorNext]_cvars
    PROVE  Drains'
<1> USE DEF CInv, Drains
<1>1. ASSUME NEW v \in Visits, Arrive(v) \/ Leave(v) \/ Fail(v)
      PROVE  Drains'
    BY <1>1 DEF Arrive, Leave, Fail, collector, CollectorTypeOK
<1>2. ASSUME NEW v \in Visits, Answer(v)
      PROVE  Drains'
    <2>1. stopped => \A w \in Visits : visit'[w] # "open"
        BY <1>2 DEF Answer, CollectorTypeOK
    <2>2. QED BY <1>2, <2>1 DEF Answer, Record, Flush, collector
<1>3. ASSUME TimerFires /\ Running
      PROVE  Drains'
    BY <1>3 DEF TimerFires, Running, Flush
<1>4. ASSUME Stop
      PROVE  Drains'
    BY <1>4 DEF Stop, Closed, Flush
<1>5. ASSUME NEW stores \in BOOLEAN, NEW counts \in BOOLEAN, Running, Settles(stores, counts)
      PROVE  Drains'
    BY <1>5 DEF Settles, Running
<1>6. ASSUME Signal \/ Exit \/ UNCHANGED cvars
      PROVE  Drains'
    BY <1>6 DEF Signal, Exit, collector, cvars
<1>7. QED
    BY <1>1, <1>2, <1>3, <1>4, <1>5, <1>6 DEF CollectorNext, Written, Refused, TimedOut

\* A click that stops being held was stored, or is one of those the counter grew by.
LEMMA AccountedStep ==
    ASSUME CInv, CollectorTypeOK', [CollectorNext]_cvars
    PROVE  Accounted'
<1> USE DEF CInv
<1> DEFINE Gone == (answered \cap Linked) \ (Held \cup Stored)
<1>0. /\ Gone \in SUBSET Visits /\ Gone' \in SUBSET Visits
      /\ Cardinality(Gone) <= dropped /\ dropped \in Nat
    BY DEF CollectorTypeOK, Accounted, Counted
<1>1. ASSUME Gone' \subseteq Gone, dropped' = dropped
      PROVE  Counted' <= dropped'
    <2>1. Cardinality(Gone) \in Nat /\ Cardinality(Gone') \in Nat
        BY <1>0, Together
    <2>2. Cardinality(Gone') <= Cardinality(Gone)
        BY <1>0, <1>1, Together
    <2>3. QED BY <1>0, <1>1, <2>1, <2>2 DEF Counted
<1>2. ASSUME NEW B \in SUBSET Linked, Gone' \subseteq Gone \cup B,
             dropped' = dropped + Cardinality(B)
      PROVE  Counted' <= dropped'
    <2> HIDE DEF Gone
    <2>1. B \in SUBSET Visits /\ Gone \cup B \in SUBSET Visits
        BY <1>0, Constants
    <2>2. /\ Cardinality(Gone) \in Nat /\ Cardinality(B) \in Nat
          /\ Cardinality(Gone') \in Nat /\ Cardinality(Gone \cup B) \in Nat
        BY <1>0, <2>1, Together
    <2>3. Cardinality(Gone \cup B) <= Cardinality(Gone) + Cardinality(B)
        BY <1>0, <2>1, Together
    <2>4. Cardinality(Gone') <= Cardinality(Gone \cup B)
        BY <1>0, <1>2, <2>1, Together
    <2>5. QED BY <1>0, <1>2, <2>2, <2>3, <2>4 DEF Counted, Gone
<1>3. ASSUME NEW N \in SUBSET Linked, Takes(N), Buffers(N) \/ Enters(N)
      PROVE  Accounted'
    <2>1. Held' = Held \cup N /\ UNCHANGED <<table, dropped>>
        BY <1>3, HeldMoves DEF Buffers, Enters
    <2>2. Gone' \subseteq Gone
        BY <1>3, <2>1 DEF Takes, Stored
    <2>3. QED BY <1>1, <1>3, <2>1, <2>2 DEF Accounted, Takes
<1>4. ASSUME NEW N \in SUBSET Linked, Takes(N), Discards(N)
      PROVE  Accounted'
    <2>1. Held' = Held \ queue /\ UNCHANGED table
        BY <1>4, HeldMoves DEF Discards
    <2>2. Gone' \subseteq Gone \cup (queue \cup N)
        BY <1>4, <2>1 DEF Takes, Stored
    <2>3. queue \cup N \in SUBSET Linked
        BY DEF CollectorTypeOK
    <2>4. QED BY <1>2, <1>4, <2>2, <2>3 DEF Accounted, Takes, Discards
<1>5. ASSUME NEW stores \in BOOLEAN, NEW counts \in BOOLEAN, stores \/ counts,
             Takes({}), Settles(stores, counts)
      PROVE  Accounted'
    <2>1. Held' = Held \ Head(chain) /\ Head(chain) \in SUBSET Linked
        BY <1>5, HeldMoves, WriteSettles
    <2>2. /\ Stored \subseteq Stored'
          /\ stores => Head(chain) \subseteq Stored'
        BY <1>5, <2>1, Constants DEF Settles, Stored, CollectorTypeOK
    <2>3. answered' = answered /\ Taken' = Taken
        BY <1>5 DEF Settles, Takes
    <2>4. CASE counts
        <3>1. Gone' \subseteq Gone \cup Head(chain)
            BY <2>1, <2>2, <2>3
        <3>2. Counted' <= dropped'
            BY <1>2, <1>5, <2>1, <2>4, <3>1 DEF Settles
        <3>3. QED BY <2>3, <3>2 DEF Accounted
    <2>5. CASE ~counts
        <3>1. Gone' \subseteq Gone /\ dropped' = dropped
            BY <1>5, <2>1, <2>2, <2>3, <2>5 DEF Settles
        <3>2. QED BY <1>1, <2>3, <3>1 DEF Accounted
    <2>6. QED BY <2>4, <2>5
<1>6. QED BY <1>3, <1>4, <1>5, Moves

-----------------------------------------------------------------------------
(* The theorems.                                                           *)

\* CInv holds at first.
LEMMA CollectorStarts == CollectorInit => CInv
<1> SUFFICES ASSUME CollectorInit PROVE CInv
    OBVIOUS
<1>1. Len(chain) = 0 /\ Taken = {} /\ queue = {} /\ answered = {}
    BY EmptySeq, Constants DEF CollectorInit, Taken
<1>2. CollectorTypeOK
    BY EmptySeq DEF CollectorInit, CollectorTypeOK
<1>3. Limited
    BY <1>1, FS_EmptySet, Constants DEF CollectorInit, Limited
<1>4. TailsFit /\ HeldOnce /\ Drains
    BY <1>1 DEF CollectorInit, TailsFit, HeldOnce, Drains
<1>5. Accounted
    BY <1>1, FS_EmptySet DEF CollectorInit, Accounted, Counted
<1>6. QED BY <1>2, <1>3, <1>4, <1>5 DEF CInv

\* Every step keeps it.
LEMMA CollectorStep == CInv /\ [CollectorNext]_cvars => CInv'
<1> SUFFICES ASSUME CInv, [CollectorNext]_cvars PROVE CInv'
    OBVIOUS
<1>1. CollectorTypeOK'
    BY TypeStep DEF CInv
<1>2. QED BY <1>1, LimitsStep, TailsStep, HeldStep, DrainsStep, AccountedStep DEF CInv

\* CInv is an invariant of the collector.
THEOREM CollectorInductive == CollectorSpec => []CInv
BY CollectorStarts, CollectorStep, PTL DEF CollectorSpec

\* However long the database hangs, the process holds fewer clicks than one batch
\* more than its chain's limit allows, and `pending` never says less than it holds
\* (collect.mjs, record, flush and pending).
LEMMA MemoryStaysBounded == CollectorSpec => []MemoryBounded
<1>1. CInv => MemoryBounded
    <2> SUFFICES ASSUME CInv PROVE MemoryBounded
        OBVIOUS
    <2> USE DEF CInv
    <2> DEFINE n == Len(chain)
               q == Cardinality(queue)
               f == Cardinality(From(chain, 1))
    <2>1. /\ chain \in Seq(SUBSET Visits) /\ n \in Nat
          /\ Held = queue \cup From(chain, 1)
        BY ChainIs DEF CollectorTypeOK, Held, Batches
    <2>2. queue \in SUBSET Visits /\ From(chain, 1) \in SUBSET Visits
        BY <2>1, FromType, Constants, SMTT(30) DEF CollectorTypeOK
    <2>3. q \in Nat /\ f \in Nat /\ Cardinality(Held) \in Nat /\ Cardinality(Held) <= q + f
        BY <2>1, <2>2, Together
    <2>4. f <= n * MaxBatch
        <3>1. CASE n = 0
            <4>1. 1 .. n = {}
                BY <3>1
            <4>2. f = 0
                BY <4>1, FS_EmptySet DEF From
            <4>3. n * MaxBatch = 0
                BY <3>1, Constants
            <4>4. QED BY <4>2, <4>3
        <3>2. CASE n # 0
            <4>1. 1 \in 1 .. n /\ n + 1 - 1 = n
                BY <2>1, <3>2
            <4>2. QED BY <4>1 DEF TailsFit
        <3>3. QED BY <3>1, <3>2
    <2>5. /\ n * MaxBatch \in Nat /\ MaxInFlight * MaxBatch \in Nat
          /\ n * MaxBatch <= MaxInFlight * MaxBatch
          /\ (MaxInFlight + 1) * MaxBatch = MaxInFlight * MaxBatch + MaxBatch
        BY <2>1, Constants, Products DEF Limited
    <2>6. Pending = q + n * MaxBatch /\ q < MaxBatch
        BY DEF Pending, Limited
    <2> HIDE DEF n, q, f
    <2>7. QED BY <2>3, <2>4, <2>5, <2>6, Constants DEF MemoryBounded
<1>2. QED BY <1>1, CollectorInductive, PTL

\* A click whose visitor was answered is held, stored or counted; a process that
\* ended holds nothing, and nothing waits in the buffer without a timer (server.mjs,
\* the answer and then collector.record; collect.mjs, record, flush and stop).
LEMMA AnsweredStayAccounted == CollectorSpec => []AnsweredAreAccounted
<1>1. CInv => AnsweredAreAccounted
    <2> SUFFICES ASSUME CInv PROVE AnsweredAreAccounted
        OBVIOUS
    <2>1. ASSUME server = "ended"
          PROVE  Held = {}
        <3>1. chain = <<>> /\ queue = {}
            BY <2>1 DEF CInv, Drains
        <3>2. Held = From(<<>>, 1) /\ From(<<>>, 1) = {}
            BY <3>1, EmptySeq, ChainIs DEF Held, Batches, From
        <3>3. QED BY <3>2
    <2>2. QED BY <2>1 DEF CInv, Drains, Accounted, AnsweredAreAccounted
<1>2. QED BY <1>1, CollectorInductive, PTL

\* For any number of visits, any batch size and any limit of the chain, memory is
\* bounded and every click answered for is accounted for (collect.mjs).
THEOREM ClicksStaySafe == CollectorSpec => []ClicksAreSafe
<1>1. MemoryBounded /\ AnsweredAreAccounted => ClicksAreSafe
    BY DEF ClicksAreSafe
<1>2. QED BY <1>1, MemoryStaysBounded, AnsweredStayAccounted, PTL

\* The ledger counts as the collector does.
LEMMA SameCount ==
    ASSUME NEW B
    PROVE  Ledger!Cardinality(B) = Cardinality(B)
BY DEF Ledger!Cardinality, Cardinality

\* A step of the collector is a step of the ledger or changes nothing it sees.
LEMMA LedgerStep ==
    ASSUME CInv, CInv', [CollectorNext]_cvars
    PROVE  [Ledger!Next]_<<Taken, Held, table, dropped>>
<1> USE DEF CInv
<1>0. Held \subseteq Taken /\ queue \subseteq Held /\ Linked \subseteq Visits
    BY HeldMoves, Constants
<1>1. ASSUME NEW N \in SUBSET Linked, Takes(N), Buffers(N) \/ Enters(N)
      PROVE  [Ledger!Next]_<<Taken, Held, table, dropped>>
    <2>1. Held' = Held \cup N /\ Taken' = Taken \cup N /\ UNCHANGED <<table, dropped>>
        BY <1>1, HeldMoves DEF Buffers, Enters, Takes
    <2>2. CASE N = {}
        BY <2>1, <2>2
    <2>3. ASSUME NEW v \in Linked, N = {v}
          PROVE  Ledger!Take(v)
        BY <1>1, <2>1, <2>3 DEF Ledger!Take, Takes
    <2>4. QED BY <1>0, <1>1, <2>2, <2>3 DEF Takes, Ledger!Next
<1>2. ASSUME NEW N \in SUBSET Linked, Takes(N), Discards(N)
      PROVE  Ledger!Next
    <2>1. /\ Held' = Held \ queue /\ Taken' = Taken \cup N
          /\ table' = table /\ dropped' = dropped + Cardinality(queue \cup N)
        BY <1>2, HeldMoves DEF Discards, Takes
    <2>2. CASE N = {}
        <3>1. Ledger!Drop(queue)
            BY <2>1, <2>2, SameCount DEF Ledger!Drop
        <3>2. QED BY <1>0, <3>1 DEF Ledger!Next
    <2>3. ASSUME NEW v \in Linked, N = {v}
          PROVE  Ledger!Next
        <3>1. v \notin Taken /\ v \notin Held
            BY <1>0, <1>2, <2>3 DEF Takes
        <3>2. Held \ queue = Held \ (queue \cup {v})
            BY <3>1
        <3>3. Ledger!TakeAndDrop(v, queue \cup {v})
            BY <2>1, <2>3, <3>1, <3>2, SameCount DEF Ledger!TakeAndDrop
        <3>4. QED BY <1>0, <3>3 DEF Ledger!Next
    <2>4. QED BY <1>2, <2>2, <2>3 DEF Takes
<1>3. ASSUME NEW stores \in BOOLEAN, NEW counts \in BOOLEAN, stores \/ counts,
             Takes({}), Settles(stores, counts)
      PROVE  Ledger!Next
    <2> DEFINE B == Head(chain)
    <2>1. B \in SUBSET Held /\ Held' = Held \ B /\ Taken' = Taken
        BY <1>3, HeldMoves DEF Takes
    <2>2. /\ stores => table' = Ledger!Written(B)
          /\ ~stores => table' = table
        BY <1>3 DEF Settles, Ledger!Written, CollectorTypeOK
    <2>3. dropped' = IF counts THEN dropped + Cardinality(B) ELSE dropped
        BY <1>3 DEF Settles
    <2> HIDE DEF B
    <2>4. Ledger!Store(B) \/ Ledger!Drop(B)
        BY <1>3, <2>1, <2>2, <2>3, SameCount DEF Ledger!Store, Ledger!Drop
    <2>5. QED BY <2>1, <2>4 DEF Ledger!Next
<1>4. QED BY <1>1, <1>2, <1>3, Moves

\* The collector implements the ledger: a click taken is held once, and leaves as a
\* stored row or as one the counter grew by, whole batches at a time.
THEOREM KeepsLedger == CollectorSpec => Implements
<1>1. CollectorInit => Ledger!Init
    <2> SUFFICES ASSUME CollectorInit PROVE Ledger!Init
        OBVIOUS
    <2>1. Taken = {}
        BY Constants DEF CollectorInit, Taken
    <2>2. Held = {}
        BY EmptySeq DEF CollectorInit, Held, Batches
    <2>3. QED BY <2>1, <2>2 DEF CollectorInit, Ledger!Init
<1>2. CInv /\ CInv' /\ [CollectorNext]_cvars => [Ledger!Next]_<<Taken, Held, table, dropped>>
    BY LedgerStep
<1>3. QED BY <1>1, <1>2, CollectorInductive, PTL DEF CollectorSpec, Implements, Ledger!Spec
=============================================================================
