------------------------- MODULE InstallationProofs -------------------------
(***************************************************************************)
(* Setting an installation up and getting into it: what the migrations,    *)
(* the sessions, the sign-in guard and the hosted installer keep, whatever *)
(* the containers, browsers, sign-ins and visitors; and what the plan of   *)
(* an install and the doctor answer, whatever they are asked.              *)
(***************************************************************************)
EXTENDS Migrations, Sessions, SignInGuard, Installer, InstallPlan, Doctor,
        FiniteSetTheorems, SequenceTheorems, WellFoundedInduction, TLAPS

-----------------------------------------------------------------------------
(* Migrations.                                                             *)

\* A set of naturals has a least element.
LEMMA LeastOf ==
    ASSUME NEW T \in SUBSET Nat, T # {}
    PROVE  \E n \in T : \A m \in T : n <= m
<1>1. PICK n \in T : \A m \in T : ~(<<m, n>> \in OpToRel(<, Nat))
    BY NatLessThanWellFounded, WFMin
<1>2. \A m \in T : ~(m < n)
    BY <1>1 DEF OpToRel
<1>3. QED BY <1>2

\* The versions are those of the container that has the most.
LEMMA VersionsAre ==
    /\ \E n \in Nat : Versions = 1 .. n /\ Cardinality(Versions) = n
    /\ \A c \in Containers : Ships[c] \in Nat /\ 1 .. Ships[c] \subseteq Versions
<1> DEFINE Most(n) == n \in {Ships[c] : c \in Containers} /\ \A c \in Containers : Ships[c] <= n
<1>1. \E n : Most(n)
    BY MigrationConstants
<1>2. PICK n : Versions = 1 .. n /\ Most(n)
    BY <1>1 DEF Versions
<1>3. n \in Nat /\ \A c \in Containers : Ships[c] \in Nat /\ Ships[c] <= n
    BY <1>2, MigrationConstants
<1>4. Cardinality(1 .. n) = n
    BY <1>3, FS_Interval
<1>5. QED BY <1>2, <1>3, <1>4

\* Beside what LandsWhole says: what a container read is in the ledger, and a
\* transaction that is open brings the next version, which no other container has
\* open and the ledger has not.
InTurn ==
    \A c \in Containers :
        /\ done[c] \subseteq ledger
        /\ tx[c] # 0 => /\ tx[c] \notin ledger /\ 1 .. (tx[c] - 1) \subseteq ledger
                        /\ \A d \in Containers : tx[d] = tx[c] => d = c

MInv == MigrationsTypeOK /\ LandsWhole /\ InTurn

\* What a container has not applied is taken up from the least.
LEMMA NextVersion ==
    ASSUME MigrationsTypeOK, NEW c \in Containers, Todo(c) # {},
           NEW v, v = CHOOSE x \in Todo(c) : \A w \in Todo(c) : x <= w
    PROVE  v \in Versions /\ v \in Nat \ {0} /\ 1 .. (v - 1) \subseteq done[c]
<1>1. Todo(c) \subseteq Versions /\ Todo(c) \subseteq Nat
    BY VersionsAre DEF Todo
<1>2. v \in Todo(c) /\ \A w \in Todo(c) : v <= w
    BY <1>1, LeastOf
<1>3. Ships[c] \in Nat
    BY VersionsAre
<1>4. QED BY <1>1, <1>2, <1>3 DEF Todo

\* Every step keeps the types.
LEMMA MigrationTypes ==
    ASSUME MigrationsTypeOK, [MigrationsNext]_migrations
    PROVE  MigrationsTypeOK'
<1> USE DEF MigrationsTypeOK
<1>1. PICK n \in Nat : Versions = 1 .. n /\ Cardinality(Versions) = n
    BY VersionsAre
<1>2. ASSUME NEW c \in Containers, ReadLedger(c) \/ Serve(c)
      PROVE  MigrationsTypeOK'
    BY <1>2 DEF ReadLedger, Serve
<1>3. ASSUME NEW c \in Containers, Apply(c)
      PROVE  MigrationsTypeOK'
    <2> DEFINE v == CHOOSE x \in Todo(c) : \A w \in Todo(c) : x <= w
    <2>1. v \in Versions
        BY <1>3, NextVersion DEF Apply
    <2> HIDE DEF v
    <2>2. v \in 0 .. Cardinality(Versions)
        BY <1>1, <2>1
    <2>3. QED BY <1>3, <2>2 DEF Apply, v
<1>4. ASSUME NEW c \in Containers, Commit(c)
      PROVE  MigrationsTypeOK'
    <2>1. tx[c] \in Versions /\ 0 \in 0 .. Cardinality(Versions)
        BY <1>1, <1>4 DEF Commit
    <2>2. QED BY <1>4, <2>1 DEF Commit
<1>5. ASSUME NEW c \in Containers, Dies(c)
      PROVE  MigrationsTypeOK'
    <2>1. 0 \in 0 .. Cardinality(Versions) /\ faults + 1 \in 0 .. MaxFaults
        BY <1>1, <1>5, MigrationConstants DEF Dies
    <2>2. QED BY <1>5, <2>1 DEF Dies
<1>6. CASE UNCHANGED migrations
    BY <1>6 DEF migrations
<1>7. QED BY <1>2, <1>3, <1>4, <1>5, <1>6 DEF MigrationsNext, Moves

\* Every step keeps the ledger true and the containers in turn.
LEMMA MigrationStep ==
    ASSUME MInv, [MigrationsNext]_migrations
    PROVE  LandsWhole' /\ InTurn'
<1> USE DEF MInv
<1>1. ASSUME NEW c \in Containers, ReadLedger(c)
      PROVE  LandsWhole' /\ InTurn'
    BY <1>1 DEF ReadLedger, MigrationsTypeOK, LandsWhole, InTurn
<1>2. ASSUME NEW c \in Containers, Serve(c)
      PROVE  LandsWhole' /\ InTurn'
    <2>1. 1 .. Ships[c] \subseteq ledger
        BY <1>2 DEF Serve, Todo, InTurn
    <2>2. QED BY <1>2, <2>1 DEF Serve, MigrationsTypeOK, LandsWhole, InTurn
<1>3. ASSUME NEW c \in Containers, Apply(c)
      PROVE  LandsWhole' /\ InTurn'
    <2> DEFINE v == CHOOSE x \in Todo(c) : \A w \in Todo(c) : x <= w
    <2>1. v \in Nat \ {0} /\ 1 .. (v - 1) \subseteq ledger
        BY <1>3, NextVersion DEF Apply, InTurn
    <2> HIDE DEF v
    <2>2. \A d \in Containers : tx[d] # v
        BY <1>3 DEF Apply, v
    <2>3. CASE v \in ledger
        BY <1>3, <2>3 DEF Apply, v, MigrationsTypeOK, LandsWhole, InTurn
    <2>4. CASE v \notin ledger
        BY <1>3, <2>1, <2>2, <2>4 DEF Apply, v, MigrationsTypeOK, LandsWhole, InTurn
    <2>5. QED BY <2>3, <2>4
<1>4. ASSUME NEW c \in Containers, Commit(c)
      PROVE  LandsWhole' /\ InTurn'
    <2> DEFINE v == tx[c]
    <2>0. v # 0 /\ v \notin ledger /\ 1 .. (v - 1) \subseteq ledger /\ v \in Nat
        BY <1>4 DEF Commit, InTurn, MigrationsTypeOK
    <2>1. /\ ledger' = ledger \cup {v} /\ schema' = [schema EXCEPT ![v] = @ + 1]
          /\ boot' = boot
        BY <1>4 DEF Commit
    <2>2. \A w \in Versions : schema'[w] = IF w \in ledger' THEN 1 ELSE 0
        BY <2>0, <2>1 DEF MigrationsTypeOK, LandsWhole
    <2>3. \A w \in ledger' : 1 .. w \subseteq ledger'
        BY <2>0, <2>1 DEF LandsWhole
    <2>4. LandsWhole'
        BY <2>1, <2>2, <2>3 DEF LandsWhole
    <2>5. InTurn'
        BY <1>4, <2>1 DEF Commit, InTurn, MigrationsTypeOK
    <2>6. QED BY <2>4, <2>5
<1>5. ASSUME NEW c \in Containers, Dies(c)
      PROVE  LandsWhole' /\ InTurn'
    BY <1>5 DEF Dies, MigrationsTypeOK, LandsWhole, InTurn
<1>6. CASE UNCHANGED migrations
    BY <1>6 DEF migrations, LandsWhole, InTurn
<1>7. QED BY <1>1, <1>2, <1>3, <1>4, <1>5, <1>6 DEF MigrationsNext, Moves

\* However many containers migrate at once and wherever they die, the ledger tells
\* what the schema has, in order and without gaps, and a container serves only on a
\* schema that has all it ships (db/migrate.mjs, appliedVersions and migrate).
THEOREM MigrationsLandWhole == MigrationsSpec => []LandsWhole
<1>1. MigrationsInit => MInv
    <2> SUFFICES ASSUME MigrationsInit PROVE MInv
        OBVIOUS
    <2>1. PICK n \in Nat : Versions = 1 .. n /\ Cardinality(Versions) = n
        BY VersionsAre
    <2>2. QED
        BY <2>1, MigrationConstants
        DEF MigrationsInit, MInv, MigrationsTypeOK, LandsWhole, InTurn
<1>2. MInv /\ [MigrationsNext]_migrations => MInv'
    BY MigrationTypes, MigrationStep DEF MInv
<1>3. QED BY <1>1, <1>2, PTL DEF MigrationsSpec, MInv

-----------------------------------------------------------------------------
(* Sessions.                                                               *)

\* A row that is not revoked lapses no later than the idle window from when its
\* browser was last let in, and a browser that signed out has none.
RowsLapse ==
    \A b \in Browsers :
        /\ ~session[b].revoked => session[b].expires <= lastUse[b] + IdleDays
        /\ b \in left => session[b].revoked

SInv == SessionsTypeOK /\ RowsLapse

\* A row's sliding expiry.
LEMMA SlidIs ==
    ASSUME SessionsTypeOK, NEW b \in Browsers
    PROVE  /\ Slid(b) \in Nat /\ Ceiling(b) \in Nat
           /\ Slid(b) <= day + IdleDays
BY SessionConstants DEF SessionsTypeOK, Slid, Ceiling

\* Every step keeps the types.
LEMMA SessionTypes ==
    ASSUME SessionsTypeOK, [SessionsNext]_sessions
    PROVE  SessionsTypeOK'
<1> USE SessionConstants DEF SessionsTypeOK
<1>1. ASSUME NEW b \in Browsers, SignIn(b)
      PROVE  SessionsTypeOK'
    BY <1>1 DEF SignIn
<1>2. ASSUME NEW b \in Browsers, Visit(b)
      PROVE  SessionsTypeOK'
    BY <1>2, SlidIs, SMTT(30) DEF Visit
<1>3. ASSUME NEW b \in Browsers, SignOut(b)
      PROVE  SessionsTypeOK'
    BY <1>3 DEF SignOut
<1>4. ASSUME NEW status \in {"active", "suspended", "removed"}, MemberBecomes(status)
      PROVE  SessionsTypeOK'
    BY <1>4 DEF MemberBecomes, NoSession
<1>5. ASSUME Tomorrow \/ UNCHANGED sessions
      PROVE  SessionsTypeOK'
    BY <1>5 DEF Tomorrow, sessions
<1>6. QED BY <1>1, <1>2, <1>3, <1>4, <1>5 DEF SessionsNext

\* Every step keeps the rows lapsing.
LEMMA SessionStep ==
    ASSUME SInv, [SessionsNext]_sessions
    PROVE  RowsLapse'
<1> USE DEF SInv, RowsLapse
<1>1. ASSUME NEW b \in Browsers, SignIn(b)
      PROVE  RowsLapse'
    BY <1>1, SessionConstants DEF SignIn, SessionsTypeOK
<1>2. ASSUME NEW b \in Browsers, Visit(b)
      PROVE  RowsLapse'
    <2>1. CASE Resolves(b)
        <3>1. /\ session' = [session EXCEPT ![b].expires = Slid(b)]
              /\ lastUse' = [lastUse EXCEPT ![b] = day] /\ left' = left
            BY <1>2, <2>1 DEF Visit
        <3>2. QED BY <3>1, SlidIs, SessionConstants DEF SessionsTypeOK
    <2>2. CASE ~Resolves(b)
        BY <1>2, <2>2 DEF Visit
    <2>3. QED BY <2>1, <2>2
<1>3. ASSUME NEW b \in Browsers, SignOut(b)
      PROVE  RowsLapse'
    BY <1>3 DEF SignOut, SessionsTypeOK
<1>4. ASSUME NEW status \in {"active", "suspended", "removed"}, MemberBecomes(status)
      PROVE  RowsLapse'
    BY <1>4 DEF MemberBecomes, NoSession, SessionsTypeOK
<1>5. ASSUME Tomorrow \/ UNCHANGED sessions
      PROVE  RowsLapse'
    BY <1>5 DEF Tomorrow, sessions
<1>6. QED BY <1>1, <1>2, <1>3, <1>4, <1>5 DEF SessionsNext

\* Nobody is let in after a sign-out, a suspension or a removal, nor once the idle
\* window or the ceiling has passed (session.server.ts, resolveSession).
THEOREM SessionsAlwaysEnd == SessionsSpec => SessionsEnd
<1>1. SessionsInit => SInv
    BY SessionConstants DEF SessionsInit, SInv, SessionsTypeOK, RowsLapse, NoSession
<1>2. SInv /\ [SessionsNext]_sessions => SInv'
    BY SessionTypes, SessionStep DEF SInv
<1> DEFINE LetIn(b) == /\ b \notin left /\ member = "active"
                       /\ day < lastUse[b] + IdleDays
                       /\ day < session[b].created + AbsoluteDays
<1>3. SInv /\ [SessionsNext]_sessions => [\A b \in granted' : LetIn(b)]_sessions
    <2> SUFFICES ASSUME SInv, SessionsNext, NEW b \in granted'
                 PROVE  LetIn(b)
        OBVIOUS
    <2>1. b \in Browsers /\ Visit(b) /\ Resolves(b)
        BY DEF SessionsNext, SignIn, Visit, SignOut, MemberBecomes, Tomorrow
    <2>2. QED
        BY <2>1, SessionConstants
        DEF SInv, RowsLapse, SessionsTypeOK, Resolves, Ceiling
<1>4. QED BY <1>1, <1>2, <1>3, PTL DEF SessionsSpec, SessionsEnd

-----------------------------------------------------------------------------
(* The sign-in guard.                                                      *)

\* The sums of what is counted at each tick are there, and are what they say: the
\* first tick for which no sums were there would extend those of the one before.
LEMMA SumsAre ==
    ASSUME NEW r \in [Ticks -> Nat]
    PROVE  /\ UpTo(r) \in [Ticks -> Nat]
           /\ \A m \in Ticks : UpTo(r)[m] = r[m] + IF m = 0 THEN 0 ELSE UpTo(r)[m - 1]
<1> USE DEF Ticks
<1> DEFINE Sums(g, n) == \A m \in 0 .. n : g[m] = r[m] + IF m = 0 THEN 0 ELSE g[m - 1]
           Bad == {n \in Ticks : ~ \E g \in [0 .. n -> Nat] : Sums(g, n)}
<1>1. MaxMinute \in Nat
    BY SignInConstants
<1>2. Bad = {}
    <2> SUFFICES ASSUME Bad # {} PROVE FALSE
        OBVIOUS
    <2>1. Bad \in SUBSET Nat
        BY <1>1
    <2>2. PICK n \in Bad : \A m \in Bad : n <= m
        BY <2>1, LeastOf
    <2>3. n \in Ticks /\ n \in Nat /\ ~ \E g \in [0 .. n -> Nat] : Sums(g, n)
        <3>1. n \in Ticks /\ ~ \E g \in [0 .. n -> Nat] : Sums(g, n)
            BY <2>2, Zenon
        <3>2. n \in Nat
            BY <1>1
        <3>3. QED BY <3>1, <3>2, Zenon
    <2>4. CASE n = 0
        <3> DEFINE h == [m \in 0 .. n |-> r[m]]
        <3>1. h \in [0 .. n -> Nat]
            BY <1>1, <2>3, <2>4
        <3>2. \A m \in 0 .. n : m = 0 /\ h[m] = r[m]
            BY <2>3, <2>4
        <3>3. Sums(h, n)
            BY <1>1, <2>3, <2>4, <3>2
        <3> HIDE DEF h
        <3>4. QED BY <2>3, <3>1, <3>3
    <2>5. CASE n # 0
        <3>1. n - 1 \in Ticks /\ ~(n <= n - 1)
            BY <1>1, <2>3, <2>5
        <3> HIDE DEF Bad
        <3>2. n - 1 \notin Bad
            BY <2>2, <3>1
        <3>9. PICK g \in [0 .. n - 1 -> Nat] : Sums(g, n - 1)
            BY <3>1, <3>2 DEF Bad
        <3> DEFINE h == [m \in 0 .. n |-> IF m = n THEN r[n] + g[n - 1] ELSE g[m]]
        <3>3. h \in [0 .. n -> Nat]
            BY <1>1, <2>3, <2>5, <3>1, <3>9
        <3>4. ASSUME NEW m \in 0 .. n PROVE h[m] = r[m] + IF m = 0 THEN 0 ELSE h[m - 1]
            <4>1. CASE m = n
                BY <2>3, <2>5, <4>1
            <4>2. CASE m # n
                <5>1. m \in 0 .. n - 1 /\ (m # 0 => m - 1 \in 0 .. n - 1)
                    BY <2>3, <4>2
                <5>2. g[m] = r[m] + IF m = 0 THEN 0 ELSE g[m - 1]
                    BY <3>9, <5>1
                <5>3. QED BY <2>3, <4>2, <5>1, <5>2
            <4>3. QED BY <4>1, <4>2
        <3>5. Sums(h, n)
            BY <3>4
        <3> HIDE DEF h
        <3>6. QED BY <2>3, <3>3, <3>5
    <2>6. QED BY <2>4, <2>5
<1>3. PICK g \in [Ticks -> Nat] : Sums(g, MaxMinute)
    <2>1. MaxMinute \in Ticks
        BY <1>1
    <2>2. MaxMinute \notin Bad
        BY <1>2, Zenon
    <2>3. \E g \in [0 .. MaxMinute -> Nat] : Sums(g, MaxMinute)
        BY <2>1, <2>2, Zenon
    <2>4. QED BY <2>3, Zenon
<1>4. g = [m \in Ticks |-> r[m] + IF m = 0 THEN 0 ELSE g[m - 1]]
    BY <1>3
<1> DEFINE u == CHOOSE f : f = [m \in Ticks |-> r[m] + IF m = 0 THEN 0 ELSE f[m - 1]]
<1>5. u = [m \in Ticks |-> r[m] + IF m = 0 THEN 0 ELSE u[m - 1]]
    BY <1>4
<1>6. UpTo(r) = u
    BY Zenon DEF UpTo
<1> HIDE DEF u
<1>7. {m \in Ticks : u[m] \notin Nat} = {}
    <2> SUFFICES ASSUME {m \in Ticks : u[m] \notin Nat} # {} PROVE FALSE
        OBVIOUS
    <2>1. PICK n \in {m \in Ticks : u[m] \notin Nat} : \A m \in {x \in Ticks : u[x] \notin Nat} : n <= m
        <3>1. {m \in Ticks : u[m] \notin Nat} \in SUBSET Nat
            BY <1>1
        <3>2. QED BY <3>1, LeastOf
    <2>2. n # 0 => n - 1 \in Ticks /\ u[n - 1] \in Nat
        BY <1>1, <2>1
    <2>3. u[n] = r[n] + IF n = 0 THEN 0 ELSE u[n - 1]
        BY <1>5, <2>1
    <2>4. QED BY <2>1, <2>2, <2>3
<1>8. QED BY <1>5, <1>6, <1>7

\* How many failures there were before a tick.
Before(r, n) == IF n = 0 THEN 0 ELSE UpTo(r)[n - 1]

Moments == 0 .. MaxMinute + 1

\* The same, one tick at a time.
LEMMA BeforeIs ==
    ASSUME NEW r \in [Ticks -> Nat]
    PROVE  /\ Before(r, 0) = 0
           /\ \A n \in Moments : Before(r, n) \in Nat
           /\ \A n \in Ticks : n + 1 \in Moments /\ Before(r, n + 1) = Before(r, n) + r[n]
           /\ Before(r, MaxMinute + 1) = UpTo(r)[MaxMinute]
<1>1. MaxMinute \in Nat
    BY SignInConstants
<1>2. Before(r, 0) = 0
    BY DEF Before
<1>3. \A n \in Moments : n = 0 \/ n - 1 \in Ticks
    BY <1>1 DEF Moments, Ticks
<1>4. ASSUME NEW n \in Ticks
      PROVE  n + 1 \in Moments /\ n + 1 # 0 /\ (n + 1) - 1 = n
    BY <1>1 DEF Moments, Ticks
<1>5. \A n \in Moments : Before(r, n) \in Nat
    BY <1>3, SumsAre DEF Before
<1>6. ASSUME NEW n \in Ticks
      PROVE  Before(r, n + 1) = Before(r, n) + r[n]
    <2>1. Before(r, n + 1) = UpTo(r)[n]
        BY <1>4 DEF Before
    <2>2. UpTo(r)[n] = r[n] + Before(r, n)
        BY SumsAre DEF Before
    <2>3. n \in Moments
        BY <1>1 DEF Moments, Ticks
    <2>4. r[n] \in Nat /\ Before(r, n) \in Nat
        BY <1>5, <2>3
    <2>5. QED BY <2>1, <2>2, <2>4
<1>7. Before(r, MaxMinute + 1) = UpTo(r)[MaxMinute]
    BY <1>1 DEF Before
<1>8. QED BY <1>2, <1>4, <1>5, <1>6, <1>7

\* Where one counts no more than the other, it adds up to no more: the first
\* moment that was not so would follow one that was.
LEMMA AddsUp ==
    ASSUME NEW r \in [Ticks -> Nat], NEW s \in [Ticks -> Nat],
           NEW a \in Moments, NEW b \in Moments, a <= b,
           \A m \in Ticks : a <= m /\ m < b => s[m] <= r[m]
    PROVE  Before(s, b) - Before(s, a) <= Before(r, b) - Before(r, a)
<1> DEFINE Fits(n) == Before(s, n) - Before(s, a) <= Before(r, n) - Before(r, a)
           Bad == {n \in Moments : a <= n /\ n <= b /\ ~Fits(n)}
<1>1. MaxMinute \in Nat
    BY SignInConstants
<1>2. Bad = {}
    <2> SUFFICES ASSUME Bad # {} PROVE FALSE
        OBVIOUS
    <2>1. Bad \in SUBSET Nat
        BY <1>1 DEF Moments
    <2>2. PICK n \in Bad : \A m \in Bad : n <= m
        BY <2>1, LeastOf
    <2>3. n \in Moments /\ a <= n /\ n <= b /\ ~Fits(n)
        BY <2>2
    <2>4. n # a
        BY <2>3, BeforeIs
    <2>5. n - 1 \in Ticks /\ n - 1 \in Moments /\ a <= n - 1 /\ n - 1 < b /\ n = (n - 1) + 1
        BY <1>1, <2>3, <2>4 DEF Moments, Ticks
    <2>6. Fits(n - 1)
        BY <1>1, <2>2, <2>3, <2>5 DEF Moments
    <2>7. s[n - 1] <= r[n - 1] /\ s[n - 1] \in Nat /\ r[n - 1] \in Nat
        BY <2>5
    <2>8. Before(s, n) = Before(s, n - 1) + s[n - 1] /\ Before(r, n) = Before(r, n - 1) + r[n - 1]
        BY <2>5, BeforeIs
    <2>9. /\ Before(s, n - 1) \in Nat /\ Before(r, n - 1) \in Nat
          /\ Before(s, a) \in Nat /\ Before(r, a) \in Nat
        BY <2>5, BeforeIs
    <2>10. QED BY <2>3, <2>6, <2>7, <2>8, <2>9
<1>3. QED BY <1>2 DEF Moments

\* Nothing counted adds nothing.
LEMMA AddsNothing ==
    ASSUME NEW r \in [Ticks -> Nat], NEW a \in Moments, NEW b \in Moments, a <= b,
           \A m \in Ticks : a <= m /\ m < b => r[m] = 0
    PROVE  Before(r, a) = Before(r, b)
<1> DEFINE Zero == [m \in Ticks |-> 0]
           Flat == {n \in Moments : Before(Zero, n) # 0}
<1>1. MaxMinute \in Nat /\ Zero \in [Ticks -> Nat]
    BY SignInConstants
<1>2. Flat = {}
    <2> SUFFICES ASSUME Flat # {} PROVE FALSE
        OBVIOUS
    <2>1. Flat \in SUBSET Nat
        BY <1>1 DEF Moments
    <2>2. PICK n \in Flat : \A m \in Flat : n <= m
        BY <2>1, LeastOf
    <2>3. n # 0
        BY <1>1, <2>2, BeforeIs
    <2>4. n - 1 \in Ticks /\ n - 1 \in Moments /\ n = (n - 1) + 1 /\ n - 1 \notin Flat
        BY <1>1, <2>2, <2>3 DEF Moments, Ticks
    <2>5. Before(Zero, n) = Before(Zero, n - 1) + Zero[n - 1]
        BY <1>1, <2>4, BeforeIs
    <2>6. QED BY <2>2, <2>4, <2>5
<1>3. Before(Zero, a) = 0 /\ Before(Zero, b) = 0
    BY <1>2
<1> HIDE DEF Flat
<1>4. Before(r, b) - Before(r, a) <= 0
    <2>1. \A m \in Ticks : a <= m /\ m < b => r[m] <= Zero[m]
        OBVIOUS
    <2> HIDE DEF Zero
    <2>2. Before(r, b) - Before(r, a) <= Before(Zero, b) - Before(Zero, a)
        BY <1>1, <2>1, AddsUp
    <2>3. QED BY <1>3, <2>2
<1>5. 0 <= Before(r, b) - Before(r, a)
    <2>1. \A m \in Ticks : a <= m /\ m < b => Zero[m] <= r[m]
        OBVIOUS
    <2> HIDE DEF Zero
    <2>2. Before(Zero, b) - Before(Zero, a) <= Before(r, b) - Before(r, a)
        BY <1>1, <2>1, AddsUp
    <2>3. QED BY <1>3, <2>2
<1>6. QED BY <1>4, <1>5, BeforeIs

\* One more at a tick is one more in every sum that reaches beyond it.
LEMMA AddsOne ==
    ASSUME NEW r \in [Ticks -> Nat], NEW t \in Ticks,
           NEW s, s = [r EXCEPT ![t] = @ + 1]
    PROVE  /\ s \in [Ticks -> Nat]
           /\ \A n \in Moments : Before(s, n) = IF n <= t THEN Before(r, n) ELSE Before(r, n) + 1
<1> DEFINE Fits(n) == Before(s, n) = IF n <= t THEN Before(r, n) ELSE Before(r, n) + 1
           Bad == {n \in Moments : ~Fits(n)}
<1>1. MaxMinute \in Nat /\ s \in [Ticks -> Nat] /\ t \in Nat
    BY SignInConstants DEF Ticks
<1>2. Bad = {}
    <2> SUFFICES ASSUME Bad # {} PROVE FALSE
        OBVIOUS
    <2>1. Bad \in SUBSET Nat
        BY <1>1 DEF Moments
    <2>2. PICK n \in Bad : \A m \in Bad : n <= m
        BY <2>1, LeastOf
    <2>3. n # 0
        <3>1. Before(s, 0) = 0 /\ Before(r, 0) = 0 /\ 0 <= t
            BY <1>1 DEF Before, Ticks
        <3>2. QED BY <2>2, <3>1
    <2>4. n - 1 \in Ticks /\ n - 1 \in Moments /\ n \in Nat /\ n = (n - 1) + 1
        BY <1>1, <2>2, <2>3 DEF Moments, Ticks
    <2>5. Fits(n - 1)
        <3>1. ~(n <= n - 1)
            BY <2>4
        <3>2. n - 1 \notin Bad
            BY <2>2, <3>1, Zenon
        <3>3. QED BY <2>4, <3>2
    <2>6. Before(s, n) = Before(s, n - 1) + s[n - 1] /\ Before(r, n) = Before(r, n - 1) + r[n - 1]
        BY <1>1, <2>4, BeforeIs
    <2>7. s[n - 1] = (IF n - 1 = t THEN r[n - 1] + 1 ELSE r[n - 1]) /\ r[n - 1] \in Nat
        BY <2>4
    <2>8. Before(r, n - 1) \in Nat
        BY <2>4, BeforeIs
    <2>9. Fits(n)
        BY <1>1, <2>4, <2>5, <2>6, <2>7, <2>8
    <2>10. QED BY <2>2, <2>9
<1>3. QED BY <1>1, <1>2

\* The sign-ins that verify a key, and those that verify any.
Racing(k) == {f \in Forms : verifying[f] = k}
Busy == {f \in Forms : verifying[f] # "none"}

\* What GuessesBounded says, with the room that sign-ins under way still have.
RoomLeft ==
    /\ \A k \in AttemptKeys : attempts[k].count + Cardinality(Racing(k)) <= PerWindow
    /\ IsFiniteSet(Tracked(attempts))
    /\ Cardinality(Tracked(attempts)) + Cardinality(Busy) <= MaxTracked + Cardinality(Forms)

\* Failures that are remembered lie within the window that ends now.
Remembered ==
    \A k \in AttemptKeys, m \in Ticks :
        m > minute \/ m + WindowTicks < minute => recent[k][m] = 0

\* The failures an entry counts are those since its first, all within its window;
\* of those before, and of those nobody counts any more, there is one window's
\* worth.
Counted(k, entry, failures, now) ==
    IF entry.count = 0
    THEN Before(failures, MaxMinute + 1) <= PerWindow /\ failures[now] = 0
    ELSE /\ entry.first <= now
         /\ Before(failures, entry.first) <= PerWindow
         /\ Before(failures, MaxMinute + 1) - Before(failures, entry.first) <= entry.count
         /\ \A m \in Ticks : m > entry.first + WindowTicks => failures[m] = 0

WindowsCounted == \A k \in AttemptKeys : Counted(k, attempts[k], recent[k], minute)

GuardInv == SignInTypeOK /\ RoomLeft /\ Remembered /\ WindowsCounted

\* The bounds are numbers, and sets of sign-ins are finite.
LEMMA FormsFinite ==
    /\ PerWindow \in Nat /\ Cardinality(Forms) \in Nat
    /\ MaxAttempts - 1 + Cardinality(Forms) = PerWindow
    /\ \A S \in SUBSET Forms :
          IsFiniteSet(S) /\ Cardinality(S) \in Nat /\ Cardinality(S) <= Cardinality(Forms)
<1>1. Cardinality(Forms) \in Nat
    BY SignInConstants, FS_CardinalityType
<1>2. PerWindow \in Nat /\ MaxAttempts - 1 + Cardinality(Forms) = PerWindow
    BY <1>1, SignInConstants DEF PerWindow
<1>3. QED BY <1>1, <1>2, SignInConstants, FS_Subset, FS_CardinalityType

\* Every step keeps the types.
LEMMA GuardTypes ==
    ASSUME SignInTypeOK, [SignInNext]_signin
    PROVE  SignInTypeOK'
<1> USE SignInConstants DEF SignInTypeOK, Ticks
<1>1. Never \in [Ticks -> Nat] /\ NoEntry \in [count: Nat, first: Ticks]
    BY DEF Never, NoEntry
<1>2. ASSUME NEW f \in Forms, Wrong(f)
      PROVE  SignInTypeOK'
    <2>1. verifying[f] \in AttemptKeys
        BY <1>2 DEF Wrong
    <2>2. attempts' \in [AttemptKeys -> [count: Nat, first: Ticks]]
        <3>1. ASSUME NEW k \in AttemptKeys PROVE OneMore(k) \in [count: Nat, first: Ticks]
            <4> HIDE DEF Ticks
            <4>1. attempts[k] \in [count: Nat, first: Ticks] /\ minute \in Ticks
                OBVIOUS
            <4>2. [count |-> 1, first |-> minute] \in [count: Nat, first: Ticks]
                BY <4>1
            <4>3. [attempts[k] EXCEPT !.count = @ + 1] \in [count: Nat, first: Ticks]
                BY <4>1
            <4>4. QED BY <4>2, <4>3 DEF OneMore
        <3>2. QED BY <1>2, <2>1, <3>1 DEF Wrong
    <2>3. recent' \in [AttemptKeys -> [Ticks -> Nat]]
        <3>1. [recent[verifying[f]] EXCEPT ![minute] = @ + 1] \in [Ticks -> Nat]
            <4>1. recent[verifying[f]] \in [Ticks -> Nat] /\ minute \in Ticks
                BY <2>1
            <4>2. recent[verifying[f]][minute] + 1 \in Nat
                BY <4>1
            <4>3. QED BY <4>1, <4>2
        <3>2. recent' = [recent EXCEPT ![verifying[f]] = [recent[verifying[f]] EXCEPT ![minute] = @ + 1]]
            BY <2>1, <1>2 DEF Wrong
        <3>3. QED BY <2>1, <3>1, <3>2
    <2>4. QED BY <1>2, <2>2, <2>3 DEF Wrong
<1>3. ASSUME NEW f \in Forms, Correct(f)
      PROVE  SignInTypeOK'
    <2>1. attempts' \in [AttemptKeys -> [count: Nat, first: Ticks]]
        BY <1>1, <1>3 DEF Correct
    <2>2. recent' \in [AttemptKeys -> [Ticks -> Nat]]
        BY <1>1, <1>3 DEF Correct
    <2>3. QED BY <1>3, <2>1, <2>2 DEF Correct
<1>4. ASSUME NEW f \in Forms, NEW k \in AttemptKeys, Try(f, k)
      PROVE  SignInTypeOK'
    <2>1. Kept \in [AttemptKeys -> [count: Nat, first: Ticks]]
        BY <1>1 DEF Kept
    <2>2. PICK E \in Evictions :
              /\ attempts' = [a \in AttemptKeys |-> IF a \in E THEN NoEntry ELSE Kept[a]]
              /\ recent' = [a \in AttemptKeys |-> IF a \in E THEN Never ELSE recent[a]]
        BY <1>4 DEF Try
    <2>3. attempts' \in [AttemptKeys -> [count: Nat, first: Ticks]]
        BY <1>1, <2>1, <2>2
    <2>4. recent' \in [AttemptKeys -> [Ticks -> Nat]]
        BY <1>1, <2>2
    <2>5. verifying' \in [Forms -> AttemptKeys \cup {"none"}]
        BY <1>4 DEF Try
    <2>6. QED BY <1>4, <2>3, <2>4, <2>5 DEF Try
<1>5. CASE Restart
    BY <1>1, <1>5 DEF Restart
<1>6. CASE Minute
    BY <1>6 DEF Minute
<1>7. CASE UNCHANGED signin
    BY <1>7 DEF signin
<1>8. QED BY <1>2, <1>3, <1>4, <1>5, <1>6, <1>7 DEF SignInNext

\* What pruning leaves: entries as they were, or gone, and no more than the bound.
LEMMA PruneFits ==
    ASSUME SignInTypeOK, IsFiniteSet(Tracked(attempts)), NEW E \in Evictions,
           NEW kept, kept = [a \in AttemptKeys |-> IF a \in E THEN NoEntry ELSE Kept[a]]
    PROVE  /\ \A a \in AttemptKeys : kept[a] = attempts[a] \/ kept[a] = NoEntry
           /\ \A a \in E : a \in AttemptKeys
           /\ \A a \in AttemptKeys \ E : kept[a] = IF Lapsed(a) THEN NoEntry ELSE attempts[a]
           /\ IsFiniteSet(Tracked(kept)) /\ Cardinality(Tracked(kept)) <= MaxTracked
<1>1. /\ \A a \in AttemptKeys : kept[a] = attempts[a] \/ kept[a] = NoEntry
      /\ \A a \in AttemptKeys \ E : kept[a] = IF Lapsed(a) THEN NoEntry ELSE attempts[a]
    BY DEF Kept
<1>2. Tracked(Kept) \subseteq Tracked(attempts)
    BY DEF Tracked, Kept, NoEntry
<1>3. Tracked(kept) = Tracked(Kept) \ E
    BY DEF Tracked, NoEntry, Kept
<1>4. IsFiniteSet(Tracked(Kept)) /\ Cardinality(Tracked(Kept)) \in Nat
    BY <1>2, FS_Subset, FS_CardinalityType
<1>5. IsFiniteSet(Tracked(kept))
    BY <1>3, <1>4, FS_Subset
<1>6. Cardinality(Tracked(kept)) = IF Cardinality(Tracked(Kept)) > MaxTracked
                                     THEN MaxTracked ELSE Cardinality(Tracked(Kept))
    BY <1>3 DEF Evictions
<1>7. Cardinality(Tracked(kept)) <= MaxTracked
    BY <1>4, <1>6, SignInConstants
<1>8. E \subseteq AttemptKeys
    BY DEF Evictions, Tracked
<1>9. QED BY <1>1, <1>5, <1>7, <1>8

\* A sign-in that ends makes room for what it may have added.
LEMMA RoomOnEnd ==
    ASSUME SignInTypeOK, RoomLeft, NEW f \in Forms, verifying[f] # "none",
           verifying' = [verifying EXCEPT ![f] = "none"],
           SignInTypeOK',
           \A a \in AttemptKeys :
               attempts'[a].count <= attempts[a].count + IF a = verifying[f] THEN 1 ELSE 0
    PROVE  RoomLeft'
<1>1. PICK k \in AttemptKeys : k = verifying[f]
    BY DEF SignInTypeOK
<1>2. /\ f \in Racing(k) /\ Racing(k)' = Racing(k) \ {f}
      /\ \A a \in AttemptKeys \ {k} : Racing(a)' = Racing(a)
      /\ f \in Busy /\ Busy' = Busy \ {f}
    <2>1. \A g \in Forms : verifying'[g] = IF g = f THEN "none" ELSE verifying[g]
        BY DEF SignInTypeOK
    <2>2. f \in Racing(k) /\ f \in Busy /\ k # "none"
        BY <1>1 DEF Racing, Busy
    <2>3. Racing(k)' = Racing(k) \ {f}
        BY <2>1, <2>2 DEF Racing
    <2>4. \A a \in AttemptKeys \ {k} : Racing(a)' = Racing(a)
        BY <1>1, <2>1, SignInConstants DEF Racing
    <2>5. Busy' = Busy \ {f}
        BY <2>1 DEF Busy
    <2>6. QED BY <2>2, <2>3, <2>4, <2>5
<1>3. /\ \A a \in AttemptKeys : Racing(a) \in SUBSET Forms /\ Racing(a)' \in SUBSET Forms
      /\ Busy \in SUBSET Forms /\ Busy' \in SUBSET Forms
    BY DEF Racing, Busy
<1>4. Cardinality(Racing(k)') = Cardinality(Racing(k)) - 1
    BY <1>1, <1>2, <1>3, FormsFinite, FS_RemoveElement
<1>5. Cardinality(Busy') = Cardinality(Busy) - 1
    BY <1>2, <1>3, FormsFinite, FS_RemoveElement
<1>6. ASSUME NEW a \in AttemptKeys
      PROVE  attempts'[a].count + Cardinality(Racing(a)') <= PerWindow
    <2>1. /\ attempts[a].count \in Nat /\ attempts'[a].count \in Nat
          /\ Cardinality(Racing(a)) \in Nat /\ Cardinality(Racing(a)') \in Nat /\ PerWindow \in Nat
        BY <1>3, FormsFinite DEF SignInTypeOK
    <2>2. attempts[a].count + Cardinality(Racing(a)) <= PerWindow
        BY DEF RoomLeft
    <2>3. CASE a = k
        <3>1. attempts'[a].count <= attempts[a].count + 1
            BY <1>1, <2>3
        <3>2. Cardinality(Racing(a)') = Cardinality(Racing(a)) - 1
            BY <1>4, <2>3
        <3>3. QED BY <2>1, <2>2, <3>1, <3>2
    <2>4. CASE a # k
        <3>1. Racing(a)' = Racing(a) /\ attempts'[a].count <= attempts[a].count + 0
            BY <1>1, <1>2, <2>4
        <3>2. QED BY <2>1, <2>2, <3>1
    <2>5. QED BY <2>3, <2>4
<1>7. Tracked(attempts') \subseteq Tracked(attempts) \cup {k}
    <2>1. ASSUME NEW a \in AttemptKeys, a # k, attempts'[a].count > 0
          PROVE  attempts[a].count > 0
        <3>1. attempts'[a].count <= attempts[a].count + 0
            BY <1>1, <2>1
        <3>2. attempts[a].count \in Nat /\ attempts'[a].count \in Nat
            BY DEF SignInTypeOK
        <3>3. QED BY <2>1, <3>1, <3>2
    <2>2. QED BY <2>1 DEF Tracked
<1>8. IsFiniteSet(Tracked(attempts)) /\ Cardinality(Tracked(attempts)) \in Nat
    BY FS_CardinalityType DEF RoomLeft
<1>9. /\ IsFiniteSet(Tracked(attempts) \cup {k})
      /\ Cardinality(Tracked(attempts) \cup {k}) \in Nat
      /\ Cardinality(Tracked(attempts) \cup {k}) <= Cardinality(Tracked(attempts)) + 1
    <2>1. /\ IsFiniteSet(Tracked(attempts) \cup {k})
          /\ Cardinality(Tracked(attempts) \cup {k}) = IF k \in Tracked(attempts)
                 THEN Cardinality(Tracked(attempts)) ELSE Cardinality(Tracked(attempts)) + 1
        BY <1>8, FS_AddElement
    <2>2. QED BY <1>8, <2>1
<1>10. /\ IsFiniteSet(Tracked(attempts')) /\ Cardinality(Tracked(attempts')) \in Nat
       /\ Cardinality(Tracked(attempts')) <= Cardinality(Tracked(attempts)) + 1
    BY <1>7, <1>8, <1>9, FS_Subset, FS_CardinalityType
<1>11. Cardinality(Busy) \in Nat
    BY <1>3, FormsFinite
<1>12. Cardinality(Tracked(attempts')) + Cardinality(Busy') <= MaxTracked + Cardinality(Forms)
    BY <1>5, <1>8, <1>10, <1>11, FormsFinite, SignInConstants DEF RoomLeft
<1>13. QED BY <1>6, <1>10, <1>12 DEF RoomLeft, Tracked

\* Room is left by every step.
LEMMA RoomStep ==
    ASSUME SignInTypeOK, RoomLeft, [SignInNext]_signin
    PROVE  RoomLeft'
<1>1. SignInTypeOK'
    BY GuardTypes
<1>2. ASSUME NEW f \in Forms, Wrong(f)
      PROVE  RoomLeft'
    <2>1. ASSUME NEW a \in AttemptKeys
          PROVE  attempts'[a].count <= attempts[a].count + IF a = verifying[f] THEN 1 ELSE 0
        <3>1. attempts[a].count \in Nat
            BY DEF SignInTypeOK
        <3>2. CASE a = verifying[f]
            <4>1. attempts'[a] = OneMore(a)
                BY <1>2, <3>2 DEF Wrong, SignInTypeOK
            <4>2. attempts'[a].count = 1 \/ attempts'[a].count = attempts[a].count + 1
                BY <4>1 DEF OneMore, SignInTypeOK
            <4>3. QED BY <3>1, <3>2, <4>2
        <3>3. CASE a # verifying[f]
            BY <1>2, <3>1, <3>3 DEF Wrong, SignInTypeOK
        <3>4. QED BY <3>2, <3>3
    <2>2. verifying[f] # "none" /\ verifying' = [verifying EXCEPT ![f] = "none"]
        BY <1>2 DEF Wrong
    <2>3. QED BY <1>1, <2>1, <2>2, RoomOnEnd
<1>3. ASSUME NEW f \in Forms, Correct(f)
      PROVE  RoomLeft'
    <2>1. ASSUME NEW a \in AttemptKeys
          PROVE  attempts'[a].count <= attempts[a].count + IF a = verifying[f] THEN 1 ELSE 0
        <3>1. attempts[a].count \in Nat
            BY DEF SignInTypeOK
        <3>2. attempts'[a].count = attempts[a].count \/ attempts'[a].count = 0
            BY <1>3 DEF Correct, SignInTypeOK, NoEntry
        <3>3. QED BY <3>1, <3>2
    <2>2. verifying[f] # "none" /\ verifying' = [verifying EXCEPT ![f] = "none"]
        BY <1>3 DEF Correct
    <2>3. QED BY <1>1, <2>1, <2>2, RoomOnEnd
<1>4. ASSUME NEW f \in Forms, NEW k \in AttemptKeys, Try(f, k)
      PROVE  RoomLeft'
    <2>1. PICK E \in Evictions :
              /\ attempts' = [a \in AttemptKeys |-> IF a \in E THEN NoEntry ELSE Kept[a]]
              /\ verifying' = [verifying EXCEPT ![f] = IF Locks(attempts'[k]) THEN "none" ELSE k]
        BY <1>4 DEF Try
    <2>2. IsFiniteSet(Tracked(attempts))
        BY DEF RoomLeft
    <2>3. /\ \A a \in AttemptKeys : attempts'[a] = attempts[a] \/ attempts'[a] = NoEntry
          /\ IsFiniteSet(Tracked(attempts')) /\ Cardinality(Tracked(attempts')) <= MaxTracked
        BY <2>1, <2>2, PruneFits
    <2>4. verifying[f] = "none"
        BY <1>4 DEF Try
    <2>5. ASSUME NEW a \in AttemptKeys
          PROVE  attempts'[a].count + Cardinality(Racing(a)') <= PerWindow
        <3>1. /\ attempts[a].count \in Nat /\ attempts'[a].count \in Nat
              /\ attempts'[a].count <= attempts[a].count
            BY <1>1, <2>3 DEF SignInTypeOK, NoEntry
        <3>2. Racing(a) \in SUBSET Forms /\ Racing(a)' \in SUBSET Forms
            BY DEF Racing
        <3>3. /\ Cardinality(Racing(a)) \in Nat /\ Cardinality(Racing(a)') \in Nat
              /\ Cardinality(Racing(a)') <= Cardinality(Forms)
            BY <3>2, FormsFinite
        <3>4. CASE Racing(a)' = Racing(a)
            <4>1. attempts[a].count + Cardinality(Racing(a)) <= PerWindow
                BY DEF RoomLeft
            <4>2. QED BY <3>1, <3>3, <3>4, <4>1, FormsFinite
        <3>5. CASE Racing(a)' # Racing(a)
            <4>1. a = k /\ ~Locks(attempts'[k])
                BY <2>1, <2>4, <3>5, SignInConstants DEF Racing, SignInTypeOK
            <4>2. attempts'[a].count <= MaxAttempts - 1
                BY <3>1, <4>1, SignInConstants DEF Locks
            <4>3. QED BY <3>1, <3>3, <4>2, FormsFinite, SignInConstants
        <3>6. QED BY <3>4, <3>5
    <2>6. Cardinality(Tracked(attempts')) \in Nat
        BY <2>3, FS_CardinalityType
    <2>7. Busy' \in SUBSET Forms
        BY DEF Busy
    <2>8. Cardinality(Busy') \in Nat /\ Cardinality(Busy') <= Cardinality(Forms)
        BY <2>7, FormsFinite
    <2>9. Cardinality(Tracked(attempts')) + Cardinality(Busy') <= MaxTracked + Cardinality(Forms)
        BY <2>3, <2>6, <2>8, FormsFinite, SignInConstants
    <2>10. QED BY <2>3, <2>5, <2>9 DEF RoomLeft, Tracked
<1>5. CASE Restart
    <2>1. Tracked(attempts') = {}
        BY <1>5 DEF Restart, Tracked, NoEntry
    <2>2. Busy' = {} /\ \A k \in AttemptKeys : Racing(k)' = {} /\ attempts'[k].count = 0
        BY <1>5, SignInConstants DEF Restart, Busy, Racing, NoEntry
    <2>3. QED BY <2>1, <2>2, FS_EmptySet, FormsFinite, SignInConstants DEF RoomLeft, Tracked
<1>6. CASE Minute
    BY <1>6 DEF Minute, RoomLeft, Racing, Busy, Tracked
<1>7. CASE UNCHANGED signin
    BY <1>7 DEF signin, RoomLeft, Racing, Busy, Tracked
<1>8. QED BY <1>2, <1>3, <1>4, <1>5, <1>6, <1>7 DEF SignInNext

\* The span remembered moves on with the clock.
LEMMA RememberedStep ==
    ASSUME SignInTypeOK, Remembered, [SignInNext]_signin
    PROVE  Remembered'
<1> USE SignInConstants DEF Remembered, SignInTypeOK
<1>1. ASSUME NEW f \in Forms, Wrong(f)
      PROVE  Remembered'
    <2>1. verifying[f] \in AttemptKeys /\ minute' = minute /\ minute \in Nat
        BY <1>1 DEF Wrong, Ticks
    <2>2. ASSUME NEW k \in AttemptKeys, NEW m \in Ticks, m # minute
          PROVE  recent'[k][m] = recent[k][m]
        BY <1>1, <2>1, <2>2 DEF Wrong
    <2>3. ASSUME NEW k \in AttemptKeys, NEW m \in Ticks, m > minute \/ m + WindowTicks < minute
          PROVE  recent'[k][m] = 0
        <3>1. m # minute
            BY <2>1, <2>3 DEF Ticks
        <3>2. QED BY <2>2, <2>3, <3>1
    <2>4. QED BY <2>1, <2>3
<1>2. ASSUME NEW f \in Forms, Correct(f)
      PROVE  Remembered'
    <2>1. minute' = minute /\ \A k \in AttemptKeys : recent'[k] = recent[k] \/ recent'[k] = Never
        BY <1>2 DEF Correct
    <2>2. QED BY <2>1 DEF Never
<1>3. ASSUME NEW f \in Forms, NEW k \in AttemptKeys, Try(f, k)
      PROVE  Remembered'
    <2>1. minute' = minute /\ \A a \in AttemptKeys : recent'[a] = recent[a] \/ recent'[a] = Never
        BY <1>3 DEF Try
    <2>2. QED BY <2>1 DEF Never
<1>4. CASE Restart
    BY <1>4 DEF Restart, Never
<1>5. CASE Minute
    BY <1>5 DEF Minute, Ticks
<1>6. CASE UNCHANGED signin
    BY <1>6 DEF signin
<1>7. QED BY <1>1, <1>2, <1>3, <1>4, <1>5, <1>6 DEF SignInNext

\* An entry that lapsed counted all that is still remembered, and none of it now.
LEMMA LapsedCounts ==
    ASSUME SignInTypeOK, RoomLeft, Remembered, WindowsCounted,
           NEW k \in AttemptKeys, attempts[k].count = 0 \/ Lapsed(k)
    PROVE  Before(recent[k], MaxMinute + 1) <= PerWindow /\ recent[k][minute] = 0
<1>1. /\ minute \in Ticks /\ minute \in Nat /\ recent[k] \in [Ticks -> Nat]
      /\ attempts[k].count \in Nat /\ attempts[k].first \in Ticks /\ attempts[k].first \in Nat
      /\ WindowTicks \in Nat /\ MaxMinute \in Nat
    BY SignInConstants DEF SignInTypeOK, Ticks
<1>2. Counted(k, attempts[k], recent[k], minute)
    BY DEF WindowsCounted
<1>3. CASE attempts[k].count = 0
    BY <1>2, <1>3 DEF Counted
<1>4. CASE attempts[k].count # 0
    <2>1. minute - attempts[k].first > WindowTicks
        BY <1>4 DEF Lapsed
    <2>2. /\ Before(recent[k], MaxMinute + 1) - Before(recent[k], attempts[k].first) <= attempts[k].count
          /\ \A m \in Ticks : m > attempts[k].first + WindowTicks => recent[k][m] = 0
        BY <1>2, <1>4 DEF Counted
    <2>3. recent[k][minute] = 0
        BY <1>1, <2>1, <2>2
    <2>4. \A m \in Ticks : 0 <= m /\ m < attempts[k].first => recent[k][m] = 0
        BY <1>1, <2>1 DEF Remembered, Ticks
    <2>5. 0 \in Moments /\ attempts[k].first \in Moments /\ 0 <= attempts[k].first
        BY <1>1 DEF Moments, Ticks
    <2>6. Before(recent[k], attempts[k].first) = 0
        BY <1>1, <2>4, <2>5, AddsNothing, BeforeIs
    <2>7. attempts[k].count + Cardinality(Racing(k)) <= PerWindow /\ Cardinality(Racing(k)) \in Nat
        BY FormsFinite DEF RoomLeft, Racing
    <2>8. MaxMinute + 1 \in Moments /\ Before(recent[k], MaxMinute + 1) \in Nat /\ PerWindow \in Nat
        BY <1>1, BeforeIs, FormsFinite DEF Moments
    <2>9. QED BY <1>1, <2>2, <2>3, <2>6, <2>7, <2>8
<1>5. QED BY <1>3, <1>4

\* Nothing was counted of a key that was forgotten.
LEMMA ForgottenCounts ==
    ASSUME NEW k \in AttemptKeys, NEW t \in Ticks
    PROVE  Counted(k, NoEntry, Never, t)
<1>1. Never \in [Ticks -> Nat] /\ MaxMinute \in Nat /\ 0 \in Moments /\ MaxMinute + 1 \in Moments
    BY SignInConstants DEF Never, Moments
<1>2. Before(Never, 0) = Before(Never, MaxMinute + 1)
    BY <1>1, AddsNothing DEF Never
<1>3. Before(Never, MaxMinute + 1) = 0
    BY <1>1, <1>2, BeforeIs
<1>4. QED BY <1>3, FormsFinite DEF Counted, NoEntry, Never

\* Every step counts as the entries say.
LEMMA WindowsStep ==
    ASSUME SignInTypeOK, RoomLeft, Remembered, WindowsCounted, [SignInNext]_signin
    PROVE  WindowsCounted'
<1>1. /\ minute \in Ticks /\ minute \in Nat /\ MaxMinute \in Nat /\ WindowTicks \in Nat
      /\ \A m \in Ticks : m \in Nat /\ m \in Moments
      /\ MaxMinute + 1 \in Moments /\ minute \in Moments
    BY SignInConstants DEF SignInTypeOK, Ticks, Moments
<1>2. ASSUME NEW a \in AttemptKeys
      PROVE  /\ recent[a] \in [Ticks -> Nat] /\ attempts[a].count \in Nat /\ attempts[a].first \in Ticks
             /\ Counted(a, attempts[a], recent[a], minute)
    BY DEF SignInTypeOK, WindowsCounted
<1>3. ASSUME NEW f \in Forms, Wrong(f)
      PROVE  WindowsCounted'
    <2>1. PICK k \in AttemptKeys : k = verifying[f]
        BY <1>3 DEF Wrong, SignInTypeOK
    <2>2. /\ minute' = minute
          /\ attempts' = [attempts EXCEPT ![k] = OneMore(k)]
          /\ recent' = [recent EXCEPT ![k][minute] = @ + 1]
        BY <1>3, <2>1 DEF Wrong
    <2> DEFINE r == recent[k]
               s == [r EXCEPT ![minute] = @ + 1]
    <2>3. /\ attempts'[k] = OneMore(k) /\ recent'[k] = s
          /\ \A a \in AttemptKeys \ {k} : attempts'[a] = attempts[a] /\ recent'[a] = recent[a]
        BY <2>2 DEF SignInTypeOK
    <2>4. /\ s \in [Ticks -> Nat]
          /\ \A n \in Moments : Before(s, n) = IF n <= minute THEN Before(r, n) ELSE Before(r, n) + 1
        BY <1>1, <1>2, AddsOne
    <2>5. \A m \in Ticks : s[m] = IF m = minute THEN r[m] + 1 ELSE r[m]
        BY <1>1, <1>2
    <2>6. \A n \in Moments : Before(r, n) \in Nat
        BY <1>2, BeforeIs
    <2> HIDE DEF r, s
    <2>7. Counted(k, OneMore(k), s, minute)
        <3>1. CASE attempts[k].count = 0 \/ Lapsed(k)
            <4>1. OneMore(k).count = 1 /\ OneMore(k).first = minute
                BY <3>1 DEF OneMore
            <4>2. Before(r, MaxMinute + 1) <= PerWindow /\ r[minute] = 0
                BY <3>1, LapsedCounts DEF r
            <4>3. \A m \in Ticks : minute <= m /\ m < MaxMinute + 1 => r[m] = 0
                BY <1>1, <4>2 DEF r, Remembered
            <4>4. r \in [Ticks -> Nat] /\ minute <= MaxMinute + 1
                BY <1>1, <1>2 DEF r, Ticks
            <4>5. Before(r, minute) = Before(r, MaxMinute + 1)
                BY <1>1, <4>3, <4>4, AddsNothing
            <4>6. Before(s, minute) = Before(r, minute)
                BY <1>1, <2>4
            <4>7. Before(s, MaxMinute + 1) = Before(r, MaxMinute + 1) + 1
                BY <1>1, <2>4 DEF Ticks
            <4>8. \A m \in Ticks : m > minute + WindowTicks => s[m] = 0
                BY <1>1, <2>5, <4>3 DEF Ticks
            <4>9. PerWindow \in Nat /\ Before(r, MaxMinute + 1) \in Nat
                BY <1>1, <2>6, FormsFinite
            <4>10. Before(s, minute) <= PerWindow /\ Before(s, MaxMinute + 1) - Before(s, minute) <= 1
                BY <4>2, <4>5, <4>6, <4>7, <4>9
            <4>11. QED BY <1>1, <4>1, <4>8, <4>10 DEF Counted
        <3>2. CASE attempts[k].count # 0 /\ ~Lapsed(k)
            <4> DEFINE p == attempts[k].first
            <4>1. OneMore(k).count = attempts[k].count + 1 /\ OneMore(k).first = p
                BY <3>2 DEF OneMore, SignInTypeOK
            <4>2. /\ p <= minute /\ Before(r, p) <= PerWindow
                  /\ Before(r, MaxMinute + 1) - Before(r, p) <= attempts[k].count
                  /\ \A m \in Ticks : m > p + WindowTicks => r[m] = 0
                BY <1>2, <3>2 DEF Counted, r
            <4>3. p \in Moments /\ p \in Nat /\ p \in Ticks /\ attempts[k].count \in Nat
                BY <1>1, <1>2
            <4>4. minute <= p + WindowTicks
                BY <1>1, <3>2, <4>3 DEF Lapsed
            <4> HIDE DEF p
            <4>5. Before(s, p) = Before(r, p)
                BY <2>4, <4>2, <4>3
            <4>6. Before(s, MaxMinute + 1) = Before(r, MaxMinute + 1) + 1
                BY <1>1, <2>4 DEF Ticks
            <4>7. \A m \in Ticks : m > p + WindowTicks => s[m] = 0
                BY <1>1, <2>5, <4>2, <4>3, <4>4
            <4>8. Before(r, p) \in Nat /\ Before(r, MaxMinute + 1) \in Nat
                BY <1>1, <2>6, <4>3
            <4>9. Before(s, MaxMinute + 1) - Before(s, p) <= attempts[k].count + 1
                BY <4>2, <4>3, <4>5, <4>6, <4>8
            <4>10. attempts[k].count + 1 # 0
                BY <4>3
            <4>11. QED BY <4>1, <4>2, <4>5, <4>7, <4>9, <4>10 DEF Counted
        <3>3. QED BY <3>1, <3>2
    <2>8. \A a \in AttemptKeys : Counted(a, attempts'[a], recent'[a], minute')
        BY <1>2, <2>2, <2>3, <2>7
    <2>9. QED BY <2>8 DEF WindowsCounted
<1>4. ASSUME NEW f \in Forms, Correct(f)
      PROVE  WindowsCounted'
    <2>1. minute' = minute
        BY <1>4 DEF Correct
    <2>2. ASSUME NEW a \in AttemptKeys
          PROVE  \/ attempts'[a] = attempts[a] /\ recent'[a] = recent[a]
                 \/ attempts'[a] = NoEntry /\ recent'[a] = Never
        BY <1>4 DEF Correct, SignInTypeOK
    <2>3. ASSUME NEW a \in AttemptKeys
          PROVE  Counted(a, attempts'[a], recent'[a], minute')
        <3>1. CASE attempts'[a] = attempts[a] /\ recent'[a] = recent[a]
            BY <1>2, <2>1, <3>1
        <3>2. CASE attempts'[a] = NoEntry /\ recent'[a] = Never
            BY <1>1, <2>1, <3>2, ForgottenCounts
        <3>3. QED BY <2>2, <3>1, <3>2
    <2>4. QED BY <2>3 DEF WindowsCounted
<1>5. ASSUME NEW f \in Forms, NEW k \in AttemptKeys, Try(f, k)
      PROVE  WindowsCounted'
    <2>1. PICK E \in Evictions :
              /\ attempts' = [a \in AttemptKeys |-> IF a \in E THEN NoEntry ELSE Kept[a]]
              /\ recent' = [a \in AttemptKeys |-> IF a \in E THEN Never ELSE recent[a]]
        BY <1>5 DEF Try
    <2>2. minute' = minute
        BY <1>5 DEF Try
    <2>3. IsFiniteSet(Tracked(attempts))
        BY DEF RoomLeft
    <2>4. ASSUME NEW a \in AttemptKeys
          PROVE  Counted(a, attempts'[a], recent'[a], minute')
        <3>1. CASE a \in E
            <4>1. attempts'[a] = NoEntry /\ recent'[a] = Never
                BY <2>1, <3>1
            <4>2. QED BY <1>1, <2>2, <4>1, ForgottenCounts
        <3>2. CASE a \notin E /\ Lapsed(a)
            <4>1. attempts'[a] = NoEntry /\ recent'[a] = recent[a]
                BY <2>1, <3>2 DEF Kept
            <4>2. Before(recent[a], MaxMinute + 1) <= PerWindow /\ recent[a][minute] = 0
                BY <3>2, LapsedCounts
            <4>3. QED BY <2>2, <4>1, <4>2 DEF Counted, NoEntry
        <3>3. CASE a \notin E /\ ~Lapsed(a)
            <4>1. attempts'[a] = attempts[a] /\ recent'[a] = recent[a]
                BY <2>1, <3>3 DEF Kept
            <4>2. QED BY <1>2, <2>2, <4>1
        <3>4. QED BY <3>1, <3>2, <3>3
    <2>5. QED BY <2>4 DEF WindowsCounted
<1>6. CASE Restart
    <2>1. \A a \in AttemptKeys : attempts'[a] = NoEntry /\ recent'[a] = Never
        BY <1>6 DEF Restart
    <2>2. minute' = minute
        BY <1>6 DEF Restart
    <2>3. QED BY <1>1, <2>1, <2>2, ForgottenCounts DEF WindowsCounted
<1>7. CASE Minute
    <2>1. minute' = minute + 1 /\ minute < MaxMinute /\ attempts' = attempts
        BY <1>7 DEF Minute
    <2>2. minute' \in Ticks
        BY <1>1, <2>1 DEF Ticks
    <2>3. ASSUME NEW a \in AttemptKeys
          PROVE  Counted(a, attempts'[a], recent'[a], minute')
        <3> DEFINE r == recent[a]
                   s == recent'[a]
                   p == attempts[a].first
        <3>1. s = [m \in Ticks |-> IF m + WindowTicks < minute + 1 THEN 0 ELSE r[m]]
            BY <1>7, <2>1 DEF Minute
        <3>2. r \in [Ticks -> Nat] /\ s \in [Ticks -> Nat] /\ \A m \in Ticks : s[m] = 0 \/ s[m] = r[m]
            BY <1>2, <3>1
        <3>3. \A m \in Ticks : s[m] <= r[m]
            BY <3>2
        <3>4. p \in Moments /\ p \in Ticks /\ p \in Nat /\ 0 <= p /\ p <= MaxMinute + 1 /\ 0 \in Moments
            BY <1>1, <1>2 DEF Ticks, Moments
        <3>5. Counted(a, attempts[a], r, minute)
            BY <1>2
        <3>6. minute + 1 > minute /\ minute + 1 \in Ticks
            BY <1>1, <2>1, <2>2
        <3>7. r[minute + 1] = 0
            BY <3>6 DEF Remembered
        <3> HIDE DEF r, s, p
        <3>8. s[minute + 1] = 0
            BY <3>2, <3>6, <3>7
        <3>9. /\ Before(s, p) - Before(s, 0) <= Before(r, p) - Before(r, 0)
              /\ Before(s, MaxMinute + 1) - Before(s, 0) <= Before(r, MaxMinute + 1) - Before(r, 0)
              /\ Before(s, MaxMinute + 1) - Before(s, p) <= Before(r, MaxMinute + 1) - Before(r, p)
            BY <1>1, <3>2, <3>3, <3>4, AddsUp
        <3>10. /\ Before(s, 0) = 0 /\ Before(r, 0) = 0 /\ Before(s, p) \in Nat /\ Before(r, p) \in Nat
               /\ Before(s, MaxMinute + 1) \in Nat /\ Before(r, MaxMinute + 1) \in Nat
            BY <1>1, <3>2, <3>4, BeforeIs
        <3>11. PerWindow \in Nat /\ attempts[a].count \in Nat
            BY <1>2, FormsFinite
        <3>12. CASE attempts[a].count = 0
            <4>1. Before(r, MaxMinute + 1) <= PerWindow
                BY <3>5, <3>12 DEF Counted
            <4>2. Before(s, MaxMinute + 1) <= PerWindow
                BY <3>9, <3>10, <3>11, <4>1
            <4>3. QED BY <2>1, <3>8, <3>12, <4>2 DEF Counted, s
        <3>13. CASE attempts[a].count # 0
            <4>1. /\ p <= minute /\ Before(r, p) <= PerWindow
                  /\ Before(r, MaxMinute + 1) - Before(r, p) <= attempts[a].count
                  /\ \A m \in Ticks : m > p + WindowTicks => r[m] = 0
                BY <3>5, <3>13 DEF Counted, p
            <4>2. Before(s, p) <= PerWindow
                BY <3>9, <3>10, <3>11, <4>1
            <4>3. Before(s, MaxMinute + 1) - Before(s, p) <= attempts[a].count
                BY <3>9, <3>10, <3>11, <4>1
            <4>4. \A m \in Ticks : m > p + WindowTicks => s[m] = 0
                BY <3>2, <4>1
            <4>5. p <= minute + 1
                BY <1>1, <3>4, <4>1
            <4>6. QED BY <2>1, <3>13, <4>2, <4>3, <4>4, <4>5 DEF Counted, s, p
        <3>14. QED BY <3>12, <3>13
    <2>4. QED BY <2>3 DEF WindowsCounted
<1>8. CASE UNCHANGED signin
    BY <1>8 DEF signin, WindowsCounted
<1>9. QED BY <1>3, <1>4, <1>5, <1>6, <1>7, <1>8 DEF SignInNext

\* The counters bound the guesses, whatever the sign-ins that race past the lock,
\* the keys and the clock: what login-guard.server.ts is there for, with the room
\* that the await in login.tsx leaves.
THEOREM GuessesStayBounded == SignInSpec => []GuessesBounded
<1>1. SignInInit => GuardInv
    <2> SUFFICES ASSUME SignInInit PROVE GuardInv
        OBVIOUS
    <2>1. SignInTypeOK
        BY SignInConstants DEF SignInInit, SignInTypeOK, NoEntry, Never, Ticks
    <2>2. Tracked(attempts) = {} /\ Busy = {} /\ \A k \in AttemptKeys : Racing(k) = {} /\ attempts[k].count = 0
        BY SignInConstants DEF SignInInit, Tracked, Busy, Racing, NoEntry
    <2>3. RoomLeft
        BY <2>2, FS_EmptySet, FormsFinite, SignInConstants DEF RoomLeft
    <2>4. Remembered
        BY DEF SignInInit, Remembered, Never
    <2>5. minute \in Ticks
        BY <2>1 DEF SignInTypeOK
    <2>6. WindowsCounted
        BY <2>5, ForgottenCounts DEF SignInInit, WindowsCounted
    <2>7. QED BY <2>1, <2>3, <2>4, <2>6 DEF GuardInv
<1>2. GuardInv /\ [SignInNext]_signin => GuardInv'
    BY GuardTypes, RoomStep, RememberedStep, WindowsStep DEF GuardInv
<1>3. GuardInv => GuessesBounded
    <2> SUFFICES ASSUME GuardInv PROVE GuessesBounded
        OBVIOUS
    <2>1. MaxMinute \in Nat /\ MaxMinute + 1 \in Moments /\ PerWindow \in Nat /\ Cardinality(Forms) \in Nat
        BY SignInConstants, FormsFinite DEF Moments
    <2>2. ASSUME NEW k \in AttemptKeys
          PROVE  attempts[k].count <= PerWindow /\ UpTo(recent[k])[MaxMinute] <= 2 * PerWindow
        <3>1. Racing(k) \in SUBSET Forms
            BY DEF Racing
        <3>2. attempts[k].count + Cardinality(Racing(k)) <= PerWindow
            BY DEF GuardInv, RoomLeft
        <3>3. attempts[k].count \in Nat /\ attempts[k].first \in Moments /\ recent[k] \in [Ticks -> Nat]
            BY <2>1 DEF GuardInv, SignInTypeOK, Ticks, Moments
        <3>4. attempts[k].count <= PerWindow
            BY <2>1, <3>1, <3>2, <3>3, FormsFinite
        <3>5. Counted(k, attempts[k], recent[k], minute)
            BY DEF GuardInv, WindowsCounted
        <3>6. /\ Before(recent[k], MaxMinute + 1) = UpTo(recent[k])[MaxMinute]
              /\ Before(recent[k], MaxMinute + 1) \in Nat /\ Before(recent[k], attempts[k].first) \in Nat
            BY <2>1, <3>3, BeforeIs
        <3>7. \/ Before(recent[k], MaxMinute + 1) <= PerWindow
              \/ /\ Before(recent[k], attempts[k].first) <= PerWindow
                 /\ Before(recent[k], MaxMinute + 1) - Before(recent[k], attempts[k].first) <= attempts[k].count
            BY <3>5 DEF Counted
        <3>8. Before(recent[k], MaxMinute + 1) <= 2 * PerWindow
            BY <2>1, <3>3, <3>4, <3>6, <3>7
        <3>9. QED BY <3>4, <3>6, <3>8
    <2>3. Cardinality(Tracked(attempts)) <= MaxTracked + Cardinality(Forms)
        <3>1. Cardinality(Tracked(attempts)) \in Nat
            BY FS_CardinalityType DEF GuardInv, RoomLeft
        <3>2. Busy \in SUBSET Forms
            BY DEF Busy
        <3>3. Cardinality(Busy) \in Nat
            BY <3>2, FormsFinite
        <3>4. QED BY <2>1, <3>1, <3>3, SignInConstants DEF GuardInv, RoomLeft
    <2>4. QED BY <2>2, <2>3 DEF GuessesBounded
<1>4. QED BY <1>1, <1>2, <1>3, PTL DEF SignInSpec

-----------------------------------------------------------------------------
(* The hosted installer: what the providers' answers mean.                 *)

\* The replies that list no error, and those that are given whatever the token is.
LEMMA PlainReplies ==
    /\ \A d \in {"none", "empty", "bare", "full"} : Graphql(Reply(200, "none", d)) # "railway_token_invalid"
    /\ \A r \in {Silence, Reply(429, "none", "none"), Reply(500, "none", "none"),
               Reply(200, "rate limit", "none"), Reply(200, "other", "none")} :
            Graphql(r) \notin {"ok", "railway_token_invalid"}
<1>1. \A d \in {"none", "empty", "bare", "full"} : Graphql(Reply(200, "none", d)) # "railway_token_invalid"
    BY DEF Graphql, Reply, Silence
<1>2. Graphql(Silence) = "railway_unreachable"
    BY DEF Graphql, Silence, Reply
<1>3. ASSUME NEW r, r # Silence, r.status # 200 \/ r.errors # "none"
      PROVE  Graphql(r) = Classify(r)
    BY <1>3 DEF Graphql
<1>4. Graphql(Reply(429, "none", "none")) \notin {"ok", "railway_token_invalid"}
    <2> DEFINE r == Reply(429, "none", "none")
    <2>1. r # Silence /\ r.status # 200
        BY DEF Reply, Silence
    <2>2. Classify(r) # "ok" /\ Classify(r) # "railway_token_invalid"
        BY DEF Classify, Reply
    <2>3. Graphql(r) = Classify(r)
        BY <1>3, <2>1
    <2>4. QED BY <2>2, <2>3
<1>5. Graphql(Reply(500, "none", "none")) \notin {"ok", "railway_token_invalid"}
    <2> DEFINE r == Reply(500, "none", "none")
    <2>1. r # Silence /\ r.status # 200
        BY DEF Reply, Silence
    <2>2. Classify(r) # "ok" /\ Classify(r) # "railway_token_invalid"
        BY DEF Classify, Reply
    <2>3. Graphql(r) = Classify(r)
        BY <1>3, <2>1
    <2>4. QED BY <2>2, <2>3
<1>6. Graphql(Reply(200, "rate limit", "none")) \notin {"ok", "railway_token_invalid"}
    <2> DEFINE r == Reply(200, "rate limit", "none")
    <2>1. r # Silence /\ r.errors # "none"
        BY DEF Reply, Silence
    <2>2. Classify(r) # "ok" /\ Classify(r) # "railway_token_invalid"
        BY DEF Classify, Reply
    <2>3. Graphql(r) = Classify(r)
        BY <1>3, <2>1
    <2>4. QED BY <2>2, <2>3
<1>7. Graphql(Reply(200, "other", "none")) \notin {"ok", "railway_token_invalid"}
    <2> DEFINE r == Reply(200, "other", "none")
    <2>1. r # Silence /\ r.errors # "none"
        BY DEF Reply, Silence
    <2>2. Classify(r) # "ok" /\ Classify(r) # "railway_token_invalid"
        BY DEF Classify, Reply
    <2>3. Graphql(r) = Classify(r)
        BY <1>3, <2>1
    <2>4. QED BY <2>2, <2>3
<1>8. QED BY <1>1, <1>2, <1>4, <1>5, <1>6, <1>7, ZenonT(60)

\* A token that lives is never told it is not authorised, and what was not done is
\* never answered well.
LEMMA LivingAnswers ==
    /\ \A r \in Answers(TRUE, TRUE) : Graphql(r) # "railway_token_invalid"
    /\ \A r \in Answers(TRUE, FALSE) : Graphql(r) # "ok"
<1> DEFINE Data == {"none", "empty", "bare", "full"}
           Errors == {Silence, Reply(429, "none", "none"), Reply(500, "none", "none"),
                      Reply(200, "rate limit", "none"), Reply(200, "other", "none")}
<1>1. \A r \in Answers(TRUE, TRUE) : r \in Errors \/ r \in {Reply(200, "none", d) : d \in Data}
    BY ZenonT(60) DEF Answers
<1>2. \A r \in Answers(TRUE, FALSE) : r \in Errors
    BY ZenonT(60) DEF Answers
<1>3. /\ \A d \in Data : Graphql(Reply(200, "none", d)) # "railway_token_invalid"
      /\ \A r \in Errors : Graphql(r) \notin {"ok", "railway_token_invalid"}
    BY Zenon, PlainReplies
<1> HIDE DEF Data, Errors
<1>4. \A r \in {Reply(200, "none", d) : d \in Data} : Graphql(r) # "railway_token_invalid"
    BY <1>3
<1>5. QED BY <1>1, <1>2, <1>3, <1>4

\* A deletion the installer takes for done was done.
LEMMA DeletionsHappen ==
    \A kind \in {"project", "dns-record"}, succeeds, happens \in BOOLEAN :
        Deletion(succeeds, happens) \in Deletions[kind] => (succeeds => happens)
<1>1. ASSUME NEW succeeds \in BOOLEAN, NEW happens \in BOOLEAN, succeeds,
             Deletion(succeeds, happens) \in Deletions["project"]
      PROVE  happens
    <2>1. PICK a \in BOOLEAN : \E r \in Answers(TRUE, a) :
              Deletion(succeeds, happens) = Deletion(Graphql(r) = "ok", a)
        BY <1>1 DEF Deletions
    <2>2. happens = a /\ \E r \in Answers(TRUE, a) : Graphql(r) = "ok"
        BY <1>1, <2>1 DEF Deletion
    <2>3. QED BY <2>2, LivingAnswers
<1>2. ASSUME NEW succeeds \in BOOLEAN, NEW happens \in BOOLEAN, succeeds,
             Deletion(succeeds, happens) \in Deletions["dns-record"]
      PROVE  happens
    BY <1>2 DEF Deletions, Deletion
<1>3. QED BY <1>1, <1>2

\* A call comes to one of three things.
LEMMA CallsComeTo ==
    \A kind \in {"project", "railway", "dns-record", "nothing"} :
        Outcomes[kind] \subseteq {"ok", "refused", "lost"}
<1>1. \A acted, code : Came(acted, code) \in {"ok", "refused", "lost"}
    BY DEF Came
<1>2. ASSUME NEW end \in RecordOutcomes
      PROVE  \E acted, code : end = Came(acted, code)
    BY <1>2, Zenon DEF RecordOutcomes
<1>3. ASSUME NEW kind \in {"project", "railway"}, NEW end \in Outcomes[kind]
      PROVE  \E acted, code : end = Came(acted, code)
    <2>1. Outcomes[kind] = UNION {{Came(acted, Created(r)) : r \in Answers(TRUE, acted)} \cup
                       {Came(acted, CreateCustomDomain(r)) : r \in Answers(TRUE, acted)} : acted \in BOOLEAN}
        BY DEF Outcomes
    <2>2. QED BY <1>3, <2>1, Zenon
<1>4. ASSUME NEW end \in Outcomes["nothing"]
      PROVE  \E acted, code : end = Came(acted, code)
    <2>1. Outcomes["nothing"] =
                {Came(FALSE, Graphql(r)) : r \in Answers(TRUE, TRUE)} \cup
                {Came(FALSE, WaitForDeployment(s)) : s \in [1..2 -> {"BUILDING", "SUCCESS", "CRASHED"}]} \cup
                {Came(FALSE, Issued(s)) : s \in [1..2 -> {"VALIDATING", "ISSUED"}]}
        BY DEF Outcomes
    <2>2. QED BY <1>4, <2>1, Zenon
<1>5. Outcomes["dns-record"] = RecordOutcomes
    BY DEF Outcomes
<1>6. ASSUME NEW kind \in {"project", "railway", "dns-record", "nothing"}, NEW end \in Outcomes[kind]
      PROVE  end \in {"ok", "refused", "lost"}
    <2>1. \E acted, code : end = Came(acted, code)
        BY <1>2, <1>3, <1>4, <1>5, <1>6
    <2>2. QED BY <1>1, <2>1
<1>7. QED BY <1>6

\* A token said to be gone is.
LEMMA ProofsHold ==
    ASSUME NEW end \in Destructions
    PROVE  /\ end.said.deleted \in BOOLEAN /\ end.said.confirmed \in BOOLEAN
           /\ end.said.confirmed => end.dies
<1>1. PICK dies \in BOOLEAN : \E heard \in Hearings(dies) : end = [dies |-> dies, said |-> DestroyToken(heard)]
    BY DEF Destructions
<1>2. PICK heard \in Hearings(dies) : end = [dies |-> dies, said |-> DestroyToken(heard)]
    BY <1>1
<1>3. heard.first \in Codes(~dies, TRUE) /\ heard.second \in Codes(~dies, TRUE)
    BY DEF Hearings
<1>4. PICK code \in Codes(~dies, TRUE) : DestroyToken(heard) \in {Spared, Proof(code)}
    BY <1>3 DEF DestroyToken
<1>5. ~dies => code # "railway_token_invalid"
    BY <1>4, LivingAnswers DEF Codes
<1>6. /\ DestroyToken(heard).deleted \in BOOLEAN /\ DestroyToken(heard).confirmed \in BOOLEAN
      /\ DestroyToken(heard).confirmed => dies
    <2>1. /\ Spared.deleted = FALSE /\ Spared.confirmed = FALSE
          /\ Proof(code).deleted = TRUE /\ Proof(code).confirmed = (code = "railway_token_invalid")
        BY DEF Spared, Proof
    <2>2. CASE DestroyToken(heard) = Spared
        BY <2>1, <2>2
    <2>3. CASE DestroyToken(heard) = Proof(code)
        BY <1>5, <2>1, <2>3
    <2>4. QED BY <1>4, <2>2, <2>3
<1>7. end.dies = dies /\ end.said = DestroyToken(heard)
    BY <1>2
<1>8. QED BY <1>6, <1>7

-----------------------------------------------------------------------------
(* The hosted installer: one job.                                          *)

Recorded(r) == {r.inventory[i] : i \in DOMAIN r.inventory}
Makes == {i \in DOMAIN Plan : Plan[i] # "nothing"}

\* The project is written down first and once, and every entry was made.
WrittenDown(r) ==
    \A i \in DOMAIN r.inventory : r.inventory[i] \in Makes /\ (r.inventory[i] = 1 <=> i = 1)

\* A job with what exists because of it, what of that no answer told, and its token.
\* A plan has made all it is past, and nothing else.
Planned(r, m) ==
    /\ r.at \in 1 .. Len(Plan) + 1 /\ WrittenDown(r) /\ r.stranded = {}
    /\ r.inventory = <<>> <=> r.at = 1
    /\ m = {i \in Makes : i < r.at} /\ m = Recorded(r)

\* In a rollback, what is left was never told, is stranded, has its turn still to
\* come, or is in a project that has or that stays.
RollingBack(r, m, u) ==
    /\ r.at \in 0 .. Len(r.inventory) /\ WrittenDown(r)
    /\ \A i \in m :
        \/ i \in u \cup r.stranded
        \/ \E e \in 1 .. r.at : i = r.inventory[e]
        \/ (r.at > 0 \/ 1 \in r.stranded) /\ i \in Recorded(r) \cap Railway

\* LeftoversAreNamed, of one job.
Named(r, m, u) ==
    /\ r.state = "done" => m = Makes
    /\ r.state = "manual_cleanup_required" => m \subseteq r.stranded \cup u
    /\ r.state = "failed" => m \subseteq u

JobOK(r, m, u, t) ==
    /\ r.pc = "none" => r = NoJob
    /\ r.pc \in {"verifying", "waiting", "rejected"} =>
            r.state = "awaiting_confirmation" /\ r.inventory = <<>> /\ r.stranded = {}
    /\ r.pc \in {"none", "verifying", "waiting", "rejected"} => m = {}
    /\ r.pc \in {"plan", "rollback"} => r.state = "running"
    /\ r.pc = "plan" => Planned(r, m)
    /\ r.pc = "rollback" => RollingBack(r, m, u)
    /\ r.pc \in {"cleanup", "over"} => r.state \notin {"running", "awaiting_confirmation"} /\ Named(r, m, u)
    /\ r.confirmed => t = "dead"

JobsOK == \A j \in Jobs : JobOK(job[j], made[j], unheard[j], token[j])

\* The map: what occupies it is counted, and what the drain does not wait for has
\* not begun or is over.
StoreOK ==
    /\ IsFiniteSet(store)
    /\ Cardinality(Occupied) <= MaxConcurrent
    /\ \A j \in Jobs : job[j].state = "running" => j \in store
    /\ service \in {"draining", "ended"} => \A j \in store : Started(j) => job[j].pc = "over" \/ j \in awaited
    /\ service = "ended" /\ ~timedOut => \A j \in store : Started(j) => job[j].pc = "over"

IInv == InstallerTypeOK /\ JobsOK /\ StoreOK

\* What is written down is in the plan, and the project stands first.
LEMMA Writing ==
    ASSUME NEW r \in JobObjects, WrittenDown(r)
    PROVE  /\ Recorded(r) \subseteq Makes /\ Makes \subseteq DOMAIN Plan /\ Recorded(r) \subseteq DOMAIN Plan
           /\ DOMAIN r.inventory = 1 .. Len(r.inventory) /\ Len(r.inventory) \in Nat
           /\ DOMAIN Plan = 1 .. Len(Plan) /\ Len(Plan) \in Nat \ {0}
           /\ 1 \in Railway /\ 1 \in Makes
BY InstallerConstants DEF JobObjects, WrittenDown, Recorded, Makes, Railway

\* A call whose outcome is "ok" leaves a plan in order.
LEMMA CallGoes ==
    ASSUME NEW r \in JobObjects, NEW m \in SUBSET DOMAIN Plan, Planned(r, m), r.at <= Len(Plan),
           NEW s, s = [(IF r.at \in Makes THEN [r EXCEPT !.inventory = Append(@, r.at)] ELSE r)
                         EXCEPT !.at = r.at + 1]
    PROVE  s \in JobObjects /\ Planned(s, IF r.at \in Makes THEN m \cup {r.at} ELSE m)
<1>1. /\ DOMAIN Plan = 1 .. Len(Plan) /\ Len(Plan) \in Nat \ {0} /\ 1 \in Makes /\ Makes \subseteq DOMAIN Plan
      /\ DOMAIN r.inventory = 1 .. Len(r.inventory) /\ Len(r.inventory) \in Nat
    BY Writing DEF Planned
<1>2. r.at \in DOMAIN Plan /\ r.inventory \in Seq(DOMAIN Plan)
    BY <1>1 DEF Planned, JobObjects
<1>3. CASE r.at \in Makes
    <2> DEFINE inv == Append(r.inventory, r.at)
    <2>1. s = [r EXCEPT !.inventory = inv, !.at = r.at + 1]
        BY <1>3 DEF JobObjects
    <2>2. /\ inv \in Seq(DOMAIN Plan) /\ Len(inv) = Len(r.inventory) + 1
          /\ DOMAIN inv = 1 .. Len(r.inventory) + 1
          /\ \A i \in 1 .. Len(r.inventory) : inv[i] = r.inventory[i]
          /\ inv[Len(r.inventory) + 1] = r.at
        BY <1>1, <1>2
    <2> HIDE DEF inv
    <2>3. s \in JobObjects /\ s.inventory = inv /\ s.at = r.at + 1 /\ s.stranded = r.stranded
        <3>1. r.at + 1 \in Nat
            BY <1>1, <1>2
        <3>2. QED BY <2>1, <2>2, <3>1 DEF JobObjects
    <2>4. Recorded(s) = Recorded(r) \cup {r.at}
        BY <1>1, <2>2, <2>3, SMTT(30) DEF Recorded
    <2>5. r.at = 1 <=> Len(r.inventory) = 0
        BY <1>1, <1>2 DEF Planned
    <2>6. WrittenDown(s)
        BY <1>1, <1>3, <2>2, <2>3, <2>5 DEF Planned, WrittenDown
    <2>7. m \cup {r.at} = {i \in Makes : i < s.at}
        BY <1>1, <1>2, <1>3, <2>3 DEF Planned
    <2>8. s.inventory # <<>> /\ s.at # 1 /\ s.at \in 1 .. Len(Plan) + 1
        BY <1>1, <1>2, <2>2, <2>3, SMTT(30)
    <2>9. QED BY <1>3, <2>3, <2>4, <2>6, <2>7, <2>8 DEF Planned
<1>4. CASE r.at \notin Makes
    <2>1. s = [r EXCEPT !.at = r.at + 1]
        BY <1>4
    <2>2. /\ s \in JobObjects /\ s.inventory = r.inventory /\ s.at = r.at + 1 /\ s.stranded = r.stranded
        BY <1>1, <1>2, <2>1, SMTT(30) DEF JobObjects
    <2>3. r.at # 1
        BY <1>1, <1>4
    <2>4. m = {i \in Makes : i < s.at}
        <3>1. m = {i \in Makes : i < r.at}
            BY DEF Planned
        <3>2. \A i \in Makes : i \in Nat /\ i # r.at
            BY <1>1, <1>4
        <3>3. r.at \in Nat /\ s.at = r.at + 1
            BY <1>1, <1>2, <2>2
        <3>4. QED BY <3>1, <3>2, <3>3
    <2>5. r.at = 1 <=> r.inventory = <<>>
        BY DEF Planned
    <2>6. s.inventory # <<>> /\ s.at # 1 /\ s.at \in 1 .. Len(Plan) + 1
        BY <1>1, <1>2, <2>2, <2>3, <2>5
    <2>7. WrittenDown(s) /\ Recorded(s) = Recorded(r)
        BY <2>2, ZenonT(60) DEF Planned, WrittenDown, Recorded
    <2>8. s.stranded = {} /\ m = Recorded(s)
        BY <2>2, <2>7 DEF Planned
    <2>9. QED BY <1>4, <2>2, <2>4, <2>6, <2>7, <2>8 DEF Planned
<1>5. QED BY <1>3, <1>4

\* A call that fails begins a rollback with all that was recorded to undo.
LEMMA CallFails ==
    ASSUME NEW r \in JobObjects, NEW m \in SUBSET DOMAIN Plan, NEW u \in SUBSET DOMAIN Plan, Planned(r, m),
           NEW n, n \subseteq m \cup u
    PROVE  /\ Failing(r) \in JobObjects /\ RollingBack(Failing(r), n, u)
           /\ Failing(r) = [r EXCEPT !.pc = "rollback", !.at = Len(r.inventory)]
<1>1. DOMAIN r.inventory = 1 .. Len(r.inventory) /\ Len(r.inventory) \in Nat
    BY Writing DEF Planned
<1>2. /\ Failing(r) \in JobObjects /\ Failing(r).inventory = r.inventory
      /\ Failing(r).at = Len(r.inventory) /\ Failing(r).stranded = r.stranded
    BY <1>1 DEF Failing, JobObjects
<1>3. \A i \in n : i \in u \/ \E e \in 1 .. Len(r.inventory) : i = r.inventory[e]
    BY <1>1 DEF Planned, Recorded
<1>4. QED BY <1>1, <1>2, <1>3 DEF Planned, RollingBack, WrittenDown, Recorded, Failing

\* One entry of a rollback: the job, and what it leaves at the providers.
UndoneTo(r, succeeds) ==
    [r EXCEPT !.at = @ - 1,
              !.stranded = IF succeeds \/ Plan[r.inventory[r.at]] = "railway" THEN @ ELSE @ \cup {r.inventory[r.at]}]
GoneWith(entry) ==
    CASE Plan[entry] = "project"    -> Railway
      [] Plan[entry] = "dns-record" -> {entry}
      [] Plan[entry] = "railway"    -> {}
LeftAfter(r, m, happens) == IF happens THEN m \ GoneWith(r.inventory[r.at]) ELSE m

\* It keeps a rollback's promise.
LEMMA UndoGoes ==
    ASSUME NEW r \in JobObjects, NEW m \in SUBSET DOMAIN Plan, NEW u \in SUBSET DOMAIN Plan,
           RollingBack(r, m, u), r.at > 0,
           NEW succeeds \in BOOLEAN, NEW happens \in BOOLEAN,
           Deletion(succeeds, happens) \in Deletions[Plan[r.inventory[r.at]]]
    PROVE  /\ UndoneTo(r, succeeds) \in JobObjects /\ LeftAfter(r, m, happens) \in SUBSET DOMAIN Plan
           /\ RollingBack(UndoneTo(r, succeeds), LeftAfter(r, m, happens), u)
<1> DEFINE s == UndoneTo(r, succeeds)
           n == LeftAfter(r, m, happens)
           gone == GoneWith(r.inventory[r.at])
<1> DEFINE entry == r.inventory[r.at]
<1>1. /\ DOMAIN Plan = 1 .. Len(Plan) /\ Len(Plan) \in Nat \ {0} /\ 1 \in Railway
      /\ DOMAIN r.inventory = 1 .. Len(r.inventory) /\ Len(r.inventory) \in Nat
      /\ Recorded(r) \subseteq Makes /\ Makes \subseteq DOMAIN Plan
    BY Writing DEF RollingBack
<1>2. r.at \in 1 .. Len(r.inventory) /\ entry \in Makes /\ entry \in DOMAIN Plan /\ (entry = 1 <=> r.at = 1)
    BY <1>1 DEF RollingBack, WrittenDown
<1>3. /\ Plan[entry] \in {"project", "railway", "dns-record"}
      /\ Plan[entry] = "project" <=> entry = 1
    BY <1>1, <1>2, InstallerConstants DEF Makes
<1>4. /\ s \in JobObjects /\ s.at = r.at - 1 /\ s.inventory = r.inventory
      /\ s.stranded = IF succeeds \/ Plan[entry] = "railway" THEN r.stranded ELSE r.stranded \cup {entry}
    <2> DEFINE rest == IF succeeds \/ Plan[entry] = "railway" THEN r.stranded ELSE r.stranded \cup {entry}
    <2>1. rest \in SUBSET DOMAIN Plan /\ r.at - 1 \in Nat
        BY <1>1, <1>2 DEF JobObjects
    <2>2. s = [r EXCEPT !.at = r.at - 1, !.stranded = rest]
        BY DEF UndoneTo
    <2> HIDE DEF rest
    <2>3. s \in JobObjects /\ s.at = r.at - 1 /\ s.inventory = r.inventory /\ s.stranded = rest
        BY <2>1, <2>2 DEF JobObjects
    <2>4. QED BY <2>3 DEF rest
<1>5. Recorded(s) = Recorded(r) /\ WrittenDown(s) /\ s.at \in 0 .. Len(s.inventory)
    <2>1. Recorded(s) = Recorded(r) /\ WrittenDown(s)
        BY <1>4 DEF Recorded, WrittenDown, RollingBack
    <2>2. s.at \in 0 .. Len(s.inventory)
        BY <1>1, <1>2, <1>4
    <2>3. QED BY <2>1, <2>2
<1>6. n = IF happens THEN m \ gone ELSE m
    BY DEF LeftAfter
<1> HIDE DEF s, n
<1>7. ASSUME NEW i \in n
      PROVE  \/ i \in u \cup s.stranded
             \/ \E e \in 1 .. s.at : i = s.inventory[e]
             \/ (s.at > 0 \/ 1 \in s.stranded) /\ i \in Recorded(s) \cap Railway
    <2> DEFINE Goal == \/ i \in u \cup s.stranded
                       \/ \E e \in 1 .. s.at : i = s.inventory[e]
                       \/ (s.at > 0 \/ 1 \in s.stranded) /\ i \in Recorded(s) \cap Railway
    <2>1. \/ i \in u \cup r.stranded
          \/ \E e \in 1 .. r.at : i = r.inventory[e]
          \/ (r.at > 0 \/ 1 \in r.stranded) /\ i \in Recorded(r) \cap Railway
        BY <1>6, <1>7 DEF RollingBack
    <2>2. \/ i \in u \cup s.stranded
          \/ \E e \in 1 .. s.at : i = s.inventory[e]
          \/ i = entry
          \/ i \in Recorded(r) \cap Railway
        <3>1. ASSUME NEW e \in 1 .. r.at, i = r.inventory[e]
              PROVE  i = entry \/ \E f \in 1 .. s.at : i = s.inventory[f]
            BY <1>2, <1>4, <3>1 DEF RollingBack
        <3>2. r.stranded \subseteq s.stranded
            BY <1>4
        <3>3. QED BY <2>1, <3>1, <3>2
    <2>3. CASE r.at = 1
        <3>1. entry = 1 /\ Plan[entry] = "project" /\ gone = Railway
            BY <1>2, <1>3, <2>3 DEF GoneWith
        <3>2. succeeds => happens
            BY <3>1, DeletionsHappen
        <3>3. CASE succeeds
            BY <1>1, <1>6, <1>7, <2>2, <3>1, <3>2, <3>3
        <3>4. CASE ~succeeds
            <4>1. 1 \in s.stranded
                BY <1>4, <3>1, <3>4
            <4>2. QED BY <1>5, <2>2, <3>1, <4>1
        <3>5. QED BY <3>3, <3>4
    <2>4. CASE r.at # 1
        <3>1. s.at > 0
            BY <1>1, <1>2, <1>4, <2>4
        <3>a. Plan[entry] \in {"railway", "dns-record"}
            BY <1>2, <1>3, <2>4
        <3>2. CASE i = entry /\ Plan[entry] = "dns-record"
            <4>1. succeeds => happens
                BY <3>2, DeletionsHappen
            <4>2. gone = {entry}
                BY <3>2 DEF GoneWith
            <4>3. QED BY <1>4, <1>6, <1>7, <3>2, <4>1, <4>2
        <3>3. CASE i = entry /\ Plan[entry] = "railway"
            <4>1. i \in Recorded(s) \cap Railway
                BY <1>1, <1>2, <1>5, <3>3 DEF Recorded, Railway
            <4>2. QED BY <3>1, <4>1
        <3>4. CASE i # entry
            BY <1>5, <2>2, <3>1, <3>4
        <3>5. QED BY <3>a, <3>2, <3>3, <3>4
    <2>5. QED BY <2>3, <2>4
<1>8. n \in SUBSET DOMAIN Plan /\ RollingBack(s, n, u)
    BY <1>5, <1>6, <1>7 DEF RollingBack
<1>9. QED BY <1>4, <1>8 DEF s, n

\* What the end of a rollback names.
Stays(r) == IF 1 \in r.stranded THEN r.stranded \cup (Recorded(r) \cap Railway) ELSE r.stranded

\* What is left then is named, or was never told.
LEMMA RollbackEnds ==
    ASSUME NEW r \in JobObjects, NEW m \in SUBSET DOMAIN Plan, NEW u, RollingBack(r, m, u), r.at = 0
    PROVE  Stays(r) \in SUBSET DOMAIN Plan /\ m \subseteq Stays(r) \cup u
<1> DEFINE named == Stays(r)
<1>1. Recorded(r) \subseteq DOMAIN Plan /\ r.stranded \subseteq DOMAIN Plan
    BY Writing DEF RollingBack, JobObjects
<1>2. ASSUME NEW i \in m
      PROVE  i \in named \cup u
    BY <1>2 DEF RollingBack, Stays
<1>3. QED BY <1>1, <1>2 DEF Stays

-----------------------------------------------------------------------------
(* The hosted installer: the jobs together, and the map.                   *)

\* A step that moves one job keeps the others as they should be.
LEMMA OneJob ==
    ASSUME InstallerTypeOK, JobsOK, NEW j \in Jobs,
           NEW r \in JobObjects, NEW m \in SUBSET DOMAIN Plan, NEW u \in SUBSET DOMAIN Plan,
           NEW t \in {"alive", "dead"}, JobOK(r, m, u, t),
           job' = [job EXCEPT ![j] = r], made' = [made EXCEPT ![j] = m],
           unheard' = [unheard EXCEPT ![j] = u], token' = [token EXCEPT ![j] = t]
    PROVE  /\ job' \in [Jobs -> JobObjects] /\ {made', unheard'} \subseteq [Jobs -> SUBSET DOMAIN Plan]
           /\ token' \in [Jobs -> {"alive", "dead"}] /\ JobsOK'
<1>1. /\ job' \in [Jobs -> JobObjects] /\ made' \in [Jobs -> SUBSET DOMAIN Plan]
      /\ unheard' \in [Jobs -> SUBSET DOMAIN Plan] /\ token' \in [Jobs -> {"alive", "dead"}]
    BY DEF InstallerTypeOK
<1>2. ASSUME NEW k \in Jobs
      PROVE  JobOK(job'[k], made'[k], unheard'[k], token'[k])
    <2>1. CASE k = j
        <3>1. job'[k] = r /\ made'[k] = m /\ unheard'[k] = u /\ token'[k] = t
            BY <2>1 DEF InstallerTypeOK
        <3>2. QED BY <3>1
    <2>2. CASE k # j
        <3>1. job'[k] = job[k] /\ made'[k] = made[k] /\ unheard'[k] = unheard[k] /\ token'[k] = token[k]
            BY <2>2 DEF InstallerTypeOK
        <3>2. JobOK(job[k], made[k], unheard[k], token[k])
            BY DEF JobsOK
        <3>3. QED BY <3>1, <3>2
    <2>3. QED BY <2>1, <2>2
<1>3. QED BY <1>1, <1>2 DEF JobsOK

\* So does the map, when the job takes no place in it that it had not.
LEMMA OnePlace ==
    ASSUME InstallerTypeOK, StoreOK, Up, NEW j \in Jobs, NEW r \in JobObjects,
           job' = [job EXCEPT ![j] = r], store' \in {store, store \ {j}},
           service' = service, awaited' = awaited, timedOut' = timedOut,
           r.pc # "none", r.state = "running" => j \in store',
           r.state \in {"running", "awaiting_confirmation"} =>
                job[j].state \in {"running", "awaiting_confirmation"},
           service = "draining" /\ r.pc \in {"plan", "rollback", "cleanup"} =>
                job[j].pc \in {"plan", "rollback", "cleanup"}
    PROVE  StoreOK' /\ store' \subseteq {k \in Jobs : job'[k] # NoJob}
<1>1. \A k \in Jobs : job'[k] = IF k = j THEN r ELSE job[k]
    BY DEF InstallerTypeOK
<1>2. store \subseteq Jobs /\ store' \subseteq store
    BY DEF InstallerTypeOK
<1>3. Occupied' \subseteq Occupied
    BY <1>1, <1>2 DEF Occupied
<1>4. IsFiniteSet(store') /\ IsFiniteSet(Occupied) /\ Occupied \subseteq store
    BY <1>2, FS_Subset DEF StoreOK, Occupied
<1>5. /\ Cardinality(Occupied') <= Cardinality(Occupied)
      /\ Cardinality(Occupied') \in Nat /\ Cardinality(Occupied) \in Nat
    BY <1>3, <1>4, FS_Subset, FS_CardinalityType
<1>6. Cardinality(Occupied)' <= MaxConcurrent
    BY <1>5, InstallerConstants DEF StoreOK
<1>7. \A k \in Jobs : job'[k].state = "running" => k \in store'
    BY <1>1 DEF StoreOK
<1>8. service' # "ended"
    BY DEF Up
<1>9. ASSUME service' = "draining", NEW k \in store', Started(k)'
      PROVE  job'[k].pc = "over" \/ k \in awaited'
    <2>1. CASE k = j
        BY <1>1, <1>2, <1>9, <2>1 DEF StoreOK, Started
    <2>2. CASE k # j
        BY <1>1, <1>2, <1>9, <2>2 DEF StoreOK, Started
    <2>3. QED BY <2>1, <2>2
<1>10. store' \subseteq {k \in Jobs : job'[k] # NoJob}
    BY <1>1, <1>2 DEF InstallerTypeOK, NoJob
<1>11. QED BY <1>4, <1>6, <1>7, <1>8, <1>9, <1>10 DEF StoreOK

\* What a job object with another place, or another state, is.
LEMMA JobMoves ==
    ASSUME NEW r \in JobObjects,
           NEW pc \in {"none", "verifying", "rejected", "waiting", "plan", "rollback", "cleanup", "over"},
           NEW state \in {"none", "awaiting_confirmation", "running", "done", "failed", "manual_cleanup_required"},
           NEW at \in Nat, NEW stranded \in SUBSET DOMAIN Plan, NEW deleted \in BOOLEAN, NEW confirmed \in BOOLEAN
    PROVE  /\ [r EXCEPT !.pc = pc] \in JobObjects
           /\ [r EXCEPT !.pc = pc, !.state = state] \in JobObjects
           /\ [r EXCEPT !.pc = pc, !.state = state, !.at = at] \in JobObjects
           /\ [r EXCEPT !.pc = pc, !.stranded = stranded, !.state = state] \in JobObjects
           /\ [r EXCEPT !.pc = pc, !.deleted = deleted, !.confirmed = confirmed] \in JobObjects
<1>1. [r EXCEPT !.pc = pc] \in JobObjects
    BY DEF JobObjects
<1>2. [r EXCEPT !.pc = pc, !.state = state] \in JobObjects
    BY DEF JobObjects
<1>3. [r EXCEPT !.pc = pc, !.state = state, !.at = at] \in JobObjects
    BY DEF JobObjects
<1>4. [r EXCEPT !.pc = pc, !.stranded = stranded, !.state = state] \in JobObjects
    BY DEF JobObjects
<1>5. [r EXCEPT !.pc = pc, !.deleted = deleted, !.confirmed = confirmed] \in JobObjects
    BY DEF JobObjects
<1>6. QED BY <1>1, <1>2, <1>3, <1>4, <1>5

\* What a job begins as.
LEMMA JobBegins ==
    ASSUME NEW r \in JobObjects, NEW born \in Nat
    PROVE  [r EXCEPT !.pc = "verifying", !.born = born, !.state = "awaiting_confirmation"] \in JobObjects
BY DEF JobObjects

\* The objects no job has yet, and no job has any more.
LEMMA Blank ==
    /\ NoJob \in JobObjects /\ Gone \in JobObjects /\ Gone # NoJob /\ Gone.pc = "over" /\ Gone.state = "none"
    /\ ~NoJob.confirmed /\ ~Gone.confirmed /\ NoJob.pc = "none" /\ NoJob.state = "none"
    /\ NoJob.inventory = <<>> /\ NoJob.stranded = {}
<1>1. <<>> \in Seq(DOMAIN Plan)
    OBVIOUS
<1>2. QED BY <1>1 DEF NoJob, Gone, JobObjects

\* A job's object, what it made and its token, as the invariant has them.
LEMMA JobFacts ==
    ASSUME IInv, NEW j \in Jobs
    PROVE  /\ job[j] \in JobObjects /\ made[j] \in SUBSET DOMAIN Plan /\ unheard[j] \in SUBSET DOMAIN Plan
           /\ token[j] \in {"alive", "dead"} /\ JobOK(job[j], made[j], unheard[j], token[j])
           /\ made = [made EXCEPT ![j] = made[j]] /\ unheard = [unheard EXCEPT ![j] = unheard[j]]
           /\ token = [token EXCEPT ![j] = token[j]]
<1>1. job[j] \in JobObjects /\ JobOK(job[j], made[j], unheard[j], token[j])
    BY DEF IInv, InstallerTypeOK, JobsOK
<1>2. /\ made \in [Jobs -> SUBSET DOMAIN Plan] /\ unheard \in [Jobs -> SUBSET DOMAIN Plan]
      /\ token \in [Jobs -> {"alive", "dead"}]
    BY DEF IInv, InstallerTypeOK
<1>3. QED BY <1>1, <1>2

\* The check of a visitor's credentials, and the confirmation.
LEMMA RequestSteps ==
    ASSUME IInv, NEW v \in Visitors, NEW j \in Jobs,
           Verified(v, j) \/ Rejected(j) \/ (Confirm(v) /\ j = jar[v])
    PROVE  IInv'
<1> DEFINE m == made[j]  u == unheard[j]  t == token[j]
<1> USE DEF IInv
<1>1. /\ job[j] \in JobObjects /\ m \in SUBSET DOMAIN Plan /\ u \in SUBSET DOMAIN Plan
      /\ t \in {"alive", "dead"} /\ JobOK(job[j], m, u, t)
      /\ made = [made EXCEPT ![j] = m] /\ unheard = [unheard EXCEPT ![j] = u] /\ token = [token EXCEPT ![j] = t]
    BY JobFacts
<1>a. UNCHANGED <<made, unheard, token>>
    BY DEF Verified, Rejected, Confirm
<1>b. made' = [made EXCEPT ![j] = m] /\ unheard' = [unheard EXCEPT ![j] = u] /\ token' = [token EXCEPT ![j] = t]
    BY <1>1, <1>a
<1>c. InstallerTypeOK /\ JobsOK /\ StoreOK
    OBVIOUS
<1> HIDE DEF m, u, t
<1>2. CASE Verified(v, j)
    <2> DEFINE r == [job[j] EXCEPT !.pc = "waiting"]
    <2>1. r \in JobObjects
        <3>1. job[j] \in JobObjects
            BY <1>1
        <3>2. QED BY <3>1, JobMoves
    <2>2. r.pc = "waiting" /\ r.state = "awaiting_confirmation" /\ job[j].state = "awaiting_confirmation"
        BY <1>1, <1>2 DEF Verified, JobOK, JobObjects
    <2>3. JobOK(r, m, u, t)
        BY <1>1, <1>2, <2>2 DEF Verified, JobOK, JobObjects
    <2> HIDE DEF r
    <2>4. job' = [job EXCEPT ![j] = r]
        BY <1>2 DEF Verified, Becomes, r
    <2>5. /\ job' \in [Jobs -> JobObjects] /\ {made', unheard'} \subseteq [Jobs -> SUBSET DOMAIN Plan]
          /\ token' \in [Jobs -> {"alive", "dead"}] /\ JobsOK'
        BY <1>1, <1>b, <1>c, <2>1, <2>3, <2>4, OneJob, Zenon
    <2>6. StoreOK' /\ store' \subseteq {k \in Jobs : job'[k] # NoJob}
        BY <1>2, <2>1, <2>2, <2>4, OnePlace DEF Verified
    <2>7. jar' \in [Visitors -> Jobs \cup {0}]
        BY <1>2 DEF Verified, InstallerTypeOK
    <2>8. QED BY <1>2, <2>5, <2>6, <2>7 DEF Verified, InstallerTypeOK
<1>3. CASE Rejected(j)
    <2> DEFINE r == [job[j] EXCEPT !.pc = "rejected"]
    <2>1. r \in JobObjects
        BY <1>1, JobMoves, ZenonT(60)
    <2>2. r.pc = "rejected" /\ r.state = "awaiting_confirmation" /\ job[j].state = "awaiting_confirmation"
        BY <1>1, <1>3 DEF Rejected, JobOK, JobObjects
    <2>3. JobOK(r, m, u, t)
        BY <1>1, <1>3, <2>2 DEF Rejected, JobOK, JobObjects
    <2> HIDE DEF r
    <2>4. job' = [job EXCEPT ![j] = r]
        BY <1>3 DEF Rejected, Becomes, r
    <2>5. /\ job' \in [Jobs -> JobObjects] /\ {made', unheard'} \subseteq [Jobs -> SUBSET DOMAIN Plan]
          /\ token' \in [Jobs -> {"alive", "dead"}] /\ JobsOK'
        BY <1>1, <1>b, <1>c, <2>1, <2>3, <2>4, OneJob, Zenon
    <2>6. StoreOK' /\ store' \subseteq {k \in Jobs : job'[k] # NoJob}
        BY <1>3, <2>1, <2>2, <2>4, OnePlace DEF Rejected
    <2>7. QED BY <1>3, <2>5, <2>6 DEF Rejected, InstallerTypeOK
<1>4. CASE Confirm(v) /\ j = jar[v]
    <2> DEFINE r == [job[j] EXCEPT !.pc = "plan", !.state = "running", !.at = 1]
    <2>1. r \in JobObjects
        BY <1>1, JobMoves
    <2>2. /\ r.pc = "plan" /\ r.state = "running" /\ r.at = 1 /\ r.inventory = job[j].inventory
          /\ r.stranded = job[j].stranded /\ r.confirmed = job[j].confirmed
          /\ j \in store /\ job[j].state = "awaiting_confirmation"
        BY <1>1, <1>4 DEF Confirm, JobObjects
    <2>3. r.inventory = <<>> /\ r.stranded = {} /\ m = {}
        BY <1>1, <2>2, Blank DEF JobOK, JobObjects
    <2>4. Planned(r, m)
        <3>1. DOMAIN r.inventory = {}
            BY <2>3
        <3>2. \A i \in Makes : ~(i < 1)
            BY InstallerConstants DEF Makes
        <3>3. Len(Plan) \in Nat /\ 1 \in 1 .. Len(Plan) + 1
            BY InstallerConstants
        <3>4. QED BY <2>2, <2>3, <3>1, <3>2, <3>3 DEF Planned, WrittenDown, Recorded
    <2>5. JobOK(r, m, u, t)
        BY <1>1, <2>2, <2>4 DEF JobOK
    <2> HIDE DEF r
    <2>6. job' = [job EXCEPT ![j] = r]
        BY <1>4 DEF Confirm, Becomes, r
    <2>7. /\ job' \in [Jobs -> JobObjects] /\ {made', unheard'} \subseteq [Jobs -> SUBSET DOMAIN Plan]
          /\ token' \in [Jobs -> {"alive", "dead"}] /\ JobsOK'
        BY <1>1, <1>b, <1>c, <2>1, <2>5, <2>6, OneJob, Zenon
    <2>8. StoreOK' /\ store' \subseteq {k \in Jobs : job'[k] # NoJob}
        BY <1>4, <2>1, <2>2, <2>6, OnePlace DEF Confirm, Up
    <2>9. QED BY <1>4, <2>7, <2>8 DEF Confirm, InstallerTypeOK
<1>5. QED BY <1>2, <1>3, <1>4

\* A step of a run, which moves the job it is of and leaves the map alone.
MovesTo(j, r, m, u, t) ==
    /\ Up /\ UNCHANGED <<age, store, jar, service, awaited, timedOut>>
    /\ job' = [job EXCEPT ![j] = r] /\ made' = [made EXCEPT ![j] = m]
    /\ unheard' = [unheard EXCEPT ![j] = u] /\ token' = [token EXCEPT ![j] = t]
    /\ job[j].pc \in {"plan", "rollback", "cleanup"}
    /\ r.pc # "none" /\ r.state # "awaiting_confirmation"
    /\ r.state = "running" => job[j].state = "running"

\* It keeps the invariant when the job stays as it should be.
LEMMA RunMoves ==
    ASSUME IInv, NEW j \in Jobs, NEW r \in JobObjects, NEW m \in SUBSET DOMAIN Plan,
           NEW u \in SUBSET DOMAIN Plan, NEW t \in {"alive", "dead"}, JobOK(r, m, u, t),
           MovesTo(j, r, m, u, t)
    PROVE  IInv'
<1> USE DEF IInv
<1>1. /\ JobsOK' /\ job' \in [Jobs -> JobObjects] /\ {made', unheard'} \subseteq [Jobs -> SUBSET DOMAIN Plan]
      /\ token' \in [Jobs -> {"alive", "dead"}]
    BY OneJob DEF MovesTo
<1>2. StoreOK' /\ store' \subseteq {k \in Jobs : job'[k] # NoJob}
    BY OnePlace DEF StoreOK, MovesTo
<1>3. QED BY <1>1, <1>2 DEF InstallerTypeOK, MovesTo

\* The calls of a run.
LEMMA CallStep ==
    ASSUME IInv, NEW j \in Jobs, Calls(j)
    PROVE  IInv'
<1> DEFINE r == job[j]  m == made[j]  u == unheard[j]  t == token[j]
<1>1. /\ r \in JobObjects /\ m \in SUBSET DOMAIN Plan /\ u \in SUBSET DOMAIN Plan /\ t \in {"alive", "dead"}
      /\ JobOK(r, m, u, t) /\ token = [token EXCEPT ![j] = t]
    BY JobFacts
<1>2. r.pc = "plan" /\ r.at <= Len(Plan) /\ r.state = "running" /\ Planned(r, m)
    BY <1>1 DEF Calls, JobOK
<1>3. r.at \in DOMAIN Plan /\ (r.at \in Makes <=> Plan[r.at] # "nothing")
    BY <1>2, InstallerConstants DEF Planned, Makes
<1>4. PICK outcome \in Outcomes[Plan[r.at]] : Call(j, outcome)
    BY DEF Calls
<1>5. outcome \in {"ok", "refused", "lost"}
    BY <1>3, <1>4, CallsComeTo, InstallerConstants
<1> DEFINE makes == r.at \in Makes /\ outcome # "refused"
           s == IF outcome = "ok"
                  THEN [(IF r.at \in Makes THEN [r EXCEPT !.inventory = Append(@, r.at)] ELSE r) EXCEPT !.at = r.at + 1]
                  ELSE Failing(r)
           n == IF makes THEN m \cup {r.at} ELSE m
           w == IF makes /\ outcome = "lost" THEN u \cup {r.at} ELSE u
<1>6. /\ Up /\ job' = [job EXCEPT ![j] = s] /\ made' = [made EXCEPT ![j] = n]
      /\ unheard' = [unheard EXCEPT ![j] = w]
      /\ UNCHANGED <<age, store, jar, token, service, awaited, timedOut>>
    <2>1. job' = [job EXCEPT ![j] = s]
        BY <1>3, <1>4 DEF Call, Becomes
    <2>2. made' = [made EXCEPT ![j] = n] /\ unheard' = [unheard EXCEPT ![j] = w]
        BY <1>3, <1>4 DEF Call
    <2>3. QED BY <1>4, <2>1, <2>2 DEF Call
<1>7. n \in SUBSET DOMAIN Plan /\ w \in SUBSET DOMAIN Plan
    BY <1>1, <1>3
<1>8. s \in JobObjects /\ JobOK(s, n, w, t) /\ s.pc \in {"plan", "rollback"} /\ s.state = "running"
    <2>1. CASE outcome = "ok"
        <3> DEFINE base == IF r.at \in Makes THEN [r EXCEPT !.inventory = Append(@, r.at)] ELSE r
        <3>1. s = [base EXCEPT !.at = r.at + 1] /\ n = IF r.at \in Makes THEN m \cup {r.at} ELSE m
            BY <2>1
        <3> HIDE DEF s, n, m
        <3>2. s \in JobObjects /\ Planned(s, IF r.at \in Makes THEN m \cup {r.at} ELSE m)
            BY <1>1, <1>2, <3>1, CallGoes
        <3>3. s.pc = "plan" /\ s.state = "running" /\ s.confirmed = r.confirmed
            BY <1>1, <1>2, <3>1 DEF JobObjects
        <3>4. QED BY <1>1, <3>1, <3>2, <3>3 DEF JobOK
    <2>2. CASE outcome # "ok"
        <3>1. n \subseteq m \cup w /\ s = Failing(r)
            BY <1>5, <2>2
        <3> HIDE DEF s, n, m, w, r
        <3>2. s \in JobObjects /\ RollingBack(s, n, w) /\ s = [r EXCEPT !.pc = "rollback", !.at = Len(r.inventory)]
            BY <1>1, <1>2, <1>7, <3>1, CallFails
        <3>3. s.pc = "rollback" /\ s.state = "running" /\ s.confirmed = r.confirmed
            BY <1>1, <1>2, <3>2 DEF JobObjects
        <3>4. QED BY <1>1, <3>2, <3>3 DEF JobOK
    <2>3. QED BY <2>1, <2>2
<1> HIDE DEF s, n, w
<1>9. MovesTo(j, s, n, w, t)
    BY <1>1, <1>2, <1>6, <1>8 DEF MovesTo
<1>10. QED BY <1>1, <1>7, <1>8, <1>9, RunMoves

\* The end of a plan, and the rollback.
LEMMA RollbackSteps ==
    ASSUME IInv, NEW j \in Jobs, Finish(j) \/ Undoes(j) \/ RolledBack(j)
    PROVE  IInv'
<1> DEFINE r == job[j]  m == made[j]  u == unheard[j]  t == token[j]
<1>1. /\ r \in JobObjects /\ m \in SUBSET DOMAIN Plan /\ u \in SUBSET DOMAIN Plan /\ t \in {"alive", "dead"}
      /\ JobOK(r, m, u, t) /\ made = [made EXCEPT ![j] = m] /\ unheard = [unheard EXCEPT ![j] = u]
      /\ token = [token EXCEPT ![j] = t]
    BY JobFacts
<1> HIDE DEF m, u, t
<1>2. CASE Finish(j)
    <2> DEFINE s == [r EXCEPT !.pc = "cleanup", !.state = "done"]
    <2>1. /\ Up /\ job' = [job EXCEPT ![j] = s] /\ UNCHANGED <<age, store, jar, made, unheard, token, service, awaited, timedOut>>
          /\ r.pc = "plan" /\ r.at > Len(Plan)
        BY <1>2 DEF Finish, Becomes
    <2>2. s \in JobObjects /\ s.pc = "cleanup" /\ s.state = "done" /\ s.confirmed = r.confirmed
        <3>1. s \in JobObjects
            BY <1>1, JobMoves
        <3>2. QED BY <1>1, <3>1 DEF JobObjects
    <2>3. m = Makes
        BY <1>1, <2>1, InstallerConstants DEF JobOK, Planned, Makes
    <2>4. JobOK(s, m, u, t)
        BY <1>1, <2>2, <2>3 DEF JobOK, Named
    <2> HIDE DEF s
    <2>5. /\ made' = [made EXCEPT ![j] = m] /\ unheard' = [unheard EXCEPT ![j] = u] /\ token' = [token EXCEPT ![j] = t]
        BY <1>1, <2>1
    <2>6. MovesTo(j, s, m, u, t)
        BY <2>1, <2>2, <2>5 DEF MovesTo
    <2>7. QED BY <1>1, <2>2, <2>4, <2>6, RunMoves
<1>3. CASE Undoes(j)
    <2> DEFINE entry == r.inventory[r.at]
    <2>1. PICK succeeds \in BOOLEAN, happens \in BOOLEAN : Undo(j, Deletion(succeeds, happens))
        BY <1>3 DEF Undoes
    <2> DEFINE n == LeftAfter(r, m, happens)
               s == UndoneTo(r, succeeds)
    <2>2. Deletion(succeeds, happens).succeeds = succeeds /\ Deletion(succeeds, happens).happens = happens
        BY DEF Deletion
    <2>3. /\ Up /\ job' = [job EXCEPT ![j] = s] /\ made' = [made EXCEPT ![j] = n]
          /\ UNCHANGED <<age, store, jar, unheard, token, service, awaited, timedOut>>
          /\ r.pc = "rollback" /\ r.at > 0 /\ Deletion(succeeds, happens) \in Deletions[Plan[entry]]
        <3>1. /\ Up /\ r.pc = "rollback" /\ r.at > 0 /\ Deletion(succeeds, happens) \in Deletions[Plan[entry]]
              /\ UNCHANGED <<age, store, jar, unheard, token, service, awaited, timedOut>>
            BY <2>1 DEF Undo
        <3>2. made' = [made EXCEPT ![j] = n]
            BY <2>1, <2>2 DEF Undo, m, LeftAfter, GoneWith
        <3>3. job' = [job EXCEPT ![j] = s]
            BY <2>1, <2>2 DEF Undo, Becomes, UndoneTo
        <3>4. QED BY <3>1, <3>2, <3>3
    <2>4. r.state = "running" /\ RollingBack(r, m, u)
        BY <1>1, <2>3 DEF JobOK
    <2>5. s.pc = "rollback" /\ s.state = "running" /\ s.confirmed = r.confirmed
        BY <1>1, <2>3, <2>4 DEF JobObjects, UndoneTo
    <2>6. s \in JobObjects /\ n \in SUBSET DOMAIN Plan /\ RollingBack(s, n, u)
        BY <1>1, <2>3, <2>4, UndoGoes
    <2> HIDE DEF s, n
    <2>7. JobOK(s, n, u, t)
        BY <1>1, <2>5, <2>6 DEF JobOK
    <2>8. unheard' = [unheard EXCEPT ![j] = u] /\ token' = [token EXCEPT ![j] = t]
        BY <1>1, <2>3
    <2>9. MovesTo(j, s, n, u, t)
        BY <2>3, <2>4, <2>5, <2>8 DEF MovesTo
    <2>10. QED BY <1>1, <2>6, <2>7, <2>9, RunMoves
<1>4. CASE RolledBack(j)
    <2> DEFINE named == Stays(r)
               state == IF named = {} THEN "failed" ELSE "manual_cleanup_required"
               s == [r EXCEPT !.pc = "cleanup", !.stranded = named, !.state = state]
    <2>1. /\ Up /\ job' = [job EXCEPT ![j] = s] /\ UNCHANGED <<age, store, jar, made, unheard, token, service, awaited, timedOut>>
          /\ r.pc = "rollback" /\ r.at = 0
        BY <1>4 DEF RolledBack, Becomes, Recorded, Stays
    <2>2. named \in SUBSET DOMAIN Plan /\ m \subseteq named \cup u
        <3>1. RollingBack(r, m, u)
            BY <1>1, <2>1 DEF JobOK
        <3>2. QED BY <1>1, <2>1, <3>1, RollbackEnds
    <2>3. state \in {"failed", "manual_cleanup_required"} /\ (state = "failed" => named = {})
        OBVIOUS
    <2> HIDE DEF named, state
    <2>4. s \in JobObjects
        BY <1>1, <2>2, <2>3, JobMoves, ZenonT(60)
    <2>5. s.pc = "cleanup" /\ s.state = state /\ s.stranded = named /\ s.confirmed = r.confirmed
        BY <1>1 DEF JobObjects
    <2>6. JobOK(s, m, u, t)
        BY <1>1, <2>2, <2>3, <2>5 DEF JobOK, Named
    <2> HIDE DEF s
    <2>7. /\ made' = [made EXCEPT ![j] = m] /\ unheard' = [unheard EXCEPT ![j] = u] /\ token' = [token EXCEPT ![j] = t]
        BY <1>1, <2>1
    <2>8. MovesTo(j, s, m, u, t)
        BY <2>1, <2>3, <2>5, <2>7 DEF MovesTo
    <2>9. QED BY <1>1, <2>4, <2>6, <2>8, RunMoves
<1>5. QED BY <1>2, <1>3, <1>4

\* The token's end.
LEMMA CleanupStep ==
    ASSUME IInv, NEW j \in Jobs, Cleans(j)
    PROVE  IInv'
<1> DEFINE r == job[j]  m == made[j]  u == unheard[j]  t == token[j]
<1>1. /\ r \in JobObjects /\ m \in SUBSET DOMAIN Plan /\ u \in SUBSET DOMAIN Plan /\ t \in {"alive", "dead"}
      /\ JobOK(r, m, u, t) /\ made = [made EXCEPT ![j] = m] /\ unheard = [unheard EXCEPT ![j] = u]
    BY JobFacts
<1>2. PICK end \in Destructions : Cleanup(j, end)
    BY DEF Cleans
<1>3. end.said.deleted \in BOOLEAN /\ end.said.confirmed \in BOOLEAN /\ (end.said.confirmed => end.dies)
    BY ProofsHold
<1> DEFINE over == [r EXCEPT !.pc = "over", !.deleted = end.said.deleted, !.confirmed = end.said.confirmed]
           s == IF j \in store THEN over ELSE Gone
           d == IF end.dies THEN "dead" ELSE t
<1>4. /\ Up /\ job' = [job EXCEPT ![j] = s] /\ token' = [token EXCEPT ![j] = d] /\ r.pc = "cleanup"
      /\ UNCHANGED <<age, store, jar, made, unheard, service, awaited, timedOut>>
    BY <1>2 DEF Cleanup, Becomes
<1>5. /\ over \in JobObjects /\ over.pc = "over" /\ over.state = r.state /\ over.stranded = r.stranded
      /\ over.confirmed = end.said.confirmed
    <2>1. over \in JobObjects
        BY <1>1, <1>3, JobMoves, ZenonT(60)
    <2>2. QED BY <1>1, <2>1 DEF JobObjects
<1>6. d \in {"alive", "dead"} /\ (end.dies => d = "dead")
    BY <1>1
<1>7. r.state \notin {"running", "awaiting_confirmation"} /\ Named(r, m, u)
    BY <1>1, <1>4 DEF JobOK
<1> HIDE DEF over, d
<1>8. s \in JobObjects /\ s.pc = "over" /\ s.state \notin {"running", "awaiting_confirmation"}
    BY <1>5, <1>7, Blank
<1>9. JobOK(s, m, u, d)
    <2>1. CASE j \in store
        BY <1>3, <1>5, <1>6, <1>7, <2>1 DEF JobOK, Named
    <2>2. CASE j \notin store
        BY <2>2, Blank DEF JobOK, Named
    <2>3. QED BY <2>1, <2>2
<1> HIDE DEF s
<1>10. made' = [made EXCEPT ![j] = m] /\ unheard' = [unheard EXCEPT ![j] = u]
    BY <1>1, <1>4
<1> HIDE DEF m, u
<1>11. MovesTo(j, s, m, u, d)
    BY <1>4, <1>8, <1>10 DEF MovesTo
<1>12. QED BY <1>1, <1>6, <1>8, <1>9, <1>11, RunMoves

\* A new attempt: the visitor's earlier one goes, and the ceiling holds.
LEMMA VerifyStep ==
    ASSUME IInv, NEW v \in Visitors, NEW j \in Jobs, Verify(v, j)
    PROVE  IInv'
<1> DEFINE stays == store \ (Previous(v) \cup Swept)
           full == Cardinality(stays \cap Occupied) >= MaxConcurrent
           new  == [NoJob EXCEPT !.pc = "verifying", !.born = age, !.state = "awaiting_confirmation"]
           after(k) == IF k = j /\ ~full THEN new
                       ELSE IF k \in store \ stays /\ job[k].pc = "over" THEN Gone ELSE job[k]
<1> USE DEF IInv
<1>1. /\ service \in {"serving", "closing"} /\ job[j] = NoJob
      /\ store' = (IF full THEN stays ELSE stays \cup {j}) /\ job' = [k \in Jobs |-> after(k)]
      /\ UNCHANGED <<age, jar, made, unheard, token, service, awaited, timedOut>>
    BY DEF Verify
<1>2. stays \subseteq store /\ store \subseteq Jobs /\ IsFiniteSet(store) /\ j \notin store
    BY <1>1 DEF InstallerTypeOK, StoreOK
<1>3. \A k \in store : job[k].state = "running" => k \in stays
    BY DEF Previous, Swept
<1>4. /\ new \in JobObjects /\ new.pc = "verifying" /\ new.state = "awaiting_confirmation"
      /\ new.inventory = <<>> /\ new.stranded = {} /\ ~new.confirmed
    <2>1. age \in Nat
        BY InstallerConstants DEF InstallerTypeOK
    <2>2. NoJob \in JobObjects /\ new \in JobObjects
        BY <2>1, Blank, JobBegins
    <2>3. QED BY <2>2, Blank DEF JobObjects
<1> HIDE DEF stays, full, new
<1>5. \A k \in Jobs : job'[k] = after(k)
    BY <1>1
<1>6. job' \in [Jobs -> JobObjects]
    <2>1. \A k \in Jobs : after(k) \in JobObjects
        BY <1>4, Blank DEF InstallerTypeOK
    <2>2. QED BY <1>1, <2>1
<1>7. JobsOK'
    <2> SUFFICES ASSUME NEW k \in Jobs
                 PROVE  JobOK(job'[k], made[k], unheard[k], token[k])
        BY <1>1 DEF JobsOK
    <2>1. JobOK(job[k], made[k], unheard[k], token[k])
        BY DEF JobsOK
    <2>2. CASE k = j /\ ~full
        <3>1. made[k] = {}
            BY <1>1, <2>1, <2>2, Blank DEF JobOK
        <3>2. job'[k] = new
            BY <1>5, <2>2
        <3>3. QED BY <1>4, <3>1, <3>2 DEF JobOK
    <2>3. CASE ~(k = j /\ ~full) /\ k \in store \ stays /\ job[k].pc = "over"
        <3>1. job'[k] = Gone
            BY <1>5, <2>3
        <3>2. QED BY <3>1, Blank DEF JobOK, Named
    <2>4. CASE ~(k = j /\ ~full) /\ ~(k \in store \ stays /\ job[k].pc = "over")
        <3>1. job'[k] = job[k]
            BY <1>5, <2>4
        <3>2. QED BY <2>1, <3>1
    <2>5. QED BY <2>2, <2>3, <2>4
<1>8. store' \subseteq {k \in Jobs : job'[k] # NoJob}
    <2>1. new # NoJob
        BY <1>4, Blank
    <2>2. store' \subseteq stays \cup {j} /\ (full => store' = stays)
        BY <1>1
    <2>3. ASSUME NEW k \in store'
          PROVE  k \in Jobs /\ job'[k] # NoJob
        BY <1>2, <1>5, <2>1, <2>2 DEF InstallerTypeOK
    <2>4. QED BY <2>3
<1>9. StoreOK'
    <2>1. /\ IsFiniteSet(stays) /\ IsFiniteSet(stays \cup {j}) /\ IsFiniteSet(store')
        BY <1>1, <1>2, FS_Subset, FS_AddElement
    <2>2. Cardinality(Occupied)' <= MaxConcurrent
        <3> DEFINE kept == stays \cap Occupied
        <3>1. /\ IsFiniteSet(kept) /\ IsFiniteSet(Occupied) /\ kept \subseteq Occupied
              /\ Cardinality(kept) \in Nat /\ Cardinality(Occupied) \in Nat
              /\ Cardinality(kept) <= Cardinality(Occupied)
            BY <1>2, FS_Subset, FS_CardinalityType DEF Occupied
        <3>2. CASE full
            <4>1. Occupied' \subseteq kept
                BY <1>1, <1>2, <1>5, <3>2 DEF Occupied
            <4>2. Cardinality(Occupied') <= Cardinality(kept) /\ Cardinality(Occupied') \in Nat
                BY <3>1, <4>1, FS_Subset, FS_CardinalityType
            <4>3. QED BY <3>1, <4>2, InstallerConstants DEF StoreOK
        <3>3. CASE ~full
            <4>1. Occupied' \subseteq kept \cup {j}
                BY <1>1, <1>2, <1>5, <3>3 DEF Occupied
            <4>2. /\ Cardinality(Occupied') <= Cardinality(kept \cup {j}) /\ Cardinality(Occupied') \in Nat
                  /\ Cardinality(kept \cup {j}) \in Nat
                BY <3>1, <4>1, FS_Subset, FS_CardinalityType, FS_AddElement
            <4>3. Cardinality(kept \cup {j}) <= Cardinality(kept) + 1
                BY <3>1, FS_AddElement, SMTT(30)
            <4>4. Cardinality(kept) < MaxConcurrent
                BY <3>1, <3>3, InstallerConstants DEF full
            <4>5. QED BY <3>1, <4>2, <4>3, <4>4, InstallerConstants
        <3>4. QED BY <3>2, <3>3
    <2>3. \A k \in Jobs : job'[k].state = "running" => k \in store'
        <3>1. ASSUME NEW k \in Jobs, job'[k].state = "running"
              PROVE  job[k].state = "running" /\ job'[k] = job[k]
            BY <1>4, <1>5, <3>1, Blank
        <3>2. QED BY <1>1, <1>3, <3>1 DEF StoreOK
    <2>4. service' \notin {"draining", "ended"}
        BY <1>1
    <2>5. QED BY <2>1, <2>2, <2>3, <2>4 DEF StoreOK
<1>10. QED BY <1>1, <1>6, <1>7, <1>8, <1>9 DEF InstallerTypeOK

\* What the process does.
LEMMA ProcessSteps ==
    ASSUME IInv, Signal \/ Drain \/ Ages \/ (\E late \in BOOLEAN : Leave(late)) \/ UNCHANGED installer
    PROVE  IInv'
<1> USE DEF IInv
<1>1. UNCHANGED <<job, store, jar, made, unheard, token>>
    BY DEF Signal, Drain, Ages, Leave, installer
<1>2. JobsOK' /\ IsFiniteSet(store)' /\ (Cardinality(Occupied) <= MaxConcurrent)'
    BY <1>1 DEF JobsOK, StoreOK, Occupied
<1>3. \A j \in Jobs : job'[j].state = "running" => j \in store'
    BY <1>1 DEF StoreOK
<1>4. /\ age' \in 0 .. MaxAge /\ service' \in {"serving", "closing", "draining", "ended"}
      /\ awaited' \subseteq Jobs /\ timedOut' \in BOOLEAN
    <2>1. age' \in 0 .. MaxAge
        BY InstallerConstants DEF Signal, Drain, Ages, Leave, installer, InstallerTypeOK
    <2>2. service' \in {"serving", "closing", "draining", "ended"}
        BY DEF Signal, Drain, Ages, Leave, installer, InstallerTypeOK
    <2>3. awaited' \subseteq Jobs /\ timedOut' \in BOOLEAN
        BY DEF Signal, Drain, Ages, Leave, installer, InstallerTypeOK
    <2>4. QED BY <2>1, <2>2, <2>3
<1>5. InstallerTypeOK'
    BY <1>1, <1>4 DEF InstallerTypeOK
<1>6. service' \in {"draining", "ended"} => \A j \in store' : Started(j)' => job'[j].pc = "over" \/ j \in awaited'
    BY <1>1 DEF Signal, Drain, Ages, Leave, installer, StoreOK, Started, InstallerTypeOK, Up
<1>7. service' = "ended" /\ ~timedOut' => \A j \in store' : Started(j)' => job'[j].pc = "over"
    BY <1>1 DEF Signal, Drain, Ages, Leave, installer, StoreOK, Started, InstallerTypeOK, Up
<1>8. QED BY <1>2, <1>3, <1>5, <1>6, <1>7 DEF StoreOK

\* Every step keeps the invariant.
LEMMA InstallerStep ==
    ASSUME IInv, [InstallerNext]_installer
    PROVE  IInv'
<1>1. ASSUME NEW v \in Visitors, NEW j \in Jobs, Checks(v, j)
      PROVE  Verified(v, j) \/ Rejected(j)
    BY <1>1 DEF Checks
<1>2. ASSUME NEW v \in Visitors, Confirm(v)
      PROVE  jar[v] \in Jobs
    BY <1>2 DEF Confirm, IInv, InstallerTypeOK
<1>3. CASE \E v \in Visitors, j \in Jobs : Verify(v, j) \/ Checks(v, j)
    BY <1>1, <1>3, VerifyStep, RequestSteps
<1>4. CASE \E j \in Jobs : Runs(j)
    BY <1>4, CallStep, RollbackSteps, CleanupStep DEF Runs
<1>5. CASE \E v \in Visitors : Confirm(v)
    BY <1>2, <1>5, RequestSteps
<1>6. CASE Signal \/ Drain \/ Ages \/ (\E late \in BOOLEAN : Leave(late)) \/ UNCHANGED installer
    BY <1>6, ProcessSteps
<1>7. QED BY <1>3, <1>4, <1>5, <1>6 DEF InstallerNext

\* The invariant holds at the start, and says what RunsEndClean does.
LEMMA InstallerStarts == InstallerInit => IInv
<1> SUFFICES ASSUME InstallerInit PROVE IInv
    OBVIOUS
<1>1. job = [j \in Jobs |-> NoJob] /\ made = [j \in Jobs |-> {}] /\ unheard = [j \in Jobs |-> {}] /\ store = {}
    BY DEF InstallerInit
<1>2. InstallerTypeOK
    <2>1. NoJob \in JobObjects /\ 0 \in 0 .. MaxAge
        BY Blank, InstallerConstants
    <2>2. job \in [Jobs -> JobObjects]
        BY <1>1, <2>1
    <2>3. {made, unheard} \subseteq [Jobs -> SUBSET DOMAIN Plan]
        BY <1>1
    <2>4. QED BY <1>1, <2>1, <2>2, <2>3 DEF InstallerInit, InstallerTypeOK
<1>3. JobsOK
    BY <1>1, Blank DEF JobsOK, JobOK
<1>4. Occupied = {} /\ IsFiniteSet(store) /\ Cardinality(Occupied) = 0
    BY <1>1, FS_EmptySet DEF Occupied
<1>5. StoreOK
    BY <1>1, <1>4, Blank, InstallerConstants DEF InstallerInit, StoreOK
<1>6. QED BY <1>2, <1>3, <1>5 DEF IInv

\* The map never holds more runs and reservations than the ceiling, a running job
\* is in it, a drain that did not give up left none half done; what a run leaves at
\* the providers is named to the visitor unless nothing ever told the installer it
\* was made, and a token is said to be gone only when it is (provision.mjs).
THEOREM InstallsEndClean == InstallerSpec => []RunsEndClean
<1>1. InstallerInit => IInv
    BY InstallerStarts
<1>2. IInv /\ [InstallerNext]_installer => IInv'
    BY InstallerStep
<1>3. IInv => RunsEndClean
    <2> SUFFICES ASSUME IInv PROVE RunsEndClean
        OBVIOUS
    <2>1. LeftoversAreNamed
        BY DEF IInv, JobsOK, JobOK, Named, Makes, LeftoversAreNamed
    <2>2. TokensAreProved
        BY DEF IInv, JobsOK, JobOK, TokensAreProved
    <2>3. RunsAreCounted
        BY DEF IInv, StoreOK, RunsAreCounted
    <2>4. QED BY <2>1, <2>2, <2>3 DEF RunsEndClean
<1>4. QED BY <1>1, <1>2, <1>3, PTL DEF InstallerSpec

-----------------------------------------------------------------------------
(* The plan of an install.                                                 *)

\* Anything typed into a form, and any records asked for in any zone.
Labels == Plain \cup {Underscored, "www"} \cup Broken
Names == Seq(Labels) \ {<<>>}
AnyForm ==
    [of : {"hosts"}, panel : Seq(Labels), redirect : Seq(Labels)] \cup
    [of : {"owner"}, kept : Nat, dropped : Nat, password : Nat,
     locale : {"en", "pt-BR", "fr"}, timezone : {"known", "unknown", "malformed"}] \cup
    [of : {"records"}, asked : Seq(Names), zone : SUBSET Names]

\* A host strictly under the apex ends in it.
LEMMA UnderApex ==
    ASSUME NEW host \in Seq(Labels)
    PROVE  IsStrictSuffix(Apex, host) <=>
              Len(host) > 2 /\ host[Len(host) - 1] = "acme" /\ host[Len(host)] = "com"
<1>1. Apex = <<"acme", "com">> /\ Len(Apex) = 2 /\ Apex[1] = "acme" /\ Apex[2] = "com"
    BY DEF Apex
<1> DEFINE r == Reverse(host)
           a == Reverse(Apex)
           n == Len(host)
<1>2. n \in Nat /\ Len(r) = n /\ \A i \in 1..n : r[i] = host[n - i + 1]
    BY DEF Reverse
<1>3. Len(a) = 2 /\ a[1] = "com" /\ a[2] = "acme"
    BY <1>1 DEF Reverse
<1>4. r \in Seq(Labels) /\ a \in Seq({"com", "acme"})
    BY <1>1 DEF Reverse
<1>5. IsStrictSuffix(Apex, host) <=> 2 <= n /\ SubSeq(a, 1, 2) = SubSeq(r, 1, 2) /\ Apex # host
    BY <1>2, <1>3 DEF IsStrictSuffix, IsSuffix, IsPrefix
<1> HIDE DEF r, a, n
<1>6. ASSUME 2 <= n
      PROVE  SubSeq(a, 1, 2) = SubSeq(r, 1, 2) <=> r[1] = "com" /\ r[2] = "acme"
    <2>1. /\ SubSeq(a, 1, 2) = [i \in 1..2 |-> a[i]]
          /\ SubSeq(r, 1, 2) = [i \in 1..2 |-> r[i]]
        BY <1>2, <1>3, <1>4, <1>6
    <2>2. (\A i \in 1..2 : a[i] = r[i]) <=> a[1] = r[1] /\ a[2] = r[2]
        OBVIOUS
    <2>3. QED BY <1>3, <2>1, <2>2
<1>7. ASSUME 2 <= n PROVE r[1] = host[n] /\ r[2] = host[n - 1]
    BY <1>2, <1>7
<1>8. ASSUME n = 2, host[1] = "acme", host[2] = "com" PROVE host = Apex
    BY <1>1, <1>8 DEF n
<1>9. ASSUME host = Apex PROVE n = 2
    BY <1>1, <1>9 DEF n
<1>10. QED BY <1>2, <1>5, <1>6, <1>7, <1>8, <1>9, SMTT(30) DEF n

\* What is typed, as a host.
LEMMA WholeIs ==
    ASSUME NEW typed \in Seq(Labels)
    PROVE  Whole(typed, Apex) \in Seq(Labels)
<1>1. Apex \in Seq(Labels)
    BY PlanConstants DEF Apex, Labels
<1>2. QED BY <1>1 DEF Whole

\* A host that is agreed to lies under the apex and is not the visitor's site.
LEMMA HostIsSafe ==
    ASSUME NEW typed \in Seq(Labels), ResolvesHost(typed, Apex)
    PROVE  LET host == Whole(typed, Apex) IN
           /\ Len(host) > Len(Apex) /\ SubSeq(host, Len(host) - 1, Len(host)) = Apex
           /\ host # <<"www">> \o Apex /\ \A i \in DOMAIN host : host[i] \in Plain
<1> DEFINE host == Whole(typed, Apex)
           n == Len(host)
<1>1. host \in Seq(Labels)
    BY WholeIs
<1>2. Hostname(host) /\ IsStrictSuffix(Apex, host) /\ host # <<"www">> \o Apex
    BY DEF ResolvesHost, Creatable
<1> HIDE DEF host
<1>3. n > 2 /\ host[n - 1] = "acme" /\ host[n] = "com"
    BY <1>1, <1>2, UnderApex
<1>4. Len(Apex) = 2 /\ Apex = <<"acme", "com">>
    BY DEF Apex
<1>5. SubSeq(host, n - 1, n) = <<"acme", "com">>
    <2>1. n \in Nat
        BY <1>1
    <2> HIDE DEF n
    <2>2. SubSeq(host, n - 1, n) = [i \in 1..2 |-> host[(n - 1) + i - 1]]
        BY <1>1, <1>3, <2>1 DEF n
    <2>3. (n - 1) + 1 - 1 = n - 1 /\ (n - 1) + 2 - 1 = n
        BY <2>1
    <2> DEFINE t == <<"acme", "com">>
    <2>4. t[1] = "acme" /\ t[2] = "com" /\ t = [i \in 1..2 |-> t[i]]
        OBVIOUS
    <2> HIDE DEF t
    <2>5. \A i \in 1..2 : host[(n - 1) + i - 1] = t[i]
        <3>1. \A i \in 1..2 : i = 1 \/ i = 2
            OBVIOUS
        <3>2. host[(n - 1) + 1 - 1] = t[1] /\ host[(n - 1) + 2 - 1] = t[2]
            BY <1>3, <2>3, <2>4 DEF n
        <3>3. QED BY <3>1, <3>2
    <2>6. SubSeq(host, n - 1, n) = t
        BY <2>2, <2>4, <2>5
    <2>7. QED BY <2>6 DEF t
<1>6. QED BY <1>2, <1>3, <1>4, <1>5 DEF Hostname, host

\* A label before two.
LEMMA LabelBefore ==
    ASSUME NEW x, NEW y, NEW z
    PROVE  <<x>> \o <<y, z>> = <<x, y, z>> /\ Len(<<x>>) = 1
<1> DEFINE S == {x, y, z}
           s == <<x>> \o <<y, z>>
           t == <<x, y, z>>
<1>1. <<x>> \in Seq(S) /\ <<y, z>> \in Seq(S) /\ t \in Seq(S) /\ Len(<<x>>) = 1 /\ Len(<<y, z>>) = 2 /\ Len(t) = 3
    OBVIOUS
<1>2. s \in Seq(S) /\ Len(s) = 3
    BY <1>1
<1>3. s[1] = x /\ s[2] = y /\ s[3] = z
    BY <1>1
<1>4. t[1] = x /\ t[2] = y /\ t[3] = z
    OBVIOUS
<1> HIDE DEF s, t, S
<1>5. \A i \in 1..3 : s[i] = t[i]
    <2>1. \A i \in 1..3 : i = 1 \/ i = 2 \/ i = 3
        OBVIOUS
    <2>2. QED BY <1>3, <1>4, <2>1
<1>6. s = [i \in 1..3 |-> s[i]] /\ t = [i \in 1..3 |-> t[i]]
    BY <1>1, <1>2
<1>7. s = t
    BY <1>5, <1>6
<1>8. QED BY <1>1, <1>7 DEF s, t

\* A bare label of a hostname is agreed to.
LEMMA LabelIsTaken ==
    ASSUME NEW label \in Plain, label # "www"
    PROVE  HostsTaken(<<label>>, <<>>, Apex)
<1> DEFINE host == <<label, "acme", "com">>
<1>1. Whole(<<label>>, Apex) = host /\ <<"www">> \o Apex = <<"www", "acme", "com">>
    <2>1. Len(<<label>>) = 1 /\ <<label>> \o <<"acme", "com">> = host
        BY LabelBefore
    <2>2. <<"www">> \o <<"acme", "com">> = <<"www", "acme", "com">>
        BY LabelBefore
    <2> HIDE DEF host
    <2>3. QED BY <2>1, <2>2 DEF Whole, Apex
<1>2. host \in Seq(Labels) /\ Len(host) = 3 /\ host[1] = label /\ host[2] = "acme" /\ host[3] = "com"
    BY PlanConstants DEF Labels
<1>3. IsStrictSuffix(Apex, host)
    <2> HIDE DEF host
    <2>1. Len(host) - 1 = 2 /\ Len(host) > 2
        BY <1>2
    <2>2. host[Len(host) - 1] = "acme" /\ host[Len(host)] = "com"
        BY <1>2, <2>1
    <2>3. QED BY <1>2, <2>1, <2>2, UnderApex
<1>4. host # <<"www", "acme", "com">>
    OBVIOUS
<1>5. Len(Apex) = 2
    BY DEF Apex
<1> HIDE DEF host
<1>6. Creatable(host, Apex)
    BY <1>1, <1>2, <1>3, <1>4, <1>5 DEF Creatable
<1>7. Hostname(host)
    <2>1. DOMAIN host = 1..3
        BY <1>2
    <2>2. QED BY <1>2, <2>1, PlanConstants DEF Hostname
<1>8. QED BY <1>1, <1>6, <1>7 DEF HostsTaken, ResolvesHost

\* A record is created where nothing is.
LEMMA CreatesRecord ==
    ASSUME NEW existing
    PROVE  CreateRecord(Found, existing, Found) = "ok" <=> existing = {}
<1>1. Request(Found) = "ok" /\ Found # Mute /\ Found.success
    BY DEF Request, Found, Said, Mute
<1>2. CASE existing = {}
    BY <1>1, <1>2 DEF CreateRecord
<1>3. CASE existing # {}
    BY <1>1, <1>3 DEF CreateRecord
<1>4. QED BY <1>2, <1>3

\* What is refused.
LEMMA RefusedIs ==
    ASSUME NEW asked, NEW zone, NEW i \in Nat
    PROVE  Refused(asked, zone, i) <=>
              ~Creatable(Bare(asked[i]), Apex) \/ asked[i] \in zone \/ \E j \in 1..(i - 1) : asked[j] = asked[i]
<1> DEFINE there == zone \cup {asked[j] : j \in 1..(i - 1)}
<1>1. {n \in there : n = asked[i]} = {} <=> asked[i] \notin there
    OBVIOUS
<1>2. CreateRecord(Found, {n \in there : n = asked[i]}, Found) # "ok" <=> asked[i] \in there
    <2> DEFINE E == {n \in there : n = asked[i]}
    <2>1. E = {} <=> asked[i] \notin there
        BY <1>1
    <2> HIDE DEF E, there
    <2>2. CreateRecord(Found, E, Found) = "ok" <=> E = {}
        BY CreatesRecord
    <2>3. QED BY <2>1, <2>2 DEF E
<1>3. Refused(asked, zone, i) <=> ~Creatable(Bare(asked[i]), Apex) \/ asked[i] \in there
    BY <1>2 DEF Refused
<1>4. QED BY <1>3

\* The run writes what comes before the first that is refused.
LEMMA RunIs ==
    ASSUME NEW asked \in Seq(Names), NEW zone
    PROVE  \E n \in 0..Len(asked) :
              /\ RunDns(asked, zone) = [written |-> SubSeq(asked, 1, n), failed |-> n < Len(asked)]
              /\ \A i \in 1..n : ~Refused(asked, zone, i)
              /\ n = Len(asked) \/ Refused(asked, zone, n + 1)
<1> DEFINE N == Len(asked)
           Ends == {n \in 0..N : n = N \/ Refused(asked, zone, n + 1)}
           Stop(n) == /\ \A i \in 1..n : ~Refused(asked, zone, i)
                      /\ n = N \/ Refused(asked, zone, n + 1)
           stop == CHOOSE n \in 0..N : Stop(n)
<1>1. N \in Nat /\ N \in Ends /\ Ends \in SUBSET Nat
    OBVIOUS
<1>2. PICK n \in Ends : \A m \in Ends : n <= m
    BY <1>1, LeastOf
<1>3. n \in 0..N /\ Stop(n)
    <2>1. ASSUME NEW i \in 1..n PROVE ~Refused(asked, zone, i)
        <3>1. i - 1 \in 0..N /\ i - 1 < n /\ (i - 1) + 1 = i
            BY <1>1
        <3>2. i - 1 \notin Ends
            <4> SUFFICES ASSUME i - 1 \in Ends PROVE FALSE
                OBVIOUS
            <4>1. n <= i - 1
                BY <1>2
            <4>2. n \in Nat
                BY <1>1, <1>2
            <4> HIDE DEF Ends
            <4>3. QED BY <3>1, <4>1, <4>2
        <3>3. QED BY <3>1, <3>2
    <2>2. QED BY <2>1
<1>4. stop \in 0..N /\ Stop(stop)
    <2> HIDE DEF Stop
    <2>1. QED BY <1>3
<1>5. RunDns(asked, zone) = [written |-> SubSeq(asked, 1, stop), failed |-> stop < N]
    BY DEF RunDns
<1> HIDE DEF stop
<1>6. QED BY <1>4, <1>5

\* What the proof of a name begins with is no part of the name.
LEMMA BareIs ==
    ASSUME NEW name \in Seq(Labels), name # <<>>
    PROVE  /\ Bare(<<Underscored>> \o name) = name
           /\ name[1] # Underscored => Bare(name) = name
<1>1. Head(<<Underscored>> \o name) = Underscored
    BY DEF Labels
<1>2. Tail(<<Underscored>> \o name) = name
    <2> DEFINE s == <<Underscored>> \o name
               n == Len(name)
    <2>1. Underscored \in Labels
        BY DEF Labels
    <2> HIDE DEF s
    <2>2. s \in Seq(Labels) /\ Len(s) = n + 1 /\ n \in Nat /\ \A i \in 1..n : s[i + 1] = name[i]
        BY <2>1 DEF s
    <2>3. Tail(s) \in Seq(Labels) /\ Len(Tail(s)) = n /\ \A i \in 1..n : Tail(s)[i] = s[i + 1]
        BY <2>2
    <2>4. \A i \in 1..n : Tail(s)[i] = name[i]
        BY <2>2, <2>3
    <2> DEFINE t == Tail(s)
    <2>5. t \in Seq(Labels) /\ Len(t) = n
        BY <2>3
    <2> HIDE DEF t
    <2>51. t = [i \in 1..n |-> t[i]]
        BY <2>5
    <2>52. name = [i \in 1..n |-> name[i]]
        OBVIOUS
    <2>6. t = name
        BY <2>4, <2>51, <2>52 DEF t
    <2>7. QED BY <2>6 DEF s, t
<1>3. Head(name) = name[1]
    OBVIOUS
<1>4. QED BY <1>1, <1>2, <1>3 DEF Bare

\* The apex, its www and the proof of the apex are refused.
LEMMA ApexIsRefused ==
    ASSUME NEW name \in {Apex, <<"www">> \o Apex, <<Underscored>> \o Apex}
    PROVE  ~Creatable(Bare(name), Apex)
<1>1. Apex \in Seq(Labels) /\ Apex # <<>> /\ Apex[1] = "acme"
    BY PlanConstants DEF Apex, Labels
<1>2. "acme" # Underscored /\ "www" # Underscored
    BY DEF Underscored
<1>3. ~Creatable(Apex, Apex)
    BY DEF Creatable, IsStrictSuffix
<1>4. CASE name = Apex
    BY <1>1, <1>2, <1>3, <1>4, BareIs
<1>5. CASE name = <<Underscored>> \o Apex
    BY <1>1, <1>3, <1>5, BareIs
<1>6. CASE name = <<"www">> \o Apex
    <2>1. name = <<"www", "acme", "com">>
        BY <1>6, LabelBefore DEF Apex
    <2>2. name \in Seq(Labels) /\ name # <<>> /\ name[1] = "www"
        BY <2>1, PlanConstants DEF Labels
    <2>3. Bare(name) = name
        BY <1>2, <2>2, BareIs
    <2>4. QED BY <1>6, <2>3 DEF Creatable
<1>7. QED BY <1>4, <1>5, <1>6

\* What the visitor was shown is not.
LEMMA ShownIsCreatable ==
    ASSUME NEW name \in PlannedRecords(Under)
    PROVE  Creatable(Bare(name), Apex)
<1>1. ASSUME NEW label \in {"panel", "go"}
      PROVE  LET host == <<label>> \o Apex IN
             /\ Creatable(host, Apex) /\ Bare(host) = host /\ Bare(<<Underscored>> \o host) = host
    <2> DEFINE host == <<label, "acme", "com">>
    <2>1. <<label>> \o Apex = host /\ Len(<<label>>) = 1
        BY LabelBefore DEF Apex
    <2>2. label \in Plain /\ label # "www" /\ label # Underscored
        BY PlanConstants DEF Underscored
    <2>3. HostsTaken(<<label>>, <<>>, Apex)
        BY <2>2, LabelIsTaken
    <2>4. Creatable(<<label>> \o Apex, Apex)
        BY <2>1, <2>3 DEF HostsTaken, ResolvesHost, Whole
    <2>5. host \in Seq(Labels) /\ host # <<>> /\ host[1] = label
        BY <2>2, PlanConstants DEF Labels
    <2> HIDE DEF host
    <2>6. Bare(host) = host /\ Bare(<<Underscored>> \o host) = host
        BY <2>2, <2>5, BareIs
    <2>7. QED BY <2>1, <2>4, <2>6
<1>2. PICK label \in {"panel", "go"} :
        name = <<label>> \o Apex \/ name = <<Underscored>> \o (<<label>> \o Apex)
    BY DEF PlannedRecords, Under
<1>3. QED BY <1>1, <1>2

\* Records are new, whatever is asked for and whatever is there.
LEMMA RecordsAreAlwaysNew ==
    ASSUME NEW asked \in Seq(Names), NEW zone \in SUBSET Names
    PROVE  LET run == RunDns(asked, zone)
               written == Range(run.written)
               shown == PlannedRecords(Under)
           IN  /\ \A name \in written : IsStrictSuffix(Apex, Bare(name))
               /\ written \cap (zone \cup {Apex, <<"www">> \o Apex, <<Underscored>> \o Apex}) = {}
               /\ Cardinality(written) = Len(run.written)
               /\ Range(asked) \subseteq shown => written \subseteq shown
               /\ /\ Range(asked) \subseteq shown \ zone
                  /\ Cardinality(Range(asked)) = Len(asked)
                  => run.written = asked /\ ~run.failed
<1>1. PICK n \in 0..Len(asked) :
         /\ RunDns(asked, zone) = [written |-> SubSeq(asked, 1, n), failed |-> n < Len(asked)]
         /\ \A i \in 1..n : ~Refused(asked, zone, i)
         /\ n = Len(asked) \/ Refused(asked, zone, n + 1)
    BY RunIs
<1> DEFINE run == RunDns(asked, zone)
           w == SubSeq(asked, 1, n)
           N == Len(asked)
           shown == PlannedRecords(Under)
           bad == {Apex, <<"www">> \o Apex, <<Underscored>> \o Apex}
<1>2. N \in Nat /\ n \in Nat /\ n <= N /\ asked \in [1..N -> Names]
    OBVIOUS
<1>3. run.written = w /\ (run.failed <=> n < N)
    <2> DEFINE f == n < N
               r == [written |-> w, failed |-> f]
    <2>1. run = r
        BY <1>1
    <2> HIDE DEF w, f
    <2>2. r.written = w /\ r.failed = f
        BY Zenon
    <2> HIDE DEF run, r
    <2>3. run.written = w /\ run.failed = f
        BY <2>1, <2>2
    <2>4. QED BY <2>3 DEF f
<1>4. w \in Seq(Names) /\ Len(w) = n /\ \A i \in 1..n : w[i] = asked[i]
    BY <1>2
<1>5. \A i \in 1..N : asked[i] \in Range(asked)
    BY <1>2 DEF Range
<1>6. \A x : x \in Range(w) <=> \E i \in 1..n : x = asked[i]
    <2>1. DOMAIN w = 1..n
        BY <1>4
    <2> HIDE DEF w
    <2>2. QED BY <1>4, <2>1 DEF Range
<1> HIDE DEF run, w, N, shown
<1>7. \A i \in 1..n : /\ Creatable(Bare(asked[i]), Apex) /\ asked[i] \notin zone
                      /\ \A j \in 1..(i - 1) : asked[j] # asked[i]
    BY <1>1, <1>2, RefusedIs
<1>8. Range(w) \cap (zone \cup bad) = {}
    <2>1. \A i \in 1..n : asked[i] \notin bad
        BY <1>7, ApexIsRefused
    <2> HIDE DEF bad
    <2>2. QED BY <1>6, <1>7, <2>1
<1>9. Cardinality(Range(w)) = n
    <2>1. IsFiniteSet(1..n) /\ Cardinality(1..n) = n
        BY <1>2, FS_Interval
    <2>2. \A i, j \in 1..n : i # j => w[i] # w[j]
        <3> SUFFICES ASSUME NEW i \in 1..n, NEW j \in 1..n, i < j PROVE w[i] # w[j]
            BY <1>2
        <3>1. i \in 1..(j - 1)
            BY <1>2
        <3>2. QED BY <1>4, <1>7, <3>1
    <2>3. w \in [1..n -> Range(w)]
        BY <1>4 DEF Range
    <2>4. w \in Surjection(1..n, Range(w))
        BY <1>4, <2>3 DEF Surjection, Range
    <2>5. w \in Injection(1..n, Range(w))
        BY <2>2, <2>3 DEF Injection, IsInjective
    <2>6. QED BY <2>1, <2>4, <2>5, FS_Surjection
<1>10. Range(asked) \subseteq shown => Range(w) \subseteq shown
    BY <1>2, <1>5, <1>6
<1>11. ASSUME Range(asked) \subseteq shown \ zone, Cardinality(Range(asked)) = N
       PROVE  n = N
    <2>1. IsFiniteSet(1..N) /\ Cardinality(1..N) = N
        BY <1>2, FS_Interval
    <2>2. asked \in [1..N -> Range(asked)]
        BY <1>2 DEF Range
    <2>3. asked \in Surjection(1..N, Range(asked))
        BY <1>2, <2>2 DEF Surjection, Range
    <2>4. asked \in Injection(1..N, Range(asked))
        BY <1>11, <2>1, <2>3, FS_Surjection
    <2>5. SUFFICES ASSUME n # N PROVE FALSE
        OBVIOUS
    <2>6. n + 1 \in 1..N /\ n + 1 \in Nat
        BY <1>2, <2>5
    <2>7. asked[n + 1] \in shown /\ asked[n + 1] \notin zone
        BY <1>5, <1>11, <2>6
    <2>8. Creatable(Bare(asked[n + 1]), Apex)
        BY <2>7, ShownIsCreatable DEF shown
    <2>9. \A j \in 1..((n + 1) - 1) : asked[j] # asked[n + 1]
        <3> SUFFICES ASSUME NEW j \in 1..((n + 1) - 1) PROVE asked[j] # asked[n + 1]
            OBVIOUS
        <3>1. j \in 1..N /\ j # n + 1
            BY <1>2, <2>6
        <3>2. QED BY <1>2, <2>2, <2>4, <2>6, <3>1 DEF Injection, IsInjective
    <2>10. ~Refused(asked, zone, n + 1)
        BY <2>6, <2>7, <2>8, <2>9, RefusedIs
    <2>11. QED BY <1>1, <2>5, <2>10 DEF N
<1>12. n = N => w = asked
    BY <1>2 DEF w, N
<1>16. \A x \in Range(w) : IsStrictSuffix(Apex, Bare(x))
    <2>1. \A i \in 1..n : IsStrictSuffix(Apex, Bare(asked[i]))
        BY <1>7 DEF Creatable
    <2>2. QED BY <1>6, <2>1
<1>13. /\ \A x \in Range(run.written) : IsStrictSuffix(Apex, Bare(x))
       /\ Range(run.written) \cap (zone \cup bad) = {}
       /\ Cardinality(Range(run.written)) = Len(run.written)
       /\ Range(asked) \subseteq shown => Range(run.written) \subseteq shown
    BY <1>3, <1>4, <1>8, <1>9, <1>10, <1>16
<1>14. ASSUME Range(asked) \subseteq shown \ zone, Cardinality(Range(asked)) = N
       PROVE  run.written = asked /\ ~run.failed
    <2>1. n = N
        BY <1>11, <1>14
    <2>2. ~(n < N)
        BY <1>2, <2>1
    <2>3. QED BY <1>3, <1>12, <2>1, <2>2
<1>15. QED BY <1>13, <1>14 DEF run, shown, N

\* Of anything typed, any owner, any records asked for in any zone: what is agreed
\* to is safe.
THEOREM PlanIsAlwaysSafe == form \in AnyForm => PlanIsSafe
<1> SUFFICES ASSUME form \in AnyForm PROVE PlanIsSafe
    OBVIOUS
<1>1. HostsAreSafe
    <2> SUFFICES ASSUME form.of = "hosts"
                 PROVE  /\ HostsTaken(form.panel, form.redirect, Apex) =>
                              \A typed \in {form.panel, form.redirect} \ {<<>>} :
                                  LET host == Whole(typed, Apex) IN
                                  /\ Len(host) > Len(Apex) /\ SubSeq(host, Len(host) - 1, Len(host)) = Apex
                                  /\ host # <<"www">> \o Apex /\ \A i \in DOMAIN host : host[i] \in Plain
                        /\ form.panel \in {<<label>> : label \in Plain \ {"www"}} /\ form.redirect = <<>> =>
                              HostsTaken(form.panel, form.redirect, Apex)
        BY DEF HostsAreSafe
    <2>1. form.panel \in Seq(Labels) /\ form.redirect \in Seq(Labels)
        BY DEF AnyForm
    <2>2. ASSUME HostsTaken(form.panel, form.redirect, Apex), NEW typed \in {form.panel, form.redirect} \ {<<>>}
          PROVE  typed \in Seq(Labels) /\ ResolvesHost(typed, Apex)
        BY <2>1, <2>2 DEF HostsTaken
    <2>3. QED BY <2>2, HostIsSafe, LabelIsTaken
<1>2. OwnerIsTaken
    <2> SUFFICES ASSUME form.of = "owner", InstallerTakes(form), form.timezone # "unknown", Username(form) # 1
                 PROVE  PanelTakes(form)
        BY DEF OwnerIsTaken
    <2>1. /\ form.kept \in Nat /\ form.dropped \in Nat
          /\ form.timezone \in {"known", "unknown", "malformed"}
        BY DEF AnyForm
    <2>2. form.timezone = "known" /\ form.password \in 12..200
        BY <2>1 DEF InstallerTakes
    <2>3. Username(form) \in 2..40
        BY <2>1 DEF InstallerTakes, Username
    <2>4. QED BY <2>2, <2>3 DEF PanelTakes
<1>3. RecordsAreNew
    <2>1. CASE form.of = "records"
        <3> DEFINE asked == form.asked
                   zone == form.zone
        <3>1. asked \in Seq(Names) /\ zone \in SUBSET Names
            BY <2>1 DEF AnyForm
        <3> HIDE DEF asked, zone
        <3>2. QED BY <3>1, RecordsAreAlwaysNew DEF RecordsAreNew, asked, zone
    <2>2. QED BY <2>1 DEF RecordsAreNew
<1>4. QED BY <1>1, <1>2, <1>3 DEF PlanIsSafe

-----------------------------------------------------------------------------
(* The doctor.                                                             *)

\* Any installation there may be: any releases, any days, any hours of a clock.
CheckNames == {"migrations", "clock", "subdomains", "partitions", "retention"}
AnyHost == [on : BOOLEAN, recorded : BOOLEAN, records : SUBSET {"CNAME", "A", "AAAA"}, listens : BOOLEAN,
            trusted : BOOLEAN, days : Int, edge : {"200", "302", "none"},
            settles : [1..3 -> {"CNAME", "A", "AAAA"}]]
AnyPatient == [of : {"doctor"}, url : {"none", "garbage", "bare", "require", "prefer"}, server : {"plain", "tls", "both"},
               trouble : {"none"} \cup Troubles, throws : SUBSET CheckNames, migrated : BOOLEAN,
               ledger : SUBSET Releases, disk : SUBSET Releases, clock : [before : Int, db : Int, after : Int],
               host : AnyHost, partitions : SUBSET Nat, caught : SUBSET Nat, window : Nat]

\* Do all of these pass?
Passing(findings) == \A f \in findings : f.ok

\* A finding passes or fails as it was made.
LEMMA FindingIs ==
    ASSUME NEW check, NEW ok \in BOOLEAN, NEW next
    PROVE  Passing({Finding(check, ok, next)}) <=> ok
BY DEF Passing, Finding

\* A check that throws does not pass.
LEMMA GuardIs ==
    ASSUME NEW p, NEW check, NEW findings
    PROVE  Passing(Guard(p, check, findings)) <=> check \notin p.throws /\ Passing(findings)
<1>1. CASE check \in p.throws
    BY <1>1, FindingIs DEF Guard
<1>2. CASE check \notin p.throws
    BY <1>2 DEF Guard
<1>3. QED BY <1>1, <1>2

\* The database passes when the services reach it, unless the URL is "prefer".
LEMMA DatabaseIs ==
    ASSUME NEW p, p.url \in {"bare", "require"}
    PROVE  Passing({CheckDatabase(p)}) <=> Reaches(p, DriverTls(p.url))
<1> DEFINE reached == Reaches(p, WantsTls(p.url))
<1>1. reached \in BOOLEAN /\ (reached <=> Reaches(p, DriverTls(p.url)))
    BY DEF WantsTls, DriverTls, Reaches
<1> HIDE DEF reached
<1>2. Passing({CheckDatabase(p)}) <=> reached
    BY <1>1, FindingIs DEF CheckDatabase, reached
<1>3. QED BY <1>1, <1>2

\* The schema and the clock.
LEMMA SchemaIs ==
    ASSUME NEW p \in AnyPatient
    PROVE  Passing({CheckMigrations(p)}) <=> p.migrated /\ p.ledger = p.disk
<1> DEFINE behind == ~p.migrated \/ ~(p.disk \subseteq p.ledger)
           ok == ~behind /\ p.ledger = p.disk
           next == IF behind THEN "migrate" ELSE "deploy"
<1>1. ok \in BOOLEAN
    OBVIOUS
<1>2. CheckMigrations(p) = Finding("migrations", ok, next)
    BY DEF CheckMigrations
<1>3. ok <=> p.migrated /\ p.ledger = p.disk
    BY DEF AnyPatient
<1> HIDE DEF ok, next
<1>4. Passing({CheckMigrations(p)}) <=> ok
    BY <1>1, <1>2, FindingIs
<1>5. QED BY <1>3, <1>4

LEMMA ClockIs ==
    ASSUME NEW p \in AnyPatient
    PROVE  Passing({CheckClock(p)}) <=> 2 * p.clock.db - p.clock.before - p.clock.after \in -2 * Tolerance .. 2 * Tolerance
<1> DEFINE twice == 2 * p.clock.db - p.clock.before - p.clock.after
           ok == twice <= 2 * Tolerance /\ -twice <= 2 * Tolerance
<1>1. ok \in BOOLEAN /\ CheckClock(p) = Finding("clock", ok, "ntp")
    BY DEF CheckClock
<1>2. twice \in Int /\ Tolerance \in Nat
    BY DoctorConstants DEF AnyPatient
<1>3. ok <=> twice \in -2 * Tolerance .. 2 * Tolerance
    <2> HIDE DEF twice
    <2>1. QED BY <1>2
<1> HIDE DEF ok
<1>4. Passing({CheckClock(p)}) <=> ok
    BY <1>1, FindingIs
<1>5. QED BY <1>3, <1>4

\* The host.
LEMMA HostIs ==
    ASSUME NEW p \in AnyPatient
    PROVE  Passing(CheckSubdomains(p)) <=>
              (p.host.on => p.host.records # {} /\ Answer(p.host) = "200" /\ p.host.days > 6)
<1> DEFINE h == p.host
           named == h.records # {}
           valid == Connects(h) /\ h.trusted /\ h.days >= 7
           healthy == Answer(h) = "200"
           Why == IF h.recorded THEN "create record" ELSE "provision"
           Fix == IF ~Connects(h) THEN "start tls" ELSE IF ~h.trusted \/ h.days < 0 THEN "reissue" ELSE "renew"
<1>1. h \in AnyHost
    BY DEF AnyPatient
<1> HIDE DEF h
<1>2. named \in BOOLEAN /\ valid \in BOOLEAN /\ healthy \in BOOLEAN
    BY <1>1 DEF AnyHost, Connects
<1>3. CheckSubdomain(h) = {Finding("dns", named, Why), Finding("certificate", valid, Fix), Finding("health", healthy, "read logs")}
    BY DEF CheckSubdomain, CheckCertificate
<1>4. (named /\ valid /\ healthy) <=> (h.records # {} /\ Answer(h) = "200" /\ h.days > 6)
    BY <1>1 DEF AnyHost, Answer, Connects
<1> HIDE DEF named, valid, healthy, Why, Fix
<1>5. Passing(CheckSubdomain(h)) <=> named /\ valid /\ healthy
    <2>1. /\ Passing({Finding("dns", named, Why)}) <=> named
          /\ Passing({Finding("certificate", valid, Fix)}) <=> valid
          /\ Passing({Finding("health", healthy, "read logs")}) <=> healthy
        BY <1>2, FindingIs
    <2>2. QED BY <1>3, <2>1 DEF Passing
<1>6. Passing({Finding("subdomains", TRUE, "")})
    BY FindingIs
<1>7. CheckSubdomains(p) = {Finding("subdomains", TRUE, "")} \cup (IF h.on THEN CheckSubdomain(h) ELSE {})
    BY DEF CheckSubdomains, h
<1>8. Passing(CheckSubdomains(p)) <=> (h.on => Passing(CheckSubdomain(h)))
    BY <1>6, <1>7 DEF Passing
<1>9. QED BY <1>4, <1>5, <1>8 DEF h

\* The partitions and what retention has left of them.
LEMMA PartitionsAre ==
    ASSUME NEW p \in AnyPatient
    PROVE  /\ Passing({CheckPartitions(p)}) <=> Wanted \subseteq p.partitions
           /\ Passing({CheckRetention(p)}) <=> p.window # 0 /\ Remaining(p.partitions, p.window) = p.partitions
<1> DEFINE has == Wanted \subseteq p.partitions
           kept == p.window # 0 /\ \A m \in p.partitions : (m + 1) * MonthDays > Today - p.window
           Fix == IF p.window = 0 THEN "restore setting" ELSE "purge"
<1>1. has \in BOOLEAN /\ CheckPartitions(p) = Finding("partitions", has, "ensure")
    BY DEF CheckPartitions
<1>2. kept \in BOOLEAN /\ CheckRetention(p) = Finding("retention", kept, Fix)
    BY DEF CheckRetention
<1>3. kept <=> p.window # 0 /\ Remaining(p.partitions, p.window) = p.partitions
    <2> DEFINE Young(m) == (m + 1) * MonthDays > Today - p.window
    <2>1. Remaining(p.partitions, p.window) = {m \in p.partitions : Young(m)}
        BY DEF Remaining
    <2> HIDE DEF Young
    <2>2. {m \in p.partitions : Young(m)} = p.partitions <=> \A m \in p.partitions : Young(m)
        OBVIOUS
    <2>3. QED BY <2>1, <2>2 DEF Young
<1> HIDE DEF has, kept, Fix
<1>4. Passing({CheckPartitions(p)}) <=> has
    BY <1>1, FindingIs
<1>5. Passing({CheckRetention(p)}) <=> kept
    BY <1>2, FindingIs
<1>6. QED BY <1>3, <1>4, <1>5 DEF has

\* A run whose URL can be read passes when each of its checks does.
LEMMA CheckRunIs ==
    ASSUME NEW p \in AnyPatient, p.url \in {"bare", "require"}
    PROVE  Passing(RunChecks(p)) <=>
              /\ Passing({CheckDatabase(p)}) /\ p.throws = {}
              /\ Passing({CheckMigrations(p)}) /\ Passing({CheckClock(p)}) /\ Passing(CheckSubdomains(p))
              /\ Passing({CheckPartitions(p)}) /\ Passing({CheckRetention(p)})
<1> DEFINE M == Guard(p, "migrations", {CheckMigrations(p)})
           C == Guard(p, "clock", {CheckClock(p)})
           S == Guard(p, "subdomains", CheckSubdomains(p))
           P == Guard(p, "partitions", {CheckPartitions(p)})
           R == Guard(p, "retention", {CheckRetention(p)})
           D == CheckDatabase(p)
<1>1. RunChecks(p) = IF ~D.ok THEN {D}
                     ELSE {D} \cup M \cup C \cup (IF \A f \in M : f.ok THEN S \cup P \cup R ELSE {})
    BY DEF RunChecks
<1>2. p.throws = {} <=> /\ "migrations" \notin p.throws /\ "clock" \notin p.throws /\ "subdomains" \notin p.throws
                        /\ "partitions" \notin p.throws /\ "retention" \notin p.throws
    BY DEF AnyPatient, CheckNames
<1>3. /\ Passing(M) <=> "migrations" \notin p.throws /\ Passing({CheckMigrations(p)})
      /\ Passing(C) <=> "clock" \notin p.throws /\ Passing({CheckClock(p)})
      /\ Passing(S) <=> "subdomains" \notin p.throws /\ Passing(CheckSubdomains(p))
      /\ Passing(P) <=> "partitions" \notin p.throws /\ Passing({CheckPartitions(p)})
      /\ Passing(R) <=> "retention" \notin p.throws /\ Passing({CheckRetention(p)})
    BY GuardIs
<1> HIDE DEF M, C, S, P, R, D
<1>4. Passing(RunChecks(p)) <=> Passing({D}) /\ Passing(M) /\ Passing(C) /\ Passing(S) /\ Passing(P) /\ Passing(R)
    <2>1. (Passing({D}) <=> D.ok) /\ (Passing(M) <=> \A f \in M : f.ok)
        BY DEF Passing
    <2>2. CASE ~D.ok
        BY <1>1, <2>1, <2>2
    <2>3. CASE D.ok /\ ~Passing(M)
        <3>1. RunChecks(p) = {D} \cup M \cup C
            BY <1>1, <2>1, <2>3
        <3>2. QED BY <2>3, <3>1 DEF Passing
    <2>4. CASE D.ok /\ Passing(M)
        <3>1. RunChecks(p) = {D} \cup M \cup C \cup (S \cup P \cup R)
            BY <1>1, <2>1, <2>4
        <3>2. QED BY <3>1 DEF Passing
    <2>5. QED BY <2>2, <2>3, <2>4
<1>5. QED BY <1>2, <1>3, <1>4 DEF D

\* What the doctor passes is in order and what is in order it passes, of any
\* installation whose URL it reads as the services do.
THEOREM DoctorIsAlwaysRight == patient \in AnyPatient => DoctorIsRight
<1> SUFFICES ASSUME patient \in AnyPatient, patient.url # "prefer"
             PROVE  Fails(patient) = {} <=> InOrder(patient)
    BY DEF DoctorIsRight
<1> DEFINE p == patient
<1>1. p \in AnyPatient /\ p.url \in {"none", "garbage", "bare", "require"}
    BY DEF AnyPatient
<1> HIDE DEF p
<1>2. Fails(p) = {} <=> Passing(RunChecks(p))
    BY DEF Fails, Passing
<1>3. CASE p.url \in {"none", "garbage"}
    <2>1. RunChecks(p) = {Finding("database", FALSE, "export")} \/ RunChecks(p) = {Finding("database", FALSE, "rewrite")}
        BY <1>3 DEF RunChecks
    <2>2. ~Passing(RunChecks(p))
        BY <2>1, FindingIs
    <2>3. ~InOrder(p)
        BY <1>3 DEF InOrder
    <2>4. QED BY <1>2, <2>2, <2>3 DEF p
<1>4. CASE p.url \in {"bare", "require"}
    <2>1. Passing(RunChecks(p)) <=>
              /\ Reaches(p, DriverTls(p.url)) /\ p.throws = {} /\ p.migrated /\ p.ledger = p.disk
              /\ 2 * p.clock.db - p.clock.before - p.clock.after \in -2 * Tolerance .. 2 * Tolerance
              /\ (p.host.on => p.host.records # {} /\ Answer(p.host) = "200" /\ p.host.days > 6)
              /\ Wanted \subseteq p.partitions /\ p.window # 0 /\ Remaining(p.partitions, p.window) = p.partitions
        <3>1. Passing(RunChecks(p)) <=>
              /\ Passing({CheckDatabase(p)}) /\ p.throws = {}
              /\ Passing({CheckMigrations(p)}) /\ Passing({CheckClock(p)}) /\ Passing(CheckSubdomains(p))
              /\ Passing({CheckPartitions(p)}) /\ Passing({CheckRetention(p)})
            BY <1>1, <1>4, CheckRunIs
        <3>2. Passing({CheckDatabase(p)}) <=> Reaches(p, DriverTls(p.url))
            BY <1>4, DatabaseIs
        <3>3. Passing({CheckMigrations(p)}) <=> p.migrated /\ p.ledger = p.disk
            BY <1>1, SchemaIs
        <3>4. Passing({CheckClock(p)}) <=> 2 * p.clock.db - p.clock.before - p.clock.after \in -2 * Tolerance .. 2 * Tolerance
            BY <1>1, ClockIs
        <3>5. Passing(CheckSubdomains(p)) <=>
                 (p.host.on => p.host.records # {} /\ Answer(p.host) = "200" /\ p.host.days > 6)
            BY <1>1, HostIs
        <3>6. /\ Passing({CheckPartitions(p)}) <=> Wanted \subseteq p.partitions
              /\ Passing({CheckRetention(p)}) <=> p.window # 0 /\ Remaining(p.partitions, p.window) = p.partitions
            BY <1>1, PartitionsAre
        <3>7. QED BY <3>1, <3>2, <3>3, <3>4, <3>5, <3>6, Zenon
    <2>2. p.url \notin {"none", "garbage"}
        BY <1>4
    <2>3. InOrder(p) <=> Passing(RunChecks(p))
        BY <2>1, <2>2, Zenon DEF InOrder
    <2>4. QED BY <1>2, <2>3 DEF p
<1>5. QED BY <1>1, <1>3, <1>4

\* The installations a run draws are among them.
LEMMA InputsArePatients == DoctorInputs \subseteq AnyPatient
<1>1. Wanted \in SUBSET Nat
    <2>1. Today \div MonthDays \in Nat
        BY DoctorConstants
    <2>2. QED BY <2>1 DEF Wanted
<1> DEFINE H == AnyHost
           U == {"none", "garbage", "bare", "require", "prefer"}
           V == {"plain", "tls", "both"}
           R == {"none"} \cup Troubles
           C == [before : Int, db : Int, after : Int]
           All == [of : {"doctor"}, url : U, server : V, trouble : R, throws : SUBSET CheckNames, migrated : BOOLEAN,
                   ledger : SUBSET Releases, disk : SUBSET Releases, clock : C,
                   host : H, partitions : SUBSET Nat, caught : SUBSET Nat, window : Nat]
<1>2. Healthy \in All
    <2>1. Healthy.host \in H
        <3>1. Lookups \in [1..3 -> {"CNAME", "A", "AAAA"}]
            BY DEF Lookups
        <3>2. {"CNAME", "A"} \in SUBSET {"CNAME", "A", "AAAA"}
            OBVIOUS
        <3>3. QED BY <3>1, <3>2 DEF Healthy, AnyHost
    <2>2. Healthy.clock \in C
        BY DEF Healthy
    <2>3. "bare" \in U /\ "plain" \in V /\ "none" \in R /\ {} \in SUBSET CheckNames /\ Releases \in SUBSET Releases
          /\ {} \in SUBSET Nat /\ 180 \in Nat
        OBVIOUS
    <2> HIDE DEF H, U, V, R, C
    <2>4. QED BY <1>1, <2>1, <2>2, <2>3 DEF Healthy
<1> DEFINE Reached(url, server, trouble, noted) ==
               [Healthy EXCEPT !.url = url, !.server = server, !.trouble = trouble, !.ledger = noted]
           Shipped(migrated, noted, disk, throws) ==
               [Healthy EXCEPT !.migrated = migrated, !.ledger = IF migrated THEN noted ELSE {},
                               !.disk = disk, !.throws = throws]
           Timed(clock) == [Healthy EXCEPT !.clock = clock]
           Hosted(host) == [Healthy EXCEPT !.host = host]
           Filled(partitions, caught, window) ==
               [Healthy EXCEPT !.partitions = partitions, !.caught = caught, !.window = window]
           Months == SUBSET (0..(Today \div MonthDays + 1))
           Windows == {0, 1, MonthDays, 2 * MonthDays}
           Hours == [before: {0}, db: -3..6, after: 0..5]
<1>3. \A url \in U, server \in V, trouble \in R, noted \in {{}, Releases} : Reached(url, server, trouble, noted) \in All
    <2>1. \A noted \in {{}, Releases} : noted \in SUBSET Releases
        OBVIOUS
    <2> HIDE DEF H, U, V, R, C
    <2>2. QED BY <1>2, <2>1
<1>4. \A migrated \in BOOLEAN, noted \in SUBSET Releases, disk \in (SUBSET Releases) \ {{}}, throws \in SUBSET CheckNames :
         Shipped(migrated, noted, disk, throws) \in All
    <2> HIDE DEF H, U, V, R, C
    <2>1. QED BY <1>2
<1>5. \A clock \in Hours : Timed(clock) \in All
    <2>1. Hours \subseteq C
        OBVIOUS
    <2> HIDE DEF H, U, V, R, C, Hours
    <2>2. QED BY <1>2, <2>1
<1>6. \A host \in Hosts : Hosted(host) \in All
    <2>1. Hosts \subseteq H
        BY DEF Hosts, AnyHost
    <2> HIDE DEF H, U, V, R, C
    <2>2. QED BY <1>2, <2>1
<1>7. \A partitions \in Months, caught \in SUBSET Wanted, window \in Windows : Filled(partitions, caught, window) \in All
    <2>1. Months \subseteq SUBSET Nat
        <3>1. Today \div MonthDays + 1 \in Nat
            BY DoctorConstants
        <3>2. QED BY <3>1
    <2>2. \A m \in SUBSET Wanted : m \in SUBSET Nat
        BY <1>1
    <2>3. Windows \subseteq Nat
        BY DoctorConstants
    <2> HIDE DEF H, U, V, R, C, Months, Windows
    <2>4. QED BY <1>2, <2>1, <2>2, <2>3
<1>8. DoctorInputs =
         {Reached(url, server, trouble, noted) : url \in U, server \in V, trouble \in R, noted \in {{}, Releases}} \cup
         {Shipped(migrated, noted, disk, throws) :
             migrated \in BOOLEAN, noted \in SUBSET Releases, disk \in (SUBSET Releases) \ {{}}, throws \in SUBSET CheckNames} \cup
         {Timed(clock) : clock \in Hours} \cup {Hosted(host) : host \in Hosts} \cup
         {Filled(partitions, caught, window) : partitions \in Months, caught \in SUBSET Wanted, window \in Windows}
    BY DEF DoctorInputs, CheckNames
<1>9. All = AnyPatient
    BY DEF AnyPatient
<1> HIDE DEF Reached, Shipped, Timed, Hosted, Filled, Months, Windows, Hours, H, U, V, R, C, All
<1>10. QED BY <1>3, <1>4, <1>5, <1>6, <1>7, <1>8, <1>9
=============================================================================
