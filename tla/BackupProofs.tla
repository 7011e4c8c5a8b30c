---------------------------- MODULE BackupProofs ----------------------------
(***************************************************************************)
(* That a restore merges, whatever databases there are, whatever the panel *)
(* does between and during exports, and whatever a file is restored into.  *)
(***************************************************************************)
EXTENDS Backup, FiniteSetTheorems, SequenceTheorems, WellFoundedInduction, TLAPS

-----------------------------------------------------------------------------
(* Induction.  What is shown of every number is shown of the least that    *)
(* would not have it.                                                      *)

\* A set of naturals has a least element.
LEMMA LeastOf ==
    ASSUME NEW T \in SUBSET Nat, T # {}
    PROVE  \E n \in T : \A m \in T : n <= m
<1>1. PICK n \in T : \A m \in T : ~(<<m, n>> \in OpToRel(<, Nat))
    BY NatLessThanWellFounded, WFMin
<1>2. \A m \in T : ~(m < n)
    BY <1>1 DEF OpToRel
<1>3. QED BY <1>2

\* A set that has 0 and, with a number below a bound, the next one, has all up to
\* the bound.
LEMMA UpTo ==
    ASSUME NEW N \in Nat, NEW G, 0 \in G,
           \A n \in 0 .. (N - 1) : n \in G => n + 1 \in G
    PROVE  0 .. N \subseteq G
<1> DEFINE Bad == {n \in 0 .. N : n \notin G}
<1> SUFFICES ASSUME Bad # {} PROVE FALSE
    OBVIOUS
<1>1. PICK n \in Bad : \A m \in Bad : n <= m
    <2>1. Bad \in SUBSET Nat
        OBVIOUS
    <2>2. QED BY <2>1, LeastOf
<1>2. n # 0 /\ n \in 0 .. N
    BY <1>1
<1>3. n - 1 \in 0 .. (N - 1) /\ n - 1 \in G /\ (n - 1) + 1 = n
    BY <1>1, <1>2
<1>4. QED BY <1>1, <1>3

\* g is the function that a recursion up to N from b by F defines.
Follows(N, b, F, g) == g[0] = b /\ \A n \in 1 .. N : g[n] = F[<<n, g[n - 1]>>]

\* A recursion over the numbers up to a bound defines a function.
LEMMA Recursion ==
    ASSUME NEW N \in Nat, NEW S, NEW b \in S, NEW F \in [(1 .. N) \X S -> S]
    PROVE  \E g \in [0 .. N -> S] : Follows(N, b, F, g)
<1> DEFINE G == {k \in 0 .. N : \E g \in [0 .. k -> S] : Follows(k, b, F, g)}
<1>1. 0 \in G
    <2>1. [n \in 0 .. 0 |-> b] \in [0 .. 0 -> S] /\ Follows(0, b, F, [n \in 0 .. 0 |-> b])
        BY DEF Follows
    <2>2. 0 \in 0 .. N
        OBVIOUS
    <2>3. \E g \in [0 .. 0 -> S] : Follows(0, b, F, g)
        BY ONLY <2>1
    <2>4. QED BY <2>2, <2>3
<1>2. ASSUME NEW k \in 0 .. (N - 1), k \in G
      PROVE  k + 1 \in G
    <2>1. PICK g \in [0 .. k -> S] : Follows(k, b, F, g)
        BY <1>2
    <2> DEFINE h == [n \in 0 .. (k + 1) |-> IF n = k + 1 THEN F[<<k + 1, g[k]>>] ELSE g[n]]
    <2>2. h \in [0 .. (k + 1) -> S]
        <3>1. F[<<k + 1, g[k]>>] \in S
            BY <2>1
        <3>2. QED BY <3>1, <2>1
    <2>3. Follows(k + 1, b, F, h)
        <3>1. h[0] = b
            BY <2>1 DEF Follows
        <3>2. ASSUME NEW n \in 1 .. (k + 1) PROVE h[n] = F[<<n, h[n - 1]>>]
            <4>1. CASE n = k + 1
                <5>1. h[n] = F[<<k + 1, g[k]>>] /\ h[n - 1] = g[k]
                    BY <4>1
                <5>2. QED BY <4>1, <5>1
            <4>2. CASE n # k + 1
                <5>1. n \in 1 .. k /\ h[n] = g[n] /\ h[n - 1] = g[n - 1]
                    BY <4>2
                <5>2. QED BY <5>1, <2>1 DEF Follows
            <4>3. QED BY <4>1, <4>2
        <3>3. QED BY <3>1, <3>2 DEF Follows
    <2> HIDE DEF h
    <2>4. k + 1 \in 0 .. N
        OBVIOUS
    <2>5. QED BY <2>2, <2>3, <2>4
<1> HIDE DEF G
<1>3. 0 .. N \subseteq G
    BY <1>1, <1>2, UpTo
<1>4. N \in G
    BY <1>3
<1>5. QED BY <1>4 DEF G

-----------------------------------------------------------------------------
(* Rows of links.                                                          *)

\* The insert of a row leaves rows.
LEMMA InsertedRows ==
    ASSUME NEW sites, NEW links \in Seq(Rows), NEW row \in Rows
    PROVE  InsertLink(sites, links, row) \in Seq(Rows)
BY DEF InsertLink

\* The rows after each insert of a restore.
Steps(sites, links, rows, g) ==
    /\ g \in [0 .. Len(rows) -> Seq(Rows)]
    /\ g[0] = links
    /\ \A n \in 1 .. Len(rows) : g[n] = InsertLink(sites, g[n - 1], rows[n])
    /\ Merged(sites, links, rows) = g[Len(rows)]

\* There are such, and the last are what the restore leaves.
LEMMA MergedIs ==
    ASSUME NEW sites, NEW links \in Seq(Rows), NEW rows \in Seq(Rows)
    PROVE  \E g : Steps(sites, links, rows, g)
<1> DEFINE N == Len(rows)
           F == [p \in (1 .. N) \X Seq(Rows) |-> InsertLink(sites, p[2], rows[p[1]])]
           Eqn(g) == g = [n \in 0 .. N |-> IF n = 0 THEN links ELSE InsertLink(sites, g[n - 1], rows[n])]
<1>1. N \in Nat /\ \A n \in 1 .. N : rows[n] \in Rows
    OBVIOUS
<1>2. F \in [(1 .. N) \X Seq(Rows) -> Seq(Rows)]
    <2>1. ASSUME NEW before \in Seq(Rows), NEW row \in Rows
          PROVE  InsertLink(sites, before, row) \in Seq(Rows)
        BY InsertedRows
    <2>2. ASSUME NEW p \in (1 .. N) \X Seq(Rows)
          PROVE  p[2] \in Seq(Rows) /\ rows[p[1]] \in Rows
        BY <1>1
    <2>3. QED BY <2>1, <2>2
<1> HIDE DEF F
<1>3. PICK g \in [0 .. N -> Seq(Rows)] : Follows(N, links, F, g)
    BY <1>1, <1>2, Recursion
<1>4. \A n \in 1 .. N : g[n] = InsertLink(sites, g[n - 1], rows[n])
    <2>1. ASSUME NEW n \in 1 .. N PROVE <<n, g[n - 1]>> \in (1 .. N) \X Seq(Rows)
        <3>1. n - 1 \in 0 .. N
            BY <1>1
        <3>2. QED BY <1>3, <3>1
    <2>2. \A n \in 1 .. N : F[<<n, g[n - 1]>>] = InsertLink(sites, g[n - 1], rows[n])
        <3> SUFFICES ASSUME NEW n \in 1 .. N PROVE F[<<n, g[n - 1]>>] = InsertLink(sites, g[n - 1], rows[n])
            OBVIOUS
        <3> DEFINE p == <<n, g[n - 1]>>
        <3>1. p \in (1 .. N) \X Seq(Rows) /\ p[1] = n /\ p[2] = g[n - 1]
            BY <2>1
        <3> HIDE DEF p
        <3>2. F[p] = InsertLink(sites, p[2], rows[p[1]])
            BY <3>1 DEF F
        <3>3. QED BY <3>1, <3>2 DEF p
    <2>3. QED BY <1>3, <2>2 DEF Follows
<1>5. Eqn(g)
    BY <1>1, <1>3, <1>4 DEF Follows
<1> DEFINE u == CHOOSE f : Eqn(f)
<1>6. Eqn(u)
    BY <1>5
<1>7. Merged(sites, links, rows) = u[N]
    BY Zenon DEF Merged
<1> HIDE DEF u
<1>8. u[0] = links /\ \A n \in 1 .. N : u[n] = InsertLink(sites, u[n - 1], rows[n])
    BY <1>1, <1>6
<1>9. u = g
    <2> DEFINE G == {n \in 0 .. N : u[n] = g[n]}
    <2>1. 0 \in G
        BY <1>1, <1>3, <1>8 DEF Follows
    <2>2. ASSUME NEW n \in 0 .. (N - 1), n \in G PROVE n + 1 \in G
        <3>1. n + 1 \in 1 .. N /\ (n + 1) - 1 = n /\ n + 1 \in 0 .. N
            BY <1>1
        <3>2. QED BY <1>4, <1>8, <2>2, <3>1
    <2>3. 0 .. N \subseteq G
        BY <1>1, <2>1, <2>2, UpTo
    <2>4. QED BY <1>3, <1>6, <2>3
<1>10. Steps(sites, links, rows, g)
    BY <1>3, <1>4, <1>7, <1>9 DEF Steps, Follows
<1>11. QED BY <1>10

\* The rows there were are still there, where they were.
Extends(after, links) ==
    after \in Seq(Rows) /\ \A i \in DOMAIN links : i \in DOMAIN after /\ after[i] = links[i]

\* So the live links of any names are still live links of those.
LEMMA StillLive ==
    ASSUME NEW links \in Seq(Rows), NEW after, Extends(after, links), NEW names
    PROVE  IdsOf(links, names) \subseteq IdsOf(after, names) /\ LiveIds(links) \subseteq LiveIds(after)
BY DEF Extends, IdsOf, LiveIds

\* What an insert appends is on a domain that is there, and no second live link
\* of its name.
LEMMA InsertKeeps ==
    ASSUME NEW sites, NEW links \in Seq(Rows), NEW row \in Rows,
           NEW after, after = InsertLink(sites, links, row)
    PROVE  /\ Extends(after, links)
           /\ Uniquely(links) => Uniquely(after)
           /\ \A i \in DOMAIN after : i \in DOMAIN links \/ after[i].name[1] \in sites
           /\ row.name[1] \in sites /\ ~row.trash => IdsOf(after, {row.name}) # {}
           /\ row.name[1] \in sites /\ ~row.trash /\ IdsOf(links, {row.name}) # {} => after = links
           /\ row.trash => LiveIds(after) = LiveIds(links)
<1> DEFINE new == Len(links) + 1
           Fits == row.name[1] \in sites /\ (row.trash \/ IdsOf(links, {row.name}) = {})
<1>1. CASE Fits
    <2>1. after = Append(links, row)
        BY <1>1 DEF InsertLink
    <2>2. /\ after \in Seq(Rows) /\ after[new] = row
          /\ DOMAIN links = 1 .. Len(links) /\ Len(links) \in Nat /\ DOMAIN after = 1 .. new
          /\ \A i \in DOMAIN links : after[i] = links[i]
        BY <2>1
    <2>3. DOMAIN after = DOMAIN links \cup {new} /\ new \notin DOMAIN links
        BY <2>2
    <2> HIDE DEF new
    <2>4. Extends(after, links)
        BY <2>2, <2>3 DEF Extends
    <2>5. ASSUME Uniquely(links) PROVE Uniquely(after)
        <3> SUFFICES ASSUME NEW i \in LiveIds(after), NEW j \in LiveIds(after), after[i].name = after[j].name
                     PROVE  i = j
            BY DEF Uniquely
        <3>1. CASE i # new /\ j # new
            BY <2>2, <2>3, <2>5, <3>1 DEF Uniquely, LiveIds
        <3>2. ASSUME NEW k \in LiveIds(after), k # new, ~row.trash
              PROVE  after[k].name # row.name
            BY <1>1, <2>2, <2>3, <3>2 DEF LiveIds, IdsOf
        <3>3. CASE i = new \/ j = new
            BY <2>2, <3>2, <3>3 DEF LiveIds
        <3>4. QED BY <3>1, <3>3
    <2>6. \A i \in DOMAIN after : i \in DOMAIN links \/ after[i].name[1] \in sites
        BY <1>1, <2>2, <2>3
    <2>7. ~row.trash => new \in IdsOf(after, {row.name})
        BY <2>2, <2>3 DEF IdsOf, LiveIds
    <2>8. row.trash => LiveIds(after) = LiveIds(links)
        BY <2>2, <2>3 DEF LiveIds
    <2>9. QED BY <1>1, <2>4, <2>5, <2>6, <2>7, <2>8
<1>2. CASE ~Fits
    <2>1. after = links
        BY <1>2 DEF InsertLink
    <2>2. Extends(after, links)
        BY <2>1 DEF Extends
    <2>3. QED BY <1>2, <2>1, <2>2
<1>3. QED BY <1>1, <1>2

\* Whatever a restore inserts: what was there stays, a name keeps at most one live
\* link and gets one if the file has a live link for it, on a domain that is there.
LEMMA MergedKeeps ==
    ASSUME NEW sites, NEW links \in Seq(Rows), NEW rows \in Seq(Rows),
           NEW after, after = Merged(sites, links, rows)
    PROVE  /\ Extends(after, links)
           /\ Uniquely(links) => Uniquely(after)
           /\ \A i \in DOMAIN after : i \in DOMAIN links \/ after[i].name[1] \in sites
           /\ \A n \in DOMAIN rows :
                 rows[n].name[1] \in sites /\ ~rows[n].trash => IdsOf(after, {rows[n].name}) # {}
<1> DEFINE N == Len(rows)
           Kept(k, ls) == /\ Extends(ls, links)
                          /\ Uniquely(links) => Uniquely(ls)
                          /\ \A i \in DOMAIN ls : i \in DOMAIN links \/ ls[i].name[1] \in sites
                          /\ \A n \in 1 .. k : rows[n].name[1] \in sites /\ ~rows[n].trash
                                                  => IdsOf(ls, {rows[n].name}) # {}
<1>1. PICK g : Steps(sites, links, rows, g)
    BY MergedIs
<1>2. N \in Nat /\ DOMAIN rows = 1 .. N /\ \A n \in 1 .. N : rows[n] \in Rows
    OBVIOUS
<1> DEFINE G == {k \in 0 .. N : Kept(k, g[k])}
<1>3. 0 \in G
    BY <1>1, <1>2 DEF Steps, Extends
<1>4. ASSUME NEW k \in 0 .. (N - 1), k \in G PROVE k + 1 \in G
    <2> DEFINE ls == g[k]
               row == rows[k + 1]
               more == g[k + 1]
    <2>1. k + 1 \in 1 .. N /\ k + 1 \in 0 .. N /\ (k + 1) - 1 = k /\ k \in 0 .. N
        BY <1>2
    <2>2. ls \in Seq(Rows) /\ row \in Rows /\ more = InsertLink(sites, ls, row)
        BY <1>1, <1>2, <2>1 DEF Steps
    <2>3. Kept(k, ls)
        BY <1>4
    <2>4. \A n \in 1 .. (k + 1) : n \in 1 .. k \/ rows[n] = row
        BY <2>1
    <2> HIDE DEF ls, row, more
    <2>5. /\ Extends(more, ls)
          /\ Uniquely(ls) => Uniquely(more)
          /\ \A i \in DOMAIN more : i \in DOMAIN ls \/ more[i].name[1] \in sites
          /\ row.name[1] \in sites /\ ~row.trash => IdsOf(more, {row.name}) # {}
        BY <2>2, InsertKeeps
    <2>6. Extends(more, links)
        BY <2>3, <2>5 DEF Extends
    <2>7. \A i \in DOMAIN more : i \in DOMAIN links \/ more[i].name[1] \in sites
        BY <2>3, <2>5 DEF Extends
    <2>8. ASSUME NEW n \in 1 .. (k + 1), rows[n].name[1] \in sites, ~rows[n].trash
          PROVE  IdsOf(more, {rows[n].name}) # {}
        <3>1. CASE rows[n] = row
            BY <2>5, <2>8, <3>1
        <3>2. CASE n \in 1 .. k
            <4>1. IdsOf(ls, {rows[n].name}) # {}
                BY <2>3, <2>8, <3>2
            <4>2. IdsOf(ls, {rows[n].name}) \subseteq IdsOf(more, {rows[n].name})
                BY <2>2, <2>5, StillLive
            <4>3. QED BY <4>1, <4>2
        <3>3. QED BY <2>4, <3>1, <3>2
    <2>9. Kept(k + 1, more)
        BY <2>3, <2>5, <2>6, <2>7, <2>8
    <2>10. QED BY <2>1, <2>9 DEF more
<1>5. 0 .. N \subseteq G
    <2> HIDE DEF G
    <2>1. QED BY <1>2, <1>3, <1>4, UpTo
<1>6. Kept(N, g[N]) /\ after = g[N]
    <2>1. N \in 0 .. N
        BY <1>2
    <2>2. N \in G
        BY <1>5, <2>1
    <2>3. Kept(N, g[N])
        BY <2>2
    <2>4. after = g[N]
        BY <1>1 DEF Steps
    <2>5. QED BY <2>3, <2>4
<1>7. QED BY <1>2, <1>6

\* For every live row, of a domain that is there, there is a live link of its name.
Placed(sites, links, rows) ==
    \A n \in DOMAIN rows : rows[n].name[1] \in sites /\ ~rows[n].trash => IdsOf(links, {rows[n].name}) # {}

\* A restore of a file that is there already inserts deleted links only.
LEMMA MergedAgain ==
    ASSUME NEW sites, NEW links \in Seq(Rows), NEW rows \in Seq(Rows),
           Placed(sites, links, rows),
           NEW after, after = Merged(sites, links, rows)
    PROVE  Extends(after, links) /\ LiveIds(after) = LiveIds(links)
<1> DEFINE N == Len(rows)
           Kept(ls) == Extends(ls, links) /\ LiveIds(ls) = LiveIds(links)
<1>1. PICK g : Steps(sites, links, rows, g)
    BY MergedIs
<1>2. N \in Nat /\ DOMAIN rows = 1 .. N /\ \A n \in 1 .. N : rows[n] \in Rows
    OBVIOUS
<1> DEFINE G == {k \in 0 .. N : Kept(g[k])}
<1>3. 0 \in G
    BY <1>1, <1>2 DEF Steps, Extends
<1>4. ASSUME NEW k \in 0 .. (N - 1), k \in G PROVE k + 1 \in G
    <2> DEFINE ls == g[k]
               row == rows[k + 1]
               more == g[k + 1]
    <2>1. k + 1 \in 1 .. N /\ k + 1 \in 0 .. N /\ (k + 1) - 1 = k /\ k \in 0 .. N
        BY <1>2
    <2>2. ls \in Seq(Rows) /\ row \in Rows /\ more = InsertLink(sites, ls, row)
        BY <1>1, <1>2, <2>1 DEF Steps
    <2>3. Kept(ls)
        BY <1>4
    <2>4. row.name[1] \in sites /\ ~row.trash => IdsOf(links, {row.name}) # {}
        BY <1>2, <2>1 DEF Placed
    <2> HIDE DEF ls, row, more
    <2>5. row.name[1] \in sites /\ ~row.trash => IdsOf(ls, {row.name}) # {}
        BY <2>3, <2>4, StillLive
    <2>6. /\ Extends(more, ls)
          /\ row.trash => LiveIds(more) = LiveIds(ls)
        <3>1. Extends(more, ls)
            BY <2>2, InsertKeeps
        <3>2. row.trash => LiveIds(more) = LiveIds(ls)
            BY <2>2 DEF InsertLink, LiveIds
        <3>3. QED BY <3>1, <3>2
    <2>7. row.name[1] \in sites /\ ~row.trash => more = ls
        BY <2>2, <2>5, InsertKeeps
    <2>8. row.name[1] \notin sites => more = ls
        BY <2>2 DEF InsertLink
    <2>9. Kept(more)
        BY <2>2, <2>3, <2>6, <2>7, <2>8 DEF Extends, Rows
    <2>10. QED BY <2>1, <2>9 DEF more
<1>5. 0 .. N \subseteq G
    <2> HIDE DEF G
    <2>1. QED BY <1>2, <1>3, <1>4, UpTo
<1>6. Kept(g[N]) /\ after = g[N]
    BY <1>1, <1>2, <1>5 DEF Steps
<1>7. QED BY <1>6

\* On an empty installation, the rows of a database are what they were.
LEMMA MergedAnew ==
    ASSUME NEW sites, NEW rows \in Seq(Rows), Uniquely(rows),
           \A n \in DOMAIN rows : rows[n].name[1] \in sites
    PROVE  Merged(sites, <<>>, rows) = rows
<1> DEFINE N == Len(rows)
           Copied(k, ls) == ls \in Seq(Rows) /\ Len(ls) = k /\ \A i \in 1 .. k : ls[i] = rows[i]
<1>1. <<>> \in Seq(Rows)
    OBVIOUS
<1>2. PICK g : Steps(sites, <<>>, rows, g)
    BY <1>1, MergedIs
<1>3. N \in Nat /\ DOMAIN rows = 1 .. N /\ \A n \in 1 .. N : rows[n] \in Rows
    OBVIOUS
<1> DEFINE G == {k \in 0 .. N : Copied(k, g[k])}
<1>4. 0 \in G
    BY <1>2, <1>3 DEF Steps
<1>5. ASSUME NEW k \in 0 .. (N - 1), k \in G PROVE k + 1 \in G
    <2> DEFINE ls == g[k]
               row == rows[k + 1]
               more == g[k + 1]
    <2>1. k + 1 \in 1 .. N /\ k + 1 \in 0 .. N /\ (k + 1) - 1 = k /\ k \in 0 .. N
        BY <1>3
    <2>2. ls \in Seq(Rows) /\ row \in Rows /\ more = InsertLink(sites, ls, row)
        BY <1>2, <1>3, <2>1 DEF Steps
    <2>3. Copied(k, ls)
        BY <1>5
    <2>4. row.name[1] \in sites
        BY <1>3, <2>1
    <2>5. ASSUME ~row.trash, NEW i \in IdsOf(ls, {row.name}) PROVE FALSE
        <3>1. i \in 1 .. k /\ ls[i] = rows[i] /\ ~rows[i].trash /\ rows[i].name = row.name
            BY <2>2, <2>3 DEF IdsOf, LiveIds
        <3>2. i \in LiveIds(rows) /\ k + 1 \in LiveIds(rows) /\ i # k + 1
            BY <1>3, <2>1, <2>5, <3>1 DEF LiveIds
        <3>3. QED BY <3>1, <3>2 DEF Uniquely
    <2> HIDE DEF ls, row, more
    <2>6. row.trash \/ IdsOf(ls, {row.name}) = {}
        BY <2>2, <2>5 DEF Rows
    <2>7. more = Append(ls, row)
        BY <2>2, <2>4, <2>6 DEF InsertLink
    <2>8. more \in Seq(Rows) /\ Len(more) = k + 1 /\ more[k + 1] = row /\ \A i \in 1 .. k : more[i] = ls[i]
        BY <2>2, <2>3, <2>7
    <2>9. Copied(k + 1, more)
        <3>1. \A i \in 1 .. (k + 1) : i \in 1 .. k \/ i = k + 1
            OBVIOUS
        <3>2. QED BY <2>3, <2>8, <3>1 DEF row
    <2>10. QED BY <2>1, <2>9 DEF more
<1>6. 0 .. N \subseteq G
    <2> HIDE DEF G
    <2>1. QED BY <1>3, <1>4, <1>5, UpTo
<1>7. Copied(N, g[N]) /\ Merged(sites, <<>>, rows) = g[N]
    BY <1>2, <1>3, <1>6 DEF Steps
<1>8. g[N] = rows
    BY <1>3, <1>7
<1>9. QED BY <1>7, <1>8

-----------------------------------------------------------------------------
(* Schedules.                                                              *)

\* There are finitely many links of any names.
LEMMA IdsFinite ==
    ASSUME NEW links \in Seq(Rows), NEW names
    PROVE  IsFiniteSet(DOMAIN links) /\ IsFiniteSet(IdsOf(links, names)) /\ IdsOf(links, names) \subseteq DOMAIN links
<1>1. IsFiniteSet(DOMAIN links)
    <2>1. DOMAIN links = 1 .. Len(links) /\ Len(links) \in Int /\ 1 \in Int
        OBVIOUS
    <2>2. QED BY <2>1, FS_Interval
<1>2. IdsOf(links, names) \subseteq DOMAIN links
    BY DEF IdsOf, LiveIds
<1>3. QED BY <1>1, <1>2, FS_Subset

\* When as many links are found as a schedule had targets, each of its names is
\* one of theirs.
LEMMA BoundToAll ==
    ASSUME NEW links \in Seq(Rows), Uniquely(links), NEW names, IsFiniteSet(names),
           Cardinality(IdsOf(links, names)) >= Cardinality(names)
    PROVE  {links[i].name : i \in IdsOf(links, names)} = names
<1> DEFINE S == IdsOf(links, names)
           f == [i \in S |-> links[i].name]
<1>1. IsFiniteSet(S)
    BY IdsFinite
<1>2. f \in Injection(S, names)
    BY DEF IdsOf, Uniquely, Injection, IsInjective
<1>3. Cardinality(S) <= Cardinality(names) /\ (Cardinality(S) = Cardinality(names) <=> f \in Surjection(S, names))
    <2> HIDE DEF S, f
    <2>1. QED BY <1>2, FS_Injection
<1>4. Cardinality(S) \in Nat /\ Cardinality(names) \in Nat
    BY <1>1, FS_CardinalityType
<1>5. f \in Surjection(S, names)
    BY <1>3, <1>4
<1>6. \A n \in names : \E i \in S : f[i] = n
    BY <1>5 DEF Surjection
<1>7. QED BY <1>6 DEF IdsOf

\* The names a schedule goes out by are no more than its links.
LEMMA TargetsFit ==
    ASSUME NEW d, Sane(d), NEW S \in d.schedules
    PROVE  /\ Targets(d, S) \in [names: SUBSET Names, count: Nat]
           /\ IsFiniteSet(Targets(d, S).names)
           /\ Cardinality(Targets(d, S).names) <= Targets(d, S).count
           /\ S # {} /\ S \subseteq DOMAIN d.links /\ IsFiniteSet(S)
<1> DEFINE f == [i \in S |-> d.links[i].name]
           T == {d.links[i].name : i \in S}
<1>1. d.links \in Seq(Rows) /\ S # {} /\ S \subseteq DOMAIN d.links
    BY DEF Sane
<1>2. IsFiniteSet(S)
    BY <1>1, IdsFinite, FS_Subset
<1>3. f \in Surjection(S, T)
    BY DEF Surjection
<1>4. IsFiniteSet(T) /\ Cardinality(T) <= Cardinality(S)
    <2> HIDE DEF f, T
    <2>1. QED BY <1>2, <1>3, FS_Surjection
<1>5. Cardinality(S) \in Nat
    BY <1>2, FS_CardinalityType
<1>6. T \subseteq Names
    <2>1. \A i \in DOMAIN d.links : d.links[i] \in Rows
        BY <1>1
    <2>2. QED BY <1>1, <2>1 DEF Rows
<1>7. QED BY <1>1, <1>2, <1>4, <1>5, <1>6 DEF Targets

-----------------------------------------------------------------------------
(* What a restore leaves.                                                  *)

\* The people of a database, and those of the file that it does not have.
PeopleOf(d, f) == [p \in People |-> IF d.people[p] = NoOne THEN f.people[p] ELSE d.people[p]]

\* The grants of a file, when the domains are sites and the people people.
GrantsOf(f, sites, people) ==
    {[g EXCEPT !.scope = IF @ \in sites THEN @ ELSE "all"] : g \in {g \in f.grants : people[g.who] # NoOne}}

\* The schedules of a file that are restored on links.
SchedulesOf(f, links) == {IdsOf(links, s.names) : s \in {s \in f.schedules : Bound(links, s)}}

\* after is what a restore of f into d leaves when it is not refused.
Joined(d, f, after) ==
    /\ after = [sites |-> after.sites, people |-> after.people, links |-> after.links,
                grants |-> after.grants, schedules |-> after.schedules]
    /\ after.sites = d.sites \cup f.sites
    /\ after.people = PeopleOf(d, f)
    /\ after.links = Merged(after.sites, d.links, f.links)
    /\ after.grants = d.grants \cup GrantsOf(f, after.sites, after.people)
    /\ after.schedules = d.schedules \cup SchedulesOf(f, after.links)

\* A restore is refused by a clash of usernames and else joins.
LEMMA RestoredIs ==
    ASSUME NEW d, NEW f, NEW after, after = Restored(d, f)
    PROVE  /\ Clash(PeopleOf(d, f)) => after = d
           /\ ~Clash(PeopleOf(d, f)) => Joined(d, f, after)
BY DEF Restored, Joined, PeopleOf, GrantsOf, SchedulesOf

\* A grant whose domain is there, or that is for every one, is restored as it was.
LEMMA GrantsKept ==
    ASSUME NEW f, f.grants \subseteq Grants, NEW sites, NEW people,
           \A g \in f.grants : g.scope \in sites \cup {"all"}
    PROVE  GrantsOf(f, sites, people) = {g \in f.grants : people[g.who] # NoOne}
<1>1. ASSUME NEW g \in f.grants PROVE [g EXCEPT !.scope = IF @ \in sites THEN @ ELSE "all"] = g
    <2>1. g \in Grants /\ (g.scope \in sites \/ g.scope = "all")
        OBVIOUS
    <2>2. QED BY <2>1 DEF Grants
<1>2. QED BY <1>1 DEF GrantsOf

\* A restored database is one the tables allow.
LEMMA JoinedSane ==
    ASSUME NEW d, Sane(d), NEW f, Fitting(f), NEW after, Joined(d, f, after), ~Clash(PeopleOf(d, f))
    PROVE  /\ Sane(after) /\ Extends(after.links, d.links)
           /\ \A n \in DOMAIN f.links :
                 f.links[n].name[1] \in after.sites /\ ~f.links[n].trash => IdsOf(after.links, {f.links[n].name}) # {}
<1>1. /\ d.links \in Seq(Rows) /\ f.links \in Seq(Rows) /\ d.sites \subseteq Sites /\ f.sites \subseteq Sites
      /\ d.grants \subseteq Grants /\ f.grants \subseteq Grants
      /\ d.people \in [People -> Persons \cup {NoOne}] /\ f.people \in [People -> Persons \cup {NoOne}]
      /\ d.schedules \subseteq (SUBSET DOMAIN d.links) \ {{}}
    BY DEF Sane, Fitting
<1>2. /\ after.sites = d.sites \cup f.sites /\ after.people = PeopleOf(d, f)
      /\ after.links = Merged(after.sites, d.links, f.links)
      /\ after.grants = d.grants \cup GrantsOf(f, after.sites, after.people)
      /\ after.schedules = d.schedules \cup SchedulesOf(f, after.links)
    BY DEF Joined
<1>3. /\ Extends(after.links, d.links)
      /\ Uniquely(d.links) => Uniquely(after.links)
      /\ \A i \in DOMAIN after.links : i \in DOMAIN d.links \/ after.links[i].name[1] \in after.sites
      /\ \A n \in DOMAIN f.links :
            f.links[n].name[1] \in after.sites /\ ~f.links[n].trash => IdsOf(after.links, {f.links[n].name}) # {}
    <2> DEFINE sites == after.sites
               links == d.links
               rows == f.links
               ls == after.links
    <2>1. links \in Seq(Rows) /\ rows \in Seq(Rows) /\ ls = Merged(sites, links, rows)
        BY <1>1, <1>2
    <2> HIDE DEF sites, links, rows, ls
    <2>2. /\ Extends(ls, links)
          /\ Uniquely(links) => Uniquely(ls)
          /\ \A i \in DOMAIN ls : i \in DOMAIN links \/ ls[i].name[1] \in sites
          /\ \A n \in DOMAIN rows : rows[n].name[1] \in sites /\ ~rows[n].trash => IdsOf(ls, {rows[n].name}) # {}
        BY <2>1, MergedKeeps
    <2>3. QED BY <2>2 DEF sites, links, rows, ls
<1>4. after.links \in Seq(Rows) /\ Uniquely(after.links)
    BY <1>3 DEF Extends, Sane
<1>5. \A i \in DOMAIN after.links : after.links[i].name[1] \in after.sites
    <2>1. ASSUME NEW i \in DOMAIN d.links PROVE after.links[i].name[1] \in d.sites
        BY <1>3 DEF Extends, Sane
    <2>2. QED BY <1>2, <1>3, <2>1
<1>6. after.people \in [People -> Persons \cup {NoOne}] /\ ~Clash(after.people)
    BY <1>1, <1>2 DEF PeopleOf
<1>7. \A g \in d.grants : after.people[g.who] # NoOne /\ g.scope \in after.sites \cup {"all"}
    <2> SUFFICES ASSUME NEW g \in d.grants
                 PROVE  after.people[g.who] # NoOne /\ g.scope \in after.sites \cup {"all"}
        OBVIOUS
    <2>1. g \in Grants /\ g.who \in People /\ d.people[g.who] # NoOne /\ g.scope \in d.sites \cup {"all"}
        BY <1>1 DEF Grants, Sane
    <2>2. after.people[g.who] = d.people[g.who]
        BY <1>2, <2>1 DEF PeopleOf
    <2>3. QED BY <1>2, <2>1, <2>2
<1>8. \A g \in GrantsOf(f, after.sites, after.people) :
         g \in Grants /\ after.people[g.who] # NoOne /\ g.scope \in after.sites \cup {"all"}
    <2> SUFFICES ASSUME NEW h \in f.grants, after.people[h.who] # NoOne,
                        NEW g, g = [h EXCEPT !.scope = IF @ \in after.sites THEN @ ELSE "all"]
                 PROVE  g \in Grants /\ after.people[g.who] # NoOne /\ g.scope \in after.sites \cup {"all"}
        BY DEF GrantsOf
    <2>1. h \in Grants
        BY <1>1
    <2>2. g \in Grants /\ g.who = h.who /\ g.scope \in after.sites \cup {"all"}
        BY <2>1 DEF Grants
    <2>3. QED BY <2>2
<1>9. after.grants \subseteq Grants
    BY <1>1, <1>2, <1>8
<1>10. after.schedules \subseteq (SUBSET DOMAIN after.links) \ {{}}
    <2>1. DOMAIN d.links \subseteq DOMAIN after.links
        BY <1>3 DEF Extends
    <2>2. ASSUME NEW s \in f.schedules, Bound(after.links, s)
          PROVE  IdsOf(after.links, s.names) \in (SUBSET DOMAIN after.links) \ {{}}
        <3>1. IdsOf(after.links, s.names) \subseteq DOMAIN after.links
            BY <1>4, IdsFinite
        <3>2. Cardinality(IdsOf(after.links, s.names)) # 0
            <4>1. s.count \in Nat
                BY DEF Fitting
            <4>2. QED BY <2>2, <4>1 DEF Bound
        <3>3. IdsOf(after.links, s.names) # {}
            BY <3>2, FS_EmptySet
        <3>4. QED BY <3>1, <3>3
    <2>3. SchedulesOf(f, after.links) \subseteq (SUBSET DOMAIN after.links) \ {{}}
        BY <2>2 DEF SchedulesOf
    <2>4. QED BY <1>1, <1>2, <2>1, <2>3
<1>11. after \in [sites: SUBSET Sites, links: Seq(Rows), schedules: SUBSET ((SUBSET DOMAIN after.links) \ {{}}),
                  people: [People -> Persons \cup {NoOne}], grants: SUBSET Grants]
    <2>1. after = [sites |-> after.sites, people |-> after.people, links |-> after.links,
                   grants |-> after.grants, schedules |-> after.schedules]
        BY DEF Joined
    <2>2. after.sites \subseteq Sites
        BY <1>1, <1>2
    <2>3. QED BY <1>4, <1>6, <1>9, <1>10, <2>1, <2>2
<1>12. \A g \in after.grants : after.people[g.who] # NoOne /\ g.scope \in after.sites \cup {"all"}
    BY <1>2, <1>7, <1>8
<1>13. Sane(after)
    BY <1>4, <1>5, <1>6, <1>11, <1>12 DEF Sane
<1>14. QED BY <1>3, <1>13

-----------------------------------------------------------------------------
(* The panel.                                                              *)

\* Other rows of links, and no fewer, leave a database the tables allow.
LEMMA SaneLinks ==
    ASSUME NEW d, Sane(d), NEW ls \in Seq(Rows), DOMAIN d.links \subseteq DOMAIN ls, Uniquely(ls),
           \A i \in DOMAIN ls : ls[i].name[1] \in d.sites
    PROVE  Sane([d EXCEPT !.links = ls])
<1> DEFINE e == [d EXCEPT !.links = ls]
<1>1. d \in [sites: SUBSET Sites, links: Seq(Rows), schedules: SUBSET ((SUBSET DOMAIN d.links) \ {{}}),
             people: [People -> Persons \cup {NoOne}], grants: SUBSET Grants]
    BY DEF Sane
<1>2. e.links = ls /\ e.sites = d.sites /\ e.people = d.people /\ e.grants = d.grants /\ e.schedules = d.schedules
    BY <1>1
<1>3. e.schedules \subseteq (SUBSET DOMAIN e.links) \ {{}}
    BY <1>1, <1>2
<1>4. e \in [sites: SUBSET Sites, links: Seq(Rows), schedules: SUBSET ((SUBSET DOMAIN e.links) \ {{}}),
             people: [People -> Persons \cup {NoOne}], grants: SUBSET Grants]
    BY <1>1, <1>2, <1>3
<1> HIDE DEF e
<1>5. Sane(e)
    BY <1>2, <1>4 DEF Sane
<1>6. QED BY <1>5 DEF e

\* An edit of a sane database that leaves a sane one keeps the invariant: an
\* export under way is torn by it, and one that is over is not.
LEMMA ChangeKeeps ==
    ASSUME BInv, NEW d, Sane(d), Change(d)
    PROVE  BInv'
<1>1. BackupTypeOK'
    BY DEF Change, BInv, BackupTypeOK
<1>2. Fitting(file)'
    BY DEF Change, BInv
<1>3. FileFollows'
    <2>1. ~torn' => ~torn /\ step = 0
        BY DEF Change
    <2>2. UNCHANGED <<file, step, origin>>
        BY DEF Change
    <2>3. FileFollows
        BY DEF BInv
    <2>4. QED BY <2>1, <2>2, <2>3 DEF FileFollows
<1>4. QED BY <1>1, <1>2, <1>3 DEF BInv

\* A link is created only where no live one has its name.
LEMMA CreateKeeps ==
    ASSUME BInv, NEW name \in Names, NEW text \in Texts, CreateLink(name, text)
    PROVE  BInv'
<1> DEFINE row == [name |-> name, text |-> text, trash |-> FALSE]
           ls == Append(db.links, row)
           n == Len(db.links)
           d == [db EXCEPT !.links = ls]
<1>1. Sane(db) /\ db.links \in Seq(Rows) /\ row \in Rows /\ n \in Nat
    BY DEF BInv, BackupTypeOK, Sane, Rows
<1>2. ls \in Seq(Rows) /\ DOMAIN db.links = 1 .. n /\ DOMAIN ls = 1 .. (n + 1)
      /\ ls[n + 1] = row /\ \A i \in 1 .. n : ls[i] = db.links[i]
    BY <1>1
<1>3. name[1] \in db.sites /\ IdsOf(db.links, {name}) = {}
    BY DEF CreateLink
<1>4. DOMAIN db.links \subseteq DOMAIN ls /\ \A i \in DOMAIN ls : i \in DOMAIN db.links \/ i = n + 1
    BY <1>2
<1>5. row.name = name /\ ~row.trash
    OBVIOUS
<1>6. Change(d)
    BY <1>1 DEF CreateLink, Sane
<1> HIDE DEF row, ls, n
<1>7. Uniquely(ls)
    <2> SUFFICES ASSUME NEW i \in LiveIds(ls), NEW j \in LiveIds(ls), ls[i].name = ls[j].name
                 PROVE  i = j
        BY DEF Uniquely
    <2>1. ASSUME NEW k \in LiveIds(ls), k \in DOMAIN db.links PROVE k \in LiveIds(db.links) /\ ls[k].name # name
        BY <1>2, <1>3, <2>1 DEF LiveIds, IdsOf
    <2>2. CASE i \in DOMAIN db.links /\ j \in DOMAIN db.links
        BY <1>1, <1>2, <2>1, <2>2 DEF Uniquely, Sane
    <2>3. CASE i = n + 1 \/ j = n + 1
        BY <1>2, <1>4, <1>5, <2>1, <2>3 DEF LiveIds
    <2>4. QED BY <1>4, <2>2, <2>3 DEF LiveIds
<1>8. \A i \in DOMAIN ls : ls[i].name[1] \in db.sites
    BY <1>1, <1>2, <1>3, <1>4, <1>5 DEF Sane
<1>9. Sane(d)
    BY <1>1, <1>2, <1>4, <1>7, <1>8, SaneLinks
<1> HIDE DEF d
<1>10. QED BY <1>6, <1>9, ChangeKeeps

\* A link that is edited keeps its name, and one that is trashed gives it up.
LEMMA EditKeeps ==
    ASSUME BInv, NEW i \in DOMAIN db.links,
           Trash(i) \/ \E text \in Texts : UpdateLink(i, text)
    PROVE  BInv'
<1>1. Sane(db) /\ db.links \in Seq(Rows)
    BY DEF BInv, BackupTypeOK, Sane
<1>2. PICK row \in Rows : /\ Change([db EXCEPT !.links = [db.links EXCEPT ![i] = row]])
                          /\ row.name = db.links[i].name /\ i \in LiveIds(db.links)
    <2>0. db.links[i] \in Rows
        BY <1>1
    <2>1. CASE Trash(i)
        <3> DEFINE row == [db.links[i] EXCEPT !.trash = TRUE]
        <3>1. row \in Rows /\ row.name = db.links[i].name
            BY <2>0 DEF Rows
        <3>2. Change([db EXCEPT !.links = [db.links EXCEPT ![i] = row]]) /\ i \in LiveIds(db.links)
            BY <1>1, <2>1 DEF Trash, Sane
        <3>3. QED BY <3>1, <3>2
    <2>2. ASSUME NEW text \in Texts, UpdateLink(i, text)
          PROVE  \E row \in Rows : /\ Change([db EXCEPT !.links = [db.links EXCEPT ![i] = row]])
                                   /\ row.name = db.links[i].name /\ i \in LiveIds(db.links)
        <3> DEFINE row == [db.links[i] EXCEPT !.text = text]
        <3>1. row \in Rows /\ row.name = db.links[i].name
            BY <2>0 DEF Rows
        <3>2. Change([db EXCEPT !.links = [db.links EXCEPT ![i] = row]]) /\ i \in LiveIds(db.links)
            BY <1>1, <2>2 DEF UpdateLink, Sane
        <3>3. QED BY <3>1, <3>2
    <2>3. QED BY <2>1, <2>2
<1> DEFINE ls == [db.links EXCEPT ![i] = row]
           d == [db EXCEPT !.links = ls]
<1>3. ls \in Seq(Rows) /\ DOMAIN ls = DOMAIN db.links
    BY <1>1
<1>4. \A k \in DOMAIN ls : ls[k].name = db.links[k].name /\ (k \in LiveIds(ls) => k \in LiveIds(db.links))
    BY <1>1, <1>2, <1>3 DEF LiveIds
<1>5. Uniquely(ls)
    BY <1>1, <1>3, <1>4 DEF Uniquely, Sane, LiveIds
<1>6. \A k \in DOMAIN ls : ls[k].name[1] \in db.sites
    BY <1>1, <1>3, <1>4 DEF Sane
<1>7. Sane(d)
    <2> HIDE DEF ls
    <2>1. QED BY <1>1, <1>3, <1>5, <1>6, SaneLinks
<1>8. Change(d)
    BY <1>2
<1> HIDE DEF d
<1>9. QED BY <1>7, <1>8, ChangeKeeps

\* The other edits: a domain, a schedule, a grant.
LEMMA OthersKeep ==
    ASSUME BInv,
           \/ \E s \in Sites : AddSite(s)
           \/ \E S \in SUBSET DOMAIN db.links : Schedule(S)
           \/ \E g \in Grants : AddGrant(g) \/ RemoveGrant(g)
    PROVE  BInv'
<1>1. Sane(db)
    BY DEF BInv, BackupTypeOK
<1>2. db \in [sites: SUBSET Sites, links: Seq(Rows), schedules: SUBSET ((SUBSET DOMAIN db.links) \ {{}}),
              people: [People -> Persons \cup {NoOne}], grants: SUBSET Grants]
    BY <1>1 DEF Sane
<1>3. ASSUME NEW s \in Sites, AddSite(s) PROVE BInv'
    <2> DEFINE d == [db EXCEPT !.sites = db.sites \cup {s}]
    <2>1. Change(d)
        BY <1>2, <1>3 DEF AddSite
    <2>2. Sane(d)
        BY <1>1, <1>2 DEF Sane
    <2> HIDE DEF d
    <2>3. QED BY <2>1, <2>2, ChangeKeeps
<1>4. ASSUME NEW S \in SUBSET DOMAIN db.links, Schedule(S) PROVE BInv'
    <2> DEFINE d == [db EXCEPT !.schedules = db.schedules \cup {S}]
    <2>1. Change(d) /\ S # {}
        BY <1>2, <1>4 DEF Schedule
    <2>2. Sane(d)
        BY <1>1, <1>2, <2>1 DEF Sane
    <2> HIDE DEF d
    <2>3. QED BY <2>1, <2>2, ChangeKeeps
<1>5. ASSUME NEW g \in Grants, AddGrant(g) PROVE BInv'
    <2> DEFINE d == [db EXCEPT !.grants = db.grants \cup {g}]
    <2>1. Change(d) /\ db.people[g.who] # NoOne /\ g.scope \in db.sites \cup {"all"}
        BY <1>2, <1>5 DEF AddGrant
    <2>2. Sane(d)
        BY <1>1, <1>2, <2>1 DEF Sane
    <2> HIDE DEF d
    <2>3. QED BY <2>1, <2>2, ChangeKeeps
<1>6. ASSUME NEW g \in Grants, RemoveGrant(g) PROVE BInv'
    <2> DEFINE d == [db EXCEPT !.grants = db.grants \ {g}]
    <2>1. Change(d)
        BY <1>2, <1>6 DEF RemoveGrant
    <2>2. Sane(d)
        BY <1>1, <1>2 DEF Sane
    <2> HIDE DEF d
    <2>3. QED BY <2>1, <2>2, ChangeKeeps
<1>7. QED BY <1>3, <1>4, <1>5, <1>6

-----------------------------------------------------------------------------
(* The export, the restore, and the invariant.                             *)

\* An empty file can be restored.
LEMMA EmptyFits == Fitting(Empty)
<1>1. Empty \in [sites: SUBSET Sites, links: Seq(Rows), schedules: SUBSET [names: SUBSET Names, count: Nat],
                 people: [People -> Persons \cup {NoOne}], grants: SUBSET Grants]
    BY DEF Empty
<1>2. Empty.schedules = {}
    BY DEF Empty
<1>3. QED BY <1>1, <1>2 DEF Fitting

\* The file's tables are the five, and each table of a database is written as one
\* that can be restored.
LEMMA TablesAre ==
    /\ Len(Tables) = 5 /\ DOMAIN Tables = 1 .. 5
    /\ Tables[1] = "sites" /\ Tables[2] = "links" /\ Tables[3] = "schedules"
    /\ Tables[4] = "people" /\ Tables[5] = "grants"
BY DEF Tables

\* A file with one more table written can be restored.
LEMMA WriteFits ==
    ASSUME NEW f, Fitting(f), NEW d, Sane(d), NEW n \in 1 .. 5
    PROVE  Fitting([f EXCEPT ![Tables[n]] = RowsOf(d, Tables[n])])
<1> DEFINE Types == [sites: SUBSET Sites, links: Seq(Rows), schedules: SUBSET [names: SUBSET Names, count: Nat],
                     people: [People -> Persons \cup {NoOne}], grants: SUBSET Grants]
           h == [f EXCEPT ![Tables[n]] = RowsOf(d, Tables[n])]
<1>1. f \in Types /\ \A s \in f.schedules : IsFiniteSet(s.names) /\ Cardinality(s.names) <= s.count
    BY DEF Fitting
<1>2. d.sites \in SUBSET Sites /\ d.links \in Seq(Rows) /\ d.people \in [People -> Persons \cup {NoOne}]
      /\ d.grants \in SUBSET Grants
    BY DEF Sane
<1>3. CASE n = 3
    <2> DEFINE T == {Targets(d, S) : S \in d.schedules}
    <2>1. T \in SUBSET [names: SUBSET Names, count: Nat]
          /\ \A s \in T : IsFiniteSet(s.names) /\ Cardinality(s.names) <= s.count
        BY TargetsFit
    <2>2. h = [f EXCEPT !.schedules = T]
        BY <1>3, TablesAre DEF RowsOf
    <2> HIDE DEF T, h
    <2>3. h \in Types /\ h.schedules = T
        BY <1>1, <2>1, <2>2
    <2>4. QED BY <2>1, <2>3 DEF Fitting, h
<1>4. CASE n # 3
    <2>1. h \in Types /\ h.schedules = f.schedules
        <3>1. CASE n = 1
            <4>1. h = [f EXCEPT !.sites = d.sites]
                BY <3>1, TablesAre DEF RowsOf
            <4>2. QED BY <1>1, <1>2, <4>1
        <3>2. CASE n = 2
            <4>1. h = [f EXCEPT !.links = d.links]
                BY <3>2, TablesAre DEF RowsOf
            <4>2. QED BY <1>1, <1>2, <4>1
        <3>3. CASE n = 4
            <4>1. h = [f EXCEPT !.people = d.people]
                BY <3>3, TablesAre DEF RowsOf
            <4>2. QED BY <1>1, <1>2, <4>1
        <3>4. CASE n = 5
            <4>1. h = [f EXCEPT !.grants = d.grants]
                BY <3>4, TablesAre DEF RowsOf
            <4>2. QED BY <1>1, <1>2, <4>1
        <3>5. QED BY <1>4, <3>1, <3>2, <3>3, <3>4
    <2>2. QED BY <1>1, <2>1 DEF Fitting
<1>5. QED BY <1>3, <1>4

\* A table is written as the database has it now, which is as the export began
\* with it unless the export is torn.
LEMMA ExportKeeps ==
    ASSUME BInv, ExportTable
    PROVE  BInv'
<1> DEFINE base == IF step = 0 THEN Empty ELSE file
           next == IF step = 0 THEN 1 ELSE step
<1>1. Sane(db) /\ step \in 0 .. 5 /\ Fitting(base)
    BY EmptyFits, TablesAre DEF BInv, BackupTypeOK
<1>2. next \in 1 .. 5
    BY <1>1
<1>3. /\ file' = [base EXCEPT ![Tables[next]] = RowsOf(db, Tables[next])]
      /\ step' = IF next = 5 THEN 0 ELSE next + 1
      /\ origin' = IF step = 0 THEN db ELSE origin
      /\ torn' = (step # 0 /\ torn) /\ UNCHANGED <<db, changes, moves>>
    BY TablesAre DEF ExportTable
<1>4. BackupTypeOK'
    <2>1. step' \in 0 .. Len(Tables)
        BY <1>2, <1>3, TablesAre
    <2>2. torn' \in BOOLEAN
        BY <1>3 DEF BInv, BackupTypeOK
    <2>3. QED BY <1>3, <2>1, <2>2 DEF BInv, BackupTypeOK
<1>5. Fitting(file')
    <2> HIDE DEF base, next
    <2>1. QED BY <1>1, <1>2, <1>3, WriteFits
<1>6. FileFollows'
    <2> SUFFICES ASSUME ~torn'
                 PROVE  /\ Sane(origin)' /\ (step' # 0 => origin' = db')
                        /\ \A n \in 1 .. 5 : step' = 0 \/ n < step' => file'[Tables[n]] = RowsOf(origin', Tables[n])
        BY TablesAre DEF FileFollows
    <2>1. origin' = db /\ \A n \in 1 .. 5 : n < next => base[Tables[n]] = RowsOf(db, Tables[n])
        <3>1. CASE step = 0
            BY <1>3, <3>1
        <3>2. CASE step # 0
            BY <1>3, <3>2, TablesAre DEF BInv, FileFollows
        <3>3. QED BY <3>1, <3>2
    <2>2. \A n \in 1 .. 5 : Tables[n] \in DOMAIN base
        <3>1. DOMAIN base = {"sites", "links", "schedules", "people", "grants"}
            BY <1>1 DEF Fitting
        <3>2. QED BY <3>1, TablesAre
    <2> HIDE DEF base
    <2>3. ASSUME NEW n \in 1 .. 5, n <= next PROVE file'[Tables[n]] = RowsOf(db, Tables[n])
        <3>1. CASE Tables[n] = Tables[next]
            BY <1>3, <2>2, <3>1
        <3>2. CASE Tables[n] # Tables[next]
            <4>1. n < next
                BY <1>2, <2>3, <3>2
            <4>2. file'[Tables[n]] = base[Tables[n]]
                BY <1>3, <2>2, <3>2
            <4>3. QED BY <2>1, <4>1, <4>2
        <3>3. QED BY <3>1, <3>2
    <2> HIDE DEF next
    <2>4. \A n \in 1 .. 5 : step' = 0 \/ n < step' => n <= next
        BY <1>2, <1>3
    <2>5. QED BY <1>1, <1>3, <2>1, <2>3, <2>4
<1>7. QED BY <1>4, <1>5, <1>6 DEF BInv

\* A restore is into a database the tables allow, and leaves one.
LEMMA RestoreKeeps ==
    ASSUME BInv, (\E dryRun \in BOOLEAN : Restore(dryRun)) \/ Reinstall
    PROVE  BInv'
<1>1. Sane(db) /\ Fitting(file) /\ FileFollows /\ moves \in Nat /\ changes \in Nat
    BY DEF BInv, BackupTypeOK
<1>2. Sane(Restored(db, file))
    <2> DEFINE after == Restored(db, file)
    <2> HIDE DEF after
    <2>1. /\ Clash(PeopleOf(db, file)) => after = db
          /\ ~Clash(PeopleOf(db, file)) => Joined(db, file, after)
        BY RestoredIs DEF after
    <2>2. CASE Clash(PeopleOf(db, file))
        BY <1>1, <2>1, <2>2 DEF after
    <2>3. CASE ~Clash(PeopleOf(db, file))
        <3>1. Sane(after)
            BY <1>1, <2>1, <2>3, JoinedSane
        <3>2. QED BY <3>1 DEF after
    <2>4. QED BY <2>2, <2>3
<1>3. Sane(db')
    <2>1. CASE Reinstall
        BY <2>1, BackupConstants DEF Reinstall
    <2>2. CASE \E dryRun \in BOOLEAN : Restore(dryRun)
        BY <1>1, <1>2, <2>2 DEF Restore
    <2>3. QED BY <2>1, <2>2
<1>4. step = 0 /\ moves' = moves + 1 /\ UNCHANGED <<file, step, origin, torn, changes>>
    BY DEF Restore, Reinstall, Move
<1>5. BackupTypeOK'
    BY <1>1, <1>3, <1>4 DEF BInv, BackupTypeOK
<1>6. FileFollows'
    BY <1>1, <1>4 DEF FileFollows
<1>7. QED BY <1>1, <1>4, <1>5, <1>6 DEF BInv

\* A database to start from is one the tables allow, and no file is there yet.
LEMMA BackupStarts == BackupInit => BInv
<1> SUFFICES ASSUME BackupInit PROVE BInv
    OBVIOUS
<1>1. Sane(db) /\ file = Empty /\ step = 0 /\ torn = FALSE /\ changes = 0 /\ moves = 0
    BY BackupConstants DEF BackupInit
<1>2. BackupTypeOK
    <2>1. step \in 0 .. Len(Tables)
        BY <1>1, TablesAre
    <2>2. torn \in BOOLEAN
        BY <1>1
    <2>3. {changes, moves} \subseteq Nat
        BY <1>1
    <2>4. QED BY <1>1, <2>1, <2>2, <2>3 DEF BackupTypeOK
<1>3. FileFollows
    BY <1>1 DEF FileFollows
<1>4. QED BY <1>1, <1>2, <1>3, EmptyFits DEF BInv

\* Every step keeps the invariant.
LEMMA BackupSteps == BInv /\ [BackupNext]_backup => BInv'
<1> SUFFICES ASSUME BInv, [BackupNext]_backup PROVE BInv'
    OBVIOUS
<1>1. ASSUME NEW name \in Names, NEW text \in Texts, CreateLink(name, text) PROVE BInv'
    BY <1>1, CreateKeeps
<1>2. ASSUME NEW i \in DOMAIN db.links, Trash(i) \/ \E text \in Texts : UpdateLink(i, text) PROVE BInv'
    BY <1>2, EditKeeps
<1>3. ASSUME NEW who \in People, NEW ability \in Grantable, NEW scope \in Sites \cup {"all"},
             LET g == [who |-> who, ability |-> ability, scope |-> scope] IN AddGrant(g) \/ RemoveGrant(g)
      PROVE  BInv'
    <2> DEFINE g == [who |-> who, ability |-> ability, scope |-> scope]
    <2>1. g \in Grants /\ (AddGrant(g) \/ RemoveGrant(g))
        BY <1>3 DEF Grants
    <2> HIDE DEF g
    <2>2. QED BY <2>1, OthersKeep
<1>4. ASSUME (\E s \in Sites : AddSite(s)) \/ (\E S \in SUBSET DOMAIN db.links : Schedule(S)) PROVE BInv'
    BY <1>4, OthersKeep
<1>5. CASE ExportTable
    BY <1>5, ExportKeeps
<1>6. CASE (\E dryRun \in BOOLEAN : Restore(dryRun)) \/ Reinstall
    BY <1>6, RestoreKeeps
<1>7. CASE UNCHANGED backup
    BY <1>7 DEF backup, BInv, BackupTypeOK, Sane, Fitting, FileFollows
<1>8. QED BY <1>1, <1>2, <1>3, <1>4, <1>5, <1>6, <1>7 DEF BackupNext

\* In every state of the panel, the export and the restore: the database is one its
\* tables allow; the file can be restored, however often the panel wrote between
\* two of its tables; and a file of a database nobody changed meanwhile holds it.
THEOREM BackupInductive == BackupSpec => []BInv
<1>1. BackupInit => BInv
    BY BackupStarts
<1>2. BInv /\ [BackupNext]_backup => BInv'
    BY BackupSteps
<1>3. QED BY <1>1, <1>2, PTL DEF BackupSpec

-----------------------------------------------------------------------------
(* A restore merges.                                                       *)

\* What was there is there, as it was.
LEMMA RestorePreserves ==
    ASSUME NEW d, Sane(d), NEW f, Fitting(f), NEW once, once = Restored(d, f)
    PROVE  Preserved(d, once)
<1>1. CASE Clash(PeopleOf(d, f))
    <2>1. once = d
        BY <1>1, RestoredIs
    <2>2. QED BY <2>1 DEF Preserved
<1>2. CASE ~Clash(PeopleOf(d, f))
    <2>1. Joined(d, f, once)
        BY <1>2, RestoredIs
    <2>2. Extends(once.links, d.links)
        BY <1>2, <2>1, JoinedSane
    <2>3. QED BY <2>1, <2>2 DEF Joined, Preserved, PeopleOf, Extends
<1>3. QED BY <1>1, <1>2

\* Restored once more a file adds deleted links, and nothing else.
LEMMA RestoreAgain ==
    ASSUME NEW d, Sane(d), NEW f, Fitting(f), NEW once, once = Restored(d, f),
           NEW twice, twice = Restored(once, f)
    PROVE  LivePart(twice) = LivePart(once)
<1>1. CASE Clash(PeopleOf(d, f))
    <2>1. once = d
        BY <1>1, RestoredIs
    <2>2. QED BY <2>1
<1>2. CASE ~Clash(PeopleOf(d, f))
    <2>1. Joined(d, f, once)
        BY <1>2, RestoredIs
    <2>2. Sane(once) /\ \A n \in DOMAIN f.links : f.links[n].name[1] \in once.sites /\ ~f.links[n].trash
                                                     => IdsOf(once.links, {f.links[n].name}) # {}
        BY <1>2, <2>1, JoinedSane
    <2>3. PeopleOf(once, f) = once.people /\ ~Clash(once.people)
        BY <1>2, <2>1 DEF Joined, PeopleOf
    <2>4. Joined(once, f, twice)
        BY <2>3, RestoredIs
    <2>5. twice.sites = once.sites /\ twice.people = once.people
        BY <2>1, <2>3, <2>4 DEF Joined
    <2>6. once.links \in Seq(Rows) /\ f.links \in Seq(Rows)
        BY <2>2 DEF Sane, Fitting
    <2>7. Extends(twice.links, once.links) /\ LiveIds(twice.links) = LiveIds(once.links)
        <3> DEFINE sites == once.sites
                   links == once.links
                   rows == f.links
                   ls == twice.links
        <3>1. links \in Seq(Rows) /\ rows \in Seq(Rows) /\ ls = Merged(sites, links, rows)
            BY <2>4, <2>5, <2>6 DEF Joined
        <3>2. Placed(sites, links, rows)
            BY <2>2 DEF Placed
        <3> HIDE DEF sites, links, rows, ls
        <3>3. Extends(ls, links) /\ LiveIds(ls) = LiveIds(links)
            BY ONLY <3>1, <3>2, MergedAgain
        <3>4. QED BY <3>3 DEF links, ls
    <2>8. \A i \in LiveIds(once.links) : twice.links[i] = once.links[i]
        BY <2>7 DEF Extends, LiveIds
    <2>9. \A names : IdsOf(twice.links, names) = IdsOf(once.links, names)
        BY <2>7, <2>8 DEF IdsOf
    <2>10. twice.grants = once.grants
        BY <2>1, <2>4, <2>5 DEF Joined
    <2>11. twice.schedules = once.schedules
        <3>1. SchedulesOf(f, twice.links) = SchedulesOf(f, once.links)
            BY <2>9 DEF SchedulesOf, Bound
        <3>2. QED BY <2>1, <2>4, <3>1 DEF Joined
    <2>12. {twice.links[i] : i \in LiveIds(twice.links)} = {once.links[i] : i \in LiveIds(once.links)}
        BY <2>7, <2>8
    <2>13. QED BY <2>1, <2>4, <2>5, <2>10, <2>11, <2>12 DEF Joined, LivePart
<1>3. QED BY <1>1, <1>2

\* A schedule comes back onto as many live links of its targets' names as it had.
LEMMA RestoreBinds ==
    ASSUME NEW d, Sane(d), NEW f, Fitting(f), NEW once, once = Restored(d, f),
           NEW S \in once.schedules \ d.schedules
    PROVE  \E s \in f.schedules : /\ S \subseteq LiveIds(once.links) /\ Cardinality(S) = s.count
                                  /\ {once.links[i].name : i \in S} = s.names
<1>1. ~Clash(PeopleOf(d, f)) /\ Joined(d, f, once)
    BY RestoredIs
<1>2. Sane(once)
    BY <1>1, JoinedSane
<1>3. PICK s \in f.schedules : Bound(once.links, s) /\ S = IdsOf(once.links, s.names)
    BY <1>1 DEF Joined, SchedulesOf
<1>4. IsFiniteSet(s.names) /\ Cardinality(s.names) <= s.count /\ Cardinality(S) = s.count
    BY <1>3 DEF Bound, Fitting
<1>5. once.links \in Seq(Rows) /\ Uniquely(once.links)
    BY <1>2 DEF Sane
<1>6. {once.links[i].name : i \in S} = s.names
    <2> DEFINE links == once.links
               names == s.names
    <2>1. links \in Seq(Rows) /\ Uniquely(links) /\ IsFiniteSet(names)
          /\ Cardinality(IdsOf(links, names)) >= Cardinality(names)
        <3>1. Cardinality(s.names) \in Nat /\ s.count \in Nat
            BY <1>4, FS_CardinalityType DEF Fitting
        <3>2. QED BY <1>3, <1>4, <1>5, <3>1
    <2> HIDE DEF links, names
    <2>2. {links[i].name : i \in IdsOf(links, names)} = names
        BY <2>1, BoundToAll
    <2>3. QED BY <1>3, <2>2 DEF links, names
<1>7. S \subseteq LiveIds(once.links)
    BY <1>3 DEF IdsOf
<1>8. QED BY <1>4, <1>6, <1>7

\* f is what an export wrote of o, which nobody changed meanwhile.
WrittenOf(o, f) == \A n \in 1 .. 5 : f[Tables[n]] = RowsOf(o, Tables[n])

\* Table by table.
LEMMA TablesWritten ==
    ASSUME NEW o, NEW f, WrittenOf(o, f)
    PROVE  /\ f.sites = o.sites /\ f.links = o.links /\ f.people = o.people /\ f.grants = o.grants
           /\ f.schedules = {Targets(o, S) : S \in o.schedules}
BY TablesAre DEF WrittenOf, RowsOf

\* The grants of a database are restored as they were.
LEMMA GrantsRestored ==
    ASSUME NEW o, Sane(o), NEW f, WrittenOf(o, f), NEW d, NEW once, Joined(d, f, once)
    PROVE  GrantsOf(f, once.sites, once.people) = {g \in o.grants : once.people[g.who] # NoOne}
<1>1. f.grants = o.grants /\ f.sites \subseteq once.sites /\ f.sites = o.sites
    BY TablesWritten DEF Joined
<1>2. f.grants \subseteq Grants /\ \A g \in f.grants : g.scope \in once.sites \cup {"all"}
    BY <1>1 DEF Sane
<1>3. GrantsOf(f, once.sites, once.people) = {g \in f.grants : once.people[g.who] # NoOne}
    BY <1>2, GrantsKept
<1>4. QED BY <1>1, <1>3

\* Nobody can do after a restore what they could do neither here nor there.
LEMMA RestoreGrants ==
    ASSUME NEW o, Sane(o), NEW f, WrittenOf(o, f), NEW d, NEW once, once = Restored(d, f),
           NEW p \in People, NEW a, NEW s, Can(once, p, a, s)
    PROVE  Can(d, p, a, s) \/ Can(o, p, a, s)
<1>1. CASE Clash(PeopleOf(d, f))
    BY <1>1, RestoredIs
<1>2. CASE ~Clash(PeopleOf(d, f))
    <2>1. Joined(d, f, once)
        BY <1>2, RestoredIs
    <2>2. once.people[p] = d.people[p] \/ once.people[p] = o.people[p]
        BY <2>1, TablesWritten DEF Joined, PeopleOf
    <2>3. once.grants \subseteq d.grants \cup o.grants
        BY <2>1, GrantsRestored, SMTT(30) DEF Joined
    <2>4. QED BY <2>2, <2>3 DEF Can
<1>3. QED BY <1>1, <1>2

\* On an empty installation a restore rebuilds the database the file was written
\* of, with each schedule that has no deleted link.
LEMMA RestoreRebuilds ==
    ASSUME NEW o, Sane(o), NEW f, Fitting(f), WrittenOf(o, f), NEW fresh, fresh = Restored(Empty, f)
    PROVE  /\ [fresh EXCEPT !.schedules = {}] = [o EXCEPT !.schedules = {}]
           /\ {S \in o.schedules : S \subseteq LiveIds(o.links)} \subseteq fresh.schedules
<1>1. /\ f.sites = o.sites /\ f.links = o.links /\ f.people = o.people /\ f.grants = o.grants
      /\ f.schedules = {Targets(o, S) : S \in o.schedules}
    BY TablesWritten
<1>2. /\ o \in [sites: SUBSET Sites, links: Seq(Rows), schedules: SUBSET ((SUBSET DOMAIN o.links) \ {{}}),
                people: [People -> Persons \cup {NoOne}], grants: SUBSET Grants]
      /\ \A i \in DOMAIN o.links : o.links[i].name[1] \in o.sites
      /\ Uniquely(o.links) /\ ~Clash(o.people)
      /\ \A g \in o.grants : o.people[g.who] # NoOne
    BY DEF Sane
<1>3. PeopleOf(Empty, f) = o.people
    BY <1>1, <1>2 DEF PeopleOf, Empty
<1>4. Joined(Empty, f, fresh)
    BY <1>2, <1>3, RestoredIs
<1>5. fresh.sites = o.sites /\ fresh.people = o.people
    BY <1>1, <1>3, <1>4 DEF Joined, Empty
<1>6. fresh.links = o.links
    <2>1. fresh.links = Merged(o.sites, <<>>, o.links)
        BY <1>1, <1>4, <1>5 DEF Joined, Empty
    <2> DEFINE sites == o.sites
               rows == o.links
    <2>2. rows \in Seq(Rows) /\ Uniquely(rows) /\ \A n \in DOMAIN rows : rows[n].name[1] \in sites
        BY <1>2
    <2> HIDE DEF sites, rows
    <2>3. Merged(sites, <<>>, rows) = rows
        BY <2>2, MergedAnew
    <2>4. QED BY <2>1, <2>3 DEF sites, rows
<1>7. fresh.grants = o.grants
    <2>1. fresh.grants = GrantsOf(f, fresh.sites, fresh.people)
        BY <1>4 DEF Joined, Empty
    <2>2. GrantsOf(f, fresh.sites, fresh.people) = {g \in o.grants : fresh.people[g.who] # NoOne}
        BY <1>4, GrantsRestored
    <2>3. QED BY <1>2, <1>5, <2>1, <2>2
<1>8. [fresh EXCEPT !.schedules = {}] = [o EXCEPT !.schedules = {}]
    <2>1. fresh = [sites |-> o.sites, people |-> o.people, links |-> o.links,
                   grants |-> o.grants, schedules |-> fresh.schedules]
        BY <1>4, <1>5, <1>6, <1>7 DEF Joined
    <2>2. o = [sites |-> o.sites, people |-> o.people, links |-> o.links,
               grants |-> o.grants, schedules |-> o.schedules]
        BY <1>2
    <2> DEFINE T == fresh.schedules
    <2> HIDE DEF T
    <2>3. QED BY <2>1, <2>2
<1>9. ASSUME NEW S \in o.schedules, S \subseteq LiveIds(o.links) PROVE S \in fresh.schedules
    <2> DEFINE s == Targets(o, S)
    <2>1. s \in f.schedules /\ s.names = {o.links[i].name : i \in S} /\ s.count = Cardinality(S)
        BY <1>1 DEF Targets
    <2>2. S # {} /\ IsFiniteSet(S)
        BY TargetsFit
    <2>3. Cardinality(S) \in Nat /\ Cardinality(S) > 0
        <3>1. Cardinality(S) \in Nat
            BY <2>2, FS_CardinalityType
        <3>2. Cardinality(S) # 0
            BY <2>2, FS_EmptySet
        <3>3. QED BY <3>1, <3>2
    <2> HIDE DEF s
    <2>4. IdsOf(o.links, s.names) = S
        BY <1>2, <1>9, <2>1 DEF IdsOf, Uniquely
    <2>5. Bound(fresh.links, s)
        BY <1>6, <2>1, <2>3, <2>4 DEF Bound
    <2>6. S \in SchedulesOf(f, fresh.links)
        BY <1>6, <2>1, <2>4, <2>5 DEF SchedulesOf
    <2>7. QED BY <1>4, <2>6 DEF Joined
<1>10. QED BY <1>8, <1>9

\* Whatever the panel does before, while and after tables are exported, and
\* whatever the file is restored into, importAll merges: it changes nothing that
\* was there, adds nothing but deleted links when it is repeated, brings schedules
\* back onto all of their links or not at all, and from a file nobody wrote under
\* gives nobody a new ability and rebuilds the database on an empty one.
THEOREM RestoreMergesAlways == BackupSpec => []RestoreMerges
<1>1. BInv => RestoreMerges
    <2> SUFFICES ASSUME BInv, step = 0, file # Empty,
                        NEW once, once = Restored(db, file), NEW fresh, fresh = Restored(Empty, file)
                 PROVE  /\ Preserved(db, once)
                        /\ LivePart(Restored(once, file)) = LivePart(once)
                        /\ \A S \in once.schedules \ db.schedules : \E s \in file.schedules :
                              /\ S \subseteq LiveIds(once.links) /\ Cardinality(S) = s.count
                              /\ {once.links[i].name : i \in S} = s.names
                        /\ ~torn =>
                              /\ \A p \in People, a \in Abilities, s \in Sites :
                                    Can(once, p, a, s) => Can(db, p, a, s) \/ Can(origin, p, a, s)
                              /\ [fresh EXCEPT !.schedules = {}] = [origin EXCEPT !.schedules = {}]
                              /\ {S \in origin.schedules : S \subseteq LiveIds(origin.links)} \subseteq fresh.schedules
        BY DEF RestoreMerges
    <2>1. Sane(db) /\ Fitting(file)
        BY DEF BInv, BackupTypeOK
    <2>2. Preserved(db, once)
        BY <2>1, RestorePreserves
    <2>3. LivePart(Restored(once, file)) = LivePart(once)
        BY <2>1, RestoreAgain
    <2>4. \A S \in once.schedules \ db.schedules : \E s \in file.schedules :
             /\ S \subseteq LiveIds(once.links) /\ Cardinality(S) = s.count
             /\ {once.links[i].name : i \in S} = s.names
        BY <2>1, RestoreBinds
    <2>5. ASSUME ~torn
          PROVE  /\ \A p \in People, a \in Abilities, s \in Sites :
                       Can(once, p, a, s) => Can(db, p, a, s) \/ Can(origin, p, a, s)
                 /\ [fresh EXCEPT !.schedules = {}] = [origin EXCEPT !.schedules = {}]
                 /\ {S \in origin.schedules : S \subseteq LiveIds(origin.links)} \subseteq fresh.schedules
        <3>1. Sane(origin) /\ WrittenOf(origin, file)
            BY <2>5, TablesAre DEF BInv, FileFollows, WrittenOf
        <3>2. \A p \in People, a \in Abilities, s \in Sites :
                 Can(once, p, a, s) => Can(db, p, a, s) \/ Can(origin, p, a, s)
            BY <3>1, RestoreGrants
        <3>3. /\ [fresh EXCEPT !.schedules = {}] = [origin EXCEPT !.schedules = {}]
              /\ {S \in origin.schedules : S \subseteq LiveIds(origin.links)} \subseteq fresh.schedules
            BY <2>1, <3>1, RestoreRebuilds
        <3>4. QED BY <3>2, <3>3
    <2>6. QED BY <2>2, <2>3, <2>4, <2>5
<1>2. QED BY <1>1, BackupInductive, PTL
=============================================================================
