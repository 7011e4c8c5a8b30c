----------------------------- MODULE PureProofs -----------------------------
(***************************************************************************)
(* What the program computes without changing anything, for inputs of any  *)
(* size: what the panel and the edge make of one link, what a geolocation  *)
(* database is read as, what usage comes to, and what a report adds up to. *)
(***************************************************************************)
EXTENDS Editor, GeoReader, Usage, Reports, FiniteSetTheorems, SequenceTheorems, WellFoundedInduction, TLAPS

-----------------------------------------------------------------------------
(* Induction.  What is shown of every number is shown of the least that    *)
(* would not have it.                                                      *)

\* A set of naturals has a least element.
LEMMA LeastOf ==
    ASSUME NEW T \in SUBSET Nat, T # {}
    PROVE  \E n \in T : \A m \in T : n <= m
<1>1. PICK n \in T : \A m \in T : ~(<<m, n>> \in OpToRel(<, Nat))
    BY NatLessThanWellFounded, WFMin
<1>2. \A m \in T : ~(m < n)
    BY <1>1 DEF OpToRel
<1>3. QED BY <1>2

-----------------------------------------------------------------------------
(* Parameters.                                                             *)

\* A key's first value is at the first place that has the key.
LEMMA FirstIs ==
    ASSUME NEW T, NEW query \in Seq(T), NEW k \in KeysOf(query)
    PROVE  \E i \in DOMAIN query : query[i][1] = k /\ FirstOf(query)[k] = query[i][2]
<1> DEFINE At(i) == query[i][1] = k /\ \A j \in 1..(i - 1) : query[j][1] # k
           Places == {i \in DOMAIN query : query[i][1] = k}
<1>1. DOMAIN query = 1 .. Len(query) /\ Len(query) \in Nat
    OBVIOUS
<1>2. PICK i \in Places : \A j \in Places : i <= j
    <2>1. Places \subseteq Nat /\ Places # {}
        BY <1>1 DEF KeysOf
    <2>2. QED BY <2>1, LeastOf
<1>3. At(i) /\ i \in DOMAIN query
    <2>1. ASSUME NEW j \in 1 .. (i - 1), query[j][1] = k PROVE FALSE
        <3>1. j \in DOMAIN query /\ j < i
            BY <1>1, <1>2
        <3>2. QED BY <1>2, <2>1, <3>1
    <2>2. QED BY <1>2, <2>1
<1> DEFINE at == CHOOSE j \in DOMAIN query : At(j)
<1>4. at \in DOMAIN query /\ At(at)
    BY <1>3
<1>5. FirstOf(query)[k] = query[at][2]
    BY DEF FirstOf
<1> HIDE DEF at
<1>6. QED BY <1>4, <1>5

\* Which is the only one when no key repeats.
LEMMA OnlyIs ==
    ASSUME NEW T, NEW query \in Seq(T), \A i, j \in DOMAIN query : i # j => query[i][1] # query[j][1],
           NEW i \in DOMAIN query
    PROVE  FirstOf(query)[query[i][1]] = query[i][2] /\ LastOf(query)[query[i][1]] = query[i][2]
           /\ KeysOf(Reverse(query)) = KeysOf(query)
<1> DEFINE k == query[i][1]
           back == Reverse(query)
           n == Len(query)
<1>1. DOMAIN query = 1 .. n /\ n \in Nat /\ k \in KeysOf(query)
    BY DEF KeysOf
<1>2. back \in Seq(T) /\ DOMAIN back = 1 .. n /\ \A j \in 1 .. n : back[j] = query[n - j + 1]
    BY DEF Reverse
<1>3. PICK j \in DOMAIN query : query[j][1] = k /\ FirstOf(query)[k] = query[j][2]
    BY <1>1, FirstIs
<1>4. FirstOf(query)[k] = query[i][2]
    BY <1>3
<1>5. \A m \in 1 .. n : (n - m + 1) \in 1 .. n /\ n - (n - m + 1) + 1 = m
    BY <1>1
<1>6. KeysOf(back) = KeysOf(query)
    <2> HIDE DEF back, n
    <2>1. KeysOf(back) \subseteq KeysOf(query)
        <3> SUFFICES ASSUME NEW w \in DOMAIN back PROVE back[w][1] \in KeysOf(query)
            BY DEF KeysOf
        <3>1. PICK m \in DOMAIN query : back[w] = query[m]
            BY <1>1, <1>2, <1>5
        <3>2. QED BY <3>1 DEF KeysOf
    <2>2. ASSUME NEW m \in 1 .. n PROVE query[m][1] \in KeysOf(back)
        <3>1. PICK w \in DOMAIN back : back[w] = query[m]
            BY <1>2, <1>5
        <3>2. query[m][1] = back[w][1]
            BY <3>1
        <3>3. QED BY <3>2 DEF KeysOf
    <2>3. QED BY <1>1, <2>1, <2>2 DEF KeysOf
<1>7. PICK m \in DOMAIN back : back[m][1] = k /\ FirstOf(back)[k] = back[m][2]
    <2> HIDE DEF back, k
    <2>1. QED BY <1>1, <1>2, <1>6, FirstIs
<1>8. back[m] = query[n - m + 1] /\ (n - m + 1) \in DOMAIN query
    BY <1>1, <1>2, <1>5
<1>9. LastOf(query)[k] = query[i][2]
    BY <1>7, <1>8 DEF LastOf
<1>10. QED BY <1>4, <1>6, <1>9

\* A set of parameters laid out in a row is the same set read back.
LEMMA LaidOut ==
    ASSUME NEW D, IsFiniteSet(D), Blank \notin D, NEW X, NEW f \in [D -> X],
           NEW S, \A x : x \in S <=> \E k \in D : x = <<k, f[k]>>
    PROVE  ~Repeats(SetToSeq(S)) /\ Given(SetToSeq(S)) = f
<1> DEFINE n == Cardinality(S)
           s == SetToSeq(S)
           pair == [k \in D |-> <<k, f[k]>>]
<1>1. IsFiniteSet(S)
    <2>1. pair \in Surjection(D, S)
        BY DEF Surjection
    <2> HIDE DEF pair
    <2>2. QED BY <2>1, FS_Surjection
<1>2. n \in Nat
    BY <1>1, FS_CardinalityType
<1>3. s \in Injection(1 .. n, S)
    <2>1. ExistsBijection(1 .. n, S)
        BY <1>1, FS_CardinalityType
    <2>2. \E g \in [1 .. n -> S] : IsInjective(g)
        BY <2>1 DEF ExistsBijection, Bijection, Injection
    <2>3. s = CHOOSE g \in [1 .. n -> S] : IsInjective(g)
        BY DEF SetToSeq
    <2> HIDE DEF n, s
    <2>4. s \in [1 .. n -> S] /\ IsInjective(s)
        BY <2>2, <2>3
    <2>5. QED BY <2>4 DEF Injection
<1>4. \A x \in S : \E k \in D : x = <<k, f[k]>>
    OBVIOUS
<1>5. \A k \in D : <<k, f[k]>> \in S
    OBVIOUS
<1> HIDE DEF n, s
<1>6. IsFiniteSet(1 .. n) /\ Cardinality(1 .. n) = n
    <2>1. 1 \in Int /\ n \in Int
        BY <1>2
    <2>2. QED BY <1>2, <2>1, FS_Interval
<1>7. Cardinality(S) = n
    BY DEF n
<1>8. s \in Surjection(1 .. n, S)
    BY <1>1, <1>3, <1>6, <1>7, FS_Injection
<1>9. s \in [1 .. n -> S]
    BY <1>3 DEF Injection
<1>10. s \in Seq(S) /\ DOMAIN s = 1 .. n
    BY <1>2, <1>9
<1>11. \A i, j \in 1 .. n : s[i] = s[j] => i = j
    BY <1>3, <1>9 DEF Injection, IsInjective
<1>12. \A i \in 1 .. n : s[i][1] \in D /\ s[i][2] = f[s[i][1]] /\ s[i] = <<s[i][1], f[s[i][1]]>>
    <2> SUFFICES ASSUME NEW i \in 1 .. n
                 PROVE  s[i][1] \in D /\ s[i][2] = f[s[i][1]] /\ s[i] = <<s[i][1], f[s[i][1]]>>
        OBVIOUS
    <2>1. PICK k \in D : s[i] = <<k, f[k]>>
        BY <1>4, <1>9
    <2>2. QED BY <2>1
<1>13. \A i, j \in 1 .. n : s[i][1] = s[j][1] => i = j
    BY <1>11, <1>12
<1>14. ~Repeats(s)
    BY <1>10, <1>13 DEF Repeats, Entered
<1>15. \A k \in D : \E i \in 1 .. n : s[i] = <<k, f[k]>>
    BY <1>5, <1>8 DEF Surjection
<1>16. KeysOf(s) = D
    <2>1. ASSUME NEW k \in D PROVE k \in KeysOf(s)
        <3>1. PICK i \in 1 .. n : s[i] = <<k, f[k]>>
            BY <1>15
        <3>2. s[i][1] = k
            BY <3>1
        <3>3. QED BY <1>10, <3>2 DEF KeysOf
    <2>2. ASSUME NEW k \in KeysOf(s) PROVE k \in D
        BY <1>10, <1>12 DEF KeysOf
    <2>3. QED BY <2>1, <2>2
<1>17. ASSUME NEW k \in D PROVE FirstOf(s)[k] = f[k]
    <2>1. PICK i \in DOMAIN s : s[i][1] = k /\ FirstOf(s)[k] = s[i][2]
        BY <1>10, <1>16, FirstIs
    <2>2. QED BY <1>10, <1>12, <2>1
<1>18. Given(s) = [k \in D |-> f[k]]
    <2>1. KeysOf(s) \ {Blank} = D
        BY <1>16
    <2>2. QED BY <1>17, <2>1 DEF Given
<1>19. QED BY <1>14, <1>18 DEF s

-----------------------------------------------------------------------------
(* Links, of any query string and any parameters.                          *)

\* What may be pasted, typed, stored and asked for.
AnyUrl == [kind: {"empty", "invalid", "scheme", "web"}, host: {"none", "ours", "theirs"}, query: UNION {[K -> Texts] : K \in SUBSET Keys}]
AnyDate == [kind: {"none", "at"}, second: Int]
AnyForm == {form \in [slug: Slugs, target: AnyUrl, utms: Fields, params: Seq((Keys \cup {Blank}) \X Texts),
                      expires: [kind: {"none", "garbage", "at"}, minute: Int], fallback: AnyUrl] :
               form.target.kind = "web" => form.target.host # "none"}
AnyRule ==
    [of: {"paste"}, fields: Fields, query: Seq(Keys \X Texts)] \cup
    [of: {"form"}, form: AnyForm, site: [fallback: {"none", "shared"}], now: Int, zone: Int, lapse: AnyDate] \cup
    [of: {"root"}, policy: Policies \cup {"none"}, target: AnyUrl, domainPolicy: Policies, domainTarget: AnyUrl] \cup
    [of: {"link"}, link: LinkRow, site: [fallback: {"none", "shared"}]]

\* What is filled in is what is filled in of that; and what nothing is put under
\* stays as it is.
LEMMA FilledTwice ==
    ASSUME NEW f
    PROVE  Filled(Filled(f)) = Filled(f) /\ Filled(<<>>) = <<>>
<1>1. Filled(Filled(f)) = Filled(f)
    BY DEF Filled
<1>2. Filled(<<>>) = <<>>
    BY DEF Filled
<1>3. QED BY <1>1, <1>2

\* Nothing added under something leaves it.
LEMMA UnderNothing ==
    ASSUME NEW f, f = [k \in DOMAIN f |-> f[k]]
    PROVE  Under(f, <<>>) = f
BY DEF Under

\* What is pasted, split into its fields and put together again.
LEMMA Pasted ==
    ASSUME NEW fields \in Fields, NEW query \in Seq(Keys \X Texts), Faithful(query),
           NEW pasted, pasted = Paste(fields, query)
    PROVE  BuildTargetUrl(pasted.base, pasted.utms, <<>>, <<>>) =
              IF KeysOf(query) \cap Utms # {} THEN Under(Filled(fields), FirstOf(query))
              ELSE Under(FirstOf(query), Filled(fields))
<1> DEFINE K == KeysOf(query)
           first == FirstOf(query)
<1>1. \A f, g : BuildTargetUrl(f, g, <<>>, <<>>) = Under(f, Filled(g))
    <2> SUFFICES ASSUME NEW f, NEW g PROVE BuildTargetUrl(f, g, <<>>, <<>>) = Under(f, Filled(g))
        OBVIOUS
    <2> DEFINE h == Under(f, Filled(g))
    <2>1. h = [k \in DOMAIN h |-> h[k]]
        BY DEF Under
    <2> HIDE DEF h
    <2>2. Under(h, <<>>) = h
        BY <2>1, UnderNothing
    <2>3. BuildTargetUrl(f, g, <<>>, <<>>) = Under(Under(h, <<>>), <<>>)
        BY FilledTwice DEF BuildTargetUrl, h
    <2>4. QED BY <2>2, <2>3 DEF h
<1>2. first = [k \in K |-> first[k]] /\ DOMAIN first = K
    BY DEF FirstOf
<1>3. \A k \in K : LastOf(query)[k] = first[k]
    <2> SUFFICES ASSUME NEW i \in DOMAIN query PROVE LastOf(query)[query[i][1]] = first[query[i][1]]
        BY DEF KeysOf
    <2>1. \A i_1, j_1 \in DOMAIN query : i_1 # j_1 => query[i_1][1] # query[j_1][1]
        BY DEF Faithful
    <2>2. QED BY <2>1, OnlyIs
<1>4. \A k \in K \cap Utms : first[k] # Blank
    <2> SUFFICES ASSUME NEW k \in K, k \in Utms PROVE first[k] # Blank
        OBVIOUS
    <2>1. PICK i \in DOMAIN query : query[i][1] = k /\ first[k] = query[i][2]
        BY FirstIs
    <2>2. QED BY <2>1 DEF Faithful
<1>5. DOMAIN fields \subseteq Utms
    BY DEF Fields
<1>6. CASE K \cap Utms = {}
    <2>1. pasted.base = first /\ pasted.utms = fields
        BY <1>6 DEF Paste
    <2>2. QED BY <1>1, <1>6, <2>1
<1>7. CASE K \cap Utms # {}
    <2> DEFINE base == [k \in K \ Utms |-> LastOf(query)[k]]
               utms == [k \in K \cap Utms |-> LastOf(query)[k]]
               kept == Filled(fields)
    <2>1. pasted.base = base /\ pasted.utms = Under(kept, Filled(utms))
        BY <1>7 DEF Paste, SplitUtms
    <2>2. Filled(utms) = [k \in K \cap Utms |-> first[k]]
        BY <1>3, <1>4 DEF Filled
    <2>3. DOMAIN kept \subseteq Utms /\ \A k \in DOMAIN kept : kept[k] # Blank
        BY <1>5 DEF Filled
    <2> DEFINE u == Under(kept, Filled(utms))
    <2>4. DOMAIN u = DOMAIN kept \cup (K \cap Utms)
          /\ \A k \in DOMAIN u : u[k] = IF k \in DOMAIN kept THEN kept[k] ELSE first[k]
        BY <2>2 DEF Under
    <2>5. Filled(u) = [k \in DOMAIN u |-> u[k]]
        <3> HIDE DEF u, kept
        <3>1. \A k \in DOMAIN u : u[k] # Blank
            BY <1>4, <2>3, <2>4
        <3>2. QED BY <3>1 DEF Filled
    <2> HIDE DEF u
    <2>6. Under(base, Filled(u)) = Under(kept, first)
        <3>1. DOMAIN base = K \ Utms /\ \A k \in K \ Utms : base[k] = first[k]
            BY <1>3
        <3>2. DOMAIN Filled(u) = DOMAIN u /\ \A k \in DOMAIN u : Filled(u)[k] = u[k]
            BY <2>5
        <3> DEFINE fu == Filled(u)
        <3> HIDE DEF kept, base, fu
        <3>3. DOMAIN base \cup DOMAIN fu = DOMAIN kept \cup DOMAIN first
            BY <1>2, <2>3, <2>4, <3>1, <3>2 DEF fu
        <3>4. ASSUME NEW k \in DOMAIN base \cup DOMAIN fu
              PROVE  (IF k \in DOMAIN base THEN base[k] ELSE fu[k]) = IF k \in DOMAIN kept THEN kept[k] ELSE first[k]
            BY <1>2, <2>3, <2>4, <3>1, <3>2 DEF fu
        <3>5. Under(base, fu) = Under(kept, first)
            BY <3>3, <3>4 DEF Under
        <3>6. QED BY <3>5 DEF fu
    <2>7. QED BY <1>1, <1>7, <2>1, <2>6 DEF u
<1>8. QED BY <1>6, <1>7

\* The parameters of a form are what it has of keys that are not blank.
LEMMA GivenIs ==
    ASSUME NEW params \in Seq((Keys \cup {Blank}) \X Texts)
    PROVE  /\ Given(params) \in [KeysOf(params) \ {Blank} -> Texts]
           /\ IsFiniteSet(KeysOf(params) \ {Blank})
<1> DEFINE T == (Keys \cup {Blank}) \X Texts
           K == KeysOf(params)
           key == [i \in DOMAIN params |-> params[i][1]]
<1>1. DOMAIN params = 1 .. Len(params) /\ Len(params) \in Nat /\ \A i \in DOMAIN params : params[i] \in T
    OBVIOUS
<1>2. IsFiniteSet(DOMAIN params)
    <2>1. 1 \in Int /\ Len(params) \in Int
        BY <1>1
    <2>2. QED BY <1>1, <2>1, FS_Interval
<1>3. key \in Surjection(DOMAIN params, K)
    BY DEF KeysOf, Surjection
<1>4. IsFiniteSet(K)
    <2> HIDE DEF key, K
    <2>1. QED BY <1>2, <1>3, FS_Surjection
<1>5. K \ {Blank} \in SUBSET K
    OBVIOUS
<1>6. IsFiniteSet(K \ {Blank})
    <2> HIDE DEF K
    <2>1. QED BY <1>4, <1>5, FS_Subset
<1>7. \A k \in K : FirstOf(params)[k] \in Texts
    <2> SUFFICES ASSUME NEW k \in K PROVE FirstOf(params)[k] \in Texts
        OBVIOUS
    <2>1. PICK i \in DOMAIN params : FirstOf(params)[k] = params[i][2]
        BY FirstIs
    <2>2. QED BY <1>1, <2>1
<1>8. QED BY <1>6, <1>7 DEF Given

\* What the form accepts of a slug is one of two words.
LEMMA AcceptedSlug ==
    ASSUME NEW slug \in Slugs
    PROVE  /\ SlugProblem(slug) = "none" <=> slug.word \in {"promo", "healthz"}
           /\ TableTakes(slug) <=> slug.word \in {"promo", "healthz"}
<1>1. slug.word \in Words
    BY DEF Slugs
<1>2. QED BY <1>1 DEF SlugProblem, TableTakes, Words, Reserved

\* Setting a field of an answer or of a row leaves the others alone.
LEMMA ReTargeted ==
    ASSUME NEW url, NEW to, NEW counts \in BOOLEAN,
           NEW answer, answer = [type |-> "redirect", to |-> to, counts |-> counts]
    PROVE  [answer EXCEPT !.to = url] = [type |-> "redirect", to |-> url, counts |-> counts]
<1> DEFINE after == [answer EXCEPT !.to = url]
<1>1. DOMAIN after = {"type", "to", "counts"} /\ after = [x \in DOMAIN after |-> after[x]]
    OBVIOUS
<1>2. after.to = url /\ after.type = "redirect" /\ after.counts = counts
    OBVIOUS
<1> HIDE DEF after
<1>3. [type |-> "redirect", to |-> url, counts |-> counts] = [x \in {"type", "to", "counts"} |-> after[x]]
    BY <1>2
<1>4. QED BY <1>1, <1>3 DEF after

\* (The provers tell terms from formulas: here the two truth values are terms.)
Yes == TRUE
No == FALSE

\* A row of the links table, and one that its page saves.
RowOf(slug, target, utms, params, expires, fallback, active, passes, type) ==
    [slug |-> slug, target |-> target, utms |-> utms, params |-> params,
     expires |-> expires, fallback |-> fallback, active |-> active, passes |-> passes, type |-> type]
Saved(row, active, passes, type, expires) ==
    [row EXCEPT !.active = active, !.passes = passes, !.type = type, !.expires = expires]

\* The same of such a row.
LEMMA RowSet ==
    ASSUME NEW slug, NEW target, NEW utms, NEW params, NEW expires, NEW fallback,
           NEW active, NEW passes, NEW type, NEW a, NEW p, NEW t, NEW e
    PROVE  /\ Handed(RowOf(slug, target, utms, params, expires, fallback, active, passes, type), a, p, t, e) =
                  RowOf(slug, target, utms, params, e, fallback, a, p, t)
           /\ Saved(RowOf(slug, target, utms, params, expires, fallback, active, passes, type), a, p, t, e) =
                  RowOf(slug, target, utms, params, e, fallback, a, p, t)
<1>1. Handed(RowOf(slug, target, utms, params, expires, fallback, active, passes, type), a, p, t, e) =
          RowOf(slug, target, utms, params, e, fallback, a, p, t)
    <2> DEFINE row == RowOf(slug, target, utms, params, expires, fallback, active, passes, type)
               after == [row EXCEPT !.active = a, !.passes = p, !.type = t, !.expires = e]
    <2>1. /\ DOMAIN after = {"slug", "target", "utms", "params", "expires", "fallback", "active", "passes", "type"}
          /\ after = [x \in DOMAIN after |-> after[x]]
        BY DEF RowOf
    <2>2. /\ after.slug = slug /\ after.target = target /\ after.utms = utms /\ after.params = params
          /\ after.expires = e /\ after.fallback = fallback /\ after.active = a /\ after.passes = p /\ after.type = t
        BY DEF RowOf
    <2> HIDE DEF after
    <2>3. RowOf(slug, target, utms, params, e, fallback, a, p, t) =
              [x \in {"slug", "target", "utms", "params", "expires", "fallback", "active", "passes", "type"} |-> after[x]]
        BY <2>2 DEF RowOf
    <2>4. QED BY <2>1, <2>3 DEF after, Handed
<1>2. \A row : Saved(row, a, p, t, e) = Handed(row, a, p, t, e)
    BY DEF Saved, Handed
<1>3. QED BY <1>1, <1>2

\* The page of a row shows its fields.
LEMMA RowShown ==
    ASSUME NEW slug, NEW target, NEW utms, NEW params, NEW expires, NEW fallback,
           NEW active, NEW passes, NEW type
    PROVE  LET row  == RowOf(slug, target, utms, params, expires, fallback, active, passes, type)
               page == Render(row)
           IN  /\ row.expires = expires
               /\ page.slug = slug /\ page.target = target /\ page.utms = utms
               /\ page.expires = Shown(expires) /\ page.fallback = fallback
               /\ page.params = SetToSeq({<<k, params[k]>> : k \in DOMAIN params})
<1> DEFINE row == RowOf(slug, target, utms, params, expires, fallback, active, passes, type)
<1>1. row.slug = slug /\ row.target = target /\ row.utms = utms /\ row.params = params
      /\ row.expires = expires /\ row.fallback = fallback
    BY DEF RowOf
<1>2. Render(row) = [slug |-> slug, target |-> target, utms |-> utms,
                     params |-> SetToSeq({<<k, params[k]>> : k \in DOMAIN params}),
                     expires |-> Shown(expires), fallback |-> fallback]
    <2> HIDE DEF row
    <2>1. QED BY <1>1 DEF Render
<1>3. QED BY <1>1, <1>2

\* And is saved as they are.
LEMMA Kept ==
    ASSUME NEW page, NEW zone
    PROVE  ToRow(page, zone) = RowOf(page.slug, page.target, Filled(page.utms), Given(page.params),
                                     Read(page.expires, zone), page.fallback, Yes, No, 302)
BY DEF ToRow, RowOf, Yes, No

\* How far a later date may be from what is shown of an expiry.
MovesTo(expires, later, now, zone) ==
    /\ later \in AnyDate /\ later.kind = expires.kind
    /\ later.kind = "at" => expires.second - 60 * zone - later.second \in 0..59
    /\ Past(later, now) => expires.kind = "at" /\ expires.second - 60 * zone < now + 60
    /\ zone = 0 => /\ Past(expires, now) => Past(later, now)
                  /\ Read(Shown(later), zone) = later

\* An instant that is shown and read back: as many minutes earlier as the server
\* is ahead of UTC, and up to a minute more; none stays none.
LEMMA DatesMove ==
    ASSUME NEW expires \in AnyDate, NEW now \in Int, NEW zone \in Int
    PROVE  MovesTo(expires, Read(Shown(expires), zone), now, zone)
<1> DEFINE later == Read(Shown(expires), zone)
           minute == expires.second \div 60
<1>5. expires.second \in Int
    BY DEF AnyDate
<1>6. minute \in Int /\ 60 * minute <= expires.second /\ expires.second < 60 * minute + 60
    BY <1>5
<1> HIDE DEF minute
<1>1. expires.second \in Int /\ minute \in Int /\ expires.second - 60 * minute \in 0..59
    BY <1>5, <1>6
<1>2. CASE expires.kind = "at"
    <2>1. later = On(60 * (minute - zone))
        BY <1>2 DEF Shown, Read, Clock, minute
    <2>2. later \in AnyDate /\ later.kind = "at" /\ later.second = 60 * (minute - zone)
        BY <1>1, <2>1 DEF On, AnyDate
    <2> HIDE DEF later
    <2>3. zone = 0 => Read(Shown(later), zone) = later
        <3>1. ASSUME zone = 0 PROVE later.second \div 60 = minute
            BY <1>1, <2>2, <3>1
        <3>2. Shown(later) = Clock(later.second \div 60)
            BY <2>2 DEF Shown
        <3>3. Read(Clock(minute), zone) = later
            BY <2>1 DEF Read, Clock
        <3>4. QED BY <3>1, <3>2, <3>3
    <2>4. expires.second - 60 * zone - later.second \in 0..59
        BY <1>1, <2>2
    <2>5. Past(later, now) => expires.second - 60 * zone < now + 60
        BY <1>1, <2>2, <2>4 DEF Past
    <2>6. zone = 0 /\ Past(expires, now) => Past(later, now)
        BY <1>1, <2>2, <2>4 DEF Past
    <2>7. QED BY <1>2, <2>2, <2>3, <2>4, <2>5, <2>6 DEF later, MovesTo
<1>3. CASE expires.kind = "none"
    <2>1. Shown(expires) = NoDate /\ Read(NoDate, zone) = Never
        BY <1>3 DEF Shown, Read, NoDate
    <2>2. later = Never
        BY <2>1
    <2>3. Never \in AnyDate /\ Never.kind = "none" /\ Shown(Never) = NoDate /\ ~Past(Never, now)
        BY DEF Never, AnyDate, Shown, Past
    <2>4. ~Past(expires, now)
        BY <1>3 DEF Past
    <2> HIDE DEF later
    <2>5. QED BY <1>3, <2>1, <2>2, <2>3, <2>4 DEF later, MovesTo
<1>4. QED BY <1>2, <1>3 DEF AnyDate

\* The answer to an accepted link's name as it was typed.
AnswersTo(typed, site, now, form, zone) ==
    LET answer == Handle(typed, site, now, ToRow(form, zone), <<>>)
    IN  IF typed = [word |-> "healthz", lower |-> TRUE] THEN answer.type = "own"
        ELSE answer = Redirect(BuildTargetUrl(form.target.query, Filled(form.utms), Given(form.params), <<>>), TRUE)

\* A link that was accepted answers under its name, however that is written.
LEMMA AcceptedAnswers ==
    ASSUME NEW form \in AnyForm, NEW now \in Int, NEW zone \in Int,
           Errors(form, now, zone) = {}, NEW site, NEW lower \in BOOLEAN,
           NEW typed, typed = [form.slug EXCEPT !.lower = lower]
    PROVE  AnswersTo(typed, site, now, form, zone)
<1>1. form.slug \in Slugs /\ form.target \in AnyUrl
    BY DEF AnyForm
<1>2. SlugProblem(form.slug) = "none" /\ UrlProblem(form.target) = "none" /\ ~Past(Read(form.expires, zone), now)
    BY DEF Errors
<1>3. form.slug.word \in {"promo", "healthz"} /\ form.target.kind = "web"
    BY <1>1, <1>2, AcceptedSlug DEF UrlProblem, AnyUrl
<1>4. typed.word = form.slug.word /\ typed.lower = lower /\ typed = [word |-> form.slug.word, lower |-> lower]
    BY <1>1 DEF Slugs
<1> DEFINE row == ToRow(form, zone)
<1>5. row.slug = form.slug /\ row.target = form.target /\ row.utms = Filled(form.utms)
      /\ row.params = Given(form.params) /\ Past(row.expires, now) = FALSE
      /\ row.active = TRUE /\ row.passes = FALSE
    BY <1>2 DEF ToRow, Past
<1> HIDE DEF row
<1>6. CASE typed = [word |-> "healthz", lower |-> TRUE]
    <2>1. Handle(typed, site, now, row, <<>>) = [type |-> "own", to |-> typed.word]
        BY <1>6 DEF Handle, OwnPaths
    <2>2. Handle(typed, site, now, row, <<>>).type = "own"
        BY <2>1
    <2>3. QED BY <1>6, <2>2 DEF row, AnswersTo
<1>7. CASE typed # [word |-> "healthz", lower |-> TRUE]
    <2> DEFINE link == [active |-> row.active, expired |-> Past(row.expires, now), scheduled |-> FALSE,
                        parses |-> row.target.kind \in {"web", "scheme"},
                        fallback |-> IF Usable(row.fallback) THEN "own" ELSE "none"]
               url == BuildTargetUrl(row.target.query, row.utms, row.params, IF row.passes THEN FirstOf(<<>>) ELSE <<>>)
    <2>1. ~(typed.lower /\ typed.word \in OwnPaths) /\ ~(typed.word # row.slug.word)
        BY <1>3, <1>4, <1>5, <1>7 DEF OwnPaths
    <2>2. link.active = TRUE /\ link.expired = FALSE /\ link.parses = TRUE /\ link # NoLink
        BY <1>3, <1>5 DEF NoLink
    <2>3. ResolveLink(site, link) = Redirect("target", TRUE)
        <3> HIDE DEF link
        <3>1. QED BY <2>2 DEF ResolveLink
    <2>4. Handle(typed, site, now, row, <<>>) = [Redirect("target", TRUE) EXCEPT !.to = url]
        <3> HIDE DEF url
        <3>1. Redirect("target", TRUE).to = "target"
            BY DEF Redirect
        <3>2. QED BY <2>1, <2>3, <3>1 DEF Handle, url
    <2>5. url = BuildTargetUrl(form.target.query, Filled(form.utms), Given(form.params), <<>>)
        BY <1>5
    <2> HIDE DEF url
    <2>6. [Redirect("target", TRUE) EXCEPT !.to = url] = Redirect(url, TRUE)
        <3>1. \A to : [Redirect("target", TRUE) EXCEPT !.to = to] = Redirect(to, TRUE)
            BY ReTargeted, TRUE \in BOOLEAN DEF Redirect
        <3>2. QED BY <3>1
    <2>7. QED BY <1>7, <2>4, <2>5, <2>6 DEF row, AnswersTo
<1>8. QED BY <1>6, <1>7

\* A page opened on a link and saved untouched.
LEMMA ResavedIs ==
    ASSUME NEW form \in AnyForm, NEW now \in Int, NEW zone \in Int, Errors(form, now, zone) = {},
           NEW active, NEW passes, NEW type, NEW expires \in AnyDate,
           NEW row, row = Handed(ToRow(form, zone), active, passes, type, expires)
    PROVE  LET later == Read(Shown(expires), zone)
           IN  /\ row.expires = expires
               /\ Errors(Render(row), now, zone) = IF Past(later, now) THEN {"expiresAt"} ELSE {}
               /\ Resaved(row, now, zone) = IF Past(later, now) THEN row ELSE Saved(row, Yes, No, 302, later)
               /\ Saved(row, Yes, No, 302, later) = Handed(ToRow(form, zone), Yes, No, 302, later)
<1> DEFINE P == Given(form.params)
           U == Filled(form.utms)
           D == KeysOf(form.params) \ {Blank}
           S == {<<k, P[k]>> : k \in D}
           page == Render(row)
           later == Read(Shown(expires), zone)
<1>1. row = RowOf(form.slug, form.target, U, P, expires, form.fallback, active, passes, type)
    <2>1. ToRow(form, zone) = RowOf(form.slug, form.target, U, P, Read(form.expires, zone), form.fallback, Yes, No, 302)
        BY Kept
    <2> HIDE DEF P, U
    <2>2. QED BY <2>1, RowSet
<1>2. P \in [D -> Texts] /\ IsFiniteSet(D)
    BY GivenIs DEF AnyForm
<1>3. page.params = SetToSeq(S) /\ page.slug = form.slug /\ page.target = form.target
      /\ page.utms = U /\ page.expires = Shown(expires) /\ page.fallback = form.fallback
    <2>1. DOMAIN P = D
        BY <1>2
    <2> HIDE DEF P, U, D
    <2>2. page.params = SetToSeq({<<k, P[k]>> : k \in DOMAIN P}) /\ page.slug = form.slug
          /\ page.target = form.target /\ page.utms = U /\ page.expires = Shown(expires) /\ page.fallback = form.fallback
        BY <1>1, RowShown
    <2>3. QED BY <2>1, <2>2
<1> HIDE DEF page, P, U
<1>5. ~Repeats(page.params) /\ Given(page.params) = P
    <2>1. \A x : x \in S <=> \E k \in D : x = <<k, P[k]>>
        OBVIOUS
    <2>2. Blank \notin D
        OBVIOUS
    <2> HIDE DEF S, D
    <2>3. ~Repeats(SetToSeq(S)) /\ Given(SetToSeq(S)) = P
        BY <1>2, <2>1, <2>2, LaidOut
    <2>4. QED BY <1>3, <2>3
<1>6. SlugProblem(form.slug) = "none" /\ UrlProblem(form.target) = "none" /\ ~DetectsLoop(form.target)
    BY DEF Errors
<1>7. Errors(page, now, zone) = IF Past(later, now) THEN {"expiresAt"} ELSE {}
    <2>1. page.expires.kind # "garbage"
        BY <1>3 DEF Shown, Clock, NoDate
    <2>2. Read(page.expires, zone) = later
        BY <1>3
    <2> HIDE DEF later
    <2>3. QED BY <1>3, <1>5, <1>6, <2>1, <2>2 DEF Errors
<1>4. row.expires = expires
    <2> HIDE DEF P, U, D
    <2>1. QED BY <1>1 DEF RowOf
<1>8. Saved(row, Yes, No, 302, later) = RowOf(form.slug, form.target, U, P, later, form.fallback, Yes, No, 302)
    <2> HIDE DEF later
    <2>1. QED BY <1>1, RowSet
<1>9. Saved(row, Yes, No, 302, later) = Handed(ToRow(form, zone), Yes, No, 302, later)
    <2>1. ToRow(form, zone) = RowOf(form.slug, form.target, U, P, Read(form.expires, zone), form.fallback, Yes, No, 302)
        BY Kept DEF P, U
    <2> HIDE DEF later
    <2>2. QED BY <1>8, <2>1, RowSet
<1>10. ToRow(page, zone) = RowOf(form.slug, form.target, U, P, later, form.fallback, Yes, No, 302)
    <2>1. Filled(U) = U
        BY FilledTwice DEF U
    <2>2. QED BY <1>3, <1>5, <2>1, Kept
<1> HIDE DEF later
<1>11. CASE Past(later, now)
    <2>1. Resaved(row, now, zone) = row
        BY <1>7, <1>11 DEF Resaved, page
    <2>2. QED BY <1>4, <1>7, <1>9, <1>11, <2>1 DEF page, later
<1>12. CASE ~Past(later, now)
    <2>1. Resaved(row, now, zone) = ToRow(page, zone)
        BY <1>7, <1>12 DEF Resaved, page
    <2>2. QED BY <1>4, <1>7, <1>8, <1>9, <1>10, <1>12, <2>1 DEF page, later
<1>13. QED BY <1>11, <1>12

\* The root of a host, whatever its targets are.
LEMMA RootsFollow ==
    ASSUME NEW site, site.policy \in Policies \cup {"none"}, site.domainPolicy \in Policies
    PROVE  /\ RootDecision(site) = "sub" => site.policy = "custom_url"
           /\ "branded_page" \in {site.policy} \cup (IF site.policy = "none" THEN {site.domainPolicy} ELSE {}) =>
                 RootDecision(site) = "page"
           /\ RootDecision(site) = "domain" => "custom_url" \in {site.policy, site.domainPolicy}
BY DEF RootDecision, Policies

\* What is shown of a link is what it does.
LEMMA ShownIsDone ==
    ASSUME NEW link \in LinkRow, NEW site, site.fallback \in {"none", "shared"}
    PROVE  LET status == LinkStatus(link)
               answer == ResolveLink(site, link)
           IN  /\ status \in Listed(link)
               /\ answer.to = "target" => status \in {"active", "scheduled"}
               /\ status \in {"active", "scheduled"} /\ link.parses => answer.to = "target"
               /\ status = "paused" => answer.type = "not_found"
<1>1. link.fallback \in {"none", "own"} /\ link.active \in BOOLEAN /\ link.expired \in BOOLEAN
      /\ link.scheduled \in BOOLEAN /\ link.parses \in BOOLEAN /\ link # NoLink
    BY DEF LinkRow, NoLink
<1>2. LinkStatus(link) \in Listed(link)
    BY <1>1 DEF LinkStatus, Listed
<1>3. \A counts : OrNotFound(link, site, counts).to # "target"
    BY <1>1 DEF OrNotFound, FallbackFor, NotFound, Redirect
<1>4. Redirect("target", TRUE).to = "target" /\ NotFound(TRUE).to = "page" /\ NotFound(TRUE).type = "not_found"
    BY DEF Redirect, NotFound
<1>5. QED BY <1>1, <1>2, <1>3, <1>4 DEF LinkStatus, ResolveLink

\* Of any address pasted, any form typed, any root and any link: the panel and the
\* edge agree about them.
THEOREM PanelAlwaysAgrees == rule \in AnyRule => PanelAgreesWithEdge
<1> SUFFICES ASSUME rule \in AnyRule PROVE PanelAgreesWithEdge
    OBVIOUS
<1>1. PasteComposesBack
    <2> SUFFICES ASSUME rule.of = "paste", Faithful(rule.query)
                 PROVE  LET pasted == Paste(rule.fields, rule.query)
                            split  == KeysOf(rule.query) \cap Utms # {}
                        IN  BuildTargetUrl(pasted.base, pasted.utms, <<>>, <<>>) =
                                IF split THEN Under(Filled(rule.fields), FirstOf(rule.query))
                                ELSE Under(FirstOf(rule.query), Filled(rule.fields))
        BY DEF PasteComposesBack
    <2>1. rule.fields \in Fields /\ rule.query \in Seq(Keys \X Texts)
        BY DEF AnyRule
    <2>2. QED BY <2>1, Pasted
<1>2. SavedLinksResolve
    <2> SUFFICES ASSUME rule.of = "form", Errors(rule.form, rule.now, rule.zone) = {} PROVE SavedLinksResolve
        BY DEF SavedLinksResolve
    <2> DEFINE form == rule.form
               now  == rule.now
               zone == rule.zone
    <2>1. form \in AnyForm /\ now \in Int /\ zone \in Int /\ rule.lapse \in AnyDate
        BY DEF AnyRule
    <2>2. TableTakes(form.slug) /\ form.target.host = "theirs"
        <3>1. form.slug \in Slugs /\ form.target \in AnyUrl /\ (form.target.kind = "web" => form.target.host # "none")
            BY <2>1 DEF AnyForm
        <3>2. SlugProblem(form.slug) = "none" /\ UrlProblem(form.target) = "none" /\ ~DetectsLoop(form.target)
            BY DEF Errors
        <3>3. form.target.kind = "web"
            BY <3>1, <3>2 DEF UrlProblem, AnyUrl
        <3>4. QED BY <3>1, <3>2, <3>3, AcceptedSlug DEF DetectsLoop, AnyUrl
    <2>3. ASSUME NEW lower \in BOOLEAN
          PROVE  LET typed == [form.slug EXCEPT !.lower = lower]
                     answer == Handle(typed, rule.site, now, ToRow(form, zone), <<>>)
                 IN  IF typed = [word |-> "healthz", lower |-> TRUE] THEN answer.type = "own"
                     ELSE answer = Redirect(BuildTargetUrl(form.target.query, Filled(form.utms), Given(form.params), <<>>), TRUE)
        <3>1. Errors(form, now, zone) = {}
            OBVIOUS
        <3> HIDE DEF form, now, zone
        <3> DEFINE typed == [form.slug EXCEPT !.lower = lower]
                   site  == rule.site
        <3>2. form \in AnyForm /\ now \in Int /\ zone \in Int /\ typed = [form.slug EXCEPT !.lower = lower]
            BY <2>1
        <3> HIDE DEF typed, site
        <3>3. AnswersTo(typed, site, now, form, zone)
            BY <3>1, <3>2, AcceptedAnswers
        <3>4. QED BY <3>3 DEF typed, site, AnswersTo
    <2>4. ASSUME NEW row \in Rows(form, zone, rule.lapse)
          PROVE  LET again   == Resaved(row, now, zone)
                     refused == Errors(Render(row), now, zone) # {}
                     moved   == row.expires.second - 60 * zone
                 IN  /\ refused => again = row /\ row.expires.kind = "at" /\ moved < now + 60
                     /\ ~refused =>
                           /\ again = [row EXCEPT !.active = TRUE, !.passes = FALSE, !.type = 302,
                                                  !.expires = again.expires]
                           /\ again.expires.kind = row.expires.kind /\ ~Past(again.expires, now)
                           /\ again.expires.kind = "at" => moved - again.expires.second \in 0..59
                     /\ zone = 0 =>
                           /\ Past(row.expires, now) => refused
                           /\ ~refused => Resaved(again, now, zone) = again
        <3>1. PICK active \in BOOLEAN, passes \in BOOLEAN, type \in {302, 307},
                   expires \in {Read(form.expires, zone), rule.lapse} :
                  row = Handed(ToRow(form, zone), active, passes, type, expires)
            BY <2>4 DEF Rows
        <3>2. expires \in AnyDate
            BY <2>1 DEF AnyForm, AnyDate, Read, On, Never
        <3>3. Errors(form, now, zone) = {}
            OBVIOUS
        <3> HIDE DEF form, now, zone
        <3> DEFINE later == Read(Shown(expires), zone)
                   again == Resaved(row, now, zone)
        <3>4. /\ row.expires = expires
              /\ Errors(Render(row), now, zone) = IF Past(later, now) THEN {"expiresAt"} ELSE {}
              /\ again = IF Past(later, now) THEN row ELSE Saved(row, Yes, No, 302, later)
              /\ Saved(row, Yes, No, 302, later) = Handed(ToRow(form, zone), Yes, No, 302, later)
            BY <2>1, <3>1, <3>2, <3>3, ResavedIs
        <3>10. MovesTo(expires, later, now, zone)
            BY <2>1, <3>2, DatesMove
        <3> HIDE DEF later, again
        <3>5. /\ later \in AnyDate /\ later.kind = expires.kind
              /\ later.kind = "at" => expires.second - 60 * zone - later.second \in 0..59
              /\ Past(later, now) => expires.kind = "at" /\ expires.second - 60 * zone < now + 60
              /\ zone = 0 => /\ Past(expires, now) => Past(later, now)
                            /\ Read(Shown(later), zone) = later
            BY <3>10 DEF MovesTo
        <3>6. ~Past(later, now) => /\ again.expires = later
                                   /\ Resaved(again, now, zone) = IF Past(Read(Shown(later), zone), now) THEN again
                                         ELSE Saved(again, Yes, No, 302, Read(Shown(later), zone))
            BY <2>1, <3>3, <3>4, <3>5, ResavedIs
        <3>7. ASSUME ~Past(later, now), Read(Shown(later), zone) = later
              PROVE  Resaved(again, now, zone) = again
            <4>1. Resaved(again, now, zone) = Saved(again, Yes, No, 302, later)
                BY <3>6, <3>7
            <4>2. \A r : Saved(Saved(r, Yes, No, 302, later), Yes, No, 302, later) = Saved(r, Yes, No, 302, later)
                BY DEF Saved
            <4>3. QED BY <3>4, <3>7, <4>1, <4>2
        <3>8. ~Past(later, now) => again = [row EXCEPT !.active = TRUE, !.passes = FALSE, !.type = 302,
                                                      !.expires = again.expires]
            BY <3>4, <3>6 DEF Saved, Yes, No
        <3>9. QED BY <3>4, <3>5, <3>6, <3>7, <3>8 DEF again
    <2>5. QED BY <2>2, <2>3, <2>4 DEF SavedLinksResolve
<1>3. RootsFollowPolicy
    <2> SUFFICES ASSUME rule.of = "root" PROVE RootsFollowPolicy
        BY DEF RootsFollowPolicy
    <2>1. rule.policy \in Policies \cup {"none"} /\ rule.domainPolicy \in Policies
        BY DEF AnyRule
    <2>2. QED BY <2>1, RootsFollow DEF RootsFollowPolicy
<1>4. ASSUME rule.of = "link"
      PROVE  LET status == LinkStatus(rule.link)
                 answer == ResolveLink(rule.site, rule.link)
             IN  /\ status \in Listed(rule.link)
                 /\ answer.to = "target" => status \in {"active", "scheduled"}
                 /\ status \in {"active", "scheduled"} /\ rule.link.parses => answer.to = "target"
                 /\ status = "paused" => answer.type = "not_found"
    <2>1. rule.link \in LinkRow /\ rule.site.fallback \in {"none", "shared"}
        BY <1>4 DEF AnyRule
    <2>2. QED BY <2>1, ShownIsDone
<1>5. QED BY <1>1, <1>2, <1>3, <1>4 DEF PanelAgreesWithEdge

-----------------------------------------------------------------------------
(* Usage.                                                                  *)

\* What a quotient is.
LEMMA Divided ==
    ASSUME NEW n \in Nat, NEW d \in Nat \ {0}
    PROVE  n \div d \in Nat /\ d * (n \div d) <= n /\ n < d * (n \div d) + d
OBVIOUS

\* A product grows with its factors.
LEMMA Grows ==
    ASSUME NEW a \in Nat, NEW b \in Nat, NEW c \in Nat, a <= b
    PROVE  a * c <= b * c /\ c * a <= c * b
OBVIOUS

\* A number that fits is within the quotient.
LEMMA Within ==
    ASSUME NEW n \in Nat, NEW d \in Nat \ {0}, NEW q \in Nat, d * q <= n
    PROVE  q <= n \div d
<1> DEFINE r == n \div d
<1>1. r \in Nat /\ n < d * r + d
    BY Divided
<1> HIDE DEF r
<1>2. SUFFICES ASSUME r + 1 <= q PROVE FALSE
    BY <1>1 DEF r
<1>3. d * (r + 1) <= d * q
    BY <1>1, <1>2, Grows
<1>4. d * (r + 1) = d * r + d
    BY <1>1
<1>5. d * r \in Nat /\ d * q \in Nat
    BY <1>1
<1>6. QED BY <1>1, <1>3, <1>4, <1>5

\* A rate over part of a cycle projects at least what was spent, and less the
\* longer the part.
LEMMA RateFalls ==
    ASSUME NEW spent \in Nat, NEW e \in Nat \ {0}, NEW f \in Nat, e <= f, f <= Cycle
    PROVE  /\ Rounded(spent * Cycle, e) \in Nat
           /\ Rounded(spent * Cycle, f) <= Rounded(spent * Cycle, e)
           /\ spent <= Rounded(spent * Cycle, e)
<1> DEFINE n == spent * Cycle
<1>1. Cycle \in Nat \ {0} /\ n \in Nat /\ f \in Nat \ {0}
    BY UsageConstants
<1>2. spent * e <= n
    <2>1. e <= Cycle
        BY <1>1
    <2>2. QED BY <1>1, <2>1, Grows
<1> HIDE DEF n
<1>3. 2 * e \in Nat \ {0} /\ 2 * f \in Nat \ {0} /\ 2 * n + e \in Nat /\ 2 * n + f \in Nat
    BY <1>1
<1>4. (2 * e) * spent = 2 * (spent * e) /\ spent * e \in Nat
    OBVIOUS
<1>5. spent <= Rounded(n, e)
    <2>1. (2 * e) * spent <= 2 * n + e
        BY <1>1, <1>2, <1>4
    <2>2. QED BY <1>3, <2>1, Within DEF Rounded
<1> DEFINE q == (2 * n + f) \div (2 * f)
<1>6. q \in Nat /\ (2 * f) * q <= 2 * n + f
    BY <1>3, Divided
<1> HIDE DEF q
<1>7. q <= Rounded(n, e)
    <2>1. CASE q = 0
        BY <1>3, <2>1, Divided DEF Rounded
    <2>2. CASE q # 0
        <3> DEFINE p == 2 * q - 1
        <3>1. p \in Nat /\ q \in Nat
            BY <1>6, <2>2
        <3>2. (2 * f) * q = f * p + f /\ (2 * e) * q = e * p + e
            BY <3>1
        <3> HIDE DEF p
        <3>3. e * p <= f * p /\ e * p \in Nat /\ f * p \in Nat
            BY <1>1, <3>1, Grows
        <3>4. (2 * e) * q <= 2 * n + e
            BY <1>1, <1>6, <3>2, <3>3
        <3>5. QED BY <1>3, <3>1, <3>4, Within DEF Rounded
    <2>3. QED BY <2>1, <2>2
<1>8. Rounded(n, e) \in Nat
    BY <1>3, Divided DEF Rounded
<1>9. QED BY <1>5, <1>7, <1>8 DEF n, q, Rounded

\* A moment is in the cycle it opened.
LEMMA SinceOpened ==
    ASSUME NEW now \in Nat
    PROVE  Opened(now) \in Nat /\ Opened(now) <= now /\ now - Opened(now) < Cycle
<1>1. Cycle \in Nat \ {0}
    BY UsageConstants
<1> DEFINE q == now \div Cycle
<1>2. q \in Nat /\ Cycle * q <= now /\ now < Cycle * q + Cycle
    BY <1>1, Divided
<1> HIDE DEF q
<1>3. Opened(now) = Cycle * q /\ Cycle * q \in Nat
    BY <1>1, <1>2 DEF Opened, q
<1>4. QED BY <1>1, <1>2, <1>3

\* What samples are.
Sample == [at: Nat, source: {"railway", "local"}, cost: Nat \cup {Unpriced}]

\* The newest of some.
LEMMA NewestIs ==
    ASSUME NEW samples \in Seq(Sample), NEW at \in SUBSET DOMAIN samples, at # {},
           NEW newest, newest = CHOOSE i \in at : \A j \in at : j <= i
    PROVE  newest \in at /\ Newest(samples, at) = samples[newest]
<1> DEFINE n == Len(samples)
           Gaps == {n - i : i \in at}
<1>1. DOMAIN samples = 1 .. n /\ n \in Nat
    OBVIOUS
<1> HIDE DEF n
<1>2. PICK gap \in Gaps : \A g \in Gaps : gap <= g
    <2>1. Gaps \in SUBSET Nat /\ Gaps # {}
        BY <1>1
    <2>2. QED BY <2>1, LeastOf
<1>3. PICK i \in at : gap = n - i
    BY <1>2
<1>4. \A j \in at : j <= i
    <2> SUFFICES ASSUME NEW j \in at PROVE j <= i
        OBVIOUS
    <2>1. n - j \in Gaps
        OBVIOUS
    <2>2. n - i <= n - j
        BY <1>2, <1>3, <2>1
    <2>3. QED BY <1>1, <2>2
<1>5. newest \in at
    BY <1>3, <1>4
<1>6. QED BY <1>5 DEF Newest

\* A projection: nothing, what was spent, or its rate.
LEMMA ProjectIs ==
    ASSUME NEW samples \in Seq(Sample), NEW now \in Nat, InCycle(samples, now) # {},
           NEW newest, newest = CHOOSE i \in InCycle(samples, now) : \A j \in InCycle(samples, now) : j <= i,
           NEW spent, spent = samples[newest].cost
    PROVE  /\ spent \in Nat
           /\ Project(samples, now) = IF now - Opened(now) < 1 THEN spent ELSE Rounded(spent * Cycle, now - Opened(now))
           /\ Project(samples, now) \in Nat /\ spent <= Project(samples, now)
<1> DEFINE at == InCycle(samples, now)
           e == now - Opened(now)
<1>1. at \in SUBSET DOMAIN samples /\ at # {}
    BY DEF InCycle, Priced
<1>2. newest \in at /\ Newest(samples, at) = samples[newest]
    <2> HIDE DEF at
    <2>1. newest = CHOOSE i \in at : \A j \in at : j <= i
        BY DEF at
    <2>2. QED BY <1>1, <2>1, NewestIs
<1>3. spent \in Nat
    <2>1. newest \in DOMAIN samples /\ samples[newest].cost # Unpriced
        BY <1>2 DEF InCycle, Priced
    <2>2. samples[newest] \in Sample
        BY <2>1
    <2>3. QED BY <2>1, <2>2 DEF Sample
<1>4. Project(samples, now) = IF e < 1 THEN spent ELSE Rounded(spent * Cycle, e)
    BY <1>1, <1>2 DEF Project
<1>5. e \in Nat /\ e <= Cycle
    <2>1. Opened(now) \in Nat /\ Opened(now) <= now /\ now - Opened(now) < Cycle /\ Cycle \in Nat
        BY SinceOpened, UsageConstants
    <2>2. QED BY <2>1
<1> HIDE DEF e
<1>6. Project(samples, now) \in Nat /\ spent <= Project(samples, now)
    <2>1. CASE e < 1
        BY <1>3, <1>4, <2>1
    <2>2. CASE ~(e < 1)
        <3>1. e \in Nat \ {0}
            BY <1>5, <2>2
        <3>2. e <= e
            BY <3>1
        <3>3. Rounded(spent * Cycle, e) \in Nat /\ spent <= Rounded(spent * Cycle, e)
            BY <1>3, <1>5, <3>1, <3>2, RateFalls
        <3>4. QED BY <1>4, <2>2, <3>3
    <2>3. QED BY <2>1, <2>2
<1>7. QED BY <1>3, <1>4, <1>6 DEF e

\* Without a new reading it falls.
LEMMA ProjectFalls ==
    ASSUME NEW samples \in Seq(Sample), NEW now \in Nat, now > Opened(now),
           NEW later \in Nat, later >= now, Opened(later) = Opened(now)
    PROVE  Project(samples, later) <= Project(samples, now)
<1>1. InCycle(samples, later) = InCycle(samples, now)
    BY DEF InCycle
<1>2. CASE InCycle(samples, now) = {}
    BY <1>1, <1>2 DEF Project
<1>3. CASE InCycle(samples, now) # {}
    <2> DEFINE at == InCycle(samples, now)
               newest == CHOOSE i \in at : \A j \in at : j <= i
               spent == samples[newest].cost
               e == now - Opened(now)
               f == later - Opened(later)
    <2>1. spent \in Nat /\ Project(samples, now) = IF e < 1 THEN spent ELSE Rounded(spent * Cycle, e)
        BY <1>3, ProjectIs
    <2>2. Project(samples, later) = IF f < 1 THEN spent ELSE Rounded(spent * Cycle, f)
        BY <1>1, <1>3, ProjectIs
    <2>3. e \in Nat \ {0} /\ f \in Nat /\ e <= f /\ f <= Cycle
        <3>1. Opened(now) \in Nat /\ Opened(later) <= later /\ later - Opened(later) < Cycle /\ Cycle \in Nat
            BY SinceOpened, UsageConstants
        <3>2. QED BY <3>1
    <2> HIDE DEF spent, e, f
    <2>4. Rounded(spent * Cycle, f) <= Rounded(spent * Cycle, e)
        BY <2>1, <2>3, RateFalls
    <2>5. ~(e < 1) /\ ~(f < 1)
        BY <2>3
    <2>6. QED BY <2>1, <2>2, <2>4, <2>5
<1>4. QED BY <1>2, <1>3

\* Three samples taken at any moments, with any answers, and any look after them.
AnyReading ==
    [of: {"usage"}, times: Nat \X Nat \X Nat \X Nat,
     answers: (Nat \cup {Unpriced, Silent}) \X (Nat \cup {Unpriced, Silent}) \X (Nat \cup {Unpriced, Silent}),
     credentials: BOOLEAN, host: {"railway", "vps"}]

\* Of any three samples and any moment, whatever they cost: money spent past the
\* ceiling shows, a projection only falls until a reading comes and never under what
\* was spent, and what is no forecast says so.
THEOREM ProjectionAlwaysHolds == reading \in AnyReading => ProjectionHolds
<1> SUFFICES ASSUME reading \in AnyReading PROVE ProjectionHolds
    OBVIOUS
<1> DEFINE taken   == [i \in 1..3 |-> SampleOf(reading.times[i], reading.credentials, reading.answers[i])]
           samples == RecentSamples(taken)
           now     == reading.times[4]
           read    == {i \in DOMAIN samples : samples[i].cost # Unpriced /\ Opened(samples[i].at) = Opened(now)}
           newest  == CHOOSE i \in read : \A j \in read : j <= i
           advice  == Advice(samples, now, reading.credentials, reading.host)
           spent   == samples[newest].cost
<1>1. now \in Nat /\ \A i \in 1..3 : reading.times[i] \in Nat /\ reading.answers[i] \in Nat \cup {Unpriced, Silent}
    BY DEF AnyReading
<1>2. taken \in Seq(Sample) /\ Len(taken) = 3
    <2>1. \A i \in 1..3 : taken[i] \in Sample
        BY <1>1 DEF SampleOf, Sample, Unpriced, Silent
    <2>2. taken \in [1..3 -> Sample]
        BY <2>1
    <2> HIDE DEF taken
    <2>3. taken \in Seq(Sample)
        BY <2>2, 3 \in Nat, SeqDef
    <2>4. Len(taken) \in Nat /\ DOMAIN taken = 1 .. Len(taken) /\ DOMAIN taken = 1 .. 3
        BY <2>2, <2>3, LenProperties
    <2>5. 3 \in DOMAIN taken /\ 4 \notin DOMAIN taken
        <3>1. DOMAIN taken = 1 .. 3
            BY <2>4
        <3>2. \A i : i \in DOMAIN taken <=> i \in 1 .. 3
            BY ONLY <3>1
        <3>3. QED BY <3>2
    <2>6. 3 <= Len(taken) /\ ~(4 <= Len(taken))
        BY <2>4, <2>5
    <2>7. QED BY <2>3, <2>4, <2>6
<1>3. reading.credentials /\ reading.answers[3] = Silent => taken[3].source = "local"
    BY DEF SampleOf
<1> HIDE DEF taken
<1>4. samples \in Seq(Sample) /\ samples # <<>> /\ samples[Len(samples)] = taken[3]
    <2> DEFINE m == IF Len(taken) > SampleWindow THEN Len(taken) - SampleWindow + 1 ELSE 1
    <2>1. m \in 1..3
        BY <1>2, UsageConstants
    <2>2. samples = SubSeq(taken, m, 3)
        BY <1>2 DEF RecentSamples
    <2> HIDE DEF m, samples
    <2>3. samples \in Seq(Sample) /\ Len(samples) = 4 - m /\ samples[4 - m] = taken[3]
        <3>1. \A i \in m .. 3 : taken[i] \in Sample
            <4>1. taken \in [1 .. Len(taken) -> Sample]
                BY <1>2, LenProperties
            <4>2. taken \in [1 .. 3 -> Sample]
                BY <1>2, <4>1
            <4>3. m .. 3 \subseteq 1 .. 3
                BY <2>1
            <4> HIDE DEF m
            <4>4. QED BY <4>2, <4>3
        <3>2. /\ SubSeq(taken, m, 3) \in Seq(Sample)
              /\ Len(SubSeq(taken, m, 3)) = IF m <= 3 THEN 3 - m + 1 ELSE 0
              /\ \A i \in 1 .. 3 - m + 1 : SubSeq(taken, m, 3)[i] = taken[m + i - 1]
            <4>1. m \in Int /\ 3 \in Int
                BY <2>1
            <4>2. QED BY <3>1, <4>1, SubSeqProperties
        <3>3. 4 - m \in 1 .. 3 - m + 1 /\ m + (4 - m) - 1 = 3 /\ 3 - m + 1 = 4 - m
            BY <2>1
        <3>4. QED BY <2>1, <2>2, <3>2, <3>3
    <2>4. QED BY <2>1, <2>3
<1> HIDE DEF samples, now
<1>5. read = InCycle(samples, now)
    BY DEF InCycle, Priced
<1>6. read # {} => /\ spent \in Nat /\ Project(samples, now) \in Nat /\ spent <= Project(samples, now)
                   /\ Priced(samples) # {}
    <2> SUFFICES ASSUME read # {} PROVE spent \in Nat /\ Project(samples, now) \in Nat /\ spent <= Project(samples, now)
                                        /\ Priced(samples) # {}
        OBVIOUS
    <2>1. newest = CHOOSE i \in InCycle(samples, now) : \A j \in InCycle(samples, now) : j <= i
        BY <1>5
    <2>2. InCycle(samples, now) # {}
        BY <1>5
    <2> HIDE DEF newest, read
    <2>3. spent \in Nat /\ Project(samples, now) \in Nat /\ spent <= Project(samples, now)
        BY <1>1, <1>4, <2>1, <2>2, ProjectIs
    <2>4. QED BY <2>2, <2>3 DEF InCycle
<1>7. read = {} => Project(samples, now) = 0
    BY <1>5 DEF Project
<1>8. Priced(samples) = {} <=> \A i \in DOMAIN samples : samples[i].cost = Unpriced
    BY DEF Priced
<1> HIDE DEF read, newest
<1>9. Level(samples, now) = IF Priced(samples) = {} THEN "unknown" ELSE IF Project(samples, now) > Ceiling THEN "over"
                            ELSE IF 5 * Project(samples, now) > 4 * Ceiling THEN "warning" ELSE "ok"
    <2>1. Project(samples, now) \in Nat /\ Ceiling \in Nat
        BY <1>6, <1>7, UsageConstants
    <2>2. Project(samples, now) <= Ceiling <=> ~(Project(samples, now) > Ceiling)
        BY <2>1
    <2>3. QED BY <2>2 DEF Level
<1>10. read # {} /\ spent > Ceiling => Level(samples, now) = "over"
    <2> SUFFICES ASSUME read # {}, spent > Ceiling PROVE Level(samples, now) = "over"
        OBVIOUS
    <2>1. Project(samples, now) > Ceiling
        BY <1>6, UsageConstants
    <2>2. QED BY <1>6, <1>9, <2>1
<1>11. Level(samples, now) = "unknown" <=> \A i \in DOMAIN samples : samples[i].cost = Unpriced
    BY <1>8, <1>9
<1>12. now > Opened(now) => \A later \in Moments :
           later >= now /\ Opened(later) = Opened(now) => Project(samples, later) <= Project(samples, now)
    BY <1>1, <1>4, ProjectFalls, UsageConstants
<1>13. Level(samples, now) = "ok" /\ read = {} => "no forecast yet" \in advice
    <2> SUFFICES ASSUME Level(samples, now) = "ok", read = {} PROVE "no forecast yet" \in advice
        OBVIOUS
    <2>1. PerDay(samples, now) = 0
        BY <1>5 DEF PerDay
    <2>2. QED BY <2>1 DEF Advice
<1>14. reading.credentials /\ reading.answers[3] = Silent => "not answering" \in advice
    BY <1>3, <1>4 DEF Advice
<1>15. reading.host # "railway" => advice \cap {"set the token", "sleep the panel", "one replica"} = {}
    BY DEF Advice
<1> HIDE DEF advice
<1>16. QED BY <1>6, <1>7, <1>10, <1>11, <1>12, <1>13, <1>14, <1>15 DEF ProjectionHolds, read, newest, advice, samples, now, taken

-----------------------------------------------------------------------------
(* Geolocation databases.                                                  *)

\* Pointers of neighbouring widths meet.
LEMMA PointersMeetAt ==
    ASSUME NEW width \in 0..2, NEW low \in 0..7, NEW tail \in {"first", "last"}
    PROVE  LET here == Pointer(width, low, TailOf(width, tail))
               next == IF tail = "first" THEN Pointer(width, low, 1)
                       ELSE IF low < 7 THEN Pointer(width, low + 1, 0)
                       ELSE IF width < 2 THEN Pointer(width + 1, 0, 0) ELSE here + 1
           IN  next = here + 1
<1>1. 256^(0 + 1) = 256 /\ 256^(1 + 1) = 65536 /\ 256^(2 + 1) = 16777216
    OBVIOUS
<1>2. PointerBase[1] = 0 /\ PointerBase[2] = 2048 /\ PointerBase[3] = 526336
    BY DEF PointerBase
<1>3. \A l, t : /\ Pointer(0, l, t) = l * 256 + t + 0
                /\ Pointer(1, l, t) = l * 65536 + t + 2048
                /\ Pointer(2, l, t) = l * 16777216 + t + 526336
    BY <1>1, <1>2 DEF Pointer
<1>4. /\ TailOf(0, tail) = IF tail = "first" THEN 0 ELSE 255
      /\ TailOf(1, tail) = IF tail = "first" THEN 0 ELSE 65535
      /\ TailOf(2, tail) = IF tail = "first" THEN 0 ELSE 16777215
    BY <1>1 DEF TailOf
<1>5. CASE width = 0
    BY <1>3, <1>4, <1>5
<1>6. CASE width = 1
    BY <1>3, <1>4, <1>6
<1>7. CASE width = 2
    BY <1>3, <1>4, <1>7
<1>8. QED BY <1>5, <1>6, <1>7

\* And so do sizes.
LEMMA SizesMeetAt ==
    ASSUME NEW short \in 0..30
    PROVE  LET last(s) == IF s < 29 THEN 0 ELSE IF s = 29 THEN 255 ELSE 65535
           IN  Size(short + 1, 0) = Size(short, last(short)) + 1
<1>1. CASE short < 28
    BY <1>1 DEF Size
<1>2. CASE short = 28
    BY <1>2 DEF Size
<1>3. CASE short = 29
    BY <1>3 DEF Size
<1>4. CASE short = 30
    BY <1>4 DEF Size
<1>5. QED BY <1>1, <1>2, <1>3, <1>4

\* The seven bytes of two records give both back.
LEMMA RecordsReadBackAt ==
    ASSUME NEW left \in 0 .. (2^28 - 1), NEW right \in 0 .. (2^28 - 1)
    PROVE  ReadRecord(Bytes(left, right), 0) = left /\ ReadRecord(Bytes(left, right), 1) = right
<1>1. 2^28 = 268435456 /\ 2^24 = 16777216
    OBVIOUS
<1>2. 256^(2 - 0) = 65536 /\ 256^(2 - 1) = 256 /\ 256^(2 - 2) = 1
    OBVIOUS
<1> DEFINE bytes == Bytes(left, right)
<1>3. /\ bytes[1] = (left \div 65536) % 256 /\ bytes[2] = (left \div 256) % 256 /\ bytes[3] = (left \div 1) % 256
      /\ bytes[4] = (left \div 16777216) * 16 + right \div 16777216
      /\ bytes[5] = (right \div 65536) % 256 /\ bytes[6] = (right \div 256) % 256 /\ bytes[7] = (right \div 1) % 256
    BY <1>1, <1>2 DEF Bytes
<1> HIDE DEF bytes
<1>4. /\ ReadRecord(bytes, 0) = (bytes[4] \div 16) * 16777216 + (bytes[1] * 65536 + bytes[2] * 256 + bytes[3])
      /\ ReadRecord(bytes, 1) = (bytes[4] % 16) * 16777216 + (bytes[5] * 65536 + bytes[6] * 256 + bytes[7])
    BY <1>1 DEF ReadRecord
<1>5. left \in Nat /\ left < 268435456 /\ right \in Nat /\ right < 268435456
    BY <1>1
<1>6. bytes[4] \div 16 = left \div 16777216 /\ bytes[4] % 16 = right \div 16777216
    BY <1>3, <1>5
<1>7. \A n \in Nat : n < 268435456 =>
          (n \div 16777216) * 16777216 + (((n \div 65536) % 256) * 65536 + ((n \div 256) % 256) * 256 + ((n \div 1) % 256)) = n
    OBVIOUS
<1>8. QED BY <1>3, <1>4, <1>5, <1>6, <1>7 DEF bytes

\* An address is in a reserved range exactly when it is in one of the blocks.
LEMMA ReservedAt ==
    ASSUME NEW a \in 0..255, NEW b \in 0..255, NEW c \in 0..255
    PROVE  IsReserved(a, b, c) <=> \E block \in Blocks : In(block, a, b, c)
<1> DEFINE n == a * 65536 + b * 256 + c
<1>1. /\ 2^(24 - 8) = 65536 /\ 2^(24 - 12) = 4096 /\ 2^(24 - 16) = 256 /\ 2^(24 - 10) = 16384
      /\ 2^(24 - 3) = 2097152 /\ 2^(24 - 24) = 1 /\ 2^(24 - 15) = 512
    OBVIOUS
<1>2. /\ In(<<0,0,0,8>>, a, b, c) <=> n \div 65536 = 0
      /\ In(<<10,0,0,8>>, a, b, c) <=> n \div 65536 = 655360 \div 65536
      /\ In(<<127,0,0,8>>, a, b, c) <=> n \div 65536 = 8323072 \div 65536
      /\ In(<<172,16,0,12>>, a, b, c) <=> n \div 4096 = 11276288 \div 4096
      /\ In(<<192,168,0,16>>, a, b, c) <=> n \div 256 = 12625920 \div 256
      /\ In(<<169,254,0,16>>, a, b, c) <=> n \div 256 = 11140608 \div 256
    BY <1>1 DEF In
<1>3. /\ In(<<100,64,0,10>>, a, b, c) <=> n \div 16384 = 6569984 \div 16384
      /\ In(<<224,0,0,3>>, a, b, c) <=> n \div 2097152 = 14680064 \div 2097152
      /\ In(<<192,0,2,24>>, a, b, c) <=> n \div 1 = 12582914
      /\ In(<<198,18,0,15>>, a, b, c) <=> n \div 512 = 12980736 \div 512
      /\ In(<<198,51,100,24>>, a, b, c) <=> n \div 1 = 12989284
      /\ In(<<203,0,113,24>>, a, b, c) <=> n \div 1 = 13303921
    BY <1>1 DEF In
<1>4. /\ n \div 65536 = 0 <=> a = 0
      /\ n \div 65536 = 655360 \div 65536 <=> a = 10
      /\ n \div 65536 = 8323072 \div 65536 <=> a = 127
      /\ n \div 4096 = 11276288 \div 4096 <=> a = 172 /\ b \in 16..31
      /\ n \div 256 = 12625920 \div 256 <=> a = 192 /\ b = 168
      /\ n \div 256 = 11140608 \div 256 <=> a = 169 /\ b = 254
    OBVIOUS
<1>5. /\ n \div 16384 = 6569984 \div 16384 <=> a = 100 /\ b \in 64..127
      /\ n \div 2097152 = 14680064 \div 2097152 <=> a >= 224
      /\ n \div 1 = 12582914 <=> a = 192 /\ b = 0 /\ c = 2
      /\ n \div 512 = 12980736 \div 512 <=> a = 198 /\ b \in {18, 19}
      /\ n \div 1 = 12989284 <=> a = 198 /\ b = 51 /\ c = 100
      /\ n \div 1 = 13303921 <=> a = 203 /\ b = 0 /\ c = 113
    OBVIOUS
<1> DEFINE I(block) == In(block, a, b, c)
<1>6. (\E block \in Blocks : I(block)) <=>
          \/ I(<<0,0,0,8>>) \/ I(<<10,0,0,8>>) \/ I(<<127,0,0,8>>) \/ I(<<172,16,0,12>>) \/ I(<<192,168,0,16>>)
          \/ I(<<169,254,0,16>>) \/ I(<<100,64,0,10>>) \/ I(<<224,0,0,3>>) \/ I(<<192,0,2,24>>)
          \/ I(<<198,18,0,15>>) \/ I(<<198,51,100,24>>) \/ I(<<203,0,113,24>>)
    <2>1. \A block : block \in Blocks <=>
              \/ block = <<0,0,0,8>> \/ block = <<10,0,0,8>> \/ block = <<127,0,0,8>> \/ block = <<172,16,0,12>>
              \/ block = <<192,168,0,16>> \/ block = <<169,254,0,16>> \/ block = <<100,64,0,10>> \/ block = <<224,0,0,3>>
              \/ block = <<192,0,2,24>> \/ block = <<198,18,0,15>> \/ block = <<198,51,100,24>> \/ block = <<203,0,113,24>>
        BY DEF Blocks
    <2> HIDE DEF I
    <2>2. QED BY <2>1
<1> HIDE DEF n
<1>7. QED BY <1>2, <1>3, <1>4, <1>5, <1>6 DEF IsReserved

\* A field is missing from a merge only when it is from every answer that came.
LEMMA DamageContained ==
    ASSUME NEW answers \in [1..2 -> [throws: BOOLEAN, has: SUBSET {"country", "asn"}]], NEW field \in {"country", "asn"}
    PROVE  Merge(answers)[field] = 0 <=> \A i \in 1..2 : answers[i].throws \/ field \notin answers[i].has
<1> DEFINE has == {i \in DOMAIN answers : ~answers[i].throws /\ field \in answers[i].has}
           first == CHOOSE i \in has : \A j \in has : i <= j
<1>1. Merge(answers)[field] = IF has = {} THEN 0 ELSE first
    BY DEF Merge
<1>2. has # {} => first \in 1..2
    <2>1. has \subseteq 1..2
        OBVIOUS
    <2> HIDE DEF has
    <2> SUFFICES ASSUME has # {} PROVE \E i \in has : \A j \in has : i <= j
        BY <2>1
    <2>2. CASE 1 \in has
        <3>1. \A j \in has : 1 <= j
            BY <2>1
        <3>2. QED BY <2>2, <3>1
    <2>3. CASE 1 \notin has
        <3>1. \A j \in has : j = 2
            BY <2>1, <2>3
        <3>2. QED BY <3>1
    <2>4. QED BY <2>2, <2>3
<1> HIDE DEF first
<1>3. Merge(answers)[field] = 0 <=> has = {}
    BY <1>1, <1>2
<1>4. QED BY <1>3

\* Three of anything, in order.
LEMMA ThreeLong ==
    ASSUME NEW S, NEW f \in [1..3 -> S]
    PROVE  f \in Seq(S) /\ Len(f) = 3
<1>1. f \in Seq(S)
    BY 3 \in Nat, SeqDef
<1>2. Len(f) \in Nat /\ DOMAIN f = 1 .. Len(f)
    BY <1>1, LenProperties
<1>3. 3 \in DOMAIN f /\ 4 \notin DOMAIN f
    OBVIOUS
<1>4. 3 <= Len(f) /\ ~(4 <= Len(f))
    BY <1>2, <1>3
<1>5. QED BY <1>1, <1>2, <1>4

\* Files of any size, and where tar puts three of them.
AnyFile == [size: Nat, database: BOOLEAN]
LEMMA OffsetsAre ==
    ASSUME NEW files \in [1..3 -> AnyFile]
    PROVE  /\ Offset(files, 1) = 0
           /\ Offset(files, 2) = Offset(files, 1) + Block + Padded(files[1].size)
           /\ Offset(files, 3) = Offset(files, 2) + Block + Padded(files[2].size)
           /\ \A n \in 1..3 : files[n].size \in Nat /\ Padded(files[n].size) \in Nat
                              /\ files[n].size <= Padded(files[n].size) /\ files[n].database \in BOOLEAN
<1> DEFINE s == [i \in 1..3 |-> Block * (1 + (files[i].size \div Block)
                                   + (IF files[i].size % Block = 0 THEN 0 ELSE 1))]
           Eqn(g) == g = [i \in 0..Len(files) |-> IF i = 0 THEN 0
                                                  ELSE g[i - 1] + Block * (1 + (files[i].size \div Block)
                                                          + (IF files[i].size % Block = 0 THEN 0 ELSE 1))]
           w == [i \in 0..3 |-> IF i = 0 THEN 0 ELSE IF i = 1 THEN s[1] ELSE IF i = 2 THEN s[1] + s[2]
                                ELSE s[1] + s[2] + s[3]]
<1>1. Len(files) = 3 /\ \A i \in 1..3 : files[i].size \in Nat /\ files[i].database \in BOOLEAN
    BY ThreeLong DEF AnyFile
<1>2. \A i \in 1..3 : /\ s[i] = Block + Padded(files[i].size) /\ s[i] \in Nat
                      /\ Padded(files[i].size) \in Nat /\ files[i].size <= Padded(files[i].size)
    <2>1. \A n \in Nat : /\ Block * (1 + (n \div Block) + (IF n % Block = 0 THEN 0 ELSE 1)) = Block + Padded(n)
                         /\ Padded(n) \in Nat /\ n <= Padded(n) /\ Block \in Nat
        BY DEF Padded, Block
    <2>2. \A i \in 1..3 : s[i] = Block + Padded(files[i].size)
        <3> SUFFICES ASSUME NEW i \in 1..3 PROVE s[i] = Block + Padded(files[i].size)
            OBVIOUS
        <3>1. files[i].size \in Nat
            BY <1>1
        <3>2. QED BY <2>1, <3>1
    <2> HIDE DEF s
    <2> SUFFICES ASSUME NEW i \in 1..3
                 PROVE  /\ s[i] = Block + Padded(files[i].size) /\ s[i] \in Nat
                        /\ Padded(files[i].size) \in Nat /\ files[i].size <= Padded(files[i].size)
        OBVIOUS
    <2>3. files[i].size \in Nat
        BY <1>1
    <2>4. Padded(files[i].size) \in Nat /\ files[i].size <= Padded(files[i].size) /\ Block \in Nat
        BY <2>1, <2>3
    <2>5. s[i] = Block + Padded(files[i].size)
        BY <2>2
    <2>6. QED BY <2>4, <2>5
<1>3. Eqn(w)
    <2> DEFINE v == [i \in 0..3 |-> IF i = 0 THEN 0 ELSE w[i - 1] + s[i]]
    <2>1. \A i \in 0..3 : v[i] = w[i]
        <3>1. w[0] = 0 /\ w[1] = s[1] /\ w[2] = s[1] + s[2] /\ w[3] = s[1] + s[2] + s[3]
            OBVIOUS
        <3>2. v[0] = 0 /\ v[1] = w[0] + s[1] /\ v[2] = w[1] + s[2] /\ v[3] = w[2] + s[3]
            OBVIOUS
        <3> HIDE DEF v, w, s
        <3>3. v[0] = w[0] /\ v[1] = w[1] /\ v[2] = w[2] /\ v[3] = w[3]
            BY <1>2, <3>1, <3>2
        <3>4. \A i \in 0..3 : i = 0 \/ i = 1 \/ i = 2 \/ i = 3
            OBVIOUS
        <3>5. QED BY <3>3, <3>4
    <2>2. w = v
        <3>1. w = [i \in 0..3 |-> w[i]] /\ v = [i \in 0..3 |-> v[i]]
            OBVIOUS
        <3> HIDE DEF v, w
        <3>2. QED BY <2>1, <3>1
    <2>3. v = [i \in 0..Len(files) |-> IF i = 0 THEN 0
                                                  ELSE w[i - 1] + Block * (1 + (files[i].size \div Block)
                                                          + (IF files[i].size % Block = 0 THEN 0 ELSE 1))]
        <3> HIDE DEF w
        <3>1. QED BY <1>1
    <2> HIDE DEF v, w
    <2>4. QED BY <2>2, <2>3
<1> DEFINE u == CHOOSE g : Eqn(g)
<1>4. Eqn(u)
    BY <1>3
<1>5. \A n : Offset(files, n) = u[n - 1]
    BY Zenon DEF Offset
<1> HIDE DEF u
<1>6. u[0] = 0 /\ u[1] = u[0] + s[1] /\ u[2] = u[1] + s[2]
    BY <1>1, <1>4
<1>7. Offset(files, 1) = u[0] /\ Offset(files, 2) = u[1] /\ Offset(files, 3) = u[2]
    <2> HIDE DEF Eqn
    <2>1. 1 - 1 = 0 /\ 2 - 1 = 1 /\ 3 - 1 = 2
        OBVIOUS
    <2>2. Offset(files, 1) = u[1 - 1] /\ Offset(files, 2) = u[2 - 1] /\ Offset(files, 3) = u[3 - 1]
        BY <1>5
    <2>3. QED BY <2>1, <2>2
<1> HIDE DEF s
<1>8. s[1] = Block + Padded(files[1].size) /\ s[2] = Block + Padded(files[2].size) /\ Block \in Nat
      /\ Padded(files[1].size) \in Nat /\ Padded(files[2].size) \in Nat
    BY <1>2 DEF Block
<1>9. QED BY <1>1, <1>2, <1>6, <1>7, <1>8

\* One step through an archive.
At(at, found) == [at |-> at, found |-> found]
Looked(archive, length, was) ==
    IF was.found # -1 \/ was.at \notin DOMAIN archive \/ was.at + Block > length THEN was
    ELSE LET file == archive[was.at] IN
         IF file.database /\ was.at + Block + file.size <= length
           THEN [was EXCEPT !.found = was.at + Block]
           ELSE IF file.database THEN [was EXCEPT !.found = -2]
           ELSE [was EXCEPT !.at = was.at + Block + Padded(file.size)]

\* What it sets.
LEMMA AtSet ==
    ASSUME NEW at, NEW found, NEW x
    PROVE  /\ [At(at, found) EXCEPT !.found = x] = At(at, x)
           /\ [At(at, found) EXCEPT !.at = x] = At(x, found)
           /\ At(at, found).at = at /\ At(at, found).found = found
BY DEF At

\* Three steps are what is extracted from an archive of three.
LEMMA ThreeLooks ==
    ASSUME NEW archive, NEW length, IsFiniteSet(DOMAIN archive), Cardinality(DOMAIN archive) = 3,
           NEW one, one = Looked(archive, length, At(0, -1)),
           NEW two, two = Looked(archive, length, one),
           NEW three, three = Looked(archive, length, two)
    PROVE  Extract(archive, length) = three.found
<1> DEFINE Eqn(g) == g = [n \in 0..Cardinality(DOMAIN archive) |->
                            IF n = 0 THEN At(0, -1) ELSE Looked(archive, length, g[n - 1])]
           w == [n \in 0..3 |-> IF n = 0 THEN At(0, -1) ELSE IF n = 1 THEN one ELSE IF n = 2 THEN two ELSE three]
<1>1. Eqn(w)
    <2> DEFINE v == [n \in 0..3 |-> IF n = 0 THEN At(0, -1) ELSE Looked(archive, length, w[n - 1])]
    <2>1. \A n \in 0..3 : v[n] = w[n]
        <3>1. w[0] = At(0, -1) /\ w[1] = one /\ w[2] = two /\ w[3] = three
            OBVIOUS
        <3>2. v[0] = At(0, -1) /\ v[1] = Looked(archive, length, w[0]) /\ v[2] = Looked(archive, length, w[1])
              /\ v[3] = Looked(archive, length, w[2])
            OBVIOUS
        <3> HIDE DEF v, w
        <3>3. v[0] = w[0] /\ v[1] = w[1] /\ v[2] = w[2] /\ v[3] = w[3]
            BY <3>1, <3>2
        <3>4. \A n \in 0..3 : n = 0 \/ n = 1 \/ n = 2 \/ n = 3
            OBVIOUS
        <3>5. QED BY <3>3, <3>4
    <2>2. w = v
        <3>1. w = [n \in 0..3 |-> w[n]] /\ v = [n \in 0..3 |-> v[n]]
            OBVIOUS
        <3> HIDE DEF v, w
        <3>2. QED BY <2>1, <3>1
    <2> HIDE DEF w
    <2>3. QED BY <2>2
<1> DEFINE u == CHOOSE g : Eqn(g)
<1>2. Eqn(u)
    BY <1>1
<1>3. Extract(archive, length) = u[Cardinality(DOMAIN archive)].found
    BY Zenon DEF Extract, Looked, At
<1> HIDE DEF u
<1>4. u[0] = At(0, -1) /\ u[1] = Looked(archive, length, u[0]) /\ u[2] = Looked(archive, length, u[1])
      /\ u[3] = Looked(archive, length, u[2])
    BY <1>2
<1>5. u[3] = three
    BY <1>4
<1>6. QED BY <1>3, <1>5

\* A look past a file that is no database.
LEMMA LooksPast ==
    ASSUME NEW archive, NEW length \in Int, NEW at \in DOMAIN archive \cap Nat, archive[at] \in AnyFile, ~archive[at].database
    PROVE  Looked(archive, length, At(at, -1)) =
               IF at + Block > length THEN At(at, -1) ELSE At(at + Block + Padded(archive[at].size), -1)
<1> DEFINE was == At(at, -1)
<1>1. was.at = at /\ was.found = -1
      /\ [was EXCEPT !.at = at + Block + Padded(archive[at].size)] = At(at + Block + Padded(archive[at].size), -1)
    BY AtSet
<1> HIDE DEF was
<1>2. QED BY <1>1 DEF Looked, was

\* A look at one that is.
LEMMA LooksAt ==
    ASSUME NEW archive, NEW length \in Int, NEW at \in DOMAIN archive \cap Nat, archive[at] \in AnyFile, archive[at].database
    PROVE  Looked(archive, length, At(at, -1)) =
               At(at, IF at + Block > length THEN -1 ELSE IF at + Block + archive[at].size <= length THEN at + Block ELSE -2)
<1> DEFINE was == At(at, -1)
<1>1. /\ was.at = at /\ was.found = -1
      /\ [was EXCEPT !.found = at + Block] = At(at, at + Block) /\ [was EXCEPT !.found = -2] = At(at, -2)
    BY AtSet
<1> HIDE DEF was
<1>2. QED BY <1>1 DEF Looked, was

\* Once something is found, or no header is left, nothing moves.
LEMMA LooksNoMore ==
    ASSUME NEW archive, NEW length \in Int, NEW at, NEW found, found # -1 \/ at + Block > length
    PROVE  Looked(archive, length, At(at, found)) = At(at, found)
<1> DEFINE was == At(at, found)
<1>1. was.at = at /\ was.found = found
    BY AtSet
<1> HIDE DEF was
<1>2. QED BY <1>1 DEF Looked, was

\* The database taken from an archive is its first, and only whole.
LEMMA ArchiveFinds ==
    ASSUME NEW files \in [1..3 -> AnyFile], NEW length \in Int, NEW n \in 1..3,
           files[n].database, \A m \in 1..(n - 1) : ~files[m].database
    PROVE  Extract(Archive(files), length) = Offset(files, n) + Block <=>
               Offset(files, n) + Block + files[n].size <= length
<1> DEFINE o1 == Offset(files, 1)
           o2 == Offset(files, 2)
           o3 == Offset(files, 3)
           p1 == Padded(files[1].size)
           p2 == Padded(files[2].size)
           archive == Archive(files)
<1>1. /\ o1 = 0 /\ o2 = o1 + Block + p1 /\ o3 = o2 + Block + p2
      /\ p1 \in Nat /\ p2 \in Nat /\ files[1] \in AnyFile /\ files[2] \in AnyFile /\ files[3] \in AnyFile
      /\ files[1].size \in Nat /\ files[2].size \in Nat /\ files[3].size \in Nat
    BY OffsetsAre
<1>2. Block = 512
    BY DEF Block
<1>3. DOMAIN files = 1..3
    OBVIOUS
<1> HIDE DEF p1, p2
<1>4. o1 \in Nat /\ o2 \in Nat /\ o3 \in Nat /\ o1 < o2 /\ o2 < o3
    BY <1>1, <1>2
<1>5. DOMAIN archive = {o1, o2, o3}
    <2>1. DOMAIN archive = {Offset(files, m) : m \in 1..3}
        BY <1>3 DEF Archive
    <2>2. 1..3 = {1, 2, 3}
        OBVIOUS
    <2>3. QED BY <2>1, <2>2
<1>6. archive[o1] = files[1] /\ archive[o2] = files[2] /\ archive[o3] = files[3]
    <2> DEFINE Of(at) == CHOOSE m \in 1..3 : Offset(files, m) = at
    <2>1. \A m \in 1..3 : m = 1 \/ m = 2 \/ m = 3
        OBVIOUS
    <2>2. Of(o1) = 1 /\ Of(o2) = 2 /\ Of(o3) = 3
        BY <1>4, <2>1
    <2>3. \A at \in DOMAIN archive : archive[at] = files[Of(at)]
        BY <1>3 DEF Archive
    <2> HIDE DEF Of
    <2>4. QED BY <1>5, <2>2, <2>3
<1>7. IsFiniteSet(DOMAIN archive) /\ Cardinality(DOMAIN archive) = 3
    <2> HIDE DEF o1, o2, o3, archive
    <2>1. IsFiniteSet({o1}) /\ Cardinality({o1}) = 1
        BY FS_Singleton
    <2>2. o2 \notin {o1} /\ {o1, o2} = {o1} \cup {o2} /\ o3 \notin {o1, o2} /\ {o1, o2, o3} = {o1, o2} \cup {o3}
        BY <1>4
    <2>3. IsFiniteSet({o1, o2}) /\ Cardinality({o1, o2}) = 2
        BY <2>1, <2>2, FS_AddElement
    <2>4. IsFiniteSet({o1, o2, o3}) /\ Cardinality({o1, o2, o3}) = 3
        BY <2>2, <2>3, FS_AddElement
    <2>5. QED BY <1>5, <2>4
<1> DEFINE one == Looked(archive, length, At(0, -1))
           two == Looked(archive, length, one)
           three == Looked(archive, length, two)
<1>8. Extract(archive, length) = three.found
    BY <1>7, ThreeLooks
<1>9. \A at, found : At(at, found).found = found
    BY AtSet
<1> HIDE DEF o1, o2, o3, archive, one, two, three
<1>10. CASE n = 1
    <2> DEFINE found == IF o1 + Block > length THEN -1 ELSE IF o1 + Block + files[1].size <= length THEN o1 + Block ELSE -2
    <2>1. files[1].database
        BY <1>10
    <2>2. one = At(o1, found)
        BY <1>1, <1>4, <1>5, <1>6, <2>1, LooksAt DEF one
    <2>3. found # -1 \/ o1 + Block > length
        BY <1>1, <1>2
    <2>4. two = At(o1, found) /\ three = At(o1, found)
        BY <2>2, <2>3, LooksNoMore DEF two, three
    <2>5. Extract(archive, length) = found
        BY <1>8, <1>9, <2>4
    <2>6. found = o1 + Block <=> o1 + Block + files[1].size <= length
        BY <1>1, <1>2
    <2> HIDE DEF found
    <2>7. QED BY <1>10, <2>5, <2>6 DEF archive, o1
<1>11. CASE n = 2
    <2> DEFINE found == IF o2 + Block > length THEN -1 ELSE IF o2 + Block + files[2].size <= length THEN o2 + Block ELSE -2
    <2>1. files[2].database /\ ~files[1].database
        BY <1>11
    <2>2. one = IF o1 + Block > length THEN At(o1, -1) ELSE At(o2, -1)
        BY <1>1, <1>4, <1>5, <1>6, <2>1, LooksPast DEF one, p1
    <2>3. CASE o1 + Block > length
        <3>1. one = At(o1, -1)
            BY <2>2, <2>3
        <3>2. two = At(o1, -1) /\ three = At(o1, -1)
            BY <2>3, <3>1, LooksNoMore DEF two, three
        <3>3. Extract(archive, length) = -1
            BY <1>8, <1>9, <3>2
        <3>4. ~(o2 + Block + files[2].size <= length) /\ o2 + Block # -1
            BY <1>1, <1>2, <2>3
        <3>5. QED BY <1>11, <3>3, <3>4 DEF archive, o2
    <2>4. CASE ~(o1 + Block > length)
        <3>1. one = At(o2, -1)
            BY <2>2, <2>4
        <3>2. two = At(o2, found)
            BY <1>1, <1>4, <1>5, <1>6, <2>1, <3>1, LooksAt DEF two
        <3>3. found # -1 \/ o2 + Block > length
            BY <1>1, <1>2, <1>4
        <3>4. three = At(o2, found)
            BY <3>2, <3>3, LooksNoMore DEF three
        <3>5. Extract(archive, length) = found
            BY <1>8, <1>9, <3>4
        <3>6. found = o2 + Block <=> o2 + Block + files[2].size <= length
            BY <1>1, <1>2, <1>4
        <3> HIDE DEF found
        <3>7. QED BY <1>11, <3>5, <3>6 DEF archive, o2
    <2>5. QED BY <2>3, <2>4
<1>12. CASE n = 3
    <2> DEFINE found == IF o3 + Block > length THEN -1 ELSE IF o3 + Block + files[3].size <= length THEN o3 + Block ELSE -2
    <2>1. files[3].database /\ ~files[1].database /\ ~files[2].database
        BY <1>12
    <2>2. one = IF o1 + Block > length THEN At(o1, -1) ELSE At(o2, -1)
        BY <1>1, <1>4, <1>5, <1>6, <2>1, LooksPast DEF one, p1
    <2>3. CASE o2 + Block > length
        <3>1. two = one
            <4>1. CASE o1 + Block > length
                BY <2>2, <4>1, LooksNoMore DEF two
            <4>2. CASE ~(o1 + Block > length)
                BY <2>2, <2>3, <4>2, LooksNoMore DEF two
            <4>3. QED BY <4>1, <4>2
        <3>2. three = two
            BY <3>1 DEF two, three
        <3>3. Extract(archive, length) = -1
            BY <1>8, <1>9, <2>2, <3>1, <3>2
        <3>4. ~(o3 + Block + files[3].size <= length) /\ o3 + Block # -1
            BY <1>1, <1>2, <1>4, <2>3
        <3>5. QED BY <1>12, <3>3, <3>4 DEF archive, o3
    <2>4. CASE ~(o2 + Block > length)
        <3>1. one = At(o2, -1)
            <4>1. ~(o1 + Block > length)
                BY <1>2, <1>4, <2>4
            <4>2. QED BY <2>2, <4>1
        <3>2. two = At(o3, -1)
            BY <1>1, <1>4, <1>5, <1>6, <2>1, <2>4, <3>1, LooksPast DEF two, p2
        <3>3. three = At(o3, found)
            BY <1>1, <1>4, <1>5, <1>6, <2>1, <3>2, LooksAt DEF three
        <3>4. Extract(archive, length) = found
            BY <1>8, <1>9, <3>3
        <3>5. found = o3 + Block <=> o3 + Block + files[3].size <= length
            BY <1>1, <1>2, <1>4
        <3> HIDE DEF found
        <3>6. QED BY <1>12, <3>4, <3>5 DEF archive, o3
    <2>5. QED BY <2>3, <2>4
<1>13. n = 1 \/ n = 2 \/ n = 3
    OBVIOUS
<1>14. QED BY <1>10, <1>11, <1>12, <1>13

\* A word of bits is the bits it has.
LEMMA BitsAre ==
    /\ \A p : p \in Bits(0) <=> p = <<>>
    /\ \A p \in Bits(1) : Len(p) = 1 /\ p[1] \in {0, 1} /\ p = <<p[1]>>
    /\ \A p \in Bits(2) : Len(p) = 2 /\ p[1] \in {0, 1} /\ p[2] \in {0, 1} /\ p = <<p[1], p[2]>>
    /\ \A x, y \in {0, 1} : <<x>> \in Bits(1) /\ <<x, y>> \in Bits(2)
<1>1. \A p : p \in Bits(0) <=> p = <<>>
    <2>1. \A p : p \in Bits(0) <=> p \in [1..0 -> {0, 1}]
        BY DEF Bits
    <2>2. ASSUME NEW p \in [1..0 -> {0, 1}] PROVE p = <<>>
        <3>1. p \in Seq({0, 1}) /\ DOMAIN p = 1..0
            BY 0 \in Nat, SeqDef
        <3>2. Len(p) \in Nat /\ DOMAIN p = 1 .. Len(p)
            BY <3>1, LenProperties
        <3>3. 1 \notin DOMAIN p
            BY <3>1
        <3>4. Len(p) = 0
            BY <3>2, <3>3
        <3>5. QED BY <3>1, <3>4, EmptySeq
    <2>3. <<>> \in [1..0 -> {0, 1}]
        <3>1. <<>> \in Seq({0, 1}) /\ Len(<<>>) = 0
            OBVIOUS
        <3>2. <<>> \in [1 .. Len(<<>>) -> {0, 1}]
            BY <3>1, LenProperties
        <3>3. QED BY <3>1, <3>2
    <2>4. QED BY <2>1, <2>2, <2>3
<1>2. \A p \in Bits(1) : Len(p) = 1 /\ p[1] \in {0, 1} /\ p = <<p[1]>>
    <2> SUFFICES ASSUME NEW p \in Bits(1) PROVE Len(p) = 1 /\ p[1] \in {0, 1} /\ p = <<p[1]>>
        OBVIOUS
    <2>1. p \in Seq({0, 1}) /\ DOMAIN p = 1..1 /\ p[1] \in {0, 1}
        <3>1. p \in [1..1 -> {0, 1}]
            BY DEF Bits
        <3>2. p \in Seq({0, 1})
            BY <3>1, 1 \in Nat, SeqDef
        <3>3. QED BY <3>1, <3>2
    <2>2. Len(p) \in Nat /\ DOMAIN p = 1 .. Len(p)
        BY <2>1, LenProperties
    <2>3. 1 \in DOMAIN p /\ 2 \notin DOMAIN p
        BY <2>1
    <2>4. Len(p) = 1
        BY <2>2, <2>3
    <2>5. p = <<p[1]>>
        BY <2>1, <2>4
    <2>6. QED BY <2>1, <2>4, <2>5
<1>3. \A p \in Bits(2) : Len(p) = 2 /\ p[1] \in {0, 1} /\ p[2] \in {0, 1} /\ p = <<p[1], p[2]>>
    <2> SUFFICES ASSUME NEW p \in Bits(2) PROVE Len(p) = 2 /\ p[1] \in {0, 1} /\ p[2] \in {0, 1} /\ p = <<p[1], p[2]>>
        OBVIOUS
    <2>1. p \in Seq({0, 1}) /\ DOMAIN p = 1..2 /\ p[1] \in {0, 1} /\ p[2] \in {0, 1}
        <3>1. p \in [1..2 -> {0, 1}]
            BY DEF Bits
        <3>2. p \in Seq({0, 1})
            BY <3>1, 2 \in Nat, SeqDef
        <3>3. QED BY <3>1, <3>2
    <2>2. Len(p) \in Nat /\ DOMAIN p = 1 .. Len(p)
        BY <2>1, LenProperties
    <2>3. 2 \in DOMAIN p /\ 3 \notin DOMAIN p
        BY <2>1
    <2>4. Len(p) = 2
        BY <2>2, <2>3
    <2>5. p = <<p[1], p[2]>>
        BY <2>1, <2>4
    <2>6. QED BY <2>1, <2>4, <2>5
<1>4. \A x, y \in {0, 1} : <<x>> \in Bits(1) /\ <<x, y>> \in Bits(2)
    BY DEF Bits
<1>5. QED BY <1>1, <1>2, <1>3, <1>4

\* A node is of one prefix.
PrefixOf(n) == CHOOSE p \in Bits(0) \cup Bits(1) \cup Bits(2) : Node(p) = n
LEMMA NodesAre ==
    ASSUME NEW x \in {0, 1}, NEW y \in {0, 1}
    PROVE  /\ Node(<<>>) = 0 /\ Node(<<x>>) = 1 + x /\ Node(<<x, y>>) = 3 + 2 * x + y
           /\ PrefixOf(0) = <<>> /\ PrefixOf(1 + x) = <<x>> /\ PrefixOf(3 + 2 * x + y) = <<x, y>>
<1> DEFINE All == Bits(0) \cup Bits(1) \cup Bits(2)
<1>1. \A u, v \in {0, 1} : Node(<<>>) = 0 /\ Node(<<u>>) = 1 + u /\ Node(<<u, v>>) = 3 + 2 * u + v
    BY DEF Node
<1>2. \A p \in All : p = <<>> \/ (\E u \in {0, 1} : p = <<u>>) \/ \E u, v \in {0, 1} : p = <<u, v>>
    BY BitsAre
<1>3. <<>> \in All /\ <<x>> \in All /\ <<x, y>> \in All
    BY BitsAre
<1> HIDE DEF All
<1>4. \A p \in All : Node(p) = 0 => p = <<>>
    <2> SUFFICES ASSUME NEW p \in All, Node(p) = 0, p # <<>> PROVE FALSE
        OBVIOUS
    <2>1. CASE \E u \in {0, 1} : p = <<u>>
        BY <1>1, <2>1
    <2>2. CASE \E u, v \in {0, 1} : p = <<u, v>>
        BY <1>1, <2>2
    <2>3. QED BY <1>2, <2>1, <2>2
<1>5. \A p \in All : Node(p) = 1 + x => p = <<x>>
    <2> SUFFICES ASSUME NEW p \in All, Node(p) = 1 + x PROVE p = <<x>>
        OBVIOUS
    <2>1. CASE p = <<>>
        BY <1>1, <2>1
    <2>2. CASE \E u \in {0, 1} : p = <<u>>
        BY <1>1, <2>2
    <2>3. CASE \E u, v \in {0, 1} : p = <<u, v>>
        <3>1. PICK u \in {0, 1}, v \in {0, 1} : p = <<u, v>>
            BY <2>3
        <3>2. Node(p) = 3 + 2 * u + v
            BY <1>1, <3>1
        <3>3. QED BY <3>1, <3>2
    <2>4. QED BY <1>2, <2>1, <2>2, <2>3
<1>6. \A p \in All : Node(p) = 3 + 2 * x + y => p = <<x, y>>
    <2> SUFFICES ASSUME NEW p \in All, Node(p) = 3 + 2 * x + y PROVE p = <<x, y>>
        OBVIOUS
    <2>1. CASE p = <<>>
        BY <1>1, <2>1
    <2>2. CASE \E u \in {0, 1} : p = <<u>>
        BY <1>1, <2>2
    <2>3. CASE \E u, v \in {0, 1} : p = <<u, v>>
        <3>1. PICK u \in {0, 1}, v \in {0, 1} : p = <<u, v>>
            BY <2>3
        <3>2. Node(p) = 3 + 2 * u + v
            BY <1>1, <3>1
        <3>3. QED BY <3>1, <3>2
    <2>4. QED BY <1>2, <2>1, <2>2, <2>3
<1>7. \A n : PrefixOf(n) = CHOOSE p \in All : Node(p) = n
    BY DEF PrefixOf, All
<1>8. PrefixOf(0) = <<>>
    BY <1>1, <1>3, <1>4, <1>7
<1>9. PrefixOf(1 + x) = <<x>>
    BY <1>1, <1>3, <1>5, <1>7
<1>10. PrefixOf(3 + 2 * x + y) = <<x, y>>
    BY <1>1, <1>3, <1>6, <1>7
<1>11. QED BY <1>1, <1>8, <1>9, <1>10

\* What the table says beneath a prefix, and the record a writer gives it.
Says(answers, prefix) == {answers[a] : a \in Beneath(prefix)}
RecordOf(answers, prefix) ==
    IF Cardinality(Says(answers, prefix)) = 1 THEN 7 + CHOOSE v \in Says(answers, prefix) : TRUE ELSE Node(prefix)

\* The words of three bits are finitely many.
LEMMA WordsFinite == IsFiniteSet(Bits(3))
<1> DEFINE B == {0, 1}
<1>1. IsFiniteSet(B)
    BY 0 \in Int, 1 \in Int, 0..1 = {0, 1}, FS_Interval
<1>2. IsFiniteSet(B \X B)
    BY <1>1, FS_Product
<1>3. IsFiniteSet((B \X B) \X B)
    BY <1>1, <1>2, FS_Product
<1> DEFINE U == (B \X B) \X B
           g == [t \in U |-> [i \in 1..3 |-> IF i = 1 THEN t[1][1] ELSE IF i = 2 THEN t[1][2] ELSE t[2]]]
<1>4. ASSUME NEW a \in Bits(3) PROVE \E t \in U : g[t] = a
    <2>1. a \in [1..3 -> B]
        BY DEF Bits
    <2> DEFINE t == <<<<a[1], a[2]>>, a[3]>>
    <2>2. t \in U
        BY <2>1
    <2>3. g[t] = [i \in 1..3 |-> a[i]]
        <3>1. t[1][1] = a[1] /\ t[1][2] = a[2] /\ t[2] = a[3]
            OBVIOUS
        <3> HIDE DEF t
        <3>2. \A i \in 1..3 : (IF i = 1 THEN t[1][1] ELSE IF i = 2 THEN t[1][2] ELSE t[2]) = a[i]
            BY <3>1
        <3>3. QED BY <2>2, <3>2
    <2>4. [i \in 1..3 |-> a[i]] = a
        BY <2>1
    <2>5. QED BY <2>2, <2>3, <2>4
<1>5. IsFiniteSet({g[t] : t \in U})
    <2>1. g \in [U -> {g[t] : t \in U}] /\ \A x \in {g[t] : t \in U} : \E t \in U : g[t] = x
        OBVIOUS
    <2> HIDE DEF g, U
    <2>2. g \in Surjection(U, {g[t] : t \in U})
        BY <2>1 DEF Surjection
    <2>3. QED BY <1>3, <2>2, FS_Surjection DEF U
<1>6. Bits(3) \subseteq {g[t] : t \in U}
    <2> HIDE DEF g, U
    <2>1. QED BY <1>4
<1> HIDE DEF g, U
<1>7. QED BY <1>5, <1>6, FS_Subset

\* A record of a prefix that says one thing is that, and of any other its node.
LEMMA RecordsSay ==
    ASSUME NEW answers \in [Bits(3) -> Nat], NEW prefix, NEW a \in Beneath(prefix)
    PROVE  /\ RecordOf(answers, prefix) = 7 + answers[a] \/ RecordOf(answers, prefix) = Node(prefix)
           /\ Says(answers, prefix) = {answers[a]} => RecordOf(answers, prefix) = 7 + answers[a]
<1> DEFINE S == Says(answers, prefix)
<1>1. answers[a] \in S
    BY DEF Says
<1>2. IsFiniteSet(S)
    <2> DEFINE D == Beneath(prefix)
               f == [x \in D |-> answers[x]]
    <2>1. IsFiniteSet(D)
        BY WordsFinite, FS_Subset DEF Beneath
    <2>2. f \in [D -> S] /\ \A v \in S : \E x \in D : f[x] = v
        BY DEF Says
    <2> HIDE DEF f, D, S
    <2>3. f \in Surjection(D, S)
        BY <2>2 DEF Surjection
    <2>4. QED BY <2>1, <2>3, FS_Surjection
<1>3. RecordOf(answers, prefix) = IF Cardinality(S) = 1 THEN 7 + CHOOSE v \in S : TRUE ELSE Node(prefix)
    BY DEF RecordOf
<1> HIDE DEF S
<1>4. Cardinality(S) = 1 => S = {answers[a]}
    BY <1>1, <1>2, FS_Singleton
<1>5. S = {answers[a]} => Cardinality(S) = 1 /\ (CHOOSE v \in S : TRUE) = answers[a]
    BY FS_Singleton
<1>6. QED BY <1>3, <1>4, <1>5 DEF S

\* The tree has a record for each prefix.
LEMMA TreeIs ==
    ASSUME NEW answers, NEW x \in {0, 1}, NEW y \in {0, 1}, NEW z \in {0, 1}
    PROVE  LET tree == TreeOf(answers)
           IN  /\ tree[0][x] = RecordOf(answers, <<x>>)
               /\ tree[1 + x][y] = RecordOf(answers, <<x, y>>)
               /\ tree[3 + 2 * x + y][z] = RecordOf(answers, <<x, y, z>>)
<1>1. TreeOf(answers) = [n \in 0..6 |-> [b \in {0, 1} |-> RecordOf(answers, Append(PrefixOf(n), b))]]
    BY DEF TreeOf, RecordOf, Says, PrefixOf
<1>2. \A n \in 0..6, b \in {0, 1} : TreeOf(answers)[n][b] = RecordOf(answers, Append(PrefixOf(n), b))
    BY <1>1
<1>3. 0 \in 0..6 /\ 1 + x \in 0..6 /\ 3 + 2 * x + y \in 0..6
    OBVIOUS
<1>4. Append(<<>>, x) = <<x>> /\ Append(<<x>>, y) = <<x, y>> /\ Append(<<x, y>>, z) = <<x, y, z>>
    <2>1. Append(<<>>, x) = <<x>>
        OBVIOUS
    <2>2. Append(<<x>>, y) = <<x, y>>
        <3> DEFINE s == Append(<<x>>, y)
        <3>1. <<x>> \in Seq({0, 1}) /\ Len(<<x>>) = 1 /\ <<x>>[1] = x
            OBVIOUS
        <3>2. s \in Seq({0, 1}) /\ Len(s) = 2 /\ s[1] = x /\ s[2] = y
            BY <3>1, AppendProperties
        <3> HIDE DEF s
        <3>3. s = <<x, y>>
            BY <3>2
        <3>4. QED BY <3>3 DEF s
    <2>3. Append(<<x, y>>, z) = <<x, y, z>>
        <3> DEFINE s == Append(<<x, y>>, z)
        <3>1. <<x, y>> \in Seq({0, 1}) /\ Len(<<x, y>>) = 2 /\ <<x, y>>[1] = x /\ <<x, y>>[2] = y
            OBVIOUS
        <3>2. s \in Seq({0, 1}) /\ Len(s) = 3 /\ s[1] = x /\ s[2] = y /\ s[3] = z
            BY <3>1, AppendProperties
        <3> HIDE DEF s
        <3>3. s = <<x, y, z>>
            BY <3>2
        <3>4. QED BY <3>3 DEF s
    <2>4. QED BY <2>1, <2>2, <2>3
<1>5. PrefixOf(0) = <<>> /\ PrefixOf(1 + x) = <<x>> /\ PrefixOf(3 + 2 * x + y) = <<x, y>>
    BY NodesAre
<1>6. QED BY <1>2, <1>3, <1>4, <1>5

\* An address is beneath its prefixes, and alone beneath itself.
LEMMA BeneathIts ==
    ASSUME NEW a \in Bits(3)
    PROVE  /\ a[1] \in {0, 1} /\ a[2] \in {0, 1} /\ a[3] \in {0, 1} /\ Len(a) = 3
           /\ a \in Beneath(<<a[1]>>) /\ a \in Beneath(<<a[1], a[2]>>)
           /\ Beneath(<<a[1], a[2], a[3]>>) = {a}
<1>1. \A p \in Bits(3) : p \in [1..3 -> {0, 1}] /\ p \in Seq({0, 1}) /\ Len(p) = 3
    BY ThreeLong DEF Bits
<1>2. ASSUME NEW p \in Bits(3), NEW n \in 1..3
      PROVE  /\ SubSeq(p, 1, n) \in Seq({0, 1}) /\ Len(SubSeq(p, 1, n)) = n
             /\ \A i \in 1..n : SubSeq(p, 1, n)[i] = p[i]
    <2>1. \A i \in 1..n : p[i] \in {0, 1}
        BY <1>1
    <2>2. 1 \in Int /\ n \in Int
        OBVIOUS
    <2>3. /\ SubSeq(p, 1, n) \in Seq({0, 1}) /\ Len(SubSeq(p, 1, n)) = IF 1 <= n THEN n - 1 + 1 ELSE 0
          /\ \A i \in 1 .. n - 1 + 1 : SubSeq(p, 1, n)[i] = p[1 + i - 1]
        BY <2>1, <2>2, SubSeqProperties
    <2>4. QED BY <2>3
<1>3. a[1] \in {0, 1} /\ a[2] \in {0, 1} /\ a[3] \in {0, 1} /\ Len(a) = 3
    BY <1>1
<1>4. SubSeq(a, 1, 1) = <<a[1]>>
    <2> DEFINE s == SubSeq(a, 1, 1)
    <2>1. s \in Seq({0, 1}) /\ Len(s) = 1 /\ s[1] = a[1]
        BY <1>2
    <2> HIDE DEF s
    <2>2. s = <<a[1]>>
        BY <2>1
    <2>3. QED BY <2>2 DEF s
<1>5. SubSeq(a, 1, 2) = <<a[1], a[2]>>
    <2> DEFINE s == SubSeq(a, 1, 2)
    <2>1. s \in Seq({0, 1}) /\ Len(s) = 2 /\ s[1] = a[1] /\ s[2] = a[2]
        BY <1>2
    <2> HIDE DEF s
    <2>2. s = <<a[1], a[2]>>
        BY <2>1
    <2>3. QED BY <2>2 DEF s
<1>6. \A p \in Bits(3) : SubSeq(p, 1, 3) = p /\ p = <<p[1], p[2], p[3]>>
    <2> SUFFICES ASSUME NEW p \in Bits(3) PROVE SubSeq(p, 1, 3) = p /\ p = <<p[1], p[2], p[3]>>
        OBVIOUS
    <2> DEFINE s == SubSeq(p, 1, 3)
    <2>1. s \in Seq({0, 1}) /\ Len(s) = 3 /\ s[1] = p[1] /\ s[2] = p[2] /\ s[3] = p[3]
        BY <1>2
    <2>2. p \in Seq({0, 1}) /\ Len(p) = 3
        BY <1>1
    <2> HIDE DEF s
    <2>3. s = <<p[1], p[2], p[3]>>
        BY <2>1
    <2>4. p = <<p[1], p[2], p[3]>>
        BY <2>2
    <2>5. QED BY <2>3, <2>4 DEF s
<1>7. Len(<<a[1]>>) = 1 /\ Len(<<a[1], a[2]>>) = 2 /\ Len(<<a[1], a[2], a[3]>>) = 3
    OBVIOUS
<1>8. a \in Beneath(<<a[1]>>) /\ a \in Beneath(<<a[1], a[2]>>)
    BY <1>4, <1>5, <1>7 DEF Beneath
<1>9. Beneath(<<a[1], a[2], a[3]>>) = {a}
    <2>1. \A p : p \in Beneath(<<a[1], a[2], a[3]>>) <=> p \in Bits(3) /\ SubSeq(p, 1, 3) = <<a[1], a[2], a[3]>>
        BY <1>7 DEF Beneath
    <2>2. a = <<a[1], a[2], a[3]>>
        BY <1>6
    <2>3. \A p : p \in Beneath(<<a[1], a[2], a[3]>>) <=> p = a
        BY <1>6, <2>1, <2>2
    <2>4. QED BY <2>3
<1>10. QED BY <1>3, <1>8, <1>9

\* The bit of an address at a node.
Gone(tree, a, i, node) == IF node < 7 THEN tree[node][a[i]] ELSE node

\* Three steps from the root are what is got.
LEMMA ThreeSteps ==
    ASSUME NEW tree, NEW a \in Bits(3),
           NEW one, one = Gone(tree, a, 1, 0),
           NEW two, two = Gone(tree, a, 2, one),
           NEW three, three = Gone(tree, a, 3, two)
    PROVE  Get(tree, 7, a) = IF three <= 7 THEN "none" ELSE three - 7
<1> DEFINE Eqn(g) == g = [i \in 0..Len(a) |-> IF i = 0 THEN 0
                            ELSE LET node == g[i - 1] IN IF node < 7 THEN tree[node][a[i]] ELSE node]
           W(i) == IF i = 0 THEN 0 ELSE IF i = 1 THEN one ELSE IF i = 2 THEN two ELSE three
           w == [i \in 0..3 |-> W(i)]
<1>1. Len(a) = 3
    BY BeneathIts
<1>2. w[0] = 0 /\ w[1] = one /\ w[2] = two /\ w[3] = three
    <2>1. W(0) = 0 /\ W(1) = one /\ W(2) = two /\ W(3) = three /\ \A i \in {0, 1, 2, 3} : i \in 0..3
        OBVIOUS
    <2> HIDE DEF W
    <2>2. \A i \in 0..3 : w[i] = W(i)
        OBVIOUS
    <2> HIDE DEF w
    <2>3. QED BY <2>1, <2>2
<1>3. \A g : Eqn(g) <=> g = [i \in 0..3 |-> IF i = 0 THEN 0 ELSE Gone(tree, a, i, g[i - 1])]
    BY <1>1 DEF Gone
<1> HIDE DEF Eqn
<1>4. Eqn(w)
    <2> DEFINE V(i) == IF i = 0 THEN 0 ELSE Gone(tree, a, i, w[i - 1])
               v == [i \in 0..3 |-> V(i)]
    <2>1. v[0] = 0 /\ v[1] = Gone(tree, a, 1, w[0]) /\ v[2] = Gone(tree, a, 2, w[1]) /\ v[3] = Gone(tree, a, 3, w[2])
        <3> HIDE DEF w
        <3>1. 0 \in 0..3 /\ 1 \in 0..3 /\ 2 \in 0..3 /\ 3 \in 0..3 /\ 1 - 1 = 0 /\ 2 - 1 = 1 /\ 3 - 1 = 2
            OBVIOUS
        <3>2. \A i \in 0..3 : v[i] = IF i = 0 THEN 0 ELSE Gone(tree, a, i, w[i - 1])
            OBVIOUS
        <3> HIDE DEF v
        <3>3. v[1] = Gone(tree, a, 1, w[1 - 1]) /\ v[2] = Gone(tree, a, 2, w[2 - 1]) /\ v[3] = Gone(tree, a, 3, w[3 - 1]) /\ v[0] = 0
            BY <3>1, <3>2
        <3>4. QED BY <3>1, <3>3
    <2>3. w = [i \in 0..3 |-> w[i]] /\ v = [i \in 0..3 |-> v[i]]
        <3> HIDE DEF W
        <3>1. w = [i \in 0..3 |-> w[i]]
            OBVIOUS
        <3> HIDE DEF w, V
        <3>2. v = [i \in 0..3 |-> v[i]]
            OBVIOUS
        <3>3. QED BY <3>1, <3>2
    <2> HIDE DEF v, w
    <2>4. v[0] = w[0] /\ v[1] = w[1] /\ v[2] = w[2] /\ v[3] = w[3]
        BY <1>2, <2>1
    <2>5. \A i \in 0..3 : i = 0 \/ i = 1 \/ i = 2 \/ i = 3
        OBVIOUS
    <2>6. w = v
        BY <2>3, <2>4, <2>5
    <2>7. QED BY <1>3, <2>6 DEF v
<1> DEFINE u == CHOOSE g : Eqn(g)
<1>5. Eqn(u)
    BY <1>4
<1>6. Get(tree, 7, a) = IF u[Len(a)] <= 7 THEN "none" ELSE u[Len(a)] - 7
    BY Zenon DEF Get, Eqn
<1> HIDE DEF u
<1>7. u[0] = 0 /\ u[1] = Gone(tree, a, 1, u[0]) /\ u[2] = Gone(tree, a, 2, u[1]) /\ u[3] = Gone(tree, a, 3, u[2])
    BY <1>3, <1>5
<1>8. u[3] = three
    BY <1>7
<1>9. QED BY <1>1, <1>6, <1>8

\* Every address finds what the table says of it.
LEMMA WalkFinds ==
    ASSUME NEW answers \in [Bits(3) -> Nat], NEW a \in Bits(3)
    PROVE  Get(TreeOf(answers), 7, a) = IF answers[a] = 0 THEN "none" ELSE answers[a]
<1> DEFINE x == a[1]
           y == a[2]
           z == a[3]
           tree == TreeOf(answers)
           v == answers[a]
           r1 == RecordOf(answers, <<x>>)
           r2 == RecordOf(answers, <<x, y>>)
           r3 == RecordOf(answers, <<x, y, z>>)
           one == IF 0 < 7 THEN tree[0][a[1]] ELSE 0
           two == IF one < 7 THEN tree[one][a[2]] ELSE one
           three == IF two < 7 THEN tree[two][a[3]] ELSE two
<1>1. x \in {0, 1} /\ y \in {0, 1} /\ z \in {0, 1} /\ v \in Nat
    BY BeneathIts
<1>2. tree[0][x] = r1 /\ tree[1 + x][y] = r2 /\ tree[3 + 2 * x + y][z] = r3
    BY <1>1, TreeIs
<1>3. Node(<<x>>) = 1 + x /\ Node(<<x, y>>) = 3 + 2 * x + y
    BY <1>1, NodesAre
<1>4. (r1 = 7 + v \/ r1 = 1 + x) /\ (r2 = 7 + v \/ r2 = 3 + 2 * x + y)
    <2>1. a \in Beneath(<<x>>) /\ a \in Beneath(<<x, y>>)
        BY BeneathIts
    <2> HIDE DEF x, y
    <2>2. r1 = 7 + v \/ r1 = Node(<<x>>)
        BY <2>1, RecordsSay
    <2>3. r2 = 7 + v \/ r2 = Node(<<x, y>>)
        BY <2>1, RecordsSay
    <2>4. QED BY <1>3, <2>2, <2>3
<1>5. r3 = 7 + v
    <2>1. Beneath(<<x, y, z>>) = {a}
        BY BeneathIts
    <2>2. Says(answers, <<x, y, z>>) = {v} /\ a \in Beneath(<<x, y, z>>)
        BY <2>1 DEF Says
    <2>3. QED BY <2>2, RecordsSay
<1>6. Get(tree, 7, a) = IF three <= 7 THEN "none" ELSE three - 7
    <2>1. one = Gone(tree, a, 1, 0) /\ two = Gone(tree, a, 2, one) /\ three = Gone(tree, a, 3, two)
        BY DEF Gone
    <2> HIDE DEF tree, one, two, three
    <2>2. QED BY <2>1, ThreeSteps
<1> HIDE DEF x, y, z, v, tree, r1, r2, r3
<1>7. one = r1
    BY <1>2 DEF x
<1>8. two = IF r1 = 7 + v THEN 7 + v ELSE r2
    BY <1>1, <1>2, <1>4, <1>7 DEF y
<1> HIDE DEF one, two
<1>9. three = 7 + v
    BY <1>1, <1>2, <1>4, <1>5, <1>8 DEF z
<1>10. QED BY <1>1, <1>6, <1>9 DEF tree, v

\* Any pointer, size, pair of records of 28 bits, table of numbers, address, pair of
\* answers, and archive of three files cut anywhere.
AnyDatum ==
    [of: {"pointer"}, width: 0..2, low: 0..7, tail: {"first", "last"}] \cup
    [of: {"size"}, short: 0..30] \cup
    [of: {"record"}, left: 0 .. (2^28 - 1), right: 0 .. (2^28 - 1)] \cup
    [of: {"tree"}, answers: [Bits(3) -> Nat]] \cup
    [of: {"address"}, a: 0..255, b: 0..255, c: 0..255] \cup
    [of: {"merge"}, answers: [1..2 -> [throws: BOOLEAN, has: SUBSET {"country", "asn"}]]] \cup
    [of: {"archive"}, files: [1..3 -> AnyFile], cut: Nat]

\* What is read of a geolocation database is what its writer laid out: any record,
\* any table, any address, any archive.
THEOREM GeoAlwaysReadsWhatIsWritten == datum \in AnyDatum => GeoReadsWhatIsWritten
<1> SUFFICES ASSUME datum \in AnyDatum PROVE GeoReadsWhatIsWritten
    OBVIOUS
<1>1. PointersMeet
    BY PointersMeetAt DEF AnyDatum, PointersMeet
<1>2. SizesMeet
    <2> SUFFICES ASSUME datum.of = "size" PROVE SizesMeet
        BY DEF SizesMeet
    <2>1. datum.short \in 0..30
        BY DEF AnyDatum
    <2>2. QED BY <2>1, SizesMeetAt DEF SizesMeet
<1>3. RecordsReadBack
    <2> SUFFICES ASSUME datum.of = "record" PROVE RecordsReadBack
        BY DEF RecordsReadBack
    <2>1. datum.left \in 0 .. (2^28 - 1) /\ datum.right \in 0 .. (2^28 - 1)
        BY DEF AnyDatum
    <2>2. QED BY <2>1, RecordsReadBackAt DEF RecordsReadBack
<1>4. WalkFindsPrefix
    <2> SUFFICES ASSUME datum.of = "tree", NEW a \in Bits(3)
                 PROVE  Get(TreeOf(datum.answers), 7, a) = IF datum.answers[a] = 0 THEN "none" ELSE datum.answers[a]
        BY DEF WalkFindsPrefix
    <2>1. datum.answers \in [Bits(3) -> Nat]
        BY DEF AnyDatum
    <2>2. QED BY <2>1, WalkFinds
<1>5. ReservedAreTheBlocks
    BY ReservedAt DEF AnyDatum, ReservedAreTheBlocks
<1>6. DamageIsContained
    <2> SUFFICES ASSUME datum.of = "merge" PROVE DamageIsContained
        BY DEF DamageIsContained
    <2>1. datum.answers \in [1..2 -> [throws: BOOLEAN, has: SUBSET {"country", "asn"}]]
        BY DEF AnyDatum
    <2>2. QED BY <2>1, DamageContained DEF DamageIsContained
<1>7. ArchiveFindsFirst
    <2> DEFINE files == datum.files
               length == Offset(files, 3) + Block + Padded(files[3].size) - datum.cut
    <2> SUFFICES ASSUME datum.of = "archive", NEW n \in 1..3, files[n].database, \A m \in 1..(n - 1) : ~files[m].database
                 PROVE  Extract(Archive(files), length) = Offset(files, n) + Block <=>
                            Offset(files, n) + Block + files[n].size <= length
        BY DEF ArchiveFindsFirst
    <2>1. files \in [1..3 -> AnyFile] /\ datum.cut \in Nat
        BY DEF AnyDatum
    <2> HIDE DEF files
    <2>2. length \in Int
        BY <2>1, OffsetsAre DEF Block
    <2> HIDE DEF length
    <2>3. QED BY <2>1, <2>2, ArchiveFinds
<1>8. QED BY <1>1, <1>2, <1>3, <1>4, <1>5, <1>6, <1>7 DEF GeoReadsWhatIsWritten

-----------------------------------------------------------------------------
(* Sums.                                                                   *)

\* Of some finite sets one has no other of them within it.
LEMMA LeastSet ==
    ASSUME NEW S, IsFiniteSet(S), NEW Bad \in SUBSET SUBSET S, Bad # {}
    PROVE  \E s \in Bad : \A t \in SUBSET s : t # s => t \notin Bad
<1> DEFINE Sizes == {Cardinality(s) : s \in Bad}
<1>1. \A s \in SUBSET S : IsFiniteSet(s) /\ Cardinality(s) \in Nat
    BY FS_Subset, FS_CardinalityType
<1>2. PICK n \in Sizes : \A m \in Sizes : n <= m
    <2>1. Sizes \in SUBSET Nat /\ Sizes # {}
        BY <1>1
    <2>2. QED BY <2>1, LeastOf
<1>3. PICK s \in Bad : n = Cardinality(s)
    BY <1>2
<1>4. ASSUME NEW t \in SUBSET s, t # s, t \in Bad PROVE FALSE
    <2>1. IsFiniteSet(s) /\ Cardinality(s) \in Nat /\ Cardinality(t) \in Nat
        BY <1>1, <1>4
    <2>2. Cardinality(t) < Cardinality(s)
        BY <1>4, <2>1, FS_Subset
    <2>3. Cardinality(t) \in Sizes
        BY <1>4
    <2>4. QED BY <1>2, <1>3, <2>1, <2>2, <2>3
<1>5. QED BY <1>4

\* A set that has 0 and, with a number below a bound, the next one, has all up to
\* the bound.
LEMMA UpTo ==
    ASSUME NEW N \in Nat, NEW G, 0 \in G,
           \A n \in 0 .. (N - 1) : n \in G => n + 1 \in G
    PROVE  0 .. N \subseteq G
<1> DEFINE Bad == {n \in 0 .. N : n \notin G}
<1> SUFFICES ASSUME Bad # {} PROVE FALSE
    OBVIOUS
<1>1. PICK n \in Bad : \A m \in Bad : n <= m
    <2>1. Bad \in SUBSET Nat
        OBVIOUS
    <2>2. QED BY <2>1, LeastOf
<1>2. n # 0 /\ n \in 0 .. N
    BY <1>1
<1>3. n - 1 \in 0 .. (N - 1) /\ n - 1 \in G /\ (n - 1) + 1 = n
    BY <1>1, <1>2
<1>4. QED BY <1>1, <1>3

\* Induction over the parts of a finite set.
LEMMA Parts ==
    ASSUME NEW S, IsFiniteSet(S), NEW G, {} \in G,
           \A s \in SUBSET S : \A x \in S \ s : s \in G => s \cup {x} \in G
    PROVE  S \in G
<1> DEFINE Bad == {s \in SUBSET S : s \notin G}
<1> SUFFICES ASSUME Bad # {} PROVE FALSE
    OBVIOUS
<1>1. PICK s \in Bad : \A t \in SUBSET s : t # s => t \notin Bad
    <2>1. Bad \in SUBSET SUBSET S
        OBVIOUS
    <2> HIDE DEF Bad
    <2>2. QED BY <2>1, LeastSet
<1>2. PICK x : x \in s
    BY <1>1
<1> DEFINE t == s \ {x}
<1>3. t \in SUBSET s /\ t # s /\ t \in SUBSET S /\ x \in S \ t /\ t \cup {x} = s
    BY <1>1, <1>2
<1> HIDE DEF t
<1>4. t \in G
    BY <1>1, <1>3
<1>5. QED BY <1>1, <1>3, <1>4

\* The element a sum takes first, and what a sum by parts is.
First(s) == CHOOSE x \in s : TRUE
Summed(f, g, s) == g[s] = IF s = {} THEN 0 ELSE f[First(s)] + g[s \ {First(s)}]

\* There is one.
LEMMA SumExists ==
    ASSUME NEW S, IsFiniteSet(S), NEW f, \A k \in S : f[k] \in Nat
    PROVE  \E g \in [SUBSET S -> Nat] : \A s \in SUBSET S : Summed(f, g, s)
<1> DEFINE Small(n) == {s \in SUBSET S : Cardinality(s) <= n}
           N == Cardinality(S)
           G == {n \in 0..N : \E g \in [SUBSET S -> Nat] : \A s \in Small(n) : Summed(f, g, s)}
<1>1. \A s \in SUBSET S : IsFiniteSet(s) /\ Cardinality(s) \in Nat /\ Cardinality(s) <= N
    BY FS_Subset, FS_CardinalityType
<1>2. N \in Nat
    BY FS_CardinalityType
<1>3. 0 \in G
    <2> DEFINE g == [s \in SUBSET S |-> 0]
    <2>1. \A s \in Small(0) : s = {}
        BY <1>1, FS_EmptySet
    <2>2. g \in [SUBSET S -> Nat] /\ \A s \in Small(0) : Summed(f, g, s)
        BY <2>1 DEF Summed
    <2> HIDE DEF g, Small
    <2>3. QED BY <1>2, <2>2
<1>4. ASSUME NEW n \in 0 .. (N - 1), n \in G PROVE n + 1 \in G
    <2>1. PICK g \in [SUBSET S -> Nat] : \A s \in Small(n) : Summed(f, g, s)
        BY <1>4
    <2> DEFINE h == [s \in SUBSET S |-> IF s = {} THEN 0 ELSE f[First(s)] + g[s \ {First(s)}]]
    <2>2. \A s \in SUBSET S : s # {} => First(s) \in s /\ s \ {First(s)} \in SUBSET S
        BY DEF First
    <2>3. h \in [SUBSET S -> Nat]
        BY <2>2
    <2>4. ASSUME NEW s \in Small(n + 1) PROVE Summed(f, h, s)
        <3> DEFINE t == s \ {First(s)}
        <3>1. CASE s = {}
            BY <3>1 DEF Summed
        <3>2. CASE s # {}
            <4>1. First(s) \in s /\ t \in SUBSET S
                BY <2>2, <2>4, <3>2
            <4>2. Cardinality(t) = Cardinality(s) - 1
                BY <1>1, <2>4, <4>1, FS_RemoveElement
            <4>3. t \in Small(n)
                BY <1>1, <2>4, <4>1, <4>2
            <4>4. g[t] = IF t = {} THEN 0 ELSE f[First(t)] + g[t \ {First(t)}]
                BY <2>1, <4>3 DEF Summed
            <4>5. h[t] = g[t]
                BY <4>1, <4>4
            <4>6. h[s] = f[First(s)] + g[t]
                BY <2>4, <3>2
            <4> HIDE DEF h, t
            <4>7. h[s] = f[First(s)] + h[t]
                BY <4>5, <4>6
            <4>8. QED BY <3>2, <4>7 DEF Summed, t
        <3>3. QED BY <3>1, <3>2
    <2> HIDE DEF h, Small
    <2>5. n + 1 \in 0..N
        BY <1>2
    <2>6. QED BY <2>3, <2>4, <2>5
<1> HIDE DEF G
<1>5. 0..N \subseteq G
    BY <1>2, <1>3, <1>4, UpTo
<1>6. PICK g \in [SUBSET S -> Nat] : \A s \in Small(N) : Summed(f, g, s)
    <2>1. N \in G
        BY <1>2, <1>5
    <2>2. QED BY <2>1 DEF G
<1>7. QED BY <1>1, <1>6

\* What a sum over a set is the last value of.
LEMMA SumIs ==
    ASSUME NEW S, IsFiniteSet(S), NEW f, \A k \in S : f[k] \in Nat
    PROVE  \E g \in [SUBSET S -> Nat] : (\A s \in SUBSET S : Summed(f, g, s)) /\ SumOver(f, S) = g[S]
<1> DEFINE Eqn(g) == g = [s \in SUBSET S |-> IF s = {} THEN 0
                            ELSE LET x == CHOOSE x \in s : TRUE IN f[x] + g[s \ {x}]]
           u == CHOOSE g : Eqn(g)
<1>1. PICK g \in [SUBSET S -> Nat] : \A s \in SUBSET S : Summed(f, g, s)
    BY SumExists
<1>2. Eqn(g)
    <2>1. \A s \in SUBSET S : g[s] = IF s = {} THEN 0 ELSE f[First(s)] + g[s \ {First(s)}]
        BY <1>1 DEF Summed
    <2>2. g = [s \in SUBSET S |-> g[s]]
        OBVIOUS
    <2>3. g = [s \in SUBSET S |-> IF s = {} THEN 0 ELSE f[First(s)] + g[s \ {First(s)}]]
        BY <2>1, <2>2
    <2>4. QED BY <2>3 DEF First
<1>3. Eqn(u)
    BY <1>2
<1>4. SumOver(f, S) = u[S]
    BY Zenon DEF SumOver, MapThenSumSet, MapThenFoldSet
<1> HIDE DEF u
<1>5. \A s \in SUBSET S : Summed(f, u, s)
    <2> SUFFICES ASSUME NEW s \in SUBSET S PROVE Summed(f, u, s)
        OBVIOUS
    <2>1. u[s] = IF s = {} THEN 0 ELSE f[First(s)] + u[s \ {First(s)}]
        BY <1>3 DEF First
    <2>2. QED BY <2>1 DEF Summed
<1>6. \A s \in SUBSET S : u[s] = g[s]
    <2> DEFINE Bad == {s \in SUBSET S : u[s] # g[s]}
    <2> SUFFICES ASSUME Bad # {} PROVE FALSE
        OBVIOUS
    <2>1. PICK s \in Bad : \A t \in SUBSET s : t # s => t \notin Bad
        <3>1. Bad \in SUBSET SUBSET S
            OBVIOUS
        <3> HIDE DEF Bad
        <3>2. QED BY <3>1, LeastSet
    <2>2. s # {} /\ s \in SUBSET S
        BY <1>1, <1>5, <2>1 DEF Summed
    <2> DEFINE t == s \ {First(s)}
    <2>3. t \in SUBSET s /\ t # s
        BY <2>2 DEF First
    <2>4. u[t] = g[t]
        BY <2>1, <2>2, <2>3
    <2>5. u[s] = f[First(s)] + u[t] /\ g[s] = f[First(s)] + g[t]
        BY <1>1, <1>5, <2>2 DEF Summed
    <2> HIDE DEF t
    <2>6. QED BY <2>1, <2>4, <2>5
<1>7. u = g
    BY <1>3, <1>6
<1>8. QED BY <1>1, <1>4, <1>7

\* Sums by parts of what agrees on a set agree on it.
LEMMA SumsAgree ==
    ASSUME NEW T, IsFiniteSet(T), NEW f, NEW h, \A k \in T : f[k] = h[k],
           NEW u, NEW v, \A s \in SUBSET T : Summed(f, u, s) /\ Summed(h, v, s)
    PROVE  u[T] = v[T]
<1> DEFINE Bad == {s \in SUBSET T : u[s] # v[s]}
<1> SUFFICES ASSUME Bad # {} PROVE FALSE
    OBVIOUS
<1>1. PICK s \in Bad : \A t \in SUBSET s : t # s => t \notin Bad
    <2>1. Bad \in SUBSET SUBSET T
        OBVIOUS
    <2> HIDE DEF Bad
    <2>2. QED BY <2>1, LeastSet
<1>2. s # {} /\ s \in SUBSET T
    BY <1>1 DEF Summed
<1> DEFINE t == s \ {First(s)}
<1>3. t \in SUBSET s /\ t # s /\ First(s) \in T
    BY <1>2 DEF First
<1>4. u[t] = v[t]
    BY <1>1, <1>2, <1>3
<1>5. u[s] = f[First(s)] + u[t] /\ v[s] = h[First(s)] + v[t]
    BY <1>2 DEF Summed
<1> HIDE DEF t
<1>6. f[First(s)] = h[First(s)]
    BY <1>3
<1>7. QED BY <1>1, <1>4, <1>5, <1>6

\* A sum of nothing, and one of what it takes first and the rest; what it is
\* decided by; that it is a number.
LEMMA SumSteps ==
    ASSUME NEW S, IsFiniteSet(S), NEW f, \A k \in S : f[k] \in Nat
    PROVE  /\ SumOver(f, S) \in Nat
           /\ S = {} => SumOver(f, S) = 0
           /\ S # {} => SumOver(f, S) = f[First(S)] + SumOver(f, S \ {First(S)})
<1>1. PICK g \in [SUBSET S -> Nat] : (\A s \in SUBSET S : Summed(f, g, s)) /\ SumOver(f, S) = g[S]
    BY SumIs
<1>2. S \in SUBSET S
    OBVIOUS
<1>3. SumOver(f, S) \in Nat
    BY <1>1, <1>2
<1>4. ASSUME S = {} PROVE SumOver(f, S) = 0
    BY <1>1, <1>2, <1>4 DEF Summed
<1>5. ASSUME S # {} PROVE SumOver(f, S) = f[First(S)] + SumOver(f, S \ {First(S)})
    <2> DEFINE T == S \ {First(S)}
    <2>1. T \in SUBSET S
        OBVIOUS
    <2>2. IsFiniteSet(T) /\ \A k \in T : f[k] \in Nat
        BY <2>1, FS_Subset
    <2>3. SumOver(f, S) = f[First(S)] + g[T]
        BY <1>1, <1>2, <1>5 DEF Summed
    <2> HIDE DEF T
    <2>4. PICK h \in [SUBSET T -> Nat] : (\A s \in SUBSET T : Summed(f, h, s)) /\ SumOver(f, T) = h[T]
        BY <2>2, SumIs
    <2>5. \A s \in SUBSET T : Summed(f, g, s) /\ Summed(f, h, s)
        BY <1>1, <2>1, <2>4
    <2>6. g[T] = h[T]
        BY <2>2, <2>5, SumsAgree
    <2>7. QED BY <2>3, <2>4, <2>6 DEF T
<1>6. QED BY <1>3, <1>4, <1>5

\* Only the terms count.
LEMMA SumSame ==
    ASSUME NEW S, IsFiniteSet(S), NEW f, NEW h, \A k \in S : f[k] \in Nat /\ f[k] = h[k]
    PROVE  SumOver(f, S) = SumOver(h, S)
<1>1. PICK g \in [SUBSET S -> Nat] : (\A s \in SUBSET S : Summed(f, g, s)) /\ SumOver(f, S) = g[S]
    BY SumIs
<1>2. \A k \in S : h[k] \in Nat
    OBVIOUS
<1>3. PICK v \in [SUBSET S -> Nat] : (\A s \in SUBSET S : Summed(h, v, s)) /\ SumOver(h, S) = v[S]
    BY <1>2, SumIs
<1>4. \A s \in SUBSET S : Summed(f, g, s) /\ Summed(h, v, s)
    BY <1>1, <1>3
<1>5. g[S] = v[S]
    BY <1>4, SumsAgree
<1>6. QED BY <1>1, <1>3, <1>5

\* Any term may be taken out.
LEMMA SumWithout ==
    ASSUME NEW S, IsFiniteSet(S), NEW f, \A k \in S : f[k] \in Nat, NEW x \in S
    PROVE  SumOver(f, S) = f[x] + SumOver(f, S \ {x})
<1> DEFINE Holds(s) == \A y \in s : SumOver(f, s) = f[y] + SumOver(f, s \ {y})
           Bad == {s \in SUBSET S : ~Holds(s)}
<1>1. SUFFICES ASSUME Bad # {} PROVE FALSE
    <2>1. S \in SUBSET S
        OBVIOUS
    <2>2. QED BY <1>1, <2>1
<1>2. PICK s \in Bad : \A t \in SUBSET s : t # s => t \notin Bad
    <2>1. Bad \in SUBSET SUBSET S
        OBVIOUS
    <2> HIDE DEF Bad
    <2>2. QED BY <1>1, <2>1, LeastSet
<1>3. s \in SUBSET S /\ ~Holds(s) /\ \A t \in SUBSET s : t # s => Holds(t)
    BY <1>2
<1>4. PICK y \in s : SumOver(f, s) # f[y] + SumOver(f, s \ {y})
    BY <1>3
<1> HIDE DEF Bad
<1>5. \A t \in SUBSET s : IsFiniteSet(t) /\ (\A k \in t : f[k] \in Nat) /\ SumOver(f, t) \in Nat
    <2> SUFFICES ASSUME NEW t \in SUBSET s PROVE IsFiniteSet(t) /\ (\A k \in t : f[k] \in Nat) /\ SumOver(f, t) \in Nat
        OBVIOUS
    <2>1. IsFiniteSet(t) /\ \A k \in t : f[k] \in Nat
        BY <1>3, FS_Subset
    <2>2. QED BY <2>1, SumSteps
<1> DEFINE c == First(s)
           a == s \ {c}
           b == s \ {y}
           r == s \ {c, y}
<1>6. c \in s
    BY <1>4 DEF First
<1>7. SumOver(f, s) = f[c] + SumOver(f, a)
    <2>1. s \in SUBSET s /\ s # {}
        BY <1>4
    <2>2. QED BY <1>5, <2>1, SumSteps
<1>8. c # y
    BY <1>4, <1>7
<1> HIDE DEF c
<1>9. a \in SUBSET s /\ b \in SUBSET s /\ r \in SUBSET s /\ a # s /\ b # s /\ y \in a /\ c \in b
      /\ a \ {y} = r /\ b \ {c} = r
    BY <1>4, <1>6, <1>8
<1>10. SumOver(f, a) = f[y] + SumOver(f, r) /\ SumOver(f, b) = f[c] + SumOver(f, r)
    <2> HIDE DEF a, b, r
    <2>1. QED BY <1>3, <1>9
<1>11. f[y] \in Nat /\ f[c] \in Nat /\ SumOver(f, r) \in Nat
    BY <1>5, <1>6, <1>9
<1> HIDE DEF a, r
<1>12. SumOver(f, s) = f[y] + SumOver(f, b)
    BY <1>7, <1>10, <1>11
<1>13. QED BY <1>4, <1>12

\* Or put in.
LEMMA SumWith ==
    ASSUME NEW s, IsFiniteSet(s), NEW f, \A k \in s : f[k] \in Nat, NEW x, x \notin s, f[x] \in Nat
    PROVE  IsFiniteSet(s \cup {x}) /\ SumOver(f, s \cup {x}) = f[x] + SumOver(f, s)
<1> DEFINE S == s \cup {x}
<1>1. IsFiniteSet(S) /\ x \in S /\ S \ {x} = s /\ \A k \in S : f[k] \in Nat
    BY FS_AddElement
<1> HIDE DEF S
<1>2. SumOver(f, S) = f[x] + SumOver(f, S \ {x})
    BY <1>1, SumWithout
<1>3. QED BY <1>1, <1>2 DEF S

\* The sum of sums of terms is the sum of both.
LEMMA SumPlus ==
    ASSUME NEW S, IsFiniteSet(S), NEW f, NEW g, NEW h,
           \A k \in S : f[k] \in Nat /\ g[k] \in Nat /\ h[k] = f[k] + g[k]
    PROVE  SumOver(h, S) = SumOver(f, S) + SumOver(g, S)
<1> DEFINE G == {s \in SUBSET S : SumOver(h, s) = SumOver(f, s) + SumOver(g, s)}
<1>1. {} \in G
    <2>1. SumOver(f, {}) = 0 /\ SumOver(g, {}) = 0 /\ SumOver(h, {}) = 0
        BY FS_EmptySet, SumSteps
    <2>2. QED BY <2>1
<1>2. ASSUME NEW s \in SUBSET S, NEW x \in S \ s, s \in G PROVE s \cup {x} \in G
    <2>1. IsFiniteSet(s)
        BY FS_Subset
    <2>2. \A k \in s : f[k] \in Nat /\ g[k] \in Nat /\ h[k] \in Nat
        OBVIOUS
    <2>3. f[x] \in Nat /\ g[x] \in Nat /\ h[x] = f[x] + g[x] /\ h[x] \in Nat /\ x \notin s
        OBVIOUS
    <2>4. SumOver(f, s \cup {x}) = f[x] + SumOver(f, s) /\ SumOver(g, s \cup {x}) = g[x] + SumOver(g, s)
          /\ SumOver(h, s \cup {x}) = h[x] + SumOver(h, s)
        BY <2>1, <2>2, <2>3, SumWith
    <2>5. SumOver(f, s) \in Nat /\ SumOver(g, s) \in Nat
        BY <2>1, <2>2, SumSteps
    <2>6. SumOver(h, s) = SumOver(f, s) + SumOver(g, s) /\ s \cup {x} \in SUBSET S
        BY <1>2
    <2>7. QED BY <2>3, <2>4, <2>5, <2>6
<1> HIDE DEF G
<1>3. S \in G
    BY <1>1, <1>2, Parts
<1>4. QED BY <1>3 DEF G

\* A factor may be taken out of a sum.
LEMMA SumTimes ==
    ASSUME NEW S, IsFiniteSet(S), NEW c \in Nat, NEW f, NEW h, \A k \in S : f[k] \in Nat /\ h[k] = c * f[k]
    PROVE  SumOver(h, S) = c * SumOver(f, S)
<1> DEFINE G == {s \in SUBSET S : SumOver(h, s) = c * SumOver(f, s)}
<1>1. {} \in G
    <2>1. SumOver(f, {}) = 0 /\ SumOver(h, {}) = 0
        BY FS_EmptySet, SumSteps
    <2>2. c * 0 = 0
        OBVIOUS
    <2>3. QED BY <2>1, <2>2
<1>2. ASSUME NEW s \in SUBSET S, NEW x \in S \ s, s \in G PROVE s \cup {x} \in G
    <2>1. IsFiniteSet(s)
        BY FS_Subset
    <2>2. \A k \in s : f[k] \in Nat /\ h[k] \in Nat
        OBVIOUS
    <2>3. f[x] \in Nat /\ h[x] = c * f[x] /\ h[x] \in Nat /\ x \notin s
        OBVIOUS
    <2>4. SumOver(f, s \cup {x}) = f[x] + SumOver(f, s) /\ SumOver(h, s \cup {x}) = h[x] + SumOver(h, s)
        BY <2>1, <2>2, <2>3, SumWith
    <2>5. SumOver(f, s) \in Nat
        BY <2>1, <2>2, SumSteps
    <2>6. SumOver(h, s) = c * SumOver(f, s) /\ s \cup {x} \in SUBSET S
        BY <1>2
    <2>7. c * (f[x] + SumOver(f, s)) = c * f[x] + c * SumOver(f, s)
        BY <2>3, <2>5
    <2>8. QED BY <2>3, <2>4, <2>6, <2>7
<1> HIDE DEF G
<1>3. S \in G
    BY <1>1, <1>2, Parts
<1>4. QED BY <1>3 DEF G

\* Sums of terms no less are no less.
LEMMA SumLess ==
    ASSUME NEW S, IsFiniteSet(S), NEW f, NEW h, \A k \in S : f[k] \in Nat /\ h[k] \in Nat /\ f[k] <= h[k]
    PROVE  SumOver(f, S) <= SumOver(h, S)
<1> DEFINE g == [k \in S |-> h[k] - f[k]]
<1>1. \A k \in S : f[k] \in Nat /\ g[k] \in Nat /\ h[k] = f[k] + g[k]
    OBVIOUS
<1> HIDE DEF g
<1>2. SumOver(h, S) = SumOver(f, S) + SumOver(g, S)
    BY <1>1, SumPlus
<1>3. SumOver(f, S) \in Nat /\ SumOver(g, S) \in Nat
    BY <1>1, SumSteps
<1>4. QED BY <1>2, <1>3

\* No term is more than a sum it is in, and a sum is nothing when its terms are.
LEMMA SumOfTerms ==
    ASSUME NEW S, IsFiniteSet(S), NEW f, \A k \in S : f[k] \in Nat
    PROVE  /\ \A k \in S : f[k] <= SumOver(f, S)
           /\ (\A k \in S : f[k] = 0) => SumOver(f, S) = 0
<1>1. ASSUME NEW x \in S PROVE f[x] <= SumOver(f, S)
    <2>1. SumOver(f, S) = f[x] + SumOver(f, S \ {x})
        BY SumWithout
    <2>2. IsFiniteSet(S \ {x}) /\ \A k \in S \ {x} : f[k] \in Nat
        BY FS_Subset
    <2>3. SumOver(f, S \ {x}) \in Nat
        BY <2>2, SumSteps
    <2>4. QED BY <2>1, <2>3
<1>2. ASSUME \A k \in S : f[k] = 0 PROVE SumOver(f, S) = 0
    <2>1. \A k \in S : f[k] \in Nat /\ f[k] = 0 * f[k]
        BY <1>2
    <2>2. SumOver(f, S) = 0 * SumOver(f, S)
        BY <2>1, 0 \in Nat, SumTimes
    <2>3. SumOver(f, S) \in Nat
        BY SumSteps
    <2>4. QED BY <2>2, <2>3
<1>3. QED BY <1>1, <1>2

\* A sum may be split.
LEMMA SumSplit ==
    ASSUME NEW S, IsFiniteSet(S), NEW f, \A k \in S : f[k] \in Nat, NEW T, T \cap S = {}, IsFiniteSet(T), \A k \in T : f[k] \in Nat
    PROVE  SumOver(f, S \cup T) = SumOver(f, S) + SumOver(f, T)
<1> DEFINE G == {t \in SUBSET T : SumOver(f, S \cup t) = SumOver(f, S) + SumOver(f, t)}
<1>0. SumOver(f, S) \in Nat
    BY SumSteps
<1>1. {} \in G
    <2>1. SumOver(f, {}) = 0 /\ S \cup {} = S
        BY FS_EmptySet, SumSteps
    <2>2. QED BY <1>0, <2>1
<1>2. ASSUME NEW t \in SUBSET T, NEW x \in T \ t, t \in G PROVE t \cup {x} \in G
    <2> DEFINE u == S \cup t
    <2>1. IsFiniteSet(t) /\ IsFiniteSet(u)
        BY FS_Subset, FS_Union
    <2>2. (\A k \in t : f[k] \in Nat) /\ (\A k \in u : f[k] \in Nat) /\ f[x] \in Nat /\ x \notin t /\ x \notin u
        OBVIOUS
    <2>3. u \cup {x} = S \cup (t \cup {x})
        OBVIOUS
    <2>4. SumOver(f, u) = SumOver(f, S) + SumOver(f, t) /\ t \cup {x} \in SUBSET T
        BY <1>2
    <2> HIDE DEF u
    <2>5. SumOver(f, t \cup {x}) = f[x] + SumOver(f, t) /\ SumOver(f, u \cup {x}) = f[x] + SumOver(f, u)
        BY <2>1, <2>2, SumWith
    <2>6. SumOver(f, t) \in Nat
        BY <2>1, <2>2, SumSteps
    <2>7. SumOver(f, u \cup {x}) = SumOver(f, S) + SumOver(f, t \cup {x})
        BY <1>0, <2>2, <2>4, <2>5, <2>6
    <2>8. QED BY <2>3, <2>4, <2>7
<1> HIDE DEF G
<1>3. T \in G
    BY <1>1, <1>2, Parts
<1>4. QED BY <1>3 DEF G

\* Groups that part a set, and what each of them comes to.
Parted(S, D, group) ==
    /\ \A d \in D : group[d] \subseteq S /\ IsFiniteSet(group[d])
    /\ \A k \in S : \E d \in D : k \in group[d]
    /\ \A d, e \in D : d # e => group[d] \cap group[e] = {}
Sums(g, f, group, D) == \A d \in D : g[d] = SumOver(f, group[d]) /\ \A k \in group[d] : f[k] \in Nat

\* A sum over groups is the sum of theirs.
LEMMA SumGroups ==
    ASSUME NEW D, IsFiniteSet(D), NEW group, NEW R, Parted(R, D, group),
           NEW f, NEW g, Sums(g, f, group, D)
    PROVE  SumOver(f, R) = SumOver(g, D)
<1>. /\ \A d \in D : IsFiniteSet(group[d]) /\ g[d] = SumOver(f, group[d]) /\ \A k \in group[d] : f[k] \in Nat
     /\ \A d, e \in D : d # e => group[d] \cap group[e] = {}
     BY DEF Parted, Sums
<1> DEFINE U(s) == UNION {group[d] : d \in s}
           G == {s \in SUBSET D : IsFiniteSet(U(s)) /\ SumOver(f, U(s)) = SumOver(g, s)}
<1>0. \A d \in D : g[d] \in Nat
    <2> SUFFICES ASSUME NEW d \in D PROVE g[d] \in Nat
        OBVIOUS
    <2> DEFINE S == group[d]
    <2>1. IsFiniteSet(S) /\ (\A k \in S : f[k] \in Nat) /\ g[d] = SumOver(f, S)
        OBVIOUS
    <2> HIDE DEF S
    <2>2. SumOver(f, S) \in Nat
        BY <2>1, SumSteps
    <2>3. QED BY <2>1, <2>2
<1>1. {} \in G
    <2>1. U({}) = {}
        OBVIOUS
    <2>2. SumOver(f, {}) = 0 /\ SumOver(g, {}) = 0 /\ IsFiniteSet({})
        BY FS_EmptySet, SumSteps
    <2> HIDE DEF U
    <2>3. QED BY <2>1, <2>2
<1>2. ASSUME NEW s \in SUBSET D, NEW x \in D \ s, s \in G PROVE s \cup {x} \in G
    <2> DEFINE S == U(s)
               T == group[x]
    <2>1. IsFiniteSet(S) /\ IsFiniteSet(T) /\ SumOver(f, S) = SumOver(g, s) /\ s \cup {x} \in SUBSET D
        BY <1>2
    <2>2. (\A k \in S : f[k] \in Nat) /\ (\A k \in T : f[k] \in Nat)
        OBVIOUS
    <2>3. T \cap S = {}
        OBVIOUS
    <2>4. U(s \cup {x}) = S \cup T
        OBVIOUS
    <2>5. g[x] = SumOver(f, T)
        OBVIOUS
    <2>6. IsFiniteSet(s) /\ (\A k \in s : g[k] \in Nat) /\ g[x] \in Nat /\ x \notin s
        BY <1>0, FS_Subset
    <2> HIDE DEF S, T, U
    <2>7. IsFiniteSet(S \cup T)
        BY <2>1, FS_Union
    <2>8. SumOver(f, S \cup T) = SumOver(f, S) + SumOver(f, T)
        BY <2>1, <2>2, <2>3, SumSplit
    <2>9. SumOver(g, s \cup {x}) = g[x] + SumOver(g, s)
        BY <2>6, SumWith
    <2>10. SumOver(g, s) \in Nat
        BY <2>6, SumSteps
    <2>11. SumOver(f, S \cup T) = SumOver(g, s \cup {x})
        BY <2>1, <2>5, <2>6, <2>8, <2>9, <2>10
    <2>12. QED BY <2>1, <2>4, <2>7, <2>11
<1> HIDE DEF G, U
<1>3. D \in G
    BY <1>1, <1>2, Parts
<1>4. SumOver(f, U(D)) = SumOver(g, D)
    BY <1>3 DEF G
<1>5. U(D) = R
    BY DEF U, Parted
<1>6. QED BY <1>4, <1>5

\* What each row of a matrix comes to.
RowSums(row, m, R, C) == \A r \in R : row[r] = SumOver(m[r], C) /\ \A k \in C : m[r][k] \in Nat

\* Sums of rows come to the sum of sums of columns.
LEMMA SumSwap ==
    ASSUME NEW R, IsFiniteSet(R), NEW C, IsFiniteSet(C), NEW m, NEW row, RowSums(row, m, R, C),
           NEW w, NEW column, RowSums(column, w, C, R), \A r \in R : \A k \in C : w[k][r] = m[r][k]
    PROVE  SumOver(row, R) = SumOver(column, C)
<1>. /\ \A r \in R : row[r] = SumOver(m[r], C) /\ \A k \in C : m[r][k] \in Nat
     /\ \A k \in C : column[k] = SumOver(w[k], R)
     BY DEF RowSums
<1> DEFINE at(k) == w[k]
           G == {s \in SUBSET R : SumOver(row, s) = SumOver([k \in C |-> SumOver(at(k), s)], C)}
<1>0. \A r \in R : row[r] \in Nat
    <2> SUFFICES ASSUME NEW r \in R PROVE row[r] \in Nat
        OBVIOUS
    <2> DEFINE f == m[r]
    <2>1. (\A k \in C : f[k] \in Nat) /\ row[r] = SumOver(f, C)
        OBVIOUS
    <2> HIDE DEF f
    <2>2. SumOver(f, C) \in Nat
        BY <2>1, SumSteps
    <2>3. QED BY <2>1, <2>2
<1>1. {} \in G
    <2> DEFINE f == [k \in C |-> SumOver(at(k), {})]
    <2>1. \A k \in C : f[k] = 0
        <3> SUFFICES ASSUME NEW k \in C PROVE f[k] = 0
            OBVIOUS
        <3> DEFINE column1 == at(k)
        <3>1. f[k] = SumOver(column1, {})
            OBVIOUS
        <3> HIDE DEF column1, f
        <3>2. QED BY <3>1, FS_EmptySet, SumSteps
    <2> HIDE DEF f
    <2>2. \A k \in C : f[k] \in Nat
        BY <2>1
    <2>3. SumOver(f, C) = 0
        BY <2>1, <2>2, SumOfTerms
    <2>4. SumOver(row, {}) = 0
        BY FS_EmptySet, SumSteps
    <2>5. QED BY <2>3, <2>4 DEF f
<1>2. ASSUME NEW s \in SUBSET R, NEW x \in R \ s, s \in G PROVE s \cup {x} \in G
    <2> DEFINE f == [k \in C |-> SumOver(at(k), s)]
               h == [k \in C |-> SumOver(at(k), s \cup {x})]
               g == m[x]
    <2>1. IsFiniteSet(s) /\ (\A r \in s : row[r] \in Nat) /\ row[x] \in Nat /\ x \notin s
        BY <1>0, FS_Subset
    <2>2. \A k \in C : f[k] \in Nat /\ g[k] \in Nat /\ h[k] = g[k] + f[k]
        <3> SUFFICES ASSUME NEW k \in C PROVE f[k] \in Nat /\ g[k] \in Nat /\ h[k] = g[k] + f[k]
            OBVIOUS
        <3> DEFINE a == at(k)
        <3>1. (\A r \in s : a[r] \in Nat) /\ a[x] \in Nat /\ a[x] = g[k]
            OBVIOUS
        <3>2. f[k] = SumOver(a, s) /\ h[k] = SumOver(a, s \cup {x})
            OBVIOUS
        <3> HIDE DEF a, f, g, h
        <3>3. SumOver(a, s \cup {x}) = a[x] + SumOver(a, s) /\ SumOver(a, s) \in Nat
            BY <2>1, <3>1, SumWith, SumSteps
        <3>4. QED BY <3>1, <3>2, <3>3
    <2>3. row[x] = SumOver(g, C)
        OBVIOUS
    <2>4. SumOver(row, s) = SumOver(f, C) /\ s \cup {x} \in SUBSET R
        BY <1>2
    <2> HIDE DEF f, g, h
    <2>5. SumOver(h, C) = SumOver(g, C) + SumOver(f, C)
        BY <2>2, SumPlus
    <2>6. SumOver(row, s \cup {x}) = row[x] + SumOver(row, s)
        BY <2>1, SumWith
    <2>7. SumOver(row, s \cup {x}) = SumOver(h, C)
        BY <2>3, <2>4, <2>5, <2>6
    <2>8. QED BY <2>4, <2>7 DEF h
<1> HIDE DEF G
<1>3. R \in G
    BY <1>1, <1>2, Parts
<1> DEFINE f == [k \in C |-> SumOver(at(k), R)]
<1>4. SumOver(row, R) = SumOver(f, C)
    BY <1>3 DEF G
<1>5. \A k \in C : f[k] = column[k]
    OBVIOUS
<1>6. \A k \in C : f[k] \in Nat
    <2> SUFFICES ASSUME NEW k \in C PROVE f[k] \in Nat
        OBVIOUS
    <2> DEFINE a == at(k)
    <2>1. (\A r \in R : a[r] \in Nat) /\ f[k] = SumOver(a, R)
        OBVIOUS
    <2> HIDE DEF a, f
    <2>2. SumOver(a, R) \in Nat
        BY <2>1, SumSteps
    <2>3. QED BY <2>1, <2>2
<1> HIDE DEF f
<1>7. SumOver(f, C) = SumOver(column, C)
    BY <1>5, <1>6, SumSame
<1>8. QED BY <1>4, <1>7

\* Terms may be given other names.
LEMMA SumRenamed ==
    ASSUME NEW S, IsFiniteSet(S), NEW name, \A j, k \in S : j # k => name[j] # name[k],
           NEW f, NEW h, \A k \in S : f[k] \in Nat /\ h[name[k]] = f[k]
    PROVE  SumOver(h, {name[k] : k \in S}) = SumOver(f, S)
<1> DEFINE N(s) == {name[k] : k \in s}
           G == {s \in SUBSET S : IsFiniteSet(N(s)) /\ SumOver(h, N(s)) = SumOver(f, s)}
<1>1. {} \in G
    <2>1. N({}) = {}
        OBVIOUS
    <2>2. SumOver(f, {}) = 0 /\ SumOver(h, {}) = 0 /\ IsFiniteSet({})
        BY FS_EmptySet, SumSteps
    <2> HIDE DEF N
    <2>3. QED BY <2>1, <2>2
<1>2. ASSUME NEW s \in SUBSET S, NEW x \in S \ s, s \in G PROVE s \cup {x} \in G
    <2> DEFINE T == N(s)
               y == name[x]
    <2>1. IsFiniteSet(T) /\ SumOver(h, T) = SumOver(f, s) /\ s \cup {x} \in SUBSET S
        BY <1>2
    <2>2. (\A k \in T : h[k] \in Nat) /\ y \notin T /\ h[y] = f[x] /\ f[x] \in Nat
        OBVIOUS
    <2>3. N(s \cup {x}) = T \cup {y}
        OBVIOUS
    <2>4. IsFiniteSet(s) /\ (\A k \in s : f[k] \in Nat) /\ x \notin s
        BY FS_Subset
    <2> HIDE DEF T, y, N
    <2>5. IsFiniteSet(T \cup {y}) /\ SumOver(h, T \cup {y}) = h[y] + SumOver(h, T)
        BY <2>1, <2>2, SumWith
    <2>6. SumOver(f, s \cup {x}) = f[x] + SumOver(f, s)
        BY <2>2, <2>4, SumWith
    <2>7. QED BY <2>1, <2>2, <2>3, <2>5, <2>6
<1> HIDE DEF G, N
<1>3. S \in G
    BY <1>1, <1>2, Parts
<1>4. QED BY <1>3 DEF G, N

\* As many ones as there are.
LEMMA SumOfOnes ==
    ASSUME NEW S, IsFiniteSet(S), NEW U \in SUBSET S, NEW f, \A k \in S : f[k] = IF k \in U THEN 1 ELSE 0
    PROVE  SumOver(f, S) = Cardinality(U)
<1> DEFINE G == {s \in SUBSET S : SumOver(f, s) = Cardinality(s \cap U)}
<1>1. {} \in G
    <2>1. SumOver(f, {}) = 0 /\ Cardinality({}) = 0 /\ {} \cap U = {}
        BY FS_EmptySet, SumSteps
    <2>2. QED BY <2>1
<1>2. ASSUME NEW s \in SUBSET S, NEW x \in S \ s, s \in G PROVE s \cup {x} \in G
    <2>1. IsFiniteSet(s) /\ IsFiniteSet(s \cap U) /\ Cardinality(s \cap U) \in Nat
        BY FS_Subset, FS_CardinalityType
    <2>2. (\A k \in s : f[k] \in Nat) /\ f[x] \in Nat /\ x \notin s /\ f[x] = IF x \in U THEN 1 ELSE 0
        OBVIOUS
    <2>3. SumOver(f, s \cup {x}) = f[x] + SumOver(f, s)
        BY <2>1, <2>2, SumWith
    <2>4. SumOver(f, s) = Cardinality(s \cap U) /\ s \cup {x} \in SUBSET S
        BY <1>2
    <2>5. Cardinality((s \cup {x}) \cap U) = f[x] + Cardinality(s \cap U)
        <3>1. CASE x \in U
            <4>1. (s \cup {x}) \cap U = (s \cap U) \cup {x} /\ x \notin s \cap U
                BY <2>2, <3>1
            <4>2. Cardinality((s \cap U) \cup {x}) = Cardinality(s \cap U) + 1
                BY <2>1, <4>1, FS_AddElement
            <4> DEFINE n == Cardinality(s \cap U)
            <4>3. n \in Nat /\ f[x] = 1 /\ Cardinality((s \cup {x}) \cap U) = n + 1
                BY <2>1, <2>2, <3>1, <4>1, <4>2
            <4> HIDE DEF n
            <4>4. Cardinality((s \cup {x}) \cap U) = f[x] + n
                BY <4>3
            <4>5. QED BY <4>4 DEF n
        <3>2. CASE x \notin U
            <4>1. (s \cup {x}) \cap U = s \cap U
                BY <3>2
            <4>2. QED BY <2>1, <2>2, <3>2, <4>1
        <3>3. QED BY <3>1, <3>2
    <2>6. QED BY <2>3, <2>4, <2>5
<1> HIDE DEF G
<1>3. S \in G
    BY <1>1, <1>2, Parts
<1>4. S \cap U = U
    OBVIOUS
<1>5. QED BY <1>3, <1>4 DEF G

-----------------------------------------------------------------------------
(* Breakdowns.                                                             *)

\* A quotient and its remainder.
LEMMA DivMod ==
    ASSUME NEW T \in Nat \ {0}, NEW a \in Nat
    PROVE  /\ a \div T \in Nat /\ a % T \in Nat /\ a % T < T
           /\ a = T * (a \div T) + (a % T)
OBVIOUS

\* Keys there are finitely many, each with a place of its own.
LEMMA KeyFacts ==
    /\ IsFiniteSet(Countries) /\ "other" \in Countries
    /\ \A k \in Countries : Place(k) \in Nat
    /\ \A j, k \in Countries : Place(j) = Place(k) => j = k
<1>1. PICK n \in Nat : DOMAIN Ranked = 1..n
    BY ReportConstants
<1>2. IsFiniteSet(DOMAIN Ranked)
    BY <1>1, FS_Interval
<1>3. IsFiniteSet(Countries)
    <2> DEFINE f == [i \in DOMAIN Ranked |-> Ranked[i]]
    <2>1. f \in Surjection(DOMAIN Ranked, Countries)
        BY DEF Countries, Surjection
    <2>2. QED BY <1>2, <2>1, FS_Surjection
<1>4. \A k \in Countries : Place(k) \in DOMAIN Ranked /\ Ranked[Place(k)] = k
    BY DEF Countries, Place
<1>5. QED BY <1>1, <1>3, <1>4, ReportConstants DEF Countries

\* At most as many are listed as there are places.
LEMMA HeadSmall ==
    ASSUME NEW P, IsFiniteSet(P), NEW ahead, \A k \in P : ahead[k] \in SUBSET (P \ {k}),
           \A j, k \in P : j # k => j \in ahead[k] \/ k \in ahead[j],
           \A i, j, k \in P : i \in ahead[j] /\ j \in ahead[k] => i \in ahead[k],
           NEW M \in Nat
    PROVE  LET head == {k \in P : Cardinality(ahead[k]) < M}
           IN  IsFiniteSet(head) /\ Cardinality(head) <= M
<1> DEFINE head == {k \in P : Cardinality(ahead[k]) < M}
           rank == [k \in head |-> Cardinality(ahead[k])]
<1>1. IsFiniteSet(head)
    BY FS_Subset
<1>2. \A k \in P : IsFiniteSet(ahead[k]) /\ Cardinality(ahead[k]) \in Nat
    BY FS_Subset, FS_CardinalityType
<1>3. ASSUME NEW j \in P, NEW k \in P, j \in ahead[k] PROVE Cardinality(ahead[j]) < Cardinality(ahead[k])
    <2>1. ahead[j] \subseteq ahead[k] /\ j \notin ahead[j]
        BY <1>3
    <2>2. ahead[j] # ahead[k] /\ ahead[j] \in SUBSET ahead[k]
        BY <1>3, <2>1
    <2>3. QED BY <1>2, <2>2, FS_Subset
<1>4. rank \in [head -> 0 .. (M - 1)]
    BY <1>2
<1>5. ASSUME NEW j \in head, NEW k \in head, rank[j] = rank[k] PROVE j = k
    BY <1>2, <1>3, <1>5
<1>6. IsFiniteSet(0 .. (M - 1)) /\ Cardinality(0 .. (M - 1)) = M
    <2>1. CASE M = 0
        BY <2>1, FS_Interval, FS_EmptySet
    <2>2. CASE M # 0
        BY <2>2, FS_Interval
    <2>3. QED BY <2>1, <2>2
<1>7. rank \in Injection(head, 0 .. (M - 1))
    <2> HIDE DEF rank
    <2>1. QED BY <1>4, <1>5 DEF Injection, IsInjective
<1>8. Cardinality(head) <= Cardinality(0 .. (M - 1))
    <2> HIDE DEF rank, head
    <2>1. QED BY <1>6, <1>7, FS_Injection
<1>9. QED BY <1>1, <1>6, <1>8

\* What is over is handed out whole, one tenth each, and to none that has none over.
LEMMA SharesAddUp ==
    ASSUME NEW D, IsFiniteSet(D), NEW c \in [D -> Nat \ {0}], NEW share \in Shares(c)
    PROVE  /\ Total(share) = IF Total(c) = 0 THEN 0 ELSE 1000
           /\ \A j, k \in D : c[j] > c[k] => share[j] >= share[k]
           /\ \A k \in D :
                 LET off == share[k] * Total(c) - 1000 * c[k]
                 IN  -Total(c) < off /\ off < Total(c)
<1> DEFINE T == Total(c)
<1>1. DOMAIN c = D /\ \A k \in D : c[k] \in Nat
    OBVIOUS
<1>2. T \in Nat /\ \A k \in D : c[k] <= T
    BY <1>1, SumSteps, SumOfTerms DEF Total
<1>3. CASE T = 0
    <2>1. D = {}
        BY <1>2, <1>3
    <2>2. share = [k \in D |-> 0]
        BY <1>1, <1>3 DEF Shares
    <2>3. Total(share) = 0
        BY <2>1, <2>2, FS_EmptySet, SumSteps DEF Total
    <2>4. QED BY <1>3, <2>1, <2>3
<1>4. CASE T # 0
    <2> DEFINE tenths == [k \in D |-> (1000 * c[k]) \div T]
               over == [k \in D |-> (1000 * c[k]) % T]
    <2>1. T \in Nat \ {0} /\ \A k \in D : 1000 * c[k] \in Nat
        BY <1>1, <1>2, <1>4
    <2>2. PICK U \in SUBSET D :
             /\ Cardinality(U) = 1000 - Total(tenths)
             /\ \A a \in U, b \in D \ U : over[a] >= over[b]
             /\ share = [k \in D |-> tenths[k] + (IF k \in U THEN 1 ELSE 0)]
        BY <1>1, <1>4 DEF Shares
    <2>3. \A k \in D : /\ tenths[k] \in Nat /\ over[k] \in Nat /\ over[k] < T
                       /\ 1000 * c[k] = T * tenths[k] + over[k]
        <3> HIDE DEF T
        <3> SUFFICES ASSUME NEW k \in D
                     PROVE  /\ tenths[k] \in Nat /\ over[k] \in Nat /\ over[k] < T
                            /\ 1000 * c[k] = T * tenths[k] + over[k]
            OBVIOUS
        <3> DEFINE a == 1000 * c[k]
        <3>1. a \in Nat
            BY <2>1
        <3> HIDE DEF a
        <3>2. a \div T \in Nat /\ a % T \in Nat /\ a % T < T /\ a = T * (a \div T) + (a % T)
            BY <2>1, <3>1, DivMod
        <3>3. QED BY <3>2 DEF a
    <2>4. DOMAIN tenths = D /\ DOMAIN over = D /\ DOMAIN share = D
        BY <2>2
    <2>5. \A k \in D : share[k] = tenths[k] + (IF k \in U THEN 1 ELSE 0)
        BY <2>2
    <2> DEFINE one(V) == [k \in D |-> IF k \in V THEN 1 ELSE 0]
               n == Cardinality(U)
               S == Total(tenths)
    <2>6. IsFiniteSet(U) /\ n \in Nat /\ S \in Nat /\ S = SumOver(tenths, D)
        <3> HIDE DEF tenths, T
        <3>1. IsFiniteSet(U) /\ Cardinality(U) \in Nat
            BY FS_Subset, FS_CardinalityType
        <3>2. \A k \in D : tenths[k] \in Nat
            BY <2>3
        <3>3. SumOver(tenths, D) \in Nat
            BY <3>2, SumSteps
        <3>4. QED BY <2>4, <3>1, <3>3 DEF Total
    <2>7. n = 1000 - S
        BY <2>2
    <2>8. \A V \in SUBSET D : SumOver(one(V), D) = Cardinality(V)
        BY SumOfOnes
    <2> HIDE DEF tenths, over, T, n, S
    <2>9. Total(share) = 1000
        <3>1. SumOver(share, D) = SumOver(tenths, D) + SumOver(one(U), D)
            <4> DEFINE u == one(U)
            <4>1. \A k \in D : tenths[k] \in Nat /\ u[k] \in Nat /\ share[k] = tenths[k] + u[k]
                BY <2>3, <2>5
            <4> HIDE DEF u
            <4>2. QED BY <4>1, SumPlus DEF u
        <3>2. SumOver(one(U), D) = n
            BY <2>8 DEF n
        <3> HIDE DEF one
        <3>3. QED BY <2>4, <2>6, <2>7, <3>1, <3>2 DEF Total
    <2>10. SumOver(over, D) = T * n
        <3> DEFINE whole == [k \in D |-> 1000 * c[k]]
                   part == [k \in D |-> T * tenths[k]]
        <3>1. SumOver(whole, D) = 1000 * T
            <4>1. \A k \in D : c[k] \in Nat /\ whole[k] = 1000 * c[k]
                BY <1>1
            <4>2. 1000 \in Nat
                OBVIOUS
            <4> HIDE DEF whole
            <4>3. QED BY <1>1, <4>1, <4>2, SumTimes DEF T, Total
        <3>2. SumOver(part, D) = T * S
            <4>1. \A k \in D : tenths[k] \in Nat /\ part[k] = T * tenths[k]
                BY <2>3
            <4> HIDE DEF part
            <4>2. QED BY <2>1, <2>6, <4>1, SumTimes
        <3>3. SumOver(whole, D) = SumOver(part, D) + SumOver(over, D)
            <4>1. \A k \in D : part[k] \in Nat /\ over[k] \in Nat /\ whole[k] = part[k] + over[k]
                BY <2>1, <2>3
            <4> HIDE DEF part, whole
            <4>2. QED BY <4>1, SumPlus
        <3>4. SumOver(over, D) \in Nat
            BY <2>3, SumSteps, ZenonT(60)
        <3>5. \A x, y \in Nat : T * (x + y) = T * x + T * y
            BY <2>1
        <3>6. 1000 * T = T * 1000 /\ 1000 = S + n
            BY <2>1, <2>6, <2>7
        <3>7. T * 1000 = T * S + T * n
            BY <2>6, <3>5, <3>6
        <3>8. T * n \in Nat /\ T * S \in Nat
            BY <2>1, <2>6
        <3> HIDE DEF part, whole
        <3>9. QED BY <3>1, <3>2, <3>3, <3>4, <3>6, <3>7, <3>8
    <2>11. ASSUME NEW k \in U PROVE over[k] > 0
        <3> SUFFICES ASSUME over[k] = 0 PROVE FALSE
            BY <2>3
        <3> DEFINE V == U \ {k}
                   most == [x \in D |-> T * one(V)[x]]
        <3>1. Cardinality(V) = n - 1 /\ V \in SUBSET D /\ n - 1 \in Nat
            <4>1. IsFiniteSet(V) /\ Cardinality(V) = n - 1 /\ Cardinality(V) \in Nat
                BY <2>6, FS_RemoveElement, FS_CardinalityType, FS_Subset DEF n
            <4>2. QED BY <4>1
        <3>2. \A x \in D : over[x] \in Nat /\ most[x] \in Nat /\ over[x] <= most[x]
            <4> SUFFICES ASSUME NEW x \in D PROVE over[x] \in Nat /\ most[x] \in Nat /\ over[x] <= most[x]
                OBVIOUS
            <4>1. CASE x \in V
                BY <2>1, <2>3, <4>1
            <4>2. CASE x \notin V
                <5>1. over[x] = 0
                    BY <2>2, <2>3, <4>2
                <5>2. most[x] = 0
                    BY <2>1, <4>2
                <5>3. QED BY <5>1, <5>2
            <4>3. QED BY <4>1, <4>2
        <3>3. SumOver(most, D) = T * (n - 1)
            <4> DEFINE v == one(V)
            <4>1. \A x \in D : v[x] \in Nat /\ most[x] = T * v[x]
                OBVIOUS
            <4>2. SumOver(v, D) = n - 1
                BY <2>8, <3>1
            <4> HIDE DEF v, most
            <4>3. QED BY <2>1, <4>1, <4>2, SumTimes
        <3>4. SumOver(over, D) <= SumOver(most, D)
            <4> HIDE DEF most
            <4>1. QED BY <3>2, SumLess
        <3>5. T * n = T * (n - 1) + T
            BY <2>1, <2>6
        <3>6. T * (n - 1) \in Nat
            BY <2>1, <3>1
        <3> HIDE DEF most
        <3>7. QED BY <2>1, <2>10, <3>3, <3>4, <3>5, <3>6
    <2>12. ASSUME NEW j \in D, NEW k \in D, c[j] > c[k] PROVE share[j] >= share[k]
        <3> DEFINE tj == tenths[j]
                   tk == tenths[k]
                   oj == over[j]
                   ok == over[k]
        <3>1. /\ tj \in Nat /\ tk \in Nat /\ oj \in Nat /\ ok \in Nat /\ oj < T /\ ok < T
              /\ T * tj + oj > T * tk + ok
            <4>1. 1000 * c[j] > 1000 * c[k]
                BY <1>1, <2>12
            <4>2. QED BY <2>3, <4>1
        <3>2. share[j] = tj + (IF j \in U THEN 1 ELSE 0) /\ share[k] = tk + (IF k \in U THEN 1 ELSE 0)
            BY <2>5
        <3>3. k \in U /\ j \notin U => ok >= oj
            BY <2>2
        <3> HIDE DEF tj, tk, oj, ok
        <3>4. tj >= tk
            <4> SUFFICES ASSUME tj + 1 <= tk PROVE FALSE
                BY <3>1
            <4>1. T * (tj + 1) <= T * tk
                BY <2>1, <3>1
            <4>2. T * (tj + 1) = T * tj + T
                BY <2>1, <3>1
            <4>3. T * tj \in Nat /\ T * tk \in Nat
                BY <2>1, <3>1
            <4>4. QED BY <2>1, <3>1, <4>1, <4>2, <4>3
        <3>5. tj = tk => oj > ok
            BY <2>1, <3>1
        <3>6. QED BY <3>1, <3>2, <3>3, <3>4, <3>5
    <2>13. ASSUME NEW k \in D PROVE -T < share[k] * T - 1000 * c[k] /\ share[k] * T - 1000 * c[k] < T
        <3> DEFINE t == tenths[k]
                   o == over[k]
                   s == share[k]
                   w == 1000 * c[k]
        <3>1. t \in Nat /\ o \in Nat /\ o < T /\ w = T * t + o
            BY <2>3
        <3>2. (s = t + 1 /\ o > 0) \/ s = t
            <4>1. CASE k \in U
                <5>1. over[k] > 0 /\ share[k] = tenths[k] + 1
                    BY <2>5, <2>11, <4>1
                <5>2. QED BY <5>1
            <4>2. CASE k \notin U
                <5>1. share[k] = tenths[k] + 0 /\ tenths[k] \in Nat
                    BY <2>3, <2>5, <4>2
                <5>2. QED BY <5>1
            <4>3. QED BY <4>1, <4>2
        <3> HIDE DEF t, o, s, w
        <3>3. (t + 1) * T = T * t + T /\ t * T = T * t /\ T * t \in Nat
            BY <2>1, <3>1
        <3> DEFINE x == T * t
                   y == s * T
        <3>4. x \in Nat /\ w = x + o /\ ((y = x + T /\ o > 0) \/ y = x)
            BY <3>1, <3>2, <3>3
        <3> HIDE DEF x, y
        <3>5. T \in Nat /\ T > 0
            BY <2>1
        <3>6. -T < y - w /\ y - w < T
            BY <3>1, <3>4, <3>5
        <3>7. QED BY <3>6 DEF s, w, y
    <2>14. QED BY <1>4, <2>9, <2>12, <2>13 DEF T
<1>5. QED BY <1>3, <1>4

\* Precedence orders the keys with clicks, so few enough are at the head.
LEMMA HeadIs ==
    ASSUME NEW counts \in [Countries -> Nat], NEW P \in SUBSET Countries
    PROVE  LET head == {k \in P : Cardinality({j \in P : Precedes(counts, j, k)}) < MaxBuckets}
           IN  IsFiniteSet(head) /\ Cardinality(head) <= MaxBuckets
<1> DEFINE ahead == [k \in P |-> {j \in P : Precedes(counts, j, k)}]
           head == {k \in P : Cardinality(ahead[k]) < MaxBuckets}
<1>1. \A k \in P : k \in Countries /\ Place(k) \in Nat /\ counts[k] \in Nat
    BY KeyFacts
<1>2. IsFiniteSet(P) /\ MaxBuckets \in Nat
    BY KeyFacts, FS_Subset, ReportConstants
<1>3. \A k \in P : ahead[k] \in SUBSET (P \ {k})
    BY <1>1 DEF Precedes
<1>4. \A j, k \in P : j # k => j \in ahead[k] \/ k \in ahead[j]
    BY <1>1, KeyFacts DEF Precedes
<1>5. \A i, j, k \in P : i \in ahead[j] /\ j \in ahead[k] => i \in ahead[k]
    BY <1>1 DEF Precedes
<1>6. head = {k \in P : Cardinality({j \in P : Precedes(counts, j, k)}) < MaxBuckets}
    OBVIOUS
<1> HIDE DEF ahead
<1>7. IsFiniteSet(head) /\ Cardinality(head) <= MaxBuckets
    BY <1>2, <1>3, <1>4, <1>5, HeadSmall
<1> HIDE DEF head
<1>8. QED BY <1>6, <1>7

\* Folding keeps every click, in few enough buckets and none of them empty.
LEMMA FoldedFacts ==
    ASSUME NEW counts \in [Countries -> Nat]
    PROVE  LET clicks == Folded(counts)
           IN  /\ IsFiniteSet(DOMAIN clicks) /\ DOMAIN clicks \in SUBSET Countries
               /\ Cardinality(DOMAIN clicks) <= MaxBuckets + 1
               /\ clicks \in [DOMAIN clicks -> Nat \ {0}]
               /\ Total(clicks) = Total(counts) /\ Total(counts) \in Nat
<1> DEFINE P == {k \in DOMAIN counts : counts[k] > 0}
           head == {k \in P : Cardinality({j \in P : Precedes(counts, j, k)}) < MaxBuckets}
           rest == SumOver(counts, P \ head)
           D == head \cup (IF rest > 0 THEN {"other"} ELSE {})
           clicks == [k \in D |-> (IF k \in head THEN counts[k] ELSE 0) + (IF k = "other" THEN rest ELSE 0)]
<1>1. Folded(counts) = clicks
    BY DEF Folded
<1>2. DOMAIN counts = Countries /\ P \in SUBSET Countries /\ \A k \in Countries : counts[k] \in Nat
    OBVIOUS
<1>3. IsFiniteSet(head) /\ Cardinality(head) <= MaxBuckets /\ Cardinality(head) \in Nat /\ MaxBuckets \in Nat
    <2>1. IsFiniteSet(head) /\ Cardinality(head) <= MaxBuckets
        <3> HIDE DEF P
        <3>1. QED BY <1>2, HeadIs
    <2>2. Cardinality(head) \in Nat
        <3> HIDE DEF head
        <3>1. QED BY <2>1, FS_CardinalityType
    <2>3. QED BY <2>1, <2>2, ReportConstants
<1>4. head \in SUBSET P
    OBVIOUS
<1>5. \A k \in P : counts[k] \in Nat /\ counts[k] > 0
    OBVIOUS
<1>6. \A k \in Countries \ P : counts[k] = 0
    BY <1>2
<1>7. IsFiniteSet(Countries) /\ "other" \in Countries
    BY KeyFacts
<1> HIDE DEF P, head
<1>8. IsFiniteSet(P) /\ IsFiniteSet(P \ head) /\ IsFiniteSet(Countries \ P)
    BY <1>2, <1>7, FS_Subset
<1>9. rest \in Nat
    BY <1>5, <1>8, SumSteps
<1> HIDE DEF rest
<1>10. Total(counts) = SumOver(counts, head) + rest /\ Total(counts) \in Nat /\ SumOver(counts, head) \in Nat
    <2>1. Countries = P \cup (Countries \ P) /\ P \cap (Countries \ P) = {}
        BY <1>2
    <2>2. \A k \in Countries \ P : counts[k] \in Nat
        BY <1>2
    <2> DEFINE Z == Countries \ P
    <2> HIDE DEF Z
    <2>3. SumOver(counts, P \cup Z) = SumOver(counts, P) + SumOver(counts, Z)
        BY <1>5, <1>8, <2>1, <2>2, SumSplit DEF Z
    <2>4. SumOver(counts, Z) = 0
        BY <1>6, <1>8, <2>2, SumOfTerms DEF Z
    <2> DEFINE Y == P \ head
    <2>5. P = head \cup Y /\ head \cap Y = {} /\ (\A k \in head : counts[k] \in Nat) /\ \A k \in Y : counts[k] \in Nat
        BY <1>4, <1>5
    <2>6. IsFiniteSet(Y) /\ rest = SumOver(counts, Y)
        BY <1>8 DEF rest
    <2> HIDE DEF Y
    <2>7. SumOver(counts, head \cup Y) = SumOver(counts, head) + SumOver(counts, Y)
        BY <1>3, <2>5, <2>6, SumSplit
    <2>8. SumOver(counts, head) \in Nat
        BY <1>3, <2>5, SumSteps
    <2>9. Total(counts) = SumOver(counts, P \cup Z)
        BY <1>2, <2>1 DEF Total, Z
    <2>10. QED BY <1>9, <2>3, <2>4, <2>5, <2>6, <2>7, <2>8, <2>9
<1>11. IsFiniteSet(D) /\ Cardinality(D) <= MaxBuckets + 1 /\ D \in SUBSET Countries
    <2>1. D = head \/ D = head \cup {"other"}
        OBVIOUS
    <2>2. CASE D = head
        BY <1>2, <1>3, <1>4, <2>2
    <2>3. CASE D = head \cup {"other"}
        <3>1. IsFiniteSet(D)
            BY <1>3, <2>3, FS_AddElement
        <3>2. Cardinality(D) = Cardinality(head) \/ Cardinality(D) = Cardinality(head) + 1
            BY <1>3, <2>3, FS_AddElement
        <3>3. QED BY <1>2, <1>3, <1>4, <1>7, <2>3, <3>1, <3>2
    <2> HIDE DEF D
    <2>4. QED BY <2>1, <2>2, <2>3
<1>12. \A k \in D : clicks[k] = (IF k \in head THEN counts[k] ELSE 0) + (IF k = "other" THEN rest ELSE 0)
    OBVIOUS
<1>13. DOMAIN clicks = D /\ clicks = [k \in D |-> clicks[k]]
    OBVIOUS
<1>14. \A k \in D : k \in head \/ (k = "other" /\ rest > 0)
    OBVIOUS
<1>15. "other" \notin D => rest = 0
    BY <1>9
<1> HIDE DEF clicks
<1>16. \A k \in D : clicks[k] \in Nat \ {0}
    <2> HIDE DEF D
    <2>1. QED BY <1>4, <1>5, <1>9, <1>12, <1>14
<1>17. SumOver(clicks, D) = SumOver(counts, head) + rest
    <2> DEFINE kept == [k \in D |-> IF k \in head THEN counts[k] ELSE 0]
               put == [k \in D |-> IF k = "other" THEN rest ELSE 0]
    <2>1. head \subseteq D
        OBVIOUS
    <2> HIDE DEF D
    <2>2. \A k \in D : kept[k] \in Nat /\ put[k] \in Nat /\ clicks[k] = kept[k] + put[k]
        BY <1>4, <1>5, <1>9, <1>12
    <2>3. (\A k \in head : kept[k] = counts[k] /\ kept[k] \in Nat) /\ \A k \in D \ head : kept[k] \in Nat /\ kept[k] = 0
        BY <1>4, <1>5, <2>1
    <2>4. \A k \in D \ {"other"} : put[k] \in Nat /\ put[k] = 0
        OBVIOUS
    <2>5. "other" \in D => put["other"] = rest
        OBVIOUS
    <2> HIDE DEF kept, put
    <2>6. SumOver(clicks, D) = SumOver(kept, D) + SumOver(put, D)
        BY <1>11, <2>2, SumPlus
    <2>7. SumOver(kept, D) = SumOver(counts, head)
        <3> DEFINE Z == D \ head
        <3>1. D = head \cup Z /\ head \cap Z = {} /\ \A k \in Z : kept[k] \in Nat /\ kept[k] = 0
            BY <2>1, <2>3
        <3>2. IsFiniteSet(Z)
            BY <1>11, FS_Subset
        <3> HIDE DEF Z
        <3>3. SumOver(kept, head \cup Z) = SumOver(kept, head) + SumOver(kept, Z)
            BY <1>3, <2>3, <3>1, <3>2, SumSplit
        <3>4. SumOver(kept, Z) = 0
            BY <3>1, <3>2, SumOfTerms
        <3>5. SumOver(kept, head) = SumOver(counts, head)
            BY <1>3, <2>3, SumSame
        <3>6. QED BY <1>10, <3>1, <3>3, <3>4, <3>5
    <2>8. SumOver(put, D) = rest
        <3>1. CASE "other" \notin D
            <4>1. \A k \in D : put[k] \in Nat /\ put[k] = 0
                BY <2>4, <3>1
            <4>2. SumOver(put, D) = 0
                BY <1>11, <4>1, SumOfTerms
            <4>3. QED BY <1>15, <3>1, <4>2 DEF D
        <3>2. CASE "other" \in D
            <4> DEFINE Z == D \ {"other"}
            <4>1. SumOver(put, D) = put["other"] + SumOver(put, Z)
                BY <1>11, <2>2, <3>2, SumWithout
            <4>2. IsFiniteSet(Z) /\ \A k \in Z : put[k] \in Nat /\ put[k] = 0
                BY <1>11, <2>4, FS_Subset
            <4> HIDE DEF Z
            <4>3. SumOver(put, Z) = 0
                BY <4>2, SumOfTerms
            <4>4. QED BY <1>9, <2>5, <3>2, <4>1, <4>3
        <3>3. QED BY <3>1, <3>2
    <2>9. QED BY <2>6, <2>7, <2>8
<1> HIDE DEF D
<1>18. clicks \in [DOMAIN clicks -> Nat \ {0}]
    BY <1>13, <1>16
<1>19. QED BY <1>1, <1>10, <1>11, <1>13, <1>17, <1>18 DEF Total

\* A breakdown adds up, whatever is counted.
LEMMA BreakdownAlwaysAddsUp ==
    ASSUME NEW counts \in [Countries -> Nat]
    PROVE  BreakdownAddsUp(counts)
<1> DEFINE clicks == Folded(counts)
           D == DOMAIN clicks
<1>1. /\ IsFiniteSet(D) /\ Cardinality(D) <= MaxBuckets + 1
      /\ clicks \in [D -> Nat \ {0}] /\ Total(clicks) = Total(counts)
    BY FoldedFacts
<1> HIDE DEF clicks
<1> DEFINE T == Total(clicks)
<1>2. ASSUME NEW share \in Shares(clicks)
      PROVE  /\ Total(share) = IF T = 0 THEN 0 ELSE 1000
             /\ \A j, k \in D : clicks[j] > clicks[k] => share[j] >= share[k]
             /\ \A k \in D :
                   LET off == share[k] * T - 1000 * clicks[k]
                   IN  -T < off /\ off < T
    <2> HIDE DEF D
    <2>1. QED BY <1>1, SharesAddUp
<1>3. QED BY <1>1, <1>2 DEF BreakdownAddsUp, clicks

-----------------------------------------------------------------------------
(* Reports.                                                                *)

\* Any rollup of the two links up to a day, and the clicks of one of its rows.
RowsTo(last) == {"one", "two"} \X (0..last)
Tables(last) == [RowsTo(last) -> [countries : [Countries -> Nat], visitDays : Nat, bots : Nat]]
ClicksOf(table) == [at \in DOMAIN table |-> Total(table[at].countries)]

LEMMA ClicksAre ==
    ASSUME NEW last \in Nat, NEW table \in Tables(last)
    PROVE  \A at \in RowsTo(last) :
              /\ table[at].countries \in [Countries -> Nat]
              /\ ClicksOf(table)[at] = SumOver(table[at].countries, Countries)
              /\ ClicksOf(table)[at] \in Nat
<1> SUFFICES ASSUME NEW at \in RowsTo(last)
             PROVE  /\ table[at].countries \in [Countries -> Nat]
                    /\ ClicksOf(table)[at] = SumOver(table[at].countries, Countries)
                    /\ ClicksOf(table)[at] \in Nat
    OBVIOUS
<1> DEFINE f == table[at].countries
<1>1. f \in [Countries -> Nat]
    BY DEF Tables
<1>2. ClicksOf(table)[at] = Total(f)
    BY DEF ClicksOf, Tables
<1> HIDE DEF f
<1>3. SumOver(f, Countries) \in Nat /\ DOMAIN f = Countries
    BY <1>1, KeyFacts, SumSteps
<1>4. QED BY <1>1, <1>2, <1>3 DEF Total, f

\* A window has finitely many rows.
LEMMA RowsAre ==
    ASSUME NEW last \in Nat, NEW L \in SUBSET {"one", "two"}, NEW from \in Int, NEW to \in Int, to <= last
    PROVE  /\ IsFiniteSet(L) /\ IsFiniteSet(ReportRows(L, from, to))
           /\ ReportRows(L, from, to) \in SUBSET RowsTo(last)
           /\ \A l, d : <<l, d>> \in ReportRows(L, from, to) <=> l \in L /\ d \in 0..to /\ d >= from
<1>1. IsFiniteSet({"one", "two"})
    <2>1. IsFiniteSet({"one"})
        BY FS_Singleton
    <2>2. IsFiniteSet({"one"} \cup {"two"}) /\ {"one"} \cup {"two"} = {"one", "two"}
        BY <2>1, FS_AddElement
    <2>3. QED BY <2>2
<1>2. IsFiniteSet(L)
    BY <1>1, FS_Subset
<1> DEFINE W == {d \in 0..to : d >= from}
<1>3. IsFiniteSet(0..to)
    BY FS_Interval
<1>4. IsFiniteSet(W) /\ W \in SUBSET (0..last)
    BY <1>3, FS_Subset
<1>5. ReportRows(L, from, to) = L \X W
    BY DEF ReportRows
<1>6. \A d : d \in W <=> d \in 0..to /\ d >= from
    OBVIOUS
<1> HIDE DEF W
<1>7. IsFiniteSet(L \X W)
    BY <1>2, <1>4, FS_Product
<1>8. QED BY <1>2, <1>4, <1>5, <1>6, <1>7 DEF RowsTo

\* What a window of the rollup comes to.
LEMMA DailyIs ==
    ASSUME NEW last \in Nat, NEW table \in Tables(last), NEW L \in SUBSET {"one", "two"},
           NEW from \in Int, NEW to \in Int, to <= last
    PROVE  /\ Daily(table, L, from, to).clicks = SumOver(ClicksOf(table), ReportRows(L, from, to))
           /\ Daily(table, L, from, to).clicks \in Nat
<1> DEFINE R == ReportRows(L, from, to)
           f == [at \in R |-> Total(table[at].countries)]
           c == ClicksOf(table)
<1>1. Daily(table, L, from, to).clicks = Total(f)
    BY DEF Daily
<1>2. IsFiniteSet(R) /\ R \in SUBSET RowsTo(last)
    BY RowsAre
<1> HIDE DEF R
<1>3. DOMAIN f = R /\ \A at \in R : f[at] \in Nat /\ f[at] = c[at]
    <2>1. \A at \in R : c[at] \in Nat
        BY <1>2, ClicksAre
    <2>2. \A at \in R : f[at] = c[at]
        BY <1>2 DEF ClicksOf, Tables
    <2>3. QED BY <2>1, <2>2
<1> HIDE DEF f, c
<1>4. SumOver(f, R) = SumOver(c, R) /\ SumOver(f, R) \in Nat
    BY <1>2, <1>3, SumSame, SumSteps
<1>5. QED BY <1>1, <1>3, <1>4 DEF Total, c, R

\* The same clicks, counted by key.
LEMMA RollupIs ==
    ASSUME NEW last \in Nat, NEW table \in Tables(last), NEW L \in SUBSET {"one", "two"},
           NEW from \in Int, NEW to \in Int, to <= last
    PROVE  /\ ReadRollup(table, L, from, to) \in [Countries -> Nat]
           /\ Total(ReadRollup(table, L, from, to)) = SumOver(ClicksOf(table), ReportRows(L, from, to))
<1> DEFINE R == ReportRows(L, from, to)
           m == [at \in R |-> table[at].countries]
           column == ReadRollup(table, L, from, to)
           row == [at \in R |-> ClicksOf(table)[at]]
<1>1. IsFiniteSet(R) /\ R \in SUBSET RowsTo(last) /\ IsFiniteSet(Countries)
    BY RowsAre, KeyFacts
<1>2. column = [k \in Countries |-> Total([at \in R |-> table[at].countries[k]])]
    BY DEF ReadRollup
<1> HIDE DEF R
<1>3. \A at \in R : /\ m[at] \in [Countries -> Nat] /\ ClicksOf(table)[at] = SumOver(m[at], Countries)
                    /\ ClicksOf(table)[at] \in Nat
    BY <1>1, ClicksAre
<1> DEFINE w == [k \in Countries |-> [at \in R |-> table[at].countries[k]]]
<1>4. \A k \in Countries : column[k] = SumOver(w[k], R) /\ \A at \in R : w[k][at] = m[at][k]
    <2> SUFFICES ASSUME NEW k \in Countries
                 PROVE  column[k] = SumOver(w[k], R) /\ \A at \in R : w[k][at] = m[at][k]
        OBVIOUS
    <2>1. \A at \in R : w[k][at] = m[at][k]
        OBVIOUS
    <2> DEFINE f == w[k]
    <2>2. column[k] = Total(f) /\ DOMAIN f = R
        BY <1>2
    <2> HIDE DEF f, column
    <2>3. column[k] = SumOver(f, R)
        BY <2>2 DEF Total
    <2>4. QED BY <2>1, <2>3 DEF f
<1>5. \A at \in R : \A k \in Countries : m[at][k] \in Nat
    BY <1>3
<1>6. \A at \in R : row[at] = SumOver(m[at], Countries) /\ row[at] \in Nat /\ row[at] = ClicksOf(table)[at]
    BY <1>3
<1>7. DOMAIN column = Countries /\ column = [k \in Countries |-> column[k]]
    BY <1>2
<1> HIDE DEF m, column, row, w
<1>8. SumOver(row, R) = SumOver(column, Countries)
    <2>1. RowSums(row, m, R, Countries)
        BY <1>5, <1>6 DEF RowSums
    <2>2. RowSums(column, w, Countries, R)
        BY <1>4, <1>5 DEF RowSums
    <2>3. \A at \in R : \A k \in Countries : w[k][at] = m[at][k]
        BY <1>4
    <2>4. QED BY <1>1, <2>1, <2>2, <2>3, SumSwap
<1>9. SumOver(row, R) = SumOver(ClicksOf(table), R)
    BY <1>1, <1>6, SumSame
<1>10. \A k \in Countries : column[k] \in Nat
    <2> SUFFICES ASSUME NEW k \in Countries PROVE column[k] \in Nat
        OBVIOUS
    <2> DEFINE f == w[k]
    <2>1. column[k] = SumOver(f, R) /\ \A at \in R : f[at] \in Nat
        BY <1>4, <1>5
    <2> HIDE DEF f
    <2>2. QED BY <1>1, <2>1, SumSteps
<1>11. column \in [Countries -> Nat]
    BY <1>7, <1>10
<1>12. QED BY <1>7, <1>8, <1>9, <1>11 DEF Total, column, R

\* A part comes to no more than the whole.
LEMMA SumPart ==
    ASSUME NEW S, IsFiniteSet(S), NEW f, \A k \in S : f[k] \in Nat, NEW T \in SUBSET S
    PROVE  SumOver(f, T) \in Nat /\ SumOver(f, S) \in Nat /\ SumOver(f, T) <= SumOver(f, S)
<1> DEFINE Z == S \ T
<1>1. IsFiniteSet(T) /\ IsFiniteSet(Z) /\ T \cap Z = {} /\ T \cup Z = S
    BY FS_Subset
<1>2. (\A k \in T : f[k] \in Nat) /\ (\A k \in Z : f[k] \in Nat)
    OBVIOUS
<1> HIDE DEF Z
<1>3. SumOver(f, T \cup Z) = SumOver(f, T) + SumOver(f, Z)
    BY <1>1, <1>2, SumSplit
<1>4. SumOver(f, T) \in Nat /\ SumOver(f, Z) \in Nat
    BY <1>1, <1>2, SumSteps
<1>5. SumOver(f, S) = SumOver(f, T \cup Z)
    BY <1>1
<1>6. QED BY <1>3, <1>4, <1>5

\* And has fewer elements when it is not the whole.
LEMMA PartSmaller ==
    ASSUME NEW S, IsFiniteSet(S), NEW A \in SUBSET S, A # S
    PROVE  Cardinality(A) \in Nat /\ Cardinality(A) < Cardinality(S)
<1>1. IsFiniteSet(A) /\ Cardinality(A) <= Cardinality(S) /\ Cardinality(S) # Cardinality(A)
    BY FS_Subset
<1>2. Cardinality(A) \in Nat /\ Cardinality(S) \in Nat
    BY <1>1, FS_CardinalityType
<1>3. QED BY <1>1, <1>2

\* Two windows end to end.
LEMMA WindowsJoin ==
    ASSUME NEW last \in Nat, NEW table \in Tables(last), NEW L \in SUBSET {"one", "two"},
           NEW a \in Int, NEW b \in Nat, NEW to \in Nat, a <= b, b <= to, to <= last
    PROVE  Daily(table, L, a, to).clicks = Daily(table, L, a, b - 1).clicks + Daily(table, L, b, to).clicks
<1> DEFINE first == ReportRows(L, a, b - 1)
           then  == ReportRows(L, b, to)
           c == ClicksOf(table)
<1>1. /\ IsFiniteSet(first) /\ IsFiniteSet(then)
      /\ first \in SUBSET RowsTo(last) /\ then \in SUBSET RowsTo(last)
    BY RowsAre
<1>2. first \cap then = {} /\ ReportRows(L, a, to) = first \cup then
    BY DEF ReportRows
<1>3. (\A at \in first : c[at] \in Nat) /\ \A at \in then : c[at] \in Nat
    <2> HIDE DEF first, then
    <2>1. QED BY <1>1, ClicksAre
<1>4. /\ Daily(table, L, a, to).clicks = SumOver(c, ReportRows(L, a, to))
      /\ Daily(table, L, a, b - 1).clicks = SumOver(c, first)
      /\ Daily(table, L, b, to).clicks = SumOver(c, then)
    BY DailyIs
<1> HIDE DEF first, then, c
<1>5. SumOver(c, first \cup then) = SumOver(c, first) + SumOver(c, then)
    BY <1>1, <1>2, <1>3, SumSplit
<1>6. QED BY <1>2, <1>4, <1>5

\* How many raw events of each row no fold has seen: the events of a day that was
\* dropped are gone, and those of any other are the folded ones and these.
LeftOf(last, table, raw) ==
    {late \in [RowsTo(last) -> Nat] :
        /\ raw \in [RowsTo(last) -> [Countries -> Nat]]
        /\ \A at \in RowsTo(last) :
              /\ at[2] < RawFrom => late[at] = 0 /\ Total(raw[at]) = 0
              /\ at[2] >= RawFrom => Total(raw[at]) = Total(table[at].countries) + late[at]}

\* What the browsers of a window come to.
LEMMA BrowsersAre ==
    ASSUME NEW last \in Nat, NEW table \in Tables(last), NEW raw, NEW late \in LeftOf(last, table, raw),
           NEW L \in SUBSET {"one", "two"}, NEW from \in Nat, NEW to \in Nat, from <= to, to <= last
    PROVE  /\ ReadBrowsers(raw, L, from, to) \in [Countries -> Nat]
           /\ Total(ReadBrowsers(raw, L, from, to)) + Dropped(table, L, from, to) =
                  Daily(table, L, from, to).clicks + Unfolded(late, L, from, to)
<1> DEFINE rawTable == [at \in RowsTo(last) |-> [countries |-> raw[at], visitDays |-> 0, bots |-> 0]]
           cut == IF to < RawFrom THEN to ELSE RawFrom - 1
           R == ReportRows(L, from, to)
           P == ReportRows(L, from, cut)
           K == R \ P
           c == ClicksOf(table)
           w == ClicksOf(rawTable)
           f == [at \in R |-> late[at]]
<1>1. cut \in Int /\ cut <= to /\ cut <= last /\ cut < RawFrom /\ RawFrom \in Nat
    BY ReportConstants
<1>2. rawTable \in Tables(last)
    BY DEF LeftOf, Tables
<1>3. /\ IsFiniteSet(R) /\ R \in SUBSET RowsTo(last)
      /\ \A l, d : <<l, d>> \in R <=> l \in L /\ d \in 0..to /\ d >= from
    BY <1>1, RowsAre, SMTT(60)
<1>4. /\ IsFiniteSet(P) /\ P \in SUBSET RowsTo(last)
      /\ \A l, d : <<l, d>> \in P <=> l \in L /\ d \in 0..cut /\ d >= from
    BY <1>1, RowsAre
<1>5. P \in SUBSET R /\ (\A at \in P : at[2] < RawFrom) /\ \A at \in K : at[2] >= RawFrom
    <2>1. ASSUME NEW at \in RowsTo(last)
          PROVE  at \in P <=> at \in R /\ at[2] < RawFrom
        <3>1. PICK l \in {"one", "two"}, d \in 0..last : at = <<l, d>>
            BY DEF RowsTo
        <3>2. d \in 0..cut <=> d \in 0..to /\ d < RawFrom
            BY <1>1
        <3> HIDE DEF R, P, cut
        <3>3. QED BY <1>3, <1>4, <3>1, <3>2
    <2>2. \A at \in RowsTo(last) : at[2] \in Nat
        BY DEF RowsTo
    <2> HIDE DEF R, P
    <2>3. QED BY <1>1, <1>3, <1>4, <2>1, <2>2
<1>6. ReadBrowsers(raw, L, from, to) = ReadRollup(rawTable, L, from, to)
    <2>1. \A k \in Countries : [at \in R |-> raw[at][k]] = [at \in R |-> rawTable[at].countries[k]]
        <3> HIDE DEF R
        <3>1. QED BY <1>3
    <2> HIDE DEF rawTable
    <2>2. QED BY <2>1 DEF ReadBrowsers, ReadRollup
<1>7. /\ ReadRollup(rawTable, L, from, to) \in [Countries -> Nat]
      /\ Total(ReadRollup(rawTable, L, from, to)) = SumOver(w, R)
    <2> HIDE DEF rawTable
    <2>1. QED BY <1>2, RollupIs
<1>8. Daily(table, L, from, to).clicks = SumOver(c, R) /\ Dropped(table, L, from, to) = SumOver(c, P)
    BY <1>1, DailyIs DEF Dropped
<1>9. Unfolded(late, L, from, to) = SumOver(f, R)
    BY DEF Unfolded, Total
<1>10. \A at \in RowsTo(last) : /\ c[at] \in Nat /\ w[at] \in Nat
                               /\ c[at] = Total(table[at].countries) /\ w[at] = Total(raw[at])
    <2>1. \A at \in RowsTo(last) : c[at] \in Nat /\ w[at] \in Nat
        <3> HIDE DEF rawTable
        <3>1. QED BY <1>2, ClicksAre
    <2>2. \A at \in RowsTo(last) : c[at] = Total(table[at].countries) /\ w[at] = Total(raw[at])
        BY DEF ClicksOf, Tables
    <2>3. QED BY <2>1, <2>2
<1>11. \A at \in R : f[at] \in Nat /\ f[at] = late[at]
    <2> HIDE DEF R
    <2>1. QED BY <1>3 DEF LeftOf
<1> HIDE DEF rawTable, cut, R, P, c, w, f
<1>12. \A at \in P : w[at] = 0 /\ f[at] = 0 /\ w[at] \in Nat /\ f[at] \in Nat /\ c[at] \in Nat
    BY <1>4, <1>5, <1>10, <1>11 DEF LeftOf
<1>13. \A at \in K : w[at] = c[at] + f[at] /\ w[at] \in Nat /\ f[at] \in Nat /\ c[at] \in Nat
    BY <1>3, <1>5, <1>10, <1>11 DEF LeftOf
<1>14. IsFiniteSet(K) /\ P \cap K = {} /\ R = P \cup K
    BY <1>3, <1>5, FS_Subset
<1> HIDE DEF K
<1>15. /\ SumOver(w, R) = SumOver(w, P) + SumOver(w, K) /\ SumOver(f, R) = SumOver(f, P) + SumOver(f, K)
       /\ SumOver(c, R) = SumOver(c, P) + SumOver(c, K)
    BY <1>4, <1>12, <1>13, <1>14, SumSplit
<1>16. SumOver(w, P) = 0 /\ SumOver(f, P) = 0
    BY <1>4, <1>12, SumOfTerms
<1>17. SumOver(w, K) = SumOver(c, K) + SumOver(f, K)
    BY <1>13, <1>14, SumPlus
<1>18. /\ SumOver(c, P) \in Nat /\ SumOver(c, K) \in Nat /\ SumOver(f, K) \in Nat
    BY <1>4, <1>12, <1>13, <1>14, SumSteps
<1>19. QED BY <1>6, <1>7, <1>8, <1>9, <1>15, <1>16, <1>17, <1>18

\* The days of a window come to the window.
LEMMA DaysJoin ==
    ASSUME NEW last \in Nat, NEW table \in Tables(last), NEW L \in SUBSET {"one", "two"},
           NEW from \in Nat, NEW to \in Nat, to <= last,
           NEW f, \A d \in from..to : f[d] = Daily(table, L, d, d).clicks
    PROVE  /\ IsFiniteSet(from..to) /\ \A d \in from..to : f[d] \in Nat
           /\ SumOver(f, from..to) = Daily(table, L, from, to).clicks
<1> DEFINE group == [d \in from..to |-> ReportRows(L, d, d)]
           c == ClicksOf(table)
           R == ReportRows(L, from, to)
           days == from..to
<1>1. IsFiniteSet(from..to)
    <2>1. from \in Int /\ to \in Int
        OBVIOUS
    <2> HIDE DEF days
    <2>2. QED BY <2>1, FS_Interval
<1>2. ASSUME NEW d \in days
      PROVE  /\ IsFiniteSet(group[d]) /\ group[d] \in SUBSET RowsTo(last)
             /\ f[d] = SumOver(c, group[d]) /\ f[d] \in Nat
             /\ group[d] = L \X {d}
    <2>1. d \in Int /\ d <= last
        OBVIOUS
    <2>2. group[d] = ReportRows(L, d, d) /\ f[d] = Daily(table, L, d, d).clicks
        OBVIOUS
    <2>3. IsFiniteSet(ReportRows(L, d, d)) /\ ReportRows(L, d, d) \in SUBSET RowsTo(last)
        BY <2>1, RowsAre
    <2>4. Daily(table, L, d, d).clicks = SumOver(c, ReportRows(L, d, d)) /\ Daily(table, L, d, d).clicks \in Nat
        BY <2>1, DailyIs
    <2>5. {e \in 0..d : e >= d} = {d}
        OBVIOUS
    <2>6. ReportRows(L, d, d) = L \X {d}
        BY <2>5 DEF ReportRows
    <2>7. QED BY <2>2, <2>3, <2>4, <2>6
<1>3. R = L \X days
    <2>1. {d \in 0..to : d >= from} = days
        OBVIOUS
    <2>2. QED BY <2>1 DEF ReportRows
<1>4. Daily(table, L, from, to).clicks = SumOver(c, R)
    BY DailyIs
<1> HIDE DEF group, days, R
<1>5. Parted(R, days, group)
    <2>1. \A d, e \in days : d # e => group[d] \cap group[e] = {}
        BY <1>2
    <2>2. \A k \in R : \E d \in days : k \in group[d]
        BY <1>2, <1>3
    <2>3. \A d \in days : group[d] \subseteq R
        BY <1>2, <1>3
    <2>4. QED BY <1>2, <2>1, <2>2, <2>3 DEF Parted
<1>6. Sums(f, c, group, days)
    <2>1. \A d \in days : \A at \in group[d] : c[at] \in Nat
        BY <1>2, ClicksAre
    <2> HIDE DEF c
    <2>2. QED BY <1>2, <2>1 DEF Sums
<1> HIDE DEF c
<1>7. SumOver(c, R) = SumOver(f, days)
    BY <1>1, <1>5, <1>6, SumGroups DEF days
<1>8. \A d \in days : f[d] \in Nat
    BY <1>2
<1>9. QED BY <1>1, <1>4, <1>7, <1>8 DEF days

\* So do the links.
PerLink(f, table, L, from, to) == \A l \in L : f[l] = Daily(table, {l}, from, to).clicks
LEMMA LinksJoin ==
    ASSUME NEW last \in Nat, NEW table \in Tables(last), NEW L \in SUBSET {"one", "two"},
           NEW from \in Int, NEW to \in Int, to <= last,
           NEW f, PerLink(f, table, L, from, to)
    PROVE  /\ \A l \in L : f[l] \in Nat
           /\ SumOver(f, L) = Daily(table, L, from, to).clicks
<1> DEFINE group == [l \in L |-> ReportRows({l}, from, to)]
           c == ClicksOf(table)
           R == ReportRows(L, from, to)
           W == {d \in 0..to : d >= from}
<1>0. \A l \in L : f[l] = Daily(table, {l}, from, to).clicks
    BY DEF PerLink
<1>1. IsFiniteSet(L)
    BY RowsAre
<1>2. ASSUME NEW l \in L
      PROVE  /\ IsFiniteSet(group[l]) /\ group[l] \in SUBSET RowsTo(last)
             /\ f[l] = SumOver(c, group[l]) /\ f[l] \in Nat
             /\ group[l] = {l} \X W
    <2>1. {l} \in SUBSET {"one", "two"}
        OBVIOUS
    <2>2. group[l] = ReportRows({l}, from, to) /\ f[l] = Daily(table, {l}, from, to).clicks
        BY <1>0
    <2>3. IsFiniteSet(ReportRows({l}, from, to)) /\ ReportRows({l}, from, to) \in SUBSET RowsTo(last)
        BY <2>1, RowsAre
    <2>4. /\ Daily(table, {l}, from, to).clicks = SumOver(c, ReportRows({l}, from, to))
          /\ Daily(table, {l}, from, to).clicks \in Nat
        BY <2>1, DailyIs
    <2>5. ReportRows({l}, from, to) = {l} \X W
        BY DEF ReportRows
    <2>6. QED BY <2>2, <2>3, <2>4, <2>5
<1>3. R = L \X W
    BY DEF ReportRows
<1>4. Daily(table, L, from, to).clicks = SumOver(c, R)
    BY DailyIs
<1> HIDE DEF group, W, c, R
<1>5. Parted(R, L, group)
    <2>1. \A d, e \in L : d # e => group[d] \cap group[e] = {}
        BY <1>2
    <2>2. \A k \in R : \E l \in L : k \in group[l]
        BY <1>2, <1>3
    <2>3. \A l \in L : group[l] \subseteq R
        BY <1>2, <1>3
    <2>4. QED BY <1>2, <2>1, <2>2, <2>3 DEF Parted
<1>6. Sums(f, c, group, L)
    <2>1. \A l \in L : \A at \in group[l] : c[at] \in Nat
        BY <1>2, ClicksAre DEF c
    <2>2. QED BY <1>2, <2>1 DEF Sums
<1>7. SumOver(c, R) = SumOver(f, L)
    BY <1>1, <1>5, <1>6, SumGroups
<1>8. \A l \in L : f[l] \in Nat
    BY <1>2
<1>9. QED BY <1>4, <1>7, <1>8

\* The top links come to no more than all of them, and to all when none is left out.
LEMMA TopIs ==
    ASSUME NEW last \in Nat, NEW table \in Tables(last), NEW L \in SUBSET {"one", "two"},
           NEW from \in Int, NEW to \in Int, to <= last
    PROVE  LET top == ReadTopLinks(table, L, from, to)
               clicks == Daily(table, L, from, to).clicks
           IN  /\ DOMAIN top \in SUBSET L /\ IsFiniteSet(DOMAIN top)
               /\ \A l \in DOMAIN top : top[l] \in Nat
               /\ SumOver(top, DOMAIN top) <= clicks
               /\ Cardinality(L) <= TopCount => SumOver(top, DOMAIN top) = clicks
<1> DEFINE of == [l \in L |-> Daily(table, {l}, from, to).clicks]
           ahead(l) == {m \in L : of[m] > of[l] \/ (of[m] = of[l] /\ m = "one" /\ l = "two")}
           T == {l \in L : of[l] > 0 /\ Cardinality(ahead(l)) < TopCount}
           top == ReadTopLinks(table, L, from, to)
<1>1. top = [l \in T |-> of[l]]
    <2>1. \A l \in L : of[l] = Daily(table, {l}, from, to).clicks
        OBVIOUS
    <2> HIDE DEF of
    <2>2. \A l \in L : {m \in L : Daily(table, {m}, from, to).clicks > Daily(table, {l}, from, to).clicks \/
                          (Daily(table, {m}, from, to).clicks = Daily(table, {l}, from, to).clicks /\ m = "one" /\ l = "two")}
                       = ahead(l)
        BY <2>1
    <2>3. top = [l \in {l \in L : Daily(table, {l}, from, to).clicks > 0 /\ Cardinality(ahead(l)) < TopCount}
                    |-> Daily(table, {l}, from, to).clicks]
        BY <2>2 DEF ReadTopLinks
    <2>4. QED BY <2>1, <2>3
<1>2. (\A l \in L : of[l] = Daily(table, {l}, from, to).clicks) /\ T \in SUBSET L
    OBVIOUS
<1>3. IsFiniteSet(L) /\ Cardinality(L) \in Nat
    BY RowsAre, FS_CardinalityType
<1>4. DOMAIN top = T /\ \A l \in T : top[l] = of[l]
    BY <1>1
<1>5. (\A l \in L : of[l] \in Nat) /\ SumOver(of, L) = Daily(table, L, from, to).clicks
    <2> HIDE DEF of, T, top
    <2>1. table \in Tables(last) /\ from \in Int /\ to \in Int /\ to <= last /\ L \in SUBSET {"one", "two"}
        OBVIOUS
    <2>2. PerLink(of, table, L, from, to)
        BY <1>2 DEF PerLink
    <2>3. QED BY <2>1, <2>2, LinksJoin
<1>6. \A A \in SUBSET L : A # L => Cardinality(A) \in Nat /\ Cardinality(A) < Cardinality(L)
    BY <1>3, PartSmaller
<1>7. ASSUME Cardinality(L) <= TopCount, NEW l \in L \ T PROVE of[l] = 0
    <2>1. \A m \in L : of[m] \in Nat
        BY <1>5
    <2>2. ahead(l) \subseteq L /\ l \notin ahead(l)
        <3> HIDE DEF of
        <3>1. QED BY <2>1
    <2>3. Cardinality(ahead(l)) < Cardinality(L) /\ Cardinality(ahead(l)) \in Nat
        <3> DEFINE A == ahead(l)
        <3>1. A \in SUBSET L /\ A # L
            BY <2>2
        <3> HIDE DEF A, of, T
        <3>2. Cardinality(A) \in Nat /\ Cardinality(A) < Cardinality(L)
            BY <1>6, <3>1
        <3>3. QED BY <3>2 DEF A
    <2>4. TopCount \in Nat
        BY ReportConstants
    <2>5. ~(of[l] > 0)
        <3> HIDE DEF of, ahead
        <3>1. QED BY <1>3, <1>7, <2>3, <2>4
    <2>6. QED BY <2>1, <2>5
<1> HIDE DEF of, T, top
<1>8. IsFiniteSet(T) /\ \A l \in T : of[l] \in Nat /\ top[l] \in Nat /\ top[l] = of[l]
    BY <1>2, <1>3, <1>4, <1>5, FS_Subset
<1>9. SumOver(top, T) = SumOver(of, T)
    BY <1>8, SumSame
<1>10. SumOver(of, T) <= SumOver(of, L)
    BY <1>2, <1>3, <1>5, SumPart
<1>11. ASSUME Cardinality(L) <= TopCount PROVE SumOver(of, T) = SumOver(of, L)
    <2> DEFINE Z == L \ T
    <2>1. T \cup Z = L /\ T \cap Z = {} /\ \A l \in Z : of[l] \in Nat /\ of[l] = 0
        BY <1>2, <1>5, <1>7, <1>11
    <2>2. IsFiniteSet(Z)
        BY <1>3, FS_Subset
    <2> HIDE DEF Z
    <2>3. SumOver(of, Z) = 0
        BY <2>1, <2>2, SumOfTerms
    <2>4. SumOver(of, T \cup Z) = SumOver(of, T) + SumOver(of, Z)
        BY <1>8, <2>1, <2>2, SumSplit
    <2>5. SumOver(of, T) \in Nat
        BY <1>8, SumSteps
    <2>6. SumOver(of, L) = SumOver(of, T \cup Z)
        BY <2>1
    <2>7. QED BY <2>3, <2>4, <2>5, <2>6
<1>12. QED BY <1>2, <1>4, <1>5, <1>8, <1>9, <1>10, <1>11 DEF top

\* The rows a section has, and those some figures make.
RowsIn(rows, section) == {row \in rows : row[1] = section}
Filed(section, f, S) == {<<section, k, f[k]>> : k \in S}

\* What a section comes to is what was filed in it.
LEMMA SectionIs ==
    ASSUME NEW S, IsFiniteSet(S), NEW f, \A k \in S : f[k] \in Nat,
           NEW rows, NEW section, RowsIn(rows, section) = Filed(section, f, S)
    PROVE  SectionTotal(rows, section) = SumOver(f, S)
<1> DEFINE name == [k \in S |-> <<section, k, f[k]>>]
           of == RowsIn(rows, section)
           h == [row \in of |-> row[3]]
<1>1. of = {name[k] : k \in S}
    BY DEF Filed
<1>2. \A k \in S : name[k] \in of /\ name[k][3] = f[k] /\ name[k][2] = k
    BY DEF Filed
<1>3. \A j, k \in S : j # k => name[j] # name[k]
    BY <1>2
<1>4. SectionTotal(rows, section) = Total(h)
    BY DEF SectionTotal, RowsIn
<1> HIDE DEF name, of
<1>5. DOMAIN h = of /\ \A k \in S : f[k] \in Nat /\ h[name[k]] = f[k]
    BY <1>2
<1> HIDE DEF h
<1>6. SumOver(h, {name[k] : k \in S}) = SumOver(f, S)
    BY <1>3, <1>5, SumRenamed
<1>7. SumOver(h, {name[k] : k \in S}) = SumOver(h, of)
    BY <1>1
<1>8. QED BY <1>4, <1>5, <1>6, <1>7 DEF Total

\* The sections of an export are apart.
LEMMA CsvIs ==
    ASSUME NEW report, NEW days, DOMAIN days = DOMAIN report.series,
           \A d \in DOMAIN days : days[d] = report.series[d].clicks
    PROVE  /\ RowsIn(Csv(report), "day") = Filed("day", days, DOMAIN days)
           /\ RowsIn(Csv(report), "country") = Filed("country", report.byCountry, DOMAIN report.byCountry)
           /\ RowsIn(Csv(report), "browser") = Filed("browser", report.byBrowser, DOMAIN report.byBrowser)
           /\ RowsIn(Csv(report), "link") = Filed("link", report.topLinks, DOMAIN report.topLinks)
<1> DEFINE day == Filed("day", days, DOMAIN days)
           country == Filed("country", report.byCountry, DOMAIN report.byCountry)
           browser == Filed("browser", report.byBrowser, DOMAIN report.byBrowser)
           link == Filed("link", report.topLinks, DOMAIN report.topLinks)
<1>1. Csv(report) = day \cup country \cup browser \cup link
    <2>1. {<<"day", d, report.series[d].clicks>> : d \in DOMAIN report.series} = day
        BY DEF Filed
    <2>2. QED BY <2>1 DEF Csv, Filed
<1>2. /\ \A row \in day : row[1] = "day"
      /\ \A row \in country : row[1] = "country"
      /\ \A row \in browser : row[1] = "browser"
      /\ \A row \in link : row[1] = "link"
    BY DEF Filed
<1> HIDE DEF day, country, browser, link
<1>3. RowsIn(Csv(report), "day") = day
    BY <1>1, <1>2 DEF RowsIn
<1>4. RowsIn(Csv(report), "country") = country
    BY <1>1, <1>2 DEF RowsIn
<1>5. RowsIn(Csv(report), "browser") = browser
    BY <1>1, <1>2 DEF RowsIn
<1>6. RowsIn(Csv(report), "link") = link
    BY <1>1, <1>2 DEF RowsIn
<1>7. QED BY <1>3, <1>4, <1>5, <1>6 DEF day, country, browser, link

\* The first of the busiest days.
PeakOf(f, S) == {d \in S : f[d] > 0 /\ \A e \in S : f[e] < f[d] \/ (f[e] = f[d] /\ d <= e)}

\* It is one day.
LEMMA PeakIs ==
    ASSUME NEW from \in Nat, NEW to \in Nat, from <= to, NEW f, \A d \in from..to : f[d] \in Nat,
           NEW n \in Nat, n = SumOver(f, from..to), IsFiniteSet(from..to)
    PROVE  Cardinality(PeakOf(f, from..to)) = IF n = 0 THEN 0 ELSE 1
<1> DEFINE days == from..to
           Peak(d) == f[d] > 0 /\ \A e \in days : f[e] < f[d] \/ (f[e] = f[d] /\ d <= e)
           peak == {d \in days : Peak(d)}
<1>1. (\A d \in days : f[d] <= n) /\ ((\A d \in days : f[d] = 0) => n = 0)
    <2> HIDE DEF days
    <2>1. IsFiniteSet(days) /\ (\A d \in days : f[d] \in Nat) /\ n = SumOver(f, days)
        BY DEF days
    <2>2. QED BY <2>1, SumOfTerms
<1>2. ASSUME n = 0 PROVE peak = {}
    BY <1>1, <1>2
<1>3. ASSUME n # 0 PROVE \E d \in days : peak = {d}
    <2> DEFINE short == {n - f[d] : d \in days}
    <2>1. from \in days /\ \A d \in days : d \in Nat
        OBVIOUS
    <2>2. short \in SUBSET Nat /\ short # {}
        BY <1>1, <2>1
    <2>3. PICK m \in short : \A x \in short : m <= x
        <3> HIDE DEF short
        <3>1. QED BY <2>2, LeastOf
    <2> DEFINE most == {d \in days : f[d] = n - m}
    <2>4. most \in SUBSET Nat /\ most # {}
        BY <2>1, <2>3
    <2>5. PICK d \in most : \A e \in most : d <= e
        <3> HIDE DEF most
        <3>1. QED BY <2>4, LeastOf
    <2>6. \A e \in days : f[e] <= f[d]
        <3> SUFFICES ASSUME NEW e \in days PROVE f[e] <= f[d]
            OBVIOUS
        <3>1. m <= n - f[e] /\ f[d] = n - m
            BY <2>3, <2>5
        <3>2. m \in Nat
            BY <2>2, <2>3
        <3>3. QED BY <3>1, <3>2
    <2>7. f[d] > 0
        <3> SUFFICES ASSUME f[d] = 0 PROVE FALSE
            BY <2>5
        <3>1. \A e \in days : f[e] = 0
            BY <2>6, SMTT(30)
        <3>2. QED BY <1>1, <1>3, <3>1
    <2>8. \A e \in days : f[e] = f[d] => d <= e
        <3> SUFFICES ASSUME NEW e \in days, f[e] = f[d] PROVE d <= e
            OBVIOUS
        <3>1. e \in most
            BY <2>5
        <3>2. QED BY <2>5, <3>1
    <2>9. d \in peak
        <3>1. d \in days
            BY <2>5
        <3> HIDE DEF most, short, days
        <3>2. \A e \in days : f[e] < f[d] \/ (f[e] = f[d] /\ d <= e)
            BY <2>6, <2>8, <3>1 DEF days
        <3>3. QED BY <2>7, <3>1, <3>2
    <2>10. ASSUME NEW e \in peak PROVE e = d
        <3>1. e \in days /\ d \in days /\ Peak(e) /\ Peak(d)
            BY <2>9, <2>10
        <3>2. f[e] = f[d]
            BY <2>6, <3>1
        <3>3. d <= e /\ e <= d
            BY <3>1, <3>2
        <3>4. QED BY <2>1, <3>1, <3>3
    <2> HIDE DEF peak
    <2>11. QED BY <2>5, <2>9, <2>10
<1> HIDE DEF peak
<1>4. Cardinality(peak) = IF n = 0 THEN 0 ELSE 1
    <2>1. CASE n = 0
        BY <1>2, <2>1, FS_EmptySet
    <2>2. CASE n # 0
        BY <1>3, <2>2, FS_Singleton
    <2>3. QED BY <2>1, <2>2
<1>5. peak = PeakOf(f, from..to)
    BY DEF peak, PeakOf
<1>6. QED BY <1>4, <1>5

\* What a report is made of.
LEMMA ReportIs ==
    ASSUME NEW table, NEW raw, NEW scope, NEW from, NEW to
    PROVE  LET report == Report(table, raw, scope, from, to)
               L == InScope(scope)
               days == to - from + 1
           IN  /\ report.totals = Daily(table, L, from, to)
               /\ report.links = Cardinality(L)
               /\ report.series = [d \in from..to |-> Daily(table, L, d, d)]
               /\ report.byCountry = Folded(ReadRollup(table, L, from, to))
               /\ report.byBrowser = Folded(ReadBrowsers(raw, L, from, to))
               /\ report.topLinks = ReadTopLinks(table, L, from, to)
               /\ report.change.clicks = Against(Daily(table, L, from, to).clicks,
                                                 Daily(table, L, from - days, from - 1).clicks)
               /\ report.peak = {d \in from..to : /\ report.series[d].clicks > 0
                                                  /\ \A e \in from..to : \/ report.series[e].clicks < report.series[d].clicks
                                                                         \/ report.series[e].clicks = report.series[d].clicks /\ d <= e}
BY DEF Report

\* Its totals are those of its window.
LEMMA TotalsAre ==
    ASSUME NEW table, NEW raw, NEW scope, NEW from, NEW to
    PROVE  Report(table, raw, scope, from, to).totals = Daily(table, InScope(scope), from, to)
BY DEF Report

\* A report adds up, of any rollup and over any window.
LEMMA ReportAlwaysAddsUp ==
    ASSUME NEW last \in Nat, NEW table \in Tables(last), NEW raw, NEW late \in LeftOf(last, table, raw),
           NEW scope, scope.includeDeleted \in BOOLEAN, NEW to \in 0..last, NEW from \in 0..to
    PROVE  ReportAddsUp(table, raw, late, scope, from, to)
<1> DEFINE L == InScope(scope)
           days == to - from + 1
           report == Report(table, raw, scope, from, to)
           before == Report(table, raw, scope, from - days, from - 1)
           both == Report(table, raw, scope, from - days, to)
           rows == Csv(report)
           clicks == report.totals.clicks
           f == [d \in from..to |-> report.series[d].clicks]
<1>1. /\ L \in SUBSET {"one", "two"} /\ from \in Nat /\ from <= to
      /\ from \in Int /\ to \in Int /\ to \in Nat /\ to <= last /\ from - 1 <= last /\ from - days \in Int /\ from - 1 \in Int /\ from - days <= from
    BY DEF InScope
<1>2. /\ clicks = Daily(table, L, from, to).clicks /\ report.links = Cardinality(L)
      /\ report.series = [d \in from..to |-> Daily(table, L, d, d)]
      /\ report.byCountry = Folded(ReadRollup(table, L, from, to))
      /\ report.byBrowser = Folded(ReadBrowsers(raw, L, from, to))
      /\ report.topLinks = ReadTopLinks(table, L, from, to)
      /\ report.change.clicks = Against(Daily(table, L, from, to).clicks,
                                        Daily(table, L, from - days, from - 1).clicks)
      /\ report.peak = {d \in from..to : /\ report.series[d].clicks > 0
                                         /\ \A e \in from..to : \/ report.series[e].clicks < report.series[d].clicks
                                                                \/ report.series[e].clicks = report.series[d].clicks /\ d <= e}
    BY ReportIs, SMTT(60)
<1>3. before.totals.clicks = Daily(table, L, from - days, from - 1).clicks
    BY TotalsAre
<1>4. both.totals.clicks = Daily(table, L, from - days, to).clicks
    BY TotalsAre
<1>5. DOMAIN report.series = from..to /\ DOMAIN f = from..to
      /\ \A d \in from..to : f[d] = report.series[d].clicks /\ f[d] = Daily(table, L, d, d).clicks
    BY <1>2
<1> HIDE DEF L, report, before, both, rows, f, days
<1>6. clicks \in Nat /\ before.totals.clicks \in Nat
    BY <1>1, <1>2, <1>3, DailyIs
<1>7. /\ IsFiniteSet(from..to) /\ \A d \in from..to : f[d] \in Nat
      /\ SumOver(f, from..to) = clicks
    <2>1. \A d \in from..to : f[d] = Daily(table, L, d, d).clicks
        BY <1>5
    <2>2. /\ IsFiniteSet(from..to) /\ \A d \in from..to : f[d] \in Nat
          /\ SumOver(f, from..to) = Daily(table, L, from, to).clicks
        <3>1. L \in SUBSET {"one", "two"} /\ from \in Nat /\ to \in Nat /\ to <= last
            BY <1>1
        <3>2. QED BY <2>1, <3>1, DaysJoin
    <2>3. QED BY <1>2, <2>2
<1>8. /\ RowsIn(rows, "day") = Filed("day", f, from..to)
      /\ RowsIn(rows, "country") = Filed("country", report.byCountry, DOMAIN report.byCountry)
      /\ RowsIn(rows, "browser") = Filed("browser", report.byBrowser, DOMAIN report.byBrowser)
      /\ RowsIn(rows, "link") = Filed("link", report.topLinks, DOMAIN report.topLinks)
    <2>1. DOMAIN f = DOMAIN report.series /\ \A d \in DOMAIN f : f[d] = report.series[d].clicks
        BY <1>5
    <2>2. /\ RowsIn(Csv(report), "day") = Filed("day", f, DOMAIN f)
          /\ RowsIn(Csv(report), "country") = Filed("country", report.byCountry, DOMAIN report.byCountry)
          /\ RowsIn(Csv(report), "browser") = Filed("browser", report.byBrowser, DOMAIN report.byBrowser)
          /\ RowsIn(Csv(report), "link") = Filed("link", report.topLinks, DOMAIN report.topLinks)
        BY <2>1, CsvIs
    <2>3. QED BY <1>5, <2>2 DEF rows
<1>9. SectionTotal(rows, "day") = clicks
    <2>1. SectionTotal(rows, "day") = SumOver(f, from..to)
        BY <1>7, <1>8, SectionIs
    <2>2. QED BY <1>7, <2>1
<1>10. ASSUME NEW section, NEW counts \in [Countries -> Nat], NEW b, b = Folded(counts),
              RowsIn(rows, section) = Filed(section, b, DOMAIN b)
       PROVE  SectionTotal(rows, section) = Total(counts)
    <2>1. /\ IsFiniteSet(DOMAIN b) /\ b \in [DOMAIN b -> Nat \ {0}]
          /\ Total(b) = Total(counts)
        BY <1>10, FoldedFacts
    <2>2. \A k \in DOMAIN b : b[k] \in Nat
        BY <2>1
    <2>3. SectionTotal(rows, section) = SumOver(b, DOMAIN b)
        BY <1>10, <2>1, <2>2, SectionIs
    <2>4. QED BY <2>1, <2>3 DEF Total
<1>11. SectionTotal(rows, "country") = clicks
    <2> DEFINE counts == ReadRollup(table, L, from, to)
               b == report.byCountry
    <2>1. counts \in [Countries -> Nat] /\ Total(counts) = SumOver(ClicksOf(table), ReportRows(L, from, to))
        BY <1>1, RollupIs
    <2>2. b = Folded(counts) /\ RowsIn(rows, "country") = Filed("country", b, DOMAIN b)
        BY <1>2, <1>8
    <2>3. clicks = SumOver(ClicksOf(table), ReportRows(L, from, to))
        BY <1>1, <1>2, DailyIs
    <2> HIDE DEF counts, b
    <2>4. SectionTotal(rows, "country") = Total(counts)
        BY <1>10, <2>1, <2>2
    <2>5. QED BY <2>1, <2>3, <2>4
<1>12. SectionTotal(rows, "browser") + Dropped(table, L, from, to) = clicks + Unfolded(late, L, from, to)
    <2> DEFINE counts == ReadBrowsers(raw, L, from, to)
               b == report.byBrowser
    <2>1. /\ counts \in [Countries -> Nat]
          /\ Total(counts) + Dropped(table, L, from, to) =
                 Daily(table, L, from, to).clicks + Unfolded(late, L, from, to)
        <3>1. L \in SUBSET {"one", "two"} /\ from \in Nat /\ to \in Nat /\ from <= to /\ to <= last
            BY <1>1
        <3> HIDE DEF L
        <3>2. QED BY <3>1, BrowsersAre
    <2>2. b = Folded(counts) /\ RowsIn(rows, "browser") = Filed("browser", b, DOMAIN b)
        BY <1>2, <1>8
    <2> HIDE DEF counts, b
    <2>3. SectionTotal(rows, "browser") = Total(counts)
        BY <1>10, <2>1, <2>2
    <2>4. QED BY <1>2, <2>1, <2>3
<1>13. SectionTotal(rows, "link") <= clicks /\ (report.links <= TopCount => SectionTotal(rows, "link") = clicks)
       /\ DOMAIN report.topLinks \in SUBSET L
    <2> DEFINE r == ReadTopLinks(table, L, from, to)
               d == Daily(table, L, from, to).clicks
               n == Cardinality(L)
    <2>1. report.topLinks = r /\ clicks = d /\ report.links = n /\ RowsIn(rows, "link") = Filed("link", r, DOMAIN r)
        BY <1>2, <1>8
    <2>2. /\ DOMAIN r \in SUBSET L /\ IsFiniteSet(DOMAIN r) /\ \A l \in DOMAIN r : r[l] \in Nat
          /\ SumOver(r, DOMAIN r) <= d /\ (n <= TopCount => SumOver(r, DOMAIN r) = d)
        <3>1. L \in SUBSET {"one", "two"} /\ from \in Int /\ to \in Int /\ to <= last
            BY <1>1
        <3> HIDE DEF L
        <3>2. QED BY <3>1, TopIs
    <2> HIDE DEF r, d, n
    <2>3. SectionTotal(rows, "link") = SumOver(r, DOMAIN r)
        BY <2>1, <2>2, SectionIs
    <2>4. QED BY <2>1, <2>2, <2>3
<1>14. before.totals.clicks + clicks = both.totals.clicks
    <2>1. Daily(table, L, from - days, to).clicks
          = Daily(table, L, from - days, from - 1).clicks + Daily(table, L, from, to).clicks
        BY <1>1, WindowsJoin
    <2>2. QED BY <1>2, <1>3, <1>4, <2>1
<1>15. report.change.clicks = {} <=> before.totals.clicks = 0
    <2>1. report.change.clicks = Against(clicks, before.totals.clicks)
        BY <1>2, <1>3
    <2>2. QED BY <2>1 DEF Against
<1>16. Cardinality(report.peak) = IF clicks = 0 THEN 0 ELSE 1
    <2>1. report.peak = PeakOf(f, from..to)
        BY <1>2, <1>5 DEF PeakOf
    <2> DEFINE n == clicks
    <2>2. n \in Nat /\ n = SumOver(f, from..to)
        BY <1>6, <1>7
    <2> HIDE DEF n
    <2>3. Cardinality(PeakOf(f, from..to)) = IF n = 0 THEN 0 ELSE 1
        BY <1>1, <1>7, <2>2, PeakIs
    <2>4. QED BY <2>1, <2>3 DEF n
<1>17. ~scope.includeDeleted => DOMAIN report.topLinks \cap scope.trash = {}
    <2>1. ~scope.includeDeleted => L \cap scope.trash = {}
        BY DEF InScope, L
    <2>2. QED BY <1>13, <2>1
<1>18. QED
    BY <1>9, <1>11, <1>12, <1>13, <1>14, <1>15, <1>16, <1>17
       DEF ReportAddsUp, report, before, both, rows, days, L

\* Any counts of the keys there are, and any report of any rollup over a window
\* of its days that does not end before it starts.
AnyScope == [trash : SUBSET {"one", "two"}, includeDeleted : BOOLEAN,
             linkIds : SUBSET {"one", "two"}, domain : {"any", "one", "two"}]
ReportsTo(last) ==
    {v \in [of : {"report"}, table : Tables(last), raw : [RowsTo(last) -> [Countries -> Nat]],
            late : [RowsTo(last) -> Nat], scope : AnyScope, from : 0..last, to : 0..last] :
        v.from <= v.to /\ v.late \in LeftOf(last, v.table, v.raw)}
AnyView ==
    [of : {"breakdown"}, counts : [Countries -> Nat]] \cup UNION {ReportsTo(last) : last \in Nat}

\* Every breakdown keeps its clicks and shares out 100.0%, and every figure of every
\* report agrees with the others.
THEOREM ReportsAlwaysAddUp == view \in AnyView => ReportsAddUp
<1> SUFFICES ASSUME view \in AnyView PROVE ReportsAddUp
    OBVIOUS
<1>1. CASE view \in [of : {"breakdown"}, counts : [Countries -> Nat]]
    <2> DEFINE counts == view.counts
    <2>1. counts \in [Countries -> Nat] /\ view.of = "breakdown"
        BY <1>1
    <2> HIDE DEF counts
    <2>2. BreakdownAddsUp(counts)
        BY <2>1, BreakdownAlwaysAddsUp
    <2>3. QED BY <2>1, <2>2 DEF ReportsAddUp, counts
<1>2. CASE view \notin [of : {"breakdown"}, counts : [Countries -> Nat]]
    <2>1. PICK last \in Nat : view \in ReportsTo(last)
        BY <1>2 DEF AnyView
    <2> DEFINE table == view.table
               raw == view.raw
               late == view.late
               scope == view.scope
               from == view.from
               to == view.to
    <2>2. /\ view.of = "report" /\ table \in Tables(last) /\ scope.includeDeleted \in BOOLEAN
          /\ to \in 0..last /\ from \in 0..to /\ late \in LeftOf(last, table, raw)
        BY <2>1 DEF ReportsTo, AnyScope
    <2> HIDE DEF table, raw, late, scope, from, to
    <2>3. ReportAddsUp(table, raw, late, scope, from, to)
        BY <2>2, ReportAlwaysAddsUp
    <2>4. QED BY <2>2, <2>3 DEF ReportsAddUp, table, raw, late, scope, from, to
<1>3. QED BY <1>1, <1>2

\* The raw events a run draws are what is left of their rollup.
LEMMA RawIsLeft ==
    ASSUME NEW table \in Tables(2), NEW late \in Lates, FewRows = RowsTo(2)
    PROVE  late \in LeftOf(2, table, Raw(table, late))
<1>1. late \in [RowsTo(2) -> Nat] /\ \A at \in RowsTo(2) : at[2] < RawFrom => late[at] = 0
    <2>1. \A at \in RowsTo(2) : Late(at) \in Nat /\ (at[2] < RawFrom => Late(at) = 0)
        BY ReportConstants DEF Late, RowsTo
    <2>2. QED BY <2>1 DEF Lates
<1>2. DOMAIN table = RowsTo(2) /\ \A at \in RowsTo(2) : table[at].countries \in [Countries -> Nat]
    BY DEF Tables
<1>3. Raw(table, late) \in [RowsTo(2) -> [Countries -> Nat]]
    <2>1. ASSUME NEW at \in RowsTo(2), NEW k \in Countries
          PROVE  (IF at[2] < RawFrom THEN 0
                  ELSE table[at].countries[k] + (IF k = "other" THEN late[at] ELSE 0)) \in Nat
        BY <1>1, <1>2
    <2>2. QED BY <1>2, <2>1 DEF Raw
<1>4. ASSUME NEW at \in RowsTo(2), at[2] < RawFrom PROVE Total(Raw(table, late)[at]) = 0
    <2> DEFINE r == Raw(table, late)[at]
    <2>1. r = [k \in Countries |-> 0]
        BY <1>2, <1>4 DEF Raw
    <2> HIDE DEF r
    <2>2. SumOver(r, Countries) = 0
        BY <2>1, KeyFacts, SumOfTerms
    <2>3. QED BY <2>1, <2>2 DEF Total, r
<1>5. ASSUME NEW at \in RowsTo(2), ~(at[2] < RawFrom)
      PROVE  Total(Raw(table, late)[at]) = Total(table[at].countries) + late[at]
    <2> DEFINE r == Raw(table, late)[at]
               c == table[at].countries
               g == [k \in Countries |-> IF k = "other" THEN late[at] ELSE 0]
    <2>1. /\ r = [k \in Countries |-> c[k] + g[k]]
          /\ c \in [Countries -> Nat] /\ g \in [Countries -> Nat]
        BY <1>1, <1>2, <1>5 DEF Raw
    <2>2. g["other"] = late[at] /\ \A k \in Countries \ {"other"} : g[k] = 0
        BY KeyFacts
    <2> HIDE DEF r, c, g
    <2>3. IsFiniteSet(Countries) /\ "other" \in Countries
        BY KeyFacts
    <2>4. SumOver(r, Countries) = SumOver(c, Countries) + SumOver(g, Countries)
        BY <2>1, <2>3, SumPlus
    <2>5. SumOver(g, Countries) = g["other"] + SumOver(g, Countries \ {"other"})
        BY <2>1, <2>3, SumWithout
    <2>6. IsFiniteSet(Countries \ {"other"})
        BY <2>3, FS_Subset
    <2>7. SumOver(g, Countries \ {"other"}) = 0
        BY <2>1, <2>2, <2>6, SumOfTerms
    <2>8. late[at] \in Nat
        BY <1>1
    <2>9. DOMAIN r = Countries /\ DOMAIN c = Countries
        BY <2>1
    <2>10. QED BY <2>2, <2>4, <2>5, <2>7, <2>8, <2>9 DEF Total, r, c
<1>6. RawFrom \in Nat /\ \A at \in RowsTo(2) : at[2] \in Nat
    BY ReportConstants DEF RowsTo
<1>7. QED BY <1>1, <1>3, <1>4, <1>5, <1>6 DEF LeftOf

\* The reports a run draws are among them, whatever the keys.
LEMMA InputsAreViews == ReportInputs \subseteq AnyView
<1> SUFFICES ASSUME NEW v \in ReportInputs PROVE v \in AnyView
    OBVIOUS
<1>1. CASE v \in [of : {"breakdown"}, counts : [Countries -> 0..4]]
    <2>1. [Countries -> 0..4] \subseteq [Countries -> Nat]
        OBVIOUS
    <2>2. QED BY <1>1, <2>1 DEF AnyView
<1>2. ASSUME NEW table \in [FewRows -> RollupRows], NEW late \in Lates, NEW scope \in Scopes, NEW from \in 0..2,
             v = [of |-> "report", table |-> table, raw |-> Raw(table, late), late |-> late,
                  scope |-> scope, from |-> from, to |-> 2]
      PROVE  v \in AnyView
    <2>1. RollupRows \subseteq [countries : [Countries -> Nat], visitDays : Nat, bots : Nat]
        BY DEF RollupRows, RollupRow
    <2>2. table \in Tables(2) /\ FewRows = RowsTo(2)
        BY <2>1 DEF Tables, RowsTo, FewRows
    <2>6. late \in LeftOf(2, table, Raw(table, late))
        BY <2>2, RawIsLeft
    <2>3. Scopes \subseteq AnyScope
        <3> DEFINE P == SUBSET {"one", "two"}
                   D == {"any", "one", "two"}
        <3>1. {} \in P /\ {"one"} \in P /\ {"two"} \in P /\ {"one", "two"} \in P /\ "any" \in D /\ "two" \in D
            OBVIOUS
        <3>2. TRUE \in BOOLEAN /\ FALSE \in BOOLEAN
            OBVIOUS
        <3> DEFINE R == [trash : P, includeDeleted : BOOLEAN, linkIds : P, domain : D]
        <3>3. Wide \in R
            <4> HIDE DEF P, D
            <4>1. QED BY <3>1, <3>2 DEF Wide
        <3>4. ASSUME NEW w \in R, NEW p \in P, NEW b \in BOOLEAN, NEW d \in D
              PROVE  /\ [w EXCEPT !.trash = p] \in R /\ [w EXCEPT !.trash = p, !.includeDeleted = b] \in R
                     /\ [w EXCEPT !.linkIds = p] \in R /\ [w EXCEPT !.linkIds = p, !.domain = d] \in R
            <4> HIDE DEF P, D
            <4>1. QED OBVIOUS
        <3> HIDE DEF P, D, R
        <3>5. \A narrow \in Scopes : narrow \in R
            <4>1. /\ [Wide EXCEPT !.trash = {"two"}] \in R
                  /\ [Wide EXCEPT !.trash = {"two"}, !.includeDeleted = TRUE] \in R
                  /\ [Wide EXCEPT !.linkIds = {}] \in R
                  /\ [Wide EXCEPT !.linkIds = {"one"}, !.domain = "two"] \in R
                BY <3>1, <3>2, <3>3, <3>4, Zenon
            <4>2. QED BY <3>3, <4>1, Zenon DEF Scopes
        <3>6. QED BY <3>5 DEF AnyScope, P, D, R
    <2>4. v \in ReportsTo(2)
        BY <1>2, <2>2, <2>3, <2>6 DEF ReportsTo, LeftOf
    <2>5. QED BY <2>4 DEF AnyView
<1>3. QED BY <1>1, <1>2 DEF ReportInputs

\* So are the samples, the databases and the addresses among those the other three speak of.
LEMMA InputsAreReadings == UsageInputs \subseteq AnyReading
<1> DEFINE A == Nat \cup {Unpriced, Silent}
           Answers == Costs \cup {Unpriced, Silent}
<1>1. Moments \subseteq Nat /\ Answers \subseteq A /\ 0 \in A
    BY UsageConstants
<1> HIDE DEF A, Answers
<1>2. ASSUME NEW r \in UsageInputs
      PROVE  /\ r \in [of: {"usage"}, times: Moments \X Moments \X Moments \X Moments,
                       answers: (Answers \X Answers \X Answers) \cup {<<0, 0, 0>>},
                       credentials: BOOLEAN, host: {"railway", "vps"}]
    BY <1>2, Zenon DEF UsageInputs, Answers
<1>3. ASSUME NEW r \in UsageInputs
      PROVE  r \in [of: {"usage"}, times: Nat \X Nat \X Nat \X Nat, answers: A \X A \X A,
                    credentials: BOOLEAN, host: {"railway", "vps"}]
    <2> DEFINE T == Moments \X Moments \X Moments \X Moments
               W == (Answers \X Answers \X Answers) \cup {<<0, 0, 0>>}
    <2>1. T \subseteq Nat \X Nat \X Nat \X Nat
        BY <1>1
    <2>2. W \subseteq A \X A \X A
        BY <1>1
    <2>3. r \in [of: {"usage"}, times: T, answers: W, credentials: BOOLEAN, host: {"railway", "vps"}]
        BY <1>2, <1>3
    <2> HIDE DEF T, W
    <2>4. QED BY <2>1, <2>2, <2>3
<1>4. QED BY <1>3 DEF AnyReading, A

LEMMA InputsAreData == GeoInputs \subseteq AnyDatum
<1>1. Edges28 \subseteq 0 .. (2^28 - 1)
    <2>1. 2^28 = 268435456 /\ 2^24 = 16777216
        BY SMT
    <2> DEFINE P == 2^28
               Q == 2^24
    <2>2. Edges28 = {0, 1, 255, Q - 1, Q, 90000000, P - 1}
        BY DEF Edges28
    <2> HIDE DEF P, Q
    <2>3. P = 268435456 /\ Q = 16777216
        BY <2>1 DEF P, Q
    <2>4. Edges28 \subseteq 0 .. (P - 1)
        <3> SUFFICES ASSUME NEW n \in Edges28 PROVE n \in 0 .. (P - 1)
            OBVIOUS
        <3>1. n = 0 \/ n = 1 \/ n = 255 \/ n = Q - 1 \/ n = Q \/ n = 90000000 \/ n = P - 1
            BY <2>2, SMT
        <3>2. n \in Int /\ 0 <= n /\ n <= P - 1
            BY <2>3, <3>1, SMT
        <3>3. P - 1 \in Int
            BY <2>3, SMT
        <3>4. QED BY <3>2, <3>3, SMT
    <2>5. QED BY <2>4 DEF P
<1>2. [Bits(3) -> 0..1] \subseteq [Bits(3) -> Nat]
    OBVIOUS
<1>3. [1..3 -> Files] \subseteq [1..3 -> AnyFile]
    BY DEF Files, AnyFile
<1>4. [of: {"record"}, left: Edges28, right: Edges28] \subseteq AnyDatum
    <2> DEFINE E == 0 .. (2^28 - 1)
    <2>1. Edges28 \subseteq E
        BY <1>1
    <2>2. [of: {"record"}, left: E, right: E] \subseteq AnyDatum
        BY DEF AnyDatum
    <2> HIDE DEF E
    <2>3. QED BY <2>1, <2>2
<1>5. [of: {"tree"}, answers: [Bits(3) -> 0..1]] \subseteq AnyDatum
    <2> DEFINE A == [Bits(3) -> Nat]
               B == [Bits(3) -> 0..1]
    <2>1. [of: {"tree"}, answers: A] \subseteq AnyDatum
        BY DEF AnyDatum
    <2>2. B \subseteq A
        BY <1>2
    <2> HIDE DEF A, B
    <2>3. [of: {"tree"}, answers: B] \subseteq AnyDatum
        BY <2>1, <2>2
    <2>4. QED BY <2>3 DEF B
<1>6. [of: {"archive"}, files: [1..3 -> Files], cut: {0, 1, 513}] \subseteq AnyDatum
    <2> DEFINE A == [1..3 -> AnyFile]
               B == [1..3 -> Files]
               C == {0, 1, 513}
    <2>1. [of: {"archive"}, files: A, cut: Nat] \subseteq AnyDatum
        BY DEF AnyDatum
    <2>2. B \subseteq A /\ C \subseteq Nat
        BY <1>3
    <2> HIDE DEF A, B, C
    <2>3. [of: {"archive"}, files: B, cut: C] \subseteq AnyDatum
        BY <2>1, <2>2
    <2>4. QED BY <2>3 DEF B, C
<1> DEFINE a == {0, 1, 10, 11, 100, 126, 127, 128, 169, 172, 192, 198, 203, 223, 224, 255}
           b == {0, 15, 16, 17, 18, 19, 20, 31, 32, 51, 63, 64, 127, 128, 168, 254}
           c == {0, 1, 2, 3, 100, 113}
<1>7. [of: {"address"}, a: a, b: b, c: c] \subseteq AnyDatum
    <2> DEFINE O == 0..255
    <2>1. [of: {"address"}, a: O, b: O, c: O] \subseteq AnyDatum
        BY ZenonT(60) DEF AnyDatum
    <2>2. a \subseteq O /\ b \subseteq O /\ c \subseteq O
        OBVIOUS
    <2> HIDE DEF O, a, b, c
    <2>3. QED BY <2>1, <2>2
<1>8. /\ [of: {"pointer"}, width: 0..2, low: 0..7, tail: {"first", "last"}] \subseteq AnyDatum
      /\ [of: {"size"}, short: 0..30] \subseteq AnyDatum
      /\ [of: {"merge"}, answers: [1..2 -> [throws: BOOLEAN, has: SUBSET {"country", "asn"}]]] \subseteq AnyDatum
    BY ZenonT(60) DEF AnyDatum
<1>9. GeoInputs =
        [of: {"pointer"}, width: 0..2, low: 0..7, tail: {"first", "last"}] \cup
        [of: {"size"}, short: 0..30] \cup
        [of: {"record"}, left: Edges28, right: Edges28] \cup
        [of: {"tree"}, answers: [Bits(3) -> 0..1]] \cup
        [of: {"address"}, a: a, b: b, c: c] \cup
        [of: {"merge"}, answers: [1..2 -> [throws: BOOLEAN, has: SUBSET {"country", "asn"}]]] \cup
        [of: {"archive"}, files: [1..3 -> Files], cut: {0, 1, 513}]
    BY DEF GeoInputs
<1> DEFINE A1 == [of: {"pointer"}, width: 0..2, low: 0..7, tail: {"first", "last"}]
           A2 == [of: {"size"}, short: 0..30]
           A3 == [of: {"record"}, left: Edges28, right: Edges28]
           A4 == [of: {"tree"}, answers: [Bits(3) -> 0..1]]
           A5 == [of: {"address"}, a: a, b: b, c: c]
           A6 == [of: {"merge"}, answers: [1..2 -> [throws: BOOLEAN, has: SUBSET {"country", "asn"}]]]
           A7 == [of: {"archive"}, files: [1..3 -> Files], cut: {0, 1, 513}]
<1>10. GeoInputs = A1 \cup A2 \cup A3 \cup A4 \cup A5 \cup A6 \cup A7
    BY <1>9
<1>11. /\ A1 \subseteq AnyDatum /\ A2 \subseteq AnyDatum /\ A3 \subseteq AnyDatum /\ A4 \subseteq AnyDatum
       /\ A5 \subseteq AnyDatum /\ A6 \subseteq AnyDatum /\ A7 \subseteq AnyDatum
    BY <1>4, <1>5, <1>6, <1>7, <1>8
<1> HIDE DEF A1, A2, A3, A4, A5, A6, A7
<1>12. QED BY <1>10, <1>11

\* (Destinations as built and forwarding headers are VisitorsFillGaps' inputs.)
LEMMA InputsAreRules == {r \in EditorInputs : r.of \in {"paste", "form", "root", "link"}} \subseteq AnyRule
<1> SUFFICES ASSUME NEW r \in EditorInputs, r.of \in {"paste", "form", "root", "link"} PROVE r \in AnyRule
    OBVIOUS
<1> DEFINE G == UNION {[K -> Texts] : K \in SUBSET Keys}
           W == Keys \X Texts
           E == (Keys \cup {Blank}) \X Texts
           Kinds == {"empty", "invalid", "scheme", "web"}
           Hosts == {"none", "ours", "theirs"}
<1>1. <<>> \in G /\ [Utms -> Texts] \subseteq G
    <2>1. <<>> \in [{} -> Texts] /\ {} \in SUBSET Keys /\ Utms \in SUBSET Keys
        BY DEF Keys
    <2>2. QED BY <2>1
<1>2. <<>> \in Fields
    <2>1. <<>> \in [{} -> Texts] /\ {} \in SUBSET Utms
        OBVIOUS
    <2>2. QED BY <2>1 DEF Fields
<1>3. Queries \subseteq Seq(W) /\ UNION {[1..n -> E] : n \in 0..2} \subseteq Seq(E) /\ <<>> \in Seq(E)
    <2>1. \A n \in Nat : [1..n -> W] \subseteq Seq(W) /\ [1..n -> E] \subseteq Seq(E)
        <3> HIDE DEF W, E
        <3>1. QED OBVIOUS
    <2>2. Queries = UNION {[1..n -> W] : n \in 1..3} /\ <<>> \in [1..0 -> E]
        BY DEF Queries
    <2> HIDE DEF E, W
    <2>3. UNION {[1..n -> W] : n \in 1..3} \subseteq Seq(W)
        <3>1. \A n \in 1..3 : [1..n -> W] \subseteq Seq(W)
            BY <2>1
        <3>2. QED BY <3>1, Zenon
    <2>4. UNION {[1..n -> E] : n \in 0..2} \subseteq Seq(E)
        <3>1. \A n \in 0..2 : [1..n -> E] \subseteq Seq(E)
            BY <2>1
        <3>2. QED BY <3>1, Zenon
    <2>5. <<>> \in Seq(E)
        OBVIOUS
    <2>6. QED BY <2>2, <2>3, <2>4, <2>5
<1> HIDE DEF G, W, E
<1>4. ASSUME NEW u \in Urls
      PROVE  u \in [kind: Kinds, host: Hosts, query: G] /\ (u.kind = "web" => u.host # "none")
    BY <1>1 DEF Urls
<1> HIDE DEF Kinds, Hosts
<1>5. CASE r.of = "link"
    BY <1>5 DEF EditorInputs, RuleInputs, AnyRule
<1>6. CASE r.of = "paste"
    BY <1>3, <1>6 DEF EditorInputs, RuleInputs, AnyRule, W
<1>7. CASE r.of = "root"
    BY <1>4, <1>7 DEF EditorInputs, RuleInputs, AnyRule, AnyUrl, G, Kinds, Hosts
<1>8. CASE r.of = "form"
    <2> DEFINE Dated == {[Typed EXCEPT !.expires = Clock(minute)] : minute \in Minutes}
    <2>1. /\ r.form \in Forms \cup Dated /\ r.site \in [fallback: {"shared"}]
          /\ r.now = 30 /\ r.zone \in Zones
          /\ r.lapse \in {Never} \cup {On(second) : second \in Seconds}
          /\ r = [of |-> "form", form |-> r.form, site |-> r.site, now |-> r.now, zone |-> r.zone, lapse |-> r.lapse]
        <3>1. On(-90) \in {On(second) : second \in Seconds} /\ 0 \in Zones
            BY DEF Seconds, Zones
        <3> HIDE DEF Dated
        <3>2. QED BY <1>8, <3>1 DEF EditorInputs, RuleInputs, Dated
    <2>4. r.now \in Int /\ r.zone \in Int /\ r.lapse \in AnyDate
        BY <2>1 DEF Zones, AnyDate, Never, On, Seconds
    <2>2. Forms \cup Dated \subseteq AnyForm
        <3> DEFINE U == [kind: Kinds, host: Hosts, query: G]
                   Lapses == [kind: {"none", "garbage", "at"}, minute: Int]
                   Few == {NoDate, Clock(-1), Clock(1), [NoDate EXCEPT !.kind = "garbage"]}
                   F == {form \in [slug: Slugs, target: U, utms: Fields, params: Seq(E),
                                   expires: Lapses, fallback: U] :
                           form.target.kind = "web" => form.target.host # "none"}
        <3>1. ASSUME NEW f \in [slug: Slugs, target: Urls, utms: {<<>>}, params: {<<>>}, expires: Few, fallback: Urls]
              PROVE  f \in F
            <4>3. Few \subseteq Lapses
                BY DEF NoDate, Clock
            <4> HIDE DEF U, Lapses, Few
            <4>1. f.target \in U /\ f.fallback \in U /\ (f.target.kind = "web" => f.target.host # "none")
                BY <1>4 DEF U
            <4>2. QED BY <1>2, <1>3, <4>1, <4>3
        <3>2. Typed \in F
            <4>1. [word |-> "promo", lower |-> TRUE] \in Slugs
                BY DEF Slugs, Words
            <4>2. [kind |-> "web", host |-> "theirs", query |-> <<>>] \in U /\ [kind |-> "empty", host |-> "none", query |-> <<>>] \in U
                BY <1>1 DEF Kinds, Hosts
            <4>3. NoDate \in Lapses
                BY DEF NoDate
            <4> HIDE DEF U, Lapses
            <4>4. QED BY <1>2, <1>3, <4>1, <4>2, <4>3 DEF Typed
        <3>3. ASSUME NEW query \in {<<>>} \cup [Utms -> Texts], NEW utms \in Fields,
                     NEW params \in UNION {[1..n -> E] : n \in 0..2}
              PROVE  [Typed EXCEPT !.target.query = query, !.utms = utms, !.params = params] \in F
            <4>1. query \in G /\ params \in Seq(E)
                BY <1>1, <1>3
            <4> HIDE DEF Lapses
            <4>2. QED BY <3>2, <4>1
        <3> HIDE DEF F
        <3>4. Forms \subseteq F
            <4> DEFINE S == [slug: Slugs, target: Urls, utms: {<<>>}, params: {<<>>}, expires: Few, fallback: Urls]
                       Q == {<<>>} \cup [Utms -> Texts]
                       M == UNION {[1..n -> E] : n \in 0..2}
                       V(query, utms, params) ==
                           [Typed EXCEPT !.target.query = query, !.utms = utms, !.params = params]
                       Z == {V(query, utms, params) : query \in Q, utms \in Fields, params \in M}
            <4>1. Forms = S \cup Z
                BY DEF Forms, E
            <4>2. S \subseteq F
                BY <3>1
            <4> HIDE DEF S, Q, M
            <4>3. \A query \in Q, utms \in Fields, params \in M : V(query, utms, params) \in F
                BY <3>3 DEF Q, M
            <4>4. Z \subseteq F
                <5> HIDE DEF V
                <5>1. QED BY <4>3
            <4> HIDE DEF Z
            <4>5. QED BY <4>1, <4>2, <4>4
        <3>6. Dated \subseteq F
            <4>1. \A minute \in Minutes : Clock(minute) \in Lapses
                BY DEF Minutes, Clock
            <4> HIDE DEF Lapses
            <4>2. \A e \in Lapses : [Typed EXCEPT !.expires = e] \in F
                BY <3>2 DEF F
            <4>3. QED BY <4>1, <4>2
        <3> HIDE DEF Dated
        <3>5. QED BY <3>4, <3>6 DEF F, AnyForm, AnyUrl, U, Lapses, G, E, Kinds, Hosts
    <2>3. r.form \in AnyForm /\ r.site \in [fallback: {"none", "shared"}]
        BY <2>1, <2>2
    <2>5. QED BY <2>1, <2>3, <2>4 DEF AnyRule
<1>9. QED BY <1>5, <1>6, <1>7, <1>8
=============================================================================
