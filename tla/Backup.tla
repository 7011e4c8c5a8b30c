-------------------------------- MODULE Backup --------------------------------
(***************************************************************************)
(* Export and restore (scripts/backup.mjs) beside a panel in use: the      *)
(* export reads one table after another, with no transaction around them;  *)
(* the restore is one transaction that merges by natural identity.  With   *)
(* it, what it could get wrong: live and deleted links of one name         *)
(* (panel/app/lib/links.server.ts), schedules that name links, and the     *)
(* permission model (panel/app/lib/permission.server.ts).                  *)
(*                                                                         *)
(* A domain has one host; a link's name is its host and its slug, and its  *)
(* id its place in the sequence.  Pending schedules have one moment and    *)
(* one patch, so a schedule is the set of its links.                       *)
(***************************************************************************)
EXTENDS Naturals, Sequences, FiniteSets

CONSTANTS
    Sites, Slugs, Texts,
    People,       \* e-mail addresses
    Databases,    \* databases to start from, and to restore into
    MaxLinks,     \* bound on rows of links
    MaxChanges,   \* bound on edits by the panel
    MaxMoves      \* bound on moves to another installation, and on restores

VARIABLES
    db,       \* [sites, links, schedules, people, grants]
    file,     \* the same as the export wrote them, by name
    step,     \* the table the export reads next, 0 when none is under way
    origin,   \* the database as the export began
    torn,     \* was it changed while the export ran
    changes, moves

backup == <<db, file, step, origin, torn, changes, moves>>

Names == Sites \X Slugs
NoOne == [role |-> "none", username |-> "none"]
Empty == [sites |-> {}, links |-> <<>>, schedules |-> {}, people |-> [p \in People |-> NoOne], grants |-> {}]
Tables == <<"sites", "links", "schedules", "people", "grants">>

LiveIds(links) == {i \in DOMAIN links : ~links[i].trash}
IdsOf(links, names) == {i \in LiveIds(links) : links[i].name \in names}

Rows == [name: Names, text: Texts, trash: BOOLEAN]
Grantable == {"link:create", "domain:update"}
Grants == [who: People, ability: Grantable, scope: Sites \cup {"all"}]
Persons == [role: {"owner", "admin", "editor", "viewer"}, username: STRING]

\* What the tables' constraints see to, and that nothing removes a domain or a
\* person here: a link is on a domain, live ones have different names, a schedule
\* names links, no two people have one username, and a grant is for somebody, and
\* for a domain or for every one.
Uniquely(links) == \A i, j \in LiveIds(links) : links[i].name = links[j].name => i = j
Clash(people) == \E p, q \in People : /\ p # q /\ people[p] # NoOne
                                      /\ people[p].username = people[q].username
Sane(d) ==
    /\ d \in [sites: SUBSET Sites, links: Seq(Rows), schedules: SUBSET ((SUBSET DOMAIN d.links) \ {{}}),
              people: [People -> Persons \cup {NoOne}], grants: SUBSET Grants]
    /\ \A i \in DOMAIN d.links : d.links[i].name[1] \in d.sites
    /\ Uniquely(d.links)
    /\ ~Clash(d.people)
    /\ \A g \in d.grants : d.people[g.who] # NoOne /\ g.scope \in d.sites \cup {"all"}

ASSUME BackupConstants ==
    /\ {MaxLinks, MaxChanges, MaxMoves} \subseteq Nat
    /\ \A d \in Databases : Sane(d)

-----------------------------------------------------------------------------
(* Permissions.                                                            *)

Abilities == {"link:create", "domain:update", "user:update"}
Baseline(role) ==
    CASE role \in {"owner", "admin"} -> Abilities
      [] role = "editor" -> {"link:create"}
      [] role \in {"viewer", "none"} -> {}

\* can: the role, or a grant for this domain or for every one.
Can(d, who, ability, site) ==
    \/ ability \in Baseline(d.people[who].role)
    \/ \E g \in d.grants : g.who = who /\ g.ability = ability /\ g.scope \in {site, "all"}

-----------------------------------------------------------------------------
(* The panel.                                                              *)

Change(d) ==
    /\ changes < MaxChanges /\ changes' = changes + 1
    /\ db' = d
    /\ torn' = (torn \/ step # 0)
    /\ UNCHANGED <<file, step, origin, moves>>

\* A domain comes with provisioning.
AddSite(s) == s \notin db.sites /\ Change([db EXCEPT !.sites = @ \cup {s}])

\* createLink: the unique index looks only at live rows.
CreateLink(name, text) ==
    /\ name[1] \in db.sites /\ IdsOf(db.links, {name}) = {} /\ Len(db.links) < MaxLinks
    /\ Change([db EXCEPT !.links = Append(@, [name |-> name, text |-> text, trash |-> FALSE])])

\* updateLink, of the one column told apart here.
UpdateLink(i, text) ==
    /\ i \in LiveIds(db.links) /\ text # db.links[i].text
    /\ Change([db EXCEPT !.links[i].text = text])

\* bulkSoftDelete
Trash(i) == i \in LiveIds(db.links) /\ Change([db EXCEPT !.links[i].trash = TRUE])

\* createSchedule
Schedule(S) ==
    /\ S # {} /\ S \subseteq LiveIds(db.links) /\ S \notin db.schedules
    /\ Change([db EXCEPT !.schedules = @ \cup {S}])

\* addGrant and removeGrant; a scope is one of the panel's domains, or all.
AddGrant(g) ==
    /\ db.people[g.who] # NoOne /\ g.scope \in db.sites \cup {"all"} /\ g \notin db.grants
    /\ Change([db EXCEPT !.grants = @ \cup {g}])
RemoveGrant(g) == g \in db.grants /\ Change([db EXCEPT !.grants = @ \ {g}])

-----------------------------------------------------------------------------
(* The export.                                                             *)

\* A schedule goes out as the names of the rows its ids still find, one for each
\* row, deleted ones included.
Targets(d, S) == [names |-> {d.links[i].name : i \in S}, count |-> Cardinality(S)]

RowsOf(d, table) == IF table = "schedules" THEN {Targets(d, S) : S \in d.schedules} ELSE d[table]

\* One table of exportAll, the first of which begins the file anew.
ExportTable ==
    LET next == IF step = 0 THEN 1 ELSE step IN
    /\ file' = [(IF step = 0 THEN Empty ELSE file) EXCEPT ![Tables[next]] = RowsOf(db, Tables[next])]
    /\ step' = IF next = Len(Tables) THEN 0 ELSE next + 1
    /\ origin' = IF step = 0 THEN db ELSE origin
    /\ torn' = (step # 0 /\ torn)
    /\ UNCHANGED <<db, changes, moves>>

-----------------------------------------------------------------------------
(* The restore.                                                            *)

\* INSERT ... SELECT ... ON CONFLICT DO NOTHING: a row whose domain is not there
\* goes nowhere, and the only index on names is over live rows.
InsertLink(sites, links, row) ==
    IF row.name[1] \in sites /\ (row.trash \/ IdsOf(links, {row.name}) = {})
    THEN Append(links, row) ELSE links

\* Every row of the file in its turn.
Merged(sites, links, rows) ==
    LET after[n \in 0..Len(rows)] ==
            IF n = 0 THEN links ELSE InsertLink(sites, after[n - 1], rows[n])
    IN  after[Len(rows)]

\* (mutant: it is restored on the links that did survive)
BoundAny(links, s) == IdsOf(links, s.names) # {}

\* A schedule is restored only when as many links are found as it had targets.
Bound(links, s) == s.count > 0 /\ Cardinality(IdsOf(links, s.names)) = s.count

\* importAll, on d with f.  A username that somebody else has refuses the row,
\* and with it the whole.
Restored(d, f) ==
    LET sites  == d.sites \cup f.sites
        people == [p \in People |-> IF d.people[p] = NoOne THEN f.people[p] ELSE d.people[p]]
        links  == Merged(sites, d.links, f.links)
        grants == {[g EXCEPT !.scope = IF @ \in sites THEN @ ELSE "all"] :
                      g \in {g \in f.grants : people[g.who] # NoOne}}
    IN  IF Clash(people) THEN d
        ELSE [sites |-> sites, people |-> people, links |-> links,
              grants |-> d.grants \cup grants,
              schedules |-> d.schedules \cup
                            {IdsOf(links, s.names) : s \in {s \in f.schedules : Bound(links, s)}}]

Move == moves < MaxMoves /\ moves' = moves + 1

Restore(dryRun) ==
    /\ step = 0 /\ Move
    /\ db' = IF dryRun THEN db ELSE Restored(db, file)
    /\ UNCHANGED <<file, step, origin, torn, changes>>

\* The file is carried to another installation.
Reinstall ==
    /\ step = 0 /\ Move
    /\ db' \in Databases \ {db}
    /\ UNCHANGED <<file, step, origin, torn, changes>>

BackupInit ==
    /\ db \in Databases
    /\ file = Empty /\ step = 0 /\ origin = Empty /\ torn = FALSE
    /\ changes = 0 /\ moves = 0

BackupNext ==
    \/ \E s \in Sites : AddSite(s)
    \/ \E name \in Names, text \in Texts : CreateLink(name, text)
    \/ \E i \in DOMAIN db.links : Trash(i) \/ \E text \in Texts : UpdateLink(i, text)
    \/ \E S \in SUBSET DOMAIN db.links : Schedule(S)
    \/ \E who \in People, ability \in Grantable, scope \in Sites \cup {"all"} :
          LET g == [who |-> who, ability |-> ability, scope |-> scope]
          IN  AddGrant(g) \/ RemoveGrant(g)
    \/ ExportTable
    \/ \E dryRun \in BOOLEAN : Restore(dryRun)
    \/ Reinstall

BackupSpec == BackupInit /\ [][BackupNext]_backup

-----------------------------------------------------------------------------
(* Properties.                                                             *)

BackupTypeOK ==
    /\ Sane(db)
    /\ step \in 0..Len(Tables) /\ torn \in BOOLEAN
    /\ {changes, moves} \subseteq Nat

\* What a restore leaves of what was there: all of it, as it was.
Preserved(before, after) ==
    /\ before.sites \subseteq after.sites /\ before.grants \subseteq after.grants
    /\ before.schedules \subseteq after.schedules
    /\ \A i \in DOMAIN before.links : after.links[i] = before.links[i]
    /\ \A p \in People : before.people[p] # NoOne => after.people[p] = before.people[p]

LivePart(d) == [d EXCEPT !.links = {d.links[i] : i \in LiveIds(d.links)}]

\* What the comment on importAll promises (backup.mjs:145-152), as far as it
\* holds: a restore changes nothing that was there, whatever it is restored
\* into; restored once more it adds nothing but deleted links; a schedule comes
\* back only onto as many live links of its targets' names as it had; and the
\* file of a database nobody changed meanwhile gives nobody an ability in a
\* domain that they had neither there nor here, and rebuilds that database on an
\* empty one, but for schedules that had a deleted link.
RestoreMerges ==
    step = 0 /\ file # Empty =>
        LET once  == Restored(db, file)
            fresh == Restored(Empty, file)
        IN  /\ Preserved(db, once)
            /\ LivePart(Restored(once, file)) = LivePart(once)
            /\ \A S \in once.schedules \ db.schedules : \E s \in file.schedules :
                  /\ S \subseteq LiveIds(once.links) /\ Cardinality(S) = s.count
                  /\ {once.links[i].name : i \in S} = s.names
            /\ ~torn =>
                  /\ \A p \in People, a \in Abilities, s \in Sites :
                        Can(once, p, a, s) => Can(db, p, a, s) \/ Can(origin, p, a, s)
                  /\ [fresh EXCEPT !.schedules = {}] = [origin EXCEPT !.schedules = {}]
                  /\ {S \in origin.schedules : S \subseteq LiveIds(origin.links)} \subseteq fresh.schedules

-----------------------------------------------------------------------------
(* Why: an inductive invariant.                                            *)

\* A file can be restored, whatever it is torn between: its schedules ask for no
\* fewer links than they have names.
Fitting(f) ==
    /\ f \in [sites: SUBSET Sites, links: Seq(Rows), schedules: SUBSET [names: SUBSET Names, count: Nat],
              people: [People -> Persons \cup {NoOne}], grants: SUBSET Grants]
    /\ \A s \in f.schedules : IsFiniteSet(s.names) /\ Cardinality(s.names) <= s.count

\* What was written of a database nobody changed meanwhile is what it holds.
FileFollows ==
    ~torn /\ (step # 0 \/ file # Empty) =>
        /\ Sane(origin) /\ (step # 0 => origin = db)
        /\ \A n \in DOMAIN Tables : step = 0 \/ n < step => file[Tables[n]] = RowsOf(origin, Tables[n])

BInv == BackupTypeOK /\ Fitting(file) /\ FileFollows
=============================================================================
