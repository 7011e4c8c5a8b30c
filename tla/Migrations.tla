----------------------------- MODULE Migrations -----------------------------
(***************************************************************************)
(* Bringing the schema up to date before serving (db/migrate.mjs, as       *)
(* panel/start.mjs runs it): several containers start at once, some with   *)
(* fewer migrations than others, and are started again when they die.      *)
(* Migrations are numbered in the order of their file names.               *)
(***************************************************************************)
EXTENDS Naturals, FiniteSets

CONSTANTS
    Containers,
    Ships,     \* [Containers -> how many migrations each has]
    MaxFaults  \* bound on statements that fail and containers that crash

\* Some container has the most migrations.
ASSUME MigrationConstants ==
    /\ Ships \in [Containers -> Nat] /\ MaxFaults \in Nat
    /\ \E c \in Containers : \A d \in Containers : Ships[d] <= Ships[c]

VARIABLES
    boot,    \* [Containers -> "down", "migrating", "serving"]
    done,    \* [Containers -> what the ledger held when it was read, and since]
    tx,      \* [Containers -> the migration whose transaction is open, or 0]
    ledger,  \* versions recorded in schema_migrations
    schema,  \* [migrations -> how many times its statements took effect]
    faults

migrations == <<boot, done, tx, ledger, schema, faults>>

Versions == 1..(CHOOSE n \in {Ships[c] : c \in Containers} : \A c \in Containers : Ships[c] <= n)

\* appliedVersions
ReadLedger(c) ==
    /\ boot[c] = "down"
    /\ boot' = [boot EXCEPT ![c] = "migrating"]
    /\ done' = [done EXCEPT ![c] = ledger]
    /\ UNCHANGED <<tx, ledger, schema, faults>>

Todo(c) == {v \in 1..Ships[c] : v \notin done[c]}

\* BEGIN and the statements.  They wait for whoever has the same ones open, and
\* fail on a schema that has them already, whether they say so themselves or the
\* ledger's key does.
Apply(c) ==
    /\ boot[c] = "migrating" /\ tx[c] = 0 /\ Todo(c) # {}
    /\ LET v == CHOOSE v \in Todo(c) : \A w \in Todo(c) : v <= w IN
       /\ \A d \in Containers : tx[d] # v
       /\ IF v \in ledger
            THEN boot' = [boot EXCEPT ![c] = "down"] /\ UNCHANGED tx
            ELSE tx' = [tx EXCEPT ![c] = v] /\ UNCHANGED boot
    /\ UNCHANGED <<done, ledger, schema, faults>>

\* (mutant: the version is recorded first, on a connection of its own)
CommitRecordedFirst(c) ==
    /\ tx[c] # 0
    /\ ledger' = ledger \cup {tx[c]}
    /\ IF tx[c] \in ledger
         THEN /\ schema' = [schema EXCEPT ![tx[c]] = @ + 1]
              /\ done' = [done EXCEPT ![c] = @ \cup {tx[c]}]
              /\ tx' = [tx EXCEPT ![c] = 0]
         ELSE UNCHANGED <<schema, done, tx>>
    /\ UNCHANGED <<boot, faults>>

\* The ledger's INSERT and the COMMIT.
Commit(c) ==
    /\ tx[c] # 0
    /\ ledger' = ledger \cup {tx[c]}
    /\ schema' = [schema EXCEPT ![tx[c]] = @ + 1]
    /\ done' = [done EXCEPT ![c] = @ \cup {tx[c]}]
    /\ tx' = [tx EXCEPT ![c] = 0]
    /\ UNCHANGED <<boot, faults>>

\* (mutant: a schema with more than it ships is refused)
ServeMatching(c) ==
    /\ boot[c] = "migrating" /\ tx[c] = 0 /\ done[c] = 1..Ships[c]
    /\ boot' = [boot EXCEPT ![c] = "serving"]
    /\ UNCHANGED <<done, tx, ledger, schema, faults>>

\* Nothing is left to apply; what a newer container applied is not looked at.
Serve(c) ==
    /\ boot[c] = "migrating" /\ tx[c] = 0 /\ Todo(c) = {}
    /\ boot' = [boot EXCEPT ![c] = "serving"]
    /\ UNCHANGED <<done, tx, ledger, schema, faults>>

\* A statement fails, or the container dies: the transaction is rolled back, the
\* error ends the process, and the container is started again.
Dies(c) ==
    /\ boot[c] # "down"
    /\ faults < MaxFaults /\ faults' = faults + 1
    /\ boot' = [boot EXCEPT ![c] = "down"]
    /\ tx' = [tx EXCEPT ![c] = 0]
    /\ UNCHANGED <<done, ledger, schema>>

MigrationsInit ==
    /\ boot = [c \in Containers |-> "down"]
    /\ done = [c \in Containers |-> {}]
    /\ tx = [c \in Containers |-> 0]
    /\ ledger = {} /\ schema = [v \in Versions |-> 0]
    /\ faults = 0

Moves(c) == ReadLedger(c) \/ Apply(c) \/ Commit(c) \/ Serve(c)
MigrationsNext == \E c \in Containers : Moves(c) \/ Dies(c)

\* A container that died is started again, and the database answers.
MigrationsFairness == \A c \in Containers : WF_migrations(Moves(c))
MigrationsSpec == MigrationsInit /\ [][MigrationsNext]_migrations /\ MigrationsFairness

-----------------------------------------------------------------------------
(* Properties.                                                             *)

MigrationsTypeOK ==
    /\ boot \in [Containers -> {"down", "migrating", "serving"}]
    /\ done \in [Containers -> SUBSET Versions]
    /\ tx \in [Containers -> 0..Cardinality(Versions)]
    /\ ledger \subseteq Versions
    /\ schema \in [Versions -> Nat]
    /\ faults \in 0..MaxFaults

\* However many containers migrate at once and wherever they die, the ledger
\* tells what the schema has: every version recorded took effect once and no
\* other did, in order and without gaps; and a container serves only on a schema
\* that has all it ships.
LandsWhole ==
    /\ \A v \in Versions : schema[v] = IF v \in ledger THEN 1 ELSE 0
    /\ \A v \in ledger : 1..v \subseteq ledger
    /\ \A c \in Containers : boot[c] = "serving" => 1..Ships[c] \subseteq ledger

\* Once nothing else fails, every container comes up and stays, the ones that
\* lost a race for a migration and the ones older than the schema included.
BootsEventually == <>[](\A c \in Containers : boot[c] = "serving")
=============================================================================
