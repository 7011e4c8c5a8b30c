---------------------------- MODULE MCInstallation ----------------------------
(***************************************************************************)
(* Setting an installation up and getting into it, one component at a      *)
(* time: a behaviour stages one of them, and the others stay as they       *)
(* start.  Outside its own stage every container has long been serving.    *)
(***************************************************************************)
EXTENDS MCAccounts, Sessions, SignInGuard, Migrations, Installer, ServiceOrder, Backup, Doctor, TLC

VARIABLE stage

all == <<stage, accounts, sessions, signin, migrations, installer, backup, patient, form>>

\* A container of an older release ships one migration fewer.
MCShips == [c \in Containers |-> IF c = "old" THEN 1 ELSE 2]
MCPlan == <<"project", "railway", "dns-record", "nothing">>

\* An installation in use, one whose only member is an owner's namesake, and one
\* with a link of the same name.
Staff(ana, bo) == "ana" :> ana @@ "bo" :> bo
Row(site, text) == [name |-> <<site, "x">>, text |-> text, trash |-> FALSE]
InUse == [Empty EXCEPT !.people = Staff([role |-> "owner", username |-> "ana"], [role |-> "viewer", username |-> "bo"]),
                       !.sites = {"one", "two"}, !.schedules = {{1, 2}},
                       !.links = <<Row("one", "old"), Row("two", "old")>>]
Namesake == [Empty EXCEPT !.people = Staff(NoOne, [role |-> "viewer", username |-> "ana"])]
SameLink == [Empty EXCEPT !.people = Staff(NoOne, [role |-> "viewer", username |-> "bo"]),
                          !.sites = {"one"}, !.links = <<Row("one", "new")>>]
MCDatabases == {InUse, Namesake, SameLink}

Migrated ==
    /\ boot = [c \in Containers |-> "serving"]
    /\ done = [c \in Containers |-> Versions] /\ tx = [c \in Containers |-> 0]
    /\ ledger = Versions /\ schema = [v \in Versions |-> 1]
    /\ faults = MaxFaults

InstallationInit ==
    /\ stage \in {"accounts", "sessions", "signin", "migrations", "installer", "backup", "doctor", "plan"}
    /\ AccountsInit /\ SessionsInit /\ SignInInit /\ InstallerInit /\ BackupInit
    /\ stage # "accounts" => users = <<>>
    /\ stage # "backup" => db = Namesake
    /\ IF stage = "migrations" THEN MigrationsInit ELSE Migrated
    /\ IF stage = "doctor" THEN DoctorInit ELSE patient = [of |-> "none"]
    /\ IF stage = "plan" THEN form \in PlanInputs \cup TemplateInputs ELSE form = [of |-> "none"]

InstallationNext ==
    /\ UNCHANGED <<stage, patient, form>>
    /\ \/ stage = "accounts" /\ AccountsNext /\ UNCHANGED <<sessions, signin, migrations, installer, backup>>
       \/ stage = "sessions" /\ SessionsNext /\ UNCHANGED <<accounts, signin, migrations, installer, backup>>
       \/ stage = "signin" /\ SignInNext /\ UNCHANGED <<accounts, sessions, migrations, installer, backup>>
       \/ stage = "migrations" /\ MigrationsNext /\ UNCHANGED <<accounts, sessions, signin, installer, backup>>
       \/ stage = "installer" /\ InstallerNext /\ UNCHANGED <<accounts, sessions, signin, migrations, backup>>
       \/ stage = "backup" /\ BackupNext /\ UNCHANGED <<accounts, sessions, signin, migrations, installer>>

\* MigrationsFairness and InstallerFairness; off stage they ask nothing.
StagedFairness ==
    /\ \A c \in Containers : WF_migrations(stage = "migrations" /\ Moves(c))
    /\ \A j \in Jobs : WF_installer(stage = "installer" /\ Runs(j))

InstallationSpec == InstallationInit /\ [][InstallationNext]_all /\ StagedFairness

\* One typing invariant for the state of all six.
InstallationTypeOK ==
    BackupTypeOK /\ AccountsTypeOK /\ SessionsTypeOK /\ SignInTypeOK /\ MigrationsTypeOK /\ InstallerTypeOK
=============================================================================
