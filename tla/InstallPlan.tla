----------------------------- MODULE InstallPlan -----------------------------
(***************************************************************************)
(* What the hosted installer decides before and while it builds            *)
(* (setup/src/provision.mjs): the form it takes, the hosts it agrees to    *)
(* create, and the records it writes in the visitor's zone.                *)
(*                                                                         *)
(* A host is a sequence of labels, as a cleaned form has it.               *)
(***************************************************************************)
EXTENDS Providers, SequencesExt

CONSTANTS
    Plain,      \* labels a hostname may have
    Broken      \* labels no name has

VARIABLE form   \* what a visitor enters, and the template, zone and answers it meets

Apex == <<"acme", "com">>
Underscored == "_railway-verify"   \* a label no hostname has, and a record may

ASSUME PlanConstants == {"panel", "go", "acme", "com"} \subseteq Plain /\ Underscored \notin Plain

-----------------------------------------------------------------------------
(* Hosts.                                                                  *)

\* (mutant: the www is as good as any)
CreatableWww(host, apex) ==
    /\ IsStrictSuffix(apex, host)
    /\ \A i \in 1..(Len(host) - Len(apex)) : host[i] \in Plain \cup {Underscored}

\* assertCreatableHost: strictly under the apex, by whole labels, and not the
\* visitor's own site.
Creatable(host, apex) ==
    /\ IsStrictSuffix(apex, host)
    /\ host # <<"www">> \o apex
    /\ \A i \in 1..(Len(host) - Len(apex)) : host[i] \in Plain \cup {Underscored}

\* The dot decides whether a label or a whole host was typed.
Whole(typed, apex) == IF Len(typed) > 1 THEN typed ELSE typed \o apex
Hostname(host) == \A i \in DOMAIN host : host[i] \in Plain
ResolvesHost(typed, apex) ==
    /\ typed # <<>>
    /\ Hostname(Whole(typed, apex))
    /\ Creatable(Whole(typed, apex), apex)

\* A redirect host may be left out.
HostsTaken(panel, redirect, apex) ==
    /\ ResolvesHost(panel, apex)
    /\ redirect # <<>> => ResolvesHost(redirect, apex) /\ Whole(redirect, apex) # Whole(panel, apex)

-----------------------------------------------------------------------------
(* The owner.                                                              *)

\* The username is what the address has before its @, less what a username may
\* not hold, or "owner" when that leaves nothing; here, its length.
Username(owner) == IF owner.kept = 0 THEN 5 ELSE IF owner.kept > 32 THEN 32 ELSE owner.kept

InstallerTakes(owner) ==
    /\ owner.kept + owner.dropped \in 1..64
    /\ owner.password \in 12..200
    /\ owner.locale \in {"en", "pt-BR"}
    /\ owner.timezone # "malformed"

\* validateSetup, in the panel the install ends by claiming.
PanelTakes(owner) ==
    /\ Username(owner) \in 2..40
    /\ owner.password \in 12..200
    /\ owner.timezone = "known"

-----------------------------------------------------------------------------
(* The records.                                                            *)

\* What the visitor is shown before the button.
PlannedRecords(hosts) == UNION {{host, <<Underscored>> \o host} : host \in hosts}

\* What Railway asks for is written one at a time, up to the first that is refused:
\* by the guard, which the prefix of the proof does not bother, or by the zone.
Bare(name) == IF Head(name) = Underscored THEN Tail(name) ELSE name
Refused(asked, zone, i) ==
    LET there == zone \cup {asked[j] : j \in 1..(i - 1)} IN
    \/ ~Creatable(Bare(asked[i]), Apex)
    \/ CreateRecord(Found, {n \in there : n = asked[i]}, Found) # "ok"
RunDns(asked, zone) ==
    LET stop == CHOOSE n \in 0..Len(asked) :
                   /\ \A i \in 1..n : ~Refused(asked, zone, i)
                   /\ n = Len(asked) \/ Refused(asked, zone, n + 1)
    IN  [written |-> SubSeq(asked, 1, stop), failed |-> stop < Len(asked)]

-----------------------------------------------------------------------------
Typed == BoundedSeq(Plain \cup {Underscored} \cup Broken, 3)
Under == {<<"panel">> \o Apex, <<"go">> \o Apex}
Outside == <<"go", "com">>   \* a name of somebody else's zone
Askable == PlannedRecords(Under) \cup {Apex, <<Underscored>> \o Apex, <<"www">> \o Apex, Outside}

PlanInputs ==
    [of : {"hosts"}, panel : Typed, redirect : {<<>>, <<"go">>, <<"panel">>, <<"www">>}] \cup
    [of : {"owner"}, kept : {0, 1, 2, 32, 33, 41, 64}, dropped : {0, 1, 24}, password : {11, 12, 200, 201},
     locale : {"en", "pt-BR", "fr"}, timezone : {"known", "unknown", "malformed"}] \cup
    [of : {"records"}, asked : BoundedSeq(Askable, 2), zone : SUBSET (Askable \ {Apex, Outside})]

InstallPlanInit == form \in PlanInputs

-----------------------------------------------------------------------------
(* Properties.                                                             *)

\* Whatever is typed, a host the installer agrees to lies under the visitor's
\* apex, is not where the visitor's site is, and the two differ; and a bare
\* label is agreed to whenever it is one.
HostsAreSafe ==
    form.of = "hosts" =>
        /\ HostsTaken(form.panel, form.redirect, Apex) =>
              \A typed \in {form.panel, form.redirect} \ {<<>>} :
                  LET host == Whole(typed, Apex) IN
                  /\ Len(host) > Len(Apex) /\ SubSeq(host, Len(host) - 1, Len(host)) = Apex
                  /\ host # <<"www">> \o Apex /\ \A i \in DOMAIN host : host[i] \in Plain
        /\ form.panel \in {<<label>> : label \in Plain \ {"www"}} /\ form.redirect = <<>> =>
              HostsTaken(form.panel, form.redirect, Apex)

\* The panel, asked at the very end of an install, refuses no owner the form was
\* taken with, unless the username comes to one letter or no such zone exists.
OwnerIsTaken ==
    form.of = "owner" /\ InstallerTakes(form) /\ ~PanelTakes(form) =>
        Username(form) = 1 \/ form.timezone = "unknown"

\* Whatever Railway asks for, a record is written under the apex only, never for
\* the apex itself or its www, never twice, and never where the zone had one;
\* asked for what the visitor was shown, the run writes only that, and all of it
\* when the zone has none of it.
RecordsAreNew ==
    form.of = "records" =>
        LET run == RunDns(form.asked, form.zone)
            written == Range(run.written)
            shown == PlannedRecords(Under)
        IN  /\ \A name \in written : IsStrictSuffix(Apex, Bare(name))
            /\ written \cap (form.zone \cup {Apex, <<"www">> \o Apex, <<Underscored>> \o Apex}) = {}
            /\ Cardinality(written) = Len(run.written)
            /\ Range(form.asked) \subseteq shown => written \subseteq shown
            /\ /\ Range(form.asked) \subseteq shown \ form.zone
               /\ Cardinality(Range(form.asked)) = Len(form.asked)
               => run.written = form.asked /\ ~run.failed

\* What the installer agrees to is safe for the visitor's zone.
PlanIsSafe == HostsAreSafe /\ OwnerIsTaken /\ RecordsAreNew
=============================================================================
