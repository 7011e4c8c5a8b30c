------------------------------ MODULE Accounts ------------------------------
(***************************************************************************)
(* Who may administer an installation: the first-run claim                 *)
(* (panel/app/lib/setup.server.ts), roles, statuses and removals, and      *)
(* invitations (panel/app/lib/members.server.ts), with the guards of       *)
(* permission.server.ts.  A request reads the role of whoever makes it     *)
(* from the session, then the row it is about, and only then opens the     *)
(* transaction that changes it; several are under way at once.             *)
(*                                                                         *)
(* A user's id is a place in the sequence, and is never given again.  Only *)
(* owners and admins have abilities over users, and no grant can carry one *)
(* (GRANTABLE_RESOURCES), so a role says everything here.                  *)
(***************************************************************************)
EXTENDS Naturals, Sequences, FiniteSets

CONSTANTS
    Emails,
    Tabs,       \* requests that may be under way at once
    Teams,      \* users tables to start from, the empty one among them
    MaxUsers,   \* bound on accounts ever created
    MaxInvites, \* bound on invitations
    MaxAsked    \* bound on requests, and on invitations expiring

Roles == {"owner", "admin", "editor"}
Statuses == {"active", "suspended"}
Ids == 1..MaxUsers

UserRow == [email: Emails, role: Roles, status: Statuses, here: BOOLEAN]

\* Nobody is there to begin with, or one owner, who can sign in, and others.
ASSUME AccountConstants ==
    /\ <<>> \in Teams /\ Tabs \subseteq Nat /\ {MaxUsers, MaxInvites, MaxAsked} \subseteq Nat
    /\ \A team \in Teams :
          LET present == {i \in DOMAIN team : team[i].here} IN
          /\ team \in Seq(UserRow) /\ Len(team) <= MaxUsers
          /\ \A i, j \in present : team[i].email = team[j].email => i = j
          /\ present # {} => \E o \in present :
                /\ team[o].status = "active"
                /\ \A i \in present : team[i].role = "owner" <=> i = o

VARIABLES
    users,      \* [email, role, status, here] by id
    invites,    \* [email, role, state, expired] by id
    tab,        \* [Tabs -> the request each has under way]
    overlapped, \* did two requests ever run at once
    asked       \* of those so far

accounts == <<users, invites, tab, overlapped, asked>>

Present == {i \in DOMAIN users : users[i].here}
Active(i) == i \in Present /\ users[i].status = "active"
Owners == {i \in Present : users[i].role = "owner"}
EmailFree(email) == \A i \in Present : users[i].email # email

Idle == [pc |-> "idle", op |-> "none", actor |-> 0, as |-> "none", on |-> 0, to |-> "none",
         address |-> "none", seen |-> {}, landed |-> FALSE]

Goes(t, r) == tab' = [tab EXCEPT ![t] = r]
Ends(t) == Goes(t, Idle)
Counts == asked < MaxAsked /\ asked' = asked + 1

\* Tabs are alike: the first idle one takes a request.
Starts(t, r) ==
    /\ tab[t] = Idle /\ \A u \in Tabs : u < t => tab[u] # Idle
    /\ Goes(t, r)
    /\ Counts
    /\ overlapped' = (overlapped \/ \E u \in Tabs \ {t} : tab[u] # Idle)

NewUser(email, role) == [email |-> email, role |-> role, status |-> "active", here |-> TRUE]

-----------------------------------------------------------------------------
(* The first-run claim.                                                    *)

\* isClaimed, as claimInstallation asks it last; the password is hashed next.
ClaimCheck(t, email) ==
    /\ Present = {}
    /\ Starts(t, [Idle EXCEPT !.pc = "claiming", !.address = email])
    /\ UNCHANGED <<users, invites>>

\* The INSERT: only an address already there refuses it.
ClaimInsert(t) ==
    /\ tab[t].pc = "claiming"
    /\ users' = IF EmailFree(tab[t].address) /\ Len(users) < MaxUsers
                  THEN Append(users, NewUser(tab[t].address, "owner")) ELSE users
    /\ Ends(t)
    /\ UNCHANGED <<invites, overlapped, asked>>

-----------------------------------------------------------------------------
(* Members.                                                                *)

\* requireSession and requirePermission: the role is the one of this moment.
Begin(t, actor, op, on, to, address) ==
    /\ Active(actor) /\ users[actor].role \in {"owner", "admin"}
    /\ Starts(t, [Idle EXCEPT !.pc = "begun", !.op = op, !.actor = actor,
                              !.as = users[actor].role, !.on = on, !.to = to, !.address = address])
    /\ UNCHANGED <<users, invites>>

\* (mutant: only what the target is now is looked at)
OwnerTransitionDemotion(as, role, next) == role = "owner" => as = "owner"

\* assertOwnerTransitionAllowed
OwnerTransition(as, role, next) == role = "owner" \/ next = "owner" => as = "owner"

\* (mutant: the successor's status is not looked at)
MayChangeRoleAny(r, target) ==
    /\ OwnerTransition(r.as, target.role, r.to)
    /\ target.role # r.to
    /\ target.role # "owner"

\* The checks of changeRole, setStatus and removeMember, on the row they loaded.
MayChangeRole(r, target) ==
    /\ OwnerTransition(r.as, target.role, r.to)
    /\ target.role # r.to
    /\ r.to = "owner" => target.status = "active"
    /\ target.role # "owner"
MaySetStatus(r, target) ==
    /\ OwnerTransition(r.as, target.role, target.role)
    /\ ~(r.to = "suspended" /\ r.on = r.actor)
    /\ target.status # r.to
MayRemove(r, target) ==
    /\ target.role = "owner" => r.as = "owner"
    /\ ~(target.role = "owner" /\ r.on = r.actor)

\* loadTarget, and the refusals.
Check(t) ==
    LET r == tab[t] IN
    /\ r.pc = "begun" /\ r.op \in {"role", "status", "remove"}
    /\ Goes(t, IF /\ r.on \in Present
                  /\ \/ r.op = "role"   /\ MayChangeRole(r, users[r.on])
                     \/ r.op = "status" /\ MaySetStatus(r, users[r.on])
                     \/ r.op = "remove" /\ MayRemove(r, users[r.on])
                 THEN [r EXCEPT !.pc = "checked"] ELSE Idle)
    /\ UNCHANGED <<users, invites, overlapped, asked>>

\* A transfer holds the successor's row until it commits.
Held(t, id) == \E u \in Tabs \ {t} : tab[u].pc \in {"wrote", "demoting"} /\ tab[u].on = id
Here(id) == users[id].here

\* The transactions of one statement.  A row that has gone meanwhile is not
\* matched, and nothing says so.
Write(t) ==
    LET r == tab[t] IN
    /\ r.pc = "checked" /\ ~Held(t, r.on)
    /\ ~(r.op = "role" /\ r.to = "owner")
    /\ users' = CASE ~Here(r.on)     -> users
                  [] Here(r.on) /\ r.op = "role"   -> [users EXCEPT ![r.on].role = r.to]
                  [] Here(r.on) /\ r.op = "status" -> [users EXCEPT ![r.on].status = r.to]
                  [] Here(r.on) /\ r.op = "remove" -> [users EXCEPT ![r.on].here = FALSE]
    /\ Ends(t)
    /\ UNCHANGED <<invites, overlapped, asked>>

\* A transfer: the successor's row, then the snapshot of the statement that
\* demotes everybody else, then its rows, as they are once nobody holds them.
Promote(t) ==
    LET r == tab[t] IN
    /\ r.pc = "checked" /\ ~Held(t, r.on)
    /\ r.op = "role" /\ r.to = "owner"
    /\ Goes(t, [r EXCEPT !.pc = "wrote", !.landed = Here(r.on)])
    /\ UNCHANGED <<users, invites, overlapped, asked>>

Snapshot(t) ==
    /\ tab[t].pc = "wrote"
    /\ Goes(t, [tab[t] EXCEPT !.pc = "demoting", !.seen = Owners \ {tab[t].on}])
    /\ UNCHANGED <<users, invites, overlapped, asked>>

Transfer(t) ==
    LET r == tab[t] IN
    /\ r.pc = "demoting"
    /\ \A i \in r.seen : ~Held(t, i)
    /\ users' = [i \in DOMAIN users |->
                    IF i = r.on /\ r.landed THEN [users[i] EXCEPT !.role = "owner"]
                    ELSE IF i \in r.seen \cap Owners THEN [users[i] EXCEPT !.role = "admin"]
                    ELSE users[i]]
    /\ Ends(t)
    /\ UNCHANGED <<invites, overlapped, asked>>

-----------------------------------------------------------------------------
(* Invitations.                                                            *)

PendingFor(email) == {i \in DOMAIN invites : invites[i].email = email /\ invites[i].state = "pending"}
InviteHeld(t, i) == \E u \in Tabs \ {t} : tab[u].pc = "superseding" /\ i \in tab[u].seen
Stamp(S, state) == [i \in DOMAIN invites |-> IF i \in S THEN [invites[i] EXCEPT !.state = state] ELSE invites[i]]

\* createInvite: what is pending for the address is revoked, and the new row is
\* refused if another committed one meanwhile (invites_pending_email_key).
Supersede(t) ==
    LET r == tab[t] IN
    /\ r.pc = "begun" /\ r.op = "invite"
    /\ \A i \in PendingFor(r.address) : ~InviteHeld(t, i)
    /\ Goes(t, [r EXCEPT !.pc = "superseding", !.seen = PendingFor(r.address)])
    /\ UNCHANGED <<users, invites, overlapped, asked>>

\* (mutant: no index refuses a second pending row)
InviteUnchecked(t) ==
    LET r == tab[t] IN
    /\ r.pc = "superseding"
    /\ invites' = IF Len(invites) < MaxInvites
                    THEN Append(Stamp(r.seen, "revoked"),
                                [email |-> r.address, role |-> r.to, state |-> "pending", expired |-> FALSE])
                    ELSE invites
    /\ Ends(t)
    /\ UNCHANGED <<users, overlapped, asked>>

\* The new row; it does not go in when a pending one has come since.
Invite(t) ==
    LET r == tab[t] IN
    /\ r.pc = "superseding"
    /\ invites' = IF PendingFor(r.address) \subseteq r.seen /\ Len(invites) < MaxInvites
                    THEN Append(Stamp(r.seen, "revoked"),
                                [email |-> r.address, role |-> r.to, state |-> "pending", expired |-> FALSE])
                    ELSE invites
    /\ Ends(t)
    /\ UNCHANGED <<users, overlapped, asked>>

Revoke(t) ==
    LET r == tab[t] IN
    /\ r.pc = "begun" /\ r.op = "revoke" /\ ~InviteHeld(t, r.on)
    /\ invites' = Stamp({r.on} \cap {i \in DOMAIN invites : invites[i].state = "pending"}, "revoked")
    /\ Ends(t)
    /\ UNCHANGED <<users, overlapped, asked>>

Expire(i) ==
    /\ ~invites[i].expired
    /\ invites' = [invites EXCEPT ![i].expired = TRUE]
    /\ Counts
    /\ UNCHANGED <<users, tab, overlapped>>

\* (mutant: whether it was revoked is not part of the claim)
RedeemRevoked(i) ==
    /\ invites[i].state # "accepted" /\ ~invites[i].expired
    /\ \A t \in Tabs : ~InviteHeld(t, i)
    /\ EmailFree(invites[i].email) /\ Len(users) < MaxUsers
    /\ invites' = Stamp({i}, "accepted")
    /\ users' = Append(users, NewUser(invites[i].email, invites[i].role))
    /\ Counts
    /\ UNCHANGED <<tab, overlapped>>

\* redeemInvite: one transaction, gated by the conditional UPDATE; an address or
\* a name already taken undoes the stamp with it, and the link stays good.
Redeem(i) ==
    /\ invites[i].state = "pending" /\ ~invites[i].expired
    /\ \A t \in Tabs : ~InviteHeld(t, i)
    /\ EmailFree(invites[i].email) /\ Len(users) < MaxUsers
    /\ invites' = Stamp({i}, "accepted")
    /\ users' = Append(users, NewUser(invites[i].email, invites[i].role))
    /\ Counts
    /\ UNCHANGED <<tab, overlapped>>

-----------------------------------------------------------------------------

\* A request refused by the database, or whose process dies: nothing of it stays.
Abort(t) == tab[t] # Idle /\ Ends(t) /\ UNCHANGED <<users, invites, overlapped, asked>>

AccountsInit ==
    /\ users \in Teams /\ invites = <<>>
    /\ tab = [t \in Tabs |-> Idle]
    /\ overlapped = FALSE /\ asked = 0

Asks(t) ==
    \E actor \in DOMAIN users :
        \/ \E on \in Present :
              \/ \E role \in Roles : Begin(t, actor, "role", on, role, "none")
              \/ \E status \in Statuses : Begin(t, actor, "status", on, status, "none")
              \/ Begin(t, actor, "remove", on, "none", "none")
        \/ \E email \in Emails, role \in Roles \ {"owner"} : Begin(t, actor, "invite", 0, role, email)
        \/ \E i \in DOMAIN invites : Begin(t, actor, "revoke", i, "none", "none")

AccountsNext ==
    \/ \E t \in Tabs :
          \/ \E email \in Emails : ClaimCheck(t, email)
          \/ ClaimInsert(t)
          \/ Asks(t) \/ Check(t) \/ Write(t)
          \/ Promote(t) \/ Snapshot(t) \/ Transfer(t)
          \/ Supersede(t) \/ Invite(t) \/ Revoke(t)
          \/ Abort(t)
    \/ \E i \in DOMAIN invites : Expire(i) \/ Redeem(i)

AccountsSpec == AccountsInit /\ [][AccountsNext]_accounts

-----------------------------------------------------------------------------
(* Properties.                                                             *)

AccountsTypeOK ==
    /\ users \in Seq(UserRow)
    /\ invites \in Seq([email: Emails, role: Roles \ {"owner"},
                        state: {"pending", "accepted", "revoked"}, expired: BOOLEAN])
    /\ Len(users) <= MaxUsers /\ Len(invites) <= MaxInvites
    /\ \A i, j \in Present : users[i].email = users[j].email => i = j
    /\ \A i, j \in DOMAIN invites :
          invites[i].state = "pending" /\ invites[j].state = "pending"
          /\ invites[i].email = invites[j].email => i = j

\* As long as no two requests overlap, a claimed installation has exactly one
\* owner and the owner can sign in, whatever sequence of transfers, demotions,
\* suspensions, removals and invitations is asked for.
AloneKeepsOneOwner ==
    ~overlapped /\ Present # {} => Cardinality(Owners) = 1 /\ \A i \in Owners : Active(i)

\* Overlapping or not, ownership is given only by a request whose maker was an
\* owner when it began, or by the claim of an installation that had no user when
\* it was asked for; without overlap it is taken back only by an owner too.
OwnershipFlows ==
    [][LET by(roles) == \E t \in Tabs : tab'[t] = Idle /\ tab[t].as \in roles
           claimed == \E t \in Tabs : tab'[t] = Idle /\ tab[t].pc = "claiming"
       IN  /\ \A i \in DOMAIN users' :
                 users'[i].role = "owner" /\ (i \in DOMAIN users => users[i].role # "owner") =>
                    by({"owner"}) \/ claimed
           /\ \A i \in Owners :
                 users'[i].role # "owner" => by({"owner"}) \/ overlapped]_accounts

\* An account that nobody claimed as the first comes from one invitation that
\* was still good, the last one for its address, and has that address and role;
\* and an invitation is spent only by making one.
InvitesAreSeats ==
    [][LET new == DOMAIN users' \ DOMAIN users
           spent == {i \in DOMAIN invites : invites'[i].state = "accepted" /\ invites[i].state # "accepted"}
       IN  /\ Cardinality(spent) = Cardinality({n \in new : users'[n].role # "owner"})
           /\ \A i \in spent, n \in new :
                 /\ users'[n].email = invites[i].email /\ users'[n].role = invites[i].role
                 /\ invites[i].state = "pending" /\ ~invites[i].expired
                 /\ \A j \in DOMAIN invites : invites[j].email = invites[i].email => j <= i]_accounts

\* What members.server.ts:174-178 says its checks are for: a claimed
\* installation always has an owner who can sign in.
OwnerRemains == Present # {} => \E i \in Owners : Active(i)
=============================================================================
