---------------------------- MODULE AccountsProofs ----------------------------
(***************************************************************************)
(* Who may administer an installation: what requests keep of its owner and *)
(* of its invitations, whatever the members, the requests under way and    *)
(* the order their statements run in.                                      *)
(***************************************************************************)
EXTENDS Accounts, Integers, FiniteSetTheorems, SequenceTheorems, TLAPS

-----------------------------------------------------------------------------
(* Rows and requests.                                                      *)

InviteRow == [email: Emails, role: Roles \ {"owner"},
              state: {"pending", "accepted", "revoked"}, expired: BOOLEAN]

TabRow == [pc: {"idle", "claiming", "begun", "checked", "wrote", "demoting", "superseding"},
           op: {"none", "role", "status", "remove", "invite", "revoke"},
           actor: Nat, as: Roles \cup {"none"}, on: Nat, to: Roles \cup Statuses \cup {"none"},
           address: Emails \cup {"none"}, seen: SUBSET Nat, landed: BOOLEAN]

\* What a request asks for is something it can be asked for; one that passed its
\* checks and would make an owner is an owner's.
Fits(r) ==
    /\ r.pc = "claiming" => r.address \in Emails
    /\ r.pc \in {"begun", "checked"} =>
          /\ r.op = "role" => r.to \in Roles
          /\ r.op = "status" => r.to \in Statuses
          /\ r.op = "invite" => r.address \in Emails /\ r.to \in Roles \ {"owner"}
          /\ r.op \in {"role", "status", "remove"} => r.on \in DOMAIN users
    /\ r.pc = "checked" => r.op \in {"role", "status", "remove"}
    /\ r.pc = "checked" /\ r.op = "role" /\ r.to = "owner" => r.as = "owner"
    /\ r.pc \in {"wrote", "demoting"} => r.as = "owner" /\ r.on \in DOMAIN users
    /\ r.pc = "superseding" => r.address \in Emails /\ r.to \in Roles \ {"owner"}

\* The requests of a row loaded, as it is now.
MayStill(r) ==
    /\ r.on \in Present
    /\ r.op = "role" => MayChangeRole(r, users[r.on])
    /\ r.op = "status" => MaySetStatus(r, users[r.on])
    /\ r.op = "remove" => MayRemove(r, users[r.on])

\* What a request that runs alone has found out is still so.
Sound(r) ==
    /\ r.pc = "claiming" => Present = {}
    /\ r.pc \notin {"idle", "claiming"} => Active(r.actor) /\ users[r.actor].role = r.as
    /\ r.pc = "checked" => MayStill(r)
    /\ r.pc \in {"wrote", "demoting"} => r.landed /\ Active(r.on) /\ users[r.on].role # "owner"
    /\ r.pc = "demoting" => r.seen = Owners \ {r.on}

OneOwner == Present # {} => \E o \in Present : users[o].status = "active" /\ Owners = {o}

Alone ==
    /\ \A t, u \in Tabs : tab[t] # Idle /\ tab[u] # Idle => t = u
    /\ \A t \in Tabs : Sound(tab[t])
    /\ OneOwner
    /\ Present = {} => invites = <<>>

\* An invitation that is pending is the last for its address.
LastPending ==
    \A i, j \in DOMAIN invites :
        invites[i].state = "pending" /\ invites[j].email = invites[i].email => j <= i

TabsFit == tab \in [Tabs -> TabRow] /\ \A t \in Tabs : Fits(tab[t])

AInv == AccountsTypeOK /\ TabsFit /\ LastPending /\ (~overlapped => Alone)

-----------------------------------------------------------------------------
(* Requests that move, and rows that stay.                                 *)

\* A tab that is idle asks for nothing.
LEMMA IdleTab == Idle \in TabRow /\ Idle.pc = "idle" /\ Fits(Idle) /\ Sound(Idle)
<1>1. Idle \in TabRow /\ Idle.pc = "idle"
    BY DEF Idle, TabRow
<1>2. QED BY <1>1 DEF Fits, Sound

\* One tab moves.
LEMMA TabMoves ==
    ASSUME TabsFit, NEW t \in Tabs, NEW r \in TabRow, Goes(t, r)
    PROVE  /\ tab' \in [Tabs -> TabRow] /\ tab'[t] = r
           /\ \A u \in Tabs : u # t => tab'[u] = tab[u]
BY DEF TabsFit, Goes

\* A request that goes on, while no row changes.
LEMMA RequestMoves ==
    ASSUME AInv, NEW t \in Tabs, NEW r \in TabRow, Goes(t, r), UNCHANGED <<users, invites>>,
           Fits(r), ~overlapped' => ~overlapped /\ Sound(r) /\ \A u \in Tabs : u # t => tab[u] = Idle
    PROVE  AInv'
<1>1. /\ tab' \in [Tabs -> TabRow] /\ tab'[t] = r
      /\ \A u \in Tabs : u # t => tab'[u] = tab[u]
    BY TabMoves DEF AInv
<1>2. AccountsTypeOK' /\ LastPending'
    BY DEF AInv, AccountsTypeOK, LastPending, Present
<1>3. TabsFit'
    <2>1. ASSUME NEW u \in Tabs PROVE Fits(tab'[u])
        BY <1>1 DEF AInv, TabsFit
    <2>2. QED BY <1>1, <2>1 DEF TabsFit, Fits
<1>4. ASSUME ~overlapped'
      PROVE  Alone'
    <2>1. Alone /\ Sound(r) /\ \A u \in Tabs : u # t => tab'[u] = Idle
        BY <1>1, <1>4 DEF AInv
    <2>2. ASSUME NEW u \in Tabs PROVE Sound(tab'[u])
        BY <1>1, <2>1 DEF Alone
    <2>3. /\ Present' = Present /\ Owners' = Owners
        BY DEF Present, Owners
    <2>4. \A u \in Tabs : Sound(tab[u])'
        BY <2>2, <2>3 DEF Sound, Active, MayStill
    <2>5. OneOwner' /\ (Present' = {} => invites' = <<>>)
        BY <2>1, <2>3 DEF Alone, OneOwner
    <2>6. \A p, q \in Tabs : tab'[p] # Idle /\ tab'[q] # Idle => p = q
        BY <2>1
    <2>7. QED BY <2>4, <2>5, <2>6 DEF Alone, Idle
<1>5. QED BY <1>2, <1>3, <1>4 DEF AInv

\* Without overlap, a request under way is the only one.
LEMMA OnlyOne ==
    ASSUME AInv, ~overlapped, NEW t \in Tabs, tab[t].pc # "idle"
    PROVE  Alone /\ Sound(tab[t]) /\ \A u \in Tabs : u # t => tab[u] = Idle
BY IdleTab DEF AInv, Alone

\* A request that starts is the only one, or they overlap from then on.
LEMMA StartsAlone ==
    ASSUME AInv, NEW t \in Tabs, NEW r \in TabRow, Starts(t, r)
    PROVE  Goes(t, r) /\ (~overlapped' => ~overlapped /\ Alone /\ \A u \in Tabs : u # t => tab[u] = Idle)
<1>1. Goes(t, r) /\ (overlapped' <=> (overlapped \/ \E u \in Tabs \ {t} : tab[u] # Idle))
    BY DEF Starts
<1>2. ~overlapped' => ~overlapped /\ \A u \in Tabs : u # t => tab[u] = Idle
    BY <1>1
<1>3. QED BY <1>1, <1>2 DEF AInv

\* The claim is asked for.
LEMMA ClaimCheckStep ==
    ASSUME AInv, NEW t \in Tabs, NEW email \in Emails, ClaimCheck(t, email)
    PROVE  AInv'
<1> DEFINE r == [Idle EXCEPT !.pc = "claiming", !.address = email]
<1>1. Present = {} /\ Starts(t, r) /\ UNCHANGED <<users, invites>>
    BY DEF ClaimCheck
<1>2. r \in TabRow /\ r.pc = "claiming" /\ r.address = email
    BY DEF Idle, TabRow
<1> HIDE DEF r
<1>3. Fits(r) /\ Sound(r)
    BY <1>1, <1>2 DEF Fits, Sound
<1>4. Goes(t, r) /\ (~overlapped' => ~overlapped /\ \A u \in Tabs : u # t => tab[u] = Idle)
    BY <1>1, <1>2, StartsAlone
<1>5. QED BY <1>1, <1>2, <1>3, <1>4, RequestMoves

\* The ids of the rows are numbers, and a place in a table is one.
LEMMA RowTypes ==
    ASSUME AInv
    PROVE  /\ users \in Seq(UserRow) /\ invites \in Seq(InviteRow)
           /\ DOMAIN users = 1..Len(users) /\ Len(users) \in Nat
           /\ DOMAIN invites = 1..Len(invites) /\ Len(invites) \in Nat
           /\ \A i \in DOMAIN users : users[i] \in UserRow
           /\ \A i \in DOMAIN invites : invites[i] \in InviteRow
           /\ Present \subseteq DOMAIN users /\ Owners \subseteq Present
<1>1. users \in Seq(UserRow) /\ invites \in Seq(InviteRow)
    BY DEF AInv, AccountsTypeOK, InviteRow
<1>2. Present \subseteq DOMAIN users /\ Owners \subseteq Present
    BY DEF Present, Owners
<1>3. QED BY <1>1, <1>2

\* A request of somebody who administers.
LEMMA BeginStep ==
    ASSUME AInv, NEW t \in Tabs, NEW actor \in DOMAIN users,
           NEW op \in {"role", "status", "remove", "invite", "revoke"}, NEW on \in Nat,
           NEW to \in Roles \cup Statuses \cup {"none"}, NEW address \in Emails \cup {"none"},
           op = "role" => to \in Roles, op = "status" => to \in Statuses,
           op = "invite" => address \in Emails /\ to \in Roles \ {"owner"},
           op \in {"role", "status", "remove"} => on \in Present,
           Begin(t, actor, op, on, to, address)
    PROVE  AInv'
<1> DEFINE r == [Idle EXCEPT !.pc = "begun", !.op = op, !.actor = actor,
                             !.as = users[actor].role, !.on = on, !.to = to, !.address = address]
<1>1. /\ Active(actor) /\ Starts(t, r) /\ UNCHANGED <<users, invites>>
    BY DEF Begin
<1>2. actor \in Nat /\ users[actor].role \in Roles
    BY RowTypes DEF UserRow
<1>3. /\ r \in TabRow /\ r.pc = "begun" /\ r.op = op /\ r.actor = actor /\ r.as = users[actor].role
      /\ r.on = on /\ r.to = to /\ r.address = address
    BY <1>2 DEF Idle, TabRow
<1> HIDE DEF r
<1>4. Fits(r)
    BY <1>3, RowTypes DEF Fits
<1>5. Sound(r)
    BY <1>1, <1>3 DEF Sound
<1>6. Goes(t, r) /\ (~overlapped' => ~overlapped /\ \A u \in Tabs : u # t => tab[u] = Idle)
    BY <1>1, <1>3, StartsAlone
<1>7. QED BY <1>1, <1>3, <1>4, <1>5, <1>6, RequestMoves

\* Whatever may be asked.
LEMMA AsksStep ==
    ASSUME AInv, NEW t \in Tabs, Asks(t)
    PROVE  AInv'
<1>1. PICK actor \in DOMAIN users :
        \/ \E on \in Present :
              \/ \E role \in Roles : Begin(t, actor, "role", on, role, "none")
              \/ \E status \in Statuses : Begin(t, actor, "status", on, status, "none")
              \/ Begin(t, actor, "remove", on, "none", "none")
        \/ \E email \in Emails, role \in Roles \ {"owner"} : Begin(t, actor, "invite", 0, role, email)
        \/ \E i \in DOMAIN invites : Begin(t, actor, "revoke", i, "none", "none")
    BY DEF Asks
<1>2. Present \subseteq Nat /\ DOMAIN invites \subseteq Nat
    BY RowTypes
<1>3. ASSUME NEW on \in Present, NEW role \in Roles, Begin(t, actor, "role", on, role, "none")
      PROVE  AInv'
    BY <1>2, <1>3, BeginStep
<1>4. ASSUME NEW on \in Present, NEW status \in Statuses, Begin(t, actor, "status", on, status, "none")
      PROVE  AInv'
    BY <1>2, <1>4, BeginStep
<1>5. ASSUME NEW on \in Present, Begin(t, actor, "remove", on, "none", "none")
      PROVE  AInv'
    BY <1>2, <1>5, BeginStep
<1>6. ASSUME NEW email \in Emails, NEW role \in Roles \ {"owner"}, Begin(t, actor, "invite", 0, role, email)
      PROVE  AInv'
    BY <1>6, BeginStep
<1>7. ASSUME NEW i \in DOMAIN invites, Begin(t, actor, "revoke", i, "none", "none")
      PROVE  AInv'
    BY <1>2, <1>7, BeginStep
<1>8. QED BY <1>1, <1>3, <1>4, <1>5, <1>6, <1>7

\* The row is loaded, and the request goes on or is refused.
LEMMA CheckStep ==
    ASSUME AInv, NEW t \in Tabs, Check(t)
    PROVE  AInv'
<1> DEFINE r == tab[t]
           on == [r EXCEPT !.pc = "checked"]
           holds == /\ r.on \in Present
                    /\ \/ r.op = "role"   /\ MayChangeRole(r, users[r.on])
                       \/ r.op = "status" /\ MaySetStatus(r, users[r.on])
                       \/ r.op = "remove" /\ MayRemove(r, users[r.on])
<1>1. /\ r.pc = "begun" /\ r.op \in {"role", "status", "remove"}
      /\ Goes(t, IF holds THEN on ELSE Idle) /\ UNCHANGED <<users, invites, overlapped, asked>>
    BY DEF Check
<1>2. r \in TabRow /\ Fits(r)
    BY DEF AInv, TabsFit
<1>3. ~overlapped => Sound(r) /\ \A u \in Tabs : u # t => tab[u] = Idle
    BY <1>1, OnlyOne
<1>4. CASE ~holds
    <2>1. Goes(t, Idle)
        BY <1>1, <1>4
    <2>2. QED BY <1>1, <1>3, <2>1, IdleTab, RequestMoves
<1>5. CASE holds
    <2>1. Goes(t, on)
        BY <1>1, <1>5
    <2>2. /\ on \in TabRow /\ on.pc = "checked" /\ on.op = r.op /\ on.actor = r.actor /\ on.as = r.as
          /\ on.on = r.on /\ on.to = r.to
        BY <1>2 DEF TabRow
    <2>3. /\ r.op = "role" => MayChangeRole(r, users[r.on])
          /\ r.op = "status" => MaySetStatus(r, users[r.on])
          /\ r.op = "remove" => MayRemove(r, users[r.on])
        BY <1>5
    <2> HIDE DEF on, r
    <2>4. MayStill(on)
        BY <1>5, <2>2, <2>3 DEF MayStill, MayChangeRole, MaySetStatus, MayRemove
    <2>5. Fits(on)
        <3>1. r.op = "role" /\ r.to = "owner" => r.as = "owner"
            BY <2>3 DEF MayChangeRole, OwnerTransition
        <3>2. QED BY <1>1, <1>2, <2>2, <3>1 DEF Fits
    <2>6. ~overlapped => Sound(on)
        BY <1>1, <1>3, <2>2, <2>4 DEF Sound
    <2>7. QED BY <1>1, <1>3, <2>1, <2>2, <2>5, <2>6, RequestMoves
<1>6. QED BY <1>4, <1>5

\* A transfer takes its successor, and then the snapshot of those it demotes.
LEMMA TransferBegins ==
    ASSUME AInv, NEW t \in Tabs, Promote(t) \/ Snapshot(t)
    PROVE  AInv'
<1> DEFINE r == tab[t]
<1>1. r \in TabRow /\ Fits(r)
    BY DEF AInv, TabsFit
<1>2. Owners \subseteq Nat
    BY RowTypes
<1>3. CASE Promote(t)
    <2> DEFINE p == [r EXCEPT !.pc = "wrote", !.landed = Here(r.on)]
    <2>1. /\ r.pc = "checked" /\ r.op = "role" /\ r.to = "owner" /\ Goes(t, p)
          /\ UNCHANGED <<users, invites, overlapped, asked>>
        BY <1>3 DEF Promote
    <2>2. ~overlapped => Sound(r) /\ \A u \in Tabs : u # t => tab[u] = Idle
        BY <2>1, OnlyOne
    <2>3. r.on \in DOMAIN users /\ r.as = "owner"
        BY <1>1, <2>1 DEF Fits
    <2>4. Here(r.on) \in BOOLEAN
        BY <2>3, RowTypes DEF Here, UserRow
    <2>5. p \in TabRow
        BY <1>1, <2>4 DEF TabRow
    <2>6. /\ p.pc = "wrote" /\ p.on = r.on /\ p.as = r.as /\ p.actor = r.actor /\ p.landed = Here(r.on)
        BY <1>1 DEF TabRow
    <2> HIDE DEF p
    <2>7. Fits(p)
        BY <2>3, <2>6 DEF Fits
    <2>8. ASSUME ~overlapped PROVE Sound(p)
        <3>1. /\ Active(r.actor) /\ users[r.actor].role = r.as /\ r.on \in Present
              /\ users[r.on].role # "owner" /\ users[r.on].status = "active"
            BY <2>1, <2>2, <2>8 DEF Sound, MayStill, MayChangeRole
        <3>2. Here(r.on)
            BY <3>1 DEF Here, Present
        <3>3. Active(p.on) /\ p.landed /\ users[p.on].role # "owner"
            BY <2>6, <3>1, <3>2 DEF Active
        <3>4. QED BY <2>6, <3>1, <3>3 DEF Sound
    <2>9. QED BY <2>1, <2>2, <2>5, <2>7, <2>8, RequestMoves
<1>4. CASE Snapshot(t)
    <2> DEFINE p == [r EXCEPT !.pc = "demoting", !.seen = Owners \ {r.on}]
    <2>1. r.pc = "wrote" /\ Goes(t, p) /\ UNCHANGED <<users, invites, overlapped, asked>>
        BY <1>4 DEF Snapshot
    <2>2. ~overlapped => Sound(r) /\ \A u \in Tabs : u # t => tab[u] = Idle
        BY <2>1, OnlyOne
    <2>3. /\ p \in TabRow /\ p.pc = "demoting" /\ p.on = r.on /\ p.as = r.as /\ p.actor = r.actor
          /\ p.landed = r.landed /\ p.seen = Owners \ {p.on}
        BY <1>1, <1>2 DEF TabRow
    <2> HIDE DEF p
    <2>4. Fits(p)
        BY <1>1, <2>1, <2>3 DEF Fits
    <2>5. ~overlapped => Sound(p)
        BY <2>1, <2>2, <2>3 DEF Sound
    <2>6. QED BY <2>1, <2>2, <2>3, <2>4, <2>5, RequestMoves
<1>5. QED BY <1>3, <1>4

\* An invitation finds what it replaces, and a request that dies leaves nothing.
LEMMA SupersedeOrAbort ==
    ASSUME AInv, NEW t \in Tabs, Supersede(t) \/ Abort(t)
    PROVE  AInv'
<1>1. CASE Abort(t)
    <2>1. tab[t] # Idle /\ Goes(t, Idle) /\ UNCHANGED <<users, invites, overlapped, asked>>
        BY <1>1 DEF Abort, Ends
    <2>2. ~overlapped => \A u \in Tabs : u # t => tab[u] = Idle
        BY <2>1 DEF AInv, Alone
    <2>3. QED BY <2>1, <2>2, IdleTab, RequestMoves
<1>2. CASE Supersede(t)
    <2> DEFINE r == tab[t]
               p == [r EXCEPT !.pc = "superseding", !.seen = PendingFor(r.address)]
    <2>1. r.pc = "begun" /\ r.op = "invite" /\ Goes(t, p) /\ UNCHANGED <<users, invites, overlapped, asked>>
        BY <1>2 DEF Supersede
    <2>2. r \in TabRow /\ Fits(r)
        BY DEF AInv, TabsFit
    <2>3. ~overlapped => Sound(r) /\ \A u \in Tabs : u # t => tab[u] = Idle
        BY <2>1, OnlyOne
    <2>4. PendingFor(r.address) \subseteq Nat
        BY RowTypes DEF PendingFor
    <2>5. /\ p \in TabRow /\ p.pc = "superseding" /\ p.actor = r.actor /\ p.as = r.as
          /\ p.address = r.address /\ p.to = r.to
        BY <2>2, <2>4 DEF TabRow
    <2> HIDE DEF p
    <2>6. Fits(p) /\ (~overlapped => Sound(p))
        BY <2>1, <2>2, <2>3, <2>5 DEF Fits, Sound
    <2>7. QED BY <2>1, <2>3, <2>5, <2>6, RequestMoves
<1>3. QED BY <1>1, <1>2

-----------------------------------------------------------------------------
(* Rows that change.                                                       *)

\* Requests under way stay fit while rows are added, and one of them may end.
LEMMA TabsStayFit ==
    ASSUME TabsFit, DOMAIN users \subseteq DOMAIN users', tab' = tab \/ \E t \in Tabs : Ends(t)
    PROVE  TabsFit'
<1>1. Idle \in TabRow /\ \A u \in Tabs : tab'[u] \in {tab[u], Idle}
    BY IdleTab DEF TabsFit, Ends, Goes
<1>2. tab' \in [Tabs -> TabRow]
    BY IdleTab DEF TabsFit, Ends, Goes
<1>3. ASSUME NEW r, Fits(r) PROVE Fits(r)'
    BY <1>3 DEF Fits
<1>4. \A u \in Tabs : Fits(tab'[u])
    BY <1>1, IdleTab DEF TabsFit
<1>5. QED BY <1>2, <1>4 DEF TabsFit, Fits

\* When the only request ends, nothing is under way.
LEMMA AllIdle ==
    ASSUME AInv, NEW t \in Tabs, tab[t].pc # "idle", Ends(t), ~overlapped,
           OneOwner', Present' = {} => invites' = <<>>
    PROVE  Alone'
<1>1. \A u \in Tabs : tab'[u] = Idle
    BY OnlyOne DEF AInv, TabsFit, Ends, Goes
<1>2. \A u \in Tabs : Sound(tab[u])'
    BY <1>1, IdleTab DEF Sound
<1>3. QED BY <1>1, <1>2 DEF Alone, Idle

\* A table with one row more.
LEMMA OneMore ==
    ASSUME NEW S, NEW s \in Seq(S), NEW x \in S
    PROVE  LET more == Append(s, x) IN
           /\ more \in Seq(S) /\ Len(more) = Len(s) + 1 /\ Len(s) \in Nat
           /\ DOMAIN s = 1..Len(s) /\ DOMAIN more = DOMAIN s \cup {Len(s) + 1} /\ Len(s) + 1 \notin DOMAIN s
           /\ more[Len(s) + 1] = x /\ \A i \in DOMAIN s : more[i] = s[i]
OBVIOUS

\* The owner that nothing happens to stays the one owner.
LEMMA OwnerUnharmed ==
    ASSUME AInv, NEW o, Owners = {o}, users[o].status = "active", DOMAIN users' = DOMAIN users,
           users'[o] = users[o],
           \A i \in DOMAIN users : users'[i].role = "owner" /\ users'[i].here => users[i].role = "owner" /\ users[i].here
    PROVE  o \in Present' /\ users'[o].status = "active" /\ Owners' = {o}
BY DEF Owners, Present

\* A change of one row by a request that had its answers: what it leaves.
LEMMA WriteStep ==
    ASSUME AInv, NEW t \in Tabs, Write(t)
    PROVE  /\ AInv' /\ DOMAIN users' = DOMAIN users
           /\ \A i \in DOMAIN users' : users'[i].role = "owner" => i \in DOMAIN users /\ users[i].role = "owner"
           /\ ~overlapped => \A i \in Owners : users'[i].role = "owner"
<1> DEFINE r == tab[t]
           on == r.on
<1>1. /\ r.pc = "checked" /\ ~(r.op = "role" /\ r.to = "owner") /\ Ends(t)
      /\ users' = CASE ~Here(on)     -> users
                  [] Here(on) /\ r.op = "role"   -> [users EXCEPT ![on].role = r.to]
                  [] Here(on) /\ r.op = "status" -> [users EXCEPT ![on].status = r.to]
                  [] Here(on) /\ r.op = "remove" -> [users EXCEPT ![on].here = FALSE]
      /\ UNCHANGED <<invites, overlapped, asked>>
    BY DEF Write
<1>2. /\ r \in TabRow /\ on \in DOMAIN users /\ r.op \in {"role", "status", "remove"}
      /\ r.op = "role" => r.to \in Roles /\ r.to # "owner"
      /\ r.op = "status" => r.to \in Statuses
    BY <1>1 DEF AInv, TabsFit, Fits
<1>3. ~overlapped => Alone /\ Sound(r)
    BY <1>1, OnlyOne
<1>4. users \in Seq(UserRow) /\ \A i \in DOMAIN users : users[i] \in UserRow
    BY RowTypes
<1> DEFINE new == users'[on]
<1> HIDE DEF r
<1>5. /\ users' \in Seq(UserRow) /\ DOMAIN users' = DOMAIN users /\ Len(users') = Len(users)
      /\ \A i \in DOMAIN users : i # on => users'[i] = users[i]
      /\ new.email = users[on].email /\ (new.here => users[on].here)
      /\ new.role = "owner" => users[on].role = "owner"
    <2>1. CASE ~Here(on)
        BY <1>1, <1>4, <2>1
    <2>2. CASE Here(on) /\ r.op = "role"
        <3>1. users' = [users EXCEPT ![on].role = r.to]
            BY <1>1, <2>2
        <3>2. [users[on] EXCEPT !.role = r.to] \in UserRow
            BY <1>2, <1>4, <2>2 DEF UserRow
        <3>3. new = [users[on] EXCEPT !.role = r.to]
            BY <1>2, <3>1
        <3>4. new.email = users[on].email /\ new.here = users[on].here /\ new.role = r.to
            BY <1>2, <1>4, <3>3 DEF UserRow
        <3>5. users' \in Seq(UserRow) /\ DOMAIN users' = DOMAIN users /\ Len(users') = Len(users)
            BY <1>2, <1>4, <3>1, <3>2
        <3>6. \A i \in DOMAIN users : i # on => users'[i] = users[i]
            BY <3>1
        <3>7. QED BY <1>2, <2>2, <3>4, <3>5, <3>6
    <2>3. CASE Here(on) /\ r.op = "status"
        <3>1. users' = [users EXCEPT ![on].status = r.to]
            BY <1>1, <2>3
        <3>2. [users[on] EXCEPT !.status = r.to] \in UserRow
            BY <1>2, <1>4, <2>3 DEF UserRow
        <3>3. new = [users[on] EXCEPT !.status = r.to]
            BY <1>2, <3>1
        <3>4. new.email = users[on].email /\ new.here = users[on].here /\ new.role = users[on].role
            BY <1>2, <1>4, <3>3 DEF UserRow
        <3>5. users' \in Seq(UserRow) /\ DOMAIN users' = DOMAIN users /\ Len(users') = Len(users)
            BY <1>2, <1>4, <3>1, <3>2
        <3>6. \A i \in DOMAIN users : i # on => users'[i] = users[i]
            BY <3>1
        <3>7. QED BY <3>4, <3>5, <3>6
    <2>4. CASE Here(on) /\ r.op = "remove"
        <3>1. users' = [users EXCEPT ![on].here = FALSE]
            BY <1>1, <2>4
        <3>2. [users[on] EXCEPT !.here = FALSE] \in UserRow
            BY <1>2, <1>4 DEF UserRow
        <3>3. new = [users[on] EXCEPT !.here = FALSE]
            BY <1>2, <3>1
        <3>4. new.email = users[on].email /\ ~new.here /\ new.role = users[on].role
            BY <1>2, <1>4, <3>3 DEF UserRow
        <3>5. users' \in Seq(UserRow) /\ DOMAIN users' = DOMAIN users /\ Len(users') = Len(users)
            BY <1>2, <1>4, <3>1, <3>2
        <3>6. \A i \in DOMAIN users : i # on => users'[i] = users[i]
            BY <3>1
        <3>7. QED BY <3>4, <3>5, <3>6
    <2>5. QED BY <1>2, <2>1, <2>2, <2>3, <2>4
<1>6. ASSUME ~overlapped
      PROVE  \E o \in Present : users[o].status = "active" /\ Owners = {o} /\ users'[o] = users[o]
    <2>1. Active(r.actor) /\ users[r.actor].role = r.as /\ MayStill(r)
        BY <1>1, <1>3, <1>6 DEF Sound
    <2>2. on \in Present /\ Here(on)
        BY <2>1 DEF MayStill, Present, Here, r
    <2>3. PICK o \in Present : users[o].status = "active" /\ Owners = {o}
        BY <1>3, <1>6, <2>2 DEF Alone, OneOwner
    <2>4. r.as = "owner" => r.actor = o
        BY <2>1, <2>3 DEF Owners, Active
    <2>5. on # o
        <3>1. CASE r.op = "role"
            BY <2>1, <2>3, <3>1 DEF MayStill, MayChangeRole, Owners, r
        <3>2. CASE r.op = "status"
            <4>1. /\ OwnerTransition(r.as, users[on].role, users[on].role)
                  /\ ~(r.to = "suspended" /\ on = r.actor) /\ users[on].status # r.to
                BY <2>1, <3>2 DEF MayStill, MaySetStatus, r
            <4>2. SUFFICES ASSUME on = o PROVE FALSE
                OBVIOUS
            <4>3. r.as = "owner" /\ r.to = "suspended"
                BY <1>2, <2>3, <3>2, <4>1, <4>2 DEF OwnerTransition, Owners, Statuses
            <4>4. QED BY <2>4, <4>1, <4>2, <4>3
        <3>3. CASE r.op = "remove"
            BY <2>1, <2>3, <2>4, <3>3 DEF MayStill, MayRemove, Owners, r
        <3>4. QED BY <1>2, <3>1, <3>2, <3>3
    <2>6. o \in DOMAIN users
        BY DEF Present
    <2>7. QED BY <1>5, <2>3, <2>5, <2>6
<1>7. \A i \in DOMAIN users : users'[i].role = "owner" /\ users'[i].here => users[i].role = "owner" /\ users[i].here
    BY <1>5
<1>8. AccountsTypeOK'
    <2>1. Present' \subseteq Present /\ \A i \in DOMAIN users : users'[i].email = users[i].email
        BY <1>5 DEF Present
    <2>2. Len(users) <= MaxUsers /\ \A i, j \in Present : users[i].email = users[j].email => i = j
        BY DEF AInv, AccountsTypeOK
    <2>3. \A i, j \in Present' : users'[i].email = users'[j].email => i = j
        BY <2>1, <2>2 DEF Present
    <2>4. QED BY <1>1, <1>5, <2>2, <2>3 DEF AInv, AccountsTypeOK
<1>9. TabsFit' /\ LastPending'
    <2>1. TabsFit'
        BY <1>1, <1>5, TabsStayFit DEF AInv
    <2>2. QED BY <1>1, <2>1 DEF AInv, LastPending
<1>10. ~overlapped' => Alone'
    <2>1. SUFFICES ASSUME ~overlapped PROVE Alone'
        BY <1>1
    <2>2. PICK o \in Present : users[o].status = "active" /\ Owners = {o} /\ users'[o] = users[o]
        BY <1>6, <2>1
    <2>3. o \in Present' /\ users'[o].status = "active" /\ Owners' = {o}
        BY <1>5, <1>7, <2>2, OwnerUnharmed
    <2>4. OneOwner' /\ Present' # {}
        BY <2>3 DEF OneOwner
    <2>5. tab[t].pc # "idle"
        BY <1>1 DEF r
    <2>6. QED BY <1>1, <2>1, <2>4, <2>5, AllIdle
<1>11. \A i \in DOMAIN users' : users'[i].role = "owner" => i \in DOMAIN users /\ users[i].role = "owner"
    BY <1>5
<1>12. ASSUME ~overlapped, NEW i \in Owners PROVE users'[i].role = "owner"
    BY <1>6, <1>12 DEF Owners
<1>13. QED BY <1>5, <1>8, <1>9, <1>10, <1>11, <1>12 DEF AInv

\* A transfer commits: the successor, who is there to be one if the request was
\* alone, and everybody it saw demoted.
LEMMA TransferStep ==
    ASSUME AInv, NEW t \in Tabs, Transfer(t)
    PROVE  AInv' /\ tab[t].as = "owner"
<1> DEFINE r == tab[t]
<1>1. /\ r.pc = "demoting" /\ Ends(t) /\ UNCHANGED <<invites, overlapped, asked>>
      /\ users' = [i \in DOMAIN users |->
                    IF i = r.on /\ r.landed THEN [users[i] EXCEPT !.role = "owner"]
                    ELSE IF i \in r.seen \cap Owners THEN [users[i] EXCEPT !.role = "admin"]
                    ELSE users[i]]
    BY DEF Transfer
<1>2. r.as = "owner" /\ r.on \in DOMAIN users
    BY <1>1 DEF AInv, TabsFit, Fits
<1>3. users \in Seq(UserRow) /\ DOMAIN users = 1..Len(users) /\ Len(users) \in Nat
    BY RowTypes
<1>4. ~overlapped => Alone /\ Sound(r)
    BY <1>1, OnlyOne
<1> HIDE DEF r
<1>5. ASSUME NEW i \in DOMAIN users
      PROVE  /\ users'[i] \in UserRow /\ users'[i].email = users[i].email
             /\ users'[i].here = users[i].here /\ users'[i].status = users[i].status
             /\ users'[i].role = IF i = r.on /\ r.landed THEN "owner"
                                 ELSE IF i \in r.seen \cap Owners THEN "admin" ELSE users[i].role
    <2>1. users[i] \in UserRow /\ "owner" \in Roles /\ "admin" \in Roles
        BY RowTypes DEF Roles
    <2>2. CASE i = r.on /\ r.landed
        <3>1. users'[i] = [users[i] EXCEPT !.role = "owner"]
            BY <1>1, <2>2
        <3>2. QED BY <2>1, <2>2, <3>1 DEF UserRow
    <2>3. CASE ~(i = r.on /\ r.landed) /\ i \in r.seen \cap Owners
        <3>1. users'[i] = [users[i] EXCEPT !.role = "admin"]
            BY <1>1, <2>3
        <3>2. QED BY <2>1, <2>3, <3>1 DEF UserRow
    <2>4. CASE ~(i = r.on /\ r.landed) /\ i \notin r.seen \cap Owners
        <3>1. users'[i] = users[i]
            BY <1>1, <2>4
        <3>2. QED BY <2>1, <2>4, <3>1
    <2>5. QED BY <2>2, <2>3, <2>4
<1>6. DOMAIN users' = DOMAIN users
    BY <1>1
<1>7. users' \in Seq(UserRow) /\ Len(users') = Len(users)
    <2>1. users' = [i \in 1..Len(users) |-> users'[i]]
        BY <1>1, <1>3
    <2>2. QED BY <1>3, <1>5, <2>1
<1>8. Present' = Present
    BY <1>5, <1>6 DEF Present
<1>9. AccountsTypeOK'
    <2>1. \A i, j \in Present : users'[i].email = users'[j].email => i = j
        BY <1>5 DEF AInv, AccountsTypeOK, Present
    <2>2. QED BY <1>1, <1>7, <1>8, <2>1 DEF AInv, AccountsTypeOK
<1>10. TabsFit' /\ LastPending'
    <2>1. TabsFit'
        BY <1>1, <1>6, TabsStayFit DEF AInv
    <2>2. QED BY <1>1, <2>1 DEF AInv, LastPending
<1>11. ~overlapped' => Alone'
    <2>1. SUFFICES ASSUME ~overlapped PROVE Alone'
        BY <1>1
    <2>2. /\ r.landed /\ r.on \in Present /\ users[r.on].status = "active"
          /\ users[r.on].role # "owner" /\ r.seen = Owners \ {r.on}
        BY <1>1, <1>4, <2>1 DEF Sound, Active
    <2>3. \A i \in Present : users'[i].role = "owner" <=> i = r.on
        BY <1>5, <2>2 DEF Owners, Present
    <2>4. Owners' = {r.on}
        BY <1>8, <2>2, <2>3 DEF Owners
    <2>5. users'[r.on].status = "active"
        BY <1>2, <1>5, <2>2
    <2>6. OneOwner' /\ Present' # {}
        BY <1>8, <2>2, <2>4, <2>5 DEF OneOwner
    <2>7. tab[t].pc # "idle"
        BY <1>1 DEF r
    <2>8. QED BY <1>1, <2>1, <2>6, <2>7, AllIdle
<1>12. QED BY <1>2, <1>9, <1>10, <1>11 DEF AInv, r

\* The claim is written: the first row, when nothing ran beside it.
LEMMA ClaimInsertStep ==
    ASSUME AInv, NEW t \in Tabs, ClaimInsert(t)
    PROVE  AInv'
<1> DEFINE r == tab[t]
           row == NewUser(r.address, "owner")
<1>1. /\ r.pc = "claiming" /\ Ends(t) /\ UNCHANGED <<invites, overlapped, asked>>
      /\ \/ EmailFree(r.address) /\ Len(users) < MaxUsers /\ users' = Append(users, row)
         \/ users' = users
    BY DEF ClaimInsert
<1>2. r.address \in Emails
    BY <1>1 DEF AInv, TabsFit, Fits
<1>3. row \in UserRow /\ row.role = "owner" /\ row.status = "active" /\ row.here /\ row.email = r.address
    BY <1>2 DEF NewUser, UserRow, Roles, Statuses
<1>4. users \in Seq(UserRow) /\ Present \subseteq DOMAIN users
    BY RowTypes
<1>5. ~overlapped => Alone /\ Present = {}
    BY <1>1, OnlyOne DEF Sound
<1>6. tab[t].pc # "idle"
    BY <1>1
<1> HIDE DEF row, r
<1>7. CASE users' = users
    <2>1. AccountsTypeOK' /\ LastPending'
        BY <1>1, <1>7 DEF AInv, AccountsTypeOK, LastPending, Present
    <2>2. TabsFit'
        BY <1>1, <1>7, TabsStayFit DEF AInv
    <2>3. ASSUME ~overlapped PROVE Alone'
        <3>1. OneOwner' /\ (Present' = {} => invites' = <<>>)
            BY <1>1, <1>5, <1>7, <2>3 DEF Alone, OneOwner, Present, Owners
        <3>2. QED BY <1>1, <1>6, <2>3, <3>1, AllIdle
    <2>4. QED BY <1>1, <2>1, <2>2, <2>3 DEF AInv
<1>8. CASE EmailFree(r.address) /\ Len(users) < MaxUsers /\ users' = Append(users, row)
    <2> DEFINE n == Len(users) + 1
    <2>1. /\ users' \in Seq(UserRow) /\ Len(users') = n /\ Len(users) \in Nat
          /\ DOMAIN users' = DOMAIN users \cup {n} /\ n \notin DOMAIN users
          /\ users'[n] = row /\ \A i \in DOMAIN users : users'[i] = users[i]
        BY <1>3, <1>4, <1>8, OneMore
    <2>2. Len(users') <= MaxUsers
        BY <1>8, <2>1, AccountConstants
    <2> HIDE DEF n
    <2>3. Present' = Present \cup {n}
        BY <1>3, <2>1 DEF Present
    <2>4. \A i \in Present : users[i].email # row.email
        BY <1>3, <1>8 DEF EmailFree
    <2>5. AccountsTypeOK'
        <3>1. \A i, j \in Present \cup {n} : users'[i].email = users'[j].email => i = j
            BY <1>4, <2>1, <2>4 DEF AInv, AccountsTypeOK
        <3>2. QED BY <1>1, <2>1, <2>2, <2>3, <3>1 DEF AInv, AccountsTypeOK
    <2>6. TabsFit' /\ LastPending'
        <3>1. TabsFit'
            BY <1>1, <2>1, TabsStayFit DEF AInv
        <3>2. QED BY <1>1, <3>1 DEF AInv, LastPending
    <2>7. ASSUME ~overlapped PROVE Alone'
        <3>1. Present' = {n} /\ Owners' = {n} /\ users'[n].status = "active"
            BY <1>3, <1>5, <2>1, <2>3, <2>7 DEF Owners
        <3>2. OneOwner' /\ Present' # {}
            BY <3>1 DEF OneOwner
        <3>3. QED BY <1>1, <1>6, <2>7, <3>2, AllIdle
    <2>8. QED BY <1>1, <2>5, <2>6, <2>7 DEF AInv
<1>9. QED BY <1>1, <1>7, <1>8

-----------------------------------------------------------------------------
(* Invitations.                                                            *)

\* Invitations stamped keep everything but their state.
LEMMA Stamps ==
    ASSUME AInv, NEW S, NEW state \in {"pending", "accepted", "revoked"}
    PROVE  LET stamped == Stamp(S, state) IN
           /\ stamped \in Seq(InviteRow) /\ Len(stamped) = Len(invites) /\ DOMAIN stamped = DOMAIN invites
           /\ \A i \in DOMAIN invites :
                /\ stamped[i].email = invites[i].email /\ stamped[i].role = invites[i].role
                /\ stamped[i].expired = invites[i].expired
                /\ stamped[i].state = IF i \in S THEN state ELSE invites[i].state
<1> DEFINE stamped == Stamp(S, state)
<1>1. /\ invites \in Seq(InviteRow) /\ DOMAIN invites = 1..Len(invites) /\ Len(invites) \in Nat
      /\ \A i \in DOMAIN invites : invites[i] \in InviteRow
    BY RowTypes
<1>2. stamped = [i \in DOMAIN invites |-> IF i \in S THEN [invites[i] EXCEPT !.state = state] ELSE invites[i]]
    BY DEF Stamp
<1> HIDE DEF stamped
<1>3. ASSUME NEW i \in DOMAIN invites
      PROVE  /\ stamped[i] \in InviteRow
             /\ stamped[i].email = invites[i].email /\ stamped[i].role = invites[i].role
             /\ stamped[i].expired = invites[i].expired
             /\ stamped[i].state = IF i \in S THEN state ELSE invites[i].state
    <2>1. CASE i \in S
        <3>1. stamped[i] = [invites[i] EXCEPT !.state = state]
            BY <1>2, <2>1
        <3>2. QED BY <1>1, <2>1, <3>1 DEF InviteRow
    <2>2. CASE i \notin S
        <3>1. stamped[i] = invites[i]
            BY <1>2, <2>2
        <3>2. QED BY <1>1, <2>2, <3>1
    <2>3. QED BY <2>1, <2>2
<1>4. stamped \in Seq(InviteRow) /\ Len(stamped) = Len(invites) /\ DOMAIN stamped = DOMAIN invites
    BY <1>1, <1>2, <1>3
<1>5. QED BY <1>3, <1>4 DEF stamped

\* Invitations change while the members stay.
LEMMA InvitesMove ==
    ASSUME AInv, UNCHANGED <<users, overlapped>>,
           tab' = tab \/ \E t \in Tabs : Ends(t) /\ tab[t].pc # "idle",
           invites' \in Seq(InviteRow), Len(invites') <= MaxInvites, LastPending',
           Present # {} \/ overlapped \/ invites' = <<>>
    PROVE  AInv'
<1>1. Present' = Present /\ Owners' = Owners /\ OneOwner' = OneOwner
    BY DEF Present, Owners, OneOwner
<1>2. DOMAIN invites' \subseteq Nat
    OBVIOUS
<1>3. AccountsTypeOK'
    <2>1. \A i, j \in DOMAIN invites' :
             invites'[i].state = "pending" /\ invites'[j].state = "pending"
             /\ invites'[i].email = invites'[j].email => i = j
        BY <1>2 DEF LastPending
    <2>2. QED BY <1>1, <2>1 DEF AInv, AccountsTypeOK, InviteRow
<1>4. TabsFit'
    BY TabsStayFit DEF AInv
<1>5. ASSUME ~overlapped PROVE Alone'
    <2>1. Alone /\ (Present' = {} => invites' = <<>>)
        BY <1>1, <1>5 DEF AInv
    <2>2. CASE \E t \in Tabs : Ends(t) /\ tab[t].pc # "idle"
        <3>1. PICK t \in Tabs : Ends(t) /\ tab[t].pc # "idle"
            BY <2>2
        <3>2. QED BY <1>1, <1>5, <2>1, <3>1, AllIdle DEF Alone
    <2>3. CASE tab' = tab
        <3>1. \A u \in Tabs : Sound(tab[u])'
            BY <1>1, <2>1, <2>3 DEF Alone, Sound, MayStill, Active
        <3>2. QED BY <1>1, <2>1, <2>3, <3>1 DEF Alone, Idle
    <2>4. QED BY <2>2, <2>3
<1>6. QED BY <1>3, <1>4, <1>5 DEF AInv

\* An invitation is made, and is the last for its address: what was pending when
\* it was asked for is revoked, and one that came since refuses it.
LEMMA InviteStep ==
    ASSUME AInv, NEW t \in Tabs, Invite(t)
    PROVE  /\ AInv' /\ DOMAIN invites \subseteq DOMAIN invites'
           /\ \A i \in DOMAIN invites : invites'[i].state = "accepted" => invites[i].state = "accepted"
<1> DEFINE r == tab[t]
           row == [email |-> r.address, role |-> r.to, state |-> "pending", expired |-> FALSE]
           base == Stamp(r.seen, "revoked")
<1>1. /\ r.pc = "superseding" /\ Ends(t) /\ UNCHANGED <<users, overlapped, asked>>
      /\ \/ PendingFor(r.address) \subseteq r.seen /\ Len(invites) < MaxInvites /\ invites' = Append(base, row)
         \/ invites' = invites
    BY DEF Invite
<1>2. row \in InviteRow /\ row.email = r.address /\ row.state = "pending"
    BY <1>1 DEF AInv, TabsFit, Fits, InviteRow
<1>3. /\ base \in Seq(InviteRow) /\ Len(base) = Len(invites) /\ DOMAIN base = DOMAIN invites
      /\ \A i \in DOMAIN invites :
            /\ base[i].email = invites[i].email
            /\ base[i].state = IF i \in r.seen THEN "revoked" ELSE invites[i].state
    BY Stamps
<1>4. /\ invites \in Seq(InviteRow) /\ DOMAIN invites = 1..Len(invites) /\ Len(invites) \in Nat
      /\ Len(invites) <= MaxInvites
    BY RowTypes DEF AInv, AccountsTypeOK
<1>5. Present # {} \/ overlapped
    <2>1. ~overlapped => Active(r.actor)
        BY <1>1, OnlyOne DEF Sound
    <2>2. QED BY <2>1 DEF Active
<1>6. tab[t].pc # "idle"
    BY <1>1
<1> HIDE DEF row, base, r
<1>7. CASE invites' = invites
    <2>1. LastPending'
        BY <1>7 DEF AInv, LastPending
    <2>2. AInv'
        BY <1>1, <1>4, <1>5, <1>6, <1>7, <2>1, InvitesMove
    <2>3. QED BY <1>7, <2>2
<1>8. CASE PendingFor(r.address) \subseteq r.seen /\ Len(invites) < MaxInvites /\ invites' = Append(base, row)
    <2> DEFINE n == Len(invites) + 1
    <2>1. /\ invites' \in Seq(InviteRow) /\ Len(invites') = n
          /\ DOMAIN invites' = DOMAIN invites \cup {n} /\ n \notin DOMAIN invites
          /\ invites'[n] = row /\ \A i \in DOMAIN invites : invites'[i] = base[i]
        BY <1>2, <1>3, <1>8, OneMore
    <2>2. n \in Nat /\ Len(invites') <= MaxInvites /\ \A i \in DOMAIN invites : i \in Nat /\ i <= n
        BY <1>4, <1>8, <2>1, AccountConstants
    <2> HIDE DEF n
    <2>3. ASSUME NEW i \in DOMAIN invites', NEW j \in DOMAIN invites',
                 invites'[i].state = "pending", invites'[j].email = invites'[i].email
          PROVE  j <= i
        <3>1. CASE i = n
            BY <2>1, <2>2, <3>1
        <3>2. CASE i # n
            <4>1. i \in DOMAIN invites /\ i \notin r.seen /\ invites[i].state = "pending"
                BY <1>3, <2>1, <2>3, <3>2
            <4>2. invites[i].email # r.address
                BY <1>8, <4>1 DEF PendingFor
            <4>3. j # n
                BY <1>2, <1>3, <2>1, <2>3, <4>1, <4>2
            <4>4. j \in DOMAIN invites /\ invites[j].email = invites[i].email
                BY <1>3, <2>1, <2>3, <4>1, <4>3
            <4>5. QED BY <4>1, <4>4 DEF AInv, LastPending
        <3>3. QED BY <3>1, <3>2
    <2>4. LastPending'
        BY <2>3 DEF LastPending
    <2>5. AInv'
        BY <1>1, <1>5, <1>6, <2>1, <2>2, <2>4, InvitesMove
    <2>6. \A i \in DOMAIN invites : invites'[i].state = "accepted" => invites[i].state = "accepted"
        BY <1>3, <2>1
    <2>7. QED BY <2>1, <2>5, <2>6
<1>9. QED BY <1>1, <1>7, <1>8

\* One is revoked, or lapses.
LEMMA RevokeOrExpire ==
    ASSUME AInv, (\E t \in Tabs : Revoke(t)) \/ (\E i \in DOMAIN invites : Expire(i))
    PROVE  /\ AInv' /\ DOMAIN invites' = DOMAIN invites
           /\ \A i \in DOMAIN invites : invites'[i].state = "accepted" => invites[i].state = "accepted"
<1>1. /\ invites \in Seq(InviteRow) /\ DOMAIN invites = 1..Len(invites) /\ Len(invites) <= MaxInvites
      /\ \A i \in DOMAIN invites : invites[i] \in InviteRow
    BY RowTypes DEF AInv, AccountsTypeOK
<1>2. /\ invites' \in Seq(InviteRow) /\ Len(invites') = Len(invites) /\ DOMAIN invites' = DOMAIN invites
      /\ \A i \in DOMAIN invites :
            /\ invites'[i].email = invites[i].email
            /\ invites'[i].state \in {invites[i].state, "revoked"}
    <2>1. CASE \E t \in Tabs : Revoke(t)
        <3>1. \E S : invites' = Stamp(S, "revoked")
            BY <2>1 DEF Revoke
        <3>2. QED BY <3>1, Stamps
    <2>2. CASE \E i \in DOMAIN invites : Expire(i)
        <3>1. PICK i \in DOMAIN invites : invites' = [invites EXCEPT ![i].expired = TRUE]
            BY <2>2 DEF Expire
        <3>2. /\ [invites[i] EXCEPT !.expired = TRUE] \in InviteRow
              /\ [invites[i] EXCEPT !.expired = TRUE].email = invites[i].email
              /\ [invites[i] EXCEPT !.expired = TRUE].state = invites[i].state
            BY <1>1 DEF InviteRow
        <3>3. invites' \in Seq(InviteRow) /\ Len(invites') = Len(invites) /\ DOMAIN invites' = DOMAIN invites
            BY <1>1, <3>1, <3>2
        <3>4. \A j \in DOMAIN invites : invites'[j] = IF j = i THEN [invites[i] EXCEPT !.expired = TRUE] ELSE invites[j]
            BY <3>1
        <3>5. QED BY <3>2, <3>3, <3>4
    <2>3. QED BY <2>1, <2>2
<1>3. LastPending'
    BY <1>2 DEF AInv, LastPending
<1>4. /\ UNCHANGED <<users, overlapped>>
      /\ tab' = tab \/ \E t \in Tabs : Ends(t) /\ tab[t].pc # "idle"
    BY DEF Revoke, Expire
<1>5. Present # {} \/ overlapped \/ invites' = <<>>
    <2>1. SUFFICES ASSUME ~overlapped, Present = {} PROVE invites' = <<>>
        OBVIOUS
    <2>2. invites = <<>>
        BY <2>1 DEF AInv, Alone
    <2>3. Len(invites') = 0
        BY <1>2, <2>2
    <2>4. QED BY <1>2, <2>3
<1>6. AInv'
    BY <1>1, <1>2, <1>3, <1>4, <1>5, InvitesMove
<1>7. QED BY <1>2, <1>6

\* One is redeemed: a row that is no owner's, for an address nobody has.
LEMMA RedeemStep ==
    ASSUME AInv, NEW k \in DOMAIN invites, Redeem(k)
    PROVE  /\ AInv' /\ Len(users) + 1 \notin DOMAIN users /\ DOMAIN users' = DOMAIN users \cup {Len(users) + 1}
           /\ \A i \in DOMAIN users : users'[i] = users[i]
           /\ users'[Len(users) + 1] = NewUser(invites[k].email, invites[k].role)
           /\ users'[Len(users) + 1].role # "owner"
           /\ invites' = Stamp({k}, "accepted")
<1> DEFINE row == NewUser(invites[k].email, invites[k].role)
           n == Len(users) + 1
<1>1. /\ invites[k].state = "pending" /\ EmailFree(invites[k].email) /\ Len(users) < MaxUsers
      /\ invites' = Stamp({k}, "accepted") /\ users' = Append(users, row)
      /\ UNCHANGED <<tab, overlapped>>
    BY DEF Redeem
<1>2. invites[k].email \in Emails /\ invites[k].role \in Roles \ {"owner"}
    BY RowTypes DEF InviteRow
<1>3. row \in UserRow /\ row.role # "owner" /\ row.here /\ row.email = invites[k].email
    BY <1>2 DEF NewUser, UserRow, Statuses
<1>4. users \in Seq(UserRow) /\ Present \subseteq DOMAIN users /\ Owners \subseteq Present
    BY RowTypes
<1> HIDE DEF row
<1>5. /\ users' \in Seq(UserRow) /\ Len(users') = n /\ Len(users) \in Nat
      /\ DOMAIN users' = DOMAIN users \cup {n} /\ n \notin DOMAIN users
      /\ users'[n] = row /\ \A i \in DOMAIN users : users'[i] = users[i]
    BY <1>1, <1>3, <1>4, OneMore
<1>6. n <= MaxUsers
    BY <1>1, <1>5, AccountConstants
<1>7. /\ invites' \in Seq(InviteRow) /\ Len(invites') = Len(invites) /\ DOMAIN invites' = DOMAIN invites
      /\ \A i \in DOMAIN invites :
            /\ invites'[i].email = invites[i].email
            /\ invites'[i].state = IF i \in {k} THEN "accepted" ELSE invites[i].state
    BY <1>1, Stamps
<1> HIDE DEF n
<1>8. Present' = Present \cup {n} /\ Owners' = Owners
    BY <1>3, <1>4, <1>5 DEF Present, Owners
<1>9. \A i \in Present : users[i].email # row.email
    BY <1>1, <1>3 DEF EmailFree
<1>10. LastPending'
    BY <1>7 DEF AInv, LastPending
<1>11. AccountsTypeOK'
    <2>1. \A i, j \in Present \cup {n} : users'[i].email = users'[j].email => i = j
        BY <1>4, <1>5, <1>9 DEF AInv, AccountsTypeOK
    <2>2. Len(invites) <= MaxInvites
        BY DEF AInv, AccountsTypeOK
    <2>3. DOMAIN invites' \subseteq Nat
        BY <1>7, RowTypes
    <2>4. \A i, j \in DOMAIN invites' :
             invites'[i].state = "pending" /\ invites'[j].state = "pending"
             /\ invites'[i].email = invites'[j].email => i = j
        BY <1>10, <2>3 DEF LastPending
    <2>5. QED BY <1>5, <1>6, <1>7, <1>8, <2>1, <2>2, <2>4 DEF AccountsTypeOK, InviteRow
<1>12. TabsFit'
    BY <1>1, <1>5, TabsStayFit DEF AInv
<1>13. ASSUME ~overlapped PROVE Alone'
    <2>1. Alone /\ Present # {}
        <3>1. invites # <<>>
            OBVIOUS
        <3>2. QED BY <1>13, <3>1 DEF AInv, Alone
    <2>2. OneOwner' /\ Present' # {}
        <3>1. PICK o \in Present : users[o].status = "active" /\ Owners = {o}
            BY <2>1 DEF Alone, OneOwner
        <3>2. users'[o] = users[o]
            BY <1>4, <1>5
        <3>3. o \in Present' /\ users'[o].status = "active" /\ Owners' = {o}
            BY <1>8, <3>1, <3>2
        <3>4. QED BY <3>3 DEF OneOwner
    <2>3. ASSUME NEW t \in Tabs PROVE Sound(tab[t])'
        <3>1. Sound(tab[t]) /\ tab'[t] = tab[t]
            BY <1>1, <2>1 DEF Alone
        <3>2. \A i \in Present : users'[i] = users[i] /\ i \in Present'
            BY <1>4, <1>5, <1>8
        <3>3. QED BY <1>8, <2>1, <3>1, <3>2 DEF Sound, MayStill, Active
    <2>4. QED BY <1>1, <2>1, <2>2, <2>3 DEF Alone, Idle
<1>14. AInv'
    BY <1>1, <1>10, <1>11, <1>12, <1>13 DEF AInv
<1>15. QED BY <1>1, <1>3, <1>5, <1>14 DEF row, n

-----------------------------------------------------------------------------
(* The invariant, and what it comes to.                                    *)

\* It holds to begin with.
LEMMA AccountsStart == AccountsInit => AInv
<1> SUFFICES ASSUME AccountsInit PROVE AInv
    OBVIOUS
<1>1. users \in Teams /\ invites = <<>> /\ tab = [t \in Tabs |-> Idle]
    BY DEF AccountsInit
<1>2. /\ users \in Seq(UserRow) /\ Len(users) <= MaxUsers
      /\ \A i, j \in Present : users[i].email = users[j].email => i = j
      /\ Present # {} => \E o \in Present :
            users[o].status = "active" /\ \A i \in Present : users[i].role = "owner" <=> i = o
    BY <1>1, AccountConstants DEF Present
<1>3. invites \in Seq(InviteRow) /\ Len(invites) <= MaxInvites /\ DOMAIN invites = {}
    BY <1>1, AccountConstants
<1>4. AccountsTypeOK
    BY <1>2, <1>3 DEF AccountsTypeOK, InviteRow
<1>5. TabsFit
    BY <1>1, IdleTab DEF TabsFit
<1>6. LastPending
    BY <1>3 DEF LastPending
<1>7. Alone
    <2>1. OneOwner
        BY <1>2 DEF OneOwner, Owners
    <2>2. \A t \in Tabs : Sound(tab[t])
        BY <1>1, IdleTab
    <2>3. QED BY <1>1, <2>1, <2>2 DEF Alone
<1>8. QED BY <1>4, <1>5, <1>6, <1>7 DEF AInv

\* Every step keeps it.
LEMMA AccountsStep == AInv /\ [AccountsNext]_accounts => AInv'
<1> SUFFICES ASSUME AInv, [AccountsNext]_accounts PROVE AInv'
    OBVIOUS
<1>1. CASE UNCHANGED accounts
    <2>1. Present' = Present /\ Owners' = Owners
        BY <1>1 DEF accounts, Present, Owners
    <2>2. AccountsTypeOK' /\ TabsFit' /\ LastPending'
        BY <1>1 DEF accounts, AInv, AccountsTypeOK, TabsFit, LastPending, Fits, Present
    <2>3. Alone => Alone'
        BY <1>1, <2>1 DEF accounts, Alone, Sound, MayStill, Active, OneOwner, Idle
    <2>4. QED BY <1>1, <2>2, <2>3 DEF accounts, AInv
<1>2. CASE \E t \in Tabs :
              (\E email \in Emails : ClaimCheck(t, email)) \/ Asks(t) \/ Check(t)
              \/ Promote(t) \/ Snapshot(t) \/ Supersede(t) \/ Abort(t)
    BY <1>2, ClaimCheckStep, AsksStep, CheckStep, TransferBegins, SupersedeOrAbort
<1>3. CASE \E t \in Tabs : ClaimInsert(t) \/ Write(t) \/ Transfer(t) \/ Invite(t)
    BY <1>3, ClaimInsertStep, WriteStep, TransferStep, InviteStep
<1>4. CASE (\E t \in Tabs : Revoke(t)) \/ (\E i \in DOMAIN invites : Expire(i) \/ Redeem(i))
    BY <1>4, RevokeOrExpire, RedeemStep
<1>5. QED BY <1>1, <1>2, <1>3, <1>4 DEF AccountsNext

\* AInv is an invariant of the accounts.
THEOREM AccountsInductive == AccountsSpec => []AInv
BY AccountsStart, AccountsStep, PTL DEF AccountsSpec

\* Whatever the members, the addresses and the requests: as long as no two
\* requests overlap, a claimed installation has exactly one owner, who can sign in.
THEOREM OneOwnerStays == AccountsSpec => []AloneKeepsOneOwner
<1>1. ASSUME AInv, ~overlapped, Present # {}
      PROVE  Cardinality(Owners) = 1 /\ \A i \in Owners : Active(i)
    <2>1. PICK o \in Present : users[o].status = "active" /\ Owners = {o}
        BY <1>1 DEF AInv, Alone, OneOwner
    <2>2. Cardinality({o}) = 1
        BY FS_Singleton
    <2>3. QED BY <2>1, <2>2 DEF Active
<1>2. AInv => AloneKeepsOneOwner
    BY <1>1 DEF AloneKeepsOneOwner
<1>3. QED BY <1>2, AccountsInductive, PTL

\* A request that ends leaves its tab idle.
LEMMA EndsIdle ==
    ASSUME AInv, NEW t \in Tabs, Ends(t)
    PROVE  tab'[t] = Idle
BY DEF AInv, TabsFit, Ends, Goes

\* What moves the members.
LEMMA UsersMove ==
    ASSUME AccountsNext, users' # users
    PROVE  \/ \E t \in Tabs : ClaimInsert(t) \/ Write(t) \/ Transfer(t)
           \/ \E i \in DOMAIN invites : Redeem(i)
BY ZenonT(60) DEF AccountsNext, ClaimCheck, Asks, Begin, Check, Promote, Snapshot, Supersede, Invite, Revoke, Abort, Expire

\* The claim adds at most a row, of an owner, and touches no other.
LEMMA ClaimAdds ==
    ASSUME AInv, NEW t \in Tabs, ClaimInsert(t), users' # users
    PROVE  /\ DOMAIN users' = DOMAIN users \cup {Len(users) + 1} /\ Len(users) + 1 \notin DOMAIN users
           /\ \A i \in DOMAIN users : users'[i] = users[i]
           /\ users'[Len(users) + 1].role = "owner"
<1> DEFINE row == NewUser(tab[t].address, "owner")
<1>1. tab[t].pc = "claiming" /\ users' = Append(users, row)
    BY DEF ClaimInsert
<1>2. tab[t].address \in Emails
    BY <1>1 DEF AInv, TabsFit, Fits
<1>3. row \in UserRow /\ row.role = "owner"
    BY <1>2 DEF NewUser, UserRow, Roles, Statuses
<1>4. users \in Seq(UserRow)
    BY RowTypes
<1> HIDE DEF row
<1>5. QED BY <1>1, <1>3, <1>4, OneMore

\* Whatever the requests and however they interleave: ownership is given only by
\* an owner's request or the first-run claim, and, while none overlap, it is taken
\* back only by an owner's request.
THEOREM OwnershipIsGiven == AccountsSpec => OwnershipFlows
<1> DEFINE by == \E t \in Tabs : tab'[t] = Idle /\ tab[t].as \in {"owner"}
           claimed == \E t \in Tabs : tab'[t] = Idle /\ tab[t].pc = "claiming"
<1>1. ASSUME AInv, AccountsNext, ~by, ~claimed,
             NEW i \in DOMAIN users', users'[i].role = "owner"
      PROVE  i \in DOMAIN users /\ users[i].role = "owner"
    <2>1. CASE users' = users
        BY <1>1, <2>1
    <2>2. CASE \E t \in Tabs : ClaimInsert(t)
        BY <1>1, <2>2, EndsIdle DEF ClaimInsert
    <2>3. CASE \E t \in Tabs : Transfer(t)
        <3>1. PICK t \in Tabs : Transfer(t)
            BY <2>3
        <3>2. tab[t].as = "owner" /\ Ends(t)
            BY <1>1, <3>1, TransferStep DEF Transfer
        <3>3. QED BY <1>1, <3>2, EndsIdle
    <2>4. CASE \E t \in Tabs : Write(t)
        BY <1>1, <2>4, WriteStep
    <2>5. CASE \E k \in DOMAIN invites : Redeem(k)
        BY <1>1, <2>5, RedeemStep
    <2>6. QED BY <1>1, <2>1, <2>2, <2>3, <2>4, <2>5, UsersMove
<1>2. ASSUME AInv, AccountsNext, ~by, ~overlapped, NEW i \in Owners
      PROVE  users'[i].role = "owner"
    <2>1. i \in DOMAIN users /\ users[i].role = "owner"
        BY DEF Owners, Present
    <2>2. CASE users' = users
        BY <2>1, <2>2
    <2>3. CASE (\E t \in Tabs : ClaimInsert(t)) /\ users' # users
        BY <1>2, <2>1, <2>3, ClaimAdds
    <2>4. CASE \E t \in Tabs : Transfer(t)
        <3>1. PICK t \in Tabs : Transfer(t)
            BY <2>4
        <3>2. tab[t].as = "owner" /\ Ends(t)
            BY <1>2, <3>1, TransferStep DEF Transfer
        <3>3. QED BY <1>2, <3>2, EndsIdle
    <2>5. CASE \E t \in Tabs : Write(t)
        BY <1>2, <2>5, WriteStep
    <2>6. CASE \E k \in DOMAIN invites : Redeem(k)
        BY <1>2, <2>1, <2>6, RedeemStep
    <2>7. QED BY <1>2, <2>2, <2>3, <2>4, <2>5, <2>6, UsersMove
<1>3. AInv /\ [AccountsNext]_accounts =>
         [/\ \A i \in DOMAIN users' :
                users'[i].role = "owner" /\ (i \in DOMAIN users => users[i].role # "owner") => by \/ claimed
          /\ \A i \in Owners : users'[i].role # "owner" => by \/ overlapped]_accounts
    BY <1>1, <1>2
<1>4. QED BY <1>3, AccountsInductive, PTL DEF AccountsSpec, OwnershipFlows

-----------------------------------------------------------------------------
(* Invitations are seats.                                                  *)

\* What spends an invitation.
LEMMA InvitesSpent ==
    ASSUME AInv, AccountsNext, ~\E k \in DOMAIN invites : Redeem(k)
    PROVE  \A i \in DOMAIN invites : invites'[i].state = "accepted" => invites[i].state = "accepted"
<1>1. CASE invites' = invites
    BY <1>1
<1>2. CASE \E t \in Tabs : Invite(t)
    BY <1>2, InviteStep
<1>3. CASE (\E t \in Tabs : Revoke(t)) \/ (\E i \in DOMAIN invites : Expire(i))
    BY <1>3, RevokeOrExpire
<1>4. invites' # invites => (\E t \in Tabs : Invite(t) \/ Revoke(t)) \/ (\E i \in DOMAIN invites : Expire(i))
    BY ZenonT(60) DEF AccountsNext, ClaimCheck, ClaimInsert, Asks, Begin, Check, Write, Promote, Snapshot, Transfer,
           Supersede, Abort
<1>5. QED BY <1>1, <1>2, <1>3, <1>4

\* Nothing but the claim and an invitation adds a member.
LEMMA MembersAdded ==
    ASSUME AInv, AccountsNext, ~\E k \in DOMAIN invites : Redeem(k), NEW n \in DOMAIN users' \ DOMAIN users
    PROVE  users'[n].role = "owner"
<1>1. users' # users
    OBVIOUS
<1>2. CASE \E t \in Tabs : ClaimInsert(t)
    BY <1>1, <1>2, ClaimAdds
<1>3. CASE \E t \in Tabs : Write(t)
    BY <1>3, WriteStep
<1>4. CASE \E t \in Tabs : Transfer(t)
    <2>1. DOMAIN users' = DOMAIN users
        BY <1>4 DEF Transfer
    <2>2. QED BY <2>1
<1>5. QED BY <1>1, <1>2, <1>3, <1>4, UsersMove

\* An account that is no claimer's and an invitation go together: one good one,
\* the last for its address, spent for one account with its address and role.
THEOREM InvitationsAreSeats == AccountsSpec => InvitesAreSeats
<1> DEFINE new == DOMAIN users' \ DOMAIN users
           spent == {i \in DOMAIN invites : invites'[i].state = "accepted" /\ invites[i].state # "accepted"}
           seats == {n \in new : users'[n].role # "owner"}
           seated(i, n) ==
              /\ users'[n].email = invites[i].email /\ users'[n].role = invites[i].role
              /\ invites[i].state = "pending" /\ ~invites[i].expired
              /\ \A j \in DOMAIN invites : invites[j].email = invites[i].email => j <= i
<1>1. ASSUME AInv, AccountsNext, ~\E k \in DOMAIN invites : Redeem(k)
      PROVE  Cardinality(spent) = Cardinality(seats) /\ spent = {}
    <2>1. spent = {}
        BY <1>1, InvitesSpent
    <2>2. seats = {}
        BY <1>1, MembersAdded
    <2>3. QED BY <2>1, <2>2
<1>2. ASSUME AInv, NEW k \in DOMAIN invites, Redeem(k)
      PROVE  Cardinality(spent) = Cardinality(seats) /\ \A i \in spent, n \in new : seated(i, n)
    <2> DEFINE m == Len(users) + 1
    <2>1. /\ new = {m} /\ users'[m] = NewUser(invites[k].email, invites[k].role) /\ users'[m].role # "owner"
          /\ invites' = Stamp({k}, "accepted")
        BY <1>2, RedeemStep
    <2>2. invites[k].state = "pending" /\ ~invites[k].expired
        BY <1>2 DEF Redeem
    <2>3. \A i \in DOMAIN invites : invites'[i].state = IF i \in {k} THEN "accepted" ELSE invites[i].state
        BY <1>2, <2>1, Stamps
    <2>4. spent = {k}
        BY <2>2, <2>3
    <2>5. seats = {m}
        BY <2>1
    <2>6. Cardinality({k}) = 1 /\ Cardinality({m}) = 1
        BY FS_Singleton
    <2>7. users'[m].email = invites[k].email /\ users'[m].role = invites[k].role
        BY <2>1 DEF NewUser
    <2>8. \A j \in DOMAIN invites : invites[j].email = invites[k].email => j <= k
        BY <1>2, <2>2 DEF AInv, LastPending
    <2> HIDE DEF m, new, spent, seats
    <2>9. QED BY <2>1, <2>2, <2>4, <2>5, <2>6, <2>7, <2>8
<1>3. AInv /\ [AccountsNext]_accounts =>
         [Cardinality(spent) = Cardinality(seats) /\ \A i \in spent, n \in new : seated(i, n)]_accounts
    <2> HIDE DEF spent, seats, new, seated
    <2>1. QED BY <1>1, <1>2
<1>4. QED BY <1>3, AccountsInductive, PTL DEF AccountsSpec, InvitesAreSeats
=============================================================================
