------------------------------ MODULE Sessions ------------------------------
(***************************************************************************)
(* Sessions (panel/app/lib/session.server.ts): the row with its sliding    *)
(* expiry and its ceiling, the cookie each browser holds with an expiry of *)
(* its own, and the member behind them being suspended, reactivated or     *)
(* removed.  Time is counted in days.                                      *)
(***************************************************************************)
EXTENDS Naturals, FiniteSets

CONSTANTS
    Browsers,
    IdleDays,      \* IDLE_TIMEOUT_DAYS
    AbsoluteDays,  \* ABSOLUTE_TIMEOUT_DAYS
    MaxDay         \* bound on the clock

ASSUME SessionConstants ==
    {IdleDays, AbsoluteDays} \subseteq Nat \ {0} /\ IdleDays <= AbsoluteDays /\ MaxDay \in Nat

VARIABLES
    day,
    member,   \* the member's status, or "removed"
    session,  \* [Browsers -> the row its last sign-in made]
    cookie,   \* [Browsers -> the day its cookie lapses, 0 for none]
    left,     \* browsers whose session was signed out
    granted,  \* browsers let in by the last step
    lastUse   \* [Browsers -> the day each was last let in]

sessions == <<day, member, session, cookie, left, granted, lastUse>>

NoSession == [created |-> 0, expires |-> 0, revoked |-> TRUE]

\* The browser drops a cookie that lapsed.
Sends(b) == cookie[b] > day

\* createSession, after a password that was right.
SignIn(b) ==
    /\ member = "active"
    /\ session' = [session EXCEPT ![b] =
           [created |-> day, expires |-> day + IdleDays, revoked |-> FALSE]]
    /\ cookie' = [cookie EXCEPT ![b] = day + IdleDays]
    /\ left' = left \ {b}
    /\ lastUse' = [lastUse EXCEPT ![b] = day]
    /\ granted' = {}
    /\ UNCHANGED <<day, member>>

\* resolveSession's UPDATE: its WHERE, and what it sets.
Ceiling(b) == session[b].created + AbsoluteDays
Resolves(b) ==
    /\ ~session[b].revoked
    /\ session[b].expires > day /\ Ceiling(b) > day
    /\ member = "active"

\* (mutant: the window is added to what was left of it)
SlidAdding(b) ==
    IF session[b].expires + IdleDays <= Ceiling(b) THEN session[b].expires + IdleDays ELSE Ceiling(b)

Slid(b) == IF day + IdleDays <= Ceiling(b) THEN day + IdleDays ELSE Ceiling(b)

\* A page: the row slides, and the cookie goes out again only if the expiry just
\* written is not, to the hour, a whole window from now (refreshedCookieHeader).
Visit(b) ==
    /\ Sends(b)
    /\ IF Resolves(b)
         THEN /\ session' = [session EXCEPT ![b].expires = Slid(b)]
              /\ cookie' = [cookie EXCEPT ![b] = IF Slid(b) = day + IdleDays THEN @ ELSE Slid(b)]
              /\ granted' = {b}
              /\ lastUse' = [lastUse EXCEPT ![b] = day]
         ELSE granted' = {} /\ UNCHANGED <<session, cookie, lastUse>>
    /\ UNCHANGED <<day, member, left>>

\* revokeSession, and the cookie cleared with it.
SignOut(b) ==
    /\ Sends(b)
    /\ session' = [session EXCEPT ![b].revoked = TRUE]
    /\ cookie' = [cookie EXCEPT ![b] = 0]
    /\ left' = left \cup {b}
    /\ granted' = {}
    /\ UNCHANGED <<day, member, lastUse>>

\* A removal takes the rows with it.
MemberBecomes(status) ==
    /\ member \notin {"removed", status}
    /\ member' = status
    /\ session' = IF status = "removed" THEN [b \in Browsers |-> NoSession] ELSE session
    /\ granted' = {}
    /\ UNCHANGED <<day, cookie, left, lastUse>>

Tomorrow ==
    /\ day < MaxDay
    /\ day' = day + 1
    /\ granted' = {}
    /\ UNCHANGED <<member, session, cookie, left, lastUse>>

SessionsInit ==
    /\ day = 0 /\ member = "active"
    /\ session = [b \in Browsers |-> NoSession]
    /\ cookie = [b \in Browsers |-> 0]
    /\ left = {} /\ granted = {}
    /\ lastUse = [b \in Browsers |-> 0]

SessionsNext ==
    \/ \E b \in Browsers : SignIn(b) \/ Visit(b) \/ SignOut(b)
    \/ \E status \in {"active", "suspended", "removed"} : MemberBecomes(status)
    \/ Tomorrow

SessionsSpec == SessionsInit /\ [][SessionsNext]_sessions

-----------------------------------------------------------------------------
(* Properties.                                                             *)

SessionsTypeOK ==
    /\ day \in 0..MaxDay
    /\ member \in {"active", "suspended", "removed"}
    /\ session \in [Browsers -> [created: Nat, expires: Nat, revoked: BOOLEAN]]
    /\ cookie \in [Browsers -> Nat]
    /\ left \subseteq Browsers /\ granted \subseteq Browsers
    /\ lastUse \in [Browsers -> 0..MaxDay]

\* Nobody is let in after a sign-out, a suspension that lasts or a removal, nor
\* once the idle window has passed since they were last let in, nor once the
\* ceiling has passed since they signed in.
SessionsEnd ==
    [][\A b \in granted' :
          /\ b \notin left /\ member = "active"
          /\ day < lastUse[b] + IdleDays
          /\ day < session[b].created + AbsoluteDays]_sessions

\* While the row would still let a browser in, the browser still has its cookie
\* (session.server.ts:193-202: "The cookie has to slide with the row").
CookieFollowsRow == \A b \in Browsers : Resolves(b) => Sends(b)
=============================================================================
