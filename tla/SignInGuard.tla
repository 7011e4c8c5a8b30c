----------------------------- MODULE SignInGuard -----------------------------
(***************************************************************************)
(* The sign-in form's guard (panel/app/lib/login-guard.server.ts) as the   *)
(* route uses it (panel/app/routes/login.tsx): the lock is looked at       *)
(* before the password is verified, an await of a tenth of a second, and   *)
(* the failure is counted after it.  A key is an address and a source.     *)
(***************************************************************************)
EXTENDS Naturals, FiniteSets

CONSTANTS
    AttemptKeys,
    Forms,        \* sign-ins that may be verifying at once
    MaxAttempts,  \* MAX_ATTEMPTS
    WindowTicks,  \* WINDOW_MS
    MaxTracked,   \* MAX_TRACKED
    MaxMinute     \* bound on the clock

ASSUME SignInConstants ==
    /\ {WindowTicks, MaxTracked, MaxMinute} \subseteq Nat /\ MaxAttempts \in Nat \ {0}
    /\ IsFiniteSet(Forms) /\ "none" \notin AttemptKeys

VARIABLES
    minute,
    attempts,   \* [AttemptKeys -> count and first failure; count 0 for no entry]
    verifying,  \* [Forms -> the key whose password is being verified, or "none"]
    recent      \* [AttemptKeys -> [ticks -> failures then, of the last WindowTicks;
                \*  forgotten with the entry when the guard means to]]

signin == <<minute, attempts, verifying, recent>>

NoEntry == [count |-> 0, first |-> 0]
Tracked(entries) == {k \in AttemptKeys : entries[k].count > 0}
Lapsed(k) == minute - attempts[k].first > WindowTicks
Ticks == 0..MaxMinute
Never == [m \in Ticks |-> 0]

\* prune: what lapsed goes, and then the oldest, down to the bound.
Kept == [k \in AttemptKeys |-> IF Lapsed(k) THEN NoEntry ELSE attempts[k]]
Evictions ==
    {E \in SUBSET Tracked(Kept) :
        /\ Cardinality(Tracked(Kept) \ E) = IF Cardinality(Tracked(Kept)) > MaxTracked
                                              THEN MaxTracked ELSE Cardinality(Tracked(Kept))
        /\ \A e \in E, k \in Tracked(Kept) \ E : Kept[e].first <= Kept[k].first}

\* (mutant: only the exact count locks)
LockedAt(entry) == entry.count = MaxAttempts

Locks(entry) == entry.count >= MaxAttempts

\* isLockedOut; a locked key is refused in the same words as a wrong password.
Try(f, k) ==
    /\ verifying[f] = "none"
    /\ \E E \in Evictions :
          /\ attempts' = [a \in AttemptKeys |-> IF a \in E THEN NoEntry ELSE Kept[a]]
          /\ recent' = [a \in AttemptKeys |-> IF a \in E THEN Never ELSE recent[a]]
          /\ verifying' = [verifying EXCEPT ![f] = IF Locks(attempts'[k]) THEN "none" ELSE k]
    /\ UNCHANGED minute

\* recordFailure: an entry that lapsed while the password was verified begins anew.
OneMore(k) == IF attempts[k].count = 0 \/ Lapsed(k) THEN [count |-> 1, first |-> minute]
              ELSE [attempts[k] EXCEPT !.count = @ + 1]

Wrong(f) ==
    LET k == verifying[f] IN
    /\ k # "none"
    /\ attempts' = [attempts EXCEPT ![k] = OneMore(k)]
    /\ recent' = [recent EXCEPT ![k][minute] = @ + 1]
    /\ verifying' = [verifying EXCEPT ![f] = "none"]
    /\ UNCHANGED minute

\* clearFailures; a suspended member with the right password clears nothing.
Correct(f) ==
    LET k == verifying[f] IN
    /\ k # "none"
    /\ \/ attempts' = [attempts EXCEPT ![k] = NoEntry] /\ recent' = [recent EXCEPT ![k] = Never]
       \/ UNCHANGED <<attempts, recent>>
    /\ verifying' = [verifying EXCEPT ![f] = "none"]
    /\ UNCHANGED minute

\* The counters are the process's.
Restart ==
    /\ attempts' = [k \in AttemptKeys |-> NoEntry]
    /\ recent' = [k \in AttemptKeys |-> Never]
    /\ verifying' = [f \in Forms |-> "none"]
    /\ UNCHANGED minute

Minute ==
    /\ minute < MaxMinute
    /\ minute' = minute + 1
    /\ recent' = [k \in AttemptKeys |-> [m \in Ticks |-> IF m + WindowTicks < minute' THEN 0 ELSE recent[k][m]]]
    /\ UNCHANGED <<attempts, verifying>>

SignInInit ==
    /\ minute = 0
    /\ attempts = [k \in AttemptKeys |-> NoEntry]
    /\ verifying = [f \in Forms |-> "none"]
    /\ recent = [k \in AttemptKeys |-> Never]

SignInNext ==
    \/ \E f \in Forms : Wrong(f) \/ Correct(f) \/ \E k \in AttemptKeys : Try(f, k)
    \/ Restart \/ Minute

SignInSpec == SignInInit /\ [][SignInNext]_signin

-----------------------------------------------------------------------------
(* Properties.                                                             *)

SignInTypeOK ==
    /\ minute \in Ticks
    /\ attempts \in [AttemptKeys -> [count: Nat, first: Ticks]]
    /\ verifying \in [Forms -> AttemptKeys \cup {"none"}]
    /\ recent \in [AttemptKeys -> [Ticks -> Nat]]

\* How many failures there were up to each tick.
UpTo(failures) == LET sum[m \in Ticks] == failures[m] + IF m = 0 THEN 0 ELSE sum[m - 1] IN sum

PerWindow == MaxAttempts + Cardinality(Forms) - 1

\* Sign-ins that race past the lock are few: no span as long as the window sees
\* more failures of a key, unless the guard was made to forget it, than two
\* windows allow, each over its limit by no more than what was already being
\* verified; and the map is over its bound by no more than that.
GuessesBounded ==
    /\ \A k \in AttemptKeys : attempts[k].count <= PerWindow
    /\ \A k \in AttemptKeys : UpTo(recent[k])[MaxMinute] <= 2 * PerWindow
    /\ Cardinality(Tracked(attempts)) <= MaxTracked + Cardinality(Forms)
=============================================================================
