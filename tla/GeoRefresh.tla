------------------------------ MODULE GeoRefresh ------------------------------
(***************************************************************************)
(* Keeping the geolocation databases current (edge/src/geo.mjs): a round   *)
(* that makes sure of each edition on disk in turn, downloading what is    *)
(* due, and then opens what it found, hands over one lookup and closes the *)
(* other.  Rounds come from the weekly interval, and from the retry while  *)
(* there is no lookup; a lookup may have opened less than the round found. *)
(* Builds are named by the time they were made.                            *)
(***************************************************************************)
EXTENDS Integers, Sequences, FiniteSets

CONSTANTS
    Editions,    \* a sequence, in the order they are ensured
    Week,        \* ticks in maxAgeMs, and in intervalMs; retryMs is less than one
    Rebuild,     \* ticks between two builds of MaxMind's
    MaxGeoTime,  \* bound on the clock
    MaxLosses    \* bound on files lost from the disk, or not readable for once

ASSUME GeoRefreshConstants ==
    /\ {Week, Rebuild, MaxGeoTime, MaxLosses} \subseteq Nat /\ Week > 1 /\ Rebuild > 0
    /\ Editions \in Seq(STRING)

VARIABLES
    geoTime,
    disk,      \* [editions -> when its file was fetched, or -1]
    round,     \* the round under way: 0 for none, or the edition it is at
    found,     \* [editions -> the build this round found, or -1]
    began,     \* when the latest round began
    fired,     \* when the interval last fired
    current,   \* is there a lookup
    loaded,    \* [editions -> the build it opened, or -1]
    signature, \* [editions -> the build it was to open, or -1]
    retry,     \* is the retry timer set
    halted,    \* stop() was called
    losses,
    failed     \* did any download ever fail

geo == <<geoTime, disk, round, found, began, fired, current, loaded, signature, retry, halted, losses, failed>>

Eds == {Editions[i] : i \in DOMAIN Editions}
None == [e \in Eds |-> -1]

\* The build that is published at a time, and that of the file on disk.
Build(t) == t - (t % Rebuild)
BuiltAt(e) == IF disk[e] = -1 THEN -1 ELSE Build(disk[e])

-----------------------------------------------------------------------------

\* refresh(): one round at a time.
Refresh ==
    IF round = 0 THEN round' = 1 /\ found' = None /\ began' = geoTime
    ELSE UNCHANGED <<round, found, began>>

\* The interval runs from the process's start; so does the first round.
Due == geoTime % Week = 0 /\ fired # geoTime
IntervalFires ==
    /\ ~halted /\ Due
    /\ fired' = geoTime
    /\ Refresh
    /\ UNCHANGED <<geoTime, disk, current, loaded, signature, retry, halted, losses, failed>>

RetryFires ==
    /\ retry /\ retry' = FALSE
    /\ Refresh
    /\ UNCHANGED <<geoTime, disk, fired, current, loaded, signature, halted, losses, failed>>

Edition == Editions[round]
Fresh == disk[Edition] # -1 /\ geoTime - disk[Edition] < Week

\* A file that is there is not always readable.
Unreadable(S) ==
    /\ \A e \in S : disk[e] # -1
    /\ losses + Cardinality(S) <= MaxLosses
    /\ losses' = losses + Cardinality(S)

\* (mutant: the file is renamed into place before it is verified)
EnsureEditionUnverified(outcome, unread) ==
    /\ round \in DOMAIN Editions /\ unread \subseteq {Edition} /\ Unreadable(unread)
    /\ outcome = "fresh" <=> Fresh /\ unread = {}
    /\ disk' = CASE outcome = "downloaded" -> [disk EXCEPT ![Edition] = geoTime]
                 [] outcome = "failed" -> [disk EXCEPT ![Edition] = -1]
                 [] outcome = "fresh" -> disk
    /\ found' = [found EXCEPT ![Edition] =
                    CASE outcome = "downloaded" -> Build(geoTime)
                      [] outcome = "failed" -> -1
                      [] outcome = "fresh" -> BuiltAt(Edition)]
    /\ round' = round + 1
    /\ failed' = (failed \/ outcome = "failed")
    /\ UNCHANGED <<geoTime, began, fired, current, loaded, signature, retry, halted>>

\* ensureDatabase of the edition the round is at: fresh enough, downloaded and
\* verified before the rename, or kept as it was, if it could be read, whatever
\* failed.
EnsureEdition(outcome, unread) ==
    /\ round \in DOMAIN Editions /\ unread \subseteq {Edition} /\ Unreadable(unread)
    /\ outcome = "fresh" <=> Fresh /\ unread = {}
    /\ disk' = IF outcome = "downloaded" THEN [disk EXCEPT ![Edition] = geoTime] ELSE disk
    /\ found' = [found EXCEPT ![Edition] =
                    CASE outcome = "downloaded" -> Build(geoTime)
                      [] outcome # "downloaded" /\ unread = {} -> BuiltAt(Edition)
                      [] outcome # "downloaded" /\ unread # {} -> -1]
    /\ round' = round + 1
    /\ failed' = (failed \/ outcome = "failed")
    /\ UNCHANGED <<geoTime, began, fired, current, loaded, signature, retry, halted>>

\* The end of a round, without an await: nothing found and nothing new change
\* nothing; otherwise a lookup opens the files that are still there and readable,
\* and is handed over, and then the old one is closed.
RoundOver == round = Len(Editions) + 1
Unchanged == halted \/ found = None \/ found = signature
LookupOf(unread) == [e \in Eds |-> IF disk[e] = -1 \/ e \in unread THEN -1 ELSE found[e]]

\* (mutant: the retry is forgotten)
InstallNoRetry(unread) ==
    /\ RoundOver
    /\ round' = 0
    /\ Unreadable(unread) /\ \A e \in unread : ~Unchanged /\ found[e] # -1
    /\ IF Unchanged THEN UNCHANGED <<current, loaded, signature>>
       ELSE current' = TRUE /\ loaded' = LookupOf(unread) /\ signature' = found
    /\ UNCHANGED <<geoTime, disk, found, began, fired, retry, halted, failed>>

Install(unread) ==
    /\ RoundOver
    /\ round' = 0
    /\ Unreadable(unread) /\ \A e \in unread : ~Unchanged /\ found[e] # -1
    /\ IF Unchanged THEN UNCHANGED <<current, loaded, signature>>
       ELSE current' = TRUE /\ loaded' = LookupOf(unread) /\ signature' = found
    /\ retry' = (~halted /\ (retry \/ ~current'))
    /\ UNCHANGED <<geoTime, disk, found, began, fired, halted, failed>>

Halt ==
    /\ ~halted /\ halted' = TRUE
    /\ retry' = FALSE /\ current' = FALSE /\ loaded' = None
    /\ UNCHANGED <<geoTime, disk, round, found, began, fired, signature, losses, failed>>

Lose(e) ==
    /\ Unreadable({e})
    /\ disk' = [disk EXCEPT ![e] = -1]
    /\ UNCHANGED <<geoTime, round, found, began, fired, current, loaded, signature, retry, halted, failed>>

\* A download is over within the tick or the next (DOWNLOAD_TIMEOUT_MS), and
\* timers that are due have fired.
GeoTick ==
    /\ geoTime < MaxGeoTime
    /\ round # 0 => geoTime = began
    /\ ~halted => ~Due
    /\ round = 0 => ~retry
    /\ geoTime' = geoTime + 1
    /\ UNCHANGED <<disk, round, found, began, fired, current, loaded, signature, retry, halted, losses, failed>>

GeoRefreshInit ==
    /\ geoTime = 0
    /\ disk \in [Eds -> {-1, 0}]
    /\ round = 0 /\ found = None /\ began = -1 /\ fired = -1
    /\ current = FALSE /\ loaded = None /\ signature = None
    /\ retry = FALSE /\ halted = FALSE /\ losses = 0 /\ failed = FALSE

GeoRefreshNext ==
    \/ IntervalFires \/ RetryFires \/ Halt \/ GeoTick
    \/ \E outcome \in {"fresh", "downloaded", "failed"}, unread \in SUBSET Eds : EnsureEdition(outcome, unread)
    \/ \E unread \in SUBSET Eds : Install(unread)
    \/ \E e \in Eds : Lose(e)

GeoRefreshSpec == GeoRefreshInit /\ [][GeoRefreshNext]_geo

-----------------------------------------------------------------------------
(* Properties.                                                             *)

GeoRefreshTypeOK ==
    /\ geoTime \in 0..MaxGeoTime /\ {began, fired} \subseteq -1..MaxGeoTime
    /\ {disk, found, loaded, signature} \subseteq [Eds -> -1..MaxGeoTime]
    /\ round \in 0..(Len(Editions) + 1)
    /\ {current, retry, halted, failed} \subseteq BOOLEAN /\ losses \in 0..MaxLosses

\* Failed downloads never take an edition from the lookup or put an older build
\* in its place: only a file that is lost or cannot be read does.
KeepsWhatItHas ==
    [][losses' = 0 /\ ~halted' => \A e \in Eds : loaded[e] # -1 => loaded'[e] >= loaded[e]]_geo

\* The lookup is kept current, whatever was under way.  Between rounds, as long
\* as there is none another attempt is already scheduled sooner than the week, and
\* once stopped nothing is scheduled and nothing is open.  What is open is of the
\* builds the last change was about, all of them unless a file was lost or could
\* not be read.  And while that does not happen and every download succeeds,
\* every edition is open after the first round, in a build no older than two weeks
\* and the time between two builds.  It does get older than a week: a file fetched
\* some time into a round is a little younger than that when the interval next
\* comes, passes for fresh, and is replaced a week later (geo.mjs:665-669, 799).
LookupStaysCurrent ==
    /\ ~halted /\ round = 0 /\ fired # -1 => current \/ retry
    /\ halted => ~current /\ loaded = None /\ ~retry
    /\ \A e \in Eds : loaded[e] \in {-1, signature[e]}
    /\ losses = 0 /\ ~halted => loaded = signature
    /\ ~failed /\ losses = 0 /\ ~halted =>
          \A e \in Eds : IF loaded[e] = -1 THEN ~current ELSE geoTime - loaded[e] < 2 * Week + Rebuild
=============================================================================
