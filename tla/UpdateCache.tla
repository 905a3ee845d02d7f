----------------------------- MODULE UpdateCache -----------------------------
(***************************************************************************)
(* The update check (update.Check): every successful interactive command   *)
(* looks for a newer release at most once in 24 hours.  All the user's     *)
(* processes share one file that holds the time of the last attempt and    *)
(* the release it found.  A write is a temporary file and a rename, so it  *)
(* is one step here; between the steps of a run other runs take theirs,    *)
(* the clock moves (also back), releases appear, and any process may       *)
(* crash.                                                                  *)
(*                                                                         *)
(* Releases are numbered in the order of their versions and 0 stands for   *)
(* the empty version that stableVersion gives for anything else.           *)
(***************************************************************************)
EXTENDS Integers

CONSTANTS
    Runs,          \* the processes that check
    Installed,     \* the release they are built from
    ValidFor,      \* 24 hours, in ticks of the clock
    MaxClock,      \* bound on the clock
    MaxRelease     \* bound on the releases

ASSUME BoundsAssumption ==
    /\ ValidFor \in Nat \ {0}
    /\ MaxClock \in Nat
    /\ MaxRelease \in Nat
    /\ Installed \in 0..MaxRelease

VARIABLES
    clock,      \* the time of day
    published,  \* the latest release
    cache,      \* update.json
    pc,         \* pc[r]: where run r is
    now,        \* now[r]: the time at which run r began its check
    saved,      \* saved[r]: what run r holds of the cache
    shown,      \* shown[r]: the release in the notice of run r, 0 for no notice
    asked,      \* asked[r]: run r waited for the network
    stored,     \* stored[r]: the release run r found and put into the cache
    before,     \* before[r]: the runs that had ended when run r began
    disturbed   \* the clock was set back or the cache was edited or removed

vars == <<clock, published, cache, pc, now, saved, shown, asked, stored, before, disturbed>>
world == <<clock, published, disturbed>>

Releases == 0..MaxRelease

(* The zero cache: its zero time is more than 24 hours ago.                 *)
Empty == [at |-> -ValidFor, latest |-> 0]

Ended(r) == pc[r] \in {"done", "crashed"}

Init ==
    /\ clock = 0
    /\ published = Installed
    /\ cache = Empty
    /\ pc = [r \in Runs |-> "begin"]
    /\ now = [r \in Runs |-> 0]
    /\ saved = [r \in Runs |-> Empty]
    /\ shown = [r \in Runs |-> 0]
    /\ asked = [r \in Runs |-> FALSE]
    /\ stored = [r \in Runs |-> 0]
    /\ before = [r \in Runs |-> {}]
    /\ disturbed = FALSE

Goto(r, there) == pc' = [pc EXCEPT ![r] = there]

-----------------------------------------------------------------------------
(* Check is called with the time of the call.                               *)
Begin(r) ==
    /\ pc[r] = "begin"
    /\ Goto(r, "read")
    /\ now' = [now EXCEPT ![r] = clock]
    /\ before' = [before EXCEPT ![r] = {q \in Runs : Ended(q)}]
    /\ UNCHANGED <<world, cache, saved, shown, asked, stored>>

(* A canceled command does not check, and neither does a binary that is no  *)
(* stable release.                                                          *)
Skip(r) ==
    /\ pc[r] = "begin"
    /\ Goto(r, "done")
    /\ UNCHANGED <<world, cache, now, saved, shown, asked, stored, before>>

(* An attempt in the future of this run's clock does not count.             *)
Fresh(entry, time) == time - entry.at \in 0..(ValidFor - 1)

(* Mutant of ReadCache: the age is recorded instead of the time.            *)
ReadCacheAge(r) ==
    /\ pc[r] = "read"
    /\ IF Fresh(cache, now[r])
       THEN Goto(r, "compare") /\ saved' = [saved EXCEPT ![r] = cache]
       ELSE Goto(r, "record") /\ saved' = [saved EXCEPT ![r] = [cache EXCEPT !.at = now[r] - @]]
    /\ UNCHANGED <<world, cache, now, shown, asked, stored, before>>

(* readCache, and the age that decides whether to refresh.                  *)
ReadCache(r) ==
    /\ pc[r] = "read"
    /\ IF Fresh(cache, now[r])
       THEN Goto(r, "compare") /\ saved' = [saved EXCEPT ![r] = cache]
       ELSE Goto(r, "record") /\ saved' = [saved EXCEPT ![r] = [cache EXCEPT !.at = now[r]]]
    /\ UNCHANGED <<world, cache, now, shown, asked, stored, before>>

(* Mutant of RecordAttempt: the file is written with the answer only.       *)
RecordNothing(r) ==
    /\ pc[r] = "record"
    /\ Goto(r, "fetch")
    /\ UNCHANGED <<world, cache, now, saved, shown, asked, stored, before>>

(* The attempt is recorded first; it keeps the release already known.       *)
RecordAttempt(r) ==
    /\ pc[r] = "record"
    /\ cache' = saved[r]
    /\ Goto(r, "fetch")
    /\ UNCHANGED <<world, now, saved, shown, asked, stored, before>>

(* The request is answered: with the latest release, or with something that *)
(* is no stable release.                                                    *)
Fetch(r) ==
    /\ pc[r] = "fetch"
    /\ asked' = [asked EXCEPT ![r] = TRUE]
    /\ \E latest \in {published, 0} : saved' = [saved EXCEPT ![r].latest = latest]
    /\ Goto(r, "store")
    /\ UNCHANGED <<world, cache, now, shown, stored, before>>

(* ... or it fails within its 500 milliseconds: no notice.                  *)
FetchFails(r) ==
    /\ pc[r] = "fetch"
    /\ asked' = [asked EXCEPT ![r] = TRUE]
    /\ Goto(r, "done")
    /\ UNCHANGED <<world, cache, now, saved, shown, stored, before>>

(* Mutant of Store: the answer is used but the cache keeps what it had.     *)
StoreForgets(r) ==
    /\ pc[r] = "store"
    /\ cache' = [saved[r] EXCEPT !.latest = 0]
    /\ stored' = [stored EXCEPT ![r] = saved[r].latest]
    /\ Goto(r, "compare")
    /\ UNCHANGED <<world, now, saved, shown, asked, before>>

Store(r) ==
    /\ pc[r] = "store"
    /\ cache' = saved[r]
    /\ stored' = [stored EXCEPT ![r] = saved[r].latest]
    /\ Goto(r, "compare")
    /\ UNCHANGED <<world, now, saved, shown, asked, before>>

(* Either write fails: the check is given up.                               *)
WriteFails(r) ==
    /\ pc[r] \in {"record", "store"}
    /\ Goto(r, "done")
    /\ UNCHANGED <<world, cache, now, saved, shown, asked, stored, before>>

(* Mutant of Notice: the installed release is announced too.                *)
NoticeOfEqual(r) ==
    /\ pc[r] = "compare"
    /\ shown' = [shown EXCEPT ![r] = IF saved[r].latest >= Installed THEN saved[r].latest ELSE 0]
    /\ Goto(r, "done")
    /\ UNCHANGED <<world, cache, now, saved, asked, stored, before>>

Notice(r) ==
    /\ pc[r] = "compare"
    /\ shown' = [shown EXCEPT ![r] = IF saved[r].latest > Installed THEN saved[r].latest ELSE 0]
    /\ Goto(r, "done")
    /\ UNCHANGED <<world, cache, now, saved, asked, stored, before>>

Crash(r) ==
    /\ pc[r] \in {"read", "record", "fetch", "store", "compare"}
    /\ Goto(r, "crashed")
    /\ UNCHANGED <<world, cache, now, saved, shown, asked, stored, before>>

-----------------------------------------------------------------------------
(* The world around the runs.                                               *)
Idle == UNCHANGED <<pc, now, saved, shown, asked, stored, before>>

Tick ==
    /\ clock < MaxClock
    /\ clock' = clock + 1
    /\ Idle /\ UNCHANGED <<published, cache, disturbed>>

StepBack ==
    /\ clock > 0
    /\ clock' = clock - 1
    /\ disturbed' = TRUE
    /\ Idle /\ UNCHANGED <<published, cache>>

Publish ==
    /\ published < MaxRelease
    /\ published' = published + 1
    /\ Idle /\ UNCHANGED <<clock, cache, disturbed>>

(* The user's cache is cleared, or garbled: readCache gives the zero cache. *)
ClearCache ==
    /\ cache # Empty
    /\ cache' = Empty
    /\ disturbed' = TRUE
    /\ Idle /\ UNCHANGED <<clock, published>>

Step(r) == \/ Begin(r) \/ Skip(r) \/ ReadCache(r) \/ RecordAttempt(r) \/ Fetch(r) \/ FetchFails(r)
           \/ Store(r) \/ WriteFails(r) \/ Notice(r) \/ Crash(r)

Finished == (\A r \in Runs : Ended(r)) /\ UNCHANGED vars

Next == (\E r \in Runs : Step(r)) \/ Tick \/ StepBack \/ Publish \/ ClearCache \/ Finished

Spec == Init /\ [][Next]_vars

-----------------------------------------------------------------------------
Entry == [at : {-ValidFor} \cup 0..MaxClock, latest : Releases]

TypeOK ==
    /\ clock \in 0..MaxClock /\ published \in Releases
    /\ cache \in Entry /\ saved \in [Runs -> Entry]
    /\ pc \in [Runs -> {"begin", "read", "record", "fetch", "store", "compare", "done", "crashed"}]
    /\ now \in [Runs -> 0..MaxClock]
    /\ shown \in [Runs -> Releases] /\ stored \in [Runs -> Releases]
    /\ asked \in [Runs -> BOOLEAN]
    /\ before \in [Runs -> SUBSET Runs]
    /\ disturbed \in BOOLEAN

(* A notice names a release that exists and is newer than the installed     *)
(* one, though it comes from a cache that several runs share, some of which *)
(* crash, that may be removed or damaged, and that an upgrade leaves behind.*)
NoticeIsNewer ==
    \A r \in Runs : shown[r] # 0 => shown[r] > Installed /\ shown[r] <= published

Overlap(q, r) ==
    pc[q] # "begin" /\ pc[r] # "begin" /\ q # r /\ q \notin before[r] /\ r \notin before[q]

(* "Record the attempt first so blocked networks do not delay every         *)
(* command": a run waits for the network within 24 hours of one that waited *)
(* before it only through a third run that overlapped one of them: it put   *)
(* its own older time over the attempt of the first, or a time that is      *)
(* still to come for the second.                                            *)
NoRepeatedDelay ==
    ~disturbed =>
        \A q, r \in Runs :
            asked[q] /\ asked[r] /\ q \in before[r] /\ now[r] - now[q] < ValidFor
                => \E p \in Runs : \/ Overlap(p, q) /\ now[p] < now[q]
                                   \/ Overlap(p, r) /\ now[p] > now[r]

Kept(r) == clock - now[r] < ValidFor => cache.latest >= stored[r]

(* A result is lost from the cache within its 24 hours only to a run that   *)
(* overlapped the one that found it.                                        *)
ResultLostToOverlapOnly ==
    ~disturbed => \A r \in Runs : Kept(r) \/ \E q \in Runs : Overlap(q, r)

(* docs/updates.md: "Results and failed attempts stay in a local cache for  *)
(* 24 hours."  Two overlapping runs refute it: the attempt of the second    *)
(* puts back the release it read before the first stored its answer, and    *)
(* when its own request fails the result stays lost with no run at work.    *)
ResultStays ==
    ~disturbed /\ (\A r \in Runs : pc[r] = "begin" \/ Ended(r)) => \A r \in Runs : Kept(r)
=============================================================================
