-------------------------- MODULE UpdateCacheProofs --------------------------
(***************************************************************************)
(* Theorems about UpdateCache, for any runs, clock and releases.           *)
(***************************************************************************)
EXTENDS UpdateCache, TLAPS

(* The shared cache and what the runs hold keep their types.                *)
THEOREM Typing == Spec => []TypeOK
<1> USE BoundsAssumption DEF Releases, Entry, Empty
<1>1. Init => TypeOK
  <2>1. -ValidFor \in {-ValidFor} \cup 0..MaxClock /\ 0 \in 0..MaxRelease
    OBVIOUS
  <2>2. Empty \in Entry
    BY <2>1
  <2>3. Installed \in Releases /\ 0 \in Releases /\ 0 \in 0..MaxClock
    OBVIOUS
  <2> HIDE DEF Releases, Entry, Empty
  <2> QED
    BY <2>2, <2>3 DEF Init, TypeOK
<1>2. TypeOK /\ [Next]_vars => TypeOK'
  <2> SUFFICES ASSUME TypeOK, [Next]_vars PROVE TypeOK'
    OBVIOUS
  <2> USE DEF TypeOK, Goto, world
  <2>1. ASSUME NEW r \in Runs, Begin(r) \/ Skip(r) PROVE TypeOK'
    <3>1. UNCHANGED <<clock, published, disturbed, cache, saved, shown, asked, stored>>
      BY <2>1 DEF Begin, Skip
    <3>2. PICK there \in {"read", "done"} : pc' = [pc EXCEPT ![r] = there]
      BY <2>1 DEF Begin, Skip
    <3>3. now' \in [Runs -> 0..MaxClock]
      BY <2>1 DEF Begin, Skip
    <3>4. before' \in [Runs -> SUBSET Runs]
      <4>1. {q \in Runs : Ended(q)} \in SUBSET Runs
        OBVIOUS
      <4> QED
        BY <2>1, <4>1 DEF Begin, Skip
    <3> HIDE DEF Releases, Entry, Empty
    <3>5. pc' \in [Runs -> {"begin", "read", "record", "fetch", "store", "compare", "done",
                            "crashed"}]
      BY <3>2
    <3> QED
      BY <3>1, <3>3, <3>4, <3>5, Zenon
  <2>2. ASSUME NEW r \in Runs, ReadCache(r) PROVE TypeOK'
    <3>1. [cache EXCEPT !.at = now[r]] \in Entry
      OBVIOUS
    <3>2. saved' \in [Runs -> Entry]
      BY <2>2, <3>1 DEF ReadCache
    <3>3. PICK there \in {"compare", "record"} : pc' = [pc EXCEPT ![r] = there]
      BY <2>2 DEF ReadCache
    <3>4. UNCHANGED <<clock, published, disturbed, cache, now, shown, asked, stored, before>>
      BY <2>2 DEF ReadCache
    <3> QED
      BY <3>2, <3>3, <3>4
  <2>3. ASSUME NEW r \in Runs, RecordAttempt(r) \/ Store(r) PROVE TypeOK'
    <3>1. saved[r] \in Entry /\ saved[r].latest \in Releases
      OBVIOUS
    <3>2. cache' \in Entry /\ stored' \in [Runs -> Releases]
      BY <2>3, <3>1 DEF RecordAttempt, Store
    <3>3. UNCHANGED <<clock, published, disturbed, saved, now, shown, asked, before>>
      BY <2>3 DEF RecordAttempt, Store
    <3>4. pc' \in [Runs -> {"begin", "read", "record", "fetch", "store", "compare", "done",
                            "crashed"}]
      BY <2>3 DEF RecordAttempt, Store
    <3> QED
      BY <3>2, <3>3, <3>4
  <2>4. ASSUME NEW r \in Runs, Fetch(r) PROVE TypeOK'
    <3>1. PICK latest \in {published, 0} : saved' = [saved EXCEPT ![r].latest = latest]
      BY <2>4 DEF Fetch
    <3>2. saved' \in [Runs -> Entry]
      BY <3>1
    <3> QED
      BY <2>4, <3>2 DEF Fetch
  <2>5. ASSUME NEW r \in Runs, FetchFails(r) \/ WriteFails(r) \/ Crash(r) PROVE TypeOK'
    BY <2>5 DEF FetchFails, WriteFails, Crash
  <2>6. ASSUME NEW r \in Runs, Notice(r) PROVE TypeOK'
    BY <2>6 DEF Notice
  <2>7. CASE Tick \/ StepBack \/ Publish \/ ClearCache
    <3>1. UNCHANGED <<pc, now, saved, shown, asked, stored, before>>
      BY <2>7 DEF Tick, StepBack, Publish, ClearCache, Idle
    <3>2. Empty \in Entry
      OBVIOUS
    <3>3. cache' \in Entry
      BY <2>7, <3>2 DEF Tick, StepBack, Publish, ClearCache
    <3>4. clock' \in 0..MaxClock /\ published' \in Releases
      BY <2>7 DEF Tick, StepBack, Publish, ClearCache
    <3>5. disturbed' \in BOOLEAN
      BY <2>7, Zenon DEF Tick, StepBack, Publish, ClearCache
    <3> HIDE DEF Releases, Entry, Empty
    <3> QED
      BY <3>1, <3>3, <3>4, <3>5, Zenon
  <2>8. CASE UNCHANGED vars
    BY <2>8 DEF vars
  <2> QED
    BY <2>1, <2>2, <2>3, <2>4, <2>5, <2>6, <2>7, <2>8 DEF Next, Step, Finished
<1> QED
  BY <1>1, <1>2, PTL DEF Spec

-----------------------------------------------------------------------------
(* NoticeIsNewer says nothing of the cache; Notice needs that whatever is   *)
(* cached or held names a release that exists.                              *)
Known == /\ cache.latest <= published
         /\ \A r \in Runs : saved[r].latest <= published

NoticeInv == Known /\ NoticeIsNewer

(* No step makes up a release: what a run takes from the cache, keeps over  *)
(* a failed request or gets from the network exists.                        *)
LEMMA StepNotice ==
    ASSUME TypeOK, NoticeInv, [Next]_vars
    PROVE  NoticeInv'
<1> USE BoundsAssumption DEF TypeOK, Releases, Entry, Empty, NoticeInv, Known, NoticeIsNewer,
                            Goto, world
<1>1. ASSUME NEW r \in Runs, Begin(r) \/ Skip(r) PROVE NoticeInv'
  BY <1>1 DEF Begin, Skip
<1>2. ASSUME NEW r \in Runs, ReadCache(r) PROVE NoticeInv'
  <2>1. saved'[r].latest = cache.latest
    BY <1>2 DEF ReadCache
  <2>2. \A q \in Runs \ {r} : saved'[q] = saved[q]
    BY <1>2 DEF ReadCache
  <2>3. /\ published' = published /\ cache' = cache /\ shown' = shown
    BY <1>2 DEF ReadCache
  <2> QED
    BY <2>1, <2>2, <2>3
<1>3. ASSUME NEW r \in Runs, RecordAttempt(r) \/ Store(r) PROVE NoticeInv'
  BY <1>3 DEF RecordAttempt, Store
<1>4. ASSUME NEW r \in Runs, Fetch(r) PROVE NoticeInv'
  <2>1. PICK latest \in {published, 0} : saved' = [saved EXCEPT ![r].latest = latest]
    BY <1>4 DEF Fetch
  <2>2. saved'[r].latest <= published /\ \A q \in Runs \ {r} : saved'[q] = saved[q]
    BY <2>1
  <2>3. /\ published' = published /\ cache' = cache /\ shown' = shown
    BY <1>4 DEF Fetch
  <2> QED
    BY <2>2, <2>3
<1>5. ASSUME NEW r \in Runs, FetchFails(r) \/ WriteFails(r) \/ Crash(r) PROVE NoticeInv'
  BY <1>5 DEF FetchFails, WriteFails, Crash
<1>6. ASSUME NEW r \in Runs, Notice(r) PROVE NoticeInv'
  BY <1>6 DEF Notice
<1>7. CASE Tick \/ StepBack \/ Publish \/ ClearCache
  BY <1>7 DEF Tick, StepBack, Publish, ClearCache, Idle
<1>8. CASE UNCHANGED vars
  BY <1>8 DEF vars
<1> QED
  BY <1>1, <1>2, <1>3, <1>4, <1>5, <1>6, <1>7, <1>8 DEF Next, Step, Finished

(* Whatever interleaving of runs, failures and clock produced the cache, a  *)
(* notice names an existing release newer than the installed one.           *)
THEOREM NoticeHolds == Spec => []NoticeIsNewer
<1>1. Init => NoticeInv
  BY BoundsAssumption DEF Init, NoticeInv, Known, NoticeIsNewer, Empty
<1>2. TypeOK /\ TypeOK' /\ NoticeInv /\ [Next]_vars => NoticeInv'
  BY StepNotice
<1>3. NoticeInv => NoticeIsNewer
  BY DEF NoticeInv
<1> QED
  BY Typing, <1>1, <1>2, <1>3, PTL DEF Spec
-----------------------------------------------------------------------------
(* What holds of the runs while nothing is disturbed: their times are in    *)
(* the order in which they begin, and a run that records an attempt records *)
(* its own time.                                                            *)
Begun(r) == pc[r] # "begin"

Order ==
    ~disturbed =>
        \A r \in Runs :
            /\ now[r] <= clock
            /\ \A q \in before[r] : Begun(r) /\ Ended(q) /\ now[q] <= now[r]
            /\ pc[r] \in {"record", "fetch", "store"} => saved[r].at = now[r]
            /\ asked[r] => pc[r] \in {"store", "compare", "done", "crashed"}
            /\ stored[r] # 0 => pc[r] \in {"compare", "done", "crashed"}

(* What no step of the world or of another run changes of a run.            *)
Same(q) == /\ pc'[q] = pc[q] /\ now'[q] = now[q] /\ saved'[q] = saved[q]
           /\ asked'[q] = asked[q] /\ stored'[q] = stored[q] /\ before'[q] = before[q]

(* A step of a run is its own.                                              *)
LEMMA StepsAreLocal ==
    ASSUME TypeOK, NEW r \in Runs, Step(r)
    PROVE  /\ \A q \in Runs \ {r} : Same(q)
           /\ clock' = clock /\ disturbed' = disturbed
           /\ Ended(r)' \/ pc'[r] \in {"read", "record", "fetch", "store", "compare"}
           /\ ~Ended(r)
<1> USE DEF TypeOK, Goto, world, Same, Ended
<1>1. CASE Begin(r) \/ Skip(r)
  BY <1>1 DEF Begin, Skip
<1>2. CASE ReadCache(r)
  BY <1>2 DEF ReadCache
<1>3. CASE RecordAttempt(r) \/ Store(r)
  BY <1>3 DEF RecordAttempt, Store
<1>4. CASE Fetch(r)
  BY <1>4 DEF Fetch
<1>5. CASE FetchFails(r) \/ WriteFails(r) \/ Notice(r) \/ Crash(r)
  BY <1>5 DEF FetchFails, WriteFails, Notice, Crash
<1> QED
  BY <1>1, <1>2, <1>3, <1>4, <1>5 DEF Step

(* A run has its time, and the runs before it, from its first step on.      *)
LEMMA BegunStays ==
    ASSUME TypeOK, NEW r \in Runs, Step(r), Begun(r)
    PROVE  Begun(r)' /\ now'[r] = now[r] /\ before'[r] = before[r]
<1> USE DEF TypeOK, Goto, world, Begun
<1> QED
  BY DEF Step, Begin, Skip, ReadCache, RecordAttempt, Fetch, FetchFails, Store, WriteFails,
         Notice, Crash

(* The world leaves the runs alone; it only disturbs, or moves on.          *)
LEMMA WorldMoves ==
    ASSUME TypeOK, Tick \/ StepBack \/ Publish \/ ClearCache \/ UNCHANGED vars
    PROVE  /\ UNCHANGED <<pc, now, saved, shown, asked, stored, before>>
           /\ ~disturbed' => ~disturbed /\ cache' = cache /\ clock' >= clock
BY DEF TypeOK, Tick, StepBack, Publish, ClearCache, Idle, vars

(* A step is of a run or of the world.                                      *)
LEMMA Steps ==
    ASSUME [Next]_vars
    PROVE  \/ \E r \in Runs : Step(r)
           \/ Tick \/ StepBack \/ Publish \/ ClearCache \/ UNCHANGED vars
BY DEF Next, Finished

(* Overlapping is for good, and so are the times of those who overlap.      *)
LEMMA OverlapStays ==
    ASSUME TypeOK, [Next]_vars, NEW q \in Runs, NEW r \in Runs, Overlap(q, r)
    PROVE  Overlap(q, r)' /\ now'[q] = now[q] /\ now'[r] = now[r]
<1>1. ASSUME NEW s \in Runs, Step(s)
      PROVE  \A p \in {q, r} : pc'[p] # "begin" /\ now'[p] = now[p] /\ before'[p] = before[p]
  BY <1>1, StepsAreLocal, BegunStays DEF Overlap, Begun, Same
<1>2. CASE \E s \in Runs : Step(s)
  BY <1>1, <1>2 DEF Overlap
<1>3. CASE UNCHANGED <<pc, now, before>>
  BY <1>3 DEF Overlap
<1> QED
  BY <1>2, <1>3, Steps, WorldMoves

(* The steps of the runs keep the order.                                    *)
LEMMA StepOrder == ASSUME TypeOK, Order, [Next]_vars PROVE Order'
<1> SUFFICES ASSUME ~disturbed' PROVE Order'
  BY DEF Order
<1>1. ASSUME NEW s \in Runs, Step(s) PROVE Order'
  <2> DEFINE Fits(r) ==
        /\ now[r] <= clock
        /\ \A q \in before[r] : Begun(r) /\ Ended(q) /\ now[q] <= now[r]
        /\ pc[r] \in {"record", "fetch", "store"} => saved[r].at = now[r]
        /\ asked[r] => pc[r] \in {"store", "compare", "done", "crashed"}
        /\ stored[r] # 0 => pc[r] \in {"compare", "done", "crashed"}
  <2>1. /\ \A q \in Runs \ {s} : Same(q)
        /\ clock' = clock /\ ~disturbed /\ ~Ended(s)
        /\ \A r \in Runs : Fits(r)
    BY <1>1, StepsAreLocal DEF Order
  <2>2. \A r \in Runs : before[r] \subseteq Runs \ {s}
    BY <2>1 DEF TypeOK
  <2>3. \A r \in Runs \ {s} : Fits(r)'
    <3> TAKE r \in Runs \ {s}
    <3>1. Same(r) /\ Fits(r) /\ \A q \in before[r] : Same(q)
      BY <2>1, <2>2
    <3> QED
      BY <2>1, <3>1 DEF Same, Begun, Ended
  <2>4. Fits(s)'
    <3>1. CASE Begin(s)
      <4>1. now'[s] = clock /\ pc'[s] = "read" /\ asked'[s] = asked[s] /\ stored'[s] = stored[s]
            /\ before'[s] = {q \in Runs : Ended(q)}
        BY <3>1 DEF Begin, TypeOK, Goto
      <4>2. \A q \in before'[s] : Same(q) /\ Ended(q) /\ now[q] <= clock
        BY <2>1, <4>1
      <4>3. ~asked[s] /\ stored[s] = 0
        BY <2>1, <3>1 DEF Begin
      <4>4. clock \in Int
        BY DEF TypeOK
      <4> QED
        BY <2>1, <4>1, <4>2, <4>3, <4>4 DEF Same, Ended, Begun
    <3>2. ASSUME ~Begin(s)
          PROVE  /\ now'[s] = now[s] /\ before'[s] = before[s]
                 /\ pc'[s] \in {"record", "fetch", "store"} => saved'[s].at = now[s]
                 /\ asked'[s] => pc'[s] \in {"store", "compare", "done", "crashed"}
                 /\ stored'[s] # 0 => pc'[s] \in {"compare", "done", "crashed"}
                 /\ before'[s] # {} => Begun(s)'
      <4> USE DEF TypeOK, Goto, world, Begun
      <4>1. CASE Skip(s)
        BY <2>1, <4>1 DEF Skip
      <4>2. CASE ReadCache(s)
        <5>1. pc'[s] = "record" => saved'[s].at = now[s]
          BY <4>2 DEF ReadCache, Entry
        <5> QED
          BY <2>1, <4>2, <5>1 DEF ReadCache
      <4>3. CASE RecordAttempt(s) \/ Store(s)
        BY <2>1, <4>3 DEF RecordAttempt, Store
      <4>4. CASE Fetch(s)
        <5>1. PICK latest \in {published, 0} : saved' = [saved EXCEPT ![s].latest = latest]
          BY <4>4 DEF Fetch
        <5>2. saved'[s].at = saved[s].at
          BY <5>1 DEF Entry
        <5> QED
          BY <2>1, <4>4, <5>2 DEF Fetch
      <4>5. CASE FetchFails(s) \/ WriteFails(s) \/ Notice(s) \/ Crash(s)
        BY <2>1, <4>5 DEF FetchFails, WriteFails, Notice, Crash
      <4> QED
        BY <1>1, <3>2, <4>1, <4>2, <4>3, <4>4, <4>5 DEF Step
    <3>3. CASE ~Begin(s)
      <4>1. \A q \in before[s] : Same(q) /\ Ended(q) /\ now[q] <= now[s]
        BY <2>1, <2>2
      <4> QED
        BY <2>1, <3>2, <3>3, <4>1 DEF Same, Ended
    <3> QED
      BY <3>1, <3>3
  <2> QED
    BY <2>3, <2>4 DEF Order
<1>2. CASE Tick \/ StepBack \/ Publish \/ ClearCache \/ UNCHANGED vars
  <2>1. /\ UNCHANGED <<pc, now, saved, asked, stored, before>>
        /\ ~disturbed /\ clock' >= clock
    BY <1>2, WorldMoves
  <2>2. clock \in Int /\ clock' \in Int /\ \A r \in Runs : now[r] \in Int
    BY <1>2 DEF TypeOK, Tick, StepBack, Publish, ClearCache, vars
  <2> QED
    BY <2>1, <2>2 DEF Order, Begun, Ended
<1> QED
  BY <1>1, <1>2, Steps
-----------------------------------------------------------------------------
(* NoRepeatedDelay speaks of runs that have waited.  What makes it so: an   *)
(* attempt, once recorded, is put back only by an older run that overlaps;  *)
(* whatever time the cache holds is the time of a run; and a run that is to *)
(* wait saw, when it read the cache, nothing of the last 24 hours.          *)
Recorded(q) == asked[q] \/ pc[q] \in {"fetch", "store"}

PutBack(q) == \E p \in Runs : Overlap(p, q) /\ now[p] < now[q]

Ahead(r) == \E p \in Runs : Overlap(p, r) /\ now[p] > now[r]

AttemptKept(q) == Recorded(q) => cache.at >= now[q] \/ PutBack(q)

Origin == cache.at = -ValidFor \/ \E p \in Runs : Begun(p) /\ cache.at = now[p]

Waits(r) == asked[r] \/ pc[r] \in {"record", "fetch", "store"}

Apart(q, r) == now[r] - now[q] >= ValidFor \/ PutBack(q) \/ Ahead(r)

Saw(r) == Waits(r) => \A q \in before[r] : asked[q] => Apart(q, r)

Delays == ~disturbed => /\ Origin
                        /\ \A r \in Runs : AttemptKept(r) /\ Saw(r)

(* A run that another overlapped, from either side, stays so.               *)
LEMMA ExcusesStay ==
    ASSUME TypeOK, [Next]_vars, NEW r \in Runs
    PROVE  (PutBack(r) => PutBack(r)') /\ (Ahead(r) => Ahead(r)')
<1>1. \A p \in Runs : Overlap(p, r) => Overlap(p, r)' /\ now'[p] = now[p] /\ now'[r] = now[r]
  BY OverlapStays
<1> QED
  BY <1>1 DEF PutBack, Ahead

(* Two runs of which the later is at work overlap when neither comes before *)
(* the other.                                                               *)
LEMMA AtWorkOverlap ==
    ASSUME TypeOK, Order, ~disturbed, NEW p \in Runs, NEW q \in Runs,
           Begun(p), Begun(q), now[p] < now[q], ~Ended(p)
    PROVE  Overlap(p, q)
BY DEF Order, Overlap, Begun, Ended, TypeOK

(* What a run that begins now, or has ended, has recorded stays.            *)
LEMMA StepDelays ==
    ASSUME TypeOK, TypeOK', Order, Order', Delays, [Next]_vars
    PROVE  Delays'
<1> SUFFICES ASSUME ~disturbed' PROVE Delays'
  BY DEF Delays
<1>1. /\ \A r \in Runs : now[r] \in Int /\ now'[r] \in Int /\ now[r] >= 0
      /\ cache.at \in Int /\ cache'.at \in Int /\ ValidFor \in Int /\ ValidFor > 0
      /\ \A r \in Runs : saved[r].at \in Int /\ before[r] \subseteq Runs
  BY BoundsAssumption DEF TypeOK, Entry
<1>2. ASSUME NEW s \in Runs, Step(s) PROVE Delays'
  <2>1. /\ \A q \in Runs \ {s} : Same(q)
        /\ ~disturbed /\ ~Ended(s)
        /\ Origin /\ \A r \in Runs : AttemptKept(r) /\ Saw(r)
    BY <1>2, StepsAreLocal DEF Delays
  <2>2. \A r \in Runs : /\ PutBack(r) => PutBack(r)'
                        /\ Ahead(r) => Ahead(r)'
    BY ExcusesStay
  <2>3. \A q \in Runs : Begun(q) => Begun(q)' /\ now'[q] = now[q] /\ before'[q] = before[q]
    BY <1>2, <2>1, BegunStays DEF Same, Begun
  <2>4. \A r \in Runs : \A q \in before[r] : Begun(r) /\ Ended(q) /\ Begun(q) /\ q # s
    BY <2>1 DEF Order, Ended, Begun
  <2>5. cache' = cache \/ (pc[s] \in {"record", "store"} /\ cache'.at = now[s])
    <3>1. CASE RecordAttempt(s) \/ Store(s)
      BY <2>1, <3>1 DEF RecordAttempt, Store, Order
    <3>2. CASE ~(RecordAttempt(s) \/ Store(s))
      BY <1>2, <3>2 DEF Step, Begin, Skip, ReadCache, Fetch, FetchFails, WriteFails, Notice, Crash
    <3> QED
      BY <3>1, <3>2
  <2>6. Origin'
    BY <2>1, <2>3, <2>5 DEF Origin, Begun
  <2>7. ASSUME NEW r \in Runs, Recorded(r) PROVE AttemptKept(r)'
    <3>1. Begun(r)
      BY <2>1, <2>7 DEF Recorded, Begun, Order
    <3>2. CASE cache' = cache \/ PutBack(r)
      BY <2>1, <2>2, <2>3, <2>7, <3>1, <3>2 DEF AttemptKept
    <3>3. CASE cache'.at = now[s] /\ Begun(s)
      <4>1. CASE now[s] >= now[r]
        BY <2>3, <3>1, <3>3, <4>1 DEF AttemptKept
      <4>2. CASE now[s] < now[r]
        <5>1. PutBack(r)
          BY <1>1, <2>1, <3>1, <3>3, <4>2, AtWorkOverlap DEF PutBack
        <5> QED
          BY <2>2, <5>1 DEF AttemptKept
      <4> QED
        BY <1>1, <4>1, <4>2
    <3> QED
      BY <2>5, <3>2, <3>3 DEF Begun
  <2>8. ASSUME NEW r \in Runs, ~Recorded(r) PROVE AttemptKept(r)'
    <3>1. CASE RecordAttempt(s) /\ r = s
      BY <1>1, <2>1, <3>1 DEF RecordAttempt, AttemptKept, Order
    <3>2. CASE r # s
      BY <2>1, <2>8, <3>2 DEF Same, Recorded, AttemptKept
    <3>3. CASE ~RecordAttempt(s) /\ r = s
      <4>1. ~Recorded(s)'
        BY <1>2, <2>8, <3>3 DEF Recorded, TypeOK, Goto, Step, Begin, Skip, ReadCache, Fetch,
           FetchFails, Store, WriteFails, Notice, Crash
      <4> QED
        BY <3>3, <4>1 DEF AttemptKept
    <3> QED
      BY <3>1, <3>2, <3>3
  <2>9. ASSUME NEW r \in Runs, Waits(r) PROVE Saw(r)'
    <3>1. Begun(r)
      BY <2>1, <2>9 DEF Waits, Begun, Order
    <3>2. ASSUME NEW q \in before[r], asked'[q] PROVE Apart(q, r)'
      <4>1. Same(q) /\ Begun(q) /\ q \in Runs
        BY <1>1, <2>1, <2>4
      <4>2. Apart(q, r)
        BY <2>1, <2>9, <3>2, <4>1 DEF Saw, Same
      <4> QED
        BY <2>2, <2>3, <3>1, <4>1, <4>2 DEF Apart
    <3> QED
      BY <2>3, <3>1, <3>2 DEF Saw
  <2>10. ASSUME NEW r \in Runs, ~Waits(r) PROVE Saw(r)'
    <3>1. CASE ReadCache(s) /\ ~Fresh(cache, now[s]) /\ r = s
      <4>1. Begun(r) /\ ~Ended(r) /\ before'[r] = before[r]
        BY <3>1 DEF ReadCache, Begun, Ended
      <4>2. ASSUME NEW q \in before[r], asked'[q] PROVE Apart(q, r)'
        <5>1. Same(q) /\ Begun(q) /\ q \in Runs /\ Recorded(q)
          BY <1>1, <2>1, <2>4, <4>2 DEF Same, Recorded
        <5>2. CASE PutBack(q)
          BY <2>2, <5>1, <5>2 DEF Apart
        <5>3. CASE cache.at >= now[q] /\ now[r] - cache.at >= ValidFor
          BY <1>1, <2>3, <4>1, <5>1, <5>3 DEF Apart
        <5>4. CASE cache.at >= now[q] /\ cache.at > now[r]
          <6>1. PICK p \in Runs : Begun(p) /\ cache.at = now[p]
            BY <1>1, <2>1, <5>4, <5>1 DEF Origin
          <6>2. Overlap(p, r)
            BY <1>1, <2>1, <4>1, <5>4, <6>1 DEF Overlap, Order, Begun, Ended
          <6>3. Ahead(r)
            BY <5>4, <6>1, <6>2 DEF Ahead
          <6> QED
            BY <2>2, <6>3 DEF Apart
        <5> QED
          BY <1>1, <2>1, <3>1, <5>1, <5>2, <5>3, <5>4 DEF AttemptKept, Fresh
      <4> QED
        BY <4>1, <4>2 DEF Saw
    <3>2. CASE r # s
      BY <2>1, <2>10, <3>2 DEF Same, Waits, Saw
    <3>3. CASE ~(ReadCache(s) /\ ~Fresh(cache, now[s])) /\ r = s
      <4>1. ~Waits(s)'
        BY <1>2, <2>10, <3>3 DEF Waits, TypeOK, Goto, Step, Begin, Skip, ReadCache, RecordAttempt,
           Fetch, FetchFails, Store, WriteFails, Notice, Crash
      <4> QED
        BY <3>3, <4>1 DEF Saw
    <3> QED
      BY <3>1, <3>2, <3>3
  <2> QED
    BY <2>6, <2>7, <2>8, <2>9, <2>10 DEF Delays
<1>3. CASE Tick \/ StepBack \/ Publish \/ ClearCache \/ UNCHANGED vars
  <2>1. UNCHANGED <<pc, now, asked, before>> /\ ~disturbed /\ cache' = cache
    BY <1>3, WorldMoves
  <2> QED
    BY <2>1 DEF Delays, Origin, Begun, AttemptKept, Recorded, PutBack, Saw, Waits, Apart, Ahead,
           Overlap
<1> QED
  BY <1>2, <1>3, Steps

(* However many runs there are: a second wait within 24 hours is due to a   *)
(* third run that overlapped one of the two.                                *)
THEOREM NoRepeatedDelayHolds == Spec => []NoRepeatedDelay
<1>1. Init => Order /\ Delays
  <2> SUFFICES ASSUME Init PROVE Order /\ Delays
    OBVIOUS
  <2>1. \A r \in Runs : /\ now[r] = 0 /\ before[r] = {} /\ pc[r] = "begin"
                        /\ ~asked[r] /\ stored[r] = 0
    BY DEF Init
  <2>2. clock = 0 /\ cache.at = -ValidFor
    BY DEF Init, Empty
  <2> QED
    BY <2>1, <2>2 DEF Order, Delays, Origin, AttemptKept, Recorded, Saw, Waits
<1>2. /\ TypeOK /\ Order /\ [Next]_vars => Order'
      /\ TypeOK /\ TypeOK' /\ Order /\ Order' /\ Delays /\ [Next]_vars => Delays'
  BY StepOrder, StepDelays
<1>3. TypeOK /\ Order /\ Delays => NoRepeatedDelay
  <2> SUFFICES ASSUME TypeOK, Delays, ~disturbed, NEW q \in Runs, NEW r \in Runs,
                      asked[q], asked[r], q \in before[r], now[r] - now[q] < ValidFor
               PROVE  PutBack(q) \/ Ahead(r)
    BY DEF NoRepeatedDelay, PutBack, Ahead
  <2>1. now[r] \in Int /\ now[q] \in Int /\ ValidFor \in Int
    BY BoundsAssumption DEF TypeOK
  <2>2. Apart(q, r)
    BY DEF Delays, Saw, Waits
  <2> QED
    BY <2>1, <2>2 DEF Apart
<1> QED
  BY Typing, <1>1, <1>2, <1>3, PTL DEF Spec
-----------------------------------------------------------------------------
(* ResultLostToOverlapOnly says nothing of the runs that may yet write.     *)
(* After a result stored without overlap the cache is that of the run, as   *)
(* no other is about to write: those after it find its time fresh.          *)
Alone(r) == ~\E q \in Runs : Overlap(q, r)

Untouched(r) ==
    /\ cache.at = now[r] /\ cache.latest = stored[r]
    /\ \A q \in Runs \ {r} : pc[q] \notin {"record", "fetch", "store"}

Lasts(r) == stored[r] # 0 /\ Alone(r) /\ clock - now[r] < ValidFor => Untouched(r)

Lasting == ~disturbed => \A r \in Runs : Lasts(r)

(* A run at work with nothing of r among what came before it overlaps r.    *)
LEMMA AtWorkComesAfter ==
    ASSUME TypeOK, Order, ~disturbed, NEW q \in Runs, NEW r \in Runs, q # r,
           Begun(q), Begun(r), ~Ended(q), Alone(r)
    PROVE  r \in before[q] /\ now[r] <= now[q] /\ Ended(r)
BY DEF Order, Alone, Overlap, Begun, Ended, TypeOK

LEMMA StepLasting ==
    ASSUME TypeOK, TypeOK', Order, Order', Lasting, [Next]_vars
    PROVE  Lasting'
<1> SUFFICES ASSUME ~disturbed', NEW r \in Runs,
                    stored'[r] # 0, Alone(r)', clock' - now'[r] < ValidFor
             PROVE  Untouched(r)'
  BY DEF Lasting, Lasts
<1>1. /\ now[r] \in Int /\ clock \in Int /\ clock' \in Int /\ ValidFor \in Int
      /\ \A q \in Runs : now[q] \in Int
  BY BoundsAssumption DEF TypeOK
<1>2. Alone(r)
  BY OverlapStays DEF Alone
<1>3. ASSUME NEW s \in Runs, Step(s) PROVE Untouched(r)'
  <2>1. /\ \A q \in Runs \ {s} : Same(q)
        /\ clock' = clock /\ ~disturbed /\ ~Ended(s)
        /\ Ended(s)' \/ pc'[s] \in {"read", "record", "fetch", "store", "compare"}
    BY <1>3, StepsAreLocal
  <2>2. CASE stored[r] # 0
    <3>1. Begun(r) /\ pc[r] \in {"compare", "done", "crashed"}
      BY <2>1, <2>2 DEF Order, Begun
    <3>2. now'[r] = now[r]
      BY <1>3, <2>1, <3>1, BegunStays DEF Same
    <3>3. Untouched(r)
      BY <1>2, <2>1, <2>2, <3>2 DEF Lasting, Lasts
    <3>4. pc[s] \notin {"record", "fetch", "store"}
      BY <3>1, <3>3 DEF Untouched
    <3>5. cache' = cache /\ stored' = stored
      BY <1>3, <3>4 DEF Step, Begin, Skip, ReadCache, RecordAttempt, Fetch, FetchFails, Store,
         WriteFails, Notice, Crash
    <3>6. s # r => pc'[s] \notin {"record", "fetch", "store"}
      <4>1. CASE ReadCache(s) /\ s # r
        <5>1. now[r] <= now[s] /\ now[s] <= clock
          BY <1>2, <2>1, <3>1, <4>1, AtWorkComesAfter DEF ReadCache, Begun, Order
        <5>2. Fresh(cache, now[s])
          BY <1>1, <2>1, <3>2, <3>3, <5>1 DEF Fresh, Untouched
        <5> QED
          BY <4>1, <5>2 DEF ReadCache, Goto, TypeOK
      <4>2. CASE ~ReadCache(s)
        BY <1>3, <3>4, <4>2 DEF Step, Begin, Skip, RecordAttempt, Fetch, FetchFails, Store,
           WriteFails, Notice, Crash, Goto, TypeOK
      <4> QED
        BY <4>1, <4>2
    <3> QED
      BY <2>1, <3>2, <3>3, <3>5, <3>6 DEF Untouched, Same
  <2>3. CASE stored[r] = 0
    <3>1. Store(s) /\ s = r
      <4>1. stored' # stored
        BY <2>3
      <4>2. Store(s)
        BY <1>3, <4>1 DEF Step, Begin, Skip, ReadCache, RecordAttempt, Fetch, FetchFails,
           WriteFails, Notice, Crash
      <4> QED
        BY <2>1, <2>3, <4>2 DEF Same
    <3>2. /\ cache' = saved[r] /\ saved[r].at = now[r] /\ stored'[r] = saved[r].latest
          /\ now' = now /\ pc[r] = "store"
      BY <2>1, <3>1 DEF Store, Order, TypeOK
    <3>3. \A q \in Runs \ {r} : pc[q] \notin {"record", "fetch", "store"}
      BY <1>2, <2>1, <3>2, AtWorkComesAfter DEF Begun, Ended
    <3> QED
      BY <2>1, <3>1, <3>2, <3>3 DEF Untouched, Same
  <2> QED
    BY <2>2, <2>3
<1>4. CASE Tick \/ StepBack \/ Publish \/ ClearCache \/ UNCHANGED vars
  <2>1. UNCHANGED <<pc, now, stored>> /\ ~disturbed /\ cache' = cache /\ clock' >= clock
    BY <1>4, WorldMoves
  <2>2. Untouched(r)
    BY <1>1, <1>2, <2>1 DEF Lasting, Lasts
  <2> QED
    BY <2>1, <2>2 DEF Untouched
<1> QED
  BY <1>3, <1>4, Steps

(* However many runs there are: a result that is gone within its 24 hours   *)
(* was lost to a run that overlapped the one that found it.                 *)
THEOREM LostToOverlapOnly == Spec => []ResultLostToOverlapOnly
<1>1. Init => Order /\ Lasting
  <2> SUFFICES ASSUME Init PROVE Order /\ Lasting
    OBVIOUS
  <2>1. \A r \in Runs : /\ now[r] = 0 /\ before[r] = {} /\ pc[r] = "begin"
                        /\ ~asked[r] /\ stored[r] = 0
    BY DEF Init
  <2> QED
    BY <2>1 DEF Init, Order, Lasting, Lasts
<1>2. /\ TypeOK /\ Order /\ [Next]_vars => Order'
      /\ TypeOK /\ TypeOK' /\ Order /\ Order' /\ Lasting /\ [Next]_vars => Lasting'
  BY StepOrder, StepLasting
<1>3. TypeOK /\ Lasting => ResultLostToOverlapOnly
  <2> SUFFICES ASSUME TypeOK, Lasting, ~disturbed, NEW r \in Runs, Alone(r),
                      clock - now[r] < ValidFor
               PROVE  cache.latest >= stored[r]
    BY DEF ResultLostToOverlapOnly, Kept, Alone
  <2>1. cache.latest \in Int /\ cache.latest >= 0 /\ stored[r] \in Int
    BY BoundsAssumption DEF TypeOK, Entry, Releases
  <2> QED
    BY <2>1 DEF Lasting, Lasts, Untouched
<1> QED
  BY Typing, <1>1, <1>2, <1>3, PTL DEF Spec
=============================================================================
