---------------------------- MODULE ConsentProofs ----------------------------
(***************************************************************************)
(* Theorems about Consent, for any number of runs and savers.              *)
(***************************************************************************)
EXTENDS Consent, TLAPS

(* The settings file, the processes and what they did keep their types.     *)
THEOREM Typing == Spec => []TypeOK
<1> USE ProcessAssumption
<1>1. Init => TypeOK
  BY DEF Init, TypeOK
<1>2. TypeOK /\ [Next]_vars => TypeOK'
  <2> SUFFICES ASSUME TypeOK, [Next]_vars PROVE TypeOK'
    OBVIOUS
  <2> USE DEF TypeOK, Move
  <2>1. ASSUME NEW r \in Runs, Begin(r) PROVE TypeOK'
    <3>1. noticed' \in [Runs -> BOOLEAN]
      BY <2>1, Zenon DEF Begin, Enabled, Source
    <3> QED
      BY <2>1, <3>1 DEF Begin
  <2>2. ASSUME NEW r \in Runs, Finish(r) PROVE TypeOK'
    <3>1. sent' \in [Runs -> BOOLEAN]
      BY <2>2, Zenon DEF Finish, Enabled
    <3> QED
      BY <2>2, <3>1 DEF Finish
  <2>3. ASSUME NEW s \in Savers, WriteTemp(s) \/ SaveFails(s) PROVE TypeOK'
    BY <2>3 DEF WriteTemp, SaveFails
  <2>4. ASSUME NEW s \in Savers, Rename(s) PROVE TypeOK'
    BY <2>4 DEF Rename, Became
  <2>5. ASSUME NEW p \in Runs \cup Savers, Crash(p) PROVE TypeOK'
    BY <2>5 DEF Crash
  <2>6. CASE Edit
    BY <2>6 DEF Edit, Became
  <2>7. CASE UNCHANGED vars
    BY <2>7 DEF vars
  <2> QED
    BY <2>1, <2>2, <2>3, <2>4, <2>5, <2>6, <2>7 DEF Next, Finished
<1> QED
  BY <1>1, <1>2, PTL DEF Spec

-----------------------------------------------------------------------------
(* What a run in progress has seen: the present content of the file is part *)
(* of since, and a run under the default that saw no file at all has        *)
(* printed the notice.  Finish needs both.                                  *)
Watching(r) ==
    /\ pc[r] # "done" => ~sent[r]
    /\ pc[r] = "working" => file \in since[r]
    /\ pc[r] = "working" /\ env[r] = "none" /\ since[r] = {"missing"} => noticed[r]

ConsentInv == /\ \A r \in Runs : Watching(r)
              /\ EventAfterNotice
              /\ OptOutHolds

(* A change of the file is seen by every run in progress.                   *)
LEMMA BecameKeeps ==
    ASSUME TypeOK, ConsentInv, NEW what \in {"missing", "on", "off", "invalid"}, Became(what),
           UNCHANGED <<env, noticed, sent>>,
           \A r \in Runs : pc'[r] = pc[r]
    PROVE  ConsentInv'
<1> USE DEF TypeOK, Became, Watching
<1>1. ASSUME NEW r \in Runs, pc[r] = "working" PROVE since'[r] = since[r] \cup {what} /\ ~sent[r]
  BY <1>1 DEF ConsentInv
<1>2. ASSUME NEW r \in Runs, pc[r] # "working" PROVE since'[r] = since[r]
  BY <1>2
<1>3. ASSUME NEW r \in Runs PROVE Watching(r)'
  <2>1. CASE pc[r] = "working"
    <3>1. since[r] # {}
      BY <2>1 DEF ConsentInv
    <3>2. since'[r] = {"missing"} => since[r] = {"missing"}
      BY <2>1, <3>1, <1>1
    <3> QED
      BY <2>1, <3>2, <1>1 DEF ConsentInv
  <2>2. CASE pc[r] # "working"
    BY <2>2, <1>2 DEF ConsentInv
  <2> QED
    BY <2>1, <2>2
<1>4. EventAfterNotice'
  BY <1>1, <1>2 DEF ConsentInv, EventAfterNotice
<1>5. OptOutHolds'
  BY <1>1, <1>2 DEF ConsentInv, OptOutHolds
<1> QED
  BY <1>3, <1>4, <1>5 DEF ConsentInv

(* Every step of a run, a saver or the user keeps the strengthened           *)
(* invariant.                                                               *)
LEMMA StepConsent ==
    ASSUME TypeOK, ConsentInv, [Next]_vars
    PROVE  ConsentInv'
<1> USE ProcessAssumption DEF TypeOK, Move
<1>1. ASSUME NEW r \in Runs, Begin(r) PROVE ConsentInv'
  <2>1. noticed'[r] = (Enabled(env[r]) /\ Source(env[r]) = "default")
    BY <1>1, Zenon DEF Begin
  <2>2. env[r] = "none" /\ file = "missing" => noticed'[r]
    BY <2>1 DEF Enabled, Source
  <2>3. since'[r] = {file} /\ pc'[r] = "working" /\ ~sent[r] /\ sent' = sent /\ file' = file
        /\ env' = env
    BY <1>1 DEF Begin, ConsentInv, Watching
  <2>4. ASSUME NEW q \in Runs \ {r}
        PROVE  since'[q] = since[q] /\ pc'[q] = pc[q] /\ noticed'[q] = noticed[q]
    BY <1>1, Zenon DEF Begin
  <2>5. ASSUME NEW q \in Runs PROVE Watching(q)'
    BY <2>2, <2>3, <2>4 DEF Watching, ConsentInv
  <2> QED
    BY <2>3, <2>4, <2>5 DEF ConsentInv, EventAfterNotice, OptOutHolds
<1>2. ASSUME NEW r \in Runs, Finish(r) PROVE ConsentInv'
  <2>1. sent'[r] = Enabled(env[r])
    BY <1>2, Zenon DEF Finish
  <2>2. pc[r] = "working" /\ pc'[r] = "done" /\ file \in since[r]
    BY <1>2 DEF Finish, ConsentInv, Watching
  <2>3. ASSUME NEW q \in Runs \ {r} PROVE sent'[q] = sent[q] /\ pc'[q] = pc[q]
    BY <1>2, Zenon DEF Finish
  <2>4. UNCHANGED <<file, env, noticed, since>>
    BY <1>2 DEF Finish
  <2>5. ASSUME NEW q \in Runs PROVE Watching(q)'
    BY <2>2, <2>3, <2>4 DEF Watching, ConsentInv
  <2>6. sent'[r] => \/ noticed[r]
                    \/ env[r] = "explicit"
                    \/ "on" \in since[r]
                    \/ "missing" \in since[r] /\ since[r] # {"missing"}
    BY <2>1, <2>2 DEF Enabled, ConsentInv, Watching
  <2>7. sent'[r] => /\ env[r] \notin {"opt-out", "automation"}
                    /\ env[r] # "explicit" => since[r] \cap {"missing", "on"} # {}
    BY <2>1, <2>2 DEF Enabled
  <2> QED
    BY <2>3, <2>4, <2>5, <2>6, <2>7 DEF ConsentInv, EventAfterNotice, OptOutHolds
<1>3. ASSUME NEW s \in Savers, WriteTemp(s) \/ SaveFails(s) PROVE ConsentInv'
  BY <1>3 DEF WriteTemp, SaveFails, ConsentInv, Watching, EventAfterNotice, OptOutHolds
<1>4. ASSUME NEW s \in Savers, Rename(s) PROVE ConsentInv'
  <2>1. \A r \in Runs : pc'[r] = pc[r]
    BY <1>4 DEF Rename
  <2> QED
    BY <1>4, <2>1, BecameKeeps DEF Rename
<1>5. ASSUME NEW p \in Runs \cup Savers, Crash(p) PROVE ConsentInv'
  <2>1. UNCHANGED <<file, env, noticed, sent, since>>
    BY <1>5 DEF Crash
  <2>2. ASSUME NEW r \in Runs PROVE Watching(r)'
    <3>1. CASE r = p
      BY <1>5, <2>1, <3>1 DEF Crash, ConsentInv, Watching
    <3>2. CASE r # p
      BY <1>5, <2>1, <3>2 DEF Crash, ConsentInv, Watching
    <3> QED
      BY <3>1, <3>2
  <2> QED
    BY <2>1, <2>2 DEF ConsentInv, EventAfterNotice, OptOutHolds
<1>6. CASE Edit
  BY <1>6, BecameKeeps DEF Edit
<1>7. CASE UNCHANGED vars
  BY <1>7 DEF vars, ConsentInv, Watching, EventAfterNotice, OptOutHolds
<1> QED
  BY <1>1, <1>2, <1>3, <1>4, <1>5, <1>6, <1>7 DEF Next, Finished

(* The strengthened invariant of runs and savers that share the file.       *)
THEOREM ConsentHolds == Spec => []ConsentInv
<1>1. Init => ConsentInv
  BY DEF Init, ConsentInv, Watching, EventAfterNotice, OptOutHolds
<1>2. TypeOK /\ ConsentInv /\ [Next]_vars => ConsentInv'
  BY StepConsent
<1> QED
  BY Typing, <1>1, <1>2, PTL DEF Spec

(* No event leaves without the notice, explicit consent, a saved consent,   *)
(* or a preference deleted under the run, however many processes share it.  *)
THEOREM NoticeComesFirst == Spec => []EventAfterNotice
<1>1. ConsentInv => EventAfterNotice
  BY DEF ConsentInv
<1> QED
  BY <1>1, ConsentHolds, PTL

(* An opt-out that lasts from begin to end of a run is obeyed.              *)
THEOREM OptOutObeyed == Spec => []OptOutHolds
<1>1. ConsentInv => OptOutHolds
  BY DEF ConsentInv
<1> QED
  BY <1>1, ConsentHolds, PTL

(* No step of a saver, and no crash of one, leaves anything but the old     *)
(* preference or the new one.                                               *)
THEOREM PreferenceKept == Spec => PreferenceSurvives
<1> DEFINE Survives == \A s \in Savers : pc'[s] # pc[s] => file' = file \/ file' = choice[s]
<1>1. TypeOK /\ [Next]_vars => [Survives]_vars
  <2> SUFFICES ASSUME TypeOK, [Next]_vars PROVE Survives
    OBVIOUS
  <2> USE ProcessAssumption DEF TypeOK, Move
  <2>1. ASSUME NEW r \in Runs, Begin(r) \/ Finish(r) PROVE Survives
    BY <2>1 DEF Begin, Finish
  <2>2. ASSUME NEW s \in Savers, WriteTemp(s) \/ SaveFails(s) PROVE Survives
    BY <2>2 DEF WriteTemp, SaveFails
  <2>3. ASSUME NEW s \in Savers, Rename(s) PROVE Survives
    BY <2>3 DEF Rename, Became
  <2>4. ASSUME NEW p \in Runs \cup Savers, Crash(p) PROVE Survives
    BY <2>4 DEF Crash
  <2>5. CASE Edit
    BY <2>5 DEF Edit
  <2>6. CASE UNCHANGED vars
    BY <2>6 DEF vars
  <2> QED
    BY <2>1, <2>2, <2>3, <2>4, <2>5, <2>6 DEF Next, Finished
<1>2. Spec => [][Survives]_vars
  BY <1>1, Typing, PTL DEF Spec
<1> QED
  BY <1>2 DEF PreferenceSurvives

(* A disable that is saved while a run works is obeyed by that run: of all  *)
(* steps only Finish sends, and it resolves the preference again.           *)
THEOREM LateOptOutObeyed == Spec => LateOptOutIsObeyed
<1> DEFINE Obeys == \A r \in Runs : sent'[r] /\ ~sent[r] =>
                      env[r] = "explicit" \/ file \notin {"off", "invalid"}
<1>1. TypeOK /\ [Next]_vars => [Obeys]_vars
  <2> SUFFICES ASSUME TypeOK, [Next]_vars PROVE Obeys
    OBVIOUS
  <2>1. ASSUME NEW r \in Runs, Finish(r) PROVE Obeys
    <3>1. sent'[r] => env[r] = "explicit" \/ file \in {"missing", "on"}
      BY <2>1 DEF Finish, Enabled, TypeOK
    <3>2. ASSUME NEW q \in Runs \ {r} PROVE sent'[q] = sent[q]
      BY <2>1, Zenon DEF Finish, TypeOK
    <3> QED
      BY <3>1, <3>2
  <2>2. CASE sent' = sent
    BY <2>2
  <2> QED
    BY <2>1, <2>2, ProcessAssumption
    DEF Next, Finished, vars, Begin, WriteTemp, Rename, SaveFails, Crash, Edit
<1>2. Spec => [][Obeys]_vars
  BY <1>1, Typing, PTL DEF Spec
<1> QED
  BY <1>2 DEF LateOptOutIsObeyed
=============================================================================
