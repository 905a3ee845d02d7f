--------------------------- MODULE OutputDirProofs ---------------------------
(***************************************************************************)
(* Proofs about OutputDir, for any set of runs, files and names: a run     *)
(* that reports success owns all of its files, files are never taken over, *)
(* and runs that collide do not all fail.                                  *)
(***************************************************************************)
EXTENDS OutputDir, TLAPS

USE FileAssumption, NamesAssumption, OwnerAssumption

(* The variables keep their types.                                         *)
THEOREM Typing == Spec => []TypeOK
<1>1. Init => TypeOK
  BY DEF Init, TypeOK
<1>2. TypeOK /\ [Next]_vars => TypeOK'
  <2> SUFFICES ASSUME TypeOK, [Next]_vars PROVE TypeOK'
    OBVIOUS
  <2>1. ASSUME NEW r \in Run, Lstat(r) PROVE TypeOK'
    BY <2>1 DEF TypeOK, Lstat, IsNext, Exists, Move, Visit
  <2>2. ASSUME NEW r \in Run, MkdirAll(r) PROVE TypeOK'
    BY <2>2 DEF TypeOK, MkdirAll, Move
  <2>3. ASSUME NEW r \in Run, Open(r) PROVE TypeOK'
    BY <2>3 DEF TypeOK, Open, IsNext, Exists, Move
  <2>4. ASSUME NEW r \in Run, Write(r) PROVE TypeOK'
    BY <2>4 DEF TypeOK, Write, IsNext, Move, Visit
  <2>5. ASSUME NEW r \in Run, Return(r) PROVE TypeOK'
    BY <2>5 DEF TypeOK, Return, Move
  <2>6. ASSUME NEW r \in Run, CallFails(r) \/ Crash(r) PROVE TypeOK'
    BY <2>6 DEF TypeOK, CallFails, Crash, Move
  <2>7. ASSUME NEW f \in File, Interfere(f) PROVE TypeOK'
    BY <2>7 DEF TypeOK, Interfere, Exists
  <2>8. CASE UNCHANGED vars
    BY <2>8 DEF TypeOK, vars
  <2> QED
    BY <2>1, <2>2, <2>3, <2>4, <2>5, <2>6, <2>7, <2>8 DEF Next, Step, Finished
<1> QED
  BY <1>1, <1>2, PTL DEF Spec

-----------------------------------------------------------------------------
(* What a run has done so far: the names its write loop has visited are     *)
(* its own whole files, and the one it is writing is its own.               *)
Progress(r) ==
    /\ todo[r] \subseteq Names[r]
    /\ pc[r] \in {"create", "write", "ok"} =>
         \A f \in Names[r] \ todo[r] : owner[f] = r /\ f \in complete
    /\ pc[r] = "ok" => todo[r] = {}
    /\ pc[r] = "write" => \A f \in File : IsNext(r, f) => owner[f] = r

Ownership == \A r \in Run : Progress(r)

(* SuccessIsComplete and HalfWrittenIsExplained are not inductive: Return   *)
(* needs what the loop did before, and Write needs who owns the next file.  *)
OwnershipInv == TypeOK /\ Ownership /\ HalfWrittenIsExplained

LEMMA InitOwnership == Init => OwnershipInv
<1> SUFFICES ASSUME Init PROVE OwnershipInv
  OBVIOUS
<1>1. TypeOK
  BY DEF Init, TypeOK
<1>2. Ownership
  BY DEF Init, Ownership, Progress
<1>3. HalfWrittenIsExplained
  BY DEF Init, HalfWrittenIsExplained, Exists
<1> QED
  BY <1>1, <1>2, <1>3 DEF OwnershipInv

LEMMA StepOwnership ==
    ASSUME OwnershipInv, TypeOK', [Next]_vars
    PROVE  OwnershipInv'
<1> USE DEF OwnershipInv, Ownership, Progress, HalfWrittenIsExplained,
            TypeOK, Exists, IsNext, Move, Visit
<1>1. ASSUME NEW r \in Run, Lstat(r) PROVE OwnershipInv'
  BY <1>1 DEF Lstat
<1>2. ASSUME NEW r \in Run, MkdirAll(r) PROVE OwnershipInv'
  BY <1>2 DEF MkdirAll
<1>3. ASSUME NEW r \in Run, Open(r) PROVE OwnershipInv'
  <2>1. PICK f \in todo[r] : /\ IsNext(r, f)
                             /\ IF Exists(f)
                                  THEN Move(r, "failed") /\ UNCHANGED owner
                                  ELSE Move(r, "write") /\ owner' = [owner EXCEPT ![f] = r]
    BY <1>3 DEF Open
  <2>2. CASE Exists(f)
    BY <1>3, <2>1, <2>2 DEF Open
  <2>3. CASE ~Exists(f)
    <3>1. /\ pc[r] = "create"
          /\ pc' = [pc EXCEPT ![r] = "write"]
          /\ owner' = [owner EXCEPT ![f] = r]
          /\ UNCHANGED <<todo, complete, trouble>>
      BY <1>3, <2>1, <2>3 DEF Open
    <3>2. \A g \in File : IsNext(r, g) => g = f
      BY <2>1
    <3>3. \A q \in Run : Progress(q)'
      BY <2>1, <2>3, <3>1, <3>2
    <3>4. HalfWrittenIsExplained'
      BY <2>1, <2>3, <3>1, <3>2
    <3> QED
      BY <3>3, <3>4
  <2> QED
    BY <2>2, <2>3
<1>4. ASSUME NEW r \in Run, Write(r) PROVE OwnershipInv'
  <2>1. PICK f \in todo[r] : /\ IsNext(r, f)
                             /\ complete' = complete \cup {f}
                             /\ Visit(r, f)
    BY <1>4 DEF Write
  <2>2. /\ pc[r] = "write"
        /\ pc' = [pc EXCEPT ![r] = "create"]
        /\ UNCHANGED <<owner, trouble>>
        /\ owner[f] = r
    BY <1>4, <2>1 DEF Write
  <2>3. \A q \in Run : Progress(q)'
    BY <2>1, <2>2
  <2>4. ASSUME NEW g \in File, Exists(g), g \notin complete, g # f
        PROVE  owner[g] # r
    BY <2>1, <2>2, <2>4
  <2>5. HalfWrittenIsExplained'
    BY <2>1, <2>2, <2>4
  <2> QED
    BY <2>3, <2>5
<1>5. ASSUME NEW r \in Run, Return(r) PROVE OwnershipInv'
  BY <1>5 DEF Return
<1>6. ASSUME NEW r \in Run, CallFails(r) \/ Crash(r) PROVE OwnershipInv'
  BY <1>6 DEF CallFails, Crash, Ended
<1>7. ASSUME NEW f \in File, Interfere(f) PROVE OwnershipInv'
  BY <1>7 DEF Interfere
<1>8. CASE UNCHANGED vars
  BY <1>8 DEF vars
<1> QED
  BY <1>1, <1>2, <1>3, <1>4, <1>5, <1>6, <1>7, <1>8 DEF Next, Step, Finished

THEOREM OwnershipHolds == Spec => []OwnershipInv
<1>1. OwnershipInv /\ TypeOK' /\ [Next]_vars => OwnershipInv'
  BY StepOwnership
<1> QED
  BY InitOwnership, Typing, <1>1, PTL DEF Spec

(* emit.WriteFiles returning nil means that every file is there, whole, and *)
(* written by this run.                                                     *)
THEOREM SuccessSafe == Spec => []SuccessIsComplete
<1>1. OwnershipInv => SuccessIsComplete
  BY DEF OwnershipInv, Ownership, Progress, SuccessIsComplete, TypeOK
<1> QED
  BY OwnershipHolds, <1>1, PTL

(* A half-written file is always the work of the run that is on it or that  *)
(* stopped on it.                                                           *)
THEOREM HalfWrittenSafe == Spec => []HalfWrittenIsExplained
<1>1. OwnershipInv => HalfWrittenIsExplained
  BY DEF OwnershipInv
<1> QED
  BY OwnershipHolds, <1>1, PTL

(* Every step of WriteFiles claims a file, finishes one, ends a run or is   *)
(* not seen: the two loops and O_EXCL implement a directory of files that   *)
(* never change hands.                                                      *)
LEMMA StepClaims ==
    ASSUME OwnershipInv, OwnershipInv', Next
    PROVE  Claimed!Next \/ UNCHANGED <<owner, complete, [r \in Run |-> Result(r)]>>
<1> DEFINE results == [r \in Run |-> Result(r)]
<1> USE DEF OwnershipInv, TypeOK
<1>0. ASSUME NEW r \in Run, NEW there, Move(r, there), there \in {"create", "write"},
             ~Ended(r)
      PROVE  results' = results
  <2>1. \A q \in Run : Result(q)' = Result(q)
    BY <1>0 DEF Move, Result, Ended
  <2> QED
    BY <2>1
<1>1. ASSUME NEW r \in Run, ~Ended(r), NEW there, there \in {"failed", "crashed"},
             Move(r, there), UNCHANGED <<owner, complete>>
      PROVE  Claimed!Stop(r)
  <2>1. results[r] = "running" /\ results' = [results EXCEPT ![r] = "stopped"]
    BY <1>1 DEF Move, Result, Ended
  <2> QED
    BY <1>1, <2>1 DEF Claimed!Stop
<1>2. ASSUME NEW r \in Run, Lstat(r)
      PROVE  Claimed!Stop(r) \/ UNCHANGED <<owner, complete, results>>
  <2>1. ~Ended(r) /\ UNCHANGED <<owner, complete>>
    BY <1>2 DEF Lstat, Ended
  <2>2. CASE Move(r, "failed")
    BY <1>1, <2>1, <2>2
  <2>3. CASE UNCHANGED pc
    BY <2>1, <2>3 DEF Result
  <2> QED
    BY <1>2, <2>2, <2>3 DEF Lstat
<1>3. ASSUME NEW r \in Run, MkdirAll(r) PROVE UNCHANGED <<owner, complete, results>>
  BY <1>0, <1>3 DEF MkdirAll, Ended
<1>4. ASSUME NEW r \in Run, Open(r)
      PROVE  Claimed!Stop(r) \/ \E f \in File : Claimed!Claim(r, f)
  <2>1. PICK f \in todo[r] : IF Exists(f) THEN Move(r, "failed") /\ UNCHANGED owner
                             ELSE Move(r, "write") /\ owner' = [owner EXCEPT ![f] = r]
    BY <1>4 DEF Open
  <2>2. pc[r] = "create" /\ ~Ended(r) /\ complete' = complete
    BY <1>4 DEF Open, Ended
  <2>3. CASE Exists(f)
    BY <1>1, <2>1, <2>2, <2>3
  <2>4. CASE ~Exists(f)
    <3>1. f \in Names[r] /\ f \in File /\ owner[f] = Nobody
      BY <2>1, <2>4 DEF Ownership, Progress, Exists
    <3>2. \A g \in File : owner[g] = r => g \in complete
      BY <2>2 DEF HalfWrittenIsExplained, Exists
    <3>3. results[r] = "running" /\ results' = results
      BY <1>0, <2>1, <2>2, <2>4 DEF Result
    <3> QED
      BY <2>1, <2>2, <2>4, <3>1, <3>2, <3>3 DEF Claimed!Claim
  <2> QED
    BY <2>3, <2>4
<1>5. ASSUME NEW r \in Run, Write(r)
      PROVE  UNCHANGED <<owner, complete, results>> \/ \E f \in File : Claimed!Finish(r, f)
  <2>1. PICK f \in todo[r] : IsNext(r, f) /\ complete' = complete \cup {f}
    BY <1>5 DEF Write
  <2>2. /\ pc[r] = "write" /\ ~Ended(r) /\ owner' = owner
        /\ Move(r, "create")
    BY <1>5 DEF Write, Ended
  <2>3. f \in File /\ owner[f] = r
    BY <2>1, <2>2 DEF Ownership, Progress
  <2>4. results[r] = "running" /\ results' = results
    BY <1>0, <2>2 DEF Result
  <2>5. CASE f \in complete
    BY <2>1, <2>2, <2>4, <2>5
  <2>6. CASE f \notin complete
    BY <2>1, <2>2, <2>3, <2>4, <2>6 DEF Claimed!Finish
  <2> QED
    BY <2>5, <2>6
<1>6. ASSUME NEW r \in Run, Return(r) PROVE Claimed!Succeed(r)
  <2>1. results[r] = "running" /\ results' = [results EXCEPT ![r] = "ok"]
    BY <1>6 DEF Return, Move, Result
  <2>2. \A f \in Names[r] : owner[f] = r /\ f \in complete
    BY <1>6 DEF Return, Ownership, Progress
  <2> QED
    BY <1>6, <2>1, <2>2 DEF Return, Claimed!Succeed
<1>7. ASSUME NEW r \in Run, CallFails(r) \/ Crash(r) PROVE Claimed!Stop(r)
  BY <1>1, <1>7 DEF CallFails, Crash
<1>8. ASSUME NEW f \in File, Interfere(f) PROVE Claimed!Appear(f)
  BY <1>8 DEF Interfere, Exists, Claimed!Appear, Result
<1>9. CASE UNCHANGED vars
  BY <1>9 DEF vars, Result
<1> QED
  BY <1>2, <1>3, <1>4, <1>5, <1>6, <1>7, <1>8, <1>9 DEF Next, Step, Finished, Claimed!Next

(* WriteFiles implements Claims, for any number of runs and files.          *)
THEOREM ClaimsAreKept == Spec => ImplementsClaims
<1>1. Init => Claimed!Init
  <2> SUFFICES ASSUME Init PROVE Claimed!Init
    OBVIOUS
  <2>1. [r \in Run |-> Result(r)] = [r \in Run |-> "running"]
    BY DEF Init, Result
  <2> QED
    BY <2>1 DEF Init, Claimed!Init
<1>2. OwnershipInv /\ OwnershipInv' /\ [Next]_vars => [Claimed!Next]_(Claimed!vars)
  <2>1. CASE UNCHANGED vars
    BY <2>1 DEF vars, Claimed!vars, Result
  <2>2. ASSUME OwnershipInv, OwnershipInv', Next PROVE [Claimed!Next]_(Claimed!vars)
    BY <2>2, StepClaims DEF Claimed!vars
  <2> QED
    BY <2>1, <2>2
<1> QED
  BY <1>1, <1>2, OwnershipHolds, PTL DEF Spec, ImplementsClaims, Claimed!Spec

-----------------------------------------------------------------------------
(* Why some run succeeds.  With no trouble, as soon as a file exists some   *)
(* run leads: it has returned, or every file that exists comes before the   *)
(* ones it has left to create (the one it is writing included).  A run that *)
(* creates a file beyond the leader's next one takes the lead from it.      *)
Leads(r) ==
    \/ pc[r] = "ok"
    \/ /\ pc[r] = "create"
       /\ \A f \in File, g \in todo[r] : Exists(f) => f < g
    \/ /\ pc[r] = "write"
       /\ \A f \in File, g \in todo[r] : Exists(f) => f <= g

Untouched == /\ \A f \in File : ~Exists(f)
             /\ \A r \in Run : pc[r] # "failed"

Contention ==
    ~trouble => /\ \A r \in Run : pc[r] # "crashed"
                /\ Untouched \/ \E r \in Run : Leads(r)

ContentionInv == OwnershipInv /\ Contention

(* Opening a file, by the leader or by another run, leaves a leader.        *)
LEMMA OpenKeepsLeader ==
    ASSUME OwnershipInv, NEW r \in Run, NEW f \in todo[r], IsNext(r, f),
           pc[r] = "create", ~Exists(f),
           pc' = [pc EXCEPT ![r] = "write"], owner' = [owner EXCEPT ![f] = r],
           todo' = todo, Untouched \/ \E q \in Run : Leads(q)
    PROVE  \E q \in Run : Leads(q)'
<1> USE DEF OwnershipInv, Ownership, Progress, TypeOK, Exists, IsNext, Leads
<1>1. CASE Untouched
  <2>1. Leads(r)'
    BY <1>1 DEF Untouched
  <2> QED
    BY <2>1
<1>2. ASSUME NEW q \in Run, Leads(q) PROVE \E p \in Run : Leads(p)'
  <2>1. CASE q = r
    <3>1. \A e \in File, g \in todo[r] : Exists(e) => e < g
      BY <1>2, <2>1
    <3>2. Leads(r)'
      BY <3>1
    <3> QED
      BY <3>2
  <2>2. CASE q # r /\ \A g \in todo[q] : f < g
    <3>1. Leads(q)'
      BY <1>2, <2>2
    <3> QED
      BY <3>1
  <2>3. CASE q # r /\ pc[q] # "ok" /\ \E g \in todo[q] : ~(f < g)
    <3>1. PICK g \in todo[q] : g <= f
      BY <2>3
    <3>2. \A e \in File : Exists(e) => e <= g
      BY <1>2, <2>3
    <3>3. \A e \in File, h \in todo[r] : Exists(e) => e <= h
      BY <3>1, <3>2
    <3>4. Leads(r)'
      BY <3>3
    <3> QED
      BY <3>4
  <2>4. CASE q # r /\ pc[q] = "ok"
    <3>1. Leads(q)'
      BY <2>4
    <3> QED
      BY <3>1
  <2> QED
    BY <2>1, <2>2, <2>3, <2>4
<1> QED
  BY <1>1, <1>2

(* Finishing a file keeps whoever leads in the lead.                        *)
LEMMA WriteKeepsLeader ==
    ASSUME OwnershipInv, NEW r \in Run, Write(r), NEW q \in Run, Leads(q)
    PROVE  Leads(q)'
<1> USE DEF OwnershipInv, TypeOK, Exists, IsNext, Leads
<1>1. PICK f \in todo[r] : /\ \A g \in todo[r] : f <= g
                           /\ todo' = [todo EXCEPT ![r] = @ \ {f}]
  BY DEF Write, Visit
<1>2. /\ pc[r] = "write"
      /\ pc' = [pc EXCEPT ![r] = "create"]
      /\ owner' = owner
  BY DEF Write, Move
<1>3. CASE q = r
  <2>1. \A e \in File : Exists(e) => e <= f
    BY <1>2, <1>3
  <2>2. \A e \in File, g \in todo[r] \ {f} : Exists(e) => e < g
    BY <1>1, <2>1
  <2> QED
    BY <1>1, <1>2, <1>3, <2>2
<1>4. CASE q # r
  BY <1>1, <1>2, <1>4
<1> QED
  BY <1>3, <1>4

LEMMA StepContention ==
    ASSUME ContentionInv, OwnershipInv', [Next]_vars
    PROVE  Contention'
<1> SUFFICES ASSUME ~trouble' PROVE /\ \A r \in Run : pc'[r] # "crashed"
                                    /\ Untouched' \/ \E r \in Run : Leads(r)'
  BY DEF Contention, Untouched, Exists, Leads
<1> USE DEF ContentionInv, OwnershipInv, TypeOK, Move, Visit
<1> DEFINE Safe == /\ \A r \in Run : pc[r] # "crashed"
                   /\ Untouched \/ \E r \in Run : Leads(r)
<1> DEFINE Goal == /\ \A r \in Run : pc'[r] # "crashed"
                   /\ Untouched' \/ \E r \in Run : Leads(r)'
<1>1. ASSUME NEW r \in Run, Lstat(r), Safe PROVE Goal
  <2>1. CASE \E f \in todo[r] : Exists(f)
    <3>1. PICK q \in Run : Leads(q)
      BY <1>1, <2>1 DEF Untouched
    <3>2. Leads(q)'
      BY <1>1, <3>1 DEF Lstat, Leads, Exists
    <3> QED
      BY <1>1, <3>2 DEF Lstat
  <2>2. CASE ~\E f \in todo[r] : Exists(f)
    <3>1. pc' = pc /\ owner' = owner
      BY <1>1, <2>2 DEF Lstat
    <3>2. ASSUME NEW q \in Run, Leads(q) PROVE Leads(q)'
      BY <1>1, <3>1, <3>2 DEF Lstat, Leads, Exists
    <3> QED
      BY <1>1, <3>1, <3>2 DEF Untouched, Exists
  <2> QED
    BY <2>1, <2>2
<1>2. ASSUME NEW r \in Run, MkdirAll(r), Safe PROVE Goal
  <2>1. ASSUME NEW q \in Run, Leads(q) PROVE Leads(q)'
    BY <1>2, <2>1 DEF MkdirAll, Leads, Exists
  <2> QED
    BY <1>2, <2>1 DEF MkdirAll, Untouched, Exists
<1>3. ASSUME NEW r \in Run, Open(r), Safe PROVE Goal
  <2>1. PICK f \in todo[r] : /\ IsNext(r, f)
                             /\ IF Exists(f)
                                  THEN Move(r, "failed") /\ UNCHANGED owner
                                  ELSE Move(r, "write") /\ owner' = [owner EXCEPT ![f] = r]
    BY <1>3 DEF Open
  <2>2. CASE Exists(f)
    <3>1. PICK q \in Run : Leads(q)
      BY <1>3, <2>2 DEF Untouched
    <3>2. q # r
      BY <1>3, <2>1, <2>2, <3>1 DEF Open, Leads
    <3>3. Leads(q)'
      BY <1>3, <2>1, <2>2, <3>1, <3>2 DEF Open, Leads, Exists
    <3> QED
      BY <1>3, <2>1, <2>2, <3>3 DEF Open
  <2>3. CASE ~Exists(f)
    <3>1. \E q \in Run : Leads(q)'
      BY <1>3, <2>1, <2>3, OpenKeepsLeader DEF Open
    <3> QED
      BY <1>3, <2>1, <2>3, <3>1 DEF Open
  <2> QED
    BY <2>2, <2>3
<1>4. ASSUME NEW r \in Run, Write(r), Safe PROVE Goal
  <2>1. ASSUME NEW q \in Run, Leads(q) PROVE Leads(q)'
    BY <1>4, <2>1, WriteKeepsLeader
  <2> QED
    BY <1>4, <2>1 DEF Write, Untouched, Exists
<1>5. ASSUME NEW r \in Run, Return(r), Safe PROVE Goal
  <2>1. Leads(r)'
    BY <1>5 DEF Return, Leads
  <2> QED
    BY <1>5, <2>1 DEF Return
<1>6. ASSUME NEW r \in Run, CallFails(r) \/ Crash(r) PROVE FALSE
  BY <1>6 DEF CallFails, Crash
<1>7. ASSUME NEW f \in File, Interfere(f) PROVE FALSE
  BY <1>7 DEF Interfere
<1>8. ASSUME UNCHANGED vars, Safe PROVE Goal
  <2>1. ASSUME NEW q \in Run, Leads(q) PROVE Leads(q)'
    BY <1>8, <2>1 DEF vars, Leads, Exists
  <2> QED
    BY <1>8, <2>1 DEF vars, Untouched, Exists
<1>9. trouble => trouble'
  BY DEF Next, Step, Finished, vars, Lstat, MkdirAll, Open, Write, Return,
         CallFails, Crash, Interfere
<1>10. Safe
  BY <1>9 DEF Contention
<1> QED
  BY <1>1, <1>2, <1>3, <1>4, <1>5, <1>6, <1>7, <1>8, <1>10 DEF Next, Step, Finished

(* Runs that collide in one directory do not all lose.                      *)
THEOREM SomeRunWins == Spec => []SomeRunSucceeds
<1>1. Init => Contention
  BY DEF Init, Contention, Untouched, Exists
<1>2. ContentionInv /\ OwnershipInv' /\ [Next]_vars => Contention'
  BY StepContention
<1>3. ContentionInv => SomeRunSucceeds
  <2> SUFFICES ASSUME ContentionInv, ~trouble, Run # {}, \A r \in Run : Ended(r)
               PROVE  \E r \in Run : pc[r] = "ok"
    BY DEF SomeRunSucceeds
  <2>1. CASE Untouched
    BY <2>1 DEF ContentionInv, Contention, Untouched, Ended
  <2>2. ASSUME NEW r \in Run, Leads(r) PROVE pc[r] = "ok"
    BY <2>2 DEF Leads, Ended
  <2> QED
    BY <2>1, <2>2 DEF ContentionInv, Contention
<1> QED
  BY <1>1, <1>2, <1>3, OwnershipHolds, PTL DEF Spec, ContentionInv
=============================================================================
