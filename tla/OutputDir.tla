------------------------------ MODULE OutputDir ------------------------------
(***************************************************************************)
(* emit.WriteFiles: one or more runs of datatf write their artifacts into  *)
(* the same output directory.  A run first makes sure that none of its     *)
(* files is there, then creates the directory, then creates its files one  *)
(* by one in name order, each with O_EXCL.  Nothing locks the directory    *)
(* between the check and the writes.                                       *)
(*                                                                         *)
(* A file is the rank of its name in byte order (README.md comes before    *)
(* export-report.json, and so on), so that "<" is the order of             *)
(* slices.Sorted.  What is in a file is abstracted to who created it and   *)
(* whether all of its content has been written and closed.                 *)
(***************************************************************************)
EXTENDS Naturals

CONSTANTS
    Run,       \* the runs that were given this output directory
    File,      \* the files some run writes, as ranks of their names
    Names,     \* Names[r]: the files run r writes (keys of the files map)
    Outsider,  \* whoever else creates files in the directory
    Nobody     \* the owner of a file that does not exist

ASSUME FileAssumption == File \subseteq Nat
ASSUME NamesAssumption == Names \in [Run -> SUBSET File]
ASSUME OwnerAssumption == /\ Outsider \notin Run
                          /\ Nobody \notin Run \cup {Outsider}

VARIABLES
    pc,        \* pc[r]: where run r is in WriteFiles
    todo,      \* todo[r]: the names its current loop has not visited
    owner,     \* owner[f]: who created file f
    complete,  \* the files whose content was written and closed
    trouble    \* some run crashed, some call failed, or an outsider interfered

vars == <<pc, todo, owner, complete, trouble>>

Exists(f) == owner[f] # Nobody

Ended(r) == pc[r] \in {"ok", "failed", "crashed"}

(* Mutant of IsNext: the loops range over the map itself, in any order.     *)
AnyOrder(r, f) == f \in todo[r]

(* The next name of a loop over slices.Sorted(maps.Keys(files)).           *)
IsNext(r, f) == /\ f \in todo[r]
                /\ \A g \in todo[r] : f <= g

Move(r, there) == pc' = [pc EXCEPT ![r] = there]

Visit(r, f) == todo' = [todo EXCEPT ![r] = @ \ {f}]

Init ==
    /\ pc = [r \in Run |-> "check"]
    /\ todo = Names
    /\ owner \in [File -> {Outsider, Nobody}]
    /\ complete = {f \in File : owner[f] = Outsider}
    /\ trouble = \E f \in File : owner[f] = Outsider

-----------------------------------------------------------------------------
(* for _, name := range names { os.Lstat(target) }                         *)
Lstat(r) ==
    /\ pc[r] = "check"
    /\ \E f \in todo[r] :
         /\ IsNext(r, f)
         /\ IF Exists(f)
              THEN Move(r, "failed") /\ UNCHANGED todo
              ELSE Visit(r, f) /\ UNCHANGED pc
    /\ UNCHANGED <<owner, complete, trouble>>

(* os.MkdirAll(dir), after which the second loop starts from the first name *)
MkdirAll(r) ==
    /\ pc[r] = "check"
    /\ todo[r] = {}
    /\ Move(r, "create")
    /\ todo' = [todo EXCEPT ![r] = Names[r]]
    /\ UNCHANGED <<owner, complete, trouble>>

(* Mutants of Open: O_TRUNC for O_EXCL; an existing file counted as written; *)
(* waiting for an existing file to go away; the creator not recorded.        *)
OpenTruncates(r) ==
    /\ pc[r] = "create"
    /\ \E f \in todo[r] :
         /\ IsNext(r, f)
         /\ Move(r, "write")
         /\ owner' = [owner EXCEPT ![f] = r]
    /\ UNCHANGED <<todo, complete, trouble>>

OpenSkipsExisting(r) ==
    /\ pc[r] = "create"
    /\ \E f \in todo[r] :
         /\ IsNext(r, f)
         /\ IF Exists(f)
              THEN Visit(r, f) /\ UNCHANGED <<pc, owner>>
              ELSE Move(r, "write") /\ owner' = [owner EXCEPT ![f] = r] /\ UNCHANGED todo
    /\ UNCHANGED <<complete, trouble>>

OpenWaits(r) ==
    /\ pc[r] = "create"
    /\ \E f \in todo[r] :
         /\ IsNext(r, f)
         /\ ~Exists(f)
         /\ Move(r, "write") /\ owner' = [owner EXCEPT ![f] = r]
    /\ UNCHANGED <<todo, complete, trouble>>

OpenAnonymous(r) ==
    /\ pc[r] = "create"
    /\ \E f \in todo[r] :
         /\ IsNext(r, f)
         /\ ~Exists(f)
         /\ Move(r, "write") /\ owner' = [owner EXCEPT ![f] = pc[r]]
    /\ UNCHANGED <<todo, complete, trouble>>

(* os.OpenFile(target, O_WRONLY|O_CREATE|O_EXCL)                           *)
Open(r) ==
    /\ pc[r] = "create"
    /\ \E f \in todo[r] :
         /\ IsNext(r, f)
         /\ IF Exists(f)
              THEN Move(r, "failed") /\ UNCHANGED owner
              ELSE Move(r, "write") /\ owner' = [owner EXCEPT ![f] = r]
    /\ UNCHANGED <<todo, complete, trouble>>

(* Mutant of Write: the loop goes on without the content on disk.           *)
WriteWithoutClose(r) ==
    /\ pc[r] = "write"
    /\ \E f \in todo[r] : IsNext(r, f) /\ Visit(r, f)
    /\ Move(r, "create")
    /\ UNCHANGED <<owner, complete, trouble>>

(* file.Write(data), file.Close(); then the loop goes to the next name      *)
Write(r) ==
    /\ pc[r] = "write"
    /\ \E f \in todo[r] :
         /\ IsNext(r, f)
         /\ complete' = complete \cup {f}
         /\ Visit(r, f)
    /\ Move(r, "create")
    /\ UNCHANGED <<owner, trouble>>

Return(r) ==
    /\ pc[r] = "create"
    /\ todo[r] = {}
    /\ Move(r, "ok")
    /\ UNCHANGED <<todo, owner, complete, trouble>>

(* Any call may fail: Lstat and MkdirAll (permission), OpenFile, Write and  *)
(* Close (full disk).  What was written stays: the code removes nothing.    *)
CallFails(r) ==
    /\ ~Ended(r)
    /\ Move(r, "failed")
    /\ trouble' = TRUE
    /\ UNCHANGED <<todo, owner, complete>>

Crash(r) ==
    /\ ~Ended(r)
    /\ Move(r, "crashed")
    /\ trouble' = TRUE
    /\ UNCHANGED <<todo, owner, complete>>

(* Somebody else puts a file (or a symbolic link) at one of the names.      *)
Interfere(f) ==
    /\ ~Exists(f)
    /\ owner' = [owner EXCEPT ![f] = Outsider]
    /\ complete' = complete \cup {f}
    /\ trouble' = TRUE
    /\ UNCHANGED <<pc, todo>>

Step(r) == Lstat(r) \/ MkdirAll(r) \/ Open(r) \/ Write(r) \/ Return(r)

Finished == (\A r \in Run : Ended(r)) /\ UNCHANGED vars

Next == \/ \E r \in Run : Step(r) \/ CallFails(r) \/ Crash(r)
        \/ \E f \in File : Interfere(f)
        \/ Finished

Spec == Init /\ [][Next]_vars

(* The operating system schedules every run that has not ended.             *)
FairSpec == Spec /\ \A r \in Run : WF_vars(Step(r))

-----------------------------------------------------------------------------
TypeOK ==
    /\ pc \in [Run -> {"check", "create", "write", "ok", "failed", "crashed"}]
    /\ todo \in [Run -> SUBSET File]
    /\ owner \in [File -> Run \cup {Outsider, Nobody}]
    /\ complete \in SUBSET File
    /\ trouble \in BOOLEAN

(* A run that reports success has every one of its files, whole, and none   *)
(* of them was created by anybody else, whatever raced with it between its  *)
(* check and its writes.                                                    *)
SuccessIsComplete ==
    \A r \in Run : pc[r] = "ok" =>
        \A f \in Names[r] : owner[f] = r /\ f \in complete

(* What a caller sees of a run.                                             *)
Result(r) == CASE pc[r] = "ok" -> "ok"
               [] pc[r] \in {"failed", "crashed"} -> "stopped"
               [] OTHER -> "running"

Claimed == INSTANCE Claims WITH whole <- complete, result <- [r \in Run |-> Result(r)]

(* emit: "It refuses to overwrite existing artifacts."  The two loops and   *)
(* O_EXCL keep the promise of Claims: a file that was there, finished or    *)
(* half-written, is never taken over, rewritten or completed by another     *)
(* run, and success means all files.                                        *)
ImplementsClaims == Claimed!Spec

(* A file is left half-written only by a run that is writing it now, or by  *)
(* one that failed or crashed while writing it.                             *)
HalfWrittenIsExplained ==
    \A f \in File : Exists(f) /\ f \notin complete =>
        /\ owner[f] \in Run
        /\ IsNext(owner[f], f)
        /\ pc[owner[f]] \in {"write", "failed", "crashed"}

(* Runs that collide in one directory do not all lose: with no crash, no    *)
(* failing call and no outsider, one of them succeeds.  The check alone     *)
(* does not give this; it is the common creation order that does.           *)
SomeRunSucceeds ==
    ~trouble /\ Run # {} /\ (\A r \in Run : Ended(r))
        => \E r \in Run : pc[r] = "ok"

(* WriteFiles returns.                                                      *)
EveryRunEnds == \A r \in Run : <>Ended(r)
=============================================================================
