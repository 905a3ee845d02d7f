-------------------------------- MODULE Claims --------------------------------
(***************************************************************************)
(* What emit promises of an output directory, with no word on how: a file  *)
(* belongs for ever to whoever creates it, nobody but its owner finishes   *)
(* it, an owner finishes one file before it begins the next, and a run     *)
(* succeeds only when all of its files are its own and whole.              *)
(***************************************************************************)
CONSTANTS Run, File, Names, Outsider, Nobody

VARIABLES
    owner,   \* owner[f]: whose file f is
    whole,   \* the files that are finished
    result   \* result[r]: "running", "ok" or "stopped"

vars == <<owner, whole, result>>

Init ==
    /\ owner \in [File -> {Outsider, Nobody}]
    /\ whole = {f \in File : owner[f] = Outsider}
    /\ result = [r \in Run |-> "running"]

Claim(r, f) ==
    /\ result[r] = "running" /\ f \in Names[r] /\ owner[f] = Nobody
    /\ \A g \in File : owner[g] = r => g \in whole
    /\ owner' = [owner EXCEPT ![f] = r]
    /\ UNCHANGED <<whole, result>>

Finish(r, f) ==
    /\ result[r] = "running" /\ owner[f] = r /\ f \notin whole
    /\ whole' = whole \cup {f}
    /\ UNCHANGED <<owner, result>>

Succeed(r) ==
    /\ result[r] = "running"
    /\ \A f \in Names[r] : owner[f] = r /\ f \in whole
    /\ result' = [result EXCEPT ![r] = "ok"]
    /\ UNCHANGED <<owner, whole>>

Stop(r) ==
    /\ result[r] = "running"
    /\ result' = [result EXCEPT ![r] = "stopped"]
    /\ UNCHANGED <<owner, whole>>

Appear(f) ==
    /\ owner[f] = Nobody
    /\ owner' = [owner EXCEPT ![f] = Outsider]
    /\ whole' = whole \cup {f}
    /\ UNCHANGED result

Next ==
    \/ \E r \in Run : Succeed(r) \/ Stop(r) \/ \E f \in File : Claim(r, f) \/ Finish(r, f)
    \/ \E f \in File : Appear(f)

Spec == Init /\ [][Next]_vars
=============================================================================
