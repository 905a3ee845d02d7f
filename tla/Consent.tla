------------------------------- MODULE Consent -------------------------------
(***************************************************************************)
(* The saved telemetry preference: one file shared by every datatf process *)
(* of the user.  "telemetry enable" and "disable" replace it (SaveConsent: *)
(* a temporary file, then a rename); inventory and export read it twice,   *)
(* in beginUsage to decide on the notice and in finishUsage to decide on   *)
(* the event.  Processes interleave, crash, and the user may edit or       *)
(* delete the file.                                                        *)
(*                                                                         *)
(* Reading the file is one step: the content it finds is the one of the    *)
(* moment of the open, or of the Lstat when there is no file.              *)
(***************************************************************************)
EXTENDS Naturals

CONSTANTS
    Runs,      \* inventory and export processes
    Savers     \* enable and disable processes

ASSUME ProcessAssumption == Runs \cap Savers = {}

VARIABLES
    file,     \* content of telemetry.json: "missing", "on", "off" or "invalid"
    env,      \* env[r]: the controls in the environment of run r
    choice,   \* choice[s]: what saver s saves
    pc,       \* pc[p]: where process p is
    noticed,  \* noticed[r]: run r printed the notice
    sent,     \* sent[r]: run r handed an event to the collector
    since     \* since[r]: what happened to the file since run r began

vars == <<file, env, choice, pc, noticed, sent, since>>

-----------------------------------------------------------------------------
(* Resolve: the controls in order, then the file.  Without a file telemetry *)
(* is on by default; a file that cannot be understood turns it off.         *)
Source(e) == CASE e = "opt-out"    -> "DO_NOT_TRACK"
               [] e = "explicit"   -> "DATATF_TELEMETRY"
               [] e = "automation" -> "automation"
               [] OTHER -> IF file = "missing" THEN "default" ELSE "config"

(* Mutant of Enabled: a saved preference that cannot be read is ignored.    *)
EnabledUnlessOff(e) == e = "explicit" \/ (e = "none" /\ file # "off")

Enabled(e) == e = "explicit" \/ (e = "none" /\ file \in {"missing", "on"})

Init ==
    /\ file \in {"missing", "on", "off", "invalid"}
    /\ env \in [Runs -> {"none", "opt-out", "explicit", "automation"}]
    /\ choice \in [Savers -> {"on", "off"}]
    /\ pc = [p \in Runs \cup Savers |-> "begin"]
    /\ noticed = [r \in Runs |-> FALSE]
    /\ sent = [r \in Runs |-> FALSE]
    /\ since = [r \in Runs |-> {}]

Move(p, there) == pc' = [pc EXCEPT ![p] = there]

(* Remember for every run in progress that the file became what.            *)
Became(what) ==
    /\ file' = what
    /\ since' = [r \in Runs |-> IF pc[r] = "working" THEN since[r] \cup {what} ELSE since[r]]

(* Mutant of Begin: the notice is left for the end of the run.              *)
BeginSilently(r) ==
    /\ pc[r] = "begin"
    /\ Move(r, "working")
    /\ since' = [since EXCEPT ![r] = {file}]
    /\ UNCHANGED <<file, env, choice, noticed, sent>>

(* beginUsage: the notice appears under the default only.                   *)
Begin(r) ==
    /\ pc[r] = "begin"
    /\ Move(r, "working")
    /\ noticed' = [noticed EXCEPT ![r] = Enabled(env[r]) /\ Source(env[r]) = "default"]
    /\ since' = [since EXCEPT ![r] = {file}]
    /\ UNCHANGED <<file, env, choice, sent>>

(* Mutant of Finish: what Begin resolved still counts (here for a notice).  *)
FinishFromBegin(r) ==
    /\ pc[r] = "working"
    /\ Move(r, "done")
    /\ sent' = [sent EXCEPT ![r] = noticed[r] \/ Enabled(env[r])]
    /\ UNCHANGED <<file, env, choice, noticed, since>>

(* finishUsage resolves again; a disabled run makes no request.             *)
Finish(r) ==
    /\ pc[r] = "working"
    /\ Move(r, "done")
    /\ sent' = [sent EXCEPT ![r] = Enabled(env[r])]
    /\ UNCHANGED <<file, env, choice, noticed, since>>

-----------------------------------------------------------------------------
(* Mutant of WriteTemp: the settings are truncated and written in place.    *)
WriteInPlace(s) ==
    /\ pc[s] = "begin"
    /\ Move(s, "rename")
    /\ Became("invalid")
    /\ UNCHANGED <<env, choice, noticed, sent>>

(* SaveConsent writes a temporary file beside the settings ...              *)
WriteTemp(s) ==
    /\ pc[s] = "begin"
    /\ Move(s, "rename")
    /\ UNCHANGED <<file, env, choice, noticed, sent, since>>

(* Mutant of Rename: the word of the command line is saved, not a boolean.  *)
RenameWord(s) ==
    /\ pc[s] = "rename"
    /\ Move(s, "saved")
    /\ Became(IF choice[s] = "on" THEN "enable" ELSE "disable")
    /\ UNCHANGED <<env, choice, noticed, sent>>

(* ... and renames it over them.                                            *)
Rename(s) ==
    /\ pc[s] = "rename"
    /\ Move(s, "saved")
    /\ Became(choice[s])
    /\ UNCHANGED <<env, choice, noticed, sent>>

(* A step of SaveConsent fails; the command reports configuration_error.    *)
SaveFails(s) ==
    /\ pc[s] \in {"begin", "rename"}
    /\ Move(s, "failed")
    /\ UNCHANGED <<file, env, choice, noticed, sent, since>>

Crash(p) ==
    /\ pc[p] \in {"begin", "working", "rename"}
    /\ Move(p, "crashed")
    /\ UNCHANGED <<file, env, choice, noticed, sent, since>>

(* The user deletes or garbles the file.                                    *)
Edit ==
    /\ \E what \in {"missing", "invalid"} \ {file} : Became(what)
    /\ UNCHANGED <<env, choice, pc, noticed, sent>>

Stopped(p) == pc[p] \in {"done", "saved", "failed", "crashed"}

Finished == (\A p \in Runs \cup Savers : Stopped(p)) /\ UNCHANGED vars

Next == \/ \E r \in Runs : Begin(r) \/ Finish(r)
        \/ \E s \in Savers : WriteTemp(s) \/ Rename(s) \/ SaveFails(s)
        \/ \E p \in Runs \cup Savers : Crash(p)
        \/ Edit
        \/ Finished

Spec == Init /\ [][Next]_vars

-----------------------------------------------------------------------------
TypeOK ==
    /\ file \in {"missing", "on", "off", "invalid"}
    /\ env \in [Runs -> {"none", "opt-out", "explicit", "automation"}]
    /\ choice \in [Savers -> {"on", "off"}]
    /\ pc \in [Runs \cup Savers -> {"begin", "working", "rename", "done", "saved", "failed",
                                    "crashed"}]
    /\ noticed \in [Runs -> BOOLEAN]
    /\ sent \in [Runs -> BOOLEAN]
    /\ since \in [Runs -> SUBSET {"missing", "on", "off", "invalid"}]

(* No event without consent or the notice: a run that sent one printed the  *)
(* notice before, or had explicit consent in its environment, or a saved    *)
(* "on" was in force while it ran, or the preference was deleted under it.  *)
EventAfterNotice ==
    \A r \in Runs : sent[r] =>
        \/ noticed[r]
        \/ env[r] = "explicit"
        \/ "on" \in since[r]
        \/ "missing" \in since[r] /\ since[r] # {"missing"}

(* An opt-out holds to the end: nothing is sent by a run in automation or   *)
(* with an environment opt-out, nor by one that found nothing but "off" or  *)
(* an unreadable file from its begin to its end.                            *)
OptOutHolds ==
    \A r \in Runs : sent[r] =>
        /\ env[r] \notin {"opt-out", "automation"}
        /\ env[r] # "explicit" => since[r] \cap {"missing", "on"} # {}

(* A disable that is saved while a run works is obeyed by that run.         *)
LateOptOutIsObeyed ==
    [][\A r \in Runs : sent'[r] /\ ~sent[r] => env[r] = "explicit" \/ file \notin {"off", "invalid"}]_vars

(* Saving a preference never loses the one there was: only the user makes   *)
(* the file disappear or unreadable, whatever crashes.                      *)
PreferenceSurvives ==
    [][\A s \in Savers : pc'[s] # pc[s] => file' = file \/ file' = choice[s]]_vars
=============================================================================
