------------------------------- MODULE Command -------------------------------
(***************************************************************************)
(* One run of the datatf command: cli.Execute with the export and          *)
(* inventory commands (the others, --help and --version are one step).  Every stage may fail,    *)
(* the interrupt signal may come at any moment, and whatever happens the   *)
(* run ends with an exit code, files, output and at most one usage event   *)
(* that must agree with one another.                                       *)
(*                                                                         *)
(* An error is its cause, as diagnostic.Describe can see it, and the code  *)
(* that withHint attached to it ("" when none).                            *)
(***************************************************************************)
EXTENDS Naturals

CONSTANT Options   \* command lines: a set of records, see OptionsAssumption

ASSUME OptionsAssumption ==
    Options \subseteq [command : {"export", "inventory", "other", "none"},
                       json : BOOLEAN, plain : BOOLEAN, quiet : BOOLEAN,
                       allowPartial : BOOLEAN, latest : BOOLEAN]

VARIABLES
    opts,       \* the command line
    consent,    \* what telemetry.Resolve finds: "off", "default" or "on"
    cancelled,  \* the signal context is done
    pc,
    err,        \* the error the command returns, or NoErr
    usage,      \* rc.usage: outcome and error code, or NoUsage
    report,     \* status of the report: "none", "complete" or "partial"
    files,      \* what WriteFiles has left in the directory
    stdout,     \* what stdout shows: a JSON result, the help, or "result" of another command
    stderr,     \* the kinds of text written to stderr
    exit,       \* the exit code
    event       \* the usage event handed to the collector, or NoUsage

vars == <<opts, consent, cancelled, pc, err, usage, report, files, stdout, stderr, exit, event>>

NoUsage == [outcome |-> "", code |-> ""]
NoErr   == [cause |-> "", hint |-> ""]

exitOK == 0
exitErr == 1
exitUsage == 2

-----------------------------------------------------------------------------
(* diagnostic.Describe, apiAdvice and statusAdvice: the code of a cause.    *)
Describe(cause) ==
    CASE cause = "canceled"      -> "canceled"
      [] cause = "deadline"      -> "timeout"
      [] cause = "not configured" -> "configuration_error"
      [] cause = "api 401"       -> "authentication_failed"
      [] cause = "api 403"       -> "permission_denied"
      [] cause = "api 404"       -> "not_found"
      [] cause = "api 429"       -> "resource_exhausted"
      [] cause = "api 5xx"       -> "service_error"
      [] cause = "api"           -> "api_error"
      [] cause = "network"       -> "connection_failed"
      [] OTHER                   -> "operation_failed"

Causes == {"deadline", "not configured", "api 401", "api 403", "api 404", "api 429",
           "api 5xx", "api", "network", "other"}

Plainly(cause) == [cause |-> cause, hint |-> ""]

withHint(cause, code) == [cause |-> cause, hint |-> code]

workspaceError(cause) == IF Describe(cause) # "operation_failed"
                           THEN Plainly(cause)
                           ELSE withHint(cause, "workspace_error")

errUsage == Plainly("usage")

(* Mutant of CodeOf: the text of the error for its category.                *)
RawCode(e) == IF e.hint # "" THEN e.hint ELSE e.cause

(* The code writeError reports: errUsage wins, then the attached code.      *)
CodeOf(e) == CASE e.cause = "usage" -> "invalid_usage"
               [] e.cause # "usage" /\ e.hint # "" -> e.hint
               [] OTHER -> Describe(e.cause)

(* The allowlist of telemetry.Payload.                                      *)
codes == {"none", "other", "invalid_usage", "configuration_error", "authentication_failed",
          "permission_denied", "not_found", "resource_exhausted", "service_error", "api_error",
          "connection_failed", "operation_failed", "timeout", "canceled", "partial_result",
          "output_error", "workspace_error", "render_error"}

outcomes == {"complete", "partial", "error", "canceled"}

Payload(run) == [outcome |-> IF run.outcome \in outcomes THEN run.outcome ELSE "error",
                 code    |-> IF run.code \in codes THEN run.code ELSE "other"]

-----------------------------------------------------------------------------
Init ==
    /\ opts \in Options
    /\ consent \in {"off", "default", "on"}
    /\ cancelled = FALSE
    /\ pc = "args"
    /\ err = NoErr /\ usage = NoUsage /\ event = NoUsage
    /\ report = "none" /\ files = "none"
    /\ stdout = "" /\ stderr = {} /\ exit = exitOK

Goto(there) == pc' = there /\ UNCHANGED err

(* The command function returns e.                                          *)
Fail(e) == pc' = "failed" /\ err' = e

(* The causes a call that follows the context may end with now.             *)
CtxCauses == Causes \cup (IF cancelled THEN {"canceled"} ELSE {})

Interrupt ==
    /\ ~cancelled /\ pc # "exit"
    /\ cancelled' = TRUE
    /\ UNCHANGED <<opts, consent, pc, err, usage, report, files, stdout, stderr, exit, event>>

(* cobra parses the arguments: an unknown flag, command or argument fails   *)
(* before the command starts.                                               *)
ParseArgs ==
    /\ pc = "args"
    /\ Fail(errUsage) \/ Goto("prerun")
    /\ UNCHANGED <<opts, consent, cancelled, usage, report, files, stdout, stderr, exit, event>>

(* Only inventory and export are measured.                                  *)
Measured == opts.command \in {"inventory", "export"}

(* PersistentPreRunE and beginUsage, with the notice of default telemetry.  *)
PreRun ==
    /\ pc = "prerun"
    /\ IF opts.json /\ opts.plain
         THEN Fail(errUsage) /\ UNCHANGED <<usage, stderr>>
         ELSE /\ Goto(IF Measured THEN "prepare" ELSE "other")
              /\ usage' = IF Measured THEN [outcome |-> "complete", code |-> "none"] ELSE NoUsage
              /\ stderr' = IF Measured /\ consent = "default"
                             THEN stderr \cup {"notice"} ELSE stderr
    /\ UNCHANGED <<opts, consent, cancelled, report, files, stdout, exit, event>>

(* commandRequired: datatf, auth or telemetry alone print their help and    *)
(* ask for a command.                                                       *)
AskForCommand ==
    /\ pc = "other"
    /\ stdout' = IF opts.json THEN stdout ELSE "help"
    /\ Fail(errUsage)
    /\ UNCHANGED <<opts, consent, cancelled, usage, report, files, stderr, exit, event>>

(* auth status, version, telemetry, completion: they show a result and send *)
(* no event.  The client or the preference, the workspace, the output and   *)
(* the name of the shell may each be at fault.                              *)
OtherCommand ==
    /\ pc = "other" /\ opts.command = "other"
    /\ \/ Goto("returned") /\ stdout' = "result"
       \/ /\ \/ \E c \in CtxCauses : Fail(workspaceError(c)) \/ Fail(withHint(c, "configuration_error"))
             \/ Fail(Plainly("other"))
             \/ Fail(errUsage)
          /\ UNCHANGED stdout
    /\ UNCHANGED <<opts, consent, cancelled, usage, report, files, stderr, exit, event>>

-----------------------------------------------------------------------------
(* exportOptions.prepare, or resourceSelection of the inventory command.    *)
Prepare ==
    /\ pc = "prepare"
    /\ Fail(errUsage) \/ Goto("client")
    /\ UNCHANGED <<opts, consent, cancelled, usage, report, files, stdout, stderr, exit, event>>

Client ==
    /\ pc = "client"
    /\ Fail(withHint("other", "configuration_error")) \/ Goto("read")
    /\ UNCHANGED <<opts, consent, cancelled, usage, report, files, stdout, stderr, exit, event>>

(* Reader.Read, contract.Build and contract.NewReport: a cancelled read is  *)
(* an error, any other may be partial.  A partial export marks the usage.   *)
Read ==
    /\ pc = "read"
    /\ \/ \E c \in CtxCauses :
            /\ Fail(workspaceError(c))
            /\ UNCHANGED <<usage, report>>
       \/ /\ ~cancelled
          /\ report' \in {"complete", "partial"}
          /\ usage' = IF opts.command = "export" /\ report' = "partial"
                        THEN [outcome |-> "partial", code |-> "partial_result"] ELSE usage
          /\ Goto(IF opts.command = "export" THEN "check" ELSE "write")
    /\ stderr' = IF opts.quiet \/ opts.json THEN stderr ELSE stderr \cup {"progress"}
    /\ UNCHANGED <<opts, consent, cancelled, files, stdout, exit, event>>

(* partialError lists the issues on stderr, except with --json.             *)
PartialError == /\ Fail(withHint("other", "partial_result"))
                /\ stderr' = IF opts.json THEN stderr ELSE stderr \cup {"issues"}

(* Mutant of CheckReport: a partial report only warns.                      *)
CheckReportWarns ==
    /\ pc = "check"
    /\ Goto("versions")
    /\ UNCHANGED <<opts, consent, cancelled, usage, report, files, stdout, stderr, exit, event>>

(* checkReport: a partial report stops the export unless it is allowed;     *)
(* with --json the report itself is the result (writing it may fail).       *)
CheckReport ==
    /\ pc = "check"
    /\ \/ /\ report = "complete" \/ opts.allowPartial
          /\ Goto("versions") /\ UNCHANGED <<stdout, stderr>>
       \/ /\ report = "partial" /\ ~opts.allowPartial
          /\ \/ PartialError /\ stdout' = IF opts.json THEN "report" ELSE stdout
             \/ opts.json /\ Fail(Plainly("other")) /\ UNCHANGED <<stdout, stderr>>
    /\ UNCHANGED <<opts, consent, cancelled, usage, report, files, exit, event>>

(* Mutant of ResolveVersions: a lookup without a time limit never returns.  *)
ResolveVersionsForever ==
    /\ pc = "versions" /\ ~opts.latest
    /\ Goto("render")
    /\ UNCHANGED <<opts, consent, cancelled, usage, report, files, stdout, stderr, exit, event>>

(* resolveVersions asks the Registry only for --module-version latest.      *)
ResolveVersions ==
    /\ pc = "versions"
    /\ \/ Goto("render")
       \/ opts.latest /\ \E c \in CtxCauses : Fail(withHint(c, "module_version_error"))
    /\ UNCHANGED <<opts, consent, cancelled, usage, report, files, stdout, stderr, exit, event>>

Render ==
    /\ pc = "render"
    /\ Fail(withHint("other", "render_error")) \/ Goto("write")
    /\ UNCHANGED <<opts, consent, cancelled, usage, report, files, stdout, stderr, exit, event>>

(* What emit.WriteFiles leaves: all files, or some of them and an error.    *)
WriteFiles == \/ files' = "all" /\ Goto("summary")
              \/ files' \in {"none", "some"} /\ Fail(withHint("other", "output_error"))

WriteExport ==
    /\ pc = "write" /\ opts.command = "export"
    /\ WriteFiles
    /\ UNCHANGED <<opts, consent, cancelled, usage, report, stdout, stderr, exit, event>>

(* inventory --json prints the inventory and writes no file.                *)
WriteInventory ==
    /\ pc = "write" /\ opts.command = "inventory"
    /\ IF opts.json THEN Goto("summary") /\ UNCHANGED files ELSE WriteFiles
    /\ UNCHANGED <<opts, consent, cancelled, usage, report, stdout, stderr, exit, event>>

(* The summary, or the JSON result; then a partial inventory is an error.   *)
Summary ==
    /\ pc = "summary"
    /\ \/ /\ stdout' = IF ~opts.json THEN stdout
                       ELSE IF opts.command = "export" THEN "report" ELSE "inventory"
          /\ IF opts.command = "inventory" /\ report = "partial"
               THEN PartialError ELSE Goto("returned") /\ UNCHANGED stderr
       \/ opts.json /\ Fail(Plainly("other")) /\ UNCHANGED <<stdout, stderr>>
    /\ UNCHANGED <<opts, consent, cancelled, usage, report, files, exit, event>>

-----------------------------------------------------------------------------
(* writeError: the error object, the exit code and the code of the usage    *)
(* event.  When stderr cannot take the JSON object the exit code is 1.      *)
WriteError ==
    /\ pc = "failed"
    /\ Goto("returned")
    /\ usage' = IF usage = NoUsage THEN usage ELSE [usage EXCEPT !.code = CodeOf(err)]
    /\ \/ /\ exit' = IF err.cause = "usage" THEN exitUsage ELSE exitErr
          /\ stderr' = stderr \cup {"error"}
       \/ /\ opts.json
          /\ exit' = exitErr /\ UNCHANGED stderr
    /\ UNCHANGED <<opts, consent, cancelled, report, files, stdout, event>>

(* Mutant of Outcome: only the error code is updated on failure.            *)
OutcomeAsBegun(run) == run.outcome

(* What finishUsage makes of the outcome.                                   *)
Outcome(run) == CASE err = NoErr -> run.outcome
                  [] err # NoErr /\ run.code = "partial_result" -> "partial"
                  [] err # NoErr /\ run.code = "canceled" -> "canceled"
                  [] OTHER -> "error"

(* finishUsage resolves consent again and sends at most one event, whose    *)
(* delivery changes nothing.                                                *)
FinishUsage ==
    /\ pc = "returned"
    /\ Goto("update")
    /\ event' = IF usage = NoUsage \/ consent = "off" THEN NoUsage
                ELSE Payload([usage EXCEPT !.outcome = Outcome(usage)])
    /\ UNCHANGED <<opts, consent, cancelled, usage, report, files, stdout, stderr, exit>>

(* Mutant of UpdateNotice: the output mode is not looked at.                *)
UpdateNoticeAlways ==
    /\ pc = "update"
    /\ Goto("exit")
    /\ stderr' \in {stderr, stderr \cup {"update"}}
    /\ UNCHANGED <<opts, consent, cancelled, usage, report, files, stdout, exit, event>>

(* updateNotice, for an interactive run without an error or without any     *)
(* argument.                                                                *)
UpdateNotice ==
    /\ pc = "update"
    /\ Goto("exit")
    /\ \/ UNCHANGED stderr
       \/ /\ err = NoErr \/ opts.command = "none"
          /\ ~opts.json /\ ~opts.plain /\ ~opts.quiet
          /\ stderr' = stderr \cup {"update"}
    /\ UNCHANGED <<opts, consent, cancelled, usage, report, files, stdout, exit, event>>

Stage == \/ ParseArgs \/ PreRun \/ AskForCommand \/ OtherCommand \/ Prepare \/ Client
         \/ Read \/ CheckReport \/ ResolveVersions \/ Render \/ WriteExport
         \/ WriteInventory \/ Summary \/ WriteError \/ FinishUsage \/ UpdateNotice

Exited == pc = "exit" /\ UNCHANGED vars

Next == Interrupt \/ Stage \/ Exited

Spec == Init /\ [][Next]_vars

(* The one goroutine of the command is scheduled, and every call it waits   *)
(* for ends: the SDK, the Registry client, the collector (250 ms) and the   *)
(* update check (500 ms) all have time limits.                              *)
FairSpec == Spec /\ WF_vars(Stage)

-----------------------------------------------------------------------------
TypeOK ==
    /\ opts \in Options
    /\ consent \in {"off", "default", "on"}
    /\ cancelled \in BOOLEAN
    /\ pc \in {"args", "prerun", "other", "prepare", "client", "read", "check", "versions",
               "render", "write", "summary", "failed", "returned", "update", "exit"}
    /\ err \in [cause : Causes \cup {"", "usage", "canceled"},
                hint : {"", "configuration_error", "workspace_error", "partial_result",
                        "module_version_error", "render_error", "output_error"}]
    /\ usage \in [outcome : outcomes \cup {""}, code : codes \cup {"", "module_version_error"}]
    /\ report \in {"none", "complete", "partial"}
    /\ files \in {"none", "some", "all"}
    /\ stdout \in {"", "help", "result", "report", "inventory"}
    /\ stderr \in SUBSET {"notice", "progress", "issues", "error", "update"}
    /\ exit \in {exitOK, exitErr, exitUsage}
    /\ event \in [outcome : outcomes \cup {""}, code : codes \cup {""}]

Done == pc = "exit"

(* Exit code 0 can be relied on: an export left all of its files, from a    *)
(* complete report or an allowed partial one, and an inventory read         *)
(* everything and gave it out.                                              *)
ExitZeroIsUsable ==
    Done /\ exit = exitOK =>
        /\ opts.command = "export" =>
             files = "all" /\ (report = "complete" \/ (report = "partial" /\ opts.allowPartial))
        /\ opts.command = "inventory" =>
             report = "complete" /\ (IF opts.json THEN stdout = "inventory" ELSE files = "all")

(* The workspace has not been read and nothing written; stdout is empty or  *)
(* shows the help of datatf, auth or telemetry, and stderr has at most the  *)
(* notice of default telemetry, the error and the update notice.            *)
NothingStarted ==
    /\ report = "none" /\ files = "none"
    /\ stdout = "" \/ (stdout = "help" /\ ~Measured /\ ~opts.json)
    /\ stderr \cap {"progress", "issues"} = {}

(* A blocked partial export never leaves a Terraform file, and a run that   *)
(* ends with an argument error, whichever stage found it, has not started   *)
(* to read, to report progress or to write.                                 *)
BlockedWritesNothing ==
    /\ opts.command = "export" /\ report = "partial" /\ ~opts.allowPartial => files = "none"
    /\ err.cause = "usage" => NothingStarted

(* The usage event tells the same story as the exit code and the report,    *)
(* also when a partial result is followed by another failure.               *)
EventTellsTheOutcome ==
    event # NoUsage =>
        /\ event.outcome = "complete" <=> exit = exitOK /\ report = "complete"
        /\ event.outcome = "partial" =>
             report = "partial" /\ (exit = exitOK <=> opts.command = "export" /\ opts.allowPartial)
        /\ event.outcome = "canceled" => cancelled /\ exit # exitOK
        /\ event.outcome = "error" => exit # exitOK
        /\ event.code = "none" <=> event.outcome = "complete"

(* With --json nothing but the telemetry notice and the one error object    *)
(* goes to stderr, and the error object only when the command fails.        *)
JsonStderr ==
    opts.json => /\ stderr \subseteq {"notice", "error"}
                 /\ "error" \in stderr => err # NoErr

(* The command exits, whatever fails and whenever it is interrupted.        *)
CommandExits == <>Done
=============================================================================
