---------------------------- MODULE CommandProofs ----------------------------
(***************************************************************************)
(* Theorems about Command: for every set of command lines, every failure   *)
(* and an interrupt at any moment.                                         *)
(***************************************************************************)
EXTENDS Command, TLAPS

(* A failing command has an error; until it fails it has none.              *)
Failing ==
    /\ pc = "failed" => err # NoErr
    /\ pc \notin {"failed", "returned", "update", "exit"} => err = NoErr
    /\ pc \notin {"returned", "update", "exit"} => exit = exitOK
    /\ pc \in {"returned", "update", "exit"} => (exit = exitOK <=> err = NoErr)

(* Stages up to the read have left nothing; those after it have a report,   *)
(* and a partial one gets past the check of an export only when allowed.    *)
Progress ==
    /\ pc \in {"args", "prerun", "other", "prepare", "client", "read"} => report = "none"
    /\ pc \notin {"summary", "failed", "returned", "update", "exit"} => files = "none" /\ stdout = ""
    /\ pc \in {"check", "versions", "render", "write", "summary"} => report # "none"
    /\ pc \in {"prepare", "client", "read", "write", "summary"} => Measured
    /\ pc \in {"check", "versions", "render"} => opts.command = "export"
    /\ pc = "other" => ~Measured
    /\ pc \in {"versions", "render", "write", "summary"} /\ opts.command = "export" =>
         report = "complete" \/ opts.allowPartial
    /\ pc = "summary" => files = "all" \/ (opts.command = "inventory" /\ opts.json)

(* What a command without an error has done when it has returned.           *)
Usable ==
    /\ opts.command = "export" =>
         files = "all" /\ (report = "complete" \/ (report = "partial" /\ opts.allowPartial))
    /\ opts.command = "inventory" =>
         report = "complete" /\ (IF opts.json THEN stdout = "inventory" ELSE files = "all")

Returned == pc \in {"returned", "update", "exit"} /\ err = NoErr => Usable

(* What the error says of the run.                                          *)
ErrorTells ==
    /\ err.hint = "partial_result" =>
         report = "partial" /\ ~(opts.command = "export" /\ opts.allowPartial)
    /\ err.cause = "canceled" => cancelled

(* The usage as begun, marked by a partial export, until the error's code   *)
(* takes the place of its own.                                              *)
Begun == IF opts.command = "export" /\ report = "partial"
           THEN [outcome |-> "partial", code |-> "partial_result"]
           ELSE [outcome |-> "complete", code |-> "none"]

UsageTells ==
    usage # NoUsage =>
      /\ Measured
      /\ pc \notin {"args", "prerun"}
      /\ usage.outcome = Begun.outcome
      /\ usage.code = IF pc \in {"returned", "update", "exit"} /\ err # NoErr
                        THEN CodeOf(err) ELSE Begun.code

(* The first half of BlockedWritesNothing, and the second but for stderr.   *)
Blocked ==
    /\ opts.command = "export" /\ report = "partial" /\ ~opts.allowPartial => files = "none"
    /\ err.cause = "usage" =>
         /\ report = "none" /\ files = "none"
         /\ stdout = "" \/ (stdout = "help" /\ ~Measured /\ ~opts.json)

(* The second half: until the workspace is read stderr has the notice only, *)
(* and no argument error comes after that.                                  *)
Early == {"args", "prerun", "other", "prepare", "client", "read"}

Quiet == stderr \cap {"progress", "issues"} = {}

StderrTells ==
    /\ opts.json => stderr \subseteq {"notice", "error"}
    /\ "error" \in stderr => err # NoErr
    /\ pc \in Early => Quiet
    /\ err.cause = "usage" => Quiet

EventLast == event # NoUsage => pc \in {"update", "exit"}

-----------------------------------------------------------------------------
(* The parts of TypeOK, by name.                                            *)
Stages == {"args", "prerun", "other", "prepare", "client", "read", "check", "versions",
           "render", "write", "summary", "failed", "returned", "update", "exit"}

Errors == [cause : Causes \cup {"", "usage", "canceled"},
           hint : {"", "configuration_error", "workspace_error", "partial_result",
                   "module_version_error", "render_error", "output_error"}]

Usages == [outcome : outcomes \cup {""}, code : codes \cup {"", "module_version_error"}]

Events == [outcome : outcomes \cup {""}, code : codes \cup {""}]

Texts == SUBSET {"notice", "progress", "issues", "error", "update"}

Types ==
    /\ pc \in Stages /\ err \in Errors /\ usage \in Usages /\ event \in Events
    /\ stderr \in Texts
    /\ opts \in Options /\ consent \in {"off", "default", "on"} /\ cancelled \in BOOLEAN
    /\ report \in {"none", "complete", "partial"} /\ files \in {"none", "some", "all"}
    /\ stdout \in {"", "help", "result", "report", "inventory"} /\ exit \in {exitOK, exitErr, exitUsage}

(* Nothing else is in TypeOK.                                               *)
LEMMA TypesAreTypeOK == TypeOK <=> Types
BY DEF TypeOK, Types, Stages, Errors, Usages, Events, Texts

(* The errors that the stages return.                                       *)
LEMMA ErrorTypes ==
  /\ NoErr \in Errors /\ errUsage \in Errors /\ Plainly("other") \in Errors
  /\ \A hint \in {"configuration_error", "partial_result", "render_error", "output_error"} :
       withHint("other", hint) \in Errors
  /\ \A c \in Causes \cup {"canceled"} :
       /\ workspaceError(c) \in Errors
       /\ withHint(c, "configuration_error") \in Errors
       /\ withHint(c, "module_version_error") \in Errors
BY DEF Errors, NoErr, errUsage, Plainly, withHint, workspaceError, Causes

(* A context adds no cause but the interrupt.                               *)
LEMMA CauseTypes == CtxCauses \subseteq Causes \cup {"canceled"}
BY DEF CtxCauses

(* The usage that a run begins with, and that of a partial export.          *)
LEMMA UsageTypes ==
  /\ NoUsage \in Usages /\ NoUsage \in Events
  /\ [outcome |-> "complete", code |-> "none"] \in Usages
  /\ [outcome |-> "partial", code |-> "partial_result"] \in Usages
BY DEF Usages, Events, NoUsage, outcomes, codes

(* Texts that are added are of the known kinds.                             *)
LEMMA TextTypes == \A s \in Texts : \A x \in {"notice", "progress", "issues", "error", "update"} :
                     s \cup {x} \in Texts
BY DEF Texts

(* Every error has a code, which is in the allowlist but for one.           *)
LEMMA CodeType == ASSUME NEW e \in Errors
                  PROVE  CodeOf(e) \in codes \cup {"module_version_error"}
<1>1. CASE e.cause = "usage"
  BY <1>1 DEF CodeOf, codes
<1>2. CASE e.cause # "usage" /\ e.hint # ""
  <2>1. CodeOf(e) = e.hint
    BY <1>2 DEF CodeOf
  <2>2. e.hint \in {"", "configuration_error", "workspace_error", "partial_result",
                   "module_version_error", "render_error", "output_error"}
    BY DEF Errors
  <2> QED
    BY <1>2, <2>1, <2>2 DEF codes
<1>3. CASE e.cause # "usage" /\ e.hint = ""
  <2>1. CodeOf(e) = Describe(e.cause)
    BY <1>3 DEF CodeOf
  <2> QED
    BY <2>1 DEF Describe, codes
<1> QED
  BY <1>1, <1>2, <1>3

(* What a usage event carries is in the allowlists.                         *)
LEMMA PayloadType == ASSUME NEW run PROVE Payload(run) \in Events
BY DEF Payload, outcomes, codes, Events

(* Types are kept by every stage.                                           *)
THEOREM Typing == Spec => []TypeOK
<1>1. Init => Types
  BY ErrorTypes, UsageTypes DEF Init, Types, Stages, Texts
<1>2. Types /\ [Next]_vars => Types'
  <2> SUFFICES ASSUME Types, [Next]_vars PROVE Types'
    OBVIOUS
  <2> USE DEF Types, Goto, Fail, Stages
  <2>1. CASE Interrupt
    BY <2>1 DEF Interrupt
  <2>2. CASE ParseArgs
    BY <2>2, ErrorTypes DEF ParseArgs
  <2>3. CASE PreRun
    BY <2>3, ErrorTypes, UsageTypes, TextTypes DEF PreRun
  <2>4. CASE AskForCommand \/ OtherCommand
    BY <2>4, ErrorTypes, CauseTypes DEF AskForCommand, OtherCommand
  <2>5. CASE Prepare
    BY <2>5, ErrorTypes DEF Prepare
  <2>6. CASE Client
    BY <2>6, ErrorTypes DEF Client
  <2>7. CASE Read
    BY <2>7, ErrorTypes, CauseTypes, UsageTypes, TextTypes DEF Read
  <2>8. CASE CheckReport
    BY <2>8, ErrorTypes, TextTypes DEF CheckReport, PartialError
  <2>9. CASE ResolveVersions
    BY <2>9, ErrorTypes, CauseTypes DEF ResolveVersions
  <2>10. CASE Render
    BY <2>10, ErrorTypes DEF Render
  <2>11. CASE WriteExport \/ WriteInventory
    BY <2>11, ErrorTypes DEF WriteExport, WriteInventory, WriteFiles
  <2>12. CASE Summary
    BY <2>12, ErrorTypes, TextTypes DEF Summary, PartialError
  <2>13. CASE WriteError
    BY <2>13, CodeType, TextTypes DEF WriteError, Usages
  <2>14. CASE FinishUsage
    BY <2>14, PayloadType, UsageTypes DEF FinishUsage
  <2>15. CASE UpdateNotice
    BY <2>15, TextTypes DEF UpdateNotice
  <2>16. CASE Exited
    BY <2>16 DEF Exited, vars
  <2>17. CASE UNCHANGED vars
    <3>1. /\ UNCHANGED <<opts, consent, cancelled, pc, err, usage>>
          /\ UNCHANGED <<report, files, stdout, stderr, exit, event>>
      BY <2>17 DEF vars
    <3>2. /\ pc' \in Stages /\ err' \in Errors /\ usage' \in Usages /\ event' \in Events
          /\ stderr' \in Texts /\ opts' \in Options
      BY <3>1
    <3>3. /\ consent' \in {"off", "default", "on"} /\ cancelled' \in BOOLEAN
          /\ report' \in {"none", "complete", "partial"} /\ files' \in {"none", "some", "all"}
      BY <3>1
    <3>4. /\ stdout' \in {"", "help", "result", "report", "inventory"}
          /\ exit' \in {exitOK, exitErr, exitUsage}
      BY <3>1
    <3> QED
      BY <3>2, <3>3, <3>4
  <2> QED
    BY <2>1, <2>2, <2>3, <2>4, <2>5, <2>6, <2>7, <2>8, <2>9, <2>10, <2>11, <2>12, <2>13, <2>14, <2>15, <2>16, <2>17 DEF Next, Stage
<1> QED
  BY <1>1, <1>2, TypesAreTypeOK, PTL DEF Spec

-----------------------------------------------------------------------------
(* The codes that withHint attaches.                                        *)
Hints == {"configuration_error", "partial_result", "module_version_error", "render_error",
          "output_error"}

(* No error that a stage returns is NoErr, and each keeps its cause.        *)
LEMMA ErrorFacts ==
  /\ errUsage # NoErr /\ errUsage.cause = "usage" /\ errUsage.hint = ""
  /\ Plainly("other") # NoErr /\ Plainly("other").cause = "other" /\ Plainly("other").hint = ""
  /\ \A h \in Hints : LET e == withHint("other", h)
                      IN  e # NoErr /\ e.cause = "other" /\ e.hint = h
  /\ \A c \in CtxCauses :
       /\ c = "canceled" => cancelled
       /\ c # "usage"
       /\ workspaceError(c) # NoErr
       /\ workspaceError(c).cause = c /\ workspaceError(c).hint \in {"", "workspace_error"}
       /\ \A h \in Hints : LET e == withHint(c, h) IN e # NoErr /\ e.cause = c /\ e.hint = h
<1>1. ASSUME NEW c, NEW h \in Hints
      PROVE  LET e == withHint(c, h) IN e # NoErr /\ e.cause = c /\ e.hint = h
  <2>1. withHint(c, h).hint = h /\ NoErr.hint = "" /\ h # "" /\ withHint(c, h).cause = c
    BY DEF withHint, NoErr, Hints
  <2> QED
    BY <2>1
<1>2. ASSUME NEW c \in CtxCauses
      PROVE  /\ c = "canceled" => cancelled
             /\ c # "usage" /\ c # ""
             /\ workspaceError(c).cause = c /\ workspaceError(c).hint \in {"", "workspace_error"}
  BY DEF CtxCauses, Causes, workspaceError, Plainly, withHint
<1>3. ASSUME NEW c \in CtxCauses PROVE workspaceError(c) # NoErr
  <2>1. NoErr.cause = ""
    BY DEF NoErr
  <2> QED
    BY <1>2, <2>1
<1>4. /\ errUsage # NoErr /\ errUsage.cause = "usage" /\ errUsage.hint = ""
      /\ Plainly("other") # NoErr /\ Plainly("other").cause = "other" /\ Plainly("other").hint = ""
  <2>1. /\ errUsage.cause = "usage" /\ errUsage.hint = "" /\ NoErr.cause = ""
        /\ Plainly("other").cause = "other" /\ Plainly("other").hint = ""
    BY DEF errUsage, Plainly, NoErr
  <2> QED
    BY <2>1
<1> QED
  BY <1>1, <1>2, <1>3, <1>4

(* What the invariants need to know of Fail.                                *)
Failed(hints) ==
    /\ pc' = "failed" /\ err' # NoErr
    /\ err'.cause # "usage" /\ (err'.cause = "canceled" => cancelled) /\ err'.hint \in hints

(* A call that fails for a reason of its own.                               *)
LEMMA FailsOther == ASSUME NEW h \in Hints, Fail(withHint("other", h)) PROVE Failed({h})
BY ErrorFacts DEF Fail, Failed

(* A call under the context that fails: canceled only after the interrupt.  *)
LEMMA FailsContext ==
  ASSUME NEW c \in CtxCauses
  PROVE  /\ Fail(workspaceError(c)) => Failed({"", "workspace_error"})
         /\ \A h \in Hints : Fail(withHint(c, h)) => Failed({h})
<1>1. ASSUME Fail(workspaceError(c)) PROVE Failed({"", "workspace_error"})
  <2>1. /\ workspaceError(c) # NoErr /\ workspaceError(c).cause = c
        /\ workspaceError(c).hint \in {"", "workspace_error"}
        /\ c # "usage" /\ (c = "canceled" => cancelled)
    BY ErrorFacts
  <2> QED
    BY <1>1, <2>1 DEF Fail, Failed
<1>2. ASSUME NEW h \in Hints, Fail(withHint(c, h)) PROVE Failed({h})
  <2>1. withHint(c, h) # NoErr /\ withHint(c, h).cause = c /\ withHint(c, h).hint = h
    BY ErrorFacts
  <2> QED
    BY <1>2, <2>1, ErrorFacts DEF Fail, Failed
<1> QED
  BY <1>1, <1>2

(* A write of the JSON result that fails.                                   *)
LEMMA FailsPlainly == Fail(Plainly("other")) => Failed({""})
BY ErrorFacts DEF Fail, Failed

(* An argument error.                                                       *)
LEMMA FailsUsage == Fail(errUsage) => /\ pc' = "failed" /\ err' # NoErr
                                      /\ err'.cause = "usage" /\ err'.hint = ""
BY ErrorFacts DEF Fail

Story == Failing /\ Progress /\ Returned /\ ErrorTells /\ Blocked

(* How far the run has come and what its error says of it.                 *)
LEMMA StepStory == Types /\ Story /\ [Next]_vars => Story'
<1> SUFFICES ASSUME Types, Story, [Next]_vars PROVE Story'
  OBVIOUS
<1> USE DEF Goto
<1>1. CASE Interrupt
  <2>0. /\ UNCHANGED <<opts, pc, err, report, files, stdout, exit>>
        /\ cancelled' = TRUE
    BY <1>1 DEF Interrupt
  <2>1. Failing'
    BY <2>0 DEF Story, Failed, Failing
  <2>2. Progress'
    BY <2>0 DEF Story, Failed, Progress, Failing, Measured, Types
  <2>3. Returned'
    BY <2>0 DEF Story, Failed, Returned, Usable, Progress, Failing, Measured, Types
  <2>4. ErrorTells'
    BY <2>0 DEF Story, Failed, ErrorTells, Failing, NoErr
  <2>5. Blocked'
    BY <2>0 DEF Story, Failed, Blocked, Progress, Failing, Measured, NoErr
  <2> QED
    BY <2>1, <2>2, <2>3, <2>4, <2>5 DEF Story
<1>2. CASE ParseArgs
  <2>0. /\ pc = "args" /\ (Fail(errUsage) \/ Goto("prerun"))
        /\ UNCHANGED <<opts, cancelled, report, files, stdout, exit>>
    BY <1>2 DEF ParseArgs
  <2>1. Failing'
    BY <2>0, FailsUsage DEF Story, Failed, Failing
  <2>2. Progress'
    BY <2>0, FailsUsage DEF Story, Failed, Progress, Failing, Measured, Types
  <2>3. Returned'
    BY <2>0, FailsUsage DEF Story, Failed, Returned, Usable, Progress, Failing, Measured, Types
  <2>4. ErrorTells'
    BY <2>0, FailsUsage DEF Story, Failed, ErrorTells, Failing, NoErr
  <2>5. Blocked'
    BY <2>0, FailsUsage DEF Story, Failed, Blocked, Progress, Failing, Measured, NoErr
  <2> QED
    BY <2>1, <2>2, <2>3, <2>4, <2>5 DEF Story
<1>3. CASE PreRun
  <2>0. /\ pc = "prerun"
        /\ \/ Fail(errUsage)
           \/ Goto(IF Measured THEN "prepare" ELSE "other")
        /\ UNCHANGED <<opts, cancelled, report, files, stdout, exit>>
    BY <1>3 DEF PreRun
  <2>1. Failing'
    BY <2>0, FailsUsage DEF Story, Failed, Failing
  <2>2. Progress'
    BY <2>0, FailsUsage DEF Story, Failed, Progress, Failing, Measured, Types
  <2>3. Returned'
    BY <2>0, FailsUsage DEF Story, Failed, Returned, Usable, Progress, Failing, Measured, Types
  <2>4. ErrorTells'
    BY <2>0, FailsUsage DEF Story, Failed, ErrorTells, Failing, NoErr
  <2>5. Blocked'
    BY <2>0, FailsUsage DEF Story, Failed, Blocked, Progress, Failing, Measured, NoErr
  <2> QED
    BY <2>1, <2>2, <2>3, <2>4, <2>5 DEF Story
<1>4. CASE AskForCommand \/ OtherCommand
  <2>0. /\ pc = "other" /\ Measured' = Measured
        /\ \/ Failed({"", "workspace_error", "configuration_error"}) /\ UNCHANGED stdout
           \/ Fail(errUsage) /\ (UNCHANGED stdout \/ (stdout' = "help" /\ ~opts.json))
           \/ Goto("returned")
        /\ UNCHANGED <<opts, cancelled, report, files, exit>>
    <3>1. CASE AskForCommand
      BY <3>1 DEF AskForCommand, Measured
    <3>2. CASE OtherCommand
      BY <3>2, FailsContext, FailsPlainly DEF OtherCommand, Hints, Failed, Measured
    <3> QED
      BY <1>4, <3>1, <3>2
  <2>1. Failing'
    BY <2>0, FailsUsage DEF Story, Failed, Failing
  <2>2. Progress'
    BY <2>0, FailsUsage DEF Story, Failed, Progress, Failing, Measured, Types
  <2>3. Returned'
    BY <2>0, FailsUsage DEF Story, Failed, Returned, Usable, Progress, Failing, Measured, Types
  <2>4. ErrorTells'
    BY <2>0, FailsUsage DEF Story, Failed, ErrorTells, Failing, NoErr
  <2>5. Blocked'
    <3>1. /\ report' = "none" /\ files' = "none" /\ stdout = "" /\ ~Measured /\ err = NoErr
          /\ opts' = opts /\ ~Measured'
      BY <2>0 DEF Story, Progress, Failing
    <3>2. CASE UNCHANGED stdout \/ (stdout' = "help" /\ ~opts.json)
      BY <3>1, <3>2 DEF Blocked
    <3>3. CASE Goto("returned")
      <4>1. err'.cause # "usage"
        BY <3>1, <3>3 DEF NoErr
      <4> QED
        BY <3>1, <4>1 DEF Blocked
    <3> QED
      BY <2>0, <3>2, <3>3
  <2> QED
    BY <2>1, <2>2, <2>3, <2>4, <2>5 DEF Story
<1>5. CASE Prepare
  <2>0. /\ pc = "prepare" /\ (Fail(errUsage) \/ Goto("client"))
        /\ UNCHANGED <<opts, cancelled, report, files, stdout, exit>>
    BY <1>5 DEF Prepare
  <2>1. Failing'
    BY <2>0, FailsUsage DEF Story, Failed, Failing
  <2>2. Progress'
    BY <2>0, FailsUsage DEF Story, Failed, Progress, Failing, Measured, Types
  <2>3. Returned'
    BY <2>0, FailsUsage DEF Story, Failed, Returned, Usable, Progress, Failing, Measured, Types
  <2>4. ErrorTells'
    BY <2>0, FailsUsage DEF Story, Failed, ErrorTells, Failing, NoErr
  <2>5. Blocked'
    BY <2>0, FailsUsage DEF Story, Failed, Blocked, Progress, Failing, Measured, NoErr
  <2> QED
    BY <2>1, <2>2, <2>3, <2>4, <2>5 DEF Story
<1>6. CASE Client
  <2>0. /\ pc = "client" /\ (Failed({"configuration_error"}) \/ Goto("read"))
        /\ UNCHANGED <<opts, cancelled, report, files, stdout, exit>>
    BY <1>6, FailsOther DEF Client, Hints, Failed
  <2>1. Failing'
    BY <2>0 DEF Story, Failed, Failing
  <2>2. Progress'
    BY <2>0 DEF Story, Failed, Progress, Failing, Measured, Types
  <2>3. Returned'
    BY <2>0 DEF Story, Failed, Returned, Usable, Progress, Failing, Measured, Types
  <2>4. ErrorTells'
    BY <2>0 DEF Story, Failed, ErrorTells, Failing, NoErr
  <2>5. Blocked'
    BY <2>0 DEF Story, Failed, Blocked, Progress, Failing, Measured, NoErr
  <2> QED
    BY <2>1, <2>2, <2>3, <2>4, <2>5 DEF Story
<1>7. CASE Read
  <2>0. /\ pc = "read"
        /\ \/ Failed({"", "workspace_error"}) /\ UNCHANGED report
           \/ /\ report' \in {"complete", "partial"}
              /\ Goto(IF opts.command = "export" THEN "check" ELSE "write")
        /\ UNCHANGED <<opts, cancelled, files, stdout, exit>>
    BY <1>7, FailsContext DEF Read, Failed
  <2>a. err = NoErr /\ report = "none" /\ files = "none"
    BY <2>0 DEF Story, Failing, Progress
  <2>b. err' = NoErr \/ Failed({"", "workspace_error"})
    BY <2>0, <2>a
  <2>c. err'.cause # "usage"
    <3>1. NoErr.cause # "usage"
      BY DEF NoErr
    <3> QED
      BY <2>b, <3>1 DEF Failed
  <2>1. Failing'
    BY <2>0 DEF Story, Failed, Failing
  <2>2. Progress'
    BY <2>0 DEF Story, Failed, Progress, Failing, Measured, Types
  <2>3. Returned'
    BY <2>0 DEF Story, Failed, Returned, Usable, Progress, Failing, Measured, Types
  <2>4. ErrorTells'
    BY <2>0, <2>a, <2>c DEF Story, Failed, ErrorTells, Failing, NoErr
  <2>5. Blocked'
    BY <2>0, <2>a, <2>c DEF Story, Failed, Blocked, Progress, Failing, Measured, NoErr
  <2> QED
    BY <2>1, <2>2, <2>3, <2>4, <2>5 DEF Story
<1>8. CASE CheckReport
  <2>0. /\ pc = "check"
        /\ \/ /\ report = "complete" \/ opts.allowPartial
              /\ Goto("versions") /\ UNCHANGED stdout
           \/ /\ report = "partial" /\ ~opts.allowPartial
              /\ Failed({"partial_result"}) \/ Failed({""})
        /\ UNCHANGED <<opts, cancelled, report, files, exit>>
    BY <1>8, FailsOther, FailsPlainly DEF CheckReport, PartialError, Hints
  <2>1. Failing'
    BY <2>0 DEF Story, Failed, Failing
  <2>2. Progress'
    BY <2>0 DEF Story, Failed, Progress, Failing, Measured, Types
  <2>3. Returned'
    BY <2>0 DEF Story, Failed, Returned, Usable, Progress, Failing, Measured, Types
  <2>4. ErrorTells'
    BY <2>0 DEF Story, Failed, ErrorTells, Failing, NoErr
  <2>5. Blocked'
    BY <2>0 DEF Story, Failed, Blocked, Progress, Failing, Measured, NoErr
  <2> QED
    BY <2>1, <2>2, <2>3, <2>4, <2>5 DEF Story
<1>9. CASE ResolveVersions
  <2>0. /\ pc = "versions" /\ (Failed({"module_version_error"}) \/ Goto("render"))
        /\ UNCHANGED <<opts, cancelled, report, files, stdout, exit>>
    BY <1>9, FailsContext DEF ResolveVersions, Hints, Failed
  <2>1. Failing'
    BY <2>0 DEF Story, Failed, Failing
  <2>2. Progress'
    BY <2>0 DEF Story, Failed, Progress, Failing, Measured, Types
  <2>3. Returned'
    BY <2>0 DEF Story, Failed, Returned, Usable, Progress, Failing, Measured, Types
  <2>4. ErrorTells'
    BY <2>0 DEF Story, Failed, ErrorTells, Failing, NoErr
  <2>5. Blocked'
    BY <2>0 DEF Story, Failed, Blocked, Progress, Failing, Measured, NoErr
  <2> QED
    BY <2>1, <2>2, <2>3, <2>4, <2>5 DEF Story
<1>10. CASE Render
  <2>0. /\ pc = "render" /\ (Failed({"render_error"}) \/ Goto("write"))
        /\ UNCHANGED <<opts, cancelled, report, files, stdout, exit>>
    BY <1>10, FailsOther DEF Render, Hints
  <2>1. Failing'
    BY <2>0 DEF Story, Failed, Failing
  <2>2. Progress'
    BY <2>0 DEF Story, Failed, Progress, Failing, Measured, Types
  <2>3. Returned'
    BY <2>0 DEF Story, Failed, Returned, Usable, Progress, Failing, Measured, Types
  <2>4. ErrorTells'
    BY <2>0 DEF Story, Failed, ErrorTells, Failing, NoErr
  <2>5. Blocked'
    BY <2>0 DEF Story, Failed, Blocked, Progress, Failing, Measured, NoErr
  <2> QED
    BY <2>1, <2>2, <2>3, <2>4, <2>5 DEF Story
<1>11. CASE WriteExport \/ WriteInventory
  <2>0. /\ pc = "write"
        /\ \/ files' = "all" /\ Goto("summary")
           \/ Failed({"output_error"}) /\ (opts.command = "export" \/ ~opts.json)
           \/ opts.command = "inventory" /\ opts.json /\ files' = files /\ Goto("summary")
        /\ UNCHANGED <<opts, cancelled, report, stdout, exit>>
    BY <1>11, FailsOther DEF WriteExport, WriteInventory, WriteFiles, Hints
  <2>1. Failing'
    BY <2>0 DEF Story, Failed, Failing
  <2>2. Progress'
    BY <2>0 DEF Story, Failed, Progress, Failing, Measured, Types
  <2>3. Returned'
    BY <2>0 DEF Story, Failed, Returned, Usable, Progress, Failing, Measured, Types
  <2>4. ErrorTells'
    BY <2>0 DEF Story, Failed, ErrorTells, Failing, NoErr
  <2>5. Blocked'
    BY <2>0 DEF Story, Failed, Blocked, Progress, Failing, Measured, NoErr
  <2> QED
    BY <2>1, <2>2, <2>3, <2>4, <2>5 DEF Story
<1>12. CASE Summary
  <2>0. /\ pc = "summary"
        /\ \/ Failed({""})
           \/ opts.command = "inventory" /\ report = "partial" /\ Failed({"partial_result"})
           \/ /\ ~(opts.command = "inventory" /\ report = "partial") /\ Goto("returned")
              /\ opts.command = "inventory" /\ opts.json => stdout' = "inventory"
        /\ UNCHANGED <<opts, cancelled, report, files, exit>>
    BY <1>12, FailsOther, FailsPlainly DEF Summary, PartialError, Hints
  <2>1. Failing'
    BY <2>0 DEF Story, Failed, Failing
  <2>2. Progress'
    BY <2>0 DEF Story, Failed, Progress, Failing, Measured, Types
  <2>3. Returned'
    BY <2>0 DEF Story, Failed, Returned, Usable, Progress, Failing, Measured, Types
  <2>4. ErrorTells'
    BY <2>0 DEF Story, Failed, ErrorTells, Failing, NoErr
  <2>5. Blocked'
    BY <2>0 DEF Story, Failed, Blocked, Progress, Failing, Measured, NoErr
  <2> QED
    BY <2>1, <2>2, <2>3, <2>4, <2>5 DEF Story
<1>13. CASE WriteError
  <2>0. /\ pc = "failed" /\ Goto("returned") /\ exit' # exitOK
        /\ UNCHANGED <<opts, cancelled, report, files, stdout>>
    BY <1>13 DEF WriteError, exitOK, exitErr, exitUsage
  <2>1. Failing'
    BY <2>0 DEF Story, Failed, Failing
  <2>2. Progress'
    BY <2>0 DEF Story, Failed, Progress, Failing, Measured, Types
  <2>3. Returned'
    BY <2>0 DEF Story, Failed, Returned, Usable, Progress, Failing, Measured, Types
  <2>4. ErrorTells'
    BY <2>0 DEF Story, Failed, ErrorTells, Failing, NoErr
  <2>5. Blocked'
    BY <2>0 DEF Story, Failed, Blocked, Progress, Failing, Measured, NoErr
  <2> QED
    BY <2>1, <2>2, <2>3, <2>4, <2>5 DEF Story
<1>14. CASE FinishUsage
  <2>0. /\ pc = "returned" /\ Goto("update")
        /\ UNCHANGED <<opts, cancelled, report, files, stdout, exit>>
    BY <1>14 DEF FinishUsage
  <2>1. Failing'
    BY <2>0 DEF Story, Failed, Failing
  <2>2. Progress'
    BY <2>0 DEF Story, Failed, Progress, Failing, Measured, Types
  <2>3. Returned'
    BY <2>0 DEF Story, Failed, Returned, Usable, Progress, Failing, Measured, Types
  <2>4. ErrorTells'
    BY <2>0 DEF Story, Failed, ErrorTells, Failing, NoErr
  <2>5. Blocked'
    BY <2>0 DEF Story, Failed, Blocked, Progress, Failing, Measured, NoErr
  <2> QED
    BY <2>1, <2>2, <2>3, <2>4, <2>5 DEF Story
<1>15. CASE UpdateNotice
  <2>0. /\ pc = "update" /\ Goto("exit")
        /\ UNCHANGED <<opts, cancelled, report, files, stdout, exit>>
    BY <1>15 DEF UpdateNotice
  <2>1. Failing'
    BY <2>0 DEF Story, Failed, Failing
  <2>2. Progress'
    BY <2>0 DEF Story, Failed, Progress, Failing, Measured, Types
  <2>3. Returned'
    BY <2>0 DEF Story, Failed, Returned, Usable, Progress, Failing, Measured, Types
  <2>4. ErrorTells'
    BY <2>0 DEF Story, Failed, ErrorTells, Failing, NoErr
  <2>5. Blocked'
    BY <2>0 DEF Story, Failed, Blocked, Progress, Failing, Measured, NoErr
  <2> QED
    BY <2>1, <2>2, <2>3, <2>4, <2>5 DEF Story
<1>16. CASE Exited
  <2>0. /\ UNCHANGED <<pc, err>>
        /\ UNCHANGED <<opts, cancelled, report, files, stdout, exit>>
    BY <1>16 DEF Exited, vars
  <2>1. Failing'
    BY <2>0 DEF Story, Failed, Failing
  <2>2. Progress'
    BY <2>0 DEF Story, Failed, Progress, Failing, Measured, Types
  <2>3. Returned'
    BY <2>0 DEF Story, Failed, Returned, Usable, Progress, Failing, Measured, Types
  <2>4. ErrorTells'
    BY <2>0 DEF Story, Failed, ErrorTells, Failing, NoErr
  <2>5. Blocked'
    BY <2>0 DEF Story, Failed, Blocked, Progress, Failing, Measured, NoErr
  <2> QED
    BY <2>1, <2>2, <2>3, <2>4, <2>5 DEF Story
<1>17. CASE UNCHANGED vars
  <2>0. /\ UNCHANGED <<pc, err>>
        /\ UNCHANGED <<opts, cancelled, report, files, stdout, exit>>
    BY <1>17 DEF vars
  <2>1. Failing'
    BY <2>0 DEF Story, Failed, Failing
  <2>2. Progress'
    BY <2>0 DEF Story, Failed, Progress, Failing, Measured, Types
  <2>3. Returned'
    BY <2>0 DEF Story, Failed, Returned, Usable, Progress, Failing, Measured, Types
  <2>4. ErrorTells'
    BY <2>0 DEF Story, Failed, ErrorTells, Failing, NoErr
  <2>5. Blocked'
    BY <2>0 DEF Story, Failed, Blocked, Progress, Failing, Measured, NoErr
  <2> QED
    BY <2>1, <2>2, <2>3, <2>4, <2>5 DEF Story
<1> QED
  BY <1>1, <1>2, <1>3, <1>4, <1>5, <1>6, <1>7, <1>8, <1>9, <1>10, <1>11, <1>12, <1>13, <1>14, <1>15, <1>16, <1>17 DEF Next, Stage

-----------------------------------------------------------------------------
(* What goes to stderr with --json, when the error does, and that no        *)
(* progress or issue is there when an argument error is found.              *)
LEMMA StepStderr == Types /\ Story /\ StderrTells /\ [Next]_vars => StderrTells'
<1> SUFFICES ASSUME Types, Story, StderrTells, [Next]_vars PROVE StderrTells'
  OBVIOUS
<1> USE DEF Goto
<1> DEFINE Errs  == UNCHANGED err \/ (err' # NoErr /\ (pc \in Early \/ err'.cause # "usage"))
           Stays == pc' \in Early => pc \in Early
<1> USE DEF Errs, Stays
<1>1. ASSUME UNCHANGED <<opts, stderr>>, Errs, Stays PROVE StderrTells'
  BY <1>1 DEF StderrTells, Quiet
<1>2. CASE ParseArgs \/ AskForCommand \/ OtherCommand \/ Prepare \/ Client
  <2>1. pc \in Early /\ UNCHANGED <<opts, stderr>>
    BY <1>2 DEF ParseArgs, AskForCommand, OtherCommand, Prepare, Client, Early
  <2>2. UNCHANGED err \/ err' # NoErr
    <3>1. CASE ParseArgs \/ AskForCommand \/ Prepare
      BY <3>1, FailsUsage DEF ParseArgs, AskForCommand, Prepare
    <3>2. CASE OtherCommand
      BY <3>2, FailsUsage, FailsContext, FailsPlainly DEF OtherCommand, Hints, Failed
    <3>3. CASE Client
      BY <3>3, FailsOther DEF Client, Hints, Failed
    <3> QED
      BY <1>2, <3>1, <3>2, <3>3
  <2> QED
    BY <1>1, <2>1, <2>2
<1>3. CASE ResolveVersions \/ Render \/ WriteExport \/ WriteInventory
  <2>1. CASE ResolveVersions
    BY <1>1, <2>1, FailsContext DEF ResolveVersions, Hints, Failed, Early
  <2>2. CASE Render \/ WriteExport \/ WriteInventory
    BY <1>1, <2>2, FailsOther DEF Render, WriteExport, WriteInventory, WriteFiles, Hints, Failed, Early
  <2> QED
    BY <1>3, <2>1, <2>2
<1>4. CASE Interrupt \/ FinishUsage \/ Exited \/ UNCHANGED vars
  BY <1>1, <1>4 DEF Interrupt, FinishUsage, Exited, vars, Early
<1>5. CASE PreRun
  <2>1. pc \in Early /\ UNCHANGED opts /\ (UNCHANGED err \/ err' # NoErr)
    BY <1>5, FailsUsage DEF PreRun, Early
  <2>2. stderr' = stderr \/ stderr' = stderr \cup {"notice"}
    BY <1>5 DEF PreRun
  <2> QED
    BY <2>1, <2>2 DEF StderrTells, Quiet
<1>6. ASSUME NEW text, stderr' = stderr \cup {text}, text # "error",
             opts.json => text = "notice", UNCHANGED opts, pc' \notin Early,
             \/ err' = NoErr \/ (err' # NoErr /\ err'.cause # "usage"),
             err = NoErr
      PROVE  StderrTells'
  <2>1. NoErr.cause # "usage"
    BY DEF NoErr
  <2>2. err'.cause # "usage"
    BY <1>6, <2>1
  <2> QED
    BY <1>6, <2>2 DEF StderrTells
<1>7. CASE Read
  <2>1. err = NoErr /\ UNCHANGED opts
    BY <1>7 DEF Read, Story, Failing
  <2>2. err' = NoErr \/ (err' # NoErr /\ err'.cause # "usage")
    BY <1>7, <2>1, FailsContext DEF Read, Failed
  <2>3. pc' \notin Early
    BY <1>7 DEF Read, Fail, Early
  <2> QED
    BY <1>1, <1>6, <1>7, <2>1, <2>2, <2>3 DEF Read
<1>8. CASE CheckReport
  <2>1. err = NoErr /\ UNCHANGED opts
    BY <1>8 DEF CheckReport, Story, Failing
  <2>2. err' = NoErr \/ (err' # NoErr /\ err'.cause # "usage")
    BY <1>8, <2>1, FailsOther, FailsPlainly DEF CheckReport, PartialError, Hints, Failed
  <2>3. pc' \notin Early
    BY <1>8 DEF CheckReport, PartialError, Fail, Early
  <2> QED
    BY <1>1, <1>6, <1>8, <2>1, <2>2, <2>3 DEF CheckReport, PartialError
<1>9. CASE Summary
  <2>1. err = NoErr /\ UNCHANGED opts
    BY <1>9 DEF Summary, Story, Failing
  <2>2. err' = NoErr \/ (err' # NoErr /\ err'.cause # "usage")
    BY <1>9, <2>1, FailsOther, FailsPlainly DEF Summary, PartialError, Hints, Failed
  <2>3. pc' \notin Early
    BY <1>9 DEF Summary, PartialError, Fail, Early
  <2> QED
    BY <1>1, <1>6, <1>9, <2>1, <2>2, <2>3 DEF Summary, PartialError
<1>10. CASE WriteError
  <2>1. /\ err # NoErr /\ UNCHANGED <<opts, err>> /\ stderr' \subseteq stderr \cup {"error"}
        /\ pc' \notin Early
    BY <1>10 DEF WriteError, Story, Failing, Early
  <2> QED
    BY <2>1 DEF StderrTells, Quiet
<1>11. CASE UpdateNotice
  <2>1. UNCHANGED <<opts, err>> /\ pc' \notin Early
    BY <1>11 DEF UpdateNotice, Early
  <2>2. stderr' = stderr \/ (stderr' = stderr \cup {"update"} /\ ~opts.json)
    BY <1>11 DEF UpdateNotice
  <2> QED
    BY <2>1, <2>2 DEF StderrTells, Quiet
<1> QED
  BY <1>2, <1>3, <1>4, <1>5, <1>7, <1>8, <1>9, <1>10, <1>11 DEF Next, Stage

-----------------------------------------------------------------------------
(* What the code of an error says of it.                                    *)
LEMMA CodeFacts ==
  ASSUME NEW e \in Errors, e # NoErr
  PROVE  /\ CodeOf(e) # "none"
         /\ CodeOf(e) = "partial_result" => e.hint = "partial_result"
         /\ CodeOf(e) = "canceled" => e.cause = "canceled"
<1>1. CASE e.cause = "usage"
  BY <1>1 DEF CodeOf
<1>2. CASE e.cause # "usage" /\ e.hint # ""
  <2>1. CodeOf(e) = e.hint
    BY <1>2 DEF CodeOf
  <2>2. e.hint \in {"", "configuration_error", "workspace_error", "partial_result",
                   "module_version_error", "render_error", "output_error"}
    BY DEF Errors
  <2> QED
    BY <1>2, <2>1, <2>2
<1>3. CASE e.cause # "usage" /\ e.hint = ""
  <2>1. CodeOf(e) = Describe(e.cause)
    BY <1>3 DEF CodeOf
  <2> QED
    BY <2>1 DEF Describe
<1> QED
  BY <1>1, <1>2, <1>3

Ended == {"returned", "update", "exit"}

(* The usage keeps to what it began with until writeError puts in the code. *)
LEMMA StepUsage == Types /\ Story /\ UsageTells /\ [Next]_vars => UsageTells'
<1> SUFFICES ASSUME Types, Story, UsageTells, [Next]_vars PROVE UsageTells'
  OBVIOUS
<1> USE DEF Goto, Ended
<1>1. ASSUME UNCHANGED <<opts, usage, report>>, pc' \notin {"args", "prerun"},
             pc \notin Ended, pc' \notin Ended \/ err' = NoErr
      PROVE  UsageTells'
  BY <1>1 DEF UsageTells, Begun, Measured
<1>2. ASSUME UNCHANGED <<opts, usage, report, err>>, pc' = pc \/ (pc \in Ended /\ pc' \in Ended)
      PROVE  UsageTells'
  BY <1>2 DEF UsageTells, Begun, Measured
<1>3. CASE ParseArgs
  <2>1. usage' = NoUsage
    BY <1>3 DEF ParseArgs, UsageTells
  <2> QED
    BY <2>1 DEF UsageTells
<1>4. CASE PreRun
  <2>1. CASE Fail(errUsage) /\ UNCHANGED usage
    BY <1>4, <2>1 DEF PreRun, UsageTells
  <2>2. CASE pc' \in {"prepare", "other"} /\ usage' = NoUsage
    BY <2>2 DEF UsageTells
  <2>3. CASE /\ pc' = "prepare" /\ Measured
             /\ usage' = [outcome |-> "complete", code |-> "none"]
    <3>1. report' = "none" /\ Measured'
      BY <1>4, <2>3 DEF PreRun, Story, Progress, Measured
    <3> QED
      BY <2>3, <3>1 DEF UsageTells, Begun
  <2> QED
    BY <1>4, <2>1, <2>2, <2>3 DEF PreRun
<1>5. CASE Prepare \/ Client \/ Render \/ WriteExport \/ WriteInventory
  BY <1>1, <1>5 DEF Prepare, Client, Render, WriteExport, WriteInventory, WriteFiles, Fail
<1>6. CASE ResolveVersions
  BY <1>1, <1>6 DEF ResolveVersions, Fail
<1>7. CASE AskForCommand \/ OtherCommand
  <2>1. err = NoErr
    BY <1>7 DEF AskForCommand, OtherCommand, Story, Failing
  <2> QED
    BY <1>1, <1>7, <2>1 DEF AskForCommand, OtherCommand, Fail
<1>8. CASE CheckReport
  BY <1>1, <1>8 DEF CheckReport, PartialError, Fail
<1>9. CASE Summary
  <2>1. err = NoErr
    BY <1>9 DEF Summary, Story, Failing
  <2> QED
    BY <1>1, <1>9, <2>1 DEF Summary, PartialError, Fail
<1>10. CASE Read
  <2>1. pc' \in {"failed", "check", "write"} /\ UNCHANGED opts /\ Measured /\ Measured'
    BY <1>10 DEF Read, Fail, Story, Progress, Measured
  <2>2. CASE UNCHANGED <<usage, report>>
    BY <1>1, <1>10, <2>1, <2>2 DEF Read
  <2>3. CASE report' \in {"complete", "partial"} /\ report = "none" /\
             usage' = IF opts.command = "export" /\ report' = "partial"
                        THEN [outcome |-> "partial", code |-> "partial_result"] ELSE usage
    <3>1. CASE opts.command = "export" /\ report' = "partial"
      <4>1. usage' = Begun'
        BY <2>1, <2>3, <3>1 DEF Begun
      <4> QED
        BY <2>1, <4>1 DEF UsageTells
    <3>2. CASE ~(opts.command = "export" /\ report' = "partial")
      <4>1. usage' = usage /\ Begun' = Begun
        BY <2>1, <2>3, <3>2 DEF Begun
      <4> QED
        BY <1>10, <2>1, <4>1 DEF Read, UsageTells
    <3> QED
      BY <3>1, <3>2
  <2>4. report = "none"
    BY <1>10 DEF Read, Story, Progress
  <2> QED
    BY <1>10, <2>2, <2>3, <2>4 DEF Read
<1>11. CASE WriteError
  <2>1. err # NoErr /\ pc = "failed" /\ pc' = "returned" /\ UNCHANGED <<opts, report, err>>
    BY <1>11 DEF WriteError, Story, Failing
  <2>2. CASE usage = NoUsage
    BY <1>11, <2>2 DEF WriteError, UsageTells
  <2>3. CASE usage # NoUsage
    <3>1. usage'.code = CodeOf(err) /\ usage'.outcome = usage.outcome
      BY <1>11, <2>3 DEF WriteError, Types, Usages
    <3>2. CodeOf(err)' = CodeOf(err) /\ Begun' = Begun /\ Measured' = Measured
      BY <2>1 DEF Begun, CodeOf, Measured, Describe
    <3> QED
      BY <2>1, <2>3, <3>1, <3>2 DEF UsageTells
  <2> QED
    BY <2>2, <2>3
<1>12. CASE FinishUsage \/ UpdateNotice \/ Exited \/ Interrupt \/ UNCHANGED vars
  BY <1>2, <1>12 DEF FinishUsage, UpdateNotice, Exited, Interrupt, vars
<1> QED
  BY <1>3, <1>4, <1>5, <1>6, <1>7, <1>8, <1>9, <1>10, <1>11, <1>12 DEF Next, Stage

-----------------------------------------------------------------------------
(* The event is made of the usage when the command has returned, and        *)
(* nothing that it tells of changes any more.                               *)
LEMMA FinishTells ==
  ASSUME Types, Story, UsageTells, FinishUsage PROVE EventTellsTheOutcome'
<1> DEFINE run == [usage EXCEPT !.outcome = Outcome(usage)]
<1>1. pc = "returned" /\ UNCHANGED <<opts, err, exit, report, cancelled, usage>>
  BY DEF FinishUsage, Goto
<1>2. CASE event' = NoUsage
  BY <1>2 DEF EventTellsTheOutcome
<1>3. CASE usage # NoUsage /\ event' = Payload(run)
  <2>1. /\ Measured /\ usage.outcome = Begun.outcome
        /\ usage.code = IF err # NoErr THEN CodeOf(err) ELSE Begun.code
    BY <1>1, <1>3 DEF UsageTells
  <2>2. run.outcome = Outcome(usage) /\ run.code = usage.code
    BY DEF Types, Usages
  <2>3. exit = exitOK <=> err = NoErr
    BY <1>1 DEF Story, Failing
  <2>4. event'.code = IF usage.code \in codes THEN usage.code ELSE "other"
    BY <1>3, <2>2 DEF Payload
  <2>5. Outcome(usage) \in outcomes => event'.outcome = Outcome(usage)
    BY <1>3, <2>2 DEF Payload
  <2> HIDE DEF run
  <2>6. CASE err = NoErr
    <3>1. Usable /\ Outcome(usage) = usage.outcome
      BY <1>1, <2>6 DEF Story, Returned, Outcome
    <3>2. CASE opts.command = "export" /\ report = "partial"
      <4>1. event'.outcome = "partial" /\ event'.code = "partial_result"
        BY <2>1, <2>4, <2>5, <2>6, <3>1, <3>2 DEF Begun, codes, outcomes
      <4> QED
        BY <1>1, <2>3, <2>6, <3>1, <3>2, <4>1 DEF EventTellsTheOutcome, Usable
    <3>3. CASE ~(opts.command = "export" /\ report = "partial")
      <4>1. event'.outcome = "complete" /\ event'.code = "none"
        BY <2>1, <2>4, <2>5, <2>6, <3>1, <3>3 DEF Begun, codes, outcomes
      <4>2. report = "complete"
        BY <2>1, <3>1, <3>3 DEF Usable, Measured
      <4> QED
        BY <1>1, <2>3, <2>6, <4>1, <4>2 DEF EventTellsTheOutcome
    <3> QED
      BY <3>2, <3>3
  <2>7. CASE err # NoErr
    <3>1. /\ usage.code = CodeOf(err) /\ usage.code # "none" /\ event'.code # "none"
          /\ usage.code = "partial_result" => err.hint = "partial_result"
          /\ usage.code = "canceled" => err.cause = "canceled"
      BY <2>1, <2>4, <2>7, CodeFacts DEF Types
    <3>2. event'.outcome = Outcome(usage) /\ exit # exitOK
      BY <2>3, <2>5, <2>7 DEF Outcome, outcomes
    <3>3. CASE usage.code = "partial_result"
      <4>1. event'.outcome = "partial" /\ report = "partial"
            /\ ~(opts.command = "export" /\ opts.allowPartial)
        BY <2>7, <3>1, <3>2, <3>3 DEF Outcome, Story, ErrorTells
      <4> QED
        BY <1>1, <3>1, <3>2, <4>1 DEF EventTellsTheOutcome
    <3>4. CASE usage.code = "canceled"
      <4>1. event'.outcome = "canceled" /\ cancelled
        BY <2>7, <3>1, <3>2, <3>4 DEF Outcome, Story, ErrorTells
      <4> QED
        BY <1>1, <3>1, <3>2, <4>1 DEF EventTellsTheOutcome
    <3>5. CASE usage.code \notin {"partial_result", "canceled"}
      <4>1. event'.outcome = "error"
        BY <2>7, <3>2, <3>5 DEF Outcome
      <4> QED
        BY <1>1, <3>1, <3>2, <4>1 DEF EventTellsTheOutcome
    <3> QED
      BY <3>3, <3>4, <3>5
  <2> QED
    BY <2>6, <2>7
<1> QED
  BY <1>2, <1>3 DEF FinishUsage

EventInv == EventLast /\ EventTellsTheOutcome

(* After the event has been sent nothing changes what it tells of.          *)
LEMMA StepEvent == Types /\ Story /\ UsageTells /\ EventInv /\ [Next]_vars => EventInv'
<1> SUFFICES ASSUME Types, Story, UsageTells, EventInv, [Next]_vars PROVE EventInv'
  OBVIOUS
<1>1. CASE event = NoUsage /\ UNCHANGED event
  BY <1>1 DEF EventInv, EventLast, EventTellsTheOutcome
<1>2. CASE FinishUsage
  BY <1>2, FinishTells DEF EventInv, EventLast, FinishUsage, Goto
<1>3. CASE /\ pc \in {"update", "exit"} /\ pc' \in {"update", "exit"}
           /\ UNCHANGED <<event, opts, exit, report>> /\ (cancelled => cancelled')
  BY <1>3 DEF EventInv, EventLast, EventTellsTheOutcome
<1>4. pc \in {"update", "exit"} \/ (event = NoUsage)
  BY DEF EventInv, EventLast
<1>5. CASE ParseArgs \/ PreRun \/ AskForCommand \/ OtherCommand \/ Prepare \/ Client \/ Read
             \/ CheckReport \/ ResolveVersions \/ Render \/ WriteExport \/ WriteInventory
             \/ Summary \/ WriteError
  BY <1>1, <1>4, <1>5 DEF ParseArgs, PreRun, AskForCommand, OtherCommand, Prepare, Client, Read,
       CheckReport, ResolveVersions, Render, WriteExport, WriteInventory, Summary, WriteError
<1>6. CASE UpdateNotice \/ Exited \/ Interrupt \/ UNCHANGED vars
  BY <1>1, <1>3, <1>4, <1>6 DEF UpdateNotice, Exited, Interrupt, vars, Goto
<1> QED
  BY <1>2, <1>5, <1>6 DEF Next, Stage

-----------------------------------------------------------------------------
CommandInv == Types /\ Story /\ StderrTells /\ UsageTells /\ EventInv

(* All of it from the first state on.                                       *)
LEMMA CommandInvHolds == Spec => []CommandInv
<1>1. Init => Story
  <2>1. NoErr.cause = "" /\ NoErr.hint = ""
    BY DEF NoErr
  <2> QED
    BY <2>1 DEF Init, Story, Failing, Progress, Returned, ErrorTells, Blocked
<1>2. Init => StderrTells /\ UsageTells /\ EventInv
  BY DEF Init, StderrTells, Quiet, UsageTells, EventInv, EventLast, EventTellsTheOutcome
<1>3. CommandInv /\ [Next]_vars => Story' /\ StderrTells' /\ UsageTells' /\ EventInv'
  BY StepStory, StepStderr, StepUsage, StepEvent DEF CommandInv
<1> QED
  BY <1>1, <1>2, <1>3, Typing, TypesAreTypeOK, PTL DEF Spec, CommandInv

(* Whatever fails and whenever the run is interrupted, exit code 0 stands   *)
(* for a usable result.                                                     *)
THEOREM ExitZeroHolds == Spec => []ExitZeroIsUsable
<1>1. CommandInv => ExitZeroIsUsable
  BY DEF CommandInv, Story, Failing, Returned, Usable, ExitZeroIsUsable, Done
<1> QED
  BY <1>1, CommandInvHolds, PTL

(* A blocked partial export writes no file, and an argument error comes     *)
(* before the run has read, reported progress or written.                   *)
THEOREM BlockedHolds == Spec => []BlockedWritesNothing
<1>1. CommandInv => BlockedWritesNothing
  BY DEF CommandInv, Story, Blocked, StderrTells, Quiet, BlockedWritesNothing, NothingStarted
<1> QED
  BY <1>1, CommandInvHolds, PTL

(* The usage event agrees with the exit code, the report and the interrupt. *)
THEOREM EventHolds == Spec => []EventTellsTheOutcome
<1>1. CommandInv => EventTellsTheOutcome
  BY DEF CommandInv, EventInv
<1> QED
  BY <1>1, CommandInvHolds, PTL

(* With --json only the notice and the error object go to stderr.           *)
THEOREM JsonStderrHolds == Spec => []JsonStderr
<1>1. CommandInv => JsonStderr
  BY DEF CommandInv, StderrTells, JsonStderr
<1> QED
  BY <1>1, CommandInvHolds, PTL
==============================================================================
