# A TLA+ model of datatf

datatf reads the platform configuration of one Azure Databricks workspace and
writes it out as Terraform variables and import blocks. It changes nothing in
the workspace; what can go wrong is that it *says* something wrong: a report
that calls a partial read complete, a file of another run overwritten, an object
in two Terraform roots, a usage event the user declined. This directory models
the parts of the program where such a mistake needs several steps or several
actors, checks the models with TLC and proves their safety properties with TLAPS.

## The system

| Component | State | Operations | Interacts with |
|---|---|---|---|
| command line (`internal/cli`, `internal/diagnostic`, `cmd/datatf`) | options, the returned error, `rc.usage`, exit code | parse, prepare, read, check the report, resolve versions, render, write, summarise, report the error, finish | calls all the others in one goroutine; the signal context may be cancelled at any time |
| workspace reader (`internal/inventory`) | inventory, issues and skips behind a mutex, result slots per worker | `Identify`, eight group readers, object workers, `classify`, `grants`, `selectNamed`, `compact`, sort | one goroutine per group, bounded pools, three goroutines per catalog, one shared context |
| contract builder and report (`internal/contract`) | tfvars maps, import list, exclusions, issues | `Build` (one method per group), `NewReport`, `Variables`, `ResourceModules`, `RenderImports` | gets the inventory by value |
| artifact writer (`internal/emit`) | the output directory | `WriteFiles`: check all, create all | other processes in the same directory |
| telemetry (`internal/telemetry`, `cli/telemetry.go`) | `telemetry.json`; one event per run | `Resolve`, `SaveConsent`, `Payload`, `Send` | all processes of the user share the file |
| update check (`internal/update`, `cli/update.go`) | `update.json`: time of the last attempt, release found | `Check`, `refreshCache` | all processes of the user share the file; GitHub |
| scaffold and Registry lookup (`internal/scaffold`) | none | `Render`, `RenderResources`, `LatestVersions` | Terraform Registry; the rendered files meet again in Terraform |
| formatter, fake workspace (`internal/output`, `internal/fakews`) | none | text, recorded answers for tests | |

**What is hard here.** The interleavings of the reader's goroutines and the
moment of a cancellation; the check-then-create of the writer against other
processes; the two small files that concurrent processes replace; a partial
result followed by a failure of another kind; names that serve as map keys; the
moments at which two calls see one object, and at which several exports see one
metastore; and the many places, in four packages, that must agree on which
variables, modules, addresses and versions a root has. The full list, each at its line, is `hazards` in `PROJECT.json`.

**What makes each part correct.** Writer: success means a whole set of one's own
files, and nothing is overwritten. Reader: one inventory per workspace state
whatever the schedule, every failure an issue, no deadlock, and no more
calls in flight than the pools allow; grants whole or refused, and one root per
object that stays as it is while it is read. Builder: imports and variables
agree, the two scopes divide the metastore, "complete" means that every object is
there in full or named as excluded. Scaffold: in both layouts the root manages
exactly what it imports, refers only to what it declares, and takes nobody's
access away. Command: exit code, files, output and event
agree. Consent: no event against the preference, no preference lost. Update
check: true notices, and a blocked network is waited for once a day.

## Modules

| Module | Models | State and actions against the code |
|---|---|---|
| `OutputDir` | `emit.WriteFiles` in several processes | `pc`, `todo`: the two loops over the sorted names; `owner`, `complete`: the directory. `Lstat`, `MkdirAll`, `Open` (O_EXCL), `Write`, `Return` are the calls; `CallFails`, `Crash`, `Interfere` the environment |
| `Claims` | what `emit` promises of a directory | abstract: files are claimed, finished and never taken over; a run succeeds with all of its own. `OutputDir` implements it (`ImplementsClaims`) |
| `OutputDirProofs` | | theorems about `OutputDir`, the refinement among them |
| `Workspace` | what a workspace answers to one read; keys of service principals, `--name` | pure definitions |
| `ReadContract` | what `Reader.Read` promises | atomic: an inventory that is a function of the answers, with the sorted issues and skips, or an error |
| `Reader` | `Reader.Read` with its goroutines | `pc[t]` per goroutine; one action per API call or local decision; `Launch` and `Wait` are `errgroup.Go` with a limit and `errgroup.Wait`; `Fork` and `Join` the three branches of a catalog; `Return` the context check and the sorts. Implements `ReadContract` under the mapping `Result` |
| `ReaderProofs` | | theorems about `Reader`, and what its sorts preserve |
| `Grants` | `Reader.grants` and `contract.toAccess`, page by page | `listing` is the server: any assignment of pages to tokens; `Get`, `GetFails` are one round of the loop with its three exits; `Administer` changes grants between pages; `Returned`, `ToAccess` are the stable sort and the map made from it. `Reader` has the whole call as one step (`Access`) |
| `GrantsProofs` | | theorems about `Grants` |
| `Ownership` | `classify` and `inScope` for one securable in every root of a metastore | `stage[r]` is the next call of the export for root `r`; `List`, `Get`, `GetBindings`, `CallFails` the calls; `Administer` changes the mode or the bindings between any two of them. `unbound` is a server that lists an isolated securable also where it is not bound; `touched` remembers which roots have begun before the last change, for the properties alone |
| `OwnershipProofs` | | theorems about `Ownership` |
| `CommandProofs` | | theorems about `Command` |
| `Build` | `contract.Build` and `NewReport`, for both scopes | one step per pass of a builder loop: `at` is the object, and the schema of a catalog, at which the method `stage` stands, and the `*Part` operators are what the pass adds to the export `ex`; a tfvars map is the set of its entries, an import its address |
| `Root` | from an export to the files of a root: `prepare`, `resolveVersions`, `LatestVersions`, `ResourceModules`, `Variables`, `RenderImports`, `Render`, `RenderResources` | extends `Build` by four phases; a file is what Terraform reads from it: variables and their values, groups of import blocks, module blocks with source, version, inputs and dependencies |
| `RootProofs` | | theorems about `Build` and `Root` |
| `Command` | `cli.Execute` | for `export` and `inventory` one action per stage with all its early returns; the help and the usage error of a bare `datatf` are `AskForCommand`, any other command is one step (`OtherCommand`); errors are a cause and the code `withHint` attached |
| `Consent` | `telemetry.json` shared by runs and savers | `Begin`, `Finish` are `beginUsage`, `finishUsage`; `WriteTemp`, `Rename`, `SaveFails` are `SaveConsent` |
| `ConsentProofs` | | theorems about `Consent` |
| `UpdateCache` | `update.json` shared by runs | `Begin`, `ReadCache`, `RecordAttempt`, `Fetch`, `Store`, `Notice` in the order of `Check` and `refreshCache`; the clock and GitHub are the environment |
| `UpdateCacheProofs` | | theorems about `UpdateCache` |
| `MC*` | | constants for TLC |

Operators whose comment begins with "Mutant of" are deliberately wrong variants
of the definition that follows them. No specification uses them; each exists to
show that a property can fail when the code is changed in that way, and `mutants`
in `PROJECT.json` pairs them.

## Runs

| Run | Question | Bounds, and why they are enough |
|---|---|---|
| `output_dir` | Do racing writers ever report a false success or touch a foreign file? | Three runs, four files: an export, the same export again and a scaffold export that shares their files in the middle of its order, so that any two runs collide and a contended file occurs before and after uncontended ones; any call may fail, any process crash |
| `reader` | Does every schedule give the inventory of `ReadContract` or an error? | Pools of 2 with up to 3 objects, so that workers queue; a catalog with two schemas and every kind of failure next to a second group; an isolation mode that is empty or unknown; two catalogs with nested pools; a catalog with more schemas than its pool has workers, which brings it to its bound; each of the other groups; `--name` with no, one and several matches; all identity answers |
| `reader_fanout` | Finding, see below | one catalog with three schemas, pools of 2 |
| `command` | Do exit code, files, output and event agree? | All combinations of the flags looked at, all causes an error can have, all consent states, an interrupt at any step |
| `consent` | Is the preference obeyed and never lost? | Two runs, two savers, edits, crashes, all environments |
| `update_cache` | Are notices true, and when is the network waited for again? | Three runs (two that overlap and a third that pays for it), 24 hours = 2 ticks, a clock of 0..2 that may step back, two releases |
| `update_cache_doc` | Finding | as `update_cache` |
| `grants` | Are grants whole, newest and finite, whatever the server does? | Three tokens and a limit of 3 pages: chains of 1 to 4 pages, loops of 1 to 3 tokens, chains into loops; principals on several pages, two changes |
| `ownership` | Do roots that read a securable as it stays agree on one owner, and is what a root decides true of a state it really had? | Three workspaces and the shared root, so that a securable is bound to none, one, several, with or without the designated one; two changes at any moments, so that `Get` and `GetBindings` may see two states or three |
| `ownership_shared` | Finding | no change, no symmetry; otherwise as `ownership` |
| `build` | Do imports, variables, exclusions and report agree, for both scopes, and the files of the root with one another? | 342 inventories (182,744 states), whose keys differ (`KeysOfInventoriesDiffer`): two catalogs with all pairs of ownership, grants and schemas; workspace objects with each field missing; ACLs unread, empty, with a blank principal; service principals with repeated names. Both layouts, with and without `--scaffold`, all kinds of `--module-version`; 30 Registries: releases in several orders, ties, a pre-release on top, none stable, a failing lookup |
| `build_keys` | Finding | the same and one more list of principals |

`Finished`/`Exited` steps let a system that is done stutter, so deadlock is
checked in every run.

**Fairness.** `OutputDir`: weak fairness of each process's own steps (the
operating system schedules it); crashes, failures and outsiders are never
required. `Reader`: weak fairness of identification, of the goroutines taken
together, and of the return: every SDK call has a time limit and the Go runtime
runs some runnable goroutine; nobody has to cancel. `Command`: weak fairness of
the one goroutine, whose calls all have time limits. `Grants`: weak fairness of
`Get`, as every call is answered or fails by the client's time limit; the
administrator is never required to stop. The others state safety only and
assume none.

## Findings

* `update_cache_doc`: docs/updates.md:28 says "Results and failed attempts stay
  in a local cache for 24 hours."; a second run that read the cache before the
  first stored its result puts the old entry back (`update/update.go:54`), and
  when its own request fails the result stays lost. `ResultLostToOverlapOnly`
  shows that overlap is the only way.
* `reader_fanout`: `inventory/reader.go:34` promises "8 concurrent reads" for
  each resource group. A catalog forks two branches beside its schemas
  (`unitycatalog.go:151`), and the schemas have a pool of their own
  (`unitycatalog.go:193`), so that the group of the catalogs may wait for
  8 * (2 + 8) answers. `WithinLimit` states the bound that does hold.
* `ownership_shared`: `inventory/model.go:20` calls a securable shared that is
  "OPEN, or ISOLATED and bound to zero or many workspaces"; `classify`
  (`unitycatalog.go:57`) also calls one shared that is bound to exactly one
  *other* workspace. On a server that lists a securable where it is not bound,
  the shared root then takes what the root of that workspace owns. On a server
  that does not (DataTF never asks for unbound ones), `OneRoot` holds.
* `build_keys`: a unique display name `dup (2)` meets the key that
  `inventory/workspace.go:192` makes for a second `dup`; one entry of the map is
  overwritten and two import blocks have one address, although
  `contract/build.go:16` says that imports and variables never disagree. On
  principals whose keys differ `ImportsMatchVariables` holds (run `build`).

Three more differences follow from the models as they stand, without a run:

* docs/troubleshooting.md:53 says of `--json` "A successful command leaves stderr
  empty."; the telemetry notice of `cli/telemetry.go:121` is printed there in every
  output mode until a preference is saved. `JsonStderr` states what does hold.
* The code `module_version_error` (`cli/export.go:172`) is not in the event
  allowlist, so that such a failure is recorded as "other", which
  `cli/telemetry_codes_test.go:11` says does not happen.
* `cli/telemetry.go:89` has the notice printed "before any event leaves the
  machine". A run that begins under a saved opt-out prints none; when the file is
  deleted while it works, `finishUsage` (`cli/telemetry.go:130`) resolves the
  preference again, to the default, and sends. This is the exception that
  `EventAfterNotice` names, and the run shows that it is the only one.

## Proofs

`OutputDirProofs` proves, for every set of runs, every set of file names and
every assignment of names to runs (assumptions: names are naturals, so that they
are ordered; owners are distinct), the safety properties of the run
`output_dir`:

* `Typing`: type correctness, by one step per action.
* `SuccessSafe`, `HalfWrittenSafe`, from the inductive invariant `OwnershipInv`: a file that a run has visited in its creating loop is
  its own and complete, a file it has still to visit is not its own unless it is
  the one being written, and a half-written file has an owner that is, or was
  stopped, writing it. `SuccessIsComplete` alone is not inductive: it says
  nothing of a run before it returns.
* `ClaimsAreKept`: `OutputDir` implements `Claims` under the mapping that reads a
  run as running, ok or stopped (`Result`) and a complete file as whole.
  `StepClaims` maps every step: `Open` claims, `Write` finishes, `Return`
  succeeds, a failing check, call or crash stops, `Interfere` appears, the rest
  stutters. That `Claims` lets an owner claim only after it has finished what it
  owns, and succeed only with everything, is where `OwnershipInv` is needed.
* `SomeRunWins`, from the stronger `ContentionInv`: while nothing is disturbed,
  as soon as a file exists some run leads: it has returned, or every file that
  exists comes before those it has left to create, so that no existing file can
  stop it. A run that creates a file beyond the leader's next one takes the lead
  from it (`OpenKeepsLeader`, `WriteKeepsLeader`). This rests on the common
  creation order; with any other the mutant `AnyOrder` makes all runs fail.

`ConsentProofs`, for every set of runs and of savers that have none in common:

* `Typing`, and `PreferenceKept` directly from it: every action is looked at.
* `NoticeComesFirst`, `OptOutObeyed` from the inductive `ConsentInv`. Neither is
  inductive, because they say nothing of a run before it sends; `Watching` adds
  that a run at work has the present content of the file among what it has seen,
  so that `Finish` decides on something in `since`, and that a run under the
  default that saw no file at all has printed the notice. `BecameKeeps` is the
  lemma for every change of the file, by a saver or by the user.
* `LateOptOutObeyed`: of all steps only `Finish` sends, and it looks at the file
  again.

`UpdateCacheProofs`, for every set of runs and every bound on clock and releases
(24 hours are at least one tick; the installed release is one of the releases):

* `Typing`, and `NoticeHolds` from `NoticeInv`: the property says nothing of the
  cache, so `Known` adds that whatever is cached or held by a run names a release
  that exists. Failed requests, crashes and overlapping writes only move such
  entries about.
* `NoRepeatedDelayHolds` and `LostToOverlapOnly`, both from `Order`: while nothing
  is disturbed, runs begin in the order of their times, and a run records its own.
  `Delays` adds that a recorded attempt is put back only by an older run that
  overlaps, that the time in the cache is that of some run (`Origin`), and that a
  run which is to wait saw nothing of the last 24 hours, or a time ahead of its own,
  which is that of a run overlapping it. `Lasting` adds that after a result stored without
  overlap the cache is that of the run and nobody is about to write: whoever is at
  work began after it and finds its time fresh.

`ReaderProofs`, for every set of workspaces (`WorldsAssumption`: the answers are
of their types, for some of the eight groups), every `Parallelism`, and texts
that are told apart by their order (`RankAssumption`). All rest on one inductive
invariant, `IInv`, which was model-checked before it was proved:

* `Typing`. That no goroutine is at a step of another kind (`AtOwnStep`) comes
  from the lists of steps, looked at kind by kind in `StepsFacts`.
* `Losslessness`, `Openness`. Neither is inductive: a catalog ends as its own
  branch does, so that `AllAccounted` also says of a dropped branch that an issue
  names its catalog, and of any task, kept or not, that an unknown owner has its
  issue. A record must then survive what others do: appending keeps it
  (`IssueRecorded`), and so does the sort at the end. `SortKeeps` proves that
  sorting by counting loses nothing: the elements before another one are fewer
  for it than for its successors, so that every position is taken
  (`Positions`), for which `Before` must be a total order (`IssuesOrdered`).
* `BoundedFanOut`: a group has no more workers than Parallelism, and waits for one
  answer per worker, or 2 + Parallelism per worker of the catalogs. `PoolsLimited`
  bounds the running workers of a single pool, while the property counts the calls
  of a whole group: that needs `StartedByParent` (who runs has a parent that waits
  for it, so that nothing runs while the group is still being listed,
  `ListedAlone`), and for catalogs a numbering of the goroutines by worker and slot
  (`CatalogsWaiting`), as each worker has two branches and a third one or its pool.

`GrantsProofs`, for every set of tokens, every server and every limit:

* `Typing`, and `WholeOrRefusedHolds` from an invariant that says what holds while
  the loop runs: the tokens asked for so far are a path of the listing from its
  first page to the next token, as long as the page number, and the grants are
  those of its pages. Without it nothing relates the answer at the end to the
  pages before. That a refused listing does not finish within the limit needs
  the uniqueness of the path: every listing that ends begins with the path that
  was followed, so that a repeated token or the last allowed page excludes it.
* `NewestWinsHolds`, for principals whose names are different texts
  (`RankAssumption`), from `LastIsNewest`: of the grants read so far, the last one
  of a principal is what the last answer naming it said, while earlier ones may be
  out of date. The stable sort keeps the order of the grants of one principal
  (which the mutant `EarlierUnstable` does not), so that the map, which takes the
  last of them, has the newest.

`OwnershipProofs`, for every set of workspaces and every number of changes:

* `OneRootHolds`: what a root that nobody has touched decided is what `Ownership`
  says of the securable as it is now (`Consistent`), even if others were touched;
  two such roots that take it both are then two workspaces it is bound to alone,
  which is impossible, or the shared root and a workspace, which a server
  excludes that lists no unbound securables: the finding `ownership_shared` is the
  other kind of server.
* `RightAtSomeMomentHolds`: a root between `Get` and `GetBindings` has seen an
  isolated state, and the present one (`InHand`); after at most one change these
  differ in the mode or in the bindings only, and the bindings are those of a state
  the decision is right for. With three it fails, as the run
  shows when `OneChange` is left out: mode and bindings are not read together.

`CommandProofs`, for every set of command lines and any moment of the interrupt:

* `Typing`, and `ExitZeroHolds`, `BlockedHolds` from what each stage has reached
  (`Story`): up to the read there is no report, past the check of an export a
  partial one only when it is allowed, a failing command has an error and no other
  has, and an error names a partial result only when there is one that was not
  allowed. The properties speak of the end alone and are not inductive.
  `BlockedHolds` says of a blocked export that nothing is written, and of an
  argument error that nothing has started: no report, no file, no progress and no
  issue on stderr, on stdout at most the help. For that `StderrTells` adds that
  stderr is `Quiet` in the stages up to the read (`Early`), and whenever the error
  is one of arguments. The notice may be there by then, as it is printed before
  `prepare` looks at the options.
* `EventHolds` adds `UsageTells`: until the command returns its usage is what it
  began with, marked by a partial export; `writeError` then replaces the code by
  that of the error, and only that. `FinishTells` is the step that makes the event.
* `JsonStderrHolds` from `StderrTells`: before the end, the notice and the error
  are all that a JSON command may have written to stderr.

`RootProofs`, for every set of inventories (`InventoriesAssumption`: the fields are
of their types, and an inventory without issues knows the owner of each securable,
the grants of it and of its schemas, and the ACLs of its scopes, as `Openness`
proves of the reader), every set of releases that are different texts
(`ReleasesAssumption`) and every answer of the Registry (`RegistriesAssumption`):

* `Walk` is the invariant behind all others. The builder is a walk over passes
  `<<n, i, k>>`: method `n`, object `i`, schema `k` of it or 0. What an export
  holds is what the passes behind the cursor contribute and nothing else
  (`HoldsAll`, `HoldsOnly`), and it has no issue only if none of them raised one.
  The properties say nothing of an export that is half
  built, or only of the reports, and are not inductive.
* `ImportsMatch` adds that the import blocks are those of the entries
  (`AgreeInv`) and, of an inventory whose keys differ, each once (`UniqueInv`): a
  pass contributes addresses that no pass behind it has, because the keys of two
  passes differ. `KeysDiffer(inv)` is stated in the theorem and not assumed,
  because it can fail: the finding `build_keys` is an inventory without it. Its
  parts are what the platform guarantees (unique names in a metastore or
  workspace, no "." in the names of catalogs and schemas, no "|" in an id) and the
  keys of service principals, which it does not. `MCRoot` checks that the
  inventories of the run fulfil it.
* `Partition` and `CompleteIsWhole` read the finished exports off `Walk`. The
  former asks that names of securables differ; the latter asks nothing. It says
  of a report called complete that every securable, of any kind, with or without
  schemas, is in the export with its grants, bindings and schemas or named as
  excluded, and every other object with its permissions or ACLs
  (`WholeSecurables`, `AccessHeld`, `WholeSchemas`, `WholePermissions`). An
  unknown owner is named by the reader's issue alone, so that this rests on the
  assumption above.
* `OnlyImports`: the addresses of the rendered import blocks are those of the
  export (`RenderedTargets`, for which a group of blocks must give back its
  addresses from their keys), and the resources that the rendered inputs make
  Terraform manage are those of the entries (`ManagedRows`), in both layouts.
* `AccessKept`: all entries of one object come from one pass when keys differ
  (`RowsOfOnePass`), so that nobody else's principals are among them.
* `Runnable` from `PinInv`, which relates options, the answers of the Registry and
  the resolved versions from stage to stage, and from `LatestIsNewest`: what the
  loop of `LatestVersion` has chosen among the first releases is the newest stable
  one of them. The function that the loop computes is shown to exist, and its
  property to hold to the end of the listing, by induction over the set of numbers
  for which it does (`SetInduction`).
* `CommandInvariance` says that only a finished export is rendered and that the
  files are those of the options; `RootTyping` is type correctness.

Every invariant and action property of the runs is proved. Only model-checked
are liveness (`EveryRunEnds`, `ReadReturns`, `CommandExits`, `CallEnds`), as
fairness and enabledness are beyond the prover, and the refinement
`ImplementsReadContract`: it needs an invariant that counts the issues of all
goroutines one by one against those of the contract, which is not proved yet.
The parts of it that matter to a user are (`Losslessness`, `Openness`).

## Not modelled

The text of HCL, JSON, Markdown and tables (covered by golden files), of the
provider and version files and of messages; redaction of the inventory; the
formatter; the fake workspace used by tests; install scripts, examples and CI.
Values of settings are left out of `Build` and `Root`, as no property depends on
them. What the Terraform modules do with their inputs is external: `Managed` in
`Root` assumes one resource per object, one for its grants or permissions when
there are any, and one per ACL, as the comments of `contract` describe them.

`Reader` reads a workspace that does not change, and has the pages of a grants
call as one step; `Grants` and `Ownership` let the workspace change within such
calls, but the grants and schemas of a catalog may still be of another moment
than its owner, which the code does not try to prevent. `Reader` never sees
workspace id 0 in `classify`: `Identify` has refused it. Whether a server lists an
isolated securable in a workspace it is not bound to is left open in
`Ownership`: `OneRoot` holds on a server that does not, and `ownership_shared`
shows what happens on one that does. Duplicate binding
entries of one securable and workspace are not among the inventories: the API
keeps one. A grant without a principal and a secret scope without a name are
dropped in silence (`contract/tfvars.go`, `inventory/workspace.go`), which no text
of the repository excludes; `CompleteMeansWhole` and `NothingHidden` permit it.

The cache of `UpdateCache` may be removed or unreadable, but never an entry that is
well-formed and was not written by a run. `NoRepeatedDelay` and
`ResultLostToOverlapOnly` are about runs during which the clock was not set back
and the cache not removed (`disturbed`); for the others there is only
`NoticeIsNewer`.

## Plan

Done: `OutputDir` with its refinement to `Claims`, `Consent`, `UpdateCache`, `Grants`,
`Ownership`, `Command`, `Build`, `Root` and `Reader` with their proofs; `ReadContract`,
which `Reader` is checked to implement.

Left, in this order:

1. The proof that `Reader` implements `ReadContract`: a bijection between the
   issues of the goroutines and those of the contract, kept by every step and by
   the sort.
2. The delivery of a usage event: the request, its time limit and the exit of the
   process.
3. Rows for permissions with several levels and inherited entries in one answer,
   in `Reader`.
