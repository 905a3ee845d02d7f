-------------------------------- MODULE Reader --------------------------------
(***************************************************************************)
(* inventory.Reader.Read: a caller is identified, then every selected      *)
(* group is read by its own goroutine, which lists the group and hands the *)
(* objects to a pool of at most Parallelism workers.  A catalog's worker   *)
(* starts three goroutines, one of which has a pool of its own for the     *)
(* schemas.  Failures are appended, under a mutex, to the issues that all  *)
(* goroutines share; the context may be cancelled at any moment.           *)
(*                                                                         *)
(* A task is the path of a goroutine: <<g>> reads group g, <<g, i>> its    *)
(* i-th object, <<g, i, b>> branch b of a catalog, <<g, i, "schemas", k>>  *)
(* its k-th schema.  One step is one API call with what the code does on   *)
(* its answer, or one local decision that records a skip or an issue.      *)
(***************************************************************************)
EXTENDS Workspace

CONSTANTS Worlds, Parallelism

ASSUME ParallelismAssumption == Parallelism \in Nat

ASSUME WorldsAssumption == \A w \in Worlds : IsWorld(w)

(* Different texts are told apart by their order.                           *)
Text == DOMAIN Rank

ASSUME RankAssumption ==
    /\ \A a, b \in Text : Rank[a] \in Nat /\ (Rank[a] = Rank[b] => a = b)
    /\ Words \subseteq Text
    /\ \A w \in Worlds : NamesIn(w) \subseteq Text

VARIABLES
    world,      \* what the workspace answers (it does not change during a read)
    cancelled,  \* the context is done
    phase,      \* where Read is
    ident,      \* the two calls of Identify that run together
    here,       \* inv.WorkspaceID
    pc,         \* pc[t]: the next step of task t
    found,      \* found[t]: what worker or branch t has put in its object
    issues,     \* inv.Issues, in the order they were appended
    skipped     \* inv.Skipped

vars == <<world, cancelled, phase, ident, here, pc, found, issues, skipped>>

Branches == {"own", "grants", "schemas"}

(* The workers of the groups, those of catalogs, and a catalog's schemas.   *)
Workers(w) == UNION {{<<g, i>> : i \in DOMAIN Listed(w, g)} : g \in DOMAIN w.list}

CatalogWorkers(w) == {t \in Workers(w) : t[1] = Catalogs}

SchemaIndices(w, t) == LET o == Listed(w, t[1])[t[2]]
                       IN  IF o.schemas = Fail THEN {} ELSE DOMAIN o.schemas

(* Every goroutine a read of w may start.                                   *)
Tasks(w) ==
    {<<g>> : g \in DOMAIN w.list} \cup Workers(w)
    \cup (UNION {{<<t[1], t[2], b>> : b \in Branches} : t \in CatalogWorkers(w)})
    \cup (UNION {{<<t[1], t[2], "schemas", k>> : k \in SchemaIndices(w, t)} :
                    t \in CatalogWorkers(w)})

(* The listed object (or schema) a task is about.                           *)
Item(t) == LET o == Listed(world, t[1])[t[2]]
           IN  IF Len(t) = 4 THEN o.schemas[t[4]] ELSE o

Parent(t) == CASE Len(t) = 4 -> <<t[1], t[2], "schemas">>
               [] Len(t) = 3 -> <<t[1], t[2]>>
               [] Len(t) = 2 -> <<t[1]>>

Children(t) == {u \in DOMAIN pc : Len(u) # 1 /\ Parent(u) = t}

Ended(t) == pc[t] \in {"kept", "dropped"}

Running(t) == pc[t] # "waiting" /\ ~Ended(t)

-----------------------------------------------------------------------------
(* The steps of each worker, in the order of the code.                      *)
ReadCatalog           == <<"type", "system", "fork">>
OwnBranch             == <<"get", "classify", "kept">>
GrantsBranch          == <<"access", "kept">>
SchemasBranch         == <<"list_schemas", "pool">>
ReadSchema            == <<"system", "access", "kept">>
ReadStorageCredential == <<"system", "get", "classify", "access", "kept">>
ReadExternalLocation  == <<"system", "get", "classify", "access", "kept">>
ReadClusterPolicy     == <<"get", "system", "access", "kept">>
ReadInstancePool      == <<"get", "access", "kept">>
ReadWarehouse         == <<"get", "access", "kept">>
ReadSecretScope       == <<"blank", "system", "access", "kept">>
ReadServicePrincipal  == <<"kept">>

BranchSteps(b) ==
    CASE b = "own" -> OwnBranch [] b = "grants" -> GrantsBranch [] b = "schemas" -> SchemasBranch

WorkerSteps(g) ==
    CASE g = Catalogs              -> ReadCatalog
      [] g = "storage_credentials" -> ReadStorageCredential
      [] g = "external_locations"  -> ReadExternalLocation
      [] g = "cluster_policies"    -> ReadClusterPolicy
      [] g = "instance_pools"      -> ReadInstancePool
      [] g = "warehouses"          -> ReadWarehouse
      [] g = "secret_scopes"       -> ReadSecretScope
      [] g = "service_principals"  -> ReadServicePrincipal

Steps(t) == CASE Len(t) = 1 -> <<"list", "pool">>
              [] Len(t) = 2 -> WorkerSteps(t[1])
              [] Len(t) = 3 -> BranchSteps(t[3])
              [] Len(t) = 4 -> ReadSchema

StepsOf(t) == {Steps(t)[i] : i \in DOMAIN Steps(t)}

Following(t) == LET s == Steps(t)
                IN  s[1 + CHOOSE i \in DOMAIN s : s[i] = pc[t]]

Proceed(t) == pc' = [pc EXCEPT ![t] = Following(t)]

Drop(t) == pc' = [pc EXCEPT ![t] = "dropped"]

Limit == IF Parallelism < 1 THEN 1 ELSE Parallelism

(* How a call may end: as the workspace answers, or with the context error. *)
NoError == "none"

Outcomes(ok) == {IF ok THEN NoError ELSE "api_error"}
                \cup (IF cancelled THEN {"canceled"} ELSE {})

Issue(area, object, operation, message) ==
    issues' = Append(issues, <<area, object, operation, message>>)

Skip(area, object) == skipped' = Append(skipped, <<area, object>>)

-----------------------------------------------------------------------------
Init ==
    /\ world \in Worlds
    /\ cancelled = FALSE
    /\ phase = "identify"
    /\ ident = [me |-> "calling", current |-> "calling"]
    /\ here = 0
    /\ pc = [t \in Tasks(world) |-> "waiting"]
    /\ found = [t \in Tasks(world) |-> [owner |-> "none", access |-> FALSE]]
    /\ issues = <<>>
    /\ skipped = <<>>

(* The user interrupts the program, or a deadline passes.                   *)
Cancel ==
    /\ ~cancelled
    /\ cancelled' = TRUE
    /\ UNCHANGED <<world, phase, ident, here, pc, found, issues, skipped>>

(* Identify: CurrentUser.Me and Metastores.Current run together; only the   *)
(* first one's error counts.                                                *)
Me ==
    /\ phase = "identify" /\ ident.me = "calling"
    /\ \E e \in Outcomes(world.me) :
         ident' = [ident EXCEPT !.me = IF e = NoError THEN "ok" ELSE "failed"]
    /\ UNCHANGED <<world, cancelled, phase, here, pc, found, issues, skipped>>

(* When Me has failed, its group's context is cancelled as well.            *)
CurrentMetastore ==
    /\ phase = "identify" /\ ident.current = "calling"
    /\ ident' = [ident EXCEPT !.current = "done"]
    /\ \E e \in Outcomes(world.current # Fail)
                  \cup (IF ident.me = "failed" THEN {"canceled"} ELSE {}) :
         here' = IF e = NoError THEN world.current ELSE 0
    /\ UNCHANGED <<world, cancelled, phase, pc, found, issues, skipped>>

(* Mutant of ResolveWorkspace: the error of CurrentWorkspaceID is ignored.  *)
ResolveUnchecked ==
    /\ phase = "identify"
    /\ ident.me # "calling" /\ ident.current = "done"
    /\ here' = IF here = 0 THEN world.header ELSE here
    /\ phase' = IF ident.me = "ok" THEN "groups" ELSE "error"
    /\ pc' = [t \in DOMAIN pc |-> IF Len(t) = 1 THEN "list" ELSE pc[t]]
    /\ UNCHANGED <<world, cancelled, ident, found, issues, skipped>>

(* With no assignment the workspace id comes from a second call.            *)
ResolveWorkspace ==
    /\ phase = "identify"
    /\ ident.me # "calling" /\ ident.current = "done"
    /\ \/ /\ ident.me = "failed"
          /\ phase' = "error" /\ UNCHANGED here
       \/ /\ ident.me = "ok" /\ here > 0
          /\ phase' = "groups" /\ UNCHANGED here
       \/ /\ ident.me = "ok" /\ here = 0
          /\ \E e \in Outcomes(world.header # Fail) :
               /\ here' = IF e = NoError THEN world.header ELSE 0
               /\ phase' = IF here' > 0 THEN "groups" ELSE "error"
    /\ pc' = [t \in DOMAIN pc |-> IF phase' = "groups" /\ Len(t) = 1 THEN "list" ELSE pc[t]]
    /\ UNCHANGED <<world, cancelled, ident, found, issues, skipped>>

-----------------------------------------------------------------------------
(* The list call of a group, then selectNamed.  A failed list or a name     *)
(* without exactly one match leaves the group empty.                        *)
List(t) ==
    /\ pc[t] = "list"
    /\ \E e \in Outcomes(world.list[t[1]] # Fail) :
         IF e # NoError
           THEN Drop(t) /\ Issue(Area(t[1]), t[1], "list", e)
           ELSE IF NameFound(world, Keyed(t[1], world.list[t[1]]))
                  THEN Proceed(t) /\ UNCHANGED issues
                  ELSE /\ Drop(t)
                       /\ Issue("selection", world.name, "select name", "selection_failed")
    /\ UNCHANGED <<world, cancelled, phase, ident, here, found, skipped>>

ListSchemas(t) ==
    /\ pc[t] = "list_schemas"
    /\ \E e \in Outcomes(Item(t).schemas # Fail) :
         IF e # NoError
           THEN Drop(t) /\ Issue("unity_catalog", Item(t).name, "schemas", e)
           ELSE Proceed(t) /\ UNCHANGED issues
    /\ UNCHANGED <<world, cancelled, phase, ident, here, found, skipped>>

(* Mutants of Launch: nested pools share one limit.                         *)
LaunchShared(t) ==
    /\ pc[t] = "pool"
    /\ Cardinality({u \in DOMAIN pc : Len(u) \in {2, 4} /\ Running(u)}) < Limit
    /\ \E u \in Children(t) : pc[u] = "waiting" /\ pc' = [pc EXCEPT ![u] = Steps(u)[1]]
    /\ UNCHANGED <<world, cancelled, phase, ident, here, found, issues, skipped>>

(* ... and the schemas of a catalog are read without a limit of their own.  *)
LaunchSchemasAll(t) ==
    /\ pc[t] = "pool"
    /\ Len(t) = 1 => Cardinality({u \in Children(t) : Running(u)}) < Limit
    /\ \E u \in Children(t) : pc[u] = "waiting" /\ pc' = [pc EXCEPT ![u] = Steps(u)[1]]
    /\ UNCHANGED <<world, cancelled, phase, ident, here, found, issues, skipped>>

(* g.Go in list order; it blocks while Limit workers of this pool run.      *)
Launch(t) ==
    /\ pc[t] = "pool"
    /\ Cardinality({u \in Children(t) : Running(u)}) < Limit
    /\ \E u \in Children(t) :
         /\ pc[u] = "waiting"
         /\ \A v \in Children(t) : pc[v] = "waiting" => u[Len(u)] <= v[Len(u)]
         /\ pc' = [pc EXCEPT ![u] = Steps(u)[1]]
    /\ UNCHANGED <<world, cancelled, phase, ident, here, found, issues, skipped>>

(* g.Wait, then compact: what the workers kept, in list order.              *)
Wait(t) ==
    /\ pc[t] = "pool"
    /\ \A u \in Children(t) : Ended(u)
    /\ pc' = [pc EXCEPT ![t] = "kept"]
    /\ UNCHANGED <<world, cancelled, phase, ident, here, found, issues, skipped>>

-----------------------------------------------------------------------------
(* Decisions a worker takes on what it already has.                         *)
CheckType(t) ==
    /\ pc[t] = "type"
    /\ \/ Item(t).type = "MANAGED_CATALOG" /\ Proceed(t) /\ UNCHANGED <<issues, skipped>>
       \/ /\ Item(t).type = "" /\ Drop(t)
          /\ Issue("unity_catalog", Item(t).name, "list", "missing_type")
          /\ UNCHANGED skipped
       \/ /\ Item(t).type \notin {"", "MANAGED_CATALOG"} /\ Drop(t)
          /\ Skip("unity_catalog", Item(t).name)
          /\ UNCHANGED issues
    /\ UNCHANGED <<world, cancelled, phase, ident, here, found>>

CheckSystem(t) ==
    /\ pc[t] = "system"
    /\ IF Item(t).system THEN Drop(t) /\ Skip(Area(t[1]), Item(t).name)
                         ELSE Proceed(t) /\ UNCHANGED skipped
    /\ UNCHANGED <<world, cancelled, phase, ident, here, found, issues>>

(* A scope without a name is passed over in silence.                        *)
CheckBlank(t) ==
    /\ pc[t] = "blank"
    /\ IF Item(t).name = "" THEN Drop(t) ELSE Proceed(t)
    /\ UNCHANGED <<world, cancelled, phase, ident, here, found, issues, skipped>>

Fork(t) ==
    /\ pc[t] = "fork"
    /\ pc' = [u \in DOMAIN pc |-> CASE u = t -> "join"
                                    [] Len(u) = 3 /\ Parent(u) = t -> Steps(u)[1]
                                    [] OTHER -> pc[u]]
    /\ UNCHANGED <<world, cancelled, phase, ident, here, found, issues, skipped>>

(* The catalog is kept when its own Get succeeded, whatever the others did. *)
Join(t) ==
    /\ pc[t] = "join"
    /\ \A u \in Children(t) : Ended(u)
    /\ pc' = [pc EXCEPT ![t] = pc[<<t[1], t[2], "own">>]]
    /\ UNCHANGED <<world, cancelled, phase, ident, here, found, issues, skipped>>

(* Mutant of Get: an object that is gone is dropped without a word.         *)
GetQuietly(t) ==
    /\ pc[t] = "get"
    /\ \E e \in Outcomes(Item(t).get) : IF e # NoError THEN Drop(t) ELSE Proceed(t)
    /\ UNCHANGED <<world, cancelled, phase, ident, here, found, issues, skipped>>

(* The calls about one object.                                              *)
Get(t) ==
    /\ pc[t] = "get"
    /\ \E e \in Outcomes(Item(t).get) :
         IF e # NoError
           THEN Drop(t) /\ Issue(Area(t[1]), Item(t).name, "get", e)
           ELSE Proceed(t) /\ UNCHANGED issues
    /\ UNCHANGED <<world, cancelled, phase, ident, here, found, skipped>>

Own(t, owner) == found' = [found EXCEPT ![t].owner = owner]

(* classify: the bindings are asked for only when the object is isolated.   *)
Classify(t) ==
    /\ pc[t] = "classify"
    /\ Proceed(t)
    /\ \/ Item(t).mode \in OpenModes /\ Own(t, "shared") /\ UNCHANGED issues
       \/ /\ Item(t).mode \notin OpenModes \cup {"ISOLATED"}
          /\ Own(t, "unknown")
          /\ Issue("unity_catalog", Item(t).name, "scope", "unknown_mode")
       \/ /\ Item(t).mode = "ISOLATED"
          /\ \E e \in Outcomes(Item(t).bindings # Fail) :
               IF e # NoError
                 THEN /\ Own(t, "unknown")
                      /\ Issue("unity_catalog", Item(t).name, "bindings", e)
                 ELSE /\ Own(t, IF Item(t).bindings = {here} THEN "workspace" ELSE "shared")
                      /\ UNCHANGED issues
    /\ UNCHANGED <<world, cancelled, phase, ident, here, skipped>>

(* Mutant of Access: a failure looks like an object without grants.         *)
AccessQuietly(t) ==
    /\ pc[t] = "access"
    /\ Proceed(t)
    /\ \E e \in Outcomes(Item(t).access) :
         found' = [found EXCEPT ![t].access = (e = NoError)]
    /\ UNCHANGED <<world, cancelled, phase, ident, here, issues, skipped>>

(* Grants, permissions or ACLs.  A failure keeps the object without them.   *)
Access(t) ==
    /\ pc[t] = "access"
    /\ Proceed(t)
    /\ \E e \in Outcomes(Item(t).access) :
         /\ found' = [found EXCEPT ![t].access = (e = NoError)]
         /\ IF e = NoError THEN UNCHANGED issues
                           ELSE Issue(Area(t[1]), Item(t).name, "access", e)
    /\ UNCHANGED <<world, cancelled, phase, ident, here, skipped>>

-----------------------------------------------------------------------------
(* Issues sorted on every field; a mutant stops after the object's name.    *)
ByObjectOnly(a, b) == Before(<<a[1], a[2]>>, <<b[1], b[2]>>)

SortIssuesByObject(s) == SortBy(s, ByObjectOnly)

SortIssues(s) == SortBy(s, Before)

SortSkipped(s) == SortBy(s, Before)

(* All groups are done.  The context is looked at before the inventory is   *)
(* sorted and returned.                                                     *)
Return ==
    /\ phase = "groups"
    /\ \A t \in DOMAIN pc : Len(t) = 1 => Ended(t)
    /\ IF cancelled
         THEN phase' = "error" /\ UNCHANGED <<issues, skipped>>
         ELSE /\ phase' = "done"
              /\ issues' = SortIssues(issues)
              /\ skipped' = SortSkipped(skipped)
    /\ UNCHANGED <<world, cancelled, ident, here, pc, found>>

Identify == Me \/ CurrentMetastore \/ ResolveWorkspace

Work(t) == \/ List(t) \/ ListSchemas(t) \/ Launch(t) \/ Wait(t)
           \/ CheckType(t) \/ CheckSystem(t) \/ CheckBlank(t) \/ Fork(t) \/ Join(t)
           \/ Get(t) \/ Classify(t) \/ Access(t)

Returned == phase \in {"done", "error"}

Finished == Returned /\ UNCHANGED vars

Next == Cancel \/ Identify \/ (\E t \in DOMAIN pc : Work(t)) \/ Return \/ Finished

Spec == Init /\ [][Next]_vars

(* Every API call ends (the SDK has its own timeouts) and the Go scheduler  *)
(* runs every goroutine that can run; that somebody cancels is not assumed. *)
FairSpec == /\ Spec
            /\ WF_vars(Identify)
            /\ WF_vars(\E t \in DOMAIN pc : Work(t))
            /\ WF_vars(Return)

-----------------------------------------------------------------------------
(* The inventory as its caller would see it now.                            *)
KeptChildren(t) ==
    LET kept(i) == pc[Append(t, i)] = "kept"
    IN  SelectSeq([i \in 1..Cardinality(Children(t)) |-> i], kept)

ObjectRecord(t) ==
    LET own     == IF t[1] = Catalogs THEN Append(t, "own") ELSE t
        grants  == IF t[1] = Catalogs THEN Append(t, "grants") ELSE t
        schemas == Append(t, "schemas")
        schema(k) == [name   |-> Item(Append(schemas, k)).name,
                      access |-> found[Append(schemas, k)].access]
        kept    == IF t[1] = Catalogs THEN KeptChildren(schemas) ELSE <<>>
    IN  [name    |-> Item(t).name,
         owner   |-> found[own].owner,
         access  |-> found[grants].access,
         schemas |-> [k \in DOMAIN kept |-> schema(kept[k])]]

GroupRecords(g) ==
    [i \in DOMAIN KeptChildren(<<g>>) |-> ObjectRecord(<<g, KeptChildren(<<g>>)[i]>>)]

Result ==
    [status    |-> IF Returned THEN phase ELSE "pending",
     inventory |-> IF phase = "done" THEN [g \in DOMAIN world.list |-> GroupRecords(g)] ELSE <<>>,
     issues    |-> IF phase = "done" THEN issues ELSE <<>>,
     skipped   |-> IF phase = "done" THEN skipped ELSE <<>>]

RC == INSTANCE ReadContract WITH result <- Result

(* Whatever the interleaving of the goroutines, a read returns the one      *)
(* sorted inventory that the workspace's answers determine, with one issue  *)
(* for each failure, or an error; an inventory cut short by a cancelled     *)
(* context is never returned.                                               *)
ImplementsReadContract == RC!Spec

TypeOK ==
    /\ world \in Worlds /\ cancelled \in BOOLEAN
    /\ phase \in {"identify", "groups", "done", "error"}
    /\ ident \in [me : {"calling", "ok", "failed"}, current : {"calling", "done"}]
    /\ here \in Nat
    /\ pc \in [Tasks(world) -> {"waiting", "list", "list_schemas", "pool", "type", "system",
                                "blank", "fork", "join", "get", "classify", "access", "kept",
                                "dropped"}]
    /\ found \in [Tasks(world) -> [owner : {"none", "shared", "workspace", "unknown"},
                                   access : BOOLEAN]]
    /\ issues \in Seq(Text \X Text \X Text \X Text)
    /\ skipped \in Seq(Text \X Text)

Reported(t, ops) == \E i \in DOMAIN issues : issues[i][2] = Item(t).name /\ issues[i][3] \in ops

SkipRecorded(t) == \E i \in DOMAIN skipped : skipped[i][2] = Item(t).name

(* An object that was listed is not lost on the way: once its worker is     *)
(* done, it is in the inventory, or an issue or a skip names it (a secret   *)
(* scope without a name is the one exception).                              *)
NothingLost ==
    \A t \in DOMAIN pc : Len(t) \in {2, 4} /\ pc[t] = "dropped" =>
        \/ SkipRecorded(t)
        \/ Reported(t, {"list", "get"})
        \/ t[1] = "secret_scopes" /\ Item(t).name = ""

(* What is in the inventory but could not be read whole is marked by an     *)
(* issue: an owner or access that could not be read, and the schemas of a   *)
(* catalog that could not be listed.                                        *)
NothingHidden ==
    \A t \in DOMAIN pc :
        /\ pc[t] = "kept" /\ found[t].owner = "unknown" => Reported(t, {"scope", "bindings"})
        /\ pc[t] = "kept" /\ "access" \in StepsOf(t) /\ ~found[t].access => Reported(t, {"access"})
        /\ pc[t] = "dropped" /\ Len(t) = 3 /\ t[3] = "schemas" => Reported(t, {"schemas"})

Calling(t) == pc[t] \in {"list", "get", "classify", "access", "list_schemas"}

(* The goroutines of a group that wait for an answer.                       *)
WaitingFor(g) == {t \in DOMAIN pc : t[1] = g /\ Calling(t)}

WorkersOf(t) == {u \in Children(t) : Running(u)}

(* However large the workspace, Parallelism bounds the calls in flight: a   *)
(* group waits for one list, then for its workers, of which no more than    *)
(* Limit run; a worker waits for one answer, but that of a catalog for its  *)
(* two branches and for as many schemas as their own pool has workers.      *)
WithinLimit ==
    \A g \in DOMAIN world.list :
        /\ Cardinality(WorkersOf(<<g>>)) <= Limit
        /\ Cardinality(WaitingFor(g)) <=
             IF <<g>> \in WaitingFor(g) THEN 1
             ELSE Cardinality(WorkersOf(<<g>>)) * (IF g = Catalogs THEN 2 + Limit ELSE 1)

(* "New returns a Reader that fans each resource group out to 8 concurrent  *)
(* reads" (inventory/reader.go:34): no group waits for more than Parallelism *)
(* answers at once.  Catalogs do: each worker forks branches and schemas.   *)
EightReadsPerGroup ==
    \A g \in DOMAIN world.list : Cardinality(WaitingFor(g)) <= Limit

(* Read returns, whatever fails: no goroutine waits for one that waits for  *)
(* it.                                                                      *)
ReadReturns == <>Returned
===============================================================================
