-------------------------------- MODULE Build --------------------------------
(***************************************************************************)
(* contract.Build and NewReport: an inventory becomes Terraform variables, *)
(* import blocks for the objects behind them, a list of the objects left   *)
(* to the other scope, and issues; the report says whether the result is   *)
(* whole.  One step is one pass of a loop of the builder: an object, or a  *)
(* schema of a catalog.  The same inventory is built for both scopes, as a *)
(* user does who keeps one root for each.                                  *)
(*                                                                         *)
(* A row [table, part, key, item] stands for an entry of a tfvars map: the *)
(* settings of an object, or its access, permissions or ACLs (the part),   *)
(* with item Blank for the entry itself and a principal for one inside     *)
(* it.  An import block is its address [module, key, resource, index].     *)
(*                                                                         *)
(* An inventory is a record of one sequence per resource group and of      *)
(* issues, the number of read issues.                                      *)
(***************************************************************************)
EXTENDS Workspace, SequencesExt

CONSTANT Inventories

Blank == ""

Scopes == {"workspace", "shared"}

Tables == {ResourceNames[i] : i \in DOMAIN ResourceNames}

Securables == {"catalogs", "storage_credentials", "external_locations"}

Identified == {"cluster_policies", "instance_pools", "warehouses"}

-----------------------------------------------------------------------------
(* What the reader hands over.  Securables and secret scopes have names     *)
(* (the latter because the reader drops the others); grants and ACLs are    *)
(* Fail when they could not be read; a text stands for a whole permission,  *)
(* its level and principal; valid says that the JSON and the required       *)
(* fields of an object are in order.                                        *)
GrantsInfo == {Fail} \cup SUBSET STRING

SchemaRead == [name : STRING, grants : GrantsInfo]

SecurableInfo == [name : STRING \ {Blank}, owner : {"workspace", "shared", "unknown"},
                  bindings : Seq(STRING), grants : GrantsInfo,
                  schemas : Seq(SchemaRead)]

IdentifiedInfo == [name : STRING, id : STRING, valid : BOOLEAN,
                   permissions : SUBSET (STRING \ {Blank})]

SecretScopeInfo == [name : STRING \ {Blank}, acls : {Fail} \cup Seq(STRING)]

ServicePrincipalInfo == [name : STRING, suffix : STRING, id : STRING]

(* classify found the owner, and the grants of the object and its schemas   *)
(* were read.                                                               *)
SecurableRead(o) == /\ o.owner # "unknown" /\ o.grants # Fail
                    /\ \A k \in DOMAIN o.schemas : o.schemas[k].grants # Fail

(* What could not be read has left an issue (see NothingHidden of Reader).  *)
IsInventory(w) ==
    /\ \A g \in Securables : w[g] \in Seq(SecurableInfo)
    /\ \A g \in Identified : w[g] \in Seq(IdentifiedInfo)
    /\ w.secret_scopes \in Seq(SecretScopeInfo)
    /\ w.service_principals \in Seq(ServicePrincipalInfo)
    /\ w.issues \in Nat
    /\ w.issues = 0 =>
         /\ \A g \in Securables : \A i \in DOMAIN w[g] : SecurableRead(w[g][i])
         /\ \A i \in DOMAIN w.secret_scopes : w.secret_scopes[i].acls # Fail

ASSUME InventoriesAssumption == \A w \in Inventories : IsInventory(w)

VARIABLES
    inv,     \* the inventory
    stage,   \* stage[s]: how many methods of the builder have returned
    at,      \* at[s]: how many objects the next one has begun, and how many
             \* schemas of the last of them are done
    ex,      \* ex[s]: the export under construction
    report   \* report[s]: the report, or NoReport

vars == <<inv, stage, at, ex, report>>

EmptyExport == [rows |-> {}, imports |-> <<>>, excluded |-> {}, issues |-> 0]

NoReport == [status |-> "none", counts |-> <<>>, imports |-> 0, excluded |-> {}]

(* The module that holds the objects of a table, and their resource type.   *)
Module == [catalogs |-> "catalog", storage_credentials |-> "storage_credential",
           external_locations |-> "external_location", cluster_policies |-> "cluster_policy",
           instance_pools |-> "instance_pool", warehouses |-> "warehouse",
           secret_scopes |-> "secret_scope", service_principals |-> "service_principal",
           schemas |-> "schema", workspace_bindings |-> "workspace_binding"]

Resource == [catalogs |-> "databricks_catalog",
             storage_credentials |-> "databricks_storage_credential",
             external_locations |-> "databricks_external_location",
             cluster_policies |-> "databricks_cluster_policy",
             instance_pools |-> "databricks_instance_pool",
             warehouses |-> "databricks_sql_endpoint",
             secret_scopes |-> "databricks_secret_scope",
             service_principals |-> "databricks_service_principal",
             schemas |-> "databricks_schema",
             workspace_bindings |-> "databricks_workspace_binding"]

-----------------------------------------------------------------------------
Row(table, part, key, item) == [table |-> table, part |-> part, key |-> key, item |-> item]

Address(module, key, resource, index) ==
    [module |-> module, key |-> key, resource |-> resource, index |-> index]

(* An export and what is added to it.                                       *)
Add(e, f) == [rows     |-> e.rows \cup f.rows,
              imports  |-> e.imports \o f.imports,
              excluded |-> e.excluded \cup f.excluded,
              issues   |-> e.issues + f.issues]

Entries(rows, imports) == [EmptyExport EXCEPT !.rows = rows, !.imports = imports]

Issue == [EmptyExport EXCEPT !.issues = 1]

(* An object gets its entry and the import block of its resource.           *)
AddObject(table, key) ==
    Entries({Row(table, "settings", key, Blank)},
            <<Address(Module[table], key, Resource[table], Blank)>>)

(* Mutant of AddAccess: an import block for grants that do not exist.       *)
AddAccessAlways(table, key, grants) ==
    IF grants = Fail THEN EmptyExport
    ELSE Entries({Row(table, "access", key, p) : p \in grants \cup {Blank}},
                 <<Address(Module[table], key, "databricks_grants", "0")>>)

(* toAccess drops the grants without a principal.  Grants that were read    *)
(* get their entry even when there are none; only then no import block.     *)
AddAccess(table, key, grants) ==
    IF grants = Fail THEN EmptyExport
    ELSE Entries({Row(table, "access", key, p) : p \in grants \cup {Blank}},
                 IF grants \ {Blank} = {} THEN <<>>
                 ELSE <<Address(Module[table], key, "databricks_grants", "0")>>)

BindingKey(id, table, o) == id \o "|" \o Module[table] \o "|" \o o.name

AddBindings(table, o) ==
    LET key(i) == BindingKey(o.bindings[i], table, o)
    IN  Entries({Row("workspace_bindings", "settings", key(i), Blank) : i \in DOMAIN o.bindings},
                [i \in DOMAIN o.bindings |->
                    Address("workspace_binding", key(i), Resource.workspace_bindings, Blank)])

FullName(o, schema) == o.name \o "." \o schema.name

(* A schema without a name is skipped with an issue.                        *)
SchemaPart(o, schema) ==
    IF schema.name = Blank THEN Issue
    ELSE Add(AddObject("schemas", FullName(o, schema)),
             AddAccess("schemas", FullName(o, schema), schema.grants))

-----------------------------------------------------------------------------
(* Mutant of InScope: what every workspace sees belongs to every root.      *)
SharedEverywhere(s, o) == o.owner \in {s, "shared"}

InScope(s, o) == o.owner = s

Exclusion(table, o) ==
    [EmptyExport EXCEPT !.excluded = IF o.owner \in Scopes
                                       THEN {<<Module[table], o.name, o.owner>>} ELSE {}]

SecurablePart(s, table, o) ==
    IF ~InScope(s, o) THEN Exclusion(table, o)
    ELSE Add(Add(AddObject(table, o.name), AddBindings(table, o)),
             AddAccess(table, o.name, o.grants))

(* Mutant of IdentifiedPart: the object without an id disappears.           *)
IdentifiedQuietly(table, o) ==
    IF o.name = Blank \/ o.id = Blank \/ ~o.valid THEN EmptyExport
    ELSE AddObject(table, o.name)

(* Mutant of IdentifiedPart: the name is not checked.                       *)
IdentifiedBlank(table, o) ==
    IF o.id = Blank \/ ~o.valid THEN Issue ELSE AddObject(table, o.name)

(* Policies, pools and warehouses; permissions get an import when there are *)
(* any.                                                                     *)
IdentifiedPart(table, o) ==
    IF o.name = Blank \/ o.id = Blank \/ ~o.valid THEN Issue
    ELSE Add(AddObject(table, o.name),
             Entries({Row(table, "permissions", o.name, p) : p \in o.permissions},
                     IF o.permissions = {} THEN <<>>
                     ELSE <<Address(Module[table], o.name, "databricks_permissions", "0")>>))

(* An ACL without a principal is skipped with an issue; two of one          *)
(* principal are one entry of the map, from which the imports are made.     *)
SecretScopePart(o) ==
    LET acls       == IF o.acls = Fail THEN <<>> ELSE o.acls
        principals == SetToSeq(ToSet(acls) \ {Blank})
        acl(p)     == Address("secret_scope", o.name, "databricks_secret_acl", p)
        rows       == {Row("secret_scopes", "acls", o.name, p) : p \in ToSet(acls) \ {Blank}}
        added      == Entries(rows, [i \in DOMAIN principals |-> acl(principals[i])])
    IN  Add(AddObject("secret_scopes", o.name),
            [added EXCEPT !.issues = Cardinality({i \in DOMAIN acls : acls[i] = Blank})])

ServicePrincipalPart(o) ==
    IF o.name = Blank \/ o.id = Blank THEN Issue ELSE AddObject("service_principals", o.name)

-----------------------------------------------------------------------------
(* The reader has given service principals their keys.                      *)
Objects(g) == Keyed(g, inv[g])

Start == [object |-> 0, schema |-> 0]

Init ==
    /\ inv \in Inventories
    /\ stage = [s \in Scopes |-> 0]
    /\ at = [s \in Scopes |-> Start]
    /\ ex = [s \in Scopes |-> EmptyExport]
    /\ report = [s \in Scopes |-> NoReport]

(* Workspace objects are exported by the workspace scope only.              *)
Methods(s) == IF s = "workspace" THEN Len(ResourceNames) ELSE 3

Built(s) == stage[s] = Methods(s)

Group(s) == ResourceNames[stage[s] + 1]

(* The object begun last, when its schemas are still being added.           *)
InHand(s) == Objects(Group(s))[at[s].object]

AmongSchemas(s) ==
    /\ Group(s) = Catalogs /\ at[s].object > 0
    /\ InScope(s, InHand(s)) /\ at[s].schema < Len(InHand(s).schemas)

Upcoming(s) == Objects(Group(s))[at[s].object + 1]

(* The loop of a method takes its next object.                              *)
AddNext(s, groups, added) ==
    /\ ~Built(s) /\ Group(s) \in groups
    /\ ~AmongSchemas(s)
    /\ at[s].object < Len(Objects(Group(s)))
    /\ ex' = [ex EXCEPT ![s] = Add(@, added)]
    /\ at' = [at EXCEPT ![s] = [object |-> @.object + 1, schema |-> 0]]
    /\ UNCHANGED <<inv, stage, report>>

BuildSecurables(s) == AddNext(s, Securables, SecurablePart(s, Group(s), Upcoming(s)))

BuildIdentified(s) == AddNext(s, Identified, IdentifiedPart(Group(s), Upcoming(s)))

BuildSecretScopes(s) == AddNext(s, {"secret_scopes"}, SecretScopePart(Upcoming(s)))

BuildServicePrincipals(s) ==
    AddNext(s, {"service_principals"}, ServicePrincipalPart(Upcoming(s)))

BuildSchemas(s) ==
    /\ ~Built(s) /\ AmongSchemas(s)
    /\ ex' = [ex EXCEPT ![s] =
                 Add(@, SchemaPart(InHand(s), InHand(s).schemas[at[s].schema + 1]))]
    /\ at' = [at EXCEPT ![s].schema = @ + 1]
    /\ UNCHANGED <<inv, stage, report>>

NextMethod(s) ==
    /\ ~Built(s)
    /\ ~AmongSchemas(s)
    /\ at[s].object = Len(Objects(Group(s)))
    /\ stage' = [stage EXCEPT ![s] = @ + 1]
    /\ at' = [at EXCEPT ![s] = Start]
    /\ UNCHANGED <<inv, ex, report>>

CountedTables == DOMAIN Module

(* Mutant of NewReport: the status is that of the read.                     *)
ReportOfRead(s) ==
    /\ Built(s) /\ report[s] = NoReport
    /\ report' = [report EXCEPT ![s] = [NoReport EXCEPT
         !.status = IF inv.issues > 0 THEN "partial" ELSE "complete"]]
    /\ UNCHANGED <<inv, stage, at, ex>>

NewReport(s) ==
    /\ Built(s) /\ report[s] = NoReport
    /\ report' = [report EXCEPT ![s] =
         [status   |-> IF inv.issues + ex[s].issues > 0 THEN "partial" ELSE "complete",
          counts   |-> [t \in CountedTables |->
                          Cardinality({r \in ex[s].rows : r.table = t /\ r.part = "settings"})],
          imports  |-> Len(ex[s].imports),
          excluded |-> ex[s].excluded]]
    /\ UNCHANGED <<inv, stage, at, ex>>

Finished == (\A s \in Scopes : report[s] # NoReport) /\ UNCHANGED vars

Next == \/ \E s \in Scopes : \/ BuildSecurables(s) \/ BuildSchemas(s) \/ BuildIdentified(s)
                             \/ BuildSecretScopes(s) \/ BuildServicePrincipals(s)
                             \/ NextMethod(s) \/ NewReport(s)
        \/ Finished

Spec == Init /\ [][Next]_vars

-----------------------------------------------------------------------------
Parts == {"settings", "access", "permissions", "acls"}

TypeOK ==
    /\ inv \in Inventories
    /\ stage \in [Scopes -> 0..Len(ResourceNames)]
    /\ at \in [Scopes -> [object : Nat, schema : Nat]]
    /\ \A s \in Scopes :
         /\ \A r \in ex[s].rows : /\ r.table \in DOMAIN Module /\ r.part \in Parts
                                   /\ r.table \in Tables => r.key # Blank
         /\ \A i \in DOMAIN ex[s].imports :
              ex[s].imports[i].module \in {Module[t] : t \in DOMAIN Module}
         /\ ex[s].issues \in Nat
         /\ report[s].status \in {"none", "complete", "partial"}

(* The addresses Terraform needs an import block for.                       *)
Expected(rows) ==
    {Address(Module[r.table], r.key, Resource[r.table], Blank) :
            r \in {x \in rows : x.part = "settings"}}
    \cup {Address(Module[r.table], r.key, "databricks_grants", "0") :
            r \in {x \in rows : x.part = "access" /\ x.item # Blank}}
    \cup {Address(Module[r.table], r.key, "databricks_permissions", "0") :
            r \in {x \in rows : x.part = "permissions"}}
    \cup {Address(Module[r.table], r.key, "databricks_secret_acl", r.item) :
            r \in {x \in rows : x.part = "acls"}}

(* build.go: "Imports are derived from the same selection, so the two never *)
(* disagree."  After every pass of the builder's loops the import blocks    *)
(* are exactly those of the objects in the variables, each of them once.    *)
ImportsMatchVariables ==
    \A s \in Scopes : /\ ToSet(ex[s].imports) = Expected(ex[s].rows)
                      /\ IsInjective(ex[s].imports)

Exported(s, g, name) == Row(g, "settings", name, Blank) \in ex[s].rows

Done == \A s \in Scopes : report[s] # NoReport

(* The two roots divide the metastore's objects: each one whose owner is    *)
(* known is exported by one root, and the report of the other names it and  *)
(* says where it went; one of unknown owner is in neither root.             *)
ScopesPartition ==
    Done => \A g \in Securables : \A i \in DOMAIN inv[g] : LET o == inv[g][i] IN
              \A s \in Scopes :
                  /\ Exported(s, g, o.name) <=> o.owner = s
                  /\ <<Module[g], o.name, o.owner>> \in report[s].excluded
                       <=> o.owner \in Scopes \ {s}

(* The grants of an object were read and are in the variables (but for      *)
(* grants without a principal, which toAccess drops without an issue).      *)
HasAccess(s, table, key, grants) ==
    /\ grants # Fail
    /\ \A p \in (grants \ {Blank}) : Row(table, "access", key, p) \in ex[s].rows

WholeSecurable(s, g, o) ==
    /\ Exported(s, g, o.name) /\ HasAccess(s, g, o.name, o.grants)
    /\ \A k \in DOMAIN o.bindings :
         Exported(s, "workspace_bindings", BindingKey(o.bindings[k], g, o))
    /\ g = Catalogs => \A k \in DOMAIN o.schemas :
         /\ Exported(s, "schemas", FullName(o, o.schemas[k]))
         /\ HasAccess(s, "schemas", FullName(o, o.schemas[k]), o.schemas[k].grants)

(* A report that says "complete" stands for every object of the inventory.  *)
(* In either scope a catalog, credential or location is in the variables    *)
(* with its grants, bindings and schemas when the scope owns it, and named  *)
(* as excluded when it does not; the workspace scope has every other        *)
(* object, with its permissions or ACLs.                                    *)
CompleteMeansWhole ==
    /\ \A s \in Scopes : report[s].status = "complete" =>
         \A g \in Securables : \A i \in DOMAIN inv[g] : LET o == inv[g][i] IN
           IF o.owner = s THEN WholeSecurable(s, g, o)
           ELSE <<Module[g], o.name, o.owner>> \in report[s].excluded
    /\ report["workspace"].status = "complete" =>
         /\ \A g \in Tables \ Securables :
              \A i \in DOMAIN Objects(g) : Exported("workspace", g, Objects(g)[i].name)
         /\ \A g \in Identified : \A i \in DOMAIN inv[g] : LET o == inv[g][i] IN
              \A p \in o.permissions : Row(g, "permissions", o.name, p) \in ex["workspace"].rows
         /\ \A i \in DOMAIN inv.secret_scopes : LET o == inv.secret_scopes[i] IN
              /\ o.acls # Fail
              /\ \A p \in ToSet(o.acls) :
                   Row("secret_scopes", "acls", o.name, p) \in ex["workspace"].rows

(* What tells the keys of an inventory apart.  Names are unique in a        *)
(* metastore or workspace; of the keys of service principals see Key.       *)
NamesDiffer(w, groups) ==
    \A g \in groups : LET objs == Keyed(g, w[g]) IN
      \A i, j \in DOMAIN objs : objs[i].name = objs[j].name => i = j \/ objs[i].name = Blank

(* Names of catalogs and schemas have no ".".                               *)
SchemasDiffer(w) ==
    \A i, j \in DOMAIN w.catalogs :
      \A k \in DOMAIN w.catalogs[i].schemas, l \in DOMAIN w.catalogs[j].schemas :
        LET a == w.catalogs[i].schemas[k]
            b == w.catalogs[j].schemas[l]
        IN  FullName(w.catalogs[i], a) = FullName(w.catalogs[j], b) =>
              (i = j /\ k = l) \/ a.name = Blank \/ b.name = Blank

(* Ids of workspaces and the kinds of objects have no "|", and no object is *)
(* bound to a workspace twice.                                              *)
BindingsDiffer(w) ==
    \A g, h \in Securables : \A i \in DOMAIN w[g], j \in DOMAIN w[h] :
      \A k \in DOMAIN w[g][i].bindings, l \in DOMAIN w[h][j].bindings :
        BindingKey(w[g][i].bindings[k], g, w[g][i]) = BindingKey(w[h][j].bindings[l], h, w[h][j])
          => g = h /\ i = j /\ k = l

KeysDiffer(w) == NamesDiffer(w, Tables) /\ SchemasDiffer(w) /\ BindingsDiffer(w)
=============================================================================
