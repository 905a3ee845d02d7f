--------------------------------- MODULE Root ---------------------------------
(***************************************************************************)
(* From an export to the files of a Terraform root: the options of the     *)
(* command are checked, the versions of the modules resolved when they are *)
(* to be the latest, and the variables, import blocks and modules rendered *)
(* in one of two layouts: through the workspace module, or with one module *)
(* per kind of resource.  Build makes the exports of both scopes; one of   *)
(* them is rendered, as one run of the command does.                       *)
(*                                                                         *)
(* A file stands for what Terraform reads from it: "terraform.tfvars" maps *)
(* variables to values, "imports.tf" has the root module and the groups of *)
(* import blocks, "main.tf" maps module labels to their blocks,            *)
(* "variables.tf" is the set of declared variables.                        *)
(***************************************************************************)
EXTENDS Build

CONSTANTS
    Releases,   \* the releases of a module, by version: core (the numbers
                \* as one), stable, and text, the place of the whole version
    Registries  \* what the Registry answers: versions per module, or Fail

VARIABLES
    phase,
    options,    \* of the command, as prepare leaves them
    registry,   \* the answers of the Registry
    versions,   \* moduleVersions
    files

rootVars == <<phase, options, registry, versions, files>>

WorkspaceModule == "workspace"

Flags == [layout : {"workspace", "resources"}, scaffold : BOOLEAN,
          rootModule : {"workspace", "live", Blank}, source : {WorkspaceModule, "../local"},
          version : {"1.0.1", "latest", "~> 1.0"}]

NoOptions == [scope |-> Blank, layout |-> Blank, scaffold |-> FALSE, rootModule |-> Blank,
              source |-> Blank, version |-> Blank]

RootInit ==
    /\ Init
    /\ phase = "building"
    /\ options = NoOptions
    /\ registry = <<>>
    /\ versions = <<>>
    /\ files = <<>>

-----------------------------------------------------------------------------
(* The combinations that prepare accepts; a flag that differs from its      *)
(* default has been changed.                                                *)
PrepareLayout(f) ==
    /\ f.version = "latest" =>
         f.scaffold /\ (f.layout = "workspace" => f.source = WorkspaceModule)
    /\ f.layout = "resources" =>
         f.source = WorkspaceModule /\ f.rootModule \in {"workspace", Blank} /\ f.version # "~> 1.0"

ValidateRoot(f) == f.scaffold /\ f.layout = "workspace" => f.rootModule # Blank

Prepare(s) ==
    /\ phase = "building" /\ \A t \in Scopes : report[t] # NoReport
    /\ phase' = "prepared"
    /\ \E f \in {x \in Flags : PrepareLayout(x) /\ ValidateRoot(x)} :
         options' = [NoOptions EXCEPT
             !.scope = s, !.layout = f.layout, !.scaffold = f.scaffold, !.source = f.source,
             !.version = f.version,
             !.rootModule = IF f.layout = "resources" THEN Blank ELSE f.rootModule]
    /\ UNCHANGED <<registry, versions, files, vars>>

-----------------------------------------------------------------------------
Entry(rows, table, part, key) ==
    {r \in rows : r.table = table /\ r.part = part /\ r.key = key}

Held(rows, table, part, key) == {r.item : r \in Entry(rows, table, part, key)} \ {Blank}

Named(rows, table) == {r.key : r \in {x \in rows : x.table = table /\ x.part = "settings"}}

Table(module) == CHOOSE t \in DOMAIN Module : Module[t] = module

(* Mutant of resourceValues: the access of the catalog of the same name.    *)
resourceValuesMixed(rows, t, key) ==
    [a \in {"grants"} |->
        Held(rows, IF t = "storage_credentials" THEN "catalogs" ELSE t, "access", key)]

(* The inputs of one object that hold more than settings of its own: grants *)
(* are always there, also when unread or none, ACLs only when there are any.*)
resourceValues(rows, t, key) ==
    LET acls == Held(rows, t, "acls", key)
        attributes == CASE t \in Securables \cup {"schemas"} -> {"grants"}
                        [] t \in Identified -> {"permissions"}
                        [] t = "secret_scopes" /\ acls # {} -> {"acls"}
                        [] OTHER -> {}
        part(a) == IF a = "grants" THEN "access" ELSE a
    IN  [a \in attributes |-> Held(rows, t, part(a), key)]

(* Only modules that have objects.                                          *)
ResourceModules(rows) ==
    [m \in {Module[t] : t \in {x \in DOMAIN Module : Named(rows, x) # {}}} |->
        [key \in Named(rows, Table(m)) |-> resourceValues(rows, Table(m), key)]]

RegistryName(module) == IF module = "warehouse" THEN "sql-warehouse" ELSE module

RegistryModules == {WorkspaceModule} \cup {RegistryName(Module[t]) : t \in DOMAIN Module}

(* Different versions are different texts; a stable one has three numbers.  *)
ASSUME ReleasesAssumption ==
    /\ \A v \in DOMAIN Releases : Releases[v] \in [core : Nat, stable : BOOLEAN, text : Nat]
    /\ \A v, w \in DOMAIN Releases : Releases[v].text = Releases[w].text => v = w
    /\ \A v \in DOMAIN Releases : Releases[v].stable => v \notin {Blank, "latest"}

ASSUME RegistriesAssumption ==
    \A r \in Registries : /\ RegistryModules \subseteq DOMAIN r
                           /\ \A m \in DOMAIN r : r[m] \in {Fail} \cup Seq(DOMAIN Releases)

-----------------------------------------------------------------------------
(* Mutant of Newer: of equal precedence, the one listed last.               *)
NewerInOrder(v, latest) == Releases[v].core >= Releases[latest].core

(* By precedence, then as text.                                             *)
Newer(v, latest) ==
    \/ Releases[v].core > Releases[latest].core
    \/ Releases[v].core = Releases[latest].core /\ Releases[v].text > Releases[latest].text

Choose(latest, v) ==
    IF Releases[v].stable /\ (latest = Blank \/ Newer(v, latest)) THEN v ELSE latest

(* latest[i]: the choice among the first i releases.                        *)
LatestVersion(listing) ==
    LET latest[i \in 0..Len(listing)] ==
          IF i = 0 THEN Blank ELSE Choose(latest[i - 1], listing[i])
    IN  latest[Len(listing)]

Resolved(listing) == listing # Fail /\ LatestVersion(listing) # Blank

Rows == ex[options.scope].rows

Sources ==
    IF options.layout = "resources"
    THEN {RegistryName(m) : m \in DOMAIN ResourceModules(Rows)}
    ELSE {options.source}

(* No version is looked up unless asked for; one failing lookup ends the    *)
(* run before any file is written.                                          *)
ResolveVersions ==
    /\ phase = "prepared"
    /\ \/ /\ options.version # "latest"
          /\ phase' = "resolved"
          /\ UNCHANGED <<options, registry, versions>>
       \/ /\ options.version = "latest"
          /\ registry' \in Registries
          /\ \/ /\ \E x \in Sources : ~Resolved(registry'[x])
                /\ phase' = "failed"
                /\ UNCHANGED <<options, versions>>
             \/ /\ \A x \in Sources : Resolved(registry'[x])
                /\ phase' = "resolved"
                /\ IF options.layout = "resources"
                     THEN /\ versions' = [x \in Sources |-> LatestVersion(registry'[x])]
                          /\ UNCHANGED options
                     ELSE /\ options' = [options EXCEPT
                                 !.version = LatestVersion(registry'[options.source])]
                          /\ UNCHANGED versions
    /\ UNCHANGED <<files, vars>>

-----------------------------------------------------------------------------
(* The blocks of the variables, and the tables and parts that each holds.   *)
VariableTables ==
    [catalogs |-> {<<"catalogs", "settings">>}, catalog_access |-> {<<"catalogs", "access">>},
     schemas |-> {<<"schemas", "settings">>}, schema_access |-> {<<"schemas", "access">>},
     schema_storage_roots |-> {}, schema_comments |-> {},
     storage_credentials |-> {<<"storage_credentials", "settings">>},
     storage_credential_access |-> {<<"storage_credentials", "access">>},
     external_locations |-> {<<"external_locations", "settings">>},
     external_location_access |-> {<<"external_locations", "access">>},
     workspace_bindings |-> {<<"workspace_bindings", "settings">>},
     cluster_policies |->
         {<<"cluster_policies", "settings">>, <<"cluster_policies", "permissions">>},
     instance_pools |-> {<<"instance_pools", "settings">>, <<"instance_pools", "permissions">>},
     warehouses |-> {<<"warehouses", "settings">>, <<"warehouses", "permissions">>},
     secret_scopes |-> {<<"secret_scopes", "settings">>, <<"secret_scopes", "acls">>},
     service_principals |-> {<<"service_principals", "settings">>}]

(* The maps that newTfvars leaves nil.                                      *)
Nil(s) == IF s = "workspace" THEN {}
          ELSE {"cluster_policies", "instance_pools", "warehouses", "secret_scopes",
                "service_principals"}

Variables(s, rows) ==
    [v \in DOMAIN VariableTables \ Nil(s) |->
        {r \in rows : <<r.table, r.part>> \in VariableTables[v]}]

(* What scaffold declares for them.                                         *)
workspaceOnly == {"cluster_policies", "instance_pools", "warehouses", "secret_scopes",
                  "service_principals"}

variableNames(s) ==
    {"catalogs", "catalog_access", "schemas", "schema_access", "schema_storage_roots",
     "schema_comments", "storage_credentials", "storage_credential_access", "external_locations",
     "external_location_access", "workspace_bindings", "cluster_policies", "instance_pools",
     "warehouses", "secret_scopes", "service_principals"}
    \ (IF s = "shared" THEN workspaceOnly ELSE {})

(* One import block per module, resource and kind of index: none, a number  *)
(* or the text that tells the ACLs of a scope apart.                        *)
importKey(i) ==
    LET kind == IF i.resource = "databricks_secret_acl" THEN "string"
                ELSE IF i.index = Blank THEN "none" ELSE "number"
    IN  [module |-> i.module, resource |-> i.resource, kind |-> kind,
         index |-> IF kind = "number" THEN i.index ELSE Blank]

(* Mutant of importValues: by key in every group.                           *)
importValuesByKey(group, imports) ==
    [key \in {i.key : i \in imports} |-> CHOOSE i \in imports : i.key = key]

(* The for_each of a block: by key, or when ACLs share one by import ID, of  *)
(* scope and principal.                                                     *)
importValues(group, imports) ==
    LET id(i) == IF group.kind = "string" THEN <<i.key, i.index>> ELSE i.key
    IN  [k \in {id(i) : i \in imports} |-> CHOOSE i \in imports : id(i) = k]

(* The addresses that a block imports to.                                   *)
importTargets(group, values) ==
    {Address(group.module, IF group.kind = "string" THEN values[k].key ELSE k, group.resource,
             IF group.kind = "string" THEN values[k].index ELSE group.index) : k \in DOMAIN values}

RenderImports(imports, rootModule) ==
    LET groups == {importKey(i) : i \in ToSet(imports)}
        in(g) == {i \in ToSet(imports) : importKey(i) = g}
    IN  [rootModule |-> rootModule,
         targets |-> [g \in groups |-> importTargets(g, importValues(g, in(g)))]]

(* A file, and files of which the first take precedence: the operators :>   *)
(* and @@ of TLC's module have no definition that proofs can use.           *)
File(name, content) == [n \in {name} |-> content]

Over(f, g) == [n \in DOMAIN f \cup DOMAIN g |-> IF n \in DOMAIN f THEN f[n] ELSE g[n]]

ExportFiles ==
    Over(File("terraform.tfvars", Variables(options.scope, Rows)),
         File("imports.tf", RenderImports(ex[options.scope].imports, options.rootModule)))

-----------------------------------------------------------------------------
Block(source, version, inputs, dependencies) ==
    [source |-> source, version |-> version, inputs |-> inputs, dependencies |-> dependencies]

(* scaffold.Render: a version only for a source from a Registry.            *)
Render ==
    LET version == IF options.source = WorkspaceModule THEN options.version ELSE Blank
        block   == Block(options.source, version, variableNames(options.scope), {})
    IN  Over(File("main.tf", [m \in {options.rootModule} |-> block]),
             File("variables.tf", variableNames(options.scope)))

(* Only on modules of the root.                                             *)
resourceDependencies(m, modules) ==
    modules \cap CASE m = "schema" -> {"catalog"}
                   [] m = "external_location" -> {"storage_credential"}
                   [] m = "workspace_binding" ->
                        {"catalog", "storage_credential", "external_location"}
                   [] OTHER -> {}

(* The names that any of the objects has.                                   *)
resourceInputNames(values) == UNION {DOMAIN values[key] : key \in DOMAIN values}

resourceRoot(modules) ==
    LET version(m) == IF RegistryName(m) \in DOMAIN versions THEN versions[RegistryName(m)]
                      ELSE options.version
    IN  Over(File("main.tf", [m \in DOMAIN modules |->
                     Block(RegistryName(m), version(m), resourceInputNames(modules[m]),
                           resourceDependencies(m, DOMAIN modules))]),
             File("variables.tf", DOMAIN modules))

(* The inputs of the resource modules take the place of the variables.      *)
RenderResources ==
    LET modules == ResourceModules(Rows)
        inputs  == File("terraform.tfvars", modules)
    IN  IF options.scaffold THEN Over(resourceRoot(modules), inputs) ELSE inputs

scaffoldFiles ==
    IF options.layout = "resources" THEN RenderResources
    ELSE IF options.scaffold THEN Render ELSE <<>>

RenderFiles ==
    /\ phase = "resolved"
    /\ phase' = "rendered"
    /\ files' = Over(scaffoldFiles, ExportFiles)
    /\ UNCHANGED <<options, registry, versions, vars>>

RootNext ==
    \/ Next /\ UNCHANGED rootVars
    \/ \E s \in Scopes : Prepare(s)
    \/ ResolveVersions
    \/ RenderFiles

RootSpec == RootInit /\ [][RootNext]_<<vars, rootVars>>

-----------------------------------------------------------------------------
RootTypeOK ==
    /\ TypeOK
    /\ phase \in {"building", "prepared", "resolved", "rendered", "failed"}
    /\ phase # "building" => options.scope \in Scopes
    /\ options.layout \in {Blank, "workspace", "resources"}
    /\ options.scaffold \in BOOLEAN
    /\ registry = <<>> \/ registry \in Registries
    /\ DOMAIN files \subseteq {"terraform.tfvars", "imports.tf", "main.tf", "variables.tf"}

Rendered == phase = "rendered"

Scaffolded == "main.tf" \in DOMAIN files

Inputs == files["terraform.tfvars"]

Through(layout) == Rendered /\ options.layout = layout

(* The input of a resource module that reaches it: without main.tf the user *)
(* writes the block.                                                        *)
Passed(m, key, attribute) ==
    IF attribute \in DOMAIN Inputs[m][key]
         /\ (Scaffolded => attribute \in files["main.tf"][m].inputs)
    THEN Inputs[m][key][attribute] ELSE {}

AccessResource == [grants |-> "databricks_grants", permissions |-> "databricks_permissions"]

(* What Terraform manages: the modules, external to DataTF, have a resource *)
(* for an object, one for its grants or permissions when there are any, and *)
(* one for each ACL.                                                        *)
Managed ==
    IF options.layout = "workspace" THEN Expected(UNION {Inputs[v] : v \in DOMAIN Inputs})
    ELSE UNION {UNION {
           {Address(m, key, Resource[Table(m)], Blank)}
           \cup {Address(m, key, AccessResource[a], "0") :
                   a \in {x \in DOMAIN AccessResource : Passed(m, key, x) # {}}}
           \cup {Address(m, key, "databricks_secret_acl", p) : p \in Passed(m, key, "acls")} :
         key \in DOMAIN Inputs[m]} : m \in DOMAIN Inputs}

Imported == UNION {files["imports.tf"].targets[g] : g \in DOMAIN files["imports.tf"].targets}

(* The modules that the addresses start with.                               *)
Called ==
    IF ~Scaffolded THEN {options.rootModule}
    ELSE IF options.layout = "workspace" THEN DOMAIN files["main.tf"] ELSE {Blank}

(* README of the root: "Confirm that the plan contains imports and no       *)
(* creates".  In both layouts what the root manages and what its import     *)
(* blocks address is the same, under the module that main.tf calls: nothing *)
(* would be created a second time, and no import block lacks its resource.  *)
ImportsOnly ==
    Rendered => /\ Imported = Managed
                /\ Called = {files["imports.tf"].rootModule}

(* terraform init and validate find everything the root refers to: every    *)
(* value belongs to a declared variable, modules pass on declared variables *)
(* and depend on modules of the root only, and each Registry module has a   *)
(* version: with "latest", the newest stable one of the listing, in         *)
(* whatever order the Registry lists them.                                  *)
RootIsRunnable ==
    Rendered /\ Scaffolded =>
      LET main == files["main.tf"] IN
        /\ DOMAIN Inputs \subseteq files["variables.tf"]
        /\ \A m \in DOMAIN main :
             /\ IF options.layout = "resources" THEN m \in files["variables.tf"]
                ELSE main[m].inputs \subseteq files["variables.tf"]
             /\ main[m].dependencies \subseteq DOMAIN main
             /\ main[m].version # "latest"
             /\ main[m].version = Blank => main[m].source = "../local"
             /\ registry # <<>> =>
                  LET stable == {v \in ToSet(registry[main[m].source]) : Releases[v].stable}
                      pinned == main[m].version
                  IN  /\ pinned \in stable
                      /\ \A v \in stable \ {pinned} :
                           \/ Releases[v].core < Releases[pinned].core
                           \/ /\ Releases[v].core = Releases[pinned].core
                              /\ Releases[v].text < Releases[pinned].text

(* The principals that Terraform would keep on an object, in either layout. *)
Kept(t, key, attribute) ==
    IF Through("workspace")
    THEN Held(UNION {Inputs[v] : v \in DOMAIN Inputs},
              t, IF attribute = "grants" THEN "access" ELSE "permissions", key)
    ELSE IF Module[t] \in DOMAIN Inputs /\ key \in DOMAIN Inputs[Module[t]]
         THEN Passed(Module[t], key, attribute) ELSE {}

Read(grants) == IF grants = Fail THEN {} ELSE grants \ {Blank}

(* databricks_grants and databricks_permissions are authoritative: whoever  *)
(* is missing in the root loses access.  An object keeps exactly those that *)
(* were read, and has no such resource when they were not.                  *)
AccessIsWhole ==
    Rendered =>
      /\ \A t \in Securables : \A i \in DOMAIN inv[t] : LET o == inv[t][i] IN
             o.owner = options.scope =>
               /\ Kept(t, o.name, "grants") = Read(o.grants)
               /\ t = "catalogs" =>
                    \A k \in DOMAIN o.schemas : o.schemas[k].name # Blank =>
                      Kept("schemas", FullName(o, o.schemas[k]), "grants")
                        = Read(o.schemas[k].grants)
      /\ options.scope = "workspace" =>
           \A t \in Identified : \A i \in DOMAIN inv[t] : LET o == inv[t][i] IN
             o.name # Blank /\ o.id # Blank /\ o.valid =>
               Kept(t, o.name, "permissions") = o.permissions
=============================================================================
