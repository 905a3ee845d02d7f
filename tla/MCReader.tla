------------------------------ MODULE MCReader ------------------------------
(***************************************************************************)
(* Workspaces for Reader, as small as the question allows.  Workspace 1 is *)
(* the one being read, 2 another one on the same metastore.                *)
(***************************************************************************)
EXTENDS Reader

(* The texts that are compared, in byte order.                             *)
Texts == <<"", "api_error", "access", "bindings", "canceled", "catalogs", "dup", "dup (x)",
           "dup (y)", "get", "identity", "list", "main", "missing_type", "sales",
           "sales.default", "sales.raw", "sales.web", "schemas", "scope", "select name",
           "selection", "selection_failed", "storage_credentials", "twin", "unity_catalog",
           "unknown_mode", "workloads", "workspace", "cluster_policies", "instance_pools",
           "warehouses", "secret_scopes", "service_principals", "external_locations">>

MCRank == [x \in {Texts[i] : i \in DOMAIN Texts} |-> CHOOSE i \in DOMAIN Texts : Texts[i] = x]

Plain(name) == [name |-> name, type |-> "MANAGED_CATALOG", system |-> FALSE, get |-> TRUE,
                mode |-> "OPEN", bindings |-> {}, access |-> TRUE, schemas |-> <<>>,
                suffix |-> "x"]

Isolated(o, ids) == [o EXCEPT !.mode = "ISOLATED", !.bindings = ids]

Schema(name) == [name |-> name, system |-> name = "sales.default", access |-> name # "sales.raw"]

World(list) == [name |-> AnyName, me |-> TRUE, current |-> 1, header |-> Fail, list |-> list]

(* Failures of every call about one catalog, next to a credential that is  *)
(* read at the same time.                                                  *)
Scopes(o) == {o, Isolated(o, {1}), Isolated(o, {1, 2}), Isolated(o, Fail),
              [o EXCEPT !.mode = "OTHER"], [o EXCEPT !.mode = ""]}

Sales == [Plain("sales") EXCEPT !.schemas = <<Schema("sales.raw"), Schema("sales.default")>>]

SalesCatalogs ==
    Scopes(Sales) \cup
    {[Isolated(Sales, {1}) EXCEPT !.get = FALSE, !.access = FALSE],
     [Isolated(Sales, Fail) EXCEPT !.access = FALSE, !.schemas = Fail]}

CatalogWorlds ==
    {World([catalogs |-> <<c>>,
            storage_credentials |-> <<[Plain("twin") EXCEPT !.access = FALSE]>>]) :
       c \in SalesCatalogs}

(* The other groups, two or three objects each, and the excluded ones.     *)
Twins == <<[Plain("twin") EXCEPT !.get = FALSE], [Plain("twin") EXCEPT !.get = FALSE],
           [Plain("dup") EXCEPT !.access = FALSE]>>

Platform == <<[Plain("main") EXCEPT !.system = TRUE], Plain("")>>

OtherCatalogs == <<[Plain("main") EXCEPT !.system = TRUE], [Plain("twin") EXCEPT !.type = ""],
                   [Plain("dup") EXCEPT !.type = "FOREIGN"]>>

Principals == <<Plain("dup"), [Plain("dup") EXCEPT !.suffix = "y"], Plain("sales")>>

Identities ==
    {[World([warehouses |-> <<>>]) EXCEPT !.me = m, !.current = c, !.header = h] :
       m \in BOOLEAN, c \in {Fail, 0, 1}, h \in {Fail, 0, 1}}

GroupWorlds ==
    {World([cluster_policies |-> Twins, secret_scopes |-> Platform]),
     World([instance_pools |-> Twins, warehouses |-> Fail]),
     World([warehouses |-> Twins, cluster_policies |-> Platform]),
     World([secret_scopes |-> Twins, service_principals |-> Principals]),
     World([external_locations |-> Twins \o Platform]),
     World([catalogs |-> OtherCatalogs, storage_credentials |-> Platform])}

(* Two catalogs at once, each with a pool of its own for its schema.       *)
TwoCatalogs ==
    {World([catalogs |-> <<[Plain("sales") EXCEPT !.schemas = <<Schema("sales.web")>>],
                           [Plain("twin") EXCEPT !.schemas = <<Schema("sales.raw")>>]>>])}

(* One catalog with more schemas than its pool has workers.                *)
ManySchemas ==
    {World([catalogs |-> <<[Plain("sales") EXCEPT !.schemas =
                              <<Schema("sales.raw"), Schema("sales.web"), Schema("main")>>]>>])}

(* --name: one match, none, two, and the key of a service principal.       *)
NamedWorlds ==
    {[World([instance_pools |-> Twins]) EXCEPT !.name = n] : n \in {"dup", "main", "twin"}} \cup
    {[World([service_principals |-> Principals]) EXCEPT !.name = n] : n \in {"dup", "dup (y)"}}

MCWorlds == CatalogWorlds \cup TwoCatalogs \cup ManySchemas \cup GroupWorlds \cup NamedWorlds \cup Identities
=============================================================================
