------------------------------ MODULE Workspace ------------------------------
(***************************************************************************)
(* What one Databricks workspace answers to one read, and the selection    *)
(* rules of internal/inventory that are applied to it.                     *)
(*                                                                         *)
(* A world is a record:                                                    *)
(*   name      the --name selector, or AnyName when there is none          *)
(*   me        whether CurrentUser.Me succeeds                             *)
(*   current   Metastores.Current: a workspace id, 0 for none, or Fail     *)
(*   header    CurrentWorkspaceID: a workspace id or Fail                  *)
(*   list      for each selected group, the listed objects in the order    *)
(*             of the list call, or Fail                                   *)
(* An object is a record of its name and of what the calls about it        *)
(* answer: type (of a catalog), system (one of the isSystem* rules or      *)
(* isDefaultFamilyPolicy holds), get (Get succeeds), mode (isolation       *)
(* mode), bindings (the workspace ids bound, or Fail), access (its grants, *)
(* permissions or ACLs can be read), schemas (a sequence of schemas, or    *)
(* Fail) and suffix (application id, or id, of a service principal).       *)
(***************************************************************************)
EXTENDS Naturals, Sequences, FiniteSets

CONSTANTS
    AnyName,  \* no --name
    Fail,     \* the answer of a call that fails
    Rank      \* cmp.Compare on strings: the rank of each text compared

ResourceNames == <<"catalogs", "storage_credentials", "external_locations",
                   "cluster_policies", "instance_pools", "warehouses",
                   "secret_scopes", "service_principals">>

Catalogs == "catalogs"

Area(g) == CASE g \in {"catalogs", "storage_credentials", "external_locations"} -> "unity_catalog"
             [] g = "warehouses" -> "workloads"
             [] g = "service_principals" -> "identity"
             [] OTHER -> "workspace"

(* Display names are not unique: a repeated one gets its suffix.           *)
Key(sps, i) ==
    LET same == {j \in DOMAIN sps : sps[j].name = sps[i].name}
    IN  IF Cardinality(same) > 1
          THEN sps[i].name \o " (" \o sps[i].suffix \o ")"
          ELSE sps[i].name

(* What a group selects by: names, or the keys of service principals.       *)
Keyed(g, objs) ==
    IF g = "service_principals"
      THEN [i \in DOMAIN objs |-> [objs[i] EXCEPT !.name = Key(objs, i)]]
      ELSE objs

Matches(w, objs) == {i \in DOMAIN objs : w.name \in {AnyName, objs[i].name}}

(* --name must match exactly one visible object.                            *)
NameFound(w, objs) == w.name = AnyName \/ Cardinality(Matches(w, objs)) = 1

(* The objects a group goes on to read.                                     *)
Listed(w, g) ==
    IF w.list[g] = Fail THEN <<>>
    ELSE LET objs == Keyed(g, w.list[g])
         IN  CASE w.name = AnyName -> objs
               [] w.name # AnyName /\ NameFound(w, objs) ->
                    <<objs[CHOOSE i \in Matches(w, objs) : TRUE]>>
               [] OTHER -> <<>>

(* A securable is open when its isolation mode says so, or says nothing.    *)
OpenModes == {"", "OPEN"}

-----------------------------------------------------------------------------
(* The values a world is made of.                                           *)
Groups == {ResourceNames[i] : i \in DOMAIN ResourceNames}

SchemaInfo == [name : STRING, system : BOOLEAN, access : BOOLEAN]

ObjectInfo == [name : STRING, type : STRING, system : BOOLEAN, get : BOOLEAN, mode : STRING,
               bindings : {Fail} \cup SUBSET Nat, access : BOOLEAN,
               schemas : {Fail} \cup Seq(SchemaInfo), suffix : STRING]

IsWorld(w) ==
    /\ w.me \in BOOLEAN
    /\ w.current \in {Fail} \cup Nat
    /\ w.header \in {Fail} \cup Nat
    /\ DOMAIN w.list \subseteq Groups
    /\ \A g \in DOMAIN w.list : w.list[g] \in {Fail} \cup Seq(ObjectInfo)

(* The texts in an issue or a skip that are not of the workspace: areas,    *)
(* kinds of objects, operations and messages.                               *)
Words == Groups \cup {"unity_catalog", "workspace", "workloads", "identity", "selection",
                      "list", "select name", "schemas", "get", "scope", "bindings", "access",
                      "api_error", "canceled", "missing_type", "unknown_mode", "selection_failed"}

(* ... and those that are: what is selected, objects and schemas.           *)
NamesOf(o) ==
    {o.name} \cup {o.schemas[k].name : k \in IF o.schemas = Fail THEN {} ELSE DOMAIN o.schemas}

NamesIn(w) ==
    ({w.name} \ {AnyName}) \cup
    UNION {UNION {NamesOf(w.list[g][i]) : i \in DOMAIN w.list[g]} :
             g \in {h \in DOMAIN w.list : w.list[h] # Fail}}

-----------------------------------------------------------------------------
(* Issues and skips are compared field by field, each field by its Rank.    *)
(* The fields of an Issue after Message (Code, Hint, APICode, HTTPStatus)   *)
(* come from the same error as Message and are one with it here.            *)
Before(s, t) == \E i \in DOMAIN s : /\ Rank[s[i]] < Rank[t[i]]
                                    /\ \A j \in 1..(i - 1) : s[j] = t[j]

(* s with its elements in the order Less: each is preceded by those that    *)
(* are less, and by its equals from further left.                           *)
SortBy(s, Less(_, _)) ==
    LET first(i, j) == Less(s[i], s[j]) \/ (~Less(s[j], s[i]) /\ i < j)
    IN  [k \in DOMAIN s |->
           s[CHOOSE i \in DOMAIN s : Cardinality({j \in DOMAIN s : first(j, i)}) = k - 1]]
=============================================================================
