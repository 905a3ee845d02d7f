---------------------------- MODULE ReadContract -----------------------------
(***************************************************************************)
(* What Reader.Read promises its caller, without its concurrency: it       *)
(* returns an error, or an inventory that is a function of what the        *)
(* workspace answered.  An error is returned only when the caller could    *)
(* not be identified or the context was cancelled, and an inventory only   *)
(* when neither is the case.  Every other failure is one issue.            *)
(***************************************************************************)
EXTENDS Workspace

CONSTANT Worlds

VARIABLES world, cancelled, result

Pending == [status |-> "pending", inventory |-> <<>>, issues |-> <<>>, skipped |-> <<>>]
Error   == [Pending EXCEPT !.status = "error"]

Here(w) == IF w.current \notin {Fail, 0} THEN w.current
           ELSE IF w.header = Fail THEN 0 ELSE w.header

Identified(w) == w.me /\ Here(w) > 0

(* Only an ISOLATED securable bound to this workspace alone belongs to it.  *)
Owner(w, o) ==
    CASE o.mode \in OpenModes -> "shared"
      [] o.mode = "ISOLATED" /\ o.bindings = Fail -> "unknown"
      [] o.mode = "ISOLATED" /\ o.bindings # Fail ->
           IF o.bindings = {Here(w)} THEN "workspace" ELSE "shared"
      [] OTHER -> "unknown"

Securable(g) == Area(g) = "unity_catalog"

(* Whether the reader looks into o at all, and whether it reads it whole.   *)
Excluded(g, o) ==
    CASE g = Catalogs -> o.type # "MANAGED_CATALOG" \/ o.system
      [] g = "cluster_policies" -> o.get /\ o.system
      [] g = "secret_scopes" -> o.name = "" \/ o.system
      [] g \in {"storage_credentials", "external_locations"} -> o.system
      [] OTHER -> FALSE

NeedsGet(g) == g \notin {"secret_scopes", "service_principals"}

Kept(g, o) == ~Excluded(g, o) /\ (NeedsGet(g) => o.get)

SchemasOf(g, o) == IF g # Catalogs \/ o.schemas = Fail THEN <<>> ELSE o.schemas

KeptSchemas(o) ==
    LET kept(s) == ~s.system
    IN  SelectSeq(SchemasOf(Catalogs, o), kept)

Record(w, g, o) ==
    [name    |-> o.name,
     owner   |-> IF Securable(g) THEN Owner(w, o) ELSE "none",
     access  |-> IF g = "service_principals" THEN FALSE ELSE o.access,
     schemas |-> IF g = Catalogs
                   THEN [k \in DOMAIN KeptSchemas(o) |->
                           [name |-> KeptSchemas(o)[k].name, access |-> KeptSchemas(o)[k].access]]
                   ELSE <<>>]

Inventory(w) ==
    [g \in DOMAIN w.list |->
        LET kept(o) == Kept(g, o)
            objs == SelectSeq(Listed(w, g), kept)
        IN  [i \in DOMAIN objs |-> Record(w, g, objs[i])]]

-----------------------------------------------------------------------------
(* One issue per failed call or unverifiable fact, and one skip per object  *)
(* left to the platform; each is paired with what raised it, because two    *)
(* objects of one name may raise equal ones.                                *)
When(cond, x) == IF cond THEN {x} ELSE {}

GroupIssues(w, g) ==
    When(w.list[g] = Fail, <<Area(g), g, "list", "api_error">>) \cup
    When(w.list[g] # Fail /\ ~NameFound(w, Keyed(g, w.list[g])),
         <<"selection", w.name, "select name", "selection_failed">>)

ObjectIssues(w, g, o) ==
    LET issue(op, msg) == <<Area(g), o.name, op, msg>>
        read == Kept(g, o)
    IN  When(g = Catalogs /\ o.type = "", issue("list", "missing_type")) \cup
        When(~Excluded(g, o) /\ NeedsGet(g) /\ ~o.get, issue("get", "api_error")) \cup
        When(read /\ Securable(g) /\ o.mode = "ISOLATED" /\ o.bindings = Fail,
             issue("bindings", "api_error")) \cup
        When(read /\ Securable(g) /\ o.mode \notin OpenModes \cup {"ISOLATED"},
             issue("scope", "unknown_mode")) \cup
        When(/\ g # "service_principals" /\ ~o.access
             /\ read \/ (g = Catalogs /\ ~Excluded(g, o)),
             issue("access", "api_error")) \cup
        When(g = Catalogs /\ ~Excluded(g, o) /\ o.schemas = Fail,
             issue("schemas", "api_error"))

ObjectSkips(g, o) ==
    When(/\ Excluded(g, o)
         /\ ~(g = "secret_scopes" /\ o.name = "")
         /\ ~(g = Catalogs /\ o.type = ""),
         <<Area(g), o.name>>)

SchemaIssues(s) ==
    When(~s.system /\ ~s.access, <<"unity_catalog", s.name, "access", "api_error">>)

SchemaSkips(s) == When(s.system, <<"unity_catalog", s.name>>)

Objects(w) == UNION {{<<g, i>> : i \in DOMAIN Listed(w, g)} : g \in DOMAIN w.list}

(* A catalog's schemas are read unless the catalog is excluded, even when   *)
(* its own Get fails.                                                       *)
Schemas(w) ==
    UNION {{<<c[1], c[2], k>> : k \in DOMAIN SchemasOf(c[1], Listed(w, c[1])[c[2]])} :
             c \in {x \in Objects(w) : ~Excluded(x[1], Listed(w, x[1])[x[2]])}}

AllIssues(w) ==
    UNION {{<<<<g>>, x>> : x \in GroupIssues(w, g)} : g \in DOMAIN w.list} \cup
    UNION {{<<c, x>> : x \in ObjectIssues(w, c[1], Listed(w, c[1])[c[2]])} : c \in Objects(w)} \cup
    UNION {{<<s, x>> : x \in SchemaIssues(Listed(w, s[1])[s[2]].schemas[s[3]])} : s \in Schemas(w)}

AllSkips(w) ==
    UNION {{<<c, x>> : x \in ObjectSkips(c[1], Listed(w, c[1])[c[2]])} : c \in Objects(w)} \cup
    UNION {{<<s, x>> : x \in SchemaSkips(Listed(w, s[1])[s[2]].schemas[s[3]])} : s \in Schemas(w)}

(* A sorted list of exactly what the pairs hold: there is only one.         *)
ListsAll(seq, pairs) ==
    /\ Len(seq) = Cardinality(pairs)
    /\ \A p \in pairs : Cardinality({i \in DOMAIN seq : seq[i] = p[2]}) =
                        Cardinality({q \in pairs : q[2] = p[2]})
    /\ \A i, j \in DOMAIN seq : i < j => ~Before(seq[j], seq[i])

-----------------------------------------------------------------------------
Init == world \in Worlds /\ cancelled = FALSE /\ result = Pending

Cancel == ~cancelled /\ cancelled' = TRUE /\ UNCHANGED <<world, result>>

Answer ==
    /\ result = Pending
    /\ ~cancelled /\ Identified(world)
    /\ result'.status = "done"
    /\ result'.inventory = Inventory(world)
    /\ ListsAll(result'.issues, AllIssues(world))
    /\ ListsAll(result'.skipped, AllSkips(world))
    /\ UNCHANGED <<world, cancelled>>

GiveUp ==
    /\ result = Pending
    /\ cancelled \/ ~Identified(world)
    /\ result' = Error
    /\ UNCHANGED <<world, cancelled>>

Next == Cancel \/ Answer \/ GiveUp

Spec == Init /\ [][Next]_<<world, cancelled, result>>
=============================================================================
