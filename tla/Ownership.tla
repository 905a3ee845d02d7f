------------------------------ MODULE Ownership ------------------------------
(***************************************************************************)
(* inventory.classify and contract.inScope across roots: every workspace   *)
(* has a Terraform root that is exported from that workspace with the      *)
(* workspace scope, and the metastore has one root more, exported with the *)
(* shared scope from one designated workspace.  Each export reads the same *)
(* securable at its own time, in three calls between which an              *)
(* administrator may change the isolation mode or the bindings, and        *)
(* decides by itself who owns it.                                          *)
(*                                                                         *)
(* A mode stands for its spellings: "OPEN" for an empty one too, with or   *)
(* without the prefix ISOLATION_MODE_; "OTHER" is one that DataTF does not *)
(* know.  Bindings are the set of their workspaces, as uniqueSortedInt64   *)
(* leaves them.                                                            *)
(***************************************************************************)
EXTENDS Naturals

CONSTANTS
    Workspaces,
    Designated,  \* the workspace that shared objects are exported through
    Shared,      \* the shared root
    MaxChanges   \* how often the administrator changes the securable

ASSUME DesignatedAssumption == Designated \in Workspaces
ASSUME SharedAssumption == Shared \notin Workspaces
ASSUME ChangesAssumption == MaxChanges \in Nat

Roots == Workspaces \cup {Shared}

Config == [mode : {"OPEN", "ISOLATED", "OTHER"}, bindings : SUBSET Workspaces]

VARIABLES
    now,      \* the securable
    changes,  \* how often it has changed
    unbound,  \* the server lists a securable also where it is not bound
    stage,    \* stage[r]: the next call of the read for root r, or "done"
    claim,    \* claim[r]: what came of it: the Ownership, or why there is none
    seen,     \* seen[r]: what the securable was since Get, until the decision
    touched   \* the roots since the begin of whose read it has changed

vars == <<now, changes, unbound, stage, claim, seen, touched>>

(* The workspace in which the export for root r runs.                       *)
Home(r) == IF r = Shared THEN Designated ELSE r

Init ==
    /\ now \in Config
    /\ changes = 0
    /\ unbound \in BOOLEAN
    /\ stage = [r \in Roots |-> "list"]
    /\ claim = [r \in Roots |-> "none"]
    /\ seen = [r \in Roots |-> {}]
    /\ touched = {}

Decide(r, ownership) ==
    /\ stage' = [stage EXCEPT ![r] = "done"]
    /\ claim' = [claim EXCEPT ![r] = ownership]
    /\ seen' = [seen EXCEPT ![r] = {}]

Continue(r, call) ==
    /\ stage' = [stage EXCEPT ![r] = call]
    /\ UNCHANGED claim

(* An isolated securable is at hand in the workspaces it is bound to; the   *)
(* list calls never ask for the unbound ones.                               *)
Listed(w) == unbound \/ now.mode # "ISOLATED" \/ w \in now.bindings

List(r) ==
    /\ stage[r] = "list"
    /\ \/ Listed(Home(r)) /\ Continue(r, "get") /\ UNCHANGED seen
       \/ ~Listed(Home(r)) /\ Decide(r, "hidden")
    /\ UNCHANGED <<now, changes, unbound, touched>>

(* Mutant of Get: bindings decide about open securables too.                *)
GetBoundAnyway(r) ==
    /\ stage[r] = "get"
    /\ \/ now.mode = "OTHER" /\ Decide(r, "unknown")
       \/ /\ now.mode # "OTHER"
          /\ Continue(r, "bindings")
          /\ seen' = [seen EXCEPT ![r] = {now}]
    /\ UNCHANGED <<now, changes, unbound, touched>>

(* The mode that Get returns decides, or sends classify on to the bindings. *)
Get(r) ==
    /\ stage[r] = "get"
    /\ \/ now.mode = "OPEN" /\ Decide(r, "shared")
       \/ now.mode = "OTHER" /\ Decide(r, "unknown")
       \/ /\ now.mode = "ISOLATED"
          /\ Continue(r, "bindings")
          /\ seen' = [seen EXCEPT ![r] = {now}]
    /\ UNCHANGED <<now, changes, unbound, touched>>

(* Mutant of GetBindings: one binding to this workspace among several.      *)
GetBindingsAny(r) ==
    /\ stage[r] = "bindings"
    /\ Decide(r, IF Home(r) \in now.bindings THEN "workspace" ELSE "shared")
    /\ UNCHANGED <<now, changes, unbound, touched>>

GetBindings(r) ==
    /\ stage[r] = "bindings"
    /\ Decide(r, IF now.bindings = {Home(r)} THEN "workspace" ELSE "shared")
    /\ UNCHANGED <<now, changes, unbound, touched>>

(* A failing List records an issue and reads nothing of its kind; a failing *)
(* Get drops the securable; without its bindings the owner is unknown.      *)
CallFails(r) ==
    /\ \/ stage[r] \in {"list", "get"} /\ Decide(r, "dropped")
       \/ stage[r] = "bindings" /\ Decide(r, "unknown")
    /\ UNCHANGED <<now, changes, unbound, touched>>

(* One change: of the mode or of the bindings.                              *)
Administer ==
    /\ changes < MaxChanges
    /\ changes' = changes + 1
    /\ now' \in {c \in Config : c # now /\ (c.mode = now.mode \/ c.bindings = now.bindings)}
    /\ seen' = [r \in Roots |-> IF stage[r] = "bindings" THEN seen[r] \cup {now'} ELSE seen[r]]
    /\ touched' = touched \cup {r \in Roots : stage[r] # "list"}
    /\ UNCHANGED <<unbound, stage, claim>>

Settled == \A r \in Roots : stage[r] = "done"

Finished == Settled /\ UNCHANGED vars

Next ==
    \/ \E r \in Roots : List(r) \/ Get(r) \/ GetBindings(r) \/ CallFails(r)
    \/ Administer
    \/ Finished

Spec == Init /\ [][Next]_vars

-----------------------------------------------------------------------------
(* inScope: what each root takes.                                           *)
Takes(r) == IF r = Shared THEN "shared" ELSE "workspace"

Owners == {r \in Roots : claim[r] = Takes(r)}

TypeOK ==
    /\ now \in Config
    /\ changes \in 0..MaxChanges
    /\ unbound \in BOOLEAN
    /\ stage \in [Roots -> {"list", "get", "bindings", "done"}]
    /\ claim \in [Roots -> {"none", "hidden", "dropped", "unknown", "workspace", "shared"}]
    /\ seen \in [Roots -> SUBSET Config]
    /\ touched \subseteq Roots

(* The securable is bound to no workspace or to several, and the designated *)
(* one is not shown it: "A shared export does not prove full metastore      *)
(* coverage" (docs/permissions.md:41).                                      *)
OutOfSight ==
    /\ ~Listed(Designated)
    /\ \A w \in Workspaces : now.bindings # {w}

Unread(r) == claim[r] \in {"dropped", "unknown"}

(* One root per securable, however many roots are exported and whenever.    *)
(* "A workspace root must not take ownership of shared metastore objects"   *)
(* (classify): two roots own it only if it was changed after the first of   *)
(* their reads began, when the server lists it where it is bound only, as   *)
(* it does for the listings that DataTF asks for.  And when all roots were  *)
(* exported, no call failed and nothing was changed after the first began,  *)
(* some root owns it, or the shared root cannot see it.                     *)
OneRoot ==
    /\ \A r, s \in Owners :
         r # s /\ {r, s} \cap touched = {} => unbound /\ Shared \in {r, s}
    /\ Settled /\ touched = {} /\ (\A r \in Roots : ~Unread(r)) => Owners # {} \/ OutOfSight

(* "OwnedShared: OPEN, or ISOLATED and bound to zero or many workspaces"    *)
(* (inventory/model.go:20-21): what the shared root takes is not bound to   *)
(* one workspace, unless it was changed meanwhile.  A server that lists the *)
(* securable where it is not bound makes classify decide otherwise.         *)
SharedAsDocumented ==
    claim[Shared] = "shared" /\ Shared \notin touched =>
        \/ now.mode = "OPEN"
        \/ now.mode = "ISOLATED" /\ \A w \in Workspaces : now.bindings # {w}

(* The ownership of a securable as the header of classify has it.           *)
Ownership(c, w) ==
    IF c.mode = "OTHER" THEN "unknown"
    ELSE IF c.mode = "ISOLATED" /\ c.bindings = {w} THEN "workspace" ELSE "shared"

(* At most two states of the securable.                                     *)
OneChange(configs) == \A a, b, c \in configs : a = b \/ b = c \/ a = c

(* Mode and bindings are read at two moments.  What is decided from them is *)
(* still the ownership at some moment between the two, as long as the       *)
(* securable had no more than two states meanwhile.                         *)
RightAtSomeMoment ==
    [][\A r \in Roots :
         claim'[r] # claim[r] /\ claim'[r] \in {"workspace", "shared"} /\ OneChange(seen[r]) =>
           \E c \in seen[r] \cup {now} : claim'[r] = Ownership(c, Home(r))]_vars
=============================================================================
