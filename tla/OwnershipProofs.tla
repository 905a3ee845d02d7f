--------------------------- MODULE OwnershipProofs ---------------------------
(***************************************************************************)
(* For any workspaces and any number of changes: two roots own a securable *)
(* only if it changed since the first of their reads began, and what a     *)
(* read decides was true at some moment of it.                             *)
(***************************************************************************)
EXTENDS Ownership, TLAPS

(* One call of one root disturbs no other root and no part of the server.   *)
LEMMA CallsAreLocal ==
    ASSUME TypeOK, NEW r \in Roots, List(r) \/ Get(r) \/ GetBindings(r) \/ CallFails(r)
    PROVE  /\ UNCHANGED <<now, changes, unbound, touched>>
           /\ \A s \in Roots \ {r} : /\ stage'[s] = stage[s]
                                     /\ claim'[s] = claim[s]
                                     /\ seen'[s] = seen[s]
BY DEF TypeOK, List, Get, GetBindings, CallFails, Continue, Decide

(* What the calls of r make of r.                                           *)
LEMMA CallFacts ==
    ASSUME TypeOK, NEW r \in Roots, List(r) \/ Get(r) \/ GetBindings(r) \/ CallFails(r)
    PROVE  \/ /\ stage'[r] = "get" /\ Listed(Home(r))
              /\ claim'[r] = claim[r] /\ seen'[r] = seen[r]
           \/ /\ stage[r] = "get" /\ stage'[r] = "bindings"
              /\ claim'[r] = claim[r] /\ seen'[r] = {now} /\ now.mode = "ISOLATED"
           \/ /\ stage[r] = "list" /\ stage'[r] = "done"
              /\ claim'[r] = "hidden" /\ ~Listed(Home(r))
           \/ /\ stage[r] = "get" /\ stage'[r] = "done"
              /\ claim'[r] = "shared" /\ now.mode = "OPEN"
           \/ /\ stage[r] = "bindings" /\ stage'[r] = "done"
              /\ claim'[r] = IF now.bindings = {Home(r)} THEN "workspace" ELSE "shared"
           \/ stage'[r] = "done" /\ claim'[r] \in {"dropped", "unknown"}
BY DEF TypeOK, List, Get, GetBindings, CallFails, Continue, Decide

-----------------------------------------------------------------------------
(* Type correctness of the metastore, the reads and their decisions.        *)
THEOREM Typing == Spec => []TypeOK
<1>1. Init => TypeOK
  BY ChangesAssumption DEF Init, TypeOK
<1>2. TypeOK /\ [Next]_vars => TypeOK'
  <2> SUFFICES ASSUME TypeOK, [Next]_vars PROVE TypeOK'
    OBVIOUS
  <2>1. ASSUME NEW r \in Roots, List(r) \/ Get(r) \/ GetBindings(r) \/ CallFails(r)
        PROVE  TypeOK'
    BY <2>1 DEF TypeOK, List, Get, GetBindings, CallFails, Continue, Decide
  <2>2. CASE Administer
    <3>1. now' \in Config /\ changes' \in 0..MaxChanges
      BY <2>2, ChangesAssumption DEF Administer, TypeOK
    <3>2. seen' \in [Roots -> SUBSET Config]
      BY <2>2, <3>1 DEF Administer, TypeOK
    <3>3. touched' \subseteq Roots
      BY <2>2 DEF Administer, TypeOK
    <3> QED
      BY <2>2, <3>1, <3>2, <3>3 DEF Administer, TypeOK
  <2>3. CASE UNCHANGED vars
    BY <2>3 DEF vars, TypeOK
  <2> QED
    BY <2>1, <2>2, <2>3 DEF Next, Finished
<1> QED
  BY <1>1, <1>2, PTL DEF Spec

-----------------------------------------------------------------------------
(* Unless it changed since a read began, the securable is still what that   *)
(* read was told, and its decision says so.                                 *)
Consistent(r) ==
    /\ stage[r] = "get" => Listed(Home(r))
    /\ stage[r] = "bindings" => Listed(Home(r)) /\ now.mode = "ISOLATED"
    /\ stage[r] = "done" <=> claim[r] # "none"
    /\ claim[r] = "hidden" => ~Listed(Home(r))
    /\ claim[r] = "workspace" => now.mode = "ISOLATED" /\ now.bindings = {Home(r)}
    /\ claim[r] = "shared" =>
         /\ Listed(Home(r))
         /\ now.mode = "OPEN" \/ (now.mode = "ISOLATED" /\ now.bindings # {Home(r)})

Undisturbed == \A r \in Roots \ touched : Consistent(r)

LEMMA InitUndisturbed == Init => Undisturbed
BY DEF Init, Undisturbed, Consistent

LEMMA StepUndisturbed == TypeOK /\ Undisturbed /\ [Next]_vars => Undisturbed'
<1> SUFFICES ASSUME TypeOK, Undisturbed, [Next]_vars PROVE Undisturbed'
  OBVIOUS
<1>1. ASSUME NEW r \in Roots, List(r) \/ Get(r) \/ GetBindings(r) \/ CallFails(r)
      PROVE  Undisturbed'
  <2> SUFFICES ASSUME NEW s \in Roots, s \notin touched PROVE Consistent(s)'
    BY <1>1, CallsAreLocal DEF Undisturbed
  <2>1. Consistent(s)
    BY DEF Undisturbed
  <2>2. CASE s = r
    <3>1. UNCHANGED <<now, unbound>> /\ (Listed(Home(r))' <=> Listed(Home(r)))
      BY <1>1, CallsAreLocal DEF Listed, Home
    <3>2. claim'[r] = claim[r] => claim[r] = "none"
      BY <1>1, <2>1, <2>2 DEF Consistent, List, Get, GetBindings, CallFails, Continue, Decide, TypeOK
    <3>3. Consistent(r) /\ now' = now
      BY <2>1, <2>2, <3>1
    <3>4. \/ stage'[r] = "get" /\ Listed(Home(r)) /\ claim'[r] = "none"
          \/ stage'[r] = "bindings" /\ claim'[r] = "none" /\ Listed(Home(r)) /\ now.mode = "ISOLATED"
          \/ stage'[r] = "done" /\ claim'[r] = "hidden" /\ ~Listed(Home(r))
          \/ /\ stage'[r] = "done" /\ claim'[r] = "shared" /\ now.mode = "OPEN"
             /\ Listed(Home(r))
          \/ /\ stage'[r] = "done" /\ Listed(Home(r)) /\ now.mode = "ISOLATED"
             /\ claim'[r] = IF now.bindings = {Home(r)} THEN "workspace" ELSE "shared"
          \/ stage'[r] = "done" /\ claim'[r] \in {"dropped", "unknown"}
      BY <1>1, <3>2, <3>3, CallFacts DEF Consistent
    <3>5. Consistent(r)'
      BY <3>1, <3>3, <3>4 DEF Consistent, Home
    <3> QED
      BY <2>2, <3>5
  <2>3. CASE s # r
    <3>1. UNCHANGED <<now, unbound, stage[s], claim[s]>>
      BY <1>1, <2>3, CallsAreLocal
    <3> QED
      BY <2>1, <3>1 DEF Consistent, Listed, Home
  <2> QED
    BY <2>2, <2>3
<1>2. CASE Administer
  <2> SUFFICES ASSUME NEW s \in Roots, s \notin touched' PROVE Consistent(s)'
    BY DEF Undisturbed
  <2>1. stage[s] = "list" /\ Consistent(s) /\ UNCHANGED <<stage, claim>>
    BY <1>2 DEF Administer, Undisturbed
  <2> QED
    BY <2>1 DEF Consistent
<1>3. CASE UNCHANGED vars
  BY <1>3 DEF vars, Undisturbed, Consistent, Listed, Home
<1> QED
  BY <1>1, <1>2, <1>3 DEF Next, Finished

(* Two owners of a securable that did not change since either began.        *)
LEMMA AtMostOne ==
    ASSUME Undisturbed, NEW r \in Owners, NEW s \in Owners, r # s, {r, s} \cap touched = {}
    PROVE  unbound /\ Shared \in {r, s}
<1>1. Consistent(r) /\ Consistent(s) /\ r \in Roots /\ s \in Roots
  BY DEF Undisturbed, Owners
<1>2. \/ r = Shared /\ s # Shared
      \/ s = Shared /\ r # Shared
      \/ r # Shared /\ s # Shared
  OBVIOUS
<1>3. ASSUME NEW v \in Roots, Consistent(v), claim[v] = Takes(v), v # Shared,
             Consistent(Shared), claim[Shared] = Takes(Shared)
      PROVE  unbound
  <2>1. v \in Workspaces /\ Home(v) = v /\ Home(Shared) = Designated
    BY <1>3 DEF Roots, Home
  <2>2. now.mode = "ISOLATED" /\ now.bindings = {v} /\ Listed(Designated) /\ v # Designated
    BY <1>3, <2>1 DEF Consistent, Takes
  <2> QED
    BY <2>2 DEF Listed
<1>4. ~(r # Shared /\ s # Shared)
  BY <1>1 DEF Consistent, Owners, Takes, Home
<1> QED
  BY <1>1, <1>2, <1>3, <1>4 DEF Owners

(* A securable without an owner, when nothing changed and every call was    *)
(* answered.                                                                *)
LEMMA AtLeastOne ==
    ASSUME TypeOK, Undisturbed, touched = {}, Settled, \A r \in Roots : ~Unread(r), Owners = {}
    PROVE  OutOfSight
<1> USE DesignatedAssumption
<1>1. ASSUME NEW r \in Roots
      PROVE  /\ Consistent(r)
             /\ claim[r] # Takes(r)
             /\ claim[r] \in {"hidden", "workspace", "shared"}
  <2>1. Consistent(r) /\ claim[r] # Takes(r) /\ stage[r] = "done" /\ ~Unread(r)
    BY DEF Undisturbed, Settled, Owners
  <2> QED
    BY <2>1 DEF Consistent, Unread, TypeOK
<1>2. ASSUME NEW w \in Workspaces, now.bindings = {w}, now.mode = "ISOLATED"
      PROVE  FALSE
  <2>1. w \in Roots /\ w # Shared /\ Home(w) = w /\ Takes(w) = "workspace" /\ Listed(w)
    BY <1>2, SharedAssumption DEF Roots, Home, Takes, Listed
  <2>2. claim[w] = "hidden" \/ claim[w] = "shared"
    BY <1>1, <2>1
  <2> QED
    BY <1>1, <1>2, <2>1, <2>2 DEF Consistent
<1>3. Shared \in Roots /\ Home(Shared) = Designated /\ Takes(Shared) = "shared"
  BY DEF Roots, Home, Takes
<1>4. claim[Shared] # "workspace"
  BY <1>1, <1>2, <1>3 DEF Consistent
<1>5. claim[Shared] = "hidden" /\ ~Listed(Designated)
  BY <1>1, <1>3, <1>4 DEF Consistent
<1>6. now.mode = "ISOLATED"
  BY <1>5 DEF Listed
<1> QED
  BY <1>2, <1>5, <1>6 DEF OutOfSight

(* However many workspaces share the metastore and however often it is      *)
(* changed, a securable that did not change since the first of two reads    *)
(* began is not owned by both roots, as long as the server lists it where   *)
(* it is bound only; and one that did not change at all has an owner, or    *)
(* the designated workspace is not shown it.                                *)
THEOREM OneRootHolds == Spec => []OneRoot
<1>1. TypeOK /\ Undisturbed => OneRoot
  <2> SUFFICES ASSUME TypeOK, Undisturbed
               PROVE  /\ \A r, s \in Owners :
                           r # s /\ {r, s} \cap touched = {} => unbound /\ Shared \in {r, s}
                      /\ Settled /\ touched = {} /\ (\A r \in Roots : ~Unread(r)) =>
                           Owners # {} \/ OutOfSight
    BY DEF OneRoot
  <2>1. ASSUME NEW r \in Owners, NEW s \in Owners, r # s, {r, s} \cap touched = {}
        PROVE  unbound /\ Shared \in {r, s}
    BY <2>1, AtMostOne
  <2>2. ASSUME Settled, touched = {}, \A r \in Roots : ~Unread(r), Owners = {}
        PROVE  OutOfSight
    BY <2>2, AtLeastOne
  <2> QED
    BY <2>1, <2>2
<1> QED
  BY <1>1, InitUndisturbed, StepUndisturbed, Typing, PTL DEF Spec

-----------------------------------------------------------------------------
(* What classify has in hand when it asks for the bindings: an isolated     *)
(* state of the securable, and, after at most one change, a present state   *)
(* that differs from it in the mode or in the bindings but not in both.     *)
InHand(r) ==
    stage[r] = "bindings" =>
      /\ now \in seen[r]
      /\ \E c \in seen[r] : c.mode = "ISOLATED"
      /\ OneChange(seen[r]) =>
           \A c, d \in seen[r] : c.mode = d.mode \/ c.bindings = d.bindings

AllInHand == \A r \in Roots : InHand(r)

LEMMA StepInHand == TypeOK /\ AllInHand /\ [Next]_vars => AllInHand'
<1> SUFFICES ASSUME TypeOK, AllInHand, [Next]_vars, NEW s \in Roots PROVE InHand(s)'
  BY DEF AllInHand
<1>0. InHand(s)
  BY DEF AllInHand
<1>1. ASSUME NEW r \in Roots, List(r) \/ Get(r) \/ GetBindings(r) \/ CallFails(r)
      PROVE  InHand(s)'
  <2>1. now' = now
    BY <1>1, CallsAreLocal
  <2>2. CASE s = r
    <3>1. stage'[r] = "bindings" => seen'[r] = {now} /\ now.mode = "ISOLATED"
      BY <1>1, CallFacts
    <3> QED
      BY <2>1, <2>2, <3>1 DEF InHand
  <2>3. CASE s # r
    <3>1. UNCHANGED <<stage[s], seen[s]>>
      BY <1>1, <2>3, CallsAreLocal
    <3> QED
      BY <1>0, <2>1, <3>1 DEF InHand, OneChange
  <2> QED
    BY <2>2, <2>3
<1>2. CASE Administer
  <2> SUFFICES ASSUME stage'[s] = "bindings" PROVE InHand(s)'
    BY DEF InHand
  <2>1. stage[s] = "bindings" /\ seen'[s] = seen[s] \cup {now'}
    BY <1>2 DEF Administer, TypeOK
  <2>2. now # now' /\ (now'.mode = now.mode \/ now'.bindings = now.bindings)
    BY <1>2 DEF Administer
  <2>3. now \in seen[s] /\ \E c \in seen[s] : c.mode = "ISOLATED"
    BY <1>0, <2>1 DEF InHand
  <2>4. ASSUME OneChange(seen'[s]), NEW c \in seen'[s], NEW d \in seen'[s]
        PROVE  c.mode = d.mode \/ c.bindings = d.bindings
    <3>1. c = now \/ c = now'
      BY <2>1, <2>2, <2>3, <2>4 DEF OneChange
    <3>2. d = now \/ d = now'
      BY <2>1, <2>2, <2>3, <2>4 DEF OneChange
    <3> QED
      BY <2>2, <3>1, <3>2
  <2> QED
    BY <2>1, <2>3, <2>4 DEF InHand, OneChange
<1>3. CASE UNCHANGED vars
  BY <1>0, <1>3 DEF vars, InHand, OneChange
<1> QED
  BY <1>1, <1>2, <1>3 DEF Next, Finished

(* No decision mixes two moments into an ownership that never was, unless   *)
(* the securable changed twice between the two calls.                       *)
THEOREM RightAtSomeMomentHolds == Spec => RightAtSomeMoment
<1> DEFINE Right(r) ==
      claim'[r] # claim[r] /\ claim'[r] \in {"workspace", "shared"} /\ OneChange(seen[r]) =>
        \E c \in seen[r] \cup {now} : claim'[r] = Ownership(c, Home(r))
<1>1. Init => AllInHand
  BY DEF Init, AllInHand, InHand
<1>2. TypeOK /\ AllInHand /\ [Next]_vars => [\A r \in Roots : Right(r)]_vars
  <2> SUFFICES ASSUME TypeOK, AllInHand, Next, NEW s \in Roots, claim'[s] # claim[s],
                      claim'[s] \in {"workspace", "shared"}, OneChange(seen[s])
               PROVE  \E c \in seen[s] \cup {now} : claim'[s] = Ownership(c, Home(s))
    OBVIOUS
  <2>1. List(s) \/ Get(s) \/ GetBindings(s) \/ CallFails(s)
    <3>1. CASE \E r \in Roots : List(r) \/ Get(r) \/ GetBindings(r) \/ CallFails(r)
      BY <3>1, CallsAreLocal
    <3> QED
      BY <3>1 DEF Next, Administer, Finished, vars
  <2>2. \/ stage[s] = "get" /\ claim'[s] = "shared" /\ now.mode = "OPEN"
        \/ /\ stage[s] = "bindings"
           /\ claim'[s] = IF now.bindings = {Home(s)} THEN "workspace" ELSE "shared"
    BY <2>1, CallFacts
  <2>3. CASE now.mode = "OPEN" /\ claim'[s] = "shared"
    BY <2>3 DEF Ownership
  <2>4. CASE /\ stage[s] = "bindings"
             /\ claim'[s] = IF now.bindings = {Home(s)} THEN "workspace" ELSE "shared"
    <3>1. PICK c \in seen[s] : c.mode = "ISOLATED"
      BY <2>4 DEF AllInHand, InHand
    <3>2. now.mode = "ISOLATED" \/ now.bindings = c.bindings
      BY <2>4, <3>1 DEF AllInHand, InHand
    <3> QED
      BY <2>4, <3>1, <3>2 DEF Ownership
  <2> QED
    BY <2>2, <2>3, <2>4
<1> QED
  BY <1>1, <1>2, StepInHand, Typing, PTL DEF Spec, RightAtSomeMoment
=============================================================================
