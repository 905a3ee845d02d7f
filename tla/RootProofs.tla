----------------------------- MODULE RootProofs -----------------------------
(***************************************************************************)
(* Proofs about Build and Root, for any set of inventories.  The builder's *)
(* loops are a walk over passes: pass <<n, i, k>> is the one in which      *)
(* method n takes its object i (k = 0), or adds schema k of that object.   *)
(* What an export holds is what the passes behind the cursor contribute,   *)
(* and nothing else.                                                       *)
(***************************************************************************)
EXTENDS Root, FiniteSetTheorems, WellFoundedInduction, TLAPS

USE InventoriesAssumption

-----------------------------------------------------------------------------
(* The walk.                                                                *)
ObjectOf(n, i) == Objects(ResourceNames[n])[i]

(* How many schemas are added after an object.                              *)
SchemaPasses(s, n, i) ==
    IF n = 1 /\ InScope(s, ObjectOf(n, i)) THEN Len(ObjectOf(n, i).schemas) ELSE 0

IsPass(s, n, i, k) ==
    /\ n \in 1..Methods(s)
    /\ i \in 1..Len(Objects(ResourceNames[n]))
    /\ k \in 0..SchemaPasses(s, n, i)

Behind(s, n, i, k) ==
    /\ IsPass(s, n, i, k)
    /\ \/ n <= stage[s]
       \/ n = stage[s] + 1 /\ i < at[s].object
       \/ n = stage[s] + 1 /\ i = at[s].object /\ k <= at[s].schema

Contribution(s, n, i, k) ==
    CASE k # 0 -> SchemaPart(ObjectOf(n, i), ObjectOf(n, i).schemas[k])
      [] k = 0 /\ n \in 1..3 -> SecurablePart(s, ResourceNames[n], ObjectOf(n, i))
      [] k = 0 /\ n \in 4..6 -> IdentifiedPart(ResourceNames[n], ObjectOf(n, i))
      [] k = 0 /\ n = 7 -> SecretScopePart(ObjectOf(n, i))
      [] k = 0 /\ n = 8 -> ServicePrincipalPart(ObjectOf(n, i))

CursorOK(s) ==
    /\ stage[s] \in 0..Methods(s)
    /\ at[s] \in [object : Nat, schema : Nat]
    /\ Built(s) => at[s] = Start
    /\ ~Built(s) => at[s].object <= Len(Objects(Group(s)))
    /\ at[s].object = 0 => at[s].schema = 0
    /\ ~Built(s) /\ at[s].object > 0 =>
         at[s].schema <= SchemaPasses(s, stage[s] + 1, at[s].object)

CursorInv ==
    /\ inv \in Inventories
    /\ stage \in [Scopes -> Nat] /\ at \in [Scopes -> [object : Nat, schema : Nat]]
    /\ DOMAIN ex = Scopes /\ DOMAIN report = Scopes
    /\ \A s \in Scopes : CursorOK(s)

(* A step of scope s adds the contribution of one pass to its export, ...   *)
Grows(s, n, i, k) ==
    /\ IsPass(s, n, i, k) /\ ~Behind(s, n, i, k) /\ ~Built(s)
    /\ ex' = [ex EXCEPT ![s] = Add(ex[s], Contribution(s, n, i, k))]
    /\ \A t \in Scopes : \A m, j, l \in Nat :
         Behind(t, m, j, l)' <=> Behind(t, m, j, l) \/ (t = s /\ m = n /\ j = i /\ l = k)
    /\ \A t \in Scopes : Built(t) => Built(t)'
    /\ UNCHANGED <<inv, report>>

(* ... or leaves all exports as they are.                                   *)
Rests ==
    /\ \A t \in Scopes : \A m, j, l \in Nat : Behind(t, m, j, l)' <=> Behind(t, m, j, l)
    /\ \A t \in Scopes : Built(t) => Built(t)'
    /\ UNCHANGED <<inv, ex>>

-----------------------------------------------------------------------------
(* The methods and their groups.                                            *)
LEMMA Groups8 ==
    /\ Len(ResourceNames) = 8 /\ DOMAIN ResourceNames = 1..8
    /\ \A n \in 1..8 : /\ ResourceNames[n] \in Securables <=> n \in 1..3
                       /\ ResourceNames[n] \in Identified <=> n \in 4..6
                       /\ ResourceNames[n] = "secret_scopes" <=> n = 7
                       /\ ResourceNames[n] = "service_principals" <=> n = 8
                       /\ ResourceNames[n] = Catalogs <=> n = 1
                       /\ \A m \in 1..8 : ResourceNames[m] = ResourceNames[n] => m = n
    /\ \A s \in Scopes : Methods(s) \in 3..8
<1>1. Len(ResourceNames) = 8 /\ DOMAIN ResourceNames = 1..8
  BY DEF ResourceNames
<1>2. \A s \in Scopes : Methods(s) \in 3..8
  BY <1>1 DEF Scopes, Methods
<1>3. ASSUME NEW n \in 1..8
      PROVE  /\ ResourceNames[n] \in Securables <=> n \in 1..3
             /\ ResourceNames[n] \in Identified <=> n \in 4..6
             /\ ResourceNames[n] = "secret_scopes" <=> n = 7
             /\ ResourceNames[n] = "service_principals" <=> n = 8
             /\ ResourceNames[n] = Catalogs <=> n = 1
  BY <1>3 DEF ResourceNames, Securables, Identified, Catalogs
<1>4. ASSUME NEW n \in 1..8, NEW m \in 1..8, ResourceNames[m] = ResourceNames[n]
      PROVE  m = n
  BY <1>4 DEF ResourceNames
<1> QED
  BY <1>1, <1>2, <1>3, <1>4

(* The objects that a method takes are a sequence.                          *)
LEMMA ObjectTypes ==
    ASSUME inv \in Inventories
    PROVE  /\ \A n \in 1..3 : Objects(ResourceNames[n]) \in Seq(SecurableInfo)
           /\ \A n \in 4..6 : Objects(ResourceNames[n]) \in Seq(IdentifiedInfo)
           /\ Objects(ResourceNames[7]) \in Seq(SecretScopeInfo)
           /\ \A n \in 1..7 : Objects(ResourceNames[n]) = inv[ResourceNames[n]]
           /\ \A n \in 1..8 : /\ Len(Objects(ResourceNames[n])) \in Nat
                              /\ DOMAIN Objects(ResourceNames[n]) =
                                     1..Len(Objects(ResourceNames[n]))
<1>1. IsInventory(inv)
  OBVIOUS
<1>2. \A n \in 1..7 : Objects(ResourceNames[n]) = inv[ResourceNames[n]]
  BY Groups8 DEF Objects, Keyed
<1>3. \A n \in 1..3 : Objects(ResourceNames[n]) \in Seq(SecurableInfo)
  BY <1>1, <1>2, Groups8 DEF IsInventory
<1>4. \A n \in 4..6 : Objects(ResourceNames[n]) \in Seq(IdentifiedInfo)
  BY <1>1, <1>2, Groups8 DEF IsInventory
<1>5. Objects(ResourceNames[7]) \in Seq(SecretScopeInfo)
  BY <1>1, <1>2, Groups8 DEF IsInventory
<1>6. /\ Len(Objects(ResourceNames[8])) \in Nat
      /\ DOMAIN Objects(ResourceNames[8]) = 1..Len(Objects(ResourceNames[8]))
  <2> DEFINE objs == inv.service_principals
             keyed == [i \in DOMAIN objs |-> [objs[i] EXCEPT !.name = Key(objs, i)]]
  <2>1. objs \in Seq(ServicePrincipalInfo)
    BY <1>1 DEF IsInventory
  <2>2. Objects(ResourceNames[8]) = keyed
    BY Groups8 DEF Objects, Keyed
  <2> HIDE DEF objs
  <2>3. DOMAIN objs = 1..Len(objs) /\ Len(objs) \in Nat
    BY <2>1
  <2>4. keyed \in [1..Len(objs) -> {keyed[i] : i \in 1..Len(objs)}]
    BY <2>3
  <2> HIDE DEF keyed
  <2>5. Len(keyed) = Len(objs) /\ DOMAIN keyed = 1..Len(objs)
    BY <2>3, <2>4
  <2> QED
    BY <2>2, <2>3, <2>5
<1> QED
  <2>1. ASSUME NEW n \in 1..8
        PROVE  /\ Len(Objects(ResourceNames[n])) \in Nat
               /\ DOMAIN Objects(ResourceNames[n]) = 1..Len(Objects(ResourceNames[n]))
    <3>1. CASE n \in 1..3
      BY <1>3, <3>1
    <3>2. CASE n \in 4..6
      BY <1>4, <3>2
    <3>3. CASE n = 7
      BY <1>5, <3>3
    <3>4. CASE n = 8
      BY <1>6, <3>4
    <3> QED
      BY <3>1, <3>2, <3>3, <3>4
  <2> QED
    BY <1>2, <1>3, <1>4, <1>5, <2>1

(* How many schemas an object has, for a catalog in scope.                  *)
LEMMA SchemaPassesType ==
    ASSUME inv \in Inventories, NEW s \in Scopes, NEW n \in 1..8,
           NEW i \in 1..Len(Objects(ResourceNames[n]))
    PROVE  SchemaPasses(s, n, i) \in Nat
<1>1. CASE n = 1
  <2>1. ObjectOf(n, i) \in SecurableInfo
    BY <1>1, ObjectTypes DEF ObjectOf
  <2>2. ObjectOf(n, i).schemas \in Seq(SchemaRead)
    BY <2>1 DEF SecurableInfo
  <2>3. Len(ObjectOf(n, i).schemas) \in Nat
    BY <2>2
  <2> QED
    BY <2>3 DEF SchemaPasses
<1> QED
  BY <1>1 DEF SchemaPasses

(* The object in hand has schemas left exactly when the cursor says so.     *)
LEMMA AmongSchemasFacts ==
    ASSUME CursorInv, NEW s \in Scopes, ~Built(s)
    PROVE  /\ stage[s] + 1 \in 1..Methods(s)
           /\ Group(s) = ResourceNames[stage[s] + 1]
           /\ Len(Objects(Group(s))) \in Nat /\ at[s].object \in Nat /\ at[s].schema \in Nat
           /\ AmongSchemas(s) <=>
                /\ at[s].object > 0
                /\ at[s].schema < SchemaPasses(s, stage[s] + 1, at[s].object)
<1> DEFINE n == stage[s] + 1
           i == at[s].object
<1>1. n \in 1..Methods(s) /\ n \in 1..8 /\ Group(s) = ResourceNames[n]
  <2>1. stage[s] \in 0..Methods(s) /\ stage[s] # Methods(s) /\ Methods(s) \in 3..8
    BY Groups8 DEF CursorInv, CursorOK, Built
  <2> QED
    BY <2>1 DEF Group
<1>2. Len(Objects(Group(s))) \in Nat /\ at[s].object \in Nat /\ at[s].schema \in Nat
  BY <1>1, ObjectTypes DEF CursorInv, CursorOK
<1>3. Group(s) = Catalogs <=> n = 1
  BY <1>1, Groups8
<1>4. InHand(s) = ObjectOf(n, i)
  BY <1>1 DEF InHand, ObjectOf
<1> QED
  BY <1>1, <1>2, <1>3, <1>4 DEF AmongSchemas, SchemaPasses

(* The next object of a method.                                             *)
LEMMA AddNextShape ==
    ASSUME CursorInv, NEW s \in Scopes, NEW groups, NEW added, AddNext(s, groups, added)
    PROVE  LET n == stage[s] + 1
               i == at[s].object + 1
           IN  /\ IsPass(s, n, i, 0) /\ ~Behind(s, n, i, 0) /\ ~Built(s)
               /\ Group(s) = ResourceNames[n] /\ Upcoming(s) = ObjectOf(n, i)
               /\ \A t \in Scopes : \A m, j, l \in Nat :
                    Behind(t, m, j, l)' <=>
                      Behind(t, m, j, l) \/ (t = s /\ m = n /\ j = i /\ l = 0)
               /\ CursorInv'
<1> DEFINE n == stage[s] + 1
           i == at[s].object + 1
<1>1. /\ ~Built(s) /\ ~AmongSchemas(s) /\ i <= Len(Objects(Group(s)))
      /\ ex' = [ex EXCEPT ![s] = Add(@, added)]
      /\ at' = [at EXCEPT ![s] = [object |-> i, schema |-> 0]]
      /\ UNCHANGED <<inv, stage, report>>
  BY AmongSchemasFacts DEF AddNext
<1>2. /\ n \in 1..Methods(s) /\ n \in 1..8 /\ Group(s) = ResourceNames[n]
      /\ Len(Objects(Group(s))) \in Nat /\ at[s].object \in Nat /\ at[s].schema \in Nat
      /\ at[s].object = 0 => at[s].schema = 0
  <2>1. /\ n \in 1..Methods(s) /\ Group(s) = ResourceNames[n]
        /\ Len(Objects(Group(s))) \in Nat /\ at[s].object \in Nat /\ at[s].schema \in Nat
    BY <1>1, AmongSchemasFacts
  <2>2. Methods(s) \in 3..8 /\ (at[s].object = 0 => at[s].schema = 0)
    BY Groups8 DEF CursorInv, CursorOK
  <2> QED
    BY <2>1, <2>2
<1>3. i \in 1..Len(Objects(ResourceNames[n])) /\ SchemaPasses(s, n, i) \in Nat
  <2>1. i \in 1..Len(Objects(ResourceNames[n])) /\ inv \in Inventories
    BY <1>1, <1>2 DEF CursorInv
  <2> QED
    BY <1>2, <2>1, SchemaPassesType
<1>4. IsPass(s, n, i, 0) /\ ~Behind(s, n, i, 0)
  BY <1>2, <1>3 DEF IsPass, Behind, CursorInv, CursorOK
<1>5. Upcoming(s) = ObjectOf(n, i)
  BY <1>2 DEF Upcoming, ObjectOf
<1>6. \A t \in Scopes, m, j, l \in Nat : /\ IsPass(t, m, j, l)' <=> IsPass(t, m, j, l)
                                         /\ SchemaPasses(t, m, j)' = SchemaPasses(t, m, j)
  BY <1>1 DEF IsPass, SchemaPasses, ObjectOf, Objects
<1>7. /\ stage' = stage /\ at'[s] = [object |-> i, schema |-> 0]
      /\ \A t \in Scopes \ {s} : at'[t] = at[t]
  BY <1>1 DEF CursorInv
<1>8. ASSUME NEW m \in Nat, NEW j \in Nat, NEW l \in Nat
      PROVE  Behind(s, m, j, l)' <=> Behind(s, m, j, l) \/ (m = n /\ j = i /\ l = 0)
  <2>1. CASE m # n
    BY <1>2, <1>6, <1>7, <2>1 DEF Behind, CursorInv, CursorOK
  <2>2. CASE m = n /\ j >= i
    <3>1. ~Behind(s, m, j, l)
      BY <1>2, <2>2 DEF Behind, CursorInv, CursorOK
    <3>2. Behind(s, m, j, l)' <=> IsPass(s, m, j, l) /\ j = i /\ l <= 0
      BY <1>2, <1>6, <1>7, <2>2 DEF Behind, CursorInv, CursorOK
    <3> QED
      BY <1>4, <2>2, <3>1, <3>2
  <2>3. CASE m = n /\ j < i
    <3>1. Behind(s, m, j, l)' <=> IsPass(s, m, j, l)
      BY <1>2, <1>6, <1>7, <2>3 DEF Behind, CursorInv, CursorOK
    <3>2. IsPass(s, m, j, l) /\ j = at[s].object => l <= at[s].schema
      <4>1. SUFFICES ASSUME IsPass(s, m, j, l), j = at[s].object PROVE l <= at[s].schema
        OBVIOUS
      <4>2. at[s].object > 0 /\ l <= SchemaPasses(s, n, at[s].object)
        BY <4>1, <2>3 DEF IsPass
      <4>3. ~(at[s].schema < SchemaPasses(s, n, at[s].object))
        BY <1>1, <4>2, AmongSchemasFacts
      <4>4. SchemaPasses(s, n, at[s].object) \in Nat
        BY <1>2, <4>1, <2>3, SchemaPassesType DEF IsPass, CursorInv
      <4> QED
        BY <1>2, <4>2, <4>3, <4>4
    <3>3. Behind(s, m, j, l) <=> IsPass(s, m, j, l)
      BY <1>2, <2>3, <3>2 DEF Behind
    <3> QED
      BY <2>3, <3>1, <3>3
  <2> QED
    BY <1>2, <2>1, <2>2, <2>3
<1>9. ASSUME NEW t \in Scopes, t # s, NEW m \in Nat, NEW j \in Nat, NEW l \in Nat
      PROVE  Behind(t, m, j, l)' <=> Behind(t, m, j, l)
  BY <1>6, <1>7, <1>9 DEF Behind
<1>10. CursorInv'
  <2>1. \A t \in Scopes : Built(t)' <=> Built(t)
    BY <1>7 DEF Built
  <2>2. CursorOK(s)'
    <3>1. Group(s)' = Group(s) /\ Objects(Group(s))' = Objects(Group(s))
      BY <1>1 DEF Group, Objects
    <3>2. SchemaPasses(s, stage[s] + 1, at[s].object)' = SchemaPasses(s, n, i)
      BY <1>1, <1>7 DEF SchemaPasses, ObjectOf, Objects
    <3> QED
      BY <1>1, <1>2, <1>3, <1>7, <2>1, <3>1, <3>2 DEF CursorInv, CursorOK
  <2>3. ASSUME NEW t \in Scopes, t # s PROVE CursorOK(t)'
    <3>1. CursorOK(t) /\ at'[t] = at[t] /\ stage' = stage /\ inv' = inv
      BY <1>1, <1>7, <2>3 DEF CursorInv
    <3> QED
      BY <3>1 DEF CursorOK, Built, Group, Objects, SchemaPasses, ObjectOf
  <2>4. /\ inv' \in Inventories /\ stage' \in [Scopes -> Nat]
        /\ at' \in [Scopes -> [object : Nat, schema : Nat]]
        /\ DOMAIN ex' = Scopes /\ DOMAIN report' = Scopes
    BY <1>1, <1>2 DEF CursorInv
  <2> QED
    BY <2>2, <2>3, <2>4 DEF CursorInv
<1> QED
  BY <1>1, <1>2, <1>4, <1>5, <1>8, <1>9, <1>10

(* The next schema of the catalog in hand.                                  *)
LEMMA BuildSchemasShape ==
    ASSUME CursorInv, NEW s \in Scopes, BuildSchemas(s)
    PROVE  LET n == stage[s] + 1
               i == at[s].object
               k == at[s].schema + 1
           IN  /\ IsPass(s, n, i, k) /\ ~Behind(s, n, i, k) /\ ~Built(s)
               /\ InHand(s) = ObjectOf(n, i)
               /\ \A t \in Scopes : \A m, j, l \in Nat :
                    Behind(t, m, j, l)' <=>
                      Behind(t, m, j, l) \/ (t = s /\ m = n /\ j = i /\ l = k)
               /\ CursorInv'
<1> DEFINE n == stage[s] + 1
           i == at[s].object
           k == at[s].schema + 1
<1>1. /\ ~Built(s) /\ AmongSchemas(s)
      /\ at' = [at EXCEPT ![s].schema = @ + 1]
      /\ UNCHANGED <<inv, stage, report>>
      /\ DOMAIN ex' = DOMAIN ex
  BY DEF BuildSchemas
<1>2. /\ n \in 1..Methods(s) /\ Group(s) = ResourceNames[n]
      /\ Len(Objects(Group(s))) \in Nat /\ i \in Nat /\ at[s].schema \in Nat
      /\ i > 0 /\ at[s].schema < SchemaPasses(s, n, i)
  BY <1>1, AmongSchemasFacts
<1>3. i \in 1..Len(Objects(ResourceNames[n])) /\ n \in 1..8
  <2>1. i <= Len(Objects(Group(s))) /\ Methods(s) \in 3..8
    BY <1>1, Groups8 DEF CursorInv, CursorOK
  <2> QED
    BY <1>2, <2>1
<1>4. SchemaPasses(s, n, i) \in Nat
  BY <1>3, SchemaPassesType DEF CursorInv
<1>5. IsPass(s, n, i, k) /\ ~Behind(s, n, i, k)
  BY <1>2, <1>3, <1>4 DEF IsPass, Behind, CursorInv, CursorOK
<1>6. InHand(s) = ObjectOf(n, i)
  BY <1>2 DEF InHand, ObjectOf
<1>7. \A t \in Scopes, m, j, l \in Nat : IsPass(t, m, j, l)' <=> IsPass(t, m, j, l)
  BY <1>1 DEF IsPass, SchemaPasses, ObjectOf, Objects
<1>8. /\ stage' = stage /\ at'[s] = [object |-> i, schema |-> k]
      /\ \A t \in Scopes \ {s} : at'[t] = at[t]
      /\ at' \in [Scopes -> [object : Nat, schema : Nat]]
  BY <1>1, <1>2 DEF CursorInv
<1>9. ASSUME NEW m \in Nat, NEW j \in Nat, NEW l \in Nat
      PROVE  Behind(s, m, j, l)' <=> Behind(s, m, j, l) \/ (m = n /\ j = i /\ l = k)
  BY <1>2, <1>5, <1>7, <1>8 DEF Behind
<1>10. ASSUME NEW t \in Scopes, t # s, NEW m \in Nat, NEW j \in Nat, NEW l \in Nat
       PROVE  Behind(t, m, j, l)' <=> Behind(t, m, j, l)
  BY <1>7, <1>8, <1>10 DEF Behind
<1>11. CursorInv'
  <2>1. \A t \in Scopes : Built(t)' <=> Built(t)
    BY <1>8 DEF Built
  <2>2. CursorOK(s)'
    <3>1. Group(s)' = Group(s) /\ Objects(Group(s))' = Objects(Group(s))
      BY <1>1 DEF Group, Objects
    <3>2. SchemaPasses(s, stage[s] + 1, at[s].object)' = SchemaPasses(s, n, i)
      BY <1>1, <1>8 DEF SchemaPasses, ObjectOf, Objects
    <3> QED
      BY <1>1, <1>2, <1>3, <1>4, <1>8, <2>1, <3>1, <3>2 DEF CursorInv, CursorOK
  <2>3. ASSUME NEW t \in Scopes, t # s PROVE CursorOK(t)'
    <3>1. CursorOK(t) /\ at'[t] = at[t] /\ stage' = stage /\ inv' = inv
      BY <1>1, <1>8, <2>3 DEF CursorInv
    <3> QED
      BY <3>1 DEF CursorOK, Built, Group, Objects, SchemaPasses, ObjectOf
  <2>4. /\ inv' \in Inventories /\ stage' \in [Scopes -> Nat]
        /\ DOMAIN ex' = Scopes /\ DOMAIN report' = Scopes
    BY <1>1 DEF CursorInv
  <2> QED
    BY <1>8, <2>2, <2>3, <2>4 DEF CursorInv
<1> QED
  BY <1>1, <1>5, <1>6, <1>9, <1>10, <1>11

(* A method returns when its objects and schemas are behind the cursor.     *)
LEMMA NextMethodShape ==
    ASSUME CursorInv, NEW s \in Scopes, NextMethod(s)
    PROVE  CursorInv' /\ Rests
<1> DEFINE n == stage[s] + 1
           i == at[s].object
<1>1. /\ ~Built(s) /\ ~AmongSchemas(s) /\ i = Len(Objects(Group(s)))
      /\ stage' = [stage EXCEPT ![s] = @ + 1]
      /\ at' = [at EXCEPT ![s] = Start]
      /\ UNCHANGED <<inv, ex, report>>
  BY DEF NextMethod
<1>2. /\ n \in 1..Methods(s) /\ Group(s) = ResourceNames[n]
      /\ i \in Nat /\ at[s].schema \in Nat
      /\ i > 0 => ~(at[s].schema < SchemaPasses(s, n, i))
  BY <1>1, AmongSchemasFacts
<1>3. n \in 1..8
  BY <1>2, Groups8
<1>4. \A t \in Scopes, m, j, l \in Nat : IsPass(t, m, j, l)' <=> IsPass(t, m, j, l)
  BY <1>1 DEF IsPass, SchemaPasses, ObjectOf, Objects
<1>5. /\ stage'[s] = n /\ at'[s] = [object |-> 0, schema |-> 0]
      /\ \A t \in Scopes \ {s} : at'[t] = at[t] /\ stage'[t] = stage[t]
      /\ at' \in [Scopes -> [object : Nat, schema : Nat]] /\ stage' \in [Scopes -> Nat]
  BY <1>1, <1>2 DEF CursorInv, Start
<1>6. ASSUME NEW j \in Nat, NEW l \in Nat, IsPass(s, n, j, l)
      PROVE  Behind(s, n, j, l)
  <2>1. j \in 1..i /\ l \in 0..SchemaPasses(s, n, j)
    BY <1>1, <1>2, <1>6 DEF IsPass
  <2>2. CASE j = i
    <3>1. SchemaPasses(s, n, i) \in Nat
      BY <1>1, <1>2, <1>3, <2>1, <2>2, SchemaPassesType DEF CursorInv
    <3> QED
      BY <1>2, <1>6, <2>1, <2>2, <3>1 DEF Behind
  <2>3. CASE j < i
    BY <1>6, <2>3 DEF Behind
  <2> QED
    BY <1>2, <2>1, <2>2, <2>3
<1>7. ASSUME NEW m \in Nat, NEW j \in Nat, NEW l \in Nat
      PROVE  Behind(s, m, j, l)' <=> Behind(s, m, j, l)
  <2>1. stage[s] \in Nat
    BY DEF CursorInv
  <2>2. Behind(s, m, j, l)' <=> IsPass(s, m, j, l) /\ m <= n
    <3>1. IsPass(s, m, j, l) => j >= 1
      BY DEF IsPass
    <3> QED
      BY <1>2, <1>4, <1>5, <2>1, <3>1 DEF Behind
  <2>3. Behind(s, m, j, l) <=> IsPass(s, m, j, l) /\ m <= n
    BY <1>2, <1>6, <2>1 DEF Behind
  <2> QED
    BY <2>2, <2>3
<1>8. ASSUME NEW t \in Scopes, t # s, NEW m \in Nat, NEW j \in Nat, NEW l \in Nat
      PROVE  Behind(t, m, j, l)' <=> Behind(t, m, j, l)
  BY <1>4, <1>5, <1>8 DEF Behind
<1>9. CursorInv'
  <2>1. CursorOK(s)'
    <3>1. inv' \in Inventories
      BY <1>1 DEF CursorInv
    <3>2. n < 8 => Len(Objects(ResourceNames[n + 1])) \in Nat
      BY <1>3, ObjectTypes DEF CursorInv
    <3>3. Group(s)' = ResourceNames[n + 1] /\ (Objects(Group(s)))' = Objects(ResourceNames[n + 1])
      BY <1>1, <1>5 DEF Group, Objects
    <3>4. Built(s)' <=> n = Methods(s)
      BY <1>5 DEF Built
    <3>5. Methods(s) \in 3..8
      BY Groups8
    <3> QED
      BY <1>2, <1>3, <1>5, <3>2, <3>3, <3>4, <3>5 DEF CursorOK, Start
  <2>2. ASSUME NEW t \in Scopes, t # s PROVE CursorOK(t)'
    <3>1. CursorOK(t) /\ at'[t] = at[t] /\ stage'[t] = stage[t] /\ inv' = inv
      BY <1>1, <1>5, <2>2 DEF CursorInv
    <3> QED
      BY <3>1 DEF CursorOK, Built, Group, Objects, SchemaPasses, ObjectOf
  <2> QED
    BY <1>1, <1>5, <2>1, <2>2 DEF CursorInv
<1>10. \A t \in Scopes : Built(t) => Built(t)'
  BY <1>1, <1>5 DEF Built
<1> QED
  BY <1>1, <1>7, <1>8, <1>9, <1>10 DEF Rests

(* The walk begins with nothing behind it, ...                              *)
LEMMA WalkStarts == Init => CursorInv /\ \A s \in Scopes : \A n, i, k \in Nat : ~Behind(s, n, i, k)
<1> SUFFICES ASSUME Init PROVE CursorInv /\ \A s \in Scopes : \A n, i, k \in Nat :
    ~Behind(s, n, i, k)
  OBVIOUS
<1>1. /\ inv \in Inventories
      /\ \A s \in Scopes : stage[s] = 0 /\ at[s] = [object |-> 0, schema |-> 0]
      /\ stage \in [Scopes -> Nat] /\ at \in [Scopes -> [object : Nat, schema : Nat]]
      /\ DOMAIN ex = Scopes /\ DOMAIN report = Scopes
  BY DEF Init, Start
<1>2. \A s \in Scopes : CursorOK(s)
  <2> TAKE s \in Scopes
  <2>1. Methods(s) \in 3..8 /\ Group(s) = ResourceNames[1]
    BY <1>1, Groups8 DEF Group
  <2>2. Len(Objects(Group(s))) \in Nat
    BY <1>1, <2>1, ObjectTypes
  <2> QED
    BY <1>1, <2>1, <2>2 DEF CursorOK, Built
<1>3. \A s \in Scopes : \A n, i, k \in Nat : ~Behind(s, n, i, k)
  BY <1>1 DEF Behind, IsPass
<1> QED
  BY <1>1, <1>2, <1>3 DEF CursorInv

(* ... and each step takes one pass or none, for which the report has to be *)
(* due.                                                                     *)
LEMMA StepShape ==
    ASSUME CursorInv, [Next]_vars
    PROVE  /\ CursorInv'
           /\ \/ \E s \in Scopes : \E n, i, k \in Nat : Grows(s, n, i, k)
              \/ Rests /\ UNCHANGED report
              \/ Rests /\ \E s \in Scopes : NewReport(s)
<1>1. ASSUME NEW s \in Scopes, NEW groups, NEW added, AddNext(s, groups, added),
             added = Contribution(s, stage[s] + 1, at[s].object + 1, 0)
      PROVE  CursorInv' /\ \E n, i, k \in Nat : Grows(s, n, i, k)
  <2>1. stage[s] + 1 \in Nat /\ at[s].object + 1 \in Nat
    BY DEF CursorInv
  <2>2. \A t \in Scopes : Built(t) => Built(t)'
    BY <1>1 DEF AddNext, Built
  <2>3. Grows(s, stage[s] + 1, at[s].object + 1, 0)
    BY <1>1, <2>2, AddNextShape DEF Grows, AddNext
  <2> QED
    BY <1>1, <2>1, <2>3, AddNextShape
<1>2. ASSUME NEW s \in Scopes, NEW groups, NEW added, AddNext(s, groups, added)
      PROVE  /\ stage[s] + 1 \in 1..8 /\ Group(s) = ResourceNames[stage[s] + 1]
             /\ Group(s) \in groups
             /\ Upcoming(s) = ObjectOf(stage[s] + 1, at[s].object + 1)
  <2>1. stage[s] + 1 \in 1..Methods(s)
    BY <1>2, AddNextShape DEF IsPass
  <2>2. stage[s] + 1 \in 1..8
    BY <2>1, Groups8
  <2>3. Group(s) \in groups
    BY <1>2 DEF AddNext
  <2> QED
    BY <1>2, <2>2, <2>3, AddNextShape
<1>3. ASSUME NEW s \in Scopes, BuildSecurables(s)
      PROVE  CursorInv' /\ \E n, i, k \in Nat : Grows(s, n, i, k)
  <2>1. stage[s] + 1 \in 1..3
    BY <1>2, <1>3, Groups8 DEF BuildSecurables
  <2>2. SecurablePart(s, Group(s), Upcoming(s))
          = Contribution(s, stage[s] + 1, at[s].object + 1, 0)
    BY <1>2, <1>3, <2>1 DEF BuildSecurables, Contribution
  <2> QED
    BY <1>1, <1>3, <2>2 DEF BuildSecurables
<1>4. ASSUME NEW s \in Scopes, BuildIdentified(s)
      PROVE  CursorInv' /\ \E n, i, k \in Nat : Grows(s, n, i, k)
  <2>1. stage[s] + 1 \in 4..6
    BY <1>2, <1>4, Groups8 DEF BuildIdentified
  <2>2. IdentifiedPart(Group(s), Upcoming(s))
          = Contribution(s, stage[s] + 1, at[s].object + 1, 0)
    BY <1>2, <1>4, <2>1 DEF BuildIdentified, Contribution
  <2> QED
    BY <1>1, <1>4, <2>2 DEF BuildIdentified
<1>5. ASSUME NEW s \in Scopes, BuildSecretScopes(s)
      PROVE  CursorInv' /\ \E n, i, k \in Nat : Grows(s, n, i, k)
  <2>1. stage[s] + 1 = 7
    BY <1>2, <1>5, Groups8 DEF BuildSecretScopes
  <2>2. SecretScopePart(Upcoming(s)) = Contribution(s, stage[s] + 1, at[s].object + 1, 0)
    BY <1>2, <1>5, <2>1 DEF BuildSecretScopes, Contribution
  <2> QED
    BY <1>1, <1>5, <2>2 DEF BuildSecretScopes
<1>6. ASSUME NEW s \in Scopes, BuildServicePrincipals(s)
      PROVE  CursorInv' /\ \E n, i, k \in Nat : Grows(s, n, i, k)
  <2>1. stage[s] + 1 = 8
    BY <1>2, <1>6, Groups8 DEF BuildServicePrincipals
  <2>2. ServicePrincipalPart(Upcoming(s)) = Contribution(s, stage[s] + 1, at[s].object + 1, 0)
    BY <1>2, <1>6, <2>1 DEF BuildServicePrincipals, Contribution
  <2> QED
    BY <1>1, <1>6, <2>2 DEF BuildServicePrincipals
<1>7. ASSUME NEW s \in Scopes, BuildSchemas(s)
      PROVE  CursorInv' /\ \E n, i, k \in Nat : Grows(s, n, i, k)
  <2> DEFINE n == stage[s] + 1
             i == at[s].object
             k == at[s].schema + 1
  <2>1. n \in Nat /\ i \in Nat /\ k \in Nat /\ k # 0
    BY DEF CursorInv
  <2>2. SchemaPart(InHand(s), InHand(s).schemas[k]) = Contribution(s, n, i, k)
    BY <1>7, <2>1, BuildSchemasShape DEF Contribution
  <2>3. \A t \in Scopes : Built(t) => Built(t)'
    BY <1>7 DEF BuildSchemas, Built
  <2>4. Grows(s, n, i, k)
    BY <1>7, <2>2, <2>3, BuildSchemasShape DEF Grows, BuildSchemas
  <2> QED
    BY <1>7, <2>1, <2>4, BuildSchemasShape
<1>8. ASSUME UNCHANGED <<inv, stage, at>>
      PROVE  /\ \A t \in Scopes : CursorOK(t)' <=> CursorOK(t)
             /\ \A t \in Scopes : \A m, j, l \in Nat : Behind(t, m, j, l)' <=> Behind(t, m, j, l)
             /\ \A t \in Scopes : Built(t) => Built(t)'
  BY <1>8 DEF CursorOK, Built, Group, Behind, IsPass, SchemaPasses, ObjectOf, Objects
<1>9. ASSUME NEW s \in Scopes, NewReport(s) PROVE CursorInv' /\ Rests
  BY <1>8, <1>9 DEF NewReport, CursorInv, Rests
<1>10. CASE UNCHANGED vars
  BY <1>8, <1>10 DEF vars, CursorInv, Rests
<1>11. CASE Next
  BY <1>3, <1>4, <1>5, <1>6, <1>7, <1>9, <1>10, <1>11, NextMethodShape
     DEF Next, Finished, NextMethod
<1> QED
  BY <1>10, <1>11 DEF vars

-----------------------------------------------------------------------------
(* What is behind the cursor is what the exports hold.                      *)
HoldsOnly ==
    \A s \in Scopes :
      /\ \A r \in ex[s].rows :
           \E n, i, k \in Nat : Behind(s, n, i, k) /\ r \in Contribution(s, n, i, k).rows
      /\ \A x \in ex[s].excluded :
           \E n, i, k \in Nat : Behind(s, n, i, k) /\ x \in Contribution(s, n, i, k).excluded

HoldsAll ==
    \A s \in Scopes : \A n, i, k \in Nat : Behind(s, n, i, k) =>
      /\ Contribution(s, n, i, k).rows \subseteq ex[s].rows
      /\ Contribution(s, n, i, k).excluded \subseteq ex[s].excluded
      /\ ex[s].issues = 0 => Contribution(s, n, i, k).issues = 0

CountsIssues == \A s \in Scopes : ex[s].issues \in Nat

(* A report is of the whole export, which then stays as it is.              *)
ReportInv ==
    \A s \in Scopes : report[s] # NoReport =>
      /\ Built(s)
      /\ report[s].status = IF inv.issues + ex[s].issues > 0 THEN "partial" ELSE "complete"
      /\ report[s].excluded = ex[s].excluded

WalkInv == CursorInv /\ HoldsOnly /\ HoldsAll /\ CountsIssues /\ ReportInv

(* What Add does, field by field.                                           *)
LEMMA AddFields ==
    ASSUME NEW e, NEW f
    PROVE  /\ Add(e, f).rows = e.rows \cup f.rows
           /\ Add(e, f).imports = e.imports \o f.imports
           /\ Add(e, f).excluded = e.excluded \cup f.excluded
           /\ Add(e, f).issues = e.issues + f.issues
BY DEF Add

(* What the smallest exports hold.                                          *)
LEMMA EntriesFields ==
    ASSUME NEW rows, NEW imports
    PROVE  /\ Entries(rows, imports).rows = rows
           /\ Entries(rows, imports).imports = imports
           /\ Entries(rows, imports).excluded = {}
           /\ Entries(rows, imports).issues = 0
           /\ EmptyExport.rows = {} /\ EmptyExport.imports = <<>>
           /\ EmptyExport.excluded = {} /\ EmptyExport.issues = 0
           /\ Issue.rows = {} /\ Issue.imports = <<>> /\ Issue.excluded = {} /\ Issue.issues = 1
BY DEF Entries, Issue, EmptyExport

LEMMA ExclusionFields ==
    ASSUME NEW table, NEW o
    PROVE  /\ Exclusion(table, o).rows = {} /\ Exclusion(table, o).imports = <<>>
           /\ Exclusion(table, o).issues = 0
           /\ Exclusion(table, o).excluded = IF o.owner \in Scopes
                                               THEN {<<Module[table], o.name, o.owner>>} ELSE {}
BY DEF Exclusion, EmptyExport

(* The rows of an object by what they stand for.                            *)
OwnRows(table, key) == {Row(table, "settings", key, Blank)}

AccessRows(table, key, grants) ==
    IF grants = Fail THEN {} ELSE {Row(table, "access", key, p) : p \in grants \cup {Blank}}

BindingRows(table, o) ==
    {Row("workspace_bindings", "settings", BindingKey(o.bindings[i], table, o), Blank) :
        i \in DOMAIN o.bindings}

PermissionRows(table, o) == {Row(table, "permissions", o.name, p) : p \in o.permissions}

Acls(o) == IF o.acls = Fail THEN <<>> ELSE o.acls

AclRows(o) == {Row("secret_scopes", "acls", o.name, p) : p \in ToSet(Acls(o)) \ {Blank}}

NoPrincipal(o) == Cardinality({i \in DOMAIN Acls(o) : Acls(o)[i] = Blank})

LEMMA ObjectFields ==
    ASSUME NEW table, NEW key
    PROVE  /\ AddObject(table, key).rows = OwnRows(table, key)
           /\ AddObject(table, key).excluded = {} /\ AddObject(table, key).issues = 0
<1> DEFINE own == OwnRows(table, key)
           block == <<Address(Module[table], key, Resource[table], Blank)>>
<1>1. AddObject(table, key) = Entries(own, block)
  BY DEF AddObject, OwnRows
<1> HIDE DEF own, block
<1>2. /\ Entries(own, block).rows = own /\ Entries(own, block).excluded = {}
      /\ Entries(own, block).issues = 0
  BY EntriesFields
<1> QED
  BY <1>1, <1>2 DEF own

LEMMA AccessFields ==
    ASSUME NEW table, NEW key, NEW grants
    PROVE  /\ AddAccess(table, key, grants).rows = AccessRows(table, key, grants)
           /\ AddAccess(table, key, grants).excluded = {}
           /\ AddAccess(table, key, grants).issues = 0
<1> DEFINE rows == {Row(table, "access", key, p) : p \in grants \cup {Blank}}
           imports == IF grants \ {Blank} = {} THEN <<>>
                      ELSE <<Address(Module[table], key, "databricks_grants", "0")>>
<1>1. /\ AddAccess(table, key, grants) =
           IF grants = Fail THEN EmptyExport ELSE Entries(rows, imports)
      /\ AccessRows(table, key, grants) = IF grants = Fail THEN {} ELSE rows
  BY DEF AddAccess, AccessRows
<1> HIDE DEF rows, imports
<1>2. /\ Entries(rows, imports).rows = rows /\ Entries(rows, imports).excluded = {}
      /\ Entries(rows, imports).issues = 0
      /\ EmptyExport.rows = {} /\ EmptyExport.excluded = {} /\ EmptyExport.issues = 0
  BY EntriesFields
<1> QED
  BY <1>1, <1>2

LEMMA BindingsFields ==
    ASSUME NEW table, NEW o
    PROVE  /\ AddBindings(table, o).rows = BindingRows(table, o)
           /\ AddBindings(table, o).excluded = {} /\ AddBindings(table, o).issues = 0
<1> DEFINE rows == BindingRows(table, o)
           imports == [i \in DOMAIN o.bindings |->
                         Address("workspace_binding", BindingKey(o.bindings[i], table, o),
                                 Resource.workspace_bindings, Blank)]
<1>1. AddBindings(table, o) = Entries(rows, imports)
  BY DEF AddBindings, BindingRows
<1> HIDE DEF rows, imports
<1>2. /\ Entries(rows, imports).rows = rows /\ Entries(rows, imports).excluded = {}
      /\ Entries(rows, imports).issues = 0
  BY EntriesFields
<1> QED
  BY <1>1, <1>2 DEF rows

(* The parts of a securable, of a schema, ...                               *)
LEMMA SecurableFields ==
    ASSUME NEW s, NEW table, NEW o
    PROVE  /\ SecurablePart(s, table, o).issues = 0
           /\ InScope(s, o) =>
                /\ SecurablePart(s, table, o).excluded = {}
                /\ SecurablePart(s, table, o).rows =
                     OwnRows(table, o.name) \cup BindingRows(table, o)
                       \cup AccessRows(table, o.name, o.grants)
           /\ ~InScope(s, o) =>
                /\ SecurablePart(s, table, o).rows = {}
                /\ SecurablePart(s, table, o).excluded = Exclusion(table, o).excluded
<1> DEFINE a == AddObject(table, o.name)
           b == AddBindings(table, o)
           g == AddAccess(table, o.name, o.grants)
<1>1. a.rows = OwnRows(table, o.name) /\ a.excluded = {} /\ a.issues = 0
  BY ObjectFields
<1>2. b.rows = BindingRows(table, o) /\ b.excluded = {} /\ b.issues = 0
  BY BindingsFields
<1>3. g.rows = AccessRows(table, o.name, o.grants) /\ g.excluded = {} /\ g.issues = 0
  BY AccessFields
<1>4. SecurablePart(s, table, o) =
        IF ~InScope(s, o) THEN Exclusion(table, o) ELSE Add(Add(a, b), g)
  BY DEF SecurablePart
<1> HIDE DEF a, b, g
<1>5. /\ Add(a, b).rows = a.rows \cup b.rows
      /\ Add(a, b).excluded = {} /\ Add(a, b).issues = 0
  BY <1>1, <1>2 DEF Add
<1>6. /\ Add(Add(a, b), g).rows = a.rows \cup b.rows \cup g.rows
      /\ Add(Add(a, b), g).excluded = {} /\ Add(Add(a, b), g).issues = 0
  <2> DEFINE ab == Add(a, b)
  <2> HIDE DEF ab
  <2>1. /\ Add(ab, g).rows = ab.rows \cup g.rows
        /\ Add(ab, g).excluded = ab.excluded \cup g.excluded
        /\ Add(ab, g).issues = ab.issues + g.issues
    BY DEF Add
  <2> QED
    BY <1>3, <1>5, <2>1 DEF ab
<1>7. Exclusion(table, o).rows = {} /\ Exclusion(table, o).issues = 0
  BY ExclusionFields
<1> QED
  BY <1>1, <1>2, <1>3, <1>4, <1>6, <1>7

LEMMA SchemaFields ==
    ASSUME NEW o, NEW schema
    PROVE  /\ SchemaPart(o, schema).excluded = {}
           /\ schema.name = Blank => SchemaPart(o, schema).rows = {}
                  /\ SchemaPart(o, schema).issues = 1
           /\ schema.name # Blank =>
                /\ SchemaPart(o, schema).issues = 0
                /\ SchemaPart(o, schema).rows =
                     OwnRows("schemas", FullName(o, schema))
                       \cup AccessRows("schemas", FullName(o, schema), schema.grants)
<1> DEFINE a == AddObject("schemas", FullName(o, schema))
           g == AddAccess("schemas", FullName(o, schema), schema.grants)
<1>1. /\ a.rows = OwnRows("schemas", FullName(o, schema))
      /\ a.excluded = {} /\ a.issues = 0
  BY ObjectFields
<1>2. /\ g.rows = AccessRows("schemas", FullName(o, schema), schema.grants)
      /\ g.excluded = {} /\ g.issues = 0
  BY AccessFields
<1>3. SchemaPart(o, schema) = IF schema.name = Blank THEN Issue ELSE Add(a, g)
  BY DEF SchemaPart
<1> HIDE DEF a, g
<1>4. Add(a, g).rows = a.rows \cup g.rows /\ Add(a, g).excluded = {} /\ Add(a, g).issues = 0
  BY <1>1, <1>2 DEF Add
<1>5. Issue.rows = {} /\ Issue.excluded = {} /\ Issue.issues = 1
  BY EntriesFields
<1> QED
  BY <1>1, <1>2, <1>3, <1>4, <1>5

(* ... of a policy, pool or warehouse, ...                                  *)
Whole(o) == o.name # Blank /\ o.id # Blank /\ o.valid

LEMMA IdentifiedFields ==
    ASSUME NEW table, NEW o \in IdentifiedInfo
    PROVE  /\ IdentifiedPart(table, o).excluded = {}
           /\ ~Whole(o) => IdentifiedPart(table, o).rows = {} /\ IdentifiedPart(table, o).issues = 1
           /\ Whole(o) => /\ IdentifiedPart(table, o).issues = 0
                          /\ IdentifiedPart(table, o).rows =
                               OwnRows(table, o.name) \cup PermissionRows(table, o)
<1> DEFINE a == AddObject(table, o.name)
           rows == PermissionRows(table, o)
           imports == IF o.permissions = {} THEN <<>>
                      ELSE <<Address(Module[table], o.name, "databricks_permissions", "0")>>
           f == Entries(rows, imports)
<1>1. a.rows = OwnRows(table, o.name) /\ a.excluded = {} /\ a.issues = 0
  BY ObjectFields
<1>2. IdentifiedPart(table, o) = IF ~Whole(o) THEN Issue ELSE Add(a, f)
  <2>1. o.valid \in BOOLEAN
    BY DEF IdentifiedInfo
  <2> QED
    BY <2>1 DEF IdentifiedPart, PermissionRows, Whole
<1> HIDE DEF a, rows, imports
<1>3. f.rows = rows /\ f.excluded = {} /\ f.issues = 0
  BY EntriesFields
<1> HIDE DEF f
<1>4. Add(a, f).rows = a.rows \cup f.rows /\ Add(a, f).excluded = {} /\ Add(a, f).issues = 0
  BY <1>1, <1>3 DEF Add
<1>5. Issue.rows = {} /\ Issue.excluded = {} /\ Issue.issues = 1
  BY EntriesFields
<1> QED
  BY <1>1, <1>2, <1>3, <1>4, <1>5 DEF rows

(* ... of a secret scope and of a service principal.                        *)
LEMMA SecretScopeFields ==
    ASSUME NEW o \in SecretScopeInfo
    PROVE  /\ SecretScopePart(o).excluded = {}
           /\ SecretScopePart(o).rows = OwnRows("secret_scopes", o.name) \cup AclRows(o)
           /\ SecretScopePart(o).issues = NoPrincipal(o)
           /\ NoPrincipal(o) \in Nat
<1> DEFINE a == AddObject("secret_scopes", o.name)
           rows == AclRows(o)
           principals == SetToSeq(ToSet(Acls(o)) \ {Blank})
           imports == [i \in DOMAIN principals |->
                         Address("secret_scope", o.name, "databricks_secret_acl", principals[i])]
           number == NoPrincipal(o)
           f == [Entries(rows, imports) EXCEPT !.issues = number]
<1>1. Acls(o) \in Seq(STRING)
  <2>1. o.acls = Fail \/ o.acls \in Seq(STRING)
    BY DEF SecretScopeInfo
  <2>2. <<>> \in Seq(STRING)
    OBVIOUS
  <2> QED
    BY <2>1, <2>2 DEF Acls
<1>2. number \in Nat
  <2> DEFINE acls == Acls(o)
  <2> HIDE DEF acls
  <2>1. IsFiniteSet(1..Len(acls)) /\ DOMAIN acls = 1..Len(acls)
    BY <1>1, FS_Interval DEF acls
  <2>2. IsFiniteSet({i \in DOMAIN acls : acls[i] = Blank})
    BY <2>1, FS_Subset
  <2> QED
    BY <2>2, FS_CardinalityType DEF NoPrincipal, acls
<1>3. a.rows = OwnRows("secret_scopes", o.name) /\ a.excluded = {} /\ a.issues = 0
  BY ObjectFields
<1>4. SecretScopePart(o) = Add(a, f)
  BY DEF SecretScopePart, Acls, AclRows, NoPrincipal
<1> HIDE DEF a, rows, imports, number
<1>5. f.rows = rows /\ f.excluded = {} /\ f.issues = number
  BY DEF Entries, EmptyExport
<1> HIDE DEF f
<1>6. /\ Add(a, f).rows = a.rows \cup f.rows /\ Add(a, f).excluded = {}
      /\ Add(a, f).issues = number
  BY <1>2, <1>3, <1>5 DEF Add
<1> QED
  BY <1>2, <1>3, <1>4, <1>5, <1>6 DEF rows, number

LEMMA ServicePrincipalFields ==
    ASSUME NEW o
    PROVE  /\ ServicePrincipalPart(o).excluded = {}
           /\ o.name = Blank \/ o.id = Blank =>
                ServicePrincipalPart(o).rows = {} /\ ServicePrincipalPart(o).issues = 1
           /\ o.name # Blank /\ o.id # Blank =>
                /\ ServicePrincipalPart(o).rows = OwnRows("service_principals", o.name)
                /\ ServicePrincipalPart(o).issues = 0
<1> DEFINE a == AddObject("service_principals", o.name)
<1>1. a.rows = OwnRows("service_principals", o.name) /\ a.excluded = {} /\ a.issues = 0
  BY ObjectFields
<1>2. ServicePrincipalPart(o) = IF o.name = Blank \/ o.id = Blank THEN Issue ELSE a
  BY DEF ServicePrincipalPart
<1> HIDE DEF a
<1>3. Issue.rows = {} /\ Issue.excluded = {} /\ Issue.issues = 1
  BY EntriesFields
<1> QED
  BY <1>1, <1>2, <1>3

(* A pass adds a number of issues.                                          *)
LEMMA ContributedIssues ==
    ASSUME inv \in Inventories, NEW s \in Scopes, NEW n \in Nat, NEW i \in Nat, NEW k \in Nat,
           IsPass(s, n, i, k)
    PROVE  Contribution(s, n, i, k).issues \in Nat
<1> DEFINE o == ObjectOf(n, i)
           g == ResourceNames[n]
<1>1. n \in 1..8 /\ i \in DOMAIN Objects(g)
  <2>1. n \in 1..Methods(s) /\ Methods(s) \in 3..8 /\ i \in 1..Len(Objects(g))
    BY Groups8 DEF IsPass
  <2>2. n \in 1..8
    BY <2>1
  <2> QED
    BY <2>1, <2>2, ObjectTypes
<1>2. CASE k # 0
  <2> DEFINE schema == o.schemas[k]
  <2>1. Contribution(s, n, i, k) = SchemaPart(o, schema)
    BY <1>2 DEF Contribution
  <2> HIDE DEF o, schema
  <2>2. SchemaPart(o, schema).issues \in {0, 1}
    BY SchemaFields
  <2> QED
    BY <2>1, <2>2
<1>3. CASE k = 0 /\ n \in 1..3
  <2>1. Contribution(s, n, i, k) = SecurablePart(s, g, o)
    BY <1>3 DEF Contribution
  <2> QED
    BY <2>1, SecurableFields
<1>4. CASE k = 0 /\ n \in 4..6
  <2>1. Contribution(s, n, i, k) = IdentifiedPart(g, o) /\ o \in IdentifiedInfo
    BY <1>1, <1>4, ObjectTypes DEF Contribution, ObjectOf
  <2> QED
    BY <2>1, IdentifiedFields
<1>5. CASE k = 0 /\ n = 7
  <2>1. Contribution(s, n, i, k) = SecretScopePart(o) /\ o \in SecretScopeInfo
    BY <1>1, <1>5, ObjectTypes DEF Contribution, ObjectOf
  <2> QED
    BY <2>1, SecretScopeFields
<1>6. CASE k = 0 /\ n = 8
  <2>1. Contribution(s, n, i, k) = ServicePrincipalPart(o)
    BY <1>6 DEF Contribution
  <2> HIDE DEF o
  <2>2. ServicePrincipalPart(o).issues \in {0, 1}
    BY ServicePrincipalFields
  <2> QED
    BY <2>1, <2>2
<1> QED
  BY <1>1, <1>2, <1>3, <1>4, <1>5, <1>6

-----------------------------------------------------------------------------
(* A pass contributes the same at any time.                                 *)
LEMMA ContributionStays ==
    ASSUME inv' = inv
    PROVE  \A s, n, i, k : Contribution(s, n, i, k)' = Contribution(s, n, i, k)
BY DEF Contribution, ObjectOf, Objects

LEMMA WalkInvStarts == Init => WalkInv
<1> SUFFICES ASSUME Init PROVE WalkInv
  OBVIOUS
<1>1. \A s \in Scopes : ex[s].rows = {} /\ ex[s].excluded = {} /\ ex[s].issues = 0
  BY EntriesFields DEF Init
<1>2. \A s \in Scopes : report[s] = NoReport
  BY DEF Init
<1> QED
  BY <1>1, <1>2, WalkStarts DEF WalkInv, HoldsOnly, HoldsAll, CountsIssues, ReportInv

(* ... and a step keeps the exports in line with the cursor.                *)
LEMMA WalkInvGrows ==
    ASSUME WalkInv, NEW s \in Scopes, NEW n \in Nat, NEW i \in Nat, NEW k \in Nat,
           Grows(s, n, i, k)
    PROVE  HoldsOnly' /\ HoldsAll' /\ CountsIssues' /\ ReportInv'
<1> DEFINE c == Contribution(s, n, i, k)
<1>1. /\ IsPass(s, n, i, k) /\ ~Built(s)
      /\ DOMAIN ex = Scopes /\ ex' = [ex EXCEPT ![s] = Add(ex[s], c)]
      /\ inv' = inv /\ report' = report
  BY DEF Grows, WalkInv, CursorInv
<1>2. \A t \in Scopes : \A m, j, l \in Nat :
        Behind(t, m, j, l)' <=> Behind(t, m, j, l) \/ (t = s /\ m = n /\ j = i /\ l = k)
  BY DEF Grows
<1>3. \A t, m, j, l : Contribution(t, m, j, l)' = Contribution(t, m, j, l)
  BY <1>1, ContributionStays
<1>4. c.issues \in Nat
  BY <1>1, ContributedIssues DEF WalkInv, CursorInv
<1> HIDE DEF c
<1>5. /\ ex'[s].rows = ex[s].rows \cup c.rows
      /\ ex'[s].excluded = ex[s].excluded \cup c.excluded
      /\ ex'[s].issues = ex[s].issues + c.issues
      /\ \A t \in Scopes \ {s} : ex'[t] = ex[t]
  <2>1. ex'[s] = Add(ex[s], c) /\ \A t \in Scopes \ {s} : ex'[t] = ex[t]
    BY <1>1
  <2> QED
    BY <2>1 DEF Add
<1>6. HoldsOnly'
  <2> SUFFICES ASSUME NEW t \in Scopes
               PROVE  /\ \A r \in ex'[t].rows : \E m, j, l \in Nat :
                           Behind(t, m, j, l)' /\ r \in Contribution(t, m, j, l).rows
                      /\ \A x \in ex'[t].excluded : \E m, j, l \in Nat :
                           Behind(t, m, j, l)' /\ x \in Contribution(t, m, j, l).excluded
    BY <1>3 DEF HoldsOnly
  <2>1. /\ \A r \in ex[t].rows : \E m, j, l \in Nat :
             Behind(t, m, j, l) /\ r \in Contribution(t, m, j, l).rows
        /\ \A x \in ex[t].excluded : \E m, j, l \in Nat :
             Behind(t, m, j, l) /\ x \in Contribution(t, m, j, l).excluded
    BY DEF WalkInv, HoldsOnly
  <2>2. Behind(s, n, i, k)'
    BY <1>2
  <2> QED
    BY <1>2, <1>5, <2>1, <2>2 DEF c
<1>7. HoldsAll'
  <2> SUFFICES ASSUME NEW t \in Scopes, NEW m \in Nat, NEW j \in Nat, NEW l \in Nat,
                      Behind(t, m, j, l)'
               PROVE  /\ Contribution(t, m, j, l).rows \subseteq ex'[t].rows
                      /\ Contribution(t, m, j, l).excluded \subseteq ex'[t].excluded
                      /\ ex'[t].issues = 0 => Contribution(t, m, j, l).issues = 0
    BY <1>3 DEF HoldsAll
  <2>1. ex[t].issues \in Nat
    BY DEF WalkInv, CountsIssues
  <2>2. CASE t = s /\ m = n /\ j = i /\ l = k
    BY <1>4, <1>5, <2>1, <2>2 DEF c
  <2>3. CASE Behind(t, m, j, l)
    <3>1. /\ Contribution(t, m, j, l).rows \subseteq ex[t].rows
          /\ Contribution(t, m, j, l).excluded \subseteq ex[t].excluded
          /\ ex[t].issues = 0 => Contribution(t, m, j, l).issues = 0
      BY <2>3 DEF WalkInv, HoldsAll
    <3> QED
      BY <1>4, <1>5, <2>1, <3>1
  <2> QED
    BY <1>2, <2>2, <2>3
<1>8. CountsIssues'
  BY <1>4, <1>5 DEF WalkInv, CountsIssues
<1>9. ReportInv'
  <2> SUFFICES ASSUME NEW t \in Scopes, report'[t] # NoReport
               PROVE  /\ Built(t)'
                      /\ report'[t].status =
                           IF inv'.issues + ex'[t].issues > 0 THEN "partial" ELSE "complete"
                      /\ report'[t].excluded = ex'[t].excluded
    BY DEF ReportInv
  <2>1. /\ Built(t)
        /\ report[t].status = IF inv.issues + ex[t].issues > 0 THEN "partial" ELSE "complete"
        /\ report[t].excluded = ex[t].excluded
    BY <1>1 DEF WalkInv, ReportInv
  <2>2. t # s /\ ex'[t] = ex[t]
    BY <1>1, <1>5, <2>1
  <2>3. Built(t)'
    BY <2>1 DEF Grows
  <2> QED
    BY <1>1, <2>1, <2>2, <2>3
<1> QED
  BY <1>6, <1>7, <1>8, <1>9

LEMMA WalkInvRests ==
    ASSUME WalkInv, CursorInv', Rests,
           UNCHANGED report \/ \E s \in Scopes : NewReport(s)
    PROVE  WalkInv'
<1>1. inv' = inv /\ ex' = ex
  BY DEF Rests
<1>2. \A t \in Scopes : \A m, j, l \in Nat : Behind(t, m, j, l)' <=> Behind(t, m, j, l)
  BY DEF Rests
<1>3. \A t, m, j, l : Contribution(t, m, j, l)' = Contribution(t, m, j, l)
  BY <1>1, ContributionStays
<1>4. HoldsOnly'
  BY <1>1, <1>2, <1>3 DEF WalkInv, HoldsOnly
<1>5. HoldsAll'
  BY <1>1, <1>2, <1>3 DEF WalkInv, HoldsAll
<1>6. CountsIssues'
  BY <1>1 DEF WalkInv, CountsIssues
<1>7. ReportInv'
  <2>1. \A t \in Scopes : Built(t) => Built(t)'
    BY DEF Rests
  <2>2. ASSUME NEW t \in Scopes, report'[t] = report[t], report'[t] # NoReport
        PROVE  /\ Built(t)'
               /\ report'[t].status =
                    IF inv'.issues + ex'[t].issues > 0 THEN "partial" ELSE "complete"
               /\ report'[t].excluded = ex'[t].excluded
    BY <1>1, <2>1, <2>2 DEF WalkInv, ReportInv
  <2>3. ASSUME NEW t \in Scopes, NewReport(t)
        PROVE  /\ Built(t)'
               /\ report'[t].status =
                    IF inv'.issues + ex'[t].issues > 0 THEN "partial" ELSE "complete"
               /\ report'[t].excluded = ex'[t].excluded
               /\ \A u \in Scopes \ {t} : report'[u] = report[u]
    <3>1. Built(t) /\ DOMAIN report = Scopes
      BY <2>3 DEF NewReport, WalkInv, CursorInv
    <3> QED
      BY <1>1, <2>1, <2>3, <3>1 DEF NewReport
  <2> QED
    BY <2>2, <2>3 DEF ReportInv
<1> QED
  BY <1>4, <1>5, <1>6, <1>7 DEF WalkInv

LEMMA WalkInvStep == WalkInv /\ [Next]_vars => WalkInv'
<1> SUFFICES ASSUME WalkInv, [Next]_vars PROVE WalkInv'
  OBVIOUS
<1>1. CursorInv
  BY DEF WalkInv
<1>2. CASE \E s \in Scopes : \E n, i, k \in Nat : Grows(s, n, i, k)
  BY <1>1, <1>2, StepShape, WalkInvGrows DEF WalkInv
<1>3. CASE Rests /\ UNCHANGED report
  BY <1>1, <1>3, StepShape, WalkInvRests
<1>4. CASE Rests /\ \E s \in Scopes : NewReport(s)
  BY <1>1, <1>4, StepShape, WalkInvRests
<1> QED
  BY <1>1, <1>2, <1>3, <1>4, StepShape

(* The command adds steps of its own, which leave the builder alone.        *)
LEMMA RootSteps == [RootNext]_<<vars, rootVars>> => [Next]_vars
<1> SUFFICES ASSUME RootNext PROVE [Next]_vars
  BY DEF vars
<1>1. CASE Next /\ UNCHANGED rootVars
  BY <1>1
<1>2. ASSUME NEW s \in Scopes, Prepare(s) PROVE UNCHANGED vars
  BY <1>2 DEF Prepare, vars
<1>3. CASE ResolveVersions
  BY <1>3 DEF ResolveVersions, vars
<1>4. CASE RenderFiles
  BY <1>4 DEF RenderFiles, vars
<1> QED
  BY <1>1, <1>2, <1>3, <1>4 DEF RootNext

(* What an export holds is what the objects taken so far contribute.        *)
THEOREM Walk == RootSpec => []WalkInv
<1>1. RootInit => WalkInv
  BY WalkInvStarts DEF RootInit
<1>2. WalkInv /\ [RootNext]_<<vars, rootVars>> => WalkInv'
  BY WalkInvStep, RootSteps
<1> QED
  BY <1>1, <1>2, PTL DEF RootSpec

-----------------------------------------------------------------------------
(* The rows that a pass contributes: those of its object, ...               *)
ObjectRow(s, n, i, r) ==
    LET o == ObjectOf(n, i) IN
    /\ r.table = ResourceNames[n] /\ r.key = o.name /\ o.name # Blank
    /\ n \in 1..3 => InScope(s, o)
    /\ \/ r.part = "settings" /\ r.item = Blank
       \/ n \in 1..3 /\ r.part = "access" /\ o.grants # Fail /\ r.item \in o.grants \cup {Blank}
       \/ n \in 4..6 /\ r.part = "permissions" /\ r.item \in o.permissions
       \/ n = 7 /\ r.part = "acls" /\ r.item \in ToSet(Acls(o)) \ {Blank}

(* ... of its bindings, ...                                                 *)
BindingRow(s, n, i, r) ==
    LET o == ObjectOf(n, i) IN
    /\ n \in 1..3 /\ InScope(s, o)
    /\ r.table = "workspace_bindings" /\ r.part = "settings" /\ r.item = Blank
    /\ \E b \in DOMAIN o.bindings : r.key = BindingKey(o.bindings[b], ResourceNames[n], o)

(* ... and of one of its schemas.                                           *)
SchemaRow(s, n, i, k, r) ==
    LET o      == ObjectOf(n, i)
        schema == o.schemas[k]
    IN  /\ n = 1 /\ InScope(s, o) /\ schema.name # Blank
        /\ r.table = "schemas" /\ r.key = FullName(o, schema)
        /\ \/ r.part = "settings" /\ r.item = Blank
           \/ r.part = "access" /\ schema.grants # Fail /\ r.item \in schema.grants \cup {Blank}

(* The numbers of a pass.                                                   *)
LEMMA PassNumbers ==
    ASSUME inv \in Inventories, NEW s \in Scopes, NEW n \in Nat, NEW i \in Nat, NEW k \in Nat,
           IsPass(s, n, i, k)
    PROVE  /\ n \in 1..8 /\ i \in DOMAIN Objects(ResourceNames[n])
           /\ k # 0 => /\ n = 1 /\ InScope(s, ObjectOf(n, i))
                       /\ k \in 1..Len(ObjectOf(n, i).schemas)
<1>1. n \in 1..8 /\ i \in 1..Len(Objects(ResourceNames[n]))
  <2>1. n \in 1..Methods(s) /\ Methods(s) \in 3..8 /\ i \in 1..Len(Objects(ResourceNames[n]))
    BY Groups8 DEF IsPass
  <2> QED
    BY <2>1
<1>2. i \in DOMAIN Objects(ResourceNames[n])
  BY <1>1, ObjectTypes
<1>3. k \in 0..SchemaPasses(s, n, i) /\ SchemaPasses(s, n, i) \in Nat
  BY <1>1, SchemaPassesType DEF IsPass
<1> QED
  BY <1>1, <1>2, <1>3 DEF SchemaPasses

(* A row by what it stands for.                                             *)
LEMMA OwnRow ==
    ASSUME NEW table, NEW key, NEW r \in OwnRows(table, key)
    PROVE  r.table = table /\ r.part = "settings" /\ r.key = key /\ r.item = Blank
<1>1. r = Row(table, "settings", key, Blank)
  BY DEF OwnRows
<1> QED
  BY <1>1 DEF Row

LEMMA AccessRow ==
    ASSUME NEW table, NEW key, NEW grants, NEW r \in AccessRows(table, key, grants)
    PROVE  /\ grants # Fail
           /\ r.table = table /\ r.part = "access" /\ r.key = key /\ r.item \in grants \cup {Blank}
<1>1. grants # Fail
  BY DEF AccessRows
<1>2. PICK p \in grants \cup {Blank} : r = Row(table, "access", key, p)
  BY <1>1 DEF AccessRows
<1> QED
  BY <1>1, <1>2 DEF Row

LEMMA BindingsRow ==
    ASSUME NEW table, NEW o, NEW r \in BindingRows(table, o)
    PROVE  /\ r.table = "workspace_bindings" /\ r.part = "settings" /\ r.item = Blank
           /\ \E b \in DOMAIN o.bindings : r.key = BindingKey(o.bindings[b], table, o)
<1>1. PICK b \in DOMAIN o.bindings :
        r = Row("workspace_bindings", "settings", BindingKey(o.bindings[b], table, o), Blank)
  BY DEF BindingRows
<1> QED
  BY <1>1 DEF Row

LEMMA PermissionRow ==
    ASSUME NEW table, NEW o, NEW r \in PermissionRows(table, o)
    PROVE  r.table = table /\ r.part = "permissions" /\ r.key = o.name /\ r.item \in o.permissions
<1>1. PICK p \in o.permissions : r = Row(table, "permissions", o.name, p)
  BY DEF PermissionRows
<1> QED
  BY <1>1 DEF Row

LEMMA AclRow ==
    ASSUME NEW o, NEW r \in AclRows(o)
    PROVE  /\ r.table = "secret_scopes" /\ r.part = "acls" /\ r.key = o.name
           /\ r.item \in ToSet(Acls(o)) \ {Blank}
<1>1. PICK p \in ToSet(Acls(o)) \ {Blank} : r = Row("secret_scopes", "acls", o.name, p)
  BY DEF AclRows
<1> QED
  BY <1>1 DEF Row

LEMMA ContributedRows ==
    ASSUME inv \in Inventories, NEW s \in Scopes, NEW n \in Nat, NEW i \in Nat, NEW k \in Nat,
           IsPass(s, n, i, k), NEW r \in Contribution(s, n, i, k).rows
    PROVE  \/ k = 0 /\ ObjectRow(s, n, i, r)
           \/ k = 0 /\ BindingRow(s, n, i, r)
           \/ k # 0 /\ SchemaRow(s, n, i, k, r)
<1> DEFINE o == ObjectOf(n, i)
           g == ResourceNames[n]
           c == Contribution(s, n, i, k)
           name == o.name
<1>1. n \in 1..8 /\ i \in DOMAIN Objects(g)
  BY PassNumbers
<1>2. ASSUME k # 0 PROVE SchemaRow(s, n, i, k, r)
  <2> DEFINE schema == o.schemas[k]
             full == FullName(o, schema)
  <2>1. n = 1 /\ InScope(s, o)
    BY <1>2, PassNumbers
  <2>2. c = SchemaPart(o, schema)
    BY <1>2 DEF Contribution
  <2>3. SchemaRow(s, n, i, k, r) <=>
          /\ n = 1 /\ InScope(s, o) /\ schema.name # Blank
          /\ r.table = "schemas" /\ r.key = full
          /\ \/ r.part = "settings" /\ r.item = Blank
             \/ r.part = "access" /\ schema.grants # Fail /\ r.item \in schema.grants \cup {Blank}
    BY DEF SchemaRow
  <2> HIDE DEF o, schema
  <2>4. schema.name # Blank /\ r \in OwnRows("schemas", full)
            \cup AccessRows("schemas", full, schema.grants)
    <3>1. schema.name = Blank => c.rows = {}
      BY <2>2, SchemaFields
    <3>2. schema.name # Blank =>
            c.rows = OwnRows("schemas", full) \cup AccessRows("schemas", full, schema.grants)
      BY <2>2, SchemaFields
    <3> HIDE DEF full, c
    <3> QED
      BY <3>1, <3>2 DEF c
  <2> HIDE DEF full
  <2>5. CASE r \in OwnRows("schemas", full)
    <3>1. r.table = "schemas" /\ r.part = "settings" /\ r.key = full /\ r.item = Blank
      BY <2>5, OwnRow
    <3> QED
      BY <2>1, <2>3, <2>4, <3>1
  <2>6. CASE r \in AccessRows("schemas", full, schema.grants)
    <3>1. /\ schema.grants # Fail /\ r.table = "schemas" /\ r.part = "access" /\ r.key = full
          /\ r.item \in schema.grants \cup {Blank}
      BY <2>6, AccessRow
    <3> QED
      BY <2>1, <2>3, <2>4, <3>1
  <2> QED
    BY <2>4, <2>5, <2>6
<1>3. ASSUME k = 0, n \in 1..3 PROVE ObjectRow(s, n, i, r) \/ BindingRow(s, n, i, r)
  <2>1. c = SecurablePart(s, g, o)
    BY <1>3 DEF Contribution
  <2>2. name # Blank
    <3>1. o \in SecurableInfo
      BY <1>1, <1>3, ObjectTypes DEF ObjectOf
    <3> QED
      BY <3>1 DEF SecurableInfo
  <2> HIDE DEF o, g, name
  <2>3. /\ InScope(s, o)
        /\ r \in OwnRows(g, name) \cup BindingRows(g, o) \cup AccessRows(g, name, o.grants)
    BY <2>1, SecurableFields DEF name
  <2>4. CASE r \in BindingRows(g, o)
    <3>1. /\ r.table = "workspace_bindings" /\ r.part = "settings" /\ r.item = Blank
          /\ \E b \in DOMAIN o.bindings : r.key = BindingKey(o.bindings[b], g, o)
      BY <2>4, BindingsRow
    <3> QED
      BY <1>3, <2>3, <3>1 DEF BindingRow, o, g
  <2>5. CASE r \in OwnRows(g, name)
    <3>2. r.table = g /\ r.part = "settings" /\ r.item = Blank /\ r.key = name
      BY <2>2, <2>5, OwnRow
    <3> QED
      BY <1>3, <2>2, <2>3, <3>2 DEF ObjectRow, o, g, name
  <2>6. CASE r \in AccessRows(g, name, o.grants)
    <3>1. /\ o.grants # Fail
          /\ r.table = g /\ r.part = "access" /\ r.item \in o.grants \cup {Blank} /\ r.key = name
      BY <2>6, AccessRow
    <3> QED
      BY <1>3, <2>2, <2>3, <3>1 DEF ObjectRow, o, g, name
  <2> QED
    BY <2>3, <2>4, <2>5, <2>6
<1>4. ASSUME k = 0, n \in 4..6 PROVE ObjectRow(s, n, i, r)
  <2>1. c = IdentifiedPart(g, o) /\ o \in IdentifiedInfo
    BY <1>1, <1>4, ObjectTypes DEF Contribution, ObjectOf
  <2> HIDE DEF o, g, name
  <2>2. Whole(o) /\ r \in OwnRows(g, name) \cup PermissionRows(g, o)
    BY <2>1, IdentifiedFields DEF name
  <2>3. ~(n \in 1..3)
    BY <1>4
  <2>4. CASE r \in OwnRows(g, name)
    <3>2. r.table = g /\ r.part = "settings" /\ r.item = Blank /\ r.key = name
      BY <2>2, <2>4, OwnRow
    <3> QED
      BY <2>2, <2>3, <3>2 DEF ObjectRow, Whole, o, g, name
  <2>5. CASE r \in PermissionRows(g, o)
    <3>2. /\ r.table = g /\ r.part = "permissions" /\ r.key = name
          /\ r.item \in o.permissions
      BY <2>5, PermissionRow DEF name
    <3> QED
      BY <1>4, <2>2, <2>3, <3>2 DEF ObjectRow, Whole, o, g, name
  <2> QED
    BY <2>2, <2>4, <2>5
<1>5. ASSUME k = 0, n = 7 PROVE ObjectRow(s, n, i, r)
  <2>1. c = SecretScopePart(o) /\ o \in SecretScopeInfo
    BY <1>1, <1>5, ObjectTypes DEF Contribution, ObjectOf
  <2>2. g = "secret_scopes" /\ name # Blank
    <3>1. name # Blank
      BY <2>1 DEF SecretScopeInfo
    <3>2. g = "secret_scopes"
      BY <1>5, Groups8
    <3> QED
      BY <3>1, <3>2
  <2> HIDE DEF o, g, name
  <2>3. r \in OwnRows("secret_scopes", name) \cup AclRows(o)
    BY <2>1, SecretScopeFields DEF name
  <2>4. CASE r \in OwnRows("secret_scopes", name)
    <3>2. r.table = g /\ r.part = "settings" /\ r.item = Blank /\ r.key = name
      BY <2>2, <2>4, OwnRow
    <3> QED
      BY <1>5, <2>2, <3>2 DEF ObjectRow, o, g, name
  <2>5. CASE r \in AclRows(o)
    <3>2. /\ r.table = g /\ r.part = "acls" /\ r.key = name
          /\ r.item \in ToSet(Acls(o)) \ {Blank}
      BY <2>2, <2>5, AclRow DEF name
    <3> QED
      BY <1>5, <2>2, <3>2 DEF ObjectRow, o, g, name
  <2> QED
    BY <2>3, <2>4, <2>5
<1>6. ASSUME k = 0, n = 8 PROVE ObjectRow(s, n, i, r)
  <2>1. c = ServicePrincipalPart(o) /\ g = "service_principals"
    BY <1>6, Groups8 DEF Contribution
  <2> HIDE DEF o, g, name
  <2>2. name # Blank /\ r \in OwnRows("service_principals", name)
    BY <2>1, ServicePrincipalFields DEF name
  <2>4. r.table = g /\ r.part = "settings" /\ r.item = Blank /\ r.key = name
    BY <2>1, <2>2, OwnRow
  <2> QED
    BY <1>6, <2>2, <2>4 DEF ObjectRow, o, g, name
<1> QED
  BY <1>1, <1>2, <1>3, <1>4, <1>5, <1>6

-----------------------------------------------------------------------------
(* The import block that a row asks for.                                    *)
Asks(r, a) ==
    \/ r.part = "settings" /\ a = Address(Module[r.table], r.key, Resource[r.table], Blank)
    \/ r.part = "access" /\ r.item # Blank
         /\ a = Address(Module[r.table], r.key, "databricks_grants", "0")
    \/ r.part = "permissions" /\ a = Address(Module[r.table], r.key, "databricks_permissions", "0")
    \/ r.part = "acls" /\ a = Address(Module[r.table], r.key, "databricks_secret_acl", r.item)

LEMMA ExpectedByRow ==
    ASSUME NEW rows, NEW a
    PROVE  a \in Expected(rows) <=> \E r \in rows : Asks(r, a)
BY DEF Expected, Asks

LEMMA ExpectedUnion ==
    ASSUME NEW R, NEW S
    PROVE  Expected(R \cup S) = Expected(R) \cup Expected(S)
BY ExpectedByRow

(* The import blocks of an export are those that its rows ask for.          *)
Agrees(e) ==
    /\ e.imports \in Seq(Expected(e.rows))
    /\ \A a \in Expected(e.rows) : \E x \in DOMAIN e.imports : e.imports[x] = a

(* Sequences of blocks, one after the other.                                *)
LEMMA Concatenation ==
    ASSUME NEW S, NEW T, NEW p \in Seq(S), NEW q \in Seq(T)
    PROVE  /\ p \o q \in Seq(S \cup T)
           /\ DOMAIN p = 1..Len(p) /\ DOMAIN q = 1..Len(q) /\ Len(p) \in Nat /\ Len(q) \in Nat
           /\ DOMAIN (p \o q) = 1..(Len(p) + Len(q))
           /\ \A x \in 1..Len(p) : (p \o q)[x] = p[x]
           /\ \A x \in 1..Len(q) : (p \o q)[Len(p) + x] = q[x]
<1>1. p \in Seq(S \cup T) /\ q \in Seq(S \cup T)
  OBVIOUS
<1>2. /\ DOMAIN p = 1..Len(p) /\ DOMAIN q = 1..Len(q) /\ Len(p) \in Nat /\ Len(q) \in Nat
      /\ DOMAIN (p \o q) = 1..(Len(p) + Len(q))
  OBVIOUS
<1>3. \A x \in 1..Len(p) : (p \o q)[x] = p[x]
  BY <1>2
<1>4. \A x \in 1..Len(q) : (p \o q)[Len(p) + x] = q[x]
  BY <1>2
<1>5. p \o q \in Seq(S \cup T)
  BY <1>1
<1> QED
  BY <1>2, <1>3, <1>4, <1>5

LEMMA AgreesAdd ==
    ASSUME NEW e, NEW f, Agrees(e), Agrees(f)
    PROVE  Agrees(Add(e, f))
<1> DEFINE E == Expected(e.rows)
           F == Expected(f.rows)
           p == e.imports
           q == f.imports
<1>1. Add(e, f).imports = p \o q /\ Expected(Add(e, f).rows) = E \cup F
  BY ExpectedUnion DEF Add
<1>2. p \in Seq(E) /\ q \in Seq(F)
  BY DEF Agrees
<1>3. /\ \A a \in E : \E x \in DOMAIN p : p[x] = a
      /\ \A a \in F : \E x \in DOMAIN q : q[x] = a
  BY DEF Agrees
<1> HIDE DEF E, F, p, q
<1>4. p \o q \in Seq(E \cup F)
  BY <1>2, Concatenation
<1>5. ASSUME NEW a \in E \cup F PROVE \E x \in DOMAIN (p \o q) : (p \o q)[x] = a
  <2>1. CASE a \in E
    <3>1. PICK x \in DOMAIN p : p[x] = a
      BY <1>3, <2>1
    <3>2. x \in DOMAIN (p \o q) /\ (p \o q)[x] = a
      BY <1>2, <3>1, Concatenation
    <3> QED
      BY <3>2
  <2>2. CASE a \in F
    <3>1. PICK x \in DOMAIN q : q[x] = a
      BY <1>3, <2>2
    <3>2. Len(p) + x \in DOMAIN (p \o q) /\ (p \o q)[Len(p) + x] = a
      BY <1>2, <3>1, Concatenation
    <3> QED
      BY <3>2
  <2> QED
    BY <2>1, <2>2
<1> QED
  BY <1>1, <1>4, <1>5 DEF Agrees

(* No two blocks of an export have one address.                             *)
LEMMA InjectiveAdd ==
    ASSUME NEW e, NEW f, Agrees(e), Agrees(f), IsInjective(e.imports), IsInjective(f.imports),
           Expected(e.rows) \cap Expected(f.rows) = {}
    PROVE  IsInjective(Add(e, f).imports)
<1> DEFINE E == Expected(e.rows)
           F == Expected(f.rows)
           p == e.imports
           q == f.imports
<1>1. Add(e, f).imports = p \o q
  BY DEF Add
<1>2. p \in Seq(E) /\ q \in Seq(F) /\ E \cap F = {}
  BY DEF Agrees
<1>3. /\ \A x, y \in DOMAIN p : p[x] = p[y] => x = y
      /\ \A x, y \in DOMAIN q : q[x] = q[y] => x = y
  BY DEF IsInjective
<1> HIDE DEF E, F, p, q
<1>4. /\ DOMAIN p = 1..Len(p) /\ DOMAIN q = 1..Len(q) /\ Len(p) \in Nat /\ Len(q) \in Nat
      /\ DOMAIN (p \o q) = 1..(Len(p) + Len(q))
      /\ \A x \in 1..Len(p) : (p \o q)[x] = p[x]
      /\ \A x \in 1..Len(q) : (p \o q)[Len(p) + x] = q[x]
  BY <1>2, Concatenation
<1>5. (\A x \in 1..Len(p) : p[x] \in E) /\ (\A x \in 1..Len(q) : q[x] \in F)
  BY <1>2
<1>6. \A x \in DOMAIN (p \o q) : \/ x \in 1..Len(p) /\ (p \o q)[x] = p[x] /\ p[x] \in E
                                 \/ \E y \in 1..Len(q) : /\ x = Len(p) + y
                                                         /\ (p \o q)[x] = q[y] /\ q[y] \in F
  <2> TAKE x \in DOMAIN (p \o q)
  <2>1. CASE x <= Len(p)
    BY <1>4, <1>5, <2>1
  <2>2. CASE x > Len(p)
    <3>1. x - Len(p) \in 1..Len(q) /\ x = Len(p) + (x - Len(p))
      BY <1>4, <2>2
    <3> QED
      BY <1>4, <1>5, <3>1
  <2> QED
    BY <1>4, <2>1, <2>2
<1>7. ASSUME NEW x \in DOMAIN (p \o q), NEW y \in DOMAIN (p \o q), (p \o q)[x] = (p \o q)[y]
      PROVE  x = y
  BY <1>2, <1>3, <1>4, <1>6, <1>7
<1> QED
  BY <1>1, <1>7 DEF IsInjective

(* The smallest exports.                                                    *)
Sound(e) == Agrees(e) /\ IsInjective(e.imports)

LEMMA NothingSound ==
    ASSUME NEW e, e.rows = {}, e.imports = <<>>
    PROVE  Sound(e) /\ Expected(e.rows) = {}
<1>1. Expected(e.rows) = {}
  BY ExpectedByRow
<1>2. <<>> \in Seq({}) /\ DOMAIN <<>> = {}
  OBVIOUS
<1> QED
  BY <1>1, <1>2 DEF Sound, Agrees, IsInjective

LEMMA OneSound ==
    ASSUME NEW e, NEW a, Expected(e.rows) = {a}, e.imports = <<a>>
    PROVE  Sound(e)
<1>1. /\ <<a>> \in Seq({a}) /\ DOMAIN <<a>> = {1} /\ <<a>>[1] = a
  OBVIOUS
<1> QED
  BY <1>1 DEF Sound, Agrees, IsInjective

LEMMA ObjectSound ==
    ASSUME NEW table, NEW key
    PROVE  Sound(AddObject(table, key))
<1> DEFINE e == AddObject(table, key)
           a == Address(Module[table], key, Resource[table], Blank)
           r == Row(table, "settings", key, Blank)
<1>1. e.rows = {r} /\ e.imports = <<a>>
  BY EntriesFields DEF AddObject
<1>2. r.table = table /\ r.part = "settings" /\ r.key = key
  BY DEF Row
<1> HIDE DEF e, r
<1>3. \A x : Asks(r, x) <=> x = a
  BY <1>2 DEF Asks
<1> HIDE DEF a
<1>4. Expected(e.rows) = {a}
  BY <1>1, <1>3, ExpectedByRow
<1> QED
  BY <1>1, <1>4, OneSound DEF e

LEMMA AccessSound ==
    ASSUME NEW table, NEW key, NEW grants
    PROVE  Sound(AddAccess(table, key, grants))
<1> DEFINE e == AddAccess(table, key, grants)
           a == Address(Module[table], key, "databricks_grants", "0")
<1>1. CASE grants = Fail
  BY <1>1, EntriesFields, NothingSound DEF AddAccess
<1>2. CASE grants # Fail
  <2> DEFINE rows == {Row(table, "access", key, p) : p \in grants \cup {Blank}}
             imports == IF grants \ {Blank} = {} THEN <<>> ELSE <<a>>
  <2>1. e = Entries(rows, imports)
    BY <1>2 DEF AddAccess
  <2>2. e.rows = rows /\ e.imports = imports
    <3> HIDE DEF e, rows, imports
    <3> QED
      BY <2>1, EntriesFields
  <2>3. \A r \in rows : /\ r.table = table /\ r.part = "access" /\ r.key = key
                        /\ r.item \in grants \cup {Blank}
    BY <1>2, AccessRow DEF AccessRows
  <2>4. \A p \in grants : Row(table, "access", key, p) \in rows
            /\ Row(table, "access", key, p).item = p
    BY DEF Row
  <2> HIDE DEF e, rows
  <2>5. \A r \in rows : \A x : Asks(r, x) <=> r.item # Blank /\ x = a
    BY <2>3 DEF Asks
  <2> HIDE DEF a
  <2>6. CASE grants \ {Blank} = {}
    <3>1. \A x : x \notin Expected(rows)
      BY <2>3, <2>5, <2>6, ExpectedByRow
    <3> QED
      BY <2>2, <2>6, <3>1, EntriesFields DEF Sound, Agrees, IsInjective, e
  <2>7. CASE grants \ {Blank} # {}
    <3>1. PICK p \in grants : p # Blank
      BY <2>7
    <3>2. \A x : x \in Expected(rows) <=> x = a
      BY <2>4, <2>5, <3>1, ExpectedByRow
    <3>3. Expected(e.rows) = {a} /\ e.imports = <<a>>
      BY <2>2, <2>7, <3>2
    <3> QED
      BY <3>3, OneSound DEF e
  <2> QED
    BY <2>6, <2>7
<1> QED
  BY <1>1, <1>2

LEMMA PermissionsSound ==
    ASSUME NEW table, NEW o
    PROVE  Sound(Entries(PermissionRows(table, o),
                         IF o.permissions = {} THEN <<>>
                         ELSE <<Address(Module[table], o.name, "databricks_permissions", "0")>>))
<1> DEFINE a == Address(Module[table], o.name, "databricks_permissions", "0")
           rows == PermissionRows(table, o)
           imports == IF o.permissions = {} THEN <<>> ELSE <<a>>
           e == Entries(rows, imports)
<1>1. e.rows = rows /\ e.imports = imports
  <2> HIDE DEF rows, imports
  <2> QED
    BY EntriesFields
<1>2. \A r \in rows : r.table = table /\ r.part = "permissions" /\ r.key = o.name
  BY PermissionRow
<1>3. o.permissions = {} => rows = {}
  BY DEF PermissionRows
<1>4. o.permissions # {} => \E r : r \in rows
  BY DEF PermissionRows
<1> HIDE DEF rows, e
<1>5. \A r \in rows : \A x : Asks(r, x) <=> x = a
  BY <1>2 DEF Asks
<1> HIDE DEF a
<1>6. ASSUME o.permissions = {} PROVE Sound(e)
  BY <1>1, <1>3, <1>6, NothingSound
<1>7. ASSUME o.permissions # {} PROVE Sound(e)
  <2>1. \A x : x \in Expected(rows) <=> x = a
    BY <1>4, <1>5, <1>7, ExpectedByRow
  <2>2. Expected(e.rows) = {a} /\ e.imports = <<a>>
    BY <1>1, <1>7, <2>1
  <2> QED
    BY <2>2, OneSound
<1> QED
  BY <1>6, <1>7 DEF e, rows, a

(* Blocks made from a sequence, one of each element.                        *)
LEMMA SequenceSound ==
    ASSUME NEW e, NEW n \in Nat, e.imports \in [1..n -> Expected(e.rows)],
           \A a \in Expected(e.rows) : \E x \in 1..n : e.imports[x] = a
    PROVE  Agrees(e)
<1> DEFINE q == e.imports
           E == Expected(e.rows)
<1>1. q \in [1..n -> E] /\ \A a \in E : \E x \in 1..n : q[x] = a
  OBVIOUS
<1> HIDE DEF q, E
<1>2. q \in Seq(E) /\ DOMAIN q = 1..n
  BY <1>1
<1> QED
  BY <1>1, <1>2 DEF Agrees, q, E

LEMMA BindingsSound ==
    ASSUME NEW table, NEW o, o.bindings \in Seq(STRING)
    PROVE  /\ Agrees(AddBindings(table, o))
           /\ (\A b, c \in DOMAIN o.bindings :
                 BindingKey(o.bindings[b], table, o) = BindingKey(o.bindings[c], table, o) => b = c)
              => IsInjective(AddBindings(table, o).imports)
<1> DEFINE e == AddBindings(table, o)
           key(b) == BindingKey(o.bindings[b], table, o)
           a(b) == Address("workspace_binding", key(b), Resource.workspace_bindings, Blank)
           n == Len(o.bindings)
           rows == BindingRows(table, o)
           imports == [b \in DOMAIN o.bindings |-> a(b)]
<1>1. e.rows = rows /\ e.imports = imports
  <2>1. e = Entries(rows, imports)
    BY DEF AddBindings, BindingRows
  <2> HIDE DEF e, rows, imports
  <2> QED
    BY <2>1, EntriesFields
<1>2. n \in Nat /\ DOMAIN o.bindings = 1..n
  OBVIOUS
<1>3. \A x : x \in Expected(rows) <=> \E b \in 1..n : x = a(b)
  <2> DEFINE row(b) == Row("workspace_bindings", "settings", key(b), Blank)
  <2>1. \A r : r \in rows <=> \E b \in 1..n : r = row(b)
    BY <1>2 DEF BindingRows
  <2>2. \A b : /\ row(b).table = "workspace_bindings" /\ row(b).part = "settings"
               /\ row(b).key = key(b)
    BY DEF Row
  <2>3. Module["workspace_bindings"] = "workspace_binding"
    BY DEF Module
  <2> HIDE DEF row, key, rows
  <2>4. \A b : \A x : Asks(row(b), x) <=> x = a(b)
    BY <2>2, <2>3 DEF Asks
  <2> HIDE DEF a
  <2> QED
    BY <2>1, <2>4, ExpectedByRow
<1>4. Agrees(e)
  <2>1. imports \in [1..n -> Expected(rows)]
    BY <1>2, <1>3
  <2>2. \A x \in Expected(rows) : \E b \in 1..n : imports[b] = x
    BY <1>2, <1>3
  <2> HIDE DEF e, rows, imports, n
  <2> QED
    BY <1>1, <1>2, <2>1, <2>2, SequenceSound
<1>5. ASSUME \A b, c \in DOMAIN o.bindings : key(b) = key(c) => b = c
      PROVE  IsInjective(e.imports)
  <2>1. \A b : a(b).key = key(b)
    BY DEF Address
  <2>2. DOMAIN imports = DOMAIN o.bindings /\ \A b \in DOMAIN o.bindings : imports[b] = a(b)
    OBVIOUS
  <2> HIDE DEF a, key, imports, e
  <2> QED
    BY <1>1, <1>5, <2>1, <2>2 DEF IsInjective
<1> QED
  BY <1>4, <1>5

(* SetToSeq lists the elements of a finite set, each of them once.          *)
LEMMA ListsSet ==
    ASSUME NEW S, IsFiniteSet(S)
    PROVE  /\ Cardinality(S) \in Nat
           /\ SetToSeq(S) \in [1..Cardinality(S) -> S]
           /\ IsInjective(SetToSeq(S))
           /\ \A x \in S : \E i \in 1..Cardinality(S) : SetToSeq(S)[i] = x
<1> DEFINE n == Cardinality(S)
           q == SetToSeq(S)
<1>1. n \in Nat
  BY FS_CardinalityType
<1>2. \E f \in [1..n -> S] : IsInjective(f)
  <2>1. ExistsBijection(1..n, S)
    BY FS_CardinalityType
  <2>2. PICK f : f \in Bijection(1..n, S)
    BY <2>1 DEF ExistsBijection
  <2>3. f \in [1..n -> S] /\ IsInjective(f)
    BY <2>2 DEF Bijection, Injection, IsInjective
  <2> QED
    BY <2>3
<1>3. q \in [1..n -> S] /\ IsInjective(q)
  BY <1>2 DEF SetToSeq
<1> HIDE DEF q
<1>4. q \in Surjection(1..n, S)
  <2>1. q \in Injection(1..n, S)
    BY <1>3 DEF Injection, IsInjective
  <2>2. IsFiniteSet(1..n) /\ Cardinality(1..n) = n
    BY <1>1, FS_Interval
  <2> QED
    BY <2>1, <2>2, FS_Injection
<1>5. \A x \in S : \E i \in 1..n : q[i] = x
  BY <1>4 DEF Surjection
<1> QED
  BY <1>1, <1>3, <1>5 DEF q

LEMMA AclsSound ==
    ASSUME NEW o \in SecretScopeInfo
    PROVE  LET principals == SetToSeq(ToSet(Acls(o)) \ {Blank})
               acl(p)     == Address("secret_scope", o.name, "databricks_secret_acl", p)
           IN  Sound([Entries(AclRows(o), [i \in DOMAIN principals |-> acl(principals[i])])
                        EXCEPT !.issues = NoPrincipal(o)])
<1> DEFINE S == ToSet(Acls(o)) \ {Blank}
           principals == SetToSeq(S)
           n == Cardinality(S)
           acl(p) == Address("secret_scope", o.name, "databricks_secret_acl", p)
           rows == AclRows(o)
           imports == [i \in DOMAIN principals |-> acl(principals[i])]
           e == [Entries(rows, imports) EXCEPT !.issues = NoPrincipal(o)]
<1>1. e.rows = rows /\ e.imports = imports
  <2> HIDE DEF rows, imports
  <2> QED
    BY DEF Entries, EmptyExport
<1>2. IsFiniteSet(S)
  <2>1. Acls(o) \in Seq(STRING)
    <3>1. o.acls = Fail \/ o.acls \in Seq(STRING)
      BY DEF SecretScopeInfo
    <3>2. <<>> \in Seq(STRING)
      OBVIOUS
    <3> QED
      BY <3>1, <3>2 DEF Acls
  <2> DEFINE acls == Acls(o)
  <2> HIDE DEF acls
  <2>2. acls \in [1..Len(acls) -> STRING] /\ IsFiniteSet(1..Len(acls))
    BY <2>1, FS_Interval DEF acls
  <2>3. acls \in Surjection(1..Len(acls), ToSet(acls))
    BY <2>2 DEF Surjection, ToSet
  <2>4. IsFiniteSet(ToSet(acls))
    BY <2>2, <2>3, FS_Surjection
  <2> QED
    BY <2>4, FS_Subset DEF acls
<1> HIDE DEF S
<1>3. /\ n \in Nat /\ principals \in [1..n -> S] /\ IsInjective(principals)
      /\ \A p \in S : \E i \in 1..n : principals[i] = p
  BY <1>2, ListsSet
<1>4. \A x : x \in Expected(rows) <=> \E p \in S : x = acl(p)
  <2> DEFINE row(p) == Row("secret_scopes", "acls", o.name, p)
  <2>1. \A r : r \in rows <=> \E p \in S : r = row(p)
    BY DEF AclRows, S
  <2>2. \A p : /\ row(p).table = "secret_scopes" /\ row(p).part = "acls" /\ row(p).key = o.name
               /\ row(p).item = p
    BY DEF Row
  <2>3. Module["secret_scopes"] = "secret_scope"
    BY DEF Module
  <2> HIDE DEF row, rows
  <2>4. \A p : \A x : Asks(row(p), x) <=> x = acl(p)
    BY <2>2, <2>3 DEF Asks
  <2> HIDE DEF acl
  <2> QED
    BY <2>1, <2>4, ExpectedByRow
<1>5. \A p, q : acl(p) = acl(q) => p = q
  <2>1. \A p : acl(p).index = p
    BY DEF Address
  <2> HIDE DEF acl
  <2> QED
    BY <2>1
<1> HIDE DEF acl, n, principals, rows, e
<1>6. /\ DOMAIN imports = 1..n /\ \A i \in 1..n : imports[i] = acl(principals[i])
  BY <1>3
<1>7. IsInjective(imports)
  BY <1>3, <1>5, <1>6 DEF IsInjective
<1>8. imports \in [1..n -> Expected(rows)]
  BY <1>3, <1>4, <1>6
<1>9. \A x \in Expected(rows) : \E i \in 1..n : imports[i] = x
  BY <1>3, <1>4, <1>6
<1> HIDE DEF imports
<1>10. Sound(e)
  BY <1>1, <1>3, <1>7, <1>8, <1>9, SequenceSound DEF Sound
<1> QED
  BY <1>10 DEF e, rows, imports, acl, principals, S

-----------------------------------------------------------------------------
(* Rows that ask for one block are of one part of one entry.                *)
LEMMA ModulesDiffer ==
    /\ \A t, u \in DOMAIN Module : Module[t] = Module[u] => t = u
    /\ \A t \in DOMAIN Module : Resource[t] \notin {"databricks_grants", "databricks_permissions",
                                                   "databricks_secret_acl"}
    /\ DOMAIN Module = Tables \cup {"schemas", "workspace_bindings"}
<1> DEFINE Ten == {"catalogs", "storage_credentials", "external_locations", "cluster_policies",
                   "instance_pools", "warehouses", "secret_scopes", "service_principals",
                   "schemas", "workspace_bindings"}
<1>1. DOMAIN Module = Ten
  BY DEF Module
<1>2. \A t, u \in Ten : Module[t] = Module[u] => t = u
  BY DEF Module
<1>3. \A t \in Ten : Resource[t] \notin {"databricks_grants", "databricks_permissions",
                                         "databricks_secret_acl"}
  BY DEF Resource
<1>4. Tables = Ten \ {"schemas", "workspace_bindings"}
  <2>1. \A x \in Tables : x \in Ten \ {"schemas", "workspace_bindings"}
    BY DEF Tables, ResourceNames
  <2>2. /\ ResourceNames[1] = "catalogs" /\ ResourceNames[2] = "storage_credentials"
        /\ ResourceNames[3] = "external_locations" /\ ResourceNames[4] = "cluster_policies"
        /\ ResourceNames[5] = "instance_pools" /\ ResourceNames[6] = "warehouses"
        /\ ResourceNames[7] = "secret_scopes" /\ ResourceNames[8] = "service_principals"
    BY DEF ResourceNames
  <2>3. \A n \in 1..8 : ResourceNames[n] \in Tables
    BY Groups8 DEF Tables
  <2> QED
    BY <2>1, <2>2, <2>3
<1> QED
  BY <1>1, <1>2, <1>3, <1>4

LEMMA AskedByOne ==
    ASSUME NEW r, NEW x, NEW a, r.table \in DOMAIN Module, x.table \in DOMAIN Module,
           Asks(r, a), Asks(x, a)
    PROVE  r.table = x.table /\ r.key = x.key /\ r.part = x.part
<1> DEFINE m == a.module
<1>1. Module[r.table] = a.module /\ r.key = a.key
  BY DEF Asks, Address
<1>2. Module[x.table] = a.module /\ x.key = a.key
  BY DEF Asks, Address
<1>3. r.table = x.table /\ r.key = x.key
  BY <1>1, <1>2, ModulesDiffer
<1>4. /\ r.part = "settings" => a.resource = Resource[r.table]
      /\ r.part = "access" => a.resource = "databricks_grants"
      /\ r.part = "permissions" => a.resource = "databricks_permissions"
      /\ r.part = "acls" => a.resource = "databricks_secret_acl"
      /\ r.part \in {"settings", "access", "permissions", "acls"}
  BY DEF Asks, Address
<1>5. /\ x.part = "settings" => a.resource = Resource[x.table]
      /\ x.part = "access" => a.resource = "databricks_grants"
      /\ x.part = "permissions" => a.resource = "databricks_permissions"
      /\ x.part = "acls" => a.resource = "databricks_secret_acl"
      /\ x.part \in {"settings", "access", "permissions", "acls"}
  BY DEF Asks, Address
<1>6. r.part = x.part
  BY <1>3, <1>4, <1>5, ModulesDiffer
<1> QED
  BY <1>3, <1>6

(* Exports whose entries differ ask for different blocks.                   *)
Apart(R, S) ==
    \A r \in R, x \in S : r.table # x.table \/ r.key # x.key \/ r.part # x.part

LEMMA ApartAsks ==
    ASSUME NEW R, NEW S, Apart(R, S), \A r \in R \cup S : r.table \in DOMAIN Module
    PROVE  Expected(R) \cap Expected(S) = {}
<1> SUFFICES ASSUME NEW a, a \in Expected(R), a \in Expected(S) PROVE FALSE
  OBVIOUS
<1>1. PICK r \in R : Asks(r, a)
  BY ExpectedByRow
<1>2. PICK x \in S : Asks(x, a)
  BY ExpectedByRow
<1> QED
  BY <1>1, <1>2, AskedByOne DEF Apart

LEMMA SoundAdd ==
    ASSUME NEW e, NEW f, Sound(e), Sound(f), Apart(e.rows, f.rows),
           \A r \in e.rows \cup f.rows : r.table \in DOMAIN Module
    PROVE  Sound(Add(e, f))
BY AgreesAdd, InjectiveAdd, ApartAsks DEF Sound

(* The blocks of the parts of an inventory.                                 *)
LEMMA SecurableSound ==
    ASSUME NEW s, NEW table \in Securables, NEW o \in SecurableInfo
    PROVE  /\ Agrees(SecurablePart(s, table, o))
           /\ (\A b, c \in DOMAIN o.bindings :
                 BindingKey(o.bindings[b], table, o) = BindingKey(o.bindings[c], table, o) => b = c)
              => IsInjective(SecurablePart(s, table, o).imports)
<1> DEFINE a == AddObject(table, o.name)
           b == AddBindings(table, o)
           g == AddAccess(table, o.name, o.grants)
           x == Exclusion(table, o)
           p == SecurablePart(s, table, o)
           differ == \A i, j \in DOMAIN o.bindings :
                       BindingKey(o.bindings[i], table, o) = BindingKey(o.bindings[j], table, o)
                           => i = j
<1>1. Sound(a) /\ a.rows = OwnRows(table, o.name)
  BY ObjectSound, ObjectFields
<1>2. Agrees(b) /\ (differ => IsInjective(b.imports)) /\ b.rows = BindingRows(table, o)
  <2>1. o.bindings \in Seq(STRING)
    BY DEF SecurableInfo
  <2> QED
    BY <2>1, BindingsSound, BindingsFields
<1>3. Sound(g) /\ g.rows = AccessRows(table, o.name, o.grants)
  BY AccessSound, AccessFields
<1>4. Sound(x)
  BY ExclusionFields, NothingSound
<1>5. p = IF ~InScope(s, o) THEN x ELSE Add(Add(a, b), g)
  BY DEF SecurablePart
<1> HIDE DEF a, b, g, x, p, differ
<1>6. table \in DOMAIN Module /\ table # "workspace_bindings"
  BY DEF Securables, Module
<1>7. /\ \A r \in a.rows : r.table = table /\ r.part = "settings"
      /\ \A r \in b.rows : r.table = "workspace_bindings" /\ r.part = "settings"
      /\ \A r \in g.rows : r.table = table /\ r.part = "access"
  BY <1>1, <1>2, <1>3, OwnRow, BindingsRow, AccessRow
<1>8. "workspace_bindings" \in DOMAIN Module
  BY DEF Module
<1>9. Agrees(Add(a, b)) /\ Agrees(Add(Add(a, b), g))
  BY <1>1, <1>2, <1>3, AgreesAdd DEF Sound
<1>10. ASSUME differ PROVE Sound(Add(Add(a, b), g))
  <2>1. Sound(Add(a, b))
    BY <1>1, <1>2, <1>6, <1>7, <1>8, <1>10, SoundAdd DEF Apart, Sound
  <2>2. Add(a, b).rows = a.rows \cup b.rows
    BY DEF Add
  <2>3. /\ Apart(Add(a, b).rows, g.rows)
        /\ \A r \in Add(a, b).rows \cup g.rows : r.table \in DOMAIN Module
    BY <1>6, <1>7, <1>8, <2>2 DEF Apart
  <2> QED
    BY <1>3, <2>1, <2>3, SoundAdd
<1> QED
  BY <1>4, <1>5, <1>9, <1>10 DEF Sound, differ, p

LEMMA SchemaSound ==
    ASSUME NEW o, NEW schema
    PROVE  Sound(SchemaPart(o, schema))
<1> DEFINE full == FullName(o, schema)
           a == AddObject("schemas", full)
           g == AddAccess("schemas", full, schema.grants)
<1>1. Sound(a) /\ a.rows = OwnRows("schemas", full)
  BY ObjectSound, ObjectFields
<1>2. Sound(g) /\ g.rows = AccessRows("schemas", full, schema.grants)
  BY AccessSound, AccessFields
<1>3. SchemaPart(o, schema) = IF schema.name = Blank THEN Issue ELSE Add(a, g)
  BY DEF SchemaPart
<1> HIDE DEF full, a, g
<1>4. /\ \A r \in a.rows : r.table = "schemas" /\ r.part = "settings"
      /\ \A r \in g.rows : r.table = "schemas" /\ r.part = "access"
  BY <1>1, <1>2, OwnRow, AccessRow
<1>5. "schemas" \in DOMAIN Module
  BY DEF Module
<1>6. Sound(Add(a, g))
  BY <1>1, <1>2, <1>4, <1>5, SoundAdd DEF Apart
<1>7. Sound(Issue)
  BY EntriesFields, NothingSound
<1> QED
  BY <1>3, <1>6, <1>7

LEMMA IdentifiedSound ==
    ASSUME NEW table \in Identified, NEW o \in IdentifiedInfo
    PROVE  Sound(IdentifiedPart(table, o))
<1> DEFINE a == AddObject(table, o.name)
           imports == IF o.permissions = {} THEN <<>>
                      ELSE <<Address(Module[table], o.name, "databricks_permissions", "0")>>
           f == Entries(PermissionRows(table, o), imports)
<1>1. Sound(a) /\ a.rows = OwnRows(table, o.name)
  BY ObjectSound, ObjectFields
<1>2. Sound(f)
  BY PermissionsSound
<1>3. f.rows = PermissionRows(table, o)
  <2> HIDE DEF imports
  <2> QED
    BY EntriesFields
<1>4. IdentifiedPart(table, o) = Issue \/ IdentifiedPart(table, o) = Add(a, f)
  BY DEF IdentifiedPart, PermissionRows
<1> HIDE DEF a, imports, f
<1>5. /\ \A r \in a.rows : r.table = table /\ r.part = "settings"
      /\ \A r \in f.rows : r.table = table /\ r.part = "permissions"
  BY <1>1, <1>3, OwnRow, PermissionRow
<1>6. table \in DOMAIN Module
  BY DEF Identified, Module
<1>7. Sound(Add(a, f))
  BY <1>1, <1>2, <1>5, <1>6, SoundAdd DEF Apart
<1>8. Sound(Issue)
  BY EntriesFields, NothingSound
<1> QED
  BY <1>4, <1>7, <1>8

LEMMA SecretScopeSound ==
    ASSUME NEW o \in SecretScopeInfo
    PROVE  Sound(SecretScopePart(o))
<1> DEFINE a == AddObject("secret_scopes", o.name)
           principals == SetToSeq(ToSet(Acls(o)) \ {Blank})
           acl(p) == Address("secret_scope", o.name, "databricks_secret_acl", p)
           imports == [i \in DOMAIN principals |-> acl(principals[i])]
           f == [Entries(AclRows(o), imports) EXCEPT !.issues = NoPrincipal(o)]
<1>1. Sound(a) /\ a.rows = OwnRows("secret_scopes", o.name)
  BY ObjectSound, ObjectFields
<1>2. Sound(f)
  BY AclsSound
<1>3. SecretScopePart(o) = Add(a, f)
  BY DEF SecretScopePart, Acls, AclRows, NoPrincipal
<1>4. f.rows = AclRows(o)
  <2> HIDE DEF imports
  <2> QED
    BY DEF Entries, EmptyExport
<1> HIDE DEF a, f
<1>5. /\ \A r \in a.rows : r.table = "secret_scopes" /\ r.part = "settings"
      /\ \A r \in f.rows : r.table = "secret_scopes" /\ r.part = "acls"
  BY <1>1, <1>4, OwnRow, AclRow
<1>6. "secret_scopes" \in DOMAIN Module
  BY DEF Module
<1>7. Sound(Add(a, f))
  BY <1>1, <1>2, <1>5, <1>6, SoundAdd DEF Apart
<1> QED
  BY <1>3, <1>7

(* The blocks of a pass are those that its rows ask for; bindings of an     *)
(* object may collide.                                                      *)
LEMMA ContributionSound ==
    ASSUME inv \in Inventories, NEW s \in Scopes, NEW n \in Nat, NEW i \in Nat, NEW k \in Nat,
           IsPass(s, n, i, k)
    PROVE  /\ Agrees(Contribution(s, n, i, k))
           /\ BindingsDiffer(inv) => IsInjective(Contribution(s, n, i, k).imports)
<1> DEFINE o == ObjectOf(n, i)
           g == ResourceNames[n]
           c == Contribution(s, n, i, k)
<1>1. n \in 1..8 /\ i \in DOMAIN Objects(g)
  BY PassNumbers
<1>2. CASE k # 0
  <2> DEFINE schema == o.schemas[k]
  <2>1. c = SchemaPart(o, schema)
    BY <1>2 DEF Contribution
  <2> HIDE DEF o, schema
  <2> QED
    BY <2>1, SchemaSound DEF Sound
<1>3. CASE k = 0 /\ n \in 1..3
  <2>1. c = SecurablePart(s, g, o) /\ o \in SecurableInfo /\ g \in Securables
    BY <1>1, <1>3, ObjectTypes, Groups8 DEF Contribution, ObjectOf
  <2>2. ASSUME BindingsDiffer(inv)
        PROVE  \A a, b \in DOMAIN o.bindings :
                 BindingKey(o.bindings[a], g, o) = BindingKey(o.bindings[b], g, o) => a = b
    <3>1. Objects(g) = inv[g]
      BY <1>3, ObjectTypes
    <3>2. i \in DOMAIN inv[g] /\ o = inv[g][i]
      BY <1>1, <3>1 DEF ObjectOf
    <3> HIDE DEF o, g
    <3> QED
      BY <2>1, <2>2, <3>2 DEF BindingsDiffer
  <2> HIDE DEF o, g
  <2> QED
    BY <2>1, <2>2, SecurableSound
<1>4. CASE k = 0 /\ n \in 4..6
  <2>1. c = IdentifiedPart(g, o) /\ o \in IdentifiedInfo /\ g \in Identified
    BY <1>1, <1>4, ObjectTypes, Groups8 DEF Contribution, ObjectOf
  <2> QED
    BY <2>1, IdentifiedSound DEF Sound
<1>5. CASE k = 0 /\ n = 7
  <2>1. c = SecretScopePart(o) /\ o \in SecretScopeInfo
    BY <1>1, <1>5, ObjectTypes DEF Contribution, ObjectOf
  <2> QED
    BY <2>1, SecretScopeSound DEF Sound
<1>6. CASE k = 0 /\ n = 8
  <2>1. c = ServicePrincipalPart(o)
    BY <1>6 DEF Contribution
  <2>2. Sound(AddObject("service_principals", o.name)) /\ Sound(Issue)
    BY ObjectSound, EntriesFields, NothingSound
  <2> QED
    BY <2>1, <2>2 DEF ServicePrincipalPart, Sound
<1> QED
  BY <1>1, <1>2, <1>3, <1>4, <1>5, <1>6

-----------------------------------------------------------------------------
(* Where the keys of an inventory differ, no two passes write one entry.    *)
LEMMA PassesApart ==
    ASSUME inv \in Inventories, KeysDiffer(inv), NEW s \in Scopes,
           NEW n \in Nat, NEW i \in Nat, NEW k \in Nat, IsPass(s, n, i, k),
           NEW m \in Nat, NEW j \in Nat, NEW l \in Nat, IsPass(s, m, j, l),
           NEW r \in Contribution(s, n, i, k).rows, NEW x \in Contribution(s, m, j, l).rows,
           r.table = x.table, r.key = x.key
    PROVE  n = m /\ i = j /\ k = l
<1>1. /\ n \in 1..8 /\ i \in DOMAIN Objects(ResourceNames[n])
      /\ k # 0 => n = 1 /\ k \in 1..Len(ObjectOf(n, i).schemas)
  BY PassNumbers
<1>2. /\ m \in 1..8 /\ j \in DOMAIN Objects(ResourceNames[m])
      /\ l # 0 => m = 1 /\ l \in 1..Len(ObjectOf(m, j).schemas)
  BY PassNumbers
<1>3. \/ k = 0 /\ ObjectRow(s, n, i, r)
      \/ k = 0 /\ BindingRow(s, n, i, r)
      \/ k # 0 /\ SchemaRow(s, n, i, k, r)
  BY ContributedRows
<1>4. \/ l = 0 /\ ObjectRow(s, m, j, x)
      \/ l = 0 /\ BindingRow(s, m, j, x)
      \/ l # 0 /\ SchemaRow(s, m, j, l, x)
  BY ContributedRows
<1>5. /\ ObjectRow(s, n, i, r) => /\ r.table = ResourceNames[n] /\ r.key = ObjectOf(n, i).name
                                  /\ ObjectOf(n, i).name # Blank
      /\ BindingRow(s, n, i, r) => r.table = "workspace_bindings"
      /\ SchemaRow(s, n, i, k, r) => r.table = "schemas"
  BY DEF ObjectRow, BindingRow, SchemaRow
<1>6. /\ ObjectRow(s, m, j, x) => x.table = ResourceNames[m] /\ x.key = ObjectOf(m, j).name
      /\ BindingRow(s, m, j, x) => x.table = "workspace_bindings"
      /\ SchemaRow(s, m, j, l, x) => x.table = "schemas"
  BY DEF ObjectRow, BindingRow, SchemaRow
<1>7. \A p \in 1..8 : /\ ResourceNames[p] \in Tables
                      /\ ResourceNames[p] \notin {"schemas", "workspace_bindings"}
  BY DEF ResourceNames, Tables
<1>8. CASE k = 0 /\ ObjectRow(s, n, i, r)
  <2>1. l = 0 /\ ObjectRow(s, m, j, x)
    BY <1>1, <1>4, <1>5, <1>6, <1>7, <1>8
  <2>2. n = m
    BY <1>1, <1>2, <1>5, <1>6, <1>8, <2>1, Groups8
  <2>3. Objects(ResourceNames[n]) = Keyed(ResourceNames[n], inv[ResourceNames[n]])
    BY DEF Objects
  <2>4. i = j
    <3> DEFINE objs == Objects(ResourceNames[n])
    <3>1. objs[i].name = objs[j].name /\ objs[i].name # Blank
      BY <1>5, <1>6, <1>8, <2>1, <2>2 DEF ObjectOf
    <3>2. i \in DOMAIN objs /\ j \in DOMAIN objs
      BY <1>1, <1>2, <2>2
    <3> HIDE DEF objs
    <3>3. objs = Keyed(ResourceNames[n], inv[ResourceNames[n]]) /\ ResourceNames[n] \in Tables
      BY <1>1, <1>7, <2>3 DEF objs
    <3> QED
      BY <3>1, <3>2, <3>3 DEF KeysDiffer, NamesDiffer
  <2> QED
    BY <1>8, <2>1, <2>2, <2>4
<1>9. CASE k = 0 /\ BindingRow(s, n, i, r)
  <2>1. l = 0 /\ BindingRow(s, m, j, x)
    BY <1>2, <1>4, <1>5, <1>6, <1>7, <1>9
  <2>2. n \in 1..3 /\ m \in 1..3
    BY <1>9, <2>1 DEF BindingRow
  <2> DEFINE g == ResourceNames[n]
             h == ResourceNames[m]
  <2>3. /\ g \in Securables /\ h \in Securables /\ i \in DOMAIN inv[g] /\ j \in DOMAIN inv[h]
        /\ ObjectOf(n, i) = inv[g][i] /\ ObjectOf(m, j) = inv[h][j]
    <3>1. ASSUME NEW p \in 1..3
          PROVE  /\ ResourceNames[p] \in Securables
                 /\ Objects(ResourceNames[p]) = inv[ResourceNames[p]]
      <4>1. p \in 1..8 /\ p \in 1..7
        OBVIOUS
      <4> QED
        BY <4>1, ObjectTypes, Groups8
    <3>2. /\ g \in Securables /\ Objects(g) = inv[g]
          /\ h \in Securables /\ Objects(h) = inv[h]
      BY <2>2, <3>1
    <3> QED
      BY <1>1, <1>2, <3>2 DEF ObjectOf
  <2>4. PICK a \in DOMAIN inv[g][i].bindings :
            r.key = BindingKey(inv[g][i].bindings[a], g, inv[g][i])
    BY <1>9, <2>3 DEF BindingRow
  <2>5. PICK b \in DOMAIN inv[h][j].bindings :
            x.key = BindingKey(inv[h][j].bindings[b], h, inv[h][j])
    BY <2>1, <2>3 DEF BindingRow
  <2> HIDE DEF g, h
  <2>6. g = h /\ i = j
    <3>1. BindingsDiffer(inv)
      BY DEF KeysDiffer
    <3>2. BindingKey(inv[g][i].bindings[a], g, inv[g][i])
            = BindingKey(inv[h][j].bindings[b], h, inv[h][j])
      BY <2>4, <2>5
    <3> QED
      BY <2>3, <3>1, <3>2 DEF BindingsDiffer
  <2>7. n = m
    BY <1>1, <1>2, <2>6, Groups8 DEF g, h
  <2> QED
    BY <1>9, <2>1, <2>6, <2>7
<1>10. CASE k # 0 /\ SchemaRow(s, n, i, k, r)
  <2>1. l # 0 /\ SchemaRow(s, m, j, l, x)
    BY <1>2, <1>4, <1>5, <1>6, <1>7, <1>10
  <2>2. n = 1 /\ m = 1 /\ ResourceNames[1] = "catalogs"
    BY <1>1, <1>2, <1>10, <2>1 DEF ResourceNames
  <2>3. /\ i \in DOMAIN inv.catalogs /\ j \in DOMAIN inv.catalogs
        /\ ObjectOf(n, i) = inv.catalogs[i] /\ ObjectOf(m, j) = inv.catalogs[j]
    BY <1>1, <1>2, <2>2, ObjectTypes DEF ObjectOf
  <2>4. /\ inv.catalogs[i].schemas \in Seq(SchemaRead)
               /\ inv.catalogs[j].schemas \in Seq(SchemaRead)
    <3>1. inv.catalogs[i] \in SecurableInfo /\ inv.catalogs[j] \in SecurableInfo
      <4>1. Objects(ResourceNames[1]) \in Seq(SecurableInfo)
                /\ Objects(ResourceNames[1]) = inv.catalogs
        BY <2>2, ObjectTypes
      <4>2. inv.catalogs \in Seq(SecurableInfo)
        BY <4>1
      <4> QED
        BY <2>3, <4>2
    <3> QED
      BY <3>1 DEF SecurableInfo
  <2>5. k \in DOMAIN inv.catalogs[i].schemas /\ l \in DOMAIN inv.catalogs[j].schemas
    BY <1>1, <1>2, <1>10, <2>1, <2>3, <2>4
  <2>6. /\ inv.catalogs[i].schemas[k].name # Blank /\ inv.catalogs[j].schemas[l].name # Blank
        /\ r.key = FullName(inv.catalogs[i], inv.catalogs[i].schemas[k])
        /\ x.key = FullName(inv.catalogs[j], inv.catalogs[j].schemas[l])
    BY <1>10, <2>1, <2>3 DEF SchemaRow
  <2>7. i = j /\ k = l
    BY <2>3, <2>5, <2>6 DEF KeysDiffer, SchemasDiffer
  <2> QED
    BY <2>2, <2>7
<1> QED
  BY <1>3, <1>8, <1>9, <1>10

-----------------------------------------------------------------------------
(* Between the variables and the import blocks.  That two passes never ask  *)
(* for one block takes an inventory whose keys differ.                      *)
AgreeInv == \A s \in Scopes : Agrees(ex[s])

UniqueInv == KeysDiffer(inv) => \A s \in Scopes : IsInjective(ex[s].imports)

ImportInv == WalkInv /\ AgreeInv /\ UniqueInv

(* The tables and parts of the rows.                                        *)
RowOK(r) == /\ r.table \in DOMAIN Module /\ r.part \in Parts
            /\ r.table \in Tables => r.key # Blank

LEMMA ContributedRowOK ==
    ASSUME inv \in Inventories, NEW s \in Scopes, NEW n \in Nat, NEW i \in Nat, NEW k \in Nat,
           IsPass(s, n, i, k), NEW r \in Contribution(s, n, i, k).rows
    PROVE  RowOK(r)
<1>1. n \in 1..8 /\ ResourceNames[n] \in Tables
  BY PassNumbers, Groups8 DEF Tables
<1>2. CASE ObjectRow(s, n, i, r)
  <2>1. r.table = ResourceNames[n] /\ r.key # Blank
    BY <1>2 DEF ObjectRow
  <2>2. r.part \in Parts
    BY <1>2 DEF ObjectRow, Parts
  <2> QED
    BY <1>1, <2>1, <2>2, ModulesDiffer DEF RowOK
<1>3. "workspace_bindings" \notin Tables /\ "schemas" \notin Tables
  BY DEF Tables, ResourceNames
<1>4. CASE BindingRow(s, n, i, r)
  <2>1. r.table = "workspace_bindings" /\ r.part = "settings"
    BY <1>4 DEF BindingRow
  <2> QED
    BY <1>3, <2>1, ModulesDiffer DEF RowOK, Parts
<1>5. CASE SchemaRow(s, n, i, k, r)
  <2>1. r.table = "schemas" /\ r.part \in Parts
    BY <1>5 DEF SchemaRow, Parts
  <2> QED
    BY <1>3, <2>1, ModulesDiffer DEF RowOK
<1> QED
  BY <1>2, <1>4, <1>5, ContributedRows

LEMMA RowsOK == ASSUME WalkInv, NEW s \in Scopes, NEW r \in ex[s].rows PROVE RowOK(r)
<1>1. PICK n, i, k \in Nat : Behind(s, n, i, k) /\ r \in Contribution(s, n, i, k).rows
  BY DEF WalkInv, HoldsOnly
<1>2. IsPass(s, n, i, k) /\ inv \in Inventories
  BY <1>1 DEF Behind, WalkInv, CursorInv
<1> QED
  BY <1>1, <1>2, ContributedRowOK

(* A new pass has no entry that the export holds already.                   *)
LEMMA NewPassApart ==
    ASSUME WalkInv, KeysDiffer(inv), NEW s \in Scopes,
           NEW n \in Nat, NEW i \in Nat, NEW k \in Nat, IsPass(s, n, i, k), ~Behind(s, n, i, k)
    PROVE  Apart(ex[s].rows, Contribution(s, n, i, k).rows)
<1> SUFFICES ASSUME NEW r \in ex[s].rows, NEW x \in Contribution(s, n, i, k).rows,
                    r.table = x.table, r.key = x.key
             PROVE  FALSE
  BY DEF Apart
<1>1. PICK m, j, l \in Nat : Behind(s, m, j, l) /\ r \in Contribution(s, m, j, l).rows
  BY DEF WalkInv, HoldsOnly
<1>2. IsPass(s, m, j, l) /\ inv \in Inventories
  BY <1>1 DEF Behind, WalkInv, CursorInv
<1>3. m = n /\ j = i /\ l = k
  BY <1>1, <1>2, PassesApart
<1> QED
  BY <1>1, <1>3

LEMMA ImportInvStarts == Init => AgreeInv /\ UniqueInv
<1> SUFFICES ASSUME Init PROVE \A s \in Scopes : Sound(ex[s])
  BY DEF AgreeInv, UniqueInv, Sound
<1>1. \A s \in Scopes : ex[s].rows = {} /\ ex[s].imports = <<>>
  BY DEF Init, EmptyExport
<1> QED
  BY <1>1, NothingSound

LEMMA ImportInvStep == ImportInv /\ [Next]_vars => AgreeInv' /\ UniqueInv'
<1> SUFFICES ASSUME ImportInv, [Next]_vars PROVE AgreeInv' /\ UniqueInv'
  OBVIOUS
<1>1. WalkInv /\ CursorInv
  BY DEF ImportInv, WalkInv
<1>2. ASSUME NEW s \in Scopes, NEW n \in Nat, NEW i \in Nat, NEW k \in Nat, Grows(s, n, i, k)
      PROVE  AgreeInv' /\ UniqueInv'
  <2> DEFINE c == Contribution(s, n, i, k)
  <2>1. /\ IsPass(s, n, i, k) /\ ~Behind(s, n, i, k) /\ inv' = inv
        /\ ex'[s] = Add(ex[s], c) /\ \A t \in Scopes \ {s} : ex'[t] = ex[t]
    BY <1>1, <1>2 DEF Grows, CursorInv
  <2>2. Agrees(c) /\ (BindingsDiffer(inv) => IsInjective(c.imports))
    BY <1>1, <2>1, ContributionSound DEF CursorInv
  <2>3. KeysDiffer(inv) => Apart(ex[s].rows, c.rows)
    BY <1>1, <2>1, NewPassApart
  <2>4. \A r \in ex[s].rows \cup c.rows : r.table \in DOMAIN Module
    BY <1>1, <2>1, RowsOK, ContributedRowOK DEF RowOK, CursorInv
  <2> HIDE DEF c
  <2>5. Agrees(ex'[s])
    BY <2>1, <2>2, AgreesAdd DEF ImportInv, AgreeInv
  <2>6. ASSUME KeysDiffer(inv) PROVE IsInjective(ex'[s].imports)
    <3>1. Sound(ex[s]) /\ Sound(c)
      BY <2>2, <2>6 DEF Sound, ImportInv, AgreeInv, UniqueInv, KeysDiffer
    <3>2. Sound(Add(ex[s], c))
      BY <2>3, <2>4, <2>6, <3>1, SoundAdd
    <3> QED
      BY <2>1, <3>2 DEF Sound
  <2>7. AgreeInv'
    <3>1. \A t \in Scopes \ {s} : Agrees(ex'[t])
      BY <2>1 DEF ImportInv, AgreeInv
    <3>2. \A t \in Scopes : Agrees(ex'[t])
      BY <2>5, <3>1
    <3> QED
      BY <3>2 DEF AgreeInv, Agrees
  <2>8. UniqueInv'
    <3>1. KeysDiffer(inv)' <=> KeysDiffer(inv)
      BY <2>1
    <3>2. KeysDiffer(inv) => \A t \in Scopes \ {s} : IsInjective(ex'[t].imports)
      BY <2>1 DEF ImportInv, UniqueInv
    <3> QED
      BY <2>6, <3>1, <3>2 DEF UniqueInv
  <2> QED
    BY <2>7, <2>8
<1>3. ASSUME Rests PROVE AgreeInv' /\ UniqueInv'
  BY <1>3 DEF Rests, ImportInv, AgreeInv, UniqueInv, Agrees
<1> QED
  BY <1>1, <1>2, <1>3, StepShape

(* Import blocks and variables never disagree, ...                          *)
THEOREM ImportsInvariance == RootSpec => []ImportInv
<1>1. RootInit => ImportInv
  BY WalkInvStarts, ImportInvStarts DEF RootInit, ImportInv
<1>2. ImportInv /\ [RootNext]_<<vars, rootVars>> => ImportInv'
  BY WalkInvStep, ImportInvStep, RootSteps DEF ImportInv
<1> QED
  BY <1>1, <1>2, PTL DEF RootSpec

LEMMA AgreedImports ==
    ASSUME NEW e, Agrees(e)
    PROVE  ToSet(e.imports) = Expected(e.rows)
<1> DEFINE E == Expected(e.rows)
           p == e.imports
<1>1. p \in Seq(E) /\ \A a \in E : \E x \in DOMAIN p : p[x] = a
  BY DEF Agrees
<1> HIDE DEF E, p
<1>2. \A x \in DOMAIN p : p[x] \in E
  BY <1>1
<1>3. ToSet(p) = E
  BY <1>1, <1>2 DEF ToSet
<1> QED
  BY <1>3 DEF E, p

(* ... and where the keys of the inventory differ, each import block is     *)
(* there once: "Imports are derived from the same selection, so the two     *)
(* never disagree."                                                         *)
THEOREM ImportsMatch == RootSpec => [](KeysDiffer(inv) => ImportsMatchVariables)
<1>1. ImportInv => (KeysDiffer(inv) => ImportsMatchVariables)
  BY AgreedImports DEF ImportInv, AgreeInv, UniqueInv, ImportsMatchVariables
<1> QED
  BY <1>1, ImportsInvariance, PTL

-----------------------------------------------------------------------------
(* Everything keeps its type.                                               *)
LEMMA BuilderTypes == ImportInv => TypeOK
<1> SUFFICES ASSUME ImportInv PROVE TypeOK
  OBVIOUS
<1>1. WalkInv /\ CursorInv
  BY DEF ImportInv, WalkInv
<1>2. stage \in [Scopes -> 0..Len(ResourceNames)]
  <2>1. ASSUME NEW s \in Scopes PROVE stage[s] \in 0..Len(ResourceNames)
    <3>1. stage[s] \in 0..Methods(s) /\ Methods(s) \in 3..8 /\ Len(ResourceNames) = 8
      BY <1>1, Groups8 DEF CursorInv, CursorOK
    <3> QED
      BY <3>1
  <2>2. stage \in [Scopes -> Nat]
    BY <1>1 DEF CursorInv
  <2> QED
    BY <2>1, <2>2
<1>3. ASSUME NEW s \in Scopes, NEW r \in ex[s].rows
      PROVE  /\ r.table \in DOMAIN Module /\ r.part \in Parts
             /\ r.table \in Tables => r.key # Blank
  BY <1>1, RowsOK DEF RowOK
<1>4. ASSUME NEW s \in Scopes, NEW x \in DOMAIN ex[s].imports
      PROVE  ex[s].imports[x].module \in {Module[t] : t \in DOMAIN Module}
  <2>1. ex[s].imports[x] \in Expected(ex[s].rows)
    <3>1. ex[s].imports \in Seq(Expected(ex[s].rows))
      BY DEF ImportInv, AgreeInv, Agrees
    <3> QED
      BY <3>1
  <2>2. PICK r \in ex[s].rows : Asks(r, ex[s].imports[x])
    BY <2>1, ExpectedByRow
  <2>3. ex[s].imports[x].module = Module[r.table]
    BY <2>2 DEF Asks, Address
  <2> QED
    BY <1>3, <2>3
<1>5. ASSUME NEW s \in Scopes
      PROVE  ex[s].issues \in Nat /\ report[s].status \in {"none", "complete", "partial"}
  <2>1. ex[s].issues \in Nat
    BY <1>1 DEF WalkInv, CountsIssues
  <2>2. CASE report[s] = NoReport
    BY <2>1, <2>2 DEF NoReport
  <2>3. CASE report[s] # NoReport
    BY <1>1, <2>1, <2>3 DEF WalkInv, ReportInv
  <2> QED
    BY <2>2, <2>3
<1>6. inv \in Inventories /\ at \in [Scopes -> [object : Nat, schema : Nat]]
  BY <1>1 DEF CursorInv
<1> QED
  BY <1>2, <1>3, <1>4, <1>5, <1>6 DEF TypeOK

(* The exclusions that a pass contributes.                                  *)
Excludes(s, n, i, x) ==
    LET o == ObjectOf(n, i) IN
    /\ n \in 1..3 /\ ~InScope(s, o) /\ o.owner \in Scopes
    /\ x = <<Module[ResourceNames[n]], o.name, o.owner>>

LEMMA ContributedExclusions ==
    ASSUME inv \in Inventories, NEW s \in Scopes, NEW n \in Nat, NEW i \in Nat, NEW k \in Nat,
           IsPass(s, n, i, k)
    PROVE  \A x : x \in Contribution(s, n, i, k).excluded <=> k = 0 /\ Excludes(s, n, i, x)
<1> DEFINE o == ObjectOf(n, i)
           g == ResourceNames[n]
           c == Contribution(s, n, i, k)
<1>1. n \in 1..8 /\ i \in DOMAIN Objects(g)
  BY PassNumbers
<1>2. CASE k # 0
  <2> DEFINE schema == o.schemas[k]
  <2>1. c = SchemaPart(o, schema)
    BY <1>2 DEF Contribution
  <2> HIDE DEF o, schema
  <2>2. c.excluded = {}
    BY <2>1, SchemaFields
  <2> QED
    BY <1>2, <2>2
<1>3. CASE k = 0 /\ n \in 1..3
  <2>1. c = SecurablePart(s, g, o)
    BY <1>3 DEF Contribution
  <2> HIDE DEF o, g, c
  <2>2. /\ InScope(s, o) => c.excluded = {}
        /\ ~InScope(s, o) => c.excluded = Exclusion(g, o).excluded
    BY <2>1, SecurableFields
  <2>3. Exclusion(g, o).excluded =
            IF o.owner \in Scopes THEN {<<Module[g], o.name, o.owner>>} ELSE {}
    BY ExclusionFields
  <2>4. \A x : x \in c.excluded <=> /\ ~InScope(s, o) /\ o.owner \in Scopes
                                    /\ x = <<Module[g], o.name, o.owner>>
    BY <2>2, <2>3
  <2> QED
    BY <1>3, <2>4 DEF Excludes, o, g, c
<1>4. CASE k = 0 /\ n \in 4..8
  <2>1. c.excluded = {}
    <3>1. CASE n \in 4..6
      <4>1. c = IdentifiedPart(g, o) /\ o \in IdentifiedInfo
        BY <1>1, <1>4, <3>1, ObjectTypes DEF Contribution, ObjectOf
      <4> QED
        BY <4>1, IdentifiedFields
    <3>2. CASE n = 7
      <4>1. c = SecretScopePart(o) /\ o \in SecretScopeInfo
        BY <1>1, <1>4, <3>2, ObjectTypes DEF Contribution, ObjectOf
      <4> QED
        BY <4>1, SecretScopeFields
    <3>3. CASE n = 8
      <4>1. c = ServicePrincipalPart(o)
        BY <1>4, <3>3 DEF Contribution
      <4> HIDE DEF o
      <4> QED
        BY <4>1, ServicePrincipalFields
    <3> QED
      BY <1>4, <3>1, <3>2, <3>3
  <2> HIDE DEF c
  <2>2. \A x : ~Excludes(s, n, i, x)
    BY <1>4 DEF Excludes
  <2> QED
    BY <2>1, <2>2 DEF c
<1> QED
  BY <1>1, <1>2, <1>3, <1>4

(* When the methods have returned, every pass is behind the cursor.         *)
LEMMA BuiltMeansBehind ==
    ASSUME CursorInv, NEW s \in Scopes, Built(s), NEW n \in Nat, NEW i \in Nat, NEW k \in Nat,
           IsPass(s, n, i, k)
    PROVE  Behind(s, n, i, k)
<1>1. n \in 1..Methods(s) /\ stage[s] = Methods(s) /\ Methods(s) \in 3..8
  BY Groups8 DEF IsPass, Built
<1> QED
  BY <1>1 DEF Behind

(* The pass of an object.                                                   *)
LEMMA ObjectPass ==
    ASSUME inv \in Inventories, NEW s \in Scopes, NEW n \in 1..8, n <= Methods(s),
           NEW i \in DOMAIN Objects(ResourceNames[n])
    PROVE  i \in Nat /\ n \in Nat /\ 0 \in Nat /\ IsPass(s, n, i, 0)
<1>1. i \in 1..Len(Objects(ResourceNames[n])) /\ Len(Objects(ResourceNames[n])) \in Nat
  BY ObjectTypes
<1>2. SchemaPasses(s, n, i) \in Nat
  BY <1>1, SchemaPassesType
<1>3. Methods(s) \in Nat
  BY Groups8
<1> QED
  BY <1>1, <1>2, <1>3 DEF IsPass

(* What a pass contributes, by the object or schema it takes.               *)
LEMMA ContributionOfObject ==
    ASSUME inv \in Inventories, NEW s \in Scopes, NEW n \in Nat, NEW i \in Nat,
           IsPass(s, n, i, 0),
           NEW o, o = ObjectOf(n, i), NEW g, g = ResourceNames[n],
           NEW c, c = Contribution(s, n, i, 0)
    PROVE  /\ n \in 1..3 /\ InScope(s, o) =>
                c.rows = OwnRows(g, o.name) \cup BindingRows(g, o)
                           \cup AccessRows(g, o.name, o.grants)
           /\ n \in 4..6 => IF Whole(o) THEN c.rows = OwnRows(g, o.name) \cup PermissionRows(g, o)
                            ELSE c.issues = 1 /\ c.rows = {}
           /\ n = 7 => /\ c.rows = OwnRows(g, o.name) \cup AclRows(o)
                       /\ c.issues = NoPrincipal(o)
           /\ n = 8 => IF o.name # Blank /\ o.id # Blank THEN c.rows = OwnRows(g, o.name)
                       ELSE c.issues = 1 /\ c.rows = {}
<1>1. n \in 1..8 /\ i \in DOMAIN Objects(g)
  BY PassNumbers
<1>2. CASE n \in 1..3
  <2>1. c = SecurablePart(s, g, o)
    BY <1>2 DEF Contribution
  <2> QED
    BY <1>2, <2>1, SecurableFields
<1>3. CASE n \in 4..6
  <2>1. c = IdentifiedPart(g, o) /\ o \in IdentifiedInfo
    BY <1>1, <1>3, ObjectTypes DEF Contribution, ObjectOf
  <2> QED
    BY <1>3, <2>1, IdentifiedFields
<1>4. CASE n = 7
  <2>1. c = SecretScopePart(o) /\ o \in SecretScopeInfo /\ g = "secret_scopes"
    BY <1>1, <1>4, ObjectTypes, Groups8 DEF Contribution, ObjectOf
  <2> QED
    BY <1>4, <2>1, SecretScopeFields
<1>5. CASE n = 8
  <2>1. c = ServicePrincipalPart(o) /\ g = "service_principals"
    BY <1>1, <1>5, Groups8 DEF Contribution
  <2> QED
    BY <1>5, <2>1, ServicePrincipalFields
<1> QED
  BY <1>1, <1>2, <1>3, <1>4, <1>5

LEMMA ContributionOfSchema ==
    ASSUME NEW s, NEW n, NEW i, NEW k, k # 0,
           NEW o, o = ObjectOf(n, i), NEW schema, schema = o.schemas[k],
           NEW c, c = Contribution(s, n, i, k)
    PROVE  IF schema.name = Blank THEN c.issues = 1 /\ c.rows = {}
           ELSE c.rows = OwnRows("schemas", FullName(o, schema))
                           \cup AccessRows("schemas", FullName(o, schema), schema.grants)
<1>1. c = SchemaPart(o, schema)
  BY DEF Contribution
<1> QED
  BY <1>1, SchemaFields

(* The pass of a schema of a catalog in scope.                              *)
LEMMA SchemaPass ==
    ASSUME inv \in Inventories, NEW s \in Scopes, NEW i \in DOMAIN Objects(ResourceNames[1]),
           InScope(s, ObjectOf(1, i)), NEW k \in DOMAIN ObjectOf(1, i).schemas
    PROVE  i \in Nat /\ k \in Nat /\ k # 0 /\ IsPass(s, 1, i, k)
<1>1. i \in 1..Len(Objects(ResourceNames[1])) /\ Len(Objects(ResourceNames[1])) \in Nat
  BY ObjectTypes
<1>2. ObjectOf(1, i) \in SecurableInfo
  BY ObjectTypes DEF ObjectOf
<1>3. ObjectOf(1, i).schemas \in Seq(SchemaRead)
  BY <1>2 DEF SecurableInfo
<1>4. k \in 1..Len(ObjectOf(1, i).schemas)
  BY <1>3
<1>5. k \in 0..SchemaPasses(s, 1, i)
  BY <1>4 DEF SchemaPasses
<1>6. 1 \in 1..Methods(s)
  BY Groups8
<1> QED
  BY <1>1, <1>4, <1>5, <1>6 DEF IsPass

(* The settings of an object are in the variables exactly when its pass was *)
(* one that exports it.                                                     *)
LEMMA OwnRowOf == ASSUME NEW table, NEW key
    PROVE Row(table, "settings", key, Blank) \in OwnRows(table, key)
BY DEF OwnRows

(* What a report vouches for.                                               *)
LEMMA Reported ==
    ASSUME WalkInv, NEW s \in Scopes, report[s].status = "complete"
    PROVE  /\ Built(s) /\ inv.issues = 0 /\ report[s].excluded = ex[s].excluded
           /\ \A n, i, k \in Nat : IsPass(s, n, i, k) =>
                /\ Contribution(s, n, i, k).rows \subseteq ex[s].rows
                /\ Contribution(s, n, i, k).excluded \subseteq ex[s].excluded
                /\ Contribution(s, n, i, k).issues = 0
<1>1. report[s] # NoReport
  BY DEF NoReport
<1>2. /\ Built(s) /\ report[s].excluded = ex[s].excluded
      /\ ~(inv.issues + ex[s].issues > 0)
  BY <1>1 DEF WalkInv, ReportInv
<1>3. inv.issues \in Nat /\ ex[s].issues \in Nat
  <2>1. inv \in Inventories
    BY DEF WalkInv, CursorInv
  <2>2. IsInventory(inv)
    BY <2>1
  <2> QED
    BY <2>2 DEF IsInventory, WalkInv, CountsIssues
<1>4. inv.issues = 0 /\ ex[s].issues = 0
  BY <1>2, <1>3
<1>5. ASSUME NEW n \in Nat, NEW i \in Nat, NEW k \in Nat, IsPass(s, n, i, k)
      PROVE  Behind(s, n, i, k)
  BY <1>2, <1>5, BuiltMeansBehind DEF WalkInv
<1> QED
  BY <1>2, <1>4, <1>5 DEF WalkInv, HoldsAll

-----------------------------------------------------------------------------
(* A report that says "complete" stands for the whole inventory.            *)
LEMMA WholeObjects ==
    ASSUME WalkInv, report["workspace"].status = "complete",
           NEW g \in Tables \ Securables, NEW i \in DOMAIN Objects(g)
    PROVE  Exported("workspace", g, Objects(g)[i].name)
<1> DEFINE s == "workspace"
           o == Objects(g)[i]
<1>1. inv \in Inventories /\ s \in Scopes /\ Methods(s) = 8
  BY Groups8 DEF WalkInv, CursorInv, Scopes, Methods
<1>2. PICK n \in 1..8 : g = ResourceNames[n]
  BY Groups8 DEF Tables
<1>3. n \in 4..8 /\ n \in Nat /\ i \in Nat /\ IsPass(s, n, i, 0) /\ o = ObjectOf(n, i)
  <2>1. n \in 4..8
    BY <1>2, Groups8
  <2> QED
    BY <1>1, <1>2, <2>1, ObjectPass DEF ObjectOf
<1> DEFINE c == Contribution(s, n, i, 0)
<1>4. c.rows \subseteq ex[s].rows /\ c.issues = 0
  BY <1>1, <1>3, Reported
<1>5. OwnRows(g, o.name) \subseteq c.rows
  <2>1. /\ n \in 4..6 => IF Whole(o) THEN c.rows = OwnRows(g, o.name) \cup PermissionRows(g, o)
                         ELSE c.issues = 1 /\ c.rows = {}
        /\ n = 7 => c.rows = OwnRows(g, o.name) \cup AclRows(o)
        /\ n = 8 => IF o.name # Blank /\ o.id # Blank THEN c.rows = OwnRows(g, o.name)
                    ELSE c.issues = 1 /\ c.rows = {}
    BY <1>1, <1>2, <1>3, ContributionOfObject
  <2> HIDE DEF c, o
  <2>2. CASE n \in 4..6
    BY <1>4, <2>1, <2>2
  <2>3. CASE n = 7
    BY <1>4, <2>1, <2>3
  <2>4. CASE n = 8
    BY <1>4, <2>1, <2>4
  <2> QED
    BY <1>3, <2>2, <2>3, <2>4
<1>6. Row(g, "settings", o.name, Blank) \in ex[s].rows
  BY <1>4, <1>5, OwnRowOf
<1> QED
  BY <1>6 DEF Exported

(* A sequence has finitely many places.                                     *)
LEMMA FiniteDomain == ASSUME NEW S, NEW q \in Seq(S) PROVE IsFiniteSet(DOMAIN q)
<1>1. Len(q) \in Int /\ 1 \in Int /\ DOMAIN q = 1..Len(q)
  OBVIOUS
<1>2. IsFiniteSet(1..Len(q))
  BY <1>1, FS_Interval
<1> QED
  BY <1>1, <1>2

LEMMA WholeAcls ==
    ASSUME WalkInv, report["workspace"].status = "complete",
           NEW i \in DOMAIN inv.secret_scopes, NEW o, o = inv.secret_scopes[i]
    PROVE  /\ o.acls # Fail
           /\ \A p \in ToSet(o.acls) :
                Row("secret_scopes", "acls", o.name, p) \in ex["workspace"].rows
<1> DEFINE s == "workspace"
           acls == o.acls
<1>1. inv \in Inventories /\ s \in Scopes /\ Methods(s) = 8
  BY Groups8 DEF WalkInv, CursorInv, Scopes, Methods
<1>2. inv.issues = 0
  BY <1>1, Reported
<1>3. acls # Fail
  <2>1. IsInventory(inv)
    BY <1>1
  <2> QED
    BY <1>2, <2>1 DEF IsInventory
<1>4. /\ ResourceNames[7] = "secret_scopes" /\ Objects(ResourceNames[7]) = inv.secret_scopes
      /\ inv.secret_scopes \in Seq(SecretScopeInfo)
  <2>1. ResourceNames[7] = "secret_scopes"
    BY Groups8
  <2>2. Objects(ResourceNames[7]) = inv[ResourceNames[7]]
            /\ Objects(ResourceNames[7]) \in Seq(SecretScopeInfo)
    BY <1>1, ObjectTypes
  <2> QED
    BY <2>1, <2>2
<1>5. acls \in Seq(STRING)
  <2>1. o \in SecretScopeInfo
    BY <1>4
  <2> QED
    BY <1>3, <2>1 DEF SecretScopeInfo
<1>6. i \in Nat /\ IsPass(s, 7, i, 0) /\ o = ObjectOf(7, i)
  BY <1>1, <1>4, ObjectPass DEF ObjectOf
<1> DEFINE c == Contribution(s, 7, i, 0)
<1>7. c.rows \subseteq ex[s].rows /\ c.issues = 0
  BY <1>1, <1>6, Reported
<1>8. AclRows(o) \subseteq ex[s].rows /\ NoPrincipal(o) = 0
  <2>1. c.rows = OwnRows(ResourceNames[7], o.name) \cup AclRows(o) /\ c.issues = NoPrincipal(o)
    BY <1>1, <1>6, ContributionOfObject
  <2> HIDE DEF c
  <2> QED
    BY <1>7, <2>1
<1>9. Acls(o) = acls
  BY <1>3 DEF Acls
<1>10. Blank \notin ToSet(acls)
  <2> HIDE DEF acls
  <2> DEFINE blanks == {x \in DOMAIN acls : acls[x] = Blank}
  <2>1. IsFiniteSet(DOMAIN acls)
    BY <1>5, FiniteDomain
  <2>2. IsFiniteSet(blanks)
    BY <2>1, FS_Subset
  <2>3. Cardinality(blanks) = 0
    BY <1>8, <1>9 DEF NoPrincipal
  <2>4. blanks = {}
    <3> HIDE DEF blanks
    <3> QED
      BY <2>2, <2>3, FS_EmptySet
  <2> QED
    BY <2>4 DEF ToSet
<1>11. \A p \in ToSet(acls) : Row("secret_scopes", "acls", o.name, p) \in AclRows(o)
  BY <1>9, <1>10 DEF AclRows
<1> QED
  BY <1>3, <1>8, <1>11

LEMMA WholePermissions ==
    ASSUME WalkInv, report["workspace"].status = "complete",
           NEW g \in Identified, NEW i \in DOMAIN inv[g], NEW o, o = inv[g][i],
           NEW p \in o.permissions
    PROVE  Row(g, "permissions", o.name, p) \in ex["workspace"].rows
<1> DEFINE s == "workspace"
<1>1. inv \in Inventories /\ s \in Scopes /\ Methods(s) = 8
  BY Groups8 DEF WalkInv, CursorInv, Scopes, Methods
<1>2. PICK n \in 4..6 : g = ResourceNames[n]
  BY DEF Identified, ResourceNames
<1>3. Objects(g) = inv[g] /\ o = ObjectOf(n, i)
  <2>1. n \in 1..7 /\ n \in 1..8
    OBVIOUS
  <2> QED
    BY <1>1, <1>2, <2>1, ObjectTypes DEF ObjectOf
<1>4. n \in Nat /\ i \in Nat /\ IsPass(s, n, i, 0)
  BY <1>1, <1>2, <1>3, ObjectPass
<1> DEFINE c == Contribution(s, n, i, 0)
<1>5. c.rows \subseteq ex[s].rows /\ c.issues = 0
  BY <1>1, <1>4, Reported
<1>6. IF Whole(o) THEN c.rows = OwnRows(g, o.name) \cup PermissionRows(g, o)
      ELSE c.issues = 1 /\ c.rows = {}
  BY <1>1, <1>2, <1>3, <1>4, ContributionOfObject
<1> HIDE DEF c
<1>7. PermissionRows(g, o) \subseteq ex[s].rows
  BY <1>5, <1>6
<1> QED
  BY <1>7 DEF PermissionRows

(* The access rows of an export are those of the grants that were read.     *)
LEMMA AccessHeld ==
    ASSUME NEW s, NEW table, NEW key, NEW grants, grants # Fail,
           AccessRows(table, key, grants) \subseteq ex[s].rows
    PROVE  HasAccess(s, table, key, grants)
BY DEF HasAccess, AccessRows

LEMMA WholeSchemas ==
    ASSUME WalkInv, NEW s \in Scopes, report[s].status = "complete",
           NEW i \in DOMAIN inv.catalogs, NEW o, o = inv.catalogs[i], o.owner = s,
           NEW k \in DOMAIN o.schemas, NEW schema, schema = o.schemas[k],
           NEW full, full = FullName(o, schema)
    PROVE  Exported(s, "schemas", full) /\ HasAccess(s, "schemas", full, schema.grants)
<1>1. inv \in Inventories /\ inv.issues = 0
  BY Reported DEF WalkInv, CursorInv
<1>2. ResourceNames[1] = "catalogs" /\ Objects(ResourceNames[1]) = inv.catalogs
  <2>1. ResourceNames[1] = "catalogs" /\ 1 \in 1..7
    BY DEF ResourceNames
  <2>2. Objects(ResourceNames[1]) = inv[ResourceNames[1]]
    BY <1>1, <2>1, ObjectTypes
  <2> QED
    BY <2>1, <2>2
<1>3. o = ObjectOf(1, i) /\ InScope(s, ObjectOf(1, i))
  BY <1>2 DEF ObjectOf, InScope
<1>4. i \in Nat /\ k \in Nat /\ k # 0 /\ IsPass(s, 1, i, k)
  BY <1>1, <1>2, <1>3, SchemaPass
<1> DEFINE c == Contribution(s, 1, i, k)
<1>5. c.rows \subseteq ex[s].rows /\ c.issues = 0
  BY <1>4, Reported
<1>6. IF schema.name = Blank THEN c.issues = 1 /\ c.rows = {}
      ELSE c.rows = OwnRows("schemas", full) \cup AccessRows("schemas", full, schema.grants)
  BY <1>3, <1>4, ContributionOfSchema
<1> HIDE DEF c
<1>7. OwnRows("schemas", full) \cup AccessRows("schemas", full, schema.grants) \subseteq ex[s].rows
  BY <1>5, <1>6
<1>8. schema.grants # Fail
  <2>1. IsInventory(inv)
    BY <1>1
  <2>2. SecurableRead(inv.catalogs[i])
    BY <1>1, <2>1 DEF IsInventory, Securables
  <2> QED
    BY <2>2 DEF SecurableRead
<1>9. Row("schemas", "settings", full, Blank) \in ex[s].rows
  BY <1>7, OwnRowOf
<1> QED
  BY <1>7, <1>8, <1>9, AccessHeld DEF Exported

LEMMA WholeSecurables ==
    ASSUME WalkInv, NEW s \in Scopes, report[s].status = "complete",
           NEW g \in Securables, NEW i \in DOMAIN inv[g], NEW o, o = inv[g][i]
    PROVE  IF o.owner = s THEN WholeSecurable(s, g, o)
           ELSE <<Module[g], o.name, o.owner>> \in report[s].excluded
<1>1. inv \in Inventories /\ inv.issues = 0 /\ report[s].excluded = ex[s].excluded
  BY Reported DEF WalkInv, CursorInv
<1>2. PICK n \in 1..3 : g = ResourceNames[n]
  BY DEF Securables, ResourceNames
<1>3. Objects(g) = inv[g] /\ o = ObjectOf(n, i) /\ o \in SecurableInfo
  <2>1. n \in 1..7
    OBVIOUS
  <2>2. Objects(g) = inv[g] /\ Objects(g) \in Seq(SecurableInfo)
    BY <1>1, <1>2, <2>1, ObjectTypes
  <2> QED
    BY <1>2, <2>2 DEF ObjectOf
<1>4. n \in Nat /\ i \in Nat /\ IsPass(s, n, i, 0)
  <2>1. n \in 1..8 /\ n <= Methods(s)
    BY Groups8
  <2> QED
    BY <1>1, <1>2, <1>3, <2>1, ObjectPass
<1>5. o.owner \in Scopes /\ o.grants # Fail
  <2>1. IsInventory(inv)
    BY <1>1
  <2>2. SecurableRead(o)
    BY <1>1, <2>1 DEF IsInventory
  <2>3. o.owner \in {"workspace", "shared", "unknown"}
    BY <1>3 DEF SecurableInfo
  <2> QED
    BY <2>2, <2>3 DEF SecurableRead, Scopes
<1> DEFINE c == Contribution(s, n, i, 0)
<1>6. c.rows \subseteq ex[s].rows /\ c.excluded \subseteq ex[s].excluded
  BY <1>4, Reported
<1>7. CASE o.owner # s
  <2>1. Excludes(s, n, i, <<Module[g], o.name, o.owner>>)
    BY <1>2, <1>3, <1>5, <1>7 DEF Excludes, InScope
  <2>2. <<Module[g], o.name, o.owner>> \in c.excluded
    BY <1>1, <1>4, <2>1, ContributedExclusions
  <2> QED
    BY <1>1, <1>6, <1>7, <2>2
<1>8. CASE o.owner = s
  <2>1. c.rows = OwnRows(g, o.name) \cup BindingRows(g, o) \cup AccessRows(g, o.name, o.grants)
    BY <1>1, <1>2, <1>3, <1>4, <1>8, ContributionOfObject DEF InScope
  <2> HIDE DEF c
  <2>2. /\ OwnRows(g, o.name) \subseteq ex[s].rows
        /\ BindingRows(g, o) \subseteq ex[s].rows
        /\ AccessRows(g, o.name, o.grants) \subseteq ex[s].rows
    BY <1>6, <2>1
  <2>3. Exported(s, g, o.name)
    BY <2>2, OwnRowOf DEF Exported
  <2>4. HasAccess(s, g, o.name, o.grants)
    BY <1>5, <2>2, AccessHeld
  <2>5. \A k \in DOMAIN o.bindings :
          Exported(s, "workspace_bindings", BindingKey(o.bindings[k], g, o))
    BY <2>2 DEF BindingRows, Exported
  <2>6. ASSUME g = Catalogs, NEW k \in DOMAIN o.schemas
        PROVE  /\ Exported(s, "schemas", FullName(o, o.schemas[k]))
               /\ HasAccess(s, "schemas", FullName(o, o.schemas[k]), o.schemas[k].grants)
    <3>1. g = "catalogs" /\ i \in DOMAIN inv.catalogs /\ o = inv.catalogs[i]
      BY <2>6 DEF Catalogs
    <3> QED
      BY <1>8, <3>1, WholeSchemas
  <2> QED
    BY <1>8, <2>3, <2>4, <2>5, <2>6 DEF WholeSecurable
<1> QED
  BY <1>7, <1>8

(* Whatever the inventory, a complete report stands for all of it.          *)
THEOREM CompleteIsWhole == RootSpec => []CompleteMeansWhole
<1>1. WalkInv => CompleteMeansWhole
  BY WholeObjects, WholePermissions, WholeAcls, WholeSecurables DEF CompleteMeansWhole
<1> QED
  BY <1>1, Walk, PTL

-----------------------------------------------------------------------------
(* The two roots divide the securables.                                     *)
LEMMA ExportedByOwner ==
    ASSUME WalkInv, NamesDiffer(inv, Securables), NEW s \in Scopes, Built(s),
           NEW g \in Securables, NEW i \in DOMAIN inv[g], NEW o, o = inv[g][i]
    PROVE  /\ Exported(s, g, o.name) <=> o.owner = s
           /\ <<Module[g], o.name, o.owner>> \in ex[s].excluded <=> o.owner \in Scopes \ {s}
<1>1. inv \in Inventories /\ CursorInv
  BY DEF WalkInv, CursorInv
<1>2. PICK n \in 1..3 : g = ResourceNames[n]
  BY DEF Securables, ResourceNames
<1>3. /\ \A m \in 1..3 : /\ ResourceNames[m] \in Securables
                         /\ Objects(ResourceNames[m]) = inv[ResourceNames[m]]
                         /\ Objects(ResourceNames[m]) \in Seq(SecurableInfo)
                         /\ ResourceNames[m] = g => m = n
      /\ \A m \in 1..8 : ResourceNames[m] = g => m = n
  <2>1. ASSUME NEW m \in 1..3
        PROVE  /\ ResourceNames[m] \in Securables
               /\ Objects(ResourceNames[m]) = inv[ResourceNames[m]]
               /\ Objects(ResourceNames[m]) \in Seq(SecurableInfo)
    <3>1. m \in 1..7 /\ m \in 1..8
      OBVIOUS
    <3> QED
      BY <1>1, <2>1, <3>1, ObjectTypes, Groups8
  <2>2. \A m \in 1..8 : ResourceNames[m] = g => m = n
    BY <1>2, Groups8
  <2> QED
    BY <2>1, <2>2
<1>4. /\ Objects(g) = inv[g] /\ o = ObjectOf(n, i) /\ o \in SecurableInfo
      /\ i \in Nat /\ n \in Nat /\ IsPass(s, n, i, 0) /\ Behind(s, n, i, 0)
  <2>1. Objects(g) = inv[g] /\ o = ObjectOf(n, i) /\ o \in SecurableInfo
    BY <1>2, <1>3 DEF ObjectOf
  <2>2. n \in 1..8 /\ n <= Methods(s)
    BY Groups8
  <2>3. i \in Nat /\ n \in Nat /\ IsPass(s, n, i, 0)
    BY <1>1, <1>2, <2>1, <2>2, ObjectPass
  <2> QED
    BY <1>1, <2>1, <2>3, BuiltMeansBehind
<1> DEFINE c == Contribution(s, n, i, 0)
<1>5. c.rows \subseteq ex[s].rows /\ c.excluded \subseteq ex[s].excluded
  BY <1>4 DEF WalkInv, HoldsAll
<1>6. \A j \in DOMAIN inv[g] : inv[g][j].name = o.name => j = i
  <2>1. Keyed(g, inv[g]) = inv[g]
    BY <1>4 DEF Objects
  <2>2. o.name # Blank
    BY <1>4 DEF SecurableInfo
  <2> QED
    BY <2>1, <2>2 DEF NamesDiffer
<1>7. ASSUME NEW m \in Nat, NEW j \in Nat, m \in 1..8, j \in DOMAIN Objects(ResourceNames[m]),
             ResourceNames[m] = g, ObjectOf(m, j).name = o.name
      PROVE  ObjectOf(m, j) = o
  <2>1. j \in DOMAIN inv[g] /\ ObjectOf(m, j) = inv[g][j]
    BY <1>4, <1>7 DEF ObjectOf
  <2> QED
    BY <1>6, <1>7, <2>1
<1>8. o.owner = s => Exported(s, g, o.name)
  <2>1. SUFFICES ASSUME o.owner = s PROVE Row(g, "settings", o.name, Blank) \in c.rows
    BY <1>5 DEF Exported
  <2>2. c.rows = OwnRows(g, o.name) \cup BindingRows(g, o) \cup AccessRows(g, o.name, o.grants)
    BY <1>1, <1>2, <1>4, <2>1, ContributionOfObject DEF InScope
  <2> HIDE DEF c
  <2> QED
    BY <2>2, OwnRowOf
<1>9. ASSUME Exported(s, g, o.name) PROVE o.owner = s
  <2> DEFINE r == Row(g, "settings", o.name, Blank)
  <2>1. r \in ex[s].rows /\ r.table = g /\ r.key = o.name
    BY <1>9 DEF Exported, Row
  <2> HIDE DEF r
  <2>2. PICK m, j, l \in Nat : Behind(s, m, j, l) /\ r \in Contribution(s, m, j, l).rows
    BY <2>1 DEF WalkInv, HoldsOnly
  <2>3. IsPass(s, m, j, l)
    BY <2>2 DEF Behind
  <2>4. m \in 1..8 /\ j \in DOMAIN Objects(ResourceNames[m])
    BY <1>1, <2>3, PassNumbers
  <2>5. g # "workspace_bindings" /\ g # "schemas"
    BY DEF Securables
  <2>6. ObjectRow(s, m, j, r)
    <3>1. ~BindingRow(s, m, j, r) /\ ~SchemaRow(s, m, j, l, r)
      BY <2>1, <2>5 DEF BindingRow, SchemaRow
    <3> QED
      BY <1>1, <2>2, <2>3, <3>1, ContributedRows
  <2>7. ResourceNames[m] = g /\ ObjectOf(m, j).name = o.name
    BY <2>1, <2>6 DEF ObjectRow
  <2>8. m = n /\ ObjectOf(m, j) = o
    BY <1>3, <1>7, <2>4, <2>7
  <2>9. InScope(s, o)
    BY <1>2, <2>6, <2>8 DEF ObjectRow
  <2> QED
    BY <2>9 DEF InScope
<1> DEFINE x == <<Module[g], o.name, o.owner>>
<1>10. o.owner \in Scopes \ {s} => x \in ex[s].excluded
  <2>1. SUFFICES ASSUME o.owner \in Scopes \ {s} PROVE x \in c.excluded
    BY <1>5
  <2>2. Excludes(s, n, i, x)
    BY <1>2, <1>4, <2>1 DEF Excludes, InScope
  <2> QED
    BY <1>1, <1>4, <2>2, ContributedExclusions
<1>11. ASSUME x \in ex[s].excluded PROVE o.owner \in Scopes \ {s}
  <2>1. PICK m, j, l \in Nat : Behind(s, m, j, l) /\ x \in Contribution(s, m, j, l).excluded
    BY <1>11 DEF WalkInv, HoldsOnly
  <2>2. IsPass(s, m, j, l)
    BY <2>1 DEF Behind
  <2>3. Excludes(s, m, j, x)
    BY <1>1, <2>1, <2>2, ContributedExclusions
  <2>4. /\ m \in 1..3 /\ ~InScope(s, ObjectOf(m, j)) /\ ObjectOf(m, j).owner \in Scopes
        /\ Module[ResourceNames[m]] = Module[g] /\ ObjectOf(m, j).owner = o.owner
    BY <2>3 DEF Excludes
  <2> QED
    BY <2>4 DEF InScope
<1> QED
  BY <1>8, <1>9, <1>10, <1>11

THEOREM Partition == RootSpec => [](NamesDiffer(inv, Securables) => ScopesPartition)
<1>1. ASSUME WalkInv, NamesDiffer(inv, Securables), Done,
             NEW g \in Securables, NEW i \in DOMAIN inv[g], NEW s \in Scopes
      PROVE  /\ Exported(s, g, inv[g][i].name) <=> inv[g][i].owner = s
             /\ <<Module[g], inv[g][i].name, inv[g][i].owner>> \in report[s].excluded
                  <=> inv[g][i].owner \in Scopes \ {s}
  <2>1. Built(s) /\ report[s].excluded = ex[s].excluded
    BY <1>1 DEF Done, WalkInv, ReportInv
  <2> QED
    BY <1>1, <2>1, ExportedByOwner
<1>2. WalkInv => (NamesDiffer(inv, Securables) => ScopesPartition)
  BY <1>1 DEF ScopesPartition
<1> QED
  BY <1>2, Walk, PTL

-----------------------------------------------------------------------------
(* The command: what it renders is a finished export.                       *)
OptionNames == {"scope", "layout", "scaffold", "rootModule", "source", "version"}

CommandInv ==
    /\ phase \in {"building", "prepared", "resolved", "rendered", "failed"}
    /\ DOMAIN options = OptionNames
    /\ options.layout \in {Blank, "workspace", "resources"} /\ options.scaffold \in BOOLEAN
    /\ registry = <<>> \/ registry \in Registries
    /\ phase # "building" =>
         /\ Done /\ options.scope \in Scopes /\ options.layout \in {"workspace", "resources"}
         /\ options.layout = "resources" => options.rootModule = Blank
    /\ files = IF phase = "rendered" THEN Over(scaffoldFiles, ExportFiles) ELSE <<>>

LEMMA CommandInvStarts == RootInit => CommandInv
BY DEF RootInit, CommandInv, NoOptions, OptionNames

(* Once all reports are there the builder is at rest.                       *)
LEMMA BuilderRests == ASSUME WalkInv, Done, Next PROVE UNCHANGED vars
<1>1. \A s \in Scopes : Built(s) /\ report[s] # NoReport
  BY DEF Done, WalkInv, ReportInv
<1>2. \A s \in Scopes : /\ ~BuildSecurables(s) /\ ~BuildSchemas(s) /\ ~BuildIdentified(s)
                        /\ ~BuildSecretScopes(s) /\ ~BuildServicePrincipals(s)
                        /\ ~NextMethod(s) /\ ~NewReport(s)
  BY <1>1 DEF BuildSecurables, BuildSchemas, BuildIdentified, BuildSecretScopes,
              BuildServicePrincipals, NextMethod, NewReport, AddNext
<1> QED
  BY <1>2 DEF Next, Finished

(* What is rendered, from the variables that it is made of.                 *)
LEMMA RenderedStays ==
    ASSUME UNCHANGED <<vars, options, versions>>
    PROVE  Over(scaffoldFiles, ExportFiles)' = Over(scaffoldFiles, ExportFiles)
BY DEF vars, scaffoldFiles, ExportFiles, RenderResources, Render, resourceRoot, ResourceModules,
       Rows, Variables, RenderImports

LEMMA CommandInvStep == WalkInv /\ CommandInv /\ [RootNext]_<<vars, rootVars>> => CommandInv'
<1> SUFFICES ASSUME WalkInv, CommandInv, [RootNext]_<<vars, rootVars>> PROVE CommandInv'
  OBVIOUS
<1> DEFINE rendered == Over(scaffoldFiles, ExportFiles)
<1>1. ASSUME UNCHANGED <<vars, rootVars>> PROVE CommandInv'
  <2>1. rendered' = rendered
    BY <1>1, RenderedStays DEF rootVars
  <2>2. Done' <=> Done
    BY <1>1 DEF vars, Done
  <2> HIDE DEF rendered
  <2> QED
    BY <1>1, <2>1, <2>2 DEF CommandInv, rootVars, rendered
<1>2. CASE Next /\ UNCHANGED rootVars
  <2>1. CASE Done
    BY <1>1, <1>2, <2>1, BuilderRests
  <2>2. CASE ~Done
    <3>1. phase = "building" /\ phase' = "building"
              /\ UNCHANGED <<options, registry, versions, files>>
      BY <1>2, <2>2 DEF CommandInv, rootVars
    <3> QED
      BY <3>1 DEF CommandInv
  <2> QED
    BY <2>1, <2>2
<1>3. ASSUME NEW s \in Scopes, Prepare(s) PROVE CommandInv'
  <2>1. PICK f \in Flags :
          /\ PrepareLayout(f)
          /\ options' = [NoOptions EXCEPT
               !.scope = s, !.layout = f.layout, !.scaffold = f.scaffold, !.source = f.source,
               !.version = f.version,
               !.rootModule = IF f.layout = "resources" THEN Blank ELSE f.rootModule]
    BY <1>3 DEF Prepare
  <2>2. f.layout \in {"workspace", "resources"} /\ f.scaffold \in BOOLEAN
    BY DEF Flags
  <2>3. /\ DOMAIN options' = OptionNames /\ options'.scope = s /\ options'.layout = f.layout
        /\ options'.scaffold = f.scaffold
        /\ options'.rootModule = IF f.layout = "resources" THEN Blank ELSE f.rootModule
    BY <2>1 DEF NoOptions, OptionNames
  <2>4. /\ phase = "building" /\ phase' = "prepared" /\ Done
        /\ UNCHANGED <<registry, versions, files, vars>>
    BY <1>3 DEF Prepare, Done
  <2>5. Done'
    BY <2>4 DEF vars, Done
  <2> QED
    BY <2>2, <2>3, <2>4, <2>5 DEF CommandInv
<1>4. CASE ResolveVersions
  <2>1. /\ phase = "prepared" /\ phase' \in {"resolved", "failed"} /\ UNCHANGED <<files, vars>>
        /\ registry' = registry \/ registry' \in Registries
        /\ \/ options' = options
           \/ options' = [options EXCEPT !.version = LatestVersion(registry'[options.source])]
    BY <1>4 DEF ResolveVersions
  <2>2. /\ DOMAIN options' = OptionNames /\ options'.scope = options.scope
        /\ options'.layout = options.layout /\ options'.scaffold = options.scaffold
        /\ options'.rootModule = options.rootModule
    BY <2>1 DEF CommandInv, OptionNames
  <2>3. Done'
    BY <2>1 DEF CommandInv, vars, Done
  <2> QED
    BY <2>1, <2>2, <2>3 DEF CommandInv
<1>5. CASE RenderFiles
  <2>1. /\ phase = "resolved" /\ phase' = "rendered" /\ files' = rendered
        /\ UNCHANGED <<options, registry, versions, vars>>
    BY <1>5 DEF RenderFiles
  <2>2. rendered' = rendered
    BY <2>1, RenderedStays
  <2>3. Done'
    BY <2>1 DEF CommandInv, vars, Done
  <2> HIDE DEF rendered
  <2> QED
    BY <2>1, <2>2, <2>3 DEF CommandInv, rendered
<1> QED
  BY <1>1, <1>2, <1>3, <1>4, <1>5 DEF RootNext

(* The files that are rendered.                                             *)
LEMMA FileNames ==
    /\ DOMAIN ExportFiles = {"terraform.tfvars", "imports.tf"}
    /\ DOMAIN scaffoldFiles \subseteq {"terraform.tfvars", "main.tf", "variables.tf"}
<1>1. DOMAIN ExportFiles = {"terraform.tfvars", "imports.tf"}
  BY DEF ExportFiles, Over, File
<1>2. DOMAIN Render = {"main.tf", "variables.tf"}
  BY DEF Render, Over, File
<1>3. \A m : DOMAIN resourceRoot(m) = {"main.tf", "variables.tf"}
  BY DEF resourceRoot, Over, File
<1>4. DOMAIN RenderResources \subseteq {"terraform.tfvars", "main.tf", "variables.tf"}
  BY <1>3 DEF RenderResources, Over, File
<1> QED
  BY <1>1, <1>2, <1>4 DEF scaffoldFiles

THEOREM CommandInvariance == RootSpec => []CommandInv
<1> QED
  BY CommandInvStarts, CommandInvStep, Walk, PTL DEF RootSpec

(* All of the state keeps its type.                                         *)
THEOREM RootTyping == RootSpec => []RootTypeOK
<1>1. TypeOK /\ CommandInv => RootTypeOK
  <2> SUFFICES ASSUME TypeOK, CommandInv PROVE RootTypeOK
    OBVIOUS
  <2>1. DOMAIN files \subseteq {"terraform.tfvars", "imports.tf", "main.tf", "variables.tf"}
    <3>1. DOMAIN Over(scaffoldFiles, ExportFiles) = DOMAIN scaffoldFiles \cup DOMAIN ExportFiles
      BY DEF Over
    <3>2. DOMAIN <<>> = {}
      OBVIOUS
    <3> QED
      BY <3>1, <3>2, FileNames DEF CommandInv
  <2> QED
    BY <2>1 DEF CommandInv, RootTypeOK
<1> QED
  BY <1>1, BuilderTypes, ImportsInvariance, CommandInvariance, PTL

-----------------------------------------------------------------------------
(* The import blocks that are rendered import to what the export lists.     *)
IsAddress(a) == a = Address(a.module, a.key, a.resource, a.index)

LEMMA KeyOfImport ==
    ASSUME NEW i
    PROVE  /\ importKey(i).module = i.module /\ importKey(i).resource = i.resource
           /\ importKey(i).kind = "string" \/ importKey(i).index = i.index
  BY DEF importKey

LEMMA GroupTargets ==
    ASSUME NEW g, NEW S, \A i \in S : IsAddress(i) /\ importKey(i) = g
    PROVE  importTargets(g, importValues(g, S)) = S
<1> DEFINE vals == importValues(g, S)
<1>1. \A i \in S : /\ IsAddress(i) /\ g.module = i.module /\ g.resource = i.resource
                   /\ g.kind = "string" \/ g.index = i.index
  BY KeyOfImport
<1>2. CASE g.kind = "string"
  <2>1. vals = [k \in {<<i.key, i.index>> : i \in S} |-> CHOOSE i \in S : <<i.key, i.index>> = k]
    BY <1>2 DEF importValues
  <2>2. importTargets(g, vals) =
          {Address(g.module, vals[k].key, g.resource, vals[k].index) : k \in DOMAIN vals}
    BY <1>2 DEF importTargets
  <2>3. DOMAIN vals = {<<i.key, i.index>> : i \in S}
    BY <2>1
  <2>4. ASSUME NEW k \in DOMAIN vals
        PROVE  vals[k] \in S /\ <<vals[k].key, vals[k].index>> = k
    <3>1. PICK i \in S : <<i.key, i.index>> = k
      BY <2>3
    <3>2. vals[k] = CHOOSE x \in S : <<x.key, x.index>> = k
      BY <2>1
    <3> HIDE DEF vals
    <3> QED
      BY <3>1, <3>2
  <2> HIDE DEF vals
  <2>5. \A k \in DOMAIN vals :
          Address(g.module, vals[k].key, g.resource, vals[k].index) = vals[k]
    BY <1>1, <2>4 DEF IsAddress
  <2>6. importTargets(g, vals) = {vals[k] : k \in DOMAIN vals}
    BY <2>2, <2>5
  <2>7. ASSUME NEW i \in S PROVE \E k \in DOMAIN vals : vals[k] = i
    <3>1. <<i.key, i.index>> \in DOMAIN vals
      BY <2>3
    <3>2. PICK k \in DOMAIN vals : k = <<i.key, i.index>>
      BY <3>1
    <3>3. vals[k] \in S /\ vals[k].key = i.key /\ vals[k].index = i.index
      BY <2>4, <3>2
    <3>4. vals[k] = i
      BY <1>1, <3>3 DEF IsAddress
    <3> QED
      BY <3>4
  <2> QED
    BY <2>4, <2>6, <2>7 DEF vals
<1>3. CASE g.kind # "string"
  <2>1. DOMAIN vals = {i.key : i \in S}
    BY <1>3 DEF importValues
  <2>2. importTargets(g, vals) = {Address(g.module, k, g.resource, g.index) : k \in DOMAIN vals}
    BY <1>3 DEF importTargets
  <2> HIDE DEF vals
  <2>3. \A i \in S : Address(g.module, i.key, g.resource, g.index) = i
    BY <1>1, <1>3 DEF IsAddress
  <2>4. ASSUME NEW a \in importTargets(g, vals) PROVE a \in S
    <3>1. PICK k \in DOMAIN vals : a = Address(g.module, k, g.resource, g.index)
      BY <2>2
    <3>2. PICK i \in S : k = i.key
      BY <2>1
    <3> QED
      BY <2>3, <3>1, <3>2
  <2>5. ASSUME NEW i \in S PROVE i \in importTargets(g, vals)
    <3>1. i.key \in DOMAIN vals
      BY <2>1
    <3> QED
      BY <2>2, <2>3, <3>1
  <2>6. importTargets(g, vals) = S
    BY <2>4, <2>5
  <2> QED
    BY <2>6 DEF vals
<1> QED
  BY <1>2, <1>3

LEMMA RenderedTargets ==
    ASSUME NEW imports, \A a \in ToSet(imports) : IsAddress(a), NEW m,
           NEW t, t = RenderImports(imports, m).targets
    PROVE  UNION {t[g] : g \in DOMAIN t} = ToSet(imports)
<1> DEFINE A == ToSet(imports)
           in(g) == {i \in A : importKey(i) = g}
<1>1. t = [g \in {importKey(i) : i \in A} |-> importTargets(g, importValues(g, in(g)))]
  BY DEF RenderImports
<1>2. \A g : importTargets(g, importValues(g, in(g))) = in(g)
  <2> TAKE g
  <2> DEFINE S == in(g)
  <2>1. \A i \in S : IsAddress(i) /\ importKey(i) = g
    OBVIOUS
  <2> HIDE DEF S
  <2>2. importTargets(g, importValues(g, S)) = S
    BY <2>1, GroupTargets
  <2> QED
    BY <2>2 DEF S
<1>3. DOMAIN t = {importKey(i) : i \in A} /\ \A g \in DOMAIN t : t[g] = in(g)
  BY <1>1, <1>2
<1> HIDE DEF A
<1>4. ASSUME NEW g \in DOMAIN t PROVE t[g] \subseteq A
  BY <1>3
<1>5. ASSUME NEW i \in A PROVE \E g \in DOMAIN t : i \in t[g]
  <2>1. importKey(i) \in DOMAIN t /\ i \in in(importKey(i))
    BY <1>3
  <2>2. i \in t[importKey(i)]
    BY <1>3, <2>1
  <2> QED
    BY <2>1, <2>2
<1>6. UNION {t[g] : g \in DOMAIN t} = A
  BY <1>4, <1>5
<1> QED
  BY <1>6 DEF A

-----------------------------------------------------------------------------
(* Every row hangs on the settings of its object, in a table of its kind.   *)
IsRow(r) == r = Row(r.table, r.part, r.key, r.item)

RowPlace(s, r) ==
    /\ r.part = "access" => r.table \in Securables \cup {"schemas"}
    /\ r.part = "permissions" => r.table \in Identified /\ r.item # Blank
    /\ r.part = "acls" => r.table = "secret_scopes" /\ r.item # Blank
    /\ s = "shared" => r.table \in Securables \cup {"schemas", "workspace_bindings"}

LEMMA PlaceOfRow ==
    ASSUME inv \in Inventories, NEW s \in Scopes, NEW n \in Nat, NEW i \in Nat, NEW k \in Nat,
           IsPass(s, n, i, k), NEW r \in Contribution(s, n, i, k).rows
    PROVE  RowPlace(s, r)
<1>1. n \in 1..8 /\ i \in DOMAIN Objects(ResourceNames[n])
  BY PassNumbers
<1>2. s = "shared" => n \in 1..3
  BY DEF IsPass, Methods
<1>3. CASE ObjectRow(s, n, i, r)
  <2>1. /\ r.table = ResourceNames[n]
        /\ r.part = "access" => n \in 1..3
        /\ r.part = "permissions" => n \in 4..6 /\ r.item \in ObjectOf(n, i).permissions
        /\ r.part = "acls" => n = 7 /\ r.item # Blank
    BY <1>3 DEF ObjectRow
  <2>2. ASSUME n \in 4..6, r.item \in ObjectOf(n, i).permissions PROVE r.item # Blank
    <3>1. ObjectOf(n, i) \in IdentifiedInfo
      <4>1. Objects(ResourceNames[n]) \in Seq(IdentifiedInfo)
        BY <2>2, ObjectTypes
      <4> QED
        BY <1>1, <4>1 DEF ObjectOf
    <3>2. ObjectOf(n, i).permissions \in SUBSET (STRING \ {Blank})
      BY <3>1 DEF IdentifiedInfo
    <3> QED
      BY <2>2, <3>2
  <2>3. /\ ResourceNames[n] \in Securables <=> n \in 1..3
        /\ ResourceNames[n] \in Identified <=> n \in 4..6
        /\ ResourceNames[n] = "secret_scopes" <=> n = 7
    BY <1>1, Groups8
  <2> QED
    BY <1>2, <2>1, <2>2, <2>3 DEF RowPlace
<1>4. CASE BindingRow(s, n, i, r)
  BY <1>4 DEF BindingRow, RowPlace
<1>5. CASE SchemaRow(s, n, i, k, r)
  BY <1>5 DEF SchemaRow, RowPlace
<1> QED
  BY <1>3, <1>4, <1>5, ContributedRows

(* Each pass that contributes a row contributes the settings of its object. *)
LEMMA RowsAreRows ==
    ASSUME NEW table, NEW key, NEW grants, NEW o
    PROVE  /\ \A r \in OwnRows(table, key) : IsRow(r)
           /\ \A r \in AccessRows(table, key, grants) : IsRow(r)
           /\ \A r \in BindingRows(table, o) : IsRow(r)
<1>1. \A t, p, k, i : IsRow(Row(t, p, k, i))
  BY DEF IsRow, Row
<1>2. \A r \in OwnRows(table, key) : IsRow(r)
  BY <1>1 DEF OwnRows
<1>3. \A r \in AccessRows(table, key, grants) : IsRow(r)
  BY <1>1 DEF AccessRows
<1>4. \A r \in BindingRows(table, o) : IsRow(r)
  BY <1>1 DEF BindingRows
<1> QED
  BY <1>2, <1>3, <1>4

LEMMA ContributedSettings ==
    ASSUME inv \in Inventories, NEW s \in Scopes, NEW n \in Nat, NEW i \in Nat, NEW k \in Nat,
           IsPass(s, n, i, k), NEW r \in Contribution(s, n, i, k).rows
    PROVE  Row(r.table, "settings", r.key, Blank) \in Contribution(s, n, i, k).rows
<1> DEFINE o == ObjectOf(n, i)
           g == ResourceNames[n]
           c == Contribution(s, n, i, k)
<1>1. n \in 1..8
  BY PassNumbers
<1>2. CASE k = 0 /\ ObjectRow(s, n, i, r)
  <2>1. r.table = g /\ r.key = o.name /\ (n \in 1..3 => InScope(s, o))
    BY <1>2 DEF ObjectRow
  <2>2. /\ n \in 1..3 /\ InScope(s, o) =>
             c.rows = OwnRows(g, o.name) \cup BindingRows(g, o) \cup AccessRows(g, o.name, o.grants)
        /\ n \in 4..6 => IF Whole(o) THEN c.rows = OwnRows(g, o.name) \cup PermissionRows(g, o)
                         ELSE c.issues = 1 /\ c.rows = {}
        /\ n = 7 => c.rows = OwnRows(g, o.name) \cup AclRows(o)
        /\ n = 8 => IF o.name # Blank /\ o.id # Blank THEN c.rows = OwnRows(g, o.name)
                    ELSE c.issues = 1 /\ c.rows = {}
    BY <1>2, ContributionOfObject
  <2> HIDE DEF c, o, g
  <2>3. r \in c.rows
    BY DEF c
  <2>4. OwnRows(g, o.name) \subseteq c.rows
    <3>1. CASE n \in 1..3
      BY <2>1, <2>2, <3>1
    <3>2. CASE n \in 4..6
      BY <2>2, <2>3, <3>2
    <3>3. CASE n = 7
      BY <2>2, <3>3
    <3>4. CASE n = 8
      BY <2>2, <2>3, <3>4
    <3> QED
      BY <1>1, <3>1, <3>2, <3>3, <3>4
  <2>5. Row(r.table, "settings", r.key, Blank) \in c.rows
    BY <2>1, <2>4, OwnRowOf
  <2> QED
    BY <2>5 DEF c
<1>3. CASE k = 0 /\ BindingRow(s, n, i, r)
  <2>1. /\ r.table = "workspace_bindings" /\ r.part = "settings" /\ r.item = Blank
        /\ n \in 1..3 /\ InScope(s, o)
    BY <1>3 DEF BindingRow
  <2>2. c.rows = OwnRows(g, o.name) \cup BindingRows(g, o) \cup AccessRows(g, o.name, o.grants)
    BY <1>3, <2>1, ContributionOfObject
  <2> HIDE DEF c, o, g
  <2>3. IsRow(r)
    BY <2>2, RowsAreRows DEF c
  <2> QED
    BY <2>1, <2>3 DEF IsRow
<1>4. CASE k # 0 /\ SchemaRow(s, n, i, k, r)
  <2> DEFINE schema == o.schemas[k]
             full == FullName(o, schema)
  <2>1. r.table = "schemas" /\ r.key = full /\ schema.name # Blank
    BY <1>4 DEF SchemaRow
  <2>2. IF schema.name = Blank THEN c.issues = 1 /\ c.rows = {}
        ELSE c.rows = OwnRows("schemas", full) \cup AccessRows("schemas", full, schema.grants)
    BY <1>4, ContributionOfSchema
  <2> HIDE DEF c, o, schema, full
  <2>3. Row(r.table, "settings", r.key, Blank) \in c.rows
    BY <2>1, <2>2, OwnRowOf
  <2> QED
    BY <2>3 DEF c
<1> QED
  BY <1>2, <1>3, <1>4, ContributedRows

LEMMA RowsHang ==
    ASSUME WalkInv, NEW s \in Scopes, NEW r \in ex[s].rows
    PROVE  /\ RowOK(r) /\ RowPlace(s, r)
           /\ Row(r.table, "settings", r.key, Blank) \in ex[s].rows
<1>1. PICK n, i, k \in Nat : Behind(s, n, i, k) /\ r \in Contribution(s, n, i, k).rows
  BY DEF WalkInv, HoldsOnly
<1>2. IsPass(s, n, i, k) /\ inv \in Inventories
          /\ Contribution(s, n, i, k).rows \subseteq ex[s].rows
  BY <1>1 DEF Behind, WalkInv, CursorInv, HoldsAll
<1>3. RowOK(r) /\ RowPlace(s, r)
  BY <1>1, <1>2, ContributedRowOK, PlaceOfRow
<1>4. Row(r.table, "settings", r.key, Blank) \in Contribution(s, n, i, k).rows
  BY <1>1, <1>2, ContributedSettings
<1> QED
  BY <1>2, <1>3, <1>4

-----------------------------------------------------------------------------
(* What the rendered files hold, in either layout.                          *)
LEMMA RenderedFiles ==
    ASSUME CommandInv, Rendered
    PROVE  /\ files["imports.tf"] = RenderImports(ex[options.scope].imports, options.rootModule)
           /\ Inputs = IF options.layout = "workspace" THEN Variables(options.scope, Rows)
                       ELSE ResourceModules(Rows)
           /\ Scaffolded <=> options.scaffold
           /\ Scaffolded /\ options.layout = "workspace" =>
                DOMAIN files["main.tf"] = {options.rootModule}
           /\ Scaffolded /\ options.layout = "resources" =>
                \A m \in DOMAIN ResourceModules(Rows) :
                  files["main.tf"][m].inputs = resourceInputNames(ResourceModules(Rows)[m])
<1> DEFINE modules == ResourceModules(Rows)
           imports == RenderImports(ex[options.scope].imports, options.rootModule)
           variables == Variables(options.scope, Rows)
<1>1. /\ files = Over(scaffoldFiles, ExportFiles) /\ options.layout \in {"workspace", "resources"}
      /\ options.scaffold \in BOOLEAN
  BY DEF CommandInv, Rendered
<1>2. /\ DOMAIN ExportFiles = {"terraform.tfvars", "imports.tf"}
      /\ ExportFiles["terraform.tfvars"] = variables /\ ExportFiles["imports.tf"] = imports
  <2> HIDE DEF variables, imports
  <2>1. ExportFiles = Over(File("terraform.tfvars", variables), File("imports.tf", imports))
    BY DEF ExportFiles, variables, imports
  <2> QED
    BY <2>1 DEF Over, File
<1>3. /\ DOMAIN Render = {"main.tf", "variables.tf"}
      /\ DOMAIN Render["main.tf"] = {options.rootModule}
  BY DEF Render, Over, File
<1>4. /\ DOMAIN resourceRoot(modules) = {"main.tf", "variables.tf"}
      /\ \A m \in DOMAIN modules :
           resourceRoot(modules)["main.tf"][m].inputs = resourceInputNames(modules[m])
  <2> HIDE DEF modules
  <2> QED
    BY DEF resourceRoot, Over, File, Block
<1> HIDE DEF modules, imports, variables
<1>5. RenderResources = IF options.scaffold
                        THEN Over(resourceRoot(modules), File("terraform.tfvars", modules))
                        ELSE File("terraform.tfvars", modules)
  BY DEF RenderResources, modules
<1>6. CASE options.layout = "workspace"
  <2>1. scaffoldFiles = IF options.scaffold THEN Render ELSE <<>>
    BY <1>6 DEF scaffoldFiles
  <2>2. /\ DOMAIN scaffoldFiles = IF options.scaffold THEN {"main.tf", "variables.tf"} ELSE {}
        /\ options.scaffold => scaffoldFiles["main.tf"] = Render["main.tf"]
    BY <1>3, <2>1
  <2>3. /\ files["terraform.tfvars"] = variables /\ files["imports.tf"] = imports
        /\ "main.tf" \in DOMAIN files <=> options.scaffold
        /\ options.scaffold => files["main.tf"] = Render["main.tf"]
    BY <1>1, <1>2, <2>2 DEF Over
  <2> QED
    BY <1>3, <1>6, <2>3 DEF Inputs, Scaffolded, imports, variables
<1>7. CASE options.layout = "resources"
  <2>1. scaffoldFiles = RenderResources
    BY <1>7 DEF scaffoldFiles
  <2>2. /\ DOMAIN scaffoldFiles = IF options.scaffold
                                  THEN {"main.tf", "variables.tf", "terraform.tfvars"}
                                  ELSE {"terraform.tfvars"}
        /\ scaffoldFiles["terraform.tfvars"] = modules
        /\ options.scaffold => scaffoldFiles["main.tf"] = resourceRoot(modules)["main.tf"]
    BY <1>4, <1>5, <2>1 DEF Over, File
  <2>3. /\ files["terraform.tfvars"] = modules /\ files["imports.tf"] = imports
        /\ "main.tf" \in DOMAIN files <=> options.scaffold
        /\ options.scaffold => files["main.tf"] = resourceRoot(modules)["main.tf"]
    BY <1>1, <1>2, <2>2 DEF Over
  <2> QED
    BY <1>4, <1>7, <2>3 DEF Inputs, Scaffolded, imports, modules
<1> QED
  BY <1>1, <1>6, <1>7

(* Every row is the value of a variable of its scope.                       *)
LEMMA VariablesOfTables ==
    /\ \A t \in DOMAIN Module : t \in DOMAIN VariableTables
           /\ <<t, "settings">> \in VariableTables[t]
    /\ \A t \in Securables \cup {"schemas"} :
         \E v \in DOMAIN VariableTables \ Nil("shared") : <<t, "access">> \in VariableTables[v]
    /\ \A t \in Identified : <<t, "permissions">> \in VariableTables[t]
    /\ <<"secret_scopes", "acls">> \in VariableTables["secret_scopes"]
    /\ \A t \in Securables \cup {"schemas", "workspace_bindings"} : t \notin Nil("shared")
    /\ Nil("workspace") = {} /\ Identified \subseteq DOMAIN Module
           /\ "secret_scopes" \in DOMAIN Module
<1>1. \A t \in DOMAIN Module : t \in DOMAIN VariableTables
          /\ <<t, "settings">> \in VariableTables[t]
  BY DEF Module, VariableTables
<1>2. \A t \in Securables \cup {"schemas"} :
         \E v \in DOMAIN VariableTables \ Nil("shared") : <<t, "access">> \in VariableTables[v]
  <2>1. /\ "catalog_access" \in DOMAIN VariableTables /\ "schema_access" \in DOMAIN VariableTables
        /\ "storage_credential_access" \in DOMAIN VariableTables
        /\ "external_location_access" \in DOMAIN VariableTables
        /\ <<"catalogs", "access">> \in VariableTables.catalog_access
        /\ <<"schemas", "access">> \in VariableTables.schema_access
        /\ <<"storage_credentials", "access">> \in VariableTables.storage_credential_access
        /\ <<"external_locations", "access">> \in VariableTables.external_location_access
    BY DEF VariableTables
  <2>2. /\ "catalog_access" \notin Nil("shared") /\ "schema_access" \notin Nil("shared")
        /\ "storage_credential_access" \notin Nil("shared")
        /\ "external_location_access" \notin Nil("shared")
    BY DEF Nil
  <2> QED
    BY <2>1, <2>2 DEF Securables
<1>3. \A t \in Identified : <<t, "permissions">> \in VariableTables[t]
  BY DEF Identified, VariableTables
<1>4. <<"secret_scopes", "acls">> \in VariableTables["secret_scopes"]
  BY DEF VariableTables
<1>5. \A t \in Securables \cup {"schemas", "workspace_bindings"} : t \notin Nil("shared")
  BY DEF Securables, Nil
<1>6. Nil("workspace") = {} /\ Identified \subseteq DOMAIN Module
          /\ "secret_scopes" \in DOMAIN Module
  BY DEF Nil, Identified, Module
<1> QED
  BY <1>1, <1>2, <1>3, <1>4, <1>5, <1>6

LEMMA VariablesWhole ==
    ASSUME NEW s \in Scopes, NEW rows, \A r \in rows : RowOK(r) /\ RowPlace(s, r),
           NEW v, v = Variables(s, rows)
    PROVE  UNION {v[x] : x \in DOMAIN v} = rows
<1>1. /\ DOMAIN v = DOMAIN VariableTables \ Nil(s)
      /\ \A x \in DOMAIN v : v[x] = {r \in rows : <<r.table, r.part>> \in VariableTables[x]}
  BY DEF Variables
<1>2. ASSUME NEW r \in rows
      PROVE  \E x \in DOMAIN VariableTables \ Nil(s) : <<r.table, r.part>> \in VariableTables[x]
  <2>1. /\ r.table \in DOMAIN Module /\ r.part \in {"settings", "access", "permissions", "acls"}
        /\ r.part = "access" => r.table \in Securables \cup {"schemas"}
        /\ r.part = "permissions" => r.table \in Identified
        /\ r.part = "acls" => r.table = "secret_scopes"
        /\ s = "shared" => r.table \in Securables \cup {"schemas", "workspace_bindings"}
    BY <1>2 DEF RowOK, RowPlace, Parts
  <2>2. s = "shared" \/ s = "workspace"
    BY DEF Scopes
  <2>3. r.table \in DOMAIN VariableTables \ Nil(s)
    BY <2>1, <2>2, VariablesOfTables
  <2>4. CASE r.part = "access"
    BY <2>1, <2>2, <2>4, VariablesOfTables
  <2>5. CASE r.part # "access"
    BY <2>1, <2>3, <2>5, VariablesOfTables
  <2> QED
    BY <2>4, <2>5
<1>3. ASSUME NEW r \in rows PROVE \E x \in DOMAIN v : r \in v[x]
  BY <1>1, <1>2
<1>4. \A x \in DOMAIN v : v[x] \subseteq rows
  BY <1>1
<1> QED
  BY <1>3, <1>4

(* The import blocks address the objects of the export.                     *)
LEMMA ImportedRows ==
    ASSUME ImportInv, CommandInv, Rendered
    PROVE  /\ Imported = Expected(Rows) /\ options.scope \in Scopes
           /\ \A r \in Rows : /\ RowOK(r) /\ RowPlace(options.scope, r)
                              /\ Row(r.table, "settings", r.key, Blank) \in Rows
<1>1. options.scope \in Scopes
  BY DEF CommandInv, Rendered
<1> DEFINE s == options.scope
           imports == ex[s].imports
           t == RenderImports(imports, options.rootModule).targets
<1>2. ToSet(imports) = Expected(Rows)
  <2>1. Agrees(ex[s])
    BY <1>1 DEF ImportInv, AgreeInv
  <2> QED
    BY <2>1, AgreedImports DEF Rows
<1>3. \A a \in ToSet(imports) : IsAddress(a)
  <2> SUFFICES ASSUME NEW a \in Expected(Rows) PROVE IsAddress(a)
    BY <1>2
  <2>1. PICK r \in Rows : Asks(r, a)
    BY ExpectedByRow
  <2> QED
    BY <2>1 DEF Asks, Address, IsAddress
<1>4. files["imports.tf"].targets = t
  BY RenderedFiles
<1> HIDE DEF imports
<1>5. UNION {t[g] : g \in DOMAIN t} = ToSet(imports)
  BY <1>3, RenderedTargets
<1>6. Imported = ToSet(imports)
  BY <1>4, <1>5 DEF Imported
<1> QED
  BY <1>1, <1>2, <1>6, RowsHang DEF ImportInv, Rows, imports

LEMMA HeldRows ==
    ASSUME NEW rows, NEW t, NEW part, NEW key
    PROVE  \A p : p \in Held(rows, t, part, key) <=>
                    /\ p # Blank
                    /\ \E r \in rows : r.table = t /\ r.part = part /\ r.key = key /\ r.item = p
BY DEF Held, Entry

LEMMA NamedRows ==
    ASSUME NEW rows, NEW t, NEW key
    PROVE  key \in Named(rows, t) <=>
             \E r \in rows : r.table = t /\ r.part = "settings" /\ r.key = key
BY DEF Named

(* The inputs of a resource module.                                         *)
LEMMA TableOfModule == ASSUME NEW t \in DOMAIN Module PROVE Table(Module[t]) = t
BY ModulesDiffer DEF Table

LEMMA ModuleInputs ==
    ASSUME NEW rows, NEW M, M = ResourceModules(rows)
    PROVE  /\ \A m \in DOMAIN M : \E t \in DOMAIN Module : m = Module[t] /\ Named(rows, t) # {}
           /\ \A t \in DOMAIN Module : Named(rows, t) # {} =>
                /\ Module[t] \in DOMAIN M /\ DOMAIN M[Module[t]] = Named(rows, t)
                /\ \A key \in Named(rows, t) : M[Module[t]][key] = resourceValues(rows, t, key)
           /\ \A t \in DOMAIN Module : Named(rows, t) = {} => Module[t] \notin DOMAIN M
<1>1. DOMAIN M = {Module[t] : t \in {x \in DOMAIN Module : Named(rows, x) # {}}}
  BY DEF ResourceModules
<1>2. \A m \in DOMAIN M :
        M[m] = [key \in Named(rows, Table(m)) |-> resourceValues(rows, Table(m), key)]
  BY <1>1 DEF ResourceModules
<1>3. ASSUME NEW t \in DOMAIN Module, Named(rows, t) # {}
      PROVE  /\ Module[t] \in DOMAIN M
             /\ M[Module[t]] = [key \in Named(rows, t) |-> resourceValues(rows, t, key)]
  <2>1. Module[t] \in DOMAIN M
    BY <1>1, <1>3
  <2> QED
    BY <1>2, <2>1, TableOfModule
<1>4. ASSUME NEW t \in DOMAIN Module, Module[t] \in DOMAIN M PROVE Named(rows, t) # {}
  <2>1. PICK u \in DOMAIN Module : Module[u] = Module[t] /\ Named(rows, u) # {}
    BY <1>1, <1>4
  <2> QED
    BY <2>1, ModulesDiffer
<1> QED
  BY <1>1, <1>3, <1>4

LEMMA ValuesOfObject ==
    ASSUME NEW rows, NEW s, \A r \in rows : RowPlace(s, r), NEW t \in DOMAIN Module, NEW key,
           NEW v, v = resourceValues(rows, t, key)
    PROVE  /\ (IF "grants" \in DOMAIN v THEN v["grants"] ELSE {}) = Held(rows, t, "access", key)
           /\ (IF "permissions" \in DOMAIN v THEN v["permissions"] ELSE {})
                = Held(rows, t, "permissions", key)
           /\ (IF "acls" \in DOMAIN v THEN v["acls"] ELSE {}) = Held(rows, t, "acls", key)
<1> DEFINE access == Held(rows, t, "access", key)
           permissions == Held(rows, t, "permissions", key)
           acls == Held(rows, t, "acls", key)
<1>1. /\ t \notin Securables \cup {"schemas"} => access = {}
      /\ t \notin Identified => permissions = {}
      /\ t # "secret_scopes" => acls = {}
  BY HeldRows DEF RowPlace
<1>2. /\ \A x \in Identified : x \notin Securables \cup {"schemas"}
      /\ "secret_scopes" \notin Securables \cup {"schemas"} /\ "secret_scopes" \notin Identified
  BY DEF Identified, Securables
<1>3. v = [a \in (CASE t \in Securables \cup {"schemas"} -> {"grants"}
                    [] t \in Identified -> {"permissions"}
                    [] t = "secret_scopes" /\ acls # {} -> {"acls"}
                    [] OTHER -> {}) |-> Held(rows, t, IF a = "grants" THEN "access" ELSE a, key)]
  BY DEF resourceValues
<1> HIDE DEF access, permissions, acls
<1>4. CASE t \in Securables \cup {"schemas"}
  <2>1. DOMAIN v = {"grants"} /\ v["grants"] = access
    BY <1>2, <1>3, <1>4 DEF access
  <2> QED
    BY <1>1, <1>2, <1>4, <2>1 DEF access, permissions, acls
<1>5. CASE t \in Identified
  <2>1. DOMAIN v = {"permissions"} /\ v["permissions"] = permissions
    BY <1>2, <1>3, <1>5 DEF permissions
  <2> QED
    BY <1>1, <1>2, <1>5, <2>1 DEF access, permissions, acls
<1>6. CASE t = "secret_scopes" /\ acls # {}
  <2>1. DOMAIN v = {"acls"} /\ v["acls"] = acls
    BY <1>2, <1>3, <1>6 DEF acls
  <2> QED
    BY <1>1, <1>2, <1>6, <2>1 DEF access, permissions, acls
<1>7. CASE /\ t \notin Securables \cup {"schemas"} /\ t \notin Identified
           /\ ~(t = "secret_scopes" /\ acls # {})
  <2>1. DOMAIN v = {}
    BY <1>3, <1>7
  <2> QED
    BY <1>1, <1>7, <2>1 DEF access, permissions, acls
<1> QED
  BY <1>4, <1>5, <1>6, <1>7

LEMMA PassedValues ==
    ASSUME ImportInv, CommandInv, Through("resources"), NEW t \in DOMAIN Module,
           NEW key \in Named(Rows, t)
    PROVE  /\ Module[t] \in DOMAIN Inputs /\ key \in DOMAIN Inputs[Module[t]]
           /\ Passed(Module[t], key, "grants") = Held(Rows, t, "access", key)
           /\ Passed(Module[t], key, "permissions") = Held(Rows, t, "permissions", key)
           /\ Passed(Module[t], key, "acls") = Held(Rows, t, "acls", key)
<1> DEFINE m == Module[t]
           v == resourceValues(Rows, t, key)
           M == ResourceModules(Rows)
<1>1. Rendered /\ options.layout = "resources"
  BY DEF Through
<1>2. /\ Inputs = M
      /\ Scaffolded => \A x \in DOMAIN M : files["main.tf"][x].inputs = resourceInputNames(M[x])
  BY <1>1, RenderedFiles
<1>3. m \in DOMAIN M /\ key \in DOMAIN M[m] /\ M[m][key] = v
  BY ModuleInputs
<1>4. \A r \in Rows : RowPlace(options.scope, r)
  BY <1>1, ImportedRows
<1>5. /\ (IF "grants" \in DOMAIN v THEN v["grants"] ELSE {}) = Held(Rows, t, "access", key)
      /\ (IF "permissions" \in DOMAIN v THEN v["permissions"] ELSE {})
           = Held(Rows, t, "permissions", key)
      /\ (IF "acls" \in DOMAIN v THEN v["acls"] ELSE {}) = Held(Rows, t, "acls", key)
  BY <1>4, ValuesOfObject
<1> HIDE DEF v, M
<1>6. DOMAIN v \subseteq resourceInputNames(M[m])
  BY <1>3 DEF resourceInputNames
<1>7. \A a : Passed(m, key, a) = IF a \in DOMAIN v THEN v[a] ELSE {}
  BY <1>2, <1>3, <1>6 DEF Passed
<1> QED
  BY <1>2, <1>3, <1>5, <1>7

(* What the root manages, by the rows behind it.                            *)
ManagedOf(t, key) ==
    {Address(Module[t], key, Resource[t], Blank)}
    \cup {Address(Module[t], key, AccessResource[a], "0") :
            a \in {x \in DOMAIN AccessResource : Passed(Module[t], key, x) # {}}}
    \cup {Address(Module[t], key, "databricks_secret_acl", p) :
        p \in Passed(Module[t], key, "acls")}

LEMMA ManagedByRows ==
    ASSUME ImportInv, CommandInv, Through("resources")
    PROVE  \A a : a \in Managed <=>
             \E t \in DOMAIN Module : \E key \in Named(Rows, t) : a \in ManagedOf(t, key)
<1>1. Rendered /\ options.layout = "resources"
  BY DEF Through
<1>2. Inputs = ResourceModules(Rows)
  BY <1>1, RenderedFiles
<1> DEFINE of(m, key) ==
             {Address(m, key, Resource[Table(m)], Blank)}
             \cup {Address(m, key, AccessResource[a], "0") :
                     a \in {x \in DOMAIN AccessResource : Passed(m, key, x) # {}}}
             \cup {Address(m, key, "databricks_secret_acl", p) : p \in Passed(m, key, "acls")}
<1>3. Managed = UNION {UNION {of(m, key) : key \in DOMAIN Inputs[m]} : m \in DOMAIN Inputs}
  BY <1>1 DEF Managed
<1>4. \A t \in DOMAIN Module : \A key : of(Module[t], key) = ManagedOf(t, key)
  BY TableOfModule DEF ManagedOf
<1> HIDE DEF of
<1>5. \A a : a \in Managed <=> \E m \in DOMAIN Inputs : \E key \in DOMAIN Inputs[m] :
          a \in of(m, key)
  BY <1>3
<1>6. ASSUME NEW a, NEW m \in DOMAIN Inputs, NEW key \in DOMAIN Inputs[m], a \in of(m, key)
      PROVE  \E t \in DOMAIN Module : \E k \in Named(Rows, t) : a \in ManagedOf(t, k)
  <2>1. PICK t \in DOMAIN Module : m = Module[t] /\ Named(Rows, t) # {}
    BY <1>2, ModuleInputs
  <2>2. key \in Named(Rows, t)
    BY <1>2, <2>1, ModuleInputs
  <2> QED
    BY <1>4, <1>6, <2>1, <2>2
<1>7. ASSUME NEW a, NEW t \in DOMAIN Module, NEW key \in Named(Rows, t), a \in ManagedOf(t, key)
      PROVE  \E m \in DOMAIN Inputs : \E k \in DOMAIN Inputs[m] : a \in of(m, k)
  <2>1. Module[t] \in DOMAIN Inputs /\ key \in DOMAIN Inputs[Module[t]]
    BY <1>2, ModuleInputs
  <2> QED
    BY <1>4, <1>7, <2>1
<1> QED
  BY <1>5, <1>6, <1>7

LEMMA ManagedAsked ==
    ASSUME ImportInv, CommandInv, Through("resources"), NEW t \in DOMAIN Module,
           NEW key \in Named(Rows, t), NEW a
    PROVE  a \in ManagedOf(t, key) <=> \E r \in Rows : r.table = t /\ r.key = key /\ Asks(r, a)
<1> DEFINE m == Module[t]
           access == Held(Rows, t, "access", key)
           permissions == Held(Rows, t, "permissions", key)
           acls == Held(Rows, t, "acls", key)
<1>1. a \in ManagedOf(t, key) <=>
        \/ a = Address(m, key, Resource[t], Blank)
        \/ access # {} /\ a = Address(m, key, "databricks_grants", "0")
        \/ permissions # {} /\ a = Address(m, key, "databricks_permissions", "0")
        \/ \E p \in acls : a = Address(m, key, "databricks_secret_acl", p)
  <2>1. /\ Passed(m, key, "grants") = access /\ Passed(m, key, "permissions") = permissions
        /\ Passed(m, key, "acls") = acls
    BY PassedValues
  <2>2. /\ DOMAIN AccessResource = {"grants", "permissions"}
        /\ AccessResource["grants"] = "databricks_grants"
        /\ AccessResource["permissions"] = "databricks_permissions"
    BY DEF AccessResource
  <2> HIDE DEF access, permissions, acls
  <2> QED
    BY <2>1, <2>2 DEF ManagedOf
<1>2. a = Address(m, key, Resource[t], Blank) <=>
        \E r \in Rows : /\ r.table = t /\ r.key = key /\ r.part = "settings"
                        /\ a = Address(Module[r.table], r.key, Resource[r.table], Blank)
  <2>1. PICK r \in Rows : r.table = t /\ r.part = "settings" /\ r.key = key
    BY NamedRows
  <2> QED
    BY <2>1
<1>3. access # {} /\ a = Address(m, key, "databricks_grants", "0") <=>
        \E r \in Rows : /\ r.table = t /\ r.key = key /\ r.part = "access" /\ r.item # Blank
                        /\ a = Address(Module[r.table], r.key, "databricks_grants", "0")
  <2>1. access # {} <=> \E r \in Rows : /\ r.table = t /\ r.key = key
                                        /\ r.part = "access" /\ r.item # Blank
    <3>1. \A p : p \in access <=>
                   /\ p # Blank
                   /\ \E r \in Rows : r.table = t /\ r.part = "access" /\ r.key = key /\ r.item = p
      BY HeldRows
    <3> HIDE DEF access
    <3> QED
      BY <3>1
  <2> HIDE DEF access
  <2> QED
    BY <2>1
<1>4. permissions # {} /\ a = Address(m, key, "databricks_permissions", "0") <=>
        \E r \in Rows : /\ r.table = t /\ r.key = key /\ r.part = "permissions"
                        /\ a = Address(Module[r.table], r.key, "databricks_permissions", "0")
  <2>1. \A r \in Rows : r.part = "permissions" => r.item # Blank
    BY ImportedRows DEF Through, RowPlace
  <2>2. permissions # {} <=> \E r \in Rows : /\ r.table = t /\ r.key = key
                                             /\ r.part = "permissions"
    <3>1. \A p : p \in permissions <=>
                   /\ p # Blank
                   /\ \E r \in Rows : /\ r.table = t /\ r.part = "permissions" /\ r.key = key
                                      /\ r.item = p
      BY HeldRows
    <3> HIDE DEF permissions
    <3> QED
      BY <2>1, <3>1
  <2> HIDE DEF permissions
  <2> QED
    BY <2>2
<1>5. (\E p \in acls : a = Address(m, key, "databricks_secret_acl", p)) <=>
        \E r \in Rows : /\ r.table = t /\ r.key = key /\ r.part = "acls"
                        /\ a = Address(Module[r.table], r.key, "databricks_secret_acl", r.item)
  <2>1. \A r \in Rows : r.part = "acls" => r.item # Blank
    BY ImportedRows DEF Through, RowPlace
  <2> QED
    BY <2>1, HeldRows
<1> HIDE DEF access, permissions, acls
<1> QED
  BY <1>1, <1>2, <1>3, <1>4, <1>5 DEF Asks

LEMMA ManagedRows == ASSUME ImportInv, CommandInv, Rendered PROVE Managed = Expected(Rows)
<1>1. options.layout \in {"workspace", "resources"}
  BY DEF CommandInv, Rendered
<1>2. CASE options.layout = "workspace"
  <2>1. Inputs = Variables(options.scope, Rows)
    BY <1>2, RenderedFiles
  <2>2. UNION {Inputs[v] : v \in DOMAIN Inputs} = Rows
    BY <2>1, ImportedRows, VariablesWhole
  <2> QED
    BY <1>2, <2>2 DEF Managed
<1>3. CASE options.layout = "resources"
  <2>1. Through("resources")
    BY <1>3 DEF Through
  <2>2. ASSUME NEW a PROVE a \in Managed <=> a \in Expected(Rows)
    <3>1. a \in Managed <=> \E t \in DOMAIN Module : \E key \in Named(Rows, t) :
                              \E r \in Rows : r.table = t /\ r.key = key /\ Asks(r, a)
      BY <2>1, ManagedByRows, ManagedAsked
    <3>2. \A r \in Rows : r.table \in DOMAIN Module /\ r.key \in Named(Rows, r.table)
      <4> TAKE r \in Rows
      <4>1. RowOK(r) /\ Row(r.table, "settings", r.key, Blank) \in Rows
        BY ImportedRows
      <4>2. \E x \in Rows : x.table = r.table /\ x.part = "settings" /\ x.key = r.key
        BY <4>1 DEF Row
      <4> QED
        BY <4>1, <4>2, NamedRows DEF RowOK
    <3> QED
      BY <3>1, <3>2, ExpectedByRow
  <2> QED
    BY <2>2
<1> QED
  BY <1>1, <1>2, <1>3

(* In both layouts, what the root manages and what its import blocks        *)
(* address is the same, under the module that main.tf calls: "Confirm that  *)
(* the plan contains imports and no creates".                               *)
THEOREM OnlyImports == RootSpec => []ImportsOnly
<1>1. ImportInv /\ CommandInv => ImportsOnly
  <2> SUFFICES ASSUME ImportInv, CommandInv, Rendered
               PROVE  Imported = Managed /\ Called = {files["imports.tf"].rootModule}
    BY DEF ImportsOnly
  <2>1. Imported = Managed
    BY ImportedRows, ManagedRows
  <2>2. files["imports.tf"].rootModule = options.rootModule
    BY RenderedFiles DEF RenderImports
  <2>3. /\ options.layout \in {"workspace", "resources"}
        /\ options.layout = "resources" => options.rootModule = Blank
    BY DEF CommandInv, Rendered
  <2>4. Scaffolded /\ options.layout = "workspace" => DOMAIN files["main.tf"] = {options.rootModule}
    BY RenderedFiles
  <2>5. Called = {options.rootModule}
    BY <2>3, <2>4 DEF Called
  <2> QED
    BY <2>1, <2>2, <2>5
<1> QED
  BY <1>1, ImportsInvariance, CommandInvariance, PTL

-----------------------------------------------------------------------------
(* Who keeps access.  All rows of one entry come from one pass.             *)
LEMMA RowsOfOnePass ==
    ASSUME WalkInv, KeysDiffer(inv), NEW s \in Scopes, NEW n \in Nat, NEW i \in Nat, NEW k \in Nat,
           IsPass(s, n, i, k), NEW x \in Contribution(s, n, i, k).rows,
           NEW r \in ex[s].rows, r.table = x.table, r.key = x.key
    PROVE  r \in Contribution(s, n, i, k).rows
<1>1. PICK m, j, l \in Nat : Behind(s, m, j, l) /\ r \in Contribution(s, m, j, l).rows
  BY DEF WalkInv, HoldsOnly
<1>2. IsPass(s, m, j, l) /\ inv \in Inventories
  BY <1>1 DEF Behind, WalkInv, CursorInv
<1>3. m = n /\ j = i /\ l = k
  BY <1>1, <1>2, PassesApart
<1> QED
  BY <1>1, <1>3

(* The principals in a pass's entry are those that were read.               *)
LEMMA HeldAccess ==
    ASSUME WalkInv, KeysDiffer(inv), NEW s \in Scopes, NEW n \in Nat, NEW i \in Nat, NEW k \in Nat,
           IsPass(s, n, i, k), Behind(s, n, i, k),
           NEW table, NEW key, NEW grants,
           OwnRows(table, key) \subseteq Contribution(s, n, i, k).rows,
           AccessRows(table, key, grants) \subseteq Contribution(s, n, i, k).rows,
           \A r \in Contribution(s, n, i, k).rows :
             r.part = "access" => r \in AccessRows(table, key, grants)
    PROVE  /\ Held(ex[s].rows, table, "access", key) = Read(grants)
           /\ key \in Named(ex[s].rows, table)
<1> DEFINE c == Contribution(s, n, i, k).rows
           x == Row(table, "settings", key, Blank)
<1>1. c \subseteq ex[s].rows
  BY DEF WalkInv, HoldsAll
<1>2. x \in c /\ x.table = table /\ x.key = key /\ x.part = "settings"
  BY OwnRowOf DEF Row
<1>3. \A r \in ex[s].rows : r.table = table /\ r.key = key => r \in c
  BY <1>2, RowsOfOnePass
<1> HIDE DEF c, x
<1>4. key \in Named(ex[s].rows, table)
  BY <1>1, <1>2, NamedRows
<1>5. ASSUME NEW p \in Held(ex[s].rows, table, "access", key) PROVE p \in Read(grants)
  <2>1. PICK r \in ex[s].rows : /\ r.table = table /\ r.part = "access" /\ r.key = key
                                /\ r.item = p /\ p # Blank
    BY HeldRows
  <2>4. r \in AccessRows(table, key, grants)
    BY <1>3, <2>1 DEF c
  <2>5. grants # Fail /\ r.item \in grants \cup {Blank}
    BY <2>4, AccessRow
  <2> QED
    BY <2>1, <2>5 DEF Read
<1>6. ASSUME NEW p \in Read(grants) PROVE p \in Held(ex[s].rows, table, "access", key)
  <2> DEFINE r == Row(table, "access", key, p)
  <2>1. grants # Fail /\ p \in grants /\ p # Blank
    BY DEF Read
  <2>2. r \in AccessRows(table, key, grants)
    BY <2>1 DEF AccessRows
  <2>3. r.table = table /\ r.part = "access" /\ r.key = key /\ r.item = p
    BY DEF Row
  <2> HIDE DEF r
  <2>4. r \in ex[s].rows
    BY <1>1, <2>2 DEF c
  <2> QED
    BY <2>1, <2>3, <2>4, HeldRows
<1>7. Held(ex[s].rows, table, "access", key) = Read(grants)
  BY <1>5, <1>6
<1> QED
  BY <1>4, <1>7

LEMMA HeldPermissions ==
    ASSUME WalkInv, KeysDiffer(inv), NEW s \in Scopes, NEW n \in Nat, NEW i \in Nat,
           IsPass(s, n, i, 0), Behind(s, n, i, 0), NEW table, NEW o \in IdentifiedInfo,
           Contribution(s, n, i, 0).rows = OwnRows(table, o.name) \cup PermissionRows(table, o)
    PROVE  /\ Held(ex[s].rows, table, "permissions", o.name) = o.permissions
           /\ o.name \in Named(ex[s].rows, table)
<1> DEFINE c == Contribution(s, n, i, 0).rows
           key == o.name
           x == Row(table, "settings", key, Blank)
<1>1. c \subseteq ex[s].rows
  BY DEF WalkInv, HoldsAll
<1>2. x \in c /\ x.table = table /\ x.key = key /\ x.part = "settings"
  BY OwnRowOf DEF Row
<1>3. \A r \in ex[s].rows : r.table = table /\ r.key = key => r \in c
  BY <1>2, RowsOfOnePass
<1>4. o.permissions \in SUBSET (STRING \ {Blank})
  BY DEF IdentifiedInfo
<1> HIDE DEF c, x, key
<1>5. key \in Named(ex[s].rows, table)
  BY <1>1, <1>2, NamedRows
<1>6. ASSUME NEW p \in Held(ex[s].rows, table, "permissions", key) PROVE p \in o.permissions
  <2>1. PICK r \in ex[s].rows : /\ r.table = table /\ r.part = "permissions" /\ r.key = key
                                /\ r.item = p /\ p # Blank
    BY HeldRows
  <2>2. r \in OwnRows(table, key) \cup PermissionRows(table, o)
    BY <1>3, <2>1 DEF c, key
  <2>3. r \notin OwnRows(table, key)
    BY <2>1, OwnRow
  <2> QED
    BY <2>1, <2>2, <2>3, PermissionRow
<1>7. ASSUME NEW p \in o.permissions PROVE p \in Held(ex[s].rows, table, "permissions", key)
  <2> DEFINE r == Row(table, "permissions", key, p)
  <2>1. r \in PermissionRows(table, o)
    BY DEF PermissionRows, key
  <2>2. r.table = table /\ r.part = "permissions" /\ r.key = key /\ r.item = p
    BY DEF Row
  <2> HIDE DEF r
  <2>3. r \in ex[s].rows
    BY <1>1, <2>1 DEF c
  <2>4. p # Blank
    BY <1>4
  <2> QED
    BY <2>2, <2>3, <2>4, HeldRows
<1>8. Held(ex[s].rows, table, "permissions", key) = o.permissions
  BY <1>6, <1>7
<1> QED
  BY <1>5, <1>8 DEF key

(* What Terraform keeps is what the rows hold, in either layout.            *)
LEMMA KeptRows ==
    ASSUME ImportInv, CommandInv, Rendered, NEW t \in DOMAIN Module, NEW key \in Named(Rows, t)
    PROVE  /\ Kept(t, key, "grants") = Held(Rows, t, "access", key)
           /\ Kept(t, key, "permissions") = Held(Rows, t, "permissions", key)
<1>1. options.layout \in {"workspace", "resources"}
  BY DEF CommandInv, Rendered
<1>2. CASE options.layout = "workspace"
  <2>1. Inputs = Variables(options.scope, Rows)
    BY <1>2, RenderedFiles
  <2>2. UNION {Inputs[v] : v \in DOMAIN Inputs} = Rows
    BY <2>1, ImportedRows, VariablesWhole
  <2>3. Through("workspace")
    BY <1>2 DEF Through
  <2> QED
    BY <2>2, <2>3 DEF Kept
<1>3. CASE options.layout = "resources"
  <2>1. Through("resources") /\ ~Through("workspace")
    BY <1>3 DEF Through
  <2>2. /\ Module[t] \in DOMAIN Inputs /\ key \in DOMAIN Inputs[Module[t]]
        /\ Passed(Module[t], key, "grants") = Held(Rows, t, "access", key)
        /\ Passed(Module[t], key, "permissions") = Held(Rows, t, "permissions", key)
    BY <2>1, PassedValues
  <2> QED
    BY <2>1, <2>2 DEF Kept
<1> QED
  BY <1>1, <1>2, <1>3

LEMMA GrantsKept ==
    ASSUME ImportInv, CommandInv, Rendered, KeysDiffer(inv),
           NEW t \in Securables, NEW i \in DOMAIN inv[t], NEW o, o = inv[t][i],
           o.owner = options.scope
    PROVE  /\ Kept(t, o.name, "grants") = Read(o.grants)
           /\ t = "catalogs" =>
                \A k \in DOMAIN o.schemas : o.schemas[k].name # Blank =>
                  Kept("schemas", FullName(o, o.schemas[k]), "grants") = Read(o.schemas[k].grants)
<1> DEFINE s == options.scope
<1>1. /\ s \in Scopes /\ Built(s) /\ inv \in Inventories /\ WalkInv /\ CursorInv
      /\ Rows = ex[s].rows
  BY DEF CommandInv, Rendered, Done, ImportInv, WalkInv, ReportInv, CursorInv, Rows
<1>2. PICK n \in 1..3 : t = ResourceNames[n]
  BY DEF Securables, ResourceNames
<1>3. Objects(ResourceNames[n]) = inv[t] /\ o = ObjectOf(n, i) /\ n \in 1..8 /\ n \in Nat
  <2>1. n \in 1..7 /\ n \in 1..8 /\ n \in Nat
    BY <1>2
  <2>2. Objects(ResourceNames[n]) = inv[ResourceNames[n]]
    BY <1>1, <2>1, ObjectTypes
  <2> QED
    BY <1>2, <2>1, <2>2 DEF ObjectOf
<1>4. t \in DOMAIN Module /\ "schemas" \in DOMAIN Module
  BY DEF Securables, Module
<1> HIDE DEF s
<1>5. i \in Nat /\ IsPass(s, n, i, 0) /\ Behind(s, n, i, 0)
  <2>1. n <= Methods(s)
    BY <1>1, <1>2, Groups8
  <2>2. i \in Nat /\ IsPass(s, n, i, 0)
    BY <1>1, <1>3, <2>1, ObjectPass
  <2> QED
    BY <1>1, <1>3, <2>2, BuiltMeansBehind
<1>6. InScope(s, o)
  BY DEF InScope, s
<1>7. Kept(t, o.name, "grants") = Read(o.grants)
  <2>1. Contribution(s, n, i, 0).rows =
          OwnRows(t, o.name) \cup BindingRows(t, o) \cup AccessRows(t, o.name, o.grants)
    BY <1>1, <1>2, <1>3, <1>5, <1>6, ContributionOfObject
  <2> DEFINE c == Contribution(s, n, i, 0).rows
             own == OwnRows(t, o.name)
             bindings == BindingRows(t, o)
             access == AccessRows(t, o.name, o.grants)
  <2>2. /\ \A r \in bindings : r.part = "settings"
        /\ \A r \in own : r.part = "settings"
    BY BindingsRow, OwnRow
  <2>3. c = own \cup bindings \cup access
    BY <2>1
  <2> HIDE DEF c, own, bindings, access
  <2>4. own \subseteq c /\ access \subseteq c /\ \A r \in c : r.part = "access" => r \in access
    BY <2>2, <2>3
  <2>5. /\ Held(ex[s].rows, t, "access", o.name) = Read(o.grants)
        /\ o.name \in Named(ex[s].rows, t)
    BY <1>1, <1>3, <1>5, <2>4, HeldAccess DEF c, own, access
  <2> QED
    BY <1>1, <1>4, <2>5, KeptRows
<1>8. ASSUME t = "catalogs", NEW k \in DOMAIN o.schemas, o.schemas[k].name # Blank
      PROVE  Kept("schemas", FullName(o, o.schemas[k]), "grants") = Read(o.schemas[k].grants)
  <2> DEFINE schema == o.schemas[k]
             full == FullName(o, schema)
  <2>1. n = 1
    BY <1>2, <1>8 DEF ResourceNames
  <2>2. i \in Nat /\ k \in Nat /\ k # 0 /\ IsPass(s, 1, i, k)
    BY <1>1, <1>3, <1>6, <1>8, <2>1, SchemaPass
  <2>3. Behind(s, 1, i, k)
    BY <1>1, <2>2, BuiltMeansBehind
  <2>4. Contribution(s, 1, i, k).rows =
          OwnRows("schemas", full) \cup AccessRows("schemas", full, schema.grants)
    BY <1>3, <1>8, <2>1, <2>2, ContributionOfSchema
  <2> HIDE DEF full, schema
  <2> DEFINE c == Contribution(s, 1, i, k).rows
             own == OwnRows("schemas", full)
             access == AccessRows("schemas", full, schema.grants)
  <2>5. c = own \cup access /\ \A r \in own : r.part = "settings"
    BY <2>4, OwnRow
  <2> HIDE DEF c, own, access
  <2>6. own \subseteq c /\ access \subseteq c /\ \A r \in c : r.part = "access" => r \in access
    BY <2>5
  <2>7. /\ Held(ex[s].rows, "schemas", "access", full) = Read(schema.grants)
        /\ full \in Named(ex[s].rows, "schemas")
    BY <1>1, <2>2, <2>3, <2>6, HeldAccess DEF c, own, access
  <2>8. Kept("schemas", full, "grants") = Read(schema.grants)
    BY <1>1, <1>4, <2>7, KeptRows
  <2> QED
    BY <2>8 DEF full, schema
<1> QED
  BY <1>7, <1>8

LEMMA PermissionsKept ==
    ASSUME ImportInv, CommandInv, Rendered, KeysDiffer(inv), options.scope = "workspace",
           NEW t \in Identified, NEW i \in DOMAIN inv[t], NEW o, o = inv[t][i], Whole(o)
    PROVE  Kept(t, o.name, "permissions") = o.permissions
<1> DEFINE s == "workspace"
<1>1. /\ s \in Scopes /\ Built(s) /\ inv \in Inventories /\ WalkInv /\ CursorInv
      /\ Rows = ex[s].rows /\ Methods(s) = 8
  BY Groups8 DEF CommandInv, Rendered, Done, ImportInv, WalkInv, ReportInv, CursorInv, Rows, Scopes,
                 Methods
<1>2. PICK n \in 4..6 : t = ResourceNames[n]
  BY DEF Identified, ResourceNames
<1>3. /\ Objects(ResourceNames[n]) = inv[t] /\ o = ObjectOf(n, i) /\ n \in 1..8 /\ n \in Nat
      /\ o \in IdentifiedInfo
  <2>1. n \in 1..7 /\ n \in 1..8 /\ n \in Nat
    BY <1>2
  <2>2. /\ Objects(ResourceNames[n]) = inv[ResourceNames[n]]
        /\ Objects(ResourceNames[n]) \in Seq(IdentifiedInfo)
    BY <1>1, <1>2, <2>1, ObjectTypes
  <2> QED
    BY <1>2, <2>1, <2>2 DEF ObjectOf
<1>4. t \in DOMAIN Module
  BY DEF Identified, Module
<1>5. i \in Nat /\ IsPass(s, n, i, 0) /\ Behind(s, n, i, 0)
  <2>1. n <= Methods(s)
    BY <1>1, <1>2
  <2>2. i \in Nat /\ IsPass(s, n, i, 0)
    BY <1>1, <1>3, <2>1, ObjectPass
  <2> QED
    BY <1>1, <1>3, <2>2, BuiltMeansBehind
<1>6. Contribution(s, n, i, 0).rows = OwnRows(t, o.name) \cup PermissionRows(t, o)
  BY <1>1, <1>2, <1>3, <1>5, ContributionOfObject
<1>7. Held(Rows, t, "permissions", o.name) = o.permissions /\ o.name \in Named(Rows, t)
  BY <1>1, <1>3, <1>5, <1>6, HeldPermissions
<1> QED
  BY <1>4, <1>7, KeptRows

(* Whoever was read keeps access, and nobody else has it managed, in either *)
(* layout.                                                                  *)
THEOREM AccessKept == RootSpec => [](KeysDiffer(inv) => AccessIsWhole)
<1>1. ImportInv /\ CommandInv => (KeysDiffer(inv) => AccessIsWhole)
  BY GrantsKept, PermissionsKept DEF AccessIsWhole, Whole
<1> QED
  BY <1>1, ImportsInvariance, CommandInvariance, PTL

-----------------------------------------------------------------------------
(* The version that is pinned.  Induction is used in its form for sets: the *)
(* least number outside a set that is closed under successor would be one   *)
(* more than a number inside.                                               *)
LEMMA SetInduction ==
    ASSUME NEW S, 0 \in S, \A n \in Nat : n \in S => n + 1 \in S
    PROVE  Nat \subseteq S
<1> DEFINE T == Nat \ S
           R == OpToRel(<, Nat)
<1>1. ASSUME T # {} PROVE FALSE
  <2>1. \A m, n \in Nat : <<m, n>> \in R <=> m < n
    BY DEF OpToRel
  <2>2. IsWellFoundedOn(R, Nat)
    BY NatLessThanWellFounded
  <2>3. T \subseteq Nat
    OBVIOUS
  <2> HIDE DEF R
  <2>4. PICK x \in T : \A y \in T : ~(<<y, x>> \in R)
    BY <1>1, <2>2, <2>3, WFMin
  <2>5. x # 0 /\ x - 1 \in Nat /\ (x - 1) + 1 = x
    BY <2>4
  <2>6. x - 1 \in T
    BY <2>4, <2>5
  <2>7. x - 1 \in Nat /\ x \in Nat /\ x - 1 < x
    BY <2>5
  <2>8. <<x - 1, x>> \in R
    BY <2>1, <2>7
  <2> HIDE DEF T
  <2> QED
    BY <2>4, <2>6, <2>8
<1> QED
  BY <1>1

(* The loop over the listing.                                               *)
IsLoop(g, listing, n) ==
    g = [i \in 0..n |-> IF i = 0 THEN Blank ELSE Choose(g[i - 1], listing[i])]

LEMMA LoopExists ==
    ASSUME NEW listing, NEW n \in Nat
    PROVE  \E g : IsLoop(g, listing, n)
<1> DEFINE S == {m \in Nat : \E g : IsLoop(g, listing, m)}
<1>1. 0 \in S
  <2> DEFINE g == [i \in 0..0 |-> Blank]
  <2>1. IsLoop(g, listing, 0)
    BY DEF IsLoop
  <2> QED
    BY <2>1
<1>2. ASSUME NEW m \in Nat, m \in S PROVE m + 1 \in S
  <2>1. PICK g : IsLoop(g, listing, m)
    BY <1>2
  <2> DEFINE h == [i \in 0..(m + 1) |-> IF i = m + 1 THEN Choose(g[m], listing[m + 1]) ELSE g[i]]
  <2>2. \A i \in 0..m : g[i] = IF i = 0 THEN Blank ELSE Choose(g[i - 1], listing[i])
    BY <2>1 DEF IsLoop
  <2>3. ASSUME NEW i \in 0..(m + 1)
        PROVE  h[i] = IF i = 0 THEN Blank ELSE Choose(h[i - 1], listing[i])
    <3>1. CASE i = m + 1
      <4>1. i # 0 /\ h[i] = Choose(g[m], listing[m + 1]) /\ h[i - 1] = g[m]
        BY <3>1
      <4> QED
        BY <3>1, <4>1
    <3>2. CASE i # m + 1
      <4>1. i \in 0..m /\ h[i] = g[i] /\ (i # 0 => h[i - 1] = g[i - 1])
        BY <3>2
      <4> HIDE DEF h
      <4> QED
        BY <2>2, <4>1
    <3> QED
      BY <3>1, <3>2
  <2>4. DOMAIN h = 0..(m + 1) /\ h = [i \in 0..(m + 1) |-> h[i]]
    OBVIOUS
  <2> HIDE DEF h
  <2>5. IsLoop(h, listing, m + 1)
    BY <2>3, <2>4 DEF IsLoop
  <2>6. \E f : IsLoop(f, listing, m + 1)
    BY <2>5
  <2> QED
    BY <2>6
<1> HIDE DEF S
<1>3. Nat \subseteq S
  BY <1>1, <1>2, SetInduction
<1> QED
  BY <1>3 DEF S

LEMMA LatestIsLoop ==
    ASSUME NEW listing, Len(listing) \in Nat
    PROVE  \E g : IsLoop(g, listing, Len(listing)) /\ LatestVersion(listing) = g[Len(listing)]
<1> DEFINE n == Len(listing)
           f == CHOOSE g : g = [i \in 0..n |-> IF i = 0 THEN Blank
                                               ELSE Choose(g[i - 1], listing[i])]
<1>1. \E g : g = [i \in 0..n |-> IF i = 0 THEN Blank ELSE Choose(g[i - 1], listing[i])]
  BY LoopExists DEF IsLoop
<1>2. f = [i \in 0..n |-> IF i = 0 THEN Blank ELSE Choose(f[i - 1], listing[i])]
  BY <1>1, Zenon
<1>3. LatestVersion(listing) = f[n]
  BY Zenon DEF LatestVersion
<1> QED
  BY <1>2, <1>3, Zenon DEF IsLoop

(* What the loop has chosen among the first i releases.                     *)
Newest(v, listing, i) ==
    /\ v # Blank => (\E j \in 1..i : v = listing[j]) /\ Releases[v].stable
    /\ \A j \in 1..i : Releases[listing[j]].stable =>
         v # Blank /\ (v = listing[j] \/ Newer(v, listing[j]))

LEMMA NewerTransitive ==
    ASSUME NEW a \in DOMAIN Releases, NEW b \in DOMAIN Releases, NEW c \in DOMAIN Releases,
           Newer(a, b), Newer(b, c)
    PROVE  Newer(a, c)
BY ReleasesAssumption DEF Newer

(* Versions that are told apart by their texts are in a total order.        *)
LEMMA NewerTotal ==
    ASSUME NEW a \in DOMAIN Releases, NEW b \in DOMAIN Releases, a # b, ~Newer(a, b)
    PROVE  Newer(b, a)
BY ReleasesAssumption DEF Newer

LEMMA ChoiceIsNewest ==
    ASSUME NEW listing \in Seq(DOMAIN Releases), NEW i \in Nat, i + 1 <= Len(listing),
           NEW v, Newest(v, listing, i)
    PROVE  Newest(Choose(v, listing[i + 1]), listing, i + 1)
<1> DEFINE w == listing[i + 1]
           u == Choose(v, w)
<1>1. /\ \A j \in 1..(i + 1) : listing[j] \in DOMAIN Releases
      /\ \A j \in 1..(i + 1) : j \in 1..i \/ j = i + 1
      /\ \A j \in 1..i : j \in 1..(i + 1)
      /\ i + 1 \in 1..(i + 1)
  OBVIOUS
<1>2. v = Blank \/ v \in DOMAIN Releases
  BY <1>1 DEF Newest
<1>3. \A j \in 1..(i + 1) : Releases[listing[j]].stable => listing[j] # Blank
  BY <1>1, ReleasesAssumption
<1>4. CASE Releases[w].stable /\ (v = Blank \/ Newer(w, v))
  <2>1. u = w
    BY <1>4 DEF Choose
  <2>2. ASSUME NEW j \in 1..i, Releases[listing[j]].stable PROVE Newer(w, listing[j])
    <3>1. v # Blank /\ (v = listing[j] \/ Newer(v, listing[j]))
      BY <2>2 DEF Newest
    <3> QED
      BY <1>1, <1>2, <1>4, <3>1, NewerTransitive
  <2> HIDE DEF u
  <2> QED
    BY <1>1, <1>3, <1>4, <2>1, <2>2 DEF Newest, u
<1>5. CASE ~(Releases[w].stable /\ (v = Blank \/ Newer(w, v)))
  <2>1. u = v
    BY <1>5 DEF Choose
  <2>2. Releases[w].stable => v # Blank /\ (v = w \/ Newer(v, w))
    BY <1>1, <1>2, <1>5, NewerTotal
  <2> HIDE DEF u
  <2> QED
    BY <1>1, <2>1, <2>2 DEF Newest, u
<1> QED
  BY <1>4, <1>5

(* What LatestVersion returns is the newest stable release of the listing,  *)
(* in whatever order it lists them.                                         *)
LEMMA LatestIsNewest ==
    ASSUME NEW listing \in Seq(DOMAIN Releases)
    PROVE  Newest(LatestVersion(listing), listing, Len(listing))
<1> DEFINE n == Len(listing)
<1>1. PICK g : IsLoop(g, listing, n) /\ LatestVersion(listing) = g[n]
  BY LatestIsLoop
<1> DEFINE S == {i \in Nat : i <= n => Newest(g[i], listing, i)}
<1>2. \A i \in 0..n : g[i] = IF i = 0 THEN Blank ELSE Choose(g[i - 1], listing[i])
  BY <1>1 DEF IsLoop
<1>3. 0 \in S
  <2>1. g[0] = Blank
    BY <1>2
  <2> QED
    BY <2>1 DEF Newest
<1>4. ASSUME NEW i \in Nat, i \in S PROVE i + 1 \in S
  <2> SUFFICES ASSUME i + 1 <= n PROVE Newest(g[i + 1], listing, i + 1)
    OBVIOUS
  <2>1. Newest(g[i], listing, i)
    BY <1>4
  <2>2. g[i + 1] = Choose(g[i], listing[i + 1])
    BY <1>2
  <2> QED
    BY <2>1, <2>2, ChoiceIsNewest
<1> HIDE DEF S
<1>5. n \in S
  BY <1>3, <1>4, SetInduction
<1> QED
  BY <1>1, <1>5 DEF S

-----------------------------------------------------------------------------
(* Which versions the command works with, stage by stage.                   *)
LookedUp ==
    /\ registry \in Registries
    /\ options.layout = "resources" =>
         /\ versions = [x \in Sources |-> LatestVersion(registry[x])]
         /\ \A x \in Sources : Resolved(registry[x])
    /\ options.layout = "workspace" =>
         /\ options.source = WorkspaceModule
         /\ Resolved(registry[WorkspaceModule])
         /\ options.version = LatestVersion(registry[WorkspaceModule])

PinInv ==
    /\ phase \in {"building", "prepared"} => registry = <<>> /\ versions = <<>>
    /\ phase # "building" =>
         /\ options.source \in {WorkspaceModule, "../local"} /\ options.version # Blank
         /\ phase = "prepared" /\ options.version = "latest" /\ options.layout = "workspace" =>
              options.source = WorkspaceModule
    /\ phase \in {"resolved", "rendered"} =>
         \/ registry = <<>> /\ versions = <<>> /\ options.version # "latest"
         \/ LookedUp

LEMMA PinInvStarts == RootInit => PinInv
BY DEF RootInit, PinInv

LEMMA SourcesStay == ASSUME ex' = ex, options' = options PROVE Sources' = Sources
BY DEF Sources, Rows

LEMMA PinInvStep == WalkInv /\ CommandInv /\ PinInv /\ [RootNext]_<<vars, rootVars>> => PinInv'
<1> SUFFICES ASSUME WalkInv, CommandInv, PinInv, [RootNext]_<<vars, rootVars>> PROVE PinInv'
  OBVIOUS
<1>1. ASSUME UNCHANGED <<vars, options, registry, versions>>,
             phase' = phase \/ (phase = "resolved" /\ phase' = "rendered")
      PROVE  PinInv'
  <2>1. Sources' = Sources
    BY <1>1, SourcesStay DEF vars
  <2>2. LookedUp' <=> LookedUp
    BY <1>1, <2>1 DEF LookedUp
  <2> QED
    BY <1>1, <2>2 DEF PinInv
<1>2. CASE Next /\ UNCHANGED rootVars
  <2>1. CASE phase = "building"
    BY <1>2, <2>1 DEF PinInv, rootVars
  <2>2. CASE phase # "building"
    <3>1. UNCHANGED vars
      BY <1>2, <2>2, BuilderRests DEF CommandInv
    <3> QED
      BY <1>1, <1>2, <3>1 DEF rootVars
  <2> QED
    BY <2>1, <2>2
<1>3. ASSUME NEW s \in Scopes, Prepare(s) PROVE PinInv'
  <2>1. PICK f \in Flags :
          /\ PrepareLayout(f)
          /\ options' = [NoOptions EXCEPT
               !.scope = s, !.layout = f.layout, !.scaffold = f.scaffold, !.source = f.source,
               !.version = f.version,
               !.rootModule = IF f.layout = "resources" THEN Blank ELSE f.rootModule]
    BY <1>3 DEF Prepare
  <2>2. f.source \in {WorkspaceModule, "../local"} /\ f.version # Blank
    BY DEF Flags, Blank
  <2>3. options'.source = f.source /\ options'.version = f.version /\ options'.layout = f.layout
    BY <2>1 DEF NoOptions
  <2>4. phase = "building" /\ phase' = "prepared" /\ UNCHANGED <<registry, versions>>
    BY <1>3 DEF Prepare
  <2>5. f.version = "latest" /\ f.layout = "workspace" => f.source = WorkspaceModule
    BY <2>1 DEF PrepareLayout
  <2> QED
    BY <2>2, <2>3, <2>4, <2>5 DEF PinInv
<1>4. CASE ResolveVersions
  <2>1. /\ phase = "prepared" /\ registry = <<>> /\ versions = <<>>
        /\ options.source \in {WorkspaceModule, "../local"} /\ options.version # Blank
        /\ options.version = "latest" /\ options.layout = "workspace" =>
             options.source = WorkspaceModule
        /\ options.layout \in {"workspace", "resources"} /\ DOMAIN options = OptionNames
        /\ ex' = ex
    BY <1>4 DEF ResolveVersions, PinInv, CommandInv, vars
  <2>2. CASE /\ phase' = "resolved" /\ options.version # "latest"
             /\ UNCHANGED <<options, registry, versions>>
    BY <2>1, <2>2 DEF PinInv
  <2>3. CASE phase' = "failed" /\ UNCHANGED <<options, versions>>
    BY <2>1, <2>3 DEF PinInv
  <2>4. CASE /\ options.version = "latest" /\ registry' \in Registries
             /\ \A x \in Sources : Resolved(registry'[x])
             /\ phase' = "resolved" /\ options.layout = "resources"
             /\ versions' = [x \in Sources |-> LatestVersion(registry'[x])]
             /\ UNCHANGED options
    <3>1. Sources' = Sources
      BY <2>1, <2>4, SourcesStay
    <3>2. LookedUp'
      BY <2>4, <3>1 DEF LookedUp
    <3> QED
      BY <2>1, <2>4, <3>2 DEF PinInv
  <2>5. CASE /\ options.version = "latest" /\ registry' \in Registries
             /\ \A x \in Sources : Resolved(registry'[x])
             /\ phase' = "resolved" /\ options.layout # "resources"
             /\ options' = [options EXCEPT !.version = LatestVersion(registry'[options.source])]
    <3>1. options.layout = "workspace" /\ options.source = WorkspaceModule
      BY <2>1, <2>5
    <3>2. Sources = {WorkspaceModule}
      BY <3>1 DEF Sources
    <3>3. Resolved(registry'[WorkspaceModule])
      BY <2>5, <3>2
    <3>4. /\ options'.version = LatestVersion(registry'[WorkspaceModule])
          /\ options'.layout = "workspace" /\ options'.source = WorkspaceModule
      BY <2>1, <2>5, <3>1 DEF OptionNames
    <3>5. LookedUp'
      BY <2>5, <3>3, <3>4 DEF LookedUp
    <3>6. options'.version # Blank
      BY <3>3, <3>4 DEF Resolved
    <3> QED
      BY <2>5, <3>4, <3>5, <3>6 DEF PinInv
  <2> QED
    BY <1>4, <2>1, <2>2, <2>3, <2>4, <2>5 DEF ResolveVersions
<1>5. CASE RenderFiles
  BY <1>1, <1>5 DEF RenderFiles
<1>6. CASE UNCHANGED <<vars, rootVars>>
  BY <1>1, <1>6 DEF rootVars
<1> QED
  BY <1>2, <1>3, <1>4, <1>5, <1>6 DEF RootNext

THEOREM Pinning == RootSpec => []PinInv
<1> QED
  BY PinInvStarts, PinInvStep, Walk, CommandInvariance, PTL DEF RootSpec

(* The module blocks and declared variables that are rendered.              *)
LEMMA RenderedBlocks ==
    ASSUME CommandInv, Rendered, Scaffolded
    PROVE  /\ options.layout = "workspace" =>
                /\ files["variables.tf"] = variableNames(options.scope)
                /\ files["main.tf"] =
                     [m \in {options.rootModule} |->
                        Block(options.source,
                              IF options.source = WorkspaceModule THEN options.version ELSE Blank,
                              variableNames(options.scope), {})]
           /\ options.layout = "resources" =>
                /\ files["variables.tf"] = DOMAIN ResourceModules(Rows)
                /\ files["main.tf"] = resourceRoot(ResourceModules(Rows))["main.tf"]
<1> DEFINE modules == ResourceModules(Rows)
<1>1. /\ files = Over(scaffoldFiles, ExportFiles) /\ options.layout \in {"workspace", "resources"}
      /\ options.scaffold
  BY RenderedFiles DEF CommandInv, Rendered
<1>2. /\ DOMAIN resourceRoot(modules) = {"main.tf", "variables.tf"}
      /\ resourceRoot(modules)["variables.tf"] = DOMAIN modules
  <2> HIDE DEF modules
  <2> QED
    BY DEF resourceRoot, Over, File
<1> HIDE DEF modules
<1>3. CASE options.layout = "workspace"
  <2>1. files = Over(Render, ExportFiles)
    BY <1>1, <1>3 DEF scaffoldFiles
  <2>2. /\ DOMAIN Render = {"main.tf", "variables.tf"}
        /\ Render["variables.tf"] = variableNames(options.scope)
        /\ Render["main.tf"] =
             [m \in {options.rootModule} |->
                Block(options.source,
                      IF options.source = WorkspaceModule THEN options.version ELSE Blank,
                      variableNames(options.scope), {})]
    BY DEF Render, Over, File
  <2>3. files["main.tf"] = Render["main.tf"] /\ files["variables.tf"] = Render["variables.tf"]
    BY <2>1, <2>2 DEF Over
  <2> QED
    BY <1>3, <2>2, <2>3
<1>4. CASE options.layout = "resources"
  <2>1. scaffoldFiles = Over(resourceRoot(modules), File("terraform.tfvars", modules))
    BY <1>1, <1>4 DEF scaffoldFiles, RenderResources, modules
  <2>2. /\ {"main.tf", "variables.tf"} \subseteq DOMAIN scaffoldFiles
        /\ scaffoldFiles["main.tf"] = resourceRoot(modules)["main.tf"]
        /\ scaffoldFiles["variables.tf"] = DOMAIN modules
    BY <1>2, <2>1 DEF Over, File
  <2>3. /\ files["main.tf"] = scaffoldFiles["main.tf"]
        /\ files["variables.tf"] = scaffoldFiles["variables.tf"]
    BY <1>1, <2>2 DEF Over
  <2> QED
    BY <1>4, <2>2, <2>3 DEF modules
<1> QED
  BY <1>1, <1>3, <1>4

(* A resolved version is the newest stable one that the Registry lists.     *)
IsNewestOf(v, listing) ==
    /\ v \in {w \in ToSet(listing) : Releases[w].stable}
    /\ \A w \in {x \in ToSet(listing) : Releases[x].stable} \ {v} :
         \/ Releases[w].core < Releases[v].core
         \/ Releases[w].core = Releases[v].core /\ Releases[w].text < Releases[v].text

LEMMA ResolvedIsNewest ==
    ASSUME registry \in Registries, NEW m \in RegistryModules, Resolved(registry[m]),
           NEW v, v = LatestVersion(registry[m])
    PROVE  IsNewestOf(v, registry[m]) /\ v \notin {Blank, "latest"}
<1> DEFINE listing == registry[m]
<1>1. listing \in Seq(DOMAIN Releases) /\ v # Blank
  BY RegistriesAssumption DEF Resolved
<1>2. Newest(v, listing, Len(listing))
  BY <1>1, LatestIsNewest
<1> HIDE DEF listing
<1>3. PICK i \in 1..Len(listing) : v = listing[i]
  BY <1>1, <1>2 DEF Newest
<1>4. Releases[v].stable
  BY <1>1, <1>2 DEF Newest
<1>5. ToSet(listing) = {listing[j] : j \in 1..Len(listing)}
  BY <1>1 DEF ToSet
<1>6. v \in DOMAIN Releases /\ v \in ToSet(listing)
  BY <1>1, <1>3, <1>5
<1>7. ASSUME NEW w \in ToSet(listing), Releases[w].stable, w # v
      PROVE  \/ Releases[w].core < Releases[v].core
             \/ Releases[w].core = Releases[v].core /\ Releases[w].text < Releases[v].text
  <2>1. PICK j \in 1..Len(listing) : w = listing[j]
    BY <1>5
  <2>2. w \in DOMAIN Releases /\ Newer(v, w)
    BY <1>1, <1>2, <1>7, <2>1 DEF Newest
  <2> QED
    BY <1>6, <2>2, ReleasesAssumption DEF Newer
<1> QED
  BY <1>4, <1>6, <1>7, ReleasesAssumption DEF IsNewestOf, listing

LEMMA SourceOfRegistry ==
    ASSUME NEW rows, NEW m \in DOMAIN ResourceModules(rows)
    PROVE  RegistryName(m) \in RegistryModules
BY ModuleInputs DEF RegistryModules

(* A module of the workspace layout.                                        *)
LEMMA WorkspaceBlocks ==
    ASSUME CommandInv, PinInv, Rendered, Scaffolded, options.layout = "workspace",
           NEW main, main = files["main.tf"], NEW m \in DOMAIN main
    PROVE  /\ main[m].inputs = files["variables.tf"] /\ main[m].dependencies = {}
           /\ main[m].version # "latest"
           /\ main[m].version = Blank => main[m].source = "../local"
           /\ registry # <<>> => IsNewestOf(main[m].version, registry[main[m].source])
<1> DEFINE version == IF options.source = WorkspaceModule THEN options.version ELSE Blank
<1>1. main[m] = Block(options.source, version, variableNames(options.scope), {})
  BY RenderedBlocks
<1>2. /\ main[m].source = options.source /\ main[m].version = version
      /\ main[m].inputs = variableNames(options.scope) /\ main[m].dependencies = {}
  BY <1>1 DEF Block
<1>3. files["variables.tf"] = variableNames(options.scope)
  BY RenderedBlocks
<1>4. /\ options.source \in {WorkspaceModule, "../local"} /\ options.version # Blank
      /\ (registry = <<>> /\ options.version # "latest") \/ LookedUp
  BY DEF PinInv, Rendered
<1>5. CASE LookedUp
  <2>1. /\ registry \in Registries /\ options.source = WorkspaceModule
        /\ Resolved(registry[WorkspaceModule])
        /\ options.version = LatestVersion(registry[WorkspaceModule])
    BY <1>5 DEF LookedUp
  <2>2. WorkspaceModule \in RegistryModules
    BY DEF RegistryModules
  <2>3. /\ IsNewestOf(options.version, registry[WorkspaceModule])
        /\ options.version \notin {Blank, "latest"}
    BY <2>1, <2>2, ResolvedIsNewest
  <2> QED
    BY <1>2, <1>3, <2>1, <2>3
<1>6. CASE registry = <<>> /\ options.version # "latest"
  <2>1. Blank # "latest"
    BY DEF Blank
  <2> QED
    BY <1>2, <1>3, <1>4, <1>6, <2>1
<1> QED
  BY <1>4, <1>5, <1>6

(* A module of the layout of individual modules.                            *)
LEMMA ResourceBlocks ==
    ASSUME CommandInv, PinInv, Rendered, Scaffolded, options.layout = "resources",
           NEW main, main = files["main.tf"], NEW m \in DOMAIN main
    PROVE  /\ m \in files["variables.tf"] /\ main[m].dependencies \subseteq DOMAIN main
           /\ main[m].version \notin {Blank, "latest"}
           /\ registry # <<>> => IsNewestOf(main[m].version, registry[main[m].source])
<1> DEFINE modules == ResourceModules(Rows)
           version == IF RegistryName(m) \in DOMAIN versions THEN versions[RegistryName(m)]
                      ELSE options.version
<1>1. main = resourceRoot(modules)["main.tf"] /\ files["variables.tf"] = DOMAIN modules
  BY RenderedBlocks
<1>2. /\ DOMAIN main = DOMAIN modules
      /\ main[m] = Block(RegistryName(m), version, resourceInputNames(modules[m]),
                         resourceDependencies(m, DOMAIN modules))
  <2> HIDE DEF modules
  <2> QED
    BY <1>1 DEF resourceRoot, Over, File
<1>3. /\ main[m].source = RegistryName(m) /\ main[m].version = version
      /\ main[m].dependencies = resourceDependencies(m, DOMAIN modules)
  BY <1>2 DEF Block
<1>4. resourceDependencies(m, DOMAIN modules) \subseteq DOMAIN modules
  BY Zenon DEF resourceDependencies
<1>5. RegistryName(m) \in Sources /\ RegistryName(m) \in RegistryModules
  BY <1>2, SourceOfRegistry DEF Sources
<1>6. /\ options.version # Blank
      /\ (registry = <<>> /\ versions = <<>> /\ options.version # "latest") \/ LookedUp
  BY DEF PinInv, Rendered
<1> HIDE DEF modules
<1>7. CASE LookedUp
  <2>1. /\ registry \in Registries /\ Resolved(registry[RegistryName(m)])
        /\ version = LatestVersion(registry[RegistryName(m)])
    BY <1>5, <1>7 DEF LookedUp
  <2>2. IsNewestOf(version, registry[RegistryName(m)]) /\ version \notin {Blank, "latest"}
    BY <1>5, <2>1, ResolvedIsNewest
  <2> QED
    BY <1>1, <1>2, <1>3, <1>4, <2>2
<1>8. CASE registry = <<>> /\ versions = <<>> /\ options.version # "latest"
  <2>1. version = options.version
    BY <1>8
  <2> QED
    BY <1>1, <1>2, <1>3, <1>4, <1>6, <1>8, <2>1
<1> QED
  BY <1>6, <1>7, <1>8

(* terraform init and validate find all that the root refers to, and each   *)
(* Registry module is pinned; with "latest", to the newest stable release   *)
(* in whatever order the Registry lists them.                               *)
THEOREM Runnable == RootSpec => []RootIsRunnable
<1>1. CommandInv /\ PinInv => RootIsRunnable
  <2> SUFFICES ASSUME CommandInv, PinInv, Rendered, Scaffolded,
                      NEW main, main = files["main.tf"]
               PROVE  /\ DOMAIN Inputs \subseteq files["variables.tf"]
                      /\ \A m \in DOMAIN main :
                           /\ IF options.layout = "resources" THEN m \in files["variables.tf"]
                              ELSE main[m].inputs \subseteq files["variables.tf"]
                           /\ main[m].dependencies \subseteq DOMAIN main
                           /\ main[m].version # "latest"
                           /\ main[m].version = Blank => main[m].source = "../local"
                           /\ registry # <<>> =>
                                IsNewestOf(main[m].version, registry[main[m].source])
    BY Zenon DEF RootIsRunnable, IsNewestOf
  <2>1. options.layout \in {"workspace", "resources"} /\ options.scope \in Scopes
    BY DEF CommandInv, Rendered
  <2>2. CASE options.layout = "workspace"
    <3>1. Inputs = Variables(options.scope, Rows)
      BY <2>2, RenderedFiles
    <3>2. DOMAIN Inputs \subseteq variableNames(options.scope)
      BY <2>1, <3>1
      DEF Variables, VariableTables, Nil, variableNames, workspaceOnly, Scopes
    <3>3. files["variables.tf"] = variableNames(options.scope)
      BY <2>2, RenderedBlocks
    <3> QED
      BY <2>2, <3>2, <3>3, WorkspaceBlocks
  <2>3. CASE options.layout = "resources"
    <3>1. Inputs = ResourceModules(Rows)
      BY <2>3, RenderedFiles
    <3>2. files["variables.tf"] = DOMAIN ResourceModules(Rows)
      BY <2>3, RenderedBlocks
    <3> QED
      BY <2>3, <3>1, <3>2, ResourceBlocks
  <2> QED
    BY <2>1, <2>2, <2>3
<1> QED
  BY <1>1, Pinning, CommandInvariance, PTL
=============================================================================
