----------------------------- MODULE ReaderProofs -----------------------------
(***************************************************************************)
(* Theorems about Reader: for any workspaces, any degree of parallelism    *)
(* and a context that is cancelled at any moment.                          *)
(***************************************************************************)
EXTENDS Reader, FiniteSetTheorems, FunctionTheorems, TLAPS

-----------------------------------------------------------------------------
(* What the list calls answer.                                              *)
LEMMA KeyedFacts ==
    ASSUME NEW g, NEW objs \in Seq(ObjectInfo)
    PROVE  /\ DOMAIN Keyed(g, objs) = 1..Len(objs)
           /\ g # "service_principals" => Keyed(g, objs) = objs
BY DEF Keyed

LEMMA ListedFacts ==
    ASSUME NEW w, IsWorld(w), NEW g \in DOMAIN w.list
    PROVE  /\ \E n \in Nat : DOMAIN Listed(w, g) = 1..n
           /\ g # "service_principals" =>
                \A i \in DOMAIN Listed(w, g) :
                    /\ Listed(w, g)[i] \in ObjectInfo
                    /\ NamesOf(Listed(w, g)[i]) \subseteq NamesIn(w)
<1> DEFINE objs == Keyed(g, w.list[g])
<1>1. CASE w.list[g] = Fail
  <2>1. Listed(w, g) = <<>>
    BY <1>1 DEF Listed
  <2> QED
    BY <2>1
<1>2. CASE w.list[g] # Fail
  <2>1. w.list[g] \in Seq(ObjectInfo)
    BY <1>2 DEF IsWorld
  <2>2. /\ DOMAIN objs = 1..Len(w.list[g])
        /\ g # "service_principals" => objs = w.list[g]
    BY <2>1, KeyedFacts
  <2>3. g # "service_principals" =>
          \A i \in DOMAIN objs : objs[i] \in ObjectInfo /\ NamesOf(objs[i]) \subseteq NamesIn(w)
    BY <1>2, <2>1, <2>2 DEF NamesIn
  <2>4. CASE w.name = AnyName
    <3>1. Listed(w, g) = objs
      BY <1>2, <2>4 DEF Listed
    <3> QED
      BY <2>1, <2>2, <2>3, <3>1
  <2>5. CASE w.name # AnyName /\ NameFound(w, objs)
    <3> DEFINE i == CHOOSE i \in Matches(w, objs) : TRUE
    <3>1. Listed(w, g) = <<objs[i]>>
      BY <1>2, <2>5 DEF Listed
    <3>2. Matches(w, objs) # {}
      BY <2>5, FS_EmptySet DEF NameFound
    <3>3. i \in DOMAIN objs
      BY <3>2 DEF Matches
    <3> HIDE DEF i, objs
    <3> QED
      BY <2>3, <3>1, <3>3
  <2>6. CASE w.name # AnyName /\ ~NameFound(w, objs)
    <3>1. Listed(w, g) = <<>>
      BY <1>2, <2>6 DEF Listed
    <3> QED
      BY <3>1
  <2> QED
    BY <2>4, <2>5, <2>6
<1> QED
  BY <1>1, <1>2

-----------------------------------------------------------------------------
(* The four kinds of tasks.                                                 *)
Kind(w, t) ==
    /\ t[1] \in DOMAIN w.list
    /\ \/ Len(t) = 1 /\ t = <<t[1]>>
       \/ Len(t) = 2 /\ t = <<t[1], t[2]>> /\ t[2] \in DOMAIN Listed(w, t[1])
       \/ /\ Len(t) = 3 /\ t = <<t[1], t[2], t[3]>> /\ t[2] \in DOMAIN Listed(w, t[1])
          /\ t[1] = Catalogs /\ t[3] \in Branches
       \/ /\ Len(t) = 4 /\ t = <<t[1], t[2], t[3], t[4]>> /\ t[2] \in DOMAIN Listed(w, t[1])
          /\ t[1] = Catalogs /\ t[3] = "schemas"
          /\ Listed(w, t[1])[t[2]].schemas # Fail
          /\ t[4] \in DOMAIN Listed(w, t[1])[t[2]].schemas

LEMMA TasksHaveKinds == ASSUME NEW w, NEW t PROVE t \in Tasks(w) <=> Kind(w, t)
<1>1. \A c : c \in Workers(w) <=> /\ c[1] \in DOMAIN w.list /\ c[2] \in DOMAIN Listed(w, c[1])
                                  /\ c = <<c[1], c[2]>>
  BY DEF Workers
<1>2. \A c : c \in CatalogWorkers(w) <=> c \in Workers(w) /\ c[1] = Catalogs
  BY DEF CatalogWorkers
<1>3. \A x : x \in {<<g>> : g \in DOMAIN w.list} <=> x[1] \in DOMAIN w.list /\ x = <<x[1]>>
  OBVIOUS
<1>4. \A x : x \in UNION {{<<c[1], c[2], b>> : b \in Branches} : c \in CatalogWorkers(w)} <=>
               <<x[1], x[2]>> \in CatalogWorkers(w) /\ x[3] \in Branches /\ x = <<x[1], x[2], x[3]>>
  BY <1>1, <1>2
<1>5. \A x : x \in UNION {{<<c[1], c[2], "schemas", k>> : k \in SchemaIndices(w, c)} :
                             c \in CatalogWorkers(w)} <=>
               /\ <<x[1], x[2]>> \in CatalogWorkers(w) /\ x[4] \in SchemaIndices(w, <<x[1], x[2]>>)
               /\ x = <<x[1], x[2], "schemas", x[4]>>
  BY <1>1, <1>2
<1>6. t \in Tasks(w) <=>
        \/ t[1] \in DOMAIN w.list /\ t = <<t[1]>>
        \/ t[1] \in DOMAIN w.list /\ t[2] \in DOMAIN Listed(w, t[1]) /\ t = <<t[1], t[2]>>
        \/ <<t[1], t[2]>> \in CatalogWorkers(w) /\ t[3] \in Branches /\ t = <<t[1], t[2], t[3]>>
        \/ /\ <<t[1], t[2]>> \in CatalogWorkers(w) /\ t[4] \in SchemaIndices(w, <<t[1], t[2]>>)
           /\ t = <<t[1], t[2], "schemas", t[4]>>
  BY <1>1, <1>3, <1>4, <1>5 DEF Tasks
<1>7. <<t[1], t[2]>> \in CatalogWorkers(w) <=>
        t[1] \in DOMAIN w.list /\ t[2] \in DOMAIN Listed(w, t[1]) /\ t[1] = Catalogs
  BY <1>1, <1>2
<1>8. t[4] \in SchemaIndices(w, <<t[1], t[2]>>) <=>
        /\ Listed(w, t[1])[t[2]].schemas # Fail
        /\ t[4] \in DOMAIN Listed(w, t[1])[t[2]].schemas
  BY DEF SchemaIndices
<1>9. ASSUME NEW n \in {1, 2, 3, 4}
      PROVE  /\ t = <<t[1]>> => Len(t) = 1
             /\ t = <<t[1], t[2]>> => Len(t) = 2
             /\ t = <<t[1], t[2], t[3]>> => Len(t) = 3
             /\ t = <<t[1], t[2], t[3], t[4]>> => Len(t) = 4
             /\ t = <<t[1], t[2], "schemas", t[4]>> => Len(t) = 4 /\ t[3] = "schemas"
  OBVIOUS
<1> QED
  BY <1>6, <1>7, <1>8, <1>9 DEF Kind

-----------------------------------------------------------------------------
(* What a task may do at all, from the list of its steps.                   *)
IsCatalog(t) == Len(t) = 2 /\ t[1] = Catalogs

Pool(t) == Len(t) = 1 \/ (Len(t) = 3 /\ t[3] = "schemas")

ReadsObject(t) == Len(t) \in {2, 3, 4} /\ t[1] # "service_principals"

StepFacts(t) ==
    /\ StepsOf(t) \subseteq {"list", "list_schemas", "pool", "type", "system", "blank", "fork",
                             "get", "classify", "access", "kept"}
    /\ Steps(t)[1] \in StepsOf(t)
    /\ "list" \in StepsOf(t) <=> Len(t) = 1
    /\ "pool" \in StepsOf(t) <=> Pool(t)
    /\ "list_schemas" \in StepsOf(t) => Len(t) = 3 /\ ReadsObject(t)
    /\ "type" \in StepsOf(t) => IsCatalog(t) /\ ReadsObject(t)
    /\ "fork" \in StepsOf(t) <=> IsCatalog(t)
    /\ "blank" \in StepsOf(t) => t[1] = "secret_scopes" /\ Len(t) = 2 /\ ReadsObject(t)
    /\ "system" \in StepsOf(t) => Len(t) \in {2, 4} /\ ReadsObject(t)
    /\ "get" \in StepsOf(t) => ~Pool(t) /\ ~IsCatalog(t) /\ ReadsObject(t)
    /\ "classify" \in StepsOf(t) => ~IsCatalog(t) /\ ReadsObject(t)
    /\ "access" \in StepsOf(t) => ~Pool(t) /\ ~IsCatalog(t) /\ ReadsObject(t) /\ Steps(t)[1] # "kept"
    /\ Steps(t)[1] = "list" => Len(t) = 1
    /\ pc[t] \in StepsOf(t) \ {"pool", "fork", "kept"} =>
         /\ Following(t) \in StepsOf(t)
         /\ "access" \in StepsOf(t) /\ pc[t] # "access" => Following(t) # "kept"
         /\ pc[t] \in {"list", "list_schemas"} => Following(t) = "pool"

(* Steps do not repeat, so the one that follows is the next in the list.    *)
LEMMA FollowingIs ==
    ASSUME NEW t, NEW i \in DOMAIN Steps(t), pc[t] = Steps(t)[i],
           \A j, k \in DOMAIN Steps(t) : Steps(t)[j] = Steps(t)[k] => j = k
    PROVE  Following(t) = Steps(t)[1 + i]
BY DEF Following

LEMMA GroupNames ==
    Groups = {"catalogs", "storage_credentials", "external_locations", "cluster_policies",
              "instance_pools", "warehouses", "secret_scopes", "service_principals"}
<1>1. DOMAIN ResourceNames = {1, 2, 3, 4, 5, 6, 7, 8}
  BY DEF ResourceNames
<1> QED
  BY <1>1 DEF Groups, ResourceNames

(* ... each of the lists of the code, taken by itself.                      *)
LEMMA ListFacts ==
    ASSUME NEW t, NEW s \in {<<"list", "pool">>, OwnBranch, GrantsBranch, SchemasBranch, ReadSchema,
                            ReadCatalog, ReadStorageCredential, ReadClusterPolicy,
                            ReadInstancePool, ReadSecretScope, ReadServicePrincipal},
           Steps(t) = s
    PROVE  /\ StepsOf(t) = {s[i] : i \in 1..Len(s)}
           /\ \A i \in 1..Len(s) : pc[t] = s[i] => Following(t) = s[1 + i]
<1> DEFINE Listing == <<"list", "pool">>
<1> DEFINE Once(r) == DOMAIN r = 1..Len(r) /\ \A j, k \in 1..Len(r) : r[j] = r[k] => j = k
<1>1. Once(Listing)
  OBVIOUS
<1>2. Once(OwnBranch)
  BY DEF OwnBranch
<1>3. Once(GrantsBranch)
  BY DEF GrantsBranch
<1>4. Once(SchemasBranch)
  BY DEF SchemasBranch
<1>5. Once(ReadSchema)
  BY DEF ReadSchema
<1>6. Once(ReadCatalog)
  BY DEF ReadCatalog
<1>7. Once(ReadStorageCredential)
  BY DEF ReadStorageCredential
<1>8. Once(ReadClusterPolicy)
  BY DEF ReadClusterPolicy
<1>9. Once(ReadInstancePool)
  BY DEF ReadInstancePool
<1>10. Once(ReadSecretScope)
  BY DEF ReadSecretScope
<1>11. Once(ReadServicePrincipal)
  BY DEF ReadServicePrincipal
<1>12. Once(s)
  <2> HIDE DEF Once
  <2> QED
    BY <1>1, <1>2, <1>3, <1>4, <1>5, <1>6, <1>7, <1>8, <1>9, <1>10, <1>11
<1>13. StepsOf(t) = {s[i] : i \in 1..Len(s)}
  BY <1>12 DEF StepsOf
<1>14. ASSUME NEW i \in 1..Len(s), pc[t] = s[i] PROVE Following(t) = s[1 + i]
  <2>1. i \in DOMAIN Steps(t) /\ pc[t] = Steps(t)[i]
    BY <1>12, <1>14
  <2>2. \A j, k \in DOMAIN Steps(t) : Steps(t)[j] = Steps(t)[k] => j = k
    BY <1>12
  <2>3. Following(t) = Steps(t)[1 + i]
    BY <2>1, <2>2, FollowingIs
  <2> QED
    BY <2>3
<1> QED
  BY <1>13, <1>14

(* So much for every task.                                                  *)
LEMMA StepsFacts == ASSUME world \in Worlds, NEW t, Kind(world, t) PROVE StepFacts(t)
<1> DEFINE Listing == <<"list", "pool">>
<1>1. /\ t[1] \in Groups
      /\ Len(t) \in {1, 2, 3, 4} /\ (Len(t) = 3 => t[3] \in Branches)
      /\ Len(t) \in {3, 4} => t[1] = "catalogs"
  <2>1. t[1] \in Groups
    BY WorldsAssumption DEF Kind, IsWorld
  <2>2. /\ Len(t) \in {1, 2, 3, 4} /\ (Len(t) = 3 => t[3] \in Branches)
        /\ Len(t) \in {3, 4} => t[1] = "catalogs"
    BY DEF Kind, Catalogs
  <2> QED
    BY <2>1, <2>2
<1>2. CASE Len(t) = 1
  <2>1. Steps(t) = Listing
    BY <1>2 DEF Steps
  <2>2. /\ StepsOf(t) = {Listing[i] : i \in 1..Len(Listing)}
        /\ \A i \in 1..Len(Listing) : pc[t] = Listing[i] => Following(t) = Listing[1 + i]
    BY <2>1, ListFacts
  <2>3. /\ StepsOf(t) = {"list", "pool"} /\ Steps(t)[1] = "list"
        /\ pc[t] = "list" => Following(t) = "pool"
    BY <2>1, <2>2
  <2>4. Pool(t) /\ ~IsCatalog(t) /\ ~ReadsObject(t)
    BY <1>1, <1>2 DEF Pool, IsCatalog, ReadsObject, Catalogs
  <2> QED
    BY <1>1, <1>2, <2>3, <2>4 DEF StepFacts
<1>3. CASE Len(t) = 3 /\ t[3] = "own"
  <2>1. Steps(t) = OwnBranch
    BY <1>3 DEF Steps, OwnBranch, BranchSteps
  <2>2. /\ StepsOf(t) = {OwnBranch[i] : i \in 1..Len(OwnBranch)}
        /\ \A i \in 1..Len(OwnBranch) : pc[t] = OwnBranch[i] => Following(t) = OwnBranch[1 + i]
    BY <2>1, ListFacts
  <2>3. /\ StepsOf(t) = {"get", "classify", "kept"} /\ Steps(t)[1] = "get"
        /\ pc[t] = "get" => Following(t) = "classify"
        /\ pc[t] = "classify" => Following(t) = "kept"
    BY <2>1, <2>2 DEF OwnBranch
  <2>4. ~Pool(t) /\ ~IsCatalog(t) /\ ReadsObject(t)
    BY <1>1, <1>3 DEF Pool, IsCatalog, ReadsObject, Catalogs
  <2> QED
    BY <1>1, <1>3, <2>3, <2>4 DEF StepFacts
<1>4. CASE Len(t) = 3 /\ t[3] = "grants"
  <2>1. Steps(t) = GrantsBranch
    BY <1>4 DEF Steps, GrantsBranch, BranchSteps
  <2>2. /\ StepsOf(t) = {GrantsBranch[i] : i \in 1..Len(GrantsBranch)}
        /\ \A i \in 1..Len(GrantsBranch) : pc[t] = GrantsBranch[i] => Following(t) = GrantsBranch[1 + i]
    BY <2>1, ListFacts
  <2>3. /\ StepsOf(t) = {"access", "kept"} /\ Steps(t)[1] = "access"
        /\ pc[t] = "access" => Following(t) = "kept"
    BY <2>1, <2>2 DEF GrantsBranch
  <2>4. ~Pool(t) /\ ~IsCatalog(t) /\ ReadsObject(t)
    BY <1>1, <1>4 DEF Pool, IsCatalog, ReadsObject, Catalogs
  <2> QED
    BY <1>1, <1>4, <2>3, <2>4 DEF StepFacts
<1>5. CASE Len(t) = 3 /\ t[3] = "schemas"
  <2>1. Steps(t) = SchemasBranch
    BY <1>5 DEF Steps, SchemasBranch, BranchSteps
  <2>2. /\ StepsOf(t) = {SchemasBranch[i] : i \in 1..Len(SchemasBranch)}
        /\ \A i \in 1..Len(SchemasBranch) : pc[t] = SchemasBranch[i] => Following(t) = SchemasBranch[1 + i]
    BY <2>1, ListFacts
  <2>3. /\ StepsOf(t) = {"list_schemas", "pool"} /\ Steps(t)[1] = "list_schemas"
        /\ pc[t] = "list_schemas" => Following(t) = "pool"
    BY <2>1, <2>2 DEF SchemasBranch
  <2>4. Pool(t) /\ ~IsCatalog(t) /\ ReadsObject(t)
    BY <1>1, <1>5 DEF Pool, IsCatalog, ReadsObject, Catalogs
  <2> QED
    BY <1>1, <1>5, <2>3, <2>4 DEF StepFacts
<1>6. CASE Len(t) = 4
  <2>1. Steps(t) = ReadSchema
    BY <1>6 DEF Steps, ReadSchema
  <2>2. /\ StepsOf(t) = {ReadSchema[i] : i \in 1..Len(ReadSchema)}
        /\ \A i \in 1..Len(ReadSchema) : pc[t] = ReadSchema[i] => Following(t) = ReadSchema[1 + i]
    BY <2>1, ListFacts
  <2>3. /\ StepsOf(t) = {"system", "access", "kept"} /\ Steps(t)[1] = "system"
        /\ pc[t] = "system" => Following(t) = "access"
        /\ pc[t] = "access" => Following(t) = "kept"
    BY <2>1, <2>2 DEF ReadSchema
  <2>4. ~Pool(t) /\ ~IsCatalog(t) /\ ReadsObject(t)
    BY <1>1, <1>6 DEF Pool, IsCatalog, ReadsObject, Catalogs
  <2> QED
    BY <1>1, <1>6, <2>3, <2>4 DEF StepFacts
<1>7. CASE Len(t) = 2 /\ t[1] = Catalogs
  <2>1. Steps(t) = ReadCatalog
    BY <1>7 DEF Steps, ReadCatalog, WorkerSteps, Catalogs
  <2>2. /\ StepsOf(t) = {ReadCatalog[i] : i \in 1..Len(ReadCatalog)}
        /\ \A i \in 1..Len(ReadCatalog) : pc[t] = ReadCatalog[i] => Following(t) = ReadCatalog[1 + i]
    BY <2>1, ListFacts
  <2>3. /\ StepsOf(t) = {"type", "system", "fork"} /\ Steps(t)[1] = "type"
        /\ pc[t] = "type" => Following(t) = "system"
        /\ pc[t] = "system" => Following(t) = "fork"
    BY <2>1, <2>2 DEF ReadCatalog
  <2>4. ~Pool(t) /\ IsCatalog(t) /\ ReadsObject(t)
    BY <1>1, <1>7 DEF Pool, IsCatalog, ReadsObject, Catalogs
  <2> QED
    BY <1>1, <1>7, <2>3, <2>4 DEF StepFacts
<1>8. CASE Len(t) = 2 /\ t[1] \in {"storage_credentials", "external_locations"}
  <2>1. Steps(t) = ReadStorageCredential
    BY <1>8 DEF Steps, ReadStorageCredential, WorkerSteps, ReadExternalLocation, Catalogs
  <2>2. /\ StepsOf(t) = {ReadStorageCredential[i] : i \in 1..Len(ReadStorageCredential)}
        /\ \A i \in 1..Len(ReadStorageCredential) : pc[t] = ReadStorageCredential[i] => Following(t) = ReadStorageCredential[1 + i]
    BY <2>1, ListFacts
  <2>3. /\ StepsOf(t) = {"system", "get", "classify", "access", "kept"} /\ Steps(t)[1] = "system"
        /\ pc[t] = "system" => Following(t) = "get"
        /\ pc[t] = "get" => Following(t) = "classify"
        /\ pc[t] = "classify" => Following(t) = "access"
        /\ pc[t] = "access" => Following(t) = "kept"
    BY <2>1, <2>2 DEF ReadStorageCredential
  <2>4. ~Pool(t) /\ ~IsCatalog(t) /\ ReadsObject(t)
    BY <1>1, <1>8 DEF Pool, IsCatalog, ReadsObject, Catalogs
  <2> QED
    BY <1>1, <1>8, <2>3, <2>4 DEF StepFacts
<1>9. CASE Len(t) = 2 /\ t[1] = "cluster_policies"
  <2>1. Steps(t) = ReadClusterPolicy
    BY <1>9 DEF Steps, ReadClusterPolicy, WorkerSteps, Catalogs
  <2>2. /\ StepsOf(t) = {ReadClusterPolicy[i] : i \in 1..Len(ReadClusterPolicy)}
        /\ \A i \in 1..Len(ReadClusterPolicy) : pc[t] = ReadClusterPolicy[i] => Following(t) = ReadClusterPolicy[1 + i]
    BY <2>1, ListFacts
  <2>3. /\ StepsOf(t) = {"get", "system", "access", "kept"} /\ Steps(t)[1] = "get"
        /\ pc[t] = "get" => Following(t) = "system"
        /\ pc[t] = "system" => Following(t) = "access"
        /\ pc[t] = "access" => Following(t) = "kept"
    BY <2>1, <2>2 DEF ReadClusterPolicy
  <2>4. ~Pool(t) /\ ~IsCatalog(t) /\ ReadsObject(t)
    BY <1>1, <1>9 DEF Pool, IsCatalog, ReadsObject, Catalogs
  <2> QED
    BY <1>1, <1>9, <2>3, <2>4 DEF StepFacts
<1>10. CASE Len(t) = 2 /\ t[1] \in {"instance_pools", "warehouses"}
  <2>1. Steps(t) = ReadInstancePool
    BY <1>10 DEF Steps, ReadInstancePool, WorkerSteps, ReadWarehouse, Catalogs
  <2>2. /\ StepsOf(t) = {ReadInstancePool[i] : i \in 1..Len(ReadInstancePool)}
        /\ \A i \in 1..Len(ReadInstancePool) : pc[t] = ReadInstancePool[i] => Following(t) = ReadInstancePool[1 + i]
    BY <2>1, ListFacts
  <2>3. /\ StepsOf(t) = {"get", "access", "kept"} /\ Steps(t)[1] = "get"
        /\ pc[t] = "get" => Following(t) = "access"
        /\ pc[t] = "access" => Following(t) = "kept"
    BY <2>1, <2>2 DEF ReadInstancePool
  <2>4. ~Pool(t) /\ ~IsCatalog(t) /\ ReadsObject(t)
    BY <1>1, <1>10 DEF Pool, IsCatalog, ReadsObject, Catalogs
  <2> QED
    BY <1>1, <1>10, <2>3, <2>4 DEF StepFacts
<1>11. CASE Len(t) = 2 /\ t[1] = "secret_scopes"
  <2>1. Steps(t) = ReadSecretScope
    BY <1>11 DEF Steps, ReadSecretScope, WorkerSteps, Catalogs
  <2>2. /\ StepsOf(t) = {ReadSecretScope[i] : i \in 1..Len(ReadSecretScope)}
        /\ \A i \in 1..Len(ReadSecretScope) : pc[t] = ReadSecretScope[i] => Following(t) = ReadSecretScope[1 + i]
    BY <2>1, ListFacts
  <2>3. /\ StepsOf(t) = {"blank", "system", "access", "kept"} /\ Steps(t)[1] = "blank"
        /\ pc[t] = "blank" => Following(t) = "system"
        /\ pc[t] = "system" => Following(t) = "access"
        /\ pc[t] = "access" => Following(t) = "kept"
    BY <2>1, <2>2 DEF ReadSecretScope
  <2>4. ~Pool(t) /\ ~IsCatalog(t) /\ ReadsObject(t)
    BY <1>1, <1>11 DEF Pool, IsCatalog, ReadsObject, Catalogs
  <2> QED
    BY <1>1, <1>11, <2>3, <2>4 DEF StepFacts
<1>12. CASE Len(t) = 2 /\ t[1] = "service_principals"
  <2>1. Steps(t) = ReadServicePrincipal
    BY <1>12 DEF Steps, ReadServicePrincipal, WorkerSteps, Catalogs
  <2>2. /\ StepsOf(t) = {ReadServicePrincipal[i] : i \in 1..Len(ReadServicePrincipal)}
        /\ \A i \in 1..Len(ReadServicePrincipal) : pc[t] = ReadServicePrincipal[i] => Following(t) = ReadServicePrincipal[1 + i]
    BY <2>1, ListFacts
  <2>3. /\ StepsOf(t) = {"kept"} /\ Steps(t)[1] = "kept"
    BY <2>1, <2>2 DEF ReadServicePrincipal
  <2>4. ~Pool(t) /\ ~IsCatalog(t) /\ ~ReadsObject(t)
    BY <1>1, <1>12 DEF Pool, IsCatalog, ReadsObject, Catalogs
  <2> QED
    BY <1>1, <1>12, <2>3, <2>4 DEF StepFacts
<1> QED
  BY <1>1, <1>2, <1>3, <1>4, <1>5, <1>6, <1>7, <1>8, <1>9, <1>10, <1>11, <1>12, GroupNames DEF Branches, Catalogs

-----------------------------------------------------------------------------
(* Sorting: elements before another, counted, are each one's position.      *)
Earlier(n, R, i) == {j \in 1..n : <<j, i>> \in R}

IsOrder(n, R) ==
    /\ \A i \in 1..n : <<i, i>> \notin R
    /\ \A i, j, k \in 1..n : <<i, j>> \in R /\ <<j, k>> \in R => <<i, k>> \in R
    /\ \A i, j \in 1..n : i = j \/ <<i, j>> \in R \/ <<j, i>> \in R

LEMMA Positions ==
    ASSUME NEW n \in Nat, NEW R, IsOrder(n, R)
    PROVE  /\ \A i \in 1..n : Cardinality(Earlier(n, R, i)) \in 0..(n - 1)
           /\ \A i, j \in 1..n :
                Cardinality(Earlier(n, R, i)) = Cardinality(Earlier(n, R, j)) => i = j
           /\ \A k \in 1..n : \E i \in 1..n : Cardinality(Earlier(n, R, i)) = k - 1
<1> DEFINE card(i) == Cardinality(Earlier(n, R, i))
           pos == [i \in 1..n |-> card(i) + 1]
<1>1. IsFiniteSet(1..n) /\ Cardinality(1..n) = n
  BY FS_Interval
<1>2. ASSUME NEW i \in 1..n PROVE IsFiniteSet(Earlier(n, R, i)) /\ card(i) \in Nat /\ card(i) <= n
  <2>1. Earlier(n, R, i) \in SUBSET (1..n)
    BY DEF Earlier
  <2> QED
    BY <1>1, <2>1, FS_Subset, FS_CardinalityType
<1>3. ASSUME NEW i \in 1..n PROVE card(i) # n
  <2>1. Earlier(n, R, i) \in SUBSET (1..n) /\ Earlier(n, R, i) # 1..n
    BY DEF Earlier, IsOrder
  <2> QED
    BY <1>1, <2>1, FS_Subset
<1>4. ASSUME NEW i \in 1..n, NEW j \in 1..n, <<i, j>> \in R PROVE card(i) # card(j)
  <2>1. Earlier(n, R, i) \in SUBSET Earlier(n, R, j)
    BY <1>4 DEF Earlier, IsOrder
  <2>2. i \in Earlier(n, R, j) /\ i \notin Earlier(n, R, i)
    BY <1>4 DEF Earlier, IsOrder
  <2> QED
    BY <1>2, <2>1, <2>2, FS_Subset
<1>5. \A i, j \in 1..n : card(i) = card(j) => i = j
  BY <1>4 DEF IsOrder
<1>6. \A i \in 1..n : card(i) \in 0..(n - 1)
  BY <1>2, <1>3
<1> HIDE DEF card
<1>7. pos \in Injection(1..n, 1..n)
  <2>1. pos \in [1..n -> 1..n]
    BY <1>6
  <2>2. \A i, j \in 1..n : pos[i] = pos[j] => i = j
    BY <1>5, <1>6
  <2> QED
    BY <2>1, <2>2 DEF Injection, IsInjective
<1>8. pos \in Surjection(1..n, 1..n)
  BY <1>1, <1>7, FS_Injection
<1>9. ASSUME NEW k \in 1..n PROVE \E i \in 1..n : card(i) = k - 1
  <2>1. PICK i \in 1..n : pos[i] = k
    BY <1>8 DEF Surjection
  <2> QED
    BY <1>6, <2>1
<1> QED
  BY <1>5, <1>6, <1>9 DEF card

(* The order of issues and of skips: field by field, different texts being  *)
(* different in Rank, so that no two different records are equal in it.     *)
Ordered(S) ==
    /\ \A a \in S : ~Before(a, a)
    /\ \A a, b, c \in S : Before(a, b) /\ Before(b, c) => Before(a, c)
    /\ \A a, b \in S : a = b \/ Before(a, b) \/ Before(b, a)

SkipRecord == Text \X Text

IssueRecord == Text \X Text \X Text \X Text

LEMMA SkipsOrdered == Ordered(SkipRecord)
<1> DEFINE r(x) == Rank[x]
           before(a, b) == r(a[1]) < r(b[1]) \/ (r(a[2]) < r(b[2]) /\ a[1] = b[1])
<1>1. \A a, b \in Text : r(a) \in Nat /\ (r(a) = r(b) => a = b)
  BY RankAssumption
<1>2. ASSUME NEW a \in SkipRecord, NEW b \in SkipRecord PROVE Before(a, b) <=> before(a, b)
  <2>1. DOMAIN a = 1..2 /\ 1..2 = {1, 2}
    BY DEF SkipRecord
  <2>2. ASSUME NEW i \in 1..2
        PROVE  (\A j \in 1..(i - 1) : a[j] = b[j]) <=> (i > 1 => a[1] = b[1])
    OBVIOUS
  <2>3. Before(a, b) <=> \E i \in {1, 2} : r(a[i]) < r(b[i]) /\ (i > 1 => a[1] = b[1])
    BY <2>1, <2>2 DEF Before
  <2> QED
    BY <2>3
<1>3. ASSUME NEW a \in SkipRecord
      PROVE  a = <<a[1], a[2]>> /\ a[1] \in Text /\ a[2] \in Text
  BY DEF SkipRecord
<1> HIDE DEF r
<1>4. \A a \in SkipRecord : ~before(a, a)
  BY <1>1, <1>3
<1>5. \A a, b, c \in SkipRecord : before(a, b) /\ before(b, c) => before(a, c)
  BY <1>1, <1>3
<1>6. \A a, b \in SkipRecord : a = b \/ before(a, b) \/ before(b, a)
  BY <1>1, <1>3
<1> HIDE DEF before
<1> QED
  BY <1>2, <1>4, <1>5, <1>6 DEF Ordered

LEMMA IssuesOrdered == Ordered(IssueRecord)
<1> DEFINE r(x) == Rank[x]
           before(a, b) == \/ r(a[1]) < r(b[1])
                           \/ r(a[2]) < r(b[2]) /\ a[1] = b[1]
                           \/ r(a[3]) < r(b[3]) /\ a[1] = b[1] /\ a[2] = b[2]
                           \/ r(a[4]) < r(b[4]) /\ a[1] = b[1] /\ a[2] = b[2] /\ a[3] = b[3]
<1>1. \A a, b \in Text : r(a) \in Nat /\ (r(a) = r(b) => a = b)
  BY RankAssumption
<1>2. ASSUME NEW a \in IssueRecord, NEW b \in IssueRecord PROVE Before(a, b) <=> before(a, b)
  <2>1. DOMAIN a = 1..4 /\ 1..4 = {1, 2, 3, 4}
    BY DEF IssueRecord
  <2>2. ASSUME NEW i \in 1..4
        PROVE  (\A j \in 1..(i - 1) : a[j] = b[j]) <=>
                 (i > 1 => a[1] = b[1]) /\ (i > 2 => a[2] = b[2]) /\ (i > 3 => a[3] = b[3])
    OBVIOUS
  <2>3. Before(a, b) <=>
          \E i \in {1, 2, 3, 4} :
             /\ r(a[i]) < r(b[i])
             /\ (i > 1 => a[1] = b[1]) /\ (i > 2 => a[2] = b[2]) /\ (i > 3 => a[3] = b[3])
    BY <2>1, <2>2 DEF Before
  <2> QED
    BY <2>3
<1>3. ASSUME NEW a \in IssueRecord
      PROVE  /\ a = <<a[1], a[2], a[3], a[4]>>
             /\ a[1] \in Text /\ a[2] \in Text /\ a[3] \in Text /\ a[4] \in Text
  BY DEF IssueRecord
<1> HIDE DEF r
<1>4. \A a \in IssueRecord : ~before(a, a)
  BY <1>1, <1>3
<1>5. \A a, b, c \in IssueRecord : before(a, b) /\ before(b, c) => before(a, c)
  BY <1>1, <1>3
<1>6. \A a, b \in IssueRecord : a = b \/ before(a, b) \/ before(b, a)
  BY <1>1, <1>3
<1> HIDE DEF before
<1> QED
  BY <1>2, <1>4, <1>5, <1>6 DEF Ordered

(* Every record of the one list is a record of the other.                   *)
Extends(old, new) == \A i \in DOMAIN old : \E j \in DOMAIN new : new[j] = old[i]

(* A sorted list has the records it had before.                             *)
LEMMA SortKeeps ==
    ASSUME NEW S, Ordered(S), NEW s \in Seq(S)
    PROVE  SortBy(s, Before) \in Seq(S) /\ Extends(s, SortBy(s, Before))
<1> DEFINE n == Len(s)
           first(i, j) == Before(s[i], s[j]) \/ (~Before(s[j], s[i]) /\ i < j)
           R == {p \in (1..n) \X (1..n) : first(p[1], p[2])}
           at(k) == CHOOSE i \in DOMAIN s : Cardinality({j \in DOMAIN s : first(j, i)}) = k - 1
<1>1. n \in Nat /\ DOMAIN s = 1..n /\ \A i \in 1..n : s[i] \in S
  OBVIOUS
<1>2. \A i, j \in 1..n : <<i, j>> \in R <=> first(i, j)
  OBVIOUS
<1>3. IsOrder(n, R)
  <2>1. \A i \in 1..n : ~first(i, i)
    BY <1>1 DEF Ordered
  <2>2. \A i, j, k \in 1..n : first(i, j) /\ first(j, k) => first(i, k)
    BY <1>1 DEF Ordered
  <2>3. \A i, j \in 1..n : i = j \/ first(i, j) \/ first(j, i)
    BY <1>1 DEF Ordered
  <2> HIDE DEF first, R, n
  <2> QED
    BY <1>2, <2>1, <2>2, <2>3 DEF IsOrder
<1>4. \A i \in 1..n : {j \in DOMAIN s : first(j, i)} = Earlier(n, R, i)
  <2> HIDE DEF first, R, n
  <2> QED
    BY <1>1, <1>2 DEF Earlier
<1>5. SortBy(s, Before) = [k \in 1..n |-> s[at(k)]]
  BY <1>1 DEF SortBy
<1>6. ASSUME NEW k \in 1..n
      PROVE  at(k) \in 1..n /\ Cardinality(Earlier(n, R, at(k))) = k - 1
  <2>1. \E i \in DOMAIN s : Cardinality({j \in DOMAIN s : first(j, i)}) = k - 1
    <3> HIDE DEF first, R, n
    <3>1. PICK i \in 1..n : Cardinality(Earlier(n, R, i)) = k - 1
      BY <1>1, <1>3, Positions
    <3>2. i \in DOMAIN s /\ {j \in DOMAIN s : first(j, i)} = Earlier(n, R, i)
      BY <1>1, <1>4
    <3> QED
      BY <3>1, <3>2
  <2>2. at(k) \in DOMAIN s /\ Cardinality({j \in DOMAIN s : first(j, at(k))}) = k - 1
    <3> HIDE DEF first, R, n
    <3> QED
      BY <2>1
  <2> HIDE DEF first, R, n, at
  <2> QED
    BY <1>1, <1>4, <2>2
<1> HIDE DEF first, R, n, at
<1>7. SortBy(s, Before) \in Seq(S)
  BY <1>1, <1>5, <1>6
<1>8. ASSUME NEW i \in 1..n PROVE \E k \in 1..n : at(k) = i
  <2>1. PICK c \in 0..(n - 1) : Cardinality(Earlier(n, R, i)) = c
    BY <1>1, <1>3, Positions
  <2>2. c + 1 \in 1..n /\ (c + 1) - 1 = c
    BY <1>1
  <2>3. at(c + 1) \in 1..n /\ Cardinality(Earlier(n, R, at(c + 1))) = Cardinality(Earlier(n, R, i))
    BY <1>6, <2>1, <2>2
  <2> QED
    BY <1>1, <1>3, <2>2, <2>3, Positions
<1>9. ASSUME NEW i \in DOMAIN s
      PROVE  \E j \in DOMAIN SortBy(s, Before) : SortBy(s, Before)[j] = s[i]
  BY <1>1, <1>5, <1>8
<1> QED
  BY <1>7, <1>9 DEF Extends

-----------------------------------------------------------------------------
(* The inductive invariant.  A task is at one of its own steps.             *)
AtOwnStep ==
    \A t \in DOMAIN pc :
        \/ pc[t] \in {"waiting", "kept", "dropped"}
        \/ pc[t] \in StepsOf(t)
        \/ pc[t] = "join" /\ IsCatalog(t)

(* What was dropped, and what was kept without having been read whole, is   *)
(* in the issues or among the skips.                                        *)
Accounted(t) ==
    /\ pc[t] = "dropped" /\ Len(t) \in {2, 4} =>
         \/ SkipRecorded(t)
         \/ Reported(t, {"list", "get"})
         \/ t[1] = "secret_scopes" /\ Item(t).name = ""
    /\ pc[t] = "dropped" /\ Len(t) = 3 /\ t[3] = "own" => Reported(t, {"get"})
    /\ pc[t] = "dropped" /\ Len(t) = 3 /\ t[3] = "schemas" => Reported(t, {"schemas"})
    /\ found[t].owner = "unknown" => Reported(t, {"scope", "bindings"})
    /\ pc[t] = "kept" /\ "access" \in StepsOf(t) /\ ~found[t].access => Reported(t, {"access"})

AllAccounted == \A t \in DOMAIN pc : Accounted(t)

(* A task is started by its parent, which waits for it.                     *)
StartedByParent ==
    \A t \in DOMAIN pc :
        /\ Len(t) \in {2, 4} /\ pc[t] # "waiting" =>
             /\ pc[Parent(t)] \in {"pool", "kept"}
             /\ ~Ended(t) => pc[Parent(t)] = "pool"
        /\ Len(t) = 3 /\ pc[t] # "waiting" =>
             /\ pc[Parent(t)] \in {"join", "kept", "dropped"}
             /\ ~Ended(t) => pc[Parent(t)] = "join"

(* No pool has more workers than its limit.                                 *)
PoolsLimited ==
    \A t \in DOMAIN pc : Pool(t) =>
        LET workers == {u \in Children(t) : Running(u)}
        IN  IsFiniteSet(workers) /\ Cardinality(workers) <= Limit

(* Nothing is started before the caller is known.                           *)
StartedByRead == phase = "identify" => \A t \in DOMAIN pc : pc[t] = "waiting"

IInv == TypeOK /\ AtOwnStep /\ AllAccounted /\ StartedByParent /\ PoolsLimited /\ StartedByRead

-----------------------------------------------------------------------------
(* Tasks: where they are and what they are about.                           *)
LEMMA TaskFacts ==
    ASSUME TypeOK, NEW t \in DOMAIN pc
    PROVE  /\ Kind(world, t) /\ StepFacts(t) /\ Len(t) \in {1, 2, 3, 4} /\ t[1] \in Groups
           /\ Len(t) # 1 => Parent(t) \in DOMAIN pc /\ Len(Parent(t)) = Len(t) - 1
           /\ Len(t) \in {2, 4} => Pool(Parent(t))
           /\ Len(t) = 3 => IsCatalog(Parent(t)) /\ ~Pool(Parent(t))
<1>1. DOMAIN pc = Tasks(world) /\ world \in Worlds
  BY DEF TypeOK
<1>2. Kind(world, t) /\ StepFacts(t)
  BY <1>1, TasksHaveKinds, StepsFacts
<1>3. Len(t) \in {1, 2, 3, 4} /\ t[1] \in DOMAIN world.list
  BY <1>2 DEF Kind
<1>4. t[1] \in Groups
  BY <1>1, <1>3, WorldsAssumption DEF IsWorld
<1>5. CASE Len(t) = 2
  <2>1. Parent(t) = <<t[1]>>
    BY <1>5 DEF Parent
  <2>2. Kind(world, Parent(t)) /\ Len(Parent(t)) = 1
    BY <1>3, <2>1 DEF Kind
  <2> QED
    BY <1>1, <1>2, <1>4, <1>5, <2>2, TasksHaveKinds DEF Pool
<1>6. CASE Len(t) = 3
  <2>1. Parent(t) = <<t[1], t[2]>> /\ t[1] = Catalogs /\ t[2] \in DOMAIN Listed(world, t[1])
    BY <1>2, <1>6 DEF Parent, Kind
  <2>2. Kind(world, Parent(t)) /\ Len(Parent(t)) = 2 /\ Parent(t)[1] = Catalogs
    BY <1>3, <2>1 DEF Kind
  <2> QED
    BY <1>1, <1>2, <1>4, <1>6, <2>2, TasksHaveKinds DEF Pool, IsCatalog
<1>7. CASE Len(t) = 4
  <2>1. Parent(t) = <<t[1], t[2], "schemas">> /\ t[1] = Catalogs /\ t[2] \in DOMAIN Listed(world, t[1])
    BY <1>2, <1>7 DEF Parent, Kind
  <2>2. Kind(world, Parent(t)) /\ Len(Parent(t)) = 3 /\ Parent(t)[3] = "schemas"
    BY <1>3, <2>1 DEF Kind, Branches
  <2> QED
    BY <1>1, <1>2, <1>4, <1>7, <2>2, TasksHaveKinds DEF Pool
<1> QED
  BY <1>2, <1>3, <1>4, <1>5, <1>6, <1>7

LEMMA ItemFacts ==
    ASSUME TypeOK, NEW t \in DOMAIN pc, ReadsObject(t)
    PROVE  /\ Item(t).name \in Text
           /\ t[1] \in Text /\ Area(t[1]) \in Text
<1>1. /\ Kind(world, t) /\ world \in Worlds /\ IsWorld(world) /\ Len(t) \in {2, 3, 4}
      /\ t[1] \in Groups /\ t[1] # "service_principals"
  BY TaskFacts, WorldsAssumption DEF TypeOK, ReadsObject
<1>2. NamesIn(world) \subseteq Text /\ Words \subseteq Text
  BY <1>1, RankAssumption
<1> DEFINE o == Listed(world, t[1])[t[2]]
<1>3. t[1] \in DOMAIN world.list /\ t[2] \in DOMAIN Listed(world, t[1])
  BY <1>1 DEF Kind
<1>4. NamesOf(o) \subseteq Text /\ o \in ObjectInfo
  BY <1>1, <1>2, <1>3, ListedFacts
<1>5. CASE Len(t) # 4
  <2>1. Item(t) = o
    BY <1>5 DEF Item
  <2> QED
    BY <1>1, <1>2, <1>4, <2>1 DEF NamesOf, Words, Area
<1>6. CASE Len(t) = 4
  <2>1. Item(t) = o.schemas[t[4]]
    BY <1>6 DEF Item
  <2>2. o.schemas # Fail /\ t[4] \in DOMAIN o.schemas
    BY <1>1, <1>6 DEF Kind
  <2> QED
    BY <1>1, <1>2, <1>4, <2>1, <2>2 DEF NamesOf, Words, Area
<1> QED
  BY <1>5, <1>6

-----------------------------------------------------------------------------
(* Records are added, never taken back.                                     *)
Recorded(object, operation) ==
    \E i \in DOMAIN issues : issues[i][2] = object /\ issues[i][3] = operation

LEMMA IssueRecorded ==
    ASSUME TypeOK, NEW area \in Text, NEW object \in Text, NEW operation \in Text,
           NEW message \in Text, Issue(area, object, operation, message)
    PROVE  /\ issues' \in Seq(IssueRecord) /\ Extends(issues, issues')
           /\ Recorded(object, operation)'
<1> DEFINE r == <<area, object, operation, message>>
<1>1. issues \in Seq(IssueRecord) /\ r \in IssueRecord /\ issues' = Append(issues, r)
  BY DEF TypeOK, IssueRecord, Issue
<1>2. r[2] = object /\ r[3] = operation
  OBVIOUS
<1> HIDE DEF r
<1>3. /\ issues' \in Seq(IssueRecord) /\ Len(issues') = Len(issues) + 1
      /\ issues'[Len(issues) + 1] = r /\ \A i \in 1..Len(issues) : issues'[i] = issues[i]
  BY <1>1
<1>4. DOMAIN issues = 1..Len(issues) /\ DOMAIN issues' = 1..Len(issues') /\ Len(issues) \in Nat
  BY <1>1, <1>3
<1> QED
  BY <1>2, <1>3, <1>4 DEF Extends, Recorded

LEMMA SkipAdded ==
    ASSUME TypeOK, NEW area \in Text, NEW object \in Text, Skip(area, object)
    PROVE  /\ skipped' \in Seq(SkipRecord) /\ Extends(skipped, skipped')
           /\ \E i \in DOMAIN skipped' : skipped'[i][2] = object
<1> DEFINE r == <<area, object>>
<1>1. skipped \in Seq(SkipRecord) /\ r \in SkipRecord /\ skipped' = Append(skipped, r)
  BY DEF TypeOK, SkipRecord, Skip
<1>2. r[2] = object
  OBVIOUS
<1> HIDE DEF r
<1>3. /\ skipped' \in Seq(SkipRecord) /\ Len(skipped') = Len(skipped) + 1
      /\ skipped'[Len(skipped) + 1] = r /\ \A i \in 1..Len(skipped) : skipped'[i] = skipped[i]
  BY <1>1
<1>4. DOMAIN skipped = 1..Len(skipped) /\ DOMAIN skipped' = 1..Len(skipped') /\ Len(skipped) \in Nat
  BY <1>1, <1>3
<1> QED
  BY <1>2, <1>3, <1>4 DEF Extends

(* What every step does to the records.                                     *)
RecordsKept ==
    /\ issues' \in Seq(IssueRecord) /\ Extends(issues, issues')
    /\ skipped' \in Seq(SkipRecord) /\ Extends(skipped, skipped')

LEMMA SameRecords ==
    ASSUME TypeOK
    PROVE  /\ UNCHANGED issues => issues' \in Seq(IssueRecord) /\ Extends(issues, issues')
           /\ UNCHANGED skipped => skipped' \in Seq(SkipRecord) /\ Extends(skipped, skipped')
BY DEF TypeOK, IssueRecord, SkipRecord, Extends

LEMMA StaysRecorded ==
    ASSUME UNCHANGED world, RecordsKept, NEW t
    PROVE  /\ Item(t)' = Item(t)
           /\ \A ops : Reported(t, ops) => Reported(t, ops)'
           /\ SkipRecorded(t) => SkipRecorded(t)'
<1>1. Item(t)' = Item(t)
  BY DEF Item
<1>2. ASSUME NEW ops, Reported(t, ops) PROVE Reported(t, ops)'
  BY <1>1, <1>2 DEF Reported, RecordsKept, Extends
<1>3. ASSUME SkipRecorded(t) PROVE SkipRecorded(t)'
  BY <1>1, <1>3 DEF SkipRecorded, RecordsKept, Extends
<1> QED
  BY <1>1, <1>2, <1>3

(* A task that does not move stays accounted for.                           *)
LEMMA StaysAccounted ==
    ASSUME UNCHANGED world, RecordsKept, NEW t, Accounted(t), pc'[t] = pc[t], found'[t] = found[t]
    PROVE  Accounted(t)'
<1>1. /\ Item(t)' = Item(t)
      /\ \A ops : Reported(t, ops) => Reported(t, ops)'
      /\ SkipRecorded(t) => SkipRecorded(t)'
  BY StaysRecorded
<1>2. StepsOf(t)' = StepsOf(t)
  BY DEF StepsOf, Steps
<1> QED
  BY <1>1, <1>2 DEF Accounted

(* ... nor one that moves without its findings, when what it loses is told. *)
LEMMA MovesAccounted ==
    ASSUME UNCHANGED world, RecordsKept, NEW t, Accounted(t), found'[t] = found[t],
           pc'[t] = "dropped" /\ Len(t) \in {2, 4} =>
             \/ SkipRecorded(t)'
             \/ Reported(t, {"list", "get"})'
             \/ t[1] = "secret_scopes" /\ Item(t).name = "",
           pc'[t] = "dropped" /\ Len(t) = 3 /\ t[3] = "own" => Reported(t, {"get"})',
           pc'[t] = "dropped" /\ Len(t) = 3 /\ t[3] = "schemas" => Reported(t, {"schemas"})',
           pc'[t] = "kept" => "access" \notin StepsOf(t)
    PROVE  Accounted(t)'
<1>1. /\ Item(t)' = Item(t)
      /\ \A ops : Reported(t, ops) => Reported(t, ops)'
      /\ SkipRecorded(t) => SkipRecorded(t)'
  BY StaysRecorded
<1>2. StepsOf(t)' = StepsOf(t)
  BY DEF StepsOf, Steps
<1>3. found[t].owner = "unknown" => Reported(t, {"scope", "bindings"})
  BY DEF Accounted
<1> QED
  BY <1>1, <1>2, <1>3 DEF Accounted

-----------------------------------------------------------------------------
(* One running task goes on to x: what the steps of a worker share.         *)
Found == [owner : {"none", "shared", "workspace", "unknown"}, access : BOOLEAN]

Moves(t, x) ==
    /\ pc' = [pc EXCEPT ![t] = x]
    /\ UNCHANGED <<world, cancelled, phase, ident, here>>
    /\ RecordsKept
    /\ found' \in [DOMAIN pc -> Found]
    /\ \A u \in DOMAIN pc : u # t => found'[u] = found[u]

LEMMA MovesKeepsTypes ==
    ASSUME TypeOK, NEW t \in DOMAIN pc, NEW x \in StepsOf(t) \cup {"kept", "dropped"}, Moves(t, x)
    PROVE  TypeOK'
<1>1. /\ StepsOf(t) \subseteq {"list", "list_schemas", "pool", "type", "system", "blank", "fork",
                               "get", "classify", "access", "kept"}
  BY TaskFacts DEF StepFacts
<1> DEFINE S == {"waiting", "list", "list_schemas", "pool", "type", "system", "blank", "fork",
                 "join", "get", "classify", "access", "kept", "dropped"}
<1>2. pc \in [Tasks(world) -> S] /\ DOMAIN pc = Tasks(world)
  BY DEF TypeOK
<1>3. x \in S
  BY <1>1
<1> HIDE DEF S
<1>4. pc' \in [Tasks(world') -> S] /\ world' = world
  BY <1>2, <1>3 DEF Moves
<1>5. found' \in [Tasks(world') -> Found]
  BY <1>2, <1>4 DEF Moves
<1>6. issues' \in Seq(IssueRecord) /\ skipped' \in Seq(SkipRecord)
  BY DEF Moves, RecordsKept
<1>7. UNCHANGED <<world, cancelled, phase, ident, here>>
  BY DEF Moves
<1> QED
  BY <1>4, <1>5, <1>6, <1>7 DEF TypeOK, Found, IssueRecord, SkipRecord, S

LEMMA MovesKeepsIInv ==
    ASSUME IInv, NEW t \in DOMAIN pc, ~Ended(t), pc[t] # "waiting",
           NEW x \in StepsOf(t) \cup {"kept", "dropped"}, Moves(t, x), Accounted(t)',
           pc[t] \in {"pool", "join"} => /\ \A u \in Children(t) : Ended(u)
                                         /\ x \in {"kept", "dropped"}
                                         /\ pc[t] = "pool" => x = "kept"
    PROVE  IInv'
<1>1. TypeOK'
  BY MovesKeepsTypes DEF IInv
<1>2. /\ DOMAIN pc' = DOMAIN pc /\ pc'[t] = x /\ \A u \in DOMAIN pc : u # t => pc'[u] = pc[u]
      /\ world' = world /\ phase' = phase
  BY DEF IInv, TypeOK, Moves
<1>3. /\ \A u : StepsOf(u)' = StepsOf(u) /\ Parent(u)' = Parent(u)
      /\ \A u : Children(u)' = Children(u)
      /\ \A u : IsCatalog(u)' = IsCatalog(u) /\ Pool(u)' = Pool(u)
  BY <1>2 DEF StepsOf, Steps, Parent, Children, IsCatalog, Pool
<1>4. AtOwnStep'
  <2> SUFFICES ASSUME NEW u \in DOMAIN pc'
               PROVE  \/ pc'[u] \in {"waiting", "kept", "dropped"}
                      \/ pc'[u] \in StepsOf(u)
                      \/ pc'[u] = "join" /\ IsCatalog(u)
    BY <1>3 DEF AtOwnStep
  <2> QED
    BY <1>2 DEF IInv, AtOwnStep
<1>5. AllAccounted'
  <2> SUFFICES ASSUME NEW u \in DOMAIN pc' PROVE Accounted(u)'
    BY DEF AllAccounted
  <2>1. CASE u = t
    BY <2>1
  <2>2. CASE u # t
    <3>1. u \in DOMAIN pc /\ pc'[u] = pc[u] /\ found'[u] = found[u] /\ Accounted(u)
      BY <1>2, <2>2 DEF IInv, AllAccounted, Moves
    <3> QED
      BY <1>2, <3>1, StaysAccounted DEF Moves
  <2> QED
    BY <2>1, <2>2
<1>6. StartedByParent'
  <2> SUFFICES ASSUME NEW u \in DOMAIN pc'
               PROVE  /\ Len(u) \in {2, 4} /\ pc'[u] # "waiting" =>
                           /\ pc'[Parent(u)] \in {"pool", "kept"}
                           /\ ~Ended(u)' => pc'[Parent(u)] = "pool"
                      /\ Len(u) = 3 /\ pc'[u] # "waiting" =>
                           /\ pc'[Parent(u)] \in {"join", "kept", "dropped"}
                           /\ ~Ended(u)' => pc'[Parent(u)] = "join"
    BY <1>3 DEF StartedByParent
  <2>1. /\ u \in DOMAIN pc /\ Len(u) \in {1, 2, 3, 4}
        /\ Len(u) # 1 => Parent(u) \in DOMAIN pc /\ Len(Parent(u)) = Len(u) - 1
    BY <1>2, TaskFacts DEF IInv
  <2>2. /\ Len(u) \in {2, 4} /\ pc[u] # "waiting" =>
             /\ pc[Parent(u)] \in {"pool", "kept"}
             /\ ~Ended(u) => pc[Parent(u)] = "pool"
        /\ Len(u) = 3 /\ pc[u] # "waiting" =>
             /\ pc[Parent(u)] \in {"join", "kept", "dropped"}
             /\ ~Ended(u) => pc[Parent(u)] = "join"
    BY <2>1 DEF IInv, StartedByParent
  <2>3. CASE Len(u) = 1
    BY <2>3
  <2>4. CASE Len(u) # 1 /\ Parent(u) = t
    <3>1. u # t /\ u \in Children(t) /\ pc'[u] = pc[u]
      BY <1>2, <2>1, <2>4 DEF Children
    <3> QED
      BY <1>2, <2>1, <2>2, <2>4, <3>1 DEF Ended
  <2>5. CASE Len(u) # 1 /\ Parent(u) # t
    <3>1. pc'[Parent(u)] = pc[Parent(u)]
      BY <1>2, <2>1, <2>5
    <3>2. /\ pc'[u] # "waiting" => pc[u] # "waiting"
          /\ pc'[u] # "waiting" /\ ~Ended(u)' => ~Ended(u)
      BY <1>2, <2>1 DEF Ended
    <3> QED
      BY <2>1, <2>2, <3>1, <3>2
  <2> QED
    BY <2>1, <2>3, <2>4, <2>5
<1>7. PoolsLimited'
  <2> SUFFICES ASSUME NEW s \in DOMAIN pc, Pool(s)
               PROVE  /\ IsFiniteSet({u \in Children(s) : Running(u)'})
                      /\ Cardinality({u \in Children(s) : Running(u)'}) <= Limit
    BY <1>2, <1>3 DEF PoolsLimited, Limit
  <2>1. {u \in Children(s) : Running(u)'} \in SUBSET {u \in Children(s) : Running(u)}
    BY <1>2 DEF Running, Ended, Children
  <2>2. /\ IsFiniteSet({u \in Children(s) : Running(u)})
        /\ Cardinality({u \in Children(s) : Running(u)}) <= Limit
    BY DEF IInv, PoolsLimited
  <2>3. Limit \in Nat
    BY ParallelismAssumption DEF Limit
  <2> QED
    BY <2>1, <2>2, <2>3, FS_Subset, FS_CardinalityType
<1>8. StartedByRead'
  BY <1>2 DEF IInv, StartedByRead
<1> QED
  BY <1>1, <1>4, <1>5, <1>6, <1>7, <1>8 DEF IInv

-----------------------------------------------------------------------------
(* The steps of the workers, one by one.                                    *)
LEMMA Texts ==
    ASSUME TypeOK
    PROVE  /\ \A t \in DOMAIN pc : t[1] \in Text /\ Area(t[1]) \in Text
           /\ \A ok \in BOOLEAN : \A e \in Outcomes(ok) : e # NoError => e \in Text
           /\ Words \subseteq Text
           /\ world.name # AnyName => world.name \in Text
<1>1. Words \subseteq Text /\ NamesIn(world) \subseteq Text
  BY RankAssumption DEF TypeOK
<1>2. ASSUME NEW t \in DOMAIN pc PROVE t[1] \in Words /\ Area(t[1]) \in Words
  <2>1. t[1] \in Groups
    BY TaskFacts
  <2> QED
    BY <2>1 DEF Words, Area
<1>3. \A ok \in BOOLEAN : \A e \in Outcomes(ok) : e # NoError => e \in Words
  BY DEF Outcomes, Words, NoError
<1>4. world.name # AnyName => world.name \in NamesIn(world)
  BY DEF NamesIn
<1> QED
  BY <1>1, <1>2, <1>3, <1>4

LEMMA AtStep ==
    ASSUME IInv, NEW t \in DOMAIN pc, pc[t] \notin {"waiting", "kept", "dropped", "join"}
    PROVE  /\ TypeOK /\ Accounted(t) /\ pc[t] \in StepsOf(t) /\ StepFacts(t) /\ ~Ended(t)
           /\ Len(t) \in {1, 2, 3, 4} /\ found \in [DOMAIN pc -> Found]
<1>1. TypeOK /\ Accounted(t) /\ pc[t] \in StepsOf(t)
  BY DEF IInv, AtOwnStep, AllAccounted
<1>2. StepFacts(t) /\ Len(t) \in {1, 2, 3, 4}
  BY <1>1, TaskFacts
<1> QED
  BY <1>1, <1>2 DEF TypeOK, Found, Ended

LEMMA ListStep == ASSUME IInv, NEW t \in DOMAIN pc, List(t) PROVE IInv'
<1>1. /\ TypeOK /\ Accounted(t) /\ StepFacts(t) /\ found \in [DOMAIN pc -> Found]
      /\ pc[t] = "list" /\ pc[t] \in StepsOf(t) /\ ~Ended(t)
  BY AtStep DEF List
<1>2. Len(t) = 1 /\ Following(t) = "pool" /\ "pool" \in StepsOf(t) /\ "access" \notin StepsOf(t)
  BY <1>1 DEF StepFacts, Pool
<1>3. PICK e \in Outcomes(world.list[t[1]] # Fail) :
        \/ e # NoError /\ Drop(t) /\ Issue(Area(t[1]), t[1], "list", e)
        \/ e = NoError /\ Proceed(t) /\ UNCHANGED issues
        \/ /\ e = NoError /\ Drop(t) /\ ~NameFound(world, Keyed(t[1], world.list[t[1]]))
           /\ Issue("selection", world.name, "select name", "selection_failed")
  BY DEF List
<1>4. UNCHANGED <<world, cancelled, phase, ident, here, found, skipped>>
  BY DEF List
<1>5. issues' \in Seq(IssueRecord) /\ Extends(issues, issues')
  <2>1. CASE e # NoError
    BY <1>1, <1>3, <2>1, Texts, IssueRecorded DEF Words
  <2>2. CASE UNCHANGED issues
    BY <1>1, <2>2, SameRecords
  <2>3. CASE /\ ~NameFound(world, Keyed(t[1], world.list[t[1]]))
             /\ Issue("selection", world.name, "select name", "selection_failed")
    <3>1. world.name # AnyName
      BY <2>3 DEF NameFound
    <3> QED
      BY <1>1, <2>3, <3>1, Texts, IssueRecorded DEF Words
  <2> QED
    BY <1>3, <2>1, <2>2, <2>3
<1>6. PICK x \in {"pool", "dropped"} : pc' = [pc EXCEPT ![t] = x]
  BY <1>2, <1>3 DEF Drop, Proceed
<1>7. Moves(t, x)
  BY <1>1, <1>4, <1>5, <1>6, SameRecords DEF Moves, RecordsKept
<1>8. Accounted(t)'
  <2>1. pc'[t] = x /\ found'[t] = found[t] /\ StepsOf(t)' = StepsOf(t)
    BY <1>1, <1>4, <1>6 DEF StepsOf, Steps, TypeOK
  <2>2. \A ops : Reported(t, ops) => Reported(t, ops)'
    BY <1>7, StaysRecorded DEF Moves
  <2> QED
    BY <1>1, <1>2, <2>1, <2>2 DEF Accounted
<1> QED
  BY <1>1, <1>2, <1>6, <1>7, <1>8, MovesKeepsIInv

LEMMA ListSchemasStep == ASSUME IInv, NEW t \in DOMAIN pc, ListSchemas(t) PROVE IInv'
<1>1. /\ TypeOK /\ Accounted(t) /\ StepFacts(t) /\ found \in [DOMAIN pc -> Found]
      /\ pc[t] = "list_schemas" /\ pc[t] \in StepsOf(t) /\ ~Ended(t)
  BY AtStep DEF ListSchemas
<1>2. Len(t) = 3 /\ ReadsObject(t) /\ Following(t) = "pool" /\ "pool" \in StepsOf(t)
  BY <1>1 DEF StepFacts
<1>3. "access" \notin StepsOf(t) /\ t[3] # "own"
  BY <1>1, <1>2 DEF StepFacts, Pool
<1> PICK object \in Text : object = Item(t).name
  BY <1>1, <1>2, ItemFacts
<1>4. PICK e \in Outcomes(Item(t).schemas # Fail) :
        \/ e # NoError /\ Drop(t) /\ Issue("unity_catalog", object, "schemas", e)
        \/ e = NoError /\ Proceed(t) /\ UNCHANGED issues
  BY DEF ListSchemas
<1>5. UNCHANGED <<world, cancelled, phase, ident, here, found, skipped>>
  BY DEF ListSchemas
<1>6. /\ issues' \in Seq(IssueRecord) /\ Extends(issues, issues')
      /\ e # NoError => Recorded(object, "schemas")'
  <2>1. CASE e # NoError
    BY <1>1, <1>2, <1>4, <2>1, Texts, IssueRecorded DEF Words
  <2>2. CASE UNCHANGED issues /\ e = NoError
    BY <1>1, <2>2, SameRecords
  <2> QED
    BY <1>4, <2>1, <2>2
<1>7. PICK x \in {"pool", "dropped"} :
        pc' = [pc EXCEPT ![t] = x] /\ (x = "dropped" => e # NoError)
  BY <1>2, <1>4 DEF Drop, Proceed
<1>8. Moves(t, x)
  BY <1>1, <1>5, <1>6, <1>7, SameRecords DEF Moves, RecordsKept
<1>9. Accounted(t)'
  <2>1. pc'[t] = x /\ found'[t] = found[t] /\ StepsOf(t)' = StepsOf(t)
    BY <1>1, <1>5, <1>7 DEF StepsOf, Steps, TypeOK
  <2>2. Item(t)' = Item(t) /\ \A ops : Reported(t, ops) => Reported(t, ops)'
    BY <1>8, StaysRecorded DEF Moves
  <2>3. x = "dropped" => Reported(t, {"schemas"})'
    BY <1>6, <1>7, <2>2 DEF Reported, Recorded
  <2> QED
    BY <1>1, <1>2, <1>3, <2>1, <2>2, <2>3 DEF Accounted
<1> QED
  BY <1>1, <1>2, <1>7, <1>8, <1>9, MovesKeepsIInv

LEMMA WaitStep == ASSUME IInv, NEW t \in DOMAIN pc, Wait(t) PROVE IInv'
<1>1. /\ TypeOK /\ Accounted(t) /\ StepFacts(t) /\ found \in [DOMAIN pc -> Found]
      /\ pc[t] = "pool" /\ pc[t] \in StepsOf(t) /\ ~Ended(t)
  BY AtStep DEF Wait
<1>2. "access" \notin StepsOf(t)
  BY <1>1 DEF StepFacts
<1>3. Moves(t, "kept")
  BY <1>1, SameRecords DEF Wait, Moves, RecordsKept
<1>4. Accounted(t)'
  <2>1. pc'[t] = "kept" /\ found'[t] = found[t] /\ StepsOf(t)' = StepsOf(t)
    BY <1>1 DEF Wait, StepsOf, Steps, TypeOK
  <2>2. \A ops : Reported(t, ops) => Reported(t, ops)'
    BY <1>3, StaysRecorded DEF Moves
  <2> QED
    BY <1>1, <1>2, <2>1, <2>2 DEF Accounted
<1>5. \A u \in Children(t) : Ended(u)
  BY DEF Wait
<1> QED
  BY <1>1, <1>3, <1>4, <1>5, MovesKeepsIInv

LEMMA CheckTypeStep == ASSUME IInv, NEW t \in DOMAIN pc, CheckType(t) PROVE IInv'
<1>1. /\ TypeOK /\ Accounted(t) /\ StepFacts(t) /\ found \in [DOMAIN pc -> Found]
      /\ pc[t] = "type" /\ pc[t] \in StepsOf(t) /\ ~Ended(t)
  BY AtStep DEF CheckType
<1>2. Len(t) = 2 /\ ReadsObject(t) /\ "access" \notin StepsOf(t) /\ Following(t) \in StepsOf(t)
  BY <1>1 DEF StepFacts, IsCatalog
<1>3. UNCHANGED <<world, cancelled, phase, ident, here, found>>
  BY DEF CheckType
<1>4. PICK object \in Text : object = Item(t).name
  BY <1>1, <1>2, ItemFacts
<1>5. CASE Proceed(t) /\ UNCHANGED <<issues, skipped>>
  <2>1. Moves(t, Following(t))
    BY <1>1, <1>3, <1>5, SameRecords DEF Moves, RecordsKept, Proceed
  <2>2. Accounted(t)'
    <3>1. pc'[t] \in StepsOf(t) /\ found'[t] = found[t] /\ StepsOf(t)' = StepsOf(t)
      BY <1>1, <1>2, <1>3, <1>5 DEF StepsOf, Steps, Proceed, TypeOK
    <3>2. \A ops : Reported(t, ops) => Reported(t, ops)'
      BY <2>1, StaysRecorded DEF Moves
    <3>3. pc'[t] # "dropped"
      BY <1>1, <3>1 DEF StepFacts
    <3> QED
      BY <1>1, <1>2, <3>1, <3>2, <3>3 DEF Accounted
  <2> QED
    BY <1>1, <1>2, <2>1, <2>2, MovesKeepsIInv
<1>6. CASE /\ Drop(t) /\ Issue("unity_catalog", Item(t).name, "list", "missing_type")
           /\ UNCHANGED skipped
  <2>1. /\ issues' \in Seq(IssueRecord) /\ Extends(issues, issues')
        /\ Recorded(object, "list")'
    BY <1>1, <1>4, <1>6, Texts, IssueRecorded DEF Words
  <2>2. Moves(t, "dropped")
    BY <1>1, <1>3, <1>6, <2>1, SameRecords DEF Moves, RecordsKept, Drop
  <2>3. Accounted(t)'
    <3>1. pc'[t] = "dropped" /\ found'[t] = found[t] /\ StepsOf(t)' = StepsOf(t)
      BY <1>1, <1>3, <1>6 DEF StepsOf, Steps, Drop, TypeOK
    <3>2. Item(t)' = Item(t) /\ \A ops : Reported(t, ops) => Reported(t, ops)'
      BY <2>2, StaysRecorded DEF Moves
    <3>3. Reported(t, {"list", "get"})'
      BY <1>4, <2>1, <3>2 DEF Reported, Recorded
    <3> QED
      BY <1>1, <1>2, <3>1, <3>2, <3>3 DEF Accounted
  <2> QED
    BY <1>1, <2>2, <2>3, MovesKeepsIInv
<1>7. CASE Drop(t) /\ Skip("unity_catalog", Item(t).name) /\ UNCHANGED issues
  <2>1. /\ skipped' \in Seq(SkipRecord) /\ Extends(skipped, skipped')
        /\ \E i \in DOMAIN skipped' : skipped'[i][2] = Item(t).name
    BY <1>1, <1>4, <1>7, Texts, SkipAdded DEF Words
  <2>2. Moves(t, "dropped")
    BY <1>1, <1>3, <1>7, <2>1, SameRecords DEF Moves, RecordsKept, Drop
  <2>3. Accounted(t)'
    <3>1. pc'[t] = "dropped" /\ found'[t] = found[t] /\ StepsOf(t)' = StepsOf(t)
      BY <1>1, <1>3, <1>7 DEF StepsOf, Steps, Drop, TypeOK
    <3>2. Item(t)' = Item(t) /\ \A ops : Reported(t, ops) => Reported(t, ops)'
      BY <2>2, StaysRecorded DEF Moves
    <3>3. SkipRecorded(t)'
      BY <2>1, <3>2 DEF SkipRecorded
    <3> QED
      BY <1>1, <1>2, <3>1, <3>2, <3>3 DEF Accounted
  <2> QED
    BY <1>1, <2>2, <2>3, MovesKeepsIInv
<1> QED
  BY <1>5, <1>6, <1>7 DEF CheckType

LEMMA CheckSystemStep == ASSUME IInv, NEW t \in DOMAIN pc, CheckSystem(t) PROVE IInv'
<1>1. /\ TypeOK /\ Accounted(t) /\ StepFacts(t) /\ found \in [DOMAIN pc -> Found]
      /\ pc[t] = "system" /\ pc[t] \in StepsOf(t) /\ ~Ended(t)
  BY AtStep DEF CheckSystem
<1>2. Len(t) \in {2, 4} /\ ReadsObject(t) /\ Following(t) \in StepsOf(t)
  BY <1>1 DEF StepFacts
<1>3. UNCHANGED <<world, cancelled, phase, ident, here, found, issues>>
  BY DEF CheckSystem
<1>4. Item(t).name \in Text
  BY <1>1, <1>2, ItemFacts
<1>5. CASE Proceed(t) /\ UNCHANGED skipped
  <2>1. Moves(t, Following(t))
    BY <1>1, <1>3, <1>5, SameRecords DEF Moves, RecordsKept, Proceed
  <2>2. Accounted(t)'
    <3>1. pc'[t] = Following(t) /\ found'[t] = found[t] /\ StepsOf(t)' = StepsOf(t)
      BY <1>1, <1>2, <1>3, <1>5 DEF StepsOf, Steps, Proceed, TypeOK
    <3>2. \A ops : Reported(t, ops) => Reported(t, ops)'
      BY <2>1, StaysRecorded DEF Moves
    <3>3. pc'[t] # "dropped" /\ ("access" \in StepsOf(t) => pc'[t] # "kept")
      BY <1>1, <1>2, <3>1 DEF StepFacts
    <3> QED
      BY <1>1, <1>2, <3>1, <3>2, <3>3 DEF Accounted
  <2> QED
    BY <1>1, <1>2, <2>1, <2>2, MovesKeepsIInv
<1>6. CASE Drop(t) /\ Skip(Area(t[1]), Item(t).name)
  <2>1. /\ skipped' \in Seq(SkipRecord) /\ Extends(skipped, skipped')
        /\ \E i \in DOMAIN skipped' : skipped'[i][2] = Item(t).name
    BY <1>1, <1>4, <1>6, Texts, SkipAdded
  <2>2. Moves(t, "dropped")
    BY <1>1, <1>3, <1>6, <2>1, SameRecords DEF Moves, RecordsKept, Drop
  <2>3. Accounted(t)'
    <3>1. pc'[t] = "dropped" /\ found'[t] = found[t] /\ StepsOf(t)' = StepsOf(t)
      BY <1>1, <1>3, <1>6 DEF StepsOf, Steps, Drop, TypeOK
    <3>2. Item(t)' = Item(t) /\ \A ops : Reported(t, ops) => Reported(t, ops)'
      BY <2>2, StaysRecorded DEF Moves
    <3>3. SkipRecorded(t)'
      BY <2>1, <3>2 DEF SkipRecorded
    <3> QED
      BY <1>1, <1>2, <3>1, <3>2, <3>3 DEF Accounted
  <2> QED
    BY <1>1, <2>2, <2>3, MovesKeepsIInv
<1> QED
  BY <1>5, <1>6 DEF CheckSystem

LEMMA CheckBlankStep == ASSUME IInv, NEW t \in DOMAIN pc, CheckBlank(t) PROVE IInv'
<1>1. /\ TypeOK /\ Accounted(t) /\ StepFacts(t) /\ found \in [DOMAIN pc -> Found]
      /\ pc[t] = "blank" /\ pc[t] \in StepsOf(t) /\ ~Ended(t)
  BY AtStep DEF CheckBlank
<1>2. Len(t) = 2 /\ t[1] = "secret_scopes" /\ Following(t) \in StepsOf(t)
  BY <1>1 DEF StepFacts
<1>3. UNCHANGED <<world, cancelled, phase, ident, here, found, issues, skipped>>
  BY DEF CheckBlank
<1>4. CASE Item(t).name = "" /\ Drop(t)
  <2>1. Moves(t, "dropped")
    BY <1>1, <1>3, <1>4, SameRecords DEF Moves, RecordsKept, Drop
  <2>2. Accounted(t)'
    <3>1. pc'[t] = "dropped" /\ found'[t] = found[t]
      BY <1>1, <1>3, <1>4 DEF Drop, TypeOK
    <3>2. UNCHANGED world /\ RecordsKept
      BY <2>1 DEF Moves
    <3>3. Len(t) \in {2, 4} => t[1] = "secret_scopes" /\ Item(t).name = ""
      BY <1>2, <1>4
    <3>4. Len(t) # 3
      BY <1>2
    <3> QED
      BY <1>1, <3>1, <3>2, <3>3, <3>4, MovesAccounted
  <2> QED
    BY <1>1, <2>1, <2>2, MovesKeepsIInv
<1>5. CASE Proceed(t)
  <2>1. Moves(t, Following(t))
    BY <1>1, <1>3, <1>5, SameRecords DEF Moves, RecordsKept, Proceed
  <2>2. Accounted(t)'
    <3>1. pc'[t] = Following(t) /\ found'[t] = found[t] /\ StepsOf(t)' = StepsOf(t)
      BY <1>1, <1>3, <1>5 DEF StepsOf, Steps, Proceed, TypeOK
    <3>2. \A ops : Reported(t, ops) => Reported(t, ops)'
      BY <2>1, StaysRecorded DEF Moves
    <3>3. pc'[t] # "dropped" /\ ("access" \in StepsOf(t) => pc'[t] # "kept")
      BY <1>1, <1>2, <3>1 DEF StepFacts
    <3> QED
      BY <1>1, <3>1, <3>2, <3>3 DEF Accounted
  <2> QED
    BY <1>1, <1>2, <2>1, <2>2, MovesKeepsIInv
<1> QED
  BY <1>4, <1>5 DEF CheckBlank

(* A catalog ends as its own branch did, which reports what it drops.       *)
LEMMA JoinStep == ASSUME IInv, NEW t \in DOMAIN pc, Join(t) PROVE IInv'
<1> DEFINE own == <<t[1], t[2], "own">>
<1>1. TypeOK /\ Accounted(t) /\ pc[t] = "join" /\ ~Ended(t) /\ found \in [DOMAIN pc -> Found]
  BY DEF IInv, AllAccounted, Join, Ended, TypeOK, Found
<1>2. IsCatalog(t) /\ Kind(world, t) /\ StepFacts(t)
  <2>1. StepFacts(t) /\ Kind(world, t)
    BY <1>1, TaskFacts
  <2> QED
    BY <1>1, <2>1 DEF IInv, AtOwnStep, StepFacts
<1>3. Len(t) = 2 /\ "access" \notin StepsOf(t)
  BY <1>2 DEF IsCatalog, StepFacts
<1>4. own \in DOMAIN pc /\ Len(own) = 3 /\ own[3] = "own" /\ own[1] = t[1] /\ own[2] = t[2]
  <2>1. /\ t[1] \in DOMAIN world.list /\ t[2] \in DOMAIN Listed(world, t[1]) /\ t[1] = Catalogs
        /\ "own" \in Branches
    BY <1>2 DEF Kind, IsCatalog, Branches
  <2>2. Len(own) = 3 /\ own[3] = "own" /\ own[1] = t[1] /\ own[2] = t[2]
    OBVIOUS
  <2>3. Kind(world, own)
    BY <2>1, <2>2 DEF Kind
  <2> QED
    BY <1>1, <2>2, <2>3, TasksHaveKinds DEF TypeOK
<1>5. Parent(own) = t /\ Item(own) = Item(t)
  <2>1. t = <<t[1], t[2]>>
    BY <1>2, <1>3 DEF Kind
  <2> QED
    BY <1>3, <1>4, <2>1 DEF Parent, Item
<1> HIDE DEF own
<1>6. PICK x \in {"kept", "dropped"} : pc[own] = x
  <2>1. own \in DOMAIN pc /\ Len(own) # 1 /\ Parent(own) = t
    BY <1>4, <1>5
  <2>2. own \in Children(t)
    BY <2>1 DEF Children
  <2> QED
    BY <2>2 DEF Join, Ended
<1>7. pc' = [pc EXCEPT ![t] = x]
  BY <1>6 DEF Join, own
<1>8. UNCHANGED <<world, cancelled, phase, ident, here, found, issues, skipped>>
  BY DEF Join
<1>9. Moves(t, x)
  BY <1>1, <1>7, <1>8, SameRecords DEF Moves, RecordsKept
<1>10. Accounted(t)'
  <2>1. pc'[t] = x /\ found'[t] = found[t]
    BY <1>1, <1>7, <1>8 DEF TypeOK
  <2>2. \A ops : Reported(t, ops) => Reported(t, ops)'
    BY <1>9, StaysRecorded DEF Moves
  <2>3. x = "dropped" => Reported(own, {"get"})
    BY <1>1, <1>4, <1>6 DEF IInv, AllAccounted, Accounted
  <2>4. x = "dropped" => Reported(t, {"list", "get"})
    BY <1>5, <2>3 DEF Reported
  <2>5. UNCHANGED world /\ RecordsKept
    BY <1>9 DEF Moves
  <2>6. Len(t) # 3
    BY <1>3
  <2>7. x = "dropped" => Reported(t, {"list", "get"})'
    BY <2>2, <2>4
  <2> QED
    BY <1>1, <1>3, <2>1, <2>5, <2>6, <2>7, MovesAccounted
<1>11. \A u \in Children(t) : Ended(u)
  BY DEF Join
<1> QED
  BY <1>1, <1>9, <1>10, <1>11, MovesKeepsIInv

LEMMA GetStep == ASSUME IInv, NEW t \in DOMAIN pc, Get(t) PROVE IInv'
<1>1. /\ TypeOK /\ Accounted(t) /\ StepFacts(t) /\ found \in [DOMAIN pc -> Found]
      /\ pc[t] = "get" /\ pc[t] \in StepsOf(t) /\ ~Ended(t)
  BY AtStep DEF Get
<1>2. ReadsObject(t) /\ Following(t) \in StepsOf(t) /\ ~Pool(t)
  BY <1>1 DEF StepFacts
<1>3. UNCHANGED <<world, cancelled, phase, ident, here, found, skipped>>
  BY DEF Get
<1>4. PICK object \in Text : object = Item(t).name
  BY <1>1, <1>2, ItemFacts
<1>5. PICK e \in Outcomes(Item(t).get) :
        \/ e # NoError /\ Drop(t) /\ Issue(Area(t[1]), object, "get", e)
        \/ e = NoError /\ Proceed(t) /\ UNCHANGED issues
  BY <1>4 DEF Get
<1>6. e # NoError => e \in Text
  BY <1>1, Texts DEF Outcomes, NoError, Words
<1>7. CASE e # NoError
  <2>1. Area(t[1]) \in Text /\ "get" \in Text
    BY <1>1, Texts DEF Words
  <2>2. issues' \in Seq(IssueRecord) /\ Extends(issues, issues') /\ Recorded(object, "get")'
    BY <1>1, <1>5, <1>6, <1>7, <2>1, IssueRecorded
  <2>3. Moves(t, "dropped")
    BY <1>1, <1>3, <1>5, <1>7, <2>2, SameRecords DEF Moves, RecordsKept, Drop
  <2>4. Accounted(t)'
    <3>1. pc'[t] = "dropped" /\ found'[t] = found[t] /\ StepsOf(t)' = StepsOf(t)
      BY <1>1, <1>3, <1>5, <1>7 DEF StepsOf, Steps, Drop, TypeOK
    <3>2. Item(t)' = Item(t) /\ \A ops : Reported(t, ops) => Reported(t, ops)'
      BY <2>3, StaysRecorded DEF Moves
    <3>3. Reported(t, {"list", "get"})' /\ Reported(t, {"get"})'
      BY <1>4, <2>2, <3>2 DEF Reported, Recorded
    <3>4. Len(t) = 3 => t[3] # "schemas"
      BY <1>2 DEF Pool
    <3> QED
      BY <1>1, <3>1, <3>2, <3>3, <3>4 DEF Accounted
  <2> QED
    BY <1>1, <2>3, <2>4, MovesKeepsIInv
<1>8. CASE Proceed(t) /\ UNCHANGED issues
  <2>1. Moves(t, Following(t))
    BY <1>1, <1>3, <1>8, SameRecords DEF Moves, RecordsKept, Proceed
  <2>2. Accounted(t)'
    <3>1. pc'[t] = Following(t) /\ found'[t] = found[t] /\ StepsOf(t)' = StepsOf(t)
      BY <1>1, <1>3, <1>8 DEF StepsOf, Steps, Proceed, TypeOK
    <3>2. \A ops : Reported(t, ops) => Reported(t, ops)'
      BY <2>1, StaysRecorded DEF Moves
    <3>3. pc'[t] # "dropped" /\ ("access" \in StepsOf(t) => pc'[t] # "kept")
      BY <1>1, <1>2, <3>1 DEF StepFacts
    <3> QED
      BY <1>1, <3>1, <3>2, <3>3 DEF Accounted
  <2> QED
    BY <1>1, <1>2, <2>1, <2>2, MovesKeepsIInv
<1> QED
  BY <1>5, <1>7, <1>8

LEMMA AccessStep == ASSUME IInv, NEW t \in DOMAIN pc, Access(t) PROVE IInv'
<1>1. /\ TypeOK /\ Accounted(t) /\ StepFacts(t) /\ found \in [DOMAIN pc -> Found]
      /\ pc[t] = "access" /\ pc[t] \in StepsOf(t) /\ ~Ended(t)
  BY AtStep DEF Access
<1>2. ReadsObject(t) /\ Following(t) \in StepsOf(t)
  BY <1>1 DEF StepFacts
<1>3. Proceed(t) /\ UNCHANGED <<world, cancelled, phase, ident, here, skipped>>
  BY DEF Access
<1>4. PICK object \in Text : object = Item(t).name
  BY <1>1, <1>2, ItemFacts
<1>5. PICK e \in Outcomes(Item(t).access) :
        /\ found' = [found EXCEPT ![t].access = (e = NoError)]
        /\ \/ e = NoError /\ UNCHANGED issues
           \/ e # NoError /\ Issue(Area(t[1]), object, "access", e)
  BY <1>4 DEF Access
<1>6. e # NoError => e \in Text
  BY <1>1, Texts DEF Outcomes, NoError, Words
<1>7. /\ issues' \in Seq(IssueRecord) /\ Extends(issues, issues')
      /\ e # NoError => Recorded(object, "access")'
  <2>1. Area(t[1]) \in Text /\ "access" \in Text
    BY <1>1, Texts DEF Words
  <2>2. CASE e = NoError
    BY <1>1, <1>5, <2>2, SameRecords
  <2>3. CASE e # NoError
    BY <1>1, <1>5, <1>6, <2>1, <2>3, IssueRecorded
  <2> QED
    BY <2>2, <2>3
<1>8. /\ found' \in [DOMAIN pc -> Found] /\ \A u \in DOMAIN pc : u # t => found'[u] = found[u]
      /\ found'[t].owner = found[t].owner /\ found'[t].access = (e = NoError)
  BY <1>1, <1>5 DEF Found
<1>9. Moves(t, Following(t))
  BY <1>1, <1>3, <1>7, <1>8, SameRecords DEF Moves, RecordsKept, Proceed
<1>10. Accounted(t)'
  <2>1. pc'[t] = Following(t) /\ StepsOf(t)' = StepsOf(t)
    BY <1>1, <1>3 DEF StepsOf, Steps, Proceed, TypeOK
  <2>2. Item(t)' = Item(t) /\ \A ops : Reported(t, ops) => Reported(t, ops)'
    BY <1>9, StaysRecorded DEF Moves
  <2>3. pc'[t] # "dropped"
    BY <1>1, <1>2, <2>1 DEF StepFacts
  <2>4. e # NoError => Reported(t, {"access"})'
    BY <1>4, <1>7, <2>2 DEF Reported, Recorded
  <2> QED
    BY <1>1, <1>8, <2>1, <2>2, <2>3, <2>4 DEF Accounted
<1> QED
  BY <1>1, <1>2, <1>9, <1>10, MovesKeepsIInv

LEMMA ClassifyStep == ASSUME IInv, NEW t \in DOMAIN pc, Classify(t) PROVE IInv'
<1>1. /\ TypeOK /\ Accounted(t) /\ StepFacts(t) /\ found \in [DOMAIN pc -> Found]
      /\ pc[t] = "classify" /\ pc[t] \in StepsOf(t) /\ ~Ended(t)
  BY AtStep DEF Classify
<1>2. ReadsObject(t) /\ Following(t) \in StepsOf(t)
  BY <1>1 DEF StepFacts
<1>3. Proceed(t) /\ UNCHANGED <<world, cancelled, phase, ident, here, skipped>>
  BY DEF Classify
<1>4. PICK object \in Text : object = Item(t).name
  BY <1>1, <1>2, ItemFacts
<1>5. PICK owner \in {"shared", "workspace", "unknown"} :
        /\ Own(t, owner)
        /\ \/ owner # "unknown" /\ UNCHANGED issues
           \/ Issue("unity_catalog", object, "scope", "unknown_mode")
           \/ \E e \in Outcomes(Item(t).bindings # Fail) :
                e # NoError /\ Issue("unity_catalog", object, "bindings", e)
  BY <1>4 DEF Classify
<1>6. \A e \in Outcomes(Item(t).bindings # Fail) : e # NoError => e \in Text
  BY <1>1, Texts
<1> DEFINE told ==
             /\ issues' \in Seq(IssueRecord) /\ Extends(issues, issues')
             /\ owner = "unknown" => Recorded(object, "scope")' \/ Recorded(object, "bindings")'
<1>7. told
  <2>1. /\ "unity_catalog" \in Text /\ "scope" \in Text /\ "bindings" \in Text
        /\ "unknown_mode" \in Text
    BY <1>1, Texts DEF Words
  <2>2. CASE owner # "unknown" /\ UNCHANGED issues
    BY <1>1, <2>2, SameRecords
  <2>3. CASE Issue("unity_catalog", object, "scope", "unknown_mode")
    BY <1>1, <2>1, <2>3, IssueRecorded
  <2>4. ASSUME NEW e \in Outcomes(Item(t).bindings # Fail),
               e # NoError, Issue("unity_catalog", object, "bindings", e)
        PROVE  told
    BY <1>1, <1>6, <2>1, <2>4, IssueRecorded
  <2> QED
    BY <1>5, <2>2, <2>3, <2>4
<1>8. /\ found' \in [DOMAIN pc -> Found] /\ \A u \in DOMAIN pc : u # t => found'[u] = found[u]
      /\ found'[t].owner = owner /\ found'[t].access = found[t].access
  <2>1. found[t] = [owner |-> found[t].owner, access |-> found[t].access] /\ found[t].access \in BOOLEAN
    BY <1>1 DEF Found
  <2>2. [found[t] EXCEPT !.owner = owner] = [owner |-> owner, access |-> found[t].access]
    BY <2>1
  <2>3. [owner |-> owner, access |-> found[t].access] \in Found
    BY <2>1 DEF Found
  <2>4. found' = [found EXCEPT ![t] = [owner |-> owner, access |-> found[t].access]]
    BY <1>5, <2>2 DEF Own
  <2> HIDE DEF Found
  <2> QED
    BY <1>1, <2>3, <2>4
<1>9. Moves(t, Following(t))
  <2>1. RecordsKept
    BY <1>1, <1>3, <1>7, SameRecords DEF RecordsKept
  <2>2. pc' = [pc EXCEPT ![t] = Following(t)] /\ UNCHANGED <<world, cancelled, phase, ident, here>>
    BY <1>3 DEF Proceed
  <2> QED
    BY <1>8, <2>1, <2>2 DEF Moves
<1>10. Accounted(t)'
  <2>1. pc'[t] = Following(t) /\ StepsOf(t)' = StepsOf(t)
    BY <1>1, <1>3 DEF StepsOf, Steps, Proceed, TypeOK
  <2>2. Item(t)' = Item(t) /\ \A ops : Reported(t, ops) => Reported(t, ops)'
    BY <1>9, StaysRecorded DEF Moves
  <2>3. pc'[t] # "dropped" /\ ("access" \in StepsOf(t) => pc'[t] # "kept")
    BY <1>1, <1>2, <2>1 DEF StepFacts
  <2>4. ASSUME NEW op \in {"scope", "bindings"}, Recorded(object, op)'
        PROVE  Reported(t, {"scope", "bindings"})'
    BY <1>4, <2>2, <2>4 DEF Reported, Recorded
  <2>5. owner = "unknown" => Reported(t, {"scope", "bindings"})'
    BY <1>7, <2>4
  <2> QED
    BY <1>1, <1>8, <2>1, <2>2, <2>3, <2>5 DEF Accounted
<1> QED
  BY <1>1, <1>2, <1>9, <1>10, MovesKeepsIInv

(* A pool starts one more worker, which makes it no larger than its limit.  *)
LEMMA LaunchStep == ASSUME IInv, NEW t \in DOMAIN pc, Launch(t) PROVE IInv'
<1>1. /\ TypeOK /\ pc[t] = "pool" /\ pc[t] \in StepsOf(t) /\ ~Ended(t) /\ StepFacts(t)
      /\ found \in [DOMAIN pc -> Found]
  BY AtStep DEF Launch
<1>2. Pool(t)
  BY <1>1 DEF StepFacts
<1>3. PICK u \in Children(t) : pc[u] = "waiting" /\ pc' = [pc EXCEPT ![u] = Steps(u)[1]]
  BY DEF Launch
<1>4. u \in DOMAIN pc /\ Parent(u) = t /\ Len(u) \in {2, 4} /\ StepFacts(u)
  <2>1. u \in DOMAIN pc /\ Parent(u) = t /\ Len(u) # 1
    BY <1>3 DEF Children
  <2>2. StepFacts(u) /\ Len(u) \in {1, 2, 3, 4} /\ (Len(u) = 3 => ~Pool(Parent(u)))
    BY <1>1, <2>1, TaskFacts
  <2>3. Len(u) # 3
    BY <1>2, <2>1, <2>2
  <2> QED
    BY <2>1, <2>2, <2>3
<1>5. PICK x \in StepsOf(u) : x = Steps(u)[1]
  BY <1>4 DEF StepFacts
<1>6. x \notin {"waiting", "dropped"} /\ (x = "kept" => "access" \notin StepsOf(u))
  BY <1>4, <1>5 DEF StepFacts
<1>7. Moves(u, x)
  BY <1>1, <1>3, <1>5, SameRecords DEF Launch, Moves, RecordsKept
<1>8. TypeOK'
  BY <1>1, <1>4, <1>7, MovesKeepsTypes
<1>9. /\ DOMAIN pc' = DOMAIN pc /\ pc'[u] = x /\ \A v \in DOMAIN pc : v # u => pc'[v] = pc[v]
      /\ UNCHANGED <<world, found>> /\ phase' = phase /\ t # u
  BY <1>1, <1>3, <1>4, <1>5 DEF Launch, TypeOK
<1>10. /\ \A v : StepsOf(v)' = StepsOf(v) /\ Parent(v)' = Parent(v)
       /\ \A v : Children(v)' = Children(v)
       /\ \A v : IsCatalog(v)' = IsCatalog(v) /\ Pool(v)' = Pool(v)
  BY <1>9 DEF StepsOf, Steps, Parent, Children, IsCatalog, Pool
<1>11. AtOwnStep'
  <2> SUFFICES ASSUME NEW v \in DOMAIN pc'
               PROVE  \/ pc'[v] \in {"waiting", "kept", "dropped"}
                      \/ pc'[v] \in StepsOf(v)
                      \/ pc'[v] = "join" /\ IsCatalog(v)
    BY <1>10 DEF AtOwnStep
  <2> QED
    BY <1>9 DEF IInv, AtOwnStep
<1>12. AllAccounted'
  <2> SUFFICES ASSUME NEW v \in DOMAIN pc' PROVE Accounted(v)'
    BY DEF AllAccounted
  <2>1. v \in DOMAIN pc /\ found'[v] = found[v] /\ Accounted(v) /\ UNCHANGED world /\ RecordsKept
    BY <1>7, <1>9 DEF IInv, AllAccounted, Moves
  <2>2. CASE v = u
    BY <1>6, <1>9, <2>1, <2>2, MovesAccounted
  <2>3. CASE v # u
    BY <1>9, <2>1, <2>3, StaysAccounted
  <2> QED
    BY <2>2, <2>3
<1>13. StartedByParent'
  <2> SUFFICES ASSUME NEW v \in DOMAIN pc'
               PROVE  /\ Len(v) \in {2, 4} /\ pc'[v] # "waiting" =>
                           /\ pc'[Parent(v)] \in {"pool", "kept"}
                           /\ ~Ended(v)' => pc'[Parent(v)] = "pool"
                      /\ Len(v) = 3 /\ pc'[v] # "waiting" =>
                           /\ pc'[Parent(v)] \in {"join", "kept", "dropped"}
                           /\ ~Ended(v)' => pc'[Parent(v)] = "join"
    BY <1>10 DEF StartedByParent
  <2>1. /\ v \in DOMAIN pc /\ Len(v) \in {1, 2, 3, 4}
        /\ Len(v) # 1 => Parent(v) \in DOMAIN pc /\ Len(Parent(v)) = Len(v) - 1
    BY <1>1, <1>9, TaskFacts
  <2>2. /\ Len(v) \in {2, 4} /\ pc[v] # "waiting" =>
             /\ pc[Parent(v)] \in {"pool", "kept"}
             /\ ~Ended(v) => pc[Parent(v)] = "pool"
        /\ Len(v) = 3 /\ pc[v] # "waiting" =>
             /\ pc[Parent(v)] \in {"join", "kept", "dropped"}
             /\ ~Ended(v) => pc[Parent(v)] = "join"
    BY <2>1 DEF IInv, StartedByParent
  <2>3. CASE v = u
    BY <1>1, <1>4, <1>9, <2>3
  <2>4. CASE v # u /\ Len(v) # 1 /\ Parent(v) = u
    BY <1>3, <1>9, <2>1, <2>2, <2>4
  <2>5. CASE v # u /\ Len(v) # 1 /\ Parent(v) # u
    <3>1. pc'[Parent(v)] = pc[Parent(v)] /\ pc'[v] = pc[v]
      BY <1>9, <2>1, <2>5
    <3> QED
      BY <2>1, <2>2, <2>5, <3>1 DEF Ended
  <2>6. CASE Len(v) = 1
    BY <2>6
  <2> QED
    BY <2>3, <2>4, <2>5, <2>6
<1>14. PoolsLimited'
  <2> SUFFICES ASSUME NEW s \in DOMAIN pc, Pool(s)
               PROVE  /\ IsFiniteSet({v \in Children(s) : Running(v)'})
                      /\ Cardinality({v \in Children(s) : Running(v)'}) <= Limit
    BY <1>9, <1>10 DEF PoolsLimited, Limit
  <2> DEFINE before == {v \in Children(s) : Running(v)}
             after  == {v \in Children(s) : Running(v)'}
  <2>1. IsFiniteSet(before) /\ Cardinality(before) <= Limit /\ Cardinality(before) \in Nat
    BY FS_CardinalityType DEF IInv, PoolsLimited
  <2>2. Limit \in Nat
    BY ParallelismAssumption DEF Limit
  <2>3. \A v \in DOMAIN pc : v # u => (Running(v)' <=> Running(v))
    BY <1>9 DEF Running, Ended
  <2>4. \A v \in Children(s) : v \in DOMAIN pc
    BY DEF Children
  <2>5. CASE s = t
    <3>1. Cardinality(before) < Limit
      BY <2>5 DEF Launch
    <3>2. after \in SUBSET (before \cup {u})
      BY <2>3, <2>4
    <3>3. IsFiniteSet(before \cup {u}) /\ Cardinality(before \cup {u}) <= Cardinality(before) + 1
      BY <2>1, FS_AddElement
    <3> HIDE DEF before, after
    <3>4. /\ IsFiniteSet(after) /\ Cardinality(after) \in Nat
          /\ Cardinality(after) <= Cardinality(before \cup {u})
      BY <3>2, <3>3, FS_Subset, FS_CardinalityType
    <3>5. Cardinality(before \cup {u}) \in Nat
      BY <3>3, FS_CardinalityType
    <3>6. IsFiniteSet(after) /\ Cardinality(after) <= Limit
      BY <2>1, <2>2, <3>1, <3>3, <3>4, <3>5
    <3> QED
      BY <3>6 DEF after
  <2>6. CASE s # t
    <3>1. after = before
      BY <1>4, <2>3, <2>4, <2>6 DEF Children
    <3> QED
      BY <2>1, <3>1
  <2> QED
    BY <2>5, <2>6
<1>15. StartedByRead'
  BY <1>1, <1>9 DEF IInv, StartedByRead
<1> QED
  BY <1>8, <1>11, <1>12, <1>13, <1>14, <1>15 DEF IInv

(* A catalog's branches start together and are waited for.                  *)
LEMMA ForkStep == ASSUME IInv, NEW t \in DOMAIN pc, Fork(t) PROVE IInv'
<1> DEFINE branch(u) == Len(u) = 3 /\ Parent(u) = t
<1>1. /\ TypeOK /\ pc[t] = "fork" /\ pc[t] \in StepsOf(t) /\ ~Ended(t) /\ StepFacts(t)
      /\ found \in [DOMAIN pc -> Found]
  BY AtStep DEF Fork
<1>2. IsCatalog(t) /\ Len(t) = 2
  BY <1>1 DEF StepFacts, IsCatalog
<1>3. /\ UNCHANGED <<world, cancelled, phase, ident, here, found, issues, skipped>>
      /\ DOMAIN pc' = DOMAIN pc /\ pc'[t] = "join"
      /\ \A u \in DOMAIN pc : u # t /\ branch(u) => pc'[u] = Steps(u)[1]
      /\ \A u \in DOMAIN pc : u # t /\ ~branch(u) => pc'[u] = pc[u]
  <2>1. /\ UNCHANGED <<world, cancelled, phase, ident, here, found, issues, skipped>>
        /\ pc' = [u \in DOMAIN pc |-> CASE u = t -> "join"
                                        [] branch(u) -> Steps(u)[1]
                                        [] OTHER -> pc[u]]
    BY DEF Fork
  <2>2. ~branch(t)
    BY <1>2
  <2> HIDE DEF branch
  <2> QED
    BY <2>1, <2>2
<1>4. ASSUME NEW u \in DOMAIN pc, branch(u)
      PROVE  u # t /\ pc[u] = "waiting" /\ Steps(u)[1] \in StepsOf(u) /\ StepFacts(u)
  <2>1. StepFacts(u)
    BY <1>1, TaskFacts
  <2>2. pc[u] = "waiting"
    BY <1>1, <1>4 DEF IInv, StartedByParent
  <2> QED
    BY <1>2, <1>4, <2>1, <2>2 DEF StepFacts
<1>5. /\ \A v : StepsOf(v)' = StepsOf(v) /\ Parent(v)' = Parent(v)
      /\ \A v : Children(v)' = Children(v)
      /\ \A v : IsCatalog(v)' = IsCatalog(v) /\ Pool(v)' = Pool(v)
  BY <1>3 DEF StepsOf, Steps, Parent, Children, IsCatalog, Pool
<1> DEFINE S == {"waiting", "list", "list_schemas", "pool", "type", "system", "blank", "fork",
                 "join", "get", "classify", "access", "kept", "dropped"}
<1>6. \A u \in DOMAIN pc : pc'[u] \in S
  <2>1. pc \in [DOMAIN pc -> S]
    BY <1>1 DEF TypeOK
  <2>2. ASSUME NEW u \in DOMAIN pc, branch(u) PROVE pc'[u] \in S
    BY <1>3, <1>4, <2>2 DEF StepFacts
  <2> HIDE DEF branch
  <2> QED
    BY <1>3, <2>1, <2>2
<1>7. TypeOK'
  <2>1. pc' = [u \in DOMAIN pc |-> pc'[u]]
    BY DEF Fork
  <2> HIDE DEF S
  <2>2. pc' \in [Tasks(world) -> S] /\ Tasks(world)' = Tasks(world)
    BY <1>1, <1>3, <1>6, <2>1 DEF TypeOK
  <2> QED
    BY <1>1, <1>3, <2>2 DEF TypeOK, S
<1>8. AtOwnStep'
  <2> SUFFICES ASSUME NEW v \in DOMAIN pc'
               PROVE  \/ pc'[v] \in {"waiting", "kept", "dropped"}
                      \/ pc'[v] \in StepsOf(v)
                      \/ pc'[v] = "join" /\ IsCatalog(v)
    BY <1>5 DEF AtOwnStep
  <2> QED
    BY <1>2, <1>3, <1>4 DEF IInv, AtOwnStep
<1>9. AllAccounted'
  <2> SUFFICES ASSUME NEW v \in DOMAIN pc' PROVE Accounted(v)'
    BY DEF AllAccounted
  <2>1. v \in DOMAIN pc /\ found'[v] = found[v] /\ Accounted(v) /\ UNCHANGED world /\ RecordsKept
    BY <1>1, <1>3, SameRecords DEF IInv, AllAccounted, RecordsKept
  <2>2. CASE v = t
    BY <1>3, <2>1, <2>2, MovesAccounted
  <2>3. CASE v # t /\ branch(v)
    <3>1. pc'[v] # "dropped" /\ (pc'[v] = "kept" => "access" \notin StepsOf(v))
      BY <1>3, <1>4, <2>1, <2>3 DEF StepFacts
    <3> QED
      BY <2>1, <3>1, MovesAccounted
  <2>4. CASE v # t /\ ~branch(v)
    <3>1. pc'[v] = pc[v]
      BY <1>3, <2>1, <2>4
    <3> QED
      BY <2>1, <3>1, StaysAccounted
  <2> QED
    BY <2>2, <2>3, <2>4
<1>10. StartedByParent'
  <2> SUFFICES ASSUME NEW v \in DOMAIN pc'
               PROVE  /\ Len(v) \in {2, 4} /\ pc'[v] # "waiting" =>
                           /\ pc'[Parent(v)] \in {"pool", "kept"}
                           /\ ~Ended(v)' => pc'[Parent(v)] = "pool"
                      /\ Len(v) = 3 /\ pc'[v] # "waiting" =>
                           /\ pc'[Parent(v)] \in {"join", "kept", "dropped"}
                           /\ ~Ended(v)' => pc'[Parent(v)] = "join"
    BY <1>5 DEF StartedByParent
  <2>1. /\ v \in DOMAIN pc /\ Len(v) \in {1, 2, 3, 4}
        /\ Len(v) # 1 => Parent(v) \in DOMAIN pc /\ Len(Parent(v)) = Len(v) - 1
    BY <1>1, <1>3, TaskFacts
  <2>2. /\ Len(v) \in {2, 4} /\ pc[v] # "waiting" =>
             /\ pc[Parent(v)] \in {"pool", "kept"}
             /\ ~Ended(v) => pc[Parent(v)] = "pool"
        /\ Len(v) = 3 /\ pc[v] # "waiting" =>
             /\ pc[Parent(v)] \in {"join", "kept", "dropped"}
             /\ ~Ended(v) => pc[Parent(v)] = "join"
    BY <2>1 DEF IInv, StartedByParent
  <2>3. CASE Len(v) = 1
    BY <2>3
  <2>4. CASE Len(v) = 2
    <3>1. Len(Parent(v)) = 1 /\ Parent(v) \in DOMAIN pc
      BY <2>1, <2>4
    <3>2. pc'[Parent(v)] = pc[Parent(v)]
      BY <1>2, <1>3, <3>1
    <3>3. v = t \/ pc'[v] = pc[v]
      BY <1>3, <2>1, <2>4
    <3> QED
      BY <1>1, <2>2, <2>4, <3>2, <3>3 DEF Ended
  <2>5. CASE Len(v) = 3
    <3>1. CASE Parent(v) = t
      BY <1>3, <2>5, <3>1
    <3>2. CASE Parent(v) # t
      <4>1. Len(Parent(v)) = 2 /\ Parent(v) \in DOMAIN pc
        BY <2>1, <2>5
      <4>2. pc'[Parent(v)] = pc[Parent(v)] /\ pc'[v] = pc[v]
        BY <1>2, <1>3, <2>1, <2>5, <3>2, <4>1
      <4> QED
        BY <2>2, <2>5, <4>2 DEF Ended
    <3> QED
      BY <3>1, <3>2
  <2>6. CASE Len(v) = 4
    <3>1. Len(Parent(v)) = 3 /\ Parent(v) \in DOMAIN pc
      BY <2>1, <2>6
    <3>2. pc'[v] = pc[v]
      BY <1>2, <1>3, <2>1, <2>6
    <3>3. CASE branch(Parent(v))
      BY <1>4, <2>2, <2>6, <3>1, <3>2, <3>3
    <3>4. CASE ~branch(Parent(v))
      <4>1. pc'[Parent(v)] = pc[Parent(v)]
        BY <1>2, <1>3, <3>1, <3>4
      <4> QED
        BY <2>2, <2>6, <3>2, <4>1 DEF Ended
    <3> QED
      BY <3>3, <3>4
  <2> QED
    BY <2>1, <2>3, <2>4, <2>5, <2>6
<1>11. PoolsLimited'
  <2> SUFFICES ASSUME NEW s \in DOMAIN pc, Pool(s)
               PROVE  /\ IsFiniteSet({v \in Children(s) : Running(v)'})
                      /\ Cardinality({v \in Children(s) : Running(v)'}) <= Limit
    BY <1>3, <1>5 DEF PoolsLimited, Limit
  <2>1. ASSUME NEW v \in Children(s) PROVE Running(v)' => Running(v)
    <3>1. v \in DOMAIN pc /\ Parent(v) = s
      BY DEF Children
    <3>2. ~branch(v)
      BY <1>1, <3>1, TaskFacts
    <3> QED
      BY <1>1, <1>3, <3>1, <3>2 DEF Running, Ended
  <2>2. {v \in Children(s) : Running(v)'} \in SUBSET {v \in Children(s) : Running(v)}
    BY <2>1
  <2>3. /\ IsFiniteSet({v \in Children(s) : Running(v)})
        /\ Cardinality({v \in Children(s) : Running(v)}) <= Limit
    BY DEF IInv, PoolsLimited
  <2>4. Limit \in Nat
    BY ParallelismAssumption DEF Limit
  <2> QED
    BY <2>2, <2>3, <2>4, FS_Subset, FS_CardinalityType
<1>12. StartedByRead'
  BY <1>1, <1>3 DEF IInv, StartedByRead
<1> QED
  BY <1>7, <1>8, <1>9, <1>10, <1>11, <1>12 DEF IInv

-----------------------------------------------------------------------------
(* The steps of Read itself.                                                *)
LEMMA TasksUnmoved ==
    ASSUME IInv, TypeOK', UNCHANGED <<world, pc, found>>, RecordsKept,
           phase' = "identify" => phase = "identify"
    PROVE  IInv'
<1>1. /\ \A v : StepsOf(v)' = StepsOf(v) /\ Parent(v)' = Parent(v) /\ Children(v)' = Children(v)
      /\ \A v : IsCatalog(v)' = IsCatalog(v) /\ Pool(v)' = Pool(v)
      /\ \A v : Ended(v)' = Ended(v) /\ Running(v)' = Running(v)
  BY DEF StepsOf, Steps, Parent, Children, IsCatalog, Pool, Ended, Running
<1>2. AtOwnStep'
  BY <1>1 DEF IInv, AtOwnStep
<1>3. AllAccounted'
  <2> SUFFICES ASSUME NEW v \in DOMAIN pc PROVE Accounted(v)'
    BY DEF AllAccounted
  <2> QED
    BY StaysAccounted DEF IInv, AllAccounted
<1>4. StartedByParent'
  <2>1. ASSUME NEW v \in DOMAIN pc'
        PROVE  /\ Len(v) \in {2, 4} /\ pc'[v] # "waiting" =>
                    /\ pc'[Parent(v)] \in {"pool", "kept"}
                    /\ ~Ended(v)' => pc'[Parent(v)] = "pool"
               /\ Len(v) = 3 /\ pc'[v] # "waiting" =>
                    /\ pc'[Parent(v)] \in {"join", "kept", "dropped"}
                    /\ ~Ended(v)' => pc'[Parent(v)] = "join"
    BY <1>1 DEF IInv, StartedByParent
  <2> QED
    BY <1>1, <2>1 DEF StartedByParent
<1>5. PoolsLimited'
  <2> SUFFICES ASSUME NEW s \in DOMAIN pc, Pool(s)
               PROVE  /\ IsFiniteSet({v \in Children(s) : Running(v)'})
                      /\ Cardinality({v \in Children(s) : Running(v)'}) <= Limit
    BY <1>1 DEF PoolsLimited, Limit
  <2>1. {v \in Children(s) : Running(v)'} = {v \in Children(s) : Running(v)}
    BY DEF Running, Ended
  <2> QED
    BY <2>1 DEF IInv, PoolsLimited
<1>6. StartedByRead'
  BY DEF IInv, StartedByRead
<1> QED
  BY <1>2, <1>3, <1>4, <1>5, <1>6 DEF IInv

(* The groups are started when nothing else is.                             *)
LEMMA ResolveWorkspaceStep == ASSUME IInv, ResolveWorkspace PROVE IInv'
<1>1. TypeOK /\ \A v \in DOMAIN pc : pc[v] = "waiting"
  BY DEF IInv, StartedByRead, ResolveWorkspace
<1>2. /\ UNCHANGED <<world, cancelled, ident, found, issues, skipped>>
      /\ pc' = [t \in DOMAIN pc |-> IF phase' = "groups" /\ Len(t) = 1 THEN "list" ELSE pc[t]]
      /\ phase' \in {"groups", "error"}
  BY DEF ResolveWorkspace
<1>3. here' \in Nat
  <2>1. here \in Nat /\ (world.header # Fail => world.header \in Nat)
    BY <1>1, WorldsAssumption DEF TypeOK, IsWorld
  <2>2. \A e \in Outcomes(world.header # Fail) : e = NoError => world.header # Fail
    BY DEF Outcomes, NoError
  <2> QED
    BY <2>1, <2>2 DEF ResolveWorkspace
<1> DEFINE S == {"waiting", "list", "list_schemas", "pool", "type", "system", "blank", "fork",
                 "join", "get", "classify", "access", "kept", "dropped"}
<1>4. TypeOK'
  <2>1. pc' \in [DOMAIN pc -> S] /\ DOMAIN pc = Tasks(world) /\ Tasks(world)' = Tasks(world)
    BY <1>1, <1>2 DEF TypeOK
  <2> QED
    BY <1>1, <1>2, <1>3, <2>1 DEF TypeOK
<1>5. \A v \in DOMAIN pc : pc'[v] = "waiting" \/ (pc'[v] = "list" /\ Len(v) = 1)
  BY <1>1, <1>2
<1>6. DOMAIN pc' = DOMAIN pc
  BY <1>2
<1>7. \A v : StepsOf(v)' = StepsOf(v) /\ Parent(v)' = Parent(v) /\ Children(v)' = Children(v)
  BY <1>6 DEF StepsOf, Steps, Parent, Children
<1>8. AtOwnStep'
  <2>1. \A v \in DOMAIN pc : Len(v) = 1 => "list" \in StepsOf(v)
    BY <1>1, TaskFacts DEF StepFacts
  <2> QED
    BY <1>5, <1>6, <1>7, <2>1 DEF AtOwnStep
<1>9. AllAccounted'
  <2> SUFFICES ASSUME NEW v \in DOMAIN pc' PROVE Accounted(v)'
    BY DEF AllAccounted
  <2>1. v \in DOMAIN pc /\ found'[v] = found[v] /\ Accounted(v) /\ UNCHANGED world /\ RecordsKept
    BY <1>1, <1>2, <1>6, SameRecords DEF IInv, AllAccounted, RecordsKept
  <2>2. pc'[v] # "dropped" /\ pc'[v] # "kept"
    BY <1>5, <2>1
  <2> QED
    BY <2>1, <2>2, MovesAccounted
<1>10. StartedByParent'
  BY <1>5, <1>6 DEF StartedByParent
<1>11. PoolsLimited'
  <2> SUFFICES ASSUME NEW s \in DOMAIN pc
               PROVE  /\ IsFiniteSet({v \in Children(s) : Running(v)'})
                      /\ Cardinality({v \in Children(s) : Running(v)'}) <= Limit
    BY <1>6, <1>7 DEF PoolsLimited, Limit
  <2>1. {v \in Children(s) : Running(v)'} = {}
    BY <1>5 DEF Children, Running
  <2>2. 0 <= Limit
    BY ParallelismAssumption DEF Limit
  <2> QED
    BY <2>1, <2>2, FS_EmptySet
<1>12. StartedByRead'
  BY <1>2 DEF StartedByRead
<1> QED
  BY <1>4, <1>8, <1>9, <1>10, <1>11, <1>12 DEF IInv

LEMMA ReturnStep == ASSUME IInv, Return PROVE IInv'
<1>1. TypeOK /\ issues \in Seq(IssueRecord) /\ skipped \in Seq(SkipRecord)
  BY DEF IInv, TypeOK, IssueRecord, SkipRecord
<1>2. UNCHANGED <<world, cancelled, ident, here, pc, found>> /\ phase' \in {"done", "error"}
  BY DEF Return
<1>3. RecordsKept
  <2>1. CASE UNCHANGED <<issues, skipped>>
    BY <1>1, <2>1, SameRecords DEF RecordsKept
  <2>2. CASE issues' = SortIssues(issues) /\ skipped' = SortSkipped(skipped)
    <3>1. issues' = SortBy(issues, Before) /\ skipped' = SortBy(skipped, Before)
      BY <2>2 DEF SortIssues, SortSkipped
    <3> QED
      BY <1>1, <3>1, IssuesOrdered, SkipsOrdered, SortKeeps DEF RecordsKept
  <2> QED
    BY <2>1, <2>2 DEF Return
<1>4. TypeOK'
  BY <1>1, <1>2, <1>3 DEF TypeOK, RecordsKept, IssueRecord, SkipRecord
<1> QED
  BY <1>2, <1>3, <1>4, TasksUnmoved

LEMMA IdentifyStep == ASSUME IInv, Cancel \/ Me \/ CurrentMetastore PROVE IInv'
<1>1. TypeOK /\ IsWorld(world)
  BY WorldsAssumption DEF IInv, TypeOK
<1>2. UNCHANGED <<world, phase, pc, found, issues, skipped>>
  BY DEF Cancel, Me, CurrentMetastore
<1>3. RecordsKept
  BY <1>1, <1>2, SameRecords DEF RecordsKept
<1>4. cancelled' \in BOOLEAN
  BY <1>1 DEF Cancel, Me, CurrentMetastore, TypeOK
<1>5. ident' \in [me : {"calling", "ok", "failed"}, current : {"calling", "done"}]
  BY <1>1 DEF Cancel, Me, CurrentMetastore, TypeOK
<1>6. here' \in Nat
  <2>1. CASE UNCHANGED here
    BY <1>1, <2>1 DEF TypeOK
  <2>2. CASE CurrentMetastore
    <3>1. world.current # Fail => world.current \in Nat
      BY <1>1 DEF IsWorld
    <3>2. \A e \in Outcomes(world.current # Fail) \cup {"canceled"} :
            e = NoError => world.current # Fail
      BY DEF Outcomes, NoError
    <3> QED
      BY <2>2, <3>1, <3>2 DEF CurrentMetastore
  <2> QED
    BY <2>1, <2>2 DEF Cancel, Me
<1>7. TypeOK'
  BY <1>1, <1>2, <1>4, <1>5, <1>6 DEF TypeOK
<1> QED
  BY <1>2, <1>3, <1>7, TasksUnmoved

-----------------------------------------------------------------------------
LEMMA InitIInv == ASSUME Init PROVE IInv
<1>1. /\ world \in Worlds /\ DOMAIN pc = Tasks(world)
      /\ \A t \in DOMAIN pc : pc[t] = "waiting" /\ found[t] = [owner |-> "none", access |-> FALSE]
      /\ pc = [t \in Tasks(world) |-> "waiting"]
  BY DEF Init
<1>2. TypeOK
  <2>1. found \in [Tasks(world) -> Found]
    <3>1. [owner |-> "none", access |-> FALSE] \in Found
      BY DEF Found
    <3> HIDE DEF Found
    <3> QED
      BY <3>1 DEF Init
  <2>2. /\ issues \in Seq(IssueRecord) /\ skipped \in Seq(SkipRecord)
        /\ here \in Nat /\ cancelled \in BOOLEAN
        /\ ident \in [me : {"calling", "ok", "failed"}, current : {"calling", "done"}]
        /\ phase \in {"identify", "groups", "done", "error"}
    <3>1. issues = <<>> /\ skipped = <<>> /\ here = 0
      BY DEF Init
    <3>2. \A S : <<>> \in Seq(S)
      OBVIOUS
    <3>3. issues \in Seq(IssueRecord) /\ skipped \in Seq(SkipRecord) /\ here \in Nat
      BY <3>1, <3>2
    <3> QED
      BY <3>3 DEF Init
  <2>3. pc \in [Tasks(world) -> {"waiting", "list", "list_schemas", "pool", "type", "system",
                                 "blank", "fork", "join", "get", "classify", "access", "kept",
                                 "dropped"}]
    BY <1>1
  <2> QED
    BY <1>1, <2>1, <2>2, <2>3 DEF TypeOK, Found, IssueRecord, SkipRecord
<1>3. AtOwnStep /\ AllAccounted /\ StartedByParent /\ StartedByRead
  BY <1>1 DEF AtOwnStep, AllAccounted, Accounted, StartedByParent, StartedByRead
<1>4. PoolsLimited
  <2> SUFFICES ASSUME NEW s \in DOMAIN pc
               PROVE  /\ IsFiniteSet({v \in Children(s) : Running(v)})
                      /\ Cardinality({v \in Children(s) : Running(v)}) <= Limit
    BY DEF PoolsLimited
  <2>1. {v \in Children(s) : Running(v)} = {}
    BY <1>1 DEF Children, Running
  <2>2. 0 <= Limit
    BY ParallelismAssumption DEF Limit
  <2> QED
    BY <2>1, <2>2, FS_EmptySet
<1> QED
  BY <1>2, <1>3, <1>4 DEF IInv

(* The invariant is kept by every step of the read.                         *)
THEOREM Invariance == Spec => []IInv
<1>1. Init => IInv
  BY InitIInv
<1>2. IInv /\ [Next]_vars => IInv'
  <2> SUFFICES ASSUME IInv, [Next]_vars PROVE IInv'
    OBVIOUS
  <2>1. CASE Cancel
    BY <2>1, IdentifyStep
  <2>2. CASE Identify
    BY <2>2, IdentifyStep, ResolveWorkspaceStep DEF Identify
  <2>3. ASSUME NEW t \in DOMAIN pc, Work(t) PROVE IInv'
    BY <2>3, ListStep, ListSchemasStep, LaunchStep, WaitStep, CheckTypeStep, CheckSystemStep,
       CheckBlankStep, ForkStep, JoinStep, GetStep, ClassifyStep, AccessStep DEF Work
  <2>4. CASE Return
    BY <2>4, ReturnStep
  <2>5. CASE UNCHANGED vars
    <3>1. UNCHANGED <<world, cancelled, phase, ident, here, pc, found, issues, skipped>>
      BY <2>5 DEF vars
    <3>2. TypeOK'
      BY <3>1 DEF IInv, TypeOK
    <3>3. RecordsKept
      BY <3>1, SameRecords DEF IInv, RecordsKept
    <3> QED
      BY <3>1, <3>2, <3>3, TasksUnmoved
  <2> QED
    BY <2>1, <2>2, <2>3, <2>4, <2>5 DEF Next, Finished
<1> QED
  BY <1>1, <1>2, PTL DEF Spec

(* Every variable keeps its type; in particular no step of a worker is one  *)
(* that its kind does not have, and every issue is of known texts.          *)
THEOREM Typing == Spec => []TypeOK
<1>1. IInv => TypeOK
  BY DEF IInv
<1> QED
  BY <1>1, Invariance, PTL

(* inventory.Reader: an object that was listed is in the inventory, or an   *)
(* issue or a skip names it, for any workspace, any number of objects and   *)
(* workers, and a context that is cancelled at any moment.                  *)
THEOREM Losslessness == Spec => []NothingLost
<1>1. IInv => NothingLost
  BY DEF IInv, AllAccounted, Accounted, NothingLost
<1> QED
  BY <1>1, Invariance, PTL

(* What is in the inventory but could not be read whole has its issue, also *)
(* after the issues of all goroutines have been sorted together.            *)
THEOREM Openness == Spec => []NothingHidden
<1>1. IInv => NothingHidden
  BY DEF IInv, AllAccounted, Accounted, NothingHidden
<1> QED
  BY <1>1, Invariance, PTL

-----------------------------------------------------------------------------
(* How many calls wait for their answer at once.  A goroutine that runs     *)
(* belongs to a worker that runs.                                           *)
LEMMA WorkerRuns ==
    ASSUME IInv, NEW t \in DOMAIN pc, Running(t), Len(t) # 1
    PROVE  /\ <<t[1], t[2]>> \in WorkersOf(<<t[1]>>)
           /\ pc[<<t[1]>>] = "pool"
           /\ Len(t) = 4 => t \in WorkersOf(Parent(t)) /\ pc[Parent(t)] = "pool"
<1>1. TypeOK
  BY DEF IInv
<1>2. ASSUME NEW u \in DOMAIN pc, Running(u), Len(u) # 1
      PROVE  Parent(u) \in DOMAIN pc /\ Running(Parent(u)) /\ u \in WorkersOf(Parent(u))
  <2>1. Parent(u) \in DOMAIN pc /\ Len(u) \in {2, 3, 4}
    BY <1>1, <1>2, TaskFacts
  <2>2. pc[Parent(u)] \in {"pool", "join"}
    BY <1>2, <2>1 DEF IInv, StartedByParent, Running
  <2>3. u \in Children(Parent(u))
    BY <1>2 DEF Children
  <2> QED
    BY <1>2, <2>1, <2>2, <2>3 DEF WorkersOf, Running, Ended
<1>3. Kind(world, t) /\ Len(t) \in {2, 3, 4}
  BY <1>1, TaskFacts
<1>4. ASSUME NEW u \in DOMAIN pc, Running(u), Len(u) = 2, u[1] = t[1], u[2] = t[2]
      PROVE  <<t[1], t[2]>> \in WorkersOf(<<t[1]>>) /\ pc[<<t[1]>>] = "pool"
  <2>1. Kind(world, u)
    BY <1>1, TaskFacts
  <2>2. u = <<t[1], t[2]>> /\ Parent(u) = <<t[1]>>
    BY <1>4, <2>1 DEF Kind, Parent
  <2>3. u \in WorkersOf(Parent(u))
    BY <1>2, <1>4
  <2>4. pc[Parent(u)] = "pool"
    BY <1>4 DEF IInv, StartedByParent, Running
  <2> QED
    BY <2>2, <2>3, <2>4
<1>5. CASE Len(t) = 2
  BY <1>4, <1>5
<1>6. CASE Len(t) = 3
  <2>1. Parent(t) = <<t[1], t[2]>> /\ Len(Parent(t)) = 2
    BY <1>6 DEF Parent
  <2>2. Parent(t) \in DOMAIN pc /\ Running(Parent(t))
    BY <1>2
  <2> QED
    BY <1>4, <1>6, <2>1, <2>2
<1>7. CASE Len(t) = 4
  <2> DEFINE s == <<t[1], t[2], "schemas">>
  <2>1. Parent(t) = s /\ Len(s) = 3 /\ s[1] = t[1] /\ s[2] = t[2]
    BY <1>7 DEF Parent
  <2>2. s \in DOMAIN pc /\ Running(s)
    BY <1>2, <2>1
  <2>3. Parent(s) = <<t[1], t[2]>> /\ Len(Parent(s)) = 2
    BY <2>1 DEF Parent
  <2> HIDE DEF s
  <2>4. Parent(s) \in DOMAIN pc /\ Running(Parent(s))
    BY <1>2, <2>1, <2>2
  <2>5. <<t[1], t[2]>> \in WorkersOf(<<t[1]>>) /\ pc[<<t[1]>>] = "pool"
    BY <1>4, <2>3, <2>4
  <2>6. t \in WorkersOf(Parent(t))
    BY <1>2
  <2>7. pc[Parent(t)] = "pool"
    BY <1>7 DEF IInv, StartedByParent, Running
  <2> QED
    BY <2>5, <2>6, <2>7
<1> QED
  BY <1>3, <1>5, <1>6, <1>7

(* The workers of a pool can be numbered up to the limit.                   *)
LEMMA Numbered ==
    ASSUME IInv, NEW s \in DOMAIN pc, Pool(s)
    PROVE  \E h \in [WorkersOf(s) -> 1..Limit] :
             \A u, v \in WorkersOf(s) : h[u] = h[v] => u = v
<1> DEFINE W == WorkersOf(s)
<1>1. IsFiniteSet(W) /\ Cardinality(W) <= Limit
  BY DEF IInv, PoolsLimited, WorkersOf
<1> HIDE DEF W
<1>2. Limit \in Nat /\ Cardinality(W) \in Nat /\ ExistsBijection(1..Cardinality(W), W)
  BY <1>1, ParallelismAssumption, FS_CardinalityType DEF Limit
<1>3. ExistsBijection(W, 1..Cardinality(W))
  BY <1>2, Fun_ExistsBijSymmetric
<1>4. PICK h \in Bijection(W, 1..Cardinality(W)) : TRUE
  BY <1>3 DEF ExistsBijection
<1>5. h \in [W -> 1..Cardinality(W)] /\ \A u, v \in W : h[u] = h[v] => u = v
  BY <1>4 DEF Bijection, Injection, IsInjective
<1>6. h \in [W -> 1..Limit]
  BY <1>1, <1>2, <1>5
<1> QED
  BY <1>5, <1>6 DEF W

(* A goroutine that waits for an answer runs, and its pool has not begun.   *)
LEMMA CallingFacts ==
    ASSUME IInv, NEW t \in DOMAIN pc, Calling(t)
    PROVE  /\ Running(t) /\ pc[t] # "pool" /\ Kind(world, t) /\ Len(t) \in {1, 2, 3, 4}
           /\ Len(t) = 2 => t[1] # Catalogs
<1>1. TypeOK
  BY DEF IInv
<1>2. Kind(world, t) /\ StepFacts(t) /\ Len(t) \in {1, 2, 3, 4}
  BY <1>1, TaskFacts
<1>3. Running(t) /\ pc[t] # "pool" /\ pc[t] \in {"list", "get", "classify", "access", "list_schemas"}
  BY DEF Calling, Running, Ended
<1>4. pc[t] \in StepsOf(t)
  BY <1>3 DEF IInv, AtOwnStep
<1>5. ASSUME Len(t) = 2, t[1] = Catalogs PROVE FALSE
  BY <1>2, <1>3, <1>4, <1>5 DEF StepFacts, IsCatalog
<1> QED
  BY <1>2, <1>3, <1>5

(* While a group is listed, none of its workers runs.                       *)
LEMMA ListedAlone ==
    ASSUME IInv, NEW g \in DOMAIN world.list, <<g>> \in WaitingFor(g)
    PROVE  IsFiniteSet(WaitingFor(g)) /\ Cardinality(WaitingFor(g)) <= 1
<1>1. pc[<<g>>] # "pool"
  BY CallingFacts DEF WaitingFor
<1>2. ASSUME NEW t \in WaitingFor(g) PROVE t = <<g>>
  <2>1. t \in DOMAIN pc /\ t[1] = g /\ Calling(t)
    BY <1>2 DEF WaitingFor
  <2>2. Running(t) /\ Kind(world, t)
    BY <2>1, CallingFacts
  <2>3. Len(t) = 1
    BY <1>1, <2>1, <2>2, WorkerRuns
  <2> QED
    BY <2>1, <2>2, <2>3 DEF Kind
<1>3. WaitingFor(g) \in SUBSET {<<g>>}
  BY <1>2
<1>4. IsFiniteSet({<<g>>}) /\ Cardinality({<<g>>}) = 1
  BY FS_Singleton
<1> QED
  BY <1>3, <1>4, FS_Subset

(* The worker of the group on whose behalf a call is made.                  *)
LEMMA WaitingWorkers ==
    ASSUME IInv, NEW g \in DOMAIN world.list, <<g>> \notin WaitingFor(g), NEW t \in WaitingFor(g)
    PROVE  /\ t \in DOMAIN pc /\ t[1] = g /\ Kind(world, t) /\ pc[t] # "pool"
           /\ <<g, t[2]>> \in WorkersOf(<<g>>)
           /\ g # Catalogs => t = <<g, t[2]>>
           /\ g = Catalogs => Len(t) \in {3, 4}
           /\ Len(t) = 3 => t = <<g, t[2], t[3]>> /\ t[3] \in Branches
           /\ Len(t) = 4 => t \in WorkersOf(Parent(t)) /\ pc[Parent(t)] = "pool"
<1>1. t \in DOMAIN pc /\ t[1] = g /\ Calling(t)
  BY DEF WaitingFor
<1>2. /\ Running(t) /\ pc[t] # "pool" /\ Kind(world, t) /\ Len(t) \in {1, 2, 3, 4}
      /\ Len(t) = 2 => g # Catalogs
  BY <1>1, CallingFacts
<1>3. Len(t) # 1
  BY <1>1, <1>2 DEF Kind
<1>4. /\ <<g, t[2]>> \in WorkersOf(<<g>>)
      /\ Len(t) = 4 => t \in WorkersOf(Parent(t)) /\ pc[Parent(t)] = "pool"
  BY <1>1, <1>2, <1>3, WorkerRuns
<1>5. g # Catalogs => t = <<g, t[2]>>
  BY <1>1, <1>2, <1>3 DEF Kind
<1>6. Len(t) = 3 => t = <<g, t[2], t[3]>> /\ t[3] \in Branches
  BY <1>1, <1>2 DEF Kind
<1>7. g = Catalogs => Len(t) \in {3, 4}
  BY <1>2, <1>3
<1> QED
  BY <1>1, <1>2, <1>4, <1>5, <1>6, <1>7

(* The group's pool is a pool of at most Limit.                             *)
LEMMA GroupPool ==
    ASSUME IInv, NEW g \in DOMAIN world.list
    PROVE  /\ IsFiniteSet(WorkersOf(<<g>>)) /\ Cardinality(WorkersOf(<<g>>)) \in Nat
           /\ Cardinality(WorkersOf(<<g>>)) <= Limit
<1>1. Kind(world, <<g>>) /\ Pool(<<g>>)
  BY DEF Kind, Pool
<1>2. <<g>> \in DOMAIN pc
  BY <1>1, TasksHaveKinds DEF IInv, TypeOK
<1>3. IsFiniteSet(WorkersOf(<<g>>)) /\ Cardinality(WorkersOf(<<g>>)) <= Limit
  BY <1>1, <1>2 DEF IInv, PoolsLimited, WorkersOf
<1> QED
  BY <1>3, FS_CardinalityType

(* The goroutines of catalogs that wait, numbered: to its catalog's worker  *)
(* and a number up to 2 + Limit belongs one of them at most.                *)
LEMMA CatalogsWaiting ==
    ASSUME IInv, NEW g \in DOMAIN world.list, g = Catalogs, <<g>> \notin WaitingFor(g)
    PROVE  /\ IsFiniteSet(WaitingFor(g))
           /\ Cardinality(WaitingFor(g)) <= Cardinality(WorkersOf(<<g>>)) * (2 + Limit)
<1> DEFINE slot(s) == CHOOSE h \in [WorkersOf(s) -> 1..Limit] :
                          \A u, v \in WorkersOf(s) : h[u] = h[v] => u = v
           branch(b) == IF b = "own" THEN 1 ELSE IF b = "grants" THEN 2 ELSE 3
           number(t) == IF Len(t) = 4 THEN 2 + slot(Parent(t))[t] ELSE branch(t[3])
           C == WaitingFor(g)
           W == WorkersOf(<<g>>)
           f == [t \in C |-> <<<<g, t[2]>>, number(t)>>]
<1>1. Limit \in Nat /\ Limit >= 1
  BY ParallelismAssumption DEF Limit
<1>2. ASSUME NEW t \in C, Len(t) = 4
      PROVE  /\ Parent(t) = <<g, t[2], "schemas">> /\ Parent(t) \in DOMAIN pc
             /\ t = <<g, t[2], "schemas", t[4]>>
             /\ t \in WorkersOf(Parent(t)) /\ pc[Parent(t)] = "pool"
             /\ slot(Parent(t)) \in [WorkersOf(Parent(t)) -> 1..Limit]
             /\ \A u, v \in WorkersOf(Parent(t)) :
                    slot(Parent(t))[u] = slot(Parent(t))[v] => u = v
  <2>1. /\ t \in DOMAIN pc /\ t = <<g, t[2], "schemas", t[4]>>
        /\ Parent(t) = <<g, t[2], "schemas">>
        /\ t \in WorkersOf(Parent(t)) /\ pc[Parent(t)] = "pool"
    <3>1. /\ t \in DOMAIN pc /\ Kind(world, t) /\ t[1] = g
          /\ t \in WorkersOf(Parent(t)) /\ pc[Parent(t)] = "pool"
      BY <1>2, WaitingWorkers
    <3>2. t = <<g, t[2], "schemas", t[4]>>
      BY <1>2, <3>1 DEF Kind
    <3>3. Parent(t) = <<g, t[2], "schemas">>
      BY <1>2, <3>1 DEF Parent
    <3> QED
      BY <3>1, <3>2, <3>3
  <2>2. Pool(Parent(t))
    BY <2>1 DEF Pool
  <2>3. Parent(t) \in DOMAIN pc
    BY <1>2, <2>1, TaskFacts DEF IInv
  <2>4. \E h \in [WorkersOf(Parent(t)) -> 1..Limit] :
            \A u, v \in WorkersOf(Parent(t)) : h[u] = h[v] => u = v
    BY <2>2, <2>3, Numbered
  <2> QED
    BY <2>1, <2>3, <2>4
<1>3. ASSUME NEW t \in C
      PROVE  /\ <<g, t[2]>> \in W /\ pc[t] # "pool" /\ Len(t) \in {3, 4}
             /\ Len(t) = 3 => t = <<g, t[2], t[3]>> /\ t[3] \in Branches
  BY WaitingWorkers
<1> HIDE DEF slot, C, W
<1>4. ASSUME NEW t \in C, Len(t) = 4 PROVE slot(Parent(t))[t] \in 1..Limit
  BY <1>2, <1>4
<1>5. ASSUME NEW t \in C, Len(t) # 4
      PROVE  number(t) = branch(t[3]) /\ branch(t[3]) \in {1, 2, 3}
  BY <1>5
<1>6. ASSUME NEW t \in C PROVE number(t) \in 1..(2 + Limit) /\ <<g, t[2]>> \in W
  <2>1. CASE Len(t) = 4
    BY <1>1, <1>3, <1>4, <2>1
  <2>2. CASE Len(t) # 4
    BY <1>1, <1>3, <1>5, <2>2
  <2> QED
    BY <2>1, <2>2
<1>7. ASSUME NEW u \in C, NEW v \in C, u[2] = v[2], number(u) = number(v) PROVE u = v
  <2>1. CASE Len(u) = 4 /\ Len(v) = 4
    <3>1. Parent(u) = Parent(v)
      BY <1>2, <1>7, <2>1
    <3>2. slot(Parent(u))[u] = slot(Parent(u))[v]
      BY <1>4, <1>7, <2>1, <3>1
    <3> QED
      BY <1>2, <2>1, <3>1, <3>2
  <2>2. ASSUME NEW x \in C, NEW y \in C, x[2] = y[2], number(x) = number(y),
               Len(x) # 4, Len(y) = 4
        PROVE  FALSE
    <3>1. number(y) = 2 + slot(Parent(y))[y] /\ slot(Parent(y))[y] \in 1..Limit
      BY <1>4, <2>2
    <3>2. branch(x[3]) \notin {1, 2}
      BY <1>1, <1>5, <2>2, <3>1
    <3>3. x[3] = "schemas" /\ x = <<g, x[2], x[3]>>
      BY <1>3, <2>2, <3>2 DEF Branches
    <3>4. x = Parent(y)
      BY <1>2, <2>2, <3>3
    <3> QED
      BY <1>2, <1>3, <2>2, <3>4
  <2>3. CASE Len(u) # 4 /\ Len(v) # 4
    <3>1. branch(u[3]) = branch(v[3])
      BY <1>5, <1>7, <2>3
    <3>2. u[3] \in Branches /\ v[3] \in Branches
      BY <1>3, <2>3
    <3>3. u[3] = v[3]
      BY <3>1, <3>2 DEF Branches
    <3> QED
      BY <1>3, <1>7, <2>3, <3>3
  <2> QED
    BY <1>7, <2>1, <2>2, <2>3
<1> HIDE DEF number
<1>8. f \in [C -> W \X (1..(2 + Limit))]
  BY <1>6
<1>9. ASSUME NEW u \in C, NEW v \in C, f[u] = f[v] PROVE u = v
  BY <1>7, <1>9
<1>10. f \in Injection(C, W \X (1..(2 + Limit)))
  BY <1>8, <1>9 DEF Injection, IsInjective
<1>11. IsFiniteSet(1..(2 + Limit)) /\ Cardinality(1..(2 + Limit)) = 2 + Limit
  BY <1>1, FS_Interval
<1>12. IsFiniteSet(W)
  BY GroupPool DEF W
<1>13. /\ IsFiniteSet(W \X (1..(2 + Limit)))
       /\ Cardinality(W \X (1..(2 + Limit))) = Cardinality(W) * (2 + Limit)
  BY <1>11, <1>12, FS_Product
<1> HIDE DEF f
<1>14. IsFiniteSet(C) /\ Cardinality(C) <= Cardinality(W) * (2 + Limit)
  BY <1>10, <1>13, FS_Injection
<1> QED
  BY <1>14 DEF C, W

(* However large the workspace and however its goroutines are interleaved,  *)
(* the nested pools of the catalogs among them, the calls in flight of a    *)
(* group are bounded by Parallelism: by Limit, and by 2 + Limit for each    *)
(* catalog that is read.                                                    *)
THEOREM BoundedFanOut == Spec => []WithinLimit
<1>1. ASSUME IInv, NEW g \in DOMAIN world.list
      PROVE  /\ Cardinality(WorkersOf(<<g>>)) <= Limit
             /\ Cardinality(WaitingFor(g)) <=
                  IF <<g>> \in WaitingFor(g) THEN 1
                  ELSE Cardinality(WorkersOf(<<g>>)) * (IF g = Catalogs THEN 2 + Limit ELSE 1)
  <2>1. /\ IsFiniteSet(WorkersOf(<<g>>)) /\ Cardinality(WorkersOf(<<g>>)) \in Nat
        /\ Cardinality(WorkersOf(<<g>>)) <= Limit
    BY <1>1, GroupPool
  <2>2. CASE <<g>> \in WaitingFor(g)
    BY <1>1, <2>1, <2>2, ListedAlone
  <2>3. CASE <<g>> \notin WaitingFor(g) /\ g # Catalogs
    <3>1. ASSUME NEW t \in WaitingFor(g) PROVE t \in WorkersOf(<<g>>)
      <4>1. <<g, t[2]>> \in WorkersOf(<<g>>) /\ t = <<g, t[2]>>
        BY <1>1, <2>3, <3>1, WaitingWorkers
      <4> QED
        BY <4>1
    <3>2. Cardinality(WaitingFor(g)) <= Cardinality(WorkersOf(<<g>>))
      BY <2>1, <3>1, FS_Subset
    <3> QED
      BY <2>1, <2>3, <3>2
  <2>4. CASE <<g>> \notin WaitingFor(g) /\ g = Catalogs
    BY <1>1, <2>1, <2>4, CatalogsWaiting
  <2> QED
    BY <2>2, <2>3, <2>4
<1>2. IInv => WithinLimit
  BY <1>1 DEF WithinLimit
<1> QED
  BY <1>2, Invariance, PTL
=============================================================================
