-------------------------------- MODULE MCRoot --------------------------------
(***************************************************************************)
(* The inventories of MCBuild with Registries that list releases in other  *)
(* orders, with a pre-release on top, with a version equal but for its     *)
(* build metadata, with no stable release, and with a failing lookup.      *)
(***************************************************************************)
EXTENDS Root, MCBuild

MCReleases ==
    "1.9.0" :> [core |-> 9, stable |-> TRUE, text |-> 5] @@
    "1.10.0" :> [core |-> 10, stable |-> TRUE, text |-> 1] @@
    "1.10.0+b1" :> [core |-> 10, stable |-> TRUE, text |-> 2] @@
    "1.10.0+b2" :> [core |-> 10, stable |-> TRUE, text |-> 3] @@
    "2.0.0-rc.1" :> [core |-> 20, stable |-> FALSE, text |-> 6] @@
    "8.0" :> [core |-> 80, stable |-> FALSE, text |-> 7]

Listings == {<<"1.9.0", "1.10.0", "2.0.0-rc.1", "8.0">>, <<"1.10.0+b2", "1.10.0+b1", "1.9.0">>,
             <<"1.10.0", "1.10.0+b1", "1.10.0+b2">>, <<"2.0.0-rc.1">>, <<>>}

(* The same listing for each module, or another for catalogs and the        *)
(* workspace module.                                                        *)
MCRegistries ==
    {[n \in RegistryModules |-> IF n \in {"catalog", WorkspaceModule} THEN l ELSE k] :
        l \in Listings \cup {Fail}, k \in Listings}

ASSUME KeysOfInventoriesDiffer == \A w \in MCInventories : KeysDiffer(w)
===============================================================================
