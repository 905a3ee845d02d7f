----------------------------- MODULE MCOutputDir -----------------------------
(***************************************************************************)
(* Three runs on one directory: two exports, the second with --scaffold,   *)
(* and a third run with the names of the first (the user repeats it).  The *)
(* files keep the order of the real names:                                 *)
(*   1 README.md     2 export-report.json     3 imports.tf    4 versions.tf*)
(* (export.json and terraform.tfvars, main.tf and the rest of the scaffold *)
(* sort between these and behave like them).                               *)
(***************************************************************************)
EXTENDS OutputDir

CONSTANTS export, scaffold, again

MCNames == [r \in Run |-> IF r = scaffold THEN {1, 2, 3, 4} ELSE {2, 3}]
=============================================================================
