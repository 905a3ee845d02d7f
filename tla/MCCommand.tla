------------------------------ MODULE MCCommand ------------------------------
(***************************************************************************)
(* Every combination of the flags that Command looks at, except that       *)
(* --allow-partial and --module-version latest exist for export only, and  *)
(* datatf alone has no flag.                                               *)
(***************************************************************************)
EXTENDS Command

MCOptions ==
    {o \in [command : {"export", "inventory", "other", "none"}, json : BOOLEAN, plain : BOOLEAN,
            quiet : BOOLEAN, allowPartial : BOOLEAN, latest : BOOLEAN] :
       o.command # "export" => ~o.allowPartial /\ ~o.latest /\
       (o.command = "none" => ~o.json /\ ~o.plain /\ ~o.quiet)}
=============================================================================
