------------------------------- MODULE MCBuild -------------------------------
(***************************************************************************)
(* Inventories as the reader can return them: names are unique within a    *)
(* group but for service principals, an unknown owner and an unread access *)
(* come with a read issue.                                                 *)
(***************************************************************************)
EXTENDS Build

Nothing == [g \in Tables \cup {"issues"} |-> IF g = "issues" THEN 0 ELSE <<>>]

(* The owner follows from the bindings, as the reader's classify has it.    *)
Owned == {[owner |-> "shared", bindings |-> <<>>], [owner |-> "shared", bindings |-> <<"1", "2">>],
          [owner |-> "workspace", bindings |-> <<"1">>], [owner |-> "unknown", bindings |-> <<>>]}

GrantSets == {Fail, {}, {""}, {"", "ann"}, {"ann", "bob"}}

SchemaLists == {<<>>, <<[name |-> "raw", grants |-> {"ann"}]>>,
                <<[name |-> "raw", grants |-> Fail], [name |-> "", grants |-> {}]>>}

Securable(name, own, grants, schemas) ==
    [name |-> name, owner |-> own.owner, bindings |-> own.bindings, grants |-> grants,
     schemas |-> schemas]

ReadIssues(os) == Cardinality({i \in DOMAIN os : os[i].owner = "unknown" \/ os[i].grants = Fail
                                 \/ \E k \in DOMAIN os[i].schemas : os[i].schemas[k].grants = Fail})

WithSecurables(cats, creds) ==
    [Nothing EXCEPT !.catalogs = cats, !.storage_credentials = creds, !.external_locations = creds,
                    !.issues = ReadIssues(cats) + 2 * ReadIssues(creds)]

SecurableInventories ==
    {WithSecurables(<<Securable("sales", a, g, l), Securable("web", b, {"ann"}, <<>>)>>,
                    <<Securable("sales", b, g, <<>>)>>) :
       a \in Owned, b \in Owned, g \in GrantSets, l \in SchemaLists}

(* Workspace objects: whole, or with a missing or malformed field.          *)
Item(name, id, valid, permissions) ==
    [name |-> name, id |-> id, valid |-> valid, permissions |-> permissions]

Items == {Item("p", "1", TRUE, {}), Item("p", "1", TRUE, {"ann", "bob"}), Item("", "1", TRUE, {}),
          Item("p", "", TRUE, {"ann"}), Item("p", "1", FALSE, {})}

AclLists == {Fail, <<>>, <<"ann", "bob">>, <<"ann", "">>}

WorkspaceInventories ==
    {[Nothing EXCEPT !.cluster_policies = <<a, Item("q", "2", TRUE, {"ann"})>>,
                     !.instance_pools = <<a>>, !.warehouses = <<b>>,
                     !.secret_scopes = <<[name |-> "s", acls |-> l]>>,
                     !.issues = IF l = Fail THEN 1 ELSE 0] :
       a \in Items, b \in Items, l \in AclLists}

Principal(name, suffix, id) == [name |-> name, suffix |-> suffix, id |-> id]

(* Display names that stay different, and those that meet after all: the    *)
(* third is written like the key that the second gets.                      *)
Distinct ==
    {[Nothing EXCEPT !.service_principals = l] :
       l \in {<<Principal("dup", "1", "7"), Principal("dup", "2", "8"), Principal("ci", "3", "9")>>,
              <<Principal("", "1", "7"), Principal("ci", "2", "")>>}}

Meeting ==
    {[Nothing EXCEPT !.service_principals =
        <<Principal("dup", "1", "7"), Principal("dup", "2", "8"), Principal("dup (2)", "3", "9")>>]}


MCInventories == SecurableInventories \cup WorkspaceInventories \cup Distinct

MCMeeting == MCInventories \cup Meeting
=============================================================================
