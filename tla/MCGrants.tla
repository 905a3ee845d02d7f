------------------------------ MODULE MCGrants ------------------------------
(***************************************************************************)
(* Servers with three tokens besides the empty one: their pages form       *)
(* chains of one to four pages, one more than the limit, loops of one,     *)
(* two and three tokens, and chains that run into a loop.  A principal may *)
(* be on more than one page.                                               *)
(***************************************************************************)
EXTENDS Grants, TLC

CONSTANTS a, b, c, ann, bob, nobody

MCToken == {NoToken, a, b, c}

MCPrincipal == {ann, bob, nobody}

MCRank == nobody :> 1 @@ ann :> 2 @@ bob :> 3

Contents == {<<bob, ann>>, <<nobody, bob>>}

MCListings ==
    {[t \in MCToken |-> [principals |-> contents[t], next |-> next[t]]] :
        contents \in [MCToken -> Contents], next \in [MCToken -> MCToken]}
=============================================================================
