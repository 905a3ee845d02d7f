-------------------------------- MODULE Grants --------------------------------
(***************************************************************************)
(* inventory.Reader.grants and contract.toAccess: the grants of one        *)
(* securable are read page by page, following the tokens of the server,    *)
(* and become a map from principals to privileges.  The server decides how *)
(* the pages follow one another; an administrator may change the grants    *)
(* between two pages; any call may fail, also because it is cancelled.     *)
(*                                                                         *)
(* The privileges of a principal are a number that grows with every        *)
(* change, so that an older answer can be told from a newer one.           *)
(***************************************************************************)
EXTENDS Naturals, Sequences, FiniteSets

CONSTANTS
    Token,      \* the page tokens, NoToken among them
    NoToken,    \* "": asks for the first page and follows the last one
    Principal,  \* those that have grants
    Blank,      \* the principal of an assignment that names none
    Rank,       \* the order of principals as texts
    Listings,   \* the pages a server may have
    MaxPages,   \* maxGrantPages
    MaxChanges  \* how often the grants change during the read

Page == [principals : Seq(Principal), next : Token]

(* Different principals are different texts.                                *)
ASSUME RankAssumption ==
    \A p, q \in Principal : Rank[p] \in Nat /\ (Rank[p] = Rank[q] => p = q)

ASSUME TokenAssumption == NoToken \in Token
ASSUME ListingsAssumption == \A l \in Listings : l \in [Token -> Page]
ASSUME MaxPagesAssumption == MaxPages \in Nat \ {0}
ASSUME MaxChangesAssumption == MaxChanges \in Nat

VARIABLES
    listing,    \* the pages of this server
    current,    \* current[p]: the privileges of p now
    changes,    \* how often they have changed
    phase,      \* "asking", or what grants has returned: "ok" or "failed"
    pageToken,
    page,
    out,        \* the grants of the answered pages
    issues,
    asked,      \* the tokens of the answered pages, in order
    newest      \* newest[p]: the privileges of p in the last answer naming p

call == <<phase, pageToken, page, out, issues, asked, newest>>
server == <<listing, current, changes>>
vars == <<call, server>>

Messages == {"call failed", "pagination did not finish"}

Grant == [principal : Principal, privileges : 0..MaxChanges]

Init ==
    /\ listing \in Listings
    /\ current = [p \in Principal |-> 0]
    /\ changes = 0
    /\ phase = "asking"
    /\ pageToken = NoToken
    /\ page = 1
    /\ out = <<>>
    /\ issues = <<>>
    /\ asked = <<>>
    /\ newest = current

(* return nil, false: the pages read so far are thrown away.                *)
Refuse(message) ==
    /\ phase' = "failed"
    /\ out' = <<>>
    /\ issues' = Append(issues, message)
    /\ UNCHANGED <<pageToken, page>>

(* Mutants of Endless: one page more than the limit; one page less.         *)
EndlessLate(next) == next = pageToken \/ page > MaxPages

EndlessEarly(next) == next = pageToken \/ page + 1 >= MaxPages

(* The token repeats at once, or this page is the last that is allowed.     *)
Endless(next) == next = pageToken \/ page >= MaxPages

(* What a page holds, with the privileges at the moment of the call.        *)
Assignments(answer) ==
    [i \in DOMAIN answer.principals |->
        [principal |-> answer.principals[i], privileges |-> current[answer.principals[i]]]]

Named(answer) == {answer.principals[i] : i \in DOMAIN answer.principals}

Note(answer) ==
    /\ asked' = Append(asked, pageToken)
    /\ newest' = [p \in Principal |-> IF p \in Named(answer) THEN current[p] ELSE newest[p]]

(* The loop returns, gives up, or goes on with the next token.              *)
Continue(answer) ==
    \/ /\ answer.next = NoToken
       /\ phase' = "ok"
       /\ out' = out \o Assignments(answer)
       /\ UNCHANGED <<pageToken, page, issues>>
    \/ answer.next # NoToken /\ Endless(answer.next) /\ Refuse("pagination did not finish")
    \/ /\ answer.next # NoToken /\ ~Endless(answer.next)
       /\ pageToken' = answer.next
       /\ page' = page + 1
       /\ out' = out \o Assignments(answer)
       /\ UNCHANGED <<phase, issues>>

(* Mutant of Get: a repeated token is asked for again.                      *)
GetAgain ==
    /\ phase = "asking"
    /\ LET answer == listing[pageToken] IN
         IF answer.next = pageToken THEN UNCHANGED call ELSE Note(answer) /\ Continue(answer)
    /\ UNCHANGED server

(* r.ws.Grants.Get answers with a page.                                     *)
Get ==
    /\ phase = "asking"
    /\ LET answer == listing[pageToken] IN Note(answer) /\ Continue(answer)
    /\ UNCHANGED server

GetFails ==
    /\ phase = "asking"
    /\ Refuse("call failed")
    /\ UNCHANGED <<asked, newest, server>>

(* An administrator grants or revokes something meanwhile.                  *)
Administer ==
    /\ phase = "asking" /\ changes < MaxChanges
    /\ changes' = changes + 1
    /\ \E p \in Principal : current' = [current EXCEPT ![p] = changes']
    /\ UNCHANGED <<listing, call>>

Finished == phase # "asking" /\ UNCHANGED vars

Next == Get \/ GetFails \/ Administer \/ Finished

(* Every call is answered, or fails at the latest by the client's timeout.  *)
Spec == Init /\ [][Next]_vars /\ WF_vars(Get)

-----------------------------------------------------------------------------
(* What is returned: the grants in the order of their principals, those of  *)
(* one principal in the order they were read.  A mutant turns equal ones.   *)
EarlierUnstable(i, j) ==
    \/ Rank[out[i].principal] < Rank[out[j].principal]
    \/ out[i].principal = out[j].principal /\ i > j

Earlier(i, j) ==
    \/ Rank[out[i].principal] < Rank[out[j].principal]
    \/ out[i].principal = out[j].principal /\ i < j

Returned ==
    [k \in DOMAIN out |->
        out[CHOOSE i \in DOMAIN out : Cardinality({j \in DOMAIN out : Earlier(j, i)}) = k - 1]]

Principals(grants) == {grants[i].principal : i \in DOMAIN grants}

(* access[g.Principal] = g.Privileges for one grant after the other; grants *)
(* without a principal are passed over.                                     *)
ToAccess(grants) ==
    LET last(p) == CHOOSE i \in DOMAIN grants :
                     /\ grants[i].principal = p
                     /\ \A j \in (i + 1)..Len(grants) : grants[j].principal # p
    IN  [p \in Principals(grants) \ {Blank} |-> grants[last(p)].privileges]

-----------------------------------------------------------------------------
TypeOK ==
    /\ listing \in [Token -> Page]
    /\ current \in [Principal -> 0..MaxChanges]
    /\ changes \in 0..MaxChanges
    /\ phase \in {"asking", "ok", "failed"}
    /\ pageToken \in Token
    /\ page \in 1..MaxPages
    /\ out \in Seq(Grant)
    /\ issues \in Seq(Messages)
    /\ asked \in Seq(Token)
    /\ newest \in [Principal -> 0..MaxChanges]

(* s is the whole listing: it starts with the first page, follows the       *)
(* tokens and ends with the page after which there is none.                 *)
WholeListing(s) ==
    /\ s # <<>> /\ s[1] = NoToken
    /\ \A i \in 1..(Len(s) - 1) : listing[s[i]].next = s[i + 1] /\ s[i + 1] # NoToken
    /\ listing[s[Len(s)]].next = NoToken

NamedBy(tokens) == UNION {Named(listing[tokens[i]]) : i \in DOMAIN tokens}

Finishes == \E n \in 1..MaxPages : \E s \in [1..n -> Token] : WholeListing(s)

(* The grants are marked as read only when they are all there: every page   *)
(* of the listing was read, once and in order, and each principal named on  *)
(* one is in the result.  Otherwise nothing is returned and one issue says  *)
(* so; and without a failing call, a listing is refused only when it does   *)
(* not end within the limit, whatever loop its tokens make.                 *)
WholeOrRefused ==
    /\ phase = "ok" =>
         /\ WholeListing(asked) /\ Len(asked) <= MaxPages
         /\ issues = <<>>
         /\ Principals(out) = NamedBy(asked)
    /\ phase = "failed" =>
         /\ out = <<>>
         /\ \/ issues = <<"call failed">>
            \/ issues = <<"pagination did not finish">> /\ ~Finishes

(* A principal that is named by several pages, because the grants changed   *)
(* between them, gets the privileges of the latest: the sort is stable and  *)
(* the map keeps the last.                                                  *)
NewestWins ==
    phase = "ok" =>
      LET access == ToAccess(Returned)
      IN  \A p \in DOMAIN access : access[p] = newest[p]

(* No server keeps the read going for ever.                                 *)
CallEnds == <>(phase # "asking")
=============================================================================
