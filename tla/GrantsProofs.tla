----------------------------- MODULE GrantsProofs -----------------------------
(***************************************************************************)
(* Proofs about Grants, for any server, any number of tokens and pages and *)
(* any limit: a read that succeeds has the whole listing, and one that is  *)
(* refused without a failing call had no end within the limit.             *)
(***************************************************************************)
EXTENDS Grants, FiniteSetTheorems, WellFoundedInduction, TLAPS

USE MaxPagesAssumption, MaxChangesAssumption

(* What Append does, for sequences over any set.                           *)
LEMMA AppendFacts ==
    ASSUME NEW S, NEW q \in Seq(S), NEW e \in S
    PROVE  /\ Append(q, e) \in Seq(S)
           /\ Len(Append(q, e)) = Len(q) + 1
           /\ Append(q, e)[Len(q) + 1] = e
           /\ \A i \in 1..Len(q) : Append(q, e)[i] = q[i]
OBVIOUS

(* The first issue is the only one.                                        *)
LEMMA FirstIssue == ASSUME NEW message PROVE Append(<<>>, message) = <<message>>
OBVIOUS

(* A page's assignments are grants.                                        *)
LEMMA AssignmentsType ==
    ASSUME NEW answer \in Page, current \in [Principal -> 0..MaxChanges]
    PROVE  /\ Assignments(answer) \in Seq(Grant)
           /\ \A i \in 1..Len(answer.principals) :
                Assignments(answer)[i].principal = answer.principals[i]
           /\ Len(Assignments(answer)) = Len(answer.principals)
<1> DEFINE names == answer.principals
           grants == [i \in 1..Len(names) |->
                        [principal |-> names[i], privileges |-> current[names[i]]]]
<1>1. names \in Seq(Principal) /\ DOMAIN names = 1..Len(names) /\ Len(names) \in Nat
  BY DEF Page
<1>2. Assignments(answer) = grants
  BY <1>1 DEF Assignments
<1> HIDE DEF names
<1>3. \A i \in 1..Len(names) : grants[i] \in Grant /\ grants[i].principal = names[i]
  BY <1>1 DEF Grant
<1>4. grants \in Seq(Grant) /\ Len(grants) = Len(names)
  <2>1. grants \in [1..Len(names) -> Grant]
    BY <1>3
  <2> HIDE DEF grants
  <2> QED
    BY <1>1, <2>1
<1> QED
  BY <1>2, <1>3, <1>4 DEF names

(* Giving up keeps the types.                                              *)
LEMMA RefuseType ==
    ASSUME TypeOK, NEW message \in Messages, Refuse(message)
    PROVE  /\ phase' = "failed" /\ out' = <<>> /\ issues' = Append(issues, message)
           /\ UNCHANGED <<pageToken, page>>
           /\ out' \in Seq(Grant) /\ issues' \in Seq(Messages)
<1>1. issues \in Seq(Messages)
  BY DEF TypeOK
<1>2. /\ phase' = "failed" /\ out' = <<>> /\ issues' = Append(issues, message)
      /\ UNCHANGED <<pageToken, page>>
  BY DEF Refuse
<1> QED
  BY <1>1, <1>2

(* The variables keep their types; in particular no read asks for more      *)
(* pages than the limit allows.                                             *)
THEOREM Typing == Spec => []TypeOK
<1>1. Init => TypeOK
  BY TokenAssumption, ListingsAssumption DEF Init, TypeOK
<1>2. TypeOK /\ [Next]_vars => TypeOK'
  <2> SUFFICES ASSUME TypeOK, [Next]_vars PROVE TypeOK'
    OBVIOUS
  <2>0. "call failed" \in Messages /\ "pagination did not finish" \in Messages
    BY DEF Messages
  <2>1. CASE Get
    <3> DEFINE answer == listing[pageToken]
    <3>1. answer \in Page /\ answer.next \in Token
      BY DEF Page, TypeOK
    <3>2. Assignments(answer) \in Seq(Grant)
      BY <3>1, AssignmentsType DEF TypeOK
    <3>3. Note(answer) /\ Continue(answer) /\ UNCHANGED server
      BY <2>1 DEF Get
    <3> HIDE DEF answer
    <3>4. asked' \in Seq(Token)
      BY <3>3, AppendFacts DEF Note, TypeOK
    <3>5. newest' \in [Principal -> 0..MaxChanges]
      BY <3>3 DEF Note, TypeOK
    <3>6. /\ phase' \in {"asking", "ok", "failed"} /\ pageToken' \in Token
          /\ page' \in 1..MaxPages /\ out' \in Seq(Grant) /\ issues' \in Seq(Messages)
      <4>1. out \in Seq(Grant) /\ page \in 1..MaxPages /\ pageToken \in Token /\ phase = "asking"
        BY <2>1 DEF TypeOK, Get
      <4>2. issues \in Seq(Messages)
        BY DEF TypeOK
      <4>3. out \o Assignments(answer) \in Seq(Grant)
        BY <3>2, <4>1
      <4>4. CASE Refuse("pagination did not finish")
        BY <2>0, <4>1, <4>4, RefuseType
      <4>5. CASE answer.next = NoToken /\ ~Refuse("pagination did not finish")
        BY <3>3, <4>1, <4>2, <4>3, <4>5 DEF Continue
      <4>6. CASE answer.next # NoToken /\ ~Refuse("pagination did not finish")
        <5>1. page' = page + 1 /\ ~(page >= MaxPages) /\ UNCHANGED <<phase, issues>>
          BY <3>3, <4>6 DEF Continue, Endless
        <5>2. pageToken' \in Token /\ out' \in Seq(Grant)
          BY <3>1, <3>3, <4>3, <4>6 DEF Continue
        <5> QED
          BY <4>1, <4>2, <5>1, <5>2
      <4> QED
        BY <4>4, <4>5, <4>6
    <3>7. UNCHANGED <<listing, current, changes>>
      BY <3>3 DEF server
    <3> QED
      BY <3>4, <3>5, <3>6, <3>7 DEF TypeOK
  <2>2. CASE GetFails
    <3>1. Refuse("call failed") /\ UNCHANGED <<asked, newest, listing, current, changes>>
      BY <2>2 DEF GetFails, server
    <3> QED
      BY <2>0, <3>1, RefuseType DEF TypeOK
  <2>3. CASE Administer
    <3>1. UNCHANGED <<listing, phase, pageToken, page, out, issues, asked, newest>>
      BY <2>3 DEF Administer, call
    <3>2. changes' \in 0..MaxChanges /\ current' \in [Principal -> 0..MaxChanges]
      BY <2>3 DEF Administer, TypeOK
    <3> QED
      BY <3>1, <3>2 DEF TypeOK
  <2>4. CASE UNCHANGED vars
    BY <2>4 DEF vars, call, server, TypeOK
  <2> QED
    BY <2>1, <2>2, <2>3, <2>4 DEF Next, Finished
<1> QED
  BY <1>1, <1>2, PTL DEF Spec

-----------------------------------------------------------------------------
(* A listing that comes to a page which names itself as the next one has no *)
(* last page.                                                               *)
LEMMA LoopNeverEnds ==
    ASSUME TypeOK, NEW n \in Nat \ {0}, NEW s \in [1..n -> Token], WholeListing(s),
           NEW k \in 1..n, s[k] # NoToken, listing[s[k]].next = s[k]
    PROVE  FALSE
<1>1. s \in Seq(Token) /\ Len(s) = n
  OBVIOUS
<1> DEFINE Other == {i \in k..n : s[i] # s[k]}
           Less  == OpToRel(<, Nat)
<1>2. Other # {}
  BY <1>1 DEF WholeListing
<1>3. PICK i \in Other : \A j \in Other : ~ (<<j, i>> \in Less)
  <2>1. Other \subseteq Nat
    OBVIOUS
  <2> HIDE DEF Other, Less
  <2> QED
    BY <1>2, <2>1, WFMin, NatLessThanWellFounded DEF Less
<1>4. i - 1 \in k..n /\ i > k /\ i - 1 \in Nat /\ i \in Nat
  OBVIOUS
<1>5. <<i - 1, i>> \in Less
  BY <1>4 DEF OpToRel
<1>6. s[i - 1] = s[k]
  BY <1>3, <1>4, <1>5
<1>7. listing[s[i - 1]].next = s[(i - 1) + 1]
  BY <1>1, <1>4 DEF WholeListing
<1> QED
  BY <1>4, <1>6, <1>7

(* The pages asked so far, with the one to ask next.                        *)
Path == Append(asked, pageToken)

(* While the call goes on, the path follows the tokens from the first page, *)
(* every listing that ends begins with this path, and the grants are those  *)
(* of the answered pages.  WholeOrRefused alone says nothing of a call that *)
(* is still going on.                                                       *)
Trail ==
    /\ Len(asked) = page - 1
    /\ issues = <<>>
    /\ Path[1] = NoToken
    /\ \A i \in 1..(page - 1) : listing[Path[i]].next = Path[i + 1] /\ Path[i + 1] # NoToken
    /\ \A n \in 1..MaxPages : \A s \in [1..n -> Token] : WholeListing(s) =>
         page <= n /\ \A i \in 1..page : s[i] = Path[i]
    /\ Principals(out) = NamedBy(asked)

TrailInv == TypeOK /\ (phase = "asking" => Trail) /\ WholeOrRefused

(* Before the first call the path is the empty token alone.                 *)
LEMMA InitTrail == Init => TrailInv
<1> SUFFICES ASSUME Init PROVE TrailInv
  OBVIOUS
<1>1. TypeOK
  BY TokenAssumption, ListingsAssumption DEF Init, TypeOK
<1>2. ASSUME NEW n \in 1..MaxPages, NEW s \in [1..n -> Token], WholeListing(s)
      PROVE  page <= n /\ \A i \in 1..page : s[i] = Path[i]
  BY <1>2 DEF Init, Path, WholeListing
<1>3. Trail
  BY <1>2 DEF Init, Trail, Path, Principals, NamedBy
<1> QED
  BY <1>1, <1>3 DEF TrailInv, WholeOrRefused, Init

(* An answered page either ends the call rightly or extends the path.       *)
LEMMA GetTrail == TrailInv /\ Get => (phase' = "asking" => Trail') /\ WholeOrRefused'
<1> SUFFICES ASSUME TrailInv, Get PROVE (phase' = "asking" => Trail') /\ WholeOrRefused'
  OBVIOUS
<1> DEFINE answer == listing[pageToken]
<1>1. TypeOK /\ Trail /\ phase = "asking"
  BY DEF TrailInv, Get
<1>2. answer \in Page /\ answer.next \in Token
  BY <1>1 DEF TypeOK, Page
<1>3. Note(answer) /\ Continue(answer) /\ UNCHANGED server
  BY DEF Get
<1>4. asked' = Path /\ Len(Path) = page /\ Path \in Seq(Token) /\ Path[page] = pageToken
  BY <1>1, <1>3 DEF Note, Path, TypeOK, Trail
<1>5. listing' = listing
  BY <1>3 DEF server
<1>6. \A s : WholeListing(s)' <=> WholeListing(s)
  BY <1>5 DEF WholeListing
<1>7. ASSUME out' = out \o Assignments(answer)
      PROVE  Principals(out') = NamedBy(asked')
  <2>1. Principals(out') = Principals(out) \cup Named(answer)
    <3> DEFINE more == Assignments(answer)
    <3>1. out \in Seq(Grant) /\ more \in Seq(Grant)
      BY <1>1, <1>2, AssignmentsType DEF TypeOK
    <3>2. DOMAIN more = 1..Len(more)
      BY <3>1
    <3>3. Principals(more) = Named(answer)
      <4>1. DOMAIN answer.principals = 1..Len(answer.principals)
        BY <1>2 DEF Page
      <4>2. /\ Len(more) = Len(answer.principals)
            /\ \A i \in 1..Len(answer.principals) : more[i].principal = answer.principals[i]
        BY <1>1, <1>2, AssignmentsType DEF TypeOK
      <4> HIDE DEF more, answer
      <4> QED
        BY <3>2, <4>1, <4>2 DEF Named, Principals
    <3> HIDE DEF more
    <3>4. /\ Len(out') = Len(out) + Len(more) /\ DOMAIN out' = 1..Len(out') /\ DOMAIN out = 1..Len(out)
          /\ \A i \in 1..Len(out) : out'[i] = out[i]
          /\ \A i \in 1..Len(more) : out'[Len(out) + i] = more[i]
      BY <1>7, <3>1 DEF more
    <3>5. ASSUME NEW p PROVE p \in Principals(out') <=> p \in Principals(out) \cup Principals(more)
      <4>1. ASSUME NEW i \in DOMAIN out', out'[i].principal = p
            PROVE  p \in Principals(out) \cup Principals(more)
        <5>1. CASE i \in 1..Len(out)
          BY <3>4, <4>1, <5>1 DEF Principals
        <5>2. CASE i - Len(out) \in 1..Len(more)
          <6>1. out'[i] = more[i - Len(out)]
            BY <3>1, <3>4, <4>1, <5>2
          <6> QED
            BY <3>2, <4>1, <5>2, <6>1 DEF Principals
        <5> QED
          BY <3>1, <3>4, <4>1, <5>1, <5>2
      <4>2. ASSUME NEW i \in DOMAIN out, out[i].principal = p PROVE p \in Principals(out')
        BY <3>1, <3>4, <4>2 DEF Principals
      <4>3. ASSUME NEW i \in DOMAIN more, more[i].principal = p PROVE p \in Principals(out')
        <5>1. Len(out) + i \in DOMAIN out' /\ out'[Len(out) + i] = more[i]
          BY <3>1, <3>2, <3>4, <4>3
        <5> QED
          BY <4>3, <5>1 DEF Principals
      <4> QED
        BY <4>1, <4>2, <4>3 DEF Principals
    <3> QED
      BY <3>3, <3>5
  <2>2. NamedBy(asked') = NamedBy(asked) \cup Named(answer)
    <3>1. asked \in Seq(Token) /\ pageToken \in Token
      BY <1>1 DEF TypeOK
    <3>2. /\ DOMAIN asked' = 1..(Len(asked) + 1) /\ DOMAIN asked = 1..Len(asked)
          /\ \A i \in 1..Len(asked) : asked'[i] = asked[i]
          /\ asked'[Len(asked) + 1] = pageToken
      BY <1>4, <3>1, AppendFacts DEF Path
    <3> QED
      BY <3>1, <3>2 DEF NamedBy
  <2> QED
    BY <1>1, <2>1, <2>2 DEF Trail
<1>8. CASE answer.next = NoToken
  <2>1. phase' = "ok" /\ out' = out \o Assignments(answer) /\ issues' = <<>>
    BY <1>1, <1>3, <1>8 DEF Continue, Trail
  <2>2. WholeListing(Path)
    BY <1>1, <1>4, <1>8 DEF WholeListing, Trail, TypeOK
  <2>3. Len(asked') <= MaxPages
    BY <1>1, <1>4 DEF TypeOK
  <2>4. WholeListing(asked)'
    BY <1>4, <1>5, <2>2 DEF WholeListing
  <2>5. Principals(out') = NamedBy(asked)'
    BY <1>5, <1>7, <2>1 DEF NamedBy
  <2> QED
    BY <2>1, <2>3, <2>4, <2>5 DEF WholeOrRefused
<1>9. ASSUME answer.next # NoToken,
             NEW n \in 1..MaxPages, NEW s \in [1..n -> Token], WholeListing(s)
      PROVE  /\ page + 1 <= n /\ s[page] = pageToken /\ s[page + 1] = answer.next
             /\ \A i \in 1..page : s[i] = Path[i]
  <2>1. page <= n /\ \A i \in 1..page : s[i] = Path[i]
    BY <1>1, <1>9 DEF Trail
  <2>2. Len(s) = n /\ page \in 1..n /\ s[page] = pageToken
    BY <1>1, <1>4, <2>1 DEF TypeOK
  <2>3. page # n
    BY <1>9, <2>2 DEF WholeListing
  <2> QED
    BY <1>9, <2>1, <2>2, <2>3 DEF WholeListing
<1>10. CASE answer.next # NoToken /\ Endless(answer.next)
  <2>1. phase' = "failed" /\ out' = <<>> /\ issues' = <<"pagination did not finish">>
    <3>1. Refuse("pagination did not finish") /\ issues = <<>>
      BY <1>1, <1>3, <1>10 DEF Continue, Trail
    <3> QED
      BY <3>1, FirstIssue DEF Refuse
  <2>2. ASSUME NEW n \in 1..MaxPages, NEW s \in [1..n -> Token], WholeListing(s)
        PROVE  FALSE
    <3>1. page + 1 <= n /\ s[page + 1] = answer.next /\ s[page] = pageToken
      BY <1>9, <1>10, <2>2
    <3>2. answer.next = pageToken
      BY <1>1, <1>10, <3>1 DEF Endless, TypeOK
    <3>3. page + 1 \in 1..n /\ n \in Nat \ {0}
      BY <1>1, <3>1 DEF TypeOK
    <3> QED
      BY <1>1, <1>10, <2>2, <3>1, <3>2, <3>3, LoopNeverEnds
  <2>3. ~Finishes'
    BY <1>6, <2>2 DEF Finishes
  <2> QED
    BY <2>1, <2>3 DEF WholeOrRefused
<1>11. CASE answer.next # NoToken /\ ~Endless(answer.next)
  <2>1. /\ phase' = "asking" /\ pageToken' = answer.next /\ page' = page + 1
        /\ out' = out \o Assignments(answer) /\ issues' = <<>>
    BY <1>1, <1>3, <1>11 DEF Continue, Trail
  <2>2. /\ Path' = Append(Path, answer.next) /\ Len(asked') = page' - 1
        /\ Path'[page + 1] = answer.next
        /\ \A i \in 1..page : Path'[i] = Path[i]
    BY <1>2, <1>4, <2>1 DEF Path
  <2>3. Path'[1] = NoToken
    BY <1>1, <2>2 DEF Trail, TypeOK
  <2>4. \A i \in 1..(page' - 1) : listing'[Path'[i]].next = Path'[i + 1] /\ Path'[i + 1] # NoToken
    <3> SUFFICES ASSUME NEW i \in 1..page
                 PROVE  listing[Path[i]].next = Path'[i + 1] /\ Path'[i + 1] # NoToken
      <4>1. page \in Nat /\ page' - 1 = page
        BY <1>1, <2>1 DEF TypeOK
      <4> QED
        BY <1>5, <2>2, <4>1
    <3>0. page \in Nat
      BY <1>1 DEF TypeOK
    <3>1. CASE i = page
      BY <1>1, <1>4, <1>11, <2>2, <3>1 DEF TypeOK
    <3>2. CASE i < page
      <4>1. i \in 1..(page - 1) /\ i + 1 \in 1..page /\ i \in 1..page
        BY <3>0, <3>2
      <4>2. listing[Path[i]].next = Path[i + 1] /\ Path[i + 1] # NoToken
        BY <1>1, <4>1 DEF Trail
      <4> QED
        BY <2>2, <4>1, <4>2
    <3> QED
      BY <3>0, <3>1, <3>2
  <2>5. ASSUME NEW n \in 1..MaxPages, NEW s \in [1..n -> Token], WholeListing(s)
        PROVE  page + 1 <= n /\ \A i \in 1..(page + 1) : s[i] = Path'[i]
    <3>1. page + 1 <= n /\ s[page + 1] = answer.next /\ \A i \in 1..page : s[i] = Path[i]
      BY <1>9, <1>11, <2>5
    <3>2. page \in Nat
      BY <1>1 DEF TypeOK
    <3>3. ASSUME NEW i \in 1..(page + 1) PROVE s[i] = Path'[i]
      <4>1. i \in 1..page \/ i = page + 1
        BY <3>2
      <4>2. CASE i \in 1..page
        BY <2>2, <3>1, <4>2
      <4>3. CASE i = page + 1
        BY <2>2, <3>1, <4>3
      <4> QED
        BY <4>1, <4>2, <4>3
    <3> QED
      BY <3>1, <3>3
  <2>6. \A n \in 1..MaxPages : \A s \in [1..n -> Token] : WholeListing(s)' =>
          page' <= n /\ \A i \in 1..page' : s[i] = Path'[i]
    BY <1>6, <2>1, <2>5
  <2>7. Principals(out') = NamedBy(asked)'
    BY <1>5, <1>7, <2>1 DEF NamedBy
  <2>8. Trail'
    BY <2>1, <2>2, <2>3, <2>4, <2>6, <2>7 DEF Trail
  <2> QED
    BY <2>1, <2>8 DEF WholeOrRefused
<1> QED
  BY <1>8, <1>10, <1>11

(* What the server's changes do not touch.                                 *)
LEMMA Unaffected ==
    ASSUME UNCHANGED <<listing, phase, pageToken, page, out, issues, asked, newest>>
    PROVE  (Trail' <=> Trail) /\ (WholeOrRefused' <=> WholeOrRefused)
<1>1. Path' = Path
  BY DEF Path
<1>2. \A s : WholeListing(s)' <=> WholeListing(s)
  BY DEF WholeListing
<1>3. Finishes' <=> Finishes
  BY <1>2 DEF Finishes
<1>4. WholeListing(asked)' <=> WholeListing(asked)
  BY DEF WholeListing
<1>5. Principals(out)' = Principals(out) /\ NamedBy(asked)' = NamedBy(asked)
  BY DEF Principals, NamedBy
<1>6. Trail' <=> Trail
  BY <1>1, <1>2, <1>5 DEF Trail
<1> QED
  BY <1>3, <1>4, <1>5, <1>6 DEF WholeOrRefused

(* Grants that count as read are all there, and a read refused without a    *)
(* failing call has no end within the limit: for every server.              *)
THEOREM WholeOrRefusedHolds == Spec => []WholeOrRefused
<1>1. TrailInv /\ TypeOK' /\ [Next]_vars => TrailInv'
  <2> SUFFICES ASSUME TrailInv, TypeOK', [Next]_vars
               PROVE  (phase' = "asking" => Trail') /\ WholeOrRefused'
    BY DEF TrailInv
  <2>1. CASE Get
    BY <2>1, GetTrail
  <2>2. CASE GetFails
    <3>1. phase = "asking" /\ Refuse("call failed")
      BY <2>2 DEF GetFails
    <3>2. issues = <<>>
      BY <3>1 DEF TrailInv, Trail
    <3>3. phase' = "failed" /\ out' = <<>> /\ issues' = <<"call failed">>
      BY <3>1, <3>2, FirstIssue DEF Refuse
    <3> QED
      BY <3>3 DEF WholeOrRefused
  <2>3. CASE Administer
    BY <2>3, Unaffected DEF Administer, call, TrailInv
  <2>4. CASE UNCHANGED vars
    BY <2>4, Unaffected DEF vars, call, server, TrailInv
  <2> QED
    BY <2>1, <2>2, <2>3, <2>4 DEF Next, Finished
<1>2. TrailInv => WholeOrRefused
  BY DEF TrailInv
<1> QED
  BY <1>1, <1>2, InitTrail, Typing, PTL DEF Spec

-----------------------------------------------------------------------------
(* The last grant of a principal that was read is the newest: a page only   *)
(* takes over where its own answer names the principal.                     *)
IsLast(i) == \A j \in DOMAIN out : j > i => out[j].principal # out[i].principal

LastIsNewest == \A i \in DOMAIN out : IsLast(i) => out[i].privileges = newest[out[i].principal]

LEMMA PageIsNewer ==
    ASSUME TypeOK, LastIsNewest, NEW answer \in Page, Note(answer), out' = out \o Assignments(answer)
    PROVE  LastIsNewest'
<1> DEFINE A == Assignments(answer)
           n == Len(out)
           m == Len(answer.principals)
<1>1. out \in Seq(Grant) /\ n \in Nat /\ current \in [Principal -> 0..MaxChanges] /\ m \in Nat
  BY DEF TypeOK, Page
<1>2. /\ A \in Seq(Grant) /\ Len(A) = m
      /\ \A i \in 1..m : A[i].principal = answer.principals[i]
      /\ out' = out \o A
  BY <1>1, AssignmentsType
<1>3. \A i \in 1..m : A[i].privileges = current[answer.principals[i]]
  BY DEF Assignments, Page
<1>4. Named(answer) = {answer.principals[i] : i \in 1..m} /\ Named(answer) \subseteq Principal
  BY DEF Named, Page
<1>5. \A p \in Principal : newest'[p] = IF p \in Named(answer) THEN current[p] ELSE newest[p]
  BY DEF Note
<1> HIDE DEF A, m
<1>6. /\ DOMAIN out' = 1..(n + m) /\ DOMAIN out = 1..n
      /\ \A i \in 1..n : out'[i] = out[i]
      /\ \A i \in 1..m : out'[n + i] = A[i]
  <2>1. /\ DOMAIN (out \o A) = 1..(n + m)
        /\ \A i \in 1..n : (out \o A)[i] = out[i]
        /\ \A i \in 1..m : (out \o A)[n + i] = A[i]
    <3>1. out \in Seq(Grant) /\ A \in Seq(Grant)
      BY <1>1, <1>2
    <3>2. DOMAIN (out \o A) = 1..(Len(out) + Len(A))
      BY <3>1
    <3>3. \A i \in 1..Len(out) : (out \o A)[i] = out[i]
      BY <3>1
    <3>4. \A i \in 1..Len(A) : (out \o A)[Len(out) + i] = A[i]
      BY <3>1
    <3> QED
      BY <1>2, <3>2, <3>3, <3>4
  <2>2. DOMAIN out = 1..n
    BY <1>1
  <2> QED
    BY <1>2, <2>1, <2>2
<1> HIDE DEF n
<1>7. ASSUME NEW i \in DOMAIN out', IsLast(i)'
      PROVE  out'[i].privileges = newest'[out'[i].principal]
  <2>1. CASE i > n
    <3>1. i - n \in 1..m /\ i = n + (i - n)
      BY <1>1, <1>6, <2>1
    <3>2. out'[i] = A[i - n]
      BY <1>6, <3>1
    <3> DEFINE p == answer.principals[i - n]
    <3>3. p \in Named(answer) /\ p \in Principal
      BY <1>4, <3>1
    <3>4. A[i - n].principal = p /\ A[i - n].privileges = current[p]
      BY <1>2, <1>3, <3>1
    <3> HIDE DEF p
    <3>5. newest'[p] = current[p]
      BY <1>5, <3>3
    <3> QED
      BY <3>2, <3>4, <3>5
  <2>2. CASE ~(i > n)
    <3>1. i \in 1..n /\ out'[i] = out[i]
      BY <1>1, <1>6, <2>2
    <3>2. out[i].principal \in Principal
      <4>1. out[i] \in Grant
        BY <1>1, <1>6, <3>1
      <4> QED
        BY <4>1 DEF Grant
    <3>3. IsLast(i)
      <4> SUFFICES ASSUME NEW j \in DOMAIN out, j > i PROVE out[j].principal # out[i].principal
        BY DEF IsLast
      <4>1. j \in DOMAIN out' /\ out'[j] = out[j]
        BY <1>1, <1>6
      <4> QED
        BY <1>7, <3>1, <4>1 DEF IsLast
    <3>4. out[i].principal \notin Named(answer)
      <4> SUFFICES ASSUME NEW k \in 1..m, answer.principals[k] = out[i].principal PROVE FALSE
        BY <1>4
      <4>1. n + k \in DOMAIN out' /\ n + k > i /\ out'[n + k].principal = out[i].principal
        BY <1>1, <1>2, <1>6, <3>1
      <4> QED
        BY <1>7, <3>1, <4>1 DEF IsLast
    <3>5. out[i].privileges = newest[out[i].principal]
      BY <1>6, <3>1, <3>3 DEF LastIsNewest
    <3> QED
      BY <1>5, <3>1, <3>2, <3>4, <3>5
  <2> QED
    BY <2>1, <2>2
<1> QED
  BY <1>7 DEF LastIsNewest

LEMMA NewestInvariance == Spec => []LastIsNewest
<1>1. Init => LastIsNewest
  BY DEF Init, LastIsNewest
<1>2. LastIsNewest /\ TypeOK /\ [Next]_vars => LastIsNewest'
  <2> SUFFICES ASSUME LastIsNewest, TypeOK, [Next]_vars PROVE LastIsNewest'
    OBVIOUS
  <2>1. ASSUME out' = <<>> PROVE LastIsNewest'
    BY <2>1 DEF LastIsNewest
  <2>2. ASSUME UNCHANGED <<out, newest>> PROVE LastIsNewest'
    BY <2>2 DEF LastIsNewest, IsLast
  <2>3. CASE Get
    <3> DEFINE answer == listing[pageToken]
    <3>1. answer \in Page
      BY DEF Page, TypeOK
    <3>2. Note(answer) /\ Continue(answer)
      BY <2>3 DEF Get
    <3> HIDE DEF answer
    <3>3. out' = <<>> \/ out' = out \o Assignments(answer)
      BY <3>2 DEF Continue, Refuse
    <3> QED
      BY <2>1, <3>1, <3>2, <3>3, PageIsNewer
  <2>4. CASE GetFails
    BY <2>1, <2>4 DEF GetFails, Refuse
  <2>5. CASE Administer
    BY <2>2, <2>5 DEF Administer, call
  <2>6. CASE UNCHANGED vars
    BY <2>2, <2>6 DEF vars, call
  <2> QED
    BY <2>3, <2>4, <2>5, <2>6 DEF Next, Finished
<1> QED
  BY <1>1, <1>2, Typing, PTL DEF Spec

-----------------------------------------------------------------------------
(* The sort.  Preceding(i) are the grants that come before the i-th; as many   *)
(* as there are of them is the position of the i-th, less one.              *)
Preceding(i) == {j \in DOMAIN out : Earlier(j, i)}

LEMMA SortOrder ==
    ASSUME TypeOK
    PROVE  /\ \A i \in DOMAIN out : ~Earlier(i, i)
           /\ \A i, j, k \in DOMAIN out : Earlier(i, j) /\ Earlier(j, k) => Earlier(i, k)
           /\ \A i, j \in DOMAIN out : i = j \/ Earlier(i, j) \/ Earlier(j, i)
<1> DEFINE r(i) == Rank[out[i].principal]
           who(i) == out[i].principal
<1>1. ASSUME NEW i \in DOMAIN out PROVE who(i) \in Principal /\ r(i) \in Nat /\ i \in Nat
  <2>1. out[i] \in Grant /\ i \in Nat
    BY DEF TypeOK
  <2>2. who(i) \in Principal
    BY <2>1 DEF Grant
  <2> QED
    BY <2>1, <2>2, RankAssumption
<1>2. \A i, j \in DOMAIN out : r(i) = r(j) <=> who(i) = who(j)
  BY <1>1, RankAssumption
<1>3. \A i, j : Earlier(i, j) <=> r(i) < r(j) \/ (who(i) = who(j) /\ i < j)
  BY DEF Earlier
<1> HIDE DEF r, who
<1> QED
  BY <1>1, <1>2, <1>3

LEMMA Positions ==
    ASSUME TypeOK
    PROVE  /\ DOMAIN out = 1..Len(out) /\ Len(out) \in Nat
           /\ \A i \in DOMAIN out : Cardinality(Preceding(i)) \in 0..(Len(out) - 1)
           /\ \A i, j \in DOMAIN out :
                Earlier(i, j) => Cardinality(Preceding(i)) < Cardinality(Preceding(j))
           /\ \A k \in 1..Len(out) : \E i \in DOMAIN out : Cardinality(Preceding(i)) = k - 1
<1> DEFINE n == Len(out)
           card(i) == Cardinality(Preceding(i))
           pos == [i \in 1..n |-> card(i) + 1]
<1>1. DOMAIN out = 1..n /\ n \in Nat
  BY DEF TypeOK
<1> HIDE DEF n
<1>2. IsFiniteSet(1..n) /\ Cardinality(1..n) = n
  BY <1>1, FS_Interval
<1>3. ASSUME NEW i \in DOMAIN out
      PROVE  IsFiniteSet(Preceding(i)) /\ card(i) \in 0..(n - 1)
  <2>1. Preceding(i) \in SUBSET (1..n) /\ Preceding(i) # 1..n
    BY <1>1, SortOrder DEF Preceding
  <2> QED
    BY <1>1, <1>2, <2>1, FS_Subset, FS_CardinalityType
<1>4. ASSUME NEW i \in DOMAIN out, NEW j \in DOMAIN out, Earlier(i, j) PROVE card(i) < card(j)
  <2>1. Preceding(i) \in SUBSET Preceding(j)
    BY <1>4, SortOrder DEF Preceding
  <2>2. i \in Preceding(j) /\ i \notin Preceding(i)
    BY <1>4, SortOrder DEF Preceding
  <2>3. card(i) <= card(j) /\ card(i) # card(j)
    BY <1>3, <2>1, <2>2, FS_Subset
  <2>4. card(i) \in Nat /\ card(j) \in Nat
    BY <1>1, <1>3
  <2> QED
    BY <2>3, <2>4
<1>5. \A i, j \in DOMAIN out : card(i) = card(j) => i = j
  <2>1. \A i, j \in DOMAIN out : card(i) \in Nat
    BY <1>3
  <2> QED
    BY <1>4, <2>1, SortOrder
<1> HIDE DEF card
<1>6. pos \in Injection(1..n, 1..n)
  <2>1. pos \in [1..n -> 1..n]
    BY <1>1, <1>3
  <2>2. \A i, j \in 1..n : pos[i] = pos[j] => i = j
    BY <1>1, <1>3, <1>5
  <2> QED
    BY <2>1, <2>2 DEF Injection, IsInjective
<1>7. pos \in Surjection(1..n, 1..n)
  BY <1>2, <1>6, FS_Injection
<1>8. ASSUME NEW k \in 1..n PROVE \E i \in DOMAIN out : card(i) = k - 1
  <2>1. PICK i \in 1..n : pos[i] = k
    BY <1>7 DEF Surjection
  <2> QED
    BY <1>1, <1>3, <2>1
<1> QED
  BY <1>1, <1>3, <1>4, <1>8 DEF card, n

(* A set of numbers with a bound has a greatest.                            *)
LEMMA Greatest ==
    ASSUME NEW n \in Nat, NEW T \in SUBSET (1..n), T # {}
    PROVE  \E x \in T : \A y \in T : y <= x
<1> DEFINE Less == OpToRel(<, Nat)
           U == {m \in Nat : n - m \in T}
<1>1. U # {} /\ U \in SUBSET Nat
  <2>1. PICK x \in T : TRUE
    OBVIOUS
  <2>2. n - x \in Nat /\ n - (n - x) = x
    OBVIOUS
  <2> QED
    BY <2>1, <2>2
<1>2. \E m \in U : \A k \in U : ~(<<k, m>> \in Less)
  <2> HIDE DEF U, Less
  <2> QED
    BY <1>1, WFMin, NatLessThanWellFounded DEF Less
<1>3. PICK m \in U : \A k \in U : ~(k < m)
  BY <1>1, <1>2 DEF OpToRel
<1>4. ASSUME NEW y \in T PROVE y <= n - m
  <2>1. n - y \in U /\ y \in Nat
    OBVIOUS
  <2>2. ~(n - y < m) /\ m \in Nat
    BY <1>3, <2>1
  <2> QED
    BY <2>1, <2>2
<1> QED
  BY <1>4

(* However often the grants change during the read, each principal gets the *)
(* privileges of the last answer that named it: the stable sort leaves the  *)
(* grants of one principal in the order in which they were read, and the    *)
(* map keeps the last.                                                      *)
THEOREM NewestWinsHolds == Spec => []NewestWins
<1>1. ASSUME TypeOK, LastIsNewest PROVE NewestWins
  <2> DEFINE n == Len(out)
             card(i) == Cardinality(Preceding(i))
             at(k) == CHOOSE i \in DOMAIN out : card(i) = k - 1
             G == Returned
  <2>1. DOMAIN out = 1..n /\ n \in Nat
    BY <1>1, Positions
  <2>2. ASSUME NEW k \in 1..n PROVE at(k) \in DOMAIN out /\ card(at(k)) = k - 1
    BY <1>1, Positions
  <2>3. G = [k \in 1..n |-> out[at(k)]]
    BY <2>1 DEF Returned, Preceding
  <2>4. ASSUME NEW j \in DOMAIN out PROVE card(j) + 1 \in 1..n /\ at(card(j) + 1) = j
    <3>1. card(j) \in 0..(n - 1)
      BY <1>1, Positions
    <3> DEFINE i == at(card(j) + 1)
    <3>2. card(j) + 1 \in 1..n /\ (card(j) + 1) - 1 = card(j)
      BY <2>1, <3>1
    <3>3. i \in DOMAIN out /\ card(i) = card(j)
      BY <2>2, <3>2
    <3> HIDE DEF i
    <3>4. ~(card(i) < card(j)) /\ ~(card(j) < card(i))
      BY <2>1, <3>1, <3>3
    <3>5. ~Earlier(i, j) /\ ~Earlier(j, i)
      BY <1>1, <3>3, <3>4, Positions DEF card
    <3>6. i = j
      BY <1>1, <3>3, <3>5, SortOrder
    <3> QED
      BY <3>2, <3>6 DEF i
  <2> HIDE DEF at, G, card, n
  <2>5. DOMAIN G = 1..n /\ Len(G) = n
    <3>1. G \in Seq({out[i] : i \in DOMAIN out}) /\ DOMAIN G = 1..n
      BY <2>1, <2>2, <2>3
    <3> QED
      BY <2>1, <3>1
  <2>6. ASSUME NEW p \in Principals(G) PROVE ToAccess(G)[p] = newest[p] \/ p = Blank
    <3> DEFINE IsLastOf(k) == /\ G[k].principal = p
                              /\ \A j \in (k + 1)..Len(G) : G[j].principal # p
               last == CHOOSE k \in DOMAIN G : IsLastOf(k)
               T == {k \in 1..n : G[k].principal = p}
    <3>1. PICK x \in T : \A y \in T : y <= x
      <4>1. T # {} /\ T \in SUBSET (1..n)
        BY <2>5, <2>6 DEF Principals
      <4> HIDE DEF T
      <4> QED
        BY <2>1, <4>1, Greatest
    <3>2. x \in DOMAIN G /\ IsLastOf(x)
      BY <2>1, <2>5, <3>1
    <3>3. last \in 1..n /\ IsLastOf(last)
      BY <2>5, <3>2
    <3>4. p # Blank => ToAccess(G)[p] = G[last].privileges
      BY DEF ToAccess
    <3> HIDE DEF last
    <3> DEFINE i == at(last)
    <3>5. i \in DOMAIN out /\ card(i) = last - 1 /\ G[last] = out[i]
      BY <2>2, <2>3, <3>3
    <3> HIDE DEF i
    <3>6. ASSUME NEW j \in DOMAIN out, j > i PROVE out[j].principal # out[i].principal
      <4> SUFFICES ASSUME out[j].principal = out[i].principal PROVE FALSE
        OBVIOUS
      <4>1. Earlier(i, j)
        BY <3>6, <2>1 DEF Earlier
      <4>2. card(i) < card(j)
        BY <1>1, <3>5, <4>1, Positions DEF card
      <4>3. card(j) + 1 \in 1..n /\ G[card(j) + 1] = out[j]
        BY <2>3, <2>4
      <4>4. card(j) \in Nat
        BY <1>1, Positions DEF card
      <4>5. card(j) + 1 \in (last + 1)..n
        BY <2>1, <3>3, <3>5, <4>2, <4>3, <4>4
      <4> QED
        BY <2>5, <3>3, <3>5, <4>3, <4>5
    <3>7. out[i].privileges = newest[out[i].principal]
      BY <1>1, <3>5, <3>6 DEF LastIsNewest, IsLast
    <3> QED
      BY <3>3, <3>4, <3>5, <3>7
  <2>7. DOMAIN ToAccess(G) = Principals(G) \ {Blank}
    BY DEF ToAccess
  <2> QED
    BY <2>6, <2>7 DEF NewestWins, G
<1> QED
  BY <1>1, Typing, NewestInvariance, PTL
=============================================================================
