SPECIFICATION Spec
CONSTANTS
    NoToken = NoToken
    a = a
    b = b
    c = c
    ann = ann
    bob = bob
    nobody = nobody
    Token <- MCToken
    Principal <- MCPrincipal
    Blank = nobody
    Rank <- MCRank
    Listings <- MCListings
    MaxPages = 3
    MaxChanges = 2
INVARIANTS
    TypeOK
    WholeOrRefused
    NewestWins
PROPERTY CallEnds
