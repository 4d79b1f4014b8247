SPECIFICATION Spec
CONSTANTS
    Ues = {u1, u2}
    NofPrb = 7
    PucchNrb = 1
    PrachFirst = 1
    PrachNrb = 1
    Msg3Nrb = 3
    PrbPairs <- MCPairs
    Requests = {3}
    MaxTx = 3
SYMMETRY Symmetry
INVARIANTS TypeOK GrantsDisjoint GrantsAvoidBlanked UeKeepsToGrant
