SPECIFICATION FairSpec
CONSTANTS
    Ues = {u1}
    NofPrb = 7
    PucchNrb = 1
    PrachFirst = 0
    PrachNrb = 0
    Msg3Nrb = 3
    PrbPairs <- MCSamePair
    Requests = {3}
    MaxTx = 3
PROPERTIES HarqEnds
