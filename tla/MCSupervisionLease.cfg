CONSTANTS
    Holders = {h1, h2}
    Workers = {w1, w2}
    Nobody = nobody
    LeaseModes = {"oceanbase", "single-process"}
    LeaseTicks = 2
    MaxGeneration = 4
SPECIFICATION FairSpec
INVARIANTS
    TypeOK
    TransactionPinsTerm
    NoChildOfEarlierTerm
    GenerationHasOneHolder
PROPERTIES
    ImplementsFencedTerms
    DeadHolderReplaced
