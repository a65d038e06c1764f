SPECIFICATION FairSpec
CONSTANTS
    Symbols = {"a", "b"}
    ListOf <- Listed
    First <- ByName
    Configured <- FromConfig
    Selectors <- FastSymbols
    Feeds <- FeedStates
    MinBars <- ContractBars
    Target = 2
    Enough = 2
    MaxPerCycle = 2
    BatchSize = 1
INVARIANTS ShownInv LiveMeansLive 
PROPERTIES HintStays Screened
