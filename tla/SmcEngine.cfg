SPECIFICATION Spec
CONSTANTS
    MaxLookback = 300
    MinSwingBars = 1
    MinRangeBars = 4
    EqTolerance <- MCEqTolerance
    AtrPeriod = 2
    BosMinAtr <- MCBosMinAtr
    BosMinPct <- MCBosMinPct
    LegMinAtr <- MCLegMinAtr
    OteMin = 62
    OteMax = 79
    OteTrendOnly = TRUE
    OtePerSide = 1
    HistoryMinutes = 35
    HistoryEntries = 2
    ObLegMinAtr <- MCLegMinAtr
    ObLegMaxBars = 40
    ObPreludeBars = 6
    ObBodyDomination <- MCBodyDomination
    ObBodyMin <- MCBodyMin
    ObMaxDistanceAtr <- MCMaxDistanceAtr
    BreakerMaxObAge = 720
    BreakerMaxDelay = 180
    BreakerTolerance <- MCBreakerTolerance
    BreakerMinBody <- MCBreakerMinBody
    BreakerMinDisplacement <- MCBreakerMinDisplacement
    Limit = 6
    Shapes <- MCShapes
    Warmups <- MCWarmups
    Epoch = 29400000
    BarMinutes = 5
    MaxBars = 4
    MaxUpsets = 1
INVARIANTS
    ChochTurns
    OteWithLeg
    MagnetsOrdered
PROPERTIES
    SwingsHold
    HistoryRemembers
    CyclesSettle
CHECK_DEADLOCK FALSE
