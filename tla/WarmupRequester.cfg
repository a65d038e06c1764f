SPECIFICATION FairSpec
CONSTANTS
    Order <- FiveMinutes
    OneMinute = {}
    Contract <- FiveMinutesContract
    Desired = 2
    StaleAfter = 1
    Poll = 2
    Cooldown = 5
    MaxElapsed = 1
    Faults = {"publish", "lost", "clobber"}
PROPERTIES NeverTooOften PromptOnce HistoryArrives
