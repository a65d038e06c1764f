SPECIFICATION FairSpec
CONSTANTS
    Symbols = {"a", "b"}
    Watched = {"a"}
    Content <- Contents
    MaxInbox = 1
    MaxCrashes = 1
PROPERTIES SessionForward NoFlicker SnapshotForward ViewersCatchUp
