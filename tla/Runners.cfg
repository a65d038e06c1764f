\* Two servers that can differ in address, port and clients; one task of each
\* other kind.
CONSTANTS
    Servers = {http, ws}
    Core = {producer}
    Loops = {listener}
    Maintenance = maintenance
SPECIFICATION FairSpec
PROPERTY ShutdownEnds
PROPERTY CoreFailureStops
PROPERTY ServersAreHarmless
PROPERTY ServersRecover
\* The program ends.
CHECK_DEADLOCK FALSE
