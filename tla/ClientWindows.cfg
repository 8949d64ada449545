SPECIFICATION FairSpec
CHECK_DEADLOCK FALSE
CONSTANTS
    Me = Me
    Peer = Peer
    Home = Home
    None = None
    Groups = {Home, team, project}
    Teams = {team}
    Files = {f1}
    MaxSteps = 2
    MaxFailures = 1
    MaxRefreshes = 2
    MaxChanges = 1
    MaxCalls = 2
INVARIANTS
    ShowsLatest
    DialogBusyIsAwaited
    ListIsOfGroup
PROPERTIES
    RefreshEnds
