SPECIFICATION FairSpec
CONSTANTS
    MaxFd = 3
    EventsSize = 3
    NoOwner = NoOwner
    Agents = {a1, a2}
    Rpc = Rpc
    Epids = {e1}
    NoEpid = NoEpid
    NoAgent = NoAgent
    IdleLimit = 1
INVARIANTS
    TypeOK
    ItemsLive
    MapLive
PROPERTIES
    LostToTwin
    NotMistaken
    UpTooEarly
    GoneClosed
