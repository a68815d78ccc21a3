CONSTANTS
    Agents = {a1, a2}
    Conns = {c1, c2, c3}
    None = None
    TimerBound = 2
SPECIFICATION Spec
INVARIANTS
    TypeOK
    OneConnection
    SubscribedFollows
    ShownConnected
PROPERTIES
    FeedSpec
    ConnectRecovers
