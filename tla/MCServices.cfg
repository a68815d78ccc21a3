\* A pool of two over four agents and a client that tries three times; bursts
\* of two lines, one refilled a tick, and lines stale after one; a sequence that
\* is forced to its end two ticks after the notification is cut off.
\* Past the exit of the process nothing happens.
SPECIFICATION Spec
CONSTANTS
    Scopes = {s1, s2}
    NoScope = NoScope
    Rostered = {s1}
    Own = {"names"}
    Clients = {c1, c2}
    Mails = {m1}
    TryBound = 3
    Pool = 2
    BatchBound = 4
    ada = ada
    ada1 = ada1
    ada2 = ada2
    Agents = {ada}
    Terminals = {ada1, ada2}
    AgentOf <- MCAgentOf
    Capacity = 2
    Refill = 1
    Stale = 1
    ChunkBound = 2
    SinceBound = 2
    ConnectionBound = 2
    NotifyLimit = 1
    ForceLimit = 3
CHECK_DEADLOCK FALSE
INVARIANTS
    ServicesTypeOK
    InboxesComplete
    RetryIsSafe
    RateIsBounded
PROPERTIES
    RefusalIsHonest
    HydrationSettles
    TailsAreEmitted
    ShutdownEnds
