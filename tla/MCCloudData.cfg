\* Two requests at a time, each kind of data changed once; /sync reads the list
\* and the pointer together, the other kinds never meet in one request.
SPECIFICATION Spec
CONSTANTS
    User = User
    Other = Other
    NoUser = NoUser
    Requests = {c1, c2}
    Watched = {{}, {"list", "current"}, {"team"}, {"sync"}}
    VersionBound = 1
    Jobs = {j1, j2}
    Agents = {a1, a2}
    None = None
SYMMETRY
    Symmetric
INVARIANTS
    CloudDataTypeOK
    StaleEntriesAreExcused
    CloudLabelIsLive
    TrailIsTrue
    WindowsAreTold
