\* One request at a time is enough: the project of one account is answered to
\* the next account that signs in.
SPECIFICATION SoftSpec
CONSTANTS
    Scopes = {s1, s2}
    NoScope = NoScope
    Rostered = {s1}
    Own = {"active"}
    Clients = {c1}
PROPERTY
    ActiveProjectIsOwn
