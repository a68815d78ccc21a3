SPECIFICATION Spec
CONSTANTS
    u1 = u1
    u2 = u2
    c1 = c1
    c2 = c2
    c3 = c3
    None = None
    Users <- MCUsers
    Callers <- MCCallers
    MAX_REFRESH_FAILURES = 8
    TokenBound = 3
PROPERTY FreshSessionSurvives
