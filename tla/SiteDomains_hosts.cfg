SPECIFICATION Spec
CONSTANTS
    s1 = s1
    s2 = s2
    r1 = r1
    r2 = r2
    apex = apex
    www = www
    other = other
    Sites = {s1, s2}
    Domains = {apex, www, other}
    Apexes = {apex}
    Www <- WwwOf
    NoDomain = NoDomain
    Requests = {r1}
    MaxDomains = 3
    MaxRows = 3
CHECK_DEADLOCK FALSE
SYMMETRY Symmetry
INVARIANT
    HostsBelongToOneSite
