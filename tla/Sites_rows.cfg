SPECIFICATION Spec
CONSTANTS
    Requests = {r1, r2}
    Sites = {s1, s2}
    Slugs = {d1, d2}
    Values = {good, bad}
    Broken = {bad}
    Asked = {FALSE}
    MaxSites = 1
SYMMETRY Symmetry
INVARIANTS
    AllOrNothingUnlessDisturbed
    ServedIsCurrent
    SitesHaveDirectories
PROPERTIES
    LimitKeptUnlessCrowded
