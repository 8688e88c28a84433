SPECIFICATION Spec
CONSTANTS
    s1 = s1  s2 = s2  home = home  project = project  link = link  p1 = p1
    None = None
    Skills = {s1, s2}
    Targets = {home, project, link}
    Of <- MCOf
    Copies = {home, project}
    Projects = {p1}
    In <- MCIn
    v1 = v1  v2 = v2
    Versions = {v1, v2}
    First = v1
    MaxChanges = 1
    MaxFaults = 1
    MaxRequests = 1
PROPERTIES
    RefusalsAreHonest
CHECK_DEADLOCK FALSE
