CONSTANTS
    site = site
    app = app
    pdf = pdf
    s1 = s1
    OtherScan = OtherScan
    NoProject = NoProject
    NoJob = NoJob
    Projects = {site, app}
    Known = {site}
    Discoveries = {pdf}
    Jobs = {s1}
    MaxCalls = 1
    MaxPolls = 2
    MaxElsewhere = 1
    MaxReloads = 1

SPECIFICATION FairSpec
INVARIANT OnlySelectedProject
PROPERTY ReviewIsKept
PROPERTY ScanEndIsShown
CHECK_DEADLOCK FALSE
