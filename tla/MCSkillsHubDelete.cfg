CONSTANTS
    w1 = w1
    w2 = w2
    s1 = s1
    x = x
    y = y
    t1 = t1
    t2 = t2
    p1 = p1
    common = common
    Home = Home
    None = None
    Tabs = {w1}
    Skills = {s1}
    Contents = {x, y}
    Offered = {x}
    Tools = {t1, t2}
    Projects = {p1}
    Scoped = {t1}
    HomeDir <- MCHomeDir
    ProjectDir <- MCProjectDir
    MaxClicks = 2
    MaxEvents = 1

SPECIFICATION Spec
PROPERTY DeletionSparesOwnContent
CHECK_DEADLOCK FALSE
