\* One attempt with a budget of three pages.
SPECIFICATION Spec
CONSTANTS
    home = home
    team = team
    teamRef = teamRef
    news = news
    about = about
    press = press
    ceo = ceo
    cto = cto
    plain = plain
    stamped = stamped
    later = later
    profile = profile
    blank = blank
    shell = shell
    h1 = h1
    h2 = h2
    h3 = h3
    h4 = h4
    h5 = h5
    t0 = t0
    t1 = t1
    t2 = t2
    t3 = t3
    t4 = t4
    NoHash = NoHash
    Failure = Failure
    Urls <- SiteUrls
    Norm <- SiteNorm
    Signals <- SiteSignals
    Contents = {plain, stamped, later, profile, blank}
    Page <- SitePage
    Near <- SiteNear
    Objectives <- SiteObjectives
    Found <- SiteFound
    MaxResults = 3
    MaxPages = 3
    Concurrency = 2
    MaxAttempts = 1
INVARIANTS
    StoppedEarlyHasBudgetLeft
CHECK_DEADLOCK FALSE
