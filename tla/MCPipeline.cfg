\* Lists of up to four; for the progress page three events, two access tokens,
\* one result.
SPECIFICATION MCSpec
CONSTANTS
    Targets = {"one", "two", "inside"}
    Allowed = {"one", "two"}
    MaxRedirects = 5
    MaxBytes = 3
    Chunks = {1, 2, 4}
    Tracking = {1}
    LowerCase <- MCLowerCase
    SiteOf <- MCSiteOf
    Assets = {"b.pdf"}
    MaxItems = 2
    Geography <- MCGeography
    Industry <- MCIndustry
    Attributes <- MCAttributes
    Signals <- MCSignals
    Persons = {"ceo"}
    Within <- MCWithin
    Length <- MCLength
    Value <- MCValue
    Plain <- MCPlain
    Counted = {"companies"}
    Defaults <- MCDefaults
    Absent = Absent
    Urls <- MCUrls
    Base <- About
    Tags <- MCTags
    Words <- MCWords
    Overrides <- MCOverrides
    Objects = {1, 2}
    Scripts <- MCScripts
    Items = {1, 2, 3}
    Names = {"/l/", "u", "w", "d"}
    Results <- MCResults
    MaxLength = 4
    Silent = Silent
    Stati = {"crawling", "completed"}
    Kinds = {"search.completed", "sources.discovered"}
    Forerunner <- SearchFirst
    Terminal = {"completed"}
    LogBound = 3
    MaxSockets = 2
    MaxResults = 1
INVARIANTS
    FetchKeepsItsWord
    KeysForgetOnlyNoise
    LinksAreOfTheSite
    PlanCoversTheRequest
    ListsKeepTheFirst
    FeedTypeOK
    StatusHasItsHistory
    ResultsAreFinal
PROPERTIES
    ShowsTheLog
    CatchesUp
    PageSettles
CHECK_DEADLOCK FALSE
