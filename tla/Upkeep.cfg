SPECIFICATION Spec
CHECK_DEADLOCK FALSE
CONSTANTS
    Snapshots <- MCSnapshots
    Layers <- MCLayers
    Markets <- MCMarkets
    Contexts <- MCContexts
    Deployments <- MCDeployments
    Calls = {"c1", "c2", "c3", "c4"}
    Errors <- MCErrors
    Limit = 2
    Quotes <- MCQuotes
    Entry = 4
    FirstTarget = 9
    Distance = 2
    MoveToEntry = TRUE
    Trailing = TRUE
    Faults = {"fail"}
    Exchanges = {"binance", "okx", "bybit", "bitget", "kraken"}
    Setups <- MCSetups
    Filters <- MCFilters
    Amounts = {1, 2, 5, 7, 12, 13, 24}
    PriceRange = {1, 2, 5}
    Quantities = {0, 1, 5, 6}
    Hairs <- MCHairs
    FailAt = 2
    WarnAt = 1
    Symbols = {"a", "b"}
    Default = {"a"}
    Callers = {"c1"}
    Stale = 1
    Timeout = 2
    Horizon = 4
    Adapters <- MCAdapters
    RetryMax = 2
    LegsMax = 3
    Bars = 5
    Shapes <- MCShapes
    FirstBar = 2
    Past = 6
    MaxHold = 2
    Period <- MCPeriod
    MinBars = 1
    FirstShare = 3
    SecondShare = 3
    BreakEvenStop = TRUE
    Policies = {TRUE, FALSE}
    Records = {1, 2, 3}
    Legacy = {1, 2}
    Scripts = {"guarded"}
    CopiesMax = 2
    Coins = {"btc", "eth", "sol", "doge"}
    Groups = {{"btc", "eth", "sol"}, {"doge", "sol"}}
    MaxOpen = 4
    MaxSame = 2
    MaxCorr = 2
    LossLimit = 2
    Banned = {}
    Locks = {"symbol", "pending"}
    Events <- MCEvents
    Pre = 2
    Post = 1
    Minutes = 4
    Closes = {"c1", "c2", "c3"}
    Gross <- MCGross
    Fee = 1
INVARIANTS
    LevelsAreSound
    RetriesAreBounded
    NoSilentWithdrawal
    PlansAreBest
    FreshIsRecent
    ListedRowIsTrue
    NoLookAhead
    OneStory
    MovedNotLost
    DayNeverOvercounts
PROPERTIES
    ProtectionOnlyGrows
