\* The browser, the Discord bot and the scheduler, each by itself.
SPECIFICATION Spec
CONSTANTS
    Modes <- SomeModes
    MaxBrowsers = 2
    MaxPages = 2
    MaxTabs = 3
    Channels = {c1, c2}
    Requests = {r1, r2}
    MaxActions = 1
    MaxMessages = 3
    MaxFaults = 2
    Minutes <- SomeMinutes
    Starts <- SomeStarts
    Durations = {0, 1, 61, 240}
    Interval = 600
    MaxTicks = 3
INVARIANTS
    TypeOK SuccessOnOpenPage NoOrphanBrowser HeartbeatPresent RepeatsOwnRequest
    CronHitsTarget
PROPERTIES
    AuthenticationKept BotSettlesHere
CHECK_DEADLOCK FALSE
