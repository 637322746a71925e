CONSTANTS
    Writers = {p1, p2}
    Watchers = {w1}
    Limit = 2
    MaxWrites = 2
    MaxEvents = 2
SPECIFICATION FairSpec
INVARIANTS EventsAreSound SleepsOnlyWhenUpToDate
PROPERTIES NeverFallsBack FilledReachesStreams
