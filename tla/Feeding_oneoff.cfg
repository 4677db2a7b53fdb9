SPECIFICATION FeedingSpec
CONSTANTS
    Second = 2
    Ticks = 4
    Days = 3
    EmptyTick = 2
    Schedules <- SomeSchedules
    PunctualPolls = TRUE
    MaxTicks = 13
    MaxChanges = 1
PROPERTIES
    OneOffDispensed
CHECK_DEADLOCK FALSE
