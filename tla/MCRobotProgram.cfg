\* Every task may stop, and the process may crash: the system may really stop.
CONSTANT Moods <- MCMoods
SPECIFICATION ProgFairSpec
INVARIANTS GivesBack StagesGoAsTheyCame MiddlewareIsThere
PROPERTIES EachStopIsHeard ImplementsTasks
CHECK_DEADLOCK FALSE
