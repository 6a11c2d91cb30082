CONSTANT Moods <- MCMoods
SPECIFICATION Spec
INVARIANTS AMoodIsReady
CHECK_DEADLOCK FALSE
