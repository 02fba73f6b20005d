SPECIFICATION FairSpec
CONSTANT MaxTurns = 4
INVARIANT NewestHoldOwns
PROPERTIES OnlyNewestCommits EveryHoldConcludes
CHECK_DEADLOCK FALSE
