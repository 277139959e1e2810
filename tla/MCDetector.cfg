SPECIFICATION FairSpec
CHECK_DEADLOCK FALSE
CONSTANTS
    None = None
    Events <- MCEvents
    Counts = {0, 1, 3, 10}
    Scores = {19, 20, 50, 80}
    TTL = 2
    Timeout = 1
    RedisWait = 1
INVARIANTS
    SeverityIsWorstAnswer
    TacticExplainsVerdict
    ScoreIsFresh
    ScoresWereSent
PROPERTIES
    DetectEnds
