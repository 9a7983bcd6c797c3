SPECIFICATION FairSpec
CONSTANTS
    Nodes <- MCNodes
    Lists <- MCLists
    RetryCount = 1
    MaxQueries = 2
INVARIANT ListsExact
INVARIANT AnswerOnce
PROPERTY QueryEndsIfWatched
CHECK_DEADLOCK FALSE
