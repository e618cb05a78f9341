\* Two subfetchers that are retrieved, copied and closed.
SPECIFICATION FairSpec
CONSTANTS
    Trie = {t, u}
    x = x
    y = y
    Task = {x, y}
    Batch <- MCBatch
    MaxTasks = 4
    Calls = {"trie", "copy", "close"}
    NoTrie = notrie
INVARIANTS
    PrefetcherInv
PROPERTIES
    TasksKept
    NoLoadAfterAbort
    Progress
