\* Two account tries with shared accounts and storage.
SPECIFICATION Spec
CONSTANTS
    stleaf = stleaf
    stroot = stroot
    acct1 = acct1
    acct2 = acct2
    acct3 = acct3
    root1 = root1
    root2 = root2
    Hash = {stleaf, stroot, acct1, acct2, acct3, root1, root2}
    Meta = meta
    Nil = nil
    Edge <- MCEdge
    StorageRoot <- MCStorageRoot
    Disk = {acct3}
    Roots = {root1, root2}
    Batches <- MCBatches
    CountLimit = 2
    MaxRefs <- MCMaxRefs
    Reader = {r}
    Wanted = {stleaf, acct3}
INVARIANTS
    DatabaseInv
    FlushListLinked
PROPERTIES
    StoreSpec
    ReadsFindReferenced
    Progress
