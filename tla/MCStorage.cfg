\* One account with one slot, with or without a prefetcher.
SPECIFICATION HSpec
CONSTANTS
    Key = {k}
    Word = {zero, v}
    Zero = zero
    Set = v
    Code = {nocode}
    NoCode = nocode
    Nil = nil
    Addr = {a}
    Ripemd = ripemd
    Warm = {}
    Slot = {}
    TransientKey = {}
    TxHash = {notx}
    NoTx = notx
    Preimage = {}
    Gas = {}
    MaxLogs = 0
    Amount = {}
    MaxBalance = 0
    Nonce = {}
    Genesis <- MCTwoGenesis
    Env = {"prefetch"}
    MaxJournal = 3
    MaxRevisionId = 1
INVARIANTS
    StorageCoherent
    RevertRestores
PROPERTIES
    PrefetchTransparent
    RootCommitsView
    CopyPreservesView
