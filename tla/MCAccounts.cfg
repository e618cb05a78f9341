\* One account, RIPEMD, without storage.
SPECIFICATION HSpec
CONSTANTS
    Key = {}
    Word = {zero}
    Zero = zero
    Set = zero
    Code = {nocode}
    NoCode = nocode
    Nil = nil
    Addr = {ripemd}
    Ripemd = ripemd
    Warm = {}
    Slot = {}
    TransientKey = {}
    TxHash = {notx}
    NoTx = notx
    Preimage = {}
    Gas = {}
    MaxLogs = 0
    Amount = {0, 1}
    MaxBalance = 1
    Nonce = {}
    Genesis <- MCEmptyGenesis
    Env = {}
    MaxJournal = 3
    MaxRevisionId = 2
INVARIANTS
    
    SuicidedDeleted
    RevertRestores
PROPERTIES
    RootCommitsView
