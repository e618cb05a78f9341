\* One account with one slot; reads of the database may fail.
SPECIFICATION Spec
CONSTANTS
    Key = {k}
    Word = {zero, v}
    Zero = zero
    Set = v
    Code = {nocode}
    NoCode = nocode
    Nil = nil
    Addr = {a}
    Ripemd = ripemd
    Warm = {}
    Slot = {}
    TransientKey = {}
    TxHash = {notx}
    NoTx = notx
    Preimage = {}
    Gas = {}
    MaxLogs = 0
    Amount = {}
    MaxBalance = 0
    Nonce = {}
    Genesis <- MCTwoGenesis
    Env = {"faults"}
    MaxJournal = 2
    MaxRevisionId = 1
INVARIANTS
    NothingLost
    OriginCoherent
PROPERTIES
    NoCreationOverAccount
