\* An account is reset and nothing else in it changes.
SPECIFICATION Spec
CONSTANTS
    Key = {k}
    Word = {zero, v}
    Zero = zero
    Set = v
    Code = {nocode}
    NoCode = nocode
    Nil = nil
    Addr = {a}
    Ripemd = ripemd
    Warm = {}
    Slot = {}
    TransientKey = {}
    TxHash = {notx}
    NoTx = notx
    Preimage = {}
    Gas = {}
    MaxLogs = 0
    Amount = {}
    MaxBalance = 0
    Nonce = {}
    Genesis <- MCTwoGenesis
    Env = {"bareReset"}
    MaxJournal = 2
    MaxRevisionId = 1
INVARIANTS
    NothingLost
