\* Callers that reset accounts, set whole storages and copy in the middle of a transaction.
SPECIFICATION Spec
CONSTANTS
    Key = {k}
    Word = {zero, v}
    Zero = zero
    Set = v
    Code = {nocode}
    NoCode = nocode
    Nil = nil
    Addr = {a}
    Ripemd = ripemd
    Warm = {w}
    Slot = {}
    TransientKey = {}
    TxHash = {notx}
    NoTx = notx
    Preimage = {}
    Gas = {}
    MaxLogs = 0
    Amount = {}
    MaxBalance = 0
    Nonce = {2}
    Genesis <- MCFundedGenesis
    Env = {"bareReset", "setStorage", "copyMidTx"}
    MaxJournal = 2
    MaxRevisionId = 1
INVARIANTS
    TypeOK
    
    RevertFindsObject
    
