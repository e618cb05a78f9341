\* A slot that was written in an earlier transaction.
SPECIFICATION HSpec
CONSTANTS
    Key = {key}
    Word = {zero, v}
    Zero = zero
    Set = v
    Code = {nocode}
    NoCode = nocode
    Nil = nil
    Addr = {ripemd}
    Ripemd = ripemd
    Warm = {}
    Slot = {}
    TransientKey = {}
    TxHash = {notx}
    NoTx = notx
    Preimage = {}
    Gas = {}
    MaxLogs = 0
    Amount = {}
    MaxBalance = 1
    Nonce = {}
    Rows <- MCRows
    Faults = FALSE
    MaxJournal = 3
    MaxRevisionId = 0
CONSTRAINT Bounded
PROPERTIES
    PendingWritesReadBack
