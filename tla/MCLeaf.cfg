\* One account, which is RIPEMD, with one slot.
SPECIFICATION HSpec
CONSTANTS
    Key = {key}
    Word = {zero, v}
    Zero = zero
    Set = v
    Code = {nocode}
    NoCode = nocode
    Nil = nil
    Addr = {ripemd}
    Ripemd = ripemd
    Warm = {}
    Slot = {}
    TransientKey = {}
    TxHash = {notx}
    NoTx = notx
    Preimage = {}
    Gas = {}
    MaxLogs = 1
    Amount = {0}
    MaxBalance = 1
    Nonce = {}
    Rows <- MCRows
    Faults = TRUE
    MaxJournal = 3
    MaxRevisionId = 1
CONSTRAINT Bounded
VIEW WithoutUnread
INVARIANTS
    LeafInv
    LeafRevertRestores
PROPERTIES
    CopyPreservesView
