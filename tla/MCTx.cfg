\* Refunds, logs, preimages, transient storage and access list.
SPECIFICATION HSpec
CONSTANTS
    Key = {}
    Word = {zero, v}
    Zero = zero
    Set = v
    Code = {nocode}
    NoCode = nocode
    Nil = nil
    Addr = {}
    Ripemd = ripemd
    Warm = {w, x}
    Slot = {s, t}
    TransientKey = {k}
    TxHash = {notx, tx}
    NoTx = notx
    Preimage = {h}
    Gas = {1}
    MaxLogs = 2
    Amount = {}
    MaxBalance = 0
    Nonce = {}
    Genesis <- MCNoGenesis
    Env = {}
    MaxJournal = 5
    MaxRevisionId = 2
CONSTRAINT TxBounds
INVARIANTS
    AccessListSound
    RevisionsOrdered
    CountersExact
    RevertRestores
