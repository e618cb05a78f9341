\* Two accounts whose creations, code changes and suicides interleave.
SPECIFICATION HSpec
CONSTANTS
    Key = {}
    Word = {zero}
    Zero = zero
    Set = zero
    Code = {nocode, code}
    NoCode = nocode
    Nil = nil
    Addr = {a, b}
    Ripemd = ripemd
    Warm = {}
    Slot = {}
    TransientKey = {}
    TxHash = {notx}
    NoTx = notx
    Preimage = {}
    Gas = {}
    MaxLogs = 0
    Amount = {}
    MaxBalance = 0
    Nonce = {}
    Genesis <- MCNoGenesis
    Env = {}
    MaxJournal = 2
    MaxRevisionId = 1
INVARIANTS
    NothingLost
    RevertRestores
SYMMETRY AddrSymmetry
