\* Three keys, one of them a prefix of another; iterators over every trie.
SPECIFICATION ISpec
CONSTANTS
    small = small
    large = large
    Nibble = {0, 1}
    Value = {small, large}
    ValueSize <- MCValueSize
    Key <- MCKey
    NoValue = NoValue
    Start <- MCStart
INVARIANTS
    EncodingsInvertible
    
    TrieInv
    CommitsExact
    

    
