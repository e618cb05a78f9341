----------------------------- MODULE MCStateDB -----------------------------
(* Instances of StateDB for TLC.                                           *)
EXTENDS StateDB, TLC

CONSTANT Set   \* a slot value other than Zero

\* An account with funds and, where the instance has slots, storage.
Funded ==
    [nonce |-> 1, balance |-> 1, code |-> NoCode, root |-> [k \in Key |-> Set]]

\* An account that exists and is empty, as there were before EIP-158.
EmptyAccount == NewAccount

\* Every account is absent or empty.
MCEmptyGenesis == [Addr -> {Nil, EmptyAccount}]

\* Every account is absent or funded.
MCTwoGenesis == [Addr -> {Nil, Funded}]

\* One trie with accounts to work on.
MCFundedGenesis == {[a \in Addr |-> Funded]}

\* No account exists.
MCNoGenesis == {[a \in Addr |-> Nil]}

\* The accounts of a uniform genesis without RIPEMD are interchangeable.
AddrSymmetry == Permutations(Addr)
=============================================================================
