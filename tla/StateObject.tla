---------------------------- MODULE StateObject ----------------------------
(***************************************************************************)
(* The account object of trie_by_cid/state/state_object.go: the account    *)
(* data and three layers of storage cache in front of its storage trie.    *)
(*                                                                         *)
(* Pure operators: an operator takes an object and returns the object the  *)
(* method leaves behind.  Go's maps are total functions in which Nil marks *)
(* an absent key.  A trie is represented by its content and a root hash by *)
(* the content it commits to, so "the root of tr" is tr itself.  Contract  *)
(* code is represented by its hash: the loaded bytes are a function of it. *)
(***************************************************************************)
EXTENDS Integers

CONSTANTS
    Key,       \* storage slots
    Word,      \* values of a slot
    Zero,      \* common.Hash{}, the value of a slot that is not set
    Code,      \* contract codes
    NoCode,    \* types.EmptyCodeHash
    Nil        \* an absent map entry or a nil pointer

\* The contents of a storage trie; the root hash of each is the trie itself.
Slots == [Key -> Word]

\* type Storage: a cache of slots.
Cache == [Key -> Word \cup {Nil}]

\* types.StateAccount, the leaf of the account trie.
Account == [nonce : Nat, balance : Int, code : Code, root : Slots]

Object ==
    [nonce          : Nat,
     balance        : Int,
     code           : Code,
     root           : Slots,
     trie           : Slots \cup {Nil},   \* Nil until getTrie opens it
     originStorage  : Cache,
     pendingStorage : Cache,
     dirtyStorage   : Cache,
     suicided       : BOOLEAN,
     deleted        : BOOLEAN]

ASSUME ConstantsAssumption ==
    /\ Zero \in Word
    /\ NoCode \in Code
    /\ Nil \notin Word
    /\ Nil \notin Slots
    /\ Nil \notin Account
    /\ Nil \notin Object

EmptyRoot == [k \in Key |-> Zero]

NoStorage == [k \in Key |-> Nil]

\* types.StateAccount{} once newObject has filled in its defaults.
NewAccount == [nonce |-> 0, balance |-> 0, code |-> NoCode, root |-> EmptyRoot]

newObject(data) ==
    [nonce          |-> data.nonce,
     balance        |-> data.balance,
     code           |-> data.code,
     root           |-> data.root,
     trie           |-> Nil,
     originStorage  |-> NoStorage,
     pendingStorage |-> NoStorage,
     dirtyStorage   |-> NoStorage,
     suicided       |-> FALSE,
     deleted        |-> FALSE]

\* The account data s.data, which updateStateObject encodes into the trie.
data(o) ==
    [nonce |-> o.nonce, balance |-> o.balance, code |-> o.code, root |-> o.root]

empty(o) == o.nonce = 0 /\ o.balance = 0 /\ o.code = NoCode

\* getTrie: the storage trie, opened at the account's root on first access.
getTrie(o) == IF o.trie = Nil THEN o.root ELSE o.trie

-----------------------------------------------------------------------------
(* Reading a slot.                                                         *)

\* GetCommittedState answers from a cache, or knows the slot is empty because
\* the account was destructed in this block; otherwise it reads the trie.
NeedsTrie(o, destructed, k) ==
    /\ o.pendingStorage[k] = Nil
    /\ o.originStorage[k] = Nil
    /\ ~destructed

CommittedValue(o, destructed, k) ==
    IF o.pendingStorage[k] # Nil THEN o.pendingStorage[k]
    ELSE IF o.originStorage[k] # Nil THEN o.originStorage[k]
    ELSE IF destructed THEN Zero
    ELSE getTrie(o)[k]

\* The object after a successful GetCommittedState: what came from the trie
\* is cached in originStorage.
Cached(o, destructed, k) ==
    IF NeedsTrie(o, destructed, k)
    THEN [o EXCEPT !.trie = getTrie(o), !.originStorage[k] = getTrie(o)[k]]
    ELSE o

\* GetState: a slot written in this transaction hides the committed value.
StateValue(o, destructed, k) ==
    IF o.dirtyStorage[k] # Nil THEN o.dirtyStorage[k]
    ELSE CommittedValue(o, destructed, k)

-----------------------------------------------------------------------------
(* Flushing.                                                               *)

\* finalise: at the end of a transaction dirty slots become pending ones.
finalise(o) ==
    [o EXCEPT !.pendingStorage =
                  [k \in Key |-> IF o.dirtyStorage[k] # Nil
                                 THEN o.dirtyStorage[k] ELSE o.pendingStorage[k]],
              !.dirtyStorage = NoStorage]

\* Reading a missing key of a Go map yields the zero value.
OriginOrZero(o, k) == IF o.originStorage[k] = Nil THEN Zero ELSE o.originStorage[k]

\* Mutant of Changed: a slot that is cleared is skipped.
ChangedNonZero(o) ==
    {k \in Key : o.pendingStorage[k] \notin {Nil, Zero, OriginOrZero(o, k)}}

\* The pending slots updateTrie does not skip as no-ops.
Changed(o) ==
    {k \in Key : o.pendingStorage[k] # Nil /\ o.pendingStorage[k] # OriginOrZero(o, k)}

\* Mutant of Written: originStorage is not brought up to date.
WrittenStaleOrigin(o, ks, written) ==
    [o EXCEPT !.trie = [k \in Key |-> IF k \in written THEN o.pendingStorage[k]
                                      ELSE getTrie(o)[k]]]

\* The loop of updateTrie over the slots in ks; written are those whose trie
\* update was successful (originStorage is assigned before the trie is).
Written(o, ks, written) ==
    [o EXCEPT !.originStorage =
                  [k \in Key |-> IF k \in ks THEN o.pendingStorage[k]
                                 ELSE o.originStorage[k]],
              !.trie =
                  [k \in Key |-> IF k \in written THEN o.pendingStorage[k]
                                 ELSE getTrie(o)[k]]]

\* updateTrie when no read of the database fails.
updateTrie(obj) ==
    LET o == finalise(obj) IN
    IF o.pendingStorage = NoStorage THEN o
    ELSE [Written(o, Changed(o), Changed(o)) EXCEPT !.pendingStorage = NoStorage]

\* updateRoot: the account's root follows its trie if one is open.
updateRoot(obj) == LET o == updateTrie(obj) IN [o EXCEPT !.root = getTrie(o)]

\* What updateRoot may leave behind when a read fails: the trie could not be
\* opened, or the write of one slot failed after some others (the map is
\* walked in any order).  The pending slots and the root stay as they are.
updateRootFailed(obj) ==
    LET o == finalise(obj) IN
    IF o.pendingStorage = NoStorage THEN {}
    ELSE (IF o.trie = Nil THEN {o} ELSE {})
         \cup UNION {{Written(o, done \cup {k}, done) : k \in Changed(o) \ done} :
                       done \in SUBSET Changed(o)}
=============================================================================
