---------------------------- MODULE LeafStateDB ----------------------------
(***************************************************************************)
(* StateDB of direct_by_leaf: the same interface and the same journal as   *)
(* trie_by_cid/state, but accounts and slots are read with SQL from the    *)
(* state of one block, and nothing is ever hashed or written back.         *)
(*                                                                         *)
(* Journal, revisions, refunds, logs, preimages, access list and transient *)
(* storage are copies of the code of the other package and are taken from  *)
(* TxState.  Accounts, objects and the reverts of their changes differ and *)
(* are defined here.  The error fields dbErr of StateDB and of the objects *)
(* are set and never read (no method returns them), so they are left out.  *)
(***************************************************************************)
EXTENDS TxState

CONSTANTS
    Rows,        \* contents the database may have at the block
    Amount,      \* amounts of AddBalance, SubBalance and SetBalance
    MaxBalance,  \* bound: the balance of an account
    Nonce,       \* values of SetNonce
    Faults       \* whether a query may fail

\* An account row and the slots get_storage_at_by_hash finds for it.  A slot
\* without a row and a removed one both read as zero.
Row == [nonce : Nat, balance : Int, code : Code, slots : Slots]

LeafObject ==
    [nonce          : Nat,
     balance        : Int,
     code           : Code,
     originStorage  : Cache,
     pendingStorage : Cache,
     dirtyStorage   : Cache,
     fakeStorage    : Slots \cup {Nil},   \* a missing key reads as zero
     suicided       : BOOLEAN,
     deleted        : BOOLEAN]

ASSUME LeafAssumption ==
    /\ Rows \subseteq [Addr -> Row \cup {Nil}]
    /\ Nil \notin Row
    /\ Nil \notin LeafObject
    /\ Amount \subseteq Nat
    /\ MaxBalance \in Nat
    /\ Nonce \subseteq Nat
    /\ Faults \in BOOLEAN

VARIABLES
    database,              \* the rows at s.originBlockHash
    stateObjects,          \* s.stateObjects
    stateObjectsPending,   \* s.stateObjectsPending
    stateObjectsDirty,     \* s.stateObjectsDirty
    stateObjectsDestruct,  \* s.stateObjectsDestruct
    failed                 \* history: a query for an existing row has failed

leafVars == <<database, stateObjects, stateObjectsPending, stateObjectsDirty,
              stateObjectsDestruct, failed>>

vars == <<journalVars, txVars, leafVars>>

TypeOK ==
    /\ TxTypeOK
    /\ journal.dirties \in [Addr -> Int]
    /\ database \in [Addr -> Row \cup {Nil}]
    /\ stateObjects \in [Addr -> LeafObject \cup {Nil}]
    /\ stateObjectsPending \in SUBSET Addr
    /\ stateObjectsDirty \in SUBSET Addr
    /\ stateObjectsDestruct \in SUBSET Addr
    /\ failed \in BOOLEAN

\* New: nothing is loaded yet.
New ==
    /\ database \in Rows
    /\ stateObjects = [a \in Addr |-> Nil]
    /\ stateObjectsPending = {}
    /\ stateObjectsDirty = {}
    /\ stateObjectsDestruct = {}
    /\ failed = FALSE

Init == JournalInit /\ TxInit /\ New

-----------------------------------------------------------------------------
(* The object.                                                             *)

\* types.StateAccount{} as newObject completes it.
NoRow == [nonce |-> 0, balance |-> 0, code |-> NoCode]

newLeafObject(row) ==
    [nonce          |-> row.nonce,
     balance        |-> row.balance,
     code           |-> row.code,
     originStorage  |-> NoStorage,
     pendingStorage |-> NoStorage,
     dirtyStorage   |-> NoStorage,
     fakeStorage    |-> Nil,
     suicided       |-> FALSE,
     deleted        |-> FALSE]

emptyObject(o) == o.nonce = 0 /\ o.balance = 0 /\ o.code = NoCode

\* StorageValue: an account without a row, or with a removed one, has no slots.
StorageValue(a, k) == IF database[a] = Nil THEN Zero ELSE database[a].slots[k]

\* The value GetCommittedState returns.  pendingStorage is not consulted, and
\* neither is the destruct set.  A failed query yields the zero hash.
CommittedOf(o, a, k, ok) ==
    IF o.fakeStorage # Nil THEN o.fakeStorage[k]
    ELSE IF o.originStorage[k] # Nil THEN o.originStorage[k]
    ELSE IF ok THEN StorageValue(a, k)
    ELSE Zero

\* GetState.
StateOf(o, a, k, ok) ==
    IF o.fakeStorage = Nil /\ o.dirtyStorage[k] # Nil THEN o.dirtyStorage[k]
    ELSE CommittedOf(o, a, k, ok)

\* GetCommittedState queries the database.
Queries(o, k) == o.fakeStorage = Nil /\ o.originStorage[k] = Nil

\* finalise.
finaliseObject(o) ==
    [o EXCEPT !.pendingStorage =
                  [k \in Key |-> IF o.dirtyStorage[k] # Nil
                                 THEN o.dirtyStorage[k] ELSE o.pendingStorage[k]],
              !.dirtyStorage = NoStorage]

\* deepCopy: fakeStorage is not copied.
deepCopy(o) == [o EXCEPT !.fakeStorage = Nil]

-----------------------------------------------------------------------------
(* The methods StateDB's methods are made of, on the fields they change.   *)

State == [objs |-> stateObjects, destruct |-> stateObjectsDestruct,
          journal |-> journal, failed |-> failed]

\* Whether the queries of a method are answered: for the object, for the
\* object again in createObject if the first was not, and for a slot.  (Bound:
\* not both of an object and a slot fail in one call.)
Answers ==
    {io \in [1..3 -> BOOLEAN] :
        /\ io[1] => io[2]
        /\ io[1] \/ io[3]
        /\ Faults \/ (io[1] /\ io[3])}

\* An error and an absent row are both reported as no object.
getDeletedStateObject(s, a, ok) ==
    IF s.objs[a] # Nil \/ database[a] = Nil THEN s
    ELSE IF ~ok THEN [s EXCEPT !.failed = TRUE]
    ELSE [s EXCEPT !.objs[a] = newLeafObject(database[a])]

\* getStateObject.
Live(objs, a) == objs[a] # Nil /\ ~objs[a].deleted

\* Mutant of createObject: the object that is replaced is not kept.
createObjectAlways(s, a, ok) ==
    [getDeletedStateObject(s, a, ok) EXCEPT
        !.objs[a] = newLeafObject(NoRow),
        !.journal = append(@, [kind |-> "createObject", account |-> a])]

createObject(s, a, ok) ==
    LET l    == getDeletedStateObject(s, a, ok)
        prev == l.objs[a]
    IN [l EXCEPT
           !.objs[a] = newLeafObject(NoRow),
           !.destruct = IF prev = Nil THEN @ ELSE @ \cup {a},
           !.journal = append(@,
               IF prev = Nil THEN [kind |-> "createObject", account |-> a]
               ELSE [kind |-> "resetObject", account |-> a, prev |-> prev,
                     prevdestruct |-> a \in l.destruct])]

getOrNewStateObject(s, a, io) ==
    LET l == getDeletedStateObject(s, a, io[1])
    IN IF Live(l.objs, a) THEN l ELSE createObject(l, a, io[2])

\* A setter of the object: journal the entry, then assign.
Change(s, a, e, o) == [s EXCEPT !.journal = append(@, e), !.objs[a] = o]

ChangeBalance(s, a, amount) ==
    Change(s, a, [kind |-> "balance", account |-> a, prev |-> s.objs[a].balance],
           [s.objs[a] EXCEPT !.balance = amount])

ChangeNonce(s, a, nonce) ==
    Change(s, a, [kind |-> "nonce", account |-> a, prev |-> s.objs[a].nonce],
           [s.objs[a] EXCEPT !.nonce = nonce])

touch(s, a) ==
    LET j == append(s.journal, [kind |-> "touch", account |-> a])
    IN [s EXCEPT !.journal = IF a = Ripemd THEN dirty(j, a) ELSE j]

\* A slot that was read is cached, unless the query failed.
LoadSlot(s, a, k, ok) ==
    LET o == s.objs[a] IN
    IF ~Queries(o, k) THEN s
    ELSE IF ~ok THEN [s EXCEPT !.failed = TRUE]
    ELSE [s EXCEPT !.objs[a].originStorage[k] = StorageValue(a, k)]

ReadState(s, a, k, ok) ==
    IF s.objs[a].dirtyStorage[k] # Nil THEN s ELSE LoadSlot(s, a, k, ok)

\* SetState of the object.  Fake storage is written without a journal entry.
ChangeState(s, a, k, value, ok) ==
    LET o    == s.objs[a]
        prev == StateOf(o, a, k, ok)
        r    == ReadState(s, a, k, ok)
    IN IF o.fakeStorage # Nil THEN [s EXCEPT !.objs[a].fakeStorage[k] = value]
       ELSE IF prev = value THEN r
       ELSE Change(r, a, [kind |-> "storage", account |-> a, key |-> k, prevalue |-> prev],
                   [r.objs[a] EXCEPT !.dirtyStorage[k] = value])

\* SetStorage of the object, for storage with one slot.
FakeStorage(o, k, value) ==
    [o EXCEPT !.fakeStorage = [IF @ = Nil THEN EmptyRoot ELSE @ EXCEPT ![k] = value]]

\* A caller that resets an account changes something else in it too, as the
\* EVM does when it creates a contract: a reset alone leaves no mark in dirties.
NoBareReset(j) ==
    \A i \in 1..Len(j.entries) :
        j.entries[i].kind = "resetObject" => j.dirties[j.entries[i].account] # 0

\* The end of a method.
Put(s) ==
    /\ Idle
    /\ NoBareReset(s.journal)
    /\ Len(s.journal.entries) <= MaxJournal
    /\ stateObjects' = s.objs
    /\ stateObjectsDestruct' = s.destruct
    /\ journal' = s.journal
    /\ failed' = s.failed
    /\ UNCHANGED <<database, stateObjectsPending, stateObjectsDirty,
                   validRevisions, nextRevisionId, reverting>>

-----------------------------------------------------------------------------
(* Getters.                                                                *)

\* Exist, Empty, GetBalance, GetNonce, GetCode, GetCodeSize, GetCodeHash and
\* HasSuicided: the account is loaded.  (A code that cannot be read is asked
\* for again: contents are known by their hash.)
GetAccount(a, io) == Put(getDeletedStateObject(State, a, io[1]))

GetState(a, k, io) ==
    LET s == getDeletedStateObject(State, a, io[1])
    IN Put(IF Live(s.objs, a) THEN ReadState(s, a, k, io[3]) ELSE s)

GetCommittedState(a, k, io) ==
    LET s == getDeletedStateObject(State, a, io[1])
    IN Put(IF Live(s.objs, a) THEN LoadSlot(s, a, k, io[3]) ELSE s)

(* Setters.                                                                *)

AddBalance(a, amount, io) ==
    LET s == getOrNewStateObject(State, a, io)
        o == s.objs[a]
    IN /\ o.balance + amount <= MaxBalance
       /\ Put(IF amount # 0 THEN ChangeBalance(s, a, o.balance + amount)
              ELSE IF emptyObject(o) THEN touch(s, a)
              ELSE s)

\* The EVM checks that the sender can pay.
SubBalance(a, amount, io) ==
    LET s == getOrNewStateObject(State, a, io)
        o == s.objs[a]
    IN /\ amount <= o.balance
       /\ Put(IF amount # 0 THEN ChangeBalance(s, a, o.balance - amount) ELSE s)

SetBalance(a, amount, io) == Put(ChangeBalance(getOrNewStateObject(State, a, io), a, amount))

SetNonce(a, nonce, io) == Put(ChangeNonce(getOrNewStateObject(State, a, io), a, nonce))

SetCode(a, code, io) ==
    LET s == getOrNewStateObject(State, a, io)
        o == s.objs[a]
    IN Put(Change(s, a, [kind |-> "code", account |-> a, prev |-> o.code],
                  [o EXCEPT !.code = code]))

SetState(a, k, value, io) ==
    Put(ChangeState(getOrNewStateObject(State, a, io), a, k, value, io[3]))

\* The destruct mark is not journaled either.
SetStorage(a, k, value, io) ==
    LET s == getOrNewStateObject([State EXCEPT !.destruct = @ \cup {a}], a, io)
    IN Put([s EXCEPT !.objs[a] = FakeStorage(@, k, value)])

Suicide(a, io) ==
    LET s == getDeletedStateObject(State, a, io[1])
        o == s.objs[a]
    IN Put(IF ~Live(s.objs, a) THEN s
           ELSE Change(s, a, [kind |-> "suicide", account |-> a,
                              prev |-> o.suicided, prevbalance |-> o.balance],
                       [o EXCEPT !.suicided = TRUE, !.balance = 0]))

\* The balance of the account that is overwritten is carried over.
Created(a, io) ==
    LET prev == getDeletedStateObject(State, a, io[1]).objs[a]
        s    == createObject(State, a, io[1])
    IN IF prev # Nil /\ ~prev.deleted
       THEN [s EXCEPT !.objs[a].balance = prev.balance] ELSE s

CreateAccount(a, io) == Put(Created(a, io))

\* The EVM's contract creation: CreateAccount, then the nonce becomes 1.
CreateContract(a, io) == Put(ChangeNonce(Created(a, io), a, 1))

AccountCall(a, io) ==
    \/ GetAccount(a, io)
    \/ \E k \in Key : GetState(a, k, io) \/ GetCommittedState(a, k, io)
    \/ \E amount \in Amount :
          AddBalance(a, amount, io) \/ SubBalance(a, amount, io) \/ SetBalance(a, amount, io)
    \/ \E nonce \in Nonce : SetNonce(a, nonce, io)
    \/ \E code \in Code : SetCode(a, code, io)
    \/ \E k \in Key, value \in Word : SetState(a, k, value, io) \/ SetStorage(a, k, value, io)
    \/ Suicide(a, io)
    \/ CreateAccount(a, io)
    \/ CreateContract(a, io)

(* The rest of the transaction state.                                      *)

LogsAndRefund ==
    \/ AddLog
    \/ \E hash \in Preimage : AddPreimage(hash)
    \/ \E gas \in Gas : AddRefund(gas) \/ SubRefund(gas)

TransientWrites ==
    \E w \in Warm, key \in TransientKey, value \in Word : SetTransientState(w, key, value)

AccessListCalls ==
    \E w \in Warm : AddAddressToAccessList(w)
                    \/ \E slot \in Slot : AddSlotToAccessList(w, slot)

Prepares ==
    \E addrs \in SUBSET Warm \ {{}}, berlin \in BOOLEAN :
        \E tuple \in {<<>>} \cup (addrs \X Slot) : Prepare(addrs, berlin, tuple)

SetsTxContext == \E t \in TxHash : SetTxContext(t)

Snapshots == Snapshot

RevertsToSnapshot == \E id \in 0..(MaxRevisionId - 1) : RevertToSnapshot(id)

-----------------------------------------------------------------------------
(* The revert methods, one loop iteration of journal.revert each.          *)

Undo(kind) ==
    /\ Undoing
    /\ LastEntry.kind = kind
    /\ journal' = pop(journal)
    /\ UNCHANGED <<validRevisions, nextRevisionId, reverting>>
    /\ UNCHANGED <<database, stateObjectsPending, stateObjectsDestruct, failed>>

UndoCreateObject ==
    /\ Undo("createObject")
    /\ stateObjects' = [stateObjects EXCEPT ![LastEntry.account] = Nil]
    /\ stateObjectsDirty' = stateObjectsDirty \ {LastEntry.account}

\* The destruct mark stays.
UndoResetObject ==
    /\ Undo("resetObject")
    /\ stateObjects' = [stateObjects EXCEPT ![LastEntry.account] = LastEntry.prev]
    /\ UNCHANGED stateObjectsDirty

\* The object is looked up again, but it is there as long as the entry is.
UndoSuicide ==
    /\ Undo("suicide")
    /\ stateObjects' =
          IF Live(stateObjects, LastEntry.account)
          THEN [stateObjects EXCEPT ![LastEntry.account].suicided = LastEntry.prev,
                                    ![LastEntry.account].balance = LastEntry.prevbalance]
          ELSE stateObjects
    /\ UNCHANGED stateObjectsDirty

UndoTouch ==
    /\ Undo("touch")
    /\ UNCHANGED <<stateObjects, stateObjectsDirty>>

UndoField(kind, o) ==
    /\ Undo(kind)
    /\ Live(stateObjects, LastEntry.account)
    /\ stateObjects' = [stateObjects EXCEPT ![LastEntry.account] = o]
    /\ UNCHANGED stateObjectsDirty

LastObject == stateObjects[LastEntry.account]

UndoBalance == UndoField("balance", [LastObject EXCEPT !.balance = LastEntry.prev])

UndoNonce == UndoField("nonce", [LastObject EXCEPT !.nonce = LastEntry.prev])

UndoCode == UndoField("code", [LastObject EXCEPT !.code = LastEntry.prev])

\* Mutant of UndoStorage: the slot is dropped from the cache, not set back.
UndoStorageDrops ==
    UndoField("storage", [LastObject EXCEPT !.dirtyStorage[LastEntry.key] = Nil])

UndoStorage ==
    UndoField("storage", [LastObject EXCEPT !.dirtyStorage[LastEntry.key] = LastEntry.prevalue])

LeafUndo ==
    \/ UndoCreateObject \/ UndoResetObject \/ UndoSuicide \/ UndoTouch
    \/ UndoBalance \/ UndoNonce \/ UndoCode \/ UndoStorage

RevertStep ==
    \/ TxUndo /\ UNCHANGED leafVars
    \/ LeafUndo /\ UNCHANGED txVars
    \/ RevertDone /\ UNCHANGED <<txVars, leafVars>>

-----------------------------------------------------------------------------
\* The objects Finalise visits.
Finalised == {a \in DirtyAccounts : stateObjects[a] # Nil}

Deletes(o, deleteEmptyObjects) == o.suicided \/ (deleteEmptyObjects /\ emptyObject(o))

clearJournalAndRefund ==
    /\ IF journal.entries # <<>>
       THEN journal' = newJournal /\ refund' = 0
       ELSE UNCHANGED <<journal, refund>>
    /\ validRevisions' = <<>>
    /\ UNCHANGED <<nextRevisionId, reverting>>

Finalise(deleteEmptyObjects) ==
    LET gone == {a \in Finalised : Deletes(stateObjects[a], deleteEmptyObjects)}
    IN /\ Idle
       /\ stateObjects' =
             [a \in Addr |-> IF a \in gone THEN [stateObjects[a] EXCEPT !.deleted = TRUE]
                             ELSE IF a \in Finalised THEN finaliseObject(stateObjects[a])
                             ELSE stateObjects[a]]
       /\ stateObjectsDestruct' = stateObjectsDestruct \cup gone
       /\ stateObjectsPending' = stateObjectsPending \cup Finalised
       /\ stateObjectsDirty' = stateObjectsDirty \cup Finalised
       /\ clearJournalAndRefund
       /\ UNCHANGED <<database, failed, logs, logSize, thash, preimages, accessList,
                      transientStorage>>

\* Mutant of Copied: objects of earlier transactions are left behind.
CopiedJournal == Finalised

Copied == Finalised \cup stateObjectsPending \cup stateObjectsDirty

\* Copy, and from here on the copy is used.
Copy ==
    /\ Idle
    /\ journal' = newJournal
    /\ validRevisions' = <<>>
    /\ nextRevisionId' = 0
    /\ stateObjects' =
          [a \in Addr |-> IF a \in Copied THEN deepCopy(stateObjects[a]) ELSE Nil]
    /\ stateObjectsPending' = stateObjectsPending \cup Finalised
    /\ stateObjectsDirty' = stateObjectsDirty \cup Finalised
    /\ thash' = NoTx
    /\ UNCHANGED <<reverting, database, stateObjectsDestruct, failed>>
    /\ UNCHANGED <<refund, logs, logSize, preimages, accessList, transientStorage>>

TxSetters ==
    LogsAndRefund \/ TransientWrites \/ AccessListCalls \/ Prepares \/ SetsTxContext

Next ==
    \/ TxSetters /\ UNCHANGED leafVars
    \/ (\E a \in Addr, io \in Answers : AccountCall(a, io)) /\ UNCHANGED txVars
    \/ (Snapshots \/ RevertsToSnapshot) /\ UNCHANGED <<txVars, leafVars>>
    \/ RevertStep
    \/ \E deleteEmptyObjects \in BOOLEAN : Finalise(deleteEmptyObjects)
    \/ Copy

Spec == Init /\ [][Next]_vars

-----------------------------------------------------------------------------
(* What a caller observes.                                                 *)

LeafView(o, a) ==
    [balance   |-> o.balance,
     nonce     |-> o.nonce,
     code      |-> o.code,
     suicided  |-> o.suicided,
     state     |-> [k \in Key |-> StateOf(o, a, k, TRUE)],
     committed |-> [k \in Key |-> CommittedOf(o, a, k, TRUE)]]

AccountView(a) ==
    IF Live(stateObjects, a) THEN LeafView(stateObjects[a], a)
    ELSE IF stateObjects[a] # Nil \/ database[a] = Nil THEN Nil
    ELSE LeafView(newLeafObject(database[a]), a)

\* The account has no fake storage: SetStorage is not journaled.
Genuine(a) == stateObjects[a] # Nil => stateObjects[a].fakeStorage = Nil

(***************************************************************************)
(* Copy dereferences stateObjects[addr] for every pending and every dirty  *)
(* address without a nil check, and the reverts of balance, nonce, code    *)
(* and storage changes dereference what getStateObject returns.  Although  *)
(* the revert of a creation removes an object from the live set, and a     *)
(* failed query makes an existing account look absent, both find objects.  *)
(***************************************************************************)
ObjectsFound ==
    /\ \A a \in stateObjectsPending \cup stateObjectsDirty : stateObjects[a] # Nil
    /\ Undoing /\ LastEntry.kind \in {"balance", "nonce", "code", "storage"}
          => Live(stateObjects, LastEntry.account)

\* The leaf StateDB in every state: its types and its objects.
LeafInv == TypeOK /\ ObjectsFound

(***************************************************************************)
(* Copy leaves the objects behind that are neither dirty nor pending, with *)
(* their cached slots, and still the copy reads like the original unless a *)
(* query has failed.                                                       *)
(***************************************************************************)
CopyPreservesView ==
    [][Copy /\ ~failed =>
          \A a \in Addr : Genuine(a) => AccountView(a)' = AccountView(a)]_vars

(***************************************************************************)
(* GetCommittedState says: "If we have a pending write or clean cached,    *)
(* return that".  A slot keeps its value when the transaction that wrote   *)
(* it ends, unless the account goes.                                       *)
(***************************************************************************)
PendingWritesReadBack ==
    [][\A d \in BOOLEAN : Finalise(d) =>
          \A a \in Addr :
              AccountView(a)' # Nil => AccountView(a)'.state = AccountView(a).state]_vars
=============================================================================
