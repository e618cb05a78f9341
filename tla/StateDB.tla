------------------------------ MODULE StateDB ------------------------------
(***************************************************************************)
(* StateDB of trie_by_cid/state: the composition of the accounts, the rest *)
(* of the transaction state and the journal they share.  A state of this   *)
(* specification is a StateDB between two method calls, except while       *)
(* reverting # 0: then it is inside journal.revert, whose loop body is one *)
(* step per entry.  StateDB is not safe for concurrent use, so no method   *)
(* runs while a revert does.                                               *)
(***************************************************************************)
EXTENDS TxState, Accounts

vars == <<journalVars, txVars, accountVars>>

TypeOK == JournalTypeOK /\ TxTypeOK /\ AccountsTypeOK

Init == JournalInit /\ TxInit /\ AccountsInit

-----------------------------------------------------------------------------
(* The end of a transaction.                                               *)

\* The objects Finalise visits: an address that RIPEMD's mark left behind may
\* have no object.
Finalised == {a \in DirtyAccounts : stateObjects[a] # Nil}

\* Mutant of Deletes: the suicide mark is ignored.
DeletesEmpty(o, deleteEmptyObjects) == deleteEmptyObjects /\ empty(o)

Deletes(o, deleteEmptyObjects) == o.suicided \/ (deleteEmptyObjects /\ empty(o))

FinalisedObject(o, deleteEmptyObjects) ==
    IF Deletes(o, deleteEmptyObjects) THEN [o EXCEPT !.deleted = TRUE] ELSE finalise(o)

FinalisedObjects(deleteEmptyObjects) ==
    [a \in Addr |-> IF a \in Finalised
                    THEN FinalisedObject(stateObjects[a], deleteEmptyObjects)
                    ELSE stateObjects[a]]

FinalisedDestruct(deleteEmptyObjects) ==
    stateObjectsDestruct \cup
        {a \in Finalised : Deletes(stateObjects[a], deleteEmptyObjects)}

clearJournalAndRefund ==
    /\ IF journal.entries # <<>>
       THEN journal' = newJournal /\ refund' = 0
       ELSE UNCHANGED <<journal, refund>>
    /\ validRevisions' = <<>>
    /\ UNCHANGED <<nextRevisionId, reverting>>

Finalise(deleteEmptyObjects) ==
    /\ Idle
    /\ stateObjects' = FinalisedObjects(deleteEmptyObjects)
    /\ stateObjectsDestruct' = FinalisedDestruct(deleteEmptyObjects)
    /\ stateObjectsPending' = stateObjectsPending \cup Finalised
    /\ stateObjectsDirty' = stateObjectsDirty \cup Finalised
    /\ clearJournalAndRefund
    /\ UNCHANGED <<originalRoot, trie, dbErr>>
    /\ UNCHANGED <<logs, logSize, thash, preimages, accessList, transientStorage>>

-----------------------------------------------------------------------------
(* IntermediateRoot: Finalise, then every pending object is written.       *)

\* deleteStateObject or updateStateObject, in the account trie base.
WrittenTrie(base, objs, addrs) ==
    [a \in Addr |-> IF a \notin addrs THEN base[a]
                    ELSE IF objs[a].deleted THEN Nil ELSE data(objs[a])]

\* Storage first: every pending object that is not deleted gets its new root.
Rooted(objs, addrs) ==
    [a \in Addr |-> IF a \in addrs /\ ~objs[a].deleted THEN updateRoot(objs[a]) ELSE objs[a]]

\* Mutant of FlushOutcome: the error of a failed write is not remembered.
FlushOutcomeSilent(base, objs, addrs, err) ==
    [objs |-> objs, trie |-> WrittenTrie(base, objs, addrs), err |-> FALSE]

\* The state after the two loops, when the accounts in addrs were written.
FlushOutcome(base, objs, addrs, err) ==
    [objs |-> objs, trie |-> WrittenTrie(base, objs, addrs), err |-> err]

\* The ways a failing read can make the two loops end: the storage of one
\* account is not flushed, or one account is not written.  (Bound: one failure
\* in a call.)  The error is remembered and the loops go on.
Flushed(base, objs, pending) ==
    LET rooted == Rooted(objs, pending)
    IN {FlushOutcome(base, rooted, pending, FALSE)}
       \cup (IF "faults" \notin Env THEN {} ELSE
             {FlushOutcome(base, rooted, pending \ {a}, TRUE) : a \in pending}
             \cup UNION {{FlushOutcome(base, [rooted EXCEPT ![a] = o], pending, TRUE) :
                            o \in updateRootFailed(objs[a])} :
                         a \in {b \in pending : ~objs[b].deleted}})

\* IntermediateRoot when the accounts are written to the trie base.
IntermediateRootOn(base, deleteEmptyObjects) ==
    LET pending == stateObjectsPending \cup Finalised
    IN /\ Idle
       /\ stateObjectsPending' = {}
       /\ clearJournalAndRefund
       /\ stateObjectsDirty' = stateObjectsDirty \cup Finalised
       /\ stateObjectsDestruct' = FinalisedDestruct(deleteEmptyObjects)
       /\ \E f \in Flushed(base, FinalisedObjects(deleteEmptyObjects), pending) :
             /\ stateObjects' = f.objs
             /\ trie' = f.trie
             /\ dbErr' = (dbErr \/ f.err)
       /\ UNCHANGED originalRoot
       /\ UNCHANGED <<logs, logSize, thash, preimages, accessList, transientStorage>>

\* Without a prefetcher the accounts are written to s.trie.
IntermediateRoot(deleteEmptyObjects) == IntermediateRootOn(trie, deleteEmptyObjects)

-----------------------------------------------------------------------------
\* Mutant of Copied: without copies of copies.
CopiedJournal == Finalised

\* The objects that Copy's three loops copy.
Copied == Finalised \cup stateObjectsPending \cup stateObjectsDirty

\* Copy, and from here on the copy is the StateDB that is used.  The journal
\* is not copied; the objects it mentions become pending and dirty instead.
\* What is neither is not copied: it can be read from the trie again.
Copy ==
    /\ Idle
    /\ journal.entries = <<>> \/ "copyMidTx" \in Env
    /\ ~dbErr \/ "copyAfterError" \in Env
    /\ journal' = newJournal
    /\ validRevisions' = <<>>
    /\ nextRevisionId' = 0
    /\ stateObjects' =
          [a \in Addr |-> IF a \in Copied THEN stateObjects[a] ELSE Nil]
    /\ stateObjectsPending' = stateObjectsPending \cup Finalised
    /\ stateObjectsDirty' = stateObjectsDirty \cup Finalised
    /\ thash' = NoTx
    /\ dbErr' = FALSE
    /\ UNCHANGED <<reverting, originalRoot, trie, stateObjectsDestruct>>
    /\ UNCHANGED <<refund, logs, logSize, preimages, accessList, transientStorage>>

-----------------------------------------------------------------------------
\* One iteration of the loop of journal.revert, or its end.
RevertStep ==
    \/ TxUndo /\ UNCHANGED accountVars
    \/ AccountUndo /\ UNCHANGED txVars
    \/ RevertDone /\ UNCHANGED <<txVars, accountVars>>

\* The methods that neither end a transaction nor copy.
Call ==
    \/ TxSetter /\ UNCHANGED accountVars
    \/ (\E a \in Addr, io \in Reads : AccountCall(a, io)) /\ UNCHANGED txVars
    \/ Snapshot /\ UNCHANGED <<txVars, accountVars>>
    \/ (\E id \in 0..(MaxRevisionId - 1) : RevertToSnapshot(id))
          /\ UNCHANGED <<txVars, accountVars>>
    \/ RevertStep

Next ==
    \/ Call
    \/ \E deleteEmptyObjects \in BOOLEAN :
          Finalise(deleteEmptyObjects) \/ IntermediateRoot(deleteEmptyObjects)
    \/ Copy

Spec == Init /\ [][Next]_vars

-----------------------------------------------------------------------------
(***************************************************************************)
(* The loops of IntermediateRoot and Copy dereference stateObjects[addr]   *)
(* for every pending or dirty address without a nil check.  Reverting the  *)
(* creation of an object removes it from the live set and from the dirty   *)
(* set but not from the pending set; still every address in either set has *)
(* an object, also after failed reads and after copies.                    *)
(***************************************************************************)
PendingLive == \A a \in stateObjectsPending \cup stateObjectsDirty : stateObjects[a] # Nil

(***************************************************************************)
(* The revert methods of the balance, nonce, code and storage changes      *)
(* dereference getStateObject's result, which is nil for an account that   *)
(* is absent or was deleted at the end of an earlier transaction.  When    *)
(* one of them runs, the object it changed is live, whatever resets and    *)
(* deletions lie between the change and its revert.                        *)
(***************************************************************************)
DerefKinds == {"balance", "nonce", "code", "storage"}

RevertFindsObject ==
    Undoing /\ LastEntry.kind \in DerefKinds => Live(stateObjects, LastEntry.account)

(***************************************************************************)
(* Why the two hold.  An account created in this transaction is neither    *)
(* pending nor dirty; and each change that needs its object is followed by *)
(* no further creation of the account, in which case the object is live,   *)
(* or first by a reset that kept a live predecessor to return to.          *)
(***************************************************************************)
Replaces(e, a) == e.kind \in {"createObject", "resetObject"} /\ e.account = a

CreatedNotPending(entries, addrs) ==
    \A i \in 1..Len(entries) : entries[i].kind = "createObject" => entries[i].account \notin addrs

Recoverable(entries, objs, i) ==
    LET a == entries[i].account IN
    \/ /\ Live(objs, a)
       /\ \A m \in (i + 1)..Len(entries) : ~Replaces(entries[m], a)
    \/ \E m \in (i + 1)..Len(entries) :
          /\ entries[m].kind = "resetObject"
          /\ entries[m].account = a
          /\ ~entries[m].prev.deleted
          /\ \A n \in (i + 1)..(m - 1) : ~Replaces(entries[n], a)

RevertChain(entries, objs) ==
    \A i \in 1..Len(entries) : entries[i].kind \in DerefKinds => Recoverable(entries, objs, i)

ObjectsRecoverable ==
    /\ CreatedNotPending(journal.entries, stateObjectsPending \cup stateObjectsDirty)
    /\ RevertChain(journal.entries, stateObjects)

(***************************************************************************)
(* Between calls, and while no failed read is on record, an account that   *)
(* the journal does not mark dirty and that is not pending reads the same  *)
(* from the trie as from the live object.  IntermediateRoot therefore      *)
(* returns the root of the state callers saw, Copy may leave such objects  *)
(* behind, and no write is lost between the journal, the pending set and   *)
(* the trie.                                                               *)
(***************************************************************************)
NothingLost ==
    Idle /\ ~dbErr =>
        \A a \in Addr \ (DirtyAccounts \cup stateObjectsPending) : AccountView(a) = TrieView(a)

(***************************************************************************)
(* No account is created over one that exists, unless an error is on       *)
(* record: to GetOrNewStateObject and createObject a failed lookup looks   *)
(* like an absent account, and the new object hides its balance, code and  *)
(* storage.                                                                *)
(***************************************************************************)
NoCreationOverAccount ==
    [][\A a \in Addr :
          /\ Len(journal'.entries) > Len(journal.entries)
          /\ journal'.entries[Len(journal.entries) + 1]
                = [kind |-> "createObject", account |-> a]
          /\ ~dbErr'
          => AccountView(a) = Nil]_vars

(***************************************************************************)
(* IntermediateRoot returns the root of the state callers see.  Whatever   *)
(* the journal, the caches, the pending set and the no-op checks decide to *)
(* write or to skip, afterwards the trie and the getters agree that each   *)
(* account is what it was before, with its current storage committed,      *)
(* except that dirty accounts that were suicided, or are empty if that is  *)
(* asked for, are gone.                                                    *)
(***************************************************************************)
EndedView(a, deleteEmptyObjects) ==
    IF \/ AccountView(a) = Nil
       \/ a \in Finalised /\ Deletes(stateObjects[a], deleteEmptyObjects)
    THEN Nil
    ELSE [AccountView(a) EXCEPT !.committed = AccountView(a).state]

RootCommitsView ==
    [][\A d \in BOOLEAN : ~dbErr' /\ IntermediateRoot(d) =>
          \A a \in Addr :
              TrieView(a)' = EndedView(a, d) /\ AccountView(a)' = EndedView(a, d)]_vars

(***************************************************************************)
(* updateTrie skips a pending slot that equals originStorage, reading a    *)
(* missing key as zero.  The skip loses nothing: while no read has failed, *)
(* a cached origin is what the storage trie holds, and a written slot      *)
(* without an origin is empty in the trie.                                 *)
(***************************************************************************)
OriginCoherent ==
    ~dbErr =>
        \A a \in Addr : stateObjects[a] # Nil =>
            \A k \in Key :
                LET o == stateObjects[a] IN
                /\ o.originStorage[k] # Nil => o.originStorage[k] = getTrie(o)[k]
                /\ o.originStorage[k] = Nil /\ (o.pendingStorage[k] # Nil \/ o.dirtyStorage[k] # Nil)
                      => getTrie(o)[k] = Zero

(***************************************************************************)
(* The storage roots IntermediateRoot computes are of tries that exist in  *)
(* memory only.  A storage trie is opened from the database by root, so an *)
(* account whose trie is not open must have a root that was in the         *)
(* database from the start, whatever was flushed, copied or reloaded.      *)
(***************************************************************************)
PersistedRoots == {EmptyRoot} \cup {originalRoot[a].root : a \in {b \in Addr : originalRoot[b] # Nil}}

StorageTrieOpenable ==
    \A a \in Addr :
        IF stateObjects[a] # Nil
        THEN stateObjects[a].trie = Nil => stateObjects[a].root \in PersistedRoots
        ELSE trie[a] # Nil => trie[a].root \in PersistedRoots

(***************************************************************************)
(* getDeletedStateObject and GetCommittedState ask the state snapshot of   *)
(* the original root first and the tries only if there is none or it       *)
(* fails, although IntermediateRoot may have written to the tries since.   *)
(* The two sources agree wherever they are asked: for an account without   *)
(* an object, and for a slot that no cache holds and no destruct mark      *)
(* hides.  Modelling such a read as one of the trie is therefore exact.    *)
(***************************************************************************)
SnapshotSlot(a, k) == IF originalRoot[a] = Nil THEN Zero ELSE originalRoot[a].root[k]

SnapshotAgrees ==
    ~dbErr =>
        \A a \in Addr :
            IF stateObjects[a] = Nil THEN trie[a] = originalRoot[a]
            ELSE \A k \in Key :
                    NeedsTrie(stateObjects[a], a \in stateObjectsDestruct, k)
                        => getTrie(stateObjects[a])[k] = SnapshotSlot(a, k)

(***************************************************************************)
(* What a state object holds of its storage agrees with the tries it came  *)
(* from: the cached origins, the root it would be opened at, and the slots *)
(* a snapshot of the original root would be asked for.                     *)
(***************************************************************************)
StorageCoherent == OriginCoherent /\ StorageTrieOpenable /\ SnapshotAgrees

(***************************************************************************)
(* An account that was marked suicided is deleted by the end of the        *)
(* transaction: outside of the journal's reach no live object carries the  *)
(* mark, so IntermediateRoot never writes a suicided account.              *)
(***************************************************************************)
SuicidedDeleted ==
    \A a \in Addr \ DirtyAccounts :
        Live(stateObjects, a) => ~stateObjects[a].suicided

(***************************************************************************)
(* Copy leaves clean objects, the journal and the snapshots behind, and    *)
(* still the copy reads like the original.                                 *)
(***************************************************************************)
CopyPreservesView ==
    [][Copy => \A a \in Addr : AccountView(a)' = AccountView(a)]_vars
=============================================================================
