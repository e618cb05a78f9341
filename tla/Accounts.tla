------------------------------ MODULE Accounts ------------------------------
(***************************************************************************)
(* The accounts of StateDB (trie_by_cid/state/statedb.go): the account     *)
(* trie, the live objects in front of it, and the sets that say which of   *)
(* them have to be written to it.                                          *)
(*                                                                         *)
(* A method of StateDB calls several others that change the same fields.   *)
(* Those fields are threaded through the operators as a record s, and an   *)
(* action assigns the record its method ends with.                         *)
(***************************************************************************)
EXTENDS Journal

CONSTANTS
    Genesis,   \* account tries a StateDB may be opened on
    Amount,    \* amounts of AddBalance, SubBalance and SetBalance
    MaxBalance,\* bound: the balance of an account
    Nonce,     \* values of SetNonce
    Env        \* what callers and database may do, see Behaviours

\* "faults":         a read of the database may fail
\* "bareReset":      a caller may reset an account and change nothing else in it
\* "setStorage":     the debugging call SetStorage is used
\* "copyMidTx":      Copy is called on a journal with entries
\* "copyAfterError": Copy is called although Error() is not nil
\* "prefetch":       a state snapshot exists, and StartPrefetcher is called
Behaviours ==
    {"faults", "bareReset", "setStorage", "copyMidTx", "copyAfterError", "prefetch"}

AccountTrie == [Addr -> Account \cup {Nil}]

ASSUME AccountsAssumption ==
    /\ Genesis \subseteq AccountTrie
    /\ Amount \subseteq Nat
    /\ MaxBalance \in Nat
    /\ Nonce \subseteq Nat
    /\ Env \subseteq Behaviours

VARIABLES
    originalRoot,          \* the root the StateDB was opened on
    trie,                  \* s.trie
    stateObjects,          \* s.stateObjects
    stateObjectsPending,   \* s.stateObjectsPending
    stateObjectsDirty,     \* s.stateObjectsDirty
    stateObjectsDestruct,  \* s.stateObjectsDestruct
    dbErr                  \* s.dbErr # nil

accountVars == <<originalRoot, trie, stateObjects, stateObjectsPending,
                 stateObjectsDirty, stateObjectsDestruct, dbErr>>

AccountsTypeOK ==
    /\ originalRoot \in AccountTrie
    /\ trie \in AccountTrie
    /\ stateObjects \in [Addr -> Object \cup {Nil}]
    /\ stateObjectsPending \in SUBSET Addr
    /\ stateObjectsDirty \in SUBSET Addr
    /\ stateObjectsDestruct \in SUBSET Addr
    /\ dbErr \in BOOLEAN

\* New: nothing is loaded yet.
AccountsInit ==
    /\ originalRoot \in Genesis
    /\ trie = originalRoot
    /\ stateObjects = [a \in Addr |-> Nil]
    /\ stateObjectsPending = {}
    /\ stateObjectsDirty = {}
    /\ stateObjectsDestruct = {}
    /\ dbErr = FALSE

-----------------------------------------------------------------------------
(* The methods StateDB's methods are made of.                              *)

State == [objs |-> stateObjects, destruct |-> stateObjectsDestruct,
          journal |-> journal, err |-> dbErr]

\* The outcomes of the database reads one method may need: the lookup of the
\* object, the lookup createObject repeats, and that of a slot or a code.
Reads == IF "faults" \in Env THEN [1..3 -> BOOLEAN] ELSE {[i \in 1..3 |-> TRUE]}

\* Mutant of getDeletedStateObject: a failed read looks like an absent account.
getDeletedStateObjectSilent(s, a, ok) ==
    IF s.objs[a] # Nil \/ ~ok \/ trie[a] = Nil THEN s
    ELSE [s EXCEPT !.objs[a] = newObject(trie[a])]

getDeletedStateObject(s, a, ok) ==
    IF s.objs[a] # Nil THEN s
    ELSE IF ~ok THEN [s EXCEPT !.err = TRUE]
    ELSE IF trie[a] = Nil THEN s
    ELSE [s EXCEPT !.objs[a] = newObject(trie[a])]

\* getStateObject returns the object the lookup left in the map, unless it is
\* marked deleted.
Live(objs, a) == objs[a] # Nil /\ ~objs[a].deleted

\* Mutant of createObject: the object that is replaced is not kept.
createObjectAlways(s, a, ok) ==
    [getDeletedStateObject(s, a, ok) EXCEPT
        !.objs[a] = newObject(NewAccount),
        !.journal = append(@, [kind |-> "createObject", account |-> a])]

createObject(s, a, ok) ==
    LET l    == getDeletedStateObject(s, a, ok)
        prev == l.objs[a]
    IN IF prev = Nil
       THEN [l EXCEPT !.objs[a] = newObject(NewAccount),
                      !.journal = append(@, [kind |-> "createObject", account |-> a])]
       ELSE [l EXCEPT !.objs[a] = newObject(NewAccount),
                      !.destruct = @ \cup {a},
                      !.journal = append(@, [kind |-> "resetObject", account |-> a,
                                             prev |-> prev,
                                             prevdestruct |-> a \in l.destruct])]

GetOrNewStateObject(s, a, io) ==
    LET l == getDeletedStateObject(s, a, io[1])
    IN IF Live(l.objs, a) THEN l ELSE createObject(l, a, io[2])

\* A setter of the object: journal the entry, then assign.
Journal1(s, a, e, o) == [s EXCEPT !.journal = append(@, e), !.objs[a] = o]

SetObjectBalance(s, a, amount) ==
    Journal1(s, a, [kind |-> "balance", account |-> a, prev |-> s.objs[a].balance],
             [s.objs[a] EXCEPT !.balance = amount])

SetObjectNonce(s, a, nonce) ==
    Journal1(s, a, [kind |-> "nonce", account |-> a, prev |-> s.objs[a].nonce],
             [s.objs[a] EXCEPT !.nonce = nonce])

touch(s, a) ==
    LET j == append(s.journal, [kind |-> "touch", account |-> a])
    IN [s EXCEPT !.journal = IF a = Ripemd THEN dirty(j, a) ELSE j]

\* Mutant of ReadCommitted: the zero hash of a failed read is cached.
ReadCommittedCachesZero(s, a, k, ok) ==
    LET o == s.objs[a]
        d == a \in s.destruct
    IN IF NeedsTrie(o, d, k) /\ ~ok
       THEN [s EXCEPT !.objs[a].originStorage[k] = Zero]
       ELSE [s EXCEPT !.objs[a] = Cached(o, d, k)]

\* GetCommittedState of the object at a, reached unless dirty hides the slot.
ReadCommitted(s, a, k, ok) ==
    LET o == s.objs[a]
        d == a \in s.destruct
    IN IF NeedsTrie(o, d, k) /\ ~ok
       THEN [s EXCEPT !.err = TRUE]
       ELSE [s EXCEPT !.objs[a] = Cached(o, d, k)]

ReadState(s, a, k, ok) ==
    IF s.objs[a].dirtyStorage[k] # Nil THEN s ELSE ReadCommitted(s, a, k, ok)

\* The value GetState returns: the zero hash if the read fails.
StateRead(s, a, k, ok) ==
    LET o == s.objs[a]
        d == a \in s.destruct
    IN IF o.dirtyStorage[k] = Nil /\ NeedsTrie(o, d, k) /\ ~ok THEN Zero
       ELSE StateValue(o, d, k)

SetObjectState(s, a, k, value, ok) ==
    LET prev == StateRead(s, a, k, ok)
        r    == ReadState(s, a, k, ok)
    IN IF prev = value THEN r
       ELSE Journal1(r, a, [kind |-> "storage", account |-> a, key |-> k, prevalue |-> prev],
                     [r.objs[a] EXCEPT !.dirtyStorage[k] = value])

\* An account that was reset is also dirtied by another entry.  Callers that
\* keep to this, as the EVM does when it creates a contract and sets its nonce,
\* do not notice that a reset on its own leaves no mark in dirties.
NoBareReset(j) ==
    \A i \in 1..Len(j.entries) :
        j.entries[i].kind = "resetObject" => j.dirties[j.entries[i].account] # 0

\* The end of a method: the fields take the threaded values.
Put(s) ==
    /\ Idle
    /\ Len(s.journal.entries) <= MaxJournal
    /\ "bareReset" \in Env \/ NoBareReset(s.journal)
    /\ stateObjects' = s.objs
    /\ stateObjectsDestruct' = s.destruct
    /\ journal' = s.journal
    /\ dbErr' = s.err
    /\ UNCHANGED <<originalRoot, trie, stateObjectsPending, stateObjectsDirty,
                   validRevisions, nextRevisionId, reverting>>

-----------------------------------------------------------------------------
(* Getters: they cache what they read.                                     *)

\* Exist, Empty, GetBalance, GetNonce, GetCodeHash, HasSuicided.
GetAccount(a, io) == Put(getDeletedStateObject(State, a, io[1]))

\* GetCode and GetCodeSize: the code of an account is read by its hash.
GetCode(a, io) ==
    LET s == getDeletedStateObject(State, a, io[1])
    IN Put([s EXCEPT !.err = @ \/ (Live(s.objs, a) /\ s.objs[a].code # NoCode /\ ~io[3])])

GetState(a, k, io) ==
    LET s == getDeletedStateObject(State, a, io[1])
    IN Put(IF Live(s.objs, a) THEN ReadState(s, a, k, io[3]) ELSE s)

GetCommittedState(a, k, io) ==
    LET s == getDeletedStateObject(State, a, io[1])
    IN Put(IF Live(s.objs, a) THEN ReadCommitted(s, a, k, io[3]) ELSE s)

(* Setters.                                                                *)

AddBalance(a, amount, io) ==
    LET s == GetOrNewStateObject(State, a, io)
        o == s.objs[a]
    IN /\ o.balance + amount <= MaxBalance
       /\ Put(IF amount # 0 THEN SetObjectBalance(s, a, o.balance + amount)
              ELSE IF empty(o) THEN touch(s, a)
              ELSE s)

\* The EVM checks that the sender can pay.
SubBalance(a, amount, io) ==
    LET s == GetOrNewStateObject(State, a, io)
        o == s.objs[a]
    IN /\ amount <= o.balance
       /\ Put(IF amount # 0 THEN SetObjectBalance(s, a, o.balance - amount) ELSE s)

SetBalance(a, amount, io) ==
    Put(SetObjectBalance(GetOrNewStateObject(State, a, io), a, amount))

SetNonce(a, nonce, io) ==
    Put(SetObjectNonce(GetOrNewStateObject(State, a, io), a, nonce))

\* The previous code is read for the journal entry.
SetCode(a, code, io) ==
    LET s == GetOrNewStateObject(State, a, io)
        o == s.objs[a]
        r == [s EXCEPT !.err = @ \/ (o.code # NoCode /\ ~io[3])]
    IN Put(Journal1(r, a, [kind |-> "code", account |-> a, prev |-> o.code],
                    [o EXCEPT !.code = code]))

SetState(a, k, value, io) ==
    Put(SetObjectState(GetOrNewStateObject(State, a, io), a, k, value, io[3]))

\* The destruct mark is not journaled.  (Bound: storage has one slot.)
SetStorage(a, k, value, io) ==
    LET marked == [State EXCEPT !.destruct = @ \cup {a}]
    IN /\ "setStorage" \in Env
       /\ Put(SetObjectState(GetOrNewStateObject(marked, a, io), a, k, value, io[3]))

Suicide(a, io) ==
    LET s == getDeletedStateObject(State, a, io[1])
        o == s.objs[a]
    IN Put(IF ~Live(s.objs, a) THEN s
           ELSE Journal1(s, a, [kind |-> "suicide", account |-> a,
                                prev |-> o.suicided, prevbalance |-> o.balance],
                         [o EXCEPT !.suicided = TRUE, !.balance = 0]))

\* The balance of the account that is overwritten is carried over.
Created(a, io) ==
    LET prev == getDeletedStateObject(State, a, io[1]).objs[a]
        s    == createObject(State, a, io[1])
    IN IF prev # Nil /\ ~prev.deleted
       THEN [s EXCEPT !.objs[a].balance = prev.balance] ELSE s

CreateAccount(a, io) == Put(Created(a, io))

\* The EVM's contract creation: CreateAccount, then the nonce becomes 1.
CreateContract(a, io) == Put(SetObjectNonce(Created(a, io), a, 1))

AccountCall(a, io) ==
    \/ GetAccount(a, io)
    \/ GetCode(a, io)
    \/ \E k \in Key : GetState(a, k, io) \/ GetCommittedState(a, k, io)
    \/ \E amount \in Amount :
          AddBalance(a, amount, io) \/ SubBalance(a, amount, io) \/ SetBalance(a, amount, io)
    \/ \E nonce \in Nonce : SetNonce(a, nonce, io)
    \/ \E code \in Code : SetCode(a, code, io)
    \/ \E k \in Key, value \in Word : SetState(a, k, value, io) \/ SetStorage(a, k, value, io)
    \/ Suicide(a, io)
    \/ CreateAccount(a, io)
    \/ CreateContract(a, io)

-----------------------------------------------------------------------------
(* The revert methods, one loop iteration of journal.revert each.          *)

Undo(kind) ==
    /\ Undoing
    /\ LastEntry.kind = kind
    /\ journal' = pop(journal)
    /\ UNCHANGED <<validRevisions, nextRevisionId, reverting>>
    /\ UNCHANGED <<originalRoot, trie, stateObjectsPending, dbErr>>

UndoCreateObject ==
    /\ Undo("createObject")
    /\ stateObjects' = [stateObjects EXCEPT ![LastEntry.account] = Nil]
    /\ stateObjectsDirty' = stateObjectsDirty \ {LastEntry.account}
    /\ UNCHANGED stateObjectsDestruct

\* Mutant of UndoResetObject: the object is removed as if it had been created.
UndoResetObjectRemoves ==
    /\ Undo("resetObject")
    /\ stateObjects' = [stateObjects EXCEPT ![LastEntry.account] = Nil]
    /\ UNCHANGED <<stateObjectsDirty, stateObjectsDestruct>>

UndoResetObject ==
    /\ Undo("resetObject")
    /\ stateObjects' = [stateObjects EXCEPT ![LastEntry.account] = LastEntry.prev]
    /\ stateObjectsDestruct' =
          IF LastEntry.prevdestruct THEN stateObjectsDestruct
          ELSE stateObjectsDestruct \ {LastEntry.account}
    /\ UNCHANGED stateObjectsDirty

\* Mutant of UndoSuicide: the balance is not restored.
UndoSuicideMark ==
    /\ Undo("suicide")
    /\ stateObjects' =
          IF Live(stateObjects, LastEntry.account)
          THEN [stateObjects EXCEPT ![LastEntry.account].suicided = LastEntry.prev]
          ELSE stateObjects
    /\ UNCHANGED <<stateObjectsDirty, stateObjectsDestruct>>

UndoSuicide ==
    /\ Undo("suicide")
    /\ stateObjects' =
          IF Live(stateObjects, LastEntry.account)
          THEN [stateObjects EXCEPT ![LastEntry.account].suicided = LastEntry.prev,
                                    ![LastEntry.account].balance = LastEntry.prevbalance]
          ELSE stateObjects
    /\ UNCHANGED <<stateObjectsDirty, stateObjectsDestruct>>

UndoTouch ==
    /\ Undo("touch")
    /\ UNCHANGED <<stateObjects, stateObjectsDirty, stateObjectsDestruct>>

\* The remaining methods dereference what getStateObject returns.
UndoField(kind, o) ==
    /\ Undo(kind)
    /\ Live(stateObjects, LastEntry.account)
    /\ stateObjects' = [stateObjects EXCEPT ![LastEntry.account] = o]
    /\ UNCHANGED <<stateObjectsDirty, stateObjectsDestruct>>

LastObject == stateObjects[LastEntry.account]

UndoBalance == UndoField("balance", [LastObject EXCEPT !.balance = LastEntry.prev])

UndoNonce == UndoField("nonce", [LastObject EXCEPT !.nonce = LastEntry.prev])

\* Mutants of UndoCode: the new code stays, and the hash is dropped.
UndoCodeKeeps == UndoField("code", LastObject)

UndoCodeDrops == UndoField("code", [LastObject EXCEPT !.code = Nil])

UndoCode == UndoField("code", [LastObject EXCEPT !.code = LastEntry.prev])

\* Mutant of UndoStorage: the slot is dropped from the cache, not set back.
UndoStorageDrops ==
    UndoField("storage", [LastObject EXCEPT !.dirtyStorage[LastEntry.key] = Nil])

UndoStorage ==
    UndoField("storage", [LastObject EXCEPT !.dirtyStorage[LastEntry.key] = LastEntry.prevalue])

AccountUndo ==
    \/ UndoCreateObject \/ UndoResetObject \/ UndoSuicide \/ UndoTouch
    \/ UndoBalance \/ UndoNonce \/ UndoCode \/ UndoStorage

-----------------------------------------------------------------------------
(* What a caller can observe of an account.                                *)

ObjectView(o, destructed) ==
    IF o = Nil \/ (o # Nil /\ o.deleted) THEN Nil
    ELSE [balance   |-> o.balance,
          nonce     |-> o.nonce,
          code      |-> o.code,
          suicided  |-> o.suicided,
          state     |-> [k \in Key |-> StateValue(o, destructed, k)],
          committed |-> [k \in Key |-> CommittedValue(o, destructed, k)]]

\* What there is to observe of an account that exists.
LiveView ==
    [balance : Int, nonce : Nat, code : Code, suicided : BOOLEAN,
     state : Slots, committed : Slots]

ASSUME ViewAssumption == Nil \notin LiveView

\* The account as the trie has it.
TrieView(a) ==
    IF trie[a] = Nil THEN Nil ELSE ObjectView(newObject(trie[a]), FALSE)

\* The account as the getters report it.
AccountView(a) ==
    IF stateObjects[a] # Nil
    THEN ObjectView(stateObjects[a], a \in stateObjectsDestruct)
    ELSE IF trie[a] = Nil THEN Nil
    ELSE ObjectView(newObject(trie[a]), a \in stateObjectsDestruct)
=============================================================================
