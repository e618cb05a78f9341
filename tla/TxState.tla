------------------------------ MODULE TxState ------------------------------
(***************************************************************************)
(* The part of StateDB that is not in the account trie: the refund         *)
(* counter, logs, preimages, the access list and transient storage, with   *)
(* their setters (trie_by_cid/state/statedb.go) and the revert methods of  *)
(* their journal entries (journal.go).  A log is represented by the Index  *)
(* AddLog gives it.                                                        *)
(***************************************************************************)
EXTENDS Journal

CONSTANTS
    NoTx,    \* common.Hash{}, the transaction hash before SetTxContext
    Gas,     \* amounts of AddRefund and SubRefund
    MaxLogs  \* bound: logs of a block

ASSUME TxAssumption ==
    NoTx \in TxHash /\ Gas \subseteq Nat /\ MaxLogs \in Nat /\ Nil \notin Int

VARIABLES refund, logs, logSize, thash, preimages, accessList, transientStorage

txVars == <<refund, logs, logSize, thash, preimages, accessList, transientStorage>>

AL == INSTANCE AccessList

\* transientStorage.Get yields the zero hash for what was never set, so the
\* two-level map is a total function.
newTransientStorage == [w \in Warm |-> [k \in TransientKey |-> Zero]]

TxTypeOK ==
    /\ refund \in Nat
    /\ logs \in [TxHash -> Seq(Int)]
    /\ logSize \in Int
    /\ thash \in TxHash
    /\ preimages \subseteq Preimage
    /\ accessList \in [addresses : [Warm -> Int \cup {Nil}], slots : Seq(SUBSET Slot)]
    /\ transientStorage \in [Warm -> [TransientKey -> Word]]

TxInit ==
    /\ refund = 0
    /\ logs = [t \in TxHash |-> <<>>]
    /\ logSize = 0
    /\ thash = NoTx
    /\ preimages = {}
    /\ accessList = AL!newAccessList
    /\ transientStorage = newTransientStorage

-----------------------------------------------------------------------------
(* Setters.                                                                *)

\* The journal of a setter, kept within the bound.
Journaled(j) ==
    /\ Idle
    /\ Len(j.entries) <= MaxJournal
    /\ journal' = j
    /\ UNCHANGED <<validRevisions, nextRevisionId, reverting>>

AddLog ==
    /\ logSize < MaxLogs
    /\ Journaled(append(journal, [kind |-> "addLog", txhash |-> thash]))
    /\ logs' = [logs EXCEPT ![thash] = Append(@, logSize)]
    /\ logSize' = logSize + 1
    /\ UNCHANGED <<refund, thash, preimages, accessList, transientStorage>>

AddPreimage(hash) ==
    /\ hash \notin preimages
    /\ Journaled(append(journal, [kind |-> "addPreimage", hash |-> hash]))
    /\ preimages' = preimages \cup {hash}
    /\ UNCHANGED <<refund, logs, logSize, thash, accessList, transientStorage>>

AddRefund(gas) ==
    /\ Journaled(append(journal, [kind |-> "refund", prev |-> refund]))
    /\ refund' = refund + gas
    /\ UNCHANGED <<logs, logSize, thash, preimages, accessList, transientStorage>>

\* Panics when gas exceeds the counter: not a step of a running program.
SubRefund(gas) ==
    /\ gas <= refund
    /\ Journaled(append(journal, [kind |-> "refund", prev |-> refund]))
    /\ refund' = refund - gas
    /\ UNCHANGED <<logs, logSize, thash, preimages, accessList, transientStorage>>

SetTransientState(w, key, value) ==
    /\ transientStorage[w][key] # value
    /\ Journaled(append(journal,
           [kind |-> "transientStorage", account |-> w, key |-> key,
            prevalue |-> transientStorage[w][key]]))
    /\ transientStorage' = [transientStorage EXCEPT ![w][key] = value]
    /\ UNCHANGED <<refund, logs, logSize, thash, preimages, accessList>>

AddAddressToAccessList(w) ==
    /\ ~AL!ContainsAddress(accessList, w)
    /\ accessList' = AL!AddAddress(accessList, w)
    /\ Journaled(append(journal, [kind |-> "accessListAddAccount", address |-> w]))
    /\ UNCHANGED <<refund, logs, logSize, thash, preimages, transientStorage>>

\* Mutant of AddSlotToAccessList: the two entries in the other order.
AddSlotToAccessListSwapped(w, slot) ==
    LET withSlot == append(journal, [kind |-> "accessListAddSlot", address |-> w, slot |-> slot])
    IN /\ ~AL!ContainsSlot(accessList, w, slot)
       /\ accessList' = AL!AddSlot(accessList, w, slot)
       /\ Journaled(IF AL!ContainsAddress(accessList, w) THEN withSlot
                    ELSE append(withSlot, [kind |-> "accessListAddAccount", address |-> w]))
       /\ UNCHANGED <<refund, logs, logSize, thash, preimages, transientStorage>>

\* The entry for the address, when it is new, precedes the one for the slot.
AddSlotToAccessList(w, slot) ==
    LET addrMod   == ~AL!ContainsAddress(accessList, w)
        withAddr  == IF addrMod
                     THEN append(journal, [kind |-> "accessListAddAccount", address |-> w])
                     ELSE journal
    IN /\ ~AL!ContainsSlot(accessList, w, slot)
       /\ accessList' = AL!AddSlot(accessList, w, slot)
       /\ Journaled(append(withAddr,
              [kind |-> "accessListAddSlot", address |-> w, slot |-> slot]))
       /\ UNCHANGED <<refund, logs, logSize, thash, preimages, transientStorage>>

SetTxContext(t) ==
    /\ Idle
    /\ thash' = t
    /\ UNCHANGED <<refund, logs, logSize, preimages, accessList, transientStorage>>
    /\ UNCHANGED journalVars

\* Prepare does not journal what it resets.  Its caller, the state transition,
\* calls it before the transaction's first snapshot and before anything is
\* added to the access list or to transient storage.
PrepareAllowed ==
    /\ validRevisions = <<>>
    /\ \A i \in 1..Len(journal.entries) : journal.entries[i].kind \notin
          {"accessListAddAccount", "accessListAddSlot", "transientStorage"}

\* addrs are the sender, the destination, the precompiles, the accounts of the
\* transaction's own list and, from Shanghai on, the coinbase: adding an address
\* moves no slot set, so their order is immaterial.  tuple is the slot in that
\* list, if any (bound: one).
Prepare(addrs, berlin, tuple) ==
    /\ Idle
    /\ PrepareAllowed
    /\ accessList' =
          IF ~berlin THEN accessList
          ELSE LET al == [AL!newAccessList EXCEPT !.addresses =
                             [w \in Warm |-> IF w \in addrs THEN -1 ELSE Nil]]
               IN IF tuple = <<>> THEN al ELSE AL!AddSlot(al, tuple[1], tuple[2])
    /\ transientStorage' = newTransientStorage
    /\ UNCHANGED <<refund, logs, logSize, thash, preimages>>
    /\ UNCHANGED journalVars

TxSetter ==
    \/ AddLog
    \/ \E hash \in Preimage : AddPreimage(hash)
    \/ \E gas \in Gas : AddRefund(gas) \/ SubRefund(gas)
    \/ \E w \in Warm :
          \/ \E key \in TransientKey, value \in Word : SetTransientState(w, key, value)
          \/ AddAddressToAccessList(w)
          \/ \E slot \in Slot : AddSlotToAccessList(w, slot)
    \/ \E t \in TxHash : SetTxContext(t)
    \/ \E addrs \in SUBSET Warm \ {{}}, berlin \in BOOLEAN :
          \E tuple \in {<<>>} \cup (addrs \X Slot) : Prepare(addrs, berlin, tuple)

-----------------------------------------------------------------------------
(* The revert methods, one loop iteration of journal.revert each.          *)

Pops(kind) ==
    /\ Undoing
    /\ LastEntry.kind = kind
    /\ journal' = pop(journal)
    /\ UNCHANGED <<validRevisions, nextRevisionId, reverting>>

\* Mutant of UndoRefund: the counter is reset instead of restored.
UndoRefundResets ==
    /\ Pops("refund")
    /\ refund' = 0
    /\ UNCHANGED <<logs, logSize, thash, preimages, accessList, transientStorage>>

UndoRefund ==
    /\ Pops("refund")
    /\ refund' = LastEntry.prev
    /\ UNCHANGED <<logs, logSize, thash, preimages, accessList, transientStorage>>

\* Mutant of UndoAddLog: logSize is not counted back.
UndoAddLogUncounted ==
    /\ Pops("addLog")
    /\ logs' = [logs EXCEPT ![LastEntry.txhash] = SubSeq(@, 1, Len(@) - 1)]
    /\ UNCHANGED <<refund, logSize, thash, preimages, accessList, transientStorage>>

UndoAddLog ==
    /\ Pops("addLog")
    /\ LET t == LastEntry.txhash
       IN logs' = [logs EXCEPT ![t] = SubSeq(@, 1, Len(@) - 1)]
    /\ logSize' = logSize - 1
    /\ UNCHANGED <<refund, thash, preimages, accessList, transientStorage>>

UndoAddPreimage ==
    /\ Pops("addPreimage")
    /\ preimages' = preimages \ {LastEntry.hash}
    /\ UNCHANGED <<refund, logs, logSize, thash, accessList, transientStorage>>

UndoAccessListAddAccount ==
    /\ Pops("accessListAddAccount")
    /\ accessList' = AL!DeleteAddress(accessList, LastEntry.address)
    /\ UNCHANGED <<refund, logs, logSize, thash, preimages, transientStorage>>

UndoAccessListAddSlot ==
    /\ Pops("accessListAddSlot")
    /\ AL!CanDeleteSlot(accessList, LastEntry.address)
    /\ accessList' = AL!DeleteSlot(accessList, LastEntry.address, LastEntry.slot)
    /\ UNCHANGED <<refund, logs, logSize, thash, preimages, transientStorage>>

UndoTransientStorage ==
    /\ Pops("transientStorage")
    /\ LET e == LastEntry
       IN transientStorage' = [transientStorage EXCEPT ![e.account][e.key] = e.prevalue]
    /\ UNCHANGED <<refund, logs, logSize, thash, preimages, accessList>>

TxUndo ==
    \/ UndoRefund \/ UndoAddLog \/ UndoAddPreimage
    \/ UndoAccessListAddAccount \/ UndoAccessListAddSlot \/ UndoTransientStorage

-----------------------------------------------------------------------------
(* What the state transition can observe of this part of the state.        *)
TxView ==
    [refund    |-> refund,
     logs      |-> logs,
     logSize   |-> logSize,
     preimages |-> preimages,
     access    |-> AL!AccessListView(accessList),
     transient |-> transientStorage]

(***************************************************************************)
(* AddLog numbers logs with logSize, which AddLog's revert counts back.    *)
(* Over all transactions of a block the log indices are 0 .. logSize-1,    *)
(* each used once and ascending within a transaction, so reverted logs     *)
(* leave no gap and cause no duplicate.                                    *)
(***************************************************************************)
LogIndicesContiguous ==
    LET Positions == {p \in TxHash \X (1..logSize) : p[2] <= Len(logs[p[1]])}
    IN /\ {logs[p[1]][p[2]] : p \in Positions} = 0..(logSize - 1)
       /\ Cardinality(Positions) = logSize
       /\ \A t \in TxHash : \A i, j \in 1..Len(logs[t]) :
             i < j => logs[t][i] < logs[t][j]

(***************************************************************************)
(* DeleteSlot cuts al.slots at the index of the slot set it empties and    *)
(* trusts that later sets are gone already.  With every order of           *)
(* additions, snapshots and partial reverts each slot set keeps exactly    *)
(* one owner, so no index in al.addresses ever points past the slice.      *)
(***************************************************************************)
AccessListWellFormed == AL!WellFormedAccessList(accessList)

(***************************************************************************)
(* DeleteSlot panics when the address or its slot set is gone, and         *)
(* DeleteAddress blindly forgets the slots of an address.  When a slot     *)
(* addition is reverted its slot set is there, and when an address is      *)
(* removed it has no slots left.                                           *)
(***************************************************************************)
AccessListRevertSafe ==
    Undoing =>
        /\ LastEntry.kind = "accessListAddSlot" =>
              /\ AL!CanDeleteSlot(accessList, LastEntry.address)
              /\ LastEntry.slot \in AL!SlotSet(accessList, LastEntry.address)
        /\ LastEntry.kind = "accessListAddAccount" =>
              accessList.addresses[LastEntry.address] = -1

(***************************************************************************)
(* The access list is sound in every state and ready for the next revert.  *)
(***************************************************************************)
AccessListSound == AccessListWellFormed /\ AccessListRevertSafe

(***************************************************************************)
(* clearJournalAndRefund resets the refund counter only when the journal   *)
(* has entries.  That is enough, because without entries no refund is      *)
(* left, also after reverts; and the indices of the logs are right.        *)
(***************************************************************************)
CountersExact ==
    /\ LogIndicesContiguous
    /\ journal.entries = <<>> => refund = 0
=============================================================================
