----------------------------- MODULE MCHistory -----------------------------
(* The same instances with the history of snapshots.                       *)
EXTENDS MCStateDB, StateDBHistory

-----------------------------------------------------------------------------
(* Bounds of the run on the transaction state.  The access list shares     *)
(* nothing but the journal with the rest, so a state uses one or the       *)
(* other: the access list with a full journal, the rest with a shorter one.*)

AccessListEntries == {"accessListAddAccount", "accessListAddSlot"}

UsesAccessList == accessList # AL!newAccessList

UsesRest ==
    \/ refund # 0 \/ logSize # 0 \/ preimages # {} \/ thash # NoTx
    \/ transientStorage # newTransientStorage
    \/ \E i \in 1..Len(journal.entries) : journal.entries[i].kind \notin AccessListEntries

MaxRestJournal == 3

TxBounds == UsesRest => ~UsesAccessList /\ Len(journal.entries) <= MaxRestJournal
=============================================================================
