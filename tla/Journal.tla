------------------------------ MODULE Journal ------------------------------
(***************************************************************************)
(* The change journal of trie_by_cid/state/journal.go and the stack of     *)
(* snapshots that index it (statedb.go, validRevisions).                   *)
(*                                                                         *)
(* A journal is a record of the entries and of the count of changes per    *)
(* dirtied account; a count of 0 is an address absent from the map.        *)
(* Snapshot and the two ends of RevertToSnapshot are actions here; what    *)
(* reverting one entry does to the rest of the state is said where that    *)
(* state is declared.                                                      *)
(***************************************************************************)
EXTENDS StateObject, Sequences, FiniteSets

CONSTANTS
    Addr,          \* accounts
    Ripemd,        \* address 3, in Addr or not
    Warm,          \* addresses used with the access list and transient storage
    Slot,          \* storage keys used with the access list
    TransientKey,  \* keys of transient storage
    TxHash,        \* transaction hashes
    Preimage,      \* hashes whose preimages are recorded
    MaxJournal,    \* bound: entries in the journal
    MaxRevisionId  \* bound: snapshots taken by one StateDB

VARIABLES
    journal,         \* s.journal
    validRevisions,  \* s.validRevisions
    nextRevisionId,  \* s.nextRevisionId
    reverting        \* 0, or the index in validRevisions being reverted to

journalVars == <<journal, validRevisions, nextRevisionId, reverting>>

ASSUME BoundsAssumption == MaxJournal \in Nat /\ MaxRevisionId \in Nat

\* One record set for each of the change types.
Entry ==
    [kind : {"createObject", "touch"}, account : Addr]
    \cup [kind : {"resetObject"}, account : Addr, prev : Object, prevdestruct : BOOLEAN]
    \cup [kind : {"suicide"}, account : Addr, prev : BOOLEAN, prevbalance : Int]
    \cup [kind : {"balance"}, account : Addr, prev : Int]
    \cup [kind : {"nonce"}, account : Addr, prev : Nat]
    \cup [kind : {"code"}, account : Addr, prev : Code]
    \cup [kind : {"storage"}, account : Addr, key : Key, prevalue : Word]
    \cup [kind : {"refund"}, prev : Nat]
    \cup [kind : {"addLog"}, txhash : TxHash]
    \cup [kind : {"addPreimage"}, hash : Preimage]
    \cup [kind : {"accessListAddAccount"}, address : Warm]
    \cup [kind : {"accessListAddSlot"}, address : Warm, slot : Slot]
    \cup [kind : {"transientStorage"}, account : Warm, key : TransientKey, prevalue : Word]

\* type revision: an id and the length of the journal when it was taken.
Revision == [id : Nat, journalIndex : Nat]

\* The dirtied methods: resetObject and the changes outside the account trie
\* report no address.
DirtyingKinds ==
    {"createObject", "touch", "suicide", "balance", "nonce", "code", "storage"}

dirtied(e) == IF e.kind \in DirtyingKinds THEN {e.account} ELSE {}

newJournal == [entries |-> <<>>, dirties |-> [a \in Addr |-> 0]]

append(j, e) ==
    [entries |-> Append(j.entries, e),
     dirties |-> [a \in Addr |-> IF a \in dirtied(e) THEN j.dirties[a] + 1
                                 ELSE j.dirties[a]]]

\* dirty: mark an address without an entry (the RIPEMD exception).
dirty(j, addr) == [j EXCEPT !.dirties[addr] = @ + 1]

\* Mutants of pop: the address is forgotten although other entries dirty it,
\* and all addresses are.
popForgets(j) ==
    LET e == j.entries[Len(j.entries)] IN
    [entries |-> SubSeq(j.entries, 1, Len(j.entries) - 1),
     dirties |-> [a \in Addr |-> IF a \in dirtied(e) THEN 0 ELSE j.dirties[a]]]

popForgetsAll(j) ==
    [newJournal EXCEPT !.entries = SubSeq(j.entries, 1, Len(j.entries) - 1)]

\* The bookkeeping of one iteration of revert's loop: the last entry goes and
\* its dirty count with it.  (The code cuts all entries off at the end of the
\* loop; nothing reads them in between.)
pop(j) ==
    LET e == j.entries[Len(j.entries)] IN
    [entries |-> SubSeq(j.entries, 1, Len(j.entries) - 1),
     dirties |-> [a \in Addr |-> IF a \in dirtied(e) THEN j.dirties[a] - 1
                                 ELSE j.dirties[a]]]

\* The accounts Finalise and Copy visit.
DirtyAccounts == {a \in Addr : journal.dirties[a] # 0}

JournalTypeOK ==
    /\ journal \in [entries : Seq(Entry), dirties : [Addr -> Int]]
    /\ validRevisions \in Seq(Revision)
    /\ nextRevisionId \in Nat
    /\ reverting \in Nat

JournalInit ==
    /\ journal = newJournal
    /\ validRevisions = <<>>
    /\ nextRevisionId = 0
    /\ reverting = 0

-----------------------------------------------------------------------------
Idle == reverting = 0

Snapshot ==
    /\ Idle
    /\ nextRevisionId < MaxRevisionId
    /\ nextRevisionId' = nextRevisionId + 1
    /\ validRevisions' = Append(validRevisions,
           [id |-> nextRevisionId, journalIndex |-> Len(journal.entries)])
    /\ UNCHANGED <<journal, reverting>>

\* sort.Search: the first revision whose id is not below revid.
IsSearchResult(idx, revid) ==
    /\ idx \in 1..Len(validRevisions)
    /\ validRevisions[idx].id >= revid
    /\ \A i \in 1..(idx - 1) : validRevisions[i].id < revid

\* RevertToSnapshot up to the loop; any other id panics in the caller.
RevertToSnapshot(revid) ==
    /\ Idle
    /\ \E idx \in 1..Len(validRevisions) :
          /\ IsSearchResult(idx, revid)
          /\ validRevisions[idx].id = revid
          /\ reverting' = idx
    /\ UNCHANGED <<journal, validRevisions, nextRevisionId>>

\* An entry is left above the revision that is being reverted to.
Undoing ==
    /\ ~Idle
    /\ Len(journal.entries) > validRevisions[reverting].journalIndex

LastEntry == journal.entries[Len(journal.entries)]

\* Mutant of RevertDone: the revisions reverted over stay.
RevertDoneKeeps ==
    /\ ~Idle
    /\ ~Undoing
    /\ reverting' = 0
    /\ UNCHANGED <<journal, validRevisions, nextRevisionId>>

\* The end of RevertToSnapshot: the revisions from idx on are dropped.
RevertDone ==
    /\ ~Idle
    /\ ~Undoing
    /\ validRevisions' = SubSeq(validRevisions, 1, reverting - 1)
    /\ reverting' = 0
    /\ UNCHANGED <<journal, nextRevisionId>>

-----------------------------------------------------------------------------
(***************************************************************************)
(* The revision stack is searched with a binary search on the ids and cut  *)
(* at the index found, so both the ids and the journal indices have to     *)
(* stay sorted over every interleaving of snapshots, reverts, Finalise and *)
(* Copy, and no revision that survives may point past the journal.         *)
(***************************************************************************)
RevisionsOrdered ==
    /\ reverting \in 0..Len(validRevisions)
    /\ \A i \in 1..Len(validRevisions) :
          /\ validRevisions[i].id < nextRevisionId
          /\ Idle \/ i <= reverting =>
                validRevisions[i].journalIndex <= Len(journal.entries)
    /\ \A i, j \in 1..Len(validRevisions) : i < j =>
          /\ validRevisions[i].id < validRevisions[j].id
          /\ validRevisions[i].journalIndex <= validRevisions[j].journalIndex

(***************************************************************************)
(* journal.dirties decides which accounts Finalise and Copy visit.  It is  *)
(* maintained by counting up in append and down in revert; after any       *)
(* sequence of changes, partial reverts and transaction ends the counts    *)
(* are the numbers of entries still in the journal.  Only RIPEMD keeps     *)
(* more, the marks that touch leaves behind.                               *)
(***************************************************************************)
EntriesDirtying(a) ==
    {i \in 1..Len(journal.entries) : a \in dirtied(journal.entries[i])}

DirtiesExact ==
    \A a \in Addr :
        /\ journal.dirties[a] >= Cardinality(EntriesDirtying(a))
        /\ a # Ripemd => journal.dirties[a] = Cardinality(EntriesDirtying(a))
=============================================================================
