--------------------------- MODULE TxState_proofs ---------------------------
(***************************************************************************)
(* Lemmas about the journal, the revisions and the transaction state, for  *)
(* both StateDBs.  The packages differ in what the entry of a replaced     *)
(* object holds, so the lemmas are about journals over any set E of        *)
(* entries; the entries of the transaction state are the same in both.     *)
(***************************************************************************)
EXTENDS TxState, SequenceTheorems, FiniteSetTheorems, TLAPS

-----------------------------------------------------------------------------
(* The entries.                                                            *)

\* The account entries that the setters append are entries.
LEMMA EntryTypes ==
    /\ \A a \in Addr : [kind |-> "createObject", account |-> a] \in Entry
    /\ \A a \in Addr : [kind |-> "touch", account |-> a] \in Entry
    /\ \A a \in Addr, p \in Object, d \in BOOLEAN :
          [kind |-> "resetObject", account |-> a, prev |-> p, prevdestruct |-> d] \in Entry
    /\ \A a \in Addr, p \in BOOLEAN, b \in Int :
          [kind |-> "suicide", account |-> a, prev |-> p, prevbalance |-> b] \in Entry
    /\ \A a \in Addr, p \in Int : [kind |-> "balance", account |-> a, prev |-> p] \in Entry
    /\ \A a \in Addr, p \in Nat : [kind |-> "nonce", account |-> a, prev |-> p] \in Entry
    /\ \A a \in Addr, p \in Code : [kind |-> "code", account |-> a, prev |-> p] \in Entry
    /\ \A a \in Addr, k \in Key, v \in Word :
          [kind |-> "storage", account |-> a, key |-> k, prevalue |-> v] \in Entry
    /\ \A p \in Nat : [kind |-> "refund", prev |-> p] \in Entry
    /\ \A t \in TxHash : [kind |-> "addLog", txhash |-> t] \in Entry
    /\ \A h \in Preimage : [kind |-> "addPreimage", hash |-> h] \in Entry
    /\ \A w \in Warm : [kind |-> "accessListAddAccount", address |-> w] \in Entry
    /\ \A w \in Warm, x \in Slot :
          [kind |-> "accessListAddSlot", address |-> w, slot |-> x] \in Entry
    /\ \A w \in Warm, k \in TransientKey, v \in Word :
          [kind |-> "transientStorage", account |-> w, key |-> k, prevalue |-> v] \in Entry
BY DEF Entry

\* The fields of an entry have the types its revert method needs.
LEMMA EntryFields ==
    ASSUME NEW e \in Entry
    PROVE  /\ e.kind \in {"createObject", "touch"} => e.account \in Addr
           /\ e.kind = "resetObject" =>
                 e.account \in Addr /\ e.prev \in Object /\ e.prevdestruct \in BOOLEAN
           /\ e.kind = "suicide" =>
                 e.account \in Addr /\ e.prev \in BOOLEAN /\ e.prevbalance \in Int
           /\ e.kind = "balance" => e.account \in Addr /\ e.prev \in Int
           /\ e.kind = "nonce" => e.account \in Addr /\ e.prev \in Nat
           /\ e.kind = "code" => e.account \in Addr /\ e.prev \in Code
           /\ e.kind = "storage" => e.account \in Addr /\ e.key \in Key /\ e.prevalue \in Word
           /\ e.kind = "refund" => e.prev \in Nat
           /\ e.kind = "addLog" => e.txhash \in TxHash
           /\ e.kind = "accessListAddAccount" => e.address \in Warm
           /\ e.kind = "accessListAddSlot" => e.address \in Warm /\ e.slot \in Slot
           /\ e.kind = "transientStorage" =>
                 e.account \in Warm /\ e.key \in TransientKey /\ e.prevalue \in Word
BY DEF Entry

TxKinds == {"refund", "addLog", "addPreimage", "accessListAddAccount",
            "accessListAddSlot", "transientStorage"}

TxEntry == {e \in Entry : e.kind \in TxKinds}

\* The entries that the setters of the transaction state append.
LEMMA TxEntries ==
    /\ \A p \in Nat : [kind |-> "refund", prev |-> p] \in TxEntry
    /\ \A t \in TxHash : [kind |-> "addLog", txhash |-> t] \in TxEntry
    /\ \A h \in Preimage : [kind |-> "addPreimage", hash |-> h] \in TxEntry
    /\ \A w \in Warm : [kind |-> "accessListAddAccount", address |-> w] \in TxEntry
    /\ \A w \in Warm, x \in Slot :
          [kind |-> "accessListAddSlot", address |-> w, slot |-> x] \in TxEntry
    /\ \A w \in Warm, k \in TransientKey, v \in Word :
          [kind |-> "transientStorage", account |-> w, key |-> k, prevalue |-> v] \in TxEntry
BY EntryTypes DEF TxEntry, TxKinds

-----------------------------------------------------------------------------
(* The journal's operators.                                                *)

JournalOf(E) == [entries : Seq(E), dirties : [Addr -> Int]]

\* An empty journal is a journal.
LEMMA NewJournalOf ==
    ASSUME NEW E
    PROVE  newJournal \in JournalOf(E)
BY DEF newJournal, JournalOf

\* append adds its entry at the end of the journal and counts it.
LEMMA AppendOf ==
    ASSUME NEW E, NEW j \in JournalOf(E), NEW e \in E
    PROVE  /\ append(j, e) \in JournalOf(E)
           /\ append(j, e).entries = Append(j.entries, e)
           /\ \A a \in Addr : append(j, e).dirties[a] =
                 IF a \in dirtied(e) THEN j.dirties[a] + 1 ELSE j.dirties[a]
<1>1. j.entries \in Seq(E) /\ j.dirties \in [Addr -> Int]
  BY DEF JournalOf
<1>2. Append(j.entries, e) \in Seq(E)
  BY <1>1
<1>3. append(j, e) \in JournalOf(E)
  BY <1>1, <1>2 DEF append, JournalOf
<1> QED BY <1>3 DEF append

\* dirty counts without an entry.
LEMMA DirtyOf ==
    ASSUME NEW E, NEW j \in JournalOf(E), NEW a \in Addr
    PROVE  /\ dirty(j, a) \in JournalOf(E)
           /\ dirty(j, a).entries = j.entries
           /\ \A b \in Addr : dirty(j, a).dirties[b] =
                 IF b = a THEN j.dirties[b] + 1 ELSE j.dirties[b]
<1> DEFINE d == [j.dirties EXCEPT ![a] = @ + 1]
<1>1. j.entries \in Seq(E) /\ j.dirties \in [Addr -> Int]
  BY DEF JournalOf
<1>2. d \in [Addr -> Int] /\ \A b \in Addr : d[b] = IF b = a THEN j.dirties[b] + 1 ELSE j.dirties[b]
  BY <1>1
<1>3. dirty(j, a) = [j EXCEPT !.dirties = d]
  BY DEF dirty, JournalOf
<1> HIDE DEF d
<1>4. dirty(j, a).entries = j.entries /\ dirty(j, a).dirties = d
  BY <1>3 DEF JournalOf
<1>5. dirty(j, a) \in JournalOf(E)
  BY <1>2, <1>3 DEF JournalOf
<1> QED BY <1>2, <1>4, <1>5

\* Undoing the last entry shortens the journal by it and counts it back.
LEMMA PopOf ==
    ASSUME NEW E, NEW j \in JournalOf(E), j.entries # <<>>
    PROVE  /\ pop(j) \in JournalOf(E)
           /\ pop(j).entries = SubSeq(j.entries, 1, Len(j.entries) - 1)
           /\ pop(j).entries \in Seq(E)
           /\ Len(j.entries) = Len(pop(j).entries) + 1
           /\ \A i \in 1..Len(pop(j).entries) : pop(j).entries[i] = j.entries[i]
           /\ \A a \in Addr : pop(j).dirties[a] =
                 IF a \in dirtied(j.entries[Len(j.entries)])
                 THEN j.dirties[a] - 1 ELSE j.dirties[a]
<1>1. j.entries \in Seq(E) /\ j.dirties \in [Addr -> Int] /\ Len(j.entries) \in Nat \ {0}
  BY DEF JournalOf
<1>2. SubSeq(j.entries, 1, Len(j.entries) - 1) \in Seq(E)
  BY <1>1
<1>3. pop(j).entries = SubSeq(j.entries, 1, Len(j.entries) - 1)
  BY DEF pop
<1>4. pop(j) \in JournalOf(E)
  BY <1>1, <1>2 DEF pop, JournalOf
<1>5. \A a \in Addr : pop(j).dirties[a] =
         IF a \in dirtied(j.entries[Len(j.entries)]) THEN j.dirties[a] - 1 ELSE j.dirties[a]
  BY DEF pop
<1> QED BY <1>1, <1>2, <1>3, <1>4, <1>5

-----------------------------------------------------------------------------
(* The dirty counts.                                                       *)

Dirtying(es, a) == {i \in 1..Len(es) : a \in dirtied(es[i])}

\* How often the account is marked beyond its entries.
ExtraMarks(j, a) == j.dirties[a] - Cardinality(Dirtying(j.entries, a))

\* The positions of the entries that dirty an account can be counted.
LEMMA DirtyingFinite ==
    ASSUME NEW E, NEW es \in Seq(E), NEW a
    PROVE  /\ IsFiniteSet(Dirtying(es, a))
           /\ Cardinality(Dirtying(es, a)) \in Nat
           /\ Cardinality(Dirtying(es, a)) = 0 <=> Dirtying(es, a) = {}
<1>1. Len(es) \in Nat /\ 1 \in Int /\ Dirtying(es, a) \in SUBSET (1..Len(es))
  BY DEF Dirtying
<1>2. IsFiniteSet(1..Len(es))
  BY <1>1, FS_Interval
<1>3. IsFiniteSet(Dirtying(es, a))
  BY <1>1, <1>2, FS_Subset
<1> QED BY <1>3, FS_CardinalityType, FS_EmptySet

\* append counts its entry.
LEMMA MarksAppend ==
    ASSUME NEW E, NEW j \in JournalOf(E), NEW e \in E, NEW a \in Addr
    PROVE  ExtraMarks(append(j, e), a) = ExtraMarks(j, a)
<1> DEFINE es == j.entries
           fs == Append(es, e)
           k  == append(j, e)
<1>1. es \in Seq(E) /\ Len(es) \in Nat /\ j.dirties \in [Addr -> Int]
  BY DEF JournalOf
<1>2. fs \in Seq(E) /\ Len(fs) = Len(es) + 1 /\ fs[Len(es) + 1] = e
      /\ \A i \in 1..Len(es) : fs[i] = es[i]
  BY <1>1
<1>3. k.entries = fs /\ k.dirties[a] = IF a \in dirtied(e) THEN j.dirties[a] + 1 ELSE j.dirties[a]
  BY AppendOf
<1>4. Cardinality(Dirtying(es, a)) \in Nat /\ IsFiniteSet(Dirtying(es, a)) /\ j.dirties[a] \in Int
  BY <1>1, DirtyingFinite
<1>5. CASE a \in dirtied(e)
  <2>1. Dirtying(fs, a) = Dirtying(es, a) \cup {Len(es) + 1}
    <3> HIDE DEF fs, es
    <3> QED BY <1>1, <1>2, <1>5 DEF Dirtying
  <2>2. Len(es) + 1 \notin Dirtying(es, a)
    BY <1>1 DEF Dirtying
  <2>3. Cardinality(Dirtying(fs, a)) = Cardinality(Dirtying(es, a)) + 1
    BY <1>4, <2>1, <2>2, FS_AddElement
  <2> HIDE DEF k, fs, es
  <2> QED BY <1>3, <1>4, <1>5, <2>3 DEF ExtraMarks, k, es
<1>6. CASE a \notin dirtied(e)
  <2>1. Dirtying(fs, a) = Dirtying(es, a)
    <3> HIDE DEF fs, es
    <3> QED BY <1>1, <1>2, <1>6 DEF Dirtying
  <2> HIDE DEF k, fs, es
  <2> QED BY <1>3, <1>6, <2>1 DEF ExtraMarks, k, es
<1> QED BY <1>5, <1>6

\* dirty adds a mark.
LEMMA MarksDirty ==
    ASSUME NEW E, NEW j \in JournalOf(E), NEW a \in Addr, NEW b \in Addr
    PROVE  ExtraMarks(dirty(j, a), b) = IF b = a THEN ExtraMarks(j, b) + 1 ELSE ExtraMarks(j, b)
<1>1. j.entries \in Seq(E) /\ j.dirties[b] \in Int
  BY DEF JournalOf
<1>2. Cardinality(Dirtying(j.entries, b)) \in Nat
  BY <1>1, DirtyingFinite
<1> QED BY <1>1, <1>2, DirtyOf DEF ExtraMarks

\* pop takes back the count of the entry it removes.
LEMMA MarksPop ==
    ASSUME NEW E, NEW j \in JournalOf(E), j.entries # <<>>, NEW a \in Addr
    PROVE  ExtraMarks(pop(j), a) = ExtraMarks(j, a)
<1> DEFINE es == j.entries
           fs == pop(j).entries
           e  == es[Len(es)]
           k  == pop(j)
<1>1. es \in Seq(E) /\ Len(es) \in Nat \ {0} /\ j.dirties \in [Addr -> Int]
  BY DEF JournalOf
<1>2. /\ fs \in Seq(E) /\ Len(fs) = Len(es) - 1 /\ \A i \in 1..Len(fs) : fs[i] = es[i]
      /\ k.dirties[a] = IF a \in dirtied(e) THEN j.dirties[a] - 1 ELSE j.dirties[a]
  BY <1>1, PopOf
<1>4. Cardinality(Dirtying(es, a)) \in Nat /\ IsFiniteSet(Dirtying(es, a)) /\ j.dirties[a] \in Int
  BY <1>1, DirtyingFinite
<1>5. CASE a \in dirtied(e)
  <2>1. Dirtying(fs, a) = Dirtying(es, a) \ {Len(es)}
    <3> HIDE DEF fs, es
    <3> QED BY <1>1, <1>2, <1>5 DEF Dirtying
  <2>2. Len(es) \in Dirtying(es, a)
    BY <1>1, <1>5 DEF Dirtying
  <2>3. Cardinality(Dirtying(fs, a)) = Cardinality(Dirtying(es, a)) - 1
    BY <1>4, <2>1, <2>2, FS_RemoveElement
  <2> HIDE DEF k, es
  <2> QED BY <1>2, <1>4, <1>5, <2>3 DEF ExtraMarks, k, es
<1>6. CASE a \notin dirtied(e)
  <2>1. Dirtying(fs, a) = Dirtying(es, a)
    <3> HIDE DEF fs, es
    <3> QED BY <1>1, <1>2, <1>6 DEF Dirtying
  <2> HIDE DEF k, es
  <2> QED BY <1>2, <1>6, <2>1 DEF ExtraMarks, k, es
<1> QED BY <1>5, <1>6

\* An empty journal marks nothing.
LEMMA MarksNew ==
    ASSUME NEW a \in Addr
    PROVE  ExtraMarks(newJournal, a) = 0
<1>1. Dirtying(<<>>, a) = {}
  BY DEF Dirtying
<1>2. newJournal.entries = <<>> /\ newJournal.dirties[a] = 0
  BY DEF newJournal
<1>3. Cardinality(Dirtying(<<>>, a)) = 0
  BY <1>1, FS_EmptySet
<1> QED BY <1>2, <1>3 DEF ExtraMarks

-----------------------------------------------------------------------------
(* Types: the setters append entries of their own, the reverts keep the    *)
(* types.                                                                  *)

AccessListType == [addresses : [Warm -> Int \cup {Nil}], slots : Seq(SUBSET Slot)]

\* The operations of the access list keep its type.
LEMMA AccessListTypes ==
    ASSUME NEW al \in AccessListType, NEW w \in Warm, NEW x \in Slot
    PROVE  /\ AL!newAccessList \in AccessListType
           /\ AL!AddAddress(al, w) \in AccessListType
           /\ AL!AddSlot(al, w, x) \in AccessListType
           /\ AL!DeleteAddress(al, w) \in AccessListType
           /\ AL!CanDeleteSlot(al, w) => AL!DeleteSlot(al, w, x) \in AccessListType
<1>1. al.addresses \in [Warm -> Int \cup {Nil}] /\ al.slots \in Seq(SUBSET Slot)
  BY DEF AccessListType
<1>2. AL!newAccessList \in AccessListType
  BY DEF AL!newAccessList, AccessListType
<1>3. AL!AddAddress(al, w) \in AccessListType
  <2>1. [al.addresses EXCEPT ![w] = -1] \in [Warm -> Int \cup {Nil}]
    BY <1>1
  <2> QED BY <2>1 DEF AL!AddAddress, AccessListType
<1>4. AL!DeleteAddress(al, w) \in AccessListType
  <2>1. [al.addresses EXCEPT ![w] = Nil] \in [Warm -> Int \cup {Nil}]
    BY <1>1
  <2> QED BY <2>1 DEF AL!DeleteAddress, AccessListType
<1>5. AL!AddSlot(al, w, x) \in AccessListType
  <2>1. CASE al.addresses[w] \in {Nil, -1}
    <3>1. [al.addresses EXCEPT ![w] = Len(al.slots)] \in [Warm -> Int \cup {Nil}]
      BY <1>1
    <3>2. Append(al.slots, {x}) \in Seq(SUBSET Slot)
      BY <1>1
    <3> QED BY <2>1, <3>1, <3>2 DEF AL!AddSlot, AccessListType
  <2>2. CASE al.addresses[w] \notin {Nil, -1}
    <3> DEFINE i  == al.addresses[w] + 1
               ss == [al.slots EXCEPT ![i] = @ \cup {x}]
    <3>1. ss \in Seq(SUBSET Slot)
      <4>1. CASE i \in 1..Len(al.slots)
        <5>1. al.slots[i] \cup {x} \in SUBSET Slot
          BY <1>1, <4>1
        <5> QED BY <1>1, <4>1, <5>1, ExceptSeq
      <4>2. CASE i \notin 1..Len(al.slots)
        <5>1. DOMAIN al.slots = 1..Len(al.slots)
          BY <1>1
        <5>2. ss = al.slots
          BY <1>1, <4>2, <5>1
        <5> QED BY <1>1, <5>2
      <4> QED BY <4>1, <4>2
    <3>2. AL!AddSlot(al, w, x) = [al EXCEPT !.slots = ss]
      BY <2>2 DEF AL!AddSlot
    <3> HIDE DEF ss
    <3> QED BY <3>1, <3>2 DEF AccessListType
  <2> QED BY <2>1, <2>2
<1>6. ASSUME AL!CanDeleteSlot(al, w) PROVE AL!DeleteSlot(al, w, x) \in AccessListType
  <2> DEFINE i == al.addresses[w]
             left == AL!SlotSet(al, w) \ {x}
             ss == [al.slots EXCEPT ![i + 1] = left]
  <2>1. i \in Int /\ i + 1 \in 1..Len(al.slots)
    BY <1>1, <1>6 DEF AL!CanDeleteSlot, AL!ContainsAddress
  <2>2. left \in SUBSET Slot
    BY <1>1, <2>1 DEF AL!SlotSet
  <2>3. SubSeq(al.slots, 1, i) \in Seq(SUBSET Slot)
    BY <1>1, <2>1
  <2>4. [al.addresses EXCEPT ![w] = -1] \in [Warm -> Int \cup {Nil}]
    BY <1>1
  <2> HIDE DEF left, i
  <2>5. ss \in Seq(SUBSET Slot)
    BY <1>1, <2>1, <2>2, ExceptSeq
  <2> HIDE DEF ss
  <2>6. AL!DeleteSlot(al, w, x) =
           IF left = {}
           THEN [addresses |-> [al.addresses EXCEPT ![w] = -1], slots |-> SubSeq(al.slots, 1, i)]
           ELSE [al EXCEPT !.slots = ss]
    BY DEF AL!DeleteSlot, left, i, ss
  <2> QED BY <2>3, <2>4, <2>5, <2>6 DEF AccessListType
<1> QED BY <1>2, <1>3, <1>4, <1>5, <1>6

\* The setters of the transaction state append none, one or two entries of
\* their own kinds.
TxGrows ==
    /\ Idle
    /\ UNCHANGED <<validRevisions, nextRevisionId, reverting>>
    /\ \/ journal' = journal
       \/ \E e \in TxEntry : journal' = append(journal, e)
       \/ \E e, f \in TxEntry : journal' = append(append(journal, e), f)

\* The setters of the transaction state keep its types and only append to the journal.
LEMMA TxSetterStep == TxTypeOK /\ TxSetter => TxTypeOK' /\ TxGrows
<1> SUFFICES ASSUME TxTypeOK, TxSetter
             PROVE  TxTypeOK' /\ TxGrows
  OBVIOUS
<1> USE DEF TxTypeOK
<1>a. accessList \in AccessListType
  BY DEF AccessListType
<1>1. CASE AddLog
  <2>1. [kind |-> "addLog", txhash |-> thash] \in TxEntry
    BY TxEntries
  <2>2. Append(logs[thash], logSize) \in Seq(Int)
    OBVIOUS
  <2>3. logs' \in [TxHash -> Seq(Int)]
    BY <1>1, <2>2 DEF AddLog
  <2> QED BY <1>1, <2>1, <2>3 DEF AddLog, Journaled, TxGrows
<1>2. ASSUME NEW h \in Preimage, AddPreimage(h) PROVE TxTypeOK' /\ TxGrows
  <2>1. [kind |-> "addPreimage", hash |-> h] \in TxEntry
    BY TxEntries
  <2> QED BY <1>2, <2>1 DEF AddPreimage, Journaled, TxGrows
<1>3. ASSUME NEW g \in Gas, AddRefund(g) \/ SubRefund(g) PROVE TxTypeOK' /\ TxGrows
  <2>1. [kind |-> "refund", prev |-> refund] \in TxEntry
    BY TxEntries
  <2>2. g \in Nat
    BY TxAssumption
  <2> QED BY <1>3, <2>1, <2>2 DEF AddRefund, SubRefund, Journaled, TxGrows
<1>4. ASSUME NEW w \in Warm, NEW k \in TransientKey, NEW v \in Word, SetTransientState(w, k, v)
      PROVE  TxTypeOK' /\ TxGrows
  <2>1. transientStorage[w][k] \in Word
    OBVIOUS
  <2>2. [kind |-> "transientStorage", account |-> w, key |-> k,
         prevalue |-> transientStorage[w][k]] \in TxEntry
    BY <2>1, TxEntries
  <2>3. transientStorage' \in [Warm -> [TransientKey -> Word]]
    BY <1>4 DEF SetTransientState
  <2> QED BY <1>4, <2>2, <2>3 DEF SetTransientState, Journaled, TxGrows
<1>5. ASSUME NEW w \in Warm, AddAddressToAccessList(w) PROVE TxTypeOK' /\ TxGrows
  <2>1. [kind |-> "accessListAddAccount", address |-> w] \in TxEntry
    BY TxEntries
  <2>2. accessList' \in AccessListType
    <3>1. [accessList.addresses EXCEPT ![w] = -1] \in [Warm -> Int \cup {Nil}]
      BY <1>a DEF AccessListType
    <3> QED BY <1>5, <1>a, <3>1 DEF AddAddressToAccessList, AL!AddAddress, AccessListType
  <2> QED BY <1>5, <2>1, <2>2 DEF AddAddressToAccessList, Journaled, TxGrows, AccessListType
<1>6. ASSUME NEW w \in Warm, NEW x \in Slot, AddSlotToAccessList(w, x)
      PROVE  TxTypeOK' /\ TxGrows
  <2>1. /\ [kind |-> "accessListAddAccount", address |-> w] \in TxEntry
        /\ [kind |-> "accessListAddSlot", address |-> w, slot |-> x] \in TxEntry
    BY TxEntries
  <2>2. accessList' \in AccessListType
    BY <1>6, <1>a, AccessListTypes DEF AddSlotToAccessList
  <2> QED BY <1>6, <2>1, <2>2 DEF AddSlotToAccessList, Journaled, TxGrows, AccessListType
<1>7. ASSUME NEW t \in TxHash, SetTxContext(t) PROVE TxTypeOK' /\ TxGrows
  BY <1>7 DEF SetTxContext, TxGrows, journalVars
<1>8. ASSUME NEW addrs \in SUBSET Warm, NEW berlin \in BOOLEAN,
             NEW tuple \in {<<>>} \cup (addrs \X Slot), Prepare(addrs, berlin, tuple)
      PROVE  TxTypeOK' /\ TxGrows
  <2> DEFINE al == [AL!newAccessList EXCEPT !.addresses =
                       [w \in Warm |-> IF w \in addrs THEN -1 ELSE Nil]]
  <2>1. al \in AccessListType
    <3> DEFINE f == [w \in Warm |-> IF w \in addrs THEN -1 ELSE Nil]
    <3>1. f \in [Warm -> Int \cup {Nil}]
      OBVIOUS
    <3> HIDE DEF f
    <3>2. [AL!newAccessList EXCEPT !.addresses = f] = [addresses |-> f, slots |-> <<>>]
      BY DEF AL!newAccessList
    <3>3. [addresses |-> f, slots |-> <<>>] \in AccessListType
      BY <3>1 DEF AccessListType
    <3> QED BY <3>2, <3>3 DEF f
  <2>2. tuple # <<>> => tuple[1] \in Warm /\ tuple[2] \in Slot
    OBVIOUS
  <2> HIDE DEF al
  <2>3. tuple # <<>> => AL!AddSlot(al, tuple[1], tuple[2]) \in AccessListType
    BY <2>1, <2>2, AccessListTypes
  <2>4. accessList' \in AccessListType
    BY <1>8, <1>a, <2>1, <2>3 DEF Prepare, al
  <2>5. transientStorage' \in [Warm -> [TransientKey -> Word]]
    BY <1>8, ConstantsAssumption DEF Prepare, newTransientStorage
  <2> QED BY <1>8, <2>4, <2>5 DEF Prepare, TxGrows, AccessListType, journalVars
<1> QED BY <1>1, <1>2, <1>3, <1>4, <1>5, <1>6, <1>7, <1>8 DEF TxSetter

\* Reverting an entry of the transaction state keeps its types and pops the entry.
LEMMA TxUndoTypes ==
    ASSUME TxTypeOK, TxUndo, LastEntry \in Entry
    PROVE  /\ TxTypeOK'
           /\ Undoing
           /\ journal' = pop(journal)
           /\ LastEntry \in TxEntry
           /\ UNCHANGED <<validRevisions, nextRevisionId, reverting>>
<1> USE DEF TxTypeOK
<1>1. /\ Undoing
      /\ journal' = pop(journal)
      /\ UNCHANGED <<validRevisions, nextRevisionId, reverting>>
      /\ LastEntry.kind \in TxKinds
  BY DEF TxUndo, UndoRefund, UndoAddLog, UndoAddPreimage, UndoAccessListAddAccount,
         UndoAccessListAddSlot, UndoTransientStorage, Pops, TxKinds
<1>2. LastEntry \in Entry
  OBVIOUS
<1>3. LastEntry \in TxEntry
  BY <1>1 DEF TxEntry
<1>a. accessList \in AccessListType
  BY DEF AccessListType
<1> SUFFICES TxTypeOK'
  BY <1>1, <1>3
<1> DEFINE e == LastEntry
<1>4. CASE UndoRefund
  BY <1>2, <1>4, EntryFields DEF UndoRefund, Pops
<1>5. CASE UndoAddLog
  <2>1. e.txhash \in TxHash
    BY <1>2, <1>5, EntryFields DEF UndoAddLog, Pops
  <2>2. SubSeq(logs[e.txhash], 1, Len(logs[e.txhash]) - 1) \in Seq(Int)
    BY <2>1, SubSeqProperties
  <2>3. logs' \in [TxHash -> Seq(Int)]
    BY <1>5, <2>1, <2>2 DEF UndoAddLog
  <2> QED BY <1>5, <2>3 DEF UndoAddLog
<1>6. CASE UndoAddPreimage
  BY <1>6 DEF UndoAddPreimage
<1>7. CASE UndoAccessListAddAccount
  <2>1. e.address \in Warm
    BY <1>2, <1>7, EntryFields DEF UndoAccessListAddAccount, Pops
  <2>2. accessList' \in AccessListType
    <3>1. [accessList.addresses EXCEPT ![e.address] = Nil] \in [Warm -> Int \cup {Nil}]
      BY <1>a, <2>1 DEF AccessListType
    <3> QED BY <1>7, <1>a, <3>1 DEF UndoAccessListAddAccount, AL!DeleteAddress, AccessListType
  <2> QED BY <1>7, <2>2 DEF UndoAccessListAddAccount, AccessListType
<1>8. CASE UndoAccessListAddSlot
  <2>1. e.address \in Warm /\ e.slot \in Slot
    BY <1>2, <1>8, EntryFields DEF UndoAccessListAddSlot, Pops
  <2>2. accessList' \in AccessListType
    BY <1>8, <1>a, <2>1, AccessListTypes DEF UndoAccessListAddSlot
  <2> QED BY <1>8, <2>2 DEF UndoAccessListAddSlot, AccessListType
<1>9. CASE UndoTransientStorage
  <2>1. e.account \in Warm /\ e.key \in TransientKey /\ e.prevalue \in Word
    BY <1>2, <1>9, EntryFields DEF UndoTransientStorage, Pops
  <2>2. transientStorage' \in [Warm -> [TransientKey -> Word]]
    BY <1>9, <2>1 DEF UndoTransientStorage
  <2> QED BY <1>9, <2>2 DEF UndoTransientStorage
<1> QED BY <1>4, <1>5, <1>6, <1>7, <1>8, <1>9 DEF TxUndo

-----------------------------------------------------------------------------
(* The revisions.                                                          *)

RevisionTypes ==
    /\ validRevisions \in Seq(Revision)
    /\ nextRevisionId \in Nat
    /\ reverting \in Nat
    /\ Len(journal.entries) \in Nat

\* A revision has an id and an index.
LEMMA RevisionFields ==
    ASSUME NEW rs \in Seq(Revision)
    PROVE  /\ Len(rs) \in Nat
           /\ \A i \in 1..Len(rs) : rs[i].journalIndex \in Nat /\ rs[i].id \in Nat
<1> SUFFICES ASSUME NEW i \in 1..Len(rs) PROVE rs[i].journalIndex \in Nat /\ rs[i].id \in Nat
  OBVIOUS
<1>1. rs[i] \in Revision
  OBVIOUS
<1> QED BY <1>1 DEF Revision

\* A journal that only grows keeps the revisions in order.
LEMMA GrowRevisions ==
    ASSUME RevisionTypes, RevisionsOrdered, Idle,
           UNCHANGED <<validRevisions, nextRevisionId, reverting>>,
           Len(journal'.entries) \in Nat, Len(journal.entries) <= Len(journal'.entries)
    PROVE  RevisionTypes' /\ RevisionsOrdered'
<1>1. \A i \in 1..Len(validRevisions) : validRevisions[i].journalIndex \in Nat
  BY RevisionFields DEF RevisionTypes
<1>2. RevisionsOrdered'
  BY <1>1 DEF RevisionTypes, RevisionsOrdered, Idle
<1> QED BY <1>2 DEF RevisionTypes

\* While a revert is in progress the journal has an entry left to undo.
LEMMA UndoingEntries ==
    ASSUME RevisionTypes, RevisionsOrdered, Undoing
    PROVE  /\ reverting \in 1..Len(validRevisions)
           /\ Len(journal.entries) > 0
<1>1. reverting \in 1..Len(validRevisions) /\ validRevisions[reverting].journalIndex \in Nat
  BY RevisionFields DEF RevisionTypes, RevisionsOrdered, Undoing, Idle
<1> QED BY <1>1 DEF RevisionTypes, Undoing

\* The entry that is undone lies above the revision that is reverted to, so
\* the revisions that survive stay within the journal.
LEMMA PopRevisions ==
    ASSUME RevisionTypes, RevisionsOrdered, Undoing,
           Len(journal'.entries) \in Nat, Len(journal.entries) = Len(journal'.entries) + 1,
           UNCHANGED <<validRevisions, nextRevisionId, reverting>>
    PROVE  RevisionTypes' /\ RevisionsOrdered'
<1>1. /\ reverting \in 1..Len(validRevisions)
      /\ \A i \in 1..Len(validRevisions) : validRevisions[i].journalIndex \in Nat
      /\ Len(validRevisions) \in Nat /\ Len(journal.entries) \in Nat
  BY UndoingEntries, RevisionFields DEF RevisionTypes
<1>2. \A i \in 1..reverting : validRevisions[i].journalIndex <= validRevisions[reverting].journalIndex
  BY <1>1 DEF RevisionsOrdered
<1>3. \A i \in 1..reverting : validRevisions[i].journalIndex <= Len(journal'.entries)
  BY <1>1, <1>2 DEF Undoing
<1>4. RevisionsOrdered'
  BY <1>1, <1>3 DEF RevisionsOrdered, Idle
<1> QED BY <1>4 DEF RevisionTypes

\* Taking a snapshot keeps the revisions in order: its id and its index are
\* the largest so far.
LEMMA SnapshotRevisions ==
    ASSUME RevisionTypes, RevisionsOrdered, Snapshot
    PROVE  /\ RevisionTypes' /\ RevisionsOrdered'
           /\ Len(validRevisions') = Len(validRevisions) + 1
           /\ \A i \in 1..Len(validRevisions) : validRevisions'[i] = validRevisions[i]
           /\ validRevisions'[Len(validRevisions) + 1].journalIndex = Len(journal.entries)
<1> DEFINE r == [id |-> nextRevisionId, journalIndex |-> Len(journal.entries)]
<1>1. /\ validRevisions \in Seq(Revision) /\ nextRevisionId \in Nat
      /\ Len(journal.entries) \in Nat /\ reverting = 0
  BY DEF RevisionTypes, Snapshot, Idle
<1>2. r \in Revision /\ r.id = nextRevisionId /\ r.journalIndex = Len(journal.entries)
  BY <1>1 DEF Revision
<1>3. /\ validRevisions' = Append(validRevisions, r)
      /\ nextRevisionId' = nextRevisionId + 1
      /\ journal' = journal /\ reverting' = reverting
  BY DEF Snapshot
<1> HIDE DEF r
<1>4. /\ validRevisions' \in Seq(Revision)
      /\ Len(validRevisions') = Len(validRevisions) + 1
      /\ \A i \in 1..Len(validRevisions) : validRevisions'[i] = validRevisions[i]
      /\ validRevisions'[Len(validRevisions) + 1] = r
      /\ Len(validRevisions) \in Nat
  BY <1>1, <1>2, <1>3
<1>5. \A i \in 1..Len(validRevisions') :
         validRevisions'[i].id \in Nat /\ validRevisions'[i].journalIndex \in Nat
  BY <1>4, RevisionFields
<1>6. \A i \in 1..Len(validRevisions) :
         /\ validRevisions'[i].id < nextRevisionId
         /\ validRevisions'[i].journalIndex <= Len(journal.entries)
  BY <1>1, <1>4 DEF RevisionsOrdered, Idle
<1>7. \A i \in 1..Len(validRevisions') :
         /\ validRevisions'[i].id < nextRevisionId'
         /\ validRevisions'[i].journalIndex <= Len(journal.entries)
  BY <1>1, <1>2, <1>3, <1>4, <1>5, <1>6
<1>8. \A i, j \in 1..Len(validRevisions') : i < j =>
         /\ validRevisions'[i].id < validRevisions'[j].id
         /\ validRevisions'[i].journalIndex <= validRevisions'[j].journalIndex
  <2> SUFFICES ASSUME NEW i \in 1..Len(validRevisions'), NEW j \in 1..Len(validRevisions'), i < j
               PROVE  /\ validRevisions'[i].id < validRevisions'[j].id
                      /\ validRevisions'[i].journalIndex <= validRevisions'[j].journalIndex
    OBVIOUS
  <2>1. CASE j = Len(validRevisions) + 1
    BY <1>2, <1>4, <1>6, <2>1
  <2>2. CASE j # Len(validRevisions) + 1
    <3>1. i \in 1..Len(validRevisions) /\ j \in 1..Len(validRevisions)
      BY <1>4, <2>2
    <3> QED BY <1>4, <3>1 DEF RevisionsOrdered
  <2> QED BY <2>1, <2>2
<1>9. RevisionsOrdered'
  BY <1>1, <1>3, <1>4, <1>7, <1>8 DEF RevisionsOrdered
<1>10. RevisionTypes'
  BY <1>1, <1>3, <1>4 DEF RevisionTypes
<1> QED BY <1>2, <1>4, <1>9, <1>10

\* Beginning a revert only picks an index of the revision stack.
LEMMA RevertRevisions ==
    ASSUME RevisionTypes, RevisionsOrdered, NEW id, RevertToSnapshot(id)
    PROVE  RevisionTypes' /\ RevisionsOrdered'
<1>1. /\ reverting = 0 /\ reverting' \in 1..Len(validRevisions)
      /\ UNCHANGED <<journal, validRevisions, nextRevisionId>>
  BY DEF RevertToSnapshot, Idle
<1>2. Len(validRevisions) \in Nat
  BY DEF RevisionTypes
<1>3. reverting' \in 0..Len(validRevisions')
  BY <1>1, <1>2
<1>4. \A i \in 1..Len(validRevisions) :
         /\ validRevisions[i].id < nextRevisionId
         /\ validRevisions[i].journalIndex <= Len(journal.entries)
  BY <1>1 DEF RevisionsOrdered, Idle
<1>5. \A i, j \in 1..Len(validRevisions) : i < j =>
         /\ validRevisions[i].id < validRevisions[j].id
         /\ validRevisions[i].journalIndex <= validRevisions[j].journalIndex
  BY DEF RevisionsOrdered
<1>6. RevisionsOrdered'
  BY <1>1, <1>3, <1>4, <1>5 DEF RevisionsOrdered
<1> QED BY <1>1, <1>2, <1>6 DEF RevisionTypes

\* The end of a revert cuts the stack below the revision reverted to.
LEMMA DoneRevisions ==
    ASSUME RevisionTypes, RevisionsOrdered, RevertDone
    PROVE  /\ RevisionTypes' /\ RevisionsOrdered'
           /\ Len(validRevisions') = reverting - 1
           /\ reverting \in 1..Len(validRevisions)
           /\ \A i \in 1..(reverting - 1) : validRevisions'[i] = validRevisions[i]
<1>1. /\ reverting \in 1..Len(validRevisions) /\ reverting' = 0
      /\ validRevisions' = SubSeq(validRevisions, 1, reverting - 1)
      /\ UNCHANGED <<journal, nextRevisionId>>
      /\ validRevisions \in Seq(Revision) /\ Len(validRevisions) \in Nat
  BY DEF RevertDone, Idle, RevisionTypes, RevisionsOrdered
<1>2. /\ validRevisions' \in Seq(Revision)
      /\ Len(validRevisions') = reverting - 1
      /\ \A i \in 1..(reverting - 1) : validRevisions'[i] = validRevisions[i]
  BY <1>1, SubSeqProperties
<1>3. RevisionsOrdered'
  BY <1>1, <1>2 DEF RevisionsOrdered, Idle
<1> QED BY <1>1, <1>2, <1>3 DEF RevisionTypes

\* Without snapshots there is nothing to order.
LEMMA NoRevisions ==
    ASSUME validRevisions' = <<>>, reverting' = 0, nextRevisionId' \in Nat,
           Len(journal'.entries) \in Nat
    PROVE  RevisionTypes' /\ RevisionsOrdered'
BY DEF RevisionTypes, RevisionsOrdered

-----------------------------------------------------------------------------
(* What calls append to the journal.                                       *)

\* fs continues es with entries of none of the given kinds.
Extends(es, fs, kinds) ==
    /\ Len(es) <= Len(fs)
    /\ \A i \in 1..Len(es) : fs[i] = es[i]
    /\ \A i \in (Len(es) + 1)..Len(fs) : fs[i].kind \notin kinds

\* Nothing, and one entry, continue a journal so.
LEMMA ExtendsAppend ==
    ASSUME NEW E, NEW es \in Seq(E), NEW kinds
    PROVE  /\ Extends(es, es, kinds)
           /\ \A e \in E : e.kind \notin kinds => Extends(es, Append(es, e), kinds)
<1>1. Len(es) \in Nat
  OBVIOUS
<1>2. ASSUME NEW e \in E, e.kind \notin kinds
      PROVE  Extends(es, Append(es, e), kinds)
  <2> DEFINE fs == Append(es, e)
  <2>1. /\ Len(fs) = Len(es) + 1 /\ fs[Len(es) + 1] = e
        /\ \A i \in 1..Len(es) : fs[i] = es[i]
    OBVIOUS
  <2> HIDE DEF fs
  <2>2. Extends(es, fs, kinds)
    BY <1>1, <1>2, <2>1 DEF Extends
  <2> QED BY <2>2 DEF fs
<1> QED BY <1>1, <1>2 DEF Extends

\* Continuing twice is continuing.
LEMMA ExtendsTwice ==
    ASSUME NEW E, NEW es \in Seq(E), NEW fs \in Seq(E), NEW gs \in Seq(E), NEW kinds,
           Extends(es, fs, kinds), Extends(fs, gs, kinds)
    PROVE  Extends(es, gs, kinds)
<1>1. Len(es) \in Nat /\ Len(fs) \in Nat /\ Len(gs) \in Nat
  OBVIOUS
<1>2. \A i \in (Len(es) + 1)..Len(gs) : i \in (Len(es) + 1)..Len(fs) \/ i \in (Len(fs) + 1)..Len(gs)
  BY <1>1
<1>3. \A i \in (Len(es) + 1)..Len(fs) : gs[i] = fs[i]
  BY <1>1 DEF Extends
<1> QED BY <1>1, <1>2, <1>3 DEF Extends

-----------------------------------------------------------------------------
(* The access list and the entries of the journal that concern it.         *)

AddsAccount(e, w) == e.kind = "accessListAddAccount" /\ e.address = w

AddsSlot(e, w, x) == e.kind = "accessListAddSlot" /\ e.address = w /\ e.slot = x

AccessListKinds == {"accessListAddAccount", "accessListAddSlot"}

HasSlots(al, w) == al.addresses[w] \notin {Nil, -1}

\* The slot was added, once, and is there.
SlotsThere(al, es) ==
    \A i \in 1..Len(es) : \A w \in Warm, x \in Slot : AddsSlot(es[i], w, x) =>
        /\ AL!ContainsSlot(al, w, x)
        /\ \A j \in 1..Len(es) : AddsSlot(es[j], w, x) => j = i

\* The address was added, and all its slots after it.
AccountsFirst(al, es) ==
    \A i \in 1..Len(es) : \A w \in Warm : AddsAccount(es[i], w) =>
        /\ AL!ContainsAddress(al, w)
        /\ \A j \in 1..Len(es) : AddsAccount(es[j], w) => j = i
        /\ \A x \in Slot : AL!ContainsSlot(al, w, x) =>
              \E m \in (i + 1)..Len(es) : AddsSlot(es[m], w, x)

\* Of two slot sets, the earlier has a slot that no entry can take away before
\* the later set is gone.
SetsStacked(al, es) ==
    \A v, w \in Warm :
        HasSlots(al, v) /\ HasSlots(al, w) /\ al.addresses[v] < al.addresses[w] =>
            \E x \in Slot :
                /\ AL!ContainsSlot(al, v, x)
                /\ \A i \in 1..Len(es) : AddsSlot(es[i], v, x) =>
                      \A y \in Slot : AL!ContainsSlot(al, w, y) =>
                          \E m \in (i + 1)..Len(es) : AddsSlot(es[m], w, y)

AccessListOrdered(al, es) ==
    /\ al \in AccessListType
    /\ AL!WellFormedAccessList(al)
    /\ SlotsThere(al, es)
    /\ AccountsFirst(al, es)
    /\ SetsStacked(al, es)

\* A slot set has a position in the list and a slot in it.
LEMMA SlotSetThere ==
    ASSUME NEW al \in AccessListType, AL!WellFormedAccessList(al), NEW w \in Warm, HasSlots(al, w)
    PROVE  /\ al.addresses[w] \in 0..(Len(al.slots) - 1)
           /\ al.addresses[w] + 1 \in 1..Len(al.slots)
           /\ \E x \in Slot : AL!ContainsSlot(al, w, x)
           /\ \A x \in Slot : AL!ContainsSlot(al, w, x) <=> x \in al.slots[al.addresses[w] + 1]
           /\ al.slots[al.addresses[w] + 1] \in SUBSET Slot
           /\ AL!SlotSet(al, w) = al.slots[al.addresses[w] + 1]
           /\ al.addresses[w] \in Int
<1>1. Len(al.slots) \in Nat /\ al.slots \in Seq(SUBSET Slot)
  BY DEF AccessListType
<1>2. al.addresses[w] \in 0..(Len(al.slots) - 1)
  BY DEF AL!WellFormedAccessList, HasSlots
<1>3. al.addresses[w] + 1 \in 1..Len(al.slots)
  BY <1>1, <1>2
<1>4. al.slots[al.addresses[w] + 1] # {} /\ al.slots[al.addresses[w] + 1] \in SUBSET Slot
  BY <1>1, <1>3 DEF AL!WellFormedAccessList
<1>5. \A x \in Slot : AL!ContainsSlot(al, w, x) <=> x \in al.slots[al.addresses[w] + 1]
  BY DEF AL!ContainsSlot, AL!ContainsAddress, AL!SlotSet, HasSlots
<1> QED BY <1>2, <1>3, <1>4, <1>5 DEF AL!SlotSet

\* A slot of an address is in its slot set.
LEMMA ContainsSlotHas ==
    ASSUME NEW al, NEW w \in Warm, NEW x \in Slot, AL!ContainsSlot(al, w, x)
    PROVE  HasSlots(al, w) /\ AL!ContainsAddress(al, w) /\ al.addresses[w] # -1
BY DEF AL!ContainsSlot, AL!ContainsAddress, HasSlots

\* Entries of other kinds make no difference, when they are appended ...
LEMMA ListAppendOther ==
    ASSUME NEW al, NEW E, NEW es \in Seq(E), NEW fs \in Seq(E),
           Extends(es, fs, AccessListKinds), AccessListOrdered(al, es)
    PROVE  AccessListOrdered(al, fs)
<1>1. /\ Len(es) \in Nat /\ Len(fs) \in Nat /\ Len(es) <= Len(fs)
      /\ \A i \in 1..Len(es) : fs[i] = es[i]
  BY DEF Extends
<1>2. \A i \in 1..Len(fs) : i \notin 1..Len(es) =>
         /\ \A w : ~AddsAccount(fs[i], w)
         /\ \A w, x : ~AddsSlot(fs[i], w, x)
  BY <1>1 DEF AddsAccount, AddsSlot, AccessListKinds, Extends
<1>a. ASSUME NEW i \in 1..Len(es), NEW w \in Warm, NEW x \in Slot,
             \E m \in (i + 1)..Len(es) : AddsSlot(es[m], w, x)
      PROVE  \E m \in (i + 1)..Len(fs) : AddsSlot(fs[m], w, x)
  <2>1. PICK m \in (i + 1)..Len(es) : AddsSlot(es[m], w, x)
    BY <1>a
  <2>2. m \in (i + 1)..Len(fs) /\ fs[m] = es[m]
    BY <1>1
  <2> QED BY <2>1, <2>2
<1>3. SlotsThere(al, fs)
  BY <1>1, <1>2 DEF AccessListOrdered, SlotsThere
<1>4. AccountsFirst(al, fs)
  <2> SUFFICES ASSUME NEW i \in 1..Len(fs), NEW w \in Warm, AddsAccount(fs[i], w)
               PROVE  /\ AL!ContainsAddress(al, w)
                      /\ \A j \in 1..Len(fs) : AddsAccount(fs[j], w) => j = i
                      /\ \A x \in Slot : AL!ContainsSlot(al, w, x) =>
                            \E m \in (i + 1)..Len(fs) : AddsSlot(fs[m], w, x)
    BY DEF AccountsFirst
  <2>1. i \in 1..Len(es) /\ AddsAccount(es[i], w)
    BY <1>1, <1>2
  <2>2. /\ AL!ContainsAddress(al, w)
        /\ \A j \in 1..Len(es) : AddsAccount(es[j], w) => j = i
        /\ \A x \in Slot : AL!ContainsSlot(al, w, x) =>
              \E m \in (i + 1)..Len(es) : AddsSlot(es[m], w, x)
    BY <2>1 DEF AccessListOrdered, AccountsFirst
  <2>3. \A j \in 1..Len(fs) : AddsAccount(fs[j], w) => j = i
    BY <1>1, <1>2, <2>2
  <2> QED BY <1>a, <2>1, <2>2, <2>3
<1>5. SetsStacked(al, fs)
  <2> SUFFICES ASSUME NEW v \in Warm, NEW w \in Warm, HasSlots(al, v), HasSlots(al, w),
                      al.addresses[v] < al.addresses[w]
               PROVE  \E x \in Slot :
                         /\ AL!ContainsSlot(al, v, x)
                         /\ \A i \in 1..Len(fs) : AddsSlot(fs[i], v, x) =>
                               \A y \in Slot : AL!ContainsSlot(al, w, y) =>
                                   \E m \in (i + 1)..Len(fs) : AddsSlot(fs[m], w, y)
    BY DEF SetsStacked
  <2>1. PICK x \in Slot :
           /\ AL!ContainsSlot(al, v, x)
           /\ \A i \in 1..Len(es) : AddsSlot(es[i], v, x) =>
                 \A y \in Slot : AL!ContainsSlot(al, w, y) =>
                     \E m \in (i + 1)..Len(es) : AddsSlot(es[m], w, y)
    BY DEF AccessListOrdered, SetsStacked
  <2> WITNESS x \in Slot
  <2>2. \A i \in 1..Len(fs) : AddsSlot(fs[i], v, x) => i \in 1..Len(es) /\ AddsSlot(es[i], v, x)
    BY <1>1, <1>2
  <2> QED BY <1>a, <2>1, <2>2
<1> QED BY <1>3, <1>4, <1>5 DEF AccessListOrdered

\* ... and when they are reverted.
LEMMA ListPopOther ==
    ASSUME NEW al, NEW E, NEW es \in Seq(E), NEW fs \in Seq(E),
           Len(es) = Len(fs) + 1, \A i \in 1..Len(fs) : fs[i] = es[i],
           es[Len(es)].kind \notin AccessListKinds,
           AccessListOrdered(al, es)
    PROVE  AccessListOrdered(al, fs)
<1>1. Len(fs) \in Nat
  OBVIOUS
<1>2. /\ \A w : ~AddsAccount(es[Len(es)], w)
      /\ \A w, x : ~AddsSlot(es[Len(es)], w, x)
  BY DEF AddsAccount, AddsSlot, AccessListKinds
<1>3. SlotsThere(al, fs)
  BY <1>1, <1>2 DEF AccessListOrdered, SlotsThere
<1>4. AccountsFirst(al, fs)
  <2> SUFFICES ASSUME NEW i \in 1..Len(fs), NEW w \in Warm, AddsAccount(fs[i], w)
               PROVE  /\ AL!ContainsAddress(al, w)
                      /\ \A j \in 1..Len(fs) : AddsAccount(fs[j], w) => j = i
                      /\ \A x \in Slot : AL!ContainsSlot(al, w, x) =>
                            \E m \in (i + 1)..Len(fs) : AddsSlot(fs[m], w, x)
    BY DEF AccountsFirst
  <2>1. i \in 1..Len(es) /\ AddsAccount(es[i], w)
    BY <1>1, <1>2
  <2>2. /\ AL!ContainsAddress(al, w)
        /\ \A j \in 1..Len(es) : AddsAccount(es[j], w) => j = i
        /\ \A x \in Slot : AL!ContainsSlot(al, w, x) =>
              \E m \in (i + 1)..Len(es) : AddsSlot(es[m], w, x)
    BY <2>1 DEF AccessListOrdered, AccountsFirst
  <2> QED BY <1>1, <1>2, <2>1, <2>2
<1>5. SetsStacked(al, fs)
  <2> SUFFICES ASSUME NEW v \in Warm, NEW w \in Warm, HasSlots(al, v), HasSlots(al, w),
                      al.addresses[v] < al.addresses[w]
               PROVE  \E x \in Slot :
                         /\ AL!ContainsSlot(al, v, x)
                         /\ \A i \in 1..Len(fs) : AddsSlot(fs[i], v, x) =>
                               \A y \in Slot : AL!ContainsSlot(al, w, y) =>
                                   \E m \in (i + 1)..Len(fs) : AddsSlot(fs[m], w, y)
    BY DEF SetsStacked
  <2>1. PICK x \in Slot :
           /\ AL!ContainsSlot(al, v, x)
           /\ \A i \in 1..Len(es) : AddsSlot(es[i], v, x) =>
                 \A y \in Slot : AL!ContainsSlot(al, w, y) =>
                     \E m \in (i + 1)..Len(es) : AddsSlot(es[m], w, y)
    BY DEF AccessListOrdered, SetsStacked
  <2> WITNESS x \in Slot
  <2> QED BY <1>1, <1>2, <2>1
<1> QED BY <1>3, <1>4, <1>5 DEF AccessListOrdered

\* What AddAddress does.
LEMMA AddAddressFacts ==
    ASSUME NEW al \in AccessListType, AL!WellFormedAccessList(al), NEW w \in Warm,
           ~AL!ContainsAddress(al, w)
    PROVE  LET b == AL!AddAddress(al, w)
           IN /\ b \in AccessListType
              /\ AL!WellFormedAccessList(b)
              /\ \A v \in Warm, y \in Slot : AL!ContainsSlot(b, v, y) <=> AL!ContainsSlot(al, v, y)
              /\ \A v \in Warm : AL!ContainsAddress(b, v) <=> AL!ContainsAddress(al, v) \/ v = w
              /\ \A v \in Warm : HasSlots(b, v) =>
                    HasSlots(al, v) /\ b.addresses[v] = al.addresses[v]
<1> DEFINE b == AL!AddAddress(al, w)
<1>1. b = [al EXCEPT !.addresses = [al.addresses EXCEPT ![w] = -1]]
  BY DEF AL!AddAddress, AccessListType
<1>2. al.addresses \in [Warm -> Int \cup {Nil}] /\ al.slots \in Seq(SUBSET Slot)
  BY DEF AccessListType
<1>3. b.slots = al.slots /\ b.addresses = [al.addresses EXCEPT ![w] = -1] /\ b \in AccessListType
  BY <1>1, <1>2 DEF AccessListType
<1> HIDE DEF b
<1>4. b.addresses[w] = -1 /\ al.addresses[w] = Nil /\ \A v \in Warm \ {w} : b.addresses[v] = al.addresses[v]
  BY <1>2, <1>3 DEF AL!ContainsAddress
<1>5. Nil # -1
  BY TxAssumption
<1>6. \A v \in Warm, y \in Slot : AL!ContainsSlot(b, v, y) <=> AL!ContainsSlot(al, v, y)
  BY <1>3, <1>4 DEF AL!ContainsSlot, AL!ContainsAddress, AL!SlotSet
<1>7. \A v \in Warm : AL!ContainsAddress(b, v) <=> AL!ContainsAddress(al, v) \/ v = w
  BY <1>4, <1>5 DEF AL!ContainsAddress
<1>8. \A v \in Warm : HasSlots(b, v) => HasSlots(al, v) /\ b.addresses[v] = al.addresses[v]
  BY <1>4 DEF HasSlots
<1>9. AL!WellFormedAccessList(b)
  <2>1. \A i \in 1..Len(b.slots) : b.slots[i] # {} /\ \E v \in Warm : b.addresses[v] = i - 1
    <3> SUFFICES ASSUME NEW i \in 1..Len(al.slots)
                 PROVE  al.slots[i] # {} /\ \E v \in Warm : b.addresses[v] = i - 1
      BY <1>3
    <3>1. PICK v \in Warm : al.addresses[v] = i - 1
      BY DEF AL!WellFormedAccessList
    <3>2. i - 1 # Nil
      BY TxAssumption
    <3> QED BY <1>4, <3>1, <3>2 DEF AL!WellFormedAccessList
  <2>2. \A u, v \in Warm : u # v /\ b.addresses[u] = b.addresses[v] => b.addresses[u] \in {Nil, -1}
    BY <1>4 DEF AL!WellFormedAccessList
  <2>3. \A v \in Warm : b.addresses[v] \in {Nil, -1} \cup 0..(Len(b.slots) - 1)
    BY <1>3, <1>4 DEF AL!WellFormedAccessList
  <2> QED BY <2>1, <2>2, <2>3 DEF AL!WellFormedAccessList
<1> QED BY <1>3, <1>6, <1>7, <1>8, <1>9 DEF b

\* What DeleteAddress does to an address without slots.
LEMMA DeleteAddressFacts ==
    ASSUME NEW al \in AccessListType, AL!WellFormedAccessList(al), NEW w \in Warm,
           al.addresses[w] = -1
    PROVE  LET b == AL!DeleteAddress(al, w)
           IN /\ b \in AccessListType
              /\ AL!WellFormedAccessList(b)
              /\ \A v \in Warm, y \in Slot : AL!ContainsSlot(b, v, y) <=> AL!ContainsSlot(al, v, y)
              /\ \A v \in Warm : AL!ContainsAddress(b, v) <=> AL!ContainsAddress(al, v) /\ v # w
              /\ \A v \in Warm : HasSlots(b, v) =>
                    HasSlots(al, v) /\ b.addresses[v] = al.addresses[v]
<1> DEFINE b == AL!DeleteAddress(al, w)
<1>1. b = [al EXCEPT !.addresses = [al.addresses EXCEPT ![w] = Nil]]
  BY DEF AL!DeleteAddress, AccessListType
<1>2. al.addresses \in [Warm -> Int \cup {Nil}] /\ al.slots \in Seq(SUBSET Slot)
  BY DEF AccessListType
<1>3. b.slots = al.slots /\ b.addresses = [al.addresses EXCEPT ![w] = Nil] /\ b \in AccessListType
  BY <1>1, <1>2 DEF AccessListType
<1> HIDE DEF b
<1>4. b.addresses[w] = Nil /\ \A v \in Warm \ {w} : b.addresses[v] = al.addresses[v]
  BY <1>2, <1>3
<1>6. \A v \in Warm, y \in Slot : AL!ContainsSlot(b, v, y) <=> AL!ContainsSlot(al, v, y)
  BY <1>3, <1>4 DEF AL!ContainsSlot, AL!ContainsAddress, AL!SlotSet
<1>7. \A v \in Warm : AL!ContainsAddress(b, v) <=> AL!ContainsAddress(al, v) /\ v # w
  BY <1>4 DEF AL!ContainsAddress
<1>8. \A v \in Warm : HasSlots(b, v) => HasSlots(al, v) /\ b.addresses[v] = al.addresses[v]
  BY <1>4 DEF HasSlots
<1>9. AL!WellFormedAccessList(b)
  <2>1. \A i \in 1..Len(b.slots) : b.slots[i] # {} /\ \E v \in Warm : b.addresses[v] = i - 1
    <3> SUFFICES ASSUME NEW i \in 1..Len(al.slots)
                 PROVE  al.slots[i] # {} /\ \E v \in Warm : b.addresses[v] = i - 1
      BY <1>3
    <3>1. PICK v \in Warm : al.addresses[v] = i - 1
      BY DEF AL!WellFormedAccessList
    <3>2. i - 1 # -1
      OBVIOUS
    <3> QED BY <1>4, <3>1, <3>2 DEF AL!WellFormedAccessList
  <2>2. \A u, v \in Warm : u # v /\ b.addresses[u] = b.addresses[v] => b.addresses[u] \in {Nil, -1}
    BY <1>4 DEF AL!WellFormedAccessList
  <2>3. \A v \in Warm : b.addresses[v] \in {Nil, -1} \cup 0..(Len(b.slots) - 1)
    BY <1>3, <1>4 DEF AL!WellFormedAccessList
  <2> QED BY <2>1, <2>2, <2>3 DEF AL!WellFormedAccessList
<1> QED BY <1>3, <1>6, <1>7, <1>8, <1>9 DEF b

\* What AddSlot does: a new slot set comes after all others.
LEMMA AddSlotFacts ==
    ASSUME NEW al \in AccessListType, AL!WellFormedAccessList(al), NEW w \in Warm, NEW x \in Slot
    PROVE  LET b == AL!AddSlot(al, w, x)
           IN /\ b \in AccessListType
              /\ AL!WellFormedAccessList(b)
              /\ \A v \in Warm, y \in Slot :
                    AL!ContainsSlot(b, v, y) <=> AL!ContainsSlot(al, v, y) \/ (v = w /\ y = x)
              /\ \A v \in Warm : AL!ContainsAddress(b, v) <=> AL!ContainsAddress(al, v) \/ v = w
              /\ \A v \in Warm \ {w} : b.addresses[v] = al.addresses[v]
              /\ HasSlots(al, w) => b.addresses[w] = al.addresses[w]
              /\ ~HasSlots(al, w) => \A v \in Warm : HasSlots(b, v) => b.addresses[v] <= b.addresses[w]
<1> DEFINE b == AL!AddSlot(al, w, x)
           n == Len(al.slots)
<1>1. al.addresses \in [Warm -> Int \cup {Nil}] /\ al.slots \in Seq(SUBSET Slot) /\ n \in Nat
  BY DEF AccessListType
<1>0. \A i \in Int : Nil # i
  BY TxAssumption
<1>2. CASE ~HasSlots(al, w)
  <2>1. b = [addresses |-> [al.addresses EXCEPT ![w] = n], slots |-> Append(al.slots, {x})]
    BY <1>2 DEF AL!AddSlot, HasSlots
  <2>2. /\ b.addresses \in [Warm -> Int \cup {Nil}] /\ b.addresses[w] = n
        /\ \A v \in Warm \ {w} : b.addresses[v] = al.addresses[v]
    BY <1>1, <2>1
  <2>3. /\ b.slots \in Seq(SUBSET Slot) /\ Len(b.slots) = n + 1 /\ b.slots[n + 1] = {x}
        /\ \A i \in 1..n : b.slots[i] = al.slots[i]
    BY <1>1, <2>1
  <2>4. b \in AccessListType
    BY <2>1, <2>2, <2>3 DEF AccessListType
  <2> HIDE DEF b
  <2>5. AL!WellFormedAccessList(b)
    <3>1. \A v \in Warm : b.addresses[v] \in {Nil, -1} \cup 0..(Len(b.slots) - 1)
      BY <1>1, <2>2, <2>3 DEF AL!WellFormedAccessList
    <3>2. ASSUME NEW i \in 1..Len(b.slots)
          PROVE  b.slots[i] # {} /\ \E v \in Warm : b.addresses[v] = i - 1
      <4>1. CASE i \in 1..n
        <5>1. PICK v \in Warm : al.addresses[v] = i - 1
          BY <4>1 DEF AL!WellFormedAccessList
        <5>2. v # w
          BY <1>0, <1>2, <4>1, <5>1 DEF HasSlots
        <5> QED BY <2>2, <2>3, <4>1, <5>1, <5>2 DEF AL!WellFormedAccessList
      <4>2. CASE i = n + 1
        <5>1. i - 1 = n
          BY <1>1, <4>2
        <5> QED BY <2>2, <2>3, <4>2, <5>1
      <4> QED BY <1>1, <2>3, <4>1, <4>2
    <3>3. ASSUME NEW u \in Warm, NEW v \in Warm, u # v, b.addresses[u] = b.addresses[v]
          PROVE  b.addresses[u] \in {Nil, -1}
      <4>1. \A z \in Warm \ {w} : b.addresses[z] # n
        BY <1>0, <1>1, <2>2 DEF AL!WellFormedAccessList
      <4>2. u # w /\ v # w
        BY <2>2, <3>3, <4>1
      <4> QED BY <2>2, <3>3, <4>2 DEF AL!WellFormedAccessList
    <3> QED BY <3>1, <3>2, <3>3 DEF AL!WellFormedAccessList
  <2>6. ASSUME NEW v \in Warm, NEW y \in Slot
        PROVE  AL!ContainsSlot(b, v, y) <=> AL!ContainsSlot(al, v, y) \/ (v = w /\ y = x)
    <3>1. CASE v = w
      <4>1. ~AL!ContainsSlot(al, w, y)
        BY <1>2, ContainsSlotHas
      <4>2. AL!ContainsSlot(b, w, y) <=> y = x
        BY <1>0, <1>1, <2>2, <2>3 DEF AL!ContainsSlot, AL!ContainsAddress, AL!SlotSet
      <4> QED BY <3>1, <4>1, <4>2
    <3>2. CASE v # w /\ HasSlots(al, v)
      <4>1. al.addresses[v] + 1 \in 1..n
        BY <3>2, SlotSetThere
      <4> QED BY <2>2, <2>3, <3>2, <4>1 DEF AL!ContainsSlot, AL!ContainsAddress, AL!SlotSet
    <3>3. CASE v # w /\ ~HasSlots(al, v)
      BY <2>2, <3>3 DEF HasSlots, AL!ContainsSlot, AL!ContainsAddress, AL!SlotSet
    <3> QED BY <3>1, <3>2, <3>3
  <2>7. \A v \in Warm : AL!ContainsAddress(b, v) <=> AL!ContainsAddress(al, v) \/ v = w
    BY <1>0, <1>1, <2>2 DEF AL!ContainsAddress
  <2>8. \A v \in Warm : HasSlots(b, v) => b.addresses[v] <= b.addresses[w]
    BY <1>1, <2>2, <2>3, <2>5 DEF AL!WellFormedAccessList, HasSlots
  <2> QED BY <1>2, <2>2, <2>4, <2>5, <2>6, <2>7, <2>8 DEF b
<1>3. CASE HasSlots(al, w)
  <2> DEFINE m == al.addresses[w] + 1
  <2>1. m \in 1..n /\ al.slots[m] \in SUBSET Slot
    BY <1>3, SlotSetThere
  <2>2. b = [al EXCEPT !.slots = [al.slots EXCEPT ![m] = @ \cup {x}]]
    BY <1>3 DEF AL!AddSlot, HasSlots
  <2>3. b.addresses = al.addresses /\ b.slots = [al.slots EXCEPT ![m] = @ \cup {x}]
    BY <2>2 DEF AccessListType
  <2>4. /\ b.slots \in Seq(SUBSET Slot) /\ Len(b.slots) = n /\ b.slots[m] = al.slots[m] \cup {x}
        /\ \A i \in (1..n) \ {m} : b.slots[i] = al.slots[i]
    BY <1>1, <2>1, <2>3
  <2>5. b \in AccessListType
    BY <1>1, <2>2, <2>3, <2>4 DEF AccessListType
  <2> HIDE DEF b, m
  <2>6. AL!WellFormedAccessList(b)
    BY <2>3, <2>4 DEF AL!WellFormedAccessList
  <2>7. ASSUME NEW v \in Warm, NEW y \in Slot
        PROVE  AL!ContainsSlot(b, v, y) <=> AL!ContainsSlot(al, v, y) \/ (v = w /\ y = x)
    <3>1. CASE v = w
      BY <1>3, <2>3, <2>4, <3>1 DEF m, HasSlots, AL!ContainsSlot, AL!ContainsAddress, AL!SlotSet
    <3>2. CASE v # w /\ HasSlots(al, v)
      <4>1. al.addresses[v] \in Int /\ al.addresses[w] \in Int /\ al.addresses[v] + 1 \in 1..n
        BY <1>3, <3>2, SlotSetThere
      <4>2. al.addresses[v] # al.addresses[w]
        BY <3>2 DEF AL!WellFormedAccessList, HasSlots
      <4>3. al.addresses[v] + 1 # m
        BY <4>1, <4>2 DEF m
      <4> QED BY <2>3, <2>4, <3>2, <4>1, <4>3 DEF AL!ContainsSlot, AL!ContainsAddress, AL!SlotSet
    <3>3. CASE v # w /\ ~HasSlots(al, v)
      BY <2>3, <3>3 DEF HasSlots, AL!ContainsSlot, AL!ContainsAddress, AL!SlotSet
    <3> QED BY <3>1, <3>2, <3>3
  <2>8. \A v \in Warm : AL!ContainsAddress(b, v) <=> AL!ContainsAddress(al, v) \/ v = w
    BY <1>3, <2>3 DEF AL!ContainsAddress, HasSlots
  <2> QED BY <1>3, <2>3, <2>5, <2>6, <2>7, <2>8 DEF b
<1> QED BY <1>2, <1>3

\* What DeleteSlot does when no slot set comes after the one it empties.
LEMMA DeleteSlotFacts ==
    ASSUME NEW al \in AccessListType, AL!WellFormedAccessList(al), NEW w \in Warm, NEW x \in Slot,
           AL!ContainsSlot(al, w, x),
           (\A y \in Slot : AL!ContainsSlot(al, w, y) => y = x) =>
               \A v \in Warm : HasSlots(al, v) => al.addresses[v] <= al.addresses[w]
    PROVE  LET b == AL!DeleteSlot(al, w, x)
           IN /\ b \in AccessListType
              /\ AL!WellFormedAccessList(b)
              /\ \A v \in Warm, y \in Slot :
                    AL!ContainsSlot(b, v, y) <=> AL!ContainsSlot(al, v, y) /\ ~(v = w /\ y = x)
              /\ \A v \in Warm : AL!ContainsAddress(b, v) <=> AL!ContainsAddress(al, v)
              /\ \A v \in Warm : HasSlots(b, v) =>
                    HasSlots(al, v) /\ b.addresses[v] = al.addresses[v]
<1> DEFINE b == AL!DeleteSlot(al, w, x)
           n == Len(al.slots)
           idx == al.addresses[w]
           m == idx + 1
           left == al.slots[m] \ {x}
<1>1. al.addresses \in [Warm -> Int \cup {Nil}] /\ al.slots \in Seq(SUBSET Slot) /\ n \in Nat
  BY DEF AccessListType
<1>0. \A i \in Int : Nil # i
  BY TxAssumption
<1>2. HasSlots(al, w)
  BY ContainsSlotHas
<1>3. /\ idx \in 0..(n - 1) /\ m \in 1..n /\ al.slots[m] \in SUBSET Slot /\ x \in al.slots[m]
      /\ \A y \in Slot : AL!ContainsSlot(al, w, y) <=> y \in al.slots[m]
  BY <1>2, SlotSetThere
<1>4. b = IF left = {}
          THEN [addresses |-> [al.addresses EXCEPT ![w] = -1], slots |-> SubSeq(al.slots, 1, idx)]
          ELSE [al EXCEPT !.slots = [al.slots EXCEPT ![m] = left]]
  BY DEF AL!DeleteSlot, AL!SlotSet
<1> HIDE DEF b, n, idx, m
<1>5. CASE left = {}
  <2>1. b = [addresses |-> [al.addresses EXCEPT ![w] = -1], slots |-> SubSeq(al.slots, 1, idx)]
    BY <1>4, <1>5
  <2>2. /\ b.addresses \in [Warm -> Int \cup {Nil}] /\ b.addresses[w] = -1
        /\ \A v \in Warm \ {w} : b.addresses[v] = al.addresses[v]
    BY <1>1, <2>1
  <2>3. /\ b.slots \in Seq(SUBSET Slot) /\ Len(b.slots) = idx
        /\ \A i \in 1..idx : b.slots[i] = al.slots[i]
    <3>1. idx \in Nat /\ idx <= Len(al.slots)
      BY <1>1, <1>3 DEF n
    <3> QED BY <1>1, <2>1, <3>1
  <2>4. b \in AccessListType
    BY <2>1, <2>2, <2>3 DEF AccessListType
  <2>5. \A v \in Warm : HasSlots(al, v) => al.addresses[v] <= idx
    BY <1>3, <1>5 DEF idx
  <2>6. \A v \in Warm \ {w} : HasSlots(al, v) => al.addresses[v] \in 0..(idx - 1)
    <3> SUFFICES ASSUME NEW v \in Warm \ {w}, HasSlots(al, v) PROVE al.addresses[v] \in 0..(idx - 1)
      OBVIOUS
    <3>1. al.addresses[v] \in 0..(n - 1) /\ al.addresses[v] <= idx
      BY <2>5, SlotSetThere DEF n
    <3>2. al.addresses[v] # idx
      BY <1>2 DEF AL!WellFormedAccessList, HasSlots, idx
    <3> QED BY <1>1, <1>3, <3>1, <3>2
  <2>7. AL!WellFormedAccessList(b)
    <3>1. \A v \in Warm : b.addresses[v] \in {Nil, -1} \cup 0..(Len(b.slots) - 1)
      BY <2>2, <2>3, <2>6 DEF HasSlots
    <3>2. ASSUME NEW i \in 1..Len(b.slots)
          PROVE  b.slots[i] # {} /\ \E v \in Warm : b.addresses[v] = i - 1
      <4>1. i \in 1..n /\ i \in 1..idx
        BY <1>1, <1>3, <2>3
      <4>2. PICK v \in Warm : al.addresses[v] = i - 1
        BY <4>1 DEF AL!WellFormedAccessList, n
      <4>3. v # w
        BY <1>1, <1>3, <4>1, <4>2 DEF idx
      <4> QED BY <2>2, <2>3, <4>1, <4>2, <4>3 DEF AL!WellFormedAccessList, n
    <3>3. \A u, v \in Warm : u # v /\ b.addresses[u] = b.addresses[v] => b.addresses[u] \in {Nil, -1}
      BY <2>2 DEF AL!WellFormedAccessList
    <3> QED BY <3>1, <3>2, <3>3 DEF AL!WellFormedAccessList
  <2>8. ASSUME NEW v \in Warm, NEW y \in Slot
        PROVE  AL!ContainsSlot(b, v, y) <=> AL!ContainsSlot(al, v, y) /\ ~(v = w /\ y = x)
    <3>1. CASE v = w
      <4>1. ~AL!ContainsSlot(b, w, y)
        BY <2>2 DEF AL!ContainsSlot
      <4>2. AL!ContainsSlot(al, w, y) => y = x
        BY <1>3, <1>5
      <4> QED BY <3>1, <4>1, <4>2
    <3>2. CASE v # w /\ HasSlots(al, v)
      <4>1. al.addresses[v] + 1 \in 1..idx
        BY <1>3, <2>6, <3>2
      <4> QED BY <2>2, <2>3, <3>2, <4>1 DEF AL!ContainsSlot, AL!ContainsAddress, AL!SlotSet
    <3>3. CASE v # w /\ ~HasSlots(al, v)
      BY <2>2, <3>3 DEF HasSlots, AL!ContainsSlot, AL!ContainsAddress, AL!SlotSet
    <3> QED BY <3>1, <3>2, <3>3
  <2>9. \A v \in Warm : AL!ContainsAddress(b, v) <=> AL!ContainsAddress(al, v)
    BY <1>0, <1>2, <2>2 DEF AL!ContainsAddress, HasSlots
  <2>10. \A v \in Warm : HasSlots(b, v) => HasSlots(al, v) /\ b.addresses[v] = al.addresses[v]
    BY <2>2 DEF HasSlots
  <2> QED BY <2>4, <2>7, <2>8, <2>9, <2>10 DEF b
<1>6. CASE left # {}
  <2>1. b = [al EXCEPT !.slots = [al.slots EXCEPT ![m] = left]]
    BY <1>4, <1>6
  <2>2. b.addresses = al.addresses /\ b.slots = [al.slots EXCEPT ![m] = left]
    BY <2>1 DEF AccessListType
  <2>3. /\ b.slots \in Seq(SUBSET Slot) /\ Len(b.slots) = n /\ b.slots[m] = left
        /\ \A i \in (1..n) \ {m} : b.slots[i] = al.slots[i]
    BY <1>1, <1>3, <2>2 DEF n
  <2>4. b \in AccessListType
    BY <1>1, <2>1, <2>2, <2>3 DEF AccessListType
  <2>5. AL!WellFormedAccessList(b)
    BY <1>6, <2>2, <2>3 DEF AL!WellFormedAccessList, n
  <2>6. ASSUME NEW v \in Warm, NEW y \in Slot
        PROVE  AL!ContainsSlot(b, v, y) <=> AL!ContainsSlot(al, v, y) /\ ~(v = w /\ y = x)
    <3>1. CASE v = w
      BY <1>2, <2>2, <2>3, <3>1 DEF m, idx, HasSlots, AL!ContainsSlot, AL!ContainsAddress, AL!SlotSet
    <3>2. CASE v # w /\ HasSlots(al, v)
      <4>1. al.addresses[v] \in Int /\ idx \in Int /\ al.addresses[v] + 1 \in 1..n
        BY <1>3, <3>2, SlotSetThere DEF n
      <4>2. al.addresses[v] # idx
        BY <1>2, <3>2 DEF AL!WellFormedAccessList, HasSlots, idx
      <4>3. al.addresses[v] + 1 # m
        BY <4>1, <4>2 DEF m
      <4> QED BY <2>2, <2>3, <3>2, <4>1, <4>3 DEF AL!ContainsSlot, AL!ContainsAddress, AL!SlotSet
    <3>3. CASE v # w /\ ~HasSlots(al, v)
      BY <2>2, <3>3 DEF HasSlots, AL!ContainsSlot, AL!ContainsAddress, AL!SlotSet
    <3> QED BY <3>1, <3>2, <3>3
  <2>7. \A v \in Warm : AL!ContainsAddress(b, v) <=> AL!ContainsAddress(al, v)
    BY <2>2 DEF AL!ContainsAddress
  <2>8. \A v \in Warm : HasSlots(b, v) => HasSlots(al, v) /\ b.addresses[v] = al.addresses[v]
    BY <2>2 DEF HasSlots
  <2> QED BY <2>4, <2>5, <2>6, <2>7, <2>8 DEF b
<1> QED BY <1>5, <1>6

\* Adding an address keeps the order.
LEMMA OrderedAddAddress ==
    ASSUME NEW al, NEW E, NEW es \in Seq(E), NEW w \in Warm, AccessListOrdered(al, es),
           ~AL!ContainsAddress(al, w)
    PROVE  AccessListOrdered(AL!AddAddress(al, w),
                             Append(es, [kind |-> "accessListAddAccount", address |-> w]))
<1> DEFINE b == AL!AddAddress(al, w)
           e == [kind |-> "accessListAddAccount", address |-> w]
           fs == Append(es, e)
<1>0. al \in AccessListType /\ AL!WellFormedAccessList(al)
  BY DEF AccessListOrdered
<1>1. /\ b \in AccessListType /\ AL!WellFormedAccessList(b)
      /\ \A v \in Warm, y \in Slot : AL!ContainsSlot(b, v, y) <=> AL!ContainsSlot(al, v, y)
      /\ \A v \in Warm : AL!ContainsAddress(b, v) <=> AL!ContainsAddress(al, v) \/ v = w
      /\ \A v \in Warm : HasSlots(b, v) => HasSlots(al, v) /\ b.addresses[v] = al.addresses[v]
  BY <1>0, AddAddressFacts
<1>2. /\ Len(es) \in Nat /\ Len(fs) = Len(es) + 1 /\ fs[Len(fs)] = e
      /\ \A i \in 1..Len(es) : fs[i] = es[i]
  OBVIOUS
<1>3. /\ \A v : AddsAccount(e, v) <=> v = w
      /\ \A v, x : ~AddsSlot(e, v, x)
  BY DEF AddsAccount, AddsSlot
<1> HIDE DEF b, e, fs
<1>4. SlotsThere(b, fs)
  BY <1>1, <1>2, <1>3 DEF AccessListOrdered, SlotsThere
<1>5. AccountsFirst(b, fs)
  <2> SUFFICES ASSUME NEW i \in 1..Len(fs), NEW v \in Warm, AddsAccount(fs[i], v)
               PROVE  /\ AL!ContainsAddress(b, v)
                      /\ \A j \in 1..Len(fs) : AddsAccount(fs[j], v) => j = i
                      /\ \A x \in Slot : AL!ContainsSlot(b, v, x) =>
                            \E m \in (i + 1)..Len(fs) : AddsSlot(fs[m], v, x)
    BY DEF AccountsFirst
  <2>1. \A j \in 1..Len(es) : ~AddsAccount(es[j], w)
    BY DEF AccessListOrdered, AccountsFirst
  <2>2. CASE v = w
    <3>1. i = Len(fs)
      BY <1>2, <2>1, <2>2
    <3>2. \A x \in Slot : ~AL!ContainsSlot(b, v, x)
      BY <1>1, <2>2, ContainsSlotHas
    <3> QED BY <1>1, <1>2, <2>1, <2>2, <3>1, <3>2
  <2>3. CASE v # w
    <3>1. i \in 1..Len(es) /\ AddsAccount(es[i], v)
      BY <1>2, <1>3, <2>3
    <3>2. /\ AL!ContainsAddress(al, v)
          /\ \A j \in 1..Len(es) : AddsAccount(es[j], v) => j = i
          /\ \A x \in Slot : AL!ContainsSlot(al, v, x) =>
                \E m \in (i + 1)..Len(es) : AddsSlot(es[m], v, x)
      BY <3>1 DEF AccessListOrdered, AccountsFirst
    <3> QED BY <1>1, <1>2, <1>3, <2>3, <3>1, <3>2
  <2> QED BY <2>2, <2>3
<1>6. SetsStacked(b, fs)
  <2> SUFFICES ASSUME NEW u \in Warm, NEW v \in Warm, HasSlots(b, u), HasSlots(b, v),
                      b.addresses[u] < b.addresses[v]
               PROVE  \E x \in Slot :
                         /\ AL!ContainsSlot(b, u, x)
                         /\ \A i \in 1..Len(fs) : AddsSlot(fs[i], u, x) =>
                               \A y \in Slot : AL!ContainsSlot(b, v, y) =>
                                   \E m \in (i + 1)..Len(fs) : AddsSlot(fs[m], v, y)
    BY DEF SetsStacked
  <2>0. HasSlots(al, u) /\ HasSlots(al, v) /\ al.addresses[u] < al.addresses[v]
    BY <1>1
  <2>1. PICK x \in Slot :
           /\ AL!ContainsSlot(al, u, x)
           /\ \A i \in 1..Len(es) : AddsSlot(es[i], u, x) =>
                 \A y \in Slot : AL!ContainsSlot(al, v, y) =>
                     \E m \in (i + 1)..Len(es) : AddsSlot(es[m], v, y)
    BY <2>0 DEF AccessListOrdered, SetsStacked
  <2> WITNESS x \in Slot
  <2> QED BY <1>1, <1>2, <1>3, <2>1
<1>7. AccessListOrdered(b, fs)
  BY <1>1, <1>4, <1>5, <1>6 DEF AccessListOrdered
<1> QED BY <1>7 DEF b, e, fs

\* Adding a slot stacks its set on the earlier ones.
LEMMA OrderedAddSlot ==
    ASSUME NEW al, NEW E, NEW es \in Seq(E), NEW w \in Warm, NEW x \in Slot,
           AccessListOrdered(al, es), ~AL!ContainsSlot(al, w, x)
    PROVE  AccessListOrdered(AL!AddSlot(al, w, x),
               Append(es, [kind |-> "accessListAddSlot", address |-> w, slot |-> x]))
<1> DEFINE b == AL!AddSlot(al, w, x)
           e == [kind |-> "accessListAddSlot", address |-> w, slot |-> x]
           fs == Append(es, e)
<1>0. al \in AccessListType /\ AL!WellFormedAccessList(al)
  BY DEF AccessListOrdered
<1>1. /\ b \in AccessListType /\ AL!WellFormedAccessList(b)
      /\ \A v \in Warm, y \in Slot :
            AL!ContainsSlot(b, v, y) <=> AL!ContainsSlot(al, v, y) \/ (v = w /\ y = x)
      /\ \A v \in Warm : AL!ContainsAddress(b, v) <=> AL!ContainsAddress(al, v) \/ v = w
      /\ \A v \in Warm \ {w} : b.addresses[v] = al.addresses[v]
      /\ HasSlots(al, w) => b.addresses[w] = al.addresses[w]
      /\ ~HasSlots(al, w) => \A v \in Warm : HasSlots(b, v) => b.addresses[v] <= b.addresses[w]
  BY <1>0, AddSlotFacts
<1>2. /\ Len(es) \in Nat /\ Len(fs) = Len(es) + 1 /\ fs[Len(fs)] = e
      /\ \A i \in 1..Len(es) : fs[i] = es[i]
  OBVIOUS
<1>3. /\ \A v : ~AddsAccount(e, v)
      /\ \A v, y : AddsSlot(e, v, y) <=> v = w /\ y = x
  BY DEF AddsAccount, AddsSlot
<1> HIDE DEF b, e, fs
<1>4. SlotsThere(b, fs)
  <2>1. \A i \in 1..Len(es) : ~AddsSlot(es[i], w, x)
    BY DEF AccessListOrdered, SlotsThere
  <2>2. ASSUME NEW i \in 1..Len(fs), NEW v \in Warm, NEW y \in Slot, AddsSlot(fs[i], v, y)
        PROVE  /\ AL!ContainsSlot(b, v, y)
               /\ \A j \in 1..Len(fs) : AddsSlot(fs[j], v, y) => j = i
    <3>1. CASE i = Len(fs)
      BY <1>1, <1>2, <1>3, <2>1, <2>2, <3>1
    <3>2. CASE i \in 1..Len(es)
      <4>1. AddsSlot(es[i], v, y)
        BY <1>2, <2>2, <3>2
      <4>2. /\ AL!ContainsSlot(al, v, y)
            /\ \A j \in 1..Len(es) : AddsSlot(es[j], v, y) => j = i
        BY <3>2, <4>1 DEF AccessListOrdered, SlotsThere
      <4> QED BY <1>1, <1>2, <1>3, <4>2
    <3> QED BY <1>2, <3>1, <3>2
  <2> QED BY <2>2 DEF SlotsThere
<1>5. AccountsFirst(b, fs)
  <2> SUFFICES ASSUME NEW i \in 1..Len(fs), NEW v \in Warm, AddsAccount(fs[i], v)
               PROVE  /\ AL!ContainsAddress(b, v)
                      /\ \A j \in 1..Len(fs) : AddsAccount(fs[j], v) => j = i
                      /\ \A y \in Slot : AL!ContainsSlot(b, v, y) =>
                            \E m \in (i + 1)..Len(fs) : AddsSlot(fs[m], v, y)
    BY DEF AccountsFirst
  <2>1. i \in 1..Len(es) /\ AddsAccount(es[i], v)
    BY <1>2, <1>3
  <2>2. /\ AL!ContainsAddress(al, v)
        /\ \A j \in 1..Len(es) : AddsAccount(es[j], v) => j = i
        /\ \A y \in Slot : AL!ContainsSlot(al, v, y) =>
              \E m \in (i + 1)..Len(es) : AddsSlot(es[m], v, y)
    BY <2>1 DEF AccessListOrdered, AccountsFirst
  <2>3. ASSUME NEW y \in Slot, AL!ContainsSlot(b, v, y)
        PROVE  \E m \in (i + 1)..Len(fs) : AddsSlot(fs[m], v, y)
    <3>1. CASE v = w /\ y = x
      <4>1. Len(fs) \in (i + 1)..Len(fs)
        BY <1>2, <2>1
      <4> QED BY <1>2, <1>3, <3>1, <4>1
    <3>2. CASE AL!ContainsSlot(al, v, y)
      <4>1. PICK m \in (i + 1)..Len(es) : AddsSlot(es[m], v, y)
        BY <2>2, <3>2
      <4>2. m \in (i + 1)..Len(fs) /\ fs[m] = es[m]
        BY <1>2, <2>1
      <4> QED BY <4>1, <4>2
    <3> QED BY <1>1, <2>3, <3>1, <3>2
  <2> QED BY <1>1, <1>2, <1>3, <2>1, <2>2, <2>3
<1>6. SetsStacked(b, fs)
  <2> SUFFICES ASSUME NEW u \in Warm, NEW v \in Warm, HasSlots(b, u), HasSlots(b, v),
                      b.addresses[u] < b.addresses[v]
               PROVE  \E z \in Slot :
                         /\ AL!ContainsSlot(b, u, z)
                         /\ \A i \in 1..Len(fs) : AddsSlot(fs[i], u, z) =>
                               \A y \in Slot : AL!ContainsSlot(b, v, y) =>
                                   \E m \in (i + 1)..Len(fs) : AddsSlot(fs[m], v, y)
    BY DEF SetsStacked
  <2>0. b.addresses[u] \in Int /\ b.addresses[v] \in Int
    BY <1>1, SlotSetThere
  <2>a. ASSUME NEW i \in 1..Len(es), NEW y \in Slot, y = x, v = w
        PROVE  \E m \in (i + 1)..Len(fs) : AddsSlot(fs[m], v, y)
    <3>1. Len(fs) \in (i + 1)..Len(fs)
      BY <1>2
    <3> QED BY <1>2, <1>3, <2>a, <3>1
  <2>1. CASE HasSlots(al, w)
    <3>0. HasSlots(al, u) /\ HasSlots(al, v) /\ al.addresses[u] < al.addresses[v]
      BY <1>1, <2>1 DEF HasSlots
    <3>1. PICK z \in Slot :
             /\ AL!ContainsSlot(al, u, z)
             /\ \A i \in 1..Len(es) : AddsSlot(es[i], u, z) =>
                   \A y \in Slot : AL!ContainsSlot(al, v, y) =>
                       \E m \in (i + 1)..Len(es) : AddsSlot(es[m], v, y)
      BY <3>0 DEF AccessListOrdered, SetsStacked
    <3> WITNESS z \in Slot
    <3>2. AL!ContainsSlot(b, u, z) /\ ~(u = w /\ z = x)
      BY <1>1, <3>1
    <3>3. ASSUME NEW i \in 1..Len(fs), AddsSlot(fs[i], u, z), NEW y \in Slot, AL!ContainsSlot(b, v, y)
          PROVE  \E m \in (i + 1)..Len(fs) : AddsSlot(fs[m], v, y)
      <4>1. i \in 1..Len(es) /\ AddsSlot(es[i], u, z)
        BY <1>2, <1>3, <3>2, <3>3
      <4>2. CASE AL!ContainsSlot(al, v, y)
        <5>1. PICK m \in (i + 1)..Len(es) : AddsSlot(es[m], v, y)
          BY <3>1, <4>1, <4>2
        <5>2. m \in (i + 1)..Len(fs) /\ fs[m] = es[m]
          BY <1>2, <4>1
        <5> QED BY <5>1, <5>2
      <4>3. CASE v = w /\ y = x
        BY <2>a, <4>1, <4>3
      <4> QED BY <1>1, <3>3, <4>2, <4>3
    <3> QED BY <3>2, <3>3
  <2>2. CASE ~HasSlots(al, w)
    <3>1. u # w
      BY <1>1, <2>0, <2>2
    <3>2. CASE v # w
      <4>0. HasSlots(al, u) /\ HasSlots(al, v) /\ al.addresses[u] < al.addresses[v]
        BY <1>1, <3>1, <3>2 DEF HasSlots
      <4>1. PICK z \in Slot :
               /\ AL!ContainsSlot(al, u, z)
               /\ \A i \in 1..Len(es) : AddsSlot(es[i], u, z) =>
                     \A y \in Slot : AL!ContainsSlot(al, v, y) =>
                         \E m \in (i + 1)..Len(es) : AddsSlot(es[m], v, y)
        BY <4>0 DEF AccessListOrdered, SetsStacked
      <4> WITNESS z \in Slot
      <4> QED BY <1>1, <1>2, <1>3, <3>1, <3>2, <4>1
    <3>3. CASE v = w
      <4>1. PICK z \in Slot : AL!ContainsSlot(b, u, z)
        BY <1>1, SlotSetThere
      <4> WITNESS z \in Slot
      <4>2. \A y \in Slot : AL!ContainsSlot(b, v, y) => y = x
        BY <1>1, <2>2, <3>3, ContainsSlotHas
      <4>3. \A i \in 1..Len(fs) : AddsSlot(fs[i], u, z) => i \in 1..Len(es)
        BY <1>2, <1>3, <3>1
      <4> QED BY <2>a, <3>3, <4>1, <4>2, <4>3
    <3> QED BY <3>2, <3>3
  <2> QED BY <2>1, <2>2
<1>7. AccessListOrdered(b, fs)
  BY <1>1, <1>4, <1>5, <1>6 DEF AccessListOrdered
<1> QED BY <1>7 DEF b, e, fs

\* The last addition, if it is of a slot, can be reverted, and the order is
\* kept: the slot set is cut off only if it is the last.
LEMMA OrderedDeleteSlot ==
    ASSUME NEW al, NEW E, NEW es \in Seq(E), NEW fs \in Seq(E), NEW w \in Warm, NEW x \in Slot,
           Len(es) = Len(fs) + 1, \A i \in 1..Len(fs) : fs[i] = es[i],
           AddsSlot(es[Len(es)], w, x), AccessListOrdered(al, es)
    PROVE  /\ AL!CanDeleteSlot(al, w)
           /\ x \in AL!SlotSet(al, w)
           /\ AccessListOrdered(AL!DeleteSlot(al, w, x), fs)
           /\ \A v \in Warm, y \in Slot :
                 AL!ContainsSlot(AL!DeleteSlot(al, w, x), v, y)
                     <=> AL!ContainsSlot(al, v, y) /\ ~(v = w /\ y = x)
           /\ \A v \in Warm :
                 AL!ContainsAddress(AL!DeleteSlot(al, w, x), v) <=> AL!ContainsAddress(al, v)
<1> DEFINE b == AL!DeleteSlot(al, w, x)
           n == Len(es)
<1>0. al \in AccessListType /\ AL!WellFormedAccessList(al) /\ Len(fs) \in Nat /\ n \in 1..Len(es)
  BY DEF AccessListOrdered
<1>1. /\ AL!ContainsSlot(al, w, x)
      /\ \A j \in 1..Len(es) : AddsSlot(es[j], w, x) => j = n
  BY <1>0 DEF AccessListOrdered, SlotsThere
<1>2. HasSlots(al, w) /\ AL!ContainsAddress(al, w)
  BY <1>1, ContainsSlotHas
<1>3. AL!CanDeleteSlot(al, w) /\ x \in AL!SlotSet(al, w)
  BY <1>0, <1>1, <1>2, SlotSetThere DEF AL!CanDeleteSlot
<1> HIDE DEF b
<1>4. ASSUME NEW v \in Warm, HasSlots(al, v), al.addresses[w] < al.addresses[v]
      PROVE  \E z \in Slot : z # x /\ AL!ContainsSlot(al, w, z) /\
                \A i \in 1..Len(es) : AddsSlot(es[i], w, z) =>
                    \A y \in Slot : AL!ContainsSlot(al, v, y) =>
                        \E m \in (i + 1)..Len(es) : AddsSlot(es[m], v, y)
  <2>1. PICK z \in Slot :
           /\ AL!ContainsSlot(al, w, z)
           /\ \A i \in 1..Len(es) : AddsSlot(es[i], w, z) =>
                 \A y \in Slot : AL!ContainsSlot(al, v, y) =>
                     \E m \in (i + 1)..Len(es) : AddsSlot(es[m], v, y)
    BY <1>2, <1>4 DEF AccessListOrdered, SetsStacked
  <2>2. PICK y \in Slot : AL!ContainsSlot(al, v, y)
    BY <1>0, <1>4, SlotSetThere
  <2>3. z # x
    BY <1>0, <2>1, <2>2
  <2> QED BY <2>1, <2>3
<1>5. (\A y \in Slot : AL!ContainsSlot(al, w, y) => y = x) =>
          \A v \in Warm : HasSlots(al, v) => al.addresses[v] <= al.addresses[w]
  <2>1. \A v \in Warm : HasSlots(al, v) => al.addresses[v] \in Int
    BY <1>0, SlotSetThere
  <2> QED BY <1>2, <1>4, <2>1
<1>6. /\ b \in AccessListType /\ AL!WellFormedAccessList(b)
      /\ \A v \in Warm, y \in Slot :
            AL!ContainsSlot(b, v, y) <=> AL!ContainsSlot(al, v, y) /\ ~(v = w /\ y = x)
      /\ \A v \in Warm : AL!ContainsAddress(b, v) <=> AL!ContainsAddress(al, v)
      /\ \A v \in Warm : HasSlots(b, v) => HasSlots(al, v) /\ b.addresses[v] = al.addresses[v]
  BY <1>0, <1>1, <1>5, DeleteSlotFacts DEF b
<1>7. \A v : ~AddsAccount(es[n], v)
  BY DEF AddsAccount, AddsSlot
<1>8. \A v, y : AddsSlot(es[n], v, y) => v = w /\ y = x
  BY DEF AddsSlot
<1>9. SlotsThere(b, fs)
  BY <1>0, <1>1, <1>6 DEF AccessListOrdered, SlotsThere
<1>a. ASSUME NEW i \in 1..Len(fs), NEW v \in Warm, NEW y \in Slot, AL!ContainsSlot(b, v, y),
             \E m \in (i + 1)..Len(es) : AddsSlot(es[m], v, y)
      PROVE  \E m \in (i + 1)..Len(fs) : AddsSlot(fs[m], v, y)
  <2>1. PICK m \in (i + 1)..Len(es) : AddsSlot(es[m], v, y)
    BY <1>a
  <2>2. m # n
    BY <1>6, <1>8, <1>a, <2>1
  <2>3. m \in (i + 1)..Len(fs) /\ fs[m] = es[m]
    BY <1>0, <2>2
  <2> QED BY <2>1, <2>3
<1>10. AccountsFirst(b, fs)
  <2> SUFFICES ASSUME NEW i \in 1..Len(fs), NEW v \in Warm, AddsAccount(fs[i], v)
               PROVE  /\ AL!ContainsAddress(b, v)
                      /\ \A j \in 1..Len(fs) : AddsAccount(fs[j], v) => j = i
                      /\ \A y \in Slot : AL!ContainsSlot(b, v, y) =>
                            \E m \in (i + 1)..Len(fs) : AddsSlot(fs[m], v, y)
    BY DEF AccountsFirst
  <2>1. i \in 1..Len(es) /\ AddsAccount(es[i], v)
    BY <1>0
  <2>2. /\ AL!ContainsAddress(al, v)
        /\ \A j \in 1..Len(es) : AddsAccount(es[j], v) => j = i
        /\ \A y \in Slot : AL!ContainsSlot(al, v, y) =>
              \E m \in (i + 1)..Len(es) : AddsSlot(es[m], v, y)
    BY <2>1 DEF AccessListOrdered, AccountsFirst
  <2> QED BY <1>0, <1>6, <1>a, <2>2
<1>11. SetsStacked(b, fs)
  <2> SUFFICES ASSUME NEW u \in Warm, NEW v \in Warm, HasSlots(b, u), HasSlots(b, v),
                      b.addresses[u] < b.addresses[v]
               PROVE  \E z \in Slot :
                         /\ AL!ContainsSlot(b, u, z)
                         /\ \A i \in 1..Len(fs) : AddsSlot(fs[i], u, z) =>
                               \A y \in Slot : AL!ContainsSlot(b, v, y) =>
                                   \E m \in (i + 1)..Len(fs) : AddsSlot(fs[m], v, y)
    BY DEF SetsStacked
  <2>0. HasSlots(al, u) /\ HasSlots(al, v) /\ al.addresses[u] < al.addresses[v]
    BY <1>6
  <2>1. PICK z \in Slot :
           /\ AL!ContainsSlot(al, u, z) /\ ~(u = w /\ z = x)
           /\ \A i \in 1..Len(es) : AddsSlot(es[i], u, z) =>
                 \A y \in Slot : AL!ContainsSlot(al, v, y) =>
                     \E m \in (i + 1)..Len(es) : AddsSlot(es[m], v, y)
    <3>1. CASE u = w
      BY <1>4, <2>0, <3>1
    <3>2. CASE u # w
      BY <2>0, <3>2 DEF AccessListOrdered, SetsStacked
    <3> QED BY <3>1, <3>2
  <2> WITNESS z \in Slot
  <2>2. AL!ContainsSlot(b, u, z)
    BY <1>6, <2>1
  <2>3. ASSUME NEW i \in 1..Len(fs), AddsSlot(fs[i], u, z), NEW y \in Slot, AL!ContainsSlot(b, v, y)
        PROVE  \E m \in (i + 1)..Len(fs) : AddsSlot(fs[m], v, y)
    <3>1. i \in 1..Len(es) /\ AddsSlot(es[i], u, z) /\ AL!ContainsSlot(al, v, y)
      BY <1>0, <1>6, <2>3
    <3> QED BY <1>a, <2>1, <2>3, <3>1
  <2> QED BY <2>2, <2>3
<1>12. AccessListOrdered(b, fs)
  BY <1>6, <1>9, <1>10, <1>11 DEF AccessListOrdered
<1> QED BY <1>3, <1>6, <1>12 DEF b

\* The last addition, if it is of an address, can be reverted: its slots are
\* gone.
LEMMA OrderedDeleteAddress ==
    ASSUME NEW al, NEW E, NEW es \in Seq(E), NEW fs \in Seq(E), NEW w \in Warm,
           Len(es) = Len(fs) + 1, \A i \in 1..Len(fs) : fs[i] = es[i],
           AddsAccount(es[Len(es)], w), AccessListOrdered(al, es)
    PROVE  /\ al.addresses[w] = -1
           /\ AccessListOrdered(AL!DeleteAddress(al, w), fs)
<1> DEFINE b == AL!DeleteAddress(al, w)
           n == Len(es)
<1>0. al \in AccessListType /\ AL!WellFormedAccessList(al) /\ Len(fs) \in Nat /\ n \in 1..Len(es)
  BY DEF AccessListOrdered
<1>1. /\ AL!ContainsAddress(al, w)
      /\ \A j \in 1..Len(es) : AddsAccount(es[j], w) => j = n
      /\ \A y \in Slot : AL!ContainsSlot(al, w, y) =>
            \E m \in (n + 1)..Len(es) : AddsSlot(es[m], w, y)
  BY <1>0 DEF AccessListOrdered, AccountsFirst
<1>2. \A y \in Slot : ~AL!ContainsSlot(al, w, y)
  BY <1>0, <1>1
<1>3. al.addresses[w] = -1
  BY <1>0, <1>1, <1>2, SlotSetThere DEF HasSlots, AL!ContainsAddress
<1> HIDE DEF b
<1>4. /\ b \in AccessListType /\ AL!WellFormedAccessList(b)
      /\ \A v \in Warm, y \in Slot : AL!ContainsSlot(b, v, y) <=> AL!ContainsSlot(al, v, y)
      /\ \A v \in Warm : AL!ContainsAddress(b, v) <=> AL!ContainsAddress(al, v) /\ v # w
      /\ \A v \in Warm : HasSlots(b, v) => HasSlots(al, v) /\ b.addresses[v] = al.addresses[v]
  BY <1>0, <1>3, DeleteAddressFacts DEF b
<1>5. \A v, y : ~AddsSlot(es[n], v, y)
  BY DEF AddsAccount, AddsSlot
<1>6. SlotsThere(b, fs)
  BY <1>0, <1>4 DEF AccessListOrdered, SlotsThere
<1>a. ASSUME NEW i \in 1..Len(fs), NEW v \in Warm, NEW y \in Slot,
             \E m \in (i + 1)..Len(es) : AddsSlot(es[m], v, y)
      PROVE  \E m \in (i + 1)..Len(fs) : AddsSlot(fs[m], v, y)
  <2>1. PICK m \in (i + 1)..Len(es) : AddsSlot(es[m], v, y)
    BY <1>a
  <2>2. m \in (i + 1)..Len(fs) /\ fs[m] = es[m]
    BY <1>0, <1>5, <2>1
  <2> QED BY <2>1, <2>2
<1>7. AccountsFirst(b, fs)
  <2> SUFFICES ASSUME NEW i \in 1..Len(fs), NEW v \in Warm, AddsAccount(fs[i], v)
               PROVE  /\ AL!ContainsAddress(b, v)
                      /\ \A j \in 1..Len(fs) : AddsAccount(fs[j], v) => j = i
                      /\ \A y \in Slot : AL!ContainsSlot(b, v, y) =>
                            \E m \in (i + 1)..Len(fs) : AddsSlot(fs[m], v, y)
    BY DEF AccountsFirst
  <2>1. i \in 1..Len(es) /\ AddsAccount(es[i], v) /\ i # n
    BY <1>0
  <2>2. /\ AL!ContainsAddress(al, v)
        /\ \A j \in 1..Len(es) : AddsAccount(es[j], v) => j = i
        /\ \A y \in Slot : AL!ContainsSlot(al, v, y) =>
              \E m \in (i + 1)..Len(es) : AddsSlot(es[m], v, y)
    BY <2>1 DEF AccessListOrdered, AccountsFirst
  <2>3. v # w
    BY <1>1, <2>1
  <2> QED BY <1>0, <1>4, <1>a, <2>2, <2>3
<1>8. SetsStacked(b, fs)
  <2> SUFFICES ASSUME NEW u \in Warm, NEW v \in Warm, HasSlots(b, u), HasSlots(b, v),
                      b.addresses[u] < b.addresses[v]
               PROVE  \E z \in Slot :
                         /\ AL!ContainsSlot(b, u, z)
                         /\ \A i \in 1..Len(fs) : AddsSlot(fs[i], u, z) =>
                               \A y \in Slot : AL!ContainsSlot(b, v, y) =>
                                   \E m \in (i + 1)..Len(fs) : AddsSlot(fs[m], v, y)
    BY DEF SetsStacked
  <2>0. HasSlots(al, u) /\ HasSlots(al, v) /\ al.addresses[u] < al.addresses[v]
    BY <1>4
  <2>1. PICK z \in Slot :
           /\ AL!ContainsSlot(al, u, z)
           /\ \A i \in 1..Len(es) : AddsSlot(es[i], u, z) =>
                 \A y \in Slot : AL!ContainsSlot(al, v, y) =>
                     \E m \in (i + 1)..Len(es) : AddsSlot(es[m], v, y)
    BY <2>0 DEF AccessListOrdered, SetsStacked
  <2> WITNESS z \in Slot
  <2>2. \A i \in 1..Len(fs) : i \in 1..Len(es)
    BY <1>0
  <2> QED BY <1>4, <1>a, <2>1, <2>2
<1>9. AccessListOrdered(b, fs)
  BY <1>4, <1>6, <1>7, <1>8 DEF AccessListOrdered
<1> QED BY <1>3, <1>9 DEF b

\* Without additions on record every well-formed list is in order.
LEMMA OrderedWithout ==
    ASSUME NEW al \in AccessListType, AL!WellFormedAccessList(al), NEW E, NEW es \in Seq(E),
           \A i \in 1..Len(es) : es[i].kind \notin AccessListKinds
    PROVE  AccessListOrdered(al, es)
<1>1. /\ \A i \in 1..Len(es) : \A w : ~AddsAccount(es[i], w)
      /\ \A i \in 1..Len(es) : \A w, x : ~AddsSlot(es[i], w, x)
  BY DEF AddsAccount, AddsSlot, AccessListKinds
<1>2. SetsStacked(al, es)
  BY <1>1, SlotSetThere DEF SetsStacked
<1> QED BY <1>1, <1>2 DEF AccessListOrdered, SlotsThere, AccountsFirst

\* A list of addresses without slots is well formed.
LEMMA FlatListWellFormed ==
    ASSUME NEW addrs
    PROVE  LET al == [AL!newAccessList EXCEPT !.addresses =
                         [w \in Warm |-> IF w \in addrs THEN -1 ELSE Nil]]
           IN al \in AccessListType /\ AL!WellFormedAccessList(al)
<1> DEFINE al == [AL!newAccessList EXCEPT !.addresses =
                         [w \in Warm |-> IF w \in addrs THEN -1 ELSE Nil]]
<1>1. al.addresses = [w \in Warm |-> IF w \in addrs THEN -1 ELSE Nil] /\ al.slots = <<>>
      /\ al = [addresses |-> [w \in Warm |-> IF w \in addrs THEN -1 ELSE Nil], slots |-> <<>>]
  BY DEF AL!newAccessList
<1>2. al \in AccessListType
  <2>1. [w \in Warm |-> IF w \in addrs THEN -1 ELSE Nil] \in [Warm -> Int \cup {Nil}]
    OBVIOUS
  <2>2. <<>> \in Seq(SUBSET Slot)
    OBVIOUS
  <2> HIDE DEF al
  <2> QED BY <1>1, <2>1, <2>2 DEF AccessListType
<1> HIDE DEF al
<1>3. AL!WellFormedAccessList(al)
  BY <1>1 DEF AL!WellFormedAccessList
<1> QED BY <1>2, <1>3 DEF al

-----------------------------------------------------------------------------
(* What an entry says about the view before it.                            *)

UndoneRefund(e, x) == IF e.kind = "refund" THEN e.prev ELSE x

UndoneLogs(e, x) ==
    IF e.kind = "addLog"
    THEN [x EXCEPT ![e.txhash] = SubSeq(x[e.txhash], 1, Len(x[e.txhash]) - 1)] ELSE x

UndoneLogSize(e, x) == IF e.kind = "addLog" THEN x - 1 ELSE x

UndonePreimages(e, x) == IF e.kind = "addPreimage" THEN x \ {e.hash} ELSE x

UndoneAccess(e, x) ==
    IF e.kind = "accessListAddAccount"
    THEN [addresses |-> x.addresses \ {e.address}, slots |-> {p \in x.slots : p[1] # e.address}]
    ELSE IF e.kind = "accessListAddSlot"
    THEN [addresses |-> x.addresses, slots |-> x.slots \ {<<e.address, e.slot>>}]
    ELSE x

UndoneTransient(e, x) ==
    IF e.kind = "transientStorage"
    THEN [x EXCEPT ![e.account] = [x[e.account] EXCEPT ![e.key] = e.prevalue]] ELSE x

UndoneTx(e, x) ==
    [refund    |-> UndoneRefund(e, x.refund),
     logs      |-> UndoneLogs(e, x.logs),
     logSize   |-> UndoneLogSize(e, x.logSize),
     preimages |-> UndonePreimages(e, x.preimages),
     access    |-> UndoneAccess(e, x.access),
     transient |-> UndoneTransient(e, x.transient)]

\* Adding an address to the access list, and undoing it, in terms of the view.
LEMMA AddAddressView ==
    ASSUME NEW al \in AccessListType, AL!WellFormedAccessList(al), NEW w \in Warm,
           ~AL!ContainsAddress(al, w), NEW e, e.kind = "accessListAddAccount", e.address = w
    PROVE  UndoneAccess(e, AL!AccessListView(AL!AddAddress(al, w))) = AL!AccessListView(al)
<1> DEFINE b == AL!AddAddress(al, w)
           A(l) == {v \in Warm : AL!ContainsAddress(l, v)}
           S(l) == {p \in Warm \X Slot : AL!ContainsSlot(l, p[1], p[2])}
<1>1. /\ \A v \in Warm, y \in Slot : AL!ContainsSlot(b, v, y) <=> AL!ContainsSlot(al, v, y)
      /\ \A v \in Warm : AL!ContainsAddress(b, v) <=> AL!ContainsAddress(al, v) \/ v = w
  BY AddAddressFacts
<1>2. AL!AccessListView(al) = [addresses |-> A(al), slots |-> S(al)]
      /\ AL!AccessListView(b) = [addresses |-> A(b), slots |-> S(b)]
  BY DEF AL!AccessListView
<1> HIDE DEF b
<1>3. A(b) \ {w} = A(al)
  BY <1>1
<1>4. {p \in S(b) : p[1] # w} = S(al)
  <2>1. \A p \in Warm \X Slot : p[1] \in Warm /\ p[2] \in Slot
    OBVIOUS
  <2>2. \A p \in Warm \X Slot : AL!ContainsSlot(al, p[1], p[2]) => p[1] # w
    BY <2>1, ContainsSlotHas
  <2> QED BY <1>1, <2>1, <2>2
<1> DEFINE x == AL!AccessListView(b)
<1>5. x.addresses = A(b) /\ x.slots = S(b)
  BY <1>2
<1>6. UndoneAccess(e, x) = [addresses |-> x.addresses \ {w}, slots |-> {p \in x.slots : p[1] # w}]
  BY DEF UndoneAccess
<1> HIDE DEF x, A, S
<1>7. UndoneAccess(e, x) = [addresses |-> A(al), slots |-> S(al)]
  BY <1>3, <1>4, <1>5, <1>6
<1> QED BY <1>2, <1>7 DEF x, b

\* So with a slot of an address in the list.
LEMMA AddSlotView ==
    ASSUME NEW al \in AccessListType, AL!WellFormedAccessList(al), NEW w \in Warm, NEW x \in Slot,
           AL!ContainsAddress(al, w), ~AL!ContainsSlot(al, w, x),
           NEW e, e.kind = "accessListAddSlot", e.address = w, e.slot = x
    PROVE  UndoneAccess(e, AL!AccessListView(AL!AddSlot(al, w, x))) = AL!AccessListView(al)
<1> DEFINE b == AL!AddSlot(al, w, x)
           A(l) == {v \in Warm : AL!ContainsAddress(l, v)}
           S(l) == {p \in Warm \X Slot : AL!ContainsSlot(l, p[1], p[2])}
<1>1. /\ \A v \in Warm, y \in Slot :
            AL!ContainsSlot(b, v, y) <=> AL!ContainsSlot(al, v, y) \/ (v = w /\ y = x)
      /\ \A v \in Warm : AL!ContainsAddress(b, v) <=> AL!ContainsAddress(al, v) \/ v = w
  BY AddSlotFacts
<1>2. AL!AccessListView(al) = [addresses |-> A(al), slots |-> S(al)]
      /\ AL!AccessListView(b) = [addresses |-> A(b), slots |-> S(b)]
  BY DEF AL!AccessListView
<1> HIDE DEF b
<1>3. A(b) = A(al)
  BY <1>1
<1>4. S(b) \ {<<w, x>>} = S(al)
  <2>1. \A p \in Warm \X Slot : p[1] \in Warm /\ p[2] \in Slot /\ p = <<p[1], p[2]>>
    OBVIOUS
  <2> QED BY <1>1, <2>1
<1> DEFINE y == AL!AccessListView(b)
<1>5. y.addresses = A(b) /\ y.slots = S(b)
  BY <1>2
<1>6. UndoneAccess(e, y) = [addresses |-> y.addresses, slots |-> y.slots \ {<<w, x>>}]
  BY DEF UndoneAccess
<1> HIDE DEF y, A, S
<1>7. UndoneAccess(e, y) = [addresses |-> A(al), slots |-> S(al)]
  BY <1>3, <1>4, <1>5, <1>6
<1> QED BY <1>2, <1>7 DEF y, b

\* The revert of the addition of an address forgets its slots with it.
LEMMA DeleteAddressView ==
    ASSUME NEW al \in AccessListType, NEW w \in Warm,
           NEW e, e.kind = "accessListAddAccount", e.address = w
    PROVE  AL!AccessListView(AL!DeleteAddress(al, w)) = UndoneAccess(e, AL!AccessListView(al))
<1> DEFINE b == AL!DeleteAddress(al, w)
           A(l) == {v \in Warm : AL!ContainsAddress(l, v)}
           S(l) == {p \in Warm \X Slot : AL!ContainsSlot(l, p[1], p[2])}
<1>1. b = [al EXCEPT !.addresses = [al.addresses EXCEPT ![w] = Nil]]
  BY DEF AL!DeleteAddress, AccessListType
<1>2. al.addresses \in [Warm -> Int \cup {Nil}]
  BY DEF AccessListType
<1>3. b.slots = al.slots /\ b.addresses = [al.addresses EXCEPT ![w] = Nil]
  BY <1>1 DEF AccessListType
<1>4. AL!AccessListView(al) = [addresses |-> A(al), slots |-> S(al)]
      /\ AL!AccessListView(b) = [addresses |-> A(b), slots |-> S(b)]
  BY DEF AL!AccessListView
<1> HIDE DEF b
<1>5. b.addresses[w] = Nil /\ \A v \in Warm \ {w} : b.addresses[v] = al.addresses[v]
  BY <1>2, <1>3
<1>6. /\ \A v \in Warm, y \in Slot : AL!ContainsSlot(b, v, y) <=> AL!ContainsSlot(al, v, y) /\ v # w
      /\ \A v \in Warm : AL!ContainsAddress(b, v) <=> AL!ContainsAddress(al, v) /\ v # w
  BY <1>3, <1>5 DEF AL!ContainsSlot, AL!ContainsAddress, AL!SlotSet
<1>7. A(b) = A(al) \ {w}
  BY <1>6
<1>8. S(b) = {p \in S(al) : p[1] # w}
  <2>1. \A p \in Warm \X Slot : p[1] \in Warm /\ p[2] \in Slot
    OBVIOUS
  <2> QED BY <1>6, <2>1
<1> DEFINE x == AL!AccessListView(al)
<1>9. x.addresses = A(al) /\ x.slots = S(al)
  BY <1>4
<1>10. UndoneAccess(e, x) = [addresses |-> x.addresses \ {w}, slots |-> {p \in x.slots : p[1] # w}]
  BY DEF UndoneAccess
<1> HIDE DEF x, A, S
<1> QED BY <1>4, <1>7, <1>8, <1>9, <1>10 DEF x, b

\* The revert of the addition of a slot takes that slot away and no other.
LEMMA DeleteSlotView ==
    ASSUME NEW al, NEW E, NEW es \in Seq(E), NEW fs \in Seq(E), NEW w \in Warm, NEW x \in Slot,
           Len(es) = Len(fs) + 1, \A i \in 1..Len(fs) : fs[i] = es[i],
           AddsSlot(es[Len(es)], w, x), AccessListOrdered(al, es),
           NEW e, e.kind = "accessListAddSlot", e.address = w, e.slot = x
    PROVE  AL!AccessListView(AL!DeleteSlot(al, w, x)) = UndoneAccess(e, AL!AccessListView(al))
<1> DEFINE b == AL!DeleteSlot(al, w, x)
           A(l) == {v \in Warm : AL!ContainsAddress(l, v)}
           S(l) == {p \in Warm \X Slot : AL!ContainsSlot(l, p[1], p[2])}
<1>1. /\ \A v \in Warm, y \in Slot :
            AL!ContainsSlot(b, v, y) <=> AL!ContainsSlot(al, v, y) /\ ~(v = w /\ y = x)
      /\ \A v \in Warm : AL!ContainsAddress(b, v) <=> AL!ContainsAddress(al, v)
  BY OrderedDeleteSlot
<1>2. AL!AccessListView(al) = [addresses |-> A(al), slots |-> S(al)]
      /\ AL!AccessListView(b) = [addresses |-> A(b), slots |-> S(b)]
  BY DEF AL!AccessListView
<1> HIDE DEF b
<1>3. A(b) = A(al)
  BY <1>1
<1>4. S(b) = S(al) \ {<<w, x>>}
  <2>1. \A p \in Warm \X Slot : p[1] \in Warm /\ p[2] \in Slot /\ p = <<p[1], p[2]>>
    OBVIOUS
  <2> QED BY <1>1, <2>1
<1> DEFINE y == AL!AccessListView(al)
<1>5. y.addresses = A(al) /\ y.slots = S(al)
  BY <1>2
<1>6. UndoneAccess(e, y) = [addresses |-> y.addresses, slots |-> y.slots \ {<<w, x>>}]
  BY DEF UndoneAccess
<1> HIDE DEF y, A, S
<1> QED BY <1>2, <1>3, <1>4, <1>5, <1>6 DEF y, b

-----------------------------------------------------------------------------
(* The order of the access list under the setters and the reverts.         *)

\* The setters keep the access list in order.
LEMMA TxSetterOrdered ==
    ASSUME NEW E, journal \in JournalOf(E), TxEntry \subseteq E, TxTypeOK, TxSetter,
           AccessListOrdered(accessList, journal.entries)
    PROVE  AccessListOrdered(accessList', journal'.entries)
<1> DEFINE es == journal.entries
           fs == journal'.entries
<1>0. /\ journal \in JournalOf(E) /\ es \in Seq(E) /\ Len(es) \in Nat
      /\ accessList \in AccessListType /\ AL!WellFormedAccessList(accessList)
  BY DEF JournalOf, AccessListOrdered
<1>t. TxTypeOK /\ \A e \in TxEntry : e \in E
  OBVIOUS
<1>a. ASSUME accessList' = accessList, journal' = journal
      PROVE  AccessListOrdered(accessList', fs)
  BY <1>a
<1>b. ASSUME accessList' = accessList, NEW e \in E, e.kind \notin AccessListKinds,
             journal' = append(journal, e)
      PROVE  AccessListOrdered(accessList', fs)
  <2>1. fs = Append(es, e) /\ fs \in Seq(E)
    BY <1>0, <1>b, AppendOf DEF JournalOf
  <2>2. Extends(es, fs, AccessListKinds)
    BY <1>0, <1>b, <2>1, ExtendsAppend
  <2>3. AccessListOrdered(accessList, fs)
    BY <1>0, <2>1, <2>2, ListAppendOther
  <2> QED BY <1>b, <2>3
<1>1. CASE AddLog
  <2>1. [kind |-> "addLog", txhash |-> thash] \in E
    BY <1>t, TxEntries DEF TxTypeOK
  <2> QED BY <1>1, <1>b, <2>1 DEF AddLog, Journaled, AccessListKinds
<1>2. CASE \E hash \in Preimage : AddPreimage(hash)
  <2>1. \A h \in Preimage : [kind |-> "addPreimage", hash |-> h] \in E
    BY <1>t, TxEntries
  <2> QED BY <1>2, <1>b, <2>1 DEF AddPreimage, Journaled, AccessListKinds
<1>3. CASE \E gas \in Gas : AddRefund(gas) \/ SubRefund(gas)
  <2>1. [kind |-> "refund", prev |-> refund] \in E
    BY <1>t, TxEntries DEF TxTypeOK
  <2> QED BY <1>3, <1>b, <2>1 DEF AddRefund, SubRefund, Journaled, AccessListKinds
<1>4. CASE \E w \in Warm : \E key \in TransientKey, value \in Word :
              SetTransientState(w, key, value)
  <2>1. \A w \in Warm, k \in TransientKey :
           [kind |-> "transientStorage", account |-> w, key |-> k,
            prevalue |-> transientStorage[w][k]] \in E
    BY <1>t, TxEntries DEF TxTypeOK
  <2> QED BY <1>4, <1>b, <2>1 DEF SetTransientState, Journaled, AccessListKinds
<1>5. CASE \E w \in Warm : AddAddressToAccessList(w)
  <2>1. PICK w \in Warm : AddAddressToAccessList(w)
    BY <1>5
  <2> DEFINE e == [kind |-> "accessListAddAccount", address |-> w]
  <2>2. /\ ~AL!ContainsAddress(accessList, w) /\ accessList' = AL!AddAddress(accessList, w)
        /\ journal' = append(journal, e)
    BY <2>1 DEF AddAddressToAccessList, Journaled
  <2>e. e \in E
    BY <1>t, TxEntries
  <2>3. fs = Append(es, e)
    <3> HIDE DEF e
    <3> QED BY <1>0, <2>2, <2>e, AppendOf
  <2> QED BY <1>0, <2>2, <2>3, OrderedAddAddress
<1>6. CASE \E w \in Warm : \E slot \in Slot : AddSlotToAccessList(w, slot)
  <2>1. PICK w \in Warm, x \in Slot : AddSlotToAccessList(w, x)
    BY <1>6
  <2> DEFINE e == [kind |-> "accessListAddSlot", address |-> w, slot |-> x]
             f == [kind |-> "accessListAddAccount", address |-> w]
  <2>2. ~AL!ContainsSlot(accessList, w, x) /\ accessList' = AL!AddSlot(accessList, w, x)
    BY <2>1 DEF AddSlotToAccessList
  <2>3. e \in E /\ f \in E
    BY <1>t, TxEntries
  <2>4. CASE AL!ContainsAddress(accessList, w)
    <3>1. journal' = append(journal, e)
      BY <2>1, <2>4 DEF AddSlotToAccessList, Journaled
    <3>2. fs = Append(es, e)
      BY <1>0, <2>3, <3>1, AppendOf
    <3> QED BY <1>0, <2>2, <3>2, OrderedAddSlot
  <2>5. CASE ~AL!ContainsAddress(accessList, w)
    <3> DEFINE b == AL!AddAddress(accessList, w)
    <3>1. journal' = append(append(journal, f), e)
      BY <2>1, <2>5 DEF AddSlotToAccessList, Journaled
    <3>2. fs = Append(Append(es, f), e) /\ Append(es, f) \in Seq(E)
      <4> DEFINE j == append(journal, f)
      <4> HIDE DEF e, f
      <4>1. j \in JournalOf(E) /\ j.entries = Append(es, f)
        BY <1>0, <2>3, AppendOf
      <4> HIDE DEF j
      <4>2. append(j, e).entries = Append(j.entries, e)
        BY <2>3, <4>1, AppendOf
      <4> QED BY <3>1, <4>1, <4>2 DEF j, JournalOf
    <3>3. AccessListOrdered(b, Append(es, f))
      BY <1>0, <2>5, OrderedAddAddress
    <3>4. AL!AddSlot(b, w, x) = AL!AddSlot(accessList, w, x)
      <4>1. b = [accessList EXCEPT !.addresses = [accessList.addresses EXCEPT ![w] = -1]]
            /\ accessList.addresses[w] = Nil
        BY <1>0, <2>5 DEF AL!AddAddress, AL!ContainsAddress, AccessListType
      <4>2. /\ b.slots = accessList.slots
            /\ b.addresses = [accessList.addresses EXCEPT ![w] = -1]
            /\ b.addresses[w] = -1
        BY <1>0, <4>1 DEF AccessListType
      <4>3. \A n : [b.addresses EXCEPT ![w] = n] = [accessList.addresses EXCEPT ![w] = n]
        BY <1>0, <4>2 DEF AccessListType
      <4> HIDE DEF b
      <4> QED BY <4>1, <4>2, <4>3 DEF AL!AddSlot
    <3>5. ~AL!ContainsSlot(b, w, x)
      BY <1>0, <2>2, <2>5, AddAddressFacts
    <3> HIDE DEF b
    <3>6. AccessListOrdered(AL!AddSlot(b, w, x), Append(Append(es, f), e))
      BY <3>2, <3>3, <3>5, OrderedAddSlot
    <3> QED BY <2>2, <3>2, <3>4, <3>6
  <2> QED BY <2>4, <2>5
<1>7. CASE \E t \in TxHash : SetTxContext(t)
  BY <1>7, <1>a DEF SetTxContext, journalVars
<1>8. CASE \E addrs \in SUBSET Warm \ {{}}, berlin \in BOOLEAN :
              \E tuple \in {<<>>} \cup (addrs \X Slot) : Prepare(addrs, berlin, tuple)
  <2>1. PICK addrs \in SUBSET Warm \ {{}}, berlin \in BOOLEAN :
           \E tuple \in {<<>>} \cup (addrs \X Slot) : Prepare(addrs, berlin, tuple)
    BY <1>8
  <2>2. PICK tuple \in {<<>>} \cup (addrs \X Slot) : Prepare(addrs, berlin, tuple)
    BY <2>1
  <2>3. journal' = journal /\ \A i \in 1..Len(es) : es[i].kind \notin AccessListKinds
    BY <2>2 DEF Prepare, PrepareAllowed, journalVars, AccessListKinds
  <2> DEFINE al == [AL!newAccessList EXCEPT !.addresses =
                       [w \in Warm |-> IF w \in addrs THEN -1 ELSE Nil]]
  <2>4. al \in AccessListType /\ AL!WellFormedAccessList(al)
    BY FlatListWellFormed
  <2>5. CASE ~berlin
    BY <1>a, <2>2, <2>3, <2>5 DEF Prepare
  <2>6. CASE berlin /\ tuple = <<>>
    <3>1. accessList' = al
      BY <2>2, <2>6 DEF Prepare
    <3> HIDE DEF al
    <3> QED BY <1>0, <2>3, <2>4, <3>1, OrderedWithout
  <2>7. CASE berlin /\ tuple # <<>>
    <3>1. accessList' = AL!AddSlot(al, tuple[1], tuple[2])
      BY <2>2, <2>7 DEF Prepare
    <3>2. tuple[1] \in Warm /\ tuple[2] \in Slot
      BY <2>7
    <3> HIDE DEF al
    <3>3. accessList' \in AccessListType /\ AL!WellFormedAccessList(accessList')
      BY <2>4, <3>1, <3>2, AddSlotFacts
    <3> QED BY <1>0, <2>3, <3>3, OrderedWithout
  <2> QED BY <2>5, <2>6, <2>7
<1> QED BY <1>1, <1>2, <1>3, <1>4, <1>5, <1>6, <1>7, <1>8 DEF TxSetter

\* Undoing the last entry.
LEMMA TxUndoOrdered ==
    ASSUME NEW E, journal \in JournalOf(E), journal.entries # <<>>, LastEntry \in Entry, TxUndo,
           AccessListOrdered(accessList, journal.entries)
    PROVE  AccessListOrdered(accessList', journal'.entries)
<1> DEFINE es == journal.entries
           fs == journal'.entries
           e == LastEntry
<1>0. es \in Seq(E)
  BY DEF JournalOf
<1>1. journal' = pop(journal) /\ e \in Entry /\ e = es[Len(es)]
  BY DEF TxUndo, UndoRefund, UndoAddLog, UndoAddPreimage, UndoAccessListAddAccount,
     UndoAccessListAddSlot, UndoTransientStorage, Pops, LastEntry
<1>2. fs \in Seq(E) /\ Len(es) = Len(fs) + 1 /\ \A i \in 1..Len(fs) : fs[i] = es[i]
  BY <1>1, PopOf
<1> HIDE DEF es, fs
<1>3. CASE UndoAccessListAddAccount
  <2>1. e.kind = "accessListAddAccount" /\ accessList' = AL!DeleteAddress(accessList, e.address)
    BY <1>3 DEF UndoAccessListAddAccount, Pops
  <2>2. e.address \in Warm /\ AddsAccount(es[Len(es)], e.address)
    BY <1>1, <2>1, EntryFields DEF AddsAccount
  <2>3. AccessListOrdered(AL!DeleteAddress(accessList, e.address), fs)
    BY <1>0, <1>2, <2>2, OrderedDeleteAddress DEF es
  <2> QED BY <2>1, <2>3 DEF fs
<1>4. CASE UndoAccessListAddSlot
  <2>1. e.kind = "accessListAddSlot" /\ accessList' = AL!DeleteSlot(accessList, e.address, e.slot)
    BY <1>4 DEF UndoAccessListAddSlot, Pops
  <2>2. e.address \in Warm /\ e.slot \in Slot /\ AddsSlot(es[Len(es)], e.address, e.slot)
    BY <1>1, <2>1, EntryFields DEF AddsSlot
  <2>3. AccessListOrdered(AL!DeleteSlot(accessList, e.address, e.slot), fs)
    BY <1>0, <1>2, <2>2, OrderedDeleteSlot DEF es
  <2> QED BY <2>1, <2>3 DEF fs
<1>5. CASE ~UndoAccessListAddAccount /\ ~UndoAccessListAddSlot
  <2>1. accessList' = accessList /\ e.kind \notin AccessListKinds
    BY <1>5 DEF TxUndo, UndoRefund, UndoAddLog, UndoAddPreimage, UndoTransientStorage,
       Pops, AccessListKinds
  <2>2. AccessListOrdered(accessList, fs)
    BY <1>0, <1>1, <1>2, <2>1, ListPopOther DEF es
  <2> QED BY <2>1, <2>2 DEF fs
<1> QED BY <1>3, <1>4, <1>5

-----------------------------------------------------------------------------
(* The setters and the reverts in terms of the view.                       *)

\* A view, from its parts.
TxWhole(r, l, n, p, ac, t) ==
    [refund |-> r, logs |-> l, logSize |-> n, preimages |-> p, access |-> ac, transient |-> t]

AccessView == AL!AccessListView(accessList)

\* The parts of the view of the transaction state.
LEMMA TxViewParts ==
    /\ TxView = TxWhole(refund, logs, logSize, preimages, AccessView, transientStorage)
    /\ TxView' = TxWhole(refund', logs', logSize', preimages', AccessView', transientStorage')
BY DEF TxView, TxWhole, AccessView

\* An entry concerns one part.
LEMMA UndoneWhole ==
    ASSUME NEW e, NEW r, NEW l, NEW n, NEW p, NEW ac, NEW t
    PROVE  UndoneTx(e, TxWhole(r, l, n, p, ac, t))
             = TxWhole(UndoneRefund(e, r), UndoneLogs(e, l), UndoneLogSize(e, n),
                       UndonePreimages(e, p), UndoneAccess(e, ac), UndoneTransient(e, t))
<1> DEFINE x == TxWhole(r, l, n, p, ac, t)
<1>1. /\ x.refund = r /\ x.logs = l /\ x.logSize = n /\ x.preimages = p /\ x.access = ac
      /\ x.transient = t
  BY DEF TxWhole
<1> HIDE DEF x
<1>2. UndoneTx(e, x) = TxWhole(UndoneRefund(e, r), UndoneLogs(e, l), UndoneLogSize(e, n),
                              UndonePreimages(e, p), UndoneAccess(e, ac), UndoneTransient(e, t))
  BY <1>1 DEF UndoneTx, TxWhole
<1> QED BY <1>2 DEF x

\* What is not of its kind an entry leaves as it is.
LEMMA UndoneOther ==
    ASSUME NEW e, NEW r, NEW l, NEW n, NEW p, NEW ac, NEW t
    PROVE  /\ e.kind # "refund" => UndoneRefund(e, r) = r
           /\ e.kind # "addLog" => UndoneLogs(e, l) = l /\ UndoneLogSize(e, n) = n
           /\ e.kind # "addPreimage" => UndonePreimages(e, p) = p
           /\ e.kind \notin AccessListKinds => UndoneAccess(e, ac) = ac
           /\ e.kind # "transientStorage" => UndoneTransient(e, t) = t
BY DEF UndoneRefund, UndoneLogs, UndoneLogSize, UndonePreimages, UndoneAccess, UndoneTransient,
   AccessListKinds

\* An entry of an account concerns no part of the transaction state.
LEMMA UndoneTxOther ==
    ASSUME NEW e, e.kind \notin TxKinds
    PROVE  UndoneTx(e, TxView) = TxView
<1>1. e.kind \notin AccessListKinds
  BY DEF TxKinds, AccessListKinds
<1>2. /\ UndoneRefund(e, refund) = refund
      /\ UndoneLogs(e, logs) = logs
      /\ UndoneLogSize(e, logSize) = logSize
      /\ UndonePreimages(e, preimages) = preimages
      /\ UndoneAccess(e, AccessView) = AccessView
      /\ UndoneTransient(e, transientStorage) = transientStorage
  BY <1>1, UndoneOther DEF TxKinds
<1> QED BY <1>2, TxViewParts, UndoneWhole

\* Prepare replaces the access list and transient storage.
Replaced(x, ac, t) == TxWhole(x.refund, x.logs, x.logSize, x.preimages, ac, t)

\* Entries of other kinds do not read the access list and the transient storage.
LEMMA UndoneReplaced ==
    ASSUME NEW e, e.kind \notin AccessListKinds \cup {"transientStorage"}, NEW x, NEW ac, NEW t
    PROVE  UndoneTx(e, Replaced(x, ac, t)) = Replaced(UndoneTx(e, x), ac, t)
<1>1. UndoneAccess(e, ac) = ac /\ UndoneTransient(e, t) = t
  BY UndoneOther
<1>2. /\ UndoneTx(e, x).refund = UndoneRefund(e, x.refund)
      /\ UndoneTx(e, x).logs = UndoneLogs(e, x.logs)
      /\ UndoneTx(e, x).logSize = UndoneLogSize(e, x.logSize)
      /\ UndoneTx(e, x).preimages = UndonePreimages(e, x.preimages)
  BY DEF UndoneTx
<1> QED BY <1>1, <1>2, UndoneWhole DEF Replaced

\* A setter journals how the view was.  Prepare, which journals nothing, is
\* called before the first snapshot.
TxSetterView ==
    \/ journal' = journal /\ TxView' = TxView
    \/ \E e \in TxEntry : journal' = append(journal, e) /\ UndoneTx(e, TxView') = TxView
    \/ \E f, e \in TxEntry : \E m :
          /\ journal' = append(append(journal, f), e)
          /\ UndoneTx(f, m) = TxView
          /\ UndoneTx(e, TxView') = m
    \/ /\ journal' = journal
       /\ validRevisions = <<>>
       /\ \A i \in 1..Len(journal.entries) :
             journal.entries[i].kind \notin AccessListKinds \cup {"transientStorage"}
       /\ TxView' = Replaced(TxView, AccessView', transientStorage')

\* The entries that a setter appends lead back to the view before it.
LEMMA TxSetterViews ==
    ASSUME TxTypeOK, TxSetter, accessList \in AccessListType, AL!WellFormedAccessList(accessList)
    PROVE  TxSetterView
<1>0. /\ accessList \in AccessListType /\ AL!WellFormedAccessList(accessList)
      /\ TxTypeOK
  OBVIOUS
<1>2. TxView = TxWhole(refund, logs, logSize, preimages, AccessView, transientStorage)
  BY TxViewParts
<1>3. TxView' = TxWhole(refund', logs', logSize', preimages', AccessView', transientStorage')
  BY TxViewParts
<1>n. ASSUME NEW e \in TxEntry, journal' = append(journal, e), UndoneTx(e, TxView') = TxView
      PROVE  TxSetterView
  BY <1>n DEF TxSetterView
<1>u. ASSUME NEW e,
             UndoneRefund(e, refund') = refund, UndoneLogs(e, logs') = logs,
             UndoneLogSize(e, logSize') = logSize, UndonePreimages(e, preimages') = preimages,
             UndoneAccess(e, AccessView') = AccessView,
             UndoneTransient(e, transientStorage') = transientStorage
      PROVE  UndoneTx(e, TxView') = TxView
  BY <1>2, <1>3, <1>u, UndoneWhole
<1>4. CASE AddLog
  <2> DEFINE e == [kind |-> "addLog", txhash |-> thash]
             old == logs[thash]
  <2>1. e \in TxEntry /\ e.kind = "addLog" /\ e.txhash = thash /\ thash \in TxHash
    BY <1>0, TxEntries DEF TxTypeOK
  <2>2. /\ journal' = append(journal, e) /\ logs' = [logs EXCEPT ![thash] = Append(old, logSize)]
        /\ logSize' = logSize + 1
        /\ UNCHANGED <<refund, preimages, accessList, transientStorage>>
    BY <1>4 DEF AddLog, Journaled
  <2>3. logs \in [TxHash -> Seq(Int)] /\ logSize \in Int /\ old \in Seq(Int)
    BY <1>0, <2>1 DEF TxTypeOK
  <2>4. SubSeq(Append(old, logSize), 1, Len(Append(old, logSize)) - 1) = old
    BY <2>3
  <2> HIDE DEF e, old
  <2>5. logs'[thash] = Append(old, logSize)
    BY <2>1, <2>2, <2>3
  <2>6. UndoneLogs(e, logs') = [logs' EXCEPT ![thash] = old]
    BY <2>1, <2>4, <2>5 DEF UndoneLogs
  <2>7. [logs' EXCEPT ![thash] = old] = logs
    BY <2>1, <2>2, <2>3 DEF old
  <2>8. UndoneLogSize(e, logSize') = logSize
    BY <2>1, <2>2, <2>3 DEF UndoneLogSize
  <2>9. e.kind \notin AccessListKinds
    BY <2>1 DEF AccessListKinds
  <2>10. AccessView' = AccessView
    BY <2>2 DEF AccessView
  <2>11. UndoneTx(e, TxView') = TxView
    BY <1>u, <2>1, <2>2, <2>6, <2>7, <2>8, <2>9, <2>10, UndoneOther
  <2> QED BY <1>n, <2>1, <2>2, <2>11
<1>5. CASE \E hash \in Preimage : AddPreimage(hash)
  <2>0. PICK h \in Preimage : AddPreimage(h)
    BY <1>5
  <2> DEFINE e == [kind |-> "addPreimage", hash |-> h]
  <2>1. e \in TxEntry /\ e.kind = "addPreimage" /\ e.hash = h
    BY TxEntries
  <2>2. /\ journal' = append(journal, e) /\ preimages' = preimages \cup {h} /\ h \notin preimages
        /\ UNCHANGED <<refund, logs, logSize, accessList, transientStorage>>
    BY <2>0 DEF AddPreimage, Journaled
  <2> HIDE DEF e
  <2>3. UndonePreimages(e, preimages') = preimages
    BY <2>1, <2>2 DEF UndonePreimages
  <2>9. e.kind \notin AccessListKinds
    BY <2>1 DEF AccessListKinds
  <2>10. AccessView' = AccessView
    BY <2>2 DEF AccessView
  <2>11. UndoneTx(e, TxView') = TxView
    BY <1>u, <2>1, <2>2, <2>3, <2>9, <2>10, UndoneOther
  <2> QED BY <1>n, <2>1, <2>2, <2>11
<1>6. CASE \E gas \in Gas : AddRefund(gas) \/ SubRefund(gas)
  <2> DEFINE e == [kind |-> "refund", prev |-> refund]
  <2>1. e \in TxEntry /\ e.kind = "refund" /\ e.prev = refund
    BY <1>0, TxEntries DEF TxTypeOK
  <2>2. /\ journal' = append(journal, e)
        /\ UNCHANGED <<preimages, logs, logSize, accessList, transientStorage>>
    BY <1>6 DEF AddRefund, SubRefund, Journaled
  <2> HIDE DEF e
  <2>3. UndoneRefund(e, refund') = refund
    BY <2>1 DEF UndoneRefund
  <2>9. e.kind \notin AccessListKinds
    BY <2>1 DEF AccessListKinds
  <2>10. AccessView' = AccessView
    BY <2>2 DEF AccessView
  <2>11. UndoneTx(e, TxView') = TxView
    BY <1>u, <2>1, <2>2, <2>3, <2>9, <2>10, UndoneOther
  <2> QED BY <1>n, <2>1, <2>2, <2>11
<1>7. CASE \E w \in Warm : \E key \in TransientKey, value \in Word : SetTransientState(w, key, value)
  <2>0. PICK w \in Warm, k \in TransientKey, val \in Word : SetTransientState(w, k, val)
    BY <1>7
  <2> DEFINE old == transientStorage[w][k]
             e == [kind |-> "transientStorage", account |-> w, key |-> k, prevalue |-> old]
  <2>t. transientStorage \in [Warm -> [TransientKey -> Word]] /\ old \in Word
    BY <1>0 DEF TxTypeOK
  <2>1. /\ e \in TxEntry /\ e.kind = "transientStorage" /\ e.account = w /\ e.key = k
        /\ e.prevalue = old
    BY <2>t, TxEntries
  <2>2. /\ journal' = append(journal, e)
        /\ transientStorage' = [transientStorage EXCEPT ![w][k] = val]
        /\ UNCHANGED <<refund, preimages, logs, logSize, accessList>>
    BY <2>0 DEF SetTransientState, Journaled
  <2> HIDE DEF e
  <2>3. UndoneTransient(e, transientStorage') = transientStorage
    <3>1. UndoneTransient(e, transientStorage')
            = [transientStorage' EXCEPT ![w] = [transientStorage'[w] EXCEPT ![k] = old]]
      BY <2>1 DEF UndoneTransient
    <3>2. transientStorage'[w] = [transientStorage[w] EXCEPT ![k] = val]
      BY <2>2, <2>t
    <3>3. [transientStorage'[w] EXCEPT ![k] = old] = transientStorage[w]
      BY <2>t, <3>2
    <3>4. \A v \in Warm \ {w} : transientStorage'[v] = transientStorage[v]
      BY <2>2, <2>t
    <3>5. transientStorage' = [v \in Warm |-> transientStorage'[v]]
      BY <2>2, <2>t
    <3> HIDE DEF old
    <3> QED BY <2>t, <3>1, <3>3, <3>4, <3>5
  <2>9. e.kind \notin AccessListKinds
    BY <2>1 DEF AccessListKinds
  <2>10. AccessView' = AccessView
    BY <2>2 DEF AccessView
  <2>11. UndoneTx(e, TxView') = TxView
    BY <1>u, <2>1, <2>2, <2>3, <2>9, <2>10, UndoneOther
  <2> QED BY <1>n, <2>1, <2>2, <2>11
<1>8. CASE \E w \in Warm : AddAddressToAccessList(w)
  <2>0. PICK w \in Warm : AddAddressToAccessList(w)
    BY <1>8
  <2> DEFINE e == [kind |-> "accessListAddAccount", address |-> w]
  <2>1. e \in TxEntry /\ e.kind = "accessListAddAccount" /\ e.address = w
    BY TxEntries
  <2>2. /\ journal' = append(journal, e) /\ ~AL!ContainsAddress(accessList, w)
        /\ accessList' = AL!AddAddress(accessList, w)
        /\ UNCHANGED <<refund, preimages, logs, logSize, transientStorage>>
    BY <2>0 DEF AddAddressToAccessList, Journaled
  <2> HIDE DEF e
  <2>3. UndoneAccess(e, AccessView') = AccessView
    BY <1>0, <2>1, <2>2, AddAddressView DEF AccessView
  <2>11. UndoneTx(e, TxView') = TxView
    BY <1>u, <2>1, <2>2, <2>3, UndoneOther
  <2> QED BY <1>n, <2>1, <2>2, <2>11
<1>9. CASE \E w \in Warm : \E slot \in Slot : AddSlotToAccessList(w, slot)
  <2>0. PICK w \in Warm, x \in Slot : AddSlotToAccessList(w, x)
    BY <1>9
  <2> DEFINE e == [kind |-> "accessListAddSlot", address |-> w, slot |-> x]
             f == [kind |-> "accessListAddAccount", address |-> w]
  <2>1. e \in TxEntry /\ e.kind = "accessListAddSlot" /\ e.address = w /\ e.slot = x
    BY TxEntries
  <2>f. f \in TxEntry /\ f.kind = "accessListAddAccount" /\ f.address = w
    BY TxEntries
  <2>2. /\ ~AL!ContainsSlot(accessList, w, x) /\ accessList' = AL!AddSlot(accessList, w, x)
        /\ UNCHANGED <<refund, preimages, logs, logSize, transientStorage>>
    BY <2>0 DEF AddSlotToAccessList
  <2>3. CASE AL!ContainsAddress(accessList, w)
    <3>1. journal' = append(journal, e)
      BY <2>0, <2>3 DEF AddSlotToAccessList, Journaled
    <3> HIDE DEF e
    <3>2. UndoneAccess(e, AccessView') = AccessView
      BY <1>0, <2>1, <2>2, <2>3, AddSlotView DEF AccessView
    <3>3. UndoneTx(e, TxView') = TxView
      BY <1>u, <2>1, <2>2, <3>2, UndoneOther
    <3> QED BY <1>n, <2>1, <3>1, <3>3
  <2>4. CASE ~AL!ContainsAddress(accessList, w)
    <3> DEFINE b == AL!AddAddress(accessList, w)
               y == AL!AccessListView(b)
               u == TxWhole(refund, logs, logSize, preimages, y, transientStorage)
    <3>1. journal' = append(append(journal, f), e)
      BY <2>0, <2>4 DEF AddSlotToAccessList, Journaled
    <3>3. /\ b \in AccessListType /\ AL!WellFormedAccessList(b) /\ AL!ContainsAddress(b, w)
          /\ ~AL!ContainsSlot(b, w, x)
      BY <1>0, <2>2, <2>4, AddAddressFacts
    <3>4. AL!AddSlot(b, w, x) = AL!AddSlot(accessList, w, x)
      <4>1. b = [accessList EXCEPT !.addresses = [accessList.addresses EXCEPT ![w] = -1]]
            /\ accessList.addresses[w] = Nil
        BY <1>0, <2>4 DEF AL!AddAddress, AL!ContainsAddress, AccessListType
      <4>2. /\ b.slots = accessList.slots
            /\ b.addresses = [accessList.addresses EXCEPT ![w] = -1]
            /\ b.addresses[w] = -1
        BY <1>0, <4>1 DEF AccessListType
      <4>3. \A n : [b.addresses EXCEPT ![w] = n] = [accessList.addresses EXCEPT ![w] = n]
        BY <1>0, <4>2 DEF AccessListType
      <4> HIDE DEF b
      <4> QED BY <4>1, <4>2, <4>3 DEF AL!AddSlot
    <3> HIDE DEF e, f
    <3>5. UndoneAccess(f, y) = AccessView
      BY <1>0, <2>4, <2>f, AddAddressView DEF AccessView
    <3> HIDE DEF b
    <3>6. UndoneAccess(e, AccessView') = y
      BY <2>1, <2>2, <3>3, <3>4, AddSlotView DEF AccessView
    <3> HIDE DEF y
    <3>7. UndoneTx(f, u) = TxView
      BY <1>2, <2>f, <3>5, UndoneWhole, UndoneOther
    <3>8. UndoneTx(e, TxView') = u
      BY <1>3, <2>1, <2>2, <3>6, UndoneWhole, UndoneOther
    <3> HIDE DEF u
    <3> QED BY <2>1, <2>f, <3>1, <3>7, <3>8 DEF TxSetterView
  <2> QED BY <2>3, <2>4
<1>10. CASE \E t \in TxHash : SetTxContext(t)
  <2>1. /\ UNCHANGED <<refund, logs, logSize, preimages, accessList, transientStorage>>
        /\ journal' = journal
    BY <1>10 DEF SetTxContext, journalVars
  <2>2. TxView' = TxView
    BY <1>2, <1>3, <2>1 DEF AccessView
  <2> QED BY <2>1, <2>2 DEF TxSetterView
<1>11. CASE \E addrs \in SUBSET Warm \ {{}}, berlin \in BOOLEAN :
               \E tuple \in {<<>>} \cup (addrs \X Slot) : Prepare(addrs, berlin, tuple)
  <2>1. /\ journal' = journal /\ UNCHANGED <<refund, logs, logSize, preimages>>
        /\ validRevisions = <<>>
        /\ \A i \in 1..Len(journal.entries) :
              journal.entries[i].kind \notin AccessListKinds \cup {"transientStorage"}
    BY <1>11 DEF Prepare, PrepareAllowed, journalVars, AccessListKinds
  <2>2. /\ TxView.refund = refund /\ TxView.logs = logs
        /\ TxView.logSize = logSize /\ TxView.preimages = preimages
    BY DEF TxView
  <2>3. TxView' = Replaced(TxView, AccessView', transientStorage')
    BY <1>3, <2>1, <2>2 DEF Replaced
  <2> QED BY <2>1, <2>3 DEF TxSetterView
<1> QED BY <1>4, <1>5, <1>6, <1>7, <1>8, <1>9, <1>10, <1>11 DEF TxSetter

\* Reverting an entry goes back to the view before it.
LEMMA TxUndoViews ==
    ASSUME NEW E, journal \in JournalOf(E), journal.entries # <<>>, LastEntry \in Entry, TxUndo,
           AccessListOrdered(accessList, journal.entries)
    PROVE  TxView' = UndoneTx(LastEntry, TxView)
<1> DEFINE es == journal.entries
           fs == journal'.entries
           e == LastEntry
<1>0. es \in Seq(E) /\ accessList \in AccessListType
  BY DEF JournalOf, AccessListOrdered
<1>4. journal' = pop(journal) /\ e \in Entry /\ e = es[Len(es)]
  BY DEF TxUndo, UndoRefund, UndoAddLog, UndoAddPreimage, UndoAccessListAddAccount,
     UndoAccessListAddSlot, UndoTransientStorage, Pops, LastEntry
<1>5. fs \in Seq(E) /\ Len(es) = Len(fs) + 1 /\ \A i \in 1..Len(fs) : fs[i] = es[i]
  BY <1>4, PopOf
<1> HIDE DEF es, fs, e
<1>u. ASSUME refund' = UndoneRefund(e, refund), logs' = UndoneLogs(e, logs),
             logSize' = UndoneLogSize(e, logSize), preimages' = UndonePreimages(e, preimages),
             AccessView' = UndoneAccess(e, AccessView),
             transientStorage' = UndoneTransient(e, transientStorage)
      PROVE  TxView' = UndoneTx(e, TxView)
  BY <1>u, TxViewParts, UndoneWhole
<1>6. CASE UndoRefund
  <2>1. /\ e.kind = "refund" /\ refund' = e.prev
        /\ UNCHANGED <<logs, logSize, preimages, accessList, transientStorage>>
    BY <1>6 DEF UndoRefund, Pops, e
  <2>2. e.kind \notin AccessListKinds
    BY <2>1 DEF AccessListKinds
  <2>3. AccessView' = AccessView /\ refund' = UndoneRefund(e, refund)
    BY <2>1 DEF AccessView, UndoneRefund
  <2> QED BY <1>u, <2>1, <2>2, <2>3, UndoneOther DEF e
<1>7. CASE UndoAddLog
  <2>1. /\ e.kind = "addLog"
        /\ logs' = [logs EXCEPT ![e.txhash] =
                       SubSeq(logs[e.txhash], 1, Len(logs[e.txhash]) - 1)]
        /\ logSize' = logSize - 1
        /\ UNCHANGED <<refund, preimages, accessList, transientStorage>>
    BY <1>7 DEF UndoAddLog, Pops, e
  <2>2. e.kind \notin AccessListKinds
    BY <2>1 DEF AccessListKinds
  <2>3. /\ AccessView' = AccessView /\ logs' = UndoneLogs(e, logs)
        /\ logSize' = UndoneLogSize(e, logSize)
    BY <2>1 DEF AccessView, UndoneLogs, UndoneLogSize
  <2> QED BY <1>u, <2>1, <2>2, <2>3, UndoneOther DEF e
<1>8. CASE UndoAddPreimage
  <2>1. /\ e.kind = "addPreimage" /\ preimages' = preimages \ {e.hash}
        /\ UNCHANGED <<refund, logs, logSize, accessList, transientStorage>>
    BY <1>8 DEF UndoAddPreimage, Pops, e
  <2>2. e.kind \notin AccessListKinds
    BY <2>1 DEF AccessListKinds
  <2>3. AccessView' = AccessView /\ preimages' = UndonePreimages(e, preimages)
    BY <2>1 DEF AccessView, UndonePreimages
  <2> QED BY <1>u, <2>1, <2>2, <2>3, UndoneOther DEF e
<1>9. CASE UndoAccessListAddAccount
  <2>1. /\ e.kind = "accessListAddAccount" /\ accessList' = AL!DeleteAddress(accessList, e.address)
        /\ UNCHANGED <<refund, logs, logSize, preimages, transientStorage>>
    BY <1>9 DEF UndoAccessListAddAccount, Pops, e
  <2>2. e.address \in Warm
    BY <1>4, <2>1, EntryFields
  <2>3. AccessView' = UndoneAccess(e, AccessView)
    BY <1>0, <2>1, <2>2, DeleteAddressView DEF AccessView
  <2> QED BY <1>u, <2>1, <2>2, <2>3, UndoneOther DEF e
<1>10. CASE UndoAccessListAddSlot
  <2>1. /\ e.kind = "accessListAddSlot"
        /\ accessList' = AL!DeleteSlot(accessList, e.address, e.slot)
        /\ UNCHANGED <<refund, logs, logSize, preimages, transientStorage>>
    BY <1>10 DEF UndoAccessListAddSlot, Pops, e
  <2>2. e.address \in Warm /\ e.slot \in Slot
    BY <1>4, <2>1, EntryFields
  <2>3. AddsSlot(es[Len(es)], e.address, e.slot)
    BY <1>4, <2>1 DEF AddsSlot
  <2>4. AccessView' = UndoneAccess(e, AccessView)
    BY <1>0, <1>5, <2>1, <2>2, <2>3, DeleteSlotView DEF AccessView, es
  <2> QED BY <1>u, <2>1, <2>2, <2>4, UndoneOther DEF e
<1>11. CASE UndoTransientStorage
  <2>1. /\ e.kind = "transientStorage"
        /\ transientStorage' = [transientStorage EXCEPT ![e.account] =
                                   [transientStorage[e.account] EXCEPT ![e.key] = e.prevalue]]
        /\ UNCHANGED <<refund, logs, logSize, preimages, accessList>>
    BY <1>11 DEF UndoTransientStorage, Pops, e
  <2>2. e.kind \notin AccessListKinds
    BY <2>1 DEF AccessListKinds
  <2>3. AccessView' = AccessView /\ transientStorage' = UndoneTransient(e, transientStorage)
    BY <2>1 DEF AccessView, UndoneTransient
  <2> QED BY <1>u, <2>1, <2>2, <2>3, UndoneOther DEF e
<1> QED BY <1>6, <1>7, <1>8, <1>9, <1>10, <1>11 DEF TxUndo
=============================================================================
