------------------------- MODULE LeafStateDB_proofs -------------------------
(***************************************************************************)
(* Proofs about the StateDB of direct_by_leaf.  Its methods are taken      *)
(* apart into the few primitive steps they are made of.  Two facts then    *)
(* have to be shown for the primitives and the reverts only: every entry   *)
(* of the journal finds its object, and each entry leads from the view     *)
(* after it to the view before it.                                         *)
(***************************************************************************)
EXTENDS LeafHistory, TxState_proofs

-----------------------------------------------------------------------------
(* The entries of this package.                                            *)

FieldKinds == {"suicide", "balance", "nonce", "code", "storage"}

AccountKinds == {"createObject", "resetObject", "touch"} \cup FieldKinds

Concerns(e, a) == e.kind \in AccountKinds /\ e.account = a

\* The entry of a replaced object holds an object of this package.
LeafEntry ==
    {e \in Entry : e.kind # "resetObject"}
    \cup [kind : {"resetObject"}, account : Addr, prev : LeafObject, prevdestruct : BOOLEAN]

CreateEntry(a) == [kind |-> "createObject", account |-> a]

TouchEntry(a) == [kind |-> "touch", account |-> a]

ResetEntry(p, a, d) ==
    [kind |-> "resetObject", account |-> a, prev |-> p, prevdestruct |-> d]

\* The entries that the methods append are entries.
LEMMA LeafEntryTypes ==
    /\ \A a \in Addr : CreateEntry(a) \in LeafEntry /\ TouchEntry(a) \in LeafEntry
    /\ \A a \in Addr, p \in LeafObject, d \in BOOLEAN : ResetEntry(p, a, d) \in LeafEntry
    /\ \A a \in Addr, p \in BOOLEAN, b \in Int :
          [kind |-> "suicide", account |-> a, prev |-> p, prevbalance |-> b] \in LeafEntry
    /\ \A a \in Addr, p \in Int : [kind |-> "balance", account |-> a, prev |-> p] \in LeafEntry
    /\ \A a \in Addr, p \in Nat : [kind |-> "nonce", account |-> a, prev |-> p] \in LeafEntry
    /\ \A a \in Addr, p \in Code : [kind |-> "code", account |-> a, prev |-> p] \in LeafEntry
    /\ \A a \in Addr, k \in Key, v \in Word :
          [kind |-> "storage", account |-> a, key |-> k, prevalue |-> v] \in LeafEntry
    /\ TxEntry \subseteq LeafEntry
<1>1. \A e \in Entry : e.kind # "resetObject" => e \in LeafEntry
  BY DEF LeafEntry
<1>2. \A a \in Addr, p \in LeafObject, d \in BOOLEAN : ResetEntry(p, a, d) \in LeafEntry
  BY DEF LeafEntry, ResetEntry
<1>3. TxEntry \subseteq LeafEntry
  BY <1>1 DEF TxEntry, TxKinds
<1> QED BY <1>1, <1>2, <1>3, EntryTypes DEF CreateEntry, TouchEntry

\* The fields of an entry have the types its revert method needs.
LEMMA LeafEntryFields ==
    ASSUME NEW e \in LeafEntry
    PROVE  /\ e.kind \in AccountKinds => e.account \in Addr
           /\ e.kind = "resetObject" => e.prev \in LeafObject
           /\ e.kind = "suicide" => e.prev \in BOOLEAN /\ e.prevbalance \in Int
           /\ e.kind = "balance" => e.prev \in Int
           /\ e.kind = "nonce" => e.prev \in Nat
           /\ e.kind = "code" => e.prev \in Code
           /\ e.kind = "storage" => e.key \in Key /\ e.prevalue \in Word
           /\ e.kind \in TxKinds => e \in TxEntry
<1>1. CASE e \in Entry /\ e.kind # "resetObject"
  BY <1>1, EntryFields DEF AccountKinds, FieldKinds, TxEntry
<1>2. CASE e \in [kind : {"resetObject"}, account : Addr, prev : LeafObject, prevdestruct : BOOLEAN]
  BY <1>2 DEF TxKinds
<1> QED BY <1>1, <1>2 DEF LeafEntry

-----------------------------------------------------------------------------
(* Objects.                                                                *)

ObjectMap == [Addr -> LeafObject \cup {Nil}]

RowMap == [Addr -> Row \cup {Nil}]

\* A new object, with the balance that is carried over to it.
Fresh(b) == [newLeafObject(NoRow) EXCEPT !.balance = b]

\* Objects made from rows, and new ones, are live and genuine objects.
LEMMA NewLeafObjects ==
    /\ \A row \in Row : /\ newLeafObject(row) \in LeafObject /\ newLeafObject(row) # Nil
                        /\ ~newLeafObject(row).deleted /\ newLeafObject(row).fakeStorage = Nil
    /\ \A b \in Int : /\ Fresh(b) \in LeafObject /\ Fresh(b) # Nil
                      /\ ~Fresh(b).deleted /\ Fresh(b).fakeStorage = Nil /\ Fresh(b).balance = b
    /\ Fresh(0) = newLeafObject(NoRow)
<1>1. NoStorage \in Cache
  BY DEF NoStorage, Cache
<1>2. ASSUME NEW row \in Row
      PROVE  /\ newLeafObject(row) \in LeafObject
             /\ ~newLeafObject(row).deleted /\ newLeafObject(row).fakeStorage = Nil
  BY <1>1 DEF newLeafObject, LeafObject, Row
<1>3. newLeafObject(NoRow) \in LeafObject /\ newLeafObject(NoRow).balance = 0
      /\ ~newLeafObject(NoRow).deleted /\ newLeafObject(NoRow).fakeStorage = Nil
  BY <1>1, ConstantsAssumption DEF newLeafObject, LeafObject, NoRow
<1>4. ASSUME NEW b \in Int
      PROVE  /\ Fresh(b) \in LeafObject
             /\ ~Fresh(b).deleted /\ Fresh(b).fakeStorage = Nil /\ Fresh(b).balance = b
  BY <1>3 DEF Fresh, LeafObject
<1>5. Fresh(0) = newLeafObject(NoRow)
  BY <1>3 DEF Fresh, LeafObject
<1> QED BY <1>2, <1>4, <1>5, LeafAssumption

\* Setting a field of an object.
LEMMA UpdatedObject ==
    ASSUME NEW p \in LeafObject
    PROVE  /\ \A b \in Int : [p EXCEPT !.balance = b] \in LeafObject
           /\ \A n \in Nat : [p EXCEPT !.nonce = n] \in LeafObject
           /\ \A c \in Code : [p EXCEPT !.code = c] \in LeafObject
           /\ \A b \in BOOLEAN, n \in Int :
                 [p EXCEPT !.suicided = b, !.balance = n] \in LeafObject
           /\ \A m \in Slots \cup {Nil} : [p EXCEPT !.fakeStorage = m] \in LeafObject
           /\ \A m \in Cache : [p EXCEPT !.originStorage = m] \in LeafObject
           /\ \A m \in Cache : [p EXCEPT !.dirtyStorage = m] \in LeafObject
           /\ [p EXCEPT !.suicided = TRUE, !.balance = 0] \in LeafObject
           /\ [p EXCEPT !.deleted = TRUE] \in LeafObject
<1>1. ASSUME NEW b \in BOOLEAN, NEW n \in Int
      PROVE  [p EXCEPT !.suicided = b, !.balance = n] \in LeafObject
  <2> DEFINE q == [p EXCEPT !.suicided = b]
  <2>1. q \in LeafObject
    BY DEF LeafObject
  <2>2. [p EXCEPT !.suicided = b, !.balance = n] = [q EXCEPT !.balance = n]
    BY DEF LeafObject
  <2> HIDE DEF q
  <2>3. [q EXCEPT !.balance = n] \in LeafObject
    BY <2>1 DEF LeafObject
  <2> QED BY <2>2, <2>3
<1>2. /\ \A b \in Int : [p EXCEPT !.balance = b] \in LeafObject
      /\ \A n \in Nat : [p EXCEPT !.nonce = n] \in LeafObject
      /\ \A c \in Code : [p EXCEPT !.code = c] \in LeafObject
  BY DEF LeafObject
<1>3. /\ \A m \in Slots \cup {Nil} : [p EXCEPT !.fakeStorage = m] \in LeafObject
      /\ \A m \in Cache : [p EXCEPT !.originStorage = m] \in LeafObject
      /\ \A m \in Cache : [p EXCEPT !.dirtyStorage = m] \in LeafObject
  BY DEF LeafObject
<1>4. [p EXCEPT !.deleted = TRUE] \in LeafObject
  BY DEF LeafObject
<1>5. [p EXCEPT !.suicided = TRUE, !.balance = 0] \in LeafObject
  <2>1. TRUE \in BOOLEAN /\ 0 \in Int
    OBVIOUS
  <2> QED BY <1>1, <2>1, Zenon
<1> QED BY <1>1, <1>2, <1>3, <1>4, <1>5

\* Assigning one object.
LEMMA UpdatedMap ==
    ASSUME NEW f \in ObjectMap, NEW a \in Addr, NEW o \in LeafObject \cup {Nil}
    PROVE  /\ [f EXCEPT ![a] = o] \in ObjectMap
           /\ [f EXCEPT ![a] = o][a] = o
           /\ \A b \in Addr : b # a => [f EXCEPT ![a] = o][b] = f[b]
BY DEF ObjectMap

\* A live account has an object.
LEMMA LiveObject ==
    ASSUME NEW f \in ObjectMap, NEW a \in Addr, Live(f, a)
    PROVE  f[a] \in LeafObject /\ f[a] # Nil /\ ~f[a].deleted
BY DEF ObjectMap, Live

\* A slot in the database has a value.
LEMMA StorageValueType ==
    ASSUME database \in RowMap, NEW a \in Addr, NEW k \in Key
    PROVE  StorageValue(a, k) \in Word
BY ConstantsAssumption DEF RowMap, Row, Slots, StorageValue

\* Reading a slot yields a value, whether the query is answered or not.
LEMMA StateOfType ==
    ASSUME database \in RowMap, NEW a \in Addr, NEW k \in Key, NEW o \in LeafObject, NEW ok
    PROVE  CommittedOf(o, a, k, ok) \in Word /\ StateOf(o, a, k, ok) \in Word
<1>1. StorageValue(a, k) \in Word /\ Zero \in Word
  BY StorageValueType, ConstantsAssumption
<1>2. /\ o.fakeStorage # Nil => o.fakeStorage[k] \in Word
      /\ o.originStorage[k] # Nil => o.originStorage[k] \in Word
      /\ o.dirtyStorage[k] # Nil => o.dirtyStorage[k] \in Word
  BY DEF LeafObject, Slots, Cache
<1> QED BY <1>1, <1>2 DEF CommittedOf, StateOf

-----------------------------------------------------------------------------
(* The primitive steps of a method call on account a, from the threaded    *)
(* record s to the record r.  The destruct marks are never read, so they   *)
(* are left open.                                                          *)

Threaded ==
    [objs : ObjectMap, destruct : SUBSET Addr, journal : JournalOf(LeafEntry), failed : BOOLEAN]

Fields(r, objs, j, failure) ==
    /\ r \in Threaded
    /\ r.objs = objs
    /\ r.journal = j
    /\ r.failed = failure

Same(s, r) == Fields(r, s.objs, s.journal, s.failed)

\* A query of an existing row failed.
Fails(s, r) == Fields(r, s.objs, s.journal, TRUE)

Loads(s, r, a) ==
    /\ s.objs[a] = Nil
    /\ database[a] # Nil
    /\ Fields(r, [s.objs EXCEPT ![a] = newLeafObject(database[a])], s.journal, s.failed)

Creates(s, r, a) ==
    /\ s.objs[a] = Nil
    /\ database[a] = Nil \/ s.failed
    /\ Fields(r, [s.objs EXCEPT ![a] = Fresh(0)], append(s.journal, CreateEntry(a)), s.failed)

Resets(s, r, a) ==
    /\ s.objs[a] # Nil
    /\ \E b \in Int, d \in BOOLEAN :
          Fields(r, [s.objs EXCEPT ![a] = Fresh(b)],
                 append(s.journal, ResetEntry(s.objs[a], a, d)), s.failed)

\* The object with slot k of the database in its cache.
WithSlot(o, a, k) ==
    [o EXCEPT !.originStorage = [o.originStorage EXCEPT ![k] = StorageValue(a, k)]]

Caches(s, r, a) ==
    /\ Live(s.objs, a)
    /\ \E k \in Key :
          /\ Queries(s.objs[a], k)
          /\ Fields(r, [s.objs EXCEPT ![a] = WithSlot(s.objs[a], a, k)], s.journal, s.failed)

TouchJournal(j, a) ==
    IF a = Ripemd THEN dirty(append(j, TouchEntry(a)), a) ELSE append(j, TouchEntry(a))

Touches(s, r, a) ==
    /\ Live(s.objs, a)
    /\ Fields(r, s.objs, TouchJournal(s.journal, a), s.failed)

WithWrite(o, k, v) == [o EXCEPT !.dirtyStorage = [o.dirtyStorage EXCEPT ![k] = v]]

\* Entry e records the change of object p of account a to o.
Records(p, a, e, o, failure) ==
    /\ e.account = a
    /\ \/ /\ e.kind = "suicide" /\ e.prev = p.suicided /\ e.prevbalance = p.balance
          /\ o = [p EXCEPT !.suicided = TRUE, !.balance = 0]
       \/ /\ e.kind = "balance" /\ e.prev = p.balance
          /\ \E b \in Int : o = [p EXCEPT !.balance = b]
       \/ /\ e.kind = "nonce" /\ e.prev = p.nonce
          /\ \E n \in Nat : o = [p EXCEPT !.nonce = n]
       \/ /\ e.kind = "code" /\ e.prev = p.code
          /\ \E c \in Code : o = [p EXCEPT !.code = c]
       \/ /\ e.kind = "storage" /\ p.fakeStorage = Nil
          /\ failure \/ e.prevalue = StateOf(p, a, e.key, TRUE)
          /\ \E v \in Word : o = WithWrite(p, e.key, v)

Changes(s, r, a) ==
    /\ Live(s.objs, a)
    /\ \E e \in LeafEntry, o \in LeafObject :
          /\ Records(s.objs[a], a, e, o, s.failed)
          /\ Fields(r, [s.objs EXCEPT ![a] = o], append(s.journal, e), s.failed)

\* Fake storage is given to the account, or written to.
Fakes(s, r, a) ==
    /\ Live(s.objs, a)
    /\ \E m \in Slots :
          Fields(r, [s.objs EXCEPT ![a] = [s.objs[a] EXCEPT !.fakeStorage = m]],
                 s.journal, s.failed)

Primitive(s, r, a) ==
    \/ Same(s, r)
    \/ Fails(s, r)
    \/ Loads(s, r, a)
    \/ Creates(s, r, a)
    \/ Resets(s, r, a)
    \/ Caches(s, r, a)
    \/ Touches(s, r, a)
    \/ Changes(s, r, a)
    \/ Fakes(s, r, a)

\* A call looks the account up, twice if it has to be created, and then reads
\* and writes.
Finds(s, r, a) == \E l, m : Primitive(s, l, a) /\ Primitive(l, m, a) /\ Primitive(m, r, a)

Works(s, r, a) == \E u : Primitive(s, u, a) /\ Primitive(u, r, a)

Runs(r, a) == \E s : Finds(State, s, a) /\ Works(s, r, a)

CallRuns(a) == \E r : Runs(r, a) /\ Put(r)

\* Primitive steps keep the record's type.
LEMMA PrimitiveType ==
    ASSUME NEW s, NEW a, NEW r, Primitive(s, r, a)
    PROVE  r \in Threaded
BY DEF Primitive, Same, Fails, Loads, Creates, Resets, Caches, Touches, Changes, Fakes, Fields

-----------------------------------------------------------------------------
(* The methods are made of the primitives.                                 *)

\* The record stays as it is in a primitive step.
LEMMA SamePrimitive ==
    ASSUME NEW s \in Threaded, NEW a
    PROVE  Primitive(s, s, a)
BY DEF Primitive, Same, Fields, Threaded

\* The lookup is one primitive step.  It finds no object only if the database
\* has no row or a query has failed.
LEMMA LookupPrimitive ==
    ASSUME NEW s \in Threaded, NEW a \in Addr, NEW ok \in BOOLEAN, database \in RowMap
    PROVE  LET r == getDeletedStateObject(s, a, ok)
           IN /\ Primitive(s, r, a)
              /\ r \in Threaded
              /\ r.objs[a] = Nil => database[a] = Nil \/ r.failed
<1> DEFINE r == getDeletedStateObject(s, a, ok)
<1>1. CASE s.objs[a] # Nil \/ database[a] = Nil
  <2>1. r = s
    BY <1>1 DEF getDeletedStateObject
  <2> QED BY <1>1, <2>1, SamePrimitive
<1>2. CASE s.objs[a] = Nil /\ database[a] # Nil /\ ~ok
  <2>1. r = [s EXCEPT !.failed = TRUE]
    BY <1>2 DEF getDeletedStateObject
  <2>2. Fails(s, r) /\ r.failed = TRUE
    BY <2>1 DEF Fails, Fields, Threaded
  <2> QED BY <2>2 DEF Primitive, Fails, Fields
<1>3. CASE s.objs[a] = Nil /\ database[a] # Nil /\ ok
  <2> DEFINE n == newLeafObject(database[a])
  <2>1. n \in LeafObject /\ n # Nil
    BY <1>3, NewLeafObjects DEF RowMap
  <2>2. r = [s EXCEPT !.objs = [s.objs EXCEPT ![a] = n]]
    BY <1>3 DEF getDeletedStateObject
  <2>3. s.objs \in ObjectMap
    BY DEF Threaded
  <2> HIDE DEF n, r
  <2>4. [s.objs EXCEPT ![a] = n] \in ObjectMap /\ [s.objs EXCEPT ![a] = n][a] = n
    BY <2>1, <2>3, UpdatedMap
  <2>5. Fields(r, [s.objs EXCEPT ![a] = n], s.journal, s.failed)
    BY <2>2, <2>4 DEF Fields, Threaded
  <2>6. Loads(s, r, a) /\ r.objs[a] # Nil
    BY <1>3, <2>1, <2>4, <2>5 DEF Loads, Fields, n
  <2> QED BY <2>6 DEF Primitive, Loads, Fields, r
<1> QED BY <1>1, <1>2, <1>3

\* createObject looks the account up and then creates or resets it.
LEMMA CreateObjectFields ==
    ASSUME NEW s \in Threaded, NEW a \in Addr, NEW ok \in BOOLEAN, database \in RowMap
    PROVE  LET l == getDeletedStateObject(s, a, ok)
               r == createObject(s, a, ok)
           IN /\ r \in Threaded
              /\ r.objs = [l.objs EXCEPT ![a] = Fresh(0)]
              /\ r.failed = l.failed
              /\ r.objs[a] = Fresh(0)
              /\ l.objs[a] = Nil => Creates(l, r, a)
              /\ l.objs[a] # Nil =>
                    \E d \in BOOLEAN : r.journal = append(l.journal, ResetEntry(l.objs[a], a, d))
<1> DEFINE l == getDeletedStateObject(s, a, ok)
           r == createObject(s, a, ok)
           n == Fresh(0)
<1>1. l \in Threaded /\ (l.objs[a] = Nil => database[a] = Nil \/ l.failed)
  BY LookupPrimitive
<1>2. n \in LeafObject /\ n # Nil /\ n = newLeafObject(NoRow)
  BY NewLeafObjects
<1>3. /\ l.objs \in ObjectMap /\ l.journal \in JournalOf(LeafEntry) /\ l.destruct \in SUBSET Addr
  BY <1>1 DEF Threaded
<1>4. [l.objs EXCEPT ![a] = n] \in ObjectMap /\ [l.objs EXCEPT ![a] = n][a] = n
  BY <1>2, <1>3, UpdatedMap
<1>5. CASE l.objs[a] = Nil
  <2>1. r = [l EXCEPT !.objs = [l.objs EXCEPT ![a] = n],
                      !.destruct = l.destruct,
                      !.journal = append(l.journal, CreateEntry(a))]
    BY <1>1, <1>2, <1>5 DEF createObject, CreateEntry, Threaded
  <2>2. append(l.journal, CreateEntry(a)) \in JournalOf(LeafEntry)
    BY <1>3, AppendOf, LeafEntryTypes
  <2> HIDE DEF l, n, r
  <2>3. Fields(r, [l.objs EXCEPT ![a] = n], append(l.journal, CreateEntry(a)), l.failed)
    BY <1>1, <1>4, <2>1, <2>2 DEF Fields, Threaded
  <2>4. Creates(l, r, a)
    BY <1>1, <1>5, <2>3 DEF Creates, n
  <2> QED BY <1>4, <1>5, <2>3, <2>4 DEF Fields, n, r, l
<1>6. CASE l.objs[a] # Nil
  <2> DEFINE d == a \in l.destruct
  <2>1. r = [l EXCEPT !.objs = [l.objs EXCEPT ![a] = n],
                      !.destruct = l.destruct \cup {a},
                      !.journal = append(l.journal, ResetEntry(l.objs[a], a, d))]
    BY <1>1, <1>2, <1>6 DEF createObject, ResetEntry, Threaded
  <2>2. d \in BOOLEAN /\ l.objs[a] \in LeafObject
    BY <1>3, <1>6 DEF ObjectMap
  <2> HIDE DEF d
  <2>3. append(l.journal, ResetEntry(l.objs[a], a, d)) \in JournalOf(LeafEntry)
    BY <1>3, <2>2, AppendOf, LeafEntryTypes
  <2> HIDE DEF l, n, r
  <2>4. Fields(r, [l.objs EXCEPT ![a] = n], append(l.journal, ResetEntry(l.objs[a], a, d)), l.failed)
    BY <1>1, <1>3, <1>4, <2>1, <2>3 DEF Fields, Threaded
  <2> QED BY <1>4, <1>6, <2>2, <2>4 DEF Fields, n, r, l
<1> QED BY <1>5, <1>6

\* createObject after the lookup is one primitive step.
LEMMA CreateObjectPrimitive ==
    ASSUME NEW s \in Threaded, NEW a \in Addr, NEW ok \in BOOLEAN, database \in RowMap
    PROVE  LET l == getDeletedStateObject(s, a, ok)
               r == createObject(s, a, ok)
           IN Primitive(l, r, a) /\ r \in Threaded /\ r.objs[a] = Fresh(0)
<1> DEFINE l == getDeletedStateObject(s, a, ok)
           r == createObject(s, a, ok)
<1>1. /\ r \in Threaded
      /\ r.objs = [l.objs EXCEPT ![a] = Fresh(0)]
      /\ r.failed = l.failed
      /\ r.objs[a] = Fresh(0)
      /\ l.objs[a] = Nil => Creates(l, r, a)
      /\ l.objs[a] # Nil =>
            \E d \in BOOLEAN : r.journal = append(l.journal, ResetEntry(l.objs[a], a, d))
  BY CreateObjectFields
<1> HIDE DEF l, r
<1>2. ASSUME l.objs[a] = Nil PROVE Primitive(l, r, a)
  BY <1>1, <1>2 DEF Primitive
<1>3. ASSUME l.objs[a] # Nil PROVE Primitive(l, r, a)
  <2>1. Resets(l, r, a)
    BY <1>1, <1>3 DEF Resets, Fields
  <2> QED BY <1>1, <2>1 DEF Primitive
<1>4. Primitive(l, r, a) /\ r \in Threaded /\ r.objs[a] = Fresh(0)
  BY <1>1, <1>2, <1>3
<1> QED BY <1>4 DEF l, r

\* The answers to the queries of a call.
LEMMA AnswersType ==
    ASSUME NEW io \in Answers
    PROVE  io[1] \in BOOLEAN /\ io[2] \in BOOLEAN /\ io[3] \in BOOLEAN
BY DEF Answers

\* getOrNewStateObject finds the object or creates it, and leaves it live.
LEMMA GetOrNewFinds ==
    ASSUME NEW s \in Threaded, NEW a \in Addr, NEW io \in Answers, database \in RowMap
    PROVE  LET r == getOrNewStateObject(s, a, io)
           IN /\ Finds(s, r, a)
              /\ r \in Threaded
              /\ Live(r.objs, a)
              /\ r.objs[a] \in LeafObject
<1> DEFINE l == getDeletedStateObject(s, a, io[1])
           m == getDeletedStateObject(l, a, io[2])
           c == createObject(l, a, io[2])
           r == getOrNewStateObject(s, a, io)
<1>0. io[1] \in BOOLEAN /\ io[2] \in BOOLEAN
  BY AnswersType
<1>1. Primitive(s, l, a) /\ l \in Threaded
  BY <1>0, LookupPrimitive
<1>2. CASE Live(l.objs, a)
  <2>1. r = l
    BY <1>2 DEF getOrNewStateObject
  <2>2. Primitive(l, l, a)
    BY <1>1, SamePrimitive
  <2>3. l.objs[a] \in LeafObject
    BY <1>1, <1>2, LiveObject DEF Threaded
  <2> HIDE DEF l, r
  <2>4. Finds(s, l, a)
    BY <1>1, <2>2 DEF Finds
  <2> QED BY <1>1, <1>2, <2>1, <2>3, <2>4 DEF r
<1>3. CASE ~Live(l.objs, a)
  <2>1. r = c
    BY <1>3 DEF getOrNewStateObject
  <2>2. Primitive(l, m, a) /\ Primitive(m, c, a) /\ c \in Threaded /\ c.objs[a] = Fresh(0)
    BY <1>0, <1>1, LookupPrimitive, CreateObjectPrimitive
  <2>3. Fresh(0) \in LeafObject /\ Fresh(0) # Nil /\ ~Fresh(0).deleted
    BY NewLeafObjects
  <2> HIDE DEF l, m, c, r
  <2>4. Finds(s, c, a)
    BY <1>1, <2>2 DEF Finds
  <2> QED BY <2>1, <2>2, <2>3, <2>4 DEF Live, r
<1> QED BY <1>2, <1>3

\* A setter of a live object is one primitive step.
LEMMA ChangePrimitive ==
    ASSUME NEW s \in Threaded, NEW a \in Addr, NEW e \in LeafEntry, NEW o \in LeafObject,
           Live(s.objs, a), Records(s.objs[a], a, e, o, s.failed)
    PROVE  Primitive(s, Change(s, a, e, o), a)
<1> DEFINE r == Change(s, a, e, o)
<1>1. r = [s EXCEPT !.journal = append(s.journal, e), !.objs = [s.objs EXCEPT ![a] = o]]
  BY DEF Change
<1>2. append(s.journal, e) \in JournalOf(LeafEntry) /\ [s.objs EXCEPT ![a] = o] \in ObjectMap
  BY AppendOf, UpdatedMap DEF Threaded
<1> HIDE DEF r
<1>3. Fields(r, [s.objs EXCEPT ![a] = o], append(s.journal, e), s.failed)
  BY <1>1, <1>2 DEF Fields, Threaded
<1> QED BY <1>3 DEF Changes, Primitive, r

\* Setting a balance, a nonce, the code or the suicide mark is such a step.
LEMMA FieldPrimitive ==
    ASSUME NEW s \in Threaded, NEW a \in Addr, Live(s.objs, a)
    PROVE  /\ \A v \in Int : Primitive(s, ChangeBalance(s, a, v), a)
           /\ \A v \in Nat : Primitive(s, ChangeNonce(s, a, v), a)
           /\ \A c \in Code :
                 Primitive(s, Change(s, a, [kind |-> "code", account |-> a, prev |-> s.objs[a].code],
                                     [s.objs[a] EXCEPT !.code = c]), a)
           /\ Primitive(s, Change(s, a, [kind |-> "suicide", account |-> a,
                                         prev |-> s.objs[a].suicided,
                                         prevbalance |-> s.objs[a].balance],
                                  [s.objs[a] EXCEPT !.suicided = TRUE, !.balance = 0]), a)
<1> DEFINE p == s.objs[a]
<1>1. p \in LeafObject
  BY LiveObject DEF Threaded
<1>2. p.balance \in Int /\ p.nonce \in Nat /\ p.code \in Code /\ p.suicided \in BOOLEAN
  BY <1>1 DEF LeafObject
<1>3. ASSUME NEW v \in Int PROVE Primitive(s, ChangeBalance(s, a, v), a)
  <2> DEFINE e == [kind |-> "balance", account |-> a, prev |-> p.balance]
             o == [p EXCEPT !.balance = v]
  <2>1. e \in LeafEntry /\ o \in LeafObject
    BY <1>1, <1>2, LeafEntryTypes DEF LeafObject
  <2>2. Records(p, a, e, o, s.failed)
    BY DEF Records
  <2> QED BY <2>1, <2>2, ChangePrimitive DEF ChangeBalance
<1>4. ASSUME NEW v \in Nat PROVE Primitive(s, ChangeNonce(s, a, v), a)
  <2> DEFINE e == [kind |-> "nonce", account |-> a, prev |-> p.nonce]
             o == [p EXCEPT !.nonce = v]
  <2>1. e \in LeafEntry /\ o \in LeafObject
    BY <1>1, <1>2, LeafEntryTypes DEF LeafObject
  <2>2. Records(p, a, e, o, s.failed)
    BY DEF Records
  <2> QED BY <2>1, <2>2, ChangePrimitive DEF ChangeNonce
<1>5. ASSUME NEW c \in Code
      PROVE  Primitive(s, Change(s, a, [kind |-> "code", account |-> a, prev |-> p.code],
                                 [p EXCEPT !.code = c]), a)
  <2> DEFINE e == [kind |-> "code", account |-> a, prev |-> p.code]
             o == [p EXCEPT !.code = c]
  <2>1. e \in LeafEntry /\ o \in LeafObject
    BY <1>1, <1>2, LeafEntryTypes DEF LeafObject
  <2>2. Records(p, a, e, o, s.failed)
    BY DEF Records
  <2> QED BY <2>1, <2>2, ChangePrimitive
<1>6. Primitive(s, Change(s, a, [kind |-> "suicide", account |-> a, prev |-> p.suicided,
                                 prevbalance |-> p.balance],
                          [p EXCEPT !.suicided = TRUE, !.balance = 0]), a)
  <2> DEFINE e == [kind |-> "suicide", account |-> a, prev |-> p.suicided,
                   prevbalance |-> p.balance]
             o == [p EXCEPT !.suicided = TRUE, !.balance = 0]
  <2>0. e \in LeafEntry
    BY <1>2, LeafEntryTypes
  <2>1. e \in LeafEntry /\ o \in LeafObject
    BY <1>1, <2>0, UpdatedObject
  <2>2. Records(p, a, e, o, s.failed)
    BY DEF Records
  <2> QED BY <2>1, <2>2, ChangePrimitive
<1> QED BY <1>3, <1>4, <1>5, <1>6

\* touch is a primitive step.
LEMMA TouchPrimitive ==
    ASSUME NEW s \in Threaded, NEW a \in Addr, Live(s.objs, a)
    PROVE  Primitive(s, touch(s, a), a)
<1> DEFINE r == touch(s, a)
           j == TouchJournal(s.journal, a)
<1>1. r = [s EXCEPT !.journal = j]
  BY DEF touch, TouchJournal, TouchEntry
<1>2. append(s.journal, TouchEntry(a)) \in JournalOf(LeafEntry)
  BY AppendOf, LeafEntryTypes DEF Threaded
<1>3. j \in JournalOf(LeafEntry)
  BY <1>2, DirtyOf DEF TouchJournal
<1> HIDE DEF r, j
<1>4. Fields(r, s.objs, j, s.failed)
  BY <1>1, <1>3 DEF Fields, Threaded
<1> QED BY <1>4 DEF Touches, Primitive, r, j

\* Caching a slot changes nothing else in the object.
LEMMA WithSlotFields ==
    ASSUME NEW o \in LeafObject, NEW a \in Addr, NEW k \in Key, database \in RowMap
    PROVE  LET c == WithSlot(o, a, k)
           IN /\ c \in LeafObject
              /\ c.originStorage = [o.originStorage EXCEPT ![k] = StorageValue(a, k)]
              /\ c.dirtyStorage = o.dirtyStorage /\ c.fakeStorage = o.fakeStorage
              /\ c.nonce = o.nonce /\ c.balance = o.balance /\ c.code = o.code
              /\ c.suicided = o.suicided /\ c.deleted = o.deleted
<1> DEFINE m == [o.originStorage EXCEPT ![k] = StorageValue(a, k)]
           c == WithSlot(o, a, k)
<1>1. m \in Cache
  <2>1. StorageValue(a, k) \in Word /\ o.originStorage \in Cache
    BY StorageValueType DEF LeafObject
  <2> QED BY <2>1 DEF Cache
<1>2. c = [o EXCEPT !.originStorage = m]
  BY DEF WithSlot
<1> HIDE DEF m, c
<1>3. c \in LeafObject
  BY <1>1, <1>2, UpdatedObject
<1>4. /\ c.originStorage = m
      /\ c.dirtyStorage = o.dirtyStorage /\ c.fakeStorage = o.fakeStorage
      /\ c.nonce = o.nonce /\ c.balance = o.balance /\ c.code = o.code
  BY <1>2 DEF LeafObject
<1>5. c.suicided = o.suicided /\ c.deleted = o.deleted
  BY <1>2 DEF LeafObject
<1> QED BY <1>3, <1>4, <1>5 DEF m, c

\* Loading a slot is a primitive step.  What is then read is what was loaded,
\* unless the query has failed.
LEMMA LoadPrimitive ==
    ASSUME NEW s \in Threaded, NEW a \in Addr, NEW k \in Key, NEW ok \in BOOLEAN,
           database \in RowMap, Live(s.objs, a)
    PROVE  LET r == LoadSlot(s, a, k, ok)
           IN /\ Primitive(s, r, a) /\ r \in Threaded /\ Live(r.objs, a)
              /\ r.objs[a].fakeStorage = s.objs[a].fakeStorage
              /\ r.objs[a].dirtyStorage = s.objs[a].dirtyStorage
              /\ r.failed \/ StateOf(r.objs[a], a, k, TRUE) = StateOf(s.objs[a], a, k, ok)
<1> DEFINE o == s.objs[a]
           r == LoadSlot(s, a, k, ok)
           c == WithSlot(o, a, k)
<1>1. o \in LeafObject /\ o # Nil /\ ~o.deleted /\ s.objs \in ObjectMap
  BY LiveObject DEF Threaded
<1>2. CASE ~Queries(o, k)
  <2>1. r = s
    BY <1>2 DEF LoadSlot
  <2>2. StateOf(o, a, k, TRUE) = StateOf(o, a, k, ok)
    BY <1>2 DEF Queries, StateOf, CommittedOf
  <2> QED BY <2>1, <2>2, SamePrimitive
<1>3. CASE Queries(o, k) /\ ~ok
  <2>1. r = [s EXCEPT !.failed = TRUE]
    BY <1>3 DEF LoadSlot
  <2>2. Fails(s, r)
    BY <2>1 DEF Fails, Fields, Threaded
  <2>3. r \in Threaded /\ r.objs = s.objs /\ r.failed = TRUE
    BY <2>2 DEF Fails, Fields
  <2> HIDE DEF r
  <2> QED BY <2>2, <2>3 DEF Primitive, r
<1>4. CASE Queries(o, k) /\ ok
  <2>1. r = [s EXCEPT !.objs = [s.objs EXCEPT ![a] = c]]
    BY <1>1, <1>4 DEF LoadSlot, WithSlot, Threaded, ObjectMap
  <2>2. /\ c \in LeafObject
        /\ c.originStorage = [o.originStorage EXCEPT ![k] = StorageValue(a, k)]
        /\ c.dirtyStorage = o.dirtyStorage /\ c.fakeStorage = o.fakeStorage
        /\ c.deleted = o.deleted
    BY <1>1, WithSlotFields
  <2> HIDE DEF c, r
  <2>3. [s.objs EXCEPT ![a] = c] \in ObjectMap /\ [s.objs EXCEPT ![a] = c][a] = c
    BY <1>1, <2>2, UpdatedMap
  <2>4. Fields(r, [s.objs EXCEPT ![a] = c], s.journal, s.failed)
    BY <2>1, <2>3 DEF Fields, Threaded
  <2>5. Caches(s, r, a)
    BY <1>4, <2>4 DEF Caches, c
  <2>6. r \in Threaded /\ r.objs[a] = c
    BY <2>3, <2>4 DEF Fields
  <2>7. Live(r.objs, a)
    BY <1>1, <2>2, <2>6, LeafAssumption DEF Live
  <2>8. StateOf(c, a, k, TRUE) = StateOf(o, a, k, ok)
    <3>1. o.originStorage[k] = Nil /\ o.fakeStorage = Nil /\ ok
      BY <1>4 DEF Queries
    <3>2. c.originStorage[k] = StorageValue(a, k) /\ StorageValue(a, k) # Nil
      <4>1. StorageValue(a, k) \in Word
        BY StorageValueType
      <4> QED BY <1>1, <2>2, <4>1, ConstantsAssumption DEF LeafObject, Cache
    <3> HIDE DEF o
    <3> QED BY <2>2, <3>1, <3>2 DEF StateOf, CommittedOf
  <2> QED BY <2>2, <2>5, <2>6, <2>7, <2>8 DEF Primitive, r
<1> QED BY <1>2, <1>3, <1>4

\* So is GetState of the object.
LEMMA ReadPrimitive ==
    ASSUME NEW s \in Threaded, NEW a \in Addr, NEW k \in Key, NEW ok \in BOOLEAN,
           database \in RowMap, Live(s.objs, a)
    PROVE  LET r == ReadState(s, a, k, ok)
           IN /\ Primitive(s, r, a) /\ r \in Threaded /\ Live(r.objs, a)
              /\ r.objs[a].fakeStorage = s.objs[a].fakeStorage
              /\ s.objs[a].fakeStorage = Nil =>
                    r.failed \/ StateOf(r.objs[a], a, k, TRUE) = StateOf(s.objs[a], a, k, ok)
<1> DEFINE r == ReadState(s, a, k, ok)
<1>1. CASE s.objs[a].dirtyStorage[k] # Nil
  <2>1. r = s
    BY <1>1 DEF ReadState
  <2>2. s.objs[a].fakeStorage = Nil =>
           StateOf(s.objs[a], a, k, TRUE) = StateOf(s.objs[a], a, k, ok)
    BY <1>1 DEF StateOf
  <2> QED BY <2>1, <2>2, SamePrimitive
<1>2. CASE s.objs[a].dirtyStorage[k] = Nil
  <2>1. r = LoadSlot(s, a, k, ok)
    BY <1>2 DEF ReadState
  <2>2. /\ Primitive(s, r, a) /\ r \in Threaded /\ Live(r.objs, a)
        /\ r.objs[a].fakeStorage = s.objs[a].fakeStorage
        /\ r.failed \/ StateOf(r.objs[a], a, k, TRUE) = StateOf(s.objs[a], a, k, ok)
    <3> HIDE DEF r
    <3> QED BY <2>1, LoadPrimitive
  <2> HIDE DEF r
  <2> QED BY <2>2 DEF r
<1> QED BY <1>1, <1>2

\* Giving fake storage to an account, or writing to it, is a primitive step.
LEMMA FakePrimitive ==
    ASSUME NEW s \in Threaded, NEW a \in Addr, Live(s.objs, a), NEW m \in Slots
    PROVE  Primitive(s, [s EXCEPT !.objs = [s.objs EXCEPT ![a] =
                             [s.objs[a] EXCEPT !.fakeStorage = m]]], a)
<1> DEFINE o == [s.objs[a] EXCEPT !.fakeStorage = m]
           r == [s EXCEPT !.objs = [s.objs EXCEPT ![a] = o]]
<1>1. s.objs[a] \in LeafObject /\ s.objs \in ObjectMap
  BY LiveObject DEF Threaded
<1>2. o \in LeafObject
  BY <1>1, UpdatedObject
<1>3. [s.objs EXCEPT ![a] = o] \in ObjectMap
  BY <1>1, <1>2, UpdatedMap
<1> HIDE DEF o
<1>4. Fields(r, [s.objs EXCEPT ![a] = o], s.journal, s.failed)
  BY <1>3 DEF Fields, Threaded
<1> HIDE DEF r
<1>5. Fakes(s, r, a)
  BY <1>4 DEF Fakes, o
<1> QED BY <1>5 DEF Primitive, r, o

\* SetState reads the slot and then writes it, or writes to fake storage.
LEMMA ChangeStateWorks ==
    ASSUME NEW s \in Threaded, NEW a \in Addr, NEW k \in Key, NEW v \in Word, NEW ok \in BOOLEAN,
           database \in RowMap, Live(s.objs, a)
    PROVE  Works(s, ChangeState(s, a, k, v, ok), a)
<1> DEFINE o == s.objs[a]
           prev == StateOf(o, a, k, ok)
           r == ReadState(s, a, k, ok)
           c == ChangeState(s, a, k, v, ok)
<1>1. o \in LeafObject /\ s.objs \in ObjectMap
  BY LiveObject DEF Threaded
<1>2. /\ Primitive(s, r, a) /\ r \in Threaded /\ Live(r.objs, a)
      /\ r.objs[a].fakeStorage = o.fakeStorage
      /\ o.fakeStorage = Nil => r.failed \/ StateOf(r.objs[a], a, k, TRUE) = prev
  BY ReadPrimitive
<1>3. prev \in Word
  BY <1>1, StateOfType
<1>4. CASE o.fakeStorage # Nil
  <2> DEFINE m == [o.fakeStorage EXCEPT ![k] = v]
  <2>1. m \in Slots
    BY <1>1, <1>4 DEF LeafObject, Slots
  <2>2. c = [s EXCEPT !.objs = [s.objs EXCEPT ![a] = [o EXCEPT !.fakeStorage = m]]]
    BY <1>4 DEF ChangeState
  <2> HIDE DEF m
  <2>3. Primitive(s, c, a)
    BY <2>1, <2>2, FakePrimitive
  <2>4. Primitive(s, s, a)
    BY SamePrimitive
  <2> HIDE DEF c
  <2> QED BY <2>3, <2>4 DEF Works, c
<1>5. CASE o.fakeStorage = Nil /\ prev = v
  <2>1. c = r
    BY <1>5 DEF ChangeState
  <2>2. Primitive(r, r, a)
    BY <1>2, SamePrimitive
  <2> HIDE DEF c, r
  <2> QED BY <1>2, <2>1, <2>2 DEF Works, c
<1>6. CASE o.fakeStorage = Nil /\ prev # v
  <2> DEFINE e == [kind |-> "storage", account |-> a, key |-> k, prevalue |-> prev]
             p == r.objs[a]
             n == WithWrite(p, k, v)
  <2>1. c = Change(r, a, e, n)
    BY <1>6 DEF ChangeState, WithWrite
  <2>2. p \in LeafObject
    BY <1>2, LiveObject DEF Threaded
  <2> HIDE DEF prev, r, c
  <2>3. e \in LeafEntry
    BY <1>3, LeafEntryTypes
  <2>4. n \in LeafObject
    <3>1. [p.dirtyStorage EXCEPT ![k] = v] \in Cache
      BY <2>2 DEF LeafObject, Cache
    <3> QED BY <2>2, <3>1, UpdatedObject DEF WithWrite
  <2>5. Records(p, a, e, n, r.failed)
    BY <1>2, <1>6 DEF Records
  <2> HIDE DEF e, n
  <2>6. Primitive(r, c, a)
    BY <1>2, <2>1, <2>3, <2>4, <2>5, ChangePrimitive
  <2> QED BY <1>2, <2>6 DEF Works, c
<1> QED BY <1>4, <1>5, <1>6

\* The record that a call starts from.
LEMMA StateType ==
    ASSUME TypeOK, journal \in JournalOf(LeafEntry)
    PROVE  /\ State \in Threaded /\ database \in RowMap
           /\ State.objs = stateObjects /\ State.journal = journal /\ State.failed = failed
BY DEF TypeOK, State, Threaded, ObjectMap, RowMap

\* A call that looks the account up, or finds it, and then takes one step or two.
LEMMA LookupRuns ==
    ASSUME NEW s, NEW r, NEW a, Primitive(State, s, a), Primitive(s, r, a)
    PROVE  Runs(r, a)
<1>1. s \in Threaded /\ r \in Threaded
  BY PrimitiveType
<1>2. Primitive(s, s, a) /\ Primitive(r, r, a)
  BY <1>1, SamePrimitive
<1>3. Finds(State, s, a) /\ Works(s, r, a)
  BY <1>2 DEF Finds, Works
<1> QED BY <1>3 DEF Runs

\* The same with an account that is created if need be.
LEMMA FoundRuns ==
    ASSUME NEW s, NEW r, NEW a, Finds(State, s, a), Primitive(s, r, a)
    PROVE  Runs(r, a)
<1>1. r \in Threaded
  BY PrimitiveType
<1>2. Works(s, r, a)
  BY <1>1, SamePrimitive DEF Works
<1> QED BY <1>2 DEF Runs

\* The getters.
LEMMA GettersRun ==
    ASSUME TypeOK, journal \in JournalOf(LeafEntry), NEW a \in Addr, NEW io \in Answers,
           \/ GetAccount(a, io)
           \/ \E k \in Key : GetState(a, k, io) \/ GetCommittedState(a, k, io)
           \/ Suicide(a, io)
    PROVE  CallRuns(a)
<1> DEFINE s == getDeletedStateObject(State, a, io[1])
           o == s.objs[a]
<1>0. io[1] \in BOOLEAN /\ io[3] \in BOOLEAN /\ database \in RowMap
  BY AnswersType, StateType
<1>1. Primitive(State, s, a) /\ s \in Threaded
  BY <1>0, StateType, LookupPrimitive
<1>2. Runs(s, a)
  BY <1>1, SamePrimitive, LookupRuns
<1>3. CASE GetAccount(a, io)
  BY <1>2, <1>3 DEF GetAccount, CallRuns
<1>4. ASSUME NEW k \in Key, GetState(a, k, io) PROVE CallRuns(a)
  <2>1. CASE Live(s.objs, a)
    <3>1. Primitive(s, ReadState(s, a, k, io[3]), a)
      BY <1>0, <1>1, <2>1, ReadPrimitive
    <3>2. Put(ReadState(s, a, k, io[3]))
      BY <1>4, <2>1 DEF GetState
    <3> QED BY <1>1, <3>1, <3>2, LookupRuns DEF CallRuns
  <2>2. CASE ~Live(s.objs, a)
    BY <1>2, <1>4, <2>2 DEF GetState, CallRuns
  <2> QED BY <2>1, <2>2
<1>5. ASSUME NEW k \in Key, GetCommittedState(a, k, io) PROVE CallRuns(a)
  <2>1. CASE Live(s.objs, a)
    <3>1. Primitive(s, LoadSlot(s, a, k, io[3]), a)
      BY <1>0, <1>1, <2>1, LoadPrimitive
    <3>2. Put(LoadSlot(s, a, k, io[3]))
      BY <1>5, <2>1 DEF GetCommittedState
    <3> QED BY <1>1, <3>1, <3>2, LookupRuns DEF CallRuns
  <2>2. CASE ~Live(s.objs, a)
    BY <1>2, <1>5, <2>2 DEF GetCommittedState, CallRuns
  <2> QED BY <2>1, <2>2
<1>6. CASE Suicide(a, io)
  <2>1. CASE Live(s.objs, a)
    <3> DEFINE r == Change(s, a, [kind |-> "suicide", account |-> a,
                                  prev |-> o.suicided, prevbalance |-> o.balance],
                           [o EXCEPT !.suicided = TRUE, !.balance = 0])
    <3>1. Primitive(s, r, a)
      BY <1>1, <2>1, FieldPrimitive
    <3>2. Put(r)
      BY <1>6, <2>1 DEF Suicide
    <3> HIDE DEF s, r
    <3> QED BY <1>1, <3>1, <3>2, LookupRuns DEF CallRuns
  <2>2. CASE ~Live(s.objs, a)
    BY <1>2, <1>6, <2>2 DEF Suicide, CallRuns
  <2> QED BY <2>1, <2>2
<1> QED BY <1>3, <1>4, <1>5, <1>6

\* The setters.
LEMMA SettersRun ==
    ASSUME TypeOK, journal \in JournalOf(LeafEntry), NEW a \in Addr, NEW io \in Answers,
           \/ \E amount \in Amount :
                 AddBalance(a, amount, io) \/ SubBalance(a, amount, io) \/ SetBalance(a, amount, io)
           \/ \E nonce \in Nonce : SetNonce(a, nonce, io)
           \/ \E code \in Code : SetCode(a, code, io)
           \/ \E k \in Key, value \in Word : SetState(a, k, value, io)
    PROVE  CallRuns(a)
<1> DEFINE s == getOrNewStateObject(State, a, io)
           o == s.objs[a]
<1>0. io[3] \in BOOLEAN /\ database \in RowMap /\ State \in Threaded
  BY AnswersType, StateType
<1>1. Finds(State, s, a) /\ s \in Threaded /\ Live(s.objs, a) /\ o \in LeafObject
  BY <1>0, GetOrNewFinds
<1>2. o.balance \in Int
  BY <1>1 DEF LeafObject
<1>3. Primitive(s, s, a)
  BY <1>1, SamePrimitive
<1>4. ASSUME NEW r, Primitive(s, r, a), Put(r) PROVE CallRuns(a)
  BY <1>1, <1>4, FoundRuns DEF CallRuns
<1>5. ASSUME NEW amount \in Amount, AddBalance(a, amount, io) PROVE CallRuns(a)
  <2>1. Put(IF amount # 0 THEN ChangeBalance(s, a, o.balance + amount)
            ELSE IF emptyObject(o) THEN touch(s, a) ELSE s)
    BY <1>5 DEF AddBalance
  <2>2. Primitive(s, ChangeBalance(s, a, o.balance + amount), a)
    <3>1. o.balance + amount \in Int
      BY <1>2, LeafAssumption
    <3> HIDE DEF s
    <3> QED BY <1>1, <3>1, FieldPrimitive
  <2>3. Primitive(s, touch(s, a), a)
    BY <1>1, TouchPrimitive
  <2> HIDE DEF s
  <2> QED BY <1>3, <1>4, <2>1, <2>2, <2>3
<1>6. ASSUME NEW amount \in Amount, SubBalance(a, amount, io) PROVE CallRuns(a)
  <2>1. Put(IF amount # 0 THEN ChangeBalance(s, a, o.balance - amount) ELSE s)
    BY <1>6 DEF SubBalance
  <2>2. Primitive(s, ChangeBalance(s, a, o.balance - amount), a)
    <3>1. o.balance - amount \in Int
      BY <1>2, LeafAssumption
    <3> HIDE DEF s
    <3> QED BY <1>1, <3>1, FieldPrimitive
  <2> HIDE DEF s
  <2> QED BY <1>3, <1>4, <2>1, <2>2
<1>7. ASSUME NEW amount \in Amount, SetBalance(a, amount, io) PROVE CallRuns(a)
  <2>1. Put(ChangeBalance(s, a, amount)) /\ amount \in Int
    BY <1>7, LeafAssumption DEF SetBalance
  <2> HIDE DEF s
  <2> QED BY <1>1, <1>4, <2>1, FieldPrimitive
<1>8. ASSUME NEW nonce \in Nonce, SetNonce(a, nonce, io) PROVE CallRuns(a)
  <2>1. Put(ChangeNonce(s, a, nonce)) /\ nonce \in Nat
    BY <1>8, LeafAssumption DEF SetNonce
  <2> HIDE DEF s
  <2> QED BY <1>1, <1>4, <2>1, FieldPrimitive
<1>9. ASSUME NEW code \in Code, SetCode(a, code, io) PROVE CallRuns(a)
  <2>1. Put(Change(s, a, [kind |-> "code", account |-> a, prev |-> o.code],
                   [o EXCEPT !.code = code]))
    BY <1>9 DEF SetCode
  <2> HIDE DEF s
  <2> QED BY <1>1, <1>4, <2>1, FieldPrimitive
<1>10. ASSUME NEW k \in Key, NEW value \in Word, SetState(a, k, value, io) PROVE CallRuns(a)
  <2>1. Put(ChangeState(s, a, k, value, io[3]))
    BY <1>10 DEF SetState
  <2>2. Works(s, ChangeState(s, a, k, value, io[3]), a)
    BY <1>0, <1>1, ChangeStateWorks
  <2> HIDE DEF s
  <2> QED BY <1>1, <2>1, <2>2 DEF CallRuns, Runs
<1> QED BY <1>5, <1>6, <1>7, <1>8, <1>9, <1>10

\* SetStorage marks the account, finds it and gives it fake storage.
LEMMA SetStorageRuns ==
    ASSUME TypeOK, journal \in JournalOf(LeafEntry), NEW a \in Addr, NEW io \in Answers,
           NEW k \in Key, NEW value \in Word, SetStorage(a, k, value, io)
    PROVE  CallRuns(a)
<1> DEFINE t == [State EXCEPT !.destruct = State.destruct \cup {a}]
           s == getOrNewStateObject(t, a, io)
           o == s.objs[a]
           m == [IF o.fakeStorage = Nil THEN EmptyRoot ELSE o.fakeStorage EXCEPT ![k] = value]
           r == [s EXCEPT !.objs = [s.objs EXCEPT ![a] = [o EXCEPT !.fakeStorage = m]]]
<1>0. State \in Threaded /\ database \in RowMap
  BY StateType
<1>1. t \in Threaded /\ Primitive(State, t, a)
  <2>1. Fields(t, State.objs, State.journal, State.failed)
    BY <1>0 DEF Fields, Threaded
  <2> QED BY <2>1 DEF Primitive, Same, Fields
<1>2. Finds(t, s, a) /\ s \in Threaded /\ Live(s.objs, a) /\ o \in LeafObject
  <2> HIDE DEF t
  <2> QED BY <1>0, <1>1, GetOrNewFinds
<1>3. Put(r)
  <2>1. Put([s EXCEPT !.objs[a] = FakeStorage(o, k, value)])
    BY DEF SetStorage
  <2>2. FakeStorage(o, k, value) = [o EXCEPT !.fakeStorage = m]
    BY DEF FakeStorage
  <2> HIDE DEF s, m
  <2> QED BY <2>1, <2>2
<1> HIDE DEF t, s
<1>4. m \in Slots
  BY <1>2, ConstantsAssumption DEF LeafObject, Slots, EmptyRoot
<1> HIDE DEF m
<1>5. Primitive(s, r, a)
  BY <1>2, <1>4, FakePrimitive
<1> HIDE DEF r
<1>6. PICK l, n : Primitive(t, l, a) /\ Primitive(l, n, a) /\ Primitive(n, s, a)
  BY <1>2 DEF Finds
<1>7. Finds(State, n, a) /\ Works(n, r, a)
  BY <1>1, <1>5, <1>6 DEF Finds, Works
<1> QED BY <1>3, <1>7 DEF Runs, CallRuns

\* CreateAccount, and what the EVM does next.
LEMMA CreatorsRun ==
    ASSUME TypeOK, journal \in JournalOf(LeafEntry), NEW a \in Addr, NEW io \in Answers,
           CreateAccount(a, io) \/ CreateContract(a, io)
    PROVE  CallRuns(a)
<1> DEFINE l == getDeletedStateObject(State, a, io[1])
           c == createObject(State, a, io[1])
           prev == l.objs[a]
           s == Created(a, io)
<1>0. State \in Threaded /\ database \in RowMap /\ io[1] \in BOOLEAN
  BY StateType, AnswersType
<1>1. Primitive(State, l, a) /\ l \in Threaded
  BY <1>0, LookupPrimitive
<1>2. Primitive(l, c, a) /\ c \in Threaded /\ c.objs[a] = Fresh(0)
  BY <1>0, CreateObjectPrimitive
<1>3. Primitive(l, s, a) /\ Live(s.objs, a)
  <2>1. CASE prev # Nil /\ ~prev.deleted
    <3>1. s = [c EXCEPT !.objs = [c.objs EXCEPT ![a] = [c.objs[a] EXCEPT !.balance = prev.balance]]]
      BY <2>1 DEF Created
    <3>2. /\ c.objs = [l.objs EXCEPT ![a] = Fresh(0)]
          /\ c.failed = l.failed
          /\ \E d \in BOOLEAN : c.journal = append(l.journal, ResetEntry(prev, a, d))
      BY <1>0, <2>1, CreateObjectFields
    <3>3. l.objs \in ObjectMap /\ prev \in LeafObject
      BY <1>1, <2>1 DEF Threaded, ObjectMap
    <3> HIDE DEF l, c, s
    <3>4. prev.balance \in Int /\ Fresh(prev.balance) \in LeafObject
      BY <3>3, NewLeafObjects DEF LeafObject
    <3>5. [c.objs[a] EXCEPT !.balance = prev.balance] = Fresh(prev.balance)
      <4>1. Fresh(0) = newLeafObject(NoRow)
        BY NewLeafObjects
      <4> QED BY <1>2, <4>1 DEF Fresh
    <3>6. [c.objs EXCEPT ![a] = Fresh(prev.balance)] = [l.objs EXCEPT ![a] = Fresh(prev.balance)]
      BY <3>2, <3>3 DEF ObjectMap
    <3>7. [l.objs EXCEPT ![a] = Fresh(prev.balance)] \in ObjectMap
          /\ [l.objs EXCEPT ![a] = Fresh(prev.balance)][a] = Fresh(prev.balance)
      BY <3>3, <3>4, UpdatedMap
    <3>8. Fields(s, [l.objs EXCEPT ![a] = Fresh(prev.balance)], c.journal, l.failed)
      BY <1>2, <3>1, <3>2, <3>5, <3>6, <3>7 DEF Fields, Threaded
    <3>9. Resets(l, s, a)
      BY <2>1, <3>2, <3>4, <3>8 DEF Resets
    <3>10. Live(s.objs, a)
      BY <3>4, <3>7, <3>8, NewLeafObjects DEF Fields, Live
    <3> QED BY <3>9, <3>10 DEF Primitive, s
  <2>2. CASE ~(prev # Nil /\ ~prev.deleted)
    <3>1. s = c
      BY <2>2 DEF Created
    <3>2. Live(c.objs, a)
      BY <1>2, NewLeafObjects DEF Live
    <3> QED BY <1>2, <3>1, <3>2
  <2> QED BY <2>1, <2>2
<1>4. s \in Threaded
  BY <1>3, PrimitiveType
<1>5. CASE CreateAccount(a, io)
  BY <1>1, <1>3, <1>5, LookupRuns DEF CreateAccount, CallRuns
<1>6. CASE CreateContract(a, io)
  <2> HIDE DEF s, l
  <2>1. Put(ChangeNonce(s, a, 1)) /\ 1 \in Nat
    BY <1>6 DEF CreateContract, s
  <2>2. Primitive(s, ChangeNonce(s, a, 1), a)
    BY <1>3, <1>4, <2>1, FieldPrimitive
  <2>3. Finds(State, s, a)
    BY <1>1, <1>3, <1>4, SamePrimitive DEF Finds
  <2> QED BY <2>1, <2>2, <2>3, FoundRuns DEF CallRuns
<1> QED BY <1>5, <1>6

\* Every call on an account runs through primitive steps.
LEMMA AccountCallRuns ==
    ASSUME TypeOK, journal \in JournalOf(LeafEntry), NEW a \in Addr, NEW io \in Answers,
           AccountCall(a, io)
    PROVE  CallRuns(a)
BY GettersRun, SettersRun, SetStorageRuns, CreatorsRun DEF AccountCall

-----------------------------------------------------------------------------
(* The journal and the objects.                                            *)

\* Before the entry the account had no live object.
Births(e) == e.kind = "createObject" \/ (e.kind = "resetObject" /\ e.prev.deleted)

\* As long as an entry of an account is there, so is its object.
EntriesLive(es, objs) ==
    \A i \in 1..Len(es), a \in Addr : Concerns(es[i], a) => Live(objs, a)

\* The first entry of an account that had no live object created it.
BirthsFirst(es) ==
    \A i, j \in 1..Len(es) : j < i /\ Births(es[i]) => ~Concerns(es[j], es[i].account)

\* Objects that Copy visits were not created since, so reverts do not remove them.
CreatesNew(es, P) == \A i \in 1..Len(es) : es[i].kind = "createObject" => es[i].account \notin P

Visitable(objs, P) == \A a \in P : objs[a] # Nil

Linked(es, objs, P) ==
    /\ EntriesLive(es, objs)
    /\ BirthsFirst(es)
    /\ CreatesNew(es, P)
    /\ Visitable(objs, P)

\* The objects of objs are still there in objs2.
Retains(objs, objs2) ==
    \A a \in Addr : /\ objs[a] # Nil => objs2[a] # Nil
                    /\ Live(objs, a) => Live(objs2, a)

\* Objects that stay keep the links.
LEMMA LinkedKeep ==
    ASSUME NEW es, NEW objs, NEW objs2, NEW P \in SUBSET Addr, Linked(es, objs, P),
           Retains(objs, objs2)
    PROVE  Linked(es, objs2, P)
<1>1. EntriesLive(es, objs2)
  BY DEF Linked, EntriesLive, Retains
<1>2. Visitable(objs2, P)
  BY DEF Linked, Visitable, Retains
<1> QED BY <1>1, <1>2 DEF Linked

\* An entry of a live account, or of none, keeps them.
LEMMA LinkedAppend ==
    ASSUME NEW es \in Seq(LeafEntry), NEW e \in LeafEntry, NEW objs, NEW objs2,
           NEW P \in SUBSET Addr, Linked(es, objs, P), Retains(objs, objs2),
           \A a \in Addr : Concerns(e, a) => Live(objs2, a),
           Births(e) => ~Live(objs, e.account) /\ e.account \in Addr,
           e.kind = "createObject" => objs[e.account] = Nil
    PROVE  Linked(Append(es, e), objs2, P)
<1> DEFINE fs == Append(es, e)
           l  == Len(es)
<1>1. /\ l \in Nat /\ Len(fs) = l + 1 /\ fs[l + 1] = e
      /\ \A i \in 1..l : fs[i] = es[i]
  OBVIOUS
<1>2. \A i \in 1..Len(fs) : i \in 1..l \/ i = l + 1
  BY <1>1
<1> HIDE DEF fs
<1>3. EntriesLive(fs, objs2)
  BY <1>1, <1>2 DEF Linked, EntriesLive, Retains
<1>4. BirthsFirst(fs)
  <2> SUFFICES ASSUME NEW i \in 1..Len(fs), NEW j \in 1..Len(fs), j < i, Births(fs[i])
               PROVE  ~Concerns(fs[j], fs[i].account)
    BY DEF BirthsFirst
  <2>1. j \in 1..l
    BY <1>1
  <2>2. CASE i \in 1..l
    BY <1>1, <2>1, <2>2 DEF Linked, BirthsFirst
  <2>3. CASE i = l + 1
    BY <1>1, <2>1, <2>3 DEF Linked, EntriesLive
  <2> QED BY <1>2, <2>2, <2>3
<1>5. CreatesNew(fs, P)
  BY <1>1, <1>2 DEF Linked, CreatesNew, Visitable
<1>6. Visitable(objs2, P)
  BY DEF Linked, Visitable, Retains
<1> QED BY <1>3, <1>4, <1>5, <1>6 DEF Linked, fs

\* A recorded change leaves the object live.
LEMMA RecordsLive ==
    ASSUME NEW p \in LeafObject, NEW a, NEW e, NEW o, NEW failure, Records(p, a, e, o, failure)
    PROVE  o.deleted = p.deleted /\ o.fakeStorage = p.fakeStorage
BY DEF Records, WithWrite, LeafObject

\* A primitive step assigns at most the object of its account.
LEMMA PrimitiveRetains ==
    ASSUME NEW objs \in ObjectMap, NEW a \in Addr, NEW o \in LeafObject, NEW objs2,
           objs2 = [objs EXCEPT ![a] = o], Live(objs, a) => ~o.deleted
    PROVE  /\ Retains(objs, objs2)
           /\ objs2 \in ObjectMap
           /\ objs2[a] = o
           /\ ~o.deleted => Live(objs2, a)
<1>1. o # Nil
  BY LeafAssumption
<1>2. objs2 \in ObjectMap /\ objs2[a] = o /\ \A b \in Addr : b # a => objs2[b] = objs[b]
  BY DEF ObjectMap
<1> QED BY <1>1, <1>2 DEF Retains, Live

\* A primitive step keeps the entries linked to their objects.
LEMMA LinkedPrimitive ==
    ASSUME NEW s \in Threaded, NEW a \in Addr, NEW r, Primitive(s, r, a), database \in RowMap,
           NEW P \in SUBSET Addr, Linked(s.journal.entries, s.objs, P)
    PROVE  r \in Threaded /\ Linked(r.journal.entries, r.objs, P)
<1> DEFINE es == s.journal.entries
<1>0. /\ r \in Threaded /\ s.journal \in JournalOf(LeafEntry) /\ es \in Seq(LeafEntry)
      /\ s.objs \in ObjectMap
  BY PrimitiveType DEF Threaded, JournalOf
<1>a. ASSUME NEW e \in LeafEntry, r.journal = append(s.journal, e)
      PROVE  r.journal.entries = Append(es, e)
  <2>1. append(s.journal, e).entries = Append(s.journal.entries, e)
    BY <1>0, AppendOf
  <2> QED BY <1>a, <2>1
<1>r. Retains(s.objs, s.objs)
  BY DEF Retains
<1>1. CASE r.journal = s.journal /\ r.objs = s.objs
  BY <1>0, <1>1
<1>2. CASE Loads(s, r, a)
  <2> DEFINE n == newLeafObject(database[a])
  <2>1. n \in LeafObject /\ ~n.deleted
    BY <1>2, NewLeafObjects DEF Loads, RowMap
  <2>2. r.objs = [s.objs EXCEPT ![a] = n] /\ r.journal = s.journal
    BY <1>2 DEF Loads, Fields
  <2> HIDE DEF n
  <2>3. Retains(s.objs, r.objs)
    BY <1>0, <2>1, <2>2, PrimitiveRetains
  <2> QED BY <1>0, <2>2, <2>3, LinkedKeep
<1>3. CASE Creates(s, r, a)
  <2> DEFINE e == CreateEntry(a)
  <2>1. Fresh(0) \in LeafObject /\ ~Fresh(0).deleted
    BY NewLeafObjects
  <2>2. /\ s.objs[a] = Nil /\ r.objs = [s.objs EXCEPT ![a] = Fresh(0)]
        /\ r.journal = append(s.journal, e)
    BY <1>3 DEF Creates, Fields
  <2>3. e \in LeafEntry /\ e.kind = "createObject" /\ e.account = a
    BY LeafEntryTypes DEF CreateEntry
  <2>4. Retains(s.objs, r.objs) /\ Live(r.objs, a)
    BY <1>0, <2>1, <2>2, PrimitiveRetains
  <2> HIDE DEF e
  <2>5. \A b \in Addr : Concerns(e, b) => Live(r.objs, b)
    BY <2>3, <2>4 DEF Concerns
  <2>6. ~Live(s.objs, a)
    BY <2>2 DEF Live
  <2>7. Linked(Append(es, e), r.objs, P)
    BY <1>0, <2>2, <2>3, <2>4, <2>5, <2>6, LinkedAppend DEF Births
  <2> QED BY <1>0, <1>a, <2>2, <2>3, <2>7
<1>4. CASE Resets(s, r, a)
  <2>1. PICK b \in Int, d \in BOOLEAN :
           Fields(r, [s.objs EXCEPT ![a] = Fresh(b)],
                  append(s.journal, ResetEntry(s.objs[a], a, d)), s.failed)
    BY <1>4 DEF Resets
  <2> DEFINE p == s.objs[a]
             e == ResetEntry(p, a, d)
  <2>2. Fresh(b) \in LeafObject /\ ~Fresh(b).deleted
    BY NewLeafObjects
  <2>3. p # Nil /\ r.objs = [s.objs EXCEPT ![a] = Fresh(b)] /\ r.journal = append(s.journal, e)
    BY <1>4, <2>1 DEF Resets, Fields
  <2>4. p \in LeafObject
    BY <1>0, <2>3 DEF ObjectMap
  <2>5. e \in LeafEntry /\ e.kind = "resetObject" /\ e.account = a /\ e.prev = p
    BY <2>4, LeafEntryTypes DEF ResetEntry
  <2>6. Retains(s.objs, r.objs) /\ Live(r.objs, a)
    BY <1>0, <2>2, <2>3, PrimitiveRetains
  <2> HIDE DEF e
  <2>7. \A c \in Addr : Concerns(e, c) => Live(r.objs, c)
    BY <2>5, <2>6 DEF Concerns
  <2>8. Births(e) => ~Live(s.objs, a)
    BY <2>5 DEF Live, Births
  <2>9. Linked(Append(es, e), r.objs, P)
    BY <1>0, <2>5, <2>6, <2>7, <2>8, LinkedAppend
  <2> QED BY <1>0, <1>a, <2>3, <2>5, <2>9
<1>5. CASE Caches(s, r, a)
  <2>1. PICK k \in Key : Fields(r, [s.objs EXCEPT ![a] = WithSlot(s.objs[a], a, k)],
                                s.journal, s.failed)
    BY <1>5 DEF Caches
  <2>2. s.objs[a] \in LeafObject /\ ~s.objs[a].deleted
    BY <1>0, <1>5, LiveObject DEF Caches
  <2> DEFINE c == WithSlot(s.objs[a], a, k)
  <2>3. c \in LeafObject /\ c.deleted = s.objs[a].deleted
    BY <2>2, WithSlotFields
  <2>4. r.objs = [s.objs EXCEPT ![a] = c] /\ r.journal = s.journal
    BY <2>1 DEF Fields
  <2> HIDE DEF c
  <2>5. Retains(s.objs, r.objs)
    BY <1>0, <2>2, <2>3, <2>4, PrimitiveRetains
  <2> QED BY <1>0, <2>4, <2>5, LinkedKeep
<1>6. CASE Touches(s, r, a)
  <2> DEFINE e == TouchEntry(a)
  <2>1. e \in LeafEntry /\ e.kind = "touch" /\ e.account = a
    BY LeafEntryTypes DEF TouchEntry
  <2>2. append(s.journal, e) \in JournalOf(LeafEntry) /\ append(s.journal, e).entries = Append(es, e)
    BY <1>0, <2>1, AppendOf
  <2>3. r.objs = s.objs /\ r.journal = TouchJournal(s.journal, a) /\ Live(s.objs, a)
    BY <1>6 DEF Touches, Fields
  <2>4. r.journal.entries = Append(es, e)
    BY <2>2, <2>3, DirtyOf DEF TouchJournal
  <2> HIDE DEF e
  <2>5. \A b \in Addr : Concerns(e, b) => Live(s.objs, b)
    BY <2>1, <2>3 DEF Concerns
  <2>6. Linked(Append(es, e), s.objs, P)
    BY <1>0, <1>r, <2>1, <2>5, LinkedAppend DEF Births
  <2> QED BY <1>0, <2>3, <2>4, <2>6
<1>7. CASE Changes(s, r, a)
  <2>1. PICK e \in LeafEntry, o \in LeafObject :
           /\ Records(s.objs[a], a, e, o, s.failed)
           /\ Fields(r, [s.objs EXCEPT ![a] = o], append(s.journal, e), s.failed)
    BY <1>7 DEF Changes
  <2>2. s.objs[a] \in LeafObject /\ ~s.objs[a].deleted
    BY <1>0, <1>7, LiveObject DEF Changes
  <2>3. ~o.deleted
    BY <2>1, <2>2, RecordsLive
  <2>4. Retains(s.objs, r.objs) /\ Live(r.objs, a) /\ r.journal = append(s.journal, e)
    BY <1>0, <2>1, <2>3, PrimitiveRetains DEF Fields
  <2>5. e.account = a /\ e.kind \in FieldKinds
    BY <2>1 DEF Records, FieldKinds
  <2>6. \A b \in Addr : Concerns(e, b) => Live(r.objs, b)
    BY <2>4, <2>5 DEF Concerns
  <2>7. Linked(Append(es, e), r.objs, P)
    BY <1>0, <2>4, <2>5, <2>6, LinkedAppend DEF Births, FieldKinds
  <2> QED BY <1>0, <1>a, <2>4, <2>7
<1>8. CASE Fakes(s, r, a)
  <2>1. PICK m \in Slots : Fields(r, [s.objs EXCEPT ![a] = [s.objs[a] EXCEPT !.fakeStorage = m]],
                                  s.journal, s.failed)
    BY <1>8 DEF Fakes
  <2> DEFINE o == [s.objs[a] EXCEPT !.fakeStorage = m]
  <2>2. s.objs[a] \in LeafObject /\ ~s.objs[a].deleted
    BY <1>0, <1>8, LiveObject DEF Fakes
  <2>3. o \in LeafObject
    BY <2>2, UpdatedObject
  <2>4. ~o.deleted
    BY <2>2 DEF LeafObject
  <2>5. r.objs = [s.objs EXCEPT ![a] = o] /\ r.journal = s.journal
    BY <2>1 DEF Fields
  <2> HIDE DEF o
  <2>6. Retains(s.objs, r.objs)
    BY <1>0, <2>3, <2>4, <2>5, PrimitiveRetains
  <2> QED BY <1>0, <2>5, <2>6, LinkedKeep
<1> QED BY <1>1, <1>2, <1>3, <1>4, <1>5, <1>6, <1>7, <1>8 DEF Primitive, Same, Fails, Fields

\* Without its last entry the journal stays linked.
LEMMA LinkedPop ==
    ASSUME NEW es \in Seq(LeafEntry), NEW fs \in Seq(LeafEntry), Len(es) = Len(fs) + 1,
           \A i \in 1..Len(fs) : fs[i] = es[i],
           NEW objs, NEW objs2, NEW P \in SUBSET Addr, Linked(es, objs, P),
           EntriesLive(fs, objs2), Visitable(objs2, P)
    PROVE  Linked(fs, objs2, P)
<1>1. Len(fs) \in Nat /\ \A i \in 1..Len(fs) : i \in 1..Len(es)
  OBVIOUS
<1>2. BirthsFirst(fs)
  <2> SUFFICES ASSUME NEW i \in 1..Len(fs), NEW j \in 1..Len(fs), j < i, Births(fs[i])
               PROVE  ~Concerns(fs[j], fs[i].account)
    BY DEF BirthsFirst
  <2> QED BY <1>1 DEF Linked, BirthsFirst
<1>3. CreatesNew(fs, P)
  BY <1>1 DEF Linked, CreatesNew
<1> QED BY <1>2, <1>3 DEF Linked

\* Nothing is linked to an empty journal.
LEMMA LinkedEmpty ==
    ASSUME NEW objs, NEW P, Visitable(objs, P)
    PROVE  Linked(<<>>, objs, P)
<1>1. 1..Len(<<>>) = {}
  OBVIOUS
<1> QED BY <1>1 DEF Linked, EntriesLive, BirthsFirst, CreatesNew

-----------------------------------------------------------------------------
(* The inductive invariant.                                                *)

Visited == stateObjectsPending \cup stateObjectsDirty

LInv ==
    /\ TypeOK
    /\ journal \in JournalOf(LeafEntry)
    /\ RevisionTypes
    /\ RevisionsOrdered
    /\ Linked(journal.entries, stateObjects, Visited)

\* In the initial state nothing is there.
LEMMA LInvInit == Init => LInv
<1> SUFFICES ASSUME Init PROVE LInv
  OBVIOUS
<1>1. journal = newJournal /\ journal.entries = <<>> /\ journal.dirties \in [Addr -> Int]
  BY DEF Init, JournalInit, newJournal
<1>2. journal \in JournalOf(LeafEntry)
  BY <1>1, NewJournalOf
<1>3. TxTypeOK
  <2>1. AL!newAccessList \in AccessListType
    BY DEF AL!newAccessList, AccessListType
  <2> QED BY <2>1, TxAssumption, ConstantsAssumption
      DEF Init, TxInit, TxTypeOK, newTransientStorage, AccessListType
<1>4. TypeOK
  BY <1>1, <1>3, LeafAssumption DEF Init, New, TypeOK
<1>5. RevisionTypes /\ RevisionsOrdered
  BY <1>1 DEF Init, JournalInit, RevisionTypes, RevisionsOrdered
<1>6. Visitable(stateObjects, Visited)
  BY DEF Init, New, Visitable, Visited
<1> QED BY <1>1, <1>2, <1>4, <1>5, <1>6, LinkedEmpty DEF LInv

\* The object of an account after its entry e is reverted, p before.
Reverted(e, p) ==
    CASE e.kind = "createObject" -> Nil
      [] e.kind = "resetObject"  -> e.prev
      [] e.kind = "touch"        -> p
      [] e.kind = "suicide"      -> [p EXCEPT !.suicided = e.prev, !.balance = e.prevbalance]
      [] e.kind = "balance"      -> [p EXCEPT !.balance = e.prev]
      [] e.kind = "nonce"        -> [p EXCEPT !.nonce = e.prev]
      [] e.kind = "code"         -> [p EXCEPT !.code = e.prev]
      [] e.kind = "storage"      -> WithWrite(p, e.key, e.prevalue)

\* What the revert methods do.
LeafReverts ==
    /\ Undoing
    /\ journal' = pop(journal)
    /\ LastEntry.kind \in AccountKinds
    /\ stateObjects' = [stateObjects EXCEPT
           ![LastEntry.account] = Reverted(LastEntry, stateObjects[LastEntry.account])]
    /\ UNCHANGED <<validRevisions, nextRevisionId, reverting>>
    /\ UNCHANGED <<database, stateObjectsPending, stateObjectsDirty, stateObjectsDestruct, failed>>

\* The last entry is in the journal.
LEMMA LastLeafEntry ==
    ASSUME journal \in JournalOf(LeafEntry), RevisionTypes, RevisionsOrdered, Undoing
    PROVE  /\ Len(journal.entries) \in 1..Len(journal.entries)
           /\ journal.entries # <<>>
           /\ LastEntry = journal.entries[Len(journal.entries)]
           /\ LastEntry \in LeafEntry
<1>1. journal.entries \in Seq(LeafEntry) /\ Len(journal.entries) \in Nat /\ Len(journal.entries) > 0
  BY UndoingEntries DEF JournalOf
<1> QED BY <1>1 DEF LastEntry

\* The revert methods find their objects.  Reverting a creation leaves the
\* dirty set alone: the object was not there when the last transaction ended.
LEMMA LeafUndoReverts ==
    ASSUME LInv, LeafUndo
    PROVE  LeafReverts
<1> DEFINE e == LastEntry
           a == LastEntry.account
           p == stateObjects[LastEntry.account]
           l == Len(journal.entries)
<1>0. /\ journal \in JournalOf(LeafEntry) /\ RevisionTypes /\ RevisionsOrdered
      /\ Linked(journal.entries, stateObjects, Visited) /\ stateObjects \in ObjectMap
  BY DEF LInv, TypeOK, ObjectMap
<1>1. /\ Undoing /\ journal' = pop(journal)
      /\ UNCHANGED <<validRevisions, nextRevisionId, reverting>>
      /\ UNCHANGED <<database, stateObjectsPending, stateObjectsDestruct, failed>>
  BY DEF LeafUndo, UndoCreateObject, UndoResetObject, UndoSuicide, UndoTouch, UndoBalance,
     UndoNonce, UndoCode, UndoStorage, UndoField, Undo
<1>2. e \in LeafEntry /\ l \in 1..Len(journal.entries) /\ e = journal.entries[l]
  BY <1>0, <1>1, LastLeafEntry
<1>3. e.kind \in AccountKinds => a \in Addr
  BY <1>2, LeafEntryFields
<1>4. e.kind \in FieldKinds => Live(stateObjects, a)
  <2>1. e.kind \in FieldKinds => e.kind \in AccountKinds
    BY DEF AccountKinds
  <2> QED BY <1>0, <1>2, <1>3, <2>1 DEF Linked, EntriesLive, Concerns
<1>s. ASSUME e.kind \in AccountKinds, stateObjectsDirty' = stateObjectsDirty,
             stateObjects' = [stateObjects EXCEPT ![a] = Reverted(e, p)]
      PROVE  LeafReverts
  BY <1>1, <1>s DEF LeafReverts
<1>5. CASE UndoCreateObject
  <2>1. e.kind = "createObject" /\ stateObjects' = [stateObjects EXCEPT ![a] = Nil]
        /\ stateObjectsDirty' = stateObjectsDirty \ {a}
    BY <1>5 DEF UndoCreateObject, Undo
  <2>2. a \notin Visited
    BY <1>0, <1>2, <2>1 DEF Linked, CreatesNew
  <2>3. stateObjectsDirty' = stateObjectsDirty
    BY <2>1, <2>2 DEF Visited
  <2>4. Reverted(e, p) = Nil /\ e.kind \in AccountKinds
    BY <2>1 DEF Reverted, AccountKinds
  <2> QED BY <1>s, <2>1, <2>3, <2>4
<1>6. CASE UndoResetObject
  <2>1. e.kind = "resetObject" /\ stateObjects' = [stateObjects EXCEPT ![a] = e.prev]
        /\ stateObjectsDirty' = stateObjectsDirty
    BY <1>6 DEF UndoResetObject, Undo
  <2>2. Reverted(e, p) = e.prev /\ e.kind \in AccountKinds
    BY <2>1 DEF Reverted, AccountKinds
  <2> QED BY <1>s, <2>1, <2>2
<1>7. CASE UndoSuicide
  <2>1. e.kind = "suicide" /\ stateObjectsDirty' = stateObjectsDirty
    BY <1>7 DEF UndoSuicide, Undo
  <2>2. Live(stateObjects, a) /\ e.kind \in AccountKinds /\ a \in Addr
    BY <1>3, <1>4, <2>1 DEF FieldKinds, AccountKinds
  <2>3. stateObjects' = [stateObjects EXCEPT ![a].suicided = e.prev, ![a].balance = e.prevbalance]
    BY <1>7, <2>2 DEF UndoSuicide
  <2>4. Reverted(e, p) = [p EXCEPT !.suicided = e.prev, !.balance = e.prevbalance]
    BY <2>1 DEF Reverted
  <2> HIDE DEF e, a
  <2>5. stateObjects' = [stateObjects EXCEPT ![a] =
                            [stateObjects[a] EXCEPT !.suicided = e.prev, !.balance = e.prevbalance]]
    BY <1>0, <2>2, <2>3 DEF ObjectMap
  <2> QED BY <1>s, <2>1, <2>2, <2>4, <2>5 DEF a
<1>8. CASE UndoTouch
  <2>1. e.kind = "touch" /\ stateObjects' = stateObjects /\ stateObjectsDirty' = stateObjectsDirty
    BY <1>8 DEF UndoTouch, Undo
  <2>2. Reverted(e, p) = p /\ e.kind \in AccountKinds
    BY <2>1 DEF Reverted, AccountKinds
  <2>3. a \in Addr
    BY <1>3, <2>2
  <2>4. stateObjects = [stateObjects EXCEPT ![a] = p]
    BY <1>0, <2>3 DEF ObjectMap
  <2> QED BY <1>s, <2>1, <2>2, <2>4
<1>9. CASE UndoBalance
  <2>1. e.kind = "balance" /\ stateObjectsDirty' = stateObjectsDirty
        /\ stateObjects' = [stateObjects EXCEPT ![a] = [p EXCEPT !.balance = e.prev]]
    BY <1>9 DEF UndoBalance, UndoField, Undo, LastObject
  <2>2. Reverted(e, p) = [p EXCEPT !.balance = e.prev] /\ e.kind \in AccountKinds
    BY <2>1 DEF Reverted, AccountKinds, FieldKinds
  <2> QED BY <1>s, <2>1, <2>2
<1>10. CASE UndoNonce
  <2>1. e.kind = "nonce" /\ stateObjectsDirty' = stateObjectsDirty
        /\ stateObjects' = [stateObjects EXCEPT ![a] = [p EXCEPT !.nonce = e.prev]]
    BY <1>10 DEF UndoNonce, UndoField, Undo, LastObject
  <2>2. Reverted(e, p) = [p EXCEPT !.nonce = e.prev] /\ e.kind \in AccountKinds
    BY <2>1 DEF Reverted, AccountKinds, FieldKinds
  <2> QED BY <1>s, <2>1, <2>2
<1>11. CASE UndoCode
  <2>1. e.kind = "code" /\ stateObjectsDirty' = stateObjectsDirty
        /\ stateObjects' = [stateObjects EXCEPT ![a] = [p EXCEPT !.code = e.prev]]
    BY <1>11 DEF UndoCode, UndoField, Undo, LastObject
  <2>2. Reverted(e, p) = [p EXCEPT !.code = e.prev] /\ e.kind \in AccountKinds
    BY <2>1 DEF Reverted, AccountKinds, FieldKinds
  <2> QED BY <1>s, <2>1, <2>2
<1>12. CASE UndoStorage
  <2>1. e.kind = "storage" /\ stateObjectsDirty' = stateObjectsDirty
        /\ stateObjects' = [stateObjects EXCEPT ![a] = WithWrite(p, e.key, e.prevalue)]
    BY <1>12 DEF UndoStorage, UndoField, Undo, LastObject, WithWrite
  <2>2. Reverted(e, p) = WithWrite(p, e.key, e.prevalue) /\ e.kind \in AccountKinds
    BY <2>1 DEF Reverted, AccountKinds, FieldKinds
  <2> QED BY <1>s, <2>1, <2>2
<1> QED BY <1>5, <1>6, <1>7, <1>8, <1>9, <1>10, <1>11, <1>12 DEF LeafUndo

\* Reverting an entry yields an object, live unless the entry brought it.
LEMMA RevertedObject ==
    ASSUME NEW e \in LeafEntry, e.kind \in AccountKinds, NEW p \in LeafObject, ~p.deleted
    PROVE  /\ Reverted(e, p) \in LeafObject \cup {Nil}
           /\ e.kind # "createObject" => Reverted(e, p) \in LeafObject
           /\ ~Births(e) => Reverted(e, p) \in LeafObject /\ ~Reverted(e, p).deleted
           /\ e.kind \in FieldKinds => Reverted(e, p).fakeStorage = p.fakeStorage
<1> DEFINE o == Reverted(e, p)
<1>f. ASSUME o \in LeafObject, o.deleted = p.deleted, o.fakeStorage = p.fakeStorage
      PROVE  /\ o \in LeafObject \cup {Nil}
             /\ e.kind # "createObject" => o \in LeafObject
             /\ ~Births(e) => o \in LeafObject /\ ~o.deleted
             /\ e.kind \in FieldKinds => o.fakeStorage = p.fakeStorage
  BY <1>f
<1>1. CASE e.kind = "createObject"
  BY <1>1 DEF Reverted, Births, FieldKinds
<1>2. CASE e.kind = "resetObject"
  BY <1>2, LeafEntryFields DEF Reverted, Births, FieldKinds
<1>3. CASE e.kind = "touch"
  BY <1>3, <1>f DEF Reverted
<1>4. CASE e.kind = "suicide"
  <2>1. o = [p EXCEPT !.suicided = e.prev, !.balance = e.prevbalance]
        /\ e.prev \in BOOLEAN /\ e.prevbalance \in Int
    BY <1>4, LeafEntryFields DEF Reverted
  <2> HIDE DEF o
  <2>2. o \in LeafObject
    BY <2>1, UpdatedObject
  <2>3. o.deleted = p.deleted /\ o.fakeStorage = p.fakeStorage
    BY <2>1 DEF LeafObject
  <2> QED BY <1>f, <2>2, <2>3 DEF o
<1>5. CASE e.kind = "balance"
  <2>1. o = [p EXCEPT !.balance = e.prev] /\ e.prev \in Int
    BY <1>5, LeafEntryFields DEF Reverted
  <2> HIDE DEF o
  <2>2. o \in LeafObject /\ o.deleted = p.deleted /\ o.fakeStorage = p.fakeStorage
    BY <2>1 DEF LeafObject
  <2> QED BY <1>f, <2>2 DEF o
<1>6. CASE e.kind = "nonce"
  <2>1. o = [p EXCEPT !.nonce = e.prev] /\ e.prev \in Nat
    BY <1>6, LeafEntryFields DEF Reverted
  <2> HIDE DEF o
  <2>2. o \in LeafObject /\ o.deleted = p.deleted /\ o.fakeStorage = p.fakeStorage
    BY <2>1 DEF LeafObject
  <2> QED BY <1>f, <2>2 DEF o
<1>7. CASE e.kind = "code"
  <2>1. o = [p EXCEPT !.code = e.prev] /\ e.prev \in Code
    BY <1>7, LeafEntryFields DEF Reverted
  <2> HIDE DEF o
  <2>2. o \in LeafObject /\ o.deleted = p.deleted /\ o.fakeStorage = p.fakeStorage
    BY <2>1 DEF LeafObject
  <2> QED BY <1>f, <2>2 DEF o
<1>8. CASE e.kind = "storage"
  <2> DEFINE m == [p.dirtyStorage EXCEPT ![e.key] = e.prevalue]
  <2>1. o = [p EXCEPT !.dirtyStorage = m] /\ e.key \in Key /\ e.prevalue \in Word
    BY <1>8, LeafEntryFields DEF Reverted, WithWrite
  <2>2. m \in Cache
    BY <2>1 DEF LeafObject, Cache
  <2> HIDE DEF o, m
  <2>3. o \in LeafObject
    BY <2>1, <2>2, UpdatedObject
  <2>4. o.deleted = p.deleted /\ o.fakeStorage = p.fakeStorage
    BY <2>1 DEF LeafObject
  <2> QED BY <1>f, <2>3, <2>4 DEF o
<1> QED BY <1>1, <1>2, <1>3, <1>4, <1>5, <1>6, <1>7, <1>8 DEF AccountKinds, FieldKinds

-----------------------------------------------------------------------------
(* The steps of the specification, in the terms of the proofs.             *)

\* Finalise and Copy: the journal is emptied and the revisions are dropped.
Clears == Copy \/ \E d \in BOOLEAN : Finalise(d)

Keeps ==
    /\ UNCHANGED <<txVars, leafVars, journal>>
    /\ \/ Snapshot
       \/ \E id : RevertToSnapshot(id)
       \/ RevertDone
       \/ UNCHANGED <<validRevisions, nextRevisionId, reverting>>

\* Every step is of one of six kinds.
LEMMA LeafStepCases ==
    ASSUME LInv, [Next]_vars
    PROVE  \/ TxSetter /\ UNCHANGED leafVars
           \/ (\E a \in Addr : CallRuns(a)) /\ UNCHANGED txVars
           \/ TxUndo /\ UNCHANGED leafVars
           \/ LeafReverts /\ UNCHANGED txVars
           \/ Clears
           \/ Keeps
<1>1. TypeOK /\ journal \in JournalOf(LeafEntry)
  BY DEF LInv
<1>2. CASE TxSetters /\ UNCHANGED leafVars
  <2>1. TxSetter
    BY <1>2 DEF TxSetters, LogsAndRefund, TransientWrites, AccessListCalls, Prepares,
       SetsTxContext, TxSetter
  <2> QED BY <1>2, <2>1
<1>3. CASE (\E a \in Addr, io \in Answers : AccountCall(a, io)) /\ UNCHANGED txVars
  BY <1>1, <1>3, AccountCallRuns
<1>4. CASE (Snapshots \/ RevertsToSnapshot) /\ UNCHANGED <<txVars, leafVars>>
  <2>1. CASE Snapshots
    BY <1>4, <2>1 DEF Snapshots, Snapshot, Keeps
  <2>2. CASE RevertsToSnapshot
    <3>1. PICK id : RevertToSnapshot(id)
      BY <2>2 DEF RevertsToSnapshot
    <3> QED BY <1>4, <3>1 DEF RevertToSnapshot, Keeps
  <2> QED BY <1>4, <2>1, <2>2
<1>5. CASE RevertStep
  <2>1. CASE LeafUndo /\ UNCHANGED txVars
    BY <2>1, LeafUndoReverts
  <2>2. CASE RevertDone /\ UNCHANGED <<txVars, leafVars>>
    BY <2>2 DEF RevertDone, Keeps
  <2> QED BY <1>5, <2>1, <2>2 DEF RevertStep
<1>6. CASE Copy \/ \E d \in BOOLEAN : Finalise(d)
  BY <1>6 DEF Clears
<1>7. CASE UNCHANGED vars
  BY <1>7 DEF vars, journalVars, Keeps
<1> QED BY <1>2, <1>3, <1>4, <1>5, <1>6, <1>7 DEF Next

\* The record that the primitives of a call thread through.
LEMMA CallThreads ==
    ASSUME LInv, NEW a \in Addr, NEW r, Runs(r, a)
    PROVE  /\ r \in Threaded
           /\ Linked(r.journal.entries, r.objs, Visited)
<1>1. State \in Threaded /\ database \in RowMap /\ Visited \in SUBSET Addr
      /\ Linked(State.journal.entries, State.objs, Visited)
  BY StateType DEF LInv, TypeOK, Visited, State
<1>2. PICK s : Finds(State, s, a) /\ Works(s, r, a)
  BY DEF Runs
<1>3. PICK x, y : Primitive(State, x, a) /\ Primitive(x, y, a) /\ Primitive(y, s, a)
  BY <1>2 DEF Finds
<1>4. PICK z : Primitive(s, z, a) /\ Primitive(z, r, a)
  BY <1>2 DEF Works
<1>5. x \in Threaded /\ Linked(x.journal.entries, x.objs, Visited)
  BY <1>1, <1>3, LinkedPrimitive
<1>6. y \in Threaded /\ Linked(y.journal.entries, y.objs, Visited)
  BY <1>1, <1>3, <1>5, LinkedPrimitive
<1>7. s \in Threaded /\ Linked(s.journal.entries, s.objs, Visited)
  BY <1>1, <1>3, <1>6, LinkedPrimitive
<1>8. z \in Threaded /\ Linked(z.journal.entries, z.objs, Visited)
  BY <1>1, <1>4, <1>7, LinkedPrimitive
<1> QED BY <1>1, <1>4, <1>8, LinkedPrimitive

\* A primitive step appends at most one entry, of an account.
LEMMA PrimitiveJournal ==
    ASSUME NEW s \in Threaded, NEW a \in Addr, NEW r, Primitive(s, r, a)
    PROVE  \/ r.journal = s.journal
           \/ \E e \in LeafEntry :
                 /\ Concerns(e, a)
                 /\ r.journal = append(s.journal, e)
                    \/ (e = TouchEntry(a) /\ r.journal = dirty(append(s.journal, e), a))
<1>0. s.objs \in ObjectMap
  BY DEF Threaded
<1>1. CASE Creates(s, r, a)
  BY <1>1, LeafEntryTypes DEF Creates, Fields, CreateEntry, Concerns, AccountKinds
<1>2. CASE Resets(s, r, a)
  <2>1. PICK d \in BOOLEAN : r.journal = append(s.journal, ResetEntry(s.objs[a], a, d))
    BY <1>2 DEF Resets, Fields
  <2>2. s.objs[a] \in LeafObject
    BY <1>0, <1>2 DEF Resets, ObjectMap
  <2>3. ResetEntry(s.objs[a], a, d) \in LeafEntry
    BY <2>2, LeafEntryTypes
  <2>4. Concerns(ResetEntry(s.objs[a], a, d), a)
    BY DEF ResetEntry, Concerns, AccountKinds
  <2> QED BY <2>1, <2>3, <2>4
<1>3. CASE Touches(s, r, a)
  <2>1. TouchEntry(a) \in LeafEntry /\ Concerns(TouchEntry(a), a)
    BY LeafEntryTypes DEF TouchEntry, Concerns, AccountKinds
  <2> QED BY <1>3, <2>1 DEF Touches, Fields, TouchJournal
<1>4. CASE Changes(s, r, a)
  <2>1. PICK e \in LeafEntry, o \in LeafObject :
           /\ Records(s.objs[a], a, e, o, s.failed)
           /\ Fields(r, [s.objs EXCEPT ![a] = o], append(s.journal, e), s.failed)
    BY <1>4 DEF Changes
  <2>2. Concerns(e, a)
    BY <2>1 DEF Records, Concerns, AccountKinds, FieldKinds
  <2> QED BY <2>1, <2>2 DEF Fields
<1>5. CASE Same(s, r) \/ Fails(s, r) \/ Loads(s, r, a) \/ Caches(s, r, a) \/ Fakes(s, r, a)
  BY <1>5 DEF Same, Fails, Loads, Caches, Fakes, Fields
<1> QED BY <1>1, <1>2, <1>3, <1>4, <1>5 DEF Primitive

\* So it extends the journal.
LEMMA PrimitiveExtends ==
    ASSUME NEW s \in Threaded, NEW a \in Addr, NEW r, Primitive(s, r, a)
    PROVE  Extends(s.journal.entries, r.journal.entries, TxKinds)
<1>0. s.journal \in JournalOf(LeafEntry) /\ s.journal.entries \in Seq(LeafEntry)
  BY DEF Threaded, JournalOf
<1>1. CASE r.journal = s.journal
  BY <1>0, <1>1, ExtendsAppend
<1>2. ASSUME NEW e \in LeafEntry, Concerns(e, a),
             r.journal = append(s.journal, e) \/ r.journal = dirty(append(s.journal, e), a)
      PROVE  Extends(s.journal.entries, r.journal.entries, TxKinds)
  <2>1. /\ append(s.journal, e) \in JournalOf(LeafEntry)
        /\ append(s.journal, e).entries = Append(s.journal.entries, e)
    BY <1>0, AppendOf
  <2>2. r.journal.entries = Append(s.journal.entries, e)
    BY <1>2, <2>1, DirtyOf
  <2>3. e.kind \notin TxKinds
    BY <1>2 DEF Concerns, AccountKinds, FieldKinds, TxKinds
  <2> QED BY <1>0, <2>2, <2>3, ExtendsAppend
<1> QED BY <1>1, <1>2, PrimitiveJournal

\* So does a call.
LEMMA CallExtends ==
    ASSUME LInv, NEW a \in Addr, NEW r, Runs(r, a)
    PROVE  Extends(journal.entries, r.journal.entries, TxKinds)
<1> DEFINE es(x) == x.journal.entries
<1>1. State \in Threaded /\ State.journal = journal
  BY StateType DEF LInv
<1>2. PICK s : Finds(State, s, a) /\ Works(s, r, a)
  BY DEF Runs
<1>3. PICK x, y : Primitive(State, x, a) /\ Primitive(x, y, a) /\ Primitive(y, s, a)
  BY <1>2 DEF Finds
<1>4. PICK z : Primitive(s, z, a) /\ Primitive(z, r, a)
  BY <1>2 DEF Works
<1>5. x \in Threaded /\ y \in Threaded /\ s \in Threaded /\ z \in Threaded /\ r \in Threaded
  BY <1>3, <1>4, PrimitiveType
<1>6. \A u \in Threaded : es(u) \in Seq(LeafEntry)
  BY DEF Threaded, JournalOf
<1>7. /\ Extends(es(State), es(x), TxKinds) /\ Extends(es(x), es(y), TxKinds)
      /\ Extends(es(y), es(s), TxKinds) /\ Extends(es(s), es(z), TxKinds)
      /\ Extends(es(z), es(r), TxKinds)
  BY <1>1, <1>3, <1>4, <1>5, PrimitiveExtends
<1>8. /\ es(State) \in Seq(LeafEntry) /\ es(x) \in Seq(LeafEntry) /\ es(y) \in Seq(LeafEntry)
      /\ es(s) \in Seq(LeafEntry) /\ es(z) \in Seq(LeafEntry) /\ es(r) \in Seq(LeafEntry)
  BY <1>1, <1>5, <1>6
<1>9. es(State) = journal.entries
  BY <1>1
<1> HIDE DEF es
<1>10. Extends(es(State), es(y), TxKinds)
  BY <1>7, <1>8, ExtendsTwice
<1>11. Extends(es(State), es(s), TxKinds)
  BY <1>7, <1>8, <1>10, ExtendsTwice
<1>12. Extends(es(State), es(z), TxKinds)
  BY <1>7, <1>8, <1>11, ExtendsTwice
<1>13. Extends(es(State), es(r), TxKinds)
  BY <1>7, <1>8, <1>12, ExtendsTwice
<1> QED BY <1>9, <1>13 DEF es

\* A call on an account keeps the invariant.
LEMMA CallLInv ==
    ASSUME LInv, NEW a \in Addr, CallRuns(a), UNCHANGED txVars
    PROVE  LInv'
<1>1. PICK r : Runs(r, a) /\ Put(r)
  BY DEF CallRuns
<1>2. r \in Threaded /\ Linked(r.journal.entries, r.objs, Visited)
      /\ Extends(journal.entries, r.journal.entries, TxKinds)
  BY <1>1, CallThreads, CallExtends
<1>3. /\ Idle /\ stateObjects' = r.objs /\ stateObjectsDestruct' = r.destruct /\ journal' = r.journal
      /\ failed' = r.failed
      /\ UNCHANGED <<database, stateObjectsPending, stateObjectsDirty,
                     validRevisions, nextRevisionId, reverting>>
  BY <1>1 DEF Put
<1>4. /\ r.objs \in ObjectMap /\ r.destruct \in SUBSET Addr /\ r.failed \in BOOLEAN
      /\ r.journal \in JournalOf(LeafEntry)
      /\ r.journal.dirties \in [Addr -> Int] /\ r.journal.entries \in Seq(LeafEntry)
  BY <1>2 DEF Threaded, JournalOf
<1>5. TypeOK'
  BY <1>3, <1>4 DEF LInv, TypeOK, TxTypeOK, txVars, ObjectMap
<1>6. Len(journal'.entries) \in Nat /\ Len(journal.entries) <= Len(journal'.entries)
  BY <1>2, <1>3, <1>4 DEF Extends
<1>7. RevisionTypes' /\ RevisionsOrdered'
  BY <1>3, <1>6, GrowRevisions DEF LInv
<1>8. Linked(journal.entries, stateObjects, Visited)'
  BY <1>2, <1>3 DEF Visited
<1> QED BY <1>3, <1>4, <1>5, <1>7, <1>8 DEF LInv

\* Reverting an entry of an account changes its object only.
LEMMA RevertsObjects ==
    ASSUME LInv, LeafReverts
    PROVE  LET e == LastEntry
               a == LastEntry.account
               p == stateObjects[LastEntry.account]
               o == Reverted(LastEntry, stateObjects[LastEntry.account])
           IN /\ e \in LeafEntry /\ a \in Addr /\ Live(stateObjects, a)
              /\ p \in LeafObject /\ o \in LeafObject \cup {Nil}
              /\ ~Births(e) => o \in LeafObject /\ ~o.deleted
              /\ e.kind # "createObject" => o \in LeafObject
              /\ stateObjects' \in ObjectMap /\ stateObjects'[a] = o
              /\ \A b \in Addr : b # a => stateObjects'[b] = stateObjects[b]
              /\ journal.entries \in Seq(LeafEntry) /\ journal'.entries \in Seq(LeafEntry)
              /\ journal' \in JournalOf(LeafEntry)
              /\ Len(journal.entries) = Len(journal'.entries) + 1
              /\ \A i \in 1..Len(journal'.entries) : journal'.entries[i] = journal.entries[i]
              /\ e = journal.entries[Len(journal.entries)]
              /\ Len(journal.entries) \in 1..Len(journal.entries)
<1> DEFINE e == LastEntry
           a == LastEntry.account
           p == stateObjects[a]
           o == Reverted(e, p)
           l == Len(journal.entries)
<1>0. /\ journal \in JournalOf(LeafEntry) /\ RevisionTypes /\ RevisionsOrdered
      /\ Linked(journal.entries, stateObjects, Visited) /\ stateObjects \in ObjectMap
      /\ journal.entries \in Seq(LeafEntry)
  BY DEF LInv, TypeOK, ObjectMap, JournalOf
<1>1. /\ Undoing /\ journal' = pop(journal) /\ e.kind \in AccountKinds
      /\ stateObjects' = [stateObjects EXCEPT ![a] = o]
  BY DEF LeafReverts
<1>2. /\ e \in LeafEntry /\ l \in 1..Len(journal.entries) /\ e = journal.entries[l]
      /\ journal.entries # <<>>
  BY <1>0, <1>1, LastLeafEntry
<1>3. a \in Addr
  BY <1>1, <1>2, LeafEntryFields
<1>4. Live(stateObjects, a)
  BY <1>0, <1>1, <1>2, <1>3 DEF Linked, EntriesLive, Concerns
<1>5. p \in LeafObject /\ ~p.deleted
  BY <1>0, <1>3, <1>4, LiveObject
<1>6. /\ o \in LeafObject \cup {Nil} /\ (~Births(e) => o \in LeafObject /\ ~o.deleted)
      /\ (e.kind # "createObject" => o \in LeafObject)
  BY <1>1, <1>2, <1>5, RevertedObject
<1>7. /\ journal' \in JournalOf(LeafEntry) /\ journal'.entries \in Seq(LeafEntry)
      /\ Len(journal.entries) = Len(journal'.entries) + 1
      /\ \A i \in 1..Len(journal'.entries) : journal'.entries[i] = journal.entries[i]
  BY <1>0, <1>1, <1>2, PopOf
<1> HIDE DEF o, a, e, p
<1>8. /\ stateObjects' \in ObjectMap /\ stateObjects'[a] = o
      /\ \A b \in Addr : b # a => stateObjects'[b] = stateObjects[b]
  BY <1>0, <1>1, <1>3, <1>6 DEF ObjectMap
<1> QED BY <1>0, <1>2, <1>3, <1>4, <1>5, <1>6, <1>7, <1>8 DEF o, a, e, p, l

\* The reverts of account entries keep the invariant.
LEMMA RevertsLInv ==
    ASSUME LInv, LeafReverts, UNCHANGED txVars
    PROVE  LInv'
<1> DEFINE e == LastEntry
           a == LastEntry.account
           o == Reverted(e, stateObjects[a])
           es == journal.entries
           fs == journal'.entries
<1>0. /\ RevisionTypes /\ RevisionsOrdered /\ Linked(es, stateObjects, Visited)
      /\ Visited \in SUBSET Addr
  BY DEF LInv, TypeOK, Visited
<1>1. /\ Undoing /\ UNCHANGED <<validRevisions, nextRevisionId, reverting>>
      /\ UNCHANGED <<database, stateObjectsPending, stateObjectsDirty, stateObjectsDestruct, failed>>
  BY DEF LeafReverts
<1>2. /\ e \in LeafEntry /\ a \in Addr /\ Live(stateObjects, a)
      /\ ~Births(e) => o \in LeafObject /\ ~o.deleted
      /\ e.kind # "createObject" => o \in LeafObject
      /\ stateObjects' \in ObjectMap /\ stateObjects'[a] = o
      /\ \A b \in Addr : b # a => stateObjects'[b] = stateObjects[b]
  BY RevertsObjects
<1>3. /\ es \in Seq(LeafEntry) /\ fs \in Seq(LeafEntry) /\ Len(es) = Len(fs) + 1
      /\ \A i \in 1..Len(fs) : fs[i] = es[i]
      /\ e = es[Len(es)] /\ Len(es) \in 1..Len(es) /\ Len(fs) \in Nat
      /\ journal' \in JournalOf(LeafEntry)
  BY RevertsObjects
<1> HIDE DEF e, o, a, es, fs
<1>4. EntriesLive(fs, stateObjects')
  <2> SUFFICES ASSUME NEW i \in 1..Len(fs), NEW b \in Addr, Concerns(fs[i], b)
               PROVE  Live(stateObjects', b)
    BY DEF EntriesLive
  <2>1. i \in 1..Len(es) /\ i < Len(es) /\ Concerns(es[i], b)
    BY <1>3
  <2>2. Live(stateObjects, b)
    BY <1>0, <2>1 DEF Linked, EntriesLive
  <2>3. CASE b # a
    BY <1>2, <2>2, <2>3 DEF Live
  <2>4. CASE b = a
    <3>1. ~Births(e)
      BY <1>0, <1>3, <2>1, <2>4 DEF Linked, BirthsFirst, a, e
    <3>2. o # Nil
      BY <1>2, <3>1, LeafAssumption
    <3> QED BY <1>2, <2>4, <3>1, <3>2 DEF Live
  <2> QED BY <2>3, <2>4
<1>5. Visitable(stateObjects', Visited)
  <2> SUFFICES ASSUME NEW b \in Visited PROVE stateObjects'[b] # Nil
    BY DEF Visitable
  <2>1. b \in Addr /\ stateObjects[b] # Nil
    BY <1>0 DEF Linked, Visitable
  <2>2. CASE b = a
    <3>1. e.kind # "createObject"
      BY <1>0, <1>3, <2>2 DEF Linked, CreatesNew, a, e
    <3> QED BY <1>2, <2>2, <3>1, LeafAssumption
  <2> QED BY <1>2, <2>1, <2>2
<1>6. Linked(fs, stateObjects', Visited)
  BY <1>0, <1>3, <1>4, <1>5, LinkedPop
<1>7. RevisionTypes' /\ RevisionsOrdered'
  BY <1>0, <1>1, <1>3, PopRevisions DEF es, fs
<1>8. TypeOK'
  BY <1>1, <1>2, <1>3 DEF LInv, TypeOK, TxTypeOK, txVars, ObjectMap, JournalOf
<1>9. Linked(journal.entries, stateObjects, Visited)'
  BY <1>1, <1>6 DEF Visited, fs
<1> QED BY <1>3, <1>7, <1>8, <1>9 DEF LInv

\* The entries of the transaction state concern no account.
LEMMA TxEntryLinked ==
    ASSUME NEW es \in Seq(LeafEntry), NEW e \in TxEntry, NEW objs, NEW P \in SUBSET Addr,
           Linked(es, objs, P)
    PROVE  Linked(Append(es, e), objs, P)
<1>1. e \in LeafEntry /\ e.kind \in TxKinds
  BY LeafEntryTypes DEF TxEntry
<1>2. \A a \in Addr : ~Concerns(e, a)
  BY <1>1 DEF Concerns, TxKinds, AccountKinds, FieldKinds
<1>3. ~Births(e) /\ e.kind # "createObject"
  BY <1>1 DEF Births, TxKinds
<1>4. Retains(objs, objs)
  BY DEF Retains
<1> QED BY <1>1, <1>2, <1>3, <1>4, LinkedAppend

\* The setters of the transaction state keep the invariant.
LEMMA TxSetterLInv ==
    ASSUME LInv, TxSetter, UNCHANGED leafVars
    PROVE  LInv'
<1>0. /\ TxTypeOK /\ RevisionTypes /\ RevisionsOrdered /\ journal \in JournalOf(LeafEntry)
      /\ Linked(journal.entries, stateObjects, Visited) /\ Visited \in SUBSET Addr
      /\ journal.entries \in Seq(LeafEntry)
  BY DEF LInv, TypeOK, Visited, JournalOf
<1>1. TxTypeOK' /\ TxGrows
  BY <1>0, TxSetterStep
<1>2. \A e \in TxEntry : e \in LeafEntry
  BY LeafEntryTypes
<1>a. ASSUME NEW j \in JournalOf(LeafEntry), NEW e \in TxEntry,
             Linked(j.entries, stateObjects, Visited)
      PROVE  /\ append(j, e) \in JournalOf(LeafEntry)
             /\ Len(append(j, e).entries) = Len(j.entries) + 1
             /\ Len(j.entries) \in Nat
             /\ Linked(append(j, e).entries, stateObjects, Visited)
  <2>1. e \in LeafEntry /\ j.entries \in Seq(LeafEntry)
    BY <1>2 DEF JournalOf
  <2>2. append(j, e) \in JournalOf(LeafEntry) /\ append(j, e).entries = Append(j.entries, e)
    BY <2>1, AppendOf
  <2>3. Linked(Append(j.entries, e), stateObjects, Visited)
    BY <1>0, <1>a, <2>1, TxEntryLinked
  <2> QED BY <2>1, <2>2, <2>3
<1>3. /\ journal' \in JournalOf(LeafEntry) /\ Len(journal'.entries) \in Nat
      /\ Len(journal.entries) <= Len(journal'.entries)
      /\ Linked(journal'.entries, stateObjects, Visited)
  <2>1. CASE journal' = journal
    BY <1>0, <2>1
  <2>2. ASSUME NEW e \in TxEntry, journal' = append(journal, e)
        PROVE  <1>3!:
    BY <1>0, <1>a, <2>2
  <2>3. ASSUME NEW e \in TxEntry, NEW f \in TxEntry, journal' = append(append(journal, e), f)
        PROVE  <1>3!:
    <3>1. /\ append(journal, e) \in JournalOf(LeafEntry) /\ Len(journal.entries) \in Nat
          /\ Len(append(journal, e).entries) = Len(journal.entries) + 1
          /\ Linked(append(journal, e).entries, stateObjects, Visited)
      BY <1>0, <1>a
    <3> QED BY <1>a, <2>3, <3>1
  <2> QED BY <1>1, <2>1, <2>2, <2>3 DEF TxGrows
<1>4. RevisionTypes' /\ RevisionsOrdered'
  BY <1>0, <1>1, <1>3, GrowRevisions DEF TxGrows
<1>5. TypeOK'
  BY <1>1, <1>3 DEF LInv, TypeOK, leafVars, JournalOf
<1>6. Linked(journal.entries, stateObjects, Visited)'
  BY <1>3 DEF Visited, leafVars
<1> QED BY <1>3, <1>4, <1>5, <1>6 DEF LInv

\* An entry with the kind of a revert of the transaction state is one of its entries.
LEMMA TxUndoEntry ==
    ASSUME LInv, TxUndo
    PROVE  /\ Undoing /\ LastEntry \in TxEntry /\ LastEntry \in Entry
           /\ journal.entries # <<>> /\ journal' = pop(journal)
<1>1. Undoing /\ LastEntry.kind \in TxKinds /\ journal' = pop(journal)
  BY DEF TxUndo, UndoRefund, UndoAddLog, UndoAddPreimage, UndoAccessListAddAccount,
         UndoAccessListAddSlot, UndoTransientStorage, Pops, TxKinds
<1>2. LastEntry \in LeafEntry /\ journal.entries # <<>>
  BY <1>1, LastLeafEntry DEF LInv
<1>3. LastEntry \in TxEntry
  BY <1>1, <1>2, LeafEntryFields
<1> QED BY <1>1, <1>2, <1>3 DEF TxEntry

\* The reverts of the transaction state keep the invariant.
LEMMA TxUndoLInv ==
    ASSUME LInv, TxUndo, UNCHANGED leafVars
    PROVE  LInv'
<1> DEFINE es == journal.entries
           fs == journal'.entries
<1>0. /\ TxTypeOK /\ RevisionTypes /\ RevisionsOrdered /\ journal \in JournalOf(LeafEntry)
      /\ Linked(es, stateObjects, Visited) /\ Visited \in SUBSET Addr /\ es \in Seq(LeafEntry)
  BY DEF LInv, TypeOK, Visited, JournalOf
<1>1. Undoing /\ LastEntry \in Entry /\ es # <<>> /\ journal' = pop(journal)
  BY TxUndoEntry
<1>2. TxTypeOK' /\ UNCHANGED <<validRevisions, nextRevisionId, reverting>>
  BY <1>0, <1>1, TxUndoTypes
<1>3. /\ journal' \in JournalOf(LeafEntry) /\ fs \in Seq(LeafEntry) /\ Len(es) = Len(fs) + 1
      /\ \A i \in 1..Len(fs) : fs[i] = es[i]
  BY <1>0, <1>1, PopOf
<1>4. Len(fs) \in Nat /\ \A i \in 1..Len(fs) : i \in 1..Len(es)
  BY <1>3
<1>5. EntriesLive(fs, stateObjects) /\ Visitable(stateObjects, Visited)
  BY <1>0, <1>3, <1>4 DEF Linked, EntriesLive
<1>6. Linked(fs, stateObjects, Visited)
  BY <1>0, <1>3, <1>5, LinkedPop
<1>7. RevisionTypes' /\ RevisionsOrdered'
  BY <1>0, <1>1, <1>2, <1>3, <1>4, PopRevisions
<1>8. TypeOK'
  BY <1>2, <1>3 DEF LInv, TypeOK, leafVars, JournalOf
<1>9. Linked(journal.entries, stateObjects, Visited)'
  BY <1>6 DEF Visited, leafVars
<1> QED BY <1>3, <1>7, <1>8, <1>9 DEF LInv

\* The objects that Finalise and Copy leave.
LEMMA EndedObjects ==
    ASSUME NEW o \in LeafObject
    PROVE  /\ finaliseObject(o) \in LeafObject
           /\ [o EXCEPT !.deleted = TRUE] \in LeafObject
           /\ deepCopy(o) \in LeafObject
<1> DEFINE m == [k \in Key |-> IF o.dirtyStorage[k] # Nil THEN o.dirtyStorage[k]
                               ELSE o.pendingStorage[k]]
           q == [o EXCEPT !.pendingStorage = m]
<1>1. m \in Cache /\ NoStorage \in Cache
  BY DEF LeafObject, Cache, NoStorage
<1>2. finaliseObject(o) = [o EXCEPT !.pendingStorage = m, !.dirtyStorage = NoStorage]
  BY DEF finaliseObject
<1> HIDE DEF m
<1>3. q \in LeafObject
  BY <1>1 DEF LeafObject
<1>4. finaliseObject(o) = [q EXCEPT !.dirtyStorage = NoStorage]
  BY <1>2 DEF LeafObject
<1> HIDE DEF q
<1>5. finaliseObject(o) \in LeafObject
  BY <1>1, <1>3, <1>4, UpdatedObject
<1>6. deepCopy(o) \in LeafObject
  BY UpdatedObject DEF deepCopy
<1> QED BY <1>5, <1>6, UpdatedObject

\* Finalise and Copy leave an object for every address they have visited, now
\* or before.
LEMMA ClearsLInv ==
    ASSUME LInv, Clears
    PROVE  /\ LInv'
           /\ journal'.entries = <<>> /\ validRevisions' = <<>> /\ reverting' = 0
           /\ failed' = failed /\ database' = database
<1>0. /\ TypeOK /\ TxTypeOK /\ stateObjects \in ObjectMap /\ journal \in JournalOf(LeafEntry)
      /\ Visitable(stateObjects, Visited) /\ RevisionTypes
  BY DEF LInv, TypeOK, ObjectMap, Linked
<1>1. newJournal \in JournalOf(LeafEntry) /\ newJournal.entries = <<>>
  BY NewJournalOf DEF newJournal
<1>2. \A a \in Addr : stateObjects[a] # Nil => stateObjects[a] \in LeafObject
  BY <1>0 DEF ObjectMap
<1>3. Finalised \subseteq Addr /\ \A a \in Finalised : stateObjects[a] # Nil
  BY DEF Finalised, DirtyAccounts
<1>4. /\ journal' \in JournalOf(LeafEntry) /\ journal'.entries = <<>> /\ validRevisions' = <<>>
      /\ reverting' = 0 /\ nextRevisionId' \in Nat
      /\ stateObjectsPending' = stateObjectsPending \cup Finalised
      /\ stateObjectsDirty' = stateObjectsDirty \cup Finalised
      /\ database' = database /\ failed' = failed
  <2>1. CASE Copy
    BY <1>1, <2>1 DEF Copy, Idle
  <2>2. ASSUME NEW d \in BOOLEAN, Finalise(d) PROVE <1>4!:
    BY <1>0, <1>1, <2>2 DEF Finalise, clearJournalAndRefund, Idle, RevisionTypes
  <2> QED BY <2>1, <2>2 DEF Clears
<1>5. Visited' = Visited \cup Finalised
  BY <1>4 DEF Visited
<1>6. stateObjects' \in ObjectMap /\ Visitable(stateObjects', Visited')
  <2>1. CASE Copy
    <3>1. Copied = Visited \cup Finalised
      BY DEF Copied, Visited
    <3>2. \A a \in Copied : a \in Addr /\ stateObjects[a] \in LeafObject
      BY <1>0, <1>2, <1>3, <3>1 DEF Visitable, Visited, TypeOK
    <3>3. \A a \in Copied : deepCopy(stateObjects[a]) \in LeafObject
      BY <3>2, EndedObjects
    <3>4. stateObjects' = [a \in Addr |-> IF a \in Copied THEN deepCopy(stateObjects[a]) ELSE Nil]
      BY <2>1 DEF Copy
    <3>5. stateObjects' \in ObjectMap
      BY <3>3, <3>4 DEF ObjectMap
    <3>6. \A a \in Visited' : stateObjects'[a] # Nil
      BY <1>5, <3>1, <3>2, <3>3, <3>4, LeafAssumption
    <3> QED BY <3>5, <3>6 DEF Visitable
  <2>2. ASSUME NEW d \in BOOLEAN, Finalise(d)
        PROVE  stateObjects' \in ObjectMap /\ Visitable(stateObjects', Visited')
    <3> DEFINE gone == {a \in Finalised : Deletes(stateObjects[a], d)}
               x(a) == IF a \in gone THEN [stateObjects[a] EXCEPT !.deleted = TRUE]
                       ELSE IF a \in Finalised THEN finaliseObject(stateObjects[a])
                       ELSE stateObjects[a]
    <3>1. stateObjects' = [a \in Addr |-> x(a)]
      BY <2>2 DEF Finalise
    <3>2. ASSUME NEW a \in Addr
          PROVE  /\ x(a) \in LeafObject \cup {Nil}
                 /\ stateObjects[a] # Nil => x(a) \in LeafObject
      <4>1. CASE stateObjects[a] # Nil
        BY <1>2, <4>1, EndedObjects
      <4>2. CASE stateObjects[a] = Nil
        BY <1>3, <4>2
      <4> QED BY <4>1, <4>2
    <3> HIDE DEF x
    <3>3. stateObjects' \in ObjectMap
      BY <3>1, <3>2 DEF ObjectMap
    <3>4. \A a \in Visited' : a \in Addr /\ stateObjects[a] # Nil
      BY <1>0, <1>3, <1>5 DEF Visitable, Visited, TypeOK
    <3>5. \A a \in Visited' : stateObjects'[a] # Nil
      BY <3>1, <3>2, <3>4, LeafAssumption
    <3> QED BY <3>3, <3>5 DEF Visitable
  <2> QED BY <2>1, <2>2 DEF Clears
<1>7. Linked(journal.entries, stateObjects, Visited)'
  BY <1>4, <1>6, LinkedEmpty
<1>8. RevisionTypes' /\ RevisionsOrdered'
  BY <1>4, NoRevisions
<1>9. TxTypeOK'
  <2>1. CASE Copy
    BY <1>0, <2>1, TxAssumption DEF Copy, TxTypeOK
  <2>2. ASSUME NEW d \in BOOLEAN, Finalise(d) PROVE TxTypeOK'
    BY <1>0, <2>2 DEF Finalise, clearJournalAndRefund, TxTypeOK
  <2> QED BY <2>1, <2>2 DEF Clears
<1>10. stateObjectsDestruct' \in SUBSET Addr
  <2>1. CASE Copy
    BY <1>0, <2>1 DEF Copy, TypeOK
  <2>2. ASSUME NEW d \in BOOLEAN, Finalise(d) PROVE stateObjectsDestruct' \in SUBSET Addr
    BY <1>0, <1>3, <2>2 DEF Finalise, TypeOK
  <2> QED BY <2>1, <2>2 DEF Clears
<1>11. TypeOK'
  BY <1>0, <1>3, <1>4, <1>6, <1>9, <1>10 DEF TypeOK, JournalOf, ObjectMap
<1> QED BY <1>4, <1>7, <1>8, <1>11 DEF LInv

\* Snapshots and the ends of a revert leave everything but the revisions.
LEMMA KeepsLInv ==
    ASSUME LInv, Keeps
    PROVE  LInv'
<1>1. UNCHANGED <<txVars, leafVars, journal>>
  BY DEF Keeps
<1>2. TypeOK'
  BY <1>1 DEF LInv, TypeOK, TxTypeOK, txVars, leafVars
<1>3. Linked(journal.entries, stateObjects, Visited)' /\ journal' \in JournalOf(LeafEntry)
  BY <1>1 DEF LInv, leafVars, Visited
<1>4. RevisionTypes' /\ RevisionsOrdered'
  <2>1. CASE UNCHANGED <<validRevisions, nextRevisionId, reverting>>
    BY <1>1, <2>1 DEF LInv, RevisionTypes, RevisionsOrdered, Idle
  <2> QED BY <2>1, SnapshotRevisions, RevertRevisions, DoneRevisions DEF LInv, Keeps
<1> QED BY <1>2, <1>3, <1>4 DEF LInv

\* Every step keeps the invariant.
LEMMA LInvStep ==
    ASSUME LInv, [Next]_vars
    PROVE  LInv'
BY LeafStepCases, TxSetterLInv, CallLInv, TxUndoLInv, RevertsLInv, ClearsLInv, KeepsLInv

\* It implies that the objects are found.
LEMMA LInvFound == LInv => LeafInv
<1> SUFFICES ASSUME LInv PROVE LeafInv
  OBVIOUS
<1>1. \A a \in Visited : stateObjects[a] # Nil
  BY DEF LInv, Linked, Visitable
<1>2. ASSUME Undoing, LastEntry.kind \in {"balance", "nonce", "code", "storage"}
      PROVE  Live(stateObjects, LastEntry.account)
  <2>1. /\ LastEntry \in LeafEntry /\ Len(journal.entries) \in 1..Len(journal.entries)
        /\ LastEntry = journal.entries[Len(journal.entries)]
    BY <1>2, LastLeafEntry DEF LInv
  <2>2. LastEntry.kind \in AccountKinds
    BY <1>2 DEF AccountKinds, FieldKinds
  <2>3. LastEntry.account \in Addr
    BY <2>1, <2>2, LeafEntryFields
  <2> QED BY <2>1, <2>2, <2>3 DEF LInv, Linked, EntriesLive, Concerns
<1> QED BY <1>1, <1>2 DEF LInv, LeafInv, ObjectsFound, Visited

(***************************************************************************)
(* The StateDB of direct_by_leaf always finds its objects: Copy finds one  *)
(* for every pending and every dirty address, and each revert method finds *)
(* the object its entry is about, whatever queries have failed, and with   *)
(* every interleaving of calls, snapshots, reverts, Finalise and Copy.     *)
(***************************************************************************)
THEOREM LeafAlwaysFound == Spec => []LeafInv
<1>1. LInv /\ [Next]_vars => LInv'
  BY LInvStep
<1> QED BY <1>1, LInvInit, LInvFound, PTL DEF Spec

-----------------------------------------------------------------------------
(* What a caller sees of an account, with the accounts that have fake      *)
(* storage masked: SetStorage is not journaled, so nothing is claimed of   *)
(* their views.                                                            *)

Fake == [fake |-> TRUE, view |-> Nil]

Plain(v) == [fake |-> FALSE, view |-> v]

LeafWhole(b, n, c, s, st, cm) ==
    [balance |-> b, nonce |-> n, code |-> c, suicided |-> s, state |-> st, committed |-> cm]

StateMap(o, a) == [k \in Key |-> StateOf(o, a, k, TRUE)]

CommittedMap(o, a) == [k \in Key |-> CommittedOf(o, a, k, TRUE)]

\* The mask of object o, or of no object, of account a.
Mask(o, a) ==
    IF o = Nil
    THEN Plain(IF database[a] = Nil THEN Nil ELSE LeafView(newLeafObject(database[a]), a))
    ELSE IF o.deleted THEN Plain(Nil)
    ELSE IF o.fakeStorage # Nil THEN Fake
    ELSE Plain(LeafView(o, a))

Masks == [o \in LeafObject \cup {Nil} |-> [a \in Addr |-> Mask(o, a)]]

\* The view before the change that entry e records, from the view v after it.
UndoneView(e, v) ==
    LeafWhole(
        IF e.kind = "suicide" THEN e.prevbalance ELSE IF e.kind = "balance" THEN e.prev ELSE v.balance,
        IF e.kind = "nonce" THEN e.prev ELSE v.nonce,
        IF e.kind = "code" THEN e.prev ELSE v.code,
        IF e.kind = "suicide" THEN e.prev ELSE v.suicided,
        IF e.kind = "storage" THEN [v.state EXCEPT ![e.key] = e.prevalue] ELSE v.state,
        v.committed)

UndoneField(e, x) == IF x.fake THEN x ELSE Plain(UndoneView(e, x.view))

\* The fields of a view.
LEMMA LeafViewParts ==
    ASSUME NEW o, NEW a
    PROVE  LeafView(o, a) = LeafWhole(o.balance, o.nonce, o.code, o.suicided,
                                      StateMap(o, a), CommittedMap(o, a))
BY DEF LeafView, LeafWhole, StateMap, CommittedMap

\* The fields of the view before an entry.
LEMMA UndoneParts ==
    ASSUME NEW e, NEW b, NEW n, NEW c, NEW s, NEW st, NEW cm
    PROVE  UndoneView(e, LeafWhole(b, n, c, s, st, cm)) =
             LeafWhole(
                IF e.kind = "suicide" THEN e.prevbalance ELSE IF e.kind = "balance" THEN e.prev ELSE b,
                IF e.kind = "nonce" THEN e.prev ELSE n,
                IF e.kind = "code" THEN e.prev ELSE c,
                IF e.kind = "suicide" THEN e.prev ELSE s,
                IF e.kind = "storage" THEN [st EXCEPT ![e.key] = e.prevalue] ELSE st,
                cm)
<1> DEFINE v == LeafWhole(b, n, c, s, st, cm)
<1>1. /\ v.balance = b /\ v.nonce = n /\ v.code = c /\ v.suicided = s
      /\ v.state = st /\ v.committed = cm
  BY DEF LeafWhole
<1> HIDE DEF v
<1>2. UndoneView(e, v) =
             LeafWhole(
                IF e.kind = "suicide" THEN e.prevbalance ELSE IF e.kind = "balance" THEN e.prev ELSE b,
                IF e.kind = "nonce" THEN e.prev ELSE n,
                IF e.kind = "code" THEN e.prev ELSE c,
                IF e.kind = "suicide" THEN e.prev ELSE s,
                IF e.kind = "storage" THEN [st EXCEPT ![e.key] = e.prevalue] ELSE st,
                cm)
  BY <1>1 DEF UndoneView
<1> QED BY <1>2 DEF v

\* Objects with the same storage show the same slots.
LEMMA SameSlots ==
    ASSUME NEW o, NEW p, NEW a, o.fakeStorage = p.fakeStorage,
           o.originStorage = p.originStorage, o.dirtyStorage = p.dirtyStorage
    PROVE  StateMap(o, a) = StateMap(p, a) /\ CommittedMap(o, a) = CommittedMap(p, a)
<1>1. \A k \in Key : /\ CommittedOf(o, a, k, TRUE) = CommittedOf(p, a, k, TRUE)
                     /\ StateOf(o, a, k, TRUE) = StateOf(p, a, k, TRUE)
  BY DEF CommittedOf, StateOf
<1> QED BY <1>1 DEF StateMap, CommittedMap

\* A slot that is read and cached shows the same.
LEMMA CachedSlots ==
    ASSUME database \in RowMap, NEW o \in LeafObject, NEW a \in Addr, NEW k \in Key, Queries(o, k)
    PROVE  LET c == WithSlot(o, a, k)
           IN StateMap(c, a) = StateMap(o, a) /\ CommittedMap(c, a) = CommittedMap(o, a)
<1> DEFINE c == WithSlot(o, a, k)
<1>1. /\ c.originStorage = [o.originStorage EXCEPT ![k] = StorageValue(a, k)]
      /\ c.dirtyStorage = o.dirtyStorage /\ c.fakeStorage = o.fakeStorage
  BY WithSlotFields
<1>2. o.fakeStorage = Nil /\ o.originStorage[k] = Nil /\ o.originStorage \in Cache
  BY DEF Queries, LeafObject
<1>3. StorageValue(a, k) # Nil
  BY StorageValueType, ConstantsAssumption
<1> HIDE DEF c
<1>4. /\ c.originStorage[k] = StorageValue(a, k)
      /\ \A h \in Key : h # k => c.originStorage[h] = o.originStorage[h]
  BY <1>1, <1>2 DEF Cache
<1>5. ASSUME NEW h \in Key
      PROVE  /\ CommittedOf(c, a, h, TRUE) = CommittedOf(o, a, h, TRUE)
             /\ StateOf(c, a, h, TRUE) = StateOf(o, a, h, TRUE)
  <2>1. CommittedOf(c, a, h, TRUE) = CommittedOf(o, a, h, TRUE)
    <3>1. CASE h = k
      BY <1>1, <1>2, <1>3, <1>4, <3>1 DEF CommittedOf
    <3>2. CASE h # k
      BY <1>1, <1>4, <3>2 DEF CommittedOf
    <3> QED BY <3>1, <3>2
  <2> QED BY <1>1, <2>1 DEF StateOf
<1> QED BY <1>5 DEF StateMap, CommittedMap, c

\* A slot that is written shows the value, the others what they did.
LEMMA WrittenSlots ==
    ASSUME NEW o \in LeafObject, NEW a \in Addr, NEW k \in Key, NEW v \in Word,
           o.fakeStorage = Nil
    PROVE  LET c == WithWrite(o, k, v)
           IN /\ StateMap(c, a) = [StateMap(o, a) EXCEPT ![k] = v]
              /\ CommittedMap(c, a) = CommittedMap(o, a)
<1> DEFINE c == WithWrite(o, k, v)
           m == [o.dirtyStorage EXCEPT ![k] = v]
<1>1. c = [o EXCEPT !.dirtyStorage = m]
  BY DEF WithWrite
<1>2. o.dirtyStorage \in Cache /\ v # Nil
  BY ConstantsAssumption DEF LeafObject
<1>3. m[k] = v /\ \A h \in Key : h # k => m[h] = o.dirtyStorage[h]
  BY <1>2 DEF Cache
<1> HIDE DEF m
<1>4. c.dirtyStorage = m /\ c.fakeStorage = o.fakeStorage /\ c.originStorage = o.originStorage
  BY <1>1 DEF LeafObject
<1> HIDE DEF c
<1>5. \A h \in Key : CommittedOf(c, a, h, TRUE) = CommittedOf(o, a, h, TRUE)
  BY <1>4 DEF CommittedOf
<1>6. \A h \in Key : StateOf(c, a, h, TRUE) = IF h = k THEN v ELSE StateOf(o, a, h, TRUE)
  BY <1>2, <1>3, <1>4, <1>5 DEF StateOf
<1>7. StateMap(c, a) = [StateMap(o, a) EXCEPT ![k] = v]
  BY <1>6 DEF StateMap
<1>8. CommittedMap(c, a) = CommittedMap(o, a)
  BY <1>5 DEF CommittedMap
<1> QED BY <1>7, <1>8 DEF c

\* The entry of a change leads back to the view before it.
LEMMA RecordsView ==
    ASSUME NEW p \in LeafObject, NEW a \in Addr, NEW e \in LeafEntry, NEW o \in LeafObject,
           Records(p, a, e, o, FALSE), p.fakeStorage = Nil
    PROVE  UndoneView(e, LeafView(o, a)) = LeafView(p, a)
<1> DEFINE W == LeafWhole(o.balance, o.nonce, o.code, o.suicided, StateMap(o, a), CommittedMap(o, a))
<1>1. LeafView(o, a) = W
      /\ LeafView(p, a) = LeafWhole(p.balance, p.nonce, p.code, p.suicided,
                                    StateMap(p, a), CommittedMap(p, a))
  BY LeafViewParts
<1>2. UndoneView(e, W) =
         LeafWhole(
            IF e.kind = "suicide" THEN e.prevbalance
            ELSE IF e.kind = "balance" THEN e.prev ELSE o.balance,
            IF e.kind = "nonce" THEN e.prev ELSE o.nonce,
            IF e.kind = "code" THEN e.prev ELSE o.code,
            IF e.kind = "suicide" THEN e.prev ELSE o.suicided,
            IF e.kind = "storage" THEN [StateMap(o, a) EXCEPT ![e.key] = e.prevalue]
            ELSE StateMap(o, a),
            CommittedMap(o, a))
  BY UndoneParts
<1> HIDE DEF W
<1>3. CASE /\ e.kind = "suicide" /\ e.prev = p.suicided /\ e.prevbalance = p.balance
           /\ o = [p EXCEPT !.suicided = TRUE, !.balance = 0]
  <2>1. /\ o.nonce = p.nonce /\ o.code = p.code /\ o.fakeStorage = p.fakeStorage
        /\ o.originStorage = p.originStorage /\ o.dirtyStorage = p.dirtyStorage
    BY <1>3 DEF LeafObject
  <2>2. StateMap(o, a) = StateMap(p, a) /\ CommittedMap(o, a) = CommittedMap(p, a)
    BY <2>1, SameSlots
  <2> QED BY <1>1, <1>2, <1>3, <2>1, <2>2
<1>4. ASSUME e.kind = "balance", e.prev = p.balance, NEW b \in Int, o = [p EXCEPT !.balance = b]
      PROVE  UndoneView(e, LeafView(o, a)) = LeafView(p, a)
  <2>1. /\ o.nonce = p.nonce /\ o.code = p.code /\ o.suicided = p.suicided
        /\ o.fakeStorage = p.fakeStorage
        /\ o.originStorage = p.originStorage /\ o.dirtyStorage = p.dirtyStorage
    BY <1>4 DEF LeafObject
  <2>2. StateMap(o, a) = StateMap(p, a) /\ CommittedMap(o, a) = CommittedMap(p, a)
    BY <2>1, SameSlots
  <2> QED BY <1>1, <1>2, <1>4, <2>1, <2>2
<1>5. ASSUME e.kind = "nonce", e.prev = p.nonce, NEW n \in Nat, o = [p EXCEPT !.nonce = n]
      PROVE  UndoneView(e, LeafView(o, a)) = LeafView(p, a)
  <2>1. /\ o.balance = p.balance /\ o.code = p.code /\ o.suicided = p.suicided
        /\ o.fakeStorage = p.fakeStorage
        /\ o.originStorage = p.originStorage /\ o.dirtyStorage = p.dirtyStorage
    BY <1>5 DEF LeafObject
  <2>2. StateMap(o, a) = StateMap(p, a) /\ CommittedMap(o, a) = CommittedMap(p, a)
    BY <2>1, SameSlots
  <2> QED BY <1>1, <1>2, <1>5, <2>1, <2>2
<1>6. ASSUME e.kind = "code", e.prev = p.code, NEW c \in Code, o = [p EXCEPT !.code = c]
      PROVE  UndoneView(e, LeafView(o, a)) = LeafView(p, a)
  <2>1. /\ o.balance = p.balance /\ o.nonce = p.nonce /\ o.suicided = p.suicided
        /\ o.fakeStorage = p.fakeStorage
        /\ o.originStorage = p.originStorage /\ o.dirtyStorage = p.dirtyStorage
    BY <1>6 DEF LeafObject
  <2>2. StateMap(o, a) = StateMap(p, a) /\ CommittedMap(o, a) = CommittedMap(p, a)
    BY <2>1, SameSlots
  <2> QED BY <1>1, <1>2, <1>6, <2>1, <2>2
<1>7. ASSUME e.kind = "storage", e.prevalue = StateOf(p, a, e.key, TRUE),
             NEW v \in Word, o = WithWrite(p, e.key, v)
      PROVE  UndoneView(e, LeafView(o, a)) = LeafView(p, a)
  <2>1. e.key \in Key
    BY <1>7, LeafEntryFields
  <2>2. StateMap(o, a) = [StateMap(p, a) EXCEPT ![e.key] = v]
        /\ CommittedMap(o, a) = CommittedMap(p, a)
    BY <1>7, <2>1, WrittenSlots
  <2>3. [StateMap(o, a) EXCEPT ![e.key] = e.prevalue] = StateMap(p, a)
    BY <1>7, <2>1, <2>2 DEF StateMap
  <2>4. o.balance = p.balance /\ o.nonce = p.nonce /\ o.code = p.code /\ o.suicided = p.suicided
    BY <1>7 DEF WithWrite, LeafObject
  <2> QED BY <1>1, <1>2, <1>7, <2>2, <2>3, <2>4
<1> QED BY <1>3, <1>4, <1>5, <1>6, <1>7 DEF Records

\* So does its revert method.
LEMMA RevertedView ==
    ASSUME NEW p \in LeafObject, NEW a \in Addr, NEW e \in LeafEntry, e.kind \in FieldKinds,
           p.fakeStorage = Nil
    PROVE  LeafView(Reverted(e, p), a) = UndoneView(e, LeafView(p, a))
<1> DEFINE o == Reverted(e, p)
           W == LeafWhole(p.balance, p.nonce, p.code, p.suicided, StateMap(p, a), CommittedMap(p, a))
<1>1. LeafView(p, a) = W
      /\ LeafView(o, a) = LeafWhole(o.balance, o.nonce, o.code, o.suicided,
                                    StateMap(o, a), CommittedMap(o, a))
  BY LeafViewParts
<1>2. UndoneView(e, W) =
         LeafWhole(
            IF e.kind = "suicide" THEN e.prevbalance
            ELSE IF e.kind = "balance" THEN e.prev ELSE p.balance,
            IF e.kind = "nonce" THEN e.prev ELSE p.nonce,
            IF e.kind = "code" THEN e.prev ELSE p.code,
            IF e.kind = "suicide" THEN e.prev ELSE p.suicided,
            IF e.kind = "storage" THEN [StateMap(p, a) EXCEPT ![e.key] = e.prevalue]
            ELSE StateMap(p, a),
            CommittedMap(p, a))
  BY UndoneParts
<1>o. /\ e.kind = "suicide" => o = [p EXCEPT !.suicided = e.prev, !.balance = e.prevbalance]
      /\ e.kind = "balance" => o = [p EXCEPT !.balance = e.prev]
      /\ e.kind = "nonce" => o = [p EXCEPT !.nonce = e.prev]
      /\ e.kind = "code" => o = [p EXCEPT !.code = e.prev]
      /\ e.kind = "storage" => o = WithWrite(p, e.key, e.prevalue)
  BY DEF Reverted
<1> HIDE DEF W, o
<1>3. CASE e.kind = "suicide"
  <2>1. /\ o.nonce = p.nonce /\ o.code = p.code /\ o.fakeStorage = p.fakeStorage
        /\ o.originStorage = p.originStorage /\ o.dirtyStorage = p.dirtyStorage
        /\ o.suicided = e.prev /\ o.balance = e.prevbalance
    BY <1>3, <1>o DEF LeafObject
  <2>2. StateMap(o, a) = StateMap(p, a) /\ CommittedMap(o, a) = CommittedMap(p, a)
    BY <2>1, SameSlots
  <2> QED BY <1>1, <1>2, <1>3, <2>1, <2>2 DEF o
<1>4. CASE e.kind = "balance"
  <2>1. /\ o.nonce = p.nonce /\ o.code = p.code /\ o.suicided = p.suicided
        /\ o.fakeStorage = p.fakeStorage /\ o.balance = e.prev
        /\ o.originStorage = p.originStorage /\ o.dirtyStorage = p.dirtyStorage
    BY <1>4, <1>o DEF LeafObject
  <2>2. StateMap(o, a) = StateMap(p, a) /\ CommittedMap(o, a) = CommittedMap(p, a)
    BY <2>1, SameSlots
  <2> QED BY <1>1, <1>2, <1>4, <2>1, <2>2 DEF o
<1>5. CASE e.kind = "nonce"
  <2>1. /\ o.balance = p.balance /\ o.code = p.code /\ o.suicided = p.suicided
        /\ o.fakeStorage = p.fakeStorage /\ o.nonce = e.prev
        /\ o.originStorage = p.originStorage /\ o.dirtyStorage = p.dirtyStorage
    BY <1>5, <1>o DEF LeafObject
  <2>2. StateMap(o, a) = StateMap(p, a) /\ CommittedMap(o, a) = CommittedMap(p, a)
    BY <2>1, SameSlots
  <2> QED BY <1>1, <1>2, <1>5, <2>1, <2>2 DEF o
<1>6. CASE e.kind = "code"
  <2>1. /\ o.balance = p.balance /\ o.nonce = p.nonce /\ o.suicided = p.suicided
        /\ o.fakeStorage = p.fakeStorage /\ o.code = e.prev
        /\ o.originStorage = p.originStorage /\ o.dirtyStorage = p.dirtyStorage
    BY <1>6, <1>o DEF LeafObject
  <2>2. StateMap(o, a) = StateMap(p, a) /\ CommittedMap(o, a) = CommittedMap(p, a)
    BY <2>1, SameSlots
  <2> QED BY <1>1, <1>2, <1>6, <2>1, <2>2 DEF o
<1>7. CASE e.kind = "storage"
  <2>1. e.key \in Key /\ e.prevalue \in Word /\ o = WithWrite(p, e.key, e.prevalue)
    BY <1>7, <1>o, LeafEntryFields
  <2>2. StateMap(o, a) = [StateMap(p, a) EXCEPT ![e.key] = e.prevalue]
        /\ CommittedMap(o, a) = CommittedMap(p, a)
    BY <2>1, WrittenSlots
  <2>3. o.balance = p.balance /\ o.nonce = p.nonce /\ o.code = p.code /\ o.suicided = p.suicided
    BY <2>1 DEF WithWrite, LeafObject
  <2> QED BY <1>1, <1>2, <1>7, <2>2, <2>3 DEF o
<1> QED BY <1>3, <1>4, <1>5, <1>6, <1>7 DEF FieldKinds

\* The masks of objects.
LEMMA MaskOf ==
    ASSUME NEW o \in LeafObject \cup {Nil}, NEW a \in Addr
    PROVE  /\ Masks[o][a] = Mask(o, a)
           /\ o # Nil /\ o.deleted => Masks[o][a] = Plain(Nil)
           /\ o # Nil /\ ~o.deleted /\ o.fakeStorage # Nil => Masks[o][a] = Fake
           /\ o # Nil /\ ~o.deleted /\ o.fakeStorage = Nil => Masks[o][a] = Plain(LeafView(o, a))
           /\ o = Nil /\ database[a] = Nil => Masks[o][a] = Plain(Nil)
           /\ o = Nil /\ database[a] # Nil =>
                 Masks[o][a] = Plain(LeafView(newLeafObject(database[a]), a))
<1>1. Masks[o][a] = Mask(o, a)
  BY DEF Masks
<1> QED BY <1>1 DEF Mask

\* Two masks.
LEMMA MaskFields ==
    /\ Fake.fake = TRUE /\ \A v : Plain(v).fake = FALSE /\ Plain(v).view = v
    /\ \A e, v : UndoneField(e, Plain(v)) = Plain(UndoneView(e, v))
    /\ \A e : UndoneField(e, Fake) = Fake
<1>1. Fake.fake = TRUE /\ \A v : Plain(v).fake = FALSE /\ Plain(v).view = v
  BY DEF Fake, Plain
<1> QED BY <1>1 DEF UndoneField

\* What loading, caching, changing and reverting do to the mask.
LEMMA MaskSteps ==
    ASSUME database \in RowMap, NEW a \in Addr
    PROVE  /\ database[a] # Nil => Masks[newLeafObject(database[a])][a] = Masks[Nil][a]
           /\ \A p \in LeafObject, k \in Key :
                 ~p.deleted /\ Queries(p, k) => Masks[WithSlot(p, a, k)][a] = Masks[p][a]
           /\ \A p, o \in LeafObject, e \in LeafEntry :
                 ~p.deleted /\ Records(p, a, e, o, FALSE) =>
                    UndoneField(e, Masks[o][a]) = Masks[p][a]
           /\ \A p \in LeafObject, e \in LeafEntry :
                 ~p.deleted /\ e.kind \in FieldKinds =>
                    Masks[Reverted(e, p)][a] = UndoneField(e, Masks[p][a])
<1>n. Nil \notin LeafObject /\ Nil \in LeafObject \cup {Nil}
  BY LeafAssumption
<1>1. ASSUME database[a] # Nil
      PROVE  Masks[newLeafObject(database[a])][a] = Masks[Nil][a]
  <2> DEFINE o == newLeafObject(database[a])
  <2>1. o \in LeafObject /\ ~o.deleted /\ o.fakeStorage = Nil
    BY <1>1, NewLeafObjects DEF RowMap
  <2>2. Masks[Nil][a] = Plain(LeafView(o, a))
    BY <1>1, <1>n, MaskOf
  <2> HIDE DEF o
  <2>3. Masks[o][a] = Plain(LeafView(o, a))
    BY <1>n, <2>1, MaskOf
  <2> QED BY <2>2, <2>3 DEF o
<1>2. ASSUME NEW p \in LeafObject, NEW k \in Key, ~p.deleted, Queries(p, k)
      PROVE  Masks[WithSlot(p, a, k)][a] = Masks[p][a]
  <2> DEFINE c == WithSlot(p, a, k)
  <2>1. /\ c \in LeafObject /\ c.fakeStorage = p.fakeStorage /\ c.deleted = p.deleted
        /\ c.nonce = p.nonce /\ c.balance = p.balance /\ c.code = p.code
        /\ c.suicided = p.suicided
    BY WithSlotFields
  <2>2. StateMap(c, a) = StateMap(p, a) /\ CommittedMap(c, a) = CommittedMap(p, a)
    BY <1>2, CachedSlots
  <2>3. p.fakeStorage = Nil
    BY <1>2 DEF Queries
  <2> HIDE DEF c
  <2>4. LeafView(c, a) = LeafView(p, a)
    BY <2>1, <2>2, LeafViewParts
  <2>5. Masks[c][a] = Plain(LeafView(c, a)) /\ Masks[p][a] = Plain(LeafView(p, a))
    BY <1>2, <1>n, <2>1, <2>3, MaskOf
  <2> QED BY <2>4, <2>5 DEF c
<1>3. ASSUME NEW p \in LeafObject, NEW o \in LeafObject, NEW e \in LeafEntry, ~p.deleted,
             Records(p, a, e, o, FALSE)
      PROVE  UndoneField(e, Masks[o][a]) = Masks[p][a]
  <2>1. o.deleted = p.deleted /\ o.fakeStorage = p.fakeStorage
    BY <1>3, RecordsLive
  <2>2. CASE p.fakeStorage # Nil
    <3>1. Masks[o][a] = Fake /\ Masks[p][a] = Fake
      BY <1>3, <1>n, <2>1, <2>2, MaskOf
    <3> QED BY <3>1, MaskFields
  <2>3. CASE p.fakeStorage = Nil
    <3>1. Masks[o][a] = Plain(LeafView(o, a)) /\ Masks[p][a] = Plain(LeafView(p, a))
      BY <1>3, <1>n, <2>1, <2>3, MaskOf
    <3>2. UndoneView(e, LeafView(o, a)) = LeafView(p, a)
      BY <1>3, <2>3, RecordsView
    <3> QED BY <3>1, <3>2, MaskFields
  <2> QED BY <2>2, <2>3
<1>4. ASSUME NEW p \in LeafObject, NEW e \in LeafEntry, ~p.deleted, e.kind \in FieldKinds
      PROVE  Masks[Reverted(e, p)][a] = UndoneField(e, Masks[p][a])
  <2> DEFINE o == Reverted(e, p)
  <2>1. e.kind \in AccountKinds /\ ~Births(e)
    BY <1>4 DEF AccountKinds, FieldKinds, Births
  <2>2. o \in LeafObject /\ ~o.deleted /\ o.fakeStorage = p.fakeStorage
    BY <1>4, <2>1, RevertedObject
  <2> HIDE DEF o
  <2>3. CASE p.fakeStorage # Nil
    <3>1. Masks[o][a] = Fake /\ Masks[p][a] = Fake
      BY <1>4, <1>n, <2>2, <2>3, MaskOf
    <3> QED BY <3>1, MaskFields DEF o
  <2>4. CASE p.fakeStorage = Nil
    <3>1. Masks[o][a] = Plain(LeafView(o, a)) /\ Masks[p][a] = Plain(LeafView(p, a))
      BY <1>4, <1>n, <2>2, <2>4, MaskOf
    <3>2. LeafView(o, a) = UndoneView(e, LeafView(p, a))
      BY <1>4, <2>4, RevertedView DEF o
    <3> QED BY <3>1, <3>2, MaskFields DEF o
  <2> QED BY <2>3, <2>4
<1> QED BY <1>1, <1>2, <1>3, <1>4

-----------------------------------------------------------------------------
(* The journal tells how each account looked.  A[n][a] is the mask of      *)
(* account a when the journal had n entries; V gives the masks of objects. *)

Replaces(e, a) == Concerns(e, a) /\ e.kind \in {"createObject", "resetObject"}

\* The mask before entry e, from the mask x after it.
UndoneMask(V, e, a, x) ==
    IF ~Concerns(e, a) THEN x
    ELSE IF e.kind = "createObject" THEN Plain(Nil)
    ELSE IF e.kind = "resetObject" THEN V[e.prev][a]
    ELSE IF e.kind = "touch" THEN x
    ELSE UndoneField(e, x)

Chain(A, es, objs, V) ==
    \A a \in Addr :
        /\ A[Len(es)][a] = V[objs[a]][a]
        /\ \A n \in 1..Len(es) : A[n - 1][a] = UndoneMask(V, es[n], a, A[n][a])

\* Before its first entry an account outside P looked as the database has it.
Ground(A, es, P, V) ==
    \A n \in 0..Len(es), a \in Addr \ P :
        (\A i \in 1..n : ~Concerns(es[i], a)) => A[n][a] \in {V[Nil][a], Fake}

\* Accounts that were created had no row.
CreatesAbsent(es, V) ==
    \A i \in 1..Len(es) : es[i].kind = "createObject" => V[Nil][es[i].account] = Plain(Nil)

Story(A, es, objs, P, V) ==
    /\ Chain(A, es, objs, V)
    /\ Ground(A, es, P, V)
    /\ CreatesAbsent(es, V)

\* B says the same as A of the first n entries, or masks more.
Follows(A, B, n) == \A m \in 0..n, a \in Addr : B[m][a] = A[m][a] \/ B[m][a] = Fake

\* Objects with the same masks have the same story.
LEMMA StoryKeep ==
    ASSUME NEW A, NEW es, NEW objs, NEW objs2, NEW P, NEW V, Story(A, es, objs, P, V),
           \A a \in Addr : V[objs2[a]][a] = V[objs[a]][a]
    PROVE  Story(A, es, objs2, P, V) /\ Follows(A, A, Len(es))
<1>1. Chain(A, es, objs2, V)
  BY DEF Story, Chain
<1> QED BY <1>1 DEF Story, Follows

\* An entry that tells of its change continues the story.
LEMMA StoryAppend ==
    ASSUME NEW A, NEW es \in Seq(LeafEntry), NEW e \in LeafEntry, NEW objs, NEW objs2, NEW P, NEW V,
           Story(A, es, objs, P, V),
           \A a \in Addr : UndoneMask(V, e, a, V[objs2[a]][a]) = V[objs[a]][a],
           e.kind = "createObject" => V[Nil][e.account] = Plain(Nil)
    PROVE  \E B : Story(B, Append(es, e), objs2, P, V) /\ Follows(A, B, Len(es))
<1> DEFINE l  == Len(es)
           fs == Append(es, e)
           B  == [n \in Nat |-> [a \in Addr |-> IF n = l + 1 THEN V[objs2[a]][a] ELSE A[n][a]]]
<1>1. /\ l \in Nat /\ Len(fs) = l + 1 /\ fs[l + 1] = e
      /\ \A i \in 1..l : fs[i] = es[i]
  OBVIOUS
<1>2. \A n \in Nat, a \in Addr : B[n][a] = IF n = l + 1 THEN V[objs2[a]][a] ELSE A[n][a]
  OBVIOUS
<1> HIDE DEF B, fs
<1>3. Chain(B, fs, objs2, V)
  <2> SUFFICES ASSUME NEW a \in Addr
               PROVE  /\ B[Len(fs)][a] = V[objs2[a]][a]
                      /\ \A n \in 1..Len(fs) : B[n - 1][a] = UndoneMask(V, fs[n], a, B[n][a])
    BY DEF Chain
  <2>1. /\ A[l][a] = V[objs[a]][a]
        /\ \A n \in 1..l : A[n - 1][a] = UndoneMask(V, es[n], a, A[n][a])
    BY DEF Story, Chain
  <2>2. B[l + 1][a] = V[objs2[a]][a] /\ l + 1 \in Nat
    BY <1>1, <1>2
  <2>3. ASSUME NEW n \in 1..Len(fs) PROVE B[n - 1][a] = UndoneMask(V, fs[n], a, B[n][a])
    <3>1. n \in Nat /\ n - 1 \in Nat /\ n - 1 # l + 1
      BY <1>1
    <3>2. B[n - 1][a] = A[n - 1][a]
      BY <1>2, <3>1
    <3>3. CASE n = l + 1
      BY <1>1, <2>1, <2>2, <3>2, <3>3
    <3>4. CASE n # l + 1
      <4>1. n \in 1..l
        BY <1>1, <3>4
      <4>2. B[n][a] = A[n][a] /\ fs[n] = es[n]
        BY <1>1, <1>2, <3>1, <3>4, <4>1
      <4> QED BY <2>1, <3>2, <4>1, <4>2
    <3> QED BY <3>3, <3>4
  <2> QED BY <1>1, <2>2, <2>3
<1>4. Ground(B, fs, P, V)
  <2> SUFFICES ASSUME NEW n \in 0..Len(fs), NEW a \in Addr \ P,
                      \A i \in 1..n : ~Concerns(fs[i], a)
               PROVE  B[n][a] \in {V[Nil][a], Fake}
    BY DEF Ground
  <2>1. CASE n = l + 1
    <3>1. ~Concerns(e, a) /\ \A i \in 1..l : ~Concerns(es[i], a)
      BY <1>1, <2>1
    <3>2. V[objs2[a]][a] = V[objs[a]][a]
      BY <3>1 DEF UndoneMask
    <3>3. A[l][a] = V[objs[a]][a] /\ A[l][a] \in {V[Nil][a], Fake}
      BY <1>1, <3>1 DEF Story, Chain, Ground
    <3> QED BY <1>1, <1>2, <2>1, <3>2, <3>3
  <2>2. CASE n # l + 1
    <3>1. n \in 0..l /\ \A i \in 1..n : ~Concerns(es[i], a)
      BY <1>1, <2>2
    <3>2. A[n][a] \in {V[Nil][a], Fake}
      BY <3>1 DEF Story, Ground
    <3> QED BY <1>1, <1>2, <2>2, <3>1, <3>2
  <2> QED BY <2>1, <2>2
<1>5. CreatesAbsent(fs, V)
  <2> SUFFICES ASSUME NEW i \in 1..Len(fs), fs[i].kind = "createObject"
               PROVE  V[Nil][fs[i].account] = Plain(Nil)
    BY DEF CreatesAbsent
  <2>1. CASE i = l + 1
    BY <1>1, <2>1
  <2>2. CASE i # l + 1
    BY <1>1, <2>2 DEF Story, CreatesAbsent
  <2> QED BY <2>1, <2>2
<1>6. Follows(A, B, l)
  BY <1>1, <1>2 DEF Follows
<1>7. Story(B, fs, objs2, P, V) /\ Follows(A, B, Len(es))
  BY <1>3, <1>4, <1>5, <1>6 DEF Story
<1> QED BY <1>7 DEF fs

\* Fake storage masks the account, back to where its object was put in place.
LEMMA StoryFake ==
    ASSUME NEW A, NEW es \in Seq(LeafEntry), NEW objs, NEW objs2, NEW P, NEW V, NEW a \in Addr,
           Story(A, es, objs, P, V), V[objs2[a]][a] = Fake,
           \A b \in Addr : b # a => V[objs2[b]][b] = V[objs[b]][b]
    PROVE  \E B : Story(B, es, objs2, P, V) /\ Follows(A, B, Len(es))
<1> DEFINE l == Len(es)
           Masked(n) == \A i \in (n + 1)..l : ~Replaces(es[i], a)
           B == [n \in Nat |-> [b \in Addr |-> IF b = a /\ Masked(n) THEN Fake ELSE A[n][b]]]
<1>1. l \in Nat
  OBVIOUS
<1>2. \A n \in Nat, b \in Addr : B[n][b] = IF b = a /\ Masked(n) THEN Fake ELSE A[n][b]
  OBVIOUS
<1> HIDE DEF B
<1>3. Chain(B, es, objs2, V)
  <2> SUFFICES ASSUME NEW b \in Addr
               PROVE  /\ B[l][b] = V[objs2[b]][b]
                      /\ \A n \in 1..l : B[n - 1][b] = UndoneMask(V, es[n], b, B[n][b])
    BY DEF Chain
  <2>0. /\ A[l][b] = V[objs[b]][b]
        /\ \A n \in 1..l : A[n - 1][b] = UndoneMask(V, es[n], b, A[n][b])
    BY DEF Story, Chain
  <2>1. CASE b # a
    <3>1. \A n \in Nat : B[n][b] = A[n][b]
      BY <1>2, <2>1
    <3>2. \A n \in 1..l : n \in Nat /\ n - 1 \in Nat
      BY <1>1
    <3> QED BY <1>1, <2>0, <2>1, <3>1, <3>2
  <2>2. CASE b = a
    <3>1. Masked(l)
      BY <1>1
    <3>2. B[l][a] = Fake
      BY <1>1, <1>2, <3>1
    <3>3. ASSUME NEW n \in 1..l PROVE B[n - 1][a] = UndoneMask(V, es[n], a, B[n][a])
      <4>1. n \in Nat /\ n - 1 \in Nat
        BY <1>1
      <4>2. A[n - 1][a] = UndoneMask(V, es[n], a, A[n][a])
        BY <2>0, <2>2
      <4>3. Masked(n - 1) <=> Masked(n) /\ ~Replaces(es[n], a)
        BY <1>1, <4>1
      <4> HIDE DEF Masked
      <4>4. CASE Replaces(es[n], a)
        <5>1. B[n - 1][a] = A[n - 1][a]
          BY <1>2, <4>1, <4>3, <4>4
        <5>2. UndoneMask(V, es[n], a, A[n][a]) = UndoneMask(V, es[n], a, B[n][a])
          BY <4>4 DEF Replaces, UndoneMask
        <5> QED BY <4>2, <5>1, <5>2
      <4>5. CASE ~Replaces(es[n], a) /\ Masked(n)
        <5>1. B[n - 1][a] = Fake /\ B[n][a] = Fake
          BY <1>2, <4>1, <4>3, <4>5
        <5>2. UndoneMask(V, es[n], a, Fake) = Fake
          BY <4>5, MaskFields DEF Replaces, UndoneMask
        <5> QED BY <5>1, <5>2
      <4>6. CASE ~Masked(n)
        <5>1. B[n - 1][a] = A[n - 1][a] /\ B[n][a] = A[n][a]
          BY <1>2, <4>1, <4>3, <4>6
        <5> QED BY <4>2, <5>1
      <4> QED BY <4>4, <4>5, <4>6
    <3> QED BY <2>2, <3>2, <3>3
  <2> QED BY <2>1, <2>2
<1> HIDE DEF Masked
<1>4. Ground(B, es, P, V)
  BY <1>1, <1>2 DEF Story, Ground
<1>5. Follows(A, B, l)
  BY <1>1, <1>2 DEF Follows
<1> QED BY <1>3, <1>4, <1>5 DEF Story

\* The story without its last entry.
LEMMA StoryPop ==
    ASSUME NEW A, NEW es \in Seq(LeafEntry), NEW fs \in Seq(LeafEntry), Len(es) = Len(fs) + 1,
           \A i \in 1..Len(fs) : fs[i] = es[i],
           NEW e, e = es[Len(es)],
           NEW objs, NEW objs2, NEW P, NEW V, Story(A, es, objs, P, V),
           \A a \in Addr : V[objs2[a]][a] = UndoneMask(V, e, a, V[objs[a]][a])
    PROVE  Story(A, fs, objs2, P, V) /\ Follows(A, A, Len(fs))
<1>1. Len(fs) \in Nat /\ Len(es) \in 1..Len(es) /\ Len(es) - 1 = Len(fs)
  OBVIOUS
<1>2. Chain(A, fs, objs2, V)
  <2> SUFFICES ASSUME NEW a \in Addr
               PROVE  /\ A[Len(fs)][a] = V[objs2[a]][a]
                      /\ \A n \in 1..Len(fs) : A[n - 1][a] = UndoneMask(V, fs[n], a, A[n][a])
    BY DEF Chain
  <2>1. /\ A[Len(es)][a] = V[objs[a]][a]
        /\ \A n \in 1..Len(es) : A[n - 1][a] = UndoneMask(V, es[n], a, A[n][a])
    BY DEF Story, Chain
  <2>2. A[Len(es) - 1][a] = UndoneMask(V, es[Len(es)], a, A[Len(es)][a])
    BY <1>1, <2>1
  <2>3. \A n \in 1..Len(fs) : n \in 1..Len(es)
    BY <1>1
  <2> QED BY <1>1, <2>1, <2>2, <2>3
<1>3. Ground(A, fs, P, V)
  <2> SUFFICES ASSUME NEW n \in 0..Len(fs), NEW a \in Addr \ P,
                      \A i \in 1..n : ~Concerns(fs[i], a)
               PROVE  A[n][a] \in {V[Nil][a], Fake}
    BY DEF Ground
  <2>1. n \in 0..Len(es) /\ \A i \in 1..n : ~Concerns(es[i], a)
    BY <1>1
  <2> QED BY <2>1 DEF Story, Ground
<1>4. CreatesAbsent(fs, V)
  BY <1>1 DEF Story, CreatesAbsent
<1> QED BY <1>2, <1>3, <1>4 DEF Story, Follows

\* With an empty journal the story begins.
LEMMA StoryBegins ==
    ASSUME NEW objs, NEW P, NEW V,
           \A a \in Addr \ P : V[objs[a]][a] \in {V[Nil][a], Fake}
    PROVE  \E A : Story(A, <<>>, objs, P, V)
<1> DEFINE A == [n \in Nat |-> [a \in Addr |-> V[objs[a]][a]]]
<1>1. Len(<<>>) = 0 /\ 0..Len(<<>>) = {0} /\ 1..Len(<<>>) = {}
  OBVIOUS
<1>2. \A a \in Addr : A[0][a] = V[objs[a]][a]
  OBVIOUS
<1> HIDE DEF A
<1>3. Chain(A, <<>>, objs, V)
  BY <1>1, <1>2 DEF Chain
<1>4. Ground(A, <<>>, P, V)
  BY <1>1, <1>2 DEF Ground
<1>5. CreatesAbsent(<<>>, V)
  BY <1>1 DEF CreatesAbsent
<1> QED BY <1>3, <1>4, <1>5 DEF Story

\* Masking more twice is masking more.
LEMMA FollowsTwice ==
    ASSUME NEW A, NEW B, NEW C, NEW n \in Nat, NEW m \in Nat, n <= m,
           Follows(A, B, n), Follows(B, C, m)
    PROVE  Follows(A, C, n)
<1>1. \A i \in 0..n : i \in 0..m
  OBVIOUS
<1> QED BY <1>1 DEF Follows

\* A primitive step continues the story, unless a query fails.
LEMMA StoryPrimitive ==
    ASSUME database \in RowMap, NEW s \in Threaded, NEW a \in Addr, NEW r, Primitive(s, r, a),
           ~r.failed, NEW P, NEW A, Story(A, s.journal.entries, s.objs, P, Masks)
    PROVE  /\ ~s.failed
           /\ \E B : /\ Story(B, r.journal.entries, r.objs, P, Masks)
                     /\ Follows(A, B, Len(s.journal.entries))
<1> DEFINE es == s.journal.entries
           Goal == \E B : Story(B, r.journal.entries, r.objs, P, Masks) /\ Follows(A, B, Len(es))
           p == s.objs[a]
<1>0. /\ r \in Threaded /\ s.journal \in JournalOf(LeafEntry) /\ es \in Seq(LeafEntry)
      /\ s.objs \in ObjectMap /\ s.failed \in BOOLEAN /\ p \in LeafObject \cup {Nil}
  BY PrimitiveType DEF Threaded, JournalOf, ObjectMap
<1>f. s.failed = FALSE /\ ~Fails(s, r)
  <2>1. ~Fails(s, r)
    BY DEF Fails, Fields
  <2>2. r.failed = s.failed
    BY <2>1 DEF Primitive, Same, Loads, Creates, Resets, Caches, Touches, Changes, Fakes, Fields
  <2> QED BY <1>0, <2>1, <2>2
<1>n. Nil \notin LeafObject
  BY LeafAssumption
<1>j. ASSUME NEW e \in LeafEntry
      PROVE  /\ append(s.journal, e) \in JournalOf(LeafEntry)
             /\ append(s.journal, e).entries = Append(es, e)
  BY <1>0, AppendOf
<1>k. ASSUME NEW o \in LeafObject, r.objs = [s.objs EXCEPT ![a] = o]
      PROVE  /\ r.objs[a] = o
             /\ \A b \in Addr : b # a => r.objs[b] = s.objs[b]
  BY <1>0, <1>k DEF ObjectMap
<1>e. ASSUME NEW o \in LeafObject, r.objs = [s.objs EXCEPT ![a] = o], r.journal = s.journal,
             Masks[o][a] = Masks[p][a]
      PROVE  Goal
  <2>1. \A b \in Addr : Masks[r.objs[b]][b] = Masks[s.objs[b]][b]
    BY <1>e, <1>k
  <2> QED BY <1>e, <2>1, StoryKeep
<1>a. ASSUME NEW e \in LeafEntry, Concerns(e, a), r.journal.entries = Append(es, e),
             UndoneMask(Masks, e, a, Masks[r.objs[a]][a]) = Masks[p][a],
             \A b \in Addr : b # a => r.objs[b] = s.objs[b],
             e.kind = "createObject" => Masks[Nil][a] = Plain(Nil)
      PROVE  Goal
  <2>1. \A b \in Addr : b # a => ~Concerns(e, b)
    BY <1>a DEF Concerns
  <2>2. \A b \in Addr : UndoneMask(Masks, e, b, Masks[r.objs[b]][b]) = Masks[s.objs[b]][b]
    BY <1>a, <2>1 DEF UndoneMask
  <2>3. e.kind = "createObject" => Masks[Nil][e.account] = Plain(Nil)
    BY <1>a DEF Concerns
  <2>4. \E B : Story(B, Append(es, e), r.objs, P, Masks) /\ Follows(A, B, Len(es))
    BY <1>0, <2>2, <2>3, StoryAppend
  <2> QED BY <1>a, <2>4
<1>1. CASE Same(s, r)
  <2>1. \A b \in Addr : Masks[r.objs[b]][b] = Masks[s.objs[b]][b]
    BY <1>1 DEF Same, Fields
  <2> QED BY <1>1, <1>f, <2>1, StoryKeep DEF Same, Fields
<1>2. CASE Loads(s, r, a)
  <2> DEFINE o == newLeafObject(database[a])
  <2>1. o \in LeafObject
    BY <1>2, NewLeafObjects DEF Loads, RowMap
  <2>2. r.objs = [s.objs EXCEPT ![a] = o] /\ r.journal = s.journal /\ p = Nil /\ database[a] # Nil
    BY <1>2 DEF Loads, Fields
  <2>3. Masks[o][a] = Masks[p][a]
    BY <2>2, MaskSteps
  <2> HIDE DEF o
  <2> QED BY <1>e, <1>f, <2>1, <2>2, <2>3
<1>3. CASE Creates(s, r, a)
  <2> DEFINE e == CreateEntry(a)
  <2>1. e \in LeafEntry /\ e.kind = "createObject" /\ Concerns(e, a)
    BY LeafEntryTypes DEF CreateEntry, Concerns, AccountKinds
  <2>2. /\ r.objs = [s.objs EXCEPT ![a] = Fresh(0)] /\ r.journal = append(s.journal, e)
        /\ p = Nil /\ database[a] = Nil
    BY <1>3, <1>f DEF Creates, Fields
  <2>3. Fresh(0) \in LeafObject
    BY NewLeafObjects
  <2>4. Masks[Nil][a] = Plain(Nil)
    BY <2>2, MaskOf
  <2> HIDE DEF e
  <2>5. \A b \in Addr : b # a => r.objs[b] = s.objs[b]
    BY <1>k, <2>2, <2>3
  <2>6. UndoneMask(Masks, e, a, Masks[r.objs[a]][a]) = Masks[p][a]
    BY <2>1, <2>2, <2>4 DEF UndoneMask
  <2>7. r.journal.entries = Append(es, e)
    BY <1>j, <2>1, <2>2
  <2> QED BY <1>a, <1>f, <2>1, <2>4, <2>5, <2>6, <2>7
<1>4. CASE Resets(s, r, a)
  <2>1. PICK b \in Int, d \in BOOLEAN :
           Fields(r, [s.objs EXCEPT ![a] = Fresh(b)],
                  append(s.journal, ResetEntry(s.objs[a], a, d)), s.failed)
    BY <1>4 DEF Resets
  <2> DEFINE e == ResetEntry(p, a, d)
  <2>2. p \in LeafObject
    BY <1>0, <1>4 DEF Resets
  <2>3. e \in LeafEntry /\ e.kind = "resetObject" /\ e.prev = p /\ Concerns(e, a)
    BY <2>2, LeafEntryTypes DEF ResetEntry, Concerns, AccountKinds
  <2>4. r.objs = [s.objs EXCEPT ![a] = Fresh(b)] /\ r.journal = append(s.journal, e)
    BY <2>1 DEF Fields
  <2>5. Fresh(b) \in LeafObject
    BY NewLeafObjects
  <2> HIDE DEF e
  <2>6. \A c \in Addr : c # a => r.objs[c] = s.objs[c]
    BY <1>k, <2>4, <2>5
  <2>7. UndoneMask(Masks, e, a, Masks[r.objs[a]][a]) = Masks[p][a]
    BY <2>3 DEF UndoneMask
  <2>8. r.journal.entries = Append(es, e)
    BY <1>j, <2>3, <2>4
  <2> QED BY <1>a, <1>f, <2>3, <2>6, <2>7, <2>8
<1>5. CASE Caches(s, r, a)
  <2>1. PICK k \in Key :
           /\ Queries(p, k)
           /\ Fields(r, [s.objs EXCEPT ![a] = WithSlot(p, a, k)], s.journal, s.failed)
    BY <1>5 DEF Caches
  <2>2. p \in LeafObject /\ ~p.deleted
    BY <1>0, <1>5, LiveObject DEF Caches
  <2> DEFINE c == WithSlot(p, a, k)
  <2>3. c \in LeafObject
    BY <2>2, WithSlotFields
  <2>4. Masks[c][a] = Masks[p][a]
    BY <2>1, <2>2, MaskSteps
  <2>5. r.objs = [s.objs EXCEPT ![a] = c] /\ r.journal = s.journal
    BY <2>1 DEF Fields
  <2> HIDE DEF c
  <2> QED BY <1>e, <1>f, <2>3, <2>4, <2>5
<1>6. CASE Touches(s, r, a)
  <2> DEFINE e == TouchEntry(a)
  <2>1. e \in LeafEntry /\ e.kind = "touch" /\ Concerns(e, a)
    BY LeafEntryTypes DEF TouchEntry, Concerns, AccountKinds
  <2>2. r.objs = s.objs /\ r.journal = TouchJournal(s.journal, a)
    BY <1>6 DEF Touches, Fields
  <2>3. append(s.journal, e) \in JournalOf(LeafEntry) /\ append(s.journal, e).entries = Append(es, e)
    BY <1>j, <2>1
  <2>4. r.journal.entries = Append(es, e)
    BY <2>2, <2>3, DirtyOf DEF TouchJournal
  <2> HIDE DEF e
  <2>5. UndoneMask(Masks, e, a, Masks[r.objs[a]][a]) = Masks[p][a]
    BY <2>1, <2>2 DEF UndoneMask
  <2> QED BY <1>a, <1>f, <2>1, <2>2, <2>4, <2>5
<1>7. CASE Changes(s, r, a)
  <2>1. PICK e \in LeafEntry, o \in LeafObject :
           /\ Records(p, a, e, o, FALSE)
           /\ Fields(r, [s.objs EXCEPT ![a] = o], append(s.journal, e), s.failed)
    BY <1>7, <1>f DEF Changes
  <2>2. p \in LeafObject /\ ~p.deleted
    BY <1>0, <1>7, LiveObject DEF Changes
  <2>3. UndoneField(e, Masks[o][a]) = Masks[p][a]
    BY <2>1, <2>2, MaskSteps
  <2>4. e.account = a /\ e.kind \in FieldKinds
    BY <2>1 DEF Records, FieldKinds
  <2>5. Concerns(e, a) /\ e.kind \notin {"createObject", "resetObject", "touch"}
    BY <2>4 DEF Concerns, AccountKinds, FieldKinds
  <2>6. /\ r.journal.entries = Append(es, e) /\ r.objs[a] = o
        /\ \A b \in Addr : b # a => r.objs[b] = s.objs[b]
    BY <1>j, <1>k, <2>1 DEF Fields
  <2>7. UndoneMask(Masks, e, a, Masks[r.objs[a]][a]) = Masks[p][a]
    BY <2>3, <2>5, <2>6 DEF UndoneMask
  <2> QED BY <1>a, <1>f, <2>5, <2>6, <2>7
<1>8. CASE Fakes(s, r, a)
  <2>1. PICK m \in Slots : Fields(r, [s.objs EXCEPT ![a] = [p EXCEPT !.fakeStorage = m]],
                                  s.journal, s.failed)
    BY <1>8 DEF Fakes
  <2> DEFINE o == [p EXCEPT !.fakeStorage = m]
  <2>2. p \in LeafObject /\ ~p.deleted
    BY <1>0, <1>8, LiveObject DEF Fakes
  <2>3. o \in LeafObject
    BY <2>2, UpdatedObject
  <2>4. ~o.deleted /\ o.fakeStorage = m /\ m # Nil
    BY <2>2, ConstantsAssumption DEF LeafObject
  <2>5. r.objs = [s.objs EXCEPT ![a] = o] /\ r.journal = s.journal
    BY <2>1 DEF Fields
  <2> HIDE DEF o
  <2>6. r.objs[a] = o /\ \A b \in Addr : b # a => r.objs[b] = s.objs[b]
    BY <1>k, <2>3, <2>5
  <2>7. Masks[r.objs[a]][a] = Fake
    BY <1>n, <2>3, <2>4, <2>6, MaskOf
  <2>8. \E B : Story(B, es, r.objs, P, Masks) /\ Follows(A, B, Len(es))
    BY <1>0, <2>6, <2>7, StoryFake
  <2> QED BY <1>f, <2>5, <2>8
<1> QED BY <1>1, <1>2, <1>3, <1>4, <1>5, <1>6, <1>7, <1>8, <1>f DEF Primitive

\* A failure is not forgotten.
LEMMA PrimitiveFailed ==
    ASSUME NEW s, NEW a, NEW r, Primitive(s, r, a), ~r.failed
    PROVE  ~s.failed
BY DEF Primitive, Same, Fails, Loads, Creates, Resets, Caches, Touches, Changes, Fakes, Fields

\* A call in which no query fails continues the story.
LEMMA StoryCall ==
    ASSUME LInv, NEW a \in Addr, NEW r, Runs(r, a), ~r.failed, NEW P, NEW A,
           Story(A, journal.entries, stateObjects, P, Masks)
    PROVE  \E B : /\ Story(B, r.journal.entries, r.objs, P, Masks)
                  /\ Follows(A, B, Len(journal.entries))
<1> DEFINE len(u) == Len(u.journal.entries)
           Tells(B, u) == Story(B, u.journal.entries, u.objs, P, Masks)
<1>1. State \in Threaded /\ State.journal = journal /\ State.objs = stateObjects /\ database \in RowMap
  BY StateType DEF LInv
<1>2. PICK s : Finds(State, s, a) /\ Works(s, r, a)
  BY DEF Runs
<1>3. PICK x, y : Primitive(State, x, a) /\ Primitive(x, y, a) /\ Primitive(y, s, a)
  BY <1>2 DEF Finds
<1>4. PICK z : Primitive(s, z, a) /\ Primitive(z, r, a)
  BY <1>2 DEF Works
<1>5. x \in Threaded /\ y \in Threaded /\ s \in Threaded /\ z \in Threaded /\ r \in Threaded
  BY <1>3, <1>4, PrimitiveType
<1>6. ~z.failed /\ ~s.failed /\ ~y.failed /\ ~x.failed
  <2>1. ~z.failed
    BY <1>4, PrimitiveFailed
  <2>2. ~s.failed
    BY <1>4, <2>1, PrimitiveFailed
  <2>3. ~y.failed
    BY <1>3, <2>2, PrimitiveFailed
  <2> QED BY <1>3, <2>1, <2>2, <2>3, PrimitiveFailed
<1>7. \A u \in Threaded : len(u) \in Nat
  BY DEF Threaded, JournalOf
<1>8. len(State) \in Nat /\ len(x) \in Nat /\ len(y) \in Nat /\ len(s) \in Nat /\ len(z) \in Nat
  BY <1>1, <1>5, <1>7
<1>9. len(State) <= len(x) /\ len(x) <= len(y) /\ len(y) <= len(s) /\ len(s) <= len(z)
  BY <1>1, <1>3, <1>4, <1>5, PrimitiveExtends DEF Extends
<1>10. Tells(A, State)
  BY <1>1
<1>11. PICK B1 : Tells(B1, x) /\ Follows(A, B1, len(State))
  BY <1>1, <1>3, <1>6, <1>10, StoryPrimitive
<1>12. PICK B2 : Tells(B2, y) /\ Follows(B1, B2, len(x))
  BY <1>1, <1>3, <1>5, <1>6, <1>11, StoryPrimitive
<1>13. PICK B3 : Tells(B3, s) /\ Follows(B2, B3, len(y))
  BY <1>1, <1>3, <1>5, <1>6, <1>12, StoryPrimitive
<1>14. PICK B4 : Tells(B4, z) /\ Follows(B3, B4, len(s))
  BY <1>1, <1>4, <1>5, <1>6, <1>13, StoryPrimitive
<1>15. PICK B5 : Tells(B5, r) /\ Follows(B4, B5, len(z))
  BY <1>1, <1>4, <1>5, <1>6, <1>14, StoryPrimitive
<1>16. len(State) = Len(journal.entries)
  BY <1>1
<1> HIDE DEF len
<1>17. Follows(A, B2, len(State))
  BY <1>8, <1>9, <1>11, <1>12, FollowsTwice
<1>18. Follows(A, B3, len(State))
  <2>1. len(State) <= len(y)
    BY <1>8, <1>9
  <2> QED BY <1>8, <1>13, <1>17, <2>1, FollowsTwice
<1>19. Follows(A, B4, len(State))
  <2>1. len(State) <= len(s)
    BY <1>8, <1>9
  <2> QED BY <1>8, <1>14, <1>18, <2>1, FollowsTwice
<1>20. Follows(A, B5, len(State))
  <2>1. len(State) <= len(z)
    BY <1>8, <1>9
  <2> QED BY <1>8, <1>15, <1>19, <2>1, FollowsTwice
<1> QED BY <1>15, <1>16, <1>20

\* Reverting an entry of an account goes back in the story.
LEMMA StoryReverts ==
    ASSUME LInv, LeafReverts, NEW P, NEW A, Story(A, journal.entries, stateObjects, P, Masks)
    PROVE  /\ Story(A, journal'.entries, stateObjects', P, Masks)
           /\ Follows(A, A, Len(journal'.entries))
<1> DEFINE e == LastEntry
           a == LastEntry.account
           p == stateObjects[a]
           o == Reverted(e, p)
           es == journal.entries
           fs == journal'.entries
<1>0. database \in RowMap /\ e.kind \in AccountKinds
  BY DEF LInv, TypeOK, RowMap, LeafReverts
<1>1. /\ e \in LeafEntry /\ a \in Addr /\ Live(stateObjects, a) /\ p \in LeafObject
      /\ stateObjects'[a] = o
      /\ \A b \in Addr : b # a => stateObjects'[b] = stateObjects[b]
  BY RevertsObjects
<1>2. /\ es \in Seq(LeafEntry) /\ fs \in Seq(LeafEntry) /\ Len(es) = Len(fs) + 1
      /\ \A i \in 1..Len(fs) : fs[i] = es[i]
      /\ e = es[Len(es)] /\ Len(es) \in 1..Len(es)
  BY RevertsObjects
<1>3. ~p.deleted
  BY <1>1 DEF Live
<1>4. Masks[o][a] = UndoneMask(Masks, e, a, Masks[p][a])
  <2>0. Concerns(e, a)
    BY <1>0 DEF Concerns
  <2>1. CASE e.kind = "createObject"
    <3>1. o = Nil /\ Masks[Nil][a] = Plain(Nil)
      BY <1>2, <2>1 DEF Reverted, Story, CreatesAbsent
    <3> QED BY <2>0, <2>1, <3>1 DEF UndoneMask
  <2>2. CASE e.kind = "resetObject"
    BY <2>0, <2>2 DEF Reverted, UndoneMask
  <2>3. CASE e.kind = "touch"
    BY <2>0, <2>3 DEF Reverted, UndoneMask
  <2>4. CASE e.kind \in FieldKinds
    <3>1. Masks[o][a] = UndoneField(e, Masks[p][a])
      BY <1>0, <1>1, <1>3, <2>4, MaskSteps
    <3>2. e.kind \notin {"createObject", "resetObject", "touch"}
      BY <2>4 DEF FieldKinds
    <3> QED BY <2>0, <3>1, <3>2 DEF UndoneMask
  <2> QED BY <1>0, <2>1, <2>2, <2>3, <2>4 DEF AccountKinds
<1> HIDE DEF o, es, fs
<1>5. \A b \in Addr : Masks[stateObjects'[b]][b] = UndoneMask(Masks, e, b, Masks[stateObjects[b]][b])
  <2> SUFFICES ASSUME NEW b \in Addr
               PROVE  Masks[stateObjects'[b]][b] = UndoneMask(Masks, e, b, Masks[stateObjects[b]][b])
    OBVIOUS
  <2>1. CASE b = a
    BY <1>1, <1>4, <2>1
  <2>2. CASE b # a
    BY <1>1, <2>2 DEF UndoneMask, Concerns
  <2> QED BY <2>1, <2>2
<1>6. Story(A, es, stateObjects, P, Masks)
  BY DEF es
<1>7. Story(A, fs, stateObjects', P, Masks) /\ Follows(A, A, Len(fs))
  BY <1>2, <1>5, <1>6, StoryPop
<1> QED BY <1>7 DEF fs

\* Entries of the transaction state change no account.
LEMMA StoryTxAppend ==
    ASSUME NEW A, NEW es \in Seq(LeafEntry), NEW e \in TxEntry, NEW objs, NEW P, NEW V,
           Story(A, es, objs, P, V)
    PROVE  \E B : Story(B, Append(es, e), objs, P, V) /\ Follows(A, B, Len(es))
<1>1. e \in LeafEntry /\ e.kind \in TxKinds
  BY LeafEntryTypes DEF TxEntry
<1>2. e.kind \notin AccountKinds /\ e.kind # "createObject"
  BY <1>1 DEF TxKinds, AccountKinds, FieldKinds
<1>3. \A a \in Addr : UndoneMask(V, e, a, V[objs[a]][a]) = V[objs[a]][a]
  BY <1>2 DEF UndoneMask, Concerns
<1> QED BY <1>1, <1>2, <1>3, StoryAppend

\* The setters of the transaction state continue the story ...
LEMMA StoryTxSetter ==
    ASSUME LInv, TxSetter, NEW P, NEW V, NEW A, Story(A, journal.entries, stateObjects, P, V)
    PROVE  \E B : /\ Story(B, journal'.entries, stateObjects, P, V)
                  /\ Follows(A, B, Len(journal.entries))
<1> DEFINE es == journal.entries
           Goal == \E B : Story(B, journal'.entries, stateObjects, P, V) /\ Follows(A, B, Len(es))
<1>0. journal \in JournalOf(LeafEntry) /\ es \in Seq(LeafEntry) /\ Len(es) \in Nat
  BY DEF LInv, JournalOf
<1>1. TxGrows
  BY TxSetterStep DEF LInv, TypeOK
<1>2. \A e \in TxEntry : e \in LeafEntry
  BY LeafEntryTypes
<1>3. CASE journal' = journal
  BY <1>3 DEF Follows
<1>4. ASSUME NEW e \in TxEntry, journal' = append(journal, e) PROVE Goal
  <2>1. append(journal, e).entries = Append(es, e)
    BY <1>0, <1>2, AppendOf
  <2>2. \E B : Story(B, Append(es, e), stateObjects, P, V) /\ Follows(A, B, Len(es))
    BY <1>0, StoryTxAppend
  <2> QED BY <1>4, <2>1, <2>2
<1>5. ASSUME NEW e \in TxEntry, NEW f \in TxEntry, journal' = append(append(journal, e), f)
      PROVE  Goal
  <2> DEFINE fs == Append(es, e)
             j  == append(journal, e)
  <2>1. j \in JournalOf(LeafEntry) /\ j.entries = fs /\ fs \in Seq(LeafEntry)
    BY <1>0, <1>2, AppendOf
  <2>2. Len(fs) = Len(es) + 1
    BY <1>0
  <2>3. PICK B : Story(B, fs, stateObjects, P, V) /\ Follows(A, B, Len(es))
    BY <1>0, StoryTxAppend
  <2> HIDE DEF fs, j
  <2>4. append(j, f).entries = Append(fs, f)
    BY <1>2, <2>1, AppendOf
  <2>5. PICK C : Story(C, Append(fs, f), stateObjects, P, V) /\ Follows(B, C, Len(fs))
    BY <2>1, <2>3, StoryTxAppend
  <2>6. Follows(A, C, Len(es))
    BY <1>0, <2>2, <2>3, <2>5, FollowsTwice
  <2> QED BY <1>5, <2>4, <2>5, <2>6 DEF j
<1> QED BY <1>1, <1>3, <1>4, <1>5 DEF TxGrows

\* ... and their reverts take back its end.
LEMMA StoryTxUndo ==
    ASSUME LInv, TxUndo, NEW P, NEW V, NEW A, Story(A, journal.entries, stateObjects, P, V)
    PROVE  /\ Story(A, journal'.entries, stateObjects, P, V)
           /\ Follows(A, A, Len(journal'.entries))
<1> DEFINE es == journal.entries
           fs == journal'.entries
           e  == LastEntry
<1>0. journal \in JournalOf(LeafEntry) /\ es \in Seq(LeafEntry)
  BY DEF LInv, JournalOf
<1>1. LastEntry \in TxEntry /\ es # <<>> /\ journal' = pop(journal) /\ LastEntry = es[Len(es)]
  BY TxUndoEntry DEF LastEntry
<1>2. /\ fs \in Seq(LeafEntry) /\ Len(es) = Len(fs) + 1
      /\ \A i \in 1..Len(fs) : fs[i] = es[i]
  BY <1>0, <1>1, PopOf
<1>3. LastEntry.kind \notin AccountKinds
  BY <1>1 DEF TxEntry, TxKinds, AccountKinds, FieldKinds
<1>4. \A a \in Addr : V[stateObjects[a]][a] = UndoneMask(V, e, a, V[stateObjects[a]][a])
  BY <1>3 DEF UndoneMask, Concerns
<1>5. e = es[Len(es)]
  BY <1>1
<1> HIDE DEF fs, es, e
<1>s. Story(A, es, stateObjects, P, V)
  BY DEF es
<1>6. Story(A, fs, stateObjects, P, V) /\ Follows(A, A, Len(fs))
  BY <1>0, <1>2, <1>4, <1>5, <1>s, StoryPop
<1> QED BY <1>6 DEF fs

-----------------------------------------------------------------------------
(* Which accounts are marked dirty.  A reset marks nothing by itself, but  *)
(* wherever a call or a revert ends another mark of the account is there.  *)

Covered(j, n) ==
    \A i \in 1..n : j.entries[i].kind = "resetObject" =>
        \/ ExtraMarks(j, j.entries[i].account) > 0
        \/ \E m \in 1..n : j.entries[i].account \in dirtied(j.entries[m])

MInv ==
    /\ \A a \in Addr : ExtraMarks(journal, a) >= 0
    /\ Idle => Covered(journal, Len(journal.entries))
    /\ \A i \in 1..Len(validRevisions) :
          Idle \/ i <= reverting => Covered(journal, validRevisions[i].journalIndex)

\* Marks are counted.
LEMMA MarksType ==
    ASSUME NEW j \in JournalOf(LeafEntry), NEW a \in Addr
    PROVE  ExtraMarks(j, a) \in Int
<1>1. j.entries \in Seq(LeafEntry) /\ j.dirties[a] \in Int
  BY DEF JournalOf
<1> QED BY <1>1, DirtyingFinite DEF ExtraMarks

\* The first n entries stay covered when marks are only added.
LEMMA CoveredKeep ==
    ASSUME NEW j \in JournalOf(LeafEntry), NEW k \in JournalOf(LeafEntry), NEW n \in Nat,
           n <= Len(j.entries), \A i \in 1..n : k.entries[i] = j.entries[i],
           \A a \in Addr : ExtraMarks(k, a) >= ExtraMarks(j, a),
           Covered(j, n)
    PROVE  Covered(k, n)
<1> SUFFICES ASSUME NEW i \in 1..n, k.entries[i].kind = "resetObject"
             PROVE  \/ ExtraMarks(k, k.entries[i].account) > 0
                    \/ \E m \in 1..n : k.entries[i].account \in dirtied(k.entries[m])
  BY DEF Covered
<1> DEFINE a == j.entries[i].account
<1>1. j.entries \in Seq(LeafEntry) /\ i \in 1..Len(j.entries) /\ k.entries[i] = j.entries[i]
  BY DEF JournalOf
<1>2. j.entries[i] \in LeafEntry /\ j.entries[i].kind \in AccountKinds
  BY <1>1 DEF AccountKinds
<1>3. a \in Addr
  BY <1>2, LeafEntryFields
<1>4. ExtraMarks(j, a) \in Int /\ ExtraMarks(k, a) \in Int /\ ExtraMarks(k, a) >= ExtraMarks(j, a)
  BY <1>3, MarksType
<1>5. ExtraMarks(j, a) > 0 \/ \E m \in 1..n : a \in dirtied(j.entries[m])
  BY <1>1 DEF Covered
<1> QED BY <1>1, <1>4, <1>5

\* What the caller of a reset is expected to do covers the whole journal.
LEMMA CoveredCall ==
    ASSUME NEW j \in JournalOf(LeafEntry), \A a \in Addr : ExtraMarks(j, a) >= 0, NoBareReset(j)
    PROVE  Covered(j, Len(j.entries))
<1> SUFFICES ASSUME NEW i \in 1..Len(j.entries), j.entries[i].kind = "resetObject"
             PROVE  \/ ExtraMarks(j, j.entries[i].account) > 0
                    \/ \E m \in 1..Len(j.entries) : j.entries[i].account \in dirtied(j.entries[m])
  BY DEF Covered
<1> DEFINE a == j.entries[i].account
           es == j.entries
<1>1. es \in Seq(LeafEntry) /\ es[i] \in LeafEntry
  BY DEF JournalOf
<1>2. es[i].kind \in AccountKinds
  BY DEF AccountKinds
<1>3. a \in Addr
  BY <1>1, <1>2, LeafEntryFields
<1>4. j.dirties[a] # 0 /\ j.dirties[a] \in Int
  BY <1>3 DEF NoBareReset, JournalOf
<1>5. /\ Cardinality(Dirtying(es, a)) \in Nat
      /\ Cardinality(Dirtying(es, a)) = 0 <=> Dirtying(es, a) = {}
  BY <1>1, DirtyingFinite
<1>6. ExtraMarks(j, a) = j.dirties[a] - Cardinality(Dirtying(es, a)) /\ ExtraMarks(j, a) >= 0
  BY <1>3 DEF ExtraMarks
<1>7. ExtraMarks(j, a) > 0 \/ Dirtying(es, a) # {}
  BY <1>4, <1>5, <1>6
<1> QED BY <1>7 DEF Dirtying

\* Entries of the transaction state reset nothing.
LEMMA CoveredTx ==
    ASSUME NEW j \in JournalOf(LeafEntry), NEW e \in TxEntry, Covered(j, Len(j.entries))
    PROVE  /\ append(j, e) \in JournalOf(LeafEntry)
           /\ Covered(append(j, e), Len(append(j, e).entries))
           /\ \A a \in Addr : ExtraMarks(append(j, e), a) = ExtraMarks(j, a)
           /\ Len(append(j, e).entries) = Len(j.entries) + 1
           /\ \A i \in 1..Len(j.entries) : append(j, e).entries[i] = j.entries[i]
<1> DEFINE k == append(j, e)
           l == Len(j.entries)
<1>1. e \in LeafEntry /\ e.kind # "resetObject" /\ j.entries \in Seq(LeafEntry) /\ l \in Nat
  BY LeafEntryTypes DEF TxEntry, TxKinds, JournalOf
<1>2. k \in JournalOf(LeafEntry) /\ k.entries = Append(j.entries, e)
  BY <1>1, AppendOf
<1>3. \A a \in Addr : ExtraMarks(k, a) = ExtraMarks(j, a)
  BY <1>1, MarksAppend
<1>4. \A a \in Addr : ExtraMarks(k, a) >= ExtraMarks(j, a)
  BY <1>1, <1>3, MarksType
<1>5. Len(k.entries) = l + 1 /\ k.entries[l + 1] = e /\ \A i \in 1..l : k.entries[i] = j.entries[i]
  BY <1>1, <1>2
<1> HIDE DEF k
<1>6. Covered(k, l)
  BY <1>1, <1>2, <1>4, <1>5, CoveredKeep
<1>7. Covered(k, l + 1)
  <2> SUFFICES ASSUME NEW i \in 1..(l + 1), k.entries[i].kind = "resetObject"
               PROVE  \/ ExtraMarks(k, k.entries[i].account) > 0
                      \/ \E m \in 1..(l + 1) : k.entries[i].account \in dirtied(k.entries[m])
    BY DEF Covered
  <2>1. i \in 1..l /\ \A m \in 1..l : m \in 1..(l + 1)
    BY <1>1, <1>5
  <2> QED BY <1>6, <2>1 DEF Covered
<1> QED BY <1>2, <1>3, <1>5, <1>7 DEF k

\* A primitive step takes no mark away.
LEMMA PrimitiveMarks ==
    ASSUME NEW s \in Threaded, NEW a \in Addr, NEW r, Primitive(s, r, a), NEW b \in Addr
    PROVE  /\ ExtraMarks(r.journal, b) >= ExtraMarks(s.journal, b)
           /\ ExtraMarks(r.journal, b) \in Int /\ ExtraMarks(s.journal, b) \in Int
<1>0. s.journal \in JournalOf(LeafEntry) /\ r \in Threaded /\ r.journal \in JournalOf(LeafEntry)
  BY PrimitiveType DEF Threaded
<1>1. ExtraMarks(s.journal, b) \in Int /\ ExtraMarks(r.journal, b) \in Int
  BY <1>0, MarksType
<1>2. CASE r.journal = s.journal
  BY <1>1, <1>2
<1>3. ASSUME NEW e \in LeafEntry,
             r.journal = append(s.journal, e) \/ r.journal = dirty(append(s.journal, e), a)
      PROVE  ExtraMarks(r.journal, b) >= ExtraMarks(s.journal, b)
  <2>1. ExtraMarks(append(s.journal, e), b) = ExtraMarks(s.journal, b)
        /\ append(s.journal, e) \in JournalOf(LeafEntry)
    BY <1>0, MarksAppend, AppendOf
  <2>2. ExtraMarks(dirty(append(s.journal, e), a), b) >= ExtraMarks(s.journal, b)
    BY <1>1, <2>1, MarksDirty
  <2> QED BY <1>1, <1>3, <2>1, <2>2
<1> QED BY <1>1, <1>2, <1>3, PrimitiveJournal

\* A call takes no marks away beyond those of its entries.
LEMMA CallMarks ==
    ASSUME LInv, NEW a \in Addr, NEW r, Runs(r, a), NEW b \in Addr
    PROVE  ExtraMarks(r.journal, b) >= ExtraMarks(journal, b)
<1> DEFINE M(u) == ExtraMarks(u.journal, b)
<1>1. State \in Threaded /\ State.journal = journal
  BY StateType DEF LInv
<1>2. PICK s : Finds(State, s, a) /\ Works(s, r, a)
  BY DEF Runs
<1>3. PICK x, y : Primitive(State, x, a) /\ Primitive(x, y, a) /\ Primitive(y, s, a)
  BY <1>2 DEF Finds
<1>4. PICK z : Primitive(s, z, a) /\ Primitive(z, r, a)
  BY <1>2 DEF Works
<1>5. x \in Threaded /\ y \in Threaded /\ s \in Threaded /\ z \in Threaded
  BY <1>3, <1>4, PrimitiveType
<1>6. /\ M(x) >= M(State) /\ M(y) >= M(x) /\ M(s) >= M(y) /\ M(z) >= M(s) /\ M(r) >= M(z)
      /\ M(State) \in Int /\ M(x) \in Int /\ M(y) \in Int /\ M(s) \in Int /\ M(z) \in Int
      /\ M(r) \in Int
  BY <1>1, <1>3, <1>4, <1>5, PrimitiveMarks
<1>7. M(State) = ExtraMarks(journal, b)
  BY <1>1
<1> HIDE DEF M
<1>8. M(r) >= M(State)
  BY <1>6
<1> QED BY <1>7, <1>8 DEF M

\* An account without a mark has no entry, when nothing is being reverted.
LEMMA UnmarkedUnconcerned ==
    ASSUME LInv, MInv, Idle, NEW a \in Addr, journal.dirties[a] = 0
    PROVE  \A i \in 1..Len(journal.entries) : ~Concerns(journal.entries[i], a)
<1> DEFINE es == journal.entries
<1>1. journal \in JournalOf(LeafEntry) /\ es \in Seq(LeafEntry)
  BY DEF LInv, JournalOf
<1>2. /\ Cardinality(Dirtying(es, a)) \in Nat
      /\ Cardinality(Dirtying(es, a)) = 0 <=> Dirtying(es, a) = {}
  BY <1>1, DirtyingFinite
<1>3. ExtraMarks(journal, a) >= 0 /\ Covered(journal, Len(es))
  BY DEF MInv
<1>4. Dirtying(es, a) = {} /\ ExtraMarks(journal, a) = 0
  BY <1>2, <1>3 DEF ExtraMarks
<1>5. \A i \in 1..Len(es) : a \notin dirtied(es[i])
  BY <1>4 DEF Dirtying
<1> SUFFICES ASSUME NEW i \in 1..Len(es), Concerns(es[i], a) PROVE FALSE
  OBVIOUS
<1>6. es[i].kind \notin DirtyingKinds
  BY <1>5 DEF Concerns, dirtied
<1>7. es[i].kind = "resetObject" /\ es[i].account = a
  BY <1>6 DEF Concerns, AccountKinds, FieldKinds, DirtyingKinds
<1>8. ExtraMarks(journal, a) > 0 \/ \E m \in 1..Len(es) : a \in dirtied(es[m])
  BY <1>3, <1>7 DEF Covered
<1> QED BY <1>4, <1>5, <1>8

\* The marks under a change of the journal that leaves the revisions.
LEMMA MInvKeep ==
    ASSUME LInv, MInv, LInv', UNCHANGED <<validRevisions, reverting>>,
           NEW n \in Nat, n <= Len(journal.entries), n <= Len(journal'.entries),
           n = Len(journal.entries) \/ n = Len(journal'.entries),
           \A i \in 1..n : journal'.entries[i] = journal.entries[i],
           \A a \in Addr : ExtraMarks(journal', a) >= ExtraMarks(journal, a),
           Idle => Covered(journal', Len(journal'.entries))
    PROVE  MInv'
<1>0. journal \in JournalOf(LeafEntry) /\ journal' \in JournalOf(LeafEntry)
  BY DEF LInv
<1>1. ASSUME NEW a \in Addr PROVE ExtraMarks(journal', a) >= 0
  <2>1. /\ ExtraMarks(journal, a) \in Int /\ ExtraMarks(journal', a) \in Int
        /\ ExtraMarks(journal, a) >= 0 /\ ExtraMarks(journal', a) >= ExtraMarks(journal, a)
    BY <1>0, MarksType DEF MInv
  <2> QED BY <2>1
<1>2. ASSUME NEW i \in 1..Len(validRevisions), Idle \/ i <= reverting
      PROVE  Covered(journal', validRevisions[i].journalIndex)
  <2> DEFINE m == validRevisions[i].journalIndex
  <2>1. m \in Nat /\ Len(journal.entries) \in Nat /\ Len(journal'.entries) \in Nat
    BY RevisionFields DEF LInv, RevisionTypes
  <2>2. m <= Len(journal.entries) /\ m <= Len(journal'.entries)
    BY <1>2 DEF LInv, RevisionsOrdered, Idle
  <2>3. Covered(journal, m)
    BY <1>2 DEF MInv
  <2> HIDE DEF m
  <2>4. m <= n /\ \A h \in 1..m : h \in 1..n
    BY <2>1, <2>2
  <2>5. \A h \in 1..m : journal'.entries[h] = journal.entries[h]
    BY <2>4
  <2>6. Covered(journal', m)
    BY <1>0, <2>1, <2>2, <2>3, <2>5, CoveredKeep
  <2> QED BY <2>6 DEF m
<1>3. Idle' = Idle
  BY DEF Idle
<1> QED BY <1>1, <1>2, <1>3 DEF MInv

\* Every step keeps the marks.
LEMMA MInvStep ==
    ASSUME LInv, MInv, [Next]_vars
    PROVE  MInv'
<1>0. /\ LInv' /\ journal \in JournalOf(LeafEntry) /\ journal.entries \in Seq(LeafEntry)
      /\ Len(journal.entries) \in Nat /\ \A a \in Addr : ExtraMarks(journal, a) \in Int
      /\ RevisionTypes /\ RevisionsOrdered
  BY LInvStep, MarksType DEF LInv, JournalOf
<1>t. \A a \in Addr : ExtraMarks(journal, a) >= ExtraMarks(journal, a)
  BY <1>0
<1>1. CASE TxSetter /\ UNCHANGED leafVars
  <2>1. TxGrows
    BY <1>1, TxSetterStep DEF LInv, TypeOK
  <2>2. Idle /\ UNCHANGED <<validRevisions, reverting>> /\ Covered(journal, Len(journal.entries))
    BY <2>1 DEF TxGrows, MInv
  <2>3. /\ Len(journal'.entries) \in Nat
        /\ Len(journal.entries) <= Len(journal'.entries)
        /\ \A i \in 1..Len(journal.entries) : journal'.entries[i] = journal.entries[i]
        /\ \A a \in Addr : ExtraMarks(journal', a) >= ExtraMarks(journal, a)
        /\ Covered(journal', Len(journal'.entries))
    <3>1. CASE journal' = journal
      BY <1>0, <1>t, <2>2, <3>1
    <3>2. ASSUME NEW e \in TxEntry, journal' = append(journal, e) PROVE <2>3!:
      <4>1. /\ Covered(journal', Len(journal'.entries))
            /\ \A a \in Addr : ExtraMarks(journal', a) = ExtraMarks(journal, a)
            /\ Len(journal'.entries) = Len(journal.entries) + 1
            /\ \A i \in 1..Len(journal.entries) : journal'.entries[i] = journal.entries[i]
        BY <1>0, <2>2, <3>2, CoveredTx
      <4> QED BY <1>0, <1>t, <4>1
    <3>3. ASSUME NEW e \in TxEntry, NEW f \in TxEntry, journal' = append(append(journal, e), f)
          PROVE  <2>3!:
      <4> DEFINE j == append(journal, e)
      <4>1. /\ j \in JournalOf(LeafEntry) /\ Covered(j, Len(j.entries))
            /\ \A a \in Addr : ExtraMarks(j, a) = ExtraMarks(journal, a)
            /\ Len(j.entries) = Len(journal.entries) + 1
            /\ \A i \in 1..Len(journal.entries) : j.entries[i] = journal.entries[i]
        BY <1>0, <2>2, CoveredTx
      <4>2. journal' = append(j, f)
        BY <3>3
      <4> HIDE DEF j
      <4>3. /\ Covered(journal', Len(journal'.entries))
            /\ \A a \in Addr : ExtraMarks(journal', a) = ExtraMarks(j, a)
            /\ Len(journal'.entries) = Len(j.entries) + 1
            /\ \A i \in 1..Len(j.entries) : journal'.entries[i] = j.entries[i]
        BY <4>1, <4>2, CoveredTx
      <4>4. \A i \in 1..Len(journal.entries) : i \in 1..Len(j.entries)
        BY <1>0, <4>1
      <4> QED BY <1>0, <1>t, <4>1, <4>3, <4>4
    <3> QED BY <2>1, <3>1, <3>2, <3>3 DEF TxGrows
  <2> QED BY <1>0, <2>2, <2>3, MInvKeep
<1>2. ASSUME NEW a \in Addr, CallRuns(a) PROVE MInv'
  <2>1. PICK r : Runs(r, a) /\ Put(r)
    BY <1>2 DEF CallRuns
  <2>2. /\ Extends(journal.entries, r.journal.entries, TxKinds) /\ r \in Threaded
        /\ \A b \in Addr : ExtraMarks(r.journal, b) >= ExtraMarks(journal, b)
    BY <2>1, CallExtends, CallThreads, CallMarks
  <2>3. r.journal \in JournalOf(LeafEntry) /\ Len(r.journal.entries) \in Nat
    BY <2>2 DEF Threaded, JournalOf
  <2>4. \A b \in Addr : ExtraMarks(r.journal, b) >= 0
    <3> SUFFICES ASSUME NEW b \in Addr PROVE ExtraMarks(r.journal, b) >= 0
      OBVIOUS
    <3>1. /\ ExtraMarks(journal, b) >= 0 /\ ExtraMarks(journal, b) \in Int
          /\ ExtraMarks(r.journal, b) \in Int /\ ExtraMarks(r.journal, b) >= ExtraMarks(journal, b)
      BY <1>0, <2>2, <2>3, MarksType DEF MInv
    <3> QED BY <3>1
  <2>5. Covered(r.journal, Len(r.journal.entries))
    BY <2>1, <2>3, <2>4, CoveredCall DEF Put
  <2>6. journal' = r.journal /\ UNCHANGED <<validRevisions, reverting>>
    BY <2>1 DEF Put
  <2>7. /\ Len(journal.entries) <= Len(journal'.entries)
        /\ \A i \in 1..Len(journal.entries) : journal'.entries[i] = journal.entries[i]
        /\ \A b \in Addr : ExtraMarks(journal', b) >= ExtraMarks(journal, b)
        /\ Covered(journal', Len(journal'.entries))
    BY <2>2, <2>5, <2>6 DEF Extends
  <2> QED BY <1>0, <2>6, <2>7, MInvKeep
<1>3. ASSUME Undoing, journal' = pop(journal), UNCHANGED <<validRevisions, reverting>>
      PROVE  MInv'
  <2>1. journal.entries # <<>> /\ ~Idle
    BY <1>0, <1>3, LastLeafEntry DEF Undoing
  <2>2. /\ Len(journal.entries) = Len(journal'.entries) + 1 /\ journal'.entries \in Seq(LeafEntry)
        /\ \A i \in 1..Len(journal'.entries) : journal'.entries[i] = journal.entries[i]
    BY <1>0, <1>3, <2>1, PopOf
  <2>3. \A a \in Addr : ExtraMarks(journal', a) = ExtraMarks(journal, a)
    BY <1>0, <1>3, <2>1, MarksPop
  <2>4. \A a \in Addr : ExtraMarks(journal', a) >= ExtraMarks(journal, a)
    BY <1>0, <2>3
  <2>5. Len(journal'.entries) \in Nat /\ Len(journal'.entries) <= Len(journal.entries)
    BY <2>2
  <2> QED BY <1>0, <1>3, <2>1, <2>2, <2>4, <2>5, MInvKeep
<1>4. CASE TxUndo /\ UNCHANGED leafVars
  <2>1. Undoing /\ LastEntry \in Entry /\ journal' = pop(journal)
    BY <1>4, TxUndoEntry
  <2>2. UNCHANGED <<validRevisions, nextRevisionId, reverting>>
    BY <1>4, <2>1, TxUndoTypes DEF LInv, TypeOK
  <2> QED BY <1>3, <2>1, <2>2
<1>5. CASE LeafReverts
  BY <1>3, <1>5 DEF LeafReverts
<1>6. CASE Clears
  <2>1. journal'.entries = <<>> /\ validRevisions' = <<>> /\ journal' \in JournalOf(LeafEntry)
    BY <1>0, <1>6, ClearsLInv DEF LInv
  <2>2. Len(journal'.entries) = 0 /\ Len(validRevisions') = 0
    BY <2>1
  <2>3. Covered(journal', 0)
    BY DEF Covered
  <2>4. \A a \in Addr : ExtraMarks(journal', a) >= 0
    <3>1. journal' = newJournal \/ journal' = journal
      BY <1>6 DEF Clears, Copy, Finalise, clearJournalAndRefund
    <3>2. \A a \in Addr : ExtraMarks(newJournal, a) >= 0
      BY MarksNew
    <3> QED BY <3>1, <3>2 DEF MInv
  <2> QED BY <2>2, <2>3, <2>4 DEF MInv
<1>7. CASE Keeps
  <2>1. journal' = journal
    BY <1>7 DEF Keeps
  <2>2. CASE Snapshot
    <3>1. /\ Idle /\ Idle' /\ Len(validRevisions') = Len(validRevisions) + 1
          /\ \A i \in 1..Len(validRevisions) : validRevisions'[i] = validRevisions[i]
          /\ validRevisions'[Len(validRevisions) + 1].journalIndex = Len(journal.entries)
          /\ Len(validRevisions) \in Nat
      BY <1>0, <2>2, SnapshotRevisions DEF Snapshot, Idle, RevisionTypes
    <3>2. ASSUME NEW i \in 1..Len(validRevisions')
          PROVE  Covered(journal, validRevisions'[i].journalIndex)
      <4>1. CASE i = Len(validRevisions) + 1
        BY <3>1, <4>1 DEF MInv
      <4>2. CASE i # Len(validRevisions) + 1
        BY <3>1, <4>2 DEF MInv
      <4> QED BY <4>1, <4>2
    <3> QED BY <2>1, <3>1, <3>2 DEF MInv
  <2>3. CASE \E id : RevertToSnapshot(id)
    BY <2>1, <2>3 DEF RevertToSnapshot, Idle, MInv
  <2>4. CASE RevertDone
    <3>1. /\ Len(validRevisions') = reverting - 1 /\ reverting \in 1..Len(validRevisions)
          /\ \A i \in 1..(reverting - 1) : validRevisions'[i] = validRevisions[i]
      BY <1>0, <2>4, DoneRevisions
    <3>2. /\ ~Idle /\ Len(validRevisions) \in Nat
          /\ validRevisions[reverting].journalIndex \in Nat
          /\ validRevisions[reverting].journalIndex <= Len(journal.entries)
          /\ Len(journal.entries) <= validRevisions[reverting].journalIndex
      BY <1>0, <2>4, <3>1, RevisionFields DEF RevertDone, Undoing, RevisionsOrdered, RevisionTypes
    <3>3. Covered(journal, Len(journal.entries))
      <4>1. validRevisions[reverting].journalIndex = Len(journal.entries)
        BY <1>0, <3>2
      <4>2. Covered(journal, validRevisions[reverting].journalIndex)
        BY <3>1, <3>2 DEF MInv
      <4> QED BY <4>1, <4>2
    <3>4. \A i \in 1..Len(validRevisions') :
             i \in 1..Len(validRevisions) /\ i <= reverting /\ validRevisions'[i] = validRevisions[i]
      BY <3>1, <3>2
    <3> QED BY <2>1, <3>3, <3>4 DEF MInv
  <2>5. CASE UNCHANGED <<validRevisions, nextRevisionId, reverting>>
    BY <2>1, <2>5 DEF MInv, Idle
  <2> QED BY <1>7, <2>2, <2>3, <2>4, <2>5 DEF Keeps
<1> QED BY <1>1, <1>2, <1>4, <1>5, <1>6, <1>7, LeafStepCases

\* In the initial state nothing is marked.
LEMMA MInvInit == Init => MInv
<1> SUFFICES ASSUME Init PROVE MInv
  OBVIOUS
<1>1. journal = newJournal /\ journal.entries = <<>> /\ validRevisions = <<>>
  BY DEF Init, JournalInit, newJournal
<1>2. Len(journal.entries) = 0 /\ Len(validRevisions) = 0
  BY <1>1
<1>3. Covered(journal, 0)
  BY DEF Covered
<1>4. \A a \in Addr : ExtraMarks(journal, a) >= 0
  BY <1>1, MarksNew
<1> QED BY <1>2, <1>3, <1>4 DEF MInv

-----------------------------------------------------------------------------
(* The story is told in every state in which no query has failed.          *)

\* The masks of objects depend on the rows of the database only.
LEMMA SameMasks ==
    ASSUME database' = database
    PROVE  Masks' = Masks
BY DEF Masks, Mask, LeafView, StateOf, CommittedOf, StorageValue

\* No step changes the rows, and a failure is never forgotten.
LEMMA FailureStays ==
    ASSUME LInv, [Next]_vars
    PROVE  database' = database /\ (~failed' => ~failed)
<1>1. CASE \E a \in Addr : CallRuns(a)
  <2>a. PICK a \in Addr : CallRuns(a)
    BY <1>1
  <2>1. PICK r : Runs(r, a) /\ Put(r)
    BY <2>a DEF CallRuns
  <2>2. database' = database /\ failed' = r.failed
    BY <2>1 DEF Put
  <2>3. PICK s : Finds(State, s, a) /\ Works(s, r, a)
    BY <2>1 DEF Runs
  <2>4. ASSUME ~r.failed PROVE ~failed
    <3>1. ~s.failed
      BY <2>3, <2>4, PrimitiveFailed DEF Works
    <3>2. ~State.failed
      BY <2>3, <3>1, PrimitiveFailed DEF Finds
    <3> QED BY <3>2 DEF State
  <2> QED BY <2>2, <2>4
<1>2. CASE UNCHANGED leafVars
  BY <1>2 DEF leafVars
<1> QED BY <1>1, <1>2, LeafStepCases, ClearsLInv DEF LeafReverts, Keeps

\* x is the mask of an account that looks like v, unless it is masked.
Matches(x, v) == x = Plain(v) \/ x = Fake

\* The mask of an account's object shows the account.
LEMMA MaskMatches ==
    ASSUME LInv, NEW a \in Addr
    PROVE  /\ Matches(Masks[stateObjects[a]][a], AccountView(a))
           /\ Genuine(a) => Masks[stateObjects[a]][a] = Plain(AccountView(a))
<1>1. stateObjects[a] \in LeafObject \cup {Nil}
  BY DEF LInv, TypeOK
<1> QED BY <1>1, MaskOf DEF Matches, AccountView, Live, Genuine

\* Where no entry concerns an account that was never visited, it looks as the
\* database has it.
LEMMA UntouchedMask ==
    ASSUME LInv, MInv, Idle, NEW A, Story(A, journal.entries, stateObjects, Visited, Masks),
           NEW a \in Addr, a \notin Visited, a \notin Finalised
    PROVE  Masks[stateObjects[a]][a] \in {Masks[Nil][a], Fake}
<1>1. CASE stateObjects[a] = Nil
  BY <1>1
<1>2. CASE stateObjects[a] # Nil
  <2>1. journal.dirties[a] = 0
    BY <1>2 DEF Finalised, DirtyAccounts
  <2>2. \A i \in 1..Len(journal.entries) : ~Concerns(journal.entries[i], a)
    BY <2>1, UnmarkedUnconcerned
  <2>3. Len(journal.entries) \in 0..Len(journal.entries)
    BY DEF LInv, JournalOf
  <2>4. A[Len(journal.entries)][a] \in {Masks[Nil][a], Fake}
    BY <2>2, <2>3 DEF Story, Ground
  <2>5. A[Len(journal.entries)][a] = Masks[stateObjects[a]][a]
    BY DEF Story, Chain
  <2> QED BY <2>4, <2>5
<1> QED BY <1>1, <1>2

\* After Finalise and Copy a new story begins.
LEMMA StoryClears ==
    ASSUME LInv, MInv, Clears, NEW A, Story(A, journal.entries, stateObjects, Visited, Masks)
    PROVE  \E B : Story(B, journal'.entries, stateObjects', Visited', Masks)
<1>1. journal'.entries = <<>> /\ Idle
  BY ClearsLInv DEF Clears, Copy, Finalise
<1>2. Visited' = Visited \cup Finalised
  BY DEF Clears, Copy, Finalise, Visited
<1>3. ASSUME NEW a \in Addr \ Visited'
      PROVE  Masks[stateObjects'[a]][a] \in {Masks[Nil][a], Fake}
  <2>1. a \notin Visited /\ a \notin Finalised
    BY <1>2, <1>3
  <2>2. CASE Copy
    <3>1. stateObjects'[a] = Nil
      BY <2>1, <2>2 DEF Copy, Copied, Visited
    <3> QED BY <3>1
  <2>3. ASSUME NEW d \in BOOLEAN, Finalise(d)
        PROVE  stateObjects'[a] = stateObjects[a]
    BY <2>1, <2>3 DEF Finalise
  <2>4. Masks[stateObjects[a]][a] \in {Masks[Nil][a], Fake}
    BY <1>1, <2>1, UntouchedMask
  <2> QED BY <2>2, <2>3, <2>4 DEF Clears
<1>4. \E B : Story(B, <<>>, stateObjects', Visited', Masks)
  BY <1>3, StoryBegins
<1> QED BY <1>1, <1>4

\* The story goes on.  What it says of the entries that stay is unchanged, or
\* masked, unless all revisions are dropped.
Continues(A, B) ==
    \/ validRevisions' = <<>>
    \/ \A m \in Nat : m <= Len(journal.entries) /\ m <= Len(journal'.entries) => Follows(A, B, m)

Told(A) == Story(A, journal.entries, stateObjects, Visited, Masks)

\* As long as no query fails, every step continues the story.
LEMMA StoryStep ==
    ASSUME LInv, MInv, [Next]_vars, ~failed', NEW A, Told(A)
    PROVE  \E B : Story(B, journal'.entries, stateObjects', Visited', Masks') /\ Continues(A, B)
<1>0. /\ Masks' = Masks /\ Story(A, journal.entries, stateObjects, Visited, Masks)
      /\ Len(journal.entries) \in Nat /\ Len(journal'.entries) \in Nat
  <2>1. journal.entries \in Seq(LeafEntry) /\ journal'.entries \in Seq(LeafEntry)
    BY LInvStep DEF LInv, JournalOf
  <2> QED BY <2>1, FailureStays, SameMasks DEF Told
<1>f. ASSUME NEW B, NEW n \in Nat, Follows(A, B, n),
             n = Len(journal.entries) \/ n = Len(journal'.entries)
      PROVE  Continues(A, B)
  BY <1>0, <1>f DEF Follows, Continues
<1>1. CASE TxSetter /\ UNCHANGED leafVars
  <2>1. \E B : /\ Story(B, journal'.entries, stateObjects, Visited, Masks)
               /\ Follows(A, B, Len(journal.entries))
    BY <1>0, <1>1, StoryTxSetter
  <2>2. stateObjects' = stateObjects /\ Visited' = Visited
    BY <1>1 DEF leafVars, Visited
  <2> QED BY <1>0, <1>f, <2>1, <2>2
<1>2. CASE \E a \in Addr : CallRuns(a)
  <2>a. PICK a \in Addr : CallRuns(a)
    BY <1>2
  <2>1. PICK r : Runs(r, a) /\ Put(r)
    BY <2>a DEF CallRuns
  <2>2. ~r.failed /\ journal' = r.journal /\ stateObjects' = r.objs /\ Visited' = Visited
    BY <2>1 DEF Put, Visited
  <2>3. \E B : /\ Story(B, r.journal.entries, r.objs, Visited, Masks)
               /\ Follows(A, B, Len(journal.entries))
    BY <1>0, <2>1, <2>2, StoryCall
  <2> QED BY <1>0, <1>f, <2>2, <2>3
<1>3. CASE TxUndo /\ UNCHANGED leafVars
  <2>1. /\ Story(A, journal'.entries, stateObjects, Visited, Masks)
        /\ Follows(A, A, Len(journal'.entries))
    BY <1>0, <1>3, StoryTxUndo
  <2>2. stateObjects' = stateObjects /\ Visited' = Visited
    BY <1>3 DEF leafVars, Visited
  <2> QED BY <1>0, <1>f, <2>1, <2>2
<1>4. CASE LeafReverts
  <2>1. /\ Story(A, journal'.entries, stateObjects', Visited, Masks)
        /\ Follows(A, A, Len(journal'.entries))
    BY <1>0, <1>4, StoryReverts
  <2>2. Visited' = Visited
    BY <1>4 DEF LeafReverts, Visited
  <2> QED BY <1>0, <1>f, <2>1, <2>2
<1>5. CASE Clears
  <2>1. validRevisions' = <<>>
    BY <1>5, ClearsLInv
  <2>2. \E B : Story(B, journal'.entries, stateObjects', Visited', Masks)
    BY <1>0, <1>5, StoryClears
  <2> QED BY <1>0, <2>1, <2>2 DEF Continues
<1>6. CASE Keeps
  <2>1. stateObjects' = stateObjects /\ Visited' = Visited /\ journal' = journal
    BY <1>6 DEF Keeps, leafVars, Visited
  <2>2. Continues(A, A)
    BY DEF Continues, Follows
  <2> QED BY <1>0, <2>1, <2>2
<1> QED BY <1>1, <1>2, <1>3, <1>4, <1>5, <1>6, LeafStepCases

CInv == LInv /\ MInv /\ (~failed => \E A : Told(A))

\* In the initial state the story begins.
LEMMA CInvInit == Init => CInv
<1> SUFFICES ASSUME Init PROVE CInv
  OBVIOUS
<1>1. journal.entries = <<>> /\ stateObjects = [a \in Addr |-> Nil]
  BY DEF Init, JournalInit, newJournal, New
<1>2. \A a \in Addr \ Visited : Masks[stateObjects[a]][a] \in {Masks[Nil][a], Fake}
  BY <1>1
<1>3. \E A : Story(A, <<>>, stateObjects, Visited, Masks)
  BY <1>2, StoryBegins
<1> QED BY <1>1, <1>3, LInvInit, MInvInit DEF CInv, Told

\* Every step keeps the invariant.
LEMMA CInvStep ==
    ASSUME CInv, [Next]_vars
    PROVE  CInv'
<1>1. LInv' /\ MInv'
  BY LInvStep, MInvStep DEF CInv
<1>2. ASSUME ~failed' PROVE \E A : Story(A, journal'.entries, stateObjects', Visited', Masks')
  <2>1. ~failed
    BY <1>2, FailureStays DEF CInv
  <2>2. PICK A : Told(A)
    BY <2>1 DEF CInv
  <2> QED BY <1>2, <2>2, StoryStep DEF CInv
<1> QED BY <1>1, <1>2 DEF CInv, Told

(***************************************************************************)
(* A copy reads like the original: Copy takes the objects that are dirty   *)
(* or pending, and every account it leaves behind looks as the database    *)
(* has it, because whatever changed it is marked in the journal's dirties  *)
(* (a reset is, because its caller changes more: NoBareReset).             *)
(* This fails only after a query has failed (an account may then have been *)
(* created over an existing row), or for fake storage, which deepCopy does *)
(* not take along.                                                         *)
(***************************************************************************)
THEOREM CopyPreserves == Spec => CopyPreservesView
<1>1. ASSUME CInv, Copy, ~failed, NEW a \in Addr, Genuine(a)
      PROVE  AccountView(a)' = AccountView(a)
  <2>0. LInv /\ MInv /\ Idle /\ database' = database /\ stateObjects \in ObjectMap
    BY <1>1 DEF CInv, Copy, LInv, TypeOK, ObjectMap
  <2>1. CASE a \in Copied
    <3>1. stateObjects[a] # Nil
      BY <2>0, <2>1 DEF LInv, Linked, Visitable, Copied, Visited, Finalised
    <3>2. stateObjects[a] \in LeafObject /\ stateObjects[a].fakeStorage = Nil
      BY <1>1, <2>0, <3>1 DEF ObjectMap, Genuine
    <3>3. stateObjects'[a] = stateObjects[a]
      <4>1. stateObjects'[a] = [stateObjects[a] EXCEPT !.fakeStorage = Nil]
        BY <1>1, <2>1 DEF Copy, deepCopy
      <4> QED BY <3>2, <4>1 DEF LeafObject
    <3> QED BY <2>0, <3>3 DEF AccountView, Live, LeafView, StateOf, CommittedOf, StorageValue
  <2>2. CASE a \notin Copied
    <3>1. a \notin Visited /\ a \notin Finalised /\ stateObjects'[a] = Nil
      BY <1>1, <2>2 DEF Copied, Visited, Copy
    <3>2. PICK A : Told(A)
      BY <1>1 DEF CInv
    <3>3. Masks[stateObjects[a]][a] \in {Masks[Nil][a], Fake}
      BY <2>0, <3>1, <3>2, UntouchedMask DEF Told
    <3>4. Masks[stateObjects[a]][a] = Plain(AccountView(a))
      BY <1>1, <2>0, MaskMatches
    <3>5. Masks[Nil][a] = Plain(IF database[a] = Nil THEN Nil
                                ELSE LeafView(newLeafObject(database[a]), a))
      BY MaskOf
    <3>6. AccountView(a) = IF database[a] = Nil THEN Nil
                           ELSE LeafView(newLeafObject(database[a]), a)
      <4> DEFINE v == IF database[a] = Nil THEN Nil ELSE LeafView(newLeafObject(database[a]), a)
      <4>1. Plain(AccountView(a)) = Plain(v) \/ Plain(AccountView(a)) = Fake
        BY <3>3, <3>4, <3>5
      <4> HIDE DEF v
      <4>2. AccountView(a) = v
        BY <4>1, MaskFields
      <4> QED BY <4>2 DEF v
    <3>7. AccountView(a)' = IF database[a] = Nil THEN Nil
                            ELSE LeafView(newLeafObject(database[a]), a)
      BY <2>0, <3>1
         DEF AccountView, Live, LeafView, StateOf, CommittedOf, StorageValue
    <3> QED BY <3>6, <3>7
  <2> QED BY <2>1, <2>2
<1>2. CInv => [Copy /\ ~failed =>
                  \A a \in Addr : Genuine(a) => AccountView(a)' = AccountView(a)]_vars
  BY <1>1
<1>3. CInv /\ [Next]_vars => CInv'
  BY CInvStep
<1> QED BY <1>2, <1>3, CInvInit, PTL DEF Spec, CopyPreservesView

-----------------------------------------------------------------------------
(* The same for the transaction state: T[n] is its view when the journal   *)
(* had n entries.                                                          *)

TxTraced(v, es, T) ==
    /\ T[Len(es)] = v
    /\ \A n \in 1..Len(es) : T[n - 1] = UndoneTx(es[n], T[n])

\* Entries of accounts, any number of them, leave the view as it is.
LEMMA TxTracedExtends ==
    ASSUME NEW es \in Seq(LeafEntry), NEW fs \in Seq(LeafEntry), Extends(es, fs, TxKinds),
           NEW T, TxTraced(TxView, es, T)
    PROVE  \E U : TxTraced(TxView, fs, U) /\ \A n \in 0..Len(es) : U[n] = T[n]
<1> DEFINE l == Len(es)
           h == Len(fs)
           U == [n \in 0..h |-> IF n <= l THEN T[n] ELSE TxView]
<1>1. l \in Nat /\ h \in Nat /\ l <= h
  BY DEF Extends
<1>2. /\ \A i \in 1..l : fs[i] = es[i]
      /\ \A i \in (l + 1)..h : fs[i].kind \notin TxKinds
      /\ T[l] = TxView
      /\ \A n \in 1..l : T[n - 1] = UndoneTx(es[n], T[n])
  BY DEF Extends, TxTraced
<1> HIDE DEF l, h
<1>3. /\ \A n \in 0..l : U[n] = T[n]
      /\ \A n \in l..h : U[n] = TxView
  BY <1>1, <1>2
<1> HIDE DEF U
<1>4. ASSUME NEW n \in 1..h PROVE U[n - 1] = UndoneTx(fs[n], U[n])
  <2>1. CASE n <= l
    <3>1. n \in 1..l /\ n \in 0..l /\ n - 1 \in 0..l
      BY <1>1, <2>1
    <3> QED BY <1>2, <1>3, <3>1
  <2>2. CASE ~(n <= l)
    <3>1. n \in (l + 1)..h /\ n \in l..h /\ n - 1 \in l..h
      BY <1>1, <2>2
    <3>2. UndoneTx(fs[n], TxView) = TxView
      BY <1>2, <3>1, UndoneTxOther
    <3> QED BY <1>3, <3>1, <3>2
  <2> QED BY <2>1, <2>2
<1>5. U[h] = TxView
  BY <1>1, <1>3
<1>6. TxTraced(TxView, fs, U)
  BY <1>4, <1>5 DEF TxTraced, h
<1> QED BY <1>3, <1>6 DEF l

\* An entry leads back to the view before it.
LEMMA TxTracedAppend ==
    ASSUME NEW es \in Seq(LeafEntry), NEW e \in LeafEntry, NEW v, NEW u, NEW T,
           TxTraced(v, es, T), UndoneTx(e, u) = v
    PROVE  \E U : TxTraced(u, Append(es, e), U) /\ \A n \in 0..Len(es) : U[n] = T[n]
<1> DEFINE fs == Append(es, e)
           l  == Len(es)
           U  == [n \in 0..(l + 1) |-> IF n = l + 1 THEN u ELSE T[n]]
<1>1. l \in Nat /\ Len(fs) = l + 1 /\ fs[l + 1] = e /\ \A i \in 1..l : fs[i] = es[i]
  OBVIOUS
<1>2. T[l] = v /\ \A n \in 1..l : T[n - 1] = UndoneTx(es[n], T[n])
  BY DEF TxTraced
<1> HIDE DEF fs, l
<1>3. U[l + 1] = u /\ \A n \in 0..l : U[n] = T[n]
  BY <1>1
<1> HIDE DEF U
<1>4. ASSUME NEW n \in 1..(l + 1) PROVE U[n - 1] = UndoneTx(fs[n], U[n])
  <2>1. CASE n = l + 1
    <3>1. n - 1 = l /\ l \in 0..l
      BY <1>1, <2>1
    <3> QED BY <1>1, <1>2, <1>3, <2>1, <3>1
  <2>2. CASE n # l + 1
    <3>1. n \in 1..l /\ n \in 0..l /\ n - 1 \in 0..l
      BY <1>1, <2>2
    <3> QED BY <1>1, <1>2, <1>3, <3>1
  <2> QED BY <2>1, <2>2
<1>5. TxTraced(u, fs, U)
  BY <1>1, <1>3, <1>4 DEF TxTraced
<1> QED BY <1>3, <1>5 DEF fs, l

\* Undoing the last entry goes one view back.
LEMMA TxTracedPop ==
    ASSUME NEW es \in Seq(LeafEntry), NEW fs \in Seq(LeafEntry), Len(es) = Len(fs) + 1,
           \A i \in 1..Len(fs) : fs[i] = es[i], NEW e, e = es[Len(es)],
           NEW v, NEW T, TxTraced(v, es, T)
    PROVE  TxTraced(UndoneTx(e, v), fs, T)
<1> DEFINE l == Len(fs)
<1>1. l \in Nat /\ Len(es) = l + 1 /\ l + 1 \in 1..(l + 1) /\ (l + 1) - 1 = l
  OBVIOUS
<1>2. \A i \in 1..l : fs[i] = es[i] /\ i \in 1..(l + 1)
  BY <1>1
<1> HIDE DEF l
<1>3. T[l + 1] = v /\ \A n \in 1..(l + 1) : T[n - 1] = UndoneTx(es[n], T[n])
  BY <1>1 DEF TxTraced
<1>4. T[l] = UndoneTx(e, v)
  BY <1>1, <1>3
<1>5. \A n \in 1..l : T[n - 1] = UndoneTx(fs[n], T[n])
  BY <1>2, <1>3
<1> QED BY <1>4, <1>5 DEF TxTraced, l

AccessOrdered == AccessListOrdered(accessList, journal.entries)

\* What T says of the entries that stay is unchanged, unless all revisions are
\* dropped.
TxContinues(T, U) ==
    \/ validRevisions' = <<>>
    \/ \A m \in Nat : m <= Len(journal.entries) /\ m <= Len(journal'.entries) => U[m] = T[m]

\* A setter of the transaction state leads from view to view.
LEMMA TxTracedSetter ==
    ASSUME LInv, TxSetter, AccessOrdered, NEW T, TxTraced(TxView, journal.entries, T)
    PROVE  \E U : TxTraced(TxView', journal'.entries, U) /\ TxContinues(T, U)
<1> DEFINE es == journal.entries
           fs == journal'.entries
           G  == \E U : TxTraced(TxView', fs, U) /\ TxContinues(T, U)
<1> SUFFICES G
  OBVIOUS
<1>0. /\ journal \in JournalOf(LeafEntry) /\ es \in Seq(LeafEntry) /\ Len(es) \in Nat
      /\ accessList \in AccessListType /\ AL!WellFormedAccessList(accessList)
      /\ TxTypeOK /\ \A e \in TxEntry : e \in LeafEntry
  BY LeafEntryTypes DEF LInv, TypeOK, JournalOf, AccessOrdered, AccessListOrdered
<1>1. TxSetterView /\ TxGrows
  BY <1>0, TxSetterViews, TxSetterStep
<1>f. ASSUME NEW U, \A n \in 0..Len(es) : U[n] = T[n] PROVE TxContinues(T, U)
  BY <1>0, <1>f DEF TxContinues
<1>2. CASE journal' = journal /\ TxView' = TxView
  BY <1>2 DEF TxContinues
<1>3. ASSUME NEW e \in TxEntry, journal' = append(journal, e), UndoneTx(e, TxView') = TxView
      PROVE  G
  <2>1. fs = Append(es, e) /\ e \in LeafEntry
    <3>1. append(journal, e).entries = Append(es, e)
      BY <1>0, AppendOf
    <3> QED BY <1>0, <1>3, <3>1
  <2>2. \E U : TxTraced(TxView', Append(es, e), U) /\ \A n \in 0..Len(es) : U[n] = T[n]
    BY <1>0, <1>3, <2>1, TxTracedAppend
  <2> QED BY <1>f, <2>1, <2>2
<1>4. ASSUME NEW f \in TxEntry, NEW e \in TxEntry, NEW m,
             journal' = append(append(journal, f), e), UndoneTx(f, m) = TxView,
             UndoneTx(e, TxView') = m
      PROVE  G
  <2> DEFINE gs == Append(es, f)
  <2>1. /\ append(journal, f) \in JournalOf(LeafEntry) /\ append(journal, f).entries = gs
        /\ e \in LeafEntry /\ f \in LeafEntry
    BY <1>0, AppendOf
  <2>2. fs = Append(gs, e) /\ gs \in Seq(LeafEntry) /\ Len(gs) = Len(es) + 1
    <3>1. append(append(journal, f), e).entries = Append(append(journal, f).entries, e)
      BY <2>1, AppendOf
    <3>2. gs \in Seq(LeafEntry) /\ Len(gs) = Len(es) + 1
      BY <1>0, <2>1
    <3> QED BY <1>4, <2>1, <3>1, <3>2
  <2>3. PICK Y : TxTraced(m, gs, Y) /\ \A n \in 0..Len(es) : Y[n] = T[n]
    BY <1>0, <1>4, <2>1, TxTracedAppend
  <2> HIDE DEF gs
  <2>4. PICK U : TxTraced(TxView', Append(gs, e), U) /\ \A n \in 0..Len(gs) : U[n] = Y[n]
    BY <1>4, <2>1, <2>2, <2>3, TxTracedAppend
  <2>5. \A n \in 0..Len(es) : U[n] = T[n]
    BY <1>0, <2>2, <2>3, <2>4
  <2> QED BY <1>f, <2>2, <2>4, <2>5
<1>5. CASE /\ journal' = journal
           /\ validRevisions = <<>>
           /\ \A i \in 1..Len(es) : es[i].kind \notin AccessListKinds \cup {"transientStorage"}
           /\ TxView' = Replaced(TxView, AccessView', transientStorage')
  <2> DEFINE R(x) == Replaced(x, AccessView', transientStorage')
             U == [n \in 0..Len(es) |-> R(T[n])]
  <2>1. \A n \in 1..Len(es) : \A x : R(UndoneTx(es[n], x)) = UndoneTx(es[n], R(x))
    BY <1>5, UndoneReplaced
  <2>2. TxView' = R(TxView) /\ validRevisions' = <<>>
    BY <1>1, <1>5 DEF TxGrows
  <2> HIDE DEF R
  <2>3. U[Len(es)] = TxView'
    BY <1>0, <2>2 DEF TxTraced
  <2>4. ASSUME NEW n \in 1..Len(es) PROVE U[n - 1] = UndoneTx(es[n], U[n])
    <3>1. n - 1 \in 0..Len(es) /\ n \in 0..Len(es)
      BY <1>0
    <3>2. T[n - 1] = UndoneTx(es[n], T[n])
      BY DEF TxTraced
    <3> QED BY <2>1, <3>1, <3>2
  <2> HIDE DEF U
  <2>5. TxTraced(TxView', fs, U)
    BY <1>5, <2>3, <2>4 DEF TxTraced
  <2> QED BY <2>2, <2>5 DEF TxContinues
<1> QED BY <1>1, <1>2, <1>3, <1>4, <1>5 DEF TxSetterView

\* Every step leads from view to view of the transaction state.
LEMMA TxTracedStep ==
    ASSUME LInv, AccessOrdered, [Next]_vars, NEW T, TxTraced(TxView, journal.entries, T)
    PROVE  \E U : TxTraced(TxView', journal'.entries, U) /\ TxContinues(T, U)
<1> DEFINE es == journal.entries
           fs == journal'.entries
           G  == \E U : TxTraced(TxView', fs, U) /\ TxContinues(T, U)
<1> SUFFICES G
  OBVIOUS
<1>0. /\ journal \in JournalOf(LeafEntry) /\ es \in Seq(LeafEntry) /\ Len(es) \in Nat
      /\ fs \in Seq(LeafEntry) /\ Len(fs) \in Nat
  BY LInvStep DEF LInv, JournalOf
<1>s. ASSUME UNCHANGED txVars PROVE TxView' = TxView
  BY <1>s DEF txVars, TxView
<1>1. CASE TxSetter
  BY <1>1, TxTracedSetter
<1>2. CASE (\E a \in Addr : CallRuns(a)) /\ UNCHANGED txVars
  <2>a. PICK a \in Addr : CallRuns(a)
    BY <1>2
  <2>1. PICK r : Runs(r, a) /\ Put(r)
    BY <2>a DEF CallRuns
  <2>2. Extends(es, fs, TxKinds)
    BY <2>1, CallExtends DEF Put
  <2> HIDE DEF es, fs
  <2>3. TxTraced(TxView, es, T)
    BY DEF es
  <2>4. PICK U : TxTraced(TxView, fs, U) /\ \A n \in 0..Len(es) : U[n] = T[n]
    BY <1>0, <2>2, <2>3, TxTracedExtends
  <2>5. TxContinues(T, U)
    BY <1>0, <2>4 DEF TxContinues, es
  <2> QED BY <1>2, <1>s, <2>4, <2>5
<1>3. ASSUME Undoing, journal' = pop(journal), TxView' = UndoneTx(LastEntry, TxView)
      PROVE  G
  <2>1. es # <<>> /\ LastEntry = es[Len(es)]
    BY <1>3, LastLeafEntry DEF LInv
  <2>2. Len(es) = Len(fs) + 1 /\ \A i \in 1..Len(fs) : fs[i] = es[i]
    BY <1>0, <1>3, <2>1, PopOf
  <2>3. TxTraced(TxView, es, T)
    OBVIOUS
  <2> HIDE DEF es, fs
  <2>4. TxTraced(UndoneTx(LastEntry, TxView), fs, T)
    BY <1>0, <2>1, <2>2, <2>3, TxTracedPop
  <2>5. TxContinues(T, T)
    BY DEF TxContinues
  <2> QED BY <1>3, <2>4, <2>5
<1>4. CASE TxUndo /\ UNCHANGED leafVars
  <2>1. Undoing /\ LastEntry \in Entry /\ es # <<>> /\ journal' = pop(journal)
    BY <1>4, TxUndoEntry
  <2>2. TxView' = UndoneTx(LastEntry, TxView)
    BY <1>0, <1>4, <2>1, TxUndoViews DEF AccessOrdered
  <2> QED BY <1>3, <2>1, <2>2
<1>5. CASE LeafReverts /\ UNCHANGED txVars
  <2>1. Undoing /\ journal' = pop(journal) /\ LastEntry.kind \notin TxKinds
    BY <1>5 DEF LeafReverts, AccountKinds, FieldKinds, TxKinds
  <2>2. UndoneTx(LastEntry, TxView) = TxView
    BY <2>1, UndoneTxOther
  <2> QED BY <1>3, <1>5, <1>s, <2>1, <2>2
<1>6. CASE Clears
  <2>1. fs = <<>> /\ validRevisions' = <<>>
    BY <1>6, ClearsLInv
  <2> DEFINE U == [n \in {0} |-> TxView']
  <2>2. U[0] = TxView' /\ Len(fs) = 0
    BY <2>1
  <2> HIDE DEF U
  <2>3. TxTraced(TxView', fs, U) /\ TxContinues(T, U)
    BY <2>1, <2>2 DEF TxTraced, TxContinues
  <2> QED BY <2>3
<1>7. CASE Keeps
  BY <1>7, <1>s DEF Keeps, TxContinues
<1> QED BY <1>1, <1>2, <1>4, <1>5, <1>6, <1>7, LeafStepCases

\* The access list is in order in the initial state ...
LEMMA AccessOrderedInit == Init => AccessOrdered
<1> SUFFICES ASSUME Init PROVE AccessOrdered
  OBVIOUS
<1>1. accessList = [addresses |-> [w \in Warm |-> Nil], slots |-> <<>>] /\ journal.entries = <<>>
  BY DEF Init, TxInit, JournalInit, newJournal, AL!newAccessList
<1>2. accessList \in AccessListType
  BY LInvInit DEF LInv, TypeOK, TxTypeOK, AccessListType
<1>3. AL!WellFormedAccessList(accessList)
  BY <1>1 DEF AL!WellFormedAccessList
<1>4. <<>> \in Seq(LeafEntry) /\ \A i \in 1..Len(<<>>) : <<>>[i].kind \notin AccessListKinds
  OBVIOUS
<1> QED BY <1>1, <1>2, <1>3, <1>4, OrderedWithout DEF AccessOrdered

\* ... and after every step.
LEMMA AccessOrderedStep ==
    ASSUME LInv, AccessOrdered, [Next]_vars
    PROVE  AccessListOrdered(accessList', journal'.entries)
<1> DEFINE es == journal.entries
           fs == journal'.entries
<1>0. /\ journal \in JournalOf(LeafEntry) /\ es \in Seq(LeafEntry) /\ fs \in Seq(LeafEntry)
      /\ AccessListOrdered(accessList, es) /\ TxTypeOK
  BY LInvStep DEF LInv, JournalOf, AccessOrdered, TypeOK
<1>1. CASE TxSetter
  BY <1>0, <1>1, LeafEntryTypes, TxSetterOrdered
<1>2. CASE (\E a \in Addr : CallRuns(a)) /\ UNCHANGED txVars
  <2>a. PICK a \in Addr : CallRuns(a)
    BY <1>2
  <2>1. PICK r : Runs(r, a) /\ Put(r)
    BY <2>a DEF CallRuns
  <2>2. Extends(es, fs, TxKinds) /\ accessList' = accessList
    BY <1>2, <2>1, CallExtends DEF Put, txVars
  <2>3. Extends(es, fs, AccessListKinds)
    BY <2>2 DEF Extends, TxKinds, AccessListKinds
  <2> HIDE DEF es, fs
  <2>4. AccessListOrdered(accessList, fs)
    BY <1>0, <2>3, ListAppendOther
  <2> QED BY <2>2, <2>4 DEF fs
<1>3. CASE TxUndo /\ UNCHANGED leafVars
  <2>1. LastEntry \in Entry /\ es # <<>>
    BY <1>3, TxUndoEntry
  <2> QED BY <1>0, <1>3, <2>1, TxUndoOrdered
<1>4. CASE LeafReverts /\ UNCHANGED txVars
  <2>1. /\ Undoing /\ journal' = pop(journal) /\ LastEntry.kind \notin AccessListKinds
        /\ accessList' = accessList
    BY <1>4 DEF LeafReverts, AccountKinds, FieldKinds, AccessListKinds, txVars
  <2>2. es # <<>> /\ LastEntry = es[Len(es)]
    BY <2>1, LastLeafEntry DEF LInv
  <2>3. Len(es) = Len(fs) + 1 /\ \A i \in 1..Len(fs) : fs[i] = es[i]
    BY <1>0, <2>1, <2>2, PopOf
  <2>4. es[Len(es)].kind \notin AccessListKinds
    BY <2>1, <2>2
  <2> HIDE DEF es, fs
  <2>5. AccessListOrdered(accessList, fs)
    BY <1>0, <2>3, <2>4, ListPopOther
  <2> QED BY <2>1, <2>5 DEF fs
<1>5. CASE Clears
  <2>1. fs = <<>> /\ accessList' = accessList
    BY <1>5, ClearsLInv DEF Clears, Copy, Finalise
  <2>2. accessList \in AccessListType /\ AL!WellFormedAccessList(accessList)
    BY <1>0 DEF AccessListOrdered
  <2>3. <<>> \in Seq(LeafEntry) /\ \A i \in 1..Len(<<>>) : <<>>[i].kind \notin AccessListKinds
    OBVIOUS
  <2> QED BY <2>1, <2>2, <2>3, OrderedWithout
<1>6. CASE Keeps
  BY <1>0, <1>6 DEF Keeps, txVars
<1> QED BY <1>1, <1>2, <1>3, <1>4, <1>5, <1>6, LeafStepCases

-----------------------------------------------------------------------------
(* The saved views over a step.                                            *)

Stays(i) == Idle \/ i <= reverting

\* A revision that can still be reverted to was there before, or is taken.
LEMMA RevisionSteps ==
    ASSUME LInv, [Next]_vars, NEW i \in 1..Len(validRevisions'), Idle' \/ i <= reverting'
    PROVE  \/ /\ i \in 1..Len(validRevisions) /\ validRevisions'[i] = validRevisions[i]
              /\ Stays(i)
           \/ /\ i = Len(validRevisions) + 1 /\ journal' = journal
              /\ validRevisions'[i].journalIndex = Len(journal.entries)
              /\ UNCHANGED <<txVars, leafVars>>
<1>0. RevisionTypes /\ RevisionsOrdered /\ TxTypeOK /\ Len(validRevisions) \in Nat
  BY DEF LInv, RevisionTypes, TypeOK
<1>1. CASE UNCHANGED <<validRevisions, reverting>>
  BY <1>1 DEF Stays, Idle
<1>2. CASE TxSetter
  BY <1>0, <1>1, <1>2, TxSetterStep DEF TxGrows
<1>3. CASE \E a \in Addr : CallRuns(a)
  BY <1>1, <1>3 DEF CallRuns, Put
<1>4. CASE TxUndo /\ UNCHANGED leafVars
  BY <1>0, <1>1, <1>4, TxUndoEntry, TxUndoTypes
<1>5. CASE LeafReverts
  BY <1>1, <1>5 DEF LeafReverts
<1>6. CASE Clears
  <2>1. Len(validRevisions') = 0
    BY <1>6, ClearsLInv
  <2> QED BY <2>1
<1>7. CASE Keeps
  <2>1. journal' = journal /\ UNCHANGED <<txVars, leafVars>>
    BY <1>7 DEF Keeps
  <2>2. CASE Snapshot
    <3>1. /\ Idle /\ Len(validRevisions') = Len(validRevisions) + 1
          /\ \A j \in 1..Len(validRevisions) : validRevisions'[j] = validRevisions[j]
          /\ validRevisions'[Len(validRevisions) + 1].journalIndex = Len(journal.entries)
      BY <1>0, <2>2, SnapshotRevisions DEF Snapshot
    <3>2. i \in 1..Len(validRevisions) \/ i = Len(validRevisions) + 1
      BY <1>0, <3>1
    <3> QED BY <2>1, <3>1, <3>2 DEF Stays
  <2>3. CASE \E id : RevertToSnapshot(id)
    BY <2>3 DEF RevertToSnapshot, Stays
  <2>4. CASE RevertDone
    <3>1. /\ Len(validRevisions') = reverting - 1 /\ reverting \in 1..Len(validRevisions)
          /\ \A j \in 1..(reverting - 1) : validRevisions'[j] = validRevisions[j]
      BY <1>0, <2>4, DoneRevisions
    <3>2. i \in 1..Len(validRevisions) /\ i <= reverting /\ validRevisions'[i] = validRevisions[i]
      BY <1>0, <3>1
    <3> QED BY <3>2 DEF Stays
  <2> QED BY <1>1, <1>7, <2>2, <2>3, <2>4 DEF Keeps
<1> QED BY <1>2, <1>3, <1>4, <1>5, <1>6, <1>7, LeafStepCases

\* What a step does to the saved views.
SavedNext ==
    /\ Len(saved') = Len(validRevisions')
    /\ \A i \in 1..Len(validRevisions') :
          saved'[i] = IF i <= Len(saved) THEN saved[i] ELSE View

\* The saved views follow the revisions.
LEMMA SavedStep ==
    ASSUME validRevisions \in Seq(Revision), validRevisions' \in Seq(Revision),
           Len(saved) = Len(validRevisions), [HNext]_historyVars
    PROVE  SavedNext
<1>1. Len(validRevisions) \in Nat /\ Len(validRevisions') \in Nat
  OBVIOUS
<1>2. CASE HNext
  <2> DEFINE n == Len(validRevisions')
             F(i) == IF i <= Len(saved) THEN saved[i] ELSE View
  <2>1. saved' = [i \in 1..n |-> F(i)]
    BY <1>2 DEF HNext
  <2> HIDE DEF n, F
  <2>2. Len([i \in 1..n |-> F(i)]) = n
    BY <1>1 DEF n
  <2>3. Len(saved') = n /\ \A i \in 1..n : saved'[i] = F(i)
    BY <2>1, <2>2
  <2> QED BY <2>3 DEF SavedNext, n, F
<1>3. CASE UNCHANGED historyVars
  <2>1. saved' = saved /\ validRevisions' = validRevisions
    BY <1>3 DEF historyVars, vars, journalVars
  <2> QED BY <1>1, <2>1 DEF SavedNext
<1> QED BY <1>2, <1>3

\* A saved view tells what the stories of the accounts and of the transaction
\* state tell of n entries.
Agrees(v, A, T, n) ==
    /\ v.tx = T[n]
    /\ \A a \in Addr : Matches(A[n][a], v.accounts[a])

\* The saved view of every revision that is still to be reverted to agrees with
\* the stories.
Kept(A, T) ==
    \A i \in 1..Len(validRevisions) :
        Stays(i) => Agrees(saved[i], A, T, validRevisions[i].journalIndex)

\* A step keeps the saved views in agreement with the stories.
LEMMA KeptStep ==
    ASSUME LInv, LInv', [Next]_vars, SavedNext, Len(saved) = Len(validRevisions),
           NEW A, NEW B, NEW T, NEW U, Told(A), TxTraced(TxView, journal.entries, T),
           Kept(A, T), Continues(A, B), TxContinues(T, U)
    PROVE  Kept(B, U)'
<1> SUFFICES ASSUME NEW i \in 1..Len(validRevisions'), Idle' \/ i <= reverting'
             PROVE  Agrees(saved'[i], B, U, validRevisions'[i].journalIndex)
  BY DEF Kept, Stays, Agrees, Matches
<1> DEFINE m == validRevisions'[i].journalIndex
<1>0. /\ Len(validRevisions) \in Nat /\ Len(journal.entries) \in Nat
      /\ Len(journal'.entries) \in Nat /\ validRevisions' \in Seq(Revision)
      /\ validRevisions \in Seq(Revision)
  BY DEF LInv, RevisionTypes
<1>1. m \in Nat /\ m <= Len(journal'.entries) /\ validRevisions' # <<>>
  BY <1>0, RevisionFields DEF LInv, RevisionsOrdered, Idle
<1>2. ASSUME m <= Len(journal.entries), NEW v, Agrees(v, A, T, m)
      PROVE  Agrees(v, B, U, m)
  <2> HIDE DEF m
  <2>1. U[m] = T[m] /\ Follows(A, B, m)
    BY <1>0, <1>1, <1>2 DEF Continues, TxContinues
  <2>2. \A a \in Addr : B[m][a] = A[m][a] \/ B[m][a] = Fake
    BY <1>1, <2>1 DEF Follows
  <2> QED BY <1>2, <2>1, <2>2 DEF Agrees, Matches
<1>3. CASE /\ i \in 1..Len(validRevisions) /\ validRevisions'[i] = validRevisions[i]
           /\ Stays(i)
  <2>1. m = validRevisions[i].journalIndex /\ m <= Len(journal.entries)
    BY <1>0, <1>3, RevisionFields DEF LInv, RevisionsOrdered, Stays, Idle
  <2>2. saved'[i] = saved[i]
    BY <1>0, <1>3 DEF SavedNext
  <2>3. Agrees(saved[i], A, T, m)
    BY <1>3, <2>1 DEF Kept
  <2> QED BY <1>2, <2>1, <2>2, <2>3
<1>4. CASE /\ i = Len(validRevisions) + 1 /\ journal' = journal
           /\ m = Len(journal.entries)
  <2>1. saved'[i] = View
    BY <1>0, <1>4 DEF SavedNext
  <2>2. View.tx = TxView /\ \A a \in Addr : View.accounts[a] = AccountView(a)
    BY DEF View
  <2>3. T[m] = TxView
    BY <1>4 DEF TxTraced
  <2>4. ASSUME NEW a \in Addr PROVE Matches(A[m][a], View.accounts[a])
    <3>1. A[Len(journal.entries)][a] = Masks[stateObjects[a]][a]
      BY DEF Told, Story, Chain
    <3>2. Matches(Masks[stateObjects[a]][a], AccountView(a))
      BY MaskMatches
    <3> QED BY <1>4, <2>2, <3>1, <3>2
  <2>5. Agrees(View, A, T, m)
    BY <2>2, <2>3, <2>4 DEF Agrees
  <2>6. m <= Len(journal.entries)
    BY <1>0, <1>4
  <2> QED BY <1>2, <2>1, <2>5, <2>6
<1> QED BY <1>3, <1>4, RevisionSteps

LeafTold ==
    ~failed => \E A, T : /\ Told(A)
                         /\ TxTraced(TxView, journal.entries, T)
                         /\ Kept(A, T)

\* The inductive invariant of the specification with saved views.
HInv ==
    /\ LInv
    /\ MInv
    /\ AccessOrdered
    /\ Len(saved) = Len(validRevisions)
    /\ LeafTold

\* In the initial state nothing is saved, and nothing is told yet.
LEMMA HInvInit == HInit => HInv
<1> SUFFICES ASSUME HInit PROVE HInv
  OBVIOUS
<1>1. Init /\ saved = <<>> /\ validRevisions = <<>> /\ journal.entries = <<>> /\ ~failed
  BY DEF HInit, Init, JournalInit, newJournal, New
<1>2. CInv /\ AccessOrdered
  BY <1>1, CInvInit, AccessOrderedInit
<1>3. PICK A : Told(A)
  BY <1>1, <1>2 DEF CInv
<1> DEFINE T == [n \in {0} |-> TxView]
<1>4. T[0] = TxView /\ Len(journal.entries) = 0 /\ Len(validRevisions) = 0
  BY <1>1
<1> HIDE DEF T
<1>5. TxTraced(TxView, journal.entries, T) /\ Kept(A, T)
  BY <1>4 DEF TxTraced, Kept
<1>6. LeafTold
  BY <1>3, <1>5 DEF LeafTold
<1> QED BY <1>1, <1>2, <1>6 DEF HInv, CInv

\* Every step keeps it.
LEMMA HInvStep ==
    ASSUME HInv, [HNext]_historyVars
    PROVE  HInv'
<1>1. /\ LInv /\ MInv /\ AccessOrdered /\ Len(saved) = Len(validRevisions) /\ LeafTold
      /\ [Next]_vars
  BY DEF HInv, HNext, historyVars
<1>2. LInv' /\ MInv' /\ AccessListOrdered(accessList', journal'.entries)
  BY <1>1, LInvStep, MInvStep, AccessOrderedStep
<1>3. SavedNext
  BY <1>1, <1>2, SavedStep DEF LInv, RevisionTypes
<1>4. ASSUME ~failed'
      PROVE  \E B, U : /\ Told(B)'
                       /\ TxTraced(TxView', journal'.entries, U)
                       /\ Kept(B, U)'
  <2>1. PICK A, T : Told(A) /\ TxTraced(TxView, journal.entries, T) /\ Kept(A, T)
    BY <1>1, <1>4, FailureStays DEF LeafTold
  <2>2. PICK B : Story(B, journal'.entries, stateObjects', Visited', Masks') /\ Continues(A, B)
    BY <1>1, <1>4, <2>1, StoryStep
  <2>3. PICK U : TxTraced(TxView', journal'.entries, U) /\ TxContinues(T, U)
    BY <1>1, <2>1, TxTracedStep
  <2>4. Kept(B, U)'
    BY <1>1, <1>2, <1>3, <2>1, <2>2, <2>3, KeptStep
  <2>5. Told(B)'
    BY <2>2 DEF Told
  <2> QED BY <2>3, <2>4, <2>5
<1>5. LeafTold'
  BY <1>4 DEF LeafTold, TxTraced
<1> QED BY <1>2, <1>3, <1>5 DEF HInv, AccessOrdered, SavedNext

\* At the end of a revert the stories have come back to the saved view.
LEMMA RevertedToSaved ==
    ASSUME HInv
    PROVE  LeafRevertRestores
<1> SUFFICES ASSUME ~Idle, ~Undoing, ~failed
             PROVE  /\ TxView = saved[reverting].tx
                    /\ \A a \in Addr : Genuine(a) => AccountView(a) = saved[reverting].accounts[a]
  BY DEF LeafRevertRestores
<1> DEFINE n == validRevisions[reverting].journalIndex
           v == saved[reverting]
<1>1. PICK A, T : Told(A) /\ TxTraced(TxView, journal.entries, T) /\ Kept(A, T)
  BY DEF HInv, LeafTold
<1>2. /\ LInv /\ validRevisions \in Seq(Revision) /\ Len(journal.entries) \in Nat
      /\ reverting \in 1..Len(validRevisions) /\ n <= Len(journal.entries)
  BY DEF HInv, LInv, RevisionTypes, RevisionsOrdered, Idle
<1>3. n \in Nat /\ Stays(reverting)
  BY <1>2, RevisionFields DEF Stays
<1>4. n = Len(journal.entries)
  BY <1>2, <1>3 DEF Undoing
<1>5. Agrees(v, A, T, n)
  BY <1>1, <1>2, <1>3 DEF Kept
<1>6. TxView = T[n] /\ \A a \in Addr : A[n][a] = Masks[stateObjects[a]][a]
  BY <1>1, <1>4 DEF TxTraced, Told, Story, Chain
<1> HIDE DEF n, v
<1>7. ASSUME NEW a \in Addr, Genuine(a) PROVE AccountView(a) = v.accounts[a]
  <2>1. Masks[stateObjects[a]][a] = Plain(AccountView(a))
    BY <1>2, <1>7, MaskMatches
  <2>2. Plain(AccountView(a)) = Plain(v.accounts[a]) \/ Plain(AccountView(a)) = Fake
    BY <1>5, <1>6, <2>1 DEF Agrees, Matches
  <2> QED BY <2>2, MaskFields
<1> QED BY <1>5, <1>6, <1>7 DEF Agrees, v

(***************************************************************************)
(* At the end of RevertToSnapshot a caller of direct_by_leaf observes what *)
(* it observed at the snapshot: existence, balance, nonce, code, storage,  *)
(* committed storage and suicide marks of every account without fake       *)
(* storage, and the refund, logs, preimages, access list and transient     *)
(* storage, for every number of accounts, slots and snapshots, unless a    *)
(* query of an existing row has failed.  That the revert of a reset leaves *)
(* the destruct mark behind is not seen.                                   *)
(***************************************************************************)
THEOREM LeafAlwaysRestores == HSpec => []LeafRevertRestores
<1>1. HInv /\ [HNext]_historyVars => HInv'
  BY HInvStep
<1>2. HInv => LeafRevertRestores
  BY RevertedToSaved
<1> QED BY <1>1, <1>2, HInvInit, PTL DEF HSpec
=============================================================================
