--------------------------- MODULE StateDB_proofs ---------------------------
(***************************************************************************)
(* Proofs about StateDB, for every set of accounts, slots, values, amounts *)
(* and bounds, and for every behaviour of callers and database in Env.     *)
(***************************************************************************)
EXTENDS StateDB, TxState_proofs

-----------------------------------------------------------------------------
(* Typing of the account object's operators.                               *)

\* newObject returns an object.
LEMMA NewObjectType ==
    ASSUME NEW d \in Account
    PROVE  newObject(d) \in Object /\ newObject(d) # Nil
<1>1. newObject(d) \in Object
  BY DEF newObject, Account, Object, NoStorage, Cache
<1> QED BY <1>1, ConstantsAssumption

\* The account of a newly created object is an account.
LEMMA NewAccountType == NewAccount \in Account
BY ConstantsAssumption DEF NewAccount, Account, EmptyRoot, Slots

\* The trie of an object holds a word at every key.
LEMMA GetTrieType ==
    ASSUME NEW o \in Object
    PROVE  getTrie(o) \in Slots
BY DEF getTrie, Object

\* Reading a committed slot caches a word and does not delete the object.
LEMMA CachedType ==
    ASSUME NEW o \in Object, NEW d \in BOOLEAN, NEW k \in Key
    PROVE  /\ Cached(o, d, k) \in Object
           /\ Cached(o, d, k).deleted = o.deleted
<1>1. getTrie(o)[k] \in Word
  BY GetTrieType DEF Slots
<1>2. [o.originStorage EXCEPT ![k] = getTrie(o)[k]] \in Cache
  BY <1>1 DEF Object, Cache
<1> QED BY <1>2, GetTrieType DEF Cached, Object

\* Reading a slot returns a word, wherever it is found.
LEMMA StateValueType ==
    ASSUME NEW o \in Object, NEW d \in BOOLEAN, NEW k \in Key
    PROVE  StateValue(o, d, k) \in Word
<1>1. getTrie(o)[k] \in Word
  BY GetTrieType DEF Slots
<1>2. o.dirtyStorage \in Cache /\ o.pendingStorage \in Cache /\ o.originStorage \in Cache
  BY DEF Object
<1> QED BY <1>1, <1>2, ConstantsAssumption DEF StateValue, CommittedValue, Cache

\* finalise moves the dirty slots of an object and does not delete it.
LEMMA FinaliseType ==
    ASSUME NEW o \in Object
    PROVE  /\ finalise(o) \in Object
           /\ finalise(o).deleted = o.deleted
<1>1. [k \in Key |-> IF o.dirtyStorage[k] # Nil THEN o.dirtyStorage[k]
                     ELSE o.pendingStorage[k]] \in Cache
  BY DEF Object, Cache
<1>2. NoStorage \in Cache
  BY DEF NoStorage, Cache
<1> QED BY <1>1, <1>2 DEF finalise, Object

\* Writing changed slots, all or some, leaves an object with a trie.
LEMMA WrittenType ==
    ASSUME NEW o \in Object, NEW ks \in SUBSET Changed(o), NEW ws \in SUBSET ks
    PROVE  /\ Written(o, ks, ws) \in Object
           /\ Written(o, ks, ws).trie \in Slots
           /\ Written(o, ks, ws).deleted = o.deleted
<1>1. o.pendingStorage \in Cache /\ o.originStorage \in Cache /\ getTrie(o) \in Slots
  BY GetTrieType DEF Object
<1>2. \A k \in ks : k \in Key /\ o.pendingStorage[k] \in Word
  BY <1>1 DEF Changed, Cache
<1>3. [k \in Key |-> IF k \in ks THEN o.pendingStorage[k] ELSE o.originStorage[k]] \in Cache
  BY <1>1 DEF Cache
<1>4. [k \in Key |-> IF k \in ws THEN o.pendingStorage[k] ELSE getTrie(o)[k]] \in Slots
  BY <1>1, <1>2 DEF Slots
<1> QED BY <1>3, <1>4 DEF Written, Object

\* updateRoot leaves an object, deleted or not as before.
LEMMA UpdateRootType ==
    ASSUME NEW o \in Object
    PROVE  updateRoot(o) \in Object /\ updateRoot(o).deleted = o.deleted
<1> DEFINE f == finalise(o)
<1>1. f \in Object /\ f.deleted = o.deleted
  BY FinaliseType
<1>2. NoStorage \in Cache
  BY DEF NoStorage, Cache
<1>3. updateTrie(o) \in Object /\ updateTrie(o).deleted = o.deleted
  <2> DEFINE w == Written(f, Changed(f), Changed(f))
  <2>1. w \in Object /\ w.deleted = f.deleted
    BY <1>1, WrittenType
  <2>2. [w EXCEPT !.pendingStorage = NoStorage] \in Object
    BY <2>1, <1>2 DEF Object
  <2>3. [w EXCEPT !.pendingStorage = NoStorage].deleted = w.deleted
    BY <2>1 DEF Object
  <2> QED BY <1>1, <2>1, <2>2, <2>3 DEF updateTrie
<1> QED BY <1>3, GetTrieType DEF updateRoot, Object

\* So does an updateRoot that fails at any of its slots.
LEMMA UpdateRootFailedType ==
    ASSUME NEW o \in Object, NEW f \in updateRootFailed(o)
    PROVE  f \in Object /\ f.deleted = o.deleted
<1> DEFINE g == finalise(o)
<1>1. g \in Object /\ g.deleted = o.deleted
  BY FinaliseType
<1>2. f = g \/ \E done \in SUBSET Changed(g) : \E k \in Changed(g) \ done :
                  f = Written(g, done \cup {k}, done)
  BY DEF updateRootFailed
<1> QED BY <1>1, <1>2, WrittenType

-----------------------------------------------------------------------------
(* Typing of the journal's operators.                                      *)

JournalType == [entries : Seq(Entry), dirties : [Addr -> Int]]

\* An empty journal is a journal.
LEMMA NewJournalType == newJournal \in JournalType
BY DEF newJournal, JournalType

\* append adds its entry at the end of the journal.
LEMMA AppendType ==
    ASSUME NEW j \in JournalType, NEW e \in Entry
    PROVE  /\ append(j, e) \in JournalType
           /\ append(j, e).entries = Append(j.entries, e)
<1>1. JournalType = JournalOf(Entry)
  BY DEF JournalType, JournalOf
<1> QED BY <1>1, AppendOf

\* dirty leaves the entries alone.
LEMMA DirtyType ==
    ASSUME NEW j \in JournalType, NEW a \in Addr
    PROVE  dirty(j, a) \in JournalType /\ dirty(j, a).entries = j.entries
<1>1. JournalType = JournalOf(Entry)
  BY DEF JournalType, JournalOf
<1> QED BY <1>1, DirtyOf

\* Undoing the last entry shortens the journal by it.
LEMMA PopType ==
    ASSUME NEW j \in JournalType, j.entries # <<>>
    PROVE  /\ pop(j) \in JournalType
           /\ pop(j).entries = SubSeq(j.entries, 1, Len(j.entries) - 1)
           /\ Len(pop(j).entries) = Len(j.entries) - 1
           /\ \A i \in 1..Len(pop(j).entries) : pop(j).entries[i] = j.entries[i]
<1>1. JournalType = JournalOf(Entry) /\ Len(j.entries) \in Nat
  BY DEF JournalType, JournalOf
<1>2. pop(j) \in JournalType
  BY <1>1, PopOf
<1>3. Len(pop(j).entries) \in Nat
  BY <1>2 DEF JournalType
<1> QED BY <1>1, <1>2, <1>3, PopOf

-----------------------------------------------------------------------------
(* The threaded record, and what each method does to it: it stays well     *)
(* typed, the lookups only add objects, and the getters leave the journal. *)

ObjectMap == [Addr -> Object \cup {Nil}]

Threaded ==
    [objs : ObjectMap, destruct : SUBSET Addr, journal : JournalType, err : BOOLEAN]

\* The variables, threaded through a call as one record, keep their types.
LEMMA StateType == TypeOK => State \in Threaded
BY DEF TypeOK, JournalTypeOK, AccountsTypeOK, State, Threaded, JournalType, ObjectMap

\* A live address has an object.
LEMMA LiveObject ==
    ASSUME NEW objs \in ObjectMap, NEW a \in Addr, Live(objs, a)
    PROVE  objs[a] \in Object
BY DEF Live, ObjectMap

\* Setting one entry of stateObjects leaves the others.
LEMMA UpdatedMap ==
    ASSUME NEW objs \in ObjectMap, NEW a \in Addr, NEW o \in Object \cup {Nil}
    PROVE  /\ [objs EXCEPT ![a] = o] \in ObjectMap
           /\ [objs EXCEPT ![a] = o][a] = o
           /\ \A b \in Addr : b # a => [objs EXCEPT ![a] = o][b] = objs[b]
BY DEF ObjectMap

\* getDeletedStateObject leaves the journal alone and only ever adds an object.
LEMMA LookupType ==
    ASSUME NEW s \in Threaded, NEW a \in Addr, NEW ok \in BOOLEAN, trie \in AccountTrie
    PROVE  LET r == getDeletedStateObject(s, a, ok)
           IN /\ r \in Threaded
              /\ r.journal = s.journal
              /\ r.destruct = s.destruct
              /\ \A b \in Addr : s.objs[b] # Nil => r.objs[b] = s.objs[b]
<1> DEFINE r == getDeletedStateObject(s, a, ok)
<1>1. CASE r = s
  BY <1>1
<1>2. CASE r = [s EXCEPT !.err = TRUE]
  BY <1>2 DEF Threaded
<1>3. CASE s.objs[a] = Nil /\ trie[a] # Nil /\ r = [s EXCEPT !.objs[a] = newObject(trie[a])]
  <2>1. newObject(trie[a]) \in Object
    BY <1>3, NewObjectType DEF AccountTrie
  <2>2. s.objs \in ObjectMap
    BY DEF Threaded
  <2>3. r = [s EXCEPT !.objs = [s.objs EXCEPT ![a] = newObject(trie[a])]]
    BY <1>3
  <2>4. [s.objs EXCEPT ![a] = newObject(trie[a])] \in ObjectMap
    BY <2>1, <2>2, UpdatedMap
  <2>5. r.objs = [s.objs EXCEPT ![a] = newObject(trie[a])] /\ r.journal = s.journal
        /\ r.destruct = s.destruct /\ r.err = s.err
    BY <2>3 DEF Threaded
  <2>6. \A b \in Addr : s.objs[b] # Nil => r.objs[b] = s.objs[b]
    BY <2>5, <2>2, <2>1, UpdatedMap, <1>3
  <2>7. r \in Threaded
    BY <2>3, <2>4 DEF Threaded
  <2> QED BY <2>5, <2>6, <2>7
<1> QED BY <1>1, <1>2, <1>3 DEF getDeletedStateObject

\* What a step that appends one entry for account a and sets its object does.
LEMMA Journal1Type ==
    ASSUME NEW s \in Threaded, NEW a \in Addr, NEW e \in Entry, NEW o \in Object
    PROVE  LET r == Journal1(s, a, e, o)
           IN /\ r \in Threaded
              /\ r.objs = [s.objs EXCEPT ![a] = o]
              /\ r.destruct = s.destruct
              /\ r.err = s.err
              /\ r.journal = append(s.journal, e)
<1>1. s.objs \in ObjectMap /\ s.journal \in JournalType
  BY DEF Threaded
<1>2. append(s.journal, e) \in JournalType
  BY <1>1, AppendType
<1>3. [s.objs EXCEPT ![a] = o] \in ObjectMap
  BY <1>1, UpdatedMap
<1> DEFINE r == [s EXCEPT !.journal = append(s.journal, e), !.objs = [s.objs EXCEPT ![a] = o]]
<1>4. r \in Threaded /\ r.objs = [s.objs EXCEPT ![a] = o] /\ r.destruct = s.destruct
      /\ r.err = s.err /\ r.journal = append(s.journal, e)
  BY <1>1, <1>2, <1>3 DEF Threaded
<1>5. Journal1(s, a, e, o) = r
  BY DEF Journal1, Threaded
<1> QED BY <1>4, <1>5

-----------------------------------------------------------------------------
(* The inductive invariant, as a predicate of the threaded record.  P is   *)
(* the set of pending and dirty addresses, which no setter changes, and    *)
(* len is the length of the journal when the method was called.            *)

Good(s, P, len) ==
    /\ s \in Threaded
    /\ \A a \in P : s.objs[a] # Nil
    /\ CreatedNotPending(s.journal.entries, P)
    /\ RevertChain(s.journal.entries, s.objs)
    /\ len <= Len(s.journal.entries)

\* The chain survives when live objects stay live.
LEMMA ChainKeepsLive ==
    ASSUME NEW es \in Seq(Entry), NEW objs, NEW objs2,
           \A a \in Addr : Live(objs, a) => Live(objs2, a),
           RevertChain(es, objs)
    PROVE  RevertChain(es, objs2)
<1> SUFFICES ASSUME NEW i \in 1..Len(es), es[i].kind \in DerefKinds
             PROVE  Recoverable(es, objs2, i)
  BY DEF RevertChain
<1>1. Recoverable(es, objs, i)
  BY DEF RevertChain
<1>2. es[i].account \in Addr
  BY EntryFields DEF DerefKinds
<1> QED BY <1>1, <1>2 DEF Recoverable

\* Appending an entry that replaces no object keeps the chain, if a change
\* that needs its object finds it live.
LEMMA ChainAppend ==
    ASSUME NEW es \in Seq(Entry), NEW objs, NEW e \in Entry,
           e.kind \notin {"createObject", "resetObject"},
           e.kind \in DerefKinds => Live(objs, e.account),
           RevertChain(es, objs)
    PROVE  RevertChain(Append(es, e), objs)
<1> DEFINE fs == Append(es, e)
<1>1. Len(fs) = Len(es) + 1 /\ fs[Len(fs)] = e /\ \A i \in 1..Len(es) : fs[i] = es[i]
  OBVIOUS
<1>2. Len(es) \in Nat
  OBVIOUS
<1> HIDE DEF fs
<1> SUFFICES ASSUME NEW i \in 1..Len(fs), fs[i].kind \in DerefKinds
             PROVE  Recoverable(fs, objs, i)
  BY DEF RevertChain, fs
<1>3. CASE i = Len(fs)
  BY <1>1, <1>2, <1>3 DEF Recoverable
<1>4. CASE i \in 1..Len(es)
  <2> DEFINE a == es[i].account
  <2>1. Recoverable(es, objs, i) /\ fs[i] = es[i]
    BY <1>1, <1>4 DEF RevertChain
  <2>2. CASE Live(objs, a) /\ \A m \in (i + 1)..Len(es) : ~Replaces(es[m], a)
    <3>1. \A m \in (i + 1)..Len(fs) : ~Replaces(fs[m], a)
      BY <1>1, <1>2, <1>4, <2>2 DEF Replaces
    <3> QED BY <2>1, <2>2, <3>1 DEF Recoverable
  <2>3. CASE \E m \in (i + 1)..Len(es) :
                /\ es[m].kind = "resetObject"
                /\ es[m].account = a
                /\ ~es[m].prev.deleted
                /\ \A n \in (i + 1)..(m - 1) : ~Replaces(es[n], a)
    <3>1. PICK m \in (i + 1)..Len(es) :
                /\ es[m].kind = "resetObject"
                /\ es[m].account = a
                /\ ~es[m].prev.deleted
                /\ \A n \in (i + 1)..(m - 1) : ~Replaces(es[n], a)
      BY <2>3
    <3>2. /\ m \in (i + 1)..Len(fs)
          /\ fs[m] = es[m]
          /\ \A n \in (i + 1)..(m - 1) : fs[n] = es[n]
      BY <1>1, <1>2, <1>4, <3>1
    <3> QED BY <2>1, <3>1, <3>2 DEF Recoverable
  <2> QED BY <2>1, <2>2, <2>3 DEF Recoverable
<1> QED BY <1>1, <1>2, <1>3, <1>4

\* Creating or resetting the object of a: a reset keeps the object it replaces.
LEMMA ChainReplace ==
    ASSUME NEW es \in Seq(Entry), NEW objs \in ObjectMap, NEW objs2, NEW e \in Entry,
           NEW a \in Addr,
           e.account = a,
           \/ e.kind = "createObject" /\ objs[a] = Nil
           \/ e.kind = "resetObject" /\ e.prev = objs[a],
           \A b \in Addr \ {a} : objs2[b] = objs[b],
           RevertChain(es, objs)
    PROVE  RevertChain(Append(es, e), objs2)
<1> DEFINE fs == Append(es, e)
<1>1. Len(fs) = Len(es) + 1 /\ fs[Len(fs)] = e /\ \A i \in 1..Len(es) : fs[i] = es[i]
  OBVIOUS
<1>2. Len(es) \in Nat
  OBVIOUS
<1> HIDE DEF fs
<1> SUFFICES ASSUME NEW i \in 1..Len(fs), fs[i].kind \in DerefKinds
             PROVE  Recoverable(fs, objs2, i)
  BY DEF RevertChain, fs
<1>3. i \in 1..Len(es) /\ fs[i] = es[i]
  BY <1>1, <1>2 DEF DerefKinds
<1>4. Recoverable(es, objs, i)
  BY <1>3 DEF RevertChain
<1> DEFINE b == es[i].account
<1>5. b \in Addr
  BY <1>3, EntryFields DEF DerefKinds
<1>6. CASE \E m \in (i + 1)..Len(es) :
                /\ es[m].kind = "resetObject"
                /\ es[m].account = b
                /\ ~es[m].prev.deleted
                /\ \A n \in (i + 1)..(m - 1) : ~Replaces(es[n], b)
  <2>1. PICK m \in (i + 1)..Len(es) :
                /\ es[m].kind = "resetObject"
                /\ es[m].account = b
                /\ ~es[m].prev.deleted
                /\ \A n \in (i + 1)..(m - 1) : ~Replaces(es[n], b)
    BY <1>6
  <2>2. /\ m \in (i + 1)..Len(fs)
        /\ fs[m] = es[m]
        /\ \A n \in (i + 1)..(m - 1) : fs[n] = es[n]
    BY <1>1, <1>2, <1>3, <2>1
  <2> QED BY <1>3, <2>1, <2>2 DEF Recoverable
<1>7. CASE Live(objs, b) /\ \A m \in (i + 1)..Len(es) : ~Replaces(es[m], b)
  <2>1. CASE b = a
    <3>1. e.kind = "resetObject" /\ ~e.prev.deleted
      BY <1>7, <2>1 DEF Live
    <3>2. \A n \in (i + 1)..(Len(fs) - 1) : ~Replaces(fs[n], b)
      BY <1>1, <1>2, <1>3, <1>7
    <3>3. Len(fs) \in (i + 1)..Len(fs)
      BY <1>1, <1>2, <1>3
    <3> QED BY <1>1, <1>3, <2>1, <3>1, <3>2, <3>3 DEF Recoverable
  <2>2. CASE b # a
    <3>1. Live(objs2, b)
      BY <1>5, <1>7, <2>2 DEF Live
    <3>2. \A m \in (i + 1)..Len(fs) : ~Replaces(fs[m], b)
      BY <1>1, <1>2, <1>3, <1>7, <2>2 DEF Replaces
    <3> QED BY <1>3, <3>1, <3>2 DEF Recoverable
  <2> QED BY <2>1, <2>2
<1> QED BY <1>4, <1>6, <1>7 DEF Recoverable

\* Reverting the last entry: a creation removes an object no earlier change
\* needs, a reset brings back the one earlier changes need.
LEMMA ChainPop ==
    ASSUME NEW es \in Seq(Entry), NEW objs, NEW objs2, NEW e \in Entry, NEW fs \in Seq(Entry),
           Len(es) = Len(fs) + 1, e = es[Len(es)],
           \A i \in 1..Len(fs) : fs[i] = es[i],
           \/ /\ e.kind \notin {"createObject", "resetObject"}
              /\ \A a \in Addr : Live(objs, a) => Live(objs2, a)
           \/ /\ e.kind = "createObject"
              /\ \A a \in Addr \ {e.account} : objs2[a] = objs[a]
           \/ /\ e.kind = "resetObject"
              /\ objs2[e.account] = e.prev
              /\ \A a \in Addr \ {e.account} : objs2[a] = objs[a],
           RevertChain(es, objs)
    PROVE  RevertChain(fs, objs2)
<1> SUFFICES ASSUME NEW i \in 1..Len(fs), fs[i].kind \in DerefKinds
             PROVE  Recoverable(fs, objs2, i)
  BY DEF RevertChain
<1>1. Len(fs) \in Nat
  OBVIOUS
<1>2. i \in 1..Len(es) /\ fs[i] = es[i]
  BY <1>1
<1>3. Recoverable(es, objs, i)
  BY <1>2 DEF RevertChain
<1> DEFINE b == es[i].account
<1>4. b \in Addr
  BY <1>2, EntryFields DEF DerefKinds
<1>5. CASE Live(objs, b) /\ \A m \in (i + 1)..Len(es) : ~Replaces(es[m], b)
  <2>1. ~Replaces(e, b)
    BY <1>1, <1>2, <1>5
  <2>2. Live(objs2, b)
    BY <1>4, <1>5, <2>1 DEF Live, Replaces
  <2>3. \A m \in (i + 1)..Len(fs) : ~Replaces(fs[m], b)
    BY <1>1, <1>2, <1>5
  <2> QED BY <1>2, <2>2, <2>3 DEF Recoverable
<1>6. CASE \E m \in (i + 1)..Len(es) :
                /\ es[m].kind = "resetObject"
                /\ es[m].account = b
                /\ ~es[m].prev.deleted
                /\ \A n \in (i + 1)..(m - 1) : ~Replaces(es[n], b)
  <2>1. PICK m \in (i + 1)..Len(es) :
                /\ es[m].kind = "resetObject"
                /\ es[m].account = b
                /\ ~es[m].prev.deleted
                /\ \A n \in (i + 1)..(m - 1) : ~Replaces(es[n], b)
    BY <1>6
  <2>2. CASE m \in 1..Len(fs)
    <3>1. /\ m \in (i + 1)..Len(fs)
          /\ fs[m] = es[m]
          /\ \A n \in (i + 1)..(m - 1) : fs[n] = es[n]
      BY <1>1, <1>2, <2>1, <2>2
    <3> QED BY <1>2, <2>1, <3>1 DEF Recoverable
  <2>3. CASE m = Len(es)
    <3>1. objs2[b] = e.prev /\ e.prev \in Object
      BY <2>1, <2>3, EntryFields
    <3>2. Live(objs2, b)
      BY <2>1, <2>3, <3>1, ConstantsAssumption DEF Live
    <3>3. \A n \in (i + 1)..Len(fs) : ~Replaces(fs[n], b)
      BY <1>1, <1>2, <2>1, <2>3
    <3> QED BY <1>2, <3>2, <3>3 DEF Recoverable
  <2> QED BY <1>1, <2>1, <2>2, <2>3
<1> QED BY <1>3, <1>5, <1>6 DEF Recoverable

-----------------------------------------------------------------------------
(* Every method keeps the threaded record good.                            *)

\* Looking an account up preserves the invariant, also when the read fails.
LEMMA LookupGood ==
    ASSUME NEW P \in SUBSET Addr, NEW len \in Nat, NEW s, Good(s, P, len),
           NEW a \in Addr, NEW ok \in BOOLEAN,
           trie \in AccountTrie
    PROVE  Good(getDeletedStateObject(s, a, ok), P, len)
<1> DEFINE r == getDeletedStateObject(s, a, ok)
<1>1. s \in Threaded /\ s.journal.entries \in Seq(Entry)
  BY DEF Good, Threaded, JournalType
<1>2. r \in Threaded /\ r.journal = s.journal
      /\ \A b \in Addr : s.objs[b] # Nil => r.objs[b] = s.objs[b]
  BY <1>1, LookupType
<1>3. \A b \in Addr : Live(s.objs, b) => Live(r.objs, b)
  BY <1>2 DEF Live
<1>4. RevertChain(s.journal.entries, r.objs)
  BY <1>1, <1>3, ChainKeepsLive DEF Good
<1> QED BY <1>2, <1>4 DEF Good

\* Setting a live object without replacing it, with its entry.
LEMMA Journal1Good ==
    ASSUME NEW P \in SUBSET Addr, NEW len \in Nat, NEW s, Good(s, P, len),
           NEW a \in Addr, NEW e \in Entry,
           NEW o \in Object, Live(s.objs, a), ~o.deleted,
           e.kind \notin {"createObject", "resetObject"},
           e.kind \in DerefKinds => e.account = a
    PROVE  Good(Journal1(s, a, e, o), P, len)
<1> DEFINE r == Journal1(s, a, e, o)
           es == s.journal.entries
<1>1. s \in Threaded /\ es \in Seq(Entry) /\ s.journal \in JournalType /\ s.objs \in ObjectMap
  BY DEF Good, Threaded, JournalType
<1>2. r \in Threaded /\ r.objs = [s.objs EXCEPT ![a] = o] /\ r.journal.entries = Append(es, e)
  <2>1. r \in Threaded /\ r.objs = [s.objs EXCEPT ![a] = o] /\ r.journal = append(s.journal, e)
    BY <1>1, Journal1Type
  <2>2. append(s.journal, e).entries = Append(es, e)
    BY <1>1, AppendType
  <2> QED BY <2>1, <2>2
<1>3. o # Nil
  BY ConstantsAssumption
<1>4. /\ r.objs[a] = o
      /\ \A b \in Addr \ {a} : r.objs[b] = s.objs[b]
  BY <1>1, <1>2, UpdatedMap
<1>5. Live(r.objs, a) /\ \A b \in Addr : Live(s.objs, b) => Live(r.objs, b)
  BY <1>3, <1>4 DEF Live
<1>6. RevertChain(es, r.objs)
  BY <1>1, <1>5, ChainKeepsLive DEF Good
<1>7. RevertChain(Append(es, e), r.objs)
  BY <1>1, <1>5, <1>6, ChainAppend
<1>8. CreatedNotPending(Append(es, e), P)
  BY <1>1 DEF Good, CreatedNotPending
<1>9. \A b \in P : r.objs[b] # Nil
  BY <1>3, <1>4 DEF Good
<1> QED BY <1>2, <1>7, <1>8, <1>9 DEF Good

\* createObject preserves the invariant and leaves a live object.
LEMMA CreateGood ==
    ASSUME NEW P \in SUBSET Addr, NEW len \in Nat, NEW s, Good(s, P, len),
           NEW a \in Addr, NEW ok \in BOOLEAN,
           trie \in AccountTrie
    PROVE  LET r == createObject(s, a, ok)
           IN Good(r, P, len) /\ r.objs[a] = newObject(NewAccount)
<1> DEFINE r  == createObject(s, a, ok)
           l  == getDeletedStateObject(s, a, ok)
           n  == newObject(NewAccount)
           es == l.journal.entries
<1>1. Good(l, P, len) /\ l \in Threaded /\ es \in Seq(Entry) /\ l.journal \in JournalType
      /\ l.objs \in ObjectMap /\ l.destruct \in SUBSET Addr
  <2>1. Good(l, P, len)
    BY LookupGood
  <2> HIDE DEF l
  <2> QED BY <2>1 DEF Good, Threaded, JournalType
<1>2. n \in Object /\ n # Nil
  BY NewObjectType, NewAccountType
<1> HIDE DEF n, l
<1>3. PICK e \in Entry :
          /\ e.account = a
          /\ \/ e.kind = "createObject" /\ l.objs[a] = Nil
             \/ e.kind = "resetObject" /\ e.prev = l.objs[a] /\ l.objs[a] # Nil
          /\ r \in Threaded
          /\ r.objs = [l.objs EXCEPT ![a] = n]
          /\ r.journal = append(l.journal, e)
  <2>0. [l.objs EXCEPT ![a] = n] \in ObjectMap
    BY <1>1, <1>2, UpdatedMap
  <2>1. CASE l.objs[a] = Nil
    <3> DEFINE e == [kind |-> "createObject", account |-> a]
    <3>1. e \in Entry
      BY EntryTypes
    <3>2. append(l.journal, e) \in JournalType
      BY <1>1, <3>1, AppendType
    <3>3. r = [l EXCEPT !.objs = [l.objs EXCEPT ![a] = n], !.journal = append(l.journal, e)]
      BY <2>1 DEF createObject, l, n, Threaded
    <3> HIDE DEF e
    <3>4. e.account = a /\ e.kind = "createObject"
      BY DEF e
    <3>5. /\ r \in Threaded
          /\ r.objs = [l.objs EXCEPT ![a] = n]
          /\ r.journal = append(l.journal, e)
      BY <1>1, <2>0, <3>2, <3>3 DEF Threaded
    <3> QED BY <2>1, <3>1, <3>4, <3>5
  <2>2. CASE l.objs[a] # Nil
    <3> DEFINE e == [kind |-> "resetObject", account |-> a, prev |-> l.objs[a],
                     prevdestruct |-> a \in l.destruct]
    <3>0. l.objs[a] \in Object /\ (a \in l.destruct) \in BOOLEAN
      BY <1>1, <2>2 DEF ObjectMap
    <3>1. e \in Entry
      BY <3>0, EntryTypes
    <3>2. append(l.journal, e) \in JournalType
      BY <1>1, <3>1, AppendType
    <3>3. r = [l EXCEPT !.objs = [l.objs EXCEPT ![a] = n], !.destruct = l.destruct \cup {a},
                        !.journal = append(l.journal, e)]
      BY <2>2 DEF createObject, l, n, Threaded
    <3> HIDE DEF e
    <3>4. e.account = a /\ e.kind = "resetObject" /\ e.prev = l.objs[a]
      BY DEF e
    <3>5. /\ r \in Threaded
          /\ r.objs = [l.objs EXCEPT ![a] = n]
          /\ r.journal = append(l.journal, e)
      BY <1>1, <2>0, <3>2, <3>3 DEF Threaded
    <3> QED BY <2>2, <3>1, <3>4, <3>5
  <2> QED BY <2>1, <2>2
<1>4. r.journal.entries = Append(es, e)
  BY <1>1, <1>3, AppendType
<1>5. r.objs[a] = n /\ \A b \in Addr \ {a} : r.objs[b] = l.objs[b]
  BY <1>1, <1>2, <1>3, UpdatedMap
<1>6. RevertChain(Append(es, e), r.objs)
  <2>1. RevertChain(es, l.objs)
    BY <1>1 DEF Good
  <2>2. \/ e.kind = "createObject" /\ l.objs[a] = Nil
        \/ e.kind = "resetObject" /\ e.prev = l.objs[a]
    BY <1>3
  <2>3. e.account = a /\ es \in Seq(Entry) /\ l.objs \in ObjectMap
    BY <1>1, <1>3
  <2> HIDE DEF r, es
  <2> QED BY <1>5, <2>1, <2>2, <2>3, ChainReplace
<1>7. CreatedNotPending(Append(es, e), P)
  BY <1>1, <1>3 DEF Good, CreatedNotPending
<1>8. \A b \in P : r.objs[b] # Nil
  BY <1>1, <1>2, <1>5 DEF Good
<1>9. len <= Len(Append(es, e))
  BY <1>1 DEF Good
<1>10. Good(r, P, len)
  <2> HIDE DEF r, es
  <2> QED BY <1>3, <1>4, <1>6, <1>7, <1>8, <1>9 DEF Good
<1> QED BY <1>5, <1>10 DEF n

\* A call reads the database at most three times; each read succeeds or fails.
LEMMA ReadsType == \A io \in Reads : io[1] \in BOOLEAN /\ io[2] \in BOOLEAN /\ io[3] \in BOOLEAN
<1> SUFFICES ASSUME NEW io \in Reads
             PROVE  io[1] \in BOOLEAN /\ io[2] \in BOOLEAN /\ io[3] \in BOOLEAN
  OBVIOUS
<1>1. io \in [1..3 -> BOOLEAN]
  <2>1. [i \in 1..3 |-> TRUE] \in [1..3 -> BOOLEAN]
    OBVIOUS
  <2> QED BY <2>1 DEF Reads
<1>2. 1 \in 1..3 /\ 2 \in 1..3 /\ 3 \in 1..3
  OBVIOUS
<1> QED BY <1>1, <1>2, Zenon

\* GetOrNewStateObject preserves the invariant and leaves a live object.
LEMMA GetOrNewGood ==
    ASSUME NEW P \in SUBSET Addr, NEW len \in Nat, NEW s, Good(s, P, len),
           NEW a \in Addr, NEW io \in Reads,
           trie \in AccountTrie
    PROVE  LET r == GetOrNewStateObject(s, a, io)
           IN Good(r, P, len) /\ Live(r.objs, a) /\ r \in Threaded /\ r.objs[a] \in Object
<1> DEFINE l == getDeletedStateObject(s, a, io[1])
           c == createObject(l, a, io[2])
           r == GetOrNewStateObject(s, a, io)
<1>0. io[1] \in BOOLEAN /\ io[2] \in BOOLEAN
  BY ReadsType
<1>1. Good(l, P, len)
  BY <1>0, LookupGood
<1>2. Good(c, P, len) /\ c.objs[a] = newObject(NewAccount)
  BY <1>0, <1>1, CreateGood
<1>3. Live(c.objs, a)
  BY <1>2, NewObjectType, NewAccountType DEF Live, newObject
<1>4. Good(r, P, len) /\ Live(r.objs, a)
  BY <1>1, <1>2, <1>3 DEF GetOrNewStateObject
<1> HIDE DEF r
<1>5. r \in Threaded /\ r.objs \in ObjectMap
  BY <1>4 DEF Good, Threaded
<1> QED BY <1>4, <1>5, LiveObject DEF r

\* Replacing a live object by another live one, without an entry.
LEMMA AssignGood ==
    ASSUME NEW P \in SUBSET Addr, NEW len \in Nat, NEW s, Good(s, P, len),
           NEW a \in Addr, NEW o \in Object,
           Live(s.objs, a), ~o.deleted
    PROVE  LET r == [s EXCEPT !.objs[a] = o]
           IN Good(r, P, len) /\ Live(r.objs, a) /\ r.objs[a] = o
<1> DEFINE m == [s.objs EXCEPT ![a] = o]
           r == [s EXCEPT !.objs = m]
<1>1. s \in Threaded /\ s.journal.entries \in Seq(Entry) /\ s.objs \in ObjectMap
  BY DEF Good, Threaded, JournalType
<1>2. o # Nil
  BY ConstantsAssumption
<1>3. m \in ObjectMap /\ m[a] = o /\ \A b \in Addr \ {a} : m[b] = s.objs[b]
  BY <1>1, UpdatedMap
<1>4. Live(m, a) /\ \A b \in Addr : Live(s.objs, b) => Live(m, b)
  BY <1>2, <1>3 DEF Live
<1>5. RevertChain(s.journal.entries, m)
  BY <1>1, <1>4, ChainKeepsLive DEF Good
<1>6. \A b \in P : m[b] # Nil
  BY <1>2, <1>3 DEF Good
<1> HIDE DEF m
<1>7. r \in Threaded /\ r.objs = m /\ r.journal = s.journal
  BY <1>1, <1>3 DEF Threaded
<1>8. [s EXCEPT !.objs[a] = o] = r
  BY DEF m
<1>9. Good(r, P, len)
  BY <1>5, <1>6, <1>7 DEF Good
<1> HIDE DEF r
<1> QED BY <1>3, <1>4, <1>7, <1>8, <1>9

\* Memoizing a database error preserves the invariant.
LEMMA ErrGood ==
    ASSUME NEW P, NEW len \in Nat, NEW s, Good(s, P, len), NEW b \in BOOLEAN
    PROVE  LET r == [s EXCEPT !.err = b]
           IN Good(r, P, len) /\ r.objs = s.objs
<1> DEFINE r == [s EXCEPT !.err = b]
<1>1. s \in Threaded
  BY DEF Good
<1>2. r \in Threaded /\ r.objs = s.objs /\ r.journal = s.journal
  BY <1>1 DEF Threaded
<1> HIDE DEF r
<1>3. Good(r, P, len)
  BY <1>2 DEF Good
<1> QED BY <1>2, <1>3 DEF r

\* Setting the balance of a live object preserves the invariant.
LEMMA BalanceGood ==
    ASSUME NEW P \in SUBSET Addr, NEW len \in Nat, NEW s, Good(s, P, len),
           NEW a \in Addr, Live(s.objs, a),
           NEW v \in Int
    PROVE  Good(SetObjectBalance(s, a, v), P, len)
<1> DEFINE o == s.objs[a]
           n == [o EXCEPT !.balance = v]
           e == [kind |-> "balance", account |-> a, prev |-> o.balance]
<1>1. o \in Object /\ ~o.deleted
  BY LiveObject DEF Good, Threaded, Live
<1>2. n \in Object /\ ~n.deleted /\ o.balance \in Int
  BY <1>1 DEF Object
<1>3. e \in Entry /\ e.kind = "balance" /\ e.account = a
  BY <1>2, EntryTypes
<1> HIDE DEF n, e
<1>4. Good(Journal1(s, a, e, n), P, len)
  BY <1>2, <1>3, Journal1Good
<1> QED BY <1>4 DEF SetObjectBalance, e, n

\* So does setting its nonce.
LEMMA NonceGood ==
    ASSUME NEW P \in SUBSET Addr, NEW len \in Nat, NEW s, Good(s, P, len),
           NEW a \in Addr, Live(s.objs, a),
           NEW v \in Nat
    PROVE  Good(SetObjectNonce(s, a, v), P, len)
<1> DEFINE o == s.objs[a]
           n == [o EXCEPT !.nonce = v]
           e == [kind |-> "nonce", account |-> a, prev |-> o.nonce]
<1>1. o \in Object /\ ~o.deleted
  BY LiveObject DEF Good, Threaded, Live
<1>2. n \in Object /\ ~n.deleted /\ o.nonce \in Nat
  BY <1>1 DEF Object
<1>3. e \in Entry /\ e.kind = "nonce" /\ e.account = a
  BY <1>2, EntryTypes
<1> HIDE DEF n, e
<1>4. Good(Journal1(s, a, e, n), P, len)
  BY <1>2, <1>3, Journal1Good
<1> QED BY <1>4 DEF SetObjectNonce, e, n

\* So does touching it: the entry needs no object to be reverted.
LEMMA TouchGood ==
    ASSUME NEW P \in SUBSET Addr, NEW len \in Nat, NEW s, Good(s, P, len),
           NEW a \in Addr
    PROVE  Good(touch(s, a), P, len)
<1> DEFINE e == [kind |-> "touch", account |-> a]
           j == append(s.journal, e)
           k == IF a = Ripemd THEN dirty(j, a) ELSE j
           r == [s EXCEPT !.journal = k]
<1>1. s \in Threaded /\ s.journal \in JournalType /\ s.journal.entries \in Seq(Entry)
  BY DEF Good, Threaded, JournalType
<1>2. e \in Entry /\ e.kind = "touch"
  BY EntryTypes
<1> HIDE DEF e
<1>3. j \in JournalType /\ j.entries = Append(s.journal.entries, e)
  BY <1>1, <1>2, AppendType
<1> HIDE DEF j
<1>4. k \in JournalType /\ k.entries = Append(s.journal.entries, e)
  BY <1>3, DirtyType
<1> HIDE DEF k
<1>5. r \in Threaded /\ r.objs = s.objs /\ r.journal = k
  BY <1>1, <1>4 DEF Threaded
<1>6. RevertChain(Append(s.journal.entries, e), s.objs)
  BY <1>1, <1>2, ChainAppend DEF Good, DerefKinds
<1>7. CreatedNotPending(Append(s.journal.entries, e), P)
  BY <1>1, <1>2 DEF Good, CreatedNotPending
<1> HIDE DEF r
<1>8. Good(r, P, len)
  <2>1. len <= Len(Append(s.journal.entries, e))
    BY <1>1 DEF Good
  <2>2. \A b \in P : r.objs[b] # Nil
    BY <1>5 DEF Good
  <2> QED BY <1>4, <1>5, <1>6, <1>7, <2>1, <2>2 DEF Good
<1> QED BY <1>8 DEF touch, r, k, j, e

\* Reading a slot of a live object preserves the invariant.
LEMMA ReadGood ==
    ASSUME NEW P \in SUBSET Addr, NEW len \in Nat, NEW s, Good(s, P, len),
           NEW a \in Addr, Live(s.objs, a),
           NEW k \in Key, NEW ok \in BOOLEAN
    PROVE  /\ Good(ReadCommitted(s, a, k, ok), P, len) /\ Live(ReadCommitted(s, a, k, ok).objs, a)
           /\ Good(ReadState(s, a, k, ok), P, len) /\ Live(ReadState(s, a, k, ok).objs, a)
           /\ StateRead(s, a, k, ok) \in Word
<1> DEFINE o == s.objs[a]
           d == a \in s.destruct
           c == Cached(o, d, k)
           r == ReadCommitted(s, a, k, ok)
<1>1. o \in Object /\ ~o.deleted
  BY LiveObject DEF Good, Threaded, Live
<1>2. d \in BOOLEAN
  OBVIOUS
<1>3. c \in Object /\ ~c.deleted /\ StateValue(o, d, k) \in Word
  <2> HIDE DEF d, o
  <2>1. c \in Object /\ c.deleted = o.deleted
    BY <1>1, <1>2, CachedType
  <2>2. StateValue(o, d, k) \in Word
    BY <1>1, <1>2, StateValueType
  <2> QED BY <1>1, <2>1, <2>2
<1>4. Good(r, P, len) /\ Live(r.objs, a)
  <2>1. CASE r = [s EXCEPT !.err = TRUE]
    <3>1. Good([s EXCEPT !.err = TRUE], P, len) /\ [s EXCEPT !.err = TRUE].objs = s.objs
      BY ErrGood
    <3> QED BY <2>1, <3>1
  <2>2. CASE r = [s EXCEPT !.objs[a] = c]
    <3> HIDE DEF c
    <3>1. Good([s EXCEPT !.objs[a] = c], P, len) /\ Live([s EXCEPT !.objs[a] = c].objs, a)
      BY <1>3, AssignGood
    <3> QED BY <2>2, <3>1
  <2> QED BY <2>1, <2>2 DEF ReadCommitted
<1>5. Good(ReadState(s, a, k, ok), P, len) /\ Live(ReadState(s, a, k, ok).objs, a)
  BY <1>4 DEF ReadState
<1>6. StateRead(s, a, k, ok) \in Word
  BY <1>3, ConstantsAssumption DEF StateRead
<1> QED BY <1>4, <1>5, <1>6

\* So does writing one.
LEMMA StateGood ==
    ASSUME NEW P \in SUBSET Addr, NEW len \in Nat, NEW s, Good(s, P, len),
           NEW a \in Addr, Live(s.objs, a),
           NEW k \in Key, NEW v \in Word, NEW ok \in BOOLEAN
    PROVE  Good(SetObjectState(s, a, k, v, ok), P, len)
<1> DEFINE p == StateRead(s, a, k, ok)
           r == ReadState(s, a, k, ok)
           o == r.objs[a]
           n == [o EXCEPT !.dirtyStorage[k] = v]
           e == [kind |-> "storage", account |-> a, key |-> k, prevalue |-> p]
<1>1. Good(r, P, len) /\ Live(r.objs, a) /\ p \in Word
  BY ReadGood
<1> HIDE DEF r, p
<1>2. o \in Object /\ ~o.deleted
  BY <1>1, LiveObject DEF Good, Threaded, Live
<1>3. n \in Object /\ ~n.deleted
  <2>1. [o.dirtyStorage EXCEPT ![k] = v] \in Cache
    BY <1>2 DEF Object, Cache
  <2>2. n = [o EXCEPT !.dirtyStorage = [o.dirtyStorage EXCEPT ![k] = v]]
    OBVIOUS
  <2> QED BY <1>2, <2>1, <2>2 DEF Object
<1>4. e \in Entry /\ e.kind = "storage" /\ e.account = a
  BY <1>1, EntryTypes
<1> HIDE DEF n, e
<1>5. Good(Journal1(r, a, e, n), P, len)
  BY <1>1, <1>3, <1>4, Journal1Good
<1> QED BY <1>1, <1>5 DEF SetObjectState, r, p, e, n

-----------------------------------------------------------------------------
(* Every getter and setter of StateDB ends with a good record.             *)

CallEnds(P, len) == \E s : Good(s, P, len) /\ Put(s)

\* The getters preserve the invariant, although they cache what they read.
LEMMA GettersGood ==
    ASSUME NEW P \in SUBSET Addr, NEW len \in Nat, Good(State, P, len), trie \in AccountTrie,
           NEW a \in Addr, NEW io \in Reads
    PROVE  /\ GetAccount(a, io) => CallEnds(P, len)
           /\ GetCode(a, io) => CallEnds(P, len)
           /\ \A k \in Key : GetState(a, k, io) => CallEnds(P, len)
           /\ \A k \in Key : GetCommittedState(a, k, io) => CallEnds(P, len)
           /\ Suicide(a, io) => CallEnds(P, len)
<1> DEFINE s == getDeletedStateObject(State, a, io[1])
           o == s.objs[a]
<1>0. io[1] \in BOOLEAN /\ io[3] \in BOOLEAN
  BY ReadsType
<1>1. Good(s, P, len)
  BY <1>0, LookupGood
<1>2. Live(s.objs, a) => o \in Object /\ ~o.deleted
  BY <1>1, LiveObject DEF Good, Threaded, Live
<1>3. GetAccount(a, io) => CallEnds(P, len)
  BY <1>1 DEF GetAccount, CallEnds
<1>4. GetCode(a, io) => CallEnds(P, len)
  <2> DEFINE b == s.err \/ (Live(s.objs, a) /\ o.code # NoCode /\ ~io[3])
  <2>1. b \in BOOLEAN
    OBVIOUS
  <2> HIDE DEF b
  <2>2. Good([s EXCEPT !.err = b], P, len)
    BY <1>1, <2>1, ErrGood
  <2> QED BY <2>2 DEF GetCode, CallEnds, b
<1>5. ASSUME NEW k \in Key
      PROVE  /\ GetState(a, k, io) => CallEnds(P, len)
             /\ GetCommittedState(a, k, io) => CallEnds(P, len)
  <2>1. Live(s.objs, a) => /\ Good(ReadCommitted(s, a, k, io[3]), P, len)
                           /\ Good(ReadState(s, a, k, io[3]), P, len)
    BY <1>0, <1>1, ReadGood
  <2> QED BY <1>1, <2>1 DEF GetState, GetCommittedState, CallEnds
<1>6. Suicide(a, io) => CallEnds(P, len)
  <2> DEFINE n == [o EXCEPT !.suicided = TRUE, !.balance = 0]
             e == [kind |-> "suicide", account |-> a, prev |-> o.suicided,
                   prevbalance |-> o.balance]
  <2>1. ASSUME Live(s.objs, a) PROVE Good(Journal1(s, a, e, n), P, len)
    <3> HIDE DEF s
    <3>1. o \in Object /\ ~o.deleted
      BY <1>2, <2>1
    <3>2. n \in Object /\ ~n.deleted
      <4> DEFINE p == [o EXCEPT !.suicided = TRUE]
      <4> HIDE DEF o
      <4>1. p \in Object /\ ~p.deleted
        BY <3>1 DEF Object
      <4>2. n = [p EXCEPT !.balance = 0]
        OBVIOUS
      <4> HIDE DEF p, n
      <4> QED BY <4>1, <4>2 DEF Object
    <3>3. o.suicided \in BOOLEAN /\ o.balance \in Int
      BY <3>1 DEF Object
    <3>4. e \in Entry
      BY <3>3, EntryTypes
    <3>5. e.kind = "suicide"
      OBVIOUS
    <3> HIDE DEF e, n
    <3> QED BY <1>1, <2>1, <3>2, <3>4, <3>5, Journal1Good DEF DerefKinds
  <2> QED BY <1>1, <2>1 DEF Suicide, CallEnds
<1> QED BY <1>3, <1>4, <1>5, <1>6

\* The setters preserve the invariant.
LEMMA SettersGood ==
    ASSUME NEW P \in SUBSET Addr, NEW len \in Nat, Good(State, P, len), trie \in AccountTrie,
           NEW a \in Addr, NEW io \in Reads
    PROVE  /\ \A v \in Amount : AddBalance(a, v, io) => CallEnds(P, len)
           /\ \A v \in Amount : SubBalance(a, v, io) => CallEnds(P, len)
           /\ \A v \in Amount : SetBalance(a, v, io) => CallEnds(P, len)
           /\ \A v \in Nonce : SetNonce(a, v, io) => CallEnds(P, len)
           /\ \A c \in Code : SetCode(a, c, io) => CallEnds(P, len)
           /\ \A k \in Key, v \in Word : SetState(a, k, v, io) => CallEnds(P, len)
<1> DEFINE s == GetOrNewStateObject(State, a, io)
           o == s.objs[a]
<1>0. io[3] \in BOOLEAN
  BY ReadsType
<1>1. Good(s, P, len) /\ Live(s.objs, a) /\ o \in Object /\ s \in Threaded
  BY GetOrNewGood
<1>2. o.balance \in Int /\ o.nonce \in Nat /\ o.code \in Code /\ ~o.deleted
  BY <1>1 DEF Object, Live
<1>3. ASSUME NEW v \in Amount
      PROVE  /\ AddBalance(a, v, io) => CallEnds(P, len)
             /\ SubBalance(a, v, io) => CallEnds(P, len)
             /\ SetBalance(a, v, io) => CallEnds(P, len)
  <2> HIDE DEF s
  <2>1. v \in Int /\ o.balance + v \in Int /\ o.balance - v \in Int
    BY <1>2, AccountsAssumption
  <2>2. /\ Good(SetObjectBalance(s, a, o.balance + v), P, len)
        /\ Good(SetObjectBalance(s, a, o.balance - v), P, len)
        /\ Good(SetObjectBalance(s, a, v), P, len)
    BY <1>1, <2>1, BalanceGood
  <2>3. Good(touch(s, a), P, len)
    BY <1>1, TouchGood
  <2> QED BY <1>1, <2>2, <2>3 DEF AddBalance, SubBalance, SetBalance, CallEnds, s
<1>4. ASSUME NEW v \in Nonce PROVE SetNonce(a, v, io) => CallEnds(P, len)
  <2> HIDE DEF s
  <2>1. Good(SetObjectNonce(s, a, v), P, len)
    BY <1>1, NonceGood, AccountsAssumption
  <2> QED BY <2>1 DEF SetNonce, CallEnds, s
<1>5. ASSUME NEW c \in Code PROVE SetCode(a, c, io) => CallEnds(P, len)
  <2> HIDE DEF s
  <2> DEFINE b == s.err \/ (o.code # NoCode /\ ~io[3])
             r == [s EXCEPT !.err = b]
             n == [o EXCEPT !.code = c]
             e == [kind |-> "code", account |-> a, prev |-> o.code]
  <2>1. b \in BOOLEAN
    OBVIOUS
  <2> HIDE DEF b
  <2>2. Good(r, P, len) /\ r.objs = s.objs
    BY <1>1, <2>1, ErrGood
  <2>3. n \in Object /\ ~n.deleted
    BY <1>1, <1>2 DEF Object
  <2>4. e \in Entry
    BY <1>2, EntryTypes
  <2>5. e.kind = "code" /\ e.account = a
    OBVIOUS
  <2> HIDE DEF r, n, e
  <2>6. Good(Journal1(r, a, e, n), P, len)
    BY <1>1, <2>2, <2>3, <2>4, <2>5, Journal1Good
  <2> QED BY <2>6 DEF SetCode, CallEnds, r, n, e, b, s
<1>6. ASSUME NEW k \in Key, NEW v \in Word PROVE SetState(a, k, v, io) => CallEnds(P, len)
  <2> HIDE DEF s
  <2>1. Good(SetObjectState(s, a, k, v, io[3]), P, len)
    BY <1>0, <1>1, StateGood
  <2> QED BY <2>1 DEF SetState, CallEnds, s
<1> QED BY <1>3, <1>4, <1>5, <1>6

\* SetStorage preserves the invariant.
LEMMA SetStorageGood ==
    ASSUME NEW P \in SUBSET Addr, NEW len \in Nat, Good(State, P, len), trie \in AccountTrie,
           NEW a \in Addr, NEW io \in Reads, NEW k \in Key, NEW v \in Word
    PROVE  SetStorage(a, k, v, io) => CallEnds(P, len)
<1> DEFINE m == [State EXCEPT !.destruct = @ \cup {a}]
           s == GetOrNewStateObject(m, a, io)
<1>1. m \in Threaded /\ m.objs = State.objs /\ m.journal = State.journal
  <2> HIDE DEF State
  <2> QED BY DEF Good, Threaded
<1>2. Good(m, P, len)
  <2> HIDE DEF State, m
  <2> QED BY <1>1 DEF Good
<1> HIDE DEF m
<1>3. Good(s, P, len) /\ Live(s.objs, a)
  BY <1>2, GetOrNewGood
<1> HIDE DEF s
<1>4. io[3] \in BOOLEAN
  BY ReadsType
<1>5. Good(SetObjectState(s, a, k, v, io[3]), P, len)
  BY <1>3, <1>4, StateGood
<1> QED BY <1>5 DEF SetStorage, CallEnds, s, m

\* The calls that create an account preserve the invariant.
LEMMA CreatorsGood ==
    ASSUME NEW P \in SUBSET Addr, NEW len \in Nat, Good(State, P, len), trie \in AccountTrie,
           NEW a \in Addr, NEW io \in Reads
    PROVE  /\ CreateAccount(a, io) => CallEnds(P, len)
           /\ CreateContract(a, io) => CallEnds(P, len)
<1> DEFINE prev == getDeletedStateObject(State, a, io[1]).objs[a]
           s    == createObject(State, a, io[1])
           n    == [s.objs[a] EXCEPT !.balance = prev.balance]
           r    == [s EXCEPT !.objs[a] = n]
           c    == Created(a, io)
<1>0. io[1] \in BOOLEAN
  BY ReadsType
<1>1. Good(s, P, len) /\ s.objs[a] = newObject(NewAccount)
  BY <1>0, CreateGood
<1>2. s.objs[a] \in Object /\ Live(s.objs, a) /\ ~s.objs[a].deleted
  BY <1>1, NewObjectType, NewAccountType DEF Live, newObject
<1>3. prev # Nil => prev \in Object
  <2>1. Good(getDeletedStateObject(State, a, io[1]), P, len)
    BY <1>0, LookupGood
  <2> QED BY <2>1 DEF Good, Threaded, ObjectMap
<1> HIDE DEF prev, s
<1>4. prev # Nil => n \in Object /\ ~n.deleted
  BY <1>2, <1>3 DEF Object
<1> HIDE DEF n
<1>5. prev # Nil => Good(r, P, len) /\ Live(r.objs, a)
  BY <1>1, <1>2, <1>4, AssignGood
<1>6. c = IF prev # Nil /\ ~prev.deleted THEN r ELSE s
  BY DEF Created, prev, s, n
<1> HIDE DEF r, c
<1>7. Good(c, P, len) /\ Live(c.objs, a)
  BY <1>1, <1>2, <1>5, <1>6
<1>8. Good(SetObjectNonce(c, a, 1), P, len)
  BY <1>7, NonceGood
<1> QED BY <1>7, <1>8 DEF CreateAccount, CreateContract, CallEnds, c

\* Every call on an account preserves the invariant on the threaded state.
LEMMA AccountCallGood ==
    ASSUME NEW P \in SUBSET Addr, NEW len \in Nat, Good(State, P, len), trie \in AccountTrie,
           NEW a \in Addr, NEW io \in Reads, AccountCall(a, io)
    PROVE  CallEnds(P, len)
BY GettersGood, SettersGood, SetStorageGood, CreatorsGood DEF AccountCall

-----------------------------------------------------------------------------
(* The rest of the transaction state: its setters append entries that      *)
(* concern no object, its reverts keep the types.                          *)

PlainEntry == {e \in Entry : e.kind \notin {"createObject", "resetObject"} \cup DerefKinds}

\* The entries of the transaction state need no object.
LEMMA TxEntryPlain == TxEntry \subseteq PlainEntry
BY DEF TxEntry, TxKinds, PlainEntry, DerefKinds

\* While a revert is in progress the journal has an entry left to undo.
LEMMA LastEntryType ==
    ASSUME JournalTypeOK, RevisionsOrdered, Undoing
    PROVE  /\ journal \in JournalType
           /\ journal.entries # <<>>
           /\ LastEntry \in Entry
           /\ LastEntry = journal.entries[Len(journal.entries)]
<1>1. journal \in JournalType /\ journal.entries \in Seq(Entry) /\ Len(journal.entries) \in Nat
  BY DEF JournalTypeOK, JournalType
<1>2. RevisionTypes
  BY <1>1 DEF RevisionTypes, JournalTypeOK
<1>3. Len(journal.entries) > 0
  BY <1>2, UndoingEntries
<1> QED BY <1>1, <1>3 DEF LastEntry

\* Reverting an entry of the transaction state keeps its types and pops the entry.
LEMMA TxUndoStep ==
    ASSUME JournalTypeOK, RevisionsOrdered, TxTypeOK, TxUndo
    PROVE  /\ TxTypeOK'
           /\ Undoing
           /\ journal' = pop(journal)
           /\ LastEntry \in PlainEntry
           /\ UNCHANGED <<validRevisions, nextRevisionId, reverting>>
<1>1. LastEntry \in Entry
  <2>1. Undoing
    BY DEF TxUndo, UndoRefund, UndoAddLog, UndoAddPreimage, UndoAccessListAddAccount,
       UndoAccessListAddSlot, UndoTransientStorage, Pops
  <2> QED BY <2>1, LastEntryType
<1> QED BY <1>1, TxUndoTypes, TxEntryPlain

-----------------------------------------------------------------------------
(* The inductive invariant of the specification.                           *)

IInv == TypeOK /\ RevisionsOrdered /\ PendingLive /\ ObjectsRecoverable

Marked == stateObjectsPending \cup stateObjectsDirty

\* The invariant on the variables gives the one on the threaded state.
LEMMA IInvGood ==
    ASSUME IInv
    PROVE  /\ Good(State, Marked, Len(journal.entries))
           /\ Marked \in SUBSET Addr
           /\ Len(journal.entries) \in Nat
           /\ trie \in AccountTrie
<1>1. State \in Threaded
  BY StateType DEF IInv
<1>2. State.objs = stateObjects /\ State.journal = journal
  BY DEF State
<1>3. Marked \in SUBSET Addr /\ trie \in AccountTrie
  BY DEF IInv, TypeOK, AccountsTypeOK, Marked
<1>4. Len(journal.entries) \in Nat
  BY DEF IInv, TypeOK, JournalTypeOK
<1> QED BY <1>1, <1>2, <1>3, <1>4 DEF Good, IInv, PendingLive, ObjectsRecoverable, Marked

\* The types that the revisions need.
LEMMA RevisionsTyped == JournalTypeOK => RevisionTypes
BY DEF JournalTypeOK, RevisionTypes

\* Every call on an account preserves the invariant.
LEMMA AccountCallStep ==
    ASSUME IInv, NEW a \in Addr, NEW io \in Reads, AccountCall(a, io), UNCHANGED txVars
    PROVE  IInv'
<1> DEFINE len == Len(journal.entries)
<1>1. PICK s : Good(s, Marked, len) /\ Put(s)
  BY IInvGood, AccountCallGood DEF CallEnds
<1>2. s \in Threaded /\ s.journal.entries \in Seq(Entry) /\ len <= Len(s.journal.entries)
  BY <1>1 DEF Good, Threaded, JournalType
<1>3. /\ stateObjects' = s.objs /\ stateObjectsDestruct' = s.destruct
      /\ journal' = s.journal /\ dbErr' = s.err /\ Idle
      /\ UNCHANGED <<originalRoot, trie, stateObjectsPending, stateObjectsDirty,
                     validRevisions, nextRevisionId, reverting>>
  BY <1>1 DEF Put
<1>4. TypeOK'
  <2>1. JournalTypeOK'
    BY <1>2, <1>3 DEF IInv, TypeOK, JournalTypeOK, Threaded, JournalType
  <2>2. AccountsTypeOK'
    BY <1>2, <1>3 DEF IInv, TypeOK, AccountsTypeOK, Threaded, ObjectMap
  <2>3. TxTypeOK'
    BY DEF IInv, TypeOK, TxTypeOK, txVars
  <2> QED BY <2>1, <2>2, <2>3 DEF TypeOK
<1>5. RevisionsOrdered'
  <2>1. Len(journal'.entries) \in Nat /\ len <= Len(journal'.entries)
    BY <1>2, <1>3
  <2> QED BY <1>3, <2>1, GrowRevisions, RevisionsTyped DEF IInv, TypeOK
<1>6. PendingLive' /\ ObjectsRecoverable'
  BY <1>1, <1>3 DEF Good, PendingLive, ObjectsRecoverable, Marked
<1> QED BY <1>4, <1>5, <1>6 DEF IInv

\* Appending an entry that concerns no object.
LEMMA PlainAppend ==
    ASSUME NEW j \in JournalType, NEW e \in PlainEntry, NEW objs, NEW P,
           RevertChain(j.entries, objs), CreatedNotPending(j.entries, P)
    PROVE  /\ append(j, e) \in JournalType
           /\ RevertChain(append(j, e).entries, objs)
           /\ CreatedNotPending(append(j, e).entries, P)
           /\ Len(append(j, e).entries) = Len(j.entries) + 1
<1>1. e \in Entry /\ e.kind \notin {"createObject", "resetObject"} /\ e.kind \notin DerefKinds
  BY DEF PlainEntry
<1>2. j.entries \in Seq(Entry)
  BY DEF JournalType
<1>3. append(j, e) \in JournalType /\ append(j, e).entries = Append(j.entries, e)
  BY <1>1, AppendType
<1>4. RevertChain(Append(j.entries, e), objs)
  BY <1>1, <1>2, ChainAppend
<1>5. CreatedNotPending(Append(j.entries, e), P)
  BY <1>1, <1>2 DEF CreatedNotPending
<1> QED BY <1>2, <1>3, <1>4, <1>5

\* Every setter of the transaction state preserves the invariant.
LEMMA TxSetterInv ==
    ASSUME IInv, TxSetter, UNCHANGED accountVars
    PROVE  IInv'
<1>1. TxTypeOK' /\ TxGrows
  BY TxSetterStep DEF IInv, TypeOK
<1>2. journal \in JournalType /\ Len(journal.entries) \in Nat
  BY DEF IInv, TypeOK, JournalTypeOK, JournalType
<1>3. RevertChain(journal.entries, stateObjects) /\ CreatedNotPending(journal.entries, Marked)
  BY DEF IInv, ObjectsRecoverable, Marked
<1>4. /\ journal' \in JournalType
      /\ RevertChain(journal'.entries, stateObjects)
      /\ CreatedNotPending(journal'.entries, Marked)
      /\ Len(journal'.entries) \in Nat
      /\ Len(journal.entries) <= Len(journal'.entries)
  <2>1. CASE journal' = journal
    BY <1>2, <1>3, <2>1
  <2>2. CASE \E e \in TxEntry : journal' = append(journal, e)
    BY <1>2, <1>3, <2>2, PlainAppend, TxEntryPlain
  <2>3. CASE \E e, f \in TxEntry : journal' = append(append(journal, e), f)
    <3>1. PICK e \in PlainEntry, f \in PlainEntry : journal' = append(append(journal, e), f)
      BY <2>3, TxEntryPlain
    <3> DEFINE j == append(journal, e)
    <3>2. /\ j \in JournalType
          /\ RevertChain(j.entries, stateObjects)
          /\ CreatedNotPending(j.entries, Marked)
          /\ Len(j.entries) = Len(journal.entries) + 1
      BY <1>2, <1>3, PlainAppend
    <3> HIDE DEF j
    <3>3. /\ append(j, f) \in JournalType
          /\ RevertChain(append(j, f).entries, stateObjects)
          /\ CreatedNotPending(append(j, f).entries, Marked)
          /\ Len(append(j, f).entries) = Len(j.entries) + 1
      BY <3>2, PlainAppend
    <3> QED BY <1>2, <3>1, <3>2, <3>3 DEF j
  <2> QED BY <1>1, <2>1, <2>2, <2>3 DEF TxGrows
<1>5. UNCHANGED <<originalRoot, trie, stateObjects, stateObjectsPending, stateObjectsDirty,
                  stateObjectsDestruct, dbErr>>
  BY DEF accountVars
<1>6. TypeOK'
  <2>1. JournalTypeOK'
    BY <1>1, <1>4 DEF IInv, TypeOK, JournalTypeOK, TxGrows, JournalType
  <2>2. AccountsTypeOK'
    BY <1>5 DEF IInv, TypeOK, AccountsTypeOK
  <2> QED BY <1>1, <2>1, <2>2 DEF TypeOK
<1>7. RevisionsOrdered'
  BY <1>1, <1>4, GrowRevisions, RevisionsTyped DEF IInv, TypeOK, TxGrows
<1>8. PendingLive' /\ ObjectsRecoverable'
  BY <1>4, <1>5 DEF IInv, PendingLive, ObjectsRecoverable, Marked
<1> QED BY <1>6, <1>7, <1>8 DEF IInv

\* The entry that is undone lies above the revision that is reverted to, so
\* the revisions that survive stay within the journal.
LEMMA UndoJournal ==
    ASSUME JournalTypeOK, RevisionsOrdered, Undoing, journal' = pop(journal),
           UNCHANGED <<validRevisions, nextRevisionId, reverting>>
    PROVE  /\ JournalTypeOK'
           /\ RevisionsOrdered'
           /\ journal'.entries \in Seq(Entry)
           /\ Len(journal.entries) = Len(journal'.entries) + 1
           /\ \A i \in 1..Len(journal'.entries) : journal'.entries[i] = journal.entries[i]
<1>1. journal \in JournalType /\ journal.entries # <<>>
  BY LastEntryType
<1>2. /\ journal' \in JournalType
      /\ Len(journal'.entries) = Len(journal.entries) - 1
      /\ \A i \in 1..Len(journal'.entries) : journal'.entries[i] = journal.entries[i]
  BY <1>1, PopType
<1>3. /\ journal.entries \in Seq(Entry) /\ journal'.entries \in Seq(Entry)
      /\ Len(journal.entries) \in Nat /\ Len(journal'.entries) \in Nat
  BY <1>1, <1>2 DEF JournalType
<1>4. JournalTypeOK'
  BY <1>2 DEF JournalTypeOK, JournalType
<1>9. RevisionsOrdered'
  BY <1>2, <1>3, PopRevisions, RevisionsTyped
<1> QED BY <1>2, <1>3, <1>4, <1>9

\* Undoing an entry outside the account trie preserves the invariant.
LEMMA TxUndoInv ==
    ASSUME IInv, TxUndo, UNCHANGED accountVars
    PROVE  IInv'
<1>0. JournalTypeOK /\ RevisionsOrdered /\ TxTypeOK /\ AccountsTypeOK
      /\ PendingLive /\ ObjectsRecoverable
  BY DEF IInv, TypeOK
<1>1. /\ TxTypeOK' /\ Undoing /\ journal' = pop(journal) /\ LastEntry \in PlainEntry
      /\ UNCHANGED <<validRevisions, nextRevisionId, reverting>>
  BY <1>0, TxUndoStep
<1>2. /\ JournalTypeOK' /\ RevisionsOrdered'
      /\ journal'.entries \in Seq(Entry)
      /\ Len(journal.entries) = Len(journal'.entries) + 1
      /\ \A i \in 1..Len(journal'.entries) : journal'.entries[i] = journal.entries[i]
  BY <1>0, <1>1, UndoJournal
<1>3. /\ LastEntry \in Entry
      /\ LastEntry.kind \notin {"createObject", "resetObject"}
      /\ LastEntry = journal.entries[Len(journal.entries)]
      /\ journal.entries \in Seq(Entry)
  BY <1>0, <1>1, LastEntryType DEF PlainEntry, JournalType
<1>4. UNCHANGED <<originalRoot, trie, stateObjects, stateObjectsPending, stateObjectsDirty,
                  stateObjectsDestruct, dbErr>>
  BY DEF accountVars
<1>5. RevertChain(journal'.entries, stateObjects)
  BY <1>0, <1>2, <1>3, ChainPop DEF ObjectsRecoverable
<1>6. CreatedNotPending(journal'.entries, Marked)
  BY <1>0, <1>2, <1>3 DEF ObjectsRecoverable, CreatedNotPending, Marked
<1>7. ObjectsRecoverable' /\ PendingLive'
  BY <1>0, <1>4, <1>5, <1>6 DEF ObjectsRecoverable, PendingLive, Marked
<1>8. AccountsTypeOK'
  BY <1>0, <1>4 DEF AccountsTypeOK
<1> QED BY <1>1, <1>2, <1>7, <1>8 DEF IInv, TypeOK

\* What undoing an entry of the account trie does to the objects: creation
\* removes one, a reset brings its predecessor back, and the rest change a
\* live object or nothing.
UndoneObjects ==
    \/ /\ LastEntry.kind \notin {"createObject", "resetObject"}
       /\ \A a \in Addr : Live(stateObjects, a) => Live(stateObjects', a)
       /\ \A a \in Addr : stateObjects[a] # Nil => stateObjects'[a] # Nil
       /\ stateObjectsDirty' = stateObjectsDirty
    \/ /\ LastEntry.kind = "createObject"
       /\ \A a \in Addr \ {LastEntry.account} : stateObjects'[a] = stateObjects[a]
       /\ stateObjectsDirty' = stateObjectsDirty \ {LastEntry.account}
    \/ /\ LastEntry.kind = "resetObject"
       /\ stateObjects'[LastEntry.account] = LastEntry.prev
       /\ LastEntry.prev # Nil
       /\ \A a \in Addr \ {LastEntry.account} : stateObjects'[a] = stateObjects[a]
       /\ stateObjectsDirty' = stateObjectsDirty

\* Undoing a change of one field of a live object keeps the objects typed and
\* live.
LEMMA UndoFieldStep ==
    ASSUME stateObjects \in ObjectMap, LastEntry \in Entry, NEW kind \in DerefKinds,
           NEW o, UndoField(kind, o),
           Live(stateObjects, LastEntry.account) =>
               o \in Object /\ o.deleted = stateObjects[LastEntry.account].deleted
    PROVE  /\ stateObjects' \in ObjectMap
           /\ stateObjectsDestruct' = stateObjectsDestruct
           /\ UndoneObjects
<1> DEFINE a == LastEntry.account
<1>1. LastEntry.kind = kind /\ Live(stateObjects, a) /\ stateObjects' = [stateObjects EXCEPT ![a] = o]
      /\ stateObjectsDirty' = stateObjectsDirty /\ stateObjectsDestruct' = stateObjectsDestruct
  BY DEF UndoField, Undo
<1>2. a \in Addr
  BY <1>1, EntryFields DEF DerefKinds
<1>3. o \in Object /\ o.deleted = stateObjects[a].deleted /\ o # Nil
  BY <1>1, ConstantsAssumption
<1>4. /\ stateObjects' \in ObjectMap /\ stateObjects'[a] = o
      /\ \A b \in Addr : b # a => stateObjects'[b] = stateObjects[b]
  BY <1>1, <1>2, <1>3 DEF ObjectMap
<1>5. \A b \in Addr : Live(stateObjects, b) => Live(stateObjects', b)
  BY <1>1, <1>3, <1>4 DEF Live
<1>6. \A b \in Addr : stateObjects[b] # Nil => stateObjects'[b] # Nil
  BY <1>3, <1>4
<1>7. LastEntry.kind \notin {"createObject", "resetObject"}
  BY <1>1 DEF DerefKinds
<1> QED BY <1>1, <1>4, <1>5, <1>6, <1>7 DEF UndoneObjects

\* Every revert method of an account entry leaves typed objects behind and
\* does one of the three things above.
LEMMA AccountUndoStep ==
    ASSUME AccountsTypeOK, LastEntry \in Entry, AccountUndo
    PROVE  /\ stateObjects' \in ObjectMap
           /\ stateObjectsDestruct' \in SUBSET Addr
           /\ UndoneObjects
<1>0. stateObjects \in ObjectMap /\ stateObjectsDestruct \in SUBSET Addr
  BY DEF AccountsTypeOK, ObjectMap
<1> DEFINE e == LastEntry
           a == LastEntry.account
<1>1. CASE UndoCreateObject
  <2>1. e.kind = "createObject" /\ a \in Addr
    BY <1>1, EntryFields DEF UndoCreateObject, Undo
  <2>2. stateObjects' = [stateObjects EXCEPT ![a] = Nil]
        /\ stateObjectsDirty' = stateObjectsDirty \ {a}
        /\ stateObjectsDestruct' = stateObjectsDestruct
    BY <1>1 DEF UndoCreateObject
  <2>3. stateObjects' \in ObjectMap /\ \A b \in Addr : b # a => stateObjects'[b] = stateObjects[b]
    BY <1>0, <2>1, <2>2 DEF ObjectMap
  <2> QED BY <1>0, <2>1, <2>2, <2>3 DEF UndoneObjects
<1>2. CASE UndoResetObject
  <2>1. e.kind = "resetObject" /\ a \in Addr /\ e.prev \in Object /\ e.prev # Nil
    BY <1>2, EntryFields, ConstantsAssumption DEF UndoResetObject, Undo
  <2>2. stateObjects' = [stateObjects EXCEPT ![a] = e.prev]
        /\ stateObjectsDirty' = stateObjectsDirty
        /\ stateObjectsDestruct' \in SUBSET Addr
    BY <1>0, <1>2 DEF UndoResetObject
  <2>3. stateObjects' \in ObjectMap /\ stateObjects'[a] = e.prev
        /\ \A b \in Addr : b # a => stateObjects'[b] = stateObjects[b]
    BY <1>0, <2>1, <2>2 DEF ObjectMap
  <2> QED BY <2>1, <2>2, <2>3 DEF UndoneObjects
<1>3. CASE UndoSuicide
  <2>1. e.kind = "suicide" /\ a \in Addr /\ e.prev \in BOOLEAN /\ e.prevbalance \in Int
    BY <1>3, EntryFields DEF UndoSuicide, Undo
  <2>2. stateObjectsDirty' = stateObjectsDirty /\ stateObjectsDestruct' = stateObjectsDestruct
    BY <1>3 DEF UndoSuicide
  <2>3. CASE Live(stateObjects, a)
    <3> DEFINE p == stateObjects[a]
               q == [p EXCEPT !.suicided = e.prev]
               o == [q EXCEPT !.balance = e.prevbalance]
    <3>1. p \in Object
      BY <1>0, <2>1, <2>3, LiveObject
    <3>2. q \in Object /\ q.deleted = p.deleted
      BY <2>1, <3>1 DEF Object
    <3>3. o \in Object /\ o.deleted = q.deleted
      <4> HIDE DEF q
      <4> QED BY <2>1, <3>2 DEF Object
    <3>4. stateObjects' = [stateObjects EXCEPT ![a] = o]
      BY <1>0, <1>3, <2>1, <2>3 DEF UndoSuicide, ObjectMap
    <3>5. o # Nil /\ ~o.deleted
      BY <2>3, <3>2, <3>3, ConstantsAssumption DEF Live
    <3> HIDE DEF o, q, p
    <3>6. /\ stateObjects' \in ObjectMap /\ stateObjects'[a] = o
          /\ \A b \in Addr : b # a => stateObjects'[b] = stateObjects[b]
      BY <1>0, <2>1, <3>3, <3>4 DEF ObjectMap
    <3>7. /\ \A b \in Addr : Live(stateObjects, b) => Live(stateObjects', b)
          /\ \A b \in Addr : stateObjects[b] # Nil => stateObjects'[b] # Nil
      BY <3>5, <3>6 DEF Live
    <3> QED BY <1>0, <2>1, <2>2, <3>6, <3>7 DEF UndoneObjects
  <2>4. CASE ~Live(stateObjects, a)
    <3>1. stateObjects' = stateObjects
      BY <1>3, <2>4 DEF UndoSuicide
    <3> QED BY <1>0, <2>1, <2>2, <3>1 DEF UndoneObjects
  <2> QED BY <2>3, <2>4
<1>4. CASE UndoTouch
  BY <1>0, <1>4 DEF UndoTouch, Undo, UndoneObjects
<1>5. CASE UndoBalance
  <2> DEFINE o == [LastObject EXCEPT !.balance = e.prev]
  <2>1. e.kind = "balance" /\ a \in Addr /\ e.prev \in Int
    BY <1>5, EntryFields DEF UndoBalance, UndoField, Undo
  <2>2. Live(stateObjects, a) => o \in Object /\ o.deleted = stateObjects[a].deleted
    BY <1>0, <2>1, LiveObject DEF LastObject, Object
  <2>3. UndoField("balance", o) /\ "balance" \in DerefKinds
    BY <1>5 DEF UndoBalance, DerefKinds
  <2> HIDE DEF o
  <2> QED BY <1>0, <2>2, <2>3, UndoFieldStep
<1>6. CASE UndoNonce
  <2> DEFINE o == [LastObject EXCEPT !.nonce = e.prev]
  <2>1. e.kind = "nonce" /\ a \in Addr /\ e.prev \in Nat
    BY <1>6, EntryFields DEF UndoNonce, UndoField, Undo
  <2>2. Live(stateObjects, a) => o \in Object /\ o.deleted = stateObjects[a].deleted
    BY <1>0, <2>1, LiveObject DEF LastObject, Object
  <2>3. UndoField("nonce", o) /\ "nonce" \in DerefKinds
    BY <1>6 DEF UndoNonce, DerefKinds
  <2> HIDE DEF o
  <2> QED BY <1>0, <2>2, <2>3, UndoFieldStep
<1>7. CASE UndoCode
  <2> DEFINE o == [LastObject EXCEPT !.code = e.prev]
  <2>1. e.kind = "code" /\ a \in Addr /\ e.prev \in Code
    BY <1>7, EntryFields DEF UndoCode, UndoField, Undo
  <2>2. Live(stateObjects, a) => o \in Object /\ o.deleted = stateObjects[a].deleted
    BY <1>0, <2>1, LiveObject DEF LastObject, Object
  <2>3. UndoField("code", o) /\ "code" \in DerefKinds
    BY <1>7 DEF UndoCode, DerefKinds
  <2> HIDE DEF o
  <2> QED BY <1>0, <2>2, <2>3, UndoFieldStep
<1>8. CASE UndoStorage
  <2> DEFINE d == [LastObject.dirtyStorage EXCEPT ![e.key] = e.prevalue]
             o == [LastObject EXCEPT !.dirtyStorage = d]
  <2>1. e.kind = "storage" /\ a \in Addr /\ e.key \in Key /\ e.prevalue \in Word
    BY <1>8, EntryFields DEF UndoStorage, UndoField, Undo
  <2>2. Live(stateObjects, a) => LastObject \in Object /\ d \in Cache
    BY <1>0, <2>1, LiveObject DEF LastObject, Object, Cache
  <2>3. UndoField("storage", o) /\ "storage" \in DerefKinds
    BY <1>8 DEF UndoStorage, DerefKinds
  <2> HIDE DEF d
  <2>4. Live(stateObjects, a) => o \in Object /\ o.deleted = stateObjects[a].deleted
    BY <2>2 DEF LastObject, Object
  <2> HIDE DEF o
  <2> QED BY <1>0, <2>3, <2>4, UndoFieldStep
<1> QED BY <1>1, <1>2, <1>3, <1>4, <1>5, <1>6, <1>7, <1>8 DEF AccountUndo

\* Undoing an entry of the account trie preserves the invariant: an object
\* whose creation is undone was not pending, and a reset returns to the
\* object that earlier changes need.
LEMMA AccountUndoInv ==
    ASSUME IInv, AccountUndo, UNCHANGED txVars
    PROVE  IInv'
<1>0. JournalTypeOK /\ RevisionsOrdered /\ TxTypeOK /\ AccountsTypeOK
      /\ PendingLive /\ ObjectsRecoverable
  BY DEF IInv, TypeOK
<1>1. /\ Undoing /\ journal' = pop(journal)
      /\ UNCHANGED <<validRevisions, nextRevisionId, reverting>>
      /\ UNCHANGED <<originalRoot, trie, stateObjectsPending, dbErr>>
  BY DEF AccountUndo, UndoCreateObject, UndoResetObject, UndoSuicide, UndoTouch, UndoBalance,
         UndoNonce, UndoCode, UndoStorage, UndoField, Undo
<1>2. /\ JournalTypeOK' /\ RevisionsOrdered'
      /\ journal'.entries \in Seq(Entry)
      /\ Len(journal.entries) = Len(journal'.entries) + 1
      /\ \A i \in 1..Len(journal'.entries) : journal'.entries[i] = journal.entries[i]
  BY <1>0, <1>1, UndoJournal
<1>3. /\ LastEntry \in Entry
      /\ LastEntry = journal.entries[Len(journal.entries)]
      /\ journal.entries \in Seq(Entry)
      /\ Len(journal.entries) \in 1..Len(journal.entries)
  BY <1>0, <1>1, <1>2, LastEntryType DEF JournalType
<1>4. stateObjects' \in ObjectMap /\ stateObjectsDestruct' \in SUBSET Addr /\ UndoneObjects
  BY <1>0, <1>3, AccountUndoStep
<1>5. stateObjectsDirty' \in SUBSET stateObjectsDirty
  BY <1>4 DEF UndoneObjects
<1>6. AccountsTypeOK'
  BY <1>0, <1>1, <1>4, <1>5 DEF AccountsTypeOK, ObjectMap
<1>7. TxTypeOK'
  BY <1>0 DEF TxTypeOK, txVars
<1>8. RevertChain(journal.entries, stateObjects) /\ CreatedNotPending(journal.entries, Marked)
  BY <1>0 DEF ObjectsRecoverable, Marked
<1>9. RevertChain(journal'.entries, stateObjects')
  <2> DEFINE es == journal.entries
             fs == journal'.entries
             objs2 == stateObjects'
  <2>1. /\ es \in Seq(Entry) /\ fs \in Seq(Entry) /\ LastEntry \in Entry
        /\ Len(es) = Len(fs) + 1 /\ LastEntry = es[Len(es)]
        /\ \A i \in 1..Len(fs) : fs[i] = es[i]
        /\ RevertChain(es, stateObjects)
    BY <1>2, <1>3, <1>8
  <2>2. \/ /\ LastEntry.kind \notin {"createObject", "resetObject"}
           /\ \A a \in Addr : Live(stateObjects, a) => Live(objs2, a)
        \/ /\ LastEntry.kind = "createObject"
           /\ \A a \in Addr \ {LastEntry.account} : objs2[a] = stateObjects[a]
        \/ /\ LastEntry.kind = "resetObject"
           /\ objs2[LastEntry.account] = LastEntry.prev
           /\ \A a \in Addr \ {LastEntry.account} : objs2[a] = stateObjects[a]
    BY <1>4, Zenon DEF UndoneObjects
  <2> HIDE DEF es, fs, objs2
  <2>3. RevertChain(fs, objs2)
    BY <2>1, <2>2, ChainPop, SMTT(30)
  <2> QED BY <2>3 DEF fs, objs2
<1>10. CreatedNotPending(journal'.entries, Marked')
  BY <1>1, <1>2, <1>3, <1>5, <1>8 DEF CreatedNotPending, Marked
<1>11. \A a \in Marked' : stateObjects'[a] # Nil
  <2>0. Marked' \subseteq Marked /\ Marked \subseteq Addr /\ \A a \in Marked : stateObjects[a] # Nil
    BY <1>0, <1>1, <1>5 DEF Marked, PendingLive, AccountsTypeOK
  <2>1. CASE LastEntry.kind \notin {"createObject", "resetObject"}
    BY <1>4, <2>0, <2>1 DEF UndoneObjects
  <2>2. CASE LastEntry.kind = "createObject"
    <3>1. LastEntry.account \notin Marked
      BY <1>3, <1>8, <2>2 DEF CreatedNotPending
    <3>2. \A a \in Addr \ {LastEntry.account} : stateObjects'[a] = stateObjects[a]
      BY <1>4, <2>2 DEF UndoneObjects
    <3> QED BY <2>0, <3>1, <3>2
  <2>3. CASE LastEntry.kind = "resetObject"
    BY <1>4, <2>0, <2>3 DEF UndoneObjects
  <2> QED BY <2>1, <2>2, <2>3
<1>12. ObjectsRecoverable' /\ PendingLive'
  BY <1>9, <1>10, <1>11 DEF ObjectsRecoverable, PendingLive, Marked
<1> QED BY <1>2, <1>6, <1>7, <1>12 DEF IInv, TypeOK

\* Taking a snapshot keeps the revisions in order: its id and its index are
\* the largest so far.
LEMMA SnapshotInv ==
    ASSUME IInv, Snapshot, UNCHANGED <<txVars, accountVars>>
    PROVE  IInv'
<1>0. JournalTypeOK /\ RevisionsOrdered /\ TxTypeOK /\ AccountsTypeOK
      /\ PendingLive /\ ObjectsRecoverable
  BY DEF IInv, TypeOK
<1>3. journal' = journal
  BY DEF Snapshot
<1>9. RevisionsOrdered' /\ RevisionTypes'
  BY <1>0, SnapshotRevisions, RevisionsTyped
<1>10. JournalTypeOK'
  BY <1>0, <1>3, <1>9 DEF JournalTypeOK, RevisionTypes
<1>11. TxTypeOK' /\ AccountsTypeOK'
  BY <1>0 DEF TxTypeOK, AccountsTypeOK, txVars, accountVars
<1>12. PendingLive' /\ ObjectsRecoverable'
  BY <1>0, <1>3 DEF PendingLive, ObjectsRecoverable, accountVars
<1> QED BY <1>9, <1>10, <1>11, <1>12 DEF IInv, TypeOK

\* Beginning a revert only picks an index of the revision stack.
LEMMA RevertToSnapshotInv ==
    ASSUME IInv, NEW id, RevertToSnapshot(id), UNCHANGED <<txVars, accountVars>>
    PROVE  IInv'
<1>0. JournalTypeOK /\ RevisionsOrdered /\ TxTypeOK /\ AccountsTypeOK
      /\ PendingLive /\ ObjectsRecoverable
  BY DEF IInv, TypeOK
<1>1. journal' = journal
  BY DEF RevertToSnapshot
<1>2. RevisionsOrdered' /\ RevisionTypes'
  BY <1>0, RevertRevisions, RevisionsTyped
<1>3. JournalTypeOK' /\ RevisionsOrdered'
  BY <1>0, <1>1, <1>2 DEF JournalTypeOK, RevisionTypes
<1>4. TxTypeOK' /\ AccountsTypeOK'
  BY <1>0 DEF TxTypeOK, AccountsTypeOK, txVars, accountVars
<1>5. PendingLive' /\ ObjectsRecoverable'
  BY <1>0, <1>1 DEF PendingLive, ObjectsRecoverable, accountVars
<1> QED BY <1>3, <1>4, <1>5 DEF IInv, TypeOK

\* The end of a revert cuts the stack below the revision reverted to.
LEMMA RevertDoneInv ==
    ASSUME IInv, RevertDone, UNCHANGED <<txVars, accountVars>>
    PROVE  IInv'
<1>0. JournalTypeOK /\ RevisionsOrdered /\ TxTypeOK /\ AccountsTypeOK
      /\ PendingLive /\ ObjectsRecoverable
  BY DEF IInv, TypeOK
<1>1. journal' = journal
  BY DEF RevertDone
<1>4. RevisionsOrdered' /\ RevisionTypes'
  BY <1>0, DoneRevisions, RevisionsTyped
<1>3. JournalTypeOK'
  BY <1>0, <1>1, <1>4 DEF JournalTypeOK, RevisionTypes
<1>5. TxTypeOK' /\ AccountsTypeOK'
  BY <1>0 DEF TxTypeOK, AccountsTypeOK, txVars, accountVars
<1>6. PendingLive' /\ ObjectsRecoverable'
  BY <1>0, <1>1 DEF PendingLive, ObjectsRecoverable, accountVars
<1> QED BY <1>3, <1>4, <1>5, <1>6 DEF IInv, TypeOK

-----------------------------------------------------------------------------
(* The end of a transaction, and copies.                                   *)

\* A state with an empty journal and no snapshot satisfies the parts of the
\* invariant that speak of them.
LEMMA EmptyJournalInv ==
    ASSUME NEW es, es = <<>>, NEW objs, NEW P
    PROVE  CreatedNotPending(es, P) /\ RevertChain(es, objs)
BY DEF CreatedNotPending, RevertChain

\* clearJournalAndRefund leaves an empty, typed journal and no snapshots.
LEMMA ClearStep ==
    ASSUME JournalTypeOK, refund \in Nat, Idle, clearJournalAndRefund
    PROVE  /\ JournalTypeOK' /\ RevisionsOrdered'
           /\ refund' \in Nat
           /\ journal'.entries = <<>>
<1>1. /\ validRevisions' = <<>> /\ nextRevisionId' = nextRevisionId /\ reverting' = 0
      /\ journal' \in {journal, newJournal} /\ refund' \in {refund, 0}
  BY DEF clearJournalAndRefund, Idle
<1>2. journal'.entries = <<>>
  BY DEF clearJournalAndRefund, newJournal
<1>3. journal' \in JournalType
  BY <1>1, NewJournalType DEF JournalTypeOK, JournalType
<1>4. JournalTypeOK'
  BY <1>1, <1>3 DEF JournalTypeOK, JournalType
<1>5. RevisionsOrdered'
  BY <1>1 DEF RevisionsOrdered
<1> QED BY <1>1, <1>2, <1>4, <1>5

\* Finalise and IntermediateRoot replace objects by objects and remove none;
\* the accounts Finalise visits have one.
LEMMA FinalisedType ==
    ASSUME AccountsTypeOK, NEW d \in BOOLEAN
    PROVE  /\ Finalised \in SUBSET Addr
           /\ \A a \in Finalised : stateObjects[a] # Nil
           /\ FinalisedObjects(d) \in ObjectMap
           /\ \A a \in Addr : stateObjects[a] # Nil => FinalisedObjects(d)[a] # Nil
           /\ FinalisedDestruct(d) \in SUBSET Addr
<1>1. Finalised \in SUBSET Addr /\ \A a \in Finalised : stateObjects[a] # Nil
  BY DEF Finalised, DirtyAccounts
<1>2. \A a \in Finalised : stateObjects[a] \in Object
  BY <1>1 DEF AccountsTypeOK
<1>3. \A o \in Object : FinalisedObject(o, d) \in Object
  <2> TAKE o \in Object
  <2>1. finalise(o) \in Object
    BY FinaliseType
  <2>2. [o EXCEPT !.deleted = TRUE] \in Object
    BY DEF Object
  <2> QED BY <2>1, <2>2 DEF FinalisedObject
<1>4. \A a \in Finalised : FinalisedObject(stateObjects[a], d) \in Object
  BY <1>2, <1>3
<1>5. \A a \in Finalised : FinalisedObject(stateObjects[a], d) # Nil
  BY <1>4, ConstantsAssumption
<1>6. FinalisedObjects(d) \in ObjectMap
  BY <1>4 DEF FinalisedObjects, ObjectMap, AccountsTypeOK
<1>7. \A a \in Addr : stateObjects[a] # Nil => FinalisedObjects(d)[a] # Nil
  BY <1>5 DEF FinalisedObjects
<1>8. FinalisedDestruct(d) \in SUBSET Addr
  BY <1>1 DEF FinalisedDestruct, AccountsTypeOK
<1> QED BY <1>1, <1>6, <1>7, <1>8

\* Finalise preserves the invariant.
LEMMA FinaliseInv ==
    ASSUME IInv, NEW d \in BOOLEAN, Finalise(d)
    PROVE  IInv'
<1>0. JournalTypeOK /\ TxTypeOK /\ AccountsTypeOK /\ PendingLive /\ refund \in Nat
  BY DEF IInv, TypeOK, TxTypeOK
<1>1. /\ JournalTypeOK' /\ RevisionsOrdered' /\ refund' \in Nat /\ journal'.entries = <<>>
  BY <1>0, ClearStep DEF Finalise
<1>2. /\ Finalised \in SUBSET Addr /\ \A a \in Finalised : stateObjects[a] # Nil
      /\ FinalisedObjects(d) \in ObjectMap
      /\ \A a \in Addr : stateObjects[a] # Nil => FinalisedObjects(d)[a] # Nil
      /\ FinalisedDestruct(d) \in SUBSET Addr
  BY <1>0, FinalisedType
<1>3. /\ stateObjects' = FinalisedObjects(d)
      /\ stateObjectsDestruct' = FinalisedDestruct(d)
      /\ stateObjectsPending' = stateObjectsPending \cup Finalised
      /\ stateObjectsDirty' = stateObjectsDirty \cup Finalised
      /\ UNCHANGED <<originalRoot, trie, dbErr>>
      /\ UNCHANGED <<logs, logSize, thash, preimages, accessList, transientStorage>>
  BY DEF Finalise
<1>4. AccountsTypeOK'
  BY <1>0, <1>2, <1>3 DEF AccountsTypeOK, ObjectMap
<1>5. TxTypeOK'
  BY <1>0, <1>1, <1>3 DEF TxTypeOK
<1>6. PendingLive'
  BY <1>0, <1>2, <1>3 DEF PendingLive, AccountsTypeOK
<1>7. ObjectsRecoverable'
  BY <1>1, EmptyJournalInv DEF ObjectsRecoverable
<1> QED BY <1>1, <1>4, <1>5, <1>6, <1>7 DEF IInv, TypeOK

\* Writing the accounts of a set to the trie keeps it typed.
LEMMA WrittenTrieType ==
    ASSUME NEW base \in AccountTrie, NEW objs \in ObjectMap, NEW S,
           \A a \in S : objs[a] # Nil
    PROVE  WrittenTrie(base, objs, S) \in AccountTrie
<1>1. \A o \in Object : data(o) \in Account
  BY DEF data, Object, Account
<1>2. \A a \in Addr : a \in S => data(objs[a]) \in Account
  BY <1>1 DEF ObjectMap
<1> QED BY <1>2 DEF WrittenTrie, AccountTrie

\* What IntermediateRoot's loops leave behind: the same objects, with new
\* roots or with the traces of a failed write.
LEMMA FlushedType ==
    ASSUME NEW base \in AccountTrie, NEW objs \in ObjectMap, NEW S \in SUBSET Addr,
           \A a \in S : objs[a] # Nil, NEW f \in Flushed(base, objs, S)
    PROVE  /\ f.objs \in ObjectMap
           /\ f.trie \in AccountTrie
           /\ f.err \in BOOLEAN
           /\ \A a \in Addr : objs[a] # Nil => f.objs[a] # Nil
<1> DEFINE rooted == Rooted(objs, S)
<1>1. \A a \in S : objs[a] \in Object
  BY DEF ObjectMap
<1>2. \A o \in Object : updateRoot(o) \in Object /\ updateRoot(o) # Nil
  BY UpdateRootType, ConstantsAssumption
<1>3. \A o \in Object : \A g \in updateRootFailed(o) : g \in Object /\ g # Nil
  BY UpdateRootFailedType, ConstantsAssumption
<1>4. rooted \in ObjectMap
  BY <1>1, <1>2 DEF Rooted, ObjectMap
<1>5. \A a \in Addr : objs[a] # Nil => rooted[a] # Nil
  BY <1>1, <1>2 DEF Rooted
<1> HIDE DEF rooted
<1>6. CASE f = FlushOutcome(base, rooted, S, FALSE)
  <2>1. WrittenTrie(base, rooted, S) \in AccountTrie
    BY <1>4, <1>5, WrittenTrieType
  <2> QED BY <1>4, <1>5, <1>6, <2>1 DEF FlushOutcome
<1>7. CASE \E a \in S : f = FlushOutcome(base, rooted, S \ {a}, TRUE)
  <2>1. PICK a \in S : f = FlushOutcome(base, rooted, S \ {a}, TRUE)
    BY <1>7
  <2>2. WrittenTrie(base, rooted, S \ {a}) \in AccountTrie
    BY <1>4, <1>5, WrittenTrieType
  <2> QED BY <1>4, <1>5, <2>1, <2>2 DEF FlushOutcome
<1>8. CASE \E a \in S : \E o \in updateRootFailed(objs[a]) :
              f = FlushOutcome(base, [rooted EXCEPT ![a] = o], S, TRUE)
  <2>1. PICK a \in S : \E o \in updateRootFailed(objs[a]) :
              f = FlushOutcome(base, [rooted EXCEPT ![a] = o], S, TRUE)
    BY <1>8
  <2>2. PICK o \in updateRootFailed(objs[a]) : f = FlushOutcome(base, [rooted EXCEPT ![a] = o], S, TRUE)
    BY <2>1
  <2> DEFINE g == [rooted EXCEPT ![a] = o]
  <2>3. o \in Object /\ o # Nil
    BY <1>1, <1>3
  <2>4. g \in ObjectMap /\ \A b \in Addr : g[b] = IF b = a THEN o ELSE rooted[b]
    BY <1>4, <2>3 DEF ObjectMap
  <2>5. f = FlushOutcome(base, g, S, TRUE)
    BY <2>2
  <2> HIDE DEF g
  <2>6. \A b \in Addr : objs[b] # Nil => g[b] # Nil
    BY <1>5, <2>3, <2>4
  <2>7. WrittenTrie(base, g, S) \in AccountTrie
    BY <2>4, <2>6, WrittenTrieType
  <2> QED BY <2>4, <2>5, <2>6, <2>7 DEF FlushOutcome
<1>9. \/ f = FlushOutcome(base, rooted, S, FALSE)
      \/ \E a \in S : f = FlushOutcome(base, rooted, S \ {a}, TRUE)
      \/ \E a \in S : \E o \in updateRootFailed(objs[a]) :
            f = FlushOutcome(base, [rooted EXCEPT ![a] = o], S, TRUE)
  BY DEF Flushed, rooted
<1> QED BY <1>6, <1>7, <1>8, <1>9

\* IntermediateRoot preserves the invariant, also when reads fail.
LEMMA IntermediateRootInv ==
    ASSUME IInv, NEW d \in BOOLEAN, IntermediateRoot(d)
    PROVE  IInv'
<1>0. JournalTypeOK /\ TxTypeOK /\ AccountsTypeOK /\ PendingLive /\ refund \in Nat
  BY DEF IInv, TypeOK, TxTypeOK
<1>1. /\ JournalTypeOK' /\ RevisionsOrdered' /\ refund' \in Nat /\ journal'.entries = <<>>
  BY <1>0, ClearStep DEF IntermediateRoot, IntermediateRootOn
<1> DEFINE objs == FinalisedObjects(d)
           pending == stateObjectsPending \cup Finalised
<1>2. /\ Finalised \in SUBSET Addr /\ \A a \in Finalised : stateObjects[a] # Nil
      /\ objs \in ObjectMap
      /\ \A a \in Addr : stateObjects[a] # Nil => objs[a] # Nil
      /\ FinalisedDestruct(d) \in SUBSET Addr
  BY <1>0, FinalisedType
<1>3. PICK f \in Flushed(trie, objs, pending) :
         stateObjects' = f.objs /\ trie' = f.trie /\ dbErr' = (dbErr \/ f.err)
  BY DEF IntermediateRoot, IntermediateRootOn
<1>4. /\ stateObjectsDestruct' = FinalisedDestruct(d)
      /\ stateObjectsPending' = {}
      /\ stateObjectsDirty' = stateObjectsDirty \cup Finalised
      /\ originalRoot' = originalRoot
      /\ UNCHANGED <<logs, logSize, thash, preimages, accessList, transientStorage>>
  BY DEF IntermediateRoot, IntermediateRootOn
<1>5. pending \in SUBSET Addr /\ \A a \in pending : stateObjects[a] # Nil
  BY <1>0, <1>2 DEF PendingLive, AccountsTypeOK
<1>6. trie \in AccountTrie /\ dbErr \in BOOLEAN
  BY <1>0 DEF AccountsTypeOK
<1> HIDE DEF objs, pending
<1>7. \A a \in pending : objs[a] # Nil
  BY <1>2, <1>5
<1>8. /\ f.objs \in ObjectMap /\ f.trie \in AccountTrie /\ f.err \in BOOLEAN
      /\ \A a \in Addr : objs[a] # Nil => f.objs[a] # Nil
  BY <1>2, <1>3, <1>5, <1>6, <1>7, FlushedType
<1>9. dbErr' \in BOOLEAN
  BY <1>3, <1>6, <1>8
<1>10. AccountsTypeOK'
  BY <1>0, <1>2, <1>3, <1>4, <1>8, <1>9 DEF AccountsTypeOK, ObjectMap
<1>11. TxTypeOK'
  BY <1>0, <1>1, <1>4 DEF TxTypeOK
<1>12. PendingLive'
  BY <1>0, <1>2, <1>3, <1>4, <1>8 DEF PendingLive, AccountsTypeOK
<1>13. ObjectsRecoverable'
  BY <1>1, EmptyJournalInv DEF ObjectsRecoverable
<1> QED BY <1>1, <1>10, <1>11, <1>12, <1>13 DEF IInv, TypeOK

\* A copy satisfies the invariant: it keeps the objects of every address it
\* marks, and has no journal and no snapshots.
LEMMA CopyInv ==
    ASSUME IInv, Copy
    PROVE  IInv'
<1>0. JournalTypeOK /\ TxTypeOK /\ AccountsTypeOK /\ PendingLive
  BY DEF IInv, TypeOK
<1>1. /\ journal' = newJournal /\ validRevisions' = <<>> /\ nextRevisionId' = 0
      /\ reverting' = 0 /\ thash' = NoTx /\ dbErr' = FALSE
      /\ UNCHANGED <<originalRoot, trie, stateObjectsDestruct>>
      /\ UNCHANGED <<refund, logs, logSize, preimages, accessList, transientStorage>>
      /\ stateObjectsPending' = stateObjectsPending \cup Finalised
      /\ stateObjectsDirty' = stateObjectsDirty \cup Finalised
  BY DEF Copy, Idle
<1>2. Finalised \in SUBSET Addr /\ \A a \in Finalised : stateObjects[a] # Nil
  BY DEF Finalised, DirtyAccounts
<1>3. JournalTypeOK' /\ RevisionsOrdered' /\ journal'.entries = <<>>
  BY <1>1, NewJournalType DEF JournalTypeOK, RevisionsOrdered, JournalType, newJournal
<1>4. stateObjects' = [a \in Addr |->
         IF a \in Finalised \cup stateObjectsPending \cup stateObjectsDirty
         THEN stateObjects[a] ELSE Nil]
  BY DEF Copy, Copied
<1>5. AccountsTypeOK'
  BY <1>0, <1>1, <1>2, <1>4 DEF AccountsTypeOK
<1>6. TxTypeOK'
  BY <1>0, <1>1, TxAssumption DEF TxTypeOK
<1>7. PendingLive'
  BY <1>0, <1>1, <1>2, <1>4 DEF PendingLive, AccountsTypeOK
<1>8. ObjectsRecoverable'
  BY <1>3, EmptyJournalInv DEF ObjectsRecoverable
<1> QED BY <1>3, <1>5, <1>6, <1>7, <1>8 DEF IInv, TypeOK

-----------------------------------------------------------------------------
(* The theorems.                                                           *)

\* The invariant holds in a StateDB that was just opened.
LEMMA InitInv == Init => IInv
<1> SUFFICES ASSUME Init PROVE IInv
  OBVIOUS
<1>1. JournalTypeOK /\ RevisionsOrdered /\ journal.entries = <<>>
  BY NewJournalType
  DEF Init, JournalInit, JournalTypeOK, RevisionsOrdered, JournalType, newJournal
<1>2. AccountsTypeOK /\ PendingLive
  BY AccountsAssumption DEF Init, AccountsInit, AccountsTypeOK, PendingLive
<1>3. TxTypeOK
  <2>1. AL!newAccessList \in AccessListType
    BY DEF AL!newAccessList, AccessListType
  <2>2. newTransientStorage \in [Warm -> [TransientKey -> Word]]
    BY ConstantsAssumption DEF newTransientStorage
  <2>3. [t \in TxHash |-> <<>>] \in [TxHash -> Seq(Int)]
    OBVIOUS
  <2> QED BY <2>1, <2>2, <2>3, TxAssumption DEF Init, TxInit, TxTypeOK, AccessListType
<1>4. ObjectsRecoverable
  BY <1>1, EmptyJournalInv DEF ObjectsRecoverable
<1> QED BY <1>1, <1>2, <1>3, <1>4 DEF IInv, TypeOK

\* Every step preserves the invariant.
LEMMA NextInv == IInv /\ [Next]_vars => IInv'
<1> SUFFICES ASSUME IInv, [Next]_vars PROVE IInv'
  OBVIOUS
<1>1. CASE TxSetter /\ UNCHANGED accountVars
  BY <1>1, TxSetterInv
<1>2. CASE (\E a \in Addr, io \in Reads : AccountCall(a, io)) /\ UNCHANGED txVars
  BY <1>2, AccountCallStep
<1>3. CASE Snapshot /\ UNCHANGED <<txVars, accountVars>>
  BY <1>3, SnapshotInv
<1>4. CASE (\E id \in 0..(MaxRevisionId - 1) : RevertToSnapshot(id))
           /\ UNCHANGED <<txVars, accountVars>>
  BY <1>4, RevertToSnapshotInv
<1>5. CASE RevertStep
  BY <1>5, TxUndoInv, AccountUndoInv, RevertDoneInv DEF RevertStep
<1>6. CASE \E d \in BOOLEAN : Finalise(d) \/ IntermediateRoot(d)
  BY <1>6, FinaliseInv, IntermediateRootInv
<1>7. CASE Copy
  BY <1>7, CopyInv
<1>8. CASE UNCHANGED vars
  BY <1>8 DEF vars, journalVars, txVars, accountVars, IInv, TypeOK, JournalTypeOK, TxTypeOK,
              AccountsTypeOK, RevisionsOrdered, PendingLive, ObjectsRecoverable, Idle
<1> QED BY <1>1, <1>2, <1>3, <1>4, <1>5, <1>6, <1>7, <1>8 DEF Next, Call

\* The inductive invariant holds throughout every behaviour of StateDB.
THEOREM Invariance == Spec => []IInv
BY InitInv, NextInv, PTL DEF Spec

\* Every field of a StateDB keeps its type, whatever is called on it.
THEOREM TypeCorrect == Spec => []TypeOK
<1>1. IInv => TypeOK
  BY DEF IInv
<1> QED BY <1>1, Invariance, PTL

\* The revision stack that RevertToSnapshot searches and cuts is always
\* sorted by id and by journal index, and points into the journal.
THEOREM RevisionsAlwaysOrdered == Spec => []RevisionsOrdered
<1>1. IInv => RevisionsOrdered
  BY DEF IInv
<1> QED BY <1>1, Invariance, PTL

\* IntermediateRoot and Copy never dereference a nil object: every pending
\* or dirty address has one.
THEOREM PendingAlwaysLive == Spec => []PendingLive
<1>1. IInv => PendingLive
  BY DEF IInv
<1> QED BY <1>1, Invariance, PTL

\* Every change that needs its object to be reverted still finds it, or finds
\* first the reset that returns it, and no account created in the transaction
\* is pending or dirty.
THEOREM ObjectsAlwaysRecoverable == Spec => []ObjectsRecoverable
<1>1. IInv => ObjectsRecoverable
  BY DEF IInv
<1> QED BY <1>1, Invariance, PTL

\* The revert methods of balance, nonce, code and storage changes never
\* dereference a nil object.
THEOREM RevertAlwaysFindsObject == Spec => []RevertFindsObject
<1>1. IInv => RevertFindsObject
  <2> SUFFICES ASSUME IInv, Undoing, LastEntry.kind \in DerefKinds
               PROVE  Live(stateObjects, LastEntry.account)
    BY DEF RevertFindsObject
  <2> DEFINE es == journal.entries
  <2>1. JournalTypeOK /\ RevisionsOrdered /\ RevertChain(es, stateObjects)
    BY DEF IInv, TypeOK, ObjectsRecoverable
  <2>2. /\ journal \in JournalType /\ es # <<>> /\ LastEntry = es[Len(es)]
    BY <2>1, LastEntryType
  <2>3. es \in Seq(Entry) /\ Len(es) \in 1..Len(es)
    BY <2>2 DEF JournalType
  <2>4. Recoverable(es, stateObjects, Len(es))
    BY <2>1, <2>2, <2>3 DEF RevertChain
  <2> QED BY <2>2, <2>3, <2>4 DEF Recoverable
<1> QED BY <1>1, Invariance, PTL
=============================================================================
