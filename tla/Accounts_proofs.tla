-------------------------- MODULE Accounts_proofs --------------------------
(***************************************************************************)
(* Proofs about the accounts of StateDB and about the journal that tells   *)
(* Finalise, Copy and the reverts what changed.  The methods are first     *)
(* taken apart into the few primitive steps they are made of, so that an   *)
(* invariant has to be shown for the primitives only.                      *)
(***************************************************************************)
EXTENDS StateDB_proofs

-----------------------------------------------------------------------------
(* The primitive steps of a method call on account a, from the threaded    *)
(* record s to the record r.                                               *)

Fields(r, objs, destruct, j, err) ==
    /\ r \in Threaded
    /\ r.objs = objs
    /\ r.destruct = destruct
    /\ r.journal = j
    /\ r.err = err

\* A read fails.
Fails(s, r) == Fields(r, s.objs, s.destruct, s.journal, TRUE)

\* SetStorage marks the account as destructed.
Marks(s, r, a) ==
    /\ "setStorage" \in Env
    /\ Fields(r, s.objs, s.destruct \cup {a}, s.journal, s.err)

\* The account is loaded from the trie.
Loads(s, r, a) ==
    /\ s.objs[a] = Nil
    /\ trie[a] # Nil
    /\ Fields(r, [s.objs EXCEPT ![a] = newObject(trie[a])], s.destruct, s.journal, s.err)

CreateEntry(a) == [kind |-> "createObject", account |-> a]

\* The account is created where the lookup found none.
Creates(s, r, a) ==
    /\ s.objs[a] = Nil
    /\ trie[a] = Nil \/ s.err
    /\ Fields(r, [s.objs EXCEPT ![a] = newObject(NewAccount)], s.destruct,
              append(s.journal, CreateEntry(a)), s.err)

\* A new object, with the balance that the one it replaces hands on.
Fresh(balance) == [newObject(NewAccount) EXCEPT !.balance = balance]

ResetEntry(s, a) ==
    [kind |-> "resetObject", account |-> a, prev |-> s.objs[a],
     prevdestruct |-> a \in s.destruct]

\* The account is created over the object that is there.
Resets(s, r, a) ==
    /\ s.objs[a] # Nil
    /\ \E b \in Int :
          /\ s.err \/ b = IF s.objs[a].deleted THEN 0 ELSE s.objs[a].balance
          /\ Fields(r, [s.objs EXCEPT ![a] = Fresh(b)], s.destruct \cup {a},
                    append(s.journal, ResetEntry(s, a)), s.err)

\* A slot of a live object is read.
Caches(s, r, a) ==
    /\ Live(s.objs, a)
    /\ \E k \in Key :
          Fields(r, [s.objs EXCEPT ![a] = Cached(s.objs[a], a \in s.destruct, k)],
                 s.destruct, s.journal, s.err)

TouchJournal(j, a) ==
    LET t == append(j, [kind |-> "touch", account |-> a])
    IN IF a = Ripemd THEN dirty(t, a) ELSE t

\* A live, empty object is touched.
Touches(s, r, a) ==
    /\ Live(s.objs, a)
    /\ Fields(r, s.objs, s.destruct, TouchJournal(s.journal, a), s.err)

\* e records how the object p of account a becomes the object o.
Records(s, a, e, o) ==
    LET p == s.objs[a]
        d == a \in s.destruct
    IN /\ e.account = a
       /\ \/ e.kind = "balance" /\ e.prev = p.balance /\ o = [p EXCEPT !.balance = o.balance]
          \/ e.kind = "nonce" /\ e.prev = p.nonce /\ o = [p EXCEPT !.nonce = o.nonce]
          \/ e.kind = "code" /\ e.prev = p.code /\ o = [p EXCEPT !.code = o.code]
          \/ /\ e.kind = "storage"
             /\ o = [p EXCEPT !.dirtyStorage[e.key] = o.dirtyStorage[e.key]]
             /\ o.dirtyStorage[e.key] # Nil
             /\ \/ s.err
                \/ /\ e.prevalue = StateValue(p, d, e.key)
                   /\ p.dirtyStorage[e.key] # Nil \/ ~NeedsTrie(p, d, e.key)
          \/ /\ e.kind = "suicide"
             /\ e.prev = p.suicided
             /\ e.prevbalance = p.balance
             /\ o = [p EXCEPT !.suicided = TRUE, !.balance = 0]

\* A field of a live object is changed.
Changes(s, r, a) ==
    /\ Live(s.objs, a)
    /\ \E e \in Entry, o \in Object :
          /\ Records(s, a, e, o)
          /\ Fields(r, [s.objs EXCEPT ![a] = o], s.destruct, append(s.journal, e), s.err)

Primitive(s, r, a) ==
    \/ r = s
    \/ Fails(s, r)
    \/ Marks(s, r, a)
    \/ Loads(s, r, a)
    \/ Creates(s, r, a)
    \/ Resets(s, r, a)
    \/ Caches(s, r, a)
    \/ Touches(s, r, a)
    \/ Changes(s, r, a)

\* A method first finds or creates the object, then reads and changes it.
Finds(s, r, a) ==
    \E u, v, w : /\ Primitive(s, u, a) /\ Primitive(u, v, a)
                 /\ Primitive(v, w, a) /\ Primitive(w, r, a)

Works(s, r, a) == \E u : Primitive(s, u, a) /\ Primitive(u, r, a)

Runs(r, a) == \E s : Finds(State, s, a) /\ Works(s, r, a)

\* Primitive steps keep the record's type.
LEMMA PrimitiveType ==
    ASSUME NEW s \in Threaded, NEW a, NEW r, Primitive(s, r, a)
    PROVE  r \in Threaded
BY DEF Primitive, Fails, Marks, Loads, Creates, Resets, Caches, Touches, Changes, Fields

\* The lookup is one primitive step.  It finds no object only if the trie has
\* none or an error is on record.
LEMMA LookupPrimitive ==
    ASSUME NEW s \in Threaded, NEW a \in Addr, NEW ok \in BOOLEAN, trie \in AccountTrie
    PROVE  LET r == getDeletedStateObject(s, a, ok)
           IN /\ Primitive(s, r, a)
              /\ r \in Threaded
              /\ r.objs[a] = Nil => trie[a] = Nil \/ r.err
<1> DEFINE r == getDeletedStateObject(s, a, ok)
<1>1. r \in Threaded
  BY LookupType
<1>2. CASE s.objs[a] # Nil
  BY <1>1, <1>2 DEF getDeletedStateObject, Primitive
<1>3. CASE s.objs[a] = Nil /\ ~ok
  <2>1. r = [s EXCEPT !.err = TRUE]
    BY <1>3 DEF getDeletedStateObject
  <2>2. Fails(s, r) /\ r.err = TRUE
    BY <1>1, <2>1 DEF Fails, Fields, Threaded
  <2> QED BY <1>1, <2>2 DEF Primitive
<1>4. CASE s.objs[a] = Nil /\ ok /\ trie[a] = Nil
  BY <1>1, <1>4 DEF getDeletedStateObject, Primitive
<1>5. CASE s.objs[a] = Nil /\ ok /\ trie[a] # Nil
  <2>1. r = [s EXCEPT !.objs = [s.objs EXCEPT ![a] = newObject(trie[a])]]
    BY <1>5 DEF getDeletedStateObject
  <2>2. Loads(s, r, a)
    BY <1>1, <1>5, <2>1 DEF Loads, Fields, Threaded
  <2>3. r.objs[a] # Nil
    <3>1. newObject(trie[a]) # Nil /\ newObject(trie[a]) \in Object
      BY <1>5, NewObjectType DEF AccountTrie
    <3>2. s.objs \in ObjectMap
      BY DEF Threaded
    <3> HIDE DEF r
    <3> QED BY <2>2, <3>1, <3>2, UpdatedMap DEF Loads, Fields
  <2> QED BY <1>1, <2>2, <2>3 DEF Primitive
<1> QED BY <1>2, <1>3, <1>4, <1>5

\* A new object is one, live and with the balance asked for.
LEMMA FreshType ==
    ASSUME NEW b \in Int
    PROVE  /\ Fresh(b) \in Object /\ Fresh(b) # Nil
           /\ Fresh(b).balance = b /\ ~Fresh(b).deleted /\ ~Fresh(b).suicided
           /\ Fresh(0) = newObject(NewAccount)
<1>1. newObject(NewAccount) \in Object
  BY NewAccountType, NewObjectType
<1>2. Fresh(b) \in Object /\ Fresh(b).balance = b
  BY <1>1 DEF Fresh, Object
<1>3. Fresh(b).deleted = FALSE /\ Fresh(b).suicided = FALSE
  BY DEF Fresh, newObject
<1>4. newObject(NewAccount).balance = 0
  BY DEF newObject, NewAccount
<1>5. Fresh(0) = newObject(NewAccount)
  BY <1>1, <1>4 DEF Fresh, Object
<1> QED BY <1>2, <1>3, <1>5, ConstantsAssumption

\* createObject looks the account up and then creates or resets it.
LEMMA CreateObjectFields ==
    ASSUME NEW s \in Threaded, NEW a \in Addr, NEW ok \in BOOLEAN, trie \in AccountTrie
    PROVE  LET l == getDeletedStateObject(s, a, ok)
               r == createObject(s, a, ok)
           IN /\ l.objs[a] = Nil =>
                    /\ Creates(l, r, a)
                    /\ r.objs[a] = newObject(NewAccount)
              /\ l.objs[a] # Nil =>
                    /\ Fields(r, [l.objs EXCEPT ![a] = newObject(NewAccount)],
                              l.destruct \cup {a}, append(l.journal, ResetEntry(l, a)), l.err)
                    /\ r.objs[a] = newObject(NewAccount)
<1> DEFINE l == getDeletedStateObject(s, a, ok)
           r == createObject(s, a, ok)
           n == newObject(NewAccount)
<1>1. l \in Threaded /\ (l.objs[a] = Nil => trie[a] = Nil \/ l.err)
  BY LookupPrimitive
<1>2. n \in Object
  BY NewAccountType, NewObjectType
<1>3. /\ l.objs \in ObjectMap /\ l.journal \in JournalType /\ l.destruct \in SUBSET Addr
  BY <1>1 DEF Threaded
<1>4. [l.objs EXCEPT ![a] = n] \in ObjectMap /\ [l.objs EXCEPT ![a] = n][a] = n
  BY <1>2, <1>3, UpdatedMap
<1>5. CASE l.objs[a] = Nil
  <2>1. r = [l EXCEPT !.objs = [l.objs EXCEPT ![a] = n],
                      !.journal = append(l.journal, CreateEntry(a))]
    BY <1>1, <1>5 DEF createObject, CreateEntry, Threaded
  <2>2. append(l.journal, CreateEntry(a)) \in JournalType
    BY <1>3, AppendType, EntryTypes DEF CreateEntry
  <2> HIDE DEF l, n, r
  <2>3. Fields(r, [l.objs EXCEPT ![a] = n], l.destruct, append(l.journal, CreateEntry(a)), l.err)
    BY <1>1, <1>4, <2>1, <2>2 DEF Fields, Threaded
  <2> QED BY <1>1, <1>4, <1>5, <2>3 DEF Creates, Fields, n, r, l
<1>6. CASE l.objs[a] # Nil
  <2>1. r = [l EXCEPT !.objs = [l.objs EXCEPT ![a] = n],
                      !.destruct = l.destruct \cup {a},
                      !.journal = append(l.journal, ResetEntry(l, a))]
    BY <1>1, <1>6 DEF createObject, ResetEntry, Threaded
  <2>2. append(l.journal, ResetEntry(l, a)) \in JournalType
    <3>1. l.objs[a] \in Object /\ (a \in l.destruct) \in BOOLEAN
      BY <1>3, <1>6 DEF ObjectMap
    <3>2. ResetEntry(l, a) \in Entry
      BY <3>1, EntryTypes DEF ResetEntry
    <3> QED BY <1>3, <3>2, AppendType
  <2> HIDE DEF l, n, r
  <2>3. Fields(r, [l.objs EXCEPT ![a] = n], l.destruct \cup {a},
               append(l.journal, ResetEntry(l, a)), l.err)
    BY <1>1, <1>3, <1>4, <2>1, <2>2 DEF Fields, Threaded
  <2> QED BY <1>4, <1>6, <2>3 DEF Fields, n, r, l
<1> QED BY <1>5, <1>6

\* GetOrNewStateObject finds the object or creates it, and leaves it live.
LEMMA GetOrNewFinds ==
    ASSUME NEW t \in Threaded, NEW s \in Threaded, NEW a \in Addr, NEW io \in Reads,
           trie \in AccountTrie, Primitive(t, s, a)
    PROVE  LET r == GetOrNewStateObject(s, a, io)
           IN /\ Finds(t, r, a)
              /\ r \in Threaded
              /\ Live(r.objs, a)
              /\ r.objs[a] \in Object
<1> DEFINE l == getDeletedStateObject(s, a, io[1])
           m == getDeletedStateObject(l, a, io[2])
           c == createObject(l, a, io[2])
           r == GetOrNewStateObject(s, a, io)
<1>0. io[1] \in BOOLEAN /\ io[2] \in BOOLEAN
  BY ReadsType
<1>1. Primitive(s, l, a) /\ l \in Threaded /\ (l.objs[a] = Nil => trie[a] = Nil \/ l.err)
  BY <1>0, LookupPrimitive
<1>2. Primitive(l, m, a) /\ m \in Threaded
  BY <1>0, <1>1, LookupPrimitive
<1>3. CASE Live(l.objs, a)
  <2>1. r = l
    BY <1>3 DEF GetOrNewStateObject
  <2>2. Primitive(l, l, a)
    BY DEF Primitive
  <2>3. Finds(t, l, a)
    BY <1>1, <2>2 DEF Finds
  <2>4. l.objs[a] \in Object
    BY <1>1, <1>3, LiveObject DEF Threaded
  <2> QED BY <1>1, <1>3, <2>1, <2>3, <2>4
<1>4. CASE ~Live(l.objs, a)
  <2>1. r = c
    BY <1>4 DEF GetOrNewStateObject
  <2>2. newObject(NewAccount) \in Object /\ newObject(NewAccount) # Nil
        /\ newObject(NewAccount) = Fresh(0) /\ ~newObject(NewAccount).deleted
    BY NewAccountType, NewObjectType, FreshType
  <2>3. Primitive(m, c, a) /\ c \in Threaded /\ c.objs[a] = newObject(NewAccount)
    <3>1. CASE m.objs[a] = Nil
      <4>1. Creates(m, c, a) /\ c.objs[a] = newObject(NewAccount)
        BY <1>0, <1>1, <3>1, CreateObjectFields
      <4> QED BY <4>1 DEF Primitive, Creates, Fields
    <3>2. CASE m.objs[a] # Nil
      <4>1. /\ Fields(c, [m.objs EXCEPT ![a] = newObject(NewAccount)],
                      m.destruct \cup {a}, append(m.journal, ResetEntry(m, a)), m.err)
            /\ c.objs[a] = newObject(NewAccount)
        BY <1>0, <1>1, <3>2, CreateObjectFields
      <4>2. m.err \/ m.objs[a].deleted
        <5>1. CASE l.objs[a] # Nil
          BY <1>4, <5>1 DEF getDeletedStateObject, Live
        <5>2. CASE l.objs[a] = Nil
          <6>1. trie[a] = Nil \/ l.err
            BY <1>1, <5>2
          <6>2. trie[a] = Nil => m = l \/ m = [l EXCEPT !.err = TRUE]
            BY <5>2 DEF getDeletedStateObject
          <6>3. trie[a] # Nil
            BY <1>1, <3>2, <5>2, <6>2 DEF Threaded
          <6>4. l.err = TRUE
            BY <1>1, <6>1, <6>3 DEF Threaded
          <6>5. m.err = TRUE
            BY <1>1, <6>4 DEF getDeletedStateObject, Threaded
          <6> QED BY <6>5
        <5> QED BY <5>1, <5>2
      <4> HIDE DEF c, m
      <4>3. Resets(m, c, a)
        BY <2>2, <3>2, <4>1, <4>2 DEF Resets
      <4> QED BY <4>1, <4>3 DEF Primitive, Fields
    <3> QED BY <3>1, <3>2
  <2>4. Finds(t, c, a)
    BY <1>1, <1>2, <2>3 DEF Finds
  <2> HIDE DEF c
  <2> QED BY <2>1, <2>2, <2>3, <2>4 DEF Live
<1> QED BY <1>3, <1>4

\* A setter of a live object is one primitive step.
LEMMA SetterPrimitive ==
    ASSUME NEW s \in Threaded, NEW a \in Addr, NEW e \in Entry, NEW o \in Object,
           Live(s.objs, a), Records(s, a, e, o)
    PROVE  Primitive(s, Journal1(s, a, e, o), a) /\ Journal1(s, a, e, o) \in Threaded
<1> DEFINE r == Journal1(s, a, e, o)
<1>1. Fields(r, [s.objs EXCEPT ![a] = o], s.destruct, append(s.journal, e), s.err)
  BY Journal1Type DEF Fields
<1> HIDE DEF r
<1>2. Changes(s, r, a)
  BY <1>1 DEF Changes
<1> QED BY <1>1, <1>2 DEF Primitive, Fields, r

\* Setting a balance or a nonce is such a step.
LEMMA BalanceNoncePrimitive ==
    ASSUME NEW s \in Threaded, NEW a \in Addr, Live(s.objs, a)
    PROVE  /\ \A v \in Int : /\ Primitive(s, SetObjectBalance(s, a, v), a)
                            /\ SetObjectBalance(s, a, v) \in Threaded
           /\ \A v \in Nat : /\ Primitive(s, SetObjectNonce(s, a, v), a)
                            /\ SetObjectNonce(s, a, v) \in Threaded
<1> DEFINE p == s.objs[a]
<1>1. p \in Object
  BY LiveObject DEF Threaded
<1>2. p.balance \in Int /\ p.nonce \in Nat
  BY <1>1 DEF Object
<1>3. ASSUME NEW v \in Int
      PROVE  Primitive(s, SetObjectBalance(s, a, v), a) /\ SetObjectBalance(s, a, v) \in Threaded
  <2> DEFINE e == [kind |-> "balance", account |-> a, prev |-> p.balance]
             o == [p EXCEPT !.balance = v]
  <2>1. e \in Entry /\ o \in Object /\ o.balance = v
    BY <1>1, <1>2, EntryTypes DEF Object
  <2>2. Records(s, a, e, o)
    BY <2>1 DEF Records
  <2> HIDE DEF e, o
  <2>3. Primitive(s, Journal1(s, a, e, o), a) /\ Journal1(s, a, e, o) \in Threaded
    BY <2>1, <2>2, SetterPrimitive
  <2> QED BY <2>3 DEF SetObjectBalance, e, o
<1>4. ASSUME NEW v \in Nat
      PROVE  Primitive(s, SetObjectNonce(s, a, v), a) /\ SetObjectNonce(s, a, v) \in Threaded
  <2> DEFINE e == [kind |-> "nonce", account |-> a, prev |-> p.nonce]
             o == [p EXCEPT !.nonce = v]
  <2>1. e \in Entry /\ o \in Object /\ o.nonce = v
    BY <1>1, <1>2, EntryTypes DEF Object
  <2>2. Records(s, a, e, o)
    BY <2>1 DEF Records
  <2> HIDE DEF e, o
  <2>3. Primitive(s, Journal1(s, a, e, o), a) /\ Journal1(s, a, e, o) \in Threaded
    BY <2>1, <2>2, SetterPrimitive
  <2> QED BY <2>3 DEF SetObjectNonce, e, o
<1> QED BY <1>3, <1>4

\* So is touching the object.
LEMMA TouchPrimitive ==
    ASSUME NEW s \in Threaded, NEW a \in Addr, Live(s.objs, a)
    PROVE  Primitive(s, touch(s, a), a)
<1> DEFINE e == [kind |-> "touch", account |-> a]
           j == TouchJournal(s.journal, a)
<1>1. s.journal \in JournalType /\ e \in Entry
  BY EntryTypes DEF Threaded
<1>2. append(s.journal, e) \in JournalType
  BY <1>1, AppendType
<1>3. j \in JournalType
  BY <1>2, DirtyType DEF TouchJournal
<1>4. touch(s, a) = [s EXCEPT !.journal = j]
  BY DEF touch, TouchJournal
<1> HIDE DEF j
<1>5. Fields(touch(s, a), s.objs, s.destruct, j, s.err)
  BY <1>3, <1>4 DEF Fields, Threaded
<1> QED BY <1>5 DEF Primitive, Touches, j

\* Remembering an error, or none.
LEMMA ErrPrimitive ==
    ASSUME NEW s \in Threaded, NEW a, NEW b \in BOOLEAN
    PROVE  LET r == [s EXCEPT !.err = s.err \/ b]
           IN Primitive(s, r, a) /\ r \in Threaded /\ r.objs = s.objs /\ r.destruct = s.destruct
<1> DEFINE r == [s EXCEPT !.err = s.err \/ b]
<1>1. s.err \in BOOLEAN
  BY DEF Threaded
<1>2. CASE s.err \/ b
  <2>1. r = [s EXCEPT !.err = TRUE]
    BY <1>1, <1>2
  <2>2. Fields(r, s.objs, s.destruct, s.journal, TRUE)
    BY <2>1 DEF Fields, Threaded
  <2> QED BY <2>2 DEF Primitive, Fails, Fields
<1>3. CASE ~(s.err \/ b)
  <2>1. r = s
    BY <1>1, <1>3 DEF Threaded
  <2> QED BY <2>1 DEF Primitive
<1> QED BY <1>2, <1>3

\* Caching a slot leaves what the object says about it.
LEMMA CachedValues ==
    ASSUME NEW o \in Object, NEW d \in BOOLEAN, NEW k \in Key
    PROVE  LET c == Cached(o, d, k)
           IN /\ c.pendingStorage = o.pendingStorage
              /\ c.dirtyStorage = o.dirtyStorage
              /\ ~NeedsTrie(c, d, k)
              /\ StateValue(c, d, k) = StateValue(o, d, k)
              /\ getTrie(c) = getTrie(o)
<1> DEFINE c == Cached(o, d, k)
           g == getTrie(o)
<1>1. g \in Slots /\ g[k] \in Word /\ g # Nil /\ g[k] # Nil
  BY GetTrieType, ConstantsAssumption DEF Slots
<1>2. CASE ~NeedsTrie(o, d, k)
  BY <1>2 DEF Cached
<1>3. CASE NeedsTrie(o, d, k)
  <2> DEFINE m == [o.originStorage EXCEPT ![k] = g[k]]
  <2>1. c = [o EXCEPT !.trie = g, !.originStorage = m]
    BY <1>3 DEF Cached
  <2>2. m[k] = g[k]
    BY DEF Object, Cache
  <2> HIDE DEF m, g
  <2>3. /\ c.pendingStorage = o.pendingStorage /\ c.dirtyStorage = o.dirtyStorage
        /\ c.trie = g /\ c.originStorage = m
    BY <2>1 DEF Object
  <2> HIDE DEF c
  <2>4. ~NeedsTrie(c, d, k)
    BY <1>1, <2>2, <2>3 DEF NeedsTrie
  <2>5. getTrie(c) = g
    BY <1>1, <2>3 DEF getTrie
  <2>6. StateValue(c, d, k) = StateValue(o, d, k)
    BY <1>1, <1>3, <2>2, <2>3 DEF StateValue, CommittedValue, NeedsTrie, g
  <2> QED BY <2>3, <2>4, <2>5, <2>6 DEF g, c
<1> QED BY <1>2, <1>3

\* Reading a slot of a live object is one primitive step; afterwards the value
\* read is the object's, or an error is on record.
LEMMA ReadPrimitive ==
    ASSUME NEW s \in Threaded, NEW a \in Addr, NEW k \in Key, NEW ok \in BOOLEAN,
           Live(s.objs, a)
    PROVE  /\ Primitive(s, ReadCommitted(s, a, k, ok), a)
           /\ LET r == ReadState(s, a, k, ok)
                  d == a \in r.destruct
              IN /\ Primitive(s, r, a)
                 /\ r \in Threaded
                 /\ Live(r.objs, a)
                 /\ \/ r.err
                    \/ /\ StateRead(s, a, k, ok) = StateValue(r.objs[a], d, k)
                       /\ r.objs[a].dirtyStorage[k] # Nil \/ ~NeedsTrie(r.objs[a], d, k)
           /\ StateRead(s, a, k, ok) \in Word
<1> DEFINE o == s.objs[a]
           d == a \in s.destruct
           c == Cached(o, d, k)
           r == ReadCommitted(s, a, k, ok)
           q == [s EXCEPT !.objs = [s.objs EXCEPT ![a] = c]]
<1>1. o \in Object /\ o # Nil /\ ~o.deleted /\ s.objs \in ObjectMap
  BY LiveObject, ConstantsAssumption DEF Live, Threaded
<1>2. d \in BOOLEAN
  OBVIOUS
<1>3. /\ c \in Object /\ c.deleted = o.deleted /\ c.dirtyStorage = o.dirtyStorage
      /\ StateValue(c, d, k) = StateValue(o, d, k) /\ ~NeedsTrie(c, d, k)
      /\ StateValue(o, d, k) \in Word /\ c # Nil
  <2> HIDE DEF d, o
  <2> QED BY <1>1, <1>2, CachedType, CachedValues, StateValueType, ConstantsAssumption
<1>4. StateRead(s, a, k, ok) \in Word
  BY <1>3, ConstantsAssumption DEF StateRead
<1>5. /\ [s.objs EXCEPT ![a] = c] \in ObjectMap
      /\ [s.objs EXCEPT ![a] = c][a] = c
  <2> HIDE DEF c
  <2> QED BY <1>1, <1>3, UpdatedMap
<1>6. Caches(s, q, a) /\ q \in Threaded /\ q.objs[a] = c /\ q.destruct = s.destruct
  <2>1. Fields(q, [s.objs EXCEPT ![a] = c], s.destruct, s.journal, s.err)
    <3> HIDE DEF c
    <3> QED BY <1>5 DEF Fields, Threaded
  <2> HIDE DEF q
  <2> QED BY <1>5, <2>1 DEF Caches, Fields
<1>7. CASE NeedsTrie(o, d, k) /\ ~ok
  <2>1. r = [s EXCEPT !.err = TRUE]
    BY <1>7 DEF ReadCommitted
  <2>2. Fields(r, s.objs, s.destruct, s.journal, TRUE)
    BY <2>1 DEF Fields, Threaded
  <2>3. Primitive(s, r, a) /\ r \in Threaded /\ Live(r.objs, a) /\ r.err = TRUE
    BY <2>2 DEF Primitive, Fails, Fields
  <2>4. CASE o.dirtyStorage[k] # Nil
    <3>1. ReadState(s, a, k, ok) = s /\ StateRead(s, a, k, ok) = StateValue(o, d, k)
      BY <2>4 DEF ReadState, StateRead
    <3> QED BY <1>4, <2>3, <2>4, <3>1 DEF Primitive
  <2>5. CASE o.dirtyStorage[k] = Nil
    <3>1. ReadState(s, a, k, ok) = r
      BY <2>5 DEF ReadState
    <3> QED BY <1>4, <2>3, <3>1
  <2> QED BY <2>4, <2>5
<1>8. CASE ~(NeedsTrie(o, d, k) /\ ~ok)
  <2>1. r = q
    BY <1>8 DEF ReadCommitted
  <2>2. StateRead(s, a, k, ok) = StateValue(o, d, k)
    BY <1>8 DEF StateRead
  <2>3. Primitive(s, r, a) /\ r \in Threaded /\ Live(r.objs, a) /\ r.objs[a] = c
    BY <1>1, <1>3, <1>6, <2>1 DEF Primitive, Live
  <2>4. CASE o.dirtyStorage[k] # Nil
    <3>1. ReadState(s, a, k, ok) = s
      BY <2>4 DEF ReadState
    <3> QED BY <1>4, <2>2, <2>3, <2>4, <3>1 DEF Primitive
  <2>5. CASE o.dirtyStorage[k] = Nil
    <3>1. ReadState(s, a, k, ok) = r
      BY <2>5 DEF ReadState
    <3> HIDE DEF c, q
    <3>2. r.destruct = s.destruct
      BY <1>6, <2>1
    <3> QED BY <1>3, <1>4, <2>2, <2>3, <3>1, <3>2
  <2> QED BY <2>4, <2>5
<1> QED BY <1>7, <1>8

\* Writing a slot reads it and then sets it.
LEMMA SetStateWorks ==
    ASSUME NEW s \in Threaded, NEW a \in Addr, NEW k \in Key, NEW v \in Word,
           NEW ok \in BOOLEAN, Live(s.objs, a)
    PROVE  Works(s, SetObjectState(s, a, k, v, ok), a)
<1> DEFINE p == StateRead(s, a, k, ok)
           r == ReadState(s, a, k, ok)
           d == a \in r.destruct
           o == r.objs[a]
           n == [o EXCEPT !.dirtyStorage[k] = v]
           e == [kind |-> "storage", account |-> a, key |-> k, prevalue |-> p]
<1>1. /\ Primitive(s, r, a) /\ r \in Threaded /\ Live(r.objs, a) /\ p \in Word
      /\ \/ r.err
         \/ p = StateValue(o, d, k) /\ (o.dirtyStorage[k] # Nil \/ ~NeedsTrie(o, d, k))
  BY ReadPrimitive
<1>2. CASE p = v
  <2>1. SetObjectState(s, a, k, v, ok) = r
    BY <1>2 DEF SetObjectState
  <2>2. Primitive(r, r, a)
    BY DEF Primitive
  <2> QED BY <1>1, <2>1, <2>2 DEF Works
<1>3. CASE p # v
  <2> HIDE DEF r, p
  <2>1. o \in Object
    BY <1>1, LiveObject DEF Threaded
  <2>2. n \in Object /\ n.dirtyStorage[k] = v
    <3>1. /\ [o.dirtyStorage EXCEPT ![k] = v] \in Cache
          /\ [o.dirtyStorage EXCEPT ![k] = v][k] = v
      BY <2>1 DEF Object, Cache
    <3>2. n = [o EXCEPT !.dirtyStorage = [o.dirtyStorage EXCEPT ![k] = v]]
      OBVIOUS
    <3> QED BY <2>1, <3>1, <3>2 DEF Object
  <2>3. e \in Entry
    BY <1>1, EntryTypes
  <2>4. v # Nil
    BY ConstantsAssumption
  <2>5. Records(r, a, e, n)
    BY <1>1, <2>2, <2>4 DEF Records
  <2> HIDE DEF n, e
  <2>6. Primitive(r, Journal1(r, a, e, n), a)
    BY <1>1, <2>2, <2>3, <2>5, SetterPrimitive
  <2>7. SetObjectState(s, a, k, v, ok) = Journal1(r, a, e, n)
    BY <1>3 DEF SetObjectState, r, p, e, n
  <2> QED BY <1>1, <2>6, <2>7 DEF Works
<1> QED BY <1>2, <1>3

-----------------------------------------------------------------------------
(* Every method is a short run of primitive steps.                         *)

CallRuns(a) == \E r : Runs(r, a) /\ Put(r)

\* The getters and Suicide look the object up and then read or mark it.
LEMMA GettersRun ==
    ASSUME TypeOK, NEW a \in Addr, NEW io \in Reads
    PROVE  /\ GetAccount(a, io) => CallRuns(a)
           /\ GetCode(a, io) => CallRuns(a)
           /\ \A k \in Key : GetState(a, k, io) => CallRuns(a)
           /\ \A k \in Key : GetCommittedState(a, k, io) => CallRuns(a)
           /\ Suicide(a, io) => CallRuns(a)
<1> DEFINE s == getDeletedStateObject(State, a, io[1])
           o == s.objs[a]
<1>0. io[1] \in BOOLEAN /\ io[3] \in BOOLEAN
  BY ReadsType
<1>1. State \in Threaded /\ trie \in AccountTrie
  BY StateType DEF TypeOK, AccountsTypeOK
<1>2. Primitive(State, s, a) /\ s \in Threaded
  BY <1>0, <1>1, LookupPrimitive
<1>3. \A r : Primitive(r, r, a)
  BY DEF Primitive
<1>4. Finds(State, s, a)
  BY <1>2, <1>3 DEF Finds
<1>5. ASSUME NEW r, Primitive(s, r, a), Put(r) PROVE CallRuns(a)
  <2>1. Works(s, r, a)
    BY <1>3, <1>5 DEF Works
  <2> QED BY <1>4, <1>5, <2>1 DEF CallRuns, Runs
<1>6. GetAccount(a, io) => CallRuns(a)
  BY <1>3, <1>5 DEF GetAccount
<1>7. GetCode(a, io) => CallRuns(a)
  <2> DEFINE b == Live(s.objs, a) /\ o.code # NoCode /\ ~io[3]
  <2>1. b \in BOOLEAN
    OBVIOUS
  <2> HIDE DEF b, s
  <2>2. Primitive(s, [s EXCEPT !.err = s.err \/ b], a)
    BY <1>2, <2>1, ErrPrimitive
  <2> QED BY <1>5, <2>2 DEF GetCode, b, s
<1>8. ASSUME NEW k \in Key
      PROVE  (GetState(a, k, io) => CallRuns(a)) /\ (GetCommittedState(a, k, io) => CallRuns(a))
  <2>1. Live(s.objs, a) => /\ Primitive(s, ReadCommitted(s, a, k, io[3]), a)
                           /\ Primitive(s, ReadState(s, a, k, io[3]), a)
    BY <1>0, <1>2, ReadPrimitive
  <2> HIDE DEF s
  <2>2. GetState(a, k, io) => CallRuns(a)
    BY <1>3, <1>5, <2>1 DEF GetState, s
  <2>3. GetCommittedState(a, k, io) => CallRuns(a)
    BY <1>3, <1>5, <2>1 DEF GetCommittedState, s
  <2> QED BY <2>2, <2>3
<1>9. Suicide(a, io) => CallRuns(a)
  <2> DEFINE n == [o EXCEPT !.suicided = TRUE, !.balance = 0]
             e == [kind |-> "suicide", account |-> a, prev |-> o.suicided,
                   prevbalance |-> o.balance]
  <2>1. ASSUME Live(s.objs, a) PROVE Primitive(s, Journal1(s, a, e, n), a)
    <3> HIDE DEF s
    <3>1. o \in Object
      BY <1>2, <2>1, LiveObject DEF Threaded
    <3>2. n \in Object
      <4> DEFINE p == [o EXCEPT !.suicided = TRUE]
      <4> HIDE DEF o
      <4>1. p \in Object
        BY <3>1 DEF Object
      <4>2. n = [p EXCEPT !.balance = 0]
        OBVIOUS
      <4> HIDE DEF p, n
      <4> QED BY <4>1, <4>2 DEF Object
    <3>3. o.suicided \in BOOLEAN /\ o.balance \in Int
      BY <3>1 DEF Object
    <3>4. e \in Entry
      BY <3>3, EntryTypes
    <3>5. Records(s, a, e, n)
      BY DEF Records
    <3> HIDE DEF e, n
    <3> QED BY <1>2, <2>1, <3>2, <3>4, <3>5, SetterPrimitive
  <2> QED BY <1>3, <1>5, <2>1 DEF Suicide
<1> QED BY <1>6, <1>7, <1>8, <1>9

\* The setters find or create the object and then change it.
LEMMA SettersRun ==
    ASSUME TypeOK, NEW a \in Addr, NEW io \in Reads
    PROVE  /\ \A v \in Amount : AddBalance(a, v, io) => CallRuns(a)
           /\ \A v \in Amount : SubBalance(a, v, io) => CallRuns(a)
           /\ \A v \in Amount : SetBalance(a, v, io) => CallRuns(a)
           /\ \A v \in Nonce : SetNonce(a, v, io) => CallRuns(a)
           /\ \A c \in Code : SetCode(a, c, io) => CallRuns(a)
           /\ \A k \in Key, v \in Word : SetState(a, k, v, io) => CallRuns(a)
<1> DEFINE s == GetOrNewStateObject(State, a, io)
           o == s.objs[a]
<1>0. io[3] \in BOOLEAN
  BY ReadsType
<1>1. State \in Threaded /\ trie \in AccountTrie
  BY StateType DEF TypeOK, AccountsTypeOK
<1>2. \A r : Primitive(r, r, a)
  BY DEF Primitive
<1>3. Finds(State, s, a) /\ s \in Threaded /\ Live(s.objs, a) /\ o \in Object
  BY <1>1, <1>2, GetOrNewFinds
<1>4. o.balance \in Int /\ o.nonce \in Nat /\ o.code \in Code
  BY <1>3 DEF Object
<1>5. ASSUME NEW r, Primitive(s, r, a), Put(r) PROVE CallRuns(a)
  <2>1. Works(s, r, a)
    BY <1>2, <1>5 DEF Works
  <2> QED BY <1>3, <1>5, <2>1 DEF CallRuns, Runs
<1>6. ASSUME NEW v \in Amount
      PROVE  /\ AddBalance(a, v, io) => CallRuns(a)
             /\ SubBalance(a, v, io) => CallRuns(a)
             /\ SetBalance(a, v, io) => CallRuns(a)
  <2> HIDE DEF s
  <2>1. v \in Int /\ o.balance + v \in Int /\ o.balance - v \in Int
    BY <1>4, AccountsAssumption
  <2>2. /\ Primitive(s, SetObjectBalance(s, a, o.balance + v), a)
        /\ Primitive(s, SetObjectBalance(s, a, o.balance - v), a)
        /\ Primitive(s, SetObjectBalance(s, a, v), a)
    BY <1>3, <2>1, BalanceNoncePrimitive
  <2>3. Primitive(s, touch(s, a), a)
    BY <1>3, TouchPrimitive
  <2>4. AddBalance(a, v, io) => CallRuns(a)
    BY <1>2, <1>5, <2>2, <2>3 DEF AddBalance, s
  <2>5. SubBalance(a, v, io) => CallRuns(a)
    BY <1>2, <1>5, <2>2 DEF SubBalance, s
  <2>6. SetBalance(a, v, io) => CallRuns(a)
    BY <1>5, <2>2 DEF SetBalance, s
  <2> QED BY <2>4, <2>5, <2>6
<1>7. ASSUME NEW v \in Nonce PROVE SetNonce(a, v, io) => CallRuns(a)
  <2> HIDE DEF s
  <2>1. Primitive(s, SetObjectNonce(s, a, v), a)
    BY <1>3, BalanceNoncePrimitive, AccountsAssumption
  <2> QED BY <1>5, <2>1 DEF SetNonce, s
<1>8. ASSUME NEW c \in Code PROVE SetCode(a, c, io) => CallRuns(a)
  <2> HIDE DEF s
  <2> DEFINE b == o.code # NoCode /\ ~io[3]
             r == [s EXCEPT !.err = s.err \/ b]
             n == [o EXCEPT !.code = c]
             e == [kind |-> "code", account |-> a, prev |-> o.code]
  <2>1. b \in BOOLEAN
    OBVIOUS
  <2> HIDE DEF b
  <2>2. Primitive(s, r, a) /\ r \in Threaded /\ r.objs = s.objs
    BY <1>3, <2>1, ErrPrimitive
  <2>3. n \in Object /\ n.code = c
    BY <1>3, <1>4 DEF Object
  <2>4. e \in Entry
    BY <1>4, EntryTypes
  <2> HIDE DEF r
  <2>5. Records(r, a, e, n)
    BY <2>2, <2>3 DEF Records
  <2> HIDE DEF n, e
  <2>6. Primitive(r, Journal1(r, a, e, n), a)
    BY <1>3, <2>2, <2>3, <2>4, <2>5, SetterPrimitive
  <2>7. Works(s, Journal1(r, a, e, n), a)
    BY <2>2, <2>6 DEF Works
  <2>8. SetCode(a, c, io) => Put(Journal1(r, a, e, n))
    BY DEF SetCode, r, n, e, b, s
  <2> QED BY <1>3, <2>7, <2>8 DEF CallRuns, Runs
<1>9. ASSUME NEW k \in Key, NEW v \in Word PROVE SetState(a, k, v, io) => CallRuns(a)
  <2> HIDE DEF s
  <2>1. Works(s, SetObjectState(s, a, k, v, io[3]), a)
    BY <1>0, <1>3, SetStateWorks
  <2> QED BY <1>3, <2>1 DEF SetState, CallRuns, Runs, s
<1> QED BY <1>6, <1>7, <1>8, <1>9

\* So does SetStorage, once the account is marked.
LEMMA SetStorageRuns ==
    ASSUME TypeOK, NEW a \in Addr, NEW io \in Reads, NEW k \in Key, NEW v \in Word
    PROVE  SetStorage(a, k, v, io) => CallRuns(a)
<1> DEFINE m == [State EXCEPT !.destruct = @ \cup {a}]
           s == GetOrNewStateObject(m, a, io)
<1> SUFFICES ASSUME SetStorage(a, k, v, io) PROVE CallRuns(a)
  OBVIOUS
<1>1. State \in Threaded /\ trie \in AccountTrie /\ io[3] \in BOOLEAN
  BY StateType, ReadsType DEF TypeOK, AccountsTypeOK
<1>2. Primitive(State, m, a) /\ m \in Threaded
  <2> HIDE DEF State
  <2>1. Fields(m, State.objs, State.destruct \cup {a}, State.journal, State.err)
    BY <1>1 DEF Fields, Threaded
  <2> QED BY <2>1 DEF Primitive, Marks, Fields, SetStorage
<1> HIDE DEF m
<1>3. Finds(State, s, a) /\ s \in Threaded /\ Live(s.objs, a)
  BY <1>1, <1>2, GetOrNewFinds
<1> HIDE DEF s
<1>4. Works(s, SetObjectState(s, a, k, v, io[3]), a)
  BY <1>1, <1>3, SetStateWorks
<1>5. Put(SetObjectState(s, a, k, v, io[3]))
  BY DEF SetStorage, s, m
<1> QED BY <1>3, <1>4, <1>5 DEF CallRuns, Runs

\* CreateAccount creates or resets the account and hands the balance on.
LEMMA CreatorsRun ==
    ASSUME TypeOK, NEW a \in Addr, NEW io \in Reads
    PROVE  /\ CreateAccount(a, io) => CallRuns(a)
           /\ CreateContract(a, io) => CallRuns(a)
<1> DEFINE l == getDeletedStateObject(State, a, io[1])
           prev == l.objs[a]
           s == createObject(State, a, io[1])
           c == Created(a, io)
<1>0. io[1] \in BOOLEAN
  BY ReadsType
<1>1. State \in Threaded /\ trie \in AccountTrie
  BY StateType DEF TypeOK, AccountsTypeOK
<1>2. Primitive(State, l, a) /\ l \in Threaded
  BY <1>0, <1>1, LookupPrimitive
<1>3. /\ prev = Nil => Creates(l, s, a) /\ s.objs[a] = newObject(NewAccount)
      /\ prev # Nil =>
            /\ Fields(s, [l.objs EXCEPT ![a] = newObject(NewAccount)],
                      l.destruct \cup {a}, append(l.journal, ResetEntry(l, a)), l.err)
            /\ s.objs[a] = newObject(NewAccount)
  BY <1>0, <1>1, CreateObjectFields
<1>4. c = IF prev # Nil /\ ~prev.deleted THEN [s EXCEPT !.objs[a].balance = prev.balance] ELSE s
  BY DEF Created
<1>5. newObject(NewAccount) \in Object /\ newObject(NewAccount) # Nil
      /\ newObject(NewAccount) = Fresh(0) /\ ~newObject(NewAccount).deleted
  BY NewAccountType, NewObjectType, FreshType
<1> HIDE DEF l, s, c
<1>6. Primitive(l, c, a) /\ c \in Threaded /\ Live(c.objs, a)
  <2>1. CASE prev = Nil
    <3>1. c = s
      BY <1>4, <2>1
    <3> QED BY <1>3, <1>5, <2>1, <3>1 DEF Primitive, Creates, Fields, Live
  <2>2. CASE prev # Nil /\ prev.deleted
    <3>1. c = s
      BY <1>4, <2>2
    <3>2. Resets(l, c, a)
      BY <1>3, <1>5, <2>2, <3>1 DEF Resets
    <3> QED BY <1>3, <1>5, <2>2, <3>1, <3>2 DEF Primitive, Fields, Live
  <2>3. CASE prev # Nil /\ ~prev.deleted
    <3>1. prev.balance \in Int
      <4>1. prev \in Object
        BY <1>2, <2>3 DEF Threaded, ObjectMap
      <4> QED BY <4>1 DEF Object
    <3>2. s.objs \in ObjectMap /\ s \in Threaded /\ l.objs \in ObjectMap
      BY <1>2, <1>3, <2>3 DEF Fields, Threaded
    <3> DEFINE f == Fresh(prev.balance)
    <3>3. f \in Object /\ f # Nil /\ ~f.deleted /\ f = [s.objs[a] EXCEPT !.balance = prev.balance]
      BY <1>3, <2>3, <3>1, FreshType DEF Fresh
    <3>4. c = [s EXCEPT !.objs = [s.objs EXCEPT ![a] = f]]
      BY <1>4, <2>3, <3>2, <3>3
    <3> HIDE DEF f
    <3>5. [s.objs EXCEPT ![a] = f] = [l.objs EXCEPT ![a] = f]
      BY <1>3, <2>3, <3>2 DEF Fields, ObjectMap
    <3>6. [s.objs EXCEPT ![a] = f] \in ObjectMap /\ [s.objs EXCEPT ![a] = f][a] = f
      BY <3>2, <3>3, UpdatedMap
    <3>7. Fields(c, [l.objs EXCEPT ![a] = f], l.destruct \cup {a},
                 append(l.journal, ResetEntry(l, a)), l.err)
      BY <1>3, <2>3, <3>2, <3>4, <3>5, <3>6 DEF Fields, Threaded
    <3>8. Resets(l, c, a)
      BY <2>3, <3>1, <3>7 DEF Resets, f
    <3>9. c.objs[a] = f
      BY <3>5, <3>6, <3>7 DEF Fields
    <3> QED BY <3>3, <3>7, <3>8, <3>9 DEF Primitive, Fields, Live
  <2> QED BY <2>1, <2>2, <2>3
<1>7. \A r : Primitive(r, r, a)
  BY DEF Primitive
<1>8. Finds(State, c, a)
  BY <1>2, <1>6, <1>7 DEF Finds
<1>9. Works(c, c, a)
  BY <1>7 DEF Works
<1>10. Works(c, SetObjectNonce(c, a, 1), a)
  <2>1. Primitive(c, SetObjectNonce(c, a, 1), a)
    BY <1>6, BalanceNoncePrimitive
  <2> QED BY <1>7, <2>1 DEF Works
<1>11. CreateAccount(a, io) => CallRuns(a)
  BY <1>8, <1>9 DEF CreateAccount, CallRuns, Runs, c
<1>12. CreateContract(a, io) => CallRuns(a)
  BY <1>8, <1>10 DEF CreateContract, CallRuns, Runs, c
<1> QED BY <1>11, <1>12

\* Every method call on an account is a run of primitive steps.
LEMMA AccountCallRuns ==
    ASSUME TypeOK, NEW a \in Addr, NEW io \in Reads, AccountCall(a, io)
    PROVE  CallRuns(a)
BY GettersRun, SettersRun, SetStorageRuns, CreatorsRun DEF AccountCall

\* The end of such a call.
LEMMA CallEnd ==
    ASSUME NEW r, Put(r)
    PROVE  /\ Idle
           /\ stateObjects' = r.objs /\ stateObjectsDestruct' = r.destruct
           /\ journal' = r.journal /\ dbErr' = r.err
           /\ UNCHANGED <<originalRoot, trie, stateObjectsPending, stateObjectsDirty,
                          validRevisions, nextRevisionId, reverting>>
           /\ "bareReset" \in Env \/ NoBareReset(r.journal)
BY DEF Put

-----------------------------------------------------------------------------
(* What a step does to the journal.                                        *)

\* The end of a transaction, and a copy, start a new one.
ClearsJournal ==
    \/ \E d \in BOOLEAN : Finalise(d) \/ IntermediateRoot(d)
    \/ Copy

UndoesEntry ==
    \/ TxUndo /\ UNCHANGED accountVars
    \/ AccountUndo /\ UNCHANGED txVars

KeepsJournal ==
    /\ journal' = journal
    /\ UNCHANGED <<txVars, accountVars>>

\* Every step is a call, a setter of the transaction state, one iteration of
\* revert, the end of a transaction, or leaves journal and state alone.
LEMMA StepCases ==
    ASSUME IInv, [Next]_vars
    PROVE  \/ \E a \in Addr : CallRuns(a) /\ UNCHANGED txVars
           \/ TxSetter /\ UNCHANGED accountVars
           \/ UndoesEntry
           \/ ClearsJournal
           \/ KeepsJournal
<1>0. TypeOK
  BY DEF IInv
<1>1. CASE (\E a \in Addr, io \in Reads : AccountCall(a, io)) /\ UNCHANGED txVars
  BY <1>0, <1>1, AccountCallRuns
<1>2. CASE Snapshot /\ UNCHANGED <<txVars, accountVars>>
  BY <1>2 DEF Snapshot, KeepsJournal
<1>3. CASE (\E id \in 0..(MaxRevisionId - 1) : RevertToSnapshot(id))
           /\ UNCHANGED <<txVars, accountVars>>
  BY <1>3 DEF RevertToSnapshot, KeepsJournal
<1>4. CASE RevertDone /\ UNCHANGED <<txVars, accountVars>>
  BY <1>4 DEF RevertDone, KeepsJournal
<1>5. CASE UNCHANGED vars
  BY <1>5 DEF vars, journalVars, KeepsJournal
<1> QED BY <1>1, <1>2, <1>3, <1>4, <1>5 DEF Next, Call, RevertStep, UndoesEntry, ClearsJournal

\* One iteration of revert pops the last entry.
LEMMA UndoPops ==
    ASSUME IInv, UndoesEntry
    PROVE  /\ Undoing
           /\ journal' = pop(journal)
           /\ journal \in JournalType
           /\ journal.entries # <<>>
           /\ LastEntry \in Entry
           /\ LastEntry = journal.entries[Len(journal.entries)]
           /\ UNCHANGED <<validRevisions, nextRevisionId, reverting>>
<1>0. JournalTypeOK /\ RevisionsOrdered /\ TxTypeOK
  BY DEF IInv, TypeOK
<1>1. Undoing /\ journal' = pop(journal) /\ UNCHANGED <<validRevisions, nextRevisionId, reverting>>
  <2>1. CASE TxUndo
    BY <1>0, <2>1, TxUndoStep
  <2>2. CASE AccountUndo
    BY <2>2 DEF AccountUndo, UndoCreateObject, UndoResetObject, UndoSuicide, UndoTouch,
       UndoBalance, UndoNonce, UndoCode, UndoStorage, UndoField, Undo
  <2> QED BY <2>1, <2>2 DEF UndoesEntry
<1> QED BY <1>0, <1>1, LastEntryType

\* A transaction ends, or a copy starts, with an empty journal.
LEMMA ClearsToEmpty ==
    ASSUME IInv, ClearsJournal
    PROVE  /\ Idle
           /\ journal'.entries = <<>>
           /\ journal' = newJournal \/ journal' = journal
           /\ UNCHANGED <<logs, logSize, preimages, accessList, transientStorage>>
           /\ journal' = newJournal \/ journal.entries = <<>>
<1>1. CASE \E d \in BOOLEAN : Finalise(d) \/ IntermediateRoot(d)
  BY <1>1 DEF Finalise, IntermediateRoot, IntermediateRootOn, clearJournalAndRefund, newJournal
<1>2. CASE Copy
  BY <1>2 DEF Copy, newJournal
<1> QED BY <1>1, <1>2 DEF ClearsJournal

\* The setters of the transaction state append none, one or two entries of
\* their own kinds.
LEMMA TxSetterAppends ==
    ASSUME IInv, TxSetter
    PROVE  /\ Idle
           /\ UNCHANGED <<validRevisions, nextRevisionId, reverting>>
           /\ \/ journal' = journal
              \/ \E e \in TxEntry : journal' = append(journal, e)
              \/ \E e, f \in TxEntry : journal' = append(append(journal, e), f)
BY TxSetterStep DEF IInv, TypeOK, TxGrows

-----------------------------------------------------------------------------
(* The dirty counts.                                                       *)

CountsExact(j) ==
    \A a \in Addr :
        /\ j.dirties[a] >= Cardinality(Dirtying(j.entries, a))
        /\ a # Ripemd => j.dirties[a] = Cardinality(Dirtying(j.entries, a))

\* Exact counts are counts without marks beyond the entries, RIPEMD's aside.
LEMMA CountsAsMarks ==
    ASSUME NEW j \in JournalType
    PROVE  CountsExact(j) <=> \A a \in Addr : /\ ExtraMarks(j, a) >= 0
                                              /\ a # Ripemd => ExtraMarks(j, a) = 0
<1>1. j.entries \in Seq(Entry) /\ j.dirties \in [Addr -> Int]
  BY DEF JournalType
<1>2. \A a \in Addr : j.dirties[a] \in Int /\ Cardinality(Dirtying(j.entries, a)) \in Nat
  BY <1>1, DirtyingFinite
<1> QED BY <1>2 DEF CountsExact, ExtraMarks

\* append counts its entry.
LEMMA CountsAppend ==
    ASSUME NEW j \in JournalType, NEW e \in Entry, CountsExact(j)
    PROVE  CountsExact(append(j, e))
<1>1. j \in JournalOf(Entry) /\ append(j, e) \in JournalType
  BY AppendType DEF JournalType, JournalOf
<1> QED BY <1>1, CountsAsMarks, MarksAppend

\* dirty marks RIPEMD without an entry.
LEMMA CountsDirty ==
    ASSUME NEW j \in JournalType, Ripemd \in Addr, CountsExact(j)
    PROVE  CountsExact(dirty(j, Ripemd))
<1>1. j \in JournalOf(Entry) /\ dirty(j, Ripemd) \in JournalType
  BY DirtyType DEF JournalType, JournalOf
<1>2. \A a \in Addr : ExtraMarks(j, a) \in Int
  <2>1. j.entries \in Seq(Entry) /\ j.dirties \in [Addr -> Int]
    BY DEF JournalType
  <2> QED BY <2>1, DirtyingFinite DEF ExtraMarks
<1> QED BY <1>1, <1>2, CountsAsMarks, MarksDirty

\* pop takes back the count of the entry it removes.
LEMMA CountsPop ==
    ASSUME NEW j \in JournalType, j.entries # <<>>, CountsExact(j)
    PROVE  CountsExact(pop(j))
<1>1. j \in JournalOf(Entry) /\ pop(j) \in JournalType
  BY PopType DEF JournalType, JournalOf
<1> QED BY <1>1, CountsAsMarks, MarksPop

\* An empty journal counts nothing.
LEMMA CountsNew == CountsExact(newJournal)
BY NewJournalOf, MarksNew, CountsAsMarks DEF JournalType, JournalOf

\* The primitive steps count what they journal.
LEMMA CountsPrimitive ==
    ASSUME NEW s \in Threaded, NEW a \in Addr, NEW r, Primitive(s, r, a),
           CountsExact(s.journal)
    PROVE  r \in Threaded /\ CountsExact(r.journal)
<1>0. r \in Threaded /\ s.journal \in JournalType
  BY PrimitiveType DEF Threaded
<1>1. CASE r.journal = s.journal
  BY <1>0, <1>1
<1>2. CASE \E e \in Entry : r.journal = append(s.journal, e)
  BY <1>0, <1>2, CountsAppend
<1>3. CASE Touches(s, r, a)
  <2> DEFINE t == append(s.journal, [kind |-> "touch", account |-> a])
  <2>1. t \in JournalType /\ CountsExact(t)
    BY <1>0, CountsAppend, AppendType, EntryTypes
  <2>2. r.journal = IF a = Ripemd THEN dirty(t, a) ELSE t
    BY <1>3 DEF Touches, Fields, TouchJournal
  <2> HIDE DEF t
  <2> QED BY <1>0, <2>1, <2>2, CountsDirty
<1>4. CASE Creates(s, r, a)
  BY <1>2, <1>4, EntryTypes DEF Creates, Fields, CreateEntry
<1>5. CASE Resets(s, r, a)
  <2>1. s.objs[a] \in Object /\ (a \in s.destruct) \in BOOLEAN
    BY <1>5 DEF Resets, Threaded, ObjectMap
  <2> QED BY <1>2, <1>5, <2>1, EntryTypes DEF Resets, Fields, ResetEntry
<1>6. CASE Changes(s, r, a)
  BY <1>2, <1>6 DEF Changes, Fields
<1> QED BY <1>1, <1>3, <1>4, <1>5, <1>6 DEF Primitive, Fails, Marks, Loads, Caches, Fields

\* Every step keeps the counts exact.
LEMMA CountsStep ==
    ASSUME IInv, [Next]_vars, CountsExact(journal)
    PROVE  CountsExact(journal')
<1>0. State \in Threaded /\ State.journal = journal /\ journal \in JournalType
  BY StateType DEF IInv, State, Threaded
<1>1. CASE \E a \in Addr : CallRuns(a) /\ UNCHANGED txVars
  <2>0. PICK a \in Addr : CallRuns(a)
    BY <1>1
  <2>1. PICK r : Runs(r, a) /\ Put(r)
    BY <2>0 DEF CallRuns
  <2>2. PICK s1, s2, s3, s4, s5 :
           /\ Primitive(State, s1, a) /\ Primitive(s1, s2, a) /\ Primitive(s2, s3, a)
           /\ Primitive(s3, s4, a) /\ Primitive(s4, s5, a) /\ Primitive(s5, r, a)
    BY <2>1 DEF Runs, Finds, Works
  <2>3. s1 \in Threaded /\ CountsExact(s1.journal)
    BY <1>0, <2>2, CountsPrimitive
  <2>4. s2 \in Threaded /\ CountsExact(s2.journal)
    BY <2>2, <2>3, CountsPrimitive
  <2>5. s3 \in Threaded /\ CountsExact(s3.journal)
    BY <2>2, <2>4, CountsPrimitive
  <2>6. s4 \in Threaded /\ CountsExact(s4.journal)
    BY <2>2, <2>5, CountsPrimitive
  <2>7. s5 \in Threaded /\ CountsExact(s5.journal)
    BY <2>2, <2>6, CountsPrimitive
  <2>8. CountsExact(r.journal)
    BY <2>2, <2>7, CountsPrimitive
  <2> QED BY <2>1, <2>8, CallEnd
<1>2. CASE TxSetter /\ UNCHANGED accountVars
  <2>1. TxGrows
    BY <1>2, TxSetterStep DEF IInv, TypeOK
  <2>2. \A e \in TxEntry : append(journal, e) \in JournalType /\ CountsExact(append(journal, e))
    BY <1>0, AppendType, CountsAppend DEF TxEntry
  <2>3. \A e, f \in TxEntry : CountsExact(append(append(journal, e), f))
    BY <2>2, CountsAppend DEF TxEntry
  <2> QED BY <2>1, <2>2, <2>3 DEF TxGrows
<1>3. CASE UndoesEntry
  BY <1>3, UndoPops, CountsPop
<1>4. CASE ClearsJournal
  BY <1>4, ClearsToEmpty, CountsNew
<1>5. CASE KeepsJournal
  BY <1>5 DEF KeepsJournal
<1> QED BY <1>1, <1>2, <1>3, <1>4, <1>5, StepCases

\* The dirty counts that decide what Finalise and Copy visit are the numbers of
\* entries in the journal, after any calls, partial reverts and ends of
\* transactions; only RIPEMD's may exceed it.
THEOREM DirtiesAlwaysExact == Spec => []DirtiesExact
<1>1. DirtiesExact <=> CountsExact(journal)
  BY DEF DirtiesExact, CountsExact, EntriesDirtying, Dirtying
<1>2. Init => CountsExact(journal)
  BY CountsNew DEF Init, JournalInit
<1>3. IInv /\ CountsExact(journal) /\ [Next]_vars => CountsExact(journal)'
  BY CountsStep
<1> QED BY <1>1, <1>2, <1>3, Invariance, PTL DEF Spec

-----------------------------------------------------------------------------
(* The suicide mark.  A live object that carries it was marked by an entry *)
(* still in the journal; so were the marked objects that a reset replaced, *)
(* and the ones marked a second time, at an earlier place.                 *)

SuicideBefore(es, a, n) == \E i \in 1..(n - 1) : es[i].kind = "suicide" /\ es[i].account = a

SuicidesRecorded(es, objs) ==
    /\ \A a \in Addr : Live(objs, a) /\ objs[a].suicided => SuicideBefore(es, a, Len(es) + 1)
    /\ \A n \in 1..Len(es) :
          es[n].kind = "resetObject" /\ ~es[n].prev.deleted /\ es[n].prev.suicided
              => SuicideBefore(es, es[n].account, n)
    /\ \A n \in 1..Len(es) :
          es[n].kind = "suicide" /\ es[n].prev => SuicideBefore(es, es[n].account, n)

\* A new entry that is right about the marks before it.
LEMMA SuicidesAppend ==
    ASSUME NEW es \in Seq(Entry), NEW objs, NEW e \in Entry, NEW objs2,
           SuicidesRecorded(es, objs),
           \A a \in Addr : Live(objs2, a) /\ objs2[a].suicided =>
               \/ Live(objs, a) /\ objs[a].suicided
               \/ e.kind = "suicide" /\ e.account = a,
           e.kind = "resetObject" /\ ~e.prev.deleted /\ e.prev.suicided =>
               Live(objs, e.account) /\ objs[e.account].suicided,
           e.kind = "suicide" /\ e.prev => Live(objs, e.account) /\ objs[e.account].suicided
    PROVE  SuicidesRecorded(Append(es, e), objs2)
<1> DEFINE fs == Append(es, e)
<1>1. /\ fs \in Seq(Entry) /\ Len(es) \in Nat /\ Len(fs) = Len(es) + 1 /\ fs[Len(es) + 1] = e
      /\ \A i \in 1..Len(es) : fs[i] = es[i]
  OBVIOUS
<1>2. e.kind \in {"resetObject", "suicide"} => e.account \in Addr
  BY EntryFields
<1> HIDE DEF fs
<1>3. \A a : \A n \in 1..(Len(es) + 1) : SuicideBefore(es, a, n) => SuicideBefore(fs, a, n)
  BY <1>1 DEF SuicideBefore
<1>4. \A a : \A n \in 1..Len(fs) : SuicideBefore(fs, a, n) => SuicideBefore(fs, a, Len(fs) + 1)
  BY <1>1 DEF SuicideBefore
<1>5. e.kind = "suicide" => SuicideBefore(fs, e.account, Len(fs) + 1)
  BY <1>1 DEF SuicideBefore
<1>6. ASSUME NEW a \in Addr, Live(objs2, a), objs2[a].suicided
      PROVE  SuicideBefore(fs, a, Len(fs) + 1)
  BY <1>1, <1>3, <1>4, <1>5, <1>6 DEF SuicidesRecorded
<1>7. ASSUME NEW n \in 1..Len(fs),
             \/ fs[n].kind = "resetObject" /\ ~fs[n].prev.deleted /\ fs[n].prev.suicided
             \/ fs[n].kind = "suicide" /\ fs[n].prev
      PROVE  SuicideBefore(fs, fs[n].account, n)
  <2>1. CASE n \in 1..Len(es)
    BY <1>1, <1>3, <1>7, <2>1 DEF SuicidesRecorded
  <2>2. CASE n = Len(es) + 1
    <3>1. Live(objs, e.account) /\ objs[e.account].suicided /\ e.account \in Addr
      BY <1>1, <1>2, <1>7, <2>2
    <3>2. SuicideBefore(es, e.account, Len(es) + 1)
      BY <3>1 DEF SuicidesRecorded
    <3> QED BY <1>1, <1>3, <2>2, <3>2
  <2> QED BY <1>1, <2>1, <2>2
<1>8. SuicidesRecorded(fs, objs2)
  BY <1>6, <1>7 DEF SuicidesRecorded
<1> QED BY <1>8 DEF fs

\* The primitive steps record the marks they set.
LEMMA SuicidesPrimitive ==
    ASSUME NEW s \in Threaded, NEW a \in Addr, NEW r, Primitive(s, r, a), trie \in AccountTrie,
           SuicidesRecorded(s.journal.entries, s.objs)
    PROVE  r \in Threaded /\ SuicidesRecorded(r.journal.entries, r.objs)
<1> DEFINE es == s.journal.entries
<1>0. r \in Threaded /\ s.journal \in JournalType /\ s.objs \in ObjectMap /\ es \in Seq(Entry)
  BY PrimitiveType DEF Threaded, JournalType
<1>a. ASSUME NEW o \in Object, r.objs = [s.objs EXCEPT ![a] = o]
      PROVE  r.objs[a] = o /\ \A b \in Addr \ {a} : r.objs[b] = s.objs[b]
  BY <1>0, <1>a, UpdatedMap
<1>b. ASSUME r.journal = s.journal,
             \A b \in Addr : Live(r.objs, b) /\ r.objs[b].suicided
                                => Live(s.objs, b) /\ s.objs[b].suicided
      PROVE  SuicidesRecorded(r.journal.entries, r.objs)
  BY <1>b DEF SuicidesRecorded
<1>1. CASE r = s \/ Fails(s, r) \/ Marks(s, r, a)
  BY <1>0, <1>1 DEF Fails, Marks, Fields
<1>2. CASE Loads(s, r, a)
  <2> DEFINE o == newObject(trie[a])
  <2>1. o \in Object /\ ~o.suicided
    BY <1>2, NewObjectType DEF Loads, AccountTrie, newObject
  <2>2. r.objs = [s.objs EXCEPT ![a] = o] /\ r.journal = s.journal
    BY <1>2 DEF Loads, Fields
  <2> HIDE DEF o
  <2>3. r.objs[a] = o /\ \A b \in Addr \ {a} : r.objs[b] = s.objs[b]
    BY <2>1, <2>2, <1>a
  <2> QED BY <1>0, <1>b, <2>1, <2>2, <2>3 DEF Live
<1>3. CASE Creates(s, r, a) \/ Resets(s, r, a)
  <2>1. PICK b \in Int : r.objs = [s.objs EXCEPT ![a] = Fresh(b)]
    BY <1>3, FreshType DEF Creates, Resets, Fields
  <2>2. Fresh(b) \in Object /\ ~Fresh(b).suicided
    BY FreshType
  <2>3. r.objs[a] = Fresh(b) /\ \A c \in Addr \ {a} : r.objs[c] = s.objs[c]
    BY <1>a, <2>1, <2>2
  <2>4. \A c \in Addr : Live(r.objs, c) /\ r.objs[c].suicided
                             => Live(s.objs, c) /\ s.objs[c].suicided
    BY <2>2, <2>3 DEF Live
  <2>5. CASE Creates(s, r, a)
    <3>1. CreateEntry(a) \in Entry /\ CreateEntry(a).kind = "createObject"
      BY EntryTypes DEF CreateEntry
    <3>2. r.journal.entries = Append(es, CreateEntry(a))
      BY <1>0, <2>5, <3>1, AppendType DEF Creates, Fields
    <3>3. SuicidesRecorded(Append(es, CreateEntry(a)), r.objs)
      BY <1>0, <2>4, <3>1, SuicidesAppend
    <3> QED BY <1>0, <3>2, <3>3
  <2>6. CASE Resets(s, r, a)
    <3> DEFINE e == ResetEntry(s, a)
    <3>1. s.objs[a] \in Object /\ s.objs[a] # Nil /\ (a \in s.destruct) \in BOOLEAN
      BY <2>6 DEF Resets, Threaded, ObjectMap
    <3>2. e \in Entry /\ e.kind = "resetObject" /\ e.account = a /\ e.prev = s.objs[a]
      BY <3>1, EntryTypes DEF ResetEntry
    <3>3. r.journal.entries = Append(es, e)
      BY <1>0, <2>6, <3>2, AppendType DEF Resets, Fields
    <3> HIDE DEF e
    <3>4. SuicidesRecorded(Append(es, e), r.objs)
      BY <1>0, <2>4, <3>1, <3>2, SuicidesAppend DEF Live
    <3> QED BY <1>0, <3>3, <3>4
  <2> QED BY <1>3, <2>5, <2>6
<1>4. CASE Caches(s, r, a)
  <2>1. PICK k \in Key : /\ r.objs = [s.objs EXCEPT ![a] = Cached(s.objs[a], a \in s.destruct, k)]
                         /\ r.journal = s.journal
    BY <1>4 DEF Caches, Fields
  <2> DEFINE o == s.objs[a]
             d == a \in s.destruct
             c == Cached(o, d, k)
  <2>2. o \in Object /\ o # Nil
    BY <1>0, <1>4, LiveObject DEF Caches, Live
  <2>3. c \in Object /\ c.deleted = o.deleted /\ c.suicided = o.suicided
    <3>0. d \in BOOLEAN
      OBVIOUS
    <3> HIDE DEF d, o
    <3>1. c \in Object /\ c.deleted = o.deleted
      BY <2>2, <3>0, CachedType
    <3>2. c.suicided = o.suicided
      BY <2>2 DEF Cached, Object
    <3> QED BY <3>1, <3>2
  <2> HIDE DEF c
  <2>4. r.objs[a] = c /\ \A b \in Addr \ {a} : r.objs[b] = s.objs[b]
    BY <1>a, <2>1, <2>3 DEF c
  <2>5. \A b \in Addr : Live(r.objs, b) /\ r.objs[b].suicided
                             => Live(s.objs, b) /\ s.objs[b].suicided
    BY <2>2, <2>3, <2>4 DEF Live
  <2> QED BY <1>0, <1>b, <2>1, <2>5
<1>5. CASE Touches(s, r, a)
  <2> DEFINE e == [kind |-> "touch", account |-> a]
  <2>1. e \in Entry /\ e.kind = "touch"
    BY EntryTypes
  <2>2. append(s.journal, e) \in JournalType /\ append(s.journal, e).entries = Append(es, e)
    BY <1>0, <2>1, AppendType
  <2>3. r.journal.entries = Append(es, e) /\ r.objs = s.objs
    BY <1>5, <2>2, DirtyType DEF Touches, Fields, TouchJournal
  <2> HIDE DEF e
  <2>4. SuicidesRecorded(Append(es, e), r.objs)
    BY <1>0, <2>1, <2>3, SuicidesAppend
  <2> QED BY <1>0, <2>3, <2>4
<1>6. CASE Changes(s, r, a)
  <2>1. PICK e \in Entry, o \in Object :
           /\ Records(s, a, e, o)
           /\ r.objs = [s.objs EXCEPT ![a] = o] /\ r.journal = append(s.journal, e)
    BY <1>6 DEF Changes, Fields
  <2>2. r.journal.entries = Append(es, e)
    BY <1>0, <2>1, AppendType
  <2>3. r.objs[a] = o /\ \A b \in Addr \ {a} : r.objs[b] = s.objs[b]
    BY <1>a, <2>1
  <2>4. s.objs[a] \in Object /\ Live(s.objs, a)
    BY <1>0, <1>6, LiveObject DEF Changes
  <2>5. /\ e.account = a /\ e.kind # "resetObject"
        /\ e.kind = "suicide" => e.prev = s.objs[a].suicided
        /\ e.kind # "suicide" => o.suicided = s.objs[a].suicided
    BY <2>1, <2>4 DEF Records, Object
  <2>6. SuicidesRecorded(Append(es, e), r.objs)
    <3>1. \A b \in Addr : Live(r.objs, b) /\ r.objs[b].suicided =>
              \/ Live(s.objs, b) /\ s.objs[b].suicided
              \/ e.kind = "suicide" /\ e.account = b
      BY <2>3, <2>4, <2>5 DEF Live
    <3>2. e.kind = "suicide" /\ e.prev => Live(s.objs, e.account) /\ s.objs[e.account].suicided
      BY <2>4, <2>5
    <3> QED BY <1>0, <2>5, <3>1, <3>2, SuicidesAppend
  <2> QED BY <1>0, <2>2, <2>6
<1> QED BY <1>0, <1>1, <1>2, <1>3, <1>4, <1>5, <1>6 DEF Primitive

\* A revert that does not undo a mark keeps the records of those that stay.
LEMMA SuicidesPop ==
    ASSUME NEW es \in Seq(Entry), NEW fs \in Seq(Entry), NEW objs, NEW objs2,
           Len(es) = Len(fs) + 1, \A i \in 1..Len(fs) : fs[i] = es[i],
           SuicidesRecorded(es, objs),
           \A a \in Addr : Live(objs2, a) /\ objs2[a].suicided =>
               SuicideBefore(es, a, Len(es))
    PROVE  SuicidesRecorded(fs, objs2)
<1>1. Len(fs) \in Nat
  OBVIOUS
<1>2. \A a : \A n \in 1..Len(es) : SuicideBefore(es, a, n) => SuicideBefore(fs, a, n)
  BY <1>1 DEF SuicideBefore
<1>3. \A a \in Addr : Live(objs2, a) /\ objs2[a].suicided => SuicideBefore(fs, a, Len(fs) + 1)
  BY <1>1, <1>2
<1> QED BY <1>1, <1>2, <1>3 DEF SuicidesRecorded

\* The reverts of the transaction state concern no account entry, those of
\* accounts find the mark of an earlier entry when they set it again.
LEMMA SuicidesUndo ==
    ASSUME IInv, UndoesEntry,
           SuicidesRecorded(journal.entries, stateObjects)
    PROVE  SuicidesRecorded(journal'.entries, stateObjects')
<1> DEFINE es == journal.entries
           fs == journal'.entries
           e  == LastEntry
           a  == LastEntry.account
<1>1. /\ Undoing /\ journal' = pop(journal) /\ journal \in JournalType /\ es # <<>>
      /\ LastEntry \in Entry /\ LastEntry = es[Len(es)]
  BY UndoPops
<1>2. /\ es \in Seq(Entry) /\ fs \in Seq(Entry) /\ Len(es) = Len(fs) + 1
      /\ Len(fs) \in Nat /\ \A i \in 1..Len(fs) : fs[i] = es[i]
  BY <1>1, PopType DEF JournalType
<1>3. stateObjects \in ObjectMap
  BY DEF IInv, TypeOK, AccountsTypeOK, ObjectMap
<1> HIDE DEF es, fs
<1>4. ASSUME NEW b \in Addr, Live(stateObjects, b), stateObjects[b].suicided,
             e.kind # "suicide" \/ e.account # b
      PROVE  SuicideBefore(es, b, Len(es))
  <2>1. SuicideBefore(es, b, Len(es) + 1)
    BY <1>4 DEF SuicidesRecorded, es
  <2> QED BY <1>1, <1>2, <1>4, <2>1 DEF SuicideBefore
<1>5. SUFFICES ASSUME NEW b \in Addr, Live(stateObjects', b), stateObjects'[b].suicided
               PROVE  SuicideBefore(es, b, Len(es))
  BY <1>2, SuicidesPop DEF es, fs
<1>6. CASE TxUndo /\ UNCHANGED accountVars
  <2>1. stateObjects' = stateObjects /\ e.kind # "suicide"
    BY <1>6 DEF accountVars, TxUndo, UndoRefund, UndoAddLog, UndoAddPreimage,
       UndoAccessListAddAccount, UndoAccessListAddSlot, UndoTransientStorage, Pops
  <2> QED BY <1>4, <1>5, <2>1
<1>7. CASE UndoCreateObject
  <2>1. /\ stateObjects' = [stateObjects EXCEPT ![a] = Nil] /\ a \in Addr
        /\ e.kind = "createObject"
    BY <1>1, <1>7, EntryFields DEF UndoCreateObject, Undo
  <2>2. b # a /\ stateObjects'[b] = stateObjects[b]
    BY <1>3, <1>5, <2>1 DEF Live, ObjectMap
  <2> QED BY <1>4, <1>5, <2>1, <2>2 DEF Live
<1>8. CASE UndoResetObject
  <2>1. /\ stateObjects' = [stateObjects EXCEPT ![a] = e.prev] /\ a \in Addr
        /\ e.kind = "resetObject"
    BY <1>1, <1>8, EntryFields DEF UndoResetObject, Undo
  <2>2. CASE b = a
    <3>1. stateObjects'[b] = e.prev
      BY <1>3, <2>1, <2>2 DEF ObjectMap
    <3>2. ~e.prev.deleted /\ e.prev.suicided
      BY <1>5, <3>1 DEF Live
    <3>3. Len(es) \in 1..Len(es)
      BY <1>2
    <3> QED BY <1>1, <2>1, <2>2, <3>2, <3>3 DEF SuicidesRecorded, es
  <2>3. CASE b # a
    <3>1. stateObjects'[b] = stateObjects[b]
      BY <1>3, <2>1, <2>3 DEF ObjectMap
    <3> QED BY <1>4, <1>5, <2>1, <3>1 DEF Live
  <2> QED BY <2>2, <2>3
<1>9. CASE UndoSuicide
  <2>1. e.kind = "suicide" /\ a \in Addr
    BY <1>1, <1>9, EntryFields DEF UndoSuicide, Undo
  <2>2. CASE b = a
    <3>1. Live(stateObjects, a)
      BY <1>5, <1>9, <2>2 DEF UndoSuicide
    <3>2. stateObjects[a] \in Object
      BY <1>3, <2>1, <3>1, LiveObject
    <3>3. stateObjects'[a].suicided = e.prev
      <4> DEFINE o == [stateObjects[a] EXCEPT !.suicided = e.prev, !.balance = e.prevbalance]
      <4>1. stateObjects' = [stateObjects EXCEPT ![a] = o]
        BY <1>3, <1>9, <2>1, <3>1 DEF UndoSuicide, ObjectMap
      <4>2. o.suicided = e.prev
        BY <3>2 DEF Object
      <4> HIDE DEF o
      <4> QED BY <1>3, <2>1, <4>1, <4>2 DEF ObjectMap
    <3>4. Len(es) \in 1..Len(es)
      BY <1>2
    <3> QED BY <1>1, <1>5, <2>1, <2>2, <3>3, <3>4 DEF SuicidesRecorded, es
  <2>3. CASE b # a
    <3>1. stateObjects'[b] = stateObjects[b]
      BY <1>3, <1>9, <2>1, <2>3 DEF UndoSuicide, ObjectMap
    <3> QED BY <1>4, <1>5, <2>1, <2>3, <3>1 DEF Live
  <2> QED BY <2>2, <2>3
<1>10. CASE UndoTouch
  <2>1. stateObjects' = stateObjects /\ e.kind # "suicide"
    BY <1>10 DEF UndoTouch, Undo
  <2> QED BY <1>4, <1>5, <2>1
<1>11. ASSUME NEW o, NEW kind \in DerefKinds, UndoField(kind, o),
              stateObjects[a] \in Object =>
                  o.suicided = stateObjects[a].suicided /\ o.deleted = stateObjects[a].deleted
       PROVE  SuicideBefore(es, b, Len(es))
  <2>1. /\ e.kind = kind /\ Live(stateObjects, a)
        /\ stateObjects' = [stateObjects EXCEPT ![a] = o]
    BY <1>11 DEF UndoField, Undo
  <2>2. a \in Addr /\ e.kind # "suicide"
    BY <1>1, <2>1, EntryFields DEF DerefKinds
  <2>3. stateObjects[a] \in Object
    BY <1>3, <2>1, <2>2, LiveObject
  <2>4. Live(stateObjects, b) /\ stateObjects[b].suicided
    <3>1. CASE b = a
      <4>1. stateObjects'[b] = o
        BY <1>3, <2>1, <2>2, <3>1 DEF ObjectMap
      <4> QED BY <1>5, <1>11, <2>1, <2>3, <3>1, <4>1
    <3>2. CASE b # a
      <4>1. stateObjects'[b] = stateObjects[b]
        BY <1>3, <2>1, <2>2, <3>2 DEF ObjectMap
      <4> QED BY <1>5, <4>1 DEF Live
    <3> QED BY <3>1, <3>2
  <2> QED BY <1>4, <2>2, <2>4
<1>12. CASE UndoBalance
  BY <1>11, <1>12 DEF UndoBalance, DerefKinds, LastObject, Object
<1>13. CASE UndoNonce
  BY <1>11, <1>13 DEF UndoNonce, DerefKinds, LastObject, Object
<1>14. CASE UndoCode
  BY <1>11, <1>14 DEF UndoCode, DerefKinds, LastObject, Object
<1>15. CASE UndoStorage
  BY <1>11, <1>15 DEF UndoStorage, DerefKinds, LastObject, Object
<1> QED BY <1>6, <1>7, <1>8, <1>9, <1>10, <1>12, <1>13, <1>14, <1>15
    DEF UndoesEntry, AccountUndo

\* Flushing the storage of an object leaves its suicide mark.
LEMMA FlushKeepsMark ==
    ASSUME NEW o \in Object
    PROVE  /\ finalise(o).suicided = o.suicided
           /\ updateRoot(o).suicided = o.suicided
           /\ \A f \in updateRootFailed(o) : f.suicided = o.suicided
<1> DEFINE g == finalise(o)
<1>1. g \in Object /\ g.suicided = o.suicided
  <2>1. g.suicided = o.suicided
    BY DEF finalise, Object
  <2> QED BY <2>1, FinaliseType
<1> HIDE DEF g
<1>2. ASSUME NEW ks, NEW ws PROVE Written(g, ks, ws).suicided = g.suicided
  BY <1>1 DEF Written, Object
<1>3. updateTrie(o).suicided = o.suicided /\ updateTrie(o) \in Object
  <2> DEFINE w == Written(g, Changed(g), Changed(g))
  <2>1. w \in Object /\ w.suicided = g.suicided
    BY <1>1, <1>2, WrittenType
  <2>2. NoStorage \in Cache
    BY DEF NoStorage, Cache
  <2> HIDE DEF w
  <2>3. [w EXCEPT !.pendingStorage = NoStorage].suicided = w.suicided
        /\ [w EXCEPT !.pendingStorage = NoStorage] \in Object
    BY <2>1, <2>2 DEF Object
  <2> QED BY <1>1, <2>1, <2>3 DEF updateTrie, g, w
<1>4. updateRoot(o).suicided = o.suicided
  BY <1>3 DEF updateRoot, Object
<1>5. \A f \in updateRootFailed(o) : f.suicided = o.suicided
  <2> SUFFICES ASSUME NEW f \in updateRootFailed(o) PROVE f.suicided = o.suicided
    OBVIOUS
  <2>1. f = g \/ \E done \in SUBSET Changed(g) : \E k \in Changed(g) \ done :
                    f = Written(g, done \cup {k}, done)
    BY DEF updateRootFailed, g
  <2> QED BY <1>1, <1>2, <2>1
<1> QED BY <1>1, <1>4, <1>5 DEF g

\* What IntermediateRoot's loops leave of the objects: the accounts that are
\* not pending are untouched, the others keep their marks.
LEMMA FlushedObjects ==
    ASSUME NEW base, NEW objs \in ObjectMap, NEW S \in SUBSET Addr,
           \A a \in S : objs[a] # Nil, NEW f \in Flushed(base, objs, S), NEW a \in Addr
    PROVE  /\ a \notin S \/ (a \in S /\ objs[a].deleted) => f.objs[a] = objs[a]
           /\ a \in S => /\ f.objs[a] \in Object
                         /\ f.objs[a].deleted = objs[a].deleted
                         /\ f.objs[a].suicided = objs[a].suicided
           /\ a \in S /\ ~objs[a].deleted =>
                 \/ f.objs[a] = updateRoot(objs[a])
                 \/ f.err /\ f.objs[a] \in updateRootFailed(objs[a])
<1> DEFINE rooted == Rooted(objs, S)
<1>1. \A b \in S : objs[b] \in Object
  BY DEF ObjectMap
<1>2. \A o \in Object : /\ updateRoot(o) \in Object /\ updateRoot(o).deleted = o.deleted
                        /\ updateRoot(o).suicided = o.suicided
  BY UpdateRootType, FlushKeepsMark
<1>3. \A o \in Object : \A g \in updateRootFailed(o) :
         g \in Object /\ g.deleted = o.deleted /\ g.suicided = o.suicided
  BY UpdateRootFailedType, FlushKeepsMark
<1>4. rooted[a] = IF a \in S /\ ~objs[a].deleted THEN updateRoot(objs[a]) ELSE objs[a]
  BY DEF Rooted
<1>5. \/ f.objs = rooted
      \/ \E b \in {c \in S : ~objs[c].deleted} : \E o \in updateRootFailed(objs[b]) :
             f.objs = [rooted EXCEPT ![b] = o] /\ f.err = TRUE
  <2>1. \/ f = FlushOutcome(base, rooted, S, FALSE)
        \/ \E b \in S : f = FlushOutcome(base, rooted, S \ {b}, TRUE)
        \/ \E b \in {c \in S : ~objs[c].deleted} : \E o \in updateRootFailed(objs[b]) :
              f = FlushOutcome(base, [rooted EXCEPT ![b] = o], S, TRUE)
    BY DEF Flushed
  <2>2. \A m, T, e : FlushOutcome(base, m, T, e).objs = m /\ FlushOutcome(base, m, T, e).err = e
    BY DEF FlushOutcome
  <2> HIDE DEF rooted
  <2>3. CASE f = FlushOutcome(base, rooted, S, FALSE)
             \/ \E b \in S : f = FlushOutcome(base, rooted, S \ {b}, TRUE)
    <3>1. PICK T, e : f = FlushOutcome(base, rooted, T, e)
      BY <2>3
    <3>2. f.objs = rooted
      BY <2>2, <3>1
    <3> QED BY <3>2
  <2>4. CASE \E b \in {c \in S : ~objs[c].deleted} : \E o \in updateRootFailed(objs[b]) :
                f = FlushOutcome(base, [rooted EXCEPT ![b] = o], S, TRUE)
    <3>1. PICK b \in {c \in S : ~objs[c].deleted} : \E o \in updateRootFailed(objs[b]) :
                f = FlushOutcome(base, [rooted EXCEPT ![b] = o], S, TRUE)
      BY <2>4
    <3>2. PICK o \in updateRootFailed(objs[b]) :
                f = FlushOutcome(base, [rooted EXCEPT ![b] = o], S, TRUE)
      BY <3>1
    <3>3. f.objs = [rooted EXCEPT ![b] = o] /\ f.err = TRUE
      BY <2>2, <3>2
    <3> QED BY <3>3
  <2> QED BY <2>1, <2>3, <2>4
<1>6. CASE f.objs = rooted
  <2> HIDE DEF rooted
  <2> QED BY <1>1, <1>2, <1>4, <1>6
<1>7. CASE \E b \in {c \in S : ~objs[c].deleted} : \E o \in updateRootFailed(objs[b]) :
             f.objs = [rooted EXCEPT ![b] = o] /\ f.err = TRUE
  <2>0. PICK b \in {c \in S : ~objs[c].deleted} : \E o \in updateRootFailed(objs[b]) :
             f.objs = [rooted EXCEPT ![b] = o] /\ f.err = TRUE
    BY <1>7
  <2>1. PICK o \in updateRootFailed(objs[b]) :
           f.objs = [rooted EXCEPT ![b] = o] /\ f.err = TRUE /\ ~objs[b].deleted
    BY <2>0
  <2>2. f.objs[a] = IF a = b THEN o ELSE rooted[a]
    BY <2>1 DEF Rooted
  <2> HIDE DEF rooted
  <2> QED BY <1>1, <1>2, <1>3, <1>4, <2>1, <2>2
<1> QED BY <1>5, <1>6, <1>7

\* Without entries no live object carries the mark.
SuicidesGone(objs) == \A a \in Addr : Live(objs, a) => ~objs[a].suicided

\* A marked account is a dirty one, and Finalise deletes it.
LEMMA FinaliseDeletes ==
    ASSUME IInv, CountsExact(journal), SuicidesRecorded(journal.entries, stateObjects),
           NEW d \in BOOLEAN
    PROVE  /\ SuicidedDeleted
           /\ SuicidesGone(FinalisedObjects(d))
<1>1. /\ journal.entries \in Seq(Entry) /\ stateObjects \in ObjectMap
      /\ journal.dirties \in [Addr -> Int]
  BY DEF IInv, TypeOK, JournalTypeOK, AccountsTypeOK, ObjectMap
<1>2. ASSUME NEW a \in Addr, Live(stateObjects, a), stateObjects[a].suicided
      PROVE  a \in DirtyAccounts
  <2>1. PICK i \in 1..Len(journal.entries) :
           journal.entries[i].kind = "suicide" /\ journal.entries[i].account = a
    <3>1. Len(journal.entries) \in Nat
      BY <1>1
    <3>2. SuicideBefore(journal.entries, a, Len(journal.entries) + 1)
      BY <1>2 DEF SuicidesRecorded
    <3> QED BY <3>1, <3>2 DEF SuicideBefore
  <2>2. i \in Dirtying(journal.entries, a)
    BY <2>1 DEF Dirtying, dirtied, DirtyingKinds
  <2>3. Cardinality(Dirtying(journal.entries, a)) \in Nat \ {0}
    BY <1>1, <2>2, DirtyingFinite
  <2>4. journal.dirties[a] >= Cardinality(Dirtying(journal.entries, a))
    BY DEF CountsExact
  <2>5. journal.dirties[a] # 0
    BY <1>1, <2>3, <2>4
  <2> QED BY <2>5 DEF DirtyAccounts
<1>3. SuicidedDeleted
  BY <1>2 DEF SuicidedDeleted
<1>4. SUFFICES ASSUME NEW a \in Addr, Live(FinalisedObjects(d), a),
                      FinalisedObjects(d)[a].suicided
               PROVE  FALSE
  BY <1>3 DEF SuicidesGone
<1> DEFINE o == stateObjects[a]
<1>5. CASE a \in Finalised
  <2>1. FinalisedObjects(d)[a] = FinalisedObject(o, d) /\ o # Nil /\ o \in Object
    BY <1>1, <1>5 DEF FinalisedObjects, Finalised, ObjectMap
  <2>2. CASE Deletes(o, d)
    <3>1. FinalisedObject(o, d).deleted = TRUE
      BY <2>1, <2>2 DEF FinalisedObject, Object
    <3> QED BY <1>4, <2>1, <3>1 DEF Live
  <2>3. CASE ~Deletes(o, d)
    <3>1. FinalisedObject(o, d) = finalise(o) /\ ~o.suicided
      BY <2>3 DEF FinalisedObject, Deletes
    <3>2. finalise(o).suicided = o.suicided
      BY <2>1, FlushKeepsMark
    <3> QED BY <1>4, <2>1, <3>1, <3>2
  <2> QED BY <2>2, <2>3
<1>6. CASE a \notin Finalised
  <2>1. FinalisedObjects(d)[a] = o
    BY <1>6 DEF FinalisedObjects
  <2>2. Live(stateObjects, a) /\ o.suicided
    BY <1>4, <2>1 DEF Live
  <2> QED BY <1>2, <1>6, <2>2 DEF Finalised, Live
<1> QED BY <1>5, <1>6

\* Ending a transaction leaves no live object with the mark; a copy between
\* transactions has none to begin with.
LEMMA SuicidesCleared ==
    ASSUME IInv, CountsExact(journal), SuicidesRecorded(journal.entries, stateObjects),
           ClearsJournal, "copyMidTx" \notin Env
    PROVE  SuicidesRecorded(journal'.entries, stateObjects')
<1>0. journal'.entries = <<>>
  BY ClearsToEmpty
<1>1. stateObjects \in ObjectMap /\ AccountsTypeOK /\ PendingLive
  BY DEF IInv, TypeOK, AccountsTypeOK, ObjectMap
<1>2. SUFFICES SuicidesGone(stateObjects')
  BY <1>0 DEF SuicidesRecorded, SuicidesGone
<1>3. ASSUME NEW d \in BOOLEAN, Finalise(d) PROVE SuicidesGone(stateObjects')
  BY <1>3, FinaliseDeletes DEF Finalise
<1>4. ASSUME NEW d \in BOOLEAN, IntermediateRoot(d) PROVE SuicidesGone(stateObjects')
  <2> DEFINE objs == FinalisedObjects(d)
             pending == stateObjectsPending \cup Finalised
  <2>1. PICK f \in Flushed(trie, objs, pending) : stateObjects' = f.objs
    BY <1>4 DEF IntermediateRoot, IntermediateRootOn
  <2>2. /\ objs \in ObjectMap /\ pending \in SUBSET Addr
        /\ \A a \in pending : objs[a] # Nil
    <3>1. \A a \in pending : stateObjects[a] # Nil
      BY <1>1 DEF PendingLive, Finalised
    <3> QED BY <1>1, <3>1, FinalisedType DEF AccountsTypeOK
  <2>3. SuicidesGone(objs)
    BY FinaliseDeletes
  <2> HIDE DEF objs, pending
  <2> SUFFICES ASSUME NEW a \in Addr, Live(f.objs, a) PROVE ~f.objs[a].suicided
    BY <2>1 DEF SuicidesGone
  <2>4. CASE a \notin pending
    BY <2>2, <2>3, <2>4, FlushedObjects DEF SuicidesGone, Live
  <2>5. CASE a \in pending
    <3>1. f.objs[a].deleted = objs[a].deleted /\ f.objs[a].suicided = objs[a].suicided
      BY <2>2, <2>5, FlushedObjects
    <3> QED BY <2>2, <2>3, <2>5, <3>1 DEF SuicidesGone, Live
  <2> QED BY <2>4, <2>5
<1>5. ASSUME Copy PROVE SuicidesGone(stateObjects')
  <2>1. journal.entries = <<>>
    BY <1>5 DEF Copy
  <2>2. SuicidesGone(stateObjects)
    BY <2>1 DEF SuicidesRecorded, SuicidesGone, SuicideBefore
  <2>3. \A a \in Addr : stateObjects'[a] \in {stateObjects[a], Nil}
    BY <1>5 DEF Copy
  <2> QED BY <2>2, <2>3 DEF SuicidesGone, Live
<1> QED BY <1>3, <1>4, <1>5 DEF ClearsJournal

\* Every step keeps the marks recorded.
LEMMA SuicidesStep ==
    ASSUME IInv, [Next]_vars, CountsExact(journal), "copyMidTx" \notin Env,
           SuicidesRecorded(journal.entries, stateObjects)
    PROVE  SuicidesRecorded(journal'.entries, stateObjects')
<1>0. /\ State \in Threaded /\ State.journal = journal /\ State.objs = stateObjects
      /\ trie \in AccountTrie /\ journal \in JournalType
  BY StateType DEF IInv, State, Threaded, TypeOK, AccountsTypeOK
<1>1. CASE \E a \in Addr : CallRuns(a) /\ UNCHANGED txVars
  <2>0. PICK a \in Addr : CallRuns(a)
    BY <1>1
  <2>1. PICK r : Runs(r, a) /\ Put(r)
    BY <2>0 DEF CallRuns
  <2>2. PICK s1, s2, s3, s4, s5 :
           /\ Primitive(State, s1, a) /\ Primitive(s1, s2, a) /\ Primitive(s2, s3, a)
           /\ Primitive(s3, s4, a) /\ Primitive(s4, s5, a) /\ Primitive(s5, r, a)
    BY <2>1 DEF Runs, Finds, Works
  <2>3. s1 \in Threaded /\ SuicidesRecorded(s1.journal.entries, s1.objs)
    BY <1>0, <2>2, SuicidesPrimitive
  <2>4. s2 \in Threaded /\ SuicidesRecorded(s2.journal.entries, s2.objs)
    BY <1>0, <2>2, <2>3, SuicidesPrimitive
  <2>5. s3 \in Threaded /\ SuicidesRecorded(s3.journal.entries, s3.objs)
    BY <1>0, <2>2, <2>4, SuicidesPrimitive
  <2>6. s4 \in Threaded /\ SuicidesRecorded(s4.journal.entries, s4.objs)
    BY <1>0, <2>2, <2>5, SuicidesPrimitive
  <2>7. s5 \in Threaded /\ SuicidesRecorded(s5.journal.entries, s5.objs)
    BY <1>0, <2>2, <2>6, SuicidesPrimitive
  <2>8. SuicidesRecorded(r.journal.entries, r.objs)
    BY <1>0, <2>2, <2>7, SuicidesPrimitive
  <2> QED BY <2>1, <2>8, CallEnd
<1>2. CASE TxSetter /\ UNCHANGED accountVars
  <2>1. TxGrows /\ stateObjects' = stateObjects
    BY <1>2, TxSetterStep DEF IInv, TypeOK, accountVars
  <2>2. ASSUME NEW j \in JournalType, NEW e \in PlainEntry, e.kind # "suicide",
               SuicidesRecorded(j.entries, stateObjects)
        PROVE  /\ append(j, e) \in JournalType
               /\ SuicidesRecorded(append(j, e).entries, stateObjects)
    <3>1. e \in Entry /\ e.kind # "resetObject"
      BY DEF PlainEntry
    <3>2. j.entries \in Seq(Entry)
      BY DEF JournalType
    <3>3. SuicidesRecorded(Append(j.entries, e), stateObjects)
      BY <2>2, <3>1, <3>2, SuicidesAppend
    <3> QED BY <3>1, <3>3, AppendType
  <2>3. \/ journal' = journal
        \/ \E e \in PlainEntry : e.kind # "suicide" /\ journal' = append(journal, e)
        \/ \E e, f \in PlainEntry : /\ e.kind # "suicide" /\ f.kind # "suicide"
                                    /\ journal' = append(append(journal, e), f)
    BY <1>2, TxSetterAppends DEF PlainEntry, TxEntry, TxKinds, DerefKinds
  <2>4. CASE journal' = journal
    BY <2>1, <2>4
  <2>5. CASE \E e \in PlainEntry : e.kind # "suicide" /\ journal' = append(journal, e)
    BY <1>0, <2>1, <2>2, <2>5
  <2>6. CASE \E e, f \in PlainEntry : /\ e.kind # "suicide" /\ f.kind # "suicide"
                                    /\ journal' = append(append(journal, e), f)
    <3>1. PICK e, f \in PlainEntry : /\ e.kind # "suicide" /\ f.kind # "suicide"
                                    /\ journal' = append(append(journal, e), f)
      BY <2>6
    <3>2. /\ append(journal, e) \in JournalType
          /\ SuicidesRecorded(append(journal, e).entries, stateObjects)
      BY <1>0, <2>2, <3>1
    <3> QED BY <2>1, <2>2, <3>1, <3>2
  <2> QED BY <2>3, <2>4, <2>5, <2>6
<1>3. CASE UndoesEntry
  BY <1>3, SuicidesUndo
<1>4. CASE ClearsJournal
  BY <1>4, SuicidesCleared
<1>5. CASE KeepsJournal
  BY <1>5 DEF KeepsJournal, accountVars
<1> QED BY <1>1, <1>2, <1>3, <1>4, <1>5, StepCases

\* An account that was marked suicided is deleted by the end of the transaction:
\* no live object outside of the journal's reach carries the mark.  (A copy made
\* in the middle of a transaction loses the journal and with it this guarantee
\* until its own end of transaction.)
THEOREM SuicidedAlwaysDeleted ==
    ASSUME "copyMidTx" \notin Env
    PROVE  Spec => []SuicidedDeleted
<1> DEFINE Inv == CountsExact(journal) /\ SuicidesRecorded(journal.entries, stateObjects)
<1>1. Init => Inv
  BY CountsNew
  DEF Init, JournalInit, AccountsInit, newJournal, SuicidesRecorded, Live
<1>2. IInv /\ Inv /\ [Next]_vars => Inv'
  BY CountsStep, SuicidesStep
<1>3. IInv /\ Inv => SuicidedDeleted
  BY FinaliseDeletes
<1> QED BY <1>1, <1>2, <1>3, Invariance, PTL DEF Spec

-----------------------------------------------------------------------------
(* What calls append to the journal.                                       *)

\* A primitive step of a call on an account journals only changes of accounts.
LEMMA PrimitiveExtends ==
    ASSUME NEW s \in Threaded, NEW a \in Addr, NEW r, Primitive(s, r, a)
    PROVE  /\ r \in Threaded
           /\ s.journal.entries \in Seq(Entry) /\ r.journal.entries \in Seq(Entry)
           /\ Extends(s.journal.entries, r.journal.entries, TxKinds)
<1> DEFINE es == s.journal.entries
<1>0. r \in Threaded /\ s.journal \in JournalType /\ es \in Seq(Entry) /\ r.journal.entries \in Seq(Entry)
  BY PrimitiveType DEF Threaded, JournalType
<1>1. CASE r.journal = s.journal
  BY <1>0, <1>1, ExtendsAppend
<1>2. CASE \E e \in Entry : e.kind \notin TxKinds /\ r.journal.entries = Append(es, e)
  BY <1>0, <1>2, ExtendsAppend
<1>3. CASE Touches(s, r, a)
  <2> DEFINE t == append(s.journal, [kind |-> "touch", account |-> a])
  <2>1. [kind |-> "touch", account |-> a] \in Entry
    BY EntryTypes
  <2>2. t \in JournalType /\ t.entries = Append(es, [kind |-> "touch", account |-> a])
    BY <1>0, <2>1, AppendType
  <2>3. r.journal = IF a = Ripemd THEN dirty(t, a) ELSE t
    BY <1>3 DEF Touches, Fields, TouchJournal
  <2> HIDE DEF t
  <2>4. r.journal.entries = t.entries
    BY <2>2, <2>3, DirtyType
  <2> QED BY <1>2, <2>1, <2>2, <2>4 DEF TxKinds
<1>4. CASE Creates(s, r, a)
  <2>1. CreateEntry(a) \in Entry /\ CreateEntry(a).kind = "createObject"
    BY EntryTypes DEF CreateEntry
  <2>2. r.journal.entries = Append(es, CreateEntry(a))
    BY <1>0, <1>4, <2>1, AppendType DEF Creates, Fields
  <2> QED BY <1>2, <2>1, <2>2 DEF TxKinds
<1>5. CASE Resets(s, r, a)
  <2>1. s.objs[a] \in Object /\ (a \in s.destruct) \in BOOLEAN
    BY <1>5 DEF Resets, Threaded, ObjectMap
  <2>2. ResetEntry(s, a) \in Entry /\ ResetEntry(s, a).kind = "resetObject"
    BY <2>1, EntryTypes DEF ResetEntry
  <2>3. r.journal.entries = Append(es, ResetEntry(s, a))
    BY <1>0, <1>5, <2>2, AppendType DEF Resets, Fields
  <2> QED BY <1>2, <2>2, <2>3 DEF TxKinds
<1>6. CASE Changes(s, r, a)
  <2>1. PICK e \in Entry, o \in Object : Records(s, a, e, o) /\ r.journal = append(s.journal, e)
    BY <1>6 DEF Changes, Fields
  <2>2. e.kind \notin TxKinds
    BY <2>1 DEF Records, TxKinds
  <2>3. r.journal.entries = Append(es, e)
    BY <1>0, <2>1, AppendType
  <2> QED BY <1>2, <2>2, <2>3
<1>7. Extends(es, r.journal.entries, TxKinds)
  BY <1>1, <1>3, <1>4, <1>5, <1>6 DEF Primitive, Fails, Marks, Loads, Caches, Fields
<1> QED BY <1>0, <1>7

\* So does a whole call.
LEMMA CallExtends ==
    ASSUME IInv, NEW a \in Addr, CallRuns(a)
    PROVE  /\ journal.entries \in Seq(Entry) /\ journal'.entries \in Seq(Entry)
           /\ Extends(journal.entries, journal'.entries, TxKinds)
           /\ Idle /\ UNCHANGED <<validRevisions, nextRevisionId, reverting>>
<1>0. State \in Threaded /\ State.journal = journal
  BY StateType DEF IInv, State
<1>1. PICK r : Runs(r, a) /\ Put(r)
  BY DEF CallRuns
<1>2. PICK s1, s2, s3, s4, s5 :
         /\ Primitive(State, s1, a) /\ Primitive(s1, s2, a) /\ Primitive(s2, s3, a)
         /\ Primitive(s3, s4, a) /\ Primitive(s4, s5, a) /\ Primitive(s5, r, a)
  BY <1>1 DEF Runs, Finds, Works
<1> DEFINE E(s) == s.journal.entries
<1>3. s1 \in Threaded /\ E(State) \in Seq(Entry) /\ E(s1) \in Seq(Entry) /\ Extends(E(State), E(s1), TxKinds)
  BY <1>0, <1>2, PrimitiveExtends
<1>4. s2 \in Threaded /\ E(s2) \in Seq(Entry) /\ Extends(E(s1), E(s2), TxKinds)
  BY <1>2, <1>3, PrimitiveExtends
<1>5. s3 \in Threaded /\ E(s3) \in Seq(Entry) /\ Extends(E(s2), E(s3), TxKinds)
  BY <1>2, <1>4, PrimitiveExtends
<1>6. s4 \in Threaded /\ E(s4) \in Seq(Entry) /\ Extends(E(s3), E(s4), TxKinds)
  BY <1>2, <1>5, PrimitiveExtends
<1>7. s5 \in Threaded /\ E(s5) \in Seq(Entry) /\ Extends(E(s4), E(s5), TxKinds)
  BY <1>2, <1>6, PrimitiveExtends
<1>8. E(r) \in Seq(Entry) /\ Extends(E(s5), E(r), TxKinds)
  BY <1>2, <1>7, PrimitiveExtends
<1> HIDE DEF E
<1>9. Extends(E(State), E(s2), TxKinds)
  BY <1>3, <1>4, ExtendsTwice
<1>10. Extends(E(State), E(s3), TxKinds)
  BY <1>3, <1>4, <1>5, <1>9, ExtendsTwice
<1>11. Extends(E(State), E(s4), TxKinds)
  BY <1>3, <1>5, <1>6, <1>10, ExtendsTwice
<1>12. Extends(E(State), E(s5), TxKinds)
  BY <1>3, <1>6, <1>7, <1>11, ExtendsTwice
<1>13. Extends(E(State), E(r), TxKinds)
  BY <1>3, <1>7, <1>8, <1>12, ExtendsTwice
<1>14. E(State) = journal.entries /\ E(r) = journal'.entries
  BY <1>0, <1>1, CallEnd DEF E
<1> QED BY <1>1, <1>3, <1>8, <1>13, <1>14, CallEnd
-----------------------------------------------------------------------------
(* The access list.                                                        *)

\* Every step keeps the access list in order.
LEMMA AccessListStep ==
    ASSUME IInv, [Next]_vars, AccessListOrdered(accessList, journal.entries)
    PROVE  AccessListOrdered(accessList', journal'.entries)
<1> DEFINE es == journal.entries
           fs == journal'.entries
<1>0. journal \in JournalType /\ es \in Seq(Entry) /\ Len(es) \in Nat
      /\ accessList \in AccessListType /\ AL!WellFormedAccessList(accessList)
  BY DEF IInv, TypeOK, JournalTypeOK, JournalType, AccessListOrdered
<1>1. CASE \E a \in Addr : CallRuns(a) /\ UNCHANGED txVars
  <2>1. /\ es \in Seq(Entry) /\ fs \in Seq(Entry) /\ Extends(es, fs, TxKinds)
    BY <1>1, CallExtends
  <2>2. Extends(es, fs, AccessListKinds)
    BY <2>1 DEF Extends, TxKinds, AccessListKinds
  <2>3. accessList' = accessList
    BY <1>1 DEF txVars
  <2> HIDE DEF es, fs
  <2>4. AccessListOrdered(accessList, fs)
    BY <2>1, <2>2, ListAppendOther DEF es
  <2> QED BY <2>3, <2>4 DEF fs
<1>2. CASE TxSetter /\ UNCHANGED accountVars
  <2>1. TxTypeOK /\ journal \in JournalOf(Entry) /\ TxEntry \subseteq Entry
    BY <1>0 DEF IInv, TypeOK, JournalType, JournalOf, TxEntry
  <2> QED BY <1>2, <2>1, TxSetterOrdered
<1>3. CASE UndoesEntry
  <2>1. /\ journal' = pop(journal) /\ es # <<>> /\ LastEntry \in Entry /\ LastEntry = es[Len(es)]
    BY <1>3, UndoPops
  <2>2. CASE TxUndo
    <3>1. journal \in JournalOf(Entry)
      BY <1>0 DEF JournalType, JournalOf
    <3> QED BY <2>1, <2>2, <3>1, TxUndoOrdered
  <2>3. CASE AccountUndo /\ UNCHANGED txVars
    <3>1. accessList' = accessList /\ LastEntry.kind \notin AccessListKinds
      BY <2>3 DEF AccountUndo, UndoCreateObject, UndoResetObject, UndoSuicide, UndoTouch,
         UndoBalance, UndoNonce, UndoCode, UndoStorage, UndoField, Undo, txVars, AccessListKinds
    <3>2. /\ fs \in Seq(Entry) /\ Len(es) = Len(fs) + 1 /\ \A i \in 1..Len(fs) : fs[i] = es[i]
      BY <1>0, <2>1, PopType DEF JournalType
    <3> HIDE DEF es, fs
    <3>3. AccessListOrdered(accessList, fs)
      BY <1>0, <2>1, <3>1, <3>2, ListPopOther DEF es
    <3> QED BY <3>1, <3>3 DEF fs
  <2> QED BY <1>3, <2>2, <2>3 DEF UndoesEntry
<1>4. CASE ClearsJournal
  <2>1. fs = <<>> /\ accessList' = accessList
    BY <1>4, ClearsToEmpty
  <2>2. <<>> \in Seq(Entry) /\ \A i \in 1..Len(<<>>) : <<>>[i].kind \notin AccessListKinds
    OBVIOUS
  <2>3. AccessListOrdered(accessList, <<>>)
    BY <1>0, <2>2, OrderedWithout
  <2> QED BY <2>1, <2>3
<1>5. CASE KeepsJournal
  BY <1>5 DEF KeepsJournal, txVars
<1> QED BY <1>1, <1>2, <1>3, <1>4, <1>5, StepCases

\* The access list is in order in every state.
LEMMA AccessListInvariance == Spec => []AccessListOrdered(accessList, journal.entries)
<1> DEFINE I == AccessListOrdered(accessList, journal.entries)
<1>1. Init => I
  <2> SUFFICES ASSUME Init PROVE I
    OBVIOUS
  <2>1. accessList = [addresses |-> [w \in Warm |-> Nil], slots |-> <<>>] /\ journal.entries = <<>>
    BY DEF Init, TxInit, JournalInit, newJournal, AL!newAccessList
  <2>2. accessList \in AccessListType
    BY InitInv DEF IInv, TypeOK, TxTypeOK, AccessListType
  <2>3. AL!WellFormedAccessList(accessList)
    BY <2>1 DEF AL!WellFormedAccessList
  <2>4. <<>> \in Seq(Entry) /\ \A i \in 1..Len(<<>>) : <<>>[i].kind \notin AccessListKinds
    OBVIOUS
  <2> QED BY <2>1, <2>2, <2>3, <2>4, OrderedWithout
<1>2. IInv /\ I /\ [Next]_vars => I'
  BY AccessListStep
<1> HIDE DEF I
<1>3. Spec => []I
  BY <1>1, <1>2, Invariance, PTL DEF Spec
<1> QED BY <1>3 DEF I

\* Over every sequence of additions, snapshots, partial reverts and ends of
\* transactions the access list is well formed and the next revert of it safe:
\* DeleteSlot finds its slot set and cuts off no other, and an address is
\* deleted only when its slots are gone.
THEOREM AccessListAlwaysSound == Spec => []AccessListSound
<1> DEFINE I == AccessListOrdered(accessList, journal.entries)
<1>1. IInv /\ I => AccessListSound
  <2> SUFFICES ASSUME IInv, I PROVE AccessListSound
    OBVIOUS
  <2>1. AccessListWellFormed
    BY DEF AccessListOrdered, AccessListWellFormed
  <2>2. ASSUME Undoing PROVE
           /\ LastEntry.kind = "accessListAddSlot" =>
                 /\ AL!CanDeleteSlot(accessList, LastEntry.address)
                 /\ LastEntry.slot \in AL!SlotSet(accessList, LastEntry.address)
           /\ LastEntry.kind = "accessListAddAccount" =>
                 accessList.addresses[LastEntry.address] = -1
    <3> DEFINE es == journal.entries
               fs == pop(journal).entries
    <3>1. /\ journal \in JournalType /\ es # <<>> /\ LastEntry \in Entry /\ LastEntry = es[Len(es)]
      BY <2>2, LastEntryType DEF IInv, TypeOK
    <3>2. /\ es \in Seq(Entry) /\ fs \in Seq(Entry) /\ Len(es) = Len(fs) + 1
          /\ \A i \in 1..Len(fs) : fs[i] = es[i]
      BY <3>1, PopType DEF JournalType
    <3> HIDE DEF es, fs
    <3>3. ASSUME LastEntry.kind = "accessListAddSlot"
          PROVE  /\ AL!CanDeleteSlot(accessList, LastEntry.address)
                 /\ LastEntry.slot \in AL!SlotSet(accessList, LastEntry.address)
      <4>1. /\ LastEntry.address \in Warm /\ LastEntry.slot \in Slot
            /\ AddsSlot(es[Len(es)], LastEntry.address, LastEntry.slot)
        BY <3>1, <3>3, EntryFields DEF AddsSlot
      <4> QED BY <3>2, <4>1, OrderedDeleteSlot DEF es
    <3>4. ASSUME LastEntry.kind = "accessListAddAccount"
          PROVE  accessList.addresses[LastEntry.address] = -1
      <4>1. LastEntry.address \in Warm /\ AddsAccount(es[Len(es)], LastEntry.address)
        BY <3>1, <3>4, EntryFields DEF AddsAccount
      <4> QED BY <3>2, <4>1, OrderedDeleteAddress DEF es
    <3> QED BY <3>3, <3>4
  <2> QED BY <2>1, <2>2 DEF AccessListSound, AccessListRevertSafe
<1>2. Spec => []I
  BY AccessListInvariance
<1> HIDE DEF I
<1> QED BY <1>1, <1>2, Invariance, PTL

-----------------------------------------------------------------------------
(* The numbers of the logs.                                                *)

LogsInRange(lg, n) ==
    \A t \in TxHash : \A i \in 1..Len(lg[t]) : lg[t][i] \in 0..(n - 1) /\ i - 1 <= lg[t][i]

LogsAscending(lg) ==
    \A t \in TxHash : \A i, j \in 1..Len(lg[t]) : i < j => lg[t][i] < lg[t][j]

LogsDistinct(lg) ==
    \A t, u \in TxHash : \A i \in 1..Len(lg[t]), j \in 1..Len(lg[u]) :
        lg[t][i] = lg[u][j] => t = u

LogsComplete(lg, n) ==
    \A q \in 0..(n - 1) : \E t \in TxHash : \E i \in 1..Len(lg[t]) : lg[t][i] = q

\* The logs of all transactions are numbered without gaps and in order.
LogsNumbered(lg, n) ==
    /\ lg \in [TxHash -> Seq(Int)]
    /\ n \in Nat
    /\ LogsInRange(lg, n)
    /\ LogsAscending(lg)
    /\ LogsDistinct(lg)
    /\ LogsComplete(lg, n)

\* The entry turns the number of logs from m into n.
CountsLog(lg, e, m, n) ==
    IF e.kind = "addLog"
    THEN n = m + 1 /\ \E p \in 1..Len(lg[e.txhash]) : lg[e.txhash][p] = m
    ELSE n = m

\* at[i] is the number of logs when the journal had i entries.
LogCounts(lg, n, es, at) ==
    /\ at \in [0..Len(es) -> Nat]
    /\ at[Len(es)] = n
    /\ \A i, j \in 0..Len(es) : i <= j => at[i] <= at[j]
    /\ \A i \in 1..Len(es) : CountsLog(lg, es[i], at[i - 1], at[i])

LogsRecorded(lg, n, es) == LogsNumbered(lg, n) /\ \E at : LogCounts(lg, n, es, at)

\* Entries of other kinds make no difference to the logs, when they are
\* appended ...
LEMMA LogsAppendOther ==
    ASSUME NEW lg, NEW n, NEW es \in Seq(Entry), NEW fs \in Seq(Entry),
           Extends(es, fs, {"addLog"}), LogsRecorded(lg, n, es)
    PROVE  LogsRecorded(lg, n, fs)
<1>0. Len(es) \in Nat /\ Len(fs) \in Nat /\ Len(es) <= Len(fs) /\ n \in Nat
  BY DEF Extends, LogsRecorded, LogsNumbered
<1>1. PICK at : LogCounts(lg, n, es, at)
  BY DEF LogsRecorded
<1> DEFINE bt == [i \in 0..Len(fs) |-> IF i <= Len(es) THEN at[i] ELSE n]
<1>2. /\ bt \in [0..Len(fs) -> Nat] /\ bt[Len(fs)] = n
      /\ \A i \in 0..Len(es) : bt[i] = at[i]
      /\ \A i \in Len(es)..Len(fs) : bt[i] = n
  BY <1>0, <1>1 DEF LogCounts
<1> HIDE DEF bt
<1>3. ASSUME NEW i \in 0..Len(fs), NEW j \in 0..Len(fs), i <= j
      PROVE  bt[i] <= bt[j]
  <2>1. CASE j \in 0..Len(es)
    <3>1. i \in 0..Len(es)
      BY <1>0, <1>3, <2>1
    <3>2. at[i] <= at[j]
      BY <1>1, <1>3, <2>1, <3>1 DEF LogCounts
    <3> QED BY <1>2, <2>1, <3>1, <3>2
  <2>2. CASE j \notin 0..Len(es)
    <3>1. bt[j] = n
      BY <1>0, <1>2, <2>2
    <3>2. bt[i] <= n
      <4>1. CASE i \in 0..Len(es)
        <5>1. at[i] <= at[Len(es)]
          BY <1>0, <1>1, <4>1 DEF LogCounts
        <5> QED BY <1>1, <1>2, <4>1, <5>1 DEF LogCounts
      <4>2. CASE i \notin 0..Len(es)
        BY <1>0, <1>2, <4>2
      <4> QED BY <4>1, <4>2
    <3> QED BY <3>1, <3>2
  <2> QED BY <2>1, <2>2
<1>4. ASSUME NEW i \in 1..Len(fs)
      PROVE  CountsLog(lg, fs[i], bt[i - 1], bt[i])
  <2>1. CASE i \in 1..Len(es)
    <3>1. fs[i] = es[i] /\ bt[i] = at[i] /\ bt[i - 1] = at[i - 1]
      BY <1>0, <1>2, <2>1 DEF Extends
    <3> QED BY <1>1, <2>1, <3>1 DEF LogCounts
  <2>2. CASE i \notin 1..Len(es)
    <3>1. fs[i].kind # "addLog" /\ bt[i] = n /\ bt[i - 1] = n
      BY <1>0, <1>2, <2>2 DEF Extends
    <3> QED BY <3>1 DEF CountsLog
  <2> QED BY <2>1, <2>2
<1>5. LogCounts(lg, n, fs, bt)
  BY <1>2, <1>3, <1>4 DEF LogCounts
<1> QED BY <1>5 DEF LogsRecorded

\* ... and when they are reverted.
LEMMA LogsPopOther ==
    ASSUME NEW lg, NEW n, NEW es \in Seq(Entry), NEW fs \in Seq(Entry),
           Len(es) = Len(fs) + 1, \A i \in 1..Len(fs) : fs[i] = es[i],
           es[Len(es)].kind # "addLog", LogsRecorded(lg, n, es)
    PROVE  LogsRecorded(lg, n, fs)
<1>0. Len(es) \in Nat /\ Len(fs) \in Nat
  OBVIOUS
<1>1. PICK at : LogCounts(lg, n, es, at)
  BY DEF LogsRecorded
<1> DEFINE bt == [i \in 0..Len(fs) |-> at[i]]
<1>2. /\ bt \in [0..Len(fs) -> Nat]
      /\ \A i \in 0..Len(fs) : bt[i] = at[i] /\ i \in 0..Len(es)
  BY <1>0, <1>1 DEF LogCounts
<1> HIDE DEF bt
<1>3. at[Len(es)] = at[Len(fs)] /\ bt[Len(fs)] = n
  <2>1. Len(es) \in 1..Len(es) /\ Len(es) - 1 = Len(fs)
    BY <1>0
  <2>2. at[Len(es)] = at[Len(es) - 1]
    BY <1>1, <2>1 DEF LogCounts, CountsLog
  <2> QED BY <1>0, <1>1, <1>2, <2>1, <2>2 DEF LogCounts
<1>4. \A i \in 1..Len(fs) : i \in 1..Len(es) /\ fs[i] = es[i] /\ bt[i] = at[i] /\ bt[i - 1] = at[i - 1]
  BY <1>0, <1>2
<1>5. \A i \in 1..Len(fs) : CountsLog(lg, fs[i], bt[i - 1], bt[i])
  BY <1>1, <1>4 DEF LogCounts
<1>6. \A i, j \in 0..Len(fs) : i <= j => bt[i] <= bt[j]
  BY <1>1, <1>2 DEF LogCounts
<1>7. LogCounts(lg, n, fs, bt)
  BY <1>2, <1>3, <1>5, <1>6 DEF LogCounts
<1> QED BY <1>7 DEF LogsRecorded

\* AddLog continues the numbering.
LEMMA LogsAdd ==
    ASSUME NEW lg, NEW n, NEW es \in Seq(Entry), NEW t \in TxHash, LogsRecorded(lg, n, es)
    PROVE  LogsRecorded([lg EXCEPT ![t] = Append(@, n)], n + 1,
                        Append(es, [kind |-> "addLog", txhash |-> t]))
<1> DEFINE e == [kind |-> "addLog", txhash |-> t]
           fs == Append(es, e)
           mg == [lg EXCEPT ![t] = Append(@, n)]
<1>0. /\ Len(es) \in Nat /\ n \in Nat /\ lg \in [TxHash -> Seq(Int)] /\ LogsNumbered(lg, n)
      /\ \A u \in TxHash : lg[u] \in Seq(Int) /\ Len(lg[u]) \in Nat
  BY DEF LogsRecorded, LogsNumbered
<1>1. PICK at : LogCounts(lg, n, es, at)
  BY DEF LogsRecorded
<1>2. /\ Len(fs) = Len(es) + 1 /\ fs[Len(es) + 1] = e /\ \A i \in 1..Len(es) : fs[i] = es[i]
      /\ e.kind = "addLog" /\ e.txhash = t
  OBVIOUS
<1>3. /\ mg \in [TxHash -> Seq(Int)] /\ Len(mg[t]) = Len(lg[t]) + 1 /\ mg[t][Len(lg[t]) + 1] = n
      /\ \A i \in 1..Len(lg[t]) : mg[t][i] = lg[t][i]
      /\ \A u \in TxHash \ {t} : mg[u] = lg[u]
  BY <1>0
<1> HIDE DEF e, fs, mg
<1>4. ASSUME NEW u \in TxHash, NEW i \in 1..Len(mg[u])
      PROVE  \/ i \in 1..Len(lg[u]) /\ mg[u][i] = lg[u][i]
             \/ u = t /\ i = Len(lg[t]) + 1 /\ mg[u][i] = n
  <2>1. CASE u = t
    <3>1. i \in 1..Len(lg[t]) \/ i = Len(lg[t]) + 1
      BY <1>0, <1>3, <2>1
    <3> QED BY <1>3, <2>1, <3>1
  <2>2. CASE u # t
    BY <1>3, <2>2
  <2> QED BY <2>1, <2>2
<1>5. ASSUME NEW u \in TxHash, NEW i \in 1..Len(lg[u])
      PROVE  i \in 1..Len(mg[u]) /\ mg[u][i] = lg[u][i]
  <2>1. CASE u = t
    <3>1. i \in 1..Len(mg[t])
      BY <1>0, <1>3, <2>1
    <3> QED BY <1>3, <2>1, <3>1
  <2>2. CASE u # t
    BY <1>3, <2>2
  <2> QED BY <2>1, <2>2
<1>6. Len(lg[t]) <= n
  <2>1. CASE Len(lg[t]) = 0
    BY <1>0, <2>1
  <2>2. CASE Len(lg[t]) # 0
    <3>1. Len(lg[t]) \in 1..Len(lg[t])
      BY <1>0, <2>2
    <3>2. lg[t][Len(lg[t])] \in 0..(n - 1) /\ Len(lg[t]) - 1 <= lg[t][Len(lg[t])]
      BY <1>0, <3>1 DEF LogsNumbered, LogsInRange, LogsAscending, LogsDistinct, LogsComplete
    <3> QED BY <1>0, <3>2
  <2> QED BY <2>1, <2>2
<1>7. LogsNumbered(mg, n + 1)
  <2>1. ASSUME NEW u \in TxHash, NEW i \in 1..Len(mg[u])
        PROVE  mg[u][i] \in 0..((n + 1) - 1) /\ i - 1 <= mg[u][i]
    <3>1. CASE i \in 1..Len(lg[u]) /\ mg[u][i] = lg[u][i]
      <4>1. lg[u][i] \in 0..(n - 1) /\ i - 1 <= lg[u][i]
        BY <1>0, <3>1 DEF LogsNumbered, LogsInRange, LogsAscending, LogsDistinct, LogsComplete
      <4> QED BY <1>0, <3>1, <4>1
    <3>2. CASE u = t /\ i = Len(lg[t]) + 1 /\ mg[u][i] = n
      BY <1>0, <1>6, <3>2
    <3> QED BY <1>4, <3>1, <3>2
  <2>2. ASSUME NEW u \in TxHash, NEW i \in 1..Len(mg[u]), NEW j \in 1..Len(mg[u]), i < j
        PROVE  mg[u][i] < mg[u][j]
    <3>1. i \in 1..Len(lg[u]) /\ mg[u][i] = lg[u][i]
      <4>1. CASE i \in 1..Len(lg[u]) /\ mg[u][i] = lg[u][i]
        BY <4>1
      <4>2. CASE u = t /\ i = Len(lg[t]) + 1
        BY <1>0, <1>3, <2>2, <4>2
      <4> QED BY <1>4, <4>1, <4>2
    <3>2. CASE j \in 1..Len(lg[u]) /\ mg[u][j] = lg[u][j]
      BY <1>0, <2>2, <3>1, <3>2 DEF LogsNumbered, LogsInRange, LogsAscending, LogsDistinct, LogsComplete
    <3>3. CASE mg[u][j] = n
      <4>1. lg[u][i] \in 0..(n - 1)
        BY <1>0, <3>1 DEF LogsNumbered, LogsInRange, LogsAscending, LogsDistinct, LogsComplete
      <4> QED BY <1>0, <3>1, <3>3, <4>1
    <3> QED BY <1>4, <3>2, <3>3
  <2>3. ASSUME NEW u \in TxHash, NEW v \in TxHash, NEW i \in 1..Len(mg[u]), NEW j \in 1..Len(mg[v]),
               mg[u][i] = mg[v][j]
        PROVE  u = v
    <3>1. \A z \in TxHash : \A k \in 1..Len(lg[z]) : lg[z][k] # n
      BY <1>0 DEF LogsNumbered, LogsInRange, LogsAscending, LogsDistinct, LogsComplete
    <3>2. CASE i \in 1..Len(lg[u]) /\ mg[u][i] = lg[u][i] /\ j \in 1..Len(lg[v]) /\ mg[v][j] = lg[v][j]
      <4>1. lg[u][i] = lg[v][j]
        BY <2>3, <3>2
      <4> QED BY <1>0, <3>2, <4>1 DEF LogsNumbered, LogsInRange, LogsAscending, LogsDistinct, LogsComplete
    <3>3. (i \in 1..Len(lg[u]) /\ mg[u][i] = lg[u][i]) \/ (u = t /\ mg[u][i] = n)
      BY <1>4
    <3>4. (j \in 1..Len(lg[v]) /\ mg[v][j] = lg[v][j]) \/ (v = t /\ mg[v][j] = n)
      BY <1>4
    <3> QED BY <2>3, <3>1, <3>2, <3>3, <3>4
  <2>4. ASSUME NEW q \in 0..((n + 1) - 1)
        PROVE  \E u \in TxHash : \E i \in 1..Len(mg[u]) : mg[u][i] = q
    <3>1. CASE q = n
      <4>1. Len(lg[t]) + 1 \in 1..Len(mg[t])
        BY <1>0, <1>3
      <4> QED BY <1>3, <3>1, <4>1
    <3>2. CASE q # n
      <4>1. q \in 0..(n - 1)
        BY <1>0, <3>2
      <4>2. PICK u \in TxHash : \E i \in 1..Len(lg[u]) : lg[u][i] = q
        BY <1>0, <4>1 DEF LogsNumbered, LogsInRange, LogsAscending, LogsDistinct, LogsComplete
      <4>3. PICK i \in 1..Len(lg[u]) : lg[u][i] = q
        BY <4>2
      <4> QED BY <1>5, <4>3
    <3> QED BY <3>1, <3>2
  <2>5. n + 1 \in Nat
    BY <1>0
  <2>6. LogsInRange(mg, n + 1)
    BY <2>1 DEF LogsInRange
  <2>7. LogsAscending(mg)
    BY <2>2 DEF LogsAscending
  <2>8. LogsDistinct(mg)
    BY <2>3 DEF LogsDistinct
  <2>9. LogsComplete(mg, n + 1)
    BY <2>4 DEF LogsComplete
  <2> QED BY <1>3, <2>5, <2>6, <2>7, <2>8, <2>9 DEF LogsNumbered
<1> DEFINE bt == [i \in 0..Len(fs) |-> IF i <= Len(es) THEN at[i] ELSE n + 1]
<1>8. /\ bt \in [0..Len(fs) -> Nat] /\ bt[Len(fs)] = n + 1
      /\ \A i \in 0..Len(es) : bt[i] = at[i]
  BY <1>0, <1>1, <1>2 DEF LogCounts
<1> HIDE DEF bt
<1>9. ASSUME NEW i \in 0..Len(fs), NEW j \in 0..Len(fs), i <= j
      PROVE  bt[i] <= bt[j]
  <2>1. CASE j \in 0..Len(es)
    <3>1. i \in 0..Len(es)
      BY <1>0, <1>9, <2>1
    <3>2. at[i] <= at[j]
      BY <1>1, <1>9, <2>1, <3>1 DEF LogCounts
    <3> QED BY <1>8, <2>1, <3>1, <3>2
  <2>2. CASE j = Len(fs)
    <3>1. CASE i \in 0..Len(es)
      <4>0. Len(es) \in 0..Len(es) /\ i <= Len(es)
        BY <1>0, <3>1
      <4>1. at[i] <= at[Len(es)] /\ at[i] \in Nat
        BY <1>1, <3>1, <4>0 DEF LogCounts
      <4> QED BY <1>0, <1>1, <1>8, <2>2, <3>1, <4>1 DEF LogCounts
    <3>2. CASE i = Len(fs)
      BY <1>0, <1>8, <2>2, <3>2
    <3> QED BY <1>0, <1>2, <3>1, <3>2
  <2> QED BY <1>0, <1>2, <2>1, <2>2
<1>10. ASSUME NEW i \in 1..Len(fs)
       PROVE  CountsLog(mg, fs[i], bt[i - 1], bt[i])
  <2>1. CASE i \in 1..Len(es)
    <3>0. i \in 0..Len(es) /\ i - 1 \in 0..Len(es)
      BY <1>0, <2>1
    <3>1. fs[i] = es[i] /\ bt[i] = at[i] /\ bt[i - 1] = at[i - 1]
      BY <1>2, <1>8, <2>1, <3>0
    <3>2. es[i] \in Entry
      BY <2>1
    <3>3. es[i].kind = "addLog" => es[i].txhash \in TxHash
      BY <3>2, EntryFields
    <3>4. CountsLog(lg, es[i], at[i - 1], at[i])
      BY <1>1, <2>1 DEF LogCounts
    <3>5. CASE es[i].kind = "addLog"
      BY <1>5, <3>1, <3>3, <3>4, <3>5 DEF CountsLog
    <3>6. CASE es[i].kind # "addLog"
      BY <3>1, <3>4, <3>6 DEF CountsLog
    <3> QED BY <3>5, <3>6
  <2>2. CASE i = Len(fs)
    <3>1. fs[i] = e /\ bt[i] = n + 1 /\ bt[i - 1] = n
      <4>1. i - 1 = Len(es) /\ Len(es) \in 0..Len(es)
        BY <1>0, <1>2, <2>2
      <4> QED BY <1>1, <1>2, <1>8, <2>2, <4>1 DEF LogCounts
    <3>2. Len(lg[t]) + 1 \in 1..Len(mg[t])
      BY <1>0, <1>3
    <3> QED BY <1>2, <1>3, <3>1, <3>2 DEF CountsLog
  <2> QED BY <1>0, <1>2, <2>1, <2>2
<1>11. LogCounts(mg, n + 1, fs, bt)
  BY <1>8, <1>9, <1>10 DEF LogCounts
<1>12. LogsRecorded(mg, n + 1, fs)
  BY <1>7, <1>11 DEF LogsRecorded
<1> QED BY <1>12 DEF mg, fs, e

\* The last entry, if it is of a log, can be reverted: it is the last log of
\* its transaction and has the highest number.
LEMMA LogsRemove ==
    ASSUME NEW lg, NEW n, NEW es \in Seq(Entry), NEW fs \in Seq(Entry), NEW t \in TxHash,
           Len(es) = Len(fs) + 1, \A i \in 1..Len(fs) : fs[i] = es[i],
           es[Len(es)].kind = "addLog", es[Len(es)].txhash = t, LogsRecorded(lg, n, es)
    PROVE  LogsRecorded([lg EXCEPT ![t] = SubSeq(@, 1, Len(@) - 1)], n - 1, fs)
<1> DEFINE mg == [lg EXCEPT ![t] = SubSeq(@, 1, Len(@) - 1)]
           l == Len(lg[t])
<1>0. /\ Len(es) \in Nat /\ Len(fs) \in Nat /\ n \in Nat /\ lg \in [TxHash -> Seq(Int)]
      /\ LogsNumbered(lg, n)
      /\ \A u \in TxHash : lg[u] \in Seq(Int) /\ Len(lg[u]) \in Nat
  BY DEF LogsRecorded, LogsNumbered
<1>1. PICK at : LogCounts(lg, n, es, at)
  BY DEF LogsRecorded
<1>2. at[Len(es)] = n /\ at[Len(fs)] = n - 1 /\ n - 1 \in Nat
      /\ \E p \in 1..Len(lg[t]) : lg[t][p] = n - 1
  <2>1. Len(es) \in 1..Len(es) /\ Len(es) - 1 = Len(fs) /\ Len(fs) \in 0..Len(es)
    BY <1>0
  <2>2. CountsLog(lg, es[Len(es)], at[Len(fs)], at[Len(es)])
    BY <1>1, <2>1 DEF LogCounts
  <2>3. at[Len(es)] = n /\ at[Len(fs)] \in Nat
    BY <1>1, <2>1 DEF LogCounts
  <2>4. n = at[Len(fs)] + 1 /\ \E p \in 1..Len(lg[t]) : lg[t][p] = at[Len(fs)]
    BY <2>2, <2>3 DEF CountsLog
  <2>5. at[Len(fs)] = n - 1
    BY <2>3, <2>4
  <2> QED BY <2>3, <2>4, <2>5
<1>3. l \in 1..l /\ lg[t][l] = n - 1
  <2>1. PICK p \in 1..l : lg[t][p] = n - 1
    BY <1>2
  <2>2. l \in 1..l
    BY <1>0, <2>1
  <2>3. p = l
    <3>1. lg[t][l] \in 0..(n - 1)
      BY <1>0, <2>2 DEF LogsNumbered, LogsInRange, LogsAscending, LogsDistinct, LogsComplete
    <3>2. p < l => lg[t][p] < lg[t][l]
      BY <1>0, <2>2 DEF LogsNumbered, LogsInRange, LogsAscending, LogsDistinct, LogsComplete
    <3>3. ~(p < l)
      BY <1>0, <2>1, <3>1, <3>2
    <3> QED BY <1>0, <2>2, <3>3
  <2> QED BY <2>1, <2>2, <2>3
<1>4. /\ mg \in [TxHash -> Seq(Int)] /\ Len(mg[t]) = l - 1
      /\ \A i \in 1..(l - 1) : mg[t][i] = lg[t][i]
      /\ \A u \in TxHash \ {t} : mg[u] = lg[u]
  <2>1. /\ SubSeq(lg[t], 1, l - 1) \in Seq(Int) /\ Len(SubSeq(lg[t], 1, l - 1)) = l - 1
        /\ \A i \in 1..(l - 1) : SubSeq(lg[t], 1, l - 1)[i] = lg[t][i]
    <3> DEFINE q == lg[t]
    <3>1. q \in Seq(Int) /\ l = Len(q) /\ l \in Nat /\ l # 0
      BY <1>0, <1>3
    <3> HIDE DEF q, l
    <3>2. /\ SubSeq(q, 1, l - 1) \in Seq(Int) /\ Len(SubSeq(q, 1, l - 1)) = l - 1
          /\ \A i \in 1..(l - 1) : SubSeq(q, 1, l - 1)[i] = q[i]
      BY <3>1
    <3> QED BY <3>2 DEF q
  <2> QED BY <1>0, <2>1
<1> HIDE DEF mg, l
<1>5. ASSUME NEW u \in TxHash, NEW i \in 1..Len(mg[u])
      PROVE  i \in 1..Len(lg[u]) /\ mg[u][i] = lg[u][i] /\ lg[u][i] \in 0..(n - 1 - 1)
  <2>1. CASE u = t
    <3>0. l \in Nat
      BY <1>0 DEF l
    <3>1. i \in 1..(l - 1) /\ i \in 1..l /\ i < l /\ mg[t][i] = lg[t][i]
      <4>1. i \in 1..(l - 1)
        BY <1>4, <2>1
      <4> QED BY <1>4, <3>0, <4>1
    <3>2. lg[t][i] < lg[t][l] /\ lg[t][i] \in 0..(n - 1)
      BY <1>0, <1>3, <3>1 DEF LogsNumbered, LogsInRange, LogsAscending, LogsDistinct, LogsComplete, l
    <3> QED BY <1>0, <1>2, <1>3, <2>1, <3>1, <3>2 DEF l
  <2>2. CASE u # t
    <3>1. i \in 1..Len(lg[u]) /\ mg[u][i] = lg[u][i]
      BY <1>4, <2>2
    <3>2. lg[u][i] \in 0..(n - 1)
      BY <1>0, <3>1 DEF LogsNumbered, LogsInRange, LogsAscending, LogsDistinct, LogsComplete
    <3>3. l \in 1..Len(lg[t])
      BY <1>3 DEF l
    <3>4. lg[u][i] # lg[t][l]
      BY <1>0, <2>2, <3>1, <3>3 DEF LogsNumbered, LogsInRange, LogsAscending, LogsDistinct, LogsComplete
    <3>5. lg[u][i] # n - 1
      BY <1>3, <3>4
    <3>6. lg[u][i] \in 0..(n - 1 - 1)
      <4> DEFINE z == lg[u][i]
      <4>1. z \in 0..(n - 1) /\ z # n - 1 /\ n \in Nat
        BY <1>0, <3>2, <3>5
      <4> HIDE DEF z
      <4>2. z \in 0..(n - 1 - 1)
        BY <4>1
      <4> QED BY <4>2 DEF z
    <3> QED BY <3>1, <3>6
  <2> QED BY <2>1, <2>2
<1>6. ASSUME NEW u \in TxHash, NEW i \in 1..Len(lg[u]), lg[u][i] # n - 1
      PROVE  i \in 1..Len(mg[u]) /\ mg[u][i] = lg[u][i]
  <2>1. CASE u = t
    <3>1. i \in 1..(l - 1)
      BY <1>0, <1>3, <1>6, <2>1 DEF l
    <3> QED BY <1>4, <2>1, <3>1
  <2>2. CASE u # t
    BY <1>4, <2>2
  <2> QED BY <2>1, <2>2
<1>7. LogsNumbered(mg, n - 1)
  <2>1. ASSUME NEW u \in TxHash, NEW i \in 1..Len(mg[u])
        PROVE  mg[u][i] \in 0..(n - 1 - 1) /\ i - 1 <= mg[u][i]
    <3>1. i \in 1..Len(lg[u]) /\ mg[u][i] = lg[u][i] /\ lg[u][i] \in 0..(n - 1 - 1)
      BY <1>5
    <3>2. i - 1 <= lg[u][i]
      BY <1>0, <3>1 DEF LogsNumbered, LogsInRange
    <3> QED BY <3>1, <3>2
  <2>2. ASSUME NEW u \in TxHash, NEW i \in 1..Len(mg[u]), NEW j \in 1..Len(mg[u]), i < j
        PROVE  mg[u][i] < mg[u][j]
    <3>1. /\ i \in 1..Len(lg[u]) /\ mg[u][i] = lg[u][i]
          /\ j \in 1..Len(lg[u]) /\ mg[u][j] = lg[u][j]
      BY <1>5
    <3> QED BY <1>0, <2>2, <3>1 DEF LogsNumbered, LogsAscending
  <2>3. ASSUME NEW u \in TxHash, NEW v \in TxHash, NEW i \in 1..Len(mg[u]), NEW j \in 1..Len(mg[v]),
               mg[u][i] = mg[v][j]
        PROVE  u = v
    <3>1. i \in 1..Len(lg[u]) /\ j \in 1..Len(lg[v]) /\ lg[u][i] = lg[v][j]
      BY <1>5, <2>3
    <3> QED BY <1>0, <3>1 DEF LogsNumbered, LogsInRange, LogsAscending, LogsDistinct, LogsComplete
  <2>5. ASSUME NEW q \in 0..(n - 1 - 1)
        PROVE  \E u \in TxHash : \E i \in 1..Len(mg[u]) : mg[u][i] = q
    <3>1. q \in 0..(n - 1) /\ q # n - 1
      BY <1>0
    <3>2. PICK u \in TxHash : \E i \in 1..Len(lg[u]) : lg[u][i] = q
      BY <1>0, <3>1 DEF LogsNumbered, LogsInRange, LogsAscending, LogsDistinct, LogsComplete
    <3>3. PICK i \in 1..Len(lg[u]) : lg[u][i] = q
      BY <3>2
    <3> QED BY <1>6, <3>1, <3>3
  <2>6. LogsInRange(mg, n - 1)
    BY <2>1 DEF LogsInRange
  <2>7. LogsAscending(mg)
    BY <2>2 DEF LogsAscending
  <2>8. LogsDistinct(mg)
    BY <2>3 DEF LogsDistinct
  <2>9. LogsComplete(mg, n - 1)
    BY <2>5 DEF LogsComplete
  <2> QED BY <1>2, <1>4, <2>6, <2>7, <2>8, <2>9 DEF LogsNumbered
<1> DEFINE bt == [i \in 0..Len(fs) |-> at[i]]
<1>8. /\ bt \in [0..Len(fs) -> Nat]
      /\ \A i \in 0..Len(fs) : bt[i] = at[i] /\ i \in 0..Len(es)
      /\ bt[Len(fs)] = n - 1
  BY <1>0, <1>1, <1>2 DEF LogCounts
<1> HIDE DEF bt
<1>9. ASSUME NEW i \in 1..Len(fs)
      PROVE  CountsLog(mg, fs[i], bt[i - 1], bt[i])
  <2>0. i \in 1..Len(es) /\ i \in 0..Len(fs) /\ i - 1 \in 0..Len(fs) /\ fs[i] = es[i]
    BY <1>0
  <2>1. bt[i] = at[i] /\ bt[i - 1] = at[i - 1] /\ at[i - 1] \in Nat /\ at[i] \in Nat
    BY <1>8, <2>0
  <2>2. CountsLog(lg, es[i], at[i - 1], at[i])
    BY <1>1, <2>0 DEF LogCounts
  <2>3. CASE es[i].kind = "addLog"
    <3>1. es[i].txhash \in TxHash
      BY <2>0, <2>3, EntryFields
    <3>2. at[i] <= n - 1
      <4>1. i \in 0..Len(es) /\ Len(fs) \in 0..Len(es) /\ i <= Len(fs)
        BY <1>0
      <4>2. at[i] <= at[Len(fs)]
        BY <1>1, <4>1 DEF LogCounts
      <4> QED BY <1>2, <4>2
    <3>3. at[i] = at[i - 1] + 1 /\ \E p \in 1..Len(lg[es[i].txhash]) : lg[es[i].txhash][p] = at[i - 1]
      BY <2>2, <2>3 DEF CountsLog
    <3>4. at[i - 1] # n - 1
      BY <1>0, <2>1, <3>2, <3>3
    <3>5. PICK p \in 1..Len(lg[es[i].txhash]) : lg[es[i].txhash][p] = at[i - 1]
      BY <3>3
    <3>6. p \in 1..Len(mg[es[i].txhash]) /\ mg[es[i].txhash][p] = at[i - 1]
      BY <1>6, <3>1, <3>4, <3>5
    <3> QED BY <2>0, <2>1, <2>3, <3>3, <3>6 DEF CountsLog
  <2>4. CASE es[i].kind # "addLog"
    BY <2>0, <2>1, <2>2, <2>4 DEF CountsLog
  <2> QED BY <2>3, <2>4
<1>10. \A i, j \in 0..Len(fs) : i <= j => bt[i] <= bt[j]
  BY <1>1, <1>8 DEF LogCounts
<1>11. LogCounts(mg, n - 1, fs, bt)
  BY <1>8, <1>9, <1>10 DEF LogCounts
<1>12. LogsRecorded(mg, n - 1, fs)
  BY <1>7, <1>11 DEF LogsRecorded
<1> QED BY <1>12 DEF mg

\* Without a journal only the numbering is left.
LEMMA LogsWithout ==
    ASSUME NEW lg, NEW n, LogsNumbered(lg, n)
    PROVE  LogsRecorded(lg, n, <<>>)
<1> DEFINE at == [i \in 0..0 |-> n]
<1>1. n \in Nat /\ Len(<<>>) = 0
  BY DEF LogsNumbered, LogsInRange, LogsAscending, LogsDistinct, LogsComplete
<1>2. LogCounts(lg, n, <<>>, at)
  BY <1>1 DEF LogCounts
<1> QED BY <1>2 DEF LogsRecorded

\* Logs numbered so are the indices 0 to n - 1, each used once.
LEMMA NumberedContiguous ==
    ASSUME NEW lg, NEW n, LogsNumbered(lg, n)
    PROVE  LET Positions == {p \in TxHash \X (1..n) : p[2] <= Len(lg[p[1]])}
           IN /\ {lg[p[1]][p[2]] : p \in Positions} = 0..(n - 1)
              /\ Cardinality(Positions) = n
<1> DEFINE P == {p \in TxHash \X (1..n) : p[2] <= Len(lg[p[1]])}
           f == [p \in P |-> lg[p[1]][p[2]]]
<1>0. n \in Nat /\ \A u \in TxHash : Len(lg[u]) \in Nat
  BY DEF LogsNumbered, LogsInRange, LogsAscending, LogsDistinct, LogsComplete
<1>1. \A p \in P : p[1] \in TxHash /\ p[2] \in 1..Len(lg[p[1]]) /\ p = <<p[1], p[2]>>
  BY <1>0
<1>2. ASSUME NEW u \in TxHash, NEW i \in 1..Len(lg[u])
      PROVE  <<u, i>> \in P
  <2>1. lg[u][i] \in 0..(n - 1) /\ i - 1 <= lg[u][i]
    BY DEF LogsNumbered, LogsInRange, LogsAscending, LogsDistinct, LogsComplete
  <2>2. i \in 1..n /\ i <= Len(lg[u])
    BY <1>0, <2>1
  <2> QED BY <2>2
<1> HIDE DEF P
<1>3. \A p \in P : lg[p[1]][p[2]] \in 0..(n - 1)
  BY <1>1 DEF LogsNumbered, LogsInRange, LogsAscending, LogsDistinct, LogsComplete
<1>4. \A q \in 0..(n - 1) : \E p \in P : lg[p[1]][p[2]] = q
  <2> SUFFICES ASSUME NEW q \in 0..(n - 1) PROVE \E p \in P : lg[p[1]][p[2]] = q
    OBVIOUS
  <2>1. PICK u \in TxHash : \E i \in 1..Len(lg[u]) : lg[u][i] = q
    BY DEF LogsNumbered, LogsInRange, LogsAscending, LogsDistinct, LogsComplete
  <2>2. PICK i \in 1..Len(lg[u]) : lg[u][i] = q
    BY <2>1
  <2>3. <<u, i>> \in P /\ <<u, i>>[1] = u /\ <<u, i>>[2] = i
    BY <1>2
  <2> QED BY <2>2, <2>3
<1>5. ASSUME NEW p \in P, NEW q \in P, lg[p[1]][p[2]] = lg[q[1]][q[2]]
      PROVE  p = q
  <2>0. /\ p[1] \in TxHash /\ p[2] \in 1..Len(lg[p[1]])
        /\ q[1] \in TxHash /\ q[2] \in 1..Len(lg[q[1]])
    BY <1>1
  <2>1. p[1] = q[1]
    BY <1>5, <2>0 DEF LogsNumbered, LogsDistinct
  <2>2. p[2] \in 1..Len(lg[p[1]]) /\ q[2] \in 1..Len(lg[p[1]])
    BY <1>1, <2>1
  <2>3. p[2] < q[2] => lg[p[1]][p[2]] < lg[p[1]][q[2]]
    BY <1>1, <2>2 DEF LogsNumbered, LogsInRange, LogsAscending, LogsDistinct, LogsComplete
  <2>4. q[2] < p[2] => lg[p[1]][q[2]] < lg[p[1]][p[2]]
    BY <1>1, <2>2 DEF LogsNumbered, LogsInRange, LogsAscending, LogsDistinct, LogsComplete
  <2>5. lg[p[1]][p[2]] \in Int /\ lg[p[1]][q[2]] = lg[p[1]][p[2]]
    BY <1>3, <1>5, <2>1
  <2>6. p[2] = q[2]
    BY <2>2, <2>3, <2>4, <2>5
  <2> QED BY <1>1, <2>1, <2>6
<1>6. {lg[p[1]][p[2]] : p \in P} = 0..(n - 1)
  BY <1>3, <1>4
<1>7. f \in Injection(P, 0..(n - 1)) /\ f \in Surjection(P, 0..(n - 1))
  <2>1. f \in [P -> 0..(n - 1)]
    BY <1>3
  <2>2. \A p, q \in P : f[p] = f[q] => p = q
    BY <1>5
  <2>3. \A q \in 0..(n - 1) : \E p \in P : f[p] = q
    BY <1>4
  <2> HIDE DEF f
  <2> QED BY <2>1, <2>2, <2>3 DEF Injection, IsInjective, Surjection
<1>8. IsFiniteSet(0..(n - 1)) /\ Cardinality(0..(n - 1)) = n
  <2>1. 0 \in Int /\ n - 1 \in Int
    BY <1>0
  <2>2. /\ IsFiniteSet(0..(n - 1))
        /\ Cardinality(0..(n - 1)) = IF 0 > n - 1 THEN 0 ELSE n - 1 - 0 + 1
    BY <2>1, FS_Interval
  <2> QED BY <1>0, <2>2
<1>9. Cardinality(P) = n
  <2> HIDE DEF f
  <2> QED BY <1>7, <1>8, FS_Injection
<1> QED BY <1>6, <1>9 DEF P

\* The setters other than AddLog leave the logs alone and record no log, those
\* other than AddRefund and SubRefund the refund counter.
LEMMA OtherSetters ==
    ASSUME IInv, TxSetter
    PROVE  /\ ~AddLog =>
                 /\ logs' = logs /\ logSize' = logSize
                 /\ \/ journal' = journal
                    \/ \E e \in TxEntry : e.kind # "addLog" /\ journal' = append(journal, e)
                    \/ \E e, f \in TxEntry : /\ e.kind # "addLog" /\ f.kind # "addLog"
                                             /\ journal' = append(append(journal, e), f)
           /\ (~\E gas \in Gas : AddRefund(gas) \/ SubRefund(gas)) =>
                 /\ refund' = refund
                 /\ \/ journal' = journal
                    \/ \E e \in TxEntry : e.kind # "refund" /\ journal' = append(journal, e)
                    \/ \E e, f \in TxEntry : /\ e.kind # "refund" /\ f.kind # "refund"
                                             /\ journal' = append(append(journal, e), f)
<1>0. TxTypeOK
  BY DEF IInv, TypeOK
<1>1. /\ \A p \in Nat : [kind |-> "refund", prev |-> p] \in TxEntry
      /\ \A t \in TxHash : [kind |-> "addLog", txhash |-> t] \in TxEntry
      /\ \A h \in Preimage : [kind |-> "addPreimage", hash |-> h] \in TxEntry
      /\ \A w \in Warm : [kind |-> "accessListAddAccount", address |-> w] \in TxEntry
      /\ \A w \in Warm, x \in Slot :
            [kind |-> "accessListAddSlot", address |-> w, slot |-> x] \in TxEntry
      /\ \A w \in Warm, k \in TransientKey, v \in Word :
            [kind |-> "transientStorage", account |-> w, key |-> k, prevalue |-> v] \in TxEntry
  BY EntryTypes DEF TxEntry, TxKinds
<1>2. CASE AddLog
  BY <1>0, <1>1, <1>2 DEF AddLog, Journaled, TxTypeOK
<1>3. CASE \E hash \in Preimage : AddPreimage(hash)
  BY <1>1, <1>3 DEF AddPreimage, Journaled
<1>4. CASE \E gas \in Gas : AddRefund(gas) \/ SubRefund(gas)
  BY <1>0, <1>1, <1>4 DEF AddRefund, SubRefund, Journaled, TxTypeOK
<1>5. CASE \E w \in Warm : \E key \in TransientKey, value \in Word :
              SetTransientState(w, key, value)
  <2>1. \A w \in Warm, k \in TransientKey : transientStorage[w][k] \in Word
    BY <1>0 DEF TxTypeOK
  <2> QED BY <1>1, <1>5, <2>1 DEF SetTransientState, Journaled
<1>6. CASE \E w \in Warm : AddAddressToAccessList(w)
  BY <1>1, <1>6 DEF AddAddressToAccessList, Journaled
<1>7. CASE \E w \in Warm : \E slot \in Slot : AddSlotToAccessList(w, slot)
  BY <1>1, <1>7 DEF AddSlotToAccessList, Journaled
<1>8. CASE \E t \in TxHash : SetTxContext(t)
  BY <1>8 DEF SetTxContext, journalVars
<1>9. CASE \E addrs \in SUBSET Warm \ {{}}, berlin \in BOOLEAN :
              \E tuple \in {<<>>} \cup (addrs \X Slot) : Prepare(addrs, berlin, tuple)
  BY <1>9 DEF Prepare, journalVars
<1> QED BY <1>2, <1>3, <1>4, <1>5, <1>6, <1>7, <1>8, <1>9 DEF TxSetter

\* Every step keeps the logs recorded.
LEMMA LogsStep ==
    ASSUME IInv, [Next]_vars, LogsRecorded(logs, logSize, journal.entries)
    PROVE  LogsRecorded(logs', logSize', journal'.entries)
<1> DEFINE es == journal.entries
           fs == journal'.entries
<1>0. journal \in JournalType /\ es \in Seq(Entry) /\ Len(es) \in Nat /\ TxTypeOK
  BY DEF IInv, TypeOK, JournalTypeOK, JournalType
<1>1. CASE \E a \in Addr : CallRuns(a) /\ UNCHANGED txVars
  <2>1. /\ fs \in Seq(Entry) /\ Extends(es, fs, TxKinds)
    BY <1>1, CallExtends
  <2>2. Extends(es, fs, {"addLog"})
    BY <2>1 DEF Extends, TxKinds
  <2>3. logs' = logs /\ logSize' = logSize
    BY <1>1 DEF txVars
  <2> HIDE DEF es, fs
  <2>4. LogsRecorded(logs, logSize, fs)
    BY <1>0, <2>1, <2>2, LogsAppendOther DEF es
  <2> QED BY <2>3, <2>4 DEF fs
<1>2. CASE TxSetter /\ UNCHANGED accountVars
  <2>1. CASE AddLog
    <3> DEFINE e == [kind |-> "addLog", txhash |-> thash]
    <3>1. thash \in TxHash /\ e \in Entry
      BY <1>0, EntryTypes DEF TxTypeOK
    <3>2. /\ journal' = append(journal, e) /\ logSize' = logSize + 1
          /\ logs' = [logs EXCEPT ![thash] = Append(@, logSize)]
      BY <2>1 DEF AddLog, Journaled
    <3>3. fs = Append(es, e)
      BY <1>0, <3>1, <3>2, AppendType
    <3>4. LogsRecorded([logs EXCEPT ![thash] = Append(@, logSize)], logSize + 1, Append(es, e))
      BY <1>0, <3>1, LogsAdd
    <3> QED BY <3>2, <3>3, <3>4
  <2>2. CASE ~AddLog
    <3>1. /\ logs' = logs /\ logSize' = logSize
          /\ \/ journal' = journal
             \/ \E e \in TxEntry : e.kind # "addLog" /\ journal' = append(journal, e)
             \/ \E e, f \in TxEntry : /\ e.kind # "addLog" /\ f.kind # "addLog"
                                      /\ journal' = append(append(journal, e), f)
      BY <1>2, <2>2, OtherSetters
    <3>2. ASSUME NEW e \in TxEntry, e.kind # "addLog"
          PROVE  /\ append(journal, e) \in JournalType
                 /\ append(journal, e).entries = Append(es, e) /\ Append(es, e) \in Seq(Entry)
                 /\ LogsRecorded(logs, logSize, Append(es, e))
      <4>1. e \in Entry
        BY DEF TxEntry
      <4>2. /\ append(journal, e) \in JournalType
            /\ append(journal, e).entries = Append(es, e) /\ Append(es, e) \in Seq(Entry)
        BY <1>0, <4>1, AppendType DEF JournalType
      <4>3. Extends(es, Append(es, e), {"addLog"})
        BY <1>0, <3>2, <4>1, ExtendsAppend
      <4> QED BY <1>0, <4>2, <4>3, LogsAppendOther
    <3>3. ASSUME NEW e \in TxEntry, NEW f \in TxEntry, e.kind # "addLog", f.kind # "addLog"
          PROVE  LogsRecorded(logs, logSize, append(append(journal, e), f).entries)
      <4> DEFINE j == append(journal, e)
      <4>1. j \in JournalType /\ j.entries \in Seq(Entry) /\ LogsRecorded(logs, logSize, j.entries)
        BY <3>2, <3>3
      <4>2. f \in Entry
        BY DEF TxEntry
      <4> HIDE DEF j
      <4>3. append(j, f).entries = Append(j.entries, f) /\ Append(j.entries, f) \in Seq(Entry)
        BY <4>1, <4>2, AppendType
      <4>4. Extends(j.entries, Append(j.entries, f), {"addLog"})
        BY <3>3, <4>1, <4>2, ExtendsAppend
      <4>5. LogsRecorded(logs, logSize, Append(j.entries, f))
        BY <4>1, <4>3, <4>4, LogsAppendOther
      <4> QED BY <4>3, <4>5 DEF j
    <3> QED BY <3>1, <3>2, <3>3
  <2> QED BY <2>1, <2>2
<1>3. CASE UndoesEntry
  <2> DEFINE e == LastEntry
  <2>1. /\ journal' = pop(journal) /\ es # <<>> /\ e \in Entry /\ e = es[Len(es)]
    BY <1>3, UndoPops
  <2>2. /\ fs \in Seq(Entry) /\ Len(es) = Len(fs) + 1 /\ \A i \in 1..Len(fs) : fs[i] = es[i]
    BY <1>0, <2>1, PopType DEF JournalType
  <2> HIDE DEF es, fs
  <2>3. CASE UndoAddLog
    <3>1. /\ e.kind = "addLog" /\ logSize' = logSize - 1
          /\ logs' = [logs EXCEPT ![e.txhash] = SubSeq(@, 1, Len(@) - 1)]
      BY <2>3 DEF UndoAddLog, Pops
    <3>2. e.txhash \in TxHash
      BY <2>1, <3>1, EntryFields
    <3>3. LogsRecorded([logs EXCEPT ![e.txhash] = SubSeq(@, 1, Len(@) - 1)], logSize - 1, fs)
      BY <1>0, <2>1, <2>2, <3>1, <3>2, LogsRemove DEF es
    <3> QED BY <3>1, <3>3 DEF fs
  <2>4. CASE ~UndoAddLog
    <3>1. logs' = logs /\ logSize' = logSize /\ e.kind # "addLog"
      <4>1. CASE TxUndo
        BY <2>4, <4>1 DEF TxUndo, UndoRefund, UndoAddPreimage, UndoTransientStorage,
           UndoAccessListAddAccount, UndoAccessListAddSlot, Pops
      <4>2. CASE AccountUndo /\ UNCHANGED txVars
        BY <4>2 DEF AccountUndo, UndoCreateObject, UndoResetObject, UndoSuicide, UndoTouch,
           UndoBalance, UndoNonce, UndoCode, UndoStorage, UndoField, Undo, txVars
      <4> QED BY <1>3, <4>1, <4>2 DEF UndoesEntry
    <3>2. LogsRecorded(logs, logSize, fs)
      BY <1>0, <2>1, <2>2, <3>1, LogsPopOther DEF es
    <3> QED BY <3>1, <3>2 DEF fs
  <2> QED BY <2>3, <2>4
<1>4. CASE ClearsJournal
  <2>1. fs = <<>> /\ logs' = logs /\ logSize' = logSize
    BY <1>4, ClearsToEmpty
  <2>2. LogsRecorded(logs, logSize, <<>>)
    BY LogsWithout DEF LogsRecorded
  <2> QED BY <2>1, <2>2
<1>5. CASE KeepsJournal
  BY <1>5 DEF KeepsJournal, txVars
<1> QED BY <1>1, <1>2, <1>3, <1>4, <1>5, StepCases

\* The invariant behind the numbering of the logs.
LEMMA LogsInvariance == Spec => []LogsRecorded(logs, logSize, journal.entries)
<1>1. Init => LogsRecorded(logs, logSize, journal.entries)
  <2> SUFFICES ASSUME Init PROVE LogsRecorded(logs, logSize, journal.entries)
    OBVIOUS
  <2>1. /\ logs = [t \in TxHash |-> <<>>] /\ logSize = 0 /\ journal.entries = <<>>
    BY DEF Init, TxInit, JournalInit, newJournal
  <2>2. logs \in [TxHash -> Seq(Int)]
    BY InitInv DEF IInv, TypeOK, TxTypeOK
  <2>3. \A t \in TxHash : Len(logs[t]) = 0
    BY <2>1
  <2>4. LogsNumbered(logs, 0)
    BY <2>2, <2>3 DEF LogsNumbered, LogsInRange, LogsAscending, LogsDistinct, LogsComplete
  <2> QED BY <2>1, <2>4, LogsWithout
<1>2. IInv /\ LogsRecorded(logs, logSize, journal.entries) /\ [Next]_vars
         => LogsRecorded(logs, logSize, journal.entries)'
  BY LogsStep
<1> QED BY <1>1, <1>2, Invariance, PTL DEF Spec

\* The indices of the logs of a block are 0 to logSize - 1, each used once and
\* ascending in each transaction, after any number of reverts.
THEOREM LogsAlwaysContiguous == Spec => []LogIndicesContiguous
<1>1. LogsRecorded(logs, logSize, journal.entries) => LogIndicesContiguous
  <2> SUFFICES ASSUME LogsNumbered(logs, logSize) PROVE LogIndicesContiguous
    BY DEF LogsRecorded
  <2>1. LET Positions == {p \in TxHash \X (1..logSize) : p[2] <= Len(logs[p[1]])}
        IN /\ {logs[p[1]][p[2]] : p \in Positions} = 0..(logSize - 1)
           /\ Cardinality(Positions) = logSize
    BY NumberedContiguous
  <2>2. \A t \in TxHash : \A i, j \in 1..Len(logs[t]) : i < j => logs[t][i] < logs[t][j]
    BY DEF LogsNumbered, LogsAscending
  <2> QED BY <2>1, <2>2 DEF LogIndicesContiguous
<1> QED BY <1>1, LogsInvariance, PTL

-----------------------------------------------------------------------------
(* The refund counter.                                                     *)

\* Without a change on record the counter is 0, and the first change on record
\* was made to 0.
RefundRecorded(n, es) ==
    /\ (\A i \in 1..Len(es) : es[i].kind # "refund") => n = 0
    /\ \A i \in 1..Len(es) :
          es[i].kind = "refund" /\ (\A j \in 1..(i - 1) : es[j].kind # "refund") => es[i].prev = 0

\* Appending entries of other kinds, or a change of the counter.
LEMMA RefundAppend ==
    ASSUME NEW n, NEW m, NEW es \in Seq(Entry), NEW fs \in Seq(Entry), RefundRecorded(n, es),
           \/ m = n /\ Extends(es, fs, {"refund"})
           \/ fs = Append(es, [kind |-> "refund", prev |-> n])
    PROVE  RefundRecorded(m, fs)
<1>0. Len(es) \in Nat /\ Len(fs) \in Nat
  OBVIOUS
<1>1. CASE m = n /\ Extends(es, fs, {"refund"})
  <2>1. \A i \in 1..Len(fs) : fs[i].kind = "refund" => i \in 1..Len(es) /\ fs[i] = es[i]
    BY <1>0, <1>1 DEF Extends
  <2>2. \A i \in 1..Len(es) : i \in 1..Len(fs) /\ fs[i] = es[i]
    BY <1>0, <1>1 DEF Extends
  <2>3. \A i \in 1..Len(es) : \A j \in 1..(i - 1) : j \in 1..Len(es)
    BY <1>0
  <2> QED BY <1>1, <2>1, <2>2, <2>3 DEF RefundRecorded
<1>2. CASE fs = Append(es, [kind |-> "refund", prev |-> n])
  <2>1. /\ Len(fs) = Len(es) + 1 /\ fs[Len(es) + 1] = [kind |-> "refund", prev |-> n]
        /\ \A i \in 1..Len(es) : fs[i] = es[i]
    BY <1>2
  <2>2. Len(es) + 1 \in 1..Len(fs) /\ fs[Len(es) + 1].kind = "refund" /\ fs[Len(es) + 1].prev = n
    BY <1>0, <2>1
  <2>3. ASSUME NEW i \in 1..Len(fs), fs[i].kind = "refund", \A j \in 1..(i - 1) : fs[j].kind # "refund"
        PROVE  fs[i].prev = 0
    <3>1. CASE i = Len(es) + 1
      <4>1. \A j \in 1..Len(es) : es[j].kind # "refund"
        BY <1>0, <2>1, <2>3, <3>1
      <4> QED BY <2>2, <3>1, <4>1 DEF RefundRecorded
    <3>2. CASE i \in 1..Len(es)
      <4>1. \A j \in 1..(i - 1) : j \in 1..Len(es) /\ fs[j] = es[j]
        BY <1>0, <2>1, <3>2
      <4> QED BY <2>1, <2>3, <3>2, <4>1 DEF RefundRecorded
    <3> QED BY <1>0, <2>1, <3>1, <3>2
  <2> QED BY <2>2, <2>3 DEF RefundRecorded
<1> QED BY <1>1, <1>2

\* Reverting an entry.
LEMMA RefundPop ==
    ASSUME NEW n, NEW m, NEW es \in Seq(Entry), NEW fs \in Seq(Entry), RefundRecorded(n, es),
           Len(es) = Len(fs) + 1, \A i \in 1..Len(fs) : fs[i] = es[i],
           m = IF es[Len(es)].kind = "refund" THEN es[Len(es)].prev ELSE n
    PROVE  RefundRecorded(m, fs)
<1>0. Len(es) \in 1..Len(es) /\ Len(fs) \in Nat /\ Len(es) - 1 = Len(fs)
  OBVIOUS
<1>1. \A i \in 1..Len(fs) : i \in 1..Len(es) /\ \A j \in 1..(i - 1) : j \in 1..Len(fs)
  BY <1>0
<1>2. \A i \in 1..Len(es) : i = Len(es) \/ i \in 1..Len(fs)
  BY <1>0
<1>3. (\A i \in 1..Len(fs) : fs[i].kind # "refund") => m = 0
  BY <1>0, <1>2 DEF RefundRecorded
<1> QED BY <1>1, <1>3 DEF RefundRecorded

\* Every step keeps the counter recorded, if no copy is made of a StateDB with
\* a journal.
LEMMA RefundStep ==
    ASSUME IInv, [Next]_vars, "copyMidTx" \notin Env, RefundRecorded(refund, journal.entries)
    PROVE  RefundRecorded(refund', journal'.entries)
<1> DEFINE es == journal.entries
           fs == journal'.entries
<1>0. journal \in JournalType /\ es \in Seq(Entry) /\ Len(es) \in Nat /\ TxTypeOK
  BY DEF IInv, TypeOK, JournalTypeOK, JournalType
<1>1. CASE \E a \in Addr : CallRuns(a) /\ UNCHANGED txVars
  <2>1. /\ fs \in Seq(Entry) /\ Extends(es, fs, TxKinds)
    BY <1>1, CallExtends
  <2>2. Extends(es, fs, {"refund"})
    BY <2>1 DEF Extends, TxKinds
  <2>3. refund' = refund
    BY <1>1 DEF txVars
  <2> HIDE DEF es, fs
  <2>4. RefundRecorded(refund', fs)
    BY <1>0, <2>1, <2>2, <2>3, RefundAppend DEF es
  <2> QED BY <2>4 DEF fs
<1>2. CASE TxSetter /\ UNCHANGED accountVars
  <2>1. CASE \E gas \in Gas : AddRefund(gas) \/ SubRefund(gas)
    <3> DEFINE e == [kind |-> "refund", prev |-> refund]
    <3>1. e \in Entry
      BY <1>0, EntryTypes DEF TxTypeOK
    <3>2. journal' = append(journal, e)
      BY <2>1 DEF AddRefund, SubRefund, Journaled
    <3>3. fs = Append(es, e) /\ Append(es, e) \in Seq(Entry)
      BY <1>0, <3>1, <3>2, AppendType DEF JournalType
    <3> QED BY <1>0, <3>3, RefundAppend
  <2>2. CASE ~\E gas \in Gas : AddRefund(gas) \/ SubRefund(gas)
    <3>1. /\ refund' = refund
          /\ \/ journal' = journal
             \/ \E e \in TxEntry : e.kind # "refund" /\ journal' = append(journal, e)
             \/ \E e, f \in TxEntry : /\ e.kind # "refund" /\ f.kind # "refund"
                                      /\ journal' = append(append(journal, e), f)
      BY <1>2, <2>2, OtherSetters
    <3>2. ASSUME NEW j \in JournalType, RefundRecorded(refund, j.entries),
                 NEW e \in TxEntry, e.kind # "refund"
          PROVE  append(j, e) \in JournalType /\ RefundRecorded(refund, append(j, e).entries)
      <4>1. e \in Entry /\ j.entries \in Seq(Entry)
        BY DEF TxEntry, JournalType
      <4>2. /\ append(j, e) \in JournalType
            /\ append(j, e).entries = Append(j.entries, e) /\ Append(j.entries, e) \in Seq(Entry)
        BY <4>1, AppendType DEF JournalType
      <4>3. Extends(j.entries, Append(j.entries, e), {"refund"})
        BY <3>2, <4>1, ExtendsAppend
      <4>4. RefundRecorded(refund, Append(j.entries, e))
        BY <3>2, <4>1, <4>2, <4>3, RefundAppend
      <4> QED BY <4>2, <4>4
    <3> QED BY <1>0, <3>1, <3>2
  <2> QED BY <2>1, <2>2
<1>3. CASE UndoesEntry
  <2> DEFINE e == LastEntry
  <2>1. /\ journal' = pop(journal) /\ es # <<>> /\ e \in Entry /\ e = es[Len(es)]
    BY <1>3, UndoPops
  <2>2. /\ fs \in Seq(Entry) /\ Len(es) = Len(fs) + 1 /\ \A i \in 1..Len(fs) : fs[i] = es[i]
    BY <1>0, <2>1, PopType DEF JournalType
  <2> HIDE DEF es, fs
  <2>3. refund' = IF e.kind = "refund" THEN e.prev ELSE refund
    <3>1. CASE TxUndo
      BY <3>1 DEF TxUndo, UndoRefund, UndoAddLog, UndoAddPreimage, UndoTransientStorage,
         UndoAccessListAddAccount, UndoAccessListAddSlot, Pops
    <3>2. CASE AccountUndo /\ UNCHANGED txVars
      BY <3>2 DEF AccountUndo, UndoCreateObject, UndoResetObject, UndoSuicide, UndoTouch,
         UndoBalance, UndoNonce, UndoCode, UndoStorage, UndoField, Undo, txVars
    <3> QED BY <1>3, <3>1, <3>2 DEF UndoesEntry
  <2>4. RefundRecorded(refund', fs)
    BY <1>0, <2>1, <2>2, <2>3, RefundPop DEF es
  <2> QED BY <2>4 DEF fs
<1>4. CASE ClearsJournal
  <2>1. fs = <<>>
    BY <1>4, ClearsToEmpty
  <2>2. es = <<>> => refund = 0
    BY DEF RefundRecorded
  <2>3. refund' = 0
    <3>1. CASE \E d \in BOOLEAN : Finalise(d) \/ IntermediateRoot(d)
      BY <2>2, <3>1 DEF Finalise, IntermediateRoot, IntermediateRootOn, clearJournalAndRefund
    <3>2. CASE Copy
      BY <2>2, <3>2 DEF Copy
    <3> QED BY <1>4, <3>1, <3>2 DEF ClearsJournal
  <2> QED BY <2>1, <2>3 DEF RefundRecorded
<1>5. CASE KeepsJournal
  BY <1>5 DEF KeepsJournal, txVars
<1> QED BY <1>1, <1>2, <1>3, <1>4, <1>5, StepCases

\* The log indices are right, and clearJournalAndRefund may skip the reset of
\* the refund counter when the journal is empty: it is 0 then.  (A copy made
\* within a transaction takes the counter and not the journal.)
THEOREM CountersAlwaysExact ==
    ASSUME "copyMidTx" \notin Env PROVE Spec => []CountersExact
<1> DEFINE I == RefundRecorded(refund, journal.entries)
<1>1. Init => I
  BY DEF Init, TxInit, JournalInit, newJournal, RefundRecorded
<1>2. IInv /\ I /\ [Next]_vars => I'
  BY RefundStep
<1>3. I /\ LogIndicesContiguous => CountersExact
  BY DEF RefundRecorded, CountersExact
<1> HIDE DEF I
<1> QED BY <1>1, <1>2, <1>3, Invariance, LogsAlwaysContiguous, PTL DEF Spec
=============================================================================
