------------------------ MODULE StateDBStorage_proofs ------------------------
(***************************************************************************)
(* What the objects, their storage caches and the tries say of each other: *)
(* no write is lost between them, IntermediateRoot commits to the state    *)
(* callers saw, and a copy reads like its original.                        *)
(***************************************************************************)
EXTENDS StateDBHistory_proofs

-----------------------------------------------------------------------------
(* The account trie is written at dirty accounts only.                     *)

OnlyDirtyWritten ==
    /\ stateObjectsPending \subseteq stateObjectsDirty
    /\ \A a \in Addr \ stateObjectsDirty : trie[a] = originalRoot[a]

\* A revert leaves the marks of the accounts and the trie.
LEMMA UndoKeepsMarks ==
    ASSUME IInv, UndoesEntry
    PROVE  UNCHANGED <<originalRoot, trie, stateObjectsPending, stateObjectsDirty>>
<1>1. CASE TxUndo /\ UNCHANGED accountVars
  BY <1>1 DEF accountVars
<1>2. CASE AccountUndo
  <2>1. UNCHANGED <<originalRoot, trie, stateObjectsPending>>
    BY <1>2 DEF AccountUndo, UndoCreateObject, UndoResetObject, UndoSuicide, UndoTouch, UndoBalance,
       UndoNonce, UndoCode, UndoStorage, UndoField, Undo
  <2>2. \/ stateObjectsDirty' = stateObjectsDirty
        \/ LastEntry.kind = "createObject"
           /\ stateObjectsDirty' = stateObjectsDirty \ {LastEntry.account}
    BY <1>2 DEF AccountUndo, UndoCreateObject, UndoResetObject, UndoSuicide, UndoTouch, UndoBalance,
       UndoNonce, UndoCode, UndoStorage, UndoField, Undo
  <2>3. /\ journal.entries \in Seq(Entry) /\ journal.entries # <<>>
        /\ LastEntry = journal.entries[Len(journal.entries)]
    BY UndoPops DEF IInv, TypeOK, JournalTypeOK
  <2>4. LastEntry.kind = "createObject" => LastEntry.account \notin stateObjectsDirty
    BY <2>3 DEF IInv, ObjectsRecoverable, CreatedNotPending
  <2> QED BY <2>1, <2>2, <2>4
<1> QED BY <1>1, <1>2 DEF UndoesEntry

\* IntermediateRoot's loops write some of the accounts in S.
LEMMA FlushWrites ==
    ASSUME NEW base, NEW objs, NEW S, NEW f \in Flushed(base, objs, S)
    PROVE  \A a \in Addr \ S : f.trie[a] = base[a]
<1>1. \E m, T, e : T \subseteq S /\ f = FlushOutcome(base, m, T, e)
  <2> DEFINE rooted == Rooted(objs, S)
  <2>1. \/ f = FlushOutcome(base, rooted, S, FALSE)
        \/ \E b \in S : f = FlushOutcome(base, rooted, S \ {b}, TRUE)
        \/ \E b \in {c \in S : ~objs[c].deleted} : \E o \in updateRootFailed(objs[b]) :
              f = FlushOutcome(base, [rooted EXCEPT ![b] = o], S, TRUE)
    BY DEF Flushed
  <2> HIDE DEF rooted
  <2> QED BY <2>1
<1>2. PICK m, T, e : T \subseteq S /\ f = FlushOutcome(base, m, T, e)
  BY <1>1
<1>3. f.trie = WrittenTrie(base, m, T)
  BY <1>2 DEF FlushOutcome
<1> QED BY <1>2, <1>3 DEF WrittenTrie

\* What the three steps that clear the journal do to the marks.
LEMMA ClearsMarks ==
    ASSUME ClearsJournal
    PROVE  /\ stateObjectsDirty' = stateObjectsDirty \cup Finalised
           /\ \/ stateObjectsPending' = stateObjectsPending \cup Finalised /\ trie' = trie
              \/ /\ stateObjectsPending' = {}
                 /\ \A a \in Addr \ (stateObjectsPending \cup Finalised) : trie'[a] = trie[a]
           /\ originalRoot' = originalRoot
<1>1. CASE \E d \in BOOLEAN : Finalise(d)
  BY <1>1 DEF Finalise
<1>2. CASE Copy
  BY <1>2 DEF Copy
<1>3. CASE \E d \in BOOLEAN : IntermediateRoot(d)
  <2>1. PICK d \in BOOLEAN : IntermediateRoot(d)
    BY <1>3
  <2> DEFINE S == stateObjectsPending \cup Finalised
  <2>2. PICK f \in Flushed(trie, FinalisedObjects(d), S) : trie' = f.trie
    BY <2>1 DEF IntermediateRoot, IntermediateRootOn
  <2>3. /\ stateObjectsPending' = {} /\ originalRoot' = originalRoot
        /\ stateObjectsDirty' = stateObjectsDirty \cup Finalised
    BY <2>1 DEF IntermediateRoot, IntermediateRootOn
  <2>4. \A a \in Addr \ S : trie'[a] = trie[a]
    BY <2>2, FlushWrites
  <2> QED BY <2>3, <2>4
<1> QED BY <1>1, <1>2, <1>3 DEF ClearsJournal

\* Every step keeps the changes of the trie within the dirty accounts.
LEMMA OnlyDirtyStep ==
    ASSUME IInv, [Next]_vars, OnlyDirtyWritten
    PROVE  OnlyDirtyWritten'
<1>1. CASE \E a \in Addr : CallRuns(a) /\ UNCHANGED txVars
  BY <1>1, CallEnd DEF CallRuns, OnlyDirtyWritten
<1>2. CASE TxSetter /\ UNCHANGED accountVars
  BY <1>2 DEF accountVars, OnlyDirtyWritten
<1>3. CASE UndoesEntry
  BY <1>3, UndoKeepsMarks DEF OnlyDirtyWritten
<1>4. CASE ClearsJournal
  BY <1>4, ClearsMarks DEF OnlyDirtyWritten
<1>5. CASE KeepsJournal
  BY <1>5 DEF KeepsJournal, accountVars, OnlyDirtyWritten
<1> QED BY <1>1, <1>2, <1>3, <1>4, <1>5, StepCases

-----------------------------------------------------------------------------
(* Why a destructed account has an object: the mark was set by a reset     *)
(* that is still in the journal, or the account is dirty.                  *)

IsReset(e, a) == e.kind = "resetObject" /\ e.account = a

DestructRecorded(es, destruct, dirties) ==
    /\ \A a \in destruct : a \in dirties \/ \E i \in 1..Len(es) : IsReset(es[i], a)
    /\ \A i \in 1..Len(es) : es[i].kind = "resetObject" /\ es[i].prevdestruct =>
          \/ es[i].account \in dirties
          \/ \E j \in 1..(i - 1) : IsReset(es[j], es[i].account)

\* Destruct marks stay recorded when an entry is appended ...
LEMMA RecordedAppend ==
    ASSUME NEW es \in Seq(Entry), NEW e \in Entry, NEW destruct, NEW destruct2, NEW dirties,
           DestructRecorded(es, destruct, dirties),
           \A a \in destruct2 : a \in destruct \/ IsReset(e, a),
           e.kind = "resetObject" /\ e.prevdestruct => e.account \in destruct
    PROVE  DestructRecorded(Append(es, e), destruct2, dirties)
<1> DEFINE fs == Append(es, e)
           n  == Len(es)
<1>1. /\ n \in Nat /\ Len(fs) = n + 1 /\ fs[n + 1] = e
      /\ \A i \in 1..n : fs[i] = es[i]
  OBVIOUS
<1> HIDE DEF fs, n
<1>2. \A a \in destruct : a \in dirties \/ \E i \in 1..n : IsReset(es[i], a)
  BY DEF DestructRecorded, n
<1>3. \A a \in destruct2 : a \in dirties \/ \E i \in 1..(n + 1) : IsReset(fs[i], a)
  BY <1>1, <1>2
<1>4. ASSUME NEW i \in 1..(n + 1), fs[i].kind = "resetObject", fs[i].prevdestruct
      PROVE  \/ fs[i].account \in dirties
             \/ \E j \in 1..(i - 1) : IsReset(fs[j], fs[i].account)
  <2>1. CASE i = n + 1
    <3>1. e.account \in destruct /\ fs[i] = e /\ i - 1 = n
      BY <1>1, <1>4, <2>1
    <3> QED BY <1>1, <1>2, <3>1
  <2>2. CASE i \in 1..n
    <3>1. fs[i] = es[i] /\ \A j \in 1..(i - 1) : fs[j] = es[j]
      BY <1>1, <2>2
    <3>2. \/ es[i].account \in dirties
          \/ \E j \in 1..(i - 1) : IsReset(es[j], es[i].account)
      BY <1>4, <2>2, <3>1 DEF DestructRecorded, n
    <3> QED BY <3>1, <3>2
  <2> QED BY <1>1, <2>1, <2>2
<1> QED BY <1>1, <1>3, <1>4 DEF DestructRecorded, fs

\* ... and when the last one is reverted.
LEMMA RecordedPop ==
    ASSUME NEW es \in Seq(Entry), NEW fs \in Seq(Entry), NEW destruct, NEW destruct2, NEW dirties,
           DestructRecorded(es, destruct, dirties),
           Len(es) = Len(fs) + 1, \A i \in 1..Len(fs) : fs[i] = es[i],
           destruct2 \subseteq destruct,
           \A a \in destruct2 : IsReset(es[Len(es)], a) => es[Len(es)].prevdestruct
    PROVE  DestructRecorded(fs, destruct2, dirties)
<1> DEFINE n == Len(fs)
<1>1. n \in Nat /\ Len(es) = n + 1
  OBVIOUS
<1> HIDE DEF n
<1>2. ASSUME NEW i \in 1..(n + 1), es[i].kind = "resetObject", es[i].prevdestruct
      PROVE  es[i].account \in dirties \/ \E j \in 1..(i - 1) : IsReset(es[j], es[i].account)
  BY <1>1, <1>2 DEF DestructRecorded
<1>3. ASSUME NEW a \in destruct2, a \notin dirties PROVE \E i \in 1..n : IsReset(fs[i], a)
  <2>1. PICK i \in 1..(n + 1) : IsReset(es[i], a)
    BY <1>1, <1>3 DEF DestructRecorded
  <2>2. CASE i \in 1..n
    BY <2>1, <2>2 DEF n
  <2>3. CASE i = n + 1
    <3>1. es[i].kind = "resetObject" /\ es[i].prevdestruct /\ es[i].account = a
      BY <1>1, <2>1, <2>3 DEF IsReset
    <3>2. \E j \in 1..(i - 1) : IsReset(es[j], a)
      BY <1>2, <1>3, <3>1
    <3> QED BY <1>1, <2>3, <3>2 DEF n
  <2> QED BY <1>1, <2>2, <2>3
<1>4. ASSUME NEW i \in 1..n, fs[i].kind = "resetObject", fs[i].prevdestruct
      PROVE  \/ fs[i].account \in dirties
             \/ \E j \in 1..(i - 1) : IsReset(fs[j], fs[i].account)
  <2>1. fs[i] = es[i] /\ (\A j \in 1..(i - 1) : fs[j] = es[j]) /\ i \in 1..(n + 1)
    BY <1>1 DEF n
  <2> QED BY <1>2, <1>4, <2>1
<1> QED BY <1>1, <1>3, <1>4 DEF DestructRecorded, n

\* What a primitive step appends, and which marks it sets.
LEMMA PrimitiveAppends ==
    ASSUME NEW s \in Threaded, NEW a \in Addr, NEW r, Primitive(s, r, a),
           "setStorage" \notin Env
    PROVE  /\ s.journal \in JournalType /\ s.journal.entries \in Seq(Entry)
           /\ \/ r.journal = s.journal /\ r.destruct = s.destruct
              \/ \E e \in Entry : /\ e.kind # "resetObject"
                                  /\ \/ r.journal = append(s.journal, e)
                                     \/ /\ a = Ripemd
                                        /\ r.journal = dirty(append(s.journal, e), a)
                                  /\ r.journal.entries = Append(s.journal.entries, e)
                                  /\ r.destruct = s.destruct
              \/ \E e \in Entry : /\ IsReset(e, a)
                                  /\ e.prevdestruct = (a \in s.destruct)
                                  /\ r.journal = append(s.journal, e)
                                  /\ r.journal.entries = Append(s.journal.entries, e)
                                  /\ r.destruct = s.destruct \cup {a}
<1>0. s.journal \in JournalType /\ s.journal.entries \in Seq(Entry) /\ s.objs \in ObjectMap
  BY DEF Threaded, JournalType
<1>1. CASE r.journal = s.journal /\ r.destruct = s.destruct
  BY <1>0, <1>1
<1>2. CASE Creates(s, r, a)
  <2> DEFINE e == CreateEntry(a)
  <2>1. e \in Entry /\ e.kind = "createObject"
    BY EntryTypes DEF CreateEntry
  <2>2. r.destruct = s.destruct /\ r.journal = append(s.journal, e)
    BY <1>2 DEF Creates, Fields
  <2> HIDE DEF e
  <2>3. r.journal.entries = Append(s.journal.entries, e)
    BY <1>0, <2>1, <2>2, AppendType
  <2> QED BY <1>0, <2>1, <2>2, <2>3
<1>3. CASE Resets(s, r, a)
  <2> DEFINE e == ResetEntry(s, a)
             d == a \in s.destruct
  <2>1. s.objs[a] \in Object /\ d \in BOOLEAN
    BY <1>3 DEF Resets, Threaded, ObjectMap
  <2>2. e = [kind |-> "resetObject", account |-> a, prev |-> s.objs[a], prevdestruct |-> d]
    BY DEF ResetEntry
  <2>3. r.destruct = s.destruct \cup {a} /\ r.journal = append(s.journal, e)
    BY <1>3 DEF Resets, Fields
  <2> HIDE DEF e, d
  <2>4. e \in Entry /\ IsReset(e, a) /\ e.prevdestruct = d
    BY <2>1, <2>2, EntryTypes DEF IsReset
  <2>5. r.journal.entries = Append(s.journal.entries, e)
    BY <1>0, <2>3, <2>4, AppendType
  <2> QED BY <1>0, <2>3, <2>4, <2>5 DEF d
<1>4. CASE Touches(s, r, a)
  <2> DEFINE e == [kind |-> "touch", account |-> a]
             t == append(s.journal, e)
  <2>1. e \in Entry /\ e.kind = "touch"
    BY EntryTypes
  <2>2. r.destruct = s.destruct /\ r.journal = IF a = Ripemd THEN dirty(t, a) ELSE t
    BY <1>4 DEF Touches, Fields, TouchJournal
  <2> HIDE DEF e
  <2>3. t \in JournalType /\ t.entries = Append(s.journal.entries, e)
    BY <1>0, <2>1, AppendType
  <2>4. dirty(t, a).entries = t.entries
    BY <2>3, DirtyType
  <2> QED BY <1>0, <2>1, <2>2, <2>3, <2>4
<1>5. CASE Changes(s, r, a)
  <2>1. PICK e \in Entry, o \in Object :
           /\ Records(s, a, e, o) /\ r.journal = append(s.journal, e) /\ r.destruct = s.destruct
    BY <1>5 DEF Changes, Fields
  <2>2. e.kind # "resetObject"
    BY <2>1 DEF Records
  <2>3. r.journal.entries = Append(s.journal.entries, e)
    BY <1>0, <2>1, AppendType
  <2> QED BY <1>0, <2>1, <2>2, <2>3
<1> QED BY <1>1, <1>2, <1>3, <1>4, <1>5 DEF Primitive, Fails, Marks, Loads, Caches, Fields

\* A primitive step records the marks it makes.
LEMMA RecordedPrimitive ==
    ASSUME NEW s \in Threaded, NEW a \in Addr, NEW r, Primitive(s, r, a),
           "setStorage" \notin Env, NEW dirties,
           DestructRecorded(s.journal.entries, s.destruct, dirties)
    PROVE  DestructRecorded(r.journal.entries, r.destruct, dirties)
<1> DEFINE es == s.journal.entries
           sd == s.destruct
           rd == r.destruct
<1>1. CASE r.journal = s.journal /\ rd = sd
  BY <1>1
<1>2. CASE \E e \in Entry : e.kind # "resetObject" /\ r.journal.entries = Append(es, e) /\ rd = sd
  <2>1. PICK e \in Entry : e.kind # "resetObject" /\ r.journal.entries = Append(es, e) /\ rd = sd
    BY <1>2
  <2>2. es \in Seq(Entry) /\ DestructRecorded(es, sd, dirties)
    BY PrimitiveAppends
  <2> HIDE DEF es, sd, rd
  <2>3. DestructRecorded(Append(es, e), sd, dirties)
    BY <2>1, <2>2, RecordedAppend
  <2> QED BY <2>1, <2>3 DEF rd
<1>3. CASE \E e \in Entry : /\ IsReset(e, a) /\ e.prevdestruct = (a \in sd)
                            /\ r.journal.entries = Append(es, e) /\ rd = sd \cup {a}
  <2>1. PICK e \in Entry : /\ IsReset(e, a) /\ e.prevdestruct = (a \in sd)
                           /\ r.journal.entries = Append(es, e) /\ rd = sd \cup {a}
    BY <1>3
  <2>2. es \in Seq(Entry) /\ DestructRecorded(es, sd, dirties)
    BY PrimitiveAppends
  <2> HIDE DEF es, sd, rd
  <2>3. e.prevdestruct => e.account \in sd
    BY <2>1 DEF IsReset
  <2>4. DestructRecorded(Append(es, e), rd, dirties)
    BY <2>1, <2>2, <2>3, RecordedAppend
  <2> QED BY <2>1, <2>4 DEF rd
<1> QED BY <1>1, <1>2, <1>3, PrimitiveAppends

-----------------------------------------------------------------------------
(* Why a reset account is visited by Finalise, if callers keep to it.      *)

\* Among the first n entries there is one that dirties each account that was
\* reset there; or the account is RIPEMD and keeps a mark that no revert takes
\* away.
ResetsDirty(j, n) ==
    \A i \in 1..n : j.entries[i].kind = "resetObject" =>
        LET a == j.entries[i].account
        IN \/ \E m \in 1..n : a \in dirtied(j.entries[m])
           \/ j.dirties[a] > Cardinality(Dirtying(j.entries, a))

\* For the whole journal this is what callers keep to.
LEMMA NoBareIsDirty ==
    ASSUME NEW j \in JournalType, CountsExact(j)
    PROVE  NoBareReset(j) <=> ResetsDirty(j, Len(j.entries))
<1> DEFINE es == j.entries
           n  == Len(es)
<1>1. es \in Seq(Entry) /\ n \in Nat /\ j.dirties \in [Addr -> Int]
  BY DEF JournalType
<1>2. ASSUME NEW i \in 1..n, es[i].kind = "resetObject"
      PROVE  LET a == es[i].account
             IN j.dirties[a] # 0 <=> \/ \E m \in 1..n : a \in dirtied(es[m])
                                     \/ j.dirties[a] > Cardinality(Dirtying(es, a))
  <2> DEFINE a == es[i].account
             c == Cardinality(Dirtying(es, a))
  <2>1. a \in Addr
    BY <1>1, <1>2, EntryFields
  <2>2. c \in Nat /\ (c = 0 <=> Dirtying(es, a) = {})
    BY <1>1, DirtyingFinite
  <2>3. j.dirties[a] \in Int /\ j.dirties[a] >= c
    BY <1>1, <2>1 DEF CountsExact
  <2>4. Dirtying(es, a) # {} <=> \E m \in 1..n : a \in dirtied(es[m])
    BY DEF Dirtying
  <2> HIDE DEF c
  <2> QED BY <2>2, <2>3, <2>4 DEF c
<1> QED BY <1>2 DEF NoBareReset, ResetsDirty

\* The marks an account has beyond the entries that dirty it.
Excess(j, a) == j.dirties[a] - Cardinality(Dirtying(j.entries, a))

\* append and pop count an entry and its mark together.
LEMMA ExcessAppend ==
    ASSUME NEW j \in JournalType, NEW e \in Entry, NEW a \in Addr
    PROVE  Excess(append(j, e), a) = Excess(j, a)
<1> DEFINE es == j.entries
           fs == Append(es, e)
           k  == append(j, e)
<1>1. es \in Seq(Entry) /\ Len(es) \in Nat /\ j.dirties[a] \in Int
  BY DEF JournalType
<1>2. fs \in Seq(Entry) /\ Len(fs) = Len(es) + 1 /\ fs[Len(es) + 1] = e
      /\ \A i \in 1..Len(es) : fs[i] = es[i]
  BY <1>1
<1>3. /\ k.entries = fs
      /\ k.dirties[a] = IF a \in dirtied(e) THEN j.dirties[a] + 1 ELSE j.dirties[a]
  BY DEF append
<1>4. Cardinality(Dirtying(es, a)) \in Nat /\ IsFiniteSet(Dirtying(es, a))
  BY <1>1, DirtyingFinite
<1> HIDE DEF fs, es, k
<1>5. CASE a \in dirtied(e)
  <2>1. Dirtying(fs, a) = Dirtying(es, a) \cup {Len(es) + 1}
    BY <1>1, <1>2, <1>5 DEF Dirtying
  <2>2. Len(es) + 1 \notin Dirtying(es, a)
    BY <1>1 DEF Dirtying
  <2>3. Cardinality(Dirtying(fs, a)) = Cardinality(Dirtying(es, a)) + 1
    BY <1>4, <2>1, <2>2, FS_AddElement
  <2> QED BY <1>1, <1>3, <1>4, <1>5, <2>3 DEF Excess, es, k
<1>6. CASE a \notin dirtied(e)
  <2>1. Dirtying(fs, a) = Dirtying(es, a)
    BY <1>1, <1>2, <1>6 DEF Dirtying
  <2> QED BY <1>3, <1>6, <2>1 DEF Excess, es, k
<1> QED BY <1>5, <1>6

\* A revert takes back the marks of its entry and no more.
LEMMA ExcessPop ==
    ASSUME NEW j \in JournalType, j.entries # <<>>, NEW a \in Addr
    PROVE  Excess(pop(j), a) = Excess(j, a)
<1> DEFINE es == j.entries
           fs == pop(j).entries
           e  == es[Len(es)]
           k  == pop(j)
<1>1. es \in Seq(Entry) /\ Len(es) \in Nat \ {0} /\ j.dirties[a] \in Int
  BY DEF JournalType
<1>2. fs \in Seq(Entry) /\ Len(fs) = Len(es) - 1 /\ \A i \in 1..Len(fs) : fs[i] = es[i]
  BY PopType DEF JournalType
<1>3. k.dirties[a] = IF a \in dirtied(e) THEN j.dirties[a] - 1 ELSE j.dirties[a]
  BY DEF pop
<1>4. Cardinality(Dirtying(es, a)) \in Nat /\ IsFiniteSet(Dirtying(es, a))
  BY <1>1, DirtyingFinite
<1> HIDE DEF fs, es, k
<1>5. CASE a \in dirtied(e)
  <2>1. Dirtying(fs, a) = Dirtying(es, a) \ {Len(es)}
    BY <1>1, <1>2, <1>5 DEF Dirtying
  <2>2. Len(es) \in Dirtying(es, a)
    BY <1>1, <1>5 DEF Dirtying
  <2>3. Cardinality(Dirtying(fs, a)) = Cardinality(Dirtying(es, a)) - 1
    BY <1>4, <2>1, <2>2, FS_RemoveElement
  <2> QED BY <1>1, <1>3, <1>4, <1>5, <2>3 DEF Excess, es, k, fs
<1>6. CASE a \notin dirtied(e)
  <2>1. Dirtying(fs, a) = Dirtying(es, a)
    BY <1>1, <1>2, <1>6 DEF Dirtying
  <2> QED BY <1>3, <1>6, <2>1 DEF Excess, es, k, fs
<1> QED BY <1>5, <1>6

\* dirty adds a mark.
LEMMA ExcessDirty ==
    ASSUME NEW j \in JournalType, NEW b \in Addr, NEW a \in Addr
    PROVE  Excess(dirty(j, b), a) \in Int /\ Excess(j, a) \in Int /\ Excess(dirty(j, b), a) >= Excess(j, a)
<1> DEFINE k == dirty(j, b)
<1>1. j.entries \in Seq(Entry) /\ j.dirties \in [Addr -> Int]
  BY DEF JournalType
<1>2. k.entries = j.entries
  BY DirtyType
<1>3. k.dirties[a] = IF a = b THEN j.dirties[a] + 1 ELSE j.dirties[a]
  BY <1>1 DEF dirty, JournalType
<1>4. Cardinality(Dirtying(j.entries, a)) \in Nat
  BY <1>1, DirtyingFinite
<1> HIDE DEF k
<1> QED BY <1>1, <1>2, <1>3, <1>4 DEF Excess, k

\* The journal k has the first n entries of j and no fewer other marks.
Lengthens(k, j, n) ==
    /\ n <= Len(j.entries) /\ n <= Len(k.entries)
    /\ \A i \in 1..n : k.entries[i] = j.entries[i]
    /\ \A a \in Addr : Excess(k, a) >= Excess(j, a)

\* Resets that were marked stay marked while the journal grows.
LEMMA LengthensKeeps ==
    ASSUME NEW j \in JournalType, NEW k \in JournalType, NEW n \in Nat, Lengthens(k, j, n),
           ResetsDirty(j, n)
    PROVE  ResetsDirty(k, n)
<1> SUFFICES ASSUME NEW i \in 1..n, k.entries[i].kind = "resetObject"
             PROVE  LET a == k.entries[i].account
                    IN \/ \E m \in 1..n : a \in dirtied(k.entries[m])
                       \/ k.dirties[a] > Cardinality(Dirtying(k.entries, a))
  BY DEF ResetsDirty
<1> DEFINE a == j.entries[i].account
<1>1. /\ j.entries \in Seq(Entry) /\ k.entries \in Seq(Entry) /\ i \in 1..Len(j.entries)
      /\ k.entries[i] = j.entries[i]
  BY DEF JournalType, Lengthens
<1>2. a \in Addr
  BY <1>1, EntryFields
<1>3. \/ \E m \in 1..n : a \in dirtied(j.entries[m])
      \/ j.dirties[a] > Cardinality(Dirtying(j.entries, a))
  BY <1>1 DEF ResetsDirty
<1>4. /\ Cardinality(Dirtying(j.entries, a)) \in Nat /\ Cardinality(Dirtying(k.entries, a)) \in Nat
      /\ j.dirties[a] \in Int /\ k.dirties[a] \in Int
  BY <1>1, <1>2, DirtyingFinite DEF JournalType
<1>5. Excess(k, a) >= Excess(j, a)
  BY <1>2 DEF Lengthens
<1> QED BY <1>1, <1>3, <1>4, <1>5 DEF Lengthens, Excess

\* The primitive steps extend the journal.
LEMMA PrimitiveLengthens ==
    ASSUME NEW s \in Threaded, NEW a \in Addr, NEW r, Primitive(s, r, a),
           "setStorage" \notin Env, NEW j \in JournalType, NEW n \in Nat, Lengthens(s.journal, j, n)
    PROVE  Lengthens(r.journal, j, n)
<1> DEFINE k == s.journal
           l == r.journal
           es == k.entries
<1>1. k \in JournalType /\ es \in Seq(Entry) /\ Len(es) \in Nat
  BY PrimitiveAppends
<1>x. \A b \in Addr : Excess(j, b) \in Int /\ Excess(k, b) \in Int
  BY <1>1, ExcessDirty
<1>2. CASE l = k
  BY <1>2
<1>3. CASE \E e \in Entry : \/ l = append(k, e)
                            \/ a = Ripemd /\ l = dirty(append(k, e), a)
  <2>1. PICK e \in Entry : l = append(k, e) \/ l = dirty(append(k, e), a)
    BY <1>3
  <2> HIDE DEF k, l
  <2>2. append(k, e) \in JournalType /\ append(k, e).entries = Append(es, e)
    BY <1>1, <2>1, AppendType DEF k
  <2>3. l.entries = Append(es, e)
    BY <2>1, <2>2, DirtyType
  <2>4. \A b \in Addr : Excess(l, b) \in Int /\ Excess(l, b) >= Excess(k, b)
    <3> SUFFICES ASSUME NEW b \in Addr PROVE Excess(l, b) \in Int /\ Excess(l, b) >= Excess(k, b)
      OBVIOUS
    <3>1. Excess(append(k, e), b) = Excess(k, b)
      BY <1>1, ExcessAppend DEF k
    <3>2. Excess(dirty(append(k, e), a), b) \in Int
          /\ Excess(dirty(append(k, e), a), b) >= Excess(append(k, e), b)
      BY <2>2, ExcessDirty
    <3> QED BY <1>x, <2>1, <3>1, <3>2
  <2>5. Len(l.entries) = Len(es) + 1 /\ \A i \in 1..Len(es) : l.entries[i] = es[i]
    BY <1>1, <2>3
  <2>6. /\ n <= Len(j.entries) /\ n <= Len(es) /\ \A i \in 1..n : es[i] = j.entries[i]
    BY DEF Lengthens, k
  <2>7. \A b \in Addr : Excess(l, b) >= Excess(j, b)
    BY <1>x, <2>4 DEF Lengthens, k
  <2> HIDE DEF es
  <2>8. n <= Len(l.entries) /\ \A i \in 1..n : l.entries[i] = j.entries[i]
    BY <1>1, <2>5, <2>6
  <2>9. Lengthens(l, j, n)
    BY <2>6, <2>7, <2>8 DEF Lengthens
  <2> QED BY <2>9 DEF l
<1> QED BY <1>2, <1>3, PrimitiveAppends

\* So it is with every journal that a snapshot can bring back.
ResetsCovered ==
    /\ Idle => ResetsDirty(journal, Len(journal.entries))
    /\ \A v \in 1..Len(validRevisions) :
          Idle \/ v <= reverting => ResetsDirty(journal, validRevisions[v].journalIndex)

\* Between calls every reset account is one that Finalise visits.
LEMMA CoveredIdle ==
    ASSUME IInv, CountsExact(journal), ResetsCovered, Idle
    PROVE  NoBareReset(journal)
BY NoBareIsDirty DEF IInv, TypeOK, JournalTypeOK, JournalType, ResetsCovered

\* A call extends the journal and records the marks it sets.
LEMMA CallMarks ==
    ASSUME IInv, "setStorage" \notin Env, NEW a \in Addr, NEW r, Runs(r, a),
           DestructRecorded(journal.entries, stateObjectsDestruct, stateObjectsDirty)
    PROVE  /\ r \in Threaded
           /\ Lengthens(r.journal, journal, Len(journal.entries))
           /\ DestructRecorded(r.journal.entries, r.destruct, stateObjectsDirty)
<1> DEFINE n == Len(journal.entries)
           M(s) == /\ Lengthens(s.journal, journal, n)
                   /\ DestructRecorded(s.journal.entries, s.destruct, stateObjectsDirty)
<1>0. /\ State \in Threaded /\ State.journal = journal /\ journal \in JournalType /\ n \in Nat
      /\ State.destruct = stateObjectsDestruct
  BY StateType DEF IInv, State, Threaded, TypeOK, JournalTypeOK, JournalType
<1>2. PICK s1, s2, s3, s4, s5 :
         /\ Primitive(State, s1, a) /\ Primitive(s1, s2, a) /\ Primitive(s2, s3, a)
         /\ Primitive(s3, s4, a) /\ Primitive(s4, s5, a) /\ Primitive(s5, r, a)
  BY DEF Runs, Finds, Works
<1>3. ASSUME NEW s \in Threaded, NEW t, Primitive(s, t, a), M(s)
      PROVE  t \in Threaded /\ M(t)
  BY <1>0, <1>3, PrimitiveType, PrimitiveLengthens, RecordedPrimitive
<1>4. M(State)
  <2>1. \A b \in Addr : Excess(journal, b) \in Int
    BY <1>0, ExcessDirty
  <2> QED BY <1>0, <2>1 DEF Lengthens
<1> HIDE DEF M
<1>5. s1 \in Threaded /\ M(s1)
  BY <1>0, <1>2, <1>3, <1>4
<1>6. s2 \in Threaded /\ M(s2)
  BY <1>2, <1>3, <1>5
<1>7. s3 \in Threaded /\ M(s3)
  BY <1>2, <1>3, <1>6
<1>8. s4 \in Threaded /\ M(s4)
  BY <1>2, <1>3, <1>7
<1>9. s5 \in Threaded /\ M(s5)
  BY <1>2, <1>3, <1>8
<1>10. r \in Threaded /\ M(r)
  BY <1>2, <1>3, <1>9
<1> QED BY <1>10 DEF M

\* The snapshots below the end of the journal stay covered while it grows.
LEMMA LengthensRevisions ==
    ASSUME IInv, Idle, ResetsCovered, NEW k \in JournalType,
           Lengthens(k, journal, Len(journal.entries))
    PROVE  \A v \in 1..Len(validRevisions) : ResetsDirty(k, validRevisions[v].journalIndex)
<1> SUFFICES ASSUME NEW v \in 1..Len(validRevisions)
             PROVE  ResetsDirty(k, validRevisions[v].journalIndex)
  OBVIOUS
<1> DEFINE n == validRevisions[v].journalIndex
           l == Len(journal.entries)
<1>1. journal \in JournalType /\ l \in Nat /\ validRevisions \in Seq(Revision)
  BY DEF IInv, TypeOK, JournalTypeOK, JournalType
<1>2. n \in Nat /\ n <= l
  <2>1. validRevisions[v] \in Revision
    BY <1>1
  <2> QED BY <2>1 DEF IInv, RevisionsOrdered, Revision
<1>k. k.entries \in Seq(Entry) /\ Len(k.entries) \in Nat
  BY DEF JournalType
<1>3. ResetsDirty(journal, n)
  BY DEF ResetsCovered
<1> HIDE DEF n, l
<1>4. Lengthens(k, journal, n)
  BY <1>1, <1>2, <1>k DEF Lengthens, l
<1> QED BY <1>1, <1>2, <1>3, <1>4, LengthensKeeps DEF n

\* An entry that is no reset.
LEMMA CoveredAppend ==
    ASSUME NEW j \in JournalType, NEW e \in Entry, e.kind # "resetObject",
           ResetsDirty(j, Len(j.entries))
    PROVE  /\ append(j, e) \in JournalType
           /\ ResetsDirty(append(j, e), Len(append(j, e).entries))
           /\ \A i \in 1..Len(j.entries) : append(j, e).entries[i] = j.entries[i]
           /\ Len(append(j, e).entries) = Len(j.entries) + 1
           /\ \A a \in Addr : Excess(append(j, e), a) = Excess(j, a)
<1> DEFINE es == j.entries
           k  == append(j, e)
           fs == k.entries
           n  == Len(es)
<1>0. k \in JournalType /\ fs = Append(es, e)
  BY AppendType
<1>1. es \in Seq(Entry) /\ n \in Nat /\ k \in JournalType /\ fs = Append(es, e)
  BY <1>0 DEF JournalType
<1>2. Len(fs) = n + 1 /\ fs[n + 1] = e /\ \A i \in 1..n : fs[i] = es[i]
  BY <1>1
<1>3. \A a \in Addr : Excess(k, a) = Excess(j, a) /\ Excess(j, a) \in Int
  BY ExcessAppend, ExcessDirty
<1> HIDE DEF es, k, fs, n
<1>4. Lengthens(k, j, n)
  BY <1>1, <1>2, <1>3 DEF Lengthens, es, fs, n
<1>5. ResetsDirty(k, n)
  BY <1>1, <1>4, LengthensKeeps DEF n, es
<1>6. ResetsDirty(k, n + 1)
  BY <1>1, <1>2, <1>5 DEF ResetsDirty, fs
<1> QED BY <1>1, <1>2, <1>3, <1>6 DEF es, k, fs, n

-----------------------------------------------------------------------------
(* Creations.                                                              *)

\* A primitive step removes no object and creates none where there is one.
LEMMA PrimitiveKeepsObjects ==
    ASSUME NEW s \in Threaded, NEW a \in Addr, NEW r, Primitive(s, r, a), trie \in AccountTrie
    PROVE  /\ s.journal.entries \in Seq(Entry)
           /\ \A b \in Addr : s.objs[b] # Nil => r.objs[b] # Nil
           /\ \/ r.journal.entries = s.journal.entries
              \/ \E e \in Entry : /\ r.journal.entries = Append(s.journal.entries, e)
                                  /\ e.kind = "createObject" => s.objs[e.account] = Nil
<1> DEFINE es == s.journal.entries
<1>0. /\ s.journal \in JournalType /\ s.objs \in ObjectMap /\ es \in Seq(Entry)
  BY DEF Threaded, JournalType
<1>a. ASSUME NEW o \in Object, r.objs = [s.objs EXCEPT ![a] = o]
      PROVE  \A b \in Addr : s.objs[b] # Nil => r.objs[b] # Nil
  BY <1>0, <1>a, UpdatedMap, ConstantsAssumption
<1>1. CASE r = s \/ Fails(s, r) \/ Marks(s, r, a)
  BY <1>0, <1>1 DEF Fails, Marks, Fields
<1>2. CASE Loads(s, r, a)
  <2>1. newObject(trie[a]) \in Object
    BY <1>2, NewObjectType DEF Loads, AccountTrie
  <2>2. r.objs = [s.objs EXCEPT ![a] = newObject(trie[a])] /\ r.journal = s.journal
    BY <1>2 DEF Loads, Fields
  <2> QED BY <1>0, <1>a, <2>1, <2>2
<1>3. CASE Creates(s, r, a)
  <2> DEFINE e == CreateEntry(a)
  <2>1. e \in Entry /\ e.kind = "createObject" /\ e.account = a
    BY EntryTypes DEF CreateEntry
  <2>2. /\ r.objs = [s.objs EXCEPT ![a] = newObject(NewAccount)]
        /\ r.journal = append(s.journal, e) /\ s.objs[a] = Nil
    BY <1>3 DEF Creates, Fields
  <2>3. \A b \in Addr : s.objs[b] # Nil => r.objs[b] # Nil
    BY <1>a, <2>2, NewAccountType, NewObjectType
  <2> HIDE DEF e
  <2>4. r.journal.entries = Append(es, e)
    BY <1>0, <2>1, <2>2, AppendType
  <2> QED BY <1>0, <2>1, <2>2, <2>3, <2>4
<1>4. CASE Resets(s, r, a)
  <2> DEFINE e == ResetEntry(s, a)
             d == a \in s.destruct
  <2>1. s.objs[a] \in Object /\ d \in BOOLEAN
    BY <1>4 DEF Resets, Threaded, ObjectMap
  <2>2. e \in Entry /\ e.kind = "resetObject"
    BY <2>1, EntryTypes DEF ResetEntry
  <2>3. PICK b \in Int : r.objs = [s.objs EXCEPT ![a] = Fresh(b)] /\ r.journal = append(s.journal, e)
    BY <1>4 DEF Resets, Fields
  <2>4. \A c \in Addr : s.objs[c] # Nil => r.objs[c] # Nil
    BY <1>a, <2>3, FreshType
  <2> HIDE DEF e
  <2>5. r.journal.entries = Append(es, e)
    BY <1>0, <2>2, <2>3, AppendType
  <2> QED BY <1>0, <2>2, <2>4, <2>5
<1>5. CASE Caches(s, r, a)
  <2> DEFINE d == a \in s.destruct
  <2>1. PICK k \in Key : r.objs = [s.objs EXCEPT ![a] = Cached(s.objs[a], d, k)] /\ r.journal = s.journal
    BY <1>5 DEF Caches, Fields
  <2>2. s.objs[a] \in Object /\ d \in BOOLEAN
    BY <1>0, <1>5, LiveObject DEF Caches
  <2> HIDE DEF d
  <2>3. Cached(s.objs[a], d, k) \in Object
    BY <2>2, CachedType
  <2> QED BY <1>0, <1>a, <2>1, <2>3
<1>6. CASE Touches(s, r, a)
  <2> DEFINE e == [kind |-> "touch", account |-> a]
  <2>1. e \in Entry /\ e.kind = "touch"
    BY EntryTypes
  <2>2. append(s.journal, e) \in JournalType /\ append(s.journal, e).entries = Append(es, e)
    BY <1>0, <2>1, AppendType
  <2>3. r.journal.entries = Append(es, e) /\ r.objs = s.objs
    BY <1>6, <2>2, DirtyType DEF Touches, Fields, TouchJournal
  <2> HIDE DEF e
  <2> QED BY <1>0, <2>1, <2>3
<1>7. CASE Changes(s, r, a)
  <2>1. PICK e \in Entry, o \in Object :
           /\ Records(s, a, e, o)
           /\ r.objs = [s.objs EXCEPT ![a] = o] /\ r.journal = append(s.journal, e)
    BY <1>7 DEF Changes, Fields
  <2>2. r.journal.entries = Append(es, e)
    BY <1>0, <2>1, AppendType
  <2>3. e.kind # "createObject"
    BY <2>1 DEF Records
  <2> QED BY <1>0, <1>a, <2>1, <2>2, <2>3
<1> QED BY <1>1, <1>2, <1>3, <1>4, <1>5, <1>6, <1>7 DEF Primitive

\* The first entry of a call creates no account that has an object.
LEMMA CallCreates ==
    ASSUME IInv, NEW a \in Addr, CallRuns(a), NEW b \in Addr,
           Len(journal'.entries) > Len(journal.entries),
           journal'.entries[Len(journal.entries) + 1] = CreateEntry(b)
    PROVE  stateObjects[b] = Nil
<1> DEFINE l == Len(journal.entries)
           E(s) == s.journal.entries
           P(s) == /\ Len(E(s)) >= l
                   /\ stateObjects[b] # Nil => s.objs[b] # Nil
                   /\ Len(E(s)) > l /\ E(s)[l + 1] = CreateEntry(b) => stateObjects[b] = Nil
<1>0. /\ State \in Threaded /\ State.journal = journal /\ State.objs = stateObjects
      /\ trie \in AccountTrie /\ l \in Nat
  BY StateType DEF IInv, State, Threaded, TypeOK, AccountsTypeOK, JournalTypeOK
<1>1. PICK r : Runs(r, a) /\ Put(r)
  BY DEF CallRuns
<1>2. PICK s1, s2, s3, s4, s5 :
         /\ Primitive(State, s1, a) /\ Primitive(s1, s2, a) /\ Primitive(s2, s3, a)
         /\ Primitive(s3, s4, a) /\ Primitive(s4, s5, a) /\ Primitive(s5, r, a)
  BY <1>1 DEF Runs, Finds, Works
<1>3. P(State)
  BY <1>0
<1>4. ASSUME NEW s \in Threaded, NEW t, Primitive(s, t, a), P(s) PROVE t \in Threaded /\ P(t)
  <2> DEFINE es == E(s)
             fs == E(t)
  <2>0. t \in Threaded
    BY <1>4, PrimitiveType
  <2>1. /\ es \in Seq(Entry) /\ (s.objs[b] # Nil => t.objs[b] # Nil)
        /\ \/ fs = es
           \/ \E e \in Entry : /\ fs = Append(es, e)
                               /\ e.kind = "createObject" => s.objs[e.account] = Nil
    BY <1>0, <1>4, PrimitiveKeepsObjects
  <2>p. /\ Len(es) >= l /\ (stateObjects[b] # Nil => s.objs[b] # Nil)
        /\ Len(es) > l /\ es[l + 1] = CreateEntry(b) => stateObjects[b] = Nil
    BY <1>4
  <2> HIDE DEF es, fs
  <2>2. CASE fs = es
    BY <2>0, <2>1, <2>2, <2>p DEF es, fs
  <2>3. CASE \E e \in Entry : /\ fs = Append(es, e)
                              /\ e.kind = "createObject" => s.objs[e.account] = Nil
    <3>1. PICK e \in Entry : /\ fs = Append(es, e)
                             /\ e.kind = "createObject" => s.objs[e.account] = Nil
      BY <2>3
    <3>2. /\ Len(es) \in Nat /\ Len(fs) = Len(es) + 1 /\ fs[Len(es) + 1] = e
          /\ \A i \in 1..Len(es) : fs[i] = es[i]
      BY <2>1, <3>1
    <3>3. CreateEntry(b).kind = "createObject" /\ CreateEntry(b).account = b
      BY DEF CreateEntry
    <3>4. fs[l + 1] = CreateEntry(b) => stateObjects[b] = Nil
      <4>1. CASE Len(es) > l
        BY <1>0, <2>p, <3>2, <4>1
      <4>2. CASE Len(es) = l
        BY <2>p, <3>1, <3>2, <3>3, <4>2
      <4> QED BY <1>0, <2>p, <3>2, <4>1, <4>2
    <3> QED BY <1>0, <2>0, <2>1, <2>p, <3>2, <3>4 DEF fs, es
  <2> QED BY <2>1, <2>2, <2>3
<1> HIDE DEF P
<1>5. s1 \in Threaded /\ P(s1)
  BY <1>0, <1>2, <1>3, <1>4
<1>6. s2 \in Threaded /\ P(s2)
  BY <1>2, <1>4, <1>5
<1>7. s3 \in Threaded /\ P(s3)
  BY <1>2, <1>4, <1>6
<1>8. s4 \in Threaded /\ P(s4)
  BY <1>2, <1>4, <1>7
<1>9. s5 \in Threaded /\ P(s5)
  BY <1>2, <1>4, <1>8
<1>10. P(r)
  BY <1>2, <1>4, <1>9
<1> QED BY <1>1, <1>10, CallEnd DEF P

\* No account is created over one that exists, unless a read failed: whatever
\* was cached, deleted, reset or reverted before.
THEOREM CreationsNeverHide == Spec => NoCreationOverAccount
<1> DEFINE A == \A a \in Addr :
                   /\ Len(journal'.entries) > Len(journal.entries)
                   /\ journal'.entries[Len(journal.entries) + 1]
                         = [kind |-> "createObject", account |-> a]
                   /\ ~dbErr'
                   => AccountView(a) = Nil
<1>1. IInv /\ IInv' /\ ObjectsLinked' /\ [Next]_vars => [A]_vars
  <2> SUFFICES ASSUME IInv, IInv', ObjectsLinked', [Next]_vars, NEW b \in Addr,
                      Len(journal'.entries) > Len(journal.entries),
                      journal'.entries[Len(journal.entries) + 1] = CreateEntry(b), ~dbErr'
               PROVE  AccountView(b) = Nil
    BY DEF CreateEntry
  <2> DEFINE es == journal.entries
             fs == journal'.entries
             n  == Len(es) + 1
  <2>0. /\ es \in Seq(Entry) /\ fs \in Seq(Entry) /\ Len(es) \in Nat /\ Len(fs) \in Nat
        /\ journal \in JournalType /\ dbErr' = FALSE
    BY DEF IInv, TypeOK, JournalTypeOK, JournalType, AccountsTypeOK
  <2>1. n \in 1..Len(fs) /\ fs[n].kind = "createObject" /\ fs[n].account = b
    BY <2>0 DEF CreateEntry
  <2>2. CASE \E a \in Addr : CallRuns(a) /\ UNCHANGED txVars
    <3>1. stateObjects[b] = Nil
      BY <2>2, CallCreates
    <3>2. trie' = trie
      BY <2>2, CallEnd DEF CallRuns
    <3>3. trie'[b] = Nil
      BY <2>0, <2>1 DEF ObjectsLinked, Linked, CreatesAbsent
    <3> QED BY <3>1, <3>2, <3>3 DEF AccountView
  <2>3. CASE TxSetter /\ UNCHANGED accountVars
    <3>1. ASSUME NEW j \in JournalType, NEW e \in TxEntry
          PROVE  append(j, e) \in JournalType /\ append(j, e).entries = Append(j.entries, e)
                 /\ e.kind # "createObject" /\ e \in Entry
      BY AppendType DEF TxEntry, TxKinds
    <3>2. CASE journal' = journal
      BY <2>0, <3>2
    <3>3. CASE \E e \in TxEntry : journal' = append(journal, e)
      <4>1. PICK e \in TxEntry : fs = Append(es, e) /\ e.kind # "createObject" /\ e \in Entry
        BY <2>0, <3>1, <3>3
      <4> QED BY <2>0, <2>1, <4>1
    <3>4. CASE \E e, f \in TxEntry : journal' = append(append(journal, e), f)
      <4>1. PICK e, f \in TxEntry : journal' = append(append(journal, e), f)
        BY <3>4
      <4>2. /\ fs = Append(Append(es, e), f) /\ e.kind # "createObject" /\ e \in Entry /\ f \in Entry
        BY <2>0, <3>1, <4>1
      <4> QED BY <2>0, <2>1, <4>2
    <3> QED BY <2>3, <3>2, <3>3, <3>4, TxSetterAppends
  <2>4. CASE UndoesEntry
    <3>1. journal' = pop(journal) /\ es # <<>>
      BY <2>4, UndoPops
    <3>2. Len(es) = Len(fs) + 1
      BY <2>0, <3>1, PopType DEF JournalType
    <3> QED BY <2>0, <3>2
  <2>5. CASE ClearsJournal
    BY <2>0, <2>1, <2>5, ClearsToEmpty
  <2>6. CASE KeepsJournal
    BY <2>0, <2>6 DEF KeepsJournal
  <2> QED BY <2>2, <2>3, <2>4, <2>5, <2>6, StepCases
<1>2. Init => ObjectsLinked
  BY DEF Init, JournalInit, newJournal, ObjectsLinked, Linked, CreatesAbsent, ResetsMarked, ObjectsThere
<1>3. IInv /\ ObjectsLinked /\ [Next]_vars => ObjectsLinked'
  BY LinkedStep
<1>4. Spec => []ObjectsLinked
  BY <1>2, <1>3, Invariance, PTL DEF Spec
<1> QED BY <1>1, <1>4, Invariance, PTL DEF Spec, NoCreationOverAccount

\* Every step keeps the resets covered.
LEMMA CoveredStep ==
    ASSUME IInv, IInv', [Next]_vars, "setStorage" \notin Env, "bareReset" \notin Env,
           CountsExact(journal), CountsExact(journal'), ResetsCovered,
           DestructRecorded(journal.entries, stateObjectsDestruct, stateObjectsDirty)
    PROVE  ResetsCovered'
<1> DEFINE l == Len(journal.entries)
<1>0. /\ journal \in JournalType /\ journal' \in JournalType /\ l \in Nat
      /\ validRevisions \in Seq(Revision) /\ Len(validRevisions) \in Nat
      /\ reverting \in 0..Len(validRevisions)
  BY DEF IInv, TypeOK, JournalTypeOK, JournalType, RevisionsOrdered
<1>g. ASSUME Idle, UNCHANGED <<validRevisions, reverting>>, Lengthens(journal', journal, l),
             ResetsDirty(journal', Len(journal'.entries))
      PROVE  ResetsCovered'
  BY <1>0, <1>g, LengthensRevisions DEF ResetsCovered
<1>1. CASE \E a \in Addr : CallRuns(a) /\ UNCHANGED txVars
  <2>1. PICK a \in Addr : CallRuns(a)
    BY <1>1
  <2>2. PICK r : Runs(r, a) /\ Put(r)
    BY <2>1 DEF CallRuns
  <2>3. /\ Idle /\ UNCHANGED <<validRevisions, reverting>> /\ journal' = r.journal
        /\ NoBareReset(journal')
    BY <2>2, CallEnd
  <2>4. Lengthens(journal', journal, l)
    BY <2>2, <2>3, CallMarks
  <2>5. ResetsDirty(journal', Len(journal'.entries))
    BY <1>0, <2>3, NoBareIsDirty
  <2> QED BY <1>g, <2>3, <2>4, <2>5
<1>2. CASE TxSetter /\ UNCHANGED accountVars
  <2>1. Idle /\ UNCHANGED <<validRevisions, reverting>>
    BY <1>2, TxSetterAppends
  <2>2. ResetsDirty(journal, l)
    BY <2>1 DEF ResetsCovered
  <2> DEFINE R(j) == /\ j \in JournalType /\ ResetsDirty(j, Len(j.entries))
                     /\ Lengthens(j, journal, l)
  <2>3. R(journal)
    <3>1. \A b \in Addr : Excess(journal, b) \in Int
      BY <1>0, ExcessDirty
    <3> QED BY <1>0, <2>2, <3>1 DEF Lengthens
  <2>4. ASSUME NEW j, R(j), NEW e \in TxEntry PROVE R(append(j, e))
    <3>1. e \in Entry /\ e.kind # "resetObject"
      BY DEF TxEntry, TxKinds
    <3> DEFINE k == append(j, e)
    <3>2. /\ k \in JournalType /\ ResetsDirty(k, Len(k.entries))
          /\ \A i \in 1..Len(j.entries) : k.entries[i] = j.entries[i]
          /\ Len(k.entries) = Len(j.entries) + 1
          /\ \A a \in Addr : Excess(k, a) = Excess(j, a)
      BY <2>4, <3>1, CoveredAppend
    <3>3. Len(j.entries) \in Nat
      BY <2>4 DEF JournalType
    <3> HIDE DEF k
    <3>4. Lengthens(k, journal, l)
      BY <1>0, <2>4, <3>2, <3>3 DEF Lengthens
    <3> QED BY <3>2, <3>4 DEF k
  <2> HIDE DEF R
  <2>5. R(journal')
    BY <1>2, <2>3, <2>4, TxSetterAppends
  <2> QED BY <1>g, <2>1, <2>5 DEF R
<1>3. CASE UndoesEntry
  <2>1. /\ journal' = pop(journal) /\ journal.entries # <<>> /\ ~Idle
        /\ UNCHANGED <<validRevisions, reverting>>
    BY <1>3, UndoPops DEF Undoing
  <2>a. Len(journal'.entries) \in Nat
    BY <1>0 DEF JournalType
  <2>2. Len(journal'.entries) \in Nat /\ l = Len(journal'.entries) + 1
        /\ \A i \in 1..Len(journal'.entries) : journal'.entries[i] = journal.entries[i]
    BY <1>0, <2>1, <2>a, PopType
  <2>3. \A a \in Addr : Excess(journal', a) = Excess(journal, a) /\ Excess(journal, a) \in Int
    BY <1>0, <2>1, ExcessPop, ExcessDirty
  <2>4. ASSUME NEW v \in 1..Len(validRevisions), v <= reverting
        PROVE  ResetsDirty(journal', validRevisions[v].journalIndex)
    <3> DEFINE n == validRevisions[v].journalIndex
    <3>1. validRevisions[v] \in Revision /\ ResetsDirty(journal, n)
      BY <1>0, <2>4 DEF ResetsCovered
    <3>2. n \in Nat /\ n <= Len(journal'.entries)
      BY <2>1, <2>4, <3>1 DEF IInv, RevisionsOrdered, Revision
    <3> HIDE DEF n
    <3>3. Lengthens(journal', journal, n)
      BY <2>2, <2>3, <3>2 DEF Lengthens
    <3>4. ResetsDirty(journal', n)
      BY <1>0, <3>1, <3>2, <3>3, LengthensKeeps
    <3> QED BY <3>4 DEF n
  <2>5. ~Idle'
    BY <2>1 DEF Idle
  <2> QED BY <2>1, <2>4, <2>5 DEF ResetsCovered
<1>4. CASE ClearsJournal
  <2>1. journal'.entries = <<>> /\ validRevisions' = <<>>
    <3>1. validRevisions' = <<>>
      BY <1>4 DEF ClearsJournal, Finalise, IntermediateRoot, IntermediateRootOn,
         clearJournalAndRefund, Copy
    <3> QED BY <1>4, <3>1, ClearsToEmpty
  <2>2. Len(journal'.entries) = 0 /\ Len(validRevisions') = 0
    BY <2>1
  <2> QED BY <2>2 DEF ResetsCovered, ResetsDirty
<1>5. CASE MovesRevisions /\ UNCHANGED <<txVars, accountVars>>
  <2>1. CASE Snapshot
    <3> DEFINE m == Len(validRevisions)
               rev == [id |-> nextRevisionId, journalIndex |-> l]
    <3>1. /\ Idle /\ journal' = journal /\ reverting' = reverting
          /\ validRevisions' = Append(validRevisions, rev)
      BY <2>1 DEF Snapshot
    <3>2. /\ Len(validRevisions') = m + 1 /\ validRevisions'[m + 1] = rev
          /\ \A i \in 1..m : validRevisions'[i] = validRevisions[i]
      BY <1>0, <3>1
    <3>3. rev.journalIndex = l
      OBVIOUS
    <3>4. ResetsDirty(journal, l) /\ \A v \in 1..m : ResetsDirty(journal, validRevisions[v].journalIndex)
      BY <3>1 DEF ResetsCovered
    <3> HIDE DEF m, rev
    <3>5. \A v \in 1..(m + 1) : ResetsDirty(journal, validRevisions'[v].journalIndex)
      BY <1>0, <3>2, <3>3, <3>4 DEF m
    <3> QED BY <3>1, <3>2, <3>4, <3>5 DEF ResetsCovered
  <2>2. CASE \E id \in 0..(MaxRevisionId - 1) : RevertToSnapshot(id)
    <3>1. /\ Idle /\ journal' = journal /\ validRevisions' = validRevisions
          /\ reverting' \in 1..Len(validRevisions)
      BY <2>2 DEF RevertToSnapshot
    <3>2. ~Idle'
      BY <1>0, <3>1 DEF Idle
    <3> QED BY <3>1, <3>2 DEF ResetsCovered
  <2>3. CASE RevertDone
    <3>1. /\ journal' = journal /\ validRevisions' = SubSeq(validRevisions, 1, reverting - 1)
          /\ reverting # 0 /\ reverting' = 0 /\ ~Undoing
      BY <2>3 DEF RevertDone, Idle
    <3>2. /\ Len(validRevisions') = reverting - 1 /\ reverting - 1 \in 0..Len(validRevisions)
          /\ \A i \in 1..(reverting - 1) : validRevisions'[i] = validRevisions[i]
      BY <1>0, <3>1
    <3>3. reverting \in 1..Len(validRevisions) /\ validRevisions[reverting] \in Revision /\ ~Idle
      BY <1>0, <3>1 DEF Idle
    <3>4. validRevisions[reverting].journalIndex = l
      <4>1. validRevisions[reverting].journalIndex <= l
        BY <1>0, <3>3 DEF IInv, RevisionsOrdered
      <4> QED BY <1>0, <3>1, <3>3, <4>1 DEF Undoing, Revision
    <3>5. \A v \in 1..Len(validRevisions) :
             v <= reverting => ResetsDirty(journal, validRevisions[v].journalIndex)
      BY DEF ResetsCovered
    <3>6. ResetsDirty(journal, l)
      BY <1>0, <3>3, <3>4, <3>5
    <3> QED BY <1>0, <3>1, <3>2, <3>5, <3>6 DEF ResetsCovered
  <2>4. CASE UNCHANGED journalVars
    BY <2>4 DEF journalVars, ResetsCovered, Idle
  <2> QED BY <1>5, <2>1, <2>2, <2>3, <2>4 DEF MovesRevisions
<1> QED BY <1>1, <1>2, <1>3, <1>4, <1>5, HistoryCases

\* What a revert does to the destruct marks.
LEMMA UndoDestruct ==
    ASSUME IInv, UndoesEntry
    PROVE  /\ stateObjectsDestruct' \subseteq stateObjectsDestruct
           /\ \A a \in stateObjectsDestruct' : IsReset(LastEntry, a) => LastEntry.prevdestruct
<1>1. CASE TxUndo /\ UNCHANGED accountVars
  <2>1. LastEntry.kind # "resetObject"
    BY <1>1 DEF TxUndo, UndoRefund, UndoAddLog, UndoAddPreimage, UndoAccessListAddAccount,
       UndoAccessListAddSlot, UndoTransientStorage, Pops
  <2> QED BY <1>1, <2>1 DEF accountVars, IsReset
<1>2. CASE AccountUndo
  BY <1>2 DEF AccountUndo, UndoCreateObject, UndoResetObject, UndoSuicide, UndoTouch, UndoBalance,
     UndoNonce, UndoCode, UndoStorage, UndoField, Undo, IsReset
<1> QED BY <1>1, <1>2 DEF UndoesEntry

\* Every step keeps the destruct marks recorded.
LEMMA RecordedStep ==
    ASSUME IInv, IInv', [Next]_vars, "setStorage" \notin Env,
           CountsExact(journal), ResetsCovered, ObjectsLinked,
           DestructRecorded(journal.entries, stateObjectsDestruct, stateObjectsDirty)
    PROVE  DestructRecorded(journal'.entries, stateObjectsDestruct', stateObjectsDirty')
<1> DEFINE es == journal.entries
           fs == journal'.entries
<1>0. /\ journal \in JournalType /\ es \in Seq(Entry) /\ fs \in Seq(Entry) /\ Len(es) \in Nat
      /\ stateObjectsDestruct \in SUBSET Addr
  BY DEF IInv, TypeOK, JournalTypeOK, JournalType, AccountsTypeOK
<1>1. CASE \E a \in Addr : CallRuns(a) /\ UNCHANGED txVars
  BY <1>1, CallMarks, CallEnd DEF CallRuns
<1>2. CASE TxSetter /\ UNCHANGED accountVars
  <2> DEFINE R(j) == /\ j \in JournalType
                     /\ DestructRecorded(j.entries, stateObjectsDestruct, stateObjectsDirty)
  <2>1. ASSUME NEW j, R(j), NEW e \in TxEntry PROVE R(append(j, e))
    <3>1. e \in Entry /\ e.kind # "resetObject" /\ j \in JournalType /\ j.entries \in Seq(Entry)
      BY <2>1 DEF TxEntry, TxKinds, JournalType
    <3>2. DestructRecorded(Append(j.entries, e), stateObjectsDestruct, stateObjectsDirty)
      BY <2>1, <3>1, RecordedAppend
    <3> QED BY <3>1, <3>2, AppendType
  <2>2. R(journal)
    BY <1>0
  <2> HIDE DEF R
  <2>3. R(journal')
    BY <1>2, <2>1, <2>2, TxSetterAppends
  <2> QED BY <1>2, <2>3 DEF R, accountVars
<1>3. CASE UndoesEntry
  <2>1. /\ journal' = pop(journal) /\ es # <<>> /\ LastEntry = es[Len(es)]
    BY <1>3, UndoPops
  <2>2. Len(es) = Len(fs) + 1 /\ \A i \in 1..Len(fs) : fs[i] = es[i]
    BY <1>0, <2>1, PopType DEF JournalType
  <2>3. stateObjectsDirty' = stateObjectsDirty
    BY <1>3, UndoKeepsMarks
  <2>4. DestructRecorded(fs, stateObjectsDestruct', stateObjectsDirty)
    BY <1>0, <1>3, <2>1, <2>2, UndoDestruct, RecordedPop
  <2> QED BY <2>3, <2>4
<1>4. CASE ClearsJournal
  <2>1. fs = <<>> /\ Idle
    BY <1>4, ClearsToEmpty
  <2>2. stateObjectsDirty' = stateObjectsDirty \cup Finalised
    BY <1>4, ClearsMarks
  <2>3. \A a \in stateObjectsDestruct' : a \in stateObjectsDestruct \/ a \in Finalised
    BY <1>4 DEF ClearsJournal, Finalise, IntermediateRoot, IntermediateRootOn, Copy, FinalisedDestruct
  <2>4. ASSUME NEW a \in stateObjectsDestruct, a \notin stateObjectsDirty PROVE a \in Finalised
    <3>1. PICK i \in 1..Len(es) : IsReset(es[i], a)
      BY <2>4 DEF DestructRecorded
    <3>2. NoBareReset(journal)
      BY <2>1, CoveredIdle
    <3>3. journal.dirties[a] # 0
      BY <3>1, <3>2 DEF NoBareReset, IsReset
    <3>4. stateObjects[a] # Nil
      BY <3>1 DEF ObjectsLinked, Linked, ObjectsThere, ObjectKinds, IsReset
    <3> QED BY <1>0, <3>3, <3>4 DEF Finalised, DirtyAccounts
  <2>5. Len(fs) = 0
    BY <2>1
  <2> QED BY <2>2, <2>3, <2>4, <2>5 DEF DestructRecorded
<1>5. CASE KeepsJournal
  BY <1>5 DEF KeepsJournal, accountVars
<1> QED BY <1>1, <1>2, <1>3, <1>4, <1>5, StepCases

-----------------------------------------------------------------------------
(* What an object says of its storage trie.                                *)

\* The trie of the object is open, or can be opened at its root.
Openable(o) == o.trie = Nil => o.root \in PersistedRoots

\* The slot was read from the trie, or is empty there.
Loaded(o, k) == o.originStorage[k] # Nil \/ getTrie(o)[k] = Zero

\* The object o of account a, which is destructed or not: a cached origin is
\* what the trie has; a slot without one is empty if it was written, and is
\* otherwise what a reader of the snapshot would find.
SlotCoherent(a, o, d, k) ==
    /\ o.originStorage[k] # Nil => o.originStorage[k] = getTrie(o)[k]
    /\ o.originStorage[k] = Nil =>
          /\ o.pendingStorage[k] # Nil \/ o.dirtyStorage[k] # Nil => getTrie(o)[k] = Zero
          /\ IF d THEN o.deleted \/ getTrie(o)[k] = Zero
             ELSE getTrie(o)[k] = SnapshotSlot(a, k)

Coherent(a, o, d) == \A k \in Key : SlotCoherent(a, o, d, k)

\* An object that was just made, from an account in the trie or a new one.
LEMMA NewCoherent ==
    ASSUME NEW x \in Account, NEW o,
           \/ o = newObject(x)
           \/ \E b : o = [newObject(x) EXCEPT !.balance = b]
    PROVE  /\ getTrie(o) = x.root
           /\ \A k \in Key : /\ o.originStorage[k] = Nil /\ o.pendingStorage[k] = Nil
                             /\ o.dirtyStorage[k] = Nil
           /\ o.trie = Nil /\ o.root = x.root
<1> DEFINE n == newObject(x)
<1>1. /\ n.trie = Nil /\ n.root = x.root
      /\ n.originStorage = NoStorage /\ n.pendingStorage = NoStorage /\ n.dirtyStorage = NoStorage
  BY DEF newObject
<1>2. n \in Object
  BY NewObjectType
<1> HIDE DEF n
<1>3. /\ o.trie = Nil /\ o.root = x.root
      /\ o.originStorage = NoStorage /\ o.pendingStorage = NoStorage /\ o.dirtyStorage = NoStorage
  BY <1>1, <1>2 DEF n, Object
<1> QED BY <1>3 DEF getTrie, NoStorage

\* An object with the same storage.
SameSlots(o, p) ==
    /\ p.trie = o.trie /\ p.root = o.root
    /\ p.originStorage = o.originStorage /\ p.pendingStorage = o.pendingStorage
    /\ p.dirtyStorage = o.dirtyStorage
    /\ o.deleted => p.deleted

\* Objects with the same slots are equally coherent.
LEMMA SameCoherent ==
    ASSUME NEW o, NEW p, SameSlots(o, p), NEW a, NEW d
    PROVE  /\ Openable(o) => Openable(p)
           /\ Coherent(a, o, d) => Coherent(a, p, d)
           /\ \A k \in Key : Loaded(o, k) => Loaded(p, k)
<1>1. getTrie(p) = getTrie(o)
  BY DEF SameSlots, getTrie
<1> QED BY <1>1 DEF SameSlots, Openable, Coherent, SlotCoherent, Loaded

\* Reading a slot.
LEMMA CachedCoherent ==
    ASSUME NEW o \in Object, NEW k \in Key, NEW a, NEW d, NEW c
    PROVE  LET p == Cached(o, c, k)
           IN /\ Openable(o) => Openable(p)
              /\ Coherent(a, o, d) => Coherent(a, p, d)
              /\ \A l \in Key : Loaded(o, l) => Loaded(p, l)
<1> DEFINE p == Cached(o, c, k)
           g == getTrie(o)
<1>1. CASE ~NeedsTrie(o, c, k)
  BY <1>1 DEF Cached
<1>2. CASE NeedsTrie(o, c, k)
  <2> DEFINE m == [o.originStorage EXCEPT ![k] = g[k]]
  <2>1. p = [o EXCEPT !.trie = g, !.originStorage = m]
    BY <1>2 DEF Cached
  <2>2. g \in Slots /\ g # Nil /\ g[k] # Nil
    BY GetTrieType, ConstantsAssumption DEF Slots
  <2>3. m[k] = g[k] /\ \A l \in Key \ {k} : m[l] = o.originStorage[l]
    BY DEF Object, Cache
  <2> HIDE DEF m, g
  <2>4. /\ p.trie = g /\ p.originStorage = m /\ p.pendingStorage = o.pendingStorage
        /\ p.dirtyStorage = o.dirtyStorage /\ p.deleted = o.deleted
    BY <2>1 DEF Object
  <2> HIDE DEF p
  <2>5. getTrie(p) = g
    BY <2>2, <2>4 DEF getTrie
  <2>6. Openable(p)
    BY <2>2, <2>4 DEF Openable
  <2>7. ASSUME NEW l \in Key, SlotCoherent(a, o, d, l) PROVE SlotCoherent(a, p, d, l)
    BY <2>2, <2>3, <2>4, <2>5, <2>7 DEF SlotCoherent, g
  <2>8. ASSUME NEW l \in Key, Loaded(o, l) PROVE Loaded(p, l)
    BY <2>2, <2>3, <2>4, <2>5, <2>8 DEF Loaded, g
  <2> QED BY <2>6, <2>7, <2>8 DEF Coherent, p
<1> QED BY <1>1, <1>2

\* Writing a slot that was read.
LEMMA WriteCoherent ==
    ASSUME NEW o \in Object, NEW k \in Key, NEW a, NEW d, NEW m, NEW p,
           p = [o EXCEPT !.dirtyStorage = m],
           \A l \in Key \ {k} : m[l] = o.dirtyStorage[l]
    PROVE  /\ Openable(o) => Openable(p)
           /\ Coherent(a, o, d) /\ Loaded(o, k) => Coherent(a, p, d)
           /\ \A l \in Key : Loaded(o, l) => Loaded(p, l)
<1>1. /\ p.trie = o.trie /\ p.root = o.root /\ p.originStorage = o.originStorage
      /\ p.pendingStorage = o.pendingStorage /\ p.dirtyStorage = m /\ p.deleted = o.deleted
  BY DEF Object
<1>2. getTrie(p) = getTrie(o)
  BY <1>1 DEF getTrie
<1>3. ASSUME NEW l \in Key, SlotCoherent(a, o, d, l), Loaded(o, k) PROVE SlotCoherent(a, p, d, l)
  BY <1>1, <1>2, <1>3 DEF SlotCoherent, Loaded
<1> QED BY <1>1, <1>2, <1>3 DEF Openable, Coherent, Loaded

\* A slot that was written, or that does not need the trie, was read.
LEMMA CoherentLoaded ==
    ASSUME NEW o, NEW k \in Key, NEW a, NEW d, Coherent(a, o, d), ~o.deleted,
           o.dirtyStorage[k] # Nil \/ ~NeedsTrie(o, d, k)
    PROVE  Loaded(o, k)
BY DEF Coherent, SlotCoherent, NeedsTrie, Loaded

\* The end of a transaction.
LEMMA FinaliseCoherent ==
    ASSUME NEW o \in Object, NEW a, NEW d
    PROVE  /\ Openable(o) => Openable(finalise(o))
           /\ Coherent(a, o, d) => Coherent(a, finalise(o), d)
<1> DEFINE p == finalise(o)
           m == [k \in Key |-> IF o.dirtyStorage[k] # Nil
                               THEN o.dirtyStorage[k] ELSE o.pendingStorage[k]]
<1>1. p = [o EXCEPT !.pendingStorage = m, !.dirtyStorage = NoStorage]
  BY DEF finalise
<1>2. \A k \in Key : m[k] # Nil => o.dirtyStorage[k] # Nil \/ o.pendingStorage[k] # Nil
  OBVIOUS
<1> HIDE DEF m
<1>3. /\ p.trie = o.trie /\ p.root = o.root /\ p.originStorage = o.originStorage
      /\ p.pendingStorage = m /\ p.dirtyStorage = NoStorage /\ p.deleted = o.deleted
  BY <1>1 DEF Object
<1> HIDE DEF p
<1>4. getTrie(p) = getTrie(o)
  BY <1>3 DEF getTrie
<1>5. ASSUME NEW k \in Key, SlotCoherent(a, o, d, k) PROVE SlotCoherent(a, p, d, k)
  BY <1>2, <1>3, <1>4, <1>5 DEF SlotCoherent, NoStorage
<1> QED BY <1>3, <1>5 DEF Openable, Coherent, p

\* The storage is written to the trie: every slot is there as callers saw it,
\* whatever updateTrie skipped.
FlushedSlot(o, p, d, k) ==
    /\ p.pendingStorage[k] = Nil /\ p.dirtyStorage[k] = Nil
    /\ getTrie(p)[k] = StateValue(o, d, k)
    /\ \/ p.originStorage[k] = getTrie(p)[k]
       \/ p.originStorage[k] = Nil /\ o.originStorage[k] = Nil /\ getTrie(p)[k] = getTrie(o)[k]

SameAccount(o, p) ==
    /\ p.nonce = o.nonce /\ p.balance = o.balance /\ p.code = o.code
    /\ p.suicided = o.suicided /\ p.deleted = o.deleted

\* updateTrie brings the slots that differ into the storage trie.
LEMMA UpdateTrieSlots ==
    ASSUME NEW o \in Object, ~o.deleted, NEW a, NEW d \in BOOLEAN, Coherent(a, o, d)
    PROVE  /\ updateTrie(o) \in Object
           /\ SameAccount(o, updateTrie(o))
           /\ updateTrie(o).trie = Nil => updateTrie(o).root = o.root /\ o.trie = Nil
           /\ \A k \in Key : FlushedSlot(o, updateTrie(o), d, k)
<1> DEFINE f == finalise(o)
           m == [k \in Key |-> IF o.dirtyStorage[k] # Nil
                               THEN o.dirtyStorage[k] ELSE o.pendingStorage[k]]
           g == getTrie(o)
<1>1. f = [o EXCEPT !.pendingStorage = m, !.dirtyStorage = NoStorage]
  BY DEF finalise
<1>2. \A k \in Key : /\ o.dirtyStorage[k] # Nil => m[k] = o.dirtyStorage[k]
                     /\ o.dirtyStorage[k] = Nil => m[k] = o.pendingStorage[k]
  OBVIOUS
<1>3. \A k \in Key : /\ m[k] # Nil => StateValue(o, d, k) = m[k]
                     /\ m[k] = Nil => StateValue(o, d, k) = IF o.originStorage[k] # Nil
                                                            THEN o.originStorage[k]
                                                            ELSE IF d THEN Zero ELSE g[k]
  BY <1>2 DEF StateValue, CommittedValue
<1>4. \A k \in Key : m[k] # Nil => o.dirtyStorage[k] # Nil \/ o.pendingStorage[k] # Nil
  BY <1>2
<1>5. f \in Object /\ g \in Slots
  BY FinaliseType, GetTrieType
<1> HIDE DEF m
<1>6. /\ f.trie = o.trie /\ f.root = o.root /\ f.originStorage = o.originStorage
      /\ f.pendingStorage = m /\ f.dirtyStorage = NoStorage
      /\ f.nonce = o.nonce /\ f.balance = o.balance /\ f.code = o.code
  BY <1>1 DEF Object
<1>7. f.suicided = o.suicided /\ f.deleted = o.deleted
  BY <1>1 DEF Object
<1>8. getTrie(f) = g
  BY <1>6 DEF getTrie
<1>9. \A k \in Key : SlotCoherent(a, o, d, k)
  BY DEF Coherent
<1>10. ASSUME NEW k \in Key PROVE NoStorage[k] = Nil
  BY DEF NoStorage
<1> HIDE DEF f, g
<1>11. CASE f.pendingStorage = NoStorage
  <2>1. updateTrie(o) = f
    BY <1>11 DEF updateTrie, f
  <2>2. ASSUME NEW k \in Key PROVE FlushedSlot(o, f, d, k)
    <3>1. m[k] = Nil
      BY <1>6, <1>10, <1>11
    <3>2. SlotCoherent(a, o, d, k)
      BY <1>9
    <3> QED BY <1>3, <1>6, <1>8, <1>10, <1>11, <3>1, <3>2 DEF FlushedSlot, SlotCoherent, g
  <2> QED BY <1>5, <1>6, <1>7, <2>1, <2>2 DEF SameAccount
<1>12. CASE f.pendingStorage # NoStorage
  <2> DEFINE c == Changed(f)
             w == Written(f, c, c)
             p == [w EXCEPT !.pendingStorage = NoStorage]
             mo == [k \in Key |-> IF k \in c THEN f.pendingStorage[k] ELSE f.originStorage[k]]
             mt == [k \in Key |-> IF k \in c THEN f.pendingStorage[k] ELSE getTrie(f)[k]]
  <2>1. updateTrie(o) = p
    BY <1>12 DEF updateTrie, f
  <2>2. w \in Object /\ w.trie \in Slots
    BY <1>5, WrittenType
  <2>3. w = [f EXCEPT !.originStorage = mo, !.trie = mt]
    BY DEF Written
  <2>4. \A k \in Key : /\ mo[k] = IF k \in c THEN m[k] ELSE o.originStorage[k]
                       /\ mt[k] = IF k \in c THEN m[k] ELSE g[k]
    BY <1>6, <1>8
  <2>5. \A k \in Key : k \in c <=> m[k] # Nil /\ m[k] # IF o.originStorage[k] = Nil THEN Zero
                                                       ELSE o.originStorage[k]
    BY <1>6 DEF Changed, OriginOrZero
  <2> HIDE DEF c, mo, mt
  <2>6. /\ w.trie = mt /\ w.root = f.root /\ w.originStorage = mo /\ w.dirtyStorage = f.dirtyStorage
        /\ w.nonce = f.nonce /\ w.balance = f.balance /\ w.code = f.code
    BY <1>5, <2>3 DEF Object
  <2>7. w.suicided = f.suicided /\ w.deleted = f.deleted
    BY <1>5, <2>3 DEF Object
  <2> HIDE DEF w
  <2>8. NoStorage \in Cache
    BY DEF NoStorage, Cache
  <2>9. /\ p \in Object /\ p.trie = mt /\ p.root = f.root /\ p.originStorage = mo
        /\ p.dirtyStorage = f.dirtyStorage /\ p.pendingStorage = NoStorage
        /\ p.nonce = f.nonce /\ p.balance = f.balance /\ p.code = f.code
    BY <2>2, <2>6, <2>8 DEF Object
  <2>10. p.suicided = f.suicided /\ p.deleted = f.deleted
    BY <2>2, <2>7 DEF Object
  <2> HIDE DEF p
  <2>11. mt # Nil
    BY <2>2, <2>6, ConstantsAssumption
  <2>12. getTrie(p) = mt
    BY <2>9, <2>11 DEF getTrie
  <2>13. ASSUME NEW k \in Key PROVE FlushedSlot(o, p, d, k)
    <3>1. p.pendingStorage[k] = Nil /\ p.dirtyStorage[k] = Nil
      BY <1>6, <1>10, <2>9
    <3>2. SlotCoherent(a, o, d, k)
      BY <1>9
    <3>3. mt[k] = StateValue(o, d, k)
      <4>1. CASE k \in c
        BY <1>3, <2>4, <2>5, <4>1
      <4>2. CASE k \notin c /\ m[k] # Nil
        BY <1>3, <1>4, <2>4, <2>5, <3>2, <4>2 DEF SlotCoherent, g
      <4>3. CASE k \notin c /\ m[k] = Nil
        BY <1>3, <2>4, <3>2, <4>3 DEF SlotCoherent, g
      <4> QED BY <4>1, <4>2, <4>3
    <3>4. \/ mo[k] = mt[k]
          \/ mo[k] = Nil /\ o.originStorage[k] = Nil /\ mt[k] = g[k]
      BY <2>4, <3>2 DEF SlotCoherent, g
    <3> QED BY <2>9, <2>12, <3>1, <3>3, <3>4 DEF FlushedSlot, g
  <2>14. SameAccount(o, p)
    BY <1>6, <1>7, <2>9, <2>10 DEF SameAccount
  <2> QED BY <2>1, <2>9, <2>11, <2>13, <2>14
<1> QED BY <1>11, <1>12

\* updateRoot, and the account's root follows the trie.
LEMMA UpdateRootSlots ==
    ASSUME NEW o \in Object, ~o.deleted, NEW a, NEW d \in BOOLEAN, Coherent(a, o, d)
    PROVE  /\ SameAccount(o, updateRoot(o))
           /\ updateRoot(o).root = getTrie(updateRoot(o))
           /\ \A k \in Key : FlushedSlot(o, updateRoot(o), d, k)
           /\ Coherent(a, updateRoot(o), d)
<1> DEFINE t == updateTrie(o)
           p == updateRoot(o)
           r == getTrie(t)
<1>1. /\ t \in Object /\ SameAccount(o, t)
      /\ \A k \in Key : FlushedSlot(o, t, d, k)
  BY UpdateTrieSlots
<1>2. p = [t EXCEPT !.root = r]
  BY DEF updateRoot
<1> HIDE DEF t, r
<1>3. /\ p.root = r /\ p.trie = t.trie /\ p.originStorage = t.originStorage
      /\ p.pendingStorage = t.pendingStorage /\ p.dirtyStorage = t.dirtyStorage
      /\ p.nonce = t.nonce /\ p.balance = t.balance /\ p.code = t.code
  BY <1>1, <1>2 DEF Object
<1>4. p.suicided = t.suicided /\ p.deleted = t.deleted
  BY <1>1, <1>2 DEF Object
<1> HIDE DEF p
<1>5. getTrie(p) = r
  BY <1>3 DEF getTrie, r
<1>6. \A k \in Key : FlushedSlot(o, p, d, k)
  BY <1>1, <1>3, <1>5 DEF FlushedSlot, r
<1>7. SameAccount(o, p)
  BY <1>1, <1>3, <1>4 DEF SameAccount
<1>8. ASSUME NEW k \in Key PROVE SlotCoherent(a, p, d, k)
  <2>1. getTrie(p) \in Slots
    BY UpdateRootType, GetTrieType DEF p
  <2>2. getTrie(p)[k] # Nil
    BY <2>1, ConstantsAssumption DEF Slots
  <2>3. FlushedSlot(o, p, d, k) /\ SlotCoherent(a, o, d, k) /\ p.deleted = o.deleted
    BY <1>6, <1>7 DEF Coherent, SameAccount
  <2> QED BY <2>2, <2>3 DEF FlushedSlot, SlotCoherent
<1> QED BY <1>3, <1>5, <1>6, <1>7, <1>8 DEF Coherent, p

\* Whatever fails, a trie that is not open was not opened.
LEMMA FlushOpenable ==
    ASSUME NEW o \in Object, Openable(o)
    PROVE  /\ Openable(updateRoot(o))
           /\ \A f \in updateRootFailed(o) : Openable(f)
<1> DEFINE g == finalise(o)
<1>1. g \in Object /\ Openable(g)
  BY FinaliseType, FinaliseCoherent
<1> HIDE DEF g
<1>2. ASSUME NEW ks \in SUBSET Changed(g), NEW ws \in SUBSET ks
      PROVE  Written(g, ks, ws) \in Object /\ Written(g, ks, ws).trie # Nil
  BY <1>1, WrittenType, ConstantsAssumption
<1>3. ASSUME NEW f \in updateRootFailed(o) PROVE Openable(f)
  <2>1. f = g \/ \E done \in SUBSET Changed(g) : \E k \in Changed(g) \ done :
                    f = Written(g, done \cup {k}, done)
    BY DEF updateRootFailed, g
  <2> QED BY <1>1, <1>2, <2>1 DEF Openable
<1>4. updateTrie(o) \in Object /\ Openable(updateTrie(o))
  <2> DEFINE w == Written(g, Changed(g), Changed(g))
  <2>1. w \in Object /\ w.trie # Nil
    BY <1>2
  <2>2. NoStorage \in Cache
    BY DEF NoStorage, Cache
  <2> HIDE DEF w
  <2>3. [w EXCEPT !.pendingStorage = NoStorage].trie = w.trie
        /\ [w EXCEPT !.pendingStorage = NoStorage] \in Object
    BY <2>1, <2>2 DEF Object
  <2> QED BY <1>1, <2>1, <2>3 DEF updateTrie, g, w, Openable
<1> DEFINE t == updateTrie(o)
           r == getTrie(t)
<1>5. updateRoot(o) = [t EXCEPT !.root = r]
  BY DEF updateRoot
<1> HIDE DEF t
<1>6. r = t.root \/ t.trie # Nil
  BY DEF getTrie
<1> HIDE DEF r
<1>7. [t EXCEPT !.root = r].trie = t.trie /\ [t EXCEPT !.root = r].root = r
  BY <1>4 DEF Object, t
<1>8. Openable(updateRoot(o))
  BY <1>4, <1>5, <1>6, <1>7 DEF Openable, t
<1> QED BY <1>3, <1>8

-----------------------------------------------------------------------------
(* The objects, and those that a revert brings back, agree with their      *)
(* tries.                                                                  *)

\* A slot that was written was read first, in the object that is there and in
\* those that later resets replaced.
SlotsLoaded(es, objs) ==
    \A i \in 1..Len(es) : es[i].kind = "storage" =>
        /\ Loaded(objs[es[i].account], es[i].key)
        /\ \A m \in (i + 1)..Len(es) :
              IsReset(es[m], es[i].account) => Loaded(es[m].prev, es[i].key)

ObjectsCoherent(objs, destruct) ==
    \A a \in Addr : objs[a] # Nil => Coherent(a, objs[a], a \in destruct)

ResetsCoherent(es) ==
    \A i \in 1..Len(es) : es[i].kind = "resetObject" =>
        Coherent(es[i].account, es[i].prev, es[i].prevdestruct)

ObjectsOpenable(es, objs) ==
    /\ \A a \in Addr : objs[a] # Nil => Openable(objs[a])
    /\ \A i \in 1..Len(es) : es[i].kind = "resetObject" => Openable(es[i].prev)

Stored(es, objs, destruct, err) ==
    /\ ObjectsOpenable(es, objs)
    /\ err = FALSE => ObjectsCoherent(objs, destruct) /\ ResetsCoherent(es) /\ SlotsLoaded(es, objs)

\* The objects of a step agree with their tries, and remember what was read.
Keeps(objs, objs2, destruct2, err2) ==
    /\ \A b \in Addr : objs2[b] # Nil => Openable(objs2[b])
    /\ err2 = FALSE =>
          /\ ObjectsCoherent(objs2, destruct2)
          /\ \A b \in Addr, k \in Key :
                objs[b] # Nil /\ Loaded(objs[b], k) => Loaded(objs2[b], k)

\* The entries stay coherent while objects keep their loaded slots ...
LEMMA StoredKeep ==
    ASSUME NEW es \in Seq(Entry), NEW objs, NEW destruct, NEW err, Stored(es, objs, destruct, err),
           ObjectsThere(es, objs), NEW objs2, NEW destruct2, NEW err2,
           err2 = FALSE => err = FALSE, Keeps(objs, objs2, destruct2, err2)
    PROVE  Stored(es, objs2, destruct2, err2)
<1>1. ObjectsOpenable(es, objs2)
  BY DEF Stored, ObjectsOpenable, Keeps
<1>2. ASSUME err2 = FALSE PROVE SlotsLoaded(es, objs2)
  <2>1. SlotsLoaded(es, objs)
    BY <1>2 DEF Stored
  <2>2. ASSUME NEW i \in 1..Len(es), es[i].kind = "storage"
        PROVE  Loaded(objs2[es[i].account], es[i].key)
    <3>1. es[i].account \in Addr /\ es[i].key \in Key
      BY <2>2, EntryFields
    <3>2. objs[es[i].account] # Nil
      BY <2>2 DEF ObjectsThere, ObjectKinds
    <3> QED BY <1>2, <2>1, <2>2, <3>1, <3>2 DEF Keeps, SlotsLoaded
  <2> QED BY <2>1, <2>2 DEF SlotsLoaded
<1> QED BY <1>1, <1>2 DEF Stored, Keeps

\* ... when an entry is appended ...
LEMMA StoredAppend ==
    ASSUME NEW es \in Seq(Entry), NEW objs, NEW destruct, NEW err, Stored(es, objs, destruct, err),
           ObjectsThere(es, objs), NEW objs2, NEW destruct2, NEW err2,
           err2 = FALSE => err = FALSE, Keeps(objs, objs2, destruct2, err2),
           NEW e \in Entry,
           e.kind = "storage" /\ err2 = FALSE => Loaded(objs2[e.account], e.key),
           e.kind = "resetObject" =>
               /\ e.prev = objs[e.account] /\ Openable(e.prev)
               /\ err2 = FALSE => Coherent(e.account, e.prev, e.prevdestruct)
    PROVE  Stored(Append(es, e), objs2, destruct2, err2)
<1> DEFINE fs == Append(es, e)
           n  == Len(es)
<1>1. /\ n \in Nat /\ Len(fs) = n + 1 /\ fs[n + 1] = e
      /\ \A i \in 1..n : fs[i] = es[i]
  OBVIOUS
<1>2. Stored(es, objs2, destruct2, err2)
  BY StoredKeep
<1> HIDE DEF fs, n
<1>3. ObjectsOpenable(fs, objs2)
  BY <1>1, <1>2 DEF Stored, ObjectsOpenable, n
<1>4. ASSUME err2 = FALSE PROVE ResetsCoherent(fs)
  BY <1>1, <1>2, <1>4 DEF Stored, ResetsCoherent, n
<1>5. ASSUME err2 = FALSE PROVE SlotsLoaded(fs, objs2)
  <2>1. SlotsLoaded(es, objs2) /\ SlotsLoaded(es, objs)
    BY <1>2, <1>5 DEF Stored
  <2> SUFFICES ASSUME NEW i \in 1..(n + 1), fs[i].kind = "storage"
               PROVE  /\ Loaded(objs2[fs[i].account], fs[i].key)
                      /\ \A m \in (i + 1)..(n + 1) :
                            IsReset(fs[m], fs[i].account) => Loaded(fs[m].prev, fs[i].key)
    BY <1>1 DEF SlotsLoaded
  <2>2. CASE i = n + 1
    BY <1>1, <1>5, <2>2
  <2>3. CASE i \in 1..n
    <3>1. fs[i] = es[i] /\ Loaded(objs2[es[i].account], es[i].key)
          /\ Loaded(objs[es[i].account], es[i].key)
      BY <1>1, <2>1, <2>3 DEF SlotsLoaded, n
    <3>2. \A m \in (i + 1)..n : IsReset(es[m], es[i].account) => Loaded(es[m].prev, es[i].key)
      BY <2>1, <2>3, <3>1 DEF SlotsLoaded, n
    <3>3. IsReset(e, es[i].account) => Loaded(e.prev, es[i].key)
      BY <3>1 DEF IsReset
    <3> QED BY <1>1, <2>3, <3>1, <3>2, <3>3
  <2> QED BY <1>1, <2>2, <2>3
<1> QED BY <1>2, <1>3, <1>4, <1>5 DEF Stored, fs

\* ... and when the last entry is reverted.
LEMMA StoredPop ==
    ASSUME NEW es \in Seq(Entry), NEW fs \in Seq(Entry), NEW objs, NEW destruct, NEW err,
           Stored(es, objs, destruct, err), ObjectsThere(es, objs),
           Len(es) = Len(fs) + 1, \A i \in 1..Len(fs) : fs[i] = es[i],
           NEW objs2, NEW destruct2,
           \A b \in Addr : objs2[b] # Nil => Openable(objs2[b]),
           err = FALSE => ObjectsCoherent(objs2, destruct2),
           err = FALSE => \A b \in Addr, k \in Key : objs[b] # Nil /\ Loaded(objs[b], k) =>
               \/ Loaded(objs2[b], k)
               \/ IsReset(es[Len(es)], b) /\ objs2[b] = es[Len(es)].prev
               \/ es[Len(es)].kind = "createObject" /\ es[Len(es)].account = b
    PROVE  Stored(fs, objs2, destruct2, err)
<1> DEFINE n == Len(fs)
<1>1. n \in Nat /\ Len(es) = n + 1
  OBVIOUS
<1> HIDE DEF n
<1>2. ObjectsOpenable(fs, objs2)
  BY <1>1 DEF Stored, ObjectsOpenable, n
<1>3. ASSUME err = FALSE PROVE ResetsCoherent(fs)
  BY <1>1, <1>3 DEF Stored, ResetsCoherent, n
<1>4. ASSUME err = FALSE PROVE SlotsLoaded(fs, objs2)
  <2>1. SlotsLoaded(es, objs)
    BY <1>4 DEF Stored
  <2> SUFFICES ASSUME NEW i \in 1..n, es[i].kind = "storage"
               PROVE  /\ Loaded(objs2[es[i].account], es[i].key)
                      /\ \A m \in (i + 1)..n :
                            IsReset(es[m], es[i].account) => Loaded(es[m].prev, es[i].key)
    BY <1>1 DEF SlotsLoaded, n
  <2>2. i \in 1..Len(es) /\ n + 1 \in (i + 1)..Len(es)
    BY <1>1
  <2> DEFINE a == es[i].account
             k == es[i].key
  <2>3. a \in Addr /\ k \in Key
    BY <2>2, EntryFields
  <2>4. /\ Loaded(objs[a], k)
        /\ \A m \in (i + 1)..(n + 1) : IsReset(es[m], a) => Loaded(es[m].prev, k)
    BY <1>1, <2>1, <2>2 DEF SlotsLoaded
  <2>5. objs[a] # Nil /\ ~(es[n + 1].kind = "createObject" /\ es[n + 1].account = a)
    BY <2>2 DEF ObjectsThere, ObjectKinds
  <2> HIDE DEF a, k
  <2>6. \/ Loaded(objs2[a], k)
        \/ IsReset(es[n + 1], a) /\ objs2[a] = es[n + 1].prev
    BY <1>1, <1>4, <2>3, <2>4, <2>5
  <2>7. Loaded(objs2[a], k)
    BY <1>1, <2>2, <2>4, <2>6
  <2> QED BY <1>1, <2>4, <2>7 DEF a, k
<1> QED BY <1>2, <1>3, <1>4 DEF Stored

\* A step that changes the object of one account.
LEMMA KeepsAt ==
    ASSUME NEW es, NEW objs \in ObjectMap, NEW destruct, NEW err, Stored(es, objs, destruct, err),
           NEW a \in Addr, NEW o \in Object, NEW objs2, NEW destruct2, NEW err2,
           err2 = FALSE => err = FALSE,
           objs2 = [objs EXCEPT ![a] = o],
           \A b \in Addr \ {a} : b \in destruct2 <=> b \in destruct,
           Openable(o),
           err2 = FALSE => Coherent(a, o, a \in destruct2),
           err2 = FALSE => \A k \in Key : objs[a] # Nil /\ Loaded(objs[a], k) => Loaded(o, k)
    PROVE  Keeps(objs, objs2, destruct2, err2)
<1>1. objs2[a] = o /\ \A b \in Addr \ {a} : objs2[b] = objs[b]
  BY UpdatedMap
<1>2. \A b \in Addr : objs2[b] # Nil => Openable(objs2[b])
  BY <1>1 DEF Stored, ObjectsOpenable
<1>3. ASSUME err2 = FALSE PROVE ObjectsCoherent(objs2, destruct2)
  <2> SUFFICES ASSUME NEW b \in Addr, objs2[b] # Nil PROVE Coherent(b, objs2[b], b \in destruct2)
    BY DEF ObjectsCoherent
  <2>1. CASE b = a
    BY <1>1, <1>3, <2>1
  <2>2. CASE b # a
    <3> DEFINE d == b \in destruct
               f == b \in destruct2
    <3>1. f = d
      BY <2>2
    <3>2. Coherent(b, objs[b], d) /\ objs2[b] = objs[b]
      BY <1>1, <1>3, <2>2 DEF Stored, ObjectsCoherent
    <3> HIDE DEF d, f
    <3>3. Coherent(b, objs2[b], f)
      BY <3>1, <3>2
    <3> QED BY <3>3 DEF f
  <2> QED BY <2>1, <2>2
<1> QED BY <1>1, <1>2, <1>3 DEF Keeps

\* An account without an object was not destructed, and not written.
Absent(objs, destruct) ==
    \A b \in Addr : objs[b] = Nil => b \notin destruct /\ trie[b] = originalRoot[b]

\* A primitive step marks no absent account.
LEMMA AbsentPrimitive ==
    ASSUME NEW s \in Threaded, NEW a \in Addr, NEW r, Primitive(s, r, a), trie \in AccountTrie,
           "setStorage" \notin Env, Absent(s.objs, s.destruct)
    PROVE  Absent(r.objs, r.destruct)
<1>1. \A b \in Addr : s.objs[b] # Nil => r.objs[b] # Nil
  BY PrimitiveKeepsObjects
<1>2. r.destruct = s.destruct \/ Resets(s, r, a)
  BY DEF Primitive, Fails, Marks, Loads, Creates, Caches, Touches, Changes, Fields
<1>3. Resets(s, r, a) => r.objs[a] # Nil /\ \A b \in r.destruct : b \in s.destruct \/ b = a
  BY <1>1 DEF Resets, Fields
<1> QED BY <1>1, <1>2, <1>3 DEF Absent

\* The primitive steps of a call.
LEMMA StoredPrimitive ==
    ASSUME NEW s \in Threaded, NEW a \in Addr, NEW r, Primitive(s, r, a), trie \in AccountTrie,
           originalRoot \in AccountTrie,
           "setStorage" \notin Env, Absent(s.objs, s.destruct),
           ObjectsThere(s.journal.entries, s.objs),
           Stored(s.journal.entries, s.objs, s.destruct, s.err)
    PROVE  Stored(r.journal.entries, r.objs, r.destruct, r.err)
<1> DEFINE es == s.journal.entries
           fs == r.journal.entries
           so == s.objs
           sd == s.destruct
           se == s.err
           ro == r.objs
           rd == r.destruct
           re == r.err
<1>0. /\ s.journal \in JournalType /\ so \in ObjectMap /\ es \in Seq(Entry) /\ se \in BOOLEAN
  BY DEF Threaded, JournalType
<1>b. re = FALSE => se = FALSE
  BY ErrStays
<1>s. Stored(es, so, sd, se) /\ ObjectsThere(es, so) /\ Absent(so, sd)
  OBVIOUS
<1> SUFFICES Stored(fs, ro, rd, re)
  OBVIOUS
<1>j. ASSUME NEW e \in Entry, r.journal = append(s.journal, e) PROVE fs = Append(es, e)
  BY <1>0, <1>j, AppendType
<1>1. CASE r = s \/ Fails(s, r)
  <2>1. fs = es /\ ro = so /\ rd = sd
    BY <1>1 DEF Fails, Fields
  <2> HIDE DEF fs, es, so, ro, sd, rd, se, re
  <2> QED BY <1>b, <1>s, <2>1 DEF Stored
<1>d. ~Marks(s, r, a)
  BY DEF Marks
<1>2. CASE Loads(s, r, a)
  <2> DEFINE o == newObject(trie[a])
             d == a \in rd
  <2>1. so[a] = Nil /\ fs = es /\ rd = sd /\ ro = [so EXCEPT ![a] = o] /\ trie[a] # Nil
    BY <1>2 DEF Loads, Fields
  <2>2. trie[a] \in Account
    BY <2>1 DEF AccountTrie
  <2>3. o \in Object
    BY <2>2, NewObjectType
  <2>4. d = FALSE /\ trie[a] = originalRoot[a]
    BY <2>1 DEF Absent
  <2> DEFINE x == trie[a]
  <2>5. /\ getTrie(o) = x.root /\ o.trie = Nil /\ o.root = x.root
        /\ \A k \in Key : /\ o.originStorage[k] = Nil /\ o.pendingStorage[k] = Nil
                          /\ o.dirtyStorage[k] = Nil
    BY <2>2, NewCoherent
  <2>6. x.root \in PersistedRoots /\ \A k \in Key : SnapshotSlot(a, k) = x.root[k]
    BY <2>1, <2>4 DEF PersistedRoots, SnapshotSlot
  <2>7. Openable(o)
    BY <2>5, <2>6 DEF Openable
  <2> HIDE DEF o, d, x
  <2>8. Coherent(a, o, d)
    BY <2>4, <2>5, <2>6 DEF Coherent, SlotCoherent
  <2> HIDE DEF fs, es, so, ro, sd, rd, se, re
  <2>9. Keeps(so, ro, rd, re)
    BY <1>0, <1>b, <1>s, <2>1, <2>3, <2>7, <2>8, KeepsAt DEF d
  <2> QED BY <1>0, <1>b, <1>s, <2>1, <2>9, StoredKeep
<1>3. CASE Creates(s, r, a)
  <2> DEFINE o == newObject(NewAccount)
             d == a \in rd
             e == CreateEntry(a)
  <2>0. e \in Entry /\ e.kind = "createObject"
    BY EntryTypes DEF CreateEntry
  <2>1. so[a] = Nil /\ fs = Append(es, e) /\ rd = sd /\ ro = [so EXCEPT ![a] = o]
        /\ (re = FALSE => trie[a] = Nil)
    BY <1>3, <1>j, <2>0 DEF Creates, Fields
  <2>3. o \in Object /\ NewAccount \in Account
    BY NewAccountType, NewObjectType
  <2>4. d = FALSE /\ trie[a] = originalRoot[a]
    BY <2>1 DEF Absent
  <2>5. /\ getTrie(o) = EmptyRoot /\ o.trie = Nil /\ o.root = EmptyRoot
        /\ \A k \in Key : /\ o.originStorage[k] = Nil /\ o.pendingStorage[k] = Nil
                          /\ o.dirtyStorage[k] = Nil
    BY <2>3, NewCoherent DEF NewAccount
  <2>6. EmptyRoot \in PersistedRoots /\ \A k \in Key : EmptyRoot[k] = Zero
    BY DEF PersistedRoots, EmptyRoot
  <2>7. Openable(o)
    BY <2>5, <2>6 DEF Openable
  <2> HIDE DEF o, d, e
  <2>8. ASSUME re = FALSE PROVE Coherent(a, o, d)
    <3>1. \A k \in Key : SnapshotSlot(a, k) = Zero
      BY <2>1, <2>4, <2>8 DEF SnapshotSlot
    <3> QED BY <2>4, <2>5, <2>6, <3>1 DEF Coherent, SlotCoherent
  <2> HIDE DEF fs, es, so, ro, sd, rd, se, re
  <2>9. Keeps(so, ro, rd, re)
    BY <1>0, <1>b, <1>s, <2>1, <2>3, <2>7, <2>8, KeepsAt DEF d
  <2>10. Stored(Append(es, e), ro, rd, re)
    BY <1>0, <1>b, <1>s, <2>0, <2>9, StoredAppend
  <2> QED BY <2>1, <2>10
<1>4. CASE Resets(s, r, a)
  <2> DEFINE e == ResetEntry(s, a)
             p == a \in sd
             d == a \in rd
  <2>1. so[a] # Nil /\ so[a] \in Object /\ p \in BOOLEAN
    BY <1>0, <1>4 DEF Resets, ObjectMap
  <2>2. e = [kind |-> "resetObject", account |-> a, prev |-> so[a], prevdestruct |-> p]
    BY DEF ResetEntry
  <2>a. PICK b \in Int :
           r.objs = [s.objs EXCEPT ![a] = Fresh(b)] /\ r.journal = append(s.journal, e)
           /\ r.destruct = s.destruct \cup {a}
    BY <1>4 DEF Resets, Fields
  <2> DEFINE o == Fresh(b)
  <2> HIDE DEF e, p
  <2>3. /\ e \in Entry /\ e.kind = "resetObject" /\ e.account = a /\ e.prev = so[a]
        /\ e.prevdestruct = p
    BY <2>1, <2>2, EntryTypes
  <2>4. fs = Append(es, e) /\ ro = [so EXCEPT ![a] = o] /\ rd = sd \cup {a} /\ d = TRUE
    BY <1>j, <2>a, <2>3
  <2>5. o \in Object /\ NewAccount \in Account
    BY FreshType, NewAccountType
  <2>6. /\ getTrie(o) = EmptyRoot /\ o.trie = Nil /\ o.root = EmptyRoot
        /\ \A k \in Key : /\ o.originStorage[k] = Nil /\ o.pendingStorage[k] = Nil
                          /\ o.dirtyStorage[k] = Nil
    BY <2>5, NewCoherent DEF NewAccount, Fresh
  <2>7. EmptyRoot \in PersistedRoots /\ \A k \in Key : EmptyRoot[k] = Zero
    BY DEF PersistedRoots, EmptyRoot
  <2>8. Openable(o)
    BY <2>6, <2>7 DEF Openable
  <2> HIDE DEF o, d
  <2>9. Coherent(a, o, d) /\ \A k \in Key : Loaded(o, k)
    BY <2>4, <2>6, <2>7 DEF Coherent, SlotCoherent, Loaded
  <2> HIDE DEF fs, es, so, ro, sd, rd, se, re
  <2>10. Keeps(so, ro, rd, re)
    BY <1>0, <1>b, <1>s, <2>4, <2>5, <2>8, <2>9, KeepsAt DEF d
  <2>11. Openable(so[a])
    BY <1>s, <2>1 DEF Stored, ObjectsOpenable
  <2>12. re = FALSE => Coherent(a, so[a], p)
    BY <1>b, <1>s, <2>1 DEF Stored, ObjectsCoherent, p
  <2>13. Stored(Append(es, e), ro, rd, re)
    BY <1>0, <1>b, <1>s, <2>3, <2>10, <2>11, <2>12, StoredAppend
  <2> QED BY <2>4, <2>13
<1>5. CASE Caches(s, r, a)
  <2> DEFINE d == a \in sd
  <2>1. PICK k \in Key : /\ r.objs = [s.objs EXCEPT ![a] = Cached(s.objs[a], d, k)]
                         /\ r.journal = s.journal /\ r.destruct = s.destruct
    BY <1>5 DEF Caches, Fields
  <2>2. so[a] \in Object /\ so[a] # Nil /\ d \in BOOLEAN
    BY <1>0, <1>5, LiveObject DEF Caches, Live
  <2> DEFINE o == Cached(so[a], d, k)
  <2>3. fs = es /\ rd = sd /\ ro = [so EXCEPT ![a] = o] /\ (a \in rd) = d
    BY <2>1
  <2> HIDE DEF d
  <2>4. o \in Object
    BY <2>2, CachedType
  <2> HIDE DEF fs, es, so, ro, sd, rd, se, re
  <2>5. Openable(so[a]) /\ (re = FALSE => Coherent(a, so[a], d))
    BY <1>b, <1>s, <2>2 DEF Stored, ObjectsOpenable, ObjectsCoherent, d
  <2>6. /\ Openable(o) /\ (re = FALSE => Coherent(a, o, d))
        /\ \A l \in Key : Loaded(so[a], l) => Loaded(o, l)
    BY <2>2, <2>5, CachedCoherent
  <2> HIDE DEF o
  <2>7. Keeps(so, ro, rd, re)
    BY <1>0, <1>b, <1>s, <2>3, <2>4, <2>6, KeepsAt
  <2> QED BY <1>0, <1>b, <1>s, <2>3, <2>7, StoredKeep
<1>6. CASE Touches(s, r, a)
  <2> DEFINE e == [kind |-> "touch", account |-> a]
  <2>1. e \in Entry /\ e.kind = "touch"
    BY EntryTypes
  <2>2. append(s.journal, e) \in JournalType /\ append(s.journal, e).entries = Append(es, e)
    BY <1>0, <2>1, AppendType
  <2>3. fs = Append(es, e) /\ ro = so /\ rd = sd
    BY <1>6, <2>2, DirtyType DEF Touches, Fields, TouchJournal
  <2> HIDE DEF e, fs, es, so, ro, sd, rd, se, re
  <2>4. Keeps(so, ro, rd, re)
    BY <1>b, <1>s, <2>3 DEF Keeps, Stored, ObjectsOpenable
  <2>5. Stored(Append(es, e), ro, rd, re)
    BY <1>0, <1>b, <1>s, <2>1, <2>4, StoredAppend
  <2> QED BY <2>3, <2>5
<1>7. CASE Changes(s, r, a)
  <2> DEFINE d == a \in sd
             p == so[a]
  <2>1. PICK e \in Entry, o \in Object :
           /\ Records(s, a, e, o)
           /\ r.objs = [s.objs EXCEPT ![a] = o] /\ r.journal = append(s.journal, e)
           /\ r.destruct = s.destruct
    BY <1>7 DEF Changes, Fields
  <2>2. p \in Object /\ p # Nil /\ ~p.deleted /\ d \in BOOLEAN
    BY <1>0, <1>7, LiveObject DEF Changes, Live
  <2>3. fs = Append(es, e) /\ ro = [so EXCEPT ![a] = o] /\ rd = sd /\ (a \in rd) = d
    BY <1>j, <2>1
  <2>4. e.account = a /\ e.kind # "resetObject"
    BY <2>1 DEF Records
  <2>5. e.kind = "storage" =>
           /\ o = [p EXCEPT !.dirtyStorage[e.key] = o.dirtyStorage[e.key]]
           /\ re = FALSE => p.dirtyStorage[e.key] # Nil \/ ~NeedsTrie(p, d, e.key)
    BY <1>b, <2>1 DEF Records
  <2>6. e.kind # "storage" => SameSlots(p, o)
    <3>1. CASE e.kind = "balance"
      <4>1. o = [p EXCEPT !.balance = o.balance]
        BY <2>1, <3>1 DEF Records
      <4> QED BY <2>2, <4>1 DEF SameSlots, Object
    <3>2. CASE e.kind = "nonce"
      <4>1. o = [p EXCEPT !.nonce = o.nonce]
        BY <2>1, <3>2 DEF Records
      <4> QED BY <2>2, <4>1 DEF SameSlots, Object
    <3>3. CASE e.kind = "code"
      <4>1. o = [p EXCEPT !.code = o.code]
        BY <2>1, <3>3 DEF Records
      <4> QED BY <2>2, <4>1 DEF SameSlots, Object
    <3>4. CASE e.kind = "suicide"
      <4>1. o = [p EXCEPT !.suicided = TRUE, !.balance = 0]
        BY <2>1, <3>4 DEF Records
      <4> QED BY <2>2, <4>1 DEF SameSlots, Object
    <3> QED BY <2>1, <3>1, <3>2, <3>3, <3>4 DEF Records
  <2> HIDE DEF fs, es, so, ro, sd, rd, se, re
  <2>7. Openable(p) /\ (re = FALSE => Coherent(a, p, d))
    BY <1>b, <1>s, <2>2 DEF Stored, ObjectsOpenable, ObjectsCoherent, d
  <2> HIDE DEF d
  <2>8. /\ Openable(o) /\ (re = FALSE => Coherent(a, o, d))
        /\ \A l \in Key : Loaded(p, l) => Loaded(o, l)
        /\ e.kind = "storage" /\ re = FALSE => Loaded(o, e.key)
    <3> HIDE DEF p
    <3>1. CASE e.kind # "storage"
      BY <2>6, <2>7, <3>1, SameCoherent
    <3>2. CASE e.kind = "storage"
      <4> DEFINE k == e.key
                 m == [p.dirtyStorage EXCEPT ![k] = o.dirtyStorage[k]]
      <4>1. k \in Key
        BY <3>2, EntryFields
      <4>2. o = [p EXCEPT !.dirtyStorage = m]
        BY <2>5, <3>2
      <4>3. \A l \in Key \ {k} : m[l] = p.dirtyStorage[l]
        BY <2>2 DEF Object, Cache
      <4>4. re = FALSE => Loaded(p, k)
        BY <2>2, <2>5, <2>7, <3>2, <4>1, CoherentLoaded
      <4> HIDE DEF k, m
      <4>5. /\ Openable(p) => Openable(o)
            /\ Coherent(a, p, d) /\ Loaded(p, k) => Coherent(a, o, d)
            /\ \A l \in Key : Loaded(p, l) => Loaded(o, l)
        BY <2>2, <4>1, <4>2, <4>3, WriteCoherent
      <4> QED BY <2>7, <4>1, <4>4, <4>5 DEF k
    <3> QED BY <3>1, <3>2
  <2>9. Keeps(so, ro, rd, re)
    BY <1>0, <1>b, <1>s, <2>1, <2>3, <2>8, KeepsAt DEF p
  <2>10. ro[a] = o
    BY <1>0, <2>1, <2>3, UpdatedMap
  <2>11. Stored(Append(es, e), ro, rd, re)
    BY <1>0, <1>b, <1>s, <2>1, <2>4, <2>8, <2>9, <2>10, StoredAppend
  <2> QED BY <2>3, <2>11
<1> QED BY <1>1, <1>d, <1>2, <1>3, <1>4, <1>5, <1>6, <1>7 DEF Primitive

-----------------------------------------------------------------------------
(* What the marks say, together.                                           *)

MarksExplained ==
    /\ CountsExact(journal)
    /\ ObjectsLinked
    /\ OnlyDirtyWritten
    /\ ResetsCovered
    /\ DestructRecorded(journal.entries, stateObjectsDestruct, stateObjectsDirty)

\* In the initial state there are no marks to explain.
LEMMA MarksInit == Init => MarksExplained
<1> SUFFICES ASSUME Init PROVE MarksExplained
  OBVIOUS
<1>1. /\ journal = newJournal /\ journal.entries = <<>> /\ validRevisions = <<>>
      /\ trie = originalRoot /\ stateObjectsPending = {} /\ stateObjectsDirty = {}
      /\ stateObjectsDestruct = {}
  BY DEF Init, JournalInit, AccountsInit, newJournal
<1>2. CountsExact(journal)
  BY <1>1, CountsNew
<1>3. Len(journal.entries) = 0 /\ Len(validRevisions) = 0
  BY <1>1
<1>4. ObjectsLinked
  BY <1>3 DEF ObjectsLinked, Linked, CreatesAbsent, ResetsMarked, ObjectsThere
<1>5. OnlyDirtyWritten
  BY <1>1 DEF OnlyDirtyWritten
<1>6. ResetsCovered
  BY <1>3 DEF ResetsCovered, ResetsDirty
<1>7. DestructRecorded(journal.entries, stateObjectsDestruct, stateObjectsDirty)
  BY <1>1, <1>3 DEF DestructRecorded
<1> QED BY <1>2, <1>4, <1>5, <1>6, <1>7 DEF MarksExplained

\* Every step leaves the marks explained.
LEMMA MarksStep ==
    ASSUME "setStorage" \notin Env, "bareReset" \notin Env, IInv, IInv', [Next]_vars, MarksExplained
    PROVE  MarksExplained'
<1>1. CountsExact(journal')
  BY CountsStep DEF MarksExplained
<1>2. ObjectsLinked'
  BY LinkedStep DEF MarksExplained
<1>3. OnlyDirtyWritten'
  BY OnlyDirtyStep DEF MarksExplained
<1>4. ResetsCovered'
  BY <1>1, CoveredStep DEF MarksExplained
<1>5. DestructRecorded(journal'.entries, stateObjectsDestruct', stateObjectsDirty')
  BY RecordedStep DEF MarksExplained
<1> QED BY <1>1, <1>2, <1>3, <1>4, <1>5 DEF MarksExplained

\* An account without an object is in no set, and as it was when the StateDB
\* was opened.
LEMMA MarksAbsent ==
    ASSUME IInv, MarksExplained
    PROVE  Absent(stateObjects, stateObjectsDestruct)
<1> SUFFICES ASSUME NEW b \in Addr, stateObjects[b] = Nil
             PROVE  b \notin stateObjectsDestruct /\ trie[b] = originalRoot[b]
  BY DEF Absent
<1>1. b \notin stateObjectsDirty
  BY DEF IInv, PendingLive
<1>2. \A i \in 1..Len(journal.entries) : ~IsReset(journal.entries[i], b)
  BY DEF MarksExplained, ObjectsLinked, Linked, ObjectsThere, ObjectKinds, IsReset
<1> QED BY <1>1, <1>2 DEF MarksExplained, OnlyDirtyWritten, DestructRecorded

-----------------------------------------------------------------------------
(* Every step keeps the objects and their tries in agreement.              *)

\* A call is a sequence of primitive steps.
LEMMA CallStored ==
    ASSUME IInv, MarksExplained, "setStorage" \notin Env, NEW a \in Addr, NEW r, Runs(r, a),
           Stored(journal.entries, stateObjects, stateObjectsDestruct, dbErr)
    PROVE  Stored(r.journal.entries, r.objs, r.destruct, r.err)
<1> DEFINE M(s) == /\ Linked(s.journal.entries, s.objs, s.destruct, s.err)
                   /\ Absent(s.objs, s.destruct)
                   /\ Stored(s.journal.entries, s.objs, s.destruct, s.err)
<1>0. /\ State \in Threaded /\ State.journal = journal /\ State.objs = stateObjects
      /\ State.destruct = stateObjectsDestruct /\ State.err = dbErr
      /\ trie \in AccountTrie /\ originalRoot \in AccountTrie
  BY StateType DEF IInv, State, Threaded, TypeOK, AccountsTypeOK
<1>1. PICK s1, s2, s3, s4, s5 :
         /\ Primitive(State, s1, a) /\ Primitive(s1, s2, a) /\ Primitive(s2, s3, a)
         /\ Primitive(s3, s4, a) /\ Primitive(s4, s5, a) /\ Primitive(s5, r, a)
  BY DEF Runs, Finds, Works
<1>2. ASSUME NEW s \in Threaded, NEW t, Primitive(s, t, a), M(s) PROVE t \in Threaded /\ M(t)
  <2>1. ObjectsThere(s.journal.entries, s.objs)
    BY <1>2 DEF Linked
  <2>2. t \in Threaded /\ Linked(t.journal.entries, t.objs, t.destruct, t.err)
    BY <1>0, <1>2, LinkedPrimitive
  <2>3. Absent(t.objs, t.destruct)
    BY <1>0, <1>2, AbsentPrimitive
  <2>4. Stored(t.journal.entries, t.objs, t.destruct, t.err)
    BY <1>0, <1>2, <2>1, StoredPrimitive
  <2> QED BY <2>2, <2>3, <2>4
<1>3. M(State)
  BY <1>0, MarksAbsent DEF MarksExplained, ObjectsLinked
<1> HIDE DEF M
<1>4. s1 \in Threaded /\ M(s1)
  BY <1>0, <1>1, <1>2, <1>3
<1>5. s2 \in Threaded /\ M(s2)
  BY <1>1, <1>2, <1>4
<1>6. s3 \in Threaded /\ M(s3)
  BY <1>1, <1>2, <1>5
<1>7. s4 \in Threaded /\ M(s4)
  BY <1>1, <1>2, <1>6
<1>8. s5 \in Threaded /\ M(s5)
  BY <1>1, <1>2, <1>7
<1>9. M(r)
  BY <1>1, <1>2, <1>8
<1> QED BY <1>9 DEF M

\* A revert puts back an object that agreed, or one field of it.
LEMMA UndoStored ==
    ASSUME IInv, ObjectsLinked, UndoesEntry,
           Stored(journal.entries, stateObjects, stateObjectsDestruct, dbErr)
    PROVE  Stored(journal'.entries, stateObjects', stateObjectsDestruct', dbErr)
<1> DEFINE es == journal.entries
           fs == journal'.entries
           e  == LastEntry
           a  == e.account
           so == stateObjects
           sd == stateObjectsDestruct
           ro == stateObjects'
           rd == stateObjectsDestruct'
           err == dbErr
           G  == Stored(fs, ro, rd, err)
<1> SUFFICES G
  OBVIOUS
<1>0. so \in ObjectMap /\ sd \in SUBSET Addr /\ es \in Seq(Entry) /\ journal \in JournalType
      /\ err \in BOOLEAN
  BY DEF IInv, TypeOK, JournalTypeOK, JournalType, AccountsTypeOK, ObjectMap
<1>1. es # <<>> /\ e \in Entry /\ e = es[Len(es)] /\ journal' = pop(journal)
  BY <1>0, UndoPops
<1>2. fs \in Seq(Entry) /\ Len(es) = Len(fs) + 1 /\ \A i \in 1..Len(fs) : fs[i] = es[i]
  BY <1>0, <1>1, PopType DEF JournalType
<1>3. Stored(es, so, sd, err) /\ ObjectsThere(es, so) /\ ResetsMarked(es, sd)
  BY DEF ObjectsLinked, Linked
<1>l. Len(es) \in 1..Len(es)
  BY <1>0, <1>1
<1> HIDE DEF es, fs, e, so, sd, ro, rd, err
<1>k. ASSUME Keeps(so, ro, rd, err) PROVE G
  BY <1>0, <1>2, <1>3, <1>k, StoredPop DEF Keeps
<1>s. ASSUME ro = so, rd = sd PROVE G
  <2>1. Keeps(so, ro, rd, err)
    BY <1>3, <1>s DEF Keeps, Stored, ObjectsOpenable
  <2> QED BY <1>k, <2>1
<1>f. ASSUME a \in Addr, so[a] \in Object, so[a] # Nil, NEW o \in Object,
             ro = [so EXCEPT ![a] = o], rd = sd,
             Openable(so[a]) => Openable(o),
             \A d \in BOOLEAN : err = FALSE /\ Coherent(a, so[a], d) => Coherent(a, o, d),
             \A k \in Key : Loaded(so[a], k) => Loaded(o, k)
      PROVE  G
  <2> DEFINE d == a \in sd
  <2>1. d \in BOOLEAN /\ (a \in rd) = d
    BY <1>f
  <2>2. Openable(so[a]) /\ (err = FALSE => Coherent(a, so[a], d))
    BY <1>3, <1>f DEF Stored, ObjectsOpenable, ObjectsCoherent
  <2> HIDE DEF d
  <2>3. Openable(o) /\ (err = FALSE => Coherent(a, o, d))
    BY <1>f, <2>1, <2>2
  <2>4. Keeps(so, ro, rd, err)
    BY <1>0, <1>3, <1>f, <2>1, <2>3, KeepsAt
  <2> QED BY <1>k, <2>4
<1>4. CASE TxUndo /\ UNCHANGED accountVars
  BY <1>4, <1>s DEF accountVars, so, sd, ro, rd
<1>5. CASE UndoCreateObject
  <2>1. e.kind = "createObject" /\ ro = [so EXCEPT ![a] = Nil] /\ rd = sd
    BY <1>5 DEF UndoCreateObject, Undo, e, so, sd, ro, rd
  <2>2. a \in Addr
    BY <1>1, <2>1, EntryFields
  <2>3. ro[a] = Nil /\ \A b \in Addr \ {a} : ro[b] = so[b]
    BY <1>0, <2>1, <2>2 DEF ObjectMap
  <2>4. \A b \in Addr : ro[b] # Nil => Openable(ro[b])
    BY <1>3, <2>3 DEF Stored, ObjectsOpenable
  <2>5. err = FALSE => ObjectsCoherent(ro, rd)
    BY <1>3, <2>1, <2>3 DEF Stored, ObjectsCoherent
  <2>6. \A b \in Addr, k \in Key : so[b] # Nil /\ Loaded(so[b], k) =>
           \/ Loaded(ro[b], k)
           \/ IsReset(es[Len(es)], b) /\ ro[b] = es[Len(es)].prev
           \/ es[Len(es)].kind = "createObject" /\ es[Len(es)].account = b
    BY <1>1, <2>1, <2>3
  <2> HIDE DEF a
  <2> QED BY <1>0, <1>2, <1>3, <2>4, <2>5, <2>6, StoredPop
<1>6. CASE UndoResetObject
  <2> DEFINE p == e.prevdestruct
             d == a \in rd
  <2>1. /\ e.kind = "resetObject" /\ ro = [so EXCEPT ![a] = e.prev]
        /\ rd = IF p THEN sd ELSE sd \ {a}
    BY <1>6 DEF UndoResetObject, Undo, e, so, sd, ro, rd
  <2>2. /\ a \in Addr /\ e.prev \in Object /\ p \in BOOLEAN /\ e.prev # Nil
    BY <1>1, <2>1, EntryFields, ConstantsAssumption
  <2>3. a \in sd
    BY <1>1, <1>3, <1>l, <2>1 DEF ResetsMarked
  <2>4. ro[a] = e.prev /\ \A b \in Addr \ {a} : ro[b] = so[b] /\ (b \in rd <=> b \in sd)
    BY <1>0, <2>1, <2>2 DEF ObjectMap
  <2>5. d = p
    BY <2>1, <2>2, <2>3
  <2>6. Openable(e.prev) /\ (err = FALSE => Coherent(a, e.prev, p))
    BY <1>1, <1>3, <1>l, <2>1 DEF Stored, ObjectsOpenable, ResetsCoherent
  <2>7. \A b \in Addr : ro[b] # Nil => Openable(ro[b])
    BY <1>3, <2>4, <2>6 DEF Stored, ObjectsOpenable
  <2>8. ASSUME err = FALSE PROVE ObjectsCoherent(ro, rd)
    <3> SUFFICES ASSUME NEW b \in Addr, ro[b] # Nil PROVE Coherent(b, ro[b], b \in rd)
      BY DEF ObjectsCoherent
    <3>1. CASE b = a
      <4> HIDE DEF d, p
      <4>1. Coherent(a, ro[a], d)
        BY <2>4, <2>5, <2>6, <2>8
      <4> QED BY <3>1, <4>1 DEF d
    <3>2. CASE b # a
      <4> DEFINE x == b \in sd
                 y == b \in rd
      <4>1. x = y
        BY <2>4, <3>2
      <4>2. Coherent(b, so[b], x) /\ ro[b] = so[b]
        BY <1>3, <2>4, <2>8, <3>2 DEF Stored, ObjectsCoherent
      <4> HIDE DEF x, y
      <4>3. Coherent(b, ro[b], y)
        BY <4>1, <4>2
      <4> QED BY <4>3 DEF y
    <3> QED BY <3>1, <3>2
  <2>9. IsReset(es[Len(es)], a) /\ ro[a] = es[Len(es)].prev
    BY <1>1, <2>1, <2>4 DEF IsReset
  <2>10. \A b \in Addr, k \in Key : so[b] # Nil /\ Loaded(so[b], k) =>
           Loaded(ro[b], k) \/ (IsReset(es[Len(es)], b) /\ ro[b] = es[Len(es)].prev)
    BY <2>4, <2>9
  <2> QED BY <1>0, <1>2, <1>3, <2>7, <2>8, <2>10, StoredPop
<1>7. CASE UndoSuicide
  <2>1. e.kind = "suicide" /\ rd = sd
    BY <1>7 DEF UndoSuicide, Undo, e, sd, rd
  <2>2. a \in Addr /\ e.prev \in BOOLEAN /\ e.prevbalance \in Int
    BY <1>1, <2>1, EntryFields
  <2> DEFINE p == so[a]
             q == [p EXCEPT !.suicided = e.prev]
             o == [q EXCEPT !.balance = e.prevbalance]
  <2>3. CASE Live(so, a)
    <3>0. p \in Object /\ p # Nil
      BY <1>0, <2>2, <2>3, LiveObject DEF Live
    <3>1. q \in Object /\ SameSlots(p, q)
      BY <2>2, <3>0 DEF Object, SameSlots
    <3>2. ro = [so EXCEPT ![a] = o]
      BY <1>0, <1>7, <2>2, <2>3 DEF UndoSuicide, ObjectMap, e, so, ro
    <3> HIDE DEF q
    <3>3. o \in Object /\ SameSlots(q, o)
      BY <2>2, <3>1 DEF Object, SameSlots
    <3> HIDE DEF o, p
    <3>4. SameSlots(p, o)
      BY <3>1, <3>3 DEF SameSlots
    <3>5. /\ Openable(p) => Openable(o)
          /\ \A d \in BOOLEAN : Coherent(a, p, d) => Coherent(a, o, d)
          /\ \A k \in Key : Loaded(p, k) => Loaded(o, k)
      BY <3>4, SameCoherent
    <3> QED BY <1>f, <2>1, <2>2, <3>0, <3>2, <3>3, <3>5 DEF p
  <2>4. CASE ~Live(so, a)
    <3>1. ro = so
      BY <1>7, <2>4 DEF UndoSuicide, e, so, ro
    <3> QED BY <1>s, <2>1, <3>1
  <2> QED BY <2>3, <2>4
<1>8. CASE UndoTouch
  <2>1. ro = so /\ rd = sd
    BY <1>8 DEF UndoTouch, so, sd, ro, rd
  <2> QED BY <1>s, <2>1
<1>u. ASSUME NEW kind \in DerefKinds, NEW o, UndoField(kind, o)
      PROVE  /\ e.kind = kind /\ a \in Addr /\ LastObject = so[a] /\ so[a] \in Object /\ so[a] # Nil
             /\ ro = [so EXCEPT ![a] = o] /\ rd = sd
  <2>1. /\ e.kind = kind /\ ro = [so EXCEPT ![a] = o] /\ rd = sd /\ Live(so, a)
        /\ LastObject = so[a]
    BY <1>u DEF UndoField, Undo, LastObject, e, so, sd, ro, rd
  <2>2. a \in Addr
    BY <1>1, <2>1, EntryFields DEF DerefKinds
  <2>3. so[a] \in Object /\ so[a] # Nil
    BY <1>0, <2>1, <2>2, LiveObject DEF Live
  <2> QED BY <2>1, <2>2, <2>3
<1> DEFINE p == so[a]
<1>9. CASE UndoBalance \/ UndoNonce \/ UndoCode
  <2> DEFINE Sets(kind, o) ==
                \/ kind = "balance" /\ o = [LastObject EXCEPT !.balance = e.prev]
                \/ kind = "nonce" /\ o = [LastObject EXCEPT !.nonce = e.prev]
                \/ kind = "code" /\ o = [LastObject EXCEPT !.code = e.prev]
  <2>0. PICK kind \in DerefKinds : \E o : UndoField(kind, o) /\ Sets(kind, o)
    BY <1>9 DEF UndoBalance, UndoNonce, UndoCode, DerefKinds, e
  <2>1. PICK o : UndoField(kind, o) /\ Sets(kind, o)
    BY <2>0
  <2>2. /\ e.kind = kind /\ a \in Addr /\ LastObject = p /\ p \in Object /\ p # Nil
        /\ ro = [so EXCEPT ![a] = o] /\ rd = sd
    BY <1>u, <2>1
  <2> HIDE DEF p, G
  <2>3. o \in Object
    BY <1>1, <2>1, <2>2, EntryFields DEF Object
  <2>4. SameSlots(p, o)
    BY <2>1, <2>2 DEF Object, SameSlots
  <2>5. /\ Openable(p) => Openable(o)
        /\ \A d \in BOOLEAN : Coherent(a, p, d) => Coherent(a, o, d)
        /\ \A k \in Key : Loaded(p, k) => Loaded(o, k)
    BY <2>4, SameCoherent
  <2> QED BY <1>f, <2>2, <2>3, <2>5 DEF p
<1>10. CASE UndoStorage
  <2> DEFINE k == e.key
             m == [LastObject.dirtyStorage EXCEPT ![k] = e.prevalue]
             o == [LastObject EXCEPT !.dirtyStorage = m]
  <2>1. UndoField("storage", o) /\ "storage" \in DerefKinds
    BY <1>10 DEF UndoStorage, DerefKinds, e
  <2>2. /\ e.kind = "storage" /\ a \in Addr /\ LastObject = p /\ p \in Object /\ p # Nil
        /\ ro = [so EXCEPT ![a] = o] /\ rd = sd
    BY <1>u, <2>1
  <2>3. k \in Key /\ e.prevalue \in Word
    BY <1>1, <2>2, EntryFields
  <2>4. m \in Cache /\ \A l \in Key \ {k} : m[l] = p.dirtyStorage[l]
    BY <2>2, <2>3 DEF Object, Cache
  <2>5. err = FALSE => Loaded(p, k)
    BY <1>1, <1>3, <1>l, <2>2 DEF Stored, SlotsLoaded
  <2> HIDE DEF p, G, m
  <2>6. o \in Object /\ o = [p EXCEPT !.dirtyStorage = m]
    BY <2>2, <2>4 DEF Object
  <2> HIDE DEF o, k
  <2>7. ASSUME NEW d
        PROVE  /\ Openable(p) => Openable(o)
               /\ Coherent(a, p, d) /\ Loaded(p, k) => Coherent(a, o, d)
               /\ \A l \in Key : Loaded(p, l) => Loaded(o, l)
    <3>1. p \in Object /\ k \in Key
      BY <2>2, <2>3
    <3>2. o = [p EXCEPT !.dirtyStorage = m]
      BY <2>6
    <3>3. \A l \in Key \ {k} : m[l] = p.dirtyStorage[l]
      BY <2>4
    <3> HIDE DEF a
    <3> QED BY <3>1, <3>2, <3>3, WriteCoherent
  <2> QED BY <1>f, <2>2, <2>5, <2>6, <2>7 DEF p
<1> QED BY <1>4, <1>5, <1>6, <1>7, <1>8, <1>9, <1>10 DEF UndoesEntry, AccountUndo

\* Finalise: an object that is deleted becomes a destructed one.
LEMMA FinalisedCoherent ==
    ASSUME IInv, NEW c \in BOOLEAN,
           Stored(journal.entries, stateObjects, stateObjectsDestruct, dbErr),
           NEW a \in Addr, FinalisedObjects(c)[a] # Nil
    PROVE  /\ Openable(FinalisedObjects(c)[a])
           /\ dbErr = FALSE => Coherent(a, FinalisedObjects(c)[a], a \in FinalisedDestruct(c))
<1> DEFINE o == stateObjects[a]
           p == FinalisedObjects(c)[a]
           d == a \in stateObjectsDestruct
           x == a \in FinalisedDestruct(c)
<1>1. stateObjects \in ObjectMap
  BY DEF IInv, TypeOK, AccountsTypeOK, ObjectMap
<1>2. o # Nil => o \in Object /\ Openable(o) /\ (dbErr = FALSE => Coherent(a, o, d))
  BY <1>1 DEF ObjectMap, Stored, ObjectsOpenable, ObjectsCoherent
<1>3. CASE a \notin Finalised
  <2>1. p = o /\ x = d
    BY <1>3 DEF FinalisedObjects, FinalisedDestruct
  <2> HIDE DEF o, p, d, x
  <2>2. Openable(p) /\ (dbErr = FALSE => Coherent(a, p, x))
    BY <1>2, <2>1 DEF p
  <2> QED BY <2>2 DEF p, x
<1>4. CASE a \in Finalised /\ Deletes(o, c)
  <2>1. o # Nil /\ p = FinalisedObject(o, c) /\ x = TRUE
    BY <1>4 DEF FinalisedObjects, FinalisedDestruct, Finalised
  <2>2. o \in Object
    BY <1>2, <2>1
  <2>3. p = [o EXCEPT !.deleted = TRUE]
    BY <1>4, <2>1 DEF FinalisedObject
  <2> HIDE DEF o, p, x, d
  <2>4. /\ p.trie = o.trie /\ p.root = o.root /\ p.originStorage = o.originStorage
        /\ p.pendingStorage = o.pendingStorage /\ p.dirtyStorage = o.dirtyStorage
        /\ p.deleted = TRUE
    BY <2>2, <2>3 DEF Object
  <2>5. getTrie(p) = getTrie(o)
    BY <2>4 DEF getTrie
  <2>6. Openable(p)
    BY <1>2, <2>1, <2>4 DEF Openable
  <2>7. Coherent(a, o, d) => Coherent(a, p, x)
    BY <2>1, <2>4, <2>5 DEF Coherent, SlotCoherent
  <2> QED BY <1>2, <2>1, <2>6, <2>7 DEF p, x
<1>5. CASE a \in Finalised /\ ~Deletes(o, c)
  <2>1. o # Nil /\ p = finalise(o) /\ x = d
    BY <1>5 DEF FinalisedObjects, FinalisedDestruct, Finalised, FinalisedObject
  <2>2. o \in Object
    BY <1>2, <2>1
  <2> HIDE DEF o, p, x, d
  <2>3. /\ Openable(o) => Openable(p)
        /\ Coherent(a, o, x) => Coherent(a, p, x)
    BY <2>1, <2>2, FinaliseCoherent
  <2> QED BY <1>2, <2>1, <2>3 DEF p, x
<1> QED BY <1>3, <1>4, <1>5

\* The end of a transaction, and a copy of a StateDB without an error.
LEMMA ClearsStored ==
    ASSUME IInv, "copyAfterError" \notin Env, ClearsJournal,
           Stored(journal.entries, stateObjects, stateObjectsDestruct, dbErr)
    PROVE  Stored(journal'.entries, stateObjects', stateObjectsDestruct', dbErr')
<1> DEFINE ro == stateObjects'
           rd == stateObjectsDestruct'
           G  == Stored(journal'.entries, ro, rd, dbErr')
<1> SUFFICES G
  OBVIOUS
<1>0. Len(journal'.entries) = 0
  BY ClearsToEmpty
<1>1. AccountsTypeOK /\ PendingLive /\ stateObjects \in ObjectMap /\ dbErr \in BOOLEAN
  BY DEF IInv, TypeOK, AccountsTypeOK, ObjectMap
<1>2. ASSUME \A a \in Addr : ro[a] # Nil =>
                /\ Openable(ro[a])
                /\ dbErr' = FALSE => Coherent(a, ro[a], a \in rd)
      PROVE  G
  BY <1>0, <1>2 DEF Stored, ObjectsOpenable, ObjectsCoherent, ResetsCoherent, SlotsLoaded
<1>3. ASSUME NEW c \in BOOLEAN, Finalise(c) PROVE G
  <2>1. ro = FinalisedObjects(c) /\ rd = FinalisedDestruct(c) /\ dbErr' = dbErr
    BY <1>3 DEF Finalise
  <2> HIDE DEF ro, rd
  <2>2. \A a \in Addr : ro[a] # Nil =>
           Openable(ro[a]) /\ (dbErr' = FALSE => Coherent(a, ro[a], a \in rd))
    BY <2>1, FinalisedCoherent
  <2> QED BY <1>2, <2>2
<1>4. ASSUME NEW c \in BOOLEAN, IntermediateRoot(c) PROVE G
  <2> DEFINE objs == FinalisedObjects(c)
             S == stateObjectsPending \cup Finalised
  <2>1. PICK f \in Flushed(trie, objs, S) : ro = f.objs /\ dbErr' = (dbErr \/ f.err)
    BY <1>4 DEF IntermediateRoot, IntermediateRootOn
  <2>2. rd = FinalisedDestruct(c)
    BY <1>4 DEF IntermediateRoot, IntermediateRootOn
  <2>3. /\ objs \in ObjectMap /\ S \in SUBSET Addr
        /\ \A a \in S : objs[a] # Nil
    <3>1. \A a \in S : stateObjects[a] # Nil
      BY <1>1 DEF PendingLive, Finalised
    <3> QED BY <1>1, <3>1, FinalisedType DEF AccountsTypeOK
  <2>4. \A a \in Addr : objs[a] # Nil =>
           Openable(objs[a]) /\ (dbErr = FALSE => Coherent(a, objs[a], a \in rd))
    BY <2>2, FinalisedCoherent
  <2> HIDE DEF ro, rd, objs, S
  <2>5. dbErr' = FALSE => dbErr = FALSE /\ ~f.err
    <3>1. f.err \in BOOLEAN
      BY <1>1, <2>3, FlushedType DEF AccountsTypeOK
    <3> QED BY <1>1, <2>1, <3>1
  <2>6. ASSUME NEW a \in Addr, ro[a] # Nil
        PROVE  Openable(ro[a]) /\ (dbErr' = FALSE => Coherent(a, ro[a], a \in rd))
    <3> DEFINE d == a \in rd
               o == objs[a]
    <3>0. d \in BOOLEAN
      OBVIOUS
    <3>1. CASE a \notin S \/ (a \in S /\ o.deleted)
      <4>1. ro[a] = o
        BY <2>1, <2>3, <3>1, FlushedObjects
      <4> QED BY <2>4, <2>5, <2>6, <4>1
    <3>2. CASE a \in S /\ ~o.deleted
      <4>1. o \in Object /\ o # Nil
        BY <2>3, <3>2 DEF ObjectMap
      <4>2. \/ ro[a] = updateRoot(o)
            \/ f.err /\ ro[a] \in updateRootFailed(o)
        BY <2>1, <2>3, <3>2, FlushedObjects
      <4>3. Openable(o) /\ (dbErr' = FALSE => Coherent(a, o, d))
        BY <2>4, <2>5, <4>1
      <4> HIDE DEF o, d
      <4>4. Openable(ro[a])
        BY <4>1, <4>2, <4>3, FlushOpenable
      <4>5. ASSUME dbErr' = FALSE PROVE Coherent(a, ro[a], d)
        <5>1. ro[a] = updateRoot(o) /\ Coherent(a, o, d)
          BY <2>5, <4>2, <4>3, <4>5
        <5>2. Coherent(a, updateRoot(o), d)
          BY <3>0, <3>2, <4>1, <5>1, UpdateRootSlots
        <5> QED BY <5>1, <5>2
      <4> QED BY <4>4, <4>5 DEF d
    <3> QED BY <3>1, <3>2
  <2> QED BY <1>2, <2>6
<1>5. ASSUME Copy PROVE G
  <2>1. dbErr = FALSE /\ rd = stateObjectsDestruct
    BY <1>1, <1>5 DEF Copy
  <2>2. \A a \in Addr : ro[a] = stateObjects[a] \/ ro[a] = Nil
    BY <1>5 DEF Copy
  <2> HIDE DEF ro, rd
  <2>3. \A a \in Addr : stateObjects[a] # Nil =>
           Openable(stateObjects[a]) /\ Coherent(a, stateObjects[a], a \in rd)
    BY <2>1 DEF Stored, ObjectsOpenable, ObjectsCoherent
  <2> QED BY <1>2, <2>2, <2>3
<1> QED BY <1>3, <1>4, <1>5 DEF ClearsJournal

StorageStored == Stored(journal.entries, stateObjects, stateObjectsDestruct, dbErr)

\* Every step leaves the storage coherent.
LEMMA StoredStep ==
    ASSUME "setStorage" \notin Env, "copyAfterError" \notin Env,
           IInv, [Next]_vars, MarksExplained, StorageStored
    PROVE  StorageStored'
<1>0. /\ journal \in JournalType /\ journal.entries \in Seq(Entry)
      /\ Stored(journal.entries, stateObjects, stateObjectsDestruct, dbErr)
      /\ ObjectsLinked
  BY DEF IInv, TypeOK, JournalTypeOK, JournalType, StorageStored, MarksExplained
<1>r. originalRoot' = originalRoot
  BY StepCases, CallEnd, ClearsMarks, UndoKeepsMarks DEF CallRuns, accountVars, KeepsJournal
<1>1. Stored(journal'.entries, stateObjects', stateObjectsDestruct', dbErr')
  <2>1. CASE \E a \in Addr : CallRuns(a) /\ UNCHANGED txVars
    BY <1>0, <2>1, CallStored, CallEnd DEF CallRuns
  <2>2. CASE TxSetter /\ UNCHANGED accountVars
    <3> DEFINE R(j) == /\ j \in JournalType /\ ObjectsThere(j.entries, stateObjects)
                       /\ Stored(j.entries, stateObjects, stateObjectsDestruct, dbErr)
    <3>0. Keeps(stateObjects, stateObjects, stateObjectsDestruct, dbErr)
      BY <1>0 DEF Keeps, Stored, ObjectsOpenable
    <3>1. ASSUME NEW j, R(j), NEW e \in TxEntry PROVE R(append(j, e))
      <4> DEFINE es == j.entries
      <4>1. /\ e \in Entry /\ e.kind \notin ObjectKinds /\ j \in JournalType /\ es \in Seq(Entry)
            /\ e.kind # "storage" /\ e.kind # "resetObject" /\ e.kind # "createObject"
        BY <3>1 DEF TxEntry, TxKinds, JournalType, ObjectKinds
      <4>2. append(j, e) \in JournalType /\ append(j, e).entries = Append(es, e)
        BY <4>1, AppendType
      <4>3. ObjectsThere(es, stateObjects) /\ Stored(es, stateObjects, stateObjectsDestruct, dbErr)
        BY <3>1
      <4> HIDE DEF es
      <4>4. Stored(Append(es, e), stateObjects, stateObjectsDestruct, dbErr)
        BY <3>0, <4>1, <4>3, StoredAppend
      <4>5. ObjectsThere(Append(es, e), stateObjects)
        BY <4>1, <4>3 DEF ObjectsThere
      <4> QED BY <4>2, <4>4, <4>5
    <3>2. R(journal)
      BY <1>0 DEF ObjectsLinked, Linked
    <3> HIDE DEF R
    <3>3. R(journal')
      BY <2>2, <3>1, <3>2, TxSetterAppends
    <3> QED BY <2>2, <3>3 DEF R, accountVars
  <2>3. CASE UndoesEntry
    BY <1>0, <2>3, UndoStored, UndoneMarks
  <2>4. CASE ClearsJournal
    BY <1>0, <2>4, ClearsStored
  <2>5. CASE KeepsJournal
    BY <1>0, <2>5 DEF KeepsJournal, accountVars
  <2> QED BY <2>1, <2>2, <2>3, <2>4, <2>5, StepCases
<1> QED BY <1>1, <1>r DEF StorageStored, Stored, ObjectsOpenable, Openable, ObjectsCoherent,
        ResetsCoherent, Coherent, SlotCoherent, SlotsLoaded, Loaded, PersistedRoots, SnapshotSlot

\* The invariants imply that origin and dirty storage are coherent.
LEMMA StorageExplained ==
    ASSUME IInv, MarksExplained, StorageStored
    PROVE  OriginCoherent /\ StorageCoherent
<1>1. Stored(journal.entries, stateObjects, stateObjectsDestruct, dbErr)
      /\ Absent(stateObjects, stateObjectsDestruct) /\ dbErr \in BOOLEAN
  BY MarksAbsent DEF StorageStored, IInv, TypeOK, AccountsTypeOK
<1>2. OriginCoherent
  BY <1>1 DEF OriginCoherent, Stored, ObjectsCoherent, Coherent, SlotCoherent
<1>3. StorageTrieOpenable
  BY <1>1 DEF StorageTrieOpenable, Stored, ObjectsOpenable, Openable, Absent, PersistedRoots
<1>4. SnapshotAgrees
  <2> SUFFICES ASSUME ~dbErr, NEW a \in Addr
               PROVE  IF stateObjects[a] = Nil THEN trie[a] = originalRoot[a]
                      ELSE \A k \in Key :
                              NeedsTrie(stateObjects[a], a \in stateObjectsDestruct, k)
                                  => getTrie(stateObjects[a])[k] = SnapshotSlot(a, k)
    BY DEF SnapshotAgrees
  <2>1. stateObjects[a] = Nil => trie[a] = originalRoot[a]
    BY <1>1 DEF Absent
  <2>2. stateObjects[a] # Nil => Coherent(a, stateObjects[a], a \in stateObjectsDestruct)
    BY <1>1 DEF Stored, ObjectsCoherent
  <2> QED BY <2>1, <2>2 DEF Coherent, SlotCoherent, NeedsTrie
<1> QED BY <1>2, <1>3, <1>4 DEF StorageCoherent

\* All of this holds in every state.
LEMMA StorageInvariance ==
    ASSUME "setStorage" \notin Env, "bareReset" \notin Env, "copyAfterError" \notin Env
    PROVE  Spec => [](IInv /\ MarksExplained /\ StorageStored)
<1>1. Init => StorageStored
  <2> SUFFICES ASSUME Init PROVE StorageStored
    OBVIOUS
  <2>1. Len(journal.entries) = 0 /\ \A a \in Addr : stateObjects[a] = Nil
    BY DEF Init, JournalInit, newJournal, AccountsInit
  <2> QED BY <2>1 DEF StorageStored, Stored, ObjectsOpenable, ObjectsCoherent, ResetsCoherent,
          SlotsLoaded
<1>2. IInv /\ IInv' /\ MarksExplained /\ [Next]_vars => MarksExplained'
  BY MarksStep
<1>3. IInv /\ MarksExplained /\ StorageStored /\ [Next]_vars => StorageStored'
  BY StoredStep
<1> QED BY <1>1, <1>2, <1>3, MarksInit, Invariance, PTL DEF Spec

\* The slots that updateTrie skips lose nothing: a cached origin is what the
\* storage trie holds, and a written slot without one is empty there.
THEOREM OriginAlwaysCoherent ==
    ASSUME "setStorage" \notin Env, "bareReset" \notin Env, "copyAfterError" \notin Env
    PROVE  Spec => []OriginCoherent
<1>1. IInv /\ MarksExplained /\ StorageStored => OriginCoherent
  BY StorageExplained
<1> QED BY <1>1, StorageInvariance, PTL

\* What an object holds of its storage agrees with the tries: moreover it can
\* be opened at its root, although IntermediateRoot's roots exist in memory
\* only, and the snapshot of the original root answers like the tries wherever
\* it is asked.
THEOREM StorageAlwaysCoherent ==
    ASSUME "setStorage" \notin Env, "bareReset" \notin Env, "copyAfterError" \notin Env
    PROVE  Spec => []StorageCoherent
<1>1. IInv /\ MarksExplained /\ StorageStored => StorageCoherent
  BY StorageExplained
<1> QED BY <1>1, StorageInvariance, PTL

-----------------------------------------------------------------------------
(* The chain of the views of the accounts, and where it starts.            *)

\* The entry tells of another view of account a; a touch does not.
Alters(e, a) == Concerns(e, a) /\ e.kind # "touch"

\* W[n] is the view of the accounts when the journal had n entries, acc is the
\* view now.  An account that is not in P was as the trie has it until the
\* first entry that altered it.
Grounded(P, acc, es, W) ==
    /\ W[Len(es)] = acc
    /\ \A n \in 1..Len(es) : W[n - 1] = UndoneAccounts(es[n], W[n])
    /\ \A n \in 0..Len(es), a \in Addr \ P :
          (\A i \in 1..n : ~Alters(es[i], a)) => W[n][a] = TrieView(a)

\* The chain of views grows with an entry ...
LEMMA GroundedAppend ==
    ASSUME NEW P, NEW es \in Seq(Entry), NEW e \in Entry, NEW v, NEW u, NEW W,
           Grounded(P, v, es, W), UndoneAccounts(e, u) = v
    PROVE  \E X : Grounded(P, u, Append(es, e), X)
<1> DEFINE fs == Append(es, e)
           l  == Len(es)
           X  == [n \in 0..(l + 1) |-> IF n = l + 1 THEN u ELSE W[n]]
<1>1. /\ l \in Nat /\ Len(fs) = l + 1 /\ fs[l + 1] = e
      /\ \A i \in 1..l : fs[i] = es[i]
  OBVIOUS
<1> HIDE DEF fs, l
<1>2. X[l + 1] = u /\ \A n \in 0..l : X[n] = W[n]
  BY <1>1
<1> HIDE DEF X
<1>3. W[l] = v
  BY DEF Grounded, l
<1>4. ASSUME NEW n \in 1..(l + 1) PROVE X[n - 1] = UndoneAccounts(fs[n], X[n])
  <2>1. CASE n = l + 1
    <3>1. n - 1 = l /\ X[l] = v
      BY <1>1, <1>2, <1>3, <2>1
    <3> QED BY <1>1, <1>2, <2>1, <3>1
  <2>2. CASE n \in 1..l
    <3>1. n - 1 \in 0..l /\ X[n - 1] = W[n - 1] /\ X[n] = W[n]
      BY <1>1, <1>2, <2>2
    <3>2. W[n - 1] = UndoneAccounts(es[n], W[n])
      BY <2>2 DEF Grounded, l
    <3> QED BY <1>1, <2>2, <3>1, <3>2
  <2> QED BY <1>1, <2>1, <2>2
<1>5. ASSUME NEW n \in 0..(l + 1), NEW a \in Addr \ P,
             \A i \in 1..n : ~Alters(fs[i], a)
      PROVE  X[n][a] = TrieView(a)
  <2>w. ASSUME NEW m \in 0..l, m <= n PROVE W[m][a] = TrieView(a)
    <3>1. \A i \in 1..m : i \in 1..n /\ i \in 1..l
      BY <1>1, <2>w
    <3>2. \A i \in 1..m : ~Alters(es[i], a)
      BY <1>1, <1>5, <3>1
    <3> QED BY <3>2 DEF Grounded, l
  <2>1. CASE n = l + 1
    <3>1. l \in 0..l /\ l <= n /\ l + 1 \in 1..n
      BY <1>1, <2>1
    <3>2. v[a] = TrieView(a)
      BY <1>3, <2>w, <3>1
    <3>3. ~Alters(e, a)
      BY <1>1, <1>5, <3>1
    <3>4. v[a] = IF Concerns(e, a) THEN UndoneAccount(e, u[a]) ELSE u[a]
      BY DEF UndoneAccounts
    <3>5. e.kind = "touch" => UndoneAccount(e, u[a]) = u[a]
      BY DEF UndoneAccount
    <3>6. v[a] = u[a]
      BY <3>3, <3>4, <3>5 DEF Alters
    <3> QED BY <1>2, <2>1, <3>2, <3>6
  <2>2. CASE n \in 0..l
    <3>1. n <= n
      BY <1>1
    <3> QED BY <1>2, <2>2, <2>w, <3>1
  <2> QED BY <1>1, <2>1, <2>2
<1>6. Grounded(P, u, fs, X)
  BY <1>1, <1>2, <1>4, <1>5 DEF Grounded
<1> QED BY <1>6 DEF fs

\* ... and shrinks with its revert.
LEMMA GroundedPop ==
    ASSUME NEW P, NEW es \in Seq(Entry), NEW fs \in Seq(Entry), NEW v, NEW W,
           Grounded(P, v, es, W), Len(es) = Len(fs) + 1, \A i \in 1..Len(fs) : fs[i] = es[i]
    PROVE  Grounded(P, UndoneAccounts(es[Len(es)], v), fs, W)
<1> DEFINE l == Len(fs)
<1>1. l \in Nat /\ Len(es) = l + 1 /\ l + 1 \in 1..(l + 1) /\ (l + 1) - 1 = l
  OBVIOUS
<1> HIDE DEF l
<1>2. W[l + 1] = v /\ W[(l + 1) - 1] = UndoneAccounts(es[l + 1], W[l + 1])
  BY <1>1 DEF Grounded
<1>3. \A n \in 1..l : W[n - 1] = UndoneAccounts(fs[n], W[n])
  BY <1>1 DEF Grounded, l
<1>4. ASSUME NEW n \in 0..l, NEW a \in Addr \ P,
             \A i \in 1..n : ~Alters(fs[i], a)
      PROVE  W[n][a] = TrieView(a)
  <2>1. n \in 0..(l + 1) /\ \A i \in 1..n : i \in 1..l
    BY <1>1
  <2>2. \A i \in 1..n : ~Alters(es[i], a)
    BY <1>4, <2>1 DEF l
  <2> QED BY <1>1, <2>1, <2>2 DEF Grounded
<1> QED BY <1>1, <1>2, <1>3, <1>4 DEF Grounded, l

\* An entry that concerns no account changes none.
LEMMA UndoneElse ==
    ASSUME NEW e, e.kind \notin AccountKinds, NEW acc, acc = [a \in Addr |-> acc[a]]
    PROVE  UndoneAccounts(e, acc) = acc
BY DEF UndoneAccounts, Concerns

\* The views in the course of a call.
AccountViews(objs, destruct) == [a \in Addr |-> ViewOf(objs, destruct, a)]

\* A call is a sequence of primitive steps, each of which continues the chain.
LEMMA CallGrounded ==
    ASSUME IInv, "setStorage" \notin Env, NEW a \in Addr, NEW r, Runs(r, a), r.err = FALSE,
           NEW P, NEW X, Grounded(P, AccountsView, journal.entries, X)
    PROVE  \E Y : Grounded(P, AccountViews(r.objs, r.destruct), r.journal.entries, Y)
<1> DEFINE V(s) == AccountViews(s.objs, s.destruct)
           C(s) == \E Y : Grounded(P, V(s), s.journal.entries, Y)
<1>0. /\ State \in Threaded /\ State.journal = journal /\ State.objs = stateObjects
      /\ State.destruct = stateObjectsDestruct /\ trie \in AccountTrie
  BY StateType DEF IInv, State, Threaded, TypeOK, AccountsTypeOK
<1>1. PICK s1, s2, s3, s4, s5 :
         /\ Primitive(State, s1, a) /\ Primitive(s1, s2, a) /\ Primitive(s2, s3, a)
         /\ Primitive(s3, s4, a) /\ Primitive(s4, s5, a) /\ Primitive(s5, r, a)
  BY DEF Runs, Finds, Works
<1>2. /\ s1 \in Threaded /\ s2 \in Threaded /\ s3 \in Threaded /\ s4 \in Threaded /\ s5 \in Threaded
  BY <1>0, <1>1, PrimitiveType
<1>3. /\ s5.err = FALSE /\ s4.err = FALSE /\ s3.err = FALSE /\ s2.err = FALSE /\ s1.err = FALSE
  BY <1>1, ErrStays
<1>4. C(State)
  <2>1. V(State) = AccountsView
    BY <1>0 DEF AccountViews, ViewOf, AccountsView, AccountView
  <2> QED BY <1>0, <2>1
<1>5. ASSUME NEW s \in Threaded, NEW t, Primitive(s, t, a), t.err = FALSE, C(s) PROVE C(t)
  <2> DEFINE es == s.journal.entries
             fs == t.journal.entries
             w  == WholeView(s.objs, s.destruct)
             z  == WholeView(t.objs, t.destruct)
  <2>1. es \in Seq(Entry)
    BY DEF Threaded, JournalType
  <2>2. w.accounts = V(s) /\ z.accounts = V(t)
    BY DEF WholeView, AccountViews
  <2>3. PrimitiveView(s.objs, s.destruct, s.journal, t.objs, t.destruct, t.journal)
    BY <1>0, <1>5, PrimitiveViews
  <2>4. \/ fs = es /\ z = w
        \/ \E e \in Entry : fs = Append(es, e) /\ Undone(e, z) = w
    BY <2>3 DEF PrimitiveView
  <2>5. PICK Y : Grounded(P, V(s), es, Y)
    BY <1>5
  <2> HIDE DEF es, fs, w, z, V
  <2>6. CASE fs = es /\ z = w
    BY <2>2, <2>5, <2>6 DEF es, fs
  <2>7. CASE \E e \in Entry : fs = Append(es, e) /\ Undone(e, z) = w
    <3>1. PICK e \in Entry : fs = Append(es, e) /\ Undone(e, z) = w
      BY <2>7
    <3>2. UndoneAccounts(e, z.accounts) = w.accounts
      BY <3>1 DEF Undone
    <3>3. \E Z : Grounded(P, V(t), Append(es, e), Z)
      BY <2>1, <2>2, <2>5, <3>2, GroundedAppend
    <3> QED BY <3>1, <3>3 DEF fs
  <2> QED BY <2>4, <2>6, <2>7
<1> HIDE DEF C
<1>6. C(s1)
  BY <1>0, <1>1, <1>3, <1>4, <1>5
<1>7. C(s2)
  BY <1>1, <1>2, <1>3, <1>5, <1>6
<1>8. C(s3)
  BY <1>1, <1>2, <1>3, <1>5, <1>7
<1>9. C(s4)
  BY <1>1, <1>2, <1>3, <1>5, <1>8
<1>10. C(s5)
  BY <1>1, <1>2, <1>3, <1>5, <1>9
<1>11. C(r)
  BY <1>1, <1>2, <1>5, <1>10
<1> QED BY <1>11 DEF C

-----------------------------------------------------------------------------
(* What the trie has of an account that nobody wrote to.                   *)

\* Between calls Finalise visits every account that an entry alters.
LEMMA CleanUnaltered ==
    ASSUME IInv, MarksExplained, Idle, NEW a \in Addr \ Finalised
    PROVE  \A i \in 1..Len(journal.entries) : ~Alters(journal.entries[i], a)
<1> DEFINE es == journal.entries
<1> SUFFICES ASSUME NEW i \in 1..Len(es), Concerns(es[i], a), es[i].kind # "touch" PROVE FALSE
  BY DEF Alters
<1>1. /\ es \in Seq(Entry) /\ es[i].account = a /\ es[i].kind \in AccountKinds
      /\ journal.dirties \in [Addr -> Int]
  BY DEF Concerns, IInv, TypeOK, JournalTypeOK
<1>2. ObjectsThere(es, stateObjects) /\ RevertChain(es, stateObjects) /\ CountsExact(journal)
  BY DEF MarksExplained, ObjectsLinked, Linked, IInv, ObjectsRecoverable
<1>3. stateObjects[a] # Nil
  <2>1. CASE es[i].kind \in ObjectKinds
    BY <1>1, <1>2, <2>1 DEF ObjectsThere
  <2>2. CASE es[i].kind \in DerefKinds
    <3>1. Recoverable(es, stateObjects, i)
      BY <1>2, <2>2 DEF RevertChain
    <3>2. \/ Live(stateObjects, a)
          \/ \E m \in (i + 1)..Len(es) : es[m].kind = "resetObject" /\ es[m].account = a
      BY <1>1, <3>1 DEF Recoverable
    <3>3. ASSUME NEW m \in (i + 1)..Len(es), es[m].kind = "resetObject", es[m].account = a
          PROVE  stateObjects[a] # Nil
      <4>1. m \in 1..Len(es)
        BY <1>1
      <4> QED BY <1>2, <3>3, <4>1 DEF ObjectsThere, ObjectKinds
    <3> QED BY <3>2, <3>3 DEF Live
  <2> QED BY <1>1, <2>1, <2>2 DEF AccountKinds, ObjectKinds
<1>4. journal.dirties[a] = 0
  BY <1>3 DEF Finalised, DirtyAccounts
<1>5. CASE es[i].kind = "resetObject"
  <2>1. NoBareReset(journal)
    BY CoveredIdle DEF MarksExplained
  <2> QED BY <1>1, <1>4, <1>5, <2>1 DEF NoBareReset
<1>6. CASE es[i].kind # "resetObject"
  <2>1. a \in dirtied(es[i])
    BY <1>1, <1>6 DEF AccountKinds, DerefKinds, DirtyingKinds, dirtied
  <2>2. i \in Dirtying(es, a)
    BY <2>1 DEF Dirtying
  <2>3. /\ Cardinality(Dirtying(es, a)) \in Nat
        /\ Cardinality(Dirtying(es, a)) = 0 <=> Dirtying(es, a) = {}
    BY <1>1, DirtyingFinite
  <2>4. journal.dirties[a] >= Cardinality(Dirtying(es, a))
    BY <1>2 DEF CountsExact
  <2> QED BY <1>4, <2>2, <2>3, <2>4
<1> QED BY <1>5, <1>6

\* The chain of views is there while no error is on record.
ViewsGrounded(P) == dbErr = FALSE => \E W : Grounded(P, AccountsView, journal.entries, W)

\* Less is claimed when more accounts are exempt.
LEMMA GroundedMore ==
    ASSUME NEW P, NEW Q, P \subseteq Q, ViewsGrounded(P)
    PROVE  ViewsGrounded(Q)
<1> SUFFICES ASSUME dbErr = FALSE PROVE \E W : Grounded(Q, AccountsView, journal.entries, W)
  BY DEF ViewsGrounded
<1>1. PICK W : Grounded(P, AccountsView, journal.entries, W)
  BY DEF ViewsGrounded
<1>2. Grounded(Q, AccountsView, journal.entries, W)
  BY <1>1 DEF Grounded
<1> QED BY <1>2

\* So an account that Finalise does not visit and that is not in P reads like
\* the trie.
LEMMA CleanReadsTrie ==
    ASSUME IInv, MarksExplained, NEW P, ViewsGrounded(P), Idle, dbErr = FALSE,
           NEW a \in Addr \ (P \cup Finalised)
    PROVE  AccountView(a) = TrieView(a)
<1> DEFINE es == journal.entries
<1>1. PICK W : Grounded(P, AccountsView, es, W)
  BY DEF ViewsGrounded
<1>2. \A i \in 1..Len(es) : ~Alters(es[i], a)
  BY CleanUnaltered
<1>3. Len(es) \in 0..Len(es)
  BY DEF IInv, TypeOK, JournalTypeOK
<1>4. W[Len(es)][a] = TrieView(a)
  BY <1>1, <1>2, <1>3 DEF Grounded
<1> QED BY <1>1, <1>4 DEF Grounded, AccountsView

\* The trie alone says of an account that what callers see is committed.
LEMMA TrieViewCommitted ==
    ASSUME NEW x \in Account
    PROVE  ObjectView(newObject(x), FALSE) =
              [balance |-> x.balance, nonce |-> x.nonce, code |-> x.code, suicided |-> FALSE,
               state |-> x.root, committed |-> x.root]
<1> DEFINE o == newObject(x)
<1>1. o \in Object
  BY NewObjectType
<1>2. /\ o.balance = x.balance /\ o.nonce = x.nonce /\ o.code = x.code /\ o.suicided = FALSE
      /\ o.deleted = FALSE
  BY DEF newObject
<1>3. getTrie(o) = x.root /\ \A k \in Key : /\ o.originStorage[k] = Nil
                                            /\ o.pendingStorage[k] = Nil
                                            /\ o.dirtyStorage[k] = Nil
  BY NewCoherent
<1> HIDE DEF o
<1>4. ASSUME NEW k \in Key
      PROVE  CommittedValue(o, FALSE, k) = x.root[k] /\ StateValue(o, FALSE, k) = x.root[k]
  BY <1>3 DEF StateValue, CommittedValue
<1>5. ObjectView(o, FALSE) =
         [balance |-> o.balance, nonce |-> o.nonce, code |-> o.code, suicided |-> o.suicided,
          state |-> [k \in Key |-> StateValue(o, FALSE, k)],
          committed |-> [k \in Key |-> CommittedValue(o, FALSE, k)]]
  BY <1>1, <1>2, ViewFields
<1>6. /\ [k \in Key |-> StateValue(o, FALSE, k)] = x.root
      /\ [k \in Key |-> CommittedValue(o, FALSE, k)] = x.root
  BY <1>4 DEF Account, Slots
<1> QED BY <1>2, <1>5, <1>6 DEF o

\* A copy reads like its original: what it leaves behind is in the trie.
LEMMA CopyViews ==
    ASSUME IInv, MarksExplained, ViewsGrounded(stateObjectsDirty), Copy, dbErr = FALSE,
           NEW a \in Addr
    PROVE  /\ AccountView(a)' = AccountView(a)
           /\ TrieView(a)' = TrieView(a)
<1> DEFINE d == a \in stateObjectsDestruct
           x == a \in stateObjectsDestruct'
<1>0. Idle /\ trie' = trie /\ stateObjectsDestruct' = stateObjectsDestruct
  BY DEF Copy
<1>1. stateObjects'[a] = IF a \in Copied THEN stateObjects[a] ELSE Nil
  BY DEF Copy
<1>2. TrieView(a)' = TrieView(a)
  BY <1>0 DEF TrieView
<1>v. /\ AccountView(a) = IF stateObjects[a] # Nil THEN ObjectView(stateObjects[a], d)
                          ELSE IF trie[a] = Nil THEN Nil ELSE ObjectView(newObject(trie[a]), d)
      /\ AccountView(a)' = IF stateObjects'[a] # Nil THEN ObjectView(stateObjects'[a], x)
                           ELSE IF trie'[a] = Nil THEN Nil ELSE ObjectView(newObject(trie'[a]), x)
      /\ x = d
  BY <1>0 DEF AccountView
<1>3. CASE a \in Copied
  <2> HIDE DEF d, x
  <2> QED BY <1>0, <1>1, <1>2, <1>3, <1>v
<1>4. CASE a \notin Copied
  <2>1. a \notin stateObjectsPending /\ a \notin Finalised /\ a \notin stateObjectsDirty
    BY <1>4 DEF Copied
  <2>2. AccountView(a) = TrieView(a)
    BY <1>0, <2>1, CleanReadsTrie
  <2>3. \A i \in 1..Len(journal.entries) : ~Alters(journal.entries[i], a)
    BY <1>0, <2>1, CleanUnaltered
  <2>4. \A i \in 1..Len(journal.entries) : ~IsReset(journal.entries[i], a)
    BY <2>3 DEF IsReset, Alters, Concerns, AccountKinds
  <2>5. d = FALSE
    BY <2>1, <2>4 DEF MarksExplained, DestructRecorded
  <2> HIDE DEF d, x
  <2>6. AccountView(a)' = IF trie[a] = Nil THEN Nil ELSE ObjectView(newObject(trie[a]), d)
    BY <1>0, <1>1, <1>4, <1>v
  <2> QED BY <1>2, <2>2, <2>5, <2>6 DEF TrieView
<1> QED BY <1>2, <1>3, <1>4

-----------------------------------------------------------------------------
(* IntermediateRoot commits to what callers saw.                           *)

\* finalise moves slots from one cache to the next.
LEMMA FinaliseView ==
    ASSUME NEW o \in Object, NEW d
    PROVE  /\ SameAccount(o, finalise(o))
           /\ \A k \in Key : StateValue(finalise(o), d, k) = StateValue(o, d, k)
<1> DEFINE p == finalise(o)
           m == [k \in Key |-> IF o.dirtyStorage[k] # Nil
                               THEN o.dirtyStorage[k] ELSE o.pendingStorage[k]]
<1>1. p = [o EXCEPT !.pendingStorage = m, !.dirtyStorage = NoStorage]
  BY DEF finalise
<1>2. \A k \in Key : m[k] = IF o.dirtyStorage[k] # Nil
                            THEN o.dirtyStorage[k] ELSE o.pendingStorage[k]
  OBVIOUS
<1> HIDE DEF m
<1>3. /\ p.trie = o.trie /\ p.root = o.root /\ p.originStorage = o.originStorage
      /\ p.pendingStorage = m /\ p.dirtyStorage = NoStorage
      /\ p.nonce = o.nonce /\ p.balance = o.balance /\ p.code = o.code
  BY <1>1 DEF Object
<1>4. p.suicided = o.suicided /\ p.deleted = o.deleted
  BY <1>1 DEF Object
<1> HIDE DEF p
<1>5. getTrie(p) = getTrie(o)
  BY <1>3 DEF getTrie
<1>6. SameAccount(o, p)
  BY <1>3, <1>4 DEF SameAccount
<1>7. ASSUME NEW k \in Key PROVE StateValue(p, d, k) = StateValue(o, d, k)
  BY <1>2, <1>3, <1>5 DEF StateValue, CommittedValue, NoStorage
<1> QED BY <1>6, <1>7 DEF p

\* The view of an account whose storage is committed.
Committed(o, s) ==
    [balance |-> o.balance, nonce |-> o.nonce, code |-> o.code, suicided |-> FALSE,
     state |-> s, committed |-> s]

\* An object that was flushed reads as before, with its storage committed, and
\* so does its account in the trie.
LEMMA FlushedView ==
    ASSUME NEW o \in Object, o.deleted = FALSE, o.suicided = FALSE, NEW a, NEW d \in BOOLEAN,
           Coherent(a, o, d)
    PROVE  LET p == updateRoot(o)
               s == [k \in Key |-> StateValue(o, d, k)]
           IN /\ ObjectView(p, d) = Committed(o, s)
              /\ data(p) \in Account
              /\ ObjectView(newObject(data(p)), FALSE) = Committed(o, s)
<1> DEFINE p == updateRoot(o)
           s == [k \in Key |-> StateValue(o, d, k)]
           x == data(p)
<1>1. /\ SameAccount(o, p) /\ p.root = getTrie(p) /\ Coherent(a, p, d)
      /\ \A k \in Key : FlushedSlot(o, p, d, k)
  BY UpdateRootSlots
<1>2. p \in Object /\ p # Nil
  BY UpdateRootType, ConstantsAssumption
<1> HIDE DEF p
<1>3. /\ p.balance = o.balance /\ p.nonce = o.nonce /\ p.code = o.code
      /\ p.suicided = FALSE /\ p.deleted = FALSE
  BY <1>1 DEF SameAccount
<1>4. getTrie(p) \in Slots
  BY <1>2, GetTrieType
<1>5. ASSUME NEW k \in Key
      PROVE  /\ StateValue(p, d, k) = StateValue(o, d, k)
             /\ CommittedValue(p, d, k) = StateValue(o, d, k)
             /\ p.root[k] = StateValue(o, d, k)
  <2>1. FlushedSlot(o, p, d, k) /\ SlotCoherent(a, p, d, k)
    BY <1>1 DEF Coherent
  <2>2. /\ p.pendingStorage[k] = Nil /\ p.dirtyStorage[k] = Nil
        /\ getTrie(p)[k] = StateValue(o, d, k)
    BY <2>1 DEF FlushedSlot
  <2>3. p.originStorage[k] # Nil => p.originStorage[k] = getTrie(p)[k]
    BY <2>1 DEF SlotCoherent
  <2>4. p.originStorage[k] = Nil /\ d => getTrie(p)[k] = Zero
    BY <1>3, <2>1 DEF SlotCoherent
  <2>5. CommittedValue(p, d, k) = getTrie(p)[k]
    BY <2>2, <2>3, <2>4 DEF CommittedValue
  <2>6. StateValue(p, d, k) = CommittedValue(p, d, k)
    BY <2>2 DEF StateValue
  <2> QED BY <1>1, <2>2, <2>5, <2>6
<1>6. ObjectView(p, d) = Committed(o, s)
  BY <1>2, <1>3, <1>5 DEF ObjectView, Committed
<1>7. /\ x \in Account /\ x.balance = o.balance /\ x.nonce = o.nonce /\ x.code = o.code
      /\ x.root = p.root
  BY <1>2, <1>3 DEF data, Account, Object
<1> HIDE DEF x
<1>8. x.root = s
  BY <1>5, <1>7 DEF Account, Slots
<1>9. ObjectView(newObject(x), FALSE) = Committed(o, s)
  <2>1. ObjectView(newObject(x), FALSE) =
           [balance |-> x.balance, nonce |-> x.nonce, code |-> x.code, suicided |-> FALSE,
            state |-> x.root, committed |-> x.root]
    BY <1>7, TrieViewCommitted
  <2> HIDE DEF s
  <2> QED BY <1>7, <1>8, <2>1 DEF Committed
<1> QED BY <1>6, <1>7, <1>9 DEF p, s, x

\* When nothing failed, the trie has every account that was pending.
LEMMA FlushedTrie ==
    ASSUME NEW base, NEW objs, NEW S, NEW f \in Flushed(base, objs, S), f.err = FALSE,
           NEW a \in Addr
    PROVE  /\ f.objs[a] = IF a \in S /\ ~objs[a].deleted THEN updateRoot(objs[a]) ELSE objs[a]
           /\ f.trie[a] = IF a \notin S THEN base[a]
                          ELSE IF f.objs[a].deleted THEN Nil ELSE data(f.objs[a])
<1> DEFINE rooted == Rooted(objs, S)
<1>1. \/ f = FlushOutcome(base, rooted, S, FALSE)
      \/ \E b \in S : f = FlushOutcome(base, rooted, S \ {b}, TRUE)
      \/ \E b \in {c \in S : ~objs[c].deleted} : \E o \in updateRootFailed(objs[b]) :
            f = FlushOutcome(base, [rooted EXCEPT ![b] = o], S, TRUE)
  BY DEF Flushed
<1>2. rooted[a] = IF a \in S /\ ~objs[a].deleted THEN updateRoot(objs[a]) ELSE objs[a]
  BY DEF Rooted
<1> HIDE DEF rooted
<1>3. \A m, T : FlushOutcome(base, m, T, TRUE).err = TRUE
  BY DEF FlushOutcome
<1>4. f = FlushOutcome(base, rooted, S, FALSE)
  BY <1>1, <1>3
<1>5. f.objs = rooted /\ f.trie = WrittenTrie(base, rooted, S)
  BY <1>4 DEF FlushOutcome
<1> QED BY <1>2, <1>5 DEF WrittenTrie

\* What Finalise makes of an object whose account stays or goes.
LEMMA FinalisedParts ==
    ASSUME IInv, NEW c \in BOOLEAN, NEW a \in Addr, stateObjects[a] # Nil
    PROVE  LET o == stateObjects[a]
               p == FinalisedObjects(c)[a]
               d == a \in stateObjectsDestruct
           IN IF a \in Finalised /\ Deletes(o, c)
              THEN p.deleted
              ELSE /\ (a \in FinalisedDestruct(c)) = d
                   /\ SameAccount(o, p)
                   /\ \A k \in Key : StateValue(p, d, k) = StateValue(o, d, k)
<1> DEFINE o == stateObjects[a]
           p == FinalisedObjects(c)[a]
           d == a \in stateObjectsDestruct
<1>1. o \in Object
  BY DEF IInv, TypeOK, AccountsTypeOK
<1>2. CASE a \in Finalised /\ Deletes(o, c)
  <2>1. p = [o EXCEPT !.deleted = TRUE]
    BY <1>2 DEF FinalisedObjects, FinalisedObject
  <2> HIDE DEF o, p
  <2>2. p.deleted = TRUE
    BY <1>1, <2>1 DEF Object
  <2> QED BY <1>2, <2>2 DEF o, p
<1>3. CASE ~(a \in Finalised /\ Deletes(o, c))
  <2>1. (a \in FinalisedDestruct(c)) = d
    BY <1>3 DEF FinalisedDestruct
  <2>2. p = finalise(o) \/ p = o
    BY <1>3 DEF FinalisedObjects, FinalisedObject
  <2> HIDE DEF o, p, d
  <2>3. SameAccount(o, p) /\ \A k \in Key : StateValue(p, d, k) = StateValue(o, d, k)
    BY <1>1, <2>2, FinaliseView DEF SameAccount
  <2> QED BY <1>3, <2>1, <2>3 DEF o, p, d
<1> QED BY <1>2, <1>3

\* The storage of a view becomes its committed storage.
LEMMA CommittedExcept ==
    ASSUME NEW w \in LiveView
    PROVE  [w EXCEPT !.committed = w.state] =
              [balance |-> w.balance, nonce |-> w.nonce, code |-> w.code,
               suicided |-> w.suicided, state |-> w.state, committed |-> w.state]
BY DEF LiveView

\* After IntermediateRoot the trie and the objects show the ended views.
LEMMA RootViews ==
    ASSUME IInv, MarksExplained, StorageStored, ViewsGrounded(stateObjectsPending),
           SuicidesRecorded(journal.entries, stateObjects),
           NEW c \in BOOLEAN, IntermediateRoot(c), dbErr' = FALSE, NEW a \in Addr
    PROVE  TrieView(a)' = EndedView(a, c) /\ AccountView(a)' = EndedView(a, c)
<1> DEFINE objs == FinalisedObjects(c)
           S == stateObjectsPending \cup Finalised
           o == stateObjects[a]
           p == objs[a]
           q == stateObjects'[a]
           d == a \in stateObjectsDestruct
           x == a \in FinalisedDestruct(c)
           y == a \in stateObjectsDestruct'
           t == trie'[a]
           v == EndedView(a, c)
           G == TrieView(a)' = v /\ AccountView(a)' = v
<1> SUFFICES G
  OBVIOUS
<1>0. /\ AccountsTypeOK /\ dbErr \in BOOLEAN /\ trie \in AccountTrie /\ PendingLive
      /\ Stored(journal.entries, stateObjects, stateObjectsDestruct, dbErr)
      /\ CountsExact(journal)
  BY DEF IInv, TypeOK, AccountsTypeOK, StorageStored, MarksExplained
<1>1. PICK f \in Flushed(trie, objs, S) :
         stateObjects' = f.objs /\ trie' = f.trie /\ dbErr' = (dbErr \/ f.err)
  BY DEF IntermediateRoot, IntermediateRootOn
<1>2. Idle /\ y = x
  BY DEF IntermediateRoot, IntermediateRootOn
<1>3. objs \in ObjectMap /\ S \in SUBSET Addr /\ \A b \in S : objs[b] # Nil
  <2>1. \A b \in S : stateObjects[b] # Nil
    BY <1>0 DEF PendingLive, Finalised
  <2> QED BY <1>0, <2>1, FinalisedType DEF AccountsTypeOK
<1>4. f.err = FALSE /\ dbErr = FALSE
  <2>1. f.err \in BOOLEAN
    BY <1>0, <1>1, <1>3, FlushedType
  <2> QED BY <1>0, <1>1, <2>1
<1>5. /\ q = IF a \in S /\ ~p.deleted THEN updateRoot(p) ELSE p
      /\ t = IF a \notin S THEN trie[a] ELSE IF q.deleted THEN Nil ELSE data(q)
  <2> HIDE DEF objs, S
  <2>1. /\ f.objs[a] = IF a \in S /\ ~objs[a].deleted THEN updateRoot(objs[a]) ELSE objs[a]
        /\ f.trie[a] = IF a \notin S THEN trie[a]
                       ELSE IF f.objs[a].deleted THEN Nil ELSE data(f.objs[a])
    BY <1>1, <1>4, FlushedTrie
  <2> QED BY <1>1, <2>1
<1>6. /\ AccountView(a)' = IF q # Nil THEN ObjectView(q, y)
                           ELSE IF t = Nil THEN Nil ELSE ObjectView(newObject(t), y)
      /\ TrieView(a)' = IF t = Nil THEN Nil ELSE ObjectView(newObject(t), FALSE)
  BY DEF AccountView, TrieView
<1>7. /\ AccountView(a) = IF o # Nil THEN ObjectView(o, d)
                          ELSE IF trie[a] = Nil THEN Nil ELSE ObjectView(newObject(trie[a]), d)
      /\ TrieView(a) = IF trie[a] = Nil THEN Nil ELSE ObjectView(newObject(trie[a]), FALSE)
  BY DEF AccountView, TrieView
<1>8. v = IF AccountView(a) = Nil \/ (a \in Finalised /\ Deletes(o, c)) THEN Nil
          ELSE [AccountView(a) EXCEPT !.committed = AccountView(a).state]
  BY DEF EndedView
<1>9. CASE a \notin S
  <2>1. AccountView(a) = TrieView(a)
    BY <1>2, <1>4, <1>9, CleanReadsTrie
  <2>2. p = o /\ x = d /\ a \notin Finalised
    BY <1>9 DEF FinalisedObjects, FinalisedDestruct
  <2>3. q = o /\ t = trie[a] /\ y = d
    BY <1>2, <1>5, <1>9, <2>2
  <2>4. trie[a] = Nil \/ trie[a] \in Account
    BY <1>0 DEF AccountTrie
  <2> HIDE DEF o, p, q, d, x, y, t, v
  <2>5. TrieView(a)' = TrieView(a) /\ AccountView(a)' = AccountView(a)
    BY <1>6, <1>7, <2>3
  <2>6. v = TrieView(a)
    <3>1. CASE TrieView(a) = Nil
      BY <1>8, <2>1, <3>1
    <3>2. CASE TrieView(a) # Nil
      <4> DEFINE s == trie[a].root
      <4>1. trie[a] \in Account
        BY <1>7, <2>4, <3>2
      <4>2. TrieView(a) = [balance |-> trie[a].balance, nonce |-> trie[a].nonce,
                           code |-> trie[a].code, suicided |-> FALSE, state |-> s, committed |-> s]
        BY <1>7, <3>2, <4>1, TrieViewCommitted
      <4> HIDE DEF s
      <4> DEFINE w == TrieView(a)
      <4>3. w \in LiveView
        BY <1>7, <3>2, <4>1, NewObjectType, ViewFields DEF newObject
      <4>4. /\ w.balance = trie[a].balance /\ w.nonce = trie[a].nonce /\ w.code = trie[a].code
            /\ w.suicided = FALSE /\ w.state = s
        BY <4>2
      <4> HIDE DEF w
      <4>5. [w EXCEPT !.committed = w.state] = w
        BY <4>2, <4>3, <4>4, CommittedExcept DEF w
      <4> QED BY <1>8, <2>1, <2>2, <3>2, <4>5 DEF w
    <3> QED BY <3>1, <3>2
  <2> QED BY <2>1, <2>5, <2>6
<1>10. CASE a \in S
  <2>1. o # Nil /\ o \in Object /\ p # Nil /\ p \in Object
    BY <1>0, <1>3, <1>10 DEF PendingLive, Finalised, AccountsTypeOK, ObjectMap
  <2>2. IF a \in Finalised /\ Deletes(o, c) THEN p.deleted
        ELSE x = d /\ SameAccount(o, p)
             /\ \A k \in Key : StateValue(p, d, k) = StateValue(o, d, k)
    BY <2>1, FinalisedParts
  <2>3. dbErr = FALSE => Coherent(a, p, x)
    BY <1>0, <2>1, FinalisedCoherent
  <2>4. ~p.deleted => ~p.suicided
    BY <1>0, <2>1, FinaliseDeletes DEF SuicidesGone, Live
  <2>5. d \in BOOLEAN /\ x \in BOOLEAN
    OBVIOUS
  <2> HIDE DEF o, p, q, d, x, y, t, v
  <2>6. CASE p.deleted
    <3>1. q = p /\ t = Nil
      BY <1>5, <1>10, <2>6
    <3>2. TrieView(a)' = Nil /\ AccountView(a)' = Nil
      BY <1>6, <2>1, <2>6, <3>1 DEF ObjectView
    <3>3. v = Nil
      <4>1. CASE a \in Finalised /\ Deletes(o, c)
        BY <1>8, <4>1
      <4>2. CASE ~(a \in Finalised /\ Deletes(o, c))
        <5>1. o.deleted
          BY <2>2, <2>6, <4>2 DEF SameAccount
        <5>2. AccountView(a) = Nil
          BY <1>7, <2>1, <5>1 DEF ObjectView
        <5> QED BY <1>8, <5>2
      <4> QED BY <4>1, <4>2
    <3> QED BY <3>2, <3>3
  <2>7. CASE ~p.deleted
    <3> DEFINE s == [k \in Key |-> StateValue(p, d, k)]
    <3>1. /\ ~(a \in Finalised /\ Deletes(o, c)) /\ x = d /\ SameAccount(o, p)
          /\ \A k \in Key : StateValue(p, d, k) = StateValue(o, d, k)
      BY <2>2, <2>7
    <3>2. p.deleted = FALSE /\ p.suicided = FALSE
      BY <2>1, <2>4, <2>7 DEF Object
    <3>3. Coherent(a, p, d)
      BY <1>4, <2>3, <3>1
    <3>4. q = updateRoot(p)
      BY <1>5, <1>10, <2>7
    <3>5. /\ ObjectView(q, d) = Committed(p, s)
          /\ data(q) \in Account
          /\ ObjectView(newObject(data(q)), FALSE) = Committed(p, s)
      BY <2>1, <2>5, <3>2, <3>3, <3>4, FlushedView
    <3>6. q \in Object /\ q # Nil /\ ~q.deleted
      BY <2>1, <3>2, <3>4, UpdateRootType, FlushKeepsMark, ConstantsAssumption
    <3>7. t = data(q) /\ t # Nil /\ y = d
      BY <1>2, <1>5, <1>10, <3>1, <3>5, <3>6, ConstantsAssumption
    <3>8. TrieView(a)' = Committed(p, s) /\ AccountView(a)' = Committed(p, s)
      BY <1>6, <3>5, <3>6, <3>7
    <3>9. s = [k \in Key |-> StateValue(o, d, k)]
      BY <3>1
    <3> HIDE DEF s
    <3>10. /\ ~o.deleted /\ o.suicided = FALSE /\ p.balance = o.balance /\ p.nonce = o.nonce
           /\ p.code = o.code
      BY <2>7, <3>1, <3>2 DEF SameAccount
    <3> DEFINE m == [k \in Key |-> CommittedValue(o, d, k)]
               w == ObjectView(o, d)
    <3>11. /\ w = [balance |-> o.balance, nonce |-> o.nonce, code |-> o.code,
                   suicided |-> o.suicided, state |-> s, committed |-> m]
           /\ w # Nil /\ w \in LiveView
      BY <2>1, <2>5, <3>9, <3>10, ViewFields
    <3> HIDE DEF m, w
    <3>e. /\ w.balance = o.balance /\ w.nonce = o.nonce /\ w.code = o.code
          /\ w.suicided = o.suicided /\ w.state = s
      BY <3>11
    <3>12. [w EXCEPT !.committed = w.state] = Committed(p, s)
      BY <3>10, <3>11, <3>e, CommittedExcept DEF Committed
    <3>13. AccountView(a) = w
      BY <1>7, <2>1 DEF w
    <3>14. v = Committed(p, s)
      BY <1>8, <3>1, <3>11, <3>12, <3>13
    <3> QED BY <3>8, <3>14
  <2> QED BY <2>6, <2>7
<1> QED BY <1>9, <1>10

-----------------------------------------------------------------------------
(* The chain of views over a step, and the theorems.                       *)

\* Without entries every account that is not pending reads like the trie.
LEMMA ClearsGrounded ==
    ASSUME IInv, MarksExplained, StorageStored, ViewsGrounded(stateObjectsPending),
           SuicidesRecorded(journal.entries, stateObjects), "copyAfterError" \notin Env,
           ClearsJournal, dbErr' = FALSE, NEW a \in Addr \ stateObjectsPending'
    PROVE  AccountView(a)' = TrieView(a)'
<1>0. dbErr \in BOOLEAN
  BY DEF IInv, TypeOK, AccountsTypeOK
<1>1. ASSUME NEW c \in BOOLEAN, Finalise(c) PROVE AccountView(a)' = TrieView(a)'
  <2> DEFINE d == a \in stateObjectsDestruct
             x == a \in stateObjectsDestruct'
  <2>1. /\ Idle /\ dbErr = FALSE /\ a \notin stateObjectsPending /\ a \notin Finalised
        /\ trie' = trie
    BY <1>1 DEF Finalise
  <2>2. stateObjects'[a] = stateObjects[a] /\ x = d
    BY <1>1, <2>1 DEF Finalise, FinalisedObjects, FinalisedDestruct
  <2>3. AccountView(a) = TrieView(a)
    BY <2>1, CleanReadsTrie
  <2> HIDE DEF d, x
  <2>4. AccountView(a)' = AccountView(a)
    BY <2>1, <2>2 DEF AccountView, d, x
  <2>5. TrieView(a)' = TrieView(a)
    BY <2>1 DEF TrieView
  <2> QED BY <2>3, <2>4, <2>5
<1>2. ASSUME NEW c \in BOOLEAN, IntermediateRoot(c) PROVE AccountView(a)' = TrieView(a)'
  BY <1>2, RootViews
<1>3. ASSUME Copy PROVE AccountView(a)' = TrieView(a)'
  <2>1. /\ Idle /\ dbErr = FALSE /\ a \notin stateObjectsPending /\ a \notin Finalised
    BY <1>0, <1>3 DEF Copy
  <2>2. AccountView(a) = TrieView(a)
    BY <2>1, CleanReadsTrie
  <2>3. ViewsGrounded(stateObjectsDirty)
    BY GroundedMore DEF MarksExplained, OnlyDirtyWritten
  <2> QED BY <1>3, <2>1, <2>2, <2>3, CopyViews
<1> QED BY <1>1, <1>2, <1>3 DEF ClearsJournal

\* The same with the dirty accounts for the pending ones.  It needs less,
\* because what IntermediateRoot writes stays dirty.
LEMMA ClearsGroundedDirty ==
    ASSUME IInv, MarksExplained, ViewsGrounded(stateObjectsDirty), "copyAfterError" \notin Env,
           ClearsJournal, dbErr' = FALSE, NEW a \in Addr \ stateObjectsDirty'
    PROVE  AccountView(a)' = TrieView(a)'
<1> DEFINE S == stateObjectsPending \cup Finalised
           d == a \in stateObjectsDestruct
           x == a \in stateObjectsDestruct'
<1>0. AccountsTypeOK /\ dbErr \in BOOLEAN /\ trie \in AccountTrie /\ PendingLive
  BY DEF IInv, TypeOK, AccountsTypeOK
<1>1. a \notin stateObjectsDirty /\ a \notin Finalised /\ a \notin S
  BY ClearsMarks DEF MarksExplained, OnlyDirtyWritten
<1>2. ASSUME Idle, dbErr = FALSE PROVE AccountView(a) = TrieView(a)
  BY <1>1, <1>2, CleanReadsTrie
\* Neither Finalise nor IntermediateRoot does anything to the account.
<1>3. ASSUME Idle, dbErr = FALSE, stateObjects'[a] = stateObjects[a], trie'[a] = trie[a], x = d
      PROVE  AccountView(a)' = TrieView(a)'
  <2> HIDE DEF d, x
  <2>1. AccountView(a)' = AccountView(a)
    BY <1>3 DEF AccountView, d, x
  <2>2. TrieView(a)' = TrieView(a)
    BY <1>3 DEF TrieView
  <2> QED BY <1>2, <1>3, <2>1, <2>2
<1>4. ASSUME NEW c \in BOOLEAN, Finalise(c) PROVE AccountView(a)' = TrieView(a)'
  <2>1. Idle /\ dbErr = FALSE /\ trie' = trie
    BY <1>4 DEF Finalise
  <2>2. stateObjects'[a] = stateObjects[a] /\ x = d
    BY <1>1, <1>4 DEF Finalise, FinalisedObjects, FinalisedDestruct
  <2> QED BY <1>3, <2>1, <2>2
<1>5. ASSUME NEW c \in BOOLEAN, IntermediateRoot(c) PROVE AccountView(a)' = TrieView(a)'
  <2> DEFINE objs == FinalisedObjects(c)
  <2>1. PICK f \in Flushed(trie, objs, S) :
           stateObjects' = f.objs /\ trie' = f.trie /\ dbErr' = (dbErr \/ f.err)
    BY <1>5 DEF IntermediateRoot, IntermediateRootOn
  <2>2. Idle /\ stateObjectsDestruct' = FinalisedDestruct(c)
    BY <1>5 DEF IntermediateRoot, IntermediateRootOn
  <2>3. objs \in ObjectMap /\ S \in SUBSET Addr /\ \A b \in S : objs[b] # Nil
    <3>1. \A b \in S : stateObjects[b] # Nil
      BY <1>0 DEF PendingLive, Finalised
    <3> QED BY <1>0, <3>1, FinalisedType DEF AccountsTypeOK
  <2>4. f.err = FALSE /\ dbErr = FALSE
    <3>1. f.err \in BOOLEAN
      BY <1>0, <2>1, <2>3, FlushedType
    <3> QED BY <1>0, <2>1, <3>1
  <2>5. objs[a] = stateObjects[a] /\ x = d
    BY <1>1, <2>2 DEF FinalisedObjects, FinalisedDestruct
  <2> HIDE DEF objs, S, d, x
  <2>6. /\ f.objs[a] = IF a \in S /\ ~objs[a].deleted THEN updateRoot(objs[a]) ELSE objs[a]
        /\ f.trie[a] = IF a \notin S THEN trie[a]
                       ELSE IF f.objs[a].deleted THEN Nil ELSE data(f.objs[a])
    BY <2>1, <2>4, FlushedTrie
  <2>7. f.objs[a] = objs[a] /\ f.trie[a] = trie[a]
    BY <1>1, <2>6
  <2> QED BY <1>3, <2>1, <2>2, <2>4, <2>5, <2>7
<1>6. ASSUME Copy PROVE AccountView(a)' = TrieView(a)'
  <2>1. Idle /\ dbErr = FALSE
    BY <1>0, <1>6 DEF Copy
  <2> QED BY <1>2, <1>6, <2>1, CopyViews
<1> QED BY <1>4, <1>5, <1>6 DEF ClearsJournal

\* A step that does not clear the journal continues the chain, whatever P is.
LEMMA GroundedContinues ==
    ASSUME "setStorage" \notin Env, IInv, [Next]_vars, MarksExplained, ~ClearsJournal,
           NEW P, ViewsGrounded(P), dbErr' = FALSE
    PROVE  /\ UNCHANGED <<trie, stateObjectsPending, stateObjectsDirty>>
           /\ \E W : Grounded(P, AccountsView', journal'.entries, W)
<1> DEFINE es == journal.entries
           fs == journal'.entries
           acc == AccountsView
           G  == \E W : Grounded(P, acc', fs, W)
           M  == UNCHANGED <<trie, stateObjectsPending, stateObjectsDirty>>
<1>0. /\ journal \in JournalType /\ es \in Seq(Entry) /\ Len(es) \in Nat
      /\ acc = [a \in Addr |-> acc[a]]
  BY DEF IInv, TypeOK, JournalTypeOK, JournalType, AccountsView
<1>c. ASSUME dbErr = FALSE PROVE \E W : Grounded(P, acc, es, W)
  BY <1>c DEF ViewsGrounded
<1>1. CASE \E a \in Addr : CallRuns(a) /\ UNCHANGED txVars
  <2>1. PICK a \in Addr : CallRuns(a)
    BY <1>1
  <2>2. PICK r : Runs(r, a) /\ Put(r)
    BY <2>1 DEF CallRuns
  <2>3. PICK X : Grounded(P, acc, es, X)
    BY <1>c, <2>1, CallErr
  <2>4. /\ stateObjects' = r.objs /\ stateObjectsDestruct' = r.destruct /\ journal' = r.journal
        /\ r.err = FALSE /\ M
    BY <2>2, CallEnd
  <2>5. \E Y : Grounded(P, AccountViews(r.objs, r.destruct), r.journal.entries, Y)
    BY <2>2, <2>3, <2>4, CallGrounded
  <2>6. acc' = AccountViews(r.objs, r.destruct)
    BY <2>4 DEF AccountViews, ViewOf, AccountsView, AccountView
  <2>7. G
    BY <2>4, <2>5, <2>6
  <2> QED BY <2>4, <2>7
<1>2. CASE TxSetter /\ UNCHANGED accountVars
  <2> DEFINE R(j) == j \in JournalType /\ \E W : Grounded(P, acc, j.entries, W)
  <2>1. M /\ acc' = acc /\ dbErr = FALSE
    BY <1>2 DEF accountVars, AccountsView, AccountView
  <2>2. R(journal)
    BY <1>0, <1>c, <2>1
  <2>3. ASSUME NEW j, R(j), NEW e \in TxEntry PROVE R(append(j, e))
    <3> DEFINE gs == j.entries
    <3>1. /\ e \in Entry /\ e.kind \notin AccountKinds /\ gs \in Seq(Entry) /\ j \in JournalType
      BY <2>3 DEF TxEntry, TxKinds, JournalType, AccountKinds, DerefKinds
    <3>2. append(j, e) \in JournalType /\ append(j, e).entries = Append(gs, e)
      BY <3>1, AppendType
    <3>3. PICK W : Grounded(P, acc, gs, W)
      BY <2>3
    <3> HIDE DEF gs, acc
    <3>4. UndoneAccounts(e, acc) = acc
      BY <1>0, <3>1, UndoneElse
    <3>5. \E X : Grounded(P, acc, Append(gs, e), X)
      BY <3>1, <3>3, <3>4, GroundedAppend
    <3> QED BY <3>2, <3>5
  <2> HIDE DEF R, acc
  <2>4. R(journal')
    BY <1>2, <2>2, <2>3, TxSetterAppends
  <2>5. G
    BY <2>1, <2>4 DEF R
  <2> QED BY <2>1, <2>5 DEF acc
<1>3. CASE UndoesEntry
  <2>1. dbErr = FALSE /\ M
    BY <1>3, UndoneMarks, UndoKeepsMarks
  <2>2. PICK X : Grounded(P, acc, es, X)
    BY <1>c, <2>1
  <2>3. /\ journal' = pop(journal) /\ es # <<>> /\ LastEntry = es[Len(es)]
    BY <1>3, UndoPops
  <2>4. acc' = UndoneAccounts(LastEntry, acc)
    <3>1. CASE TxUndo /\ UNCHANGED accountVars
      <4>1. acc' = acc
        BY <3>1 DEF accountVars, AccountsView, AccountView
      <4>t. LastEntry.kind \in TxKinds
        BY <3>1 DEF TxUndo, UndoRefund, UndoAddLog, UndoAddPreimage, UndoAccessListAddAccount,
           UndoAccessListAddSlot, UndoTransientStorage, Pops, TxKinds
      <4>2. LastEntry.kind \notin AccountKinds
        BY <4>t DEF TxKinds, AccountKinds, DerefKinds
      <4> HIDE DEF acc
      <4> QED BY <1>0, <4>1, <4>2, UndoneElse
    <3>2. CASE AccountUndo /\ UNCHANGED txVars
      <4>1. View' = Undone(LastEntry, View)
        BY <2>1, <3>2, AccountUndoView DEF MarksExplained
      <4>2. View.accounts = acc
        BY DEF View, AccountsView
      <4>3. View'.accounts = acc'
        BY DEF View, AccountsView
      <4>4. Undone(LastEntry, View).accounts = UndoneAccounts(LastEntry, View.accounts)
        BY DEF Undone
      <4> HIDE DEF acc
      <4> QED BY <4>1, <4>2, <4>3, <4>4
    <3> QED BY <1>3, <3>1, <3>2 DEF UndoesEntry
  <2>5. fs \in Seq(Entry) /\ Len(es) = Len(fs) + 1 /\ \A i \in 1..Len(fs) : fs[i] = es[i]
    BY <1>0, <2>3, PopType DEF JournalType
  <2> HIDE DEF es, fs, acc
  <2>6. Grounded(P, acc', fs, X)
    BY <1>0, <2>2, <2>3, <2>4, <2>5, GroundedPop
  <2>7. G
    BY <2>6
  <2> QED BY <2>1, <2>7 DEF acc, fs
<1>4. CASE KeepsJournal
  <2>1. M /\ acc' = acc /\ dbErr = FALSE /\ fs = es
    BY <1>4 DEF KeepsJournal, accountVars, AccountsView, AccountView
  <2>2. G
    BY <1>c, <2>1
  <2> QED BY <2>1, <2>2
<1> QED BY <1>1, <1>2, <1>3, <1>4, StepCases

\* A chain can start from any views.
LEMMA ChainStarts ==
    ASSUME NEW acc PROVE \E W : W[0] = acc
<1> DEFINE W == [n \in {0} |-> acc]
<1>1. W[0] = acc
  OBVIOUS
<1> QED BY <1>1

\* Every step keeps the views grounded in the trie, but for pending accounts ...
LEMMA GroundedStep ==
    ASSUME "setStorage" \notin Env, "copyAfterError" \notin Env, IInv, [Next]_vars, MarksExplained,
           StorageStored, SuicidesRecorded(journal.entries, stateObjects),
           ViewsGrounded(stateObjectsPending)
    PROVE  ViewsGrounded(stateObjectsPending)'
<1> SUFFICES ASSUME dbErr' = FALSE
             PROVE  (\E W : Grounded(stateObjectsPending, AccountsView, journal.entries, W))'
  BY DEF ViewsGrounded
<1>1. CASE ~ClearsJournal
  <2>1. /\ UNCHANGED <<trie, stateObjectsPending>>
        /\ \E W : Grounded(stateObjectsPending, AccountsView', journal'.entries, W)
    BY <1>1, GroundedContinues
  <2>2. PICK W : Grounded(stateObjectsPending, AccountsView', journal'.entries, W)
    BY <2>1
  <2>3. \A a \in Addr : TrieView(a)' = TrieView(a)
    BY <2>1 DEF TrieView
  <2>4. (Grounded(stateObjectsPending, AccountsView, journal.entries, W))'
    BY <2>1, <2>2, <2>3 DEF Grounded
  <2> QED BY <2>4
<1>2. CASE ClearsJournal
  <2>1. journal'.entries = <<>>
    BY <1>2, ClearsToEmpty
  <2>2. \A a \in Addr \ stateObjectsPending' : AccountView(a)' = TrieView(a)'
    BY <1>2, ClearsGrounded
  <2>3. Len(journal'.entries) = 0 /\ \A a \in Addr : AccountsView'[a] = AccountView(a)'
    BY <2>1 DEF AccountsView
  <2>4. PICK W : W[0] = AccountsView'
    BY ChainStarts
  <2>5. (Grounded(stateObjectsPending, AccountsView, journal.entries, W))'
    BY <2>2, <2>3, <2>4 DEF Grounded
  <2> QED BY <2>5
<1> QED BY <1>1, <1>2

\* ... and but for dirty ones.
LEMMA GroundedStepDirty ==
    ASSUME "setStorage" \notin Env, "copyAfterError" \notin Env, IInv, [Next]_vars, MarksExplained,
           ViewsGrounded(stateObjectsDirty)
    PROVE  ViewsGrounded(stateObjectsDirty)'
<1> SUFFICES ASSUME dbErr' = FALSE
             PROVE  (\E W : Grounded(stateObjectsDirty, AccountsView, journal.entries, W))'
  BY DEF ViewsGrounded
<1>1. CASE ~ClearsJournal
  <2>1. /\ UNCHANGED <<trie, stateObjectsDirty>>
        /\ \E W : Grounded(stateObjectsDirty, AccountsView', journal'.entries, W)
    BY <1>1, GroundedContinues
  <2>2. PICK W : Grounded(stateObjectsDirty, AccountsView', journal'.entries, W)
    BY <2>1
  <2>3. \A a \in Addr : TrieView(a)' = TrieView(a)
    BY <2>1 DEF TrieView
  <2>4. (Grounded(stateObjectsDirty, AccountsView, journal.entries, W))'
    BY <2>1, <2>2, <2>3 DEF Grounded
  <2> QED BY <2>4
<1>2. CASE ClearsJournal
  <2>1. journal'.entries = <<>>
    BY <1>2, ClearsToEmpty
  <2>2. \A a \in Addr \ stateObjectsDirty' : AccountView(a)' = TrieView(a)'
    BY <1>2, ClearsGroundedDirty
  <2>3. Len(journal'.entries) = 0 /\ \A a \in Addr : AccountsView'[a] = AccountView(a)'
    BY <2>1 DEF AccountsView
  <2>4. PICK W : W[0] = AccountsView'
    BY ChainStarts
  <2>5. (Grounded(stateObjectsDirty, AccountsView, journal.entries, W))'
    BY <2>2, <2>3, <2>4 DEF Grounded
  <2> QED BY <2>5
<1> QED BY <1>1, <1>2

\* Everything the theorems rest on.
LedgerInv ==
    /\ IInv
    /\ MarksExplained
    /\ StorageStored
    /\ SuicidesRecorded(journal.entries, stateObjects)
    /\ ViewsGrounded(stateObjectsPending)

\* In the initial state every account looks as the trie has it.
LEMMA GroundedInit ==
    ASSUME Init, NEW P PROVE ViewsGrounded(P)
<1> SUFFICES \E W : Grounded(P, AccountsView, journal.entries, W)
  BY DEF ViewsGrounded
<1>1. Len(journal.entries) = 0
  BY DEF Init, JournalInit, newJournal
<1>2. ASSUME NEW a \in Addr PROVE AccountsView[a] = TrieView(a)
  <2>1. stateObjects[a] = Nil /\ (a \in stateObjectsDestruct) = FALSE
    BY DEF Init, AccountsInit
  <2> QED BY <2>1 DEF AccountsView, AccountView, TrieView
<1>3. PICK W : W[0] = AccountsView
  BY ChainStarts
<1>4. Grounded(P, AccountsView, journal.entries, W)
  BY <1>1, <1>2, <1>3 DEF Grounded
<1> QED BY <1>4

\* The inductive invariant behind the theorems on roots.
LEMMA LedgerInvariance ==
    ASSUME "setStorage" \notin Env, "bareReset" \notin Env, "copyAfterError" \notin Env,
           "copyMidTx" \notin Env
    PROVE  Spec => []LedgerInv
<1> DEFINE Rec == SuicidesRecorded(journal.entries, stateObjects)
           V   == ViewsGrounded(stateObjectsPending)
<1>1. Init => Rec
  BY DEF Init, JournalInit, AccountsInit, newJournal, SuicidesRecorded, Live
<1>2. Init => V
  BY GroundedInit
<1>3. IInv /\ MarksExplained /\ StorageStored /\ Rec /\ [Next]_vars => Rec'
  BY SuicidesStep DEF MarksExplained
<1>4. IInv /\ MarksExplained /\ StorageStored /\ Rec /\ V /\ [Next]_vars => V'
  BY GroundedStep
<1>5. LedgerInv <=> IInv /\ MarksExplained /\ StorageStored /\ Rec /\ V
  BY DEF LedgerInv
<1> HIDE DEF Rec, V
<1> QED BY <1>1, <1>2, <1>3, <1>4, <1>5, StorageInvariance, PTL DEF Spec

\* What the theorem on copies rests on.
CopiesInv ==
    /\ IInv
    /\ MarksExplained
    /\ ViewsGrounded(stateObjectsDirty)

\* The inductive invariant behind the theorems on copies.
LEMMA CopyInvariance ==
    ASSUME "setStorage" \notin Env, "bareReset" \notin Env, "copyAfterError" \notin Env
    PROVE  Spec => []CopiesInv
<1> DEFINE V == ViewsGrounded(stateObjectsDirty)
<1>1. Init => V
  BY GroundedInit
<1>2. IInv /\ IInv' /\ MarksExplained /\ [Next]_vars => MarksExplained'
  BY MarksStep
<1>3. IInv /\ MarksExplained /\ V /\ [Next]_vars => V'
  BY GroundedStepDirty
<1>4. CopiesInv <=> IInv /\ MarksExplained /\ V
  BY DEF CopiesInv
<1> HIDE DEF V
<1> QED BY <1>1, <1>2, <1>3, <1>4, MarksInit, Invariance, PTL DEF Spec

\* No write is lost between the journal, the pending set and the trie: between
\* calls, and while no failed read is on record, an account that is neither
\* dirty nor pending reads the same from the trie as from the live object.
THEOREM NothingEverLost ==
    ASSUME "setStorage" \notin Env, "bareReset" \notin Env, "copyAfterError" \notin Env,
           "copyMidTx" \notin Env
    PROVE  Spec => []NothingLost
<1>1. ASSUME LedgerInv PROVE NothingLost
  <2> SUFFICES ASSUME Idle, ~dbErr, NEW a \in Addr \ (DirtyAccounts \cup stateObjectsPending)
               PROVE  AccountView(a) = TrieView(a)
    BY DEF NothingLost
  <2>1. dbErr = FALSE /\ a \in Addr \ (stateObjectsPending \cup Finalised)
    BY <1>1 DEF LedgerInv, IInv, TypeOK, AccountsTypeOK, Finalised
  <2> QED BY <1>1, <2>1, CleanReadsTrie DEF LedgerInv
<1>2. LedgerInv => NothingLost
  BY <1>1
<1> QED BY <1>2, LedgerInvariance, PTL

\* IntermediateRoot returns the root of the state callers saw: whatever the
\* journal, the caches, the pending set and the no-op checks decide to write or
\* to skip, afterwards the trie and the getters agree on every account.
THEOREM RootAlwaysCommitsView ==
    ASSUME "setStorage" \notin Env, "bareReset" \notin Env, "copyAfterError" \notin Env,
           "copyMidTx" \notin Env
    PROVE  Spec => RootCommitsView
<1> DEFINE A == \A d \in BOOLEAN : ~dbErr' /\ IntermediateRoot(d) =>
                   \A a \in Addr :
                       TrieView(a)' = EndedView(a, d) /\ AccountView(a)' = EndedView(a, d)
<1>1. ASSUME LedgerInv, LedgerInv' PROVE A
  <2> SUFFICES ASSUME NEW d \in BOOLEAN, ~dbErr', IntermediateRoot(d), NEW a \in Addr
               PROVE  TrieView(a)' = EndedView(a, d) /\ AccountView(a)' = EndedView(a, d)
    OBVIOUS
  <2>1. dbErr' = FALSE
    BY <1>1 DEF LedgerInv, IInv, TypeOK, AccountsTypeOK
  <2> QED BY <1>1, <2>1, RootViews DEF LedgerInv
<1>2. LedgerInv /\ LedgerInv' => [A]_vars
  BY <1>1
<1> HIDE DEF A
<1>3. []LedgerInv => [][A]_vars
  BY <1>2, PTL
<1>4. Spec => [][A]_vars
  BY <1>3, LedgerInvariance, PTL
<1> QED BY <1>4 DEF RootCommitsView, A

\* Copy leaves clean objects, the journal and the snapshots behind, and still
\* the copy reads like its original, in the middle of a transaction too.
THEOREM CopyAlwaysPreservesView ==
    ASSUME "setStorage" \notin Env, "bareReset" \notin Env, "copyAfterError" \notin Env
    PROVE  Spec => CopyPreservesView
<1> DEFINE A == Copy => \A a \in Addr : AccountView(a)' = AccountView(a)
<1>1. ASSUME CopiesInv PROVE A
  <2> SUFFICES ASSUME Copy PROVE \A a \in Addr : AccountView(a)' = AccountView(a)
    OBVIOUS
  <2>1. dbErr = FALSE
    BY <1>1 DEF Copy, CopiesInv, IInv, TypeOK, AccountsTypeOK
  <2> QED BY <1>1, <2>1, CopyViews DEF CopiesInv
<1>2. CopiesInv => [A]_vars
  BY <1>1
<1> HIDE DEF A
<1>3. []CopiesInv => [][A]_vars
  BY <1>2, PTL
<1>4. Spec => [][A]_vars
  BY <1>3, CopyInvariance, PTL
<1> QED BY <1>4 DEF CopyPreservesView, A
=============================================================================
