------------------------ MODULE StateDBHistory_proofs ------------------------
(***************************************************************************)
(* RevertToSnapshot restores everything a caller can observe.  Each entry  *)
(* of the journal says how the view before it is computed from the view    *)
(* after it.  The proof keeps the whole chain of views, from the first     *)
(* entry to the last, and with it the views that were saved at snapshots.  *)
(* First, a StateDB with a prefetcher implements one without.              *)
(***************************************************************************)
EXTENDS StateDBHistory, Accounts_proofs

-----------------------------------------------------------------------------
(* A StateDB with a prefetcher implements one without.                     *)

\* Inductive invariant: while there is a prefetcher, the trie is as it was
\* opened.
Untouched == prefetcher # Nil => trie = originalRoot

\* The methods on accounts write to the objects, never to the trie.
LEMMA PutKeepsTrie ==
    ASSUME NEW s, Put(s)
    PROVE  UNCHANGED <<originalRoot, trie>>
BY DEF Put

\* Calls on accounts leave the trie as it is.
LEMMA AccountCallKeepsTrie ==
    ASSUME NEW a \in Addr, NEW io \in Reads, AccountCall(a, io)
    PROVE  UNCHANGED <<originalRoot, trie>>
<1>1. CASE GetAccount(a, io)
  BY <1>1, PutKeepsTrie DEF GetAccount
<1>2. CASE GetCode(a, io)
  BY <1>2, PutKeepsTrie DEF GetCode
<1>3. CASE \E k \in Key : GetState(a, k, io) \/ GetCommittedState(a, k, io)
  BY <1>3, PutKeepsTrie DEF GetState, GetCommittedState
<1>4. CASE \E amount \in Amount : AddBalance(a, amount, io)
  BY <1>4, PutKeepsTrie DEF AddBalance
<1>5. CASE \E amount \in Amount : SubBalance(a, amount, io)
  BY <1>5, PutKeepsTrie DEF SubBalance
<1>6. CASE \E amount \in Amount : SetBalance(a, amount, io)
  BY <1>6, PutKeepsTrie DEF SetBalance
<1>7. CASE \E nonce \in Nonce : SetNonce(a, nonce, io)
  BY <1>7, PutKeepsTrie DEF SetNonce
<1>8. CASE \E code \in Code : SetCode(a, code, io)
  BY <1>8, PutKeepsTrie DEF SetCode
<1>9. CASE \E k \in Key, value \in Word : SetState(a, k, value, io)
  BY <1>9, PutKeepsTrie DEF SetState
<1>10. CASE \E k \in Key, value \in Word : SetStorage(a, k, value, io)
  BY <1>10, PutKeepsTrie DEF SetStorage
<1>11. CASE Suicide(a, io)
  BY <1>11, PutKeepsTrie DEF Suicide
<1>12. CASE CreateAccount(a, io)
  BY <1>12, PutKeepsTrie DEF CreateAccount
<1>13. CASE CreateContract(a, io)
  BY <1>13, PutKeepsTrie DEF CreateContract
<1> QED BY <1>1, <1>2, <1>3, <1>4, <1>5, <1>6, <1>7, <1>8, <1>9, <1>10, <1>11, <1>12, <1>13
        DEF AccountCall

\* Neither does a revert.
LEMMA AccountUndoKeepsTrie ==
    ASSUME AccountUndo
    PROVE  UNCHANGED <<originalRoot, trie>>
BY DEF AccountUndo, UndoCreateObject, UndoResetObject, UndoSuicide, UndoTouch, UndoBalance,
       UndoNonce, UndoCode, UndoStorage, UndoField, Undo

\* So do all calls.
LEMMA CallKeepsTrie ==
    ASSUME Call
    PROVE  UNCHANGED <<originalRoot, trie>>
<1>1. CASE \E a \in Addr, io \in Reads : AccountCall(a, io)
  BY <1>1, AccountCallKeepsTrie
<1>2. CASE AccountUndo
  BY <1>2, AccountUndoKeepsTrie
<1>3. CASE UNCHANGED accountVars
  BY <1>3 DEF accountVars
<1> QED BY <1>1, <1>2, <1>3 DEF Call, RevertStep

\* The trie of the prefetcher is the one that IntermediateRoot replaces.
LEMMA TrieReplacedByEqual ==
    ASSUME Untouched, NEW d \in BOOLEAN, PIntermediateRoot(d)
    PROVE  IntermediateRoot(d)
<1>1. PICK base \in AccountTries(prefetch(prefetcher, Finalised)) : IntermediateRootOn(base, d)
  BY DEF PIntermediateRoot
<1>2. prefetcher = Nil => prefetch(prefetcher, Finalised) = Nil
  BY DEF prefetch
<1>3. base = trie
  BY <1>1, <1>2 DEF AccountTries, Untouched
<1> QED BY <1>1, <1>3 DEF IntermediateRoot

\* A prefetcher that was started on an untouched trie is gone as soon as the
\* trie is written to.
LEMMA UntouchedInv == Untouched /\ [PNext]_prefetchVars => Untouched'
<1> SUFFICES ASSUME Untouched, [PNext]_prefetchVars PROVE Untouched'
  OBVIOUS
<1>1. CASE Call /\ UNCHANGED prefetcher
  BY <1>1, CallKeepsTrie DEF Untouched
<1>2. CASE \E d \in BOOLEAN : PFinalise(d)
  BY <1>2 DEF PFinalise, Finalise, prefetch, Untouched
<1>3. CASE \E d \in BOOLEAN : PIntermediateRoot(d)
  BY <1>3 DEF PIntermediateRoot, Untouched
<1>4. CASE PCopy
  BY <1>4 DEF PCopy, Copy, Untouched
<1>5. CASE StartPrefetcher \/ StopPrefetcher \/ UNCHANGED prefetchVars
  BY <1>5 DEF StartPrefetcher, StopPrefetcher, prefetchVars, vars, accountVars, Untouched
<1> QED BY <1>1, <1>2, <1>3, <1>4, <1>5 DEF PNext

\* With or without a prefetcher the trie stays untouched.
LEMMA UntouchedInvariant == PSpec => []Untouched
<1>1. PInit => Untouched
  BY DEF PInit, Untouched
<1> QED BY <1>1, UntouchedInv, PTL DEF PSpec

\* IntermediateRoot with a prefetcher does what it does without one.
THEOREM PrefetchedRootsExact == PSpec => PrefetchTransparent
<1>1. Untouched /\ [PNext]_prefetchVars =>
          [\A d \in BOOLEAN : PIntermediateRoot(d) => IntermediateRoot(d)]_prefetchVars
  BY TrieReplacedByEqual
<1> QED BY <1>1, UntouchedInvariant, PTL DEF PSpec, PrefetchTransparent

\* A step of a StateDB with a prefetcher is a step of one without.
LEMMA PrefetcherStep == Untouched /\ [PNext]_prefetchVars => [Next]_vars
<1> SUFFICES ASSUME Untouched, [PNext]_prefetchVars PROVE [Next]_vars
  OBVIOUS
<1>1. CASE Call
  BY <1>1 DEF Next
<1>2. CASE \E d \in BOOLEAN : PFinalise(d)
  BY <1>2 DEF PFinalise, Next
<1>3. CASE \E d \in BOOLEAN : PIntermediateRoot(d)
  BY <1>3, TrieReplacedByEqual DEF Next
<1>4. CASE PCopy
  BY <1>4 DEF PCopy, Next
<1>5. CASE StartPrefetcher \/ StopPrefetcher \/ UNCHANGED prefetchVars
  BY <1>5 DEF StartPrefetcher, StopPrefetcher, prefetchVars
<1> QED BY <1>1, <1>2, <1>3, <1>4, <1>5 DEF PNext

\* Every behaviour of a StateDB with a prefetcher is one of a StateDB without:
\* what the runs and the proofs show of the latter holds for both.
THEOREM PrefetcherRefines == PSpec => Spec
<1>1. PInit => Init
  BY DEF PInit
<1> QED BY <1>1, PrefetcherStep, UntouchedInvariant, PTL DEF PSpec, Spec

-----------------------------------------------------------------------------
(* What an entry says about the view before it.                            *)

AccountKinds == {"createObject", "resetObject", "suicide", "touch"} \cup DerefKinds

Concerns(e, a) == e.kind \in AccountKinds /\ e.account = a

\* The view of the account that e concerns, from its view x after e.
UndoneAccount(e, x) ==
    CASE e.kind = "createObject" -> Nil
      [] e.kind = "resetObject"  -> ObjectView(e.prev, e.prevdestruct)
      [] e.kind = "suicide"      -> IF x = Nil THEN Nil
                                    ELSE [x EXCEPT !.suicided = e.prev, !.balance = e.prevbalance]
      [] e.kind = "balance"      -> [x EXCEPT !.balance = e.prev]
      [] e.kind = "nonce"        -> [x EXCEPT !.nonce = e.prev]
      [] e.kind = "code"         -> [x EXCEPT !.code = e.prev]
      [] e.kind = "storage"      -> [x EXCEPT !.state = [x.state EXCEPT ![e.key] = e.prevalue]]
      [] OTHER                   -> x

UndoneAccounts(e, x) ==
    [a \in Addr |-> IF Concerns(e, a) THEN UndoneAccount(e, x[a]) ELSE x[a]]

\* The view before e, from the view v after e.
Undone(e, v) == [tx |-> UndoneTx(e, v.tx), accounts |-> UndoneAccounts(e, v.accounts)]

\* W[n] is the view when the journal had n entries; v is the view now.
Traced(v, es, W) ==
    /\ W[Len(es)] = v
    /\ \A n \in 1..Len(es) : W[n - 1] = Undone(es[n], W[n])

-----------------------------------------------------------------------------
(* What makes the reverts of creations, resets and suicides right.         *)

ObjectKinds == {"createObject", "resetObject", "suicide", "storage"}

\* While no read has failed, only accounts that the trie has not are created.
CreatesAbsent(es, err) ==
    err = FALSE => \A i \in 1..Len(es) : es[i].kind = "createObject" => trie[es[i].account] = Nil

\* An account that was reset is marked as destructed, by its first reset.
ResetsMarked(es, destruct) ==
    \A i \in 1..Len(es) : es[i].kind = "resetObject" =>
        /\ es[i].account \in destruct
        /\ \A j \in (i + 1)..Len(es) :
              es[j].kind = "resetObject" /\ es[j].account = es[i].account => es[j].prevdestruct

\* An object that was created, reset, marked or written to is there, and was
\* created first.
ObjectsThere(es, objs) ==
    \A i \in 1..Len(es) : es[i].kind \in ObjectKinds =>
        /\ objs[es[i].account] # Nil
        /\ \A j \in (i + 1)..Len(es) :
              es[j].kind = "createObject" => es[j].account # es[i].account

Linked(es, objs, destruct, err) ==
    CreatesAbsent(es, err) /\ ResetsMarked(es, destruct) /\ ObjectsThere(es, objs)

\* A step that adds objects and marks, and no entry.
LEMMA LinkedKeep ==
    ASSUME NEW es \in Seq(Entry), NEW objs, NEW destruct, NEW err, Linked(es, objs, destruct, err),
           NEW objs2, NEW destruct2, NEW err2,
           err2 = FALSE => err = FALSE,
           \A b \in Addr : objs[b] # Nil => objs2[b] # Nil,
           destruct \subseteq destruct2
    PROVE  Linked(es, objs2, destruct2, err2)
<1>1. \A i \in 1..Len(es) : es[i].kind \in ObjectKinds => es[i].account \in Addr
  BY EntryFields DEF ObjectKinds
<1>2. CreatesAbsent(es, err2)
  BY DEF Linked, CreatesAbsent
<1>3. ResetsMarked(es, destruct2)
  BY DEF Linked, ResetsMarked
<1>4. ObjectsThere(es, objs2)
  BY <1>1 DEF Linked, ObjectsThere
<1> QED BY <1>2, <1>3, <1>4 DEF Linked

\* A new entry that finds things as it says.
LEMMA LinkedAppend ==
    ASSUME NEW es \in Seq(Entry), NEW objs, NEW destruct, NEW err, Linked(es, objs, destruct, err),
           NEW objs2, NEW destruct2, NEW err2, NEW e \in Entry,
           err2 = FALSE => err = FALSE,
           \A b \in Addr : objs[b] # Nil => objs2[b] # Nil,
           destruct \subseteq destruct2,
           e.kind \in ObjectKinds => objs2[e.account] # Nil,
           e.kind = "createObject" =>
               objs[e.account] = Nil /\ (err2 = FALSE => trie[e.account] = Nil),
           e.kind = "resetObject" =>
               /\ e.account \in destruct2
               /\ e.account \in destruct => e.prevdestruct
    PROVE  Linked(Append(es, e), objs2, destruct2, err2)
<1> DEFINE fs == Append(es, e)
           n  == Len(es)
<1>1. /\ n \in Nat /\ Len(fs) = n + 1 /\ fs[n + 1] = e
      /\ \A i \in 1..n : fs[i] = es[i]
  OBVIOUS
<1>2. Linked(es, objs2, destruct2, err2)
  BY LinkedKeep
<1>3. \A i \in 1..n : es[i].kind \in ObjectKinds => es[i].account \in Addr
  BY EntryFields DEF ObjectKinds
<1> HIDE DEF fs, n
<1>4. CreatesAbsent(fs, err2)
  BY <1>1, <1>2 DEF Linked, CreatesAbsent, n
<1>5. ResetsMarked(fs, destruct2)
  <2> SUFFICES ASSUME NEW i \in 1..(n + 1), fs[i].kind = "resetObject"
               PROVE  /\ fs[i].account \in destruct2
                      /\ \A j \in (i + 1)..(n + 1) :
                            fs[j].kind = "resetObject" /\ fs[j].account = fs[i].account
                                => fs[j].prevdestruct
    BY <1>1 DEF ResetsMarked
  <2>1. CASE i = n + 1
    BY <1>1, <2>1
  <2>2. CASE i \in 1..n
    <3>1. fs[i] = es[i] /\ es[i].account \in destruct
      BY <1>1, <2>2 DEF Linked, ResetsMarked, n
    <3>2. \A j \in (i + 1)..n : es[j].kind = "resetObject" /\ es[j].account = es[i].account
                                    => es[j].prevdestruct
      BY <2>2, <3>1 DEF Linked, ResetsMarked, n
    <3> QED BY <1>1, <2>2, <3>1, <3>2
  <2> QED BY <1>1, <2>1, <2>2
<1>6. ObjectsThere(fs, objs2)
  <2> SUFFICES ASSUME NEW i \in 1..(n + 1), fs[i].kind \in ObjectKinds
               PROVE  /\ objs2[fs[i].account] # Nil
                      /\ \A j \in (i + 1)..(n + 1) :
                            fs[j].kind = "createObject" => fs[j].account # fs[i].account
    BY <1>1 DEF ObjectsThere
  <2>1. CASE i = n + 1
    BY <1>1, <2>1
  <2>2. CASE i \in 1..n
    <3>1. fs[i] = es[i] /\ objs[es[i].account] # Nil /\ objs2[es[i].account] # Nil
      BY <1>1, <1>3, <2>2 DEF Linked, ObjectsThere, n
    <3>2. \A j \in (i + 1)..n : es[j].kind = "createObject" => es[j].account # es[i].account
      BY <2>2, <3>1 DEF Linked, ObjectsThere, n
    <3> QED BY <1>1, <2>2, <3>1, <3>2
  <2> QED BY <1>1, <2>1, <2>2
<1> QED BY <1>4, <1>5, <1>6 DEF Linked, fs

\* One entry less, whose revert leaves what the earlier ones need.
LEMMA LinkedPop ==
    ASSUME NEW es \in Seq(Entry), NEW fs \in Seq(Entry), NEW objs, NEW destruct, NEW err,
           Linked(es, objs, destruct, err),
           Len(es) = Len(fs) + 1, \A i \in 1..Len(fs) : fs[i] = es[i],
           NEW objs2, NEW destruct2,
           \A b \in Addr : objs[b] # Nil =>
               objs2[b] # Nil \/ (es[Len(es)].kind = "createObject" /\ es[Len(es)].account = b),
           \A b \in destruct :
               \/ b \in destruct2
               \/ /\ es[Len(es)].kind = "resetObject" /\ es[Len(es)].account = b
                  /\ ~es[Len(es)].prevdestruct
    PROVE  Linked(fs, objs2, destruct2, err)
<1> DEFINE n == Len(fs)
<1>1. n \in Nat /\ Len(es) = n + 1
  OBVIOUS
<1>2. \A i \in 1..n : es[i].kind \in ObjectKinds => es[i].account \in Addr
  BY <1>1, EntryFields DEF ObjectKinds
<1> HIDE DEF n
<1>3. CreatesAbsent(fs, err)
  BY <1>1 DEF Linked, CreatesAbsent, n
<1>4. ResetsMarked(fs, destruct2)
  <2> SUFFICES ASSUME NEW i \in 1..n, es[i].kind = "resetObject"
               PROVE  /\ es[i].account \in destruct2
                      /\ \A j \in (i + 1)..n :
                            es[j].kind = "resetObject" /\ es[j].account = es[i].account
                                => es[j].prevdestruct
    BY <1>1 DEF ResetsMarked, n
  <2>1. /\ es[i].account \in destruct
        /\ \A j \in (i + 1)..(n + 1) :
              es[j].kind = "resetObject" /\ es[j].account = es[i].account => es[j].prevdestruct
    BY <1>1 DEF Linked, ResetsMarked
  <2> QED BY <1>1, <2>1
<1>5. ObjectsThere(fs, objs2)
  <2> SUFFICES ASSUME NEW i \in 1..n, es[i].kind \in ObjectKinds
               PROVE  /\ objs2[es[i].account] # Nil
                      /\ \A j \in (i + 1)..n :
                            es[j].kind = "createObject" => es[j].account # es[i].account
    BY <1>1 DEF ObjectsThere, n
  <2>1. /\ objs[es[i].account] # Nil
        /\ \A j \in (i + 1)..(n + 1) :
              es[j].kind = "createObject" => es[j].account # es[i].account
    BY <1>1 DEF Linked, ObjectsThere
  <2> QED BY <1>1, <1>2, <2>1
<1> QED BY <1>3, <1>4, <1>5 DEF Linked

\* The primitive steps find things as their entries say.
LEMMA LinkedPrimitive ==
    ASSUME NEW s \in Threaded, NEW a \in Addr, NEW r, Primitive(s, r, a), trie \in AccountTrie,
           Linked(s.journal.entries, s.objs, s.destruct, s.err)
    PROVE  r \in Threaded /\ Linked(r.journal.entries, r.objs, r.destruct, r.err)
<1> DEFINE es == s.journal.entries
<1>0. /\ r \in Threaded /\ s.journal \in JournalType /\ s.objs \in ObjectMap /\ es \in Seq(Entry)
  BY PrimitiveType DEF Threaded, JournalType
<1>b. r.err = FALSE => s.err = FALSE
  BY DEF Primitive, Fails, Marks, Loads, Creates, Resets, Caches, Touches, Changes, Fields
<1>k. ASSUME r.journal = s.journal, s.destruct \subseteq r.destruct,
             \A b \in Addr : s.objs[b] # Nil => r.objs[b] # Nil
      PROVE  Linked(r.journal.entries, r.objs, r.destruct, r.err)
  <2> DEFINE so == s.objs
             sd == s.destruct
             se == s.err
             ro == r.objs
             rd == r.destruct
             re == r.err
  <2>1. /\ es \in Seq(Entry) /\ Linked(es, so, sd, se) /\ (re = FALSE => se = FALSE)
        /\ sd \subseteq rd /\ \A b \in Addr : so[b] # Nil => ro[b] # Nil
    BY <1>0, <1>b, <1>k
  <2> HIDE DEF es, so, sd, se, ro, rd, re
  <2>2. Linked(es, ro, rd, re)
    BY <2>1, LinkedKeep
  <2> QED BY <1>k, <2>2 DEF es, ro, rd, re
<1>n. ASSUME NEW e \in Entry, r.journal.entries = Append(es, e), s.destruct \subseteq r.destruct,
             \A b \in Addr : s.objs[b] # Nil => r.objs[b] # Nil,
             e.kind \in ObjectKinds => r.objs[e.account] # Nil,
             e.kind = "createObject" =>
                 s.objs[e.account] = Nil /\ (r.err = FALSE => trie[e.account] = Nil),
             e.kind = "resetObject" =>
                 /\ e.account \in r.destruct
                 /\ e.account \in s.destruct => e.prevdestruct
      PROVE  Linked(r.journal.entries, r.objs, r.destruct, r.err)
  <2> DEFINE so == s.objs
             sd == s.destruct
             se == s.err
             ro == r.objs
             rd == r.destruct
             re == r.err
  <2>1. /\ es \in Seq(Entry) /\ Linked(es, so, sd, se) /\ (re = FALSE => se = FALSE)
        /\ sd \subseteq rd /\ \A b \in Addr : so[b] # Nil => ro[b] # Nil
    BY <1>0, <1>b, <1>n
  <2>2. /\ e.kind \in ObjectKinds => ro[e.account] # Nil
        /\ e.kind = "createObject" =>
              so[e.account] = Nil /\ (re = FALSE => trie[e.account] = Nil)
        /\ e.kind = "resetObject" =>
              /\ e.account \in rd
              /\ e.account \in sd => e.prevdestruct
    BY <1>n
  <2> HIDE DEF es, so, sd, se, ro, rd, re
  <2>3. Linked(Append(es, e), ro, rd, re)
    BY <2>1, <2>2, LinkedAppend
  <2> QED BY <1>n, <2>3 DEF es, ro, rd, re
<1>a. ASSUME NEW o \in Object, r.objs = [s.objs EXCEPT ![a] = o]
      PROVE  r.objs[a] # Nil /\ \A b \in Addr : s.objs[b] # Nil => r.objs[b] # Nil
  BY <1>0, <1>a, UpdatedMap, ConstantsAssumption
<1>1. CASE r = s \/ Fails(s, r) \/ Marks(s, r, a)
  <2>1. r.journal = s.journal /\ r.objs = s.objs /\ s.destruct \subseteq r.destruct
    BY <1>1 DEF Fails, Marks, Fields
  <2> QED BY <1>0, <2>1, <1>k
<1>2. CASE Loads(s, r, a)
  <2>1. newObject(trie[a]) \in Object
    BY <1>2, NewObjectType DEF Loads, AccountTrie
  <2>2. /\ r.objs = [s.objs EXCEPT ![a] = newObject(trie[a])] /\ r.journal = s.journal
        /\ r.destruct = s.destruct
    BY <1>2 DEF Loads, Fields
  <2>3. \A b \in Addr : s.objs[b] # Nil => r.objs[b] # Nil
    BY <1>a, <2>1, <2>2
  <2> QED BY <1>0, <2>2, <2>3, <1>k
<1>3. CASE Creates(s, r, a)
  <2> DEFINE e == CreateEntry(a)
  <2>1. e \in Entry /\ e.kind = "createObject" /\ e.account = a
    BY EntryTypes DEF CreateEntry
  <2>2. /\ r.objs = [s.objs EXCEPT ![a] = newObject(NewAccount)] /\ r.journal = append(s.journal, e)
        /\ r.destruct = s.destruct /\ s.objs[a] = Nil
        /\ r.err = FALSE => trie[a] = Nil
    BY <1>3 DEF Creates, Fields
  <2>3. r.objs[a] # Nil /\ \A b \in Addr : s.objs[b] # Nil => r.objs[b] # Nil
    BY <1>a, <2>2, NewAccountType, NewObjectType
  <2>4. r.journal.entries = Append(es, e)
    BY <1>0, <2>1, <2>2, AppendType
  <2> HIDE DEF e
  <2> QED BY <1>0, <2>1, <2>2, <2>3, <2>4, <1>n
<1>4. CASE Resets(s, r, a)
  <2> DEFINE e == ResetEntry(s, a)
  <2>1. s.objs[a] \in Object /\ (a \in s.destruct) \in BOOLEAN
    BY <1>4 DEF Resets, Threaded, ObjectMap
  <2>2. /\ e \in Entry /\ e.kind = "resetObject" /\ e.account = a
        /\ a \in s.destruct => e.prevdestruct
    BY <2>1, EntryTypes DEF ResetEntry
  <2>3. PICK b \in Int :
           /\ r.objs = [s.objs EXCEPT ![a] = Fresh(b)] /\ r.journal = append(s.journal, e)
           /\ r.destruct = s.destruct \cup {a}
    BY <1>4 DEF Resets, Fields
  <2>4. r.objs[a] # Nil /\ \A c \in Addr : s.objs[c] # Nil => r.objs[c] # Nil
    BY <1>a, <2>3, FreshType
  <2>5. r.journal.entries = Append(es, e)
    BY <1>0, <2>2, <2>3, AppendType
  <2> HIDE DEF e
  <2> QED BY <1>0, <2>2, <2>3, <2>4, <2>5, <1>n
<1>5. CASE Caches(s, r, a)
  <2>1. PICK k \in Key : /\ r.objs = [s.objs EXCEPT ![a] = Cached(s.objs[a], a \in s.destruct, k)]
                         /\ r.journal = s.journal /\ r.destruct = s.destruct
    BY <1>5 DEF Caches, Fields
  <2> DEFINE d == a \in s.destruct
  <2>2. s.objs[a] \in Object /\ d \in BOOLEAN
    BY <1>0, <1>5, LiveObject DEF Caches
  <2> HIDE DEF d
  <2>3. Cached(s.objs[a], d, k) \in Object
    BY <2>2, CachedType
  <2>4. \A b \in Addr : s.objs[b] # Nil => r.objs[b] # Nil
    BY <1>a, <2>1, <2>3 DEF d
  <2> QED BY <1>0, <2>1, <2>4, <1>k
<1>6. CASE Touches(s, r, a)
  <2> DEFINE e == [kind |-> "touch", account |-> a]
  <2>1. e \in Entry /\ e.kind = "touch"
    BY EntryTypes
  <2>2. append(s.journal, e) \in JournalType /\ append(s.journal, e).entries = Append(es, e)
    BY <1>0, <2>1, AppendType
  <2>3. /\ r.journal.entries = Append(es, e) /\ r.objs = s.objs
        /\ r.destruct = s.destruct
    BY <1>6, <2>2, DirtyType DEF Touches, Fields, TouchJournal
  <2> HIDE DEF e
  <2> QED BY <1>0, <2>1, <2>3, <2>3, <1>n DEF ObjectKinds
<1>7. CASE Changes(s, r, a)
  <2>1. PICK e \in Entry, o \in Object :
           /\ Records(s, a, e, o)
           /\ r.objs = [s.objs EXCEPT ![a] = o] /\ r.journal = append(s.journal, e)
           /\ r.destruct = s.destruct
    BY <1>7 DEF Changes, Fields
  <2>2. r.journal.entries = Append(es, e)
    BY <1>0, <2>1, AppendType
  <2>3. e.account = a /\ e.kind \notin {"createObject", "resetObject"}
    BY <2>1 DEF Records
  <2>4. r.objs[a] # Nil /\ \A b \in Addr : s.objs[b] # Nil => r.objs[b] # Nil
    BY <1>a, <2>1
  <2> QED BY <1>0, <2>1, <2>3, <2>4, <2>2, <1>n
<1> QED BY <1>1, <1>2, <1>3, <1>4, <1>5, <1>6, <1>7 DEF Primitive

\* What a revert does to the objects and to the marks.
LEMMA UndoneMarks ==
    ASSUME IInv, UndoesEntry
    PROVE  /\ \A b \in Addr : stateObjects[b] # Nil =>
                 stateObjects'[b] # Nil \/ (LastEntry.kind = "createObject" /\ LastEntry.account = b)
           /\ \A b \in stateObjectsDestruct :
                 \/ b \in stateObjectsDestruct'
                 \/ /\ LastEntry.kind = "resetObject" /\ LastEntry.account = b
                    /\ ~LastEntry.prevdestruct
           /\ dbErr' = dbErr /\ trie' = trie
<1>1. CASE TxUndo /\ UNCHANGED accountVars
  BY <1>1 DEF accountVars
<1>2. CASE AccountUndo /\ UNCHANGED txVars
  <2>0. AccountsTypeOK /\ LastEntry \in Entry
    BY UndoPops DEF IInv, TypeOK
  <2>1. UndoneObjects
    BY <1>2, <2>0, AccountUndoStep
  <2>2. \A b \in Addr : stateObjects[b] # Nil =>
           stateObjects'[b] # Nil \/ (LastEntry.kind = "createObject" /\ LastEntry.account = b)
    BY <2>1 DEF UndoneObjects
  <2>3. dbErr' = dbErr /\ trie' = trie
    BY <1>2 DEF AccountUndo, UndoCreateObject, UndoResetObject, UndoSuicide, UndoTouch, UndoBalance,
       UndoNonce, UndoCode, UndoStorage, UndoField, Undo
  <2>4. \A b \in stateObjectsDestruct :
           \/ b \in stateObjectsDestruct'
           \/ /\ LastEntry.kind = "resetObject" /\ LastEntry.account = b
              /\ ~LastEntry.prevdestruct
    BY <1>2 DEF AccountUndo, UndoCreateObject, UndoResetObject, UndoSuicide, UndoTouch, UndoBalance,
       UndoNonce, UndoCode, UndoStorage, UndoField, Undo
  <2> QED BY <2>2, <2>3, <2>4
<1> QED BY <1>1, <1>2 DEF UndoesEntry

ObjectsLinked == Linked(journal.entries, stateObjects, stateObjectsDestruct, dbErr)

\* Every step keeps the objects linked to the entries that concern them.
LEMMA LinkedStep ==
    ASSUME IInv, [Next]_vars, ObjectsLinked
    PROVE  ObjectsLinked'
<1>0. /\ State \in Threaded /\ State.journal = journal /\ State.objs = stateObjects
      /\ State.destruct = stateObjectsDestruct /\ State.err = dbErr
      /\ trie \in AccountTrie /\ journal \in JournalType /\ journal.entries \in Seq(Entry)
  BY StateType DEF IInv, State, Threaded, TypeOK, AccountsTypeOK, JournalType
<1>1. CASE \E a \in Addr : CallRuns(a) /\ UNCHANGED txVars
  <2> DEFINE L(s) == Linked(s.journal.entries, s.objs, s.destruct, s.err)
  <2>0. PICK a \in Addr : CallRuns(a)
    BY <1>1
  <2>1. PICK r : Runs(r, a) /\ Put(r)
    BY <2>0 DEF CallRuns
  <2>2. PICK s1, s2, s3, s4, s5 :
           /\ Primitive(State, s1, a) /\ Primitive(s1, s2, a) /\ Primitive(s2, s3, a)
           /\ Primitive(s3, s4, a) /\ Primitive(s4, s5, a) /\ Primitive(s5, r, a)
    BY <2>1 DEF Runs, Finds, Works
  <2>3. ASSUME NEW s \in Threaded, NEW t, Primitive(s, t, a), L(s)
        PROVE  t \in Threaded /\ L(t)
    BY <1>0, <2>3, LinkedPrimitive
  <2>4. L(State)
    BY <1>0 DEF ObjectsLinked
  <2> HIDE DEF L
  <2>5. s1 \in Threaded /\ L(s1)
    BY <1>0, <2>2, <2>3, <2>4
  <2>6. s2 \in Threaded /\ L(s2)
    BY <2>2, <2>3, <2>5
  <2>7. s3 \in Threaded /\ L(s3)
    BY <2>2, <2>3, <2>6
  <2>8. s4 \in Threaded /\ L(s4)
    BY <2>2, <2>3, <2>7
  <2>9. s5 \in Threaded /\ L(s5)
    BY <2>2, <2>3, <2>8
  <2>10. L(r)
    BY <2>2, <2>3, <2>9
  <2>11. trie' = trie
    BY <2>1, CallEnd
  <2> QED BY <2>1, <2>10, <2>11, CallEnd
      DEF L, ObjectsLinked, Linked, CreatesAbsent, ResetsMarked, ObjectsThere
<1>2. CASE TxSetter /\ UNCHANGED accountVars
  <2> DEFINE T(j) == j \in JournalType /\ Linked(j.entries, stateObjects, stateObjectsDestruct, dbErr)
  <2>1. ASSUME NEW j, T(j), NEW e \in TxEntry
        PROVE  T(append(j, e))
    <3>1. e \in Entry /\ e.kind \notin ObjectKinds
      BY DEF TxEntry, TxKinds, ObjectKinds
    <3>2. j \in JournalType /\ j.entries \in Seq(Entry)
      BY <2>1 DEF JournalType
    <3>3. append(j, e) \in JournalType /\ append(j, e).entries = Append(j.entries, e)
      BY <3>1, <3>2, AppendType
    <3>4. Linked(Append(j.entries, e), stateObjects, stateObjectsDestruct, dbErr)
      BY <2>1, <3>1, <3>2, LinkedAppend DEF ObjectKinds
    <3> QED BY <3>3, <3>4
  <2>2. T(journal)
    BY <1>0 DEF ObjectsLinked
  <2> HIDE DEF T
  <2>3. T(journal')
    BY <1>2, <2>1, <2>2, TxSetterAppends
  <2> QED BY <1>2, <2>3
      DEF T, accountVars, ObjectsLinked, Linked, CreatesAbsent, ResetsMarked, ObjectsThere
<1>3. CASE UndoesEntry
  <2> DEFINE es == journal.entries
             fs == journal'.entries
  <2>1. /\ journal' = pop(journal) /\ es # <<>> /\ LastEntry = es[Len(es)]
    BY <1>3, UndoPops
  <2>2. /\ fs \in Seq(Entry) /\ Len(es) = Len(fs) + 1 /\ \A i \in 1..Len(fs) : fs[i] = es[i]
    BY <1>0, <2>1, PopType DEF JournalType
  <2>3. Linked(fs, stateObjects', stateObjectsDestruct', dbErr)
    BY <1>0, <1>3, <2>1, <2>2, UndoneMarks, LinkedPop DEF ObjectsLinked
  <2>4. dbErr' = dbErr /\ trie' = trie
    BY <1>3, UndoneMarks
  <2> QED BY <2>3, <2>4 DEF ObjectsLinked, Linked, CreatesAbsent, ResetsMarked, ObjectsThere
<1>4. CASE ClearsJournal
  <2>1. journal'.entries = <<>>
    BY <1>4, ClearsToEmpty
  <2> QED BY <2>1 DEF ObjectsLinked, Linked, CreatesAbsent, ResetsMarked, ObjectsThere
<1>5. CASE KeepsJournal
  BY <1>5 DEF KeepsJournal, accountVars, ObjectsLinked, Linked, CreatesAbsent, ResetsMarked,
     ObjectsThere
<1> QED BY <1>1, <1>2, <1>3, <1>4, <1>5, StepCases

-----------------------------------------------------------------------------
(* The views of objects.                                                   *)

\* What a caller sees of a live object.
LEMMA ViewFields ==
    ASSUME NEW o \in Object, ~o.deleted, NEW d \in BOOLEAN
    PROVE  /\ ObjectView(o, d) =
                 [balance |-> o.balance, nonce |-> o.nonce, code |-> o.code,
                  suicided |-> o.suicided,
                  state |-> [k \in Key |-> StateValue(o, d, k)],
                  committed |-> [k \in Key |-> CommittedValue(o, d, k)]]
           /\ ObjectView(o, d) \in LiveView
           /\ ObjectView(o, d) # Nil
<1>0. o # Nil
  BY ConstantsAssumption
<1>1. ObjectView(o, d) =
         [balance |-> o.balance, nonce |-> o.nonce, code |-> o.code, suicided |-> o.suicided,
          state |-> [k \in Key |-> StateValue(o, d, k)],
          committed |-> [k \in Key |-> CommittedValue(o, d, k)]]
  BY <1>0 DEF ObjectView
<1>2. [k \in Key |-> StateValue(o, d, k)] \in Slots
  BY StateValueType DEF Slots
<1>3. ASSUME NEW k \in Key PROVE CommittedValue(o, d, k) \in Word
  <2>1. getTrie(o)[k] \in Word
    BY GetTrieType DEF Slots
  <2>2. o.pendingStorage \in Cache /\ o.originStorage \in Cache
    BY DEF Object
  <2> QED BY <2>1, <2>2, ConstantsAssumption DEF CommittedValue, Cache
<1>4. [k \in Key |-> CommittedValue(o, d, k)] \in Slots
  BY <1>3 DEF Slots
<1>5. o.balance \in Int /\ o.nonce \in Nat /\ o.code \in Code /\ o.suicided \in BOOLEAN
  BY DEF Object
<1>6. ObjectView(o, d) \in LiveView
  BY <1>1, <1>2, <1>4, <1>5 DEF LiveView
<1> QED BY <1>1, <1>6, ViewAssumption

\* Slots read the same from objects with the same caches and the same trie.
LEMMA SameStorage ==
    ASSUME NEW o, NEW p, NEW d,
           p.pendingStorage = o.pendingStorage, p.originStorage = o.originStorage,
           p.dirtyStorage = o.dirtyStorage, p.root = o.root, p.trie = o.trie
    PROVE  /\ \A k \in Key : StateValue(p, d, k) = StateValue(o, d, k)
           /\ \A k \in Key : CommittedValue(p, d, k) = CommittedValue(o, d, k)
BY DEF StateValue, CommittedValue, getTrie

\* Caching a slot changes nothing a caller sees.
LEMMA CachedView ==
    ASSUME NEW o \in Object, ~o.deleted, NEW d \in BOOLEAN, NEW k \in Key
    PROVE  ObjectView(Cached(o, d, k), d) = ObjectView(o, d)
<1> DEFINE c == Cached(o, d, k)
           g == getTrie(o)
<1>0. c \in Object /\ ~c.deleted
  BY CachedType
<1>1. g \in Slots /\ g[k] \in Word /\ g # Nil /\ g[k] # Nil
  BY GetTrieType, ConstantsAssumption DEF Slots
<1>2. CASE ~NeedsTrie(o, d, k)
  BY <1>2 DEF Cached
<1>3. CASE NeedsTrie(o, d, k)
  <2> DEFINE m == [o.originStorage EXCEPT ![k] = g[k]]
  <2>1. c = [o EXCEPT !.trie = g, !.originStorage = m]
    BY <1>3 DEF Cached
  <2>2. m[k] = g[k] /\ \A l \in Key \ {k} : m[l] = o.originStorage[l]
    BY DEF Object, Cache
  <2> HIDE DEF m, g
  <2>3. /\ c.pendingStorage = o.pendingStorage /\ c.dirtyStorage = o.dirtyStorage
        /\ c.trie = g /\ c.originStorage = m
        /\ c.balance = o.balance /\ c.nonce = o.nonce /\ c.code = o.code
        /\ c.suicided = o.suicided
    BY <2>1 DEF Object
  <2> HIDE DEF c
  <2>4. getTrie(c) = g
    BY <1>1, <2>3 DEF getTrie
  <2>5. ASSUME NEW l \in Key PROVE CommittedValue(c, d, l) = CommittedValue(o, d, l)
    <3>1. CASE l = k
      BY <1>1, <1>3, <2>2, <2>3, <2>4, <3>1 DEF CommittedValue, NeedsTrie, g
    <3>2. CASE l # k
      BY <2>2, <2>3, <2>4, <3>2 DEF CommittedValue, g
    <3> QED BY <3>1, <3>2
  <2>6. ASSUME NEW l \in Key PROVE StateValue(c, d, l) = StateValue(o, d, l)
    BY <2>3, <2>5 DEF StateValue
  <2>7. /\ [l \in Key |-> StateValue(c, d, l)] = [l \in Key |-> StateValue(o, d, l)]
        /\ [l \in Key |-> CommittedValue(c, d, l)] = [l \in Key |-> CommittedValue(o, d, l)]
    BY <2>5, <2>6
  <2>8. ObjectView(c, d) = ObjectView(o, d)
    BY <1>0, <2>3, <2>7, ViewFields
  <2> QED BY <2>8 DEF c
<1> QED BY <1>2, <1>3

\* p is o with the field that e changed set back.
SetsBack(e, o, p) ==
    \/ e.kind = "balance" /\ p = [o EXCEPT !.balance = e.prev]
    \/ e.kind = "nonce" /\ p = [o EXCEPT !.nonce = e.prev]
    \/ e.kind = "code" /\ p = [o EXCEPT !.code = e.prev]
    \/ e.kind = "suicide" /\ p = [o EXCEPT !.suicided = e.prev, !.balance = e.prevbalance]

\* Setting a field of the object back sets the field of the view back.
LEMMA FieldView ==
    ASSUME NEW o \in Object, ~o.deleted, NEW d \in BOOLEAN, NEW e \in Entry, NEW p \in Object,
           SetsBack(e, o, p)
    PROVE  ~p.deleted /\ ObjectView(p, d) = UndoneAccount(e, ObjectView(o, d))
<1>0. /\ p.pendingStorage = o.pendingStorage /\ p.originStorage = o.originStorage
      /\ p.dirtyStorage = o.dirtyStorage /\ p.root = o.root /\ p.trie = o.trie
      /\ p.deleted = o.deleted
  BY DEF SetsBack, Object
<1>1. /\ [l \in Key |-> StateValue(p, d, l)] = [l \in Key |-> StateValue(o, d, l)]
      /\ [l \in Key |-> CommittedValue(p, d, l)] = [l \in Key |-> CommittedValue(o, d, l)]
  BY <1>0, SameStorage
<1> DEFINE S == [l \in Key |-> StateValue(o, d, l)]
           C == [l \in Key |-> CommittedValue(o, d, l)]
           x == ObjectView(o, d)
           y == ObjectView(p, d)
<1>2. /\ x = [balance |-> o.balance, nonce |-> o.nonce, code |-> o.code,
              suicided |-> o.suicided, state |-> S, committed |-> C]
      /\ x # Nil
  BY ViewFields
<1>3. y = [balance |-> p.balance, nonce |-> p.nonce, code |-> p.code,
           suicided |-> p.suicided, state |-> S, committed |-> C]
  BY <1>0, <1>1, ViewFields
<1> HIDE DEF x, y, S, C
<1>4. CASE e.kind = "balance" /\ p = [o EXCEPT !.balance = e.prev]
  <2>1. p.balance = e.prev /\ p.nonce = o.nonce /\ p.code = o.code /\ p.suicided = o.suicided
    BY <1>4 DEF Object
  <2>2. y = [x EXCEPT !.balance = e.prev]
    BY <1>2, <1>3, <2>1
  <2> QED BY <1>0, <1>4, <2>2 DEF UndoneAccount, x, y
<1>5. CASE e.kind = "nonce" /\ p = [o EXCEPT !.nonce = e.prev]
  <2>1. p.balance = o.balance /\ p.nonce = e.prev /\ p.code = o.code /\ p.suicided = o.suicided
    BY <1>5 DEF Object
  <2>2. y = [x EXCEPT !.nonce = e.prev]
    BY <1>2, <1>3, <2>1
  <2> QED BY <1>0, <1>5, <2>2 DEF UndoneAccount, x, y
<1>6. CASE e.kind = "code" /\ p = [o EXCEPT !.code = e.prev]
  <2>1. p.balance = o.balance /\ p.nonce = o.nonce /\ p.code = e.prev /\ p.suicided = o.suicided
    BY <1>6 DEF Object
  <2>2. y = [x EXCEPT !.code = e.prev]
    BY <1>2, <1>3, <2>1
  <2> QED BY <1>0, <1>6, <2>2 DEF UndoneAccount, x, y
<1>7. CASE e.kind = "suicide" /\ p = [o EXCEPT !.suicided = e.prev, !.balance = e.prevbalance]
  <2>a. p.balance = e.prevbalance /\ p.nonce = o.nonce /\ p.code = o.code
    BY <1>7 DEF Object
  <2>b. p.suicided = e.prev
    <3> DEFINE b == e.prev
               q == [o EXCEPT !.suicided = b, !.balance = e.prevbalance]
    <3>1. p = q
      BY <1>7
    <3> HIDE DEF b
    <3>2. q.suicided = b
      BY DEF Object
    <3> QED BY <3>1, <3>2 DEF b
  <2>1. /\ p.balance = e.prevbalance /\ p.nonce = o.nonce /\ p.code = o.code
        /\ p.suicided = e.prev
    BY <2>a, <2>b
  <2> DEFINE b == e.prev
             n == o.suicided
  <2>c. x = [balance |-> o.balance, nonce |-> o.nonce, code |-> o.code,
             suicided |-> n, state |-> S, committed |-> C]
    BY <1>2
  <2>d. y = [balance |-> e.prevbalance, nonce |-> o.nonce, code |-> o.code,
             suicided |-> b, state |-> S, committed |-> C]
    BY <1>3, <2>1
  <2> HIDE DEF b, n
  <2>2. y = [x EXCEPT !.suicided = b, !.balance = e.prevbalance]
    <3> DEFINE u == [x EXCEPT !.suicided = b]
               v == [u EXCEPT !.balance = e.prevbalance]
    <3>1. u = [balance |-> o.balance, nonce |-> o.nonce, code |-> o.code,
               suicided |-> b, state |-> S, committed |-> C]
      BY <2>c
    <3>3. [x EXCEPT !.suicided = b, !.balance = e.prevbalance] = v
      OBVIOUS
    <3> HIDE DEF u
    <3>2. v = y
      BY <2>d, <3>1
    <3> QED BY <3>2, <3>3
  <2> QED BY <1>0, <1>2, <1>7, <2>2 DEF UndoneAccount, x, y, b
<1> QED BY <1>4, <1>5, <1>6, <1>7 DEF SetsBack

\* So it is with a slot: p reads like o, except at the slot of e.
LEMMA StorageView ==
    ASSUME NEW o \in Object, ~o.deleted, NEW p \in Object, NEW d \in BOOLEAN, NEW e \in Entry,
           e.kind = "storage",
           \E m : p = [o EXCEPT !.dirtyStorage = m]
                  /\ \A l \in Key \ {e.key} : m[l] = o.dirtyStorage[l],
           StateValue(p, d, e.key) = e.prevalue
    PROVE  ~p.deleted /\ ObjectView(p, d) = UndoneAccount(e, ObjectView(o, d))
<1> DEFINE k == e.key
           S == [l \in Key |-> StateValue(o, d, l)]
           T == [l \in Key |-> StateValue(p, d, l)]
           C == [l \in Key |-> CommittedValue(o, d, l)]
           x == ObjectView(o, d)
           y == ObjectView(p, d)
<1>0. k \in Key
  BY EntryFields
<1>1. PICK m : p = [o EXCEPT !.dirtyStorage = m] /\ \A l \in Key \ {k} : m[l] = o.dirtyStorage[l]
  OBVIOUS
<1>2. /\ p.pendingStorage = o.pendingStorage /\ p.originStorage = o.originStorage
      /\ p.root = o.root /\ p.trie = o.trie /\ p.dirtyStorage = m
      /\ p.balance = o.balance /\ p.nonce = o.nonce /\ p.code = o.code
  BY <1>1 DEF Object
<1>3. p.suicided = o.suicided /\ p.deleted = o.deleted
  BY <1>1 DEF Object
<1>4. \A l \in Key : CommittedValue(p, d, l) = CommittedValue(o, d, l)
  BY <1>2 DEF CommittedValue, getTrie
<1>5. \A l \in Key \ {k} : StateValue(p, d, l) = StateValue(o, d, l)
  BY <1>1, <1>2, <1>4 DEF StateValue
<1>6. T = [S EXCEPT ![k] = e.prevalue]
  BY <1>0, <1>5
<1>7. [l \in Key |-> CommittedValue(p, d, l)] = C
  BY <1>4
<1>8. x = [balance |-> o.balance, nonce |-> o.nonce, code |-> o.code,
           suicided |-> o.suicided, state |-> S, committed |-> C]
  BY ViewFields
<1>9. y = [balance |-> p.balance, nonce |-> p.nonce, code |-> p.code,
           suicided |-> p.suicided, state |-> T, committed |-> C]
  BY <1>3, <1>7, ViewFields
<1> DEFINE n == o.suicided
<1>10. x = [balance |-> o.balance, nonce |-> o.nonce, code |-> o.code,
            suicided |-> n, state |-> S, committed |-> C]
  BY <1>8
<1>11. y = [balance |-> o.balance, nonce |-> o.nonce, code |-> o.code,
            suicided |-> n, state |-> T, committed |-> C]
  BY <1>2, <1>3, <1>9
<1> HIDE DEF n, S, T, C, x, y
<1>12. y = [x EXCEPT !.state = T] /\ x.state = S
  BY <1>10, <1>11
<1>13. y = [x EXCEPT !.state = [x.state EXCEPT ![k] = e.prevalue]]
  BY <1>6, <1>12
<1> HIDE DEF k
<1> QED BY <1>3, <1>13 DEF UndoneAccount, x, y, k

-----------------------------------------------------------------------------
(* The chain of views.                                                     *)

\* An entry that concerns no account, and one that concerns no account or
\* nothing but accounts.
LEMMA UndoneParts ==
    ASSUME NEW e, NEW v
    PROVE  /\ Undone(e, v) = [tx |-> UndoneTx(e, v.tx), accounts |-> UndoneAccounts(e, v.accounts)]
           /\ e.kind \in AccountKinds /\ v.tx = TxView => UndoneTx(e, v.tx) = TxView
           /\ e.kind \notin AccountKinds /\ v.accounts = [a \in Addr |-> v.accounts[a]]
                 => UndoneAccounts(e, v.accounts) = v.accounts
<1>1. Undone(e, v) = [tx |-> UndoneTx(e, v.tx), accounts |-> UndoneAccounts(e, v.accounts)]
  BY DEF Undone
<1>2. ASSUME e.kind \in AccountKinds, v.tx = TxView PROVE UndoneTx(e, v.tx) = TxView
  <2>1. e.kind \notin TxKinds
    BY <1>2 DEF AccountKinds, DerefKinds, TxKinds
  <2> QED BY <1>2, <2>1, UndoneTxOther
<1>3. ASSUME e.kind \notin AccountKinds, v.accounts = [a \in Addr |-> v.accounts[a]]
      PROVE  UndoneAccounts(e, v.accounts) = v.accounts
  BY <1>3 DEF UndoneAccounts, Concerns
<1> QED BY <1>1, <1>2, <1>3

\* The chain grows with an entry that leads back to the view before it.
LEMMA TracedAppend ==
    ASSUME NEW es \in Seq(Entry), NEW e \in Entry, NEW v, NEW u, NEW W,
           Traced(v, es, W), Undone(e, u) = v
    PROVE  \E X : /\ Traced(u, Append(es, e), X)
                  /\ \A n \in 0..Len(es) : X[n] = W[n]
<1> DEFINE fs == Append(es, e)
           l  == Len(es)
           X  == [n \in 0..(l + 1) |-> IF n = l + 1 THEN u ELSE W[n]]
<1>1. /\ l \in Nat /\ Len(fs) = l + 1 /\ fs[l + 1] = e
      /\ \A i \in 1..l : fs[i] = es[i]
  OBVIOUS
<1> HIDE DEF fs, l
<1>2. X[l + 1] = u /\ \A n \in 0..l : X[n] = W[n]
  BY <1>1
<1>3. ASSUME NEW n \in 1..(l + 1) PROVE X[n - 1] = Undone(fs[n], X[n])
  <2>1. CASE n = l + 1
    <3>1. n - 1 = l /\ X[l] = W[l] /\ W[l] = v
      BY <1>1, <1>2, <2>1 DEF Traced, l
    <3> QED BY <1>1, <1>2, <2>1, <3>1
  <2>2. CASE n \in 1..l
    <3>1. n - 1 \in 0..l /\ X[n - 1] = W[n - 1] /\ X[n] = W[n]
      BY <1>1, <1>2, <2>2
    <3>2. W[n - 1] = Undone(es[n], W[n])
      BY <2>2 DEF Traced, l
    <3> QED BY <1>1, <2>2, <3>1, <3>2
  <2> QED BY <1>1, <2>1, <2>2
<1> HIDE DEF X
<1>4. Traced(u, fs, X)
  BY <1>1, <1>2, <1>3 DEF Traced
<1> QED BY <1>2, <1>4 DEF fs, l

\* Undoing the last entry goes one view back.
LEMMA TracedPop ==
    ASSUME NEW es \in Seq(Entry), NEW fs \in Seq(Entry), NEW v, NEW W, Traced(v, es, W),
           Len(es) = Len(fs) + 1, \A i \in 1..Len(fs) : fs[i] = es[i]
    PROVE  Traced(Undone(es[Len(es)], v), fs, W)
<1> DEFINE l == Len(fs)
<1>1. l \in Nat /\ Len(es) = l + 1 /\ l + 1 \in 1..(l + 1) /\ (l + 1) - 1 = l
  OBVIOUS
<1> HIDE DEF l
<1>2. W[l + 1] = v /\ W[(l + 1) - 1] = Undone(es[l + 1], W[l + 1])
  BY <1>1 DEF Traced
<1>3. \A n \in 1..l : W[n - 1] = Undone(fs[n], W[n])
  BY <1>1 DEF Traced, l
<1> QED BY <1>1, <1>2, <1>3 DEF Traced, l

\* The view of an account, of all accounts and of everything, in the course of
\* a call.
ViewOf(objs, destruct, a) ==
    IF objs[a] # Nil THEN ObjectView(objs[a], a \in destruct)
    ELSE IF trie[a] = Nil THEN Nil
    ELSE ObjectView(newObject(trie[a]), a \in destruct)

WholeView(objs, destruct) ==
    [tx |-> TxView, accounts |-> [a \in Addr |-> ViewOf(objs, destruct, a)]]

\* Nothing but account a changed.
Elsewhere(objs, destruct, objs2, destruct2, a) ==
    \A b \in Addr \ {a} : objs2[b] = objs[b] /\ (b \in destruct2 <=> b \in destruct)

\* Accounts whose objects and marks stay look the same.
LEMMA ViewsElsewhere ==
    ASSUME NEW objs, NEW destruct, NEW objs2, NEW destruct2, NEW a \in Addr,
           Elsewhere(objs, destruct, objs2, destruct2, a)
    PROVE  \A b \in Addr \ {a} : ViewOf(objs2, destruct2, b) = ViewOf(objs, destruct, b)
<1> SUFFICES ASSUME NEW b \in Addr \ {a}
             PROVE  ViewOf(objs2, destruct2, b) = ViewOf(objs, destruct, b)
  OBVIOUS
<1> DEFINE d == b \in destruct
           f == b \in destruct2
<1>1. objs2[b] = objs[b] /\ (f <=> d)
  BY DEF Elsewhere
<1>2. f = d
  BY <1>1
<1> HIDE DEF d, f
<1> QED BY <1>1, <1>2 DEF ViewOf, d, f

\* The whole view when the view of a is unchanged, and when e tells how it was.
LEMMA ViewsChange ==
    ASSUME NEW objs, NEW destruct, NEW objs2, NEW destruct2, NEW a \in Addr,
           Elsewhere(objs, destruct, objs2, destruct2, a)
    PROVE  /\ ViewOf(objs2, destruct2, a) = ViewOf(objs, destruct, a) =>
                 WholeView(objs2, destruct2) = WholeView(objs, destruct)
           /\ \A e : /\ e.kind \in AccountKinds /\ e.account = a
                     /\ ViewOf(objs, destruct, a) = UndoneAccount(e, ViewOf(objs2, destruct2, a))
                     => Undone(e, WholeView(objs2, destruct2)) = WholeView(objs, destruct)
<1> DEFINE V(b) == ViewOf(objs, destruct, b)
           U(b) == ViewOf(objs2, destruct2, b)
           w == WholeView(objs2, destruct2)
<1>1. \A b \in Addr \ {a} : U(b) = V(b)
  BY ViewsElsewhere
<1>2. /\ WholeView(objs, destruct) = [tx |-> TxView, accounts |-> [b \in Addr |-> V(b)]]
      /\ w = [tx |-> TxView, accounts |-> [b \in Addr |-> U(b)]]
  BY DEF WholeView
<1>3. w.tx = TxView /\ w.accounts = [b \in Addr |-> U(b)]
  BY <1>2
<1> HIDE DEF V, U, w
<1>4. ASSUME U(a) = V(a) PROVE w = WholeView(objs, destruct)
  BY <1>1, <1>2, <1>4
<1>5. ASSUME NEW e, e.kind \in AccountKinds, e.account = a, V(a) = UndoneAccount(e, U(a))
      PROVE  Undone(e, w) = WholeView(objs, destruct)
  <2>1. Undone(e, w) = [tx |-> TxView, accounts |-> UndoneAccounts(e, w.accounts)]
    BY <1>3, <1>5, UndoneParts
  <2>2. \A b \in Addr : (IF Concerns(e, b) THEN UndoneAccount(e, U(b)) ELSE U(b)) = V(b)
    BY <1>1, <1>5 DEF Concerns
  <2>3. UndoneAccounts(e, w.accounts)
           = [b \in Addr |-> IF Concerns(e, b) THEN UndoneAccount(e, U(b)) ELSE U(b)]
    BY <1>3 DEF UndoneAccounts
  <2>4. UndoneAccounts(e, w.accounts) = [b \in Addr |-> V(b)]
    BY <2>2, <2>3
  <2> QED BY <1>2, <2>1, <2>4
<1> QED BY <1>4, <1>5 DEF V, U, w

\* Each primitive step leaves the view as it is or journals how it was.
PrimitiveView(so, sd, sj, ro, rd, rj) ==
    \/ rj.entries = sj.entries /\ WholeView(ro, rd) = WholeView(so, sd)
    \/ \E e \in Entry : /\ rj.entries = Append(sj.entries, e)
                        /\ Undone(e, WholeView(ro, rd)) = WholeView(so, sd)

\* A primitive step changes the views as its entry says.
LEMMA PrimitiveViews ==
    ASSUME NEW s \in Threaded, NEW a \in Addr, NEW r, Primitive(s, r, a), trie \in AccountTrie,
           "setStorage" \notin Env, r.err = FALSE
    PROVE  PrimitiveView(s.objs, s.destruct, s.journal, r.objs, r.destruct, r.journal)
<1> DEFINE so == s.objs
           sd == s.destruct
           ro == r.objs
           rd == r.destruct
           es == s.journal.entries
           G  == PrimitiveView(so, sd, s.journal, ro, rd, r.journal)
<1> SUFFICES G
  OBVIOUS
<1>0. /\ r \in Threaded /\ s.journal \in JournalType /\ so \in ObjectMap /\ es \in Seq(Entry)
      /\ sd \in SUBSET Addr /\ rd \in SUBSET Addr
  BY PrimitiveType DEF Threaded, JournalType
<1>k. ASSUME Elsewhere(so, sd, ro, rd, a), ViewOf(ro, rd, a) = ViewOf(so, sd, a),
             r.journal.entries = es
      PROVE  G
  <2> HIDE DEF so, sd, ro, rd
  <2>1. WholeView(ro, rd) = WholeView(so, sd)
    BY <1>k, ViewsChange
  <2> QED BY <1>k, <2>1 DEF PrimitiveView
<1>n. ASSUME NEW e \in Entry, Elsewhere(so, sd, ro, rd, a), e.kind \in AccountKinds, e.account = a,
             ViewOf(so, sd, a) = UndoneAccount(e, ViewOf(ro, rd, a)),
             r.journal.entries = Append(es, e)
      PROVE  G
  <2> HIDE DEF so, sd, ro, rd
  <2>1. Undone(e, WholeView(ro, rd)) = WholeView(so, sd)
    BY <1>n, ViewsChange
  <2> QED BY <1>n, <2>1 DEF PrimitiveView
<1>u. ASSUME NEW o \in Object, ro = [so EXCEPT ![a] = o]
      PROVE  ro[a] = o /\ ro[a] # Nil /\ \A b \in Addr \ {a} : ro[b] = so[b]
  <2> HIDE DEF so, ro
  <2> QED BY <1>0, <1>u, UpdatedMap, ConstantsAssumption
<1>1. CASE r = s \/ Fails(s, r) \/ Marks(s, r, a)
  <2>1. ro = so /\ rd = sd /\ r.journal = s.journal
    BY <1>1 DEF Fails, Marks, Fields
  <2> HIDE DEF so, sd, ro, rd
  <2>2. Elsewhere(so, sd, ro, rd, a) /\ ViewOf(ro, rd, a) = ViewOf(so, sd, a)
    BY <2>1 DEF Elsewhere
  <2> QED BY <1>k, <2>1, <2>2
<1>2. CASE Loads(s, r, a)
  <2> DEFINE o == newObject(trie[a])
  <2>1. o \in Object
    BY <1>2, NewObjectType DEF Loads, AccountTrie
  <2>2. /\ ro = [so EXCEPT ![a] = o] /\ rd = sd /\ r.journal = s.journal
        /\ so[a] = Nil /\ trie[a] # Nil
    BY <1>2 DEF Loads, Fields
  <2> HIDE DEF so, sd, ro, rd, o
  <2>3. ro[a] = o /\ ro[a] # Nil /\ \A b \in Addr \ {a} : ro[b] = so[b]
    BY <1>u, <2>1, <2>2
  <2>4. Elsewhere(so, sd, ro, rd, a)
    BY <2>2, <2>3 DEF Elsewhere
  <2>5. ViewOf(ro, rd, a) = ViewOf(so, sd, a)
    BY <2>2, <2>3 DEF ViewOf, o
  <2> QED BY <1>k, <2>2, <2>4, <2>5
<1>3. CASE Creates(s, r, a)
  <2> DEFINE e == CreateEntry(a)
             o == newObject(NewAccount)
  <2>1. e \in Entry /\ e.kind = "createObject" /\ e.account = a
    BY EntryTypes DEF CreateEntry
  <2>2. /\ ro = [so EXCEPT ![a] = o] /\ rd = sd /\ r.journal = append(s.journal, e)
        /\ so[a] = Nil /\ trie[a] = Nil
    BY <1>3 DEF Creates, Fields
  <2>3. o \in Object
    BY NewAccountType, NewObjectType
  <2>4. r.journal.entries = Append(es, e)
    BY <1>0, <2>1, <2>2, AppendType
  <2> HIDE DEF so, sd, ro, rd, o, e
  <2>5. \A b \in Addr \ {a} : ro[b] = so[b]
    BY <1>u, <2>2, <2>3
  <2>6. Elsewhere(so, sd, ro, rd, a)
    BY <2>2, <2>5 DEF Elsewhere
  <2>7. ViewOf(so, sd, a) = UndoneAccount(e, ViewOf(ro, rd, a))
    BY <2>1, <2>2 DEF ViewOf, UndoneAccount
  <2>8. e.kind \in AccountKinds
    BY <2>1 DEF AccountKinds
  <2> QED BY <1>n, <2>1, <2>4, <2>6, <2>7, <2>8
<1>4. CASE Resets(s, r, a)
  <2> DEFINE e == ResetEntry(s, a)
             d == a \in sd
  <2>1. so[a] \in Object /\ so[a] # Nil /\ d \in BOOLEAN
    BY <1>4 DEF Resets, Threaded, ObjectMap
  <2>2. e = [kind |-> "resetObject", account |-> a, prev |-> so[a], prevdestruct |-> d]
    BY DEF ResetEntry
  <2>3. PICK b \in Int :
           /\ ro = [so EXCEPT ![a] = Fresh(b)] /\ r.journal = append(s.journal, e)
           /\ rd = sd \cup {a}
    BY <1>4 DEF Resets, Fields
  <2> HIDE DEF e, d, so, sd, ro, rd
  <2>4. /\ e \in Entry /\ e.kind = "resetObject" /\ e.account = a
        /\ e.prev = so[a] /\ e.prevdestruct = d
    BY <2>1, <2>2, EntryTypes
  <2>5. r.journal.entries = Append(es, e)
    BY <1>0, <2>3, <2>4, AppendType
  <2>6. \A c \in Addr \ {a} : ro[c] = so[c]
    BY <1>u, <2>3, FreshType
  <2>7. Elsewhere(so, sd, ro, rd, a)
    BY <2>3, <2>6 DEF Elsewhere
  <2>8. ViewOf(so, sd, a) = ObjectView(so[a], d)
    BY <2>1 DEF ViewOf, d
  <2>9. ViewOf(so, sd, a) = UndoneAccount(e, ViewOf(ro, rd, a))
    BY <2>4, <2>8 DEF UndoneAccount
  <2>10. e.kind \in AccountKinds
    BY <2>4 DEF AccountKinds
  <2> QED BY <1>n, <2>4, <2>5, <2>7, <2>9, <2>10
<1>5. CASE Caches(s, r, a)
  <2> DEFINE d == a \in sd
  <2>1. PICK k \in Key : /\ ro = [so EXCEPT ![a] = Cached(so[a], d, k)]
                         /\ r.journal = s.journal /\ rd = sd
    BY <1>5 DEF Caches, Fields
  <2>2. so[a] \in Object /\ so[a] # Nil /\ ~so[a].deleted /\ d \in BOOLEAN
    BY <1>0, <1>5, LiveObject DEF Caches, Live
  <2> HIDE DEF d, so, sd, ro, rd
  <2>3. Cached(so[a], d, k) \in Object
    BY <2>2, CachedType
  <2>4. /\ ro[a] = Cached(so[a], d, k) /\ ro[a] # Nil
        /\ \A b \in Addr \ {a} : ro[b] = so[b]
    BY <1>u, <2>1, <2>3
  <2>5. Elsewhere(so, sd, ro, rd, a)
    BY <2>1, <2>4 DEF Elsewhere
  <2>6. ViewOf(so, sd, a) = ObjectView(so[a], d) /\ ViewOf(ro, rd, a) = ObjectView(ro[a], d)
    BY <2>1, <2>2, <2>4 DEF ViewOf, d
  <2>7. ViewOf(ro, rd, a) = ViewOf(so, sd, a)
    BY <2>2, <2>4, <2>6, CachedView
  <2> QED BY <1>k, <2>1, <2>5, <2>7
<1>6. CASE Touches(s, r, a)
  <2> DEFINE e == [kind |-> "touch", account |-> a]
  <2>1. e \in Entry /\ e.kind = "touch" /\ e.account = a
    BY EntryTypes
  <2>2. append(s.journal, e) \in JournalType /\ append(s.journal, e).entries = Append(es, e)
    BY <1>0, <2>1, AppendType
  <2>3. r.journal.entries = Append(es, e) /\ ro = so /\ rd = sd
    BY <1>6, <2>2, DirtyType DEF Touches, Fields, TouchJournal
  <2> HIDE DEF e, so, sd, ro, rd
  <2>4. Elsewhere(so, sd, ro, rd, a)
    BY <2>3 DEF Elsewhere
  <2>5. ViewOf(so, sd, a) = UndoneAccount(e, ViewOf(ro, rd, a))
    BY <2>1, <2>3 DEF UndoneAccount
  <2>6. e.kind \in AccountKinds
    BY <2>1 DEF AccountKinds
  <2> QED BY <1>n, <2>1, <2>3, <2>4, <2>5, <2>6
<1>7. CASE Changes(s, r, a)
  <2> DEFINE d == a \in sd
  <2>1. PICK e \in Entry, o \in Object :
           /\ Records(s, a, e, o)
           /\ ro = [so EXCEPT ![a] = o] /\ r.journal = append(s.journal, e)
           /\ rd = sd /\ r.err = s.err
    BY <1>7 DEF Changes, Fields
  <2> DEFINE p == so[a]
  <2>2. r.journal.entries = Append(es, e)
    BY <1>0, <2>1, AppendType
  <2>3. p \in Object /\ p # Nil /\ ~p.deleted /\ d \in BOOLEAN
    BY <1>0, <1>7, LiveObject DEF Changes, Live
  <2>4. /\ e.account = a /\ e.kind \in AccountKinds
        /\ \/ e.kind = "balance" /\ e.prev = p.balance /\ o = [p EXCEPT !.balance = o.balance]
           \/ e.kind = "nonce" /\ e.prev = p.nonce /\ o = [p EXCEPT !.nonce = o.nonce]
           \/ e.kind = "code" /\ e.prev = p.code /\ o = [p EXCEPT !.code = o.code]
           \/ /\ e.kind = "storage"
              /\ o = [p EXCEPT !.dirtyStorage[e.key] = o.dirtyStorage[e.key]]
              /\ e.prevalue = StateValue(p, d, e.key)
           \/ /\ e.kind = "suicide" /\ e.prev = p.suicided /\ e.prevbalance = p.balance
              /\ o = [p EXCEPT !.suicided = TRUE, !.balance = 0]
    BY <2>1 DEF Records, AccountKinds, DerefKinds
  <2> HIDE DEF d, so, sd, ro, rd, p
  <2>5. ro[a] = o /\ ro[a] # Nil /\ \A b \in Addr \ {a} : ro[b] = so[b]
    BY <1>u, <2>1
  <2>6. Elsewhere(so, sd, ro, rd, a)
    BY <2>1, <2>5 DEF Elsewhere
  <2>7. ViewOf(so, sd, a) = ObjectView(p, d) /\ ViewOf(ro, rd, a) = ObjectView(o, d)
    BY <2>1, <2>3, <2>5 DEF ViewOf, d, p
  <2>8. ObjectView(p, d) = UndoneAccount(e, ObjectView(o, d))
    <3>1. CASE e.kind = "balance" /\ e.prev = p.balance /\ o = [p EXCEPT !.balance = o.balance]
      <4>1. SetsBack(e, o, p) /\ o.deleted = p.deleted
        BY <2>3, <3>1 DEF Object, SetsBack
      <4> QED BY <2>3, <4>1, FieldView
    <3>2. CASE e.kind = "nonce" /\ e.prev = p.nonce /\ o = [p EXCEPT !.nonce = o.nonce]
      <4>1. SetsBack(e, o, p) /\ o.deleted = p.deleted
        BY <2>3, <3>2 DEF Object, SetsBack
      <4> QED BY <2>3, <4>1, FieldView
    <3>3. CASE e.kind = "code" /\ e.prev = p.code /\ o = [p EXCEPT !.code = o.code]
      <4>1. SetsBack(e, o, p) /\ o.deleted = p.deleted
        BY <2>3, <3>3 DEF Object, SetsBack
      <4> QED BY <2>3, <4>1, FieldView
    <3>4. CASE /\ e.kind = "suicide" /\ e.prev = p.suicided /\ e.prevbalance = p.balance
               /\ o = [p EXCEPT !.suicided = TRUE, !.balance = 0]
      <4>1. p = [o EXCEPT !.suicided = e.prev, !.balance = e.prevbalance] /\ o.deleted = p.deleted
        BY <2>3, <3>4 DEF Object
      <4>2. SetsBack(e, o, p)
        BY <3>4, <4>1 DEF SetsBack
      <4> QED BY <2>3, <4>1, <4>2, FieldView
    <3>5. CASE /\ e.kind = "storage"
               /\ o = [p EXCEPT !.dirtyStorage[e.key] = o.dirtyStorage[e.key]]
               /\ e.prevalue = StateValue(p, d, e.key)
      <4> DEFINE m == p.dirtyStorage
      <4>0. e.key \in Key
        BY <3>5, EntryFields
      <4>1. p = [o EXCEPT !.dirtyStorage = m] /\ o.deleted = p.deleted
        BY <2>3, <3>5 DEF Object
      <4>2. \A l \in Key \ {e.key} : m[l] = o.dirtyStorage[l]
        <5>1. m \in [Key -> Word \cup {Nil}]
          BY <2>3 DEF Object, Cache
        <5>2. o.dirtyStorage = [m EXCEPT ![e.key] = o.dirtyStorage[e.key]]
          BY <2>3, <3>5 DEF Object
        <5> QED BY <4>0, <5>1, <5>2
      <4> HIDE DEF m
      <4> QED BY <2>3, <3>5, <4>1, <4>2, StorageView
    <3> QED BY <2>4, <3>1, <3>2, <3>3, <3>4, <3>5
  <2> QED BY <1>n, <2>2, <2>4, <2>6, <2>7, <2>8
<1> QED BY <1>1, <1>2, <1>3, <1>4, <1>5, <1>6, <1>7 DEF Primitive

\* The view between calls.
LEMMA ViewIsWhole == View = WholeView(stateObjects, stateObjectsDestruct)
BY DEF View, WholeView, ViewOf, AccountView

\* Y goes on where X was, from l entries on.
Continues(X, l, Y) == \A n \in 0..l : Y[n] = X[n]

\* A primitive step continues the chain of views.
LEMMA PrimitiveTraced ==
    ASSUME NEW s \in Threaded, NEW a \in Addr, NEW r, Primitive(s, r, a), trie \in AccountTrie,
           "setStorage" \notin Env, r.err = FALSE, NEW X,
           Traced(WholeView(s.objs, s.destruct), s.journal.entries, X)
    PROVE  /\ s.journal.entries \in Seq(Entry) /\ r.journal.entries \in Seq(Entry)
           /\ Len(s.journal.entries) <= Len(r.journal.entries)
           /\ \E Y : /\ Traced(WholeView(r.objs, r.destruct), r.journal.entries, Y)
                     /\ Continues(X, Len(s.journal.entries), Y)
<1> DEFINE es == s.journal.entries
           fs == r.journal.entries
           v  == WholeView(s.objs, s.destruct)
           u  == WholeView(r.objs, r.destruct)
<1>1. es \in Seq(Entry) /\ fs \in Seq(Entry) /\ Len(es) \in Nat
  BY PrimitiveType DEF Threaded, JournalType
<1>2. PrimitiveView(s.objs, s.destruct, s.journal, r.objs, r.destruct, r.journal)
  BY PrimitiveViews
<1>3. \/ fs = es /\ u = v
      \/ \E e \in Entry : fs = Append(es, e) /\ Undone(e, u) = v
  BY <1>2 DEF PrimitiveView
<1> HIDE DEF es, fs, u, v
<1>4. CASE fs = es /\ u = v
  BY <1>1, <1>4 DEF Continues, es, fs, u, v
<1>5. CASE \E e \in Entry : fs = Append(es, e) /\ Undone(e, u) = v
  <2>1. PICK e \in Entry : fs = Append(es, e) /\ Undone(e, u) = v
    BY <1>5
  <2>2. \E Y : Traced(u, Append(es, e), Y) /\ \A n \in 0..Len(es) : Y[n] = X[n]
    BY <1>1, <2>1, TracedAppend DEF es, v
  <2>3. Len(es) <= Len(fs)
    BY <1>1, <2>1
  <2> QED BY <1>1, <2>1, <2>2, <2>3 DEF Continues, es, fs, u, v
<1> QED BY <1>3, <1>4, <1>5

\* An error stays on record.
LEMMA ErrStays ==
    ASSUME NEW s, NEW r, NEW a, Primitive(s, r, a), r.err = FALSE
    PROVE  s.err = FALSE
BY DEF Primitive, Fails, Marks, Loads, Creates, Resets, Caches, Touches, Changes, Fields

\* So does a call, which consists of primitive steps.
LEMMA CallTraced ==
    ASSUME IInv, NEW a \in Addr, CallRuns(a), UNCHANGED txVars, "setStorage" \notin Env,
           dbErr' = FALSE, NEW X, Traced(View, journal.entries, X)
    PROVE  /\ dbErr = FALSE
           /\ \E Y : Traced(View', journal'.entries, Y) /\ Continues(X, Len(journal.entries), Y)
<1> DEFINE E(s) == s.journal.entries
           V(s) == WholeView(s.objs, s.destruct)
           T(s, Y) == Traced(V(s), E(s), Y) /\ Continues(X, Len(journal.entries), Y)
           C(s) == Len(journal.entries) <= Len(E(s)) /\ \E Y : T(s, Y)
<1>0. /\ State \in Threaded /\ State.journal = journal /\ State.objs = stateObjects
      /\ State.destruct = stateObjectsDestruct /\ State.err = dbErr
      /\ trie \in AccountTrie /\ Len(journal.entries) \in Nat
  BY StateType DEF IInv, State, Threaded, TypeOK, AccountsTypeOK, JournalTypeOK
<1>1. PICK r : Runs(r, a) /\ Put(r)
  BY DEF CallRuns
<1>2. PICK s1, s2, s3, s4, s5 :
         /\ Primitive(State, s1, a) /\ Primitive(s1, s2, a) /\ Primitive(s2, s3, a)
         /\ Primitive(s3, s4, a) /\ Primitive(s4, s5, a) /\ Primitive(s5, r, a)
  BY <1>1 DEF Runs, Finds, Works
<1>3. /\ s1 \in Threaded /\ s2 \in Threaded /\ s3 \in Threaded /\ s4 \in Threaded /\ s5 \in Threaded
  BY <1>0, <1>2, PrimitiveType
<1>4. r.err = FALSE
  BY <1>1, CallEnd
<1>5. /\ s5.err = FALSE /\ s4.err = FALSE /\ s3.err = FALSE /\ s2.err = FALSE /\ s1.err = FALSE
      /\ State.err = FALSE
  BY <1>2, <1>4, ErrStays
<1>6. C(State)
  <2>1. V(State) = View /\ E(State) = journal.entries
    BY <1>0, ViewIsWhole
  <2>2. T(State, X)
    BY <2>1 DEF Continues
  <2> QED BY <1>0, <2>1, <2>2
<1>7. ASSUME NEW s \in Threaded, NEW t, Primitive(s, t, a), t.err = FALSE, C(s) PROVE C(t)
  <2>1. PICK Y : T(s, Y)
    BY <1>7
  <2>2. /\ E(s) \in Seq(Entry) /\ E(t) \in Seq(Entry) /\ Len(E(s)) <= Len(E(t))
        /\ \E Z : Traced(V(t), E(t), Z) /\ Continues(Y, Len(E(s)), Z)
    BY <1>0, <1>7, <2>1, PrimitiveTraced
  <2>3. PICK Z : Traced(V(t), E(t), Z) /\ Continues(Y, Len(E(s)), Z)
    BY <2>2
  <2>4. Len(E(s)) \in Nat /\ Len(E(t)) \in Nat /\ Len(journal.entries) <= Len(E(s))
    BY <1>7, <2>2
  <2>5. Continues(X, Len(journal.entries), Y)
    BY <2>1
  <2> HIDE DEF E, V
  <2>6. Continues(X, Len(journal.entries), Z)
    BY <1>0, <2>3, <2>4, <2>5 DEF Continues
  <2>7. Len(journal.entries) <= Len(E(t))
    BY <1>0, <2>2, <2>4
  <2> QED BY <2>3, <2>6, <2>7
<1> HIDE DEF C
<1>8. C(s1)
  BY <1>0, <1>2, <1>5, <1>6, <1>7
<1>9. C(s2)
  BY <1>2, <1>3, <1>5, <1>7, <1>8
<1>10. C(s3)
  BY <1>2, <1>3, <1>5, <1>7, <1>9
<1>11. C(s4)
  BY <1>2, <1>3, <1>5, <1>7, <1>10
<1>12. C(s5)
  BY <1>2, <1>3, <1>5, <1>7, <1>11
<1>13. C(r)
  BY <1>2, <1>3, <1>4, <1>7, <1>12
<1>14. /\ stateObjects' = r.objs /\ stateObjectsDestruct' = r.destruct /\ journal' = r.journal
       /\ trie' = trie
  BY <1>1, CallEnd
<1>15. View' = V(r)
  <2>1. TxView' = TxView
    BY DEF txVars, TxView
  <2> QED BY <1>14, <2>1 DEF View, WholeView, ViewOf, AccountView
<1> QED BY <1>0, <1>5, <1>13, <1>14, <1>15 DEF C

-----------------------------------------------------------------------------
(* The views of the transaction state.                                     *)

AccountsView == [a \in Addr |-> AccountView(a)]

\* The setters of the transaction state continue the chain of views.  Prepare,
\* which journals nothing, is called before the first snapshot.
LEMMA TxSetterTraced ==
    ASSUME IInv, TxSetter, UNCHANGED accountVars, AccessListOrdered(accessList, journal.entries),
           NEW X, Traced(View, journal.entries, X)
    PROVE  \E Y : /\ Traced(View', journal'.entries, Y)
                  /\ validRevisions = <<>> \/ Continues(X, Len(journal.entries), Y)
<1> DEFINE es == journal.entries
           fs == journal'.entries
           acc == AccountsView
           V(x) == [tx |-> x, accounts |-> acc]
           G == \E Y : /\ Traced(View', fs, Y)
                       /\ validRevisions = <<>> \/ Continues(X, Len(es), Y)
<1> SUFFICES G
  OBVIOUS
<1>0. /\ journal \in JournalType /\ es \in Seq(Entry) /\ Len(es) \in Nat
      /\ accessList \in AccessListType /\ AL!WellFormedAccessList(accessList)
      /\ TxTypeOK
  BY DEF IInv, TypeOK, JournalTypeOK, JournalType, AccessListOrdered
<1>1. AccountsView' = acc /\ acc = [a \in Addr |-> acc[a]]
  BY DEF accountVars, AccountsView, AccountView
<1>2. View = V(TxView) /\ View' = V(TxView')
  BY <1>1 DEF View, AccountsView
<1> HIDE DEF acc
<1>3. ASSUME NEW e \in TxEntry, NEW x PROVE Undone(e, V(x)) = V(UndoneTx(e, x))
  <2>1. e.kind \notin AccountKinds
    BY DEF TxEntry, TxKinds, AccountKinds, DerefKinds
  <2>2. V(x).tx = x /\ V(x).accounts = acc
    OBVIOUS
  <2> HIDE DEF V
  <2>3. UndoneAccounts(e, V(x).accounts) = acc
    BY <1>1, <2>1, <2>2 DEF UndoneAccounts, Concerns
  <2> QED BY <2>2, <2>3 DEF Undone, V
<1>4. TxSetterView
  BY <1>0, TxSetterViews
<1> HIDE DEF V
<1>5. CASE journal' = journal /\ TxView' = TxView
  BY <1>2, <1>5 DEF Continues
<1>6. CASE \E e \in TxEntry : journal' = append(journal, e) /\ UndoneTx(e, TxView') = TxView
  <2>1. PICK e \in TxEntry : journal' = append(journal, e) /\ UndoneTx(e, TxView') = TxView
    BY <1>6
  <2>2. e \in Entry /\ Undone(e, View') = View
    BY <1>2, <1>3, <2>1 DEF TxEntry
  <2>3. fs = Append(es, e)
    BY <1>0, <2>1, <2>2, AppendType
  <2>4. \E Y : Traced(View', Append(es, e), Y) /\ \A n \in 0..Len(es) : Y[n] = X[n]
    BY <1>0, <2>2, TracedAppend
  <2> QED BY <2>3, <2>4 DEF Continues
<1>7. CASE \E f, e \in TxEntry : \E m :
              /\ journal' = append(append(journal, f), e)
              /\ UndoneTx(f, m) = TxView
              /\ UndoneTx(e, TxView') = m
  <2>1. PICK f \in TxEntry, e \in TxEntry : \E m :
              /\ journal' = append(append(journal, f), e)
              /\ UndoneTx(f, m) = TxView
              /\ UndoneTx(e, TxView') = m
    BY <1>7
  <2>2. PICK m : /\ journal' = append(append(journal, f), e)
                 /\ UndoneTx(f, m) = TxView
                 /\ UndoneTx(e, TxView') = m
    BY <2>1
  <2>3. e \in Entry /\ f \in Entry /\ Undone(f, V(m)) = View /\ Undone(e, View') = V(m)
    BY <1>2, <1>3, <2>2 DEF TxEntry
  <2> DEFINE gs == Append(es, f)
  <2>4. fs = Append(gs, e) /\ gs \in Seq(Entry) /\ Len(gs) = Len(es) + 1
    <3>1. append(journal, f) \in JournalType /\ append(journal, f).entries = gs
      BY <1>0, <2>3, AppendType
    <3>2. fs = Append(gs, e)
      BY <2>2, <2>3, <3>1, AppendType
    <3> QED BY <1>0, <2>3, <3>2
  <2>5. PICK Y : Traced(V(m), gs, Y) /\ \A n \in 0..Len(es) : Y[n] = X[n]
    BY <1>0, <2>3, TracedAppend
  <2> HIDE DEF gs
  <2>6. PICK Z : /\ Traced(View', Append(gs, e), Z)
                 /\ \A n \in 0..Len(gs) : Z[n] = Y[n]
    BY <2>3, <2>4, <2>5, TracedAppend
  <2>7. \A n \in 0..Len(es) : Z[n] = X[n]
    BY <1>0, <2>4, <2>5, <2>6
  <2> QED BY <2>4, <2>6, <2>7 DEF Continues
<1>8. CASE /\ journal' = journal
           /\ validRevisions = <<>>
           /\ \A i \in 1..Len(es) : es[i].kind \notin AccessListKinds \cup {"transientStorage"}
           /\ TxView' = Replaced(TxView, AccessView', transientStorage')
  <2> DEFINE R(v) == [tx |-> Replaced(v.tx, AccessView', transientStorage'),
                      accounts |-> v.accounts]
             Y == [n \in 0..Len(es) |-> R(X[n])]
  <2>1. View' = R(View)
    BY <1>2, <1>8 DEF V
  <2>2. ASSUME NEW n \in 1..Len(es), NEW v PROVE R(Undone(es[n], v)) = Undone(es[n], R(v))
    <3>1. UndoneTx(es[n], Replaced(v.tx, AccessView', transientStorage'))
            = Replaced(UndoneTx(es[n], v.tx), AccessView', transientStorage')
      BY <1>8, UndoneReplaced
    <3> QED BY <3>1 DEF Undone
  <2> HIDE DEF R
  <2>3. Y[Len(es)] = View'
    BY <1>0, <2>1 DEF Traced
  <2>4. ASSUME NEW n \in 1..Len(es) PROVE Y[n - 1] = Undone(es[n], Y[n])
    <3>1. n - 1 \in 0..Len(es) /\ n \in 0..Len(es)
      BY <1>0
    <3>2. X[n - 1] = Undone(es[n], X[n])
      BY DEF Traced
    <3> QED BY <2>2, <3>1, <3>2
  <2> HIDE DEF Y
  <2>5. Traced(View', fs, Y)
    BY <1>8, <2>3, <2>4 DEF Traced
  <2> QED BY <1>8, <2>5
<1> QED BY <1>4, <1>5, <1>6, <1>7, <1>8 DEF TxSetterView

-----------------------------------------------------------------------------
(* Reverting an entry goes back to the view before it.                     *)

\* The reverts of the transaction state go back to the view before the entry.
LEMMA TxUndoView ==
    ASSUME IInv, TxUndo, UNCHANGED accountVars, AccessListOrdered(accessList, journal.entries)
    PROVE  View' = Undone(LastEntry, View)
<1> DEFINE e == LastEntry
<1>1. journal \in JournalOf(Entry) /\ journal.entries # <<>> /\ e \in Entry
  BY UndoPops DEF IInv, TypeOK, JournalTypeOK, JournalType, JournalOf, UndoesEntry
<1>2. TxView' = UndoneTx(e, TxView)
  BY <1>1, TxUndoViews
<1>3. e.kind \notin AccountKinds
  BY DEF TxUndo, UndoRefund, UndoAddLog, UndoAddPreimage, UndoAccessListAddAccount,
     UndoAccessListAddSlot, UndoTransientStorage, Pops, AccountKinds, DerefKinds
<1>4. AccountsView' = AccountsView
  BY DEF accountVars, AccountsView, AccountView
<1>5. View.tx = TxView /\ View.accounts = AccountsView /\ View' = [tx |-> TxView', accounts |-> AccountsView']
  BY DEF View, AccountsView
<1>6. UndoneAccounts(e, AccountsView) = AccountsView
  BY <1>3 DEF UndoneAccounts, Concerns, AccountsView
<1> QED BY <1>2, <1>4, <1>5, <1>6 DEF Undone

\* The objects are linked to the entries, so the reverts of creations, resets
\* and suicides find what they expect.
LEMMA AccountUndoView ==
    ASSUME IInv, AccountUndo, UNCHANGED txVars, ObjectsLinked, dbErr = FALSE
    PROVE  View' = Undone(LastEntry, View)
<1> DEFINE es == journal.entries
           e  == LastEntry
           a  == e.account
           so == stateObjects
           sd == stateObjectsDestruct
           ro == stateObjects'
           rd == stateObjectsDestruct'
           G  == View' = Undone(e, View)
<1> SUFFICES G
  OBVIOUS
<1>0. so \in ObjectMap /\ sd \in SUBSET Addr /\ es \in Seq(Entry)
  BY DEF IInv, TypeOK, JournalTypeOK, AccountsTypeOK, ObjectMap
<1>1. es # <<>> /\ e \in Entry /\ e = es[Len(es)] /\ Len(es) \in 1..Len(es)
  BY <1>0, UndoPops DEF UndoesEntry
<1>2. trie' = trie /\ TxView' = TxView
  <2>1. trie' = trie
    BY DEF AccountUndo, UndoCreateObject, UndoResetObject, UndoSuicide, UndoTouch,
       UndoBalance, UndoNonce, UndoCode, UndoStorage, UndoField, Undo
  <2> QED BY <2>1 DEF txVars, TxView
<1>3. View' = WholeView(ro, rd)
  BY <1>2 DEF View, WholeView, ViewOf, AccountView
<1>4. View = WholeView(so, sd)
  BY ViewIsWhole
<1> HIDE DEF es, e, so, sd, ro, rd
<1>u. ASSUME a \in Addr, e.kind \in AccountKinds, Elsewhere(ro, rd, so, sd, a),
             ViewOf(ro, rd, a) = UndoneAccount(e, ViewOf(so, sd, a))
      PROVE  G
  <2>1. Undone(e, WholeView(so, sd)) = WholeView(ro, rd)
    BY <1>u, ViewsChange
  <2> QED BY <1>3, <1>4, <2>1
<1>o. ASSUME a \in Addr, NEW o \in Object \cup {Nil}, ro = [so EXCEPT ![a] = o],
             \A b \in Addr \ {a} : b \in rd <=> b \in sd
      PROVE  ro[a] = o /\ Elsewhere(ro, rd, so, sd, a)
  BY <1>0, <1>o, UpdatedMap DEF Elsewhere
<1>5. CASE UndoCreateObject
  <2>1. e.kind = "createObject" /\ ro = [so EXCEPT ![a] = Nil] /\ rd = sd
    BY <1>5 DEF UndoCreateObject, Undo, e, so, sd, ro, rd
  <2>2. a \in Addr /\ e.kind \in AccountKinds
    BY <1>1, <2>1, EntryFields DEF AccountKinds
  <2>3. trie[a] = Nil
    <3>1. CreatesAbsent(es, dbErr)
      BY DEF ObjectsLinked, Linked, es
    <3> QED BY <1>1, <2>1, <3>1 DEF CreatesAbsent
  <2>4. ro[a] = Nil /\ Elsewhere(ro, rd, so, sd, a)
    BY <1>o, <2>1, <2>2
  <2>5. ViewOf(ro, rd, a) = UndoneAccount(e, ViewOf(so, sd, a))
    BY <2>1, <2>3, <2>4 DEF ViewOf, UndoneAccount
  <2> QED BY <1>u, <2>2, <2>4, <2>5
<1>6. CASE UndoResetObject
  <2> DEFINE p == e.prevdestruct
             d == a \in rd
  <2>1. /\ e.kind = "resetObject" /\ ro = [so EXCEPT ![a] = e.prev]
        /\ rd = IF p THEN sd ELSE sd \ {a}
    BY <1>6 DEF UndoResetObject, Undo, e, so, sd, ro, rd
  <2>2. /\ a \in Addr /\ e.kind \in AccountKinds /\ e.prev \in Object /\ p \in BOOLEAN
        /\ e.prev # Nil
    BY <1>1, <2>1, EntryFields, ConstantsAssumption DEF AccountKinds
  <2>3. a \in sd
    <3>1. ResetsMarked(es, sd)
      BY DEF ObjectsLinked, Linked, es, sd
    <3> QED BY <1>1, <2>1, <3>1 DEF ResetsMarked
  <2>4. ro[a] = e.prev /\ Elsewhere(ro, rd, so, sd, a)
    <3>1. \A b \in Addr \ {a} : b \in rd <=> b \in sd
      BY <2>1
    <3> QED BY <1>o, <2>1, <2>2, <3>1
  <2>5. d = p
    BY <2>1, <2>2, <2>3
  <2>6. ViewOf(ro, rd, a) = ObjectView(e.prev, d)
    BY <2>2, <2>4 DEF ViewOf
  <2> HIDE DEF d, p
  <2>7. ViewOf(ro, rd, a) = ObjectView(e.prev, p)
    BY <2>5, <2>6
  <2>8. ViewOf(ro, rd, a) = UndoneAccount(e, ViewOf(so, sd, a))
    BY <2>1, <2>7 DEF UndoneAccount, p
  <2> QED BY <1>u, <2>2, <2>4, <2>8
<1>7. CASE UndoSuicide
  <2>1. e.kind = "suicide" /\ rd = sd
    BY <1>7 DEF UndoSuicide, Undo, e, sd, rd
  <2>2. a \in Addr /\ e.kind \in AccountKinds /\ e.prev \in BOOLEAN /\ e.prevbalance \in Int
    BY <1>1, <2>1, EntryFields DEF AccountKinds
  <2>3. so[a] # Nil
    <3>1. ObjectsThere(es, so)
      BY DEF ObjectsLinked, Linked, es, so
    <3> QED BY <1>1, <2>1, <3>1 DEF ObjectsThere, ObjectKinds
  <2> DEFINE d == a \in sd
             p == so[a]
             q == [p EXCEPT !.suicided = e.prev]
             o == [q EXCEPT !.balance = e.prevbalance]
  <2>4. p \in Object /\ d \in BOOLEAN
    BY <1>0, <2>2, <2>3 DEF ObjectMap
  <2>5. ViewOf(so, sd, a) = ObjectView(p, d)
    BY <2>3 DEF ViewOf
  <2>6. CASE Live(so, a)
    <3>1. q \in Object /\ q.deleted = p.deleted
      BY <2>2, <2>4 DEF Object
    <3>2. o \in Object /\ o.deleted = q.deleted
      <4> HIDE DEF q
      <4> QED BY <2>2, <3>1 DEF Object
    <3>3. ro = [so EXCEPT ![a] = o]
      BY <1>0, <1>7, <2>2, <2>6 DEF UndoSuicide, ObjectMap, e, so, ro
    <3>4. o = [p EXCEPT !.suicided = e.prev, !.balance = e.prevbalance]
      OBVIOUS
    <3> HIDE DEF o, p, q, d
    <3>5. SetsBack(e, p, o)
      BY <2>1, <3>4 DEF SetsBack
    <3>6. ~p.deleted /\ o # Nil
      BY <2>6, <3>2, ConstantsAssumption DEF Live, p
    <3>7. ObjectView(o, d) = UndoneAccount(e, ObjectView(p, d))
      BY <1>1, <2>4, <3>2, <3>5, <3>6, FieldView
    <3>8. ro[a] = o /\ Elsewhere(ro, rd, so, sd, a)
      BY <1>o, <2>1, <2>2, <3>2, <3>3
    <3>9. ViewOf(ro, rd, a) = ObjectView(o, d)
      BY <2>1, <3>6, <3>8 DEF ViewOf, d
    <3> QED BY <1>u, <2>2, <2>5, <3>7, <3>8, <3>9
  <2>7. CASE ~Live(so, a)
    <3>1. ro = so
      BY <1>7, <2>7 DEF UndoSuicide, e, so, ro
    <3>2. p.deleted
      BY <2>3, <2>7 DEF Live
    <3>3. ObjectView(p, d) = Nil
      BY <3>2, <2>3 DEF ObjectView
    <3> HIDE DEF d, p
    <3>4. UndoneAccount(e, Nil) = Nil
      BY <2>1 DEF UndoneAccount
    <3>5. Elsewhere(ro, rd, so, sd, a) /\ ViewOf(ro, rd, a) = ViewOf(so, sd, a)
      BY <2>1, <3>1 DEF Elsewhere
    <3> QED BY <1>u, <2>2, <2>5, <3>3, <3>4, <3>5
  <2> QED BY <2>6, <2>7
<1>8. CASE UndoTouch
  <2>1. e.kind = "touch" /\ ro = so /\ rd = sd
    BY <1>8 DEF UndoTouch, Undo, e, so, sd, ro, rd
  <2>2. a \in Addr /\ e.kind \in AccountKinds
    BY <1>1, <2>1, EntryFields DEF AccountKinds
  <2>3. Elsewhere(ro, rd, so, sd, a) /\ ViewOf(ro, rd, a) = UndoneAccount(e, ViewOf(so, sd, a))
    BY <2>1 DEF Elsewhere, UndoneAccount
  <2> QED BY <1>u, <2>2, <2>3
<1>f. ASSUME NEW kind \in DerefKinds, NEW o, UndoField(kind, o)
      PROVE  /\ e.kind = kind /\ a \in Addr /\ e.kind \in AccountKinds
             /\ LastObject = so[a] /\ so[a] \in Object /\ ~so[a].deleted
             /\ (o \in Object /\ ObjectView(o, a \in sd) = UndoneAccount(e, ObjectView(so[a], a \in sd)))
                   => G
  <2>1. /\ e.kind = kind /\ ro = [so EXCEPT ![a] = o] /\ rd = sd /\ Live(so, a)
        /\ LastObject = so[a]
    BY <1>f DEF UndoField, Undo, LastObject, e, so, sd, ro, rd
  <2>2. a \in Addr /\ e.kind \in AccountKinds
    BY <1>1, <2>1, EntryFields DEF AccountKinds, DerefKinds
  <2>3. so[a] \in Object /\ ~so[a].deleted /\ so[a] # Nil
    BY <1>0, <2>1, <2>2, LiveObject DEF Live
  <2> DEFINE d == a \in sd
  <2>4. ASSUME o \in Object, ObjectView(o, d) = UndoneAccount(e, ObjectView(so[a], d)) PROVE G
    <3>1. ro[a] = o /\ Elsewhere(ro, rd, so, sd, a) /\ o # Nil
      BY <1>o, <2>1, <2>2, <2>4, ConstantsAssumption
    <3>2. ViewOf(ro, rd, a) = ObjectView(o, d) /\ ViewOf(so, sd, a) = ObjectView(so[a], d)
      BY <2>1, <2>3, <3>1 DEF ViewOf
    <3> HIDE DEF d
    <3> QED BY <1>u, <2>2, <2>4, <3>1, <3>2
  <2> QED BY <2>1, <2>2, <2>3, <2>4
<1> DEFINE p == so[a]
           d == a \in sd
<1>9. CASE UndoBalance \/ UndoNonce \/ UndoCode
  <2> DEFINE Sets(kind, o) ==
                \/ kind = "balance" /\ o = [LastObject EXCEPT !.balance = e.prev]
                \/ kind = "nonce" /\ o = [LastObject EXCEPT !.nonce = e.prev]
                \/ kind = "code" /\ o = [LastObject EXCEPT !.code = e.prev]
  <2>0. PICK kind \in DerefKinds : \E o : UndoField(kind, o) /\ Sets(kind, o)
    BY <1>9 DEF UndoBalance, UndoNonce, UndoCode, DerefKinds, e
  <2>1. PICK o : UndoField(kind, o) /\ Sets(kind, o)
    BY <2>0
  <2>2. /\ e.kind = kind /\ LastObject = p /\ p \in Object /\ ~p.deleted
        /\ (o \in Object /\ ObjectView(o, d) = UndoneAccount(e, ObjectView(p, d)) => G)
    BY <1>f, <2>1
  <2>3. d \in BOOLEAN
    OBVIOUS
  <2> HIDE DEF p, d, G
  <2>4. SetsBack(e, p, o)
    BY <2>1, <2>2 DEF SetsBack
  <2>5. o \in Object
    BY <1>1, <2>1, <2>2, EntryFields DEF Object
  <2>6. ObjectView(o, d) = UndoneAccount(e, ObjectView(p, d))
    BY <1>1, <2>2, <2>3, <2>4, <2>5, FieldView
  <2> QED BY <2>2, <2>5, <2>6
<1>10. CASE UndoStorage
  <2> DEFINE m == [LastObject.dirtyStorage EXCEPT ![e.key] = e.prevalue]
             o == [LastObject EXCEPT !.dirtyStorage = m]
  <2>1. UndoField("storage", o) /\ "storage" \in DerefKinds
    BY <1>10 DEF UndoStorage, DerefKinds, e
  <2>2. /\ e.kind = "storage" /\ LastObject = p /\ p \in Object /\ ~p.deleted
        /\ (o \in Object /\ ObjectView(o, d) = UndoneAccount(e, ObjectView(p, d)) => G)
    BY <1>f, <2>1
  <2>3. d \in BOOLEAN /\ e.key \in Key /\ e.prevalue \in Word
    BY <1>1, <2>2, EntryFields
  <2>4. /\ m \in Cache /\ m[e.key] = e.prevalue
        /\ \A l \in Key \ {e.key} : m[l] = p.dirtyStorage[l]
    BY <2>2, <2>3 DEF Object, Cache
  <2> HIDE DEF p, d, G, m
  <2>5. o \in Object /\ o = [p EXCEPT !.dirtyStorage = m] /\ o.dirtyStorage = m
    BY <2>2, <2>4 DEF Object
  <2> HIDE DEF o
  <2>6. StateValue(o, d, e.key) = e.prevalue
    BY <2>3, <2>4, <2>5, ConstantsAssumption DEF StateValue
  <2>7. ObjectView(o, d) = UndoneAccount(e, ObjectView(p, d))
    BY <1>1, <2>2, <2>3, <2>4, <2>5, <2>6, StorageView
  <2> QED BY <2>2, <2>5, <2>7
<1> QED BY <1>5, <1>6, <1>7, <1>8, <1>9, <1>10 DEF AccountUndo

-----------------------------------------------------------------------------
(* The chain of views and the saved views over a step.                     *)

\* The saved view of every revision that is still to be reverted to is a view
\* of the chain.
Kept(W) ==
    \A i \in 1..Len(validRevisions) :
        Idle \/ i <= reverting => saved[i] = W[validRevisions[i].journalIndex]

History ==
    /\ Len(saved) = Len(validRevisions)
    /\ dbErr = FALSE => \E W : Traced(View, journal.entries, W) /\ Kept(W)

\* What a step does to the saved views.
SavedNext ==
    /\ Len(saved') = Len(validRevisions')
    /\ \A i \in 1..Len(validRevisions') :
          saved'[i] = IF i <= Len(saved) THEN saved[i] ELSE View

MovesRevisions ==
    \/ Snapshot
    \/ \E id \in 0..(MaxRevisionId - 1) : RevertToSnapshot(id)
    \/ RevertDone
    \/ UNCHANGED journalVars

\* Every step is a call, a setter, a revert, the end of a journal or a move of revisions.
LEMMA HistoryCases ==
    ASSUME IInv, [Next]_vars
    PROVE  \/ \E a \in Addr : CallRuns(a) /\ UNCHANGED txVars
           \/ TxSetter /\ UNCHANGED accountVars
           \/ UndoesEntry
           \/ ClearsJournal
           \/ MovesRevisions /\ UNCHANGED <<txVars, accountVars>>
<1>0. TypeOK
  BY DEF IInv
<1>1. CASE (\E a \in Addr, io \in Reads : AccountCall(a, io)) /\ UNCHANGED txVars
  BY <1>0, <1>1, AccountCallRuns
<1>2. CASE UNCHANGED vars
  BY <1>2 DEF vars, MovesRevisions
<1> QED BY <1>1, <1>2 DEF Next, Call, RevertStep, UndoesEntry, ClearsJournal, MovesRevisions

\* A call forgets no error.
LEMMA CallErr ==
    ASSUME NEW a, CallRuns(a), dbErr' = FALSE
    PROVE  dbErr = FALSE
<1>1. PICK r : Runs(r, a) /\ Put(r)
  BY DEF CallRuns
<1>2. PICK s1, s2, s3, s4, s5 :
         /\ Primitive(State, s1, a) /\ Primitive(s1, s2, a) /\ Primitive(s2, s3, a)
         /\ Primitive(s3, s4, a) /\ Primitive(s4, s5, a) /\ Primitive(s5, r, a)
  BY <1>1 DEF Runs, Finds, Works
<1>3. r.err = FALSE
  BY <1>1, CallEnd
<1>4. State.err = FALSE
  BY <1>2, <1>3, ErrStays
<1> QED BY <1>4 DEF State

\* While the journal grows, its earlier views stay.
LEMMA GrowKept ==
    ASSUME IInv, Idle, UNCHANGED <<validRevisions, reverting>>, SavedNext,
           Len(saved) = Len(validRevisions), NEW X, NEW Y, Kept(X),
           validRevisions = <<>> \/ Continues(X, Len(journal.entries), Y)
    PROVE  Kept(Y)'
<1> SUFFICES ASSUME NEW i \in 1..Len(validRevisions)
             PROVE  saved'[i] = Y[validRevisions[i].journalIndex]
  BY DEF Kept
<1>1. validRevisions \in Seq(Revision) /\ Len(validRevisions) \in Nat /\ Len(journal.entries) \in Nat
  BY DEF IInv, TypeOK, JournalTypeOK
<1>2. validRevisions[i] \in Revision /\ validRevisions # <<>>
  BY <1>1
<1>3. validRevisions[i].journalIndex \in 0..Len(journal.entries)
  BY <1>1, <1>2 DEF IInv, RevisionsOrdered, Revision
<1>4. saved'[i] = saved[i] /\ saved[i] = X[validRevisions[i].journalIndex]
  BY <1>1 DEF SavedNext, Kept
<1> QED BY <1>2, <1>3, <1>4 DEF Continues

\* Every step keeps the chain of views and the saved views in it.
LEMMA HistoryStep ==
    ASSUME "setStorage" \notin Env, IInv, [Next]_vars, ObjectsLinked,
           AccessListOrdered(accessList, journal.entries), History, SavedNext
    PROVE  History'
<1> DEFINE es == journal.entries
           fs == journal'.entries
           G  == \E W : Traced(View', fs, W) /\ Kept(W)'
<1>0. /\ journal \in JournalType /\ es \in Seq(Entry) /\ Len(es) \in Nat
      /\ validRevisions \in Seq(Revision) /\ Len(validRevisions) \in Nat
      /\ reverting \in 0..Len(validRevisions)
  BY DEF IInv, TypeOK, JournalTypeOK, JournalType, RevisionsOrdered
<1>1. Len(saved') = Len(validRevisions') /\ Len(saved) = Len(validRevisions)
  BY DEF SavedNext, History
<1>c. ASSUME dbErr = FALSE PROVE \E W : Traced(View, es, W) /\ Kept(W)
  BY <1>c DEF History
<1> SUFFICES ASSUME dbErr' = FALSE PROVE G
  BY <1>1 DEF History
<1>2. CASE \E a \in Addr : CallRuns(a) /\ UNCHANGED txVars
  <2>1. PICK a \in Addr : CallRuns(a) /\ UNCHANGED txVars
    BY <1>2
  <2>2. PICK X : Traced(View, es, X) /\ Kept(X)
    BY <1>c, <2>1, CallErr
  <2>3. PICK Y : Traced(View', fs, Y) /\ Continues(X, Len(es), Y)
    BY <2>1, <2>2, CallTraced
  <2>4. Idle /\ UNCHANGED <<validRevisions, reverting>>
    BY <2>1, CallEnd DEF CallRuns
  <2>5. Kept(Y)'
    BY <1>1, <2>2, <2>3, <2>4, GrowKept
  <2> QED BY <2>3, <2>5
<1>3. CASE TxSetter /\ UNCHANGED accountVars
  <2>1. dbErr = FALSE
    BY <1>3 DEF accountVars
  <2>2. PICK X : Traced(View, es, X) /\ Kept(X)
    BY <1>c, <2>1
  <2>3. PICK Y : Traced(View', fs, Y) /\ (validRevisions = <<>> \/ Continues(X, Len(es), Y))
    BY <1>3, <2>2, TxSetterTraced
  <2>4. Idle /\ UNCHANGED <<validRevisions, reverting>>
    BY <1>3, TxSetterAppends
  <2>5. Kept(Y)'
    BY <1>1, <2>2, <2>3, <2>4, GrowKept
  <2> QED BY <2>3, <2>5
<1>4. CASE UndoesEntry
  <2>1. dbErr = FALSE
    BY <1>4, UndoneMarks
  <2>2. PICK X : Traced(View, es, X) /\ Kept(X)
    BY <1>c, <2>1
  <2>3. View' = Undone(LastEntry, View)
    BY <1>4, <2>1, TxUndoView, AccountUndoView DEF UndoesEntry
  <2>4. /\ journal' = pop(journal) /\ es # <<>> /\ LastEntry = es[Len(es)]
        /\ UNCHANGED <<validRevisions, reverting>>
    BY <1>4, UndoPops
  <2>5. fs \in Seq(Entry) /\ Len(es) = Len(fs) + 1 /\ \A i \in 1..Len(fs) : fs[i] = es[i]
    BY <1>0, <2>4, PopType DEF JournalType
  <2> HIDE DEF es, fs
  <2>6. Traced(View', fs, X)
    BY <1>0, <2>2, <2>3, <2>4, <2>5, TracedPop
  <2>7. Kept(X)'
    BY <1>0, <1>1, <2>2, <2>4 DEF Kept, SavedNext, Idle
  <2> QED BY <2>6, <2>7
<1>5. CASE ClearsJournal
  <2>1. fs = <<>> /\ validRevisions' = <<>>
    <3>1. validRevisions' = <<>>
      BY <1>5 DEF ClearsJournal, Finalise, IntermediateRoot, IntermediateRootOn,
         clearJournalAndRefund, Copy
    <3> QED BY <1>5, <3>1, ClearsToEmpty
  <2>a. \E W : W[0] = View'
    <3> DEFINE W == [n \in {0} |-> View']
    <3>1. W[0] = View'
      OBVIOUS
    <3> QED BY <3>1
  <2>2. PICK W : W[0] = View'
    BY <2>a
  <2>b. Len(fs) = 0
    BY <2>1
  <2>3. Traced(View', fs, W)
    BY <2>2, <2>b DEF Traced
  <2>4. Kept(W)'
    BY <2>1 DEF Kept
  <2> QED BY <2>3, <2>4
<1>6. CASE MovesRevisions /\ UNCHANGED <<txVars, accountVars>>
  <2>1. dbErr = FALSE
    BY <1>6 DEF accountVars
  <2>2. PICK X : Traced(View, es, X) /\ Kept(X)
    BY <1>c, <2>1
  <2>3. View' = View
    BY <1>6 DEF txVars, accountVars, View, TxView, AccountView
  <2>4. CASE Snapshot
    <3> DEFINE l == Len(validRevisions)
               rev == [id |-> nextRevisionId, journalIndex |-> Len(es)]
    <3>1. /\ Idle /\ journal' = journal /\ reverting' = reverting
          /\ validRevisions' = Append(validRevisions, rev)
      BY <2>4 DEF Snapshot
    <3>2. /\ Len(validRevisions') = l + 1 /\ validRevisions'[l + 1] = rev
          /\ \A i \in 1..l : validRevisions'[i] = validRevisions[i]
      BY <1>0, <3>1
    <3>3. rev.journalIndex = Len(es)
      OBVIOUS
    <3> HIDE DEF l, rev
    <3>4. ASSUME NEW i \in 1..(l + 1) PROVE saved'[i] = X[validRevisions'[i].journalIndex]
      <4>1. CASE i \in 1..l
        <5>1. saved'[i] = saved[i]
          BY <1>0, <1>1, <3>2, <4>1 DEF SavedNext, l
        <5>2. saved[i] = X[validRevisions[i].journalIndex]
          BY <2>2, <3>1, <4>1 DEF Kept, l
        <5> QED BY <3>2, <4>1, <5>1, <5>2
      <4>2. CASE i = l + 1
        <5>1. saved'[i] = View
          BY <1>0, <1>1, <3>2, <4>2 DEF SavedNext, l
        <5>2. X[Len(es)] = View
          BY <2>2 DEF Traced
        <5> QED BY <3>2, <3>3, <4>2, <5>1, <5>2
      <4> QED BY <1>0, <4>1, <4>2 DEF l
    <3>5. Kept(X)'
      BY <3>2, <3>4 DEF Kept
    <3>6. Traced(View', fs, X)
      BY <2>2, <2>3, <3>1
    <3> QED BY <3>5, <3>6
  <2>5. CASE \E id \in 0..(MaxRevisionId - 1) : RevertToSnapshot(id)
    <3>1. Idle /\ journal' = journal /\ validRevisions' = validRevisions
      BY <2>5 DEF RevertToSnapshot
    <3>2. Kept(X)'
      BY <1>0, <1>1, <2>2, <3>1 DEF Kept, SavedNext
    <3> QED BY <2>2, <2>3, <3>1, <3>2
  <2>6. CASE RevertDone
    <3>1. /\ journal' = journal /\ validRevisions' = SubSeq(validRevisions, 1, reverting - 1)
          /\ reverting # 0
      BY <2>6 DEF RevertDone, Idle
    <3>2. /\ Len(validRevisions') = reverting - 1 /\ reverting - 1 \in 0..Len(validRevisions)
          /\ \A i \in 1..(reverting - 1) : validRevisions'[i] = validRevisions[i]
      BY <1>0, <3>1
    <3>3. Kept(X)'
      BY <1>0, <1>1, <2>2, <3>2 DEF Kept, SavedNext
    <3> QED BY <2>2, <2>3, <3>1, <3>3
  <2>7. CASE UNCHANGED journalVars
    <3>1. journal' = journal /\ validRevisions' = validRevisions /\ reverting' = reverting
      BY <2>7 DEF journalVars
    <3>2. Kept(X)'
      BY <1>0, <1>1, <2>2, <3>1 DEF Kept, SavedNext, Idle
    <3> QED BY <2>2, <2>3, <3>1, <3>2
  <2> QED BY <1>6, <2>4, <2>5, <2>6, <2>7 DEF MovesRevisions
<1> QED BY <1>2, <1>3, <1>4, <1>5, <1>6, HistoryCases

-----------------------------------------------------------------------------
(* The theorem.                                                            *)

\* The saved views follow the revisions.
LEMMA SavedStep ==
    ASSUME validRevisions \in Seq(Revision), validRevisions' \in Seq(Revision),
           Len(saved) = Len(validRevisions), [HNext]_historyVars
    PROVE  SavedNext
<1>1. Len(validRevisions) \in Nat /\ Len(validRevisions') \in Nat
  OBVIOUS
<1>2. CASE HNext
  <2> DEFINE n == Len(validRevisions')
             F(i) == IF i <= Len(saved) THEN saved[i] ELSE View
  <2>1. saved' = [i \in 1..n |-> F(i)]
    BY <1>2 DEF HNext
  <2> HIDE DEF n, F
  <2>2. Len([i \in 1..n |-> F(i)]) = n
    BY <1>1 DEF n
  <2>3. Len(saved') = n /\ \A i \in 1..n : saved'[i] = F(i)
    BY <2>1, <2>2
  <2> QED BY <2>3 DEF SavedNext, n, F
<1>3. CASE UNCHANGED historyVars
  <2>1. saved' = saved /\ validRevisions' = validRevisions
    BY <1>3 DEF historyVars, prefetchVars, vars, journalVars
  <2> QED BY <1>1, <2>1 DEF SavedNext
<1> QED BY <1>2, <1>3

\* In the initial state the chain of views has one element.
LEMMA HistoryInit == HInit => Init /\ Untouched /\ History /\ ObjectsLinked
<1> SUFFICES ASSUME HInit PROVE Init /\ Untouched /\ History /\ ObjectsLinked
  OBVIOUS
<1>1. /\ Init /\ Untouched /\ saved = <<>> /\ validRevisions = <<>> /\ journal.entries = <<>>
  BY DEF HInit, PInit, Init, JournalInit, newJournal, Untouched
<1>2. ObjectsLinked
  BY <1>1 DEF ObjectsLinked, Linked, CreatesAbsent, ResetsMarked, ObjectsThere
<1>3. \E W : W[0] = View
  <2> DEFINE W == [n \in {0} |-> View]
  <2>1. W[0] = View
    OBVIOUS
  <2> QED BY <2>1
<1>4. PICK W : W[0] = View
  BY <1>3
<1>5. Traced(View, journal.entries, W) /\ Kept(W)
  BY <1>1, <1>4 DEF Traced, Kept
<1> QED BY <1>1, <1>2, <1>5 DEF History

\* At the end of RevertToSnapshot a caller observes what it observed when the
\* snapshot was taken: existence, balance, nonce, code, storage and committed
\* storage, suicide marks, refund, logs, preimages, access list and transient
\* storage, for every number of accounts, slots and snapshots, every sequence
\* of calls and reverts, and with or without a prefetcher, unless a read failed.
\* SetStorage, which marks its account destructed without an entry, is not used.
THEOREM RevertAlwaysRestores ==
    ASSUME "setStorage" \notin Env
    PROVE  HSpec => []RevertRestores
<1> DEFINE A == AccessListOrdered(accessList, journal.entries)
<1>1. HInit => Init /\ Untouched /\ History /\ ObjectsLinked
  BY HistoryInit
<1>2. HSpec => PSpec
  <2>1. HInit => PInit
    BY DEF HInit
  <2>2. [HNext]_historyVars => [PNext]_prefetchVars
    BY DEF HNext, historyVars
  <2> QED BY <2>1, <2>2, PTL DEF HSpec, PSpec
<1>3. HSpec => []IInv /\ []A /\ []Untouched
  BY <1>2, PrefetcherRefines, UntouchedInvariant, Invariance, AccessListInvariance, PTL
<1>4. /\ IInv /\ IInv' /\ A /\ Untouched /\ ObjectsLinked /\ History /\ [HNext]_historyVars
      => ObjectsLinked' /\ History'
  <2> SUFFICES ASSUME IInv, IInv', A, Untouched, ObjectsLinked, History, [HNext]_historyVars
               PROVE  ObjectsLinked' /\ History'
    OBVIOUS
  <2>1. [PNext]_prefetchVars
    BY DEF HNext, historyVars
  <2>2. [Next]_vars
    BY <2>1, PrefetcherStep
  <2>3. /\ validRevisions \in Seq(Revision) /\ validRevisions' \in Seq(Revision)
        /\ Len(saved) = Len(validRevisions)
    BY DEF IInv, TypeOK, JournalTypeOK, History
  <2>4. SavedNext
    BY <2>3, SavedStep
  <2>5. ObjectsLinked'
    BY <2>2, LinkedStep
  <2>6. History'
    BY <2>2, <2>4, HistoryStep
  <2> QED BY <2>5, <2>6
<1>5. IInv /\ History => RevertRestores
  <2> SUFFICES ASSUME IInv, History, ~Idle, ~Undoing, ~dbErr PROVE View = saved[reverting]
    BY DEF RevertRestores
  <2> DEFINE k == validRevisions[reverting].journalIndex
  <2>1. PICK W : Traced(View, journal.entries, W) /\ Kept(W)
    <3>1. dbErr = FALSE
      BY DEF IInv, TypeOK, AccountsTypeOK
    <3> QED BY <3>1 DEF History
  <2>2. /\ validRevisions \in Seq(Revision) /\ Len(journal.entries) \in Nat
        /\ reverting \in 1..Len(validRevisions)
    BY DEF IInv, TypeOK, JournalTypeOK, RevisionsOrdered, Idle
  <2>3. k \in Nat /\ k <= Len(journal.entries)
    <3>1. validRevisions[reverting] \in Revision
      BY <2>2
    <3> QED BY <2>2, <3>1 DEF IInv, RevisionsOrdered, Revision
  <2>4. k = Len(journal.entries)
    BY <2>2, <2>3 DEF Undoing
  <2>5. saved[reverting] = W[k]
    BY <2>1, <2>2 DEF Kept
  <2> QED BY <2>1, <2>4, <2>5 DEF Traced
<1> HIDE DEF A
<1>6. HSpec => [](ObjectsLinked /\ History)
  BY <1>1, <1>3, <1>4, PTL DEF HSpec
<1> QED BY <1>3, <1>5, <1>6, PTL
=============================================================================
