---------------------------- MODULE TrieDatabase ----------------------------
(***************************************************************************)
(* The in-memory node store of trie_by_cid/trie/database.go: dirty nodes   *)
(* with reference counts, the flush list through them, and readers that    *)
(* look into the clean cache, the dirty nodes and the disk.                *)
(*                                                                         *)
(* A node is its hash, and the hash determines the hashes inside the node  *)
(* and the storage root of an account in it.  A method that changes the    *)
(* store holds the lock and works through the calls it makes: work is the  *)
(* stack of the calls that are left, and every call is one step, in the    *)
(* order of the code.  Readers take their steps in between; the one that   *)
(* needs the lock waits for the stack to be empty.                         *)
(***************************************************************************)
EXTENDS Integers, Sequences, FiniteSets, SequencesExt

CONSTANTS
    Hash,         \* hashes of trie nodes
    Meta,         \* common.Hash{}, the meta root
    Nil,          \* an absent map entry, a nil pointer
    Edge,         \* the hashes inside a node, in the order of its slots
    StorageRoot,  \* the root in the account of a leaf node, or Nil
    Disk,         \* nodes of the persistent database
    Roots,        \* roots the caller may reference
    Batches,      \* what Update may be given: nodes, children first, and account leaves
    CountLimit,   \* 2^16 in the code: where a counter of children wraps
    MaxRefs,      \* bound: references the caller holds on a root
    Reader,       \* goroutines that read nodes
    Wanted        \* bound: the nodes they read

Counter == 0..(CountLimit - 1)

\* Everything a node refers to.
Succ ==
    [h \in Hash |-> {Edge[h][i] : i \in 1..Len(Edge[h])} \cup ({StorageRoot[h]} \ {Nil})]

\* The trie below a node: what every set holds that holds the node and what
\* its members refer to.
Below ==
    [h \in Hash |->
        {g \in Hash : \A S \in SUBSET Hash :
            h \in S /\ (\A n \in S : Succ[n] \subseteq S) => g \in S}]

VARIABLES
    dirties,   \* db.dirties
    oldest,    \* db.oldest
    newest,    \* db.newest
    cleans,    \* db.cleans: the cached hashes; without a cache always empty
    work,      \* the calls the holder of the lock still has to make
    refs,      \* the references the caller holds on roots
    readers    \* the calls of Node

databaseVars == <<dirties, oldest, newest, cleans, work, refs, readers>>

Key == Hash \cup {Meta}

\* cachedNode without its content and size; children that are nil and children
\* that are empty are only told apart by the size statistics.
CachedNode ==
    [parents   : Nat,
     children  : [Hash -> Counter \cup {Nil}],
     flushPrev : Key,
     flushNext : Key]

\* Nodes refer to each other by the hash of their content, so there are no
\* cycles, and the persistent database holds complete tries.  The leaves of a
\* batch are the accounts with storage among its nodes.
ASSUME TrieDatabaseAssumption ==
    /\ Meta \notin Hash
    /\ Nil \notin Hash
    /\ Nil \notin Int
    /\ Nil \notin CachedNode
    /\ Edge \in [Hash -> Seq(Hash)]
    /\ StorageRoot \in [Hash -> Hash \cup {Nil}]
    /\ \A h \in Hash : \A g \in Succ[h] : h \notin Below[g]
    /\ Disk \subseteq Hash
    /\ \A h \in Disk : Succ[h] \subseteq Disk
    /\ Roots \subseteq Hash
    /\ \A b \in Batches :
          /\ b.nodes \in Seq(Hash)
          /\ b.leaves \in Seq(Hash)
          /\ Range(b.leaves) = {h \in Range(b.nodes) : StorageRoot[h] # Nil}
    /\ CountLimit \in Nat \ {0}
    /\ MaxRefs \in [Roots -> Nat]
    /\ Wanted \subseteq Hash

Call ==
    [op : {"insert", "delete"}, node : Hash]
    \cup [op : {"reference", "dereference"}, child : Hash, parent : Key]

NotReading == [pc |-> "idle", hash |-> Nil]

ReaderState == {NotReading} \cup [pc : {"dirties", "disk"}, hash : Hash]

TypeOK ==
    /\ dirties \in [Key -> CachedNode \cup {Nil}]
    /\ oldest \in Key
    /\ newest \in Key
    /\ cleans \in SUBSET Hash
    /\ work \in Seq(Call)
    /\ refs \in [Hash -> Nat]
    /\ readers \in [Reader -> ReaderState]

newNode(prev) ==
    [parents |-> 0, children |-> [c \in Hash |-> Nil], flushPrev |-> prev, flushNext |-> Meta]

\* NewDatabaseWithConfig: the meta root is there, nothing else.
Init ==
    /\ dirties = [h \in Key |-> IF h = Meta THEN newNode(Meta) ELSE Nil]
    /\ oldest = Meta
    /\ newest = Meta
    /\ cleans = {}
    /\ work = <<>>
    /\ refs = [h \in Hash |-> 0]
    /\ readers = [r \in Reader |-> NotReading]

Dirty == {h \in Hash : dirties[h] # Nil}

\* Nodes a trie can be built on.
Readable == Dirty \cup Disk

Unlocked == work = <<>>

-----------------------------------------------------------------------------
(* The calls made under the lock.                                          *)

\* The next call to be made is op.
Calling(op) == ~Unlocked /\ Head(work).op = op

\* It has been made; before the others come the calls in more.
Returns(more) ==
    /\ work' = more \o Tail(work)
    /\ UNCHANGED <<cleans, refs, readers>>

\* How often c occurs in the node h.
Occurs(h, c) == Cardinality({i \in 1..Len(Edge[h]) : Edge[h][i] = c})

\* Mutant of CountChildren: a child that occurs twice is counted once.
CountChildrenOnce(h) ==
    [c \in Key |-> IF dirties[c] # Nil /\ c # Meta /\ Occurs(h, c) # 0
                   THEN [dirties[c] EXCEPT !.parents = @ + 1]
                   ELSE dirties[c]]

\* The children of h that are dirty get one more parent for each occurrence.
CountChildren(h) ==
    [c \in Key |-> IF dirties[c] # Nil /\ c # Meta
                   THEN [dirties[c] EXCEPT !.parents = @ + Occurs(h, c)]
                   ELSE dirties[c]]

\* The new node is the tail of the flush list.
Enqueue(h) ==
    LET d == [CountChildren(h) EXCEPT ![h] = newNode(newest)]
    IN /\ dirties' = IF oldest = Meta THEN d ELSE [d EXCEPT ![newest].flushNext = h]
       /\ oldest' = IF oldest = Meta THEN h ELSE oldest
       /\ newest' = h

\* A node that is already there is skipped.
insert ==
    /\ Calling("insert")
    /\ Returns(<<>>)
    /\ IF Head(work).node \in Dirty
       THEN UNCHANGED <<dirties, oldest, newest>>
       ELSE Enqueue(Head(work).node)

\* Mutant of Referenced: a second reference to a root is not counted.
ReferencedOnce(c, p) ==
    IF c \notin Dirty \/ dirties[p].children[c] # Nil THEN dirties
    ELSE [dirties EXCEPT ![c].parents = @ + 1, ![p].children[c] = 1]

\* Nodes from disk are not counted, and references are only duplicated for roots.
Referenced(c, p) ==
    LET n == dirties[p].children[c] IN
    IF c \notin Dirty \/ (n # Nil /\ p # Meta) THEN dirties
    ELSE [dirties EXCEPT
             ![c].parents = @ + 1,
             ![p].children[c] = ((IF n = Nil THEN 0 ELSE n) + 1) % CountLimit]

reference ==
    /\ Calling("reference")
    /\ Returns(<<>>)
    /\ dirties' = Referenced(Head(work).child, Head(work).parent)
    /\ UNCHANGED <<oldest, newest>>

\* The counter of the reference from p to c; at zero the entry goes.
Unchild(d, c, p) ==
    LET n == d[p].children[c]
    IN IF n = Nil \/ n = 0 THEN d
       ELSE [d EXCEPT ![p].children[c] = IF n = 1 THEN Nil ELSE n - 1]

\* forChilds: external children, then the hashes inside the node.
Childs(n, h) == SetToSeq({c \in Hash : n.children[c] # Nil}) \o Edge[h]

\* Mutant of Unlink: the head of the list is treated like any other node.
UnlinkMiddle(d, c) ==
    LET n == d[c] IN
    IF c = newest
    THEN [dirties |-> [d EXCEPT ![n.flushPrev].flushNext = Meta],
          oldest |-> oldest, newest |-> n.flushPrev]
    ELSE [dirties |-> [d EXCEPT ![n.flushPrev].flushNext = n.flushNext,
                                ![n.flushNext].flushPrev = n.flushPrev],
          oldest |-> oldest, newest |-> newest]

\* The switch of dereference: the flush list without c.
Unlink(d, c) ==
    LET n == d[c] IN
    IF c = oldest
    THEN [dirties |-> [d EXCEPT ![n.flushNext].flushPrev = Meta],
          oldest |-> n.flushNext, newest |-> newest]
    ELSE IF c = newest
    THEN [dirties |-> [d EXCEPT ![n.flushPrev].flushNext = Meta],
          oldest |-> oldest, newest |-> n.flushPrev]
    ELSE [dirties |-> [d EXCEPT ![n.flushPrev].flushNext = n.flushNext,
                                ![n.flushNext].flushPrev = n.flushPrev],
          oldest |-> oldest, newest |-> newest]

\* One parent less; a node from disk that came back may have none to lose.
OneParentLess(n) == [n EXCEPT !.parents = IF @ > 0 THEN @ - 1 ELSE 0]

\* A node without parents leaves the flush list, its children are dereferenced,
\* and then it is deleted.
dereference ==
    /\ Calling("dereference")
    /\ LET c == Head(work).child
           d == Unchild(dirties, c, Head(work).parent)
           e == [d EXCEPT ![c] = OneParentLess(@)]
           childs == Childs(e[c], c)
       IN IF d[c] = Nil
          THEN /\ Returns(<<>>)
               /\ dirties' = d
               /\ UNCHANGED <<oldest, newest>>
          ELSE IF e[c].parents # 0
          THEN /\ Returns(<<>>)
               /\ dirties' = e
               /\ UNCHANGED <<oldest, newest>>
          ELSE /\ Returns([i \in 1..Len(childs) |->
                              [op |-> "dereference", child |-> childs[i], parent |-> c]]
                          \o <<[op |-> "delete", node |-> c]>>)
               /\ dirties' = Unlink(e, c).dirties
               /\ oldest' = Unlink(e, c).oldest
               /\ newest' = Unlink(e, c).newest

delete ==
    /\ Calling("delete")
    /\ Returns(<<>>)
    /\ dirties' = [dirties EXCEPT ![Head(work).node] = Nil]
    /\ UNCHANGED <<oldest, newest>>

Step == insert \/ reference \/ dereference \/ delete

-----------------------------------------------------------------------------
(* The methods that take the lock.                                         *)

Locks(calls) ==
    /\ Unlocked
    /\ work' = calls
    /\ UNCHANGED <<dirties, oldest, newest, cleans, readers>>

\* What a commit gives Update was built on nodes that can be read.
Buildable(nodes) ==
    \A i \in 1..Len(nodes) :
        Succ[nodes[i]] \subseteq Readable \cup {nodes[j] : j \in 1..(i - 1)}

\* Update: all nodes are inserted, storage tries before the account trie and
\* children before parents; then storage roots are linked to the leaves.
\* (Deleted nodes of the set are ignored.)
Update(batch) ==
    /\ Buildable(batch.nodes)
    /\ Locks([i \in 1..Len(batch.nodes) |-> [op |-> "insert", node |-> batch.nodes[i]]]
             \o [i \in 1..Len(batch.leaves) |->
                    [op |-> "reference", child |-> StorageRoot[batch.leaves[i]],
                     parent |-> batch.leaves[i]]])
    /\ UNCHANGED refs

\* A caller references a root it has built or read, and releases what it holds.
Reference(root) ==
    /\ root \in Readable
    /\ refs[root] < MaxRefs[root]
    /\ Locks(<<[op |-> "reference", child |-> root, parent |-> Meta]>>)
    /\ refs' = [refs EXCEPT ![root] = @ + 1]

Dereference(root) ==
    /\ refs[root] > 0
    /\ Locks(<<[op |-> "dereference", child |-> root, parent |-> Meta]>>)
    /\ refs' = [refs EXCEPT ![root] = @ - 1]

-----------------------------------------------------------------------------
(* Node, called by goroutines for nodes below a root that is referenced.   *)

Moves(r, state) ==
    /\ readers' = [readers EXCEPT ![r] = state]
    /\ UNCHANGED <<dirties, oldest, newest, work, refs>>

\* A node in the clean cache is returned at once.
lookupClean(r, h) ==
    /\ readers[r] = NotReading
    /\ \E root \in Roots : refs[root] > 0 /\ h \in Below[root]
    /\ h \notin cleans
    /\ Moves(r, [pc |-> "dirties", hash |-> h])
    /\ UNCHANGED cleans

\* Mutant of lookupDirty: a read that misses starts again.
LookupDirtyAgain(r) ==
    /\ readers[r].pc = "dirties"
    /\ Unlocked
    /\ Moves(r, IF readers[r].hash \in Dirty THEN NotReading ELSE readers[r])
    /\ UNCHANGED cleans

\* RLock waits until no writer is at work.
lookupDirty(r) ==
    /\ readers[r].pc = "dirties"
    /\ Unlocked
    /\ Moves(r, IF readers[r].hash \in Dirty THEN NotReading
                ELSE [readers[r] EXCEPT !.pc = "disk"])
    /\ UNCHANGED cleans

\* A node from disk goes into the clean cache; the read may also fail.
lookupDisk(r) ==
    /\ readers[r].pc = "disk"
    /\ Moves(r, NotReading)
    /\ \/ UNCHANGED cleans
       \/ /\ readers[r].hash \in Disk
          /\ cleans' = cleans \cup {readers[r].hash}

Node(r) == lookupDirty(r) \/ lookupDisk(r)

\* The cache makes room.
Evict(h) ==
    /\ h \in cleans
    /\ cleans' = cleans \ {h}
    /\ UNCHANGED <<dirties, oldest, newest, work, refs, readers>>

Next ==
    \/ insert
    \/ reference
    \/ dereference
    \/ delete
    \/ \E batch \in Batches : Update(batch)
    \/ \E root \in Roots : Reference(root)
    \/ \E root \in Roots : Dereference(root)
    \/ \E r \in Reader, h \in Wanted : lookupClean(r, h)
    \/ \E r \in Reader : lookupDirty(r)
    \/ \E r \in Reader : lookupDisk(r)
    \/ \E h \in Hash : Evict(h)

\* The holder of the lock runs on, and so does a reader; a reader that waits
\* for the lock gets it before the next writer does.
Fairness ==
    /\ WF_databaseVars(Step)
    /\ \A r \in Reader : SF_databaseVars(Node(r))

Spec == Init /\ [][Next]_databaseVars /\ Fairness

-----------------------------------------------------------------------------
\* Nodes that have left the flush list and are about to be deleted.
Condemned == {h \in Hash : \E i \in 1..Len(work) : work[i] = [op |-> "delete", node |-> h]}

Listed == Dirty \ Condemned

\* The calls still to be made for a reference from parent.
Pending(op, c, parents) ==
    Cardinality({i \in 1..Len(work) :
        work[i].op = op /\ work[i].child = c /\ work[i].parent \in parents})

\* The references to c: from inside nodes, from account leaves, from callers,
\* and those whose removal is still to come.
Holders(c) ==
    Cardinality(UNION {{<<p, i>> : i \in {j \in 1..Len(Edge[p]) : Edge[p][j] = c}} : p \in Listed})
    + Cardinality({p \in Listed : dirties[p].children[c] # Nil})
    + refs[c] - Pending("reference", c, {Meta})
    + Pending("dereference", c, Key)

(***************************************************************************)
(* parents counts every reference to a node exactly, for nodes that exist  *)
(* in memory only: repeated hashes in one node, account leaves that share  *)
(* a storage root, roots that are referenced twice and cascades that are   *)
(* under way included.  (Nodes that are on disk too may have been missed   *)
(* by parents that came before them and count less, never below zero.)     *)
(* The 16 bit counters of external children may wrap: no decision depends  *)
(* on their value.                                                         *)
(***************************************************************************)
CountsExact ==
    \A c \in Listed :
        /\ dirties[c].parents \in 0..Holders(c)
        /\ c \notin Disk => dirties[c].parents = Holders(c)

\* The node database in every state: its types and its counts.
DatabaseInv == TypeOK /\ CountsExact

(***************************************************************************)
(* insert and dereference write through flushPrev and flushNext without a  *)
(* nil check.  The dirty nodes form one doubly linked list from oldest to  *)
(* newest in every state, also in the middle of a cascade that unlinks     *)
(* head, tail and inner nodes, and after the list has been empty, which    *)
(* leaves newest and the next node's flushPrev pointing at a deleted node. *)
(***************************************************************************)
FlushListLinked ==
    LET next(h) == dirties[h].flushNext
        prev(h) == dirties[h].flushPrev
    IN IF Listed = {} THEN oldest = Meta
       ELSE /\ oldest \in Listed
            /\ newest \in Listed
            /\ next(newest) = Meta
            /\ \A h \in Listed \ {newest} : next(h) \in Listed \ {oldest} /\ prev(next(h)) = h
            /\ \A h \in Listed \ {oldest} : prev(h) \in Listed \ {newest} /\ next(prev(h)) = h
            /\ \A S \in SUBSET Listed :
                  oldest \in S /\ (\A h \in S \ {newest} : next(h) \in S) => S = Listed

(***************************************************************************)
(* The reference counts implement the promise of NodeStore: a node that is *)
(* in memory only goes when no node that stays and no caller refers to it. *)
(***************************************************************************)
Store == INSTANCE NodeStore WITH nodes <- Listed \cup Disk

StoreSpec == Store!Spec

(***************************************************************************)
(* A reader looks into the clean cache, the dirty nodes and the disk one   *)
(* after the other while nodes are added, collected and cached.  If it     *)
(* misses a node that is not on disk, the caller has released every root   *)
(* above it since the read began.                                          *)
(***************************************************************************)
ReadsFindReferenced ==
    [][\A r \in Reader :
          readers[r].pc = "dirties" /\ readers'[r].pc = "disk" /\ readers[r].hash \notin Disk
             => \A root \in Roots : readers[r].hash \in Below[root] => refs[root] = 0
      ]_databaseVars

(***************************************************************************)
(* Cascades end and the lock is released, and no reader waits for ever for *)
(* the lock or walks for ever.                                             *)
(***************************************************************************)
LockReleased == ~Unlocked ~> Unlocked

ReadsReturn == \A r \in Reader : readers[r].pc # "idle" ~> readers[r].pc = "idle"

\* Both: nobody waits for the database for ever.
Progress == LockReleased /\ ReadsReturn
=============================================================================
