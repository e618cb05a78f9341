-------------------------------- MODULE Trie --------------------------------
(***************************************************************************)
(* The Merkle Patricia trie of trie_by_cid/trie: trie.go with its tracer,  *)
(* committer and node set.  A trie is opened at a root on disk; its nodes  *)
(* are loaded when an operation reaches them, and each of these reads may  *)
(* fail.  Commit hands out the node set and ends the use of the trie; the  *)
(* caller writes the set to the database and opens the new root.           *)
(*                                                                         *)
(* The model has RECURSIVE operators, as the code has recursive functions, *)
(* and is for TLC alone.                                                   *)
(***************************************************************************)
EXTENDS TrieNode

CONSTANTS
    Key,       \* keys, as sequences of bytes
    NoValue    \* the empty value: the key is absent

ASSUME TrieAssumption == NoValue \notin Value

Content == [Key -> Value \cup {NoValue}]

\* The reference trie of a content, its root hash, and the nodes it stores: the
\* pairs of a path and a hash.
Reference(c) ==
    LET present == {k \in Key : c[k] # NoValue}
    IN  Build([h \in {keybytesToHex(k) : k \in present} |-> c[hexToKeyBytes(h)]])
RootHash(c) == LET trie == Reference(c) IN IF trie = Nil THEN Nil ELSE hash(trie, TRUE).hashed
Stored(c) == StoredAt(<<>>, RootHash(c))

VARIABLES
    root,      \* t.root
    tracer,    \* t.tracer; of the blobs in accessList only the paths
    base,      \* the content at the root the trie was opened at
    disk,      \* the nodes stored for this root
    content,   \* the content the caller has made of it
    failed,    \* an operation of this trie has met a missing node
    result     \* what Commit returned, or Nil

vars == <<root, tracer, base, disk, content, failed, result>>

-----------------------------------------------------------------------------
newTracer == [inserts |-> {}, deletes |-> {}, accessList |-> {}]

onRead(tr, path) == [tr EXCEPT !.accessList = @ \cup {path}]

onInsert(tr, path) ==
    IF path \in tr.deletes THEN [tr EXCEPT !.deletes = @ \ {path}]
    ELSE [tr EXCEPT !.inserts = @ \cup {path}]

onDelete(tr, path) ==
    IF path \in tr.inserts THEN [tr EXCEPT !.inserts = @ \ {path}]
    ELSE [tr EXCEPT !.deletes = @ \cup {path}]

\* trieReader.nodeBlob finds what is on disk, unless the read is one of those
\* that fail now.
Readable(h, path, lost) == path \notin lost /\ \E s \in disk : s[2] = h

resolveAndTrack(h, path, tr, lost) ==
    IF Readable(h, path, lost)
    THEN [node |-> decodeNode(h, h.of), err |-> FALSE, tr |-> onRead(tr, path)]
    ELSE [node |-> Nil, err |-> TRUE, tr |-> tr]

resolve(n, path, tr, lost) ==
    IF IsHash(n) THEN resolveAndTrack(n, path, tr, lost)
    ELSE [node |-> n, err |-> FALSE, tr |-> tr]

-----------------------------------------------------------------------------
(***************************************************************************)
(* The recursions descend with path, the part of the key that led to n,    *)
(* and key, the part that is left.                                         *)
(***************************************************************************)
Leads(n, key) == HasPrefix(key, n.key)

\* n with the child that key leads to replaced.
WithChild(n, key, child) ==
    IF IsShort(n) THEN [n EXCEPT !.val = child] ELSE [n EXCEPT !.children[key[1]] = child]

\* A read that found v at n, and one that came back from a child of n: the
\* nodes loaded on the way are kept, unless a node was missing.
Found(v, n, tr) == [item |-> v, node |-> n, resolved |-> FALSE, err |-> FALSE, tr |-> tr]
Through(n, key, r) ==
    [r EXCEPT !.node = IF r.resolved /\ ~r.err THEN WithChild(n, key, r.node) ELSE n]

RECURSIVE tryGet(_, _, _, _, _)
tryGet(n, path, key, tr, lost) ==
    CASE n = Nil    -> Found(Nil, Nil, tr)
      [] IsValue(n) -> Found(n, n, tr)
      [] IsShort(n) ->
             IF ~Leads(n, key) THEN Found(Nil, n, tr)
             ELSE Through(n, key, tryGet(n.val, path \o n.key, From(key, Len(n.key)), tr, lost))
      [] IsFull(n)  ->
             Through(n, key, tryGet(n.children[key[1]], Append(path, key[1]), Tail(key), tr, lost))
      [] IsHash(n)  ->
             LET child == resolveAndTrack(n, path, tr, lost)
             IN  IF child.err THEN [Found(Nil, n, tr) EXCEPT !.err = TRUE, !.resolved = TRUE]
                 ELSE [tryGet(child.node, path, key, child.tr, lost) EXCEPT !.resolved = TRUE]

\* The blob of the node at a path, read from disk by its hash even when the node
\* is loaded.
BlobOf(n, path, tr, lost) ==
    LET h == IF IsHash(n) THEN n ELSE cacheHash(n)
    IN  IF h = Nil THEN [Found(Nil, n, tr) EXCEPT !.err = TRUE]
        ELSE IF Readable(h, path, lost)
             THEN [Found(h.of, n, tr) EXCEPT !.resolved = TRUE]
             ELSE [Found(Nil, n, tr) EXCEPT !.resolved = TRUE, !.err = TRUE]

RECURSIVE tryGetNode(_, _, _, _, _)
tryGetNode(n, path, key, tr, lost) ==
    CASE n = Nil    -> Found(Nil, Nil, tr)
      [] n # Nil /\ key = <<>> -> BlobOf(n, path, tr, lost)
      [] IsValue(n) /\ key # <<>> -> Found(Nil, Nil, tr)
      [] IsShort(n) /\ key # <<>> ->
             IF ~Leads(n, key) THEN Found(Nil, n, tr)
             ELSE Through(n, key, tryGetNode(n.val, path \o n.key, From(key, Len(n.key)), tr, lost))
      [] IsFull(n) /\ key # <<>> ->
             Through(n, key, tryGetNode(n.children[key[1]], Append(path, key[1]), Tail(key), tr, lost))
      [] IsHash(n) /\ key # <<>> ->
             LET child == resolveAndTrack(n, path, tr, lost)
             IN  IF child.err THEN [Found(Nil, n, tr) EXCEPT !.err = TRUE, !.resolved = TRUE]
                 ELSE [tryGetNode(child.node, path, key, child.tr, lost) EXCEPT !.resolved = TRUE]

\* What a write returns: a new node, or the old one with the error.
Changed(n, tr) == [dirty |-> TRUE, node |-> n, err |-> FALSE, tr |-> tr]
Same(n, r) == [dirty |-> FALSE, node |-> n, err |-> r.err, tr |-> r.tr]

RECURSIVE insert(_, _, _, _, _, _)
insert(n, path, key, value, tr, lost) ==
    IF key = <<>> THEN [Changed(value, tr) EXCEPT !.dirty = ~IsValue(n) \/ n # value]
    ELSE CASE IsShort(n) /\ Leads(n, key) ->
             LET r == insert(n.val, path \o n.key, From(key, Len(n.key)), value, tr, lost)
             IN  IF ~r.dirty \/ r.err THEN Same(n, r)
                 ELSE Changed(NewShort(n.key, r.node), r.tr)
           [] IsShort(n) /\ ~Leads(n, key) ->
             LET match == prefixLen(key, n.key)
                 upTo(k, i) == path \o SubSeq(k, 1, i)
                 old   == insert(Nil, upTo(n.key, match + 1), From(n.key, match + 1), n.val, tr, lost)
                 new   == insert(Nil, upTo(key, match + 1), From(key, match + 1), value, old.tr, lost)
                 branch == NewFull([i \in Slot |-> IF i = n.key[match + 1] THEN old.node
                                                   ELSE IF i = key[match + 1] THEN new.node ELSE Nil])
             IN  IF match = 0 THEN Changed(branch, new.tr)
                 ELSE Changed(NewShort(SubSeq(key, 1, match), branch), onInsert(new.tr, upTo(key, match)))
           [] IsFull(n) ->
             LET r == insert(n.children[key[1]], Append(path, key[1]), Tail(key), value, tr, lost)
             IN  IF ~r.dirty \/ r.err THEN Same(n, r)
                 ELSE Changed(NewFull([n.children EXCEPT ![key[1]] = r.node]), r.tr)
           [] n = Nil -> Changed(NewShort(key, value), onInsert(tr, path))
           [] IsHash(n) ->
             LET rn == resolveAndTrack(n, path, tr, lost)
                 r  == insert(rn.node, path, key, value, rn.tr, lost)
             IN  IF rn.err THEN Same(Nil, rn)
                 ELSE IF ~r.dirty \/ r.err THEN Same(rn.node, r) ELSE r

\* Mutant: a short node is left below the new one.
ReduceStacks(children, path, tr, lost) ==
    LET left == {i \in Slot : children[i] # Nil}
        pos  == CHOOSE i \in left : TRUE
    IN  IF Cardinality(left) # 1 THEN Changed(NewFull(children), tr)
        ELSE Changed(NewShort(<<pos>>, children[pos]), tr)

\* The full node at path whose children have become these: a short node when
\* only one is left.
Reduce(children, path, tr, lost) ==
    LET left  == {i \in Slot : children[i] # Nil}
        pos   == CHOOSE i \in left : TRUE
        cnode == resolve(children[pos], Append(path, pos), tr, lost)
    IN  CASE Cardinality(left) # 1 -> Changed(NewFull(children), tr)
          [] left = {Terminator}   -> Changed(NewShort(<<pos>>, children[pos]), tr)
          [] OTHER ->
             IF cnode.err THEN Same(Nil, cnode)
             ELSE IF IsShort(cnode.node)
             THEN Changed(NewShort(<<pos>> \o cnode.node.key, cnode.node.val),
                          onDelete(cnode.tr, Append(path, pos)))
             ELSE Changed(NewShort(<<pos>>, children[pos]), cnode.tr)

RECURSIVE delete(_, _, _, _, _)
delete(n, path, key, tr, lost) ==
    CASE IsShort(n) ->
             LET match == prefixLen(key, n.key)
                 r == delete(n.val, path \o n.key, From(key, Len(n.key)), tr, lost)
             IN  CASE match < Len(n.key) -> Same(n, [err |-> FALSE, tr |-> tr])
                   [] match = Len(n.key) /\ match = Len(key) -> Changed(Nil, onDelete(tr, path))
                   [] OTHER ->
                      IF ~r.dirty \/ r.err THEN Same(n, r)
                      ELSE IF IsShort(r.node)
                      THEN Changed(NewShort(n.key \o r.node.key, r.node.val),
                                   onDelete(r.tr, path \o n.key))
                      ELSE Changed(NewShort(n.key, r.node), r.tr)
      [] IsFull(n) ->
             LET r == delete(n.children[key[1]], Append(path, key[1]), Tail(key), tr, lost)
                 children == [n.children EXCEPT ![key[1]] = r.node]
             IN  IF ~r.dirty \/ r.err THEN Same(n, r)
                 ELSE IF r.node # Nil THEN Changed(NewFull(children), r.tr)
                 ELSE Reduce(children, path, r.tr, lost)
      [] IsValue(n) -> Changed(Nil, tr)
      [] n = Nil    -> Same(Nil, [err |-> FALSE, tr |-> tr])
      [] IsHash(n)  ->
             LET rn == resolveAndTrack(n, path, tr, lost)
                 r  == delete(rn.node, path, key, rn.tr, lost)
             IN  IF rn.err THEN Same(Nil, rn)
                 ELSE IF ~r.dirty \/ r.err THEN Same(rn.node, r) ELSE r

-----------------------------------------------------------------------------
(***************************************************************************)
(* The committer.  A node set holds a hash for every path that is written  *)
(* and Nil for every path that is deleted.                                 *)
(***************************************************************************)
Mark(nodes, path, h) == [p \in DOMAIN nodes \cup {path} |-> IF p = path THEN h ELSE nodes[p]]

markDeletions(tr) == [p \in tr.deletes \cap tr.accessList |-> Nil]

\* store: the nodes of the set with n added, deleted when n is embedded now.
store(n, path, nodes, accessed) ==
    IF n.hash # Nil THEN Mark(nodes, path, n.hash)
    ELSE IF path \in accessed THEN Mark(nodes, path, Nil) ELSE nodes

\* Mutant: the branch below a short node is not committed.
RECURSIVE commitFull(_, _, _, _)
commitFull(n, path, nodes, accessed) ==
    CASE IsShort(n) /\ n.dirty -> store(n, path, nodes, accessed)
      [] IsFull(n) /\ n.dirty ->
             store(n, path, FoldSet(LAMBDA i, ns : commitFull(n.children[i], Append(path, i), ns, accessed),
                                    nodes, Nibble), accessed)
      [] OTHER -> nodes

RECURSIVE commit(_, _, _, _)
commit(n, path, nodes, accessed) ==
    CASE IsShort(n) /\ (n.hash = Nil \/ n.dirty) ->
             store(n, path, IF IsFull(n.val) THEN commit(n.val, path \o n.key, nodes, accessed)
                            ELSE nodes, accessed)
      [] IsFull(n) /\ (n.hash = Nil \/ n.dirty) ->
             store(n, path, FoldSet(LAMBDA i, ns : commit(n.children[i], Append(path, i), ns, accessed),
                                    nodes, Nibble), accessed)
      [] OTHER -> nodes

\* The dirty leaves of the set, with the hash of the node they are in.
RECURSIVE leaves(_)
leaves(n) ==
    CASE IsShort(n) /\ (n.hash = Nil \/ n.dirty) ->
             IF IsValue(n.val) /\ n.hash # Nil THEN {<<n.val.value, n.hash>>} ELSE leaves(n.val)
      [] IsFull(n) /\ (n.hash = Nil \/ n.dirty) -> UNION {leaves(n.children[i]) : i \in Nibble}
      [] OTHER -> {}

-----------------------------------------------------------------------------
\* New: the root node is read at once.
OpenedRoot(h) == IF h = Nil THEN Nil ELSE decodeNode(h, h.of)
OpenedTracer(h) == IF h = Nil THEN newTracer ELSE onRead(newTracer, <<>>)

Init ==
    /\ base \in Content
    /\ disk = Stored(base)
    /\ content = base
    /\ root = OpenedRoot(RootHash(base))
    /\ tracer = OpenedTracer(RootHash(base))
    /\ failed = FALSE
    /\ result = Nil

\* The paths whose read fails, among those an operation on hex can read: the
\* nodes on the way, and next to it when a branch is reduced.  Bound: one
\* failure while the trie is in use.
Losses(hex) ==
    {{}} \cup {{s[1]} : s \in {s \in disk : /\ ~failed
                                                 /\ s[1] # <<>>
                                                 /\ HasPrefix(hex, Front(s[1]))}}

Read(r) ==
    /\ root' = IF r.resolved /\ ~r.err THEN r.node ELSE root
    /\ tracer' = r.tr
    /\ failed' = (failed \/ r.err)
    /\ UNCHANGED <<base, disk, content, result>>

TryGet(k, lost) == result = Nil /\ Read(tryGet(root, <<>>, keybytesToHex(k), tracer, lost))

TryGetNode(path, lost) ==
    result = Nil /\ Read(tryGetNode(root, <<>>, compactToHex(hexToCompact(path)), tracer, lost))

Write(r, k, v) ==
    /\ root' = IF r.err THEN root ELSE r.node
    /\ tracer' = r.tr
    /\ failed' = (failed \/ r.err)
    /\ content' = IF r.err THEN content ELSE [content EXCEPT ![k] = v]
    /\ UNCHANGED <<base, disk, result>>

\* A value of length zero deletes the key, as TryDelete does.
TryUpdate(k, v, lost) ==
    /\ result = Nil
    /\ Write(IF v # NoValue
             THEN insert(root, <<>>, keybytesToHex(k), valueNode(v), tracer, lost)
             ELSE delete(root, <<>>, keybytesToHex(k), tracer, lost), k, v)

Hash ==
    /\ result = Nil
    /\ root # Nil
    /\ root' = hash(root, TRUE).cached
    /\ UNCHANGED <<tracer, base, disk, content, failed, result>>

\* Commit(true); without collectLeaf the set has no leaves.
Commit ==
    LET hashed == hash(root, TRUE)
        marked == markDeletions(tracer)
    IN  /\ result = Nil
        /\ result' = CASE root = Nil -> [hash |-> Nil, nodes |-> marked, leaves |-> {}]
                       [] root # Nil /\ ~hashed.cached.dirty ->
                          [hash |-> hashed.hashed, nodes |-> <<>>, leaves |-> {}]
                       [] OTHER ->
                          [hash   |-> hashed.hashed,
                           nodes  |-> commit(hashed.cached, <<>>, marked, tracer.accessList),
                           leaves |-> leaves(hashed.cached)]
        /\ root' = IF root = Nil THEN Nil ELSE hashed.hashed
        /\ tracer' = newTracer
        /\ UNCHANGED <<base, disk, content, failed>>

\* The set is in the database and the caller opens the new root.
Reopen ==
    /\ result # Nil
    /\ base' = content
    /\ disk' = Stored(content)
    /\ root' = OpenedRoot(result.hash)
    /\ tracer' = OpenedTracer(result.hash)
    /\ failed' = FALSE
    /\ result' = Nil
    /\ UNCHANGED content

-----------------------------------------------------------------------------
\* Prove: the nodes on the way to a key, without tracking what is read.
RECURSIVE PathNodes(_, _, _, _)
PathNodes(n, path, key, lost) ==
    CASE n = Nil \/ key = <<>> -> <<>>
      [] IsShort(n) /\ key # <<>> ->
             <<n>> \o (IF Leads(n, key)
                       THEN PathNodes(n.val, path \o n.key, From(key, Len(n.key)), lost) ELSE <<>>)
      [] IsFull(n) /\ key # <<>> ->
             <<n>> \o PathNodes(n.children[key[1]], Append(path, key[1]), Tail(key), lost)
      [] IsHash(n) /\ key # <<>> ->
             IF Readable(n, path, lost) THEN PathNodes(decodeNode(n, n.of), path, key, lost)
             ELSE <<Nil>>

\* Mutant: a small root is left out.
ProveStored(key, lost) ==
    LET nodes == PathNodes(root, <<>>, keybytesToHex(key), lost)
        hashed(i) == hash([nodes[i] EXCEPT !.hash = Nil], FALSE).hashed
    IN  SelectSeq([i \in 1..Len(nodes) |-> hashed(i)], IsHash)

\* The elements of the proof: what is stored under a hash, and the root.
Prove(key, lost) ==
    LET nodes == PathNodes(root, <<>>, keybytesToHex(key), lost)
        hashed(i) == hash([nodes[i] EXCEPT !.hash = Nil], i = 1).hashed
    IN  SelectSeq([i \in 1..Len(nodes) |-> hashed(i)], IsHash)

\* VerifyProof of go-ethereum: the value at key according to a proof of the root
\* with hash h, or the hash that the proof lacks.
RECURSIVE VerifyProof(_, _, _)
VerifyProof(n, key, proof) ==
    CASE n = Nil \/ IsValue(n) -> n
      [] IsShort(n) -> IF Leads(n, key) THEN VerifyProof(n.val, From(key, Len(n.key)), proof) ELSE Nil
      [] IsFull(n)  -> VerifyProof(n.children[key[1]], Tail(key), proof)
      [] IsHash(n)  -> IF Contains(proof, n) THEN VerifyProof(decodeNode(n, n.of), key, proof) ELSE n

-----------------------------------------------------------------------------
Next ==
    \/ \E k \in Key : \E lost \in Losses(keybytesToHex(k)) : TryGet(k, lost)
    \/ \E s \in Stored(content) : \E lost \in Losses(s[1]) : TryGetNode(s[1], lost)
    \/ \E k \in Key, v \in Value \cup {NoValue} :
           \E lost \in Losses(keybytesToHex(k)) : TryUpdate(k, v, lost)
    \/ Hash
    \/ Commit
    \/ Reopen

Spec == Init /\ [][Next]_vars

-----------------------------------------------------------------------------
\* What a read of k should return.
ValueAt(k) == IF content[k] = NoValue THEN Nil ELSE valueNode(content[k])

\* The trie has a root of one of the node types, the tracer never has a path as
\* inserted and deleted at once, and Commit returns hashes.
TypeOK ==
    /\ root.kind \in {"nil", "short", "full", "hash"}
    /\ tracer.inserts \cap tracer.deletes = {}
    /\ \A p \in tracer.accessList : \E s \in disk : s[1] = p
    /\ base \in Content
    /\ content \in Content
    /\ failed \in BOOLEAN
    /\ result # Nil => \A p \in DOMAIN result.nodes : result.nodes[p].kind \in {"nil", "hash"}

\* The three forms of a key determine each other: for the paths of the nodes on
\* disk, and for a sample of keys in the states with nothing on disk.  The flag
\* byte of an odd key, the terminator of a key without nibbles and the overlap of
\* the two forms in one buffer are where this could fail.
EncodingsInvertible ==
    \A hex \in IF disk # {} THEN {s[1] : s \in disk} ELSE SampleHex : Invertible(hex)

\* TryGet returns the last value written to the key, whatever has been loaded,
\* hashed, split and merged since, and whatever reads have failed.
ReadsAgree ==
    result = Nil =>
        \A k \in Key : LET r == tryGet(root, <<>>, keybytesToHex(k), tracer, {})
                       IN  ~r.err /\ r.item = ValueAt(k)

\* The root hash is a function of the content alone: no cached hash is stale and
\* no history of inserts and deletes leaves another shape behind.
RootHashCanonical ==
    IF result = Nil THEN root # Nil => hash(root, TRUE).hashed = RootHash(content)
                         /\ (root = Nil <=> RootHash(content) = Nil)
    ELSE result.hash = RootHash(content)

\* TryGetNode never returns the blob of another node: what it finds at a path is
\* the node of the present content at this path.
NodesByPath ==
    result = Nil =>
        \A s \in disk \cup Stored(content) :
            LET r == tryGetNode(root, <<>>, s[1], tracer, {})
            IN  ~r.err /\ r.item # Nil => <<s[1], hashNode(r.item)>> \in Stored(content)

\* With the nodes of the set in the database every node of the new trie can be
\* read by its hash, even when operations on the trie have failed.
CommittedReadable ==
    result # Nil =>
        {s[2] : s \in Stored(content)}
            \subseteq {s[2] : s \in disk} \cup {result.nodes[p] : p \in DOMAIN result.nodes}

\* The node set turns the nodes of the old trie, by path, into those of the new
\* one: it writes what has changed, deletes what is gone or embedded now and
\* nothing else, and reports the leaves it writes.
NodeSetReplays ==
    result # Nil /\ ~failed =>
        LET nodes   == result.nodes
            deleted == {p \in DOMAIN nodes : nodes[p] = Nil}
            updated == {<<p, nodes[p]>> : p \in DOMAIN nodes \ deleted}
        IN  /\ deleted \subseteq {s[1] : s \in disk}
            /\ {s \in disk : s[1] \notin DOMAIN nodes} \cup updated = Stored(content)
            /\ result.leaves = {<<u[2].of.val.value, u[2]>> : u \in
                   {u \in updated : IsShort(u[2].of) /\ IsValue(u[2].of.val)}}

\* The proof of a key verifies against the root hash of the content and shows
\* its value, or that it is absent.
ProofsVerify ==
    result = Nil =>
        \A k \in Key : VerifyProof(RootHash(content), keybytesToHex(k), Prove(k, {})) = ValueAt(k)

\* What a trie answers is what its content says: values, nodes and proofs.
AnswersAgree == ReadsAgree /\ NodesByPath /\ ProofsVerify

\* The trie itself is well-formed and of the one shape its content has.
TrieInv == TypeOK /\ RootHashCanonical

\* A commit loses no node, and saves and deletes no other.
CommitsExact == CommittedReadable /\ NodeSetReplays
=============================================================================
