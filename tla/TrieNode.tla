------------------------------ MODULE TrieNode ------------------------------
(***************************************************************************)
(* The nodes of trie_by_cid/trie/node.go and how hasher.go collapses them. *)
(*                                                                         *)
(* The hash of a node stands for its encoding: a hash node carries the     *)
(* collapsed node it is the hash of, so that two hashes are equal exactly  *)
(* when the encodings are.  A collapsed node has no flags, compact keys,   *)
(* and its children are hashes, values or collapsed nodes small enough to  *)
(* be embedded.                                                            *)
(***************************************************************************)
EXTENDS Encoding

CONSTANTS
    Nibble,      \* the nibbles that occur in keys
    Value,       \* values of the leaves
    ValueSize    \* the bytes a value takes in an encoding

ASSUME TrieNodeAssumption ==
    /\ Nibble \subseteq 0..15
    /\ ValueSize \in [Value -> Nat \ {0}]

\* The slots of a full node that a key can reach.
Slot == Nibble \cup {Terminator}

Nil == [kind |-> "nil"]
valueNode(v) == [kind |-> "value", value |-> v]
hashNode(collapsed) == [kind |-> "hash", of |-> collapsed]

\* Short and full nodes carry flags: the cached hash (or Nil) and dirty.
shortNode(key, val, hash, dirty) ==
    [kind |-> "short", key |-> key, val |-> val, hash |-> hash, dirty |-> dirty]
fullNode(children, hash, dirty) ==
    [kind |-> "full", children |-> children, hash |-> hash, dirty |-> dirty]

\* newFlag: no hash, dirty.
NewShort(key, val) == shortNode(key, val, Nil, TRUE)
NewFull(children) == fullNode(children, Nil, TRUE)

IsShort(n) == n.kind = "short"
IsFull(n) == n.kind = "full"
IsHash(n) == n.kind = "hash"
IsValue(n) == n.kind = "value"

cacheHash(n) == IF IsShort(n) \/ IsFull(n) THEN n.hash ELSE Nil
cacheDirty(n) == IF IsShort(n) \/ IsFull(n) THEN n.dirty ELSE TRUE

-----------------------------------------------------------------------------
\* Bytes of the RLP encoding of a collapsed node; lists longer than 55 bytes
\* have a longer header, but they are past the limit anyway.
SlotSeq == SetToSortSeq(Slot, <)

RECURSIVE EncodedSize(_), ChildrenSize(_, _)
ChildrenSize(children, i) ==
    IF i = 0 THEN 0 ELSE ChildrenSize(children, i - 1) + EncodedSize(children[SlotSeq[i]])
EncodedSize(n) ==
    CASE n.kind = "nil"   -> 1
      [] n.kind = "value" -> ValueSize[n.value]
      [] n.kind = "hash"  -> 33
      [] n.kind = "short" -> 1 + Len(n.key) + (IF Len(n.key) > 1 THEN 1 ELSE 0)
                               + EncodedSize(n.val)
      [] n.kind = "full"  -> 1 + (17 - Len(SlotSeq)) + ChildrenSize(n.children, Len(SlotSeq))

\* Nodes smaller than a hash are stored inside their parent.
toHash(collapsed, force) ==
    IF EncodedSize(collapsed) < 32 /\ ~force THEN collapsed ELSE hashNode(collapsed)

\* hasher.hash: the hash of a node, or the collapsed node when it is small, and
\* the node with the hashes computed on the way cached.
RECURSIVE hash(_, _)
hash(n, force) ==
    IF cacheHash(n) # Nil THEN [hashed |-> n.hash, cached |-> n]
    ELSE CASE IsShort(n) ->
             LET child  == hash(n.val, FALSE)
                 hashed == toHash([kind |-> "short", key |-> hexToCompact(n.key),
                                   val  |-> child.hashed], force)
             IN  [hashed |-> hashed,
                  cached |-> [n EXCEPT !.val  = child.cached,
                                       !.hash = IF IsHash(hashed) THEN hashed ELSE Nil]]
           [] IsFull(n) ->
             LET child  == [i \in Slot |-> hash(n.children[i], FALSE)]
                 hashed == toHash([kind |-> "full",
                                   children |-> [i \in Slot |-> child[i].hashed]], force)
             IN  [hashed |-> hashed,
                  cached |-> [n EXCEPT !.children = [i \in Slot |-> child[i].cached],
                                       !.hash = IF IsHash(hashed) THEN hashed ELSE Nil]]
           [] OTHER -> [hashed |-> n, cached |-> n]

\* decodeNode: the node of a blob, clean, with the hash it was asked for.
\* Embedded nodes have no hash.
RECURSIVE decodeNode(_, _)
decodeNode(h, blob) ==
    CASE blob.kind = "short" ->
             shortNode(compactToHex(blob.key), decodeNode(Nil, blob.val), h, FALSE)
      [] blob.kind = "full" ->
             fullNode([i \in Slot |-> decodeNode(Nil, blob.children[i])], h, FALSE)
      [] OTHER -> blob

-----------------------------------------------------------------------------
(***************************************************************************)
(* The reference: the trie of a map from hex keys to values, built from    *)
(* the map alone.                                                          *)
(***************************************************************************)
RECURSIVE Build(_)
Build(map) ==
    LET keys == DOMAIN map
        k    == CHOOSE key \in keys : TRUE
        len  == Min({prefixLen(k, key) : key \in keys})
        Below(pre) ==
            [s \in {From(key, Len(pre)) : key \in {key \in keys : HasPrefix(key, pre)}} |->
                map[pre \o s]]
        branch == NewFull([i \in Slot |-> Build(Below(Append(SubSeq(k, 1, len), i)))])
    IN  CASE keys = {}             -> Nil
          [] keys = {<<>>}         -> valueNode(map[<<>>])
          [] Cardinality(keys) = 1 -> NewShort(k, valueNode(map[k]))
          [] OTHER -> IF len = 0 THEN branch ELSE NewShort(SubSeq(k, 1, len), branch)

\* The nodes of a collapsed node that are stored under hashes of their own, by
\* path.
RECURSIVE StoredAt(_, _)
StoredAt(path, n) ==
    CASE IsHash(n)  -> {<<path, n>>} \cup StoredAt(path, n.of)
      [] IsShort(n) -> StoredAt(path \o compactToHex(n.key), n.val)
      [] IsFull(n)  -> UNION {StoredAt(Append(path, i), n.children[i]) : i \in Slot}
      [] OTHER      -> {}
=============================================================================
