---------------------------- MODULE TrieIterator ----------------------------
(***************************************************************************)
(* The iterators of trie_by_cid/trie/iterator.go over a trie of module     *)
(* Trie: the node iterator, which resumes after a failed read, as a state  *)
(* machine, and the leaf, difference and union iterators as the loops they *)
(* are.  The trie is not written while an iterator is in use.              *)
(***************************************************************************)
EXTENDS Trie

CONSTANT Start    \* the keys iterations start at, as sequences of bytes

VARIABLES
    iter,    \* the nodeIterator, or Nil
    todo,    \* the paths the iteration has still to visit
    on       \* whether the last call of Next returned true

ivars == <<vars, iter, todo, on>>

\* it.err: none, the end of the iteration, a missing node, or the failed seek.
OK == "ok"
End == "end"
Missing == "missing"
Seek == "seek"

newIterator(trie, start) ==
    [trie |-> trie, start |-> start, stack |-> <<>>, path |-> <<>>, err |-> OK]

State(n, h, parent, pathlen) ==
    [node |-> n, hash |-> h, parent |-> parent, index |-> -1, pathlen |-> pathlen]

HashOf(it) == IF it.stack = <<>> THEN Nil ELSE Last(it.stack).hash
Parent(it) == IF it.stack = <<>> THEN Nil ELSE Last(it.stack).parent
Leaf(it) == hasTerm(it.path)
LeafBlob(it) == Last(it.stack).node

\* Back to the first n nodes of the stack.
PopTo(it, n) ==
    IF n = Len(it.stack) THEN it
    ELSE [it EXCEPT !.stack = SubSeq(@, 1, n), !.path = SubSeq(@, 1, it.stack[n + 1].pathlen)]

-----------------------------------------------------------------------------
\* The slots of a full node that are left, and whether a node has children left.
Left(st) == {i \in Slot : i > st.index /\ st.node.children[i] # Nil}
HasNext(st) ==
    CASE IsFull(st.node) -> Left(st) # {} [] IsShort(st.node) -> st.index < 0 [] OTHER -> FALSE

\* nextChild takes the first slot that is left; nextChildAt the last one before
\* the key, if there is one.
nextChild(st) == Min(Left(st))
nextChildAt(st, path, key) ==
    LET before == {i \in Left(st) : Before(Append(path, i), key)}
    IN  IF before # {} THEN Max(before) ELSE nextChild(st)

\* resolve: the state of a hash node is that of the node behind it.
Resolved(it, st, path, lost) ==
    IF ~IsHash(st.node) THEN [it |-> it, state |-> st, path |-> path, err |-> OK]
    ELSE IF Readable(st.node, path, lost)
    THEN [it |-> it, path |-> path, err |-> OK,
          state |-> [st EXCEPT !.node = decodeNode(st.node, st.node.of), !.hash = st.node]]
    ELSE [it |-> it, state |-> st, path |-> path, err |-> Missing]

\* The child n of the innermost node.
Child(it, parent, n, path, lost) ==
    Resolved(it, State(n, cacheHash(n), IF parent.hash # Nil THEN parent.hash ELSE parent.parent,
                       Len(it.path)),
             path, lost)

\* The child in a slot; the index of the parent is set just before it.
SlotChild(it, parent, slot, lost) ==
    Child([it EXCEPT !.stack[Len(it.stack)].index = slot - 1], parent,
          parent.node.children[slot], Append(it.path, slot), lost)

Descended(it, parent, key, lost) ==
    IF IsFull(parent.node) THEN SlotChild(it, parent, nextChildAt(parent, it.path, key), lost)
    ELSE Child(it, parent, parent.node.val, it.path \o parent.node.key, lost)

\* init: the root.
Initial(it, lost) == Resolved(it, State(it.trie, hash(it.trie, TRUE).hashed, Nil, 0), <<>>, lost)

\* A child of the innermost node that has one left, or the end.
Climbed(it, open, key, lost) ==
    IF open = {} THEN [it |-> PopTo(it, 0), state |-> Nil, path |-> <<>>, err |-> End]
    ELSE LET at == PopTo(it, Max(open)) IN Descended(at, Last(at.stack), key, lost)

Continued(it, key, lost) ==
    Climbed(it, {j \in 1..Len(it.stack) : HasNext(it.stack[j])}, key, lost)

\* The state that may be pushed next.  (peek; peekSeek with a key to move
\* towards.  No path is before the empty key.)
Peek(it, drop, key, lost) ==
    IF it.stack = <<>> THEN Initial(it, lost)
    ELSE Continued(IF drop THEN PopTo(it, Len(it.stack) - 1) ELSE it, key, lost)

Push(r) ==
    LET stack == r.it.stack
        n     == Len(stack)
    IN  [r.it EXCEPT !.path  = r.path,
                     !.stack = Append(IF n = 0 THEN stack ELSE [stack EXCEPT ![n].index = @ + 1], r.state)]

RECURSIVE seek(_, _, _)

\* Mutant: a failed seek is not taken up again.
SeekOnOnce(r, key, lost) ==
    IF r.err = OK /\ Before(r.path, key) THEN seek(Push(r), key, lost)
    ELSE [r.it EXCEPT !.err = r.err]

\* peekSeek until the next node is at the key or behind it.
SeekOn(r, key, lost) ==
    CASE r.err = End     -> [r.it EXCEPT !.err = End]
      [] r.err = Missing -> [r.it EXCEPT !.err = Seek]
      [] r.err = OK      -> IF Before(r.path, key) THEN seek(Push(r), key, lost)
                            ELSE [r.it EXCEPT !.err = OK]

seek(it, key, lost) ==
    SeekOn(Peek(it, it.stack # <<>> /\ ~HasPrefix(key, it.path), key, lost), key, lost)

StartHex(start) == Nibbles(keybytesToHex(start))

newNodeIterator(trie, start, lost) ==
    IF trie = Nil THEN [newIterator(Nil, start) EXCEPT !.err = End]
    ELSE seek(newIterator(hash(trie, TRUE).cached, start), StartHex(start), lost)

\* Next: the iterator, and whether it has moved to a node.
Moved(r) ==
    IF r.err = OK THEN [it |-> [Push(r) EXCEPT !.err = OK], ok |-> TRUE]
    ELSE [it |-> [r.it EXCEPT !.err = r.err], ok |-> FALSE]

MovedFrom(sought, descend, lost) ==
    IF sought.err \in {End, Seek} THEN [it |-> sought, ok |-> FALSE]
    ELSE Moved(Peek(sought, ~descend, <<>>, lost))

NextNode(it, descend, lost) ==
    MovedFrom(IF it.err = Seek THEN seek(it, StartHex(it.start), lost) ELSE it, descend, lost)

\* LeafProof: the nodes on the stack that are stored under hashes.
LeafProof(it) ==
    LET n == Len(it.stack) - 1
        hashed(i) == hash([it.stack[i].node EXCEPT !.hash = Nil], i = 1).hashed
    IN  SelectSeq([i \in 1..n |-> hashed(i)], IsHash)

-----------------------------------------------------------------------------
\* Iterator.Next: on to the next leaf.
RECURSIVE NextLeaf(_, _)
LeafFrom(r, lost) == IF ~r.ok \/ Leaf(r.it) THEN r ELSE NextLeaf(r.it, lost)
NextLeaf(it, lost) == LeafFrom(NextNode(it, TRUE, lost), lost)

RECURSIVE LeavesFrom(_, _)
LeavesOn(r, lost) ==
    IF r.ok THEN <<<<r.it.path, LeafBlob(r.it)>>>> \o LeavesFrom(r.it, lost) ELSE <<>>
LeavesFrom(it, lost) == LeavesOn(NextLeaf(it, lost), lost)

\* What an iterator shows of the node it is at.
Position(it) == [path |-> it.path, hash |-> HashOf(it), leaf |-> IF Leaf(it) THEN LeafBlob(it) ELSE Nil]

\* compareNodes; tie is the order of two hashes, or two values, that differ
\* (Bound: the same one for all the nodes of a walk).
compareNodes(a, b, tie) ==
    CASE Before(a.path, b.path)      -> -1
      [] Before(b.path, a.path)      -> 1
      [] a.path = b.path /\ HashOf(a) # HashOf(b) ->
             IF HashOf(a) = Nil THEN -1 ELSE IF HashOf(b) = Nil THEN 1 ELSE tie
      [] OTHER -> IF Leaf(a) /\ LeafBlob(a) # LeafBlob(b) THEN tie ELSE 0

\* Mutant: a subtree that both have is skipped if it has no hash.
HasNoHash(it) == HashOf(it) # Nil

\* Whether to go on below a node that both iterators are at: a subtree with a
\* hash is the same in both.
Embedded(it) == HashOf(it) = Nil

\* differenceIterator.Next after b has moved: on until b is at a node that is
\* not in a.
RECURSIVE Settle(_, _, _)
AfterA(na, b, tie) ==
    IF na.ok THEN Settle(na.it, b, tie)
    ELSE [a |-> na.it, b |-> b, eof |-> TRUE, ok |-> TRUE]
AfterB(a, nb, tie) ==
    IF nb.ok THEN AfterA(NextNode(a, Embedded(a), {}), nb.it, tie)
    ELSE [a |-> a, b |-> nb.it, eof |-> FALSE, ok |-> FALSE]
Settle(a, b, tie) ==
    LET order == compareNodes(a, b, tie)
    IN  CASE order = 1  -> [a |-> a, b |-> b, eof |-> FALSE, ok |-> TRUE]
          [] order = -1 -> AfterA(NextNode(a, TRUE, {}), b, tie)
          [] order = 0  -> AfterB(a, NextNode(b, Embedded(a), {}), tie)

RECURSIVE Difference(_, _, _, _)
DifferenceOn(r, tie) ==
    IF ~r.ok THEN <<>> ELSE <<Position(r.b)>> \o Difference(r.a, r.b, r.eof, tie)
DifferenceFrom(a, nb, eof, tie) ==
    IF ~nb.ok THEN <<>>
    ELSE DifferenceOn(IF eof THEN [a |-> a, b |-> nb.it, eof |-> TRUE, ok |-> TRUE]
                      ELSE Settle(a, nb.it, tie), tie)
Difference(a, b, eof, tie) == DifferenceFrom(a, NextNode(b, TRUE, {}), eof, tie)

\* unionIterator.Next over two iterators; the one that is out of nodes is at its
\* end.  Nodes at which both are count once, and the one that is skipped does
\* not go into a subtree with a hash.
UnionStep(a, b, order, tie) ==
    LET Next1(it, descend) == NextNode(it, descend, {}).it
    IN  CASE order = -1 -> <<Next1(a, TRUE), b>>
          [] order = 1  -> <<a, Next1(b, TRUE)>>
          [] order = 0  -> IF tie = -1 THEN <<Next1(a, TRUE), Next1(b, Embedded(b))>>
                           ELSE <<Next1(a, Embedded(a)), Next1(b, TRUE)>>

UnionNext(a, b, tie) ==
    UnionStep(a, b, IF a.err = End THEN 1 ELSE IF b.err = End THEN -1 ELSE compareNodes(a, b, tie), tie)

RECURSIVE Union(_, _, _)
UnionFrom(a, b, tie) ==
    LET first == b.err = End \/ (a.err # End /\ compareNodes(a, b, tie) <= 0)
    IN  IF a.err = End /\ b.err = End THEN <<>>
        ELSE <<Position(IF first THEN a ELSE b)>> \o Union(a, b, tie)
Union(a, b, tie) == LET n == UnionNext(a, b, tie) IN UnionFrom(n[1], n[2], tie)

-----------------------------------------------------------------------------
\* The nodes of the reference trie, as an iterator shows them, and their paths.
RECURSIVE NodesBelow(_, _, _)
NodesBelow(path, n, force) ==
    LET h  == hash(n, force).hashed
        at == {[path |-> path, hash |-> IF IsHash(h) THEN h ELSE Nil,
                leaf |-> IF IsValue(n) THEN n ELSE Nil]}
    IN  CASE n = Nil    -> {}
          [] IsShort(n) -> at \cup NodesBelow(path \o n.key, n.val, FALSE)
          [] IsFull(n)  -> at \cup UNION {NodesBelow(Append(path, i), n.children[i], FALSE) : i \in Slot}
          [] OTHER      -> at
NodesOf(c) == NodesBelow(<<>>, Reference(c), TRUE)
PathsOf(c) == {n.path : n \in NodesOf(c)}

IInit == Init /\ iter = Nil /\ todo = {} /\ on = FALSE

TrieStep == iter = Nil /\ Next /\ UNCHANGED <<iter, todo, on>>

\* Bound: iterations start on tries in which one value at most has changed, and
\* one read fails at most.
Quiet ==
    /\ tracer.inserts = {}
    /\ tracer.deletes = {}
    /\ Cardinality({k \in Key : content[k] # base[k]}) <= 1
IterLosses == {{}} \cup {{s[1]} : s \in IF failed THEN {} ELSE disk}

NodeIterator(start, lost) ==
    /\ iter = Nil
    /\ result = Nil
    /\ Quiet
    /\ iter' = newNodeIterator(root, start, lost)
    /\ root' = iter'.trie
    /\ todo' = {p \in PathsOf(content) : ~Before(p, StartHex(start))}
    /\ on' = FALSE
    /\ failed' = (failed \/ iter'.err = Seek)
    /\ UNCHANGED <<tracer, base, disk, content, result>>

\* The caller skips the children of a node only when it is at one.
NodeIteratorNext(descend, lost) ==
    LET r == NextNode(iter, descend, lost)
    IN  /\ iter # Nil
        /\ iter.err # End
        /\ descend \/ on
        /\ iter' = r.it
        /\ on' = r.ok
        /\ todo' = {p \in todo : /\ descend \/ ~HasPrefix(p, iter.path)
                                 /\ ~(r.ok /\ p = r.it.path)}
        /\ failed' = (failed \/ r.it.err \in {Missing, Seek})
        /\ UNCHANGED <<root, tracer, base, disk, content, result>>

\* NodeBlob reads the node the iterator is at, and leaves a failure in it.err.
NodeBlob(lost) ==
    /\ iter # Nil
    /\ on
    /\ HashOf(iter) # Nil
    /\ ~Readable(HashOf(iter), iter.path, lost)
    /\ iter' = [iter EXCEPT !.err = Missing]
    /\ failed' = TRUE
    /\ UNCHANGED <<root, tracer, base, disk, content, result, todo, on>>

Release ==
    /\ iter # Nil
    /\ iter' = Nil
    /\ todo' = {}
    /\ on' = FALSE
    /\ UNCHANGED vars

INext ==
    \/ TrieStep
    \/ \E start \in Start, lost \in IterLosses : NodeIterator(start, lost)
    \/ \E descend \in BOOLEAN, lost \in IterLosses : NodeIteratorNext(descend, lost)
    \/ \E lost \in IterLosses : NodeBlob(lost)
    \/ Release

ISpec == IInit /\ [][INext]_ivars

-----------------------------------------------------------------------------
\* What the iterator shows at a node is what the trie has there: the hash, the
\* hash of the nearest ancestor that has one, the value and its proof.
PositionExact ==
    on =>
        /\ Position(iter) \in NodesOf(content)
        /\ LET above == {n \in NodesOf(content) : n.hash # Nil /\ n.path # iter.path
                                                  /\ HasPrefix(iter.path, n.path)}
           IN  IF above = {} THEN Parent(iter) = Nil
               ELSE \E n \in above : /\ Parent(iter) = n.hash
                                     /\ \A m \in above : Len(m.path) <= Len(n.path)
        /\ Leaf(iter) =>
               /\ LeafBlob(iter) = ValueAt(hexToKeyBytes(iter.path))
               /\ VerifyProof(RootHash(content), iter.path, LeafProof(iter)) = LeafBlob(iter)

\* A call of Next that returns true moves to the first node that is left, and
\* one that ends the iteration leaves none out: also after a failed seek, a
\* failed read and a subtree that was skipped.  At each node the iterator shows
\* what is there.
IteratorExact ==
    /\ []PositionExact
    /\ [][iter # Nil /\ iter' # Nil =>
              /\ on' /\ iter'.path # iter.path => iter'.path \in todo
              /\ on' => \A p \in todo' : Before(iter'.path, p)
              /\ iter'.err = End => todo' = {}]_ivars

Elements(s) == {s[i] : i \in 1..Len(s)}
IsExactly(s, S) == Elements(s) = S /\ Len(s) = Cardinality(S)

\* Bound: whole walks are over tries on which no read has failed.
Walked == iter = Nil /\ result = Nil /\ ~failed

\* The leaf iterator visits the keys from its start key on, in order, with their
\* values.
LeavesExact ==
    Walked =>
        \A start \in Start :
            LET s    == LeavesFrom(newNodeIterator(root, start, {}), {})
                from == {k \in Key : content[k] # NoValue
                                     /\ ~Before(keybytesToHex(k), StartHex(start))}
            IN  /\ IsExactly(s, {<<keybytesToHex(k), ValueAt(k)>> : k \in from})
                /\ \A i \in 2..Len(s) : Before(s[i - 1][1], s[i][1])

\* The difference iterator of the trie on disk and the present one visits the
\* nodes of the present one that the other has not, each once.
DifferenceExact ==
    Walked =>
        \A tie \in {-1, 1} :
            LET a == NextNode(newNodeIterator(OpenedRoot(RootHash(base)), <<>>, {}), TRUE, {}).it
            IN  IsExactly(Difference(a, newNodeIterator(root, <<>>, {}), FALSE, tie),
                          NodesOf(content) \ NodesOf(base))

\* The union iterator visits the nodes of both tries, each once.
UnionExact ==
    Walked =>
        \A tie \in {-1, 1} :
            IsExactly(Union(newNodeIterator(OpenedRoot(RootHash(base)), <<>>, {}),
                            newNodeIterator(root, <<>>, {}), tie),
                      NodesOf(base) \cup NodesOf(content))

\* The iterators that walk over whole tries visit what they promise to.
WalksExact == LeavesExact /\ DifferenceExact /\ UnionExact
=============================================================================
