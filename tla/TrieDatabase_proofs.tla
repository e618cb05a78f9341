------------------------ MODULE TrieDatabase_proofs -------------------------
(***************************************************************************)
(* The node database counts references exactly, keeps one flush list, and  *)
(* implements the store of NodeStore, for every set of nodes and every way *)
(* they refer to each other.                                               *)
(***************************************************************************)
EXTENDS TrieDatabase, SequenceTheorems, FiniteSetTheorems, TLAPS

-----------------------------------------------------------------------------
(* Counting the members of a sequence that are in a set.                   *)

Matching(w, T) == {i \in 1..Len(w) : w[i] \in T}

Count(w, T) == Cardinality(Matching(w, T))

\* Counts are natural numbers.
LEMMA CountFinite ==
    ASSUME NEW U, NEW w \in Seq(U), NEW T
    PROVE  /\ IsFiniteSet(Matching(w, T))
           /\ Count(w, T) \in Nat
           /\ Count(w, T) = 0 <=> Matching(w, T) = {}
<1>1. IsFiniteSet(1..Len(w)) /\ Matching(w, T) \in SUBSET (1..Len(w))
  BY FS_Interval DEF Matching
<1>2. IsFiniteSet(Matching(w, T))
  BY <1>1, FS_Subset
<1> QED BY <1>2, FS_CardinalityType, FS_EmptySet DEF Count

\* A set of numbers and the same set moved up have as many members.
LEMMA Shifted ==
    ASSUME NEW S \in SUBSET Nat, IsFiniteSet(S), NEW n \in Nat
    PROVE  LET T == {i + n : i \in S}
           IN IsFiniteSet(T) /\ Cardinality(T) = Cardinality(S)
<1> DEFINE T == {i + n : i \in S}
           f == [i \in S |-> i + n]
<1>1. f \in [S -> T]
  OBVIOUS
<1>2. \A i, j \in S : f[i] = f[j] => i = j
  OBVIOUS
<1>3. \A t \in T : \E i \in S : f[i] = t
  OBVIOUS
<1> HIDE DEF f
<1>4. f \in Bijection(S, T)
  BY <1>1, <1>2, <1>3 DEF Bijection, Injection, Surjection, IsInjective
<1>5. ExistsBijection(S, T)
  BY <1>4 DEF ExistsBijection
<1> QED BY <1>5, FS_Bijection

\* The count over a sequence, taken from its head.
LEMMA CountTail ==
    ASSUME NEW U, NEW w \in Seq(U), w # <<>>, NEW T
    PROVE  Count(w, T) = Count(Tail(w), T) + (IF Head(w) \in T THEN 1 ELSE 0)
<1> DEFINE v == Tail(w)
           S == {i + 1 : i \in Matching(v, T)}
<1>1. /\ v \in Seq(U) /\ Len(w) = Len(v) + 1 /\ Len(v) \in Nat /\ Head(w) = w[1]
      /\ \A i \in 1..Len(v) : v[i] = w[i + 1]
  OBVIOUS
<1> HIDE DEF v
<1>2. IsFiniteSet(S) /\ Cardinality(S) = Count(v, T)
  <2>1. Matching(v, T) \in SUBSET Nat
    BY DEF Matching
  <2> QED BY <1>1, <2>1, CountFinite, Shifted DEF Count
<1>3. 1 \notin S
  BY DEF Matching
<1>4. Matching(w, T) = IF Head(w) \in T THEN S \cup {1} ELSE S
  <2>1. \A i \in S : i \in 2..Len(w) /\ w[i] \in T
    BY <1>1 DEF Matching
  <2>2. \A i \in 2..Len(w) : w[i] \in T => i \in S
    <3> SUFFICES ASSUME NEW i \in 2..Len(w), w[i] \in T PROVE i \in S
      OBVIOUS
    <3>1. i - 1 \in 1..Len(v) /\ (i - 1) + 1 = i
      BY <1>1
    <3>2. v[i - 1] = w[i]
      BY <1>1, <3>1
    <3> QED BY <3>1, <3>2 DEF Matching
  <2> HIDE DEF S
  <2>3. \A i \in 1..Len(w) : i = 1 \/ i \in 2..Len(w)
    BY <1>1
  <2>4. 1 \in 1..Len(w) /\ \A i \in 2..Len(w) : i \in 1..Len(w)
    BY <1>1
  <2> QED BY <1>1, <2>1, <2>2, <2>3, <2>4 DEF Matching
<1> HIDE DEF S
<1>5. Cardinality(S \cup {1}) = Cardinality(S) + 1
  BY <1>2, <1>3, FS_AddElement
<1>6. Count(v, T) \in Nat
  BY <1>1, CountFinite
<1> QED BY <1>2, <1>4, <1>5, <1>6 DEF Count, v

\* The counts of two sequences add up.
LEMMA CountConcat ==
    ASSUME NEW U, NEW v \in Seq(U), NEW w \in Seq(U), NEW T
    PROVE  Count(v \o w, T) = Count(v, T) + Count(w, T)
<1> DEFINE l == Len(v)
           m == Len(w)
           x == v \o w
           S == {i + l : i \in Matching(w, T)}
<1>1. /\ l \in Nat /\ m \in Nat /\ Len(x) = l + m
      /\ \A i \in 1..(l + m) : x[i] = IF i <= l THEN v[i] ELSE w[i - l]
  OBVIOUS
<1> HIDE DEF l, m, x
<1>2. IsFiniteSet(S) /\ Cardinality(S) = Count(w, T)
  <2>1. Matching(w, T) \in SUBSET Nat
    BY DEF Matching
  <2> QED BY <1>1, <2>1, CountFinite, Shifted DEF Count
<1>3. S \cap Matching(v, T) = {}
  <2> SUFFICES ASSUME NEW i \in Matching(w, T), i + l \in Matching(v, T) PROVE FALSE
    OBVIOUS
  <2> QED BY <1>1 DEF Matching, l
<1>4. Matching(x, T) = S \cup Matching(v, T)
  <2>1. ASSUME NEW i \in Matching(x, T), i <= l PROVE i \in Matching(v, T)
    BY <1>1, <2>1 DEF Matching, l
  <2>2. ASSUME NEW i \in Matching(x, T), i > l PROVE i \in S
    <3>1. i - l \in Matching(w, T)
      BY <1>1, <2>2 DEF Matching, m
    <3>2. (i - l) + l = i
      BY <1>1 DEF Matching
    <3> QED BY <3>1, <3>2
  <2>3. ASSUME NEW i \in Matching(v, T) PROVE i \in Matching(x, T)
    BY <1>1 DEF Matching, l
  <2>4. ASSUME NEW i \in Matching(w, T) PROVE i + l \in Matching(x, T)
    <3>1. i \in 1..m /\ w[i] \in T
      BY DEF Matching, m
    <3>2. i + l \in 1..(l + m) /\ ~(i + l <= l) /\ (i + l) - l = i
      BY <1>1, <3>1
    <3> QED BY <1>1, <3>1, <3>2 DEF Matching
  <2>5. \A i \in Matching(x, T) : i <= l \/ i > l
    BY <1>1 DEF Matching
  <2> QED BY <2>1, <2>2, <2>3, <2>4, <2>5
<1> HIDE DEF S
<1>5. IsFiniteSet(Matching(v, T)) /\ Count(v, T) \in Nat /\ Count(w, T) \in Nat
  BY CountFinite
<1>6. Cardinality(S \cup Matching(v, T)) = Cardinality(S) + Cardinality(Matching(v, T)) - 0
  BY <1>2, <1>3, <1>5, FS_Union, FS_EmptySet
<1> QED BY <1>2, <1>4, <1>5, <1>6 DEF Count, x

-----------------------------------------------------------------------------
(* The nodes below a node.                                                 *)

\* The successors of a node are its children and its storage root.
LEMMA SuccHash ==
    ASSUME NEW h \in Hash
    PROVE  /\ Succ[h] = {Edge[h][i] : i \in 1..Len(Edge[h])} \cup ({StorageRoot[h]} \ {Nil})
           /\ Succ[h] \subseteq Hash
           /\ Edge[h] \in Seq(Hash)
<1>1. Edge[h] \in Seq(Hash) /\ StorageRoot[h] \in Hash \cup {Nil}
  BY TrieDatabaseAssumption
<1>2. Succ[h] = {Edge[h][i] : i \in 1..Len(Edge[h])} \cup ({StorageRoot[h]} \ {Nil})
  BY DEF Succ
<1> QED BY <1>1, <1>2

\* Below is the least set that holds the node and the successors of its members.
LEMMA BelowFacts ==
    ASSUME NEW h \in Hash
    PROVE  /\ h \in Below[h]
           /\ Below[h] \subseteq Hash
           /\ \A n \in Below[h] : Succ[n] \subseteq Below[h]
           /\ \A S \in SUBSET Hash : h \in S /\ (\A n \in S : Succ[n] \subseteq S) => Below[h] \subseteq S
<1>1. Below[h] = {g \in Hash : \A S \in SUBSET Hash :
                     h \in S /\ (\A n \in S : Succ[n] \subseteq S) => g \in S}
  BY DEF Below
<1>2. ASSUME NEW n \in Below[h], NEW g \in Succ[n] PROVE g \in Below[h]
  <2>1. g \in Hash
    BY <1>1, SuccHash
  <2>2. ASSUME NEW S \in SUBSET Hash, h \in S, \A m \in S : Succ[m] \subseteq S PROVE g \in S
    <3>1. n \in S
      BY <1>1, <2>2
    <3> QED BY <2>2, <3>1
  <2> QED BY <1>1, <2>1, <2>2
<1> QED BY <1>1, <1>2

\* A node below another does not refer to it.
LEMMA NoCycle ==
    ASSUME NEW q \in Hash, NEW p \in Below[q]
    PROVE  q \notin Succ[p]
<1>1. p \in Hash
  BY BelowFacts
<1> QED BY <1>1, TrieDatabaseAssumption

-----------------------------------------------------------------------------
(* The references to a node, one by one.                                   *)

Positions(p, c) == {j \in 1..Len(Edge[p]) : Edge[p][j] = c}

\* From inside the nodes in L.
InnerFrom(p, c) == {<<p, i>> : i \in Positions(p, c)}

Inner(L, c) == UNION {InnerFrom(p, c) : p \in L}

\* As external children of the nodes in L.
Outer(L, d, c) == {p \in L : d[p].children[c] # Nil}

\* A node has finitely many edges to a child.
LEMMA InnerFromFinite ==
    ASSUME NEW p \in Hash, NEW c
    PROVE  /\ IsFiniteSet(InnerFrom(p, c))
           /\ Occurs(p, c) \in Nat
           /\ Cardinality(InnerFrom(p, c)) = Occurs(p, c)
           /\ Occurs(p, c) = 0 <=> Positions(p, c) = {}
<1> DEFINE P == Positions(p, c)
           I == InnerFrom(p, c)
           f == [i \in P |-> <<p, i>>]
<1>1. IsFiniteSet(P)
  <2>1. Len(Edge[p]) \in Nat
    BY SuccHash
  <2>2. IsFiniteSet(1..Len(Edge[p]))
    BY <2>1, FS_Interval
  <2>3. P \in SUBSET (1..Len(Edge[p]))
    BY DEF Positions
  <2> QED BY <2>2, <2>3, FS_Subset
<1>2. Occurs(p, c) = Cardinality(P)
  BY DEF Occurs, Positions
<1>3. I = {<<p, i>> : i \in P}
  BY DEF InnerFrom
<1> HIDE DEF P, I
<1>4. f \in [P -> I] /\ (\A i, j \in P : f[i] = f[j] => i = j) /\ \A t \in I : \E i \in P : f[i] = t
  BY <1>3
<1> HIDE DEF f
<1>5. f \in Bijection(P, I)
  BY <1>4 DEF Bijection, Injection, Surjection, IsInjective
<1>6. ExistsBijection(P, I)
  BY <1>5 DEF ExistsBijection
<1> QED BY <1>1, <1>2, <1>6, FS_Bijection, FS_CardinalityType, FS_EmptySet DEF P, I

\* A finite set of nodes has finitely many edges to a child.
LEMMA InnerFinite ==
    ASSUME NEW L \in SUBSET Hash, IsFiniteSet(L), NEW c
    PROVE  /\ IsFiniteSet(Inner(L, c))
           /\ Cardinality(Inner(L, c)) \in Nat
           /\ Cardinality(Inner(L, c)) = 0 <=> Inner(L, c) = {}
<1> DEFINE T == {InnerFrom(p, c) : p \in L}
           f == [p \in L |-> InnerFrom(p, c)]
<1>1. f \in [L -> T] /\ \A t \in T : \E p \in L : f[p] = t
  OBVIOUS
<1>2. \A t \in T : IsFiniteSet(t)
  BY InnerFromFinite
<1> HIDE DEF f, T
<1>3. f \in Surjection(L, T)
  BY <1>1 DEF Surjection
<1>4. IsFiniteSet(T)
  BY <1>3, FS_Surjection
<1>5. IsFiniteSet(UNION T)
  BY <1>2, <1>4, FS_UNION
<1>6. Inner(L, c) = UNION T
  BY DEF Inner, T
<1> QED BY <1>5, <1>6, FS_CardinalityType, FS_EmptySet

\* A new parent adds its edges.
LEMMA InnerAdd ==
    ASSUME NEW L \in SUBSET Hash, IsFiniteSet(L), NEW h \in Hash \ L, NEW c
    PROVE  Cardinality(Inner(L \cup {h}, c)) = Cardinality(Inner(L, c)) + Occurs(h, c)
<1> DEFINE I == Inner(L, c)
           J == InnerFrom(h, c)
<1>1. Inner(L \cup {h}, c) = I \cup J
  BY DEF Inner
<1>2. I \cap J = {}
  <2> SUFFICES ASSUME NEW p \in L, NEW x \in InnerFrom(p, c), x \in InnerFrom(h, c) PROVE FALSE
    BY DEF Inner
  <2>1. x[1] = p /\ x[1] = h
    BY DEF InnerFrom
  <2> QED BY <2>1
<1>3. IsFiniteSet(I) /\ IsFiniteSet(J) /\ Cardinality(I) \in Nat
  BY InnerFinite, InnerFromFinite
<1>4. Cardinality(J) = Occurs(h, c) /\ Occurs(h, c) \in Nat
  BY InnerFromFinite
<1> HIDE DEF I, J
<1>5. Cardinality(I \cup J) = Cardinality(I) + Cardinality(J) - 0
  BY <1>2, <1>3, FS_Union, FS_EmptySet
<1>6. Cardinality(I \cup J) = Cardinality(I) + Occurs(h, c)
  BY <1>3, <1>4, <1>5
<1> QED BY <1>1, <1>6 DEF I

\* A node is an external child of finitely many listed nodes.
LEMMA OuterFinite ==
    ASSUME NEW L, IsFiniteSet(L), NEW d, NEW c
    PROVE  /\ IsFiniteSet(Outer(L, d, c))
           /\ Cardinality(Outer(L, d, c)) \in Nat
           /\ Cardinality(Outer(L, d, c)) = 0 <=> Outer(L, d, c) = {}
<1>1. Outer(L, d, c) \in SUBSET L
  BY DEF Outer
<1>2. IsFiniteSet(Outer(L, d, c))
  BY <1>1, FS_Subset
<1> QED BY <1>2, FS_CardinalityType, FS_EmptySet

\* The calls Pending counts.
Calls(op, c, parents) == {x \in Call : x.op = op /\ x.child = c /\ x.parent \in parents}

\* A caller's references still to be counted, and the references still to be dropped.
RootCalls(c) == Calls("reference", c, {Meta})

DropCalls(c) == Calls("dereference", c, Key)

\* The calls waiting in the work list are counted.
LEMMA PendingCount ==
    ASSUME NEW w \in Seq(Call), NEW op, NEW c, NEW parents
    PROVE  /\ Cardinality({i \in 1..Len(w) :
                  w[i].op = op /\ w[i].child = c /\ w[i].parent \in parents})
              = Count(w, Calls(op, c, parents))
           /\ Count(w, Calls(op, c, parents)) \in Nat
<1>1. {i \in 1..Len(w) : w[i].op = op /\ w[i].child = c /\ w[i].parent \in parents}
          = Matching(w, Calls(op, c, parents))
  <2>1. \A i \in 1..Len(w) : w[i] \in Call
    OBVIOUS
  <2> QED BY <2>1 DEF Matching, Calls
<1> QED BY <1>1, CountFinite DEF Count

-----------------------------------------------------------------------------
(* The inductive invariant.                                                *)

InsertCall(h) == [op |-> "insert", node |-> h]

DeleteCall(h) == [op |-> "delete", node |-> h]

ReferenceCall(c, p) == [op |-> "reference", child |-> c, parent |-> p]

DereferenceCall(c, p) == [op |-> "dereference", child |-> c, parent |-> p]

\* One of the first n calls is x.
Holds(w, x, n) == \E i \in 1..n : w[i] = x

\* A method adds and references, or it takes references away.
OneKind(w) ==
    \/ \A i \in 1..Len(w) : w[i].op \in {"insert", "reference"}
    \/ \A i \in 1..Len(w) : w[i].op \in {"dereference", "delete"}

\* What a call of insert needs is there or comes before it, and the storage of
\* an account is linked after it; a reference is made from a node that is there
\* then, or for a caller that holds it.
Built(w, L, r) ==
    \A i \in 1..Len(w) :
        /\ w[i].op = "insert" =>
              LET h == w[i].node IN
              /\ \A g \in Succ[h] : g \in L \cup Disk \/ Holds(w, InsertCall(g), i - 1)
              /\ StorageRoot[h] # Nil =>
                    \E j \in (i + 1)..Len(w) : w[j] = ReferenceCall(StorageRoot[h], h)
        /\ w[i].op = "reference" =>
              LET p == w[i].parent IN
              IF p = Meta THEN Len(w) = 1 /\ r[w[i].child] # 0
              ELSE /\ w[i].child = StorageRoot[p]
                   /\ p \in L \/ Holds(w, InsertCall(p), i - 1)

\* The node on whose behalf a call of a cascade is made.
Source(x) == IF x.op = "delete" THEN x.node ELSE x.parent

\* A cascade works upwards: what is still to be done belongs to nodes below the
\* ones that are deleted later, and those are still there.
Cascading(w, D) ==
    \A i \in 1..Len(w) :
        /\ w[i].op = "dereference" =>
              LET p == w[i].parent IN
              IF p = Meta THEN Len(w) = 1
              ELSE /\ w[i].child \in Succ[p]
                   /\ \E j \in (i + 1)..Len(w) : w[j] = DeleteCall(p)
        /\ w[i].op = "delete" => w[i].node \in D
        /\ \A j \in (i + 1)..Len(w) :
              w[j].op = "delete" => Source(w[i]) \in Below[w[j].node] /\ w[i] # w[j]

\* External children are storage roots, and those of all accounts are children,
\* will be, or are on disk.
ChildrenAreRoots(D, d) ==
    \A p \in D, c \in Hash : d[p].children[c] # Nil => c = StorageRoot[p]

RootsAreChildren(w, L, d) ==
    \A p \in L :
        StorageRoot[p] # Nil /\ StorageRoot[p] \notin Disk =>
            \/ d[p].children[StorageRoot[p]] # Nil
            \/ Holds(w, ReferenceCall(StorageRoot[p], p), Len(w))

\* What a node or a caller refers to can be read.
Complete(L, r) ==
    /\ \A p \in L : Succ[p] \subseteq L \cup Disk
    /\ \A h \in Hash : r[h] # 0 => h \in L \cup Disk

Present == TypeOK /\ dirties[Meta] # Nil /\ IsFiniteSet(Listed)

IInv ==
    /\ Present
    /\ FlushListLinked
    /\ OneKind(work)
    /\ Built(work, Listed, refs)
    /\ Cascading(work, Dirty)
    /\ ChildrenAreRoots(Dirty, dirties)
    /\ RootsAreChildren(work, Listed, dirties)
    /\ Complete(Listed, refs)
    /\ CountsExact

\* The next call and the ones after it.
LEMMA NextCall ==
    ASSUME work \in Seq(Call), ~Unlocked
    PROVE  /\ Head(work) = work[1] /\ Head(work) \in Call
           /\ Tail(work) \in Seq(Call)
           /\ Len(work) = Len(Tail(work)) + 1 /\ Len(Tail(work)) \in Nat
           /\ \A i \in 1..Len(Tail(work)) : Tail(work)[i] = work[i + 1] /\ i + 1 \in 1..Len(work)
           /\ <<>> \o Tail(work) = Tail(work)
           /\ 1 \in 1..Len(work)
<1>1. work # <<>>
  BY DEF Unlocked
<1>2. Tail(work) \in Seq(Call)
  BY <1>1
<1>3. <<>> \o Tail(work) = Tail(work)
  BY <1>2, ConcatEmptySeq
<1> QED BY <1>1, <1>2, <1>3

\* The fields of a call.
LEMMA CallFields ==
    ASSUME NEW x \in Call
    PROVE  /\ x.op = "insert" => x.node \in Hash /\ x = InsertCall(x.node)
           /\ x.op = "delete" => x.node \in Hash /\ x = DeleteCall(x.node)
           /\ x.op = "reference" =>
                 x.child \in Hash /\ x.parent \in Key /\ x = ReferenceCall(x.child, x.parent)
           /\ x.op = "dereference" =>
                 x.child \in Hash /\ x.parent \in Key /\ x = DereferenceCall(x.child, x.parent)
           /\ x.op \in {"insert", "delete", "reference", "dereference"}
<1>1. CASE x \in [op : {"insert", "delete"}, node : Hash]
  BY <1>1 DEF InsertCall, DeleteCall
<1>2. CASE x \in [op : {"reference", "dereference"}, child : Hash, parent : Key]
  BY <1>2 DEF ReferenceCall, DereferenceCall
<1> QED BY <1>1, <1>2 DEF Call

\* Nothing is condemned while nodes are added, and a node that is condemned is
\* still there.
LEMMA Kinds ==
    ASSUME work \in Seq(Call), OneKind(work), Cascading(work, Dirty)
    PROVE  /\ \A i \in 1..Len(work) : work[i].op \in {"insert", "reference"}
                 => /\ Condemned = {} /\ Listed = Dirty
                    /\ \A j \in 1..Len(work) : work[j].op \in {"insert", "reference"}
           /\ \A i \in 1..Len(work) : work[i].op \in {"dereference", "delete"}
                 => \A j \in 1..Len(work) : work[j].op \in {"dereference", "delete"}
           /\ Unlocked => Condemned = {} /\ Listed = Dirty
           /\ Condemned \subseteq Dirty /\ Listed \subseteq Dirty /\ Dirty \subseteq Hash
           /\ Listed \cup Condemned = Dirty
<1>1. Condemned = {h \in Hash : \E i \in 1..Len(work) : work[i] = DeleteCall(h)}
  BY DEF Condemned, DeleteCall
<1>2. \A h : DeleteCall(h).op = "delete" /\ DeleteCall(h).node = h
  BY DEF DeleteCall
<1>3. Condemned \subseteq Dirty
  BY <1>1, <1>2 DEF Cascading
<1>4. Unlocked => Len(work) = 0
  BY DEF Unlocked
<1> QED BY <1>1, <1>2, <1>3, <1>4 DEF OneKind, Listed, Dirty

-----------------------------------------------------------------------------
(* What is left to be done after a call.                                   *)

\* v is what comes after the first call of w.
After(v, w) ==
    /\ w \in Seq(Call) /\ v \in Seq(Call)
    /\ Len(v) \in Nat /\ Len(w) = Len(v) + 1
    /\ \A i \in 1..Len(v) : v[i] = w[i + 1]

\* Taking a call off keeps the work of one kind ...
LEMMA OneKindPop ==
    ASSUME NEW w, NEW v, After(v, w), OneKind(w)
    PROVE  OneKind(v)
<1>1. \A i \in 1..Len(v) : i + 1 \in 1..Len(w)
  BY DEF After
<1> QED BY <1>1 DEF After, OneKind

\* ... the insertions in order ...
LEMMA BuiltPop ==
    ASSUME NEW w, NEW v, After(v, w), NEW L, NEW M, L \subseteq M, NEW r, Built(w, L, r),
           \A h : w[1] = InsertCall(h) => h \in M
    PROVE  Built(v, M, r)
<1> SUFFICES ASSUME NEW i \in 1..Len(v)
             PROVE  /\ v[i].op = "insert" =>
                          LET h == v[i].node IN
                          /\ \A g \in Succ[h] : g \in M \cup Disk \/ Holds(v, InsertCall(g), i - 1)
                          /\ StorageRoot[h] # Nil =>
                                \E j \in (i + 1)..Len(v) : v[j] = ReferenceCall(StorageRoot[h], h)
                    /\ v[i].op = "reference" =>
                          LET p == v[i].parent IN
                          IF p = Meta THEN Len(v) = 1 /\ r[v[i].child] # 0
                          ELSE /\ v[i].child = StorageRoot[p]
                               /\ p \in M \/ Holds(v, InsertCall(p), i - 1)
  BY DEF Built
<1> DEFINE k == i + 1
<1>1. k \in 1..Len(w) /\ v[i] = w[k] /\ k - 1 = i /\ Len(w) # 1
  BY DEF After
<1>2. ASSUME NEW g, Holds(w, InsertCall(g), k - 1) PROVE g \in M \/ Holds(v, InsertCall(g), i - 1)
  <2>1. PICK j \in 1..i : w[j] = InsertCall(g)
    BY <1>1, <1>2 DEF Holds
  <2>2. CASE j = 1
    BY <2>1, <2>2
  <2>3. CASE j # 1
    <3>1. j - 1 \in 1..(i - 1) /\ j - 1 \in 1..Len(v) /\ (j - 1) + 1 = j
      BY <2>3 DEF After
    <3>2. v[j - 1] = InsertCall(g)
      BY <2>1, <3>1 DEF After
    <3> QED BY <3>1, <3>2 DEF Holds
  <2> QED BY <2>2, <2>3
<1>3. CASE v[i].op = "insert"
  <2> DEFINE h == v[i].node
  <2>1. /\ \A g \in Succ[h] : g \in L \cup Disk \/ Holds(w, InsertCall(g), k - 1)
        /\ StorageRoot[h] # Nil =>
              \E j \in (k + 1)..Len(w) : w[j] = ReferenceCall(StorageRoot[h], h)
    BY <1>1, <1>3 DEF Built
  <2>2. ASSUME NEW j \in (k + 1)..Len(w), w[j] = ReferenceCall(StorageRoot[h], h)
        PROVE  \E m \in (i + 1)..Len(v) : v[m] = ReferenceCall(StorageRoot[h], h)
    <3>1. j - 1 \in (i + 1)..Len(v) /\ j - 1 \in 1..Len(v) /\ (j - 1) + 1 = j
      BY DEF After
    <3>2. v[j - 1] = w[j]
      BY <3>1 DEF After
    <3> QED BY <2>2, <3>1, <3>2
  <2> QED BY <1>2, <1>3, <2>1, <2>2
<1>4. CASE v[i].op = "reference"
  <2> DEFINE p == v[i].parent
  <2>1. IF p = Meta THEN Len(w) = 1 /\ r[w[k].child] # 0
        ELSE w[k].child = StorageRoot[p] /\ (p \in L \/ Holds(w, InsertCall(p), k - 1))
    BY <1>1, <1>4 DEF Built
  <2> QED BY <1>1, <1>2, <1>4, <2>1
<1> QED BY <1>3, <1>4

\* ... and the deletions in order.
LEMMA CascadingPop ==
    ASSUME NEW w, NEW v, After(v, w), NEW D, NEW E, Cascading(w, D),
           \A h \in D : w[1] # DeleteCall(h) => h \in E
    PROVE  Cascading(v, E)
<1> SUFFICES ASSUME NEW i \in 1..Len(v)
             PROVE  /\ v[i].op = "dereference" =>
                          LET p == v[i].parent IN
                          IF p = Meta THEN Len(v) = 1
                          ELSE /\ v[i].child \in Succ[p]
                               /\ \E j \in (i + 1)..Len(v) : v[j] = DeleteCall(p)
                    /\ v[i].op = "delete" => v[i].node \in E
                    /\ \A j \in (i + 1)..Len(v) :
                          v[j].op = "delete" => Source(v[i]) \in Below[v[j].node] /\ v[i] # v[j]
  BY DEF Cascading
<1> DEFINE k == i + 1
<1>1. k \in 1..Len(w) /\ v[i] = w[k] /\ v[i] \in Call /\ Len(w) # 1 /\ 1 \in 1..Len(w) /\ k \in (1 + 1)..Len(w)
  BY DEF After
<1>2. /\ w[k].op = "dereference" =>
            LET p == w[k].parent IN
            IF p = Meta THEN Len(w) = 1
            ELSE w[k].child \in Succ[p] /\ \E j \in (k + 1)..Len(w) : w[j] = DeleteCall(p)
      /\ w[k].op = "delete" => w[k].node \in D
      /\ \A j \in (k + 1)..Len(w) :
            w[j].op = "delete" => Source(w[k]) \in Below[w[j].node] /\ w[k] # w[j]
  BY <1>1 DEF Cascading
<1>3. ASSUME NEW j \in (k + 1)..Len(w) PROVE j - 1 \in (i + 1)..Len(v) /\ v[j - 1] = w[j]
  <2>1. j - 1 \in (i + 1)..Len(v) /\ j - 1 \in 1..Len(v) /\ (j - 1) + 1 = j
    BY DEF After
  <2> QED BY <2>1 DEF After
<1>4. ASSUME NEW j \in (i + 1)..Len(v) PROVE j + 1 \in (k + 1)..Len(w) /\ v[j] = w[j + 1]
  BY DEF After
<1>5. v[i].op = "delete" => v[i].node \in E
  <2> SUFFICES ASSUME v[i].op = "delete" PROVE v[i].node \in E
    OBVIOUS
  <2>1. w[1] # w[k]
    BY <1>1 DEF Cascading
  <2>2. v[i] = DeleteCall(v[i].node)
    BY <1>1, CallFields
  <2> QED BY <1>1, <1>2, <2>1, <2>2
<1>6. v[i].op = "dereference" =>
         LET p == v[i].parent IN
         IF p = Meta THEN Len(v) = 1
         ELSE v[i].child \in Succ[p] /\ \E j \in (i + 1)..Len(v) : v[j] = DeleteCall(p)
  BY <1>1, <1>2, <1>3
<1>7. \A j \in (i + 1)..Len(v) :
         v[j].op = "delete" => Source(v[i]) \in Below[v[j].node] /\ v[i] # v[j]
  BY <1>1, <1>2, <1>4
<1> QED BY <1>5, <1>6, <1>7

\* x is what is left after dereference has taken its last parent from c: the
\* children s of c, c itself, and what came after the call in w.
Cascades(x, w, s, c) ==
    /\ x \in Seq(Call) /\ w \in Seq(Call) /\ s \in Seq(Hash) /\ c \in Hash
    /\ Len(w) \in Nat \ {0} /\ Len(s) \in Nat /\ Len(x) = Len(s) + Len(w)
    /\ \A i \in 1..Len(s) : x[i] = DereferenceCall(s[i], c)
    /\ x[Len(s) + 1] = DeleteCall(c)
    /\ \A i \in 2..Len(w) : x[Len(s) + i] = w[i]

\* A cascade pushes dereferences and deletions only ...
LEMMA OneKindPush ==
    ASSUME NEW x, NEW w, NEW s, NEW c, Cascades(x, w, s, c),
           \A i \in 1..Len(w) : w[i].op \in {"dereference", "delete"}
    PROVE  \A i \in 1..Len(x) : x[i].op \in {"dereference", "delete"}
<1> SUFFICES ASSUME NEW i \in 1..Len(x) PROVE x[i].op \in {"dereference", "delete"}
  OBVIOUS
<1>0. Len(s) \in Nat
  BY DEF Cascades
<1>1. CASE i \in 1..(Len(s) + 1)
  <2>1. CASE i \in 1..Len(s)
    <3>1. x[i] = DereferenceCall(s[i], c)
      BY <2>1 DEF Cascades
    <3> QED BY <3>1 DEF DereferenceCall
  <2>2. CASE i = Len(s) + 1
    <3>1. x[i] = DeleteCall(c)
      BY <2>2 DEF Cascades
    <3> QED BY <3>1 DEF DeleteCall
  <2> QED BY <1>0, <1>1, <2>1, <2>2
<1>2. CASE i \notin 1..(Len(s) + 1)
  <2> DEFINE k == i - Len(s)
  <2>1. k \in 2..Len(w) /\ k \in 1..Len(w) /\ Len(s) + k = i
    BY <1>2 DEF Cascades
  <2> HIDE DEF k
  <2>2. x[i] = w[k]
    BY <2>1 DEF Cascades
  <2> QED BY <2>1, <2>2
<1> QED BY <1>1, <1>2

\* ... and keeps the deletions in order.
LEMMA CascadingPush ==
    ASSUME NEW x, NEW w, NEW s, NEW c, NEW p, Cascades(x, w, s, c), w[1] = DereferenceCall(c, p),
           \A i \in 1..Len(s) : s[i] \in Succ[c], NEW D, Cascading(w, D), c \in D
    PROVE  Cascading(x, D)
<1> DEFINE n == Len(s)
<1>0. /\ n \in Nat /\ Len(w) \in Nat \ {0} /\ Len(x) = n + Len(w) /\ 1 \in 1..Len(w)
      /\ c \in Hash /\ c # Meta /\ c \in Below[c]
  BY BelowFacts, TrieDatabaseAssumption DEF Cascades
<1>1. ASSUME NEW i \in 1..(n + 1)
      PROVE  /\ Source(x[i]) = c
             /\ x[i].op = "dereference" => x[i].parent = c /\ x[i].child \in Succ[c] /\ i # n + 1
             /\ x[i].op = "delete" => x[i] = DeleteCall(c) /\ x[i].node = c /\ i = n + 1
  <2>1. CASE i \in 1..n
    <3>1. x[i] = DereferenceCall(s[i], c) /\ s[i] \in Succ[c] /\ i # n + 1
      BY <1>0, <2>1 DEF Cascades
    <3> QED BY <3>1 DEF DereferenceCall, Source
  <2>2. CASE i = n + 1
    <3>1. x[i] = DeleteCall(c)
      BY <2>2 DEF Cascades
    <3> QED BY <2>2, <3>1 DEF DeleteCall, Source
  <2> QED BY <1>0, <2>1, <2>2
<1>2. ASSUME NEW i \in 1..Len(x), i \notin 1..(n + 1)
      PROVE  /\ i - n \in 2..Len(w) /\ i - n \in 1..Len(w) /\ x[i] = w[i - n] /\ n + (i - n) = i
             /\ i - n \in (1 + 1)..Len(w)
  <2>1. i - n \in 2..Len(w) /\ i - n \in 1..Len(w) /\ n + (i - n) = i /\ i - n \in (1 + 1)..Len(w)
    BY <1>0, <1>2
  <2>2. x[n + (i - n)] = w[i - n]
    BY <2>1 DEF Cascades
  <2> QED BY <2>1, <2>2
<1>3. Source(w[1]) = p /\ w[1].op = "dereference" /\ w[1].parent = p /\ w[1].child = c
  BY DEF Source, DereferenceCall
\* What is deleted later is above c.
<1>4. ASSUME NEW j \in 2..Len(w), w[j].op = "delete"
      PROVE  c \in Below[w[j].node] /\ w[j] # DeleteCall(c)
  <2> DEFINE q == w[j].node
  <2>1. j \in (1 + 1)..Len(w) /\ w[j] \in Call /\ Len(w) # 1
    BY <1>0 DEF Cascades
  <2>2. p \in Below[q]
    BY <1>0, <1>3, <1>4, <2>1 DEF Cascading
  <2>3. p # Meta /\ c \in Succ[p]
    BY <1>0, <1>3, <2>1 DEF Cascading
  <2>4. q \in Hash
    BY <1>4, <2>1, CallFields
  <2>5. c \in Below[q]
    BY <2>2, <2>3, <2>4, BelowFacts
  <2>6. c # q
    BY <2>2, <2>3, <2>4, NoCycle
  <2> QED BY <2>5, <2>6 DEF DeleteCall
<1>5. ASSUME NEW i \in 1..Len(x)
      PROVE  /\ x[i].op = "dereference" =>
                   LET r == x[i].parent IN
                   IF r = Meta THEN Len(x) = 1
                   ELSE /\ x[i].child \in Succ[r]
                        /\ \E j \in (i + 1)..Len(x) : x[j] = DeleteCall(r)
             /\ x[i].op = "delete" => x[i].node \in D
             /\ \A j \in (i + 1)..Len(x) :
                   x[j].op = "delete" => Source(x[i]) \in Below[x[j].node] /\ x[i] # x[j]
  <2>1. CASE i \in 1..(n + 1)
    <3>1. ASSUME x[i].op = "dereference"
          PROVE  x[i].parent = c /\ x[i].child \in Succ[c] /\ n + 1 \in (i + 1)..Len(x)
                 /\ x[n + 1] = DeleteCall(c)
      BY <1>0, <1>1, <2>1, <3>1 DEF Cascades
    <3>2. x[i].op = "delete" => x[i].node \in D
      BY <1>1, <2>1
    <3>3. ASSUME NEW j \in (i + 1)..Len(x), x[j].op = "delete"
          PROVE  Source(x[i]) \in Below[x[j].node] /\ x[i] # x[j]
      <4>1. CASE j \in 1..(n + 1)
        <5>1. x[j] = DeleteCall(c) /\ x[j].node = c /\ j = n + 1
          BY <1>1, <3>3, <4>1
        <5>2. i # n + 1 /\ Source(x[i]) = c
          BY <1>0, <1>1, <2>1, <5>1
        <5>3. x[i].op # "delete"
          BY <1>1, <2>1, <5>2
        <5> QED BY <1>0, <3>3, <5>1, <5>2, <5>3
      <4>2. CASE j \notin 1..(n + 1)
        <5>1. j \in 1..Len(x)
          BY <1>0
        <5>2. j - n \in 2..Len(w) /\ x[j] = w[j - n]
          BY <1>2, <4>2, <5>1
        <5>3. c \in Below[x[j].node] /\ x[j] # DeleteCall(c)
          BY <1>4, <3>3, <5>2
        <5>4. x[i] # x[j]
          BY <1>1, <2>1, <3>3, <5>3
        <5> QED BY <1>1, <2>1, <5>3, <5>4
      <4> QED BY <4>1, <4>2
    <3> QED BY <1>0, <3>1, <3>2, <3>3
  <2>2. CASE i \notin 1..(n + 1)
    <3> DEFINE k == i - n
    <3>1. k \in 1..Len(w) /\ x[i] = w[k] /\ k \in 2..Len(w)
      BY <1>2, <2>2
    <3>2. ASSUME NEW j \in (i + 1)..Len(x) PROVE j - n \in (k + 1)..Len(w) /\ x[j] = w[j - n]
      <4>1. j \in 1..Len(x) /\ j \notin 1..(n + 1)
        BY <1>0, <2>2
      <4>2. j - n \in (k + 1)..Len(w)
        BY <1>0
      <4> QED BY <1>2, <4>1, <4>2
    <3>3. ASSUME NEW m \in (k + 1)..Len(w) PROVE n + m \in (i + 1)..Len(x) /\ x[n + m] = w[m]
      <4>1. n + m \in (i + 1)..Len(x) /\ m \in 2..Len(w)
        BY <1>0, <3>1
      <4> QED BY <4>1 DEF Cascades
    <3> HIDE DEF k
    <3>4. /\ w[k].op = "dereference" =>
                LET r == w[k].parent IN
                IF r = Meta THEN Len(w) = 1
                ELSE w[k].child \in Succ[r] /\ \E j \in (k + 1)..Len(w) : w[j] = DeleteCall(r)
          /\ w[k].op = "delete" => w[k].node \in D
          /\ \A j \in (k + 1)..Len(w) :
                w[j].op = "delete" => Source(w[k]) \in Below[w[j].node] /\ w[k] # w[j]
      BY <3>1 DEF Cascading
    <3>5. Len(w) # 1
      BY <1>0, <3>1
    <3>6. x[i].op = "delete" => x[i].node \in D
      BY <3>1, <3>4
    <3>7. ASSUME x[i].op = "dereference"
          PROVE  /\ x[i].parent # Meta /\ x[i].child \in Succ[x[i].parent]
                 /\ \E j \in (i + 1)..Len(x) : x[j] = DeleteCall(x[i].parent)
      <4>1. PICK m \in (k + 1)..Len(w) : w[m] = DeleteCall(w[k].parent)
        BY <3>1, <3>4, <3>5, <3>7
      <4>2. n + m \in (i + 1)..Len(x) /\ x[n + m] = DeleteCall(x[i].parent)
        BY <3>1, <3>3, <4>1
      <4>3. x[i].parent # Meta /\ x[i].child \in Succ[x[i].parent]
        BY <3>1, <3>4, <3>5, <3>7
      <4> QED BY <4>2, <4>3
    <3>8. ASSUME NEW j \in (i + 1)..Len(x), x[j].op = "delete"
          PROVE  Source(x[i]) \in Below[x[j].node] /\ x[i] # x[j]
      BY <3>1, <3>2, <3>4, <3>8
    <3> QED BY <3>6, <3>7, <3>8
  <2> QED BY <2>1, <2>2
<1> QED BY <1>5 DEF Cascading

-----------------------------------------------------------------------------
(* The flush list.                                                         *)

\* The nodes in L form one list from o to n.
Linked(L, d, o, n) ==
    IF L = {} THEN o = Meta
    ELSE /\ o \in L /\ n \in L
         /\ d[n].flushNext = Meta
         /\ \A h \in L \ {n} : d[h].flushNext \in L \ {o} /\ d[d[h].flushNext].flushPrev = h
         /\ \A h \in L \ {o} : d[h].flushPrev \in L \ {n} /\ d[d[h].flushPrev].flushNext = h
         /\ \A S \in SUBSET L : o \in S /\ (\A h \in S \ {n} : d[h].flushNext \in S) => S = L

\* FlushListLinked is about the listed nodes, now ...
LEMMA LinkedNow == FlushListLinked <=> Linked(Listed, dirties, oldest, newest)
  BY DEF FlushListLinked, Linked

\* ... and after a step.
LEMMA LinkedNext == FlushListLinked' <=> Linked(Listed', dirties', oldest', newest')
  BY DEF FlushListLinked, Linked

\* Nodes that keep their neighbours stay a list.
LEMMA LinkedSame ==
    ASSUME NEW L, NEW d, NEW e, NEW o, NEW n, Linked(L, d, o, n),
           \A h \in L : e[h].flushNext = d[h].flushNext /\ e[h].flushPrev = d[h].flushPrev
    PROVE  Linked(L, e, o, n)
<1>1. CASE L = {}
  BY <1>1 DEF Linked
<1>2. CASE L # {}
  <2>1. /\ o \in L /\ n \in L /\ d[n].flushNext = Meta
        /\ \A h \in L \ {n} : d[h].flushNext \in L \ {o} /\ d[d[h].flushNext].flushPrev = h
        /\ \A h \in L \ {o} : d[h].flushPrev \in L \ {n} /\ d[d[h].flushPrev].flushNext = h
        /\ \A S \in SUBSET L : o \in S /\ (\A h \in S \ {n} : d[h].flushNext \in S) => S = L
    BY <1>2 DEF Linked
  <2>2. ASSUME NEW S \in SUBSET L, o \in S, \A h \in S \ {n} : e[h].flushNext \in S PROVE S = L
    <3>1. \A h \in S \ {n} : d[h].flushNext \in S
      BY <2>2
    <3> QED BY <2>1, <2>2, <3>1
  <2>3. /\ e[n].flushNext = Meta
        /\ \A h \in L \ {n} : e[h].flushNext \in L \ {o} /\ e[e[h].flushNext].flushPrev = h
        /\ \A h \in L \ {o} : e[h].flushPrev \in L \ {n} /\ e[e[h].flushPrev].flushNext = h
    BY <2>1
  <2> QED BY <1>2, <2>1, <2>2, <2>3 DEF Linked
<1> QED BY <1>1, <1>2

\* The list of L with h behind its tail n is the list of M.
Appends(L, d, e, o, n, h, M, q) ==
    /\ h \notin L /\ Meta \notin L /\ M = L \cup {h}
    /\ e[h].flushNext = Meta /\ e[h].flushPrev = n
    /\ \A g \in L : e[g].flushPrev = d[g].flushPrev
    /\ \A g \in L : g # n => e[g].flushNext = d[g].flushNext
    /\ L # {} => e[n].flushNext = h
    /\ o = Meta => q = h
    /\ o # Meta => q = o

\* A node appended at the newest end leaves a list.
LEMMA LinkedAppend ==
    ASSUME NEW L, NEW d, NEW e, NEW o, NEW n, Linked(L, d, o, n), NEW h, NEW M, NEW q,
           Appends(L, d, e, o, n, h, M, q)
    PROVE  Linked(M, e, q, h)
<1> USE DEF Appends
<1>1. CASE L = {}
  <2>1. \A S \in SUBSET M : h \in S => S = M
    BY <1>1
  <2>2. o = Meta
    BY <1>1 DEF Linked
  <2>3. M = {h}
    BY <1>1
  <2> QED BY <2>1, <2>2, <2>3 DEF Linked
<1>2. CASE L # {}
  <2>1. /\ o \in L /\ n \in L /\ d[n].flushNext = Meta
        /\ \A g \in L \ {n} : d[g].flushNext \in L \ {o} /\ d[d[g].flushNext].flushPrev = g
        /\ \A g \in L \ {o} : d[g].flushPrev \in L \ {n} /\ d[d[g].flushPrev].flushNext = g
        /\ \A S \in SUBSET L : o \in S /\ (\A g \in S \ {n} : d[g].flushNext \in S) => S = L
    BY <1>2 DEF Linked
  <2>2. ASSUME NEW S \in SUBSET M, o \in S, \A g \in S \ {h} : e[g].flushNext \in S PROVE S = M
    <3>1. S \ {h} \in SUBSET L /\ o \in S \ {h}
      BY <2>1, <2>2
    <3>2. \A g \in (S \ {h}) \ {n} : d[g].flushNext \in S \ {h}
      BY <2>1, <2>2, <3>1
    <3>3. S \ {h} = L
      BY <2>1, <3>1, <3>2
    <3>4. h \in S
      BY <1>2, <2>1, <2>2, <3>3
    <3> QED BY <3>3, <3>4
  <2>3. o # Meta
    BY <2>1
  <2>4. \A g \in M \ {h} : e[g].flushNext \in M \ {o} /\ e[e[g].flushNext].flushPrev = g
    <3> SUFFICES ASSUME NEW g \in L PROVE e[g].flushNext \in M \ {o} /\ e[e[g].flushNext].flushPrev = g
      OBVIOUS
    <3>1. CASE g = n
      BY <1>2, <2>1, <3>1
    <3>2. CASE g # n
      BY <2>1, <3>2
    <3> QED BY <3>1, <3>2
  <2>5. \A g \in M \ {o} : e[g].flushPrev \in M \ {h} /\ e[e[g].flushPrev].flushNext = g
    <3>1. e[h].flushPrev \in M \ {h} /\ e[e[h].flushPrev].flushNext = h
      BY <1>2, <2>1
    <3>2. ASSUME NEW g \in L \ {o} PROVE e[g].flushPrev \in M \ {h} /\ e[e[g].flushPrev].flushNext = g
      BY <2>1
    <3> QED BY <3>1, <3>2
  <2> QED BY <2>1, <2>2, <2>3, <2>4, <2>5 DEF Linked
<1> QED BY <1>1, <1>2

\* The neighbours of a listed node are listed.
LEMMA LinkedNeighbours ==
    ASSUME NEW L, NEW d, NEW o, NEW n, Linked(L, d, o, n), NEW c \in L
    PROVE  /\ o \in L /\ n \in L
           /\ c = n => d[c].flushNext = Meta
           /\ c # n => d[c].flushNext \in L \ {o} /\ d[c].flushNext # c
           /\ c # o => d[c].flushPrev \in L \ {n} /\ d[c].flushPrev # c
<1>1. /\ o \in L /\ n \in L /\ d[n].flushNext = Meta
      /\ \A h \in L \ {n} : d[h].flushNext \in L \ {o} /\ d[d[h].flushNext].flushPrev = h
      /\ \A h \in L \ {o} : d[h].flushPrev \in L \ {n} /\ d[d[h].flushPrev].flushNext = h
      /\ \A S \in SUBSET L : o \in S /\ (\A h \in S \ {n} : d[h].flushNext \in S) => S = L
  BY DEF Linked
\* Otherwise the list would never get to c.
<1>2. ASSUME c # o, c # n PROVE d[c].flushNext # c
  <2> SUFFICES ASSUME d[c].flushNext = c PROVE FALSE
    OBVIOUS
  <2>1. L \ {c} \in SUBSET L /\ o \in L \ {c}
    BY <1>1, <1>2
  <2>2. \A h \in (L \ {c}) \ {n} : d[h].flushNext \in L \ {c}
    BY <1>1, <1>2
  <2>3. L \ {c} = L
    BY <1>1, <2>1, <2>2
  <2> QED BY <2>3
<1>3. c # n => d[c].flushNext # c
  BY <1>1, <1>2
<1>4. c # o => d[c].flushPrev # c
  <2> SUFFICES ASSUME c # o, d[c].flushPrev = c PROVE FALSE
    OBVIOUS
  <2>1. d[c].flushNext = c /\ c # n
    BY <1>1
  <2> QED BY <1>3, <2>1
<1> QED BY <1>1, <1>3, <1>4

\* Removing the oldest node leaves a list ...
LEMMA LinkedRemoveHead ==
    ASSUME NEW L, NEW d, NEW e, NEW n, NEW c \in L, Linked(L, d, c, n), Meta \notin L,
           \A h \in L : e[h].flushNext = d[h].flushNext,
           \A h \in L : h # d[c].flushNext => e[h].flushPrev = d[h].flushPrev
    PROVE  Linked(L \ {c}, e, d[c].flushNext, n)
<1> DEFINE M == L \ {c}
           y == d[c].flushNext
<1>1. /\ n \in L /\ d[n].flushNext = Meta
      /\ \A h \in L \ {n} : d[h].flushNext \in L \ {c} /\ d[d[h].flushNext].flushPrev = h
      /\ \A h \in L \ {c} : d[h].flushPrev \in L \ {n} /\ d[d[h].flushPrev].flushNext = h
      /\ \A S \in SUBSET L : c \in S /\ (\A h \in S \ {n} : d[h].flushNext \in S) => S = L
  BY DEF Linked
<1>2. CASE c = n
  <2>1. {c} = L
    <3>1. {c} \in SUBSET L /\ \A h \in {c} \ {n} : d[h].flushNext \in {c}
      BY <1>2
    <3> QED BY <1>1, <3>1
  <2>2. M = {} /\ y = Meta
    BY <1>1, <1>2, <2>1
  <2> QED BY <2>2 DEF Linked
<1>3. CASE c # n
  <2>1. y \in M /\ n \in M /\ d[y].flushPrev = c
    BY <1>1, <1>3
  <2>2. \A h \in M \ {n} : e[h].flushNext \in M \ {y} /\ e[e[h].flushNext].flushPrev = h
    <3> SUFFICES ASSUME NEW h \in M \ {n} PROVE e[h].flushNext \in M \ {y} /\ e[e[h].flushNext].flushPrev = h
      OBVIOUS
    <3>1. d[h].flushNext \in M /\ d[d[h].flushNext].flushPrev = h /\ h # c
      BY <1>1
    <3>2. d[h].flushNext # y
      BY <2>1, <3>1
    <3> QED BY <3>1, <3>2
  <2>3. \A h \in M \ {y} : e[h].flushPrev \in M \ {n} /\ e[e[h].flushPrev].flushNext = h
    <3> SUFFICES ASSUME NEW h \in M \ {y} PROVE e[h].flushPrev \in M \ {n} /\ e[e[h].flushPrev].flushNext = h
      OBVIOUS
    <3>1. d[h].flushPrev \in L \ {n} /\ d[d[h].flushPrev].flushNext = h
      BY <1>1
    <3>2. d[h].flushPrev # c
      BY <3>1
    <3> QED BY <3>1, <3>2
  <2>4. ASSUME NEW S \in SUBSET M, y \in S, \A h \in S \ {n} : e[h].flushNext \in S PROVE S = M
    <3>1. S \cup {c} \in SUBSET L /\ \A h \in (S \cup {c}) \ {n} : d[h].flushNext \in S \cup {c}
      BY <2>4
    <3>2. S \cup {c} = L
      BY <1>1, <3>1
    <3> QED BY <3>2
  <2>5. e[n].flushNext = Meta
    BY <1>1
  <2> QED BY <2>1, <2>2, <2>3, <2>4, <2>5 DEF Linked
<1> QED BY <1>2, <1>3

\* ... so does removing the newest ...
LEMMA LinkedRemoveTail ==
    ASSUME NEW L, NEW d, NEW e, NEW o, NEW c \in L \ {o}, Linked(L, d, o, c), Meta \notin L,
           \A h \in L : e[h].flushPrev = d[h].flushPrev,
           \A h \in L : h # d[c].flushPrev => e[h].flushNext = d[h].flushNext,
           e[d[c].flushPrev].flushNext = Meta
    PROVE  Linked(L \ {c}, e, o, d[c].flushPrev)
<1> DEFINE M == L \ {c}
           x == d[c].flushPrev
<1>1. /\ o \in L /\ d[c].flushNext = Meta
      /\ \A h \in L \ {c} : d[h].flushNext \in L \ {o} /\ d[d[h].flushNext].flushPrev = h
      /\ \A h \in L \ {o} : d[h].flushPrev \in L \ {c} /\ d[d[h].flushPrev].flushNext = h
      /\ \A S \in SUBSET L : o \in S /\ (\A h \in S \ {c} : d[h].flushNext \in S) => S = L
  BY DEF Linked
<1>2. x \in M /\ o \in M /\ d[x].flushNext = c
  BY <1>1
<1>3. \A h \in M \ {x} : e[h].flushNext \in M \ {o} /\ e[e[h].flushNext].flushPrev = h
  <2> SUFFICES ASSUME NEW h \in M \ {x} PROVE e[h].flushNext \in M \ {o} /\ e[e[h].flushNext].flushPrev = h
    OBVIOUS
  <2>1. d[h].flushNext \in L \ {o} /\ d[d[h].flushNext].flushPrev = h
    BY <1>1
  <2>2. d[h].flushNext # c
    BY <2>1
  <2> QED BY <2>1, <2>2
<1>4. \A h \in M \ {o} : e[h].flushPrev \in M \ {x} /\ e[e[h].flushPrev].flushNext = h
  <2> SUFFICES ASSUME NEW h \in M \ {o} PROVE e[h].flushPrev \in M \ {x} /\ e[e[h].flushPrev].flushNext = h
    OBVIOUS
  <2>1. d[h].flushPrev \in M /\ d[d[h].flushPrev].flushNext = h /\ h # c
    BY <1>1
  <2>2. d[h].flushPrev # x
    BY <1>2, <2>1
  <2> QED BY <2>1, <2>2
<1>5. ASSUME NEW S \in SUBSET M, o \in S, \A h \in S \ {x} : e[h].flushNext \in S PROVE S = M
  <2>1. \A h \in (S \cup {c}) \ {c} : d[h].flushNext \in S \cup {c}
    BY <1>2, <1>5
  <2>2. S \cup {c} \in SUBSET L /\ o \in S \cup {c}
    BY <1>5
  <2>3. S \cup {c} = L
    BY <1>1, <2>1, <2>2
  <2> QED BY <2>3
<1> QED BY <1>2, <1>3, <1>4, <1>5 DEF Linked

\* ... and one between two others.
LEMMA LinkedRemoveMiddle ==
    ASSUME NEW L, NEW d, NEW e, NEW o, NEW n, NEW c \in L \ {o, n}, Linked(L, d, o, n), Meta \notin L,
           \A h \in L : h # d[c].flushNext => e[h].flushPrev = d[h].flushPrev,
           \A h \in L : h # d[c].flushPrev => e[h].flushNext = d[h].flushNext,
           e[d[c].flushPrev].flushNext = d[c].flushNext,
           e[d[c].flushNext].flushPrev = d[c].flushPrev
    PROVE  Linked(L \ {c}, e, o, n)
<1> DEFINE M == L \ {c}
           x == d[c].flushPrev
           y == d[c].flushNext
<1>1. /\ o \in L /\ n \in L /\ d[n].flushNext = Meta
      /\ \A h \in L \ {n} : d[h].flushNext \in L \ {o} /\ d[d[h].flushNext].flushPrev = h
      /\ \A h \in L \ {o} : d[h].flushPrev \in L \ {n} /\ d[d[h].flushPrev].flushNext = h
      /\ \A S \in SUBSET L : o \in S /\ (\A h \in S \ {n} : d[h].flushNext \in S) => S = L
  BY DEF Linked
<1>2. x \in M \ {n} /\ y \in M \ {o} /\ d[x].flushNext = c /\ d[y].flushPrev = c
  BY <1>1, LinkedNeighbours
<1>3. \A h \in M \ {n} : e[h].flushNext \in M \ {o} /\ e[e[h].flushNext].flushPrev = h
  <2> SUFFICES ASSUME NEW h \in M \ {n} PROVE e[h].flushNext \in M \ {o} /\ e[e[h].flushNext].flushPrev = h
    OBVIOUS
  <2>1. CASE h = x
    BY <1>2, <2>1
  <2>2. CASE h # x
    <3>1. d[h].flushNext \in L \ {o} /\ d[d[h].flushNext].flushPrev = h
      BY <1>1
    <3>2. d[h].flushNext # c /\ d[h].flushNext # y
      BY <1>2, <2>2, <3>1
    <3> QED BY <2>2, <3>1, <3>2
  <2> QED BY <2>1, <2>2
<1>4. \A h \in M \ {o} : e[h].flushPrev \in M \ {n} /\ e[e[h].flushPrev].flushNext = h
  <2> SUFFICES ASSUME NEW h \in M \ {o} PROVE e[h].flushPrev \in M \ {n} /\ e[e[h].flushPrev].flushNext = h
    OBVIOUS
  <2>1. CASE h = y
    BY <1>2, <2>1
  <2>2. CASE h # y
    <3>1. d[h].flushPrev \in L \ {n} /\ d[d[h].flushPrev].flushNext = h
      BY <1>1
    <3>2. d[h].flushPrev # c /\ d[h].flushPrev # x
      BY <1>2, <2>2, <3>1
    <3> QED BY <2>2, <3>1, <3>2
  <2> QED BY <2>1, <2>2
<1>5. ASSUME NEW S \in SUBSET M, o \in S, \A h \in S \ {n} : e[h].flushNext \in S PROVE S = M
  <2>1. x \in S
    <3> SUFFICES ASSUME x \notin S PROVE FALSE
      OBVIOUS
    <3>1. S \in SUBSET L /\ \A h \in S \ {n} : d[h].flushNext \in S
      BY <1>5
    <3>2. S = L
      BY <1>1, <1>5, <3>1
    <3> QED BY <3>2
  <2>2. y \in S
    BY <1>2, <1>5, <2>1
  <2>3. \A h \in (S \cup {c}) \ {n} : d[h].flushNext \in S \cup {c}
    BY <1>2, <1>5, <2>2
  <2>4. S \cup {c} \in SUBSET L /\ o \in S \cup {c}
    BY <1>5
  <2>5. S \cup {c} = L
    BY <1>1, <2>3, <2>4
  <2> QED BY <2>5
<1>6. o \in M /\ n \in M /\ e[n].flushNext = Meta
  BY <1>1, <1>2
<1> QED BY <1>3, <1>4, <1>5, <1>6 DEF Linked

-----------------------------------------------------------------------------
(* The fields of the nodes after a call.                                   *)

Nodes == [Key -> CachedNode \cup {Nil}]

\* Two maps with the same nodes, the same counts and the same children.
SameCounts(e, d) ==
    \A k \in Key :
        /\ e[k] = Nil <=> d[k] = Nil
        /\ d[k] # Nil => e[k].parents = d[k].parents /\ e[k].children = d[k].children

\* The fields of a cached node.
LEMMA NodeFields ==
    ASSUME NEW d \in Nodes, NEW k \in Key, d[k] # Nil
    PROVE  /\ d[k] \in CachedNode
           /\ d[k].parents \in Nat
           /\ d[k].children \in [Hash -> Counter \cup {Nil}]
           /\ d[k].flushPrev \in Key
           /\ d[k].flushNext \in Key
<1>1. d[k] \in CachedNode
  BY DEF Nodes
<1> QED BY <1>1 DEF CachedNode

\* Assigning flushNext changes nothing else ...
LEMMA NextField ==
    ASSUME NEW d \in Nodes, NEW x \in Key, d[x] # Nil, NEW y \in Key
    PROVE  LET e == [d EXCEPT ![x].flushNext = y]
           IN /\ e \in Nodes
              /\ SameCounts(e, d)
              /\ \A k \in Key : d[k] # Nil =>
                    /\ e[k].flushPrev = d[k].flushPrev
                    /\ e[k].flushNext = IF k = x THEN y ELSE d[k].flushNext
<1> DEFINE n == d[x]
           m == [n EXCEPT !.flushNext = y]
           e == [d EXCEPT ![x].flushNext = y]
<1>1. n \in CachedNode
  BY NodeFields
<1>2. /\ m \in CachedNode /\ m.parents = n.parents /\ m.children = n.children
      /\ m.flushPrev = n.flushPrev /\ m.flushNext = y
  BY <1>1 DEF CachedNode
<1>3. e \in [Key -> CachedNode \cup {Nil}] /\ \A k \in Key : e[k] = IF k = x THEN m ELSE d[k]
  BY <1>2 DEF Nodes
<1>4. m # Nil
  BY <1>2, TrieDatabaseAssumption
<1> HIDE DEF e, m
<1>5. e \in Nodes
  BY <1>3 DEF Nodes
<1>6. SameCounts(e, d)
  BY <1>2, <1>3, <1>4 DEF SameCounts
<1>7. \A k \in Key : d[k] # Nil =>
         /\ e[k].flushPrev = d[k].flushPrev
         /\ e[k].flushNext = IF k = x THEN y ELSE d[k].flushNext
  BY <1>2, <1>3
<1> QED BY <1>5, <1>6, <1>7 DEF e

\* ... nor does assigning flushPrev.
LEMMA PrevField ==
    ASSUME NEW d \in Nodes, NEW x \in Key, d[x] # Nil, NEW y \in Key
    PROVE  LET e == [d EXCEPT ![x].flushPrev = y]
           IN /\ e \in Nodes
              /\ SameCounts(e, d)
              /\ \A k \in Key : d[k] # Nil =>
                    /\ e[k].flushPrev = IF k = x THEN y ELSE d[k].flushPrev
                    /\ e[k].flushNext = d[k].flushNext
<1> DEFINE n == d[x]
           m == [n EXCEPT !.flushPrev = y]
           e == [d EXCEPT ![x].flushPrev = y]
<1>1. n \in CachedNode
  BY NodeFields
<1>2. /\ m \in CachedNode /\ m.parents = n.parents /\ m.children = n.children
      /\ m.flushNext = n.flushNext /\ m.flushPrev = y
  BY <1>1 DEF CachedNode
<1>3. e \in [Key -> CachedNode \cup {Nil}] /\ \A k \in Key : e[k] = IF k = x THEN m ELSE d[k]
  BY <1>2 DEF Nodes
<1>4. m # Nil
  BY <1>2, TrieDatabaseAssumption
<1> HIDE DEF e, m
<1>5. e \in Nodes
  BY <1>3 DEF Nodes
<1>6. SameCounts(e, d)
  BY <1>2, <1>3, <1>4 DEF SameCounts
<1>7. \A k \in Key : d[k] # Nil =>
         /\ e[k].flushPrev = IF k = x THEN y ELSE d[k].flushPrev
         /\ e[k].flushNext = d[k].flushNext
  BY <1>2, <1>3
<1> QED BY <1>5, <1>6, <1>7 DEF e

\* A node that is inserted.
LEMMA EnqueueFields ==
    ASSUME dirties \in Nodes, oldest \in Key, newest \in Key, dirties[Meta] # Nil,
           Linked(Dirty, dirties, oldest, newest), NEW h \in Hash \ Dirty, Enqueue(h)
    PROVE  /\ dirties' \in Nodes /\ dirties'[Meta] # Nil
           /\ oldest' = (IF oldest = Meta THEN h ELSE oldest) /\ newest' = h
           /\ dirties'[h] # Nil /\ dirties'[h].parents = 0
           /\ dirties'[h].flushPrev = newest /\ dirties'[h].flushNext = Meta
           /\ \A c \in Hash : dirties'[h].children[c] = Nil
           /\ \A k \in Hash \ (Dirty \cup {h}) : dirties'[k] = Nil
           /\ \A k \in Dirty :
                 /\ dirties'[k] # Nil
                 /\ dirties'[k].parents = dirties[k].parents + Occurs(h, k)
                 /\ dirties'[k].children = dirties[k].children
                 /\ dirties'[k].flushPrev = dirties[k].flushPrev
                 /\ k # newest => dirties'[k].flushNext = dirties[k].flushNext
           /\ Dirty # {} => dirties'[newest].flushNext = h
<1> DEFINE m == [CountChildren(h) EXCEPT ![h] = newNode(newest)]
<1>1. /\ newNode(newest) \in CachedNode /\ newNode(newest).parents = 0
      /\ newNode(newest).flushPrev = newest /\ newNode(newest).flushNext = Meta
      /\ \A c \in Hash : newNode(newest).children[c] = Nil
  BY DEF newNode, CachedNode, Key
<1>2. ASSUME NEW k \in Dirty
      PROVE  /\ CountChildren(h)[k] \in CachedNode
             /\ CountChildren(h)[k].parents = dirties[k].parents + Occurs(h, k)
             /\ CountChildren(h)[k].children = dirties[k].children
             /\ CountChildren(h)[k].flushPrev = dirties[k].flushPrev
             /\ CountChildren(h)[k].flushNext = dirties[k].flushNext
  <2>1. k \in Key /\ dirties[k] # Nil /\ k # Meta /\ k \in Hash
    BY TrieDatabaseAssumption DEF Key, Dirty
  <2>2. dirties[k] \in CachedNode /\ dirties[k].parents \in Nat /\ Occurs(h, k) \in Nat
    BY <2>1, NodeFields, InnerFromFinite
  <2>3. CountChildren(h)[k] = [dirties[k] EXCEPT !.parents = @ + Occurs(h, k)]
    BY <2>1 DEF CountChildren
  <2>4. dirties[k].parents + Occurs(h, k) \in Nat
    BY <2>2
  <2> HIDE DEF CountChildren, Occurs
  <2> QED BY <2>2, <2>3, <2>4 DEF CachedNode
<1>3. ASSUME NEW k \in Key, k \notin Dirty PROVE CountChildren(h)[k] = dirties[k]
  BY <1>3 DEF CountChildren, Key, Dirty
<1>4. h \in Key /\ Meta \in Key /\ Meta \notin Dirty /\ h # Meta /\ Dirty \subseteq Key /\ Dirty \subseteq Hash
      /\ Hash \subseteq Key /\ \A k \in Key : k \in Dirty \/ k = Meta \/ dirties[k] = Nil
  BY TrieDatabaseAssumption DEF Key, Dirty
<1>5. CountChildren(h) = [k \in Key |-> CountChildren(h)[k]]
  BY DEF CountChildren
<1>6. m = [k \in Key |-> IF k = h THEN newNode(newest) ELSE CountChildren(h)[k]]
  BY <1>4, <1>5
<1> HIDE DEF m
<1>7. \A k \in Key : m[k] = IF k = h THEN newNode(newest) ELSE CountChildren(h)[k]
  BY <1>6
<1>8. m[Meta] = dirties[Meta]
  BY <1>3, <1>4, <1>7
<1>9. ASSUME NEW k \in Key PROVE m[k] \in CachedNode \cup {Nil}
  <2>1. CASE k = h
    BY <1>1, <1>7, <2>1
  <2>2. CASE k # h /\ k \in Dirty
    BY <1>2, <1>7, <2>2
  <2>3. CASE k # h /\ k \notin Dirty
    <3>1. m[k] = dirties[k]
      BY <1>3, <1>7, <2>3
    <3> QED BY <3>1 DEF Nodes
  <2> QED BY <2>1, <2>2, <2>3
<1>10. m \in Nodes
  BY <1>6, <1>7, <1>9 DEF Nodes
<1>11. m[h] = newNode(newest)
  BY <1>4, <1>7
<1>12. \A k \in Dirty : m[k] = CountChildren(h)[k]
  BY <1>4, <1>7
<1>13. \A k \in Hash \ (Dirty \cup {h}) : m[k] = Nil
  BY <1>3, <1>4, <1>7 DEF Dirty
<1>14. m[h] # Nil /\ m[Meta] # Nil /\ \A k \in Dirty : m[k] # Nil
  BY <1>1, <1>2, <1>8, <1>11, <1>12, TrieDatabaseAssumption
<1>15. /\ dirties' = IF oldest = Meta THEN m ELSE [m EXCEPT ![newest].flushNext = h]
       /\ oldest' = (IF oldest = Meta THEN h ELSE oldest) /\ newest' = h
  BY DEF Enqueue, m
<1>16. CASE oldest = Meta
  <2>1. Dirty = {}
    BY <1>4, <1>16 DEF Linked
  <2>2. dirties' = m
    BY <1>15, <1>16
  <2> QED BY <1>1, <1>10, <1>11, <1>13, <1>14, <1>15, <2>1, <2>2
<1>17. CASE oldest # Meta
  <2>1. newest \in Dirty /\ newest # h
    BY <1>17 DEF Linked
  <2> DEFINE l == [m EXCEPT ![newest].flushNext = h]
  <2>2. dirties' = l /\ m[newest] # Nil /\ m \in Nodes /\ newest \in Key /\ h \in Key
    BY <1>4, <1>10, <1>14, <1>15, <1>17, <2>1
  <2>3. /\ l \in Nodes
        /\ SameCounts(l, m)
        /\ \A k \in Key : m[k] # Nil =>
              /\ l[k].flushPrev = m[k].flushPrev
              /\ l[k].flushNext = IF k = newest THEN h ELSE m[k].flushNext
    <3>1. \A b \in Nodes : \A x \in Key : b[x] # Nil =>
             LET e == [b EXCEPT ![x].flushNext = h]
             IN /\ e \in Nodes
                /\ SameCounts(e, b)
                /\ \A k \in Key : b[k] # Nil =>
                      /\ e[k].flushPrev = b[k].flushPrev
                      /\ e[k].flushNext = IF k = x THEN h ELSE b[k].flushNext
      BY <2>2, NextField
    <3> QED BY <2>2, <3>1
  <2> HIDE DEF l
  <2>4. \A k \in Key : /\ dirties'[k] = Nil <=> m[k] = Nil
                       /\ m[k] # Nil => dirties'[k].parents = m[k].parents /\ dirties'[k].children = m[k].children
    BY <2>2, <2>3 DEF SameCounts
  <2>5. /\ dirties'[Meta] # Nil /\ dirties'[h] # Nil /\ dirties'[h].parents = 0
        /\ dirties'[h].flushPrev = newest /\ dirties'[h].flushNext = Meta
        /\ \A c \in Hash : dirties'[h].children[c] = Nil
    BY <1>1, <1>4, <1>11, <1>14, <2>1, <2>2, <2>3, <2>4
  <2>6. \A k \in Hash \ (Dirty \cup {h}) : dirties'[k] = Nil
    BY <1>4, <1>13, <2>4
  <2>7. dirties'[newest].flushNext = h
    BY <1>14, <2>1, <2>2, <2>3
  <2>8. ASSUME NEW k \in Dirty
        PROVE  /\ dirties'[k] # Nil
               /\ dirties'[k].parents = dirties[k].parents + Occurs(h, k)
               /\ dirties'[k].children = dirties[k].children
               /\ dirties'[k].flushPrev = dirties[k].flushPrev
               /\ k # newest => dirties'[k].flushNext = dirties[k].flushNext
    BY <1>2, <1>4, <1>12, <1>14, <2>2, <2>3, <2>4
  <2> QED BY <1>15, <2>2, <2>3, <2>5, <2>6, <2>7, <2>8
<1> QED BY <1>16, <1>17

\* A node that leaves the flush list.
LEMMA UnlinkFields ==
    ASSUME NEW d \in Nodes, d[Meta] # Nil, NEW L \in SUBSET Hash, \A k \in L : d[k] # Nil,
           oldest \in Key, newest \in Key, Linked(L, d, oldest, newest), NEW c \in L
    PROVE  LET u == Unlink(d, c)
           IN /\ u.dirties \in Nodes /\ u.oldest \in Key /\ u.newest \in Key
              /\ SameCounts(u.dirties, d)
              /\ Linked(L \ {c}, u.dirties, u.oldest, u.newest)
<1> DEFINE u == Unlink(d, c)
           x == d[c].flushPrev
           y == d[c].flushNext
<1>1. L \subseteq Key /\ Meta \notin L /\ Meta \in Key
  BY TrieDatabaseAssumption DEF Key
<1>2. /\ c = newest => y = Meta
      /\ c # newest => y \in L \ {oldest} /\ y # c
      /\ c # oldest => x \in L \ {newest} /\ x # c
  BY LinkedNeighbours
<1>3. x \in Key /\ y \in Key
  BY <1>1, NodeFields
<1>4. CASE c = oldest
  <2> DEFINE e == [d EXCEPT ![y].flushPrev = Meta]
  <2>1. u.dirties = e /\ u.oldest = y /\ u.newest = newest
    BY <1>4 DEF Unlink
  <2>2. d[y] # Nil
    BY <1>2
  <2>3. /\ e \in Nodes
        /\ SameCounts(e, d)
        /\ \A k \in Key : d[k] # Nil =>
              /\ e[k].flushPrev = IF k = y THEN Meta ELSE d[k].flushPrev
              /\ e[k].flushNext = d[k].flushNext
    BY <1>1, <1>3, <2>2, PrevField
  <2> HIDE DEF e
  <2>4. Linked(L \ {c}, e, y, newest)
    <3>1. /\ \A k \in L : e[k].flushNext = d[k].flushNext
          /\ \A k \in L : k # d[c].flushNext => e[k].flushPrev = d[k].flushPrev
      BY <1>1, <2>3
    <3>2. Linked(L, d, c, newest)
      BY <1>4
    <3> QED BY <1>1, <3>1, <3>2, LinkedRemoveHead
  <2> HIDE DEF u, y
  <2> QED BY <1>3, <2>1, <2>3, <2>4 DEF u
<1>5. CASE c # oldest /\ c = newest
  <2> DEFINE e == [d EXCEPT ![x].flushNext = Meta]
  <2>1. u.dirties = e /\ u.oldest = oldest /\ u.newest = x
    BY <1>5 DEF Unlink
  <2>2. d[x] # Nil /\ x \in L
    BY <1>2, <1>5
  <2>3. /\ e \in Nodes
        /\ SameCounts(e, d)
        /\ \A k \in Key : d[k] # Nil =>
              /\ e[k].flushPrev = d[k].flushPrev
              /\ e[k].flushNext = IF k = x THEN Meta ELSE d[k].flushNext
    BY <1>1, <1>3, <2>2, NextField
  <2> HIDE DEF e
  <2>4. Linked(L \ {c}, e, oldest, x)
    <3>1. /\ \A k \in L : e[k].flushPrev = d[k].flushPrev
          /\ \A k \in L : k # d[c].flushPrev => e[k].flushNext = d[k].flushNext
          /\ e[d[c].flushPrev].flushNext = Meta
      BY <1>1, <2>2, <2>3
    <3>2. Linked(L, d, oldest, c)
      BY <1>5
    <3> QED BY <1>1, <1>5, <3>1, <3>2, LinkedRemoveTail
  <2> HIDE DEF u, x
  <2> QED BY <1>3, <2>1, <2>3, <2>4 DEF u
<1>6. CASE c # oldest /\ c # newest
  <2> DEFINE f == [d EXCEPT ![x].flushNext = y]
             e == [f EXCEPT ![y].flushPrev = x]
  <2>1. u.dirties = e /\ u.oldest = oldest /\ u.newest = newest
    BY <1>6 DEF Unlink
  <2>2. d[x] # Nil /\ x \in L /\ d[y] # Nil /\ y \in L
    BY <1>2, <1>6
  <2>3. /\ f \in Nodes
        /\ SameCounts(f, d)
        /\ \A k \in Key : d[k] # Nil =>
              /\ f[k].flushPrev = d[k].flushPrev
              /\ f[k].flushNext = IF k = x THEN y ELSE d[k].flushNext
    BY <1>1, <1>3, <2>2, NextField
  <2> HIDE DEF f
  <2>4. f[y] # Nil
    BY <1>3, <2>2, <2>3 DEF SameCounts
  <2>5. /\ e \in Nodes
        /\ SameCounts(e, f)
        /\ \A k \in Key : f[k] # Nil =>
              /\ e[k].flushPrev = IF k = y THEN x ELSE f[k].flushPrev
              /\ e[k].flushNext = f[k].flushNext
    BY <1>3, <2>3, <2>4, PrevField
  <2> HIDE DEF e
  <2>6. SameCounts(e, d)
    BY <2>3, <2>5 DEF SameCounts
  <2>7. ASSUME NEW k \in L
        PROVE  /\ e[k].flushPrev = IF k = y THEN x ELSE d[k].flushPrev
               /\ e[k].flushNext = IF k = x THEN y ELSE d[k].flushNext
    <3>1. f[k] # Nil /\ d[k] # Nil /\ k \in Key
      BY <1>1, <2>3 DEF SameCounts
    <3> QED BY <2>3, <2>5, <3>1
  <2>8. Linked(L \ {c}, e, oldest, newest)
    <3>1. /\ \A k \in L : k # d[c].flushNext => e[k].flushPrev = d[k].flushPrev
          /\ \A k \in L : k # d[c].flushPrev => e[k].flushNext = d[k].flushNext
          /\ e[d[c].flushPrev].flushNext = d[c].flushNext
          /\ e[d[c].flushNext].flushPrev = d[c].flushPrev
      BY <2>2, <2>7
    <3> QED BY <1>1, <1>6, <3>1, LinkedRemoveMiddle
  <2> HIDE DEF u, x, y
  <2> QED BY <2>1, <2>5, <2>6, <2>8 DEF u
<1> QED BY <1>4, <1>5, <1>6

\* A reference from p to c that is counted.
LEMMA ReferencedFields ==
    ASSUME dirties \in Nodes, NEW c \in Dirty, NEW p \in Key, dirties[p] # Nil, c # p,
           ~(dirties[p].children[c] # Nil /\ p # Meta)
    PROVE  LET e == Referenced(c, p)
           IN /\ e \in Nodes
              /\ \A k \in Key : (e[k] = Nil <=> dirties[k] = Nil)
              /\ \A k \in Key : dirties[k] # Nil =>
                    /\ e[k].flushPrev = dirties[k].flushPrev
                    /\ e[k].flushNext = dirties[k].flushNext
                    /\ e[k].parents = dirties[k].parents + (IF k = c THEN 1 ELSE 0)
                    /\ k # p => e[k].children = dirties[k].children
              /\ e[p].children[c] # Nil
              /\ \A x \in Hash \ {c} : e[p].children[x] = dirties[p].children[x]
<1> DEFINE n == dirties[p].children[c]
           v == ((IF n = Nil THEN 0 ELSE n) + 1) % CountLimit
           a == [dirties[c] EXCEPT !.parents = @ + 1]
           b == [dirties[p] EXCEPT !.children[c] = v]
           e == [k \in Key |-> IF k = p THEN b ELSE IF k = c THEN a ELSE dirties[k]]
<1>1. c \in Hash /\ c \in Key /\ dirties[c] # Nil
  BY DEF Dirty, Key
<1>2. n \in Counter \cup {Nil}
  BY <1>1, NodeFields
<1>3. v \in Counter /\ v # Nil
  <2> DEFINE m == IF n = Nil THEN 0 ELSE n
  <2>1. m + 1 \in Nat
    BY <1>2, TrieDatabaseAssumption DEF Counter
  <2>2. CountLimit \in Nat \ {0} /\ Nil \notin Int
    BY TrieDatabaseAssumption
  <2> HIDE DEF m
  <2>3. (m + 1) % CountLimit \in 0..(CountLimit - 1)
    BY <2>1, <2>2
  <2> QED BY <2>2, <2>3 DEF Counter, m
<1> HIDE DEF v, n
<1>4. /\ a \in CachedNode /\ a.parents = dirties[c].parents + 1 /\ a.children = dirties[c].children
      /\ a.flushPrev = dirties[c].flushPrev /\ a.flushNext = dirties[c].flushNext
  <2>1. dirties[c] \in CachedNode /\ dirties[c].parents + 1 \in Nat
    BY <1>1, NodeFields
  <2> QED BY <2>1 DEF CachedNode
<1>5. /\ b \in CachedNode /\ b.parents = dirties[p].parents /\ b.children[c] = v
      /\ \A x \in Hash \ {c} : b.children[x] = dirties[p].children[x]
      /\ b.flushPrev = dirties[p].flushPrev /\ b.flushNext = dirties[p].flushNext
  <2>1. dirties[p] \in CachedNode /\ dirties[p].children \in [Hash -> Counter \cup {Nil}]
    BY NodeFields
  <2> QED BY <1>1, <1>3, <2>1 DEF CachedNode
<1>6. a # Nil /\ b # Nil
  BY <1>4, <1>5, TrieDatabaseAssumption
<1>7. Referenced(c, p) = e
  <2>1. Referenced(c, p) = [dirties EXCEPT ![c].parents = @ + 1, ![p].children[c] = v]
    BY DEF Referenced, v, n
  <2> QED BY <1>1, <2>1 DEF Nodes
<1>8. \A k \in Key : dirties[k] \in CachedNode \cup {Nil}
  BY DEF Nodes
<1> HIDE DEF a, b
<1>9. e \in Nodes
  BY <1>4, <1>5, <1>8 DEF Nodes
<1>10. \A k \in Key : e[k] = IF k = p THEN b ELSE IF k = c THEN a ELSE dirties[k]
  OBVIOUS
<1> HIDE DEF e
<1>11. \A k \in Key : (e[k] = Nil <=> dirties[k] = Nil)
  BY <1>1, <1>6, <1>10
<1>12. ASSUME NEW k \in Key, dirties[k] # Nil
       PROVE  /\ e[k].flushPrev = dirties[k].flushPrev
              /\ e[k].flushNext = dirties[k].flushNext
              /\ e[k].parents = dirties[k].parents + (IF k = c THEN 1 ELSE 0)
              /\ k # p => e[k].children = dirties[k].children
  <2>1. dirties[k].parents \in Nat
    BY <1>12, NodeFields
  <2>2. CASE k = p
    BY <1>5, <1>10, <2>1, <2>2
  <2>3. CASE k = c
    BY <1>4, <1>10, <2>3
  <2>4. CASE k # p /\ k # c
    BY <1>10, <2>1, <2>4
  <2> QED BY <2>2, <2>3, <2>4
<1>13. e[p] = b
  BY <1>10
<1>14. e[p].children[c] # Nil /\ \A x \in Hash \ {c} : e[p].children[x] = dirties[p].children[x]
  BY <1>3, <1>5, <1>13
<1> QED BY <1>7, <1>9, <1>11, <1>12, <1>14

\* The entry for c goes from p, or is one less.
LEMMA UnchildFields ==
    ASSUME dirties \in Nodes, NEW c \in Hash, NEW p \in Key, dirties[p] # Nil
    PROVE  LET e == Unchild(dirties, c, p)
           IN /\ e \in Nodes
              /\ \A k \in Key \ {p} : e[k] = dirties[k]
              /\ e[p] # Nil /\ e[p].parents = dirties[p].parents
              /\ e[p].flushPrev = dirties[p].flushPrev
              /\ e[p].flushNext = dirties[p].flushNext
              /\ \A x \in Hash : e[p].children[x] # Nil => dirties[p].children[x] # Nil
<1> DEFINE n == dirties[p].children[c]
           v == IF n = 1 THEN Nil ELSE n - 1
           b == [dirties[p] EXCEPT !.children[c] = v]
           e == [dirties EXCEPT ![p].children[c] = v]
<1>1. CASE n = Nil \/ n = 0
  <2>1. Unchild(dirties, c, p) = dirties
    BY <1>1 DEF Unchild
  <2> QED BY <2>1
<1>2. CASE n # Nil /\ n # 0
  <2>1. Unchild(dirties, c, p) = e
    BY <1>2 DEF Unchild
  <2>2. n \in Counter /\ dirties[p] \in CachedNode /\ dirties[p].children \in [Hash -> Counter \cup {Nil}]
    BY <1>2, NodeFields
  <2>3. v \in Counter \cup {Nil}
    BY <1>2, <2>2, TrieDatabaseAssumption DEF Counter
  <2>4. n # Nil
    BY <1>2
  <2> HIDE DEF n, v
  <2>5. /\ b \in CachedNode /\ b.parents = dirties[p].parents
        /\ \A x \in Hash \ {c} : b.children[x] = dirties[p].children[x]
        /\ b.flushPrev = dirties[p].flushPrev /\ b.flushNext = dirties[p].flushNext
    BY <2>2, <2>3 DEF CachedNode
  <2>6. e \in [Key -> CachedNode \cup {Nil}] /\ \A k \in Key : e[k] = IF k = p THEN b ELSE dirties[k]
    BY <2>5 DEF Nodes
  <2>7. b # Nil
    BY <2>5, TrieDatabaseAssumption
  <2> HIDE DEF e, b
  <2>8. \A x \in Hash : e[p].children[x] # Nil => dirties[p].children[x] # Nil
    BY <2>4, <2>5, <2>6 DEF n
  <2>9. e \in Nodes
    BY <2>6 DEF Nodes
  <2>10. (\A k \in Key \ {p} : e[k] = dirties[k]) /\ e[p] = b
    BY <2>6
  <2> QED BY <2>1, <2>5, <2>7, <2>8, <2>9, <2>10
<1> QED BY <1>1, <1>2

\* c has one parent less, if it had any.
LEMMA ParentFields ==
    ASSUME NEW d \in Nodes, NEW c \in Key, d[c] # Nil
    PROVE  LET e == [d EXCEPT ![c] = OneParentLess(@)]
           IN /\ e \in Nodes
              /\ \A k \in Key \ {c} : e[k] = d[k]
              /\ e[c] # Nil
              /\ e[c].parents = IF d[c].parents > 0 THEN d[c].parents - 1 ELSE 0
              /\ e[c].children = d[c].children
              /\ e[c].flushPrev = d[c].flushPrev
              /\ e[c].flushNext = d[c].flushNext
<1> DEFINE n == d[c]
           v == IF n.parents > 0 THEN n.parents - 1 ELSE 0
           b == [n EXCEPT !.parents = v]
           e == [d EXCEPT ![c] = OneParentLess(@)]
<1>1. n \in CachedNode /\ n.parents \in Nat
  BY NodeFields
<1>2. v \in Nat
  BY <1>1
<1> HIDE DEF v
<1>3. /\ b \in CachedNode /\ b.parents = v /\ b.children = n.children
      /\ b.flushPrev = n.flushPrev /\ b.flushNext = n.flushNext
  BY <1>1, <1>2 DEF CachedNode
<1>4. OneParentLess(n) = b
  BY DEF OneParentLess, v
<1> HIDE DEF b
<1>5. e \in [Key -> CachedNode \cup {Nil}] /\ \A k \in Key : e[k] = IF k = c THEN b ELSE d[k]
  BY <1>3, <1>4 DEF Nodes
<1>6. b # Nil
  BY <1>3, TrieDatabaseAssumption
<1> HIDE DEF e
<1>7. e \in Nodes
  BY <1>5 DEF Nodes
<1>8. (\A k \in Key \ {c} : e[k] = d[k]) /\ e[c] = b
  BY <1>5
<1> QED BY <1>3, <1>6, <1>7, <1>8 DEF e, v

-----------------------------------------------------------------------------
(* What a node refers to, in the order of forChilds.                       *)

\* A set of at most one member as a sequence.
LEMMA SingleSeq ==
    ASSUME NEW S, NEW r, S = {} \/ S = {r}
    PROVE  /\ S = {} => SetToSeq(S) = <<>>
           /\ S = {r} => SetToSeq(S) = <<r>>
<1>1. CASE S = {}
  <2>1. Cardinality(S) = 0
    BY <1>1, FS_EmptySet
  <2>2. 1..0 = {}
    OBVIOUS
  <2>3. SetToSeq(S) = CHOOSE f \in [{} -> {}] : IsInjective(f)
    BY <1>1, <2>1, <2>2 DEF SetToSeq
  <2>4. <<>> \in [{} -> {}] /\ \A f \in [{} -> {}] : f = <<>>
    OBVIOUS
  <2>5. IsInjective(<<>>)
    BY DEF IsInjective
  <2> QED BY <1>1, <2>3, <2>4, <2>5
<1>2. CASE S = {r}
  <2>1. Cardinality(S) = 1
    BY <1>2, FS_Singleton
  <2>2. SetToSeq(S) = CHOOSE f \in [1..1 -> {r}] : IsInjective(f)
    BY <1>2, <2>1 DEF SetToSeq
  <2>3. <<r>> \in [1..1 -> {r}] /\ \A f \in [1..1 -> {r}] : f = <<r>>
    OBVIOUS
  <2>4. IsInjective(<<r>>)
    BY DEF IsInjective
  <2> QED BY <1>2, <2>2, <2>3, <2>4
<1> QED BY <1>1, <1>2

\* How often x is in s.
Times(s, x) == Count(s, {x})

\* The children that a cascade dereferences, counted.
LEMMA ChildsCount ==
    ASSUME NEW n, NEW c \in Hash, \A x \in Hash : n.children[x] # Nil => x = StorageRoot[c]
    PROVE  /\ Childs(n, c) \in Seq(Hash)
           /\ \A i \in 1..Len(Childs(n, c)) : Childs(n, c)[i] \in Succ[c]
           /\ \A x \in Hash :
                 Times(Childs(n, c), x) = Occurs(c, x) + (IF n.children[x] # Nil THEN 1 ELSE 0)
<1> DEFINE S == {x \in Hash : n.children[x] # Nil}
           q == SetToSeq(S)
           r == StorageRoot[c]
<1>1. /\ Succ[c] = {Edge[c][i] : i \in 1..Len(Edge[c])} \cup ({r} \ {Nil})
      /\ Edge[c] \in Seq(Hash)
  BY SuccHash
<1>2. S = {} \/ S = {r}
  OBVIOUS
<1>3. (S = {} => q = <<>>) /\ (S = {r} => q = <<r>>)
  BY <1>2, SingleSeq
<1>4. Childs(n, c) = q \o Edge[c]
  BY DEF Childs
<1> HIDE DEF q
<1>5. q \in Seq(Hash) /\ \A i \in 1..Len(q) : q[i] \in Succ[c]
  <2>1. CASE S = {}
    <3>1. q = <<>>
      BY <1>3, <2>1
    <3> QED BY <3>1
  <2>2. CASE S = {r}
    <3>1. r \in Hash /\ r # Nil
      BY <2>2, TrieDatabaseAssumption
    <3>2. q = <<r>> /\ r \in Succ[c]
      BY <1>1, <1>3, <2>2, <3>1
    <3> QED BY <3>1, <3>2
  <2> QED BY <1>2, <2>1, <2>2
<1>6. ASSUME NEW x \in Hash PROVE Count(q, {x}) = IF n.children[x] # Nil THEN 1 ELSE 0
  <2>1. CASE x \in S
    <3>1. q = <<x>>
      BY <1>2, <1>3, <2>1
    <3>2. Matching(<<x>>, {x}) = {1}
      BY DEF Matching
    <3> QED BY <2>1, <3>1, <3>2, FS_Singleton DEF Count
  <2>2. CASE x \notin S
    <3>1. Matching(q, {x}) = {}
      <4>1. CASE S = {}
        <5>1. q = <<>>
          BY <1>3, <4>1
        <5> QED BY <5>1 DEF Matching
      <4>2. CASE S = {r}
        <5>1. q = <<r>> /\ x # r
          BY <1>3, <2>2, <4>2
        <5> QED BY <5>1 DEF Matching
      <4> QED BY <1>2, <4>1, <4>2
    <3> QED BY <2>2, <3>1, FS_EmptySet DEF Count
  <2> QED BY <2>1, <2>2
<1>7. ASSUME NEW x \in Hash PROVE Count(Edge[c], {x}) = Occurs(c, x) /\ Occurs(c, x) \in Nat
  <2>1. Matching(Edge[c], {x}) = {i \in 1..Len(Edge[c]) : Edge[c][i] = x}
    BY DEF Matching
  <2> QED BY <2>1, InnerFromFinite DEF Count, Occurs
<1> HIDE DEF S, r
<1>8. Childs(n, c) \in Seq(Hash)
  BY <1>1, <1>5, <1>4
<1>9. ASSUME NEW i \in 1..Len(Childs(n, c)) PROVE Childs(n, c)[i] \in Succ[c]
  <2>1. /\ Len(q) \in Nat /\ Len(Edge[c]) \in Nat /\ Len(Childs(n, c)) = Len(q) + Len(Edge[c])
        /\ Childs(n, c)[i] = IF i <= Len(q) THEN q[i] ELSE Edge[c][i - Len(q)]
    BY <1>1, <1>5, <1>4
  <2>2. CASE i <= Len(q)
    BY <1>5, <2>1, <2>2
  <2>3. CASE ~(i <= Len(q))
    <3>1. i - Len(q) \in 1..Len(Edge[c])
      BY <2>1, <2>3
    <3> QED BY <1>1, <2>1, <2>3, <3>1
  <2> QED BY <2>2, <2>3
<1>10. ASSUME NEW x \in Hash
       PROVE  Count(Childs(n, c), {x}) = Occurs(c, x) + (IF n.children[x] # Nil THEN 1 ELSE 0)
  <2>1. Count(q \o Edge[c], {x}) = Count(q, {x}) + Count(Edge[c], {x})
    BY <1>1, <1>5, CountConcat
  <2> QED BY <1>6, <1>7, <1>4, <2>1
<1> QED BY <1>8, <1>9, <1>10, Zenon DEF Times

-----------------------------------------------------------------------------
(* The counts and the condemned nodes after a call.                        *)

HoldersOf(L, d, r, w, c) ==
    Cardinality(Inner(L, c)) + Cardinality(Outer(L, d, c))
    + r[c] - Count(w, RootCalls(c)) + Count(w, DropCalls(c))

Counted(L, d, r, w) ==
    \A c \in L :
        /\ d[c].parents \in 0..HoldersOf(L, d, r, w, c)
        /\ c \notin Disk => d[c].parents = HoldersOf(L, d, r, w, c)

CondemnedIn(w) == {h \in Hash : \E i \in 1..Len(w) : w[i] = DeleteCall(h)}

\* The edges of the listed nodes to a child.
LEMMA InnerIs ==
    ASSUME NEW L, NEW c
    PROVE  UNION {{<<p, i>> : i \in {j \in 1..Len(Edge[p]) : Edge[p][j] = c}} : p \in L} = Inner(L, c)
  BY DEF Inner, InnerFrom, Positions

\* CountsExact is about the listed nodes, now ...
LEMMA CountedNow ==
    ASSUME work \in Seq(Call)
    PROVE  CountsExact <=> Counted(Listed, dirties, refs, work)
<1>1. ASSUME NEW c PROVE Holders(c) = HoldersOf(Listed, dirties, refs, work, c)
  <2>1. \A op, parents : Pending(op, c, parents) = Count(work, Calls(op, c, parents))
    BY PendingCount DEF Pending
  <2>2. Holders(c) = Cardinality(Inner(Listed, c)) + Cardinality(Outer(Listed, dirties, c))
           + refs[c] - Pending("reference", c, {Meta}) + Pending("dereference", c, Key)
    BY InnerIs DEF Holders, Outer
  <2> QED BY <2>1, <2>2, Zenon DEF HoldersOf, RootCalls, DropCalls
<1> QED BY <1>1 DEF CountsExact, Counted

\* ... and after a step.
LEMMA CountedNext ==
    ASSUME work' \in Seq(Call)
    PROVE  CountsExact' <=> Counted(Listed', dirties', refs', work')
<1>1. ASSUME NEW c PROVE Holders(c)' = HoldersOf(Listed', dirties', refs', work', c)
  <2>1. \A op, parents : Pending(op, c, parents)' = Count(work', Calls(op, c, parents))
    BY PendingCount DEF Pending
  <2>2. Holders(c)' = Cardinality(Inner(Listed', c)) + Cardinality(Outer(Listed', dirties', c))
           + refs'[c] - Pending("reference", c, {Meta})' + Pending("dereference", c, Key)'
    BY InnerIs DEF Holders, Outer
  <2> QED BY <2>1, <2>2, Zenon DEF HoldersOf, RootCalls, DropCalls
<1> QED BY <1>1 DEF CountsExact, Counted

\* The condemned nodes are those whose deletion waits in the work list.
LEMMA CondemnedIs == Condemned = CondemnedIn(work) /\ Condemned' = CondemnedIn(work')
  BY DEF Condemned, CondemnedIn, DeleteCall

\* A deletion that is done is the only call whose end spares a node.
LEMMA CondemnedPop ==
    ASSUME NEW v, NEW w, After(v, w)
    PROVE  /\ w[1].op # "delete" => CondemnedIn(v) = CondemnedIn(w)
           /\ \A D, h : Cascading(w, D) /\ w[1] = DeleteCall(h) => CondemnedIn(v) = CondemnedIn(w) \ {h}
<1>1. \A i \in 1..Len(v) : i + 1 \in 1..Len(w) /\ v[i] = w[i + 1] /\ i + 1 # 1 /\ i + 1 \in (1 + 1)..Len(w)
  BY DEF After
<1>2. ASSUME NEW i \in 1..Len(w), i # 1 PROVE i - 1 \in 1..Len(v) /\ v[i - 1] = w[i]
  <2>1. i - 1 \in 1..Len(v) /\ (i - 1) + 1 = i
    BY <1>2 DEF After
  <2> QED BY <1>1, <2>1
<1>3. \A h : DeleteCall(h).op = "delete" /\ DeleteCall(h).node = h
  BY DEF DeleteCall
<1>4. CondemnedIn(v) \subseteq CondemnedIn(w)
  BY <1>1 DEF CondemnedIn
<1>5. w[1].op # "delete" => CondemnedIn(v) = CondemnedIn(w)
  BY <1>2, <1>3, <1>4 DEF CondemnedIn
<1>6. ASSUME NEW D, NEW h, Cascading(w, D), w[1] = DeleteCall(h)
      PROVE  CondemnedIn(v) = CondemnedIn(w) \ {h}
  <2>1. h \notin CondemnedIn(v)
    <3> SUFFICES ASSUME NEW i \in 1..Len(v), v[i] = DeleteCall(h) PROVE FALSE
      BY DEF CondemnedIn
    <3>1. w[i + 1].op = "delete" /\ w[i + 1] = w[1] /\ 1 \in 1..Len(w)
      BY <1>1, <1>3, <1>6 DEF After
    <3> QED BY <1>1, <1>6, <3>1 DEF Cascading
  <2>2. ASSUME NEW g \in CondemnedIn(w) \ {h} PROVE g \in CondemnedIn(v)
    <3>1. PICK i \in 1..Len(w) : w[i] = DeleteCall(g)
      BY DEF CondemnedIn
    <3>2. i # 1
      BY <1>3, <1>6, <3>1
    <3> QED BY <1>2, <3>1, <3>2 DEF CondemnedIn
  <2> QED BY <1>4, <2>1, <2>2
<1> QED BY <1>5, <1>6

\* A cascade condemns its node.
LEMMA CondemnedPush ==
    ASSUME NEW x, NEW w, NEW s, NEW c, Cascades(x, w, s, c), w[1].op = "dereference"
    PROVE  CondemnedIn(x) = CondemnedIn(w) \cup {c}
<1>0. Len(s) \in Nat /\ Len(w) \in Nat \ {0} /\ Len(x) = Len(s) + Len(w) /\ c \in Hash
  BY DEF Cascades
<1>1. \A h : DeleteCall(h).op = "delete" /\ DeleteCall(h).node = h
  BY DEF DeleteCall
<1>2. c \in CondemnedIn(x)
  <2>1. Len(s) + 1 \in 1..Len(x) /\ x[Len(s) + 1] = DeleteCall(c)
    BY <1>0 DEF Cascades
  <2> QED BY <1>0, <2>1 DEF CondemnedIn
<1>3. ASSUME NEW g \in CondemnedIn(w) PROVE g \in CondemnedIn(x)
  <2>1. PICK i \in 1..Len(w) : w[i] = DeleteCall(g)
    BY DEF CondemnedIn
  <2>2. i # 1
    BY <1>1, <2>1
  <2>3. i \in 2..Len(w) /\ Len(s) + i \in 1..Len(x)
    BY <1>0, <2>2
  <2>4. x[Len(s) + i] = DeleteCall(g)
    BY <2>1, <2>3 DEF Cascades
  <2> QED BY <2>3, <2>4 DEF CondemnedIn
<1>4. ASSUME NEW g \in CondemnedIn(x), g # c PROVE g \in CondemnedIn(w)
  <2>1. PICK i \in 1..Len(x) : x[i] = DeleteCall(g)
    BY DEF CondemnedIn
  <2>2. i \notin 1..Len(s)
    <3> SUFFICES ASSUME i \in 1..Len(s) PROVE FALSE
      OBVIOUS
    <3>1. x[i] = DereferenceCall(s[i], c)
      BY DEF Cascades
    <3>2. x[i].op = "dereference"
      BY <3>1 DEF DereferenceCall
    <3> QED BY <1>1, <2>1, <3>2
  <2>3. i # Len(s) + 1
    <3> SUFFICES ASSUME i = Len(s) + 1 PROVE FALSE
      OBVIOUS
    <3>1. DeleteCall(g) = DeleteCall(c)
      BY <2>1 DEF Cascades
    <3> QED BY <1>1, <1>4, <3>1
  <2> DEFINE k == i - Len(s)
  <2>4. k \in 2..Len(w) /\ k \in 1..Len(w) /\ Len(s) + k = i
    BY <1>0, <2>2, <2>3
  <2> HIDE DEF k
  <2>5. w[k] = DeleteCall(g)
    BY <2>1, <2>4 DEF Cascades
  <2> QED BY <2>4, <2>5 DEF CondemnedIn
<1> QED BY <1>2, <1>3, <1>4

\* The calls after one that returns, and how often they are of a kind.
LEMMA PopFacts ==
    ASSUME NEW w \in Seq(Call), w # <<>>
    PROVE  /\ After(Tail(w), w) /\ Head(w) = w[1] /\ w[1] \in Call /\ Tail(w) \in Seq(Call)
           /\ <<>> \o Tail(w) = Tail(w)
           /\ \A T : /\ Count(w, T) = Count(Tail(w), T) + (IF w[1] \in T THEN 1 ELSE 0)
                     /\ Count(w, T) \in Nat /\ Count(Tail(w), T) \in Nat
<1>1. Tail(w) \in Seq(Call) /\ Head(w) = w[1] /\ w[1] \in Call
  OBVIOUS
<1>2. Len(Tail(w)) \in Nat /\ Len(w) = Len(Tail(w)) + 1 /\ \A i \in 1..Len(Tail(w)) : Tail(w)[i] = w[i + 1]
  OBVIOUS
<1>3. <<>> \o Tail(w) = Tail(w)
  BY <1>1, ConcatEmptySeq
<1>4. After(Tail(w), w)
  BY <1>1, <1>2 DEF After
<1>5. ASSUME NEW T
      PROVE  /\ Count(w, T) = Count(Tail(w), T) + (IF w[1] \in T THEN 1 ELSE 0)
             /\ Count(w, T) \in Nat /\ Count(Tail(w), T) \in Nat
  <2>1. Count(w, T) = Count(Tail(w), T) + (IF Head(w) \in T THEN 1 ELSE 0)
    BY CountTail, Zenon
  <2>2. Count(w, T) \in Nat /\ Count(Tail(w), T) \in Nat
    BY <1>1, CountFinite, Zenon
  <2> QED BY <1>1, <2>1, <2>2, Zenon
<1> QED BY <1>1, <1>3, <1>4, <1>5, Zenon

\* What a cascade puts in front of the work list.
LEMMA PushFacts ==
    ASSUME NEW w \in Seq(Call), w # <<>>, NEW s \in Seq(Hash), NEW c \in Hash, NEW x,
           x = ([i \in 1..Len(s) |-> [op |-> "dereference", child |-> s[i], parent |-> c]]
                \o <<[op |-> "delete", node |-> c]>>) \o Tail(w)
    PROVE  /\ Cascades(x, w, s, c)
           /\ \A y \in Hash :
                 /\ Count(x, DropCalls(y))
                       = Count(s, {y}) + Count(Tail(w), DropCalls(y))
                 /\ Count(x, RootCalls(y)) = Count(Tail(w), RootCalls(y))
<1> DEFINE a == [i \in 1..Len(s) |-> [op |-> "dereference", child |-> s[i], parent |-> c]]
           z == <<[op |-> "delete", node |-> c]>>
           v == Tail(w)
<1>1. /\ After(v, w) /\ v \in Seq(Call)
  BY PopFacts
<1>2. Len(v) \in Nat /\ Len(w) = Len(v) + 1 /\ \A i \in 1..Len(v) : v[i] = w[i + 1]
  BY <1>1 DEF After
<1> HIDE DEF v
<1>3. Len(s) \in Nat /\ \A i \in 1..Len(s) : s[i] \in Hash
  OBVIOUS
<1>4. a \in Seq(Call) /\ Len(a) = Len(s) /\ \A i \in 1..Len(s) : a[i] = DereferenceCall(s[i], c)
  <2>1. \A i \in 1..Len(s) : [op |-> "dereference", child |-> s[i], parent |-> c] \in Call
    BY <1>3 DEF Call, Key
  <2> QED BY <1>3, <2>1 DEF DereferenceCall
<1>5. z \in Seq(Call) /\ Len(z) = 1 /\ z[1] = DeleteCall(c)
  <2>1. [op |-> "delete", node |-> c] \in Call
    BY DEF Call
  <2> QED BY <2>1 DEF DeleteCall
<1>6. x = (a \o z) \o v
  BY DEF v
<1> HIDE DEF a, z
<1>7. PICK b : b = a \o z
  OBVIOUS
<1>8. /\ b \in Seq(Call) /\ Len(b) = Len(s) + 1
      /\ \A i \in 1..(Len(s) + 1) : b[i] = IF i <= Len(s) THEN a[i] ELSE z[i - Len(s)]
  <2>1. /\ a \o z \in Seq(Call) /\ Len(a \o z) = Len(a) + Len(z)
        /\ \A i \in 1..(Len(a) + Len(z)) : (a \o z)[i] = IF i <= Len(a) THEN a[i] ELSE z[i - Len(a)]
    <3>1. a \in Seq(Call) /\ z \in Seq(Call)
      BY <1>4, <1>5
    <3> QED BY ONLY <3>1
  <2>2. Len(a) = Len(s) /\ Len(z) = 1
    BY <1>4, <1>5
  <2> QED BY ONLY <1>7, <2>1, <2>2, Zenon
<1>9. x = b \o v
  BY <1>6, <1>7, Zenon
<1>10. /\ x \in Seq(Call) /\ Len(x) = Len(s) + 1 + Len(v)
       /\ \A i \in 1..Len(x) : x[i] = IF i <= Len(s) + 1 THEN b[i] ELSE v[i - (Len(s) + 1)]
  <2>1. /\ b \o v \in Seq(Call) /\ Len(b \o v) = Len(b) + Len(v)
        /\ \A i \in 1..(Len(b) + Len(v)) : (b \o v)[i] = IF i <= Len(b) THEN b[i] ELSE v[i - Len(b)]
    <3>1. b \in Seq(Call) /\ v \in Seq(Call)
      BY <1>1, <1>8
    <3> QED BY ONLY <3>1
  <2>2. Len(b) = Len(s) + 1
    BY <1>8
  <2> QED BY ONLY <1>9, <2>1, <2>2, Zenon
<1>11. Cascades(x, w, s, c)
  <2>1. ASSUME NEW i \in 1..Len(s) PROVE x[i] = DereferenceCall(s[i], c)
    <3>1. i \in 1..Len(x) /\ i <= Len(s) + 1 /\ i \in 1..(Len(s) + 1) /\ i <= Len(s)
      BY <1>2, <1>3, <1>10
    <3> QED BY <1>4, <1>8, <1>10, <3>1
  <2>2. x[Len(s) + 1] = DeleteCall(c)
    <3> DEFINE k == Len(s) + 1
    <3>1. k \in 1..Len(x) /\ k <= Len(s) + 1 /\ k \in 1..(Len(s) + 1) /\ ~(k <= Len(s)) /\ k - Len(s) = 1
      BY <1>2, <1>3, <1>10
    <3> QED BY <1>5, <1>8, <1>10, <3>1
  <2>3. ASSUME NEW i \in 2..Len(w) PROVE x[Len(s) + i] = w[i]
    <3> DEFINE k == Len(s) + i
    <3>1. k \in 1..Len(x) /\ ~(k <= Len(s) + 1) /\ k - (Len(s) + 1) = i - 1 /\ i - 1 \in 1..Len(v) /\ (i - 1) + 1 = i
      BY <1>2, <1>3, <1>10
    <3> QED BY <1>2, <1>10, <3>1
  <2>4. Len(w) \in Nat \ {0} /\ Len(x) = Len(s) + Len(w)
    BY <1>2, <1>3, <1>10
  <2> QED BY <1>3, <1>10, <2>1, <2>2, <2>3, <2>4 DEF Cascades
<1>12. ASSUME NEW T PROVE Count(x, T) = Count(a, T) + Count(z, T) + Count(v, T)
  <2>1. Count(x, T) = Count(b, T) + Count(v, T)
    BY ONLY <1>1, <1>8, <1>9, CountConcat, Zenon
  <2>2. Count(b, T) = Count(a, T) + Count(z, T)
    BY ONLY <1>4, <1>5, <1>7, CountConcat, Zenon
  <2> QED BY <2>1, <2>2
<1>13. ASSUME NEW T, DeleteCall(c) \notin T PROVE Count(z, T) = 0
  <2>1. Matching(z, T) = {}
    BY <1>5, <1>13 DEF Matching
  <2> QED BY <1>5, <2>1, CountFinite
<1>14. ASSUME NEW y \in Hash
       PROVE  /\ Count(x, DropCalls(y))
                    = Count(s, {y}) + Count(v, DropCalls(y))
              /\ Count(x, RootCalls(y)) = Count(v, RootCalls(y))
  <2> DEFINE T == DropCalls(y)
             R == RootCalls(y)
  <2>1. DeleteCall(c) \notin T /\ DeleteCall(c) \notin R
    BY DEF DeleteCall, Calls, RootCalls, DropCalls
  <2>2. Matching(a, T) = Matching(s, {y})
    <3>1. ASSUME NEW i \in 1..Len(s) PROVE a[i] \in T <=> s[i] \in {y}
      <4>1. a[i] \in Call /\ a[i] = DereferenceCall(s[i], c) /\ c \in Key
        BY <1>4 DEF Key
      <4> QED BY <4>1 DEF DereferenceCall, Calls, DropCalls
    <3> HIDE DEF T
    <3> QED BY <1>4, <3>1 DEF Matching
  <2>3. Matching(a, R) = {}
    <3>1. ASSUME NEW i \in 1..Len(s) PROVE a[i] \notin R
      <4>1. a[i].op = "dereference"
        <5>1. a[i] = DereferenceCall(s[i], c)
          BY <1>4
        <5> QED BY <5>1 DEF DereferenceCall
      <4>2. \A f \in R : f.op = "reference"
        BY DEF Calls, RootCalls
      <4> QED BY <4>1, <4>2
    <3> HIDE DEF R
    <3> QED BY <1>4, <3>1 DEF Matching
  <2>4. Count(a, T) = Count(s, {y})
    BY <2>2 DEF Count
  <2>5. Count(a, R) = 0
    BY <1>4, <2>3, CountFinite
  <2>6. Count(v, T) \in Nat /\ Count(v, R) \in Nat /\ Count(s, {y}) \in Nat
    BY <1>1, CountFinite
  <2> HIDE DEF T, R
  <2>7. Count(x, T) = Count(s, {y}) + Count(v, T) /\ Count(x, R) = Count(v, R)
    <3>1. /\ Count(x, T) = Count(a, T) + Count(z, T) + Count(v, T)
          /\ Count(x, R) = Count(a, R) + Count(z, R) + Count(v, R)
      BY <1>12, Zenon
    <3>2. Count(z, T) = 0 /\ Count(z, R) = 0
      BY <1>13, <2>1, Zenon
    <3> QED BY ONLY <2>4, <2>5, <2>6, <3>1, <3>2
  <2> QED BY <2>7 DEF T, R
<1> QED BY <1>11, <1>14 DEF v

-----------------------------------------------------------------------------
(* The invariant of the parts of the state that the calls change.          *)

Good(d, o, n, w, r, D, L) ==
    /\ d \in Nodes /\ d[Meta] # Nil
    /\ o \in Key /\ n \in Key
    /\ w \in Seq(Call)
    /\ r \in [Hash -> Nat]
    /\ D = {h \in Hash : d[h] # Nil}
    /\ L = D \ CondemnedIn(w)
    /\ IsFiniteSet(L)
    /\ Linked(L, d, o, n)
    /\ OneKind(w)
    /\ Built(w, L, r)
    /\ Cascading(w, D)
    /\ ChildrenAreRoots(D, d)
    /\ RootsAreChildren(w, L, d)
    /\ Complete(L, r)
    /\ Counted(L, d, r, w)

\* The invariant is about the fields of the database, now ...
LEMMA GoodNow ==
    IInv <=> /\ Good(dirties, oldest, newest, work, refs, Dirty, Listed)
             /\ cleans \in SUBSET Hash
             /\ readers \in [Reader -> ReaderState]
<1>1. Dirty = {h \in Hash : dirties[h] # Nil} /\ Listed = Dirty \ CondemnedIn(work)
  BY CondemnedIs DEF Dirty, Listed
<1>2. TypeOK <=> /\ dirties \in Nodes /\ oldest \in Key /\ newest \in Key /\ cleans \in SUBSET Hash
                 /\ work \in Seq(Call) /\ refs \in [Hash -> Nat] /\ readers \in [Reader -> ReaderState]
  BY DEF TypeOK, Nodes
<1>3. FlushListLinked <=> Linked(Listed, dirties, oldest, newest)
  BY LinkedNow
<1>4. work \in Seq(Call) => (CountsExact <=> Counted(Listed, dirties, refs, work))
  BY CountedNow
<1> QED BY <1>1, <1>2, <1>3, <1>4, Zenon DEF IInv, Present, Good

\* ... and after a step.
LEMMA GoodNext ==
    IInv' <=> /\ Good(dirties', oldest', newest', work', refs', Dirty', Listed')
              /\ cleans' \in SUBSET Hash
              /\ readers' \in [Reader -> ReaderState]
<1>1. Dirty' = {h \in Hash : dirties'[h] # Nil} /\ Listed' = Dirty' \ CondemnedIn(work')
  BY CondemnedIs DEF Dirty, Listed
<1>2. TypeOK' <=> /\ dirties' \in Nodes /\ oldest' \in Key /\ newest' \in Key /\ cleans' \in SUBSET Hash
                  /\ work' \in Seq(Call) /\ refs' \in [Hash -> Nat] /\ readers' \in [Reader -> ReaderState]
  BY DEF TypeOK, Nodes
<1>3. FlushListLinked' <=> Linked(Listed', dirties', oldest', newest')
  BY LinkedNext
<1>4. work' \in Seq(Call) => (CountsExact' <=> Counted(Listed', dirties', refs', work'))
  BY CountedNext
<1>5. IInv' <=> /\ TypeOK' /\ dirties'[Meta] # Nil /\ IsFiniteSet(Listed')
                /\ FlushListLinked'
                /\ OneKind(work')
                /\ Built(work', Listed', refs')
                /\ Cascading(work', Dirty')
                /\ ChildrenAreRoots(Dirty', dirties')
                /\ RootsAreChildren(work', Listed', dirties')
                /\ Complete(Listed', refs')
                /\ CountsExact'
  BY DEF IInv, Present
<1> QED BY <1>1, <1>2, <1>3, <1>4, <1>5, Zenon DEF Good

\* The sets and the nodes the invariant is about.
LEMMA GoodFacts ==
    ASSUME NEW d, NEW o, NEW n, NEW w, NEW r, NEW D, NEW L, Good(d, o, n, w, r, D, L)
    PROVE  /\ D \subseteq Hash /\ L \subseteq D /\ Hash \subseteq Key /\ Meta \in Key /\ Meta \notin D
           /\ \A k \in D : k \in Key /\ d[k] # Nil
           /\ \A k \in Hash : k \in D <=> d[k] # Nil
           /\ \A k \in L : k \in Hash /\ k \in Key /\ d[k] # Nil /\ d[k].parents \in Nat
           /\ \A h \in D : h \in L \/ h \in CondemnedIn(w)
           /\ CondemnedIn(w) \subseteq D
           /\ \A i \in 1..Len(w) : w[i] \in Call
<1>1. D = {h \in Hash : d[h] # Nil} /\ L = D \ CondemnedIn(w) /\ d \in Nodes /\ w \in Seq(Call)
  BY DEF Good
<1>2. CondemnedIn(w) \subseteq D
  <2>1. \A h : DeleteCall(h).op = "delete" /\ DeleteCall(h).node = h
    BY DEF DeleteCall
  <2>2. Cascading(w, D)
    BY DEF Good
  <2> QED BY <2>1, <2>2 DEF Cascading, CondemnedIn
<1>3. Hash \subseteq Key /\ Meta \in Key /\ Meta \notin Hash
  BY TrieDatabaseAssumption DEF Key
<1>4. \A k \in L : k \in Key /\ d[k] # Nil
  BY <1>1, <1>3
<1>5. \A k \in L : d[k].parents \in Nat
  BY <1>1, <1>4, NodeFields
<1> QED BY <1>1, <1>2, <1>3, <1>4, <1>5

\* Nothing is condemned while nodes are added.
LEMMA Adding ==
    ASSUME NEW d, NEW o, NEW n, NEW w, NEW r, NEW D, NEW L, Good(d, o, n, w, r, D, L),
           w # <<>>, w[1].op \in {"insert", "reference"}
    PROVE  /\ L = D /\ CondemnedIn(w) = {}
           /\ \A i \in 1..Len(w) : w[i].op \in {"insert", "reference"}
<1>1. w \in Seq(Call) /\ OneKind(w) /\ L = D \ CondemnedIn(w) /\ D \subseteq Hash
  BY GoodFacts DEF Good
<1>2. 1 \in 1..Len(w)
  BY <1>1
<1>3. \A i \in 1..Len(w) : w[i].op \in {"insert", "reference"}
  BY <1>1, <1>2 DEF OneKind
<1>4. \A h : DeleteCall(h).op = "delete"
  BY DEF DeleteCall
<1>5. CondemnedIn(w) = {}
  BY <1>3, <1>4 DEF CondemnedIn
<1> QED BY <1>1, <1>3, <1>5

\* While the database removes nodes it does nothing else.
LEMMA Removing ==
    ASSUME NEW d, NEW o, NEW n, NEW w, NEW r, NEW D, NEW L, Good(d, o, n, w, r, D, L),
           w # <<>>, w[1].op \in {"dereference", "delete"}
    PROVE  \A i \in 1..Len(w) : w[i].op \in {"dereference", "delete"}
<1>1. w \in Seq(Call) /\ OneKind(w)
  BY DEF Good
<1>2. 1 \in 1..Len(w)
  BY <1>1
<1> QED BY <1>1, <1>2 DEF OneKind

\* A kind of call that does not occur.
LEMMA CountNone ==
    ASSUME NEW w \in Seq(Call), NEW op, NEW c, NEW parents,
           \A i \in 1..Len(w) : w[i].op = op => w[i].parent \notin parents
    PROVE  Count(w, Calls(op, c, parents)) = 0
<1>1. Matching(w, Calls(op, c, parents)) = {}
  BY DEF Matching, Calls
<1> QED BY <1>1, CountFinite, Zenon

\* Storage roots stay children of their accounts, or waiting to be.
LEMMA RootsAreChildrenPop ==
    ASSUME NEW w, NEW v, After(v, w), NEW L, NEW d, NEW e, RootsAreChildren(w, L, d),
           \A p \in L : d[p].children[StorageRoot[p]] # Nil => e[p].children[StorageRoot[p]] # Nil,
           \A p \in L : w[1] = ReferenceCall(StorageRoot[p], p) =>
               StorageRoot[p] \in Disk \/ e[p].children[StorageRoot[p]] # Nil
    PROVE  RootsAreChildren(v, L, e)
<1> SUFFICES ASSUME NEW p \in L, StorageRoot[p] # Nil, StorageRoot[p] \notin Disk,
                    e[p].children[StorageRoot[p]] = Nil
             PROVE  Holds(v, ReferenceCall(StorageRoot[p], p), Len(v))
  BY DEF RootsAreChildren
<1> DEFINE x == ReferenceCall(StorageRoot[p], p)
<1>1. Holds(w, x, Len(w))
  BY DEF RootsAreChildren
<1>2. PICK i \in 1..Len(w) : w[i] = x
  BY <1>1 DEF Holds
<1>3. i # 1
  BY <1>2
<1>4. i - 1 \in 1..Len(v) /\ (i - 1) + 1 = i
  BY <1>3 DEF After
<1>5. v[i - 1] = x
  BY <1>2, <1>4 DEF After
<1> QED BY <1>4, <1>5 DEF Holds

\* A call that leaves all nodes where they are.
LEMMA Popped ==
    ASSUME NEW d, NEW o, NEW n, NEW w, NEW r, NEW D, NEW L, Good(d, o, n, w, r, D, L),
           NEW v, After(v, w), w[1].op # "delete", \A h : w[1] = InsertCall(h) => h \in L,
           NEW e \in Nodes, \A k \in Key : (e[k] = Nil <=> d[k] = Nil),
           \A k \in L : e[k].flushNext = d[k].flushNext /\ e[k].flushPrev = d[k].flushPrev,
           ChildrenAreRoots(D, e), RootsAreChildren(v, L, e), Counted(L, e, r, v)
    PROVE  Good(e, o, n, v, r, D, L)
<1>1. /\ d[Meta] # Nil /\ o \in Key /\ n \in Key /\ r \in [Hash -> Nat] /\ D = {h \in Hash : d[h] # Nil}
      /\ L = D \ CondemnedIn(w) /\ IsFiniteSet(L) /\ Linked(L, d, o, n) /\ OneKind(w)
      /\ Built(w, L, r) /\ Cascading(w, D) /\ Complete(L, r) /\ w \in Seq(Call)
  BY DEF Good
<1>2. Hash \subseteq Key /\ Meta \in Key
  BY GoodFacts
<1>3. e[Meta] # Nil /\ D = {h \in Hash : e[h] # Nil}
  BY <1>1, <1>2
<1>4. CondemnedIn(v) = CondemnedIn(w)
  BY CondemnedPop
<1>5. Linked(L, e, o, n)
  BY <1>1, LinkedSame
<1>6. OneKind(v)
  BY <1>1, OneKindPop
<1>7. Built(v, L, r)
  BY <1>1, BuiltPop
<1>8. Cascading(v, D)
  BY <1>1, CascadingPop
<1>9. v \in Seq(Call)
  BY DEF After
<1> QED BY <1>1, <1>3, <1>4, <1>5, <1>6, <1>7, <1>8, <1>9, Zenon DEF Good

-----------------------------------------------------------------------------
(* insert.                                                                 *)

\* What a call that returns leaves to be done.
LEMMA ReturnsFacts ==
    ASSUME work \in Seq(Call), ~Unlocked, Returns(<<>>)
    PROVE  /\ work # <<>> /\ After(work', work) /\ Head(work) = work[1] /\ work[1] \in Call
           /\ work' \in Seq(Call) /\ refs' = refs /\ cleans' = cleans /\ readers' = readers
           /\ \A T : /\ Count(work, T) = Count(work', T) + (IF work[1] \in T THEN 1 ELSE 0)
                     /\ Count(work, T) \in Nat /\ Count(work', T) \in Nat
<1>1. work # <<>>
  BY DEF Unlocked
<1>2. work' = Tail(work)
  BY <1>1, PopFacts, Zenon DEF Returns
<1>3. /\ After(Tail(work), work) /\ Head(work) = work[1] /\ work[1] \in Call /\ Tail(work) \in Seq(Call)
      /\ \A T : /\ Count(work, T) = Count(Tail(work), T) + (IF work[1] \in T THEN 1 ELSE 0)
                /\ Count(work, T) \in Nat /\ Count(Tail(work), T) \in Nat
  BY <1>1, PopFacts, Zenon
<1>4. refs' = refs /\ cleans' = cleans /\ readers' = readers
  BY DEF Returns
<1> QED BY <1>1, <1>2, <1>3, <1>4, Zenon

\* A call of insert is in no count.
LEMMA InsertUncounted ==
    ASSUME NEW h, NEW c
    PROVE  /\ InsertCall(h) \notin RootCalls(c)
           /\ InsertCall(h) \notin DropCalls(c)
           /\ DeleteCall(h) \notin RootCalls(c)
           /\ DeleteCall(h) \notin DropCalls(c)
  BY DEF InsertCall, DeleteCall, Calls, RootCalls, DropCalls

\* insert of a node that is there changes nothing ...
LEMMA InsertSkips ==
    ASSUME IInv, insert, Head(work).node \in Dirty
    PROVE  IInv' /\ Listed' = Listed /\ refs' = refs
<1> DEFINE h == Head(work).node
<1>1. /\ Good(dirties, oldest, newest, work, refs, Dirty, Listed)
      /\ cleans \in SUBSET Hash /\ readers \in [Reader -> ReaderState]
  BY GoodNow
<1>2. work \in Seq(Call) /\ ~Unlocked /\ Head(work).op = "insert" /\ Returns(<<>>)
      /\ dirties' = dirties /\ oldest' = oldest /\ newest' = newest
  BY <1>1 DEF insert, Calling, Good
<1>3. /\ work # <<>> /\ After(work', work) /\ Head(work) = work[1] /\ work[1] \in Call
      /\ work' \in Seq(Call) /\ refs' = refs /\ cleans' = cleans /\ readers' = readers
      /\ \A T : /\ Count(work, T) = Count(work', T) + (IF work[1] \in T THEN 1 ELSE 0)
                /\ Count(work, T) \in Nat /\ Count(work', T) \in Nat
  BY <1>2, ReturnsFacts, Zenon
<1>4. Dirty' = Dirty
  BY <1>2 DEF Dirty
<1>5. work[1] = InsertCall(h) /\ work[1].op = "insert"
  BY <1>2, <1>3, CallFields
<1>6. Listed = Dirty
  BY <1>1, <1>3, <1>5, Adding
<1>7. Listed' = Listed
  <2>1. CondemnedIn(work') = CondemnedIn(work)
    BY <1>3, <1>5, CondemnedPop
  <2> QED BY <1>4, <2>1, CondemnedIs DEF Listed
<1>8. \A T : InsertCall(h) \notin T => Count(work', T) = Count(work, T)
  BY <1>3, <1>5
<1>9. Counted(Listed, dirties, refs, work')
  <2>1. Counted(Listed, dirties, refs, work)
    BY <1>1 DEF Good
  <2>2. \A c : HoldersOf(Listed, dirties, refs, work', c) = HoldersOf(Listed, dirties, refs, work, c)
    BY <1>8, InsertUncounted DEF HoldersOf
  <2> QED BY <2>1, <2>2 DEF Counted
<1>10. RootsAreChildren(work', Listed, dirties)
  <2>1. \A c, p : work[1] # ReferenceCall(c, p)
    BY <1>5 DEF ReferenceCall
  <2>2. RootsAreChildren(work, Listed, dirties)
    BY <1>1 DEF Good
  <2> QED BY <1>3, <2>1, <2>2, RootsAreChildrenPop
<1>11. \A g : work[1] = InsertCall(g) => g \in Listed
  BY <1>5, <1>6 DEF InsertCall
<1>12. dirties \in Nodes /\ ChildrenAreRoots(Dirty, dirties)
  BY <1>1 DEF Good
<1>13. Good(dirties, oldest, newest, work', refs, Dirty, Listed)
  BY <1>1, <1>3, <1>5, <1>9, <1>10, <1>11, <1>12, Popped
<1> QED BY <1>1, <1>2, <1>3, <1>4, <1>7, <1>13, GoodNext

\* ... and of another one appends it with the edges to its children.
LEMMA InsertAdds ==
    ASSUME IInv, insert, Head(work).node \notin Dirty
    PROVE  /\ IInv'
           /\ Listed' = Listed \cup {Head(work).node} /\ Head(work).node \in Hash \ Listed
           /\ Succ[Head(work).node] \subseteq Listed \cup Disk
           /\ refs' = refs
<1> DEFINE h == Head(work).node
<1>1. /\ Good(dirties, oldest, newest, work, refs, Dirty, Listed)
      /\ cleans \in SUBSET Hash /\ readers \in [Reader -> ReaderState]
  BY GoodNow
<1>2. work \in Seq(Call) /\ ~Unlocked /\ Head(work).op = "insert" /\ Returns(<<>>) /\ Enqueue(h)
  BY <1>1 DEF insert, Calling, Good
<1>3. /\ work # <<>> /\ After(work', work) /\ Head(work) = work[1] /\ work[1] \in Call
      /\ work' \in Seq(Call) /\ refs' = refs /\ cleans' = cleans /\ readers' = readers
      /\ \A T : /\ Count(work, T) = Count(work', T) + (IF work[1] \in T THEN 1 ELSE 0)
                /\ Count(work, T) \in Nat /\ Count(work', T) \in Nat
  BY <1>2, ReturnsFacts, Zenon
<1>4. work[1] = InsertCall(h) /\ work[1].op = "insert" /\ h \in Hash \ Dirty /\ work[1].node = h
  BY <1>2, <1>3, CallFields
<1> HIDE DEF h
<1>5. Listed = Dirty /\ CondemnedIn(work) = {} /\ \A i \in 1..Len(work) : work[i].op \in {"insert", "reference"}
  BY <1>1, <1>3, <1>4, Adding
<1>6. /\ dirties \in Nodes /\ dirties[Meta] # Nil /\ oldest \in Key /\ newest \in Key
      /\ refs \in [Hash -> Nat] /\ IsFiniteSet(Listed) /\ Linked(Listed, dirties, oldest, newest)
      /\ OneKind(work) /\ Built(work, Listed, refs) /\ Cascading(work, Dirty)
      /\ ChildrenAreRoots(Dirty, dirties) /\ RootsAreChildren(work, Listed, dirties)
      /\ Complete(Listed, refs) /\ Counted(Listed, dirties, refs, work)
  BY <1>1 DEF Good
<1>7. /\ dirties' \in Nodes /\ dirties'[Meta] # Nil
      /\ oldest' = (IF oldest = Meta THEN h ELSE oldest) /\ newest' = h
      /\ dirties'[h] # Nil /\ dirties'[h].parents = 0
      /\ dirties'[h].flushPrev = newest /\ dirties'[h].flushNext = Meta
      /\ \A c \in Hash : dirties'[h].children[c] = Nil
      /\ \A k \in Hash \ (Dirty \cup {h}) : dirties'[k] = Nil
      /\ \A k \in Dirty :
            /\ dirties'[k] # Nil
            /\ dirties'[k].parents = dirties[k].parents + Occurs(h, k)
            /\ dirties'[k].children = dirties[k].children
            /\ dirties'[k].flushPrev = dirties[k].flushPrev
            /\ k # newest => dirties'[k].flushNext = dirties[k].flushNext
      /\ Dirty # {} => dirties'[newest].flushNext = h
  BY <1>2, <1>4, <1>5, <1>6, EnqueueFields
<1> DEFINE M == Listed \cup {h}
<1>8. h \in Hash /\ h \notin Listed /\ Listed \subseteq Hash /\ Meta \notin Listed
      /\ (\A k \in Hash : k \in Dirty <=> dirties[k] # Nil) /\ h \in Key /\ Dirty \subseteq Hash
      /\ \A k \in Listed : dirties[k].parents \in Nat
  BY <1>1, <1>4, <1>5, GoodFacts
<1>9. Dirty' = M /\ Dirty' = {k \in Hash : dirties'[k] # Nil}
  <2>1. Dirty' = {k \in Hash : dirties'[k] # Nil}
    BY DEF Dirty
  <2> QED BY <1>5, <1>7, <1>8, <2>1
<1>10. CondemnedIn(work') = {}
  BY <1>3, <1>4, <1>5, CondemnedPop
<1>11. Listed' = M
  BY <1>9, <1>10, CondemnedIs DEF Listed
<1>12. Linked(M, dirties', oldest', newest')
  <2>1. /\ \A g \in Listed : dirties'[g].flushPrev = dirties[g].flushPrev
        /\ \A g \in Listed : g # newest => dirties'[g].flushNext = dirties[g].flushNext
        /\ Listed # {} => dirties'[newest].flushNext = h
    BY <1>5, <1>7
  <2>2. M = Listed \cup {h}
    OBVIOUS
  <2> HIDE DEF M
  <2>3. Appends(Listed, dirties, dirties', oldest, newest, h, M, oldest')
    BY <1>7, <1>8, <2>1, <2>2 DEF Appends
  <2>4. Linked(M, dirties', oldest', h)
    BY <1>6, <2>3, LinkedAppend
  <2> QED BY <1>7, <2>4
<1>13. OneKind(work')
  BY <1>3, <1>6, OneKindPop
<1>14. Built(work', M, refs)
  <2>1. \A g : work[1] = InsertCall(g) => g \in M
    BY <1>4 DEF InsertCall
  <2> QED BY <1>3, <1>6, <2>1, BuiltPop
<1>15. Cascading(work', M)
  BY <1>3, <1>5, <1>6, CascadingPop
<1>16. ChildrenAreRoots(M, dirties')
  BY <1>5, <1>6, <1>7 DEF ChildrenAreRoots
<1>17. 1 \in 1..Len(work) /\ Len(work) \in Nat
  BY <1>3 DEF After
<1>18. /\ Succ[h] \subseteq Listed \cup Disk
       /\ StorageRoot[h] # Nil => \E j \in 2..Len(work) : work[j] = ReferenceCall(StorageRoot[h], h)
  <2>1. /\ \A g \in Succ[h] : g \in Listed \cup Disk \/ Holds(work, InsertCall(g), 1 - 1)
        /\ StorageRoot[h] # Nil =>
              \E j \in (1 + 1)..Len(work) : work[j] = ReferenceCall(StorageRoot[h], h)
    BY <1>4, <1>6, <1>17 DEF Built
  <2>2. \A x : ~Holds(work, x, 1 - 1)
    BY DEF Holds
  <2> QED BY <2>1, <2>2
<1>19. RootsAreChildren(work', M, dirties')
  <2>1. \A c, p : work[1] # ReferenceCall(c, p)
    BY <1>4 DEF ReferenceCall
  <2>2. RootsAreChildren(work', Listed, dirties')
    BY <1>3, <1>5, <1>6, <1>7, <2>1, RootsAreChildrenPop
  <2>3. StorageRoot[h] # Nil => Holds(work', ReferenceCall(StorageRoot[h], h), Len(work'))
    <3> SUFFICES ASSUME StorageRoot[h] # Nil PROVE Holds(work', ReferenceCall(StorageRoot[h], h), Len(work'))
      OBVIOUS
    <3>1. PICK j \in 2..Len(work) : work[j] = ReferenceCall(StorageRoot[h], h)
      BY <1>18
    <3>2. j - 1 \in 1..Len(work') /\ (j - 1) + 1 = j
      BY <1>3 DEF After
    <3>3. work'[j - 1] = ReferenceCall(StorageRoot[h], h)
      BY <1>3, <3>1, <3>2 DEF After
    <3> QED BY <3>2, <3>3 DEF Holds
  <2> QED BY <2>2, <2>3 DEF RootsAreChildren
<1>20. Complete(M, refs)
  BY <1>6, <1>18 DEF Complete
<1>21. IsFiniteSet(M)
  BY <1>6, FS_AddElement
<1>22. \A T : InsertCall(h) \notin T => Count(work', T) = Count(work, T)
  BY <1>3, <1>4
<1>23. ASSUME NEW c \in Hash
       PROVE  /\ Cardinality(Inner(M, c)) = Cardinality(Inner(Listed, c)) + Occurs(h, c)
              /\ Outer(M, dirties', c) = Outer(Listed, dirties, c)
              /\ Count(work', RootCalls(c)) = Count(work, RootCalls(c))
              /\ Count(work', DropCalls(c)) = Count(work, DropCalls(c))
              /\ Cardinality(Inner(Listed, c)) \in Nat /\ Cardinality(Outer(Listed, dirties, c)) \in Nat
              /\ Occurs(h, c) \in Nat /\ refs[c] \in Nat
  <2>1. Cardinality(Inner(M, c)) = Cardinality(Inner(Listed, c)) + Occurs(h, c)
    BY <1>6, <1>8, InnerAdd
  <2>2. Outer(M, dirties', c) = Outer(Listed, dirties, c)
    BY <1>5, <1>7 DEF Outer
  <2>3. /\ Count(work', RootCalls(c)) = Count(work, RootCalls(c))
        /\ Count(work', DropCalls(c)) = Count(work, DropCalls(c))
    BY <1>22, InsertUncounted
  <2>4. Cardinality(Inner(Listed, c)) \in Nat /\ Cardinality(Outer(Listed, dirties, c)) \in Nat
    BY <1>6, <1>8, InnerFinite, OuterFinite
  <2>5. Occurs(h, c) \in Nat /\ refs[c] \in Nat
    BY <1>6, <1>8, InnerFromFinite
  <2> QED BY <2>1, <2>2, <2>3, <2>4, <2>5
<1> HIDE DEF M
<1>24. /\ Count(work, RootCalls(h)) = 0
       /\ Count(work, DropCalls(h)) = 0
  <2>1. \A i \in 1..Len(work) : work[i].op = "reference" => work[i].parent \notin {Meta}
    <3> SUFFICES ASSUME NEW i \in 1..Len(work), work[i].op = "reference", work[i].parent = Meta PROVE FALSE
      OBVIOUS
    <3>1. Len(work) = 1
      BY <1>6 DEF Built
    <3>2. i = 1
      BY <3>1
    <3> QED BY <1>4, <3>2
  <2>2. \A i \in 1..Len(work) : work[i].op = "dereference" => work[i].parent \notin Key
    BY <1>5
  <2> QED BY <1>2, <2>1, <2>2, CountNone, Zenon DEF RootCalls, DropCalls
<1>25. /\ 0 <= HoldersOf(M, dirties', refs, work', h)
       /\ h \notin Disk => HoldersOf(M, dirties', refs, work', h) = 0
  <2>1. HoldersOf(M, dirties', refs, work', h)
           = Cardinality(Inner(Listed, h)) + Occurs(h, h) + Cardinality(Outer(Listed, dirties, h)) + refs[h]
    BY <1>8, <1>23, <1>24 DEF HoldersOf
  <2>2. 0 <= HoldersOf(M, dirties', refs, work', h)
    BY <1>8, <1>23, <2>1
  <2>3. ASSUME h \notin Disk
        PROVE  /\ Inner(Listed, h) = {} /\ Outer(Listed, dirties, h) = {} /\ refs[h] = 0
               /\ Positions(h, h) = {}
    <3>1. \A p \in Listed : h \notin Succ[p]
      BY <1>6, <1>8, <2>3 DEF Complete
    <3>2. \A p \in Hash : h \notin Succ[p] => Positions(p, h) = {}
      BY SuccHash DEF Positions
    <3>3. Inner(Listed, h) = {}
      BY <1>8, <3>1, <3>2 DEF Inner, InnerFrom
    <3>4. Outer(Listed, dirties, h) = {}
      <4> SUFFICES ASSUME NEW p \in Listed, dirties[p].children[h] # Nil PROVE FALSE
        BY DEF Outer
      <4>1. h = StorageRoot[p]
        BY <1>5, <1>6, <1>8 DEF ChildrenAreRoots
      <4>2. h # Nil
        BY <1>8, TrieDatabaseAssumption
      <4> QED BY <1>8, <3>1, <4>1, <4>2, SuccHash
    <3>5. refs[h] = 0
      BY <1>6, <1>8, <2>3 DEF Complete
    <3>6. Positions(h, h) = {}
      BY <1>8, <3>2, NoCycle, BelowFacts
    <3> QED BY <3>3, <3>4, <3>5, <3>6
  <2>4. ASSUME h \notin Disk PROVE HoldersOf(M, dirties', refs, work', h) = 0
    <3>1. Cardinality(Inner(Listed, h)) = 0 /\ Cardinality(Outer(Listed, dirties, h)) = 0
      BY <2>3, <2>4, FS_EmptySet
    <3>2. Occurs(h, h) = 0 /\ refs[h] = 0
      BY <1>8, <2>3, <2>4, InnerFromFinite
    <3> QED BY <2>1, <3>1, <3>2
  <2> QED BY <2>2, <2>4
<1>26. Counted(M, dirties', refs, work')
  <2>1. ASSUME NEW c \in Listed
        PROVE  /\ dirties'[c].parents \in 0..HoldersOf(M, dirties', refs, work', c)
               /\ c \notin Disk => dirties'[c].parents = HoldersOf(M, dirties', refs, work', c)
    <3>1. c \in Hash /\ dirties[c].parents \in Nat
      BY <1>8
    <3>2. /\ Count(work, RootCalls(c)) \in Nat
          /\ Count(work, DropCalls(c)) \in Nat
      BY <1>3, Zenon
    <3>3. HoldersOf(M, dirties', refs, work', c) = HoldersOf(Listed, dirties, refs, work, c) + Occurs(h, c)
      BY <1>23, <3>1, <3>2 DEF HoldersOf
    <3>4. HoldersOf(Listed, dirties, refs, work, c) \in Int
      BY <1>23, <3>1, <3>2 DEF HoldersOf
    <3>5. /\ dirties[c].parents \in 0..HoldersOf(Listed, dirties, refs, work, c)
          /\ c \notin Disk => dirties[c].parents = HoldersOf(Listed, dirties, refs, work, c)
      BY <1>6 DEF Counted
    <3>6. dirties'[c].parents = dirties[c].parents + Occurs(h, c) /\ Occurs(h, c) \in Nat
      BY <1>5, <1>7, <1>23, <3>1
    <3> QED BY <3>1, <3>3, <3>4, <3>5, <3>6
  <2>2. HoldersOf(M, dirties', refs, work', h) \in Int
    BY <1>3, <1>8, <1>23 DEF HoldersOf
  <2>3. /\ dirties'[h].parents \in 0..HoldersOf(M, dirties', refs, work', h)
        /\ h \notin Disk => dirties'[h].parents = HoldersOf(M, dirties', refs, work', h)
    BY <1>7, <1>25, <2>2
  <2> QED BY <2>1, <2>3 DEF Counted, M
<1>27. oldest' \in Key /\ newest' \in Key
  BY <1>6, <1>7, <1>8
<1>28. M = M \ CondemnedIn(work')
  BY <1>10
<1>29. Good(dirties', oldest', newest', work', refs', Dirty', Listed')
  BY <1>3, <1>6, <1>7, <1>9, <1>11, <1>12, <1>13, <1>14, <1>15, <1>16, <1>19, <1>20, <1>21, <1>26, <1>27, <1>28, Zenon DEF Good
<1>30. IInv'
  BY <1>1, <1>3, <1>29, GoodNext, Zenon
<1> QED BY <1>3, <1>8, <1>11, <1>18, <1>30 DEF M, h

-----------------------------------------------------------------------------
(* reference.                                                              *)

\* The counts the calls of reference and dereference are in.
LEMMA CallsCounted ==
    ASSUME NEW c \in Hash, NEW p \in Key, NEW x
    PROVE  /\ ReferenceCall(c, p) \in RootCalls(x) <=> c = x /\ p = Meta
           /\ ReferenceCall(c, p) \notin DropCalls(x)
           /\ DereferenceCall(c, p) \in DropCalls(x) <=> c = x
           /\ DereferenceCall(c, p) \notin RootCalls(x)
<1>1. ReferenceCall(c, p) \in Call /\ DereferenceCall(c, p) \in Call
  BY DEF ReferenceCall, DereferenceCall, Call
<1> QED BY <1>1 DEF ReferenceCall, DereferenceCall, RootCalls, DropCalls, Calls

\* The parents of c and what refers to it change by m, those of others do not.
CountsFollow(L, d, e, r, w, v, c, m) ==
    \A x \in L :
        /\ e[x].parents = d[x].parents + (IF x = c THEN m ELSE 0)
        /\ e[x].parents \in Nat
        /\ HoldersOf(L, e, r, v, x) = HoldersOf(L, d, r, w, x) + (IF x = c THEN m ELSE 0)

\* A step that moves one reference from the work list to a count, or back, keeps the counts.
LEMMA CountedMove ==
    ASSUME NEW L \in SUBSET Hash, NEW d, NEW e, NEW r \in [Hash -> Nat], NEW w \in Seq(Call), NEW v,
           IsFiniteSet(L), Counted(L, d, r, w), \A x \in L : d[x].parents \in Nat,
           NEW c, NEW m \in Int, CountsFollow(L, d, e, r, w, v, c, m)
    PROVE  Counted(L, e, r, v)
<1> SUFFICES ASSUME NEW x \in L
             PROVE  /\ e[x].parents \in 0..HoldersOf(L, e, r, v, x)
                    /\ x \notin Disk => e[x].parents = HoldersOf(L, e, r, v, x)
  BY DEF Counted
<1> DEFINE k == IF x = c THEN m ELSE 0
<1>1. /\ Cardinality(Inner(L, x)) \in Nat /\ Cardinality(Outer(L, d, x)) \in Nat /\ r[x] \in Nat
      /\ Count(w, RootCalls(x)) \in Nat /\ Count(w, DropCalls(x)) \in Nat
  BY InnerFinite, OuterFinite, CountFinite
<1>2. HoldersOf(L, d, r, w, x) \in Int
  BY <1>1 DEF HoldersOf
<1>3. /\ d[x].parents \in 0..HoldersOf(L, d, r, w, x)
      /\ x \notin Disk => d[x].parents = HoldersOf(L, d, r, w, x)
  BY DEF Counted
<1>4. e[x].parents = d[x].parents + k /\ HoldersOf(L, e, r, v, x) = HoldersOf(L, d, r, w, x) + k /\ k \in Int
      /\ e[x].parents \in Nat
  BY DEF CountsFollow
<1> HIDE DEF k
<1> QED BY <1>2, <1>3, <1>4

\* reference keeps the invariant.
LEMMA ReferenceKeeps ==
    ASSUME IInv, reference
    PROVE  IInv' /\ Listed' = Listed /\ refs' = refs
<1> DEFINE c == Head(work).child
           p == Head(work).parent
<1>1. /\ Good(dirties, oldest, newest, work, refs, Dirty, Listed)
      /\ cleans \in SUBSET Hash /\ readers \in [Reader -> ReaderState]
  BY GoodNow
<1>2. work \in Seq(Call) /\ ~Unlocked /\ Head(work).op = "reference" /\ Returns(<<>>)
      /\ dirties' = Referenced(c, p) /\ oldest' = oldest /\ newest' = newest
  BY <1>1 DEF reference, Calling, Good
<1>3. /\ work # <<>> /\ After(work', work) /\ Head(work) = work[1] /\ work[1] \in Call
      /\ work' \in Seq(Call) /\ refs' = refs /\ cleans' = cleans /\ readers' = readers
      /\ \A T : /\ Count(work, T) = Count(work', T) + (IF work[1] \in T THEN 1 ELSE 0)
                /\ Count(work, T) \in Nat /\ Count(work', T) \in Nat
  BY <1>2, ReturnsFacts, Zenon
<1>4. work[1] = ReferenceCall(c, p) /\ work[1].op = "reference" /\ c \in Hash /\ p \in Key
      /\ work[1].child = c /\ work[1].parent = p
  BY <1>2, <1>3, CallFields
<1> HIDE DEF c, p
<1>5. Listed = Dirty /\ CondemnedIn(work) = {}
  BY <1>1, <1>3, <1>4, Adding
<1>6. /\ dirties \in Nodes /\ dirties[Meta] # Nil /\ refs \in [Hash -> Nat] /\ IsFiniteSet(Listed)
      /\ Built(work, Listed, refs) /\ ChildrenAreRoots(Dirty, dirties)
      /\ RootsAreChildren(work, Listed, dirties)
      /\ Complete(Listed, refs) /\ Counted(Listed, dirties, refs, work)
  BY <1>1 DEF Good
<1>7. /\ Listed \subseteq Hash /\ Hash \subseteq Key /\ Meta \notin Listed /\ Dirty \subseteq Hash
      /\ \A k \in Listed : k \in Key /\ dirties[k] # Nil /\ dirties[k].parents \in Nat
  BY <1>1, <1>5, GoodFacts
<1>8. p # Meta => c = StorageRoot[p] /\ p \in Listed /\ c \in Succ[p] /\ c # p
  <2>1. 1 \in 1..Len(work)
    BY <1>3 DEF After
  <2>2. p # Meta => c = StorageRoot[p] /\ (p \in Listed \/ Holds(work, InsertCall(p), 1 - 1))
    BY <1>4, <1>6, <2>1 DEF Built
  <2>3. ~Holds(work, InsertCall(p), 1 - 1)
    BY DEF Holds
  <2>4. c # Nil
    BY <1>4, TrieDatabaseAssumption
  <2>5. ASSUME p \in Listed, c = StorageRoot[p] PROVE c \in Succ[p]
    BY <1>7, <2>4, <2>5, SuccHash
  <2>6. ASSUME p \in Hash PROVE p \notin Succ[p]
    BY <2>6, NoCycle, BelowFacts
  <2> QED BY <1>7, <2>2, <2>3, <2>5, <2>6
<1>9. c # p /\ dirties[p] # Nil
  BY <1>4, <1>6, <1>7, <1>8, TrieDatabaseAssumption
<1>10. \A x : /\ Count(work', RootCalls(x)) = Count(work, RootCalls(x)) - (IF x = c /\ p = Meta THEN 1 ELSE 0)
              /\ Count(work', DropCalls(x)) = Count(work, DropCalls(x))
              /\ Count(work, RootCalls(x)) \in Nat /\ Count(work, DropCalls(x)) \in Nat
  <2> SUFFICES ASSUME NEW x
               PROVE  /\ Count(work', RootCalls(x))
                            = Count(work, RootCalls(x)) - (IF x = c /\ p = Meta THEN 1 ELSE 0)
                      /\ Count(work', DropCalls(x)) = Count(work, DropCalls(x))
                      /\ Count(work, RootCalls(x)) \in Nat /\ Count(work, DropCalls(x)) \in Nat
    OBVIOUS
  <2>1. (work[1] \in RootCalls(x) <=> c = x /\ p = Meta) /\ work[1] \notin DropCalls(x)
    BY <1>4, CallsCounted
  <2>2. /\ Count(work, RootCalls(x)) = Count(work', RootCalls(x)) + (IF work[1] \in RootCalls(x) THEN 1 ELSE 0)
        /\ Count(work, DropCalls(x)) = Count(work', DropCalls(x)) + (IF work[1] \in DropCalls(x) THEN 1 ELSE 0)
        /\ Count(work, RootCalls(x)) \in Nat /\ Count(work, DropCalls(x)) \in Nat
        /\ Count(work', RootCalls(x)) \in Nat /\ Count(work', DropCalls(x)) \in Nat
    BY <1>3, Zenon
  <2> QED BY <2>1, <2>2
<1>11. \A x \in Hash : /\ Cardinality(Inner(Listed, x)) \in Nat /\ Cardinality(Outer(Listed, dirties, x)) \in Nat
                       /\ refs[x] \in Nat
  BY <1>6, <1>7, InnerFinite, OuterFinite
<1>12. \A q \in Listed : work[1] = ReferenceCall(StorageRoot[q], q) => q = p /\ p # Meta
  BY <1>4, <1>7 DEF ReferenceCall
<1>13. CASE c \notin Dirty \/ (dirties[p].children[c] # Nil /\ p # Meta)
  <2>1. dirties' = dirties
    BY <1>2, <1>13 DEF Referenced
  <2>2. ASSUME NEW x \in Listed PROVE HoldersOf(Listed, dirties, refs, work', x) = HoldersOf(Listed, dirties, refs, work, x)
    <3>1. ~(x = c /\ p = Meta)
      BY <1>5, <1>13
    <3>2. /\ Count(work', RootCalls(x)) = Count(work, RootCalls(x))
          /\ Count(work', DropCalls(x)) = Count(work, DropCalls(x))
      BY <1>10, <3>1
    <3> QED BY <3>2 DEF HoldersOf
  <2>3. Counted(Listed, dirties, refs, work')
    BY <1>6, <2>2 DEF Counted
  <2>4. RootsAreChildren(work', Listed, dirties)
    <3>1. ASSUME NEW q \in Listed, work[1] = ReferenceCall(StorageRoot[q], q)
          PROVE  StorageRoot[q] \in Disk \/ dirties[q].children[StorageRoot[q]] # Nil
      <4>1. q = p /\ c = StorageRoot[p] /\ c \in Succ[p]
        BY <1>8, <1>12, <3>1
      <4>2. c \in Listed \cup Disk
        BY <1>6, <4>1 DEF Complete
      <4> QED BY <1>5, <1>13, <4>1, <4>2
    <3> QED BY <1>3, <1>6, <3>1, RootsAreChildrenPop
  <2>5. \A h : work[1] # InsertCall(h)
    BY <1>4 DEF InsertCall
  <2>6. Good(dirties, oldest, newest, work', refs, Dirty, Listed)
    BY <1>1, <1>3, <1>4, <1>6, <2>3, <2>4, <2>5, Popped
  <2>7. Dirty' = Dirty
    BY <2>1 DEF Dirty
  <2>8. Listed' = Listed
    <3>1. CondemnedIn(work') = CondemnedIn(work)
      BY <1>3, <1>4, CondemnedPop
    <3> QED BY <2>7, <3>1, CondemnedIs DEF Listed
  <2>9. Good(dirties', oldest', newest', work', refs', Dirty', Listed')
    BY <1>2, <1>3, <2>1, <2>6, <2>7, <2>8, Zenon
  <2> QED BY <1>1, <1>3, <2>8, <2>9, GoodNext, Zenon
<1>14. CASE c \in Dirty /\ ~(dirties[p].children[c] # Nil /\ p # Meta)
  <2>1. /\ dirties' \in Nodes
        /\ \A k \in Key : (dirties'[k] = Nil <=> dirties[k] = Nil)
        /\ \A k \in Key : dirties[k] # Nil =>
              /\ dirties'[k].flushPrev = dirties[k].flushPrev
              /\ dirties'[k].flushNext = dirties[k].flushNext
              /\ dirties'[k].parents = dirties[k].parents + (IF k = c THEN 1 ELSE 0)
              /\ k # p => dirties'[k].children = dirties[k].children
        /\ dirties'[p].children[c] # Nil
        /\ \A x \in Hash \ {c} : dirties'[p].children[x] = dirties[p].children[x]
    BY <1>2, <1>4, <1>6, <1>9, <1>14, ReferencedFields
  <2>2. ASSUME NEW x \in Listed
        PROVE  HoldersOf(Listed, dirties', refs, work', x)
                  = HoldersOf(Listed, dirties, refs, work, x) + (IF x = c THEN 1 ELSE 0)
    <3>1. x \in Hash
      BY <1>7
    <3>2. CASE x # c
      <4>1. Outer(Listed, dirties', x) = Outer(Listed, dirties, x)
        BY <1>7, <2>1, <3>1, <3>2 DEF Outer
      <4> QED BY <1>10, <1>11, <3>1, <3>2, <4>1 DEF HoldersOf
    <3>3. CASE x = c /\ p = Meta
      <4>1. Outer(Listed, dirties', x) = Outer(Listed, dirties, x)
        BY <1>7, <2>1, <3>1, <3>3 DEF Outer
      <4> QED BY <1>10, <1>11, <3>1, <3>3, <4>1 DEF HoldersOf
    <3>4. CASE x = c /\ p # Meta
      <4>1. Outer(Listed, dirties', x) = Outer(Listed, dirties, x) \cup {p} /\ p \notin Outer(Listed, dirties, x)
        BY <1>7, <1>8, <1>14, <2>1, <3>1, <3>4 DEF Outer
      <4>2. IsFiniteSet(Outer(Listed, dirties, x))
        BY <1>6, OuterFinite
      <4>3. Cardinality(Outer(Listed, dirties', x)) = Cardinality(Outer(Listed, dirties, x)) + 1
        BY <4>1, <4>2, FS_AddElement
      <4> QED BY <1>10, <1>11, <3>1, <3>4, <4>3 DEF HoldersOf
    <3> QED BY <3>2, <3>3, <3>4
  <2>3. Counted(Listed, dirties', refs, work')
    <3>1. \A x \in Listed : /\ dirties'[x].parents = dirties[x].parents + (IF x = c THEN 1 ELSE 0)
                            /\ dirties'[x].parents \in Nat
      BY <1>7, <2>1
    <3>2. CountsFollow(Listed, dirties, dirties', refs, work, work', c, 1)
      BY <2>2, <3>1 DEF CountsFollow
    <3>3. \A x \in Listed : dirties[x].parents \in Nat
      BY <1>7
    <3> QED BY <1>2, <1>6, <1>7, <3>2, <3>3, CountedMove
  <2>4. ChildrenAreRoots(Dirty, dirties')
    <3> SUFFICES ASSUME NEW q \in Dirty, NEW x \in Hash, dirties'[q].children[x] # Nil PROVE x = StorageRoot[q]
      BY DEF ChildrenAreRoots
    <3>1. CASE q # p \/ x # c
      <4>1. q \in Key /\ dirties[q] # Nil
        BY <1>5, <1>7
      <4>2. dirties'[q].children[x] = dirties[q].children[x]
        BY <2>1, <3>1, <4>1
      <4> QED BY <1>6, <4>2 DEF ChildrenAreRoots
    <3>2. CASE q = p /\ x = c
      BY <1>5, <1>7, <1>8, <3>2
    <3> QED BY <3>1, <3>2
  <2>5. RootsAreChildren(work', Listed, dirties')
    <3>1. ASSUME NEW q \in Listed, dirties[q].children[StorageRoot[q]] # Nil
          PROVE  dirties'[q].children[StorageRoot[q]] # Nil
      <4>1. CASE q # p
        BY <1>7, <2>1, <3>1, <4>1
      <4>2. CASE q = p
        BY <1>7, <1>8, <2>1, <4>2
      <4> QED BY <4>1, <4>2
    <3>2. ASSUME NEW q \in Listed, work[1] = ReferenceCall(StorageRoot[q], q)
          PROVE  dirties'[q].children[StorageRoot[q]] # Nil
      BY <1>8, <1>12, <2>1, <3>2
    <3> QED BY <1>3, <1>6, <3>1, <3>2, RootsAreChildrenPop
  <2>6. \A h : work[1] # InsertCall(h)
    BY <1>4 DEF InsertCall
  <2>7. \A k \in Listed : dirties'[k].flushNext = dirties[k].flushNext /\ dirties'[k].flushPrev = dirties[k].flushPrev
    BY <1>7, <2>1
  <2>8. Good(dirties', oldest, newest, work', refs, Dirty, Listed)
    BY <1>1, <1>3, <1>4, <2>1, <2>3, <2>4, <2>5, <2>6, <2>7, Popped
  <2>9. Dirty' = Dirty
    BY <1>7, <2>1 DEF Dirty
  <2>10. Listed' = Listed
    <3>1. CondemnedIn(work') = CondemnedIn(work)
      BY <1>3, <1>4, CondemnedPop
    <3> QED BY <2>9, <3>1, CondemnedIs DEF Listed
  <2>11. Good(dirties', oldest', newest', work', refs', Dirty', Listed')
    BY <1>2, <1>3, <2>8, <2>9, <2>10, Zenon
  <2> QED BY <1>1, <1>3, <2>10, <2>11, GoodNext, Zenon
<1> QED BY <1>13, <1>14

-----------------------------------------------------------------------------
(* dereference.                                                            *)

\* One if the first call is in T.
First(w, T) == IF w[1] \in T THEN 1 ELSE 0

\* The calls that a cascade adds, counted.
LEMMA PushCounts ==
    ASSUME NEW w \in Seq(Call), w # <<>>, NEW s \in Seq(Hash), NEW c \in Hash, NEW x,
           x = ([i \in 1..Len(s) |-> [op |-> "dereference", child |-> s[i], parent |-> c]]
                \o <<[op |-> "delete", node |-> c]>>) \o Tail(w),
           NEW y \in Hash
    PROVE  /\ Count(x, DropCalls(y)) + First(w, DropCalls(y))
                 = Times(s, y) + Count(w, DropCalls(y))
           /\ Count(x, RootCalls(y)) + First(w, RootCalls(y)) = Count(w, RootCalls(y))
           /\ Count(x, DropCalls(y)) \in Nat /\ Count(x, RootCalls(y)) \in Nat
           /\ Times(s, y) \in Nat /\ Count(w, DropCalls(y)) \in Nat /\ Count(w, RootCalls(y)) \in Nat
<1>1. /\ Count(x, DropCalls(y)) = Count(s, {y}) + Count(Tail(w), DropCalls(y))
      /\ Count(x, RootCalls(y)) = Count(Tail(w), RootCalls(y))
      /\ Cascades(x, w, s, c)
  BY PushFacts, Zenon
<1>2. \A T : /\ Count(w, T) = Count(Tail(w), T) + (IF w[1] \in T THEN 1 ELSE 0)
             /\ Count(w, T) \in Nat /\ Count(Tail(w), T) \in Nat
  BY PopFacts, Zenon
<1>3. PICK a, b : a = Count(Tail(w), DropCalls(y)) /\ b = Count(Tail(w), RootCalls(y))
  BY Zenon
<1>4. /\ Count(x, DropCalls(y)) = Count(s, {y}) + a
      /\ Count(x, RootCalls(y)) = b
      /\ Count(w, DropCalls(y)) = a + (IF w[1] \in DropCalls(y) THEN 1 ELSE 0)
      /\ Count(w, RootCalls(y)) = b + (IF w[1] \in RootCalls(y) THEN 1 ELSE 0)
      /\ a \in Nat /\ b \in Nat /\ Count(w, DropCalls(y)) \in Nat /\ Count(w, RootCalls(y)) \in Nat
  BY ONLY <1>1, <1>2, <1>3, Zenon
<1>5. Count(s, {y}) \in Nat
  BY CountFinite
<1>6. PICK t : t = Count(s, {y})
  OBVIOUS
<1>7. Count(x, DropCalls(y)) = t + a /\ t \in Nat
  BY ONLY <1>4, <1>5, <1>6, Zenon
<1>8. Count(x, DropCalls(y)) + (IF w[1] \in DropCalls(y) THEN 1 ELSE 0) = t + Count(w, DropCalls(y))
      /\ Count(x, DropCalls(y)) \in Nat
  BY ONLY <1>4, <1>7
<1>9. /\ First(w, DropCalls(y)) = IF w[1] \in DropCalls(y) THEN 1 ELSE 0
      /\ First(w, RootCalls(y)) = IF w[1] \in RootCalls(y) THEN 1 ELSE 0
  BY DEF First
<1>10. Count(x, RootCalls(y)) + First(w, RootCalls(y)) = Count(w, RootCalls(y)) /\ Count(x, RootCalls(y)) \in Nat
  BY ONLY <1>4, <1>9
<1>11. Count(x, DropCalls(y)) + First(w, DropCalls(y)) = t + Count(w, DropCalls(y))
  BY ONLY <1>8, <1>9
<1> QED BY ONLY <1>4, <1>5, <1>6, <1>8, <1>10, <1>11, Zenon DEF Times

\* A reference from p to c is dropped, and d is what the nodes are then.
Dropped(c, p, d) ==
    /\ work \in Seq(Call) /\ work # <<>> /\ 1 \in 1..Len(work) /\ ~Unlocked
    /\ work[1] = DereferenceCall(c, p) /\ work[1].op = "dereference" /\ c \in Hash /\ p \in Key
    /\ p \notin Listed /\ c # p /\ (c \in Dirty => c \in Listed)
    /\ \A i \in 1..Len(work) : work[i].op \in {"dereference", "delete"}
    /\ d \in Nodes
    /\ \A k \in Key : (d[k] = Nil <=> dirties[k] = Nil)
    /\ \A k \in Key \ {p} : d[k] = dirties[k]
    /\ \A k \in Listed : d[k] = dirties[k]
    /\ ChildrenAreRoots(Dirty, d)

\* dereference first drops the child of the parent.
LEMMA Dropping ==
    ASSUME IInv, Calling("dereference"), NEW c, c = Head(work).child, NEW p, p = Head(work).parent,
           NEW d, d = Unchild(dirties, c, p)
    PROVE  Dropped(c, p, d)
<1>1. Good(dirties, oldest, newest, work, refs, Dirty, Listed)
  BY GoodNow
<1>2. /\ work \in Seq(Call) /\ dirties \in Nodes /\ dirties[Meta] # Nil /\ Cascading(work, Dirty)
      /\ ChildrenAreRoots(Dirty, dirties) /\ Listed = Dirty \ CondemnedIn(work)
  BY <1>1 DEF Good
<1>3. work # <<>> /\ Head(work).op = "dereference" /\ ~Unlocked
  BY DEF Calling, Unlocked
<1>4. Head(work) = work[1] /\ work[1] \in Call /\ 1 \in 1..Len(work) /\ Len(work) \in Nat
  BY <1>2, <1>3
<1>5. work[1] = DereferenceCall(c, p) /\ work[1].op = "dereference" /\ c \in Hash /\ p \in Key
      /\ work[1].child = c /\ work[1].parent = p
  BY <1>3, <1>4, CallFields
<1>6. /\ Listed \subseteq Hash /\ Hash \subseteq Key /\ Meta \notin Hash /\ Dirty \subseteq Hash
      /\ \A k \in Hash : k \in Dirty <=> dirties[k] # Nil
      /\ CondemnedIn(work) \subseteq Dirty
  BY <1>1, GoodFacts, TrieDatabaseAssumption
<1>7. IF p = Meta THEN Len(work) = 1
      ELSE c \in Succ[p] /\ \E j \in (1 + 1)..Len(work) : work[j] = DeleteCall(p)
  BY <1>2, <1>4, <1>5 DEF Cascading
<1>8. \A h : DeleteCall(h).op = "delete" /\ DeleteCall(h).node = h
  BY DEF DeleteCall
<1>9. p # Meta => p \in CondemnedIn(work)
  <2> SUFFICES ASSUME p # Meta PROVE p \in CondemnedIn(work)
    OBVIOUS
  <2>1. PICK j \in (1 + 1)..Len(work) : work[j] = DeleteCall(p)
    BY <1>7
  <2>2. j \in 1..Len(work) /\ p \in Hash
    BY <1>5 DEF Key
  <2> QED BY <2>1, <2>2 DEF CondemnedIn
<1>10. p \notin Listed /\ dirties[p] # Nil
  BY <1>2, <1>6, <1>9
<1>11. c # p
  <2>1. p \in Hash => p \notin Succ[p]
    BY NoCycle, BelowFacts
  <2> QED BY <1>5, <1>6, <1>7, <2>1 DEF Key
<1>12. c \notin CondemnedIn(work)
  <2> SUFFICES ASSUME NEW j \in 1..Len(work), work[j] = DeleteCall(c) PROVE FALSE
    BY DEF CondemnedIn
  <2>1. work[j].op = "delete" /\ work[j].node = c
    BY <1>8
  <2>2. j # 1
    BY <1>5, <2>1
  <2>3. j \in (1 + 1)..Len(work) /\ Len(work) # 1
    BY <1>4, <2>2
  <2>4. Source(work[1]) \in Below[c]
    BY <1>2, <1>4, <2>1, <2>3 DEF Cascading
  <2>5. Source(work[1]) = p
    BY <1>5 DEF Source
  <2>6. c \in Succ[p] /\ p \in Below[c]
    BY <1>7, <2>3, <2>4, <2>5
  <2> QED BY <1>5, <2>6, NoCycle
<1>13. /\ d \in Nodes
       /\ \A k \in Key \ {p} : d[k] = dirties[k]
       /\ d[p] # Nil
       /\ \A x \in Hash : d[p].children[x] # Nil => dirties[p].children[x] # Nil
  BY <1>2, <1>5, <1>10, UnchildFields
<1>14. \A k \in Key : (d[k] = Nil <=> dirties[k] = Nil)
  BY <1>10, <1>13
<1>15. \A k \in Listed : d[k] = dirties[k]
  BY <1>6, <1>10, <1>13
<1>16. ChildrenAreRoots(Dirty, d)
  <2> SUFFICES ASSUME NEW q \in Dirty, NEW x \in Hash, d[q].children[x] # Nil PROVE x = StorageRoot[q]
    BY DEF ChildrenAreRoots
  <2>1. dirties[q].children[x] # Nil
    BY <1>6, <1>13
  <2> QED BY <1>2, <2>1 DEF ChildrenAreRoots
<1>17. \A i \in 1..Len(work) : work[i].op \in {"dereference", "delete"}
  BY <1>1, <1>3, <1>5, Removing
<1> QED BY <1>2, <1>3, <1>4, <1>5, <1>6, <1>10, <1>11, <1>12, <1>13, <1>14, <1>15, <1>16, <1>17 DEF Dropped

\* A reference is dropped and no node goes.
LEMMA DropKeeps ==
    ASSUME IInv, Returns(<<>>), UNCHANGED <<oldest, newest>>,
           NEW c, NEW p, NEW d, Dropped(c, p, d),
           NEW m \in {-1, 0}, c \in Listed => m = -1,
           dirties' \in Nodes, \A k \in Key \ {c} : dirties'[k] = d[k], dirties'[c] = Nil <=> d[c] = Nil,
           c \in Listed => /\ dirties'[c].parents = d[c].parents - 1
                           /\ dirties'[c].parents \in Nat
                           /\ dirties'[c].children = d[c].children
                           /\ dirties'[c].flushPrev = d[c].flushPrev
                           /\ dirties'[c].flushNext = d[c].flushNext
    PROVE  IInv' /\ Listed' = Listed /\ refs' = refs
<1>1. /\ Good(dirties, oldest, newest, work, refs, Dirty, Listed)
      /\ cleans \in SUBSET Hash /\ readers \in [Reader -> ReaderState]
  BY GoodNow
<1>2. /\ work \in Seq(Call) /\ work # <<>> /\ 1 \in 1..Len(work) /\ ~Unlocked
      /\ work[1] = DereferenceCall(c, p) /\ work[1].op = "dereference" /\ c \in Hash /\ p \in Key
      /\ p \notin Listed /\ c # p /\ (c \in Dirty => c \in Listed)
      /\ \A i \in 1..Len(work) : work[i].op \in {"dereference", "delete"}
      /\ d \in Nodes
      /\ \A k \in Key : (d[k] = Nil <=> dirties[k] = Nil)
      /\ \A k \in Key \ {p} : d[k] = dirties[k]
      /\ \A k \in Listed : d[k] = dirties[k]
      /\ ChildrenAreRoots(Dirty, d)
  BY DEF Dropped
<1>3. /\ After(work', work)
      /\ work' \in Seq(Call) /\ refs' = refs /\ cleans' = cleans /\ readers' = readers
      /\ \A T : /\ Count(work, T) = Count(work', T) + (IF work[1] \in T THEN 1 ELSE 0)
                /\ Count(work, T) \in Nat /\ Count(work', T) \in Nat
  BY <1>2, ReturnsFacts, Zenon
<1>4. /\ refs \in [Hash -> Nat] /\ IsFiniteSet(Listed) /\ ChildrenAreRoots(Dirty, dirties)
      /\ RootsAreChildren(work, Listed, dirties) /\ Counted(Listed, dirties, refs, work)
  BY <1>1 DEF Good
<1>5. /\ Listed \subseteq Hash /\ Hash \subseteq Key /\ Dirty \subseteq Hash
      /\ (\A k \in Listed : k \in Key /\ dirties[k] # Nil /\ dirties[k].parents \in Nat)
      /\ \A k \in Hash : k \in Dirty <=> dirties[k] # Nil
  BY <1>1, GoodFacts
<1>6. \A k \in Listed : /\ dirties'[k].children = dirties[k].children
                        /\ dirties'[k].flushPrev = dirties[k].flushPrev
                        /\ dirties'[k].flushNext = dirties[k].flushNext
                        /\ dirties'[k].parents = dirties[k].parents + (IF k = c THEN m ELSE 0)
                        /\ dirties'[k].parents \in Nat
  <2> SUFFICES ASSUME NEW k \in Listed
               PROVE  /\ dirties'[k].children = dirties[k].children
                      /\ dirties'[k].flushPrev = dirties[k].flushPrev
                      /\ dirties'[k].flushNext = dirties[k].flushNext
                      /\ dirties'[k].parents = dirties[k].parents + (IF k = c THEN m ELSE 0)
                      /\ dirties'[k].parents \in Nat
    OBVIOUS
  <2>1. dirties[k].parents \in Nat /\ d[k] = dirties[k] /\ k \in Key
    BY <1>2, <1>5
  <2>2. CASE k = c
    BY <2>1, <2>2
  <2>3. CASE k # c
    BY <2>1, <2>3
  <2> QED BY <2>2, <2>3
<1>7. \A k \in Key : (dirties'[k] = Nil <=> dirties[k] = Nil)
  BY <1>2, <1>5
<1>8. ASSUME NEW x \in Listed
      PROVE  HoldersOf(Listed, dirties', refs, work', x)
                = HoldersOf(Listed, dirties, refs, work, x) + (IF x = c THEN m ELSE 0)
  <2>1. Outer(Listed, dirties', x) = Outer(Listed, dirties, x)
    BY <1>6 DEF Outer
  <2>2. (work[1] \in DropCalls(x) <=> c = x) /\ work[1] \notin RootCalls(x)
    BY <1>2, CallsCounted
  <2>3. /\ Count(work, RootCalls(x)) = Count(work', RootCalls(x)) + (IF work[1] \in RootCalls(x) THEN 1 ELSE 0)
        /\ Count(work, DropCalls(x)) = Count(work', DropCalls(x)) + (IF work[1] \in DropCalls(x) THEN 1 ELSE 0)
        /\ Count(work, RootCalls(x)) \in Nat /\ Count(work, DropCalls(x)) \in Nat
        /\ Count(work', RootCalls(x)) \in Nat /\ Count(work', DropCalls(x)) \in Nat
    BY <1>3, Zenon
  <2>4. Cardinality(Inner(Listed, x)) \in Nat /\ Cardinality(Outer(Listed, dirties, x)) \in Nat /\ refs[x] \in Nat
    BY <1>4, <1>5, InnerFinite, OuterFinite
  <2>5. /\ Count(work', RootCalls(x)) = Count(work, RootCalls(x))
        /\ Count(work', DropCalls(x)) = Count(work, DropCalls(x)) + (IF x = c THEN m ELSE 0)
    BY <2>2, <2>3
  <2> QED BY <2>1, <2>3, <2>4, <2>5 DEF HoldersOf
<1>9. Counted(Listed, dirties', refs, work')
  <2>1. CountsFollow(Listed, dirties, dirties', refs, work, work', c, m)
    BY <1>6, <1>8 DEF CountsFollow
  <2>2. \A x \in Listed : dirties[x].parents \in Nat
    BY <1>5
  <2> QED BY <1>2, <1>4, <1>5, <2>1, <2>2, CountedMove
<1>10. ChildrenAreRoots(Dirty, dirties')
  <2> SUFFICES ASSUME NEW q \in Dirty, NEW x \in Hash, dirties'[q].children[x] # Nil PROVE x = StorageRoot[q]
    BY DEF ChildrenAreRoots
  <2>1. CASE q = c
    BY <1>2, <1>4, <1>6, <2>1 DEF ChildrenAreRoots
  <2>2. CASE q # c
    <3>1. dirties'[q] = d[q]
      BY <1>5, <2>2
    <3> QED BY <1>2, <3>1 DEF ChildrenAreRoots
  <2> QED BY <2>1, <2>2
<1>11. RootsAreChildren(work', Listed, dirties')
  <2>1. \A g, q : work[1] # ReferenceCall(g, q)
    BY <1>2 DEF ReferenceCall
  <2> QED BY <1>3, <1>4, <1>6, <2>1, RootsAreChildrenPop
<1>12. \A h : work[1] # InsertCall(h)
  BY <1>2 DEF InsertCall
<1>13. Good(dirties', oldest, newest, work', refs, Dirty, Listed)
  <2>1. \A k \in Listed : dirties'[k].flushNext = dirties[k].flushNext /\ dirties'[k].flushPrev = dirties[k].flushPrev
    BY <1>6
  <2>2. work[1].op # "delete" /\ After(work', work)
    BY <1>2, <1>3
  <2> QED BY <1>1, <1>7, <1>9, <1>10, <1>11, <1>12, <2>1, <2>2, Popped
<1>14. Dirty' = Dirty
  BY <1>5, <1>7 DEF Dirty
<1>15. Listed' = Listed
  <2>1. CondemnedIn(work') = CondemnedIn(work)
    BY <1>2, <1>3, CondemnedPop
  <2> QED BY <1>14, <2>1, CondemnedIs DEF Listed
<1>16. oldest' = oldest /\ newest' = newest
  OBVIOUS
<1>17. Good(dirties', oldest', newest', work', refs', Dirty', Listed')
  BY <1>3, <1>13, <1>14, <1>15, <1>16, Zenon
<1> QED BY <1>1, <1>3, <1>15, <1>17, GoodNext, Zenon

\* c has one parent less in e than in d.
Orphaned(d, e, c) ==
    /\ e \in Nodes
    /\ \A k \in Key \ {c} : e[k] = d[k]
    /\ e[c] # Nil
    /\ e[c].parents = IF d[c].parents > 0 THEN d[c].parents - 1 ELSE 0
    /\ e[c].children = d[c].children
    /\ e[c].flushPrev = d[c].flushPrev
    /\ e[c].flushNext = d[c].flushNext

\* The nodes after the last reference to one of them is gone.
LEMMA OrphanNodes ==
    ASSUME IInv, NEW c \in Listed, NEW p, NEW d, Dropped(c, p, d), NEW e, Orphaned(d, e, c)
    PROVE  /\ e \in Nodes /\ e[Meta] # Nil
           /\ \A k \in Listed : /\ e[k] # Nil /\ e[k].children = dirties[k].children
                                /\ e[k].flushPrev = dirties[k].flushPrev /\ e[k].flushNext = dirties[k].flushNext
                                /\ k # c => e[k].parents = dirties[k].parents
           /\ \A k \in Key : (e[k] = Nil <=> dirties[k] = Nil)
           /\ \A k \in Dirty : e[k].children = d[k].children
           /\ Linked(Listed, e, oldest, newest)
<1>1. /\ Good(dirties, oldest, newest, work, refs, Dirty, Listed)
      /\ cleans \in SUBSET Hash /\ readers \in [Reader -> ReaderState]
  BY GoodNow
<1>2. /\ work \in Seq(Call) /\ work # <<>> /\ 1 \in 1..Len(work) /\ ~Unlocked
      /\ work[1] = DereferenceCall(c, p) /\ work[1].op = "dereference" /\ c \in Hash /\ p \in Key
      /\ p \notin Listed /\ c # p
      /\ \A i \in 1..Len(work) : work[i].op \in {"dereference", "delete"}
      /\ d \in Nodes
      /\ \A k \in Key : (d[k] = Nil <=> dirties[k] = Nil)
      /\ \A k \in Key \ {p} : d[k] = dirties[k]
      /\ \A k \in Listed : d[k] = dirties[k]
      /\ ChildrenAreRoots(Dirty, d)
  BY DEF Dropped
<1>3. /\ dirties \in Nodes /\ dirties[Meta] # Nil /\ refs \in [Hash -> Nat] /\ IsFiniteSet(Listed)
      /\ oldest \in Key /\ newest \in Key /\ Linked(Listed, dirties, oldest, newest)
      /\ Cascading(work, Dirty) /\ RootsAreChildren(work, Listed, dirties)
      /\ Complete(Listed, refs) /\ Counted(Listed, dirties, refs, work)
      /\ Dirty = {h \in Hash : dirties[h] # Nil} /\ Listed = Dirty \ CondemnedIn(work)
      /\ ChildrenAreRoots(Dirty, dirties)
  BY <1>1 DEF Good
<1>4. /\ Listed \subseteq Hash /\ Hash \subseteq Key /\ Dirty \subseteq Hash /\ Listed \subseteq Dirty
      /\ Meta \in Key /\ Meta \notin Dirty
      /\ \A k \in Listed : k \in Key /\ dirties[k] # Nil /\ dirties[k].parents \in Nat
  BY <1>1, GoodFacts
<1>5. /\ e \in Nodes
      /\ \A k \in Key \ {c} : e[k] = d[k]
      /\ e[c] # Nil
      /\ e[c].children = d[c].children
      /\ e[c].flushPrev = d[c].flushPrev
      /\ e[c].flushNext = d[c].flushNext
  BY DEF Orphaned
<1>6. \A k \in Listed : /\ e[k] # Nil /\ e[k].children = dirties[k].children
                        /\ e[k].flushPrev = dirties[k].flushPrev /\ e[k].flushNext = dirties[k].flushNext
                        /\ k # c => e[k].parents = dirties[k].parents
  <2> SUFFICES ASSUME NEW k \in Listed
               PROVE  /\ e[k] # Nil /\ e[k].children = dirties[k].children
                      /\ e[k].flushPrev = dirties[k].flushPrev /\ e[k].flushNext = dirties[k].flushNext
                      /\ k # c => e[k].parents = dirties[k].parents
    OBVIOUS
  <2>1. k \in Key /\ dirties[k] # Nil /\ d[k] = dirties[k]
    BY <1>2, <1>4
  <2>2. CASE k = c
    BY <1>5, <2>1, <2>2
  <2>3. CASE k # c
    BY <1>5, <2>1, <2>3
  <2> QED BY <2>2, <2>3
<1>7. e[Meta] # Nil
  BY <1>2, <1>3, <1>4, <1>5
<1>8. \A k \in Key : (e[k] = Nil <=> dirties[k] = Nil)
  BY <1>2, <1>4, <1>5
<1>9. \A k \in Dirty : e[k].children = d[k].children
  BY <1>4, <1>5
<1>10. Linked(Listed, e, oldest, newest)
  <2>1. \A k \in Listed : e[k].flushNext = dirties[k].flushNext /\ e[k].flushPrev = dirties[k].flushPrev
    BY <1>6
  <2> QED BY <1>3, <2>1, LinkedSame
<1> QED BY <1>5, <1>6, <1>7, <1>8, <1>9, <1>10

\* A node without parents goes: nothing that stays refers to it.
LEMMA CascadeStarts ==
    ASSUME IInv, NEW c \in Listed, NEW p, NEW d, Dropped(c, p, d), NEW e, Orphaned(d, e, c), e[c].parents = 0,
           NEW s \in Seq(Hash), \A i \in 1..Len(s) : s[i] \in Succ[c],
           \A x \in Hash : Times(s, x) = Occurs(c, x) + (IF dirties[c].children[x] # Nil THEN 1 ELSE 0),
           Cascades(work', work, s, c),
           \A x \in Hash :
               /\ Count(work', DropCalls(x)) + First(work, DropCalls(x))
                     = Times(s, x) + Count(work, DropCalls(x))
               /\ Count(work', RootCalls(x)) + First(work, RootCalls(x)) = Count(work, RootCalls(x))
               /\ Count(work', DropCalls(x)) \in Nat /\ Count(work', RootCalls(x)) \in Nat
               /\ Times(s, x) \in Nat /\ Count(work, DropCalls(x)) \in Nat /\ Count(work, RootCalls(x)) \in Nat,
           refs' = refs, cleans' = cleans, readers' = readers,
           dirties' \in Nodes, oldest' \in Key, newest' \in Key, SameCounts(dirties', e),
           NEW M, M = Listed \ {c}, Linked(M, dirties', oldest', newest')
    PROVE  /\ IInv' /\ Listed' = M
           /\ c \notin Disk => refs[c] = 0 /\ \A q \in Listed : c \notin Succ[q]
<1>1. /\ Good(dirties, oldest, newest, work, refs, Dirty, Listed)
      /\ cleans \in SUBSET Hash /\ readers \in [Reader -> ReaderState]
  BY GoodNow
<1>2. /\ work \in Seq(Call) /\ work # <<>> /\ 1 \in 1..Len(work) /\ ~Unlocked
      /\ work[1] = DereferenceCall(c, p) /\ work[1].op = "dereference" /\ c \in Hash /\ p \in Key
      /\ p \notin Listed /\ c # p
      /\ \A i \in 1..Len(work) : work[i].op \in {"dereference", "delete"}
      /\ d \in Nodes
      /\ \A k \in Key : (d[k] = Nil <=> dirties[k] = Nil)
      /\ \A k \in Key \ {p} : d[k] = dirties[k]
      /\ \A k \in Listed : d[k] = dirties[k]
      /\ ChildrenAreRoots(Dirty, d)
  BY DEF Dropped
<1>3. /\ dirties \in Nodes /\ dirties[Meta] # Nil /\ refs \in [Hash -> Nat] /\ IsFiniteSet(Listed)
      /\ oldest \in Key /\ newest \in Key /\ Linked(Listed, dirties, oldest, newest)
      /\ Cascading(work, Dirty) /\ RootsAreChildren(work, Listed, dirties)
      /\ Complete(Listed, refs) /\ Counted(Listed, dirties, refs, work)
      /\ Dirty = {h \in Hash : dirties[h] # Nil} /\ Listed = Dirty \ CondemnedIn(work)
      /\ ChildrenAreRoots(Dirty, dirties)
  BY <1>1 DEF Good
<1>4. /\ Listed \subseteq Hash /\ Hash \subseteq Key /\ Dirty \subseteq Hash /\ Listed \subseteq Dirty
      /\ Meta \in Key /\ Meta \notin Dirty
      /\ \A k \in Listed : k \in Key /\ dirties[k] # Nil /\ dirties[k].parents \in Nat
  BY <1>1, GoodFacts
<1>5. e[c].parents = (IF d[c].parents > 0 THEN d[c].parents - 1 ELSE 0) /\ e \in Nodes
  BY DEF Orphaned
<1>6. /\ \A k \in Listed : /\ e[k] # Nil /\ e[k].children = dirties[k].children
                           /\ k # c => e[k].parents = dirties[k].parents
      /\ \A k \in Key : (e[k] = Nil <=> dirties[k] = Nil)
      /\ \A k \in Dirty : e[k].children = d[k].children
  BY OrphanNodes
<1>9. /\ \A k \in Key : (dirties'[k] = Nil <=> dirties[k] = Nil)
      /\ \A k \in Listed : dirties'[k].children = dirties[k].children
      /\ \A k \in Listed : k # c => dirties'[k].parents = dirties[k].parents
      /\ \A k \in Dirty : dirties'[k].children = d[k].children
  <2>1. \A k \in Key : /\ dirties'[k] = Nil <=> e[k] = Nil
                       /\ e[k] # Nil => dirties'[k].parents = e[k].parents /\ dirties'[k].children = e[k].children
    BY DEF SameCounts
  <2>2. \A k \in Dirty : k \in Key /\ e[k] # Nil
    BY <1>3, <1>4, <1>6
  <2>3. \A k \in Key : (dirties'[k] = Nil <=> dirties[k] = Nil)
    BY ONLY <1>6, <2>1
  <2>4. \A k \in Dirty : dirties'[k].children = e[k].children /\ dirties'[k].parents = e[k].parents
    BY ONLY <2>1, <2>2
  <2>5. \A k \in Dirty : dirties'[k].children = d[k].children
    BY ONLY <1>6, <2>4
  <2>6. \A k \in Listed : /\ dirties'[k].children = dirties[k].children
                          /\ k # c => dirties'[k].parents = dirties[k].parents
    BY ONLY <1>4, <1>6, <2>4
  <2> QED BY ONLY <2>3, <2>5, <2>6
<1>10. Dirty' = Dirty
  BY <1>3, <1>4, <1>9 DEF Dirty
<1>14. CondemnedIn(work') = CondemnedIn(work) \cup {c}
  BY <1>2, CondemnedPush
<1>15. Listed' = M
  BY <1>3, <1>10, <1>14, CondemnedIs DEF Listed
<1>16. \A i \in 1..Len(work') : work'[i].op \in {"dereference", "delete"}
  BY <1>2, OneKindPush
<1>17. OneKind(work')
  BY <1>16 DEF OneKind
<1>18. Cascading(work', Dirty)
  BY <1>2, <1>3, <1>4, CascadingPush
<1>19. work' \in Seq(Call)
  BY DEF Cascades
<1>20. M \subseteq Listed /\ IsFiniteSet(M) /\ M \subseteq Hash /\ Listed = M \cup {c} /\ c \notin M
  <2>1. M \in SUBSET Listed
    OBVIOUS
  <2> QED BY <1>3, <1>4, <2>1, FS_Subset
<1>21. Built(work', M, refs)
  BY <1>16 DEF Built
<1>22. ChildrenAreRoots(Dirty, dirties')
  BY ONLY <1>2, <1>9 DEF ChildrenAreRoots
<1>23. ASSUME NEW q \in Listed, StorageRoot[q] # Nil, StorageRoot[q] \notin Disk
       PROVE  dirties[q].children[StorageRoot[q]] # Nil
  <2>1. \A g, h : ReferenceCall(g, h).op = "reference"
    BY DEF ReferenceCall
  <2>2. ~Holds(work, ReferenceCall(StorageRoot[q], q), Len(work))
    BY ONLY <1>2, <2>1 DEF Holds
  <2> QED BY <1>3, <1>23, <2>2 DEF RootsAreChildren
<1>24. RootsAreChildren(work', M, dirties')
  BY <1>9, <1>20, <1>23 DEF RootsAreChildren
<1>25. \A x \in Hash : /\ Cardinality(Inner(Listed, x)) \in Nat /\ Cardinality(Outer(Listed, dirties, x)) \in Nat
                       /\ refs[x] \in Nat /\ Occurs(c, x) \in Nat
  BY <1>2, <1>3, <1>4, InnerFinite, OuterFinite, InnerFromFinite
<1>26. ASSUME NEW x \in Hash
       PROVE  /\ Count(work', DropCalls(x)) + (IF x = c THEN 1 ELSE 0) = Times(s, x) + Count(work, DropCalls(x))
              /\ Count(work', RootCalls(x)) = 0 /\ Count(work, RootCalls(x)) = 0
              /\ Count(work', DropCalls(x)) \in Nat /\ Count(work, DropCalls(x)) \in Nat
              /\ Times(s, x) \in Nat
  <2>1. (work[1] \in DropCalls(x) <=> c = x) /\ work[1] \notin RootCalls(x)
    BY <1>2, CallsCounted
  <2>2. /\ Count(work', DropCalls(x)) + First(work, DropCalls(x))
              = Times(s, x) + Count(work, DropCalls(x))
        /\ Count(work', RootCalls(x)) + First(work, RootCalls(x)) = Count(work, RootCalls(x))
        /\ Count(work', DropCalls(x)) \in Nat /\ Count(work', RootCalls(x)) \in Nat
        /\ Times(s, x) \in Nat /\ Count(work, DropCalls(x)) \in Nat /\ Count(work, RootCalls(x)) \in Nat
    OBVIOUS
  <2>3. Count(work, RootCalls(x)) = 0
    <3>1. \A i \in 1..Len(work) : work[i].op = "reference" => work[i].parent \notin {Meta}
      BY <1>2
    <3>2. work \in Seq(Call)
      BY <1>2
    <3>3. Count(work, Calls("reference", x, {Meta})) = 0
      BY ONLY <3>1, <3>2, CountNone
    <3> QED BY ONLY <3>3 DEF RootCalls
  <2>4. First(work, DropCalls(x)) = (IF x = c THEN 1 ELSE 0) /\ First(work, RootCalls(x)) = 0
    BY ONLY <2>1 DEF First
  <2> QED BY ONLY <2>2, <2>3, <2>4
\* Only the reference that is dropped was left.
<1>27. ASSUME c \notin Disk
       PROVE  refs[c] = 0 /\ Inner(Listed, c) = {} /\ Outer(Listed, dirties, c) = {}
  <2>1. dirties[c].parents = HoldersOf(Listed, dirties, refs, work, c) /\ dirties[c].parents \in Nat
    BY <1>3, <1>4, <1>27 DEF Counted
  <2>2. dirties[c].parents <= 1
    <3>1. d[c] = dirties[c]
      BY <1>2
    <3> QED BY <1>5, <2>1, <3>1
  <2>3. Count(work, DropCalls(c)) >= 1
    <3>1. Count(work, DropCalls(c)) \in Nat /\ (Count(work, DropCalls(c)) = 0 <=> Matching(work, DropCalls(c)) = {})
      BY <1>2, CountFinite, Zenon
    <3>2. 1 \in Matching(work, DropCalls(c))
      BY <1>2, CallsCounted DEF Matching
    <3> QED BY <3>1, <3>2
  <2>4. HoldersOf(Listed, dirties, refs, work, c)
           = Cardinality(Inner(Listed, c)) + Cardinality(Outer(Listed, dirties, c)) + refs[c] + Count(work, DropCalls(c))
    BY <1>2, <1>25, <1>26 DEF HoldersOf
  <2>5. Count(work, DropCalls(c)) \in Nat /\ refs[c] \in Nat
        /\ Cardinality(Inner(Listed, c)) \in Nat /\ Cardinality(Outer(Listed, dirties, c)) \in Nat
    BY <1>2, <1>25, <1>26
  <2>6. refs[c] = 0 /\ Cardinality(Inner(Listed, c)) = 0 /\ Cardinality(Outer(Listed, dirties, c)) = 0
    BY ONLY <2>1, <2>2, <2>3, <2>4, <2>5
  <2> QED BY <1>3, <1>4, <2>6, InnerFinite, OuterFinite
<1>28. ASSUME c \notin Disk, NEW q \in Listed PROVE c \notin Succ[q]
  <2> SUFFICES ASSUME c \in Succ[q] PROVE FALSE
    OBVIOUS
  <2>1. Succ[q] = {Edge[q][i] : i \in 1..Len(Edge[q])} \cup ({StorageRoot[q]} \ {Nil})
    BY <1>4, SuccHash
  <2>2. CASE \E i \in 1..Len(Edge[q]) : Edge[q][i] = c
    <3>1. PICK i \in 1..Len(Edge[q]) : Edge[q][i] = c
      BY <2>2
    <3>2. <<q, i>> \in InnerFrom(q, c)
      BY <3>1 DEF InnerFrom, Positions
    <3>3. <<q, i>> \in Inner(Listed, c)
      BY <3>2 DEF Inner
    <3> QED BY <1>27, <1>28, <3>3
  <2>3. CASE c = StorageRoot[q] /\ c # Nil
    <3>1. dirties[q].children[c] # Nil
      BY <1>23, <1>28, <2>3
    <3>2. q \in Outer(Listed, dirties, c)
      BY <3>1 DEF Outer
    <3> QED BY <1>27, <1>28, <3>2
  <2> QED BY <2>1, <2>2, <2>3
<1>29. Complete(M, refs)
  <2>1. c \notin Disk => refs[c] = 0 /\ \A q \in Listed : c \notin Succ[q]
    BY ONLY <1>27, <1>28
  <2> QED BY ONLY <1>3, <1>20, <2>1 DEF Complete
<1>30. ASSUME NEW x \in M
       PROVE  HoldersOf(M, dirties', refs, work', x) = HoldersOf(Listed, dirties, refs, work, x)
  <2>1. x \in Hash /\ x # c
    BY <1>20
  <2>2. Cardinality(Inner(Listed, x)) = Cardinality(Inner(M, x)) + Occurs(c, x)
    <3>1. Cardinality(Inner(M \cup {c}, x)) = Cardinality(Inner(M, x)) + Occurs(c, x)
      BY ONLY <1>2, <1>20, <2>1, InnerAdd
    <3>2. M \cup {c} = Listed
      BY <1>20
    <3> QED BY <3>1, <3>2, Zenon
  <2> DEFINE one == IF dirties[c].children[x] # Nil THEN 1 ELSE 0
  <2>3. Cardinality(Outer(Listed, dirties, x)) = Cardinality(Outer(M, dirties', x)) + one
    <3>1. IsFiniteSet(Outer(M, dirties', x)) /\ c \notin Outer(M, dirties', x)
          /\ Cardinality(Outer(M, dirties', x)) \in Nat
      <4>1. IsFiniteSet(Outer(M, dirties', x)) /\ Cardinality(Outer(M, dirties', x)) \in Nat
        BY ONLY <1>20, <2>1, OuterFinite
      <4> QED BY ONLY <1>20, <4>1 DEF Outer
    <3>2. CASE dirties[c].children[x] # Nil
      <4>1. Outer(Listed, dirties, x) = Outer(M, dirties', x) \cup {c}
        BY <1>9, <3>2 DEF Outer
      <4>2. Cardinality(Outer(M, dirties', x) \cup {c}) = Cardinality(Outer(M, dirties', x)) + 1
        BY <3>1, FS_AddElement
      <4>3. Cardinality(Outer(Listed, dirties, x)) = Cardinality(Outer(M, dirties', x)) + 1
        BY <4>1, <4>2, Zenon
      <4> QED BY <3>2, <4>3
    <3>3. CASE dirties[c].children[x] = Nil
      <4>1. Outer(Listed, dirties, x) = Outer(M, dirties', x)
        BY <1>9, <3>3 DEF Outer
      <4> QED BY <3>1, <3>3, <4>1
    <3> QED BY <3>2, <3>3
  <2>5. /\ Times(s, x) = Occurs(c, x) + one
        /\ Count(work', DropCalls(x)) + (IF x = c THEN 1 ELSE 0) = Times(s, x) + Count(work, DropCalls(x))
    BY <1>26, <2>1, Zenon
  <2>6. /\ Count(work', RootCalls(x)) = 0 /\ Count(work, RootCalls(x)) = 0
        /\ Count(work', DropCalls(x)) \in Nat /\ Count(work, DropCalls(x)) \in Nat
    BY <1>26, <2>1, Zenon
  <2>7. Count(work', DropCalls(x)) = Occurs(c, x) + one + Count(work, DropCalls(x))
    BY <1>25, <2>1, <2>5, <2>6
  <2>8. /\ Cardinality(Inner(M, x)) \in Nat /\ Cardinality(Outer(M, dirties', x)) \in Nat
        /\ refs[x] \in Nat /\ Occurs(c, x) \in Nat /\ one \in Nat
    BY <1>20, <1>25, <2>1, InnerFinite, OuterFinite
  <2> HIDE DEF one
  <2> QED BY <2>2, <2>3, <2>6, <2>7, <2>8 DEF HoldersOf
<1>31. Counted(M, dirties', refs, work')
  <2> SUFFICES ASSUME NEW x \in M
               PROVE  /\ dirties'[x].parents \in 0..HoldersOf(M, dirties', refs, work', x)
                      /\ x \notin Disk => dirties'[x].parents = HoldersOf(M, dirties', refs, work', x)
    BY DEF Counted
  <2>1. x \in Listed /\ x # c
    BY <1>20
  <2>2. dirties'[x].parents = dirties[x].parents
    BY <1>9, <2>1
  <2>3. /\ dirties[x].parents \in 0..HoldersOf(Listed, dirties, refs, work, x)
        /\ x \notin Disk => dirties[x].parents = HoldersOf(Listed, dirties, refs, work, x)
    BY <1>3, <2>1 DEF Counted
  <2> QED BY <1>30, <2>2, <2>3
<1>32. dirties'[Meta] # Nil /\ Dirty = {h \in Hash : dirties'[h] # Nil}
  BY <1>3, <1>4, <1>9
<1>33. M = Dirty \ CondemnedIn(work')
  BY <1>3, <1>14
<1>34. Good(dirties', oldest', newest', work', refs, Dirty, M)
  BY <1>3, <1>17, <1>18, <1>19, <1>20, <1>21, <1>22, <1>24, <1>29, <1>31, <1>32, <1>33, Zenon DEF Good
<1>35. Good(dirties', oldest', newest', work', refs', Dirty', Listed')
  BY <1>10, <1>15, <1>34, Zenon
<1>36. IInv'
  BY <1>1, <1>35, GoodNext, Zenon
<1> QED BY <1>15, <1>27, <1>28, <1>36

\* What a node that goes leaves to be done.
LEMMA Pushed ==
    ASSUME work \in Seq(Call), work # <<>>, NEW s \in Seq(Hash), NEW c \in Hash,
           Returns([i \in 1..Len(s) |-> [op |-> "dereference", child |-> s[i], parent |-> c]]
                   \o <<[op |-> "delete", node |-> c]>>)
    PROVE  /\ Cascades(work', work, s, c)
           /\ \A x \in Hash :
               /\ Count(work', DropCalls(x)) + First(work, DropCalls(x))
                     = Times(s, x) + Count(work, DropCalls(x))
               /\ Count(work', RootCalls(x)) + First(work, RootCalls(x)) = Count(work, RootCalls(x))
               /\ Count(work', DropCalls(x)) \in Nat /\ Count(work', RootCalls(x)) \in Nat
               /\ Times(s, x) \in Nat /\ Count(work, DropCalls(x)) \in Nat /\ Count(work, RootCalls(x)) \in Nat
           /\ refs' = refs /\ cleans' = cleans /\ readers' = readers
<1>1. work' = ([i \in 1..Len(s) |-> [op |-> "dereference", child |-> s[i], parent |-> c]]
               \o <<[op |-> "delete", node |-> c]>>) \o Tail(work)
  BY DEF Returns
<1>2. Cascades(work', work, s, c)
  BY <1>1, PushFacts, Zenon
<1>3. ASSUME NEW x \in Hash
      PROVE  /\ Count(work', DropCalls(x)) + First(work, DropCalls(x))
                   = Times(s, x) + Count(work, DropCalls(x))
             /\ Count(work', RootCalls(x)) + First(work, RootCalls(x)) = Count(work, RootCalls(x))
             /\ Count(work', DropCalls(x)) \in Nat /\ Count(work', RootCalls(x)) \in Nat
             /\ Times(s, x) \in Nat /\ Count(work, DropCalls(x)) \in Nat /\ Count(work, RootCalls(x)) \in Nat
  BY <1>1, PushCounts, Zenon
<1>4. refs' = refs /\ cleans' = cleans /\ readers' = readers
  BY DEF Returns
<1> QED BY <1>2, <1>3, <1>4, Zenon

\* A call of dereference keeps the invariant.  A node that leaves and is in
\* memory only had no reference left.
LEMMA DereferenceKeeps ==
    ASSUME IInv, dereference
    PROVE  /\ IInv' /\ refs' = refs
           /\ \/ Listed' = Listed
              \/ \E c \in Listed : /\ Listed' = Listed \ {c}
                                   /\ c \notin Disk => refs[c] = 0 /\ \A q \in Listed : c \notin Succ[q]
<1> DEFINE c == Head(work).child
           p == Head(work).parent
           d == Unchild(dirties, c, p)
           e == [d EXCEPT ![c] = OneParentLess(@)]
           s == Childs(e[c], c)
           u == Unlink(e, c)
<1>1. Calling("dereference")
  BY DEF dereference
<1>2. CASE d[c] = Nil /\ Returns(<<>>) /\ dirties' = d /\ UNCHANGED <<oldest, newest>>
  <2> HIDE DEF c, p, d, e, s, u
  <2>1. Dropped(c, p, d)
    BY <1>1, Dropping DEF c, p, d
  <2>2. d \in Nodes /\ c \in Hash /\ (\A k \in Listed : d[k] = dirties[k])
    BY <2>1 DEF Dropped
  <2>3. c \notin Listed
    BY <1>2, <2>2 DEF Listed, Dirty
  <2>4. 0 \in {-1, 0} /\ (c \in Listed => 0 = -1)
    BY <2>3
  <2>5. \A k \in Key \ {c} : dirties'[k] = d[k]
    BY <1>2
  <2>6. IInv' /\ Listed' = Listed /\ refs' = refs
    BY <1>2, <2>1, <2>2, <2>3, <2>4, <2>5, DropKeeps
  <2> QED BY <2>6
<1>3. ASSUME d[c] # Nil
      PROVE  /\ Dropped(c, p, d) /\ Orphaned(d, e, c) /\ c \in Listed
             /\ d[c] = dirties[c] /\ dirties[c].parents \in Nat
  <2>1. Dropped(c, p, d)
    BY <1>1, Dropping
  <2>2. /\ c \in Hash /\ d \in Nodes /\ (c \in Dirty => c \in Listed) /\ (d[c] = Nil <=> dirties[c] = Nil)
        /\ \A k \in Listed : d[k] = dirties[k]
    BY <2>1 DEF Dropped, Key
  <2>3. c \in Listed
    BY <1>3, <2>2 DEF Dirty
  <2>4. Orphaned(d, e, c)
    <3> HIDE DEF c, d
    <3>1. c \in Key
      BY <2>2 DEF Key
    <3> QED BY <1>3, <2>2, <3>1, ParentFields DEF Orphaned
  <2>5. dirties[c].parents \in Nat
    BY <2>3, GoodNow, GoodFacts
  <2> QED BY <2>1, <2>2, <2>3, <2>4, <2>5, Zenon
<1>4. CASE d[c] # Nil /\ e[c].parents # 0 /\ Returns(<<>>) /\ dirties' = e /\ UNCHANGED <<oldest, newest>>
  <2>1. /\ Dropped(c, p, d) /\ Orphaned(d, e, c) /\ c \in Listed
        /\ d[c] = dirties[c] /\ dirties[c].parents \in Nat
    BY <1>3, <1>4, Zenon
  <2> HIDE DEF c, p, d, e, s, u
  <2>2. /\ dirties' \in Nodes
        /\ \A k \in Key \ {c} : dirties'[k] = d[k]
        /\ dirties'[c] # Nil
        /\ dirties'[c].parents = (IF d[c].parents > 0 THEN d[c].parents - 1 ELSE 0)
        /\ dirties'[c].children = d[c].children
        /\ dirties'[c].flushPrev = d[c].flushPrev
        /\ dirties'[c].flushNext = d[c].flushNext
    BY <1>4, <2>1 DEF Orphaned
  <2>3. dirties'[c].parents # 0
    BY <1>4
  <2>4. d[c].parents \in Nat
    BY <2>1
  <2>5. dirties'[c].parents = d[c].parents - 1 /\ dirties'[c].parents \in Nat
    BY ONLY <2>2, <2>3, <2>4
  <2>6. -1 \in {-1, 0}
    OBVIOUS
  <2>7. dirties'[c] = Nil <=> d[c] = Nil
    BY <1>4, <2>2
  <2>8. IInv' /\ Listed' = Listed /\ refs' = refs
    BY <1>4, <2>1, <2>2, <2>5, <2>6, <2>7, DropKeeps
  <2> QED BY <2>8
<1>5. CASE /\ d[c] # Nil /\ e[c].parents = 0
           /\ Returns([i \in 1..Len(s) |-> [op |-> "dereference", child |-> s[i], parent |-> c]]
                      \o <<[op |-> "delete", node |-> c]>>)
           /\ dirties' = u.dirties /\ oldest' = u.oldest /\ newest' = u.newest
  <2>1. Dropped(c, p, d) /\ Orphaned(d, e, c) /\ c \in Listed
    BY <1>3, <1>5, Zenon
  <2>2. /\ d[c] # Nil /\ e[c].parents = 0
        /\ Returns([i \in 1..Len(s) |-> [op |-> "dereference", child |-> s[i], parent |-> c]]
                   \o <<[op |-> "delete", node |-> c]>>)
        /\ dirties' = u.dirties /\ oldest' = u.oldest /\ newest' = u.newest
    BY <1>5
  <2>3. s = Childs(e[c], c) /\ u = Unlink(e, c)
    OBVIOUS
  <2> HIDE DEF c, p, d, e, s, u
  <2>4. Good(dirties, oldest, newest, work, refs, Dirty, Listed)
    BY GoodNow
  <2>5. oldest \in Key /\ newest \in Key /\ Listed \in SUBSET Hash /\ ChildrenAreRoots(Dirty, dirties)
        /\ Listed \subseteq Dirty /\ work \in Seq(Call)
    BY <2>4, GoodFacts DEF Good
  <2>6. /\ e \in Nodes /\ e[Meta] # Nil
        /\ \A k \in Listed : e[k] # Nil /\ e[k].children = dirties[k].children
        /\ Linked(Listed, e, oldest, newest)
    BY <2>1, OrphanNodes
  <2>7. work # <<>> /\ c \in Hash
    BY <2>1 DEF Dropped
  <2> DEFINE M == Listed \ {c}
  <2>8. /\ dirties' \in Nodes /\ oldest' \in Key /\ newest' \in Key
        /\ SameCounts(dirties', e)
        /\ Linked(M, dirties', oldest', newest')
    <3>1. \A k \in Listed : e[k] # Nil
      BY <2>6
    <3>2. /\ u.dirties \in Nodes /\ u.oldest \in Key /\ u.newest \in Key
          /\ SameCounts(u.dirties, e)
          /\ Linked(M, u.dirties, u.oldest, u.newest)
      BY <2>1, <2>3, <2>5, <2>6, <3>1, UnlinkFields, Zenon
    <3> QED BY <2>2, <3>2, Zenon
  <2>9. /\ s \in Seq(Hash)
        /\ \A i \in 1..Len(s) : s[i] \in Succ[c]
        /\ \A x \in Hash : Times(s, x) = Occurs(c, x) + (IF dirties[c].children[x] # Nil THEN 1 ELSE 0)
    <3>1. \A x \in Hash : e[c].children[x] # Nil => x = StorageRoot[c]
      <4>1. e[c].children = dirties[c].children /\ c \in Dirty
        BY <2>1, <2>5, <2>6
      <4> QED BY <2>5, <4>1 DEF ChildrenAreRoots
    <3>2. /\ s \in Seq(Hash)
          /\ \A i \in 1..Len(s) : s[i] \in Succ[c]
          /\ \A x \in Hash : Times(s, x) = Occurs(c, x) + (IF e[c].children[x] # Nil THEN 1 ELSE 0)
      BY <2>3, <2>7, <3>1, ChildsCount, Zenon
    <3>3. e[c].children = dirties[c].children
      BY <2>1, <2>6
    <3> QED BY <3>2, <3>3, Zenon
  <2>10. /\ Cascades(work', work, s, c)
         /\ \A x \in Hash :
             /\ Count(work', DropCalls(x)) + First(work, DropCalls(x))
                   = Times(s, x) + Count(work, DropCalls(x))
             /\ Count(work', RootCalls(x)) + First(work, RootCalls(x)) = Count(work, RootCalls(x))
             /\ Count(work', DropCalls(x)) \in Nat /\ Count(work', RootCalls(x)) \in Nat
             /\ Times(s, x) \in Nat /\ Count(work, DropCalls(x)) \in Nat /\ Count(work, RootCalls(x)) \in Nat
         /\ refs' = refs /\ cleans' = cleans /\ readers' = readers
    BY <2>2, <2>5, <2>7, <2>9, Pushed, Zenon
  <2>11. M = Listed \ {c}
    OBVIOUS
  <2> HIDE DEF M
  <2>12. /\ IInv' /\ Listed' = M
         /\ c \notin Disk => refs[c] = 0 /\ \A q \in Listed : c \notin Succ[q]
    BY <2>1, <2>2, <2>8, <2>9, <2>10, <2>11, CascadeStarts, Zenon
  <2> QED BY <2>1, <2>10, <2>11, <2>12, Zenon
<1> QED BY <1>2, <1>4, <1>5, Zenon DEF dereference

-----------------------------------------------------------------------------
(* delete.                                                                 *)

\* delete keeps the invariant.
LEMMA DeleteKeeps ==
    ASSUME IInv, delete
    PROVE  IInv' /\ Listed' = Listed /\ refs' = refs
<1> DEFINE h == Head(work).node
           E == Dirty \ {h}
<1>1. /\ Good(dirties, oldest, newest, work, refs, Dirty, Listed)
      /\ cleans \in SUBSET Hash /\ readers \in [Reader -> ReaderState]
  BY GoodNow
<1>2. work \in Seq(Call) /\ ~Unlocked /\ Head(work).op = "delete" /\ Returns(<<>>)
      /\ dirties' = [dirties EXCEPT ![h] = Nil] /\ oldest' = oldest /\ newest' = newest
  BY <1>1 DEF delete, Calling, Good
<1>3. /\ work # <<>> /\ After(work', work) /\ Head(work) = work[1] /\ work[1] \in Call
      /\ work' \in Seq(Call) /\ refs' = refs /\ cleans' = cleans /\ readers' = readers
      /\ \A T : /\ Count(work, T) = Count(work', T) + (IF work[1] \in T THEN 1 ELSE 0)
                /\ Count(work, T) \in Nat /\ Count(work', T) \in Nat
  BY <1>2, ReturnsFacts, Zenon
<1>4. work[1] = DeleteCall(h) /\ work[1].op = "delete" /\ h \in Hash /\ 1 \in 1..Len(work)
  BY <1>2, <1>3, CallFields
<1> HIDE DEF h
<1>5. /\ dirties \in Nodes /\ dirties[Meta] # Nil /\ oldest \in Key /\ newest \in Key
      /\ refs \in [Hash -> Nat] /\ IsFiniteSet(Listed) /\ Linked(Listed, dirties, oldest, newest)
      /\ OneKind(work) /\ Built(work, Listed, refs) /\ Cascading(work, Dirty)
      /\ ChildrenAreRoots(Dirty, dirties) /\ RootsAreChildren(work, Listed, dirties)
      /\ Complete(Listed, refs) /\ Counted(Listed, dirties, refs, work)
      /\ Dirty = {k \in Hash : dirties[k] # Nil} /\ Listed = Dirty \ CondemnedIn(work)
  BY <1>1 DEF Good
<1>6. /\ Listed \subseteq Hash /\ Hash \subseteq Key /\ Dirty \subseteq Hash /\ Listed \subseteq Dirty
      /\ Meta \in Key /\ Meta \notin Dirty /\ Meta \notin Hash
  BY <1>1, GoodFacts, TrieDatabaseAssumption
<1>7. h \in CondemnedIn(work)
  BY <1>4 DEF CondemnedIn
<1>8. CondemnedIn(work') = CondemnedIn(work) \ {h}
  BY <1>3, <1>4, <1>5, CondemnedPop
<1>9. /\ dirties' \in Nodes
      /\ \A k \in Key \ {h} : dirties'[k] = dirties[k]
      /\ dirties'[h] = Nil
  BY <1>2, <1>4, <1>5, <1>6 DEF Nodes
<1>10. E = {k \in Hash : dirties'[k] # Nil}
  BY <1>4, <1>5, <1>6, <1>9
<1>11. Dirty' = E
  BY <1>10 DEF Dirty
<1>12. Listed = E \ CondemnedIn(work')
  BY <1>5, <1>7, <1>8
<1>13. Listed' = Listed
  BY <1>11, <1>12, CondemnedIs DEF Listed
<1>14. \A k \in Listed : dirties'[k] = dirties[k]
  BY <1>5, <1>6, <1>7, <1>9
<1>15. Linked(Listed, dirties', oldest, newest)
  BY <1>5, <1>14, LinkedSame
<1>16. OneKind(work')
  BY <1>3, <1>5, OneKindPop
<1>17. Built(work', Listed, refs)
  <2>1. \A g : work[1] # InsertCall(g)
    BY <1>4 DEF InsertCall
  <2> QED BY <1>3, <1>5, <2>1, BuiltPop
<1>18. Cascading(work', E)
  <2>1. \A g \in Dirty : work[1] # DeleteCall(g) => g \in E
    BY <1>4
  <2> HIDE DEF E
  <2> QED BY <1>3, <1>5, <2>1, CascadingPop
<1>19. ChildrenAreRoots(E, dirties')
  BY <1>5, <1>6, <1>9 DEF ChildrenAreRoots
<1>20. RootsAreChildren(work', Listed, dirties')
  <2>1. \A g, q : work[1] # ReferenceCall(g, q)
    BY <1>4 DEF ReferenceCall
  <2> QED BY <1>3, <1>5, <1>14, <2>1, RootsAreChildrenPop
<1>21. Counted(Listed, dirties', refs, work')
  <2>1. ASSUME NEW c
        PROVE  HoldersOf(Listed, dirties', refs, work', c) = HoldersOf(Listed, dirties, refs, work, c)
    <3>1. Outer(Listed, dirties', c) = Outer(Listed, dirties, c)
      BY <1>14 DEF Outer
    <3>2. work[1] \notin RootCalls(c) /\ work[1] \notin DropCalls(c)
      BY <1>4, InsertUncounted
    <3>3. Count(work', RootCalls(c)) = Count(work, RootCalls(c)) /\ Count(work', DropCalls(c)) = Count(work, DropCalls(c))
      BY <1>3, <3>2
    <3> QED BY <3>1, <3>3 DEF HoldersOf
  <2> QED BY <1>5, <1>14, <2>1 DEF Counted
<1>22. dirties'[Meta] # Nil
  BY <1>4, <1>5, <1>6, <1>9
<1> HIDE DEF E
<1>23. Good(dirties', oldest, newest, work', refs, E, Listed)
  BY <1>3, <1>5, <1>9, <1>10, <1>12, <1>15, <1>16, <1>17, <1>18, <1>19, <1>20, <1>21, <1>22, Zenon DEF Good
<1>24. Good(dirties', oldest', newest', work', refs', Dirty', Listed')
  BY <1>2, <1>3, <1>11, <1>13, <1>23, Zenon
<1> QED BY <1>1, <1>3, <1>13, <1>24, GoodNext, Zenon

-----------------------------------------------------------------------------
(* The methods that take the lock.                                         *)

\* The calls w keep the counts when the references become r.
Balanced(w, r) ==
    \A c \in Hash :
        /\ Count(w, RootCalls(c)) \in Nat /\ Count(w, DropCalls(c)) \in Nat
        /\ refs[c] = r[c] - Count(w, RootCalls(c)) + Count(w, DropCalls(c))

\* Taking the lock with new work keeps the invariant.
LEMMA LockKeeps ==
    ASSUME IInv, Locks(work'), work' \in Seq(Call), \A i \in 1..Len(work') : work'[i].op # "delete",
           refs' \in [Hash -> Nat], OneKind(work'), Built(work', Dirty, refs'), Cascading(work', Dirty),
           Complete(Dirty, refs'), Balanced(work', refs')
    PROVE  IInv' /\ Listed' = Listed
<1>1. /\ Good(dirties, oldest, newest, work, refs, Dirty, Listed)
      /\ cleans \in SUBSET Hash /\ readers \in [Reader -> ReaderState]
  BY GoodNow
<1>2. work = <<>> /\ dirties' = dirties /\ oldest' = oldest /\ newest' = newest
      /\ cleans' = cleans /\ readers' = readers
  BY DEF Locks, Unlocked
<1>3. /\ dirties \in Nodes /\ dirties[Meta] # Nil /\ oldest \in Key /\ newest \in Key
      /\ refs \in [Hash -> Nat] /\ IsFiniteSet(Listed) /\ Linked(Listed, dirties, oldest, newest)
      /\ ChildrenAreRoots(Dirty, dirties) /\ RootsAreChildren(work, Listed, dirties)
      /\ Counted(Listed, dirties, refs, work) /\ work \in Seq(Call)
      /\ Dirty = {k \in Hash : dirties[k] # Nil} /\ Listed = Dirty \ CondemnedIn(work)
  BY <1>1 DEF Good
<1>4. CondemnedIn(work) = {}
  BY <1>2 DEF CondemnedIn
<1>5. CondemnedIn(work') = {}
  <2>1. \A g : DeleteCall(g).op = "delete"
    BY DEF DeleteCall
  <2> QED BY <2>1 DEF CondemnedIn
<1>6. Listed = Dirty /\ Dirty' = Dirty
  BY <1>2, <1>3, <1>4 DEF Dirty
<1>7. Listed' = Listed
  BY <1>4, <1>5, <1>6, CondemnedIs DEF Listed
<1>8. RootsAreChildren(work', Listed, dirties)
  <2>1. \A x : ~Holds(work, x, Len(work))
    BY <1>2 DEF Holds
  <2> QED BY <1>3, <2>1 DEF RootsAreChildren
<1>9. Counted(Listed, dirties, refs', work')
  <2>1. \A T : Count(work, T) = 0
    <3>1. ASSUME NEW T PROVE Count(work, T) = 0
      <4>1. Matching(work, T) = {}
        BY <1>2 DEF Matching
      <4> QED BY <1>3, <4>1, CountFinite, Zenon
    <3> QED BY <3>1
  <2>2. ASSUME NEW c \in Listed
        PROVE  HoldersOf(Listed, dirties, refs', work', c) = HoldersOf(Listed, dirties, refs, work, c)
    <3>1. c \in Hash
      BY <1>3
    <3>2. Cardinality(Inner(Listed, c)) \in Nat /\ Cardinality(Outer(Listed, dirties, c)) \in Nat
      BY <1>3, InnerFinite, OuterFinite
    <3>3. /\ Count(work', RootCalls(c)) \in Nat /\ Count(work', DropCalls(c)) \in Nat
          /\ refs[c] = refs'[c] - Count(work', RootCalls(c)) + Count(work', DropCalls(c))
          /\ refs'[c] \in Nat /\ refs[c] \in Nat
      BY <1>3, <3>1 DEF Balanced
    <3>4. Count(work, RootCalls(c)) = 0 /\ Count(work, DropCalls(c)) = 0
      BY <2>1
    <3> QED BY <3>2, <3>3, <3>4 DEF HoldersOf
  <2> QED BY <1>3, <2>2 DEF Counted
<1>10. Listed = Dirty \ CondemnedIn(work')
  BY <1>5, <1>6
<1>11. Built(work', Listed, refs') /\ Complete(Listed, refs')
  BY <1>6
<1>12. Good(dirties, oldest, newest, work', refs', Dirty, Listed)
  BY <1>3, <1>8, <1>9, <1>10, <1>11, Zenon DEF Good
<1>13. Good(dirties', oldest', newest', work', refs', Dirty', Listed')
  BY <1>2, <1>6, <1>7, <1>12, Zenon
<1> QED BY <1>1, <1>2, <1>7, <1>13, GoodNext, Zenon

\* The count over a single call.
LEMMA CountSingle ==
    ASSUME NEW x \in Call, NEW T
    PROVE  Count(<<x>>, T) = IF x \in T THEN 1 ELSE 0
<1>1. CASE x \in T
  <2>1. Matching(<<x>>, T) = {1}
    BY <1>1 DEF Matching
  <2> QED BY <1>1, <2>1, FS_Singleton DEF Count
<1>2. CASE x \notin T
  <2>1. Matching(<<x>>, T) = {}
    BY <1>2 DEF Matching
  <2> QED BY <1>2, <2>1, FS_EmptySet DEF Count
<1> QED BY <1>1, <1>2

\* Without the lock nothing is condemned.
LEMMA UnlockedFacts ==
    ASSUME IInv, Unlocked
    PROVE  /\ Listed = Dirty /\ Dirty \subseteq Hash /\ Hash \subseteq Key /\ Meta \notin Hash /\ Meta \in Key
           /\ refs \in [Hash -> Nat] /\ Complete(Dirty, refs) /\ Readable = Dirty \cup Disk
<1>1. Good(dirties, oldest, newest, work, refs, Dirty, Listed)
  BY GoodNow
<1>2. Listed = Dirty
  <2>1. CondemnedIn(work) = {}
    BY DEF Unlocked, CondemnedIn
  <2> QED BY <1>1, <2>1 DEF Good
<1>3. refs \in [Hash -> Nat] /\ Complete(Listed, refs)
  BY <1>1 DEF Good
<1>4. Dirty \subseteq Hash /\ Hash \subseteq Key /\ Meta \notin Hash /\ Meta \in Key
  BY TrieDatabaseAssumption DEF Dirty, Key
<1> QED BY <1>2, <1>3, <1>4 DEF Readable

\* Reference of a root keeps the invariant.
LEMMA RootReferenceKeeps ==
    ASSUME IInv, NEW root \in Roots, Reference(root)
    PROVE  IInv' /\ Listed' = Listed /\ refs' = [refs EXCEPT ![root] = @ + 1] /\ root \in Listed \cup Disk
<1> DEFINE x == ReferenceCall(root, Meta)
<1>1. /\ Unlocked /\ root \in Readable /\ refs' = [refs EXCEPT ![root] = @ + 1]
      /\ work' = <<x>> /\ Locks(work')
  BY DEF Reference, Locks, ReferenceCall
<1>2. /\ Listed = Dirty /\ Dirty \subseteq Hash /\ Hash \subseteq Key /\ Meta \notin Hash /\ Meta \in Key
      /\ refs \in [Hash -> Nat] /\ Complete(Dirty, refs) /\ Readable = Dirty \cup Disk
  BY <1>1, UnlockedFacts
<1>3. root \in Hash
  BY TrieDatabaseAssumption
<1>4. x \in Call /\ x.op = "reference" /\ x.child = root /\ x.parent = Meta
  BY <1>2, <1>3 DEF ReferenceCall, Call
<1> HIDE DEF x
<1>5. work' \in Seq(Call) /\ Len(work') = 1 /\ work'[1] = x /\ \A i \in 1..Len(work') : i = 1
  BY <1>1, <1>4
<1>6. /\ refs' \in [Hash -> Nat] /\ refs'[root] = refs[root] + 1 /\ refs[root] \in Nat
      /\ \A c \in Hash \ {root} : refs'[c] = refs[c]
  BY <1>1, <1>2, <1>3
<1>7. OneKind(work') /\ (\A i \in 1..Len(work') : work'[i].op # "delete")
  BY <1>4, <1>5 DEF OneKind
<1>8. Built(work', Dirty, refs')
  BY <1>4, <1>5, <1>6 DEF Built
<1>9. Cascading(work', Dirty)
  <2>1. \A i \in 1..Len(work') : work'[i].op = "reference" /\ (i + 1)..Len(work') = {}
    BY <1>4, <1>5
  <2> QED BY <2>1 DEF Cascading
<1>10. Complete(Dirty, refs')
  BY <1>1, <1>2, <1>6 DEF Complete
<1>11. Balanced(work', refs')
  <2> SUFFICES ASSUME NEW c \in Hash
               PROVE  /\ Count(work', RootCalls(c)) \in Nat /\ Count(work', DropCalls(c)) \in Nat
                      /\ refs[c] = refs'[c] - Count(work', RootCalls(c)) + Count(work', DropCalls(c))
    BY DEF Balanced
  <2>1. (x \in RootCalls(c) <=> root = c) /\ x \notin DropCalls(c)
    BY <1>2, <1>3, CallsCounted DEF x
  <2>2. /\ Count(work', RootCalls(c)) = IF x \in RootCalls(c) THEN 1 ELSE 0
        /\ Count(work', DropCalls(c)) = IF x \in DropCalls(c) THEN 1 ELSE 0
    BY <1>1, <1>4, CountSingle
  <2>3. refs[c] \in Nat /\ refs'[c] = refs[c] + (IF root = c THEN 1 ELSE 0)
    BY <1>2, <1>6
  <2> QED BY <2>1, <2>2, <2>3
<1>12. IInv' /\ Listed' = Listed
  BY <1>1, <1>5, <1>6, <1>7, <1>8, <1>9, <1>10, <1>11, LockKeeps
<1> QED BY <1>1, <1>2, <1>12

\* Dereference of a root keeps the invariant.
LEMMA RootDereferenceKeeps ==
    ASSUME IInv, NEW root \in Roots, Dereference(root)
    PROVE  IInv' /\ Listed' = Listed /\ refs' = [refs EXCEPT ![root] = @ - 1] /\ refs[root] > 0
<1> DEFINE x == DereferenceCall(root, Meta)
<1>1. /\ Unlocked /\ refs[root] > 0 /\ refs' = [refs EXCEPT ![root] = @ - 1]
      /\ work' = <<x>> /\ Locks(work')
  BY DEF Dereference, Locks, DereferenceCall
<1>2. /\ Listed = Dirty /\ Dirty \subseteq Hash /\ Hash \subseteq Key /\ Meta \notin Hash /\ Meta \in Key
      /\ refs \in [Hash -> Nat] /\ Complete(Dirty, refs)
  BY <1>1, UnlockedFacts
<1>3. root \in Hash
  BY TrieDatabaseAssumption
<1>4. x \in Call /\ x.op = "dereference" /\ x.child = root /\ x.parent = Meta
  BY <1>2, <1>3 DEF DereferenceCall, Call
<1> HIDE DEF x
<1>5. work' \in Seq(Call) /\ Len(work') = 1 /\ work'[1] = x /\ \A i \in 1..Len(work') : i = 1
  BY <1>1, <1>4
<1>6. /\ refs' \in [Hash -> Nat] /\ refs'[root] = refs[root] - 1 /\ refs[root] \in Nat
      /\ \A c \in Hash \ {root} : refs'[c] = refs[c]
  BY <1>1, <1>2, <1>3
<1>7. OneKind(work') /\ (\A i \in 1..Len(work') : work'[i].op # "delete")
  BY <1>4, <1>5 DEF OneKind
<1>8. Built(work', Dirty, refs')
  BY <1>4, <1>5 DEF Built
<1>9. Cascading(work', Dirty)
  <2>1. \A i \in 1..Len(work') : /\ work'[i].op = "dereference" /\ work'[i].parent = Meta
                                 /\ (i + 1)..Len(work') = {}
    BY <1>4, <1>5
  <2> QED BY <1>5, <2>1 DEF Cascading
<1>10. Complete(Dirty, refs')
  BY <1>1, <1>2, <1>6 DEF Complete
<1>11. Balanced(work', refs')
  <2> SUFFICES ASSUME NEW c \in Hash
               PROVE  /\ Count(work', RootCalls(c)) \in Nat /\ Count(work', DropCalls(c)) \in Nat
                      /\ refs[c] = refs'[c] - Count(work', RootCalls(c)) + Count(work', DropCalls(c))
    BY DEF Balanced
  <2>1. (x \in DropCalls(c) <=> root = c) /\ x \notin RootCalls(c)
    BY <1>2, <1>3, CallsCounted DEF x
  <2>2. /\ Count(work', RootCalls(c)) = IF x \in RootCalls(c) THEN 1 ELSE 0
        /\ Count(work', DropCalls(c)) = IF x \in DropCalls(c) THEN 1 ELSE 0
    BY <1>1, <1>4, CountSingle
  <2>3. refs[c] \in Nat /\ refs'[c] = refs[c] - (IF root = c THEN 1 ELSE 0)
    BY <1>2, <1>6
  <2> QED BY <2>1, <2>2, <2>3
<1>12. IInv' /\ Listed' = Listed
  BY <1>1, <1>5, <1>6, <1>7, <1>8, <1>9, <1>10, <1>11, LockKeeps
<1> QED BY <1>1, <1>12

\* The calls of Update: the inserts of the nodes, then the links of the leaves.
LEMMA UpdateKeeps ==
    ASSUME IInv, NEW batch \in Batches, Update(batch)
    PROVE  IInv' /\ Listed' = Listed /\ refs' = refs
<1> DEFINE a == batch.nodes
           b == batch.leaves
           v == [i \in 1..Len(a) |-> [op |-> "insert", node |-> a[i]]]
           w == [i \in 1..Len(b) |->
                    [op |-> "reference", child |-> StorageRoot[b[i]], parent |-> b[i]]]
<1>1. /\ Unlocked /\ Buildable(a) /\ refs' = refs
      /\ work' = v \o w /\ Locks(work')
  BY DEF Update, Locks
<1>2. /\ Listed = Dirty /\ Dirty \subseteq Hash /\ Hash \subseteq Key /\ Meta \notin Hash /\ Meta \in Key
      /\ refs \in [Hash -> Nat] /\ Complete(Dirty, refs) /\ Readable = Dirty \cup Disk
  BY <1>1, UnlockedFacts
<1>3. a \in Seq(Hash) /\ b \in Seq(Hash) /\ Range(b) = {h \in Range(a) : StorageRoot[h] # Nil}
  BY TrieDatabaseAssumption
<1>4. \A i \in 1..Len(a) : Succ[a[i]] \subseteq Dirty \cup Disk \cup {a[j] : j \in 1..(i - 1)}
  BY <1>1, <1>2 DEF Buildable
<1>5. \A i \in 1..Len(a) : StorageRoot[a[i]] # Nil => \E k \in 1..Len(b) : b[k] = a[i]
  <2> HIDE DEF a, b
  <2> SUFFICES ASSUME NEW i \in 1..Len(a), StorageRoot[a[i]] # Nil PROVE a[i] \in Range(b)
    BY <1>3 DEF Range
  <2>1. a[i] \in Range(a)
    BY <1>3 DEF Range
  <2> QED BY <1>3, <2>1
<1>6. \A k \in 1..Len(b) : b[k] \in Hash /\ StorageRoot[b[k]] \in Hash /\ \E i \in 1..Len(a) : a[i] = b[k]
  <2> HIDE DEF a, b
  <2> SUFFICES ASSUME NEW k \in 1..Len(b)
               PROVE  b[k] \in Hash /\ StorageRoot[b[k]] \in Hash /\ \E i \in 1..Len(a) : a[i] = b[k]
    OBVIOUS
  <2>1. b[k] \in Range(b) /\ b[k] \in Hash
    BY <1>3 DEF Range
  <2>2. b[k] \in Range(a) /\ StorageRoot[b[k]] # Nil
    BY <1>3, <2>1
  <2>3. StorageRoot[b[k]] \in Hash
    BY <2>1, <2>2, TrieDatabaseAssumption
  <2> QED BY <1>3, <2>1, <2>2, <2>3 DEF Range
<1> HIDE DEF a, b
<1>7. v \in Seq(Call) /\ Len(v) = Len(a) /\ \A i \in 1..Len(a) : v[i] = InsertCall(a[i])
  <2>1. \A i \in 1..Len(a) : [op |-> "insert", node |-> a[i]] \in Call
    BY <1>3 DEF Call
  <2> QED BY <1>3, <2>1 DEF InsertCall
<1>8. w \in Seq(Call) /\ Len(w) = Len(b) /\ \A i \in 1..Len(b) : w[i] = ReferenceCall(StorageRoot[b[i]], b[i])
  <2>1. \A i \in 1..Len(b) : [op |-> "reference", child |-> StorageRoot[b[i]], parent |-> b[i]] \in Call
    BY <1>2, <1>6 DEF Call
  <2> QED BY <1>3, <2>1 DEF ReferenceCall
<1> HIDE DEF v, w
<1>9. /\ work' \in Seq(Call) /\ Len(work') = Len(a) + Len(b) /\ Len(a) \in Nat /\ Len(b) \in Nat
      /\ \A i \in 1..Len(a) : work'[i] = InsertCall(a[i])
      /\ \A i \in 1..Len(b) : work'[Len(a) + i] = ReferenceCall(StorageRoot[b[i]], b[i])
  <2>1. work' \in Seq(Call) /\ Len(work') = Len(a) + Len(b) /\ Len(a) \in Nat /\ Len(b) \in Nat
    <3>1. v \o w \in Seq(Call) /\ Len(v \o w) = Len(v) + Len(w)
      BY <1>7, <1>8
    <3>2. Len(a) \in Nat /\ Len(b) \in Nat
      BY <1>3
    <3> QED BY ONLY <1>1, <1>7, <1>8, <3>1, <3>2
  <2>2. ASSUME NEW i \in 1..Len(a) PROVE work'[i] = InsertCall(a[i])
    BY <1>1, <1>7, <1>8, <2>1
  <2>3. ASSUME NEW i \in 1..Len(b) PROVE work'[Len(a) + i] = ReferenceCall(StorageRoot[b[i]], b[i])
    <3>1. Len(a) + i \in 1..(Len(a) + Len(b)) /\ ~(Len(a) + i <= Len(a)) /\ (Len(a) + i) - Len(a) = i
      BY <2>1
    <3> QED BY <1>1, <1>7, <1>8, <2>1, <3>1
  <2> QED BY <2>1, <2>2, <2>3
<1>10. \A i \in 1..Len(work') :
          \/ i \in 1..Len(a) /\ work'[i] = InsertCall(a[i])
          \/ \E k \in 1..Len(b) : i = Len(a) + k /\ work'[i] = ReferenceCall(StorageRoot[b[k]], b[k])
  <2> SUFFICES ASSUME NEW i \in 1..Len(work'), i \notin 1..Len(a)
               PROVE  \E k \in 1..Len(b) : i = Len(a) + k
    BY <1>9
  <2>1. i - Len(a) \in 1..Len(b) /\ i = Len(a) + (i - Len(a))
    BY <1>9
  <2> QED BY <2>1
<1>11. /\ \A h : InsertCall(h).op = "insert" /\ InsertCall(h).node = h
       /\ \A c, p : /\ ReferenceCall(c, p).op = "reference" /\ ReferenceCall(c, p).child = c
                    /\ ReferenceCall(c, p).parent = p
  BY DEF InsertCall, ReferenceCall
<1>12. \A i \in 1..Len(work') : /\ work'[i].op \in {"insert", "reference"} /\ work'[i].op # "delete"
                                /\ work'[i].op = "reference" => work'[i].parent \in Hash
  <2> SUFFICES ASSUME NEW i \in 1..Len(work')
               PROVE  /\ work'[i].op \in {"insert", "reference"} /\ work'[i].op # "delete"
                      /\ work'[i].op = "reference" => work'[i].parent \in Hash
    BY Zenon
  <2>1. CASE i \in 1..Len(a) /\ work'[i] = InsertCall(a[i])
    BY <1>11, <2>1
  <2>2. CASE \E k \in 1..Len(b) : i = Len(a) + k /\ work'[i] = ReferenceCall(StorageRoot[b[k]], b[k])
    BY <1>6, <1>11, <2>2
  <2> QED BY <1>10, <2>1, <2>2
<1>13. OneKind(work')
  BY <1>12 DEF OneKind
<1>14. Cascading(work', Dirty)
  <2>1. \A i \in 1..Len(work') : \A j \in (i + 1)..Len(work') : j \in 1..Len(work')
    BY <1>9
  <2>2. \A i \in 1..Len(work') : work'[i].op # "dereference" /\ work'[i].op # "delete"
    BY <1>12
  <2> QED BY <2>1, <2>2 DEF Cascading
<1>15. Built(work', Dirty, refs')
  <2> SUFFICES ASSUME NEW i \in 1..Len(work')
               PROVE  /\ work'[i].op = "insert" =>
                            LET h == work'[i].node IN
                            /\ \A g \in Succ[h] : g \in Dirty \cup Disk \/ Holds(work', InsertCall(g), i - 1)
                            /\ StorageRoot[h] # Nil =>
                                  \E j \in (i + 1)..Len(work') : work'[j] = ReferenceCall(StorageRoot[h], h)
                      /\ work'[i].op = "reference" =>
                            LET p == work'[i].parent IN
                            IF p = Meta THEN Len(work') = 1 /\ refs'[work'[i].child] # 0
                            ELSE /\ work'[i].child = StorageRoot[p]
                                 /\ p \in Dirty \/ Holds(work', InsertCall(p), i - 1)
    BY DEF Built
  <2>1. CASE i \in 1..Len(a) /\ work'[i] = InsertCall(a[i])
    <3>1. ASSUME NEW g \in Succ[a[i]], g \notin Dirty \cup Disk PROVE Holds(work', InsertCall(g), i - 1)
      <4>1. PICK j \in 1..(i - 1) : a[j] = g
        BY <1>4, <2>1, <3>1
      <4>2. j \in 1..Len(a)
        BY <2>1, <1>9
      <4>3. work'[j] = InsertCall(g)
        BY <1>9, <4>1, <4>2
      <4> QED BY <4>3 DEF Holds
    <3>2. ASSUME StorageRoot[a[i]] # Nil
          PROVE  \E j \in (i + 1)..Len(work') : work'[j] = ReferenceCall(StorageRoot[a[i]], a[i])
      <4>1. PICK k \in 1..Len(b) : b[k] = a[i]
        BY <1>5, <2>1, <3>2
      <4>2. Len(a) + k \in (i + 1)..Len(work')
        BY <1>9, <2>1
      <4>3. work'[Len(a) + k] = ReferenceCall(StorageRoot[a[i]], a[i])
        BY <1>9, <4>1
      <4> QED BY <4>2, <4>3
    <3> QED BY <1>11, <2>1, <3>1, <3>2
  <2>2. CASE \E k \in 1..Len(b) : i = Len(a) + k /\ work'[i] = ReferenceCall(StorageRoot[b[k]], b[k])
    <3>1. PICK k \in 1..Len(b) : i = Len(a) + k /\ work'[i] = ReferenceCall(StorageRoot[b[k]], b[k])
      BY <2>2
    <3>2. PICK j \in 1..Len(a) : a[j] = b[k]
      BY <1>6
    <3>3. j \in 1..(i - 1)
      BY <1>9, <3>1
    <3>4. Holds(work', InsertCall(b[k]), i - 1)
      BY <1>9, <3>2, <3>3 DEF Holds
    <3>5. b[k] # Meta
      BY <1>2, <1>6
    <3> QED BY <1>11, <3>1, <3>4, <3>5
  <2> QED BY <1>10, <2>1, <2>2
<1>16. Balanced(work', refs')
  <2> SUFFICES ASSUME NEW c \in Hash
               PROVE  /\ Count(work', RootCalls(c)) \in Nat /\ Count(work', DropCalls(c)) \in Nat
                      /\ refs[c] = refs'[c] - Count(work', RootCalls(c)) + Count(work', DropCalls(c))
    BY DEF Balanced
  <2>1. \A i \in 1..Len(work') : work'[i].op = "reference" => work'[i].parent \notin {Meta}
    BY <1>2, <1>12
  <2>2. \A i \in 1..Len(work') : work'[i].op = "dereference" => work'[i].parent \notin Key
    BY <1>12
  <2>3. Count(work', RootCalls(c)) = 0
    BY <1>9, <2>1, CountNone DEF RootCalls
  <2>4. Count(work', DropCalls(c)) = 0
    BY <1>9, <2>2, CountNone DEF DropCalls
  <2>5. refs[c] \in Nat
    BY <1>2
  <2> QED BY <1>1, <2>3, <2>4, <2>5
<1>17. Complete(Dirty, refs') /\ refs' \in [Hash -> Nat]
  BY <1>1, <1>2
<1>18. IInv' /\ Listed' = Listed
  BY <1>1, <1>9, <1>12, <1>13, <1>14, <1>15, <1>16, <1>17, LockKeeps
<1> QED BY <1>1, <1>18

-----------------------------------------------------------------------------
(* Readers, and the initial state.                                         *)

\* Readers and the clean cache do not touch the nodes.
LEMMA ReaderKeeps ==
    ASSUME IInv, UNCHANGED <<dirties, oldest, newest, work, refs>>,
           cleans' \in SUBSET Hash, readers' \in [Reader -> ReaderState]
    PROVE  IInv' /\ Listed' = Listed
<1>1. Good(dirties, oldest, newest, work, refs, Dirty, Listed)
  BY GoodNow
<1>2. dirties' = dirties /\ oldest' = oldest /\ newest' = newest /\ work' = work /\ refs' = refs
  OBVIOUS
<1>3. Dirty' = Dirty
  BY <1>2 DEF Dirty
<1>4. Listed' = Listed
  BY <1>2, <1>3 DEF Listed, Condemned
<1>5. Good(dirties', oldest', newest', work', refs', Dirty', Listed')
  BY <1>1, <1>2, <1>3, <1>4, Zenon
<1> QED BY <1>4, <1>5, GoodNext, Zenon

\* The states of a reader that is not idle.
LEMMA Reading ==
    ASSUME readers \in [Reader -> ReaderState], NEW r \in Reader, readers[r].pc \in {"dirties", "disk"}
    PROVE  /\ readers[r].hash \in Hash
           /\ [readers[r] EXCEPT !.pc = "disk"] \in ReaderState
           /\ [readers[r] EXCEPT !.pc = "disk"].hash = readers[r].hash
<1>1. readers[r] \in ReaderState
  OBVIOUS
<1>2. readers[r] # NotReading
  BY DEF NotReading
<1>3. readers[r] \in [pc : {"dirties", "disk"}, hash : Hash]
  BY <1>1, <1>2 DEF ReaderState
<1> QED BY <1>3 DEF ReaderState

\* A lookup in the clean cache keeps the invariant ...
LEMMA LookupCleanKeeps ==
    ASSUME IInv, NEW r \in Reader, NEW h \in Wanted, lookupClean(r, h)
    PROVE  IInv' /\ Listed' = Listed /\ refs' = refs
<1>1. cleans \in SUBSET Hash /\ readers \in [Reader -> ReaderState]
  BY GoodNow
<1>2. h \in Hash
  BY TrieDatabaseAssumption
<1>3. [pc |-> "dirties", hash |-> h] \in ReaderState
  BY <1>2 DEF ReaderState
<1>4. readers' \in [Reader -> ReaderState] /\ cleans' \in SUBSET Hash
  BY <1>1, <1>3 DEF lookupClean, Moves
<1>5. UNCHANGED <<dirties, oldest, newest, work, refs>>
  BY DEF lookupClean, Moves
<1> QED BY <1>4, <1>5, ReaderKeeps

\* ... so does one in the dirty cache ...
LEMMA LookupDirtyKeeps ==
    ASSUME IInv, NEW r \in Reader, lookupDirty(r)
    PROVE  IInv' /\ Listed' = Listed /\ refs' = refs
<1>1. cleans \in SUBSET Hash /\ readers \in [Reader -> ReaderState]
  BY GoodNow
<1>2. [readers[r] EXCEPT !.pc = "disk"] \in ReaderState /\ NotReading \in ReaderState
  BY <1>1, Reading DEF lookupDirty, ReaderState
<1>3. readers' \in [Reader -> ReaderState] /\ cleans' \in SUBSET Hash
  BY <1>1, <1>2 DEF lookupDirty, Moves
<1>4. UNCHANGED <<dirties, oldest, newest, work, refs>>
  BY DEF lookupDirty, Moves
<1> QED BY <1>3, <1>4, ReaderKeeps

\* ... and one on disk.
LEMMA LookupDiskKeeps ==
    ASSUME IInv, NEW r \in Reader, lookupDisk(r)
    PROVE  IInv' /\ Listed' = Listed /\ refs' = refs
<1>1. cleans \in SUBSET Hash /\ readers \in [Reader -> ReaderState] /\ Disk \subseteq Hash
  BY GoodNow, TrieDatabaseAssumption
<1>2. NotReading \in ReaderState
  BY DEF ReaderState
<1>3. readers' \in [Reader -> ReaderState]
  BY <1>1, <1>2 DEF lookupDisk, Moves
<1>4. cleans' \in SUBSET Hash
  BY <1>1 DEF lookupDisk
<1>5. UNCHANGED <<dirties, oldest, newest, work, refs>>
  BY DEF lookupDisk, Moves
<1> QED BY <1>3, <1>4, <1>5, ReaderKeeps

\* An eviction from the clean cache keeps the invariant.
LEMMA EvictKeeps ==
    ASSUME IInv, NEW h \in Hash, Evict(h)
    PROVE  IInv' /\ Listed' = Listed /\ refs' = refs
<1>1. cleans \in SUBSET Hash /\ readers \in [Reader -> ReaderState]
  BY GoodNow
<1>2. cleans' \in SUBSET Hash /\ readers' = readers
  BY <1>1 DEF Evict
<1>3. UNCHANGED <<dirties, oldest, newest, work, refs>>
  BY DEF Evict
<1> QED BY <1>1, <1>2, <1>3, ReaderKeeps

\* In the initial state only the meta root is there.
LEMMA InitIInv == Init => IInv /\ Listed = {}
<1> SUFFICES ASSUME Init PROVE IInv /\ Listed = {}
  OBVIOUS
<1>1. /\ dirties = [h \in Key |-> IF h = Meta THEN newNode(Meta) ELSE Nil]
      /\ oldest = Meta /\ newest = Meta /\ cleans = {} /\ work = <<>>
      /\ refs = [h \in Hash |-> 0] /\ readers = [r \in Reader |-> NotReading]
  BY DEF Init
<1>2. Hash \subseteq Key /\ Meta \in Key /\ Meta \notin Hash /\ Nil \notin CachedNode
  BY TrieDatabaseAssumption DEF Key
<1>3. newNode(Meta) \in CachedNode
  BY <1>2 DEF newNode, CachedNode
<1>4. newNode(Meta) # Nil
  BY <1>2, <1>3
<1>5. dirties \in Nodes /\ dirties[Meta] # Nil /\ \A h \in Hash : dirties[h] = Nil
  BY <1>1, <1>2, <1>3, <1>4 DEF Nodes
<1>6. Dirty = {}
  BY <1>5 DEF Dirty
<1>7. Listed = {}
  BY <1>6 DEF Listed
<1>8. work \in Seq(Call) /\ \A i : i \notin 1..Len(work)
  BY <1>1
<1>9. /\ OneKind(work) /\ Built(work, Listed, refs) /\ Cascading(work, Dirty)
  BY <1>8 DEF OneKind, Built, Cascading
<1>10. Linked(Listed, dirties, oldest, newest)
  BY <1>1, <1>7 DEF Linked
<1>11. ChildrenAreRoots(Dirty, dirties) /\ RootsAreChildren(work, Listed, dirties)
       /\ Counted(Listed, dirties, refs, work)
  BY <1>6, <1>7 DEF ChildrenAreRoots, RootsAreChildren, Counted
<1>12. Complete(Listed, refs) /\ refs \in [Hash -> Nat]
  BY <1>1, <1>7 DEF Complete
<1>13. IsFiniteSet(Listed)
  BY <1>7, FS_EmptySet
<1>14. Dirty = {h \in Hash : dirties[h] # Nil} /\ Listed = Dirty \ CondemnedIn(work)
  BY CondemnedIs DEF Dirty, Listed
<1>15. oldest \in Key /\ newest \in Key
  BY <1>1, <1>2
<1>16. Good(dirties, oldest, newest, work, refs, Dirty, Listed)
  BY <1>5, <1>8, <1>9, <1>10, <1>11, <1>12, <1>13, <1>14, <1>15, Zenon DEF Good
<1>17. cleans \in SUBSET Hash /\ readers \in [Reader -> ReaderState]
  BY <1>1 DEF ReaderState
<1> QED BY <1>7, <1>16, <1>17, GoodNow, Zenon

-----------------------------------------------------------------------------
(* Every step keeps the invariant and is one of NodeStore, or none.        *)

Stays == Listed' = Listed /\ refs' = refs

Adds(h) ==
    /\ h \notin Listed /\ Succ[h] \subseteq Listed \cup Disk
    /\ Listed' = Listed \cup {h} /\ refs' = refs

Collects(h) ==
    /\ h \in Listed
    /\ h \notin Disk => refs[h] = 0 /\ \A q \in Listed : h \notin Succ[q]
    /\ Listed' = Listed \ {h} /\ refs' = refs

Acquires(h) ==
    /\ h \in Listed \cup Disk
    /\ Listed' = Listed /\ refs' = [refs EXCEPT ![h] = @ + 1]

Releases(h) ==
    /\ refs[h] > 0
    /\ Listed' = Listed /\ refs' = [refs EXCEPT ![h] = @ - 1]

StoreMoves == Stays \/ \E h \in Hash : Adds(h) \/ Collects(h) \/ Acquires(h) \/ Releases(h)

\* Every step keeps the invariant, and moves the store or leaves it.
LEMMA IInvStep ==
    ASSUME IInv, [Next]_databaseVars
    PROVE  IInv' /\ StoreMoves
<1> USE DEF StoreMoves
<1>1. CASE insert
  <2>1. CASE Head(work).node \in Dirty
    BY <1>1, <2>1, InsertSkips DEF Stays
  <2>2. CASE Head(work).node \notin Dirty
    <3>1. /\ IInv'
          /\ Listed' = Listed \cup {Head(work).node} /\ Head(work).node \in Hash \ Listed
          /\ Succ[Head(work).node] \subseteq Listed \cup Disk
          /\ refs' = refs
      BY <1>1, <2>2, InsertAdds, Zenon
    <3> DEFINE h == Head(work).node
    <3>2. h \in Hash /\ Adds(h)
      BY <3>1 DEF Adds
    <3> QED BY <3>1, <3>2
  <2> QED BY <2>1, <2>2
<1>2. CASE reference
  BY <1>2, ReferenceKeeps DEF Stays
<1>3. CASE dereference
  <2>1. /\ IInv' /\ refs' = refs
        /\ \/ Listed' = Listed
           \/ \E c \in Listed : /\ Listed' = Listed \ {c}
                                /\ c \notin Disk => refs[c] = 0 /\ \A q \in Listed : c \notin Succ[q]
    BY <1>3, DereferenceKeeps, Zenon
  <2>2. CASE Listed' = Listed
    BY <2>1, <2>2 DEF Stays
  <2>3. CASE \E c \in Listed : /\ Listed' = Listed \ {c}
                               /\ c \notin Disk => refs[c] = 0 /\ \A q \in Listed : c \notin Succ[q]
    <3>1. PICK c \in Listed : /\ Listed' = Listed \ {c}
                              /\ c \notin Disk => refs[c] = 0 /\ \A q \in Listed : c \notin Succ[q]
      BY <2>3, Zenon
    <3>2. Collects(c)
      BY <2>1, <3>1 DEF Collects
    <3>3. c \in Hash
      BY DEF Listed, Dirty
    <3> QED BY <2>1, <3>2, <3>3
  <2> QED BY <2>1, <2>2, <2>3
<1>4. CASE delete
  BY <1>4, DeleteKeeps DEF Stays
<1>5. ASSUME NEW batch \in Batches, Update(batch) PROVE IInv' /\ StoreMoves
  BY <1>5, UpdateKeeps DEF Stays
<1>6. ASSUME NEW root \in Roots, Reference(root) PROVE IInv' /\ StoreMoves
  <2>1. IInv' /\ Acquires(root)
    BY <1>6, RootReferenceKeeps DEF Acquires
  <2>2. root \in Hash
    BY TrieDatabaseAssumption
  <2> QED BY <2>1, <2>2
<1>7. ASSUME NEW root \in Roots, Dereference(root) PROVE IInv' /\ StoreMoves
  <2>1. IInv' /\ Releases(root)
    BY <1>7, RootDereferenceKeeps DEF Releases
  <2>2. root \in Hash
    BY TrieDatabaseAssumption
  <2> QED BY <2>1, <2>2
<1>8. ASSUME NEW r \in Reader, NEW h \in Wanted, lookupClean(r, h) PROVE IInv' /\ StoreMoves
  BY <1>8, LookupCleanKeeps DEF Stays
<1>9. ASSUME NEW r \in Reader, lookupDirty(r) PROVE IInv' /\ StoreMoves
  BY <1>9, LookupDirtyKeeps DEF Stays
<1>10. ASSUME NEW r \in Reader, lookupDisk(r) PROVE IInv' /\ StoreMoves
  BY <1>10, LookupDiskKeeps DEF Stays
<1>11. ASSUME NEW h \in Hash, Evict(h) PROVE IInv' /\ StoreMoves
  BY <1>11, EvictKeeps DEF Stays
<1>12. CASE UNCHANGED databaseVars
  <2>1. UNCHANGED <<dirties, oldest, newest, work, refs>> /\ cleans' = cleans /\ readers' = readers
    BY <1>12 DEF databaseVars
  <2>2. cleans \in SUBSET Hash /\ readers \in [Reader -> ReaderState]
    BY GoodNow
  <2> QED BY <2>1, <2>2, ReaderKeeps DEF Stays
<1> QED BY <1>1, <1>2, <1>3, <1>4, <1>5, <1>6, <1>7, <1>8, <1>9, <1>10, <1>11, <1>12 DEF Next

\* The inductive invariant holds in every state.
THEOREM DatabaseInductive == Spec => []IInv
<1>1. Init => IInv
  BY InitIInv
<1>2. IInv /\ [Next]_databaseVars => IInv'
  BY IInvStep
<1> QED BY <1>1, <1>2, PTL DEF Spec

-----------------------------------------------------------------------------
(***************************************************************************)
(* parents counts the references to a node exactly, whatever the nodes     *)
(* refer to, whatever is inserted and referenced, in the middle of every   *)
(* cascade, and although the 16 bit counters of children may wrap: the     *)
(* decision of dereference that a node may go is never wrong.              *)
(***************************************************************************)
THEOREM DatabaseCounts == Spec => []DatabaseInv
<1>1. IInv => DatabaseInv
  BY DEF IInv, Present, DatabaseInv
<1> QED BY <1>1, DatabaseInductive, PTL

(***************************************************************************)
(* The nodes that stay form one doubly linked list from oldest to newest,  *)
(* so insert and the switch of dereference always write through pointers   *)
(* to nodes that are there.                                                *)
(***************************************************************************)
THEOREM DatabaseLinked == Spec => []FlushListLinked
<1>1. IInv => FlushListLinked
  BY DEF IInv
<1> QED BY <1>1, DatabaseInductive, PTL

\* Every step of the database is one of NodeStore, or changes nothing there.
LEMMA StoreSimulated ==
    ASSUME IInv, StoreMoves
    PROVE  [Store!Next]_(Store!storeVars)
<1>1. CASE Stays
  BY <1>1 DEF Stays, Store!storeVars
<1>2. ASSUME NEW h \in Hash, Adds(h) PROVE [Store!Next]_(Store!storeVars)
  <2>1. CASE h \in Disk
    BY <1>2, <2>1 DEF Adds, Store!storeVars
  <2>2. CASE h \notin Disk
    <3>1. Store!Add(h)
      BY <1>2, <2>2 DEF Adds, Store!Add
    <3> QED BY <3>1 DEF Store!Next
  <2> QED BY <2>1, <2>2
<1>3. ASSUME NEW h \in Hash, Collects(h) PROVE [Store!Next]_(Store!storeVars)
  <2>1. CASE h \in Disk
    BY <1>3, <2>1 DEF Collects, Store!storeVars
  <2>2. CASE h \notin Disk
    <3>1. \A n \in Disk : h \notin Succ[n]
      BY <2>2, TrieDatabaseAssumption
    <3>2. Store!Collect(h)
      BY <1>3, <2>2, <3>1 DEF Collects, Store!Collect, Store!Referenced
    <3> QED BY <3>2 DEF Store!Next
  <2> QED BY <2>1, <2>2
<1>4. ASSUME NEW h \in Hash, Acquires(h) PROVE [Store!Next]_(Store!storeVars)
  <2>1. Store!Acquire(h)
    BY <1>4 DEF Acquires, Store!Acquire
  <2> QED BY <2>1 DEF Store!Next
<1>5. ASSUME NEW h \in Hash, Releases(h) PROVE [Store!Next]_(Store!storeVars)
  <2>1. refs \in [Hash -> Nat]
    BY DEF IInv, Present, TypeOK
  <2>2. Store!Release(h)
    BY <1>5, <2>1 DEF Releases, Store!Release
  <2> QED BY <2>2 DEF Store!Next
<1> QED BY <1>1, <1>2, <1>3, <1>4, <1>5 DEF StoreMoves

(***************************************************************************)
(* The database implements NodeStore: counting references, as insert,      *)
(* reference and dereference do it, collects a node that is in memory only *)
(* exactly when no node that stays and no caller refers to it.             *)
(***************************************************************************)
THEOREM DatabaseImplementsStore == Spec => StoreSpec
<1>1. Init => Store!Init
  <2> SUFFICES ASSUME Init PROVE Store!Init
    OBVIOUS
  <2>1. Listed = {} /\ refs = [h \in Hash |-> 0]
    BY InitIInv DEF Init
  <2> QED BY <2>1 DEF Store!Init
<1>2. IInv /\ [Next]_databaseVars => [Store!Next]_(Store!storeVars)
  BY IInvStep, StoreSimulated
<1> QED BY <1>1, <1>2, DatabaseInductive, PTL DEF Spec, StoreSpec, Store!Spec

-----------------------------------------------------------------------------
(* What NodeStore promises its callers.                                    *)

\* A node is never added before, and never collected after, the nodes it
\* refers to.
StoreInv ==
    /\ refs \in [Hash -> Nat]
    /\ Listed \cup Disk \subseteq Hash
    /\ \A h \in Listed \cup Disk : Succ[h] \subseteq Listed \cup Disk
    /\ \A h \in Hash : refs[h] # 0 => h \in Listed \cup Disk

\* The invariant of the abstract store holds initially ...
LEMMA StoreInitially == Store!Init => StoreInv
<1> SUFFICES ASSUME Store!Init PROVE StoreInv
  OBVIOUS
<1>1. Listed \cup Disk = Disk /\ refs = [h \in Hash |-> 0]
  BY DEF Store!Init
<1> QED BY <1>1, TrieDatabaseAssumption DEF StoreInv

\* ... and is kept by its steps.
LEMMA StoreStep == StoreInv /\ [Store!Next]_(Store!storeVars) => StoreInv'
<1> DEFINE N == Listed \cup Disk
           Kept(M) == /\ M \subseteq Hash /\ \A h \in M : Succ[h] \subseteq M
<1> SUFFICES ASSUME StoreInv, [Store!Next]_(Store!storeVars) PROVE StoreInv'
  OBVIOUS
<1>1. refs \in [Hash -> Nat] /\ Kept(N) /\ \A h \in Hash : refs[h] # 0 => h \in N
  BY DEF StoreInv
<1>2. SUFFICES refs' \in [Hash -> Nat] /\ Kept(N') /\ \A h \in Hash : refs'[h] # 0 => h \in N'
  BY DEF StoreInv
<1>3. CASE UNCHANGED Store!storeVars
  <2>1. N' = N /\ refs' = refs
    BY <1>3 DEF Store!storeVars
  <2> HIDE DEF N
  <2> QED BY <1>1, <2>1
<1>4. ASSUME NEW h \in Hash, Store!Add(h)
      PROVE  refs' \in [Hash -> Nat] /\ Kept(N') /\ \A g \in Hash : refs'[g] # 0 => g \in N'
  <2>1. N' = N \cup {h} /\ refs' = refs /\ Succ[h] \subseteq N
    BY <1>4 DEF Store!Add
  <2> HIDE DEF N
  <2> QED BY <1>1, <2>1
<1>5. ASSUME NEW h \in Hash, Store!Acquire(h)
      PROVE  refs' \in [Hash -> Nat] /\ Kept(N') /\ \A g \in Hash : refs'[g] # 0 => g \in N'
  <2>1. N' = N /\ refs' = [refs EXCEPT ![h] = @ + 1] /\ h \in N
    BY <1>5 DEF Store!Acquire
  <2> HIDE DEF N
  <2> QED BY <1>1, <2>1
<1>6. ASSUME NEW h \in Hash, Store!Release(h)
      PROVE  refs' \in [Hash -> Nat] /\ Kept(N') /\ \A g \in Hash : refs'[g] # 0 => g \in N'
  <2>1. N' = N /\ refs' = [refs EXCEPT ![h] = @ - 1] /\ refs[h] # 0
    BY <1>6 DEF Store!Release
  <2> HIDE DEF N
  <2>2. refs[h] - 1 \in Nat
    BY <1>1, <2>1
  <2>3. refs' \in [Hash -> Nat]
    BY <1>1, <2>1, <2>2
  <2>4. \A g \in Hash : refs'[g] # 0 => refs[g] # 0
    BY <1>1, <2>1
  <2> QED BY <1>1, <2>1, <2>3, <2>4
<1>7. ASSUME NEW h \in Hash, Store!Collect(h)
      PROVE  refs' \in [Hash -> Nat] /\ Kept(N') /\ \A g \in Hash : refs'[g] # 0 => g \in N'
  <2>1. N' = N \ {h} /\ refs' = refs /\ refs[h] = 0 /\ \A n \in N : h \notin Succ[n]
    BY <1>7 DEF Store!Collect, Store!Referenced
  <2> HIDE DEF N
  <2> QED BY <1>1, <2>1
<1> QED BY <1>3, <1>4, <1>5, <1>6, <1>7 DEF Store!Next

(***************************************************************************)
(* While a caller holds a reference to a root, every node below the root   *)
(* can be read, whatever else the store adds, releases and collects.       *)
(***************************************************************************)
THEOREM StoreReadable == StoreSpec => []Store!ReferencedReadable
<1>1. StoreInv => Store!ReferencedReadable
  <2> DEFINE N == Listed \cup Disk
  <2> SUFFICES ASSUME StoreInv, NEW h \in Store!Reachable(Store!Referenced) PROVE h \in N
    BY DEF Store!ReferencedReadable
  <2>1. N \in SUBSET Hash /\ Store!Referenced \subseteq N /\ Store!Closed(N)
    BY DEF StoreInv, Store!Referenced, Store!Closed
  <2> HIDE DEF N
  <2> QED BY <2>1 DEF Store!Reachable
<1> QED BY <1>1, StoreInitially, StoreStep, PTL DEF StoreSpec, Store!Spec

(***************************************************************************)
(* A trie whose root a caller references can be read completely from the   *)
(* database in every state, in the middle of cascades too.                 *)
(***************************************************************************)
THEOREM DatabaseReadable == Spec => []Store!ReferencedReadable
  BY DatabaseImplementsStore, StoreReadable, PTL

(***************************************************************************)
(* A reader that misses a node in the clean cache and in the dirty nodes,  *)
(* and a node that is not on disk either, reads below no root that is      *)
(* referenced at that moment: lookups that are not atomic lose no node.    *)
(***************************************************************************)
THEOREM DatabaseReads == Spec => ReadsFindReferenced
<1> DEFINE Finds == \A r \in Reader :
              readers[r].pc = "dirties" /\ readers'[r].pc = "disk" /\ readers[r].hash \notin Disk
                 => \A root \in Roots : readers[r].hash \in Below[root] => refs[root] = 0
<1>1. IInv /\ [Next]_databaseVars => [Finds]_databaseVars
  <2> SUFFICES ASSUME IInv, Next, NEW r \in Reader, readers[r].pc = "dirties", readers'[r].pc = "disk",
                      readers[r].hash \notin Disk, NEW root \in Roots, readers[r].hash \in Below[root],
                      refs[root] # 0
               PROVE  FALSE
    OBVIOUS
  <2>1. readers \in [Reader -> ReaderState]
    BY GoodNow
  <2>2. readers' # readers
    OBVIOUS
  <2>3. NotReading.pc = "idle"
    BY DEF NotReading
  <2>4. CASE \E q \in Reader : lookupDirty(q)
    <3>1. PICK q \in Reader : lookupDirty(q)
      BY <2>4
    <3>2. Unlocked /\ readers' = [readers EXCEPT ![q] = IF readers[q].hash \in Dirty THEN NotReading
                                                        ELSE [readers[q] EXCEPT !.pc = "disk"]]
      BY <3>1 DEF lookupDirty, Moves
    <3>3. q = r /\ readers[r].hash \notin Dirty
      BY <2>1, <2>3, <3>2
    <3>4. Complete(Dirty, refs) /\ Dirty \subseteq Hash
      BY <3>2, UnlockedFacts
    <3>5. Disk \subseteq Hash /\ (\A h \in Disk : Succ[h] \subseteq Disk) /\ root \in Hash
      BY TrieDatabaseAssumption
    <3> DEFINE S == Dirty \cup Disk
    <3>6. S \in SUBSET Hash /\ root \in S /\ \A n \in S : Succ[n] \subseteq S
      BY <3>4, <3>5 DEF Complete
    <3>7. Below[root] \subseteq S
      BY <3>5, <3>6, BelowFacts
    <3> QED BY <3>3, <3>7
  <2>5. CASE \E q \in Reader, h \in Wanted : lookupClean(q, h)
    <3>1. PICK q \in Reader, h \in Wanted : lookupClean(q, h)
      BY <2>5
    <3>2. readers[q] = NotReading /\ readers' = [readers EXCEPT ![q] = [pc |-> "dirties", hash |-> h]]
      BY <3>1 DEF lookupClean, Moves
    <3> QED BY <2>1, <2>3, <3>2
  <2>6. CASE \E q \in Reader : lookupDisk(q)
    <3>1. PICK q \in Reader : lookupDisk(q)
      BY <2>6
    <3>2. readers' = [readers EXCEPT ![q] = NotReading]
      BY <3>1 DEF lookupDisk, Moves
    <3> QED BY <2>1, <2>3, <3>2
  <2>7. CASE insert \/ reference \/ delete \/ \E h \in Hash : Evict(h)
    BY <2>2, <2>7 DEF insert, reference, delete, Returns, Evict
  <2>8. CASE dereference
    BY <2>2, <2>8 DEF dereference, Returns
  <2>9. CASE \/ \E batch \in Batches : Update(batch)
             \/ \E q \in Roots : Reference(q) \/ Dereference(q)
    BY <2>2, <2>9 DEF Update, Reference, Dereference, Locks
  <2> QED BY <2>4, <2>5, <2>6, <2>7, <2>8, <2>9 DEF Next
<1> QED BY <1>1, DatabaseInductive, PTL DEF Spec, ReadsFindReferenced
=============================================================================
