----------------------------- MODULE NodeStore -----------------------------
(***************************************************************************)
(* What trie.Database promises its callers: nodes that are added stay      *)
(* readable while something refers to them.  Nodes are known by their      *)
(* hash, and a hash determines what a node refers to (Succ), so a caller   *)
(* that holds a reference to a root can read the whole trie below it.      *)
(***************************************************************************)
EXTENDS Naturals

CONSTANTS
    Hash,   \* hashes of trie nodes
    Succ,   \* the nodes a node refers to, storage roots of accounts included
    Disk    \* nodes of the persistent database

VARIABLES
    nodes,  \* the nodes that can be read
    refs    \* references the callers hold on roots

storeVars == <<nodes, refs>>

Init ==
    /\ nodes = Disk
    /\ refs = [h \in Hash |-> 0]

Referenced == {h \in Hash : refs[h] # 0}

\* A node comes after the nodes it refers to.
Add(h) ==
    /\ h \notin nodes
    /\ Succ[h] \subseteq nodes
    /\ nodes' = nodes \cup {h}
    /\ UNCHANGED refs

Acquire(h) ==
    /\ h \in nodes
    /\ refs' = [refs EXCEPT ![h] = @ + 1]
    /\ UNCHANGED nodes

Release(h) ==
    /\ refs[h] # 0
    /\ refs' = [refs EXCEPT ![h] = @ - 1]
    /\ UNCHANGED nodes

\* Only a node that nothing refers to may go.
Collect(h) ==
    /\ h \in nodes \ (Disk \cup Referenced)
    /\ \A n \in nodes : h \notin Succ[n]
    /\ nodes' = nodes \ {h}
    /\ UNCHANGED refs

Next == \E h \in Hash : Add(h) \/ Acquire(h) \/ Release(h) \/ Collect(h)

Spec == Init /\ [][Next]_storeVars

-----------------------------------------------------------------------------
Closed(S) == \A h \in S : Succ[h] \subseteq S

\* The persistent database holds complete tries.
DiskClosed == Disk \subseteq Hash /\ Closed(Disk)

\* The nodes on the way from the nodes in R down: what every closed set that
\* holds R has to hold.
Reachable(R) ==
    {h \in Hash : \A S \in SUBSET Hash : R \subseteq S /\ Closed(S) => h \in S}

(***************************************************************************)
(* A trie whose root is referenced can be read completely.                 *)
(***************************************************************************)
ReferencedReadable == Reachable(Referenced) \subseteq nodes
=============================================================================
