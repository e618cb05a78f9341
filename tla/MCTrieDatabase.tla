--------------------------- MODULE MCTrieDatabase ---------------------------
(* Instance of TrieDatabase for TLC.                                       *)
EXTENDS TrieDatabase, TLC

(***************************************************************************)
(* root1 and root2 are roots of account tries.  They share acct1, and      *)
(* root2 holds acct2 too; the two accounts have the same storage, whose    *)
(* root stroot is a node with the same leaf in two of its slots.  acct3 of *)
(* root1 is on disk.                                                       *)
(***************************************************************************)
CONSTANTS stleaf, stroot, acct1, acct2, acct3, root1, root2

MCEdge ==
    stleaf :> <<>> @@ stroot :> <<stleaf, stleaf>>
    @@ acct1 :> <<>> @@ acct2 :> <<>> @@ acct3 :> <<>>
    @@ root1 :> <<acct1, acct3>> @@ root2 :> <<acct1, acct2>>

MCStorageRoot == [h \in Hash |-> IF h \in {acct1, acct2} THEN stroot ELSE Nil]

\* The whole of root1, what root2 adds to it, the whole of root2, what root1
\* adds to that with acct3 injected again, and the storage alone.
MCBatches ==
    {[nodes |-> s, leaves |-> SelectSeq(s, LAMBDA h : MCStorageRoot[h] # Nil)] :
        s \in {<<stleaf, stroot, acct1, root1>>, <<acct2, root2>>,
               <<stleaf, stroot, acct2, acct1, root2>>, <<acct3, root1>>, <<stleaf, stroot>>}}

\* A counter of two references to root1 wraps.
MCMaxRefs == root1 :> 2 @@ root2 :> 1
=============================================================================
