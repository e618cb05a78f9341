------------------------------- MODULE MCTrie -------------------------------
(* Instance of Trie for TLC.                                               *)
EXTENDS TrieIterator, TLC
CONSTANTS small, large
MCValueSize == small :> 1 @@ large :> 33
\* The keys 0x00, 0x01 and 0x0001: nibbles 0 0, 0 1 and 0 0 0 1.
MCKey == {<<0>>, <<1>>, <<0, 1>>}
MCStart == {<<>>, <<1>>}
=============================================================================
