-------------------------- MODULE StateDBPrefetch --------------------------
(***************************************************************************)
(* StateDB together with its prefetcher.  Finalise names the accounts that *)
(* will be written, the prefetcher loads an account trie of its own for    *)
(* them, and IntermediateRoot goes on with that trie instead of s.trie.    *)
(* The goroutines are the subject of TriePrefetcher; here a prefetcher is  *)
(* what StateDB can tell of it.  Storage tries come from the prefetcher by *)
(* the account's root, so they have the content the database would give.   *)
(***************************************************************************)
EXTENDS StateDB

VARIABLE prefetcher   \* s.prefetcher: Nil, or
                      \* active:  it is not the inactive copy that Copy makes
                      \* account: it was asked for the account trie

prefetchVars == <<vars, prefetcher>>

PInit == Init /\ prefetcher = Nil

\* prefetch(common.Hash{}, s.originalRoot, addrs): an inactive one bails out.
prefetch(p, addrs) ==
    IF p # Nil /\ addrs # {} THEN [p EXCEPT !.account = @ \/ p.active] ELSE p

\* Bound: callers start a prefetcher on a trie that is as it was opened, as
\* block processing does right after New.  The code has no such condition.
StartPrefetcher ==
    /\ Idle
    /\ "prefetch" \in Env
    /\ trie = originalRoot
    /\ prefetcher' = [active |-> TRUE, account |-> FALSE]
    /\ UNCHANGED vars

StopPrefetcher ==
    /\ Idle
    /\ prefetcher # Nil
    /\ prefetcher' = Nil
    /\ UNCHANGED vars

PFinalise(deleteEmptyObjects) ==
    /\ Finalise(deleteEmptyObjects)
    /\ prefetcher' = prefetch(prefetcher, Finalised)

\* The account tries IntermediateRoot may write to: that of the prefetcher,
\* opened at originalRoot, unless opening it failed.
AccountTries(p) == {trie} \cup (IF p # Nil /\ p.account THEN {originalRoot} ELSE {})

\* Mutant of PIntermediateRoot: the prefetcher is used for a second round.
PIntermediateRootKeeps(deleteEmptyObjects) ==
    /\ prefetcher' = prefetch(prefetcher, Finalised)
    /\ \E base \in AccountTries(prefetch(prefetcher, Finalised)) :
          IntermediateRootOn(base, deleteEmptyObjects)

\* The prefetcher is closed and removed after this round of use.
PIntermediateRoot(deleteEmptyObjects) ==
    /\ prefetcher' = Nil
    /\ \E base \in AccountTries(prefetch(prefetcher, Finalised)) :
          IntermediateRootOn(base, deleteEmptyObjects)

PCopy ==
    /\ Copy
    /\ prefetcher' = IF prefetcher = Nil THEN Nil ELSE [prefetcher EXCEPT !.active = FALSE]

PNext ==
    \/ Call /\ UNCHANGED prefetcher
    \/ \E deleteEmptyObjects \in BOOLEAN :
          PFinalise(deleteEmptyObjects) \/ PIntermediateRoot(deleteEmptyObjects)
    \/ PCopy
    \/ StartPrefetcher
    \/ StopPrefetcher

PSpec == PInit /\ [][PNext]_prefetchVars

-----------------------------------------------------------------------------
(***************************************************************************)
(* With a prefetcher IntermediateRoot throws s.trie away for a trie of the *)
(* original root, "so far untouched" as a comment there says.  What it     *)
(* leaves behind is still what it would without a prefetcher: no write of  *)
(* an earlier round is lost, in the StateDB or in a copy that took an      *)
(* inactive prefetcher along.                                              *)
(***************************************************************************)
PrefetchTransparent ==
    [][\A d \in BOOLEAN : PIntermediateRoot(d) => IntermediateRoot(d)]_prefetchVars
=============================================================================
