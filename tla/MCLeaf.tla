------------------------------ MODULE MCLeaf -------------------------------
(* Instances of LeafStateDB for TLC.                                       *)
EXTENDS LeafHistory

CONSTANT Set   \* a slot value other than Zero

\* Every account is absent, or has funds and storage.
MCRows ==
    [Addr -> {Nil, [nonce |-> 1, balance |-> 1, code |-> NoCode, slots |-> [k \in Key |-> Set]]}]

\* Long journals of account changes; shorter ones with logs, failed queries or
\* fake storage, one at a time.
Bounded ==
    LET fake == \E a \in Addr : ~Genuine(a)
        logged == logSize > 0
    IN /\ ~(failed /\ fake) /\ ~(failed /\ logged) /\ ~(fake /\ logged)
       /\ logged => Len(journal.entries) <= 2
       /\ failed => Len(journal.entries) <= 1
       /\ fake => journal.entries = <<>>

\* pendingStorage and the destruct set are written and never read: states that
\* differ in them only have the same behaviours.
WithoutUnread ==
    <<journalVars, txVars, saved, failed, database, stateObjectsPending, stateObjectsDirty,
      [a \in Addr |-> IF stateObjects[a] = Nil THEN Nil
                      ELSE [stateObjects[a] EXCEPT !.pendingStorage = NoStorage]]>>
=============================================================================
