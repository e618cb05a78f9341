---------------------------- MODULE LeafHistory ----------------------------
(***************************************************************************)
(* LeafStateDB with a history variable that remembers, for each snapshot   *)
(* that is still valid, everything a caller could observe when it was      *)
(* taken.                                                                  *)
(***************************************************************************)
EXTENDS LeafStateDB

VARIABLE saved   \* saved[i] is the View when validRevisions[i] was taken

historyVars == <<vars, saved>>

View == [tx |-> TxView, accounts |-> [a \in Addr |-> AccountView(a)]]

HInit == Init /\ saved = <<>>

HNext ==
    /\ Next
    /\ saved' = [i \in 1..Len(validRevisions') |->
                    IF i <= Len(saved) THEN saved[i] ELSE View]

HSpec == HInit /\ [][HNext]_historyVars

(***************************************************************************)
(* RevertToSnapshot reverts all state changes made since the revision: at  *)
(* the end of the loop every observable is what it was at the snapshot.    *)
(* The revert of a reset does not take back the destruct mark, which no    *)
(* observable of this package depends on.                                  *)
(***************************************************************************)
LeafRevertRestores ==
    ~Idle /\ ~Undoing /\ ~failed =>
        /\ TxView = saved[reverting].tx
        /\ \A a \in Addr : Genuine(a) => AccountView(a) = saved[reverting].accounts[a]
=============================================================================
