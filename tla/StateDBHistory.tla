--------------------------- MODULE StateDBHistory ---------------------------
(***************************************************************************)
(* StateDB with a history variable that remembers, for each snapshot that  *)
(* is still valid, everything a caller could observe when it was taken.    *)
(***************************************************************************)
EXTENDS StateDBPrefetch

VARIABLE saved   \* saved[i] is the View when validRevisions[i] was taken

historyVars == <<prefetchVars, saved>>

View == [tx |-> TxView, accounts |-> [a \in Addr |-> AccountView(a)]]

HInit == PInit /\ saved = <<>>

HNext ==
    /\ PNext
    /\ saved' = [i \in 1..Len(validRevisions') |->
                    IF i <= Len(saved) THEN saved[i] ELSE View]

HSpec == HInit /\ [][HNext]_historyVars

(***************************************************************************)
(* RevertToSnapshot reverts all state changes made since the revision: at  *)
(* the end of the loop every observable of the state (existence, balance,  *)
(* nonce, code, current and committed storage, the suicide mark, refund,   *)
(* logs, preimages, access list and transient storage) is what it was at   *)
(* the snapshot, whatever was loaded, created, reset, suicided or partly   *)
(* reverted since.                                                         *)
(***************************************************************************)
RevertRestores ==
    ~Idle /\ ~Undoing /\ ~dbErr => View = saved[reverting]
=============================================================================
