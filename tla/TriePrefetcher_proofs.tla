----------------------- MODULE TriePrefetcher_proofs -----------------------
(***************************************************************************)
(* Proofs about TriePrefetcher, for every set of tries, keys and batches.  *)
(***************************************************************************)
EXTENDS TriePrefetcher, SequenceTheorems, TLAPS

\* The tasks the loop has taken exist only while it works on them, and it
\* loads one only if there is one.
BatchTaken ==
    \A t \in Trie :
        /\ pc[t] \notin {"working", "loading"} => batch[t] = <<>>
        /\ pc[t] = "loading" => batch[t] # <<>>

\* Every step of the caller and of the loops keeps the types.
LEMMA TypeStep ==
    ASSUME TypeOK, BatchTaken, [Next]_prefetcherVars
    PROVE  TypeOK'
<1> USE PrefetcherAssumption DEF TypeOK
<1>1. Idle \in [op : {"none", "prefetch"} \cup Calls, at : Trie \cup {NoTrie}, rest : SUBSET Trie]
  BY DEF Idle
<1>2. ASSUME NEW t \in Trie, NEW keys \in Batch, prefetch(t, keys) PROVE TypeOK'
  <2>1. keys \in Seq(Task) /\ tasks[t] \o keys \in Seq(Task)
    OBVIOUS
  <2>2. Range(keys) \subseteq Task
    BY <2>1 DEF Range
  <2>3. tasks' \in [Trie -> Seq(Task)]
    BY <1>2, <2>1, <2>2 DEF prefetch
  <2>4. pc' \in [Trie -> Locations]
    BY <1>2 DEF prefetch, Locations
  <2> QED BY <1>2, <2>3, <2>4 DEF prefetch
<1>3. CASE notify
  BY <1>1, <1>3 DEF notify
<1>4. ASSUME NEW t \in Trie, trie(t) PROVE TypeOK'
  BY <1>4 DEF trie
<1>5. CASE trieReturns
  BY <1>1, <1>5 DEF trieReturns
<1>6. \A op \in Calls, t \in Trie, rest \in SUBSET Trie :
         Visiting(op, t, rest) \in [op : {"none", "prefetch"} \cup Calls,
                                    at : Trie \cup {NoTrie}, rest : SUBSET Trie]
  BY DEF Visiting
<1>7. Fetchers \in SUBSET Trie
  BY DEF Fetchers
<1>8. CASE copy
  <2>1. PICK t \in Fetchers : caller' = Visiting("copy", t, Fetchers)
    BY <1>8 DEF copy
  <2>2. "copy" \in Calls /\ t \in Trie
    BY <1>7, <1>8 DEF copy
  <2> QED BY <1>6, <1>7, <1>8, <2>1, <2>2 DEF copy
<1>9. caller.op = "copy" /\ Copied =>
         caller' \in [op : {"none", "prefetch"} \cup Calls,
                      at : Trie \cup {NoTrie}, rest : SUBSET Trie]
  BY <1>1, <1>6 DEF Copied
<1>10. CASE peekTerminated
  BY <1>9, <1>10 DEF peekTerminated
<1>11. CASE close
  <2>1. PICK t \in Fetchers : caller' = Visiting("close", t, Fetchers)
                              /\ stop' = [stop EXCEPT ![t] = TRUE]
    BY <1>11 DEF close
  <2>2. "close" \in Calls /\ t \in Trie
    BY <1>7, <1>11 DEF close
  <2> QED BY <1>6, <1>7, <1>11, <2>1, <2>2 DEF close
<1>12. CASE closeNext
  <2>1. PICK t \in caller.rest : caller' = Visiting("close", t, caller.rest)
                                 /\ stop' = [stop EXCEPT ![t] = TRUE]
    BY <1>12 DEF closeNext
  <2>2. "close" \in Calls /\ t \in Trie /\ caller.rest \in SUBSET Trie
    BY <1>12 DEF closeNext
  <2> QED BY <1>6, <1>12, <2>1, <2>2 DEF closeNext
<1>13. CASE closeReturns
  BY <1>1, <1>13 DEF closeReturns, Locations
<1>14. ASSUME NEW t \in Trie, loop(t) PROVE TypeOK'
  <2>1. CASE openTrie(t)
    <3>1. pc' \in [Trie -> Locations]
      BY <2>1 DEF openTrie, Locations
    <3> QED BY <2>1, <3>1 DEF openTrie
  <2>2. CASE receiveWake(t)
    BY <2>2 DEF receiveWake, Locations
  <2>3. CASE takeTasks(t)
    BY <2>3 DEF takeTasks, Locations
  <2>0. CASE proceed(t)
    BY <2>0 DEF proceed, Locations
  <2>4. CASE load(t)
    <3>1. pc[t] = "loading" /\ batch[t] # <<>>
      BY <2>4 DEF load, BatchTaken
    <3>2. Head(batch[t]) \in Task /\ Tail(batch[t]) \in Seq(Task)
      BY <3>1
    <3>3. seen' \in [Trie -> SUBSET Task]
      BY <2>4, <3>2 DEF load
    <3>4. batch' \in [Trie -> Seq(Task)]
      BY <2>4, <3>2 DEF load
    <3>5. pc' \in [Trie -> Locations]
      BY <2>4 DEF load, Locations
    <3> QED BY <2>4, <3>3, <3>4, <3>5 DEF load
  <2>5. CASE copyWhileWorking(t)
    BY <1>9, <2>5 DEF copyWhileWorking, CopyWanted
  <2>6. CASE stopWhileWorking(t)
    BY <2>6 DEF stopWhileWorking, Locations
  <2>7. CASE batchDone(t)
    BY <2>7 DEF batchDone, Locations
  <2>8. CASE copyWhileWaiting(t)
    BY <1>9, <2>8 DEF copyWhileWaiting, CopyWanted
  <2>9. CASE stopWhileWaiting(t)
    BY <2>9 DEF stopWhileWaiting, Locations
  <2> QED BY <1>14, <2>0, <2>1, <2>2, <2>3, <2>4, <2>5, <2>6, <2>7, <2>8, <2>9 DEF loop
<1>15. CASE UNCHANGED prefetcherVars
  BY <1>15 DEF prefetcherVars
<1> QED BY <1>2, <1>3, <1>4, <1>5, <1>8, <1>10, <1>11, <1>12, <1>13, <1>14, <1>15
        DEF Next, Begin, Continue

\* No step takes a batch before the last one is finished.
LEMMA BatchStep ==
    ASSUME TypeOK, BatchTaken, [Next]_prefetcherVars
    PROVE  BatchTaken'
<1> USE PrefetcherAssumption DEF TypeOK, BatchTaken
<1>1. ASSUME NEW t \in Trie, NEW keys \in Batch, prefetch(t, keys) PROVE BatchTaken'
  BY <1>1 DEF prefetch
<1>2. ASSUME NEW t \in Trie, trie(t) PROVE BatchTaken'
  BY <1>2 DEF trie
<1>3. CASE copy \/ close
  BY <1>3 DEF copy, close
<1>4. CASE Continue
  BY <1>4 DEF Continue, notify, trieReturns, peekTerminated, closeNext, closeReturns
<1>5. ASSUME NEW t \in Trie, loop(t) PROVE BatchTaken'
  <2>1. CASE openTrie(t) \/ receiveWake(t) \/ takeTasks(t) \/ proceed(t)
    BY <2>1 DEF openTrie, receiveWake, takeTasks, proceed
  <2>2. CASE load(t)
    BY <2>2 DEF load
  <2>3. CASE copyWhileWorking(t)
    BY <2>3 DEF copyWhileWorking
  <2>4. CASE stopWhileWorking(t)
    BY <2>4 DEF stopWhileWorking
  <2>5. CASE batchDone(t) \/ copyWhileWaiting(t) \/ stopWhileWaiting(t)
    BY <2>5 DEF batchDone, copyWhileWaiting, stopWhileWaiting
  <2> QED BY <1>5, <2>1, <2>2, <2>3, <2>4, <2>5 DEF loop
<1>6. CASE UNCHANGED prefetcherVars
  BY <1>6 DEF prefetcherVars
<1> QED BY <1>1, <1>2, <1>3, <1>4, <1>5, <1>6 DEF Next, Begin

\* The prefetcher starts with the right types.
LEMMA TypeInit == Init => TypeOK /\ BatchTaken
BY PrefetcherAssumption DEF Init, TypeOK, BatchTaken, Idle, Locations

\* The state of the prefetcher and of every subfetcher keeps its type, and no
\* loop is about to load from an empty batch.
THEOREM TypeCorrect == Spec => []TypeOK /\ []BatchTaken
<1>1. TypeOK /\ BatchTaken /\ [Next]_prefetcherVars => TypeOK' /\ BatchTaken'
  BY TypeStep, BatchStep
<1> QED BY TypeInit, <1>1, PTL DEF Spec

-----------------------------------------------------------------------------
(* No wake-up is lost.                                                     *)

\* The end of schedule sets the flag before the caller moves on, and the loop
\* empties the queue after it has cleared the flag.
LEMMA WakeupStep ==
    ASSUME TypeOK, NoLostWakeup, [Next]_prefetcherVars
    PROVE  NoLostWakeup'
<1> USE PrefetcherAssumption DEF TypeOK, NoLostWakeup
<1>1. ASSUME NEW t \in Trie, NEW keys \in Batch, prefetch(t, keys) PROVE NoLostWakeup'
  BY <1>1 DEF prefetch, Idle
<1>2. ASSUME NEW t \in Trie, trie(t) PROVE NoLostWakeup'
  BY <1>2 DEF trie, Idle
<1>3. CASE copy \/ close
  BY <1>3 DEF copy, close, Idle
<1>4. CASE notify
  BY <1>4 DEF notify
<1>5. CASE trieReturns \/ peekTerminated \/ closeNext
  BY <1>5 DEF trieReturns, peekTerminated, closeNext
<1>6. CASE closeReturns
  BY <1>6 DEF closeReturns
<1>7. ASSUME NEW t \in Trie, loop(t) PROVE NoLostWakeup'
  <2>1. CASE openTrie(t)
    BY <2>1 DEF openTrie
  <2>2. CASE receiveWake(t)
    BY <2>2 DEF receiveWake
  <2>3. CASE takeTasks(t)
    BY <2>3 DEF takeTasks
  <2>4. CASE proceed(t) \/ load(t)
    BY <2>4 DEF proceed, load
  <2>5. CASE copyWhileWorking(t) \/ copyWhileWaiting(t)
    BY <2>5 DEF copyWhileWorking, copyWhileWaiting, CopyWanted
  <2>6. CASE stopWhileWorking(t)
    BY <2>6 DEF stopWhileWorking
  <2>7. CASE batchDone(t) \/ stopWhileWaiting(t)
    BY <2>7 DEF batchDone, stopWhileWaiting
  <2> QED BY <1>7, <2>1, <2>2, <2>3, <2>4, <2>5, <2>6, <2>7 DEF loop
<1>8. CASE UNCHANGED prefetcherVars
  BY <1>8 DEF prefetcherVars
<1> QED BY <1>1, <1>2, <1>3, <1>4, <1>5, <1>6, <1>7, <1>8 DEF Next, Begin, Continue

\* A task that is queued while the loop is not about to empty the queue has a
\* wake-up on its way, in every interleaving of schedule with the loop; and the
\* state keeps its types.
THEOREM WakeupNeverLost == Spec => []PrefetcherInv
<1>1. Init => NoLostWakeup
  BY DEF Init, NoLostWakeup
<1>2. TypeOK /\ NoLostWakeup /\ [Next]_prefetcherVars => NoLostWakeup'
  BY WakeupStep
<1>3. TypeOK /\ NoLostWakeup => PrefetcherInv
  BY DEF PrefetcherInv
<1> QED BY TypeCorrect, <1>1, <1>2, <1>3, PTL DEF Spec

-----------------------------------------------------------------------------
(* A trie that has been handed out is at rest.                             *)

\* A subfetcher whose stop channel is closed has terminated, or the call that
\* closed it is still waiting for that.
StoppedOrWaiting ==
    \A t \in Trie :
        stop[t] => \/ pc[t] = "terminated"
                   \/ caller.op \in {"trie", "close"} /\ caller.at = t

\* Calls that close stop wait for the loop's end; nothing restarts a loop.
LEMMA StoppedStep ==
    ASSUME TypeOK, StoppedOrWaiting, [Next]_prefetcherVars
    PROVE  StoppedOrWaiting'
<1> USE PrefetcherAssumption DEF TypeOK, StoppedOrWaiting
<1>1. ASSUME NEW t \in Trie, NEW keys \in Batch, prefetch(t, keys) PROVE StoppedOrWaiting'
  BY <1>1 DEF prefetch, Idle
<1>2. ASSUME NEW t \in Trie, trie(t) PROVE StoppedOrWaiting'
  BY <1>2 DEF trie, Idle
<1>3. CASE copy
  BY <1>3 DEF copy, Idle
<1>4. CASE close
  BY <1>4 DEF close, Visiting, Fetchers, Idle
<1>5. CASE notify \/ trieReturns \/ peekTerminated
  BY <1>5 DEF notify, trieReturns, peekTerminated
<1>6. CASE closeNext
  BY <1>6 DEF closeNext, Visiting
<1>7. CASE closeReturns
  BY <1>7 DEF closeReturns
<1>8. ASSUME NEW t \in Trie, loop(t) PROVE StoppedOrWaiting'
  <2>1. CASE openTrie(t) \/ receiveWake(t) \/ takeTasks(t)
    BY <2>1 DEF openTrie, receiveWake, takeTasks
  <2>2. CASE proceed(t) \/ load(t) \/ batchDone(t)
    BY <2>2 DEF proceed, load, batchDone
  <2>3. CASE copyWhileWorking(t) \/ copyWhileWaiting(t)
    BY <2>3 DEF copyWhileWorking, copyWhileWaiting, CopyWanted
  <2>4. CASE stopWhileWorking(t) \/ stopWhileWaiting(t)
    BY <2>4 DEF stopWhileWorking, stopWhileWaiting
  <2> QED BY <1>8, <2>1, <2>2, <2>3, <2>4 DEF loop
<1>9. CASE UNCHANGED prefetcherVars
  BY <1>9 DEF prefetcherVars
<1> QED BY <1>1, <1>2, <1>3, <1>4, <1>5, <1>6, <1>7, <1>8, <1>9 DEF Next, Begin, Continue

\* Only load touches a trie, and only the end of close forgets one.
LEMMA AtRest ==
    ASSUME TypeOK, StoppedOrWaiting, [Next]_prefetcherVars,
           NEW t \in Trie, stop[t], caller = Idle
    PROVE  seen'[t] = seen[t]
<1>1. pc[t] = "terminated" /\ caller.op = "none"
  BY DEF StoppedOrWaiting, Idle
<1>2. CASE Begin
  BY <1>2 DEF Begin, trie, prefetch, copy, close
<1>3. CASE Continue
  BY <1>1, <1>3 DEF Continue, notify, trieReturns, peekTerminated, closeNext, closeReturns
<1>4. ASSUME NEW u \in Trie, loop(u) PROVE seen'[t] = seen[t]
  <2>1. CASE load(u)
    BY <1>1, <2>1 DEF load, TypeOK
  <2> QED BY <1>4, <2>1
        DEF loop, openTrie, receiveWake, takeTasks, proceed, copyWhileWorking,
            stopWhileWorking, batchDone, copyWhileWaiting, stopWhileWaiting
<1>5. CASE UNCHANGED prefetcherVars
  BY <1>5 DEF prefetcherVars
<1> QED BY <1>2, <1>3, <1>4, <1>5 DEF Next

\* Once trie() has returned, the subfetcher never again touches the trie it
\* handed out, whatever is scheduled for it afterwards.
THEOREM HandedOutAtRest == Spec => NoLoadAfterAbort
<1>1. Init => StoppedOrWaiting
  BY DEF Init, StoppedOrWaiting
<1>2. TypeOK /\ StoppedOrWaiting /\ [Next]_prefetcherVars => StoppedOrWaiting'
  BY StoppedStep
<1>3. TypeOK /\ StoppedOrWaiting /\ [Next]_prefetcherVars =>
        [\A t \in Trie : stop[t] /\ caller = Idle => seen'[t] = seen[t]]_prefetcherVars
  BY AtRest
<1> QED BY TypeCorrect, <1>1, <1>2, <1>3, PTL DEF Spec, NoLoadAfterAbort

-----------------------------------------------------------------------------
(* Tasks are kept.                                                         *)

\* The elements of a nonempty sequence are its head and those of its tail.
LEMMA RangeHeadTail ==
    ASSUME NEW s \in Seq(Task), s # <<>>
    PROVE  Range(s) = {Head(s)} \cup Range(Tail(s))
<1>1. DOMAIN s = 1 .. Len(s) /\ DOMAIN Tail(s) = 1 .. (Len(s) - 1) /\ Len(s) > 0
  OBVIOUS
<1>2. \A i \in 1 .. (Len(s) - 1) : Tail(s)[i] = s[i + 1]
  OBVIOUS
<1>3. Head(s) = s[1]
  OBVIOUS
<1>4. \A i \in 1 .. Len(s) : i = 1 \/ (i - 1 \in 1 .. (Len(s) - 1) /\ s[i] = Tail(s)[i - 1])
  BY <1>2
<1>5. Range(s) \subseteq {Head(s)} \cup Range(Tail(s))
  BY <1>1, <1>3, <1>4 DEF Range
<1>6. {Head(s)} \cup Range(Tail(s)) \subseteq Range(s)
  BY <1>1, <1>2, <1>3 DEF Range
<1> QED BY <1>5, <1>6

\* The empty sequence has no elements.
LEMMA RangeEmpty == Range(<<>>) = {}
BY DEF Range

\* A step moves every task it removes from the queue or the batch to the other,
\* or loads it, unless it serves a copy or ends the prefetcher.
LEMMA TasksStep ==
    ASSUME TypeOK, BatchTaken, [Next]_prefetcherVars,
           NEW t \in Trie, pc'[t] # "none", ~CopyWanted(t)
    PROVE  Held(t) \subseteq Held(t)'
<1> USE PrefetcherAssumption DEF TypeOK, Held
<1>1. ASSUME NEW u \in Trie, NEW keys \in Batch, prefetch(u, keys)
      PROVE  Held(t) \subseteq Held(t)'
  <2>1. Range(tasks[u] \o keys) = Range(tasks[u]) \cup Range(keys)
    BY RangeConcatenation
  <2> QED BY <1>1, <2>1 DEF prefetch
<1>2. ASSUME NEW u \in Trie, trie(u) PROVE Held(t) \subseteq Held(t)'
  BY <1>2 DEF trie
<1>3. CASE copy \/ close
  BY <1>3 DEF copy, close
<1>4. CASE notify \/ trieReturns \/ peekTerminated \/ closeNext
  BY <1>4 DEF notify, trieReturns, peekTerminated, closeNext
<1>5. CASE closeReturns
  BY <1>5 DEF closeReturns
<1>6. ASSUME NEW u \in Trie, loop(u) PROVE Held(t) \subseteq Held(t)'
  <2>1. CASE openTrie(u) \/ receiveWake(u) \/ proceed(u) \/ batchDone(u) \/ stopWhileWaiting(u)
    BY <2>1 DEF openTrie, receiveWake, proceed, batchDone, stopWhileWaiting
  <2>2. CASE takeTasks(u)
    <3>1. batch[u] = <<>>
      BY <2>2 DEF takeTasks, BatchTaken
    <3> QED BY <2>2, <3>1, RangeEmpty DEF takeTasks
  <2>3. CASE load(u)
    <3>1. Range(batch[u]) = {Head(batch[u])} \cup Range(Tail(batch[u]))
      BY <2>3, RangeHeadTail DEF load, BatchTaken
    <3> QED BY <2>3, <3>1 DEF load
  <2>4. CASE copyWhileWorking(u) \/ copyWhileWaiting(u)
    <3>1. u # t
      BY <2>4 DEF copyWhileWorking, copyWhileWaiting, CopyWanted
    <3> QED BY <2>4, <3>1 DEF copyWhileWorking, copyWhileWaiting
  <2>5. CASE stopWhileWorking(u)
    <3>1. Range(tasks[u] \o batch[u]) = Range(tasks[u]) \cup Range(batch[u])
      BY RangeConcatenation
    <3> QED BY <2>5, <3>1 DEF stopWhileWorking
  <2> QED BY <1>6, <2>1, <2>2, <2>3, <2>4, <2>5 DEF loop
<1>7. CASE UNCHANGED prefetcherVars
  BY <1>7 DEF prefetcherVars
<1> QED BY <1>1, <1>2, <1>3, <1>4, <1>5, <1>6, <1>7 DEF Next, Begin, Continue

\* In every interleaving of the caller with the loops, also when a loop is
\* stopped in the middle of a batch, a key is only ever forgotten by the step
\* that serves a copy.
THEOREM NothingForgotten == Spec => TasksKept
<1>1. TypeOK /\ BatchTaken /\ [Next]_prefetcherVars =>
        [\A t \in Trie : pc'[t] # "none" /\ ~CopyWanted(t) =>
            Held(t) \subseteq Held(t)']_prefetcherVars
  BY TasksStep
<1> QED BY TypeCorrect, <1>1, PTL DEF Spec, TasksKept
=============================================================================
