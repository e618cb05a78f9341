--------------------------- MODULE TriePrefetcher ---------------------------
(***************************************************************************)
(* The trie prefetcher of trie_by_cid/state/trie_prefetcher.go: one        *)
(* goroutine (a subfetcher) for each trie that is warmed up, and the one   *)
(* goroutine that calls the prefetcher, whose API is not thread safe.      *)
(*                                                                         *)
(* They share a task queue under a lock and four channels.  wake has a     *)
(* buffer of one, so it is a flag; stop and term are only ever closed; the *)
(* unbuffered copy channel is a rendezvous of a caller in peek with the    *)
(* loop.  Loading a trie node changes nothing but seen.  Metrics (dups,    *)
(* used) are left out.                                                     *)
(***************************************************************************)
EXTENDS Integers, Sequences, Functions

CONSTANTS
    Trie,      \* the tries, by owner and root
    Task,      \* keys to load
    Batch,     \* argument lists of prefetch
    MaxTasks,  \* bound: the length of a task queue
    Calls,     \* the methods that are called: "trie", "copy" and "close"
    NoTrie     \* no trie

ASSUME PrefetcherAssumption ==
    /\ Batch \subseteq Seq(Task)
    /\ MaxTasks \in Nat
    /\ Calls \subseteq {"trie", "copy", "close"}
    /\ NoTrie \notin Trie

VARIABLES
    pc,         \* where each subfetcher's loop is; "none" if there is no subfetcher
    tasks,      \* sf.tasks
    batch,      \* the tasks the loop has taken and not yet visited
    wake,       \* sf.wake holds a token
    stop,       \* sf.stop is closed
    seen,       \* sf.seen
    caller      \* the call in progress: its method, trie, and tries still to visit

prefetcherVars == <<pc, tasks, batch, wake, stop, seen, caller>>

Locations == {"none", "opening", "select", "woken", "working", "loading", "terminated"}

Idle == [op |-> "none", at |-> NoTrie, rest |-> {}]

TypeOK ==
    /\ pc \in [Trie -> Locations]
    /\ tasks \in [Trie -> Seq(Task)]
    /\ batch \in [Trie -> Seq(Task)]
    /\ wake \in [Trie -> BOOLEAN]
    /\ stop \in [Trie -> BOOLEAN]
    /\ seen \in [Trie -> SUBSET Task]
    /\ caller \in [op   : {"none", "prefetch"} \cup Calls,
                   at   : Trie \cup {NoTrie},
                   rest : SUBSET Trie]

\* newTriePrefetcher
Init ==
    /\ pc = [t \in Trie |-> "none"]
    /\ tasks = [t \in Trie |-> <<>>]
    /\ batch = [t \in Trie |-> <<>>]
    /\ wake = [t \in Trie |-> FALSE]
    /\ stop = [t \in Trie |-> FALSE]
    /\ seen = [t \in Trie |-> {}]
    /\ caller = Idle

Fetchers == {t \in Trie : pc[t] # "none"}

-----------------------------------------------------------------------------
(* The caller.                                                             *)

\* prefetch up to the unlock in schedule.  A new subfetcher's loop does not
\* look at the queue before it is woken.
prefetch(t, keys) ==
    /\ caller = Idle
    /\ Len(tasks[t]) + Len(keys) <= MaxTasks
    /\ pc' = IF pc[t] = "none" THEN [pc EXCEPT ![t] = "opening"] ELSE pc
    /\ tasks' = [tasks EXCEPT ![t] = @ \o keys]
    /\ caller' = [op |-> "prefetch", at |-> t, rest |-> {}]
    /\ UNCHANGED <<batch, wake, stop, seen>>

\* Mutant of notify: the wake-up is dropped while the loop is busy.
notifyIfWaiting ==
    /\ caller.op = "prefetch"
    /\ wake' = [wake EXCEPT ![caller.at] = @ \/ pc[caller.at] = "select"]
    /\ caller' = Idle
    /\ UNCHANGED <<pc, tasks, batch, stop, seen>>

\* The end of schedule: a token in a full channel is enough.
notify ==
    /\ caller.op = "prefetch"
    /\ wake' = [wake EXCEPT ![caller.at] = TRUE]
    /\ caller' = Idle
    /\ UNCHANGED <<pc, tasks, batch, stop, seen>>

\* trie, for a trie with a subfetcher: abort closes stop.
trie(t) ==
    /\ "trie" \in Calls
    /\ caller = Idle
    /\ t \in Fetchers
    /\ stop' = [stop EXCEPT ![t] = TRUE]
    /\ caller' = [op |-> "trie", at |-> t, rest |-> {}]
    /\ UNCHANGED <<pc, tasks, batch, wake, seen>>

\* Mutant of trieReturns: abort does not wait for the loop.
trieReturnsAtOnce ==
    /\ caller.op = "trie"
    /\ caller' = Idle
    /\ UNCHANGED <<pc, tasks, batch, wake, stop, seen>>

\* abort has waited for term, so peek finds term closed and copies the trie.
trieReturns ==
    /\ caller.op = "trie"
    /\ pc[caller.at] = "terminated"
    /\ caller' = Idle
    /\ UNCHANGED <<pc, tasks, batch, wake, stop, seen>>

\* copy and close visit the subfetchers in any order.
Visiting(op, t, rest) == [op |-> op, at |-> t, rest |-> rest \ {t}]

copy ==
    /\ "copy" \in Calls
    /\ caller = Idle
    /\ \E t \in Fetchers : caller' = Visiting("copy", t, Fetchers)
    /\ UNCHANGED <<pc, tasks, batch, wake, stop, seen>>

\* The caller has its copy of one trie and goes on to the next.
Copied ==
    IF caller.rest = {} THEN caller' = Idle
    ELSE \E t \in caller.rest : caller' = Visiting("copy", t, caller.rest)

\* peek of a subfetcher that is terminated.
peekTerminated ==
    /\ caller.op = "copy"
    /\ pc[caller.at] = "terminated"
    /\ Copied
    /\ UNCHANGED <<pc, tasks, batch, wake, stop, seen>>

close ==
    /\ "close" \in Calls
    /\ caller = Idle
    /\ \E t \in Fetchers :
          /\ stop' = [stop EXCEPT ![t] = TRUE]
          /\ caller' = Visiting("close", t, Fetchers)
    /\ UNCHANGED <<pc, tasks, batch, wake, seen>>

\* abort returns in close; the next subfetcher is aborted.
closeNext ==
    /\ caller.op = "close"
    /\ pc[caller.at] = "terminated"
    /\ \E t \in caller.rest :
          /\ stop' = [stop EXCEPT ![t] = TRUE]
          /\ caller' = Visiting("close", t, caller.rest)
    /\ UNCHANGED <<pc, tasks, batch, wake, seen>>

\* The end of close.  Its callers drop the prefetcher; what follows is a new
\* one (StartPrefetcher).
closeReturns ==
    /\ caller.op = "close"
    /\ pc[caller.at] = "terminated"
    /\ caller.rest = {}
    /\ pc' = [t \in Trie |-> "none"]
    /\ tasks' = [t \in Trie |-> <<>>]
    /\ batch' = [t \in Trie |-> <<>>]
    /\ wake' = [t \in Trie |-> FALSE]
    /\ stop' = [t \in Trie |-> FALSE]
    /\ seen' = [t \in Trie |-> {}]
    /\ caller' = Idle

\* A call begins, or the one in progress goes on.
Begin ==
    \/ \E t \in Trie : trie(t) \/ \E keys \in Batch : prefetch(t, keys)
    \/ copy
    \/ close

Continue ==
    notify \/ trieReturns \/ peekTerminated \/ closeNext \/ closeReturns

-----------------------------------------------------------------------------
(* The loop of the subfetcher of t.                                        *)

\* The trie is opened; when it cannot be, the loop returns and closes term.
openTrie(t) ==
    /\ pc[t] = "opening"
    /\ pc' \in {[pc EXCEPT ![t] = "select"], [pc EXCEPT ![t] = "terminated"]}
    /\ UNCHANGED <<tasks, batch, wake, stop, seen, caller>>

\* The outer select receives from wake.
receiveWake(t) ==
    /\ pc[t] = "select"
    /\ wake[t]
    /\ wake' = [wake EXCEPT ![t] = FALSE]
    /\ pc' = [pc EXCEPT ![t] = "woken"]
    /\ UNCHANGED <<tasks, batch, stop, seen, caller>>

takeTasks(t) ==
    /\ pc[t] = "woken"
    /\ batch' = [batch EXCEPT ![t] = tasks[t]]
    /\ tasks' = [tasks EXCEPT ![t] = <<>>]
    /\ pc' = [pc EXCEPT ![t] = "working"]
    /\ UNCHANGED <<wake, stop, seen, caller>>

CopyWanted(t) == caller.op = "copy" /\ caller.at = t

\* The default case of the inner select: nobody stops the loop or wants a copy.
\* Either may change before the node is loaded.
proceed(t) ==
    /\ pc[t] = "working"
    /\ batch[t] # <<>>
    /\ ~stop[t]
    /\ ~CopyWanted(t)
    /\ pc' = [pc EXCEPT ![t] = "loading"]
    /\ UNCHANGED <<tasks, batch, wake, stop, seen, caller>>

load(t) ==
    /\ pc[t] = "loading"
    /\ seen' = [seen EXCEPT ![t] = @ \cup {Head(batch[t])}]
    /\ batch' = [batch EXCEPT ![t] = Tail(@)]
    /\ pc' = [pc EXCEPT ![t] = "working"]
    /\ UNCHANGED <<tasks, wake, stop, caller>>

\* The inner select serves a copy; the loop variable moves on to the next task.
copyWhileWorking(t) ==
    /\ pc[t] = "working"
    /\ batch[t] # <<>>
    /\ CopyWanted(t)
    /\ Copied
    /\ batch' = [batch EXCEPT ![t] = Tail(@)]
    /\ UNCHANGED <<pc, tasks, wake, stop, seen>>

\* Mutant of stopWhileWorking: the tasks that are left are not put back.
stopDropsTasks(t) ==
    /\ pc[t] = "working"
    /\ batch[t] # <<>>
    /\ stop[t]
    /\ batch' = [batch EXCEPT ![t] = <<>>]
    /\ pc' = [pc EXCEPT ![t] = "terminated"]
    /\ UNCHANGED <<tasks, wake, stop, seen, caller>>

\* The inner select is stopped: the tasks that are left are put back.
stopWhileWorking(t) ==
    /\ pc[t] = "working"
    /\ batch[t] # <<>>
    /\ stop[t]
    /\ tasks' = [tasks EXCEPT ![t] = @ \o batch[t]]
    /\ batch' = [batch EXCEPT ![t] = <<>>]
    /\ pc' = [pc EXCEPT ![t] = "terminated"]
    /\ UNCHANGED <<wake, stop, seen, caller>>

batchDone(t) ==
    /\ pc[t] = "working"
    /\ batch[t] = <<>>
    /\ pc' = [pc EXCEPT ![t] = "select"]
    /\ UNCHANGED <<tasks, batch, wake, stop, seen, caller>>

copyWhileWaiting(t) ==
    /\ pc[t] = "select"
    /\ CopyWanted(t)
    /\ Copied
    /\ UNCHANGED <<pc, tasks, batch, wake, stop, seen>>

\* Mutant of stopWhileWaiting: it leaves the select, not the loop.
stopBreaks(t) ==
    /\ pc[t] = "select"
    /\ stop[t]
    /\ UNCHANGED prefetcherVars

stopWhileWaiting(t) ==
    /\ pc[t] = "select"
    /\ stop[t]
    /\ pc' = [pc EXCEPT ![t] = "terminated"]
    /\ UNCHANGED <<tasks, batch, wake, stop, seen, caller>>

loop(t) ==
    \/ openTrie(t)
    \/ receiveWake(t)
    \/ takeTasks(t)
    \/ proceed(t)
    \/ load(t)
    \/ copyWhileWorking(t)
    \/ stopWhileWorking(t)
    \/ batchDone(t)
    \/ copyWhileWaiting(t)
    \/ stopWhileWaiting(t)

Next == Begin \/ Continue \/ \E t \in Trie : loop(t)

\* A goroutine that can run eventually does; a caller need not call again.  A
\* select chooses among its ready cases at random, so a token in wake is not
\* passed over forever in favour of callers that want copies.
Fairness ==
    /\ WF_prefetcherVars(Continue)
    /\ \A t \in Trie : WF_prefetcherVars(loop(t)) /\ SF_prefetcherVars(receiveWake(t))

Spec == Init /\ [][Next]_prefetcherVars

FairSpec == Spec /\ Fairness

-----------------------------------------------------------------------------
(***************************************************************************)
(* No wake-up is lost: when the queue is not empty and the loop is past    *)
(* the point where it empties it, a token is in the wake channel or the    *)
(* caller is about to put one there.  The token is received before the     *)
(* queue is locked and sent after it is unlocked.                          *)
(***************************************************************************)
NoLostWakeup ==
    \A t \in Trie :
        pc[t] \in {"opening", "select", "working", "loading"} /\ tasks[t] # <<>> =>
            wake[t] \/ (caller.op = "prefetch" /\ caller.at = t)

(***************************************************************************)
(* The state is well-formed, a subfetcher loads from a batch only while it *)
(* has one, and no wake-up is lost.                                        *)
(***************************************************************************)
PrefetcherInv == TypeOK /\ NoLostWakeup

\* The keys a subfetcher has loaded or is still going to load.
Held(t) == seen[t] \cup Range(tasks[t]) \cup Range(batch[t])

(***************************************************************************)
(* A subfetcher lets go of a key in one case only, which is the step that  *)
(* serves a copy: waking up, loading and above all an abort in the middle  *)
(* of a batch move every key they take away to another place.              *)
(***************************************************************************)
TasksKept ==
    [][\A t \in Trie : pc'[t] # "none" /\ ~CopyWanted(t) => Held(t) \subseteq Held(t)']_prefetcherVars

(***************************************************************************)
(* A trie handed out by trie() is at rest: the goroutine that loaded it    *)
(* touches it no more, whatever is scheduled for it later.  The caller     *)
(* copies the trie without a lock.                                         *)
(***************************************************************************)
NoLoadAfterAbort ==
    [][\A t \in Trie : stop[t] /\ caller = Idle => seen'[t] = seen[t]]_prefetcherVars

(***************************************************************************)
(* Every call returns: abort, peek and close wait for the loop, which is   *)
(* in some select or on its way to one, or has terminated.                 *)
(***************************************************************************)
CallsReturn == caller # Idle ~> caller = Idle

(***************************************************************************)
(* Scheduled tasks are taken by the loop unless it is stopped or its trie  *)
(* cannot be opened.                                                       *)
(***************************************************************************)
TasksTaken ==
    \A t \in Trie : tasks[t] # <<>> ~> tasks[t] = <<>> \/ stop[t] \/ pc[t] = "terminated"

(***************************************************************************)
(* Nobody waits for ever: neither callers for the goroutines nor tasks for *)
(* the loop.                                                               *)
(***************************************************************************)
Progress == CallsReturn /\ TasksTaken
=============================================================================
