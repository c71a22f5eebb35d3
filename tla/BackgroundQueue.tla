--------------------------- MODULE BackgroundQueue ---------------------------
(* PosixEnv::Schedule and BGThread (util/env_posix.cc): the queue of calls and *)
(* the one thread that makes them, for every database of the process.  mu_ is  *)
(* held from a step's first access of the queue to its last.                   *)
EXTENDS Integers, Sequences

CONSTANT MaxItems    \* calls of Schedule in a behaviour

ASSUME QueueAssumption == MaxItems \in Nat

VARIABLES
    scheduled,       \* calls of Schedule so far, which number the items
    queue_,
    bgthread,        \* where the background thread is
    signalled,       \* a signal has reached the waiting thread
    ran              \* the items whose function has returned, in order

queueVars == <<scheduled, queue_, bgthread, signalled, ran>>

QueueInit ==
    /\ scheduled = 0
    /\ queue_ = <<>>
    /\ bgthread = [at |-> "none"]
    /\ signalled = FALSE
    /\ ran = <<>>

\* Tests for an empty queue after the item is in it.
ScheduleTestsLate ==
    /\ scheduled < MaxItems
    /\ scheduled' = scheduled + 1
    /\ bgthread' = IF bgthread.at = "none" THEN [at |-> "looping"] ELSE bgthread
    /\ queue_' = Append(queue_, scheduled + 1)
    /\ signalled' = (signalled \/ (queue_' = <<>> /\ bgthread.at = "waiting"))
    /\ UNCHANGED ran

\* Starts the thread with the first item, and signals it if the queue was empty;
\* a signal to a thread that does not wait is lost.
Schedule ==
    /\ scheduled < MaxItems
    /\ scheduled' = scheduled + 1
    /\ bgthread' = IF bgthread.at = "none" THEN [at |-> "looping"] ELSE bgthread
    /\ signalled' = (signalled \/ (queue_ = <<>> /\ bgthread.at = "waiting"))
    /\ queue_' = Append(queue_, scheduled + 1)
    /\ UNCHANGED ran

\* Takes the front item, or waits.
BGThread ==
    /\ bgthread.at = "looping"
    /\ bgthread' = IF queue_ = <<>> THEN [at |-> "waiting"]
                   ELSE [at |-> "running", item |-> Head(queue_)]
    /\ queue_' = IF queue_ = <<>> THEN queue_ ELSE Tail(queue_)
    /\ UNCHANGED <<scheduled, signalled, ran>>

Wakes ==
    /\ bgthread.at = "waiting" /\ signalled
    /\ signalled' = FALSE
    /\ bgthread' = [at |-> "looping"]
    /\ UNCHANGED <<scheduled, queue_, ran>>

\* pthread_cond_wait may also return without a signal.
WakesSpuriously ==
    /\ bgthread.at = "waiting" /\ ~signalled
    /\ bgthread' = [at |-> "looping"]
    /\ UNCHANGED <<scheduled, queue_, signalled, ran>>

FunctionReturns ==
    /\ bgthread.at = "running"
    /\ ran' = Append(ran, bgthread.item)
    /\ bgthread' = [at |-> "looping"]
    /\ UNCHANGED <<scheduled, queue_, signalled>>

QueueNext == Schedule \/ BGThread \/ Wakes \/ WakesSpuriously \/ FunctionReturns

\* The operating system runs the background thread, and what it runs returns
\* (BackgroundCall does; the write path's own runs are about that).
QueueFairness == WF_queueVars(BGThread \/ Wakes \/ FunctionReturns)

QueueSpec == QueueInit /\ [][QueueNext]_queueVars /\ QueueFairness

------------------------------------------------------------------------------
(* Properties                                                                 *)

Running == IF bgthread.at = "running" THEN <<bgthread.item>> ELSE <<>>

\* Every item is run once, one at a time and in the order of the calls: what
\* has run, what runs and what waits are together the items scheduled so far.
RunsInOrder == ran \o Running \o queue_ = [i \in 1 .. scheduled |-> i]

\* Every scheduled item is run, although Schedule signals only when it finds
\* the queue empty and its signal is lost unless the thread waits just then.
EveryItemRuns == \A i \in 1 .. MaxItems : (scheduled >= i) ~> (Len(ran) >= i)

==============================================================================
