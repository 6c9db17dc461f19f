------------------------------- MODULE WorkQueue -------------------------------
(***************************************************************************)
(* core/safe_queue.h and its two users: the ThreadPool on which the        *)
(* callbacks of the user run, and the HttpLoader with its one thread.      *)
(*                                                                         *)
(* A job may block, when a callback calls a function of a plugin that      *)
(* waits for the result of a command: the result is itself a job, which is *)
(* submitted later.                                                        *)
(***************************************************************************)
EXTENDS Integers, Sequences, FiniteSets

CONSTANTS
    PoolWorkers,   \* the threads of the pool
    MaxJobs        \* bound: jobs submitted, besides the results of commands

ASSUME WorkQueueAssumption == PoolWorkers # {} /\ IsFiniteSet(PoolWorkers) /\ MaxJobs \in Nat

VARIABLES
    loader,     \* the queue is the one of an HttpLoader, not of a ThreadPool
    jobs,       \* _work_queue: numbers of jobs
    submitted,  \* the jobs so far, by kind
    ran,        \* the jobs that have returned
    at,         \* per worker: where it is in worker(), or the job it runs
    notified,   \* the sleepers that were woken
    exiting,    \* SafeQueue::_should_exit
    mustStop,   \* _should_stop, _should_exit of the loader
    stopping    \* where stop() is

queueVars == <<loader, jobs, submitted, ran, at, notified, exiting, mustStop, stopping>>

Job == Nat \ {0}
Kinds == {"plain", "waits", "result"}
Threads == IF loader THEN {CHOOSE w \in PoolWorkers : TRUE} ELSE PoolWorkers

\* where a thread is when it runs no job
Loop == 0       \* about to look at the flag
Take == -1      \* about to look at the queue
Asleep == -2
Left == -3

QueueInit ==
    /\ loader \in BOOLEAN
    /\ jobs = <<>> /\ submitted = <<>> /\ ran = {}
    /\ at = [w \in Threads |-> Loop]
    /\ notified = {} /\ exiting = FALSE /\ mustStop = FALSE /\ stopping = "no"

Sleepers == {w \in Threads : at[w] = Asleep}
Running == {w \in Threads : at[w] \in Job}

\* The result a job waits for is the one of its number among the results.
Results == {j \in DOMAIN submitted : submitted[j] = "result"}
Waiting == {j \in DOMAIN submitted : submitted[j] = "waits"}
Rank(j, set) == Cardinality({k \in set : k <= j})
ResultOf(j) == {r \in Results : Rank(r, Results) = Rank(j, Waiting)}

\* Faulty variant: only the first job of an empty queue is notified.
EnqueueFirstOnly(kind) ==
    /\ submitted' = Append(submitted, kind)
    /\ jobs' = Append(jobs, Len(submitted'))
    /\ IF jobs # <<>> \/ Sleepers \subseteq notified
       THEN UNCHANGED notified
       ELSE \E w \in Sleepers \ notified : notified' = notified \cup {w}
    /\ UNCHANGED <<loader, ran, at, exiting, mustStop, stopping>>

\* SafeQueue::enqueue: notify_one wakes a thread that waits, if there is one
Enqueue(kind) ==
    /\ submitted' = Append(submitted, kind)
    /\ jobs' = Append(jobs, Len(submitted'))
    /\ IF Sleepers \subseteq notified
       THEN UNCHANGED notified
       ELSE \E w \in Sleepers \ notified : notified' = notified \cup {w}
    /\ UNCHANGED <<loader, ran, at, exiting, mustStop, stopping>>

Submit ==
    /\ Len(submitted) - Cardinality(Results) < MaxJobs
    /\ Enqueue("plain") \/ (~loader /\ Enqueue("waits"))

\* The command sender hands over the result of a command that was sent by a job.
SubmitResult ==
    /\ \E w \in Running : /\ submitted[at[w]] = "waits"
                          /\ ResultOf(at[w]) = {}
    /\ Enqueue("result")

\* while (!_should_stop)
WorkerLoop(w) ==
    /\ at[w] = Loop
    /\ at' = [at EXCEPT ![w] = IF mustStop THEN Left ELSE Take]
    /\ UNCHANGED <<loader, jobs, submitted, ran, notified, exiting, mustStop, stopping>>

\* SafeQueue::dequeue under its mutex, up to the wait or the return
Dequeue(w) ==
    /\ at[w] = Take
    /\ IF jobs # <<>>
       THEN at' = [at EXCEPT ![w] = Head(jobs)] /\ jobs' = Tail(jobs)
       ELSE at' = [at EXCEPT ![w] = IF exiting THEN Loop ELSE Asleep] /\ UNCHANGED jobs
    /\ UNCHANGED <<loader, submitted, ran, notified, exiting, mustStop, stopping>>

\* the wait returns, also when nobody has notified it
Wake(w) ==
    /\ at[w] = Asleep
    /\ at' = [at EXCEPT ![w] = Take]
    /\ notified' = notified \ {w}
    /\ UNCHANGED <<loader, jobs, submitted, ran, exiting, mustStop, stopping>>

\* the job returns; one that waits does so when its result has come
Finish(w) ==
    /\ w \in Running
    /\ submitted[at[w]] = "waits" => \E r \in ResultOf(at[w]) : r \in ran
    /\ ran' = ran \cup {at[w]}
    /\ at' = [at EXCEPT ![w] = Loop]
    /\ UNCHANGED <<loader, jobs, submitted, notified, exiting, mustStop, stopping>>

\* stop(): the pool stops the queue and then its threads, the loader the other way
\* round.  (stop() of the queue notifies all.)
StopQueue ==
    /\ exiting' = TRUE
    /\ notified' = notified \cup Sleepers
    /\ UNCHANGED <<loader, jobs, submitted, ran, at, mustStop>>

StopThreads ==
    /\ mustStop' = TRUE
    /\ UNCHANGED <<loader, jobs, submitted, ran, at, notified, exiting>>

Stop ==
    /\ stopping = "no" /\ stopping' = "half"
    /\ IF loader THEN StopThreads ELSE StopQueue

StopOther ==
    /\ stopping = "half" /\ stopping' = "joining"
    /\ IF loader THEN StopQueue ELSE StopThreads

Joined ==
    /\ stopping = "joining"
    /\ \A w \in Threads : at[w] = Left
    /\ stopping' = "stopped"
    /\ UNCHANGED <<loader, jobs, submitted, ran, at, notified, exiting, mustStop>>

Work(w) == WorkerLoop(w) \/ Dequeue(w) \/ Finish(w) \/ (w \in notified /\ Wake(w))

QueueNext ==
    \/ Submit \/ SubmitResult
    \/ \E w \in Threads : WorkerLoop(w) \/ Dequeue(w) \/ Wake(w) \/ Finish(w)
    \/ Stop \/ StopOther \/ Joined

-----------------------------------------------------------------------------
(* Properties                                                              *)

QueueTypeOK ==
    /\ {loader, exiting, mustStop} \subseteq BOOLEAN
    /\ jobs \in Seq(Job) /\ submitted \in Seq(Kinds) /\ ran \subseteq Job
    /\ at \in [Threads -> Job \cup {Loop, Take, Asleep, Left}]
    /\ notified \subseteq Sleepers
    /\ stopping \in {"no", "half", "joining", "stopped"}

\* No wake-up is lost: a callback that is handed over is called, unless the pool is
\* stopped before or every thread of it sits in a callback that waits for another.
\* And stop() gets its threads back, unless one of them waits for a callback that those
\* which are gone would have had to call.
AllWait == \A w \in Threads : at[w] \in Waiting
PoolServes ==
    /\ DOMAIN submitted \subseteq ran \/ exiting \/ mustStop \/ AllWait
    /\ stopping = "no" \/ stopping = "stopped" \/ \E w \in Threads : at[w] \in Waiting

\* A job that was submitted waits, runs or has returned, and only one of these; jobs are
\* begun in the order in which they were submitted.
JobsInOrder ==
    /\ \A i \in DOMAIN jobs : jobs[i] = Len(submitted) - Len(jobs) + i
    /\ 1..Len(submitted) - Len(jobs) = ran \cup {at[w] : w \in Running}
    /\ \A w \in Running : at[w] \notin ran /\ \A v \in Running : at[v] = at[w] => v = w

\* What the loader promises those who ask for a file: with its one thread the files
\* are fetched one after the other, in the order in which they were asked for, and each
\* once.  The answer to a job is its number.
Downloads ==
    INSTANCE CommandService WITH
        MaxWork <- MaxJobs, Outcome <- 1..MaxJobs,
        queued  <- IF loader THEN Len(submitted) ELSE 0,
        results <- IF loader THEN [j \in ran |-> j] ELSE <<>>
DownloadsInOrder == Downloads!Spec

\* While a thread sleeps that nobody has woken, there are as many threads on their way
\* to the queue as jobs in it: that notify_one is called for each job, and that a thread
\* looks at the queue again before it waits, is enough (safe_queue.h:21,28), also when
\* threads wake up by themselves.
OnTheirWay == {w \in Threads : at[w] \in {Loop, Take} \/ w \in notified}
NoLostWakeUp ==
    ~mustStop /\ ~(Sleepers \subseteq notified) => Len(jobs) <= Cardinality(OnTheirWay)

\* The threads of a queue share its jobs (safe_queue.h, thread_pool.cpp:43): no job is
\* lost, run twice or passed over, and none waits for a thread that sleeps.
WorkIsShared == JobsInOrder /\ NoLostWakeUp
===============================================================================
