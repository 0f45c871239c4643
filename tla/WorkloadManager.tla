-------------------------- MODULE WorkloadManager ---------------------------
(***************************************************************************)
(* WorkloadManager of internal/concurrency: jobs are submitted to a queue  *)
(* for each priority, a dispatcher hands them to the channels of workers,  *)
(* sends back for a retry what it cannot hand over, and a routine adds and *)
(* removes workers.  A worker that was removed goes back to a sync.Pool,   *)
(* with its channel closed, and may be taken from there again.             *)
(***************************************************************************)
EXTENDS Integers, Sequences, FiniteSets, FiniteSetsExt

CONSTANTS Jobs, Priorities,
          WorkerIds,          \* workers that can ever be made
          BufferSize, MaxConcurrency, ScalingAlgorithm, MaxRetries,
          MaxStarts,          \* bounds the calls of Start
          MaxClosedReads      \* bounds the empty jobs read from a closed queue

Nobody == "none"     \* no job, no worker, no queue

(* The code lets a queue be made without room for a job; a submission then waits for
   a dispatcher that receives, which is left out. *)
ASSUME ManagerAssumption ==
    /\ IsFiniteSet(Jobs) /\ Nobody \notin Jobs \cup Priorities
    /\ {BufferSize, MaxConcurrency} \subseteq Nat \ {0}
    /\ {MaxRetries, MaxStarts, MaxClosedReads} \subseteq Nat
    /\ ScalingAlgorithm \in {"linear", "exponential"}

VARIABLES job,          \* where each job is, its priority and retries
          queue, depth, \* the queues, and their sizes in the metrics
          dispatcher,
          workers,      \* wm.workers, in which a worker may stand twice
          worker,       \* goroutine, channel and job of each worker
          concurrency, starts, started,
          stopped,      \* the context has ended and the queues are closed, for good
          adapting,     \* adaptiveConcurrencyRoutine runs
          scaledDown, managerCrashed

queues == <<queue, depth>>
lifecycle == <<concurrency, starts, started, stopped, adapting, scaledDown, managerCrashed>>
managerVars == <<job, queues, dispatcher, workers, worker, lifecycle>>

Ended == {"done", "failed", "rejected", "lost"}
Unstarted == [run |-> "unused", chan |-> <<>>, closed |-> FALSE, job |-> Nobody]
Selecting == [pc |-> "select", job |-> Nobody, worker |-> Nobody, queue |-> Nobody]

ManagerTypeOK ==
    /\ \A j \in Jobs :
           /\ job[j].at \in {"new", "submitting", "queued", "inHand", "channel", "running",
                             "backoff"} \cup Ended
           /\ job[j].priority \in Priorities
           /\ job[j].retries \in 0 .. MaxRetries + 1
    /\ \A p \in Priorities : queue[p] \in Seq(Jobs) /\ Len(queue[p]) <= BufferSize
    /\ depth \in [Priorities -> Int]
    /\ dispatcher.pc \in {"none", "select", "choose", "send", "count"}
    /\ workers \in Seq(WorkerIds)
    /\ \A w \in WorkerIds : /\ worker[w].run \in {"unused", "idle", "busy", "pooled"}
                            /\ Len(worker[w].chan) <= 1
    /\ concurrency \in Nat /\ starts \in 0 .. MaxStarts
    /\ {started, stopped, adapting, scaledDown, managerCrashed} \subseteq BOOLEAN

ManagerInit ==
    /\ \E p \in [Jobs -> Priorities] :
           job = [j \in Jobs |-> [at |-> "new", priority |-> p[j], retries |-> 0]]
    /\ queue = [p \in Priorities |-> <<>>] /\ depth = [p \in Priorities |-> 0]
    /\ dispatcher = [Selecting EXCEPT !.pc = "none"]
    /\ workers = <<>> /\ worker = [w \in WorkerIds |-> Unstarted]
    /\ concurrency = MaxConcurrency \div 2
    /\ starts = 0 /\ started = FALSE /\ stopped = FALSE /\ adapting = FALSE
    /\ scaledDown = FALSE /\ managerCrashed = FALSE

Crash ==
    /\ managerCrashed' = TRUE
    /\ UNCHANGED <<job, queues, dispatcher, workers, worker, concurrency, starts, started,
                   stopped, adapting, scaledDown>>

---------------------------------------------------------------------------
(* Submission, by a caller or by the goroutine of a retry.  The job is counted in the
   size of its queue before it is known whether there is room. *)

Place(j, at) == job' = [job EXCEPT ![j].at = at]
Count(p, n) == depth' = [depth EXCEPT ![p] = @ + n]

SubmitJob(j) ==
    /\ job[j].at = "new" /\ started
    /\ Place(j, "submitting") /\ Count(job[j].priority, 1)
    /\ UNCHANGED <<queue, dispatcher, workers, worker, lifecycle>>

BackoffOver(j) ==
    /\ job[j].at = "backoff"
    /\ IF started THEN Place(j, "submitting") /\ Count(job[j].priority, 1)
                  ELSE Place(j, "lost") /\ UNCHANGED depth
    /\ UNCHANGED <<queue, dispatcher, workers, worker, lifecycle>>

Enqueue(j) ==
    LET p == job[j].priority IN
    /\ job[j].at = "submitting" /\ ~stopped /\ Len(queue[p]) < BufferSize
    /\ queue' = [queue EXCEPT ![p] = Append(@, j)]
    /\ Place(j, "queued")
    /\ UNCHANGED <<depth, dispatcher, workers, worker, lifecycle>>

(* After five seconds; of a job that is retried nobody gets the error. *)
EnqueueTimesOut(j) ==
    /\ job[j].at = "submitting" /\ ~stopped
    /\ Len(queue[job[j].priority]) = BufferSize
    /\ Place(j, IF job[j].retries = 0 THEN "rejected" ELSE "lost")
    /\ UNCHANGED <<queues, dispatcher, workers, worker, lifecycle>>

EnqueueClosed(j) == job[j].at = "submitting" /\ stopped /\ Crash

Submission(j) == BackoffOver(j) \/ Enqueue(j) \/ EnqueueTimesOut(j) \/ EnqueueClosed(j)

---------------------------------------------------------------------------
(* The dispatcher. *)

Receive(p) ==
    /\ dispatcher.pc = "select" /\ queue[p] # <<>>
    /\ queue' = [queue EXCEPT ![p] = Tail(@)]
    /\ Place(Head(queue[p]), "inHand")
    /\ dispatcher' = [Selecting EXCEPT !.pc = "choose", !.job = Head(queue[p]), !.queue = p]
    /\ UNCHANGED <<depth, workers, worker, lifecycle>>

(* A closed queue that is empty gives a job that is none. *)
ReceiveFromClosed(p) ==
    /\ dispatcher.pc = "select" /\ queue[p] = <<>> /\ stopped
    /\ depth[p] > -MaxClosedReads
    /\ dispatcher' = [Selecting EXCEPT !.pc = "choose", !.queue = p]
    /\ UNCHANGED <<job, queues, workers, worker, lifecycle>>

DispatcherEnds ==
    /\ dispatcher.pc = "select" /\ stopped
    /\ dispatcher' = [dispatcher EXCEPT !.pc = "none"]
    /\ UNCHANGED <<job, queues, workers, worker, lifecycle>>

FailedAtOnce(j) == [job EXCEPT ![j].at = "failed"]

Active(w) == worker[w].run = "busy"
Retried(j) == LET r == job[j].retries + 1
              IN  [job EXCEPT ![j].retries = r,
                              ![j].at = IF r <= MaxRetries THEN "backoff" ELSE "failed"]

(* The empty job has no retries left. *)
RetryJob ==
    /\ job' = IF dispatcher.job = Nobody THEN job ELSE Retried(dispatcher.job)
    /\ dispatcher' = [dispatcher EXCEPT !.pc = "count"]

(* The first worker that is not active, although its channel may be full. *)
ChooseWorker ==
    /\ dispatcher.pc = "choose"
    /\ \/ \E i \in DOMAIN workers :
             /\ ~Active(workers[i]) /\ \A k \in 1 .. i - 1 : Active(workers[k])
             /\ dispatcher' = [dispatcher EXCEPT !.pc = "send", !.worker = workers[i]]
             /\ UNCHANGED job
       \/ (\A i \in DOMAIN workers : Active(workers[i])) /\ RetryJob
    /\ UNCHANGED <<queues, workers, worker, lifecycle>>

SendToWorkerOrDrop ==
    LET w == dispatcher.worker IN
    /\ dispatcher.pc = "send" /\ ~worker[w].closed
    /\ worker' = [worker EXCEPT ![w].chan = IF @ = <<>> THEN <<dispatcher.job>> ELSE @]
    /\ job' = IF dispatcher.job # Nobody /\ worker[w].chan = <<>>
              THEN [job EXCEPT ![dispatcher.job].at = "channel"] ELSE job
    /\ dispatcher' = [dispatcher EXCEPT !.pc = "count"]
    /\ UNCHANGED <<queues, workers, lifecycle>>

(* The lock was released since the worker was chosen. *)
SendToWorker ==
    LET w == dispatcher.worker IN
    /\ dispatcher.pc = "send"
    /\ \/ worker[w].closed /\ Crash
       \/ /\ ~worker[w].closed /\ worker[w].chan = <<>>
          /\ worker' = [worker EXCEPT ![w].chan = <<dispatcher.job>>]
          /\ job' = IF dispatcher.job = Nobody THEN job
                    ELSE [job EXCEPT ![dispatcher.job].at = "channel"]
          /\ dispatcher' = [dispatcher EXCEPT !.pc = "count"]
          /\ UNCHANGED <<queues, workers, lifecycle>>
       \/ /\ ~worker[w].closed /\ worker[w].chan # <<>>
          /\ RetryJob
          /\ UNCHANGED <<queues, workers, worker, lifecycle>>

Dispatched ==
    /\ dispatcher.pc = "count"
    /\ Count(dispatcher.queue, -1)
    /\ dispatcher' = Selecting
    /\ UNCHANGED <<job, queue, workers, worker, lifecycle>>

DispatchJobs ==
    \/ \E p \in Priorities : Receive(p) \/ ReceiveFromClosed(p)
    \/ ChooseWorker \/ SendToWorker \/ Dispatched \/ DispatcherEnds

---------------------------------------------------------------------------
(* The workers. *)

TakeFromChannel(w) ==
    /\ worker[w].run = "idle" /\ worker[w].chan # <<>>
    /\ LET j == Head(worker[w].chan) IN
       /\ worker' = [worker EXCEPT ![w].run = "busy", ![w].chan = <<>>, ![w].job = j]
       /\ job' = IF j = Nobody THEN job ELSE [job EXCEPT ![j].at = "running"]
    /\ UNCHANGED <<queues, dispatcher, workers, lifecycle>>

(* Every job succeeds: executeJob is a placeholder. *)
ProcessJob(w) ==
    /\ worker[w].run = "busy"
    /\ worker' = [worker EXCEPT ![w].run = "idle", ![w].job = Nobody]
    /\ job' = IF worker[w].job = Nobody THEN job ELSE [job EXCEPT ![worker[w].job].at = "done"]
    /\ UNCHANGED <<queues, dispatcher, workers, lifecycle>>

WorkerEnds(w) ==
    /\ worker[w].run = "idle"
    /\ stopped \/ (worker[w].closed /\ worker[w].chan = <<>>)
    /\ worker' = [worker EXCEPT ![w].run = "pooled"]
    /\ UNCHANGED <<job, queues, dispatcher, workers, lifecycle>>

Run(w) == TakeFromChannel(w) \/ ProcessJob(w) \/ WorkerEnds(w)

---------------------------------------------------------------------------
(* Start, the adaptive routine and Stop, under the lock. *)

(* Workers out of the sync.Pool: some that were used before, others new. *)
Created(s) ==
    /\ \A i, k \in DOMAIN s : s[i] = s[k] => i = k
    /\ \A i \in DOMAIN s : worker[s[i]].run \in {"unused", "pooled"}
    /\ workers' = workers \o s
    /\ worker' = [w \in WorkerIds |-> IF \E i \in DOMAIN s : s[i] = w
                                      THEN [worker[w] EXCEPT !.run = "idle"] ELSE worker[w]]

(* After Stop the manager can be started again, on the context that has ended; the model
   waits with that until the old dispatcher is gone. *)
ManagerStart ==
    /\ ~started /\ starts < MaxStarts /\ dispatcher.pc = "none"
    /\ \E s \in [1 .. concurrency -> WorkerIds] : Created(s)
    /\ dispatcher' = Selecting
    /\ started' = TRUE /\ starts' = starts + 1 /\ adapting' = TRUE
    /\ UNCHANGED <<job, queues, concurrency, stopped, scaledDown, managerCrashed>>

(* Utilisation is compared with the default target of 0.8; without a worker it is no
   number and nothing changes. *)
ActiveWorkers == Cardinality({i \in DOMAIN workers : Active(workers[i])})
QueueDepth == MapThenSumSet(LAMBDA p : depth[p], Priorities)
HighUtilization == 10 * ActiveWorkers > 8 * Len(workers) /\ QueueDepth > 0
LowUtilization == 10 * ActiveWorkers < 4 * Len(workers) /\ QueueDepth = 0
OneUp == IF ScalingAlgorithm = "linear" THEN concurrency + 1 ELSE (12 * concurrency) \div 10
OneDown == IF ScalingAlgorithm = "linear" THEN concurrency - 1 ELSE (8 * concurrency) \div 10

AddWorkers ==
    /\ HighUtilization
    /\ LET new == IF OneUp > MaxConcurrency THEN MaxConcurrency ELSE OneUp IN
       /\ new > concurrency
       /\ \E s \in [1 .. new - concurrency -> WorkerIds] : Created(s)
       /\ concurrency' = new
    /\ UNCHANGED <<job, queues, dispatcher, starts, started, stopped, adapting, scaledDown,
                   managerCrashed>>

(* One worker goes, the last: the linear step, and that of the exponential algorithm up
   to five.  Its channel may be closed already if it came from the sync.Pool. *)
RemoveWorkers ==
    LET new == IF OneDown < 1 THEN 1 ELSE OneDown
        removed == {workers[i] : i \in Len(workers) - (concurrency - new) + 1 .. Len(workers)}
    IN
    /\ LowUtilization /\ new < concurrency
    /\ IF \/ \E w \in removed : worker[w].closed
          \/ Cardinality(removed) < concurrency - new
       THEN Crash
       ELSE /\ workers' = SubSeq(workers, 1, Len(workers) - (concurrency - new))
            /\ worker' = [w \in WorkerIds |-> IF w \in removed
                                              THEN [worker[w] EXCEPT !.closed = TRUE]
                                              ELSE worker[w]]
            /\ concurrency' = new /\ scaledDown' = TRUE
            /\ UNCHANGED <<job, queues, dispatcher, starts, started, stopped, adapting,
                           managerCrashed>>

(* A tick that waits for the lock while Stop has it is served after Stop. *)
AdjustConcurrency ==
    adapting /\ \/ AddWorkers \/ RemoveWorkers
                \/ /\ stopped /\ adapting' = FALSE
                   /\ UNCHANGED <<job, queues, dispatcher, workers, worker, concurrency, starts,
                                  started, stopped, scaledDown, managerCrashed>>

Stop ==
    /\ started
    /\ IF \/ stopped
          \/ \E i \in DOMAIN workers : worker[workers[i]].closed
          \/ \E i, k \in DOMAIN workers : i # k /\ workers[i] = workers[k]
       THEN Crash
       ELSE /\ worker' = [w \in WorkerIds |-> IF \E i \in DOMAIN workers : workers[i] = w
                                              THEN [worker[w] EXCEPT !.closed = TRUE]
                                              ELSE worker[w]]
            /\ stopped' = TRUE /\ started' = FALSE
            /\ UNCHANGED <<job, queues, dispatcher, workers, concurrency, starts, adapting,
                           scaledDown, managerCrashed>>

ManagerNext ==
    /\ ~managerCrashed
    /\ \/ \E j \in Jobs : SubmitJob(j) \/ Submission(j)
       \/ DispatchJobs
       \/ \E w \in WorkerIds : Run(w)
       \/ ManagerStart \/ AdjustConcurrency \/ Stop

ManagerSpec == ManagerInit /\ [][ManagerNext]_managerVars

(* Sends that have room or a timeout go on, and so do the dispatcher and the workers. *)
ManagerFairness ==
    /\ \A j \in Jobs : WF_managerVars(~managerCrashed /\ Submission(j))
    /\ WF_managerVars(~managerCrashed /\ DispatchJobs)
    /\ \A w \in WorkerIds : WF_managerVars(~managerCrashed /\ Run(w))

---------------------------------------------------------------------------
JobsAt(p, at) == {j \in Jobs : job[j].priority = p /\ job[j].at = at}
InHand(p) == IF dispatcher.queue = p THEN 1 ELSE 0
Refused(p) == JobsAt(p, "rejected") \cup JobsAt(p, "lost")

(* Until Stop, the size that decides on scaling counts every job in its queue, on its way
   into it or in the hand of the dispatcher, and for ever those that found it full. *)
DepthIsAccountedFor ==
    ~stopped => \A p \in Priorities :
        depth[p] = Cardinality(JobsAt(p, "submitting")) + Len(queue[p]) + InHand(p)
                   + Cardinality(Refused(p))

(* A job fails only after MaxRetries further attempts, and vanishes only on a retry. *)
FailuresWereRetried ==
    \A j \in Jobs : /\ job[j].at = "failed" => job[j].retries = MaxRetries + 1
                    /\ job[j].at = "lost" => job[j].retries \in 1 .. MaxRetries

(* Channels are closed by Stop and by the removal of workers, and nothing but these
   makes the program send into, or close, one that is closed. *)
CrashNeedsClosing == managerCrashed => stopped \/ scaledDown

(* The workload manager under concurrent callers (workload.go). *)
JobsConsistent ==
    ManagerTypeOK /\ DepthIsAccountedFor /\ FailuresWereRetried /\ CrashNeedsClosing

(* As long as the manager runs, a submitted job is executed, reported as failed or
   refused: no interleaving of dispatcher, workers, retries and scaling strands one. *)
EveryJobEnds ==
    \A j \in Jobs : job[j].at = "submitting" ~> job[j].at \in Ended \/ stopped \/ managerCrashed
=============================================================================
