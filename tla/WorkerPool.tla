----------------------------- MODULE WorkerPool -----------------------------
(***************************************************************************)
(* The worker pool (internal/workerpool/workerpool.go): goroutines that    *)
(* Submit jobs, workers that run them and send the results, and callers of *)
(* Start and Shutdown.  jobs, priorityJobs and results are Go channels     *)
(* with a buffer of BufferSize: sending on a closed one, and closing a     *)
(* closed one, panics.  A panic outside a worker ends the process.         *)
(***************************************************************************)
EXTENDS Integers, Sequences, FiniteSets

CONSTANTS
  Jobs,        \* jobs with Priority() = 0, each submitted by a goroutine of its own
  UrgentJobs,  \* jobs with Priority() > 0, given to SubmitPriority
  Workers,     \* the ids 0 .. workers-1
  Callers,     \* goroutines that call Shutdown, once each
  BufferSize,
  Outcomes,    \* what Execute may do: "ok", "error", "panic", "nil" (returns no Result)
  MaxStarts    \* bound: calls of Start that find the pool stopped

ASSUME PoolAssumption ==
  /\ Jobs \cap UrgentJobs = {}
  /\ BufferSize \in Nat \ {0}
  /\ Outcomes \subseteq {"ok", "error", "panic", "nil"}
  /\ MaxStarts \in Nat

VARIABLES
  running,                         \* WorkerPool.running
  jobs, jobsClosed,                \* WorkerPool.jobs
  priorityJobs,                    \* PriorityWorkerPool.priorityJobs
  results, resultsClosed,          \* WorkerPool.results
  ctxDone,                         \* WorkerPool.ctx is cancelled
  processed, successful, failed,   \* WorkerPool.jobsProcessed, jobsSuccessful, jobsFailed
  starts,                          \* Starts that found the pool stopped
  submit,                          \* where the submitter of each job is
  outcome,                         \* what Execute did with each job
  pc, job,                         \* where each worker goroutine is, and its job
  shutdown,                        \* where each caller of Shutdown is
  crashed                          \* a panic ended the process

chans    == <<jobs, jobsClosed, priorityJobs, results, resultsClosed>>
counters == <<processed, successful, failed>>
worker   == <<pc, job>>
control  == <<running, ctxDone, starts, crashed>>
vars     == <<chans, counters, worker, control, submit, outcome, shutdown>>

AllJobs == Jobs \cup UrgentJobs
NoJob   == "none"

\* The goroutines of every Start; those of Starts yet to come are "unborn".
Goroutines == Workers \X (1 .. MaxStarts)
Alive == {g \in Goroutines : pc[g] \notin {"unborn", "stopped", "panicked"}}

Init ==
  /\ running = FALSE
  /\ jobs = <<>> /\ jobsClosed = FALSE
  /\ priorityJobs = <<>>
  /\ results = <<>> /\ resultsClosed = FALSE
  /\ ctxDone = FALSE
  /\ processed = 0 /\ successful = 0 /\ failed = 0
  /\ starts = 0
  /\ submit = [j \in AllJobs |-> "new"]
  /\ outcome = [j \in AllJobs |-> "pending"]
  /\ pc = [g \in Goroutines |-> "unborn"]
  /\ job = [g \in Goroutines |-> NoJob]
  /\ shutdown = [c \in Callers |-> "idle"]
  /\ crashed = FALSE

\* A caller of Shutdown goes from one point of it to the next.
ShutdownGoto(c, from, to) ==
  /\ ~crashed /\ shutdown[c] = from
  /\ shutdown' = [shutdown EXCEPT ![c] = to]

Panic == crashed' = TRUE /\ UNCHANGED <<running, ctxDone, starts>>

-----------------------------------------------------------------------------
(* Plausible mistakes, each of which one of the properties is there to     *)
(* catch.                                                                  *)

\* The results are closed without waiting for the workers.
ShutdownWorkersDoneNoWait(c) ==
  /\ ~crashed
  /\ shutdown[c] \in {"wait", "forced"}
  /\ shutdown' = [shutdown EXCEPT ![c] = "closeResults"]
  /\ UNCHANGED <<chans, counters, worker, control, submit, outcome>>

\* A worker leaves as soon as the channel is closed, whatever it still holds.
WorkerStopsEarly(g) ==
  /\ ~crashed /\ pc[g] = "idle"
  /\ jobsClosed \/ ctxDone
  /\ pc' = [pc EXCEPT ![g] = "stopped"]
  /\ UNCHANGED <<chans, counters, job, control, submit, outcome, shutdown>>

\* A worker that is given a job when the context is cancelled drops it.
TakeJobUnlessStopping(g) ==
  /\ ~crashed /\ pc[g] = "idle"
  /\ jobs # <<>>
  /\ jobs' = Tail(jobs)
  /\ IF running
     THEN /\ job' = [job EXCEPT ![g] = Head(jobs)]
          /\ pc' = [pc EXCEPT ![g] = "execute"]
     ELSE UNCHANGED worker
  /\ UNCHANGED <<jobsClosed, priorityJobs, results, resultsClosed, counters, control, submit,
                 outcome, shutdown>>

\* After cancelling, Shutdown waits for the workers without a limit.
ShutdownFailsNever(c) ==
  /\ ShutdownGoto(c, "forced", "failed")
  /\ Alive = {}
  /\ UNCHANGED <<chans, counters, worker, control, submit, outcome>>

-----------------------------------------------------------------------------
\* Start: nothing but the running flag keeps it from starting workers again.
Start ==
  /\ ~crashed /\ ~running
  /\ starts < MaxStarts
  /\ pc' = [g \in Goroutines |-> IF g[2] = starts + 1 THEN "idle" ELSE pc[g]]
  /\ running' = TRUE
  /\ starts' = starts + 1
  /\ UNCHANGED <<chans, counters, job, ctxDone, crashed, submit, outcome, shutdown>>

\* Submit reads running under the lock, releases it, and goes on.
SubmitCheck(j) ==
  /\ ~crashed /\ submit[j] = "new"
  /\ submit' = [submit EXCEPT ![j] = IF running THEN "checked" ELSE "refused"]
  /\ UNCHANGED <<chans, counters, worker, control, outcome, shutdown>>

\* The select of Submit: a closed channel is ready for sending, and panics.
SubmitEnqueue(j) ==
  /\ ~crashed /\ submit[j] = "checked" /\ ~jobsClosed
  /\ Len(jobs) < BufferSize
  /\ jobs' = Append(jobs, j)
  /\ submit' = [submit EXCEPT ![j] = "queued"]
  /\ UNCHANGED <<jobsClosed, priorityJobs, results, resultsClosed, counters, worker, control,
                 outcome, shutdown>>

SubmitRefused(j) ==
  /\ ~crashed /\ submit[j] = "checked"
  /\ ctxDone \/ (~jobsClosed /\ Len(jobs) >= BufferSize)
  /\ submit' = [submit EXCEPT ![j] = "refused"]
  /\ UNCHANGED <<chans, counters, worker, control, outcome, shutdown>>

SubmitPanics(j) ==
  /\ ~crashed /\ submit[j] = "checked" /\ jobsClosed
  /\ Panic
  /\ UNCHANGED <<chans, counters, worker, submit, outcome, shutdown>>

\* SubmitPriority of a job with Priority() > 0; of others it is Submit.
SubmitPriority(j) ==
  /\ ~crashed /\ submit[j] = "new"
  /\ \/ /\ Len(priorityJobs) < BufferSize
        /\ priorityJobs' = Append(priorityJobs, j)
        /\ submit' = [submit EXCEPT ![j] = "queued"]
     \/ /\ ctxDone \/ Len(priorityJobs) >= BufferSize
        /\ submit' = [submit EXCEPT ![j] = "refused"]
        /\ UNCHANGED priorityJobs
  /\ UNCHANGED <<jobs, jobsClosed, results, resultsClosed, counters, worker, control,
                 outcome, shutdown>>

Submit ==
  \/ \E j \in Jobs : SubmitCheck(j) \/ SubmitEnqueue(j) \/ SubmitRefused(j) \/ SubmitPanics(j)
  \/ \E j \in UrgentJobs : SubmitPriority(j)

-----------------------------------------------------------------------------
\* The select of worker.  With a job waiting and the context cancelled it may
\* do either.
TakeJob(g) ==
  /\ ~crashed /\ pc[g] = "idle"
  /\ jobs # <<>>
  /\ jobs' = Tail(jobs)
  /\ job' = [job EXCEPT ![g] = Head(jobs)]
  /\ pc' = [pc EXCEPT ![g] = "execute"]
  /\ UNCHANGED <<jobsClosed, priorityJobs, results, resultsClosed, counters, control, submit,
                 outcome, shutdown>>

WorkerStops(g) ==
  /\ ~crashed /\ pc[g] = "idle"
  /\ (jobsClosed /\ jobs = <<>>) \/ ctxDone
  /\ pc' = [pc EXCEPT ![g] = "stopped"]
  /\ UNCHANGED <<chans, counters, job, control, submit, outcome, shutdown>>

\* processJob: Execute, whose panics become a failed result, then the count
\* of processed jobs.
ExecuteJob(g) ==
  /\ ~crashed /\ pc[g] = "execute"
  /\ \E o \in Outcomes : outcome' = [outcome EXCEPT ![job[g]] = o]
  /\ pc' = [pc EXCEPT ![g] = "classify"]
  /\ processed' = processed + 1
  /\ UNCHANGED <<chans, successful, failed, job, control, submit, shutdown>>

\* result.Error(): a nil Result panics, outside the recover around Execute;
\* the recover of worker ends the goroutine.
Classify(g) ==
  /\ ~crashed /\ pc[g] = "classify"
  /\ CASE outcome[job[g]] = "nil" ->
            /\ pc' = [pc EXCEPT ![g] = "panicked"]
            /\ UNCHANGED <<successful, failed>>
       [] outcome[job[g]] = "ok" ->
            /\ successful' = successful + 1
            /\ pc' = [pc EXCEPT ![g] = "send"]
            /\ UNCHANGED failed
       [] OTHER ->
            /\ failed' = failed + 1
            /\ pc' = [pc EXCEPT ![g] = "send"]
            /\ UNCHANGED successful
  /\ UNCHANGED <<chans, processed, job, control, submit, outcome, shutdown>>

\* The result is sent, or dropped when the channel is full or the context
\* cancelled; a closed channel panics, and ends the worker.
SendResult(g) ==
  /\ ~crashed /\ pc[g] = "send"
  /\ \/ /\ ~resultsClosed /\ Len(results) < BufferSize
        /\ results' = Append(results, job[g])
        /\ pc' = [pc EXCEPT ![g] = "idle"]
     \/ /\ ctxDone \/ (~resultsClosed /\ Len(results) >= BufferSize)
        /\ pc' = [pc EXCEPT ![g] = "idle"]
        /\ UNCHANGED results
     \/ /\ resultsClosed
        /\ pc' = [pc EXCEPT ![g] = "panicked"]
        /\ UNCHANGED results
  /\ job' = [job EXCEPT ![g] = NoJob]
  /\ UNCHANGED <<jobs, jobsClosed, priorityJobs, resultsClosed, counters, control, submit,
                 outcome, shutdown>>

Work(g) == TakeJob(g) \/ WorkerStops(g) \/ ExecuteJob(g) \/ Classify(g) \/ SendResult(g)

\* The pool's user receives from Results().
Receive ==
  /\ ~crashed /\ results # <<>>
  /\ results' = Tail(results)
  /\ UNCHANGED <<jobs, jobsClosed, priorityJobs, resultsClosed, counters, worker, control,
                 submit, outcome, shutdown>>

-----------------------------------------------------------------------------
\* Shutdown of a pool that is not running returns nil at once.
ShutdownBegin(c) ==
  /\ ShutdownGoto(c, "idle", IF running THEN "close" ELSE "nothing to do")
  /\ running' = FALSE
  /\ UNCHANGED <<chans, counters, worker, ctxDone, starts, crashed, submit, outcome>>

\* close(wp.jobs)
ShutdownCloseJobs(c) ==
  /\ ShutdownGoto(c, "close", "wait")
  /\ IF jobsClosed
     THEN Panic /\ UNCHANGED jobsClosed
     ELSE jobsClosed' = TRUE /\ UNCHANGED control
  /\ UNCHANGED <<jobs, priorityJobs, results, resultsClosed, counters, worker, submit, outcome>>

\* wp.wg.Wait() returns, before or after the context was cancelled.
ShutdownWorkersDone(c) ==
  /\ Alive = {}
  /\ ShutdownGoto(c, "wait", "closeResults") \/ ShutdownGoto(c, "forced", "closeResults")
  /\ UNCHANGED <<chans, counters, worker, control, submit, outcome>>

\* shutdownTimeout is over: cancel.
ShutdownTimeout(c) ==
  /\ ShutdownGoto(c, "wait", "forced")
  /\ ctxDone' = TRUE
  /\ UNCHANGED <<chans, counters, worker, running, starts, crashed, submit, outcome>>

\* Five more seconds are over: "shutdown timeout exceeded".
ShutdownFails(c) ==
  /\ ShutdownGoto(c, "forced", "failed")
  /\ UNCHANGED <<chans, counters, worker, control, submit, outcome>>

\* close(wp.results)
ShutdownCloseResults(c) ==
  /\ ShutdownGoto(c, "closeResults", "done")
  /\ IF resultsClosed
     THEN Panic /\ UNCHANGED resultsClosed
     ELSE resultsClosed' = TRUE /\ UNCHANGED control
  /\ UNCHANGED <<jobs, jobsClosed, priorityJobs, results, counters, worker, submit, outcome>>

Shutdown(c) ==
  \/ ShutdownBegin(c) \/ ShutdownCloseJobs(c) \/ ShutdownWorkersDone(c)
  \/ ShutdownTimeout(c) \/ ShutdownFails(c) \/ ShutdownCloseResults(c)

Next ==
  \/ Start \/ Submit \/ Receive
  \/ \E g \in Goroutines : Work(g)
  \/ \E c \in Callers : Shutdown(c)

Spec == Init /\ [][Next]_vars

\* The scheduler runs workers and callers of Shutdown that can go on, and
\* timers fire.  Nobody need Submit, Receive, or call Start or Shutdown, and
\* a job's Execute may never return.
Fairness ==
  /\ \A g \in Goroutines : WF_vars(Work(g) /\ pc[g] # "execute")
  /\ \A c \in Callers : WF_vars(Shutdown(c) /\ shutdown[c] # "idle")

FairSpec == Spec /\ Fairness

-----------------------------------------------------------------------------
TypeOK ==
  /\ {running, jobsClosed, resultsClosed, ctxDone, crashed} \subseteq BOOLEAN
  /\ jobs \in Seq(Jobs) /\ results \in Seq(Jobs) /\ priorityJobs \in Seq(UrgentJobs)
  /\ \A ch \in {jobs, results, priorityJobs} : Len(ch) <= BufferSize
  /\ {processed, successful, failed, starts} \subseteq Nat
  /\ submit \in [AllJobs -> {"new", "checked", "queued", "refused"}]
  /\ outcome \in [AllJobs -> {"pending"} \cup Outcomes]
  /\ pc \in [Goroutines -> {"unborn", "idle", "execute", "classify", "send", "stopped", "panicked"}]
  /\ job \in [Goroutines -> Jobs \cup {NoJob}]
  /\ shutdown \in [Callers -> {"idle", "nothing to do", "close", "wait", "forced", "closeResults",
                               "done", "failed"}]

Executed(j) == outcome[j] # "pending"

\* A job Submit accepted is waiting in the channel, in the hands of one worker
\* or executed: no race of Submit with Shutdown loses one on the way.
AcceptedJobsAreTracked ==
  \A j \in Jobs : submit[j] = "queued" =>
    1 = Cardinality({i \in DOMAIN jobs : jobs[i] = j})
        + Cardinality({g \in Goroutines : pc[g] = "execute" /\ job[g] = j})
        + (IF Executed(j) THEN 1 ELSE 0)

\* When Shutdown returns without having had to cancel, every accepted job was
\* executed, unless nil Results have killed all the workers.
GracefulShutdownDrains ==
  (\E c \in Callers : shutdown[c] = "done") /\ ~ctxDone =>
    \/ \A j \in Jobs : submit[j] = "queued" => Executed(j)
    \/ \A w \in Workers : pc[<<w, 1>>] = "panicked"

\* Shutdown closes the results when no worker is left to send one.
ResultsClosedLast == resultsClosed => Alive = {}

\* A Shutdown that has begun returns, even if a job never does.
ShutdownReturns ==
  \A c \in Callers :
    shutdown[c] = "close" ~> shutdown[c] \in {"done", "failed"} \/ crashed
=============================================================================
