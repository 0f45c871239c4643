--------------------------- MODULE WorkerPoolProofs ---------------------------
(* Proofs about WorkerPool, for any numbers of jobs, workers, callers of   *)
(* Shutdown and buffers of any size.                                       *)
EXTENDS WorkerPool, FiniteSetTheorems, TLAPS

Flags == {running, jobsClosed, resultsClosed, ctxDone, crashed} \subseteq BOOLEAN

PoolTypes ==
  /\ processed \in Nat /\ successful \in Nat /\ failed \in Nat /\ starts \in Nat
  /\ submit \in [AllJobs -> {"new", "checked", "queued", "refused"}]
  /\ outcome \in [AllJobs -> {"pending"} \cup Outcomes]
  /\ shutdown \in [Callers -> {"idle", "nothing to do", "close", "wait", "forced", "closeResults",
                               "done", "failed"}]

ChannelTypes ==
  /\ jobs \in Seq(Jobs) /\ Len(jobs) <= BufferSize
  /\ results \in Seq(Jobs) /\ Len(results) <= BufferSize
  /\ priorityJobs \in Seq(UrgentJobs) /\ Len(priorityJobs) <= BufferSize

WorkerTypes ==
  /\ pc \in [Goroutines -> {"unborn", "idle", "execute", "classify", "send", "stopped", "panicked"}]
  /\ job \in [Goroutines -> Jobs \cup {NoJob}]

\* A worker past the select has a job.
WorkersHaveJobs ==
  \A g \in Goroutines : pc[g] \in {"execute", "classify", "send"} => job[g] \in Jobs

TInv == Flags /\ PoolTypes /\ ChannelTypes /\ WorkerTypes /\ WorkersHaveJobs

LEMMA TInvTypeOK == TInv <=> TypeOK /\ WorkersHaveJobs
  BY DEF TInv, Flags, PoolTypes, ChannelTypes, WorkerTypes, TypeOK

\* Nothing has been started.
LEMMA InitTInv == Init => TInv
<1> SUFFICES ASSUME Init PROVE TInv
  OBVIOUS
<1>1. Flags
  BY Zenon DEF Init, Flags
<1>2. PoolTypes
  BY DEF Init, PoolTypes
<1>3. ChannelTypes
  BY PoolAssumption DEF Init, ChannelTypes
<1>4. WorkerTypes /\ WorkersHaveJobs
  BY DEF Init, WorkerTypes, WorkersHaveJobs
<1>5. QED
  BY <1>1, <1>2, <1>3, <1>4 DEF TInv

\* The steps of submitters, of the user and of Start.
LEMMA SubmitTInv == TInv /\ Submit => TInv'
<1> SUFFICES ASSUME TInv, Submit PROVE TInv'
  OBVIOUS
<1>1. UNCHANGED worker /\ UNCHANGED <<counters, outcome, shutdown>>
  BY DEF Submit, SubmitCheck, SubmitEnqueue, SubmitRefused, SubmitPanics, SubmitPriority
<1>2. UNCHANGED <<jobsClosed, results, resultsClosed, running, ctxDone, starts>>
  BY DEF Submit, SubmitCheck, SubmitEnqueue, SubmitRefused, SubmitPanics, SubmitPriority, chans,
         control, Panic
<1>3. crashed' \in BOOLEAN /\ submit' \in [AllJobs -> {"new", "checked", "queued", "refused"}]
  BY DEF Submit, SubmitCheck, SubmitEnqueue, SubmitRefused, SubmitPanics, SubmitPriority,
         control, Panic, TInv, Flags, PoolTypes
<1>4. jobs' \in Seq(Jobs) /\ Len(jobs') <= BufferSize
  <2>1. UNCHANGED jobs \/ \E j \in Jobs : jobs' = Append(jobs, j) /\ Len(jobs) < BufferSize
    BY DEF Submit, SubmitCheck, SubmitEnqueue, SubmitRefused, SubmitPanics, SubmitPriority, chans
  <2>2. QED
    BY <2>1, PoolAssumption DEF TInv, ChannelTypes
<1>5. priorityJobs' \in Seq(UrgentJobs) /\ Len(priorityJobs') <= BufferSize
  <2>1. \/ UNCHANGED priorityJobs
        \/ \E j \in UrgentJobs : /\ priorityJobs' = Append(priorityJobs, j)
                                 /\ Len(priorityJobs) < BufferSize
    BY DEF Submit, SubmitCheck, SubmitEnqueue, SubmitRefused, SubmitPanics, SubmitPriority, chans
  <2>2. QED
    BY <2>1, PoolAssumption DEF TInv, ChannelTypes
<1>6. QED
  BY <1>1, <1>2, <1>3, <1>4, <1>5 DEF TInv, Flags, PoolTypes, ChannelTypes, WorkerTypes, WorkersHaveJobs,
                                      worker, counters

LEMMA StartTInv == TInv /\ Start => TInv'
<1> SUFFICES ASSUME TInv, Start PROVE TInv'
  OBVIOUS
<1>1. Flags'
  BY Zenon DEF Start, TInv, Flags, chans
<1>2. PoolTypes'
  <2>1. starts \in Nat /\ starts' = starts + 1
    BY DEF Start, TInv, PoolTypes
  <2>2. starts' \in Nat
    BY <2>1
  <2>3. QED
    BY <2>2 DEF Start, TInv, PoolTypes, counters
<1>3. ChannelTypes'
  BY DEF Start, TInv, ChannelTypes, chans
<1>4. WorkerTypes' /\ WorkersHaveJobs'
  BY DEF Start, TInv, WorkerTypes, WorkersHaveJobs
<1>5. QED
  BY <1>1, <1>2, <1>3, <1>4 DEF TInv

LEMMA ReceiveTInv == TInv /\ Receive => TInv'
<1> SUFFICES ASSUME TInv, Receive PROVE TInv'
  OBVIOUS
<1>1. results' \in Seq(Jobs) /\ Len(results') <= BufferSize
  BY PoolAssumption DEF Receive, TInv, ChannelTypes
<1>2. QED
  BY <1>1 DEF Receive, TInv, Flags, PoolTypes, ChannelTypes, WorkerTypes, WorkersHaveJobs, counters, worker,
              control

\* The steps of a worker: it takes a job from the channel, and keeps it until
\* the result is sent.
LEMMA WorkTInv == ASSUME NEW g \in Goroutines PROVE TInv /\ Work(g) => TInv'
<1> SUFFICES ASSUME TInv, Work(g) PROVE TInv'
  OBVIOUS
<1>1. CASE TakeJob(g)
  <2>1. jobs' \in Seq(Jobs) /\ Len(jobs') <= BufferSize /\ Head(jobs) \in Jobs
    BY <1>1, PoolAssumption DEF TakeJob, TInv, ChannelTypes
  <2>2. QED
    BY <1>1, <2>1 DEF TakeJob, TInv, Flags, PoolTypes, ChannelTypes, WorkerTypes, WorkersHaveJobs,
                      counters, control
<1>2. CASE WorkerStops(g)
  BY <1>2 DEF WorkerStops, TInv, Flags, PoolTypes, ChannelTypes, WorkerTypes, WorkersHaveJobs, chans,
              counters, control
<1>3. CASE ExecuteJob(g)
  <2>1. job[g] \in AllJobs /\ processed' \in Nat
    <3>1. processed \in Nat /\ processed' = processed + 1
      BY <1>3 DEF ExecuteJob, TInv, PoolTypes
    <3>2. QED
      BY <1>3, <3>1 DEF ExecuteJob, TInv, WorkersHaveJobs, AllJobs
  <2>2. outcome' \in [AllJobs -> {"pending"} \cup Outcomes]
    BY <1>3, <2>1 DEF ExecuteJob, TInv, PoolTypes
  <2>3. Flags' /\ ChannelTypes'
    BY <1>3 DEF ExecuteJob, TInv, Flags, ChannelTypes, chans, control
  <2>4. PoolTypes'
    BY <1>3, <2>1, <2>2 DEF ExecuteJob, TInv, PoolTypes, control
  <2>5. WorkerTypes' /\ WorkersHaveJobs'
    BY <1>3 DEF ExecuteJob, TInv, WorkerTypes, WorkersHaveJobs
  <2>6. QED
    BY <2>3, <2>4, <2>5 DEF TInv
<1>4. CASE Classify(g)
  <2>1. successful' \in Nat /\ failed' \in Nat
    <3>1. successful \in Nat /\ failed \in Nat
      BY DEF TInv, PoolTypes
    <3>2. /\ successful' = successful \/ successful' = successful + 1
          /\ failed' = failed \/ failed' = failed + 1
      BY <1>4 DEF Classify
    <3>3. QED
      BY <3>1, <3>2
  <2>2. \E p \in {"panicked", "send"} : pc' = [pc EXCEPT ![g] = p]
    BY <1>4 DEF Classify
  <2>3. pc[g] = "classify" /\ UNCHANGED <<chans, processed, job, control, submit, outcome, shutdown>>
    BY <1>4 DEF Classify
  <2>4. QED
    BY <2>1, <2>2, <2>3 DEF TInv, Flags, PoolTypes, ChannelTypes, WorkerTypes, WorkersHaveJobs, chans,
                            control
<1>5. CASE SendResult(g)
  <2>1. job[g] \in Jobs
    BY <1>5 DEF SendResult, TInv, WorkersHaveJobs
  <2>2. results' \in Seq(Jobs) /\ Len(results') <= BufferSize
    BY <1>5, <2>1, PoolAssumption DEF SendResult, TInv, ChannelTypes
  <2>3. \E p \in {"idle", "panicked"} : pc' = [pc EXCEPT ![g] = p]
    BY <1>5 DEF SendResult
  <2>4. /\ job' = [job EXCEPT ![g] = NoJob]
        /\ UNCHANGED <<jobs, jobsClosed, priorityJobs, resultsClosed, counters, control, submit,
                       outcome, shutdown>>
    BY <1>5 DEF SendResult
  <2>5. QED
    BY <2>2, <2>3, <2>4 DEF TInv, Flags, PoolTypes, ChannelTypes, WorkerTypes, WorkersHaveJobs, counters,
                            control
<1>6. QED
  BY <1>1, <1>2, <1>3, <1>4, <1>5 DEF Work

\* The steps of a caller of Shutdown.
LEMMA ShutdownTInv == ASSUME NEW c \in Callers PROVE TInv /\ Shutdown(c) => TInv'
<1> SUFFICES ASSUME TInv, Shutdown(c) PROVE TInv'
  OBVIOUS
<1>1. UNCHANGED <<jobs, priorityJobs, results, counters, worker, submit, outcome, starts>>
  BY DEF Shutdown, ShutdownBegin, ShutdownCloseJobs, ShutdownWorkersDone, ShutdownTimeout,
         ShutdownFails, ShutdownCloseResults, Panic, chans, control
<1>2. {running', jobsClosed', resultsClosed', ctxDone', crashed'} \subseteq BOOLEAN
  BY DEF Shutdown, ShutdownBegin, ShutdownCloseJobs, ShutdownWorkersDone, ShutdownTimeout,
         ShutdownFails, ShutdownCloseResults, Panic, chans, control, TInv, Flags
<1>3. shutdown' \in [Callers -> {"idle", "nothing to do", "close", "wait", "forced",
                                 "closeResults", "done", "failed"}]
  BY DEF Shutdown, ShutdownBegin, ShutdownCloseJobs, ShutdownWorkersDone, ShutdownTimeout,
         ShutdownFails, ShutdownCloseResults, ShutdownGoto, TInv, PoolTypes
<1>4. QED
  BY <1>1, <1>2, <1>3 DEF TInv, Flags, PoolTypes, ChannelTypes, WorkerTypes, WorkersHaveJobs, counters,
                          worker

LEMMA TypeInvariance == Spec => []TInv
<1>1. TInv /\ UNCHANGED vars => TInv'
  BY DEF TInv, Flags, PoolTypes, ChannelTypes, WorkerTypes, WorkersHaveJobs, vars, chans, counters, worker,
         control
<1>2. TInv /\ [Next]_vars => TInv'
  BY <1>1, SubmitTInv, StartTInv, ReceiveTInv, WorkTInv, ShutdownTInv DEF Next
<1>3. QED
  BY InitTInv, <1>2, PTL DEF Spec

\* The channels hold no more than their buffers, and nothing but jobs; workers,
\* submitters and callers are where the code can be.
THEOREM TypeCorrect == Spec => []TypeOK
  BY TypeInvariance, TInvTypeOK, PTL

-----------------------------------------------------------------------------
\* Why the results are closed last.  A pool that was ever told to shut down has
\* been started; and whoever is about to close the results has found no worker.
ShutsDownWhatRan ==
  /\ running => starts > 0
  /\ \A c \in Callers : shutdown[c] \notin {"idle", "nothing to do"} => starts > 0
NobodyLeft ==
  resultsClosed \/ (\E c \in Callers : shutdown[c] = "closeResults") =>
    starts > 0 /\ Alive = {}
CInv == TInv /\ ShutsDownWhatRan /\ NobodyLeft

\* A pool is started before it is running, and is running before it is shut down.
LEMMA NextShutsDownWhatRan == TInv /\ ShutsDownWhatRan /\ [Next]_vars => ShutsDownWhatRan'
<1> SUFFICES ASSUME TInv, ShutsDownWhatRan, [Next]_vars PROVE ShutsDownWhatRan'
  OBVIOUS
<1>1. starts \in Nat /\ shutdown = [c \in Callers |-> shutdown[c]]
  BY DEF TInv, PoolTypes
<1>2. CASE Start
  <2>1. starts' = starts + 1 /\ shutdown' = shutdown
    BY <1>2 DEF Start
  <2>2. starts' > 0
    BY <1>1, <2>1
  <2>3. QED
    BY <2>2, Zenon DEF ShutsDownWhatRan
<1>3. ASSUME NEW c \in Callers, Shutdown(c) PROVE ShutsDownWhatRan'
  <2>1. starts' = starts /\ (running' => running)
    BY <1>3 DEF Shutdown, ShutdownBegin, ShutdownCloseJobs, ShutdownWorkersDone, ShutdownTimeout,
         ShutdownFails, ShutdownCloseResults, Panic, control
  <2>2. \E to : /\ shutdown' = [shutdown EXCEPT ![c] = to]
                /\ to # "nothing to do" => running \/ shutdown[c] \notin {"idle", "nothing to do"}
    BY <1>3 DEF Shutdown, ShutdownBegin, ShutdownCloseJobs, ShutdownWorkersDone, ShutdownTimeout,
         ShutdownFails, ShutdownCloseResults, ShutdownGoto
  <2>3. PICK to : /\ shutdown' = [shutdown EXCEPT ![c] = to]
                  /\ to # "nothing to do" => running \/ shutdown[c] \notin {"idle", "nothing to do"}
    BY <2>2
  <2>4. to # "nothing to do" => starts > 0
    BY <2>3 DEF ShutsDownWhatRan
  <2>5. \A d \in Callers : shutdown'[d] = IF d = c THEN to ELSE shutdown[d]
    BY <1>1, <2>3
  <2>6. QED
    BY <2>1, <2>4, <2>5 DEF ShutsDownWhatRan
<1>4. CASE ~Start /\ ~\E c \in Callers : Shutdown(c)
  <2>1. UNCHANGED <<starts, running, shutdown>>
    BY <1>4 DEF Next, Submit, SubmitCheck, SubmitEnqueue, SubmitRefused, SubmitPanics,
       SubmitPriority, Receive, Work, TakeJob, WorkerStops, ExecuteJob, Classify, SendResult,
       Panic, chans, control, vars
  <2>2. QED
    BY <2>1 DEF ShutsDownWhatRan
<1>5. QED
  BY <1>2, <1>3, <1>4

\* Once no worker is alive, none comes to life but by Start.
LEMMA DeadStayDead ==
  ASSUME TInv, Alive = {}, Next, ~Start PROVE Alive' = {}
<1>1. \A g \in Goroutines : pc[g] \in {"unborn", "stopped", "panicked"}
  BY DEF Alive
<1>2. \A g \in Goroutines : ~Work(g)
  BY <1>1 DEF Work, TakeJob, WorkerStops, ExecuteJob, Classify, SendResult
<1>3. UNCHANGED pc
  BY <1>2 DEF Next, Submit, SubmitCheck, SubmitEnqueue, SubmitRefused, SubmitPanics,
       SubmitPriority, Receive, Shutdown, ShutdownBegin, ShutdownCloseJobs, ShutdownWorkersDone,
       ShutdownTimeout, ShutdownFails, ShutdownCloseResults, worker
<1>4. QED
  BY <1>1, <1>3 DEF Alive

\* A pool that is started once: every step keeps the invariant.
LEMMA NextCInv == ASSUME MaxStarts = 1, CInv, Next, TInv' PROVE CInv'
<1>0. starts \in Nat /\ shutdown = [c \in Callers |-> shutdown[c]]
  BY DEF CInv, TInv, PoolTypes
<1> USE DEF CInv
<1>s. ShutsDownWhatRan'
  BY NextShutsDownWhatRan
<1>1. CASE Start
  <2>1. starts' = starts + 1 /\ starts < MaxStarts
    BY <1>1 DEF Start
  <2>2. starts = 0 /\ starts' = 1
    BY <1>0, <2>1
  <2>3. UNCHANGED <<shutdown, resultsClosed>>
    BY <1>1 DEF Start, chans
  <2>n. ~(starts > 0) /\ starts' > 0
    BY <2>2
  <2>4. ~resultsClosed /\ \A c \in Callers : shutdown[c] \in {"idle", "nothing to do"}
    BY <2>n, Zenon DEF ShutsDownWhatRan, NobodyLeft
  <2>5. QED
    BY <1>s, <2>3, <2>4 DEF NobodyLeft
<1>2. CASE ~Start /\ \E c \in Callers : Shutdown(c)
  <2>1. PICK c \in Callers : Shutdown(c)
    BY <1>2
  <2>2. UNCHANGED <<starts, pc>> /\ (running' => running)
    BY <2>1 DEF Shutdown, ShutdownBegin, ShutdownCloseJobs, ShutdownWorkersDone, ShutdownTimeout,
         ShutdownFails, ShutdownCloseResults, Panic, control, worker
  <2>3. \E to : /\ shutdown' = [shutdown EXCEPT ![c] = to]
                /\ to = "closeResults" => Alive = {}
                /\ to # "nothing to do" => running \/ shutdown[c] \notin {"idle", "nothing to do"}
    BY <2>1 DEF Shutdown, ShutdownBegin, ShutdownCloseJobs, ShutdownWorkersDone, ShutdownTimeout,
         ShutdownFails, ShutdownCloseResults, ShutdownGoto
  <2>p. PICK to : /\ shutdown' = [shutdown EXCEPT ![c] = to]
                  /\ to = "closeResults" => Alive = {}
                  /\ to # "nothing to do" =>
                       running \/ shutdown[c] \notin {"idle", "nothing to do"}
    BY <2>3
  <2>4. to # "nothing to do" => starts > 0
    BY <2>p DEF ShutsDownWhatRan
  <2>5. resultsClosed' => resultsClosed \/ shutdown[c] = "closeResults"
    BY <2>1 DEF Shutdown, ShutdownBegin, ShutdownCloseJobs, ShutdownWorkersDone, ShutdownTimeout,
         ShutdownFails, ShutdownCloseResults, ShutdownGoto, chans
  <2>6. Alive' = Alive
    BY <2>2 DEF Alive
  <2>7. to = "closeResults" => starts > 0 /\ Alive = {}
    BY <2>p, <2>4
  <2>8. NobodyLeft'
    BY <1>0, <2>2, <2>p, <2>5, <2>6, <2>7 DEF NobodyLeft
  <2>9. QED
    BY <1>s, <2>8
<1>3. CASE ~Start /\ ~\E c \in Callers : Shutdown(c)
  <2>1. UNCHANGED <<starts, running, shutdown, resultsClosed>>
    BY <1>3 DEF Next, Submit, SubmitCheck, SubmitEnqueue, SubmitRefused, SubmitPanics,
       SubmitPriority, Receive, Work, TakeJob, WorkerStops, ExecuteJob, Classify, SendResult,
       Panic, chans, control
  <2>2. Alive = {} => Alive' = {}
    BY <1>3, DeadStayDead
  <2>3. QED
    BY <1>s, <2>1, <2>2 DEF NobodyLeft
<1>4. QED
  BY <1>1, <1>2, <1>3

\* In every reachable state of a pool that was started once.
LEMMA OneStart == ASSUME MaxStarts = 1 PROVE Spec => []CInv
<1>1. Init /\ TInv => CInv
  BY DEF Init, CInv, ShutsDownWhatRan, NobodyLeft
<1>2. TInv /\ TInv' /\ CInv /\ [Next]_vars => CInv'
  <2>1. CInv /\ TInv' /\ UNCHANGED vars => CInv'
    <3>1. UNCHANGED vars => UNCHANGED <<starts, running, shutdown, resultsClosed, pc>>
      BY DEF vars, chans, control, worker
    <3>2. UNCHANGED pc => Alive' = Alive
      BY DEF Alive
    <3>3. QED
      BY <3>1, <3>2 DEF CInv, ShutsDownWhatRan, NobodyLeft
  <2>2. QED
    BY <2>1, NextCInv
<1>3. QED
  BY <1>1, <1>2, TypeInvariance, PTL DEF Spec

\* No result is sent on a closed channel, or lost with it: Shutdown closes the
\* results of a pool that was started once after its last worker has gone.
THEOREM ClosedLast == ASSUME MaxStarts = 1 PROVE Spec => []ResultsClosedLast
<1>1. CInv => ResultsClosedLast
  BY DEF CInv, NobodyLeft, ResultsClosedLast
<1>2. QED
  BY <1>1, OneStart, PTL

-----------------------------------------------------------------------------
(* Why no accepted job is lost: it is in one place at a time, and goes from *)
(* there only to the next.                                                 *)

InChannel(j) == \E i \in DOMAIN jobs : jobs[i] = j
InHands(j) == \E g \in Goroutines : pc[g] = "execute" /\ job[g] = j

OnceInChannel == \A i, k \in DOMAIN jobs : jobs[i] = jobs[k] => i = k
OnceInHands ==
  \A g, h \in Goroutines : pc[g] = "execute" /\ pc[h] = "execute" /\ job[g] = job[h] => g = h
OnePlace ==
  \A j \in Jobs : /\ ~(InChannel(j) /\ InHands(j))
                  /\ ~(InChannel(j) /\ Executed(j))
                  /\ ~(InHands(j) /\ Executed(j))
AcceptedHasPlace ==
  \A j \in Jobs : submit[j] = "queued" <=> InChannel(j) \/ InHands(j) \/ Executed(j)
UnbornUntilStart == \A g \in Goroutines : g[2] > starts => pc[g] = "unborn"

JInv == OnceInChannel /\ OnceInHands /\ OnePlace /\ AcceptedHasPlace /\ UnbornUntilStart

\* Most steps move no job that is waiting or in hand.
LEMMA NoJobMoves ==
  ASSUME JInv, UNCHANGED <<jobs, outcome>>,
         \A g \in Goroutines : /\ pc'[g] = "execute" <=> pc[g] = "execute"
                               /\ pc[g] = "execute" => job'[g] = job[g],
         \A j \in Jobs : submit'[j] = "queued" <=> submit[j] = "queued",
         UnbornUntilStart'
  PROVE  JInv'
<1>1. \A j \in Jobs : /\ InChannel(j)' <=> InChannel(j)
                      /\ InHands(j)' <=> InHands(j)
                      /\ Executed(j)' <=> Executed(j)
  BY DEF InChannel, InHands, Executed
<1>2. OnceInChannel' /\ OnceInHands'
  BY DEF JInv, OnceInChannel, OnceInHands
<1>3. QED
  BY <1>1, <1>2 DEF JInv, OnePlace, AcceptedHasPlace

\* A job comes into the channel when Submit puts it there, from nowhere else.
LEMMA SubmitJInv ==
  ASSUME TInv, JInv, Submit
  PROVE  JInv'
<1>1. UNCHANGED <<pc, job, outcome, starts>>
  BY DEF Submit, SubmitCheck, SubmitEnqueue, SubmitRefused, SubmitPanics, SubmitPriority, Panic,
     worker, control
<1>2. UnbornUntilStart'
  BY <1>1 DEF JInv, UnbornUntilStart
<1>3. ASSUME NEW j \in Jobs, SubmitEnqueue(j) PROVE JInv'
  <2>1. jobs \in Seq(Jobs) /\ submit \in [AllJobs -> {"new", "checked", "queued", "refused"}]
    BY DEF TInv, ChannelTypes, PoolTypes
  <2>2. jobs' = Append(jobs, j) /\ submit[j] = "checked" /\ submit' = [submit EXCEPT ![j] = "queued"]
    BY <1>3 DEF SubmitEnqueue
  <2>3. ~InChannel(j) /\ ~InHands(j) /\ ~Executed(j)
    BY <2>2 DEF JInv, AcceptedHasPlace
  <2>4. /\ DOMAIN jobs' = DOMAIN jobs \cup {Len(jobs) + 1} /\ Len(jobs) + 1 \notin DOMAIN jobs
        /\ jobs'[Len(jobs) + 1] = j /\ \A i \in DOMAIN jobs : jobs'[i] = jobs[i]
    BY <2>1, <2>2
  <2>5. OnceInChannel'
    BY <2>3, <2>4 DEF JInv, OnceInChannel, InChannel
  <2>6. \A k \in Jobs : /\ InChannel(k)' <=> InChannel(k) \/ k = j
                        /\ InHands(k)' <=> InHands(k)
                        /\ Executed(k)' <=> Executed(k)
                        /\ submit'[k] = "queued" <=> submit[k] = "queued" \/ k = j
    BY <1>1, <2>1, <2>2, <2>4 DEF InChannel, InHands, Executed, AllJobs
  <2>7. OnceInHands'
    BY <1>1 DEF JInv, OnceInHands
  <2>8. OnePlace' /\ AcceptedHasPlace'
    BY <2>3, <2>6 DEF JInv, OnePlace, AcceptedHasPlace
  <2>9. QED
    BY <1>2, <2>5, <2>7, <2>8 DEF JInv
<1>4. CASE ~\E j \in Jobs : SubmitEnqueue(j)
  <2>1. jobs' = jobs
    BY <1>4 DEF Submit, SubmitCheck, SubmitRefused, SubmitPanics, SubmitPriority, chans
  <2>2. \A j \in Jobs : submit'[j] = "queued" <=> submit[j] = "queued"
    BY <1>4, PoolAssumption DEF Submit, SubmitCheck, SubmitRefused, SubmitPanics, SubmitPriority,
       TInv, PoolTypes, AllJobs
  <2>3. QED
    BY <1>1, <1>2, <2>1, <2>2, NoJobMoves
<1>5. QED
  BY <1>3, <1>4

\* It leaves the channel, from the head, for the hands of one worker.
LEMMA TakeJobJInv ==
  ASSUME TInv, JInv, NEW g \in Goroutines, TakeJob(g)
  PROVE  JInv'
<1>1. /\ jobs \in Seq(Jobs) /\ jobs # <<>>
      /\ pc \in [Goroutines -> {"unborn", "idle", "execute", "classify", "send", "stopped", "panicked"}]
      /\ job \in [Goroutines -> Jobs \cup {NoJob}]
  BY DEF TInv, ChannelTypes, WorkerTypes, TakeJob
<1>2. UNCHANGED <<outcome, starts, submit>> /\ pc[g] = "idle"
  BY DEF TakeJob, control
<1>3. PICK j \in Jobs : j = Head(jobs)
  BY <1>1
<1>4. /\ jobs' = Tail(jobs) /\ job' = [job EXCEPT ![g] = j] /\ pc' = [pc EXCEPT ![g] = "execute"]
  BY <1>3 DEF TakeJob
<1>5. /\ 1 \in DOMAIN jobs /\ jobs[1] = j
      /\ \A i \in DOMAIN jobs' : i + 1 \in DOMAIN jobs /\ i + 1 # 1 /\ jobs'[i] = jobs[i + 1]
      /\ \A i \in DOMAIN jobs : i # 1 => i - 1 \in DOMAIN jobs' /\ jobs'[i - 1] = jobs[i]
      /\ \A i \in DOMAIN jobs' : i \in Nat
  BY <1>1, <1>3, <1>4
<1>6. InChannel(j) /\ ~InHands(j) /\ ~Executed(j)
  BY <1>5 DEF JInv, OnePlace, InChannel
<1>7. OnceInChannel'
  BY <1>5 DEF JInv, OnceInChannel
<1>8. OnceInHands'
  BY <1>1, <1>4, <1>6 DEF JInv, OnceInHands, InHands
<1>9. \A k \in Jobs : /\ InChannel(k)' <=> InChannel(k) /\ k # j
                      /\ InHands(k)' <=> InHands(k) \/ k = j
                      /\ Executed(k)' <=> Executed(k)
  <2>1. ASSUME NEW k \in Jobs PROVE InChannel(k)' <=> InChannel(k) /\ k # j
    <3>1. InChannel(k)' => InChannel(k) /\ k # j
      BY <1>5 DEF JInv, OnceInChannel, InChannel
    <3>2. InChannel(k) /\ k # j => InChannel(k)'
      BY <1>5 DEF InChannel
    <3>3. QED
      BY <3>1, <3>2
  <2>2. ASSUME NEW k \in Jobs PROVE InHands(k)' <=> InHands(k) \/ k = j
    BY <1>1, <1>2, <1>4 DEF InHands
  <2>3. ASSUME NEW k \in Jobs PROVE Executed(k)' <=> Executed(k)
    BY <1>2 DEF Executed
  <2>4. QED
    BY <2>1, <2>2, <2>3
<1>10. OnePlace' /\ AcceptedHasPlace'
  BY <1>2, <1>6, <1>9 DEF JInv, OnePlace, AcceptedHasPlace
<1>11. UnbornUntilStart'
  BY <1>1, <1>2, <1>4 DEF JInv, UnbornUntilStart
<1>12. QED
  BY <1>7, <1>8, <1>10, <1>11 DEF JInv

\* It leaves the hands of its worker when it has been executed.
LEMMA ExecuteJobJInv ==
  ASSUME TInv, JInv, NEW g \in Goroutines, ExecuteJob(g)
  PROVE  JInv'
<1>1. /\ pc \in [Goroutines -> {"unborn", "idle", "execute", "classify", "send", "stopped", "panicked"}]
      /\ outcome \in [AllJobs -> {"pending"} \cup Outcomes] /\ job[g] \in Jobs
  BY DEF TInv, WorkerTypes, PoolTypes, WorkersHaveJobs, ExecuteJob
<1>2. /\ UNCHANGED <<jobs, job, starts, submit>> /\ pc[g] = "execute"
      /\ pc' = [pc EXCEPT ![g] = "classify"]
      /\ \E o \in Outcomes : outcome' = [outcome EXCEPT ![job[g]] = o]
  BY DEF ExecuteJob, chans, control
<1>3. PICK j \in Jobs : j = job[g]
  BY <1>1
<1>4. InHands(j)
  BY <1>2, <1>3 DEF InHands
<1>5. \A k \in Jobs : /\ InChannel(k)' <=> InChannel(k)
                      /\ InHands(k)' <=> InHands(k) /\ k # j
                      /\ Executed(k)' <=> Executed(k) \/ k = j
  <2>1. ASSUME NEW k \in Jobs PROVE InChannel(k)' <=> InChannel(k)
    BY <1>2 DEF InChannel
  <2>2. ASSUME NEW k \in Jobs PROVE InHands(k)' <=> InHands(k) /\ k # j
    BY <1>1, <1>2, <1>3 DEF InHands, JInv, OnceInHands
  <2>3. ASSUME NEW k \in Jobs PROVE Executed(k)' <=> Executed(k) \/ k = j
    BY <1>1, <1>2, <1>3, PoolAssumption DEF Executed, AllJobs
  <2>4. QED
    BY <2>1, <2>2, <2>3
<1>6. OnceInChannel' /\ OnceInHands' /\ UnbornUntilStart'
  BY <1>1, <1>2 DEF JInv, OnceInChannel, OnceInHands, UnbornUntilStart
<1>7. OnePlace' /\ AcceptedHasPlace'
  BY <1>2, <1>4, <1>5 DEF JInv, OnePlace, AcceptedHasPlace
<1>8. QED
  BY <1>6, <1>7 DEF JInv

\* No other step moves a job; a Start gives work to none that has some.
LEMMA NextJInv ==
  ASSUME TInv, JInv, [Next]_vars
  PROVE  JInv'
<1>t. /\ pc \in [Goroutines -> {"unborn", "idle", "execute", "classify", "send", "stopped", "panicked"}]
      /\ job \in [Goroutines -> Jobs \cup {NoJob}] /\ starts \in Nat
  BY DEF TInv, WorkerTypes, PoolTypes
<1>1. ASSUME NEW g \in Goroutines, WorkerStops(g) \/ Classify(g) \/ SendResult(g) PROVE JInv'
  <2>1. UNCHANGED <<jobs, outcome, starts, submit>>
    BY <1>1 DEF WorkerStops, Classify, SendResult, chans, control
  <2>2. \A h \in Goroutines : /\ pc'[h] = "execute" <=> pc[h] = "execute"
                              /\ pc[h] = "execute" => job'[h] = job[h]
                              /\ pc[h] = "unborn" => pc'[h] = "unborn"
    BY <1>t, <1>1 DEF WorkerStops, Classify, SendResult
  <2>3. UnbornUntilStart'
    BY <2>1, <2>2 DEF JInv, UnbornUntilStart
  <2>4. QED
    BY <2>1, <2>2, <2>3, NoJobMoves
<1>2. CASE Start
  <2>1. UNCHANGED <<jobs, outcome, job, submit>> /\ starts' = starts + 1
        /\ pc' = [g \in Goroutines |-> IF g[2] = starts + 1 THEN "idle" ELSE pc[g]]
    BY <1>2 DEF Start, chans
  <2>2. \A g \in Goroutines : g[2] \in Nat
    BY DEF Goroutines
  <2>3. \A g \in Goroutines : /\ pc'[g] = "execute" <=> pc[g] = "execute"
                              /\ pc[g] = "execute" => job'[g] = job[g]
    BY <1>t, <2>1, <2>2 DEF JInv, UnbornUntilStart
  <2>4. UnbornUntilStart'
    BY <1>t, <2>1, <2>2 DEF JInv, UnbornUntilStart
  <2>5. QED
    BY <2>1, <2>3, <2>4, NoJobMoves
<1>3. CASE Receive \/ UNCHANGED vars \/ \E c \in Callers : Shutdown(c)
  <2>1. UNCHANGED <<jobs, outcome, pc, job, submit, starts>>
    BY <1>3 DEF Receive, vars, chans, worker, control, Shutdown, ShutdownBegin, ShutdownCloseJobs,
       ShutdownWorkersDone, ShutdownTimeout, ShutdownFails, ShutdownCloseResults, Panic
  <2>2. UnbornUntilStart'
    BY <2>1 DEF JInv, UnbornUntilStart
  <2>3. QED
    BY <2>1, <2>2, NoJobMoves
<1>4. QED
  BY <1>1, <1>2, <1>3, SubmitJInv, TakeJobJInv, ExecuteJobJInv DEF Next, Work

\* So every accepted job has its one place in every reachable state.
LEMMA JobsInvariance == Spec => []JInv
<1>1. Init => JInv
  BY DEF Init, JInv, OnceInChannel, OnceInHands, OnePlace, AcceptedHasPlace, UnbornUntilStart,
     InChannel, InHands, Executed, AllJobs
<1>2. QED
  BY <1>1, NextJInv, TypeInvariance, PTL DEF Spec

\* A job that Submit accepted is waiting, in one pair of hands or executed, however
\* Submit races with Shutdown and workers with one another.
THEOREM AcceptedAreTracked == Spec => []AcceptedJobsAreTracked
<1>1. ASSUME JInv PROVE AcceptedJobsAreTracked
  <2> SUFFICES ASSUME NEW j \in Jobs, submit[j] = "queued"
               PROVE 1 = Cardinality({i \in DOMAIN jobs : jobs[i] = j})
                         + Cardinality({g \in Goroutines : pc[g] = "execute" /\ job[g] = j})
                         + (IF Executed(j) THEN 1 ELSE 0)
    BY DEF AcceptedJobsAreTracked
  <2> DEFINE waiting == {i \in DOMAIN jobs : jobs[i] = j}
             held == {g \in Goroutines : pc[g] = "execute" /\ job[g] = j}
  <2>1. IF InChannel(j) THEN \E i : waiting = {i} ELSE waiting = {}
    BY <1>1 DEF JInv, OnceInChannel, InChannel
  <2>2. IF InHands(j) THEN \E g : held = {g} ELSE held = {}
    BY <1>1 DEF JInv, OnceInHands, InHands
  <2>3. Cardinality(waiting) = IF InChannel(j) THEN 1 ELSE 0
    BY <2>1, FS_Singleton, FS_EmptySet
  <2>4. Cardinality(held) = IF InHands(j) THEN 1 ELSE 0
    BY <2>2, FS_Singleton, FS_EmptySet
  <2> HIDE DEF waiting, held
  <2>5. 1 = Cardinality(waiting) + Cardinality(held) + (IF Executed(j) THEN 1 ELSE 0)
    BY <1>1, <2>3, <2>4 DEF JInv, OnePlace, AcceptedHasPlace
  <2>6. QED
    BY <2>5 DEF waiting, held
<1>2. QED
  BY <1>1, JobsInvariance, PTL

-----------------------------------------------------------------------------
(* Why a graceful shutdown leaves no accepted job, however often the pool   *)
(* is started again.  A worker that stops when nothing was cancelled has    *)
(* found the channel closed and empty, and it stays so; and when a Shutdown *)
(* has waited for the workers, those of the first Start have all stopped or *)
(* panicked.                                                                *)

Stopping(c) == shutdown[c] \in {"wait", "forced", "closeResults", "done", "failed"}
PastWait(c) == shutdown[c] \in {"closeResults", "done"}

Drained == \A j \in Jobs : submit[j] = "queued" => Executed(j)
AllPanicked == \A w \in Workers : pc[<<w, 1>>] = "panicked"

StoppedOnEmpty ==
  (\E g \in Goroutines : pc[g] = "stopped") /\ ~ctxDone => jobsClosed /\ jobs = <<>>
BornByStart == \A g \in Goroutines : g[2] <= starts => pc[g] # "unborn"
ClosedByShutdown == \A c \in Callers : Stopping(c) => jobsClosed
NothingIsLeft == (\E c \in Callers : PastWait(c)) => ctxDone \/ Drained \/ AllPanicked

DInv == StoppedOnEmpty /\ BornByStart
GInv ==
  /\ TInv /\ JInv /\ DInv
  /\ ShutsDownWhatRan /\ ClosedByShutdown /\ starts <= MaxStarts /\ NothingIsLeft

\* Once it was closed nothing is put in the channel; a Start gives birth to all its workers.
LEMMA NextDInv ==
  ASSUME TInv, DInv, [Next]_vars
  PROVE  DInv'
<1>t. pc \in [Goroutines -> {"unborn", "idle", "execute", "classify", "send", "stopped", "panicked"}]
  BY DEF TInv, WorkerTypes
<1>1. StoppedOnEmpty'
  <2>1. CASE Submit
    BY <2>1 DEF Submit, SubmitCheck, SubmitEnqueue, SubmitRefused, SubmitPanics, SubmitPriority,
       Panic, worker, control, chans, DInv, StoppedOnEmpty
  <2>2. CASE Start
    BY <2>2, <1>t DEF Start, chans, DInv, StoppedOnEmpty
  <2>3. CASE Receive \/ UNCHANGED vars
    BY <2>3 DEF Receive, vars, worker, control, chans, DInv, StoppedOnEmpty
  <2>4. ASSUME NEW g \in Goroutines, Work(g) PROVE StoppedOnEmpty'
    <3>1. UNCHANGED <<ctxDone, jobsClosed>> /\ (jobs = <<>> => jobs' = <<>>)
      BY <2>4 DEF Work, TakeJob, WorkerStops, ExecuteJob, Classify, SendResult, control, chans
    <3>2. CASE WorkerStops(g)
      BY <1>t, <3>1, <3>2 DEF WorkerStops, chans, control, DInv, StoppedOnEmpty
    <3>3. CASE ~WorkerStops(g)
      <4>1. \A h \in Goroutines : pc'[h] = "stopped" => pc[h] = "stopped"
        BY <1>t, <2>4, <3>3 DEF Work, TakeJob, ExecuteJob, Classify, SendResult
      <4>2. QED
        BY <3>1, <4>1 DEF DInv, StoppedOnEmpty
    <3>4. QED
      BY <3>2, <3>3
  <2>5. ASSUME NEW c \in Callers, Shutdown(c) PROVE StoppedOnEmpty'
    BY <2>5 DEF Shutdown, ShutdownBegin, ShutdownCloseJobs, ShutdownWorkersDone, ShutdownTimeout,
       ShutdownFails, ShutdownCloseResults, Panic, worker, control, chans, DInv, StoppedOnEmpty
  <2>6. QED
    BY <2>1, <2>2, <2>3, <2>4, <2>5 DEF Next
<1>2. BornByStart'
  <2>1. CASE Start
    <3>1. starts' = starts + 1 /\ starts \in Nat
          /\ pc' = [g \in Goroutines |-> IF g[2] = starts + 1 THEN "idle" ELSE pc[g]]
      BY <2>1 DEF Start, TInv, PoolTypes
    <3>2. \A g \in Goroutines : g[2] \in Nat
      BY DEF Goroutines
    <3>3. QED
      BY <3>1, <3>2 DEF DInv, BornByStart
  <2>2. CASE ~Start
    <3>1. starts' = starts /\ \A g \in Goroutines : pc'[g] = "unborn" => pc[g] = "unborn"
      BY <1>t, <2>2 DEF Next, Submit, SubmitCheck, SubmitEnqueue, SubmitRefused, SubmitPanics,
         SubmitPriority, Receive, Work, TakeJob, WorkerStops, ExecuteJob, Classify, SendResult,
         Shutdown, ShutdownBegin, ShutdownCloseJobs, ShutdownWorkersDone, ShutdownTimeout,
         ShutdownFails, ShutdownCloseResults, Panic, vars, worker, control
    <3>2. QED
      BY <3>1 DEF DInv, BornByStart
  <2>3. QED
    BY <2>1, <2>2
<1>3. QED
  BY <1>1, <1>2 DEF DInv

\* Only Shutdown moves its callers, and it closes the jobs before it waits.
LEMMA NextClosedByShutdown == TInv /\ ClosedByShutdown /\ [Next]_vars => ClosedByShutdown'
<1> SUFFICES ASSUME TInv, ClosedByShutdown, [Next]_vars PROVE ClosedByShutdown'
  OBVIOUS
<1>1. shutdown = [c \in Callers |-> shutdown[c]]
  BY DEF TInv, PoolTypes
<1>2. ASSUME NEW c \in Callers, Shutdown(c) PROVE ClosedByShutdown'
  <2>1. CASE ShutdownCloseJobs(c)
    <3>1. jobsClosed'
      BY <2>1 DEF ShutdownCloseJobs
    <3>2. QED
      BY <3>1 DEF ClosedByShutdown
  <2>2. CASE ~ShutdownCloseJobs(c)
    <3>1. /\ jobsClosed' = jobsClosed
          /\ \A d \in Callers : Stopping(d)' => Stopping(d)
      BY <1>1, <1>2, <2>2 DEF Shutdown, ShutdownBegin, ShutdownWorkersDone, ShutdownTimeout,
         ShutdownFails, ShutdownCloseResults, ShutdownGoto, chans, Stopping
    <3>2. QED
      BY <3>1 DEF ClosedByShutdown
  <2>3. QED
    BY <2>1, <2>2
<1>3. CASE ~\E c \in Callers : Shutdown(c)
  <2>1. shutdown' = shutdown /\ jobsClosed' = jobsClosed
    BY <1>3 DEF Next, Start, Submit, SubmitCheck, SubmitEnqueue, SubmitRefused, SubmitPanics,
       SubmitPriority, Receive, Work, TakeJob, WorkerStops, ExecuteJob, Classify, SendResult,
       chans, vars
  <2>2. QED
    BY <2>1 DEF ClosedByShutdown, Stopping
<1>4. QED
  BY <1>2, <1>3

\* After the channel was closed no job is accepted, those executed stay so, and the
\* workers of the first Start that a panic has ended do not come back.
LEMMA NothingComesAfter ==
  ASSUME TInv, [Next]_vars, jobsClosed
  PROVE  /\ Drained => Drained'
         /\ AllPanicked /\ 0 < starts /\ starts <= MaxStarts => AllPanicked'
<1>1. /\ pc \in [Goroutines -> {"unborn", "idle", "execute", "classify", "send", "stopped", "panicked"}]
      /\ submit = [j \in AllJobs |-> submit[j]] /\ outcome = [j \in AllJobs |-> outcome[j]]
      /\ Jobs \cap UrgentJobs = {} /\ "pending" \notin Outcomes
  BY PoolAssumption DEF TInv, WorkerTypes, PoolTypes
<1>2. \A j \in Jobs : Executed(j) => Executed(j)'
  <2>1. CASE \E g \in Goroutines : ExecuteJob(g)
    BY <1>1, <2>1 DEF ExecuteJob, Executed
  <2>2. CASE ~\E g \in Goroutines : ExecuteJob(g)
    <3>1. outcome' = outcome
      BY <2>2 DEF Next, Start, Submit, SubmitCheck, SubmitEnqueue, SubmitRefused, SubmitPanics,
         SubmitPriority, Receive, Work, TakeJob, WorkerStops, Classify, SendResult, Shutdown, ShutdownBegin,
         ShutdownCloseJobs, ShutdownWorkersDone, ShutdownTimeout, ShutdownFails, ShutdownCloseResults, vars
    <3>2. QED
      BY <3>1 DEF Executed
  <2>3. QED
    BY <2>1, <2>2
<1>3. \A j \in Jobs : submit'[j] = "queued" => submit[j] = "queued"
  <2>1. CASE Submit
    BY <1>1, <2>1 DEF Submit, SubmitCheck, SubmitEnqueue, SubmitRefused, SubmitPanics, SubmitPriority, AllJobs
  <2>2. CASE ~Submit
    <3>1. submit' = submit
      BY <2>2 DEF Next, Start, Receive, Work, TakeJob, WorkerStops, ExecuteJob, Classify, SendResult, Shutdown,
         ShutdownBegin, ShutdownCloseJobs, ShutdownWorkersDone, ShutdownTimeout, ShutdownFails,
         ShutdownCloseResults, vars
    <3>2. QED
      BY <3>1
  <2>3. QED
    BY <2>1, <2>2
<1>4. ASSUME NEW g \in Goroutines, pc[g] = "panicked", g[2] # starts + 1 PROVE pc'[g] = "panicked"
  <2>1. CASE Start
    BY <1>4, <2>1 DEF Start
  <2>2. CASE \E h \in Goroutines : Work(h)
    BY <1>1, <1>4, <2>2 DEF Work, TakeJob, WorkerStops, ExecuteJob, Classify, SendResult
  <2>3. CASE ~Start /\ ~\E h \in Goroutines : Work(h)
    <3>1. pc' = pc
      BY <2>3 DEF Next, Submit, SubmitCheck, SubmitEnqueue, SubmitRefused, SubmitPanics, SubmitPriority, Receive,
         Shutdown, ShutdownBegin, ShutdownCloseJobs, ShutdownWorkersDone, ShutdownTimeout, ShutdownFails,
         ShutdownCloseResults, vars, worker
    <3>2. QED
      BY <1>4, <3>1
  <2>4. QED
    BY <2>1, <2>2, <2>3
<1>5. Drained => Drained'
  BY <1>2, <1>3 DEF Drained
<1>6. ASSUME AllPanicked, 0 < starts, starts <= MaxStarts PROVE AllPanicked'
  <2>1. starts \in Nat /\ MaxStarts \in Nat
    BY PoolAssumption DEF TInv, PoolTypes
  <2>2. starts + 1 # 1 /\ 1 \in 1 .. MaxStarts
    BY <1>6, <2>1
  <2>3. \A w \in Workers : <<w, 1>> \in Goroutines /\ <<w, 1>>[2] = 1
    BY <2>2 DEF Goroutines
  <2>4. QED
    BY <1>4, <1>6, <2>2, <2>3 DEF AllPanicked
<1>7. QED
  BY <1>5, <1>6

\* When the last worker has gone, all that were started have stopped or panicked.
LEMMA WorkersDoneLeavesNothing ==
  ASSUME GInv, NEW c \in Callers, ShutdownWorkersDone(c), ~ctxDone
  PROVE  Drained \/ AllPanicked
<1>1. /\ Alive = {} /\ shutdown[c] \in {"wait", "forced"}
      /\ starts \in Nat /\ MaxStarts \in Nat /\ starts <= MaxStarts
  BY PoolAssumption DEF ShutdownWorkersDone, ShutdownGoto, GInv, TInv, PoolTypes
<1>2. starts > 0
  BY <1>1 DEF GInv, ShutsDownWhatRan
<1>3. \A g \in Goroutines : g[2] <= starts => pc[g] \in {"stopped", "panicked"}
  BY <1>1 DEF Alive, GInv, DInv, BornByStart
<1>4. CASE \E g \in Goroutines : pc[g] = "stopped"
  <2>1. jobs = <<>>
    BY <1>4 DEF GInv, DInv, StoppedOnEmpty
  <2>2. \A g \in Goroutines : pc[g] # "execute"
    BY <1>1 DEF Alive
  <2>3. \A j \in Jobs : ~InChannel(j) /\ ~InHands(j)
    BY <2>1, <2>2 DEF InChannel, InHands
  <2>4. QED
    BY <2>3 DEF GInv, JInv, AcceptedHasPlace, Drained
<1>5. CASE ~\E g \in Goroutines : pc[g] = "stopped"
  <2>1. 1 \in 1 .. MaxStarts /\ 1 <= starts
    BY <1>1, <1>2
  <2>2. \A w \in Workers : <<w, 1>> \in Goroutines /\ <<w, 1>>[2] <= starts
    BY <2>1 DEF Goroutines
  <2>3. QED
    BY <1>3, <1>5, <2>2 DEF AllPanicked
<1>6. QED
  BY <1>4, <1>5

\* A Shutdown comes past its wait by WorkersDone only; and nothing comes after.
LEMMA NextNothingIsLeft ==
  ASSUME GInv, [Next]_vars PROVE NothingIsLeft'
<1>1. shutdown = [c \in Callers |-> shutdown[c]]
  BY DEF GInv, TInv, PoolTypes
<1>2. ctxDone => ctxDone'
  BY DEF Next, Start, Submit, SubmitCheck, SubmitEnqueue, SubmitRefused, SubmitPanics, SubmitPriority, Receive,
     Work, TakeJob, WorkerStops, ExecuteJob, Classify, SendResult, Shutdown, ShutdownBegin, ShutdownCloseJobs,
     ShutdownWorkersDone, ShutdownTimeout, ShutdownFails, ShutdownCloseResults, Panic, vars, control
<1>3. CASE \E c \in Callers : PastWait(c)
  <2>1. PICK c \in Callers : PastWait(c)
    BY <1>3
  <2>2. jobsClosed /\ 0 < starts /\ (ctxDone \/ Drained \/ AllPanicked)
    BY <2>1 DEF GInv, ClosedByShutdown, ShutsDownWhatRan, NothingIsLeft, PastWait, Stopping
  <2>3. QED
    BY <1>2, <2>2, NothingComesAfter DEF GInv, NothingIsLeft
<1>4. ASSUME NEW c \in Callers, ShutdownWorkersDone(c) PROVE NothingIsLeft'
  <2>1. Drained' = Drained /\ AllPanicked' = AllPanicked
    BY <1>4 DEF ShutdownWorkersDone, Drained, AllPanicked, Executed, worker
  <2>2. QED
    BY <1>2, <1>4, <2>1, WorkersDoneLeavesNothing DEF NothingIsLeft
<1>5. CASE ~(\E c \in Callers : PastWait(c)) /\ ~\E c \in Callers : ShutdownWorkersDone(c)
  <2>1. \A c \in Callers : ~PastWait(c)'
    BY <1>1, <1>5 DEF PastWait, Next, Start, Submit, SubmitCheck, SubmitEnqueue, SubmitRefused, SubmitPanics,
       SubmitPriority, Receive, Work, TakeJob, WorkerStops, ExecuteJob, Classify, SendResult, Shutdown,
       ShutdownBegin, ShutdownCloseJobs, ShutdownTimeout, ShutdownFails, ShutdownCloseResults, ShutdownGoto, vars
  <2>2. QED
    BY <2>1 DEF NothingIsLeft
<1>6. QED
  BY <1>3, <1>4, <1>5

\* So it is in every reachable state.
LEMMA GracefulInvariance == Spec => []GInv
<1>1. Init /\ TInv /\ JInv => GInv
  BY PoolAssumption DEF Init, GInv, DInv, StoppedOnEmpty, BornByStart, Goroutines,
     ShutsDownWhatRan, ClosedByShutdown, NothingIsLeft, Stopping, PastWait
<1>2. GInv /\ [Next]_vars => (starts <= MaxStarts)'
  <2> SUFFICES ASSUME GInv, [Next]_vars PROVE starts' <= MaxStarts
    OBVIOUS
  <2>1. starts \in Nat /\ MaxStarts \in Nat /\ starts <= MaxStarts
    BY PoolAssumption DEF GInv, TInv, PoolTypes
  <2>2. starts' = starts \/ (starts' = starts + 1 /\ starts < MaxStarts)
    BY DEF Next, Start, Submit, SubmitCheck, SubmitEnqueue, SubmitRefused, SubmitPanics, SubmitPriority, Receive,
       Work, TakeJob, WorkerStops, ExecuteJob, Classify, SendResult, Shutdown, ShutdownBegin, ShutdownCloseJobs,
       ShutdownWorkersDone, ShutdownTimeout, ShutdownFails, ShutdownCloseResults, Panic, vars, control
  <2>3. QED
    BY <2>1, <2>2
<1>3. GInv /\ [Next]_vars /\ TInv' /\ JInv' => GInv'
  BY <1>2, NextDInv, NextShutsDownWhatRan, NextClosedByShutdown, NextNothingIsLeft DEF GInv
<1>4. QED
  BY <1>1, <1>3, JobsInvariance, TypeInvariance, PTL DEF Spec

\* When Shutdown returns without having had to cancel, every job that was accepted
\* was executed, or nil Results have killed all the workers: with any number of
\* workers, callers and Starts.
THEOREM GracefulDrains == Spec => []GracefulShutdownDrains
<1>1. GInv => GracefulShutdownDrains
  BY DEF GInv, NothingIsLeft, PastWait, GracefulShutdownDrains, Drained, AllPanicked
<1>2. QED
  BY <1>1, GracefulInvariance, PTL
=============================================================================
