----------------------------- MODULE ScalingEngine -----------------------------
(***************************************************************************)
(* A progressive scaling test as stormdb runs it: ScalingEngine.Execute    *)
(* and executeBand of internal/progressive/engine.go in a goroutine, the   *)
(* goroutine of the workload of each band, and run() of cmd/stormdb, which *)
(* waits for the result, an error or a signal.  Rates and latencies are    *)
(* left out: a band is recorded by its number.                             *)
(***************************************************************************)
EXTENDS Integers, Sequences

CONSTANTS
  MaxBands,      \* bound: the most bands a scaling sequence has
  NumSamples,    \* bandDuration / sampleInterval
  Connections,   \* of the pool of a band
  OwnConnections \* bound: connections the workload of a band opens itself, at a time

ASSUME EngineAssumption ==
  /\ MaxBands \in Nat \ {0}
  /\ NumSamples \in Nat
  /\ Connections \in Nat \ {0}
  /\ OwnConnections \in Nat

VARIABLES
  numBands,      \* len(scalingSequence)
  hasWarmup,     \* warmupTime > 0
  band, pc,      \* where Execute is
  samples,       \* len(samples) of the band
  bandErr,       \* what executeBand is about to return: TRUE for an error
  taken,         \* the value of workloadErr has been received
  results,       \* e.results.Bands
  run,           \* how far workload.Run of each band has come
  inFlight,      \* queries each band has in the database on connections of its pool
  ownInFlight,   \* and on connections its workload has opened itself
  timedOut,      \* bands whose bandCtx got to its deadline before executeBand returned
  failedEarly,   \* history: bands whose workload failed before their samples were complete
  signal,        \* a signal is in sigChan
  cancelled,     \* ctx of Execute is cancelled
  execution,     \* what is in resultChan or errChan
  reported,      \* generateProgressiveReport has printed the report
  main           \* where run() of cmd/stormdb is, or how it returned

bandVars == <<samples, bandErr, taken>>
queries  == <<inFlight, ownInFlight>>
runVars  == <<run, queries, failedEarly>>
mainVars == <<signal, cancelled, main>>
vars == <<numBands, hasWarmup, band, pc, bandVars, results, timedOut, runVars,
          mainVars, execution, reported>>

\* Once run() has returned the process exits and nothing moves any more.
Alive == main \in {"waiting", "cancelling"}

Init ==
  /\ numBands \in 1 .. MaxBands
  /\ hasWarmup \in BOOLEAN
  /\ band = 1 /\ pc = "connect"
  /\ samples = 0 /\ bandErr = FALSE /\ taken = FALSE
  /\ results = <<>>
  /\ run = [b \in 1 .. MaxBands |-> "none"]
  /\ inFlight = [b \in 1 .. MaxBands |-> 0]
  /\ ownInFlight = [b \in 1 .. MaxBands |-> 0]
  /\ timedOut = {}
  /\ failedEarly = {}
  /\ signal = FALSE /\ cancelled = FALSE
  /\ execution = "none"
  /\ reported = FALSE
  /\ main = "waiting"

-----------------------------------------------------------------------------
(* executeBand                                                             *)

\* From here on executeBand runs its deferred calls.
Leave(err) == pc' = "closing" /\ bandErr' = err

At(point) == Alive /\ pc = point

Measured == pc \in {"warmup", "sampling", "finalWait"}

\* bandCtx is done: its parent is cancelled, or its own deadline, 10 seconds after the
\* warm-up and the run, has passed.
BandOver == cancelled \/ band \in timedOut

\* Sleeps and goroutines can take longer than they should.
DeadlinePasses ==
  /\ Alive /\ Measured
  /\ band \notin timedOut
  /\ timedOut' = timedOut \cup {band}
  /\ UNCHANGED <<numBands, hasWarmup, band, pc, bandVars, results, runVars, mainVars,
                 execution, reported>>

\* The pool connects and the workload starts on it; Ping fails on a cancelled
\* ctx and may fail on any other.
Connect ==
  /\ At("connect")
  /\ \/ /\ ~cancelled
        /\ pc' = IF hasWarmup THEN "warmup" ELSE "sampling"
        /\ run' = [run EXCEPT ![band] = "running"]
        /\ samples' = 0 /\ taken' = FALSE
        /\ UNCHANGED bandErr
     \/ Leave(TRUE) /\ UNCHANGED <<run, samples, taken>>
  /\ UNCHANGED <<numBands, hasWarmup, band, results, timedOut, queries, failedEarly, mainVars,
                 execution, reported>>

\* workloadErr has a value nobody has received.
Ready == run[band] \in {"ok", "failed"} /\ ~taken

\* The select of the warm-up: time is up, the workload is done, or bandCtx is.
Warmup ==
  /\ At("warmup")
  /\ \/ pc' = "sampling" /\ UNCHANGED <<bandErr, taken>>
     \/ /\ Ready
        /\ taken' = TRUE
        /\ \/ run[band] = "failed" /\ Leave(TRUE)
           \/ run[band] = "ok" /\ pc' = "finalWait" /\ UNCHANGED bandErr
     \/ BandOver /\ Leave(TRUE) /\ UNCHANGED taken
  /\ UNCHANGED <<numBands, hasWarmup, band, samples, results, timedOut, runVars, mainVars,
                 execution, reported>>

\* One round of collectRunPhaseMetrics: sleep, look at runCtx, take a sample.
Sample ==
  /\ At("sampling")
  /\ samples < NumSamples /\ ~BandOver
  /\ samples' = samples + 1
  /\ UNCHANGED <<numBands, hasWarmup, band, pc, bandErr, taken, results, timedOut, runVars, mainVars,
                 execution, reported>>

\* It ends with the last sample, when bandCtx is done, or, the sleeps and the
\* sorting having added up, after the deadline of runCtx.
SamplingEnds ==
  /\ At("sampling")
  /\ samples = NumSamples \/ BandOver \/ samples > 0
  /\ pc' = "finalWait"
  /\ UNCHANGED <<numBands, hasWarmup, band, bandVars, results, timedOut, runVars, mainVars,
                 execution, reported>>

\* Plausible mistake: the error of the workload is received and ignored.
FinalWaitIgnoresError ==
  /\ At("finalWait")
  /\ \/ Ready /\ taken' = TRUE /\ Leave(FALSE)
     \/ (~Ready \/ BandOver) /\ Leave(FALSE) /\ UNCHANGED taken
  /\ UNCHANGED <<numBands, hasWarmup, band, samples, results, timedOut, runVars, mainVars,
                 execution, reported>>

\* The last select: an error of the workload fails the band; 5 seconds without
\* a word from it, or the end of bandCtx, which may be chosen before the error, do not.
FinalWait ==
  /\ At("finalWait")
  /\ \/ Ready /\ taken' = TRUE /\ Leave(run[band] = "failed")
     \/ (~Ready \/ BandOver) /\ Leave(FALSE) /\ UNCHANGED taken
  /\ UNCHANGED <<numBands, hasWarmup, band, samples, results, timedOut, runVars, mainVars,
                 execution, reported>>

-----------------------------------------------------------------------------
(* Execute                                                                 *)

\* How Execute ends: what it sends to the channel of run().
Fail == pc' = "returned" /\ execution' = "error" /\ UNCHANGED reported

\* Plausible mistake: the pool is closed in a goroutine of its own.
CloseBandInBackground ==
  /\ At("closing")
  /\ \/ bandErr /\ Fail /\ UNCHANGED results
     \/ /\ ~bandErr
        /\ results' = Append(results, band)
        /\ pc' = "next"
        /\ UNCHANGED <<execution, reported>>
  /\ UNCHANGED <<numBands, hasWarmup, band, bandVars, timedOut, runVars, mainVars>>

\* The deferred cancel of bandCtx and Close of the band's pool, which returns
\* when every connection is back; then the band is stored and the engine cools down.
CloseBand ==
  /\ At("closing")
  /\ inFlight[band] = 0
  /\ \/ bandErr /\ Fail /\ UNCHANGED results
     \/ /\ ~bandErr
        /\ results' = Append(results, band)
        /\ pc' = "next"
        /\ UNCHANGED <<execution, reported>>
  /\ UNCHANGED <<numBands, hasWarmup, band, bandVars, timedOut, runVars, mainVars>>

\* finalizeResults: the analysis refuses fewer than two bands.
Finalize ==
  \/ Len(results) < 2 /\ Fail
  \/ /\ Len(results) >= 2
     /\ reported' = TRUE /\ execution' = "result" /\ pc' = "returned"

NextBand ==
  /\ At("next")
  /\ \/ /\ cancelled \/ band = numBands
        /\ Finalize /\ UNCHANGED band
     \/ /\ ~cancelled /\ band < numBands
        /\ band' = band + 1 /\ pc' = "connect"
        /\ UNCHANGED <<execution, reported>>
  /\ UNCHANGED <<numBands, hasWarmup, bandVars, results, timedOut, runVars, mainVars>>

-----------------------------------------------------------------------------
(* The workload of a band, external: it issues queries while bandCtx       *)
(* lasts, on the pool of the band and, the connection plugin, on           *)
(* connections of its own, and returns when it likes.                      *)

Unmoved == UNCHANGED <<numBands, hasWarmup, band, pc, bandVars, results, timedOut, execution, reported>>

MayQuery(b) == run[b] = "running" /\ b = band /\ Measured /\ ~BandOver

Query(b) ==
  /\ Alive
  /\ MayQuery(b)
  /\ inFlight[b] < Connections
  /\ inFlight' = [inFlight EXCEPT ![b] = @ + 1]
  /\ Unmoved /\ UNCHANGED <<run, ownInFlight, failedEarly, mainVars>>

QueryEnds(b) ==
  /\ Alive
  /\ inFlight[b] > 0
  /\ inFlight' = [inFlight EXCEPT ![b] = @ - 1]
  /\ Unmoved /\ UNCHANGED <<run, ownInFlight, failedEarly, mainVars>>

\* pgx.Connect and a query on the connection, which no pool knows of.
OwnQuery(b) ==
  /\ Alive
  /\ MayQuery(b)
  /\ ownInFlight[b] < OwnConnections
  /\ ownInFlight' = [ownInFlight EXCEPT ![b] = @ + 1]
  /\ Unmoved /\ UNCHANGED <<run, inFlight, failedEarly, mainVars>>

OwnQueryEnds(b) ==
  /\ Alive
  /\ ownInFlight[b] > 0
  /\ ownInFlight' = [ownInFlight EXCEPT ![b] = @ - 1]
  /\ Unmoved /\ UNCHANGED <<run, inFlight, failedEarly, mainVars>>

RunEnds(b) ==
  /\ Alive
  /\ run[b] = "running" /\ inFlight[b] = 0 /\ ownInFlight[b] = 0
  /\ \E how \in {"ok", "failed"} :
       /\ run' = [run EXCEPT ![b] = how]
       /\ failedEarly' = IF how = "failed" /\ b = band /\ pc \in {"warmup", "sampling"}
                         THEN failedEarly \cup {b} ELSE failedEarly
  /\ Unmoved /\ UNCHANGED <<queries, mainVars>>

-----------------------------------------------------------------------------
(* run() of cmd/stormdb                                                    *)

SignalArrives ==
  /\ Alive /\ ~signal
  /\ signal' = TRUE
  /\ Unmoved /\ UNCHANGED <<runVars, cancelled, main>>

\* The select of run(): several channels may be ready.
MainSelect ==
  /\ main = "waiting"
  /\ \/ execution = "result" /\ main' = "success" /\ UNCHANGED cancelled
     \/ execution = "error" /\ main' = "failed" /\ UNCHANGED cancelled
     \/ signal /\ main' = "cancelling" /\ cancelled' = TRUE
  /\ Unmoved /\ UNCHANGED <<runVars, signal>>

\* Plausible mistake: a result that still arrives is taken for a complete one.
MainCancellingSucceeds ==
  /\ main = "cancelling"
  /\ \/ execution = "result" /\ main' = "success"
     \/ main' = "interrupted"
  /\ Unmoved /\ UNCHANGED <<runVars, signal, cancelled>>

\* Plausible mistake: no time limit on the wait.
MainCancellingForever ==
  /\ main = "cancelling"
  /\ execution = "result" /\ main' = "interrupted"
  /\ Unmoved /\ UNCHANGED <<runVars, signal, cancelled>>

\* The select after cancel(): the result or 10 seconds, never the error.
MainCancelling ==
  /\ main = "cancelling"
  /\ \/ execution = "result" /\ main' = "interrupted"
     \/ main' = "interrupted"
  /\ Unmoved /\ UNCHANGED <<runVars, signal, cancelled>>

-----------------------------------------------------------------------------
Execute == Connect \/ Warmup \/ Sample \/ SamplingEnds \/ FinalWait \/ CloseBand \/ NextBand
Main == MainSelect \/ MainCancelling

Next ==
  \/ Execute
  \/ Main
  \/ SignalArrives \/ DeadlinePasses
  \/ \E b \in 1 .. MaxBands :
       Query(b) \/ QueryEnds(b) \/ OwnQuery(b) \/ OwnQueryEnds(b) \/ RunEnds(b)

Spec == Init /\ [][Next]_vars

\* Goroutines run, timers fire and queries on a pool return; workloads and queries on
\* other connections need not return, and signals need not come.
FairSpec ==
  /\ Spec
  /\ WF_vars(Execute) /\ WF_vars(Main)
  /\ \A b \in 1 .. MaxBands : WF_vars(QueryEnds(b))

-----------------------------------------------------------------------------
TypeOK ==
  /\ numBands \in 1 .. MaxBands /\ hasWarmup \in BOOLEAN
  /\ band \in 1 .. numBands
  /\ pc \in {"connect", "warmup", "sampling", "finalWait", "closing", "next", "returned"}
  /\ samples \in 0 .. NumSamples /\ bandErr \in BOOLEAN /\ taken \in BOOLEAN
  /\ results \in Seq(1 .. MaxBands)
  /\ run \in [1 .. MaxBands -> {"none", "running", "ok", "failed"}]
  /\ inFlight \in [1 .. MaxBands -> 0 .. Connections]
  /\ ownInFlight \in [1 .. MaxBands -> 0 .. OwnConnections]
  /\ timedOut \subseteq 1 .. MaxBands /\ failedEarly \subseteq 1 .. MaxBands
  /\ signal \in BOOLEAN /\ cancelled \in BOOLEAN /\ reported \in BOOLEAN
  /\ execution \in {"none", "result", "error"}
  /\ main \in {"waiting", "cancelling", "success", "failed", "interrupted"}

\* The pools of two bands are never used at a time: workloads of earlier bands may not
\* have returned, but none of them has a query on its pool any more.  It may have one on
\* a connection of its own, which executeBand does not wait for: that the next band is
\* measured alone is so for the plugins that open none.
PoolsDoNotOverlap ==
  \A b \in 1 .. MaxBands : inFlight[b] > 0 => b = band /\ (Measured \/ pc = "closing")

\* run() only reports success after every band of the sequence was tested, in
\* order, no signal got in between, and the report was printed.
SuccessCoversSequence ==
  main = "success" =>
    /\ results = [i \in 1 .. numBands |-> i]
    /\ reported /\ ~cancelled

\* A workload that fails while it is measured fails the test: it takes until
\* the samples are complete for anyone to look, but no success hides it, unless bandCtx
\* had got to its deadline too by then and was chosen.
FailedWorkloadFailsTest == main = "success" => failedEarly \subseteq timedOut

\* run() returns, whatever the workload does and whenever the signal comes.
MainReturns == <>(~Alive)
=============================================================================
