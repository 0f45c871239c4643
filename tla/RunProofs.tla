------------------------------ MODULE RunProofs ------------------------------
(***************************************************************************)
(* Proofs about what the program runs: ScalingEngine, for sequences,       *)
(* samples and pools of any size, and Workloads, for any number of         *)
(* workers, connections, operations and faults, every plugin in every      *)
(* mode.                                                                   *)
(***************************************************************************)
EXTENDS ScalingEngine, Workloads, FiniteSetTheorems, SequenceTheorems, WellFoundedInduction, TLAPS


InBand == {"connect", "warmup", "sampling", "finalWait", "closing"}

\* The bands are stored in order, and as many as Execute has got through.
ResultsInOrder ==
  /\ \A i \in DOMAIN results : results[i] = i
  /\ pc \in InBand => Len(results) = band - 1
  /\ pc = "next" => Len(results) = band

\* A result is only sent when the sequence is complete or ctx was cancelled;
\* run() takes it for a success only when it has not cancelled ctx itself.
ResultIsComplete ==
  /\ pc # "returned" => execution = "none"
  /\ execution = "result" => reported /\ (cancelled \/ Len(results) = numBands)
  /\ main = "waiting" => ~cancelled
  /\ main = "success" => execution = "result" /\ ~cancelled

\* While nobody has cancelled ctx, an early failure in a band that is in time is on its
\* way to Execute.
FailureIsSeen ==
  /\ pc \in {"warmup", "sampling"} => ~taken
  /\ ~cancelled /\ execution # "error" =>
       \A b \in failedEarly \ timedOut :
         /\ b = band /\ run[b] = "failed"
         /\ \/ pc \in {"warmup", "sampling", "finalWait"} /\ ~taken
            \/ pc = "closing" /\ bandErr

IInv == TypeOK /\ PoolsDoNotOverlap /\ ResultsInOrder /\ ResultIsComplete /\ FailureIsSeen

\* A step of the workload of a band.
Moves(b) == Query(b) \/ QueryEnds(b) \/ OwnQuery(b) \/ OwnQueryEnds(b) \/ RunEnds(b)

LEMMA InitIInv == Init => IInv
<1> SUFFICES ASSUME Init PROVE IInv
  OBVIOUS
<1>1. TypeOK
  <2>1. numBands \in 1 .. MaxBands /\ band \in 1 .. numBands /\ 0 \in 0 .. NumSamples
        /\ 0 \in 0 .. Connections /\ 0 \in 0 .. OwnConnections
    BY EngineAssumption DEF Init
  <2>2. results \in Seq(1 .. MaxBands)
    BY DEF Init
  <2>3. QED
    BY <2>1, <2>2 DEF Init, TypeOK
<1>2. PoolsDoNotOverlap
  BY DEF Init, PoolsDoNotOverlap
<1>3. ResultsInOrder /\ ResultIsComplete /\ FailureIsSeen
  BY DEF Init, ResultsInOrder, ResultIsComplete, FailureIsSeen
<1>4. QED
  BY <1>1, <1>2, <1>3 DEF IInv

LEMMA TypeStep == TypeOK /\ [Next]_vars => TypeOK'
<1> SUFFICES ASSUME TypeOK, [Next]_vars PROVE TypeOK'
  OBVIOUS
<1>b. MaxBands \in Nat /\ band \in 1 .. MaxBands /\ numBands \in 1 .. MaxBands
  BY EngineAssumption DEF TypeOK
<1>s. 0 \in 0 .. NumSamples
  BY EngineAssumption
<1> USE DEF TypeOK
<1>1. CASE Connect
  <2>1. pc' \in {"warmup", "sampling", "closing"} /\ bandErr' \in BOOLEAN
    BY <1>1 DEF Connect, Leave
  <2>2. samples' \in 0 .. NumSamples /\ taken' \in BOOLEAN
    BY <1>1, <1>s DEF Connect
  <2>3. run' \in [1 .. MaxBands -> {"none", "running", "ok", "failed"}]
    BY <1>1, <1>b DEF Connect
  <2>4. QED
    BY <1>1, <2>1, <2>2, <2>3 DEF Connect, queries, mainVars
<1>2. CASE Warmup
  <2>1. pc' \in {"sampling", "finalWait", "closing"} /\ bandErr' \in BOOLEAN /\ taken' \in BOOLEAN
    BY <1>2 DEF Warmup, Leave
  <2>2. QED
    BY <1>2, <2>1 DEF Warmup, queries, runVars, mainVars
<1>3. CASE Sample
  BY <1>3, EngineAssumption DEF Sample, At, queries, runVars, mainVars
<1>4. CASE SamplingEnds
  BY <1>4 DEF SamplingEnds, At, bandVars, queries, runVars, mainVars
<1>5. CASE FinalWait
  <2>1. bandErr' \in BOOLEAN
    BY <1>5 DEF FinalWait, Leave
  <2>2. QED
    BY <1>5, <2>1 DEF FinalWait, At, Leave, queries, runVars, mainVars
<1>6. CASE CloseBand
  <2>1. results' \in Seq(1 .. MaxBands)
    <3>1. Append(results, band) \in Seq(1 .. MaxBands)
      BY <1>b
    <3>2. results' \in {results, Append(results, band)}
      BY <1>6 DEF CloseBand
    <3>3. QED
      BY <3>1, <3>2
  <2>2. pc' \in {"returned", "next"} /\ execution' \in {"error", execution} /\ UNCHANGED reported
    BY <1>6 DEF CloseBand, Fail
  <2>3. QED
    BY <1>6, <2>1, <2>2 DEF CloseBand, bandVars, queries, runVars, mainVars
<1>7. CASE NextBand
  <2>1. band' \in 1 .. numBands
    BY <1>7, <1>b DEF NextBand
  <2>2. pc' \in {"returned", "connect"} /\ reported' \in BOOLEAN /\ execution' \in {"error", "result", execution}
    BY <1>7 DEF NextBand, Finalize, Fail
  <2>3. QED
    BY <1>7, <2>1, <2>2 DEF NextBand, bandVars, queries, runVars, mainVars
<1>8. CASE Main
  <2>1. main' \in {"success", "failed", "cancelling", "interrupted"} /\ cancelled' \in BOOLEAN
        /\ UNCHANGED signal
    BY <1>8 DEF Main, MainSelect, MainCancelling
  <2>2. Unmoved /\ UNCHANGED runVars
    BY <1>8 DEF Main, MainSelect, MainCancelling
  <2>3. QED
    BY <2>1, <2>2 DEF Unmoved, bandVars, queries, runVars
<1>9. CASE SignalArrives
  BY <1>9 DEF SignalArrives, Unmoved, bandVars, queries, runVars
<1>10. ASSUME NEW b \in 1 .. MaxBands, Moves(b)
       PROVE  TypeOK'
  <2>1. UNCHANGED <<signal, cancelled, main>> /\ Unmoved
    BY <1>10 DEF Moves, Query, QueryEnds, OwnQuery, OwnQueryEnds, RunEnds, mainVars
  <2>2. inFlight' \in [1 .. MaxBands -> 0 .. Connections]
    <3>1. CASE Query(b)
      BY <3>1, EngineAssumption DEF Query
    <3>2. CASE QueryEnds(b)
      BY <3>2, EngineAssumption DEF QueryEnds
    <3>3. CASE OwnQuery(b) \/ OwnQueryEnds(b) \/ RunEnds(b)
      BY <3>3 DEF OwnQuery, OwnQueryEnds, RunEnds, queries
    <3>4. QED
      BY <1>10, <3>1, <3>2, <3>3 DEF Moves
  <2>3. ownInFlight' \in [1 .. MaxBands -> 0 .. OwnConnections]
    <3>1. CASE OwnQuery(b)
      BY <3>1, EngineAssumption DEF OwnQuery
    <3>2. CASE OwnQueryEnds(b)
      BY <3>2, EngineAssumption DEF OwnQueryEnds
    <3>3. CASE Query(b) \/ QueryEnds(b) \/ RunEnds(b)
      BY <3>3 DEF Query, QueryEnds, RunEnds, queries
    <3>4. QED
      BY <1>10, <3>1, <3>2, <3>3 DEF Moves
  <2>4. /\ run' \in [1 .. MaxBands -> {"none", "running", "ok", "failed"}]
        /\ failedEarly' \subseteq 1 .. MaxBands
    BY <1>10 DEF Moves, Query, QueryEnds, OwnQuery, OwnQueryEnds, RunEnds
  <2>5. QED
    BY <2>1, <2>2, <2>3, <2>4 DEF Unmoved, bandVars
<1>11. CASE UNCHANGED vars
  BY <1>11 DEF vars, bandVars, queries, runVars, mainVars
<1>12. CASE DeadlinePasses
  <2>1. timedOut' \subseteq 1 .. MaxBands
    BY <1>12, <1>b DEF DeadlinePasses
  <2>2. QED
    BY <1>12, <2>1 DEF DeadlinePasses, bandVars, queries, runVars, mainVars
<1>13. QED
  BY <1>1, <1>2, <1>3, <1>4, <1>5, <1>6, <1>7, <1>8, <1>9, <1>10, <1>11, <1>12 DEF Next, Execute, Moves

\* Only Close lets Execute go on to the next band, and it waits for the queries.
LEMMA PoolsStep == TypeOK /\ PoolsDoNotOverlap /\ [Next]_vars => PoolsDoNotOverlap'
<1> SUFFICES ASSUME TypeOK, PoolsDoNotOverlap, [Next]_vars PROVE PoolsDoNotOverlap'
  OBVIOUS
<1> USE DEF TypeOK, PoolsDoNotOverlap, Measured
<1>1. CASE Connect
  BY <1>1 DEF Connect, At, Leave, queries
<1>2. CASE Warmup
  BY <1>2 DEF Warmup, At, Leave, queries, runVars
<1>3. CASE Sample \/ SamplingEnds
  BY <1>3 DEF Sample, SamplingEnds, At, queries, runVars
<1>4. CASE FinalWait
  BY <1>4 DEF FinalWait, At, Leave, queries, runVars
<1>5. CASE CloseBand
  BY <1>5 DEF CloseBand, At, queries, runVars
<1>6. CASE NextBand
  BY <1>6 DEF NextBand, At, queries, runVars
<1>7. CASE Main \/ SignalArrives
  BY <1>7 DEF Main, MainSelect, MainCancelling, SignalArrives, Unmoved, queries, runVars
<1>8. ASSUME NEW b \in 1 .. MaxBands, Moves(b)
      PROVE  PoolsDoNotOverlap'
  <2>1. CASE Query(b)
    BY <2>1 DEF Query, MayQuery, Unmoved
  <2>2. CASE QueryEnds(b)
    <3>1. \A c \in 1 .. MaxBands : inFlight'[c] > 0 => inFlight[c] > 0
      BY <2>2, EngineAssumption DEF QueryEnds
    <3>2. QED
      BY <2>2, <3>1 DEF QueryEnds, Unmoved
  <2>3. CASE OwnQuery(b) \/ OwnQueryEnds(b) \/ RunEnds(b)
    BY <2>3 DEF OwnQuery, OwnQueryEnds, RunEnds, Unmoved, queries
  <2>4. QED
    BY <1>8, <2>1, <2>2, <2>3 DEF Moves
<1>9. CASE UNCHANGED vars
  BY <1>9 DEF vars, queries, runVars
<1>10. CASE DeadlinePasses
  BY <1>10 DEF DeadlinePasses, queries, runVars
<1>11. QED
  BY <1>1, <1>2, <1>3, <1>4, <1>5, <1>6, <1>7, <1>8, <1>9, <1>10 DEF Next, Execute, Moves

LEMMA ResultsStep ==
  TypeOK /\ ResultsInOrder /\ ResultIsComplete /\ [Next]_vars => ResultsInOrder' /\ ResultIsComplete'
<1> SUFFICES ASSUME TypeOK, ResultsInOrder, ResultIsComplete, [Next]_vars
             PROVE  ResultsInOrder' /\ ResultIsComplete'
  OBVIOUS
<1> USE DEF TypeOK, ResultsInOrder, ResultIsComplete, InBand
<1>1. CASE Connect
  BY <1>1 DEF Connect, At, Leave, mainVars
<1>2. CASE Warmup
  BY <1>2 DEF Warmup, At, Leave, mainVars
<1>3. CASE Sample \/ SamplingEnds
  BY <1>3 DEF Sample, SamplingEnds, At, mainVars
<1>4. CASE FinalWait
  BY <1>4 DEF FinalWait, At, Leave, mainVars
<1>5. CASE CloseBand
  <2>1. /\ pc = "closing" /\ UNCHANGED <<numBands, band, cancelled, main, reported>>
        /\ \/ pc' = "returned" /\ execution' = "error" /\ UNCHANGED results
           \/ pc' = "next" /\ UNCHANGED execution /\ results' = Append(results, band)
    BY <1>5 DEF CloseBand, At, Fail, mainVars
  <2>2. ResultIsComplete'
    BY <1>5, <2>1 DEF CloseBand, At, Alive
  <2>3. ResultsInOrder'
    <3>1. Len(results) = band - 1 /\ band \in Nat /\ results \in Seq(1 .. MaxBands) /\ band \in 1 .. MaxBands
      BY <2>1, EngineAssumption
    <3>2. /\ Len(Append(results, band)) = band
          /\ \A i \in DOMAIN Append(results, band) : Append(results, band)[i] = i
      <4> DEFINE stored == Append(results, band)
      <4>1. \A i \in DOMAIN results : results[i] = i
        OBVIOUS
      <4>2. /\ Len(stored) = band /\ DOMAIN stored = 1 .. band
            /\ stored[band] = band /\ \A i \in 1 .. band - 1 : stored[i] = results[i]
        BY <3>1, AppendProperties
      <4>3. \A i \in 1 .. band - 1 : i \in DOMAIN results
        BY <3>1
      <4> HIDE DEF stored
      <4>4. \A i \in 1 .. band : i = band \/ i \in 1 .. band - 1
        BY <3>1
      <4>5. \A i \in DOMAIN stored : stored[i] = i
        BY <4>1, <4>2, <4>3, <4>4
      <4>6. QED
        BY <4>2, <4>5 DEF stored
    <3>3. QED
      BY <2>1, <3>2
  <2>4. QED
    BY <2>2, <2>3
<1>6. CASE NextBand
  BY <1>6 DEF NextBand, At, Alive, Finalize, Fail, mainVars
<1>7. CASE Main
  BY <1>7 DEF Main, MainSelect, MainCancelling, Unmoved
<1>8. CASE SignalArrives
  BY <1>8 DEF SignalArrives, Unmoved
<1>9. ASSUME NEW b \in 1 .. MaxBands, Moves(b)
      PROVE  ResultsInOrder' /\ ResultIsComplete'
  BY <1>9 DEF Moves, Query, QueryEnds, OwnQuery, OwnQueryEnds, RunEnds, Unmoved, mainVars
<1>10. CASE UNCHANGED vars
  BY <1>10 DEF vars, mainVars
<1>11. CASE DeadlinePasses
  BY <1>11 DEF DeadlinePasses, mainVars
<1>12. QED
  BY <1>1, <1>2, <1>3, <1>4, <1>5, <1>6, <1>7, <1>8, <1>9, <1>10, <1>11 DEF Next, Execute, Moves

LEMMA FailureStep ==
  TypeOK /\ ResultIsComplete /\ FailureIsSeen /\ [Next]_vars => FailureIsSeen'
<1> SUFFICES ASSUME TypeOK, ResultIsComplete, FailureIsSeen, [Next]_vars PROVE FailureIsSeen'
  OBVIOUS
<1> USE DEF TypeOK, ResultIsComplete, FailureIsSeen
<1>1. CASE Connect
  <2>1. pc = "connect" /\ UNCHANGED <<cancelled, execution, failedEarly, timedOut>>
    BY <1>1 DEF Connect, At, mainVars
  <2>2. ~cancelled' /\ execution' # "error" => failedEarly' \ timedOut' = {}
    BY <2>1
  <2>3. pc' \in {"warmup", "sampling"} => ~taken'
    BY <1>1 DEF Connect, Leave
  <2>4. QED
    BY <2>2, <2>3
<1>2. CASE Warmup
  BY <1>2 DEF Warmup, At, Leave, Ready, BandOver, runVars, mainVars
<1>3. CASE Sample \/ SamplingEnds
  <2>1. /\ UNCHANGED <<band, run, failedEarly, timedOut, cancelled, execution, taken>>
        /\ pc = "sampling" /\ pc' \in {"sampling", "finalWait"}
    BY <1>3 DEF Sample, SamplingEnds, At, bandVars, runVars, mainVars
  <2>2. QED
    BY <2>1
<1>4. CASE FinalWait
  <2>1. /\ UNCHANGED <<band, run, failedEarly, timedOut, cancelled, execution>>
        /\ pc = "finalWait" /\ pc' = "closing"
    BY <1>4 DEF FinalWait, At, Leave, runVars, mainVars
  <2>2. ~BandOver /\ ~taken /\ run[band] = "failed" => bandErr'
    <3> SUFFICES ASSUME ~BandOver, ~taken, run[band] = "failed" PROVE bandErr'
      OBVIOUS
    <3>1. Ready
      BY DEF Ready
    <3>2. Leave(run[band] = "failed")
      BY <1>4, <3>1 DEF FinalWait
    <3>3. bandErr' = (run[band] = "failed")
      BY <3>2 DEF Leave
    <3>4. QED
      BY <3>3, Zenon
  <2>3. QED
    BY <2>1, <2>2 DEF BandOver
<1>5. CASE CloseBand
  <2>1. UNCHANGED <<cancelled, failedEarly, timedOut>> /\ pc = "closing" /\ pc' \in {"next", "returned"}
    BY <1>5 DEF CloseBand, At, Fail, runVars, mainVars
  <2>2. execution' # "error" => ~bandErr /\ UNCHANGED execution
    BY <1>5 DEF CloseBand, Fail
  <2>3. ~cancelled' /\ execution' # "error" => failedEarly' \ timedOut' = {}
    BY <2>1, <2>2
  <2>4. QED
    BY <2>1, <2>3
<1>6. CASE NextBand
  BY <1>6 DEF NextBand, At, Finalize, Fail, bandVars, runVars, mainVars
<1>7. CASE Main \/ SignalArrives
  <2>1. UNCHANGED <<band, pc, bandErr, taken, execution, run, failedEarly, timedOut>>
    BY <1>7 DEF Main, MainSelect, MainCancelling, SignalArrives, Unmoved, bandVars, runVars
  <2>2. ~cancelled' => ~cancelled
    BY <1>7 DEF Main, MainSelect, MainCancelling, SignalArrives
  <2>3. QED
    BY <2>1, <2>2
<1>8. ASSUME NEW b \in 1 .. MaxBands, Query(b) \/ QueryEnds(b) \/ OwnQuery(b) \/ OwnQueryEnds(b)
      PROVE  FailureIsSeen'
  <2>1. UNCHANGED <<band, pc, bandErr, taken, execution, run, failedEarly, timedOut, cancelled>>
    BY <1>8 DEF Query, QueryEnds, OwnQuery, OwnQueryEnds, Unmoved, bandVars, mainVars
  <2>2. QED
    BY <2>1
<1>9. ASSUME NEW b \in 1 .. MaxBands, RunEnds(b)
      PROVE  FailureIsSeen'
  BY <1>9 DEF RunEnds, Unmoved, bandVars, mainVars
<1>10. CASE UNCHANGED vars
  BY <1>10 DEF vars, bandVars, runVars, mainVars
<1>11. CASE DeadlinePasses
  BY <1>11 DEF DeadlinePasses, bandVars, runVars, mainVars
<1>12. QED
  BY <1>1, <1>2, <1>3, <1>4, <1>5, <1>6, <1>7, <1>8, <1>9, <1>10, <1>11 DEF Next, Execute

\* Every reachable state satisfies the inductive invariant.
LEMMA Invariance == Spec => []IInv
<1>1. IInv /\ [Next]_vars => IInv'
  BY TypeStep, PoolsStep, ResultsStep, FailureStep DEF IInv
<1>2. QED
  BY InitIInv, <1>1, PTL DEF Spec

\* Execute, run() and the workloads keep their variables in their ranges.
THEOREM TypeCorrect == Spec => []TypeOK
  BY Invariance, PTL DEF IInv

\* However many workloads of earlier bands are still to return, and whatever they do on
\* connections of their own, only the band under test has queries on its pool: Close of
\* the pool (executeBand of internal/progressive/engine.go) has waited for the others.
THEOREM EarlierPoolsAreDrained == Spec => []PoolsDoNotOverlap
  BY Invariance, PTL DEF IInv

\* A success of run() stands for the whole sequence, in order and reported.
THEOREM SuccessIsComplete == Spec => []SuccessCoversSequence
<1>1. IInv => SuccessCoversSequence
  <2> SUFFICES ASSUME IInv, main = "success" PROVE SuccessCoversSequence
    BY DEF SuccessCoversSequence
  <2>1. reported /\ ~cancelled /\ Len(results) = numBands
    BY DEF IInv, ResultIsComplete
  <2>2. results = [i \in 1 .. numBands |-> i]
    BY <2>1 DEF IInv, TypeOK, ResultsInOrder
  <2>3. QED
    BY <2>1, <2>2 DEF SuccessCoversSequence
<1>2. QED
  BY Invariance, <1>1, PTL

\* No success hides a workload that failed while it was measured, in a band whose context
\* had not timed out.
THEOREM FailuresFailTheTest == Spec => []FailedWorkloadFailsTest
<1>1. IInv => FailedWorkloadFailsTest
  <2> SUFFICES ASSUME IInv, main = "success" PROVE failedEarly \subseteq timedOut
    BY DEF FailedWorkloadFailsTest
  <2>1. ~cancelled /\ execution = "result" /\ pc = "returned"
    BY DEF IInv, ResultIsComplete
  <2>2. QED
    BY <2>1 DEF IInv, FailureIsSeen
<1>2. QED
  BY Invariance, <1>1, PTL

-----------------------------------------------------------------------------
\* A statement that neither begins nor ends a transaction and goes over the operation's
\* connection; if it writes or locks a row, its error ends the operation.
Inner(s) ==
  /\ s.verb \notin {"begin", "commit"} /\ s.via = "transaction"
  /\ s.verb \in Writing \/ s.row # <<>> => s.after = "next"

IsScript(script) == Len(script) \in Nat /\ DOMAIN script = 1 .. Len(script)

\* A script without a transaction, that writes with one statement at most.
Bare(script) ==
  /\ \A i \in 1 .. Len(script) : Inner(script[i])
  /\ \A i, j \in 1 .. Len(script) : script[i].verb \in Writing /\ script[j].verb \in Writing => i = j

\* A script with one transaction, whose commit comes last and that all writes and locks belong to.
BeginsAt(script, b) ==
  /\ b < Len(script)
  /\ script[b].verb = "begin" /\ script[b].after = "next" /\ script[b].row = <<>>
  /\ script[Len(script)].row = <<>>
  /\ script[Len(script)].verb = "commit" /\ script[Len(script)].via = "transaction"
  /\ script[Len(script)].after = "next"
  /\ \A i \in 1 .. Len(script) - 1 : i # b => Inner(script[i]) /\ script[i].after # "attempt"
  /\ \A i \in 1 .. b - 1 : script[i].verb \notin Writing /\ script[i].row = <<>>
Transactional(script) == \E b \in 1 .. Len(script) : BeginsAt(script, b)

WellFormed(script) ==
  IsScript(script) /\ Len(script) > 0 /\ (Bare(script) \/ Transactional(script))

\* The scripts that a plugin may send are well-formed.
LEMMA OneBare ==
  ASSUME NEW s, Inner(s)
  PROVE  WellFormed(<<s>>)
<1>1. Len(<<s>>) = 1 /\ DOMAIN <<s>> = 1 .. 1 /\ <<s>>[1] = s
  OBVIOUS
<1>2. \A i \in 1 .. 1 : i = 1
  OBVIOUS
<1>3. QED
  BY <1>1, <1>2 DEF WellFormed, IsScript, Bare

LEMMA TwoBare ==
  ASSUME NEW s, NEW t, Inner(s), Inner(t), s.verb \notin Writing
  PROVE  WellFormed(<<s, t>>)
<1> DEFINE u == <<s, t>>
<1>1. Len(u) = 2 /\ DOMAIN u = 1 .. 2 /\ u[1] = s /\ u[2] = t
  OBVIOUS
<1>2. \A i \in 1 .. 2 : i = 1 \/ i = 2
  OBVIOUS
<1> HIDE DEF u
<1>3. WellFormed(u)
  BY <1>1, <1>2 DEF WellFormed, IsScript, Bare
<1>4. QED
  BY <1>3 DEF u

\* A statement that begins a transaction, another, and statements in between.
LEMMA Concatenated ==
  ASSUME NEW Z, NEW before \in Seq(Z), NEW begin, NEW body \in Seq(Z), NEW commit,
         begin.verb = "begin", begin.after = "next", begin.row = <<>>, commit.row = <<>>,
         commit.verb = "commit", commit.via = "transaction", commit.after = "next",
         \A s \in Z : Inner(s) /\ s.after # "attempt",
         \A i \in 1 .. Len(before) : before[i].verb \notin Writing /\ before[i].row = <<>>
  PROVE  WellFormed(before \o (<<begin>> \o body \o <<commit>>))
<1> DEFINE A == Z \cup {begin, commit}
           u == <<begin>> \o body \o <<commit>>
           v == before \o u
           m == Len(before)
           n == Len(body)
<1>1. m \in Nat /\ n \in Nat
  OBVIOUS
<1>2. /\ <<begin>> \in Seq(A) /\ <<commit>> \in Seq(A) /\ body \in Seq(A) /\ before \in Seq(A)
  OBVIOUS
<1>3. /\ u \in Seq(A) /\ Len(u) = n + 2 /\ u[1] = begin /\ u[n + 2] = commit
      /\ \A i \in 1 .. n : u[i + 1] = body[i]
  BY <1>1, <1>2
<1> HIDE DEF u, A
<1>4. /\ v \in Seq(A) /\ Len(v) = m + n + 2
      /\ \A i \in 1 .. m : v[i] = before[i]
      /\ \A i \in 1 .. n + 2 : v[m + i] = u[i]
  <2>1. v \in Seq(A) /\ Len(v) = m + n + 2
    <3>1. before \in Seq(A) /\ u \in Seq(A)
      BY <1>2, <1>3
    <3>2. before \o u \in Seq(A) /\ Len(before \o u) = Len(before) + Len(u)
      BY ONLY <3>1, ConcatProperties
    <3>3. QED
      BY <1>1, <1>3, <3>2
  <2>2. \A i \in 1 .. m : v[i] = before[i]
    BY <1>1, <1>2, <1>3
  <2>3. \A i \in 1 .. n + 2 : v[m + i] = u[i]
    <3>1. ASSUME NEW i \in 1 .. n + 2 PROVE v[m + i] = u[i]
      <4>1. m + i \in 1 .. m + (n + 2) /\ ~(m + i <= m) /\ (m + i) - m = i
        BY <1>1
      <4>2. QED
        BY <1>1, <1>2, <1>3, <4>1
    <3>2. QED
      BY <3>1
  <2>4. QED
    BY <2>1, <2>2, <2>3
<1> HIDE DEF v
<1>5. v[m + 1] = begin /\ v[m + n + 2] = commit
  BY <1>1, <1>3, <1>4
<1>6. \A i \in 1 .. m : before[i] \in Z
  BY <1>1, ElementOfSeq
<1>7. \A i \in 1 .. n : body[i] \in Z
  BY <1>1, ElementOfSeq
<1>8. ASSUME NEW i \in 1 .. m + n + 1, i # m + 1 PROVE Inner(v[i]) /\ v[i].after # "attempt"
  <2>1. CASE i <= m
    BY <1>1, <1>4, <1>6, <2>1
  <2>2. CASE i > m + 1
    <3>1. i - m - 1 \in 1 .. n /\ i - m \in 1 .. n + 2 /\ m + (i - m) = i /\ (i - m - 1) + 1 = i - m
      BY <1>1, <1>8, <2>2
    <3>2. v[i] = u[i - m] /\ u[i - m] = body[i - m - 1]
      BY <1>3, <1>4, <3>1
    <3>3. QED
      BY <1>7, <3>1, <3>2
  <2>3. QED
    BY <1>1, <1>8, <2>1, <2>2
<1>9. \A i \in 1 .. m : v[i].verb \notin Writing /\ v[i].row = <<>>
  BY <1>4
<1>10. BeginsAt(v, m + 1)
  <2>1. Len(v) - 1 = m + n + 1 /\ (m + 1) - 1 = m /\ m + 1 < Len(v)
    BY <1>1, <1>4
  <2>2. QED
    BY <1>4, <1>5, <1>8, <1>9, <2>1 DEF BeginsAt
<1>11. m + 1 \in 1 .. Len(v)
  BY <1>1, <1>4
<1>12. IsScript(v) /\ Len(v) > 0
  BY <1>1, <1>4 DEF IsScript
<1>13. WellFormed(v)
  BY <1>10, <1>11, <1>12 DEF WellFormed, Transactional
<1>14. QED
  BY <1>13 DEF u, v

LEMMA TransactionFormed ==
  ASSUME NEW Z, NEW begin, NEW body \in Seq(Z), NEW commit,
         begin.verb = "begin", begin.after = "next", begin.row = <<>>, commit.row = <<>>,
         commit.verb = "commit", commit.via = "transaction", commit.after = "next",
         \A s \in Z : Inner(s) /\ s.after # "attempt"
  PROVE  WellFormed(<<begin>> \o body \o <<commit>>)
<1>1. <<>> \in Seq(Z) /\ \A i \in 1 .. Len(<<>>) : <<>>[i].verb \notin Writing /\ <<>>[i].row = <<>>
  OBVIOUS
<1>2. WellFormed(<<>> \o (<<begin>> \o body \o <<commit>>))
  BY <1>1, Concatenated
<1>3. <<>> \o (<<begin>> \o body \o <<commit>>) = <<begin>> \o body \o <<commit>>
  <2> DEFINE A == Z \cup {begin, commit}
  <2>1. <<begin>> \o body \o <<commit>> \in Seq(A)
    OBVIOUS
  <2>2. QED
    BY <2>1
<1>4. QED
  BY <1>2, <1>3

LEMMA EcommerceReads ==
  /\ \A Y : WellFormed(<<E!Read(Y)>>)
  /\ \A Y : Inner(E!Read(Y)) /\ E!Read(Y).verb \notin Writing
<1>1. \A Y : Inner(E!Read(Y)) /\ E!Read(Y).verb \notin Writing
  BY DEF Inner, Writing, E!Read, E!Plain
<1>2. QED
  BY <1>1, OneBare

LEMMA EcommerceReadsFormed ==
  \A script \in E!executeReadOperation : WellFormed(script)
<1>1. \A script \in E!searchReviewsByVector : WellFormed(script)
  <2>1. Inner(E!Try(E!Read({"reviews"}))) /\ E!Try(E!Read({"reviews"})).verb \notin Writing
    BY DEF Inner, Writing, E!Try, E!Read, E!Plain
  <2>2. QED
    BY <2>1, EcommerceReads, TwoBare DEF E!searchReviewsByVector
<1>2. \A X \in {E!getUserByEmail, E!getProductBySKU, E!getProductsByCategory, E!getUserOrders,
           E!getProductReviews, E!getVendorProducts, E!getPurchaseOrdersByVendor,
           E!getOrderDetailsWithItems, E!getUserActivitySummary, E!getProductAnalytics,
           E!getInventoryStatus, E!getVendorPerformance, E!searchProductsByName, E!findSimilarUsers,
           E!getRecentActivity, E!getTopProductsByCategory,
           E!getUserSpendingTrends, E!getInventoryAnalysis, E!getStockControlReport} : \E Y : X = {<<E!Read(Y)>>}
  BY Zenon DEF E!One, E!getUserByEmail, E!getProductBySKU, E!getProductsByCategory, E!getUserOrders,
           E!getProductReviews, E!getVendorProducts, E!getPurchaseOrdersByVendor,
           E!getOrderDetailsWithItems, E!getUserActivitySummary, E!getProductAnalytics,
           E!getInventoryStatus, E!getVendorPerformance, E!searchProductsByName, E!findSimilarUsers,
           E!getRecentActivity, E!getTopProductsByCategory,
           E!getUserSpendingTrends, E!getInventoryAnalysis, E!getStockControlReport
<1>3. QED
  BY <1>1, <1>2, EcommerceReads DEF E!executeReadOperation

LEMMA EcommerceTransactions ==
  ASSUME NEW Z, \A s \in Z : Inner(s) /\ s.after # "attempt", NEW body \in Seq(Z)
  PROVE  WellFormed(E!InTransaction(body))
<1>1. /\ E!Begin.verb = "begin" /\ E!Begin.after = "next" /\ E!Begin.row = <<>> /\ E!Commit.row = <<>>
      /\ E!Commit.verb = "commit" /\ E!Commit.via = "transaction" /\ E!Commit.after = "next"
  BY DEF E!Begin, E!Commit, E!Plain
<1>2. QED
  BY <1>1, TransactionFormed DEF E!InTransaction

LEMMA EcommerceWrites ==
  /\ \A t, refs : Inner(E!Insert(t, refs)) /\ E!Insert(t, refs).after = "next"
  /\ \A t : Inner(E!Update(t)) /\ E!Update(t).after = "next"
  /\ \A t, r, Y : LET s == E!Firing(E!UpdateRow(t, r), Y) IN Inner(s) /\ s.after = "next"
  /\ \A t, Y : Inner(E!Firing(E!Update(t), Y))
  /\ \A t, Y, U : Inner(E!Firing(E!Firing(E!Update(t), Y), U))
  /\ \A Y : Inner(E!FindOrStop(Y)) /\ E!FindOrStop(Y).verb \notin Writing
  /\ \A Y, needs : Inner(E!MustFind(Y, needs)) /\ E!MustFind(Y, needs).verb \notin Writing
  BY DEF Inner, Writing, E!Insert, E!Update, E!Firing, E!UpdateRow, E!Locking, E!FindOrStop, E!MustFind, E!Plain

LEMMA EcommerceWritesFormed ==
  \A script \in E!executeWriteOperation : WellFormed(script)
<1>1. \A X \in {E!insertProductReview, E!insertProductAnalytics} : \E t, refs : X = {<<E!Insert(t, refs)>>}
  BY Zenon DEF E!One, E!insertProductReview, E!insertProductAnalytics
<1>2. \A X \in {E!updateUserProfile, E!updateVendorRating} : \E t : X = {<<E!Update(t)>>}
  BY Zenon DEF E!One, E!updateUserProfile, E!updateVendorRating
<1>3. \E t, Y : E!updateInventory = {<<E!Firing(E!Update(t), Y)>>}
  BY Zenon DEF E!One, E!updateInventory, E!checkStockAndReorder
<1>4. \A X \in {E!insertProductReview, E!insertProductAnalytics, E!updateUserProfile, E!updateVendorRating,
                E!updateInventory} : \A script \in X : WellFormed(script)
  BY <1>1, <1>2, <1>3, EcommerceWrites, OneBare
<1>5. \A script \in E!processOrderShipment : WellFormed(script)
  BY EcommerceWrites, TwoBare DEF E!processOrderShipment
<1>6. \A script \in E!receivePurchaseOrder : WellFormed(script)
  BY EcommerceWrites, TwoBare DEF E!receivePurchaseOrder, E!handlePurchaseReceipt, E!checkStockAndReorder
<1>7. \A script \in E!updateProductPricing : WellFormed(script)
  BY EcommerceWrites, OneBare, TwoBare DEF E!updateProductPricing
<1>8. \A script \in E!createPurchaseOrder : WellFormed(script)
  <2> DEFINE s == E!Insert("purchase_orders", {"vendors"})
             t == E!Insert("purchase_order_items", {"products"})
             Z == {s, t}
  <2>1. \A u \in Z : Inner(u) /\ u.after # "attempt"
    BY EcommerceWrites
  <2>2. E!createPurchaseOrder = {E!InTransaction(<<s>> \o <<t>>), E!InTransaction(<<s>> \o <<t>> \o <<t>>)}
    BY DEF E!createPurchaseOrder
  <2> HIDE DEF s, t
  <2>3. <<s>> \o <<t>> \in Seq(Z) /\ <<s>> \o <<t>> \o <<t>> \in Seq(Z)
    OBVIOUS
  <2>4. QED
    BY <2>1, <2>2, <2>3, EcommerceTransactions
<1>9. \A script \in E!createNewOrder : WellFormed(script)
  <2> DEFINE s == E!Insert("orders", {"users"})
             t == E!Insert("order_items", {"products"})
             u(r) == E!checkStockAndReorder(E!UpdateRow("inventory", <<"inventory", r>>))
             Z == {s, t} \cup {u(r) : r \in LockRows}
  <2>1. \A x \in Z : Inner(x) /\ x.after # "attempt"
    <3>1. Inner(s) /\ s.after # "attempt" /\ Inner(t) /\ t.after # "attempt"
      BY EcommerceWrites
    <3>2. \A r : Inner(u(r)) /\ u(r).after = "next"
      BY EcommerceWrites, Zenon DEF E!checkStockAndReorder
    <3> HIDE DEF s, t, u
    <3>3. QED
      BY <3>1, <3>2
  <2>2. \A script \in E!createNewOrder : \E r, q \in LockRows :
            script = E!InTransaction(<<s>> \o <<t, u(r)>> \o <<t, u(q)>>)
    <3> DEFINE F(r, q) == E!InTransaction(<<s>> \o <<t, u(r)>> \o <<t, u(q)>>)
    <3>1. E!createNewOrder = {F(r, q) : r, q \in LockRows}
      BY DEF E!createNewOrder
    <3> HIDE DEF F
    <3>2. \A script \in E!createNewOrder : \E r, q \in LockRows : script = F(r, q)
      BY <3>1
    <3>3. QED
      BY <3>2 DEF F
  <2> HIDE DEF s, t, u
  <2>3. \A r, q \in LockRows : <<s>> \o <<t, u(r)>> \o <<t, u(q)>> \in Seq(Z)
    OBVIOUS
  <2>4. QED
    BY <2>1, <2>2, <2>3, EcommerceTransactions
<1>10. QED
  BY <1>4, <1>5, <1>6, <1>7, <1>8, <1>9 DEF E!executeWriteOperation

LEMMA EcommerceFormed ==
  ASSUME NEW mode \in E!Modes, NEW script \in E!Operations(mode)
  PROVE  WellFormed(script)
<1>1. \A X \in {E!getUserByEmail, E!getProductBySKU, E!getUserOrders, E!getInventoryByProduct, E!getOrderDetails,
                E!getInventoryAnalysis, E!getUserSpendingTrends, E!getTopProductsByCategory,
                E!getVendorPerformance, E!getStockControlReport, E!getSalesAnalytics,
                E!getCustomerSegmentation} : \E Y : X = {<<E!Read(Y)>>}
  BY Zenon DEF E!One, E!getUserByEmail, E!getProductBySKU, E!getUserOrders, E!getInventoryByProduct, E!getOrderDetails,
                E!getInventoryAnalysis, E!getUserSpendingTrends, E!getTopProductsByCategory,
                E!getVendorPerformance, E!getStockControlReport, E!getSalesAnalytics,
                E!getCustomerSegmentation
<1>2. \A u \in E!executeOLTPReadOperation \cup E!executeAnalyticsOperation : WellFormed(u)
  BY <1>1, EcommerceReads DEF E!executeOLTPReadOperation, E!executeAnalyticsOperation
<1>3. \A u \in E!updateOrderStatus : WellFormed(u)
  BY EcommerceWrites, OneBare DEF E!updateOrderStatus, E!One
<1>4. \A u \in E!executeOLTPWriteOperation : WellFormed(u)
  BY <1>3, EcommerceWritesFormed DEF E!executeOLTPWriteOperation, E!executeWriteOperation
<1>5. QED
  BY <1>2, <1>4, EcommerceReadsFormed, EcommerceWritesFormed DEF E!Modes, E!Operations

LEMMA BasicTransactions ==
  ASSUME NEW Z, \A s \in Z : Inner(s) /\ s.after # "attempt", NEW body \in Seq(Z)
  PROVE  WellFormed(B!InTransaction(body))
<1>1. /\ B!Begin.verb = "begin" /\ B!Begin.after = "next" /\ B!Begin.row = <<>> /\ B!Commit.row = <<>>
      /\ B!Commit.verb = "commit" /\ B!Commit.via = "transaction" /\ B!Commit.after = "next"
  BY DEF B!Begin, B!Commit, B!Plain
<1>2. QED
  BY <1>1, TransactionFormed DEF B!InTransaction

LEMMA EcommerceBasicFormed ==
  ASSUME NEW mode \in B!Modes, NEW script \in B!Operations(mode)
  PROVE  WellFormed(script)
<1>1. /\ \A Y : Inner(B!Read(Y)) /\ Inner(B!Update(Y)) /\ B!Update(Y).after = "next"
      /\ \A t, refs : Inner(B!Insert(t, refs)) /\ B!Insert(t, refs).after = "next"
  BY DEF Inner, Writing, B!Insert, B!Update, B!Read, B!Plain
<1>2. \A X \in {B!getUserByEmail, B!getProductBySKU, B!getProductsByCategory, B!getOrderDetailsWithItems,
                B!getUserActivitySummary, B!getUserOrders, B!getProductReviews, B!getProductAnalytics,
                B!getRecentActivity, B!getInventoryAnalysis, B!searchProductsByName, B!findSimilarUsers,
                B!getTopProductsByCategory, B!getUserSpendingTrends} : \E Y : X = {<<B!Read(Y)>>}
  BY Zenon DEF B!One, B!getUserByEmail, B!getProductBySKU, B!getProductsByCategory, B!getOrderDetailsWithItems,
                B!getUserActivitySummary, B!getUserOrders, B!getProductReviews, B!getProductAnalytics,
                B!getRecentActivity, B!getInventoryAnalysis, B!searchProductsByName, B!findSimilarUsers,
                B!getTopProductsByCategory, B!getUserSpendingTrends
<1>3. \A u \in B!executeReadOperation \cup B!executeOLTPReadOperation \cup B!executeAnalyticsOperation :
          WellFormed(u)
  BY <1>1, <1>2, OneBare DEF B!executeReadOperation, B!executeOLTPReadOperation, B!executeAnalyticsOperation
<1>4. \A X \in {B!createUser, B!createProduct, B!createReview, B!logProductView} :
          \E t, refs : X = {<<B!Insert(t, refs)>>}
  BY Zenon DEF B!One, B!createUser, B!createProduct, B!createReview, B!logProductView
<1>5. \A X \in {B!updateUserInfo, B!updateProductRating, B!updateInventory} : \E t : X = {<<B!Update(t)>>}
  BY Zenon DEF B!One, B!updateUserInfo, B!updateProductRating, B!updateInventory
<1>6. \A u \in B!createOrder : WellFormed(u)
  <2> DEFINE s == B!Insert("orders", {"users"})
             t == B!Insert("order_items", {"products"})
             v == B!Update("orders")
             Z == {s, t, v}
  <2>1. \A x \in Z : Inner(x) /\ x.after # "attempt"
    BY <1>1
  <2>2. B!createOrder = {B!InTransaction(<<s>> \o <<t>> \o <<v>>),
                         B!InTransaction(<<s>> \o (<<t>> \o <<t>>) \o <<v>>)}
    BY DEF B!createOrder
  <2> HIDE DEF s, t, v
  <2>3. <<s>> \o <<t>> \o <<v>> \in Seq(Z) /\ <<s>> \o (<<t>> \o <<t>>) \o <<v>> \in Seq(Z)
    OBVIOUS
  <2>4. QED
    BY <2>1, <2>2, <2>3, BasicTransactions
<1>7. \A u \in B!executeWriteOperation \cup B!executeOLTPWriteOperation : WellFormed(u)
  BY <1>1, <1>4, <1>5, <1>6, OneBare DEF B!executeWriteOperation, B!executeOLTPWriteOperation
<1>8. QED
  BY <1>3, <1>7 DEF B!Modes, B!Operations

LEMMA ImdbFormed ==
  ASSUME NEW mode \in I!Modes, NEW script \in I!Operations(mode)
  PROVE  WellFormed(script)
<1>1. /\ \A Y : Inner(I!Read(Y)) /\ Inner(I!Update(Y)) /\ Inner(I!Ignored(I!Read(Y)))
      /\ \A t, refs : Inner(I!Insert(t, refs))
      /\ \A Y, needs : Inner(I!MustFind(Y, needs)) /\ I!MustFind(Y, needs).verb \notin Writing
  BY DEF Inner, Writing, I!Insert, I!Update, I!Read, I!MustFind, I!Ignored, I!Plain
<1>2. \A X \in {I!testIndexedTitleSearch, I!testIndexedRatingSearch, I!testCompositeIndexSearch,
                I!testGINIndexSearch, I!testFullTableScan, I!testSimpleJoin, I!getActorMovies,
                I!getMovieComments, I!testWindowFunctionRanking, I!testCTERecursiveAnalysis,
                I!testComplexCTEAnalysis, I!testAdvancedWindowFunctions,
                I!testActorCareerAnalysisCTE} : \E Y : X = {<<I!Read(Y)>>}
  BY Zenon DEF I!One, I!testIndexedTitleSearch, I!testIndexedRatingSearch, I!testCompositeIndexSearch,
                I!testGINIndexSearch, I!testFullTableScan, I!testSimpleJoin, I!getActorMovies,
                I!getMovieComments, I!testWindowFunctionRanking, I!testCTERecursiveAnalysis,
                I!testComplexCTEAnalysis, I!testAdvancedWindowFunctions, I!testActorCareerAnalysisCTE
<1>3. \A u \in I!testUniqueIndexSearch \cup I!getMovieDetails : WellFormed(u)
  BY <1>1, OneBare, TwoBare DEF I!testUniqueIndexSearch, I!getMovieDetails, I!One
<1>4. \A u \in I!executeReadOperation : WellFormed(u)
  BY <1>1, <1>2, <1>3, OneBare DEF I!executeReadOperation
<1>5. \A X \in {I!insertNewComment, I!insertNewMovie, I!insertNewActor, I!addMovieActor, I!logMovieView} :
          \E t, refs : X = {<<I!Insert(t, refs)>>}
  BY Zenon DEF I!One, I!insertNewComment, I!insertNewMovie, I!insertNewActor, I!addMovieActor, I!logMovieView
<1>6. \A X \in {I!updateMovieRating, I!updateCommentHelpfulness} : \E t : X = {<<I!Update(t)>>}
  BY Zenon DEF I!One, I!updateMovieRating, I!updateCommentHelpfulness
<1>7. \A u \in I!executeWriteOperation : WellFormed(u)
  BY <1>1, <1>5, <1>6, OneBare DEF I!executeWriteOperation
<1>8. QED
  BY <1>4, <1>7 DEF I!Modes, I!Operations

LEMMA SimpleFormed ==
  ASSUME NEW mode \in S!Modes, NEW script \in S!Operations(mode)
  PROVE  WellFormed(script)
<1>1. \A Y, needs : Inner(S!MustFind(Y, needs)) /\ Inner(S!Update(Y))
  BY DEF Inner, Writing, S!MustFind, S!Update, S!Plain
<1>2. \A u \in S!doRead \cup S!doWrite : WellFormed(u)
  BY <1>1, OneBare DEF S!doRead, S!doWrite, S!One
<1>3. QED
  BY <1>2 DEF S!Modes, S!Operations

LEMMA ConnectionTransactions ==
  ASSUME NEW Z, \A s \in Z : Inner(s) /\ s.after # "attempt", NEW body \in Seq(Z)
  PROVE  WellFormed(C!InTransaction(body)) /\ WellFormed(C!OnOwnConnection(body))
<1> DEFINE begin == [C!Begin EXCEPT !.via = "own"]
<1>1. /\ C!Begin.verb = "begin" /\ C!Begin.after = "next" /\ C!Begin.row = <<>> /\ C!Commit.row = <<>>
      /\ begin.verb = "begin" /\ begin.after = "next" /\ begin.row = <<>>
      /\ C!Commit.verb = "commit" /\ C!Commit.via = "transaction" /\ C!Commit.after = "next"
  BY DEF C!Begin, C!Commit, C!Plain
<1>2. WellFormed(C!InTransaction(body))
  BY <1>1, TransactionFormed DEF C!InTransaction
<1> HIDE DEF begin
<1>3. WellFormed(<<begin>> \o body \o <<C!Commit>>)
  BY <1>1, TransactionFormed
<1>4. C!OnOwnConnection(body) = <<begin>> \o body \o <<C!Commit>>
  BY DEF C!OnOwnConnection, begin
<1>5. QED
  BY <1>2, <1>3, <1>4

LEMMA ConnectionOverheadFormed ==
  ASSUME NEW mode, NEW script \in C!Operations(mode)
  PROVE  WellFormed(script)
<1>1. \A s \in C!generateOperations : Inner(s) /\ s.after # "attempt"
  <2>1. \A Y, refs : \A s \in {C!Malformed, C!Read(Y), C!Insert(Y, refs), C!Update(Y), C!Delete(Y)} :
            Inner(s) /\ s.after # "attempt"
    BY DEF Inner, Writing, C!Malformed, C!Read, C!Insert, C!Update, C!Delete, C!Plain
  <2>2. \A s \in C!generateOperations :
            \E Y, refs : s \in {C!Malformed, C!Read(Y), C!Insert(Y, refs), C!Update(Y), C!Delete(Y)}
    BY DEF C!generateOperations, C!generateArgsForQuery
  <2>3. QED
    BY <2>1, <2>2
<1>2. ASSUME NEW s \in C!generateOperations
      PROVE  WellFormed(C!InTransaction(<<s>>)) /\ WellFormed(C!OnOwnConnection(<<s>>))
  <2>1. <<s>> \in Seq({s}) /\ \A u \in {s} : Inner(u) /\ u.after # "attempt"
    BY <1>1
  <2>2. QED
    BY <2>1, ConnectionTransactions
<1>3. QED
  BY <1>2 DEF C!Operations, C!executePersistentOperation, C!executeTransientOperation

LEMMA VectorSearchFormed ==
  ASSUME NEW mode \in V!Modes, NEW script \in V!Operations(mode)
  PROVE  WellFormed(script)
<1>1. \A t : Inner(V!InsertNext(t)) /\ Inner(V!Update(t)) /\ Inner(V!Read(t))
  BY DEF Inner, Writing, V!InsertNext, V!Insert, V!Update, V!Read, V!Plain
<1>2. \A u \in UNION {V!runSingleInsertTest, V!runBatchInsertTest, V!runCopyInsertTest, V!runUpdateTest,
                      V!runReadTest} : WellFormed(u)
  BY <1>1, OneBare DEF V!runSingleInsertTest, V!runBatchInsertTest, V!runCopyInsertTest, V!runUpdateTest,
                       V!runReadTest, V!One
<1>3. QED
  BY <1>2 DEF V!Modes, V!Operations, V!runIngestionTest

LEMMA TpccTransactions ==
  ASSUME NEW Z, \A s \in Z : Inner(s) /\ s.after # "attempt", NEW body \in Seq(Z)
  PROVE  WellFormed(T!InTransaction(body))
<1>1. /\ T!Begin.verb = "begin" /\ T!Begin.after = "next" /\ T!Begin.row = <<>> /\ T!Commit.row = <<>>
      /\ T!Commit.verb = "commit" /\ T!Commit.via = "transaction" /\ T!Commit.after = "next"
  BY DEF T!Begin, T!Commit, T!Plain
<1>2. QED
  BY <1>1, TransactionFormed DEF T!InTransaction

LEMMA TpccAfterReads ==
  ASSUME NEW Z, \A s \in Z : Inner(s) /\ s.after # "attempt", NEW body \in Seq(Z), NEW before \in Seq(Z),
         \A i \in 1 .. Len(before) : before[i].verb \notin Writing /\ before[i].row = <<>>
  PROVE  WellFormed(before \o T!InTransaction(body))
<1>1. /\ T!Begin.verb = "begin" /\ T!Begin.after = "next" /\ T!Begin.row = <<>> /\ T!Commit.row = <<>>
      /\ T!Commit.verb = "commit" /\ T!Commit.via = "transaction" /\ T!Commit.after = "next"
  BY DEF T!Begin, T!Commit, T!Plain
<1>2. QED
  BY <1>1, Concatenated DEF T!InTransaction

LEMMA TpccFormed ==
  ASSUME NEW mode, NEW script \in T!Operations(mode)
  PROVE  WellFormed(script)
<1>2. /\ \A t, r : Inner(T!UpdateRow(t, r)) /\ T!UpdateRow(t, r).after = "next"
      /\ \A t, refs : Inner(T!Insert(t, refs)) /\ T!Insert(t, refs).after = "next"
      /\ \A t, needs : Inner(T!MustFind(t, needs)) /\ T!MustFind(t, needs).after = "next"
      /\ \A d : Inner(T!NextOrderID(d)) /\ T!NextOrderID(d).after = "next"
      /\ \A t : Inner(T!Read(t)) /\ T!Read(t).after = "next" /\ T!Read(t).verb \notin Writing /\ T!Read(t).row = <<>>
      /\ \A t : Inner(T!Ignored(T!Read(t))) /\ T!Ignored(T!Read(t)).after = "ignored"
  BY DEF Inner, Writing, T!UpdateRow, T!Update, T!Insert, T!MustFind, T!NextOrderID, T!Locking, T!Read, T!Ignored,
         T!Plain
<1>3. \A u \in T!paymentTx : WellFormed(u)
  <2>1. ASSUME NEW d \in LockRows
        PROVE  WellFormed(T!InTransaction(<< T!UpdateRow("warehouse", T!WarehouseRow),
                   T!UpdateRow("district", T!DistrictRow(d)), T!UpdateRow("customer", T!CustomerRow(d)) >>))
    <3> DEFINE p == T!UpdateRow("warehouse", T!WarehouseRow)
               q == T!UpdateRow("district", T!DistrictRow(d))
               r == T!UpdateRow("customer", T!CustomerRow(d))
    <3>1. \A s \in {p, q, r} : Inner(s) /\ s.after # "attempt"
      BY <1>2
    <3> HIDE DEF p, q, r
    <3>2. <<p, q, r>> \in Seq({p, q, r})
      OBVIOUS
    <3>3. WellFormed(T!InTransaction(<<p, q, r>>))
      BY <3>1, <3>2, TpccTransactions
    <3>4. QED
      BY <3>3 DEF p, q, r
  <2>2. QED
    BY <2>1 DEF T!paymentTx
<1>4. \A u \in T!newOrderTx : WellFormed(u)
  <2>1. ASSUME NEW d \in LockRows
        PROVE  WellFormed(T!InTransaction(<< T!NextOrderID(d), T!Insert("orders", {}),
                   T!UpdateRow("district", T!DistrictRow(d)), T!Insert("order_line", {}),
                   T!Insert("order_line", {}) >>))
    <3> DEFINE p == T!NextOrderID(d)
               q == T!Insert("orders", {})
               r == T!UpdateRow("district", T!DistrictRow(d))
               s == T!Insert("order_line", {})
    <3>1. \A u \in {p, q, r, s} : Inner(u) /\ u.after # "attempt"
      BY <1>2
    <3> HIDE DEF p, q, r, s
    <3>2. <<p, q, r, s, s>> \in Seq({p, q, r, s})
      OBVIOUS
    <3>3. WellFormed(T!InTransaction(<<p, q, r, s, s>>))
      BY <3>1, <3>2, TpccTransactions
    <3>4. QED
      BY <3>3 DEF p, q, r, s
  <2>2. QED
    BY <2>1 DEF T!newOrderTx
<1>5. \A u \in T!orderStatusTx : WellFormed(u)
  <2> DEFINE p == T!MustFind({"customer"}, {"customer"})
             q == T!Read({"orders"})
             i == T!Ignored(q)
             r == T!Read({"order_line"})
             c == T!Read({"customer"})
             Z == {p, q, i, r, c}
  <2>1. \A u \in Z : Inner(u) /\ u.after # "attempt"
    BY <1>2
  <2>2. c.verb \notin Writing /\ c.row = <<>>
    BY <1>2
  <2>3. T!orderStatusTx = {T!InTransaction(<<p, q, r>>), T!InTransaction(<<p, i>>),
                           <<c>> \o T!InTransaction(<<p, q, r>>), <<c>> \o T!InTransaction(<<p, i>>)}
    BY DEF T!orderStatusTx
  <2> HIDE DEF p, q, i, r, c
  <2>4. <<p, q, r>> \in Seq(Z) /\ <<p, i>> \in Seq(Z) /\ <<c>> \in Seq(Z)
    OBVIOUS
  <2>5. \A k \in 1 .. Len(<<c>>) : <<c>>[k].verb \notin Writing /\ <<c>>[k].row = <<>>
    BY <2>2
  <2>6. WellFormed(T!InTransaction(<<p, q, r>>)) /\ WellFormed(T!InTransaction(<<p, i>>))
    BY <2>1, <2>4, TpccTransactions
  <2>7. WellFormed(<<c>> \o T!InTransaction(<<p, q, r>>)) /\ WellFormed(<<c>> \o T!InTransaction(<<p, i>>))
    BY <2>1, <2>4, <2>5, TpccAfterReads
  <2>8. QED
    BY <2>3, <2>6, <2>7
<1>6. QED
  BY <1>3, <1>4, <1>5 DEF T!Operations, T!rollTransaction

-----------------------------------------------------------------------------
\* The plugins send well-formed scripts only.
LEMMA OperationsFormed ==
  ASSUME plugin \in Plugins, program.mode \in Modes(plugin), NEW script \in Operations
  PROVE  WellFormed(script)
<1>1. CASE plugin = "ecommerce"
  BY <1>1, EcommerceFormed DEF Modes, Operations
<1>2. CASE plugin = "ecommerce_basic"
  BY <1>2, EcommerceBasicFormed DEF Modes, Operations
<1>3. CASE plugin = "imdb"
  BY <1>3, ImdbFormed DEF Modes, Operations
<1>4. CASE plugin = "tpcc"
  BY <1>4, TpccFormed DEF Modes, Operations
<1>5. CASE plugin = "simple"
  BY <1>5, SimpleFormed DEF Modes, Operations
<1>6. CASE plugin = "connection"
  BY <1>6, ConnectionOverheadFormed DEF Modes, Operations
<1>7. CASE plugin = "vector"
  BY <1>7, VectorSearchFormed DEF Modes, Operations
<1>8. QED
  BY <1>1, <1>2, <1>3, <1>4, <1>5, <1>6, <1>7 DEF Plugins

\* What is written before statement n of a script.
WritesBefore(script, n) == UNION {script[i].tables : i \in {j \in 1 .. n - 1 : script[j].verb \in Writing}}

OperationFields == {"pc", "script", "kept", "pending", "outcome"}

\* An operation is well-formed and at one of its statements, or over.  Without a transaction its
\* writes are those of one statement; in a transaction they are pending until the commit.
OperationInv(o) ==
  /\ DOMAIN o = OperationFields
  /\ IsScript(o.script) /\ (Bare(o.script) \/ Transactional(o.script)) /\ o.pc \in Nat
  /\ o.outcome = "none" => o.pc \in 0 .. Len(o.script)
  /\ Bare(o.script) => o.pending = {} /\ o.kept \in {{}, Writes(o.script)} /\ o.outcome # "unanswered"
  /\ Transactional(o.script) =>
       /\ o.outcome = "none" => o.kept = {} /\ o.pending = WritesBefore(o.script, o.pc)
       /\ o.outcome # "none" => o.pending = {} /\ o.kept \in {{}, Writes(o.script)}
       /\ o.outcome = "unanswered" => o.kept = Writes(o.script)

\* No transaction is open in a script that begins none.
LEMMA NeverOpen ==
  ASSUME NEW script, Bare(script), NEW n \in Nat, n <= Len(script), Len(script) \in Nat
  PROVE  ~OpenAfter(script, n)
<1>1. \A i \in 1 .. n : i \in 1 .. Len(script)
  OBVIOUS
<1>2. QED
  BY <1>1 DEF Bare, Inner, OpenAfter

\* The transaction is open from its begin to its commit.
LEMMA OpenFrom ==
  ASSUME NEW script, Len(script) \in Nat, NEW b \in 1 .. Len(script), BeginsAt(script, b),
         NEW n \in Nat, n < Len(script)
  PROVE  OpenAfter(script, n) <=> b <= n
<1>1. ASSUME NEW i \in 1 .. n, script[i].verb = "begin" PROVE i = b
  BY <1>1 DEF BeginsAt, Inner
<1>2. ASSUME NEW i \in 1 .. n PROVE script[i].verb # "commit"
  BY <1>2 DEF BeginsAt, Inner
<1>3. ASSUME OpenAfter(script, n) PROVE b <= n
  BY <1>1, <1>3 DEF OpenAfter
<1>4. ASSUME b <= n PROVE OpenAfter(script, n)
  <2>1. b \in 1 .. n /\ script[b].verb = "begin"
    BY <1>4 DEF BeginsAt
  <2>2. \A j \in b .. n : script[j].verb # "commit"
    BY <1>2
  <2>3. QED
    BY <2>1, <2>2 DEF OpenAfter
<1>5. QED
  BY <1>3, <1>4

\* One statement more.
LEMMA WritesNext ==
  ASSUME NEW script, NEW n \in Nat, n > 0
  PROVE  WritesBefore(script, n + 1) =
           WritesBefore(script, n) \cup (IF script[n].verb \in Writing THEN script[n].tables ELSE {})
<1>1. \A t : t \in WritesBefore(script, n + 1) <=> \E i \in 1 .. n : script[i].verb \in Writing /\ t \in script[i].tables
  BY DEF WritesBefore
<1>2. \A t : t \in WritesBefore(script, n) <=> \E i \in 1 .. n - 1 : script[i].verb \in Writing /\ t \in script[i].tables
  BY DEF WritesBefore
<1>3. 1 .. n = (1 .. n - 1) \cup {n}
  OBVIOUS
<1>4. ASSUME NEW t
      PROVE  t \in WritesBefore(script, n + 1) <=>
                t \in WritesBefore(script, n) \/ (script[n].verb \in Writing /\ t \in script[n].tables)
  BY <1>1, <1>2, <1>3
<1>5. QED
  BY <1>4

LEMMA WritesAll ==
  ASSUME NEW script, IsScript(script)
  PROVE  Writes(script) = WritesBefore(script, Len(script) + 1)
<1>1. DOMAIN script = 1 .. (Len(script) + 1) - 1
  BY DEF IsScript
<1>2. QED
  BY <1>1 DEF Writes, WritesBefore

-----------------------------------------------------------------------------
Underway(o) == OperationInv(o) /\ o.pc # 0 /\ o.outcome = "none"

\* The fields of an operation after it is stopped or goes on.
LEMMA StoppedFields ==
  ASSUME NEW o, DOMAIN o = OperationFields, NEW cause
  PROVE  /\ DOMAIN Stopped(o, cause) = OperationFields
         /\ Stopped(o, cause).pc = o.pc /\ Stopped(o, cause).script = o.script
         /\ Stopped(o, cause).kept = o.kept
         /\ Stopped(o, cause).pending = {} /\ Stopped(o, cause).outcome = cause
BY DEF Stopped, OperationFields

LEMMA ContinuedFields ==
  ASSUME NEW o, DOMAIN o = OperationFields, NEW n \in Nat, o.pc \in Nat, Len(o.script) \in Nat
  PROVE  /\ DOMAIN Continued(o, n) = OperationFields
         /\ Continued(o, n).script = o.script
         /\ Continued(o, n).kept = o.kept /\ Continued(o, n).pending = o.pending
         /\ \/ Continued(o, n).pc = o.pc /\ Continued(o, n).outcome = "succeeded"
            \/ /\ Continued(o, n).pc \in 1 .. Len(o.script) \cup {o.pc}
               /\ Continued(o, n).outcome = o.outcome
BY DEF Continued, OperationFields

LEMMA CommittedFields ==
  ASSUME NEW o, DOMAIN o = OperationFields
  PROVE  /\ DOMAIN Committed(o) = OperationFields /\ Committed(o).script = o.script
         /\ Committed(o).pc = o.pc /\ Committed(o).outcome = o.outcome
         /\ Committed(o).kept = o.kept \cup o.pending /\ Committed(o).pending = {}
BY DEF Committed, OperationFields

LEMMA ContinuedOnce ==
  ASSUME NEW o, DOMAIN o = OperationFields, o.pc \in Nat, Len(o.script) \in Nat
  PROVE  /\ DOMAIN Continued(o, 1) = OperationFields
         /\ Continued(o, 1).script = o.script
         /\ Continued(o, 1).kept = o.kept /\ Continued(o, 1).pending = o.pending
         /\ o.pc = Len(o.script) => Continued(o, 1).pc = o.pc /\ Continued(o, 1).outcome = "succeeded"
         /\ o.pc < Len(o.script) => Continued(o, 1).pc = o.pc + 1 /\ Continued(o, 1).outcome = o.outcome
BY DEF Continued, OperationFields

\* What is known of an operation in a script with a transaction.
LEMMA TransactionAt ==
  ASSUME NEW o, Underway(o), NEW b \in 1 .. Len(o.script), BeginsAt(o.script, b)
  PROVE  /\ Len(o.script) \in Nat /\ o.pc \in 1 .. Len(o.script)
         /\ o.kept = {} /\ o.pending = WritesBefore(o.script, o.pc)
         /\ ~Bare(o.script)
         /\ o.pc < b => Inner(o.script[o.pc]) /\ o.script[o.pc].after # "attempt"
                         /\ o.script[o.pc].verb \notin Writing
         /\ o.pc = b => o.script[o.pc].verb = "begin" /\ o.script[o.pc].after = "next"
         /\ o.pc > b /\ o.pc < Len(o.script) =>
               /\ Inner(o.script[o.pc]) /\ o.script[o.pc].after # "attempt"
               /\ OpenAfter(o.script, o.pc - 1)
         /\ o.pc = Len(o.script) => o.script[o.pc].verb = "commit" /\ o.script[o.pc].after = "next"
<1>1. Len(o.script) \in Nat /\ o.pc \in 1 .. Len(o.script) /\ Transactional(o.script)
  BY DEF Underway, OperationInv, IsScript, Transactional
<1>2. o.kept = {} /\ o.pending = WritesBefore(o.script, o.pc)
  BY <1>1 DEF Underway, OperationInv
<1>3. ~Bare(o.script)
  BY <1>1 DEF Bare, BeginsAt, Inner
<1>4. o.pc > b /\ o.pc < Len(o.script) => OpenAfter(o.script, o.pc - 1)
  BY <1>1, OpenFrom
<1>5. QED
  BY <1>1, <1>2, <1>3, <1>4 DEF BeginsAt

LEMMA BareAt ==
  ASSUME NEW o, Underway(o), Bare(o.script)
  PROVE  /\ Len(o.script) \in Nat /\ o.pc \in 1 .. Len(o.script)
         /\ ~Transactional(o.script)
         /\ o.pending = {} /\ o.kept \in {{}, Writes(o.script)}
         /\ Inner(o.script[o.pc]) /\ ~OpenAfter(o.script, o.pc - 1)
         /\ o.script[o.pc].verb \in Writing => Writes(o.script) = o.script[o.pc].tables
<1>1. Len(o.script) \in Nat /\ DOMAIN o.script = 1 .. Len(o.script) /\ o.pc \in 1 .. Len(o.script)
  BY DEF Underway, OperationInv, IsScript
<1>2. ~Transactional(o.script)
  BY DEF Bare, BeginsAt, Inner, Transactional
<1>3. o.pending = {} /\ o.kept \in {{}, Writes(o.script)}
  BY DEF Underway, OperationInv
<1>4. ~OpenAfter(o.script, o.pc - 1)
  BY <1>1, NeverOpen
<1>5. ASSUME o.script[o.pc].verb \in Writing PROVE Writes(o.script) = o.script[o.pc].tables
  <2>1. {j \in DOMAIN o.script : o.script[j].verb \in Writing} = {o.pc}
    BY <1>1, <1>5 DEF Bare
  <2>2. QED
    BY <2>1 DEF Writes
<1>6. QED
  BY <1>1, <1>2, <1>3, <1>4, <1>5 DEF Bare

\* An operation that ends by an error, with no answer, or with an error passed over.
LEMMA StoppedInv ==
  ASSUME NEW o, Underway(o), NEW cause, cause \notin {"none", "unanswered"}
  PROVE  OperationInv(Stopped(o, cause))
<1>1. DOMAIN o = OperationFields
  BY DEF Underway, OperationInv
<1>2. CASE Bare(o.script)
  BY <1>1, <1>2, BareAt, StoppedFields DEF OperationInv, Underway
<1>3. CASE Transactional(o.script)
  <2>1. ~Bare(o.script) /\ o.kept = {}
    BY <1>3, TransactionAt DEF Transactional
  <2>2. QED
    BY <1>1, <1>3, <2>1, StoppedFields DEF OperationInv, Underway
<1>4. QED
  BY <1>2, <1>3 DEF Underway, OperationInv

LEMMA UnansweredInv ==
  ASSUME NEW o, Underway(o), o.script[o.pc].verb = "commit"
  PROVE  OperationInv(Stopped(Committed(o), "unanswered")) /\ Committed(o).kept = Writes(o.script)
                /\ Transactional(o.script)
<1>1. DOMAIN o = OperationFields /\ IsScript(o.script)
  BY DEF Underway, OperationInv
<1>2. ~Bare(o.script)
  BY BareAt DEF Inner
<1>3. Transactional(o.script)
  BY <1>2 DEF Underway, OperationInv
<1>4. PICK b \in 1 .. Len(o.script) : BeginsAt(o.script, b)
  BY <1>3 DEF Transactional
<1>5. o.pc = Len(o.script) /\ o.pc \in Nat /\ o.pc > 0
  BY <1>4, TransactionAt DEF Inner
<1>6. o.kept = {} /\ o.pending = WritesBefore(o.script, o.pc)
  BY <1>4, TransactionAt
<1>7. o.pending = Writes(o.script)
  <2>1. WritesBefore(o.script, o.pc + 1) =
           WritesBefore(o.script, o.pc)
               \cup (IF o.script[o.pc].verb \in Writing THEN o.script[o.pc].tables ELSE {})
    BY <1>5, WritesNext
  <2>2. Writes(o.script) = WritesBefore(o.script, o.pc + 1)
    BY <1>1, <1>5, WritesAll
  <2>3. QED
    BY <1>6, <2>1, <2>2 DEF Writing
<1> DEFINE d == Committed(o)
           q == Stopped(d, "unanswered")
<1>8. /\ DOMAIN d = OperationFields /\ d.script = o.script /\ d.pc = o.pc
      /\ d.kept = Writes(o.script) /\ d.pending = {}
  <2>1. /\ DOMAIN d = OperationFields /\ d.script = o.script /\ d.pc = o.pc
        /\ d.kept = o.kept \cup o.pending /\ d.pending = {}
    BY <1>1, CommittedFields
  <2>2. o.kept \cup o.pending = Writes(o.script)
    BY <1>6, <1>7
  <2>3. QED
    BY <2>1, <2>2
<1> HIDE DEF d
<1>9. /\ DOMAIN q = OperationFields /\ q.script = o.script /\ q.pc = o.pc
      /\ q.kept = Writes(o.script) /\ q.pending = {} /\ q.outcome = "unanswered"
  BY <1>8, StoppedFields
<1> HIDE DEF q
<1>10. OperationInv(q)
  BY <1>1, <1>2, <1>3, <1>5, <1>9 DEF OperationInv
<1>11. QED
  BY <1>3, <1>8, <1>10 DEF d, q

LEMMA PassedOverInv ==
  ASSUME NEW o, Underway(o), o.script[o.pc].after \in {"ignored", "attempt"}
  PROVE  OperationInv(Continued(o, 1))
<1>1. DOMAIN o = OperationFields /\ o.pc \in Nat /\ Len(o.script) \in Nat
  BY DEF Underway, OperationInv, IsScript
<1>2. CASE Bare(o.script)
  <2>1. /\ o.pc \in 1 .. Len(o.script) /\ ~Transactional(o.script)
        /\ o.pending = {} /\ o.kept \in {{}, Writes(o.script)}
    BY <1>2, BareAt
  <2>2. QED
    BY <1>1, <1>2, <2>1, ContinuedOnce DEF OperationInv, Underway
<1>3. CASE Transactional(o.script)
  <2>1. PICK b \in 1 .. Len(o.script) : BeginsAt(o.script, b)
    BY <1>3 DEF Transactional
  <2>2. /\ ~Bare(o.script) /\ o.pc < Len(o.script) /\ o.pc > 0 /\ o.script[o.pc].verb \notin Writing
        /\ o.kept = {} /\ o.pending = WritesBefore(o.script, o.pc)
    BY <1>1, <2>1, TransactionAt DEF Inner
  <2>3. WritesBefore(o.script, o.pc + 1) = o.pending
    <3>1. WritesBefore(o.script, o.pc + 1) =
             WritesBefore(o.script, o.pc)
                 \cup (IF o.script[o.pc].verb \in Writing THEN o.script[o.pc].tables ELSE {})
      BY <1>1, <2>2, WritesNext
    <3>2. QED
      BY <2>2, <3>1
  <2>4. QED
    BY <1>1, <1>3, <2>2, <2>3, ContinuedOnce DEF OperationInv, Underway
<1>4. QED
  BY <1>2, <1>3 DEF Underway, OperationInv

\* An operation whose statement succeeds.
Done(o) == IF o.script[o.pc].verb = "commit" THEN Committed(o) ELSE Effect(o, o.script[o.pc])

LEMMA DoneInv ==
  ASSUME NEW o, Underway(o)
  PROVE  /\ OperationInv(Continued(Done(o), IF o.script[o.pc].after = "attempt" THEN 2 ELSE 1))
         /\ o.script[o.pc].after = "maybe" => OperationInv(Stopped(Done(o), "succeeded"))
<1> DEFINE s == o.script[o.pc]
           n == IF s.after = "attempt" THEN 2 ELSE 1
           d == Done(o)
<1>1. DOMAIN o = OperationFields /\ o.pc \in Nat /\ Len(o.script) \in Nat /\ o.pc # 0 /\ o.outcome = "none"
      /\ IsScript(o.script)
  BY DEF Underway, OperationInv, IsScript
<1>2. CASE Bare(o.script)
  <2>1. /\ Inner(s) /\ ~Transactional(o.script) /\ o.pc \in 1 .. Len(o.script)
        /\ s.verb # "commit"
    BY <1>2, BareAt DEF Inner
  <2>2. /\ DOMAIN d = OperationFields /\ d.pc = o.pc /\ d.script = o.script /\ d.outcome = "none"
        /\ d.pending = {} /\ d.kept \in {{}, Writes(o.script)}
    <3>1. CASE s.verb \notin Writing
      BY <1>1, <1>2, <2>1, <3>1, BareAt DEF Done, Effect
    <3>2. CASE s.verb \in Writing
      <4>1. d = [o EXCEPT !.kept = o.kept \cup s.tables]
        BY <1>2, <2>1, <3>2, BareAt DEF Done, Effect
      <4>2. o.kept \cup s.tables = Writes(o.script)
        BY <1>2, <3>2, BareAt
      <4> HIDE DEF d
      <4>3. QED
        BY <1>1, <1>2, <4>1, <4>2, BareAt DEF OperationFields
    <3>3. QED
      BY <3>1, <3>2
  <2>3. n \in Nat
    OBVIOUS
  <2> HIDE DEF d, n
  <2>4. OperationInv(Continued(d, n))
    <3> DEFINE q == Continued(d, n)
    <3>0. /\ DOMAIN d = OperationFields /\ d.pc \in Nat /\ Len(d.script) \in Nat
      BY <1>1, <2>2
    <3>1. /\ DOMAIN q = OperationFields /\ q.script = o.script /\ q.pending = {}
          /\ q.kept \in {{}, Writes(o.script)} /\ q.pc \in Nat
          /\ q.outcome = "none" => q.pc \in 0 .. Len(o.script)
          /\ q.outcome \in {"none", "succeeded"}
      BY <1>1, <2>1, <2>2, <2>3, <3>0, ContinuedFields
    <3> HIDE DEF q
    <3>2. OperationInv(q)
      BY <1>1, <1>2, <2>1, <3>1 DEF OperationInv
    <3>3. QED
      BY <3>2 DEF q
  <2>5. OperationInv(Stopped(d, "succeeded"))
    BY <1>1, <1>2, <2>1, <2>2, StoppedFields DEF OperationInv
  <2>6. QED
    BY <2>4, <2>5 DEF d, n
<1>3. CASE Transactional(o.script)
  <2>1. PICK b \in 1 .. Len(o.script) : BeginsAt(o.script, b)
    BY <1>3 DEF Transactional
  <2>2. /\ o.pc \in 1 .. Len(o.script) /\ ~Bare(o.script)
        /\ o.kept = {} /\ o.pending = WritesBefore(o.script, o.pc)
    BY <2>1, TransactionAt
  <2>3. s.after # "attempt"
    BY <1>1, <2>1, <2>2, TransactionAt
  <2>4. CASE o.pc = Len(o.script)
    <3>1. s.verb = "commit" /\ s.after = "next"
      BY <2>1, <2>4, TransactionAt
    <3>2. d = Committed(o)
      BY <3>1 DEF Done
    <3>3. d.kept = Writes(o.script)
      BY <3>1, <3>2, UnansweredInv
    <3> HIDE DEF d
    <3>4. OperationInv(Continued(d, 1))
      BY <1>1, <1>3, <2>2, <2>4, <3>2, <3>3, CommittedFields, ContinuedOnce DEF OperationInv
    <3>5. QED
      BY <2>3, <3>1, <3>4 DEF d
  <2>5. CASE o.pc < Len(o.script)
    <3>1. s.verb # "commit" /\ (s.verb \in Writing => OpenAfter(o.script, o.pc - 1) /\ s.via = "transaction")
      BY <1>1, <2>1, <2>2, <2>5, TransactionAt DEF Inner, Writing
    <3>2. /\ DOMAIN d = OperationFields /\ d.pc = o.pc /\ d.script = o.script /\ d.outcome = "none"
          /\ d.kept = {} /\ d.pending = WritesBefore(o.script, o.pc + 1)
      <4>1. CASE s.verb \notin Writing
        <5>1. d = o
          BY <3>1, <4>1 DEF Done, Effect
        <5>2. QED
          <6>1. WritesBefore(o.script, o.pc + 1) =
                   WritesBefore(o.script, o.pc)
                       \cup (IF o.script[o.pc].verb \in Writing THEN o.script[o.pc].tables ELSE {})
            BY <1>1, WritesNext
          <6>2. QED
            BY <1>1, <2>2, <4>1, <5>1, <6>1
      <4>2. CASE s.verb \in Writing
        <5>1. d = [o EXCEPT !.pending = o.pending \cup s.tables]
          BY <3>1, <4>2 DEF Done, Effect
        <5>2. o.pending \cup s.tables = WritesBefore(o.script, o.pc + 1)
          BY <1>1, <2>2, <4>2, WritesNext
        <5> HIDE DEF d
        <5>3. QED
          BY <1>1, <2>2, <5>1, <5>2 DEF OperationFields
      <4>3. QED
        BY <4>1, <4>2
    <3> HIDE DEF d
    <3>3. OperationInv(Continued(d, 1))
      BY <1>1, <1>3, <2>2, <2>5, <3>2, ContinuedOnce DEF OperationInv
    <3>4. OperationInv(Stopped(d, "succeeded"))
      BY <1>1, <1>3, <2>2, <3>2, StoppedFields DEF OperationInv
    <3>5. QED
      BY <2>3, <3>3, <3>4 DEF d
  <2>6. QED
    BY <1>1, <2>2, <2>4, <2>5
<1>4. QED
  BY <1>2, <1>3 DEF Underway, OperationInv

-----------------------------------------------------------------------------
ProgramFields == DOMAIN Fresh

\* The workers are in operations of the plugin.
WorkloadsInv ==
  /\ plugin \in Plugins
  /\ DOMAIN program = ProgramFields
  /\ program.phase = "run" => program.mode \in Modes(plugin)
  /\ worker = [w \in Workers |-> worker[w]]
  /\ \A w \in Workers : OperationInv(worker[w])

LEMMA IdleInv == OperationInv(Idle)
<1>1. IsScript(<<>>) /\ Bare(<<>>) /\ Writes(<<>>) = {}
  BY DEF IsScript, Bare, Writes
<1>2. ~Transactional(<<>>)
  BY DEF Transactional
<1>3. QED
  BY <1>1, <1>2 DEF OperationInv, OperationFields, Idle

LEMMA WorkloadsInvInit == WorkloadsInit => WorkloadsInv
<1> SUFFICES ASSUME WorkloadsInit PROVE WorkloadsInv
  OBVIOUS
<1>1. plugin \in Plugins /\ program = Fresh /\ worker = [w \in Workers |-> Idle]
  BY DEF WorkloadsInit
<1>2. DOMAIN program = ProgramFields /\ program.phase # "run"
  BY <1>1 DEF ProgramFields, Fresh
<1>3. \A w \in Workers : worker[w] = Idle
  BY <1>1
<1>4. worker = [w \in Workers |-> worker[w]]
  BY <1>1, <1>3
<1>5. QED
  BY <1>1, <1>2, <1>3, <1>4, IdleInv DEF WorkloadsInv

\* The program changes and the workers do not, outside a run.
LEMMA ProgramMoves ==
  ASSUME WorkloadsInv, plugin' = plugin, worker' = worker,
         DOMAIN program' = ProgramFields, program'.phase = "run" => program'.mode \in Modes(plugin)
  PROVE  WorkloadsInv'
BY DEF WorkloadsInv

\* One worker changes.
LEMMA WorkerMoves ==
  ASSUME WorkloadsInv, UNCHANGED <<plugin, program>>, NEW w \in Workers, NEW o, OperationInv(o),
         worker' = [worker EXCEPT ![w] = o]
  PROVE  WorkloadsInv'
<1>1. \A v \in Workers : worker'[v] = IF v = w THEN o ELSE worker[v]
  BY DEF WorkloadsInv
<1>2. worker' = [v \in Workers |-> worker'[v]]
  BY <1>1 DEF WorkloadsInv
<1>3. \A v \in Workers : OperationInv(worker'[v])
  BY <1>1 DEF WorkloadsInv
<1>4. QED
  BY <1>2, <1>3 DEF WorkloadsInv

LEMMA WorkloadsInvNext == WorkloadsInv /\ [WorkloadsNext]_workloadsVars => WorkloadsInv'
<1> SUFFICES ASSUME WorkloadsInv, [WorkloadsNext]_workloadsVars PROVE WorkloadsInv'
  OBVIOUS
<1>1. /\ DOMAIN program = ProgramFields /\ DOMAIN Fresh = ProgramFields
      /\ {"phase", "script", "failure", "mode", "rebuilds", "isSetUp", "clean", "loaded", "signalled"} = ProgramFields
  BY DEF WorkloadsInv, ProgramFields, Fresh
<1>2. CASE Rebuild \/ SetupOnly \/ NoSetup
  <2>1. PICK phase \in {"cleanup", "setup", "start"} : \E script, rebuilds : Begins(phase, script, rebuilds)
    BY <1>2 DEF Rebuild, SetupOnly, NoSetup
  <2>2. plugin' = plugin /\ worker' = worker
    BY <1>2 DEF Rebuild, SetupOnly, NoSetup, Invoke
  <2>3. DOMAIN program' = ProgramFields /\ program'.phase # "run"
    BY <1>1, <2>1 DEF Begins
  <2>4. QED
    BY <2>2, <2>3, ProgramMoves
<1>3. CASE Prepares \/ PreparationFails
  <2>1. plugin' = plugin /\ worker' = worker /\ program.phase # "run"
    BY <1>3 DEF Prepares, PreparationFails, PreparedUnchanged, Preparing
  <2>2. DOMAIN program' = ProgramFields /\ program'.phase # "run"
    <3>1. CASE Prepares
      <4>1. \E n \in {Len(program.script), 1, 2} : Goes(n)
        BY <3>1 DEF Prepares
      <4>2. QED
        BY <1>1, <2>1, <4>1 DEF Goes
    <3>2. CASE PreparationFails
      <4>1. \/ \E c, r : program' = [program EXCEPT !.script = r, !.clean = c]
            \/ \E c, f : program' = [program EXCEPT !.phase = "over", !.script = <<>>, !.clean = c, !.failure = f]
        BY <3>2, Zenon DEF PreparationFails
      <4>2. QED
        BY <1>1, <2>1, <4>1
    <3>3. QED
      BY <1>3, <3>1, <3>2
  <2>3. QED
    BY <2>1, <2>2, ProgramMoves
<1>4. CASE CleanedUp
  <2>1. plugin' = plugin /\ worker' = worker
    BY <1>4 DEF CleanedUp, PreparedUnchanged
  <2>2. \E script : program' = [program EXCEPT !.phase = "setup", !.script = script]
    BY <1>4 DEF CleanedUp
  <2>3. DOMAIN program' = ProgramFields /\ program'.phase # "run"
    BY <1>1, <2>2
  <2>4. QED
    BY <2>1, <2>3, ProgramMoves
<1>5. CASE SetUp
  <2>1. plugin' = plugin /\ worker' = worker
    BY <1>5 DEF SetUp, PreparedUnchanged
  <2>2. \E c : program' = [program EXCEPT !.phase = "start", !.isSetUp = TRUE, !.loaded = c]
    BY <1>5 DEF SetUp
  <2>3. DOMAIN program' = ProgramFields /\ program'.phase # "run"
    BY <1>1, <2>2
  <2>4. QED
    BY <2>1, <2>3, ProgramMoves
<1>6. CASE RunStarts
  <2>1. plugin' = plugin /\ worker' = worker
    BY <1>6 DEF RunStarts, PreparedUnchanged
  <2>2. PICK m \in Modes(plugin) :
           \/ program' = [Fresh EXCEPT !.phase = "run", !.mode = m, !.loaded = program.loaded]
           \/ program' = [program EXCEPT !.phase = "over", !.failure = "start"]
    BY <1>6 DEF RunStarts
  <2>3. DOMAIN program' = ProgramFields /\ (program'.phase = "run" => program'.mode = m)
    BY <1>1, <2>2
  <2>4. QED
    BY <2>1, <2>3, ProgramMoves
<1>7. CASE TimeIsOver
  BY <1>7 DEF TimeIsOver, RunUnchanged, WorkloadsInv
<1>8. CASE Signal
  <2>1. plugin' = plugin /\ worker' = worker /\ program.phase = "run"
        /\ program' = [program EXCEPT !.signalled = TRUE]
    BY <1>8 DEF Signal, RunUnchanged
  <2>2. DOMAIN program' = ProgramFields /\ program'.mode = program.mode
    BY <1>1, <2>1
  <2>3. QED
    BY <2>1, <2>2, ProgramMoves DEF WorkloadsInv
<1>9. CASE RunReturns \/ GraceOver
  <2>1. plugin' = plugin /\ worker' = [w \in Workers |-> Idle] /\ program' = Fresh
    BY <1>9 DEF RunReturns, GraceOver, Exit, RunUnchanged
  <2>2. DOMAIN program' = ProgramFields /\ program'.phase # "run"
    BY <1>1, <2>1 DEF Fresh
  <2>3. \A w \in Workers : worker'[w] = Idle
    BY <2>1
  <2>4. worker' = [w \in Workers |-> worker'[w]]
    BY <2>1, <2>3
  <2>5. QED
    BY <2>1, <2>2, <2>3, <2>4, IdleInv DEF WorkloadsInv
<1>10. ASSUME NEW w \in Workers, Start(w) PROVE WorkloadsInv'
  <2>1. UNCHANGED <<plugin, program>> /\ program.phase = "run"
    BY <1>10 DEF Start, RunUnchanged
  <2>2. PICK script \in Operations : worker' = [worker EXCEPT ![w] = [Idle EXCEPT !.pc = 1, !.script = script]]
    BY <1>10 DEF Start
  <2>3. WellFormed(script)
    BY <2>1, OperationsFormed DEF WorkloadsInv
  <2> DEFINE o == [Idle EXCEPT !.pc = 1, !.script = script]
  <2>4. OperationInv(o)
    <3>1. /\ DOMAIN o = OperationFields /\ o.pc = 1 /\ o.script = script /\ o.kept = {} /\ o.pending = {}
          /\ o.outcome = "none"
      BY DEF Idle, OperationFields
    <3>2. WritesBefore(script, 1) = {}
      BY DEF WritesBefore
    <3>3. 1 \in 0 .. Len(script)
      BY <2>3 DEF WellFormed, IsScript
    <3> HIDE DEF o
    <3>4. QED
      BY <2>3, <3>1, <3>2, <3>3 DEF OperationInv, WellFormed
  <2>5. QED
    BY <2>1, <2>2, <2>4, WorkerMoves
<1>11. ASSUME NEW w \in Workers, LeaveRun(w) PROVE WorkloadsInv'
  <2>1. UNCHANGED <<plugin, program>> /\ worker' = [worker EXCEPT ![w].outcome = "left"] /\ worker[w] = Idle
    BY <1>11 DEF LeaveRun, RunUnchanged
  <2> DEFINE o == [Idle EXCEPT !.outcome = "left"]
  <2>2. worker' = [worker EXCEPT ![w] = o]
    BY <2>1
  <2>3. OperationInv(o)
    <3>1. /\ DOMAIN o = OperationFields /\ o.pc = 0 /\ o.script = <<>> /\ o.kept = {} /\ o.pending = {}
          /\ o.outcome = "left"
      BY DEF Idle, OperationFields
    <3>2. Bare(<<>>) /\ IsScript(<<>>) /\ ~Transactional(<<>>)
      BY DEF Bare, IsScript, Transactional
    <3> HIDE DEF o
    <3>3. QED
      BY <3>1, <3>2 DEF OperationInv
  <2>4. QED
    BY <2>1, <2>2, <2>3, WorkerMoves
<1>12. ASSUME NEW w \in Workers, Count(w) PROVE WorkloadsInv'
  <2>1. UNCHANGED <<plugin, program>> /\ worker' = [worker EXCEPT ![w] = Idle]
    BY <1>12 DEF Count, RunUnchanged
  <2>2. QED
    BY <2>1, IdleInv, WorkerMoves
<1>13. ASSUME NEW w \in Workers,
              ExecuteStatement(w) \/ Refuse(w) \/ Fault(w) \/ CommitUnanswered(w) \/ Interrupt(w) \/ DeadlockVictim(w)
       PROVE  WorkloadsInv'
  <2> DEFINE o == worker[w]
  <2>1. UNCHANGED <<plugin, program>>
    BY <1>13, Zenon DEF ExecuteStatement, Refuse, Fault, CommitUnanswered, Interrupt, DeadlockVictim, RunUnchanged
  <2>2. Busy(w)
    BY <1>13 DEF ExecuteStatement, Refuse, Fault, CommitUnanswered, Interrupt, DeadlockVictim, Deadlocked, WaitsFor, Able
  <2>3. Underway(o)
    BY <2>2 DEF Busy, Underway, WorkloadsInv
  <2>4. ASSUME NEW q, OperationInv(q), worker' = [worker EXCEPT ![w] = q] PROVE WorkloadsInv'
    BY <2>1, <2>4, WorkerMoves
  <2>5. CASE ExecuteStatement(w)
    <3>1. \/ worker' = [worker EXCEPT ![w] = Continued(Done(o), IF o.script[o.pc].after = "attempt" THEN 2 ELSE 1)]
          \/ /\ o.script[o.pc].after = "maybe"
             /\ worker' = [worker EXCEPT ![w] = Stopped(Done(o), "succeeded")]
      BY <2>5, Zenon DEF ExecuteStatement, Done, Statement
    <3>2. QED
      BY <2>3, <2>4, <3>1, DoneInv
  <2>6. ASSUME NEW cause, cause \notin {"none", "unanswered"}, Errs(w, cause) PROVE WorkloadsInv'
    <3>1. CASE o.script[o.pc].after \in {"ignored", "attempt"}
      <4>1. worker' = [worker EXCEPT ![w] = Continued(o, 1)]
        BY <2>6, <3>1 DEF Errs, Statement
      <4>2. QED
        BY <2>3, <2>4, <3>1, <4>1, PassedOverInv
    <3>2. CASE o.script[o.pc].after \notin {"ignored", "attempt"}
      <4>1. worker' = [worker EXCEPT ![w] = Stopped(o, cause)]
        BY <2>6, <3>2 DEF Errs, Statement
      <4>2. QED
        BY <2>3, <2>4, <2>6, <4>1, StoppedInv
    <3>3. QED
      BY <3>1, <3>2
  <2>7. CASE Refuse(w)
    <3>1. Errs(w, Refusal(db, Statement(w))) /\ Refusal(db, Statement(w)) \notin {"none", "unanswered"}
      BY <2>7 DEF Refuse, Refusal
    <3>2. QED
      BY <2>6, <3>1
  <2>8. CASE Fault(w)
    BY <2>6, <2>8 DEF Fault
  <2>9. CASE CommitUnanswered(w)
    <3>1. /\ o.script[o.pc].verb = "commit"
          /\ worker' = [worker EXCEPT ![w] = Stopped(Committed(o), "unanswered")]
      BY <2>9 DEF CommitUnanswered, Statement
    <3>2. QED
      BY <2>3, <2>4, <3>1, UnansweredInv
  <2>10. CASE Interrupt(w)
    <3>1. worker' = [worker EXCEPT ![w] = Stopped(o, "interrupted")]
      BY <2>10 DEF Interrupt
    <3>2. QED
      BY <2>3, <2>4, <3>1, StoppedInv
  <2>11. CASE DeadlockVictim(w)
    <3>1. worker' = [worker EXCEPT ![w] = Stopped(o, "deadlock")]
      BY <2>11 DEF DeadlockVictim
    <3>2. QED
      BY <2>3, <2>4, <3>1, StoppedInv
  <2>12. QED
    BY <1>13, <2>5, <2>7, <2>8, <2>9, <2>10, <2>11
<1>14. CASE UNCHANGED workloadsVars
  BY <1>14 DEF workloadsVars, WorkloadsInv
<1>15. QED
  BY <1>2, <1>3, <1>4, <1>5, <1>6, <1>7, <1>8, <1>9, <1>10, <1>11, <1>12, <1>13, <1>14
     DEF WorkloadsNext, Operate

LEMMA WorkloadsInvAlways == WorkloadsSpec => []WorkloadsInv
BY WorkloadsInvInit, WorkloadsInvNext, PTL DEF WorkloadsSpec

LEMMA AllOrNothingHolds == WorkloadsInv => AllOrNothing
<1> SUFFICES ASSUME WorkloadsInv, NEW w \in Workers
             PROVE  /\ Ended(w) => worker[w].kept \in IF worker[w].outcome = "unanswered"
                                         THEN {Writes(worker[w].script)}
                                         ELSE {{}, Writes(worker[w].script)}
                    /\ worker[w].pending # {} => InTx(w)
  BY DEF AllOrNothing
<1> DEFINE o == worker[w]
<1>1. OperationInv(o)
  BY DEF WorkloadsInv
<1>2. Ended(w) => o.outcome # "none"
  BY DEF Ended
<1>3. Ended(w) => o.kept \in {{}, Writes(o.script)} /\ (o.outcome = "unanswered" => o.kept = Writes(o.script))
  BY <1>1, <1>2 DEF OperationInv
<1>4. ASSUME o.pending # {} PROVE InTx(w)
  <2>1. Transactional(o.script) /\ o.outcome = "none" /\ o.pending = WritesBefore(o.script, o.pc)
    BY <1>1, <1>4 DEF OperationInv
  <2>2. Len(o.script) \in Nat /\ o.pc \in 0 .. Len(o.script)
    BY <1>1, <2>1 DEF OperationInv, IsScript
  <2>3. PICK b \in 1 .. Len(o.script) : BeginsAt(o.script, b)
    BY <2>1 DEF Transactional
  <2>4. PICK i \in 1 .. o.pc - 1 : o.script[i].verb \in Writing
    BY <1>4, <2>1 DEF WritesBefore
  <2>5. i > b
    BY <2>2, <2>3, <2>4 DEF BeginsAt, Writing
  <2>6. o.pc - 1 \in Nat /\ o.pc - 1 < Len(o.script) /\ b <= o.pc - 1 /\ o.pc # 0
    BY <2>2, <2>4, <2>5
  <2>7. OpenAfter(o.script, o.pc - 1)
    BY <2>2, <2>3, <2>6, OpenFrom
  <2>8. QED
    BY <2>1, <2>6, <2>7 DEF InTx, Busy, Executed
<1>5. QED
  BY <1>3, <1>4

\* Whatever fails, in whatever order the workers go on: an operation that has ended keeps all
\* of its writes or none.
THEOREM WritesAllOrNothing == WorkloadsSpec => []AllOrNothing
BY WorkloadsInvAlways, AllOrNothingHolds, PTL

-----------------------------------------------------------------------------
Below == {p \in Nat \X Nat : p[1] < p[2]}

LEMMA BelowWF == IsWellFoundedOn(Below, Nat)
<1>1. Below = OpToRel(<, Nat)
  BY DEF Below, OpToRel
<1>2. QED
  BY <1>1, NatLessThanWellFounded

\* A set of numbers has a least one.
LEMMA LeastNat ==
  ASSUME NEW Y \in SUBSET Nat, Y # {}
  PROVE  \E n \in Y : \A m \in Y : n <= m
<1>1. PICK n \in Y : \A m \in Y : ~(<<m, n>> \in Below)
  BY BelowWF, WFMin
<1>2. ASSUME NEW m \in Y PROVE n <= m
  <2>1. <<m, n>> \in Nat \X Nat /\ ~(<<m, n>> \in Below)
    BY <1>1
  <2>2. QED
    BY <2>1 DEF Below
<1>3. QED
  BY <1>2

\* When each of finitely many waits for another of them, some of them wait for each other in circles.
\* Of the sets of which each member waits for another one, take a smallest.
LEMMA WaitsGoRound ==
  ASSUME NEW W \in SUBSET Workers, W # {}, \A w \in W : \E v \in W : WaitsFor(w, v)
  PROVE  \E U \in SUBSET Workers : Deadlocked(U)
<1> DEFINE Waiting(U) == U # {} /\ \A w \in U : \E v \in U : WaitsFor(w, v)
           Sets == {U \in SUBSET Workers : Waiting(U)}
           Sizes == {Cardinality(U) : U \in Sets}
<1>1. \A U \in SUBSET Workers : IsFiniteSet(U) /\ Cardinality(U) \in Nat
  BY WorkloadAssumption, FS_Subset, FS_CardinalityType
<1>2. W \in Sets
  OBVIOUS
<1>3. Sizes \in SUBSET Nat /\ Sizes # {}
  BY <1>1, <1>2
<1>4. PICK n \in Sizes : \A m \in Sizes : n <= m
  BY <1>3, LeastNat
<1>5. PICK U \in Sets : Cardinality(U) = n
  OBVIOUS
<1>6. ASSUME NEW w \in U, \A v \in U : ~WaitsFor(v, w) PROVE FALSE
  <2> DEFINE R == U \ {w}
  <2>1. PICK v \in U : WaitsFor(w, v)
    BY <1>5
  <2>2. v # w
    BY <2>1 DEF WaitsFor
  <2>3. R \in SUBSET Workers /\ R # {}
    BY <1>5, <2>2
  <2>4. \A x \in R : \E y \in R : WaitsFor(x, y)
    BY <1>5, <1>6
  <2>5. R \in Sets
    BY <2>3, <2>4
  <2>6. Cardinality(R) = Cardinality(U) - 1
    BY <1>1, <1>5, <1>6, FS_RemoveElement
  <2>7. Cardinality(R) \in Sizes
    BY <2>5
  <2> HIDE DEF Sizes, R, Sets
  <2>8. n <= Cardinality(R) /\ n \in Nat
    BY <1>3, <1>4, <2>7
  <2>9. QED
    BY <1>5, <2>6, <2>8
<1>7. Deadlocked(U)
  BY <1>5, <1>6 DEF Deadlocked
<1>8. QED
  BY <1>5, <1>7

\* In its transaction an operation has its connection.
LEMMA TransactionConnected ==
  ASSUME WorkloadsInv, NEW w \in Workers, InTx(w)
  PROVE  Busy(w) /\ HasConnection(w)
<1> DEFINE o == worker[w]
<1>1. OperationInv(o) /\ Busy(w) /\ OpenAfter(o.script, o.pc - 1)
  BY DEF WorkloadsInv, InTx, Executed
<1>2. Underway(o)
  BY <1>1 DEF Underway, Busy
<1>3. ~Bare(o.script)
  BY <1>1, <1>2, BareAt
<1>4. PICK b \in 1 .. Len(o.script) : BeginsAt(o.script, b)
  BY <1>1, <1>3 DEF OperationInv, Transactional
<1>5. Len(o.script) \in Nat /\ o.pc \in 1 .. Len(o.script)
  BY <1>2, <1>4, TransactionAt
<1>6. b <= o.pc - 1
  <2>1. o.pc - 1 \in Nat /\ o.pc - 1 < Len(o.script)
    BY <1>5
  <2>2. QED
    BY <1>1, <1>4, <1>5, <2>1, OpenFrom
<1>7. o.script[o.pc].via = "transaction"
  BY <1>4, <1>5, <1>6 DEF BeginsAt, Inner
<1>8. QED
  BY <1>1, <1>7 DEF HasConnection, Statement

LEMMA LocksAreOfTransactions ==
  ASSUME NEW v \in Workers, Locked(v) # {}
  PROVE  InTx(v)
BY DEF Locked, LockedAfter, InTx, Executed

LEMMA OperationsProceedHolds == WorkloadsInv => OperationsProceed
<1> SUFFICES ASSUME WorkloadsInv, NEW busy \in Workers, Busy(busy), \A w \in Workers : ~Able(w)
             PROVE  \E W \in SUBSET Workers : Deadlocked(W)
  BY DEF OperationsProceed
<1> DEFINE open == {w \in Workers : InTx(w)}
<1>1. \A w \in open : \E v \in open : WaitsFor(w, v)
  <2>1. ASSUME NEW w \in open PROVE \E v \in open : WaitsFor(w, v)
    <3>1. Busy(w) /\ HasConnection(w)
      BY <2>1, TransactionConnected
    <3>2. PICK v \in Workers : WaitsFor(w, v)
      BY <3>1 DEF Able, HasLocks
    <3>3. InTx(v)
      BY <3>2, LocksAreOfTransactions DEF WaitsFor
    <3>4. QED
      BY <3>2, <3>3
  <2>2. QED
    BY <2>1
<1>2. open # {}
  <2> SUFFICES ASSUME open = {} PROVE FALSE
    OBVIOUS
  <2>1. \A v \in Workers : ~InTx(v) /\ Locked(v) = {}
    BY LocksAreOfTransactions
  <2>2. Connected = {}
    BY <2>1 DEF Connected, PooledAfter, InTx, Executed
  <2>3. Cardinality(Connected) < PoolSize
    BY <2>2, WorkloadAssumption, FS_EmptySet
  <2>4. HasLocks(busy)
    BY <2>1 DEF HasLocks, WaitsFor
  <2>5. QED
    BY <2>3, <2>4 DEF Able, HasConnection
<1>3. QED
  BY <1>1, <1>2, WaitsGoRound

\* As long as an operation is under way one can go on, or the server ends one: the workers
\* never all wait, for connections of the pool or for each other.
THEOREM OperationsAlwaysProceed == WorkloadsSpec => []OperationsProceed
BY WorkloadsInvAlways, OperationsProceedHolds, PTL

-----------------------------------------------------------------------------
\* The rows an operation has locked.
LockedOf(o) ==
  IF o.pc # 0 /\ o.outcome = "none" THEN LockedAfter(o.script, o.pc - 1) ELSE {}

LEMMA LockedIs ==
  ASSUME NEW w
  PROVE  Locked(w) = LockedOf(worker[w])
BY DEF Locked, LockedOf, Busy, Executed

\* A statement adds the row it locks, if it locks one.
LEMMA LocksGrow ==
  ASSUME NEW o, Underway(o), o.pc < Len(o.script)
  PROVE  LockedAfter(o.script, o.pc) \subseteq LockedOf(o) \cup ({o.script[o.pc].row} \ {<<>>})
<1> DEFINE script == o.script
           n == o.pc
<1>1. Len(script) \in Nat /\ n \in Nat /\ n > 0
  BY DEF Underway, OperationInv, IsScript
<1>2. LockedOf(o) = LockedAfter(script, n - 1)
  BY DEF Underway, LockedOf
<1>3. CASE Bare(script)
  <2>1. ~OpenAfter(script, n)
    BY <1>1, <1>3, NeverOpen
  <2>2. QED
    BY <2>1 DEF LockedAfter
<1>4. CASE Transactional(script)
  <2>1. PICK b \in 1 .. Len(script) : BeginsAt(script, b)
    BY <1>4 DEF Transactional
  <2>2. OpenAfter(script, n) <=> b <= n
    BY <1>1, <2>1, OpenFrom
  <2>3. OpenAfter(script, n - 1) <=> b <= n - 1
    <3>1. n - 1 \in Nat /\ n - 1 < Len(script)
      BY <1>1
    <3>2. QED
      BY <1>1, <2>1, <3>1, OpenFrom
  <2>4. SUFFICES ASSUME NEW r \in LockedAfter(script, n) PROVE r \in LockedOf(o) \cup ({script[n].row} \ {<<>>})
    OBVIOUS
  <2>5. OpenAfter(script, n) /\ \E i \in 1 .. n : script[i].row # <<>> /\ r = script[i].row
    BY <2>4 DEF LockedAfter
  <2>6. PICK i \in 1 .. n : script[i].row # <<>> /\ r = script[i].row
    BY <2>5
  <2>7. i > b
    BY <1>1, <2>1, <2>6 DEF BeginsAt
  <2>8. CASE i = n
    BY <2>6, <2>8
  <2>9. CASE i # n
    <3>1. i \in 1 .. n - 1 /\ OpenAfter(script, n - 1)
      BY <1>1, <2>3, <2>6, <2>7, <2>9
    <3>2. r \in LockedAfter(script, n - 1)
      BY <2>6, <3>1 DEF LockedAfter
    <3>3. QED
      BY <1>2, <3>2
  <2>10. QED
    BY <2>8, <2>9
<1>5. QED
  BY <1>3, <1>4 DEF Underway, OperationInv

LEMMA StoppedLocks ==
  ASSUME NEW o, DOMAIN o = OperationFields, NEW cause, cause # "none"
  PROVE  LockedOf(Stopped(o, cause)) = {}
BY StoppedFields DEF LockedOf

LEMMA ContinuedLocks ==
  ASSUME NEW o, Underway(o), NEW d, DOMAIN d = OperationFields,
         d.script = o.script, d.pc = o.pc, d.outcome = "none"
  PROVE  LockedOf(Continued(d, 1)) \subseteq LockedOf(o) \cup ({o.script[o.pc].row} \ {<<>>})
<1>1. Len(o.script) \in Nat /\ o.pc \in 1 .. Len(o.script)
  BY DEF Underway, OperationInv, IsScript
<1>2. CASE o.pc = Len(o.script)
  BY <1>1, <1>2, ContinuedOnce DEF LockedOf
<1>3. CASE o.pc < Len(o.script)
  <2>1. /\ Continued(d, 1).script = o.script /\ Continued(d, 1).pc = o.pc + 1
        /\ Continued(d, 1).outcome = "none"
    BY <1>1, <1>3, ContinuedOnce
  <2>2. LockedOf(Continued(d, 1)) = LockedAfter(o.script, o.pc)
    BY <1>1, <2>1 DEF LockedOf
  <2>3. QED
    BY <1>3, <2>2, LocksGrow
<1>4. QED
  BY <1>1, <1>2, <1>3

LEMMA BareLocks ==
  ASSUME NEW q, OperationInv(q), Bare(q.script)
  PROVE  LockedOf(q) = {}
<1>1. CASE q.pc # 0 /\ q.outcome = "none"
  <2>1. Underway(q)
    BY <1>1 DEF Underway
  <2>2. QED
    BY <2>1, BareAt DEF LockedOf, LockedAfter
<1>2. QED
  BY <1>1 DEF LockedOf

\* What an operation under way becomes: its script stays, it locks what nobody else has locked.
LEMMA OperationMoves ==
  ASSUME WorkloadsInv, NEW w \in Workers,
         ExecuteStatement(w) \/ Refuse(w) \/ Fault(w) \/ CommitUnanswered(w) \/ Interrupt(w) \/ DeadlockVictim(w)
  PROVE  \E q : /\ worker' = [worker EXCEPT ![w] = q]
                /\ q.script = worker[w].script
                /\ q.outcome = "deadlock" => DeadlockVictim(w)
                /\ \A v \in Workers \ {w} : LockedOf(q) \cap Locked(v) \subseteq Locked(w)
<1> DEFINE o == worker[w]
           row == {o.script[o.pc].row} \ {<<>>}
           Becomes(q) == /\ worker' = [worker EXCEPT ![w] = q]
                         /\ q.script = worker[w].script
                         /\ q.outcome = "deadlock" => DeadlockVictim(w)
                         /\ \A v \in Workers \ {w} : LockedOf(q) \cap Locked(v) \subseteq Locked(w)
<1> SUFFICES \E q : Becomes(q)
  OBVIOUS
<1>1. Busy(w)
  BY DEF ExecuteStatement, Refuse, Fault, CommitUnanswered, Interrupt, DeadlockVictim, Deadlocked, WaitsFor, Able
<1>2. Underway(o) /\ Locked(w) = LockedOf(o)
  BY <1>1, LockedIs DEF Busy, Underway, WorkloadsInv
<1>3. /\ DOMAIN o = OperationFields /\ o.outcome = "none" /\ IsScript(o.script)
      /\ o.pc \in 1 .. Len(o.script) /\ Len(o.script) \in Nat
  BY <1>2 DEF Underway, OperationInv, IsScript
<1>4. ASSUME NEW q, worker' = [worker EXCEPT ![w] = q], q.script = o.script, q.outcome # "deadlock",
             LockedOf(q) = {}
      PROVE  Becomes(q)
  BY <1>4
<1>5. ASSUME NEW q, worker' = [worker EXCEPT ![w] = q], q.script = o.script, q.outcome # "deadlock",
             LockedOf(q) \subseteq LockedOf(o) \cup row, row = {} \/ HasLocks(w)
      PROVE  Becomes(q)
  <2>1. ASSUME NEW v \in Workers \ {w} PROVE LockedOf(q) \cap Locked(v) \subseteq Locked(w)
    <3>1. row \cap Locked(v) = {}
      BY <1>1, <1>5 DEF HasLocks, WaitsFor, Statement
    <3>2. QED
      BY <1>2, <1>5, <3>1
  <2>2. QED
    BY <1>5, <2>1
<1>6. ASSUME NEW cause, cause \notin {"none", "deadlock"}, worker' = [worker EXCEPT ![w] = Stopped(o, cause)]
      PROVE  \E q : Becomes(q)
  <2>1. /\ Stopped(o, cause).script = o.script /\ Stopped(o, cause).outcome = cause
        /\ LockedOf(Stopped(o, cause)) = {}
    BY <1>3, <1>6, StoppedFields, StoppedLocks
  <2>2. Becomes(Stopped(o, cause))
    BY <1>4, <1>6, <2>1
  <2>3. QED
    BY <2>2
<1>7. CASE ExecuteStatement(w)
  <2> DEFINE d == Done(o)
             n == IF o.script[o.pc].after = "attempt" THEN 2 ELSE 1
  <2>1. \/ worker' = [worker EXCEPT ![w] = Continued(d, n)]
        \/ worker' = [worker EXCEPT ![w] = Stopped(d, "succeeded")]
    BY <1>7, Zenon DEF ExecuteStatement, Done, Statement
  <2>2. HasLocks(w)
    BY <1>7 DEF ExecuteStatement, Able
  <2>3. DOMAIN d = OperationFields /\ d.script = o.script /\ d.pc = o.pc /\ d.outcome = "none"
    <3>1. DOMAIN Effect(o, o.script[o.pc]) = OperationFields
          /\ Effect(o, o.script[o.pc]).script = o.script /\ Effect(o, o.script[o.pc]).pc = o.pc
          /\ Effect(o, o.script[o.pc]).outcome = "none"
      BY <1>3 DEF Effect, OperationFields
    <3>2. QED
      BY <1>3, <3>1, CommittedFields DEF Done
  <2>4. OperationInv(Continued(d, n))
    BY <1>2, DoneInv
  <2> HIDE DEF d
  <2>5. CASE worker' = [worker EXCEPT ![w] = Continued(d, n)]
    <3>1. Continued(d, n).script = o.script /\ Continued(d, n).outcome # "deadlock"
      <4>1. n \in Nat /\ d.pc \in Nat /\ Len(d.script) \in Nat
        BY <1>3, <2>3
      <4> HIDE DEF n
      <4>2. QED
        BY <2>3, <4>1, ContinuedFields
    <3>2. CASE Bare(o.script)
      <4>1. LockedOf(Continued(d, n)) = {}
        BY <2>4, <3>1, <3>2, BareLocks
      <4>2. Becomes(Continued(d, n))
        BY <1>4, <2>5, <3>1, <4>1
      <4>3. QED
        BY <4>2
    <3>3. CASE Transactional(o.script)
      <4>1. o.script[o.pc].after # "attempt"
        <5>1. PICK b \in 1 .. Len(o.script) : BeginsAt(o.script, b)
          BY <3>3 DEF Transactional
        <5>2. QED
          BY <1>2, <1>3, <5>1, TransactionAt
      <4>2. LockedOf(Continued(d, n)) \subseteq LockedOf(o) \cup row
        BY <1>2, <2>3, <4>1, ContinuedLocks
      <4>3. Becomes(Continued(d, n))
        BY <1>5, <2>2, <2>5, <3>1, <4>2
      <4>4. QED
        BY <4>3
    <3>4. QED
      BY <1>2, <3>2, <3>3 DEF Underway, OperationInv
  <2>6. CASE worker' = [worker EXCEPT ![w] = Stopped(d, "succeeded")]
    <3>1. /\ Stopped(d, "succeeded").script = o.script /\ Stopped(d, "succeeded").outcome = "succeeded"
          /\ LockedOf(Stopped(d, "succeeded")) = {}
      BY <2>3, StoppedFields, StoppedLocks
    <3>2. Becomes(Stopped(d, "succeeded"))
      BY <1>4, <2>6, <3>1
    <3>3. QED
      BY <3>2
  <2>7. QED
    BY <2>1, <2>5, <2>6
<1>8. ASSUME NEW cause, cause \notin {"none", "deadlock"}, Errs(w, cause) PROVE \E q : Becomes(q)
  <2>1. CASE o.script[o.pc].after \in {"ignored", "attempt"}
    <3>1. worker' = [worker EXCEPT ![w] = Continued(o, 1)]
      BY <1>8, <2>1 DEF Errs, Statement
    <3>2. Continued(o, 1).script = o.script /\ Continued(o, 1).outcome # "deadlock"
      BY <1>3, ContinuedOnce
    <3>3. row = {}
      <4>1. CASE Bare(o.script)
        BY <1>2, <2>1, <4>1, BareAt DEF Inner
      <4>2. CASE Transactional(o.script)
        <5>1. PICK b \in 1 .. Len(o.script) : BeginsAt(o.script, b)
          BY <4>2 DEF Transactional
        <5>2. QED
          BY <1>2, <1>3, <2>1, <5>1, TransactionAt DEF Inner
      <4>3. QED
        BY <1>2, <4>1, <4>2 DEF Underway, OperationInv
    <3>4. LockedOf(Continued(o, 1)) \subseteq LockedOf(o) \cup row
      BY <1>2, <1>3, ContinuedLocks
    <3>5. Becomes(Continued(o, 1))
      BY <1>5, <3>1, <3>2, <3>3, <3>4
    <3>6. QED
      BY <3>5
  <2>2. CASE o.script[o.pc].after \notin {"ignored", "attempt"}
    <3>1. worker' = [worker EXCEPT ![w] = Stopped(o, cause)]
      BY <1>8, <2>2 DEF Errs, Statement
    <3>2. QED
      BY <1>6, <1>8, <3>1
  <2>3. QED
    BY <2>1, <2>2
<1>9. CASE Refuse(w)
  <2>1. Errs(w, Refusal(db, Statement(w))) /\ Refusal(db, Statement(w)) \notin {"none", "deadlock"}
    BY <1>9 DEF Refuse, Refusal
  <2>2. QED
    BY <1>8, <2>1
<1>10. CASE Fault(w)
  BY <1>8, <1>10 DEF Fault
<1>11. CASE CommitUnanswered(w)
  <2> DEFINE d == Committed(o)
  <2>1. worker' = [worker EXCEPT ![w] = Stopped(d, "unanswered")]
    BY <1>11 DEF CommitUnanswered
  <2>2. DOMAIN d = OperationFields /\ d.script = o.script
    BY <1>3, CommittedFields
  <2> HIDE DEF d
  <2>3. /\ Stopped(d, "unanswered").script = o.script /\ Stopped(d, "unanswered").outcome = "unanswered"
        /\ LockedOf(Stopped(d, "unanswered")) = {}
    BY <2>2, StoppedFields, StoppedLocks
  <2>4. Becomes(Stopped(d, "unanswered"))
    BY <1>4, <2>1, <2>3
  <2>5. QED
    BY <2>4
<1>12. CASE Interrupt(w)
  <2>1. worker' = [worker EXCEPT ![w] = Stopped(o, "interrupted")]
    BY <1>12 DEF Interrupt
  <2>2. "interrupted" \notin {"none", "deadlock"}
    OBVIOUS
  <2>3. QED
    BY <1>6, <2>1, <2>2, Zenon
<1>13. CASE DeadlockVictim(w)
  <2>1. worker' = [worker EXCEPT ![w] = Stopped(o, "deadlock")]
    BY <1>13 DEF DeadlockVictim
  <2>2. Stopped(o, "deadlock").script = o.script /\ LockedOf(Stopped(o, "deadlock")) = {}
    BY <1>3, StoppedFields, StoppedLocks
  <2>3. Becomes(Stopped(o, "deadlock"))
    BY <1>13, <2>1, <2>2
  <2>4. QED
    BY <2>3
<1>14. QED
  BY <1>7, <1>9, <1>10, <1>11, <1>12, <1>13

-----------------------------------------------------------------------------
\* The rows of TPC-C in the order in which its transactions lock them.
Rank(row) == IF row[1] = "warehouse" THEN 1 ELSE IF row[1] = "district" THEN 2 ELSE 3

\* A script locks a row that it has locked before, or one that comes after all of those.
Orderly(script) ==
  \A i \in 1 .. Len(script) : script[i].row # <<>> =>
      /\ Rank(script[i].row) \in 1 .. 3
      /\ \A j \in 1 .. i - 1 : script[j].row # <<>> =>
             script[j].row = script[i].row \/ Rank(script[j].row) < Rank(script[i].row)

LEMMA EmptyOrderly == Orderly(<<>>)
BY DEF Orderly

\* A script that locks no row.
LEMMA LocklessOrderly ==
  ASSUME NEW Z, \A s \in Z : s.row = <<>>, NEW script \in Seq(Z)
  PROVE  Orderly(script)
<1>1. \A i \in 1 .. Len(script) : script[i] \in Z
  BY ElementOfSeq
<1>2. QED
  BY <1>1 DEF Orderly

LEMMA TpccOrderly ==
  ASSUME NEW mode, NEW script \in T!Operations(mode)
  PROVE  Orderly(script)
<1>1. /\ \A t, r : T!UpdateRow(t, r).row = r
      /\ \A t, refs : T!Insert(t, refs).row = <<>>
      /\ \A t, needs : T!MustFind(t, needs).row = <<>>
      /\ \A d : T!NextOrderID(d).row = T!DistrictRow(d)
      /\ \A t : T!Read(t).row = <<>> /\ T!Ignored(T!Read(t)).row = <<>>
      /\ T!Begin.row = <<>> /\ T!Commit.row = <<>>
  BY DEF T!UpdateRow, T!Update, T!Insert, T!MustFind, T!NextOrderID, T!Locking, T!Read, T!Ignored,
         T!Plain, T!Begin, T!Commit
<1>2. /\ Rank(T!WarehouseRow) = 1 /\ T!WarehouseRow # <<>>
      /\ \A d : Rank(T!DistrictRow(d)) = 2 /\ T!DistrictRow(d) # <<>>
      /\ \A d : Rank(T!CustomerRow(d)) = 3 /\ T!CustomerRow(d) # <<>>
  BY DEF Rank, T!WarehouseRow, T!DistrictRow, T!CustomerRow
<1>3. \A u \in T!paymentTx : Orderly(u)
  <2>1. ASSUME NEW d \in LockRows
        PROVE  Orderly(T!InTransaction(<< T!UpdateRow("warehouse", T!WarehouseRow),
                   T!UpdateRow("district", T!DistrictRow(d)), T!UpdateRow("customer", T!CustomerRow(d)) >>))
    <3> DEFINE p == T!UpdateRow("warehouse", T!WarehouseRow)
               q == T!UpdateRow("district", T!DistrictRow(d))
               r == T!UpdateRow("customer", T!CustomerRow(d))
               a == T!Begin
               z == T!Commit
               u == <<a>> \o <<p, q, r>> \o <<z>>
    <3>1. /\ p.row = T!WarehouseRow /\ q.row = T!DistrictRow(d) /\ r.row = T!CustomerRow(d)
          /\ a.row = <<>> /\ z.row = <<>>
      BY <1>1
    <3> HIDE DEF p, q, r, a, z
    <3>2. Len(u) = 5 /\ u[1] = a /\ u[2] = p /\ u[3] = q /\ u[4] = r /\ u[5] = z
      OBVIOUS
    <3> HIDE DEF u
    <3>4. \A i \in 1 .. 5 : i = 1 \/ i = 2 \/ i = 3 \/ i = 4 \/ i = 5
      OBVIOUS
    <3>5. Orderly(u)
      BY <1>2, <3>1, <3>2, <3>4 DEF Orderly
    <3>6. QED
      BY <3>5 DEF T!InTransaction, u, p, q, r, a, z
  <2>2. QED
    BY <2>1 DEF T!paymentTx
<1>4. \A u \in T!newOrderTx : Orderly(u)
  <2>1. ASSUME NEW d \in LockRows
        PROVE  Orderly(T!InTransaction(<< T!NextOrderID(d), T!Insert("orders", {}),
                   T!UpdateRow("district", T!DistrictRow(d)), T!Insert("order_line", {}),
                   T!Insert("order_line", {}) >>))
    <3> DEFINE p == T!NextOrderID(d)
               q == T!Insert("orders", {})
               r == T!UpdateRow("district", T!DistrictRow(d))
               s == T!Insert("order_line", {})
               a == T!Begin
               z == T!Commit
               u == <<a>> \o <<p, q, r, s, s>> \o <<z>>
    <3>1. /\ p.row = T!DistrictRow(d) /\ q.row = <<>> /\ r.row = T!DistrictRow(d) /\ s.row = <<>>
          /\ a.row = <<>> /\ z.row = <<>>
      BY <1>1
    <3> HIDE DEF p, q, r, s, a, z
    <3>2. Len(u) = 7 /\ u[1] = a /\ u[2] = p /\ u[3] = q /\ u[4] = r /\ u[5] = s /\ u[6] = s /\ u[7] = z
      OBVIOUS
    <3> HIDE DEF u
    <3>4. \A i \in 1 .. 7 : i = 1 \/ i = 2 \/ i = 3 \/ i = 4 \/ i = 5 \/ i = 6 \/ i = 7
      OBVIOUS
    <3>5. Orderly(u)
      BY <1>2, <3>1, <3>2, <3>4 DEF Orderly
    <3>6. QED
      BY <3>5 DEF T!InTransaction, u, p, q, r, s, a, z
  <2>2. QED
    BY <2>1 DEF T!newOrderTx
<1>5. \A u \in T!orderStatusTx : Orderly(u)
  <2> DEFINE p == T!MustFind({"customer"}, {"customer"})
             q == T!Read({"orders"})
             i == T!Ignored(q)
             r == T!Read({"order_line"})
             c == T!Read({"customer"})
             a == T!Begin
             z == T!Commit
             Z == {p, q, i, r, c, a, z}
  <2>1. \A s \in Z : s.row = <<>>
    BY <1>1
  <2>2. T!orderStatusTx = {<<a>> \o <<p, q, r>> \o <<z>>, <<a>> \o <<p, i>> \o <<z>>,
                           <<c>> \o (<<a>> \o <<p, q, r>> \o <<z>>), <<c>> \o (<<a>> \o <<p, i>> \o <<z>>)}
    BY DEF T!orderStatusTx, T!InTransaction
  <2> HIDE DEF p, q, i, r, c, a, z
  <2>3. <<a>> \o <<p, q, r>> \o <<z>> \in Seq(Z) /\ <<a>> \o <<p, i>> \o <<z>> \in Seq(Z) /\ <<c>> \in Seq(Z)
    OBVIOUS
  <2>4. \A u \in T!orderStatusTx : u \in Seq(Z)
    BY <2>2, <2>3, ConcatProperties
  <2>5. QED
    BY <2>1, <2>4, LocklessOrderly
<1>6. QED
  BY <1>3, <1>4, <1>5 DEF T!Operations, T!rollTransaction

-----------------------------------------------------------------------------
\* No row is locked twice; in TPC-C all scripts are orderly and no operation is a victim.
LocksInv ==
  /\ \A w \in Workers : \A v \in Workers \ {w} : Locked(w) \cap Locked(v) = {}
  /\ plugin = "tpcc" => \A w \in Workers : Orderly(worker[w].script) /\ worker[w].outcome # "deadlock"

\* Of those in a circle take one that waits for the row of the highest rank: the one that
\* has the row waits for another of a higher rank.
LEMMA OrderlyNeverDeadlocks ==
  ASSUME WorkloadsInv, LocksInv, plugin = "tpcc", NEW W \in SUBSET Workers, Deadlocked(W)
  PROVE  FALSE
<1> DEFINE row(w) == Statement(w).row
           Free(w) == 3 - Rank(row(w))
           Frees == {Free(w) : w \in W}
<1>1. ASSUME NEW w \in W
      PROVE  /\ row(w) # <<>> /\ Rank(row(w)) \in 1 .. 3 /\ Underway(worker[w])
             /\ worker[w].pc \in 1 .. Len(worker[w].script)
  <2>1. PICK v \in W : WaitsFor(w, v)
    BY DEF Deadlocked
  <2>2. Busy(w) /\ row(w) # <<>>
    BY <2>1 DEF WaitsFor
  <2>3. Underway(worker[w])
    BY <2>2 DEF Busy, Underway, WorkloadsInv
  <2>4. worker[w].pc \in 1 .. Len(worker[w].script)
    BY <2>3 DEF Underway, OperationInv, IsScript
  <2>5. QED
    BY <2>2, <2>3, <2>4 DEF LocksInv, Orderly, Statement
<1>2. Frees \in SUBSET Nat /\ Frees # {}
  <2>1. \A w \in W : Free(w) \in Nat
    BY <1>1
  <2> HIDE DEF Free
  <2>2. W # {}
    BY DEF Deadlocked
  <2>3. QED
    BY <2>1, <2>2
<1>3. PICK n \in Frees : \A m \in Frees : n <= m
  BY <1>2, LeastNat
<1>4. PICK w \in W : n = Free(w)
  OBVIOUS
<1>5. PICK v \in W : WaitsFor(w, v)
  BY DEF Deadlocked
<1>6. PICK u \in W : WaitsFor(v, u)
  BY DEF Deadlocked
<1>7. PICK j \in 1 .. worker[v].pc - 1 : worker[v].script[j].row # <<>> /\ worker[v].script[j].row = row(w)
  BY <1>5 DEF WaitsFor, Locked, LockedAfter, Executed
<1>8. row(w) = row(v) \/ Rank(row(w)) < Rank(row(v))
  BY <1>1, <1>7 DEF LocksInv, Orderly, Statement
<1>9. row(w) # row(v)
  <2>1. row(w) \in Locked(v) /\ row(v) \in Locked(u) /\ u # v
    BY <1>5, <1>6 DEF WaitsFor
  <2>2. Locked(u) \cap Locked(v) = {}
    BY <2>1 DEF LocksInv
  <2>3. QED
    BY <2>1, <2>2
<1>10. Free(v) \in Frees
  OBVIOUS
<1>11. Free(w) <= Free(v)
  BY <1>3, <1>4, <1>10
<1> HIDE DEF row, Frees
<1>12. QED
  BY <1>1, <1>8, <1>9, <1>11

LEMMA LocksInvInit == WorkloadsInit => LocksInv
<1> SUFFICES ASSUME WorkloadsInit PROVE LocksInv
  OBVIOUS
<1>1. \A w \in Workers : worker[w] = Idle
  BY DEF WorkloadsInit
<1>2. \A w \in Workers : Locked(w) = {}
  BY <1>1 DEF Locked, Busy, Idle
<1>3. QED
  BY <1>1, <1>2, EmptyOrderly DEF LocksInv, Idle

\* One worker changes.
LEMMA LockMoves ==
  ASSUME WorkloadsInv, LocksInv, plugin' = plugin, NEW w \in Workers, NEW o,
         worker' = [worker EXCEPT ![w] = o],
         plugin = "tpcc" => Orderly(o.script) /\ o.outcome # "deadlock",
         \A v \in Workers \ {w} : LockedOf(o) \cap Locked(v) \subseteq Locked(w)
  PROVE  LocksInv'
<1>1. \A v \in Workers : worker'[v] = IF v = w THEN o ELSE worker[v]
  BY DEF WorkloadsInv
<1>2. \A v \in Workers : Locked(v)' = LockedOf(worker'[v]) /\ Locked(v) = LockedOf(worker[v])
  BY DEF Locked, LockedOf, Busy, Executed
<1>3. \A v \in Workers : Locked(v)' = IF v = w THEN LockedOf(o) ELSE Locked(v)
  BY <1>1, <1>2
<1>4. \A v \in Workers \ {w} : LockedOf(o) \cap Locked(v) = {}
  BY DEF LocksInv
<1>5. \A x \in Workers : \A v \in Workers \ {x} : Locked(x)' \cap Locked(v)' = {}
  BY <1>3, <1>4 DEF LocksInv
<1>6. plugin = "tpcc" => \A v \in Workers : Orderly(worker'[v].script) /\ worker'[v].outcome # "deadlock"
  BY <1>1 DEF LocksInv
<1>7. QED
  BY <1>5, <1>6 DEF LocksInv

LEMMA LocksInvNext == WorkloadsInv /\ LocksInv /\ [WorkloadsNext]_workloadsVars => LocksInv'
<1> SUFFICES ASSUME WorkloadsInv, LocksInv, [WorkloadsNext]_workloadsVars PROVE LocksInv'
  OBVIOUS
<1>1. ASSUME plugin' = plugin, worker' = worker PROVE LocksInv'
  <2>1. \A w : Locked(w)' = Locked(w)
    BY <1>1 DEF Locked, Busy, Executed
  <2>2. QED
    BY <1>1, <2>1 DEF LocksInv
<1>2. CASE Rebuild \/ SetupOnly \/ NoSetup
  BY <1>1, <1>2 DEF Rebuild, SetupOnly, NoSetup, Invoke
<1>3. CASE Prepares \/ PreparationFails \/ CleanedUp \/ SetUp \/ RunStarts
  BY <1>1, <1>3, Zenon DEF Prepares, PreparationFails, CleanedUp, SetUp, RunStarts, PreparedUnchanged
<1>4. CASE TimeIsOver \/ Signal
  BY <1>1, <1>4 DEF TimeIsOver, Signal, RunUnchanged
<1>5. CASE RunReturns \/ GraceOver
  <2>1. plugin' = plugin /\ worker' = [w \in Workers |-> Idle]
    BY <1>5 DEF RunReturns, GraceOver, Exit, RunUnchanged
  <2>2. \A w \in Workers : worker'[w] = Idle
    BY <2>1
  <2>3. \A w \in Workers : Locked(w)' = {}
    BY <2>2 DEF Locked, Busy, Idle
  <2>4. QED
    BY <2>2, <2>3, EmptyOrderly DEF LocksInv, Idle
<1>6. ASSUME NEW w \in Workers, Start(w) PROVE LocksInv'
  <2>1. plugin' = plugin
    BY <1>6 DEF Start, RunUnchanged
  <2>2. PICK script \in Operations : worker' = [worker EXCEPT ![w] = [Idle EXCEPT !.pc = 1, !.script = script]]
    BY <1>6 DEF Start
  <2> DEFINE o == [Idle EXCEPT !.pc = 1, !.script = script]
  <2>3. o.script = script /\ o.outcome = "none" /\ o.pc = 1
    BY DEF Idle
  <2>4. plugin = "tpcc" => Orderly(script)
    BY <2>2, TpccOrderly DEF Operations
  <2>5. LockedOf(o) = {}
    BY <2>3 DEF LockedOf, LockedAfter, OpenAfter
  <2> HIDE DEF o
  <2>6. worker' = [worker EXCEPT ![w] = o]
    BY <2>2 DEF o
  <2>7. QED
    BY <2>1, <2>3, <2>4, <2>5, <2>6, LockMoves
<1>7. ASSUME NEW w \in Workers, LeaveRun(w) PROVE LocksInv'
  <2> DEFINE o == [Idle EXCEPT !.outcome = "left"]
  <2>1. plugin' = plugin /\ worker' = [worker EXCEPT ![w] = o]
    BY <1>7 DEF LeaveRun, RunUnchanged
  <2>2. o.script = <<>> /\ o.outcome = "left" /\ LockedOf(o) = {}
    BY DEF Idle, LockedOf
  <2> HIDE DEF o
  <2>3. QED
    BY <2>1, <2>2, EmptyOrderly, LockMoves
<1>8. ASSUME NEW w \in Workers, Count(w) PROVE LocksInv'
  <2>1. plugin' = plugin /\ worker' = [worker EXCEPT ![w] = Idle]
    BY <1>8 DEF Count, RunUnchanged
  <2>2. Idle.script = <<>> /\ Idle.outcome = "none" /\ LockedOf(Idle) = {}
    BY DEF Idle, LockedOf
  <2>3. QED
    BY <2>1, <2>2, EmptyOrderly, LockMoves
<1>9. ASSUME NEW w \in Workers,
             ExecuteStatement(w) \/ Refuse(w) \/ Fault(w) \/ CommitUnanswered(w) \/ Interrupt(w) \/ DeadlockVictim(w)
      PROVE  LocksInv'
  <2>1. PICK q : /\ worker' = [worker EXCEPT ![w] = q]
                 /\ q.script = worker[w].script
                 /\ q.outcome = "deadlock" => DeadlockVictim(w)
                 /\ \A v \in Workers \ {w} : LockedOf(q) \cap Locked(v) \subseteq Locked(w)
    BY <1>9, OperationMoves
  <2>2. plugin' = plugin
    BY <1>9, Zenon DEF ExecuteStatement, Refuse, Fault, CommitUnanswered, Interrupt, DeadlockVictim, RunUnchanged
  <2>3. plugin = "tpcc" => ~DeadlockVictim(w)
    BY OrderlyNeverDeadlocks DEF DeadlockVictim
  <2>4. plugin = "tpcc" => Orderly(q.script) /\ q.outcome # "deadlock"
    BY <2>1, <2>3 DEF LocksInv
  <2>5. QED
    BY <2>1, <2>2, <2>4, LockMoves
<1>10. CASE UNCHANGED workloadsVars
  BY <1>1, <1>10 DEF workloadsVars
<1>11. QED
  BY <1>2, <1>3, <1>4, <1>5, <1>6, <1>7, <1>8, <1>9, <1>10 DEF WorkloadsNext, Operate

\* No TPC-C transaction is ever ended as the victim of a deadlock, for any number of workers
\* and districts.
THEOREM TpccNeverDeadlocksAlways == WorkloadsSpec => []TpccNeverDeadlocks
<1>1. LocksInv => TpccNeverDeadlocks
  BY DEF LocksInv, TpccNeverDeadlocks
<1>2. QED
  BY <1>1, WorkloadsInvAlways, LocksInvInit, LocksInvNext, PTL DEF WorkloadsSpec

-----------------------------------------------------------------------------
(* What the tables hold in the course of a script, seen from its beginning *)
(* on the tables d.  A status that is brought about at some positions and  *)
(* undone at others holds after n statements if the last of the former     *)
(* comes after all of the latter; so what holds then can be read off the   *)
(* script, without executing it.                                           *)

\* What is brought about at the positions J, 0 being the beginning, and undone at the positions K,
\* holds after n statements.
Holds(n, J, K) == \E j \in J : j \in 0 .. n /\ \A i \in j + 1 .. n : i \notin K

\* It still does when the first statement is done, and the others have moved up by one.
LEMMA StillHolds ==
  ASSUME NEW n \in Nat, n > 0, NEW J, NEW K, NEW M, NEW N, Holds(n, J, K),
         \A j \in J : j \in 2 .. n => j - 1 \in M,
         1 \in J => 0 \in M,
         0 \in J /\ 1 \notin K => 0 \in M,
         \A i \in 1 .. n : i \in N => i + 1 \in K
  PROVE  Holds(n - 1, M, N)
<1>1. PICK j \in J : j \in 0 .. n /\ \A i \in j + 1 .. n : i \notin K
  BY DEF Holds
<1>2. CASE j = 0
  <2>1. 0 \in M
    BY <1>1, <1>2
  <2>2. ASSUME NEW i \in 1 .. n - 1 PROVE i \notin N
    <3>1. i + 1 \in 1 .. n
      OBVIOUS
    <3>2. QED
      BY <1>1, <1>2, <3>1
  <2>3. QED
    BY <2>1, <2>2 DEF Holds
<1>3. CASE j > 0
  <2>1. j - 1 \in M /\ j - 1 \in 0 .. n - 1
    BY <1>1, <1>3
  <2>2. ASSUME NEW i \in (j - 1) + 1 .. n - 1 PROVE i \notin N
    <3>1. i + 1 \in j + 1 .. n /\ i \in 1 .. n
      BY <1>1, <1>3
    <3>2. QED
      BY <1>1, <3>1
  <2>3. QED
    BY <2>1, <2>2 DEF Holds
<1>4. QED
  BY <1>1, <1>2, <1>3

\* Before the first statement.
LEMMA HoldsNow ==
  ASSUME NEW J, NEW K
  PROVE  Holds(0, J, K) <=> 0 \in J
BY DEF Holds

Drops(s, t) == s.verb = "drop" /\ t \in s.tables
Creates(s, t) == s.verb \in {"create", "ensure"} /\ t \in s.tables
LoadsTable(s, t) == s.verb \in Loading /\ t \in s.tables

DropsOf(sc, t) == {i \in 1 .. Len(sc) : Drops(sc[i], t)}
CreatesOf(sc, t) == {i \in 1 .. Len(sc) : Creates(sc[i], t)}
LoadsOf(sc, t) == {i \in 1 .. Len(sc) : LoadsTable(sc[i], t)}
At0(p) == IF p THEN {0} ELSE {}

ExistsAt(sc, d, n, t) == Holds(n, At0(d[t] # "absent") \cup CreatesOf(sc, t), DropsOf(sc, t))
AbsentAt(sc, d, n, t) == Holds(n, At0(d[t] = "absent") \cup DropsOf(sc, t), CreatesOf(sc, t))
RowsAt(sc, d, n, t) == Holds(n, At0(HasRows(d, t)) \cup LoadsOf(sc, t), DropsOf(sc, t))
NoRowsAt(sc, d, n, t) == Holds(n, At0(~HasRows(d, t)) \cup DropsOf(sc, t), LoadsOf(sc, t))
FullAt(sc, d, n, t) ==
  Holds(n, At0(d[t] = "full") \cup {j \in LoadsOf(sc, t) : NoRowsAt(sc, d, j - 1, t)}, DropsOf(sc, t))

\* No guard before statement k ends the script for certain.
Reached(sc, d, k) ==
  \A g \in 1 .. k - 1 : sc[g].verb = "guard" => \A t \in sc[g].tables : ~RowsAt(sc, d, g - 1, t)

Fits(s, d) ==
  s.verb \in {"read", "guard"} \cup Schematic \cup Loading /\ s.tables \cup s.needs \subseteq DOMAIN d

\* Statement k can only succeed.
Possible(sc, d, k) ==
  LET s == sc[k] IN
  /\ Fits(s, d)
  /\ \A t \in s.needs : ExistsAt(sc, d, k - 1, t)
  /\ s.verb \notin Schematic => \A t \in s.tables : ExistsAt(sc, d, k - 1, t)
  /\ s.verb \notin Schematic => \A t \in s.needs : RowsAt(sc, d, k - 1, t)
  /\ s.verb = "create" => \A t \in s.tables : AbsentAt(sc, d, k - 1, t)
  /\ s.verb = "copy" => \A t \in s.tables : NoRowsAt(sc, d, k - 1, t)
  /\ s.after = "attempt" => k < Len(sc) /\ sc[k + 1].verb = "read"

\* The script runs to its end, or to a guard that ends it.
RunsThrough(sc, d) == \A k \in 1 .. Len(sc) : Fits(sc[k], d) /\ (Reached(sc, d, k) => Possible(sc, d, k))

IsDatabase(d) == d = [t \in DOMAIN d |-> d[t]] /\ \A t \in DOMAIN d : d[t] \in Statuses

\* The first statement of a script that runs through can be executed.
LEMMA FirstPossible ==
  ASSUME NEW sc, Len(sc) \in Nat, Len(sc) > 0, NEW d, IsDatabase(d), RunsThrough(sc, d)
  PROVE  ~Impossible(d, sc[1]) /\ Possible(sc, d, 1)
<1>1. Possible(sc, d, 1)
  BY DEF RunsThrough, Reached
<1>2. \A t : /\ ExistsAt(sc, d, 0, t) => d[t] # "absent"
             /\ AbsentAt(sc, d, 0, t) => d[t] = "absent"
             /\ RowsAt(sc, d, 0, t) => HasRows(d, t)
             /\ NoRowsAt(sc, d, 0, t) => ~HasRows(d, t)
  BY HoldsNow DEF ExistsAt, AbsentAt, RowsAt, NoRowsAt, At0, CreatesOf, DropsOf, LoadsOf
<1>3. 1 - 1 = 0
  OBVIOUS
<1>4. QED
  BY <1>1, <1>2, <1>3 DEF Possible, Fits, Impossible, Schematic, Loading

-----------------------------------------------------------------------------
(* The first statement has been executed: what holds after n statements of *)
(* the script holds after n - 1 of the rest.                               *)

IsRest(rest, sc) == Len(sc) \in Nat /\ Len(sc) > 0 /\ Len(rest) = Len(sc) - 1
                    /\ \A i \in 1 .. Len(rest) : rest[i] = sc[i + 1]

\* What a statement that succeeds does to a table.
LEMMA AppliedTo ==
  ASSUME NEW d, IsDatabase(d), NEW s, s.verb \in {"read", "guard"} \cup Schematic \cup Loading,
         ~Impossible(d, s), NEW sz \in {"full", "short"}, NEW t \in DOMAIN d
  PROVE  LET e == Applied(d, s, sz) IN
         /\ Creates(s, t) \/ (d[t] # "absent" /\ ~Drops(s, t)) => e[t] # "absent"
         /\ Drops(s, t) \/ (d[t] = "absent" /\ ~Creates(s, t)) => e[t] = "absent"
         /\ LoadsTable(s, t) \/ (HasRows(d, t) /\ ~Drops(s, t)) => HasRows(e, t)
         /\ Drops(s, t) \/ (~HasRows(d, t) /\ ~LoadsTable(s, t)) => ~HasRows(e, t)
         /\ sz = "full" => ((LoadsTable(s, t) /\ ~HasRows(d, t)) \/ (d[t] = "full" /\ ~Drops(s, t)) => e[t] = "full")
         /\ e[t] \in Statuses
<1> DEFINE e == Applied(d, s, sz)
<1>1. d[t] \in Statuses
  BY DEF IsDatabase
<1>2. LoadsTable(s, t) => d[t] # "absent"
  BY DEF LoadsTable, Impossible, Loading, Schematic
<1>3. CASE t \notin s.tables
  <2>1. e[t] = d[t]
    BY <1>3 DEF Applied
  <2> HIDE DEF e
  <2>2. QED
    BY <1>1, <1>3, <2>1 DEF Creates, Drops, LoadsTable, HasRows, e
<1>4. CASE t \in s.tables
  <2>1. e[t] = CASE s.verb \in {"create", "ensure"} /\ d[t] = "absent" -> "empty"
                 [] s.verb = "drop" -> "absent"
                 [] s.verb = "fill" /\ d[t] = "empty" -> sz
                 [] s.verb \in {"fillall", "copy"} /\ d[t] = "empty" -> "full"
                 [] OTHER -> d[t]
    BY <1>4 DEF Applied, Schematic, Loading
  <2> HIDE DEF e
  <2>2. QED
    BY <1>1, <1>2, <1>4, <2>1 DEF Creates, Drops, LoadsTable, HasRows, Statuses, Schematic, Loading, e
<1>5. QED
  BY <1>3, <1>4

\* It leaves tables as there were, each in a status.
LEMMA AppliedDatabase ==
  ASSUME NEW d, IsDatabase(d), NEW s, s.verb \in {"read", "guard"} \cup Schematic \cup Loading,
         ~Impossible(d, s), NEW sz \in {"full", "short"}
  PROVE  IsDatabase(Applied(d, s, sz)) /\ DOMAIN Applied(d, s, sz) = DOMAIN d
<1> DEFINE e == Applied(d, s, sz)
<1>1. DOMAIN e = DOMAIN d /\ e = [t \in DOMAIN e |-> e[t]]
  BY DEF Applied
<1>2. \A t \in DOMAIN d : e[t] \in Statuses
  BY AppliedTo
<1> HIDE DEF e
<1>3. IsDatabase(e) /\ DOMAIN e = DOMAIN d
  BY <1>1, <1>2 DEF IsDatabase
<1>4. QED
  BY <1>3 DEF e

\* What holds after n statements of the script holds after n - 1 of the rest.
LEMMA AfterFirst ==
  ASSUME NEW d, IsDatabase(d), NEW sc, NEW rest, IsRest(rest, sc), Possible(sc, d, 1), ~Impossible(d, sc[1]),
         NEW sz \in {"full", "short"}, NEW t \in DOMAIN d, NEW n \in 1 .. Len(sc)
  PROVE  /\ ExistsAt(sc, d, n, t) => ExistsAt(rest, Applied(d, sc[1], sz), n - 1, t)
         /\ AbsentAt(sc, d, n, t) => AbsentAt(rest, Applied(d, sc[1], sz), n - 1, t)
         /\ RowsAt(sc, d, n, t) => RowsAt(rest, Applied(d, sc[1], sz), n - 1, t)
         /\ NoRowsAt(sc, d, n, t) => NoRowsAt(rest, Applied(d, sc[1], sz), n - 1, t)
<1> DEFINE s == sc[1]
           e == Applied(d, s, sz)
<1>1. /\ Creates(s, t) \/ (d[t] # "absent" /\ ~Drops(s, t)) => e[t] # "absent"
      /\ Drops(s, t) \/ (d[t] = "absent" /\ ~Creates(s, t)) => e[t] = "absent"
      /\ LoadsTable(s, t) \/ (HasRows(d, t) /\ ~Drops(s, t)) => HasRows(e, t)
      /\ Drops(s, t) \/ (~HasRows(d, t) /\ ~LoadsTable(s, t)) => ~HasRows(e, t)
  BY AppliedTo DEF Possible, Fits
<1> HIDE DEF e
<1>2. n \in Nat /\ n > 0 /\ Len(sc) \in Nat /\ Len(rest) = Len(sc) - 1
  BY DEF IsRest
<1>3. \A i \in 1 .. Len(rest) : rest[i] = sc[i + 1]
  BY DEF IsRest
<1>4. /\ \A i \in 1 .. n : i \in DropsOf(rest, t) => i + 1 \in DropsOf(sc, t)
      /\ \A i \in 1 .. n : i \in CreatesOf(rest, t) => i + 1 \in CreatesOf(sc, t)
      /\ \A i \in 1 .. n : i \in LoadsOf(rest, t) => i + 1 \in LoadsOf(sc, t)
      /\ \A i \in 2 .. n : i \in DropsOf(sc, t) => i - 1 \in DropsOf(rest, t)
      /\ \A i \in 2 .. n : i \in CreatesOf(sc, t) => i - 1 \in CreatesOf(rest, t)
      /\ \A i \in 2 .. n : i \in LoadsOf(sc, t) => i - 1 \in LoadsOf(rest, t)
  <2>1. \A i \in 1 .. Len(rest) : i + 1 \in 1 .. Len(sc) /\ rest[i] = sc[i + 1]
    BY <1>2, <1>3
  <2>2. \A i \in 2 .. n : i - 1 \in 1 .. Len(rest) /\ rest[i - 1] = sc[i]
    <3>1. ASSUME NEW i \in 2 .. n PROVE i - 1 \in 1 .. Len(rest) /\ rest[i - 1] = sc[i]
      <4>1. i - 1 \in 1 .. Len(rest) /\ (i - 1) + 1 = i
        BY <1>2
      <4>2. QED
        BY <1>3, <4>1
    <3>2. QED
      BY <3>1
  <2>3. \A i \in 1 .. n : i \in DropsOf(rest, t) => i + 1 \in DropsOf(sc, t)
    BY <2>1 DEF DropsOf
  <2>4. \A i \in 1 .. n : i \in CreatesOf(rest, t) => i + 1 \in CreatesOf(sc, t)
    BY <2>1 DEF CreatesOf
  <2>5. \A i \in 1 .. n : i \in LoadsOf(rest, t) => i + 1 \in LoadsOf(sc, t)
    BY <2>1 DEF LoadsOf
  <2>6. \A i \in 2 .. n : i \in DropsOf(sc, t) => i - 1 \in DropsOf(rest, t)
    BY <2>2 DEF DropsOf
  <2>7. \A i \in 2 .. n : i \in CreatesOf(sc, t) => i - 1 \in CreatesOf(rest, t)
    BY <2>2 DEF CreatesOf
  <2>8. \A i \in 2 .. n : i \in LoadsOf(sc, t) => i - 1 \in LoadsOf(rest, t)
    BY <2>2 DEF LoadsOf
  <2>9. QED
    BY <2>3, <2>4, <2>5, <2>6, <2>7, <2>8
<1>5. /\ 1 \in DropsOf(sc, t) <=> Drops(s, t)
      /\ 1 \in CreatesOf(sc, t) <=> Creates(s, t)
      /\ 1 \in LoadsOf(sc, t) <=> LoadsTable(s, t)
      /\ 0 \notin DropsOf(sc, t) /\ 0 \notin CreatesOf(sc, t) /\ 0 \notin LoadsOf(sc, t)
  BY <1>2 DEF DropsOf, CreatesOf, LoadsOf
<1>6. ASSUME ExistsAt(sc, d, n, t) PROVE ExistsAt(rest, e, n - 1, t)
  <2> DEFINE J == At0(d[t] # "absent") \cup CreatesOf(sc, t)
             K == DropsOf(sc, t)
             M == At0(e[t] # "absent") \cup CreatesOf(rest, t)
             N == DropsOf(rest, t)
  <2>1. Holds(n, J, K)
    BY <1>6 DEF ExistsAt
  <2>2. \A j \in J : j \in 2 .. n => j - 1 \in M
    BY <1>4 DEF At0
  <2>3. (1 \in J => 0 \in M) /\ (0 \in J /\ 1 \notin K => 0 \in M)
    BY <1>1, <1>5 DEF At0
  <2>4. \A i \in 1 .. n : i \in N => i + 1 \in K
    BY <1>4
  <2> HIDE DEF J, K, M, N
  <2>5. Holds(n - 1, M, N)
    BY <1>2, <2>1, <2>2, <2>3, <2>4, StillHolds
  <2>6. QED
    BY <2>5 DEF ExistsAt, M, N
<1>7. ASSUME AbsentAt(sc, d, n, t) PROVE AbsentAt(rest, e, n - 1, t)
  <2> DEFINE J == At0(d[t] = "absent") \cup DropsOf(sc, t)
             K == CreatesOf(sc, t)
             M == At0(e[t] = "absent") \cup DropsOf(rest, t)
             N == CreatesOf(rest, t)
  <2>1. Holds(n, J, K)
    BY <1>7 DEF AbsentAt
  <2>2. \A j \in J : j \in 2 .. n => j - 1 \in M
    BY <1>4 DEF At0
  <2>3. (1 \in J => 0 \in M) /\ (0 \in J /\ 1 \notin K => 0 \in M)
    BY <1>1, <1>5 DEF At0
  <2>4. \A i \in 1 .. n : i \in N => i + 1 \in K
    BY <1>4
  <2> HIDE DEF J, K, M, N
  <2>5. Holds(n - 1, M, N)
    BY <1>2, <2>1, <2>2, <2>3, <2>4, StillHolds
  <2>6. QED
    BY <2>5 DEF AbsentAt, M, N
<1>8. ASSUME RowsAt(sc, d, n, t) PROVE RowsAt(rest, e, n - 1, t)
  <2> DEFINE J == At0(HasRows(d, t)) \cup LoadsOf(sc, t)
             K == DropsOf(sc, t)
             M == At0(HasRows(e, t)) \cup LoadsOf(rest, t)
             N == DropsOf(rest, t)
  <2>1. Holds(n, J, K)
    BY <1>8 DEF RowsAt
  <2>2. \A j \in J : j \in 2 .. n => j - 1 \in M
    BY <1>4 DEF At0
  <2>3. (1 \in J => 0 \in M) /\ (0 \in J /\ 1 \notin K => 0 \in M)
    BY <1>1, <1>5 DEF At0
  <2>4. \A i \in 1 .. n : i \in N => i + 1 \in K
    BY <1>4
  <2> HIDE DEF J, K, M, N
  <2>5. Holds(n - 1, M, N)
    BY <1>2, <2>1, <2>2, <2>3, <2>4, StillHolds
  <2>6. QED
    BY <2>5 DEF RowsAt, M, N
<1>9. ASSUME NoRowsAt(sc, d, n, t) PROVE NoRowsAt(rest, e, n - 1, t)
  <2> DEFINE J == At0(~HasRows(d, t)) \cup DropsOf(sc, t)
             K == LoadsOf(sc, t)
             M == At0(~HasRows(e, t)) \cup DropsOf(rest, t)
             N == LoadsOf(rest, t)
  <2>1. Holds(n, J, K)
    BY <1>9 DEF NoRowsAt
  <2>2. \A j \in J : j \in 2 .. n => j - 1 \in M
    BY <1>4 DEF At0
  <2>3. (1 \in J => 0 \in M) /\ (0 \in J /\ 1 \notin K => 0 \in M)
    BY <1>1, <1>5 DEF At0
  <2>4. \A i \in 1 .. n : i \in N => i + 1 \in K
    BY <1>4
  <2> HIDE DEF J, K, M, N
  <2>5. Holds(n - 1, M, N)
    BY <1>2, <2>1, <2>2, <2>3, <2>4, StillHolds
  <2>6. QED
    BY <2>5 DEF NoRowsAt, M, N
<1>10. QED
  BY <1>6, <1>7, <1>8, <1>9 DEF e

\* The same of a table that has a row for every id.
LEMMA FullAfterFirst ==
  ASSUME NEW d, IsDatabase(d), NEW sc, NEW rest, IsRest(rest, sc), Possible(sc, d, 1), ~Impossible(d, sc[1]),
         NEW t \in DOMAIN d, NEW n \in 1 .. Len(sc), FullAt(sc, d, n, t)
  PROVE  FullAt(rest, Applied(d, sc[1], "full"), n - 1, t)
<1> DEFINE s == sc[1]
           e == Applied(d, s, "full")
<1>1. (LoadsTable(s, t) /\ ~HasRows(d, t)) \/ (d[t] = "full" /\ ~Drops(s, t)) => e[t] = "full"
  BY AppliedTo DEF Possible, Fits
<1>0. \A j \in 2 .. Len(sc) : NoRowsAt(sc, d, j - 1, t) => NoRowsAt(rest, e, (j - 1) - 1, t)
  <2>1. ASSUME NEW j \in 2 .. Len(sc) PROVE j - 1 \in 1 .. Len(sc)
    BY DEF IsRest
  <2>2. QED
    BY <2>1, AfterFirst
<1> HIDE DEF e
<1>2. n \in Nat /\ n > 0 /\ Len(sc) \in Nat /\ Len(rest) = Len(sc) - 1
  BY DEF IsRest
<1>3. \A i \in 1 .. Len(rest) : rest[i] = sc[i + 1]
  BY DEF IsRest
<1>4. /\ \A i \in 1 .. n : i \in DropsOf(rest, t) => i + 1 \in DropsOf(sc, t)
      /\ \A i \in 2 .. n : i \in LoadsOf(sc, t) => i - 1 \in LoadsOf(rest, t)
  BY <1>2, <1>3 DEF DropsOf, LoadsOf
<1>5. /\ 1 \in DropsOf(sc, t) <=> Drops(s, t)
      /\ 1 \in LoadsOf(sc, t) <=> LoadsTable(s, t)
      /\ 0 \notin DropsOf(sc, t) /\ 0 \notin LoadsOf(sc, t)
  BY <1>2 DEF DropsOf, LoadsOf
<1> DEFINE J == At0(d[t] = "full") \cup {j \in LoadsOf(sc, t) : NoRowsAt(sc, d, j - 1, t)}
           K == DropsOf(sc, t)
           M == At0(e[t] = "full") \cup {j \in LoadsOf(rest, t) : NoRowsAt(rest, e, j - 1, t)}
           N == DropsOf(rest, t)
<1>6. Holds(n, J, K)
  BY DEF FullAt
<1>7. \A j \in J : j \in 2 .. n => j - 1 \in M
  <2>1. ASSUME NEW j \in J, j \in 2 .. n PROVE j - 1 \in M
    <3>1. j \in LoadsOf(sc, t) /\ NoRowsAt(sc, d, j - 1, t) /\ j \in 2 .. Len(sc)
      BY <1>2, <2>1 DEF At0
    <3>2. j - 1 \in LoadsOf(rest, t) /\ NoRowsAt(rest, e, (j - 1) - 1, t)
      BY <1>0, <1>4, <2>1, <3>1
    <3>3. QED
      BY <3>2
  <2>2. QED
    BY <2>1
<1>8. NoRowsAt(sc, d, 1 - 1, t) => ~HasRows(d, t)
  <2>1. NoRowsAt(sc, d, 0, t) => ~HasRows(d, t)
    BY HoldsNow DEF NoRowsAt, At0, DropsOf
  <2>2. QED
    BY <2>1
<1>9. (1 \in J => 0 \in M) /\ (0 \in J /\ 1 \notin K => 0 \in M)
  BY <1>1, <1>5, <1>8 DEF At0
<1>10. \A i \in 1 .. n : i \in N => i + 1 \in K
  BY <1>4
<1> HIDE DEF J, K, M, N
<1>11. Holds(n - 1, M, N)
  BY <1>2, <1>6, <1>7, <1>9, <1>10, StillHolds
<1>12. QED
  BY <1>11 DEF FullAt, M, N, e

-----------------------------------------------------------------------------
(* What the scripts of Cleanup and Setup are to bring about.               *)

\* No guard ends the script.
GuardsPass(sc, d) ==
  \A g \in 1 .. Len(sc) : sc[g].verb = "guard" => \A t \in sc[g].tables : NoRowsAt(sc, d, g - 1, t)

\* The plugins whose Cleanup drops all tables and makes none.
Clearing == Plugins \ {"tpcc", "simple"}

\* The tables that operations draw ids from, and one that ends the second Setup of TPC-C.
Needed(p) ==
  CASE p = "ecommerce" -> {"users", "vendors", "products"} [] p = "ecommerce_basic" -> {"users", "products"}
    [] p = "imdb" -> {"meta"} [] p = "tpcc" -> {"warehouse", "district", "customer"} [] p = "simple" -> {"loadtest"}
    [] p = "connection" -> {} [] p = "vector" -> {}
Guarded(p) == IF p = "tpcc" THEN {"warehouse"} ELSE {}

\* All tables are there, and those that are needed have a row for every id.
Made(d) ==
  /\ \A t \in Tables(plugin) : d[t] # "absent"
  /\ \A t \in Guarded(plugin) : HasRows(d, t)
  /\ scale = "full" => \A t \in Needed(plugin) : d[t] = "full"

\* The script drops all tables, or makes them, or leaves them as they are.
Clears(sc, d) == GuardsPass(sc, d) /\ \A t \in Tables(plugin) : AbsentAt(sc, d, Len(sc), t)
Completes(sc, d) ==
  /\ GuardsPass(sc, d)
  /\ \A t \in Tables(plugin) : ExistsAt(sc, d, Len(sc), t)
  /\ \A t \in Guarded(plugin) : RowsAt(sc, d, Len(sc), t)
  /\ scale = "full" => \A t \in Needed(plugin) : FullAt(sc, d, Len(sc), t)
Keeps(sc, d) == Made(d) /\ \A i \in 1 .. Len(sc) : sc[i].verb # "drop"

\* They are tables of the plugin.
LEMMA NeededTables ==
  ASSUME plugin \in Plugins
  PROVE  Needed(plugin) \cup Guarded(plugin) \subseteq Tables(plugin)
<1>1. /\ {"users", "vendors", "products"} \subseteq E!Tables
      /\ {"users", "products"} \subseteq B!Tables
  <2>1. /\ E!CreateTables[1].tables = {"users"} /\ E!CreateTables[2].tables = {"vendors"}
        /\ E!CreateTables[3].tables = {"products"} /\ {1, 2, 3} \subseteq DOMAIN E!CreateTables
    <3>1. \A t, R : E!Create(t, R).tables = {t}
      BY DEF E!Create, E!Plain
    <3>2. /\ E!CreateTables[1] = E!Create("users", {}) /\ E!CreateTables[2] = E!Create("vendors", {})
          /\ E!CreateTables[3] = E!Create("products", {"vendors"}) /\ {1, 2, 3} \subseteq DOMAIN E!CreateTables
      BY DEF E!CreateTables
    <3>3. QED
      BY <3>1, <3>2
  <2>2. /\ B!CreateTables[1].tables = {"users"} /\ B!CreateTables[2].tables = {"products"}
        /\ {1, 2} \subseteq DOMAIN B!CreateTables
    <3>1. \A t, R : B!Create(t, R).tables = {t}
      BY DEF B!Create, B!Plain
    <3>2. /\ B!CreateTables[1] = B!Create("users", {}) /\ B!CreateTables[2] = B!Create("products", {})
          /\ {1, 2} \subseteq DOMAIN B!CreateTables
      BY DEF B!CreateTables
    <3>3. QED
      BY <3>1, <3>2
  <2>3. QED
    BY <2>1, <2>2 DEF E!Tables, B!Tables
<1>2. QED
  BY <1>1 DEF Needed, Guarded, Tables, Plugins, I!Tables, T!Tables, S!Tables

\* The first statement of the script succeeds and the rest is as good.
LEMMA GoesOn ==
  ASSUME plugin \in Plugins, scale \in {"full", "short"},
         NEW d, IsDatabase(d), DOMAIN d = Tables(plugin),
         NEW sc, NEW rest, IsRest(rest, sc), RunsThrough(sc, d),
         sc[1].verb = "guard" => \A t \in sc[1].tables : ~HasRows(d, t)
  PROVE  /\ RunsThrough(rest, Applied(d, sc[1], scale))
         /\ GuardsPass(sc, d) => GuardsPass(rest, Applied(d, sc[1], scale))
         /\ Clears(sc, d) => Clears(rest, Applied(d, sc[1], scale))
         /\ Completes(sc, d) => Completes(rest, Applied(d, sc[1], scale))
<1> DEFINE e == Applied(d, sc[1], scale)
<1>1. Len(sc) \in Nat /\ Len(sc) > 0 /\ Len(rest) = Len(sc) - 1 /\ \A i \in 1 .. Len(rest) : rest[i] = sc[i + 1]
  BY DEF IsRest
<1>2. Possible(sc, d, 1) /\ ~Impossible(d, sc[1])
  BY <1>1, FirstPossible
<1>3. DOMAIN e = DOMAIN d
  BY <1>2, AppliedDatabase DEF Possible, Fits
<1>4. ASSUME NEW t \in DOMAIN d, NEW n \in 1 .. Len(sc)
      PROVE  /\ ExistsAt(sc, d, n, t) => ExistsAt(rest, e, n - 1, t)
             /\ AbsentAt(sc, d, n, t) => AbsentAt(rest, e, n - 1, t)
             /\ RowsAt(sc, d, n, t) => RowsAt(rest, e, n - 1, t)
             /\ NoRowsAt(sc, d, n, t) => NoRowsAt(rest, e, n - 1, t)
             /\ scale = "full" /\ FullAt(sc, d, n, t) => FullAt(rest, e, n - 1, t)
  BY <1>2, AfterFirst, FullAfterFirst
<1> HIDE DEF e
<1>5. ASSUME NEW k \in 1 .. Len(rest), Reached(rest, e, k) PROVE Possible(rest, e, k)
  <2>1. k + 1 \in 1 .. Len(sc) /\ k \in 1 .. Len(sc) /\ (k + 1) - 1 = k /\ rest[k] = sc[k + 1]
    BY <1>1
  <2>2. Reached(sc, d, k + 1)
    <3>1. SUFFICES ASSUME NEW g \in 1 .. (k + 1) - 1, sc[g].verb = "guard", NEW t \in sc[g].tables, RowsAt(sc, d, g - 1, t)
                   PROVE  FALSE
      BY DEF Reached
    <3>2. CASE g = 1
      <4>1. RowsAt(sc, d, 0, t)
        BY <3>1, <3>2
      <4>2. HasRows(d, t)
        BY <4>1, HoldsNow DEF RowsAt, At0, LoadsOf
      <4>3. QED
        BY <3>1, <3>2, <4>2
    <3>3. CASE g > 1
      <4>1. /\ g - 1 \in 1 .. Len(sc) /\ g - 1 \in 1 .. Len(rest) /\ g - 1 \in 1 .. k - 1 /\ (g - 1) + 1 = g
            /\ g \in 1 .. Len(sc)
        BY <1>1, <3>3
      <4>2. rest[g - 1] = sc[g]
        BY <1>1, <4>1
      <4>3. t \in DOMAIN d
        BY <3>1, <4>1 DEF RunsThrough, Fits
      <4>4. RowsAt(rest, e, (g - 1) - 1, t)
        BY <1>4, <3>1, <4>1, <4>3
      <4>5. QED
        BY <1>5, <3>1, <4>1, <4>2, <4>4 DEF Reached
    <3>4. QED
      BY <3>1, <3>2, <3>3
  <2>3. Possible(sc, d, k + 1)
    BY <2>1, <2>2 DEF RunsThrough
  <2> DEFINE s == sc[k + 1]
  <2>4. s.tables \cup s.needs \subseteq DOMAIN d
    BY <2>3 DEF Possible, Fits
  <2>5. \A t \in s.tables \cup s.needs :
           /\ ExistsAt(sc, d, k, t) => ExistsAt(rest, e, k - 1, t)
           /\ AbsentAt(sc, d, k, t) => AbsentAt(rest, e, k - 1, t)
           /\ RowsAt(sc, d, k, t) => RowsAt(rest, e, k - 1, t)
           /\ NoRowsAt(sc, d, k, t) => NoRowsAt(rest, e, k - 1, t)
    BY <1>4, <2>1, <2>4
  <2>6. s.after = "attempt" => k < Len(rest) /\ rest[k + 1].verb = "read"
    <3>1. ASSUME s.after = "attempt" PROVE k < Len(rest) /\ rest[k + 1].verb = "read"
      <4>1. k + 1 < Len(sc) /\ sc[(k + 1) + 1].verb = "read"
        BY <2>3, <3>1 DEF Possible
      <4>2. k + 1 \in 1 .. Len(rest)
        BY <1>1, <4>1
      <4>3. QED
        BY <1>1, <4>1, <4>2
    <3>2. QED
      BY <3>1
  <2>7. /\ Fits(s, e)
        /\ \A t \in s.needs : ExistsAt(sc, d, k, t)
        /\ s.verb \notin Schematic => \A t \in s.tables : ExistsAt(sc, d, k, t)
        /\ s.verb \notin Schematic => \A t \in s.needs : RowsAt(sc, d, k, t)
        /\ s.verb = "create" => \A t \in s.tables : AbsentAt(sc, d, k, t)
        /\ s.verb = "copy" => \A t \in s.tables : NoRowsAt(sc, d, k, t)
    BY <1>3, <2>1, <2>3 DEF Possible, Fits
  <2> HIDE DEF s
  <2>8. rest[k] = s
    BY <2>1 DEF s
  <2>9. QED
    BY <2>5, <2>6, <2>7, <2>8 DEF Possible
<1>6. RunsThrough(rest, e)
  <2>1. \A k \in 1 .. Len(rest) : Fits(rest[k], e)
    <3>1. \A k \in 1 .. Len(rest) : k + 1 \in 1 .. Len(sc)
      BY <1>1
    <3>2. QED
      BY <1>1, <1>3, <3>1 DEF RunsThrough, Fits
  <2>2. QED
    BY <1>5, <2>1 DEF RunsThrough
<1>7. ASSUME GuardsPass(sc, d) PROVE GuardsPass(rest, e)
  <2>1. SUFFICES ASSUME NEW g \in 1 .. Len(rest), rest[g].verb = "guard", NEW t \in rest[g].tables
                 PROVE  NoRowsAt(rest, e, g - 1, t)
    BY DEF GuardsPass
  <2>2. g + 1 \in 1 .. Len(sc) /\ g \in 1 .. Len(sc) /\ (g + 1) - 1 = g /\ rest[g] = sc[g + 1]
    BY <1>1
  <2>3. NoRowsAt(sc, d, g, t) /\ t \in DOMAIN d
    <3>1. sc[g + 1].verb = "guard" /\ t \in sc[g + 1].tables
      BY <2>1, <2>2
    <3>2. NoRowsAt(sc, d, (g + 1) - 1, t)
      BY <1>7, <2>2, <3>1 DEF GuardsPass
    <3>3. t \in DOMAIN d
      BY <2>2, <3>1 DEF RunsThrough, Fits
    <3>4. QED
      BY <2>2, <3>2, <3>3
  <2>4. QED
    BY <1>4, <2>2, <2>3
<1>8. Len(sc) \in 1 .. Len(sc) /\ Len(sc) - 1 = Len(rest)
  BY <1>1
<1>9. \A t \in Tables(plugin) :
         /\ ExistsAt(sc, d, Len(sc), t) => ExistsAt(rest, e, Len(rest), t)
         /\ AbsentAt(sc, d, Len(sc), t) => AbsentAt(rest, e, Len(rest), t)
         /\ RowsAt(sc, d, Len(sc), t) => RowsAt(rest, e, Len(rest), t)
         /\ scale = "full" /\ FullAt(sc, d, Len(sc), t) => FullAt(rest, e, Len(rest), t)
  <2>1. ASSUME NEW t \in Tables(plugin)
        PROVE  /\ ExistsAt(sc, d, Len(sc), t) => ExistsAt(rest, e, Len(sc) - 1, t)
               /\ AbsentAt(sc, d, Len(sc), t) => AbsentAt(rest, e, Len(sc) - 1, t)
               /\ RowsAt(sc, d, Len(sc), t) => RowsAt(rest, e, Len(sc) - 1, t)
               /\ scale = "full" /\ FullAt(sc, d, Len(sc), t) => FullAt(rest, e, Len(sc) - 1, t)
    BY <1>4, <1>8
  <2>2. QED
    BY <1>8, <2>1
<1>10. Clears(sc, d) => Clears(rest, e)
  BY <1>7, <1>9 DEF Clears
<1>11. Completes(sc, d) => Completes(rest, e)
  BY <1>7, <1>9, NeededTables DEF Completes
<1>12. QED
  BY <1>6, <1>7, <1>10, <1>11 DEF e

\* A statement that drops nothing leaves the tables made.
LEMMA KeepsOn ==
  ASSUME plugin \in Plugins, scale \in {"full", "short"},
         NEW d, IsDatabase(d), DOMAIN d = Tables(plugin), Made(d),
         NEW s, Fits(s, d), ~Impossible(d, s), s.verb # "drop"
  PROVE  Made(Applied(d, s, scale))
<1> DEFINE e == Applied(d, s, scale)
<1>1. ASSUME NEW t \in DOMAIN d
      PROVE  /\ d[t] # "absent" => e[t] # "absent"
             /\ HasRows(d, t) => HasRows(e, t)
             /\ scale = "full" => (d[t] = "full" => e[t] = "full")
  BY AppliedTo DEF Fits, Drops
<1> HIDE DEF e
<1>2. Made(e)
  BY <1>1, NeededTables DEF Made
<1>3. QED
  BY <1>2 DEF e

\* At the end of the script.
LEMMA Completed ==
  ASSUME NEW d
  PROVE  /\ Completes(<<>>, d) => Made(d)
         /\ Clears(<<>>, d) => \A t \in Tables(plugin) : d[t] = "absent"
<1>1. Len(<<>>) = 0
  OBVIOUS
<1>2. \A t : /\ ExistsAt(<<>>, d, 0, t) => d[t] # "absent"
             /\ AbsentAt(<<>>, d, 0, t) => d[t] = "absent"
             /\ RowsAt(<<>>, d, 0, t) => HasRows(d, t)
             /\ FullAt(<<>>, d, 0, t) => d[t] = "full"
  BY HoldsNow DEF ExistsAt, AbsentAt, RowsAt, FullAt, At0, CreatesOf, DropsOf, LoadsOf
<1>3. QED
  BY <1>1, <1>2 DEF Completes, Clears, Made

-----------------------------------------------------------------------------
(* Two kinds of scripts that run through: those that make every table in   *)
(* its place, and those that drop.                                         *)

\* Statement i of a script that creates table t with statement cr[t] and loads it with ld[t]: what it
\* needs is there by then.
InPlace(s, i, cr, ld) ==
  /\ s.verb \in {"create", "ensure", "read", "guard"} \cup Loading
  /\ s.tables \cup s.needs \subseteq DOMAIN cr
  /\ \A t \in s.needs : cr[t] < i
  /\ s.verb \in {"create", "ensure"} => \A t \in s.tables : cr[t] = i
  /\ s.verb \notin {"create", "ensure"} =>
       /\ \A t \in s.tables : cr[t] < i
       /\ \A t \in s.needs : t \in DOMAIN ld /\ ld[t] < i
  /\ s.verb \in Loading => \A t \in s.tables : t \in DOMAIN ld /\ ld[t] = i
  /\ s.verb = "guard" => \A t \in s.tables \cap DOMAIN ld : ld[t] > i

\* A script that drops what there is with its first m statements and makes the tables with the others.
MakesAll(sc, m, d, cr, ld) ==
  /\ Len(sc) \in Nat /\ m \in 0 .. Len(sc)
  /\ DOMAIN cr = DOMAIN d /\ DOMAIN ld \subseteq DOMAIN d
  /\ \A i \in 1 .. m : sc[i].verb = "drop" /\ sc[i].tables \subseteq DOMAIN d /\ sc[i].needs = {}
  /\ \A i \in m + 1 .. Len(sc) : InPlace(sc[i], i, cr, ld)
  /\ \A t \in DOMAIN d : cr[t] \in m + 1 .. Len(sc) /\ Creates(sc[cr[t]], t)
  /\ \A t \in DOMAIN ld : ld[t] \in m + 1 .. Len(sc) /\ LoadsTable(sc[ld[t]], t)
  /\ \A t \in DOMAIN d : d[t] = "absent" \/ \E i \in 1 .. m : t \in sc[i].tables
  /\ \A i \in 1 .. Len(sc) : sc[i].after = "attempt" => i < Len(sc) /\ sc[i + 1].verb = "read"

\* Nothing of it can fail, and then every table is there and the loaded ones are full.
LEMMA MakesThrough ==
  ASSUME NEW sc, NEW m, NEW d, NEW cr, NEW ld, MakesAll(sc, m, d, cr, ld)
  PROVE  /\ RunsThrough(sc, d) /\ GuardsPass(sc, d)
         /\ \A t \in DOMAIN d : ExistsAt(sc, d, Len(sc), t)
         /\ \A t \in DOMAIN ld : RowsAt(sc, d, Len(sc), t) /\ FullAt(sc, d, Len(sc), t)
<1> DEFINE n == Len(sc)
<1>1. n \in Nat /\ m \in Nat /\ m <= n /\ DOMAIN cr = DOMAIN d /\ DOMAIN ld \subseteq DOMAIN d
  BY DEF MakesAll
<1>2. \A i \in 1 .. m : sc[i].verb = "drop" /\ sc[i].tables \subseteq DOMAIN d /\ sc[i].needs = {}
  BY DEF MakesAll
<1>3. \A i \in m + 1 .. n : InPlace(sc[i], i, cr, ld)
  BY DEF MakesAll
<1>4. /\ \A t \in DOMAIN d : cr[t] \in m + 1 .. n /\ Creates(sc[cr[t]], t)
      /\ \A t \in DOMAIN ld : ld[t] \in m + 1 .. n /\ LoadsTable(sc[ld[t]], t)
      /\ \A t \in DOMAIN d : d[t] = "absent" \/ \E i \in 1 .. m : t \in sc[i].tables
      /\ \A i \in 1 .. n : sc[i].after = "attempt" => i < n /\ sc[i + 1].verb = "read"
  BY DEF MakesAll
<1> HIDE DEF n
<1>5. \A i \in 1 .. n : i \in 1 .. m \/ i \in m + 1 .. n
  BY <1>1
<1>6. ASSUME NEW t \in DOMAIN d, NEW i \in 1 .. n
      PROVE  /\ Drops(sc[i], t) => i <= m
             /\ Creates(sc[i], t) => i = cr[t]
             /\ LoadsTable(sc[i], t) => t \in DOMAIN ld /\ i = ld[t]
  <2>1. CASE i \in 1 .. m
    BY <1>2, <2>1 DEF Drops, Creates, LoadsTable, Loading
  <2>2. CASE i \in m + 1 .. n
    BY <1>3, <2>2 DEF InPlace, Drops, Creates, LoadsTable, Loading
  <2>3. QED
    BY <1>5, <2>1, <2>2
<1>7. ASSUME NEW t \in DOMAIN d, NEW k \in m .. n
      PROVE  /\ cr[t] <= k => ExistsAt(sc, d, k, t)
             /\ k < cr[t] => AbsentAt(sc, d, k, t)
             /\ t \in DOMAIN ld /\ ld[t] <= k => RowsAt(sc, d, k, t)
             /\ t \notin DOMAIN ld \/ k < ld[t] => NoRowsAt(sc, d, k, t)
  <2>1. /\ \A i \in DropsOf(sc, t) : i \in 1 .. m
        /\ \A i \in CreatesOf(sc, t) : i = cr[t]
        /\ \A i \in LoadsOf(sc, t) : t \in DOMAIN ld /\ i = ld[t]
    BY <1>6 DEF DropsOf, CreatesOf, LoadsOf, n
  <2>2. cr[t] \in CreatesOf(sc, t) /\ cr[t] \in m + 1 .. n
    BY <1>1, <1>4 DEF CreatesOf, n
  <2>3. t \in DOMAIN ld => ld[t] \in LoadsOf(sc, t) /\ ld[t] \in m + 1 .. n
    BY <1>1, <1>4 DEF LoadsOf, n
  <2>4. d[t] = "absent" \/ \E i \in 1 .. m : i \in DropsOf(sc, t)
    BY <1>1, <1>2, <1>4 DEF DropsOf, Drops, n
  <2>5. cr[t] <= k => ExistsAt(sc, d, k, t)
    BY <1>1, <2>1, <2>2 DEF ExistsAt, Holds
  <2>6. k < cr[t] => AbsentAt(sc, d, k, t)
    <3>1. ASSUME k < cr[t] PROVE \A i \in 1 .. k : i \notin CreatesOf(sc, t)
      BY <1>1, <2>1, <2>2, <3>1
    <3>2. CASE d[t] = "absent"
      BY <1>1, <3>1, <3>2 DEF AbsentAt, Holds, At0
    <3>3. ASSUME NEW i \in 1 .. m, i \in DropsOf(sc, t) PROVE k < cr[t] => AbsentAt(sc, d, k, t)
      BY <1>1, <3>1, <3>3 DEF AbsentAt, Holds
    <3>4. QED
      BY <2>4, <3>2, <3>3
  <2>7. t \in DOMAIN ld /\ ld[t] <= k => RowsAt(sc, d, k, t)
    BY <1>1, <2>1, <2>3 DEF RowsAt, Holds
  <2>8. t \notin DOMAIN ld \/ k < ld[t] => NoRowsAt(sc, d, k, t)
    <3>1. ASSUME t \notin DOMAIN ld \/ k < ld[t] PROVE \A i \in 1 .. k : i \notin LoadsOf(sc, t)
      BY <1>1, <2>1, <2>3, <3>1
    <3>2. CASE d[t] = "absent"
      <4>1. ~HasRows(d, t)
        BY <3>2 DEF HasRows
      <4>2. 0 \in At0(~HasRows(d, t))
        BY <4>1 DEF At0
      <4>3. QED
        BY <1>1, <3>1, <4>2 DEF NoRowsAt, Holds
    <3>3. ASSUME NEW i \in 1 .. m, i \in DropsOf(sc, t) PROVE t \notin DOMAIN ld \/ k < ld[t] => NoRowsAt(sc, d, k, t)
      BY <1>1, <3>1, <3>3 DEF NoRowsAt, Holds
    <3>4. QED
      BY <2>4, <3>2, <3>3
  <2>9. QED
    BY <2>5, <2>6, <2>7, <2>8
<1>8. \A i \in 1 .. n : Fits(sc[i], d)
  BY <1>1, <1>2, <1>3, <1>5 DEF InPlace, Fits, Schematic, Loading
<1>9. ASSUME NEW k \in 1 .. n PROVE Possible(sc, d, k)
  <2>1. CASE k \in 1 .. m
    <3>1. sc[k].verb = "drop" /\ sc[k].needs = {}
      BY <1>2, <2>1
    <3>2. QED
      BY <1>4, <1>8, <3>1 DEF Possible, Schematic, n
  <2>2. CASE k \in m + 1 .. n
    <3>1. InPlace(sc[k], k, cr, ld) /\ k - 1 \in m .. n
      BY <1>1, <1>3, <2>2
    <3>2. \A t \in sc[k].needs \cup sc[k].tables :
            /\ t \in DOMAIN d /\ cr[t] \in Nat
            /\ t \in DOMAIN ld => ld[t] \in Nat
      BY <1>1, <1>4, <3>1 DEF InPlace
    <3>3. \A t \in sc[k].needs \cup sc[k].tables :
             /\ cr[t] < k => ExistsAt(sc, d, k - 1, t)
             /\ cr[t] = k => AbsentAt(sc, d, k - 1, t)
             /\ t \in DOMAIN ld /\ ld[t] < k => RowsAt(sc, d, k - 1, t)
             /\ t \in DOMAIN ld /\ ld[t] = k => NoRowsAt(sc, d, k - 1, t)
      <4>1. ASSUME NEW t \in sc[k].needs \cup sc[k].tables
            PROVE  /\ cr[t] < k => cr[t] <= k - 1
                   /\ cr[t] = k => k - 1 < cr[t]
                   /\ t \in DOMAIN ld /\ ld[t] < k => ld[t] <= k - 1
                   /\ t \in DOMAIN ld /\ ld[t] = k => k - 1 < ld[t]
        BY <1>1, <3>2
      <4>2. QED
        BY <1>7, <3>1, <3>2, <4>1
    <3>4. sc[k].after = "attempt" => k < Len(sc) /\ sc[k + 1].verb = "read"
      BY <1>4 DEF n
    <3>5. Fits(sc[k], d)
      BY <1>8
    <3> DEFINE s == sc[k]
    <3>6. /\ \A t \in s.needs : ExistsAt(sc, d, k - 1, t)
          /\ s.verb \notin Schematic => \A t \in s.tables : ExistsAt(sc, d, k - 1, t)
          /\ s.verb \notin Schematic => \A t \in s.needs : RowsAt(sc, d, k - 1, t)
          /\ s.verb = "create" => \A t \in s.tables : AbsentAt(sc, d, k - 1, t)
          /\ s.verb = "copy" => \A t \in s.tables : NoRowsAt(sc, d, k - 1, t)
      BY <3>1, <3>3 DEF InPlace, Schematic, Loading
    <3>7. QED
      BY <3>4, <3>5, <3>6 DEF Possible
  <2>3. QED
    BY <1>5, <2>1, <2>2
<1>10. RunsThrough(sc, d)
  BY <1>8, <1>9 DEF RunsThrough, n
<1>11. GuardsPass(sc, d)
  <2>1. SUFFICES ASSUME NEW g \in 1 .. n, sc[g].verb = "guard", NEW t \in sc[g].tables
                 PROVE  NoRowsAt(sc, d, g - 1, t)
    BY DEF GuardsPass, n
  <2>2. g \in m + 1 .. n
    BY <1>2, <1>5, <2>1
  <2>3. InPlace(sc[g], g, cr, ld) /\ g - 1 \in m .. n
    BY <1>1, <1>3, <2>2
  <2>4. t \in DOMAIN d /\ (t \notin DOMAIN ld \/ g < ld[t])
    BY <1>1, <1>4, <2>1, <2>3 DEF InPlace
  <2>5. t \notin DOMAIN ld \/ g - 1 < ld[t]
    BY <1>1, <1>4, <2>4
  <2>6. QED
    BY <1>7, <2>3, <2>4, <2>5
<1>12. ASSUME NEW t \in DOMAIN d PROVE ExistsAt(sc, d, n, t)
  <2>1. n \in m .. n /\ cr[t] <= n
    BY <1>1, <1>4
  <2>2. QED
    BY <1>7, <2>1
<1>13. ASSUME NEW t \in DOMAIN ld PROVE RowsAt(sc, d, n, t) /\ FullAt(sc, d, n, t)
  <2>1. n \in m .. n /\ ld[t] <= n /\ t \in DOMAIN d /\ ld[t] \in m + 1 .. n /\ ld[t] - 1 \in m .. n /\ ld[t] - 1 < ld[t]
    BY <1>1, <1>4
  <2>2. RowsAt(sc, d, n, t)
    BY <1>7, <2>1
  <2>3. NoRowsAt(sc, d, ld[t] - 1, t)
    BY <1>7, <2>1
  <2>4. ld[t] \in LoadsOf(sc, t) /\ ld[t] \in 0 .. n
    BY <1>1, <1>4 DEF LoadsOf, n
  <2>5. \A i \in ld[t] + 1 .. n : i \notin DropsOf(sc, t)
    BY <1>1, <1>6, <2>1 DEF DropsOf, n
  <2>6. FullAt(sc, d, n, t)
    BY <2>3, <2>4, <2>5 DEF FullAt, Holds
  <2>7. QED
    BY <2>2, <2>6
<1>14. QED
  BY <1>10, <1>11, <1>12, <1>13 DEF n

\* A script that only drops, or looks at no table.
OnlyDrops(sc, d) ==
  /\ Len(sc) \in Nat
  /\ \A i \in 1 .. Len(sc) : /\ sc[i].verb \in {"drop", "read"} /\ sc[i].needs = {} /\ sc[i].after # "attempt"
                             /\ sc[i].tables \subseteq DOMAIN d /\ (sc[i].verb = "read" => sc[i].tables = {})
  /\ \A t \in DOMAIN d : \E i \in 1 .. Len(sc) : Drops(sc[i], t)

\* Nothing of it can fail, and then no table is there.
LEMMA DropsThrough ==
  ASSUME NEW sc, NEW d, OnlyDrops(sc, d)
  PROVE  RunsThrough(sc, d) /\ GuardsPass(sc, d) /\ \A t \in DOMAIN d : AbsentAt(sc, d, Len(sc), t)
<1>1. /\ Len(sc) \in Nat
      /\ \A i \in 1 .. Len(sc) : /\ sc[i].verb \in {"drop", "read"} /\ sc[i].needs = {} /\ sc[i].after # "attempt"
                                 /\ sc[i].tables \subseteq DOMAIN d /\ (sc[i].verb = "read" => sc[i].tables = {})
      /\ \A t \in DOMAIN d : \E i \in 1 .. Len(sc) : Drops(sc[i], t)
  BY DEF OnlyDrops
<1>2. \A i \in 1 .. Len(sc) : Fits(sc[i], d)
  BY <1>1 DEF Fits, Schematic
<1>3. \A k \in 1 .. Len(sc) : Possible(sc, d, k)
  BY <1>1, <1>2 DEF Possible, Schematic
<1>4. RunsThrough(sc, d) /\ GuardsPass(sc, d)
  BY <1>1, <1>2, <1>3 DEF RunsThrough, GuardsPass
<1>5. ASSUME NEW t \in DOMAIN d PROVE AbsentAt(sc, d, Len(sc), t)
  <2>1. PICK i \in 1 .. Len(sc) : Drops(sc[i], t)
    BY <1>1
  <2>2. i \in DropsOf(sc, t) /\ i \in 0 .. Len(sc)
    BY <1>1, <2>1 DEF DropsOf
  <2>3. \A j \in 1 .. Len(sc) : j \notin CreatesOf(sc, t)
    BY <1>1 DEF CreatesOf, Creates
  <2>4. QED
    BY <1>1, <2>2, <2>3 DEF AbsentAt, Holds
<1>6. QED
  BY <1>4, <1>5

-----------------------------------------------------------------------------
(* The scripts of the plugins are of these kinds.                          *)

Makes(sc, d, L) == \E m, cr, ld : MakesAll(sc, m, d, cr, ld) /\ L \subseteq DOMAIN ld
IsSequence(sc) == Len(sc) \in Nat /\ sc = [i \in 1 .. Len(sc) |-> sc[i]]

\* The fields of the statements that Setup and Cleanup of the ecommerce plugin send.
LEMMA EcommerceStatements ==
  /\ \A t, R : LET s == E!Create(t, R) IN
       s.verb = "create" /\ s.tables = {t} /\ s.needs = R /\ s.after = "next"
  /\ \A t : LET s == E!DropIfExists(t) IN
       s.verb = "drop" /\ s.tables = {t} /\ s.needs = {} /\ s.after = "next"
  /\ \A W, R : LET s == E!Fill(W, R) IN
       s.verb = "fill" /\ s.tables = W /\ s.needs = R /\ s.after = "next"
  /\ \A W : LET s == E!Ignored(E!Read(W)) IN
       s.verb = "read" /\ s.tables = W /\ s.needs = {} /\ s.after = "ignored"
  /\ \A t : LET s == E!StopIfFilled(t) IN
       s.verb = "guard" /\ s.tables = {t} /\ s.needs = {} /\ s.after = "next"
  /\ LET s == E!Ignored(E!Plain) IN
       s.verb = "read" /\ s.tables = {} /\ s.needs = {} /\ s.after = "ignored"
BY DEF E!Create, E!DropIfExists, E!Fill, E!Ignored, E!Read, E!StopIfFilled, E!Plain

EcommerceTables == {"users", "vendors", "products", "inventory", "purchase_orders",
                    "purchase_order_items", "orders", "order_items", "reviews",
                    "user_sessions", "product_analytics"}

\* The tables that it creates.
LEMMA EcommerceTablesAre == E!Tables = EcommerceTables
<1>1. /\ DOMAIN E!CreateTables = 1 .. 11 /\ E!CreateTables[1].tables = {"users"}
      /\ E!CreateTables[2].tables = {"vendors"} /\ E!CreateTables[3].tables = {"products"}
      /\ E!CreateTables[4].tables = {"inventory"} /\ E!CreateTables[5].tables = {"purchase_orders"}
      /\ E!CreateTables[6].tables = {"purchase_order_items"} /\ E!CreateTables[7].tables = {"orders"}
      /\ E!CreateTables[8].tables = {"order_items"} /\ E!CreateTables[9].tables = {"reviews"}
      /\ E!CreateTables[10].tables = {"user_sessions"}
      /\ E!CreateTables[11].tables = {"product_analytics"}
  BY EcommerceStatements DEF E!CreateTables
<1>2. 1 .. 11 = {1, 2, 3, 4, 5, 6, 7, 8, 9, 10, 11}
  OBVIOUS
<1>3. QED
  BY <1>1, <1>2 DEF E!Tables, EcommerceTables

\* Setup of the ecommerce plugin makes and loads the tables that Cleanup has dropped.
LEMMA EcommerceMakes ==
  ASSUME NEW d, DOMAIN d = EcommerceTables, \A t \in DOMAIN d : d[t] = "absent"
  PROVE  /\ Makes(E!CreateSchema \o <<E!StopIfFilled("users")>> \o E!LoadSampleData, d, {"users", "vendors", "products"})
         /\ IsSequence(E!CreateSchema \o <<E!StopIfFilled("users")>> \o E!LoadSampleData)
<1> DEFINE sc == E!CreateSchema \o <<E!StopIfFilled("users")>> \o E!LoadSampleData
           cr == [users |-> 2, vendors |-> 3, products |-> 4, inventory |-> 5,
                  purchase_orders |-> 6, purchase_order_items |-> 7, orders |-> 8,
                  order_items |-> 9, reviews |-> 10, user_sessions |-> 11,
                  product_analytics |-> 12]
           ld == [vendors |-> 18, users |-> 19, products |-> 20, inventory |-> 21,
                  orders |-> 22, order_items |-> 22, reviews |-> 23, user_sessions |-> 24,
                  product_analytics |-> 25, purchase_orders |-> 26,
                  purchase_order_items |-> 26]
<1>0. IsSequence(sc)
  BY DEF IsSequence, E!CreateSchema, E!CreateTables, E!CreateIndexes, E!EnablePgVector,
     E!CreateTriggers, E!LoadSampleData, E!LoadVendors, E!LoadUsers, E!LoadProducts, E!LoadInventory,
     E!LoadOrders, E!LoadReviews, E!LoadUserSessions, E!LoadProductAnalytics,
     E!LoadInitialPurchaseOrders
<1>1. /\ Len(sc) = 26 /\ sc[1] = E!Ignored(E!Plain) /\ sc[2] = E!Create("users", {})
      /\ sc[3] = E!Create("vendors", {}) /\ sc[4] = E!Create("products", {"vendors"})
      /\ sc[5] = E!Create("inventory", {"products", "vendors"})
      /\ sc[6] = E!Create("purchase_orders", {"vendors"})
      /\ sc[7] = E!Create("purchase_order_items", {"purchase_orders", "products"})
      /\ sc[8] = E!Create("orders", {"users"})
      /\ sc[9] = E!Create("order_items", {"orders", "products"})
      /\ sc[10] = E!Create("reviews", {"users", "products", "orders"})
      /\ sc[11] = E!Create("user_sessions", {"users"})
      /\ sc[12] = E!Create("product_analytics", {"users", "products"})
      /\ sc[13] = E!Ignored(E!Read(EcommerceTables)) /\ sc[14] = E!Ignored(E!Read({"reviews"}))
      /\ sc[15] = E!Ignored(E!Read({"inventory"}))
      /\ sc[16] = E!Ignored(E!Read({"purchase_order_items"})) /\ sc[17] = E!StopIfFilled("users")
      /\ sc[18] = E!Fill({"vendors"}, {}) /\ sc[19] = E!Fill({"users"}, {})
      /\ sc[20] = E!Fill({"products"}, {"vendors"})
      /\ sc[21] = E!Fill({"inventory"}, {"products", "vendors"})
      /\ sc[22] = E!Fill({"orders", "order_items"}, {"users", "products"})
      /\ sc[23] = E!Fill({"reviews"}, {"users", "products"})
      /\ sc[24] = E!Fill({"user_sessions"}, {"users"})
      /\ sc[25] = E!Fill({"product_analytics"}, {"users", "products"})
      /\ sc[26] = E!Fill({"purchase_orders", "purchase_order_items"}, {"vendors", "products"})
  BY EcommerceTablesAre DEF E!CreateSchema, E!CreateTables, E!CreateIndexes, E!EnablePgVector,
     E!CreateTriggers, E!LoadSampleData, E!LoadVendors, E!LoadUsers, E!LoadProducts, E!LoadInventory,
     E!LoadOrders, E!LoadReviews, E!LoadUserSessions, E!LoadProductAnalytics,
     E!LoadInitialPurchaseOrders
<1> HIDE DEF sc
<1>2. /\ DOMAIN cr = EcommerceTables /\ cr["users"] = 2 /\ cr["vendors"] = 3 /\ cr["products"] = 4
      /\ cr["inventory"] = 5 /\ cr["purchase_orders"] = 6 /\ cr["purchase_order_items"] = 7
      /\ cr["orders"] = 8 /\ cr["order_items"] = 9 /\ cr["reviews"] = 10 /\ cr["user_sessions"] = 11
      /\ cr["product_analytics"] = 12
  BY EcommerceTablesAre DEF EcommerceTables
<1>3. /\ DOMAIN ld = EcommerceTables /\ ld["vendors"] = 18 /\ ld["users"] = 19 /\ ld["products"] = 20
      /\ ld["inventory"] = 21 /\ ld["orders"] = 22 /\ ld["order_items"] = 22 /\ ld["reviews"] = 23
      /\ ld["user_sessions"] = 24 /\ ld["product_analytics"] = 25 /\ ld["purchase_orders"] = 26
      /\ ld["purchase_order_items"] = 26
  BY EcommerceTablesAre DEF EcommerceTables
<1> HIDE DEF cr, ld
<1>4. /\ InPlace(sc[1], 1, cr, ld) /\ InPlace(sc[2], 2, cr, ld) /\ InPlace(sc[3], 3, cr, ld)
      /\ InPlace(sc[4], 4, cr, ld) /\ InPlace(sc[5], 5, cr, ld) /\ InPlace(sc[6], 6, cr, ld)
      /\ InPlace(sc[7], 7, cr, ld) /\ InPlace(sc[8], 8, cr, ld) /\ InPlace(sc[9], 9, cr, ld)
  BY <1>1, <1>2, <1>3, EcommerceStatements DEF InPlace, EcommerceTables, Loading
<1>5. /\ InPlace(sc[10], 10, cr, ld) /\ InPlace(sc[11], 11, cr, ld) /\ InPlace(sc[12], 12, cr, ld)
      /\ InPlace(sc[13], 13, cr, ld) /\ InPlace(sc[14], 14, cr, ld) /\ InPlace(sc[15], 15, cr, ld)
      /\ InPlace(sc[16], 16, cr, ld) /\ InPlace(sc[17], 17, cr, ld) /\ InPlace(sc[18], 18, cr, ld)
  BY <1>1, <1>2, <1>3, EcommerceStatements DEF InPlace, EcommerceTables, Loading
<1>6. /\ InPlace(sc[19], 19, cr, ld) /\ InPlace(sc[20], 20, cr, ld) /\ InPlace(sc[21], 21, cr, ld)
      /\ InPlace(sc[22], 22, cr, ld) /\ InPlace(sc[23], 23, cr, ld) /\ InPlace(sc[24], 24, cr, ld)
      /\ InPlace(sc[25], 25, cr, ld) /\ InPlace(sc[26], 26, cr, ld)
  BY <1>1, <1>2, <1>3, EcommerceStatements DEF InPlace, EcommerceTables, Loading
<1>7. \A i \in 1 .. 26 : InPlace(sc[i], i, cr, ld)
  BY <1>4, <1>5, <1>6
<1>8. \A t \in DOMAIN cr : cr[t] \in 1 .. 26 /\ Creates(sc[cr[t]], t)
  BY <1>1, <1>2, EcommerceStatements DEF Creates, EcommerceTables
<1>9. \A t \in DOMAIN ld : ld[t] \in 1 .. 26 /\ LoadsTable(sc[ld[t]], t)
  BY <1>1, <1>3, EcommerceStatements DEF LoadsTable, Loading, EcommerceTables
<1>10. \A i \in 1 .. 26 : sc[i].after = "attempt" => i < 26 /\ sc[i + 1].verb = "read"
  BY <1>1, EcommerceStatements
<1>11. {"users", "vendors", "products"} \subseteq DOMAIN ld /\ DOMAIN ld \subseteq DOMAIN d
  BY <1>3 DEF EcommerceTables
<1>12. MakesAll(sc, 0, d, cr, ld)
  BY <1>1, <1>2, <1>7, <1>8, <1>9, <1>10, <1>11 DEF MakesAll
<1>13. QED
  BY <1>0, <1>11, <1>12 DEF Makes, sc

\* Its Cleanup drops them.
LEMMA EcommerceDrops ==
  ASSUME NEW d, DOMAIN d = EcommerceTables
  PROVE  OnlyDrops(E!Cleanup, d) /\ IsSequence(E!Cleanup)
<1> DEFINE sc == E!Cleanup
<1>0. IsSequence(sc)
  BY DEF IsSequence, E!Cleanup
<1>1. /\ Len(sc) = 12 /\ sc[1] = E!Ignored(E!Plain) /\ sc[2] = E!DropIfExists("product_analytics")
      /\ sc[3] = E!DropIfExists("user_sessions") /\ sc[4] = E!DropIfExists("reviews")
      /\ sc[5] = E!DropIfExists("order_items") /\ sc[6] = E!DropIfExists("orders")
      /\ sc[7] = E!DropIfExists("purchase_order_items") /\ sc[8] = E!DropIfExists("purchase_orders")
      /\ sc[9] = E!DropIfExists("inventory") /\ sc[10] = E!DropIfExists("products")
      /\ sc[11] = E!DropIfExists("vendors") /\ sc[12] = E!DropIfExists("users")
  BY DEF E!Cleanup
<1> HIDE DEF sc
<1>2. \A i \in 1 .. 12 : /\ sc[i].verb \in {"drop", "read"} /\ sc[i].needs = {} /\ sc[i].after # "attempt"
                       /\ sc[i].tables \subseteq DOMAIN d /\ (sc[i].verb = "read" => sc[i].tables = {})
  BY <1>1, EcommerceStatements DEF EcommerceTables
<1>3. \A t \in DOMAIN d : \E i \in 1 .. 12 : Drops(sc[i], t)
  BY <1>1, EcommerceStatements DEF Drops, EcommerceTables
<1>4. OnlyDrops(sc, d)
  BY <1>1, <1>2, <1>3 DEF OnlyDrops
<1>5. QED
  BY <1>0, <1>4 DEF sc

\* The fields of the statements that the basic e-commerce plugin sends.
LEMMA EcommerceBasicStatements ==
  /\ \A t, R : LET s == B!Create(t, R) IN
       s.verb = "create" /\ s.tables = {t} /\ s.needs = R /\ s.after = "next"
  /\ \A t : LET s == B!DropIfExists(t) IN
       s.verb = "drop" /\ s.tables = {t} /\ s.needs = {} /\ s.after = "next"
  /\ \A W, R : LET s == B!Fill(W, R) IN
       s.verb = "fill" /\ s.tables = W /\ s.needs = R /\ s.after = "next"
  /\ \A W, R : LET s == B!Ignored(B!Fill(W, R)) IN
       s.verb = "fill" /\ s.tables = W /\ s.needs = R /\ s.after = "ignored"
  /\ \A W : LET s == B!Ignored(B!Read(W)) IN
       s.verb = "read" /\ s.tables = W /\ s.needs = {} /\ s.after = "ignored"
  /\ \A t : LET s == B!StopIfFilled(t) IN
       s.verb = "guard" /\ s.tables = {t} /\ s.needs = {} /\ s.after = "next"
BY DEF B!Create, B!DropIfExists, B!Fill, B!Ignored, B!Read, B!StopIfFilled, B!Plain

EcommerceBasicTables == {"users", "products", "inventory", "orders", "order_items", "reviews",
                         "user_sessions", "product_analytics"}

\* The tables that it creates.
LEMMA EcommerceBasicTablesAre == B!Tables = EcommerceBasicTables
<1>1. /\ DOMAIN B!CreateTables = 1 .. 8 /\ B!CreateTables[1].tables = {"users"}
      /\ B!CreateTables[2].tables = {"products"} /\ B!CreateTables[3].tables = {"inventory"}
      /\ B!CreateTables[4].tables = {"orders"} /\ B!CreateTables[5].tables = {"order_items"}
      /\ B!CreateTables[6].tables = {"reviews"} /\ B!CreateTables[7].tables = {"user_sessions"}
      /\ B!CreateTables[8].tables = {"product_analytics"}
  BY EcommerceBasicStatements DEF B!CreateTables
<1>2. 1 .. 8 = {1, 2, 3, 4, 5, 6, 7, 8}
  OBVIOUS
<1>3. QED
  BY <1>1, <1>2 DEF B!Tables, EcommerceBasicTables

\* The same of the basic e-commerce plugin.
LEMMA EcommerceBasicMakes ==
  ASSUME NEW d, DOMAIN d = EcommerceBasicTables, \A t \in DOMAIN d : d[t] = "absent"
  PROVE  /\ Makes(B!CreateSchema \o <<B!StopIfFilled("users")>> \o B!LoadSampleData, d, {"users", "products"})
         /\ IsSequence(B!CreateSchema \o <<B!StopIfFilled("users")>> \o B!LoadSampleData)
<1> DEFINE sc == B!CreateSchema \o <<B!StopIfFilled("users")>> \o B!LoadSampleData
           cr == [users |-> 1, products |-> 2, inventory |-> 3, orders |-> 4,
                  order_items |-> 5, reviews |-> 6, user_sessions |-> 7,
                  product_analytics |-> 8]
           ld == [users |-> 11, products |-> 12, inventory |-> 13, orders |-> 14,
                  order_items |-> 14, reviews |-> 15, user_sessions |-> 16,
                  product_analytics |-> 17]
<1>0. IsSequence(sc)
  BY DEF IsSequence, B!CreateSchema, B!CreateTables, B!LoadSampleData, B!LoadUsers, B!LoadProducts,
     B!LoadInventory, B!LoadOrders, B!LoadReviews, B!LoadUserSessions, B!LoadProductAnalytics
<1>1. /\ Len(sc) = 17 /\ sc[1] = B!Create("users", {}) /\ sc[2] = B!Create("products", {})
      /\ sc[3] = B!Create("inventory", {"products"}) /\ sc[4] = B!Create("orders", {"users"})
      /\ sc[5] = B!Create("order_items", {"orders", "products"})
      /\ sc[6] = B!Create("reviews", {"users", "products"})
      /\ sc[7] = B!Create("user_sessions", {"users"})
      /\ sc[8] = B!Create("product_analytics", {"users", "products"})
      /\ sc[9] = B!Ignored(B!Read(EcommerceBasicTables)) /\ sc[10] = B!StopIfFilled("users")
      /\ sc[11] = B!Fill({"users"}, {}) /\ sc[12] = B!Fill({"products"}, {})
      /\ sc[13] = B!Fill({"inventory"}, {"products"})
      /\ sc[14] = B!Ignored(B!Fill({"orders", "order_items"}, {"users", "products"}))
      /\ sc[15] = B!Fill({"reviews"}, {"users", "products"})
      /\ sc[16] = B!Fill({"user_sessions"}, {"users"})
      /\ sc[17] = B!Fill({"product_analytics"}, {"users", "products"})
  BY EcommerceBasicTablesAre DEF B!CreateSchema, B!CreateTables, B!LoadSampleData, B!LoadUsers,
     B!LoadProducts, B!LoadInventory, B!LoadOrders, B!LoadReviews, B!LoadUserSessions,
     B!LoadProductAnalytics
<1> HIDE DEF sc
<1>2. /\ DOMAIN cr = EcommerceBasicTables /\ cr["users"] = 1 /\ cr["products"] = 2
      /\ cr["inventory"] = 3 /\ cr["orders"] = 4 /\ cr["order_items"] = 5 /\ cr["reviews"] = 6
      /\ cr["user_sessions"] = 7 /\ cr["product_analytics"] = 8
  BY EcommerceBasicTablesAre DEF EcommerceBasicTables
<1>3. /\ DOMAIN ld = EcommerceBasicTables /\ ld["users"] = 11 /\ ld["products"] = 12
      /\ ld["inventory"] = 13 /\ ld["orders"] = 14 /\ ld["order_items"] = 14 /\ ld["reviews"] = 15
      /\ ld["user_sessions"] = 16 /\ ld["product_analytics"] = 17
  BY EcommerceBasicTablesAre DEF EcommerceBasicTables
<1> HIDE DEF cr, ld
<1>4. /\ InPlace(sc[1], 1, cr, ld) /\ InPlace(sc[2], 2, cr, ld) /\ InPlace(sc[3], 3, cr, ld)
      /\ InPlace(sc[4], 4, cr, ld) /\ InPlace(sc[5], 5, cr, ld) /\ InPlace(sc[6], 6, cr, ld)
      /\ InPlace(sc[7], 7, cr, ld) /\ InPlace(sc[8], 8, cr, ld) /\ InPlace(sc[9], 9, cr, ld)
  BY <1>1, <1>2, <1>3, EcommerceBasicStatements DEF InPlace, EcommerceBasicTables, Loading
<1>5. /\ InPlace(sc[10], 10, cr, ld) /\ InPlace(sc[11], 11, cr, ld) /\ InPlace(sc[12], 12, cr, ld)
      /\ InPlace(sc[13], 13, cr, ld) /\ InPlace(sc[14], 14, cr, ld) /\ InPlace(sc[15], 15, cr, ld)
      /\ InPlace(sc[16], 16, cr, ld) /\ InPlace(sc[17], 17, cr, ld)
  BY <1>1, <1>2, <1>3, EcommerceBasicStatements DEF InPlace, EcommerceBasicTables, Loading
<1>6. \A i \in 1 .. 17 : InPlace(sc[i], i, cr, ld)
  BY <1>4, <1>5
<1>7. \A t \in DOMAIN cr : cr[t] \in 1 .. 17 /\ Creates(sc[cr[t]], t)
  BY <1>1, <1>2, EcommerceBasicStatements DEF Creates, EcommerceBasicTables
<1>8. \A t \in DOMAIN ld : ld[t] \in 1 .. 17 /\ LoadsTable(sc[ld[t]], t)
  BY <1>1, <1>3, EcommerceBasicStatements DEF LoadsTable, Loading, EcommerceBasicTables
<1>9. \A i \in 1 .. 17 : sc[i].after = "attempt" => i < 17 /\ sc[i + 1].verb = "read"
  BY <1>1, EcommerceBasicStatements
<1>10. {"users", "products"} \subseteq DOMAIN ld /\ DOMAIN ld \subseteq DOMAIN d
  BY <1>3 DEF EcommerceBasicTables
<1>11. MakesAll(sc, 0, d, cr, ld)
  BY <1>1, <1>2, <1>6, <1>7, <1>8, <1>9, <1>10 DEF MakesAll
<1>12. QED
  BY <1>0, <1>10, <1>11 DEF Makes, sc

\* Its Cleanup drops them.
LEMMA EcommerceBasicDrops ==
  ASSUME NEW d, DOMAIN d = EcommerceBasicTables
  PROVE  OnlyDrops(B!Cleanup, d) /\ IsSequence(B!Cleanup)
<1> DEFINE sc == B!Cleanup
<1>0. IsSequence(sc)
  BY DEF IsSequence, B!Cleanup
<1>1. /\ Len(sc) = 8 /\ sc[1] = B!DropIfExists("product_analytics")
      /\ sc[2] = B!DropIfExists("user_sessions") /\ sc[3] = B!DropIfExists("reviews")
      /\ sc[4] = B!DropIfExists("order_items") /\ sc[5] = B!DropIfExists("orders")
      /\ sc[6] = B!DropIfExists("inventory") /\ sc[7] = B!DropIfExists("products")
      /\ sc[8] = B!DropIfExists("users")
  BY DEF B!Cleanup
<1> HIDE DEF sc
<1>2. \A i \in 1 .. 8 : /\ sc[i].verb \in {"drop", "read"} /\ sc[i].needs = {} /\ sc[i].after # "attempt"
                       /\ sc[i].tables \subseteq DOMAIN d /\ (sc[i].verb = "read" => sc[i].tables = {})
  BY <1>1, EcommerceBasicStatements DEF EcommerceBasicTables
<1>3. \A t \in DOMAIN d : \E i \in 1 .. 8 : Drops(sc[i], t)
  BY <1>1, EcommerceBasicStatements DEF Drops, EcommerceBasicTables
<1>4. OnlyDrops(sc, d)
  BY <1>1, <1>2, <1>3 DEF OnlyDrops
<1>5. QED
  BY <1>0, <1>4 DEF sc

\* The fields of the statements that the IMDB plugin sends.
LEMMA ImdbStatements ==
  /\ \A t, R : LET s == I!CreateIfNotExists(t, R) IN
       s.verb = "ensure" /\ s.tables = {t} /\ s.needs = R /\ s.after = "next"
  /\ \A t : LET s == I!DropIfExists(t) IN
       s.verb = "drop" /\ s.tables = {t} /\ s.needs = {} /\ s.after = "next"
  /\ \A W, R : LET s == I!Fill(W, R) IN
       s.verb = "fill" /\ s.tables = W /\ s.needs = R /\ s.after = "next"
  /\ \A W, R : LET s == I!Ignored(I!Fill(W, R)) IN
       s.verb = "fill" /\ s.tables = W /\ s.needs = R /\ s.after = "ignored"
  /\ \A t : LET s == I!StopIfFilled(t) IN
       s.verb = "guard" /\ s.tables = {t} /\ s.needs = {} /\ s.after = "next"
BY DEF I!CreateIfNotExists, I!Create, I!DropIfExists, I!Fill, I!Ignored, I!StopIfFilled, I!Plain

\* Setup of the IMDB plugin, in each mode of loading.
LEMMA ImdbLoadSampleData ==
  ASSUME NEW d, DOMAIN d = I!Tables, \A t \in DOMAIN d : d[t] = "absent"
  PROVE  /\ Makes(I!CreateTables \o <<I!StopIfFilled("meta")>> \o I!loadSampleData, d, {"meta"})
         /\ IsSequence(I!CreateTables \o <<I!StopIfFilled("meta")>> \o I!loadSampleData)
<1> DEFINE sc == I!CreateTables \o <<I!StopIfFilled("meta")>> \o I!loadSampleData
           cr == [meta |-> 1, actors |-> 2, cast |-> 3, user_comments |-> 4,
                  viewed_logs |-> 5, voting_count_history |-> 6]
           ld == [actors |-> 8, meta |-> 9, cast |-> 10, user_comments |-> 11,
                  viewed_logs |-> 12, voting_count_history |-> 13]
<1>0. IsSequence(sc)
  BY DEF IsSequence, I!CreateTables, I!loadSampleData
<1>1. /\ Len(sc) = 13 /\ sc[1] = I!CreateIfNotExists("meta", {})
      /\ sc[2] = I!CreateIfNotExists("actors", {}) /\ sc[3] = I!CreateIfNotExists("cast", {})
      /\ sc[4] = I!CreateIfNotExists("user_comments", {})
      /\ sc[5] = I!CreateIfNotExists("viewed_logs", {})
      /\ sc[6] = I!CreateIfNotExists("voting_count_history", {}) /\ sc[7] = I!StopIfFilled("meta")
      /\ sc[8] = I!Fill({"actors"}, {}) /\ sc[9] = I!Fill({"meta"}, {})
      /\ sc[10] = I!Fill({"cast"}, {}) /\ sc[11] = I!Fill({"user_comments"}, {})
      /\ sc[12] = I!Fill({"viewed_logs"}, {}) /\ sc[13] = I!Fill({"voting_count_history"}, {})
  BY DEF I!CreateTables, I!loadSampleData
<1> HIDE DEF sc
<1>2. /\ DOMAIN cr = I!Tables /\ cr["meta"] = 1 /\ cr["actors"] = 2 /\ cr["cast"] = 3
      /\ cr["user_comments"] = 4 /\ cr["viewed_logs"] = 5 /\ cr["voting_count_history"] = 6
  BY DEF I!Tables
<1>3. /\ DOMAIN ld = I!Tables /\ ld["actors"] = 8 /\ ld["meta"] = 9 /\ ld["cast"] = 10
      /\ ld["user_comments"] = 11 /\ ld["viewed_logs"] = 12 /\ ld["voting_count_history"] = 13
  BY DEF I!Tables
<1> HIDE DEF cr, ld
<1>4. /\ InPlace(sc[1], 1, cr, ld) /\ InPlace(sc[2], 2, cr, ld) /\ InPlace(sc[3], 3, cr, ld)
      /\ InPlace(sc[4], 4, cr, ld) /\ InPlace(sc[5], 5, cr, ld) /\ InPlace(sc[6], 6, cr, ld)
      /\ InPlace(sc[7], 7, cr, ld) /\ InPlace(sc[8], 8, cr, ld) /\ InPlace(sc[9], 9, cr, ld)
  BY <1>1, <1>2, <1>3, ImdbStatements DEF InPlace, I!Tables, Loading
<1>5. /\ InPlace(sc[10], 10, cr, ld) /\ InPlace(sc[11], 11, cr, ld) /\ InPlace(sc[12], 12, cr, ld)
      /\ InPlace(sc[13], 13, cr, ld)
  BY <1>1, <1>2, <1>3, ImdbStatements DEF InPlace, I!Tables, Loading
<1>6. \A i \in 1 .. 13 : InPlace(sc[i], i, cr, ld)
  BY <1>4, <1>5
<1>7. \A t \in DOMAIN cr : cr[t] \in 1 .. 13 /\ Creates(sc[cr[t]], t)
  BY <1>1, <1>2, ImdbStatements DEF Creates, I!Tables
<1>8. \A t \in DOMAIN ld : ld[t] \in 1 .. 13 /\ LoadsTable(sc[ld[t]], t)
  BY <1>1, <1>3, ImdbStatements DEF LoadsTable, Loading, I!Tables
<1>9. \A i \in 1 .. 13 : sc[i].after = "attempt" => i < 13 /\ sc[i + 1].verb = "read"
  BY <1>1, ImdbStatements
<1>10. {"meta"} \subseteq DOMAIN ld /\ DOMAIN ld \subseteq DOMAIN d
  BY <1>3 DEF I!Tables
<1>11. MakesAll(sc, 0, d, cr, ld)
  BY <1>1, <1>2, <1>6, <1>7, <1>8, <1>9, <1>10 DEF MakesAll
<1>12. QED
  BY <1>0, <1>10, <1>11 DEF Makes, sc

\* From a dump.
LEMMA ImdbLoadFromDump ==
  ASSUME NEW d, DOMAIN d = I!Tables, \A t \in DOMAIN d : d[t] = "absent"
  PROVE  /\ Makes(I!CreateTables \o <<I!StopIfFilled("meta")>> \o I!loadFromDump, d, {"meta"})
         /\ IsSequence(I!CreateTables \o <<I!StopIfFilled("meta")>> \o I!loadFromDump)
<1> DEFINE sc == I!CreateTables \o <<I!StopIfFilled("meta")>> \o I!loadFromDump
           cr == [meta |-> 1, actors |-> 2, cast |-> 3, user_comments |-> 4,
                  viewed_logs |-> 5, voting_count_history |-> 6]
           ld == [meta |-> 8, actors |-> 8, cast |-> 8, user_comments |-> 8,
                  viewed_logs |-> 8, voting_count_history |-> 8]
<1>0. IsSequence(sc)
  BY DEF IsSequence, I!CreateTables, I!loadFromDump
<1>1. /\ Len(sc) = 8 /\ sc[1] = I!CreateIfNotExists("meta", {})
      /\ sc[2] = I!CreateIfNotExists("actors", {}) /\ sc[3] = I!CreateIfNotExists("cast", {})
      /\ sc[4] = I!CreateIfNotExists("user_comments", {})
      /\ sc[5] = I!CreateIfNotExists("viewed_logs", {})
      /\ sc[6] = I!CreateIfNotExists("voting_count_history", {}) /\ sc[7] = I!StopIfFilled("meta")
      /\ sc[8] = I!Fill(I!Tables, {})
  BY DEF I!CreateTables, I!loadFromDump
<1> HIDE DEF sc
<1>2. /\ DOMAIN cr = I!Tables /\ cr["meta"] = 1 /\ cr["actors"] = 2 /\ cr["cast"] = 3
      /\ cr["user_comments"] = 4 /\ cr["viewed_logs"] = 5 /\ cr["voting_count_history"] = 6
  BY DEF I!Tables
<1>3. /\ DOMAIN ld = I!Tables /\ ld["meta"] = 8 /\ ld["actors"] = 8 /\ ld["cast"] = 8
      /\ ld["user_comments"] = 8 /\ ld["viewed_logs"] = 8 /\ ld["voting_count_history"] = 8
  BY DEF I!Tables
<1> HIDE DEF cr, ld
<1>4. /\ InPlace(sc[1], 1, cr, ld) /\ InPlace(sc[2], 2, cr, ld) /\ InPlace(sc[3], 3, cr, ld)
      /\ InPlace(sc[4], 4, cr, ld) /\ InPlace(sc[5], 5, cr, ld) /\ InPlace(sc[6], 6, cr, ld)
      /\ InPlace(sc[7], 7, cr, ld) /\ InPlace(sc[8], 8, cr, ld)
  BY <1>1, <1>2, <1>3, ImdbStatements DEF InPlace, I!Tables, Loading
<1>5. \A i \in 1 .. 8 : InPlace(sc[i], i, cr, ld)
  BY <1>4
<1>6. \A t \in DOMAIN cr : cr[t] \in 1 .. 8 /\ Creates(sc[cr[t]], t)
  BY <1>1, <1>2, ImdbStatements DEF Creates, I!Tables
<1>7. \A t \in DOMAIN ld : ld[t] \in 1 .. 8 /\ LoadsTable(sc[ld[t]], t)
  BY <1>1, <1>3, ImdbStatements DEF LoadsTable, Loading, I!Tables
<1>8. \A i \in 1 .. 8 : sc[i].after = "attempt" => i < 8 /\ sc[i + 1].verb = "read"
  BY <1>1, ImdbStatements
<1>9. {"meta"} \subseteq DOMAIN ld /\ DOMAIN ld \subseteq DOMAIN d
  BY <1>3 DEF I!Tables
<1>10. MakesAll(sc, 0, d, cr, ld)
  BY <1>1, <1>2, <1>5, <1>6, <1>7, <1>8, <1>9 DEF MakesAll
<1>11. QED
  BY <1>0, <1>9, <1>10 DEF Makes, sc

\* From a file of statements.
LEMMA ImdbLoadFromSQL ==
  ASSUME NEW d, DOMAIN d = I!Tables, \A t \in DOMAIN d : d[t] = "absent"
  PROVE  /\ Makes(I!CreateTables \o <<I!StopIfFilled("meta")>> \o I!loadFromSQL, d, {"meta"})
         /\ IsSequence(I!CreateTables \o <<I!StopIfFilled("meta")>> \o I!loadFromSQL)
<1> DEFINE sc == I!CreateTables \o <<I!StopIfFilled("meta")>> \o I!loadFromSQL
           cr == [meta |-> 1, actors |-> 2, cast |-> 3, user_comments |-> 4,
                  viewed_logs |-> 5, voting_count_history |-> 6]
           ld == [meta |-> 8, actors |-> 8, cast |-> 8, user_comments |-> 8,
                  viewed_logs |-> 8, voting_count_history |-> 8]
<1>0. IsSequence(sc)
  BY DEF IsSequence, I!CreateTables, I!loadFromSQL
<1>1. /\ Len(sc) = 8 /\ sc[1] = I!CreateIfNotExists("meta", {})
      /\ sc[2] = I!CreateIfNotExists("actors", {}) /\ sc[3] = I!CreateIfNotExists("cast", {})
      /\ sc[4] = I!CreateIfNotExists("user_comments", {})
      /\ sc[5] = I!CreateIfNotExists("viewed_logs", {})
      /\ sc[6] = I!CreateIfNotExists("voting_count_history", {}) /\ sc[7] = I!StopIfFilled("meta")
      /\ sc[8] = I!Ignored(I!Fill(I!Tables, {}))
  BY DEF I!CreateTables, I!loadFromSQL
<1> HIDE DEF sc
<1>2. /\ DOMAIN cr = I!Tables /\ cr["meta"] = 1 /\ cr["actors"] = 2 /\ cr["cast"] = 3
      /\ cr["user_comments"] = 4 /\ cr["viewed_logs"] = 5 /\ cr["voting_count_history"] = 6
  BY DEF I!Tables
<1>3. /\ DOMAIN ld = I!Tables /\ ld["meta"] = 8 /\ ld["actors"] = 8 /\ ld["cast"] = 8
      /\ ld["user_comments"] = 8 /\ ld["viewed_logs"] = 8 /\ ld["voting_count_history"] = 8
  BY DEF I!Tables
<1> HIDE DEF cr, ld
<1>4. /\ InPlace(sc[1], 1, cr, ld) /\ InPlace(sc[2], 2, cr, ld) /\ InPlace(sc[3], 3, cr, ld)
      /\ InPlace(sc[4], 4, cr, ld) /\ InPlace(sc[5], 5, cr, ld) /\ InPlace(sc[6], 6, cr, ld)
      /\ InPlace(sc[7], 7, cr, ld) /\ InPlace(sc[8], 8, cr, ld)
  BY <1>1, <1>2, <1>3, ImdbStatements DEF InPlace, I!Tables, Loading
<1>5. \A i \in 1 .. 8 : InPlace(sc[i], i, cr, ld)
  BY <1>4
<1>6. \A t \in DOMAIN cr : cr[t] \in 1 .. 8 /\ Creates(sc[cr[t]], t)
  BY <1>1, <1>2, ImdbStatements DEF Creates, I!Tables
<1>7. \A t \in DOMAIN ld : ld[t] \in 1 .. 8 /\ LoadsTable(sc[ld[t]], t)
  BY <1>1, <1>3, ImdbStatements DEF LoadsTable, Loading, I!Tables
<1>8. \A i \in 1 .. 8 : sc[i].after = "attempt" => i < 8 /\ sc[i + 1].verb = "read"
  BY <1>1, ImdbStatements
<1>9. {"meta"} \subseteq DOMAIN ld /\ DOMAIN ld \subseteq DOMAIN d
  BY <1>3 DEF I!Tables
<1>10. MakesAll(sc, 0, d, cr, ld)
  BY <1>1, <1>2, <1>5, <1>6, <1>7, <1>8, <1>9 DEF MakesAll
<1>11. QED
  BY <1>0, <1>9, <1>10 DEF Makes, sc

\* Its Cleanup drops them.
LEMMA ImdbDrops ==
  ASSUME NEW d, DOMAIN d = I!Tables
  PROVE  OnlyDrops(I!Cleanup, d) /\ IsSequence(I!Cleanup)
<1> DEFINE sc == I!Cleanup
<1>0. IsSequence(sc)
  BY DEF IsSequence, I!Cleanup
<1>1. /\ Len(sc) = 6 /\ sc[1] = I!DropIfExists("voting_count_history")
      /\ sc[2] = I!DropIfExists("viewed_logs") /\ sc[3] = I!DropIfExists("user_comments")
      /\ sc[4] = I!DropIfExists("cast") /\ sc[5] = I!DropIfExists("actors")
      /\ sc[6] = I!DropIfExists("meta")
  BY DEF I!Cleanup
<1> HIDE DEF sc
<1>2. \A i \in 1 .. 6 : /\ sc[i].verb \in {"drop", "read"} /\ sc[i].needs = {} /\ sc[i].after # "attempt"
                       /\ sc[i].tables \subseteq DOMAIN d /\ (sc[i].verb = "read" => sc[i].tables = {})
  BY <1>1, ImdbStatements DEF I!Tables
<1>3. \A t \in DOMAIN d : \E i \in 1 .. 6 : Drops(sc[i], t)
  BY <1>1, ImdbStatements DEF Drops, I!Tables
<1>4. OnlyDrops(sc, d)
  BY <1>1, <1>2, <1>3 DEF OnlyDrops
<1>5. QED
  BY <1>0, <1>4 DEF sc

\* The fields of the statements that the connection plugin sends.
LEMMA ConnectionStatements ==
  /\ \A t, R : LET s == C!CreateIfNotExists(t, R) IN
       s.verb = "ensure" /\ s.tables = {t} /\ s.needs = R /\ s.after = "next"
  /\ \A t : LET s == C!DropIfExists(t) IN
       s.verb = "drop" /\ s.tables = {t} /\ s.needs = {} /\ s.after = "next"
  /\ \A W, R : LET s == C!FillAll(W, R) IN
       s.verb = "fillall" /\ s.tables = W /\ s.needs = R /\ s.after = "next"
  /\ \A t : LET s == C!StopIfFilled(t) IN
       s.verb = "guard" /\ s.tables = {t} /\ s.needs = {} /\ s.after = "next"
BY DEF C!CreateIfNotExists, C!Create, C!DropIfExists, C!FillAll, C!Fill, C!StopIfFilled, C!Plain

\* The connection plugin.
LEMMA ConnectionMakes ==
  ASSUME NEW d, DOMAIN d = C!Tables, \A t \in DOMAIN d : d[t] = "absent"
  PROVE  LET sc == <<C!CreateIfNotExists("connection_test", {}), C!StopIfFilled("connection_test"),
                     C!FillAll({"connection_test"}, {})>>
         IN  Makes(sc, d, {}) /\ IsSequence(sc)
<1> DEFINE sc == <<C!CreateIfNotExists("connection_test", {}), C!StopIfFilled("connection_test"),
                  C!FillAll({"connection_test"}, {})>>
           cr == [connection_test |-> 1]
           ld == [connection_test |-> 3]
<1>0. IsSequence(sc)
  BY DEF IsSequence
<1>1. /\ Len(sc) = 3 /\ sc[1] = C!CreateIfNotExists("connection_test", {})
      /\ sc[2] = C!StopIfFilled("connection_test") /\ sc[3] = C!FillAll({"connection_test"}, {})
  OBVIOUS
<1> HIDE DEF sc
<1>2. DOMAIN cr = C!Tables /\ cr["connection_test"] = 1
  BY DEF C!Tables
<1>3. DOMAIN ld = C!Tables /\ ld["connection_test"] = 3
  BY DEF C!Tables
<1> HIDE DEF cr, ld
<1>4. InPlace(sc[1], 1, cr, ld) /\ InPlace(sc[2], 2, cr, ld) /\ InPlace(sc[3], 3, cr, ld)
  BY <1>1, <1>2, <1>3, ConnectionStatements DEF InPlace, C!Tables, Loading
<1>5. \A i \in 1 .. 3 : InPlace(sc[i], i, cr, ld)
  BY <1>4
<1>6. \A t \in DOMAIN cr : cr[t] \in 1 .. 3 /\ Creates(sc[cr[t]], t)
  BY <1>1, <1>2, ConnectionStatements DEF Creates, C!Tables
<1>7. \A t \in DOMAIN ld : ld[t] \in 1 .. 3 /\ LoadsTable(sc[ld[t]], t)
  BY <1>1, <1>3, ConnectionStatements DEF LoadsTable, Loading, C!Tables
<1>8. \A i \in 1 .. 3 : sc[i].after = "attempt" => i < 3 /\ sc[i + 1].verb = "read"
  BY <1>1, ConnectionStatements
<1>9. {} \subseteq DOMAIN ld /\ DOMAIN ld \subseteq DOMAIN d
  BY <1>3 DEF C!Tables
<1>10. MakesAll(sc, 0, d, cr, ld)
  BY <1>1, <1>2, <1>5, <1>6, <1>7, <1>8, <1>9 DEF MakesAll
<1>11. QED
  BY <1>0, <1>9, <1>10 DEF Makes, sc

\* Its Cleanup.
LEMMA ConnectionDrops ==
  ASSUME NEW d, DOMAIN d = C!Tables
  PROVE  OnlyDrops(C!Cleanup, d) /\ IsSequence(C!Cleanup)
<1> DEFINE sc == C!Cleanup
<1>0. IsSequence(sc)
  BY DEF IsSequence, C!Cleanup
<1>1. Len(sc) = 1 /\ sc[1] = C!DropIfExists("connection_test")
  BY DEF C!Cleanup
<1> HIDE DEF sc
<1>2. \A i \in 1 .. 1 : /\ sc[i].verb \in {"drop", "read"} /\ sc[i].needs = {} /\ sc[i].after # "attempt"
                       /\ sc[i].tables \subseteq DOMAIN d /\ (sc[i].verb = "read" => sc[i].tables = {})
  BY <1>1, ConnectionStatements DEF C!Tables
<1>3. \A t \in DOMAIN d : \E i \in 1 .. 1 : Drops(sc[i], t)
  BY <1>1, ConnectionStatements DEF Drops, C!Tables
<1>4. OnlyDrops(sc, d)
  BY <1>1, <1>2, <1>3 DEF OnlyDrops
<1>5. QED
  BY <1>0, <1>4 DEF sc

\* The fields of the statements that the pgvector plugin sends.
LEMMA VectorStatements ==
  /\ \A t, R : LET s == V!CreateIfNotExists(t, R) IN
       s.verb = "ensure" /\ s.tables = {t} /\ s.needs = R /\ s.after = "next"
  /\ \A t : LET s == V!Ignored(V!DropIfExists(t)) IN
       s.verb = "drop" /\ s.tables = {t} /\ s.needs = {} /\ s.after = "ignored"
  /\ \A t, R : LET s == V!Copy(t, R) IN
       s.verb = "copy" /\ s.tables = {t} /\ s.needs = R /\ s.after = "next"
  /\ LET s == V!Plain IN s.verb = "read" /\ s.tables = {} /\ s.needs = {} /\ s.after = "next"
  /\ LET s == V!Try(V!Plain) IN
       s.verb = "read" /\ s.tables = {} /\ s.needs = {} /\ s.after = "attempt"
BY DEF V!CreateIfNotExists, V!Create, V!DropIfExists, V!Ignored, V!Copy, V!Fill, V!Try, V!Plain

\* The vector plugin loads one of its tables only.
LEMMA VectorMakes ==
  ASSUME NEW d, DOMAIN d = V!Tables, \A t \in DOMAIN d : d[t] = "absent"
  PROVE  /\ Makes(V!ensurePgVectorExtension \o V!createTestTables \o <<V!loadBaselineData>>, d, {})
         /\ IsSequence(V!ensurePgVectorExtension \o V!createTestTables \o <<V!loadBaselineData>>)
<1> DEFINE sc == V!ensurePgVectorExtension \o V!createTestTables \o <<V!loadBaselineData>>
           cr == [pgvector_test |-> 3, pgvector_ground_truth |-> 4]
           ld == [pgvector_test |-> 5]
<1>0. IsSequence(sc)
  BY DEF IsSequence, V!ensurePgVectorExtension, V!createTestTables, V!loadBaselineData
<1>1. /\ Len(sc) = 5 /\ sc[1] = V!Try(V!Plain) /\ sc[2] = V!Plain
      /\ sc[3] = V!CreateIfNotExists("pgvector_test", {})
      /\ sc[4] = V!CreateIfNotExists("pgvector_ground_truth", {})
      /\ sc[5] = V!Copy("pgvector_test", {})
  BY DEF V!ensurePgVectorExtension, V!createTestTables, V!loadBaselineData
<1> HIDE DEF sc
<1>2. DOMAIN cr = V!Tables /\ cr["pgvector_test"] = 3 /\ cr["pgvector_ground_truth"] = 4
  BY DEF V!Tables
<1>3. DOMAIN ld = {"pgvector_test"} /\ ld["pgvector_test"] = 5
  OBVIOUS
<1> HIDE DEF cr, ld
<1>4. /\ InPlace(sc[1], 1, cr, ld) /\ InPlace(sc[2], 2, cr, ld) /\ InPlace(sc[3], 3, cr, ld)
      /\ InPlace(sc[4], 4, cr, ld) /\ InPlace(sc[5], 5, cr, ld)
  BY <1>1, <1>2, <1>3, VectorStatements DEF InPlace, V!Tables, Loading
<1>5. \A i \in 1 .. 5 : InPlace(sc[i], i, cr, ld)
  BY <1>4
<1>6. \A t \in DOMAIN cr : cr[t] \in 1 .. 5 /\ Creates(sc[cr[t]], t)
  BY <1>1, <1>2, VectorStatements DEF Creates, V!Tables
<1>7. \A t \in DOMAIN ld : ld[t] \in 1 .. 5 /\ LoadsTable(sc[ld[t]], t)
  BY <1>1, <1>3, VectorStatements DEF LoadsTable, Loading, V!Tables
<1>8. \A i \in 1 .. 5 : sc[i].after = "attempt" => i < 5 /\ sc[i + 1].verb = "read"
  BY <1>1, VectorStatements
<1>9. {} \subseteq DOMAIN ld /\ DOMAIN ld \subseteq DOMAIN d
  BY <1>3 DEF V!Tables
<1>10. MakesAll(sc, 0, d, cr, ld)
  BY <1>1, <1>2, <1>5, <1>6, <1>7, <1>8, <1>9 DEF MakesAll
<1>11. QED
  BY <1>0, <1>9, <1>10 DEF Makes, sc

\* Its Cleanup.
LEMMA VectorDrops ==
  ASSUME NEW d, DOMAIN d = V!Tables
  PROVE  OnlyDrops(V!Cleanup, d) /\ IsSequence(V!Cleanup)
<1> DEFINE sc == V!Cleanup
<1>0. IsSequence(sc)
  BY DEF IsSequence, V!Cleanup
<1>1. /\ Len(sc) = 2 /\ sc[1] = V!Ignored(V!DropIfExists("pgvector_test"))
      /\ sc[2] = V!Ignored(V!DropIfExists("pgvector_ground_truth"))
  BY DEF V!Cleanup
<1> HIDE DEF sc
<1>2. \A i \in 1 .. 2 : /\ sc[i].verb \in {"drop", "read"} /\ sc[i].needs = {} /\ sc[i].after # "attempt"
                       /\ sc[i].tables \subseteq DOMAIN d /\ (sc[i].verb = "read" => sc[i].tables = {})
  BY <1>1, VectorStatements DEF V!Tables
<1>3. \A t \in DOMAIN d : \E i \in 1 .. 2 : Drops(sc[i], t)
  BY <1>1, VectorStatements DEF Drops, V!Tables
<1>4. OnlyDrops(sc, d)
  BY <1>1, <1>2, <1>3 DEF OnlyDrops
<1>5. QED
  BY <1>0, <1>4 DEF sc

\* The fields of the statements that the TPC-C plugin sends.
LEMMA TpccStatements ==
  /\ \A t, R : LET s == T!CreateIfNotExists(t, R) IN
       s.verb = "ensure" /\ s.tables = {t} /\ s.needs = R /\ s.after = "next"
  /\ \A t : LET s == T!DropIfExists(t) IN
       s.verb = "drop" /\ s.tables = {t} /\ s.needs = {} /\ s.after = "next"
  /\ \A W, R : LET s == T!Fill(W, R) IN
       s.verb = "fill" /\ s.tables = W /\ s.needs = R /\ s.after = "next"
  /\ \A W, R : LET s == T!FillAll(W, R) IN
       s.verb = "fillall" /\ s.tables = W /\ s.needs = R /\ s.after = "next"
  /\ \A t, R : LET s == T!Copy(t, R) IN
       s.verb = "copy" /\ s.tables = {t} /\ s.needs = R /\ s.after = "next"
  /\ \A t : LET s == T!StopIfFilled(t) IN
       s.verb = "guard" /\ s.tables = {t} /\ s.needs = {} /\ s.after = "next"
BY DEF T!CreateIfNotExists, T!Create, T!DropIfExists, T!Fill, T!FillAll, T!Copy, T!StopIfFilled,
   T!Plain

\* Cleanup of the TPC-C plugin drops the tables and makes them again.
LEMMA TpccMakes ==
  ASSUME NEW d, DOMAIN d = T!Tables
  PROVE  Makes(T!Cleanup, d, {"warehouse", "district", "customer"}) /\ IsSequence(T!Cleanup)
<1> DEFINE sc == T!Cleanup
           cr == [warehouse |-> 6, district |-> 7, customer |-> 8, orders |-> 9,
                  order_line |-> 10]
           ld == [warehouse |-> 12, district |-> 13, customer |-> 14]
<1>0. IsSequence(sc)
  BY DEF IsSequence, T!Cleanup, T!SetupScript, T!CreateTables, T!loadInitialData,
     T!loadDistrictsBatch, T!loadCustomersBatch
<1>1. /\ Len(sc) = 14 /\ sc[1] = T!DropIfExists("order_line") /\ sc[2] = T!DropIfExists("orders")
      /\ sc[3] = T!DropIfExists("customer") /\ sc[4] = T!DropIfExists("district")
      /\ sc[5] = T!DropIfExists("warehouse") /\ sc[6] = T!CreateIfNotExists("warehouse", {})
      /\ sc[7] = T!CreateIfNotExists("district", {"warehouse"})
      /\ sc[8] = T!CreateIfNotExists("customer", {}) /\ sc[9] = T!CreateIfNotExists("orders", {})
      /\ sc[10] = T!CreateIfNotExists("order_line", {}) /\ sc[11] = T!StopIfFilled("warehouse")
      /\ sc[12] = T!FillAll({"warehouse"}, {}) /\ sc[13] = T!Copy("district", {"warehouse"})
      /\ sc[14] = T!Fill({"customer"}, {})
  BY DEF T!Cleanup, T!SetupScript, T!CreateTables, T!loadInitialData, T!loadDistrictsBatch,
     T!loadCustomersBatch
<1> HIDE DEF sc
<1>2. /\ DOMAIN cr = T!Tables /\ cr["warehouse"] = 6 /\ cr["district"] = 7 /\ cr["customer"] = 8
      /\ cr["orders"] = 9 /\ cr["order_line"] = 10
  BY DEF T!Tables
<1>3. /\ DOMAIN ld = {"warehouse", "district", "customer"} /\ ld["warehouse"] = 12
      /\ ld["district"] = 13 /\ ld["customer"] = 14
  OBVIOUS
<1> HIDE DEF cr, ld
<1>4. \A i \in 1 .. 5 : sc[i].verb = "drop" /\ sc[i].tables \subseteq DOMAIN d /\ sc[i].needs = {}
  BY <1>1, TpccStatements DEF T!Tables
<1>5. \A t \in DOMAIN d : \E i \in 1 .. 5 : t \in sc[i].tables
  BY <1>1, TpccStatements DEF T!Tables
<1>6. /\ InPlace(sc[6], 6, cr, ld) /\ InPlace(sc[7], 7, cr, ld) /\ InPlace(sc[8], 8, cr, ld)
      /\ InPlace(sc[9], 9, cr, ld) /\ InPlace(sc[10], 10, cr, ld) /\ InPlace(sc[11], 11, cr, ld)
      /\ InPlace(sc[12], 12, cr, ld) /\ InPlace(sc[13], 13, cr, ld) /\ InPlace(sc[14], 14, cr, ld)
  BY <1>1, <1>2, <1>3, TpccStatements DEF InPlace, T!Tables, Loading
<1>7. \A i \in 6 .. 14 : InPlace(sc[i], i, cr, ld)
  BY <1>6
<1>8. \A t \in DOMAIN cr : cr[t] \in 6 .. 14 /\ Creates(sc[cr[t]], t)
  BY <1>1, <1>2, TpccStatements DEF Creates, T!Tables
<1>9. \A t \in DOMAIN ld : ld[t] \in 6 .. 14 /\ LoadsTable(sc[ld[t]], t)
  BY <1>1, <1>3, TpccStatements DEF LoadsTable, Loading, T!Tables
<1>10. \A i \in 1 .. 14 : sc[i].after = "attempt" => i < 14 /\ sc[i + 1].verb = "read"
  BY <1>1, TpccStatements
<1>11. {"warehouse", "district", "customer"} \subseteq DOMAIN ld /\ DOMAIN ld \subseteq DOMAIN d
  BY <1>3 DEF T!Tables
<1>12. MakesAll(sc, 5, d, cr, ld)
  BY <1>1, <1>2, <1>4, <1>5, <1>7, <1>8, <1>9, <1>10, <1>11 DEF MakesAll
<1>13. QED
  BY <1>0, <1>11, <1>12 DEF Makes, sc

\* The fields of the statements that the simple plugin sends.
LEMMA SimpleStatements ==
  /\ \A t, R : LET s == S!CreateIfNotExists(t, R) IN
       s.verb = "ensure" /\ s.tables = {t} /\ s.needs = R /\ s.after = "next"
  /\ \A t : LET s == S!DropIfExists(t) IN
       s.verb = "drop" /\ s.tables = {t} /\ s.needs = {} /\ s.after = "next"
  /\ \A W, R : LET s == S!Fill(W, R) IN
       s.verb = "fill" /\ s.tables = W /\ s.needs = R /\ s.after = "next"
BY DEF S!CreateIfNotExists, S!Create, S!DropIfExists, S!Fill, S!Plain

\* So does that of the simple plugin.
LEMMA SimpleMakes ==
  ASSUME NEW d, DOMAIN d = S!Tables
  PROVE  Makes(S!Cleanup, d, {"loadtest"}) /\ IsSequence(S!Cleanup)
<1> DEFINE sc == S!Cleanup
           cr == [loadtest |-> 2]
           ld == [loadtest |-> 3]
<1>0. IsSequence(sc)
  BY DEF IsSequence, S!Cleanup, S!SetupScript
<1>1. /\ Len(sc) = 3 /\ sc[1] = S!DropIfExists("loadtest")
      /\ sc[2] = S!CreateIfNotExists("loadtest", {}) /\ sc[3] = S!Fill({"loadtest"}, {})
  BY DEF S!Cleanup, S!SetupScript
<1> HIDE DEF sc
<1>2. DOMAIN cr = S!Tables /\ cr["loadtest"] = 2
  BY DEF S!Tables
<1>3. DOMAIN ld = S!Tables /\ ld["loadtest"] = 3
  BY DEF S!Tables
<1> HIDE DEF cr, ld
<1>4. \A i \in 1 .. 1 : sc[i].verb = "drop" /\ sc[i].tables \subseteq DOMAIN d /\ sc[i].needs = {}
  BY <1>1, SimpleStatements DEF S!Tables
<1>5. \A t \in DOMAIN d : \E i \in 1 .. 1 : t \in sc[i].tables
  BY <1>1, SimpleStatements DEF S!Tables
<1>6. InPlace(sc[2], 2, cr, ld) /\ InPlace(sc[3], 3, cr, ld)
  BY <1>1, <1>2, <1>3, SimpleStatements DEF InPlace, S!Tables, Loading
<1>7. \A i \in 2 .. 3 : InPlace(sc[i], i, cr, ld)
  BY <1>6
<1>8. \A t \in DOMAIN cr : cr[t] \in 2 .. 3 /\ Creates(sc[cr[t]], t)
  BY <1>1, <1>2, SimpleStatements DEF Creates, S!Tables
<1>9. \A t \in DOMAIN ld : ld[t] \in 2 .. 3 /\ LoadsTable(sc[ld[t]], t)
  BY <1>1, <1>3, SimpleStatements DEF LoadsTable, Loading, S!Tables
<1>10. \A i \in 1 .. 3 : sc[i].after = "attempt" => i < 3 /\ sc[i + 1].verb = "read"
  BY <1>1, SimpleStatements
<1>11. {"loadtest"} \subseteq DOMAIN ld /\ DOMAIN ld \subseteq DOMAIN d
  BY <1>3 DEF S!Tables
<1>12. MakesAll(sc, 1, d, cr, ld)
  BY <1>1, <1>2, <1>4, <1>5, <1>7, <1>8, <1>9, <1>10, <1>11 DEF MakesAll
<1>13. QED
  BY <1>0, <1>11, <1>12 DEF Makes, sc

-----------------------------------------------------------------------------
(* Cleanup on any tables, and Setup on those that Cleanup leaves.          *)

\* A script that makes all tables completes them.
LEMMA MakesCompletes ==
  ASSUME NEW d, DOMAIN d = Tables(plugin), NEW sc, NEW L, Makes(sc, d, L), Needed(plugin) \cup Guarded(plugin) \subseteq L
  PROVE  RunsThrough(sc, d) /\ Completes(sc, d)
<1>1. PICK m, cr, ld : MakesAll(sc, m, d, cr, ld) /\ L \subseteq DOMAIN ld
  BY DEF Makes
<1>2. /\ RunsThrough(sc, d) /\ GuardsPass(sc, d)
      /\ \A t \in DOMAIN d : ExistsAt(sc, d, Len(sc), t)
      /\ \A t \in L : RowsAt(sc, d, Len(sc), t) /\ FullAt(sc, d, Len(sc), t)
  BY <1>1, MakesThrough
<1>3. QED
  BY <1>2 DEF Completes

\* Whatever the tables hold, nothing of Cleanup can fail; it drops all tables or makes them.
LEMMA CleanupPrepares ==
  ASSUME plugin \in Plugins, NEW d, DOMAIN d = Tables(plugin)
  PROVE  /\ IsSequence(Cleanup) /\ RunsThrough(Cleanup, d)
         /\ IF plugin \in Clearing THEN Clears(Cleanup, d) ELSE Completes(Cleanup, d)
<1>1. ASSUME plugin \in Clearing, OnlyDrops(Cleanup, d), IsSequence(Cleanup)
      PROVE  IsSequence(Cleanup) /\ RunsThrough(Cleanup, d) /\ Clears(Cleanup, d)
  BY <1>1, DropsThrough DEF Clears
<1>2. ASSUME plugin \notin Clearing, Makes(Cleanup, d, Needed(plugin) \cup Guarded(plugin)), IsSequence(Cleanup)
      PROVE  IsSequence(Cleanup) /\ RunsThrough(Cleanup, d) /\ Completes(Cleanup, d)
  BY <1>2, MakesCompletes
<1>3. CASE plugin = "ecommerce"
  <2>1. Cleanup = E!Cleanup /\ Tables(plugin) = EcommerceTables /\ plugin \in Clearing
    BY <1>3, EcommerceTablesAre DEF Cleanup, Tables, Clearing, Plugins
  <2>2. QED
    BY <1>1, <2>1, EcommerceDrops
<1>4. CASE plugin = "ecommerce_basic"
  <2>1. Cleanup = B!Cleanup /\ Tables(plugin) = EcommerceBasicTables /\ plugin \in Clearing
    BY <1>4, EcommerceBasicTablesAre DEF Cleanup, Tables, Clearing, Plugins
  <2>2. QED
    BY <1>1, <2>1, EcommerceBasicDrops
<1>5. CASE plugin = "imdb"
  <2>1. Cleanup = I!Cleanup /\ Tables(plugin) = I!Tables /\ plugin \in Clearing
    BY <1>5 DEF Cleanup, Tables, Clearing, Plugins
  <2>2. QED
    BY <1>1, <2>1, ImdbDrops
<1>6. CASE plugin = "connection"
  <2>1. Cleanup = C!Cleanup /\ Tables(plugin) = C!Tables /\ plugin \in Clearing
    BY <1>6 DEF Cleanup, Tables, Clearing, Plugins
  <2>2. QED
    BY <1>1, <2>1, ConnectionDrops
<1>7. CASE plugin = "vector"
  <2>1. Cleanup = V!Cleanup /\ Tables(plugin) = V!Tables /\ plugin \in Clearing
    BY <1>7 DEF Cleanup, Tables, Clearing, Plugins
  <2>2. QED
    BY <1>1, <2>1, VectorDrops
<1>8. CASE plugin = "tpcc"
  <2>1. Cleanup = T!Cleanup /\ Tables(plugin) = T!Tables /\ plugin \notin Clearing
        /\ Needed(plugin) \cup Guarded(plugin) = {"warehouse", "district", "customer"}
    BY <1>8 DEF Cleanup, Tables, Clearing, Plugins, Needed, Guarded
  <2>2. QED
    BY <1>2, <2>1, TpccMakes
<1>9. CASE plugin = "simple"
  <2>1. Cleanup = S!Cleanup /\ Tables(plugin) = S!Tables /\ plugin \notin Clearing
        /\ Needed(plugin) \cup Guarded(plugin) = {"loadtest"}
    BY <1>9 DEF Cleanup, Tables, Clearing, Plugins, Needed, Guarded
  <2>2. QED
    BY <1>2, <2>1, SimpleMakes
<1>10. QED
  BY <1>3, <1>4, <1>5, <1>6, <1>7, <1>8, <1>9 DEF Plugins

\* On tables that are there a Setup that makes what is missing keeps them: nothing of it can fail before
\* the guard that ends it.
LEMMA TpccKeeps ==
  ASSUME NEW d, DOMAIN d = T!Tables, \A t \in DOMAIN d : d[t] # "absent", HasRows(d, "warehouse")
  PROVE  /\ IsSequence(T!SetupScript) /\ RunsThrough(T!SetupScript, d)
         /\ \A i \in 1 .. Len(T!SetupScript) : T!SetupScript[i].verb # "drop"
<1> DEFINE sc == T!SetupScript
<1>1. IsSequence(sc)
  BY DEF IsSequence, T!SetupScript, T!CreateTables, T!loadInitialData
<1>2. /\ Len(sc) = 9 /\ sc[1] = T!CreateIfNotExists("warehouse", {})
      /\ sc[2] = T!CreateIfNotExists("district", {"warehouse"})
      /\ sc[3] = T!CreateIfNotExists("customer", {}) /\ sc[4] = T!CreateIfNotExists("orders", {})
      /\ sc[5] = T!CreateIfNotExists("order_line", {}) /\ sc[6] = T!StopIfFilled("warehouse")
      /\ sc[7] = T!FillAll({"warehouse"}, {}) /\ sc[8] = T!Copy("district", {"warehouse"})
      /\ sc[9] = T!Fill({"customer"}, {})
  BY DEF T!SetupScript, T!CreateTables, T!loadInitialData, T!loadDistrictsBatch, T!loadCustomersBatch
<1> HIDE DEF sc
<1>3. \A i \in 1 .. 9 :
        /\ sc[i].verb \in {"ensure", "guard", "fill", "fillall", "copy"} /\ sc[i].after = "next"
        /\ sc[i].tables \cup sc[i].needs \subseteq T!Tables
        /\ i <= 6 => sc[i].verb \in {"ensure", "guard"}
        /\ sc[i].verb = "guard" => sc[i].needs = {}
  BY <1>2, TpccStatements DEF T!Tables
<1>4. \A i \in 1 .. 9 : Fits(sc[i], d)
  BY <1>3 DEF Fits, Schematic, Loading
<1>5. ASSUME NEW k \in 0 .. 9, NEW t \in DOMAIN d PROVE ExistsAt(sc, d, k, t)
  BY <1>2, <1>3 DEF ExistsAt, Holds, At0, DropsOf, Drops
<1>6. ASSUME NEW k \in 1 .. 6 PROVE Possible(sc, d, k)
  <2>1. k - 1 \in 0 .. 9 /\ k \in 1 .. 9
    OBVIOUS
  <2>2. QED
    BY <1>3, <1>4, <1>5, <2>1 DEF Possible, Schematic
<1>7. ASSUME NEW k \in 7 .. 9 PROVE ~Reached(sc, d, k)
  <2>1. 6 \in 1 .. k - 1 /\ sc[6].verb = "guard" /\ "warehouse" \in sc[6].tables
    BY <1>2, TpccStatements
  <2>2. \A i \in 1 .. 5 : i \notin DropsOf(sc, "warehouse")
    BY <1>3 DEF DropsOf, Drops
  <2>3. 0 \in At0(HasRows(d, "warehouse"))
    BY DEF At0
  <2>4. RowsAt(sc, d, 5, "warehouse")
    BY <2>2, <2>3 DEF RowsAt, Holds
  <2>5. 6 - 1 = 5
    OBVIOUS
  <2>6. QED
    BY <2>1, <2>4, <2>5 DEF Reached
<1>8. \A k \in 1 .. 9 : k \in 1 .. 6 \/ k \in 7 .. 9
  OBVIOUS
<1>9. RunsThrough(sc, d)
  BY <1>2, <1>4, <1>6, <1>7, <1>8 DEF RunsThrough
<1>10. \A i \in 1 .. Len(sc) : sc[i].verb # "drop"
  BY <1>2, <1>3
<1>11. QED
  BY <1>1, <1>9, <1>10 DEF sc

\* The same of the simple plugin, whose Setup creates its table only.
LEMMA SimpleKeeps ==
  ASSUME NEW d, DOMAIN d = S!Tables, \A t \in DOMAIN d : d[t] # "absent"
  PROVE  /\ IsSequence(S!SetupScript) /\ RunsThrough(S!SetupScript, d)
         /\ \A i \in 1 .. Len(S!SetupScript) : S!SetupScript[i].verb # "drop"
<1> DEFINE sc == S!SetupScript
<1>1. IsSequence(sc) /\ Len(sc) = 1 /\ sc[1] = S!CreateIfNotExists("loadtest", {})
  BY DEF IsSequence, S!SetupScript
<1> HIDE DEF sc
<1>2. sc[1].verb = "ensure" /\ sc[1].tables = {"loadtest"} /\ sc[1].needs = {} /\ sc[1].after = "next"
  BY <1>1, SimpleStatements
<1>3. \A i \in 1 .. Len(sc) : i = 1
  BY <1>1
<1>4. Possible(sc, d, 1) /\ Fits(sc[1], d)
  BY <1>2 DEF Possible, Fits, Schematic, S!Tables
<1>5. QED
  BY <1>1, <1>2, <1>3, <1>4 DEF RunsThrough, sc

\* On the tables that Cleanup leaves nothing of Setup can fail; they are made at its end.
LEMMA SetupPrepares ==
  ASSUME plugin \in Plugins, DOMAIN db = Tables(plugin),
         plugin \in Clearing => \A t \in Tables(plugin) : db[t] = "absent",
         plugin \notin Clearing => Made(db),
         NEW sc \in Setups
  PROVE  /\ IsSequence(sc) /\ RunsThrough(sc, db)
         /\ IF plugin \in Clearing THEN Completes(sc, db) ELSE Keeps(sc, db)
<1>1. ASSUME plugin \in Clearing, Makes(sc, db, Needed(plugin) \cup Guarded(plugin)), IsSequence(sc)
      PROVE  IsSequence(sc) /\ RunsThrough(sc, db) /\ Completes(sc, db)
  BY <1>1, MakesCompletes
<1>2. CASE plugin = "ecommerce"
  <2>1. Setups = E!Setup(db) /\ Tables(plugin) = EcommerceTables /\ plugin \in Clearing
        /\ Needed(plugin) \cup Guarded(plugin) = {"users", "vendors", "products"}
    BY <1>2, EcommerceTablesAre DEF Setups, Tables, Clearing, Plugins, Needed, Guarded
  <2>2. ~E!SchemaExists(db)
    BY <2>1, EcommerceTablesAre DEF E!SchemaExists, EcommerceTables
  <2>3. sc = E!CreateSchema \o <<E!StopIfFilled("users")>> \o E!LoadSampleData
    BY <2>1, <2>2 DEF E!Setup
  <2>4. QED
    BY <1>1, <2>1, <2>3, EcommerceMakes
<1>3. CASE plugin = "ecommerce_basic"
  <2>1. Setups = B!Setup(db) /\ Tables(plugin) = EcommerceBasicTables /\ plugin \in Clearing
        /\ Needed(plugin) \cup Guarded(plugin) = {"users", "products"}
    BY <1>3, EcommerceBasicTablesAre DEF Setups, Tables, Clearing, Plugins, Needed, Guarded
  <2>2. ~B!SchemaExists(db)
    BY <2>1, EcommerceBasicTablesAre DEF B!SchemaExists, EcommerceBasicTables
  <2>3. sc = B!CreateSchema \o <<B!StopIfFilled("users")>> \o B!LoadSampleData
    BY <2>1, <2>2 DEF B!Setup
  <2>4. QED
    BY <1>1, <2>1, <2>3, EcommerceBasicMakes
<1>4. CASE plugin = "imdb"
  <2>1. Setups = I!Setup(db) /\ Tables(plugin) = I!Tables /\ plugin \in Clearing
        /\ Needed(plugin) \cup Guarded(plugin) = {"meta"}
    BY <1>4 DEF Setups, Tables, Clearing, Plugins, Needed, Guarded
  <2>2. ~I!SchemaExists(db)
    BY <2>1 DEF I!SchemaExists, I!Tables
  <2>3. \/ sc = I!CreateTables \o <<I!StopIfFilled("meta")>> \o I!loadSampleData
        \/ sc = I!CreateTables \o <<I!StopIfFilled("meta")>> \o I!loadFromDump
        \/ sc = I!CreateTables \o <<I!StopIfFilled("meta")>> \o I!loadFromSQL
    BY <2>1, <2>2 DEF I!Setup
  <2>4. Makes(sc, db, {"meta"}) /\ IsSequence(sc)
    BY <2>1, <2>3, ImdbLoadSampleData, ImdbLoadFromDump, ImdbLoadFromSQL
  <2>5. QED
    BY <1>1, <2>1, <2>4
<1>5. CASE plugin = "connection"
  <2>1. Setups = C!Setup(db) /\ Tables(plugin) = C!Tables /\ plugin \in Clearing
        /\ Needed(plugin) \cup Guarded(plugin) = {}
    BY <1>5 DEF Setups, Tables, Clearing, Plugins, Needed, Guarded
  <2>2. sc = <<C!CreateIfNotExists("connection_test", {}), C!StopIfFilled("connection_test"),
               C!FillAll({"connection_test"}, {})>>
    BY <2>1 DEF C!Setup
  <2>3. QED
    BY <1>1, <2>1, <2>2, ConnectionMakes
<1>6. CASE plugin = "vector"
  <2>1. Setups = V!Setup(db) /\ Tables(plugin) = V!Tables /\ plugin \in Clearing
        /\ Needed(plugin) \cup Guarded(plugin) = {}
    BY <1>6 DEF Setups, Tables, Clearing, Plugins, Needed, Guarded
  <2>2. sc = V!ensurePgVectorExtension \o V!createTestTables \o <<V!loadBaselineData>>
    BY <2>1 DEF V!Setup
  <2>3. QED
    BY <1>1, <2>1, <2>2, VectorMakes
<1>7. CASE plugin = "tpcc"
  <2>1. sc = T!SetupScript /\ Tables(plugin) = T!Tables /\ plugin \notin Clearing
    BY <1>7 DEF Setups, Tables, Clearing, Plugins, T!Setup
  <2>2. (\A t \in DOMAIN db : db[t] # "absent") /\ HasRows(db, "warehouse") /\ Made(db)
    BY <1>7, <2>1 DEF Made, Guarded
  <2>3. QED
    BY <2>1, <2>2, TpccKeeps DEF Keeps
<1>8. CASE plugin = "simple"
  <2>1. sc = S!SetupScript /\ Tables(plugin) = S!Tables /\ plugin \notin Clearing
    BY <1>8 DEF Setups, Tables, Clearing, Plugins, S!Setup
  <2>2. (\A t \in DOMAIN db : db[t] # "absent") /\ Made(db)
    BY <2>1 DEF Made
  <2>3. QED
    BY <2>1, <2>2, SimpleKeeps DEF Keeps
<1>9. QED
  BY <1>2, <1>3, <1>4, <1>5, <1>6, <1>7, <1>8 DEF Plugins

-----------------------------------------------------------------------------
(* The operations write where Setup has made tables, and draw their ids    *)
(* from tables that it has filled.                                         *)

\* A statement of an operation on the tables W, of which those in N are full.
Suits(s, W, N) ==
  /\ s.verb \in {"read", "begin", "commit", "malformed"} \cup Writing
  /\ s.tables \subseteq W /\ s.needs \subseteq N
  /\ s.verb = "delete" => s.tables \cap N = {}
  /\ s.verb = "insertnext" => s.needs = {} /\ \A t, u \in s.tables : t = u
Suited(script, W, N) == \A i \in 1 .. Len(script) : Suits(script[i], W, N)

\* An operation of one statement.
LEMMA OneSuited ==
  ASSUME NEW s, NEW W, NEW N, Suits(s, W, N)
  PROVE  Suited(<<s>>, W, N)
<1>1. Len(<<s>>) = 1 /\ <<s>>[1] = s
  OBVIOUS
<1>2. \A i \in 1 .. 1 : i = 1
  OBVIOUS
<1>3. QED
  BY <1>1, <1>2 DEF Suited

\* An operation of statements that are each suited.
LEMMA SeqSuited ==
  ASSUME NEW Z, NEW W, NEW N, \A s \in Z : Suits(s, W, N), NEW script \in Seq(Z)
  PROVE  Suited(script, W, N)
BY ElementOfSeq DEF Suited

\* The same in a transaction.
LEMMA TransactionSuited ==
  ASSUME NEW Z, NEW W, NEW N, \A s \in Z : Suits(s, W, N), NEW body \in Seq(Z), NEW begin, NEW commit,
         begin.verb = "begin", commit.verb = "commit", begin.tables = {}, commit.tables = {},
         begin.needs = {}, commit.needs = {}
  PROVE  Suited(<<begin>> \o body \o <<commit>>, W, N)
<1> DEFINE A == Z \cup {begin, commit}
<1>1. \A s \in A : Suits(s, W, N)
  BY DEF Suits
<1>2. <<begin>> \in Seq(A) /\ body \in Seq(A) /\ <<commit>> \in Seq(A)
  OBVIOUS
<1> HIDE DEF A
<1>3. <<begin>> \o body \o <<commit>> \in Seq(A)
  BY <1>2, ConcatProperties
<1>4. QED
  BY <1>1, <1>3, SeqSuited

\* The reading operations of the ecommerce plugin, whatever its tables hold.
LEMMA EcommerceReadsSuited ==
  ASSUME NEW N, NEW script \in E!executeReadOperation \cup E!executeOLTPReadOperation \cup E!executeAnalyticsOperation
  PROVE  Suited(script, EcommerceTables, N)
<1>1. \A Y : E!Read(Y).verb = "read" /\ E!Read(Y).tables = Y /\ E!Read(Y).needs = {}
  BY DEF E!Read, E!Plain
<1>2. \A Y \in SUBSET EcommerceTables : Suited(<<E!Read(Y)>>, EcommerceTables, N)
  BY <1>1, OneSuited DEF Suits
<1>3. ASSUME NEW u \in E!searchReviewsByVector PROVE Suited(u, EcommerceTables, N)
  <2> DEFINE a == E!Try(E!Read({"reviews"}))
             b == E!Read({"reviews"})
  <2>1. a.verb = "read" /\ a.tables = {"reviews"} /\ a.needs = {}
    BY DEF E!Try, E!Read, E!Plain
  <2>2. Suits(a, EcommerceTables, N) /\ Suits(b, EcommerceTables, N)
    BY <1>1, <2>1 DEF Suits, EcommerceTables
  <2>3. u = <<a, b>>
    BY DEF E!searchReviewsByVector
  <2> HIDE DEF a, b
  <2>4. u \in Seq({a, b})
    BY <2>3
  <2>5. QED
    BY <2>2, <2>4, SeqSuited
<1>4. \A u \in UNION {E!getUserByEmail, E!getProductBySKU, E!getProductsByCategory, E!getUserOrders,
           E!getProductReviews, E!getVendorProducts, E!getPurchaseOrdersByVendor,
           E!getOrderDetailsWithItems, E!getUserActivitySummary, E!getProductAnalytics,
           E!getInventoryStatus, E!getVendorPerformance, E!searchProductsByName, E!findSimilarUsers,
           E!getRecentActivity, E!getTopProductsByCategory,
           E!getUserSpendingTrends, E!getInventoryAnalysis, E!getStockControlReport,
           E!getInventoryByProduct, E!getOrderDetails, E!getSalesAnalytics, E!getCustomerSegmentation} :
           \E Y \in SUBSET EcommerceTables : u = <<E!Read(Y)>>
  BY DEF E!One, E!getUserByEmail, E!getProductBySKU, E!getProductsByCategory, E!getUserOrders,
           E!getProductReviews, E!getVendorProducts, E!getPurchaseOrdersByVendor,
           E!getOrderDetailsWithItems, E!getUserActivitySummary, E!getProductAnalytics,
           E!getInventoryStatus, E!getVendorPerformance, E!searchProductsByName, E!findSimilarUsers,
           E!getRecentActivity, E!getTopProductsByCategory,
           E!getUserSpendingTrends, E!getInventoryAnalysis, E!getStockControlReport,
           E!getInventoryByProduct, E!getOrderDetails, E!getSalesAnalytics, E!getCustomerSegmentation, EcommerceTables
<1>5. QED
  BY <1>2, <1>3, <1>4 DEF E!executeReadOperation, E!executeOLTPReadOperation, E!executeAnalyticsOperation

\* Its writing operations.
LEMMA EcommerceWritesSuited ==
  ASSUME NEW script \in E!executeWriteOperation \cup E!executeOLTPWriteOperation
  PROVE  Suited(script, EcommerceTables, {"users", "vendors", "products"})
<1> DEFINE W == EcommerceTables
           N == {"users", "vendors", "products"}
<1>1. /\ \A t, R : LET s == E!Insert(t, R) IN s.verb = "insert" /\ s.tables = {t} /\ s.needs = R
      /\ \A t : LET s == E!Update(t) IN s.verb = "update" /\ s.tables = {t} /\ s.needs = {}
      /\ \A t, r : LET s == E!UpdateRow(t, r) IN s.verb = "update" /\ s.tables = {t} /\ s.needs = {}
      /\ \A X : LET s == E!FindOrStop(X) IN s.verb = "read" /\ s.tables = X /\ s.needs = {}
      /\ \A X, R : LET s == E!MustFind(X, R) IN s.verb = "read" /\ s.tables = X /\ s.needs = R
      /\ E!Begin.verb = "begin" /\ E!Begin.tables = {} /\ E!Begin.needs = {}
      /\ E!Commit.verb = "commit" /\ E!Commit.tables = {} /\ E!Commit.needs = {}
  BY DEF E!Insert, E!Update, E!UpdateRow, E!Locking, E!FindOrStop, E!MustFind, E!Begin, E!Commit, E!Plain
<1>2. /\ \A t, X : LET s == E!Firing(E!Update(t), X) IN s.verb = "update" /\ s.tables = {t} \cup X /\ s.needs = {}
      /\ \A t, r, X : LET s == E!Firing(E!UpdateRow(t, r), X) IN
                      s.verb = "update" /\ s.tables = {t} \cup X /\ s.needs = {}
      /\ \A t, X, Y : LET s == E!Firing(E!Firing(E!Update(t), X), Y) IN
                      s.verb = "update" /\ s.tables = {t} \cup X \cup Y /\ s.needs = {}
  BY DEF E!Firing, E!Update, E!UpdateRow, E!Locking, E!Plain
<1>3. ASSUME NEW Z, \A s \in Z : Suits(s, W, N), NEW body \in Seq(Z) PROVE Suited(E!InTransaction(body), W, N)
  BY <1>1, <1>3, TransactionSuited DEF E!InTransaction
<1>4. \A u \in UNION {E!insertProductReview, E!insertProductAnalytics, E!updateUserProfile, E!updateVendorRating,
                      E!updateInventory, E!updateOrderStatus} : \E s : u = <<s>> /\ Suits(s, W, N)
  BY <1>1, <1>2 DEF E!insertProductReview, E!insertProductAnalytics, E!updateUserProfile, E!updateVendorRating,
                      E!updateInventory, E!updateOrderStatus, E!One, E!checkStockAndReorder, Suits, EcommerceTables, Writing
<1>5. \A u \in UNION {E!processOrderShipment, E!receivePurchaseOrder, E!updateProductPricing} :
         \E s, t : u \in {<<s>>, <<s, t>>} /\ Suits(s, W, N) /\ Suits(t, W, N)
  <2>1. \A u \in E!processOrderShipment : \E s, t : u \in {<<s>>, <<s, t>>} /\ Suits(s, W, N) /\ Suits(t, W, N)
    BY <1>1 DEF E!processOrderShipment, Suits, EcommerceTables, Writing
  <2>2. \A u \in E!receivePurchaseOrder : \E s, t : u \in {<<s>>, <<s, t>>} /\ Suits(s, W, N) /\ Suits(t, W, N)
    BY <1>1, <1>2 DEF E!receivePurchaseOrder, E!handlePurchaseReceipt, E!checkStockAndReorder, Suits, EcommerceTables, Writing
  <2>3. \A u \in E!updateProductPricing : \E s, t : u \in {<<s>>, <<s, t>>} /\ Suits(s, W, N) /\ Suits(t, W, N)
    BY <1>1 DEF E!updateProductPricing, Suits, EcommerceTables, Writing
  <2>4. QED
    BY <2>1, <2>2, <2>3
<1>6. \A u \in E!createPurchaseOrder : Suited(u, W, N)
  <2> DEFINE s == E!Insert("purchase_orders", {"vendors"})
             t == E!Insert("purchase_order_items", {"products"})
             Z == {s, t}
  <2>1. \A x \in Z : Suits(x, W, N)
    BY <1>1 DEF Suits, EcommerceTables, Writing
  <2>2. E!createPurchaseOrder = {E!InTransaction(<<s>> \o <<t>>), E!InTransaction(<<s>> \o <<t>> \o <<t>>)}
    BY DEF E!createPurchaseOrder
  <2> HIDE DEF s, t, W, N
  <2>3. <<s>> \o <<t>> \in Seq(Z) /\ <<s>> \o <<t>> \o <<t>> \in Seq(Z)
    OBVIOUS
  <2>4. QED
    BY <1>3, <2>1, <2>2, <2>3
<1>7. \A u \in E!createNewOrder : Suited(u, W, N)
  <2> DEFINE s == E!Insert("orders", {"users"})
             t == E!Insert("order_items", {"products"})
             u(r) == E!checkStockAndReorder(E!UpdateRow("inventory", <<"inventory", r>>))
             Z == {s, t} \cup {u(r) : r \in LockRows}
             F(r, q) == E!InTransaction(<<s>> \o <<t, u(r)>> \o <<t, u(q)>>)
  <2>1. \A x \in Z : Suits(x, W, N)
    <3>1. Suits(s, W, N) /\ Suits(t, W, N)
      BY <1>1 DEF Suits, EcommerceTables, Writing
    <3>2. \A r : Suits(u(r), W, N)
      BY <1>2 DEF E!checkStockAndReorder, Suits, EcommerceTables, Writing
    <3> HIDE DEF s, t, u
    <3>3. QED
      BY <3>1, <3>2
  <2>2. E!createNewOrder = {F(r, q) : r, q \in LockRows}
    BY DEF E!createNewOrder
  <2> HIDE DEF s, t, u, W, N
  <2>3. \A r, q \in LockRows : <<s>> \o <<t, u(r)>> \o <<t, u(q)>> \in Seq(Z)
    OBVIOUS
  <2>4. \A r, q \in LockRows : Suited(F(r, q), W, N)
    BY <1>3, <2>1, <2>3
  <2> HIDE DEF F
  <2>5. QED
    BY <2>2, <2>4
<1> HIDE DEF W, N
<1>8. \A u : (\E s, t : u \in {<<s>>, <<s, t>>} /\ Suits(s, W, N) /\ Suits(t, W, N)) => Suited(u, W, N)
  <2>1. SUFFICES ASSUME NEW s, NEW t, Suits(s, W, N), Suits(t, W, N) PROVE Suited(<<s>>, W, N) /\ Suited(<<s, t>>, W, N)
    OBVIOUS
  <2>2. <<s>> \in Seq({s, t}) /\ <<s, t>> \in Seq({s, t})
    OBVIOUS
  <2>3. QED
    BY <2>1, <2>2, SeqSuited
<1>9. Suited(script, W, N)
  BY <1>4, <1>5, <1>6, <1>7, <1>8 DEF E!executeWriteOperation, E!executeOLTPWriteOperation
<1>10. QED
  BY <1>9 DEF W, N

\* The operations of the basic e-commerce plugin.
LEMMA EcommerceBasicSuited ==
  ASSUME NEW mode \in B!Modes, NEW script \in B!Operations(mode)
  PROVE  Suited(script, EcommerceBasicTables, {"users", "products"})
<1> DEFINE W == EcommerceBasicTables
           N == {"users", "products"}
<1>1. /\ \A t, R : LET s == B!Insert(t, R) IN s.verb = "insert" /\ s.tables = {t} /\ s.needs = R
      /\ \A t : LET s == B!Update(t) IN s.verb = "update" /\ s.tables = {t} /\ s.needs = {}
      /\ \A X : LET s == B!Read(X) IN s.verb = "read" /\ s.tables = X /\ s.needs = {}
      /\ B!Begin.verb = "begin" /\ B!Begin.tables = {} /\ B!Begin.needs = {}
      /\ B!Commit.verb = "commit" /\ B!Commit.tables = {} /\ B!Commit.needs = {}
  BY DEF B!Insert, B!Update, B!Read, B!Begin, B!Commit, B!Plain
<1>2. \A u \in UNION {B!getUserByEmail, B!getProductBySKU, B!getProductsByCategory, B!getOrderDetailsWithItems,
                B!getUserActivitySummary, B!getUserOrders, B!getProductReviews, B!getProductAnalytics,
                B!getRecentActivity, B!getInventoryAnalysis, B!searchProductsByName, B!findSimilarUsers,
                B!getTopProductsByCategory, B!getUserSpendingTrends} : \E Y \in SUBSET W : u = <<B!Read(Y)>>
  BY DEF B!One, B!getUserByEmail, B!getProductBySKU, B!getProductsByCategory, B!getOrderDetailsWithItems,
                B!getUserActivitySummary, B!getUserOrders, B!getProductReviews, B!getProductAnalytics,
                B!getRecentActivity, B!getInventoryAnalysis, B!searchProductsByName, B!findSimilarUsers,
                B!getTopProductsByCategory, B!getUserSpendingTrends, EcommerceBasicTables
<1>3. \A u \in UNION {B!createUser, B!createProduct, B!createReview, B!logProductView,
                      B!updateUserInfo, B!updateProductRating, B!updateInventory} : \E s : u = <<s>> /\ Suits(s, W, N)
  BY <1>1 DEF B!createUser, B!createProduct, B!createReview, B!logProductView, B!updateUserInfo,
              B!updateProductRating, B!updateInventory, B!One, Suits, EcommerceBasicTables, Writing
<1>4. \A u \in B!createOrder : Suited(u, W, N)
  <2> DEFINE s == B!Insert("orders", {"users"})
             t == B!Insert("order_items", {"products"})
             v == B!Update("orders")
             Z == {s, t, v}
  <2>1. \A x \in Z : Suits(x, W, N)
    BY <1>1 DEF Suits, EcommerceBasicTables, Writing
  <2>2. B!createOrder = {B!InTransaction(<<s>> \o <<t>> \o <<v>>),
                         B!InTransaction(<<s>> \o (<<t>> \o <<t>>) \o <<v>>)}
    BY DEF B!createOrder
  <2> HIDE DEF s, t, v, W, N
  <2>3. <<s>> \o <<t>> \o <<v>> \in Seq(Z) /\ <<s>> \o (<<t>> \o <<t>>) \o <<v>> \in Seq(Z)
    OBVIOUS
  <2>4. \A body \in Seq(Z) : Suited(B!InTransaction(body), W, N)
    <3>1. ASSUME NEW body \in Seq(Z) PROVE Suited(<<B!Begin>> \o body \o <<B!Commit>>, W, N)
      BY <1>1, <2>1, TransactionSuited
    <3>2. QED
      BY <3>1 DEF B!InTransaction
  <2>5. QED
    BY <2>2, <2>3, <2>4
<1>5. \A Y \in SUBSET W : Suits(B!Read(Y), W, N)
  BY <1>1 DEF Suits
<1> HIDE DEF W, N
<1>6. Suited(script, W, N)
  BY <1>2, <1>3, <1>4, <1>5, OneSuited
     DEF B!executeReadOperation, B!executeOLTPReadOperation, B!executeAnalyticsOperation,
         B!executeWriteOperation, B!executeOLTPWriteOperation, B!Modes, B!Operations
<1>7. QED
  BY <1>6 DEF W, N

\* The operations of the IMDB plugin.
LEMMA ImdbSuited ==
  ASSUME NEW mode \in I!Modes, NEW script \in I!Operations(mode)
  PROVE  Suited(script, I!Tables, {"meta"})
<1> DEFINE W == I!Tables
           N == {"meta"}
<1>1. /\ \A t, R : LET s == I!Insert(t, R) IN s.verb = "insert" /\ s.tables = {t} /\ s.needs = R
      /\ \A t : LET s == I!Update(t) IN s.verb = "update" /\ s.tables = {t} /\ s.needs = {}
      /\ \A X : LET s == I!Read(X) IN s.verb = "read" /\ s.tables = X /\ s.needs = {}
      /\ \A X : LET s == I!Ignored(I!Read(X)) IN s.verb = "read" /\ s.tables = X /\ s.needs = {}
      /\ \A X, R : LET s == I!MustFind(X, R) IN s.verb = "read" /\ s.tables = X /\ s.needs = R
  BY DEF I!Insert, I!Update, I!Read, I!Ignored, I!MustFind, I!Plain
<1>2. \A u \in UNION {I!testIndexedTitleSearch, I!testIndexedRatingSearch, I!testCompositeIndexSearch,
                I!testGINIndexSearch, I!testFullTableScan, I!testSimpleJoin, I!getActorMovies,
                I!getMovieComments, I!testWindowFunctionRanking, I!testCTERecursiveAnalysis,
                I!testComplexCTEAnalysis, I!testAdvancedWindowFunctions, I!testActorCareerAnalysisCTE} :
         \E Y \in SUBSET W : u = <<I!Read(Y)>>
  BY DEF I!One, I!testIndexedTitleSearch, I!testIndexedRatingSearch, I!testCompositeIndexSearch,
                I!testGINIndexSearch, I!testFullTableScan, I!testSimpleJoin, I!getActorMovies,
                I!getMovieComments, I!testWindowFunctionRanking, I!testCTERecursiveAnalysis,
                I!testComplexCTEAnalysis, I!testAdvancedWindowFunctions, I!testActorCareerAnalysisCTE, I!Tables
<1>3. \A u \in UNION {I!testUniqueIndexSearch, I!insertNewComment, I!insertNewMovie, I!insertNewActor, I!addMovieActor,
                      I!logMovieView, I!updateMovieRating, I!updateCommentHelpfulness} : \E s : u = <<s>> /\ Suits(s, W, N)
  BY <1>1 DEF I!testUniqueIndexSearch, I!insertNewComment, I!insertNewMovie, I!insertNewActor, I!addMovieActor,
              I!logMovieView, I!updateMovieRating, I!updateCommentHelpfulness, I!One, Suits, I!Tables, Writing
<1>4. \A u \in I!getMovieDetails : \E s, t : u \in Seq({s, t}) /\ Suits(s, W, N) /\ Suits(t, W, N)
  <2> DEFINE s == I!MustFind({"meta"}, {"meta"})
             t == I!Read({"cast", "actors"})
  <2>1. Suits(s, W, N) /\ Suits(t, W, N)
    BY <1>1 DEF Suits, I!Tables
  <2>2. I!getMovieDetails = {<<s, t>>}
    BY DEF I!getMovieDetails
  <2> HIDE DEF s, t, W, N
  <2>3. <<s, t>> \in Seq({s, t})
    OBVIOUS
  <2>4. QED
    BY <2>1, <2>2, <2>3
<1>5. \A Y \in SUBSET W : Suits(I!Read(Y), W, N)
  BY <1>1 DEF Suits
<1> HIDE DEF W, N
<1>6. \A u \in I!getMovieDetails : Suited(u, W, N)
  BY <1>4, SeqSuited
<1>7. Suited(script, W, N)
  BY <1>2, <1>3, <1>5, <1>6, OneSuited DEF I!executeReadOperation, I!executeWriteOperation, I!Modes, I!Operations
<1>8. QED
  BY <1>7 DEF W, N

\* The operations of the simple plugin.
LEMMA SimpleSuited ==
  ASSUME NEW mode \in S!Modes, NEW script \in S!Operations(mode)
  PROVE  Suited(script, S!Tables, {"loadtest"})
<1> DEFINE s == S!MustFind({"loadtest"}, {"loadtest"})
           t == S!Update("loadtest")
<1>1. /\ s.verb = "read" /\ s.tables = {"loadtest"} /\ s.needs = {"loadtest"}
      /\ t.verb = "update" /\ t.tables = {"loadtest"} /\ t.needs = {}
  BY DEF S!MustFind, S!Update, S!Plain
<1>2. S!doRead = {<<s>>} /\ S!doWrite = {<<t>>}
  BY DEF S!doRead, S!doWrite, S!One
<1> HIDE DEF s, t
<1>3. Suits(s, S!Tables, {"loadtest"}) /\ Suits(t, S!Tables, {"loadtest"})
  BY <1>1 DEF Suits, S!Tables, Writing
<1>4. QED
  BY <1>2, <1>3, OneSuited DEF S!Modes, S!Operations

\* The operations of the connection plugin.
LEMMA ConnectionSuited ==
  ASSUME NEW mode, NEW script \in C!Operations(mode)
  PROVE  Suited(script, C!Tables, {})
<1> DEFINE begin == [C!Begin EXCEPT !.via = "own"]
<1>1. \A s \in C!generateOperations : Suits(s, C!Tables, {})
  <2>1. \A s \in C!generateOperations :
            s \in {C!Malformed, C!Read({"connection_test"}), C!Insert("connection_test", {}),
                   C!Update("connection_test"), C!Delete("connection_test")}
    BY DEF C!generateOperations, C!generateArgsForQuery
  <2>2. \A s \in {C!Malformed, C!Read({"connection_test"}), C!Insert("connection_test", {}),
                  C!Update("connection_test"), C!Delete("connection_test")} : Suits(s, C!Tables, {})
    BY DEF C!Malformed, C!Read, C!Insert, C!Update, C!Delete, C!Plain, Suits, C!Tables, Writing
  <2>3. QED
    BY <2>1, <2>2
<1>2. /\ C!Begin.verb = "begin" /\ C!Begin.tables = {} /\ C!Begin.needs = {}
      /\ begin.verb = "begin" /\ begin.tables = {} /\ begin.needs = {}
      /\ C!Commit.verb = "commit" /\ C!Commit.tables = {} /\ C!Commit.needs = {}
  BY DEF C!Begin, C!Commit, C!Plain
<1>3. \A s : C!OnOwnConnection(<<s>>) = <<begin>> \o <<s>> \o <<C!Commit>>
  BY DEF C!OnOwnConnection
<1> HIDE DEF begin
<1>4. ASSUME NEW s \in C!generateOperations
      PROVE  Suited(C!InTransaction(<<s>>), C!Tables, {}) /\ Suited(C!OnOwnConnection(<<s>>), C!Tables, {})
  <2>1. <<s>> \in Seq({s}) /\ \A u \in {s} : Suits(u, C!Tables, {})
    BY <1>1
  <2>2. Suited(<<C!Begin>> \o <<s>> \o <<C!Commit>>, C!Tables, {})
    BY <1>2, <2>1, TransactionSuited
  <2>3. Suited(<<begin>> \o <<s>> \o <<C!Commit>>, C!Tables, {})
    BY <1>2, <2>1, TransactionSuited
  <2>4. QED
    BY <1>3, <2>2, <2>3 DEF C!InTransaction
<1>5. QED
  BY <1>4 DEF C!Operations, C!executePersistentOperation, C!executeTransientOperation

\* The operations of the pgvector plugin.
LEMMA VectorSuited ==
  ASSUME NEW mode \in V!Modes, NEW script \in V!Operations(mode)
  PROVE  Suited(script, V!Tables, {})
<1> DEFINE s == V!InsertNext("pgvector_test")
           t == V!Update("pgvector_test")
           r == V!Read({"pgvector_test"})
<1>1. /\ s.verb = "insertnext" /\ s.tables = {"pgvector_test"} /\ s.needs = {}
      /\ t.verb = "update" /\ t.tables = {"pgvector_test"} /\ t.needs = {}
      /\ r.verb = "read" /\ r.tables = {"pgvector_test"} /\ r.needs = {}
  BY DEF V!InsertNext, V!Insert, V!Update, V!Read, V!Plain
<1>2. /\ V!runSingleInsertTest = {<<s>>} /\ V!runBatchInsertTest = {<<s>>} /\ V!runCopyInsertTest = {<<s>>}
      /\ V!runUpdateTest = {<<t>>} /\ V!runReadTest = {<<r>>}
  BY DEF V!runSingleInsertTest, V!runBatchInsertTest, V!runCopyInsertTest, V!runUpdateTest, V!runReadTest, V!One
<1> HIDE DEF s, t, r
<1>3. Suits(s, V!Tables, {}) /\ Suits(t, V!Tables, {}) /\ Suits(r, V!Tables, {})
  BY <1>1 DEF Suits, V!Tables, Writing
<1>4. QED
  BY <1>2, <1>3, OneSuited DEF V!Modes, V!Operations, V!runIngestionTest

\* The transactions of TPC-C.
LEMMA TpccSuited ==
  ASSUME NEW mode, NEW script \in T!Operations(mode)
  PROVE  Suited(script, T!Tables, {"warehouse", "district", "customer"})
<1> DEFINE W == T!Tables
           N == {"warehouse", "district", "customer"}
           begin == T!Begin
           commit == T!Commit
           update(t, r) == T!UpdateRow(t, r)
           insert(t) == T!Insert(t, {})
           find == T!MustFind({"customer"}, {"customer"})
           next(d) == T!NextOrderID(d)
           orders == T!Read({"orders"})
           ignored == T!Ignored(orders)
           lines == T!Read({"order_line"})
           customers == T!Read({"customer"})
           Z == {begin, commit, find, orders, ignored, lines, customers, insert("orders"), insert("order_line")}
                  \cup {update(t, r) : t \in {"warehouse", "district", "customer"}, r \in {T!WarehouseRow}}
                  \cup {update("district", T!DistrictRow(d)) : d \in LockRows}
                  \cup {update("customer", T!CustomerRow(d)) : d \in LockRows}
                  \cup {next(d) : d \in LockRows}
<1>1. /\ \A t \in W : \A r : Suits(update(t, r), W, N) /\ Suits(insert(t), W, N)
      /\ \A d : Suits(next(d), W, N)
      /\ \A s \in {begin, commit, find, orders, ignored, lines, customers} : Suits(s, W, N)
  BY DEF T!Begin, T!Commit, T!UpdateRow, T!Update, T!Insert, T!MustFind, T!NextOrderID, T!Locking, T!Read,
         T!Ignored, T!Plain, Suits, T!Tables, Writing
<1>2. {"warehouse", "district", "customer", "orders", "order_line"} \subseteq W
  BY DEF T!Tables
<1>3. T!orderStatusTx = {<<begin>> \o <<find, orders, lines>> \o <<commit>>, <<begin>> \o <<find, ignored>> \o <<commit>>,
                         <<customers>> \o (<<begin>> \o <<find, orders, lines>> \o <<commit>>),
                         <<customers>> \o (<<begin>> \o <<find, ignored>> \o <<commit>>)}
  BY DEF T!orderStatusTx, T!InTransaction
<1>4. \A u \in T!paymentTx : \E d \in LockRows :
         u = <<begin>> \o <<update("warehouse", T!WarehouseRow), update("district", T!DistrictRow(d)),
                            update("customer", T!CustomerRow(d))>> \o <<commit>>
  BY DEF T!paymentTx, T!InTransaction
<1>5. \A u \in T!newOrderTx : \E d \in LockRows :
         u = <<begin>> \o <<next(d), insert("orders"), update("district", T!DistrictRow(d)),
                            insert("order_line"), insert("order_line")>> \o <<commit>>
  BY DEF T!newOrderTx, T!InTransaction
<1> HIDE DEF W, N, begin, commit, update, insert, find, next, orders, ignored, lines, customers
<1>6. \A s \in Z : Suits(s, W, N)
  BY <1>1, <1>2
<1>7. \A u \in T!paymentTx : u \in Seq(Z)
  <2> DEFINE F(d) == <<begin>> \o <<update("warehouse", T!WarehouseRow), update("district", T!DistrictRow(d)),
                                     update("customer", T!CustomerRow(d))>> \o <<commit>>
  <2>1. \A d \in LockRows : F(d) \in Seq(Z)
    OBVIOUS
  <2>2. \A u \in T!paymentTx : \E d \in LockRows : u = F(d)
    BY <1>4
  <2> HIDE DEF F, Z
  <2>3. QED
    BY <2>1, <2>2
<1>8. \A u \in T!newOrderTx : u \in Seq(Z)
  <2> DEFINE F(d) == <<begin>> \o <<next(d), insert("orders"), update("district", T!DistrictRow(d)),
                                     insert("order_line"), insert("order_line")>> \o <<commit>>
  <2>1. \A d \in LockRows : F(d) \in Seq(Z)
    OBVIOUS
  <2>2. \A u \in T!newOrderTx : \E d \in LockRows : u = F(d)
    BY <1>5
  <2> HIDE DEF F, Z
  <2>3. QED
    BY <2>1, <2>2
<1>9. \A u \in T!orderStatusTx : u \in Seq(Z)
  <2>1. /\ <<begin>> \o <<find, orders, lines>> \o <<commit>> \in Seq(Z) /\ <<begin>> \o <<find, ignored>> \o <<commit>> \in Seq(Z)
        /\ <<customers>> \in Seq(Z)
    OBVIOUS
  <2> HIDE DEF Z
  <2>2. QED
    BY <1>3, <2>1, ConcatProperties
<1>10. script \in Seq(Z)
  BY <1>7, <1>8, <1>9 DEF T!Operations, T!rollTransaction
<1> HIDE DEF Z
<1>11. Suited(script, W, N)
  BY <1>6, <1>10, SeqSuited
<1>12. QED
  BY <1>11 DEF W, N

\* The operations of every plugin.
LEMMA OperationsSuited ==
  ASSUME plugin \in Plugins, program.mode \in Modes(plugin), NEW script \in Operations
  PROVE  Suited(script, Tables(plugin), Needed(plugin))
<1>1. CASE plugin = "ecommerce"
  <2>1. /\ script \in E!Operations(program.mode) /\ program.mode \in E!Modes
        /\ Tables(plugin) = EcommerceTables /\ Needed(plugin) = {"users", "vendors", "products"}
    BY <1>1, EcommerceTablesAre DEF Operations, Modes, Tables, Needed
  <2>2. QED
    BY <2>1, EcommerceReadsSuited, EcommerceWritesSuited DEF E!Operations, E!Modes
<1>2. CASE plugin = "ecommerce_basic"
  BY <1>2, EcommerceBasicTablesAre, EcommerceBasicSuited DEF Operations, Modes, Tables, Needed
<1>3. CASE plugin = "imdb"
  BY <1>3, ImdbSuited DEF Operations, Modes, Tables, Needed
<1>4. CASE plugin = "tpcc"
  BY <1>4, TpccSuited DEF Operations, Modes, Tables, Needed
<1>5. CASE plugin = "simple"
  BY <1>5, SimpleSuited DEF Operations, Modes, Tables, Needed
<1>6. CASE plugin = "connection"
  BY <1>6, ConnectionSuited DEF Operations, Modes, Tables, Needed
<1>7. CASE plugin = "vector"
  BY <1>7, VectorSuited DEF Operations, Modes, Tables, Needed
<1>8. QED
  BY <1>1, <1>2, <1>3, <1>4, <1>5, <1>6, <1>7 DEF Plugins

-----------------------------------------------------------------------------
(* The program executes the script of Cleanup or Setup.                    *)

\* What is left of a sequence after n elements.
LEMMA AfterSome ==
  ASSUME NEW Z, NEW sc \in Seq(Z), NEW n \in 1 .. Len(sc)
  PROVE  /\ SubSeq(sc, n + 1, Len(sc)) \in Seq(Z)
         /\ Len(SubSeq(sc, n + 1, Len(sc))) = Len(sc) - n
         /\ \A i \in 1 .. Len(sc) - n : SubSeq(sc, n + 1, Len(sc))[i] = sc[i + n]
<1>1. Len(sc) \in Nat /\ n + 1 \in Int /\ n \in Nat /\ n <= Len(sc)
  OBVIOUS
<1>2. \A i \in n + 1 .. Len(sc) : sc[i] \in Z
  BY <1>1, ElementOfSeq
<1> DEFINE p == n + 1
           r == SubSeq(sc, p, Len(sc))
<1> HIDE DEF p
<1>3. p \in Int /\ p = n + 1
  BY <1>1 DEF p
<1>4. /\ r \in Seq(Z) /\ Len(r) = (IF p <= Len(sc) THEN Len(sc) - p + 1 ELSE 0)
      /\ \A i \in 1 .. Len(sc) - p + 1 : r[i] = sc[p + i - 1]
  BY <1>1, <1>2, <1>3, SubSeqProperties
<1> HIDE DEF r
<1>5. r \in Seq(Z) /\ Len(r) = Len(sc) - n /\ Len(sc) - p + 1 = Len(sc) - n
  BY <1>1, <1>3, <1>4
<1>6. ASSUME NEW i \in 1 .. Len(sc) - n PROVE r[i] = sc[i + n]
  <2>1. p + i - 1 = i + n
    BY <1>1, <1>3
  <2>2. QED
    BY <1>4, <1>5, <2>1
<1>7. QED
  BY <1>5, <1>6 DEF r, p

\* A script is a sequence of its statements,
LEMMA SequenceIsSeq ==
  ASSUME NEW sc, IsSequence(sc)
  PROVE  sc \in Seq({sc[i] : i \in 1 .. Len(sc)})
<1>1. sc = [i \in 1 .. Len(sc) |-> sc[i]] /\ Len(sc) \in Nat
  BY DEF IsSequence
<1>2. QED
  BY <1>1

\* and a sequence is a script.
LEMMA SeqIsSequence ==
  ASSUME NEW Z, NEW sc \in Seq(Z)
  PROVE  IsSequence(sc)
<1>1. Len(sc) \in Nat /\ sc = [i \in 1 .. Len(sc) |-> sc[i]]
  OBVIOUS
<1>2. QED
  BY <1>1 DEF IsSequence

\* What is left of a script after n statements.
LEMMA WhatIsLeft ==
  ASSUME NEW sc, IsSequence(sc), NEW n \in 1 .. Len(sc)
  PROVE  /\ IsSequence(SubSeq(sc, n + 1, Len(sc)))
         /\ Len(SubSeq(sc, n + 1, Len(sc))) = Len(sc) - n
         /\ \A i \in 1 .. Len(sc) - n : SubSeq(sc, n + 1, Len(sc))[i] = sc[i + n]
<1> DEFINE Z == {sc[i] : i \in 1 .. Len(sc)}
<1>1. sc \in Seq(Z)
  BY SequenceIsSeq
<1> HIDE DEF Z
<1>2. QED
  BY <1>1, AfterSome, SeqIsSequence

\* The rest of a script, after its first statement.
LEMMA RestIsLeft ==
  ASSUME NEW sc, IsSequence(sc), sc # <<>>
  PROVE  /\ Len(sc) > 0 /\ Head(sc) = sc[1] /\ Tail(sc) = SubSeq(sc, 1 + 1, Len(sc))
         /\ IsSequence(Tail(sc)) /\ IsRest(Tail(sc), sc)
<1> DEFINE Z == {sc[i] : i \in 1 .. Len(sc)}
<1>1. sc \in Seq(Z)
  BY SequenceIsSeq
<1> HIDE DEF Z
<1>2. Len(sc) \in Nat /\ Len(sc) > 0 /\ Head(sc) = sc[1] /\ Tail(sc) = SubSeq(sc, 2, Len(sc)) /\ 1 \in 1 .. Len(sc)
  BY <1>1
<1>3. 1 + 1 = 2
  OBVIOUS
<1>4. Tail(sc) = SubSeq(sc, 1 + 1, Len(sc))
  BY <1>2, <1>3
<1>5. /\ IsSequence(Tail(sc)) /\ Len(Tail(sc)) = Len(sc) - 1
      /\ \A i \in 1 .. Len(sc) - 1 : Tail(sc)[i] = sc[i + 1]
  BY <1>2, <1>4, WhatIsLeft
<1>6. QED
  BY <1>2, <1>4, <1>5 DEF IsRest

\* What is left of the script of Cleanup or Setup does what the whole script does.
OnCourse(sc, d) ==
  /\ IsSequence(sc) /\ RunsThrough(sc, d)
  /\ program.phase = "cleanup" => IF plugin \in Clearing THEN Clears(sc, d) ELSE Completes(sc, d)
  /\ program.phase = "setup" => IF plugin \in Clearing THEN Completes(sc, d) ELSE Keeps(sc, d)

IsData(d) == plugin \in Plugins /\ scale \in {"full", "short"} /\ IsDatabase(d) /\ DOMAIN d = Tables(plugin)

\* The first statement cannot fail, and what is left stays on course.
LEMMA StaysOnCourse ==
  ASSUME NEW d, IsData(d), NEW sc, sc # <<>>, OnCourse(sc, d),
         sc[1].verb = "guard" => \A t \in sc[1].tables : ~HasRows(d, t)
  PROVE  ~Impossible(d, sc[1]) /\ OnCourse(Tail(sc), Applied(d, sc[1], scale)) /\ IsData(Applied(d, sc[1], scale))
<1> DEFINE e == Applied(d, sc[1], scale)
           r == Tail(sc)
<1>1. IsSequence(sc) /\ Len(sc) \in Nat /\ Len(sc) > 0 /\ IsSequence(r) /\ IsRest(r, sc) /\ RunsThrough(sc, d)
  BY RestIsLeft DEF OnCourse, IsSequence
<1>2. ~Impossible(d, sc[1]) /\ Possible(sc, d, 1) /\ Fits(sc[1], d)
  BY <1>1, FirstPossible DEF IsData, Possible
<1>3. IsData(e)
  BY <1>2, AppliedDatabase DEF IsData, Fits
<1>4. /\ RunsThrough(r, e)
      /\ Clears(sc, d) => Clears(r, e)
      /\ Completes(sc, d) => Completes(r, e)
  BY <1>1, GoesOn DEF IsData
<1>5. Keeps(sc, d) => Keeps(r, e)
  <2>1. ASSUME Keeps(sc, d) PROVE Keeps(r, e)
    <3>1. Made(d) /\ \A i \in 1 .. Len(sc) : sc[i].verb # "drop"
      BY <2>1 DEF Keeps
    <3>2. Made(e)
      BY <1>1, <1>2, <3>1, KeepsOn DEF IsData
    <3>3. \A i \in 1 .. Len(r) : i + 1 \in 1 .. Len(sc) /\ r[i] = sc[i + 1]
      BY <1>1 DEF IsRest
    <3> HIDE DEF r, e
    <3>4. QED
      BY <3>1, <3>2, <3>3 DEF Keeps
  <2>2. QED
    BY <2>1
<1> HIDE DEF r, e
<1>6. OnCourse(r, e)
  BY <1>1, <1>4, <1>5 DEF OnCourse
<1>7. QED
  BY <1>2, <1>3, <1>6 DEF r, e

\* A guard that finds rows ends only a script that has nothing left to do.
LEMMA StoppedOnCourse ==
  ASSUME NEW d, IsData(d), NEW sc, sc # <<>>, OnCourse(sc, d), program.phase \in {"cleanup", "setup"},
         sc[1].verb = "guard", NEW t \in sc[1].tables, HasRows(d, t)
  PROVE  program.phase = "setup" /\ plugin \notin Clearing /\ Made(d)
<1>1. 1 \in 1 .. Len(sc) /\ 1 - 1 = 0
  BY RestIsLeft DEF OnCourse, IsSequence
<1>2. ~GuardsPass(sc, d)
  <2>1. SUFFICES ASSUME GuardsPass(sc, d) PROVE FALSE
    OBVIOUS
  <2>2. NoRowsAt(sc, d, 0, t)
    BY <1>1, <2>1 DEF GuardsPass
  <2>3. 0 \in At0(~HasRows(d, t)) \cup DropsOf(sc, t)
    BY <2>2, HoldsNow DEF NoRowsAt
  <2>4. QED
    BY <2>3 DEF At0, DropsOf
<1>3. QED
  BY <1>2 DEF OnCourse, Clears, Completes, Keeps

\* A script that keeps the tables may end anywhere.
LEMMA OnCourseAtEnd ==
  ASSUME NEW d, IsData(d), program.phase = "setup" /\ plugin \notin Clearing /\ Made(d)
  PROVE  OnCourse(<<>>, d)
<1>1. Len(<<>>) = 0 /\ <<>> \in Seq({})
  OBVIOUS
<1>2. IsSequence(<<>>)
  BY <1>1, SeqIsSequence
<1>3. QED
  BY <1>1, <1>2 DEF OnCourse, RunsThrough, Keeps

\* A second attempt that is left out would change nothing.
LEMMA SkipsOnCourse ==
  ASSUME NEW d, IsData(d), NEW sc, sc # <<>>, OnCourse(sc, d), sc[1].after = "attempt",
         sc[1].verb = "guard" => \A t \in sc[1].tables : ~HasRows(d, t)
  PROVE  OnCourse(SubSeq(sc, 2 + 1, Len(sc)), Applied(d, sc[1], scale))
<1> DEFINE e == Applied(d, sc[1], scale)
           r == Tail(sc)
<1>1. IsSequence(sc) /\ Len(sc) \in Nat /\ Len(sc) > 0 /\ IsSequence(r) /\ IsRest(r, sc) /\ RunsThrough(sc, d)
      /\ r = SubSeq(sc, 1 + 1, Len(sc))
  BY RestIsLeft DEF OnCourse, IsSequence
<1>2. Possible(sc, d, 1)
  BY <1>1, FirstPossible DEF IsData
<1>3. 1 < Len(sc) /\ sc[1 + 1].verb = "read"
  BY <1>2 DEF Possible
<1>4. OnCourse(r, e) /\ IsData(e)
  BY StaysOnCourse
<1>5. Len(r) = Len(sc) - 1 /\ r[1] = sc[1 + 1] /\ r[1].verb = "read" /\ r # <<>>
  BY <1>1, <1>3 DEF IsRest
<1>6. OnCourse(Tail(r), Applied(e, r[1], scale))
  BY <1>4, <1>5, StaysOnCourse
<1>7. Applied(e, r[1], scale) = e
  <2> HIDE DEF e, r
  <2>1. e = [t \in DOMAIN e |-> e[t]]
    BY <1>4 DEF IsData, IsDatabase
  <2>2. \A t \in DOMAIN e : Applied(e, r[1], scale)[t] = e[t]
    BY <1>5 DEF Applied
  <2>3. Applied(e, r[1], scale) = [t \in DOMAIN e |-> Applied(e, r[1], scale)[t]]
    BY DEF Applied
  <2>4. QED
    BY <2>1, <2>2, <2>3
<1>8. Tail(r) = SubSeq(sc, 2 + 1, Len(sc))
  <2>1. sc \in Seq({sc[i] : i \in 1 .. Len(sc)})
    BY <1>1, SequenceIsSeq
  <2>2. /\ IsSequence(SubSeq(sc, 2 + 1, Len(sc))) /\ Len(SubSeq(sc, 2 + 1, Len(sc))) = Len(sc) - 2
        /\ \A i \in 1 .. Len(sc) - 2 : SubSeq(sc, 2 + 1, Len(sc))[i] = sc[i + 2]
    <3>1. 2 \in 1 .. Len(sc)
      BY <1>1, <1>3
    <3>2. QED
      BY <1>1, <3>1, WhatIsLeft
  <2>3. IsSequence(Tail(r)) /\ Len(Tail(r)) = Len(r) - 1 /\ \A i \in 1 .. Len(r) - 1 : Tail(r)[i] = r[i + 1]
    BY <1>1, <1>5, RestIsLeft DEF IsRest
  <2>4. \A i \in 1 .. Len(sc) - 2 : r[i + 1] = sc[i + 2]
    <3>1. ASSUME NEW i \in 1 .. Len(sc) - 2 PROVE r[i + 1] = sc[i + 2]
      <4>1. i + 1 \in 1 .. Len(r) /\ (i + 1) + 1 = i + 2
        BY <1>1, <1>5
      <4>2. QED
        BY <1>1, <4>1 DEF IsRest
    <3>2. QED
      BY <3>1
  <2> DEFINE u == Tail(r)
             v == SubSeq(sc, 2 + 1, Len(sc))
  <2> HIDE DEF r, u, v
  <2>5. Len(u) = Len(v) /\ \A i \in 1 .. Len(u) : u[i] = v[i]
    <3>1. Len(r) - 1 = Len(sc) - 2
      BY <1>1, <1>5
    <3>2. QED
      BY <2>2, <2>3, <2>4, <3>1 DEF u, v
  <2>6. u = [i \in 1 .. Len(u) |-> u[i]] /\ v = [i \in 1 .. Len(v) |-> v[i]]
    BY <2>2, <2>3 DEF IsSequence, u, v
  <2>7. u = v
    BY <2>5, <2>6
  <2>8. QED
    BY <2>7 DEF u, v
<1>9. QED
  BY <1>6, <1>7, <1>8

-----------------------------------------------------------------------------
(* The operations of a run on the tables.                                  *)

\* Whatever a statement does, a table has a status.
LEMMA AppliedIsData ==
  ASSUME NEW d, IsData(d), NEW s
  PROVE  IsData(Applied(d, s, scale))
<1> DEFINE e == Applied(d, s, scale)
<1>1. DOMAIN e = DOMAIN d /\ e = [t \in DOMAIN e |-> e[t]]
  BY DEF Applied
<1>2. ASSUME NEW t \in DOMAIN d PROVE e[t] \in Statuses
  <2>1. d[t] \in Statuses
    BY DEF IsData, IsDatabase
  <2>2. scale \in {"full", "short"}
    BY DEF IsData
  <2>3. CASE t \notin s.tables
    BY <2>1, <2>3 DEF Applied
  <2>4. CASE t \in s.tables
    <3>1. e[t] = CASE s.verb \in {"create", "ensure"} /\ d[t] = "absent" -> "empty"
                   [] s.verb = "drop" -> "absent"
                   [] s.verb = "fill" /\ d[t] = "empty" -> scale
                   [] s.verb \in {"fillall", "copy"} /\ d[t] = "empty" -> "full"
                   [] s.verb \in {"insert", "insertnext"} /\ d[t] = "empty" -> "short"
                   [] s.verb = "delete" /\ d[t] = "full" -> "short"
                   [] OTHER -> d[t]
      BY <2>4 DEF Applied
    <3> HIDE DEF e
    <3>2. QED
      BY <2>1, <2>2, <3>1 DEF Statuses
  <2>5. QED
    BY <2>3, <2>4
<1> HIDE DEF e
<1>3. IsData(e)
  BY <1>1, <1>2 DEF IsData, IsDatabase
<1>4. QED
  BY <1>3 DEF e

\* Also after a load that was cut off.
LEMMA HalfLoadedIsData ==
  ASSUME NEW d, IsData(d), NEW s, NEW e \in HalfLoaded(d, s)
  PROVE  IsData(e)
<1>1. CASE e = d
  BY <1>1
<1>2. CASE \E W : e = [t \in DOMAIN d |-> IF t \in W /\ d[t] = "empty" THEN "short" ELSE d[t]]
  <2>1. DOMAIN e = DOMAIN d /\ e = [t \in DOMAIN e |-> e[t]] /\ \A t \in DOMAIN d : e[t] \in Statuses
    BY <1>2 DEF IsData, IsDatabase, Statuses
  <2>2. QED
    BY <2>1 DEF IsData, IsDatabase
<1>3. QED
  BY <1>1, <1>2 DEF HalfLoaded

\* What a statement of an operation leaves of the tables.
Worn(d, e) ==
  /\ e = [t \in DOMAIN d |-> e[t]]
  /\ \A t \in DOMAIN d : /\ e[t] \in {d[t], "short"} /\ (d[t] = "absent" => e[t] = "absent")
                         /\ t \in Needed(plugin) /\ d[t] = "full" => e[t] = "full"

\* Such tables are still made.
LEMMA WornIsMade ==
  ASSUME NEW d, IsData(d), NEW e, Worn(d, e)
  PROVE  IsData(e) /\ (Made(d) => Made(e))
<1>1. DOMAIN e = DOMAIN d /\ e = [t \in DOMAIN e |-> e[t]]
  BY DEF Worn
<1>2. IsData(e)
  BY <1>1 DEF Worn, IsData, IsDatabase, Statuses
<1>3. ASSUME Made(d) PROVE Made(e)
  <2>1. Tables(plugin) = DOMAIN d /\ Needed(plugin) \cup Guarded(plugin) \subseteq DOMAIN d
    BY NeededTables DEF IsData
  <2>2. \A t \in DOMAIN d : d[t] # "absent" => e[t] # "absent"
    BY DEF Worn
  <2>3. \A t \in DOMAIN d : HasRows(d, t) => HasRows(e, t)
    BY DEF Worn, HasRows
  <2>4. QED
    BY <1>3, <2>1, <2>2, <2>3 DEF Made, Worn
<1>4. QED
  BY <1>2, <1>3

\* A statement of an operation leaves such tables,
LEMMA AppliedWorn ==
  ASSUME NEW d, IsData(d), NEW s, Suits(s, Tables(plugin), Needed(plugin)), NEW sz
  PROVE  Worn(d, Applied(d, s, sz))
<1> DEFINE e == Applied(d, s, sz)
<1>1. e = [t \in DOMAIN d |-> e[t]]
  BY DEF Applied
<1>2. ASSUME NEW t \in DOMAIN d
      PROVE  /\ e[t] \in {d[t], "short"} /\ (d[t] = "absent" => e[t] = "absent")
             /\ t \in Needed(plugin) /\ d[t] = "full" => e[t] = "full"
  <2>1. CASE t \notin s.tables
    BY <2>1 DEF Applied
  <2>2. CASE t \in s.tables
    <3>1. e[t] = CASE s.verb \in {"create", "ensure"} /\ d[t] = "absent" -> "empty"
                   [] s.verb = "drop" -> "absent"
                   [] s.verb = "fill" /\ d[t] = "empty" -> sz
                   [] s.verb \in {"fillall", "copy"} /\ d[t] = "empty" -> "full"
                   [] s.verb \in {"insert", "insertnext"} /\ d[t] = "empty" -> "short"
                   [] s.verb = "delete" /\ d[t] = "full" -> "short"
                   [] OTHER -> d[t]
      BY <2>2 DEF Applied
    <3> HIDE DEF e
    <3>2. QED
      BY <2>2, <3>1 DEF Suits, Writing
  <2>3. QED
    BY <2>1, <2>2
<1> HIDE DEF e
<1>3. Worn(d, e)
  BY <1>1, <1>2 DEF Worn
<1>4. QED
  BY <1>3 DEF e

\* and so does a commit.
LEMMA CommitWorn ==
  ASSUME NEW w \in Workers, IsData(db), IsScript(worker[w].script),
         Suited(worker[w].script, Tables(plugin), Needed(plugin))
  PROVE  Worn(db, CommitEffect(w))
<1> DEFINE e == CommitEffect(w)
<1>1. e = [t \in DOMAIN db |-> e[t]]
  BY DEF CommitEffect
<1>2. \A i \in DOMAIN worker[w].script :
         worker[w].script[i].verb = "delete" => worker[w].script[i].tables \cap Needed(plugin) = {}
  BY DEF Suited, Suits, IsScript
<1>3. ASSUME NEW t \in DOMAIN db
      PROVE  /\ e[t] \in {db[t], "short"} /\ (db[t] = "absent" => e[t] = "absent")
             /\ t \in Needed(plugin) /\ db[t] = "full" => e[t] = "full"
  BY <1>2 DEF CommitEffect
<1> HIDE DEF e
<1>4. Worn(db, e)
  BY <1>1, <1>3 DEF Worn
<1>5. QED
  BY <1>4 DEF e

\* On tables that are made, with a row for every id, an operation misses nothing.
LEMMA RefusedForAnother ==
  ASSUME IsData(db), Made(db), scale = "full", NEW s, Suits(s, Tables(plugin), Needed(plugin)), Refusable(db, s)
  PROVE  Refusal(db, s) # "missing"
<1>1. s.verb \in {"read", "begin", "commit", "malformed", "insert", "insertnext", "update", "delete"}
  BY DEF Suits, Writing
<1>2. \A t \in s.tables : db[t] # "absent"
  BY DEF Suits, Made
<1>3. \A t \in s.needs : db[t] = "full" /\ HasRows(db, t)
  BY DEF Suits, Made, HasRows
<1>4. s.verb = "malformed" \/ (s.verb = "insertnext" /\ \E t \in s.tables : HasRows(db, t))
  BY <1>1, <1>2, <1>3 DEF Refusable, Impossible, Schematic, Loading
<1>5. s.verb = "insertnext" => s.needs = {} /\ \A t, u \in s.tables : t = u
  BY DEF Suits
<1>6. QED
  BY <1>4, <1>5 DEF Refusal

\* An operation fails for want of a row by a refusal only.
LEMMA MissingIsRefused ==
  ASSUME WorkloadsInv, NEW w \in Workers,
         ExecuteStatement(w) \/ Refuse(w) \/ Fault(w) \/ CommitUnanswered(w) \/ Interrupt(w) \/ DeadlockVictim(w),
         worker'[w].outcome = "missing"
  PROVE  Refusable(db, Statement(w)) /\ Refusal(db, Statement(w)) = "missing"
<1> DEFINE o == worker[w]
<1>1. Busy(w)
  BY DEF ExecuteStatement, Refuse, Fault, CommitUnanswered, Interrupt, DeadlockVictim, Deadlocked, WaitsFor, Able
<1>2. /\ DOMAIN o = OperationFields /\ o.outcome = "none" /\ Len(o.script) \in Nat /\ o.pc \in Nat
      /\ \A q : worker' = [worker EXCEPT ![w] = q] => worker'[w] = q
  BY <1>1 DEF Busy, WorkloadsInv, OperationInv, IsScript
<1>3. ASSUME NEW cause, Errs(w, cause) PROVE worker'[w].outcome \in {"none", "succeeded", cause}
  <2>1. worker'[w] = Continued(o, 1) \/ worker'[w] = Stopped(o, cause)
    BY <1>2, <1>3 DEF Errs
  <2>2. Continued(o, 1).outcome \in {"none", "succeeded"} /\ Stopped(o, cause).outcome = cause
    BY <1>2, ContinuedFields, StoppedFields
  <2>3. QED
    BY <2>1, <2>2
<1>4. CASE ExecuteStatement(w)
  <2> DEFINE d == Done(o)
             n == IF o.script[o.pc].after = "attempt" THEN 2 ELSE 1
  <2>1. worker'[w] = Continued(d, n) \/ worker'[w] = Stopped(d, "succeeded")
    <3>1. \/ worker' = [worker EXCEPT ![w] = Continued(d, n)]
          \/ worker' = [worker EXCEPT ![w] = Stopped(d, "succeeded")]
      BY <1>4, Zenon DEF ExecuteStatement, Done, Statement
    <3>2. QED
      BY <1>2, <3>1
  <2>2. DOMAIN d = OperationFields /\ d.script = o.script /\ d.pc = o.pc /\ d.outcome = "none"
    <3>1. DOMAIN Effect(o, o.script[o.pc]) = OperationFields
          /\ Effect(o, o.script[o.pc]).script = o.script /\ Effect(o, o.script[o.pc]).pc = o.pc
          /\ Effect(o, o.script[o.pc]).outcome = "none"
      BY <1>2 DEF Effect, OperationFields
    <3>2. QED
      BY <1>2, <3>1, CommittedFields DEF Done
  <2> HIDE DEF d
  <2>3. n \in Nat
    OBVIOUS
  <2> HIDE DEF n
  <2>4. Continued(d, n).outcome \in {"none", "succeeded"} /\ Stopped(d, "succeeded").outcome = "succeeded"
    BY <1>2, <2>2, <2>3, ContinuedFields, StoppedFields
  <2>5. QED
    BY <2>1, <2>4
<1>5. CASE Refuse(w)
  BY <1>3, <1>5 DEF Refuse
<1>6. CASE Fault(w)
  BY <1>3, <1>6 DEF Fault
<1>7. CASE CommitUnanswered(w)
  <2>1. worker'[w] = Stopped(Committed(o), "unanswered")
    BY <1>2, <1>7 DEF CommitUnanswered
  <2>2. Stopped(Committed(o), "unanswered").outcome = "unanswered"
    BY <1>2, CommittedFields, StoppedFields
  <2>3. QED
    BY <2>1, <2>2
<1>8. CASE Interrupt(w)
  BY <1>2, <1>8, StoppedFields DEF Interrupt
<1>9. CASE DeadlockVictim(w)
  BY <1>2, <1>9, StoppedFields DEF DeadlockVictim
<1>10. QED
  BY <1>4, <1>5, <1>6, <1>7, <1>8, <1>9

-----------------------------------------------------------------------------
(* Rebuilds recover, and the runs after them find their rows.              *)

\* The tables and what the program and the workers make of them.
DataInv ==
  /\ IsData(db)
  /\ program.loaded => program.phase \in {"start", "run", "over"} /\ scale = "full" /\ Made(db)
  /\ program.rebuilds /\ program.clean =>
       /\ program.failure \in {"none", "start"}
       /\ program.phase \in {"cleanup", "setup"} => OnCourse(program.script, db)
  /\ \A w \in Workers : /\ Suited(worker[w].script, Tables(plugin), Needed(plugin))
                        /\ worker[w].outcome = "missing" => program.phase = "run" /\ ~program.loaded

\* A worker between operations.
LEMMA IdleSuited ==
  ASSUME NEW W, NEW N
  PROVE  Suited(Idle.script, W, N) /\ Idle.outcome = "none"
BY DEF Suited, Idle

\* At first there are no tables.
LEMMA DataInvInit == WorkloadsInit => DataInv
<1> SUFFICES ASSUME WorkloadsInit PROVE DataInv
  OBVIOUS
<1>1. /\ plugin \in Plugins /\ scale \in {"full", "short"} /\ db = [t \in Tables(plugin) |-> "absent"]
      /\ program = Fresh /\ worker = [w \in Workers |-> Idle]
  BY DEF WorkloadsInit
<1>2. IsData(db)
  BY <1>1 DEF IsData, IsDatabase, Statuses
<1>3. ~program.loaded /\ ~program.rebuilds
  BY <1>1 DEF Fresh
<1>4. \A w \in Workers : worker[w] = Idle
  BY <1>1
<1>5. QED
  BY <1>2, <1>3, <1>4, IdleSuited DEF DataInv

\* The program is not in a run, and the workers are idle.
LEMMA DataMoves ==
  ASSUME DataInv, UNCHANGED <<plugin, scale, worker>>, program.phase # "run", IsData(db)',
         program'.loaded => program'.phase \in {"start", "run", "over"} /\ scale = "full" /\ Made(db)',
         program'.rebuilds /\ program'.clean =>
           /\ program'.failure \in {"none", "start"}
           /\ program'.phase \in {"cleanup", "setup"} => OnCourse(program.script, db)'
  PROVE  DataInv'
BY DEF DataInv

\* What stays on course is the script of the next state.
LEMMA CoursePrimed ==
  ASSUME UNCHANGED <<plugin, scale>>, program'.phase = program.phase,
         NEW r, NEW e, OnCourse(r, e), program'.script = r, db' = e
  PROVE  OnCourse(program.script, db)'
<1>1. /\ Clears(r, e) => Clears(program.script, db)'
      /\ Completes(r, e) => Completes(program.script, db)'
      /\ Keeps(r, e) => Keeps(program.script, db)'
  BY DEF Clears, Completes, Keeps, Made
<1>2. QED
  BY <1>1 DEF OnCourse

\* A statement of Cleanup or Setup succeeds.
LEMMA DataPrepares == WorkloadsInv /\ DataInv /\ Prepares => DataInv'
<1> SUFFICES ASSUME WorkloadsInv, DataInv, Prepares PROVE DataInv'
  OBVIOUS
<1> DEFINE s == Head(program.script)
<1>1. /\ program.phase \in {"cleanup", "setup"} /\ program.script # <<>> /\ db' = Applied(db, s, scale)
      /\ UNCHANGED <<plugin, scale, worker>> /\ IsData(db)
      /\ DOMAIN program = ProgramFields
  BY DEF Prepares, Preparing, PreparedUnchanged, DataInv, WorkloadsInv
<1>2. IsData(db)' /\ ~program.loaded
  BY <1>1, AppliedIsData DEF IsData, DataInv
<1>3. /\ \/ Goes(Len(program.script)) /\ s.verb = "guard" /\ \E t \in s.tables : HasRows(db, t)
         \/ Goes(2) /\ s.after = "attempt" /\ (s.verb = "guard" => \A t \in s.tables : ~HasRows(db, t))
         \/ Goes(1) /\ (s.verb = "guard" => \A t \in s.tables : ~HasRows(db, t))
  BY DEF Prepares
<1> HIDE DEF s
<1>4. PICK n : program' = [program EXCEPT !.script = SubSeq(@, n + 1, Len(@))]
  BY <1>3 DEF Goes
<1>5. /\ program'.phase = program.phase /\ program'.loaded = program.loaded /\ program'.clean = program.clean
      /\ program'.rebuilds = program.rebuilds /\ program'.failure = program.failure
  BY <1>4
<1>6. ASSUME program.rebuilds, program.clean PROVE OnCourse(program.script, db)'
  <2> DEFINE sc == program.script
  <2>1. OnCourse(sc, db) /\ IsSequence(sc) /\ Len(sc) \in Nat
    BY <1>1, <1>6 DEF DataInv, OnCourse, IsSequence
  <2>2. s = sc[1] /\ Tail(sc) = SubSeq(sc, 1 + 1, Len(sc)) /\ Len(sc) > 0
    BY <1>1, <2>1, RestIsLeft DEF s
  <2>3. \A m : Goes(m) => program'.script = SubSeq(sc, m + 1, Len(sc))
    BY <1>1 DEF Goes, ProgramFields, Fresh
  <2>4. CASE Goes(1) /\ (s.verb = "guard" => \A t \in s.tables : ~HasRows(db, t))
    <3>1. OnCourse(Tail(sc), Applied(db, sc[1], scale))
      BY <1>1, <2>1, <2>2, <2>4, StaysOnCourse
    <3>2. program'.script = Tail(sc) /\ db' = Applied(db, sc[1], scale)
      BY <1>1, <2>2, <2>3, <2>4
    <3>3. QED
      BY <1>1, <1>5, <3>1, <3>2, CoursePrimed
  <2>5. CASE Goes(2) /\ s.after = "attempt" /\ (s.verb = "guard" => \A t \in s.tables : ~HasRows(db, t))
    <3>1. OnCourse(SubSeq(sc, 2 + 1, Len(sc)), Applied(db, sc[1], scale))
      BY <1>1, <2>1, <2>2, <2>5, SkipsOnCourse
    <3>2. program'.script = SubSeq(sc, 2 + 1, Len(sc)) /\ db' = Applied(db, sc[1], scale)
      BY <1>1, <2>2, <2>3, <2>5
    <3>3. QED
      BY <1>1, <1>5, <3>1, <3>2, CoursePrimed
  <2>6. CASE Goes(Len(sc)) /\ s.verb = "guard" /\ \E t \in s.tables : HasRows(db, t)
    <3>1. program.phase = "setup" /\ plugin \notin Clearing /\ Made(db)
      BY <1>1, <2>1, <2>2, <2>6, StoppedOnCourse
    <3>2. OnCourse(<<>>, db)
      BY <1>1, <3>1, OnCourseAtEnd
    <3>3. program'.script = <<>>
      <4>1. Len(SubSeq(sc, Len(sc) + 1, Len(sc))) = 0 /\ IsSequence(SubSeq(sc, Len(sc) + 1, Len(sc)))
        <5>1. Len(sc) \in 1 .. Len(sc)
          BY <2>1, <2>2
        <5>2. QED
          BY <2>1, <5>1, WhatIsLeft
      <4>2. SubSeq(sc, Len(sc) + 1, Len(sc)) = <<>>
        BY <4>1, SequenceIsSeq, EmptySeq
      <4>3. QED
        BY <2>3, <2>6, <4>2
    <3>4. db' = db
      <4>1. \A t \in DOMAIN db : Applied(db, s, scale)[t] = db[t]
        BY <2>6 DEF Applied
      <4>2. Applied(db, s, scale) = [t \in DOMAIN db |-> Applied(db, s, scale)[t]]
        BY DEF Applied
      <4>3. db = [t \in DOMAIN db |-> db[t]]
        BY <1>1 DEF IsData, IsDatabase
      <4>4. QED
        BY <1>1, <4>1, <4>2, <4>3
    <3>5. QED
      BY <1>1, <1>5, <3>2, <3>3, <3>4, CoursePrimed
  <2>7. QED
    BY <1>3, <2>4, <2>5, <2>6
<1>7. program.rebuilds /\ program.clean => program.failure \in {"none", "start"}
  BY DEF DataInv
<1>8. program.phase # "run"
  BY <1>1
<1>9. QED
  BY <1>1, <1>2, <1>5, <1>6, <1>7, <1>8, DataMoves

\* A statement of a rebuild fails by a fault only, and the rebuild is not clean any more.
LEMMA DataFails == WorkloadsInv /\ DataInv /\ PreparationFails => DataInv'
<1> SUFFICES ASSUME WorkloadsInv, DataInv, PreparationFails PROVE DataInv'
  OBVIOUS
<1> DEFINE s == Head(program.script)
           refused == Impossible(db, s)
<1>1. /\ program.phase \in {"cleanup", "setup"} /\ program.script # <<>> /\ db' \in HalfLoaded(db, s)
      /\ UNCHANGED <<plugin, scale, worker>> /\ IsData(db)
      /\ DOMAIN program = ProgramFields
  BY DEF PreparationFails, Preparing, PreparedUnchanged, DataInv, WorkloadsInv
<1>2. \/ program' = [program EXCEPT !.script = Tail(@), !.clean = @ /\ refused]
      \/ program' = [program EXCEPT !.phase = "over", !.script = <<>>, !.clean = @ /\ refused,
                                    !.failure = IF refused THEN Refusal(db, s) ELSE "fault"]
  BY DEF PreparationFails
<1>3. IsData(db)' /\ ~program.loaded
  BY <1>1, HalfLoadedIsData DEF IsData, DataInv
<1>4. program.rebuilds /\ program.clean => ~refused
  <2>1. ASSUME program.rebuilds, program.clean PROVE ~refused
    <3>1. OnCourse(program.script, db)
      BY <1>1, <2>1 DEF DataInv
    <3>2. IsSequence(program.script) /\ RunsThrough(program.script, db)
      BY <3>1 DEF OnCourse
    <3>3. Head(program.script) = program.script[1] /\ Len(program.script) > 0 /\ Len(program.script) \in Nat
      BY <1>1, <3>2, RestIsLeft DEF IsSequence
    <3>4. IsDatabase(db)
      BY <1>1 DEF IsData
    <3>5. QED
      BY <3>2, <3>3, <3>4, FirstPossible
  <2>2. QED
    BY <2>1
<1> HIDE DEF refused, s
<1>5. ~program'.loaded /\ ~(program'.rebuilds /\ program'.clean)
  <2>1. /\ program'.loaded = program.loaded /\ program'.rebuilds = program.rebuilds
        /\ program'.clean = (program.clean /\ refused)
    BY <1>1, <1>2 DEF ProgramFields, Fresh
  <2>2. QED
    BY <1>3, <1>4, <2>1
<1>6. program.phase # "run"
  BY <1>1
<1>7. QED
  BY <1>1, <1>3, <1>5, <1>6, DataMoves

\* Cleanup has dropped the tables or made them, and Setup makes or keeps them.
LEMMA DataCleanedUp == WorkloadsInv /\ DataInv /\ CleanedUp => DataInv'
<1> SUFFICES ASSUME WorkloadsInv, DataInv, CleanedUp PROVE DataInv'
  OBVIOUS
<1>1. /\ program.phase = "cleanup" /\ program.script = <<>>
      /\ UNCHANGED <<plugin, scale, worker, db>> /\ IsData(db)
      /\ DOMAIN program = ProgramFields
  BY DEF CleanedUp, PreparedUnchanged, DataInv, WorkloadsInv
<1>2. PICK script \in Setups : program' = [program EXCEPT !.phase = "setup", !.script = script]
  BY DEF CleanedUp
<1>3. /\ program'.phase = "setup" /\ program'.script = script /\ program'.loaded = program.loaded
      /\ program'.rebuilds = program.rebuilds /\ program'.clean = program.clean
      /\ program'.failure = program.failure
  BY <1>1, <1>2 DEF ProgramFields, Fresh
<1>4. IsData(db)' /\ ~program'.loaded
  BY <1>1, <1>3 DEF IsData, DataInv
<1>5. ASSUME program.rebuilds, program.clean PROVE OnCourse(program.script, db)'
  <2>1. IF plugin \in Clearing THEN Clears(<<>>, db) ELSE Completes(<<>>, db)
    BY <1>1, <1>5 DEF DataInv, OnCourse
  <2>2. IF plugin \in Clearing THEN \A t \in Tables(plugin) : db[t] = "absent" ELSE Made(db)
    BY <2>1, Completed
  <2>3. /\ IsSequence(script) /\ RunsThrough(script, db)
        /\ IF plugin \in Clearing THEN Completes(script, db) ELSE Keeps(script, db)
    BY <1>1, <2>2, SetupPrepares DEF IsData
  <2>4. /\ Completes(script, db) => Completes(program.script, db)'
        /\ Keeps(script, db) => Keeps(program.script, db)'
    BY <1>1, <1>3 DEF Completes, Keeps, Made
  <2>5. QED
    BY <1>1, <1>3, <2>3, <2>4 DEF OnCourse
<1>6. program.rebuilds /\ program.clean => program.failure \in {"none", "start"}
  BY DEF DataInv
<1>7. QED
  BY <1>1, <1>3, <1>4, <1>5, <1>6, DataMoves

\* At the end of Setup the tables are made, if nothing has failed.
LEMMA DataSetUp == WorkloadsInv /\ DataInv /\ SetUp => DataInv'
<1> SUFFICES ASSUME WorkloadsInv, DataInv, SetUp PROVE DataInv'
  OBVIOUS
<1>1. /\ program.phase = "setup" /\ program.script = <<>>
      /\ UNCHANGED <<plugin, scale, worker, db>> /\ IsData(db)
      /\ DOMAIN program = ProgramFields
      /\ program' = [program EXCEPT !.phase = "start", !.isSetUp = TRUE,
                            !.loaded = program.rebuilds /\ program.clean /\ scale = "full"]
  BY DEF SetUp, PreparedUnchanged, DataInv, WorkloadsInv
<1>2. /\ program'.phase = "start" /\ program'.loaded = (program.rebuilds /\ program.clean /\ scale = "full")
      /\ program'.rebuilds = program.rebuilds /\ program'.clean = program.clean
      /\ program'.failure = program.failure
  BY <1>1 DEF ProgramFields, Fresh
<1>3. ASSUME program.rebuilds, program.clean PROVE Made(db)
  <2>1. IF plugin \in Clearing THEN Completes(<<>>, db) ELSE Keeps(<<>>, db)
    BY <1>1, <1>3 DEF DataInv, OnCourse
  <2>2. QED
    BY <2>1, Completed DEF Keeps
<1>4. IsData(db)' /\ (Made(db) => Made(db)')
  BY <1>1 DEF IsData, Made
<1>5. program.rebuilds /\ program.clean => program.failure \in {"none", "start"}
  BY DEF DataInv
<1>6. QED
  BY <1>1, <1>2, <1>3, <1>4, <1>5, DataMoves

\* The program is started: Cleanup is on course on any tables.
LEMMA DataInvoked == WorkloadsInv /\ DataInv /\ (Rebuild \/ SetupOnly \/ NoSetup) => DataInv'
<1> SUFFICES ASSUME WorkloadsInv, DataInv, Rebuild \/ SetupOnly \/ NoSetup PROVE DataInv'
  OBVIOUS
<1>1. /\ program.phase # "run" /\ UNCHANGED <<plugin, scale, worker, db>> /\ IsData(db)
  BY DEF Rebuild, SetupOnly, NoSetup, Invoke, DataInv
<1>2. IsData(db)'
  BY <1>1 DEF IsData
<1>3. ASSUME NEW phase, NEW script, NEW rebuilds, Begins(phase, script, rebuilds)
      PROVE  /\ program'.phase = phase /\ program'.script = script /\ program'.rebuilds = rebuilds
             /\ ~program'.loaded /\ program'.failure = "none"
  BY <1>3 DEF Begins, Fresh
<1>4. CASE Rebuild
  <2>1. program'.phase = "cleanup" /\ program'.script = Cleanup /\ ~program'.loaded /\ program'.failure = "none"
    BY <1>3, <1>4 DEF Rebuild
  <2>2. /\ IsSequence(Cleanup) /\ RunsThrough(Cleanup, db)
        /\ IF plugin \in Clearing THEN Clears(Cleanup, db) ELSE Completes(Cleanup, db)
    BY <1>1, CleanupPrepares DEF IsData
  <2>3. /\ Completes(Cleanup, db) => Completes(program.script, db)'
        /\ Clears(Cleanup, db) => Clears(program.script, db)'
    BY <1>1, <2>1 DEF Completes, Clears
  <2>4. OnCourse(program.script, db)'
    BY <1>1, <2>1, <2>2, <2>3 DEF OnCourse
  <2>5. QED
    BY <1>1, <1>2, <2>1, <2>4, DataMoves
<1>5. CASE SetupOnly \/ NoSetup
  <2>1. ~program'.loaded /\ ~program'.rebuilds
    BY <1>3, <1>5 DEF SetupOnly, NoSetup
  <2>2. QED
    BY <1>1, <1>2, <2>1, DataMoves
<1>6. QED
  BY <1>4, <1>5

\* The run starts, or refuses to.
LEMMA DataRunStarts == WorkloadsInv /\ DataInv /\ RunStarts => DataInv'
<1> SUFFICES ASSUME WorkloadsInv, DataInv, RunStarts PROVE DataInv'
  OBVIOUS
<1>1. /\ program.phase = "start" /\ UNCHANGED <<plugin, scale, worker, db>> /\ IsData(db)
      /\ DOMAIN program = ProgramFields
  BY DEF RunStarts, PreparedUnchanged, DataInv, WorkloadsInv
<1>2. IsData(db)' /\ (Made(db) => Made(db)')
  BY <1>1 DEF IsData, Made
<1>3. \/ \E m : program' = [Fresh EXCEPT !.phase = "run", !.mode = m, !.loaded = program.loaded]
      \/ program' = [program EXCEPT !.phase = "over", !.failure = "start"]
  BY DEF RunStarts
<1>4. \/ program'.phase = "run" /\ program'.loaded = program.loaded /\ ~program'.rebuilds
      \/ /\ program'.phase = "over" /\ program'.loaded = program.loaded
         /\ program'.rebuilds = program.rebuilds /\ program'.clean = program.clean /\ program'.failure = "start"
  BY <1>1, <1>3 DEF ProgramFields, Fresh
<1>5. program'.loaded => scale = "full" /\ Made(db)'
  BY <1>2, <1>4 DEF DataInv
<1>6. QED
  BY <1>1, <1>2, <1>4, <1>5, DataMoves

\* One worker changes in a run.
LEMMA DataWorks ==
  ASSUME WorkloadsInv, DataInv, UNCHANGED <<plugin, scale, program>>, program.phase = "run",
         NEW w \in Workers, NEW q, worker' = [worker EXCEPT ![w] = q],
         Suited(q.script, Tables(plugin), Needed(plugin)), q.outcome = "missing" => ~program.loaded,
         Worn(db, db')
  PROVE  DataInv'
<1>1. \A v \in Workers : worker'[v] = IF v = w THEN q ELSE worker[v]
  BY DEF WorkloadsInv
<1>2. IsData(db') /\ (Made(db) => Made(db'))
  BY WornIsMade DEF DataInv
<1>3. IsData(db)' /\ (Made(db) => Made(db)')
  BY <1>2 DEF IsData, Made
<1>4. \A v \in Workers : /\ Suited(worker'[v].script, Tables(plugin), Needed(plugin))
                         /\ worker'[v].outcome = "missing" => ~program.loaded
  BY <1>1 DEF DataInv
<1>5. QED
  BY <1>3, <1>4 DEF DataInv

\* Tables that are left alone.
LEMMA SameWorn ==
  ASSUME IsData(db), db' = db
  PROVE  Worn(db, db')
BY DEF Worn, IsData, IsDatabase

\* A step of an operation: it is refused for want of a row only if the tables were not made.
LEMMA DataOperates ==
  ASSUME WorkloadsInv, DataInv, program.phase = "run", NEW w \in Workers,
         ExecuteStatement(w) \/ Refuse(w) \/ Fault(w) \/ CommitUnanswered(w) \/ Interrupt(w) \/ DeadlockVictim(w)
  PROVE  DataInv'
<1> DEFINE o == worker[w]
           W == Tables(plugin)
           N == Needed(plugin)
<1>1. PICK q : worker' = [worker EXCEPT ![w] = q] /\ q.script = worker[w].script
  BY OperationMoves
<1>2. UNCHANGED <<plugin, scale, program>>
  BY Zenon DEF ExecuteStatement, Refuse, Fault, CommitUnanswered, Interrupt, DeadlockVictim, RunUnchanged
<1>3. IsData(db) /\ Suited(o.script, W, N) /\ IsScript(o.script)
  BY DEF DataInv, WorkloadsInv, OperationInv
<1>4. Busy(w)
  BY DEF ExecuteStatement, Refuse, Fault, CommitUnanswered, Interrupt, DeadlockVictim, Deadlocked, WaitsFor, Able
<1>5. Suits(Statement(w), W, N)
  <2>1. Underway(o)
    BY <1>4 DEF Busy, Underway, WorkloadsInv
  <2>2. o.pc \in 1 .. Len(o.script)
    BY <1>3, <2>1 DEF Underway, OperationInv, IsScript
  <2>3. QED
    BY <1>3, <2>2 DEF Suited, Statement
<1>6. Worn(db, db')
  <2>1. CASE ExecuteStatement(w)
    <3>1. db' \in {CommitEffect(w), db, Applied(db, Statement(w), scale)}
      BY <2>1 DEF ExecuteStatement
    <3>2. QED
      BY <1>3, <1>5, <3>1, CommitWorn, AppliedWorn, SameWorn
  <2>2. CASE CommitUnanswered(w)
    <3>1. db' = CommitEffect(w)
      BY <2>2 DEF CommitUnanswered
    <3>2. QED
      BY <1>3, <3>1, CommitWorn
  <2>3. CASE Refuse(w) \/ Fault(w) \/ Interrupt(w) \/ DeadlockVictim(w)
    <3>1. db' = db
      BY <2>3, Zenon DEF Refuse, Fault, Interrupt, DeadlockVictim
    <3>2. QED
      BY <1>3, <3>1, SameWorn
  <2>4. QED
    BY <2>1, <2>2, <2>3
<1>7. q.outcome = "missing" => ~program.loaded
  <2>1. worker'[w] = q
    BY <1>1 DEF WorkloadsInv
  <2>2. ASSUME q.outcome = "missing", program.loaded PROVE FALSE
    <3>1. Refusable(db, Statement(w)) /\ Refusal(db, Statement(w)) = "missing"
      BY <2>1, <2>2, MissingIsRefused
    <3>2. Made(db) /\ scale = "full"
      BY <2>2 DEF DataInv
    <3>3. QED
      BY <1>3, <1>5, <3>1, <3>2, RefusedForAnother
  <2>3. QED
    BY <2>2
<1>8. Suited(q.script, W, N)
  BY <1>1, <1>3
<1>9. QED
  BY <1>1, <1>2, <1>6, <1>7, <1>8, DataWorks

\* Every step of the program and its workers keeps the invariant.
LEMMA DataInvNext == WorkloadsInv /\ DataInv /\ [WorkloadsNext]_workloadsVars => DataInv'
<1> SUFFICES ASSUME WorkloadsInv, DataInv, [WorkloadsNext]_workloadsVars PROVE DataInv'
  OBVIOUS
<1>1. IsData(db)
  BY DEF DataInv
<1>2. CASE TimeIsOver \/ Signal \/ UNCHANGED workloadsVars
  <2>1. UNCHANGED <<plugin, scale, db, worker>> /\ program' \in {program, [program EXCEPT !.signalled = TRUE]}
    BY <1>2 DEF TimeIsOver, Signal, RunUnchanged, workloadsVars
  <2>2. /\ program'.phase = program.phase /\ program'.script = program.script /\ program'.loaded = program.loaded
        /\ program'.rebuilds = program.rebuilds /\ program'.clean = program.clean
        /\ program'.failure = program.failure
    BY <2>1 DEF WorkloadsInv, ProgramFields, Fresh
  <2>3. IsData(db)' /\ (Made(db) => Made(db)')
    BY <2>1 DEF DataInv, IsData, Made
  <2>4. OnCourse(program.script, db) => OnCourse(program.script, db)'
    BY <2>1, <2>2, CoursePrimed
  <2>5. QED
    BY <2>1, <2>2, <2>3, <2>4 DEF DataInv
<1>3. CASE RunReturns \/ GraceOver
  <2>1. /\ UNCHANGED <<plugin, scale, db>> /\ program' = Fresh /\ worker' = [w \in Workers |-> Idle]
    BY <1>3 DEF RunReturns, GraceOver, Exit, RunUnchanged
  <2>2. ~program'.loaded /\ ~program'.rebuilds
    BY <2>1 DEF Fresh
  <2>3. \A w \in Workers : worker'[w] = Idle
    BY <2>1
  <2>4. IsData(db)'
    BY <1>1, <2>1 DEF IsData
  <2>5. QED
    BY <2>2, <2>3, <2>4, IdleSuited DEF DataInv
<1>4. ASSUME NEW w \in Workers, Start(w) PROVE DataInv'
  <2>1. UNCHANGED <<plugin, scale, program, db>> /\ program.phase = "run"
    BY <1>4 DEF Start, RunUnchanged
  <2>2. PICK script \in Operations : worker' = [worker EXCEPT ![w] = [Idle EXCEPT !.pc = 1, !.script = script]]
    BY <1>4 DEF Start
  <2> DEFINE q == [Idle EXCEPT !.pc = 1, !.script = script]
  <2>3. q.script = script /\ q.outcome = "none"
    BY DEF Idle
  <2>4. Suited(script, Tables(plugin), Needed(plugin))
    BY <2>1, OperationsSuited DEF WorkloadsInv
  <2>5. Worn(db, db')
    BY <1>1, <2>1, SameWorn
  <2> HIDE DEF q
  <2>6. worker' = [worker EXCEPT ![w] = q]
    BY <2>2 DEF q
  <2>7. QED
    BY <2>1, <2>3, <2>4, <2>5, <2>6, DataWorks
<1>5. ASSUME NEW w \in Workers, LeaveRun(w) PROVE DataInv'
  <2> DEFINE q == [Idle EXCEPT !.outcome = "left"]
  <2>1. UNCHANGED <<plugin, scale, program, db>> /\ program.phase = "run" /\ worker' = [worker EXCEPT ![w] = q]
    BY <1>5 DEF LeaveRun, RunUnchanged
  <2>2. q.script = Idle.script /\ q.outcome = "left"
    BY DEF Idle
  <2>3. Worn(db, db')
    BY <1>1, <2>1, SameWorn
  <2> HIDE DEF q
  <2>4. QED
    BY <2>1, <2>2, <2>3, IdleSuited, DataWorks
<1>6. ASSUME NEW w \in Workers, Count(w), program.phase = "run" PROVE DataInv'
  <2>1. UNCHANGED <<plugin, scale, program, db>> /\ worker' = [worker EXCEPT ![w] = Idle]
    BY <1>6 DEF Count, RunUnchanged
  <2>2. Worn(db, db')
    BY <1>1, <2>1, SameWorn
  <2>3. QED
    BY <1>6, <2>1, <2>2, IdleSuited, DataWorks
<1>7. QED
  BY <1>2, <1>3, <1>4, <1>5, <1>6, DataInvoked, DataPrepares, DataFails, DataCleanedUp, DataSetUp, DataRunStarts,
     DataOperates DEF WorkloadsNext, Operate

\* A rebuild that meets no fault of its own succeeds on whatever an earlier one, cut off at any statement, or
\* an earlier run has left, for any number of workers, rows, faults and operations.
THEOREM RebuildRecoversAlways == WorkloadsSpec => []RebuildRecovers
<1>1. DataInv => RebuildRecovers
  BY DEF DataInv, RebuildRecovers
<1>2. QED
  BY <1>1, WorkloadsInvAlways, DataInvInit, DataInvNext, PTL DEF WorkloadsSpec

\* After a rebuild in which nothing failed, at a scale that makes a row for every id, no operation of a
\* worker ends for want of a table or a row.
THEOREM PreparedRunsFindAlways == WorkloadsSpec => []PreparedRunsFindTheirRows
<1>1. DataInv => PreparedRunsFindTheirRows
  BY DEF DataInv, PreparedRunsFindTheirRows
<1>2. QED
  BY <1>1, WorkloadsInvAlways, DataInvInit, DataInvNext, PTL DEF WorkloadsSpec

-----------------------------------------------------------------------------
(* Types: the program, the counters and the bounds, besides what the       *)
(* invariants above say of the tables and the operations.                  *)

\* The program, and what bounds the operations and the faults.
ProgramTypes ==
  /\ program.phase \in {"over", "cleanup", "setup", "start", "run"}
  /\ program.failure \in {"none", "fault", "missing", "collision", "arguments", "start"}
  /\ {program.rebuilds, program.isSetUp, program.clean, program.loaded, program.signalled, expired}
         \subseteq BOOLEAN
  /\ faults \in 0 .. MaxFaults
  /\ operations \in 0 .. MaxOperations

\* Nobody goes beyond the end of his script.
WithinScripts == \A w \in Workers : worker[w].pc \in 0 .. Len(worker[w].script)

\* The writes of a well-formed script are on tables of the plugin.
LEMMA WritesAreOfTables ==
  ASSUME NEW o, OperationInv(o), NEW W, NEW N, Suited(o.script, W, N)
  PROVE  o.kept \cup o.pending \subseteq W
<1>1. IsScript(o.script) /\ (Bare(o.script) \/ Transactional(o.script))
  BY DEF OperationInv
<1>2. Writes(o.script) \subseteq W
  BY <1>1 DEF IsScript, Writes, Suited, Suits
<1>3. o.kept \in {{}, Writes(o.script)}
  BY <1>1 DEF OperationInv
<1>4. o.pending = {} \/ (o.outcome = "none" /\ o.pending = WritesBefore(o.script, o.pc) /\ o.pc \in 0 .. Len(o.script))
  BY <1>1 DEF OperationInv
<1>5. ASSUME o.pc \in 0 .. Len(o.script) PROVE WritesBefore(o.script, o.pc) \subseteq W
  <2>1. Len(o.script) \in Nat /\ \A i \in 1 .. o.pc - 1 : i \in 1 .. Len(o.script)
    BY <1>1, <1>5 DEF IsScript
  <2>2. \A i \in 1 .. o.pc - 1 : o.script[i].tables \subseteq W
    BY <2>1 DEF Suited, Suits
  <2>3. QED
    BY <2>2 DEF WritesBefore
<1>6. QED
  BY <1>2, <1>3, <1>4, <1>5

\* The fields of a program that has just been started.
LEMMA FreshTypes ==
  /\ Fresh.failure = "none" /\ Fresh.phase = "over"
  /\ {Fresh.rebuilds, Fresh.isSetUp, Fresh.clean, Fresh.loaded, Fresh.signalled} \subseteq BOOLEAN
BY DEF Fresh

\* Nothing is executed at first.
LEMMA ProgramTypesInit == WorkloadsInit => ProgramTypes /\ WithinScripts
<1> SUFFICES ASSUME WorkloadsInit PROVE ProgramTypes /\ WithinScripts
  OBVIOUS
<1>1. program = Fresh /\ worker = [w \in Workers |-> Idle] /\ expired = FALSE /\ faults = 0 /\ operations = 0
  BY DEF WorkloadsInit
<1>2. \A w \in Workers : worker[w].pc = 0 /\ worker[w].script = <<>>
  BY <1>1 DEF Idle
<1>3. WithinScripts
  BY <1>2 DEF WithinScripts
<1>4. MaxFaults \in Nat /\ MaxOperations \in Nat
  BY WorkloadAssumption
<1>5. ProgramTypes
  <2>1. {program.rebuilds, program.isSetUp, program.clean, program.loaded, program.signalled} \subseteq BOOLEAN
    BY <1>1, FreshTypes
  <2>2. expired \in BOOLEAN
    BY <1>1
  <2>3. faults \in 0 .. MaxFaults /\ operations \in 0 .. MaxOperations
    BY <1>1, <1>4
  <2>4. program.failure = "none" /\ program.phase = "over"
    BY <1>1, FreshTypes
  <2>5. QED
    BY <2>1, <2>2, <2>3, <2>4 DEF ProgramTypes
<1>6. QED
  BY <1>3, <1>5

\* A statement brings its worker no further than to the end of the script.
LEMMA OperationStays ==
  ASSUME WorkloadsInv, NEW w \in Workers,
         ExecuteStatement(w) \/ Refuse(w) \/ Fault(w) \/ CommitUnanswered(w) \/ Interrupt(w) \/ DeadlockVictim(w)
  PROVE  \E q : /\ worker' = [worker EXCEPT ![w] = q]
                /\ q.pc \in 0 .. Len(q.script)
<1> DEFINE o == worker[w]
           Within(q) == q.pc \in 0 .. Len(q.script)
<1> SUFFICES \E q : worker' = [worker EXCEPT ![w] = q] /\ Within(q)
  OBVIOUS
<1>1. Busy(w)
  BY DEF ExecuteStatement, Refuse, Fault, CommitUnanswered, Interrupt, DeadlockVictim, Deadlocked, WaitsFor, Able
<1>2. Underway(o)
  BY <1>1 DEF Busy, Underway, WorkloadsInv
<1>3. DOMAIN o = OperationFields /\ Len(o.script) \in Nat /\ o.pc \in 1 .. Len(o.script)
  BY <1>2 DEF Underway, OperationInv, IsScript
<1> HIDE DEF o
<1>4. ASSUME NEW p, DOMAIN p = OperationFields, p.script = o.script, p.pc = o.pc
      PROVE  /\ \A cause : Within(Stopped(p, cause))
             /\ \A n \in {1, 2} : Within(Continued(p, n))
  <2>1. \A cause : Within(Stopped(p, cause))
    BY <1>3, <1>4, StoppedFields
  <2>2. ASSUME NEW n \in {1, 2} PROVE Within(Continued(p, n))
    <3>1. CASE p.pc + n > Len(p.script)
      <4>1. Continued(p, n) = [p EXCEPT !.outcome = "succeeded"]
        BY <3>1 DEF Continued
      <4>2. Continued(p, n).pc = p.pc /\ Continued(p, n).script = p.script
        BY <1>4, <4>1 DEF OperationFields
      <4>3. QED
        BY <1>3, <1>4, <4>2
    <3>2. CASE ~(p.pc + n > Len(p.script))
      <4>1. Continued(p, n) = [p EXCEPT !.pc = @ + n]
        BY <3>2 DEF Continued
      <4>2. Continued(p, n).pc = p.pc + n /\ Continued(p, n).script = p.script
        BY <1>4, <4>1 DEF OperationFields
      <4>3. QED
        BY <1>3, <1>4, <3>2, <4>2
    <3>3. QED
      BY <3>1, <3>2
  <2>3. QED
    BY <2>1, <2>2
<1>5. \A s : /\ DOMAIN Effect(o, s) = OperationFields
             /\ Effect(o, s).script = o.script /\ Effect(o, s).pc = o.pc
  BY <1>3 DEF Effect, OperationFields
<1>6. DOMAIN Committed(o) = OperationFields /\ Committed(o).script = o.script /\ Committed(o).pc = o.pc
  BY <1>3, CommittedFields
<1>7. ASSUME NEW cause, Errs(w, cause)
      PROVE  \E q : worker' = [worker EXCEPT ![w] = q] /\ Within(q)
  <2>1. \/ worker' = [worker EXCEPT ![w] = Continued(o, 1)]
        \/ worker' = [worker EXCEPT ![w] = Stopped(o, cause)]
    BY <1>7 DEF Errs, o
  <2>2. Within(Continued(o, 1)) /\ Within(Stopped(o, cause))
    BY <1>3, <1>4
  <2> HIDE DEF Within
  <2>3. QED
    BY <2>1, <2>2
<1>8. CASE ExecuteStatement(w)
  <2> DEFINE s == Statement(w)
  <2>1. PICK d \in {Committed(o), Effect(o, s)} : \E n \in {1, 2} :
           \/ worker' = [worker EXCEPT ![w] = Continued(d, n)]
           \/ worker' = [worker EXCEPT ![w] = Stopped(d, "succeeded")]
    BY <1>8 DEF ExecuteStatement, o
  <2>2. DOMAIN d = OperationFields /\ d.script = o.script /\ d.pc = o.pc
    BY <1>5, <1>6
  <2>3. /\ \A n \in {1, 2} : Within(Continued(d, n))
        /\ Within(Stopped(d, "succeeded"))
    BY <1>4, <2>2
  <2> HIDE DEF Within
  <2>4. QED
    BY <2>1, <2>3
<1>9. CASE Refuse(w) \/ Fault(w)
  BY <1>7, <1>9 DEF Refuse, Fault
<1>10. CASE CommitUnanswered(w)
  <2>1. worker' = [worker EXCEPT ![w] = Stopped(Committed(o), "unanswered")]
    BY <1>10 DEF CommitUnanswered, o
  <2>2. Within(Stopped(Committed(o), "unanswered"))
    BY <1>4, <1>6
  <2> HIDE DEF Within
  <2>3. QED
    BY <2>1, <2>2
<1>11. CASE Interrupt(w) \/ DeadlockVictim(w)
  <2>1. \E cause : worker' = [worker EXCEPT ![w] = Stopped(o, cause)]
    BY <1>11 DEF Interrupt, DeadlockVictim, o
  <2>2. \A cause : Within(Stopped(o, cause))
    BY <1>3, <1>4
  <2> HIDE DEF Within
  <2>3. QED
    BY <2>1, <2>2
<1>12. QED
  BY <1>8, <1>9, <1>10, <1>11

\* One worker changes.
LEMMA OneStaysWithin ==
  ASSUME WorkloadsInv, WithinScripts, NEW w \in Workers, NEW q, worker' = [worker EXCEPT ![w] = q],
         q.pc \in 0 .. Len(q.script)
  PROVE  WithinScripts'
<1>1. \A v \in Workers : worker'[v] = IF v = w THEN q ELSE worker[v]
  BY DEF WorkloadsInv
<1>2. QED
  BY <1>1 DEF WithinScripts

\* Every step keeps the workers within their scripts.
LEMMA WithinNext == WorkloadsInv /\ WithinScripts /\ [WorkloadsNext]_workloadsVars => WithinScripts'
<1> SUFFICES ASSUME WorkloadsInv, WithinScripts, [WorkloadsNext]_workloadsVars PROVE WithinScripts'
  OBVIOUS
<1>1. CASE worker' = worker
  BY <1>1 DEF WithinScripts
<1>2. Idle.pc = 0 /\ Idle.script = <<>>
  BY DEF Idle
<1>3. CASE RunReturns \/ GraceOver
  <2>1. \A w \in Workers : worker'[w] = Idle
    BY <1>3 DEF RunReturns, GraceOver, Exit
  <2>2. QED
    BY <1>2, <2>1 DEF WithinScripts
<1>4. ASSUME NEW w \in Workers, Start(w) PROVE WithinScripts'
  <2>1. program.phase = "run" /\ \E script \in Operations :
           worker' = [worker EXCEPT ![w] = [Idle EXCEPT !.pc = 1, !.script = script]]
    BY <1>4 DEF Start
  <2>2. PICK script \in Operations : worker' = [worker EXCEPT ![w] = [Idle EXCEPT !.pc = 1, !.script = script]]
    BY <2>1
  <2> DEFINE q == [Idle EXCEPT !.pc = 1, !.script = script]
  <2>3. q.pc = 1 /\ q.script = script
    BY DEF Idle
  <2>4. Len(script) \in Nat /\ Len(script) > 0
    BY <2>1, OperationsFormed DEF WorkloadsInv, WellFormed, IsScript
  <2> HIDE DEF q
  <2>5. worker' = [worker EXCEPT ![w] = q] /\ q.pc \in 0 .. Len(q.script)
    BY <2>2, <2>3, <2>4 DEF q
  <2>6. QED
    BY <2>5, OneStaysWithin
<1>5. ASSUME NEW w \in Workers, LeaveRun(w) \/ Count(w) PROVE WithinScripts'
  <2>1. PICK q \in {Idle, [Idle EXCEPT !.outcome = "left"]} : worker' = [worker EXCEPT ![w] = q]
    BY <1>5 DEF LeaveRun, Count
  <2>2. q.pc = 0 /\ q.script = <<>>
    BY DEF Idle
  <2>3. q.pc \in 0 .. Len(q.script)
    BY <2>2
  <2>4. QED
    BY <2>1, <2>3, OneStaysWithin
<1>6. ASSUME NEW w \in Workers,
             ExecuteStatement(w) \/ Refuse(w) \/ Fault(w) \/ CommitUnanswered(w) \/ Interrupt(w) \/ DeadlockVictim(w)
      PROVE  WithinScripts'
  BY <1>6, OperationStays, OneStaysWithin
<1>7. CASE \/ Rebuild \/ SetupOnly \/ NoSetup \/ Prepares \/ PreparationFails \/ CleanedUp \/ SetUp
           \/ RunStarts \/ TimeIsOver \/ Signal \/ UNCHANGED workloadsVars
  BY <1>1, <1>7, Zenon DEF Rebuild, SetupOnly, NoSetup, Invoke, Prepares, PreparationFails, CleanedUp, SetUp,
     RunStarts, PreparedUnchanged, TimeIsOver, Signal, workloadsVars
<1>8. QED
  BY <1>3, <1>4, <1>5, <1>6, <1>7 DEF WorkloadsNext, Operate

\* The program changes, and neither counter does.
LEMMA ProgramTypesKept ==
  ASSUME ProgramTypes, UNCHANGED <<expired, faults, operations>>,
         program'.phase \in {"over", "cleanup", "setup", "start", "run"},
         program'.failure \in {"none", "fault", "missing", "collision", "arguments", "start"},
         {program'.rebuilds, program'.isSetUp, program'.clean, program'.loaded, program'.signalled} \subseteq BOOLEAN
  PROVE  ProgramTypes'
BY DEF ProgramTypes

\* Every step keeps the types of the program, and the counters within their bounds.
LEMMA ProgramTypesNext == WorkloadsInv /\ ProgramTypes /\ [WorkloadsNext]_workloadsVars => ProgramTypes'
<1> SUFFICES ASSUME WorkloadsInv, ProgramTypes, [WorkloadsNext]_workloadsVars PROVE ProgramTypes'
  OBVIOUS
<1>1. /\ DOMAIN program = ProgramFields
      /\ {"phase", "script", "failure", "mode", "rebuilds", "isSetUp", "clean", "loaded", "signalled"} = ProgramFields
  BY DEF WorkloadsInv, ProgramFields, Fresh
<1>2. /\ program.failure \in {"none", "fault", "missing", "collision", "arguments", "start"}
      /\ program.phase \in {"over", "cleanup", "setup", "start", "run"}
      /\ program.rebuilds \in BOOLEAN /\ program.isSetUp \in BOOLEAN /\ program.clean \in BOOLEAN
      /\ program.loaded \in BOOLEAN /\ program.signalled \in BOOLEAN /\ expired \in BOOLEAN
      /\ faults \in 0 .. MaxFaults /\ operations \in 0 .. MaxOperations
      /\ MaxFaults \in Nat /\ MaxOperations \in Nat
  BY WorkloadAssumption DEF ProgramTypes
<1>3. CASE Rebuild \/ SetupOnly \/ NoSetup
  <2>1. PICK phase \in {"cleanup", "setup", "start"}, rebuilds \in BOOLEAN : \E script : Begins(phase, script, rebuilds)
    BY <1>3 DEF Rebuild, SetupOnly, NoSetup
  <2>2. UNCHANGED <<expired, faults, operations>>
    BY <1>3 DEF Rebuild, SetupOnly, NoSetup, Invoke
  <2>3. /\ program'.phase = phase /\ program'.failure = "none" /\ program'.rebuilds = rebuilds
        /\ {program'.isSetUp, program'.clean, program'.loaded, program'.signalled} \subseteq BOOLEAN
    BY <2>1 DEF Begins, Fresh
  <2>4. QED
    BY <2>2, <2>3, ProgramTypesKept
<1>4. CASE Prepares
  <2>1. \E n \in {Len(program.script), 1, 2} : Goes(n)
    BY <1>4 DEF Prepares
  <2>2. PICK script : program' = [program EXCEPT !.script = script]
    BY <2>1 DEF Goes
  <2>3. UNCHANGED <<expired, faults, operations>>
    BY <1>4 DEF Prepares, PreparedUnchanged
  <2>4. QED
    BY <1>1, <1>2, <2>2, <2>3, ProgramTypesKept
<1>5. CASE PreparationFails
  <2> DEFINE s == Head(program.script)
             refused == Impossible(db, s)
  <2>1. /\ \/ program' = [program EXCEPT !.script = Tail(@), !.clean = @ /\ refused]
           \/ program' = [program EXCEPT !.phase = "over", !.script = <<>>, !.clean = @ /\ refused,
                                    !.failure = IF refused THEN Refusal(db, s) ELSE "fault"]
        /\ faults' = faults \/ (faults < MaxFaults /\ faults' = faults + 1)
    BY <1>5 DEF PreparationFails
  <2>2. UNCHANGED <<expired, operations>>
    BY <1>5 DEF PreparationFails, PreparedUnchanged
  <2>3. Refusal(db, s) \in {"arguments", "collision", "missing"}
    BY DEF Refusal
  <2> HIDE DEF s, refused
  <2>4. /\ program'.phase \in {"over", "cleanup", "setup", "start", "run"}
        /\ program'.failure \in {"none", "fault", "missing", "collision", "arguments", "start"}
        /\ program'.rebuilds = program.rebuilds /\ program'.isSetUp = program.isSetUp
        /\ program'.loaded = program.loaded /\ program'.signalled = program.signalled
    BY <1>1, <1>2, <2>1, <2>3
  <2>5. program'.clean = (program.clean /\ refused)
    BY <1>1, <2>1
  <2>6. program'.clean \in BOOLEAN
    BY <2>5
  <2>7. faults' \in 0 .. MaxFaults
    BY <1>2, <2>1
  <2>8. QED
    BY <1>2, <2>2, <2>4, <2>6, <2>7 DEF ProgramTypes
<1>6. CASE CleanedUp \/ RunStarts
  <2>1. UNCHANGED <<expired, faults, operations>>
    BY <1>6 DEF CleanedUp, RunStarts, PreparedUnchanged
  <2>2. \/ \E script : program' = [program EXCEPT !.phase = "setup", !.script = script]
        \/ \E m : program' = [Fresh EXCEPT !.phase = "run", !.mode = m, !.loaded = program.loaded]
        \/ program' = [program EXCEPT !.phase = "over", !.failure = "start"]
    BY <1>6 DEF CleanedUp, RunStarts
  <2>3. CASE \E m : program' = [Fresh EXCEPT !.phase = "run", !.mode = m, !.loaded = program.loaded]
    <3>1. /\ program'.phase = "run" /\ program'.failure = "none" /\ program'.loaded = program.loaded
          /\ {program'.rebuilds, program'.isSetUp, program'.clean, program'.signalled} \subseteq BOOLEAN
      BY <2>3 DEF Fresh
    <3>2. QED
      BY <1>2, <2>1, <3>1, ProgramTypesKept
  <2>4. CASE \/ \E script : program' = [program EXCEPT !.phase = "setup", !.script = script]
             \/ program' = [program EXCEPT !.phase = "over", !.failure = "start"]
    BY <1>1, <1>2, <2>1, <2>4, ProgramTypesKept
  <2>5. QED
    BY <2>2, <2>3, <2>4
<1>7. CASE SetUp
  <2>1. UNCHANGED <<expired, faults, operations>>
    BY <1>7 DEF SetUp, PreparedUnchanged
  <2>2. program' = [program EXCEPT !.phase = "start", !.isSetUp = TRUE,
                            !.loaded = program.rebuilds /\ program.clean /\ scale = "full"]
    BY <1>7 DEF SetUp
  <2>3. /\ program'.phase = "start" /\ program'.failure = program.failure /\ program'.isSetUp = TRUE
        /\ program'.rebuilds = program.rebuilds /\ program'.clean = program.clean
        /\ program'.signalled = program.signalled
        /\ program'.loaded = (program.rebuilds /\ program.clean /\ scale = "full")
    BY <1>1, <2>2
  <2>4. program'.loaded \in BOOLEAN
    BY <2>3
  <2>5. QED
    BY <1>2, <2>1, <2>3, <2>4, ProgramTypesKept
<1>8. CASE TimeIsOver \/ Signal
  <2>1. expired' = TRUE /\ UNCHANGED <<faults, operations>>
        /\ program' \in {program, [program EXCEPT !.signalled = TRUE]}
    BY <1>8 DEF TimeIsOver, Signal
  <2>2. QED
    BY <1>1, <1>2, <2>1 DEF ProgramTypes
<1>9. CASE RunReturns \/ GraceOver
  <2>1. program' = Fresh /\ expired' = FALSE /\ UNCHANGED <<faults, operations>>
    BY <1>9 DEF RunReturns, GraceOver, Exit
  <2>2. QED
    BY <1>2, <2>1, FreshTypes DEF ProgramTypes
<1>10. ASSUME NEW w \in Workers, Start(w) PROVE ProgramTypes'
  <2>1. UNCHANGED <<program, expired, faults>> /\ operations + faults < MaxOperations /\ operations' = operations + 1
    BY <1>10 DEF Start
  <2>2. operations' \in 0 .. MaxOperations
    BY <1>2, <2>1
  <2>3. QED
    BY <2>1, <2>2 DEF ProgramTypes
<1>11. ASSUME NEW w \in Workers, LeaveRun(w) \/ Operate(w) PROVE ProgramTypes'
  <2>1. UNCHANGED <<program, expired, operations>>
    BY <1>11, Zenon DEF LeaveRun, Operate, ExecuteStatement, Refuse, Fault, CommitUnanswered, Interrupt,
       DeadlockVictim, Count
  <2>2. faults' \in {faults, faults + 1} /\ (faults' # faults => faults < MaxFaults)
    BY <1>11 DEF LeaveRun, Operate, ExecuteStatement, Refuse, Fault, CommitUnanswered, Interrupt,
       DeadlockVictim, Count
  <2>3. faults' \in 0 .. MaxFaults
    BY <1>2, <2>2
  <2>4. QED
    BY <2>1, <2>3 DEF ProgramTypes
<1>12. CASE UNCHANGED workloadsVars
  BY <1>12 DEF workloadsVars, ProgramTypes
<1>13. QED
  BY <1>3, <1>4, <1>5, <1>6, <1>7, <1>8, <1>9, <1>10, <1>11, <1>12 DEF WorkloadsNext

\* Whatever is executed and fails: the tables are those of the plugin, each with a status; nobody goes beyond
\* the end of his script; and what an operation has written is in those tables.
THEOREM WorkloadsTyped == WorkloadsSpec => []WorkloadsTypeOK
<1>1. ASSUME WorkloadsInv, DataInv, ProgramTypes, WithinScripts PROVE WorkloadsTypeOK
  <2>1. plugin \in Plugins /\ scale \in {"full", "short"} /\ db \in [Tables(plugin) -> Statuses]
    BY <1>1 DEF DataInv, IsData, IsDatabase
  <2>2. ASSUME NEW w \in Workers
        PROVE  /\ worker[w].pc \in 0 .. Len(worker[w].script) + 1
               /\ worker[w].kept \cup worker[w].pending \subseteq Tables(plugin)
    <3>1. OperationInv(worker[w]) /\ Suited(worker[w].script, Tables(plugin), Needed(plugin))
      BY <1>1 DEF WorkloadsInv, DataInv
    <3>2. worker[w].kept \cup worker[w].pending \subseteq Tables(plugin)
      BY <3>1, WritesAreOfTables
    <3>3. Len(worker[w].script) \in Nat /\ worker[w].pc \in 0 .. Len(worker[w].script)
      BY <1>1, <3>1 DEF WithinScripts, OperationInv, IsScript
    <3>4. QED
      BY <3>2, <3>3
  <2>3. QED
    BY <1>1, <2>1, <2>2 DEF WorkloadsTypeOK, ProgramTypes
<1>2. WorkloadsSpec => [](WorkloadsInv /\ DataInv)
  BY WorkloadsInvAlways, DataInvInit, DataInvNext, PTL DEF WorkloadsSpec
<1>3. QED
  BY <1>1, <1>2, ProgramTypesInit, ProgramTypesNext, WithinNext, PTL DEF WorkloadsSpec
=============================================================================
