--------------------------- MODULE TestExecution ----------------------------
(***************************************************************************)
(* TestExecutionUseCase of internal/core/usecases: one test that runs its  *)
(* bands, and callers that cancel it.  Both write the record of the test   *)
(* in the repository, from copies, and the repository may fail.            *)
(***************************************************************************)
EXTENDS Naturals, FiniteSets

CONSTANTS Cancellers, Bands

ASSUME ExecutionAssumption == Bands \in Nat \ {0}

VARIABLES execution,      \* ExecuteTest: pc and bands measured
          status,         \* ExecutionContext.Status
          active,         \* the test is in activeExecutions
          cancelled,      \* its context has ended
          lateBands,      \* bands started since
          collecting,     \* of the metrics collector
          record,         \* the record in the repository
          savedResults,   \* StoreResults was called and succeeded
          canceller,      \* pc and copy of the record of each
          repoFailed      \* some call of the repository has failed

executionVars == <<execution, status, active, cancelled, lateBands, collecting, record,
                   savedResults, canceller, repoFailed>>

NoRecord == [status |-> "none", results |-> FALSE]
Final == {"completed", "failed", "cancelled"}
Records == [status : {"none", "running"} \cup Final, results : BOOLEAN]

ExecutionTypeOK ==
    /\ execution \in [pc : {"called", "registered", "check", "start", "run", "measured",
                            "store", "results", "failing", "failed", "returned"},
                      bands : 0 .. Bands, copy : Records]
    /\ status \in {"running"} \cup Final
    /\ {active, cancelled, collecting, savedResults, repoFailed} \subseteq BOOLEAN
    /\ lateBands \in Nat
    /\ record \in Records
    /\ canceller \in [Cancellers -> [pc : {"out", "mark", "get", "store"}, copy : Records]]

ExecutionInit ==
    /\ execution = [pc |-> "called", bands |-> 0, copy |-> NoRecord]
    /\ status = "running" /\ active = FALSE /\ cancelled = FALSE /\ lateBands = 0
    /\ collecting = FALSE /\ record = NoRecord /\ savedResults = FALSE
    /\ canceller = [c \in Cancellers |-> [pc |-> "out", copy |-> NoRecord]]
    /\ repoFailed = FALSE

(* A call of the repository stores the record, or fails and is at most logged. *)
Stores(r) ==
    \/ record' = r /\ UNCHANGED repoFailed
    \/ repoFailed' = TRUE /\ UNCHANGED record

Goes(from, to) == execution.pc = from /\ execution' = [execution EXCEPT !.pc = to]
Returns(from) == Goes(from, "returned") /\ active' = FALSE

---------------------------------------------------------------------------
(* ExecuteTest. *)

ConfigurationRefused ==
    /\ Goes("called", "returned")
    /\ UNCHANGED <<status, active, cancelled, lateBands, collecting, record, savedResults,
                   canceller, repoFailed>>

Register ==
    /\ Goes("called", "registered")
    /\ active' = TRUE
    /\ UNCHANGED <<status, cancelled, lateBands, collecting, record, savedResults, canceller,
                   repoFailed>>

StoreRunning ==
    /\ \/ Goes("registered", "check") /\ record' = [status |-> "running", results |-> FALSE]
          /\ UNCHANGED <<active, repoFailed>>
       \/ Returns("registered") /\ repoFailed' = TRUE /\ UNCHANGED record
    /\ UNCHANGED <<status, cancelled, lateBands, collecting, savedResults, canceller>>

CheckContext ==
    /\ Goes("check", IF cancelled THEN "failing" ELSE "start")
    /\ UNCHANGED <<status, active, cancelled, lateBands, collecting, record, savedResults,
                   canceller, repoFailed>>

(* The workload is not in the registry, or the collection starts. *)
StartBand ==
    /\ \/ Goes("start", "failing") /\ UNCHANGED <<collecting, lateBands>>
       \/ /\ Goes("start", "run") /\ collecting' = TRUE
          /\ lateBands' = lateBands + (IF cancelled THEN 1 ELSE 0)
    /\ UNCHANGED <<status, active, cancelled, record, savedResults, canceller, repoFailed>>

(* Run returns with an error or without one, of a context that has ended too; the
   collection is stopped in both cases. *)
BandEnds ==
    /\ collecting' = FALSE
    /\ \/ Goes("run", "failing")
       \/ execution.pc = "run"
          /\ execution' = [execution EXCEPT !.pc = "measured", !.bands = @ + 1]
    /\ UNCHANGED <<status, active, cancelled, lateBands, record, savedResults, canceller,
                   repoFailed>>

BandKept ==
    /\ Goes("measured", IF execution.bands = Bands THEN "store" ELSE "check")
    /\ UNCHANGED <<status, active, cancelled, lateBands, collecting, record, savedResults,
                   canceller, repoFailed>>

(* ExecuteTest stores its own copy, whatever the record has become. *)
StoreCompleted ==
    /\ Goes("store", "results")
    /\ Stores([status |-> "completed", results |-> TRUE])
    /\ UNCHANGED <<status, active, cancelled, lateBands, collecting, savedResults, canceller>>

StoreResults ==
    /\ Returns("results")
    /\ \/ savedResults' = TRUE /\ UNCHANGED repoFailed
       \/ repoFailed' = TRUE /\ UNCHANGED savedResults
    /\ UNCHANGED <<status, cancelled, lateBands, collecting, record, canceller>>

(* updateExecutionStatus with Failed: the record is read, and stored later. *)
ReadToFail ==
    /\ status' = "failed"
    /\ \/ /\ execution.pc = "failing"
          /\ execution' = [execution EXCEPT !.pc = "failed", !.copy = record]
          /\ UNCHANGED <<active, repoFailed>>
       \/ Returns("failing") /\ repoFailed' = TRUE
    /\ UNCHANGED <<cancelled, lateBands, collecting, record, savedResults, canceller>>

StoreFailedForgotten ==
    /\ Returns("failed")
    /\ UNCHANGED <<status, cancelled, lateBands, collecting, record, savedResults, canceller,
                   repoFailed>>

StoreFailed ==
    /\ Returns("failed")
    /\ Stores([execution.copy EXCEPT !.status = "failed"])
    /\ UNCHANGED <<status, cancelled, lateBands, collecting, savedResults, canceller>>

ExecuteTest ==
    \/ ConfigurationRefused \/ Register \/ StoreRunning \/ CheckContext \/ StartBand
    \/ BandEnds \/ BandKept \/ StoreCompleted \/ StoreResults \/ ReadToFail \/ StoreFailed

---------------------------------------------------------------------------
(* CancelExecution.  A caller knows the identifier of the test from its record. *)

CancelExecution(c) ==
    /\ canceller[c].pc = "out" /\ active /\ record # NoRecord
    /\ cancelled' = TRUE
    /\ canceller' = [canceller EXCEPT ![c].pc = "mark"]
    /\ UNCHANGED <<execution, status, active, lateBands, collecting, record, savedResults,
                   repoFailed>>

MarkCancelled(c) ==
    /\ canceller[c].pc = "mark"
    /\ IF active
       THEN status' = "cancelled" /\ canceller' = [canceller EXCEPT ![c].pc = "get"]
       ELSE canceller' = [canceller EXCEPT ![c].pc = "out"] /\ UNCHANGED status
    /\ UNCHANGED <<execution, active, cancelled, lateBands, collecting, record, savedResults,
                   repoFailed>>

ReadToCancel(c) ==
    /\ canceller[c].pc = "get"
    /\ \/ canceller' = [canceller EXCEPT ![c] = [pc |-> "store", copy |-> record]]
          /\ UNCHANGED repoFailed
       \/ canceller' = [canceller EXCEPT ![c].pc = "out"] /\ repoFailed' = TRUE
    /\ UNCHANGED <<execution, status, active, cancelled, lateBands, collecting, record,
                   savedResults>>

StoreCancelled(c) ==
    /\ canceller[c].pc = "store"
    /\ canceller' = [canceller EXCEPT ![c].pc = "out"]
    /\ Stores([canceller[c].copy EXCEPT !.status = "cancelled"])
    /\ UNCHANGED <<execution, status, active, cancelled, lateBands, collecting, savedResults>>

Cancel(c) == CancelExecution(c) \/ MarkCancelled(c) \/ ReadToCancel(c) \/ StoreCancelled(c)

ExecutionNext == ExecuteTest \/ \E c \in Cancellers : Cancel(c)

ExecutionSpec == ExecutionInit /\ [][ExecutionNext]_executionVars

---------------------------------------------------------------------------
(* A record that says completed is of a test with all its bands, and has its results;
   one that says failed has none; and results are saved of such a test only. *)
ResultsAreOfWholeTests ==
    /\ record.status = "completed" => execution.bands = Bands /\ record.results
    /\ record.status = "failed" => ~record.results
    /\ savedResults => execution.bands = Bands

(* A test that has returned leaves no record that says it runs, whatever cancellations
   raced it, unless the repository failed; and no collection goes on. *)
ReturnedTestsAreOver ==
    execution.pc = "returned" => /\ ~active /\ ~collecting
                                 /\ record.status = "running" => repoFailed

(* The band that was about to start when the test was cancelled is the last to start. *)
CancelStopsTheBands == lateBands <= 1

(* The use case under cancellation (test_execution.go). *)
ExecutionConsistent ==
    ExecutionTypeOK /\ ResultsAreOfWholeTests /\ ReturnedTestsAreOver /\ CancelStopsTheBands
=============================================================================
