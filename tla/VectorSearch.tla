---------------------------- MODULE VectorSearch ----------------------------
(***************************************************************************)
(* The pgvector plugin: two tables, a load with given ids, and five tests. *)
(* The connection that a worker keeps for the whole of a test is left out. *)
(***************************************************************************)
EXTENDS SqlOperation

Tables == {"pgvector_test", "pgvector_ground_truth"}

---------------------------------------------------------------------------
(* Setup and Cleanup. *)

(* The extension is looked up, or created. *)
ensurePgVectorExtension == <<Try(Plain), Plain>>

createTestTables ==
    << CreateIfNotExists("pgvector_test", {}), CreateIfNotExists("pgvector_ground_truth", {}) >>

(* Every Setup loads the rows from 1 to BaselineRows, filled tables or not. *)
loadBaselineData == Copy("pgvector_test", {})

(* The vectors of loadPrecomputedVectors are in a file and in memory only. *)
Setup(db) == {ensurePgVectorExtension \o createTestTables \o <<loadBaselineData>>}

(* A table that could not be dropped is only warned of. *)
Cleanup ==
    << Ignored(DropIfExists("pgvector_test")), Ignored(DropIfExists("pgvector_ground_truth")) >>

---------------------------------------------------------------------------
(* The tests. *)

(* The ids come from a sequence, which the COPY of given ids has not moved. *)
runSingleInsertTest == One(InsertNext("pgvector_test"))

(* The inserts of a batch are one transaction of the server. *)
runBatchInsertTest == One(InsertNext("pgvector_test"))
runCopyInsertTest == One(InsertNext("pgvector_test"))
runUpdateTest == One(Update("pgvector_test"))
runReadTest == One(Read({"pgvector_test"}))

(* parseWorkloadType: the test and the method of each type of workload. *)
Modes == {"single", "batch", "copy", "update", "read"}

runIngestionTest(method) ==
    CASE method = "single" -> runSingleInsertTest
      [] method = "batch" -> runBatchInsertTest
      [] method = "copy" -> runCopyInsertTest

(* What a worker draws from. *)
Operations(mode) ==
    CASE mode = "update" -> runUpdateTest
      [] mode = "read" -> runReadTest
      [] OTHER -> runIngestionTest(mode)

(* The type of the test is parsed by Setup only; the update test wants a row. *)
Runs(mode, isSetUp, db) ==
    isSetUp /\ (mode = "update" => HasRows(db, "pgvector_test"))

(* All tests but this one return when their workers have been started. *)
Waits(mode) == mode = "copy"
=============================================================================
