------------------------------ MODULE Checkpoint ------------------------------
(***************************************************************************)
(* Checkpoints of a test (internal/resilience/checkpoint.go): a            *)
(* ProgressTracker that creates one after each change, the goroutines of   *)
(* StartPeriodicCheckpoints that save copies of the current one, the       *)
(* files, a crash of the process, and the restore after it.                *)
(***************************************************************************)
EXTENDS Integers, Sequences, FiniteSets, SequencesExt

CONSTANTS
  Routines,      \* one for each call of StartPeriodicCheckpoints
  MaxFiles,
  TotalBands,
  MaxStamps,     \* bound: checkpoints made
  MaxFaults      \* bound: saves that fail after os.Create

ASSUME CheckpointAssumption ==
  /\ IsFiniteSet(Routines) /\ "tracker" \notin Routines
  /\ MaxFiles \in Nat
  /\ {TotalBands, MaxStamps, MaxFaults} \subseteq Nat

VARIABLES
  status, bands,   \* ProgressTracker.state.Status, the number of CompletedBands
  current,         \* CheckpointManager.currentCheckpoint
  files,           \* the files, the last modified one last
  stamps,          \* the last Timestamp given to a checkpoint
  faults,          \* saves that failed
  saving, ck,      \* where each saver is, and the checkpoint it saves
  doomed,          \* what cleanupOldCheckpoints is going to remove
  acked,           \* the last checkpoint CreateCheckpoint returned nil for
  restored         \* what RestoreFromCheckpoint returned

tracker == <<status, bands>>
disk    == <<files, faults>>
savers  == <<saving, ck, doomed>>
checkpointVars == <<tracker, current, disk, stamps, savers, acked, restored>>

Savers == Routines \cup {"tracker"}

\* A checkpoint: its Timestamp (its ID is made from the clock too) and what it
\* says of the test.
None == [stamp |-> 0, status |-> "none", bands |-> 0]

\* InitializeTest has been called, and the routines are started.
CheckpointInit ==
  /\ status = "running" /\ bands = 0
  /\ current = None
  /\ files = <<>> /\ faults = 0
  /\ stamps = 0
  /\ saving = [s \in Savers |-> "idle"]
  /\ ck = [s \in Savers |-> None]
  /\ doomed = {}
  /\ acked = None
  /\ restored = "not called"

Goto(s, from, to) == saving[s] = from /\ saving' = [saving EXCEPT ![s] = to]

File(c, complete) == [ck |-> c, complete |-> complete]
Others(s) == RemoveFirstMatch(files, LAMBDA f : f.ck.stamp = ck[s].stamp)

\* ListCheckpoints: the files that can be decoded.
Listed == {files[i].ck : i \in {i \in DOMAIN files : files[i].complete}}

-----------------------------------------------------------------------------
\* createProgressCheckpoint, called with the tracker's lock held: the checkpoint
\* gets its Timestamp before the lock of the manager is taken.
CreateCheckpoint(newStatus, newBands) ==
  /\ stamps < MaxStamps
  /\ Goto("tracker", "idle", "made")
  /\ status' = newStatus /\ bands' = newBands
  /\ stamps' = stamps + 1
  /\ ck' = [ck EXCEPT !["tracker"] = [stamp |-> stamps + 1, status |-> newStatus, bands |-> newBands]]
  /\ UNCHANGED <<current, disk, doomed, acked, restored>>

\* Then it becomes the current one, before it is saved; the routines may have
\* copied the one before it meanwhile, any number of times.
SetCurrent ==
  /\ Goto("tracker", "made", "stamped")
  /\ current' = ck["tracker"]
  /\ UNCHANGED <<tracker, disk, stamps, ck, doomed, acked, restored>>

-----------------------------------------------------------------------------
(* Plausible mistakes, each of which one of the properties is there to     *)
(* catch.                                                                  *)

\* One checkpoint too many is removed.
ListOldOffByOne ==
  /\ Goto("tracker", "written", "removing")
  /\ doomed' = {c \in Listed : Cardinality({d \in Listed : d.stamp > c.stamp}) >= MaxFiles - 1}
  /\ UNCHANGED <<tracker, current, disk, stamps, ck, acked, restored>>

-----------------------------------------------------------------------------
\* The tracker's operations.  UpdateProgress saves when updateInterval is over;
\* the test runs TotalBands bands.
UpdateProgress == CreateCheckpoint(status, bands)
CompleteBand   == bands < TotalBands /\ CreateCheckpoint(status, bands + 1)
HandleError    == \E s \in {"failed", status} : CreateCheckpoint(s, bands)
CompleteTest   == CreateCheckpoint("completed", bands)

Track == UpdateProgress \/ CompleteBand \/ HandleError \/ CompleteTest

\* A tick of a checkpointRoutine: read the current checkpoint under the lock,
\* then copy it and give the copy a Timestamp of its own.
RoutineRead(r) ==
  /\ current.status = "running"
  /\ Goto(r, "idle", "read")
  /\ ck' = [ck EXCEPT ![r] = current]
  /\ UNCHANGED <<tracker, current, disk, stamps, doomed, acked, restored>>

RoutineStamp(r) ==
  /\ stamps < MaxStamps
  /\ Goto(r, "read", "stamped")
  /\ stamps' = stamps + 1
  /\ ck' = [ck EXCEPT ![r].stamp = stamps + 1]
  /\ UNCHANGED <<tracker, current, disk, doomed, acked, restored>>

\* saveCheckpoint: os.Create, and then one write of the whole encoding.
CreateFile(s) ==
  /\ Goto(s, "stamped", "created")
  /\ files' = Append(Others(s), File(ck[s], FALSE))
  /\ UNCHANGED <<tracker, current, stamps, faults, ck, doomed, acked, restored>>

WriteFile(s) ==
  /\ Goto(s, "created", IF s = "tracker" THEN "written" ELSE "idle")
  /\ files' = Append(Others(s), File(ck[s], TRUE))
  /\ UNCHANGED <<tracker, current, stamps, faults, ck, doomed, acked, restored>>

\* Encode returns an error (a Progress that is no number, a full disk): the
\* empty file stays, CreateCheckpoint returns the error without a cleanup.
EncodeFails(s) ==
  /\ faults < MaxFaults
  /\ Goto(s, "created", "idle")
  /\ faults' = faults + 1
  /\ UNCHANGED <<tracker, current, files, stamps, ck, doomed, acked, restored>>

\* cleanupOldCheckpoints: all but the MaxFiles newest by Timestamp.
ListOld ==
  /\ Goto("tracker", "written", "removing")
  /\ doomed' = {c \in Listed : Cardinality({d \in Listed : d.stamp > c.stamp}) >= MaxFiles}
  /\ UNCHANGED <<tracker, current, disk, stamps, ck, acked, restored>>

RemoveOld ==
  /\ saving["tracker"] = "removing"
  /\ \E c \in doomed :
       /\ \A d \in doomed : d.stamp <= c.stamp
       /\ files' = RemoveFirstMatch(files, LAMBDA f : f.ck = c)
       /\ doomed' = doomed \ {c}
  /\ UNCHANGED <<tracker, current, stamps, faults, saving, ck, acked, restored>>

\* CreateCheckpoint returns nil.
Created ==
  /\ doomed = {}
  /\ Goto("tracker", "removing", "idle")
  /\ acked' = ck["tracker"]
  /\ UNCHANGED <<tracker, current, disk, stamps, ck, doomed, restored>>

\* The process ends, at any point; the next one calls RestoreFromCheckpoint,
\* which takes the last modified file.
CrashAndRestore ==
  /\ restored = "not called"
  /\ IF files # <<>> /\ files[Len(files)].complete
     THEN restored' = "done" /\ current' = files[Len(files)].ck
     ELSE restored' = "failed" /\ current' = None
  /\ saving' = [s \in Savers |-> "gone"]
  /\ doomed' = {}
  /\ UNCHANGED <<tracker, disk, stamps, ck, acked>>

CheckpointNext ==
  \/ Track \/ SetCurrent \/ ListOld \/ RemoveOld \/ Created \/ CrashAndRestore
  \/ \E r \in Routines : RoutineRead(r) \/ RoutineStamp(r)
  \/ \E s \in Savers : CreateFile(s) \/ WriteFile(s) \/ EncodeFails(s)

CheckpointSpec == CheckpointInit /\ [][CheckpointNext]_checkpointVars

-----------------------------------------------------------------------------
Checkpoints ==
  [stamp : 0 .. MaxStamps, status : {"none", "running", "failed", "completed"},
   bands : 0 .. TotalBands]

CheckpointTypeOK ==
  /\ status \in {"running", "failed", "completed"}
  /\ bands \in 0 .. TotalBands
  /\ files \in Seq([ck : Checkpoints, complete : BOOLEAN])
  /\ {current, acked} \cup doomed \subseteq Checkpoints
  /\ stamps \in 0 .. MaxStamps
  /\ faults \in 0 .. MaxFaults
  /\ saving \in [Savers -> {"idle", "read", "made", "stamped", "created", "written", "removing", "gone"}]
  /\ ck \in [Savers -> Checkpoints]
  /\ restored \in {"not called", "done", "failed"}

\* A checkpoint is on the disk, or as many newer ones as are to be kept.
Kept(c) == c \in Listed \/ Cardinality({d \in Listed : d.stamp > c.stamp}) >= MaxFiles

\* What CreateCheckpoint has returned nil for stays on the disk until MaxFiles whole
\* files with later Timestamps are there: no cleanup, crash in it, failed save or
\* routine takes it earlier.  Those files may all be copies of an older state, made
\* between the Timestamp and the replacement of the current checkpoint, so that it
\* does not follow that the state, or a later one, is kept.
AckedIsKept == acked = None \/ Kept(acked)
=============================================================================
