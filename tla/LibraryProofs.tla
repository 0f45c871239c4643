---------------------------- MODULE LibraryProofs -----------------------------
(* Proofs about PluginLoader, for any files and callers, TestExecution, for *)
(* any number of bands and cancellations, ConnectionSlots, for any users,   *)
(* limits and latencies, PluginRegistry, for any packages and callers, and  *)
(* WorkloadManager, for any jobs, priorities, workers and limits.           *)
EXTENDS PluginLoader, TestExecution, ConnectionSlots, PluginRegistry, WorkloadManager,
        FiniteSetTheorems, SequenceTheorems, TLAPS

-----------------------------------------------------------------------------
(* The plugin loader.                                                       *)

RegistryTypes ==
  /\ owner \in [Names -> 0 .. Len(Files)]
  /\ workloadTypes \subseteq WorkloadTypes \X Names
  /\ failedPlugins \subseteq {Files[i].path : i \in DOMAIN Files}
  /\ scan \in 0 .. Len(Files) + 1

PluginTypes ==
  /\ loaded \subseteq Names /\ cleaned \subseteq Names
  /\ live \in [Names -> Nat]

CallerTypes ==
  caller \in [Callers -> [pc : {"idle", "load", "create", "loadAll", "unloadAll"},
                          todo : SUBSET Names]]

LEMMA LoaderTypes ==
  LoaderTypeOK <=> RegistryTypes /\ PluginTypes /\ CallerTypes /\ loaderCrashed \in BOOLEAN
  BY DEF LoaderTypeOK, RegistryTypes, PluginTypes, CallerTypes

\* What GetWorkload has loaded is loaded still, or was cleaned up since.
CreatedIsLoadedOrCleaned ==
  \A c \in Callers : caller[c].pc = "create" => caller[c].todo \subseteq loaded \cup cleaned

LoaderInv == LoaderConsistent /\ CreatedIsLoadedOrCleaned

LEMMA InitLoaderInv == LoaderInit => LoaderInv
<1> SUFFICES ASSUME LoaderInit PROVE LoaderInv
  OBVIOUS
<1>1. Len(Files) \in Nat
  BY FilesAssumption
<1>2. RegistryTypes /\ PluginTypes
  BY <1>1 DEF LoaderInit, RegistryTypes, PluginTypes
<1>3. CallerTypes /\ loaderCrashed \in BOOLEAN
  BY DEF LoaderInit, CallerTypes, Outside
<1>4. TypesHaveOneOwner /\ InitializedOnce /\ CrashNeedsUnload /\ CreatedIsLoadedOrCleaned
  BY DEF LoaderInit, TypesHaveOneOwner, Discovered, InitializedOnce, CrashNeedsUnload, Outside,
         CreatedIsLoadedOrCleaned
<1>5. QED
  BY <1>2, <1>3, <1>4, LoaderTypes DEF LoaderInv, LoaderConsistent

\* Discovery: a file is registered if its name and all its types are free.
LEMMA DiscoveryLoaderInv == LoaderInv /\ ~loaderCrashed /\ scan # 0 /\ Discovery => LoaderInv'
<1> SUFFICES ASSUME LoaderInv, ~loaderCrashed, scan # 0, Discovery PROVE LoaderInv'
  OBVIOUS
<1>1. UNCHANGED <<loaded, live, cleaned, caller, loaderCrashed>>
  BY DEF Discovery, LoadPluginMetadata
<1>2. Len(Files) \in Nat /\ DOMAIN Files = 1 .. Len(Files)
  BY FilesAssumption
<1>3. RegistryTypes /\ TypesHaveOneOwner
  BY LoaderTypes DEF LoaderInv, LoaderConsistent
<1>4. RegistryTypes' /\ TypesHaveOneOwner'
  <2>1. CASE scan = Len(Files) + 1 /\ scan' = 0 /\ UNCHANGED <<owner, workloadTypes, failedPlugins>>
    BY <2>1, <1>2, <1>3 DEF RegistryTypes, TypesHaveOneOwner, Discovered
  <2>2. CASE LoadPluginMetadata
    <3>1. scan \in DOMAIN Files /\ scan' = scan + 1 /\ scan' \in 0 .. Len(Files) + 1
      BY <2>2, <1>2 DEF LoadPluginMetadata
    <3>2. CASE MarkAsFailed(Files[scan])
      BY <3>1, <3>2, <1>3 DEF MarkAsFailed, RegistryTypes, TypesHaveOneOwner, Discovered
    <3>3. CASE RefuseFile(Files[scan])
      BY <3>1, <3>3, <1>3 DEF RefuseFile, RegistryTypes, TypesHaveOneOwner, Discovered
    <3>4. CASE RegisterFile(Files[scan])
      <4> DEFINE f == Files[scan]
      <4>1. f.name \in Names /\ f.types \subseteq WorkloadTypes /\ scan \in 1 .. Len(Files)
        BY <3>1, <1>2 DEF Names, WorkloadTypes
      <4>2. /\ owner[f.name] = 0 /\ \A p \in workloadTypes : p[1] \notin f.types
            /\ owner' = [owner EXCEPT ![f.name] = scan]
            /\ workloadTypes' = workloadTypes \cup (f.types \X {f.name})
            /\ UNCHANGED failedPlugins
        BY <3>4 DEF RegisterFile
      <4> HIDE DEF f
      <4>3. RegistryTypes'
        BY <4>1, <4>2, <3>1, <1>2, <1>3 DEF RegistryTypes
      <4>4. /\ Discovered' = Discovered \cup {f.name} /\ f.name \notin Discovered
            /\ \A n \in Discovered : owner'[n] = owner[n]
        BY <4>1, <4>2, <1>2, <1>3 DEF Discovered, RegistryTypes
      <4>5. \A n \in Discovered' : \A t \in Files[owner'[n]].types : <<t, n>> \in workloadTypes'
        <5>1. owner'[f.name] = scan /\ f.name \in Names
          BY <4>1, <4>2, <1>3 DEF RegistryTypes
        <5>2. \A t \in Files[owner'[f.name]].types : <<t, f.name>> \in workloadTypes'
          BY <4>2, <5>1 DEF f
        <5>3. \A n \in Discovered : \A t \in Files[owner'[n]].types : <<t, n>> \in workloadTypes'
          BY <4>2, <4>4, <1>3 DEF TypesHaveOneOwner
        <5>4. QED
          BY <5>2, <5>3, <4>4
      <4>6. \A p, q \in workloadTypes' : p[1] = q[1] => p = q
        BY <4>2, <1>3 DEF TypesHaveOneOwner
      <4>7. \A p \in workloadTypes' : p[2] \in Discovered'
        BY <4>2, <4>4, <1>3 DEF TypesHaveOneOwner
      <4>8. QED
        BY <4>3, <4>5, <4>6, <4>7 DEF TypesHaveOneOwner
    <3>5. QED
      BY <2>2, <3>2, <3>3, <3>4 DEF LoadPluginMetadata
  <2>3. QED
    BY <2>1, <2>2 DEF Discovery
<1>5. QED
  <2>1. LoaderTypeOK'
    BY <1>1, <1>4 DEF LoaderInv, LoaderConsistent, LoaderTypeOK, RegistryTypes
  <2>2. InitializedOnce' /\ CrashNeedsUnload' /\ CreatedIsLoadedOrCleaned'
    BY <1>1 DEF LoaderInv, LoaderConsistent, InitializedOnce, CrashNeedsUnload,
       CreatedIsLoadedOrCleaned
  <2>3. QED
    BY <1>4, <2>1, <2>2 DEF LoaderInv, LoaderConsistent

\* What every call does to the plugins: it loads or unloads at most one.
PluginStep ==
  \/ UNCHANGED <<loaded, live, cleaned>>
  \/ \E n \in Names : Loads(n) \/ Unloads(n)

LEMMA PluginStepInv ==
  PluginTypes /\ InitializedOnce /\ PluginStep =>
    PluginTypes' /\ InitializedOnce' /\ loaded \cup cleaned \subseteq loaded' \cup cleaned'
<1> SUFFICES ASSUME PluginTypes, InitializedOnce, PluginStep
             PROVE  PluginTypes' /\ InitializedOnce'
                    /\ loaded \cup cleaned \subseteq loaded' \cup cleaned'
  OBVIOUS
<1>1. CASE UNCHANGED <<loaded, live, cleaned>>
  BY <1>1 DEF PluginTypes, InitializedOnce
<1>2. CASE \E n \in Names : Loads(n)
  BY <1>2 DEF Loads, PluginTypes, InitializedOnce
<1>3. CASE \E n \in Names : Unloads(n)
  BY <1>3 DEF Unloads, PluginTypes, InitializedOnce
<1>4. QED
  BY <1>1, <1>2, <1>3 DEF PluginStep

\* What every call does to the others' calls, and to its own.
LEMMA CallLoaderInv ==
  ASSUME NEW c \in Callers PROVE LoaderInv /\ ~loaderCrashed /\ LoaderCalls(c) => LoaderInv'
<1> SUFFICES ASSUME LoaderInv, ~loaderCrashed, LoaderCalls(c) PROVE LoaderInv'
  OBVIOUS
<1>0. /\ RegistryTypes /\ PluginTypes /\ CallerTypes /\ TypesHaveOneOwner /\ InitializedOnce
      /\ CreatedIsLoadedOrCleaned /\ Discovered \subseteq Names
  BY LoaderTypes DEF LoaderInv, LoaderConsistent, Discovered
<1>1. UNCHANGED <<owner, workloadTypes, failedPlugins>> /\ (scan' = scan \/ scan' = 1)
  BY DEF LoaderCalls, DiscoverPlugins, LoadPlugin, UnloadPlugin, LoadAllPlugins, UnloadAllPlugins,
         GetWorkload, AutoLoad, CreateWorkload, Continue
<1>2. RegistryTypes' /\ TypesHaveOneOwner'
  BY <1>0, <1>1, FilesAssumption DEF RegistryTypes, TypesHaveOneOwner, Discovered
<1>3. PluginStep
  BY <1>0 DEF LoaderCalls, DiscoverPlugins, LoadPlugin, UnloadPlugin, LoadAllPlugins,
         UnloadAllPlugins, GetWorkload, AutoLoad, CreateWorkload, PluginStep, CallerTypes, LoadFails
<1>4. PluginTypes' /\ InitializedOnce' /\ loaded \cup cleaned \subseteq loaded' \cup cleaned'
  BY <1>0, <1>3, PluginStepInv
<1>5. \/ UNCHANGED caller
      \/ \E pc \in {"idle", "load", "loadAll", "unloadAll"}, todo \in SUBSET Names :
           caller' = [caller EXCEPT ![c] = [pc |-> pc, todo |-> todo]]
      \/ \E n \in Names : n \in loaded' /\ caller' = [caller EXCEPT ![c] = [pc |-> "create", todo |-> {n}]]
  <2>1. CASE DiscoverPlugins(c) \/ LoadPlugin(c) \/ UnloadPlugin(c)
    BY <2>1 DEF DiscoverPlugins, LoadPlugin, UnloadPlugin
  <2>2. CASE LoadAllPlugins(c)
    BY <2>2, <1>0 DEF LoadAllPlugins, Continue, Outside, CallerTypes
  <2>3. CASE UnloadAllPlugins(c)
    BY <2>3, <1>0 DEF UnloadAllPlugins, Continue, Outside, CallerTypes, PluginTypes
  <2>4. CASE GetWorkload(c)
    <3>1. PICK p \in workloadTypes : Continue(c, "load", {p[2]} \ loaded)
      BY <2>4 DEF GetWorkload
    <3>2. p[2] \in Names
      BY <1>0 DEF RegistryTypes
    <3>3. QED
      BY <3>1, <3>2 DEF Continue, Outside
  <2>5. CASE AutoLoad(c)
    BY <2>5, <1>0 DEF AutoLoad, Continue, Outside, CallerTypes, Loads
  <2>6. CASE CreateWorkload(c)
    BY <2>6 DEF CreateWorkload, Continue, Outside
  <2>7. QED
    BY <2>1, <2>2, <2>3, <2>4, <2>5, <2>6 DEF LoaderCalls
<1>6. CallerTypes'
  BY <1>0, <1>5 DEF CallerTypes
<1>7. CreatedIsLoadedOrCleaned'
  BY <1>0, <1>4, <1>5 DEF CallerTypes, CreatedIsLoadedOrCleaned
<1>8. loaderCrashed' \in BOOLEAN /\ CrashNeedsUnload'
  <2>1. CASE UNCHANGED loaderCrashed
    <3>1. loaderCrashed \in BOOLEAN
      BY Zenon, LoaderTypes DEF LoaderInv, LoaderConsistent
    <3>2. QED
      BY <2>1, <3>1, Zenon DEF CrashNeedsUnload
  <2>2. CASE ~UNCHANGED loaderCrashed
    <3>1. /\ caller[c].pc = "create" /\ ~(caller[c].todo \subseteq loaded)
          /\ loaderCrashed' = TRUE /\ UNCHANGED <<caller, loaded, cleaned>>
      BY <2>2 DEF LoaderCalls, DiscoverPlugins, LoadPlugin, UnloadPlugin, LoadAllPlugins,
         UnloadAllPlugins, GetWorkload, AutoLoad, CreateWorkload
    <3>2. caller[c].todo \cap cleaned # {}
      BY <3>1, <1>0 DEF CreatedIsLoadedOrCleaned
    <3>3. QED
      BY <3>1, <3>2 DEF CrashNeedsUnload
  <2>3. QED
    BY <2>1, <2>2
<1>9. LoaderTypeOK'
  BY <1>2, <1>4, <1>6, <1>8 DEF LoaderTypeOK, RegistryTypes, PluginTypes, CallerTypes
<1>10. QED
  BY <1>2, <1>4, <1>7, <1>8, <1>9 DEF LoaderInv, LoaderConsistent

\* However many callers race, and whatever files there are: every type has one
\* owner, no plugin is initialised twice, and the nil plugin that GetWorkload
\* may call is the work of an unload.
THEOREM LoaderIsConsistent == LoaderSpec => []LoaderConsistent
<1>1. LoaderInv /\ UNCHANGED loaderVars => LoaderInv'
  BY DEF LoaderInv, LoaderConsistent, LoaderTypeOK, TypesHaveOneOwner, Discovered,
     InitializedOnce, CrashNeedsUnload, CreatedIsLoadedOrCleaned, loaderVars
<1>2. LoaderInv /\ [LoaderNext]_loaderVars => LoaderInv'
  BY <1>1, DiscoveryLoaderInv, CallLoaderInv DEF LoaderNext
<1>3. LoaderInv => LoaderConsistent
  BY DEF LoaderInv
<1>4. QED
  BY InitLoaderInv, <1>2, <1>3, PTL DEF LoaderSpec

-----------------------------------------------------------------------------
(* The test execution.                                                      *)

ExecutionFlags == {active, cancelled, collecting, savedResults, repoFailed} \subseteq BOOLEAN

RecordTypes ==
  /\ status \in {"running"} \cup Final
  /\ lateBands \in Nat
  /\ record \in Records
  /\ execution \in [pc : {"called", "registered", "check", "start", "run", "measured",
                         "store", "results", "failing", "failed", "returned"},
                   bands : 0 .. Bands, copy : Records]
  /\ canceller \in [Cancellers -> [pc : {"out", "mark", "get", "store"}, copy : Records]]

LEMMA ExecutionTypes == ExecutionTypeOK <=> ExecutionFlags /\ RecordTypes
  BY DEF ExecutionTypeOK, ExecutionFlags, RecordTypes

\* A band is measured only while there is one to come.
BandsLeft ==
  /\ execution.pc \in {"called", "registered", "check", "start", "run"} => execution.bands < Bands
  /\ execution.pc \in {"store", "results"} => execution.bands = Bands

\* Results are seen in a record, or in a copy of it, only when all bands are measured.
ResultsSeen == record.results \/ savedResults \/ \E c \in Cancellers : canceller[c].copy.results
ResultsAreLast ==
  /\ ResultsSeen => execution.pc \in {"results", "returned"} /\ execution.bands = Bands
  /\ ~execution.copy.results
  /\ record.status = "completed" => record.results
  /\ record.status = "failed" => ~record.results

\* Nobody cancels what has no record, and only a record that runs is left to be changed.
RunningIsReplaced ==
  /\ execution.pc \in {"called", "registered"} =>
       record = NoRecord /\ \A c \in Cancellers : canceller[c].pc = "out"
  /\ execution.pc \in {"results", "returned"} => record.status # "running" \/ repoFailed
  /\ execution.pc \in {"called", "returned"} => ~active
  /\ collecting => execution.pc = "run"

\* A band that starts late is the last: the next look at the context sees its end.
LateIsLast ==
  lateBands # 0 => lateBands = 1 /\ cancelled /\ execution.pc # "start"

ExecutionInv ==
  ExecutionFlags /\ RecordTypes /\ BandsLeft /\ ResultsAreLast /\ RunningIsReplaced /\ LateIsLast

LEMMA ExecutionInvConsistent == ExecutionInv => ExecutionConsistent
<1> SUFFICES ASSUME ExecutionInv PROVE ExecutionConsistent
  OBVIOUS
<1>1. ResultsAreOfWholeTests
  BY DEF ExecutionInv, ResultsAreLast, ResultsSeen, ResultsAreOfWholeTests
<1>2. ReturnedTestsAreOver
  BY DEF ExecutionInv, RunningIsReplaced, ReturnedTestsAreOver
<1>3. CancelStopsTheBands
  BY DEF ExecutionInv, LateIsLast, CancelStopsTheBands
<1>4. QED
  BY <1>1, <1>2, <1>3, ExecutionTypes DEF ExecutionInv, ExecutionConsistent

LEMMA InitExecutionInv == ExecutionInit => ExecutionInv
<1> SUFFICES ASSUME ExecutionInit PROVE ExecutionInv
  OBVIOUS
<1>1. NoRecord \in Records /\ ~NoRecord.results
  BY DEF NoRecord, Records
<1>2. ExecutionFlags
  BY Zenon DEF ExecutionInit, ExecutionFlags
<1>3. RecordTypes
  BY <1>1, ExecutionAssumption DEF ExecutionInit, RecordTypes
<1>4. BandsLeft /\ ResultsAreLast /\ RunningIsReplaced /\ LateIsLast
  BY <1>1, ExecutionAssumption DEF ExecutionInit, BandsLeft, ResultsAreLast, ResultsSeen, RunningIsReplaced, LateIsLast, NoRecord
<1>5. QED
  BY <1>2, <1>3, <1>4 DEF ExecutionInv

\* Every step of ExecuteTest.
LEMMA ExecuteTestInv == ExecutionInv /\ ExecuteTest => ExecutionInv'
<1> SUFFICES ASSUME ExecutionInv, ExecuteTest PROVE ExecutionInv'
  OBVIOUS
<1> USE DEF ExecutionInv
<1>1. ExecutionFlags'
  BY DEF ExecutionFlags, ExecuteTest, ConfigurationRefused, Register, StoreRunning, CheckContext,
         StartBand, BandEnds, BandKept, StoreCompleted, StoreResults, ReadToFail, StoreFailed,
         Returns, Stores
<1>2. CASE ConfigurationRefused
  BY <1>1, <1>2 DEF ConfigurationRefused, Goes, NoRecord, RecordTypes, BandsLeft,
     ResultsAreLast, ResultsSeen, RunningIsReplaced, LateIsLast
<1>3. CASE Register
  BY <1>1, <1>3, ExecutionAssumption DEF Register, Goes, RecordTypes, BandsLeft,
     ResultsAreLast, ResultsSeen, RunningIsReplaced, LateIsLast
<1>4. CASE StoreRunning
  <2>1. RecordTypes'
    <3>1. [status |-> "running", results |-> FALSE] \in Records
      BY DEF Records
    <3>2. QED
      BY <1>4, <3>1 DEF StoreRunning, Goes, Returns, RecordTypes
  <2>2. UNCHANGED <<savedResults, canceller, cancelled, lateBands, collecting>>
    BY <1>4 DEF StoreRunning
  <2>3. execution.pc = "registered" /\ execution' = [execution EXCEPT !.pc = execution'.pc]
    BY <1>4 DEF StoreRunning, Goes, Returns, RecordTypes
  <2>4. CASE execution'.pc = "check" /\ record' = [status |-> "running", results |-> FALSE]
    BY <1>1, <2>1, <2>2, <2>3, <2>4 DEF RecordTypes, BandsLeft, ResultsAreLast, ResultsSeen,
       RunningIsReplaced, LateIsLast
  <2>5. CASE execution'.pc = "returned" /\ repoFailed' /\ ~active' /\ UNCHANGED record
    BY <1>1, <2>1, <2>2, <2>3, <2>5 DEF NoRecord, RecordTypes, BandsLeft, ResultsAreLast, ResultsSeen,
       RunningIsReplaced, LateIsLast
  <2>6. QED
    BY <1>4, <2>4, <2>5 DEF StoreRunning, Goes, Returns, RecordTypes
<1>5. CASE CheckContext
  BY <1>1, <1>5, ExecutionAssumption DEF CheckContext, Goes, RecordTypes, BandsLeft,
     ResultsAreLast, ResultsSeen, RunningIsReplaced, LateIsLast
<1>6. CASE StartBand
  BY <1>1, <1>6, ExecutionAssumption DEF StartBand, Goes, RecordTypes, BandsLeft,
     ResultsAreLast, ResultsSeen, RunningIsReplaced, LateIsLast
<1>7. CASE BandEnds
  <2>1. execution.pc = "run" /\ execution.bands < Bands /\ execution.bands \in Nat
    BY <1>7, ExecutionAssumption DEF BandEnds, Goes, BandsLeft, RecordTypes
  <2>2. execution.bands + 1 \in 0 .. Bands
    BY <2>1, ExecutionAssumption
  <2>3. RecordTypes'
    BY <1>7, <2>2 DEF BandEnds, Goes, RecordTypes
  <2>4. execution'.pc \in {"failing", "measured"} /\ execution'.copy = execution.copy
    BY <1>7 DEF BandEnds, Goes, RecordTypes
  <2>5. ~collecting' /\ UNCHANGED <<active, cancelled, lateBands, record, savedResults, canceller,
                                    repoFailed>>
    BY <1>7 DEF BandEnds
  <2>6. QED
    BY <1>1, <2>1, <2>3, <2>4, <2>5 DEF BandsLeft, ResultsAreLast, ResultsSeen, RunningIsReplaced,
       LateIsLast
<1>8. CASE BandKept
  BY <1>1, <1>8, ExecutionAssumption DEF BandKept, Goes, RecordTypes, BandsLeft,
     ResultsAreLast, ResultsSeen, RunningIsReplaced, LateIsLast
<1>9. CASE StoreCompleted
  <2>1. RecordTypes'
    <3>1. [status |-> "completed", results |-> TRUE] \in Records
      BY DEF Records, Final
    <3>2. QED
      BY <1>9, <3>1 DEF StoreCompleted, Goes, Stores, RecordTypes
  <2>2. /\ execution.pc = "store" /\ execution' = [execution EXCEPT !.pc = "results"]
        /\ UNCHANGED <<savedResults, canceller, active, cancelled, lateBands, collecting>>
        /\ \/ record' = [status |-> "completed", results |-> TRUE] /\ UNCHANGED repoFailed
           \/ repoFailed' /\ UNCHANGED record
    BY <1>9 DEF StoreCompleted, Goes, Stores
  <2>3. BandsLeft' /\ LateIsLast'
    BY <2>2 DEF RecordTypes, BandsLeft, LateIsLast
  <2>4. ResultsAreLast'
    BY <2>2 DEF RecordTypes, BandsLeft, ResultsAreLast, ResultsSeen
  <2>5. RunningIsReplaced'
    BY <2>2 DEF RecordTypes, RunningIsReplaced
  <2>6. QED
    BY <1>1, <2>1, <2>3, <2>4, <2>5
<1>10. CASE StoreResults
  BY <1>1, <1>10, ExecutionAssumption DEF StoreResults, Goes, Returns, RecordTypes, BandsLeft,
     ResultsAreLast, ResultsSeen, RunningIsReplaced, LateIsLast
<1>11. CASE ReadToFail
  BY <1>1, <1>11, ExecutionAssumption DEF ReadToFail, Goes, Returns, Records, Final, RecordTypes, BandsLeft,
     ResultsAreLast, ResultsSeen, RunningIsReplaced, LateIsLast
<1>12. CASE StoreFailed
  BY <1>1, <1>12, ExecutionAssumption DEF StoreFailed, Goes, Returns, Stores, Records, Final, RecordTypes, BandsLeft,
     ResultsAreLast, ResultsSeen, RunningIsReplaced, LateIsLast
<1>13. QED
  BY <1>2, <1>3, <1>4, <1>5, <1>6, <1>7, <1>8, <1>9, <1>10, <1>11, <1>12
     DEF ExecuteTest

\* Every step of a caller of CancelExecution.
LEMMA CancelInv == ASSUME NEW c \in Cancellers PROVE ExecutionInv /\ Cancel(c) => ExecutionInv'
<1> SUFFICES ASSUME ExecutionInv, Cancel(c) PROVE ExecutionInv'
  OBVIOUS
<1> USE DEF ExecutionInv
<1>1. ExecutionFlags'
  BY DEF ExecutionFlags, Cancel, CancelExecution, MarkCancelled, ReadToCancel, StoreCancelled, Stores
<1>2. CASE CancelExecution(c) \/ MarkCancelled(c)
  BY <1>1, <1>2 DEF CancelExecution, MarkCancelled, RecordTypes, Final, BandsLeft, ResultsAreLast, ResultsSeen,
     RunningIsReplaced, LateIsLast
<1>3. CASE ReadToCancel(c)
  BY <1>1, <1>3 DEF ReadToCancel, RecordTypes, BandsLeft, ResultsAreLast, ResultsSeen, RunningIsReplaced, LateIsLast
<1>4. CASE StoreCancelled(c)
  BY <1>1, <1>4 DEF StoreCancelled, Stores, RecordTypes, Records, Final, BandsLeft, ResultsAreLast, ResultsSeen,
     RunningIsReplaced, LateIsLast
<1>5. QED
  BY <1>2, <1>3, <1>4 DEF Cancel

\* However many bands there are and cancellations race them, and whenever the
\* repository fails: results stand for all bands, a test that has returned is
\* not recorded as running, and at most one band starts after a cancellation.
THEOREM ExecutionIsConsistent == ExecutionSpec => []ExecutionConsistent
<1>1. ExecutionInv /\ UNCHANGED executionVars => ExecutionInv'
  BY DEF ExecutionInv, ExecutionFlags, RecordTypes, BandsLeft, ResultsAreLast, ResultsSeen, RunningIsReplaced,
     LateIsLast, executionVars
<1>2. ExecutionInv /\ [ExecutionNext]_executionVars => ExecutionInv'
  BY <1>1, ExecuteTestInv, CancelInv DEF ExecutionNext
<1>3. QED
  BY InitExecutionInv, <1>2, ExecutionInvConsistent, PTL DEF ExecutionSpec

-----------------------------------------------------------------------------
(* The slots of connections and workers.  Counting down is safe because     *)
(* whoever counts down is one of those counted.                             *)

SlotsFlags == {rescaled, poolClosed, cleaning, poolCrashed} \subseteq BOOLEAN

SlotsNumbers ==
  /\ activeConnections \in Nat /\ activeWorkers \in Nat /\ queuedRequests \in -MaxEmptyDequeues .. QueueSlots
  /\ maxConnections \in Nat \ {0} /\ maxWorkers \in Nat \ {0}
  /\ currentLatency \in Latencies \cup {0}
  /\ pressure \in {"low", "normal", "high", "over"}
  /\ scalings \in 0 .. MaxScalings
  /\ available \in 0 .. PoolCapacity /\ misses \in Nat

UserTypes == user \in [Users -> UserPCs]

LEMMA SlotsTypes == SlotsTypeOK <=> SlotsFlags /\ SlotsNumbers /\ UserTypes
  BY DEF SlotsTypeOK, SlotsFlags, SlotsNumbers, UserTypes

\* A worker that is counted is one that somebody has.
WorkersAreHeld == activeWorkers = Cardinality(In({"working"}))

SlotsInv ==
  /\ SlotsFlags /\ SlotsNumbers /\ UserTypes
  /\ SlotsAreHeldOrLost /\ WorkersAreHeld /\ WithinSlotLimits /\ PressureIsCurrent

SlotPCs == {"slot", "holding"}
Halfway == {"dropped", "returned", "stopped", "dequeued"}

\* How many users are at a place changes by the one who moves.
LEMMA OneMoves ==
  ASSUME UserTypes, NEW u \in Users, NEW from, NEW to, Move(u, from, to), NEW pcs
  PROVE  /\ Cardinality(In(pcs)) \in Nat /\ Cardinality(In(pcs)') \in Nat
         /\ Cardinality(In(pcs)') = Cardinality(In(pcs)) + (IF to \in pcs THEN 1 ELSE 0)
                                                          - (IF from \in pcs THEN 1 ELSE 0)
<1> DEFINE rest == {w \in Users \ {u} : user[w] \in pcs}
<1>1. IsFiniteSet(rest) /\ Cardinality(rest) \in Nat
  <2>1. IsFiniteSet(Users) /\ rest \subseteq Users
    BY SlotsAssumption
  <2>2. QED
    BY <2>1, FS_Subset, FS_CardinalityType
<1>2. Cardinality(rest \cup {u}) = Cardinality(rest) + 1
  BY <1>1, FS_AddElement
<1>3. In(pcs) = IF from \in pcs THEN rest \cup {u} ELSE rest
  BY DEF In, Move
<1>4. In(pcs)' = IF to \in pcs THEN rest \cup {u} ELSE rest
  BY DEF In, Move, UserTypes
<1> HIDE DEF rest
<1>5. QED
  BY <1>1, <1>2, <1>3, <1>4

LEMMA PressureType ==
  ASSUME NEW a, NEW b, NEW c, NEW d, NEW e, NEW f
  PROVE  Pressure(a, b, c, d, e, f) \in {"low", "normal", "high", "over"}
  BY DEF Pressure

\* What a limit becomes covers what it was found to cover.
LEMMA ScaledLimit ==
  ASSUME NEW m \in Nat \ {0}
  PROVE  /\ (12 * m) \div 10 \in Nat \ {0} /\ (12 * m) \div 10 >= m
         /\ m > 10 => (8 * m) \div 10 \in Nat \ {0} /\ (8 * m) \div 10 >= (3 * m) \div 10
  OBVIOUS

LEMMA InitSlotsInv == SlotsInit => SlotsInv
<1> SUFFICES ASSUME SlotsInit PROVE SlotsInv
  OBVIOUS
<1>1. SlotsFlags
  BY Zenon DEF SlotsInit, SlotsFlags
<1>2. Connections \in Nat \ {0} /\ WorkerSlots \in Nat \ {0} /\ QueueSlots \in Nat \ {0}
      /\ MaxLatency \in Nat \ {0} /\ PoolCapacity \in Nat /\ MaxScalings \in Nat /\ MaxEmptyDequeues \in Nat
  BY SlotsAssumption
<1>3. SlotsNumbers /\ UserTypes
  BY <1>2 DEF SlotsInit, SlotsNumbers, UserTypes, UserPCs
<1>4. In(SlotPCs) = {} /\ In({"working"}) = {} /\ Cardinality({}) = 0
  BY FS_EmptySet DEF SlotsInit, In, SlotPCs
<1>5. SlotsAreHeldOrLost /\ WorkersAreHeld /\ WithinSlotLimits
  BY <1>2, <1>4 DEF SlotsInit, SlotsAreHeldOrLost, WorkersAreHeld, WithinSlotLimits, SlotPCs
<1>6. PressureIsCurrent
  <2> DEFINE whole == Connections * WorkerSlots * QueueSlots * MaxLatency
  <2>1. whole \in Nat /\ whole > 0
    <3>1. \A x, y \in Nat \ {0} : x * y \in Nat \ {0}
      OBVIOUS
    <3>2. Connections * WorkerSlots \in Nat \ {0}
      BY <3>1, <1>2
    <3>3. Connections * WorkerSlots * QueueSlots \in Nat \ {0}
      BY <3>1, <3>2, <1>2
    <3>4. QED
      BY <3>1, <3>3, <1>2
  <2>2. PressureNow = Pressure(0, 0, 0, 0, Connections, WorkerSlots)
    BY DEF SlotsInit, PressureNow
  <2>3. Capped(0) = 0
    BY <1>2 DEF Capped
  <2>4. Pressure(0, 0, 0, 0, Connections, WorkerSlots) = "low"
    BY <1>2, <2>1, <2>3 DEF Pressure
  <2>5. QED
    BY <2>2, <2>4 DEF SlotsInit, PressureIsCurrent
<1>7. QED
  BY <1>1, <1>3, <1>5, <1>6 DEF SlotsInv

\* A step that computes the pressure under limits that stay leaves it current.
LEMMA ComputedPressure ==
  ASSUME UpdatePressure, UNCHANGED limits
  PROVE  PressureIsCurrent' /\ pressure' \in {"low", "normal", "high", "over"}
  BY PressureType DEF UpdatePressure, limits, PressureIsCurrent, PressureNow

\* A user that stops halfway owes the pressure.
LEMMA OwedPressure ==
  ASSUME UserTypes, NEW u \in Users, NEW from, NEW to \in Halfway, Move(u, from, to)
  PROVE  PressureIsCurrent'
<1>1. u \in In(Halfway)'
  BY DEF UserTypes, Move, In
<1>2. QED
  BY <1>1 DEF PressureIsCurrent, Halfway

\* What happens in the pool does not make the pressure any older.
LEMMA KeptPressure ==
  ASSUME PressureIsCurrent, OutsideController, UserTypes,
         \/ UNCHANGED user
         \/ \E u \in Users, from, to \in UserPCs \ Halfway : Move(u, from, to)
  PROVE  PressureIsCurrent'
<1>1. In(Halfway)' = In(Halfway)
  BY DEF UserTypes, Move, In
<1>2. PressureNow' = PressureNow
  BY DEF OutsideController, load, limits, PressureNow
<1>3. QED
  BY <1>1, <1>2 DEF PressureIsCurrent, OutsideController, Halfway

LEMMA MovedUsers ==
  ASSUME UserTypes, NEW u, NEW from, NEW to \in UserPCs, Move(u, from, to)
  PROVE  UserTypes'
  BY DEF UserTypes, Move

\* How a move changes the two counts that the invariant is about.
LEMMA CountsMove ==
  ASSUME UserTypes, NEW u \in Users, NEW from, NEW to, Move(u, from, to)
  PROVE  /\ Cardinality(In(SlotPCs)) \in Nat /\ Cardinality(In({"working"})) \in Nat
         /\ Cardinality(In(SlotPCs)') = Cardinality(In(SlotPCs))
                + (IF to \in SlotPCs THEN 1 ELSE 0) - (IF from \in SlotPCs THEN 1 ELSE 0)
         /\ Cardinality(In({"working"})') = Cardinality(In({"working"}))
                + (IF to = "working" THEN 1 ELSE 0) - (IF from = "working" THEN 1 ELSE 0)
         /\ Cardinality(In(SlotPCs)') \in Nat /\ Cardinality(In({"working"})') \in Nat
<1>1. /\ Cardinality(In(SlotPCs)) \in Nat /\ Cardinality(In(SlotPCs)') \in Nat
      /\ Cardinality(In(SlotPCs)') = Cardinality(In(SlotPCs))
             + (IF to \in SlotPCs THEN 1 ELSE 0) - (IF from \in SlotPCs THEN 1 ELSE 0)
  BY OneMoves
<1>2. /\ Cardinality(In({"working"})) \in Nat /\ Cardinality(In({"working"})') \in Nat
      /\ Cardinality(In({"working"})') = Cardinality(In({"working"}))
             + (IF to \in {"working"} THEN 1 ELSE 0) - (IF from \in {"working"} THEN 1 ELSE 0)
  BY OneMoves
<1>3. QED
  BY <1>1, <1>2

\* Taking a connection, of the controller or for the pool.
LEMMA AcquireConnectionStep ==
  ASSUME SlotsInv, NEW u \in Users, NEW to \in SlotPCs, AcquireConnection(u, to)
  PROVE  SlotsInv'
<1> USE DEF AcquireConnection
<1>1. SlotsFlags'
  BY Zenon DEF SlotsInv, SlotsFlags, UpdatePressure, pool
<1>2. PressureIsCurrent' /\ pressure' \in {"low", "normal", "high", "over"}
  BY ComputedPressure
<1>3. UserTypes'
  <2>1. to \in UserPCs
    BY DEF SlotPCs, UserPCs
  <2>2. QED
    BY <2>1, MovedUsers DEF SlotsInv
<1>4. /\ Cardinality(In(SlotPCs)) \in Nat
      /\ Cardinality(In(SlotPCs)') = Cardinality(In(SlotPCs)) + 1
      /\ Cardinality(In({"working"})') = Cardinality(In({"working"}))
      /\ Cardinality(In({"working"})) \in Nat
  BY CountsMove DEF SlotsInv, SlotPCs
<1>5. SlotsNumbers' /\ WithinSlotLimits'
  BY <1>2 DEF SlotsInv, SlotsNumbers, WithinSlotLimits, limits, pool
<1>6. SlotsAreHeldOrLost' /\ WorkersAreHeld'
  BY <1>4 DEF SlotsInv, SlotsNumbers, SlotsAreHeldOrLost, WorkersAreHeld, SlotPCs, pool
<1>7. QED
  BY <1>1, <1>2, <1>3, <1>5, <1>6 DEF SlotsInv

\* A connection is counted down before the lock is taken.
LEMMA CountDownStep ==
  ASSUME SlotsInv, NEW u \in Users, NEW to \in {"dropped", "returned"},
         CountDown(u, "holding", to)
  PROVE  SlotsInv'
<1> USE DEF CountDown
<1>1. SlotsFlags'
  BY Zenon DEF SlotsInv, SlotsFlags, pool
<1>2. PressureIsCurrent'
  <2>1. to \in Halfway
    BY DEF Halfway
  <2>2. QED
    BY <2>1, OwedPressure DEF SlotsInv
<1>3. UserTypes'
  <2>1. to \in UserPCs
    BY DEF UserPCs
  <2>2. QED
    BY <2>1, MovedUsers DEF SlotsInv
<1>4. /\ Cardinality(In(SlotPCs)) \in Nat /\ Cardinality(In(SlotPCs)') \in Nat
      /\ Cardinality(In(SlotPCs)') = Cardinality(In(SlotPCs)) - 1
      /\ Cardinality(In({"working"})') = Cardinality(In({"working"}))
      /\ Cardinality(In({"working"})) \in Nat
  BY CountsMove DEF SlotsInv, SlotPCs
<1>6. SlotsAreHeldOrLost' /\ WorkersAreHeld'
  BY <1>4 DEF SlotsInv, SlotsNumbers, SlotsAreHeldOrLost, WorkersAreHeld, SlotPCs, pool
<1>5. SlotsNumbers' /\ WithinSlotLimits'
  BY <1>4, <1>6 DEF SlotsInv, SlotsNumbers, WithinSlotLimits, SlotsAreHeldOrLost, SlotPCs,
     limits, pool
<1>7. QED
  BY <1>1, <1>2, <1>3, <1>5, <1>6 DEF SlotsInv

\* The second half of a release.
LEMMA ReleasedStep ==
  ASSUME SlotsInv, NEW u \in Users, NEW from \in Halfway, NEW to \in {"out", "sending"},
         Released(u, from, to)
  PROVE  SlotsInv'
<1> USE DEF Released
<1>1. SlotsFlags'
  BY Zenon DEF SlotsInv, SlotsFlags, UpdatePressure, pool
<1>2. PressureIsCurrent' /\ pressure' \in {"low", "normal", "high", "over"}
  BY ComputedPressure
<1>3. UserTypes'
  <2>1. to \in UserPCs
    BY DEF UserPCs
  <2>2. QED
    BY <2>1, MovedUsers DEF SlotsInv
<1>4. /\ Cardinality(In(SlotPCs)) \in Nat /\ Cardinality(In({"working"})) \in Nat
      /\ Cardinality(In(SlotPCs)') = Cardinality(In(SlotPCs))
      /\ Cardinality(In({"working"})') = Cardinality(In({"working"}))
  BY CountsMove DEF SlotsInv, SlotPCs, Halfway
<1>5. SlotsNumbers' /\ WithinSlotLimits'
  BY <1>2 DEF SlotsInv, SlotsNumbers, WithinSlotLimits, limits, pool, load
<1>6. SlotsAreHeldOrLost' /\ WorkersAreHeld'
  BY <1>4 DEF SlotsInv, SlotsNumbers, SlotsAreHeldOrLost, WorkersAreHeld, SlotPCs, pool, load
<1>7. QED
  BY <1>1, <1>2, <1>3, <1>5, <1>6 DEF SlotsInv

LEMMA AcquireWorkerStep ==
  ASSUME SlotsInv, NEW u \in Users, AcquireWorker(u)
  PROVE  SlotsInv'
<1> USE DEF AcquireWorker
<1>1. SlotsFlags'
  BY Zenon DEF SlotsInv, SlotsFlags, UpdatePressure, pool
<1>2. PressureIsCurrent' /\ pressure' \in {"low", "normal", "high", "over"}
  BY ComputedPressure
<1>3. UserTypes'
  <2>1. "working" \in UserPCs
    BY DEF UserPCs
  <2>2. QED
    BY <2>1, MovedUsers DEF SlotsInv
<1>4. /\ Cardinality(In(SlotPCs)) \in Nat /\ Cardinality(In({"working"})) \in Nat
      /\ Cardinality(In(SlotPCs)') = Cardinality(In(SlotPCs))
      /\ Cardinality(In({"working"})') = Cardinality(In({"working"})) + 1
  BY CountsMove DEF SlotsInv, SlotPCs
<1>5. SlotsNumbers' /\ WithinSlotLimits'
  BY <1>2 DEF SlotsInv, SlotsNumbers, WithinSlotLimits, limits, pool
<1>6. SlotsAreHeldOrLost' /\ WorkersAreHeld'
  BY <1>4 DEF SlotsInv, SlotsNumbers, SlotsAreHeldOrLost, WorkersAreHeld, SlotPCs, pool
<1>7. QED
  BY <1>1, <1>2, <1>3, <1>5, <1>6 DEF SlotsInv

LEMMA ReleaseWorkerStep ==
  ASSUME SlotsInv, NEW u \in Users, ReleaseWorker(u)
  PROVE  SlotsInv'
<1>1. CASE Released(u, "stopped", "out")
  BY <1>1, ReleasedStep DEF Halfway
<1>2. CASE ~Released(u, "stopped", "out")
  <2>1. /\ Move(u, "working", "stopped")
        /\ activeWorkers' = activeWorkers - 1
        /\ UNCHANGED <<activeConnections, queuedRequests, currentLatency, limits, pressure,
                       rescaled, pool>>
    BY <1>2 DEF ReleaseWorker
  <2>2. SlotsFlags'
    BY Zenon, <2>1 DEF SlotsInv, SlotsFlags, pool
  <2>3. PressureIsCurrent' /\ UserTypes'
    <3>1. "stopped" \in Halfway /\ "stopped" \in UserPCs
      BY DEF UserPCs, Halfway
    <3>2. QED
      BY <2>1, <3>1, OwedPressure, MovedUsers DEF SlotsInv
  <2>4. /\ Cardinality(In(SlotPCs)) \in Nat /\ Cardinality(In({"working"})) \in Nat
        /\ Cardinality(In({"working"})') \in Nat
        /\ Cardinality(In(SlotPCs)') = Cardinality(In(SlotPCs))
        /\ Cardinality(In({"working"})') = Cardinality(In({"working"})) - 1
    BY <2>1, CountsMove DEF SlotsInv, SlotPCs
  <2>5. SlotsAreHeldOrLost' /\ WorkersAreHeld'
    BY <2>1, <2>4 DEF SlotsInv, SlotsNumbers, SlotsAreHeldOrLost, WorkersAreHeld, SlotPCs, pool
  <2>6. SlotsNumbers' /\ WithinSlotLimits'
    BY <2>1, <2>4, <2>5 DEF SlotsInv, SlotsNumbers, WithinSlotLimits, WorkersAreHeld, limits, pool
  <2>7. QED
    BY <2>2, <2>3, <2>5, <2>6 DEF SlotsInv
<1>3. QED
  BY <1>1, <1>2

\* Nobody moves when a request is put in the queue.
LEMMA EnqueueRequestStep ==
  ASSUME SlotsInv, NEW u \in Users, EnqueueRequest(u)
  PROVE  SlotsInv'
<1> USE DEF EnqueueRequest
<1>1. SlotsFlags'
  BY Zenon DEF SlotsInv, SlotsFlags, UpdatePressure, pool
<1>2. PressureIsCurrent' /\ pressure' \in {"low", "normal", "high", "over"}
  BY ComputedPressure
<1>3. SlotsNumbers' /\ WithinSlotLimits'
  BY <1>2, SlotsAssumption DEF SlotsInv, SlotsNumbers, WithinSlotLimits, limits, pool
<1>4. UserTypes' /\ SlotsAreHeldOrLost' /\ WorkersAreHeld'
  BY DEF SlotsInv, UserTypes, SlotsAreHeldOrLost, WorkersAreHeld, In, pool
<1>5. QED
  BY <1>1, <1>2, <1>3, <1>4 DEF SlotsInv

LEMMA DequeueRequestStep ==
  ASSUME SlotsInv, NEW u \in Users, DequeueRequest(u)
  PROVE  SlotsInv'
<1>1. CASE Released(u, "dequeued", "out")
  BY <1>1, ReleasedStep DEF Halfway
<1>2. CASE ~Released(u, "dequeued", "out")
  <2>1. /\ queuedRequests > -MaxEmptyDequeues /\ Move(u, "out", "dequeued")
        /\ queuedRequests' = queuedRequests - 1
        /\ UNCHANGED <<activeConnections, activeWorkers, currentLatency, limits, pressure,
                       rescaled, pool>>
    BY <1>2 DEF DequeueRequest
  <2>2. SlotsFlags'
    BY Zenon, <2>1 DEF SlotsInv, SlotsFlags, pool
  <2>3. PressureIsCurrent' /\ UserTypes'
    <3>1. "dequeued" \in Halfway /\ "dequeued" \in UserPCs
      BY DEF UserPCs, Halfway
    <3>2. QED
      BY <2>1, <3>1, OwedPressure, MovedUsers DEF SlotsInv
  <2>4. /\ Cardinality(In(SlotPCs)) \in Nat /\ Cardinality(In({"working"})) \in Nat
        /\ Cardinality(In(SlotPCs)') = Cardinality(In(SlotPCs))
        /\ Cardinality(In({"working"})') = Cardinality(In({"working"}))
    BY <2>1, CountsMove DEF SlotsInv, SlotPCs
  <2>5. SlotsAreHeldOrLost' /\ WorkersAreHeld'
    BY <2>1, <2>4 DEF SlotsInv, SlotsNumbers, SlotsAreHeldOrLost, WorkersAreHeld, SlotPCs, pool
  <2>6. SlotsNumbers' /\ WithinSlotLimits'
    BY <2>1, SlotsAssumption DEF SlotsInv, SlotsNumbers, WithinSlotLimits, limits, pool
  <2>7. QED
    BY <2>2, <2>3, <2>5, <2>6 DEF SlotsInv
<1>3. QED
  BY <1>1, <1>2

\* A limit that is changed covers what is in use, and is noted as changed.
LEMMA UpdateLatencyStep ==
  ASSUME SlotsInv, NEW latency \in Latencies, UpdateLatency(latency)
  PROVE  SlotsInv'
<1> USE DEF UpdateLatency
<1>1. /\ activeConnections \in Nat /\ activeWorkers \in Nat /\ scalings \in 0 .. MaxScalings
      /\ maxConnections \in Nat \ {0} /\ maxWorkers \in Nat \ {0} /\ MaxScalings \in Nat
      /\ activeConnections <= maxConnections /\ activeWorkers <= maxWorkers
  BY SlotsAssumption DEF SlotsInv, SlotsNumbers, WithinSlotLimits
<1>2. SlotsFlags'
  <2>1. rescaled' \in BOOLEAN
    BY DEF ConsiderScaling
  <2>2. QED
    BY Zenon, <2>1 DEF SlotsInv, SlotsFlags, pool
<1>3. /\ maxConnections' \in Nat \ {0} /\ maxWorkers' \in Nat \ {0}
      /\ scalings' \in 0 .. MaxScalings
      /\ activeConnections <= maxConnections' /\ activeWorkers <= maxWorkers'
  <2>1. CASE UNCHANGED limits
    BY <1>1, <2>1 DEF limits
  <2>2. CASE scalings < MaxScalings /\ scalings' = scalings + 1 /\ ScaleUp
    BY <1>1, <2>2, ScaledLimit DEF ScaleUp
  <2>3. CASE scalings < MaxScalings /\ scalings' = scalings + 1 /\ ScaleDown
    BY <1>1, <2>3, ScaledLimit DEF ScaleDown
  <2>4. QED
    BY <2>1, <2>2, <2>3 DEF ConsiderScaling
<1>4. pressure' \in {"low", "normal", "high", "over"}
  BY PressureType
<1>5. SlotsNumbers' /\ WithinSlotLimits'
  BY <1>3, <1>4 DEF SlotsInv, SlotsNumbers, WithinSlotLimits, pool
<1>6. UserTypes' /\ SlotsAreHeldOrLost' /\ WorkersAreHeld'
  BY DEF SlotsInv, UserTypes, SlotsAreHeldOrLost, WorkersAreHeld, In, pool
<1>7. PressureIsCurrent'
  <2>1. ~rescaled' => maxConnections' = maxConnections /\ maxWorkers' = maxWorkers
    BY DEF ConsiderScaling, limits
  <2>2. QED
    BY <2>1 DEF PressureIsCurrent, PressureNow
<1>8. QED
  BY <1>2, <1>5, <1>6, <1>7 DEF SlotsInv

\* A user gets a connection of the pool, or one that is none.
LEMMA PoolHitStep ==
  ASSUME SlotsInv, NEW u \in Users, PoolHit(u) \/ PoolHitAfterClose(u)
  PROVE  SlotsInv'
<1> USE DEF PoolHit, PoolHitAfterClose
<1>1. Move(u, "slot", "holding") /\ OutsideController
      /\ UNCHANGED <<misses, poolClosed, cleaning, poolCrashed>>
      /\ available' \in {available, available - 1} /\ (available' # available => available > 0)
  BY DEF pool
<1>2. SlotsFlags'
  BY Zenon, <1>1 DEF SlotsInv, SlotsFlags, OutsideController
<1>3. "slot" \in UserPCs \ Halfway /\ "holding" \in UserPCs \ Halfway
  BY DEF UserPCs, Halfway
<1>4. PressureIsCurrent' /\ UserTypes'
  BY <1>1, <1>3, KeptPressure, MovedUsers DEF SlotsInv
<1>5. /\ Cardinality(In(SlotPCs)) \in Nat /\ Cardinality(In({"working"})) \in Nat
      /\ Cardinality(In(SlotPCs)') = Cardinality(In(SlotPCs))
      /\ Cardinality(In({"working"})') = Cardinality(In({"working"}))
  BY <1>1, CountsMove DEF SlotsInv, SlotPCs
<1>6. SlotsNumbers' /\ WithinSlotLimits'
  BY <1>1, SlotsAssumption DEF SlotsInv, SlotsNumbers, WithinSlotLimits, OutsideController,
     load, limits
<1>7. SlotsAreHeldOrLost' /\ WorkersAreHeld'
  BY <1>1, <1>5 DEF SlotsInv, SlotsAreHeldOrLost, WorkersAreHeld, SlotPCs, OutsideController, load
<1>8. QED
  BY <1>2, <1>4, <1>6, <1>7 DEF SlotsInv

\* The slot of a user that the pool sends away is lost.
LEMMA PoolMissStep ==
  ASSUME SlotsInv, NEW u \in Users, PoolMiss(u)
  PROVE  SlotsInv'
<1> USE DEF PoolMiss
<1>2. SlotsFlags'
  BY Zenon DEF SlotsInv, SlotsFlags, OutsideController
<1>3. "slot" \in UserPCs \ Halfway /\ "out" \in UserPCs \ Halfway
  BY DEF UserPCs, Halfway
<1>4. PressureIsCurrent' /\ UserTypes'
  BY <1>3, KeptPressure, MovedUsers DEF SlotsInv
<1>5. /\ Cardinality(In(SlotPCs)) \in Nat /\ Cardinality(In({"working"})) \in Nat
      /\ Cardinality(In(SlotPCs)') \in Nat
      /\ Cardinality(In(SlotPCs)') = Cardinality(In(SlotPCs)) - 1
      /\ Cardinality(In({"working"})') = Cardinality(In({"working"}))
  BY CountsMove DEF SlotsInv, SlotPCs
<1>6. SlotsNumbers' /\ WithinSlotLimits'
  BY SlotsAssumption DEF SlotsInv, SlotsNumbers, WithinSlotLimits, OutsideController, load, limits
<1>7. SlotsAreHeldOrLost' /\ WorkersAreHeld'
  BY <1>5 DEF SlotsInv, SlotsNumbers, SlotsAreHeldOrLost, WorkersAreHeld, SlotPCs,
     OutsideController, load
<1>8. QED
  BY <1>2, <1>4, <1>6, <1>7 DEF SlotsInv

\* A connection goes to the channel, is dropped, or meets a closed channel.
LEMMA PoolReturnsStep ==
  ASSUME SlotsInv, NEW u \in Users, PoolReturns(u)
  PROVE  SlotsInv'
<1> USE DEF PoolReturns
<1>2. SlotsFlags'
  BY Zenon DEF SlotsInv, SlotsFlags, OutsideController
<1>3. "sending" \in UserPCs \ Halfway /\ "out" \in UserPCs \ Halfway
  BY DEF UserPCs, Halfway
<1>4. PressureIsCurrent' /\ UserTypes'
  BY <1>3, KeptPressure, MovedUsers DEF SlotsInv
<1>5. /\ Cardinality(In(SlotPCs)) \in Nat /\ Cardinality(In({"working"})) \in Nat
      /\ Cardinality(In(SlotPCs)') = Cardinality(In(SlotPCs))
      /\ Cardinality(In({"working"})') = Cardinality(In({"working"}))
  BY CountsMove DEF SlotsInv, SlotPCs
<1>6. SlotsNumbers' /\ WithinSlotLimits'
  BY SlotsAssumption DEF SlotsInv, SlotsNumbers, WithinSlotLimits, OutsideController, load, limits
<1>7. SlotsAreHeldOrLost' /\ WorkersAreHeld'
  BY <1>5 DEF SlotsInv, SlotsAreHeldOrLost, WorkersAreHeld, SlotPCs, OutsideController, load
<1>8. QED
  BY <1>2, <1>4, <1>6, <1>7 DEF SlotsInv

\* The pool on its own: the cleanup of idle connections, and the end.
LEMMA PoolAloneStep ==
  ASSUME SlotsInv, CleanupIdleConnections \/ Close
  PROVE  SlotsInv'
<1>1. OutsideController /\ UNCHANGED <<user, misses>>
  BY DEF CleanupIdleConnections, Close
<1>2. {poolClosed', cleaning', poolCrashed'} \subseteq BOOLEAN
  <2>1. {poolClosed, cleaning, poolCrashed} \subseteq BOOLEAN
    BY Zenon DEF SlotsInv, SlotsFlags
  <2>2. CASE CleanupIdleConnections
    BY Zenon, <2>1, <2>2 DEF CleanupIdleConnections
  <2>3. CASE Close
    BY Zenon, <2>1, <2>3 DEF Close
  <2>4. QED
    BY <2>2, <2>3
<1>3. SlotsFlags'
  BY Zenon, <1>1, <1>2 DEF SlotsInv, SlotsFlags, OutsideController
<1>4. available' \in 0 .. PoolCapacity
  BY SlotsAssumption DEF SlotsInv, SlotsNumbers, CleanupIdleConnections, Close
<1>5. SlotsNumbers' /\ WithinSlotLimits'
  BY <1>1, <1>4 DEF SlotsInv, SlotsNumbers, WithinSlotLimits, OutsideController, load, limits
<1>6. PressureIsCurrent'
  BY <1>1, KeptPressure DEF SlotsInv
<1>7. UserTypes' /\ SlotsAreHeldOrLost' /\ WorkersAreHeld'
  BY <1>1 DEF SlotsInv, UserTypes, SlotsAreHeldOrLost, WorkersAreHeld, In, OutsideController, load
<1>8. QED
  BY <1>3, <1>5, <1>6, <1>7 DEF SlotsInv

LEMMA StepSlotsInv == SlotsInv /\ [SlotsNext]_slotsVars => SlotsInv'
<1> SUFFICES ASSUME SlotsInv, [SlotsNext]_slotsVars PROVE SlotsInv'
  OBVIOUS
<1>1. ASSUME NEW u \in Users, AcquireConnection(u, "holding") \/ AcquireConnection(u, "slot")
      PROVE  SlotsInv'
  BY <1>1, AcquireConnectionStep DEF SlotPCs
<1>2. ASSUME NEW u \in Users, ReleaseConnection(u)
      PROVE  SlotsInv'
  BY <1>2, CountDownStep, ReleasedStep DEF ReleaseConnection, Halfway
<1>3. ASSUME NEW u \in Users, AcquireWorker(u) \/ ReleaseWorker(u)
      PROVE  SlotsInv'
  BY <1>3, AcquireWorkerStep, ReleaseWorkerStep
<1>4. ASSUME NEW u \in Users, EnqueueRequest(u) \/ DequeueRequest(u)
      PROVE  SlotsInv'
  BY <1>4, EnqueueRequestStep, DequeueRequestStep
<1>5. ASSUME NEW u \in Users, PoolAcquireConnection(u)
      PROVE  SlotsInv'
  BY <1>1, <1>5, PoolHitStep, PoolMissStep DEF PoolAcquireConnection
<1>6. ASSUME NEW u \in Users, PoolReleaseConnection(u)
      PROVE  SlotsInv'
  BY <1>6, CountDownStep, ReleasedStep, PoolReturnsStep DEF PoolReleaseConnection, Halfway
<1>7. ASSUME NEW latency \in Latencies, UpdateLatency(latency)
      PROVE  SlotsInv'
  BY <1>7, UpdateLatencyStep
<1>8. CASE CleanupIdleConnections \/ Close
  BY <1>8, PoolAloneStep
<1>9. CASE UNCHANGED slotsVars
  <2>1. SlotsFlags'
    BY Zenon, <1>9 DEF SlotsInv, SlotsFlags, slotsVars, pool
  <2>2. SlotsNumbers' /\ UserTypes'
    BY <1>9 DEF SlotsInv, SlotsNumbers, UserTypes, slotsVars, load, limits, pool
  <2>3. SlotsAreHeldOrLost' /\ WorkersAreHeld' /\ WithinSlotLimits' /\ PressureIsCurrent'
    BY <1>9 DEF SlotsInv, SlotsAreHeldOrLost, WorkersAreHeld, WithinSlotLimits,
       PressureIsCurrent, PressureNow, In, slotsVars, load, limits, pool
  <2>4. QED
    BY <2>1, <2>2, <2>3 DEF SlotsInv
<1>10. QED
  BY <1>1, <1>2, <1>3, <1>4, <1>5, <1>6, <1>7, <1>8, <1>9 DEF SlotsNext

\* The counts of the controller, at any limits, are those of the users that hold slots
\* and of the misses of the pool; no limit falls below them; and pressure is never old
\* once a release is complete (backpressure.go).
THEOREM SlotsAreConsistent == SlotsSpec => []SlotsConsistent
<1>1. SlotsInv => SlotsConsistent
  BY SlotsTypes DEF SlotsInv, SlotsConsistent
<1>2. QED
  BY InitSlotsInv, StepSlotsInv, <1>1, PTL DEF SlotsSpec

-----------------------------------------------------------------------------
(* The registry.                                                            *)

PluginInfos == [package : Packages \cup {NoPackage}, loaded : BOOLEAN,
                path : Packages \cup {NoPackage}]

RegistryTables ==
  /\ plugins \in [PackageNames -> PluginInfos]
  /\ instance \in [Packages -> {"raw", "ready", "clean"}]
  /\ overlapped \subseteq Packages /\ cutShort \subseteq PackageNames

LoadingTypes ==
  /\ loading \in [Loaders -> [pc : {"out", "check", "open", "register", "cleanup", "path", "backoff"},
                              package : Packages \cup {NoPackage}, attempt : 0 .. MaxRetryAttempts]]
  /\ \A l \in Loaders : loading[l].pc # "out" => loading[l].package \in Packages
  /\ ended \subseteq Loaders
  /\ late \in [Loaders -> Nat]

LEMMA RegistryTyped == RegistryTypeOK <=> RegistryTables /\ LoadingTypes
  BY DEF RegistryTypeOK, RegistryTables, LoadingTypes, PluginInfos

NamesMatch ==
  \A n \in PackageNames : plugins[n].package # NoPackage => plugins[n].package.name = n

\* A loaded package that is not marked is in nobody's hands.
MarkedWhenShared ==
  \A p \in Packages : LoadedAs(p) /\ p \notin overlapped => \A l \in Loaders : ~Holds(l, p)

\* Whoever is about to record a path has a plugin that is loaded, or was cut short.
PathPending ==
  \A l \in Loaders : At(l, "path") => LoadedAs(Wanted(l)) \/ Wanted(l).name \in cutShort

\* A late attempt is the only one: it is over, or goes on behind the check.
OneLateAttempt ==
  \A l \in Loaders : late[l] <= 1 /\ (late[l] # 0 => l \in ended /\ loading[l].pc \notin {"out", "open"})

\* Only an attempt that is not the last is followed by a wait.
RetriesLeft == \A l \in Loaders : At(l, "backoff") => loading[l].attempt < MaxRetryAttempts

TableInv ==
  /\ RegistryTables /\ InitialisedAreOwned /\ LoadedAreReady /\ PathsAreTrue
  /\ NamesMatch /\ MarkedWhenShared /\ PathPending

AttemptInv == LoadingTypes /\ OneLateAttempt /\ RetriesLeft

LEMMA InitRegistryInv == RegistryInit => TableInv /\ AttemptInv
<1> SUFFICES ASSUME RegistryInit PROVE TableInv /\ AttemptInv
  OBVIOUS
<1>1. RegistryTables /\ LoadingTypes
  BY PackagesAssumption DEF RegistryInit, RegistryTables, LoadingTypes, PluginInfos, Absent, NotLoading
<1>2. \A p \in Packages : p.name \in PackageNames
  BY DEF PackageNames
<1>3. \A n \in PackageNames : plugins[n] = Absent
  BY DEF RegistryInit
<1>4. InitialisedAreOwned /\ LoadedAreReady /\ PathsAreTrue /\ NamesMatch /\ MarkedWhenShared
  BY <1>2, <1>3 DEF RegistryInit, InitialisedAreOwned, LoadedAreReady, PathsAreTrue, NamesMatch,
     MarkedWhenShared, LoadedAs, Absent
<1>5. PathPending /\ OneLateAttempt /\ RetriesLeft
  BY DEF RegistryInit, PathPending, RetriesLeft, OneLateAttempt, At, NotLoading
<1>6. QED
  BY <1>1, <1>4, <1>5 DEF TableInv, AttemptInv

\* What an attempt does to its caller's own state.
CallerStep(l) ==
  \/ \E p \in Packages : LoadPluginWithContext(l, p)
  \/ CheckDone(l) \/ Backoff(l) \/ OpenFails(l) \/ Open(l)
  \/ RegisterAccepts(l) \/ RegisterRefuses(l) \/ CleanUpRefused(l)
  \/ RecordPath(l) \/ ContextEnds(l)

LEMMA ReturnAttempt ==
  ASSUME NEW l \in Loaders PROVE AttemptInv /\ ReturnFromLoad(l) => AttemptInv'
  BY PackagesAssumption DEF AttemptInv, LoadingTypes, OneLateAttempt, RetriesLeft, ReturnFromLoad,
     NotLoading, At

LEMMA GoToTypes ==
  ASSUME NEW l \in Loaders,
         RetriesLeft, NEW pc \in {"check", "open", "register", "cleanup", "path", "backoff"},
         LoadingTypes, ~At(l, "out"), GoTo(l, pc), ended' = ended, late' \in [Loaders -> Nat]
  PROVE  /\ LoadingTypes' /\ loading'[l].pc = pc /\ Wanted(l)' = Wanted(l)
         /\ pc # "backoff" \/ loading[l].attempt < MaxRetryAttempts => RetriesLeft'
         /\ \A k \in Loaders \ {l} : loading'[k] = loading[k]
  BY DEF LoadingTypes, GoTo, At, Wanted, RetriesLeft

LEMMA CallerAttempt ==
  ASSUME NEW l \in Loaders PROVE AttemptInv /\ CallerStep(l) => AttemptInv'
<1> SUFFICES ASSUME AttemptInv, CallerStep(l) PROVE AttemptInv'
  OBVIOUS
<1>0. LoadingTypes /\ OneLateAttempt /\ RetriesLeft /\ 1 \in 0 .. MaxRetryAttempts /\ MaxRetryAttempts \in Nat
  BY PackagesAssumption DEF AttemptInv
<1>t. At(l, "open") => Tried(l) \in [Loaders -> Nat]
        /\ \A k \in Loaders : /\ Tried(l)[k] <= 1
                              /\ Tried(l)[k] # 0 => k \in ended /\ (k = l \/ late[k] # 0)
  BY <1>0 DEF Tried, LoadingTypes, OneLateAttempt, At
<1>1. CASE \E p \in Packages : LoadPluginWithContext(l, p)
  BY <1>1, <1>0 DEF LoadPluginWithContext, AttemptInv, LoadingTypes, OneLateAttempt, RetriesLeft, At
<1>2. CASE CheckDone(l)
  <2>1. CASE l \in ended
    BY <1>2, <2>1, ReturnAttempt DEF CheckDone
  <2>2. CASE l \notin ended
    <3>1. GoTo(l, "open") /\ UNCHANGED <<ended, late>> /\ ~At(l, "out")
      BY <1>2, <2>2 DEF CheckDone, At
    <3>2. QED
      BY <3>1, <2>2, <1>0, GoToTypes DEF AttemptInv, OneLateAttempt, LoadingTypes
  <2>3. QED
    BY <2>1, <2>2
<1>f. ASSUME NEW tries \in [Loaders -> Nat], AttemptFails(l, tries), ~At(l, "out"),
             \A k \in Loaders : /\ tries[k] <= 1
                                /\ tries[k] # 0 => k \in ended /\ (k = l \/ late[k] # 0)
      PROVE  AttemptInv'
  <2>1. CASE ReturnFromLoad(l)
    BY <2>1, ReturnAttempt
  <2>2. CASE loading[l].attempt < MaxRetryAttempts /\ GoTo(l, "backoff") /\ late' = tries /\ UNCHANGED ended
    BY <1>f, <2>2, <1>0, GoToTypes DEF AttemptInv, OneLateAttempt
  <2>3. QED
    BY <1>f, <2>1, <2>2 DEF AttemptFails
<1>3. CASE Backoff(l)
  <2>1. CASE ReturnFromLoad(l)
    BY <2>1, ReturnAttempt
  <2>2. CASE /\ loading' = [loading EXCEPT ![l].pc = "check", ![l].attempt = @ + 1]
             /\ UNCHANGED <<ended, late>>
    <3>1. loading[l].attempt + 1 \in 0 .. MaxRetryAttempts
      BY <1>3, <1>0 DEF Backoff, RetriesLeft, LoadingTypes
    <3>2. QED
      BY <1>3, <2>2, <1>0 DEF Backoff, AttemptInv, LoadingTypes, OneLateAttempt, RetriesLeft, At
  <2>3. QED
    BY <1>3, <2>1, <2>2 DEF Backoff
<1>4. CASE OpenFails(l)
  BY <1>4, <1>t, <1>f DEF OpenFails, At
<1>5. CASE Open(l)
  <2>1. ~At(l, "out") /\ At(l, "open") /\ late' = Tried(l) /\ GoTo(l, "register") /\ ended' = ended
    BY <1>5 DEF Open, At
  <2>2. QED
    BY <2>1, <1>t, <1>0, GoToTypes DEF AttemptInv, OneLateAttempt
<1>6. CASE RegisterAccepts(l)
  <2>1. ~At(l, "out") /\ GoTo(l, "path") /\ UNCHANGED <<ended, late>>
    BY <1>6 DEF RegisterAccepts, At
  <2>2. QED
    BY <2>1, <1>0, GoToTypes DEF AttemptInv, OneLateAttempt, LoadingTypes
<1>7. CASE RegisterRefuses(l)
  <2>1. ~At(l, "out") /\ GoTo(l, "cleanup") /\ UNCHANGED <<ended, late>>
    BY <1>7 DEF RegisterRefuses, At
  <2>2. QED
    BY <2>1, <1>0, GoToTypes DEF AttemptInv, OneLateAttempt, LoadingTypes
<1>8. CASE CleanUpRefused(l)
  BY <1>8, <1>0, <1>f DEF CleanUpRefused, At, LoadingTypes, OneLateAttempt
<1>9. CASE RecordPath(l)
  BY <1>9, ReturnAttempt DEF RecordPath
<1>10. CASE ContextEnds(l)
  BY <1>10, <1>0 DEF ContextEnds, AttemptInv, LoadingTypes, OneLateAttempt, RetriesLeft, At
<1>11. QED
  BY <1>1, <1>2, <1>3, <1>4, <1>5, <1>6, <1>7, <1>8, <1>9, <1>10 DEF CallerStep

\* The tables do not change, and nobody comes to hold a package or to record a path.
QuietStep ==
  /\ UNCHANGED <<plugins, instance, overlapped, cutShort>>
  /\ \A l \in Loaders :
       \/ loading'[l] = loading[l]
       \/ {loading[l].pc, loading'[l].pc} \cap {"register", "cleanup", "path"} = {}
       \/ Wanted(l)' = Wanted(l) /\ loading[l].pc = "register" /\ loading'[l].pc = "cleanup"

LEMMA QuietTables == TableInv /\ QuietStep => TableInv'
<1> SUFFICES ASSUME TableInv, QuietStep PROVE TableInv'
  OBVIOUS
<1>1. /\ RegistryTables' /\ LoadedAreReady' /\ PathsAreTrue' /\ NamesMatch'
      /\ \A p \in Packages : LoadedAs(p)' = LoadedAs(p)
  BY DEF TableInv, QuietStep, RegistryTables, LoadedAreReady, PathsAreTrue, NamesMatch, LoadedAs
<1>2. \A l \in Loaders, p \in Packages : Holds(l, p)' = Holds(l, p)
  BY DEF QuietStep, Holds, Wanted
<1>3. InitialisedAreOwned' /\ MarkedWhenShared'
  BY <1>1, <1>2 DEF TableInv, QuietStep, InitialisedAreOwned, MarkedWhenShared
<1>4. PathPending'
  BY DEF TableInv, QuietStep, PathPending, At, Wanted, LoadedAs
<1>5. QED
  BY <1>1, <1>3, <1>4 DEF TableInv

LEMMA CallerTables ==
  ASSUME NEW l \in Loaders PROVE TableInv /\ LoadingTypes /\ CallerStep(l) => TableInv'
<1> SUFFICES ASSUME TableInv, LoadingTypes, CallerStep(l) PROVE TableInv'
  OBVIOUS
<1>0. /\ RegistryTables /\ InitialisedAreOwned /\ LoadedAreReady /\ PathsAreTrue
      /\ NamesMatch /\ MarkedWhenShared /\ PathPending
  BY DEF TableInv
<1>p. \A p \in Packages : p.name \in PackageNames
  BY DEF PackageNames
<1>w. ~At(l, "out") => Wanted(l) \in Packages
  BY DEF LoadingTypes, At, Wanted
<1>1. CASE \/ \E p \in Packages : LoadPluginWithContext(l, p)
           \/ CheckDone(l) \/ Backoff(l) \/ OpenFails(l) \/ RegisterRefuses(l) \/ ContextEnds(l)
  <2>1. UNCHANGED <<plugins, instance, overlapped, cutShort>>
    BY <1>1 DEF LoadPluginWithContext, CheckDone, Backoff, OpenFails, RegisterRefuses, ContextEnds
  <2>2. \A k \in Loaders \ {l} : loading'[k] = loading[k]
    BY <1>1 DEF LoadPluginWithContext, CheckDone, Backoff, OpenFails, RegisterRefuses, ContextEnds,
       AttemptFails, ReturnFromLoad, GoTo, LoadingTypes
  <2>3. \/ loading'[l] = loading[l]
        \/ {loading[l].pc, loading'[l].pc} \cap {"register", "cleanup", "path"} = {}
        \/ Wanted(l)' = Wanted(l) /\ loading[l].pc = "register" /\ loading'[l].pc = "cleanup"
    <3>1. CASE RegisterRefuses(l) \/ ContextEnds(l)
      BY <3>1 DEF RegisterRefuses, ContextEnds, GoTo, At, Wanted, LoadingTypes
    <3>2. CASE \/ \E p \in Packages : LoadPluginWithContext(l, p)
               \/ CheckDone(l) \/ Backoff(l) \/ OpenFails(l)
      <4>1. loading[l].pc \notin {"register", "cleanup", "path"}
        BY <3>2 DEF LoadPluginWithContext, CheckDone, Backoff, OpenFails, At
      <4>2. loading'[l].pc \in {"check", "open", "backoff", "out"}
        BY <3>2 DEF LoadPluginWithContext, CheckDone, Backoff, OpenFails, AttemptFails,
           ReturnFromLoad, GoTo, NotLoading, LoadingTypes
      <4>3. QED
        BY <4>1, <4>2
    <3>3. QED
      BY <1>1, <3>1, <3>2
  <2>4. QuietStep
    BY <2>1, <2>2, <2>3 DEF QuietStep
  <2>5. QED
    BY <2>4, QuietTables
<1>2. CASE Open(l)
  <2>1. PICK q \in Packages :
        /\ q = Wanted(l) /\ At(l, "open") /\ UNCHANGED <<plugins, cutShort>>
        /\ instance' = [instance EXCEPT ![q] = "ready"]
        /\ overlapped' = IF LoadedAs(q) THEN overlapped \cup {q} ELSE overlapped
        /\ loading' = [loading EXCEPT ![l].pc = "register"]
    BY <1>2, <1>w DEF Open, GoTo, At
  <2>2. /\ Holds(l, q)' /\ \A p \in Packages : LoadedAs(p)' = LoadedAs(p)
        /\ \A k \in Loaders, p \in Packages : k # l \/ p # q => Holds(k, p)' = Holds(k, p)
        /\ \A p \in Packages : ~Holds(l, p)
    BY <2>1 DEF Holds, Wanted, At, LoadedAs, LoadingTypes
  <2>3. RegistryTables' /\ PathsAreTrue' /\ NamesMatch'
    BY <1>0, <2>1 DEF RegistryTables, PathsAreTrue, NamesMatch
  <2>4. InitialisedAreOwned' /\ LoadedAreReady'
    <3>1. instance'[q] = "ready" /\ \A p \in Packages \ {q} : instance'[p] = instance[p]
      BY <1>0, <2>1 DEF RegistryTables
    <3>2. InitialisedAreOwned'
      <4> SUFFICES ASSUME NEW p \in Packages, instance'[p] = "ready"
                   PROVE  LoadedAs(p)' \/ \E k \in Loaders : Holds(k, p)'
        BY DEF InitialisedAreOwned
      <4>1. CASE p = q
        BY <2>2, <4>1
      <4>2. CASE p # q
        BY <1>0, <2>2, <3>1, <4>2 DEF InitialisedAreOwned
      <4>3. QED
        BY <4>1, <4>2
    <3>3. LoadedAreReady'
      BY <1>0, <2>1, <2>2, <3>1 DEF LoadedAreReady
    <3>4. QED
      BY <3>2, <3>3
  <2>5. MarkedWhenShared'
    BY <1>0, <2>1, <2>2 DEF MarkedWhenShared
  <2>6. PathPending'
    BY <1>0, <2>1 DEF PathPending, At, Wanted, LoadedAs, LoadingTypes
  <2>7. QED
    BY <2>3, <2>4, <2>5, <2>6 DEF TableInv
<1>3. CASE RegisterAccepts(l)
  <2>1. PICK q \in Packages :
        /\ q = Wanted(l) /\ At(l, "register") /\ UNCHANGED cutShort
        /\ ~plugins[q.name].loaded
        /\ instance' = [instance EXCEPT ![q] = "ready"]
        /\ plugins' = [plugins EXCEPT ![q.name] = [package |-> q, loaded |-> TRUE, path |-> NoPackage]]
        /\ overlapped' = IF \E k \in Loaders \ {l} : Holds(k, q) THEN overlapped \cup {q} ELSE overlapped
        /\ loading' = [loading EXCEPT ![l].pc = "path"]
    BY <1>3, <1>w DEF RegisterAccepts, GoTo, At
  <2>2. /\ \A p \in Packages : ~Holds(l, p)'
        /\ \A k \in Loaders \ {l}, p \in Packages : Holds(k, p)' = Holds(k, p)
        /\ \A p \in Packages : p # q => ~Holds(l, p)
        /\ At(l, "path")' /\ Wanted(l)' = q
        /\ \A k \in Loaders \ {l} : At(k, "path")' = At(k, "path") /\ Wanted(k)' = Wanted(k)
    BY <2>1 DEF Holds, Wanted, At, LoadingTypes
  <2>3. /\ LoadedAs(q)' /\ \A p \in Packages : p # q => LoadedAs(p)' = LoadedAs(p)
        /\ \A n \in PackageNames : n # q.name => plugins'[n] = plugins[n]
        /\ plugins'[q.name] = [package |-> q, loaded |-> TRUE, path |-> NoPackage]
    <3>1. plugins'[q.name] = [package |-> q, loaded |-> TRUE, path |-> NoPackage]
      BY <1>0, <1>p, <2>1 DEF RegistryTables
    <3>2. \A n \in PackageNames : n # q.name => plugins'[n] = plugins[n]
      BY <1>0, <1>p, <2>1 DEF RegistryTables
    <3>3. QED
      BY <1>p, <2>1, <3>1, <3>2 DEF LoadedAs
  <2>4. RegistryTables' /\ PathsAreTrue' /\ NamesMatch'
    BY <1>0, <1>p, <2>1, <2>3 DEF RegistryTables, PathsAreTrue, NamesMatch, PluginInfos
  <2>5. InitialisedAreOwned' /\ LoadedAreReady'
    <3>1. instance'[q] = "ready" /\ \A p \in Packages \ {q} : instance'[p] = instance[p]
      BY <1>0, <2>1 DEF RegistryTables
    <3>2. \A p \in Packages : p \in overlapped => p \in overlapped'
      BY <2>1
    <3>3. QED
      BY <1>0, <2>2, <2>3, <3>1, <3>2 DEF InitialisedAreOwned, LoadedAreReady
  <2>6. MarkedWhenShared'
    BY <1>0, <2>1, <2>2, <2>3 DEF MarkedWhenShared
  <2>7. PathPending'
    BY <1>0, <2>1, <2>2, <2>3, <1>w DEF PathPending, LoadedAs, At, Wanted, LoadingTypes
  <2>8. QED
    BY <2>4, <2>5, <2>6, <2>7 DEF TableInv
<1>4. CASE CleanUpRefused(l)
  <2>1. PICK q \in Packages :
        /\ q = Wanted(l) /\ At(l, "cleanup") /\ Holds(l, q) /\ UNCHANGED <<plugins, overlapped, cutShort>>
        /\ instance' = [instance EXCEPT ![q] = "clean"]
        /\ loading'[l].pc \in {"backoff", "out"}
        /\ \A k \in Loaders \ {l} : loading'[k] = loading[k]
    <3>1. /\ At(l, "cleanup") /\ Wanted(l) \in Packages /\ Holds(l, Wanted(l))
          /\ UNCHANGED <<plugins, overlapped, cutShort>>
          /\ instance' = [instance EXCEPT ![Wanted(l)] = "clean"]
      BY <1>4, <1>w DEF CleanUpRefused, At, Holds
    <3>2. \/ loading' = [loading EXCEPT ![l].pc = "backoff"]
          \/ loading' = [loading EXCEPT ![l] = NotLoading]
      BY <1>4 DEF CleanUpRefused, AttemptFails, ReturnFromLoad, GoTo
    <3>3. /\ loading'[l].pc \in {"backoff", "out"}
          /\ \A k \in Loaders \ {l} : loading'[k] = loading[k]
      BY <3>2 DEF LoadingTypes, NotLoading
    <3>4. QED
      BY <3>1, <3>3
  <2>2. /\ \A p \in Packages : LoadedAs(p)' = LoadedAs(p) /\ ~Holds(l, p)' /\ (p # q => ~Holds(l, p))
        /\ \A k \in Loaders \ {l}, p \in Packages : Holds(k, p)' = Holds(k, p)
        /\ \A k \in Loaders : At(k, "path")' => At(k, "path") /\ Wanted(k)' = Wanted(k)
    BY <2>1 DEF Holds, Wanted, At, LoadedAs
  <2>3. RegistryTables' /\ PathsAreTrue' /\ NamesMatch'
    BY <1>0, <2>1 DEF RegistryTables, PathsAreTrue, NamesMatch
  <2>4. InitialisedAreOwned' /\ LoadedAreReady'
    BY <1>0, <2>1, <2>2 DEF RegistryTables, InitialisedAreOwned, LoadedAreReady, MarkedWhenShared
  <2>5. MarkedWhenShared' /\ PathPending'
    BY <1>0, <2>1, <2>2 DEF MarkedWhenShared, PathPending, LoadedAs
  <2>6. QED
    BY <2>3, <2>4, <2>5 DEF TableInv
<1>5. CASE RecordPath(l)
  <2>1. PICK q \in Packages :
        /\ q = Wanted(l) /\ At(l, "path") /\ UNCHANGED <<instance, overlapped, cutShort>>
        /\ plugins' = [plugins EXCEPT ![q.name].path = q]
        /\ loading' = [loading EXCEPT ![l] = NotLoading]
    BY <1>5, <1>w DEF RecordPath, ReturnFromLoad, At
  <2>2. /\ \A k \in Loaders, p \in Packages : Holds(k, p)' = Holds(k, p)
        /\ \A k \in Loaders : At(k, "path")' => At(k, "path") /\ Wanted(k)' = Wanted(k)
    BY <2>1 DEF Holds, Wanted, At, LoadingTypes, NotLoading
  <2>3. LoadedAs(q) \/ q.name \in cutShort
    BY <1>0, <2>1 DEF PathPending
  <2>4. /\ \A n \in PackageNames : plugins'[n].package = plugins[n].package /\ plugins'[n].loaded = plugins[n].loaded
        /\ \A n \in PackageNames : n # q.name => plugins'[n] = plugins[n]
        /\ plugins'[q.name].path = q
    BY <1>0, <1>p, <2>1 DEF RegistryTables, PluginInfos
  <2>5. \A p \in Packages : LoadedAs(p)' = LoadedAs(p)
    BY <1>p, <2>4 DEF LoadedAs
  <2>6. RegistryTables' /\ NamesMatch'
    BY <1>0, <1>p, <2>1, <2>4 DEF RegistryTables, NamesMatch, PluginInfos
  <2>7. PathsAreTrue'
    BY <1>0, <2>1, <2>3, <2>4 DEF PathsAreTrue, LoadedAs
  <2>8. InitialisedAreOwned' /\ LoadedAreReady' /\ MarkedWhenShared'
    BY <1>0, <2>1, <2>2, <2>5 DEF InitialisedAreOwned, LoadedAreReady, MarkedWhenShared
  <2>9. PathPending'
    BY <1>0, <1>p, <2>1, <2>2, <2>4 DEF PathPending, LoadedAs, LoadingTypes, At, Wanted
  <2>10. QED
    BY <2>6, <2>7, <2>8, <2>9 DEF TableInv
<1>6. QED
  BY <1>1, <1>2, <1>3, <1>4, <1>5 DEF CallerStep

LEMMA UnloadTables ==
  ASSUME NEW n \in PackageNames PROVE TableInv /\ LoadingTypes /\ UnloadFromRegistry(n) => TableInv'
<1> SUFFICES ASSUME TableInv, LoadingTypes, UnloadFromRegistry(n) PROVE TableInv'
  OBVIOUS
<1> DEFINE q == plugins[n].package
<1>0. /\ RegistryTables /\ InitialisedAreOwned /\ LoadedAreReady /\ PathsAreTrue
      /\ NamesMatch /\ MarkedWhenShared /\ PathPending
  BY DEF TableInv
<1>1. /\ q \in Packages /\ q.name = n /\ UNCHANGED loading
      /\ instance' = IF plugins[n].loaded THEN [instance EXCEPT ![q] = "clean"] ELSE instance
      /\ plugins' = [plugins EXCEPT ![n].loaded = FALSE]
      /\ overlapped' = overlapped \ {q} /\ cutShort \subseteq cutShort' /\ cutShort' \subseteq PackageNames
      /\ plugins[n].loaded => \A l \in Loaders : At(l, "path") /\ Wanted(l) = q => n \in cutShort'
  BY <1>0 DEF UnloadFromRegistry, RegistryTables, PluginInfos, NamesMatch
<1>2. /\ plugins' \in [PackageNames -> PluginInfos] /\ ~plugins'[n].loaded
      /\ \A m \in PackageNames : plugins'[m].package = plugins[m].package /\ plugins'[m].path = plugins[m].path
      /\ \A m \in PackageNames : m # n => plugins'[m] = plugins[m]
  BY <1>0, <1>1 DEF RegistryTables, PluginInfos
<1>3. \A p \in Packages : p.name \in PackageNames
  BY DEF PackageNames
<1>4. /\ \A p \in Packages : LoadedAs(p)' <=> LoadedAs(p) /\ p # q
      /\ LoadedAs(q) <=> plugins[n].loaded
  BY <1>1, <1>2, <1>3 DEF LoadedAs
<1>5. \A l \in Loaders, p \in Packages : Holds(l, p)' = Holds(l, p)
  BY <1>1 DEF Holds, Wanted
<1> HIDE DEF q
<1>6. RegistryTables' /\ PathsAreTrue' /\ NamesMatch'
  BY <1>0, <1>1, <1>2 DEF RegistryTables, PathsAreTrue, NamesMatch
<1>7. InitialisedAreOwned' /\ LoadedAreReady' /\ MarkedWhenShared'
  BY <1>0, <1>1, <1>4, <1>5 DEF RegistryTables, InitialisedAreOwned, LoadedAreReady, MarkedWhenShared
<1>8. PathPending'
  <2> SUFFICES ASSUME NEW l \in Loaders, At(l, "path") PROVE (LoadedAs(Wanted(l)) \/ Wanted(l).name \in cutShort)'
    BY <1>1 DEF PathPending, At
  <2>1. Wanted(l) \in Packages /\ Wanted(l)' = Wanted(l)
    BY <1>1 DEF LoadingTypes, At, Wanted
  <2>2. LoadedAs(Wanted(l)) \/ Wanted(l).name \in cutShort
    BY <1>0 DEF PathPending
  <2>3. CASE Wanted(l) = q
    BY <1>1, <1>4, <2>1, <2>2, <2>3
  <2>4. CASE Wanted(l) # q
    BY <1>1, <1>4, <2>1, <2>2, <2>4 DEF LoadedAs
  <2>5. QED
    BY <2>3, <2>4
<1>9. QED
  BY <1>6, <1>7, <1>8 DEF TableInv

\* For any packages and callers: what is initialised is owned, what is loaded and in one
\* hand is ready, paths are those of the plugins that were not unloaded too early, and a
\* caller whose context has ended tries at most once more.
THEOREM RegistryIsConsistent == RegistrySpec => []RegistryConsistent
<1>1. RegistryInit => TableInv /\ AttemptInv
  BY InitRegistryInv
<1>2. TableInv /\ AttemptInv /\ [RegistryNext]_registryVars => (TableInv /\ AttemptInv)'
  <2> SUFFICES ASSUME TableInv, AttemptInv, [RegistryNext]_registryVars PROVE TableInv' /\ AttemptInv'
    OBVIOUS
  <2>0. LoadingTypes
    BY DEF AttemptInv
  <2>1. CASE \E l \in Loaders : CallerStep(l)
    BY <2>0, <2>1, CallerTables, CallerAttempt
  <2>2. CASE \E n \in PackageNames : UnloadFromRegistry(n)
    <3>1. TableInv'
      BY <2>0, <2>2, UnloadTables
    <3>2. AttemptInv'
      BY <2>2 DEF UnloadFromRegistry, AttemptInv, LoadingTypes, OneLateAttempt, RetriesLeft, At
    <3>3. QED
      BY <3>1, <3>2
  <2>3. CASE StopLoader
    <3>1. TableInv'
      BY <2>3, QuietTables, ZenonT(30) DEF StopLoader, QuietStep
    <3>2. AttemptInv'
      BY <2>3 DEF StopLoader, AttemptInv, LoadingTypes, OneLateAttempt, RetriesLeft, At
    <3>3. QED
      BY <3>1, <3>2
  <2>4. CASE UNCHANGED registryVars
    <3>1. TableInv'
      BY <2>4, QuietTables, ZenonT(30) DEF registryVars, QuietStep
    <3>2. AttemptInv'
      BY <2>4 DEF registryVars, AttemptInv, LoadingTypes, OneLateAttempt, RetriesLeft, At
    <3>3. QED
      BY <3>1, <3>2
  <2>5. QED
    BY <2>1, <2>2, <2>3, <2>4 DEF RegistryNext, CallerStep
<1>3. TableInv /\ AttemptInv => RegistryConsistent
  BY RegistryTyped DEF TableInv, AttemptInv, RegistryConsistent, OneLateAttempt, EndedStopTrying
<1>4. QED
  BY <1>1, <1>2, <1>3, PTL DEF RegistrySpec

-----------------------------------------------------------------------------
(* The workload manager.  What every step keeps: the tables have their      *)
(* types, a job is at one place only, the phases of the manager's life are  *)
(* told apart, and the sizes of the queues count what they stand for.       *)

Places == {"new", "submitting", "queued", "inHand", "channel", "running", "backoff"} \cup Ended

JobTypes ==
  job \in [Jobs -> [at : Places, priority : Priorities, retries : 0 .. MaxRetries + 1]]
QueueTypes ==
  /\ queue \in [Priorities -> Seq(Jobs)] /\ depth \in [Priorities -> Int]
  /\ \A p \in Priorities : Len(queue[p]) <= BufferSize
DispatcherTypes ==
  dispatcher \in [pc : {"none", "select", "choose", "send", "count"}, job : Jobs \cup {Nobody},
                  worker : WorkerIds \cup {Nobody}, queue : Priorities \cup {Nobody}]
WorkerTypes ==
  /\ worker \in [WorkerIds -> [run : {"unused", "idle", "busy", "pooled"},
                               chan : Seq(Jobs \cup {Nobody}), closed : BOOLEAN,
                               job : Jobs \cup {Nobody}]]
  /\ \A w \in WorkerIds : Len(worker[w].chan) <= 1
LifecycleTypes ==
  /\ workers \in Seq(WorkerIds)
  /\ concurrency \in Nat /\ starts \in 0 .. MaxStarts
  /\ started \in BOOLEAN /\ stopped \in BOOLEAN /\ adapting \in BOOLEAN
  /\ scaledDown \in BOOLEAN /\ managerCrashed \in BOOLEAN

\* A job is in one place.
QueuedOnce ==
  \A p \in Priorities :
    /\ \A i \in 1 .. Len(queue[p]) : /\ job[queue[p][i]].at = "queued"
                                     /\ job[queue[p][i]].priority = p
    /\ \A i, k \in 1 .. Len(queue[p]) : queue[p][i] = queue[p][k] => i = k
HeldOnce ==
  /\ dispatcher.pc \in {"none", "select"} => dispatcher.queue = Nobody
  /\ dispatcher.pc \in {"choose", "send", "count"} => dispatcher.queue \in Priorities
  /\ dispatcher.pc = "send" => dispatcher.worker \in WorkerIds
  /\ dispatcher.pc \in {"choose", "send"} /\ dispatcher.job # Nobody =>
       job[dispatcher.job].at = "inHand"
InChannel(w, j) == worker[w].chan = <<j>>
Runs(w, j) == worker[w].run = "busy" /\ worker[w].job = j
WithOneWorker ==
  \A j \in Jobs, w \in WorkerIds :
    /\ InChannel(w, j) => /\ job[j].at = "channel"
                          /\ \A v \in WorkerIds : InChannel(v, j) => v = w
    /\ Runs(w, j) => /\ job[j].at = "running"
                     /\ \A v \in WorkerIds : Runs(v, j) => v = w

Retries ==
  \A j \in Jobs : /\ IF job[j].at = "failed" THEN job[j].retries = MaxRetries + 1
                                             ELSE job[j].retries <= MaxRetries
                  /\ job[j].at \in {"backoff", "lost"} => job[j].retries >= 1

BeforeStart ==
  ~started /\ ~stopped => /\ workers = <<>> /\ ~adapting /\ dispatcher.pc = "none"
                          /\ \A j \in Jobs : job[j].at = "new"
BeforeClosing ==
  ~stopped /\ ~scaledDown =>
    /\ \A w \in WorkerIds : ~worker[w].closed /\ worker[w].run # "pooled"
    /\ \A i \in 1 .. Len(workers) : worker[workers[i]].run # "unused"
    /\ \A i, k \in 1 .. Len(workers) : workers[i] = workers[k] => i = k
EnoughWorkers == adapting => Len(workers) >= concurrency

ManagerTables == JobTypes /\ QueueTypes /\ DispatcherTypes /\ WorkerTypes /\ LifecycleTypes
JobPlaces == QueuedOnce /\ HeldOnce /\ WithOneWorker /\ Retries
Lifecycle == BeforeStart /\ BeforeClosing /\ EnoughWorkers /\ CrashNeedsClosing
ManagerInv == ManagerTables /\ JobPlaces /\ Lifecycle /\ DepthIsAccountedFor

USE ManagerAssumption

\* Only job j changes, and keeps its priority.
Moved(j, at, n) == job' = [job EXCEPT ![j] = [at |-> at, priority |-> job[j].priority, retries |-> n]]

\* A job that moves keeps its priority, and the others stay.
LEMMA MovedFacts ==
  ASSUME JobTypes, NEW j \in Jobs, NEW at \in Places, NEW n \in 0 .. MaxRetries + 1, Moved(j, at, n)
  PROVE  /\ JobTypes'
         /\ job'[j].at = at /\ job'[j].retries = n /\ job'[j].priority = job[j].priority
         /\ \A i \in Jobs : i # j => job'[i] = job[i]
BY DEF JobTypes, Moved

\* Place moves a job.
LEMMA PlacedMoved ==
  ASSUME JobTypes, NEW j \in Jobs, NEW at \in Places, Place(j, at)
  PROVE  Moved(j, at, job[j].retries) /\ job[j].retries \in 0 .. MaxRetries + 1
<1>1. job[j] \in [at : Places, priority : Priorities, retries : 0 .. MaxRetries + 1]
  BY DEF JobTypes
<1>2. [job[j] EXCEPT !.at = at] = [at |-> at, priority |-> job[j].priority, retries |-> job[j].retries]
  BY <1>1
<1>3. job' = [job EXCEPT ![j] = [job[j] EXCEPT !.at = at]]
  BY DEF Place
<1>4. QED
  BY <1>1, <1>2, <1>3 DEF Moved

JobsIn(p, A) == {i \in Jobs : job[i].priority = p /\ job[i].at \in A}

\* The sets of jobs that the sizes of the queues are made of.
LEMMA JobsInSets ==
  \A p : JobsAt(p, "submitting") = JobsIn(p, {"submitting"}) /\ Refused(p) = JobsIn(p, {"rejected", "lost"})
BY DEF JobsAt, Refused, JobsIn

\* Such a set gains the job that enters it and loses the one that leaves it.
LEMMA MovedCounts ==
  ASSUME JobTypes, NEW j \in Jobs, NEW at \in Places, NEW n \in 0 .. MaxRetries + 1, Moved(j, at, n),
         NEW p, NEW A
  PROVE  /\ Cardinality(JobsIn(p, A)) \in Nat /\ Cardinality(JobsIn(p, A)') \in Nat
         /\ Cardinality(JobsIn(p, A)') =
              Cardinality(JobsIn(p, A)) + (IF job[j].priority = p /\ at \in A THEN 1 ELSE 0)
                                        - (IF job[j].priority = p /\ job[j].at \in A THEN 1 ELSE 0)
<1> DEFINE rest == {i \in Jobs \ {j} : job[i].priority = p /\ job[i].at \in A}
<1>1. IsFiniteSet(rest) /\ Cardinality(rest) \in Nat
  <2>1. rest \subseteq Jobs /\ IsFiniteSet(Jobs)
    OBVIOUS
  <2>2. QED
    BY <2>1, FS_Subset, FS_CardinalityType
<1>2. Cardinality(rest \cup {j}) = Cardinality(rest) + 1
  <2>1. j \notin rest
    OBVIOUS
  <2>2. QED
    BY <1>1, <2>1, FS_AddElement
<1>3. JobsIn(p, A) = IF job[j].priority = p /\ job[j].at \in A THEN rest \cup {j} ELSE rest
  BY DEF JobsIn
<1>4. JobsIn(p, A)' = IF job[j].priority = p /\ at \in A THEN rest \cup {j} ELSE rest
  <2>1. /\ job'[j].at = at /\ job'[j].priority = job[j].priority
        /\ \A i \in Jobs : i # j => job'[i] = job[i]
    BY MovedFacts
  <2>2. JobsIn(p, A)' = {i \in Jobs : job'[i].priority = p /\ job'[i].at \in A}
    BY DEF JobsIn
  <2>3. QED
    BY <2>1, <2>2
<1>5. QED
  BY <1>1, <1>2, <1>3, <1>4

\* A job that moves from elsewhere leaves the queues, and the workers, as they are.
LEMMA QueuesStay ==
  ASSUME ManagerInv, NEW j \in Jobs, NEW at \in Places, NEW n \in 0 .. MaxRetries + 1,
         Moved(j, at, n), UNCHANGED queue, job[j].at # "queued"
  PROVE  QueuedOnce'
<1>1. \A i \in Jobs : job[i].at = "queued" => job'[i] = job[i]
  BY MovedFacts DEF ManagerInv, ManagerTables
<1>2. QueuedOnce /\ queue' = queue /\ \A p \in Priorities : queue[p] \in Seq(Jobs)
  BY DEF ManagerInv, ManagerTables, JobPlaces, QueueTypes
<1>3. \A p \in Priorities : \A i \in 1 .. Len(queue[p]) : queue[p][i] \in Jobs
  BY <1>2, ElementOfSeq
<1>4. QED
  BY <1>1, <1>2, <1>3 DEF QueuedOnce

LEMMA WorkersStay ==
  ASSUME ManagerInv, NEW j \in Jobs, NEW at \in Places, NEW n \in 0 .. MaxRetries + 1,
         Moved(j, at, n), UNCHANGED worker, job[j].at \notin {"channel", "running"}
  PROVE  WithOneWorker'
<1>1. \A i \in Jobs : job[i].at \in {"channel", "running"} => job'[i] = job[i]
  BY MovedFacts DEF ManagerInv, ManagerTables
<1>2. QED
  BY <1>1 DEF ManagerInv, JobPlaces, WithOneWorker, InChannel, Runs

LEMMA HandStays ==
  ASSUME ManagerInv, NEW j \in Jobs, NEW at \in Places, NEW n \in 0 .. MaxRetries + 1,
         Moved(j, at, n), UNCHANGED dispatcher, job[j].at # "inHand"
  PROVE  HeldOnce'
<1>1. \A i \in Jobs : job[i].at = "inHand" => job'[i] = job[i]
  BY MovedFacts DEF ManagerInv, ManagerTables
<1>2. QED
  BY <1>1 DEF ManagerInv, ManagerTables, JobPlaces, HeldOnce, DispatcherTypes

\* A job's count of retries fits the place it moves to.
LEMMA RetriesMove ==
  ASSUME ManagerInv, NEW j \in Jobs, NEW at \in Places, NEW n \in 0 .. MaxRetries + 1,
         Moved(j, at, n),
         IF at = "failed" THEN n = MaxRetries + 1 ELSE n <= MaxRetries,
         at \in {"backoff", "lost"} => n >= 1
  PROVE  Retries'
BY MovedFacts DEF ManagerInv, ManagerTables, JobPlaces, Retries

\* What is said of the lifecycle does not depend on jobs, once the manager was started.
LEMMA SameLifecycle ==
  ASSUME ManagerInv, UNCHANGED <<workers, worker, lifecycle>>
  PROVE  LifecycleTypes' /\ WorkerTypes' /\ BeforeClosing' /\ EnoughWorkers' /\ CrashNeedsClosing'
BY DEF ManagerInv, ManagerTables, Lifecycle, LifecycleTypes, WorkerTypes, BeforeClosing, EnoughWorkers,
       CrashNeedsClosing, lifecycle

\* The counts are numbers.
LEMMA CountTypes ==
  ASSUME ManagerInv, NEW p \in Priorities, NEW n \in Int, Count(p, n)
  PROVE  /\ depth' \in [Priorities -> Int]
         /\ depth'[p] = depth[p] + n /\ depth[p] \in Int
         /\ \A q \in Priorities : q # p => depth'[q] = depth[q]
BY DEF ManagerInv, ManagerTables, QueueTypes, Count

\* The size of a queue, and what it counts.
Owed(p) == Cardinality(JobsIn(p, {"submitting"})) + Len(queue[p]) + InHand(p)
           + Cardinality(JobsIn(p, {"rejected", "lost"}))

\* DepthIsAccountedFor with a name for the sum.
LEMMA DepthIsOwed == DepthIsAccountedFor <=> (~stopped => \A p \in Priorities : depth[p] = Owed(p))
BY JobsInSets DEF DepthIsAccountedFor, Owed

LEMMA DepthIsOwedNext ==
  DepthIsAccountedFor' <=> (~stopped' => \A p \in Priorities : depth'[p] = Owed(p)')
<1>1. \A p : JobsAt(p, "submitting")' = JobsIn(p, {"submitting"})'
              /\ Refused(p)' = JobsIn(p, {"rejected", "lost"})'
  BY DEF JobsAt, Refused, JobsIn
<1>2. QED
  BY <1>1 DEF DepthIsAccountedFor, Owed

\* How the sum changes when one job moves.
LEMMA OwedMoves ==
  ASSUME JobTypes, NEW j \in Jobs, NEW at \in Places, NEW n \in 0 .. MaxRetries + 1, Moved(j, at, n),
         QueueTypes, QueueTypes', NEW p \in Priorities
  PROVE  /\ Owed(p) \in Int
         /\ Owed(p)' = Owed(p) + (Len(queue'[p]) - Len(queue[p])) + (InHand(p)' - InHand(p))
              + (IF job[j].priority = p /\ at \in {"submitting", "rejected", "lost"} THEN 1 ELSE 0)
              - (IF job[j].priority = p /\ job[j].at \in {"submitting", "rejected", "lost"} THEN 1 ELSE 0)
<1> DEFINE sub == Cardinality(JobsIn(p, {"submitting"}))
           sub2 == Cardinality(JobsIn(p, {"submitting"})')
           ref == Cardinality(JobsIn(p, {"rejected", "lost"}))
           ref2 == Cardinality(JobsIn(p, {"rejected", "lost"})')
           mine == job[j].priority = p
<1>1. /\ sub \in Int
      /\ sub2 = sub + (IF mine /\ at \in {"submitting"} THEN 1 ELSE 0)
                    - (IF mine /\ job[j].at \in {"submitting"} THEN 1 ELSE 0)
  BY MovedCounts
<1>2. /\ ref \in Int
      /\ ref2 = ref + (IF mine /\ at \in {"rejected", "lost"} THEN 1 ELSE 0)
                    - (IF mine /\ job[j].at \in {"rejected", "lost"} THEN 1 ELSE 0)
  BY MovedCounts
<1>3. Len(queue[p]) \in Int /\ Len(queue'[p]) \in Int /\ InHand(p) \in Int /\ InHand(p)' \in Int
  BY DEF QueueTypes, InHand
<1>4. /\ Owed(p) = sub + Len(queue[p]) + InHand(p) + ref
      /\ Owed(p)' = sub2 + Len(queue'[p]) + InHand(p)' + ref2
  BY DEF Owed
<1> HIDE DEF sub, sub2, ref, ref2
<1> DEFINE in == IF mine /\ at \in {"submitting", "rejected", "lost"} THEN 1 ELSE 0
           in1 == IF mine /\ at \in {"submitting"} THEN 1 ELSE 0
           in2 == IF mine /\ at \in {"rejected", "lost"} THEN 1 ELSE 0
           out == IF mine /\ job[j].at \in {"submitting", "rejected", "lost"} THEN 1 ELSE 0
           out1 == IF mine /\ job[j].at \in {"submitting"} THEN 1 ELSE 0
           out2 == IF mine /\ job[j].at \in {"rejected", "lost"} THEN 1 ELSE 0
<1>5. /\ in = in1 + in2 /\ in1 \in Int /\ in2 \in Int
      /\ out = out1 + out2 /\ out1 \in Int /\ out2 \in Int
  OBVIOUS
<1>6. sub2 = sub + in1 - out1 /\ ref2 = ref + in2 - out2
  BY <1>1, <1>2
<1>7. InHand(p)' \in Int /\ Len(queue'[p]) \in Int
  BY <1>3
<1> SUFFICES Owed(p) \in Int
             /\ Owed(p)' = Owed(p) + (Len(queue'[p]) - Len(queue[p])) + (InHand(p)' - InHand(p)) + in - out
  OBVIOUS
<1> DEFINE len == Len(queue[p])  len2 == Len(queue'[p])  hand == InHand(p)  hand2 == InHand(p)'
           owed == Owed(p)  owed2 == Owed(p)'
<1>8. /\ len \in Int /\ len2 \in Int /\ hand \in Int /\ hand2 \in Int
      /\ sub \in Int /\ ref \in Int
      /\ owed = sub + len + hand + ref /\ owed2 = sub2 + len2 + hand2 + ref2
  BY <1>1, <1>2, <1>3, <1>4
<1> HIDE DEF in, in1, in2, out, out1, out2, sub, sub2, ref, ref2, len, len2, hand, hand2, owed, owed2
<1>9. owed \in Int /\ owed2 = owed + (len2 - len) + (hand2 - hand) + in - out
  BY <1>5, <1>6, <1>8
<1>10. QED
  BY <1>9 DEF len, len2, hand, hand2, owed, owed2

\* What a job at the place at adds to the size of queue p.
Joins(j, at, p) == IF job[j].priority = p /\ at \in {"submitting", "rejected", "lost"} THEN 1 ELSE 0

\* Sizes that change as what they count does.
LEMMA DepthFollows ==
  ASSUME ManagerInv, NEW j \in Jobs, NEW at \in Places, NEW n \in 0 .. MaxRetries + 1, Moved(j, at, n),
         QueueTypes', ~stopped' => ~stopped,
         \A p \in Priorities :
            depth'[p] = depth[p] + (Len(queue'[p]) - Len(queue[p])) + (InHand(p)' - InHand(p))
              + Joins(j, at, p)
              - Joins(j, job[j].at, p)
  PROVE  DepthIsAccountedFor'
<1> SUFFICES ASSUME NEW p \in Priorities, ~stopped' PROVE depth'[p] = Owed(p)'
  BY DepthIsOwedNext
<1>1. JobTypes /\ QueueTypes /\ depth[p] = Owed(p)
  BY DepthIsOwed DEF ManagerInv, ManagerTables
<1>2. /\ Owed(p) \in Int
      /\ Owed(p)' = Owed(p) + (Len(queue'[p]) - Len(queue[p])) + (InHand(p)' - InHand(p))
           + Joins(j, at, p)
           - Joins(j, job[j].at, p)
  BY <1>1, OwedMoves DEF Joins
<1>3. QED
  BY <1>1, <1>2

LEMMA DepthFollowsDispatcher ==
  ASSUME ManagerInv, UNCHANGED <<job, queue>>, ~stopped' => ~stopped,
         \A p \in Priorities : depth'[p] = depth[p] + (InHand(p)' - InHand(p))
  PROVE  DepthIsAccountedFor'
<1> SUFFICES ASSUME NEW p \in Priorities, ~stopped' PROVE depth'[p] = Owed(p)'
  BY DepthIsOwedNext
<1>1. depth[p] = Owed(p) /\ IsFiniteSet(Jobs) /\ queue \in [Priorities -> Seq(Jobs)]
  BY DepthIsOwed DEF ManagerInv, ManagerTables, QueueTypes
<1>2. Cardinality(JobsIn(p, {"submitting"})) \in Nat /\ Cardinality(JobsIn(p, {"rejected", "lost"})) \in Nat
  <2>1. JobsIn(p, {"submitting"}) \subseteq Jobs /\ JobsIn(p, {"rejected", "lost"}) \subseteq Jobs
    BY DEF JobsIn
  <2>2. QED
    BY <1>1, <2>1, FS_Subset, FS_CardinalityType
<1>3. /\ JobsIn(p, {"submitting"})' = JobsIn(p, {"submitting"})
      /\ JobsIn(p, {"rejected", "lost"})' = JobsIn(p, {"rejected", "lost"})
  BY DEF JobsIn
<1>4. Len(queue[p]) \in Int /\ InHand(p) \in Int /\ InHand(p)' \in Int
  BY <1>1 DEF InHand
<1>5. QED
  BY <1>1, <1>2, <1>3, <1>4 DEF Owed

\* A panic, which only a closed channel can raise.
LEMMA CrashInv == ManagerInv /\ Crash /\ (stopped \/ scaledDown) => ManagerInv'
<1> SUFFICES ASSUME ManagerInv, Crash, stopped \/ scaledDown PROVE ManagerInv'
  OBVIOUS
<1> USE DEF ManagerInv, Crash
<1>1. ManagerTables'
  BY DEF ManagerTables, JobTypes, QueueTypes, DispatcherTypes, WorkerTypes, LifecycleTypes, queues
<1>2. JobPlaces'
  BY DEF JobPlaces, QueuedOnce, HeldOnce, WithOneWorker, InChannel, Runs, Retries, queues
<1>3. Lifecycle'
  BY DEF Lifecycle, BeforeStart, BeforeClosing, EnoughWorkers, CrashNeedsClosing
<1>4. DepthIsAccountedFor'
  <2>1. \A p \in Priorities : depth'[p] = depth[p] + (InHand(p)' - InHand(p))
    BY DEF ManagerTables, QueueTypes, InHand, queues
  <2>2. QED
    BY <2>1, DepthFollowsDispatcher DEF queues
<1>5. QED
  BY <1>1, <1>2, <1>3, <1>4

\* A job that is new, or retried, is submitted while the manager runs.
LEMMA SubmittingInv ==
  ASSUME ManagerInv, NEW j \in Jobs, job[j].at \in {"new", "backoff"}, started,
         Place(j, "submitting"), Count(job[j].priority, 1),
         UNCHANGED <<queue, dispatcher, workers, worker, lifecycle>>
  PROVE  ManagerInv'
<1> DEFINE q == job[j].priority
<1>1. JobTypes /\ q \in Priorities /\ UNCHANGED <<started, stopped>>
  BY DEF ManagerInv, ManagerTables, JobTypes, lifecycle
<1>2. /\ Moved(j, "submitting", job[j].retries) /\ "submitting" \in Places
      /\ job[j].retries \in 0 .. MaxRetries + 1 /\ job[j].retries <= MaxRetries
  BY <1>1, PlacedMoved DEF Places, ManagerInv, JobPlaces, Retries
<1>3. /\ depth' \in [Priorities -> Int] /\ depth'[q] = depth[q] + 1
      /\ \A p \in Priorities : p # q => depth'[p] = depth[p]
      /\ \A p \in Priorities : depth[p] \in Int
  BY <1>1, CountTypes DEF ManagerInv, ManagerTables, QueueTypes
<1>4. ManagerTables'
  BY <1>1, <1>2, <1>3, MovedFacts, SameLifecycle
     DEF ManagerTables, ManagerInv, QueueTypes, DispatcherTypes
<1>5. JobPlaces'
  BY <1>1, <1>2, QueuesStay, HandStays, WorkersStay, RetriesMove DEF JobPlaces
<1>6. Lifecycle'
  BY <1>1, SameLifecycle DEF Lifecycle, BeforeStart
<1>7. DepthIsAccountedFor'
  <2>1. UNCHANGED <<queue, dispatcher, stopped>> /\ QueueTypes /\ QueueTypes'
    BY <1>1, <1>4 DEF ManagerInv, ManagerTables
  <2>2. \A p \in Priorities : Len(queue[p]) \in Int /\ InHand(p) \in Int /\ InHand(p)' = InHand(p)
    BY <2>1 DEF QueueTypes, InHand
  <2>3. \A p \in Priorities : Joins(j, "submitting", p) = (IF p = q THEN 1 ELSE 0) /\ Joins(j, job[j].at, p) = 0
    BY DEF Joins
  <2>4. ASSUME NEW p \in Priorities
        PROVE  depth'[p] = depth[p] + (Len(queue'[p]) - Len(queue[p])) + (InHand(p)' - InHand(p))
                             + Joins(j, "submitting", p) - Joins(j, job[j].at, p)
    <3>1. CASE p = q
      BY <1>3, <2>1, <2>2, <2>3, <3>1
    <3>2. CASE p # q
      BY <1>3, <2>1, <2>2, <2>3, <3>2
    <3>3. QED
      BY <3>1, <3>2
  <2>5. QED
    BY <1>1, <1>2, <2>1, <2>4, DepthFollows
<1>8. QED
  BY <1>4, <1>5, <1>6, <1>7 DEF ManagerInv

LEMMA SubmitJobInv == ASSUME NEW j \in Jobs PROVE ManagerInv /\ SubmitJob(j) => ManagerInv'
BY SubmittingInv DEF SubmitJob

\* A job that is lost or rejected keeps its part of the size of the queue.
LEMMA GivenUpInv ==
  ASSUME ManagerInv, NEW j \in Jobs, NEW at \in {"rejected", "lost"},
         job[j].at = "submitting" \/ (job[j].at = "backoff" /\ ~started),
         at = "lost" => job[j].retries >= 1,
         Place(j, at), UNCHANGED <<queues, dispatcher, workers, worker, lifecycle>>
  PROVE  ManagerInv'
<1>1. JobTypes /\ UNCHANGED <<started, stopped, queue, depth>>
  BY DEF ManagerInv, ManagerTables, lifecycle, queues
<1>2. /\ Moved(j, at, job[j].retries) /\ at \in Places
      /\ job[j].retries \in 0 .. MaxRetries + 1 /\ job[j].retries <= MaxRetries
  <2>1. at \in Places
    BY DEF Places, Ended
  <2>2. QED
    BY <1>1, <2>1, PlacedMoved DEF ManagerInv, JobPlaces, Retries
<1>3. ManagerTables'
  BY <1>1, <1>2, MovedFacts, SameLifecycle
     DEF ManagerTables, ManagerInv, QueueTypes, DispatcherTypes
<1>4. JobPlaces'
  BY <1>1, <1>2, QueuesStay, HandStays, WorkersStay, RetriesMove DEF JobPlaces
<1>5. ~started => stopped
  BY DEF ManagerInv, Lifecycle, BeforeStart
<1>6. Lifecycle'
  BY <1>1, <1>5, SameLifecycle DEF Lifecycle, BeforeStart, ManagerInv
<1>7. DepthIsAccountedFor'
  <2>1. CASE job[j].at = "submitting"
    <3>1. UNCHANGED <<queue, dispatcher, stopped>> /\ QueueTypes /\ QueueTypes'
      BY <1>1, <1>3 DEF ManagerInv, ManagerTables
    <3>2. \A p \in Priorities : Len(queue[p]) \in Int /\ InHand(p) \in Int /\ InHand(p)' = InHand(p)
                                /\ depth'[p] = depth[p] /\ depth[p] \in Int
      BY <1>1, <3>1 DEF QueueTypes, InHand
    <3>3. \A p \in Priorities : Joins(j, at, p) = Joins(j, job[j].at, p) /\ Joins(j, at, p) \in Int
      BY <2>1 DEF Joins
    <3>4. \A p \in Priorities :
            depth'[p] = depth[p] + (Len(queue'[p]) - Len(queue[p])) + (InHand(p)' - InHand(p))
              + Joins(j, at, p) - Joins(j, job[j].at, p)
      BY <3>1, <3>2, <3>3
    <3>5. QED
      BY <1>1, <1>2, <3>1, <3>4, DepthFollows
  <2>2. CASE ~started
    BY <1>1, <1>5, <2>2 DEF DepthIsAccountedFor
  <2>3. QED
    BY <2>1, <2>2
<1>8. QED
  BY <1>3, <1>4, <1>6, <1>7 DEF ManagerInv

LEMMA BackoffOverInv == ASSUME NEW j \in Jobs PROVE ManagerInv /\ BackoffOver(j) => ManagerInv'
<1> SUFFICES ASSUME ManagerInv, BackoffOver(j) PROVE ManagerInv'
  OBVIOUS
<1>1. CASE started
  BY <1>1, SubmittingInv DEF BackoffOver
<1>2. CASE ~started
  <2>1. job[j].at = "backoff" /\ job[j].retries >= 1
    BY DEF BackoffOver, ManagerInv, JobPlaces, Retries
  <2>2. QED
    BY <1>2, <2>1, GivenUpInv DEF BackoffOver, queues
<1>3. QED
  BY <1>1, <1>2

LEMMA EnqueueTimesOutInv == ASSUME NEW j \in Jobs PROVE ManagerInv /\ EnqueueTimesOut(j) => ManagerInv'
<1> SUFFICES ASSUME ManagerInv, EnqueueTimesOut(j) PROVE ManagerInv'
  OBVIOUS
<1>1. job[j].retries \in 0 .. MaxRetries + 1
  BY DEF ManagerInv, ManagerTables, JobTypes
<1>2. QED
  BY <1>1, GivenUpInv DEF EnqueueTimesOut

LEMMA EnqueueInv == ASSUME NEW j \in Jobs PROVE ManagerInv /\ Enqueue(j) => ManagerInv'
<1> SUFFICES ASSUME ManagerInv, Enqueue(j) PROVE ManagerInv'
  OBVIOUS
<1> DEFINE q == job[j].priority
<1>1. JobTypes /\ QueueTypes /\ q \in Priorities /\ job[j].at = "submitting" /\ UNCHANGED <<started, stopped, depth, dispatcher>>
  BY DEF ManagerInv, ManagerTables, JobTypes, lifecycle, Enqueue
<1>2. /\ Moved(j, "queued", job[j].retries) /\ "queued" \in Places
      /\ job[j].retries \in 0 .. MaxRetries + 1 /\ job[j].retries <= MaxRetries
  BY <1>1, PlacedMoved DEF Places, ManagerInv, JobPlaces, Retries, Enqueue
<1>3. /\ queue' \in [Priorities -> Seq(Jobs)] /\ queue'[q] = Append(queue[q], j)
      /\ \A p \in Priorities : p # q => queue'[p] = queue[p]
      /\ queue[q] \in Seq(Jobs) /\ Len(queue[q]) < BufferSize /\ BufferSize \in Nat
  BY <1>1 DEF Enqueue, QueueTypes
<1>4. /\ Len(queue'[q]) = Len(queue[q]) + 1
      /\ queue'[q][Len(queue[q]) + 1] = j
      /\ \A i \in 1 .. Len(queue[q]) : queue'[q][i] = queue[q][i]
      /\ Len(queue[q]) \in Nat /\ Len(queue[q]) + 1 <= BufferSize
  BY <1>3
<1>a. QueueTypes'
  <2>1. \A p \in Priorities : Len(queue'[p]) <= BufferSize
    BY <1>1, <1>3, <1>4 DEF QueueTypes
  <2>2. QED
    BY <1>1, <1>3, <2>1 DEF QueueTypes
<1>5. ManagerTables'
  BY <1>1, <1>2, <1>a, MovedFacts, SameLifecycle
     DEF ManagerTables, ManagerInv, DispatcherTypes, Enqueue
<1>6. JobPlaces'
  <2>1. QueuedOnce'
    <3>1. /\ job'[j].at = "queued" /\ job'[j].priority = q
          /\ \A i \in Jobs : i # j => job'[i] = job[i]
      BY <1>1, <1>2, MovedFacts
    <3>2. \A p \in Priorities : \A i \in 1 .. Len(queue[p]) : queue[p][i] \in Jobs /\ queue[p][i] # j
      BY <1>1 DEF QueueTypes, ManagerInv, JobPlaces, QueuedOnce
    <3>3. ASSUME NEW p \in Priorities
          PROVE  /\ \A i \in 1 .. Len(queue'[p]) : /\ job'[queue'[p][i]].at = "queued"
                                                   /\ job'[queue'[p][i]].priority = p
                 /\ \A i, k \in 1 .. Len(queue'[p]) : queue'[p][i] = queue'[p][k] => i = k
      <4>1. CASE p = q
        <5>1. \A i, k \in 1 .. Len(queue[q]) : queue[q][i] = queue[q][k] => i = k
          BY <1>1 DEF ManagerInv, JobPlaces, QueuedOnce
        <5>2. \A i \in 1 .. Len(queue[q]) : job[queue[q][i]].at = "queued" /\ job[queue[q][i]].priority = q
          BY <1>1 DEF ManagerInv, JobPlaces, QueuedOnce
        <5>3. \A i \in 1 .. Len(queue'[q]) : i \in 1 .. Len(queue[q]) \/ i = Len(queue[q]) + 1
          BY <1>4
        <5>4. ASSUME NEW i \in 1 .. Len(queue'[q])
              PROVE  job'[queue'[q][i]].at = "queued" /\ job'[queue'[q][i]].priority = q
          <6>1. CASE i \in 1 .. Len(queue[q])
            BY <1>1, <1>4, <3>1, <3>2, <5>2, <6>1
          <6>2. CASE i = Len(queue[q]) + 1
            BY <1>4, <3>1, <6>2
          <6>3. QED
            BY <5>3, <6>1, <6>2
        <5>5. ASSUME NEW i \in 1 .. Len(queue'[q]), NEW k \in 1 .. Len(queue'[q]), queue'[q][i] = queue'[q][k]
              PROVE  i = k
          <6>1. CASE i = Len(queue[q]) + 1
            BY <1>1, <1>4, <3>2, <5>3, <5>5, <6>1
          <6>2. CASE k = Len(queue[q]) + 1
            BY <1>1, <1>4, <3>2, <5>3, <5>5, <6>2
          <6>3. CASE i \in 1 .. Len(queue[q]) /\ k \in 1 .. Len(queue[q])
            BY <1>4, <5>1, <5>5, <6>3
          <6>4. QED
            BY <5>3, <6>1, <6>2, <6>3
        <5>6. QED
          BY <4>1, <5>4, <5>5
      <4>2. CASE p # q
        <5>1. queue'[p] = queue[p]
          BY <1>3, <4>2
        <5>2. QueuedOnce
          BY DEF ManagerInv, JobPlaces
        <5>3. \A i \in 1 .. Len(queue[p]) : job'[queue[p][i]] = job[queue[p][i]]
          BY <3>1, <3>2
        <5>4. QED
          BY <5>1, <5>2, <5>3 DEF QueuedOnce
      <4>3. QED
        BY <4>1, <4>2
    <3>4. QED
      BY <3>3 DEF QueuedOnce
  <2>2. QED
    BY <1>1, <1>2, <2>1, HandStays, WorkersStay, RetriesMove DEF JobPlaces, Enqueue
<1>7. Lifecycle'
  BY <1>1, SameLifecycle DEF Lifecycle, BeforeStart, Enqueue, ManagerInv
<1>8. DepthIsAccountedFor'
  <2>1. \A p \in Priorities : /\ Len(queue[p]) \in Int /\ InHand(p) \in Int /\ InHand(p)' = InHand(p)
                              /\ Len(queue'[p]) = Len(queue[p]) + (IF p = q THEN 1 ELSE 0)
                              /\ depth'[p] = depth[p] /\ depth[p] \in Int
    <3>1. \A p \in Priorities : /\ queue[p] \in Seq(Jobs) /\ InHand(p) \in Int /\ InHand(p)' = InHand(p)
                                /\ depth'[p] = depth[p] /\ depth[p] \in Int
      BY <1>1 DEF QueueTypes, InHand
    <3>2. \A p \in Priorities : Len(queue[p]) \in Int
      BY <3>1, LenProperties
    <3>3. \A p \in Priorities : Len(queue'[p]) = Len(queue[p]) + (IF p = q THEN 1 ELSE 0)
      <4>1. ASSUME NEW p \in Priorities, p # q PROVE Len(queue'[p]) = Len(queue[p]) + 0
        BY <1>3, <3>2, <4>1
      <4>2. QED
        BY <1>4, <3>2, <4>1
    <3>4. QED
      BY <3>1, <3>2, <3>3
  <2>2. \A p \in Priorities :
            depth'[p] = depth[p] + (Len(queue'[p]) - Len(queue[p])) + (InHand(p)' - InHand(p))
              + Joins(j, "queued", p)
              - Joins(j, job[j].at, p)
    <3> SUFFICES ASSUME NEW p \in Priorities
                 PROVE  depth'[p] = depth[p] + (Len(queue'[p]) - Len(queue[p])) + (InHand(p)' - InHand(p))
                          + 0 - (IF q = p THEN 1 ELSE 0)
      BY <1>1 DEF Joins
    <3>a. /\ Len(queue[p]) \in Int /\ InHand(p) \in Int /\ InHand(p)' = InHand(p)
          /\ depth'[p] = depth[p] /\ depth[p] \in Int
      BY <2>1
    <3>1. CASE p = q
      <4>1. Len(queue'[p]) = Len(queue[p]) + 1
        BY <1>4, <3>1
      <4>2. QED
        BY <3>a, <3>1, <4>1
    <3>2. CASE p # q
      <4>1. Len(queue'[p]) = Len(queue[p])
        BY <1>3, <3>2
      <4>2. QED
        BY <3>a, <3>2, <4>1
    <3>3. QED
      BY <3>1, <3>2
  <2>3. QED
    BY <1>1, <1>2, <1>a, <2>2, DepthFollows
<1>9. QED
  BY <1>5, <1>6, <1>7, <1>8 DEF ManagerInv

LEMMA SubmissionInv == ASSUME NEW j \in Jobs PROVE ManagerInv /\ Submission(j) => ManagerInv'
BY BackoffOverInv, EnqueueInv, EnqueueTimesOutInv, CrashInv DEF Submission, EnqueueClosed

LEMMA DepthFollowsHandled ==
  ASSUME ManagerInv, NEW j \in Jobs, NEW at \in Places, NEW n \in 0 .. MaxRetries + 1, Moved(j, at, n),
         QueueTypes', ~stopped' => ~stopped,
         at \notin {"submitting", "rejected", "lost"}, job[j].at \notin {"submitting", "rejected", "lost"},
         \A p \in Priorities :
            depth'[p] = depth[p] + (Len(queue'[p]) - Len(queue[p])) + (InHand(p)' - InHand(p))
  PROVE  DepthIsAccountedFor'
<1>1. \A p \in Priorities : /\ depth[p] \in Int /\ Len(queue[p]) \in Int /\ InHand(p) \in Int
                          /\ Len(queue'[p]) \in Int /\ InHand(p)' \in Int
  BY DEF ManagerInv, ManagerTables, QueueTypes, InHand
<1>2. \A p \in Priorities :
            depth'[p] = depth[p] + (Len(queue'[p]) - Len(queue[p])) + (InHand(p)' - InHand(p))
              + Joins(j, at, p)
              - Joins(j, job[j].at, p)
  <2>1. \A p \in Priorities : Joins(j, at, p) = 0 /\ Joins(j, job[j].at, p) = 0
    BY DEF Joins
  <2>2. ASSUME NEW p \in Priorities
        PROVE  depth'[p] = depth[p] + (Len(queue'[p]) - Len(queue[p])) + (InHand(p)' - InHand(p)) + 0 - 0
    <3>1. /\ depth[p] \in Int /\ Len(queue[p]) \in Int /\ InHand(p) \in Int
          /\ Len(queue'[p]) \in Int /\ InHand(p)' \in Int
          /\ depth'[p] = depth[p] + (Len(queue'[p]) - Len(queue[p])) + (InHand(p)' - InHand(p))
      BY <1>1
    <3> DEFINE d == depth[p]  l == Len(queue[p])  h == InHand(p)  l2 == Len(queue'[p])  h2 == InHand(p)'
    <3> SUFFICES depth'[p] = d + (l2 - l) + (h2 - h) + 0 - 0
      OBVIOUS
    <3>2. d \in Int /\ l \in Int /\ h \in Int /\ l2 \in Int /\ h2 \in Int /\ depth'[p] = d + (l2 - l) + (h2 - h)
      BY <3>1
    <3> HIDE DEF d, l, h, l2, h2
    <3>3. QED
      BY <3>2
  <2>3. QED
    BY <2>1, <2>2
<1>3. QED
  BY <1>2, DepthFollows

\* A step of the dispatcher alone.
LEMMA DispatcherStep ==
  ASSUME ManagerInv, UNCHANGED <<job, queue, workers, worker, lifecycle>>,
         QueueTypes', DispatcherTypes', HeldOnce', dispatcher'.pc = "none" => stopped,
         started \/ stopped,
         \A p \in Priorities : depth'[p] = depth[p] + (InHand(p)' - InHand(p))
  PROVE  ManagerInv'
<1>1. ManagerTables'
  BY SameLifecycle DEF ManagerInv, ManagerTables, JobTypes
<1>2. JobPlaces'
  BY DEF ManagerInv, JobPlaces, QueuedOnce, WithOneWorker, Retries, InChannel, Runs
<1>3. Lifecycle'
  BY SameLifecycle DEF Lifecycle, BeforeStart, lifecycle
<1>4. DepthIsAccountedFor'
  BY DepthFollowsDispatcher DEF lifecycle
<1>5. QED
  BY <1>1, <1>2, <1>3, <1>4 DEF ManagerInv

\* There is a dispatcher only once the manager was started.
LEMMA DispatcherRuns == ManagerInv /\ dispatcher.pc # "none" => started \/ stopped
BY DEF ManagerInv, Lifecycle, BeforeStart, ManagerTables, LifecycleTypes

LEMMA ReceiveFromClosedInv == ASSUME NEW p \in Priorities PROVE ManagerInv /\ ReceiveFromClosed(p) => ManagerInv'
<1> SUFFICES ASSUME ManagerInv, ReceiveFromClosed(p) PROVE ManagerInv'
  OBVIOUS
<1>1. dispatcher.pc = "select" /\ stopped /\ stopped' = stopped /\ UNCHANGED <<job, queue, depth, workers, worker, lifecycle>>
  BY DEF ReceiveFromClosed, lifecycle, queues
<1>2. dispatcher' = [pc |-> "choose", job |-> Nobody, worker |-> Nobody, queue |-> p]
  BY DEF ReceiveFromClosed, Selecting
<1>3. ManagerTables'
  BY <1>1, <1>2, SameLifecycle DEF ManagerInv, ManagerTables, JobTypes, QueueTypes, DispatcherTypes
<1>4. JobPlaces'
  BY <1>1, <1>2 DEF ManagerInv, JobPlaces, QueuedOnce, HeldOnce, WithOneWorker, Retries, InChannel, Runs
<1>5. Lifecycle'
  BY <1>1, SameLifecycle DEF Lifecycle, BeforeStart
<1>6. DepthIsAccountedFor'
  BY <1>1 DEF DepthIsAccountedFor
<1>7. QED
  BY <1>3, <1>4, <1>5, <1>6 DEF ManagerInv

LEMMA DispatcherEndsInv == ManagerInv /\ DispatcherEnds => ManagerInv'
<1> SUFFICES ASSUME ManagerInv, DispatcherEnds PROVE ManagerInv'
  OBVIOUS
<1>1. dispatcher.pc = "select" /\ stopped /\ UNCHANGED <<job, queue, depth, workers, worker, lifecycle>>
  BY DEF DispatcherEnds, queues
<1>2. /\ DispatcherTypes /\ dispatcher' = [dispatcher EXCEPT !.pc = "none"] /\ dispatcher.queue = Nobody
      /\ QueueTypes
  BY <1>1 DEF DispatcherEnds, ManagerInv, ManagerTables, JobPlaces, HeldOnce
<1>3. DispatcherTypes' /\ HeldOnce' /\ dispatcher'.queue = Nobody /\ QueueTypes'
  BY <1>1, <1>2 DEF DispatcherTypes, HeldOnce, QueueTypes
<1>4. \A p \in Priorities : depth'[p] = depth[p] + (InHand(p)' - InHand(p))
  BY <1>1, <1>2, <1>3 DEF InHand, QueueTypes
<1>5. QED
  BY <1>1, <1>3, <1>4, DispatcherStep

LEMMA DispatchedInv == ManagerInv /\ Dispatched => ManagerInv'
<1> SUFFICES ASSUME ManagerInv, Dispatched PROVE ManagerInv'
  OBVIOUS
<1> DEFINE q == dispatcher.queue
<1>1. dispatcher.pc = "count" /\ UNCHANGED <<job, queue, workers, worker, lifecycle>> /\ Count(q, -1)
  BY DEF Dispatched
<1>2. dispatcher' = [pc |-> "select", job |-> Nobody, worker |-> Nobody, queue |-> Nobody]
  BY DEF Dispatched, Selecting
<1>3. QueueTypes /\ q \in Priorities /\ -1 \in Int
  BY <1>1 DEF ManagerInv, ManagerTables, JobPlaces, HeldOnce
<1>4. /\ depth' \in [Priorities -> Int] /\ depth'[q] = depth[q] + (-1)
      /\ \A p \in Priorities : p # q => depth'[p] = depth[p]
      /\ \A p \in Priorities : depth[p] \in Int
  BY <1>1, <1>3, CountTypes DEF QueueTypes
<1>5. QueueTypes' /\ DispatcherTypes' /\ HeldOnce'
  BY <1>1, <1>2, <1>3, <1>4 DEF QueueTypes, DispatcherTypes, HeldOnce
<1>6. \A p \in Priorities : depth'[p] = depth[p] + (InHand(p)' - InHand(p))
  BY <1>2, <1>3, <1>4 DEF InHand
<1>7. started \/ stopped
  BY <1>1, DispatcherRuns
<1>8. dispatcher'.pc # "none"
  BY <1>2
<1>9. QED
  BY <1>1, <1>5, <1>6, <1>7, <1>8, DispatcherStep

LEMMA ReceiveInv == ASSUME NEW p \in Priorities PROVE ManagerInv /\ Receive(p) => ManagerInv'
<1> SUFFICES ASSUME ManagerInv, Receive(p) PROVE ManagerInv'
  OBVIOUS
<1> DEFINE j == Head(queue[p])
<1>1. /\ dispatcher.pc = "select" /\ dispatcher.queue = Nobody
      /\ UNCHANGED <<depth, workers, worker, lifecycle, started, stopped>>
      /\ JobTypes /\ QueueTypes
  BY DEF ManagerInv, ManagerTables, JobPlaces, HeldOnce, Receive, lifecycle
<1>2. queue[p] \in Seq(Jobs) /\ queue[p] # <<>>
  BY <1>1 DEF Receive, QueueTypes
<1>3. /\ 1 \in 1 .. Len(queue[p]) /\ j = queue[p][1] /\ j \in Jobs /\ Len(queue[p]) \in Nat
      /\ Len(Tail(queue[p])) = Len(queue[p]) - 1 /\ Tail(queue[p]) \in Seq(Jobs)
      /\ \A i \in 1 .. Len(Tail(queue[p])) : Tail(queue[p])[i] = queue[p][i + 1] /\ i + 1 \in 1 .. Len(queue[p])
  BY <1>2
<1>4. job[j].at = "queued" /\ job[j].priority = p
  BY <1>3 DEF ManagerInv, JobPlaces, QueuedOnce
<1>5. /\ Moved(j, "inHand", job[j].retries) /\ "inHand" \in Places
      /\ job[j].retries \in 0 .. MaxRetries + 1 /\ job[j].retries <= MaxRetries
  BY <1>1, <1>3, <1>4, PlacedMoved DEF Places, ManagerInv, JobPlaces, Retries, Receive
<1>6. /\ queue' \in [Priorities -> Seq(Jobs)] /\ queue'[p] = Tail(queue[p])
      /\ \A q \in Priorities : q # p => queue'[q] = queue[q]
  BY <1>1, <1>3 DEF Receive, QueueTypes
<1>7. QueueTypes'
  <2>0. BufferSize \in Nat /\ \A q \in Priorities : Len(queue[q]) \in Nat /\ Len(queue[q]) <= BufferSize
    BY <1>1 DEF QueueTypes
  <2>1. ASSUME NEW q \in Priorities PROVE Len(queue'[q]) <= BufferSize
    <3>1. CASE q = p
      BY <1>3, <1>6, <2>0, <3>1
    <3>2. QED
      BY <1>6, <2>0, <3>1
  <2>2. QED
    BY <1>1, <1>6, <2>1 DEF QueueTypes
<1>8. dispatcher' = [pc |-> "choose", job |-> j, worker |-> Nobody, queue |-> p]
  BY DEF Receive, Selecting
<1>9. ManagerTables'
  BY <1>1, <1>3, <1>5, <1>7, <1>8, MovedFacts, SameLifecycle
     DEF ManagerTables, ManagerInv, DispatcherTypes
<1>10. /\ job'[j].at = "inHand" /\ job'[j].priority = p
       /\ \A i \in Jobs : i # j => job'[i] = job[i]
  BY <1>1, <1>3, <1>4, <1>5, MovedFacts
<1>11. JobPlaces'
  <2>1. QueuedOnce'
    <3>1. ASSUME NEW q \in Priorities
          PROVE  /\ \A i \in 1 .. Len(queue'[q]) : /\ job'[queue'[q][i]].at = "queued"
                                                   /\ job'[queue'[q][i]].priority = q
                 /\ \A i, k \in 1 .. Len(queue'[q]) : queue'[q][i] = queue'[q][k] => i = k
      <4>0. /\ \A i \in 1 .. Len(queue[q]) : /\ job[queue[q][i]].at = "queued" /\ job[queue[q][i]].priority = q
                                             /\ queue[q][i] \in Jobs
            /\ \A i, k \in 1 .. Len(queue[q]) : queue[q][i] = queue[q][k] => i = k
        BY <1>1 DEF ManagerInv, JobPlaces, QueuedOnce, QueueTypes
      <4>1. CASE q = p
        <5>1. \A i \in 1 .. Len(queue'[p]) : queue[p][i + 1] # j
          BY <1>3, <1>6, <4>0, <4>1
        <5>2. \A i \in 1 .. Len(queue'[p]) : i \in Int
          OBVIOUS
        <5>3. ASSUME NEW i \in 1 .. Len(queue'[p])
              PROVE  job'[queue'[p][i]] = job[queue'[p][i]] /\ queue'[p][i] = queue[p][i + 1]
                     /\ i + 1 \in 1 .. Len(queue[p])
          BY <1>3, <1>6, <1>10, <4>0, <4>1, <5>1
        <5>4. ASSUME NEW i \in 1 .. Len(queue'[p]), NEW k \in 1 .. Len(queue'[p]), queue'[p][i] = queue'[p][k]
              PROVE  i = k
          <6>1. i + 1 = k + 1
            BY <4>0, <4>1, <5>3, <5>4
          <6>2. QED
            BY <5>2, <6>1
        <5>5. ASSUME NEW i \in 1 .. Len(queue'[p])
              PROVE  job'[queue'[p][i]].at = "queued" /\ job'[queue'[p][i]].priority = p
          <6>1. PICK k \in 1 .. Len(queue[p]) : k = i + 1
            BY <5>3
          <6>2. job'[queue'[p][i]] = job[queue[p][k]]
            BY <5>3, <6>1
          <6>3. QED
            BY <4>0, <4>1, <6>2
        <5>6. QED
          BY <4>1, <5>4, <5>5
      <4>2. CASE q # p
        <5>1. \A i \in 1 .. Len(queue[q]) : queue[q][i] # j
          BY <1>4, <4>0, <4>2
        <5>2. queue'[q] = queue[q]
          BY <1>6, <4>2
        <5>3. \A i \in 1 .. Len(queue[q]) : job'[queue[q][i]] = job[queue[q][i]]
          BY <1>10, <4>0, <5>1
        <5>4. QED
          BY <4>0, <5>2, <5>3
      <4>3. QED
        BY <4>1, <4>2
    <3>2. QED
      BY <3>1 DEF QueuedOnce
  <2>2. HeldOnce'
    BY <1>8, <1>10 DEF HeldOnce
  <2>3. QED
    BY <1>1, <1>3, <1>4, <1>5, <2>1, <2>2, WorkersStay, RetriesMove DEF JobPlaces
<1>12. started \/ stopped
  BY <1>1, DispatcherRuns
<1>13. Lifecycle'
  BY <1>1, <1>12, SameLifecycle DEF Lifecycle, BeforeStart
<1>14. DepthIsAccountedFor'
  <2>1. \A q \in Priorities : depth'[q] = depth[q] + (Len(queue'[q]) - Len(queue[q])) + (InHand(q)' - InHand(q))
    <3>1. ASSUME NEW q \in Priorities
          PROVE  depth'[q] = depth[q] + (Len(queue'[q]) - Len(queue[q])) + (InHand(q)' - InHand(q))
      <4>1. depth[q] \in Int /\ depth'[q] = depth[q] /\ InHand(q) = 0 /\ Len(queue[q]) \in Int
        BY <1>1 DEF InHand, QueueTypes
      <4>2. CASE q = p
        <5>1. InHand(q)' = 1 /\ Len(queue'[q]) = Len(queue[q]) - 1
          BY <1>3, <1>6, <1>8, <4>2 DEF InHand
        <5>2. QED
          BY <4>1, <5>1
      <4>3. CASE q # p
        <5>1. InHand(q)' = 0 /\ Len(queue'[q]) = Len(queue[q])
          BY <1>6, <1>8, <4>3 DEF InHand
        <5>2. QED
          BY <4>1, <5>1
      <4>4. QED
        BY <4>2, <4>3
    <3>2. QED
      BY <3>1
  <2>2. QED
    BY <1>1, <1>3, <1>4, <1>5, <1>7, <2>1, DepthFollowsHandled
<1>15. QED
  BY <1>9, <1>11, <1>13, <1>14 DEF ManagerInv

\* The dispatcher lets go of its job, which is counted on until Dispatched.
LEMMA LetsGo ==
  ASSUME ManagerInv, dispatcher.pc \in {"choose", "send"},
         dispatcher' = [dispatcher EXCEPT !.pc = "count"]
  PROVE  /\ DispatcherTypes' /\ dispatcher'.queue = dispatcher.queue /\ dispatcher.queue \in Priorities
         /\ \A p \in Priorities : InHand(p)' = InHand(p) /\ InHand(p) \in Int
         /\ dispatcher'.pc = "count" /\ dispatcher.job \in Jobs \cup {Nobody}
         /\ dispatcher.job # Nobody => dispatcher.job \in Jobs /\ job[dispatcher.job].at = "inHand"
         /\ HeldOnce' /\ (started \/ stopped)
<1>1. DispatcherTypes /\ dispatcher.queue \in Priorities /\ HeldOnce
  BY DEF ManagerInv, ManagerTables, JobPlaces, HeldOnce
<1>2. /\ DispatcherTypes' /\ dispatcher'.queue = dispatcher.queue /\ dispatcher'.pc = "count"
      /\ dispatcher.job \in Jobs \cup {Nobody}
  BY <1>1 DEF DispatcherTypes
<1>3. HeldOnce' /\ \A p \in Priorities : InHand(p)' = InHand(p) /\ InHand(p) \in Int
  BY <1>1, <1>2 DEF HeldOnce, InHand
<1>4. dispatcher.job # Nobody => dispatcher.job \in Jobs /\ job[dispatcher.job].at = "inHand"
  BY <1>1, <1>2 DEF HeldOnce
<1>5. started \/ stopped
  BY DispatcherRuns
<1>6. QED
  BY <1>1, <1>2, <1>3, <1>4, <1>5

\* A retry moves the job to its backoff or, after the last, to the failed ones.
LEMMA RetriedMoves ==
  ASSUME JobTypes, NEW j \in Jobs, NEW at \in Places, NEW n \in 0 .. MaxRetries + 1,
         job' = [job EXCEPT ![j].retries = n, ![j].at = at]
  PROVE  Moved(j, at, n)
<1> DEFINE R == [at : Places, priority : Priorities, retries : 0 .. MaxRetries + 1]
           s == [job[j] EXCEPT !.retries = n, !.at = at]
           t == [at |-> at, priority |-> job[j].priority, retries |-> n]
<1>1. job[j] \in R /\ job \in [Jobs -> R]
  BY DEF JobTypes
<1>2. s \in R /\ t \in R
  BY <1>1
<1>3. s.at = t.at /\ s.priority = t.priority /\ s.retries = t.retries
  BY <1>1
<1>4. s = t
  BY <1>2, <1>3
<1>5. job' = [job EXCEPT ![j] = s]
  BY <1>1
<1>6. QED
  BY <1>4, <1>5 DEF Moved

LEMMA RetryJobInv ==
  ManagerInv /\ dispatcher.pc \in {"choose", "send"} /\ RetryJob
    /\ UNCHANGED <<queues, workers, worker, lifecycle>> => ManagerInv'
<1> SUFFICES ASSUME ManagerInv, dispatcher.pc \in {"choose", "send"}, RetryJob,
                    UNCHANGED <<queues, workers, worker, lifecycle>>
             PROVE  ManagerInv'
  OBVIOUS
<1> DEFINE j == dispatcher.job
<1>1. /\ UNCHANGED <<queue, depth, started, stopped>> /\ JobTypes /\ QueueTypes
      /\ dispatcher' = [dispatcher EXCEPT !.pc = "count"]
  BY DEF queues, lifecycle, ManagerInv, ManagerTables, RetryJob
<1>2. QueueTypes' /\ \A p \in Priorities : depth'[p] = depth[p] /\ depth[p] \in Int /\ Len(queue[p]) \in Int
  BY <1>1 DEF QueueTypes
<1>3. CASE j = Nobody
  <2>1. job' = job
    BY <1>3 DEF RetryJob
  <2>2. \A p \in Priorities : depth'[p] = depth[p] + (InHand(p)' - InHand(p))
    BY <1>1, <1>2, LetsGo
  <2>3. dispatcher'.pc # "none"
    BY <1>1, LetsGo
  <2>4. QED
    BY <1>1, <1>2, <2>1, <2>2, <2>3, LetsGo, DispatcherStep
<1>4. CASE j # Nobody
  <2>1. j \in Jobs /\ job[j].at = "inHand"
    BY <1>1, <1>4, LetsGo
  <2>2. job[j].retries \in Nat /\ job[j].retries <= MaxRetries /\ job[j].priority \in Priorities
    BY <1>1, <2>1 DEF ManagerInv, JobPlaces, Retries, JobTypes
  <2>3. PICK n \in 0 .. MaxRetries + 1 : n = job[j].retries + 1
    BY <2>2
  <2>4. PICK at \in {"backoff", "failed"} : at = IF n <= MaxRetries THEN "backoff" ELSE "failed"
    OBVIOUS
  <2>5. Moved(j, at, n) /\ at \in Places
    <3>0. at \in Places
      BY DEF Places, Ended
    <3>1. job' = [job EXCEPT ![j].retries = n, ![j].at = at]
      BY <1>4, <2>3, <2>4 DEF RetryJob, Retried
    <3>2. QED
      BY <1>1, <2>1, <3>0, <3>1, RetriedMoves
  <2>6. ManagerTables'
    BY <1>1, <1>2, <2>1, <2>5, LetsGo, MovedFacts, SameLifecycle DEF ManagerTables
  <2>7. IF at = "failed" THEN n = MaxRetries + 1 ELSE n <= MaxRetries
    BY <2>3, <2>4
  <2>8. n >= 1
    BY <2>2, <2>3
  <2>9. JobPlaces'
    BY <1>1, <2>1, <2>5, <2>7, <2>8, LetsGo, QueuesStay, WorkersStay, RetriesMove DEF JobPlaces
  <2>10. Lifecycle'
    BY <1>1, LetsGo, SameLifecycle DEF Lifecycle, BeforeStart
  <2>11. DepthIsAccountedFor'
    <3>1. \A p \in Priorities : depth'[p] = depth[p] + (Len(queue'[p]) - Len(queue[p])) + (InHand(p)' - InHand(p))
      BY <1>1, <1>2, LetsGo
    <3>2. QED
      BY <1>1, <1>2, <2>1, <2>4, <2>5, <3>1, DepthFollowsHandled
  <2>12. QED
    BY <2>6, <2>9, <2>10, <2>11 DEF ManagerInv
<1>5. QED
  BY <1>3, <1>4

LEMMA ChooseWorkerInv == ManagerInv /\ ChooseWorker => ManagerInv'
<1> SUFFICES ASSUME ManagerInv, ChooseWorker PROVE ManagerInv'
  OBVIOUS
<1>1. CASE RetryJob
  BY <1>1, RetryJobInv DEF ChooseWorker
<1>2. ASSUME NEW i \in DOMAIN workers,
             dispatcher' = [dispatcher EXCEPT !.pc = "send", !.worker = workers[i]], UNCHANGED job
      PROVE  ManagerInv'
  <2>1. /\ UNCHANGED <<queue, depth, workers, worker, lifecycle>> /\ dispatcher.pc = "choose"
        /\ DispatcherTypes /\ HeldOnce /\ QueueTypes /\ LifecycleTypes
    BY DEF ManagerInv, ManagerTables, JobPlaces, ChooseWorker, queues
  <2>2. workers[i] \in WorkerIds
    BY <2>1 DEF LifecycleTypes
  <2>3. /\ DispatcherTypes' /\ dispatcher'.queue = dispatcher.queue /\ dispatcher'.pc = "send"
        /\ dispatcher'.job = dispatcher.job /\ dispatcher'.worker = workers[i]
    BY <1>2, <2>1, <2>2 DEF DispatcherTypes
  <2>4. HeldOnce'
    BY <1>2, <2>1, <2>2, <2>3 DEF HeldOnce
  <2>5. QueueTypes' /\ \A p \in Priorities : depth'[p] = depth[p] + (InHand(p)' - InHand(p))
    BY <2>1, <2>3 DEF QueueTypes, InHand
  <2>6. started \/ stopped
    BY <2>1, DispatcherRuns
  <2>7. dispatcher'.pc # "none"
    BY <2>3
  <2>8. QED
    BY <1>2, <2>1, <2>3, <2>4, <2>5, <2>6, <2>7, DispatcherStep
<1>3. QED
  BY <1>1, <1>2 DEF ChooseWorker

LEMMA SendToWorkerInv == ManagerInv /\ SendToWorker => ManagerInv'
<1> SUFFICES ASSUME ManagerInv, SendToWorker PROVE ManagerInv'
  OBVIOUS
<1> DEFINE w == dispatcher.worker  j == dispatcher.job
<1>1. /\ dispatcher.pc = "send" /\ w \in WorkerIds /\ WorkerTypes /\ JobTypes /\ QueueTypes /\ LifecycleTypes
      /\ j \in Jobs \cup {Nobody}
  BY DEF ManagerInv, ManagerTables, JobPlaces, HeldOnce, SendToWorker, DispatcherTypes
<1>2. CASE worker[w].closed /\ Crash
  <2>1. stopped \/ scaledDown
    BY <1>1, <1>2 DEF ManagerInv, Lifecycle, BeforeClosing, LifecycleTypes
  <2>2. QED
    BY <1>2, <2>1, CrashInv
<1>3. CASE RetryJob /\ UNCHANGED <<queues, workers, worker, lifecycle>>
  BY <1>1, <1>3, RetryJobInv
<1>4. CASE /\ ~worker[w].closed /\ worker[w].chan = <<>>
           /\ worker' = [worker EXCEPT ![w].chan = <<j>>]
           /\ job' = IF j = Nobody THEN job ELSE [job EXCEPT ![j].at = "channel"]
           /\ dispatcher' = [dispatcher EXCEPT !.pc = "count"]
           /\ UNCHANGED <<queues, workers, lifecycle>>
  <2>1. /\ UNCHANGED <<queue, depth, workers, lifecycle, started, stopped>> /\ QueueTypes'
        /\ \A p \in Priorities : depth'[p] = depth[p] /\ depth[p] \in Int /\ Len(queue[p]) \in Int
    BY <1>1, <1>4 DEF queues, lifecycle, QueueTypes
  <2>2. /\ WorkerTypes' /\ worker'[w].run = worker[w].run /\ worker'[w].closed = worker[w].closed
        /\ worker'[w].job = worker[w].job /\ worker'[w].chan = <<j>>
        /\ \A v \in WorkerIds : v # w => worker'[v] = worker[v]
    <3>1. <<j>> \in Seq(Jobs \cup {Nobody}) /\ Len(<<j>>) = 1
      BY <1>1
    <3>2. /\ worker'[w].run = worker[w].run /\ worker'[w].closed = worker[w].closed
          /\ worker'[w].job = worker[w].job /\ worker'[w].chan = <<j>>
          /\ \A v \in WorkerIds : v # w => worker'[v] = worker[v]
      BY <1>1, <1>4 DEF WorkerTypes
    <3>3. worker' \in [WorkerIds -> [run : {"unused", "idle", "busy", "pooled"},
                               chan : Seq(Jobs \cup {Nobody}), closed : BOOLEAN,
                               job : Jobs \cup {Nobody}]]
      BY <1>1, <1>4, <3>1 DEF WorkerTypes
    <3>4. \A v \in WorkerIds : Len(worker'[v].chan) <= 1
      <4>1. Len(worker'[w].chan) <= 1
        BY <3>1, <3>2
      <4>2. \A v \in WorkerIds : v # w => Len(worker'[v].chan) <= 1
        BY <1>1, <3>2 DEF WorkerTypes
      <4>3. QED
        BY <4>1, <4>2
    <3>5. QED
      BY <3>2, <3>3, <3>4 DEF WorkerTypes
  <2>3. LifecycleTypes' /\ CrashNeedsClosing' /\ EnoughWorkers'
    BY <1>1, <2>1 DEF ManagerInv, ManagerTables, Lifecycle, LifecycleTypes, EnoughWorkers, CrashNeedsClosing, lifecycle
  <2>4. BeforeClosing'
    <3>1. \A i \in 1 .. Len(workers) : workers[i] \in WorkerIds
      BY <1>1 DEF LifecycleTypes
    <3>2. \A v \in WorkerIds : worker'[v].run = worker[v].run /\ worker'[v].closed = worker[v].closed
      BY <2>2
    <3>3. QED
      BY <2>1, <3>1, <3>2 DEF ManagerInv, Lifecycle, BeforeClosing, lifecycle
  <2>5. Lifecycle'
    BY <1>1, <1>4, <2>1, <2>3, <2>4, LetsGo DEF Lifecycle, BeforeStart
  <2>6. \A p \in Priorities : depth'[p] = depth[p] + (InHand(p)' - InHand(p))
    BY <1>1, <1>4, <2>1, LetsGo
  <2>7. CASE j = Nobody
    <3>1. job' = job
      BY <1>4, <2>7
    <3>2. ManagerTables'
      BY <1>1, <1>4, <2>1, <2>2, <2>3, <3>1, LetsGo DEF ManagerTables, JobTypes
    <3>3. WithOneWorker'
      <4>1. \A v \in WorkerIds, i \in Jobs : /\ InChannel(v, i)' => InChannel(v, i)
                                             /\ Runs(v, i)' <=> Runs(v, i)
        <5>1. \A i \in Jobs : <<j>> # <<i>>
          BY <2>7
        <5>2. QED
          BY <2>2, <5>1 DEF InChannel, Runs
      <4>2. QED
        BY <3>1, <4>1 DEF WithOneWorker, ManagerInv, JobPlaces
    <3>4. JobPlaces'
      BY <1>1, <1>4, <2>1, <3>1, <3>3, LetsGo DEF JobPlaces, ManagerInv, QueuedOnce, Retries
    <3>5. DepthIsAccountedFor'
      BY <2>1, <2>6, <3>1, DepthFollowsDispatcher
    <3>6. QED
      BY <2>5, <3>2, <3>4, <3>5 DEF ManagerInv
  <2>8. CASE j # Nobody
    <3>1. j \in Jobs /\ job[j].at = "inHand"
      BY <1>1, <1>4, <2>8, LetsGo
    <3>2. /\ Moved(j, "channel", job[j].retries) /\ "channel" \in Places
          /\ job[j].retries \in 0 .. MaxRetries + 1 /\ job[j].retries <= MaxRetries
      <4>1. Place(j, "channel") /\ "channel" \in Places
        BY <1>4, <2>8 DEF Place, Places
      <4>2. QED
        BY <1>1, <3>1, <4>1, PlacedMoved DEF ManagerInv, JobPlaces, Retries
    <3>3. ManagerTables'
      BY <1>1, <1>4, <2>1, <2>2, <2>3, <3>1, <3>2, LetsGo, MovedFacts DEF ManagerTables
    <3>4. job'[j].at = "channel" /\ \A i \in Jobs : i # j => job'[i] = job[i]
      BY <1>1, <3>1, <3>2, MovedFacts
    <3>5. WithOneWorker'
      <4>1. \A v \in WorkerIds : ~InChannel(v, j) /\ ~Runs(v, j)
        BY <3>1 DEF WithOneWorker, ManagerInv, JobPlaces
      <4>2. \A v \in WorkerIds, i \in Jobs : Runs(v, i)' <=> Runs(v, i)
        BY <2>2 DEF Runs
      <4>3. \A v \in WorkerIds, i \in Jobs : InChannel(v, i)' => IF v = w THEN i = j ELSE InChannel(v, i)
        BY <2>2 DEF InChannel
      <4>4. ASSUME NEW i \in Jobs, NEW v \in WorkerIds
            PROVE  /\ InChannel(v, i)' => /\ job'[i].at = "channel"
                                          /\ \A u \in WorkerIds : InChannel(u, i)' => u = v
                   /\ Runs(v, i)' => /\ job'[i].at = "running"
                                     /\ \A u \in WorkerIds : Runs(u, i)' => u = v
        <5>1. CASE i = j
          BY <3>4, <4>1, <4>2, <4>3, <5>1
        <5>2. CASE i # j
          BY <3>4, <4>2, <4>3, <5>2 DEF WithOneWorker, ManagerInv, JobPlaces
        <5>3. QED
          BY <5>1, <5>2
      <4>5. QED
        BY <4>4 DEF WithOneWorker
    <3>6. JobPlaces'
      BY <1>1, <1>4, <2>1, <3>1, <3>2, <3>5, LetsGo, QueuesStay, RetriesMove DEF JobPlaces
    <3>7. DepthIsAccountedFor'
      <4>1. \A p \in Priorities : depth'[p] = depth[p] + (Len(queue'[p]) - Len(queue[p])) + (InHand(p)' - InHand(p))
        BY <1>1, <1>4, <2>1, LetsGo
      <4>2. QED
        BY <1>1, <2>1, <3>1, <3>2, <4>1, DepthFollowsHandled
    <3>8. QED
      BY <2>5, <3>3, <3>6, <3>7 DEF ManagerInv
  <2>9. QED
    BY <2>7, <2>8
<1>5. QED
  BY <1>2, <1>3, <1>4 DEF SendToWorker

LEMMA DispatchJobsInv == ManagerInv /\ DispatchJobs => ManagerInv'
BY ReceiveInv, ReceiveFromClosedInv, ChooseWorkerInv, SendToWorkerInv, DispatchedInv, DispatcherEndsInv
   DEF DispatchJobs

\* A worker goes on, with a job that moves on or with none.
LEMMA WorkerStep ==
  ASSUME ManagerInv, UNCHANGED <<queues, dispatcher, workers, lifecycle>>,
         WorkerTypes', WithOneWorker', BeforeClosing',
         \/ job' = job
         \/ \E j \in Jobs, at \in {"running", "done"} :
               job[j].at \in {"channel", "running"} /\ Place(j, at)
  PROVE  ManagerInv'
<1>1. /\ UNCHANGED <<queue, depth, started, stopped>> /\ JobTypes /\ QueueTypes /\ QueueTypes' /\ DispatcherTypes'
      /\ LifecycleTypes' /\ EnoughWorkers' /\ CrashNeedsClosing'
  BY DEF ManagerInv, ManagerTables, Lifecycle, queues, lifecycle, QueueTypes, DispatcherTypes, LifecycleTypes,
         EnoughWorkers, CrashNeedsClosing
<1>2. \A p \in Priorities : depth'[p] = depth[p] /\ depth[p] \in Int /\ Len(queue[p]) \in Int
                            /\ InHand(p)' = InHand(p) /\ InHand(p) \in Int
  BY <1>1 DEF QueueTypes, InHand
<1>3. CASE job' = job
  <2>1. ManagerTables'
    BY <1>1, <1>3 DEF ManagerTables, JobTypes
  <2>2. JobPlaces'
    BY <1>1, <1>3 DEF ManagerInv, JobPlaces, QueuedOnce, HeldOnce, Retries
  <2>3. Lifecycle'
    BY <1>1, <1>3 DEF ManagerInv, Lifecycle, BeforeStart, lifecycle
  <2>4. DepthIsAccountedFor'
    BY <1>1, <1>2, <1>3, DepthFollowsDispatcher
  <2>5. QED
    BY <2>1, <2>2, <2>3, <2>4 DEF ManagerInv
<1>4. ASSUME NEW j \in Jobs, NEW at \in {"running", "done"}, job[j].at \in {"channel", "running"}, Place(j, at)
      PROVE  ManagerInv'
  <2>1. /\ Moved(j, at, job[j].retries) /\ at \in Places
        /\ job[j].retries \in 0 .. MaxRetries + 1 /\ job[j].retries <= MaxRetries
    <3>1. at \in Places
      BY DEF Places, Ended
    <3>2. QED
      BY <1>1, <1>4, <3>1, PlacedMoved DEF ManagerInv, JobPlaces, Retries
  <2>2. ManagerTables'
    BY <1>1, <2>1, MovedFacts DEF ManagerTables
  <2>3. JobPlaces'
    BY <1>1, <1>4, <2>1, QueuesStay, HandStays, RetriesMove DEF JobPlaces
  <2>4. Lifecycle'
    <3>1. started \/ stopped
      BY <1>4 DEF ManagerInv, Lifecycle, BeforeStart
    <3>2. QED
      BY <1>1, <3>1 DEF Lifecycle, BeforeStart
  <2>5. DepthIsAccountedFor'
    <3>1. \A p \in Priorities : depth'[p] = depth[p] + (Len(queue'[p]) - Len(queue[p])) + (InHand(p)' - InHand(p))
      BY <1>1, <1>2
    <3>2. QED
      BY <1>1, <1>4, <2>1, <3>1, DepthFollowsHandled
  <2>6. QED
    BY <2>2, <2>3, <2>4, <2>5 DEF ManagerInv
<1>5. QED
  BY <1>3, <1>4

\* A worker's own steps close no channel.
LEMMA StillOpen ==
  ASSUME ManagerInv, UNCHANGED <<workers, lifecycle>>,
         \A v \in WorkerIds : /\ worker'[v].closed = worker[v].closed
                              /\ worker'[v].run \in {"idle", "busy"} \/ worker'[v].run = worker[v].run
  PROVE  BeforeClosing'
<1>1. \A i \in 1 .. Len(workers) : workers[i] \in WorkerIds
  BY DEF ManagerInv, ManagerTables, LifecycleTypes
<1>2. QED
  BY <1>1 DEF ManagerInv, Lifecycle, BeforeClosing, lifecycle

LEMMA TakeFromChannelInv == ASSUME NEW w \in WorkerIds PROVE ManagerInv /\ TakeFromChannel(w) => ManagerInv'
<1> SUFFICES ASSUME ManagerInv, TakeFromChannel(w) PROVE ManagerInv'
  OBVIOUS
<1>1. WorkerTypes /\ WithOneWorker /\ JobTypes /\ worker[w].run = "idle" /\ worker[w].chan # <<>>
  BY DEF ManagerInv, ManagerTables, JobPlaces, TakeFromChannel
<1>2. PICK j \in Jobs \cup {Nobody} : j = Head(worker[w].chan) /\ worker[w].chan = <<j>>
  <2>1. worker[w].chan \in Seq(Jobs \cup {Nobody}) /\ Len(worker[w].chan) <= 1 /\ worker[w].chan # <<>>
    BY <1>1 DEF WorkerTypes
  <2>2. Len(worker[w].chan) = 1 /\ 1 \in 1 .. Len(worker[w].chan)
    <3>1. Len(worker[w].chan) \in Nat \ {0}
      BY <2>1, EmptySeq, Zenon
    <3>2. \A n \in Nat \ {0} : n <= 1 => n = 1 /\ 1 \in 1 .. n
      OBVIOUS
    <3>3. QED
      BY <2>1, <3>1, <3>2, Zenon
  <2>3. worker[w].chan[1] \in Jobs \cup {Nobody} /\ Head(worker[w].chan) = worker[w].chan[1]
    BY <2>1, <2>2, ElementOfSeq
  <2>4. /\ <<worker[w].chan[1]>> \in Seq(Jobs \cup {Nobody}) /\ Len(<<worker[w].chan[1]>>) = 1
        /\ <<worker[w].chan[1]>>[1] = worker[w].chan[1]
    BY <2>3
  <2>5. worker[w].chan = <<worker[w].chan[1]>>
    BY <2>1, <2>2, <2>4, SeqEqual
  <2>6. QED
    BY <2>3, <2>5
<1>3. /\ worker' = [worker EXCEPT ![w].run = "busy", ![w].chan = <<>>, ![w].job = j]
      /\ job' = IF j = Nobody THEN job ELSE [job EXCEPT ![j].at = "running"]
      /\ UNCHANGED <<queues, dispatcher, workers, lifecycle>>
  BY <1>2 DEF TakeFromChannel
<1>4. /\ worker'[w].run = "busy" /\ worker'[w].chan = <<>> /\ worker'[w].job = j
      /\ worker'[w].closed = worker[w].closed
      /\ \A v \in WorkerIds : v # w => worker'[v] = worker[v]
  BY <1>1, <1>3 DEF WorkerTypes
<1>5. WorkerTypes'
  <2>1. <<>> \in Seq(Jobs \cup {Nobody}) /\ Len(<<>>) <= 1
    OBVIOUS
  <2>2. worker' \in [WorkerIds -> [run : {"unused", "idle", "busy", "pooled"},
                               chan : Seq(Jobs \cup {Nobody}), closed : BOOLEAN,
                               job : Jobs \cup {Nobody}]]
    BY <1>1, <1>3, <2>1 DEF WorkerTypes
  <2>3. \A v \in WorkerIds : Len(worker'[v].chan) <= 1
    BY <1>1, <1>4, <2>1 DEF WorkerTypes
  <2>4. QED
    BY <2>2, <2>3 DEF WorkerTypes
<1>6. BeforeClosing'
  BY <1>3, <1>4, StillOpen
<1>7. \A v \in WorkerIds, i \in Jobs : /\ InChannel(v, i)' => v # w /\ InChannel(v, i)
                                       /\ Runs(v, i)' => IF v = w THEN i = j ELSE Runs(v, i)
  <2>1. \A i \in Jobs : <<>> # <<i>>
    OBVIOUS
  <2>2. QED
    BY <1>4, <2>1 DEF InChannel, Runs
<1>8. j # Nobody => /\ j \in Jobs /\ job[j].at = "channel" /\ InChannel(w, j)
                    /\ \A v \in WorkerIds : (InChannel(v, j) => v = w) /\ ~Runs(v, j)
  BY <1>1, <1>2 DEF WithOneWorker, InChannel
<1>9. \A i \in Jobs : i # j => job'[i] = job[i]
  BY <1>1, <1>3 DEF JobTypes
<1>10. j # Nobody => job'[j].at = "running"
  BY <1>1, <1>2, <1>3 DEF JobTypes
<1>11. WithOneWorker'
  <2>1. ASSUME NEW i \in Jobs, NEW v \in WorkerIds
        PROVE  /\ InChannel(v, i)' => /\ job'[i].at = "channel"
                                      /\ \A u \in WorkerIds : InChannel(u, i)' => u = v
               /\ Runs(v, i)' => /\ job'[i].at = "running"
                                 /\ \A u \in WorkerIds : Runs(u, i)' => u = v
    <3>1. CASE i = j
      BY <1>7, <1>8, <1>10, <3>1
    <3>2. CASE i # j
      BY <1>1, <1>7, <1>9, <3>2 DEF WithOneWorker
    <3>3. QED
      BY <3>1, <3>2
  <2>2. QED
    BY <2>1 DEF WithOneWorker
<1>12. j # Nobody => Place(j, "running")
  BY <1>3 DEF Place
<1>13. QED
  BY <1>3, <1>5, <1>6, <1>8, <1>11, <1>12, WorkerStep

LEMMA ProcessJobInv == ASSUME NEW w \in WorkerIds PROVE ManagerInv /\ ProcessJob(w) => ManagerInv'
<1> SUFFICES ASSUME ManagerInv, ProcessJob(w) PROVE ManagerInv'
  OBVIOUS
<1> DEFINE j == worker[w].job
<1>1. /\ WorkerTypes /\ WithOneWorker /\ JobTypes /\ worker[w].run = "busy" /\ j \in Jobs \cup {Nobody}
      /\ UNCHANGED <<queues, dispatcher, workers, lifecycle>>
  BY DEF ManagerInv, ManagerTables, JobPlaces, ProcessJob, WorkerTypes
<1>2. /\ worker' = [worker EXCEPT ![w].run = "idle", ![w].job = Nobody]
      /\ job' = IF j = Nobody THEN job ELSE [job EXCEPT ![j].at = "done"]
  BY DEF ProcessJob
<1>3. /\ worker'[w].run = "idle" /\ worker'[w].chan = worker[w].chan
      /\ worker'[w].closed = worker[w].closed
      /\ \A v \in WorkerIds : v # w => worker'[v] = worker[v]
  BY <1>1, <1>2 DEF WorkerTypes
<1>4. WorkerTypes'
  <2>1. worker' \in [WorkerIds -> [run : {"unused", "idle", "busy", "pooled"},
                               chan : Seq(Jobs \cup {Nobody}), closed : BOOLEAN,
                               job : Jobs \cup {Nobody}]]
    BY <1>1, <1>2 DEF WorkerTypes
  <2>2. \A v \in WorkerIds : Len(worker'[v].chan) <= 1
    BY <1>1, <1>3 DEF WorkerTypes
  <2>3. QED
    BY <2>1, <2>2 DEF WorkerTypes
<1>5. BeforeClosing'
  BY <1>1, <1>3, StillOpen
<1>6. \A v \in WorkerIds, i \in Jobs : /\ InChannel(v, i)' => InChannel(v, i)
                                       /\ Runs(v, i)' => v # w /\ Runs(v, i)
  BY <1>3 DEF InChannel, Runs
<1>7. j # Nobody => /\ j \in Jobs /\ job[j].at = "running"
                    /\ \A v \in WorkerIds : (Runs(v, j) => v = w) /\ ~InChannel(v, j)
  BY <1>1 DEF WithOneWorker, Runs
<1>8. \A i \in Jobs : i # j => job'[i] = job[i]
  BY <1>1, <1>2 DEF JobTypes
<1>9. WithOneWorker'
  <2>1. ASSUME NEW i \in Jobs, NEW v \in WorkerIds
        PROVE  /\ InChannel(v, i)' => /\ job'[i].at = "channel"
                                      /\ \A u \in WorkerIds : InChannel(u, i)' => u = v
               /\ Runs(v, i)' => /\ job'[i].at = "running"
                                 /\ \A u \in WorkerIds : Runs(u, i)' => u = v
    <3>1. CASE i = j
      BY <1>6, <1>7, <3>1
    <3>2. CASE i # j
      BY <1>1, <1>6, <1>8, <3>2 DEF WithOneWorker
    <3>3. QED
      BY <3>1, <3>2
  <2>2. QED
    BY <2>1 DEF WithOneWorker
<1>10. j # Nobody => Place(j, "done")
  BY <1>2 DEF Place
<1>11. QED
  BY <1>1, <1>2, <1>4, <1>5, <1>7, <1>9, <1>10, WorkerStep

LEMMA WorkerEndsInv == ASSUME NEW w \in WorkerIds PROVE ManagerInv /\ WorkerEnds(w) => ManagerInv'
<1> SUFFICES ASSUME ManagerInv, WorkerEnds(w) PROVE ManagerInv'
  OBVIOUS
<1>1. /\ WorkerTypes /\ WithOneWorker /\ worker[w].run = "idle"
      /\ UNCHANGED <<job, queues, dispatcher, workers, lifecycle>>
      /\ worker' = [worker EXCEPT ![w].run = "pooled"]
  BY DEF ManagerInv, ManagerTables, JobPlaces, WorkerEnds
<1>2. /\ worker'[w].run = "pooled" /\ worker'[w].chan = worker[w].chan
      /\ \A v \in WorkerIds : v # w => worker'[v] = worker[v]
  BY <1>1 DEF WorkerTypes
<1>3. WorkerTypes'
  <2>1. worker' \in [WorkerIds -> [run : {"unused", "idle", "busy", "pooled"},
                               chan : Seq(Jobs \cup {Nobody}), closed : BOOLEAN,
                               job : Jobs \cup {Nobody}]]
    BY <1>1 DEF WorkerTypes
  <2>2. \A v \in WorkerIds : Len(worker'[v].chan) <= 1
    BY <1>1, <1>2 DEF WorkerTypes
  <2>3. QED
    BY <2>1, <2>2 DEF WorkerTypes
<1>4. BeforeClosing'
  <2>1. stopped \/ scaledDown
    BY DEF WorkerEnds, ManagerInv, Lifecycle, BeforeClosing
  <2>2. QED
    BY <1>1, <2>1 DEF BeforeClosing, lifecycle
<1>5. \A v \in WorkerIds, i \in Jobs : /\ InChannel(v, i)' => InChannel(v, i)
                                       /\ Runs(v, i)' => Runs(v, i)
  BY <1>1, <1>2 DEF InChannel, Runs
<1>6. WithOneWorker'
  BY <1>1, <1>5 DEF WithOneWorker
<1>7. QED
  BY <1>1, <1>3, <1>4, <1>6, WorkerStep

LEMMA RunInv == ASSUME NEW w \in WorkerIds PROVE ManagerInv /\ Run(w) => ManagerInv'
BY TakeFromChannelInv, ProcessJobInv, WorkerEndsInv DEF Run

\* Workers that are taken from the sync.Pool, or made, and appended.
LEMMA CreatedFacts ==
  ASSUME ManagerInv, NEW n \in Nat, NEW s \in [1 .. n -> WorkerIds], Created(s)
  PROVE  /\ workers' \in Seq(WorkerIds) /\ Len(workers') = Len(workers) + n /\ Len(workers) \in Nat
         /\ WorkerTypes' /\ (job' = job => WithOneWorker')
         /\ stopped' = stopped /\ scaledDown' = scaledDown => BeforeClosing'
<1>0. /\ \A i, k \in DOMAIN s : s[i] = s[k] => i = k
      /\ \A i \in DOMAIN s : worker[s[i]].run \in {"unused", "pooled"}
      /\ workers' = workers \o s
      /\ worker' = [w \in WorkerIds |-> IF \E i \in DOMAIN s : s[i] = w
                                        THEN [worker[w] EXCEPT !.run = "idle"] ELSE worker[w]]
  BY DEF Created
<1>1. WorkerTypes /\ workers \in Seq(WorkerIds) /\ WithOneWorker
  BY DEF ManagerInv, ManagerTables, LifecycleTypes, JobPlaces
<1>2. s \in Seq(WorkerIds) /\ Len(s) = n /\ DOMAIN s = 1 .. n
  <2>1. DOMAIN s = 1 .. n
    OBVIOUS
  <2>2. s \in Seq(WorkerIds)
    BY SeqDef
  <2>3. Len(s) = n
    BY <2>1, <2>2, LenProperties
  <2>4. QED
    BY <2>1, <2>2, <2>3
<1>3. /\ workers' \in Seq(WorkerIds) /\ Len(workers') = Len(workers) + n /\ Len(workers) \in Nat
      /\ \A i \in 1 .. Len(workers') : workers'[i] = IF i <= Len(workers) THEN workers[i] ELSE s[i - Len(workers)]
  <2>1. workers' = workers \o s
    BY <1>0
  <2>2. /\ workers \o s \in Seq(WorkerIds) /\ Len(workers \o s) = Len(workers) + Len(s)
        /\ \A i \in 1 .. Len(workers) + Len(s) :
             (workers \o s)[i] = IF i <= Len(workers) THEN workers[i] ELSE s[i - Len(workers)]
    BY <1>1, <1>2, ConcatProperties, Zenon
  <2>3. Len(workers) \in Nat
    BY <1>1, LenProperties
  <2>4. QED
    BY <2>1, <2>2, <2>3, <1>2
<1> DEFINE I == {w \in WorkerIds : \E i \in 1 .. n : s[i] = w}
<1>a. \A w \in WorkerIds : worker'[w] = IF w \in I THEN [worker[w] EXCEPT !.run = "idle"] ELSE worker[w]
  BY <1>0, <1>2
<1> HIDE DEF I
<1>4. \A w \in WorkerIds :
         /\ worker'[w].chan = worker[w].chan /\ worker'[w].closed = worker[w].closed
         /\ worker'[w].job = worker[w].job
         /\ worker'[w].run = IF w \in I THEN "idle" ELSE worker[w].run
  <2>1. ASSUME NEW w \in WorkerIds
        PROVE  /\ worker'[w].chan = worker[w].chan /\ worker'[w].closed = worker[w].closed
               /\ worker'[w].job = worker[w].job
               /\ worker'[w].run = IF w \in I THEN "idle" ELSE worker[w].run
    <3>1. worker[w] \in [run : {"unused", "idle", "busy", "pooled"},
                         chan : Seq(Jobs \cup {Nobody}), closed : BOOLEAN,
                         job : Jobs \cup {Nobody}]
      BY <1>1 DEF WorkerTypes
    <3>2. CASE w \in I
      BY <1>a, <3>1, <3>2
    <3>3. CASE w \notin I
      BY <1>a, <3>1, <3>3
    <3>4. QED
      BY <3>2, <3>3
  <2>2. QED
    BY <2>1
<1>5. WorkerTypes'
  <2>1. worker' \in [WorkerIds -> [run : {"unused", "idle", "busy", "pooled"},
                               chan : Seq(Jobs \cup {Nobody}), closed : BOOLEAN,
                               job : Jobs \cup {Nobody}]]
    <3>1. ASSUME NEW w \in WorkerIds
          PROVE  worker'[w] \in [run : {"unused", "idle", "busy", "pooled"},
                               chan : Seq(Jobs \cup {Nobody}), closed : BOOLEAN,
                               job : Jobs \cup {Nobody}]
      <4>1. worker[w] \in [run : {"unused", "idle", "busy", "pooled"},
                           chan : Seq(Jobs \cup {Nobody}), closed : BOOLEAN,
                           job : Jobs \cup {Nobody}]
        BY <1>1 DEF WorkerTypes
      <4>2. CASE w \in I
        BY <1>a, <4>1, <4>2
      <4>3. CASE w \notin I
        BY <1>a, <4>1, <4>3
      <4>4. QED
        BY <4>2, <4>3
    <3>2. worker' = [w \in WorkerIds |-> worker'[w]]
      BY <1>0
    <3>3. QED
      BY <3>1, <3>2
  <2>2. \A v \in WorkerIds : Len(worker'[v].chan) <= 1
    BY <1>1, <1>4 DEF WorkerTypes
  <2>3. QED
    BY <2>1, <2>2 DEF WorkerTypes
<1>6. job' = job => WithOneWorker'
  <2>1. \A v \in WorkerIds, i \in Jobs : /\ InChannel(v, i)' => InChannel(v, i)
                                         /\ Runs(v, i)' => Runs(v, i)
    BY <1>4 DEF InChannel, Runs
  <2>2. QED
    BY <1>1, <2>1 DEF WithOneWorker
<1>7. ASSUME stopped' = stopped, scaledDown' = scaledDown, ~stopped, ~scaledDown
      PROVE  /\ \A w \in WorkerIds : ~worker'[w].closed /\ worker'[w].run # "pooled"
             /\ \A i \in 1 .. Len(workers') : worker'[workers'[i]].run # "unused"
             /\ \A i, k \in 1 .. Len(workers') : workers'[i] = workers'[k] => i = k
  <2>1. /\ \A w \in WorkerIds : ~worker[w].closed /\ worker[w].run # "pooled"
        /\ \A i \in 1 .. Len(workers) : worker[workers[i]].run # "unused" /\ workers[i] \in WorkerIds
        /\ \A i, k \in 1 .. Len(workers) : workers[i] = workers[k] => i = k
    BY <1>1, <1>7 DEF ManagerInv, Lifecycle, BeforeClosing
  <2>2. \A i \in 1 .. n : s[i] \in WorkerIds /\ worker[s[i]].run = "unused"
    BY <1>0, <1>2, <2>1
  <2>3. ASSUME NEW i \in 1 .. Len(workers')
        PROVE  IF i <= Len(workers) THEN i \in 1 .. Len(workers) /\ workers'[i] = workers[i]
                                    ELSE i - Len(workers) \in 1 .. n /\ workers'[i] = s[i - Len(workers)]
    BY <1>3
  <2>4. \A w \in WorkerIds : ~worker'[w].closed /\ worker'[w].run # "pooled"
    BY <1>4, <2>1
  <2>5. \A i \in 1 .. Len(workers') : worker'[workers'[i]].run # "unused"
    <3>1. ASSUME NEW i \in 1 .. Len(workers') PROVE worker'[workers'[i]].run # "unused"
      <4>1. CASE i <= Len(workers)
        BY <1>4, <2>1, <2>3, <4>1
      <4>2. CASE ~(i <= Len(workers))
        <5>1. workers'[i] \in I
          BY <2>2, <2>3, <4>2 DEF I
        <5>2. I \subseteq WorkerIds
          BY DEF I
        <5>3. worker'[workers'[i]].run = "idle"
          BY <1>4, <5>1, <5>2
        <5>4. QED
          BY <5>3
      <4>3. QED
        BY <4>1, <4>2
    <3>2. QED
      BY <3>1
  <2>6. ASSUME NEW i \in 1 .. Len(workers'), NEW k \in 1 .. Len(workers'), workers'[i] = workers'[k]
        PROVE  i = k
    <3>1. CASE i <= Len(workers) /\ k <= Len(workers)
      BY <2>1, <2>3, <2>6, <3>1
    <3>2. CASE ~(i <= Len(workers)) /\ ~(k <= Len(workers))
      <4>1. i - Len(workers) = k - Len(workers)
        BY <1>0, <1>2, <2>3, <2>6, <3>2
      <4>2. QED
        BY <1>3, <4>1
    <3>3. CASE i <= Len(workers) /\ ~(k <= Len(workers))
      <4>1. worker[workers'[i]].run # "unused"
        BY <2>1, <2>3, <3>3
      <4>2. worker[workers'[k]].run = "unused"
        BY <2>2, <2>3, <3>3
      <4>3. QED
        BY <2>6, <4>1, <4>2
    <3>4. CASE ~(i <= Len(workers)) /\ k <= Len(workers)
      <4>1. worker[workers'[k]].run # "unused"
        BY <2>1, <2>3, <3>4
      <4>2. worker[workers'[i]].run = "unused"
        BY <2>2, <2>3, <3>4
      <4>3. QED
        BY <2>6, <4>1, <4>2
    <3>5. QED
      BY <3>1, <3>2, <3>3, <3>4
  <2>7. QED
    BY <2>4, <2>5, <2>6
<1>8. stopped' = stopped /\ scaledDown' = scaledDown => BeforeClosing'
  <2>1. CASE stopped \/ scaledDown
    BY <2>1 DEF BeforeClosing
  <2>2. CASE ~stopped /\ ~scaledDown
    <3>1. HAVE stopped' = stopped /\ scaledDown' = scaledDown
    <3>2. QED
      BY <1>7, <2>2, <3>1 DEF BeforeClosing
  <2>3. QED
    BY <2>1, <2>2
<1>9. QED
  BY <1>3, <1>5, <1>6, <1>8

\* Steps of Start and of the adaptive routine leave the jobs where they are.
LEMMA JobsStay ==
  ASSUME ManagerInv, UNCHANGED <<job, queues>>, ~stopped' => ~stopped,
         WithOneWorker', HeldOnce', DispatcherTypes',
         \A p \in Priorities : InHand(p)' = InHand(p)
  PROVE  JobTypes' /\ QueueTypes' /\ JobPlaces' /\ DepthIsAccountedFor'
<1>1. UNCHANGED <<queue, depth>> /\ QueueTypes
  BY DEF queues, ManagerInv, ManagerTables
<1>2. JobTypes' /\ QueueTypes'
  BY <1>1 DEF ManagerInv, ManagerTables, JobTypes, QueueTypes
<1>3. JobPlaces'
  BY <1>1 DEF ManagerInv, JobPlaces, QueuedOnce, Retries
<1>4. \A p \in Priorities : depth'[p] = depth[p] + (InHand(p)' - InHand(p))
  BY <1>1 DEF QueueTypes, InHand
<1>5. QED
  BY <1>1, <1>2, <1>3, <1>4, DepthFollowsDispatcher

LEMMA ManagerStartInv == ManagerInv /\ ManagerStart => ManagerInv'
<1> SUFFICES ASSUME ManagerInv, ManagerStart PROVE ManagerInv'
  OBVIOUS
<1>1. /\ LifecycleTypes /\ HeldOnce /\ CrashNeedsClosing /\ dispatcher.pc = "none" /\ starts < MaxStarts
      /\ started' = TRUE /\ starts' = starts + 1 /\ adapting' = TRUE
      /\ UNCHANGED <<job, queues, concurrency, stopped, scaledDown, managerCrashed>>
      /\ dispatcher' = [pc |-> "select", job |-> Nobody, worker |-> Nobody, queue |-> Nobody]
  BY DEF ManagerInv, ManagerTables, JobPlaces, Lifecycle, ManagerStart, Selecting
<1>2. PICK s \in [1 .. concurrency -> WorkerIds] : Created(s)
  BY DEF ManagerStart
<1>3. concurrency \in Nat /\ starts \in 0 .. MaxStarts
  BY <1>1 DEF LifecycleTypes
<1>4. /\ workers' \in Seq(WorkerIds) /\ Len(workers') = Len(workers) + concurrency /\ Len(workers) \in Nat
      /\ WorkerTypes' /\ WithOneWorker' /\ BeforeClosing'
  BY <1>1, <1>2, <1>3, CreatedFacts
<1>5. DispatcherTypes' /\ HeldOnce' /\ \A p \in Priorities : InHand(p)' = InHand(p)
  BY <1>1 DEF DispatcherTypes, HeldOnce, InHand
<1>6. LifecycleTypes'
  BY <1>1, <1>3, <1>4 DEF LifecycleTypes
<1>7. Lifecycle'
  BY <1>1, <1>3, <1>4 DEF Lifecycle, BeforeStart, EnoughWorkers, CrashNeedsClosing
<1>8. QED
  BY <1>1, <1>4, <1>5, <1>6, <1>7, JobsStay DEF ManagerInv, ManagerTables

\* The adaptive routine leaves the dispatcher alone.
LEMMA DispatcherStays ==
  ASSUME ManagerInv, UNCHANGED <<job, dispatcher>>
  PROVE  DispatcherTypes' /\ HeldOnce' /\ \A p \in Priorities : InHand(p)' = InHand(p)
BY DEF ManagerInv, ManagerTables, JobPlaces, DispatcherTypes, HeldOnce, InHand

LEMMA AddWorkersInv == ManagerInv /\ adapting /\ AddWorkers => ManagerInv'
<1> SUFFICES ASSUME ManagerInv, adapting, AddWorkers PROVE ManagerInv'
  OBVIOUS
<1> DEFINE new == IF OneUp > MaxConcurrency THEN MaxConcurrency ELSE OneUp
<1>1. /\ LifecycleTypes /\ CrashNeedsClosing /\ EnoughWorkers /\ (started \/ stopped)
      /\ concurrency \in Nat /\ Len(workers) \in Nat
      /\ UNCHANGED <<job, queues, dispatcher, starts, started, stopped, adapting, scaledDown,
                     managerCrashed>>
  BY LenProperties DEF ManagerInv, ManagerTables, Lifecycle, AddWorkers, BeforeStart, LifecycleTypes
<1>2. new > concurrency /\ concurrency' = new
  BY DEF AddWorkers
<1>3. new \in Nat
  BY <1>1 DEF OneUp
<1> HIDE DEF new
<1>4. new - concurrency \in Nat
  BY <1>1, <1>2, <1>3
<1>5. PICK s \in [1 .. new - concurrency -> WorkerIds] : Created(s)
  BY DEF AddWorkers, new
<1>6. /\ workers' \in Seq(WorkerIds) /\ Len(workers') = Len(workers) + (new - concurrency)
      /\ WorkerTypes' /\ WithOneWorker' /\ BeforeClosing'
  BY <1>1, <1>4, <1>5, CreatedFacts
<1>7. LifecycleTypes'
  BY <1>1, <1>2, <1>3, <1>6 DEF LifecycleTypes
<1>8. Len(workers') >= new
  BY <1>1, <1>2, <1>3, <1>6 DEF EnoughWorkers
<1>9. Lifecycle'
  BY <1>1, <1>2, <1>6, <1>8 DEF Lifecycle, BeforeStart, EnoughWorkers, CrashNeedsClosing
<1>10. QED
  BY <1>1, <1>6, <1>7, <1>9, DispatcherStays, JobsStay DEF ManagerInv, ManagerTables

\* Closing the channels of some workers.
LEMMA ClosingFacts ==
  ASSUME ManagerInv, NEW W,
         worker' = [w \in WorkerIds |-> IF w \in W THEN [worker[w] EXCEPT !.closed = TRUE] ELSE worker[w]]
  PROVE  WorkerTypes' /\ (job' = job => WithOneWorker')
<1>1. WorkerTypes /\ WithOneWorker
  BY DEF ManagerInv, ManagerTables, JobPlaces
<1>2. \A w \in WorkerIds : worker'[w].chan = worker[w].chan /\ worker'[w].job = worker[w].job
                           /\ worker'[w].run = worker[w].run
  BY <1>1 DEF WorkerTypes
<1>3. WorkerTypes'
  <2>1. worker' \in [WorkerIds -> [run : {"unused", "idle", "busy", "pooled"},
                               chan : Seq(Jobs \cup {Nobody}), closed : BOOLEAN,
                               job : Jobs \cup {Nobody}]]
    BY <1>1 DEF WorkerTypes
  <2>2. \A v \in WorkerIds : Len(worker'[v].chan) <= 1
    BY <1>1, <1>2 DEF WorkerTypes
  <2>3. QED
    BY <2>1, <2>2 DEF WorkerTypes
<1>4. job' = job => WithOneWorker'
  BY <1>1, <1>2 DEF WithOneWorker, InChannel, Runs
<1>5. QED
  BY <1>3, <1>4

\* Distinct workers are as many as their positions.
LEMMA LastWorkers ==
  ASSUME workers \in Seq(WorkerIds), \A i, k \in 1 .. Len(workers) : workers[i] = workers[k] => i = k,
         NEW n \in Nat, n <= Len(workers)
  PROVE  Cardinality({workers[i] : i \in Len(workers) - n + 1 .. Len(workers)}) = n
<1> DEFINE I == Len(workers) - n + 1 .. Len(workers)
           T == {workers[i] : i \in I}
           f == [i \in I |-> workers[i]]
<1>1. Len(workers) \in Nat
  BY LenProperties
<1>2. I \subseteq 1 .. Len(workers) /\ IsFiniteSet(I) /\ Cardinality(I) = n
  <2>1. PICK a \in Int, b \in Int : a = Len(workers) - n + 1 /\ b = Len(workers)
    <3>1. Len(workers) - n + 1 \in Int /\ Len(workers) \in Int
      BY <1>1
    <3>2. QED
      BY <3>1
  <2>2. IsFiniteSet(a .. b) /\ Cardinality(a .. b) = IF a > b THEN 0 ELSE b - a + 1
    BY FS_Interval
  <2>3. (IF a > b THEN 0 ELSE b - a + 1) = n /\ a .. b \subseteq 1 .. Len(workers)
    BY <1>1, <2>1
  <2>4. QED
    BY <2>1, <2>2, <2>3
<1>3. f \in Surjection(I, T)
  BY DEF Surjection
<1>4. f \in Injection(I, T)
  BY <1>2 DEF Injection, IsInjective
<1>5. QED
  BY <1>2, <1>3, <1>4, FS_Surjection

LEMMA RemoveWorkersInv == ManagerInv /\ adapting /\ RemoveWorkers => ManagerInv'
<1> SUFFICES ASSUME ManagerInv, adapting, RemoveWorkers PROVE ManagerInv'
  OBVIOUS
<1>1. /\ LifecycleTypes /\ CrashNeedsClosing /\ EnoughWorkers /\ (started \/ stopped) /\ BeforeClosing
      /\ workers \in Seq(WorkerIds)
  BY DEF ManagerInv, ManagerTables, Lifecycle, BeforeStart, LifecycleTypes
<1>2. concurrency \in Nat /\ Len(workers) \in Nat /\ Len(workers) >= concurrency
  BY <1>1, LenProperties DEF EnoughWorkers, LifecycleTypes
<1>3. PICK new \in Nat : new = IF OneDown < 1 THEN 1 ELSE OneDown
  <2>1. OneDown \in Int
    BY <1>2 DEF OneDown
  <2>2. QED
    BY <2>1
<1> DEFINE removed == {workers[i] : i \in Len(workers) - (concurrency - new) + 1 .. Len(workers)}
<1>4. /\ new >= 1 /\ new < concurrency
      /\ IF (\E w \in removed : worker[w].closed) \/ Cardinality(removed) < concurrency - new
         THEN Crash
         ELSE /\ workers' = SubSeq(workers, 1, Len(workers) - (concurrency - new))
              /\ worker' = [w \in WorkerIds |-> IF w \in removed
                                                THEN [worker[w] EXCEPT !.closed = TRUE]
                                                ELSE worker[w]]
              /\ concurrency' = new /\ scaledDown' = TRUE
              /\ UNCHANGED <<job, queues, dispatcher, starts, started, stopped, adapting,
                             managerCrashed>>
  <2>1. new >= 1
    BY <1>2, <1>3 DEF OneDown
  <2>2. QED
    BY <1>3, <2>1 DEF RemoveWorkers
<1>5. CASE (\E w \in removed : worker[w].closed) \/ Cardinality(removed) < concurrency - new
  <2>1. stopped \/ scaledDown
    <3> SUFFICES ASSUME ~stopped, ~scaledDown PROVE FALSE
      OBVIOUS
    <3>1. /\ \A w \in WorkerIds : ~worker[w].closed
          /\ \A i, k \in 1 .. Len(workers) : workers[i] = workers[k] => i = k
      BY <1>1 DEF BeforeClosing
    <3>2. PICK n \in Nat : n = concurrency - new /\ n <= Len(workers)
      BY <1>2, <1>4
    <3>3. removed = {workers[i] : i \in Len(workers) - n + 1 .. Len(workers)} /\ Cardinality(removed) = n
      BY <1>1, <3>1, <3>2, LastWorkers
    <3>4. removed \subseteq WorkerIds
      <4>1. \A i \in Len(workers) - n + 1 .. Len(workers) : i \in 1 .. Len(workers)
        BY <1>2, <3>2
      <4>2. \A i \in 1 .. Len(workers) : workers[i] \in WorkerIds
        BY <1>1, ElementOfSeq
      <4>3. QED
        BY <3>3, <4>1, <4>2
    <3>5. n \in Nat /\ ~(n < n)
      OBVIOUS
    <3>6. QED
      BY <1>5, <3>1, <3>2, <3>3, <3>4, <3>5
  <2>2. QED
    BY <1>4, <1>5, <2>1, CrashInv
<1>6. CASE ~((\E w \in removed : worker[w].closed) \/ Cardinality(removed) < concurrency - new)
  <2>1. /\ UNCHANGED <<job, queues, dispatcher, starts, started, stopped, adapting, managerCrashed>>
        /\ concurrency' = new /\ scaledDown' = TRUE
        /\ WorkerTypes' /\ WithOneWorker'
    BY <1>4, <1>6, ClosingFacts
  <2>2. PICK m \in Nat : m = Len(workers) - (concurrency - new) /\ m >= new /\ m <= Len(workers)
    BY <1>2, <1>4
  <2>3. workers' = SubSeq(workers, 1, m)
    BY <1>4, <1>6, <2>2
  <2>4. workers' \in Seq(WorkerIds) /\ Len(workers') = m
    <3>1. \A i \in 1 .. m : workers[i] \in WorkerIds
      BY <1>1, <1>2, <2>2, ElementOfSeq
    <3>2. QED
      BY <2>2, <2>3, <3>1, SubSeqProperties
  <2>5. LifecycleTypes'
    BY <1>1, <2>1, <2>4 DEF LifecycleTypes
  <2>6. Lifecycle'
    BY <1>1, <2>1, <2>2, <2>4 DEF Lifecycle, BeforeStart, BeforeClosing, EnoughWorkers, CrashNeedsClosing
  <2>7. QED
    BY <2>1, <2>5, <2>6, DispatcherStays, JobsStay DEF ManagerInv, ManagerTables
<1>7. QED
  BY <1>5, <1>6

LEMMA AdjustConcurrencyInv == ManagerInv /\ AdjustConcurrency => ManagerInv'
<1> SUFFICES ASSUME ManagerInv, adapting, stopped, adapting' = FALSE,
                    UNCHANGED <<job, queues, dispatcher, workers, worker, concurrency, starts,
                                started, stopped, scaledDown, managerCrashed>>
             PROVE  ManagerInv'
  BY AddWorkersInv, RemoveWorkersInv DEF AdjustConcurrency
<1>1. WorkerTypes' /\ WithOneWorker'
  BY DEF ManagerInv, ManagerTables, JobPlaces, WorkerTypes, WithOneWorker, InChannel, Runs
<1>2. LifecycleTypes' /\ Lifecycle'
  BY DEF ManagerInv, ManagerTables, Lifecycle, LifecycleTypes, BeforeStart, BeforeClosing, EnoughWorkers,
         CrashNeedsClosing
<1>3. QED
  BY <1>1, <1>2, DispatcherStays, JobsStay DEF ManagerInv, ManagerTables

LEMMA StopInv == ManagerInv /\ Stop => ManagerInv'
<1> SUFFICES ASSUME ManagerInv, Stop PROVE ManagerInv'
  OBVIOUS
<1> DEFINE W == {w \in WorkerIds : \E i \in DOMAIN workers : workers[i] = w}
           fatal == \/ stopped
                    \/ \E i \in DOMAIN workers : worker[workers[i]].closed
                    \/ \E i, k \in DOMAIN workers : i # k /\ workers[i] = workers[k]
<1>1. LifecycleTypes /\ BeforeClosing /\ CrashNeedsClosing /\ EnoughWorkers /\ DOMAIN workers = 1 .. Len(workers)
      /\ \A i \in 1 .. Len(workers) : workers[i] \in WorkerIds
  BY LenProperties, ElementOfSeq DEF ManagerInv, ManagerTables, Lifecycle, LifecycleTypes
<1>2. CASE fatal
  <2>1. stopped \/ scaledDown
    BY <1>1, <1>2 DEF BeforeClosing
  <2>2. QED
    BY <1>2, <2>1, CrashInv DEF Stop
<1>3. CASE ~fatal
  <2>1. /\ stopped' = TRUE /\ started' = FALSE
        /\ UNCHANGED <<job, queues, dispatcher, workers, concurrency, starts, adapting, scaledDown, managerCrashed>>
        /\ worker' = [w \in WorkerIds |-> IF \E i \in DOMAIN workers : workers[i] = w
                                          THEN [worker[w] EXCEPT !.closed = TRUE] ELSE worker[w]]
    BY <1>3 DEF Stop
  <2>2. worker' = [w \in WorkerIds |-> IF w \in W THEN [worker[w] EXCEPT !.closed = TRUE] ELSE worker[w]]
    BY <2>1
  <2>3. WorkerTypes' /\ WithOneWorker'
    BY <2>1, <2>2, ClosingFacts
  <2>4. LifecycleTypes' /\ Lifecycle'
    BY <1>1, <2>1 DEF Lifecycle, LifecycleTypes, BeforeStart, BeforeClosing, EnoughWorkers, CrashNeedsClosing
  <2>5. QED
    BY <2>1, <2>3, <2>4, DispatcherStays, JobsStay DEF ManagerInv, ManagerTables
<1>4. QED
  BY <1>2, <1>3

\* Nothing is submitted, no worker exists.
LEMMA ManagerInitInv == ManagerInit => ManagerInv
<1> SUFFICES ASSUME ManagerInit PROVE ManagerInv
  OBVIOUS
<1>1. PICK p \in [Jobs -> Priorities] : job = [j \in Jobs |-> [at |-> "new", priority |-> p[j], retries |-> 0]]
  BY DEF ManagerInit
<1>2. \A j \in Jobs : job[j].at = "new" /\ job[j].retries = 0
  BY <1>1
<1>3. JobTypes
  BY <1>1 DEF JobTypes, Places
<1>4. /\ \A q \in Priorities : queue[q] = <<>> /\ depth[q] = 0
      /\ queue = [q \in Priorities |-> <<>>] /\ depth = [q \in Priorities |-> 0]
  BY DEF ManagerInit
<1>5. <<>> \in Seq(Jobs) /\ <<>> \in Seq(Jobs \cup {Nobody}) /\ <<>> \in Seq(WorkerIds) /\ Len(<<>>) = 0
  OBVIOUS
<1>6. QueueTypes
  <2>1. 0 <= BufferSize
    OBVIOUS
  <2>2. QED
    BY <1>4, <1>5, <2>1 DEF QueueTypes
<1>7. DispatcherTypes /\ HeldOnce /\ dispatcher.pc = "none" /\ dispatcher.queue = Nobody
  BY DEF ManagerInit, Selecting, DispatcherTypes, HeldOnce
<1>8. \A w \in WorkerIds : worker[w] = Unstarted
  BY DEF ManagerInit
<1>9. WorkerTypes
  <2>1. Unstarted \in [run : {"unused", "idle", "busy", "pooled"},
                        chan : Seq(Jobs \cup {Nobody}), closed : BOOLEAN, job : Jobs \cup {Nobody}]
    BY <1>5 DEF Unstarted
  <2>2. Len(Unstarted.chan) = 0
    BY <1>5 DEF Unstarted
  <2>3. QED
    BY <1>8, <2>1, <2>2 DEF WorkerTypes, ManagerInit
<1>10. LifecycleTypes
  <2>1. MaxConcurrency \div 2 \in Nat /\ 0 \in 0 .. MaxStarts
    <3>1. MaxConcurrency \in Nat /\ MaxStarts \in Nat
      OBVIOUS
    <3>2. QED
      BY <3>1
  <2>2. QED
    BY <1>5, <2>1, Zenon DEF LifecycleTypes, ManagerInit
<1>11. JobPlaces
  <2>1. QueuedOnce
    BY <1>4, <1>5 DEF QueuedOnce
  <2>2. WithOneWorker
    <3>1. \A j : <<>> # <<j>>
      BY SMT
    <3>2. \A w \in WorkerIds : worker[w].chan = <<>> /\ worker[w].run = "unused"
      BY <1>8 DEF Unstarted
    <3>3. QED
      BY <3>1, <3>2 DEF WithOneWorker, InChannel, Runs
  <2>3. Retries
    BY <1>2 DEF Retries
  <2>4. QED
    BY <1>7, <2>1, <2>2, <2>3 DEF JobPlaces
<1>12. Lifecycle
  <2>1. BeforeStart
    BY <1>2 DEF ManagerInit, BeforeStart, Selecting
  <2>2. BeforeClosing
    BY <1>5, <1>8 DEF ManagerInit, BeforeClosing, Unstarted
  <2>3. EnoughWorkers /\ CrashNeedsClosing
    BY DEF ManagerInit, EnoughWorkers, CrashNeedsClosing
  <2>4. QED
    BY <2>1, <2>2, <2>3 DEF Lifecycle
<1>13. DepthIsAccountedFor
  <2>1. \A q \in Priorities : JobsAt(q, "submitting") = {} /\ Refused(q) = {} /\ InHand(q) = 0
    BY <1>2, <1>7 DEF JobsAt, Refused, InHand
  <2>2. Cardinality({}) = 0
    BY FS_EmptySet
  <2>3. \A q \in Priorities : /\ Cardinality(JobsAt(q, "submitting")) = 0 /\ Cardinality(Refused(q)) = 0
                              /\ InHand(q) = 0 /\ Len(queue[q]) = 0 /\ depth[q] = 0
    BY <1>4, <1>5, <2>1, <2>2
  <2>4. \A q \in Priorities :
          depth[q] = Cardinality(JobsAt(q, "submitting")) + Len(queue[q]) + InHand(q) + Cardinality(Refused(q))
    BY <2>3
  <2>5. QED
    BY <2>4 DEF DepthIsAccountedFor
<1>14. QED
  BY <1>3, <1>6, <1>7, <1>9, <1>10, <1>11, <1>12, <1>13 DEF ManagerInv, ManagerTables

\* Every step of the manager keeps ManagerInv.
LEMMA ManagerStep == ManagerInv /\ [ManagerNext]_managerVars => ManagerInv'
<1> SUFFICES ASSUME ManagerInv, [ManagerNext]_managerVars PROVE ManagerInv'
  OBVIOUS
<1>1. ASSUME NEW j \in Jobs, SubmitJob(j) \/ Submission(j) PROVE ManagerInv'
  BY <1>1, SubmitJobInv, SubmissionInv
<1>2. CASE DispatchJobs
  BY <1>2, DispatchJobsInv
<1>3. ASSUME NEW w \in WorkerIds, Run(w) PROVE ManagerInv'
  BY <1>3, RunInv
<1>4. CASE ManagerStart \/ AdjustConcurrency \/ Stop
  BY <1>4, ManagerStartInv, AdjustConcurrencyInv, StopInv
<1>5. CASE UNCHANGED managerVars
  <2> USE <1>5 DEF managerVars, queues, lifecycle
  <2>1. ManagerTables'
    BY DEF ManagerInv, ManagerTables, JobTypes, QueueTypes, DispatcherTypes, WorkerTypes, LifecycleTypes
  <2>2. JobPlaces'
    BY DEF ManagerInv, JobPlaces, QueuedOnce, HeldOnce, WithOneWorker, InChannel, Runs, Retries
  <2>3. Lifecycle'
    BY DEF ManagerInv, Lifecycle, BeforeStart, BeforeClosing, EnoughWorkers, CrashNeedsClosing
  <2>4. DepthIsAccountedFor'
    <3>1. \A p : /\ JobsAt(p, "submitting")' = JobsAt(p, "submitting") /\ Refused(p)' = Refused(p)
                 /\ InHand(p)' = InHand(p)
      BY DEF JobsAt, Refused, InHand
    <3>2. QED
      BY <3>1 DEF ManagerInv, DepthIsAccountedFor
  <2>5. QED
    BY <2>1, <2>2, <2>3, <2>4 DEF ManagerInv
<1>6. QED
  BY <1>1, <1>2, <1>3, <1>4, <1>5 DEF ManagerNext

\* ManagerInv has what the theorem states.
LEMMA ManagerInvSaysSo == ManagerInv => JobsConsistent
<1> SUFFICES ASSUME ManagerInv PROVE JobsConsistent
  OBVIOUS
<1>1. ManagerTypeOK
  <2>1. \A j \in Jobs : /\ job[j].at \in Places /\ job[j].priority \in Priorities
                        /\ job[j].retries \in 0 .. MaxRetries + 1
    BY DEF ManagerInv, ManagerTables, JobTypes
  <2>2. \A p \in Priorities : queue[p] \in Seq(Jobs) /\ Len(queue[p]) <= BufferSize
    BY DEF ManagerInv, ManagerTables, QueueTypes
  <2>3. depth \in [Priorities -> Int]
    BY DEF ManagerInv, ManagerTables, QueueTypes
  <2>4. dispatcher.pc \in {"none", "select", "choose", "send", "count"}
    BY DEF ManagerInv, ManagerTables, DispatcherTypes
  <2>5. \A w \in WorkerIds : /\ worker[w].run \in {"unused", "idle", "busy", "pooled"}
                             /\ Len(worker[w].chan) <= 1
    BY DEF ManagerInv, ManagerTables, WorkerTypes
  <2>6. /\ workers \in Seq(WorkerIds) /\ concurrency \in Nat /\ starts \in 0 .. MaxStarts
        /\ {started, stopped, adapting, scaledDown, managerCrashed} \subseteq BOOLEAN
    BY DEF ManagerInv, ManagerTables, LifecycleTypes
  <2>7. QED
    BY <2>1, <2>2, <2>3, <2>4, <2>5, <2>6 DEF ManagerTypeOK, Places
<1>2. FailuresWereRetried
  <2>1. ASSUME NEW j \in Jobs
        PROVE  /\ job[j].at = "failed" => job[j].retries = MaxRetries + 1
               /\ job[j].at = "lost" => job[j].retries \in 1 .. MaxRetries
    <3>1. job[j].retries \in 0 .. MaxRetries + 1
      BY DEF ManagerInv, ManagerTables, JobTypes
    <3>2. QED
      BY <3>1 DEF ManagerInv, JobPlaces, Retries
  <2>2. QED
    BY <2>1 DEF FailuresWereRetried
<1>3. QED
  BY <1>1, <1>2 DEF JobsConsistent, ManagerInv, Lifecycle

\* For any jobs, priorities, workers, buffers and limits of retries and restarts: until
\* Stop the size of every queue is the number of jobs it stands for, a job fails only
\* after its retries, and the program panics only once a channel was closed.
THEOREM JobsAreConsistent == ManagerSpec => []JobsConsistent
<1>1. ManagerInit => ManagerInv
  BY ManagerInitInv
<1>2. ManagerInv /\ [ManagerNext]_managerVars => ManagerInv'
  BY ManagerStep
<1>3. ManagerInv => JobsConsistent
  BY ManagerInvSaysSo
<1>4. QED
  BY <1>1, <1>2, <1>3, PTL DEF ManagerSpec
=============================================================================
