----------------------------- MODULE Workloads ------------------------------
(***************************************************************************)
(* The program from its command line: --rebuild, --setup or neither, then  *)
(* the workload of one plugin, whose workers share a pool of connections,  *)
(* until the time is over or a signal comes; and the same again later, on  *)
(* the database that is left.  What the statements of the plugins do is    *)
(* in their own modules; this one executes them, and lets them fail.       *)
(***************************************************************************)
EXTENDS SqlOperation

CONSTANTS Workers,           \* the workers of a run
          PoolSize,          \* connections of the pool
          LockRows,          \* rows that transactions lock
          MaxFaults,         \* statements that fail for no reason of the model
          MaxOperations      \* operations of all runs, less the faults before them

ASSUME WorkloadAssumption ==
    /\ IsFiniteSet(Workers)
    /\ {PoolSize, MaxFaults, MaxOperations} \subseteq Nat
    /\ PoolSize > 0

E == INSTANCE Ecommerce
B == INSTANCE EcommerceBasic
I == INSTANCE Imdb
T == INSTANCE Tpcc
S == INSTANCE Simple
C == INSTANCE ConnectionOverhead
V == INSTANCE VectorSearch

VARIABLES plugin,
          scale,          \* what a scaled load makes of a table: "full" or "short"
          db,             \* the status of each table
          program,           \* the program: phase, what is left of the script, ...
          worker,         \* the operation of each worker
          expired,        \* the context of the run has ended
          faults, operations

workloadsVars == <<plugin, scale, db, program, worker, expired, faults, operations>>

---------------------------------------------------------------------------
(* The plugins. *)

Plugins == {"ecommerce", "ecommerce_basic", "imdb", "tpcc", "simple", "connection", "vector"}

Tables(p) ==
    CASE p = "ecommerce" -> E!Tables [] p = "ecommerce_basic" -> B!Tables
      [] p = "imdb" -> I!Tables [] p = "tpcc" -> T!Tables [] p = "simple" -> S!Tables
      [] p = "connection" -> C!Tables [] p = "vector" -> V!Tables

Modes(p) ==
    CASE p = "ecommerce" -> E!Modes [] p = "ecommerce_basic" -> B!Modes
      [] p = "imdb" -> I!Modes [] p = "tpcc" -> T!Modes [] p = "simple" -> S!Modes
      [] p = "connection" -> C!Modes [] p = "vector" -> V!Modes

Operations ==
    CASE plugin = "ecommerce" -> E!Operations(program.mode)
      [] plugin = "ecommerce_basic" -> B!Operations(program.mode)
      [] plugin = "imdb" -> I!Operations(program.mode) [] plugin = "tpcc" -> T!Operations(program.mode)
      [] plugin = "simple" -> S!Operations(program.mode) [] plugin = "connection" -> C!Operations(program.mode)
      [] plugin = "vector" -> V!Operations(program.mode)

Setups ==
    CASE plugin = "ecommerce" -> E!Setup(db) [] plugin = "ecommerce_basic" -> B!Setup(db)
      [] plugin = "imdb" -> I!Setup(db) [] plugin = "tpcc" -> T!Setup(db)
      [] plugin = "simple" -> S!Setup(db) [] plugin = "connection" -> C!Setup(db)
      [] plugin = "vector" -> V!Setup(db)

Cleanup ==
    CASE plugin = "ecommerce" -> E!Cleanup [] plugin = "ecommerce_basic" -> B!Cleanup
      [] plugin = "imdb" -> I!Cleanup [] plugin = "tpcc" -> T!Cleanup
      [] plugin = "simple" -> S!Cleanup [] plugin = "connection" -> C!Cleanup
      [] plugin = "vector" -> V!Cleanup

---------------------------------------------------------------------------
(* Workers. *)

Idle == [pc |-> 0, script |-> <<>>, kept |-> {}, pending |-> {}, outcome |-> "none"]
Busy(w) == worker[w].pc # 0 /\ worker[w].outcome = "none"
Ended(w) == worker[w].outcome \notin {"none", "left"}

Statement(w) == worker[w].script[worker[w].pc]
Executed(w) == IF Busy(w) THEN worker[w].pc - 1 ELSE 0
InTx(w) == Busy(w) /\ OpenAfter(worker[w].script, Executed(w))
Locked(w) == IF Busy(w) THEN LockedAfter(worker[w].script, Executed(w)) ELSE {}

Connected == {w \in Workers : Busy(w) /\ PooledAfter(worker[w].script, Executed(w))}

(* The statement goes over a connection that the worker has, or the pool has one. *)
HasConnection(w) ==
    \/ Statement(w).via = "own"
    \/ InTx(w) /\ Statement(w).via = "transaction"
    \/ Cardinality(Connected) < PoolSize

WaitsFor(w, v) == v # w /\ Busy(w) /\ Statement(w).row \in Locked(v) \ {<<>>}
HasLocks(w) == \A v \in Workers : ~WaitsFor(w, v)

(* The waits of the workers W go round in circles. *)
Deadlocked(W) ==
    /\ W # {}
    /\ \A w \in W : (\E v \in W : WaitsFor(w, v)) /\ (\E v \in W : WaitsFor(v, w))

WorkloadsTypeOK ==
    /\ plugin \in Plugins
    /\ scale \in {"full", "short"}
    /\ db \in [Tables(plugin) -> Statuses]
    /\ program.phase \in {"over", "cleanup", "setup", "start", "run"}
    /\ program.failure \in {"none", "fault", "missing", "collision", "arguments", "start"}
    /\ {program.rebuilds, program.isSetUp, program.clean, program.loaded, program.signalled, expired}
           \subseteq BOOLEAN
    /\ \A w \in Workers :
           /\ worker[w].pc \in 0 .. Len(worker[w].script) + 1
           /\ worker[w].kept \cup worker[w].pending \subseteq Tables(plugin)
    /\ faults \in 0 .. MaxFaults
    /\ operations \in 0 .. MaxOperations

(* No mode is chosen yet, nothing has failed. *)
Fresh == [phase |-> "over", script |-> <<>>, failure |-> "none", mode |-> "none",
          rebuilds |-> FALSE, isSetUp |-> FALSE, clean |-> TRUE, loaded |-> FALSE,
          signalled |-> FALSE]

WorkloadsInit ==
    /\ plugin \in Plugins /\ scale \in {"full", "short"}
    /\ db = [t \in Tables(plugin) |-> "absent"]
    /\ program = Fresh
    /\ worker = [w \in Workers |-> Idle]
    /\ expired = FALSE
    /\ faults = 0 /\ operations = 0

---------------------------------------------------------------------------
(* The program: Cleanup and Setup, statement by statement. *)

(* The process starts: of an earlier one only the database is left. *)
Invoke ==
    /\ program.phase = "over"
    /\ UNCHANGED <<plugin, scale, db, worker, expired, faults, operations>>

Begins(phase, script, rebuilds) ==
    program' = [Fresh EXCEPT !.phase = phase, !.script = script, !.rebuilds = rebuilds]

Rebuild == Invoke /\ Begins("cleanup", Cleanup, TRUE)
SetupOnly == Invoke /\ \E script \in Setups : Begins("setup", script, FALSE)
NoSetup == Invoke /\ Begins("start", <<>>, FALSE)

Preparing == program.phase \in {"cleanup", "setup"}
Goes(n) == program' = [program EXCEPT !.script = SubSeq(@, n + 1, Len(@))]

PreparedUnchanged == UNCHANGED <<plugin, scale, worker, expired, operations>>

Prepares ==
    /\ Preparing /\ program.script # <<>>
    /\ LET s == Head(program.script) IN
       /\ ~Impossible(db, s)
       /\ db' = Applied(db, s, scale)
       /\ IF s.verb = "guard" /\ (\E t \in s.tables : HasRows(db, t)) THEN Goes(Len(program.script))
          ELSE IF s.after = "attempt" THEN Goes(2)
          ELSE Goes(1)
    /\ PreparedUnchanged /\ UNCHANGED faults

(* A statement fails: because of what the database holds, or for any other
   reason (the connection, the server, a key drawn twice). *)
PreparationFails ==
    /\ Preparing /\ program.script # <<>>
    /\ LET s == Head(program.script)
           refused == Impossible(db, s) IN
       /\ \/ refused /\ UNCHANGED faults
          \/ ~refused /\ faults < MaxFaults /\ faults' = faults + 1
       /\ db' \in HalfLoaded(db, s)
       /\ IF s.after \in {"ignored", "attempt"}
          THEN program' = [program EXCEPT !.script = Tail(@), !.clean = @ /\ refused]
          ELSE program' = [program EXCEPT !.phase = "over", !.script = <<>>, !.clean = @ /\ refused,
                                    !.failure = IF refused THEN Refusal(db, s) ELSE "fault"]
    /\ PreparedUnchanged

(* After Cleanup main calls Setup, and after Setup it runs the workload. *)
CleanedUp ==
    /\ program.phase = "cleanup" /\ program.script = <<>>
    /\ \E script \in Setups : program' = [program EXCEPT !.phase = "setup", !.script = script]
    /\ PreparedUnchanged /\ UNCHANGED <<db, faults>>

SetUp ==
    /\ program.phase = "setup" /\ program.script = <<>>
    /\ program' = [program EXCEPT !.phase = "start", !.isSetUp = TRUE,
                            !.loaded = program.rebuilds /\ program.clean /\ scale = "full"]
    /\ PreparedUnchanged /\ UNCHANGED <<db, faults>>

---------------------------------------------------------------------------
(* The run. *)

Runs(m) == plugin = "vector" => V!Runs(m, program.isSetUp, db)
Waits == plugin = "vector" => V!Waits(program.mode)

RunStarts ==
    /\ program.phase = "start"
    /\ \E m \in Modes(plugin) :
           \/ /\ Runs(m)
              /\ program' = [Fresh EXCEPT !.phase = "run", !.mode = m, !.loaded = program.loaded]
           \/ ~Runs(m) /\ program' = [program EXCEPT !.phase = "over", !.failure = "start"]
    /\ PreparedUnchanged /\ UNCHANGED <<db, faults>>

RunUnchanged == UNCHANGED <<plugin, scale>>

TimeIsOver ==
    /\ program.phase = "run" /\ ~expired
    /\ expired' = TRUE
    /\ UNCHANGED <<db, program, worker, faults, operations>> /\ RunUnchanged

Signal ==
    /\ program.phase = "run" /\ ~expired
    /\ expired' = TRUE
    /\ program' = [program EXCEPT !.signalled = TRUE]
    /\ UNCHANGED <<db, worker, faults, operations>> /\ RunUnchanged

(* A worker looks at the context between operations only. *)
LeaveRun(w) ==
    /\ program.phase = "run" /\ worker[w] = Idle /\ expired
    /\ worker' = [worker EXCEPT ![w].outcome = "left"]
    /\ UNCHANGED <<db, program, expired, faults, operations>> /\ RunUnchanged

AllLeft == \A w \in Workers : worker[w].outcome = "left"

(* The process ends, with what its workers are in the middle of. *)
Exit ==
    /\ program' = Fresh
    /\ worker' = [w \in Workers |-> Idle] /\ expired' = FALSE
    /\ UNCHANGED <<db, faults, operations>> /\ RunUnchanged

RunReturns ==
    /\ program.phase = "run" /\ (Waits => AllLeft)
    /\ Exit

(* After a signal main waits for five seconds. *)
GraceOver ==
    /\ program.phase = "run" /\ program.signalled
    /\ Exit

---------------------------------------------------------------------------
(* Operations. *)

Start(w) ==
    /\ program.phase = "run" /\ worker[w] = Idle /\ ~expired
    /\ operations + faults < MaxOperations
    /\ operations' = operations + 1
    /\ \E script \in Operations :
           worker' = [worker EXCEPT ![w] = [Idle EXCEPT !.pc = 1, !.script = script]]
    /\ UNCHANGED <<db, program, expired, faults>> /\ RunUnchanged

(* The worker is at statement n + pc of its script, or its operation is over. *)
Continued(o, n) ==
    IF o.pc + n > Len(o.script) THEN [o EXCEPT !.outcome = "succeeded"] ELSE [o EXCEPT !.pc = @ + n]
Stopped(o, cause) == [o EXCEPT !.outcome = cause, !.pending = {}]

(* A statement outside a transaction takes effect at once, and those of a
   transaction together when it is committed. *)
Effect(o, s) ==
    IF s.verb \notin Writing THEN o
    ELSE IF OpenAfter(o.script, o.pc - 1) /\ s.via = "transaction"
    THEN [o EXCEPT !.pending = @ \cup s.tables]
    ELSE [o EXCEPT !.kept = @ \cup s.tables]
Committed(o) == [o EXCEPT !.kept = @ \cup o.pending, !.pending = {}]

(* The tables after the writes of a transaction. *)
CommitEffect(w) ==
    LET script == worker[w].script
        by(verbs, t) == \E i \in DOMAIN script : script[i].verb \in verbs /\ t \in script[i].tables
    IN  [t \in DOMAIN db |->
            IF \/ db[t] = "empty" /\ by({"insert", "insertnext"}, t)
               \/ db[t] = "full" /\ by({"delete"}, t)
            THEN "short" ELSE db[t]]

Able(w) == Busy(w) /\ HasConnection(w) /\ HasLocks(w)

ExecuteStatement(w) ==
    /\ Able(w) /\ ~Impossible(db, Statement(w))
    /\ LET o == worker[w]
           s == Statement(w)
           done == IF s.verb = "commit" THEN Committed(o) ELSE Effect(o, s)
       IN  /\ \/ worker' = [worker EXCEPT ![w] = Continued(done, IF s.after = "attempt" THEN 2 ELSE 1)]
              \/ s.after = "maybe" /\ worker' = [worker EXCEPT ![w] = Stopped(done, "succeeded")]
           /\ db' = IF s.verb = "commit" THEN CommitEffect(w)
                    ELSE IF InTx(w) /\ s.via = "transaction" THEN db
                    ELSE Applied(db, s, scale)
    /\ UNCHANGED <<program, expired, faults, operations>> /\ RunUnchanged

(* An error ends the operation, and the deferred Rollback its transaction, or
   it is passed over. *)
Errs(w, cause) ==
    worker' = [worker EXCEPT ![w] = IF Statement(w).after \in {"ignored", "attempt"}
                                    THEN Continued(@, 1) ELSE Stopped(@, cause)]

Refuse(w) ==
    /\ Able(w) /\ Refusable(db, Statement(w))
    /\ Errs(w, Refusal(db, Statement(w)))
    /\ UNCHANGED <<db, program, expired, faults, operations>> /\ RunUnchanged

Fault(w) ==
    /\ Busy(w) /\ faults < MaxFaults
    /\ faults' = faults + 1
    /\ Errs(w, "fault")
    /\ UNCHANGED <<db, program, expired, operations>> /\ RunUnchanged

(* The server may have committed before the answer was lost. *)
CommitUnanswered(w) ==
    /\ Busy(w) /\ Statement(w).verb = "commit"
    /\ expired \/ faults < MaxFaults
    /\ faults' = IF expired THEN faults ELSE faults + 1
    /\ worker' = [worker EXCEPT ![w] = Stopped(Committed(@), "unanswered")]
    /\ db' = CommitEffect(w)
    /\ UNCHANGED <<program, expired, operations>> /\ RunUnchanged

(* The context of the run is the context of every statement. *)
Interrupt(w) ==
    /\ Busy(w) /\ expired
    /\ worker' = [worker EXCEPT ![w] = Stopped(@, "interrupted")]
    /\ UNCHANGED <<db, program, expired, faults, operations>> /\ RunUnchanged

(* Of transactions that wait for each other the server ends one. *)
DeadlockVictim(w) ==
    /\ \E W \in SUBSET Workers : w \in W /\ Deadlocked(W)
    /\ worker' = [worker EXCEPT ![w] = Stopped(@, "deadlock")]
    /\ UNCHANGED <<db, program, expired, faults, operations>> /\ RunUnchanged

(* The worker counts the operation and goes on. *)
Count(w) ==
    /\ Ended(w)
    /\ worker' = [worker EXCEPT ![w] = Idle]
    /\ UNCHANGED <<db, program, expired, faults, operations>> /\ RunUnchanged

Operate(w) ==
    program.phase = "run" /\ (ExecuteStatement(w) \/ Refuse(w) \/ Fault(w) \/ CommitUnanswered(w)
                              \/ Interrupt(w) \/ DeadlockVictim(w) \/ Count(w))

WorkloadsNext ==
    \/ Rebuild \/ SetupOnly \/ NoSetup
    \/ Prepares \/ PreparationFails \/ CleanedUp \/ SetUp
    \/ RunStarts \/ TimeIsOver \/ Signal \/ RunReturns \/ GraceOver
    \/ \E w \in Workers : Start(w) \/ LeaveRun(w) \/ Operate(w)

WorkloadsSpec == WorkloadsInit /\ [][WorkloadsNext]_workloadsVars

---------------------------------------------------------------------------
(* After a rebuild in which no statement failed, at a scale that makes a row for
   every id, no operation misses a row or a table: the loaders make what the
   operations draw from. *)
PreparedRunsFindTheirRows ==
    program.loaded =>
        \A w \in Workers : worker[w].outcome # "missing"

(* An operation that writes to several tables keeps all of its writes or none;
   only a commit without an answer leaves open which, and the model lets it keep
   them.  Writes are pending only while their transaction is open. *)
AllOrNothing ==
    \A w \in Workers :
        /\ Ended(w) => worker[w].kept \in IF worker[w].outcome = "unanswered"
                                         THEN {Writes(worker[w].script)}
                                         ELSE {{}, Writes(worker[w].script)}
        /\ worker[w].pending # {} => InTx(w)

(* A rebuild succeeds whatever an earlier one, cut off at any statement, or an
   earlier run has left in the database: it fails by a fault of its own only. *)
RebuildRecovers ==
    program.rebuilds /\ program.clean => program.failure \in {"none", "start"}

(* The TPC-C transactions lock the rows in one order: none is ever a victim. *)
TpccNeverDeadlocks ==
    plugin = "tpcc" => \A w \in Workers : worker[w].outcome # "deadlock"

(* Of the operations under way one can always go on, or the server ends one: no
   transaction waits for a connection that only another one that waits, or it
   itself, can give back.  As scripts are finite, every operation ends. *)
OperationsProceed ==
    (\E w \in Workers : Busy(w)) =>
        (\E w \in Workers : Able(w)) \/ (\E W \in SUBSET Workers : Deadlocked(W))
=============================================================================
