---------------------------- MODULE BulkInsertBand ----------------------------
(***************************************************************************)
(* One test of the bulk-insert plugin: runBand of                          *)
(* plugins/bulk_insert_plugin/generator.go, called for one band after      *)
(* another, with the producers and consumers it starts.  The ring buffer   *)
(* is the queue it promises to be (BoundedQueue, which RingBuffer          *)
(* implements); where the buffer breaks that promise is RingBuffer's       *)
(* affair.                                                                 *)
(***************************************************************************)
EXTENDS Integers, Sequences, FiniteSets

CONSTANTS
  Producers,    \* the ProducerThreads
  Workers,      \* the consumers of each band
  Capacity,     \* slots of the ring buffer
  BatchSize,
  Bands,        \* how many bands are run
  MaxRecords    \* bound: records pushed in all

ASSUME BandAssumption ==
  /\ Capacity \in Nat \ {0} /\ BatchSize \in Nat \ {0}
  /\ Bands \in Nat /\ MaxRecords \in Nat

VARIABLES
  ring, closed,        \* the RingBuffer: its records, its closed flag
  phase,               \* where runBand is
  band, ctxDone,       \* the band, bandCtx.Done() of it
  first,               \* the number of the first record of the band
  pushed,              \* records pushed so far; they are numbered
  producer,            \* where each producer is
  worker, batch,       \* where each consumer of each band is, the records it holds
  inserted, failed,    \* records of the inserts that succeeded, and that did not
  strays               \* history: how many records each consumer took of later bands

buffer  == <<ring, closed>>
control == <<phase, band, ctxDone, first>>
workers == <<worker, batch>>
results == <<inserted, failed, strays>>
vars    == <<buffer, control, pushed, producer, workers, results>>

Ring == INSTANCE BoundedQueue WITH queue <- ring, Items <- 1 .. MaxRecords

\* The consumers runBand starts: one that is in the middle of an insert, or of a
\* Pop, may outlive its band.
Consumers == Workers \X (1 .. Bands)
OfBand(b) == {g \in Consumers : g[2] = b}

\* ctx.Done() as a consumer sees it: runBand cancels the context when it returns.
Done(g) == g[2] < band \/ ctxDone

AllGone(b) == \A g \in OfBand(b) : worker[g] = "gone"

Goto(g, from, to) == worker[g] = from /\ worker' = [worker EXCEPT ![g] = to]

Init ==
  /\ ring = <<>> /\ closed = FALSE
  /\ phase = "between" /\ band = 0 /\ ctxDone = FALSE /\ first = 1
  /\ pushed = 0
  /\ producer = [p \in Producers |-> "gone"]
  /\ worker = [g \in Consumers |-> "unborn"]
  /\ batch = [g \in Consumers |-> <<>>]
  /\ inserted = {} /\ failed = {}
  /\ strays = [g \in Consumers |-> 0]

-----------------------------------------------------------------------------
(* Plausible mistakes, each of which one of the properties is there to     *)
(* catch.                                                                  *)

\* A consumer leaves when the buffer is closed, whatever its context says.
ConsumerChecksClosed(g) ==
  /\ Goto(g, "top", IF closed THEN "gone" ELSE "pop")
  /\ UNCHANGED <<buffer, control, pushed, producer, batch, results>>

\* A consumer whose context ends drops the records it has popped.
ConsumerStartsInsertUnlessDone(g) ==
  /\ batch[g] # <<>>
  /\ ring = <<>> \/ Len(batch[g]) = BatchSize
  /\ Goto(g, "pop", IF Done(g) THEN "top" ELSE "insert")
  /\ batch' = [batch EXCEPT ![g] = IF Done(g) THEN <<>> ELSE @]
  /\ UNCHANGED <<buffer, control, pushed, producer, results>>

\* runBand waits for its consumers without a limit.
GraceNeverOver ==
  /\ phase = "grace" /\ AllGone(band)
  /\ phase' = "between"
  /\ UNCHANGED <<buffer, band, ctxDone, first, pushed, producer, workers, results>>

-----------------------------------------------------------------------------
\* runBand begins: Reset, and the goroutines are started.
StartBand ==
  /\ phase = "between" /\ band < Bands
  /\ phase' = "running"
  /\ band' = band + 1
  /\ ctxDone' = FALSE
  /\ first' = pushed + 1
  /\ Ring!Clear /\ closed' = FALSE
  /\ producer' = [p \in Producers |-> "top"]
  /\ worker' = [g \in Consumers |-> IF g[2] = band' THEN "top" ELSE worker[g]]
  /\ UNCHANGED <<pushed, batch, results>>

\* The duration is over, or the test is cancelled: <-bandCtx.Done().
BandEnds ==
  /\ phase = "running"
  /\ phase' = "stopping"
  /\ ctxDone' = TRUE
  /\ UNCHANGED <<buffer, band, first, pushed, producer, workers, results>>

\* producerWg.Wait() returns; Close.
ProducersDone ==
  /\ phase = "stopping" /\ \A p \in Producers : producer[p] = "gone"
  /\ phase' = "grace"
  /\ closed' = TRUE
  /\ UNCHANGED <<ring, band, ctxDone, first, pushed, producer, workers, results>>

WorkersDone ==
  /\ phase = "grace" /\ AllGone(band)
  /\ phase' = "between"
  /\ UNCHANGED <<buffer, band, ctxDone, first, pushed, producer, workers, results>>

\* The 30 seconds of grace are over, wherever the consumers are: in an insert, or
\* in a Pop that waits for a flag without looking at the context.
GraceOver ==
  /\ phase = "grace"
  /\ phase' = "between"
  /\ UNCHANGED <<buffer, band, ctxDone, first, pushed, producer, workers, results>>

RunBand == StartBand \/ BandEnds \/ ProducersDone \/ WorkersDone \/ GraceOver

-----------------------------------------------------------------------------
\* producer: check the context, generate a record, push it.
ProducerChecks(p) ==
  /\ producer[p] = "top"
  /\ producer' = [producer EXCEPT ![p] = IF ctxDone THEN "gone" ELSE "push"]
  /\ UNCHANGED <<buffer, control, pushed, workers, results>>

ProducerPushes(p) ==
  /\ producer[p] = "push" /\ pushed < MaxRecords
  /\ Ring!Put(pushed + 1)
  /\ pushed' = pushed + 1
  /\ producer' = [producer EXCEPT ![p] = "top"]
  /\ UNCHANGED <<closed, control, workers, results>>

\* Push has failed: the record is given up when the context is done.
ProducerGivesUp(p) ==
  /\ producer[p] = "push" /\ ctxDone
  /\ Len(ring) = Capacity \/ pushed = MaxRecords
  /\ producer' = [producer EXCEPT ![p] = "gone"]
  /\ UNCHANGED <<buffer, control, pushed, workers, results>>

Produce(p) == ProducerChecks(p) \/ ProducerPushes(p) \/ ProducerGivesUp(p)

\* consumer: check the context, here and again in PopBatchBlocking.
ConsumerChecks(g) ==
  /\ Goto(g, "top", IF Done(g) THEN "gone" ELSE "pop")
  /\ UNCHANGED <<buffer, control, pushed, producer, batch, results>>

\* PopBatch: one Pop after the other while there are records.  Reset has emptied the
\* buffer, so that a record taken after the end of a band is one of a later band.
ConsumerPops(g) ==
  /\ worker[g] = "pop" /\ Len(batch[g]) < BatchSize
  /\ Ring!Take
  /\ batch' = [batch EXCEPT ![g] = Append(@, Head(ring))]
  /\ strays' = IF g[2] < band THEN [strays EXCEPT ![g] = @ + 1] ELSE strays
  /\ UNCHANGED <<closed, control, pushed, producer, worker, inserted, failed>>

\* PopBatchBlocking returns nothing, and the buffer is closed and empty, or not.
ConsumerFindsNothing(g) ==
  /\ batch[g] = <<>> /\ ring = <<>>
  /\ Goto(g, "pop", IF closed THEN "gone" ELSE "top")
  /\ UNCHANGED <<buffer, control, pushed, producer, batch, results>>

ConsumerStartsInsert(g) ==
  /\ batch[g] # <<>>
  /\ ring = <<>> \/ Len(batch[g]) = BatchSize
  /\ Goto(g, "pop", "insert")
  /\ UNCHANGED <<buffer, control, pushed, producer, batch, results>>

\* performBatchInsert or performCopyInsert returns: all rows or an error.
ConsumerInserts(g) ==
  /\ Goto(g, "insert", "top")
  /\ LET rows == {batch[g][i] : i \in DOMAIN batch[g]} IN
       \/ inserted' = inserted \cup rows /\ UNCHANGED failed
       \/ failed' = failed \cup rows /\ UNCHANGED inserted
  /\ batch' = [batch EXCEPT ![g] = <<>>]
  /\ UNCHANGED <<buffer, control, pushed, producer, strays>>

Consume(g) ==
  \/ ConsumerChecks(g) \/ ConsumerPops(g) \/ ConsumerFindsNothing(g)
  \/ ConsumerStartsInsert(g) \/ ConsumerInserts(g)

Next ==
  \/ RunBand
  \/ \E p \in Producers : Produce(p)
  \/ \E g \in Consumers : Consume(g)

Spec == Init /\ [][Next]_vars

\* Goroutines are scheduled and timers fire; an insert, or a Pop that waits for a
\* flag, may never return, so that nothing is assumed of consumers.
Fairness ==
  /\ WF_vars(RunBand)
  /\ \A p \in Producers : WF_vars(Produce(p))
FairSpec == Spec /\ Fairness

-----------------------------------------------------------------------------
TypeOK ==
  /\ ring \in Seq(1 .. MaxRecords) /\ Len(ring) <= Capacity
  /\ {closed, ctxDone} \subseteq BOOLEAN
  /\ phase \in {"between", "running", "stopping", "grace"}
  /\ band \in 0 .. Bands
  /\ pushed \in 0 .. MaxRecords /\ first \in 1 .. pushed + 1
  /\ producer \in [Producers -> {"top", "push", "gone"}]
  /\ worker \in [Consumers -> {"unborn", "top", "pop", "insert", "gone"}]
  /\ \A g \in Consumers : batch[g] \in Seq(1 .. MaxRecords) /\ Len(batch[g]) <= BatchSize
  /\ inserted \cup failed \subseteq 1 .. pushed
  /\ strays \in [Consumers -> Nat]

\* In how many places a record is.
Places(r) ==
  Cardinality({i \in DOMAIN ring : ring[i] = r})
  + Cardinality({x \in Consumers \X (1 .. BatchSize) :
                   x[2] \in DOMAIN batch[x[1]] /\ batch[x[1]][x[2]] = r})
  + Cardinality({s \in {"inserted", "failed"} : r \in IF s = "inserted" THEN inserted ELSE failed})

\* Every record of the band is in one place: the end of the band, which any
\* consumer may meet at any point, loses no record that was popped, and no
\* record is inserted twice.  Records of earlier bands may have been cleared.
RecordsAreAccountedFor ==
  \A r \in 1 .. pushed : IF r >= first THEN Places(r) = 1 ELSE Places(r) <= 1

\* Nothing is pushed into a closed buffer: a consumer that finds it closed and
\* empty misses nothing by leaving.
ClosedAfterProducers == closed => \A p \in Producers : producer[p] = "gone"

\* A consumer that outlives its band looks at its context before the next batch,
\* but not before the next record: what it takes of the bands after its own, to
\* insert by the wrong method and count for the wrong band, is one batch at most.
StragglersTakeOneBatch == \A g \in Consumers : strays[g] <= BatchSize

\* How far bands mix: the producers of a band have gone when its buffer is closed,
\* and a consumer that is left over takes a batch of the bands after it, no more
\* (runBand, consumer, PopBatchBlocking).
BandsMixByABatch == ClosedAfterProducers /\ StragglersTakeOneBatch

\* A band ends in time, even when an insert never returns.
BandsEnd == phase = "stopping" ~> phase = "between"
=============================================================================
