----------------------------- MODULE RingBuffer -----------------------------
(***************************************************************************)
(* The lock-free ring buffer of the bulk-insert plugin                     *)
(* (plugins/bulk_insert_plugin/ring_buffer.go).  Any number of producers   *)
(* call Push and any number of consumers call Pop at once; every access    *)
(* to shared memory is a step of its own.                                  *)
(*                                                                         *)
(* A record is named by the claim it was pushed under: the number of       *)
(* Resets before it and the index its producer claimed.  No index is       *)
(* claimed twice between two Resets (ClaimsAreExclusive), so the name is   *)
(* unique.  A DataRecord is many machine words; it is abstracted to two    *)
(* halves, copied one after the other, which is enough for a torn copy.    *)
(***************************************************************************)
EXTENDS Integers, FiniteSets

CONSTANTS
  Producers,   \* goroutines running Generator.producer
  Consumers,   \* goroutines running Generator.consumer
  Capacity,    \* slots of the buffer
  MaxRecords,  \* bound: records pushed between two Resets
  MaxResets    \* bound: Resets

ASSUME RingAssumption ==
  /\ Producers \cap Consumers = {}
  /\ Capacity \in Nat \ {0}
  /\ \E k \in 0 .. Capacity : Capacity = 2 ^ k   \* NewRingBuffer rounds up
  /\ MaxRecords \in Nat
  /\ MaxResets \in Nat

ASSUME ThreadsAssumption == IsFiniteSet(Producers) /\ IsFiniteSet(Consumers)

VARIABLES
  writeIndex, readIndex,  \* RingBuffer.writeIndex, RingBuffer.readIndex
  writeComplete,          \* RingBuffer.writeComplete, one flag per slot
  buffer,                 \* RingBuffer.buffer, the two halves of each slot
  produced, consumed,     \* RingBuffer.produced, RingBuffer.consumed
  resets,                 \* Resets so far
  pc,                     \* where each goroutine is inside Push or Pop
  idx,                    \* its local writeIdx (producer) or readIdx (consumer)
  record                  \* the consumer's local copy of a record

indices == <<writeIndex, readIndex>>
slots   == <<writeComplete, buffer>>
stats   == <<produced, consumed>>
shared  == <<indices, slots, stats, resets>>
vars    == <<shared, pc, idx, record>>

Threads == Producers \cup Consumers
Slots   == 0 .. Capacity - 1

\* pos := idx & mask, with mask = capacity - 1 and capacity a power of two.
Pos(i) == i % Capacity

\* The name of the record pushed under index i since the last Reset.
RecordAt(i) == <<resets, i>>

\* The zero DataRecord a fresh slot holds.
ZeroRecord == <<0, -1>>
Records    == Nat \X (Nat \cup {-1})
Halves     == [low : Records, high : Records]
Whole(r)   == [low |-> r, high |-> r]

BeforeClaim == {"loadRead", "loadWrite", "loadFlag", "cas"}
Writing     == {"markBusy", "copyLow", "copyHigh", "markDone"}
Reading     == {"copyLow", "copyHigh", "clearFlag"}
ProducerPCs == {"idle", "loadRead", "cas", "count"} \cup Writing
ConsumerPCs == {"idle", "loadWrite", "loadFlag", "cas", "count"} \cup Reading

Init ==
  /\ writeIndex = 0
  /\ readIndex = 0
  /\ writeComplete = [s \in Slots |-> 0]
  /\ buffer = [s \in Slots |-> Whole(ZeroRecord)]
  /\ produced = 0
  /\ consumed = 0
  /\ resets = 0
  /\ pc  = [t \in Threads |-> "idle"]
  /\ idx = [t \in Threads |-> 0]
  /\ record = [c \in Consumers |-> Whole(ZeroRecord)]

\* Thread t goes from one point of its call to the next.
Goto(t, from, to) ==
  /\ pc[t] = from
  /\ pc' = [pc EXCEPT ![t] = to]

\* A step that changes nothing but where the thread is.
Branch(t, from, to) == Goto(t, from, to) /\ UNCHANGED <<shared, idx, record>>

-----------------------------------------------------------------------------
(* Plausible mistakes in Push, Pop and Reset, each of which one of the     *)
(* properties below is there to catch.                                     *)

\* One slot is kept free, as ring buffers without counters do.
PushFullOffByOne(p) == Branch(p, "loadRead", "idle") /\ idx[p] - readIndex >= Capacity - 1

\* Pop stops one record short of the write index.
PopEmptyOffByOne(c) == Branch(c, "loadWrite", "idle") /\ idx[c] + 1 >= writeIndex

\* Pop does not wait for the write to be complete.
PopIgnoresFlag(c) == Branch(c, "loadFlag", "cas")

\* A plain store of readIdx+1 for the compare-and-swap.
PopStoresIndex(c) ==
  /\ Goto(c, "cas", "copyLow")
  /\ readIndex' = idx[c] + 1
  /\ UNCHANGED <<writeIndex, slots, stats, resets, idx, record>>

\* Reset keeps the count of consumed records.
ResetKeepsConsumed ==
  /\ resets < MaxResets
  /\ \A t \in Threads : pc[t] = "idle"
  /\ writeIndex' = 0
  /\ readIndex' = 0
  /\ produced' = 0
  /\ resets' = resets + 1
  /\ UNCHANGED <<slots, consumed, pc, idx, record>>

\* Reset rewinds the read index only.
ResetKeepsWriteIndex ==
  /\ resets < MaxResets
  /\ \A t \in Threads : pc[t] = "idle"
  /\ readIndex' = 0
  /\ produced' = 0
  /\ consumed' = 0
  /\ resets' = resets + 1
  /\ UNCHANGED <<writeIndex, slots, pc, idx, record>>

-----------------------------------------------------------------------------
(* Push.  A retry after a failed compare-and-swap starts over from "idle". *)

\* writeIdx := atomic.LoadInt64(&rb.writeIndex).  The guard on MaxRecords
\* only bounds the model: producers stop when the band's context is done.
PushLoadWrite(p) ==
  /\ Goto(p, "idle", "loadRead")
  /\ writeIndex < MaxRecords
  /\ idx' = [idx EXCEPT ![p] = writeIndex]
  /\ UNCHANGED <<shared, record>>

\* readIdx := atomic.LoadInt64(&rb.readIndex), and the buffer is full.
PushFull(p)    == Branch(p, "loadRead", "idle") /\ idx[p] - readIndex >= Capacity
PushNotFull(p) == Branch(p, "loadRead", "cas")  /\ idx[p] - readIndex < Capacity

\* CompareAndSwapInt64(&rb.writeIndex, writeIdx, writeIdx+1)
PushClaim(p) ==
  /\ Goto(p, "cas", "markBusy")
  /\ writeIndex = idx[p]
  /\ writeIndex' = idx[p] + 1
  /\ UNCHANGED <<readIndex, slots, stats, resets, idx, record>>

PushRetry(p) == Branch(p, "cas", "idle") /\ writeIndex # idx[p]

\* atomic.StoreInt32(&rb.writeComplete[pos], 0)
PushMarkBusy(p) ==
  /\ Goto(p, "markBusy", "copyLow")
  /\ writeComplete' = [writeComplete EXCEPT ![Pos(idx[p])] = 0]
  /\ UNCHANGED <<indices, buffer, stats, resets, idx, record>>

\* rb.buffer[pos] = record
PushCopyLow(p) ==
  /\ Goto(p, "copyLow", "copyHigh")
  /\ buffer' = [buffer EXCEPT ![Pos(idx[p])].low = RecordAt(idx[p])]
  /\ UNCHANGED <<indices, writeComplete, stats, resets, idx, record>>

PushCopyHigh(p) ==
  /\ Goto(p, "copyHigh", "markDone")
  /\ buffer' = [buffer EXCEPT ![Pos(idx[p])].high = RecordAt(idx[p])]
  /\ UNCHANGED <<indices, writeComplete, stats, resets, idx, record>>

\* atomic.StoreInt32(&rb.writeComplete[pos], 1)
PushMarkDone(p) ==
  /\ Goto(p, "markDone", "count")
  /\ writeComplete' = [writeComplete EXCEPT ![Pos(idx[p])] = 1]
  /\ UNCHANGED <<indices, buffer, stats, resets, idx, record>>

\* atomic.AddInt64(&rb.produced, 1); return true
PushCount(p) ==
  /\ Goto(p, "count", "idle")
  /\ produced' = produced + 1
  /\ UNCHANGED <<indices, slots, consumed, resets, idx, record>>

Push(p) ==
  \/ PushLoadWrite(p) \/ PushFull(p) \/ PushNotFull(p) \/ PushClaim(p) \/ PushRetry(p)
  \/ PushMarkBusy(p) \/ PushCopyLow(p) \/ PushCopyHigh(p) \/ PushMarkDone(p) \/ PushCount(p)

-----------------------------------------------------------------------------
(* Pop.  A retry, after an incomplete write or a failed compare-and-swap,  *)
(* starts over from "idle".                                                *)

\* readIdx := atomic.LoadInt64(&rb.readIndex)
PopLoadRead(c) ==
  /\ Goto(c, "idle", "loadWrite")
  /\ idx' = [idx EXCEPT ![c] = readIndex]
  /\ UNCHANGED <<shared, record>>

\* writeIdx := atomic.LoadInt64(&rb.writeIndex), and the buffer is empty.
PopEmpty(c)    == Branch(c, "loadWrite", "idle")     /\ idx[c] >= writeIndex
PopNotEmpty(c) == Branch(c, "loadWrite", "loadFlag") /\ idx[c] < writeIndex

\* "Write not complete yet, wait briefly and retry"
PopNotComplete(c) == Branch(c, "loadFlag", "idle") /\ writeComplete[Pos(idx[c])] = 0
PopComplete(c)    == Branch(c, "loadFlag", "cas")  /\ writeComplete[Pos(idx[c])] = 1

\* CompareAndSwapInt64(&rb.readIndex, readIdx, readIdx+1)
PopClaim(c) ==
  /\ Goto(c, "cas", "copyLow")
  /\ readIndex = idx[c]
  /\ readIndex' = idx[c] + 1
  /\ UNCHANGED <<writeIndex, slots, stats, resets, idx, record>>

PopRetry(c) == Branch(c, "cas", "idle") /\ readIndex # idx[c]

\* record := rb.buffer[pos]
PopCopyLow(c) ==
  /\ Goto(c, "copyLow", "copyHigh")
  /\ record' = [record EXCEPT ![c].low = buffer[Pos(idx[c])].low]
  /\ UNCHANGED <<shared, idx>>

PopCopyHigh(c) ==
  /\ Goto(c, "copyHigh", "clearFlag")
  /\ record' = [record EXCEPT ![c].high = buffer[Pos(idx[c])].high]
  /\ UNCHANGED <<shared, idx>>

\* atomic.StoreInt32(&rb.writeComplete[pos], 0)
PopClearFlag(c) ==
  /\ Goto(c, "clearFlag", "count")
  /\ writeComplete' = [writeComplete EXCEPT ![Pos(idx[c])] = 0]
  /\ UNCHANGED <<indices, buffer, stats, resets, idx, record>>

\* atomic.AddInt64(&rb.consumed, 1); return record, true
PopCount(c) ==
  /\ Goto(c, "count", "idle")
  /\ consumed' = consumed + 1
  /\ record' = [record EXCEPT ![c] = Whole(ZeroRecord)]
  /\ UNCHANGED <<indices, slots, produced, resets, idx>>

Pop(c) ==
  \/ PopLoadRead(c) \/ PopEmpty(c) \/ PopNotEmpty(c) \/ PopNotComplete(c) \/ PopComplete(c)
  \/ PopClaim(c) \/ PopRetry(c) \/ PopCopyLow(c) \/ PopCopyHigh(c) \/ PopClearFlag(c)
  \/ PopCount(c)

-----------------------------------------------------------------------------
\* Reset, called by runBand at the start of a band, while no producer and no
\* consumer of the band before is inside Push or Pop (the stragglers runBand
\* leaves behind after its grace period are in BulkInsertBand).  The flags
\* and the slots keep what they hold.
Reset ==
  /\ resets < MaxResets
  /\ \A t \in Threads : pc[t] = "idle"
  /\ writeIndex' = 0
  /\ readIndex' = 0
  /\ produced' = 0
  /\ consumed' = 0
  /\ resets' = resets + 1
  /\ UNCHANGED <<slots, pc, idx, record>>

Next ==
  \/ \E p \in Producers : Push(p)
  \/ \E c \in Consumers : Pop(c)
  \/ Reset

Spec == Init /\ [][Next]_vars

\* The Go scheduler runs every runnable goroutine: a Push that has begun goes
\* on, and Generator.consumer keeps calling Pop.  A producer need not begin
\* another Push.
Fairness ==
  /\ \A p \in Producers : WF_vars(Push(p) /\ pc[p] # "idle")
  /\ \A c \in Consumers : WF_vars(Pop(c))

FairSpec == Spec /\ Fairness

-----------------------------------------------------------------------------
TypeOK ==
  /\ writeIndex \in Nat
  /\ readIndex \in Nat
  /\ writeComplete \in [Slots -> {0, 1}]
  /\ buffer \in [Slots -> Halves]
  /\ produced \in Nat
  /\ consumed \in Nat
  /\ resets \in Nat
  /\ pc \in [Threads -> ProducerPCs \cup ConsumerPCs]
  /\ \A p \in Producers : pc[p] \in ProducerPCs
  /\ \A c \in Consumers : pc[c] \in ConsumerPCs
  /\ idx \in [Threads -> Nat]
  /\ record \in [Consumers -> Halves]

\* Push checks for a full buffer against a read index that may have moved on,
\* then claims with a compare-and-swap on a write index it loaded earlier:
\* the indices still never cross and never drift more than Capacity apart.
OccupancyBounded == readIndex <= writeIndex /\ writeIndex - readIndex <= Capacity

\* No two producers are past their compare-and-swap with the same index, and
\* no two consumers are: each claim belongs to one goroutine.
ClaimsAreExclusive ==
  \A S \in {Producers, Consumers} : \A t, u \in S :
    t # u /\ {pc[t], pc[u]} \cap (BeforeClaim \cup {"idle"}) = {} => idx[t] # idx[u]

\* Stats() accounts for every claim: produced lags writeIndex, and consumed
\* lags readIndex, by exactly the calls between claim and count.
StatsAccountForClaims ==
  /\ produced + Cardinality({p \in Producers : pc[p] \in Writing \cup {"count"}}) = writeIndex
  /\ consumed + Cardinality({c \in Consumers : pc[c] \in Reading \cup {"count"}}) = readIndex

\* "Returns true if successful, false if buffer is full": although the two
\* indices are loaded one after the other, the buffer is full at the second
\* load whenever Push returns false.
FullIsExact ==
  [][\A p \in Producers : pc[p] = "loadRead" /\ pc'[p] = "idle"
       => writeIndex - readIndex = Capacity]_vars

\* "Returns ... false if buffer is empty": the same of Pop.
EmptyIsExact ==
  [][\A c \in Consumers : pc[c] = "loadWrite" /\ pc'[c] = "idle"
       => writeIndex = readIndex]_vars

\* Both of them: neither answer is ever given of a buffer that was not so.
FullAndEmptyAreExact == FullIsExact /\ EmptyIsExact

\* The records claimed by a producer and not yet by a consumer, oldest first.
Claimed == [i \in 1 .. writeIndex - readIndex |-> RecordAt(readIndex + i - 1)]

\* Seen through the claims, the buffer is a bounded first-in first-out queue:
\* a producer's compare-and-swap puts a record, a consumer's takes the oldest.
Queue == INSTANCE BoundedQueue WITH
  Items <- (0 .. MaxResets) \X (0 .. MaxRecords), queue <- Claimed

ImplementsQueue == Queue!Spec

\* A consumer gets the record pushed under the index it claimed: whole, and
\* not one of another lap or of before the last Reset.
IntactDelivery ==
  \A c \in Consumers : pc[c] \in {"clearFlag", "count"} => record[c] = Whole(RecordAt(idx[c]))

\* Every record claimed by a producer is claimed by a consumer in the end.
EveryPushIsPopped ==
  \A i \in 0 .. MaxRecords - 1 : writeIndex > i ~> readIndex > i \/ resets > 0
=============================================================================
