-------------------------- MODULE RingBufferProofs --------------------------
(***************************************************************************)
(* Proofs about RingBuffer for any number of producers and consumers, any  *)
(* capacity and any bounds.                                                *)
(***************************************************************************)
EXTENDS RingBuffer, FiniteSetTheorems, SequenceTheorems, TLAPS

\* What a thread's local index says while the thread is inside its call: an
\* index loaded before the claim may be stale, but never ahead of the shared
\* one; a claimed index lies behind it.  A producer that found room with an
\* index that is still current still has room, whatever consumers did since.
ProducerLocals ==
  \A p \in Producers :
    /\ pc[p] \in {"loadRead", "cas"} => idx[p] <= writeIndex
    /\ pc[p] = "cas" => idx[p] - readIndex < Capacity
    /\ pc[p] \in Writing \cup {"count"} => idx[p] < writeIndex

ConsumerLocals ==
  \A c \in Consumers :
    /\ pc[c] \in {"loadWrite", "loadFlag", "cas"} => idx[c] <= readIndex
    /\ pc[c] \in {"loadFlag", "cas"} => idx[c] < writeIndex
    /\ pc[c] \in Reading \cup {"count"} => idx[c] < readIndex

Exclusive(S, claimed) ==
  \A t, u \in S : t # u /\ pc[t] \in claimed /\ pc[u] \in claimed => idx[t] # idx[u]

IInv ==
  /\ TypeOK
  /\ OccupancyBounded
  /\ ProducerLocals
  /\ ConsumerLocals
  /\ Exclusive(Producers, Writing \cup {"count"})
  /\ Exclusive(Consumers, Reading \cup {"count"})

\* The position of an index is a slot.
LEMMA PosInSlots == ASSUME NEW i \in Nat PROVE Pos(i) \in Slots
  BY RingAssumption DEF Pos, Slots

\* The name of a record is a name.
LEMMA RecordAtType == ASSUME resets \in Nat, NEW i \in Nat PROVE RecordAt(i) \in Records
  BY DEF RecordAt, Records

\* A new buffer satisfies the inductive invariant.
LEMMA InitIInv == Init => IInv
<1> SUFFICES ASSUME Init PROVE IInv
  OBVIOUS
<1> USE RingAssumption DEF Init
<1>1. ZeroRecord \in Records
  BY DEF ZeroRecord, Records
<1>2. TypeOK
  BY <1>1 DEF TypeOK, Threads, Slots, Halves, Whole, ProducerPCs, ConsumerPCs
<1>3. OccupancyBounded
  BY DEF OccupancyBounded
<1>4. ProducerLocals /\ ConsumerLocals
  BY DEF ProducerLocals, ConsumerLocals, Threads, Writing, Reading
<1>5. Exclusive(Producers, Writing \cup {"count"}) /\ Exclusive(Consumers, Reading \cup {"count"})
  BY DEF Exclusive, Threads, Writing, Reading
<1> QED
  BY <1>2, <1>3, <1>4, <1>5 DEF IInv

\* The parts of IInv a step keeps: types, indices, locals, exclusion.
LEMMA StepIInv == IInv /\ [Next]_vars => IInv'
<1> SUFFICES ASSUME IInv, [Next]_vars PROVE IInv'
  OBVIOUS
<1> USE RingAssumption DEF IInv, TypeOK, OccupancyBounded, ProducerLocals, ConsumerLocals, Exclusive,
        Threads, Writing, Reading, ProducerPCs, ConsumerPCs,
        vars, shared, indices, slots, stats
<1>1. ASSUME NEW p \in Producers, PushLoadWrite(p) PROVE IInv'
  BY <1>1 DEF PushLoadWrite, Goto
<1>2. ASSUME NEW p \in Producers, PushFull(p) PROVE IInv'
  BY <1>2 DEF PushFull, Goto, Branch
<1>3. ASSUME NEW p \in Producers, PushNotFull(p) PROVE IInv'
  BY <1>3 DEF PushNotFull, Goto, Branch
<1>4. ASSUME NEW p \in Producers, PushClaim(p) PROVE IInv'
  <2>1. idx[p] = writeIndex /\ writeIndex - readIndex < Capacity
    BY <1>4 DEF PushClaim, Goto
  <2>2. OccupancyBounded'
    BY <1>4, <2>1 DEF PushClaim
  <2>3. ProducerLocals' /\ ConsumerLocals'
    BY <1>4, <2>1 DEF PushClaim, Goto
  <2>4. Exclusive(Producers, Writing \cup {"count"})'   \* the others' claims lie behind writeIndex
    BY <1>4, <2>1 DEF PushClaim, Goto
  <2> QED
    BY <1>4, <2>2, <2>3, <2>4 DEF PushClaim, Goto
<1>5. ASSUME NEW p \in Producers, PushRetry(p) PROVE IInv'
  BY <1>5 DEF PushRetry, Goto, Branch
<1>6. ASSUME NEW p \in Producers, PushMarkBusy(p) PROVE IInv'
  BY <1>6 DEF PushMarkBusy, Goto
<1>7. ASSUME NEW p \in Producers, PushCopyLow(p) PROVE IInv'
  <2>1. RecordAt(idx[p]) \in Records /\ Pos(idx[p]) \in Slots
    BY PosInSlots, RecordAtType
  <2>2. buffer' \in [Slots -> Halves]
    BY <1>7, <2>1 DEF PushCopyLow, Halves
  <2> QED
    BY <1>7, <2>2 DEF PushCopyLow, Goto
<1>8. ASSUME NEW p \in Producers, PushCopyHigh(p) PROVE IInv'
  <2>1. RecordAt(idx[p]) \in Records /\ Pos(idx[p]) \in Slots
    BY PosInSlots, RecordAtType
  <2>2. buffer' \in [Slots -> Halves]
    BY <1>8, <2>1 DEF PushCopyHigh, Halves
  <2> QED
    BY <1>8, <2>2 DEF PushCopyHigh, Goto
<1>9. ASSUME NEW p \in Producers, PushMarkDone(p) PROVE IInv'
  BY <1>9 DEF PushMarkDone, Goto
<1>10. ASSUME NEW p \in Producers, PushCount(p) PROVE IInv'
  BY <1>10 DEF PushCount, Goto
<1>11. ASSUME NEW c \in Consumers, PopLoadRead(c) PROVE IInv'
  BY <1>11 DEF PopLoadRead, Goto
<1>12. ASSUME NEW c \in Consumers, PopEmpty(c) PROVE IInv'
  BY <1>12 DEF PopEmpty, Goto, Branch
<1>13. ASSUME NEW c \in Consumers, PopNotEmpty(c) PROVE IInv'
  BY <1>13 DEF PopNotEmpty, Goto, Branch
<1>14. ASSUME NEW c \in Consumers, PopNotComplete(c) PROVE IInv'
  BY <1>14 DEF PopNotComplete, Goto, Branch
<1>15. ASSUME NEW c \in Consumers, PopComplete(c) PROVE IInv'
  BY <1>15 DEF PopComplete, Goto, Branch
<1>16. ASSUME NEW c \in Consumers, PopClaim(c) PROVE IInv'
  <2>1. idx[c] = readIndex /\ readIndex < writeIndex
    BY <1>16 DEF PopClaim, Goto
  <2>2. OccupancyBounded'
    BY <1>16, <2>1 DEF PopClaim
  <2>3. ProducerLocals' /\ ConsumerLocals'
    BY <1>16, <2>1 DEF PopClaim, Goto
  <2>4. Exclusive(Consumers, Reading \cup {"count"})'   \* the others' claims lie behind readIndex
    BY <1>16, <2>1 DEF PopClaim, Goto
  <2> QED
    BY <1>16, <2>2, <2>3, <2>4 DEF PopClaim, Goto
<1>17. ASSUME NEW c \in Consumers, PopRetry(c) PROVE IInv'
  BY <1>17 DEF PopRetry, Goto, Branch
<1>18. ASSUME NEW c \in Consumers, PopCopyLow(c) PROVE IInv'
  <2>1. buffer[Pos(idx[c])] \in Halves
    BY PosInSlots
  <2>2. record' \in [Consumers -> Halves]
    BY <1>18, <2>1 DEF PopCopyLow, Halves
  <2> QED
    BY <1>18, <2>2 DEF PopCopyLow, Goto
<1>19. ASSUME NEW c \in Consumers, PopCopyHigh(c) PROVE IInv'
  <2>1. buffer[Pos(idx[c])] \in Halves
    BY PosInSlots
  <2>2. record' \in [Consumers -> Halves]
    BY <1>19, <2>1 DEF PopCopyHigh, Halves
  <2> QED
    BY <1>19, <2>2 DEF PopCopyHigh, Goto
<1>20. ASSUME NEW c \in Consumers, PopClearFlag(c) PROVE IInv'
  BY <1>20 DEF PopClearFlag, Goto
<1>21. ASSUME NEW c \in Consumers, PopCount(c) PROVE IInv'
  <2>1. Whole(ZeroRecord) \in Halves
    BY DEF Whole, ZeroRecord, Halves, Records
  <2>2. record' \in [Consumers -> Halves]
    BY <1>21, <2>1 DEF PopCount, Halves
  <2> QED
    BY <1>21, <2>2 DEF PopCount, Goto
<1>22. CASE Reset
  BY <1>22 DEF Reset
<1>23. CASE UNCHANGED vars
  BY <1>23
<1> QED
  BY <1>1, <1>2, <1>3, <1>4, <1>5, <1>6, <1>7, <1>8, <1>9, <1>10, <1>11, <1>12, <1>13, <1>14, <1>15, <1>16, <1>17, <1>18, <1>19, <1>20, <1>21, <1>22, <1>23 DEF Next, Push, Pop

\* So it holds in every reachable state.
LEMMA Inductive == Spec => []IInv
  BY InitIInv, StepIInv, PTL DEF Spec

-----------------------------------------------------------------------------
\* Every variable of the ring buffer keeps its type: in particular the
\* indices never go below zero and every slot access stays inside the buffer.
THEOREM TypeCorrect == Spec => []TypeOK
<1>1. IInv => TypeOK
  BY DEF IInv
<1> QED
  BY Inductive, <1>1, PTL

\* Push and Pop keep the indices in order and at most Capacity apart, however
\* stale the indices they decided on were.
THEOREM Occupancy == Spec => []OccupancyBounded
<1>1. IInv => OccupancyBounded
  BY DEF IInv
<1> QED
  BY Inductive, <1>1, PTL

\* The compare-and-swap in Push and the one in Pop give every index to one
\* goroutine.
THEOREM ExclusiveClaims == Spec => []ClaimsAreExclusive
<1>1. IInv => ClaimsAreExclusive
  <2> SUFFICES ASSUME IInv PROVE ClaimsAreExclusive
    OBVIOUS
  <2>1. \A p \in Producers : pc[p] \notin BeforeClaim \cup {"idle"} => pc[p] \in Writing \cup {"count"}
    BY DEF IInv, TypeOK, ProducerPCs, BeforeClaim
  <2>2. \A c \in Consumers : pc[c] \notin BeforeClaim \cup {"idle"} => pc[c] \in Reading \cup {"count"}
    BY DEF IInv, TypeOK, ConsumerPCs, BeforeClaim
  <2> QED
    BY <2>1, <2>2 DEF IInv, Exclusive, ClaimsAreExclusive
<1> QED
  BY Inductive, <1>1, PTL

\* Push returns false only when the buffer is full.
LEMMA FullExact == Spec => FullIsExact
<1> DEFINE A == \A p \in Producers : pc[p] = "loadRead" /\ pc'[p] = "idle"
                  => writeIndex - readIndex = Capacity
<1>1. IInv /\ [Next]_vars => [A]_vars
  <2> SUFFICES ASSUME IInv, Next, NEW p \in Producers, pc[p] = "loadRead", pc'[p] = "idle"
               PROVE  writeIndex - readIndex = Capacity
    OBVIOUS
  <2>1. PushFull(p)
    BY RingAssumption DEF Next, Push, Pop, Reset, Goto, Branch, IInv, TypeOK, Threads,
       PushLoadWrite, PushNotFull, PushClaim, PushRetry, PushMarkBusy, PushCopyLow,
       PushCopyHigh, PushMarkDone, PushCount, PopLoadRead, PopEmpty, PopNotEmpty,
       PopNotComplete, PopComplete, PopClaim, PopRetry, PopCopyLow, PopCopyHigh,
       PopClearFlag, PopCount, PushFull
  <2> QED
    BY <2>1, RingAssumption DEF PushFull, IInv, TypeOK, OccupancyBounded, ProducerLocals, Threads
<1> QED
  BY Inductive, <1>1, PTL DEF Spec, FullIsExact

\* Pop returns false only when the buffer is empty.
LEMMA EmptyExact == Spec => EmptyIsExact
<1> DEFINE A == \A c \in Consumers : pc[c] = "loadWrite" /\ pc'[c] = "idle"
                  => writeIndex = readIndex
<1>1. IInv /\ [Next]_vars => [A]_vars
  <2> SUFFICES ASSUME IInv, Next, NEW c \in Consumers, pc[c] = "loadWrite", pc'[c] = "idle"
               PROVE  writeIndex = readIndex
    OBVIOUS
  <2>1. PopEmpty(c)
    BY RingAssumption DEF Next, Push, Pop, Reset, Goto, Branch, IInv, TypeOK, Threads,
       PushLoadWrite, PushFull, PushNotFull, PushClaim, PushRetry, PushMarkBusy, PushCopyLow,
       PushCopyHigh, PushMarkDone, PushCount, PopLoadRead, PopEmpty, PopNotEmpty,
       PopNotComplete, PopComplete, PopClaim, PopRetry, PopCopyLow, PopCopyHigh,
       PopClearFlag, PopCount
  <2> QED
    BY <2>1 DEF PopEmpty, Branch, Goto, IInv, TypeOK, OccupancyBounded, ConsumerLocals, Threads
<1> QED
  BY Inductive, <1>1, PTL DEF Spec, EmptyIsExact

\* What Push and Pop answer of a full or an empty buffer was true of it when
\* they loaded the second index.
THEOREM FullAndEmptyExact == Spec => FullAndEmptyAreExact
  BY FullExact, EmptyExact DEF FullAndEmptyAreExact

-----------------------------------------------------------------------------
(* The ring buffer, seen through its claims, is a bounded queue.           *)

\* The bounds of the model: they name the records the queue may hold.
Bounds ==
  /\ resets <= MaxResets
  /\ writeIndex <= MaxRecords
  /\ \A p \in Producers : pc[p] \in {"loadRead", "cas"} => idx[p] < MaxRecords

\* The bounds of the model bound the names of the records, so that they stay
\* in the Items of BoundedQueue.
LEMMA BoundsInv == Spec => []Bounds
<1>1. Init => Bounds
  BY RingAssumption DEF Init, Bounds, Threads
<1>2. TypeOK /\ Bounds /\ [Next]_vars => Bounds'
  <2> SUFFICES ASSUME TypeOK, Bounds, [Next]_vars PROVE Bounds'
    OBVIOUS
  <2> USE RingAssumption DEF TypeOK, Bounds, Threads, Goto, Branch, vars, shared, indices, slots, stats
  <2>1. ASSUME NEW p \in Producers, Push(p) PROVE Bounds'
    BY <2>1 DEF Push, PushLoadWrite, PushFull, PushNotFull, PushClaim, PushRetry, PushMarkBusy,
       PushCopyLow, PushCopyHigh, PushMarkDone, PushCount
  <2>2. ASSUME NEW c \in Consumers, Pop(c) PROVE Bounds'
    BY <2>2 DEF Pop, PopLoadRead, PopEmpty, PopNotEmpty, PopNotComplete, PopComplete, PopClaim,
       PopRetry, PopCopyLow, PopCopyHigh, PopClearFlag, PopCount
  <2>3. CASE Reset
    BY <2>3 DEF Reset
  <2>4. CASE UNCHANGED vars
    BY <2>4
  <2> QED
    BY <2>1, <2>2, <2>3, <2>4 DEF Next
<1> QED
  BY <1>1, <1>2, TypeCorrect, PTL DEF Spec

Ticket == Nat \X Nat
TicketAt(e, i) == <<e, i>>
Tickets(e, r, w) == [i \in 1 .. w - r |-> TicketAt(e, r + i - 1)]

\* What is between two indices is a sequence as long as they are apart.
LEMMA TicketsIsSeq ==
  ASSUME NEW e \in Nat, NEW r \in Nat, NEW w \in Nat, r <= w
  PROVE  /\ Tickets(e, r, w) \in Seq(Ticket)
         /\ Len(Tickets(e, r, w)) = w - r
         /\ \A i \in 1 .. w - r : Tickets(e, r, w)[i] = TicketAt(e, r + i - 1)
<1> DEFINE n == w - r
           x(i) == TicketAt(e, r + i - 1)
<1>1. n \in Nat /\ \A i \in 1 .. n : x(i) \in Ticket
  BY DEF Ticket, TicketAt
<1>2. Tickets(e, r, w) = [i \in 1 .. n |-> x(i)]
  BY DEF Tickets
<1> HIDE DEF n, x
<1>3. /\ [i \in 1 .. n |-> x(i)] \in Seq(Ticket)
      /\ Len([i \in 1 .. n |-> x(i)]) = n
      /\ \A i \in 1 .. n : [j \in 1 .. n |-> x(j)][i] = x(i)
  BY <1>1
<1> QED
  BY <1>2, <1>3 DEF n, x

\* One more claim of a producer appends a record.
LEMMA TicketsAppend ==
  ASSUME NEW e \in Nat, NEW r \in Nat, NEW w \in Nat, r <= w, NEW v, v = w + 1
  PROVE  Tickets(e, r, v) = Append(Tickets(e, r, w), TicketAt(e, w))
<1> DEFINE s == Tickets(e, r, w)
           t == Tickets(e, r, v)
           x == TicketAt(e, w)
<1>1. s \in Seq(Ticket) /\ Len(s) = w - r /\ \A i \in 1 .. w - r : s[i] = TicketAt(e, r + i - 1)
  BY TicketsIsSeq
<1>2. v \in Nat /\ r <= v
  OBVIOUS
<1>3. t \in Seq(Ticket) /\ Len(t) = v - r /\ \A i \in 1 .. v - r : t[i] = TicketAt(e, r + i - 1)
  BY <1>2, TicketsIsSeq
<1>4. x \in Ticket
  BY DEF Ticket, TicketAt
<1> HIDE DEF s, t, x
<1>5. /\ Append(s, x) \in Seq(Ticket)
      /\ Len(Append(s, x)) = Len(s) + 1
      /\ \A i \in 1 .. Len(s) : Append(s, x)[i] = s[i]
      /\ Append(s, x)[Len(s) + 1] = x
  <2>1. s \in Seq(Ticket)
    BY <1>1
  <2> QED
    BY <2>1, <1>4, AppendProperties
<1>6. Len(t) = Len(Append(s, x))
  BY <1>1, <1>3, <1>5
<1>7. ASSUME NEW i \in 1 .. Len(t) PROVE t[i] = Append(s, x)[i]
  <2>1. CASE i \in 1 .. Len(s)
    BY <1>1, <1>3, <1>5, <2>1
  <2>2. CASE i = Len(s) + 1
    <3>1. r + i - 1 = w
      BY <1>1, <2>2
    <3> QED
      BY <1>1, <1>3, <1>5, <2>2, <3>1 DEF x
  <2> QED
    BY <1>1, <1>3, <2>1, <2>2
<1>8. t = Append(s, x)
  <2>1. t \in Seq(Ticket) /\ Append(s, x) \in Seq(Ticket)
    BY <1>3, <1>5
  <2> QED
    BY <2>1, <1>6, <1>7, SeqEqual
<1> QED
  BY <1>8 DEF s, t, x

\* One more claim of a consumer takes the first away.
LEMMA TicketsTail ==
  ASSUME NEW e \in Nat, NEW r \in Nat, NEW w \in Nat, r < w, NEW q, q = r + 1
  PROVE  /\ Tickets(e, r, w) # <<>>
         /\ Tickets(e, q, w) = Tail(Tickets(e, r, w))
<1> DEFINE s == Tickets(e, r, w)
           t == Tickets(e, q, w)
<1>1. s \in Seq(Ticket) /\ Len(s) = w - r /\ \A i \in 1 .. w - r : s[i] = TicketAt(e, r + i - 1)
  <2>1. r <= w
    OBVIOUS
  <2> QED
    BY <2>1, TicketsIsSeq
<1>2. q \in Nat /\ q <= w
  OBVIOUS
<1>3. t \in Seq(Ticket) /\ Len(t) = w - q /\ \A i \in 1 .. w - q : t[i] = TicketAt(e, q + i - 1)
  <2>1. /\ Tickets(e, q, w) \in Seq(Ticket)
        /\ Len(Tickets(e, q, w)) = w - q
        /\ \A i \in 1 .. w - q : Tickets(e, q, w)[i] = TicketAt(e, q + i - 1)
    BY ONLY e \in Nat, w \in Nat, <1>2, TicketsIsSeq
  <2> QED
    BY <2>1
<1> HIDE DEF s, t
<1>4. s \in Seq(Ticket) /\ s # <<>>
  BY <1>1
<1>5. /\ Tail(s) \in Seq(Ticket)
      /\ Len(Tail(s)) = Len(s) - 1
      /\ \A i \in 1 .. Len(Tail(s)) : Tail(s)[i] = s[i + 1]
  BY <1>4, HeadTailProperties
<1>6. Len(t) = Len(Tail(s))
  BY <1>1, <1>3, <1>5
<1>7. ASSUME NEW i \in 1 .. Len(t) PROVE t[i] = Tail(s)[i]
  <2>1. Tail(s)[i] = s[i + 1] /\ i + 1 \in 1 .. w - r /\ i \in 1 .. w - q
    BY <1>1, <1>3, <1>5, <1>6
  <2>2. s[i + 1] = TicketAt(e, r + (i + 1) - 1) /\ t[i] = TicketAt(e, q + i - 1)
    BY <1>1, <1>3, <2>1
  <2>3. r + (i + 1) - 1 = q + i - 1
    BY <2>1
  <2> QED
    BY <2>1, <2>2, <2>3
<1>8. t = Tail(s)
  <2>1. t \in Seq(Ticket) /\ Tail(s) \in Seq(Ticket)
    BY <1>3, <1>5
  <2> QED
    BY <2>1, <1>6, <1>7, SeqEqual
<1> QED
  BY <1>4, <1>8 DEF s, t

\* A step of the ring buffer that leaves the indices and the Resets alone does
\* nothing to the queue.
LEMMA ClaimedUnchanged ==
  UNCHANGED <<writeIndex, readIndex, resets>> => UNCHANGED Claimed
  BY DEF Claimed, RecordAt

\* The refinement mapping is such a sequence.
LEMMA ClaimedIsTickets ==
  /\ Claimed = Tickets(resets, readIndex, writeIndex)
  /\ Claimed' = Tickets(resets', readIndex', writeIndex')
  BY DEF Claimed, Tickets, TicketAt, RecordAt

\* RingBuffer implements BoundedQueue: a successful compare-and-swap of Push
\* puts, one of Pop takes the oldest, Reset clears, every other step stutters.
THEOREM Refinement == Spec => ImplementsQueue
<1>1. Init => Queue!Init
  BY DEF Init, Queue!Init, Claimed
<1>2. IInv /\ Bounds /\ [Next]_vars => [Queue!Next]_Claimed
  <2> SUFFICES ASSUME IInv, Bounds, [Next]_vars PROVE [Queue!Next]_Claimed
    OBVIOUS
  <2> USE RingAssumption DEF IInv, TypeOK, OccupancyBounded, Threads
  <2>1. ASSUME NEW p \in Producers, PushClaim(p) PROVE Queue!Next
    <3> DEFINE x == RecordAt(writeIndex)
    <3>1. /\ idx[p] = writeIndex /\ writeIndex - readIndex < Capacity /\ writeIndex < MaxRecords
          /\ writeIndex' = writeIndex + 1 /\ readIndex' = readIndex /\ resets' = resets
      BY <2>1 DEF PushClaim, Goto, ProducerLocals, Bounds
    <3>2. x \in (0 .. MaxResets) \X (0 .. MaxRecords)
      BY <3>1 DEF RecordAt, Bounds
    <3>3. Len(Claimed) < Capacity
      BY <3>1, ClaimedIsTickets, TicketsIsSeq
    <3>4. Claimed' = Append(Claimed, x)
      <4>1. Claimed' = Tickets(resets, readIndex, writeIndex')
        BY <3>1, ClaimedIsTickets
      <4>2. Tickets(resets, readIndex, writeIndex')
              = Append(Tickets(resets, readIndex, writeIndex), TicketAt(resets, writeIndex))
        BY <3>1, TicketsAppend
      <4> QED
        BY <4>1, <4>2, ClaimedIsTickets DEF RecordAt, TicketAt
    <3> QED
      BY <3>2, <3>3, <3>4 DEF Queue!Next, Queue!Put
  <2>2. ASSUME NEW c \in Consumers, PopClaim(c) PROVE Queue!Next
    <3>1. /\ readIndex < writeIndex
          /\ writeIndex' = writeIndex /\ readIndex' = readIndex + 1 /\ resets' = resets
      BY <2>2 DEF PopClaim, Goto, ConsumerLocals
    <3>2. Claimed # <<>>
      BY <3>1, ClaimedIsTickets, TicketsTail
    <3>3. Claimed' = Tail(Claimed)
      <4>1. Claimed' = Tickets(resets, readIndex', writeIndex)
        BY <3>1, ClaimedIsTickets
      <4>2. Tickets(resets, readIndex', writeIndex) = Tail(Tickets(resets, readIndex, writeIndex))
        BY <3>1, TicketsTail
      <4> QED
        BY <4>1, <4>2, ClaimedIsTickets
    <3> QED
      BY <3>2, <3>3 DEF Queue!Next, Queue!Take
  <2>3. CASE Reset
    <3>1. Claimed' = <<>>
      BY <2>3 DEF Reset, Claimed
    <3> QED
      BY <3>1 DEF Queue!Next, Queue!Clear
  <2>4. ASSUME NEW p \in Producers, Push(p), ~PushClaim(p) PROVE UNCHANGED Claimed
    BY <2>4, ClaimedUnchanged DEF Push, Branch, shared, indices, PushLoadWrite, PushFull, PushNotFull,
       PushRetry, PushMarkBusy, PushCopyLow, PushCopyHigh, PushMarkDone, PushCount
  <2>5. ASSUME NEW c \in Consumers, Pop(c), ~PopClaim(c) PROVE UNCHANGED Claimed
    BY <2>5, ClaimedUnchanged DEF Pop, Branch, shared, indices, PopLoadRead, PopEmpty, PopNotEmpty,
       PopNotComplete, PopComplete, PopRetry, PopCopyLow, PopCopyHigh, PopClearFlag, PopCount
  <2>6. CASE UNCHANGED vars
    BY <2>6, ClaimedUnchanged DEF vars, shared, indices
  <2> QED
    BY <2>1, <2>2, <2>3, <2>4, <2>5, <2>6 DEF Next
<1> QED
  BY <1>1, <1>2, Inductive, BoundsInv, PTL DEF Spec, ImplementsQueue, Queue!Spec

-----------------------------------------------------------------------------
(* The statistics: each thread between its claim and its count is one that *)
(* the statistics are behind.                                              *)

ThreadsAt(S, places) == {t \in S : pc[t] \in places}

\* How many of a finite set of threads are at a place changes by the one that moves.
LEMMA OneThreadMoves ==
  ASSUME NEW S, IsFiniteSet(S), NEW t \in S, NEW places, \A u \in S \ {t} : pc'[u] = pc[u]
  PROVE  /\ Cardinality(ThreadsAt(S, places)) \in Nat /\ Cardinality(ThreadsAt(S, places)') \in Nat
         /\ Cardinality(ThreadsAt(S, places)') = Cardinality(ThreadsAt(S, places))
                + (IF pc'[t] \in places THEN 1 ELSE 0) - (IF pc[t] \in places THEN 1 ELSE 0)
<1> DEFINE rest == {u \in S \ {t} : pc[u] \in places}
<1>1. IsFiniteSet(rest) /\ Cardinality(rest) \in Nat
  <2>1. rest \subseteq S
    OBVIOUS
  <2>2. QED
    BY <2>1, FS_Subset, FS_CardinalityType
<1>2. Cardinality(rest \cup {t}) = Cardinality(rest) + 1
  BY <1>1, FS_AddElement
<1>3. ThreadsAt(S, places) = IF pc[t] \in places THEN rest \cup {t} ELSE rest
  BY DEF ThreadsAt
<1>4. ThreadsAt(S, places)' = IF pc'[t] \in places THEN rest \cup {t} ELSE rest
  BY DEF ThreadsAt
<1> HIDE DEF rest
<1>5. QED
  BY <1>1, <1>2, <1>3, <1>4

Pushing == ThreadsAt(Producers, Writing \cup {"count"})
Popping == ThreadsAt(Consumers, Reading \cup {"count"})

\* The statistics count what was claimed, but for the threads on their way from claim to count.
LEMMA StatsByThreads ==
  /\ StatsAccountForClaims <=> /\ produced + Cardinality(Pushing) = writeIndex
                               /\ consumed + Cardinality(Popping) = readIndex
  /\ StatsAccountForClaims' <=> /\ produced' + Cardinality(Pushing') = writeIndex'
                                /\ consumed' + Cardinality(Popping') = readIndex'
  BY DEF StatsAccountForClaims, Pushing, Popping, ThreadsAt

\* What a step of a producer does to its place and to the two counts.
LEMMA PushStats ==
  ASSUME TypeOK, StatsAccountForClaims, NEW p \in Producers, Push(p)
  PROVE  StatsAccountForClaims'
<1> USE DEF TypeOK
<1>1. Popping' = Popping /\ UNCHANGED <<readIndex, consumed>>
  BY RingAssumption DEF Push, PushLoadWrite, PushFull, PushNotFull, PushClaim, PushRetry, PushMarkBusy,
     PushCopyLow, PushCopyHigh, PushMarkDone, PushCount, Branch, Goto, Popping, ThreadsAt, Threads,
     shared, indices, stats
<1>2. /\ Cardinality(Pushing) \in Nat /\ Cardinality(Pushing') \in Nat
      /\ Cardinality(Pushing') = Cardinality(Pushing)
           + (IF pc'[p] \in Writing \cup {"count"} THEN 1 ELSE 0)
           - (IF pc[p] \in Writing \cup {"count"} THEN 1 ELSE 0)
  <2>1. \A u \in Producers \ {p} : pc'[u] = pc[u]
    BY DEF Push, PushLoadWrite, PushFull, PushNotFull, PushClaim, PushRetry, PushMarkBusy,
       PushCopyLow, PushCopyHigh, PushMarkDone, PushCount, Branch, Goto, Threads
  <2>2. QED
    BY <2>1, ThreadsAssumption, OneThreadMoves DEF Pushing
<1>3. CASE PushClaim(p)
  BY <1>1, <1>2, <1>3, StatsByThreads DEF PushClaim, Goto, Threads, Writing, stats
<1>4. CASE PushCount(p)
  BY <1>1, <1>2, <1>4, StatsByThreads DEF PushCount, Goto, Threads, Writing, indices
<1>5. CASE ~PushClaim(p) /\ ~PushCount(p)
  <2>1. /\ UNCHANGED <<writeIndex, produced>>
        /\ pc[p] \in Writing \cup {"count"} <=> pc'[p] \in Writing \cup {"count"}
    BY <1>5 DEF Push, PushLoadWrite, PushFull, PushNotFull, PushRetry, PushMarkBusy,
       PushCopyLow, PushCopyHigh, PushMarkDone, Branch, Goto, Threads, Writing, shared, indices, stats
  <2>2. QED
    BY <1>1, <1>2, <2>1, StatsByThreads
<1>6. QED
  BY <1>3, <1>4, <1>5

\* The same of a consumer.
LEMMA PopStats ==
  ASSUME TypeOK, StatsAccountForClaims, NEW c \in Consumers, Pop(c)
  PROVE  StatsAccountForClaims'
<1> USE DEF TypeOK
<1>1. Pushing' = Pushing /\ UNCHANGED <<writeIndex, produced>>
  BY RingAssumption DEF Pop, PopLoadRead, PopEmpty, PopNotEmpty, PopNotComplete, PopComplete,
     PopClaim, PopRetry, PopCopyLow, PopCopyHigh, PopClearFlag, PopCount, Branch, Goto, Pushing, ThreadsAt,
     Threads, shared, indices, stats
<1>2. /\ Cardinality(Popping) \in Nat /\ Cardinality(Popping') \in Nat
      /\ Cardinality(Popping') = Cardinality(Popping)
           + (IF pc'[c] \in Reading \cup {"count"} THEN 1 ELSE 0)
           - (IF pc[c] \in Reading \cup {"count"} THEN 1 ELSE 0)
  <2>1. \A u \in Consumers \ {c} : pc'[u] = pc[u]
    BY DEF Pop, PopLoadRead, PopEmpty, PopNotEmpty, PopNotComplete, PopComplete, PopClaim,
       PopRetry, PopCopyLow, PopCopyHigh, PopClearFlag, PopCount, Branch, Goto, Threads
  <2>2. QED
    BY <2>1, ThreadsAssumption, OneThreadMoves DEF Popping
<1>3. CASE PopClaim(c)
  BY <1>1, <1>2, <1>3, StatsByThreads DEF PopClaim, Goto, Threads, Reading, stats
<1>4. CASE PopCount(c)
  BY <1>1, <1>2, <1>4, StatsByThreads DEF PopCount, Goto, Threads, Reading, indices
<1>5. CASE ~PopClaim(c) /\ ~PopCount(c)
  <2>1. /\ UNCHANGED <<readIndex, consumed>>
        /\ pc[c] \in Reading \cup {"count"} <=> pc'[c] \in Reading \cup {"count"}
    BY <1>5 DEF Pop, PopLoadRead, PopEmpty, PopNotEmpty, PopNotComplete, PopComplete, PopRetry,
       PopCopyLow, PopCopyHigh, PopClearFlag, Branch, Goto, Threads, Reading, shared, indices, stats
  <2>2. QED
    BY <1>1, <1>2, <2>1, StatsByThreads
<1>6. QED
  BY <1>3, <1>4, <1>5

\* Between calls nobody is between claim and count.
LEMMA NobodyCounts ==
  ASSUME \A t \in Threads : pc[t] = "idle"
  PROVE  Cardinality(Pushing) = 0 /\ Cardinality(Popping) = 0
<1>1. Pushing = {} /\ Popping = {}
  BY DEF Pushing, Popping, ThreadsAt, Threads, Writing, Reading
<1>2. QED
  BY <1>1, FS_EmptySet

\* Every step keeps the statistics and the claims together.
LEMMA StepStats == TypeOK /\ StatsAccountForClaims /\ [Next]_vars => StatsAccountForClaims'
<1> SUFFICES ASSUME TypeOK, StatsAccountForClaims, [Next]_vars PROVE StatsAccountForClaims'
  OBVIOUS
<1>1. CASE Reset
  <2>1. Pushing' = Pushing /\ Popping' = Popping
    BY <1>1 DEF Reset, Pushing, Popping, ThreadsAt
  <2>2. QED
    BY <1>1, <2>1, NobodyCounts, StatsByThreads DEF Reset
<1>2. CASE UNCHANGED vars
  BY <1>2 DEF vars, shared, indices, stats, StatsAccountForClaims
<1>3. QED
  BY <1>1, <1>2, PushStats, PopStats DEF Next

\* Stats() is behind the indices by exactly the calls between claim and count,
\* of any finite number of producers and consumers.
THEOREM StatsAccount == Spec => []StatsAccountForClaims
<1>1. Init => StatsAccountForClaims
  BY NobodyCounts, StatsByThreads DEF Init, Threads
<1>2. QED
  BY <1>1, StepStats, TypeCorrect, PTL DEF Spec

-----------------------------------------------------------------------------
(* Delivery, as long as no slot is used twice.                             *)

\* The slot of index i holds its record, and no producer is still at it.
Complete(i) ==
  /\ i < writeIndex /\ buffer[i] = Whole(RecordAt(i))
  /\ \A p \in Producers : pc[p] \in Writing => idx[p] # i

FlagsAreTrue == \A i \in Slots : writeComplete[i] = 1 => Complete(i)

WritersCopied ==
  \A p \in Producers :
    /\ pc[p] \in {"copyHigh", "markDone"} => buffer[idx[p]].low = RecordAt(idx[p])
    /\ pc[p] = "markDone" => buffer[idx[p]].high = RecordAt(idx[p])

ReadersCopy ==
  \A c \in Consumers :
    /\ pc[c] \in Reading \cup {"cas", "count"} => Complete(idx[c])
    /\ pc[c] \in {"copyHigh", "clearFlag", "count"} => record[c].low = RecordAt(idx[c])
    /\ pc[c] \in {"clearFlag", "count"} => record[c].high = RecordAt(idx[c])

NoLap == writeIndex <= Capacity /\ resets = 0

IntactInv == FlagsAreTrue /\ WritersCopied /\ ReadersCopy

\* Before the first lap the position of an index in use is the index.
LEMMA PosIsIndex ==
  ASSUME NEW i \in Nat, i < Capacity
  PROVE  Pos(i) = i /\ i \in Slots
  BY RingAssumption DEF Pos, Slots

\* Two halves of a record, of the same name, are the whole of it.
LEMMA TwoHalves ==
  ASSUME NEW h \in Halves, NEW r, h.low = r, h.high = r
  PROVE  h = Whole(r)
  BY DEF Halves, Whole

\* What is complete stays so: later claims are of later indices.
LEMMA CompleteStays ==
  ASSUME IInv, NoLap, NoLap', [Next]_vars, NEW i \in Nat, Complete(i)
  PROVE  Complete(i)'
<1> USE RingAssumption DEF IInv, TypeOK, Complete, NoLap, Threads
<1>1. ASSUME NEW p \in Producers, PushClaim(p) PROVE Complete(i)'
  BY <1>1 DEF PushClaim, Goto, Writing, slots, RecordAt
<1>2. ASSUME NEW p \in Producers, PushCopyLow(p) \/ PushCopyHigh(p) PROVE Complete(i)'
  <2>1. pc[p] \in Writing /\ idx[p] # i /\ idx[p] \in Nat /\ idx[p] < Capacity
    BY <1>2 DEF PushCopyLow, PushCopyHigh, Goto, Writing, ProducerLocals
  <2>2. Pos(idx[p]) = idx[p]
    BY <2>1, PosIsIndex
  <2>3. buffer'[i] = buffer[i] /\ UNCHANGED <<writeIndex, idx, resets>>
    BY <1>2, <2>1, <2>2, PosIsIndex DEF PushCopyLow, PushCopyHigh, indices
  <2>4. \A q \in Producers : pc'[q] \in Writing => pc[q] \in Writing
    BY <1>2, <2>1 DEF PushCopyLow, PushCopyHigh, Goto
  <2>5. QED
    BY <2>3, <2>4 DEF RecordAt
<1>3. ASSUME NEW p \in Producers,
             \/ PushLoadWrite(p) \/ PushFull(p) \/ PushNotFull(p) \/ PushRetry(p)
             \/ PushMarkBusy(p) \/ PushMarkDone(p) \/ PushCount(p)
      PROVE  Complete(i)'
  <2>1. UNCHANGED <<writeIndex, buffer, resets>>
    BY <1>3 DEF PushLoadWrite, PushFull, PushNotFull, PushRetry, PushMarkBusy, PushMarkDone,
       PushCount, Branch, shared, indices, slots
  <2>2. \A q \in Producers : pc'[q] \in Writing => pc[q] \in Writing /\ idx'[q] = idx[q]
    BY <1>3 DEF PushLoadWrite, PushFull, PushNotFull, PushRetry, PushMarkBusy, PushMarkDone,
       PushCount, Branch, Goto, Writing
  <2>3. QED
    BY <2>1, <2>2 DEF RecordAt
<1>4. ASSUME NEW c \in Consumers, Pop(c) PROVE Complete(i)'
  <2>1. UNCHANGED <<writeIndex, buffer, resets>>
    BY <1>4 DEF Pop, PopLoadRead, PopEmpty, PopNotEmpty, PopNotComplete, PopComplete, PopClaim,
       PopRetry, PopCopyLow, PopCopyHigh, PopClearFlag, PopCount, Branch, shared, indices, slots
  <2>2. \A q \in Producers : pc'[q] = pc[q] /\ idx'[q] = idx[q]
    BY <1>4 DEF Pop, PopLoadRead, PopEmpty, PopNotEmpty, PopNotComplete, PopComplete, PopClaim,
       PopRetry, PopCopyLow, PopCopyHigh, PopClearFlag, PopCount, Branch, Goto
  <2>3. QED
    BY <2>1, <2>2 DEF RecordAt
<1>5. CASE Reset
  BY <1>5 DEF Reset
<1>6. CASE UNCHANGED vars
  BY <1>6 DEF vars, shared, indices, slots, RecordAt
<1>7. QED
  BY <1>1, <1>2, <1>3, <1>4, <1>5, <1>6 DEF Next, Push

\* A producer puts its record in its slot, and says so when it is whole.
LEMMA PushIntact ==
  ASSUME IInv, IntactInv, NoLap, NoLap', NEW p \in Producers, Push(p)
  PROVE  IntactInv'
<1> USE RingAssumption DEF IInv, TypeOK, NoLap, Threads
<1>0. [Next]_vars
  BY DEF Next
<1>1. \A i \in Nat : Complete(i) => Complete(i)'
  BY <1>0, CompleteStays
<1>2. ReadersCopy'
  <2>1. \A c \in Consumers : pc'[c] = pc[c] /\ idx'[c] = idx[c]
    BY DEF Push, PushLoadWrite, PushFull, PushNotFull, PushClaim, PushRetry, PushMarkBusy,
       PushCopyLow, PushCopyHigh, PushMarkDone, PushCount, Branch, Goto
  <2>2. record' = record /\ resets' = resets
    BY DEF Push, PushLoadWrite, PushFull, PushNotFull, PushClaim, PushRetry, PushMarkBusy,
       PushCopyLow, PushCopyHigh, PushMarkDone, PushCount, Branch, shared
  <2>3. \A c \in Consumers : Complete(idx[c]) => Complete(idx[c])'
    BY <1>1, <2>1 DEF Complete
  <2>4. QED
    BY <2>1, <2>2, <2>3 DEF IntactInv, ReadersCopy, RecordAt
<1>3. pc[p] \in Writing => Pos(idx[p]) = idx[p] /\ idx[p] \in Slots
  BY PosIsIndex DEF ProducerLocals
<1>4. CASE PushMarkBusy(p)
  <2>1. FlagsAreTrue'
    BY <1>1, <1>3, <1>4 DEF IntactInv, FlagsAreTrue, Slots, PushMarkBusy, Goto, Writing
  <2>2. WritersCopied'
    BY <1>4 DEF IntactInv, WritersCopied, PushMarkBusy, Goto, RecordAt, Writing
  <2>3. QED
    BY <1>2, <2>1, <2>2 DEF IntactInv
<1>5. CASE PushCopyLow(p) \/ PushCopyHigh(p)
  <2>1. FlagsAreTrue'
    BY <1>1, <1>5 DEF IntactInv, FlagsAreTrue, Slots, PushCopyLow, PushCopyHigh
  <2>2. \A q \in Producers : q # p /\ pc[q] \in Writing => idx[q] # idx[p] /\ idx[q] \in Nat
    BY <1>5 DEF PushCopyLow, PushCopyHigh, Goto, Exclusive, Writing
  <2>3. WritersCopied'
    <3>1. CASE PushCopyLow(p)
      BY <1>3, <2>2, <3>1 DEF IntactInv, WritersCopied, PushCopyLow, Goto, RecordAt, Writing, Halves
    <3>2. CASE PushCopyHigh(p)
      BY <1>3, <2>2, <3>2 DEF IntactInv, WritersCopied, PushCopyHigh, Goto, RecordAt, Writing, Halves
    <3>3. QED
      BY <1>5, <3>1, <3>2
  <2>4. QED
    BY <1>2, <2>1, <2>3 DEF IntactInv
<1>6. CASE PushMarkDone(p)
  <2>1. Complete(idx[p])'
    <3>1. buffer[idx[p]] = Whole(RecordAt(idx[p]))
      BY <1>3, <1>6, TwoHalves DEF PushMarkDone, Goto, IntactInv, WritersCopied, Writing
    <3>2. \A q \in Producers : pc'[q] \in Writing => idx[q] # idx[p]
      BY <1>6 DEF PushMarkDone, Goto, Exclusive, Writing
    <3>3. QED
      BY <1>6, <3>1, <3>2 DEF Complete, PushMarkDone, Goto, ProducerLocals, RecordAt, Writing, indices
  <2>2. FlagsAreTrue'
    <3>1. ASSUME NEW i \in Slots, writeComplete'[i] = 1 PROVE Complete(i)'
      <4>1. CASE i = idx[p]
        BY <2>1, <4>1, <1>6 DEF Complete, PushMarkDone
      <4>2. CASE i # idx[p]
        BY <1>1, <1>3, <1>6, <3>1, <4>2 DEF IntactInv, FlagsAreTrue, Slots, PushMarkDone, Goto, Writing
      <4>3. QED
        BY <4>1, <4>2
    <3>2. QED
      BY <3>1 DEF FlagsAreTrue
  <2>3. WritersCopied'
    BY <1>6 DEF IntactInv, WritersCopied, PushMarkDone, Goto, RecordAt
  <2>4. QED
    BY <1>2, <2>2, <2>3 DEF IntactInv
<1>7. CASE ~PushMarkBusy(p) /\ ~PushCopyLow(p) /\ ~PushCopyHigh(p) /\ ~PushMarkDone(p)
  <2>1. UNCHANGED <<writeComplete, buffer, resets>>
    BY <1>7 DEF Push, PushLoadWrite, PushFull, PushNotFull, PushClaim, PushRetry, PushCount,
       Branch, shared, slots
  <2>2. \A q \in Producers : pc'[q] \in {"copyHigh", "markDone"} => pc'[q] = pc[q] /\ idx'[q] = idx[q]
    BY <1>7 DEF Push, PushLoadWrite, PushFull, PushNotFull, PushClaim, PushRetry, PushCount,
       Branch, Goto
  <2>3. FlagsAreTrue'
    BY <1>1, <2>1 DEF IntactInv, FlagsAreTrue, Slots
  <2>4. WritersCopied'
    BY <2>1, <2>2 DEF IntactInv, WritersCopied, RecordAt
  <2>5. QED
    BY <1>2, <2>3, <2>4 DEF IntactInv
<1>8. QED
  BY <1>4, <1>5, <1>6, <1>7

\* A consumer claims what the flag said is complete, and copies both halves of it.
LEMMA PopIntact ==
  ASSUME IInv, IntactInv, NoLap, NoLap', NEW c \in Consumers, Pop(c)
  PROVE  IntactInv'
<1> USE RingAssumption DEF IInv, TypeOK, NoLap, Threads
<1>0. [Next]_vars
  BY DEF Next
<1>1. \A i \in Nat : Complete(i) => Complete(i)'
  BY <1>0, CompleteStays
<1>2. WritersCopied'
  <2>1. UNCHANGED <<buffer, resets>>
    BY DEF Pop, PopLoadRead, PopEmpty, PopNotEmpty, PopNotComplete, PopComplete, PopClaim,
       PopRetry, PopCopyLow, PopCopyHigh, PopClearFlag, PopCount, Branch, shared, slots
  <2>2. \A q \in Producers : pc'[q] = pc[q] /\ idx'[q] = idx[q]
    BY DEF Pop, PopLoadRead, PopEmpty, PopNotEmpty, PopNotComplete, PopComplete, PopClaim,
       PopRetry, PopCopyLow, PopCopyHigh, PopClearFlag, PopCount, Branch, Goto
  <2>3. QED
    BY <2>1, <2>2 DEF IntactInv, WritersCopied, RecordAt
<1>3. FlagsAreTrue'
  <2>1. \A i \in Slots : writeComplete'[i] = 1 => writeComplete[i] = 1
    BY DEF Pop, PopLoadRead, PopEmpty, PopNotEmpty, PopNotComplete, PopComplete, PopClaim,
       PopRetry, PopCopyLow, PopCopyHigh, PopClearFlag, PopCount, Branch, shared, slots
  <2>2. QED
    BY <1>1, <2>1 DEF IntactInv, FlagsAreTrue, Slots
<1>4. ReadersCopy'
  <2>2. \A d \in Consumers \ {c} : pc'[d] = pc[d] /\ idx'[d] = idx[d] /\ record'[d] = record[d]
    BY DEF Pop, PopLoadRead, PopEmpty, PopNotEmpty, PopNotComplete, PopComplete, PopClaim,
       PopRetry, PopCopyLow, PopCopyHigh, PopClearFlag, PopCount, Branch, Goto
  <2>3. resets' = resets
    BY DEF Pop, PopLoadRead, PopEmpty, PopNotEmpty, PopNotComplete, PopComplete, PopClaim,
       PopRetry, PopCopyLow, PopCopyHigh, PopClearFlag, PopCount, Branch, shared
  <2>4. pc'[c] \in Reading \cup {"cas", "count"} => idx'[c] = idx[c] /\ Complete(idx[c])
    <3>1. CASE PopComplete(c)
      <4>1. idx[c] \in Nat /\ idx[c] < Capacity
        BY <3>1 DEF PopComplete, Branch, Goto, ConsumerLocals
      <4>2. QED
        BY <3>1, <4>1, PosIsIndex DEF PopComplete, Branch, IntactInv, FlagsAreTrue
    <3>2. CASE ~PopComplete(c)
      BY <3>2 DEF Pop, PopLoadRead, PopEmpty, PopNotEmpty, PopNotComplete, PopClaim,
       PopRetry, PopCopyLow, PopCopyHigh, PopClearFlag, PopCount, Branch, Goto, Reading,
       IntactInv, ReadersCopy
    <3>3. QED
      BY <3>1, <3>2
  <2>5. /\ pc'[c] \in {"copyHigh", "clearFlag", "count"} => record'[c].low = RecordAt(idx[c])
        /\ pc'[c] \in {"clearFlag", "count"} => record'[c].high = RecordAt(idx[c])
    <3>1. CASE PopCopyLow(c) \/ PopCopyHigh(c)
      <4>1. Complete(idx[c]) /\ idx[c] \in Nat /\ idx[c] < Capacity
        BY <3>1 DEF PopCopyLow, PopCopyHigh, Goto, IntactInv, ReadersCopy, Reading, Complete
      <4>2. buffer[Pos(idx[c])] = Whole(RecordAt(idx[c]))
        BY <4>1, PosIsIndex DEF Complete
      <4>3. QED
        BY <3>1, <4>2 DEF PopCopyLow, PopCopyHigh, Goto, Whole, Halves, IntactInv, ReadersCopy
    <3>2. CASE ~PopCopyLow(c) /\ ~PopCopyHigh(c)
      BY <3>2 DEF Pop, PopLoadRead, PopEmpty, PopNotEmpty, PopNotComplete, PopComplete, PopClaim,
       PopRetry, PopClearFlag, PopCount, Branch, Goto, IntactInv, ReadersCopy
    <3>3. QED
      BY <3>1, <3>2
  <2>6. ASSUME NEW d \in Consumers
        PROVE  /\ pc'[d] \in Reading \cup {"cas", "count"} => Complete(idx[d])' /\ idx'[d] = idx[d]
               /\ pc'[d] \in {"copyHigh", "clearFlag", "count"} => record'[d].low = RecordAt(idx[d])
               /\ pc'[d] \in {"clearFlag", "count"} => record'[d].high = RecordAt(idx[d])
    <3>1. pc'[d] \in Reading \cup {"cas", "count"} => Complete(idx[d]) /\ idx'[d] = idx[d]
      BY <2>2, <2>4 DEF IntactInv, ReadersCopy
    <3>2. Complete(idx[d]) /\ idx'[d] = idx[d] => Complete(idx[d])'
      BY <1>1 DEF Complete
    <3>3. QED
      BY <2>2, <2>5, <3>1, <3>2 DEF IntactInv, ReadersCopy
  <2>7. QED
    BY <2>3, <2>6 DEF ReadersCopy, RecordAt, Complete, Reading
<1>5. QED
  BY <1>2, <1>3, <1>4 DEF IntactInv

\* As long as no more records are pushed than the buffer has slots, every record that
\* is popped is whole and the one that was pushed under the index claimed.
THEOREM IntactWithoutLap ==
  ASSUME MaxRecords <= Capacity, MaxResets = 0
  PROVE  Spec => []IntactDelivery
<1>1. Init => IntactInv
  BY DEF Init, IntactInv, FlagsAreTrue, WritersCopied, ReadersCopy, Threads, Reading
<1>2. IInv /\ Bounds => NoLap
  BY RingAssumption DEF IInv, TypeOK, Bounds, NoLap
<1>3. IInv /\ IntactInv /\ NoLap /\ NoLap' /\ [Next]_vars => IntactInv'
  <2> SUFFICES ASSUME IInv, IntactInv, NoLap, NoLap', [Next]_vars PROVE IntactInv'
    OBVIOUS
  <2>1. CASE Reset
    BY <2>1 DEF Reset, NoLap
  <2>2. CASE UNCHANGED vars
    BY <2>2 DEF vars, shared, indices, slots, IntactInv, FlagsAreTrue, WritersCopied, ReadersCopy,
       Complete, RecordAt
  <2>3. QED
    BY <2>1, <2>2, PushIntact, PopIntact DEF Next
<1>4. IInv /\ IntactInv => IntactDelivery
  BY TwoHalves DEF IInv, TypeOK, IntactInv, ReadersCopy, IntactDelivery
<1>5. QED
  BY <1>1, <1>2, <1>3, <1>4, Inductive, BoundsInv, PTL DEF Spec
=============================================================================
