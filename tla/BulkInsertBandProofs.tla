------------------------- MODULE BulkInsertBandProofs -------------------------
(* Proofs about BulkInsertBand, for any sizes and any number of bands. *)
EXTENDS BulkInsertBand, FiniteSetTheorems, SequenceTheorems, TLAPS

\* The types the proofs need.
Types ==
  /\ band \in Nat
  /\ phase \in {"between", "running", "stopping", "grace"}
  /\ producer \in [Producers -> {"top", "push", "gone"}]
  /\ worker \in [Consumers -> {"unborn", "top", "pop", "insert", "gone"}]

\* The consumers of bands to come are not born, and the context of a band is
\* done when runBand has seen it end.
ContextsEnd ==
  /\ \A g \in Consumers : g[2] > band => worker[g] = "unborn"
  /\ band > 0 /\ phase # "running" => ctxDone

IInv == Types /\ ContextsEnd /\ ClosedAfterProducers

\* A consumer is of a band with a positive number.
LEMMA ConsumerBand == ASSUME NEW g \in Consumers PROVE g[2] \in 1 .. Bands
  BY DEF Consumers

\* Nothing has been started.
LEMMA InitIInv == Init => IInv
  BY DEF Init, IInv, Types, ContextsEnd, ClosedAfterProducers

\* Every step of runBand keeps IInv.
LEMMA RunBandIInv == IInv /\ RunBand => IInv'
<1> SUFFICES ASSUME IInv, RunBand PROVE IInv'
  OBVIOUS
<1> USE DEF IInv, Types
<1>b. Bands \in Nat /\ \A g \in Consumers : g[2] \in 1 .. Bands
  BY ConsumerBand, BandAssumption
<1>1. CASE StartBand
  <2>1. band' = band + 1 /\ phase' = "running" /\ ~closed' /\ phase = "between"
    BY <1>1 DEF StartBand
  <2>2. worker' = [g \in Consumers |-> IF g[2] = band' THEN "top" ELSE worker[g]]
    BY <1>1 DEF StartBand
  <2>3. Types'
    BY <1>1, <2>1, <2>2 DEF StartBand
  <2>4. ContextsEnd'
    BY <1>b, <2>1, <2>2 DEF ContextsEnd
  <2>5. ClosedAfterProducers'
    BY <2>1 DEF ClosedAfterProducers
  <2>6. QED
    BY <2>3, <2>4, <2>5
<1>2. CASE BandEnds
  BY <1>2 DEF BandEnds, buffer, workers, ContextsEnd, ClosedAfterProducers
<1>3. CASE ProducersDone
  BY <1>3 DEF ProducersDone, workers, ContextsEnd, ClosedAfterProducers
<1>4. CASE WorkersDone \/ GraceOver
  BY <1>4 DEF WorkersDone, GraceOver, buffer, workers, ContextsEnd, ClosedAfterProducers
<1>5. QED
  BY <1>1, <1>2, <1>3, <1>4 DEF RunBand

\* Every step of a producer keeps IInv: one that is about to push has not been
\* waited for, so the buffer is not closed.
LEMMA ProduceIInv == ASSUME NEW p \in Producers PROVE IInv /\ Produce(p) => IInv'
<1> SUFFICES ASSUME IInv, Produce(p) PROVE IInv'
  OBVIOUS
<1>1. UNCHANGED <<closed, control, workers>> /\ producer[p] # "gone"
  BY DEF Produce, ProducerChecks, ProducerPushes, ProducerGivesUp, buffer
<1>2. producer' \in [Producers -> {"top", "push", "gone"}]
  BY DEF Produce, ProducerChecks, ProducerPushes, ProducerGivesUp, IInv, Types
<1>3. QED
  BY <1>1, <1>2 DEF IInv, Types, ContextsEnd, ClosedAfterProducers, control,
                    workers

\* Every step of a consumer keeps IInv: it moves itself only, and is born.
LEMMA ConsumeIInv == ASSUME NEW g \in Consumers PROVE IInv /\ Consume(g) => IInv'
<1> SUFFICES ASSUME IInv, Consume(g) PROVE IInv'
  OBVIOUS
<1> USE DEF IInv, Types
<1>1. UNCHANGED <<closed, control, producer>>
  BY DEF Consume, ConsumerChecks, ConsumerPops, ConsumerFindsNothing, ConsumerStartsInsert,
         ConsumerInserts, buffer
<1>2. worker[g] # "unborn"
  BY DEF Consume, ConsumerChecks, ConsumerPops, ConsumerFindsNothing, ConsumerStartsInsert,
         ConsumerInserts, Goto
<1>3. PICK w \in {"top", "pop", "insert", "gone"} : worker' = [worker EXCEPT ![g] = w]
  BY DEF Consume, ConsumerChecks, ConsumerPops, ConsumerFindsNothing, ConsumerStartsInsert,
         ConsumerInserts, Goto
<1>4. QED
  BY <1>1, <1>2, <1>3 DEF ContextsEnd, ClosedAfterProducers, control

\* Every reachable state satisfies the inductive invariant.
LEMMA Invariance == Spec => []IInv
<1>1. Init => IInv
  BY InitIInv
<1>2. IInv /\ [Next]_vars => IInv'
  <2>1. IInv /\ UNCHANGED vars => IInv'
    BY DEF IInv, Types, ContextsEnd, ClosedAfterProducers, vars, buffer,
           control, workers
  <2>2. QED
    BY <2>1, RunBandIInv, ProduceIInv, ConsumeIInv DEF Next
<1>3. QED
  BY <1>1, <1>2, PTL DEF Spec

-----------------------------------------------------------------------------
(* Why every record is accounted for: it is in one place at a time, and    *)
(* from there a step puts it in the next.  Only Reset drops any.           *)

RecordTypes ==
  /\ pushed \in Nat /\ first \in Nat \ {0} /\ first <= pushed + 1
  /\ ring \in Seq(Nat)
  /\ batch \in [Consumers -> Seq(Nat)] /\ \A g \in Consumers : Len(batch[g]) <= BatchSize

InRing(r) == \E i \in DOMAIN ring : ring[i] = r
InBatch(r) == \E g \in Consumers : \E i \in DOMAIN batch[g] : batch[g][i] = r

OnceInRing == \A i, k \in DOMAIN ring : ring[i] = ring[k] => i = k
OnceInBatches ==
  \A g, h \in Consumers : \A i \in DOMAIN batch[g], k \in DOMAIN batch[h] :
    batch[g][i] = batch[h][k] => g = h /\ i = k
OnePlaceEach ==
  \A r \in Nat : /\ InRing(r) => ~InBatch(r) /\ r \notin inserted /\ r \notin failed
                 /\ InBatch(r) => r \notin inserted /\ r \notin failed
                 /\ r \in inserted => r \notin failed
PlacedWerePushed ==
  \A r \in Nat : InRing(r) \/ InBatch(r) \/ r \in inserted \/ r \in failed => r \in 1 .. pushed
NoneOfBandIsLost ==
  \A r \in first .. pushed : InRing(r) \/ InBatch(r) \/ r \in inserted \/ r \in failed

RInv ==
  RecordTypes /\ OnceInRing /\ OnceInBatches /\ OnePlaceEach /\ PlacedWerePushed /\ NoneOfBandIsLost

\* Most steps leave every record where it is.
LEMMA NoRecordMoves ==
  ASSUME RInv, UNCHANGED <<ring, batch, inserted, failed, pushed, first>>
  PROVE  RInv'
<1>1. \A r : (InRing(r)' <=> InRing(r)) /\ (InBatch(r)' <=> InBatch(r))
  BY DEF InRing, InBatch
<1>2. RecordTypes' /\ OnceInRing' /\ OnceInBatches'
  BY DEF RInv, RecordTypes, OnceInRing, OnceInBatches
<1>3. QED
  BY <1>1, <1>2 DEF RInv, OnePlaceEach, PlacedWerePushed, NoneOfBandIsLost

\* Reset drops what is in the buffer, before the first record of the new band.
LEMMA StartBandRInv == ASSUME RInv, StartBand PROVE RInv'
<1>1. ring' = <<>> /\ first' = pushed + 1 /\ UNCHANGED <<pushed, batch, inserted, failed>>
  BY DEF StartBand, Ring!Clear, results
<1>2. pushed \in Nat
  BY DEF RInv, RecordTypes
<1>3. \A r : ~InRing(r)' /\ (InBatch(r)' <=> InBatch(r))
  BY <1>1 DEF InRing, InBatch
<1>4. RecordTypes' /\ OnceInRing' /\ OnceInBatches'
  BY <1>1 DEF RInv, RecordTypes, OnceInRing, OnceInBatches
<1>5. OnePlaceEach' /\ PlacedWerePushed'
  BY <1>1, <1>3 DEF RInv, OnePlaceEach, PlacedWerePushed
<1>6. NoneOfBandIsLost'
  BY <1>1, <1>2 DEF NoneOfBandIsLost
<1>7. QED
  BY <1>4, <1>5, <1>6 DEF RInv

\* A record is pushed under a number that none has had.
LEMMA PushRInv == ASSUME RInv, NEW p \in Producers, ProducerPushes(p) PROVE RInv'
<1>1. /\ ring' = Append(ring, pushed + 1) /\ pushed' = pushed + 1
      /\ UNCHANGED <<first, batch, inserted, failed>>
  BY DEF ProducerPushes, Ring!Put, control, workers, results
<1>2. pushed \in Nat /\ ring \in Seq(Nat) /\ first \in Nat \ {0} /\ first <= pushed + 1
  BY DEF RInv, RecordTypes
<1>3. /\ DOMAIN ring' = DOMAIN ring \cup {Len(ring) + 1} /\ Len(ring) + 1 \notin DOMAIN ring
      /\ ring'[Len(ring) + 1] = pushed + 1 /\ \A i \in DOMAIN ring : ring'[i] = ring[i]
      /\ \A i \in DOMAIN ring : ring[i] \in Nat
  BY <1>1, <1>2
<1>4. \A r \in Nat : /\ InRing(r)' <=> InRing(r) \/ r = pushed + 1
                     /\ InBatch(r)' <=> InBatch(r)
  BY <1>1, <1>3 DEF InRing, InBatch
<1>5. /\ ~InRing(pushed + 1) /\ ~InBatch(pushed + 1)
      /\ pushed + 1 \notin inserted /\ pushed + 1 \notin failed
  BY <1>2 DEF RInv, PlacedWerePushed
<1>6. RecordTypes' /\ OnceInRing' /\ OnceInBatches'
  <2>1. RecordTypes'
    BY <1>1, <1>2 DEF RInv, RecordTypes
  <2>2. OnceInRing'
    BY <1>3, <1>5 DEF RInv, OnceInRing, InRing
  <2>3. OnceInBatches'
    BY <1>1 DEF RInv, OnceInBatches
  <2>4. QED
    BY <2>1, <2>2, <2>3
<1>7. OnePlaceEach'
  BY <1>1, <1>4, <1>5 DEF RInv, OnePlaceEach
<1>8. PlacedWerePushed' /\ NoneOfBandIsLost'
  BY <1>1, <1>2, <1>4 DEF RInv, PlacedWerePushed, NoneOfBandIsLost
<1>9. QED
  BY <1>6, <1>7, <1>8 DEF RInv

\* A record goes from the head of the buffer to the end of a batch.
LEMMA PopRInv == ASSUME RInv, NEW c \in Consumers, ConsumerPops(c) PROVE RInv'
<1>1. /\ ring # <<>> /\ ring' = Tail(ring) /\ Len(batch[c]) < BatchSize
      /\ batch' = [batch EXCEPT ![c] = Append(@, Head(ring))]
      /\ UNCHANGED <<first, pushed, inserted, failed>>
  BY DEF ConsumerPops, Ring!Take, control, results
<1>2. ring \in Seq(Nat) /\ batch \in [Consumers -> Seq(Nat)] /\ BatchSize \in Nat
  BY BandAssumption DEF RInv, RecordTypes
<1>3. PICK r0 \in Nat : r0 = Head(ring)
  BY <1>1, <1>2
<1>4. /\ 1 \in DOMAIN ring /\ ring[1] = r0
      /\ \A i \in DOMAIN ring' : i \in Nat /\ i + 1 \in DOMAIN ring /\ i + 1 # 1 /\ ring'[i] = ring[i + 1]
      /\ \A i \in DOMAIN ring : i # 1 => i - 1 \in DOMAIN ring' /\ ring'[i - 1] = ring[i]
  <2>1. Len(ring) \in Nat \ {0} /\ DOMAIN ring = 1 .. Len(ring) /\ ring[1] = r0
    BY <1>1, <1>2, <1>3
  <2>2. DOMAIN ring' = 1 .. Len(ring) - 1 /\ \A i \in 1 .. Len(ring) - 1 : ring'[i] = ring[i + 1]
    BY <1>1, <1>2
  <2>3. QED
    BY <2>1, <2>2
<1>5. InRing(r0) /\ ~InBatch(r0)
  BY <1>4 DEF InRing, RInv, OnePlaceEach
<1>6. /\ DOMAIN batch'[c] = DOMAIN batch[c] \cup {Len(batch[c]) + 1}
      /\ Len(batch[c]) + 1 \notin DOMAIN batch[c]
      /\ batch'[c][Len(batch[c]) + 1] = r0
      /\ \A i \in DOMAIN batch[c] : batch'[c][i] = batch[c][i]
      /\ \A g \in Consumers : g # c => batch'[g] = batch[g]
      /\ batch'[c] \in Seq(Nat) /\ Len(batch'[c]) = Len(batch[c]) + 1
  BY <1>1, <1>2, <1>3
<1>7. \A r \in Nat : /\ InRing(r)' <=> InRing(r) /\ r # r0
                     /\ InBatch(r)' <=> InBatch(r) \/ r = r0
  <2>1. ASSUME NEW r \in Nat PROVE InRing(r)' => InRing(r) /\ r # r0
    BY <1>4 DEF RInv, OnceInRing, InRing
  <2>2. ASSUME NEW r \in Nat PROVE InRing(r) /\ r # r0 => InRing(r)'
    BY <1>4 DEF InRing
  <2>3. ASSUME NEW r \in Nat PROVE InBatch(r)' <=> InBatch(r) \/ r = r0
    BY <1>6 DEF InBatch
  <2>4. QED
    BY <2>1, <2>2, <2>3
<1>8. RecordTypes' /\ OnceInRing'
  <2>1. batch' \in [Consumers -> Seq(Nat)] /\ \A g \in Consumers : Len(batch'[g]) <= BatchSize
    <3>1. Len(batch[c]) \in Nat
      BY <1>2
    <3>2. batch' \in [Consumers -> Seq(Nat)]
      BY <1>1, <1>2, <1>3
    <3>3. QED
      BY <1>1, <1>2, <1>6, <3>1, <3>2 DEF RInv, RecordTypes
  <2>2. RecordTypes'
    BY <1>1, <1>2, <2>1 DEF RInv, RecordTypes
  <2>3. OnceInRing'
    BY <1>4 DEF RInv, OnceInRing
  <2>4. QED
    BY <2>2, <2>3
<1>9. OnceInBatches'
  BY <1>5, <1>6 DEF RInv, OnceInBatches, InBatch
<1>10. OnePlaceEach' /\ PlacedWerePushed' /\ NoneOfBandIsLost'
  <2>1. r0 \notin inserted /\ r0 \notin failed
    BY <1>5 DEF RInv, OnePlaceEach
  <2>2. OnePlaceEach'
    BY <1>1, <1>7, <2>1 DEF RInv, OnePlaceEach
  <2>3. PlacedWerePushed'
    BY <1>1, <1>5, <1>7 DEF RInv, PlacedWerePushed
  <2>4. NoneOfBandIsLost'
    BY <1>1, <1>7 DEF RInv, NoneOfBandIsLost, RecordTypes
  <2>5. QED
    BY <2>2, <2>3, <2>4
<1>11. QED
  BY <1>8, <1>9, <1>10 DEF RInv

\* A batch goes, as a whole, to the rows that were inserted or to those that failed.
LEMMA InsertRInv == ASSUME RInv, NEW c \in Consumers, ConsumerInserts(c) PROVE RInv'
<1> DEFINE rows == {batch[c][i] : i \in DOMAIN batch[c]}
<1>1. /\ batch' = [batch EXCEPT ![c] = <<>>]
      /\ \/ inserted' = inserted \cup rows /\ failed' = failed
         \/ failed' = failed \cup rows /\ inserted' = inserted
      /\ UNCHANGED <<ring, first, pushed>>
  BY DEF ConsumerInserts, buffer, control
<1>2. batch \in [Consumers -> Seq(Nat)] /\ BatchSize \in Nat
  BY BandAssumption DEF RInv, RecordTypes
<1>3. \A r \in Nat : /\ InRing(r)' <=> InRing(r)
                     /\ InBatch(r)' <=> InBatch(r) /\ r \notin rows
                     /\ r \in rows => InBatch(r)
  <2>1. batch'[c] = <<>> /\ \A g \in Consumers : g # c => batch'[g] = batch[g]
    BY <1>1, <1>2
  <2>2. ASSUME NEW r \in Nat PROVE InRing(r)' <=> InRing(r)
    BY <1>1 DEF InRing
  <2>3. ASSUME NEW r \in Nat PROVE r \in rows => InBatch(r)
    BY DEF InBatch
  <2>4. ASSUME NEW r \in Nat PROVE InBatch(r)' => InBatch(r) /\ r \notin rows
    BY <2>1 DEF InBatch, RInv, OnceInBatches
  <2>5. ASSUME NEW r \in Nat PROVE InBatch(r) /\ r \notin rows => InBatch(r)'
    BY <2>1 DEF InBatch
  <2>6. QED
    BY <2>2, <2>3, <2>4, <2>5
<1>4. RecordTypes'
  BY <1>1, <1>2 DEF RInv, RecordTypes
<1>5. OnceInRing' /\ OnceInBatches'
  BY <1>1, <1>2 DEF RInv, OnceInRing, OnceInBatches
<1> HIDE DEF rows
<1>6. OnePlaceEach'
  BY <1>1, <1>3 DEF RInv, OnePlaceEach
<1>7. PlacedWerePushed' /\ NoneOfBandIsLost'
  BY <1>1, <1>3 DEF RInv, PlacedWerePushed, NoneOfBandIsLost, RecordTypes
<1>8. QED
  BY <1>4, <1>5, <1>6, <1>7 DEF RInv

\* Of all other steps none moves a record.
LEMMA RecordsInvariance == Spec => []RInv
<1>1. Init => RInv
  BY BandAssumption DEF Init, RInv, RecordTypes, OnceInRing, OnceInBatches, OnePlaceEach, PlacedWerePushed,
     NoneOfBandIsLost, InRing, InBatch
<1>2. ASSUME RInv, [Next]_vars PROVE RInv'
  <2>1. CASE RunBand
    BY <2>1, <1>2, StartBandRInv, NoRecordMoves DEF RunBand, BandEnds, ProducersDone, WorkersDone,
       GraceOver, buffer, workers, results
  <2>2. ASSUME NEW p \in Producers, Produce(p) PROVE RInv'
    BY <2>2, <1>2, PushRInv, NoRecordMoves DEF Produce, ProducerChecks, ProducerGivesUp, buffer,
       control, workers, results
  <2>3. ASSUME NEW g \in Consumers, Consume(g) PROVE RInv'
    BY <2>3, <1>2, PopRInv, InsertRInv, NoRecordMoves DEF Consume, ConsumerChecks,
       ConsumerFindsNothing, ConsumerStartsInsert, buffer, control, results
  <2>4. CASE UNCHANGED vars
    BY <2>4, <1>2, NoRecordMoves DEF vars, buffer, control, workers, results
  <2>5. QED
    BY <1>2, <2>1, <2>2, <2>3, <2>4 DEF Next
<1>3. QED
  BY <1>1, <1>2, PTL DEF Spec

\* Every record of the band is in one place: in the buffer, in one batch, inserted or
\* failed; and none of an earlier band is in two.  For any buffer, batches and bands.
THEOREM RecordsAccount == Spec => []RecordsAreAccountedFor
<1>1. ASSUME RInv PROVE RecordsAreAccountedFor
  <2>1. ASSUME NEW r \in 1 .. pushed
        PROVE  Places(r) = (IF InRing(r) THEN 1 ELSE 0) + (IF InBatch(r) THEN 1 ELSE 0)
                           + (IF r \in inserted \/ r \in failed THEN 1 ELSE 0)
    <3> DEFINE slots == {i \in DOMAIN ring : ring[i] = r}
               held == {x \in Consumers \X (1 .. BatchSize) :
                          x[2] \in DOMAIN batch[x[1]] /\ batch[x[1]][x[2]] = r}
               ends == {s \in {"inserted", "failed"} :
                          r \in IF s = "inserted" THEN inserted ELSE failed}
    <3>0. r \in Nat
      OBVIOUS
    <3>1. IF InRing(r) THEN \E i : slots = {i} ELSE slots = {}
      BY <1>1 DEF RInv, OnceInRing, InRing
    <3>2. IF InBatch(r) THEN \E x : held = {x} ELSE held = {}
      <4>1. CASE InBatch(r)
        <5>1. PICK g \in Consumers : \E i \in DOMAIN batch[g] : batch[g][i] = r
          BY <4>1 DEF InBatch
        <5>2. PICK i \in DOMAIN batch[g] : batch[g][i] = r
          BY <5>1
        <5>3. i \in 1 .. BatchSize
          BY <1>1, <5>2, BandAssumption DEF RInv, RecordTypes
        <5>4. <<g, i>> \in held
          BY <5>2, <5>3
        <5>5. \A x \in held : x = <<g, i>>
          BY <1>1, <5>2 DEF RInv, OnceInBatches
        <5>6. QED
          BY <4>1, <5>4, <5>5
      <4>2. CASE ~InBatch(r)
        BY <4>2 DEF InBatch
      <4>3. QED
        BY <4>1, <4>2
    <3>3. IF r \in inserted \/ r \in failed THEN \E s : ends = {s} ELSE ends = {}
      <4>1. ~(r \in inserted /\ r \in failed)
        BY <1>1, <3>0 DEF RInv, OnePlaceEach
      <4>2. "inserted" # "failed"
        OBVIOUS
      <4>3. QED
        BY <4>1, <4>2
    <3>4. /\ Cardinality(slots) = IF InRing(r) THEN 1 ELSE 0
          /\ Cardinality(held) = IF InBatch(r) THEN 1 ELSE 0
          /\ Cardinality(ends) = IF r \in inserted \/ r \in failed THEN 1 ELSE 0
      <4> HIDE DEF slots, held, ends
      <4>1. QED
        BY <3>1, <3>2, <3>3, FS_Singleton, FS_EmptySet
    <3>5. Places(r) = Cardinality(slots) + Cardinality(held) + Cardinality(ends)
      BY DEF Places
    <3> HIDE DEF slots, held, ends
    <3>6. QED
      BY <3>4, <3>5
  <2>2. ASSUME NEW r \in 1 .. pushed
        PROVE  IF r >= first THEN Places(r) = 1 ELSE Places(r) <= 1
    <3>1. r \in Nat /\ (r >= first => r \in first .. pushed)
      BY <1>1 DEF RInv, RecordTypes
    <3>2. QED
      BY <1>1, <2>1, <3>1 DEF RInv, OnePlaceEach, NoneOfBandIsLost
  <2>3. QED
    BY <2>2 DEF RecordsAreAccountedFor
<1>2. QED
  BY <1>1, RecordsInvariance, PTL

-----------------------------------------------------------------------------
(* How far bands mix.                                                      *)

\* What a consumer has taken of later bands is in its batch as long as it pops: it
\* had to look at its context before that batch.
Strays ==
  /\ strays \in [Consumers -> Nat]
  /\ \A g \in Consumers :
       /\ g[2] >= band => strays[g] = 0
       /\ strays[g] <= BatchSize
       /\ worker[g] = "pop" => strays[g] <= Len(batch[g])

\* A new band makes stragglers of consumers that have taken nothing yet of any later one.
LEMMA RunBandStrays == ASSUME IInv, Strays, RunBand PROVE Strays'
<1>1. UNCHANGED <<strays, batch>> /\ band \in Nat /\ band' \in Nat /\ band <= band'
  BY DEF RunBand, StartBand, BandEnds, ProducersDone, WorkersDone, GraceOver, workers, results, IInv, Types
<1>2. \A g \in Consumers : worker'[g] = "pop" => worker[g] = "pop"
  BY DEF RunBand, StartBand, BandEnds, ProducersDone, WorkersDone, GraceOver, workers
<1>3. \A g \in Consumers : g[2] \in Nat
  BY ConsumerBand, BandAssumption
<1>4. QED
  BY <1>1, <1>2, <1>3 DEF Strays

\* A straggler at the top of its loop leaves; one that pops counts each record where
\* it puts it, and stops at a full batch.
LEMMA ConsumeStrays == ASSUME IInv, RInv, Strays, NEW g \in Consumers, Consume(g) PROVE Strays'
<1>1. /\ BatchSize \in Nat /\ batch \in [Consumers -> Seq(Nat)] /\ ring \in Seq(Nat)
      /\ Len(batch[g]) \in Nat /\ band \in Nat /\ g[2] \in Nat
      /\ worker \in [Consumers -> {"unborn", "top", "pop", "insert", "gone"}]
  BY ConsumerBand, BandAssumption DEF RInv, RecordTypes, IInv, Types
<1>2. UNCHANGED band
  BY DEF Consume, ConsumerChecks, ConsumerPops, ConsumerFindsNothing, ConsumerStartsInsert,
         ConsumerInserts, control
<1>3. CASE ConsumerPops(g)
  <2>1. /\ worker[g] = "pop" /\ Len(batch[g]) < BatchSize /\ ring # <<>> /\ UNCHANGED worker
        /\ batch' = [batch EXCEPT ![g] = Append(@, Head(ring))]
        /\ strays' = IF g[2] < band THEN [strays EXCEPT ![g] = @ + 1] ELSE strays
    BY <1>3 DEF ConsumerPops, Ring!Take
  <2>2. Len(batch'[g]) = Len(batch[g]) + 1 /\ \A h \in Consumers : h # g => batch'[h] = batch[h]
    BY <1>1, <2>1
  <2>3. strays \in [Consumers -> Nat] /\ strays[g] \in Nat /\ strays[g] <= Len(batch[g])
    BY <2>1 DEF Strays
  <2>4. strays' \in [Consumers -> Nat] /\ \A h \in Consumers : h # g => strays'[h] = strays[h]
    BY <2>1, <2>3
  <2>5. strays'[g] = strays[g] \/ (g[2] < band /\ strays'[g] = strays[g] + 1)
    BY <2>1, <2>3
  <2>6. strays'[g] <= Len(batch'[g]) /\ strays'[g] <= BatchSize
    BY <1>1, <2>1, <2>2, <2>3, <2>5
  <2>7. g[2] >= band => strays'[g] = 0
    BY <1>1, <2>1, <2>3 DEF Strays
  <2>8. QED
    BY <1>2, <2>1, <2>2, <2>4, <2>6, <2>7 DEF Strays
<1>4. CASE ~ConsumerPops(g)
  <2>1. CASE ConsumerInserts(g)
    <3>1. UNCHANGED strays /\ batch' = [batch EXCEPT ![g] = <<>>] /\ worker' = [worker EXCEPT ![g] = "top"]
      BY <2>1 DEF ConsumerInserts, Goto
    <3>2. /\ worker'[g] = "top" /\ \A h \in Consumers : h # g => worker'[h] = worker[h]
          /\ \A h \in Consumers : h # g => batch'[h] = batch[h]
      BY <1>1, <3>1
    <3>3. QED
      BY <1>2, <3>1, <3>2 DEF Strays
  <2>2. CASE ConsumerChecks(g) \/ ConsumerFindsNothing(g) \/ ConsumerStartsInsert(g)
    <3>1. UNCHANGED <<strays, batch>>
      BY <2>2 DEF ConsumerChecks, ConsumerFindsNothing, ConsumerStartsInsert, results
    <3>2. PICK w \in {"top", "pop", "insert", "gone"} : worker' = [worker EXCEPT ![g] = w]
      BY <2>2 DEF ConsumerChecks, ConsumerFindsNothing, ConsumerStartsInsert, Goto
    <3>3. worker'[g] = w /\ \A h \in Consumers : h # g => worker'[h] = worker[h]
      BY <1>1, <3>2
    <3>4. w = "pop" => strays[g] = 0
      <4>1. worker'[g] = "pop" => ~Done(g)
        BY <1>1, <2>2 DEF ConsumerChecks, ConsumerFindsNothing, ConsumerStartsInsert, Goto
      <4>2. QED
        BY <1>1, <3>3, <4>1 DEF Done, Strays
    <3>5. QED
      BY <1>1, <1>2, <3>1, <3>3, <3>4 DEF Strays
  <2>3. QED
    BY <1>4, <2>1, <2>2 DEF Consume
<1>5. QED
  BY <1>3, <1>4

LEMMA StraysInvariance == Spec => []Strays
<1>1. Init => Strays
  BY BandAssumption DEF Init, Strays
<1>2. ASSUME IInv, RInv, Strays, [Next]_vars PROVE Strays'
  <2>1. ASSUME NEW p \in Producers, Produce(p) PROVE Strays'
    BY <2>1, <1>2 DEF Produce, ProducerChecks, ProducerPushes, ProducerGivesUp, control, workers, results, Strays
  <2>2. CASE UNCHANGED vars
    BY <2>2, <1>2 DEF vars, control, workers, results, Strays
  <2>3. QED
    BY <1>2, <2>1, <2>2, RunBandStrays, ConsumeStrays DEF Next
<1>3. QED
  BY <1>1, <1>2, Invariance, RecordsInvariance, PTL DEF Spec

\* Nothing is pushed into a buffer that is closed, and a consumer that outlives its
\* band takes at most one batch of the bands after it, although Reset opens the buffer
\* for them while it may be anywhere.
THEOREM BandsMixLittle == Spec => []BandsMixByABatch
<1>1. IInv /\ Strays => BandsMixByABatch
  BY DEF IInv, Strays, BandsMixByABatch, StragglersTakeOneBatch
<1>2. QED
  BY <1>1, Invariance, StraysInvariance, PTL

-----------------------------------------------------------------------------
(* Types: what bounds the buffer, the bands and the records that are       *)
(* pushed, besides what the invariants above say of them.                  *)

\* Push, the loop over the bands and the producers look before they go on.
Bounds ==
  /\ Len(ring) <= Capacity
  /\ {closed, ctxDone} \subseteq BOOLEAN
  /\ band <= Bands /\ pushed <= MaxRecords
  /\ inserted \cup failed \subseteq Nat

\* What has records has records that were pushed.
LEMMA PushedRecords ==
  ASSUME RInv, Bounds
  PROVE  /\ ring \in Seq(1 .. MaxRecords)
         /\ \A g \in Consumers : batch[g] \in Seq(1 .. MaxRecords)
         /\ inserted \cup failed \subseteq 1 .. pushed
<1>1. pushed \in Nat /\ MaxRecords \in Nat /\ 1 .. pushed \subseteq 1 .. MaxRecords
  BY BandAssumption DEF RInv, RecordTypes, Bounds
<1>2. /\ ring \in Seq(Nat) /\ \A g \in Consumers : batch[g] \in Seq(Nat)
  BY DEF RInv, RecordTypes
<1>3. \A i \in 1 .. Len(ring) : ring[i] \in 1 .. pushed
  <2>1. \A i \in 1 .. Len(ring) : ring[i] \in Nat /\ i \in DOMAIN ring
    BY <1>2
  <2>2. QED
    BY <2>1 DEF RInv, PlacedWerePushed, InRing
<1>4. \A g \in Consumers : \A i \in 1 .. Len(batch[g]) : batch[g][i] \in 1 .. pushed
  <2>1. \A g \in Consumers : \A i \in 1 .. Len(batch[g]) : batch[g][i] \in Nat /\ i \in DOMAIN batch[g]
    BY <1>2
  <2>2. QED
    BY <2>1 DEF RInv, PlacedWerePushed, InBatch
<1>5. ASSUME NEW s \in Seq(Nat), \A i \in 1 .. Len(s) : s[i] \in 1 .. pushed
      PROVE  s \in Seq(1 .. MaxRecords)
  <2>1. Len(s) \in Nat /\ s = [i \in 1 .. Len(s) |-> s[i]] /\ \A i \in 1 .. Len(s) : s[i] \in 1 .. MaxRecords
    BY <1>1, <1>5
  <2>2. s \in [1 .. Len(s) -> 1 .. MaxRecords]
    BY <2>1
  <2>3. Seq(1 .. MaxRecords) = UNION {[1 .. n -> 1 .. MaxRecords] : n \in Nat}
    BY SeqDef
  <2>4. QED
    BY <2>1, <2>2, <2>3, Zenon
<1>6. QED
  BY <1>2, <1>3, <1>4, <1>5 DEF RInv, PlacedWerePushed, Bounds

\* Every step keeps the bounds.
LEMMA BoundsNext == IInv /\ RInv /\ Bounds /\ [Next]_vars => Bounds'
<1> SUFFICES ASSUME IInv, RInv, Bounds, [Next]_vars PROVE Bounds'
  OBVIOUS
<1>1. /\ Capacity \in Nat /\ Bands \in Nat /\ MaxRecords \in Nat /\ band \in Nat /\ pushed \in Nat
      /\ ring \in Seq(Nat)
  BY BandAssumption DEF IInv, Types, RInv, RecordTypes
<1>2. CASE RunBand
  <2>1. /\ ring' \in {ring, <<>>} /\ {closed', ctxDone'} \subseteq BOOLEAN
        /\ band' = band \/ (band < Bands /\ band' = band + 1)
        /\ UNCHANGED <<pushed, inserted, failed>>
    BY <1>2 DEF RunBand, StartBand, Ring!Clear, BandEnds, ProducersDone, WorkersDone, GraceOver, Bounds, buffer,
       results
  <2>2. QED
    BY <1>1, <2>1 DEF Bounds
<1>3. ASSUME NEW p \in Producers, Produce(p) PROVE Bounds'
  <2>1. CASE ProducerPushes(p)
    <3>1. /\ pushed < MaxRecords /\ pushed' = pushed + 1 /\ UNCHANGED <<closed, ctxDone, band, inserted, failed>>
          /\ Len(ring) < Capacity /\ ring' = Append(ring, pushed + 1)
      BY <2>1 DEF ProducerPushes, Ring!Put, control, results
    <3>2. Len(ring') = Len(ring) + 1 /\ Len(ring) \in Nat
      BY <1>1, <3>1
    <3>3. QED
      BY <1>1, <3>1, <3>2 DEF Bounds
  <2>2. CASE ProducerChecks(p) \/ ProducerGivesUp(p)
    BY <2>2 DEF ProducerChecks, ProducerGivesUp, Bounds, buffer, control, results
  <2>3. QED
    BY <1>3, <2>1, <2>2 DEF Produce
<1>4. ASSUME NEW g \in Consumers, Consume(g) PROVE Bounds'
  <2>1. UNCHANGED <<closed, ctxDone, band, pushed>> /\ (ring' = ring \/ (ring # <<>> /\ ring' = Tail(ring)))
    BY <1>4 DEF Consume, ConsumerChecks, ConsumerPops, ConsumerFindsNothing, ConsumerStartsInsert, ConsumerInserts,
       Ring!Take, buffer, control
  <2>2. ring # <<>> => Len(Tail(ring)) = Len(ring) - 1 /\ Len(ring) \in Nat
    BY <1>1
  <2>3. (inserted \cup failed)' \subseteq Nat
    <3>1. batch[g] \in Seq(Nat)
      BY DEF RInv, RecordTypes
    <3>2. {batch[g][i] : i \in DOMAIN batch[g]} \subseteq Nat
      BY <3>1
    <3>3. (inserted \cup failed)' \subseteq (inserted \cup failed) \cup {batch[g][i] : i \in DOMAIN batch[g]}
      BY <1>4 DEF Consume, ConsumerChecks, ConsumerPops, ConsumerFindsNothing, ConsumerStartsInsert,
         ConsumerInserts, results
    <3>4. QED
      BY <3>2, <3>3 DEF Bounds
  <2>4. QED
    BY <1>1, <2>1, <2>2, <2>3 DEF Bounds
<1>5. CASE UNCHANGED vars
  BY <1>5 DEF vars, buffer, control, results, Bounds
<1>6. QED
  BY <1>2, <1>3, <1>4, <1>5 DEF Next

\* For any sizes: the buffer holds no more than its capacity, no batch more than BatchSize, and
\* whatever is in them, inserted or failed is a record that was pushed.
THEOREM BandsTyped == Spec => []TypeOK
<1>1. ASSUME IInv, RInv, Strays, Bounds PROVE TypeOK
  <2>1. band \in 0 .. Bands /\ pushed \in 0 .. MaxRecords /\ first \in 1 .. pushed + 1
    BY <1>1, BandAssumption DEF IInv, Types, RInv, RecordTypes, Bounds
  <2>2. \A g \in Consumers : Len(batch[g]) <= BatchSize
    BY <1>1 DEF RInv, RecordTypes
  <2>3. QED
    BY <1>1, <2>1, <2>2, PushedRecords DEF TypeOK, IInv, Types, Strays, Bounds
<1>2. ASSUME Init PROVE Bounds
  <2>1. /\ Len(ring) = 0 /\ closed = FALSE /\ ctxDone = FALSE /\ band = 0 /\ pushed = 0
        /\ inserted \cup failed = {}
    BY <1>2 DEF Init
  <2>2. {closed, ctxDone} \subseteq BOOLEAN
    BY <2>1, Zenon
  <2>3. Capacity \in Nat /\ Bands \in Nat /\ MaxRecords \in Nat
    BY BandAssumption
  <2>4. QED
    BY <2>1, <2>2, <2>3 DEF Bounds
<1>3. QED
  BY <1>1, <1>2, BoundsNext, Invariance, RecordsInvariance, StraysInvariance, PTL DEF Spec
=============================================================================
