-------------------------- MODULE ResilienceProofs --------------------------
(***************************************************************************)
(* Proofs about the resilience package: its breaker, for any number of     *)
(* callers and any limits, and its checkpoints, for any number of routines *)
(* and of files kept.                                                      *)
(***************************************************************************)
EXTENDS ResilienceBreaker, Checkpoint, FiniteSetTheorems, SequenceTheorems, WellFoundedInduction, TLAPS


\* What the steps keep.
IInv == TypeOK /\ ClosedHasFailuresLeft /\ HalfOpenAdmits /\ FailureRateIsARate

\* The breaker starts closed with nothing counted.
LEMMA InitIInv == Init => IInv
<1> SUFFICES ASSUME Init PROVE IInv
  OBVIOUS
<1>1. cooled \in BOOLEAN
  BY DEF Init
<1>2. failures \in Nat /\ requests \in Nat /\ successes \in Nat
  BY DEF Init
<1>3. QED
  BY <1>1, <1>2, ResilienceBreakerAssumption
  DEF Init, IInv, TypeOK, ClosedHasFailuresLeft, HalfOpenAdmits, FailureRateIsARate

\* Every step of a caller, of Reset and of time keeps IInv.
LEMMA StepIInv == IInv /\ [Next]_vars => IInv'
<1> SUFFICES ASSUME IInv, [Next]_vars PROVE IInv'
  OBVIOUS
<1> USE ResilienceBreakerAssumption
        DEF IInv, TypeOK, ClosedHasFailuresLeft, HalfOpenAdmits, FailureRateIsARate
<1>1. CASE Reset \/ CoolDown
  <2>1. cooled' \in BOOLEAN
    BY <1>1, Zenon DEF Reset, CoolDown
  <2>2. QED
    BY <1>1, <2>1 DEF Reset, CoolDown
<1>2. ASSUME NEW c \in Callers, AllowRequest(c) PROVE IInv'
  <2>1. cooled' \in BOOLEAN
    BY <1>2, Zenon DEF AllowRequest
  <2>2. QED
    BY <1>2, <2>1 DEF AllowRequest
<1>3. ASSUME NEW c \in Callers, OnRequestSuccess(c) PROVE IInv'
  <2>1. cooled' \in BOOLEAN
    BY <1>3, Zenon DEF OnRequestSuccess
  <2>2. QED
    BY <1>3, <2>1 DEF OnRequestSuccess
<1>4. ASSUME NEW c \in Callers, OnRequestFailure(c) PROVE IInv'
  <2>1. requests' = requests + 1 /\ failures' = failures + 1
        /\ UNCHANGED <<successes, halfOpenSucc>>
    BY <1>4 DEF OnRequestFailure
  <2>2. failures \in Nat /\ requests \in Nat /\ successes \in Nat
    OBVIOUS
  <2>3. pc' \in [Callers -> {"idle", "running"}]
    BY <1>4 DEF OnRequestFailure
  <2>4. state' \in {"closed", "open"} /\ cooled' \in BOOLEAN
        /\ (state' = "closed" => failures' < MaxFailures)
    <3>1. cooled' \in BOOLEAN
      BY <1>4, Zenon DEF OnRequestFailure
    <3>2. CASE state = "half-open" \/ (state = "closed" /\ failures' >= MaxFailures)
      BY <1>4, <3>1, <3>2 DEF OnRequestFailure
    <3>3. CASE ~(state = "half-open" \/ (state = "closed" /\ failures' >= MaxFailures))
      <4>1. state' = state
        BY <1>4, <3>3 DEF OnRequestFailure
      <4>2. failures' \in Nat
        BY <2>1, <2>2
      <4>3. QED
        BY <3>1, <3>3, <4>1, <4>2
    <3>4. QED
      BY <3>2, <3>3
  <2>5. halfOpenReqs' \in 0 .. HalfOpenMaxReqs
    BY <1>4 DEF OnRequestFailure
  <2>6. QED
    BY <2>1, <2>2, <2>3, <2>4, <2>5
<1>5. CASE UNCHANGED vars
  BY <1>5 DEF vars
<1>6. QED
  BY <1>1, <1>2, <1>3, <1>4, <1>5 DEF Next

\* Every reachable state satisfies the inductive invariant.
LEMMA Invariance == Spec => []IInv
<1>1. Init => IInv
  BY InitIInv
<1>2. IInv /\ [Next]_vars => IInv'
  BY StepIInv
<1>3. QED
  BY <1>1, <1>2, PTL DEF Spec

\* The counters stay in their ranges, whenever results come in.
THEOREM TypeCorrect == Spec => []TypeOK
  BY Invariance, PTL DEF IInv

\* A breaker never closes with its failures used up, although failures that
\* come late are counted while it is open.
\* And a half-open breaker never rejects every request: it is not stuck there.
THEOREM CountersFit == Spec => []CountersFitState
  BY Invariance, PTL DEF IInv, CountersFitState

\* FailureRate of GetStats is never above 1, whatever is reset when.
THEOREM FailureRateBounded == Spec => []FailureRateIsARate
  BY Invariance, PTL DEF IInv

\* The breaker changes state only as its state machine says: out of the open
\* state after the timeout or by Reset, out of the closed one after MaxFailures.
THEOREM StateMachine == Spec => ChangesOfState
<1> DEFINE A ==
      /\ state = "open" /\ state' # "open" => (cooled /\ state' = "half-open") \/ Reset
      /\ state = "closed" /\ state' # "closed" => state' = "open" /\ failures' >= MaxFailures
<1>1. [Next]_vars => [A]_vars
  <2> SUFFICES ASSUME [Next]_vars PROVE [A]_vars
    OBVIOUS
  <2>1. CASE Reset \/ CoolDown \/ UNCHANGED vars
    BY <2>1 DEF CoolDown, Reset
  <2>2. ASSUME NEW c \in Callers, AllowRequest(c) \/ OnRequestSuccess(c) \/ OnRequestFailure(c)
        PROVE  A
    BY <2>2 DEF AllowRequest, OnRequestSuccess, OnRequestFailure
  <2>3. QED
    BY <2>1, <2>2 DEF Next
<1>2. QED
  BY <1>1, PTL DEF Spec, ChangesOfState

-----------------------------------------------------------------------------
(* Checkpoints. *)

\* The order of the natural numbers, as a set of pairs.
Below == {ss \in Nat \X Nat : ss[1] < ss[2]}

LEMMA BelowWF == IsWellFoundedOn(Below, Nat)
  BY NatLessThanWellFounded DEF OpToRel, Below

\* A set of natural numbers with a member has a least one.
LEMMA LeastNat ==
  ASSUME NEW T \in SUBSET Nat, T # {}
  PROVE  \E n \in T : \A m \in T : n <= m
<1>1. PICK n \in T : \A m \in T : ~(<<m, n>> \in Below)
  BY BelowWF, WFMin
<1>2. ASSUME NEW m \in T PROVE n <= m
  <2>1. <<m, n>> \in Nat \X Nat /\ ~(<<m, n>> \in Below)
    BY <1>1
  <2>2. ~(m < n)
    BY <2>1 DEF Below
  <2>3. QED
    BY <2>2
<1>3. QED
  BY <1>2

\* Every Timestamp is one that was given.
StampsGiven ==
  /\ current.stamp <= stamps
  /\ \A s \in Savers : ck[s].stamp <= stamps
  /\ \A c \in Listed : c.stamp <= stamps

\* Nobody else has the Timestamp a saver is about to write.
Saving == {s \in Savers : saving[s] \in {"made", "stamped", "created"}}
StampsDiffer ==
  /\ \A s \in Saving, c \in Listed : c.stamp # ck[s].stamp
  /\ \A s, t \in Saving : ck[s].stamp = ck[t].stamp => s = t

\* What the tracker has written is on the disk until its own cleanup, which leaves it or
\* enough files that are newer.
TrackerSaves ==
  /\ saving["tracker"] # "read"
  /\ saving["tracker"] = "written" => ck["tracker"] \in Listed
  /\ saving["tracker"] = "removing" => Kept(ck["tracker"])
  /\ saving["tracker"] # "removing" => doomed = {}

\* Enough newer files than a doomed one are not doomed: the files a crash in the cleanup
\* leaves, and those it leaves when it is done.
DoomedAreOld ==
  \A c \in doomed : Cardinality({d \in Listed \ doomed : d.stamp > c.stamp}) >= MaxFiles

CheckpointInv ==
  /\ CheckpointTypeOK /\ IsFiniteSet(Listed)
  /\ StampsGiven /\ StampsDiffer /\ TrackerSaves /\ DoomedAreOld /\ AckedIsKept

\* Where a saver can be.
Places == {"idle", "read", "made", "stamped", "created", "written", "removing", "gone"}

\* The files, and the members of a sequence.
Saved == [ck : Checkpoints, complete : BOOLEAN]
Entries(s) == {s[i] : i \in 1 .. Len(s)}

\* Min chooses a member.
LEMMA LeastIndex ==
  ASSUME NEW I \in SUBSET Nat, I # {}
  PROVE  Min(I) \in I
<1>1. \E n \in I : \A m \in I : n <= m
  BY LeastNat
<1>2. QED
  BY <1>1 DEF Min

\* RemoveAt takes out one place of a sequence.
LEMMA RemovedAt ==
  ASSUME NEW S, NEW s \in Seq(S), NEW i \in 1 .. Len(s)
  PROVE  /\ RemoveAt(s, i) \in Seq(S)
         /\ \A e : e \in Entries(RemoveAt(s, i)) <=> \E k \in 1 .. Len(s) : k # i /\ s[k] = e
<1> DEFINE u == SubSeq(s, 1, i - 1)
           v == SubSeq(s, i + 1, Len(s))
           t == u \o v
<1>1. Len(s) \in Nat /\ i \in Nat /\ i >= 1 /\ i <= Len(s)
  BY LenProperties
<1>2. /\ u \in Seq(S) /\ Len(u) = i - 1 /\ \A k \in 1 .. i - 1 : u[k] = s[k]
  <2>1. \A k \in 1 .. i - 1 : s[k] \in S
    BY <1>1, ElementOfSeq
  <2>2. QED
    BY <1>1, <2>1
<1>3. /\ v \in Seq(S) /\ Len(v) = Len(s) - i /\ \A k \in 1 .. Len(s) - i : v[k] = s[k + i]
  <2>1. \A k \in i + 1 .. Len(s) : s[k] \in S
    BY <1>1, ElementOfSeq
  <2>2. QED
    BY <1>1, <2>1
<1> HIDE DEF u, v
<1>4. /\ t \in Seq(S) /\ Len(t) = Len(s) - 1
      /\ \A k \in 1 .. i - 1 : t[k] = s[k]
      /\ \A k \in i .. Len(s) - 1 : t[k] = s[k + 1]
  BY <1>1, <1>2, <1>3
<1> HIDE DEF t
<1>5. ASSUME NEW e PROVE e \in Entries(t) <=> \E k \in 1 .. Len(s) : k # i /\ s[k] = e
  <2>1. ASSUME e \in Entries(t) PROVE \E k \in 1 .. Len(s) : k # i /\ s[k] = e
    <3>1. PICK k \in 1 .. Len(t) : t[k] = e
      BY <2>1 DEF Entries
    <3>2. CASE k < i
      BY <1>1, <1>4, <3>1, <3>2
    <3>3. CASE k >= i
      <4>1. k + 1 \in 1 .. Len(s) /\ k + 1 # i /\ s[k + 1] = e
        BY <1>1, <1>4, <3>1, <3>3
      <4>2. QED
        BY <4>1
    <3>4. QED
      BY <1>1, <3>2, <3>3
  <2>2. ASSUME NEW k \in 1 .. Len(s), k # i, s[k] = e PROVE e \in Entries(t)
    <3>1. CASE k < i
      <4>1. k \in 1 .. Len(t) /\ t[k] = e
        BY <1>1, <1>4, <2>2, <3>1
      <4>2. QED
        BY <4>1 DEF Entries
    <3>2. CASE k > i
      <4>1. k - 1 \in 1 .. Len(t) /\ t[k - 1] = e
        <5>1. k - 1 \in i .. Len(s) - 1 /\ (k - 1) + 1 = k
          BY <1>1, <2>2, <3>2
        <5>2. QED
          BY <1>1, <1>4, <2>2, <5>1
      <4>2. QED
        BY <4>1 DEF Entries
    <3>3. QED
      BY <1>1, <2>2, <3>1, <3>2
  <2>3. QED
    BY <2>1, <2>2
<1>6. RemoveAt(s, i) = t
  BY DEF RemoveAt, t, u, v
<1>7. QED
  BY <1>4, <1>5, <1>6

\* What os.Create leaves of the files.
LEMMA OthersStay ==
  ASSUME files \in Seq(Saved), NEW s
  PROVE  /\ Others(s) \in Seq(Saved)
         /\ Entries(Others(s)) \subseteq Entries(files)
         /\ \A f \in Entries(files) : f.ck.stamp # ck[s].stamp => f \in Entries(Others(s))
<1> DEFINE I == {i \in 1 .. Len(files) : files[i].ck.stamp = ck[s].stamp}
<1>1. Others(s) = IF \E i \in 1 .. Len(files) : files[i].ck.stamp = ck[s].stamp
                  THEN RemoveAt(files, IF I # {} THEN Min(I) ELSE 0) ELSE files
  BY DEF Others, RemoveFirstMatch, SelectInSeq
<1>2. CASE I = {}
  BY <1>1, <1>2
<1>3. CASE I # {}
  <2>1. Min(I) \in I
    <3>1. I \in SUBSET Nat
      OBVIOUS
    <3>2. QED
      BY <1>3, <3>1, LeastIndex
  <2>2. PICK i \in I : i = Min(I)
    BY <2>1
  <2>3. Others(s) = RemoveAt(files, i) /\ i \in 1 .. Len(files) /\ files[i].ck.stamp = ck[s].stamp
    BY <1>1, <1>3, <2>2
  <2>4. /\ RemoveAt(files, i) \in Seq(Saved)
        /\ \A e : e \in Entries(RemoveAt(files, i)) <=> \E k \in 1 .. Len(files) : k # i /\ files[k] = e
    BY <2>3, RemovedAt
  <2>5. Entries(Others(s)) \subseteq Entries(files)
    BY <2>3, <2>4 DEF Entries
  <2>6. ASSUME NEW f \in Entries(files), f.ck.stamp # ck[s].stamp PROVE f \in Entries(Others(s))
    <3>1. PICK k \in 1 .. Len(files) : files[k] = f
      BY DEF Entries
    <3>2. k # i
      BY <2>3, <2>6, <3>1
    <3>3. QED
      BY <2>3, <2>4, <3>1, <3>2
  <2>7. QED
    BY <2>3, <2>4, <2>5, <2>6
<1>4. QED
  BY <1>2, <1>3

\* RemoveOld's files: os.Remove of the file of one checkpoint.
Without(c) == RemoveFirstMatch(files, LAMBDA f : f.ck = c)

\* What os.Remove leaves of the files.
LEMMA RemovedStays ==
  ASSUME files \in Seq(Saved), NEW c
  PROVE  /\ Without(c) \in Seq(Saved)
         /\ Entries(Without(c)) \subseteq Entries(files)
         /\ \A f \in Entries(files) : f.ck # c => f \in Entries(Without(c))
<1> DEFINE I == {i \in 1 .. Len(files) : files[i].ck = c}
<1>1. Without(c) = IF \E i \in 1 .. Len(files) : files[i].ck = c
               THEN RemoveAt(files, IF I # {} THEN Min(I) ELSE 0) ELSE files
  BY DEF Without, RemoveFirstMatch, SelectInSeq
<1>2. CASE I = {}
  BY <1>1, <1>2
<1>3. CASE I # {}
  <2>1. Min(I) \in I
    <3>1. I \in SUBSET Nat
      OBVIOUS
    <3>2. QED
      BY <1>3, <3>1, LeastIndex
  <2>2. PICK i \in I : i = Min(I)
    BY <2>1
  <2>3. Without(c) = RemoveAt(files, i) /\ i \in 1 .. Len(files) /\ files[i].ck = c
    BY <1>1, <1>3, <2>2
  <2>4. /\ RemoveAt(files, i) \in Seq(Saved)
        /\ \A e : e \in Entries(RemoveAt(files, i)) <=> \E k \in 1 .. Len(files) : k # i /\ files[k] = e
    BY <2>3, RemovedAt
  <2>5. Entries(Without(c)) \subseteq Entries(files)
    BY <2>3, <2>4 DEF Entries
  <2>6. ASSUME NEW f \in Entries(files), f.ck # c PROVE f \in Entries(Without(c))
    <3>1. PICK k \in 1 .. Len(files) : files[k] = f
      BY DEF Entries
    <3>2. k # i
      BY <2>3, <2>6, <3>1
    <3>3. QED
      BY <2>3, <2>4, <3>1, <3>2
  <2>7. QED
    BY <2>3, <2>4, <2>5, <2>6
<1>4. QED
  BY <1>2, <1>3

\* ListCheckpoints, from the members of the sequence.
LEMMA ListedEntries ==
  ASSUME files \in Seq(Saved)
  PROVE  Listed = {f.ck : f \in {e \in Entries(files) : e.complete}}
<1>1. DOMAIN files = 1 .. Len(files)
  OBVIOUS
<1>2. QED
  BY <1>1 DEF Listed, Entries

\* The members after an Append.
LEMMA AppendedEntries ==
  ASSUME NEW S, NEW s \in Seq(S), NEW x \in S
  PROVE  Append(s, x) \in Seq(S) /\ Entries(Append(s, x)) = Entries(s) \cup {x}
<1> DEFINE t == Append(s, x)
<1>1. /\ t \in Seq(S) /\ Len(t) = Len(s) + 1 /\ Len(s) \in Nat
      /\ \A i \in 1 .. Len(s) : t[i] = s[i]
      /\ t[Len(s) + 1] = x
  OBVIOUS
<1> HIDE DEF t
<1>2. 1 .. Len(t) = 1 .. Len(s) \cup {Len(s) + 1}
  BY <1>1
<1>3. Entries(t) = Entries(s) \cup {x}
  BY <1>1, <1>2 DEF Entries
<1>4. QED
  BY <1>1, <1>3 DEF t

\* The checkpoints that can be read after os.Create and after a write.
LEMMA CreatedListed ==
  ASSUME files \in Seq(Saved), NEW s, ck[s] \in Checkpoints,
         \A c \in Listed : c.stamp # ck[s].stamp,
         NEW whole \in BOOLEAN, files' = Append(Others(s), File(ck[s], whole))
  PROVE  files' \in Seq(Saved) /\ Listed' = Listed \cup (IF whole THEN {ck[s]} ELSE {})
<1> DEFINE new == File(ck[s], whole)
<1>1. new \in Saved /\ new.ck = ck[s] /\ new.complete = whole
  BY DEF Saved, File
<1>2. /\ Others(s) \in Seq(Saved) /\ Entries(Others(s)) \subseteq Entries(files)
      /\ \A f \in Entries(files) : f.ck.stamp # ck[s].stamp => f \in Entries(Others(s))
  BY OthersStay
<1> HIDE DEF new
<1>3. files' \in Seq(Saved) /\ Entries(files') = Entries(Others(s)) \cup {new}
  BY <1>1, <1>2, AppendedEntries DEF new
<1>4. /\ Listed = {f.ck : f \in {e \in Entries(files) : e.complete}}
      /\ Listed' = {f.ck : f \in {e \in Entries(files') : e.complete}}
  <2>1. Listed' = {files'[i].ck : i \in {i \in DOMAIN files' : files'[i].complete}}
    BY DEF Listed
  <2>2. DOMAIN files' = 1 .. Len(files')
    BY <1>3
  <2>3. Listed' = {f.ck : f \in {e \in Entries(files') : e.complete}}
    BY <2>1, <2>2 DEF Entries
  <2>4. QED
    BY <2>3, ListedEntries
<1>5. \A f \in Entries(files) : f.complete => f.ck.stamp # ck[s].stamp
  BY <1>4
<1>6. ASSUME NEW c PROVE c \in Listed' <=> c \in Listed \/ (whole /\ c = ck[s])
  BY <1>1, <1>2, <1>3, <1>4, <1>5
<1>7. QED
  BY <1>3, <1>6

\* The checkpoints that can be read after os.Remove.
LEMMA RemovedListed ==
  ASSUME files \in Seq(Saved), NEW c,
         files' = Without(c)
  PROVE  files' \in Seq(Saved) /\ Listed' \subseteq Listed /\ Listed \ {c} \subseteq Listed'
<1>1. /\ files' \in Seq(Saved) /\ Entries(files') \subseteq Entries(files)
      /\ \A f \in Entries(files) : f.ck # c => f \in Entries(files')
  BY RemovedStays
<1>2. /\ Listed = {f.ck : f \in {e \in Entries(files) : e.complete}}
      /\ Listed' = {f.ck : f \in {e \in Entries(files') : e.complete}}
  <2>1. Listed' = {files'[i].ck : i \in {i \in DOMAIN files' : files'[i].complete}}
    BY DEF Listed
  <2>2. DOMAIN files' = 1 .. Len(files')
    BY <1>1
  <2>3. Listed' = {f.ck : f \in {e \in Entries(files') : e.complete}}
    BY <2>1, <2>2 DEF Entries
  <2>4. QED
    BY <2>3, ListedEntries
<1>3. QED
  BY <1>1, <1>2

\* Types of what is on the disk.
LEMMA ListedTyped ==
  ASSUME files \in Seq(Saved)
  PROVE  Listed \subseteq Checkpoints
<1>1. \A i \in DOMAIN files : files[i] \in Saved
  BY ElementOfSeq
<1>2. QED
  BY <1>1 DEF Listed, Saved

\* The Timestamps of a checkpoint are bounded numbers.
LEMMA CheckpointTyped ==
  ASSUME NEW c \in Checkpoints
  PROVE  c.stamp \in Nat /\ c.stamp <= MaxStamps
  BY CheckpointAssumption DEF Checkpoints

\* Steps that touch no file.
LEMMA SameFiles ==
  ASSUME UNCHANGED files
  PROVE  Listed' = Listed
  BY DEF Listed

\* As many files as are to be kept, and more.
LEMMA EnoughAreMore ==
  ASSUME NEW T, IsFiniteSet(T), NEW S \in SUBSET T, Cardinality(S) >= MaxFiles
  PROVE  Cardinality(T) >= MaxFiles
<1>1. IsFiniteSet(S) /\ Cardinality(S) <= Cardinality(T)
  BY FS_Subset
<1>2. Cardinality(S) \in Nat /\ Cardinality(T) \in Nat
  BY <1>1, FS_CardinalityType
<1>3. QED
  BY <1>1, <1>2, CheckpointAssumption

\* More files take the place of none.
LEMMA MoreAreKept ==
  ASSUME IsFiniteSet(Listed'), Listed \subseteq Listed'
  PROVE  \A c : Kept(c) => Kept(c)'
<1> SUFFICES ASSUME NEW c, Kept(c) PROVE Kept(c)'
  OBVIOUS
<1>1. CASE c \in Listed
  BY <1>1 DEF Kept
<1>2. CASE Cardinality({d \in Listed : d.stamp > c.stamp}) >= MaxFiles
  <2>1. IsFiniteSet({d \in Listed' : d.stamp > c.stamp})
    <3>1. {d \in Listed' : d.stamp > c.stamp} \in SUBSET Listed'
      OBVIOUS
    <3>2. QED
      BY <3>1, FS_Subset
  <2>2. {d \in Listed : d.stamp > c.stamp} \in SUBSET {d \in Listed' : d.stamp > c.stamp}
    OBVIOUS
  <2>3. Cardinality({d \in Listed' : d.stamp > c.stamp}) >= MaxFiles
    BY <1>2, <2>1, <2>2, EnoughAreMore
  <2>4. QED
    BY <2>3 DEF Kept
<1>3. QED
  BY <1>1, <1>2 DEF Kept

\* Steps that lose no file that is not doomed, and doom none.
LEMMA DoomedStayOld ==
  ASSUME DoomedAreOld, IsFiniteSet(Listed'), Listed \ doomed \subseteq Listed' \ doomed', doomed' \subseteq doomed
  PROVE  DoomedAreOld'
<1> SUFFICES ASSUME NEW c \in doomed'
             PROVE  Cardinality({d \in Listed' \ doomed' : d.stamp > c.stamp}) >= MaxFiles
  BY DEF DoomedAreOld
<1>1. Cardinality({d \in Listed \ doomed : d.stamp > c.stamp}) >= MaxFiles
  BY DEF DoomedAreOld
<1>2. IsFiniteSet({d \in Listed' \ doomed' : d.stamp > c.stamp})
  <2>1. {d \in Listed' \ doomed' : d.stamp > c.stamp} \in SUBSET Listed'
    OBVIOUS
  <2>2. QED
    BY <2>1, FS_Subset
<1>3. {d \in Listed \ doomed : d.stamp > c.stamp} \in SUBSET {d \in Listed' \ doomed' : d.stamp > c.stamp}
  OBVIOUS
<1>4. QED
  BY <1>1, <1>2, <1>3, EnoughAreMore

\* At the start nothing is saved.
LEMMA InitCheckpointInv == CheckpointInit => CheckpointInv
<1> SUFFICES ASSUME CheckpointInit PROVE CheckpointInv
  OBVIOUS
<1>1. None \in Checkpoints /\ None.stamp = 0
  BY CheckpointAssumption DEF None, Checkpoints
<1>2. /\ status = "running" /\ bands = 0 /\ current = None /\ files = <<>> /\ faults = 0 /\ stamps = 0
      /\ saving = [s \in Savers |-> "idle"] /\ ck = [s \in Savers |-> None]
      /\ doomed = {} /\ acked = None /\ restored = "not called"
  BY DEF CheckpointInit
<1>a. files = <<>>
  BY <1>2
<1>b. bands = 0 /\ stamps = 0 /\ faults = 0 /\ current = None
  BY <1>2
<1>3. /\ saving \in [Savers -> Places] /\ ck \in [Savers -> Checkpoints]
      /\ \A s \in Savers : saving[s] = "idle" /\ ck[s] = None
      /\ "tracker" \in Savers
  BY <1>1, <1>2 DEF Savers, Places
<1>4. CheckpointTypeOK
  <2>1. files \in Seq([ck : Checkpoints, complete : BOOLEAN])
    BY <1>a
  <2>2. {current, acked} \cup doomed \subseteq Checkpoints
    BY <1>1, <1>2
  <2>3. bands \in 0 .. TotalBands /\ stamps \in 0 .. MaxStamps /\ faults \in 0 .. MaxFaults
    BY <1>b, CheckpointAssumption
  <2>4. status \in {"running", "failed", "completed"} /\ restored \in {"not called", "done", "failed"}
    BY <1>2
  <2>5. QED
    BY <1>3, <2>1, <2>2, <2>3, <2>4 DEF CheckpointTypeOK, Places
<1>5. Listed = {}
  <2>1. DOMAIN files = {}
    BY <1>a
  <2>2. QED
    BY <2>1 DEF Listed
<1>6. IsFiniteSet(Listed) /\ Saving = {}
  BY <1>3, <1>5, FS_EmptySet DEF Saving
<1>7. StampsGiven
  BY <1>1, <1>b, <1>3, <1>5 DEF StampsGiven
<1>8. StampsDiffer
  BY <1>6 DEF StampsDiffer
<1>9. TrackerSaves /\ DoomedAreOld /\ AckedIsKept
  BY <1>2, <1>3 DEF TrackerSaves, DoomedAreOld, AckedIsKept
<1>10. QED
  BY <1>4, <1>6, <1>7, <1>8, <1>9 DEF CheckpointInv

\* What the invariant says of the types.
LEMMA InvTypes ==
  ASSUME CheckpointInv
  PROVE  /\ files \in Seq(Saved) /\ IsFiniteSet(Listed) /\ Listed \subseteq Checkpoints
         /\ saving \in [Savers -> Places]
         /\ ck \in [Savers -> Checkpoints]
         /\ current \in Checkpoints /\ acked \in Checkpoints /\ doomed \subseteq Checkpoints
         /\ stamps \in Nat /\ MaxStamps \in Nat /\ stamps <= MaxStamps
         /\ "tracker" \in Savers /\ Routines = Savers \ {"tracker"}
<1>1. files \in Seq(Saved)
  BY DEF CheckpointInv, CheckpointTypeOK, Saved
<1>2. Listed \subseteq Checkpoints
  BY <1>1, ListedTyped
<1>3. /\ IsFiniteSet(Listed) /\ saving \in [Savers -> Places]
      /\ ck \in [Savers -> Checkpoints]
      /\ {current, acked} \cup doomed \subseteq Checkpoints /\ stamps \in 0 .. MaxStamps
  BY DEF CheckpointInv, CheckpointTypeOK, Places
<1>4. MaxStamps \in Nat /\ "tracker" \in Savers /\ Routines = Savers \ {"tracker"}
  BY CheckpointAssumption DEF Savers
<1>5. QED
  BY <1>1, <1>2, <1>3, <1>4

\* What the savers have is given a Timestamp before now.
LEMMA StampsBefore ==
  ASSUME CheckpointInv
  PROVE  /\ \A c \in Listed : c.stamp \in Nat /\ c.stamp <= stamps
         /\ \A s \in Savers : ck[s].stamp \in Nat /\ ck[s].stamp <= stamps
         /\ current.stamp \in Nat /\ current.stamp <= stamps
<1>1. \A s \in Savers : ck[s] \in Checkpoints
  BY InvTypes
<1>2. QED
  BY <1>1, InvTypes, CheckpointTyped DEF CheckpointInv, StampsGiven

\* A saver takes a new Timestamp, that no other checkpoint has.
LEMMA NewStamp ==
  ASSUME CheckpointInv, NEW r \in Savers, NEW new \in Checkpoints, NEW place \in {"made", "stamped"},
         stamps < MaxStamps, stamps' = stamps + 1, new.stamp = stamps + 1,
         saving' = [saving EXCEPT ![r] = place], ck' = [ck EXCEPT ![r] = new],
         status' \in {"running", "failed", "completed"}, bands' \in 0 .. TotalBands,
         UNCHANGED <<current, files, faults, doomed, acked, restored>>
  PROVE  CheckpointTypeOK' /\ Listed' = Listed /\ StampsGiven' /\ StampsDiffer'
<1>1. /\ \A s \in Savers : saving'[s] = IF s = r THEN place ELSE saving[s]
      /\ \A s \in Savers : ck'[s] = IF s = r THEN new ELSE ck[s]
  BY InvTypes
<1>2. Listed' = Listed
  BY SameFiles
<1>3. CheckpointTypeOK'
  <2>1. saving' \in [Savers -> Places]
    <3>1. place \in Places
      BY DEF Places
    <3>2. QED
      BY <3>1, InvTypes
  <2>2. ck' \in [Savers -> Checkpoints]
    BY InvTypes
  <2>3. stamps' \in 0 .. MaxStamps
    BY InvTypes
  <2>4. QED
    BY <2>1, <2>2, <2>3 DEF CheckpointInv, CheckpointTypeOK, Places
<1>4. StampsGiven'
  <2>1. current'.stamp <= stamps'
    BY StampsBefore, InvTypes
  <2>2. ASSUME NEW s \in Savers PROVE ck'[s].stamp <= stamps'
    <3>1. CASE s = r
      BY <1>1, <3>1, InvTypes
    <3>2. CASE s # r
      BY <1>1, <3>2, StampsBefore, InvTypes
    <3>3. QED
      BY <3>1, <3>2
  <2>3. \A c \in Listed : c.stamp <= stamps'
    BY StampsBefore, InvTypes
  <2>4. QED
    BY <1>2, <2>1, <2>2, <2>3 DEF StampsGiven
<1>5. StampsDiffer'
  <2>1. \A s \in Saving' : s \in Savers /\ (s = r \/ (s \in Saving /\ ck'[s] = ck[s]))
    BY <1>1 DEF Saving
  <2>2. /\ \A s \in Saving, c \in Listed : c.stamp # ck[s].stamp
        /\ \A s, t \in Saving : ck[s].stamp = ck[t].stamp => s = t
    BY DEF CheckpointInv, StampsDiffer
  <2>3. ck'[r].stamp = stamps + 1
    BY <1>1
  <2>4. \A s \in Saving' : s # r => ck'[s].stamp # stamps + 1
    <3>1. ASSUME NEW s \in Saving', s # r PROVE ck'[s].stamp # stamps + 1
      <4>1. ck'[s] = ck[s] /\ s \in Savers
        BY <2>1, <3>1
      <4>2. QED
        BY <4>1, StampsBefore, InvTypes
    <3>2. QED
      BY <3>1
  <2>5. \A c \in Listed : c.stamp # stamps + 1
    BY StampsBefore, InvTypes
  <2>6. \A s \in Saving', c \in Listed : c.stamp # ck'[s].stamp
    BY <2>1, <2>2, <2>3, <2>5
  <2>7. \A s, t \in Saving' : ck'[s].stamp = ck'[t].stamp => s = t
    BY <2>1, <2>2, <2>3, <2>4
  <2>8. QED
    BY <1>2, <2>6, <2>7 DEF StampsDiffer
<1>6. QED
  BY <1>2, <1>3, <1>4, <1>5

\* Steps that leave the files, what is doomed and what is acknowledged as they are.
LEMMA SameOnDisk ==
  ASSUME CheckpointInv, UNCHANGED <<files, doomed, acked>>
  PROVE  IsFiniteSet(Listed)' /\ DoomedAreOld' /\ AckedIsKept'
<1>1. Listed' = Listed
  BY SameFiles
<1>2. QED
  BY <1>1 DEF CheckpointInv, DoomedAreOld, AckedIsKept, Kept

\* The tracker has a checkpoint with a new Timestamp, which is not the current one yet.
LEMMA CreateCheckpointStep ==
  ASSUME CheckpointInv, NEW newStatus \in {"running", "failed", "completed"}, NEW newBands \in 0 .. TotalBands,
         CreateCheckpoint(newStatus, newBands)
  PROVE  CheckpointInv'
<1> DEFINE new == [stamp |-> stamps + 1, status |-> newStatus, bands |-> newBands]
<1>1. /\ stamps < MaxStamps /\ stamps' = stamps + 1
      /\ saving["tracker"] = "idle" /\ saving' = [saving EXCEPT !["tracker"] = "made"]
      /\ status' = newStatus /\ bands' = newBands
      /\ ck' = [ck EXCEPT !["tracker"] = new]
      /\ UNCHANGED <<current, files, faults, doomed, acked, restored>>
  BY DEF CreateCheckpoint, Goto, disk
<1>2. new \in Checkpoints /\ new.stamp = stamps + 1
  BY <1>1, InvTypes DEF Checkpoints
<1> HIDE DEF new
<1>3. CheckpointTypeOK' /\ Listed' = Listed /\ StampsGiven' /\ StampsDiffer'
  BY <1>1, <1>2, InvTypes, NewStamp
<1>4. saving'["tracker"] = "made" /\ doomed = {}
  BY <1>1, InvTypes DEF CheckpointInv, TrackerSaves
<1>5. TrackerSaves'
  BY <1>1, <1>4 DEF TrackerSaves
<1>6. QED
  BY <1>1, <1>3, <1>5, SameOnDisk DEF CheckpointInv

\* It becomes the current one.
LEMMA SetCurrentStep ==
  ASSUME CheckpointInv, SetCurrent
  PROVE  CheckpointInv'
<1>1. /\ saving["tracker"] = "made" /\ saving' = [saving EXCEPT !["tracker"] = "stamped"]
      /\ current' = ck["tracker"]
      /\ UNCHANGED <<status, bands, files, faults, stamps, ck, doomed, acked, restored>>
  BY DEF SetCurrent, Goto, tracker, disk
<1>2. /\ \A s \in Savers : saving'[s] = IF s = "tracker" THEN "stamped" ELSE saving[s]
      /\ current' \in Checkpoints /\ saving'["tracker"] = "stamped"
  BY <1>1, InvTypes
<1>3. Listed' = Listed
  BY <1>1, SameFiles
<1>4. CheckpointTypeOK'
  <2>1. saving' \in [Savers -> Places]
    BY <1>1, InvTypes DEF Places
  <2>2. QED
    BY <1>1, <1>2, <2>1 DEF CheckpointInv, CheckpointTypeOK, Places
<1>5. StampsGiven'
  BY <1>1, <1>3, InvTypes DEF CheckpointInv, StampsGiven
<1>6. Saving' = Saving
  BY <1>1, <1>2 DEF Saving
<1>7. StampsDiffer'
  BY <1>1, <1>3, <1>6 DEF CheckpointInv, StampsDiffer
<1>8. TrackerSaves'
  BY <1>1, <1>2 DEF CheckpointInv, TrackerSaves
<1>9. QED
  BY <1>1, <1>4, <1>5, <1>7, <1>8, SameOnDisk DEF CheckpointInv

\* A routine reads the current checkpoint.
LEMMA RoutineReadStep ==
  ASSUME CheckpointInv, NEW r \in Routines, RoutineRead(r)
  PROVE  CheckpointInv'
<1>1. /\ saving[r] = "idle" /\ saving' = [saving EXCEPT ![r] = "read"] /\ ck' = [ck EXCEPT ![r] = current]
      /\ UNCHANGED <<status, bands, current, files, faults, stamps, doomed, acked, restored>>
  BY DEF RoutineRead, Goto, tracker, disk
<1>2. r \in Savers /\ r # "tracker"
  BY CheckpointAssumption DEF Savers
<1>3. /\ \A s \in Savers : saving'[s] = IF s = r THEN "read" ELSE saving[s]
      /\ \A s \in Savers : ck'[s] = IF s = r THEN current ELSE ck[s]
      /\ saving'["tracker"] = saving["tracker"] /\ ck'["tracker"] = ck["tracker"]
  BY <1>1, <1>2, InvTypes
<1>4. Listed' = Listed
  BY <1>1, SameFiles
<1>5. CheckpointTypeOK'
  <2>1. saving' \in [Savers -> Places]
    BY <1>1, InvTypes DEF Places
  <2>2. ck' \in [Savers -> Checkpoints]
    BY <1>1, InvTypes
  <2>3. QED
    BY <1>1, <2>1, <2>2 DEF CheckpointInv, CheckpointTypeOK, Places
<1>6. StampsGiven'
  <2>1. \A s \in Savers : ck'[s].stamp <= stamps
    BY <1>3 DEF CheckpointInv, StampsGiven
  <2>2. QED
    BY <1>1, <1>4, <2>1 DEF CheckpointInv, StampsGiven
<1>7. StampsDiffer'
  <2>1. \A s \in Saving' : s \in Saving /\ ck'[s] = ck[s]
    BY <1>3 DEF Saving
  <2>2. QED
    BY <1>4, <2>1 DEF CheckpointInv, StampsDiffer
<1>8. TrackerSaves'
  <2>1. Kept(ck["tracker"]) => Kept(ck["tracker"])'
    BY <1>3, <1>4 DEF Kept
  <2>2. QED
    BY <1>1, <1>3, <1>4, <2>1 DEF CheckpointInv, TrackerSaves
<1>9. QED
  BY <1>1, <1>5, <1>6, <1>7, <1>8, SameOnDisk DEF CheckpointInv

\* Its copy gets a Timestamp no other checkpoint has.
LEMMA RoutineStampStep ==
  ASSUME CheckpointInv, NEW r \in Routines, RoutineStamp(r)
  PROVE  CheckpointInv'
<1>1. /\ stamps < MaxStamps /\ stamps' = stamps + 1
      /\ saving[r] = "read" /\ saving' = [saving EXCEPT ![r] = "stamped"]
      /\ ck' = [ck EXCEPT ![r].stamp = stamps + 1]
      /\ UNCHANGED <<status, bands, current, files, faults, doomed, acked, restored>>
  BY DEF RoutineStamp, Goto, tracker, disk
<1>2. r \in Savers /\ r # "tracker"
  BY CheckpointAssumption DEF Savers
<1>3. PICK copy \in Checkpoints : ck' = [ck EXCEPT ![r] = copy] /\ copy.stamp = stamps + 1
  <2>1. ck[r] \in Checkpoints
    BY <1>2, InvTypes
  <2>2. /\ [ck[r] EXCEPT !.stamp = stamps + 1] \in Checkpoints
        /\ [ck[r] EXCEPT !.stamp = stamps + 1].stamp = stamps + 1
    <3>1. stamps + 1 \in 0 .. MaxStamps
      BY <1>1, InvTypes
    <3>2. ASSUME NEW c \in Checkpoints, NEW n \in 0 .. MaxStamps
          PROVE  [c EXCEPT !.stamp = n] \in Checkpoints /\ [c EXCEPT !.stamp = n].stamp = n
      BY <3>2 DEF Checkpoints
    <3>3. QED
      BY <2>1, <3>1, <3>2
  <2>3. ck' = [ck EXCEPT ![r] = [ck[r] EXCEPT !.stamp = stamps + 1]]
    BY <1>1
  <2>4. QED
    BY <2>2, <2>3
<1>4. CheckpointTypeOK' /\ Listed' = Listed /\ StampsGiven' /\ StampsDiffer'
  <2>1. status' \in {"running", "failed", "completed"} /\ bands' \in 0 .. TotalBands
    BY <1>1 DEF CheckpointInv, CheckpointTypeOK
  <2>2. QED
    BY <1>1, <1>2, <1>3, <2>1, NewStamp
<1>5. saving'["tracker"] = saving["tracker"] /\ ck'["tracker"] = ck["tracker"]
  BY <1>1, <1>2, <1>3, InvTypes
<1>6. TrackerSaves'
  <2>1. Kept(ck["tracker"]) => Kept(ck["tracker"])'
    BY <1>4, <1>5 DEF Kept
  <2>2. QED
    BY <1>1, <1>4, <1>5, <2>1 DEF CheckpointInv, TrackerSaves
<1>7. QED
  BY <1>1, <1>4, <1>6, SameOnDisk DEF CheckpointInv

\* os.Create cuts off no file of another Timestamp.
LEMMA CreateFileStep ==
  ASSUME CheckpointInv, NEW s \in Savers, CreateFile(s)
  PROVE  CheckpointInv'
<1>1. /\ saving[s] = "stamped" /\ saving' = [saving EXCEPT ![s] = "created"]
      /\ files' = Append(Others(s), File(ck[s], FALSE))
      /\ UNCHANGED <<status, bands, current, stamps, faults, ck, doomed, acked, restored>>
  BY DEF CreateFile, Goto, tracker
<1>2. /\ \A t \in Savers : saving'[t] = IF t = s THEN "created" ELSE saving[t]
      /\ s \in Saving
  BY <1>1, InvTypes DEF Saving
<1>3. files' \in Seq(Saved) /\ Listed' = Listed
  <2>1. \A c \in Listed : c.stamp # ck[s].stamp
    BY <1>2 DEF CheckpointInv, StampsDiffer
  <2>2. files \in Seq(Saved) /\ ck[s] \in Checkpoints
    BY InvTypes
  <2>3. files' \in Seq(Saved) /\ Listed' = Listed \cup (IF FALSE THEN {ck[s]} ELSE {})
    BY <1>1, <2>1, <2>2, CreatedListed
  <2>4. QED
    BY <2>3
<1>4. CheckpointTypeOK'
  <2>1. saving' \in [Savers -> Places]
    BY <1>1, InvTypes DEF Places
  <2>2. QED
    BY <1>1, <1>3, <2>1 DEF CheckpointInv, CheckpointTypeOK, Saved, Places
<1>5. StampsGiven'
  BY <1>1, <1>3 DEF CheckpointInv, StampsGiven
<1>6. Saving' = Saving
  BY <1>1, <1>2 DEF Saving
<1>7. StampsDiffer'
  BY <1>1, <1>3, <1>6 DEF CheckpointInv, StampsDiffer
<1>8. TrackerSaves'
  <2>1. \/ saving'["tracker"] = saving["tracker"]
        \/ saving["tracker"] = "stamped" /\ saving'["tracker"] = "created"
    BY <1>1, <1>2, InvTypes
  <2>2. QED
    BY <1>1, <1>3, <2>1 DEF CheckpointInv, TrackerSaves, Kept
<1>9. IsFiniteSet(Listed') /\ DoomedAreOld' /\ AckedIsKept'
  BY <1>1, <1>3 DEF CheckpointInv, DoomedAreOld, AckedIsKept, Kept
<1>10. QED
  BY <1>4, <1>5, <1>7, <1>8, <1>9 DEF CheckpointInv

\* A failed save leaves an empty file and what was there.
LEMMA EncodeFailsStep ==
  ASSUME CheckpointInv, NEW s \in Savers, EncodeFails(s)
  PROVE  CheckpointInv'
<1>1. /\ saving[s] = "created" /\ saving' = [saving EXCEPT ![s] = "idle"]
      /\ faults < MaxFaults /\ faults' = faults + 1
      /\ UNCHANGED <<status, bands, current, files, stamps, ck, doomed, acked, restored>>
  BY DEF EncodeFails, Goto, tracker
<1>2. \A t \in Savers : saving'[t] = IF t = s THEN "idle" ELSE saving[t]
  BY <1>1, InvTypes
<1>3. Listed' = Listed
  BY <1>1, SameFiles
<1>4. CheckpointTypeOK'
  <2>1. saving' \in [Savers -> Places]
    BY <1>1, InvTypes DEF Places
  <2>2. faults' \in 0 .. MaxFaults
    <3>1. faults \in 0 .. MaxFaults /\ MaxFaults \in Nat
      BY CheckpointAssumption DEF CheckpointInv, CheckpointTypeOK
    <3>2. QED
      BY <1>1, <3>1
  <2>3. QED
    BY <1>1, <2>1, <2>2 DEF CheckpointInv, CheckpointTypeOK, Places
<1>5. StampsGiven'
  BY <1>1, <1>3 DEF CheckpointInv, StampsGiven
<1>6. Saving' \subseteq Saving
  BY <1>2 DEF Saving
<1>7. StampsDiffer'
  BY <1>1, <1>3, <1>6 DEF CheckpointInv, StampsDiffer
<1>8. TrackerSaves'
  <2>1. \/ saving'["tracker"] = saving["tracker"]
        \/ saving["tracker"] = "created" /\ saving'["tracker"] = "idle"
    BY <1>1, <1>2, InvTypes
  <2>2. QED
    BY <1>1, <1>3, <2>1 DEF CheckpointInv, TrackerSaves, Kept
<1>9. QED
  BY <1>1, <1>4, <1>5, <1>7, <1>8, SameOnDisk DEF CheckpointInv

\* What was on its way arrives, and takes the place of nothing.
LEMMA WriteFileStep ==
  ASSUME CheckpointInv, NEW s \in Savers, WriteFile(s)
  PROVE  CheckpointInv'
<1> DEFINE next == IF s = "tracker" THEN "written" ELSE "idle"
<1>1. /\ saving[s] = "created" /\ saving' = [saving EXCEPT ![s] = next]
      /\ files' = Append(Others(s), File(ck[s], TRUE))
      /\ UNCHANGED <<status, bands, current, stamps, faults, ck, doomed, acked, restored>>
  BY DEF WriteFile, Goto, tracker
<1>2. next \in {"written", "idle"} /\ (s # "tracker" => next = "idle") /\ (s = "tracker" => next = "written")
  OBVIOUS
<1> HIDE DEF next
<1>3. /\ \A t \in Savers : saving'[t] = IF t = s THEN next ELSE saving[t]
      /\ s \in Saving
  BY <1>1, InvTypes DEF Saving
<1>4. files' \in Seq(Saved) /\ Listed' = Listed \cup {ck[s]}
  <2>1. \A c \in Listed : c.stamp # ck[s].stamp
    BY <1>3 DEF CheckpointInv, StampsDiffer
  <2>2. files \in Seq(Saved) /\ ck[s] \in Checkpoints
    BY InvTypes
  <2>3. files' \in Seq(Saved) /\ Listed' = Listed \cup (IF TRUE THEN {ck[s]} ELSE {})
    BY <1>1, <2>1, <2>2, CreatedListed
  <2>4. QED
    BY <2>3
<1>5. CheckpointTypeOK'
  <2>1. saving' \in [Savers -> Places]
    BY <1>1, <1>2, InvTypes DEF Places
  <2>2. QED
    BY <1>1, <1>4, <2>1 DEF CheckpointInv, CheckpointTypeOK, Saved, Places
<1>6. IsFiniteSet(Listed')
  BY <1>4, InvTypes, FS_AddElement
<1>7. StampsGiven'
  BY <1>1, <1>4 DEF CheckpointInv, StampsGiven
<1>8. Saving' = Saving \ {s}
  BY <1>2, <1>3 DEF Saving
<1>9. StampsDiffer'
  <2>1. /\ \A t \in Saving, c \in Listed : c.stamp # ck[t].stamp
        /\ \A t, u \in Saving : ck[t].stamp = ck[u].stamp => t = u
    BY DEF CheckpointInv, StampsDiffer
  <2>2. \A t \in Saving', c \in Listed' : c.stamp # ck[t].stamp
    BY <1>3, <1>4, <1>8, <2>1
  <2>3. \A t, u \in Saving' : ck[t].stamp = ck[u].stamp => t = u
    BY <1>8, <2>1
  <2>4. QED
    BY <1>1, <2>2, <2>3 DEF StampsDiffer
<1>10. \A c : Kept(c) => Kept(c)'
  BY <1>4, <1>6, MoreAreKept
<1>11. TrackerSaves'
  <2>1. CASE s # "tracker"
    <3>1. saving'["tracker"] = saving["tracker"]
      BY <1>3, <2>1, InvTypes
    <3>2. Kept(ck["tracker"]) => Kept(ck["tracker"])'
      BY <1>1, <1>10 DEF Kept
    <3>3. QED
      BY <1>1, <1>4, <3>1, <3>2 DEF CheckpointInv, TrackerSaves
  <2>2. CASE s = "tracker"
    BY <1>1, <1>2, <1>3, <1>4, <2>2, InvTypes DEF CheckpointInv, TrackerSaves
  <2>3. QED
    BY <2>1, <2>2
<1>12. DoomedAreOld'
  <2>1. Listed \ doomed \subseteq Listed' \ doomed' /\ doomed' \subseteq doomed
    BY <1>1, <1>4
  <2>2. QED
    BY <1>6, <2>1, DoomedStayOld DEF CheckpointInv
<1>13. AckedIsKept'
  <2>1. Kept(acked) => Kept(acked)'
    BY <1>1, <1>10 DEF Kept
  <2>2. QED
    BY <1>1, <2>1 DEF CheckpointInv, AckedIsKept
<1>14. QED
  BY <1>5, <1>6, <1>7, <1>9, <1>11, <1>12, <1>13 DEF CheckpointInv

\* A set of checkpoints has a newest one.
LEMMA Newest ==
  ASSUME NEW C \in SUBSET Checkpoints, C # {}
  PROVE  \E g \in C : \A c \in C : c.stamp <= g.stamp
<1> DEFINE T == {n \in Nat : \E c \in C : n = MaxStamps - c.stamp}
<1>1. MaxStamps \in Nat /\ \A c \in C : c.stamp \in Nat /\ c.stamp <= MaxStamps
  BY CheckpointTyped, CheckpointAssumption
<1>2. \A c \in C : MaxStamps - c.stamp \in T
  BY <1>1
<1>3. T \in SUBSET Nat /\ T # {}
  BY <1>2
<1> HIDE DEF T
<1>4. PICK n \in T : \A m \in T : n <= m
  BY <1>3, LeastNat
<1>5. PICK g \in C : n = MaxStamps - g.stamp
  BY <1>4 DEF T
<1>6. ASSUME NEW c \in C PROVE c.stamp <= g.stamp
  <2>1. n <= MaxStamps - c.stamp
    BY <1>2, <1>4
  <2>2. QED
    BY <1>1, <1>5, <2>1
<1>7. QED
  BY <1>6

\* The files newer than the newest doomed one are not doomed.
LEMMA ListOldStep ==
  ASSUME CheckpointInv, ListOld
  PROVE  CheckpointInv'
<1>1. /\ saving["tracker"] = "written" /\ saving' = [saving EXCEPT !["tracker"] = "removing"]
      /\ doomed' = {c \in Listed : Cardinality({d \in Listed : d.stamp > c.stamp}) >= MaxFiles}
      /\ UNCHANGED <<status, bands, current, files, faults, stamps, ck, acked, restored>>
  BY DEF ListOld, Goto, tracker, disk
<1>2. /\ \A t \in Savers : saving'[t] = IF t = "tracker" THEN "removing" ELSE saving[t]
      /\ saving'["tracker"] = "removing"
  BY <1>1, InvTypes
<1>3. Listed' = Listed
  BY <1>1, SameFiles
<1>4. CheckpointTypeOK'
  <2>1. saving' \in [Savers -> Places]
    BY <1>1, InvTypes DEF Places
  <2>2. doomed' \subseteq Checkpoints
    BY <1>1, InvTypes
  <2>3. QED
    BY <1>1, <2>1, <2>2 DEF CheckpointInv, CheckpointTypeOK, Places
<1>5. StampsGiven'
  BY <1>1, <1>3 DEF CheckpointInv, StampsGiven
<1>6. Saving' \subseteq Saving
  BY <1>2 DEF Saving
<1>7. StampsDiffer'
  BY <1>1, <1>3, <1>6 DEF CheckpointInv, StampsDiffer
<1>8. TrackerSaves'
  BY <1>1, <1>2, <1>3 DEF CheckpointInv, TrackerSaves, Kept
<1>9. DoomedAreOld'
  <2> SUFFICES ASSUME NEW c \in doomed'
               PROVE  Cardinality({d \in Listed \ doomed' : d.stamp > c.stamp}) >= MaxFiles
    BY <1>3 DEF DoomedAreOld
  <2>1. PICK g \in doomed' : \A e \in doomed' : e.stamp <= g.stamp
    <3>1. doomed' \in SUBSET Checkpoints /\ doomed' # {}
      BY <1>1, InvTypes
    <3>2. QED
      BY <3>1, Newest
  <2>2. /\ c.stamp \in Nat /\ g.stamp \in Nat /\ c.stamp <= g.stamp
        /\ \A d \in Listed : d.stamp \in Nat
    <3>1. c \in Listed /\ g \in Listed
      BY <1>1
    <3>2. QED
      BY <2>1, <3>1, StampsBefore
  <2>3. Cardinality({d \in Listed : d.stamp > g.stamp}) >= MaxFiles
    BY <1>1
  <2>4. {d \in Listed : d.stamp > g.stamp} \in SUBSET {d \in Listed \ doomed' : d.stamp > c.stamp}
    <3>1. ASSUME NEW d \in Listed, d.stamp > g.stamp PROVE d \notin doomed' /\ d.stamp > c.stamp
      <4>1. ~(d.stamp <= g.stamp)
        BY <2>2, <3>1
      <4>2. QED
        BY <2>1, <2>2, <3>1, <4>1
    <3>2. QED
      BY <3>1
  <2>5. IsFiniteSet({d \in Listed \ doomed' : d.stamp > c.stamp})
    <3>1. {d \in Listed \ doomed' : d.stamp > c.stamp} \in SUBSET Listed
      OBVIOUS
    <3>2. QED
      BY <3>1, FS_Subset DEF CheckpointInv
  <2>6. QED
    BY <2>3, <2>4, <2>5, EnoughAreMore
<1>10. IsFiniteSet(Listed') /\ AckedIsKept'
  BY <1>1, <1>3 DEF CheckpointInv, AckedIsKept, Kept
<1>11. QED
  BY <1>4, <1>5, <1>7, <1>8, <1>9, <1>10 DEF CheckpointInv

\* A doomed file goes; the newer files that are not doomed stay.
LEMMA RemovedAreOld ==
  ASSUME CheckpointInv, NEW c \in doomed, doomed' = doomed \ {c}, IsFiniteSet(Listed'), Listed \ {c} \subseteq Listed',
         NEW x \in Checkpoints, Kept(x)
  PROVE  Kept(x)'
<1>1. /\ c.stamp \in Nat /\ x.stamp \in Nat
      /\ \A d \in Listed : d.stamp \in Nat
  BY InvTypes, CheckpointTyped
<1> DEFINE Newer == {d \in Listed' : d.stamp > x.stamp}
<1>2. IsFiniteSet(Newer)
  BY FS_Subset
<1> HIDE DEF Newer
<1>3. SUFFICES x \in Listed' \/ Cardinality(Newer) >= MaxFiles
  BY DEF Kept, Newer
<1>4. CASE c.stamp >= x.stamp
  <2>1. Cardinality({d \in Listed \ doomed : d.stamp > c.stamp}) >= MaxFiles
    BY DEF CheckpointInv, DoomedAreOld
  <2>2. {d \in Listed \ doomed : d.stamp > c.stamp} \in SUBSET Newer
    BY <1>1, <1>4 DEF Newer
  <2>3. QED
    BY <1>2, <2>1, <2>2, EnoughAreMore
<1>5. CASE ~(c.stamp >= x.stamp)
  <2>1. x # c
    BY <1>1, <1>5
  <2>2. CASE x \in Listed
    BY <2>1, <2>2
  <2>3. CASE Cardinality({d \in Listed : d.stamp > x.stamp}) >= MaxFiles
    <3>1. {d \in Listed : d.stamp > x.stamp} \in SUBSET Newer
      BY <1>1, <1>5 DEF Newer
    <3>2. QED
      BY <1>2, <2>3, <3>1, EnoughAreMore
  <2>4. QED
    BY <2>2, <2>3 DEF Kept
<1>6. QED
  BY <1>4, <1>5

\* The cleanup removes doomed files only.
LEMMA RemoveOldStep ==
  ASSUME CheckpointInv, RemoveOld
  PROVE  CheckpointInv'
<1>1. PICK c \in doomed : files' = Without(c) /\ doomed' = doomed \ {c}
  BY DEF RemoveOld, Without
<1>2. /\ saving["tracker"] = "removing"
      /\ UNCHANGED <<status, bands, current, faults, stamps, saving, ck, acked, restored>>
  BY DEF RemoveOld, tracker
<1>3. files' \in Seq(Saved) /\ Listed' \subseteq Listed /\ Listed \ {c} \subseteq Listed'
  <2>1. files \in Seq(Saved)
    BY InvTypes
  <2>2. QED
    BY <1>1, <2>1, RemovedListed
<1>4. CheckpointTypeOK'
  <2>1. doomed' \subseteq Checkpoints
    BY <1>1, InvTypes
  <2>2. QED
    BY <1>2, <1>3, <2>1 DEF CheckpointInv, CheckpointTypeOK, Saved
<1>5. IsFiniteSet(Listed')
  BY <1>3, InvTypes, FS_Subset
<1>6. StampsGiven'
  BY <1>2, <1>3 DEF CheckpointInv, StampsGiven
<1>7. Saving' = Saving
  BY <1>2 DEF Saving
<1>8. StampsDiffer'
  BY <1>2, <1>3, <1>7 DEF CheckpointInv, StampsDiffer
<1>9. \A x \in Checkpoints : Kept(x) => Kept(x)'
  BY <1>1, <1>3, <1>5, RemovedAreOld
<1>10. TrackerSaves'
  <2>1. ck["tracker"] \in Checkpoints /\ Kept(ck["tracker"])
    BY <1>2, InvTypes DEF CheckpointInv, TrackerSaves
  <2>2. Kept(ck["tracker"])'
    BY <1>2, <1>9, <2>1 DEF Kept
  <2>3. QED
    BY <1>2, <2>2 DEF TrackerSaves
<1>11. DoomedAreOld'
  <2>1. Listed \ doomed \subseteq Listed' \ doomed' /\ doomed' \subseteq doomed
    BY <1>1, <1>3
  <2>2. QED
    BY <1>5, <2>1, DoomedStayOld DEF CheckpointInv
<1>12. AckedIsKept'
  <2>1. acked \in Checkpoints
    BY InvTypes
  <2>2. Kept(acked) => Kept(acked)'
    BY <1>2, <1>9, <2>1 DEF Kept
  <2>3. QED
    BY <1>2, <2>2 DEF CheckpointInv, AckedIsKept
<1>13. QED
  BY <1>4, <1>5, <1>6, <1>8, <1>10, <1>11, <1>12 DEF CheckpointInv

\* What is acknowledged was kept by the cleanup.
LEMMA CreatedStep ==
  ASSUME CheckpointInv, Created
  PROVE  CheckpointInv'
<1>1. /\ doomed = {} /\ saving["tracker"] = "removing" /\ saving' = [saving EXCEPT !["tracker"] = "idle"]
      /\ acked' = ck["tracker"]
      /\ UNCHANGED <<status, bands, current, files, faults, stamps, ck, doomed, restored>>
  BY DEF Created, Goto, tracker, disk
<1>2. /\ \A t \in Savers : saving'[t] = IF t = "tracker" THEN "idle" ELSE saving[t]
      /\ saving'["tracker"] = "idle"
  BY <1>1, InvTypes
<1>3. Listed' = Listed
  BY <1>1, SameFiles
<1>4. CheckpointTypeOK'
  <2>1. saving' \in [Savers -> Places]
    BY <1>1, InvTypes DEF Places
  <2>2. {current', acked'} \cup doomed' \subseteq Checkpoints
    BY <1>1, InvTypes
  <2>3. QED
    BY <1>1, <2>1, <2>2 DEF CheckpointInv, CheckpointTypeOK, Places
<1>5. StampsGiven'
  BY <1>1, <1>3 DEF CheckpointInv, StampsGiven
<1>6. Saving' \subseteq Saving
  BY <1>2 DEF Saving
<1>7. StampsDiffer'
  BY <1>1, <1>3, <1>6 DEF CheckpointInv, StampsDiffer
<1>8. TrackerSaves' /\ DoomedAreOld'
  BY <1>1, <1>2 DEF TrackerSaves, DoomedAreOld
<1>9. AckedIsKept'
  BY <1>1, <1>3 DEF CheckpointInv, TrackerSaves, AckedIsKept, Kept
<1>10. QED
  BY <1>3, <1>4, <1>5, <1>7, <1>8, <1>9, InvTypes DEF CheckpointInv

\* A crash removes nothing, in the middle of a cleanup or elsewhere.
LEMMA CrashAndRestoreStep ==
  ASSUME CheckpointInv, CrashAndRestore
  PROVE  CheckpointInv'
<1>1. /\ saving' = [s \in Savers |-> "gone"] /\ doomed' = {}
      /\ UNCHANGED <<status, bands, files, faults, stamps, ck, acked>>
      /\ restored' \in {"done", "failed"}
  BY DEF CrashAndRestore, tracker, disk
<1>2. /\ \A s \in Savers : saving'[s] = "gone"
      /\ saving' \in [Savers -> Places]
      /\ saving'["tracker"] = "gone"
  BY <1>1, InvTypes DEF Places
<1>3. Listed' = Listed
  BY <1>1, SameFiles
<1>4. current' \in Listed \/ current' = None
  <2>1. CASE files # <<>> /\ files[Len(files)].complete
    <3>1. current' = files[Len(files)].ck
      BY <2>1 DEF CrashAndRestore
    <3>2. Len(files) \in DOMAIN files
      BY <2>1, InvTypes
    <3>3. QED
      BY <2>1, <3>1, <3>2 DEF Listed
  <2>2. CASE ~(files # <<>> /\ files[Len(files)].complete)
    BY <2>2 DEF CrashAndRestore
  <2>3. QED
    BY <2>1, <2>2
<1>5. None \in Checkpoints /\ None.stamp = 0
  BY CheckpointAssumption DEF None, Checkpoints
<1>6. CheckpointTypeOK'
  <2>1. {current', acked'} \cup doomed' \subseteq Checkpoints
    BY <1>1, <1>4, <1>5, InvTypes
  <2>2. QED
    BY <1>1, <1>2, <2>1 DEF CheckpointInv, CheckpointTypeOK, Places
<1>7. StampsGiven'
  <2>1. current'.stamp <= stamps
    BY <1>4, <1>5, StampsBefore, InvTypes
  <2>2. QED
    BY <1>1, <1>3, <2>1 DEF CheckpointInv, StampsGiven
<1>8. Saving' = {}
  BY <1>2 DEF Saving
<1>9. StampsDiffer'
  BY <1>8 DEF StampsDiffer
<1>10. TrackerSaves' /\ DoomedAreOld'
  BY <1>1, <1>2 DEF TrackerSaves, DoomedAreOld
<1>11. AckedIsKept'
  BY <1>1, <1>3 DEF CheckpointInv, AckedIsKept, Kept
<1>12. QED
  BY <1>3, <1>6, <1>7, <1>9, <1>10, <1>11, InvTypes DEF CheckpointInv

\* A step of another component.
LEMMA CheckpointStands ==
  ASSUME CheckpointInv, UNCHANGED checkpointVars
  PROVE  CheckpointInv'
<1>1. UNCHANGED <<status, bands, current, files, faults, stamps, saving, ck, doomed, acked, restored>>
  BY DEF checkpointVars, tracker, disk, savers
<1>2. Listed' = Listed /\ Saving' = Saving
  BY <1>1 DEF Listed, Saving
<1>3. CheckpointTypeOK' /\ IsFiniteSet(Listed')
  BY <1>1, <1>2 DEF CheckpointInv, CheckpointTypeOK
<1>4. StampsGiven' /\ StampsDiffer'
  BY <1>1, <1>2 DEF CheckpointInv, StampsGiven, StampsDiffer
<1>5. TrackerSaves' /\ DoomedAreOld' /\ AckedIsKept'
  BY <1>1, <1>2 DEF CheckpointInv, TrackerSaves, DoomedAreOld, AckedIsKept, Kept
<1>6. QED
  BY <1>3, <1>4, <1>5 DEF CheckpointInv

\* The tracker's operations: what they say of the test is a state of it.
LEMMA TrackStep ==
  ASSUME CheckpointInv, Track
  PROVE  CheckpointInv'
<1>1. status \in {"running", "failed", "completed"} /\ bands \in 0 .. TotalBands /\ TotalBands \in Nat
  BY CheckpointAssumption DEF CheckpointInv, CheckpointTypeOK
<1>2. CASE UpdateProgress
  BY <1>1, <1>2, CreateCheckpointStep DEF UpdateProgress
<1>3. CASE CompleteBand
  <2>1. bands + 1 \in 0 .. TotalBands
    BY <1>1, <1>3 DEF CompleteBand
  <2>2. QED
    BY <1>1, <1>3, <2>1, CreateCheckpointStep DEF CompleteBand
<1>4. CASE HandleError
  BY <1>1, <1>4, CreateCheckpointStep DEF HandleError
<1>5. CASE CompleteTest
  BY <1>1, <1>5, CreateCheckpointStep DEF CompleteTest
<1>6. QED
  BY <1>2, <1>3, <1>4, <1>5 DEF Track

\* Every step keeps the invariant.
LEMMA NextCheckpointInv == CheckpointInv /\ [CheckpointNext]_checkpointVars => CheckpointInv'
<1> SUFFICES ASSUME CheckpointInv, [CheckpointNext]_checkpointVars PROVE CheckpointInv'
  OBVIOUS
<1>1. CASE Track \/ SetCurrent
  BY <1>1, TrackStep, SetCurrentStep
<1>2. CASE ListOld \/ RemoveOld \/ Created \/ CrashAndRestore
  BY <1>2, ListOldStep, RemoveOldStep, CreatedStep, CrashAndRestoreStep
<1>3. ASSUME NEW r \in Routines, RoutineRead(r) \/ RoutineStamp(r) PROVE CheckpointInv'
  BY <1>3, RoutineReadStep, RoutineStampStep
<1>4. ASSUME NEW s \in Savers, CreateFile(s) \/ WriteFile(s) \/ EncodeFails(s) PROVE CheckpointInv'
  BY <1>4, CreateFileStep, WriteFileStep, EncodeFailsStep
<1>5. CASE UNCHANGED checkpointVars
  BY <1>5, CheckpointStands
<1>6. QED
  BY <1>1, <1>2, <1>3, <1>4, <1>5 DEF CheckpointNext

\* Whatever the routines save between the Timestamp of a checkpoint and its replacement of the
\* current one, no cleanup, crash in it or failed save takes the checkpoint that CreateCheckpoint
\* last returned nil for off the disk before MaxFiles whole files with later Timestamps are there
\* (cleanupOldCheckpoints of internal/resilience/checkpoint.go).
THEOREM AckedStaysKept == CheckpointSpec => []AckedIsKept
<1>1. CheckpointInv => AckedIsKept
  BY DEF CheckpointInv
<1>2. QED
  BY <1>1, InitCheckpointInv, NextCheckpointInv, PTL DEF CheckpointSpec

\* Every checkpoint on the disk, acknowledged, on its way there or out of it is one that was made: its
\* stamps are within the clock, and what it says of the test are states and bands the test can have.
THEOREM CheckpointsTyped == CheckpointSpec => []CheckpointTypeOK
<1>1. CheckpointInv => CheckpointTypeOK
  BY DEF CheckpointInv
<1>2. QED
  BY <1>1, InitCheckpointInv, NextCheckpointInv, PTL DEF CheckpointSpec
=============================================================================
