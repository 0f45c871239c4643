------------------------- MODULE ScalingSequenceProofs -------------------------
(***************************************************************************)
(* Proofs about ScalingSequence, for limits, steps and numbers of bands of *)
(* any size.                                                               *)
(***************************************************************************)
EXTENDS ScalingSequence, SequenceTheorems, WellFoundedInduction, TLAPS

\* The loop variables of the strategies that count with them stay in the
\* limits as far as the next band depends on it.
LoopInLimits ==
  /\ config.strategy = "linear" =>
       workers >= config.minWorkers /\ conns \in config.minConns .. config.maxConns
  /\ config.strategy = "synchronized" => workers >= config.minWorkers
  /\ config.strategy = "exponential" =>
       /\ workers \in config.minWorkers .. config.maxWorkers
       /\ conns \in config.minConns .. config.maxConns

\* generateFibonacci returns numbers of its range only.
FibonacciInLimits ==
  /\ fibWorkers \in Seq(config.minWorkers .. config.maxWorkers)
  /\ fibConns \in Seq(config.minConns .. config.maxConns)

IInv == TypeOK /\ WithinLimits /\ LoopInLimits /\ FibonacciInLimits

\* What validateConfig established about the configuration.
LEMMA ConfigFacts ==
  ASSUME config \in Configs
  PROVE  /\ config.minWorkers \in 1 .. MaxLimit /\ config.maxWorkers \in 1 .. MaxLimit
         /\ config.minConns \in 1 .. MaxLimit /\ config.maxConns \in 1 .. MaxLimit
         /\ config.minWorkers <= config.maxWorkers /\ config.minConns <= config.maxConns
         /\ config.stepWorkers \in Int /\ config.stepConns \in Int
         /\ config.bands \in {n \in Int : n <= 0} \cup 3 .. 25
         /\ config.strategy \in Strategies
  BY SequenceAssumption DEF Configs

LEMMA SubsetSeq ==
  ASSUME NEW S, NEW T, S \subseteq T, NEW s \in Seq(S)
  PROVE  s \in Seq(T)
  OBVIOUS

\* A band within the limits may be added.
LEMMA AddKeepsLimits ==
  ASSUME IInv, UNCHANGED config,
         NEW w \in config.minWorkers .. config.maxWorkers,
         NEW c \in config.minConns .. config.maxConns,
         AddBand(w, c)
  PROVE  WithinLimits' /\ sequence' \in Seq(Band)
<1>1. config \in Configs /\ sequence \in Seq(Band)
  BY DEF IInv, TypeOK
<1>2. w \in 1 .. MaxLimit /\ c \in 1 .. MaxLimit
  BY <1>1, ConfigFacts, SequenceAssumption
<1>3. [workers |-> w, conns |-> c] \in Band
  BY <1>2 DEF Band
<1>4. sequence' \in Seq(Band)
  BY <1>1, <1>3 DEF AddBand
<1>5. WithinLimits'
  BY <1>1, <1>3 DEF AddBand, IInv, WithinLimits
<1>6. QED
  BY <1>4, <1>5

\* int(math.Sqrt(...)) of the numbers of bands there can be.
LEMMA SquareRoot ==
  ASSUME config \in Configs
  PROVE  TargetWorkerSteps \in 1 .. MaxBands
<1> DEFINE IsRoot(s) == s * s <= MaxBands /\ (s + 1) * (s + 1) > MaxBands
<1>1. MaxBands \in 3 .. 25 \cup {64}
  BY ConfigFacts DEF MaxBands
<1>2. \E s \in 1 .. MaxBands : IsRoot(s)
  <2>1. CASE MaxBands \in 3 .. 3
    BY <2>1
  <2>2. CASE MaxBands \in 4 .. 8
    BY <2>2
  <2>3. CASE MaxBands \in 9 .. 15
    BY <2>3
  <2>4. CASE MaxBands \in 16 .. 24
    BY <2>4
  <2>5. CASE MaxBands = 25
    BY <2>5
  <2>6. CASE MaxBands = 64
    BY <2>6
  <2>7. QED
    BY <1>1, <2>1, <2>2, <2>3, <2>4, <2>5, <2>6
<1>3. QED
  BY <1>2 DEF TargetWorkerSteps

\* Both steps of linear are positive.
LEMMA StepsPositive ==
  ASSUME config \in Configs
  PROVE  StepWorkers \in Nat \ {0} /\ StepConns \in Nat \ {0}
<1>1. MaxBands \in Nat /\ TargetWorkerSteps \in Nat \ {0}
  BY SquareRoot, ConfigFacts DEF MaxBands
<1>2. TargetWorkerSteps <= MaxBands
  BY SquareRoot, <1>1
<1>3. TargetConnSteps \in Nat \ {0}
  BY <1>1, <1>2 DEF TargetConnSteps
<1>4. StepWorkers \in Nat \ {0}
  BY <1>1, ConfigFacts DEF HasSteps, StepWorkers, AtLeastOne
<1>5. StepConns \in Nat \ {0}
  BY <1>3, ConfigFacts DEF HasSteps, StepConns, AtLeastOne
<1>6. QED
  BY <1>4, <1>5

\* What is divided by the same number keeps its order, and leaves the whole numbers
\* below it behind.
LEMMA DivMonotone ==
  ASSUME NEW m \in Nat, NEW n \in Nat, NEW k \in Nat \ {0}, m <= n
  PROVE  m \div k <= n \div k /\ m \div k \in Nat
  OBVIOUS

LEMMA DivStrict ==
  ASSUME NEW m \in Nat, NEW n \in Nat, NEW k \in Nat \ {0}, m < n, n % k = 0
  PROVE  m \div k < n \div k
  OBVIOUS

\* The n-th part of a range does not come before the one before it, however either
\* is rounded.
LEMMA PartsGrow ==
  ASSUME NEW n \in Nat, NEW r \in Nat, NEW k \in Nat \ {0}, NEW e \in {0, 1}, NEW d \in {0, 1}
  PROVE  /\ PartOf(n, k, r, e) \in Nat
         /\ n > 0 => PartOf(n - 1, k, r, d) <= PartOf(n, k, r, e)
<1>1. PICK x \in Nat : x = n * r
  OBVIOUS
<1>2. PICK q \in Nat : q = x \div k
  BY <1>1, DivMonotone
<1>3. PartOf(n, k, r, e) = IF x > 0 /\ x % k = 0 THEN q - e ELSE q
  BY <1>1, <1>2 DEF PartOf
<1>4. x > 0 /\ x % k = 0 => 0 < q
  <2>1. 0 \div k = 0
    OBVIOUS
  <2>2. QED
    BY <1>1, <1>2, <2>1, DivStrict
<1>5. PartOf(n, k, r, e) \in Nat
  BY <1>2, <1>3, <1>4
<1>6. ASSUME n > 0 PROVE PartOf(n - 1, k, r, d) <= PartOf(n, k, r, e)
  <2>1. PICK y \in Nat : y = (n - 1) * r /\ y = x - r
    <3>1. n - 1 \in Nat /\ (n - 1) * r = n * r - r
      BY <1>6
    <3>2. QED
      BY <1>1, <3>1
  <2>2. PICK p \in Nat : p = y \div k
    BY <2>1, DivMonotone
  <2>3. PartOf(n - 1, k, r, d) = IF y > 0 /\ y % k = 0 THEN p - d ELSE p
    BY <2>1, <2>2 DEF PartOf
  <2>4. p <= q /\ (r > 0 /\ x % k = 0 => p < q)
    BY <1>1, <1>2, <2>1, <2>2, DivMonotone, DivStrict
  <2>5. CASE r > 0
    BY <1>2, <1>3, <2>2, <2>3, <2>4, <2>5
  <2>6. CASE r = 0
    BY <1>1, <1>2, <1>3, <2>1, <2>2, <2>3, <2>4, <2>6
  <2>7. QED
    BY <2>5, <2>6
<1>7. QED
  BY <1>5, <1>6

\* A balanced step is a natural number, rounded or not.
LEMMA ScaledBounds ==
  ASSUME config \in Configs, sequence \in Seq(Band), NEW range \in Nat, NEW e \in Rounding
  PROVE  Scaled(range, e) \in Nat
<1>1. Bands - 1 \in Nat \ {0}
  <2>1. config.bands \in {n \in Int : n <= 0} \cup 3 .. 25
    BY ConfigFacts
  <2>2. Bands \in 3 .. 25
    BY <2>1 DEF Bands
  <2>3. QED
    BY <2>2
<1>2. Len(sequence) \in Nat /\ e \in {0, 1}
  BY SequenceAssumption
<1>3. QED
  BY <1>1, <1>2, PartsGrow DEF Scaled

LEMMA InitIInv == Init => IInv
<1> SUFFICES ASSUME Init PROVE IInv
  OBVIOUS
<1>1. config \in Configs
  BY DEF Init
<1>2. TypeOK
  BY <1>1, ConfigFacts DEF Init, TypeOK
<1>3. WithinLimits /\ LoopInLimits /\ FibonacciInLimits
  BY <1>1, ConfigFacts DEF Init, WithinLimits, LoopInLimits, FibonacciInLimits
<1>4. QED
  BY <1>2, <1>3 DEF IInv

\* What a step does not change stays in the limits.
LEMMA FrameKeepsLimits ==
  ASSUME IInv, UNCHANGED config
  PROVE  /\ UNCHANGED sequence => WithinLimits'
         /\ UNCHANGED <<workers, conns>> => LoopInLimits'
         /\ UNCHANGED <<fibWorkers, fibConns>> => FibonacciInLimits'
  BY DEF IInv, WithinLimits, LoopInLimits, FibonacciInLimits

\* Returning changes nothing but where the generator is.
LEMMA ReturnKeepsIInv == ASSUME IInv, Return PROVE IInv'
<1>1. UNCHANGED <<config, sequence, workers, conns, fibWorkers, fibConns, a, b>>
  BY DEF Return, loop, fibs
<1>2. pc' \in {"done", "error"}
  BY DEF Return
<1>3. TypeOK'
  BY <1>1, <1>2 DEF IInv, TypeOK
<1>4. QED
  BY <1>1, <1>3, FrameKeepsLimits DEF IInv

LEMMA StepIInv == IInv /\ [Next]_vars => IInv'
<1> SUFFICES ASSUME IInv, [Next]_vars PROVE IInv'
  OBVIOUS
<1>c. config \in Configs /\ sequence \in Seq(Band)
  BY DEF IInv, TypeOK
<1>f. /\ config.minWorkers \in 1 .. MaxLimit /\ config.maxWorkers \in 1 .. MaxLimit
      /\ config.minConns \in 1 .. MaxLimit /\ config.maxConns \in 1 .. MaxLimit
      /\ config.minWorkers <= config.maxWorkers /\ config.minConns <= config.maxConns
      /\ config.stepWorkers \in Int /\ config.stepConns \in Int
  BY <1>c, ConfigFacts
<1>1. CASE LinearBand
  <2>1. workers \in config.minWorkers .. config.maxWorkers
        /\ conns \in config.minConns .. config.maxConns
    BY <1>1, <1>f DEF LinearBand, Running, IInv, TypeOK, LoopInLimits
  <2>2. WithinLimits' /\ sequence' \in Seq(Band)
    BY <1>1, <2>1, AddKeepsLimits DEF LinearBand
  <2>3. /\ workers' \in Nat \ {0} /\ workers' >= config.minWorkers
        /\ conns' \in config.minConns .. config.maxConns
    <3>1. StepWorkers \in Nat \ {0} /\ StepConns \in Nat \ {0}
      BY <1>c, StepsPositive
    <3>2. \/ conns + StepConns <= config.maxConns /\ conns' = conns + StepConns /\ workers' = workers
          \/ conns' = config.minConns /\ workers' = workers + StepWorkers
      BY <1>1 DEF LinearBand
    <3> HIDE DEF StepWorkers, StepConns
    <3>3. QED
      BY <1>f, <2>1, <3>1, <3>2, SequenceAssumption
  <2>4. LoopInLimits'
    BY <1>1, <2>3 DEF LinearBand, Running, LoopInLimits
  <2>5. FibonacciInLimits' /\ TypeOK'
    BY <1>1, <1>f, <2>2, <2>3 DEF LinearBand, IInv, TypeOK, FibonacciInLimits, fibs
  <2>6. QED
    BY <2>2, <2>4, <2>5 DEF IInv
<1>2. CASE BalancedBand
  <2>1. PICK ew \in Rounding, ec \in Rounding :
          AddBand(AtMost(config.maxWorkers,
                         config.minWorkers + Scaled(config.maxWorkers - config.minWorkers, ew)),
                  AtMost(config.maxConns,
                         config.minConns + Scaled(config.maxConns - config.minConns, ec)))
    BY <1>2 DEF BalancedBand
  <2>2. /\ Scaled(config.maxWorkers - config.minWorkers, ew) \in Nat
        /\ Scaled(config.maxConns - config.minConns, ec) \in Nat
    <3>1. config.maxWorkers - config.minWorkers \in Nat /\ config.maxConns - config.minConns \in Nat
      BY <1>f, SequenceAssumption
    <3>2. QED
      BY <1>c, <3>1, ScaledBounds
  <2>3. /\ AtMost(config.maxWorkers, config.minWorkers + Scaled(config.maxWorkers - config.minWorkers, ew))
             \in config.minWorkers .. config.maxWorkers
        /\ AtMost(config.maxConns, config.minConns + Scaled(config.maxConns - config.minConns, ec))
             \in config.minConns .. config.maxConns
    BY <1>f, <2>2 DEF AtMost
  <2>4. WithinLimits' /\ sequence' \in Seq(Band)
    BY <1>2, <2>1, <2>3, AddKeepsLimits DEF BalancedBand
  <2>5. UNCHANGED <<config, workers, conns, fibWorkers, fibConns, a, b, pc>>
    BY <1>2 DEF BalancedBand, loop, fibs
  <2>6. TypeOK'
    BY <2>4, <2>5 DEF IInv, TypeOK
  <2>7. QED
    BY <2>4, <2>5, <2>6, FrameKeepsLimits DEF IInv
<1>3. CASE SynchronizedBand
  <2>1. workers \in config.minWorkers .. config.maxWorkers
    BY <1>3, <1>f DEF SynchronizedBand, Running, IInv, TypeOK, LoopInLimits
  <2>2. AtMost(config.maxConns, IF workers < config.minConns THEN config.minConns ELSE workers)
          \in config.minConns .. config.maxConns
    BY <1>f, <2>1 DEF AtMost
  <2>3. WithinLimits' /\ sequence' \in Seq(Band)
    BY <1>3, <2>1, <2>2, AddKeepsLimits DEF SynchronizedBand
  <2>4. workers' \in Nat \ {0} /\ workers' >= config.minWorkers
    BY <1>3, <1>f, <2>1 DEF SynchronizedBand, AtLeastOne
  <2>5. LoopInLimits'
    BY <1>3, <2>4 DEF SynchronizedBand, Running, LoopInLimits
  <2>6. QED
    BY <1>3, <2>3, <2>4, <2>5 DEF SynchronizedBand, IInv, TypeOK, FibonacciInLimits, fibs
<1>4. CASE ExponentialBand
  <2>1. workers \in config.minWorkers .. config.maxWorkers
        /\ conns \in config.minConns .. config.maxConns
    BY <1>4 DEF ExponentialBand, Running, IInv, LoopInLimits
  <2>2. WithinLimits' /\ sequence' \in Seq(Band)
    BY <1>4, <2>1, AddKeepsLimits DEF ExponentialBand
  <2>3. /\ workers' \in config.minWorkers .. config.maxWorkers
        /\ conns' \in config.minConns .. config.maxConns
    BY <1>4, <1>f, <2>1 DEF ExponentialBand, AtMost
  <2>4. LoopInLimits'
    BY <1>4, <2>3 DEF ExponentialBand, Running, LoopInLimits
  <2>5. TypeOK' /\ FibonacciInLimits'
    <3>1. UNCHANGED <<config, fibWorkers, fibConns, a, b>> /\ pc' \in {"done", pc}
      BY <1>4 DEF ExponentialBand, fibs
    <3>2. workers' \in Nat \ {0} /\ conns' \in Nat \ {0}
      BY <1>f, <2>3, SequenceAssumption
    <3>3. QED
      BY <2>2, <3>1, <3>2, FrameKeepsLimits DEF IInv, TypeOK
  <2>6. QED
    BY <2>2, <2>4, <2>5 DEF IInv
<1>5. CASE FibonacciWorkers
  <2>1. a' \in Nat \ {0} /\ b' \in Nat \ {0}
    BY <1>5 DEF FibonacciWorkers, Advance, IInv, TypeOK
  <2>2. fibWorkers' \in Seq(config.minWorkers .. config.maxWorkers)
    <3>1. fibWorkers \in Seq(config.minWorkers .. config.maxWorkers)
      BY DEF IInv, FibonacciInLimits
    <3>2. CASE fibWorkers' = fibWorkers
      BY <3>1, <3>2
    <3>3. CASE b \in config.minWorkers .. config.maxWorkers /\ fibWorkers' = Append(fibWorkers, b)
      BY <3>1, <3>3
    <3>4. QED
      BY <1>5, <1>f, <3>2, <3>3 DEF FibonacciWorkers, IInv, TypeOK
  <2>3. fibWorkers' \in Seq(1 .. MaxLimit)
    <3>1. config.minWorkers .. config.maxWorkers \subseteq 1 .. MaxLimit
      BY <1>f, SequenceAssumption
    <3>2. QED
      BY <2>2, <3>1, SubsetSeq
  <2>4. UNCHANGED <<config, sequence, workers, conns, fibConns>>
    BY <1>5 DEF FibonacciWorkers, loop
  <2>5. pc' \in {"fibWorkers", "fibConns"}
    BY <1>5 DEF FibonacciWorkers
  <2>6. TypeOK'
    BY <2>1, <2>3, <2>4, <2>5 DEF IInv, TypeOK
  <2>7. FibonacciInLimits'
    BY <2>2, <2>4 DEF IInv, FibonacciInLimits
  <2>8. QED
    BY <2>4, <2>6, <2>7, FrameKeepsLimits DEF IInv
<1>6. CASE FibonacciConns
  <2>1. a' \in Nat \ {0} /\ b' \in Nat \ {0}
    BY <1>6 DEF FibonacciConns, Advance, IInv, TypeOK
  <2>2. fibConns' \in Seq(config.minConns .. config.maxConns)
    <3>1. fibConns \in Seq(config.minConns .. config.maxConns)
      BY DEF IInv, FibonacciInLimits
    <3>2. CASE fibConns' = fibConns
      BY <3>1, <3>2
    <3>3. CASE b \in config.minConns .. config.maxConns /\ fibConns' = Append(fibConns, b)
      BY <3>1, <3>3
    <3>4. QED
      BY <1>6, <1>f, <3>2, <3>3 DEF FibonacciConns, IInv, TypeOK
  <2>3. fibConns' \in Seq(1 .. MaxLimit)
    <3>1. config.minConns .. config.maxConns \subseteq 1 .. MaxLimit
      BY <1>f, SequenceAssumption
    <3>2. QED
      BY <2>2, <3>1, SubsetSeq
  <2>4. UNCHANGED <<config, sequence, workers, conns, fibWorkers>>
    BY <1>6 DEF FibonacciConns, loop
  <2>5. pc' \in {"fibConns", "loop"}
    BY <1>6 DEF FibonacciConns
  <2>6. TypeOK'
    BY <2>1, <2>3, <2>4, <2>5 DEF IInv, TypeOK
  <2>7. FibonacciInLimits'
    BY <2>2, <2>4 DEF IInv, FibonacciInLimits
  <2>8. QED
    BY <2>4, <2>6, <2>7, FrameKeepsLimits DEF IInv
<1>7. CASE FibonacciBand
  <2>1. /\ fibWorkers[workers] \in config.minWorkers .. config.maxWorkers
        /\ fibConns[conns] \in config.minConns .. config.maxConns
    <3>1. workers \in 1 .. Len(fibWorkers) /\ conns \in 1 .. Len(fibConns)
      BY <1>7 DEF FibonacciBand, IInv, TypeOK
    <3>2. /\ fibWorkers \in Seq(config.minWorkers .. config.maxWorkers)
          /\ fibConns \in Seq(config.minConns .. config.maxConns)
      BY DEF IInv, FibonacciInLimits
    <3>3. QED
      BY <3>1, <3>2, ElementOfSeq
  <2>2. WithinLimits' /\ sequence' \in Seq(Band)
    BY <1>7, <2>1, AddKeepsLimits DEF FibonacciBand
  <2>3. workers' \in Nat \ {0} /\ conns' \in Nat \ {0}
    BY <1>7 DEF FibonacciBand, IInv, TypeOK
  <2>4. UNCHANGED <<config, fibWorkers, fibConns, a, b, pc>> /\ config.strategy = "fibonacci"
    BY <1>7 DEF FibonacciBand, Running, fibs
  <2>5. TypeOK'
    BY <2>2, <2>3, <2>4 DEF IInv, TypeOK
  <2>6. LoopInLimits'
    BY <2>4 DEF LoopInLimits
  <2>7. QED
    BY <2>2, <2>4, <2>5, <2>6, FrameKeepsLimits DEF IInv
<1>8. CASE LinearEnds \/ BalancedEnds \/ SynchronizedEnds \/ FibonacciEnds
  BY <1>8, ReturnKeepsIInv DEF LinearEnds, BalancedEnds, SynchronizedEnds, FibonacciEnds
<1>9. CASE UNCHANGED vars
  <2>1. UNCHANGED <<config, sequence, workers, conns, fibWorkers, fibConns, a, b, pc>>
    BY <1>9 DEF vars, loop, fibs
  <2>2. TypeOK'
    BY <2>1 DEF IInv, TypeOK
  <2>3. QED
    BY <2>1, <2>2, FrameKeepsLimits DEF IInv
<1>10. QED
  BY <1>1, <1>2, <1>3, <1>4, <1>5, <1>6, <1>7, <1>8, <1>9 DEF Next

\* Every reachable state satisfies the inductive invariant.
LEMMA Invariance == Spec => []IInv
<1>1. Init => IInv
  BY InitIInv
<1>2. IInv /\ [Next]_vars => IInv'
  BY StepIInv
<1>3. QED
  BY <1>1, <1>2, PTL DEF Spec

\* The loop variables of generateScalingSequence stay positive, and with them
\* every number of workers and connections.
THEOREM TypeCorrect == Spec => []TypeOK
  BY Invariance, PTL DEF IInv

\* No strategy makes a band outside the configured limits, for limits, steps
\* and numbers of bands of any size and whatever floats are rounded to.
THEOREM BandsWithinLimits == Spec => []WithinLimits
  BY Invariance, PTL DEF IInv

-----------------------------------------------------------------------------
(* The order of the bands: what comes next is later than the last.         *)

Earlier(w, c, v, d) == w < v \/ (w = v /\ c < d)

Last == sequence[Len(sequence)]

\* The i-th band of balanced, by e too low.
Part(low, high, i, e) == AtMost(high, low + PartOf(i, Bands - 1, high - low, e))

Grows(s) == \A i \in 1 .. Len(s) - 1 : s[i] < s[i + 1]

\* generateFibonacci appends b, which grows.
FibonacciGrows ==
  /\ Grows(fibWorkers) /\ Grows(fibConns)
  /\ pc = "fibWorkers" /\ fibWorkers # <<>> => fibWorkers[Len(fibWorkers)] < b
  /\ pc = "fibConns" /\ fibConns # <<>> => fibConns[Len(fibConns)] < b
  /\ pc \in {"fibWorkers", "fibConns"} => config.strategy = "fibonacci" /\ sequence = <<>>
  /\ pc = "fibWorkers" => fibConns = <<>>

NextIsLater ==
  pc = "loop" /\ sequence # <<>> =>
    /\ config.strategy = "linear" => Earlier(Last.workers, Last.conns, workers, conns)
    /\ config.strategy = "synchronized" => Last.workers < workers
    /\ config.strategy = "exponential" => Earlier(Last.workers, Last.conns, workers, conns)
    /\ config.strategy = "fibonacci" /\ workers <= Len(fibWorkers) /\ conns <= Len(fibConns)
         => Earlier(Last.workers, Last.conns, fibWorkers[workers], fibConns[conns])
    /\ config.strategy = "balanced" =>
         \E ew, ec \in Rounding :
           /\ Last.workers = Part(config.minWorkers, config.maxWorkers, Len(sequence) - 1, ew)
           /\ Last.conns = Part(config.minConns, config.maxConns, Len(sequence) - 1, ec)

GInv == BandsGrow /\ FibonacciGrows /\ NextIsLater

\* There are three bands or more.
LEMMA BandsAreThree == ASSUME config \in Configs PROVE Bands \in Nat /\ Bands - 1 \in Nat \ {0}
<1>1. config.bands \in {n \in Int : n <= 0} \cup 3 .. 25
  BY ConfigFacts
<1>2. Bands \in 3 .. 25
  BY <1>1 DEF Bands
<1>3. QED
  BY <1>2

\* A band that is not earlier than the last may be added.
LEMMA AddKeepsOrder ==
  ASSUME IInv, BandsGrow, UNCHANGED config, NEW w \in Nat, NEW c \in Nat, AddBand(w, c),
         sequence # <<>> =>
           \/ Earlier(Last.workers, Last.conns, w, c)
           \/ Last.workers = w /\ Last.conns = c /\ config.strategy = "balanced"
  PROVE  BandsGrow' /\ sequence' # <<>> /\ Last' = [workers |-> w, conns |-> c]
         /\ Len(sequence') = Len(sequence) + 1
<1>1. sequence \in Seq(Band) /\ sequence' = Append(sequence, [workers |-> w, conns |-> c])
  BY DEF IInv, TypeOK, AddBand
<1>2. /\ Len(sequence') = Len(sequence) + 1 /\ Len(sequence) \in Nat
      /\ \A i \in 1 .. Len(sequence) : sequence'[i] = sequence[i]
      /\ sequence'[Len(sequence) + 1] = [workers |-> w, conns |-> c]
  BY <1>1
<1>3. ASSUME NEW i \in 1 .. Len(sequence') - 1
      PROVE  LET x == sequence'[i]  y == sequence'[i + 1]
             IN  \/ x.workers < y.workers
                 \/ x.workers = y.workers /\ x.conns < y.conns
                 \/ x.workers = y.workers /\ x.conns = y.conns /\ config'.strategy = "balanced"
  <2>1. CASE i < Len(sequence)
    <3>1. i \in 1 .. Len(sequence) - 1 /\ sequence'[i] = sequence[i] /\ sequence'[i + 1] = sequence[i + 1]
      BY <1>2, <2>1
    <3>2. QED
      BY <3>1 DEF BandsGrow
  <2>2. CASE i = Len(sequence)
    <3>1. sequence # <<>> /\ sequence'[i] = Last /\ sequence'[i + 1] = [workers |-> w, conns |-> c]
      BY <1>1, <1>2, <2>2 DEF Last
    <3>2. QED
      BY <3>1 DEF Earlier
  <2>3. QED
    BY <1>2, <2>1, <2>2
<1>4. BandsGrow'
  BY <1>3 DEF BandsGrow
<1>5. QED
  BY <1>1, <1>2, <1>4 DEF Last

\* A growing list stays one when a larger number is appended.
LEMMA AppendGrows ==
  ASSUME NEW s \in Seq(Nat), Grows(s), NEW n \in Nat, s # <<>> => s[Len(s)] < n
  PROVE  Grows(Append(s, n)) /\ Append(s, n)[Len(Append(s, n))] = n /\ Append(s, n) # <<>>
<1>1. /\ Len(Append(s, n)) = Len(s) + 1 /\ Len(s) \in Nat
      /\ \A i \in 1 .. Len(s) : Append(s, n)[i] = s[i]
      /\ Append(s, n)[Len(s) + 1] = n
  OBVIOUS
<1>2. s # <<>> <=> Len(s) > 0
  OBVIOUS
<1> DEFINE t == Append(s, n)
<1>3. /\ Len(t) = Len(s) + 1 /\ \A i \in 1 .. Len(s) : t[i] = s[i]
      /\ t[Len(s) + 1] = n
  BY <1>1
<1>4. t # <<>>
  OBVIOUS
<1> HIDE DEF t
<1>5. Grows(t)
  BY <1>1, <1>2, <1>3 DEF Grows
<1>6. QED
  BY <1>1, <1>3, <1>4, <1>5 DEF t

LEMMA InitGInv == Init => GInv
  BY DEF Init, GInv, BandsGrow, FibonacciGrows, NextIsLater, Grows

LEMMA StepGInv ==
  ASSUME IInv, GInv, [Next]_vars
  PROVE  GInv'
<1>c. config \in Configs /\ sequence \in Seq(Band) /\ workers \in Nat \ {0} /\ conns \in Nat \ {0}
  BY DEF IInv, TypeOK
<1>f. /\ config.minWorkers \in Nat \ {0} /\ config.maxWorkers \in Nat \ {0}
      /\ config.minConns \in Nat \ {0} /\ config.maxConns \in Nat \ {0}
      /\ config.minWorkers <= config.maxWorkers /\ config.minConns <= config.maxConns
      /\ config.stepWorkers \in Int /\ config.stepConns \in Int
  BY <1>c, ConfigFacts, SequenceAssumption
<1>l. fibWorkers \in Seq(Nat) /\ fibConns \in Seq(Nat)
  <2>1. fibWorkers \in Seq(1 .. MaxLimit) /\ fibConns \in Seq(1 .. MaxLimit) /\ 1 .. MaxLimit \subseteq Nat
    BY SequenceAssumption DEF IInv, TypeOK
  <2>2. QED
    BY <2>1, SubsetSeq
<1>1. CASE LinearBand
  <2>1. /\ config.strategy = "linear" /\ pc = "loop" /\ UNCHANGED <<config, fibWorkers, fibConns, a, b, pc>>
        /\ AddBand(workers, conns)
    BY <1>1 DEF LinearBand, Running, fibs
  <2>2. sequence # <<>> => Earlier(Last.workers, Last.conns, workers, conns)
    BY <2>1 DEF GInv, NextIsLater
  <2>3. BandsGrow' /\ sequence' # <<>> /\ Last' = [workers |-> workers, conns |-> conns]
    BY <1>c, <2>1, <2>2, AddKeepsOrder DEF GInv
  <2>4. Earlier(workers, conns, workers', conns')
    <3>1. StepWorkers \in Nat \ {0} /\ StepConns \in Nat \ {0}
      BY <1>c, StepsPositive
    <3>2. \/ conns' = conns + StepConns /\ workers' = workers
          \/ workers' = workers + StepWorkers
      BY <1>1 DEF LinearBand
    <3> HIDE DEF StepWorkers, StepConns
    <3>3. QED
      BY <1>c, <3>1, <3>2 DEF Earlier
  <2>5. FibonacciGrows'
    BY <2>1 DEF GInv, FibonacciGrows
  <2>6. NextIsLater'
    BY <2>1, <2>3, <2>4 DEF NextIsLater
  <2>7. QED
    BY <2>3, <2>5, <2>6 DEF GInv
<1>2. CASE BalancedBand
  <2>1. /\ config.strategy = "balanced" /\ pc = "loop"
        /\ UNCHANGED <<config, workers, conns, fibWorkers, fibConns, a, b, pc>>
    BY <1>2 DEF BalancedBand, Running, loop, fibs
  <2>2. PICK ew \in Rounding, ec \in Rounding :
          AddBand(Part(config.minWorkers, config.maxWorkers, Len(sequence), ew),
                  Part(config.minConns, config.maxConns, Len(sequence), ec))
    BY <1>2 DEF BalancedBand, Scaled, Part
  <2> DEFINE w == Part(config.minWorkers, config.maxWorkers, Len(sequence), ew)
             c == Part(config.minConns, config.maxConns, Len(sequence), ec)
  <2>3. ASSUME NEW low \in Nat, NEW high \in Nat, low <= high, NEW e \in Rounding
        PROVE  /\ Part(low, high, Len(sequence), e) \in Nat
               /\ sequence # <<>> => \A d \in Rounding :
                    Part(low, high, Len(sequence) - 1, d) <= Part(low, high, Len(sequence), e)
    <3>1. PICK k \in Nat \ {0} : k = Bands - 1
      BY <1>c, BandsAreThree
    <3>2. PICK r \in Nat : r = high - low
      BY <2>3
    <3>3. PICK n \in Nat : n = Len(sequence) /\ (sequence # <<>> => n > 0)
      BY <1>c
    <3>4. \A d \in Rounding : d \in {0, 1}
      BY SequenceAssumption
    <3>5. PICK y \in Nat : y = PartOf(n, k, r, e) /\ Part(low, high, n, e) = AtMost(high, low + y)
      BY <3>1, <3>2, <3>4, PartsGrow DEF Part
    <3>6. ASSUME n > 0, NEW d \in Rounding PROVE Part(low, high, n - 1, d) <= Part(low, high, n, e)
      <4>1. n - 1 \in Nat
        BY <3>6
      <4>2. PICK x \in Nat : x = PartOf(n - 1, k, r, d)
        BY <3>4, <4>1, PartsGrow
      <4>3. x <= y
        BY <3>4, <3>5, <3>6, <4>2, PartsGrow
      <4>4. Part(low, high, n - 1, d) = AtMost(high, low + x)
        BY <3>1, <3>2, <4>2 DEF Part
      <4>5. QED
        BY <3>5, <4>3, <4>4 DEF AtMost
    <3>7. Part(low, high, n, e) \in Nat
      BY <3>5 DEF AtMost
    <3>8. QED
      BY <3>3, <3>6, <3>7
  <2>4. /\ w \in Nat /\ c \in Nat
        /\ sequence # <<>> => Last.workers <= w /\ Last.conns <= c /\ Last.workers \in Nat /\ Last.conns \in Nat
    <3>1. sequence # <<>> => \E dw, dc \in Rounding :
             /\ Last.workers = Part(config.minWorkers, config.maxWorkers, Len(sequence) - 1, dw)
             /\ Last.conns = Part(config.minConns, config.maxConns, Len(sequence) - 1, dc)
      BY <2>1 DEF GInv, NextIsLater
    <3>2. sequence # <<>> => Last.workers \in Nat /\ Last.conns \in Nat
      <4>1. sequence # <<>> => Last \in Band
        BY <1>c DEF Last
      <4>2. QED
        BY <4>1, SequenceAssumption DEF Band
    <3>3. w \in Nat /\ (sequence # <<>> => \A d \in Rounding :
                           Part(config.minWorkers, config.maxWorkers, Len(sequence) - 1, d) <= w)
      BY <1>f, <2>3
    <3>4. c \in Nat /\ (sequence # <<>> => \A d \in Rounding :
                           Part(config.minConns, config.maxConns, Len(sequence) - 1, d) <= c)
      BY <1>f, <2>3
    <3>5. QED
      BY <3>1, <3>2, <3>3, <3>4
  <2>5. /\ BandsGrow' /\ sequence' # <<>> /\ Last' = [workers |-> w, conns |-> c]
        /\ Len(sequence') = Len(sequence) + 1
    <3>1. AddBand(w, c)
      BY <2>2
    <3> HIDE DEF w, c
    <3>2. sequence # <<>> => \/ Earlier(Last.workers, Last.conns, w, c)
                             \/ Last.workers = w /\ Last.conns = c
      BY <2>4 DEF Earlier
    <3>3. QED
      BY <2>1, <2>4, <3>1, <3>2, AddKeepsOrder DEF GInv
  <2>6. NextIsLater'
    <3>1. Len(sequence') - 1 = Len(sequence)
      BY <1>c, <2>5
    <3>2. /\ w = Part(config.minWorkers, config.maxWorkers, Len(sequence) - 1, ew)'
          /\ c = Part(config.minConns, config.maxConns, Len(sequence) - 1, ec)'
      BY <2>1, <3>1 DEF Part, Bands
    <3> HIDE DEF w, c
    <3>3. QED
      BY <2>1, <2>5, <3>2 DEF NextIsLater
  <2>7. FibonacciGrows'
    BY <2>1 DEF GInv, FibonacciGrows
  <2>8. QED
    BY <2>5, <2>6, <2>7 DEF GInv
<1>3. CASE SynchronizedBand
  <2>1. /\ config.strategy = "synchronized" /\ pc = "loop" /\ UNCHANGED <<config, fibWorkers, fibConns, a, b, pc>>
        /\ workers' = workers + AtLeastOne(config.stepWorkers)
    BY <1>3 DEF SynchronizedBand, Running, fibs
  <2>2. PICK c \in Nat : AddBand(workers, c)
    BY <1>3, <1>c, <1>f DEF SynchronizedBand, AtMost
  <2>3. sequence # <<>> => Last.workers < workers
    BY <2>1 DEF GInv, NextIsLater
  <2>4. BandsGrow' /\ sequence' # <<>> /\ Last' = [workers |-> workers, conns |-> c]
    BY <1>c, <2>1, <2>2, <2>3, AddKeepsOrder DEF GInv, Earlier
  <2>5. workers < workers'
    BY <1>c, <1>f, <2>1 DEF AtLeastOne
  <2>6. NextIsLater'
    BY <2>1, <2>4, <2>5 DEF NextIsLater
  <2>7. FibonacciGrows'
    BY <2>1 DEF GInv, FibonacciGrows
  <2>8. QED
    BY <2>4, <2>6, <2>7 DEF GInv
<1>4. CASE ExponentialBand
  <2>1. /\ config.strategy = "exponential" /\ pc = "loop" /\ UNCHANGED <<config, fibWorkers, fibConns, a, b>>
        /\ AddBand(workers, conns)
        /\ workers' = AtMost(config.maxWorkers, workers * 2)
        /\ conns' = AtMost(config.maxConns, conns * 2)
        /\ pc' = IF workers' = workers /\ conns' = conns THEN "done" ELSE pc
    BY <1>4 DEF ExponentialBand, Running, fibs
  <2>2. sequence # <<>> => Earlier(Last.workers, Last.conns, workers, conns)
    BY <2>1 DEF GInv, NextIsLater
  <2>3. BandsGrow' /\ sequence' # <<>> /\ Last' = [workers |-> workers, conns |-> conns]
    BY <1>c, <2>1, <2>2, AddKeepsOrder DEF GInv
  <2>4. pc' = "loop" => Earlier(workers, conns, workers', conns')
    <3>1. workers <= config.maxWorkers /\ conns <= config.maxConns
      BY <2>1, <1>f DEF IInv, LoopInLimits
    <3>2. workers <= workers' /\ conns <= conns' /\ workers' \in Nat /\ conns' \in Nat
      BY <1>c, <1>f, <2>1, <3>1 DEF AtMost
    <3>3. pc' = "loop" => ~(workers' = workers /\ conns' = conns)
      BY <2>1
    <3>4. QED
      BY <1>c, <3>2, <3>3 DEF Earlier
  <2>5. NextIsLater'
    BY <2>1, <2>3, <2>4 DEF NextIsLater
  <2>6. FibonacciGrows'
    BY <2>1 DEF GInv, FibonacciGrows
  <2>7. QED
    BY <2>3, <2>5, <2>6 DEF GInv
<1>5. CASE FibonacciWorkers
  <2>1. /\ pc = "fibWorkers" /\ sequence = <<>> /\ config.strategy = "fibonacci" /\ fibConns = <<>>
        /\ UNCHANGED <<config, sequence, workers, conns, fibConns>>
    BY <1>5 DEF FibonacciWorkers, GInv, FibonacciGrows, loop
  <2>2. a \in Nat \ {0} /\ b \in Nat \ {0}
    BY DEF IInv, TypeOK
  <2>3. Grows(fibWorkers) /\ Grows(fibConns) /\ (fibWorkers # <<>> => fibWorkers[Len(fibWorkers)] < b)
    BY <2>1 DEF GInv, FibonacciGrows
  <2>4. CASE UNCHANGED <<fibWorkers, pc>> /\ Advance
    <3>1. b' > b /\ b' \in Nat
      BY <2>2, <2>4 DEF Advance
    <3>2. fibWorkers # <<>> => fibWorkers[Len(fibWorkers)] \in Nat
      BY <1>l
    <3>3. QED
      BY <1>l, <2>1, <2>2, <2>3, <2>4, <3>1, <3>2 DEF GInv, FibonacciGrows, BandsGrow, NextIsLater
  <2>5. CASE fibWorkers' = Append(fibWorkers, b) /\ Advance /\ UNCHANGED pc
    <3>1. b' > b /\ b' \in Nat
      BY <2>2, <2>5 DEF Advance
    <3>2. Grows(fibWorkers') /\ fibWorkers'[Len(fibWorkers')] = b
      BY <1>l, <2>2, <2>3, <2>5, AppendGrows
    <3>3. QED
      BY <2>1, <2>3, <2>5, <3>1, <3>2 DEF GInv, FibonacciGrows, BandsGrow, NextIsLater
  <2>6. CASE pc' = "fibConns" /\ UNCHANGED fibWorkers
    BY <2>1, <2>3, <2>6 DEF GInv, FibonacciGrows, BandsGrow, NextIsLater
  <2>7. QED
    BY <1>5, <2>4, <2>5, <2>6 DEF FibonacciWorkers
<1>6. CASE FibonacciConns
  <2>1. /\ pc = "fibConns" /\ sequence = <<>> /\ config.strategy = "fibonacci"
        /\ UNCHANGED <<config, sequence, workers, conns, fibWorkers>>
    BY <1>6 DEF FibonacciConns, GInv, FibonacciGrows, loop
  <2>2. a \in Nat \ {0} /\ b \in Nat \ {0}
    BY DEF IInv, TypeOK
  <2>3. Grows(fibWorkers) /\ Grows(fibConns) /\ (fibConns # <<>> => fibConns[Len(fibConns)] < b)
    BY <2>1 DEF GInv, FibonacciGrows
  <2>4. CASE UNCHANGED <<fibConns, pc>> /\ Advance
    <3>1. b' > b /\ b' \in Nat
      BY <2>2, <2>4 DEF Advance
    <3>2. fibConns # <<>> => fibConns[Len(fibConns)] \in Nat
      BY <1>l
    <3>3. QED
      BY <1>l, <2>1, <2>2, <2>3, <2>4, <3>1, <3>2 DEF GInv, FibonacciGrows, BandsGrow, NextIsLater
  <2>5. CASE fibConns' = Append(fibConns, b) /\ Advance /\ UNCHANGED pc
    <3>1. b' > b /\ b' \in Nat
      BY <2>2, <2>5 DEF Advance
    <3>2. Grows(fibConns') /\ fibConns'[Len(fibConns')] = b
      BY <1>l, <2>2, <2>3, <2>5, AppendGrows
    <3>3. QED
      BY <2>1, <2>3, <2>5, <3>1, <3>2 DEF GInv, FibonacciGrows, BandsGrow, NextIsLater
  <2>6. CASE pc' = "loop" /\ UNCHANGED fibConns
    BY <2>1, <2>3, <2>6 DEF GInv, FibonacciGrows, BandsGrow, NextIsLater
  <2>7. QED
    BY <1>6, <2>4, <2>5, <2>6 DEF FibonacciConns
<1>7. CASE FibonacciBand
  <2>1. /\ config.strategy = "fibonacci" /\ pc = "loop" /\ UNCHANGED <<config, fibWorkers, fibConns, a, b, pc>>
        /\ workers \in 1 .. Len(fibWorkers) /\ conns \in 1 .. Len(fibConns)
        /\ AddBand(fibWorkers[workers], fibConns[conns])
    BY <1>7 DEF FibonacciBand, Running, fibs, IInv, TypeOK
  <2>3. fibWorkers[workers] \in Nat /\ fibConns[conns] \in Nat
    BY <1>l, <2>1
  <2>4. sequence # <<>> => Earlier(Last.workers, Last.conns, fibWorkers[workers], fibConns[conns])
    BY <2>1 DEF GInv, NextIsLater
  <2>5. /\ BandsGrow' /\ sequence' # <<>>
        /\ Last' = [workers |-> fibWorkers[workers], conns |-> fibConns[conns]]
    BY <2>1, <2>3, <2>4, AddKeepsOrder DEF GInv
  <2>6. workers' <= Len(fibWorkers) /\ conns' <= Len(fibConns)
          => Earlier(fibWorkers[workers], fibConns[conns], fibWorkers[workers'], fibConns[conns'])
    <3>1. Grows(fibWorkers) /\ Grows(fibConns)
      BY DEF GInv, FibonacciGrows
    <3>2. CASE conns' = conns + 1 /\ workers' = workers
      BY <2>1, <3>1, <3>2 DEF Grows, Earlier
    <3>3. CASE conns' = 1 /\ workers' = workers + 1
      BY <2>1, <3>1, <3>3 DEF Grows, Earlier
    <3>4. QED
      BY <1>7, <3>2, <3>3 DEF FibonacciBand
  <2>7. NextIsLater'
    BY <2>1, <2>5, <2>6 DEF NextIsLater
  <2>8. FibonacciGrows'
    BY <2>1 DEF GInv, FibonacciGrows
  <2>9. QED
    BY <2>5, <2>7, <2>8 DEF GInv
<1>8. CASE LinearEnds \/ BalancedEnds \/ SynchronizedEnds \/ FibonacciEnds
  <2>1. /\ UNCHANGED <<config, sequence, workers, conns, fibWorkers, fibConns, a, b>>
        /\ pc' \in {"done", "error"}
    BY <1>8 DEF LinearEnds, BalancedEnds, SynchronizedEnds, FibonacciEnds, Return, loop, fibs
  <2>2. QED
    BY <2>1 DEF GInv, BandsGrow, FibonacciGrows, NextIsLater
<1>9. CASE UNCHANGED vars
  <2>1. UNCHANGED <<config, sequence, workers, conns, fibWorkers, fibConns, a, b, pc>>
    BY <1>9 DEF vars, loop, fibs
  <2>2. QED
    BY <2>1 DEF GInv, BandsGrow, FibonacciGrows, NextIsLater, Last, Part, Bands
<1>10. QED
  BY <1>1, <1>2, <1>3, <1>4, <1>5, <1>6, <1>7, <1>8, <1>9 DEF Next

\* Every strategy makes its bands in growing order and, but for balanced, none twice:
\* for limits, steps and numbers of bands of any size, and whatever floats are rounded to.
THEOREM BandsGrowAlways == Spec => []BandsGrow
<1>1. Init => GInv
  BY InitGInv
<1>2. IInv /\ GInv /\ [Next]_vars => GInv'
  BY StepGInv
<1>3. GInv => BandsGrow
  BY DEF GInv
<1>4. QED
  BY <1>1, <1>2, <1>3, Invariance, PTL DEF Spec

-----------------------------------------------------------------------------
(* The reference definition of the Fibonacci numbers.  That the recursion   *)
(* defines a function is shown from its beginnings, each of which extends   *)
(* the one before it; induction is on sets of numbers, by a least one.      *)

\* The order of the natural numbers, as a set of pairs: what follows needs no operator.
Below == {ss \in Nat \X Nat : ss[1] < ss[2]}

LEMMA BelowWF == IsWellFoundedOn(Below, Nat)
  BY NatLessThanWellFounded DEF OpToRel, Below

\* A set of natural numbers with a member has a least one.
LEMMA LeastNat ==
  ASSUME NEW T \in SUBSET Nat, T # {}
  PROVE  \E n \in T : \A m \in T : n <= m
<1>1. PICK n \in T : \A m \in T : ~(<<m, n>> \in Below)
  BY BelowWF, WFMin
<1>2. ASSUME NEW m \in T PROVE n <= m
  <2>1. <<m, n>> \in Nat \X Nat /\ ~(<<m, n>> \in Below)
    BY <1>1
  <2>2. ~(m < n)
    BY <2>1 DEF Below
  <2>3. QED
    BY <2>2
<1>3. QED
  BY <1>2

\* The first Fibonacci numbers, up to the one at n.
StartsFibonacci(g, n) ==
  /\ g \in [0 .. n -> Nat]
  /\ \A i \in 0 .. n : g[i] = IF i <= 1 THEN i + 1 ELSE g[i - 1] + g[i - 2]

LEMMA FibonacciStarts == \A n \in Nat : \E g : StartsFibonacci(g, n)
<1> DEFINE T == {n \in Nat : ~ \E g : StartsFibonacci(g, n)}
<1> SUFFICES ASSUME T # {} PROVE FALSE
  OBVIOUS
<1>1. PICK n \in T : \A m \in T : n <= m
  BY LeastNat
<1>2. n \in Nat /\ ~ \E g : StartsFibonacci(g, n)
  OBVIOUS
<1>3. CASE n = 0
  <2> DEFINE g == [i \in 0 .. 0 |-> 1]
  <2>1. StartsFibonacci(g, 0)
    BY DEF StartsFibonacci
  <2>2. QED
    BY <1>2, <1>3, <2>1
<1>4. CASE n # 0
  <2>1. n - 1 \in Nat /\ n - 1 \notin T
    BY <1>1, <1>2, <1>4
  <2>2. PICK g : StartsFibonacci(g, n - 1)
    BY <2>1
  <2> DEFINE h == [i \in 0 .. n |-> IF i < n THEN g[i] ELSE IF n <= 1 THEN n + 1 ELSE g[n - 1] + g[n - 2]]
  <2>3. \A i \in 0 .. n - 1 : g[i] \in Nat /\ h[i] = g[i] /\ g[i] = IF i <= 1 THEN i + 1 ELSE g[i - 1] + g[i - 2]
    BY <1>2, <2>2 DEF StartsFibonacci
  <2>4. h[n] = IF n <= 1 THEN n + 1 ELSE g[n - 1] + g[n - 2]
    BY <1>2
  <2>5. h \in [0 .. n -> Nat]
    <3>1. \A i \in 0 .. n - 1 : g[i] \in Nat
      BY <2>3
    <3>2. \A i \in 0 .. n : i < n => i \in 0 .. n - 1
      BY <1>2
    <3>3. n > 1 => n - 1 \in 0 .. n - 1 /\ n - 2 \in 0 .. n - 1
      BY <1>2
    <3>4. (IF n <= 1 THEN n + 1 ELSE g[n - 1] + g[n - 2]) \in Nat
      BY <1>2, <3>1, <3>3
    <3>5. QED
      BY <3>1, <3>2, <3>4
  <2> HIDE DEF h
  <2>6. ASSUME NEW i \in 0 .. n PROVE h[i] = IF i <= 1 THEN i + 1 ELSE h[i - 1] + h[i - 2]
    <3>1. CASE i <= 1
      BY <1>2, <2>3, <2>4, <3>1
    <3>2. CASE i > 1
      <4>1. h[i - 1] = g[i - 1] /\ h[i - 2] = g[i - 2]
        BY <1>2, <2>3, <3>2
      <4>2. h[i] = g[i - 1] + g[i - 2]
        BY <1>2, <2>3, <2>4, <3>2
      <4>3. QED
        BY <3>2, <4>1, <4>2
    <3>3. QED
      BY <3>1, <3>2
  <2>7. StartsFibonacci(h, n)
    BY <2>5, <2>6 DEF StartsFibonacci
  <2>8. QED
    BY <1>2, <2>7
<1>5. QED
  BY <1>3, <1>4

\* There is one way to start only.
LEMMA FibonacciUnique ==
  ASSUME NEW m \in Nat, NEW n \in Nat, NEW g, NEW h, StartsFibonacci(g, m), StartsFibonacci(h, n)
  PROVE  \A i \in Nat : i <= m /\ i <= n => g[i] = h[i]
<1> DEFINE T == {i \in Nat : i <= m /\ i <= n /\ g[i] # h[i]}
<1> SUFFICES ASSUME T # {} PROVE FALSE
  OBVIOUS
<1>1. PICK i \in T : \A k \in T : i <= k
  BY LeastNat
<1>2. i \in 0 .. m /\ i \in 0 .. n /\ i \in Nat /\ g[i] # h[i]
  OBVIOUS
<1>3. i > 1
  BY <1>2 DEF StartsFibonacci
<1>4. g[i - 1] = h[i - 1] /\ g[i - 2] = h[i - 2]
  <2>1. i - 1 \in Nat /\ i - 2 \in Nat /\ ~(i <= i - 1) /\ ~(i <= i - 2)
    BY <1>2, <1>3
  <2>2. i - 1 \notin T /\ i - 2 \notin T
    BY <1>1, <2>1
  <2>3. i - 1 <= m /\ i - 1 <= n /\ i - 2 <= m /\ i - 2 <= n
    BY <1>2
  <2>4. QED
    BY <2>1, <2>2, <2>3
<1>5. QED
  BY <1>2, <1>3, <1>4 DEF StartsFibonacci

\* The recursive definition defines something.
LEMMA FibonacciExists ==
  \E f : f = [n \in Nat |-> IF n <= 1 THEN n + 1 ELSE f[n - 1] + f[n - 2]]
<1> DEFINE start(n) == CHOOSE g : StartsFibonacci(g, n)
           f == [n \in Nat |-> start(n)[n]]
<1>1. \A n \in Nat : StartsFibonacci(start(n), n)
  BY FibonacciStarts
<1> HIDE DEF start
<1>2. ASSUME NEW n \in Nat, NEW m \in Nat, m <= n PROVE start(n)[m] = f[m]
  BY <1>1, <1>2, FibonacciUnique
<1>3. ASSUME NEW n \in Nat PROVE f[n] = IF n <= 1 THEN n + 1 ELSE f[n - 1] + f[n - 2]
  <2>1. f[n] = start(n)[n] /\ n \in 0 .. n
    OBVIOUS
  <2>2. start(n)[n] = IF n <= 1 THEN n + 1 ELSE start(n)[n - 1] + start(n)[n - 2]
    BY <1>1, <2>1 DEF StartsFibonacci
  <2>3. n > 1 => start(n)[n - 1] = f[n - 1] /\ start(n)[n - 2] = f[n - 2]
    BY <1>2
  <2> HIDE DEF f
  <2>4. QED
    BY <2>1, <2>2, <2>3
<1>4. f = [n \in Nat |-> f[n]]
  OBVIOUS
<1> HIDE DEF f
<1>5. f = [n \in Nat |-> IF n <= 1 THEN n + 1 ELSE f[n - 1] + f[n - 2]]
  BY <1>3, <1>4
<1>6. QED
  BY <1>5

\* So the recursive equation holds for every number.
LEMMA FibonacciDef ==
  /\ DOMAIN fibonacci = Nat
  /\ \A n \in Nat : fibonacci[n] = IF n <= 1 THEN n + 1 ELSE fibonacci[n - 1] + fibonacci[n - 2]
<1>1. fibonacci = [n \in Nat |-> IF n <= 1 THEN n + 1 ELSE fibonacci[n - 1] + fibonacci[n - 2]]
  BY FibonacciExists, Zenon DEF fibonacci
<1>2. QED
  BY <1>1

\* They are numbers, grow, and each is past its position.
LEMMA FibonacciAhead ==
  \A n \in Nat : fibonacci[n] \in Nat /\ fibonacci[n] >= n + 1 /\ fibonacci[n + 1] > fibonacci[n]
<1> DEFINE Good(n) == fibonacci[n] \in Nat /\ fibonacci[n] >= n + 1 
           T == {n \in Nat : ~Good(n)}
<1>1. T = {}
  <2> SUFFICES ASSUME T # {} PROVE FALSE
    OBVIOUS
  <2>1. PICK n \in T : \A m \in T : n <= m
    BY LeastNat
  <2>2. n \in Nat /\ ~Good(n)
    OBVIOUS
  <2>3. n > 1
    BY <2>2, FibonacciDef
  <2>4. n - 1 \in Nat /\ n - 2 \in Nat /\ ~(n <= n - 1) /\ ~(n <= n - 2)
    BY <2>2, <2>3
  <2>5. Good(n - 1) /\ Good(n - 2)
    BY <2>1, <2>4
  <2>6. fibonacci[n] = fibonacci[n - 1] + fibonacci[n - 2]
    BY <2>2, <2>3, FibonacciDef
  <2>7. QED
    BY <2>2, <2>3, <2>5, <2>6
<1>2. \A n \in Nat : fibonacci[n] \in Nat /\ fibonacci[n] >= n + 1
  BY <1>1
<1>3. ASSUME NEW n \in Nat PROVE fibonacci[n + 1] > fibonacci[n]
  <2>1. CASE n = 0
    BY <2>1, FibonacciDef
  <2>2. CASE n # 0
    <3>1. fibonacci[n + 1] = fibonacci[n] + fibonacci[n - 1]
      <4>1. PICK m \in Nat : m = n + 1
        OBVIOUS
      <4>2. fibonacci[m] = fibonacci[m - 1] + fibonacci[m - 2] /\ m - 1 = n /\ m - 2 = n - 1
        BY <2>2, <4>1, FibonacciDef
      <4>3. QED
        BY <4>1, <4>2
    <3>2. n - 1 \in Nat
      BY <2>2
    <3>3. fibonacci[n - 1] \in Nat /\ fibonacci[n - 1] >= 1 /\ fibonacci[n] \in Nat
      BY <1>2, <3>2
    <3>4. QED
      BY <3>1, <3>3
  <2>3. QED
    BY <2>1, <2>2
<1>4. QED
  BY <1>2, <1>3

\* The numbers keep their order.
LEMMA FibonacciGrowsOn ==
  ASSUME NEW m \in Nat, NEW n \in Nat, m <= n
  PROVE  fibonacci[m] <= fibonacci[n]
<1> DEFINE T == {i \in Nat : m <= i /\ fibonacci[i] < fibonacci[m]}
<1>1. \A i \in Nat : fibonacci[i] \in Nat
  BY FibonacciAhead
<1>2. T = {}
  <2> SUFFICES ASSUME T # {} PROVE FALSE
    OBVIOUS
  <2>1. PICK i \in T : \A k \in T : i <= k
    BY LeastNat
  <2>2. i \in Nat /\ m <= i /\ fibonacci[i] < fibonacci[m]
    OBVIOUS
  <2>3. i # m
    BY <1>1, <2>2
  <2>4. PICK k \in Nat : k = i - 1
    BY <2>2, <2>3
  <2>5. k \notin T /\ m <= k
    BY <2>1, <2>2, <2>3, <2>4
  <2>6. fibonacci[m] <= fibonacci[k]
    BY <1>1, <2>4, <2>5
  <2>7. fibonacci[k + 1] > fibonacci[k] /\ k + 1 = i
    BY <2>2, <2>4, FibonacciAhead
  <2>8. QED
    BY <1>1, <2>2, <2>4, <2>6, <2>7
<1>3. QED
  BY <1>1, <1>2

-----------------------------------------------------------------------------
(* What a finished sequence reaches: how far each strategy has come.        *)

Elements(s) == {s[i] : i \in 1 .. Len(s)}

\* generateFibonacci is at the k-th number, and has listed those before it.
IsAt(k) == b = fibonacci[k] /\ a = (IF k = 0 THEN 1 ELSE fibonacci[k - 1])
NumbersBefore(k, lo, hi) == {fibonacci[n] : n \in 0 .. k - 1} \cap lo .. hi

FibonacciSoFar ==
  config.strategy = "fibonacci" =>
    /\ pc = "fibWorkers" =>
         \E k \in Nat : /\ IsAt(k) /\ fibConns = <<>>
                        /\ Elements(fibWorkers) = NumbersBefore(k, config.minWorkers, config.maxWorkers)
    /\ pc # "fibWorkers" =>
         Elements(fibWorkers) = FibonacciNumbers(config.minWorkers, config.maxWorkers)
    /\ pc = "fibConns" =>
         \E k \in Nat : /\ IsAt(k)
                        /\ Elements(fibConns) = NumbersBefore(k, config.minConns, config.maxConns)
    /\ pc \notin {"fibWorkers", "fibConns"} =>
         Elements(fibConns) = FibonacciNumbers(config.minConns, config.maxConns)
    /\ pc \in {"fibWorkers", "fibConns"} => sequence = <<>> /\ workers = 1 /\ conns = 1

\* The bands are the combinations before the positions of the loops.
Passed(w, c) == {p \in (1 .. Len(fibWorkers)) \X (1 .. Len(fibConns)) : p[1] < w \/ (p[1] = w /\ p[2] < c)}
CombinedIn(P) == {[workers |-> fibWorkers[p[1]], conns |-> fibConns[p[2]]] : p \in P}

CombinedSoFar ==
  config.strategy = "fibonacci" /\ pc = "loop" =>
    /\ workers <= Len(fibWorkers) + 1
    /\ conns <= Len(fibConns) \/ conns = 1
    /\ Elements(sequence) = CombinedIn(Passed(workers, conns))

AtTheTop(s) ==
  /\ config.maxWorkers - s[Bands].workers \in {0} \cup Rounding
  /\ config.maxConns - s[Bands].conns \in {0} \cup Rounding

CountedSoFar ==
  /\ config.strategy = "balanced" => Len(sequence) <= Bands /\ (Len(sequence) = Bands => AtTheTop(sequence))
  /\ config.strategy = "linear" => Len(sequence) <= MaxBands
  /\ config.strategy # "fibonacci" => pc \notin {"fibWorkers", "fibConns"}

ReachInv == ReachesItsGoal /\ FibonacciSoFar /\ CombinedSoFar /\ CountedSoFar

\* The members of a list.
LEMMA NoElements == Elements(<<>>) = {}
  BY DEF Elements

LEMMA AppendElements ==
  ASSUME NEW S, NEW s \in Seq(S), NEW x \in S
  PROVE  Elements(Append(s, x)) = Elements(s) \cup {x}
<1> DEFINE t == Append(s, x)
<1>1. /\ Len(t) = Len(s) + 1 /\ Len(s) \in Nat
      /\ \A i \in 1 .. Len(s) : t[i] = s[i]
      /\ t[Len(s) + 1] = x
  OBVIOUS
<1> HIDE DEF t
<1>2. 1 .. Len(t) = 1 .. Len(s) \cup {Len(s) + 1}
  BY <1>1
<1>3. Elements(t) = Elements(s) \cup {x}
  BY <1>1, <1>2 DEF Elements
<1>4. QED
  BY <1>3 DEF t

\* A step of generateFibonacci goes on to the next number.
LEMMA AdvanceIsAt ==
  ASSUME NEW k \in Nat, IsAt(k), Advance
  PROVE  b' = fibonacci[k + 1] /\ a' = fibonacci[k]
<1>1. PICK n \in Nat : n = k + 1 /\ n - 1 = k /\ n - 2 = k - 1
  OBVIOUS
<1>2. fibonacci[n] = IF n <= 1 THEN n + 1 ELSE fibonacci[k] + fibonacci[k - 1]
  BY <1>1, FibonacciDef
<1>3. CASE k = 0
  BY <1>1, <1>2, <1>3, FibonacciDef DEF IsAt, Advance
<1>4. CASE k # 0
  <2>1. k - 1 \in Nat /\ fibonacci[k] \in Nat
    BY <1>4, FibonacciAhead
  <2>2. fibonacci[k - 1] \in Nat
    BY <2>1, FibonacciAhead
  <2>3. a' = fibonacci[k] /\ b' = fibonacci[k - 1] + fibonacci[k]
    BY <1>4 DEF IsAt, Advance
  <2>4. fibonacci[n] = fibonacci[k] + fibonacci[k - 1]
    BY <1>1, <1>2, <1>4
  <2>5. QED
    BY <1>1, <2>1, <2>2, <2>3, <2>4
<1>5. QED
  BY <1>3, <1>4

\* The numbers before the next one.
LEMMA NextNumber ==
  ASSUME NEW k \in Nat, NEW lo, NEW hi
  PROVE  NumbersBefore(k + 1, lo, hi) = NumbersBefore(k, lo, hi) \cup ({fibonacci[k]} \cap lo .. hi)
<1>1. 0 .. (k + 1) - 1 = 0 .. k - 1 \cup {k}
  OBVIOUS
<1>2. QED
  BY <1>1, Zenon DEF NumbersBefore

\* Once the numbers are past the limit there are no more.
LEMMA NoMoreNumbers ==
  ASSUME NEW k \in Nat, NEW lo \in Nat, NEW hi \in 1 .. MaxLimit, fibonacci[k] > hi
  PROVE  NumbersBefore(k, lo, hi) = FibonacciNumbers(lo, hi)
<1>1. \A n \in Nat : fibonacci[n] \in Nat /\ fibonacci[n] >= n + 1
  BY FibonacciAhead
<1>2. ASSUME NEW n \in Nat, fibonacci[n] <= hi PROVE n \in 0 .. k - 1 /\ n \in 0 .. MaxLimit
  <2>1. n < k
    BY <1>1, <1>2, FibonacciGrowsOn
  <2>2. n <= MaxLimit
    BY <1>1, <1>2, SequenceAssumption
  <2>3. QED
    BY <2>1, <2>2
<1>3. ASSUME NEW x PROVE x \in NumbersBefore(k, lo, hi) <=> x \in FibonacciNumbers(lo, hi)
  <2>1. ASSUME x \in NumbersBefore(k, lo, hi) PROVE x \in FibonacciNumbers(lo, hi)
    <3>1. PICK n \in 0 .. k - 1 : x = fibonacci[n] /\ x \in lo .. hi
      BY <2>1 DEF NumbersBefore
    <3>2. n \in Nat /\ fibonacci[n] <= hi
      BY <3>1
    <3>3. n \in 0 .. MaxLimit
      BY <1>2, <3>2
    <3>4. QED
      BY <3>1, <3>3 DEF FibonacciNumbers
  <2>2. ASSUME x \in FibonacciNumbers(lo, hi) PROVE x \in NumbersBefore(k, lo, hi)
    <3>1. PICK n \in 0 .. MaxLimit : x = fibonacci[n] /\ x \in lo .. hi
      BY <2>2 DEF FibonacciNumbers
    <3>2. n \in Nat /\ fibonacci[n] <= hi
      BY <3>1, SequenceAssumption
    <3>3. n \in 0 .. k - 1
      BY <1>2, <3>2
    <3>4. QED
      BY <3>1, <3>3 DEF NumbersBefore
  <2>3. QED
    BY <2>1, <2>2
<1>4. QED
  BY <1>3

\* generateFibonacci starts at the first number.
LEMMA InitReachInv == Init => ReachInv
<1> SUFFICES ASSUME Init PROVE ReachInv
  OBVIOUS
<1>1. config \in Configs /\ sequence = <<>> /\ fibWorkers = <<>> /\ fibConns = <<>> /\ a = 1 /\ b = 1
      /\ pc = IF config.strategy = "fibonacci" THEN "fibWorkers" ELSE "loop"
  BY DEF Init
<1>2. FibonacciSoFar
  <2>1. IsAt(0)
    BY <1>1, FibonacciDef DEF IsAt
  <2>2. NumbersBefore(0, config.minWorkers, config.maxWorkers) = {}
    BY DEF NumbersBefore
  <2>3. config.strategy = "fibonacci" => pc = "fibWorkers" /\ workers = 1 /\ conns = 1
    BY DEF Init
  <2>4. QED
    BY <1>1, <2>1, <2>2, <2>3, NoElements DEF FibonacciSoFar
<1>3. CountedSoFar
  <2>1. Len(sequence) = 0
    BY <1>1
  <2>2. Bands \in Nat /\ Bands # 0 /\ MaxBands \in Nat
    <3>1. config.bands \in {n \in Int : n <= 0} \cup 3 .. 25
      BY <1>1, ConfigFacts
    <3>2. QED
      BY <3>1 DEF Bands, MaxBands
  <2>3. QED
    BY <1>1, <2>1, <2>2 DEF CountedSoFar
<1>4. ReachesItsGoal /\ CombinedSoFar
  BY <1>1 DEF ReachesItsGoal, CombinedSoFar
<1>5. QED
  BY <1>2, <1>3, <1>4 DEF ReachInv

\* Another strategy than fibonacci that goes on.
LEMMA OtherGoesOn ==
  ASSUME config'.strategy # "fibonacci", pc' = "loop", CountedSoFar'
  PROVE  ReachInv'
  BY DEF ReachInv, FibonacciSoFar, CombinedSoFar, ReachesItsGoal

\* linear checks the number of bands before each.
LEMMA LinearBandReach == ASSUME IInv, ReachInv, LinearBand PROVE ReachInv'
<1>1. /\ config.strategy = "linear" /\ config' = config /\ pc' = "loop" /\ Len(sequence) < MaxBands
      /\ sequence' = Append(sequence, [workers |-> workers, conns |-> conns])
  BY DEF LinearBand, Running, AddBand
<1>2. config \in Configs /\ sequence \in Seq(Band)
  BY DEF IInv, TypeOK
<1>3. Len(sequence') = Len(sequence) + 1 /\ Len(sequence) \in Nat
  BY <1>1, <1>2
<1>4. MaxBands \in Nat /\ MaxBands' = MaxBands
  <2>1. config.bands \in {n \in Int : n <= 0} \cup 3 .. 25
    BY <1>2, ConfigFacts
  <2>2. MaxBands \in Nat
    BY <2>1 DEF MaxBands
  <2>3. MaxBands' = MaxBands
    BY <1>1 DEF MaxBands
  <2>4. QED
    BY <2>2, <2>3
<1>5. CountedSoFar'
  <2>1. Len(sequence') <= MaxBands'
    BY <1>1, <1>3, <1>4
  <2>2. QED
    BY <1>1, <2>1 DEF CountedSoFar
<1>6. QED
  BY <1>1, <1>5, OtherGoesOn

\* All parts together are the range.
LEMMA WholeRange ==
  ASSUME NEW k \in Nat \ {0}, NEW r \in Nat
  PROVE  (k * r) \div k = r /\ (k * r) % k = 0 /\ (k * r > 0 <=> r > 0)
  OBVIOUS

\* The last balanced band is at the limit, but for the rounding.
LEMMA LastPart ==
  ASSUME config \in Configs, Len(sequence) = Bands - 1,
         NEW low \in Nat, NEW high \in Nat, low <= high, NEW e \in Rounding
  PROVE  high - AtMost(high, low + Scaled(high - low, e)) \in {0} \cup Rounding
<1>1. PICK k \in Nat \ {0} : k = Bands - 1
  BY BandsAreThree
<1>2. PICK r \in Nat : r = high - low
  OBVIOUS
<1>3. Scaled(high - low, e) = IF r > 0 THEN r - e ELSE 0
  <2>1. Scaled(high - low, e) = IF k * r > 0 /\ (k * r) % k = 0 THEN (k * r) \div k - e ELSE (k * r) \div k
    BY <1>1, <1>2 DEF Scaled, PartOf
  <2>2. QED
    BY <1>2, <2>1, WholeRange
<1>4. e \in {0, 1}
  BY SequenceAssumption
<1>5. AtMost(high, low + Scaled(high - low, e)) = high \/ AtMost(high, low + Scaled(high - low, e)) = high - e
  BY <1>2, <1>3, <1>4 DEF AtMost
<1>6. high - high = 0 /\ high - (high - e) = e
  BY <1>4
<1>7. QED
  BY <1>5, <1>6

\* balanced makes one band after the other, the last at the limits.
LEMMA BalancedBandReach == ASSUME IInv, ReachInv, BalancedBand PROVE ReachInv'
<1>1. config.strategy = "balanced" /\ config' = config /\ pc' = "loop" /\ Len(sequence) < Bands
  BY DEF BalancedBand, Running
<1>2. PICK ew \in Rounding, ec \in Rounding :
        AddBand(AtMost(config.maxWorkers,
                       config.minWorkers + Scaled(config.maxWorkers - config.minWorkers, ew)),
                AtMost(config.maxConns,
                       config.minConns + Scaled(config.maxConns - config.minConns, ec)))
  BY DEF BalancedBand
<1>3. config \in Configs /\ sequence \in Seq(Band)
  BY DEF IInv, TypeOK
<1> DEFINE w == AtMost(config.maxWorkers, config.minWorkers + Scaled(config.maxWorkers - config.minWorkers, ew))
           c == AtMost(config.maxConns, config.minConns + Scaled(config.maxConns - config.minConns, ec))
<1>4. Len(sequence') = Len(sequence) + 1 /\ Len(sequence) \in Nat
      /\ sequence'[Len(sequence) + 1] = [workers |-> w, conns |-> c]
  BY <1>2, <1>3 DEF AddBand
<1>5. Bands \in Nat /\ Bands' = Bands
  BY <1>1, <1>3, BandsAreThree DEF Bands
<1>6. ASSUME Len(sequence') = Bands PROVE AtTheTop(sequence)'
  <2>1. Len(sequence) = Bands - 1 /\ Bands = Len(sequence) + 1
    BY <1>4, <1>5, <1>6
  <2>2. /\ config.minWorkers \in Nat /\ config.maxWorkers \in Nat /\ config.minWorkers <= config.maxWorkers
        /\ config.minConns \in Nat /\ config.maxConns \in Nat /\ config.minConns <= config.maxConns
    BY <1>3, ConfigFacts
  <2>3. config.maxWorkers - w \in {0} \cup Rounding /\ config.maxConns - c \in {0} \cup Rounding
    BY <1>3, <2>1, <2>2, LastPart
  <2> HIDE DEF w, c
  <2>4. sequence'[Bands'].workers = w /\ sequence'[Bands'].conns = c
    BY <1>4, <1>5, <2>1
  <2>5. QED
    BY <1>1, <2>3, <2>4 DEF AtTheTop
<1>7. CountedSoFar'
  <2>1. Len(sequence') <= Bands
    BY <1>1, <1>4, <1>5
  <2>2. QED
    BY <1>1, <1>5, <1>6, <2>1 DEF CountedSoFar
<1>8. QED
  BY <1>1, <1>7, OtherGoesOn

\* synchronized has no such goal.
LEMMA SynchronizedBandReach == ASSUME SynchronizedBand PROVE ReachInv'
<1>1. config'.strategy = "synchronized" /\ pc' = "loop"
  BY DEF SynchronizedBand, Running
<1>2. QED
  BY <1>1, OtherGoesOn DEF CountedSoFar

\* exponential ends when doubling has no effect any more, which is at both limits.
LEMMA ExponentialBandReach == ASSUME IInv, ExponentialBand PROVE ReachInv'
<1>1. /\ config'.strategy = "exponential" /\ config' = config
      /\ sequence' = Append(sequence, [workers |-> workers, conns |-> conns])
      /\ workers' = AtMost(config.maxWorkers, workers * 2)
      /\ conns' = AtMost(config.maxConns, conns * 2)
      /\ pc' = IF workers' = workers /\ conns' = conns THEN "done" ELSE "loop"
  BY DEF ExponentialBand, Running, AddBand
<1>2. CountedSoFar'
  BY <1>1 DEF CountedSoFar
<1>3. CASE pc' = "loop"
  BY <1>1, <1>2, <1>3, OtherGoesOn
<1>4. CASE pc' = "done"
  <2>1. config \in Configs /\ sequence \in Seq(Band)
    BY DEF IInv, TypeOK
  <2>2. workers \in Nat \ {0} /\ conns \in Nat \ {0} /\ config.maxWorkers \in Nat /\ config.maxConns \in Nat
    BY <2>1, ConfigFacts DEF IInv, TypeOK
  <2>3. workers = config.maxWorkers /\ conns = config.maxConns
    BY <1>1, <1>4, <2>2 DEF AtMost
  <2>4. sequence'[Len(sequence')] = [workers |-> workers, conns |-> conns]
    BY <1>1, <2>1
  <2>5. ReachesItsGoal'
    BY <1>1, <2>3, <2>4 DEF ReachesItsGoal
  <2>6. QED
    BY <1>1, <1>2, <1>4, <2>5 DEF ReachInv, FibonacciSoFar, CombinedSoFar
<1>5. QED
  BY <1>1, <1>3, <1>4

\* The numbers of workers are listed up to the limit.
LEMMA FibonacciWorkersReach == ASSUME IInv, ReachInv, FibonacciWorkers PROVE ReachInv'
<1>1. /\ pc = "fibWorkers" /\ config' = config /\ config.strategy = "fibonacci"
      /\ UNCHANGED <<sequence, workers, conns, fibConns>>
      /\ sequence = <<>> /\ workers = 1 /\ conns = 1
  BY DEF FibonacciWorkers, loop, ReachInv, CountedSoFar, FibonacciSoFar
<1>2. PICK k \in Nat : /\ IsAt(k) /\ fibConns = <<>>
                       /\ Elements(fibWorkers) = NumbersBefore(k, config.minWorkers, config.maxWorkers)
  BY <1>1 DEF ReachInv, FibonacciSoFar
<1>3. /\ config.minWorkers \in Nat /\ config.maxWorkers \in Nat /\ config.maxWorkers \in 1 .. MaxLimit
      /\ fibWorkers \in Seq(Nat) /\ b \in Nat /\ b = fibonacci[k] /\ k + 1 \in Nat
  <2>1. config \in Configs /\ fibWorkers \in Seq(1 .. MaxLimit) /\ b \in Nat
    BY DEF IInv, TypeOK
  <2>2. config.minWorkers \in 1 .. MaxLimit /\ config.maxWorkers \in 1 .. MaxLimit
    BY <2>1, ConfigFacts
  <2>3. 1 .. MaxLimit \subseteq Nat
    BY SequenceAssumption
  <2>4. fibWorkers \in Seq(Nat)
    BY <2>1, <2>3, SubsetSeq
  <2>5. QED
    BY <1>2, <2>1, <2>2, <2>3, <2>4 DEF IsAt
<1> DEFINE lo == config.minWorkers
           hi == config.maxWorkers
<1>a. NumbersBefore(k + 1, lo, hi) = Elements(fibWorkers) \cup ({fibonacci[k]} \cap lo .. hi)
  BY <1>2, NextNumber, Zenon
<1>4. CASE Advance /\ pc' = pc /\ Elements(fibWorkers') = NumbersBefore(k + 1, lo, hi)
  <2>1. IsAt(k + 1)'
    <3>1. k + 1 # 0 /\ (k + 1) - 1 = k
      OBVIOUS
    <3>2. b' = fibonacci[k + 1] /\ a' = fibonacci[k]
      BY <1>2, <1>4, AdvanceIsAt
    <3>3. QED
      BY <3>1, <3>2 DEF IsAt
  <2>2. FibonacciSoFar'
    BY <1>1, <1>2, <1>3, <1>4, <2>1 DEF FibonacciSoFar
  <2>3. QED
    BY <1>1, <1>4, <2>2 DEF ReachInv, ReachesItsGoal, CombinedSoFar, CountedSoFar
<1>5. CASE b < lo /\ Advance /\ UNCHANGED <<fibWorkers, pc>>
  <2>1. {fibonacci[k]} \cap lo .. hi = {}
    BY <1>3, <1>5
  <2>2. Elements(fibWorkers') = NumbersBefore(k + 1, lo, hi)
    BY <1>5, <1>a, <2>1
  <2>3. QED
    BY <1>4, <1>5, <2>2
<1>6. CASE b >= lo /\ b <= hi /\ fibWorkers' = Append(fibWorkers, b) /\ Advance /\ UNCHANGED pc
  <2>1. {fibonacci[k]} \cap lo .. hi = {b}
    BY <1>3, <1>6
  <2>2. Elements(fibWorkers') = Elements(fibWorkers) \cup {b}
    BY <1>3, <1>6, AppendElements
  <2>3. Elements(fibWorkers') = NumbersBefore(k + 1, lo, hi)
    BY <1>a, <2>1, <2>2
  <2>4. QED
    BY <1>4, <1>6, <2>3
<1>7. CASE b > hi /\ a' = 1 /\ b' = 1 /\ pc' = "fibConns" /\ UNCHANGED fibWorkers
  <2>1. Elements(fibWorkers) = FibonacciNumbers(lo, hi)
    BY <1>2, <1>3, <1>7, NoMoreNumbers
  <2>2. IsAt(0)'
    BY <1>7, FibonacciDef DEF IsAt
  <2>3. Elements(fibConns') = NumbersBefore(0, config.minConns, config.maxConns)
    <3>1. NumbersBefore(0, config.minConns, config.maxConns) = {}
      BY DEF NumbersBefore
    <3>2. QED
      BY <1>1, <1>2, <3>1, NoElements
  <2>4. FibonacciSoFar'
    BY <1>1, <1>7, <2>1, <2>2, <2>3 DEF FibonacciSoFar
  <2>5. QED
    BY <1>1, <1>7, <2>4 DEF ReachInv, ReachesItsGoal, CombinedSoFar, CountedSoFar
<1>8. QED
  BY <1>5, <1>6, <1>7 DEF FibonacciWorkers

\* Then those of connections.
LEMMA FibonacciConnsReach == ASSUME IInv, ReachInv, FibonacciConns PROVE ReachInv'
<1>1. /\ pc = "fibConns" /\ config' = config /\ config.strategy = "fibonacci"
      /\ UNCHANGED <<sequence, workers, conns, fibWorkers>>
      /\ sequence = <<>> /\ workers = 1 /\ conns = 1
      /\ Elements(fibWorkers) = FibonacciNumbers(config.minWorkers, config.maxWorkers)
  BY DEF FibonacciConns, loop, ReachInv, CountedSoFar, FibonacciSoFar
<1>2. PICK k \in Nat : /\ IsAt(k)
                       /\ Elements(fibConns) = NumbersBefore(k, config.minConns, config.maxConns)
  BY <1>1 DEF ReachInv, FibonacciSoFar
<1>3. /\ config.minConns \in Nat /\ config.maxConns \in Nat /\ config.maxConns \in 1 .. MaxLimit
      /\ fibConns \in Seq(Nat) /\ b \in Nat /\ b = fibonacci[k] /\ k + 1 \in Nat
  <2>1. config \in Configs /\ fibConns \in Seq(1 .. MaxLimit) /\ b \in Nat
    BY DEF IInv, TypeOK
  <2>2. config.minConns \in 1 .. MaxLimit /\ config.maxConns \in 1 .. MaxLimit
    BY <2>1, ConfigFacts
  <2>3. 1 .. MaxLimit \subseteq Nat
    BY SequenceAssumption
  <2>4. fibConns \in Seq(Nat)
    BY <2>1, <2>3, SubsetSeq
  <2>5. QED
    BY <1>2, <2>1, <2>2, <2>3, <2>4 DEF IsAt
<1> DEFINE lo == config.minConns
           hi == config.maxConns
<1>a. NumbersBefore(k + 1, lo, hi) = Elements(fibConns) \cup ({fibonacci[k]} \cap lo .. hi)
  BY <1>2, NextNumber, Zenon
<1>4. CASE Advance /\ pc' = pc /\ Elements(fibConns') = NumbersBefore(k + 1, lo, hi)
  <2>1. IsAt(k + 1)'
    <3>1. k + 1 # 0 /\ (k + 1) - 1 = k
      OBVIOUS
    <3>2. b' = fibonacci[k + 1] /\ a' = fibonacci[k]
      BY <1>2, <1>4, AdvanceIsAt
    <3>3. QED
      BY <3>1, <3>2 DEF IsAt
  <2>2. FibonacciSoFar'
    BY <1>1, <1>2, <1>3, <1>4, <2>1 DEF FibonacciSoFar, FibonacciNumbers
  <2>3. QED
    BY <1>1, <1>4, <2>2 DEF ReachInv, ReachesItsGoal, CombinedSoFar, CountedSoFar
<1>5. CASE b < lo /\ Advance /\ UNCHANGED <<fibConns, pc>>
  <2>1. {fibonacci[k]} \cap lo .. hi = {}
    BY <1>3, <1>5
  <2>2. Elements(fibConns') = NumbersBefore(k + 1, lo, hi)
    BY <1>5, <1>a, <2>1
  <2>3. QED
    BY <1>4, <1>5, <2>2
<1>6. CASE b >= lo /\ b <= hi /\ fibConns' = Append(fibConns, b) /\ Advance /\ UNCHANGED pc
  <2>1. {fibonacci[k]} \cap lo .. hi = {b}
    BY <1>3, <1>6
  <2>2. Elements(fibConns') = Elements(fibConns) \cup {b}
    BY <1>3, <1>6, AppendElements
  <2>3. Elements(fibConns') = NumbersBefore(k + 1, lo, hi)
    BY <1>a, <2>1, <2>2
  <2>4. QED
    BY <1>4, <1>6, <2>3
<1>7. CASE b > hi /\ pc' = "loop" /\ UNCHANGED fibConns
  <2>1. Elements(fibConns) = FibonacciNumbers(lo, hi)
    BY <1>2, <1>3, <1>7, NoMoreNumbers
  <2>2. FibonacciSoFar'
    BY <1>1, <1>7, <2>1 DEF FibonacciSoFar, FibonacciNumbers
  <2>3. CombinedSoFar'
    <3>1. Passed(1, 1)' = {}
      BY DEF Passed
    <3>2. CombinedIn(Passed(1, 1))' = {}
      BY <3>1 DEF CombinedIn
    <3>3. Elements(sequence') = {}
      BY <1>1, NoElements
    <3>4. Len(fibWorkers') \in Nat
      <4>1. fibWorkers \in Seq(1 .. MaxLimit)
        BY DEF IInv, TypeOK
      <4>2. QED
        BY <1>1, <4>1, LenProperties
    <3>5. workers' = 1 /\ conns' = 1
      BY <1>1
    <3>6. QED
      BY <3>2, <3>3, <3>4, <3>5 DEF CombinedSoFar
  <2>4. QED
    BY <1>1, <1>7, <2>2, <2>3 DEF ReachInv, ReachesItsGoal, CountedSoFar
<1>8. QED
  BY <1>5, <1>6, <1>7 DEF FibonacciConns

\* The loops go from one combination to the next.
LEMMA FibonacciBandReach == ASSUME IInv, ReachInv, FibonacciBand PROVE ReachInv'
<1>1. /\ config' = config /\ config.strategy = "fibonacci" /\ pc = "loop"
      /\ UNCHANGED <<fibWorkers, fibConns, a, b, pc>>
      /\ workers <= Len(fibWorkers) /\ conns <= Len(fibConns)
      /\ sequence' = Append(sequence, [workers |-> fibWorkers[workers], conns |-> fibConns[conns]])
      /\ \/ conns < Len(fibConns) /\ conns' = conns + 1 /\ workers' = workers
         \/ conns >= Len(fibConns) /\ conns' = 1 /\ workers' = workers + 1
  <2>1. Len(fibConns) \in Nat /\ conns \in Nat
    BY LenProperties DEF IInv, TypeOK
  <2>2. QED
    BY <2>1 DEF FibonacciBand, Running, AddBand, fibs
<1>2. /\ sequence \in Seq(Band) /\ workers \in Nat \ {0} /\ conns \in Nat \ {0}
      /\ Len(fibWorkers) \in Nat /\ Len(fibConns) \in Nat
  BY LenProperties DEF IInv, TypeOK
<1> DEFINE band == [workers |-> fibWorkers[workers], conns |-> fibConns[conns]]
<1>3. Elements(sequence) = CombinedIn(Passed(workers, conns))
  BY <1>1 DEF ReachInv, CombinedSoFar
<1>4. Elements(sequence') = Elements(sequence) \cup {band}
  <2>1. band \in Band
    <3>0. fibWorkers \in Seq(1 .. MaxLimit) /\ fibConns \in Seq(1 .. MaxLimit)
      BY DEF IInv, TypeOK
    <3>1. workers \in 1 .. Len(fibWorkers) /\ conns \in 1 .. Len(fibConns)
      BY <1>1, <1>2
    <3>2. \A i \in 1 .. Len(fibWorkers) : fibWorkers[i] \in 1 .. MaxLimit
      BY <3>0, ElementOfSeq
    <3>3. \A i \in 1 .. Len(fibConns) : fibConns[i] \in 1 .. MaxLimit
      BY <3>0, ElementOfSeq
    <3>4. QED
      BY <3>1, <3>2, <3>3 DEF Band
  <2>2. QED
    BY <1>1, <1>2, <2>1, AppendElements
<1>5. Passed(workers, conns)' = Passed(workers, conns) \cup {<<workers, conns>>}
  <2>1. ASSUME NEW i \in 1 .. Len(fibWorkers), NEW j \in 1 .. Len(fibConns)
        PROVE  (i < workers' \/ (i = workers' /\ j < conns'))
                  <=> (i < workers \/ (i = workers /\ j < conns)) \/ (i = workers /\ j = conns)
    <3>1. CASE conns < Len(fibConns) /\ conns' = conns + 1 /\ workers' = workers
      BY <1>2, <3>1
    <3>2. CASE conns >= Len(fibConns) /\ conns' = 1 /\ workers' = workers + 1
      BY <1>1, <1>2, <3>2
    <3>3. QED
      BY <1>1, <3>1, <3>2
  <2>2. <<workers, conns>> \in (1 .. Len(fibWorkers)) \X (1 .. Len(fibConns))
    BY <1>1, <1>2
  <2>3. QED
    BY <1>1, <2>1, <2>2 DEF Passed
<1>6. CombinedIn(Passed(workers, conns))' = CombinedIn(Passed(workers, conns)) \cup {band}
  <2>1. CombinedIn(Passed(workers, conns))'
          = {[workers |-> fibWorkers[p[1]], conns |-> fibConns[p[2]]] : p \in Passed(workers, conns) \cup {<<workers, conns>>}}
    BY <1>1, <1>5 DEF CombinedIn
  <2>2. <<workers, conns>>[1] = workers /\ <<workers, conns>>[2] = conns
    OBVIOUS
  <2>3. QED
    BY <2>1, <2>2, Zenon DEF CombinedIn
<1>7. workers' <= Len(fibWorkers') + 1 /\ (conns' <= Len(fibConns') \/ conns' = 1)
  BY <1>1, <1>2
<1>8. CombinedSoFar'
  BY <1>3, <1>4, <1>6, <1>7 DEF CombinedSoFar
<1>9. FibonacciSoFar'
  BY <1>1 DEF ReachInv, FibonacciSoFar, FibonacciNumbers
<1>10. QED
  BY <1>1, <1>8, <1>9 DEF ReachInv, ReachesItsGoal, CountedSoFar

\* At the end of the loops every combination was made.
LEMMA AllCombined ==
  ASSUME IInv, ReachInv, config.strategy = "fibonacci", pc = "loop",
         ~(workers <= Len(fibWorkers) /\ conns <= Len(fibConns))
  PROVE  Elements(sequence) = [workers : Elements(fibWorkers), conns : Elements(fibConns)]
<1>1. /\ workers \in Nat \ {0} /\ conns \in Nat \ {0}
      /\ Len(fibWorkers) \in Nat /\ Len(fibConns) \in Nat
  BY LenProperties DEF IInv, TypeOK
<1>2. /\ workers <= Len(fibWorkers) + 1 /\ (conns <= Len(fibConns) \/ conns = 1)
      /\ Elements(sequence) = CombinedIn(Passed(workers, conns))
  BY DEF ReachInv, CombinedSoFar
<1>3. Passed(workers, conns) = (1 .. Len(fibWorkers)) \X (1 .. Len(fibConns))
  <2>1. CASE workers = Len(fibWorkers) + 1
    BY <1>1, <2>1 DEF Passed
  <2>2. CASE Len(fibConns) = 0
    BY <2>2 DEF Passed
  <2>3. QED
    BY <1>1, <1>2, <2>1, <2>2
<1>4. CombinedIn((1 .. Len(fibWorkers)) \X (1 .. Len(fibConns)))
        = [workers : Elements(fibWorkers), conns : Elements(fibConns)]
  <2> DEFINE P == (1 .. Len(fibWorkers)) \X (1 .. Len(fibConns))
             R == [workers : Elements(fibWorkers), conns : Elements(fibConns)]
  <2>1. ASSUME NEW x \in CombinedIn(P) PROVE x \in R
    <3>1. PICK p \in P : x = [workers |-> fibWorkers[p[1]], conns |-> fibConns[p[2]]]
      BY DEF CombinedIn
    <3>2. p[1] \in 1 .. Len(fibWorkers) /\ p[2] \in 1 .. Len(fibConns)
      OBVIOUS
    <3>3. fibWorkers[p[1]] \in Elements(fibWorkers) /\ fibConns[p[2]] \in Elements(fibConns)
      BY <3>2 DEF Elements
    <3>4. QED
      BY <3>1, <3>3
  <2>2. ASSUME NEW x \in R PROVE x \in CombinedIn(P)
    <3>1. x.workers \in Elements(fibWorkers) /\ x.conns \in Elements(fibConns)
          /\ x = [workers |-> x.workers, conns |-> x.conns]
      OBVIOUS
    <3>2. PICK i \in 1 .. Len(fibWorkers) : x.workers = fibWorkers[i]
      BY <3>1 DEF Elements
    <3>3. PICK j \in 1 .. Len(fibConns) : x.conns = fibConns[j]
      BY <3>1 DEF Elements
    <3>4. PICK p \in P : p = <<i, j>>
      OBVIOUS
    <3>5. p[1] = i /\ p[2] = j
      BY <3>4
    <3>6. x = [workers |-> fibWorkers[p[1]], conns |-> fibConns[p[2]]]
      BY <3>1, <3>2, <3>3, <3>5
    <3>7. QED
      BY <3>6 DEF CombinedIn
  <2>3. QED
    BY <2>1, <2>2
<1>5. QED
  BY <1>2, <1>3, <1>4

\* What a strategy has counted is enough when its loop ends.
LEMMA EndsReach ==
  ASSUME IInv, ReachInv, LinearEnds \/ BalancedEnds \/ SynchronizedEnds \/ FibonacciEnds
  PROVE  ReachInv'
<1>1. /\ UNCHANGED <<config, sequence, workers, conns, fibWorkers, fibConns, a, b>>
      /\ pc = "loop" /\ pc' \in {"done", "error"}
  BY DEF LinearEnds, BalancedEnds, SynchronizedEnds, FibonacciEnds, Return, Running, loop, fibs
<1>2. sequence \in Seq(Band) /\ config \in Configs
  BY DEF IInv, TypeOK
<1>3. ReachesItsGoal'
  <2>1. CASE LinearEnds
    <3>1. config.strategy = "linear" /\ Len(sequence) <= MaxBands
      BY <2>1 DEF LinearEnds, Running, ReachInv, CountedSoFar
    <3>2. QED
      BY <1>1, <3>1 DEF ReachesItsGoal, MaxBands
  <2>2. CASE BalancedEnds
    <3>1. config.strategy = "balanced" /\ Len(sequence) = Bands
      BY <1>2, <2>2, BandsAreThree DEF BalancedEnds, Running, ReachInv, CountedSoFar
    <3>2. AtTheTop(sequence)
      BY <3>1 DEF ReachInv, CountedSoFar
    <3>3. QED
      BY <1>1, <3>1, <3>2 DEF ReachesItsGoal, AtTheTop, Bands
  <2>3. CASE SynchronizedEnds
    BY <1>1, <2>3 DEF SynchronizedEnds, Running, ReachesItsGoal
  <2>4. CASE FibonacciEnds
    <3>1. config.strategy = "fibonacci" /\ ~(workers <= Len(fibWorkers) /\ conns <= Len(fibConns))
      BY <2>4 DEF FibonacciEnds, Running
    <3>2. /\ Elements(fibWorkers) = FibonacciNumbers(config.minWorkers, config.maxWorkers)
          /\ Elements(fibConns) = FibonacciNumbers(config.minConns, config.maxConns)
      BY <1>1, <3>1 DEF ReachInv, FibonacciSoFar
    <3>3. Elements(sequence) = [workers : Elements(fibWorkers), conns : Elements(fibConns)]
      BY <1>1, <3>1, AllCombined
    <3>4. DOMAIN sequence = 1 .. Len(sequence)
      BY <1>2
    <3>5. {sequence[i] : i \in DOMAIN sequence} =
             [workers : FibonacciNumbers(config.minWorkers, config.maxWorkers),
              conns : FibonacciNumbers(config.minConns, config.maxConns)]
      BY <3>2, <3>3, <3>4 DEF Elements
    <3>6. QED
      BY <1>1, <3>1, <3>5 DEF ReachesItsGoal, FibonacciNumbers
  <2>5. QED
    BY <2>1, <2>2, <2>3, <2>4
<1>4. FibonacciSoFar'
  BY <1>1 DEF ReachInv, FibonacciSoFar, FibonacciNumbers
<1>5. CombinedSoFar' /\ CountedSoFar'
  BY <1>1 DEF ReachInv, CombinedSoFar, CountedSoFar, AtTheTop, Bands, MaxBands
<1>6. QED
  BY <1>3, <1>4, <1>5 DEF ReachInv

\* Every step keeps ReachInv.
LEMMA StepReachInv == ASSUME IInv, ReachInv, [Next]_vars PROVE ReachInv'
<1>1. CASE UNCHANGED vars
  <2>1. UNCHANGED <<config, sequence, workers, conns, fibWorkers, fibConns, a, b, pc>>
    BY <1>1 DEF vars, loop, fibs
  <2>2. ReachesItsGoal'
    BY <2>1 DEF ReachInv, ReachesItsGoal, FibonacciNumbers, Bands, MaxBands
  <2>3. FibonacciSoFar'
    BY <2>1 DEF ReachInv, FibonacciSoFar, FibonacciNumbers, IsAt
  <2>4. CombinedSoFar' /\ CountedSoFar'
    BY <2>1 DEF ReachInv, CombinedSoFar, Passed, CombinedIn, CountedSoFar, AtTheTop, Bands, MaxBands
  <2>5. QED
    BY <2>2, <2>3, <2>4 DEF ReachInv
<1>2. QED
  BY <1>1, LinearBandReach, BalancedBandReach, SynchronizedBandReach, ExponentialBandReach,
     FibonacciWorkersReach, FibonacciConnsReach, FibonacciBandReach, EndsReach DEF Next

\* For limits, steps and numbers of bands of any size and whatever is rounded: balanced and
\* exponential end at both limits, fibonacci has tested every combination of the Fibonacci
\* numbers of both ranges and nothing else, linear and balanced keep to the number of bands.
THEOREM SequencesReachTheirGoals == Spec => []ReachesItsGoal
<1>1. Init => ReachInv
  BY InitReachInv
<1>2. IInv /\ ReachInv /\ [Next]_vars => ReachInv'
  BY StepReachInv
<1>3. ReachInv => ReachesItsGoal
  BY DEF ReachInv
<1>4. QED
  BY <1>1, <1>2, <1>3, Invariance, PTL DEF Spec
=============================================================================
