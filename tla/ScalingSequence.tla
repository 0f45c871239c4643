---------------------------- MODULE ScalingSequence ----------------------------
(***************************************************************************)
(* How the progressive scaling engine (internal/progressive/engine.go)     *)
(* makes the sequence of bands it tests out of a configuration that has    *)
(* passed validateConfig: one step per iteration of the loops of           *)
(* generateScalingSequence.                                                *)
(***************************************************************************)
EXTENDS Integers, Sequences

CONSTANTS
  MaxLimit,      \* bound: the largest limit of workers and of connections
  StepSizes,     \* configured step_workers and step_connections; 0 is not set
  BandCounts,    \* configured bands; 0 is not set, and less is taken for that
  Rounding       \* how far float64 rounding may take a balanced step down

ASSUME SequenceAssumption ==
  /\ MaxLimit \in Nat \ {0}
  /\ StepSizes \subseteq Int
  /\ BandCounts \subseteq {n \in Int : n <= 0} \cup 3 .. 25     \* validateConfig refuses others
  /\ Rounding \subseteq {0, 1}

VARIABLES
  config,
  sequence,
  workers, conns,           \* the loop variables; positions in the lists for fibonacci
  fibWorkers, fibConns,     \* the results of generateFibonacci
  a, b,                     \* the local variables of generateFibonacci
  pc

loop == <<workers, conns>>
fibs == <<fibWorkers, fibConns, a, b>>
vars == <<config, sequence, loop, fibs, pc>>

Strategies == {"linear", "balanced", "synchronized", "exponential", "fibonacci"}

\* What validateConfig lets through: without bands both steps are required.  With a
\* test_duration it makes 5 bands of none, but lets a negative number of them be, and
\* asks nothing of the steps.
Configs ==
  {c \in [strategy : Strategies, minWorkers : 1 .. MaxLimit, maxWorkers : 1 .. MaxLimit,
          minConns : 1 .. MaxLimit, maxConns : 1 .. MaxLimit,
          stepWorkers : StepSizes, stepConns : StepSizes, bands : BandCounts] :
     /\ c.minWorkers <= c.maxWorkers
     /\ c.minConns <= c.maxConns
     /\ c.bands = 0 => c.stepWorkers > 0 /\ c.stepConns > 0}

Init ==
  /\ config \in Configs
  /\ sequence = <<>>
  /\ workers = (IF config.strategy = "fibonacci" THEN 1 ELSE config.minWorkers)
  /\ conns = (IF config.strategy = "fibonacci" THEN 1 ELSE config.minConns)
  /\ fibWorkers = <<>> /\ fibConns = <<>>
  /\ a = 1 /\ b = 1
  /\ pc = IF config.strategy = "fibonacci" THEN "fibWorkers" ELSE "loop"

AtLeastOne(n) == IF n <= 0 THEN 1 ELSE n
AtMost(limit, n) == IF n > limit THEN limit ELSE n

AddBand(w, c) == sequence' = Append(sequence, [workers |-> w, conns |-> c])

\* len(sequence) == 0 is the error "no scaling bands generated".
Return ==
  /\ pc' = IF sequence = <<>> THEN "error" ELSE "done"
  /\ UNCHANGED <<config, sequence, loop, fibs>>

Running(strategy) == pc = "loop" /\ config.strategy = strategy

-----------------------------------------------------------------------------
(* linear: every combination of workers and connections, up to maxBands.   *)
MaxBands == IF config.bands <= 0 THEN 64 ELSE config.bands

\* int(math.Sqrt(float64(maxBands)))
TargetWorkerSteps == CHOOSE s \in 1 .. MaxBands : s * s <= MaxBands /\ (s + 1) * (s + 1) > MaxBands
TargetConnSteps   == MaxBands \div TargetWorkerSteps

HasSteps == config.stepWorkers > 0 /\ config.stepConns > 0
StepWorkers == IF HasSteps THEN config.stepWorkers
               ELSE AtLeastOne((config.maxWorkers - config.minWorkers) \div TargetWorkerSteps)
StepConns   == IF HasSteps THEN config.stepConns
               ELSE AtLeastOne((config.maxConns - config.minConns) \div TargetConnSteps)

LinearBand ==
  /\ Running("linear")
  /\ Len(sequence) < MaxBands /\ workers <= config.maxWorkers
  /\ AddBand(workers, conns)
  /\ IF conns + StepConns <= config.maxConns
     THEN conns' = conns + StepConns /\ UNCHANGED workers
     ELSE conns' = config.minConns /\ workers' = workers + StepWorkers
  /\ UNCHANGED <<config, fibs, pc>>

LinearEnds ==
  /\ Running("linear")
  /\ ~(Len(sequence) < MaxBands /\ workers <= config.maxWorkers)
  /\ Return

-----------------------------------------------------------------------------
(* balanced: as many bands as configured, in equal parts of both ranges.   *)
Bands == IF config.bands <= 0 THEN 8 ELSE config.bands

\* int(float64(i) * (float64(range) / float64(parts))), e too low: where the
\* exact value is a whole number the product of floats can come out just below
\* it.  Other values are too far from the next whole number to pass it.
PartOf(i, parts, range, e) ==
  IF i * range > 0 /\ (i * range) % parts = 0 THEN (i * range) \div parts - e
                                              ELSE (i * range) \div parts

\* Plausible mistake: the ranges are cut into as many parts as there are bands.
ScaledByBands(range, e) == PartOf(Len(sequence), Bands, range, e)

Scaled(range, e) == PartOf(Len(sequence), Bands - 1, range, e)

BalancedBand ==
  /\ Running("balanced")
  /\ Len(sequence) < Bands
  /\ \E ew, ec \in Rounding :
       AddBand(AtMost(config.maxWorkers,
                      config.minWorkers + Scaled(config.maxWorkers - config.minWorkers, ew)),
               AtMost(config.maxConns,
                      config.minConns + Scaled(config.maxConns - config.minConns, ec)))
  /\ UNCHANGED <<config, loop, fibs, pc>>

BalancedEnds == Running("balanced") /\ Len(sequence) >= Bands /\ Return

-----------------------------------------------------------------------------
(* synchronized: as many connections as workers, within their limits.      *)

\* Plausible mistake: the connections are not held to their limits.
SynchronizedBandUnlimited ==
  /\ Running("synchronized")
  /\ workers <= config.maxWorkers
  /\ AddBand(workers, workers)
  /\ workers' = workers + AtLeastOne(config.stepWorkers)
  /\ UNCHANGED <<config, conns, fibs, pc>>

SynchronizedBand ==
  /\ Running("synchronized")
  /\ workers <= config.maxWorkers
  /\ AddBand(workers, AtMost(config.maxConns, IF workers < config.minConns THEN config.minConns
                                                                           ELSE workers))
  /\ workers' = workers + AtLeastOne(config.stepWorkers)
  /\ UNCHANGED <<config, conns, fibs, pc>>

SynchronizedEnds == Running("synchronized") /\ workers > config.maxWorkers /\ Return

-----------------------------------------------------------------------------
(* exponential: both double until both are at their limits; the condition   *)
(* of the loop, that none is past its limit, always holds.                 *)
ExponentialBand ==
  /\ Running("exponential")
  /\ AddBand(workers, conns)
  /\ workers' = AtMost(config.maxWorkers, workers * 2)
  /\ conns' = AtMost(config.maxConns, conns * 2)
  /\ pc' = IF workers' = workers /\ conns' = conns THEN "done" ELSE pc
  /\ UNCHANGED <<config, fibs>>

-----------------------------------------------------------------------------
(* fibonacci: every combination of the Fibonacci numbers in both ranges.   *)

\* Plausible mistake: a, b = b, a.
AdvanceStuck == a' = b /\ b' = a

\* a, b = b, a+b
Advance == a' = b /\ b' = a + b

\* generateFibonacci(MinWorkers, MaxWorkers), and then of the connections.
FibonacciWorkers ==
  /\ pc = "fibWorkers"
  /\ \/ b < config.minWorkers /\ Advance /\ UNCHANGED <<fibWorkers, pc>>
     \/ /\ b >= config.minWorkers /\ b <= config.maxWorkers
        /\ fibWorkers' = Append(fibWorkers, b)
        /\ Advance /\ UNCHANGED pc
     \/ /\ b >= config.minWorkers /\ b > config.maxWorkers
        /\ a' = 1 /\ b' = 1 /\ pc' = "fibConns" /\ UNCHANGED fibWorkers
  /\ UNCHANGED <<config, sequence, loop, fibConns>>

FibonacciConns ==
  /\ pc = "fibConns"
  /\ \/ b < config.minConns /\ Advance /\ UNCHANGED <<fibConns, pc>>
     \/ /\ b >= config.minConns /\ b <= config.maxConns
        /\ fibConns' = Append(fibConns, b)
        /\ Advance /\ UNCHANGED pc
     \/ /\ b >= config.minConns /\ b > config.maxConns
        /\ a' = 1 /\ b' = 1 /\ pc' = "loop" /\ UNCHANGED fibConns
  /\ UNCHANGED <<config, sequence, loop, fibWorkers>>

\* Plausible mistake: the loops are nested the other way round.
FibonacciBandConnsOuter ==
  /\ Running("fibonacci")
  /\ workers <= Len(fibWorkers) /\ conns <= Len(fibConns)
  /\ AddBand(fibWorkers[workers], fibConns[conns])
  /\ IF workers < Len(fibWorkers)
     THEN workers' = workers + 1 /\ UNCHANGED conns
     ELSE workers' = 1 /\ conns' = conns + 1
  /\ UNCHANGED <<config, fibs, pc>>

FibonacciBand ==
  /\ Running("fibonacci")
  /\ workers <= Len(fibWorkers) /\ conns <= Len(fibConns)
  /\ AddBand(fibWorkers[workers], fibConns[conns])
  /\ IF conns < Len(fibConns)
     THEN conns' = conns + 1 /\ UNCHANGED workers
     ELSE conns' = 1 /\ workers' = workers + 1
  /\ UNCHANGED <<config, fibs, pc>>

FibonacciEnds ==
  /\ Running("fibonacci")
  /\ ~(workers <= Len(fibWorkers) /\ conns <= Len(fibConns))
  /\ Return

-----------------------------------------------------------------------------
Next ==
  \/ LinearBand \/ LinearEnds
  \/ BalancedBand \/ BalancedEnds
  \/ SynchronizedBand \/ SynchronizedEnds
  \/ ExponentialBand
  \/ FibonacciWorkers \/ FibonacciConns \/ FibonacciBand \/ FibonacciEnds

Spec == Init /\ [][Next]_vars

\* The generator is a plain function call: it goes on until it returns.
FairSpec == Spec /\ WF_vars(Next)

-----------------------------------------------------------------------------
Band == [workers : 1 .. MaxLimit, conns : 1 .. MaxLimit]

TypeOK ==
  /\ config \in Configs
  /\ sequence \in Seq(Band)
  /\ workers \in Nat \ {0} /\ conns \in Nat \ {0}
  /\ fibWorkers \in Seq(1 .. MaxLimit) /\ fibConns \in Seq(1 .. MaxLimit)
  /\ a \in Nat \ {0} /\ b \in Nat \ {0}
  /\ pc \in {"fibWorkers", "fibConns", "loop", "done", "error"}

\* No band asks for fewer or more workers or connections than configured,
\* whatever the steps, the rounding and the strategy.
WithinLimits ==
  \A i \in DOMAIN sequence :
    /\ sequence[i].workers \in config.minWorkers .. config.maxWorkers
    /\ sequence[i].conns \in config.minConns .. config.maxConns

\* Bands come in growing order and no combination is tested twice, except by
\* balanced, whose bands may be more than the combinations there are: the
\* marginal gains are computed from each band and the one before it.
BandsGrow ==
  \A i \in 1 .. Len(sequence) - 1 :
    LET x == sequence[i]  y == sequence[i + 1]
    IN  \/ x.workers < y.workers
        \/ x.workers = y.workers /\ x.conns < y.conns
        \/ x.workers = y.workers /\ x.conns = y.conns /\ config.strategy = "balanced"

\* Reference definition: the Fibonacci numbers 1, 2, 3, 5, ... in a range.
fibonacci[n \in Nat] == IF n <= 1 THEN n + 1 ELSE fibonacci[n - 1] + fibonacci[n - 2]
FibonacciNumbers(lo, hi) == {fibonacci[n] : n \in 0 .. MaxLimit} \cap lo .. hi

\* What a finished sequence reaches: balanced makes as many bands as configured, and its
\* last band is at both limits, or one below where a product of floats was rounded down;
\* exponential goes up to both limits, in as many bands as doubling takes; fibonacci tests
\* every combination of the Fibonacci numbers in both ranges, however many; linear takes
\* no more bands than configured.
ReachesItsGoal ==
  pc \in {"done", "error"} =>
    /\ config.strategy = "balanced" =>
         /\ Len(sequence) = Bands
         /\ config.maxWorkers - sequence[Bands].workers \in {0} \cup Rounding
         /\ config.maxConns - sequence[Bands].conns \in {0} \cup Rounding
    /\ config.strategy = "exponential" =>
         sequence[Len(sequence)] = [workers |-> config.maxWorkers, conns |-> config.maxConns]
    /\ config.strategy = "fibonacci" =>
         {sequence[i] : i \in DOMAIN sequence} =
           [workers : FibonacciNumbers(config.minWorkers, config.maxWorkers),
            conns : FibonacciNumbers(config.minConns, config.maxConns)]
    /\ config.strategy = "linear" => Len(sequence) <= MaxBands

\* docs/PROGRESSIVE_SCALING.md of `bands`: "Number of test configurations", with examples
\* for exponential and fibonacci too: that many bands are made where both ranges have more
\* values than that.  Exponential, fibonacci and synchronized do not look at it.
AsManyBandsAsConfigured ==
  /\ pc \in {"done", "error"} /\ config.bands > 0
  /\ config.maxWorkers - config.minWorkers >= config.bands
  /\ config.maxConns - config.minConns >= config.bands
  => Len(sequence) = config.bands

\* Every loop ends, whatever the configuration that was let through.
Terminates == <>(pc \in {"done", "error"})
=============================================================================
