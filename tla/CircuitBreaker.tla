---------------------------- MODULE CircuitBreaker ----------------------------
(***************************************************************************)
(* The circuit breaker of internal/circuitbreaker/circuitbreaker.go and    *)
(* the goroutines that call Execute or ExecuteWithContext on it.  Each     *)
(* step is one critical section of the mutex; allowRequest has two, and    *)
(* decides in the second by what it read in the first.                     *)
(***************************************************************************)
EXTENDS Integers, FiniteSets

CONSTANTS
  Callers,        \* goroutines that call Execute again and again
  MaxFailures, HalfOpenLimit,
  Modulus         \* bound: the statistics count modulo Modulus; 1 leaves them out

ASSUME BreakerAssumption ==
  /\ MaxFailures \in Nat \ {0}      \* NewCircuitBreaker replaces others by defaults
  /\ HalfOpenLimit \in Nat \ {0}
  /\ Modulus \in Nat \ {0}

ASSUME CallersAssumption == IsFiniteSet(Callers)

VARIABLES
  state, halfOpenCount,
  failures,       \* counted up to MaxFailures: the code only asks whether it is reached
  cooled,         \* time.Since(lastFailure) >= resetTimeout
  totalRequests, successCount, failureCount, timeoutCount, rejectedCount,
  pc              \* where each caller is

breaker    == <<state, halfOpenCount, failures, cooled>>
statistics == <<totalRequests, successCount, failureCount, timeoutCount, rejectedCount>>
vars       == <<breaker, statistics, pc>>

Init ==
  /\ state = "CLOSED" /\ halfOpenCount = 0 /\ failures = 0
  /\ cooled = TRUE                  \* lastFailure is the zero time
  /\ totalRequests = 0 /\ successCount = 0 /\ failureCount = 0
  /\ timeoutCount = 0 /\ rejectedCount = 0
  /\ pc = [c \in Callers |-> "idle"]

Goto(c, from, to) == pc[c] = from /\ pc' = [pc EXCEPT ![c] = to]

Count(n) == (n + 1) % Modulus

OneMoreFailure == IF failures < MaxFailures THEN failures + 1 ELSE failures

-----------------------------------------------------------------------------
(* Plausible mistakes, each of which one of the properties is there to     *)
(* catch.                                                                  *)

\* Closing forgets to reset the failures.
RecordSuccessKeepsFailures(c) ==
  /\ Goto(c, "succeeded", "idle")
  /\ successCount' = Count(successCount)
  /\ IF state = "HALF_OPEN"
     THEN IF halfOpenCount + 1 >= HalfOpenLimit
          THEN state' = "CLOSED" /\ halfOpenCount' = 0 /\ UNCHANGED failures
          ELSE halfOpenCount' = halfOpenCount + 1 /\ UNCHANGED <<state, failures>>
     ELSE UNCHANGED <<state, halfOpenCount, failures>>
  /\ UNCHANGED <<cooled, totalRequests, failureCount, timeoutCount, rejectedCount>>

\* One success more than the limit is asked for.
RecordSuccessOffByOne(c) ==
  /\ Goto(c, "succeeded", "idle")
  /\ successCount' = Count(successCount)
  /\ \/ /\ state = "HALF_OPEN" /\ halfOpenCount + 1 > HalfOpenLimit
        /\ state' = "CLOSED" /\ failures' = 0 /\ halfOpenCount' = 0
     \/ /\ state = "HALF_OPEN" /\ halfOpenCount + 1 <= HalfOpenLimit
        /\ halfOpenCount' = halfOpenCount + 1
        /\ UNCHANGED <<state, failures>>
     \/ /\ state = "CLOSED"
        /\ failures' = 0
        /\ UNCHANGED <<state, halfOpenCount>>
     \/ /\ state = "OPEN"
        /\ UNCHANGED <<state, failures, halfOpenCount>>
  /\ UNCHANGED <<cooled, totalRequests, failureCount, timeoutCount, rejectedCount>>

\* A success closes the breaker from any state, half-open or not.
RecordSuccessAlwaysCloses(c) ==
  /\ Goto(c, "succeeded", "idle")
  /\ successCount' = Count(successCount)
  /\ state' = "CLOSED" /\ failures' = 0 /\ halfOpenCount' = 0
  /\ UNCHANGED <<cooled, totalRequests, failureCount, timeoutCount, rejectedCount>>

\* A timeout is only counted as a timeout.
RecordFailureForgetsCount(c) ==
  /\ Goto(c, "failed", "idle")
  /\ failures' = OneMoreFailure
  /\ cooled' = FALSE
  /\ state' = IF state = "HALF_OPEN" \/ failures' >= MaxFailures THEN "OPEN" ELSE state
  /\ halfOpenCount' = IF state = "HALF_OPEN" THEN 0 ELSE halfOpenCount
  /\ UNCHANGED <<statistics>>

-----------------------------------------------------------------------------
\* allowRequest: read state and halfOpenCount under the read lock.
ReadState(c) ==
  /\ \/ state = "CLOSED"    /\ Goto(c, "idle", "admitted")
     \/ state = "OPEN"      /\ Goto(c, "idle", "resetting")
     \/ state = "HALF_OPEN" /\ Goto(c, "idle", IF halfOpenCount < HalfOpenLimit
                                               THEN "admitted" ELSE "rejected")
  /\ UNCHANGED <<breaker, statistics>>

\* shouldAttemptReset, whatever the state is by now.
ShouldAttemptReset(c) ==
  /\ Goto(c, "resetting", IF cooled THEN "admitted" ELSE "rejected")
  /\ IF cooled
     THEN state' = "HALF_OPEN" /\ halfOpenCount' = 0
     ELSE UNCHANGED <<state, halfOpenCount>>
  /\ UNCHANGED <<failures, cooled, statistics>>

Reject(c) ==
  /\ Goto(c, "rejected", "idle")
  /\ rejectedCount' = Count(rejectedCount)
  /\ UNCHANGED <<breaker, totalRequests, successCount, failureCount, timeoutCount>>

StartRequest(c) ==
  /\ Goto(c, "admitted", "running")
  /\ totalRequests' = Count(totalRequests)
  /\ UNCHANGED <<breaker, successCount, failureCount, timeoutCount, rejectedCount>>

OperationSucceeds(c) == Goto(c, "running", "succeeded") /\ UNCHANGED <<breaker, statistics>>
OperationFails(c)    == Goto(c, "running", "failed")    /\ UNCHANGED <<breaker, statistics>>

\* ExecuteWithContext: the context ends first; the operation's goroutine runs
\* on, but its result is not looked at.
ContextEnds(c) ==
  /\ Goto(c, "running", "failed")
  /\ timeoutCount' = Count(timeoutCount)
  /\ UNCHANGED <<breaker, totalRequests, successCount, failureCount, rejectedCount>>

RecordSuccess(c) ==
  /\ Goto(c, "succeeded", "idle")
  /\ successCount' = Count(successCount)
  /\ \/ /\ state = "HALF_OPEN" /\ halfOpenCount + 1 >= HalfOpenLimit
        /\ state' = "CLOSED" /\ failures' = 0 /\ halfOpenCount' = 0
     \/ /\ state = "HALF_OPEN" /\ halfOpenCount + 1 < HalfOpenLimit
        /\ halfOpenCount' = halfOpenCount + 1
        /\ UNCHANGED <<state, failures>>
     \/ /\ state = "CLOSED"
        /\ failures' = 0
        /\ UNCHANGED <<state, halfOpenCount>>
     \/ /\ state = "OPEN"
        /\ UNCHANGED <<state, failures, halfOpenCount>>
  /\ UNCHANGED <<cooled, totalRequests, failureCount, timeoutCount, rejectedCount>>

RecordFailure(c) ==
  /\ Goto(c, "failed", "idle")
  /\ failureCount' = Count(failureCount)
  /\ failures' = OneMoreFailure
  /\ cooled' = FALSE
  /\ state' = IF state = "HALF_OPEN" \/ failures' >= MaxFailures THEN "OPEN" ELSE state
  /\ halfOpenCount' = IF state = "HALF_OPEN" THEN 0 ELSE halfOpenCount
  /\ UNCHANGED <<totalRequests, successCount, timeoutCount, rejectedCount>>

\* Reset, by an operator of the system.
Reset ==
  /\ state' = "CLOSED" /\ failures' = 0 /\ halfOpenCount' = 0
  /\ UNCHANGED <<cooled, statistics, pc>>

\* resetTimeout passes without a failure.
CoolDown == ~cooled /\ cooled' = TRUE /\ UNCHANGED <<state, halfOpenCount, failures, statistics, pc>>

Execute(c) ==
  \/ ReadState(c) \/ ShouldAttemptReset(c) \/ Reject(c) \/ StartRequest(c)
  \/ OperationSucceeds(c) \/ OperationFails(c) \/ ContextEnds(c)
  \/ RecordSuccess(c) \/ RecordFailure(c)

Next == Reset \/ CoolDown \/ \E c \in Callers : Execute(c)

Spec == Init /\ [][Next]_vars

\* Time passes, and callers go on calling; how an operation ends is its own
\* affair, but it or its context ends.  Nobody need call Reset.
Fairness == WF_vars(CoolDown) /\ \A c \in Callers : WF_vars(Execute(c))
FairSpec == Spec /\ Fairness

-----------------------------------------------------------------------------
Counters == {totalRequests, successCount, failureCount, timeoutCount, rejectedCount}

TypeOK ==
  /\ state \in {"CLOSED", "OPEN", "HALF_OPEN"}
  /\ halfOpenCount \in 0 .. HalfOpenLimit
  /\ failures \in 0 .. MaxFailures
  /\ cooled \in BOOLEAN
  /\ Counters \subseteq 0 .. (Modulus - 1)
  /\ pc \in [Callers -> {"idle", "resetting", "admitted", "rejected", "running", "succeeded", "failed"}]

\* A closed breaker has room for another failure: late failures of requests
\* admitted earlier are never left over when it closes.
ClosedHasFailuresLeft == state = "CLOSED" => failures < MaxFailures

\* A half-open breaker still admits requests: with nothing else to leave that
\* state by, it could reject for ever.  The count is zero in other states.
HalfOpenAdmits ==
  /\ state = "HALF_OPEN" => halfOpenCount < HalfOpenLimit
  /\ halfOpenCount > 0 => state = "HALF_OPEN"

\* What the counters of either state promise, whatever results come late.
CountersFitState == ClosedHasFailuresLeft /\ HalfOpenAdmits

\* The statistics: a counted request succeeded, failed or is still running.
RequestsAddUp ==
  totalRequests = (successCount + failureCount
    + Cardinality({c \in Callers : pc[c] \in {"running", "succeeded", "failed"}})) % Modulus

\* Results that come late, of requests admitted before it opened, do not take
\* a breaker out of the open state: only a request after the timeout, into
\* half-open, and an operator do.
OpenHolds ==
  [][state = "OPEN" /\ state' # "OPEN" => (cooled /\ state' = "HALF_OPEN") \/ Reset]_vars

\* When no operation fails any more, the breaker closes, and callers that read
\* an old state do not keep it from closing again and again.
RecoversWhenHealthy ==
  <>[][~ \E c \in Callers : OperationFails(c) \/ ContextEnds(c)]_vars
    => []<>(state = "CLOSED")
=============================================================================
