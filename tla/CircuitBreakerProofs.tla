------------------------- MODULE CircuitBreakerProofs -------------------------
(* Proofs about CircuitBreaker, for any number of callers and any limits. *)
EXTENDS CircuitBreaker, FiniteSetTheorems, TLAPS

\* What the steps keep: each of the parts needs the others.
IInv == TypeOK /\ ClosedHasFailuresLeft /\ HalfOpenAdmits

\* A statistic that is counted up stays within its width.
LEMMA CountInRange ==
  ASSUME NEW n \in 0 .. (Modulus - 1)
  PROVE  Count(n) \in 0 .. (Modulus - 1)
  BY BreakerAssumption DEF Count

\* The breaker starts closed with nothing counted.
LEMMA InitIInv == Init => IInv
  BY BreakerAssumption DEF Init, IInv, TypeOK, ClosedHasFailuresLeft, HalfOpenAdmits, Counters

\* Every step of a caller, of Reset and of time keeps IInv.
LEMMA StepIInv == IInv /\ [Next]_vars => IInv'
<1> SUFFICES ASSUME IInv, [Next]_vars PROVE IInv'
  OBVIOUS
<1> USE BreakerAssumption
<1>t. totalRequests \in 0 .. (Modulus - 1) /\ successCount \in 0 .. (Modulus - 1)
      /\ failureCount \in 0 .. (Modulus - 1) /\ timeoutCount \in 0 .. (Modulus - 1)
      /\ rejectedCount \in 0 .. (Modulus - 1)
  BY DEF IInv, TypeOK, Counters
<1>c. Count(totalRequests) \in 0 .. (Modulus - 1) /\ Count(successCount) \in 0 .. (Modulus - 1)
      /\ Count(failureCount) \in 0 .. (Modulus - 1) /\ Count(timeoutCount) \in 0 .. (Modulus - 1)
      /\ Count(rejectedCount) \in 0 .. (Modulus - 1)
  BY <1>t, CountInRange
<1>1. CASE Reset
  BY <1>1 DEF Reset, IInv, TypeOK, ClosedHasFailuresLeft, HalfOpenAdmits, Counters,
              statistics
<1>2. CASE CoolDown
  BY <1>2 DEF CoolDown, IInv, TypeOK, ClosedHasFailuresLeft, HalfOpenAdmits, Counters,
              statistics
<1>3. ASSUME NEW c \in Callers, Execute(c) PROVE IInv'
  <2>1. CASE ReadState(c)
    BY <2>1 DEF ReadState, Goto, IInv, TypeOK, ClosedHasFailuresLeft, HalfOpenAdmits, Counters, breaker, statistics
  <2>2. CASE ShouldAttemptReset(c)
    BY <2>2 DEF ShouldAttemptReset, Goto, IInv, TypeOK, ClosedHasFailuresLeft, HalfOpenAdmits,
                Counters, statistics
  <2>3. CASE Reject(c)
    BY <1>t, <1>c, <2>3 DEF Reject, Goto, IInv, TypeOK, ClosedHasFailuresLeft, HalfOpenAdmits,
                Counters, breaker
  <2>4. CASE StartRequest(c)
    BY <1>t, <1>c, <2>4 DEF StartRequest, Goto, IInv, TypeOK, ClosedHasFailuresLeft, HalfOpenAdmits,
                Counters, breaker
  <2>5. CASE OperationSucceeds(c) \/ OperationFails(c)
    BY <2>5 DEF OperationSucceeds, OperationFails, Goto, IInv, TypeOK, ClosedHasFailuresLeft,
                HalfOpenAdmits, Counters, breaker, statistics
  <2>6. CASE ContextEnds(c)
    BY <1>t, <1>c, <2>6 DEF ContextEnds, Goto, IInv, TypeOK, ClosedHasFailuresLeft, HalfOpenAdmits,
                Counters, breaker
  <2>7. CASE RecordSuccess(c)
    <3>1. ClosedHasFailuresLeft' /\ HalfOpenAdmits' /\ state' \in {"CLOSED", "OPEN", "HALF_OPEN"}
          /\ halfOpenCount' \in 0 .. HalfOpenLimit /\ failures' \in 0 .. MaxFailures
      BY <2>7 DEF RecordSuccess, Goto, IInv, TypeOK, ClosedHasFailuresLeft, HalfOpenAdmits
    <3>2. QED
      BY <1>t, <1>c, <2>7, <3>1 DEF RecordSuccess, Goto, IInv, TypeOK, Counters
  <2>8. CASE RecordFailure(c)
    <3>1. ClosedHasFailuresLeft' /\ HalfOpenAdmits' /\ state' \in {"CLOSED", "OPEN", "HALF_OPEN"}
          /\ halfOpenCount' \in 0 .. HalfOpenLimit /\ failures' \in 0 .. MaxFailures
      BY <2>8 DEF RecordFailure, OneMoreFailure, Goto, IInv, TypeOK, ClosedHasFailuresLeft,
                  HalfOpenAdmits
    <3>2. QED
      BY <1>t, <1>c, <2>8, <3>1 DEF RecordFailure, Goto, IInv, TypeOK, Counters
  <2>9. QED
    BY <1>3, <2>1, <2>2, <2>3, <2>4, <2>5, <2>6, <2>7, <2>8 DEF Execute
<1>4. CASE UNCHANGED vars
  BY <1>4 DEF vars, breaker, statistics, IInv, TypeOK, ClosedHasFailuresLeft,
              HalfOpenAdmits, Counters
<1>5. QED
  BY <1>1, <1>2, <1>3, <1>4 DEF Next

\* Every reachable state satisfies the inductive invariant.
LEMMA Invariance == Spec => []IInv
<1>1. Init => IInv
  BY InitIInv
<1>2. IInv /\ [Next]_vars => IInv'
  BY StepIInv
<1>3. QED
  BY <1>1, <1>2, PTL DEF Spec

\* The fields of the breaker stay in their ranges; in particular no result that
\* comes late counts a half-open success past HalfOpenLimit.
THEOREM TypeCorrect == Spec => []TypeOK
  BY Invariance, PTL DEF IInv

\* A breaker never closes with its failures used up: the failures of requests
\* it admitted in an earlier state are reset by every way of closing.
\* And a half-open breaker never rejects every request: it is not stuck there.
THEOREM CountersFit == Spec => []CountersFitState
  BY Invariance, PTL DEF IInv, CountersFitState

\* Only a request after the timeout and Reset take a breaker out of the open
\* state; results that come late do not.
THEOREM OpenHoldsAlways == Spec => OpenHolds
<1> DEFINE A == state = "OPEN" /\ state' # "OPEN" => (cooled /\ state' = "HALF_OPEN") \/ Reset
<1>1. IInv /\ [Next]_vars => [A]_vars
  <2> SUFFICES ASSUME IInv, [Next]_vars PROVE [A]_vars
    OBVIOUS
  <2>1. CASE Reset \/ CoolDown \/ UNCHANGED vars
    BY <2>1 DEF CoolDown
  <2>2. ASSUME NEW c \in Callers, Execute(c) PROVE A
    BY <2>2 DEF Execute, ReadState, ShouldAttemptReset, Reject, StartRequest, OperationSucceeds,
                OperationFails, ContextEnds, RecordSuccess, RecordFailure, breaker
  <2>3. QED
    BY <2>1, <2>2 DEF Next
<1>2. QED
  BY <1>1, Invariance, PTL DEF Spec, OpenHolds

-----------------------------------------------------------------------------
(* The statistics, which the model counts modulo Modulus.                  *)

\* A remainder is known by what is left after whole turns.
LEMMA ModUnique ==
  ASSUME NEW m \in Nat \ {0}, NEW q \in Nat, NEW r \in 0 .. m - 1
  PROVE  (m * q + r) % m = r
  OBVIOUS

\* Every number is some whole turns and a rest.
LEMMA ModSplit ==
  ASSUME NEW m \in Nat \ {0}, NEW x \in Nat
  PROVE  \E q \in Nat, r \in 0 .. m - 1 : x = m * q + r
<1>1. ASSUME NEW q \in Nat, q = x \div m, NEW r \in Nat, r = x % m
      PROVE  x = m * q + r
  BY <1>1
<1>2. x \div m \in Nat /\ x % m \in 0 .. m - 1
  OBVIOUS
<1>3. QED
  BY <1>1, <1>2

\* One turn more changes nothing.
LEMMA ModTurn ==
  ASSUME NEW m \in Nat \ {0}, NEW x \in Nat
  PROVE  (x + m) % m = x % m
<1>1. PICK q \in Nat, r \in 0 .. m - 1 : x = m * q + r
  BY ModSplit
<1>2. x + m = m * (q + 1) + r
  BY <1>1
<1>3. QED
  BY <1>1, <1>2, ModUnique

\* Counting on from the remainder is counting on.
LEMMA ModSucc ==
  ASSUME NEW m \in Nat \ {0}, NEW x \in Nat
  PROVE  ((x % m) + 1) % m = (x + 1) % m
<1>1. PICK q \in Nat, r \in 0 .. m - 1 : x = m * q + r
  BY ModSplit
<1>2. x % m = r
  BY <1>1, ModUnique
<1>3. CASE r + 1 = m
  <2>1. x + 1 = m * (q + 1) + 0 /\ m = m * 1 + 0
    BY <1>1, <1>3
  <2>2. (x + 1) % m = 0 /\ m % m = 0
    <3>1. q + 1 \in Nat /\ 0 \in 0 .. m - 1
      OBVIOUS
    <3>2. (m * (q + 1) + 0) % m = 0 /\ (m * 1 + 0) % m = 0
      BY <3>1, ModUnique
    <3>3. QED
      BY <2>1, <3>2
  <2>3. QED
    BY <1>2, <1>3, <2>2
<1>4. CASE r + 1 # m
  <2>1. x + 1 = m * q + (r + 1) /\ r + 1 = m * 0 + (r + 1) /\ r + 1 \in 0 .. m - 1
    BY <1>1, <1>4
  <2>2. (x + 1) % m = r + 1 /\ (r + 1) % m = r + 1
    BY <2>1, ModUnique
  <2>3. QED
    BY <1>2, <2>2
<1>5. QED
  BY <1>3, <1>4

\* A counter that is counted on for one of the rest leaves the sum what it was.
LEMMA CountedFor ==
  ASSUME NEW m \in Nat \ {0}, NEW s \in 0 .. m - 1, NEW n \in Nat
  PROVE  (((s + 1) % m) + n) % m = (s + n + 1) % m
<1>1. CASE s + 1 = m
  <2>1. m % m = 0
    <3>1. m = m * 1 + 0
      OBVIOUS
    <3>2. QED
      BY <3>1, ModUnique
  <2>2. (n + m) % m = n % m
    BY ModTurn
  <2>3. n + m = s + n + 1 /\ 0 + n = n
    BY <1>1
  <2>4. QED
    BY <1>1, <2>1, <2>2, <2>3
<1>2. CASE s + 1 # m
  <2>1. s + 1 = m * 0 + (s + 1) /\ s + 1 \in 0 .. m - 1
    BY <1>2
  <2>2. (s + 1) % m = s + 1
    BY <2>1, ModUnique
  <2>3. s + 1 + n = s + n + 1
    OBVIOUS
  <2>4. QED
    BY <2>2, <2>3
<1>3. QED
  BY <1>1, <1>2

InFlight == {c \in Callers : pc[c] \in {"running", "succeeded", "failed"}}

\* How many requests are in flight changes by the caller that takes the step.
LEMMA OneCallerMoves ==
  ASSUME TypeOK, NEW c \in Callers, NEW from, NEW to, Goto(c, from, to)
  PROVE  /\ Cardinality(InFlight) \in Nat /\ Cardinality(InFlight') \in Nat
         /\ Cardinality(InFlight') = Cardinality(InFlight)
                + (IF to \in {"running", "succeeded", "failed"} THEN 1 ELSE 0)
                - (IF from \in {"running", "succeeded", "failed"} THEN 1 ELSE 0)
<1> DEFINE rest == {d \in Callers \ {c} : pc[d] \in {"running", "succeeded", "failed"}}
<1>1. IsFiniteSet(rest) /\ Cardinality(rest) \in Nat
  <2>1. rest \subseteq Callers
    OBVIOUS
  <2>2. QED
    BY <2>1, CallersAssumption, FS_Subset, FS_CardinalityType
<1>2. Cardinality(rest \cup {c}) = Cardinality(rest) + 1
  BY <1>1, FS_AddElement
<1>3. InFlight = IF from \in {"running", "succeeded", "failed"} THEN rest \cup {c} ELSE rest
  BY DEF InFlight, Goto
<1>4. InFlight' = IF to \in {"running", "succeeded", "failed"} THEN rest \cup {c} ELSE rest
  BY DEF InFlight, Goto, TypeOK
<1> HIDE DEF rest
<1>5. QED
  BY <1>1, <1>2, <1>3, <1>4

\* What the property says of the requests in flight, now and after a step.
LEMMA RequestsInFlight ==
  /\ RequestsAddUp <=>
       totalRequests = (successCount + failureCount + Cardinality(InFlight)) % Modulus
  /\ RequestsAddUp' <=>
       totalRequests' = (successCount' + failureCount' + Cardinality(InFlight')) % Modulus
  BY DEF RequestsAddUp, InFlight

\* A request that starts is counted, and in flight.
LEMMA StartAddsUp ==
  ASSUME TypeOK, RequestsAddUp, NEW c \in Callers, StartRequest(c)
  PROVE  RequestsAddUp'
<1>1. Cardinality(InFlight) \in Nat /\ Cardinality(InFlight') = Cardinality(InFlight) + 1
  BY OneCallerMoves DEF StartRequest
<1>2. successCount \in Nat /\ failureCount \in Nat
  BY DEF TypeOK, Counters
<1>3. ASSUME NEW n \in Nat
      PROVE  (((successCount + failureCount + n) % Modulus) + 1) % Modulus
                 = (successCount + failureCount + (n + 1)) % Modulus
  <2>1. successCount + failureCount + n \in Nat
        /\ successCount + failureCount + (n + 1) = successCount + failureCount + n + 1
    BY <1>2
  <2>2. QED
    BY <2>1, ModSucc, BreakerAssumption
<1>4. QED
  BY <1>1, <1>3, RequestsInFlight DEF StartRequest, Count

\* A request that ends is counted on for, once, and leaves the sum what it was.
LEMMA EndAddsUp ==
  ASSUME TypeOK, RequestsAddUp, NEW c \in Callers, RecordSuccess(c) \/ RecordFailure(c)
  PROVE  RequestsAddUp'
<1>1. /\ Cardinality(InFlight) \in Nat /\ Cardinality(InFlight') \in Nat
      /\ Cardinality(InFlight') = Cardinality(InFlight) - 1
  BY OneCallerMoves DEF RecordSuccess, RecordFailure
<1>2. successCount \in 0 .. Modulus - 1 /\ failureCount \in 0 .. Modulus - 1
  BY DEF TypeOK, Counters
<1>3. ASSUME NEW n \in Nat
      PROVE  /\ (Count(successCount) + failureCount + n) % Modulus
                    = (successCount + failureCount + (n + 1)) % Modulus
             /\ (successCount + Count(failureCount) + n) % Modulus
                    = (successCount + failureCount + (n + 1)) % Modulus
  <2>1. Count(successCount) \in 0 .. Modulus - 1 /\ Count(failureCount) \in 0 .. Modulus - 1
    BY <1>2, CountInRange
  <2>2. /\ (Count(successCount) + (failureCount + n)) % Modulus
               = (successCount + (failureCount + n) + 1) % Modulus
        /\ (Count(failureCount) + (successCount + n)) % Modulus
               = (failureCount + (successCount + n) + 1) % Modulus
    <3>1. failureCount + n \in Nat /\ successCount + n \in Nat /\ Modulus \in Nat \ {0}
      BY <1>2, BreakerAssumption
    <3>2. (((successCount + 1) % Modulus) + (failureCount + n)) % Modulus
              = (successCount + (failureCount + n) + 1) % Modulus
      BY <1>2, <3>1, CountedFor
    <3>3. (((failureCount + 1) % Modulus) + (successCount + n)) % Modulus
              = (failureCount + (successCount + n) + 1) % Modulus
      BY <1>2, <3>1, CountedFor
    <3>4. QED
      BY <3>2, <3>3 DEF Count
  <2>3. /\ Count(successCount) + failureCount + n = Count(successCount) + (failureCount + n)
        /\ successCount + Count(failureCount) + n = Count(failureCount) + (successCount + n)
        /\ successCount + failureCount + (n + 1) = successCount + (failureCount + n) + 1
        /\ successCount + failureCount + (n + 1) = failureCount + (successCount + n) + 1
    BY <1>2, <2>1, BreakerAssumption
  <2>4. QED
    BY <2>2, <2>3
<1>4. /\ totalRequests' = totalRequests
      /\ \/ successCount' = Count(successCount) /\ failureCount' = failureCount
         \/ successCount' = successCount /\ failureCount' = Count(failureCount)
  BY DEF RecordSuccess, RecordFailure
<1>5. Cardinality(InFlight) = Cardinality(InFlight') + 1
  BY <1>1
<1>6. QED
  BY <1>1, <1>3, <1>4, <1>5, RequestsInFlight

\* Every other step moves a caller within, or outside, the requests in flight.
LEMMA StepAddsUp == TypeOK /\ RequestsAddUp /\ [Next]_vars => RequestsAddUp'
<1> SUFFICES ASSUME TypeOK, RequestsAddUp, [Next]_vars PROVE RequestsAddUp'
  OBVIOUS
<1>1. CASE Reset \/ CoolDown \/ UNCHANGED vars
  BY <1>1 DEF Reset, CoolDown, vars, statistics, RequestsAddUp
<1>2. ASSUME NEW c \in Callers,
             \/ ReadState(c) \/ ShouldAttemptReset(c) \/ Reject(c)
             \/ OperationSucceeds(c) \/ OperationFails(c) \/ ContextEnds(c)
      PROVE  RequestsAddUp'
  <2>1. UNCHANGED <<totalRequests, successCount, failureCount>>
    BY <1>2 DEF ReadState, ShouldAttemptReset, Reject, OperationSucceeds, OperationFails,
       ContextEnds, statistics
  <2>2. Cardinality(InFlight') = Cardinality(InFlight)
    BY <1>2, OneCallerMoves DEF ReadState, ShouldAttemptReset, Reject, OperationSucceeds,
       OperationFails, ContextEnds
  <2>3. QED
    BY <2>1, <2>2, RequestsInFlight
<1>3. QED
  BY <1>1, <1>2, StartAddsUp, EndAddsUp DEF Next, Execute

\* At the start nothing is counted and nothing runs.
LEMMA InitAddsUp == Init => RequestsAddUp
<1> SUFFICES ASSUME Init PROVE RequestsAddUp
  OBVIOUS
<1>1. Cardinality(InFlight) = 0
  <2>1. InFlight = {}
    BY DEF Init, InFlight
  <2>2. QED
    BY <2>1, FS_EmptySet
<1>2. 0 % Modulus = 0
  BY BreakerAssumption
<1>3. QED
  BY <1>1, <1>2, RequestsInFlight DEF Init

\* Every request that was counted succeeded, failed or is still in flight: one
\* that its context ends, whatever its operation delivers later, fails once.
THEOREM RequestsAddUpAlways == Spec => []RequestsAddUp
  BY InitAddsUp, StepAddsUp, TypeCorrect, PTL DEF Spec
=============================================================================
