-------------------------- MODULE ResilienceBreaker --------------------------
(***************************************************************************)
(* The circuit breaker of internal/resilience/circuit_breaker.go and the   *)
(* goroutines that call it.  Its allowRequest is one critical section; it  *)
(* cools down since the last change of state, not since the last failure.  *)
(***************************************************************************)
EXTENDS Integers, FiniteSets

CONSTANTS
  Callers,         \* goroutines that call Execute or ExecuteWithContext again and again
  MaxFailures, HalfOpenMaxReqs,
  MaxRequests      \* bound: requests finished since the last Reset

ASSUME ResilienceBreakerAssumption ==
  /\ MaxFailures \in Nat \ {0}      \* NewCircuitBreaker replaces others by defaults
  /\ HalfOpenMaxReqs \in Nat \ {0}
  /\ MaxRequests \in Nat

VARIABLES
  state, failures, requests, successes,
  halfOpenReqs, halfOpenSucc,
  cooled,          \* now.Sub(lastStateChange) >= resetTimeout
  pc               \* "idle", or "running" what was admitted

vars == <<state, failures, requests, successes, halfOpenReqs, halfOpenSucc, cooled, pc>>

Init ==
  /\ state = "closed"
  /\ failures = 0 /\ requests = 0 /\ successes = 0
  /\ halfOpenReqs = 0 /\ halfOpenSucc = 0
  /\ cooled = FALSE
  /\ pc = [c \in Callers |-> "idle"]

Running(c) == pc[c] # "idle" /\ requests < MaxRequests

-----------------------------------------------------------------------------
(* Plausible mistakes, each of which one of the properties is there to     *)
(* catch.                                                                  *)

\* The counts of an earlier half-open state go on in the next.
AllowRequestKeepsCounts(c) ==
  /\ pc[c] = "idle" /\ pc' = [pc EXCEPT ![c] = "running"]
  /\ \/ /\ state = "closed"
        /\ UNCHANGED <<state, cooled>>
     \/ /\ state = "open" /\ cooled
        /\ state' = "half-open" /\ cooled' = FALSE
     \/ /\ state = "half-open" /\ halfOpenReqs < HalfOpenMaxReqs
        /\ UNCHANGED <<state, cooled>>
  /\ UNCHANGED <<failures, requests, successes, halfOpenReqs, halfOpenSucc>>

\* A failure opens the breaker one too early.
OnRequestFailureOffByOne(c) ==
  /\ Running(c)
  /\ requests' = requests + 1
  /\ failures' = failures + 1
  /\ halfOpenReqs' = IF state = "half-open" THEN halfOpenReqs + 1 ELSE halfOpenReqs
  /\ IF state = "half-open" \/ (state = "closed" /\ failures' >= MaxFailures - 1)
     THEN state' = "open" /\ cooled' = FALSE
     ELSE UNCHANGED <<state, cooled>>
  /\ pc' = [pc EXCEPT ![c] = "idle"]
  /\ UNCHANGED <<successes, halfOpenSucc>>

-----------------------------------------------------------------------------
\* allowRequest.  An open breaker that has cooled down becomes half-open; one
\* that rejects the request changes nothing.
AllowRequest(c) ==
  /\ pc[c] = "idle" /\ pc' = [pc EXCEPT ![c] = "running"]
  /\ \/ /\ state = "closed"
        /\ UNCHANGED <<state, cooled, halfOpenReqs, halfOpenSucc>>
     \/ /\ state = "open" /\ cooled
        /\ state' = "half-open" /\ cooled' = FALSE
        /\ halfOpenReqs' = 0 /\ halfOpenSucc' = 0
     \/ /\ state = "half-open" /\ halfOpenReqs < HalfOpenMaxReqs
        /\ UNCHANGED <<state, cooled, halfOpenReqs, halfOpenSucc>>
  /\ UNCHANGED <<failures, requests, successes>>

\* onRequestSuccess, when the function has returned nil.
OnRequestSuccess(c) ==
  /\ Running(c)
  /\ requests' = requests + 1
  /\ successes' = successes + 1
  /\ IF state = "half-open"
     THEN /\ halfOpenReqs' = halfOpenReqs + 1
          /\ halfOpenSucc' = halfOpenSucc + 1
          /\ IF halfOpenSucc' >= HalfOpenMaxReqs
             THEN state' = "closed" /\ failures' = 0 /\ cooled' = FALSE
             ELSE UNCHANGED <<state, failures, cooled>>
     ELSE UNCHANGED <<halfOpenReqs, halfOpenSucc, state, failures, cooled>>
  /\ pc' = [pc EXCEPT ![c] = "idle"]

\* onRequestFailure: an error of the function, the context's end or the timeout.
OnRequestFailure(c) ==
  /\ Running(c)
  /\ requests' = requests + 1
  /\ failures' = failures + 1
  /\ halfOpenReqs' = IF state = "half-open" THEN halfOpenReqs + 1 ELSE halfOpenReqs
  /\ IF state = "half-open" \/ (state = "closed" /\ failures' >= MaxFailures)
     THEN state' = "open" /\ cooled' = FALSE
     ELSE UNCHANGED <<state, cooled>>
  /\ pc' = [pc EXCEPT ![c] = "idle"]
  /\ UNCHANGED <<successes, halfOpenSucc>>

\* Reset, by an operator of the system.
Reset ==
  /\ state' = "closed"
  /\ failures' = 0 /\ requests' = 0 /\ successes' = 0
  /\ halfOpenReqs' = 0 /\ halfOpenSucc' = 0
  /\ cooled' = FALSE
  /\ UNCHANGED pc

\* resetTimeout passes without a change of state.
CoolDown ==
  /\ ~cooled /\ cooled' = TRUE
  /\ UNCHANGED <<state, failures, requests, successes, halfOpenReqs, halfOpenSucc, pc>>

Next ==
  \/ Reset \/ CoolDown
  \/ \E c \in Callers : AllowRequest(c) \/ OnRequestSuccess(c) \/ OnRequestFailure(c)

Spec == Init /\ [][Next]_vars

-----------------------------------------------------------------------------
TypeOK ==
  /\ state \in {"closed", "open", "half-open"}
  /\ failures \in Nat /\ requests \in Nat /\ successes \in Nat
  /\ halfOpenReqs \in 0 .. HalfOpenMaxReqs
  /\ halfOpenSucc \in 0 .. HalfOpenMaxReqs
  /\ cooled \in BOOLEAN
  /\ pc \in [Callers -> {"idle", "running"}]

\* A closed breaker has room for another failure: failures counted while it was
\* open, of requests admitted earlier, are not left over when it closes.
ClosedHasFailuresLeft == state = "closed" => failures < MaxFailures

\* A half-open breaker still admits requests, and each finished one in it was a
\* success: otherwise it could reject for ever, with no way out of that state.
HalfOpenAdmits ==
  state = "half-open" => halfOpenReqs < HalfOpenMaxReqs /\ halfOpenSucc = halfOpenReqs

\* What the counters of either state promise, whatever results come late.
CountersFitState == ClosedHasFailuresLeft /\ HalfOpenAdmits

\* GetStats: FailureRate, failures / requests, is at most 1, with room for the
\* successes, although the two are reset at different times.
FailureRateIsARate == failures + successes <= requests

\* Late results change nothing but the counters of an open breaker; it leaves
\* that state after the timeout or by Reset, and the closed state only after
\* MaxFailures failures, whatever order results and requests come in.
ChangesOfState ==
  [][/\ state = "open" /\ state' # "open" => (cooled /\ state' = "half-open") \/ Reset
     /\ state = "closed" /\ state' # "closed" => state' = "open" /\ failures' >= MaxFailures]_vars
=============================================================================
