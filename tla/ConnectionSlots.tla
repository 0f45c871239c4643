-------------------------- MODULE ConnectionSlots ---------------------------
(***************************************************************************)
(* BackpressureController and ConnectionPool of internal/concurrency: the  *)
(* slots for connections and workers, the queue of requests, the pressure  *)
(* made of all of them, the limits that follow the pressure, and a pool    *)
(* that takes a slot for every connection it hands out.  Releases count    *)
(* down before they take the lock, and that is a step of its own.  A       *)
(* request that is refused changes nothing but a count of refusals.        *)
(***************************************************************************)
EXTENDS Integers, FiniteSets

CONSTANTS Users,
          Connections, WorkerSlots, QueueSlots,   \* the limits at the start
          PoolCapacity,
          Latencies, MaxLatency,
          MaxScalings,                            \* bounds scalingHistory
          MaxEmptyDequeues                        \* bounds calls of DequeueRequest for requests not there

ASSUME SlotsAssumption ==
    /\ IsFiniteSet(Users)
    /\ {Connections, WorkerSlots, QueueSlots, MaxLatency} \subseteq Nat \ {0}
    /\ {PoolCapacity, MaxScalings, MaxEmptyDequeues} \subseteq Nat
    /\ Latencies \subseteq Nat

VARIABLES activeConnections, maxConnections, activeWorkers, maxWorkers,
          queuedRequests, currentLatency, pressure,
          scalings, rescaled,        \* a limit has changed since pressure was computed
          user,                      \* where each user is
          available, misses,         \* of the pool: connections in the channel, PoolMisses
          poolClosed, cleaning,      \* cleanupIdleConnections holds a connection
          poolCrashed

load == <<activeConnections, activeWorkers, queuedRequests, currentLatency>>
limits == <<maxConnections, maxWorkers, scalings>>
pool == <<available, misses, poolClosed, cleaning, poolCrashed>>
slotsVars == <<load, limits, pressure, rescaled, user, pool>>

UserPCs == {"out", "slot", "holding", "dropped", "returned", "sending",
            "working", "stopped", "dequeued"}
In(pcs) == {u \in Users : user[u] \in pcs}

SlotsTypeOK ==
    /\ activeConnections \in Nat /\ activeWorkers \in Nat /\ queuedRequests \in -MaxEmptyDequeues .. QueueSlots
    /\ maxConnections \in Nat \ {0} /\ maxWorkers \in Nat \ {0}
    /\ currentLatency \in Latencies \cup {0}
    /\ pressure \in {"low", "normal", "high", "over"}
    /\ scalings \in 0 .. MaxScalings /\ rescaled \in BOOLEAN
    /\ user \in [Users -> UserPCs]
    /\ available \in 0 .. PoolCapacity /\ misses \in Nat
    /\ {poolClosed, cleaning, poolCrashed} \subseteq BOOLEAN

SlotsInit ==
    /\ activeConnections = 0 /\ activeWorkers = 0 /\ queuedRequests = 0 /\ currentLatency = 0
    /\ maxConnections = Connections /\ maxWorkers = WorkerSlots /\ scalings = 0
    /\ pressure = "low" /\ rescaled = FALSE
    /\ user = [u \in Users |-> "out"]
    /\ available = 0 /\ misses = 0
    /\ poolClosed = FALSE /\ cleaning = FALSE /\ poolCrashed = FALSE

---------------------------------------------------------------------------
(* Pressure, in the bands of the default thresholds 0.3, 0.7 and 0.8. *)

Capped(latency) == IF latency > MaxLatency THEN MaxLatency ELSE latency

Pressure(conns, workers, queued, latency, maxC, maxW) ==
    LET whole == maxC * maxW * QueueSlots * MaxLatency
        tenths == 3 * conns * maxW * QueueSlots * MaxLatency
                  + 2 * workers * maxC * QueueSlots * MaxLatency
                  + 3 * queued * maxC * maxW * MaxLatency
                  + 2 * Capped(latency) * maxC * maxW * QueueSlots
    IN  CASE tenths > 8 * whole -> "over"
          [] tenths > 7 * whole /\ tenths <= 8 * whole -> "high"
          [] tenths < 3 * whole -> "low"
          [] OTHER -> "normal"

PressureNow ==
    Pressure(activeConnections, activeWorkers, queuedRequests, currentLatency,
             maxConnections, maxWorkers)

UpdatePressure ==
    /\ pressure' = Pressure(activeConnections', activeWorkers', queuedRequests',
                            currentLatency', maxConnections, maxWorkers)
    /\ rescaled' = FALSE

---------------------------------------------------------------------------
(* The slots of the controller. *)

Move(u, from, to) == user[u] = from /\ user' = [user EXCEPT ![u] = to]

AcquireConnection(u, to) ==
    /\ pressure # "over"
    /\ activeConnections < maxConnections
    /\ Move(u, "out", to)
    /\ activeConnections' = activeConnections + 1
    /\ UNCHANGED <<activeWorkers, queuedRequests, currentLatency, limits, pool>>
    /\ UpdatePressure

CountDown(u, from, to) ==
    /\ Move(u, from, to)
    /\ activeConnections' = activeConnections - 1
    /\ UNCHANGED <<activeWorkers, queuedRequests, currentLatency, limits, pressure, rescaled, pool>>

(* The second half of every release, under the lock. *)
Released(u, from, to) ==
    /\ Move(u, from, to)
    /\ UNCHANGED <<load, limits, pool>>
    /\ UpdatePressure

ReleaseConnection(u) == CountDown(u, "holding", "dropped") \/ Released(u, "dropped", "out")

AcquireWorker(u) ==
    /\ activeWorkers < maxWorkers
    /\ Move(u, "out", "working")
    /\ activeWorkers' = activeWorkers + 1
    /\ UNCHANGED <<activeConnections, queuedRequests, currentLatency, limits, pool>>
    /\ UpdatePressure

ReleaseWorker(u) ==
    \/ /\ Move(u, "working", "stopped")
       /\ activeWorkers' = activeWorkers - 1
       /\ UNCHANGED <<activeConnections, queuedRequests, currentLatency, limits, pressure,
                      rescaled, pool>>
    \/ Released(u, "stopped", "out")

EnqueueRequest(u) ==
    /\ user[u] = "out" /\ queuedRequests < QueueSlots
    /\ queuedRequests' = queuedRequests + 1
    /\ UNCHANGED <<activeConnections, activeWorkers, currentLatency, limits, user, pool>>
    /\ UpdatePressure

(* Nothing in it looks whether there is a request. *)
DequeueRequest(u) ==
    \/ /\ queuedRequests > -MaxEmptyDequeues /\ Move(u, "out", "dequeued")
       /\ queuedRequests' = queuedRequests - 1
       /\ UNCHANGED <<activeConnections, activeWorkers, currentLatency, limits, pressure,
                      rescaled, pool>>
    \/ Released(u, "dequeued", "out")

---------------------------------------------------------------------------
(* Scaling, when a latency is reported and the delay since the last time is over. *)

ScaleUp ==
    /\ maxConnections' = IF activeConnections > (8 * maxConnections) \div 10
                         THEN (12 * maxConnections) \div 10 ELSE maxConnections
    /\ maxWorkers' = IF activeWorkers > (8 * maxWorkers) \div 10
                     THEN (12 * maxWorkers) \div 10 ELSE maxWorkers

ScaleDownWhateverIsActive ==
    /\ maxConnections' = IF maxConnections > 10 THEN (8 * maxConnections) \div 10 ELSE maxConnections
    /\ UNCHANGED maxWorkers

ScaleDown ==
    /\ maxConnections' = IF /\ activeConnections < (3 * maxConnections) \div 10
                            /\ maxConnections > 10
                         THEN (8 * maxConnections) \div 10 ELSE maxConnections
    /\ UNCHANGED maxWorkers

ConsiderScaling ==
    \/ UNCHANGED limits /\ rescaled' = FALSE
    \/ /\ scalings < MaxScalings /\ scalings' = scalings + 1
       /\ \/ pressure' \in {"high", "over"} /\ ScaleUp
          \/ pressure' = "low" /\ ScaleDown
       /\ rescaled' = (<<maxConnections', maxWorkers'>> # <<maxConnections, maxWorkers>>)

UpdateLatency(latency) ==
    /\ currentLatency' = latency
    /\ pressure' = Pressure(activeConnections, activeWorkers, queuedRequests, latency,
                            maxConnections, maxWorkers)
    /\ ConsiderScaling
    /\ UNCHANGED <<activeConnections, activeWorkers, queuedRequests, user, pool>>

---------------------------------------------------------------------------
(* The pool.  It makes no connection itself: one comes in only when a user that took
   a slot of the controller hands its own connection over. *)

OutsideController == UNCHANGED <<load, limits, pressure, rescaled>>

PoolHit(u) ==
    /\ available > 0
    /\ Move(u, "slot", "holding")
    /\ available' = available - 1
    /\ OutsideController /\ UNCHANGED <<misses, poolClosed, cleaning, poolCrashed>>

(* The slot that was taken is not given back. *)
PoolMiss(u) ==
    /\ available = 0 /\ ~poolClosed
    /\ Move(u, "slot", "out")
    /\ misses' = misses + 1
    /\ OutsideController /\ UNCHANGED <<available, poolClosed, cleaning, poolCrashed>>

(* A closed channel hands out connections that are none. *)
PoolHitAfterClose(u) ==
    /\ available = 0 /\ poolClosed
    /\ Move(u, "slot", "holding")
    /\ OutsideController /\ UNCHANGED pool

PoolReturns(u) ==
    /\ Move(u, "sending", "out")
    /\ poolCrashed' = poolClosed
    /\ available' = IF poolClosed \/ available = PoolCapacity THEN available ELSE available + 1
    /\ OutsideController /\ UNCHANGED <<misses, poolClosed, cleaning>>

PoolAcquireConnection(u) ==
    \/ AcquireConnection(u, "slot")
    \/ PoolHit(u) \/ PoolMiss(u) \/ PoolHitAfterClose(u)

PoolReleaseConnection(u) ==
    \/ CountDown(u, "holding", "returned") \/ Released(u, "returned", "sending")
    \/ PoolReturns(u)

(* The connection was idle too long, or goes back: into a channel that others may have
   filled, and then the routine waits with the lock of the pool. *)
CleanupIdleConnections ==
    /\ OutsideController /\ UNCHANGED <<user, misses, poolClosed>>
    /\ \/ /\ ~cleaning /\ ~poolClosed /\ available > 0
          /\ available' = available - 1
          /\ cleaning' \in BOOLEAN
          /\ UNCHANGED poolCrashed
       \/ /\ cleaning /\ (poolClosed \/ available < PoolCapacity)
          /\ available' = IF poolClosed THEN available ELSE available + 1
          /\ cleaning' = FALSE
          /\ poolCrashed' = poolClosed

Close ==
    /\ poolClosed' = TRUE /\ poolCrashed' = poolClosed
    /\ available' = 0
    /\ OutsideController /\ UNCHANGED <<user, misses, cleaning>>

SlotsNext ==
    /\ ~poolCrashed
    /\ \/ \E u \in Users :
             \/ AcquireConnection(u, "holding") \/ ReleaseConnection(u)
             \/ AcquireWorker(u) \/ ReleaseWorker(u)
             \/ EnqueueRequest(u) \/ DequeueRequest(u)
             \/ PoolAcquireConnection(u) \/ PoolReleaseConnection(u)
       \/ \E latency \in Latencies : UpdateLatency(latency)
       \/ CleanupIdleConnections
       \/ Close

SlotsSpec == SlotsInit /\ [][SlotsNext]_slotsVars

---------------------------------------------------------------------------
(* A slot that is counted is one that somebody has, or one that a miss of the pool has
   lost for good: nothing else leaks a slot or gives one back twice. *)
SlotsAreHeldOrLost == activeConnections = Cardinality(In({"slot", "holding"})) + misses

(* No limit is ever lowered, or passed, below what is in use. *)
WithinSlotLimits == activeConnections <= maxConnections /\ activeWorkers <= maxWorkers

(* The pressure that admits or refuses connections is that of the counters, but for
   releases that are not complete and for a limit that has just been changed. *)
PressureIsCurrent ==
    (In({"dropped", "returned", "stopped", "dequeued"}) = {} /\ ~rescaled)
        => pressure = PressureNow

(* The controller and its pool under concurrent users (backpressure.go). *)
SlotsConsistent ==
    SlotsTypeOK /\ SlotsAreHeldOrLost /\ WithinSlotLimits /\ PressureIsCurrent
=============================================================================
