---------------------------- MODULE BarrierMutex ----------------------------
(***************************************************************************)
(* barrier_mutex_t (aux/barrier_mutex.cc): a barrier with a min-reduction  *)
(* built from a mutex, a condition variable and a one-bit cycle.  A step   *)
(* is what a thread does while it holds the mutex: pthread_cond_wait gives *)
(* the mutex up, may return without a broadcast, and takes it again.       *)
(* Threads call wait again and again, as the kernel does.                  *)
(***************************************************************************)
EXTENDS Integers, FiniteSets

CONSTANTS
  Threads,       \* the threads the barrier is initialized for (threshold)
  Offers,        \* values offered besides -1
  MaxRounds      \* bound: calls of wait per thread

ASSUME BarrierAssumption ==
  /\ IsFiniteSet(Threads) /\ Threads # {}
  /\ Offers \subseteq Nat
  /\ MaxRounds \in Nat

VARIABLES
  pc,              \* where each thread is
  offer,           \* the argument t of its call
  my_cycle,        \* the local my_cycle
  status,          \* what its last call returned: -1 for the waker, 0
  counter, cycle, min_value, reduction_value,
  (* history *)
  calls,           \* calls of wait per thread
  rounds           \* times the counter reached zero

barrierVars == <<counter, cycle, min_value, reduction_value>>
vars == <<pc, offer, my_cycle, status, barrierVars, calls, rounds>>

threshold == Cardinality(Threads)

\* barrier_mutex_t::init
Init ==
  /\ pc = [t \in Threads |-> "out"]
  /\ offer = [t \in Threads |-> -1]
  /\ my_cycle = [t \in Threads |-> 0]
  /\ status = [t \in Threads |-> 0]
  /\ counter = threshold /\ cycle = 0
  /\ min_value = -1 /\ reduction_value = -1
  /\ calls = [t \in Threads |-> 0]
  /\ rounds = 0

\* A thread calls wait and goes for the mutex.
Call(t) ==
  /\ pc[t] = "out" /\ calls[t] < MaxRounds
  /\ pc' = [pc EXCEPT ![t] = "lock"]
  /\ \E v \in Offers \cup {-1} : offer' = [offer EXCEPT ![t] = v]
  /\ calls' = [calls EXCEPT ![t] = @ + 1]
  /\ UNCHANGED <<my_cycle, status, barrierVars, rounds>>

Reduced(v) == IF v >= 0 /\ (min_value < 0 \/ min_value > v) THEN v ELSE min_value

\* The last thread of a round: what becomes of the counter and the cycle, what it
\* returns, and whom it wakes.
LastIn(t, cnt, cyc, st, wake) ==
  /\ pc[t] = "lock" /\ counter = 1
  /\ counter' = cnt /\ cycle' = cyc
  /\ reduction_value' = Reduced(offer[t]) /\ min_value' = -1
  /\ pc' = [u \in Threads |-> IF u = t THEN "back" ELSE IF u \in wake THEN "woken" ELSE pc[u]]
  /\ status' = [status EXCEPT ![t] = st]
  /\ rounds' = rounds + 1
  /\ UNCHANGED <<offer, my_cycle, calls>>

Sleeping == {u \in Threads : pc[u] = "wait"}

\* Faulty variants: the counter is not reset, the cycle is not turned, the waker is
\* not told, one thread is signalled instead of all.
ArriveLastCounter(t) == LastIn(t, counter - 1, 1 - cycle, -1, Sleeping)
ArriveLastCycle(t) == LastIn(t, threshold, cycle, -1, Sleeping)
ArriveLastStatus(t) == LastIn(t, threshold, 1 - cycle, 0, Sleeping)
ArriveLastSignal(t) == \E u \in Sleeping : LastIn(t, threshold, 1 - cycle, -1, {u})

\* wait under the mutex, last thread: turn the cycle, publish the minimum, wake all.
ArriveLast(t) == LastIn(t, threshold, 1 - cycle, -1, Sleeping)

\* wait under the mutex, any other thread: remember the cycle and sleep.
Arrive(t) ==
  /\ pc[t] = "lock" /\ counter # 1
  /\ my_cycle' = [my_cycle EXCEPT ![t] = cycle]
  /\ min_value' = Reduced(offer[t])
  /\ counter' = counter - 1
  /\ pc' = [pc EXCEPT ![t] = "wait"]
  /\ UNCHANGED <<offer, status, cycle, reduction_value, calls, rounds>>

\* pthread_cond_wait returns without a broadcast.
Spurious(t) ==
  /\ pc[t] = "wait"
  /\ pc' = [pc EXCEPT ![t] = "woken"]
  /\ UNCHANGED <<offer, my_cycle, status, barrierVars, calls, rounds>>

\* Faulty variant: an if in place of the while around pthread_cond_wait.
RecheckOnce(t) ==
  /\ pc[t] = "woken"
  /\ pc' = [pc EXCEPT ![t] = "back"]
  /\ status' = [status EXCEPT ![t] = 0]
  /\ UNCHANGED <<offer, my_cycle, barrierVars, calls, rounds>>

\* The loop condition, once the mutex is held again.
Recheck(t) ==
  /\ pc[t] = "woken"
  /\ IF my_cycle[t] = cycle
     THEN pc' = [pc EXCEPT ![t] = "wait"] /\ UNCHANGED status
     ELSE pc' = [pc EXCEPT ![t] = "back"] /\ status' = [status EXCEPT ![t] = 0]
  /\ UNCHANGED <<offer, my_cycle, barrierVars, calls, rounds>>

\* The caller goes on: it reads get_min_value, outside the mutex.
Leave(t) ==
  /\ pc[t] = "back"
  /\ pc' = [pc EXCEPT ![t] = "out"]
  /\ UNCHANGED <<offer, my_cycle, status, barrierVars, calls, rounds>>

Finished ==
  /\ \A t \in Threads : pc[t] = "out" /\ calls[t] = MaxRounds
  /\ UNCHANGED vars

Step(t) == Call(t) \/ Arrive(t) \/ ArriveLast(t) \/ Recheck(t) \/ Leave(t)

Next == (\E t \in Threads : Step(t) \/ Spurious(t)) \/ Finished

Spec == Init /\ [][Next]_vars

\* Every thread keeps running and gets the mutex; spurious wake-ups are not promised.
FairSpec == Spec /\ \A t \in Threads : WF_vars(Step(t))
-----------------------------------------------------------------------------
\* The types of the barrier's fields and of the threads' locals.
TypeOK ==
  /\ pc \in [Threads -> {"out", "lock", "wait", "woken", "back"}]
  /\ offer \in [Threads -> Offers \cup {-1}]
  /\ my_cycle \in [Threads -> {0, 1}] /\ cycle \in {0, 1}
  /\ status \in [Threads -> {-1, 0}]
  /\ counter \in 1 .. threshold
  /\ min_value \in Offers \cup {-1} /\ reduction_value \in Offers \cup {-1}
  /\ calls \in [Threads -> 0 .. MaxRounds]
  /\ rounds \in 0 .. MaxRounds

\* The one-bit cycle is enough: a thread asleep, or awake and not yet past the loop
\* condition, sees its own cycle exactly while its round is still open, however many
\* wake-ups it got and however slow it was to take the mutex again.
CycleTellsRounds ==
  \A t \in Threads : pc[t] \in {"wait", "woken"} =>
    (my_cycle[t] = cycle <=> rounds < calls[t])

\* "error, -1 for waker, or 0": when everyone is back from a round exactly one thread
\* got -1, so that the serial code after the barrier runs once.
OneSerialThread ==
  (rounds > 0 /\ \A t \in Threads : pc[t] \in {"back", "out"} /\ calls[t] = rounds) =>
    Cardinality({t \in Threads : status[t] = -1}) = 1

\* A thread that calls wait comes back, since the others call it too.
WaitReturns == \A t \in Threads : (pc[t] # "out") ~> (pc[t] = "out")

Abstract == INSTANCE MinBarrier WITH
  returns <- [t \in Threads |-> IF pc[t] = "out" THEN calls[t] ELSE calls[t] - 1],
  minimum <- reduction_value

\* The barrier keeps the rounds apart and every returned thread reads the minimum of
\* its own round.
ImplementsMinBarrier == Abstract!Spec
=============================================================================
