---------------------------- MODULE BarrierYield ----------------------------
(***************************************************************************)
(* barrier_t (aux/barrier.cc): a barrier with a min-reduction and without  *)
(* a lock.  Threads are 0 .. count-1.  Each one stores its value, bumps    *)
(* its own call count and spins until every other count has caught up;     *)
(* thread 0 then publishes the minimum it has seen on the way and releases *)
(* the others through cycle.  Every access to shared memory is a step, in  *)
(* program order.                                                          *)
(***************************************************************************)
EXTENDS Integers

CONSTANTS
  count,         \* number of threads
  Offers,        \* values offered besides -1
  MaxRounds      \* bound: calls of wait per thread, fewer than overflow the int cycle

ASSUME CountAssumption ==
  /\ count \in Nat \ {0}
  /\ Offers \subseteq Nat
  /\ MaxRounds \in Nat

Threads == 0 .. count - 1

VARIABLES
  pc,                    \* where each thread is
  i,                     \* the local loop index
  lt_min_value,          \* the local minimum
  calls, values, cycle,  \* the shared state of the barrier
  min_reduction_value

sharedVars == <<calls, values, cycle, min_reduction_value>>
vars == <<pc, i, lt_min_value, sharedVars>>

\* barrier_t::init; it leaves min_reduction_value as it is.
Init ==
  /\ pc = [who \in Threads |-> "out"]
  /\ i = [who \in Threads |-> 1]
  /\ lt_min_value = [who \in Threads |-> -1]
  /\ calls = [who \in Threads |-> 0]
  /\ values = [who \in Threads |-> 0]
  /\ cycle = 0
  /\ min_reduction_value \in Offers \cup {-1}

Goto(who, from, to) == pc[who] = from /\ pc' = [pc EXCEPT ![who] = to]

\* Faulty variant: the loop starts at 0.
StoreZero(who) ==
  /\ Goto(who, "out", "count") /\ calls[who] < MaxRounds
  /\ \E t \in Offers \cup {-1} :
       /\ values' = [values EXCEPT ![who] = t]
       /\ lt_min_value' = [lt_min_value EXCEPT ![who] = t]
  /\ i' = [i EXCEPT ![who] = 0]
  /\ UNCHANGED <<calls, cycle, min_reduction_value>>

\* values[who] = t
Store(who) ==
  /\ Goto(who, "out", "count") /\ calls[who] < MaxRounds
  /\ \E t \in Offers \cup {-1} :
       /\ values' = [values EXCEPT ![who] = t]
       /\ lt_min_value' = [lt_min_value EXCEPT ![who] = t]
  /\ i' = [i EXCEPT ![who] = 1]
  /\ UNCHANGED <<calls, cycle, min_reduction_value>>

\* mycalls = ++calls[who]: from here to the return calls[who] is mycalls.
Count(who) ==
  /\ Goto(who, "count", "scan")
  /\ calls' = [calls EXCEPT ![who] = @ + 1]
  /\ UNCHANGED <<i, lt_min_value, values, cycle, min_reduction_value>>

\* Whom iteration i of the loop waits for.
Awaited(who) == (i[who] + who) % count

\* Faulty variant: the loop does not wait for the others.
ScanNoWait(who) ==
  /\ pc[who] = "scan" /\ i[who] < count
  /\ pc' = [pc EXCEPT ![who] = "read"]
  /\ UNCHANGED <<i, lt_min_value, sharedVars>>

\* The spinning on another thread's call count ends.
Scan(who) ==
  /\ pc[who] = "scan" /\ i[who] < count
  /\ calls[Awaited(who)] >= calls[who]
  /\ pc' = [pc EXCEPT ![who] = "read"]
  /\ UNCHANGED <<i, lt_min_value, sharedVars>>

\* Faulty variant: a negative value is not ignored.
ReadAny(who) ==
  /\ Goto(who, "read", "scan")
  /\ lt_min_value' = [lt_min_value EXCEPT ![who] = IF values[i[who]] < @ THEN values[i[who]] ELSE @]
  /\ i' = [i EXCEPT ![who] = @ + 1]
  /\ UNCHANGED sharedVars

\* values[i], whichever thread was waited for, enters the minimum.
Read(who) ==
  LET v == values[i[who]]
  IN /\ Goto(who, "read", "scan")
     /\ lt_min_value' = [lt_min_value EXCEPT ![who] = IF v >= 0 /\ (@ < 0 \/ v < @) THEN v ELSE @]
     /\ i' = [i EXCEPT ![who] = @ + 1]
     /\ UNCHANGED sharedVars

\* Thread 0 copies its minimum ...
Publish ==
  /\ i[0] = count /\ Goto(0, "scan", "release")
  /\ min_reduction_value' = lt_min_value[0]
  /\ UNCHANGED <<i, lt_min_value, calls, values, cycle>>

\* ... and lets the others go; its own wait returns -1.
Release ==
  /\ Goto(0, "release", "back")
  /\ cycle' = cycle + 1
  /\ UNCHANGED <<i, lt_min_value, calls, values, min_reduction_value>>

\* Faulty variant: a thread waits for one release too many.
AwaitReleaseOff(who) ==
  /\ who # 0 /\ i[who] = count /\ Goto(who, "scan", "back")
  /\ cycle > calls[who]
  /\ UNCHANGED <<i, lt_min_value, sharedVars>>

\* Any other thread spins on cycle; its wait returns 0.
AwaitRelease(who) ==
  /\ who # 0 /\ i[who] = count /\ Goto(who, "scan", "back")
  /\ cycle >= calls[who]
  /\ UNCHANGED <<i, lt_min_value, sharedVars>>

\* The caller goes on: it reads get_min_value.
Leave(who) ==
  /\ Goto(who, "back", "out")
  /\ UNCHANGED <<i, lt_min_value, sharedVars>>

Step(who) ==
  \/ Store(who) \/ Count(who) \/ Scan(who) \/ Read(who)
  \/ who = 0 /\ (Publish \/ Release)
  \/ AwaitRelease(who) \/ Leave(who)

\* The threads stop after MaxRounds calls.
Next == \E who \in Threads : Step(who)

Spec == Init /\ [][Next]_vars

\* sched_yield lets every thread run.
FairSpec == Spec /\ \A who \in Threads : WF_vars(Step(who))
-----------------------------------------------------------------------------
\* The types of the barrier's fields and of the threads' locals.
TypeOK ==
  /\ pc \in [Threads -> {"out", "count", "scan", "read", "release", "back"}]
  /\ i \in [Threads -> 1 .. count]
  /\ lt_min_value \in [Threads -> Offers \cup {-1, 0}]
  /\ calls \in [Threads -> 0 .. MaxRounds]
  /\ values \in [Threads -> Offers \cup {-1, 0}]
  /\ cycle \in 0 .. MaxRounds
  /\ min_reduction_value \in Offers \cup {-1, 0}

\* While thread 0 reduces the values of a round, no thread has stored the value of
\* its next call over one that is still to be read.
ValuesStable ==
  pc[0] = "read" => calls[i[0]] = calls[0] /\ pc[i[0]] \in {"scan", "read"}

\* A thread that calls wait comes back, since the others call it too.
WaitReturns == \A who \in Threads : (pc[who] # "out") ~> (pc[who] = "out")

\* A call is made when its value is stored, and the round is complete when thread 0
\* has published the minimum.
Called == [who \in Threads |-> IF pc[who] = "count" THEN calls[who] + 1 ELSE calls[who]]
Abstract == INSTANCE MinBarrier WITH
  calls   <- Called,
  returns <- [who \in Threads |-> IF pc[who] = "out" THEN Called[who] ELSE Called[who] - 1],
  offer   <- [who \in Threads |-> IF Called[who] = 0 THEN -1 ELSE values[who]],
  rounds  <- IF pc[0] = "release" THEN cycle + 1 ELSE cycle,
  minimum <- min_reduction_value

\* The barrier keeps the rounds apart and every returned thread reads the minimum of
\* its own round.
ImplementsMinBarrier == Abstract!Spec
=============================================================================
