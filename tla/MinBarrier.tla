----------------------------- MODULE MinBarrier -----------------------------
(***************************************************************************)
(* What the barriers of aux/ promise to the kernel: every call of wait     *)
(* offers a value, no call returns before every thread has made its call   *)
(* of the same round, and a returned thread reads the least value offered  *)
(* in that round, negative offers ignored.                                 *)
(***************************************************************************)
EXTENDS Integers

CONSTANTS
  Threads,       \* the threads the barrier is initialized for
  Offers,        \* values offered besides -1
  MaxRounds      \* bound: calls of wait per thread

VARIABLES
  calls,         \* calls[t]: calls of wait made by t
  returns,       \* returns[t]: calls of wait t is back from
  offer,         \* offer[t]: the value of t's last call
  rounds,        \* rounds completed
  minimum        \* what get_min_value returns

absVars == <<calls, returns, offer, rounds, minimum>>

\* v is the least non-negative offer of the threads in S, negative if there is none.
IsLeast(v, f, S) ==
  \/ v < 0 /\ \A t \in S : f[t] < 0
  \/ v >= 0 /\ (\E t \in S : f[t] = v) /\ (\A t \in S : f[t] < 0 \/ v <= f[t])

Init ==
  /\ calls = [t \in Threads |-> 0]
  /\ returns = [t \in Threads |-> 0]
  /\ offer = [t \in Threads |-> -1]
  /\ rounds = 0
  /\ minimum \in Offers \cup {-1}

Enter(t) ==
  /\ returns[t] = calls[t] /\ calls[t] < MaxRounds
  /\ calls' = [calls EXCEPT ![t] = @ + 1]
  /\ \E v \in Offers \cup {-1} : offer' = [offer EXCEPT ![t] = v]
  /\ UNCHANGED <<returns, rounds, minimum>>

Complete ==
  /\ \A t \in Threads : calls[t] = rounds + 1
  /\ rounds' = rounds + 1
  /\ minimum' \in Offers \cup {-1} /\ IsLeast(minimum', offer, Threads)
  /\ UNCHANGED <<calls, returns, offer>>

\* The thread is back and reads the minimum of the round it took part in.
Leave(t) ==
  /\ returns[t] < calls[t] /\ calls[t] = rounds
  /\ returns' = [returns EXCEPT ![t] = @ + 1]
  /\ UNCHANGED <<calls, offer, rounds, minimum>>

Next == (\E t \in Threads : Enter(t) \/ Leave(t)) \/ Complete

Spec == Init /\ [][Next]_absVars
=============================================================================
