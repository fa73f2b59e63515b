---------------------------- MODULE ParallelSim -----------------------------
(***************************************************************************)
(* What the synchronization kernel promises, with no windows, barriers or  *)
(* threads: a Timeline executes its pending events in timestamp order, and *)
(* executes one only when no event of another Timeline can still cause an  *)
(* earlier one there; every write with no negative delay is delivered, at  *)
(* its time; advance(len) returns when everything before clock + len has   *)
(* been executed.                                                          *)
(***************************************************************************)
EXTENDS SimModel

CONSTANT EpochLengths

VARIABLES pending,  \* pending[t]: the events Timeline t has still to execute
          evtnum,   \* Events created by each Timeline
          clock,    \* what the last advance returned
          target,   \* the time the advance under way is to reach
          phase     \* "build", "idle" or "advancing"

vars == <<pending, evtnum, clock, target, phase>>

Init ==
  /\ pending = [t \in Timelines |-> {}]
  /\ evtnum = [t \in Timelines |-> 0]
  /\ clock = 0 /\ target = 0
  /\ phase = "build"

\* The model's init() methods leave some events behind.
Build ==
  /\ phase = "build" /\ phase' = "idle"
  /\ \A t \in Timelines : pending'[t] \subseteq [type : EventTypes, time : Nat,
       from : Timelines, num : {0}, via : Maps \cup {"self"}]
  /\ DOMAIN pending' = Timelines /\ DOMAIN evtnum' = Timelines
  /\ UNCHANGED <<clock, target>>

Start(len) ==
  /\ phase = "idle" /\ phase' = "advancing"
  /\ target' = clock + len
  /\ UNCHANGED <<pending, evtnum, clock>>

\* No event of another Timeline can send t anything before time at.
NothingBefore(t, at) ==
  \A m \in Maps : Route[m].dst = t /\ Route[m].src # t =>
    \A f \in pending[Route[m].src] : f.time + Route[m].delay >= at

\* e is next on t, within the epoch, and nothing earlier can reach t any more.
Ready(t, e) ==
  /\ phase = "advancing"
  /\ e \in pending[t] /\ e.time < target
  /\ \A f \in pending[t] : e.time <= f.time
  /\ NothingBefore(t, e.time)

\* The event's process body runs.  D is what it writes: all of it, but for writes
\* with a negative delay, which may be refused.
Execute(t) ==
  \E e \in pending[t] : \E b \in Bodies[t] :
    \E D \in SUBSET Deliveries(b, e.time) :
      /\ Ready(t, e) /\ e.type = b.on
      /\ \A d \in Deliveries(b, e.time) : d.delay >= 0 => d \in D
      /\ pending' = [u \in Timelines |->
           (IF u = t THEN (pending[t] \ {e}) \cup Timeouts(t, evtnum[t], b, e.time)
                     ELSE pending[u])
           \cup Activations(t, evtnum[t], D, u)]
      /\ evtnum' = [evtnum EXCEPT ![t] = @ + Cardinality(b.timers) + Cardinality(D)]
      /\ UNCHANGED <<clock, target, phase>>

Activate(t) ==
  \E e \in pending[t] :
    /\ Ready(t, e) /\ e.type = "ACTIVATE"
    /\ pending' = [pending EXCEPT ![t] = (@ \ {e}) \cup {ExecActivate(t, evtnum[t], e)}]
    /\ evtnum' = [evtnum EXCEPT ![t] = @ + 1]
    /\ UNCHANGED <<clock, target, phase>>

Return ==
  /\ phase = "advancing" /\ phase' = "idle"
  /\ \A t \in Timelines : \A e \in pending[t] : e.time >= target
  /\ clock' = target
  /\ UNCHANGED <<pending, evtnum, target>>

Next ==
  \/ Build \/ Return
  \/ \E len \in EpochLengths : Start(len)
  \/ \E t \in Timelines : Execute(t) \/ Activate(t)

Spec == Init /\ [][Next]_vars
=============================================================================
