------------------------------ MODULE SimModel ------------------------------
(***************************************************************************)
(* A simulation model as the S3F kernel sees it: Timelines, the mappings   *)
(* (mapto) from OutChannels to InChannels, and the process bodies that     *)
(* events run.  A body waits for some delays (Entity::waitFor) and writes  *)
(* on some OutChannels (OutChannel::write); everything else a body does is *)
(* invisible to the kernel.                                                *)
(***************************************************************************)
EXTENDS Integers, FiniteSets, FiniteSetsExt

CONSTANTS
  Timelines,     \* the Timeline threads
  Maps,          \* one name for every OutChannel-to-InChannel mapping
  Route,         \* Route[m] = [oc, src, dst, delay]: see RouteType
  Bodies,        \* Bodies[t]: the process bodies that events of t may run
  InitBodies     \* InitBodies[t]: what the init() methods of t's entities may do

OutChannels == {Route[m].oc : m \in Maps}

\* A mapping: the OutChannel, the Timelines of its two ends, and the sum of the
\* OutChannel's minimum write delay and the mapping's transfer delay.
RouteType == [oc : OutChannels, src : Timelines, dst : Timelines, delay : Nat]

\* A process body: whether a timeout or an activation runs it, the delays it waits
\* for and the writes it does.
IsBody(b) ==
  /\ DOMAIN b = {"on", "timers", "writes"}
  /\ b.on \in {"TIMEOUT", "EXEC_ACTIVATE"}
  /\ b.timers \subseteq Nat /\ IsFiniteSet(b.timers)
  /\ b.writes \subseteq [oc : OutChannels, delay : Int] /\ IsFiniteSet(b.writes)

\* OutChannel::mapto refuses a mapping across Timelines with a zero delay.
ASSUME RouteAssumption ==
  /\ Timelines # {} /\ IsFiniteSet(Timelines)
  /\ IsFiniteSet(Maps)
  /\ Route \in [Maps -> RouteType]
  /\ \A m \in Maps : Route[m].src # Route[m].dst => Route[m].delay > 0

\* A body writes on the OutChannels of its own Timeline, and not into the past.
ASSUME BodyAssumption ==
  /\ DOMAIN Bodies = Timelines /\ DOMAIN InitBodies = Timelines
  /\ \A t \in Timelines : \A b \in Bodies[t] \cup InitBodies[t] :
       /\ IsBody(b)
       /\ \A w \in b.writes : \A m \in Maps : Route[m].oc = w.oc =>
            Route[m].src = t /\ w.delay + Route[m].delay >= 0

EventTypes == {"TIMEOUT", "ACTIVATE", "EXEC_ACTIVATE"}

\* An Event: when and what, the Timeline that created it, how many Events that
\* Timeline had created before (__evtnum), and the mapping it came through.
Event == [type : EventTypes, time : Nat, from : Timelines, num : Nat,
          via : Maps \cup {"self"}]

NewEvent(t, num, type, at, via) ==
  [type |-> type, time |-> at, from |-> t, num |-> num, via |-> via]

\* The deliveries a body asks for at time now: a mapping, a write and its arrival.
Deliveries(b, now) ==
  {[via |-> x[1], delay |-> x[2].delay, at |-> now + x[2].delay + Route[x[1]].delay] :
     x \in {y \in Maps \X b.writes : Route[y[1]].oc = y[2].oc}}

\* Faulty variant: the delay is subtracted.
TimeoutsBack(t, num, b, now) == {NewEvent(t, num, "TIMEOUT", now - d, "self") : d \in b.timers}

\* The timeouts of the waitFor calls a body of t makes.
Timeouts(t, num, b, now) == {NewEvent(t, num, "TIMEOUT", now + d, "self") : d \in b.timers}

\* The activations on Timeline u that the deliveries D of a body of t create.
Activations(t, num, D, u) ==
  {NewEvent(t, num, "ACTIVATE", d.at, d.via) : d \in {x \in D : Route[x.via].dst = u}}

\* EVTYPE_ACTIVATE e: an EXEC_ACTIVATE at the same time for the process bound to
\* the InChannel.
ExecActivate(t, num, e) == NewEvent(t, num, "EXEC_ACTIVATE", e.time, e.via)
=============================================================================
