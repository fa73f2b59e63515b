------------------------- MODULE TimelineSyncTypes -------------------------
(***************************************************************************)
(* Type correctness of TimelineSync for any number of Timelines, any       *)
(* topology of mappings, any process bodies and any number of epochs, with *)
(* the lemmas on minima, delays and deliveries it rests on.                *)
(***************************************************************************)
EXTENDS TimelineSync, TLAPS, FiniteSetTheorems, WellFoundedInduction
-----------------------------------------------------------------------------
(* Minima and delays.                                                      *)

\* A set of timestamps that is not empty has an earliest one, which is what the
\* priority queue __events hands out first.
LEMMA EarliestExists ==
  ASSUME NEW S, S \subseteq Nat, S # {}
  PROVE  \E x \in S : \A y \in S : x <= y
<1>1. PICK x \in S : \A y \in S : ~(<<y, x>> \in OpToRel(<, Nat))
  BY NatLessThanWellFounded, WFMin, ZenonT(60)
<1>2. \A y \in S : ~(y < x)
  BY <1>1, Zenon DEF OpToRel
<1> QED
  BY <1>2

\* Min picks that element.
LEMMA MinIsEarliest ==
  ASSUME NEW S, S \subseteq Nat, S # {}
  PROVE  Min(S) \in S /\ \A y \in S : Min(S) <= y
BY EarliestExists, ZenonT(60) DEF Min

\* The lookahead of a Timeline is -1 (no crossing mapping) or positive.
LEMMA CrossDelayType ==
  ASSUME NEW t \in Timelines
  PROVE  /\ min_sync_cross_timeline_delay(t) \in Int
         /\ min_sync_cross_timeline_delay(t) < 0 \/ min_sync_cross_timeline_delay(t) > 0
<1>1. CrossDelays(t) \subseteq Nat \ {0}
  BY RouteAssumption DEF CrossDelays, RouteType
<1>2. CASE CrossDelays(t) = {}
  BY <1>2 DEF min_sync_cross_timeline_delay
<1>3. CASE CrossDelays(t) # {}
  <2>1. Min(CrossDelays(t)) \in Nat \ {0}
    BY <1>1, <1>3, MinIsEarliest
  <2> QED
    BY <2>1, <1>3 DEF min_sync_cross_timeline_delay
<1> QED
  BY <1>2, <1>3

\* next_time is a timestamp or -1.
LEMMA NextTimeType ==
  ASSUME NEW t \in Timelines, TypeOK
  PROVE  next_time(t) \in Int
<1>1. {e.time : e \in events[t]} \subseteq Nat
  BY DEF TypeOK, Event
<1>2. CASE events[t] # {}
  <2>1. Min({e.time : e \in events[t]}) \in Nat
    BY <1>1, <1>2, MinIsEarliest
  <2> QED
    BY <2>1, <1>2 DEF next_time
<1> QED
  BY <1>2 DEF next_time

\* Whatever a Timeline offers to the min-reduction lies beyond its clock.
LEMMA OfferBeyondClock ==
  ASSUME NEW t \in Timelines, TypeOK
  PROVE  Offered(t) \in Int /\ (Offered(t) > 0 => Offered(t) > time[t])
<1>1. time[t] \in Int
  BY DEF TypeOK
<1> QED
  BY <1>1, NextTimeType, CrossDelayType DEF Offered, Larger
-----------------------------------------------------------------------------
(* What a process body creates.                                            *)

\* The deliveries of a body arrive at or after the time it runs.
LEMMA DeliveryType ==
  ASSUME NEW t \in Timelines, NEW b \in Bodies[t] \cup InitBodies[t], NEW now \in Nat,
         NEW d \in Deliveries(b, now)
  PROVE  d.via \in Maps /\ d.at \in Nat /\ d.at >= now /\ d.delay \in Int
<1>1. PICK x \in Maps \X b.writes :
        /\ Route[x[1]].oc = x[2].oc
        /\ d = [via |-> x[1], delay |-> x[2].delay,
                at |-> now + x[2].delay + Route[x[1]].delay]
  BY DEF Deliveries
<1>2. x[1] \in Maps /\ x[2] \in b.writes
  BY <1>1
<1>3. x[2].delay \in Int /\ Route[x[1]].delay \in Nat
  BY <1>2, BodyAssumption, RouteAssumption DEF IsBody, RouteType
<1>4. x[2].delay + Route[x[1]].delay >= 0
  BY <1>1, <1>2, BodyAssumption
<1>5. d.via = x[1] /\ d.delay = x[2].delay /\ d.at = now + x[2].delay + Route[x[1]].delay
  BY <1>1
<1> QED
  BY <1>2, <1>3, <1>4, <1>5

\* A body asks for finitely many deliveries.
LEMMA DeliveriesFinite ==
  ASSUME NEW t \in Timelines, NEW b \in Bodies[t] \cup InitBodies[t], NEW now \in Nat,
         NEW D, D \subseteq Deliveries(b, now)
  PROVE  IsFiniteSet(D) /\ Cardinality(b.timers) + Cardinality(D) \in Nat
<1> DEFINE P == {y \in Maps \X b.writes : Route[y[1]].oc = y[2].oc}
           F(x) == [via |-> x[1], delay |-> x[2].delay,
                    at |-> now + x[2].delay + Route[x[1]].delay]
<1>1. IsFiniteSet(Maps) /\ IsFiniteSet(b.writes) /\ IsFiniteSet(b.timers)
  BY RouteAssumption, BodyAssumption DEF IsBody
<1>2. IsFiniteSet(P)
  BY <1>1, FS_Product, FS_Subset, ZenonT(60)
<1>3. IsFiniteSet(Deliveries(b, now))
  <2> DEFINE f == [x \in P |-> F(x)]
  <2>1. f \in Surjection(P, Deliveries(b, now))
    BY ZenonT(60) DEF Deliveries, Surjection
  <2> QED
    BY <1>2, <2>1, FS_Surjection, Zenon
<1>4. IsFiniteSet(D)
  BY <1>3, FS_Subset
<1> QED
  BY <1>1, <1>4, FS_CardinalityType

\* The events a body creates, and how early they can be.
LEMMA BodyEvents ==
  ASSUME NEW t \in Timelines, NEW b \in Bodies[t] \cup InitBodies[t], NEW now \in Nat,
         NEW num \in Nat, NEW D, D \subseteq Deliveries(b, now), NEW u
  PROVE  /\ Timeouts(t, num, b, now) \subseteq Event
         /\ \A e \in Timeouts(t, num, b, now) : e.time >= now
         /\ Activations(t, num, D, u) \subseteq Event
         /\ \A e \in Activations(t, num, D, u) : e.time >= now
<1>1. b.timers \subseteq Nat
  BY BodyAssumption DEF IsBody
<1>2. \A e \in Timeouts(t, num, b, now) : e \in Event /\ e.time >= now
  BY <1>1 DEF Timeouts, NewEvent, Event, EventTypes
<1>3. \A e \in Activations(t, num, D, u) : e \in Event /\ e.time >= now
  <2> SUFFICES ASSUME NEW e \in Activations(t, num, D, u)
               PROVE  e \in Event /\ e.time >= now
    OBVIOUS
  <2>1. PICK d \in D : e = NewEvent(t, num, "ACTIVATE", d.at, d.via)
    BY DEF Activations
  <2>2. d.via \in Maps /\ d.at \in Nat /\ d.at >= now
    BY DeliveryType
  <2> QED
    BY <2>1, <2>2 DEF NewEvent, Event, EventTypes
<1> QED
  BY <1>2, <1>3
-----------------------------------------------------------------------------
(* Type correctness.                                                       *)

\* Initially every variable has its type.
LEMMA TypeInit == Init => TypeOK
<1> SUFFICES ASSUME Init
             PROVE  TypeOK
  OBVIOUS
<1>1. stop_before \in [Timelines -> Int]
  BY EpochAssumption, ZenonT(60) DEF Init
<1>2. offered \in [Timelines -> BOOLEAN] /\ user_force_stop \in BOOLEAN
  BY Zenon DEF Init
<1>3. events \in [Timelines -> SUBSET Event] /\ window_list \in [Timelines -> SUBSET Event]
  BY DEF Init
<1>4. pc \in [Timelines -> Locations] /\ ctl \in CtlLocations
  BY DEF Init, Locations, CtlLocations
<1> QED
  BY <1>1, <1>2, <1>3, <1>4 DEF Init, TypeOK

\* Running init() bodies keeps the types.
LEMMA TypeInitModel == TypeOK /\ InitModel => TypeOK'
<1> SUFFICES ASSUME TypeOK, InitModel
             PROVE  TypeOK'
  OBVIOUS
<1>1. PICK ib \in [Timelines -> UNION {InitBodies[t] : t \in Timelines}] :
        /\ \A t \in Timelines : ib[t] \in InitBodies[t]
        /\ events' = [t \in Timelines |->
             events[t] \cup Timeouts(t, evtnum[t], ib[t], 0)
                       \cup Activations(t, evtnum[t], Sent(t, ib[t], 0), t)]
        /\ window_list' = [t \in Timelines |->
             window_list[t] \cup UNION {Activations(u, evtnum[u], Sent(u, ib[u], 0), t) :
                                          u \in Timelines \ {t}}]
        /\ evtnum' = [t \in Timelines |-> evtnum[t] + Created(t, ib[t], 0)]
  BY Zenon DEF InitModel
<1>2. ASSUME NEW t \in Timelines, NEW u
      PROVE  /\ Timeouts(t, evtnum[t], ib[t], 0) \subseteq Event
             /\ Activations(t, evtnum[t], Sent(t, ib[t], 0), u) \subseteq Event
             /\ Created(t, ib[t], 0) \in Nat
  <2>1. ib[t] \in Bodies[t] \cup InitBodies[t] /\ evtnum[t] \in Nat
    BY <1>1, Zenon DEF TypeOK
  <2>2. Sent(t, ib[t], 0) \subseteq Deliveries(ib[t], 0)
    BY DEF Sent
  <2> QED
    BY <2>1, <2>2, BodyEvents, DeliveriesFinite, ZenonT(60) DEF Created
<1>3. events' \in [Timelines -> SUBSET Event]
  BY <1>1, <1>2, ZenonT(60) DEF TypeOK
<1>4. window_list' \in [Timelines -> SUBSET Event]
  BY <1>1, <1>2 DEF TypeOK
<1>5. evtnum' \in [Timelines -> Nat]
  <2>1. \A t \in Timelines : Created(t, ib[t], 0) \in Nat
    BY <1>2, Zenon
  <2> QED
    BY <1>1, <2>1 DEF TypeOK
<1> QED
  BY <1>3, <1>4, <1>5
     DEF TypeOK, InitModel, timelineVars, minVars, CtlLocations, Locations

\* Executing a process body keeps the types.
LEMMA TypeRunBody ==
  ASSUME NEW t \in Timelines
  PROVE  TypeOK /\ RunBody(t) => TypeOK'
<1> SUFFICES ASSUME TypeOK, RunBody(t)
             PROVE  TypeOK'
  BY Zenon
<1>1. PICK e \in events[t], b \in Bodies[t] :
        /\ time' = [time EXCEPT ![t] = e.time]
        /\ events' = [events EXCEPT ![t] =
             (@ \ {e}) \cup Timeouts(t, evtnum[t], b, e.time)
                       \cup Activations(t, evtnum[t], Sent(t, b, e.time), t)]
        /\ window_list' = [u \in Timelines |->
             IF u = t THEN window_list[u]
             ELSE window_list[u] \cup Activations(t, evtnum[t], Sent(t, b, e.time), u)]
        /\ evtnum' = [evtnum EXCEPT ![t] = @ + Created(t, b, e.time)]
        /\ undelivered' = undelivered \cup Refused(t, b, e.time)
  BY ZenonT(60) DEF RunBody
<1>2. b \in Bodies[t] \cup InitBodies[t] /\ e.time \in Nat /\ evtnum[t] \in Nat
  BY DEF TypeOK, Event
<1>3. Sent(t, b, e.time) \subseteq Deliveries(b, e.time)
  BY DEF Sent
<1>4. /\ Timeouts(t, evtnum[t], b, e.time) \subseteq Event
      /\ Created(t, b, e.time) \in Nat
      /\ \A u : Activations(t, evtnum[t], Sent(t, b, e.time), u) \subseteq Event
  BY <1>2, <1>3, BodyEvents, DeliveriesFinite, Zenon DEF Created
<1>5. Refused(t, b, e.time) \subseteq Maps
  BY <1>2, DeliveryType, Zenon DEF Refused
<1>6. events' \in [Timelines -> SUBSET Event] /\ window_list' \in [Timelines -> SUBSET Event]
  BY <1>1, <1>4, Zenon DEF TypeOK
<1>7. evtnum' \in [Timelines -> Nat] /\ time' \in [Timelines -> Int]
  BY <1>1, <1>2, <1>4, SMTT(30) DEF TypeOK
<1>8. undelivered' \subseteq Maps
  BY <1>1, <1>5, Zenon DEF TypeOK
<1>9. executed' \in [Timelines -> Nat]
  BY SMTT(30) DEF TypeOK, RunBody
<1>10. UNCHANGED <<pc, stop_before, epoch_end, offered, bottom_min, prev_min, ctl, clock, iface,
                   epochs, user_force_stop>>
  BY ZenonT(60) DEF RunBody, minVars, ctlVars
<1> QED
  BY <1>6, <1>7, <1>8, <1>9, <1>10, Zenon DEF TypeOK

\* Turning an activation into the run of a process keeps the types.
LEMMA TypeActivate ==
  ASSUME NEW t \in Timelines
  PROVE  TypeOK /\ Activate(t) => TypeOK'
<1> SUFFICES ASSUME TypeOK, Activate(t)
             PROVE  TypeOK'
  OBVIOUS
<1>1. PICK e \in events[t] :
        /\ time' = [time EXCEPT ![t] = e.time]
        /\ events' = [events EXCEPT ![t] = (@ \ {e}) \cup {ExecActivate(t, evtnum[t], e)}]
  BY ZenonT(60) DEF Activate
<1>2. e.time \in Nat /\ ExecActivate(t, evtnum[t], e) \in Event
  BY DEF TypeOK, Event, EventTypes, ExecActivate, NewEvent
<1>3. events' \in [Timelines -> SUBSET Event] /\ time' \in [Timelines -> Int]
  BY <1>1, <1>2 DEF TypeOK
<1> QED
  BY <1>3 DEF TypeOK, Activate, minVars, ctlVars

\* No step breaks the types.
LEMMA TypeStep == TypeOK /\ [Next]_vars => TypeOK'
<1> SUFFICES ASSUME TypeOK, [Next]_vars
             PROVE  TypeOK'
  BY SMTT(30)
<1> USE DEF TypeOK, Locations, CtlLocations
<1>1. CASE InitModel
  BY <1>1, TypeInitModel, Zenon
<1>2. ASSUME NEW na \in NextActions, NEW len \in EpochLengths, Advance(na, len)
      PROVE  TypeOK'
  BY <1>2, EpochAssumption, SMTT(30) DEF Advance, timelineVars, eventVars, minVars
<1>3. CASE AdvanceReturn
  BY <1>3, Zenon DEF AdvanceReturn, timelineVars, eventVars, minVars
<1>4. CASE WindowRelease
  BY <1>4 DEF WindowRelease, timelineVars, eventVars, minVars
<1>5. CASE BottomRelease
  BY <1>5 DEF BottomRelease, timelineVars, eventVars, minVars, ctlVars
<1>6. CASE TopRelease
  BY <1>6, Zenon DEF TopRelease, timelineVars, eventVars, minVars, ctlVars
<1>7. ASSUME NEW t \in Timelines, TimelineStep(t)
      PROVE  TypeOK'
  <2>1. CASE StartEpoch(t)
    BY <2>1, SMTT(30) DEF StartEpoch, Goto, eventVars, minVars, ctlVars
  <2>2. CASE Collect(t)
    BY <2>2, Zenon DEF Collect, Goto, timelineVars, minVars, ctlVars
  <2>3. CASE Offer(t)
    <3>1. offered' \in [Timelines -> BOOLEAN]
      <4>1. (Offered(t) > 0) \in BOOLEAN
        BY SMTT(30)
      <4> QED
        BY <2>3, <4>1, Zenon DEF Offer
    <3>2. bottom_min' \in Int
      BY <2>3, OfferBeyondClock, Zenon DEF Offer, Reduced
    <3> QED
      BY <2>3, <3>1, <3>2 DEF Offer, Goto, eventVars, ctlVars
  <2>4. CASE ReadEdge(t)
    BY <2>4, SMTT(30) DEF ReadEdge, Goto, Smaller, eventVars, ctlVars
  <2>5. CASE RunBody(t)
    BY <2>5, TypeRunBody, Zenon
  <2>6. CASE Activate(t)
    BY <2>6, TypeActivate, Zenon
  <2>7. CASE EndWindow(t)
    BY <2>7, SMTT(30) DEF EndWindow, Goto, eventVars, minVars, ctlVars
  <2>8. CASE LoopTest(t)
    BY <2>8, SMTT(30) DEF LoopTest, Goto, timelineVars, eventVars, minVars, ctlVars
  <2> QED
    BY <1>7, <2>1, <2>2, <2>3, <2>4, <2>5, <2>6, <2>7, <2>8, ZenonT(60) DEF TimelineStep
<1>8. CASE UNCHANGED vars
  BY <1>8, Zenon DEF vars, timelineVars, eventVars, minVars, ctlVars
<1> QED
  BY <1>1, <1>2, <1>3, <1>4, <1>5, <1>6, <1>7, <1>8, ZenonT(60) DEF Next, Control, Barriers, Finished

\* The state of Timeline, TimelineInterface and Interface always has its types.
THEOREM TypeCorrect == Spec => []TypeOK
BY TypeInit, TypeStep, PTL DEF Spec
=============================================================================
