------------------------ MODULE TimelineSyncLookahead -----------------------
(***************************************************************************)
(* What the window's upper edge is worth: while it never lies beyond the   *)
(* earliest arrival of a legal write no such write is refused, and the     *)
(* kernel implements ParallelSim.                                          *)
(*                                                                         *)
(* The min-reduction takes bottom_min = prev_min for "no offer yet", so    *)
(* that an offer equal to the last minimum is forgotten when the next one  *)
(* is made.  In the first call of advance this cannot happen if every      *)
(* Timeline can write to another one: all offers then lie beyond the last  *)
(* minimum.                                                                *)
(***************************************************************************)
EXTENDS TimelineSyncProofs

\* The mappings on which Timeline t writes to other Timelines.
Crossing(t) == {m \in Maps : Route[m].src = t /\ Route[m].dst # t}

\* Every Timeline can write to another one, or there is no other Timeline.
NoSink == Cardinality(Timelines) = 1 \/ \A t \in Timelines : Crossing(t) # {}

\* No offer can be taken for "no offer yet".
OffersDistinct == NoSink /\ (epochs <= 1 \/ Cardinality(Timelines) = 1)

\* Nothing that Timeline t still has to execute can write to another one before edge.
Covers(edge, t) ==
  \A m \in Crossing(t) : \A e \in events[t] : edge <= e.time + Route[m].delay

\* The minimum is the last one, or a later offer.
MinAhead == prev_min = bottom_min \/ (0 < bottom_min /\ prev_min < bottom_min)

\* Before the first window there is no minimum.
NoMinYet == epochs = 0 \/ ctl = "window1" => bottom_min = -1 /\ prev_min = -1

\* While the offers are made no event lies before the last minimum, and the minimum
\* covers the Timelines that have made theirs; then the edge covers all of them.
Ahead(t) ==
  /\ ctl = "window2" /\ pc[t] \in {"epoch", "loop", "collect", "offer", "bottom"} =>
       \A e \in events[t] \cup window_list[t] : prev_min <= e.time
  /\ pc[t] = "bottom" /\ events[t] # {} /\ Crossing(t) # {} =>
       0 < bottom_min /\ prev_min < bottom_min /\ Covers(bottom_min, t)
  /\ pc[t] \in {"edge", "serial", "run", "top", "window2"} => Covers(Edge, t)

LookaheadInv ==
  /\ ctl \notin {"build", "idle"} => epochs > 0
  /\ Cardinality(Timelines) = 1 => prev_min = -1
  /\ OffersDistinct =>
       undelivered = {} /\ MinAhead /\ NoMinYet /\ \A t \in Timelines : Ahead(t)
-----------------------------------------------------------------------------
(* Offers and minima.                                                      *)

\* The lookahead of a Timeline is the least delay of its crossing mappings.
LEMMA LookaheadIsLeast ==
  ASSUME NEW t \in Timelines, Crossing(t) # {}
  PROVE  /\ min_sync_cross_timeline_delay(t) \in Nat \ {0}
         /\ \A m \in Crossing(t) : min_sync_cross_timeline_delay(t) <= Route[m].delay
<1>1. CrossDelays(t) \subseteq Nat \ {0} /\ CrossDelays(t) # {}
  BY RouteAssumption DEF CrossDelays, RouteType, Crossing
<1>2. \A m \in Crossing(t) : Route[m].delay \in CrossDelays(t)
  BY Zenon DEF CrossDelays, Crossing
<1>3. Min(CrossDelays(t)) \in CrossDelays(t) /\ \A d \in CrossDelays(t) : Min(CrossDelays(t)) <= d
  BY <1>1, MinIsEarliest, Zenon
<1> QED
  BY <1>1, <1>2, <1>3, Zenon DEF min_sync_cross_timeline_delay

\* A Timeline with an event and a crossing mapping offers what its events can reach
\* at the earliest, beyond any time they all lie at or after.
LEMMA OfferCovers ==
  ASSUME NEW t \in Timelines, TypeOK, Crossing(t) # {}, events[t] # {},
         \A e \in events[t] : e.time >= time[t]
  PROVE  /\ Offered(t) \in Int /\ Offered(t) > 0 /\ Covers(Offered(t), t)
         /\ \A p \in Int : (\A e \in events[t] : p <= e.time) => p < Offered(t)
<1> DEFINE T == {e.time : e \in events[t]}
           look == min_sync_cross_timeline_delay(t)
<1>1. T \subseteq Nat /\ T # {} /\ time[t] \in Int
  BY DEF TypeOK, Event
<1>2. Min(T) \in T /\ \A x \in T : Min(T) <= x
  BY <1>1, MinIsEarliest, Zenon
<1>3. next_time(t) = Min(T)
  BY Zenon DEF next_time
<1>4. PICK f \in events[t] : f.time = Min(T)
  BY <1>2, Zenon
<1>5. f.time \in Nat /\ f.time >= time[t] /\ \A e \in events[t] : e.time \in Nat /\ f.time <= e.time
  BY <1>1, <1>2, <1>4, SMTT(30) DEF TypeOK, Event
<1>6. /\ look \in Nat \ {0}
      /\ \A m \in Crossing(t) : look <= Route[m].delay /\ Route[m].delay \in Nat
  BY LookaheadIsLeast, RouteAssumption, Zenon DEF Crossing, RouteType
<1>7. Offered(t) = f.time + look
  BY <1>1, <1>3, <1>4, <1>5, <1>6, SMTT(30) DEF Offered, Larger
<1>8. Covers(Offered(t), t)
  BY <1>5, <1>6, <1>7 DEF Covers
<1> QED
  BY <1>5, <1>6, <1>7, <1>8

\* A Timeline with a crossing mapping and no event offers nothing.
LEMMA NothingToOffer ==
  ASSUME NEW t \in Timelines, TypeOK, events[t] = {}
  PROVE  ~(Offered(t) > 0)
<1>1. next_time(t) = -1 /\ time[t] \in Int
  BY Zenon DEF next_time, TypeOK
<1> QED
  BY <1>1 DEF Offered, Larger

\* A lower edge covers at least as much.
LEMMA CoversLower ==
  ASSUME NEW t \in Timelines, TypeOK, NEW p \in Int, NEW q \in Int, p <= q, Covers(q, t)
  PROVE  Covers(p, t)
<1>1. \A m \in Crossing(t) : Route[m].delay \in Nat
  BY RouteAssumption, Zenon DEF Crossing, RouteType
<1>2. \A e \in events[t] : e.time \in Nat
  BY DEF TypeOK, Event
<1> QED
  BY <1>1, <1>2 DEF Covers

\* A lone Timeline has nothing to cover.
LEMMA LoneCovers ==
  ASSUME NEW t \in Timelines, Cardinality(Timelines) = 1, NEW p
  PROVE  Crossing(t) = {} /\ Covers(p, t)
<1>1. \A u \in Timelines : u = t
  BY RouteAssumption, FS_Singleton
<1>2. Crossing(t) = {}
  BY <1>1, RouteAssumption, Zenon DEF Crossing, RouteType
<1> QED
  BY <1>2, Zenon DEF Covers
-----------------------------------------------------------------------------
(* The edge covers every Timeline.                                         *)

\* Before the first window there are neither events nor a minimum.
LEMMA LookaheadInit == Init => LookaheadInv
BY Zenon DEF Init, LookaheadInv, MinAhead, NoMinYet, Ahead

\* Between epochs the threads are before bottom_barrier; in the first epoch they get
\* there with no minimum.
LEMMA LookaheadBetween ==
  ASSUME TypeOK, SyncInv, LookaheadInv, Control
  PROVE  LookaheadInv'
<1>1. Between
  BY EpochAssumption, Zenon DEF Control, InitModel, Advance, AdvanceReturn, SyncInv, Gathering,
     Executing, Leaving
<1>2. UNCHANGED <<pc, bottom_min, prev_min, undelivered>>
  BY Zenon DEF Control, InitModel, Advance, AdvanceReturn, timelineVars, eventVars, minVars
<1>3. ctl' \in {"idle", "window1"}
  BY Zenon DEF Control, InitModel, Advance, AdvanceReturn
<1>4. \/ epochs' = epochs /\ ctl' = "idle"
      \/ epochs' = epochs + 1
  BY Zenon DEF Control, InitModel, Advance, AdvanceReturn
<1>5. \A t \in Timelines : Ahead(t)'
  BY <1>1, <1>2, <1>3, Zenon DEF Between, Ahead
<1>6. OffersDistinct' => OffersDistinct
  BY <1>4 DEF OffersDistinct, TypeOK
<1>7. OffersDistinct' => NoMinYet'
  BY <1>2, <1>3, <1>4, <1>6 DEF OffersDistinct, LookaheadInv, NoMinYet, SyncInv, TypeOK
<1> QED
  BY <1>2, <1>3, <1>4, <1>5, <1>6, <1>7, SMTT(30) DEF LookaheadInv, MinAhead, TypeOK

\* window_barrier opens: an epoch starts without a minimum, or it is over.
LEMMA LookaheadWindowRelease ==
  ASSUME TypeOK, SyncInv, LookaheadInv, WindowRelease
  PROVE  LookaheadInv'
<1>1. UNCHANGED <<events, window_list, undelivered, bottom_min, prev_min, epochs>>
  BY Zenon DEF WindowRelease, eventVars, minVars
<1>2. OffersDistinct' = OffersDistinct
  BY <1>1, Zenon DEF OffersDistinct
<1>3. \/ ctl = "window1" /\ ctl' = "window2" /\ \A t \in Timelines : pc'[t] = "epoch"
      \/ ctl' = "return" /\ \A t \in Timelines : pc'[t] = "loop"
  <2>1. CASE Between
    BY <2>1, Zenon DEF Between, WindowRelease
  <2>2. CASE Executing
    BY <2>2, Zenon DEF Executing, WindowRelease
  <2>3. ~Gathering /\ ~Leaving
    BY RouteAssumption, Zenon DEF Gathering, Leaving, WindowRelease
  <2> QED
    BY <2>1, <2>2, <2>3, Zenon DEF SyncInv
<1>4. \A t \in Timelines : \A e \in events[t] \cup window_list[t] : e.time \in Nat
  BY DEF TypeOK, Event
<1>5. ASSUME OffersDistinct PROVE \A t \in Timelines : Ahead(t)'
  BY <1>1, <1>3, <1>4, <1>5 DEF Ahead, LookaheadInv, NoMinYet
<1>6. ASSUME OffersDistinct PROVE NoMinYet'
  BY <1>1, <1>3, <1>6, Zenon DEF LookaheadInv, NoMinYet
<1> QED
  BY <1>1, <1>2, <1>5, <1>6, Zenon DEF LookaheadInv, MinAhead, WindowRelease

\* bottom_barrier opens: the minimum covers every Timeline, and so does the edge.
LEMMA LookaheadBottomRelease ==
  ASSUME TypeOK, SyncInv, LookaheadInv, BottomRelease
  PROVE  LookaheadInv'
<1>1. UNCHANGED <<events, window_list, undelivered, bottom_min, prev_min, epochs, ctl, iface>>
  BY Zenon DEF BottomRelease, eventVars, minVars, ctlVars
<1>2. \A t \in Timelines : pc[t] = "bottom" /\ pc'[t] \in {"edge", "serial"}
  BY Zenon DEF BottomRelease
<1>3. OffersDistinct' = OffersDistinct /\ Edge' = Edge
  BY <1>1, Zenon DEF OffersDistinct, Edge
<1>4. ASSUME OffersDistinct, NEW t \in Timelines PROVE Covers(Edge, t)
  <2>1. CASE events[t] = {} \/ Crossing(t) = {}
    BY <2>1, Zenon DEF Covers
  <2>2. CASE events[t] # {} /\ Crossing(t) # {}
    <3>1. 0 < bottom_min /\ Covers(bottom_min, t)
      BY <1>2, <1>4, <2>2, Zenon DEF LookaheadInv, Ahead
    <3>2. Edge \in Int /\ bottom_min \in Int /\ Edge <= bottom_min
      BY <3>1 DEF Edge, Smaller, TypeOK
    <3> QED
      BY <3>1, <3>2, CoversLower, Zenon
  <2> QED
    BY <2>1, <2>2, Zenon
<1>5. ASSUME OffersDistinct PROVE \A t \in Timelines : Ahead(t)'
  BY <1>1, <1>2, <1>3, <1>4, <1>5, Zenon DEF Ahead, Covers
<1> QED
  BY <1>1, <1>3, <1>5, Zenon DEF LookaheadInv, MinAhead, NoMinYet

\* top_barrier opens: the edge was the minimum, and no event lies before it.
LEMMA LookaheadTopRelease ==
  ASSUME TypeOK, SyncInv, LookaheadInv, TopRelease
  PROVE  LookaheadInv'
<1>1. UNCHANGED <<events, window_list, undelivered, bottom_min, prev_min, epochs, ctl, iface>>
  BY Zenon DEF TopRelease, eventVars, minVars, ctlVars
<1>2. \A t \in Timelines : pc[t] = "top" /\ pc'[t] = "loop"
  BY Zenon DEF TopRelease
<1>3. Executing
  BY <1>2, RouteAssumption, Zenon DEF SyncInv, Gathering, Between, Leaving
<1>4. PICK s \in Timelines : TRUE
  BY RouteAssumption, Zenon
<1>5. Edge < iface.stop_before
  BY <1>2, <1>3, <1>4, Zenon DEF Executing
<1>6. Edge = bottom_min /\ bottom_min \in Int /\ prev_min \in Int
  BY <1>5 DEF Edge, Smaller, TypeOK
<1>7. ASSUME NEW t \in Timelines, NEW e \in events[t] \cup window_list[t]
      PROVE  e.time \in Int /\ bottom_min <= e.time
  BY <1>2, <1>3, <1>6 DEF Executing, TypeOK, Event
<1>8. OffersDistinct' = OffersDistinct
  BY <1>1, Zenon DEF OffersDistinct
<1>9. ASSUME OffersDistinct PROVE \A t \in Timelines : Ahead(t)'
  <2>1. prev_min <= bottom_min
    BY <1>6, <1>9 DEF LookaheadInv, MinAhead
  <2>2. \A t \in Timelines : \A e \in events[t] \cup window_list[t] : prev_min <= e.time
    BY <1>6, <1>7, <2>1
  <2> QED
    BY <1>1, <1>2, <2>2, Zenon DEF Ahead
<1> QED
  BY <1>1, <1>8, <1>9, Zenon DEF LookaheadInv, MinAhead, NoMinYet

\* Steps that move only program counters, past no barrier, keep what is covered.
LEMMA LookaheadMove ==
  ASSUME NEW t \in Timelines, TypeOK, SyncInv, LookaheadInv,
         StartEpoch(t) \/ LoopTest(t) \/ EndWindow(t)
  PROVE  LookaheadInv'
<1>1. UNCHANGED <<events, window_list, undelivered, bottom_min, prev_min, epochs, ctl, iface>>
  BY Zenon DEF StartEpoch, LoopTest, EndWindow, timelineVars, eventVars, minVars, ctlVars
<1>2. \/ pc[t] = "epoch" /\ pc' = [pc EXCEPT ![t] = "collect"]
      \/ pc[t] = "epoch" /\ pc' = [pc EXCEPT ![t] = "exited"]
      \/ pc[t] = "loop" /\ pc' = [pc EXCEPT ![t] = "collect"]
      \/ pc[t] = "loop" /\ pc' = [pc EXCEPT ![t] = "window1"]
      \/ pc[t] = "run" /\ pc' = [pc EXCEPT ![t] = "top"]
      \/ pc[t] = "run" /\ pc' = [pc EXCEPT ![t] = "window2"]
  BY Zenon DEF StartEpoch, LoopTest, EndWindow, Goto
<1>3. /\ pc'[t] \in {"edge", "serial", "run", "top", "window2"} =>
           pc[t] \in {"edge", "serial", "run", "top", "window2"}
      /\ pc'[t] \in {"epoch", "loop", "collect", "offer", "bottom"} =>
           pc[t] \in {"epoch", "loop", "collect", "offer", "bottom"}
      /\ pc'[t] # "bottom" /\ \A u \in Timelines : u # t => pc'[u] = pc[u]
  BY <1>2, Zenon DEF TypeOK
<1>4. OffersDistinct' = OffersDistinct /\ Edge' = Edge
  BY <1>1, Zenon DEF OffersDistinct, Edge
<1>5. ASSUME OffersDistinct, NEW u \in Timelines PROVE Ahead(u)'
  <2>1. Ahead(u)
    BY <1>5, Zenon DEF LookaheadInv
  <2> QED
    BY <1>1, <1>3, <1>4, <2>1, Zenon DEF Ahead, Covers
<1> QED
  BY <1>1, <1>4, <1>5, Zenon DEF LookaheadInv, MinAhead, NoMinYet

\* Taking over __window_list.
LEMMA LookaheadCollect ==
  ASSUME NEW t \in Timelines, TypeOK, SyncInv, LookaheadInv, Collect(t)
  PROVE  LookaheadInv'
<1>1. UNCHANGED <<undelivered, bottom_min, prev_min, epochs, ctl, iface>>
  BY Zenon DEF Collect, minVars, ctlVars
<1>2. /\ pc[t] = "collect" /\ pc'[t] = "offer"
      /\ events'[t] \cup window_list'[t] = events[t] \cup window_list[t]
      /\ \A u \in Timelines : u # t =>
           pc'[u] = pc[u] /\ events'[u] = events[u] /\ window_list'[u] = window_list[u]
  BY Zenon DEF Collect, Goto, TypeOK
<1>3. OffersDistinct' = OffersDistinct /\ Edge' = Edge
  BY <1>1, Zenon DEF OffersDistinct, Edge
<1>4. ASSUME OffersDistinct, NEW u \in Timelines PROVE Ahead(u)'
  <2>1. Ahead(u) /\ Ahead(t)
    BY <1>4, Zenon DEF LookaheadInv
  <2>2. CASE u = t
    BY <1>1, <1>2, <2>1, <2>2, Zenon DEF Ahead
  <2>3. CASE u # t
    BY <1>1, <1>2, <1>3, <2>1, <2>3, Zenon DEF Ahead, Covers
  <2> QED
    BY <2>2, <2>3, Zenon
<1> QED
  BY <1>1, <1>3, <1>4, Zenon DEF LookaheadInv, MinAhead, NoMinYet

\* The min-reduction: the offer lies beyond the last minimum, so that it is neither
\* forgotten nor makes the reduction forget another one.
LEMMA LookaheadOffer ==
  ASSUME NEW t \in Timelines, TypeOK, SyncInv, LookaheadInv, Offer(t)
  PROVE  LookaheadInv'
<1>1. UNCHANGED <<events, window_list, undelivered, prev_min, epochs, ctl, iface>>
  BY Zenon DEF Offer, eventVars, ctlVars
<1>2. OffersDistinct' = OffersDistinct
  BY <1>1, Zenon DEF OffersDistinct
<1>3. Gathering /\ pc[t] = "offer"
  BY Zenon DEF Offer, Goto, SyncInv, Executing, Between, Leaving
<1>4. Cardinality(Timelines) \in Nat /\ Cardinality(Timelines) # 0
  BY RouteAssumption, FS_CardinalityType, FS_EmptySet, Zenon
<1>5. ASSUME OffersDistinct, Cardinality(Timelines) = 1
      PROVE  LookaheadInv'
  <2>1. UNCHANGED bottom_min
    BY <1>5 DEF Offer
  <2>2. \A u \in Timelines : Crossing(u) = {}
    BY <1>5, LoneCovers, Zenon
  <2>3. bottom_min = -1 /\ prev_min = -1
    BY <1>5, Zenon DEF SyncInv, LookaheadInv
  <2>4. \A u \in Timelines : Ahead(u)'
    <3>1. \A u \in Timelines : \A e \in events[u] \cup window_list[u] : e.time \in Nat
      BY DEF TypeOK, Event
    <3> QED
      BY <1>1, <2>2, <2>3, <3>1 DEF Ahead, Covers
  <2> QED
    BY <1>1, <1>2, <1>5, <2>1, <2>4, Zenon DEF LookaheadInv, MinAhead, NoMinYet
<1>6. ASSUME OffersDistinct, Cardinality(Timelines) > 1
      PROVE  LookaheadInv'
  <2>1. /\ pc'[t] = "bottom" /\ \A u \in Timelines : u # t => pc'[u] = pc[u]
        /\ bottom_min' = IF Offered(t) > 0 THEN Reduced(Offered(t)) ELSE bottom_min
    BY <1>6, Zenon DEF Offer, Goto, TypeOK
  <2>2. Crossing(t) # {}
    BY <1>6 DEF OffersDistinct, NoSink
  <2>3. /\ MinAhead /\ NoMinYet /\ \A u \in Timelines : Ahead(u)
        /\ bottom_min \in Int /\ prev_min \in Int
    BY <1>6, Zenon DEF LookaheadInv, TypeOK
  <2>4. ctl = "window2" /\ \A u \in Timelines :
          /\ pc[u] \in {"epoch", "loop", "collect", "offer", "bottom"}
          /\ \A e \in events[u] \cup window_list[u] : prev_min <= e.time
          /\ \A e \in events[u] : e.time >= time[u]
    BY <1>3, <2>3, Zenon DEF Gathering, Ahead
  <2>5. ASSUME NEW u \in Timelines, u # t, pc[u] = "bottom", events[u] # {}, Crossing(u) # {}
        PROVE  0 < bottom_min /\ prev_min < bottom_min /\ Covers(bottom_min, u)
    BY <2>3, <2>5, Zenon DEF Ahead
  <2>6. CASE events[t] = {}
    <3>1. bottom_min' = bottom_min
      BY <2>1, <2>6, NothingToOffer, Zenon
    <3>2. \A u \in Timelines : Ahead(u)'
      BY <1>1, <2>1, <2>4, <2>5, <2>6, <3>1, Zenon DEF Ahead, Covers
    <3> QED
      BY <1>1, <1>2, <1>6, <2>3, <3>1, <3>2, Zenon DEF LookaheadInv, MinAhead, NoMinYet
  <2>7. CASE events[t] # {}
    <3> DEFINE v == Offered(t)
    <3>1. v \in Int /\ v > 0 /\ Covers(v, t) /\ prev_min < v
      BY <2>2, <2>3, <2>4, <2>7, OfferCovers, Zenon
    <3>2. bottom_min' = Reduced(v)
      BY <2>1, <3>1, Zenon
    <3> HIDE DEF v
    <3>3. bottom_min' \in Int /\ 0 < bottom_min' /\ prev_min < bottom_min' /\ bottom_min' <= v
      BY <2>3, <3>1, <3>2 DEF Reduced, MinAhead
    <3>4. Covers(bottom_min', t)
      BY <3>1, <3>3, CoversLower, Zenon
    <3>5. ASSUME NEW u \in Timelines, u # t, pc[u] = "bottom", events[u] # {}, Crossing(u) # {}
          PROVE  Covers(bottom_min', u)
      <4>1. bottom_min' <= bottom_min /\ Covers(bottom_min, u)
        BY <2>3, <2>5, <3>1, <3>2, <3>5, SMTT(30) DEF Reduced
      <4> QED
        BY <2>3, <3>3, <4>1, CoversLower, Zenon
    <3>6. \A u \in Timelines : Ahead(u)'
      <4> SUFFICES ASSUME NEW u \in Timelines PROVE Ahead(u)'
        BY Zenon
      <4>1. pc'[u] = "bottom" /\ events[u] # {} /\ Crossing(u) # {} => Covers(bottom_min', u)
        BY <2>1, <3>4, <3>5, Zenon
      <4>2. pc'[u] \notin {"edge", "serial", "run", "top", "window2"}
        BY <2>1, <2>4, Zenon
      <4>3. \A m \in Crossing(u) : \A e \in events[u] : prev_min <= e.time
        BY <2>4, Zenon
      <4> QED
        BY <1>1, <2>4, <3>3, <4>1, <4>2, Zenon DEF Ahead, Covers
    <3>7. epochs # 0 /\ ctl' = "window2"
      BY <1>1, <2>4 DEF LookaheadInv
    <3> QED
      BY <1>1, <1>2, <1>6, <2>3, <3>3, <3>6, <3>7, Zenon DEF LookaheadInv, MinAhead, NoMinYet
  <2> QED
    BY <2>6, <2>7, Zenon
<1> QED
  BY <1>1, <1>2, <1>4, <1>5, <1>6 DEF LookaheadInv

\* Reading the minimum, which the serial thread may keep as the last one.
LEMMA LookaheadReadEdge ==
  ASSUME NEW t \in Timelines, TypeOK, SyncInv, LookaheadInv, ReadEdge(t)
  PROVE  LookaheadInv'
<1>1. UNCHANGED <<events, window_list, undelivered, bottom_min, epochs, ctl, iface>>
  BY Zenon DEF ReadEdge, eventVars, ctlVars
<1>2. /\ pc[t] \in {"edge", "serial"} /\ pc'[t] = "run"
      /\ \A u \in Timelines : u # t => pc'[u] = pc[u]
      /\ prev_min' \in {prev_min, bottom_min}
  BY Zenon DEF ReadEdge, Goto, TypeOK
<1>3. Executing
  BY <1>2, Zenon DEF SyncInv, Gathering, Between, Leaving
<1>4. OffersDistinct' = OffersDistinct /\ Edge' = Edge
  BY <1>1, Zenon DEF OffersDistinct, Edge
<1>5. \A u \in Timelines : pc'[u] \in {"edge", "serial", "run", "top", "window2"}
                           /\ pc[u] \in {"edge", "serial", "run", "top", "window2"}
  BY <1>2, <1>3, Zenon DEF Executing
<1>6. ASSUME OffersDistinct PROVE \A u \in Timelines : Ahead(u)'
  BY <1>1, <1>4, <1>5, <1>6, Zenon DEF LookaheadInv, Ahead, Covers
<1>7. ASSUME OffersDistinct PROVE MinAhead' /\ NoMinYet'
  BY <1>1, <1>2, <1>7, Zenon DEF LookaheadInv, MinAhead, NoMinYet
<1>8. Cardinality(Timelines) = 1 => prev_min' = -1
  BY <1>2 DEF LookaheadInv, SyncInv
<1> QED
  BY <1>1, <1>4, <1>6, <1>7, <1>8, Zenon DEF LookaheadInv

\* A legal write of the event being executed arrives at the edge or beyond it: it is
\* delivered.
LEMMA LegalArrival ==
  ASSUME NEW t \in Timelines, TypeOK, NEW e \in events[t], NEW b \in Bodies[t],
         stop_before[t] = Edge, Covers(Edge, t)
  PROVE  \A d \in Deliveries(b, e.time) : d.delay >= 0 => Deliverable(t, d)
<1> SUFFICES ASSUME NEW d \in Deliveries(b, e.time), d.delay >= 0, Route[d.via].dst # t
             PROVE  Edge <= d.at
  BY Zenon DEF Deliverable
<1>1. PICK x \in Maps \X b.writes :
        /\ Route[x[1]].oc = x[2].oc
        /\ d = [via |-> x[1], delay |-> x[2].delay,
                at |-> e.time + x[2].delay + Route[x[1]].delay]
  BY Zenon DEF Deliveries
<1>2. x[1] \in Maps /\ x[2] \in b.writes
  BY <1>1, Zenon
<1>3. x[2].delay \in Int /\ Route[x[1]].delay \in Nat /\ Route[x[1]].src = t
  BY <1>1, <1>2, BodyAssumption, RouteAssumption, SMTT(30) DEF IsBody, RouteType
<1>4. d.via = x[1] /\ d.delay = x[2].delay /\ d.at = e.time + x[2].delay + Route[x[1]].delay
  BY <1>1, Zenon
<1>5. x[1] \in Crossing(t)
  BY <1>2, <1>3, <1>4, Zenon DEF Crossing
<1>6. Edge <= e.time + Route[x[1]].delay
  BY <1>5, Zenon DEF Covers
<1>7. e.time \in Nat /\ Edge \in Int
  BY SMTT(30) DEF TypeOK, Event, Edge, Smaller
<1> QED
  BY <1>3, <1>4, <1>6, <1>7, SMTT(30)

\* Executing an event of t: if what it leaves on t is not earlier than the event, the
\* edge still covers every Timeline.
LEMMA LookaheadExecute ==
  ASSUME NEW t \in Timelines, TypeOK, TypeOK', LookaheadInv, Executing, NEW e \in events[t],
         \A f \in events'[t] : f \in events[t] \/ f.time >= e.time,
         \A u \in Timelines : u # t => events'[u] = events[u],
         UNCHANGED <<pc, bottom_min, prev_min, epochs, ctl, iface>>,
         OffersDistinct => undelivered' = {}
  PROVE  LookaheadInv'
<1>1. OffersDistinct' = OffersDistinct /\ Edge' = Edge /\ Edge \in Int
  BY SMTT(30) DEF OffersDistinct, Edge, Smaller, TypeOK
<1>2. ASSUME OffersDistinct, NEW u \in Timelines PROVE Ahead(u)'
  <2>1. Covers(Edge, u) /\ pc'[u] \in {"edge", "serial", "run", "top", "window2"}
    BY <1>2, Zenon DEF LookaheadInv, Ahead, Executing
  <2>2. \A m \in Crossing(u) : \A f \in events'[u] : Edge <= f.time + Route[m].delay
    <3> SUFFICES ASSUME NEW m \in Crossing(u), NEW f \in events'[u], f \notin events[u]
                 PROVE  Edge <= f.time + Route[m].delay
      BY <2>1, Zenon DEF Covers
    <3>1. u = t /\ f.time >= e.time /\ Edge <= e.time + Route[m].delay
      BY <2>1, Zenon DEF Covers
    <3>2. f.time \in Nat /\ e.time \in Nat /\ Route[m].delay \in Nat
      BY RouteAssumption, SMTT(30) DEF TypeOK, Event, Crossing, RouteType
    <3> QED
      BY <1>1, <3>1, <3>2, SMTT(30)
  <2> QED
    BY <1>1, <2>1, <2>2, ZenonT(60) DEF Ahead, Covers
<1> QED
  BY <1>1, <1>2, Zenon DEF LookaheadInv, MinAhead, NoMinYet

\* Executing a process body.
LEMMA LookaheadRunBody ==
  ASSUME NEW t \in Timelines, TypeOK, TypeOK', SyncInv, LookaheadInv, RunBody(t)
  PROVE  LookaheadInv'
<1>1. PICK e \in events[t], b \in Bodies[t] :
        /\ Selected(t, e)
        /\ events' = [events EXCEPT ![t] =
             (@ \ {e}) \cup Timeouts(t, evtnum[t], b, e.time)
                       \cup Activations(t, evtnum[t], Sent(t, b, e.time), t)]
        /\ undelivered' = undelivered \cup Refused(t, b, e.time)
  BY ZenonT(60) DEF RunBody
<1>2. UNCHANGED <<pc, bottom_min, prev_min, epochs, ctl, iface>>
  BY Zenon DEF RunBody, minVars, ctlVars
<1>3. pc[t] = "run"
  BY <1>1, Zenon DEF Selected
<1>4. Executing /\ stop_before[t] = Edge
  BY <1>3, ZenonT(60) DEF SyncInv, Gathering, Between, Leaving, Executing
<1>5. b \in Bodies[t] \cup InitBodies[t] /\ e.time \in Nat /\ evtnum[t] \in Nat
  BY DEF TypeOK, Event
<1>6. Sent(t, b, e.time) \subseteq Deliveries(b, e.time)
  BY Zenon DEF Sent
<1>7. \A f \in Timeouts(t, evtnum[t], b, e.time)
             \cup Activations(t, evtnum[t], Sent(t, b, e.time), t) : f.time >= e.time
  BY <1>5, <1>6, BodyEvents, ZenonT(60)
<1>8. /\ \A f \in events'[t] : f \in events[t] \/ f.time >= e.time
      /\ \A u \in Timelines : u # t => events'[u] = events[u]
  BY <1>1, <1>7, ZenonT(60) DEF TypeOK
<1>9. OffersDistinct => undelivered' = {}
  <2> SUFFICES ASSUME OffersDistinct PROVE undelivered' = {}
    BY Zenon
  <2>1. Covers(Edge, t) /\ undelivered = {}
    BY <1>3, Zenon DEF LookaheadInv, Ahead
  <2>2. Refused(t, b, e.time) = {}
    BY <1>4, <2>1, LegalArrival, ZenonT(60) DEF Refused
  <2> QED
    BY <1>1, <2>1, <2>2, Zenon
<1> QED
  BY <1>2, <1>4, <1>8, <1>9, LookaheadExecute, Zenon

\* Executing an activation.
LEMMA LookaheadActivate ==
  ASSUME NEW t \in Timelines, TypeOK, TypeOK', SyncInv, LookaheadInv, Activate(t)
  PROVE  LookaheadInv'
<1>1. PICK e \in events[t] :
        /\ Selected(t, e)
        /\ events' = [events EXCEPT ![t] = (@ \ {e}) \cup {ExecActivate(t, evtnum[t], e)}]
  BY ZenonT(60) DEF Activate
<1>2. UNCHANGED <<pc, bottom_min, prev_min, epochs, ctl, iface, undelivered>>
  BY Zenon DEF Activate, minVars, ctlVars
<1>3. pc[t] = "run"
  BY <1>1, Zenon DEF Selected
<1>4. Executing
  BY <1>3, ZenonT(60) DEF SyncInv, Gathering, Between, Leaving
<1>5. e.time \in Nat /\ ExecActivate(t, evtnum[t], e).time = e.time
  BY SMTT(30) DEF TypeOK, Event, ExecActivate, NewEvent
<1>6. /\ \A f \in events'[t] : f \in events[t] \/ f.time >= e.time
      /\ \A u \in Timelines : u # t => events'[u] = events[u]
  BY <1>1, <1>5, SMTT(30) DEF TypeOK
<1>7. OffersDistinct => undelivered' = {}
  BY <1>2, Zenon DEF LookaheadInv
<1> QED
  BY <1>2, <1>4, <1>6, <1>7, LookaheadExecute, Zenon

\* No step breaks the lookahead.
LEMMA LookaheadStep ==
  TypeOK /\ TypeOK' /\ SyncInv /\ LookaheadInv /\ [Next]_vars => LookaheadInv'
<1> SUFFICES ASSUME TypeOK, TypeOK', SyncInv, LookaheadInv, [Next]_vars
             PROVE  LookaheadInv'
  BY Zenon
<1>1. CASE Control
  BY <1>1, LookaheadBetween, Zenon
<1>2. CASE Barriers
  BY <1>2, LookaheadWindowRelease, LookaheadBottomRelease, LookaheadTopRelease, Zenon DEF Barriers
<1>3. ASSUME NEW t \in Timelines, TimelineStep(t)
      PROVE  LookaheadInv'
  BY <1>3, LookaheadMove, LookaheadCollect, LookaheadOffer, LookaheadReadEdge, LookaheadRunBody,
     LookaheadActivate, ZenonT(60) DEF TimelineStep
<1>4. CASE UNCHANGED vars
  <2>1. UNCHANGED <<pc, events, window_list, bottom_min, prev_min, ctl, iface, epochs, undelivered>>
    BY <1>4, Zenon DEF vars, timelineVars, eventVars, minVars, ctlVars
  <2>2. OffersDistinct' = OffersDistinct /\ Edge' = Edge /\ MinAhead' = MinAhead
        /\ NoMinYet' = NoMinYet
    BY <2>1, Zenon DEF OffersDistinct, Edge, MinAhead, NoMinYet
  <2>3. \A t \in Timelines : Ahead(t)' = Ahead(t)
    BY <2>1, <2>2, Zenon DEF Ahead, Covers
  <2> QED
    BY <2>1, <2>2, <2>3, Zenon DEF LookaheadInv
<1> QED
  BY <1>1, <1>2, <1>3, <1>4, Zenon DEF Next, Finished

\* The lookahead is an invariant of the kernel.
LEMMA LookaheadHolds == Spec => [](TypeOK /\ SyncInv /\ LookaheadInv)
<1>1. Init => LookaheadInv
  BY LookaheadInit, Zenon
<1>2. TypeOK /\ TypeOK' /\ SyncInv /\ LookaheadInv /\ [Next]_vars => LookaheadInv'
  BY LookaheadStep, Zenon
<1> QED
  BY <1>1, <1>2, PhasesHold, PTL DEF Spec

\* In the first call of advance, if every Timeline can write to another one, the kernel
\* delivers every write whose delay is not below the declared minimum, as OutChannel::write
\* promises; a lone Timeline does so in every call.
THEOREM LegalWritesArrive == Spec => [](OffersDistinct => LegalWritesDelivered)
<1>1. LookaheadInv => (OffersDistinct => LegalWritesDelivered)
  BY Zenon DEF LookaheadInv, LegalWritesDelivered
<1> QED
  BY <1>1, LookaheadHolds, PTL
-----------------------------------------------------------------------------
(* The kernel implements ParallelSim.                                      *)

\* Before InitModel there is no event; advance is called at most MaxEpochs times.
BuildInv ==
  /\ epochs <= MaxEpochs
  /\ ctl = "build" => \A t \in Timelines :
       events[t] = {} /\ window_list[t] = {} /\ evtnum[t] = 0

\* No step creates an event before InitModel.
LEMMA BuildStep == TypeOK /\ SyncInv /\ BuildInv /\ [Next]_vars => BuildInv'
<1> SUFFICES ASSUME TypeOK, SyncInv, BuildInv, [Next]_vars
             PROVE  BuildInv'
  BY ZenonT(60)
<1>1. CASE Control
  BY <1>1, EpochAssumption, SMTT(30) DEF Control, InitModel, Advance, AdvanceReturn, BuildInv, TypeOK
<1>2. CASE Barriers
  <2>1. epochs' = epochs
    BY <1>2, Zenon DEF Barriers, WindowRelease, BottomRelease, TopRelease, ctlVars
  <2>2. ctl' # "build"
    BY <1>2, RouteAssumption, Zenon DEF Barriers, WindowRelease, BottomRelease, TopRelease,
       ctlVars, SyncInv, Gathering, Executing, Between, Leaving
  <2> QED
    BY <2>1, <2>2, Zenon DEF BuildInv
<1>3. ASSUME NEW t \in Timelines, TimelineStep(t)
      PROVE  BuildInv'
  <2>1. UNCHANGED <<ctl, epochs>>
    BY <1>3, ZenonT(30) DEF TimelineStep, StartEpoch, Collect, Offer, ReadEdge, RunBody, Activate,
       EndWindow, LoopTest, ctlVars
  <2>2. CASE LoopTest(t)
    BY <2>1, <2>2, Zenon DEF LoopTest, eventVars, BuildInv
  <2>3. CASE ~LoopTest(t)
    <3>1. pc[t] \notin {"loop", "window1"}
      BY <1>3, <2>3, ZenonT(30) DEF TimelineStep, StartEpoch, Collect, Offer, ReadEdge, RunBody,
         Activate, EndWindow, Goto, Selected
    <3>2. ctl # "build"
      BY <3>1, Zenon DEF SyncInv, Gathering, Executing, Between, Leaving
    <3> QED
      BY <2>1, <3>2, Zenon DEF BuildInv
  <2> QED
    BY <2>2, <2>3, Zenon
<1>4. CASE UNCHANGED vars
  BY <1>4, Zenon DEF vars, eventVars, ctlVars, BuildInv
<1> QED
  BY <1>1, <1>2, <1>3, <1>4, Zenon DEF Next, Finished

\* The abstract state.
Pending == [t \in Timelines |-> events[t] \cup window_list[t]]
Phase == CASE ctl = "build" -> "build" [] ctl = "idle" -> "idle" [] OTHER -> "advancing"

\* Initially the kernel is in an initial state of ParallelSim.
LEMMA RefinementInit == Init => Abstract!Init
<1> SUFFICES ASSUME Init PROVE Abstract!Init
  BY Zenon
<1>1. Pending = [t \in Timelines |-> {}]
  BY Zenon DEF Init, Pending
<1>2. Phase = "build"
  BY Zenon DEF Init, Phase
<1> QED
  BY <1>1, <1>2, Zenon DEF Init, Abstract!Init, Pending, Phase

\* InitModel is the step that builds the model.
LEMMA RefinementBuild ==
  ASSUME TypeOK, TypeOK', BuildInv, InitModel
  PROVE  Abstract!Build
<1>1. PICK ib \in [Timelines -> UNION {InitBodies[t] : t \in Timelines}] :
        /\ \A t \in Timelines : ib[t] \in InitBodies[t]
        /\ events' = [t \in Timelines |->
             events[t] \cup Timeouts(t, evtnum[t], ib[t], 0)
                       \cup Activations(t, evtnum[t], Sent(t, ib[t], 0), t)]
        /\ window_list' = [t \in Timelines |->
             window_list[t] \cup UNION {Activations(u, evtnum[u], Sent(u, ib[u], 0), t) :
                                          u \in Timelines \ {t}}]
  BY Zenon DEF InitModel
<1>2. ctl = "build" /\ ctl' = "idle" /\ UNCHANGED <<clock, iface>>
  BY Zenon DEF InitModel
<1>3. \A t \in Timelines : events[t] = {} /\ window_list[t] = {} /\ evtnum[t] = 0
  BY <1>2, Zenon DEF BuildInv
<1>4. ASSUME NEW t \in Timelines, NEW e \in events'[t] \cup window_list'[t]
      PROVE  e \in Event /\ e.num = 0
  <2>1. e \in Event
    BY Zenon DEF TypeOK
  <2>2. \/ e \in Timeouts(t, 0, ib[t], 0)
        \/ \E u \in Timelines : e \in Activations(u, 0, Sent(u, ib[u], 0), t)
    BY <1>1, <1>3, ZenonT(60)
  <2>3. e.num = 0
    BY <2>2 DEF Timeouts, Activations, NewEvent
  <2> QED
    BY <2>1, <2>3, Zenon
<1>5. \A t \in Timelines : Pending'[t] \subseteq
        [type : EventTypes, time : Nat, from : Timelines, num : {0}, via : Maps \cup {"self"}]
  BY <1>4, Zenon DEF Pending, Event
<1>6. Phase = "build" /\ Phase' = "idle"
  BY <1>2, Zenon DEF Phase
<1>7. DOMAIN Pending' = Timelines /\ DOMAIN evtnum' = Timelines
  BY Zenon DEF Pending, TypeOK
<1> QED
  BY <1>2, <1>5, <1>6, <1>7, Zenon DEF Abstract!Build, Pending, Phase, EventTypes, Abstract!EventTypes

\* Sums may be regrouped.
LEMMA SumRegroups ==
  ASSUME NEW i \in Nat, NEW j \in Nat, NEW k \in Nat
  PROVE  i + (j + k) = i + j + k
OBVIOUS

\* The event that sync_window pops is ready: nothing earlier can reach its Timeline any
\* more, neither from the lists of other Timelines nor from their __window_lists.
LEMMA SelectedIsReady ==
  ASSUME NEW t \in Timelines, TypeOK, SyncInv, LookaheadInv, OffersDistinct,
         NEW e \in events[t], Selected(t, e)
  PROVE  Abstract!Ready(t, e) /\ e \notin window_list[t] /\ Executing
<1>1. pc[t] = "run" /\ e.time < stop_before[t] /\ \A f \in events[t] : e.time <= f.time
  BY Zenon DEF Selected
<1>2. Executing
  BY <1>1, ZenonT(60) DEF SyncInv, Gathering, Between, Leaving
<1>3. ctl = "window2" /\ stop_before[t] = Edge /\ Edge \in Int /\ Edge <= iface.stop_before
  BY <1>1, <1>2, SMTT(30) DEF Executing, Edge, Smaller, TypeOK
<1>4. Phase = "advancing"
  BY <1>3, Zenon DEF Phase
<1>5. \A u \in Timelines : /\ \A f \in events[u] \cup window_list[u] : f.time \in Nat
                           /\ \A f \in window_list[u] : Edge <= f.time
  BY <1>2, <1>3, SMTT(30) DEF Executing, TypeOK, Event
<1>6. e.time < Edge /\ e.time \in Nat /\ iface.stop_before \in Nat
  BY <1>1, <1>3, <1>5, Zenon DEF TypeOK
<1>7. e.time < iface.stop_before /\ e \notin window_list[t]
  BY <1>3, <1>5, <1>6, SMTT(30)
<1>8. e \in Pending[t] /\ \A f \in Pending[t] : e.time <= f.time
  BY <1>1, <1>3, <1>5, <1>6, SMTT(30) DEF Pending
<1>9. ASSUME NEW m \in Maps, Route[m].dst = t, Route[m].src # t, NEW f \in Pending[Route[m].src]
      PROVE  f.time + Route[m].delay >= e.time
  <2>1. Route[m].src \in Timelines /\ Route[m].delay \in Nat /\ m \in Crossing(Route[m].src)
    BY <1>9, RouteAssumption, Zenon DEF RouteType, Crossing
  <2>2. pc[Route[m].src] \in {"edge", "serial", "run", "top", "window2"}
    BY <1>2, <2>1, Zenon DEF Executing
  <2>3. Covers(Edge, Route[m].src)
    BY <2>1, <2>2, Zenon DEF LookaheadInv, Ahead
  <2>4. CASE f \in events[Route[m].src]
    <3>1. Edge <= f.time + Route[m].delay
      BY <2>1, <2>3, <2>4, ZenonT(60) DEF Covers
    <3>2. f.time \in Nat
      BY <1>5, <2>1, <2>4, ZenonT(60)
    <3> QED
      BY <1>3, <1>6, <2>1, <3>1, <3>2, SMTT(30)
  <2>5. CASE f \in window_list[Route[m].src]
    BY <1>3, <1>5, <1>6, <2>1, <2>5, SMTT(30)
  <2> QED
    BY <1>9, <2>1, <2>4, <2>5, Zenon DEF Pending
<1> QED
  BY <1>2, <1>4, <1>7, <1>8, <1>9, Zenon DEF Abstract!Ready, Abstract!NothingBefore, Pending, Phase

\* ParallelSim counts events as the kernel does.
LEMMA SameCardinality ==
  ASSUME NEW S
  PROVE  Abstract!Cardinality(S) = Cardinality(S)
BY Zenon DEF Abstract!Cardinality, Cardinality, Abstract!IsFiniteSet, IsFiniteSet

\* RunBody is an execution: no write with a delay of zero or more is missing.
LEMMA RefinementExecute ==
  ASSUME NEW t \in Timelines, TypeOK, SyncInv, LookaheadInv, OffersDistinct, RunBody(t)
  PROVE  Abstract!Execute(t)
<1>1. PICK e \in events[t], b \in Bodies[t] :
        /\ Selected(t, e) /\ e.type = b.on
        /\ events' = [events EXCEPT ![t] =
             (@ \ {e}) \cup Timeouts(t, evtnum[t], b, e.time)
                       \cup Activations(t, evtnum[t], Sent(t, b, e.time), t)]
        /\ window_list' = [u \in Timelines |->
             IF u = t THEN window_list[u]
             ELSE window_list[u] \cup Activations(t, evtnum[t], Sent(t, b, e.time), u)]
        /\ evtnum' = [evtnum EXCEPT ![t] = @ + Created(t, b, e.time)]
  BY ZenonT(60) DEF RunBody
<1> DEFINE D == Sent(t, b, e.time)
<1>2. Abstract!Ready(t, e) /\ e \notin window_list[t] /\ Executing
  BY <1>1, SelectedIsReady, Zenon
<1>3. D \subseteq Deliveries(b, e.time)
  BY Zenon DEF Sent
<1>4. \A d \in Deliveries(b, e.time) : d.delay >= 0 => d \in D
  <2>1. pc[t] = "run"
    BY <1>1, ZenonT(60) DEF Selected
  <2>2. stop_before[t] = Edge /\ Covers(Edge, t)
    BY <1>2, <2>1, Zenon DEF Executing, LookaheadInv, Ahead
  <2> QED
    BY <2>2, LegalArrival, Zenon DEF Sent
<1>5. Pending' = [u \in Timelines |->
        (IF u = t THEN (Pending[t] \ {e}) \cup Timeouts(t, evtnum[t], b, e.time)
                  ELSE Pending[u]) \cup Activations(t, evtnum[t], D, u)]
  <2> SUFFICES ASSUME NEW u \in Timelines
               PROVE  events'[u] \cup window_list'[u] =
                        (IF u = t THEN ((events[t] \cup window_list[t]) \ {e})
                                         \cup Timeouts(t, evtnum[t], b, e.time)
                                  ELSE events[u] \cup window_list[u])
                        \cup Activations(t, evtnum[t], D, u)
    BY ZenonT(60) DEF Pending
  <2> HIDE DEF D
  <2>1. CASE u = t
    BY <1>1, <1>2, <2>1, ZenonT(60) DEF TypeOK, D
  <2>2. CASE u # t
    BY <1>1, <2>2, Zenon DEF TypeOK, D
  <2> QED
    BY <2>1, <2>2, Zenon
<1>6. evtnum' = [evtnum EXCEPT ![t] = @ + Cardinality(b.timers) + Cardinality(D)]
  <2>1. b \in Bodies[t] \cup InitBodies[t] /\ e.time \in Nat
    BY SMTT(30) DEF TypeOK, Event
  <2>2. IsFiniteSet(D) /\ IsFiniteSet(b.timers)
    BY <1>3, <2>1, DeliveriesFinite, BodyAssumption, ZenonT(60) DEF IsBody
  <2>3. Cardinality(b.timers) \in Nat /\ Cardinality(D) \in Nat /\ evtnum[t] \in Nat
    <3>1. Cardinality(b.timers) \in Nat /\ Cardinality(D) \in Nat
      BY <2>2, FS_CardinalityType, ZenonT(60)
    <3>2. evtnum[t] \in Nat
      BY ZenonT(60) DEF TypeOK
    <3> QED
      BY <3>1, <3>2, ZenonT(60)
  <2>4. evtnum[t] + (Cardinality(b.timers) + Cardinality(D))
          = evtnum[t] + Cardinality(b.timers) + Cardinality(D)
    BY <2>3, SumRegroups, ZenonT(60)
  <2> QED
    BY <1>1, <2>4, ZenonT(60) DEF Created
<1>7. UNCHANGED <<clock, iface, Phase>>
  BY ZenonT(60) DEF RunBody, ctlVars, Phase
<1>8. /\ Deliveries(b, e.time) = Abstract!Deliveries(b, e.time)
      /\ Timeouts(t, evtnum[t], b, e.time) = Abstract!Timeouts(t, evtnum[t], b, e.time)
      /\ \A u : Activations(t, evtnum[t], D, u) = Abstract!Activations(t, evtnum[t], D, u)
  BY Zenon DEF Deliveries, Abstract!Deliveries, Timeouts, Abstract!Timeouts, Activations,
     Abstract!Activations, NewEvent, Abstract!NewEvent
<1>9. e \in Pending[t]
  BY Zenon DEF Pending
<1> HIDE DEF D
<1>10. /\ D \in SUBSET Abstract!Deliveries(b, e.time)
       /\ \A d \in Abstract!Deliveries(b, e.time) : d.delay >= 0 => d \in D
  BY <1>3, <1>4, <1>8, Zenon
<1>11. Pending' = [u \in Timelines |->
         (IF u = t THEN (Pending[t] \ {e}) \cup Abstract!Timeouts(t, evtnum[t], b, e.time)
                   ELSE Pending[u]) \cup Abstract!Activations(t, evtnum[t], D, u)]
  BY <1>5, <1>8, Zenon
<1> DEFINE Body(f, c, E) ==
      /\ Abstract!Ready(t, f) /\ f.type = c.on
      /\ \A d \in Abstract!Deliveries(c, f.time) : d.delay >= 0 => d \in E
      /\ Pending' = [u \in Timelines |->
           (IF u = t THEN (Pending[t] \ {f}) \cup Abstract!Timeouts(t, evtnum[t], c, f.time)
                     ELSE Pending[u])
           \cup Abstract!Activations(t, evtnum[t], E, u)]
      /\ evtnum' = [evtnum EXCEPT ![t] =
           @ + Abstract!Cardinality(c.timers) + Abstract!Cardinality(E)]
      /\ UNCHANGED <<clock, iface.stop_before, Phase>>
<1>12. Body(e, b, D)
  BY <1>1, <1>2, <1>6, <1>7, <1>10, <1>11, SameCardinality, ZenonT(60)
<1> HIDE DEF Body
<1>13. \E f \in Pending[t] : \E c \in Bodies[t] : \E E \in SUBSET Abstract!Deliveries(c, f.time) :
         Body(f, c, E)
  BY <1>9, <1>10, <1>12, Zenon
<1> QED
  BY <1>13, Zenon DEF Body, Abstract!Execute, Pending, Phase

\* So is the execution of an activation.
LEMMA RefinementActivate ==
  ASSUME NEW t \in Timelines, TypeOK, SyncInv, LookaheadInv, OffersDistinct, Activate(t)
  PROVE  Abstract!Activate(t)
<1>1. PICK e \in events[t] :
        /\ Selected(t, e) /\ e.type = "ACTIVATE"
        /\ events' = [events EXCEPT ![t] = (@ \ {e}) \cup {ExecActivate(t, evtnum[t], e)}]
  BY ZenonT(60) DEF Activate
<1>2. Abstract!Ready(t, e) /\ e \notin window_list[t] /\ Executing
  BY <1>1, SelectedIsReady, Zenon
<1>3. evtnum' = [evtnum EXCEPT ![t] = @ + 1] /\ UNCHANGED <<window_list, clock, iface, Phase>>
  BY Zenon DEF Activate, ctlVars, Phase
<1>4. ExecActivate(t, evtnum[t], e) = Abstract!ExecActivate(t, evtnum[t], e)
  BY Zenon DEF ExecActivate, Abstract!ExecActivate, NewEvent, Abstract!NewEvent
<1>5. Pending' = [Pending EXCEPT ![t] = (@ \ {e}) \cup {Abstract!ExecActivate(t, evtnum[t], e)}]
  <2> DEFINE x == Abstract!ExecActivate(t, evtnum[t], e)
  <2>1. /\ events'[t] = (events[t] \ {e}) \cup {x}
        /\ \A u \in Timelines : u # t => events'[u] = events[u]
    BY <1>1, <1>4, Zenon DEF TypeOK
  <2> HIDE DEF x
  <2>2. \A u \in Timelines : events'[u] \cup window_list'[u] =
          IF u = t THEN ((events[t] \cup window_list[t]) \ {e}) \cup {x}
                   ELSE events[u] \cup window_list[u]
    BY <1>2, <1>3, <2>1, Zenon
  <2> QED
    BY <2>2, ZenonT(60) DEF Pending, x
<1>6. e \in Pending[t]
  BY Zenon DEF Pending
<1> DEFINE Body(f) ==
      /\ Abstract!Ready(t, f) /\ f.type = "ACTIVATE"
      /\ Pending' = [Pending EXCEPT ![t] =
                       (@ \ {f}) \cup {Abstract!ExecActivate(t, evtnum[t], f)}]
      /\ evtnum' = [evtnum EXCEPT ![t] = @ + 1]
      /\ UNCHANGED <<clock, iface.stop_before, Phase>>
<1>7. Body(e)
  BY <1>1, <1>2, <1>3, <1>5, Zenon
<1> HIDE DEF Body
<1>8. \E f \in Pending[t] : Body(f)
  BY <1>6, <1>7, Zenon
<1> QED
  BY <1>8, Zenon DEF Body, Abstract!Activate, Pending, Phase

\* The calls of advance and their returns.
LEMMA RefinementControl ==
  ASSUME TypeOK, TypeOK', SyncInv, BuildInv, Control
  PROVE  Abstract!Next
<1>1. CASE InitModel
  BY <1>1, RefinementBuild, Zenon DEF Abstract!Next
<1>2. ASSUME NEW na \in NextActions, NEW len \in EpochLengths, Advance(na, len)
      PROVE  Abstract!Next
  <2>1. /\ ctl = "idle" /\ ctl' = "window1" /\ iface'.stop_before = clock + len
        /\ UNCHANGED <<events, window_list, evtnum, clock>>
    BY <1>2, Zenon DEF Advance, eventVars
  <2>2. Phase = "idle" /\ Phase' = "advancing" /\ Pending' = Pending
    BY <2>1, Zenon DEF Phase, Pending
  <2>3. Abstract!Start(len)
    BY <2>1, <2>2, Zenon DEF Abstract!Start, Phase, Pending
  <2> QED
    BY <2>3, Zenon DEF Abstract!Next
<1>3. CASE AdvanceReturn
  <2>1. /\ ctl = "return" /\ ctl' = "idle" /\ clock' = iface.stop_before
        /\ UNCHANGED <<events, window_list, evtnum, iface>>
    BY <1>3, Zenon DEF AdvanceReturn, eventVars
  <2>2. Phase = "advancing" /\ Phase' = "idle" /\ Pending' = Pending
    BY <2>1, Zenon DEF Phase, Pending
  <2>3. \A t \in Timelines : \A e \in Pending[t] : e.time >= iface.stop_before
    BY <2>1, Zenon DEF SyncInv, Gathering, Executing, Between, Leaving, EpochComplete, Pending
  <2>4. Abstract!Return
    BY <2>1, <2>2, <2>3, Zenon DEF Abstract!Return, Phase, Pending
  <2> QED
    BY <2>4, Zenon DEF Abstract!Next
<1> QED
  BY <1>1, <1>2, <1>3, Zenon DEF Control

\* The barriers and the steps that execute no event are invisible.
LEMMA RefinementStutter ==
  ASSUME TypeOK,
         \/ Barriers \/ UNCHANGED vars
         \/ \E t \in Timelines : \/ StartEpoch(t) \/ Collect(t) \/ Offer(t) \/ ReadEdge(t)
                                 \/ EndWindow(t) \/ LoopTest(t)
  PROVE  UNCHANGED Abstract!vars
<1>1. Pending' = Pending
  <2>1. ASSUME NEW t \in Timelines, Collect(t) PROVE Pending' = Pending
    <3>1. \A u \in Timelines : events'[u] \cup window_list'[u] = events[u] \cup window_list[u]
      BY <2>1, Zenon DEF Collect, TypeOK
    <3> QED
      BY <3>1, Zenon DEF Pending
  <2>2. ASSUME UNCHANGED <<events, window_list>> PROVE Pending' = Pending
    BY <2>2, Zenon DEF Pending
  <2> QED
    BY <2>1, <2>2, Zenon DEF Barriers, WindowRelease, BottomRelease, TopRelease, StartEpoch, Offer,
       ReadEdge, EndWindow, LoopTest, vars, eventVars
<1>2. UNCHANGED <<evtnum, clock, iface>>
  BY Zenon DEF Barriers, WindowRelease, BottomRelease, TopRelease, StartEpoch, Offer, ReadEdge,
     EndWindow, LoopTest, Collect, vars, eventVars, ctlVars
<1>3. Phase' = Phase
  <2>1. CASE WindowRelease
    BY <2>1, Zenon DEF WindowRelease, Phase
  <2>2. ASSUME UNCHANGED ctl PROVE Phase' = Phase
    BY <2>2, Zenon DEF Phase
  <2> QED
    BY <2>1, <2>2, Zenon DEF Barriers, BottomRelease, TopRelease, StartEpoch, Offer, ReadEdge,
       EndWindow, LoopTest, Collect, vars, ctlVars
<1> QED
  BY <1>1, <1>2, <1>3, Zenon DEF Abstract!vars, Pending, Phase

\* Every step of the kernel is a step of ParallelSim or invisible.
LEMMA RefinementStep ==
  ASSUME TypeOK, TypeOK', SyncInv, LookaheadInv, OffersDistinct, BuildInv, [Next]_vars
  PROVE  [Abstract!Next]_(Abstract!vars)
<1>1. CASE Control
  BY <1>1, RefinementControl, Zenon
<1>2. ASSUME NEW t \in Timelines, RunBody(t) \/ Activate(t)
      PROVE  Abstract!Next
  BY <1>2, RefinementExecute, RefinementActivate, Zenon DEF Abstract!Next
<1>3. ASSUME ~Control, ~ \E t \in Timelines : RunBody(t) \/ Activate(t)
      PROVE  UNCHANGED Abstract!vars
  BY <1>3, RefinementStutter, Zenon DEF Next, TimelineStep, Finished
<1> QED
  BY <1>1, <1>2, <1>3, Zenon

\* In one call of advance, if every Timeline can write to another one, the kernel with its
\* windows and barriers implements ParallelSim: events run only when nothing earlier can
\* arrive, no legal write is lost and advance returns with the epoch executed.  A lone
\* Timeline does so in any number of calls.
THEOREM KernelImplements ==
  ASSUME NoSink, MaxEpochs <= 1 \/ Cardinality(Timelines) = 1
  PROVE  Spec => ImplementsParallelSim
<1>1. Init => BuildInv
  BY EpochAssumption DEF Init, BuildInv
<1>2. TypeOK /\ BuildInv => OffersDistinct
  BY EpochAssumption DEF BuildInv, OffersDistinct, TypeOK
<1>3. TypeOK /\ TypeOK' /\ SyncInv /\ LookaheadInv /\ BuildInv /\ [Next]_vars =>
        [Abstract!Next]_(Abstract!vars)
  BY <1>2, RefinementStep, Zenon
<1>4. TypeOK /\ SyncInv /\ BuildInv /\ [Next]_vars => BuildInv'
  BY BuildStep, Zenon
<1> QED
  BY <1>1, <1>3, <1>4, LookaheadHolds, RefinementInit, PTL
     DEF Spec, ImplementsParallelSim, Abstract!Spec
=============================================================================
