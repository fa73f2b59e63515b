------------------------- MODULE TimelineSyncProofs -------------------------
(***************************************************************************)
(* The safety properties of TimelineSync for any number of Timelines, any  *)
(* topology of mappings, any process bodies and any number of epochs.      *)
(*                                                                         *)
(* The argument: the three barriers keep all the threads in one phase at a *)
(* time (Gathering, Executing, Between epochs), and in each phase the      *)
(* clocks, the event lists and the minimum are tied to one edge that every *)
(* Timeline agrees on.                                                     *)
(***************************************************************************)
EXTENDS TimelineSyncTypes

\* The upper edge of the window being executed, as ReadEdge computes it.
Edge == IF bottom_min <= 0 THEN iface.stop_before
        ELSE Smaller(bottom_min, iface.stop_before)

\* thread_function leaves its loop instead of starting the epoch.
Leaves(t) ==
  iface.next_action = "STOP_BEFORE_TIME" /\ iface.stop_before <= time[t] + 1

\* Between window_barrier or top_barrier and bottom_barrier.
Gathering ==
  /\ ctl = "window2"
  /\ \A t, u \in Timelines : time[t] = time[u]
  /\ \A t \in Timelines :
       /\ pc[t] \in {"epoch", "loop", "collect", "offer", "bottom"}
       /\ time[t] < iface.stop_before
       /\ bottom_min <= 0 \/ bottom_min > time[t]
       /\ pc[t] # "epoch" => epoch_end[t] = iface.stop_before /\ ~Leaves(t)
       /\ pc[t] = "loop" => stop_before[t] < epoch_end[t]
       /\ pc[t] \in {"offer", "bottom"} => window_list[t] = {}
       /\ \A e \in events[t] \cup window_list[t] : e.time >= time[t]

\* Between bottom_barrier and top_barrier or window_barrier.
Executing ==
  /\ ctl = "window2"
  /\ \A t \in Timelines :
       /\ pc[t] \in {"edge", "serial", "run", "top", "window2"}
       /\ epoch_end[t] = iface.stop_before
       /\ time[t] < Edge
       /\ pc[t] \in {"run", "top", "window2"} => stop_before[t] = Edge
       /\ pc[t] \in {"top", "window2"} =>
            time[t] = Edge - 1 /\ \A e \in events[t] : e.time >= Edge
       /\ pc[t] = "top" => Edge < iface.stop_before
       /\ pc[t] = "window2" => Edge = iface.stop_before
       /\ \A e \in events[t] : e.time >= time[t]
       /\ \A e \in window_list[t] : e.time >= Edge

\* Outside an epoch: the Timelines are at, or on their way to, window_barrier.
Between ==
  /\ ctl \in {"build", "idle", "window1", "return"}
  /\ \A t, u \in Timelines : time[t] = time[u]
  /\ ctl = "window1" => clock < iface.stop_before
  /\ \A t \in Timelines :
       /\ pc[t] \in {"loop", "window1"}
       /\ ctl # "return" => time[t] <= clock
       /\ ctl = "build" => time[t] = 0
       /\ pc[t] = "loop" => stop_before[t] >= epoch_end[t]
       /\ bottom_min <= 0 \/ bottom_min > time[t]
       /\ \A e \in events[t] \cup window_list[t] : e.time >= time[t]
  /\ EpochComplete

\* All the Timelines have been told to leave, or will be.
Leaving ==
  /\ ctl = "window2"
  /\ \A t \in Timelines :
       /\ pc[t] \in {"epoch", "exited"} /\ Leaves(t)
       /\ \A e \in events[t] \cup window_list[t] : e.time >= time[t]

SyncInv ==
  /\ ~user_force_stop
  /\ Cardinality(Timelines) = 1 => bottom_min = -1
  /\ Gathering \/ Executing \/ Between \/ Leaving
-----------------------------------------------------------------------------
(* The phases.                                                             *)

\* Initially all threads are between epochs.
LEMMA SyncInit == Init => SyncInv
BY DEF Init, SyncInv, Between, EpochComplete

\* The init() methods leave the threads between epochs, with no event in the past.
LEMMA SyncInitModel == TypeOK /\ SyncInv /\ InitModel => SyncInv'
<1> SUFFICES ASSUME TypeOK, SyncInv, InitModel
             PROVE  SyncInv'
  OBVIOUS
<1>1. Between /\ ctl = "build"
  BY DEF SyncInv, Gathering, Executing, Leaving, InitModel
<1>2. PICK ib \in [Timelines -> UNION {InitBodies[t] : t \in Timelines}] :
        /\ \A t \in Timelines : ib[t] \in InitBodies[t]
        /\ events' = [t \in Timelines |->
             events[t] \cup Timeouts(t, evtnum[t], ib[t], 0)
                       \cup Activations(t, evtnum[t], Sent(t, ib[t], 0), t)]
        /\ window_list' = [t \in Timelines |->
             window_list[t] \cup UNION {Activations(u, evtnum[u], Sent(u, ib[u], 0), t) :
                                          u \in Timelines \ {t}}]
  BY DEF InitModel
<1>3. ASSUME NEW t \in Timelines, NEW u
      PROVE  \A e \in Timeouts(t, evtnum[t], ib[t], 0)
                        \cup Activations(t, evtnum[t], Sent(t, ib[t], 0), u) : e.time >= 0
  <2>1. ib[t] \in Bodies[t] \cup InitBodies[t] /\ evtnum[t] \in Nat
    BY <1>2, Zenon DEF TypeOK
  <2>2. Sent(t, ib[t], 0) \subseteq Deliveries(ib[t], 0)
    BY DEF Sent
  <2> QED
    BY <2>1, <2>2, BodyEvents, ZenonT(60)
<1>4. \A t \in Timelines : \A e \in events'[t] \cup window_list'[t] : e.time >= time[t]
  <2> SUFFICES ASSUME NEW t \in Timelines, NEW e \in events'[t] \cup window_list'[t]
               PROVE  e.time >= time[t]
    OBVIOUS
  <2>1. time[t] = 0
    BY <1>1 DEF Between
  <2>2. CASE e \in events[t] \cup window_list[t]
    BY <1>1, <2>2 DEF Between
  <2>3. CASE e \notin events[t] \cup window_list[t]
    <3>1. \/ e \in Timeouts(t, evtnum[t], ib[t], 0)
          \/ \E u \in Timelines : e \in Activations(u, evtnum[u], Sent(u, ib[u], 0), t)
      BY <1>2, <2>3, SMTT(30)
    <3> QED
      BY <3>1, <1>3, <2>1, ZenonT(60)
  <2> QED
    BY <2>2, <2>3
<1>5. UNCHANGED <<pc, time, stop_before, epoch_end, bottom_min, clock, iface, user_force_stop>>
      /\ ctl' = "idle"
  BY Zenon DEF InitModel, timelineVars, minVars
<1> QED
  BY <1>1, <1>4, <1>5 DEF SyncInv, Between, EpochComplete, TypeOK

\* The control thread's own steps happen between epochs.
LEMMA SyncAdvance ==
  ASSUME NEW na \in NextActions, NEW len \in EpochLengths
  PROVE  TypeOK /\ SyncInv /\ Advance(na, len) => SyncInv'
<1> SUFFICES ASSUME TypeOK, SyncInv, Advance(na, len)
             PROVE  SyncInv'
  OBVIOUS
<1>1. Between /\ ctl = "idle"
  BY DEF SyncInv, Gathering, Executing, Leaving, Advance
<1>2. UNCHANGED <<pc, time, stop_before, epoch_end, events, window_list, bottom_min, clock,
                  user_force_stop>>
      /\ ctl' = "window1" /\ iface'.stop_before = clock + len
  BY DEF Advance, timelineVars, eventVars, minVars
<1>3. clock < clock + len
  BY EpochAssumption DEF TypeOK
<1> QED
  BY <1>1, <1>2, <1>3 DEF SyncInv, Between, EpochComplete

\* advance_body moves Interface::__clock to where the Timelines are.
LEMMA SyncAdvanceReturn == TypeOK /\ SyncInv /\ AdvanceReturn => SyncInv'
<1> SUFFICES ASSUME TypeOK, SyncInv, AdvanceReturn
             PROVE  SyncInv'
  OBVIOUS
<1>1. Between /\ ctl = "return"
  BY DEF SyncInv, Gathering, Executing, Leaving, AdvanceReturn
<1>2. UNCHANGED <<pc, time, stop_before, epoch_end, events, window_list, bottom_min,
                  user_force_stop>>
      /\ ctl' = "idle" /\ clock' = iface.stop_before
  BY DEF AdvanceReturn, timelineVars, eventVars, minVars
<1> QED
  BY <1>1, <1>2 DEF SyncInv, Between, EpochComplete, TypeOK

\* window_barrier opens for the start of an epoch or for its end, never for a mix.
LEMMA SyncWindowRelease == TypeOK /\ SyncInv /\ WindowRelease => SyncInv'
<1> SUFFICES ASSUME TypeOK, SyncInv, WindowRelease
             PROVE  SyncInv'
  OBVIOUS
<1>1. UNCHANGED <<time, stop_before, epoch_end, events, window_list, bottom_min, clock, iface,
                  user_force_stop>>
  BY DEF WindowRelease, timelineVars, eventVars, minVars
<1>2. PICK s \in Timelines : pc[s] \in {"window1", "window2"}
  BY RouteAssumption DEF WindowRelease
<1>3. CASE Between
  <2>1. ctl = "window1" /\ ctl' = "window2" /\ \A t \in Timelines : pc'[t] = "epoch"
    BY <1>3 DEF Between, WindowRelease
  <2>2. \A t \in Timelines : time[t] < iface.stop_before
    BY <1>3, <2>1 DEF Between, TypeOK
  <2>3. Gathering'
    BY <1>1, <1>3, <2>1, <2>2, Zenon DEF Between, Gathering
  <2> QED
    BY <1>1, <2>3 DEF SyncInv
<1>4. CASE Executing
  <2>1. ctl = "window2" /\ \A t \in Timelines : pc[t] = "window2"
    BY <1>4, Zenon DEF Executing, WindowRelease
  <2>2. ctl' = "return" /\ \A t \in Timelines : pc'[t] = "loop"
    BY <2>1 DEF WindowRelease
  <2>3. Edge = iface.stop_before /\ Edge \in Int
    BY <1>4, <1>2, <2>1 DEF Executing, TypeOK
  <2>4. \A t \in Timelines :
          /\ stop_before[t] = Edge /\ epoch_end[t] = Edge /\ time[t] = Edge - 1
          /\ \A e \in events[t] \cup window_list[t] : e.time >= Edge
    BY <1>4, <2>1, <2>3, Zenon DEF Executing
  <2>5. bottom_min <= 0 \/ bottom_min >= Edge
    BY <2>3 DEF Edge, Smaller, TypeOK
  <2>6. \A t \in Timelines : \A e \in events[t] \cup window_list[t] : e.time >= time[t]
    BY <2>4, <2>3 DEF TypeOK, Event
  <2>7. EpochComplete'
    BY <1>1, <2>3, <2>4, Zenon DEF EpochComplete
  <2>8. Between'
    BY <1>1, <2>2, <2>3, <2>4, <2>5, <2>6, <2>7, SMTT(30) DEF Between, TypeOK
  <2> QED
    BY <1>1, <2>8, Zenon DEF SyncInv
<1>5. ~Gathering /\ ~Leaving
  BY <1>2, SMTT(30) DEF Gathering, Leaving
<1> QED
  BY <1>3, <1>4, <1>5 DEF SyncInv

\* bottom_barrier opens: the edge lies beyond every clock.
LEMMA SyncBottomRelease == TypeOK /\ SyncInv /\ BottomRelease => SyncInv'
<1> SUFFICES ASSUME TypeOK, SyncInv, BottomRelease
             PROVE  SyncInv'
  OBVIOUS
<1>1. UNCHANGED <<time, stop_before, epoch_end, events, window_list, bottom_min, ctl, iface,
                  user_force_stop>>
  BY DEF BottomRelease, timelineVars, eventVars, minVars, ctlVars
<1>2. Gathering /\ \A t \in Timelines : pc[t] = "bottom"
  BY RouteAssumption, Zenon DEF BottomRelease, SyncInv, Executing, Between, Leaving
<1>3. \A t \in Timelines : pc'[t] \in {"edge", "serial"}
  BY DEF BottomRelease
<1>4. \A t \in Timelines : time[t] < Edge
  BY <1>2 DEF Gathering, Edge, Smaller, TypeOK
<1>5. Edge' = Edge
  BY <1>1 DEF Edge
<1>6. \A t \in Timelines :
        /\ epoch_end[t] = iface.stop_before
        /\ window_list[t] = {}
        /\ \A e \in events[t] : e.time >= time[t]
  BY <1>2 DEF Gathering
<1>7. Executing'
  BY <1>1, <1>2, <1>3, <1>4, <1>5, <1>6, Zenon DEF Gathering, Executing
<1> QED
  BY <1>1, <1>7 DEF SyncInv

\* top_barrier opens: all the clocks stand just before the edge.
LEMMA SyncTopRelease == TypeOK /\ SyncInv /\ TopRelease => SyncInv'
<1> SUFFICES ASSUME TypeOK, SyncInv, TopRelease
             PROVE  SyncInv'
  OBVIOUS
<1>1. UNCHANGED <<time, stop_before, epoch_end, events, window_list, bottom_min, ctl, iface,
                  user_force_stop>>
  BY DEF TopRelease, timelineVars, eventVars, minVars, ctlVars
<1>2. Executing /\ \A t \in Timelines : pc[t] = "top"
  BY RouteAssumption, Zenon DEF TopRelease, SyncInv, Gathering, Between, Leaving
<1>3. \A t \in Timelines : pc'[t] = "loop"
  BY DEF TopRelease
<1>4. Edge \in Int /\ (bottom_min <= 0 \/ bottom_min >= Edge)
  BY DEF Edge, Smaller, TypeOK
<1>5. \A t \in Timelines :
        /\ time[t] = Edge - 1 /\ Edge < iface.stop_before
        /\ stop_before[t] = Edge /\ epoch_end[t] = iface.stop_before
        /\ \A e \in events[t] \cup window_list[t] : e.time >= Edge
  BY <1>2 DEF Executing
<1>6. \A t \in Timelines : \A e \in events[t] \cup window_list[t] : e.time >= time[t]
  BY <1>4, <1>5 DEF TypeOK, Event
<1>7. \A t \in Timelines : ~Leaves(t)'
  BY <1>1, <1>4, <1>5, SMTT(30) DEF Leaves, TypeOK
<1>8. Gathering'
  BY <1>1, <1>2, <1>3, <1>4, <1>5, <1>6, <1>7, SMTT(30) DEF Gathering, Executing, TypeOK
<1> QED
  BY <1>1, <1>8, Zenon DEF SyncInv

\* A Timeline starts the epoch, or all of them leave for good.
LEMMA SyncStartEpoch ==
  ASSUME NEW t \in Timelines
  PROVE  TypeOK /\ SyncInv /\ StartEpoch(t) => SyncInv'
<1> SUFFICES ASSUME TypeOK, SyncInv, StartEpoch(t)
             PROVE  SyncInv'
  BY Zenon
<1>1. UNCHANGED <<time, stop_before, events, window_list, bottom_min, ctl, iface,
                  user_force_stop>>
  BY DEF StartEpoch, eventVars, minVars, ctlVars
<1>2. /\ pc[t] = "epoch" /\ epoch_end' = [epoch_end EXCEPT ![t] = iface.stop_before]
      /\ pc' = [pc EXCEPT ![t] = IF Leaves(t) THEN "exited" ELSE "collect"]
  BY DEF StartEpoch, Goto, Leaves
<1>3. Gathering \/ Leaving
  BY <1>2, Zenon DEF SyncInv, Executing, Between
<1>4. \A u \in Timelines : Leaves(u)' <=> Leaves(u)
  BY <1>1 DEF Leaves
<1>5. CASE Gathering /\ ~Leaves(t)
  <2>1. Gathering'
    BY <1>1, <1>2, <1>4, <1>5, SMTT(30) DEF Gathering, TypeOK
  <2> QED
    BY <1>1, <2>1 DEF SyncInv
<1>6. CASE Gathering /\ Leaves(t)
  <2>1. \A u \in Timelines : Leaves(u)
    BY <1>6, SMTT(30) DEF Gathering, Leaves
  <2>2. \A u \in Timelines : pc[u] = "epoch"
    BY <1>6, <2>1, Zenon DEF Gathering
  <2>3. Leaving'
    BY <1>1, <1>2, <1>4, <1>6, <2>1, <2>2, ZenonT(60) DEF Gathering, Leaving, TypeOK
  <2> QED
    BY <1>1, <2>3, Zenon DEF SyncInv
<1>7. CASE Leaving
  <2>1. Leaving'
    BY <1>1, <1>2, <1>4, <1>7 DEF Leaving, TypeOK
  <2> QED
    BY <1>1, <2>1, SMTT(30) DEF SyncInv
<1> QED
  BY <1>3, <1>5, <1>6, <1>7, SMTT(30)

\* Taking over __window_list.
LEMMA SyncCollect ==
  ASSUME NEW t \in Timelines
  PROVE  TypeOK /\ SyncInv /\ Collect(t) => SyncInv'
<1> SUFFICES ASSUME TypeOK, SyncInv, Collect(t)
             PROVE  SyncInv'
  OBVIOUS
<1>1. UNCHANGED <<time, stop_before, epoch_end, bottom_min, ctl, iface, user_force_stop>>
  BY DEF Collect, timelineVars, minVars, ctlVars
<1>2. /\ pc[t] = "collect" /\ pc' = [pc EXCEPT ![t] = "offer"]
      /\ events' = [events EXCEPT ![t] = @ \cup window_list[t]]
      /\ window_list' = [window_list EXCEPT ![t] = {}]
  BY DEF Collect, Goto
<1>3. Gathering
  BY <1>2, Zenon DEF SyncInv, Executing, Between, Leaving
<1>4. \A u \in Timelines : Leaves(u)' <=> Leaves(u)
  BY <1>1 DEF Leaves
<1>5. \A u \in Timelines : /\ events'[u] \cup window_list'[u] = events[u] \cup window_list[u]
                           /\ window_list'[u] = {} \/ window_list'[u] = window_list[u]
  BY <1>2, Zenon DEF TypeOK
<1>6. Gathering'
  BY <1>1, <1>2, <1>3, <1>4, <1>5, SMTT(30) DEF Gathering, TypeOK
<1> QED
  BY <1>1, <1>6, Zenon DEF SyncInv

\* Offering to the min-reduction; a lone Timeline goes straight on to execute.
LEMMA SyncOffer ==
  ASSUME NEW t \in Timelines
  PROVE  TypeOK /\ SyncInv /\ Offer(t) => SyncInv'
<1> SUFFICES ASSUME TypeOK, SyncInv, Offer(t)
             PROVE  SyncInv'
  BY Zenon
<1>1. UNCHANGED <<time, epoch_end, events, window_list, ctl, iface, user_force_stop>>
  BY DEF Offer, eventVars, ctlVars
<1>2. Gathering /\ pc[t] = "offer"
  BY Zenon DEF Offer, Goto, SyncInv, Executing, Between, Leaving
<1>3. \A u \in Timelines : Leaves(u)' <=> Leaves(u)
  BY <1>1 DEF Leaves
<1>4. Cardinality(Timelines) \in Nat /\ Cardinality(Timelines) # 0
  BY RouteAssumption, FS_CardinalityType, FS_EmptySet, Zenon
<1>5. CASE Cardinality(Timelines) > 1
  <2>1. UNCHANGED stop_before /\ pc' = [pc EXCEPT ![t] = "bottom"]
    BY <1>5, Zenon DEF Offer, Goto
  <2>2. \A u \in Timelines : bottom_min' <= 0 \/ bottom_min' > time[u]
    <3>1. Offered(t) \in Int /\ (Offered(t) > 0 => Offered(t) > time[t])
      BY OfferBeyondClock
    <3>2. bottom_min' = bottom_min \/ (Offered(t) > 0 /\ bottom_min' = Offered(t))
      BY <1>5 DEF Offer, Reduced
    <3> QED
      BY <1>2, <3>1, <3>2, Zenon DEF Gathering
  <2>3. Gathering'
    BY <1>1, <1>2, <1>3, <2>1, <2>2, SMTT(30) DEF Gathering, TypeOK
  <2> QED
    BY <1>1, <1>5, <2>3 DEF SyncInv
<1>6. CASE Cardinality(Timelines) = 1
  <2>1. /\ UNCHANGED bottom_min /\ pc' = [pc EXCEPT ![t] = "run"]
        /\ stop_before' = [stop_before EXCEPT ![t] = epoch_end[t]]
    BY <1>6, SMTT(30) DEF Offer, Goto
  <2>2. \A u \in Timelines : u = t
    BY <1>6, RouteAssumption, FS_Singleton
  <2>3. Edge' = iface.stop_before
    BY <1>1, <1>6, <2>1, SMTT(30) DEF SyncInv, Edge
  <2>4. Executing'
    BY <1>1, <1>2, <2>1, <2>2, <2>3, SMTT(30) DEF Gathering, Executing, TypeOK
  <2> QED
    BY <1>1, <2>1, <2>4, SMTT(30) DEF SyncInv
<1> QED
  BY <1>4, <1>5, <1>6, SMTT(30)

\* Reading the minimum: every thread computes the same edge.
LEMMA SyncReadEdge ==
  ASSUME NEW t \in Timelines
  PROVE  TypeOK /\ SyncInv /\ ReadEdge(t) => SyncInv'
<1> SUFFICES ASSUME TypeOK, SyncInv, ReadEdge(t)
             PROVE  SyncInv'
  OBVIOUS
<1>1. UNCHANGED <<time, epoch_end, events, window_list, bottom_min, ctl, iface,
                  user_force_stop>>
  BY Zenon DEF ReadEdge, eventVars, ctlVars
<1>2. pc[t] \in {"edge", "serial"} /\ pc' = [pc EXCEPT ![t] = "run"]
  BY Zenon DEF ReadEdge, Goto
<1>3. Executing
  BY <1>2, Zenon DEF SyncInv, Gathering, Between, Leaving
<1>4. Edge' = Edge
  BY <1>1 DEF Edge
<1>5. epoch_end[t] = iface.stop_before
  BY <1>3, Zenon DEF Executing
<1>6. stop_before' = [stop_before EXCEPT ![t] = Edge]
  BY <1>5, Zenon DEF ReadEdge, Edge
<1>7. Executing'
  BY <1>1, <1>2, <1>3, <1>4, <1>6, SMTT(30) DEF Executing, TypeOK
<1> QED
  BY <1>1, <1>7, SMTT(30) DEF SyncInv

\* What a body writes to other Timelines arrives at or after the horizon.
LEMMA BeyondHorizon ==
  ASSUME NEW t \in Timelines, NEW u \in Timelines \ {t}, NEW num, NEW b, NEW now
  PROVE  \A e \in Activations(t, num, Sent(t, b, now), u) : stop_before[t] <= e.time
BY SMTT(30) DEF Activations, Sent, Deliverable, NewEvent

\* Executing an event: what it creates is not earlier, and what it sends to other
\* Timelines lies beyond the edge.
LEMMA SyncRunBody ==
  ASSUME NEW t \in Timelines
  PROVE  TypeOK /\ SyncInv /\ RunBody(t) => SyncInv' /\ time'[t] >= time[t]
<1> SUFFICES ASSUME TypeOK, SyncInv, RunBody(t)
             PROVE  SyncInv' /\ time'[t] >= time[t]
  BY Zenon
<1>1. PICK e \in events[t], b \in Bodies[t] :
        /\ Selected(t, e)
        /\ time' = [time EXCEPT ![t] = e.time]
        /\ events' = [events EXCEPT ![t] =
             (@ \ {e}) \cup Timeouts(t, evtnum[t], b, e.time)
                       \cup Activations(t, evtnum[t], Sent(t, b, e.time), t)]
        /\ window_list' = [u \in Timelines |->
             IF u = t THEN window_list[u]
             ELSE window_list[u] \cup Activations(t, evtnum[t], Sent(t, b, e.time), u)]
  BY ZenonT(60) DEF RunBody
<1>2. UNCHANGED <<pc, stop_before, epoch_end, bottom_min, ctl, iface, user_force_stop>>
  BY Zenon DEF RunBody, minVars, ctlVars
<1>3. pc[t] = "run" /\ e.time < stop_before[t] /\ \A f \in events[t] : f.time >= e.time
  BY <1>1, Zenon DEF Selected, TypeOK, Event
<1>4. Executing
  BY <1>3, Zenon DEF SyncInv, Gathering, Between, Leaving
<1>5. stop_before[t] = Edge /\ e.time >= time[t] /\ Edge' = Edge
  BY <1>2, <1>3, <1>4, ZenonT(60) DEF Executing, Edge
<1>6. b \in Bodies[t] \cup InitBodies[t] /\ e.time \in Nat /\ evtnum[t] \in Nat
  BY SMTT(30) DEF TypeOK, Event
<1>7. Sent(t, b, e.time) \subseteq Deliveries(b, e.time)
  BY SMTT(30) DEF Sent
<1>8. /\ \A f \in Timeouts(t, evtnum[t], b, e.time) : f.time >= e.time
      /\ \A f \in Activations(t, evtnum[t], Sent(t, b, e.time), t) : f.time >= e.time
  BY <1>6, <1>7, BodyEvents, ZenonT(60)
<1>9. \A f \in events'[t] : f.time >= time'[t]
  BY <1>1, <1>3, <1>8, Zenon DEF TypeOK
<1>10. \A u \in Timelines : \A f \in window_list'[u] : f.time >= Edge
  <2> SUFFICES ASSUME NEW u \in Timelines, NEW f \in window_list'[u]
               PROVE  f.time >= Edge
    BY Zenon
  <2>1. CASE f \in window_list[u]
    BY <1>4, <2>1, Zenon DEF Executing
  <2>2. CASE u # t /\ f \in Activations(t, evtnum[t], Sent(t, b, e.time), u)
    <3>1. Edge <= f.time /\ f \in Event /\ Edge \in Int
      BY <1>5, <1>6, <1>7, <2>2, BeyondHorizon, BodyEvents, SMTT(30) DEF TypeOK
    <3> QED
      BY <3>1, ZenonT(60) DEF Event
  <2> QED
    BY <1>1, <2>1, <2>2, Zenon
<1>11. \A u \in Timelines : u # t => events'[u] = events[u] /\ time'[u] = time[u]
  BY <1>1, SMTT(30) DEF TypeOK
<1>12. time'[t] = e.time
  BY <1>1, ZenonT(60) DEF TypeOK
<1>13. Executing'
  BY <1>2, <1>3, <1>4, <1>5, <1>9, <1>10, <1>11, <1>12, SMTT(30) DEF Executing
<1> QED
  BY <1>2, <1>5, <1>12, <1>13, Zenon DEF SyncInv

\* Executing an activation.
LEMMA SyncActivate ==
  ASSUME NEW t \in Timelines
  PROVE  TypeOK /\ SyncInv /\ Activate(t) => SyncInv' /\ time'[t] >= time[t]
<1> SUFFICES ASSUME TypeOK, SyncInv, Activate(t)
             PROVE  SyncInv' /\ time'[t] >= time[t]
  BY Zenon
<1>1. PICK e \in events[t] :
        /\ Selected(t, e)
        /\ time' = [time EXCEPT ![t] = e.time]
        /\ events' = [events EXCEPT ![t] = (@ \ {e}) \cup {ExecActivate(t, evtnum[t], e)}]
  BY ZenonT(60) DEF Activate
<1>2. UNCHANGED <<pc, stop_before, epoch_end, window_list, bottom_min, ctl, iface,
                  user_force_stop>>
  BY Zenon DEF Activate, minVars, ctlVars
<1>3. pc[t] = "run" /\ e.time < stop_before[t] /\ \A f \in events[t] : f.time >= e.time
  BY <1>1, Zenon DEF Selected, TypeOK, Event
<1>4. Executing
  BY <1>3, Zenon DEF SyncInv, Gathering, Between, Leaving
<1>5. stop_before[t] = Edge /\ e.time >= time[t] /\ Edge' = Edge
  BY <1>2, <1>3, <1>4, Zenon DEF Executing, Edge
<1>6. e.time \in Nat /\ ExecActivate(t, evtnum[t], e).time = e.time
  BY SMTT(30) DEF TypeOK, Event, ExecActivate, NewEvent
<1>7. time'[t] = e.time /\ \A f \in events'[t] : f.time >= e.time
  BY <1>1, <1>3, <1>6, Zenon DEF TypeOK
<1>8. \A u \in Timelines : u # t => events'[u] = events[u] /\ time'[u] = time[u]
  BY <1>1, Zenon DEF TypeOK
<1>9. Executing'
  BY <1>2, <1>3, <1>4, <1>5, <1>7, <1>8, ZenonT(30) DEF Executing
<1> QED
  BY <1>2, <1>5, <1>7, <1>9, SMTT(30) DEF SyncInv

\* The end of sync_window: no event before the edge is left, and the clock stands
\* just before the edge.
LEMMA SyncEndWindow ==
  ASSUME NEW t \in Timelines
  PROVE  TypeOK /\ SyncInv /\ EndWindow(t) => SyncInv' /\ time'[t] >= time[t]
<1> SUFFICES ASSUME TypeOK, SyncInv, EndWindow(t)
             PROVE  SyncInv' /\ time'[t] >= time[t]
  BY Zenon
<1>1. UNCHANGED <<stop_before, epoch_end, events, window_list, bottom_min, ctl, iface,
                  user_force_stop>>
  BY Zenon DEF EndWindow, eventVars, minVars, ctlVars
<1>2. /\ pc[t] = "run" /\ ~user_force_stop
      /\ time' = [time EXCEPT ![t] = stop_before[t] - 1]
      /\ pc' = [pc EXCEPT ![t] = IF stop_before[t] < epoch_end[t] THEN "top" ELSE "window2"]
  BY Zenon DEF EndWindow, Goto, SyncInv
<1>3. Executing
  BY <1>2, Zenon DEF SyncInv, Gathering, Between, Leaving
<1>4. /\ stop_before[t] = Edge /\ epoch_end[t] = iface.stop_before /\ time[t] < Edge
      /\ Edge' = Edge /\ Edge \in Int /\ Edge <= iface.stop_before
  BY <1>1, <1>2, <1>3, SMTT(30) DEF Executing, Edge, Smaller, TypeOK
<1>5. \A e \in events[t] : e.time >= Edge
  <2> SUFFICES ASSUME NEW f \in events[t], f.time < Edge
               PROVE  FALSE
    BY <1>4, SMTT(30) DEF TypeOK, Event
  <2>1. {e.time : e \in events[t]} \subseteq Nat /\ {e.time : e \in events[t]} # {}
    BY SMTT(30) DEF TypeOK, Event
  <2>2. PICK x \in {e.time : e \in events[t]} : \A y \in {e.time : e \in events[t]} : x <= y
    BY <2>1, EarliestExists, ZenonT(60)
  <2>3. PICK e \in events[t] : x = e.time
    BY Zenon
  <2>4. \A g \in events[t] : e.time <= g.time
    BY <2>2, <2>3, Zenon
  <2>5. e.time < stop_before[t]
    BY <1>4, <2>4, SMTT(30) DEF TypeOK, Event
  <2>6. Selected(t, e)
    BY <1>2, <2>4, <2>5, Zenon DEF Selected
  <2> QED
    BY <2>6, Zenon DEF EndWindow
<1>6. time'[t] = Edge - 1 /\ \A u \in Timelines : u # t => time'[u] = time[u]
  BY <1>2, <1>4, Zenon DEF TypeOK
<1>7. \A u \in Timelines : time'[u] < Edge /\ time'[u] \in Int
  BY <1>3, <1>4, <1>6, SMTT(30) DEF Executing, TypeOK
<1>8. \A u \in Timelines : \A e \in events[u] : e.time >= time'[u]
  BY <1>3, <1>4, <1>5, <1>6, SMTT(30) DEF Executing, TypeOK, Event
<1>9. Executing'
  BY <1>1, <1>2, <1>3, <1>4, <1>5, <1>6, <1>7, <1>8, SMTT(30) DEF Executing, TypeOK
<1>10. time'[t] >= time[t]
  BY <1>4, <1>6, SMTT(30) DEF TypeOK
<1> QED
  BY <1>1, <1>9, <1>10, Zenon DEF SyncInv

\* The loop condition agrees with the barrier the thread came through.
LEMMA SyncLoopTest ==
  ASSUME NEW t \in Timelines
  PROVE  TypeOK /\ SyncInv /\ LoopTest(t) => SyncInv'
<1> SUFFICES ASSUME TypeOK, SyncInv, LoopTest(t)
             PROVE  SyncInv'
  BY Zenon
<1>1. UNCHANGED <<time, stop_before, epoch_end, events, window_list, bottom_min, ctl, clock,
                  iface, user_force_stop>>
  BY ZenonT(60) DEF LoopTest, timelineVars, eventVars, minVars, ctlVars
<1>2. /\ pc[t] = "loop"
      /\ pc' = [pc EXCEPT ![t] = IF stop_before[t] < epoch_end[t] THEN "collect" ELSE "window1"]
  BY Zenon DEF LoopTest, Goto, SyncInv
<1>3. Gathering \/ Between
  BY <1>2, ZenonT(60) DEF SyncInv, Executing, Leaving
<1>4. \A u \in Timelines : Leaves(u)' <=> Leaves(u)
  BY <1>1, Zenon DEF Leaves
<1>5. CASE Gathering
  <2>1. pc' = [pc EXCEPT ![t] = "collect"]
    BY <1>2, <1>5, ZenonT(60) DEF Gathering
  <2>2. Gathering'
    BY <1>1, <1>2, <1>4, <1>5, <2>1, SMTT(30) DEF Gathering, TypeOK
  <2> QED
    BY <1>1, <2>2, Zenon DEF SyncInv
<1>6. CASE Between
  <2>1. pc' = [pc EXCEPT ![t] = "window1"]
    <3>1. ~(stop_before[t] < epoch_end[t])
      BY <1>2, <1>6, SMTT(30) DEF Between, TypeOK
    <3> QED
      BY <1>2, <3>1, Zenon
  <2>2. Between'
    BY <1>1, <1>2, <1>6, <2>1, SMTT(30) DEF Between, EpochComplete, TypeOK
  <2> QED
    BY <1>1, <2>2, ZenonT(30) DEF SyncInv
<1> QED
  BY <1>3, <1>5, <1>6, Zenon

\* No step leaves the phases, and no step moves a clock back.
LEMMA SyncStep ==
  TypeOK /\ SyncInv /\ [Next]_vars => SyncInv' /\ \A t \in Timelines : time'[t] >= time[t]
<1> SUFFICES ASSUME TypeOK, SyncInv, [Next]_vars
             PROVE  SyncInv' /\ \A t \in Timelines : time'[t] >= time[t]
  BY SMTT(30)
<1> DEFINE Forward == \A t \in Timelines : time'[t] >= time[t]
<1>a. ASSUME UNCHANGED time PROVE Forward
  BY <1>a DEF TypeOK
<1>1. CASE InitModel
  BY <1>1, <1>a, SyncInitModel, ZenonT(60) DEF InitModel, timelineVars
<1>2. ASSUME NEW na \in NextActions, NEW len \in EpochLengths, Advance(na, len)
      PROVE  SyncInv' /\ Forward
  BY <1>2, <1>a, SyncAdvance, Zenon DEF Advance, timelineVars
<1>3. CASE AdvanceReturn
  BY <1>3, <1>a, SyncAdvanceReturn, Zenon DEF AdvanceReturn, timelineVars
<1>4. CASE WindowRelease
  BY <1>4, <1>a, SyncWindowRelease, Zenon DEF WindowRelease, timelineVars
<1>5. CASE BottomRelease
  BY <1>5, <1>a, SyncBottomRelease, Zenon DEF BottomRelease, timelineVars
<1>6. CASE TopRelease
  BY <1>6, <1>a, SyncTopRelease, Zenon DEF TopRelease, timelineVars
<1>7. ASSUME NEW t \in Timelines, TimelineStep(t)
      PROVE  SyncInv' /\ Forward
  <2>1. CASE StartEpoch(t)
    BY <2>1, <1>a, SyncStartEpoch, ZenonT(60) DEF StartEpoch
  <2>2. CASE Collect(t)
    BY <2>2, <1>a, SyncCollect, ZenonT(60) DEF Collect, timelineVars
  <2>3. CASE Offer(t)
    BY <2>3, <1>a, SyncOffer, Zenon DEF Offer
  <2>4. CASE ReadEdge(t)
    BY <2>4, <1>a, SyncReadEdge, ZenonT(60) DEF ReadEdge
  <2>5. CASE RunBody(t)
    <3>1. \A u \in Timelines : u # t => time'[u] = time[u]
      BY <2>5, ZenonT(60) DEF RunBody, TypeOK
    <3> QED
      BY <2>5, <3>1, SyncRunBody, SMTT(30) DEF TypeOK
  <2>6. CASE Activate(t)
    <3>1. \A u \in Timelines : u # t => time'[u] = time[u]
      BY <2>6, Zenon DEF Activate, TypeOK
    <3> QED
      BY <2>6, <3>1, SyncActivate, SMTT(30) DEF TypeOK
  <2>7. CASE EndWindow(t)
    <3>1. \A u \in Timelines : u # t => time'[u] = time[u]
      BY <2>7, Zenon DEF EndWindow, TypeOK
    <3> QED
      BY <2>7, <3>1, SyncEndWindow, SMTT(30) DEF TypeOK
  <2>8. CASE LoopTest(t)
    BY <2>8, <1>a, SyncLoopTest, Zenon DEF LoopTest, timelineVars
  <2> QED
    BY <1>7, <2>1, <2>2, <2>3, <2>4, <2>5, <2>6, <2>7, <2>8, ZenonT(60) DEF TimelineStep
<1>8. CASE UNCHANGED vars
  <2>1. UNCHANGED <<pc, time, stop_before, epoch_end, events, window_list, bottom_min, ctl,
                    clock, iface, user_force_stop>>
    BY <1>8, Zenon DEF vars, timelineVars, eventVars, minVars, ctlVars
  <2>2. Edge' = Edge /\ \A t \in Timelines : Leaves(t)' = Leaves(t)
    BY <2>1 DEF Edge, Leaves
  <2>3. Gathering' = Gathering
    BY <2>1, <2>2, ZenonT(60) DEF Gathering
  <2>4. Executing' = Executing
    BY <2>1, <2>2, ZenonT(60) DEF Executing
  <2>5. Between' = Between
    BY <2>1, ZenonT(60) DEF Between, EpochComplete
  <2>6. Leaving' = Leaving
    BY <2>1, <2>2, ZenonT(60) DEF Leaving
  <2>7. SyncInv'
    BY <2>1, <2>3, <2>4, <2>5, <2>6, <1>a, Zenon DEF SyncInv
  <2> QED
    BY <2>1, <2>7, <1>a, Zenon
<1> QED
  BY <1>1, <1>2, <1>3, <1>4, <1>5, <1>6, <1>7, <1>8, SMTT(30) DEF Next, Control, Barriers, Finished

\* The phases are an invariant of the kernel, for any model and any epochs.
THEOREM PhasesHold == Spec => [](TypeOK /\ SyncInv)
<1>1. Init => TypeOK /\ SyncInv
  BY TypeInit, SyncInit, SMTT(30)
<1>2. TypeOK /\ SyncInv /\ [Next]_vars => (TypeOK /\ SyncInv)'
  BY TypeStep, SyncStep, SMTT(30)
<1> QED
  BY <1>1, <1>2, PTL DEF Spec

\* get_cross_timeline_events may read __window_list without its mutex.
THEOREM WindowListSafe == Spec => []WindowListIsolated
<1>1. SyncInv => WindowListIsolated
  BY ZenonT(60) DEF SyncInv, Gathering, Executing, Between, Leaving, WindowListIsolated
<1> QED
  BY <1>1, PhasesHold, PTL

\* The Timelines that execute a window agree on its upper edge.
THEOREM WindowsAgree == Spec => []SameWindow
<1>1. SyncInv => SameWindow
  BY Zenon DEF SyncInv, Gathering, Executing, Between, Leaving, SameWindow
<1> QED
  BY <1>1, PhasesHold, PTL

\* No event is ever in the past of the Timeline that has to execute it.
THEOREM CausalityHolds == Spec => []NoStraggler
<1>1. ASSUME TypeOK, SyncInv
      PROVE  NoStraggler
  <2>1. CASE Executing
    <3>1. Edge \in Int
      BY <1>1, SMTT(30) DEF Edge, Smaller, TypeOK
    <3> QED
      BY <1>1, <2>1, <3>1, SMTT(30) DEF Executing, NoStraggler, TypeOK, Event
  <2> QED
    BY <1>1, <2>1, ZenonT(60) DEF SyncInv, Gathering, Between, Leaving, NoStraggler
<1> QED
  BY <1>1, PhasesHold, PTL

\* When advance_body gets out of its second barrier the epoch has been executed.
THEOREM EpochsComplete == Spec => []EpochComplete
<1>1. SyncInv => EpochComplete
  BY Zenon DEF SyncInv, Gathering, Executing, Between, Leaving, EpochComplete
<1> QED
  BY <1>1, PhasesHold, PTL

\* Simulated time is monotone on every Timeline.
THEOREM ClocksMonotone == Spec => ClockNeverBack
<1>1. TypeOK /\ SyncInv /\ [Next]_vars => [\A t \in Timelines : time'[t] >= time[t]]_time
  BY SyncStep, Zenon
<1> QED
  BY <1>1, PhasesHold, PTL DEF Spec, ClockNeverBack
=============================================================================
