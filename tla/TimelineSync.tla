---------------------------- MODULE TimelineSync ----------------------------
(***************************************************************************)
(* The conservative synchronization kernel of S3F (api/timeline.cc,        *)
(* api/interface.cc, api/outchannel.cc), built with PTHREAD_BARRIER and    *)
(* without COMPOSITE_SYNC, the configuration s3f.h selects on Linux.       *)
(*                                                                         *)
(* One thread per Timeline and one control thread.  The control thread     *)
(* publishes an epoch in the TimelineInterface and meets the Timelines at  *)
(* window_barrier, once to release them and once to wait for them.  Inside *)
(* an epoch the Timelines repeat synchronization windows: take over the    *)
(* events other Timelines wrote, offer a bound to a min-reduction, meet at *)
(* bottom_barrier, execute every event below the minimum, meet at          *)
(* top_barrier.                                                            *)
(*                                                                         *)
(* The simulated model (SimModel) is a parameter.                          *)
(***************************************************************************)
EXTENDS SimModel

CONSTANTS
  InitHorizons,  \* values the uninitialised __stop_before may hold before the run
  EpochLengths,  \* arguments t of Interface::advance
  NextActions,   \* ways advance is called
  MaxEpochs      \* bound: calls of advance in one run

ASSUME EpochAssumption ==
  /\ InitHorizons \subseteq Int /\ InitHorizons # {}
  /\ EpochLengths \subseteq Nat \ {0}
  /\ NextActions \subseteq {"STOP_BEFORE_TIME", "STOP_FUNCTION"}
  /\ MaxEpochs \in Nat

VARIABLES
  (* Timeline *)
  pc,            \* where each Timeline thread is
  time,          \* __time
  stop_before,   \* __stop_before, also the horizon() of OutChannel::write
  epoch_end,     \* the local epoch_end
  offered,       \* whether the thread offered a value in this window
  events,        \* __events
  window_list,   \* __window_list, filled by other Timelines
  evtnum,        \* __evtnum: Events created by the Timeline
  executed,      \* __executed: events it has executed
  (* statics of Timeline *)
  bottom_min,    \* bottom_barrier_min_value
  prev_min,      \* prev_bottom_barrier_min_value
  (* Interface and TimelineInterface *)
  ctl,           \* where the control thread is
  clock,         \* Interface::__clock
  iface,         \* TimelineInterface: [stop_before, next_action]
  epochs,        \* calls of advance so far
  user_force_stop,
  (* history *)
  undelivered    \* mappings on which a write with no negative delay was refused

timelineVars == <<time, stop_before, epoch_end, offered>>
eventVars    == <<events, window_list, evtnum, executed, undelivered>>
minVars      == <<bottom_min, prev_min>>
ctlVars      == <<ctl, clock, iface, epochs>>
vars == <<pc, timelineVars, eventVars, minVars, ctlVars, user_force_stop>>

Locations == {"window1", "epoch", "collect", "offer", "bottom", "edge", "serial",
              "run", "top", "window2", "loop", "exited"}
CtlLocations == {"build", "idle", "window1", "window2", "return"}

Larger(a, b) == IF a > b THEN a ELSE b
Smaller(a, b) == IF a < b THEN a ELSE b
-----------------------------------------------------------------------------
(* Delays and event lists.                                                 *)

\* Timeline::min_sync_cross_timeline_delay(0): -1 without a crossing mapping.
CrossDelays(t) == {Route[m].delay : m \in {n \in Maps : Route[n].src = t /\ Route[n].dst # t}}
min_sync_cross_timeline_delay(t) ==
  IF CrossDelays(t) = {} THEN -1 ELSE Min(CrossDelays(t))

\* Timeline::next_time: the earliest pending timestamp, -1 if there is none.
next_time(t) == IF events[t] = {} THEN -1 ELSE Min({e.time : e \in events[t]})

\* OutChannel::write makes a delivery on the same Timeline, or at the horizon and
\* beyond it; any other is refused.
Deliverable(t, d) == Route[d.via].dst = t \/ stop_before[t] <= d.at

Sent(t, b, now) == {d \in Deliveries(b, now) : Deliverable(t, d)}

Refused(t, b, now) ==
  {d.via : d \in {x \in Deliveries(b, now) : ~Deliverable(t, x) /\ x.delay >= 0}}

Created(t, b, now) == Cardinality(b.timers) + Cardinality(Sent(t, b, now))
-----------------------------------------------------------------------------
Init ==
  /\ pc = [t \in Timelines |-> "window1"]
  /\ time = [t \in Timelines |-> 0]
  /\ stop_before \in [Timelines -> InitHorizons]
  /\ epoch_end = [t \in Timelines |-> 0]
  /\ offered = [t \in Timelines |-> FALSE]
  /\ events = [t \in Timelines |-> {}]
  /\ window_list = [t \in Timelines |-> {}]
  /\ evtnum = [t \in Timelines |-> 0]
  /\ executed = [t \in Timelines |-> 0]
  /\ bottom_min = -1 /\ prev_min = -1
  /\ ctl = "build" /\ clock = 0 /\ epochs = 0
  /\ iface = [stop_before |-> 0, next_action |-> "STOP_BEFORE_TIME"]
  /\ user_force_stop = FALSE
  /\ undelivered = {}

(* The control thread.                                                     *)

\* Interface::InitModel: every entity's init() runs, before any window.
InitModel ==
  /\ ctl = "build"
  /\ \E ib \in [Timelines -> UNION {InitBodies[t] : t \in Timelines}] :
       /\ \A t \in Timelines : ib[t] \in InitBodies[t]
       /\ events' = [t \in Timelines |->
            events[t] \cup Timeouts(t, evtnum[t], ib[t], 0) \cup Activations(t, evtnum[t], Sent(t, ib[t], 0), t)]
       /\ window_list' = [t \in Timelines |->
            window_list[t] \cup UNION {Activations(u, evtnum[u], Sent(u, ib[u], 0), t) :
                                      u \in Timelines \ {t}}]
       /\ evtnum' = [t \in Timelines |-> evtnum[t] + Created(t, ib[t], 0)]
  /\ ctl' = "idle"
  /\ UNCHANGED <<pc, timelineVars, executed, undelivered, minVars, clock, iface,
                 epochs, user_force_stop>>

\* Interface::advance_body up to the first window_barrier.
Advance(na, len) ==
  /\ ctl = "idle" /\ epochs < MaxEpochs
  /\ iface' = [stop_before |-> clock + len, next_action |-> na]
  /\ epochs' = epochs + 1
  /\ ctl' = "window1"
  /\ UNCHANGED <<pc, timelineVars, eventVars, minVars, clock, user_force_stop>>

\* The end of advance_body, after the second window_barrier.
AdvanceReturn ==
  /\ ctl = "return"
  /\ clock' = iface.stop_before
  /\ ctl' = "idle"
  /\ UNCHANGED <<pc, timelineVars, eventVars, minVars, iface, epochs, user_force_stop>>

(* The barriers: the last arrival releases everyone.                       *)

\* window_barrier has no memory of which call brought a thread there: it opens
\* when every Timeline and the control thread wait at one of its call sites.
WindowRelease ==
  /\ \A t \in Timelines : pc[t] \in {"window1", "window2"}
  /\ ctl \in {"window1", "window2"}
  /\ pc' = [t \in Timelines |-> IF pc[t] = "window1" THEN "epoch" ELSE "loop"]
  /\ ctl' = IF ctl = "window1" THEN "window2" ELSE "return"
  /\ UNCHANGED <<timelineVars, eventVars, minVars, clock, iface, epochs, user_force_stop>>

\* POSIX leaves open which thread gets PTHREAD_BARRIER_SERIAL_THREAD (-1).
BottomRelease ==
  /\ \A t \in Timelines : pc[t] = "bottom"
  /\ \E s \in Timelines : pc' = [t \in Timelines |-> IF t = s THEN "serial" ELSE "edge"]
  /\ UNCHANGED <<timelineVars, eventVars, minVars, ctlVars, user_force_stop>>

\* Faulty variant: a thread does not wait for the others at top_barrier.
TopReleaseAlone ==
  /\ \E t \in Timelines : pc[t] = "top" /\ pc' = [pc EXCEPT ![t] = "loop"]
  /\ UNCHANGED <<timelineVars, eventVars, minVars, ctlVars, user_force_stop>>

TopRelease ==
  /\ \A t \in Timelines : pc[t] = "top"
  /\ pc' = [t \in Timelines |-> "loop"]
  /\ UNCHANGED <<timelineVars, eventVars, minVars, ctlVars, user_force_stop>>

(* A Timeline thread.                                                      *)

Goto(t, from, to) == pc[t] = from /\ pc' = [pc EXCEPT ![t] = to]

\* thread_function after window_barrier: read the epoch, or leave for good.
StartEpoch(t) ==
  /\ epoch_end' = [epoch_end EXCEPT ![t] = iface.stop_before]
  /\ IF iface.next_action = "STOP_BEFORE_TIME" /\ iface.stop_before <= time[t] + 1
     THEN Goto(t, "epoch", "exited")
     ELSE Goto(t, "epoch", "collect")
  /\ UNCHANGED <<time, stop_before, offered, eventVars, minVars, ctlVars, user_force_stop>>

\* Faulty variant: __window_list is not cleared once taken over.
CollectKeep(t) ==
  /\ Goto(t, "collect", "offer")
  /\ events' = [events EXCEPT ![t] = @ \cup window_list[t]]
  /\ UNCHANGED <<timelineVars, window_list, evtnum, executed, undelivered, minVars, ctlVars,
                 user_force_stop>>

\* get_cross_timeline_events
Collect(t) ==
  /\ Goto(t, "collect", "offer")
  /\ events' = [events EXCEPT ![t] = @ \cup window_list[t]]
  /\ window_list' = [window_list EXCEPT ![t] = {}]
  /\ UNCHANGED <<timelineVars, evtnum, executed, undelivered, minVars, ctlVars,
                 user_force_stop>>

\* Faulty variant: one tick more than the lookahead allows.
OfferedWide(t) ==
  IF next_time(t) < 0 \/ min_sync_cross_timeline_delay(t) < 0 THEN -1
  ELSE Larger(time[t], next_time(t)) + min_sync_cross_timeline_delay(t) + 1

\* Faulty variant: the lookahead is forgotten.
OfferedNarrow(t) == Larger(time[t], next_time(t))

\* What the thread offers to the min-reduction, -1 if nothing: __window_size is 0.
Offered(t) ==
  LET nxt == next_time(t)
      delay == min_sync_cross_timeline_delay(t)
      from == Larger(time[t], nxt)
  IN IF nxt < 0 \/ delay < 0
     THEN IF from > time[t] THEN from ELSE -1
     ELSE from + Larger(0, delay)

\* The min-reduction step under bottom_barrier_min_value_mutex: a value equal to
\* the previous window's minimum stands for "no offer yet".
Reduced(v) == IF bottom_min = prev_min \/ bottom_min > v THEN v ELSE bottom_min

\* sim_global_scheduler_one_epoch up to its wait at bottom_barrier; a lone
\* Timeline has no barrier to meet and no minimum to read.
Offer(t) ==
  /\ IF Cardinality(Timelines) > 1
     THEN /\ Goto(t, "offer", "bottom")
          /\ offered' = [offered EXCEPT ![t] = Offered(t) > 0]
          /\ bottom_min' = IF Offered(t) > 0 THEN Reduced(Offered(t)) ELSE bottom_min
          /\ UNCHANGED stop_before
     ELSE /\ Goto(t, "offer", "run")
          /\ stop_before' = [stop_before EXCEPT ![t] = epoch_end[t]]
          /\ UNCHANGED <<offered, bottom_min>>
  /\ UNCHANGED <<time, epoch_end, eventVars, prev_min, ctlVars, user_force_stop>>

\* Faulty variant: a thread that offered nothing takes the epoch's end as its edge.
ReadEdgeAlone(t) ==
  /\ Goto(t, "edge", "run") \/ Goto(t, "serial", "run")
  /\ prev_min' = IF pc[t] = "serial" /\ offered[t] THEN bottom_min ELSE prev_min
  /\ stop_before' = [stop_before EXCEPT ![t] =
       IF ~offered[t] THEN epoch_end[t] ELSE Smaller(bottom_min, epoch_end[t])]
  /\ UNCHANGED <<time, epoch_end, offered, eventVars, bottom_min, ctlVars, user_force_stop>>

\* After bottom_barrier: the serial thread, if it offered, remembers the minimum;
\* every thread reads it as the upper edge of its window, cut at the epoch's end.
ReadEdge(t) ==
  /\ Goto(t, "edge", "run") \/ Goto(t, "serial", "run")
  /\ prev_min' = IF pc[t] = "serial" /\ offered[t] THEN bottom_min ELSE prev_min
  /\ stop_before' = [stop_before EXCEPT ![t] =
       IF bottom_min <= 0 THEN epoch_end[t] ELSE Smaller(bottom_min, epoch_end[t])]
  /\ UNCHANGED <<time, epoch_end, offered, eventVars, bottom_min, ctlVars,
                 user_force_stop>>

\* Faulty variant: the event list is not ordered by time.
SelectedAny(t, e) ==
  /\ pc[t] = "run" /\ ~user_force_stop
  /\ e \in events[t] /\ e.time < stop_before[t]

\* Faulty variant: the event at the window's upper edge is executed too.
SelectedEdge(t, e) ==
  /\ pc[t] = "run" /\ ~user_force_stop
  /\ e \in events[t] /\ e.time <= stop_before[t]
  /\ \A f \in events[t] : e.time <= f.time

\* Faulty variant: the last tick before the upper edge is left out.
SelectedShort(t, e) ==
  /\ pc[t] = "run" /\ ~user_force_stop
  /\ e \in events[t] /\ e.time < stop_before[t] - 1
  /\ \A f \in events[t] : e.time <= f.time

\* The event sync_window pops: an earliest one, before the window's upper edge.
Selected(t, e) ==
  /\ pc[t] = "run" /\ ~user_force_stop
  /\ e \in events[t] /\ e.time < stop_before[t]
  /\ \A f \in events[t] : e.time <= f.time

\* sync_window, EVTYPE_TIMEOUT and EVTYPE_EXEC_ACTIVATE: run a process body.
RunBody(t) ==
  /\ \E e \in events[t] : \E b \in Bodies[t] :
       /\ Selected(t, e) /\ e.type = b.on
       /\ time' = [time EXCEPT ![t] = e.time]
       /\ events' = [events EXCEPT ![t] =
            (@ \ {e}) \cup Timeouts(t, evtnum[t], b, e.time)
                      \cup Activations(t, evtnum[t], Sent(t, b, e.time), t)]
       /\ window_list' = [u \in Timelines |->
            IF u = t THEN window_list[u]
            ELSE window_list[u] \cup Activations(t, evtnum[t], Sent(t, b, e.time), u)]
       /\ evtnum' = [evtnum EXCEPT ![t] = @ + Created(t, b, e.time)]
       /\ undelivered' = undelivered \cup Refused(t, b, e.time)
  /\ executed' = [executed EXCEPT ![t] = @ + 1]
  /\ UNCHANGED <<pc, stop_before, epoch_end, offered, minVars, ctlVars, user_force_stop>>

\* sync_window, EVTYPE_ACTIVATE.
Activate(t) ==
  /\ \E e \in events[t] :
       /\ Selected(t, e) /\ e.type = "ACTIVATE"
       /\ time' = [time EXCEPT ![t] = e.time]
       /\ events' = [events EXCEPT ![t] =
            (@ \ {e}) \cup {ExecActivate(t, evtnum[t], e)}]
  /\ evtnum' = [evtnum EXCEPT ![t] = @ + 1]
  /\ executed' = [executed EXCEPT ![t] = @ + 1]
  /\ UNCHANGED <<pc, stop_before, epoch_end, offered, window_list, undelivered, minVars,
                 ctlVars, user_force_stop>>

\* Faulty variant: the clock is set one tick too early.
EndWindowEarly(t) ==
  /\ pc[t] = "run"
  /\ ~ \E e \in events[t] : Selected(t, e)
  /\ time' = [time EXCEPT ![t] = stop_before[t] - 2]
  /\ IF stop_before[t] < epoch_end[t] THEN Goto(t, "run", "top") ELSE Goto(t, "run", "window2")
  /\ UNCHANGED <<stop_before, epoch_end, offered, eventVars, minVars, ctlVars,
                 user_force_stop>>

\* The end of sync_window, and the choice of the barrier to join after it.
EndWindow(t) ==
  /\ pc[t] = "run"
  /\ ~ \E e \in events[t] : Selected(t, e)
  /\ time' = [time EXCEPT ![t] = stop_before[t] - 1]
  /\ IF stop_before[t] < epoch_end[t] /\ ~user_force_stop
     THEN Goto(t, "run", "top")
     ELSE Goto(t, "run", "window2")
  /\ UNCHANGED <<stop_before, epoch_end, offered, eventVars, minVars, ctlVars,
                 user_force_stop>>

\* The loop condition of sim_global_scheduler_one_epoch.
LoopTest(t) ==
  /\ IF stop_before[t] < epoch_end[t] /\ ~user_force_stop
     THEN Goto(t, "loop", "collect")
     ELSE Goto(t, "loop", "window1")
  /\ UNCHANGED <<timelineVars, eventVars, minVars, ctlVars, user_force_stop>>

TimelineStep(t) ==
  \/ StartEpoch(t) \/ Collect(t) \/ Offer(t) \/ ReadEdge(t)
  \/ RunBody(t) \/ Activate(t) \/ EndWindow(t) \/ LoopTest(t)

\* The program ends when the control thread has made its last call.
Finished ==
  /\ ctl = "idle" /\ epochs = MaxEpochs
  /\ UNCHANGED vars

Barriers == WindowRelease \/ BottomRelease \/ TopRelease

Control ==
  \/ InitModel
  \/ \E na \in NextActions, len \in EpochLengths : Advance(na, len)
  \/ AdvanceReturn

Next == Control \/ Barriers \/ (\E t \in Timelines : TimelineStep(t)) \/ Finished

Spec == Init /\ [][Next]_vars

\* Every thread keeps running and a barrier that can open does.
Fairness ==
  /\ WF_vars(InitModel) /\ WF_vars(AdvanceReturn) /\ WF_vars(Barriers)
  /\ \A t \in Timelines : WF_vars(TimelineStep(t))

FairSpec == Spec /\ Fairness

\* The SIGINT handler of s3fnet (sigproc), at any moment of the run.
ForceStop ==
  /\ ~user_force_stop /\ ctl # "build"
  /\ user_force_stop' = TRUE
  /\ UNCHANGED <<pc, timelineVars, eventVars, minVars, ctlVars>>

InterruptSpec == Init /\ [][Next \/ ForceStop]_vars /\ Fairness
-----------------------------------------------------------------------------
(* Properties.                                                             *)

\* The types of the state of Timeline, TimelineInterface and Interface.
TypeOK ==
  /\ pc \in [Timelines -> Locations]
  /\ time \in [Timelines -> Int]
  /\ stop_before \in [Timelines -> Int]
  /\ epoch_end \in [Timelines -> Nat]
  /\ offered \in [Timelines -> BOOLEAN]
  /\ events \in [Timelines -> SUBSET Event]
  /\ window_list \in [Timelines -> SUBSET Event]
  /\ evtnum \in [Timelines -> Nat]
  /\ executed \in [Timelines -> Nat]
  /\ bottom_min \in Int /\ prev_min \in Int
  /\ ctl \in CtlLocations /\ clock \in Nat /\ epochs \in Nat
  /\ iface \in [stop_before : Nat, next_action : {"STOP_BEFORE_TIME", "STOP_FUNCTION"}]
  /\ user_force_stop \in BOOLEAN
  /\ undelivered \subseteq Maps

\* get_cross_timeline_events reads __window_list without its mutex ("isolated by
\* barrier synchronizations from any writes into it"): while a Timeline is about to
\* read its list no other Timeline executes events, which could write into it.
WindowListIsolated ==
  \A t, u \in Timelines : pc[t] = "collect" /\ pc[u] = "run" => t = u

\* bottom_barrier_min_value is read outside its mutex after bottom_barrier: all the
\* Timelines executing a window nevertheless have the same upper edge.
SameWindow ==
  \A t, u \in Timelines :
    pc[t] \in {"run", "top"} /\ pc[u] \in {"run", "top"} => stop_before[t] = stop_before[u]

\* No Timeline ever has an event to execute in its past, whichever Timeline wrote
\* it and whenever it is taken over (the "Strange" case of select_next_event).
NoStraggler ==
  \A t \in Timelines : \A e \in events[t] \cup window_list[t] : e.time >= time[t]

\* When the control thread gets out of the second window_barrier of advance_body
\* every Timeline stands at the end of the epoch and owes no event before it.
EpochComplete ==
  ctl = "return" => \A t \in Timelines :
    /\ time[t] = iface.stop_before - 1
    /\ \A e \in events[t] \cup window_list[t] : e.time >= iface.stop_before

\* Sums over the Timelines, and the sizes of their lists.
Total(f) == MapThenSumSet(LAMBDA t : f[t], Timelines)
Sizes(lists) == [t \in Timelines |-> Cardinality(lists[t])]

\* Every Event ever created has been executed once or is in exactly one list:
\* the hand-over through __window_list neither loses nor duplicates one.
NoEventLost ==
  ctl # "build" =>
    Total(evtnum) = Total(executed) + Total(Sizes(events)) + Total(Sizes(window_list))

\* "Any write done where the per-write delay is at least as large as the minimum
\* declared at construction will deliver the Activation to all the targets"
\* (OutChannel::write): the window's upper edge never lies beyond the arrival of
\* such a write, so that none is refused.
LegalWritesDelivered == undelivered = {}

\* A timeline's clock never runs backwards, neither inside a window nor when
\* sync_window jumps to the window's upper edge.
ClockNeverBack == [][\A t \in Timelines : time'[t] >= time[t]]_time

\* Interface::advance returns: the Timelines get through every window of the epoch
\* and let the control thread out of window_barrier.
AdvanceReturns == (ctl \in {"window1", "window2"}) ~> (ctl = "return")

\* The kernel implements ParallelSim: an event is pending from its creation,
\* whether it is still in __window_list or already in __events.
Abstract == INSTANCE ParallelSim WITH
  pending <- [t \in Timelines |-> events[t] \cup window_list[t]],
  target  <- iface.stop_before,
  phase   <- CASE ctl = "build" -> "build" [] ctl = "idle" -> "idle"
               [] OTHER -> "advancing"

\* Every step of the kernel is a step of ParallelSim or changes nothing it can see:
\* events run only when nothing earlier can arrive, and advance returns only when
\* the epoch's events have been executed.
ImplementsParallelSim == Abstract!Spec
=============================================================================
