# A TLA+ verification of S3F and of the TCP of s3fnet

S3F is a parallel discrete-event simulator in C++ (`src/full/`), s3fnet the network
simulator on top of it. This directory models the synchronization kernel, its channels
and barriers, and the TCP sessions of s3fnet; it checks the models with TLC on small
instances, and proves the main safety properties of the kernel, of the channels' delays
and of the barriers with TLAPS for every instance.

## The system

| Part | Code | State | Operations |
|---|---|---|---|
| Timeline, simulation scheduler | `api/timeline.cc` | clock, horizon, event list, window list | `thread_function`, `sim_global_scheduler_one_epoch`, `sync_window`, `get_cross_timeline_events`, `schedule` |
| Timeline, emulation scheduler | `api/timeline.cc` 392-630 | the same, plus `sim_target_time` and the emulation clock | `sim_emu_global_scheduler_one_epoch` |
| Appointments (COMPOSITE_SYNC) | `api/timeline.cc` 952-1082, 1511-1588 | `__in_appt`, `__out_appt` | MAKE_APPT and WAIT_APPT events |
| Interface, TimelineInterface | `api/interface.cc` | clock, the published epoch, barriers | `InitModel`, `advance` |
| OutChannel | `api/outchannel.cc` | mappings, delays | `write`, `mapto`, `unmap`, `new_transfer_delay`, `new_min_write_delay` |
| InChannel | `api/inchannel.cc` | waiting list with priorities | `waitOn`, `bind`, `unwaitOn`, `unbind`, activation by `sync_window` |
| Entity, Process, Event, Message | `api/` | names, handles | `waitFor`, constructors |
| Barriers | `aux/` | counters, reduced values | `init`, `wait` |
| Simulation control | `simctrl/` | virtual machines | external system calls and sockets |
| s3fnet TCP and sockets | `s3fnet/src/os/tcp/`, `os/socket/` | connection state, windows, timers, signals of a socket | `connect`, `accept`, `send`, `recv`, `close`, `abort`, `receive`, timeouts |
| s3fnet interfaces and queues | `s3fnet/src/net/` | queueing delay, drop rate | `enqueue`, `receivePacket` |
| s3fnet hosts and other protocols | `s3fnet/src/` | configuration, routing | forwarding |
| DML, random numbers, METIS, FANN, OpenFlow library | `dml/`, `rng/`, `metis/`, ... | | configuration, libraries |

One thread runs per Timeline and one control thread calls `Interface::advance`.
The control thread publishes an epoch and meets the Timelines twice at
`window_barrier`. In the epoch the Timelines repeat synchronization windows:

1. take over what other Timelines wrote (`__window_list`), without a lock;
2. offer next event time plus lookahead to a min-reduction, under a mutex;
3. meet at `bottom_barrier`, read the minimum without the mutex: the window's edge;
4. execute every event strictly before the edge; cross-Timeline writes at or beyond
   the edge are delivered, nearer ones are refused;
5. meet at `top_barrier`, or at `window_barrier` when the epoch is over.

What is hard here: correctness of steps 1 and 3 rests on barriers alone; the edge
must respect every lookahead; three boundaries are off by one from each other; the
statics of the reduction survive from window to window and from epoch to epoch; a
signal handler sets a flag all threads read on their own. In TCP a session is moved by
its application, by segments that may be lost and by a timer, in any order; what it sends
again after a loss is bounded by four sequence numbers that all three of them change.

## The modules

| Module | Models |
|---|---|
| `SimModel` | the simulated model as the kernel sees it: mappings, process bodies (timeouts and writes), Events |
| `TimelineSync` | the kernel: Timeline threads, control thread, the three barriers, the min-reduction |
| `ParallelSim` | what the kernel promises: a simulator without windows, barriers or threads |
| `MCTimelineSync` | the small models TLC runs |
| `TimelineSyncTypes`, `TimelineSyncProofs` | theorems on `TimelineSync`: its types, then its safety properties |
| `TimelineSyncEvents` | that `TimelineSync` loses no event |
| `TimelineSyncLookahead` | that it delivers legal writes and implements `ParallelSim`, and where |
| `ChannelDelays` | the mappings and delays of one Timeline's OutChannels, changed while windows run, and the lookahead kept from them |
| `ChannelDelaysProofs` | theorems on `ChannelDelays` |
| `InChannel` | one InChannel: its waiting list, and the events of the instant at which Activations reach it |
| `TCPWindow` | the send and the receive window of a TCP session, as operators on records |
| `TCPSession` | a TCP session: every method an operator from session to session |
| `TCPConnection` | two hosts: sockets above, sessions, and a lossy network between them |
| `MinBarrier` | what the barriers of `aux/` promise |
| `BarrierMutex`, `BarrierMutexProofs` | `barrier_mutex_t` (MUTEX_BARRIER builds) |
| `BarrierYield`, `BarrierYieldProofs` | `barrier_t` (SCHED_YIELD_BARRIER builds) |

The configuration is the one `s3f.h` selects on Linux: PTHREAD_BARRIER, without
COMPOSITE_SYNC, SAFE_MSG_PTR or FAST_MULTITIMELINE_NO_X_EVENTS.

`TimelineSync`, variable by variable, keeps the source's names without the leading
underscores. A step of a Timeline thread is the code between two points where
another thread can notice: `StartEpoch` (thread_function), `Collect`
(get_cross_timeline_events), `Offer` (up to bottom_barrier), `ReadEdge`, one
`RunBody` or `Activate` per event of sync_window, `EndWindow`, `LoopTest`. A barrier
is one action that is enabled when everyone waits; which thread is the serial one is
a free choice, as POSIX leaves it. The initial `__stop_before`, never initialised by
the code, ranges over `InitHorizons`.

Abstractions: `__events` and `__ve_sink_events` are one set; ties between events of
equal time (`key2`) may be broken either way, so that all orders are covered; a
process body is any of a set of bodies, chosen anew for every event; mappings do not
change during the run (`ChannelDelays` is about that); every InChannel has one bound
process; writes refused during `init()` are not recorded in
`undelivered`, whose only use is `LegalWritesDelivered`.

`ChannelDelays` follows one Timeline. The others appear only in the choice of the
window's edge: anything up to what this Timeline offers. An action is one call a
process body or an init() method makes (`mapto`, `unmap`, `new_transfer_delay`,
`new_min_write_delay`; calls that are refused change nothing), or a part of the end of
`sync_window`: `EndEvents`, one `MapKept` for each element of `__channels_to_map`, one
`ChangeKept` for each of `__delays_to_change`, and `EndWindow`. No process body runs
between these (`state` is `ENDING`), so that they are the loops of the code and nothing
more. `__channels_at_minimum` is unsigned, modulo `CountMod`. `unmap` copies the element
behind the last one into the slot it frees: when that slot stays in use its content is
undefined (`PastEnd`), and the behaviour stops there. `sound` is a history variable.

`InChannel` has the events of a single instant of simulation time, in the order of their
second key. A body runs because of a timeout or because the InChannel activated it, calls
`waitOn`, `bind`, `unwaitOn`, `unbind` and `write` in any order, and returns. Priorities
go through `user_pri` wherever the code applies it, twice for a delayed insertion. The
loop over the waiting list erases and steps as the iterator of a `std::list` does; an
increment from `end()` leads to the beginning, which is what the library does.

`TCPSession` is the default version: Reno, acknowledgements not delayed, real data. A
handler of the code changes the session, pushes segments down, collects signals in a local
variable and passes bytes up; its operator maps a work record with these fields to another
and calls what the handler calls, in the same order. Times are abstracted: a timer runs or
does not run and may expire whenever it runs, so that it may always race an
acknowledgement on its way; of the round-trip time only whether it is being measured is
kept, because that decides when the count of retransmissions is reset. Sequence numbers
do not wrap.

`TCPConnection` adds the sockets and the network. An application has one call in progress
at a time and may make any call the session allows; a call that blocks waits for the
signals of its mask, and the continuation runs when one of them is set. A call that fails
an assertion ends the program and is no step: this concerns a `recv` that would wait while
the parameters of an earlier one are still set (`tcp_rcvwnd.h` 92). The queue towards a
host holds `NetCap` segments and drops what exceeds them (`DroptailQueue::enqueue`); the
receiving interface may drop any segment (`receivePacket`). There is one path, so that
segments are not reordered. Byte k of a stream is the number k.

`BarrierMutex` takes what a thread does under the mutex as one step and gives
condition variables spurious wake-ups. `BarrierYield` makes every access to shared
memory a step, in program order; the rounds are bounded far below the overflow of
the `int` cycle. Neither `destroy` nor the pthread error returns are modelled.

## The runs

| Run | Expected | Bounds | Shows |
|---|---|---|---|
| `kernel_epochs` | pass | 2 Timelines with lookaheads 2 and 3 and a mapping to itself, epochs of 2 and 3, 2 calls of advance | type correctness, isolation of the window list, a common edge, no straggler, complete epochs, no event lost, monotone clocks |
| `kernel_one_epoch` | pass | 3 Timelines in a ring, 1 epoch of 4 or 5 | legal writes delivered, refinement of `ParallelSim`, advance returns |
| `kernel_second_epoch` | violation | 2 Timelines, 2 epochs | finding 1 |
| `kernel_drained` | violation | 2 Timelines, 1 epoch of 6 | finding 2 |
| `kernel_interrupt` | violation | 2 Timelines, 1 epoch of 4, one Ctrl-C | finding 3 |
| `barrier_mutex` | pass | 3 threads, 3 rounds, offers -1, 0, 1 | the one-bit cycle suffices, one serial thread, refinement of `MinBarrier`, wait returns |
| `barrier_yield` | pass | 3 threads, 2 rounds, offers -1, 1, 2 | no value overwritten too early, refinement of `MinBarrier`, wait returns |
| `channel_delays` | pass | 1 OutChannel, 2 InChannels on other Timelines, delays 1 and 3, write delays 0 and 1, time up to 4, 2 requests of each kind per window | a window that begins with a sound lookahead keeps its promise; no InChannel is mapped twice |
| `lookahead_unset` | violation | the same with one delay, 1, and one write delay, 0, so that no delay can change | finding 4 |
| `in_channel` | violation | 2 Processes of priorities 0 and 1, 3 entries, 4 events | finding 5 |
| `tcp_connection` | pass | windows of 3 segments, buffer of 4, a send of 5 bytes, 2 segments on the way in each direction, 2 timeouts in a row before the reset | the stream arrives in order, acknowledged bytes are held, a FIN ends a complete stream, handshakes are timed, what is sent again is in bounds, data without a timer is delimited, recv may be called again |
| `tcp_overlap` | violation | segments of 2 bytes, sends of 1 and 2 | finding 6 |

Why the bounds are enough. Windows of one lookahead fit several times into an epoch,
so that a run has windows cut by the minimum and windows cut by the epoch; two epochs
carry the statics over; three Timelines let a third thread race between two others;
two rounds let a fast thread enter the next round while a slow one leaves, three
rounds turn the one-bit cycle back to its first value. In `channel_delays` two
InChannels and two delays let one mapping be at the minimum and the other above it,
and two requests per window let one undo or overtake the other. In `tcp_connection` the
send exceeds buffer and windows by at least a segment, so that it is taken in parts and
blocks; three segments on the fly and a network of two give losses by overflow, gaps in
the receive buffer, partial acknowledgements after a timeout, and new data sent while
old data is sent again; only the client sends data, but both sides open, close, abort and
time out. With segments of one byte, segments never overlap in part, and `AckedIsHeld` and
`EofIsEnd` are claimed for such aligned segments only. `tcp_overlap` is about the others:
where segments overlap in part, finding 6 implies that acknowledged bytes may be missing,
and that a FIN, which is sent when all is acknowledged, may end a stream with bytes missing.

`kernel_epochs` has models that may fall silent, `kernel_one_epoch` models that do
not: when event lists drain, advance may not return (finding 2), and across epochs
a legal write may be refused (finding 1). These two properties are therefore checked
where the code keeps them, and violated where it does not.

Fairness. `FairSpec` gives weak fairness to each Timeline thread, to the barriers and
to the control thread inside a call: the operating system schedules runnable threads
and a full pthread barrier opens. Calls of advance are never forced. In
`BarrierMutex` a thread that wants the mutex gets it (weak fairness per thread),
spurious wake-ups are not promised; in `BarrierYield` sched_yield lets the others run.
No liveness is stated of TCP: the state graph of a connection is too large for TLC's
liveness checking, and delivery needs fairness of the network. What progress rests on is
stated as invariants instead: `TimerMatchesState` (a handshake is never without its
timer) and `UntimedDataResent` (the one situation in which an ESTABLISHED session has data
on the fly without one). In CLOSE_WAIT there is another: the peer's FIN cancels the timer
whatever is on the fly (`tcp_state.cc` 135).

`channel_delays` and `lookahead_unset` are checked without deadlock detection because
time is bounded and because of `PastEnd`; `barrier_yield` because the threads stop after
their last round; `kernel_interrupt` because the deadlock is what its liveness property
reports; `in_channel` because its bounds end it; the TCP runs because a connection that
both sides have closed or reset has no further step.

## Findings

1. **A re-offered minimum is lost** (`api/timeline.cc` 671, 705). The reduction takes
   "minimum equals the previous window's minimum" for "no offer yet". After a window
   cut at an epoch's end the same value is offered again, and a larger later offer
   replaces it; the window then exceeds the lookahead and `OutChannel::write` refuses
   a write its documentation promises to deliver.
2. **Drained event lists do not end the epoch** (686, 720). With nothing offered the
   old minimum stays, and the window repeats forever, while the comment promises a
   jump to the epoch's end.
3. **Ctrl-C may hang the simulator** (749, 776). The flag is read separately by each
   Timeline and more than once, so they may go to different barriers.
4. **The first crossing mapping made in a window is not counted** (`api/timeline.cc`
   1137). A Timeline without crossing mappings has the minimum -1. A crossing mapping that
   a process makes in a window is compared with it as if -1 were a delay: the minimum is
   not computed again and stays -1 ("Minimum transfer delay among all cross-timeline
   channels in this timeline.", `api/timeline.h` 384). `channel_delays` shows the other
   half: as long as the lookahead is sound when a window begins, nothing that processes do
   in the window breaks it.
5. **A waiting Process may be skipped** (`api/timeline.cc` 919). The activation loop
   erases an entry made by `waitOn` and then increments the iterator, which already stands
   on the next entry: of two Processes that wait, the second is not activated.
6. **Resent segments overlap in part** (`tcp_sender.cc` 156, `tcp_rcvwnd.cc` 172). After a
   timeout bytes are cut into full segments whatever the boundaries of the first
   transmission, while the receive buffer assumes that a segment is either contained in a
   buffered one or disjoint from it. Both are then kept, and the acknowledgement counts the
   common bytes twice: bytes that were never received are acknowledged.

Four behaviours of the models contradict a comment or an assertion of the code. No run
states them as a violated property; the passing properties leave them out.

- Entering FIN_WAIT_2 cancels the timer (`tcp_state.cc` 205), under the comment "schedules
  timeout so we don't wait forever" (204): a session whose peer never closes stays there.
  `TimerMatchesState` says nothing of FIN_WAIT_2.
- `setRecvParameters` asserts that no receive parameters are set (`tcp_rcvwnd.h` 92), but
  only data that arrives resets them (`tcp_receiver.cc` 95). After a `recv` that SOCK_EOF
  ended, a second one, in CLOSE_WAIT, fails the assertion. `RecvMayWait` shows that in
  ESTABLISHED it never fails.
- A TCP sender that has sent everything again after a timeout and then receives a partial
  acknowledgement cancels its timer and sends nothing (`tcp_sender.cc` 147), just after "if
  there's still packet on the fly, we should reset the timeout" (`tcp_receiver.cc` 374).
  `UntimedDataResent` exempts this case.
- `write` in an `init()` method is tested against a horizon nobody has set
  (`api/outchannel.cc` 99), so that a write its documentation promises to deliver may be
  refused there. `undelivered` does not record it.

Lowering a delay in place leaves the lookahead out of date as in finding 4
(`new_transfer_delay`, `api/outchannel.cc` 447, and `new_min_write_delay`, 485):
`LookaheadSound` is violated that way too when `lookahead_unset` is given two delays, or
two write delays, and `MaxBuffered` 0.

Other behaviours the models have, of which no document promises otherwise or which are
matters of liveness:

- `new_transfer_delay` (`api/outchannel.cc` 408) with the old delay, after a request to
  lower it in the same window, finds nothing to do, and the lower delay is applied.
- An attachment made by a Process that the InChannel activated has its priority converted
  twice (`api/inchannel.cc` 141, `api/timeline.cc` 1089).
- A Timeline's count of mappings at the minimum may wrap below zero (`api/outchannel.cc`
  283); it then does not reach 0, and an `unmap` leaves the minimum smaller than it need
  be, which makes windows shorter and breaks no promise.
- Data on the fly when the peer's FIN arrives has no timer any more (`tcp_state.cc` 135).
- `close()` of the side that closes second is not woken: the acknowledgement of its FIN
  closes the session, and `receive` returns before passing the signals on
  (`tcp_receiver.cc` 105). `close()` with unsent data does not return either when the
  peer's FIN comes first, for the FIN is sent only from ESTABLISHED (130).
- Bytes still in the receive buffer when the FIN arrives cannot be read (`tcp_rcvwnd.cc`
  58).

## The proofs

All theorems hold for every set of Timelines, every model, every sequence of epochs,
and every number of threads and rounds, under the assumptions named in the modules:
finite non-empty sets of threads, a positive delay on every mapping between Timelines
(mapto refuses others), bodies that write on their own Timeline's channels and not
into the past, epochs of positive length.

*Kernel.* The theorems are about `Spec`, in which nobody presses Ctrl-C.
`TimelineSyncTypes` proves `TypeCorrect`, `TimelineSyncProofs` then `PhasesHold`: the
inductive invariant `SyncInv`. None of the safety properties is inductive, since each depends
on where all threads are relative to the barriers. `SyncInv` says that the Timelines
are together in one of four phases (gathering up to bottom_barrier, executing a
window, between windows, leaving the epoch), that in the executing phase everyone
past `ReadEdge` has the edge computed from the same `bottom_min`, and that no event
lies before the clock of its Timeline, nor, in a window list, before the edge.
`WindowListSafe`, `WindowsAgree`, `CausalityHolds`, `EpochsComplete` and
`ClocksMonotone` follow. Causality needs nothing of the value of the minimum: it is
`write`'s test against the horizon that protects it.

`TimelineSyncEvents` proves `EventsConserved` (`NoEventLost`): the numbers a Timeline has
handed out add up to what was executed and what waits. The property counts, so that the
invariant behind it says why no event is counted twice or merges with another: an event's
number is below the counter of the Timeline that made it (its creator's numbers are fresh),
and equal numbers of one creator mean the same event. The sum over Timelines is reasoned
about by induction over finite sets.

`TimelineSyncLookahead` is about the value of the minimum, which `LegalWritesDelivered`
and the refinement depend on. `LegalWritesArrive` proves that a write the documentation
calls legal is never refused in the states of `OffersDistinct`: every Timeline can write to
another one (`NoSink`) and the epoch is the first, or there is a single Timeline. There no
offer equals the minimum of the window before, so that the edge of a window is at most every
Timeline's next event plus the delay of each of its crossing mappings (`LookaheadInv`).
`KernelImplements` proves that every step of the kernel is a step of `ParallelSim` or a
stutter, under the same conditions on the model and on `MaxEpochs`. Both are needed: finding 1 refutes the refinement in the second epoch, and a Timeline that writes to
nobody offers nothing to the minimum, so that a window may be offered the same minimum
twice within one epoch (Timelines a, b, c with delays 1 from a to c and 3 from b to c, c
writing to nobody, and an epoch of 7).

*Barriers.* `BarrierMutexProofs` proves that counter, calls and cycle agree on the
round (`RoundsHold`), that one bit of cycle is enough (`CycleSound`), that one thread of a
round is the serial one (`SerialOnce`, strengthened to: one thread was told that it
closed the last round, the others that they did not or are still on their way out), and that every step is a step of `MinBarrier` or a stutter (`MutexImplements`).
`BarrierYieldProofs` proves that no two threads are more than a call apart, that
thread 0's local minimum is the least value scanned so far (`RoundsHold`), from which
`ValuesSound` and `YieldImplements`.

*Delays.* `ChannelDelaysProofs` holds for all channels, delays and bounds.
`TypeCorrect` includes that the minima and counts over the mappings are what their
fields can hold. `MappingsOnce` is proved from the facts that an InChannel stands at one
position at most, in the mappings and the requests taken together, and that every step
moves or drops a position. `PromiseKept` is not inductive as it stands: a delay may be
lowered at any point of a window to exactly the lookahead, so that the edge must also be
at most the lookahead away (`EdgeInReach`), which holds because the edge was chosen so and
time only grows.

Only model-checked: the properties of `InChannel` and of TCP (their loops are folds and
recursion over sequences, which need induction over data), and all liveness, which is out
of the prover's reach.

## Not modelled

- `fast_barrier_t` and `fast_tree_barrier_t`: no configuration of `s3f.h` selects them.
- The emulation scheduler and simctrl: they depend on the progress of virtual machines
  outside the program, reported through sockets and kernel calls.
- Appointments: compiled out without COMPOSITE_SYNC.
- Other versions of TCP (Tahoe, New Reno, SACK), delayed acknowledgements, UDP and
  non-blocking sockets, the accepting of several connections.

- Out of reach or of interest: DML (text processing), random numbers (floating point),
  routing and forwarding (no state that changes), vendored libraries.
