--------------------------- MODULE ChannelDelays ----------------------------
(***************************************************************************)
(* The mappings of one Timeline's OutChannels and the lookahead computed   *)
(* from them (api/outchannel.cc; api/timeline.cc, end of sync_window).     *)
(* Process bodies map and unmap channels and change delays while a window  *)
(* runs.  A change that could let a write arrive inside the window is kept *)
(* for the window's end, where the lookahead is recomputed if needed.      *)
(*                                                                         *)
(* The other Timelines appear as the choice of the window's upper edge:    *)
(* anything up to the bound this Timeline offers.                          *)
(***************************************************************************)
EXTENDS Integers, Sequences, FiniteSets, FiniteSetsExt

CONSTANTS
  OutChannels,   \* the OutChannels of the Timeline
  InChannels,    \* the InChannels they may be mapped to
  Crossing,      \* those on other Timelines
  Delays,        \* transfer delays passed to mapto and new_transfer_delay
  WriteDelays,   \* minimum write delays
  CountMod,      \* __channels_at_minimum counts modulo this (2^32 in the code)
  MaxTime,       \* bound: the upper edge of a window
  MaxBuffered    \* bound: requests buffered in one window

ASSUME ChannelAssumption ==
  /\ IsFiniteSet(OutChannels)
  /\ Crossing \subseteq InChannels /\ {"NULL", "past_end"} \cap InChannels = {}
  /\ Delays \subseteq Nat /\ WriteDelays \subseteq Nat /\ WriteDelays # {}
  /\ CountMod \in Nat \ {0} /\ MaxTime \in Nat /\ MaxBuffered \in Nat

VARIABLES
  state,               \* __state, and ENDING for the end of sync_window
  now,                 \* __time
  horizon,             \* __stop_before
  mapped_to,           \* mapped_to[oc]: its mappings in order
  min_write_delay,     \* min_write_delay[oc]
  channels_to_map,     \* maptos kept for the end of the window
  delays_to_change,    \* delay changes kept for the end of the window
  min_delay,           \* __min_sync_cross_timeline_delay
  channels_at_minimum,
  recompute,           \* __recompute_min_delay
  (* history *)
  sound                \* the lookahead was sound when the window began

clockVars == <<state, now, horizon, sound>>
mapVars   == <<mapped_to, min_write_delay>>
listVars  == <<channels_to_map, delays_to_change>>
minVars   == <<min_delay, channels_at_minimum, recompute>>
vars == <<clockVars, mapVars, listVars, minVars>>

NULL == "NULL"
\* What unmap reads behind the last element of the vector.
PastEnd == [ic |-> "past_end", delay |-> 0]
Intact == \A oc \in OutChannels : \A k \in DOMAIN mapped_to[oc] : mapped_to[oc][k] # PastEnd

\* A request is made by a process body, or by an init() method.
Calling == state \in {"INITIALIZING", "RUNNING"} /\ Intact
-----------------------------------------------------------------------------
(* Minima over the mappings.                                               *)

\* The complete delays of the mappings of oc to other Timelines.
CrossDelays(mt, mwd, oc) ==
  {mwd[oc] + mt[oc][k].delay : k \in {j \in DOMAIN mt[oc] : mt[oc][j].ic \in Crossing}}

LeastOrNone(S) == IF S = {} THEN -1 ELSE Min(S)

\* Timeline::min_sync_cross_timeline_delay(0)
min_sync_cross_timeline_delay(mt, mwd) ==
  LeastOrNone(UNION {CrossDelays(mt, mwd, oc) : oc \in OutChannels})

\* OutChannel::min_xtransfer_delay
min_xtransfer_delay(mt, oc) == LeastOrNone(CrossDelays(mt, [c \in OutChannels |-> 0], oc))

\* OutChannel::count_min_delay_crossings: the mappings of oc that count; with a
\* single mapping none does.
MinDelayCrossings(mt, mwd, thrs, oc) ==
  {k \in DOMAIN mt[oc] : Len(mt[oc]) # 1 /\ mt[oc][k].ic \in Crossing
                         /\ mwd[oc] + mt[oc][k].delay <= thrs}

count_min_delay_crossings(mt, mwd, thrs) ==
  Cardinality(UNION {{oc} \X MinDelayCrossings(mt, mwd, thrs, oc) : oc \in OutChannels}) % CountMod

\* The positions of ic among the mappings s.
At(s, ic) == {k \in DOMAIN s : s[k].ic = ic}
-----------------------------------------------------------------------------
Init ==
  /\ state = "INITIALIZING" /\ now = 0
  /\ horizon \in {0, MaxTime}   \* not initialised
  /\ mapped_to = [oc \in OutChannels |-> <<>>]
  /\ min_write_delay \in [OutChannels -> WriteDelays]
  /\ channels_to_map = <<>> /\ delays_to_change = <<>>
  /\ min_delay = -1 /\ channels_at_minimum = 0 /\ recompute = FALSE
  /\ sound = TRUE

\* Interface::InitModel after the init() methods, and the change to BLOCKED of the
\* first epoch.  The minimum is counted against the threshold 0.
InitModel ==
  /\ state = "INITIALIZING" /\ state' = "BLOCKED" /\ Intact
  /\ min_delay' = min_sync_cross_timeline_delay(mapped_to, min_write_delay)
  /\ channels_at_minimum' = count_min_delay_crossings(mapped_to, min_write_delay, 0)
  /\ UNCHANGED <<now, horizon, sound, mapVars, listVars, recompute>>

\* Every complete delay across Timelines is at least the lookahead.
LookaheadCovers ==
  \A oc \in OutChannels : \A d \in CrossDelays(mapped_to, min_write_delay, oc) :
    min_delay >= 0 /\ min_delay <= d

\* A window whose first event is at time first; its edge is at most what this
\* Timeline offers.  Without a lookahead it offers the time of its first event,
\* which then lies outside the window, or nothing if that is the time it has reached.
StartWindow(first, edge) ==
  /\ state = "BLOCKED" /\ state' = "RUNNING"
  /\ first \in now .. edge - 1
  /\ IF min_delay >= 0 THEN edge <= first + min_delay ELSE first = now
  /\ now' = first /\ horizon' = edge
  /\ recompute' = FALSE
  /\ sound' = LookaheadCovers
  /\ UNCHANGED <<mapVars, listVars, min_delay, channels_at_minimum>>

\* sync_window goes on to the next event.
NextEvent(t) ==
  /\ state = "RUNNING" /\ Intact
  /\ t \in now + 1 .. horizon - 1
  /\ now' = t
  /\ UNCHANGED <<state, horizon, sound, mapVars, listVars, minVars>>
-----------------------------------------------------------------------------
(* Requests of process bodies.                                             *)

\* Faulty variant: the mappings waiting for the end of the window are not looked at.
AcceptableNow(oc, ic, d) ==
  /\ ~(d = 0 /\ min_write_delay[oc] = 0 /\ ic \in Crossing)
  /\ At(mapped_to[oc], ic) = {}

\* OutChannel::mapto accepts a new mapping unless it crosses without any delay, or
\* the InChannel is mapped or about to be.
Acceptable(oc, ic, d) ==
  /\ ~(d = 0 /\ min_write_delay[oc] = 0 /\ ic \in Crossing)
  /\ At(mapped_to[oc], ic) = {}
  /\ \A k \in DOMAIN channels_to_map : channels_to_map[k].oc # oc \/ channels_to_map[k].ic # ic

\* OutChannel::mapto: at once before the run (telling the Timeline the transfer
\* delay), at the end of the window during it.
mapto(oc, ic, d) ==
  /\ Calling /\ Acceptable(oc, ic, d)
  /\ \/ /\ state # "RUNNING"
        /\ mapped_to' = [mapped_to EXCEPT ![oc] = Append(@, [ic |-> ic, delay |-> d])]
        /\ min_delay' = IF ic \in Crossing /\ (min_delay = -1 \/ d < min_delay)
                        THEN d ELSE min_delay
        /\ UNCHANGED channels_to_map
     \/ /\ state = "RUNNING" /\ Len(channels_to_map) < MaxBuffered
        /\ channels_to_map' = Append(channels_to_map, [oc |-> oc, ic |-> ic, delay |-> d])
        /\ UNCHANGED <<mapped_to, min_delay>>
  /\ UNCHANGED <<clockVars, min_write_delay, delays_to_change, channels_at_minimum, recompute>>

\* The slot of ic is overwritten with the element one behind the last, then the last
\* slot is dropped; left is the count without it.
Dropped(oc, ic, left) ==
  /\ Calling
  /\ \E k \in At(mapped_to[oc], ic) :
       LET least == ic \in Crossing /\ min_write_delay[oc] + mapped_to[oc][k].delay = min_delay
       IN /\ mapped_to' = [mapped_to EXCEPT ![oc] = SubSeq([@ EXCEPT ![k] = PastEnd], 1, Len(@) - 1)]
          /\ channels_at_minimum' = IF least THEN left ELSE channels_at_minimum
          /\ recompute' = (recompute \/ (least /\ left = 0))
  /\ UNCHANGED <<clockVars, min_write_delay, listVars, min_delay>>

\* Faulty variant: the count is signed.
unmapSigned(oc, ic) == Dropped(oc, ic, channels_at_minimum - 1)

\* OutChannel::unmap of an established mapping; the count is unsigned.
unmap(oc, ic) == Dropped(oc, ic, (channels_at_minimum - 1) % CountMod)

\* OutChannel::unmap of a buffered mapping: the last request takes its place.
unmap_buffered(oc, ic) ==
  /\ Calling /\ At(mapped_to[oc], ic) = {}
  /\ \E k \in DOMAIN channels_to_map :
       /\ channels_to_map[k].oc = oc /\ channels_to_map[k].ic = ic
       /\ channels_to_map' = LET n == Len(channels_to_map)
                             IN SubSeq([channels_to_map EXCEPT ![k] = channels_to_map[n]], 1, n - 1)
  /\ UNCHANGED <<clockVars, mapped_to, min_write_delay, delays_to_change, minVars>>

\* Faulty variant: a delay below the lookahead is changed wherever the window stands.
AtOnceAnywhere(oc, ic, old, d) ==
  ic \notin Crossing \/ old < d \/ min_write_delay[oc] + d <= min_delay

\* Whether new_transfer_delay may change the mapping at once: it stays on the
\* Timeline, grows, reaches the lookahead exactly, or shrinks below it where no
\* write can arrive in the window.
AtOnce(oc, ic, old, d) ==
  LET xtransfer == min_write_delay[oc] + d
  IN \/ ic \notin Crossing \/ old < d \/ xtransfer = min_delay
     \/ xtransfer < min_delay /\ (state # "RUNNING" \/ horizon <= now + xtransfer)

new_transfer_delay(oc, ic, d) ==
  /\ Calling
  /\ \E k \in At(mapped_to[oc], ic) :
       LET old == mapped_to[oc][k].delay
       IN \/ /\ AtOnce(oc, ic, old, d) /\ old # d
             /\ mapped_to' = [mapped_to EXCEPT ![oc][k].delay = d]
             /\ channels_at_minimum' =
                  IF ic \in Crossing /\ d < old /\ min_write_delay[oc] + d = min_delay
                  THEN (channels_at_minimum + 1) % CountMod ELSE channels_at_minimum
             /\ UNCHANGED <<delays_to_change, recompute>>
          \/ /\ ~AtOnce(oc, ic, old, d) /\ old # d
             /\ Len(delays_to_change) < MaxBuffered
             /\ recompute' = TRUE
             /\ delays_to_change' = Append(delays_to_change, [oc |-> oc, ic |-> ic, delay |-> d])
             /\ UNCHANGED <<mapped_to, channels_at_minimum>>
          \/ old = d /\ UNCHANGED <<mapped_to, delays_to_change, channels_at_minimum, recompute>>
  /\ UNCHANGED <<clockVars, min_write_delay, channels_to_map, min_delay>>

\* OutChannel::new_min_write_delay: at once if it grows, or if the new minimum
\* crossing delay reaches the horizon, taken as a duration.
new_min_write_delay(oc, mwd) ==
  /\ Calling
  /\ \/ /\ min_write_delay[oc] <= mwd \/ horizon <= mwd + min_xtransfer_delay(mapped_to, oc)
        /\ min_write_delay' = [min_write_delay EXCEPT ![oc] = mwd]
        /\ UNCHANGED delays_to_change
     \/ /\ ~(min_write_delay[oc] <= mwd \/ horizon <= mwd + min_xtransfer_delay(mapped_to, oc))
        /\ Len(delays_to_change) < MaxBuffered
        /\ delays_to_change' = Append(delays_to_change, [oc |-> oc, ic |-> NULL, delay |-> mwd])
        /\ UNCHANGED min_write_delay
  /\ UNCHANGED <<clockVars, mapped_to, channels_to_map, minVars>>
-----------------------------------------------------------------------------
(* The end of sync_window: its loops take the kept requests in order.       *)

\* The event loop is over; no process body runs until the next window.
EndEvents ==
  /\ state = "RUNNING" /\ state' = "ENDING" /\ Intact
  /\ UNCHANGED <<now, horizon, sound, mapVars, listVars, minVars>>

\* What a crossing delay put in place means for the count and the flag.
Noted(crossing) ==
  /\ channels_at_minimum' = IF crossing = min_delay THEN (channels_at_minimum + 1) % CountMod
                            ELSE channels_at_minimum
  /\ recompute' = (recompute \/ crossing < min_delay)

\* One iteration over __channels_to_map.
MapKept ==
  /\ state = "ENDING" /\ channels_to_map # <<>>
  /\ LET m == Head(channels_to_map)
     IN /\ mapped_to' = [mapped_to EXCEPT ![m.oc] = Append(@, [ic |-> m.ic, delay |-> m.delay])]
        /\ Noted(min_write_delay[m.oc] + m.delay)
  /\ channels_to_map' = Tail(channels_to_map)
  /\ UNCHANGED <<clockVars, min_write_delay, delays_to_change, min_delay>>

\* A kept minimum write delay; it is dropped if the sum with the least crossing
\* transfer delay is zero.
ChangeWrite(m) ==
  LET crossing == m.delay + min_xtransfer_delay(mapped_to, m.oc)
  IN \/ /\ crossing # 0 /\ Noted(crossing)
        /\ min_write_delay' = [min_write_delay EXCEPT ![m.oc] = m.delay]
        /\ UNCHANGED mapped_to
     \/ crossing = 0 /\ UNCHANGED <<mapVars, channels_at_minimum, recompute>>

\* A kept transfer delay, if the mapping still exists.
ChangeTransfer(m) ==
  \/ /\ \E k \in At(mapped_to[m.oc], m.ic) :
          /\ \A j \in At(mapped_to[m.oc], m.ic) : k <= j
          /\ mapped_to' = [mapped_to EXCEPT ![m.oc][k].delay = m.delay]
     /\ Noted(min_write_delay[m.oc] + m.delay)
     /\ UNCHANGED min_write_delay
  \/ /\ At(mapped_to[m.oc], m.ic) = {}
     /\ UNCHANGED <<mapVars, channels_at_minimum, recompute>>

\* One iteration over __delays_to_change.
ChangeKept ==
  /\ state = "ENDING" /\ channels_to_map = <<>> /\ delays_to_change # <<>>
  /\ LET m == Head(delays_to_change)
     IN \/ m.ic = NULL /\ ChangeWrite(m)
        \/ m.ic # NULL /\ ChangeTransfer(m)
  /\ delays_to_change' = Tail(delays_to_change)
  /\ UNCHANGED <<clockVars, channels_to_map, min_delay>>

\* The lookahead is computed again if need be, and time goes to the upper edge.
EndWindow ==
  /\ state = "ENDING" /\ state' = "BLOCKED"
  /\ now' = horizon - 1
  /\ channels_to_map = <<>> /\ delays_to_change = <<>>
  /\ LET least == min_sync_cross_timeline_delay(mapped_to, min_write_delay)
     IN /\ min_delay' = IF recompute THEN least ELSE min_delay
        /\ channels_at_minimum' = IF recompute
             THEN count_min_delay_crossings(mapped_to, min_write_delay, least)
             ELSE channels_at_minimum
  /\ UNCHANGED <<horizon, sound, mapVars, listVars, recompute>>

Next ==
  \/ InitModel \/ EndEvents \/ MapKept \/ ChangeKept \/ EndWindow
  \/ \E first, edge \in 0 .. MaxTime : StartWindow(first, edge)
  \/ \E t \in 0 .. MaxTime : NextEvent(t)
  \/ \E oc \in OutChannels, ic \in InChannels : unmap(oc, ic) \/ unmap_buffered(oc, ic)
  \/ \E oc \in OutChannels, ic \in InChannels, d \in Delays :
       mapto(oc, ic, d) \/ new_transfer_delay(oc, ic, d)
  \/ \E oc \in OutChannels, d \in WriteDelays : new_min_write_delay(oc, d)

Spec == Init /\ [][Next]_vars
-----------------------------------------------------------------------------
(* Properties.                                                             *)

Mapping == [ic : InChannels, delay : Delays] \cup {PastEnd}
Request == [oc : OutChannels, ic : InChannels, delay : Delays]
Change  == Request \cup [oc : OutChannels, ic : {NULL}, delay : WriteDelays]

\* The types of the OutChannels' and the Timeline's fields.
TypeOK ==
  /\ state \in {"INITIALIZING", "BLOCKED", "RUNNING", "ENDING"}
  /\ now \in Nat /\ horizon \in Nat
  /\ mapped_to \in [OutChannels -> Seq(Mapping)]
  /\ min_write_delay \in [OutChannels -> WriteDelays]
  /\ channels_to_map \in Seq(Request) /\ delays_to_change \in Seq(Change)
  /\ min_delay \in Int /\ channels_at_minimum \in 0 .. CountMod - 1
  /\ recompute \in BOOLEAN /\ sound \in BOOLEAN

\* "will deliver the Activation to all the targets" (OutChannel::write): whatever
\* process bodies map, unmap or change in a window that began with a sound
\* lookahead, a write they do arrives at its upper edge or later.
WindowKeepsPromise ==
  state = "RUNNING" /\ sound =>
    \A oc \in OutChannels : \A d \in CrossDelays(mapped_to, min_write_delay, oc) :
      horizon <= now + d

\* An InChannel is mapped at most once to an OutChannel, counting the mappings that
\* wait for the end of the window: otherwise write would deliver twice.
MappedOnce ==
  Intact => \A oc \in OutChannels, ic \in InChannels :
    Cardinality(At(mapped_to[oc], ic))
      + Cardinality({k \in DOMAIN channels_to_map :
                       channels_to_map[k].oc = oc /\ channels_to_map[k].ic = ic}) <= 1

\* "Minimum transfer delay among all cross-timeline channels in this timeline"
\* (timeline.h): between windows no crossing mapping has a smaller complete delay
\* than the lookahead the Timeline is about to offer.
LookaheadSound == state = "BLOCKED" => LookaheadCovers
=============================================================================
