--------------------------- MODULE MCTimelineSync ---------------------------
(* Instances of TimelineSync for TLC.                                      *)
EXTENDS TimelineSync, TLC

CONSTANTS a, b, c  \* Timelines

OnTimeout(timers, writes) == [on |-> "TIMEOUT", timers |-> timers, writes |-> writes]
OnActivate(timers, writes) == [on |-> "EXEC_ACTIVATE", timers |-> timers, writes |-> writes]
Write(oc, delay) == [oc |-> oc, delay |-> delay]
Mapping(oc, src, dst, delay) == [oc |-> oc, src |-> src, dst |-> dst, delay |-> delay]

\* Two Timelines that write to each other, with different delays; a's OutChannel is
\* also mapped to an InChannel of a itself.
PairRoute == [ab |-> Mapping("oa", a, b, 2), aa |-> Mapping("oa", a, a, 1),
              ba |-> Mapping("ob", b, a, 3)]
PairMaps == DOMAIN PairRoute

\* Bodies that may fall silent: nothing, a timeout, a write.
QuietBodies == a :> {OnTimeout({}, {}), OnTimeout({2}, {Write("oa", 0)}),
                     OnActivate({}, {}), OnActivate({2}, {})}
            @@ b :> {OnTimeout({}, {Write("ob", 0)}),
                     OnActivate({}, {}), OnActivate({}, {Write("ob", -1)})}
QuietInit == a :> {OnTimeout({}, {Write("oa", 0)}), OnTimeout({1}, {})}
          @@ b :> {OnTimeout({}, {}), OnTimeout({0}, {})}

\* Three Timelines in a ring, with a way back from b to a.
RingRoute == [ab |-> Mapping("oa", a, b, 2), aa |-> Mapping("oa", a, a, 1),
              bc |-> Mapping("ob", b, c, 1), ba |-> Mapping("ob", b, a, 3),
              ca |-> Mapping("oc", c, a, 2)]
RingMaps == DOMAIN RingRoute

\* Bodies that never fall silent: every timeout leaves another behind; b and c may
\* pass on or answer what they are sent.
RingBodies == a :> {OnTimeout({2}, {}), OnTimeout({2}, {Write("oa", 0)}), OnActivate({}, {})}
           @@ b :> {OnTimeout({3}, {}), OnActivate({}, {}), OnActivate({}, {Write("ob", 0)})}
           @@ c :> {OnTimeout({2}, {Write("oc", 0)}), OnActivate({}, {})}
RingInit == a :> {OnTimeout({1}, {})}
         @@ b :> {OnTimeout({0}, {}), OnTimeout({2}, {Write("ob", 0)})}
         @@ c :> {OnTimeout({1}, {})}

\* Timeouts only on a, which writes to b; b has one event much later.
LateBodies == a :> {OnTimeout({2}, {Write("oa", 0)}), OnActivate({}, {})}
           @@ b :> {OnTimeout({3}, {}), OnActivate({}, {})}
LateInit == a :> {OnTimeout({1}, {}), OnTimeout({4}, {})}
         @@ b :> {OnTimeout({0}, {}), OnTimeout({7}, {})}
=============================================================================
