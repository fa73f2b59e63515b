------------------------ MODULE ChannelDelaysProofs -------------------------
(***************************************************************************)
(* Proofs about ChannelDelays for any set of channels and delays and any   *)
(* bounds: the types, that no InChannel is mapped twice, and that a window *)
(* begun with a sound lookahead keeps its promise to the other Timelines.  *)
(*                                                                         *)
(* The promise needs to be strengthened: while such a window runs its      *)
(* upper edge is also at most the lookahead away, because a delay may be   *)
(* lowered to exactly the lookahead at any point of the window.            *)
(***************************************************************************)
EXTENDS ChannelDelays, TLAPS, FiniteSetTheorems, SequenceTheorems, WellFoundedInduction
-----------------------------------------------------------------------------
(* Minima and counts over the mappings.                                    *)

\* A set of delays that is not empty has a least one.
LEMMA LeastExists ==
  ASSUME NEW S, S \subseteq Nat, S # {}
  PROVE  \E x \in S : \A y \in S : x <= y
<1>1. PICK x \in S : \A y \in S : ~(<<y, x>> \in OpToRel(<, Nat))
  BY NatLessThanWellFounded, WFMin, ZenonT(60)
<1>2. \A y \in S : ~(y < x)
  BY <1>1, Zenon DEF OpToRel
<1> QED
  BY <1>2

\* The running minimum of the loops over mappings, -1 when there is none.
LEMMA LeastOrNoneType ==
  ASSUME NEW S, S \subseteq Nat
  PROVE  /\ LeastOrNone(S) \in Int
         /\ \A y \in S : LeastOrNone(S) \in Nat /\ LeastOrNone(S) <= y
<1>1. CASE S = {}
  BY <1>1 DEF LeastOrNone
<1>2. CASE S # {}
  <2>1. Min(S) \in S /\ \A y \in S : Min(S) <= y
    BY <1>2, LeastExists, ZenonT(60) DEF Min
  <2>2. LeastOrNone(S) = Min(S)
    BY <1>2, Zenon DEF LeastOrNone
  <2>3. Min(S) \in Nat
    BY <2>1, Zenon
  <2> QED
    BY <2>1, <2>2, <2>3
<1> QED
  BY <1>1, <1>2

\* The complete delay of a crossing mapping is a natural number: the cell read behind
\* the end of the vector is not taken for one.
LEMMA CrossDelaysType ==
  ASSUME NEW mt \in [OutChannels -> Seq(Mapping)], NEW mwd \in [OutChannels -> Nat],
         NEW oc \in OutChannels
  PROVE  CrossDelays(mt, mwd, oc) \subseteq Nat
<1> SUFFICES ASSUME NEW k \in DOMAIN mt[oc], mt[oc][k].ic \in Crossing
             PROVE  mwd[oc] + mt[oc][k].delay \in Nat
  BY DEF CrossDelays
<1>1. mt[oc][k] \in Mapping
  BY ElementOfSeq
<1>2. mt[oc][k] \in [ic : InChannels, delay : Delays]
  BY <1>1, ChannelAssumption DEF Mapping, PastEnd
<1>3. mt[oc][k].delay \in Nat /\ mwd[oc] \in Nat
  BY <1>2, ChannelAssumption, Zenon
<1> QED
  BY <1>3

\* The lookahead recomputed at the end of a window is -1 or a delay.
LEMMA LookaheadType ==
  ASSUME TypeOK
  PROVE  /\ min_sync_cross_timeline_delay(mapped_to, min_write_delay) \in Int
         /\ \A oc \in OutChannels : min_xtransfer_delay(mapped_to, oc) \in Int
<1>1. min_write_delay \in [OutChannels -> Nat] /\ [c \in OutChannels |-> 0] \in [OutChannels -> Nat]
  BY ChannelAssumption, Zenon DEF TypeOK
<1>2. UNION {CrossDelays(mapped_to, min_write_delay, oc) : oc \in OutChannels} \subseteq Nat
  <2>1. \A oc \in OutChannels : CrossDelays(mapped_to, min_write_delay, oc) \subseteq Nat
    BY <1>1, CrossDelaysType, Zenon DEF TypeOK
  <2> QED
    BY <2>1, Zenon
<1>3. \A oc \in OutChannels : CrossDelays(mapped_to, [c \in OutChannels |-> 0], oc) \subseteq Nat
  BY <1>1, CrossDelaysType, Zenon DEF TypeOK
<1> QED
  BY <1>2, <1>3, LeastOrNoneType DEF min_sync_cross_timeline_delay, min_xtransfer_delay

\* __channels_at_minimum recomputed is an unsigned number.
LEMMA CountType ==
  ASSUME TypeOK, NEW thrs
  PROVE  count_min_delay_crossings(mapped_to, min_write_delay, thrs) \in 0 .. CountMod - 1
<1> DEFINE Part(oc) == {oc} \X MinDelayCrossings(mapped_to, min_write_delay, thrs, oc)
           Parts == {Part(oc) : oc \in OutChannels}
           f == [oc \in OutChannels |-> Part(oc)]
<1>1. ASSUME NEW oc \in OutChannels PROVE IsFiniteSet(Part(oc))
  <2>1. MinDelayCrossings(mapped_to, min_write_delay, thrs, oc) \subseteq 1 .. Len(mapped_to[oc])
    BY LenProperties DEF MinDelayCrossings, TypeOK
  <2>2. IsFiniteSet(1 .. Len(mapped_to[oc]))
    BY FS_Interval, LenProperties DEF TypeOK
  <2>3. IsFiniteSet(MinDelayCrossings(mapped_to, min_write_delay, thrs, oc))
    BY <2>1, <2>2, FS_Subset
  <2> QED
    BY <2>3, FS_Singleton, FS_Product, Zenon
<1>2. f \in Surjection(OutChannels, Parts)
  BY DEF Surjection
<1>3. IsFiniteSet(Parts)
  BY <1>2, FS_Surjection, ChannelAssumption
<1>4. Cardinality(UNION Parts) \in Nat
  BY <1>1, <1>3, FS_UNION, FS_CardinalityType, Zenon
<1> QED
  BY <1>4, ChannelAssumption DEF count_min_delay_crossings
-----------------------------------------------------------------------------
(* Types.                                                                  *)

\* An event is executed strictly before the upper edge of its window.
InWindow == state \in {"RUNNING", "ENDING"} => now < horizon

\* The count and the flag as the loops of sync_window change them.
LEMMA NotedType ==
  ASSUME TypeOK, NEW crossing, Noted(crossing)
  PROVE  channels_at_minimum' \in 0 .. CountMod - 1 /\ recompute' \in BOOLEAN
BY ChannelAssumption DEF TypeOK, Noted

\* One mapping of one channel is given another delay.
LEMMA DelayChangeType ==
  ASSUME TypeOK, NEW oc \in OutChannels, NEW ic \in InChannels, NEW k \in At(mapped_to[oc], ic),
         NEW d \in Delays
  PROVE  /\ [mapped_to EXCEPT ![oc][k].delay = d] \in [OutChannels -> Seq(Mapping)]
         /\ [mapped_to[oc][k] EXCEPT !.delay = d] = [ic |-> ic, delay |-> d]
<1>1. mapped_to[oc] \in Seq(Mapping) /\ k \in 1 .. Len(mapped_to[oc]) /\ mapped_to[oc][k].ic = ic
  BY LenProperties DEF TypeOK, At
<1>2. mapped_to[oc][k] \in [ic : InChannels, delay : Delays]
  BY <1>1, ElementOfSeq, ChannelAssumption DEF Mapping, PastEnd
<1>3. [mapped_to[oc][k] EXCEPT !.delay = d] = [ic |-> ic, delay |-> d]
  BY <1>1, <1>2
<1>4. [ic |-> ic, delay |-> d] \in Mapping
  BY DEF Mapping
<1>5. [mapped_to[oc] EXCEPT ![k] = [ic |-> ic, delay |-> d]] \in Seq(Mapping)
  BY <1>1, <1>4, ExceptSeq
<1>6. [mapped_to EXCEPT ![oc][k].delay = d] = [mapped_to EXCEPT ![oc] =
              [mapped_to[oc] EXCEPT ![k] = [ic |-> ic, delay |-> d]]]
  BY <1>3, Zenon
<1> QED
  BY <1>3, <1>5, <1>6 DEF TypeOK

\* unmap leaves a vector of mappings that is one shorter, with the cell behind the
\* end in place of the removed one.
LEMMA DroppedShape ==
  ASSUME TypeOK, NEW oc \in OutChannels, NEW ic \in InChannels, NEW left, Dropped(oc, ic, left)
  PROVE  \E k \in At(mapped_to[oc], ic), s \in Seq(Mapping) :
           /\ mapped_to' = [mapped_to EXCEPT ![oc] = s]
           /\ Len(s) = Len(mapped_to[oc]) - 1
           /\ \A j \in 1 .. Len(s) : s[j] = IF j = k THEN PastEnd ELSE mapped_to[oc][j]
<1>1. PICK k \in At(mapped_to[oc], ic) :
        mapped_to' = [mapped_to EXCEPT ![oc] =
          SubSeq([mapped_to[oc] EXCEPT ![k] = PastEnd], 1, Len(mapped_to[oc]) - 1)]
  BY Zenon DEF Dropped, TypeOK
<1> DEFINE t == [mapped_to[oc] EXCEPT ![k] = PastEnd]
           s == SubSeq(t, 1, Len(mapped_to[oc]) - 1)
<1>2. mapped_to[oc] \in Seq(Mapping) /\ k \in 1 .. Len(mapped_to[oc]) /\ Len(mapped_to[oc]) \in Nat
  BY LenProperties DEF TypeOK, At
<1>3. /\ t \in Seq(Mapping) /\ Len(t) = Len(mapped_to[oc])
      /\ \A j \in 1 .. Len(mapped_to[oc]) : t[j] = IF j = k THEN PastEnd ELSE mapped_to[oc][j]
  BY <1>2, ExceptSeq DEF Mapping
<1>4. \A j \in 1 .. Len(mapped_to[oc]) - 1 : t[j] \in Mapping
  BY <1>2, <1>3, ElementOfSeq
<1> HIDE DEF t
<1>5. /\ s \in Seq(Mapping) /\ Len(s) = Len(mapped_to[oc]) - 1
      /\ \A j \in 1 .. Len(mapped_to[oc]) - 1 : s[j] = t[j]
  BY <1>2, <1>4, SubSeqProperties
<1>6. mapped_to' = [mapped_to EXCEPT ![oc] = s]
  BY <1>1 DEF t
<1>7. \A j \in 1 .. Len(s) : s[j] = IF j = k THEN PastEnd ELSE mapped_to[oc][j]
  BY <1>2, <1>3, <1>5
<1> HIDE DEF s
<1> QED
  BY <1>5, <1>6, <1>7, Zenon

\* Types are preserved by the requests of process bodies.
LEMMA TypeRequest ==
  ASSUME TypeOK, NEW oc \in OutChannels, NEW ic \in InChannels, NEW d,
         \/ unmap(oc, ic) \/ unmap_buffered(oc, ic)
         \/ d \in Delays /\ (mapto(oc, ic, d) \/ new_transfer_delay(oc, ic, d))
  PROVE  TypeOK'
<1>0. /\ mapped_to[oc] \in Seq(Mapping) /\ channels_to_map \in Seq(Request)
      /\ delays_to_change \in Seq(Change)
  BY DEF TypeOK
<1>1. CASE unmap(oc, ic)
  <2> DEFINE left == (channels_at_minimum - 1) % CountMod
  <2>1. left \in 0 .. CountMod - 1
    BY ChannelAssumption DEF TypeOK
  <2>2. Dropped(oc, ic, left)
    BY <1>1 DEF unmap
  <2> HIDE DEF left
  <2>3. mapped_to' \in [OutChannels -> Seq(Mapping)]
    BY <2>2, DroppedShape, Zenon DEF TypeOK
  <2>4. channels_at_minimum' \in 0 .. CountMod - 1 /\ recompute' \in BOOLEAN
    BY <2>1, <2>2, Zenon DEF Dropped, TypeOK
  <2> QED
    BY <2>2, <2>3, <2>4 DEF Dropped, TypeOK, clockVars, listVars
<1>2. CASE unmap_buffered(oc, ic)
  <2> DEFINE n == Len(channels_to_map)
  <2>1. PICK k \in DOMAIN channels_to_map :
          channels_to_map' = SubSeq([channels_to_map EXCEPT ![k] = channels_to_map[n]], 1, n - 1)
    BY <1>2, Zenon DEF unmap_buffered
  <2> DEFINE t == [channels_to_map EXCEPT ![k] = channels_to_map[n]]
  <2>2. n \in Nat /\ k \in 1 .. n /\ n \in 1 .. n
    BY <1>0, LenProperties
  <2>3. t \in Seq(Request) /\ Len(t) = n
    BY <1>0, <2>2, ElementOfSeq, ExceptSeq
  <2>4. \A j \in 1 .. n - 1 : t[j] \in Request
    BY <2>2, <2>3, ElementOfSeq
  <2> HIDE DEF t
  <2>5. SubSeq(t, 1, n - 1) \in Seq(Request)
    BY <2>2, <2>4, SubSeqProperties
  <2>6. channels_to_map' \in Seq(Request)
    BY <2>1, <2>5 DEF t
  <2> QED
    BY <1>2, <2>6, Zenon DEF unmap_buffered, TypeOK, clockVars, minVars
<1>3. CASE d \in Delays /\ mapto(oc, ic, d)
  <2>1. [ic |-> ic, delay |-> d] \in Mapping /\ [oc |-> oc, ic |-> ic, delay |-> d] \in Request
    BY <1>3, Zenon DEF Mapping, Request
  <2>2. /\ Append(mapped_to[oc], [ic |-> ic, delay |-> d]) \in Seq(Mapping)
        /\ Append(channels_to_map, [oc |-> oc, ic |-> ic, delay |-> d]) \in Seq(Request)
    BY <1>0, <2>1, AppendProperties
  <2>3. d \in Int
    BY <1>3, ChannelAssumption
  <2> QED
    BY <1>3, <2>2, <2>3, Zenon DEF mapto, TypeOK, clockVars
<1>4. CASE d \in Delays /\ new_transfer_delay(oc, ic, d)
  <2>1. [oc |-> oc, ic |-> ic, delay |-> d] \in Change
    BY <1>4, Zenon DEF Request, Change
  <2>2. Append(delays_to_change, [oc |-> oc, ic |-> ic, delay |-> d]) \in Seq(Change)
    BY <1>0, <2>1, AppendProperties
  <2>3. mapped_to' \in [OutChannels -> Seq(Mapping)]
    <3>1. PICK k \in At(mapped_to[oc], ic) :
            mapped_to' = [mapped_to EXCEPT ![oc][k].delay = d] \/ mapped_to' = mapped_to
      BY <1>4, Zenon DEF new_transfer_delay
    <3>2. [mapped_to EXCEPT ![oc][k].delay = d] \in [OutChannels -> Seq(Mapping)]
      BY <1>4, DelayChangeType, Zenon
    <3> QED
      BY <3>1, <3>2, Zenon DEF TypeOK
  <2>4. delays_to_change' \in Seq(Change) /\ recompute' \in BOOLEAN
    BY <1>4, <2>2, Zenon DEF new_transfer_delay, TypeOK
  <2>5. channels_at_minimum' \in 0 .. CountMod - 1
    <3>1. \/ channels_at_minimum' = (channels_at_minimum + 1) % CountMod
          \/ channels_at_minimum' = channels_at_minimum
      BY <1>4, Zenon DEF new_transfer_delay
    <3> QED
      BY <3>1, ChannelAssumption DEF TypeOK
  <2> QED
    BY <1>4, <2>3, <2>4, <2>5, Zenon DEF new_transfer_delay, TypeOK, clockVars
<1> QED
  BY <1>1, <1>2, <1>3, <1>4

\* Types are preserved by one iteration of the loops at the end of sync_window.
LEMMA TypeKept ==
  ASSUME TypeOK, MapKept \/ ChangeKept
  PROVE  TypeOK'
<1>1. CASE MapKept
  <2> DEFINE m == Head(channels_to_map)
  <2>1. m \in Request /\ Tail(channels_to_map) \in Seq(Request)
    BY <1>1, HeadTailProperties, Zenon DEF MapKept, TypeOK
  <2>2. m.oc \in OutChannels /\ [ic |-> m.ic, delay |-> m.delay] \in Mapping
    BY <2>1 DEF Request, Mapping
  <2>3. Append(mapped_to[m.oc], [ic |-> m.ic, delay |-> m.delay]) \in Seq(Mapping)
    BY <2>2, AppendProperties DEF TypeOK
  <2>4. channels_at_minimum' \in 0 .. CountMod - 1 /\ recompute' \in BOOLEAN
    BY <1>1, NotedType, Zenon DEF MapKept
  <2>5. mapped_to' \in [OutChannels -> Seq(Mapping)]
    BY <1>1, <2>2, <2>3, Zenon DEF MapKept, TypeOK
  <2> QED
    BY <1>1, <2>1, <2>4, <2>5, Zenon DEF MapKept, TypeOK, clockVars
<1>2. CASE ChangeKept
  <2> DEFINE m == Head(delays_to_change)
  <2>1. m \in Change /\ Tail(delays_to_change) \in Seq(Change)
    BY <1>2, HeadTailProperties, Zenon DEF ChangeKept, TypeOK
  <2> HIDE DEF m
  <2>2. /\ mapped_to' \in [OutChannels -> Seq(Mapping)]
        /\ min_write_delay' \in [OutChannels -> WriteDelays]
        /\ channels_at_minimum' \in 0 .. CountMod - 1 /\ recompute' \in BOOLEAN
    <3>1. CASE m.ic = NULL /\ ChangeWrite(m)
      <4>1. m.oc \in OutChannels /\ m.delay \in WriteDelays
        BY <2>1, <3>1, ChannelAssumption, Zenon DEF Change, Request, NULL
      <4> QED
        BY <3>1, <4>1, NotedType, Zenon DEF ChangeWrite, TypeOK, mapVars
    <3>2. CASE m.ic # NULL /\ ChangeTransfer(m)
      <4>1. m.oc \in OutChannels /\ m.ic \in InChannels /\ m.delay \in Delays
        BY <2>1, <3>2 DEF Change, Request
      <4>2. channels_at_minimum' \in 0 .. CountMod - 1 /\ recompute' \in BOOLEAN
        BY <3>2, NotedType DEF ChangeTransfer, TypeOK
      <4>3. \/ \E k \in At(mapped_to[m.oc], m.ic) :
                 mapped_to' = [mapped_to EXCEPT ![m.oc][k].delay = m.delay]
            \/ mapped_to' = mapped_to
        BY <3>2, Zenon DEF ChangeTransfer, mapVars
      <4>4. ASSUME NEW k \in At(mapped_to[m.oc], m.ic)
            PROVE  [mapped_to EXCEPT ![m.oc][k].delay = m.delay] \in [OutChannels -> Seq(Mapping)]
        BY <4>1, DelayChangeType, Zenon
      <4>5. mapped_to' \in [OutChannels -> Seq(Mapping)]
        BY <4>3, <4>4, Zenon DEF TypeOK
      <4> QED
        BY <3>2, <4>2, <4>5, Zenon DEF ChangeTransfer, TypeOK, mapVars
    <3> QED
      BY <1>2, <3>1, <3>2 DEF ChangeKept, m
  <2> QED
    BY <1>2, <2>1, <2>2, Zenon DEF ChangeKept, TypeOK, clockVars, m
<1> QED
  BY <1>1, <1>2

\* Types are preserved by every step.
LEMMA TypeStep == TypeOK /\ InWindow /\ [Next]_vars => TypeOK' /\ InWindow'
<1> SUFFICES ASSUME TypeOK, InWindow, [Next]_vars PROVE TypeOK' /\ InWindow'
  BY SMTT(30)
<1>1. CASE InitModel
  BY <1>1, LookaheadType, CountType DEF InitModel, TypeOK, InWindow, mapVars, listVars
<1>2. ASSUME NEW first \in 0 .. MaxTime, NEW edge \in 0 .. MaxTime, StartWindow(first, edge)
      PROVE  TypeOK' /\ InWindow'
  <2>1. first \in Nat /\ edge \in Nat /\ first < edge /\ LookaheadCovers \in BOOLEAN
    BY <1>2, ChannelAssumption DEF StartWindow, TypeOK, LookaheadCovers
  <2> QED
    BY <1>2, <2>1, Zenon DEF StartWindow, TypeOK, InWindow, mapVars, listVars
<1>3. ASSUME NEW t \in 0 .. MaxTime, NextEvent(t) PROVE TypeOK' /\ InWindow'
  BY <1>3, ChannelAssumption DEF NextEvent, TypeOK, InWindow, mapVars, listVars, minVars
<1>4. ASSUME NEW oc \in OutChannels, NEW ic \in InChannels, NEW d,
             \/ unmap(oc, ic) \/ unmap_buffered(oc, ic)
             \/ d \in Delays /\ (mapto(oc, ic, d) \/ new_transfer_delay(oc, ic, d))
      PROVE  TypeOK' /\ InWindow'
  <2>1. UNCHANGED clockVars
    BY <1>4, Zenon DEF unmap, Dropped, unmap_buffered, mapto, new_transfer_delay
  <2> QED
    BY <1>4, <2>1, TypeRequest DEF InWindow, clockVars
<1>5. ASSUME NEW oc \in OutChannels, NEW d \in WriteDelays, new_min_write_delay(oc, d)
      PROVE  TypeOK' /\ InWindow'
  <2>1. [oc |-> oc, ic |-> NULL, delay |-> d] \in Change
    BY DEF Change
  <2>2. Append(delays_to_change, [oc |-> oc, ic |-> NULL, delay |-> d]) \in Seq(Change)
    BY <2>1, AppendProperties DEF TypeOK
  <2> QED
    BY <1>5, <2>2, Zenon DEF new_min_write_delay, TypeOK, InWindow, clockVars, minVars
<1>6. CASE EndEvents
  BY <1>6, Zenon DEF EndEvents, TypeOK, InWindow, mapVars, listVars, minVars
<1>7. CASE MapKept \/ ChangeKept
  BY <1>7, TypeKept, Zenon DEF MapKept, ChangeKept, InWindow, clockVars
<1>8. CASE EndWindow
  BY <1>8, LookaheadType, CountType DEF EndWindow, TypeOK, InWindow, mapVars, listVars
<1>9. CASE UNCHANGED vars
  BY <1>9, Zenon DEF vars, clockVars, mapVars, listVars, minVars, TypeOK, InWindow
<1> QED
  BY <1>1, <1>2, <1>3, <1>4, <1>5, <1>6, <1>7, <1>8, <1>9, SMTT(30) DEF Next

\* Type correctness of the Timeline's and the OutChannels' fields, the unsigned count
\* of crossings at the minimum included.
THEOREM TypeCorrect == Spec => [](TypeOK /\ InWindow)
<1>1. Init => TypeOK /\ InWindow
  <2>1. <<>> \in Seq(Mapping) /\ <<>> \in Seq(Request) /\ <<>> \in Seq(Change)
    BY EmptySeq, Zenon
  <2>2. CountMod \in Nat \ {0} /\ MaxTime \in Nat
    BY ChannelAssumption
  <2>3. [oc \in OutChannels |-> <<>>] \in [OutChannels -> Seq(Mapping)]
    BY <2>1, Zenon
  <2> SUFFICES ASSUME Init PROVE TypeOK /\ InWindow
    OBVIOUS
  <2>4. mapped_to \in [OutChannels -> Seq(Mapping)]
    BY <2>3, Zenon DEF Init
  <2>5. channels_to_map \in Seq(Request) /\ delays_to_change \in Seq(Change)
    BY <2>1, Zenon DEF Init
  <2>6. now = 0 /\ horizon \in {0, MaxTime} /\ min_delay = -1 /\ channels_at_minimum = 0
    BY Zenon DEF Init
  <2>7. /\ state = "INITIALIZING" /\ recompute \in BOOLEAN /\ sound \in BOOLEAN
        /\ min_write_delay \in [OutChannels -> WriteDelays]
    BY Zenon DEF Init
  <2> QED
    BY <2>2, <2>4, <2>5, <2>6, <2>7 DEF TypeOK, InWindow
<1> QED
  BY <1>1, TypeStep, PTL DEF Spec
-----------------------------------------------------------------------------
(* No InChannel is mapped twice.                                           *)

Distinct(s) == \A j, k \in DOMAIN s : s[j].ic = s[k].ic => j = k

\* Neither the mappings of an OutChannel nor the kept requests repeat an InChannel,
\* and no kept request is for an InChannel that is mapped already.
Once ==
  Intact =>
    /\ \A oc \in OutChannels : Distinct(mapped_to[oc])
    /\ \A j, k \in DOMAIN channels_to_map :
         (channels_to_map[j].oc = channels_to_map[k].oc
            /\ channels_to_map[j].ic = channels_to_map[k].ic) => j = k
    /\ \A k \in DOMAIN channels_to_map :
         At(mapped_to[channels_to_map[k].oc], channels_to_map[k].ic) = {}

\* Changing a delay leaves the InChannels of the mappings alone.
LEMMA OnceDelay ==
  ASSUME TypeOK, Once, NEW oc \in OutChannels, NEW ic \in InChannels,
         NEW k \in At(mapped_to[oc], ic), NEW d \in Delays,
         mapped_to' = [mapped_to EXCEPT ![oc][k].delay = d], UNCHANGED channels_to_map
  PROVE  Once'
<1>0. [mapped_to[oc][k] EXCEPT !.delay = d] = [ic |-> ic, delay |-> d]
  BY DelayChangeType
<1> DEFINE s == [mapped_to[oc] EXCEPT ![k] = [ic |-> ic, delay |-> d]]
<1>1. mapped_to' = [mapped_to EXCEPT ![oc] = s]
  BY <1>0, Zenon
<1>2. mapped_to[oc] \in Seq(Mapping) /\ k \in DOMAIN mapped_to[oc] /\ mapped_to[oc][k].ic = ic
  BY DEF TypeOK, At
<1>3. /\ DOMAIN s = DOMAIN mapped_to[oc]
      /\ \A j \in DOMAIN s : s[j].ic = mapped_to[oc][j].ic
      /\ \A j \in DOMAIN s : j # k => s[j] = mapped_to[oc][j]
  BY <1>2
<1>4. mapped_to[oc][k] # PastEnd
  BY <1>2, ChannelAssumption DEF PastEnd
<1> HIDE DEF s
<1>5. \A c \in OutChannels : mapped_to'[c] = IF c = oc THEN s ELSE mapped_to[c]
  BY <1>1, Zenon DEF TypeOK
<1>6. ASSUME Intact' PROVE Intact
  BY <1>2, <1>3, <1>4, <1>5, <1>6, SMTT(30) DEF Intact
<1>7. \A c \in OutChannels, i \in InChannels : At(mapped_to'[c], i) = At(mapped_to[c], i)
  BY <1>3, <1>5, SMTT(30) DEF At
<1>8. \A j \in DOMAIN channels_to_map : channels_to_map[j] \in Request
  BY ElementOfSeq, LenProperties DEF TypeOK
<1>9. \A c \in OutChannels : Distinct(mapped_to[c]) => Distinct(mapped_to'[c])
  BY <1>3, <1>5 DEF Distinct
<1> QED
  BY <1>6, <1>7, <1>8, <1>9 DEF Once, Request

\* A new mapping to an InChannel that was neither mapped nor asked for.
LEMMA OnceAppend ==
  ASSUME TypeOK, NEW m \in Request, NEW rest \in Seq(Request), At(mapped_to[m.oc], m.ic) = {},
         \A k \in DOMAIN rest : rest[k].oc # m.oc \/ rest[k].ic # m.ic,
         mapped_to' = [mapped_to EXCEPT ![m.oc] = Append(@, [ic |-> m.ic, delay |-> m.delay])]
  PROVE  /\ Intact' => Intact
         /\ \A c \in OutChannels : Distinct(mapped_to[c]) => Distinct(mapped_to'[c])
         /\ \A k \in DOMAIN rest : At(mapped_to[rest[k].oc], rest[k].ic) = {}
                                     => At(mapped_to'[rest[k].oc], rest[k].ic) = {}
<1> DEFINE new == [ic |-> m.ic, delay |-> m.delay]
           s == Append(mapped_to[m.oc], new)
           n == Len(mapped_to[m.oc])
<1>1. m.oc \in OutChannels /\ new \in Mapping /\ mapped_to[m.oc] \in Seq(Mapping)
  BY Zenon DEF Request, Mapping, TypeOK
<1>2. n \in Nat /\ DOMAIN mapped_to[m.oc] = 1 .. n
  BY <1>1, LenProperties, SMTT(30)
<1>3. /\ s \in Seq(Mapping) /\ Len(s) = n + 1 /\ s[n + 1] = new
      /\ \A j \in 1 .. n : s[j] = mapped_to[m.oc][j]
  BY <1>1, AppendProperties
<1>4. DOMAIN s = 1 .. n + 1
  BY <1>3, LenProperties, Zenon
<1>5. new.ic = m.ic
  OBVIOUS
<1>6. \A c \in OutChannels : mapped_to'[c] = IF c = m.oc THEN s ELSE mapped_to[c]
  BY <1>1 DEF TypeOK
<1>7. \A j \in 1 .. n : mapped_to[m.oc][j].ic # m.ic
  BY <1>2, Zenon DEF At
<1> HIDE DEF s, new, n
<1>8. ASSUME NEW c \in OutChannels, NEW k \in DOMAIN mapped_to[c]
      PROVE  k \in DOMAIN mapped_to'[c] /\ mapped_to'[c][k] = mapped_to[c][k]
  BY <1>2, <1>3, <1>4, <1>6, SMTT(30)
<1>9. \A c \in OutChannels : Distinct(mapped_to[c]) => Distinct(mapped_to'[c])
  BY <1>2, <1>3, <1>4, <1>5, <1>6, <1>7, SMTT(30) DEF Distinct
<1>10. \A c \in OutChannels, i \in InChannels :
         (c # m.oc \/ i # m.ic) /\ At(mapped_to[c], i) = {} => At(mapped_to'[c], i) = {}
  BY <1>2, <1>3, <1>4, <1>5, <1>6, SMTT(30) DEF At
<1>11. \A k \in DOMAIN rest : rest[k] \in Request
  BY ElementOfSeq, LenProperties, SMTT(30)
<1>12. Intact' => Intact
  BY <1>8, SMTT(30) DEF Intact
<1> QED
  BY <1>9, <1>10, <1>11, <1>12, Zenon DEF Request

\* unmap of an established mapping: either the cell behind the end is left in the
\* vector, or the last mapping was the one to go.
LEMMA OnceUnmap ==
  ASSUME TypeOK, Once, NEW oc \in OutChannels, NEW ic \in InChannels, unmap(oc, ic)
  PROVE  Once'
<1>1. Intact /\ UNCHANGED channels_to_map
  BY Zenon DEF unmap, Dropped, Calling, listVars
<1>2. PICK k \in At(mapped_to[oc], ic), s \in Seq(Mapping) :
           /\ mapped_to' = [mapped_to EXCEPT ![oc] = s]
           /\ Len(s) = Len(mapped_to[oc]) - 1
           /\ \A j \in 1 .. Len(s) : s[j] = IF j = k THEN PastEnd ELSE mapped_to[oc][j]
  BY DroppedShape DEF unmap
<1>3. \A c \in OutChannels : mapped_to'[c] = IF c = oc THEN s ELSE mapped_to[c]
  BY <1>2 DEF TypeOK
<1>4. /\ Len(s) \in Nat /\ DOMAIN s = 1 .. Len(s)
      /\ DOMAIN mapped_to[oc] = 1 .. Len(s) + 1
  BY <1>2, LenProperties DEF TypeOK
<1> SUFFICES ASSUME Intact' PROVE Once'
  BY Zenon DEF Once
<1>5. \A j \in DOMAIN s : s[j] # PastEnd
  BY <1>3 DEF Intact
<1>6. \A j \in DOMAIN s : j \in DOMAIN mapped_to[oc] /\ s[j] = mapped_to[oc][j]
  BY <1>2, <1>4, <1>5
<1>7. \A c \in OutChannels : Distinct(mapped_to[c]) => Distinct(mapped_to'[c])
  BY <1>3, <1>6, SMTT(30) DEF Distinct
<1>8. \A c \in OutChannels, i \in InChannels : At(mapped_to[c], i) = {} => At(mapped_to'[c], i) = {}
  BY <1>3, <1>6 DEF At
<1>9. \A j \in DOMAIN channels_to_map : channels_to_map[j] \in Request
  BY ElementOfSeq, LenProperties DEF TypeOK
<1> QED
  BY <1>1, <1>7, <1>8, <1>9, Zenon DEF Once, Request

\* unmap of a kept request.
LEMMA OnceUnmapBuffered ==
  ASSUME TypeOK, Once, NEW oc \in OutChannels, NEW ic \in InChannels, unmap_buffered(oc, ic)
  PROVE  Once'
<1> DEFINE n == Len(channels_to_map)
<1>1. PICK k \in DOMAIN channels_to_map :
        channels_to_map' = SubSeq([channels_to_map EXCEPT ![k] = channels_to_map[n]], 1, n - 1)
  BY Zenon DEF unmap_buffered
<1> DEFINE t == [channels_to_map EXCEPT ![k] = channels_to_map[n]]
<1>2. channels_to_map \in Seq(Request) /\ n \in Nat /\ DOMAIN channels_to_map = 1 .. n /\ k \in 1 .. n
  BY LenProperties DEF TypeOK
<1>3. \A j \in 1 .. n : t[j] = IF j = k THEN channels_to_map[n] ELSE channels_to_map[j]
  BY <1>2
<1>4. \A j \in 1 .. n - 1 : t[j] \in Request
  BY <1>2, <1>3, ElementOfSeq
<1> HIDE DEF t
<1>5. /\ SubSeq(t, 1, n - 1) \in Seq(Request) /\ Len(SubSeq(t, 1, n - 1)) = n - 1
      /\ \A j \in 1 .. n - 1 : SubSeq(t, 1, n - 1)[j] = t[j]
  BY <1>2, <1>4, SubSeqProperties
<1>6. DOMAIN SubSeq(t, 1, n - 1) = 1 .. n - 1
  BY <1>5, LenProperties
<1>7. channels_to_map' = SubSeq(t, 1, n - 1)
  BY <1>1 DEF t
<1> DEFINE From(j) == IF j = k THEN n ELSE j
<1>8. \A j \in DOMAIN channels_to_map' :
        From(j) \in DOMAIN channels_to_map /\ channels_to_map'[j] = channels_to_map[From(j)]
  BY <1>2, <1>3, <1>5, <1>6, <1>7
<1>9. \A i, j \in DOMAIN channels_to_map' : From(i) = From(j) => i = j
  BY <1>2, <1>6, <1>7, SMTT(30)
<1> HIDE DEF From, n
<1>10. UNCHANGED mapped_to /\ Intact
  BY Zenon DEF unmap_buffered, Calling
<1> QED
  BY <1>8, <1>9, <1>10, SMTT(30) DEF Once

\* mapto, at once or kept for the end of the window.
LEMMA OnceMapto ==
  ASSUME TypeOK, Once, NEW oc \in OutChannels, NEW ic \in InChannels, NEW d \in Delays,
         mapto(oc, ic, d)
  PROVE  Once'
<1> DEFINE m == [oc |-> oc, ic |-> ic, delay |-> d]
<1>1. m \in Request /\ m.oc = oc /\ m.ic = ic /\ m.delay = d
  BY DEF Request
<1>2. /\ Intact /\ At(mapped_to[oc], ic) = {}
      /\ \A k \in DOMAIN channels_to_map : channels_to_map[k].oc # oc \/ channels_to_map[k].ic # ic
  BY DEF mapto, Calling, Acceptable
<1>3. channels_to_map \in Seq(Request)
  BY DEF TypeOK
<1>4. CASE state # "RUNNING"
  <2>1. /\ mapped_to' = [mapped_to EXCEPT ![m.oc] = Append(@, [ic |-> m.ic, delay |-> m.delay])]
        /\ UNCHANGED channels_to_map
    BY <1>4, Zenon DEF mapto
  <2> HIDE DEF m
  <2>2. /\ Intact' => Intact
        /\ \A c \in OutChannels : Distinct(mapped_to[c]) => Distinct(mapped_to'[c])
        /\ \A k \in DOMAIN channels_to_map :
             At(mapped_to[channels_to_map[k].oc], channels_to_map[k].ic) = {}
               => At(mapped_to'[channels_to_map[k].oc], channels_to_map[k].ic) = {}
    BY <1>1, <1>2, <1>3, <2>1, OnceAppend, Zenon
  <2> QED
    BY <1>2, <2>1, <2>2, Zenon DEF Once
<1>5. CASE state = "RUNNING"
  <2> DEFINE n == Len(channels_to_map)
  <2>1. UNCHANGED mapped_to /\ channels_to_map' = Append(channels_to_map, m)
    BY <1>5, Zenon DEF mapto
  <2> HIDE DEF m
  <2>2. n \in Nat /\ DOMAIN channels_to_map = 1 .. n
    BY <1>3, LenProperties
  <2>3. /\ channels_to_map' \in Seq(Request) /\ Len(channels_to_map') = n + 1
        /\ channels_to_map'[n + 1] = m
        /\ \A j \in 1 .. n : channels_to_map'[j] = channels_to_map[j]
    BY <1>1, <1>3, <2>1, AppendProperties
  <2>4. DOMAIN channels_to_map' = 1 .. n + 1
    BY <2>3, LenProperties, Zenon
  <2> HIDE DEF n
  <2>5. \A j \in DOMAIN channels_to_map' :
          \/ j = n + 1 /\ channels_to_map'[j] = m
          \/ j \in DOMAIN channels_to_map /\ channels_to_map'[j] = channels_to_map[j]
    BY <2>2, <2>3, <2>4
  <2>6. \A i, j \in DOMAIN channels_to_map' :
          (channels_to_map'[i].oc = channels_to_map'[j].oc
             /\ channels_to_map'[i].ic = channels_to_map'[j].ic) => i = j
    BY <1>1, <1>2, <2>5, SMTT(30) DEF Once
  <2>7. \A k \in DOMAIN channels_to_map' :
          At(mapped_to[channels_to_map'[k].oc], channels_to_map'[k].ic) = {}
    BY <1>1, <1>2, <2>5, Zenon DEF Once
  <2> QED
    BY <1>2, <2>1, <2>6, <2>7, Zenon DEF Once
<1> QED
  BY <1>4, <1>5

\* One iteration over the kept mappings moves the first of them.
LEMMA OnceMapKept ==
  ASSUME TypeOK, Once, MapKept
  PROVE  Once'
<1> DEFINE m == Head(channels_to_map)
           rest == Tail(channels_to_map)
           n == Len(rest)
<1>1. /\ channels_to_map \in Seq(Request) /\ channels_to_map # <<>> /\ channels_to_map' = rest
      /\ mapped_to' = [mapped_to EXCEPT ![m.oc] = Append(@, [ic |-> m.ic, delay |-> m.delay])]
  BY Zenon DEF MapKept, TypeOK
<1>2. /\ m \in Request /\ rest \in Seq(Request) /\ Len(channels_to_map) = n + 1
      /\ \A j \in 1 .. n : rest[j] = channels_to_map[j + 1]
  BY <1>1, HeadTailProperties, LenProperties
<1>3. n \in Nat /\ DOMAIN rest = 1 .. n /\ DOMAIN channels_to_map = 1 .. n + 1
  BY <1>1, <1>2, LenProperties, Zenon
<1>4. m = channels_to_map[1]
  BY <1>1, SMTT(30)
<1> HIDE DEF m, rest, n
<1>5. Intact' => Intact
  <2>1. m.oc \in OutChannels /\ [ic |-> m.ic, delay |-> m.delay] \in Mapping
    BY <1>2 DEF Request, Mapping
  <2>2. ASSUME NEW c \in OutChannels, NEW k \in DOMAIN mapped_to[c]
        PROVE  k \in DOMAIN mapped_to'[c] /\ mapped_to'[c][k] = mapped_to[c][k]
    <3>1. mapped_to[c] \in Seq(Mapping)
      BY DEF TypeOK
    <3>2. CASE c = m.oc
      <4>1. mapped_to'[c] = Append(mapped_to[c], [ic |-> m.ic, delay |-> m.delay])
        BY <1>1, <3>2, Zenon DEF TypeOK
      <4>2. k \in 1 .. Len(mapped_to[c]) /\ Len(mapped_to[c]) \in Nat
        BY <3>1, LenProperties
      <4> QED
        BY <2>1, <3>1, <4>1, <4>2, AppendProperties, LenProperties
    <3>3. CASE c # m.oc
      BY <1>1, <3>3, Zenon DEF TypeOK
    <3> QED
      BY <3>2, <3>3
  <2> QED
    BY <2>2 DEF Intact
<1> SUFFICES ASSUME Intact' PROVE Once'
  BY Zenon DEF Once
<1>6. /\ At(mapped_to[m.oc], m.ic) = {}
      /\ \A k \in DOMAIN rest : rest[k].oc # m.oc \/ rest[k].ic # m.ic
      /\ \A k \in DOMAIN rest : At(mapped_to[rest[k].oc], rest[k].ic) = {}
      /\ \A j, k \in DOMAIN rest : (rest[j].oc = rest[k].oc /\ rest[j].ic = rest[k].ic) => j = k
      /\ \A c \in OutChannels : Distinct(mapped_to[c])
  <2>1. 1 \in DOMAIN channels_to_map
    BY <1>3
  <2>2. \A k \in DOMAIN rest : /\ k \in Int /\ k + 1 \in DOMAIN channels_to_map
                               /\ k + 1 # 1 /\ rest[k] = channels_to_map[k + 1]
    BY <1>2, <1>3
  <2>3. At(mapped_to[m.oc], m.ic) = {} /\ \A c \in OutChannels : Distinct(mapped_to[c])
    BY <1>4, <1>5, <2>1, Zenon DEF Once
  <2>4. \A k \in DOMAIN rest : /\ rest[k].oc # m.oc \/ rest[k].ic # m.ic
                               /\ At(mapped_to[rest[k].oc], rest[k].ic) = {}
    BY <1>4, <1>5, <2>1, <2>2, SMTT(30) DEF Once
  <2>5. \A j, k \in DOMAIN rest : (rest[j].oc = rest[k].oc /\ rest[j].ic = rest[k].ic) => j + 1 = k + 1
    BY <1>5, <2>2, SMTT(30) DEF Once
  <2>6. \A j, k \in DOMAIN rest : (rest[j].oc = rest[k].oc /\ rest[j].ic = rest[k].ic) => j = k
    BY <2>2, <2>5
  <2> QED
    BY <2>3, <2>4, <2>6
<1>7. /\ \A c \in OutChannels : Distinct(mapped_to'[c])
      /\ \A k \in DOMAIN rest : At(mapped_to'[rest[k].oc], rest[k].ic) = {}
  BY <1>1, <1>2, <1>6, OnceAppend, Zenon
<1> QED
  BY <1>1, <1>6, <1>7, Zenon DEF Once

\* Every step preserves it.
LEMMA OnceStep == TypeOK /\ Once /\ [Next]_vars => Once'
<1> SUFFICES ASSUME TypeOK, Once, [Next]_vars PROVE Once'
  BY SMTT(30)
<1>0. ASSUME UNCHANGED <<mapped_to, channels_to_map>> PROVE Once'
  BY <1>0 DEF Once, Intact
<1>1. CASE InitModel \/ EndEvents \/ EndWindow
  BY <1>0, <1>1 DEF InitModel, EndEvents, EndWindow, mapVars, listVars
<1>2. ASSUME NEW first \in 0 .. MaxTime, NEW edge \in 0 .. MaxTime, StartWindow(first, edge)
      PROVE  Once'
  BY <1>0, <1>2 DEF StartWindow, mapVars, listVars
<1>3. ASSUME NEW t \in 0 .. MaxTime, NextEvent(t) PROVE Once'
  BY <1>0, <1>3 DEF NextEvent, mapVars, listVars
<1>4. ASSUME NEW oc \in OutChannels, NEW ic \in InChannels, NEW d \in Delays,
             new_transfer_delay(oc, ic, d)
      PROVE  Once'
  <2>1. UNCHANGED channels_to_map
    BY <1>4, Zenon DEF new_transfer_delay
  <2>2. PICK k \in At(mapped_to[oc], ic) :
          mapped_to' = [mapped_to EXCEPT ![oc][k].delay = d] \/ mapped_to' = mapped_to
    BY <1>4, Zenon DEF new_transfer_delay
  <2> QED
    BY <1>0, <2>1, <2>2, OnceDelay
<1>5. ASSUME NEW oc \in OutChannels, NEW d \in WriteDelays, new_min_write_delay(oc, d)
      PROVE  Once'
  BY <1>0, <1>5, Zenon DEF new_min_write_delay
<1>6. CASE ChangeKept
  <2> DEFINE m == Head(delays_to_change)
  <2>1. UNCHANGED channels_to_map /\ m \in Change
    BY <1>6, HeadTailProperties, Zenon DEF ChangeKept, TypeOK
  <2> HIDE DEF m
  <2>2. CASE m.ic = NULL /\ ChangeWrite(m)
    BY <1>0, <2>1, <2>2, Zenon DEF ChangeWrite, mapVars
  <2>3. CASE m.ic # NULL /\ ChangeTransfer(m)
    <3>1. m.oc \in OutChannels /\ m.ic \in InChannels /\ m.delay \in Delays
      BY <2>1, <2>3, Zenon DEF Change, Request
    <3>2. \/ \E k \in At(mapped_to[m.oc], m.ic) :
                 mapped_to' = [mapped_to EXCEPT ![m.oc][k].delay = m.delay]
          \/ mapped_to' = mapped_to
      BY <2>3, Zenon DEF ChangeTransfer, mapVars
    <3>3. ASSUME NEW k \in At(mapped_to[m.oc], m.ic),
                 mapped_to' = [mapped_to EXCEPT ![m.oc][k].delay = m.delay]
          PROVE  Once'
      BY <2>1, <3>1, <3>3, OnceDelay, Zenon
    <3> QED
      BY <1>0, <2>1, <3>2, <3>3, Zenon
  <2> QED
    BY <1>6, <2>2, <2>3, Zenon DEF ChangeKept, m
<1>7. CASE UNCHANGED vars
  BY <1>0, <1>7, Zenon DEF vars, mapVars, listVars
<1>8. CASE MapKept
  BY <1>8, OnceMapKept
<1>9. ASSUME NEW oc \in OutChannels, NEW ic \in InChannels,
             \/ unmap(oc, ic) \/ unmap_buffered(oc, ic) \/ \E d \in Delays : mapto(oc, ic, d)
      PROVE  Once'
  BY <1>9, OnceUnmap, OnceUnmapBuffered, OnceMapto, Zenon
<1> QED
  BY <1>1, <1>2, <1>3, <1>4, <1>5, <1>6, <1>7, <1>8, <1>9, Zenon DEF Next

\* A set of positions with at most one element counts at most one.
LEMMA AtMostOne ==
  ASSUME NEW S, NEW T, IsFiniteSet(S), IsFiniteSet(T), \A x, y \in S : x = y,
         \A x, y \in T : x = y, S = {} \/ T = {}
  PROVE  Cardinality(S) + Cardinality(T) <= 1
<1>1. ASSUME NEW U, IsFiniteSet(U), \A x, y \in U : x = y
      PROVE  (Cardinality(U) = 0 /\ U = {}) \/ (Cardinality(U) = 1 /\ U # {})
  <2>1. CASE U = {}
    <3>1. Cardinality({}) = 0
      BY FS_EmptySet, Zenon
    <3>2. Cardinality(U) = 0
      BY <2>1, <3>1
    <3> QED
      BY <2>1, <3>2
  <2>2. CASE U # {}
    <3>1. PICK x : U = {x}
      BY <1>1, <2>2
    <3> QED
      BY <3>1, <2>2, FS_Singleton
  <2> QED
    BY <2>1, <2>2, Zenon
<1>2. (Cardinality(S) = 0 /\ S = {}) \/ (Cardinality(S) = 1 /\ S # {})
  BY <1>1
<1>3. (Cardinality(T) = 0 /\ T = {}) \/ (Cardinality(T) = 1 /\ T # {})
  BY <1>1
<1> QED
  BY <1>2, <1>3, SMTT(30)

\* No InChannel is mapped, or about to be mapped, twice to an OutChannel, whatever
\* mapto, unmap and the end of sync_window do: a write is delivered to it once.
THEOREM MappingsOnce == Spec => []MappedOnce
<1>1. Init => Once
  <2> SUFFICES ASSUME Init PROVE Once
    OBVIOUS
  <2>0. DOMAIN <<>> = {}
    OBVIOUS
  <2>1. \A oc \in OutChannels : DOMAIN mapped_to[oc] = {}
    BY <2>0 DEF Init
  <2>2. DOMAIN channels_to_map = {}
    BY <2>0 DEF Init
  <2> QED
    BY <2>1, <2>2, Zenon DEF Once, Distinct
<1>2. TypeOK /\ Once => MappedOnce
  <2> SUFFICES ASSUME TypeOK, Once, Intact, NEW oc \in OutChannels, NEW ic \in InChannels
               PROVE  Cardinality(At(mapped_to[oc], ic))
                        + Cardinality({k \in DOMAIN channels_to_map :
                            channels_to_map[k].oc = oc /\ channels_to_map[k].ic = ic}) <= 1
    BY Zenon DEF MappedOnce
  <2> DEFINE S == At(mapped_to[oc], ic)
             T == {k \in DOMAIN channels_to_map :
                     channels_to_map[k].oc = oc /\ channels_to_map[k].ic = ic}
  <2>1. S \subseteq 1 .. Len(mapped_to[oc]) /\ T \subseteq 1 .. Len(channels_to_map)
    BY LenProperties DEF At, TypeOK
  <2>2. IsFiniteSet(1 .. Len(mapped_to[oc])) /\ IsFiniteSet(1 .. Len(channels_to_map))
    BY FS_Interval, LenProperties DEF TypeOK
  <2>3. IsFiniteSet(S) /\ IsFiniteSet(T)
    BY <2>1, <2>2, FS_Subset, Zenon
  <2>4. \A x, y \in S : x = y
    BY Zenon DEF Once, Distinct, At
  <2>5. \A x, y \in T : x = y
    BY DEF Once
  <2>6. S = {} \/ T = {}
    BY Zenon DEF Once
  <2> HIDE DEF S, T
  <2>7. Cardinality(S) + Cardinality(T) <= 1
    BY <2>3, <2>4, <2>5, <2>6, AtMostOne
  <2> QED
    BY <2>7 DEF S, T
<1> QED
  BY <1>1, <1>2, OnceStep, TypeCorrect, PTL DEF Spec
-----------------------------------------------------------------------------
(* The promise of a window.                                                *)

\* While a window begun with a sound lookahead runs, its upper edge is at most the
\* lookahead away.
EdgeInReach == state = "RUNNING" /\ sound /\ min_delay >= 0 => horizon <= now + min_delay

\* What the promise says of one mapping.
LEMMA PromiseOfMapping ==
  ASSUME TypeOK, state = "RUNNING", sound
  PROVE  WindowKeepsPromise <=>
           \A oc \in OutChannels : \A k \in DOMAIN mapped_to[oc] :
             mapped_to[oc][k].ic \in Crossing =>
               horizon <= now + (min_write_delay[oc] + mapped_to[oc][k].delay)
BY Zenon DEF WindowKeepsPromise, CrossDelays

\* The delay of a crossing mapping.
LEMMA CrossingDelay ==
  ASSUME TypeOK, NEW oc \in OutChannels, NEW k \in DOMAIN mapped_to[oc],
         mapped_to[oc][k].ic \in Crossing
  PROVE  mapped_to[oc][k].delay \in Nat /\ min_write_delay[oc] \in Nat
<1>1. mapped_to[oc] \in Seq(Mapping)
  BY Zenon DEF TypeOK
<1>2. mapped_to[oc][k] \in Mapping
  BY <1>1, ElementOfSeq, LenProperties
<1>3. mapped_to[oc][k] \in [ic : InChannels, delay : Delays]
  BY <1>2, ChannelAssumption, SMTT(30) DEF Mapping, PastEnd
<1> QED
  BY <1>3, ChannelAssumption, Zenon DEF TypeOK

\* A request of a process body moves nothing below the upper edge of the window.
LEMMA PromiseRequest ==
  ASSUME TypeOK, WindowKeepsPromise, EdgeInReach, state = "RUNNING", sound,
         NEW oc \in OutChannels, NEW ic \in InChannels, NEW d,
         UNCHANGED <<state, now, horizon, sound>>,
         \/ unmap(oc, ic) \/ unmap_buffered(oc, ic)
         \/ d \in Delays /\ (mapto(oc, ic, d) \/ new_transfer_delay(oc, ic, d)),
         TypeOK'
  PROVE  WindowKeepsPromise'
<1>0. \A c \in OutChannels : \A k \in DOMAIN mapped_to[c] :
        mapped_to[c][k].ic \in Crossing =>
          horizon <= now + (min_write_delay[c] + mapped_to[c][k].delay)
  BY PromiseOfMapping, Zenon
<1> SUFFICES ASSUME NEW c \in OutChannels, NEW k \in DOMAIN mapped_to'[c],
                    mapped_to'[c][k].ic \in Crossing
             PROVE  horizon <= now + (min_write_delay'[c] + mapped_to'[c][k].delay)
  BY Zenon DEF WindowKeepsPromise, CrossDelays
<1>1. CASE unmap(oc, ic)
  <2>1. PICK j \in At(mapped_to[oc], ic), s \in Seq(Mapping) :
           /\ mapped_to' = [mapped_to EXCEPT ![oc] = s]
           /\ Len(s) = Len(mapped_to[oc]) - 1
           /\ \A i \in 1 .. Len(s) : s[i] = IF i = j THEN PastEnd ELSE mapped_to[oc][i]
    BY <1>1, DroppedShape, SMTT(30) DEF unmap
  <2>2. PastEnd.ic \notin Crossing
    BY ChannelAssumption, Zenon DEF PastEnd
  <2>3. mapped_to'[c] = IF c = oc THEN s ELSE mapped_to[c]
    BY <2>1, Zenon DEF TypeOK
  <2>4. /\ Len(s) \in Nat /\ DOMAIN s = 1 .. Len(s) /\ DOMAIN mapped_to[oc] = 1 .. Len(s) + 1
    BY <2>1, LenProperties, SMTT(30) DEF TypeOK
  <2>5. k \in DOMAIN mapped_to[c] /\ mapped_to'[c][k] = mapped_to[c][k]
    BY <2>1, <2>2, <2>3, <2>4, SMTT(30)
  <2>6. UNCHANGED min_write_delay
    BY <1>1, Zenon DEF unmap, Dropped
  <2> QED
    BY <1>0, <2>5, <2>6, Zenon
<1>2. CASE unmap_buffered(oc, ic)
  BY <1>0, <1>2, Zenon DEF unmap_buffered
<1>3. CASE mapto(oc, ic, d)
  BY <1>0, <1>3, Zenon DEF mapto
<1>4. CASE d \in Delays /\ new_transfer_delay(oc, ic, d)
  <2>0. UNCHANGED min_write_delay
    BY <1>4, Zenon DEF new_transfer_delay
  <2>1. PICK j \in At(mapped_to[oc], ic) :
          \/ /\ AtOnce(oc, ic, mapped_to[oc][j].delay, d)
             /\ mapped_to' = [mapped_to EXCEPT ![oc][j].delay = d]
          \/ mapped_to' = mapped_to
    BY <1>4, Zenon DEF new_transfer_delay
  <2>2. CASE mapped_to' = mapped_to
    BY <1>0, <2>0, <2>2, Zenon
  <2>3. CASE /\ AtOnce(oc, ic, mapped_to[oc][j].delay, d)
             /\ mapped_to' = [mapped_to EXCEPT ![oc][j].delay = d]
    <3>1. [mapped_to[oc][j] EXCEPT !.delay = d] = [ic |-> ic, delay |-> d]
      BY <1>4, DelayChangeType
    <3>2. mapped_to' = [mapped_to EXCEPT ![oc] = [mapped_to[oc] EXCEPT ![j] = [ic |-> ic, delay |-> d]]]
      BY <2>3, <3>1, Zenon
    <3>3. mapped_to'[c] = IF c = oc THEN [mapped_to[oc] EXCEPT ![j] = [ic |-> ic, delay |-> d]]
                          ELSE mapped_to[c]
      BY <3>2, Zenon DEF TypeOK
    <3>4. j \in DOMAIN mapped_to[oc] /\ mapped_to[oc][j].ic = ic
      BY Zenon DEF At
    <3>5. k \in DOMAIN mapped_to[c]
      BY <3>3, <3>4, Zenon
    <3>6. CASE c # oc \/ k # j
      <4>1. mapped_to'[c][k] = mapped_to[c][k]
        BY <3>3, <3>4, <3>5, <3>6, SMTT(30)
      <4> QED
        BY <1>0, <2>0, <3>5, <4>1, ZenonT(60)
    <3>7. CASE c = oc /\ k = j
      <4>1. mapped_to'[c][k] = [ic |-> ic, delay |-> d]
        BY <3>3, <3>4, <3>7, ZenonT(60)
      <4>2. ic \in Crossing /\ mapped_to'[c][k].delay = d
        BY <4>1, SMTT(30)
      <4>3. /\ d \in Nat /\ min_write_delay[oc] \in Nat /\ now \in Nat /\ horizon \in Nat
            /\ min_delay \in Int /\ mapped_to[oc][j].delay \in Nat
        BY <1>4, <3>4, <4>2, CrossingDelay, ChannelAssumption, ZenonT(60) DEF TypeOK
      <4>4. horizon <= now + (min_write_delay[oc] + mapped_to[oc][j].delay)
        BY <1>0, <3>4, <4>2, SMTT(30)
      <4>5. horizon <= now + (min_write_delay[oc] + d)
        BY <2>3, <4>2, <4>3, <4>4, SMTT(30) DEF AtOnce, EdgeInReach
      <4> QED
        BY <2>0, <3>7, <4>2, <4>5, Zenon
    <3> QED
      BY <3>6, <3>7, Zenon
  <2> QED
    BY <2>1, <2>2, <2>3, Zenon
<1> QED
  BY <1>1, <1>2, <1>3, <1>4, Zenon

\* A new minimum write delay is put in place at once only where it keeps the promise.
LEMMA PromiseWriteDelay ==
  ASSUME TypeOK, WindowKeepsPromise, state = "RUNNING", sound,
         NEW oc \in OutChannels, NEW mwd \in WriteDelays, new_min_write_delay(oc, mwd)
  PROVE  WindowKeepsPromise'
<1>0. \A c \in OutChannels : \A k \in DOMAIN mapped_to[c] :
        mapped_to[c][k].ic \in Crossing =>
          horizon <= now + (min_write_delay[c] + mapped_to[c][k].delay)
  BY PromiseOfMapping, Zenon
<1>1. UNCHANGED <<state, now, horizon, sound, mapped_to>>
  BY Zenon DEF new_min_write_delay, clockVars
<1> SUFFICES ASSUME NEW c \in OutChannels, NEW k \in DOMAIN mapped_to[c],
                    mapped_to[c][k].ic \in Crossing
             PROVE  horizon <= now + (min_write_delay'[c] + mapped_to[c][k].delay)
  BY <1>1, Zenon DEF WindowKeepsPromise, CrossDelays
<1>2. CASE min_write_delay'[c] = min_write_delay[c]
  BY <1>0, <1>2, Zenon
<1>3. CASE min_write_delay'[c] # min_write_delay[c]
  <2>1. /\ c = oc /\ min_write_delay'[c] = mwd
        /\ min_write_delay[oc] <= mwd \/ horizon <= mwd + min_xtransfer_delay(mapped_to, oc)
    BY <1>3, Zenon DEF new_min_write_delay, TypeOK
  <2>2. /\ mapped_to[c][k].delay \in Nat /\ min_write_delay[oc] \in Nat /\ mwd \in Nat
        /\ now \in Nat /\ horizon \in Nat
    BY <2>1, CrossingDelay, ChannelAssumption, ZenonT(60) DEF TypeOK
  <2>3. CASE min_write_delay[oc] <= mwd
    <3>1. horizon <= now + (min_write_delay[c] + mapped_to[c][k].delay)
      BY <1>0, Zenon
    <3> QED
      BY <2>1, <2>2, <2>3, <3>1, SMTT(30)
  <2>4. CASE horizon <= mwd + min_xtransfer_delay(mapped_to, oc)
    <3> DEFINE S == CrossDelays(mapped_to, [x \in OutChannels |-> 0], oc)
    <3>1. [x \in OutChannels |-> 0] \in [OutChannels -> Nat]
      BY Zenon
    <3>2. S \subseteq Nat
      BY <3>1, CrossDelaysType, Zenon DEF TypeOK
    <3>3. 0 + mapped_to[c][k].delay \in S
      BY <2>1, Zenon DEF CrossDelays
    <3>4. mapped_to[c][k].delay \in S
      BY <2>2, <3>3, SMTT(30)
    <3>5. LeastOrNone(S) \in Nat /\ LeastOrNone(S) <= mapped_to[c][k].delay
      BY <3>2, <3>4, LeastOrNoneType, Zenon
    <3>6. min_xtransfer_delay(mapped_to, oc) = LeastOrNone(S)
      BY Zenon DEF min_xtransfer_delay
    <3> HIDE DEF S
    <3> QED
      BY <2>1, <2>2, <2>4, <3>5, <3>6, SMTT(30)
  <2> QED
    BY <2>1, <2>3, <2>4, Zenon
<1> QED
  BY <1>2, <1>3, Zenon

\* Every step preserves the promise and the distance of the edge.
LEMMA PromiseStep ==
  ASSUME TypeOK, TypeOK', WindowKeepsPromise, EdgeInReach, [Next]_vars
  PROVE  WindowKeepsPromise' /\ EdgeInReach'
<1>0. ASSUME UNCHANGED <<state, now, horizon, sound, min_delay>>,
             state = "RUNNING" /\ sound => WindowKeepsPromise'
      PROVE  WindowKeepsPromise' /\ EdgeInReach'
  BY <1>0, Zenon DEF WindowKeepsPromise, EdgeInReach
<1>1. CASE InitModel \/ EndEvents \/ MapKept \/ ChangeKept \/ EndWindow
  <2>1. state' # "RUNNING"
    BY <1>1, Zenon DEF InitModel, EndEvents, MapKept, ChangeKept, EndWindow, clockVars
  <2> QED
    BY <2>1 DEF WindowKeepsPromise, EdgeInReach
<1>2. ASSUME NEW first \in 0 .. MaxTime, NEW edge \in 0 .. MaxTime, StartWindow(first, edge)
      PROVE  WindowKeepsPromise' /\ EdgeInReach'
  <2> SUFFICES ASSUME sound' PROVE WindowKeepsPromise' /\ EdgeInReach'
    BY Zenon DEF WindowKeepsPromise, EdgeInReach
  <2>1. /\ LookaheadCovers /\ now' = first /\ horizon' = edge
        /\ UNCHANGED <<mapped_to, min_write_delay, min_delay>>
        /\ min_delay >= 0 => edge <= first + min_delay
    BY <1>2 DEF StartWindow, mapVars
  <2>2. first \in Nat /\ edge \in Nat /\ min_delay \in Int
    BY ChannelAssumption DEF TypeOK
  <2>3. EdgeInReach'
    BY <2>1, <2>2 DEF EdgeInReach
  <2>4. ASSUME NEW oc \in OutChannels, NEW d \in CrossDelays(mapped_to, min_write_delay, oc)
        PROVE  edge <= first + d
    <3>1. min_write_delay \in [OutChannels -> Nat]
      BY ChannelAssumption, Zenon DEF TypeOK
    <3>2. d \in Nat
      BY <3>1, CrossDelaysType, Zenon DEF TypeOK
    <3>3. min_delay >= 0 /\ min_delay <= d
      BY <2>1, Zenon DEF LookaheadCovers
    <3> QED
      BY <2>1, <2>2, <3>2, <3>3
  <2>5. WindowKeepsPromise'
    BY <2>1, <2>4, Zenon DEF WindowKeepsPromise, CrossDelays
  <2> QED
    BY <2>3, <2>5
<1>3. ASSUME NEW t \in 0 .. MaxTime, NextEvent(t)
      PROVE  WindowKeepsPromise' /\ EdgeInReach'
  <2>1. /\ t \in Nat /\ now' = t /\ now < t /\ state = "RUNNING" /\ now \in Nat /\ horizon \in Nat
        /\ UNCHANGED <<state, horizon, sound, mapped_to, min_write_delay, min_delay>>
    BY <1>3, ChannelAssumption, SMTT(30) DEF NextEvent, TypeOK, mapVars, minVars
  <2>2. EdgeInReach'
    BY <2>1, SMTT(30) DEF EdgeInReach, TypeOK
  <2>3. ASSUME sound, NEW oc \in OutChannels, NEW d \in CrossDelays(mapped_to, min_write_delay, oc)
        PROVE  horizon <= t + d
    <3>1. min_write_delay \in [OutChannels -> Nat]
      BY ChannelAssumption, Zenon DEF TypeOK
    <3>2. d \in Nat
      BY <3>1, CrossDelaysType, Zenon DEF TypeOK
    <3>3. horizon <= now + d
      BY <2>1, <2>3, Zenon DEF WindowKeepsPromise
    <3> QED
      BY <2>1, <3>2, <3>3
  <2>4. WindowKeepsPromise'
    BY <2>1, <2>3, SMTT(30) DEF WindowKeepsPromise, CrossDelays
  <2> QED
    BY <2>2, <2>4, Zenon
<1>4. ASSUME NEW oc \in OutChannels, NEW ic \in InChannels, NEW d,
             \/ unmap(oc, ic) \/ unmap_buffered(oc, ic)
             \/ d \in Delays /\ (mapto(oc, ic, d) \/ new_transfer_delay(oc, ic, d))
      PROVE  WindowKeepsPromise' /\ EdgeInReach'
  <2>1. UNCHANGED <<state, now, horizon, sound>>
    BY <1>4, Zenon DEF unmap, Dropped, unmap_buffered, mapto, new_transfer_delay, clockVars
  <2>2. CASE state = "RUNNING" /\ sound
    <3>1. UNCHANGED min_delay
      BY <1>4, <2>2, Zenon DEF unmap, Dropped, unmap_buffered, mapto, new_transfer_delay, minVars
    <3>2. WindowKeepsPromise'
      BY <1>4, <2>1, <2>2, PromiseRequest, Zenon
    <3> QED
      BY <1>0, <2>1, <3>1, <3>2, Zenon
  <2>3. CASE ~(state = "RUNNING" /\ sound)
    BY <2>1, <2>3, Zenon DEF WindowKeepsPromise, EdgeInReach
  <2> QED
    BY <2>2, <2>3, Zenon
<1>5. ASSUME NEW oc \in OutChannels, NEW d \in WriteDelays, new_min_write_delay(oc, d)
      PROVE  WindowKeepsPromise' /\ EdgeInReach'
  <2>1. UNCHANGED <<state, now, horizon, sound, min_delay>>
    BY <1>5, Zenon DEF new_min_write_delay, clockVars, minVars
  <2> QED
    BY <1>0, <1>5, <2>1, PromiseWriteDelay, Zenon
<1>6. CASE UNCHANGED vars
  BY <1>6, Zenon DEF vars, clockVars, mapVars, minVars, WindowKeepsPromise, EdgeInReach, CrossDelays
<1> QED
  BY <1>1, <1>2, <1>3, <1>4, <1>5, <1>6, Zenon DEF Next

\* Whatever process bodies map, unmap and change during a window that began with a
\* sound lookahead, no write of the window arrives before its upper edge: the other
\* Timelines may run to that edge without waiting for this one.
THEOREM PromiseKept == Spec => []WindowKeepsPromise
<1>1. Init => WindowKeepsPromise /\ EdgeInReach
  BY Zenon DEF Init, WindowKeepsPromise, EdgeInReach
<1>2. TypeOK /\ TypeOK' /\ WindowKeepsPromise /\ EdgeInReach /\ [Next]_vars
        => WindowKeepsPromise' /\ EdgeInReach'
  BY PromiseStep
<1> QED
  BY <1>1, <1>2, TypeCorrect, PTL DEF Spec
=============================================================================
