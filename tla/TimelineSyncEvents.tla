------------------------- MODULE TimelineSyncEvents -------------------------
(***************************************************************************)
(* No Event is lost or duplicated, for any model and any epochs: as many   *)
(* have been created as have been executed or are in a list.               *)
(*                                                                         *)
(* The sums over the Timelines are folds; the first part derives from      *)
(* their definition how they add up, by induction over sets of Timelines.  *)
(* The second part shows that a new Event differs from all those in the    *)
(* lists, because of its number, so that the lists' sizes add up too.      *)
(***************************************************************************)
EXTENDS TimelineSyncTypes
-----------------------------------------------------------------------------
(* Sums over the Timelines.                                                *)

Pick(s) == CHOOSE x \in s : TRUE

\* g holds the sum of f over every set of Timelines, one Timeline at a time.
Sums(f, g) ==
  g = [s \in SUBSET Timelines |-> IF s = {} THEN 0 ELSE f[Pick(s)] + g[s \ {Pick(s)}]]

\* A set of numbers with 0 and the successors of its members holds them all.
LEMMA NatClosed ==
  ASSUME NEW G, 0 \in G, \A n \in Nat : n \in G => n + 1 \in G
  PROVE  \A n \in Nat : n \in G
<1> SUFFICES ASSUME NEW m \in Nat, m \notin G PROVE FALSE
  BY Zenon
<1>1. PICK x \in Nat \ G : \A y \in Nat \ G : x <= y
  BY EarliestExists, Zenon
<1>2. x - 1 \in Nat /\ x - 1 \in G
  BY <1>1
<1> QED
  BY <1>1, <1>2

\* The Timelines are finitely many, and taking one out of a set leaves one less.
LEMMA OneLess ==
  ASSUME NEW s \in SUBSET Timelines
  PROVE  /\ IsFiniteSet(s) /\ Cardinality(s) \in Nat /\ Cardinality(s) <= Cardinality(Timelines)
         /\ Cardinality(s) = 0 <=> s = {}
         /\ s # {} => /\ Pick(s) \in s /\ s \ {Pick(s)} \in SUBSET Timelines
                      /\ Cardinality(s \ {Pick(s)}) = Cardinality(s) - 1
<1>1. IsFiniteSet(s) /\ Cardinality(s) <= Cardinality(Timelines)
  BY RouteAssumption, FS_Subset, Zenon
<1>2. Cardinality(s) \in Nat /\ (Cardinality(s) = 0 <=> s = {})
  BY <1>1, FS_CardinalityType, FS_EmptySet, Zenon
<1>3. s # {} => Pick(s) \in s
  BY Zenon DEF Pick
<1>4. s # {} => Cardinality(s \ {Pick(s)}) = Cardinality(s) - 1
  BY <1>1, <1>3, FS_RemoveElement, Zenon
<1> QED
  BY <1>1, <1>2, <1>3, <1>4, Zenon

\* A collection with the empty set, and with every set that is one Timeline larger
\* than a member, holds all sets of Timelines.
LEMMA SetsClosed ==
  ASSUME NEW G, {} \in G,
         \A s \in SUBSET Timelines : s # {} /\ s \ {Pick(s)} \in G => s \in G
  PROVE  \A s \in SUBSET Timelines : s \in G
<1> DEFINE N == {n \in Nat : \A s \in SUBSET Timelines : Cardinality(s) = n => s \in G}
<1>1. 0 \in N
  BY OneLess, Zenon
<1>2. ASSUME NEW n \in Nat, n \in N PROVE n + 1 \in N
  <2> SUFFICES ASSUME NEW s \in SUBSET Timelines, Cardinality(s) = n + 1 PROVE s \in G
    OBVIOUS
  <2>1. s # {}
    <3>1. Cardinality(s) = 0 <=> s = {}
      BY OneLess, Zenon
    <3> QED
      BY <3>1
  <2>2. s \ {Pick(s)} \in SUBSET Timelines /\ Cardinality(s \ {Pick(s)}) = n
    BY <2>1, OneLess
  <2> QED
    BY <1>2, <2>1, <2>2, Zenon
<1> HIDE DEF N
<1>3. \A n \in Nat : n \in N
  BY <1>1, <1>2, NatClosed, Zenon
<1> QED
  BY <1>3, OneLess, Zenon DEF N

\* The equation that defines the sums has a solution.
LEMMA SumsExist ==
  ASSUME NEW f \in [Timelines -> Int]
  PROVE  \E g : Sums(f, g)
<1> DEFINE Lev(n) == {s \in SUBSET Timelines : Cardinality(s) <= n}
           Rhs(h, s) == IF s = {} THEN 0 ELSE f[Pick(s)] + h[s \ {Pick(s)}]
           Solves(h, n) == h \in [Lev(n) -> Int] /\ \A s \in Lev(n) : h[s] = Rhs(h, s)
           G == {n \in Nat : \E h : Solves(h, n)}
<1>1. 0 \in G
  <2> DEFINE h == [s \in Lev(0) |-> 0]
  <2>1. \A s \in Lev(0) : s = {}
    <3>1. \A s \in SUBSET Timelines : Cardinality(s) \in Nat /\ (Cardinality(s) = 0 <=> s = {})
      BY OneLess, Zenon
    <3> QED
      BY <3>1
  <2>2. Solves(h, 0)
    BY <2>1
  <2> QED
    BY <2>2, Zenon
<1>2. ASSUME NEW n \in Nat, n \in G PROVE n + 1 \in G
  <2>1. PICK h : Solves(h, n)
    BY <1>2, Zenon
  <2> DEFINE k == [s \in Lev(n + 1) |-> Rhs(h, s)]
  <2>2. \A s \in Lev(n + 1) : s # {} => Pick(s) \in Timelines /\ s \ {Pick(s)} \in Lev(n)
    BY OneLess
  <2>3. \A s \in Lev(n) : s \in Lev(n + 1) /\ k[s] = h[s]
    <3>1. \A s \in Lev(n) : s \in Lev(n + 1)
      <4>1. \A s \in SUBSET Timelines : Cardinality(s) \in Nat
        BY OneLess, Zenon
      <4> QED
        BY <4>1
    <3> QED
      BY <2>1, <3>1, Zenon
  <2>4. k \in [Lev(n + 1) -> Int]
    BY <2>1, <2>2
  <2>5. \A s \in Lev(n + 1) : k[s] = Rhs(k, s)
    BY <2>2, <2>3, Zenon
  <2>6. Solves(k, n + 1)
    BY <2>4, <2>5, Zenon
  <2> HIDE DEF Solves, k
  <2>7. n + 1 \in Nat
    OBVIOUS
  <2> QED
    BY <2>6, <2>7, Zenon
<1> HIDE DEF G
<1>3. Cardinality(Timelines) \in G
  BY <1>1, <1>2, NatClosed, OneLess, Zenon
<1>4. PICK h : Solves(h, Cardinality(Timelines))
  BY <1>3, Zenon DEF G
<1>5. Lev(Cardinality(Timelines)) = SUBSET Timelines
  BY OneLess, Zenon
<1>6. Sums(f, h)
  BY <1>4, <1>5, Zenon DEF Sums
<1> QED
  BY <1>6, Zenon

\* Total(f) is what a solution holds for all the Timelines.
LEMMA TotalIsSum ==
  ASSUME NEW f \in [Timelines -> Int]
  PROVE  \E g : /\ Sums(f, g) /\ Total(f) = g[Timelines]
                /\ g \in [SUBSET Timelines -> Int]
<1> DEFINE g == CHOOSE h : Sums(f, h)
<1>1. Total(f) = g[Timelines]
  BY Zenon DEF Total, MapThenSumSet, MapThenFoldSet, Pick, Sums
<1>2. Sums(f, g)
  BY SumsExist, Zenon
<1> HIDE DEF g
<1> DEFINE G == {s \in SUBSET Timelines : g[s] \in Int}
<1>3. {} \in G
  BY <1>2 DEF Sums
<1>4. ASSUME NEW s \in SUBSET Timelines, s # {}, s \ {Pick(s)} \in G PROVE s \in G
  <2>1. g[s] = f[Pick(s)] + g[s \ {Pick(s)}] /\ Pick(s) \in Timelines
    BY <1>2, <1>4, OneLess, Zenon DEF Sums
  <2> QED
    BY <1>4, <2>1
<1>5. \A s \in SUBSET Timelines : s \in G
  BY <1>3, <1>4, SetsClosed, Zenon
<1>6. g \in [SUBSET Timelines -> Int]
  BY <1>2, <1>5, Zenon DEF Sums
<1> QED
  BY <1>1, <1>2, <1>6, Zenon

\* Totals are numbers.
LEMMA TotalType == ASSUME NEW f \in [Timelines -> Int] PROVE Total(f) \in Int
<1>1. PICK g : Total(f) = g[Timelines] /\ g \in [SUBSET Timelines -> Int]
  BY TotalIsSum, Zenon
<1> QED
  BY <1>1, Zenon

\* Totals add up.
LEMMA TotalAdd ==
  ASSUME NEW f \in [Timelines -> Int], NEW f1 \in [Timelines -> Int],
         NEW f2 \in [Timelines -> Int], \A t \in Timelines : f[t] = f1[t] + f2[t]
  PROVE  Total(f) \in Int /\ Total(f) = Total(f1) + Total(f2)
<1>0. PICK g : Sums(f, g) /\ Total(f) = g[Timelines] /\ g \in [SUBSET Timelines -> Int]
  BY TotalIsSum, Zenon
<1>1. PICK g1 : Sums(f1, g1) /\ Total(f1) = g1[Timelines] /\ g1 \in [SUBSET Timelines -> Int]
  BY TotalIsSum, Zenon
<1>2. PICK g2 : Sums(f2, g2) /\ Total(f2) = g2[Timelines] /\ g2 \in [SUBSET Timelines -> Int]
  BY TotalIsSum, Zenon
<1> DEFINE G == {s \in SUBSET Timelines : g[s] = g1[s] + g2[s]}
<1>3. {} \in G
  BY <1>0, <1>1, <1>2 DEF Sums
<1>4. ASSUME NEW s \in SUBSET Timelines, s # {}, s \ {Pick(s)} \in G PROVE s \in G
  <2> DEFINE x == Pick(s)
             r == s \ {x}
  <2>1. x \in Timelines /\ r \in SUBSET Timelines
    BY <1>4, OneLess, Zenon
  <2>2. g[s] = f[x] + g[r] /\ g1[s] = f1[x] + g1[r] /\ g2[s] = f2[x] + g2[r]
    BY <1>0, <1>1, <1>2, <1>4, Zenon DEF Sums
  <2>3. g[r] = g1[r] + g2[r]
    BY <1>4, Zenon
  <2> HIDE DEF x, r
  <2>4. g1[r] \in Int /\ g2[r] \in Int /\ f1[x] \in Int /\ f2[x] \in Int /\ f[x] = f1[x] + f2[x]
    BY <1>1, <1>2, <2>1, Zenon
  <2> QED
    BY <2>2, <2>3, <2>4
<1>5. \A s \in SUBSET Timelines : s \in G
  BY <1>3, <1>4, SetsClosed, Zenon
<1> QED
  BY <1>0, <1>1, <1>2, <1>5

\* The total of a function that is zero but for one Timeline.
LEMMA TotalPoint ==
  ASSUME NEW f \in [Timelines -> Int], NEW t \in Timelines,
         \A u \in Timelines : u # t => f[u] = 0
  PROVE  Total(f) = f[t]
<1>1. PICK g : Sums(f, g) /\ Total(f) = g[Timelines] /\ g \in [SUBSET Timelines -> Int]
  BY TotalIsSum, Zenon
<1> DEFINE G == {s \in SUBSET Timelines : g[s] = IF t \in s THEN f[t] ELSE 0}
<1>2. {} \in G
  BY <1>1, Zenon DEF Sums
<1>3. ASSUME NEW s \in SUBSET Timelines, s # {}, s \ {Pick(s)} \in G PROVE s \in G
  <2>1. Pick(s) \in s /\ Pick(s) \in Timelines
    BY <1>3, OneLess, Zenon
  <2>2. g[s] = f[Pick(s)] + g[s \ {Pick(s)}]
    BY <1>1, <1>3, Zenon DEF Sums
  <2>3. g[s \ {Pick(s)}] = IF t \in s \ {Pick(s)} THEN f[t] ELSE 0
    BY <1>3, Zenon
  <2>4. f[t] \in Int
    BY Zenon
  <2>5. CASE Pick(s) = t
    BY <2>1, <2>2, <2>3, <2>4, <2>5
  <2>6. CASE Pick(s) # t
    BY <2>1, <2>2, <2>3, <2>4, <2>6
  <2> QED
    BY <2>5, <2>6, Zenon
<1>4. \A s \in SUBSET Timelines : s \in G
  BY <1>2, <1>3, SetsClosed, Zenon
<1> QED
  BY <1>1, <1>4, Zenon

\* Adding d for one Timeline adds d to the total.
LEMMA TotalChange ==
  ASSUME NEW f \in [Timelines -> Int], NEW h \in [Timelines -> Int], NEW t \in Timelines,
         NEW d \in Int, h[t] = f[t] + d, \A u \in Timelines : u # t => h[u] = f[u]
  PROVE  Total(f) \in Int /\ Total(h) = Total(f) + d
<1> DEFINE p == [u \in Timelines |-> IF u = t THEN d ELSE 0]
           z == [u \in Timelines |-> 0]
<1>1. p \in [Timelines -> Int] /\ p[t] = d /\ \A u \in Timelines : u # t => p[u] = 0
  OBVIOUS
<1>2. z \in [Timelines -> Int] /\ \A u \in Timelines : z[u] = 0
  OBVIOUS
<1> HIDE DEF p, z
<1>3. Total(p) = d
  BY <1>1, TotalPoint, Zenon
<1>4. \A u \in Timelines : h[u] = f[u] + p[u] /\ f[u] = f[u] + z[u]
  BY <1>1, <1>2
<1>5. Total(h) = Total(f) + Total(p) /\ Total(f) \in Int
  BY <1>1, <1>2, <1>4, TotalAdd, Zenon
<1> QED
  BY <1>3, <1>5, Zenon

\* The parts into which k divides a finite set P add up to P.
LEMMA TotalParts ==
  ASSUME NEW P, IsFiniteSet(P), NEW k \in [P -> Timelines],
         NEW f \in [Timelines -> Int],
         \A t \in Timelines : f[t] = Cardinality({p \in P : k[p] = t})
  PROVE  Total(f) = Cardinality(P)
<1>1. PICK g : Sums(f, g) /\ Total(f) = g[Timelines] /\ g \in [SUBSET Timelines -> Int]
  BY TotalIsSum, Zenon
<1> DEFINE Into(s) == {p \in P : k[p] \in s}
           G == {s \in SUBSET Timelines : g[s] = Cardinality(Into(s))}
<1>2. {} \in G
  <2>1. Into({}) = {}
    BY Zenon
  <2> QED
    BY <1>1, <2>1, FS_EmptySet, Zenon DEF Sums
<1>3. ASSUME NEW s \in SUBSET Timelines, s # {}, s \ {Pick(s)} \in G PROVE s \in G
  <2> DEFINE x == Pick(s)
             r == s \ {x}
             A == {p \in P : k[p] = x}
  <2>1. x \in s /\ x \in Timelines
    BY <1>3, OneLess, Zenon
  <2>2. g[s] = f[x] + g[r] /\ g[r] = Cardinality(Into(r))
    BY <1>1, <1>3, Zenon DEF Sums
  <2>3. IsFiniteSet(A) /\ IsFiniteSet(Into(r))
    BY FS_Subset, Zenon
  <2>4. Into(s) = A \cup Into(r) /\ A \cap Into(r) = {}
    BY <2>1, Zenon
  <2>5. Cardinality(Into(s)) = Cardinality(A) + Cardinality(Into(r))
    <3>1. /\ Cardinality(A \cup Into(r)) =
               Cardinality(A) + Cardinality(Into(r)) - Cardinality(A \cap Into(r))
          /\ Cardinality(A) \in Nat /\ Cardinality(Into(r)) \in Nat
      BY <2>3, FS_Union, FS_CardinalityType, Zenon
    <3>2. Cardinality(A \cap Into(r)) = 0
      BY <2>4, FS_EmptySet, Zenon
    <3>3. Cardinality(Into(s)) = Cardinality(A \cup Into(r))
      BY <2>4, Zenon
    <3> HIDE DEF A, Into, r
    <3> QED
      BY <3>1, <3>2, <3>3
  <2>6. f[x] = Cardinality(A)
    BY <2>1, Zenon
  <2> HIDE DEF A, x, r, Into
  <2>7. g[s] = Cardinality(Into(s))
    BY <2>2, <2>5, <2>6, Zenon
  <2> QED
    BY <2>7, Zenon DEF Into
<1>4. \A s \in SUBSET Timelines : s \in G
  BY <1>2, <1>3, SetsClosed, Zenon
<1>5. Into(Timelines) = P
  BY Zenon
<1> QED
  BY <1>1, <1>4, <1>5, Zenon
-----------------------------------------------------------------------------
(* Counting the Events a body creates.                                     *)

\* The size of a union of two sets with nothing in common.
LEMMA DisjointSize ==
  ASSUME NEW A, NEW B, IsFiniteSet(A), IsFiniteSet(B), A \cap B = {}
  PROVE  /\ IsFiniteSet(A \cup B)
         /\ Cardinality(A \cup B) = Cardinality(A) + Cardinality(B)
         /\ Cardinality(A) \in Nat /\ Cardinality(B) \in Nat
<1>1. IsFiniteSet(A \cup B)
      /\ Cardinality(A \cup B) = Cardinality(A) + Cardinality(B) - Cardinality(A \cap B)
  BY FS_Union, Zenon
<1>2. Cardinality(A \cap B) = 0 /\ Cardinality(A) \in Nat /\ Cardinality(B) \in Nat
  BY FS_EmptySet, FS_CardinalityType, Zenon
<1> QED
  BY <1>1, <1>2

\* A one-to-one image has as many members.
LEMMA ImageSize ==
  ASSUME NEW S, IsFiniteSet(S), NEW T, NEW f \in [S -> T],
         \A y \in T : \E x \in S : f[x] = y,
         \A x \in S, y \in S : f[x] = f[y] => x = y
  PROVE  IsFiniteSet(T) /\ Cardinality(T) = Cardinality(S)
<1>1. f \in Bijection(S, T)
  BY Zenon DEF Bijection, Injection, Surjection, IsInjective
<1> QED
  BY <1>1, FS_Bijection, Zenon DEF ExistsBijection

\* Every waitFor of a body makes a timeout of its own.
LEMMA TimeoutsSize ==
  ASSUME NEW t \in Timelines, NEW b \in Bodies[t] \cup InitBodies[t], NEW now \in Nat, NEW num
  PROVE  /\ IsFiniteSet(Timeouts(t, num, b, now))
         /\ Cardinality(Timeouts(t, num, b, now)) = Cardinality(b.timers)
         /\ Cardinality(b.timers) \in Nat
<1> DEFINE f == [d \in b.timers |-> NewEvent(t, num, "TIMEOUT", now + d, "self")]
           T == Timeouts(t, num, b, now)
<1>1. b.timers \subseteq Nat /\ IsFiniteSet(b.timers)
  BY BodyAssumption, Zenon DEF IsBody
<1>2. f \in [b.timers -> T] /\ \A y \in T : \E x \in b.timers : f[x] = y
  BY Zenon DEF Timeouts
<1>3. ASSUME NEW x \in b.timers, NEW y \in b.timers, f[x] = f[y] PROVE x = y
  <2>1. f[x].time = now + x /\ f[y].time = now + y
    BY Zenon DEF NewEvent
  <2> QED
    BY <1>1, <1>3, <2>1
<1> HIDE DEF f
<1> QED
  BY <1>1, <1>2, <1>3, ImageSize, FS_CardinalityType, Zenon

\* Two deliveries of a body with the same mapping and arrival are the same.
LEMMA DeliveryByArrival ==
  ASSUME NEW t \in Timelines, NEW b \in Bodies[t] \cup InitBodies[t], NEW now \in Nat,
         NEW c \in Deliveries(b, now), NEW d \in Deliveries(b, now),
         c.via = d.via, c.at = d.at
  PROVE  c = d
<1>1. PICK x \in Maps \X b.writes :
        c = [via |-> x[1], delay |-> x[2].delay, at |-> now + x[2].delay + Route[x[1]].delay]
  BY Zenon DEF Deliveries
<1>2. PICK y \in Maps \X b.writes :
        d = [via |-> y[1], delay |-> y[2].delay, at |-> now + y[2].delay + Route[y[1]].delay]
  BY Zenon DEF Deliveries
<1>3. x[1] \in Maps /\ x[2] \in b.writes /\ y[2] \in b.writes /\ x[1] = y[1]
  BY <1>1, <1>2, Zenon
<1>4. x[2].delay \in Int /\ y[2].delay \in Int /\ Route[x[1]].delay \in Nat
  BY <1>3, BodyAssumption, RouteAssumption DEF IsBody, RouteType
<1>5. now + x[2].delay + Route[x[1]].delay = now + y[2].delay + Route[x[1]].delay
  BY <1>1, <1>2, <1>3, Zenon
<1>6. x[2].delay = y[2].delay
  BY <1>4, <1>5
<1> QED
  BY <1>1, <1>2, <1>3, <1>6, Zenon

\* The deliveries of D to Timeline u.
To(D, u) == {d \in D : Route[d.via].dst = u}

\* Every delivery to u makes an activation of its own there.
LEMMA ActivationsSize ==
  ASSUME NEW t \in Timelines, NEW b \in Bodies[t] \cup InitBodies[t], NEW now \in Nat, NEW num,
         NEW D, D \subseteq Deliveries(b, now), NEW u
  PROVE  /\ IsFiniteSet(Activations(t, num, D, u))
         /\ Cardinality(Activations(t, num, D, u)) = Cardinality(To(D, u))
         /\ Cardinality(To(D, u)) \in Nat
<1> DEFINE S == To(D, u)
           f == [d \in S |-> NewEvent(t, num, "ACTIVATE", d.at, d.via)]
           T == Activations(t, num, D, u)
<1>1. IsFiniteSet(S)
  BY DeliveriesFinite, FS_Subset, Zenon DEF To
<1>2. f \in [S -> T] /\ \A y \in T : \E x \in S : f[x] = y
  BY Zenon DEF Activations, To
<1>3. ASSUME NEW x \in S, NEW y \in S, f[x] = f[y] PROVE x = y
  <2>1. f[x].time = x.at /\ f[y].time = y.at /\ f[x].via = x.via /\ f[y].via = y.via
    BY Zenon DEF NewEvent
  <2>2. x \in Deliveries(b, now) /\ y \in Deliveries(b, now)
    BY Zenon DEF To
  <2>3. x.at = y.at /\ x.via = y.via
    BY <1>3, <2>1, Zenon
  <2> QED
    BY <2>2, <2>3, DeliveryByArrival, Zenon
<1> HIDE DEF f, S
<1>4. IsFiniteSet(T) /\ Cardinality(T) = Cardinality(S) /\ Cardinality(S) \in Nat
  BY <1>1, <1>2, <1>3, ImageSize, FS_CardinalityType, Zenon
<1> QED
  BY <1>4, Zenon DEF S
-----------------------------------------------------------------------------
(* The invariant.                                                          *)

held == [t \in Timelines |-> events[t] \cup window_list[t]]

\* The numbers in the lists are all below the count of the Timeline that gave them,
\* so that a new Event is in no list, and no Event is in both lists of a Timeline.
\* Without this the sizes of the lists would not count the Events.
EventsInv ==
  /\ \A t \in Timelines :
       /\ IsFiniteSet(events[t]) /\ IsFiniteSet(window_list[t])
       /\ events[t] \cap window_list[t] = {}
       /\ \A e \in held[t] : e.num < evtnum[e.from]
  /\ Total(evtnum) = Total(executed) + Total(Sizes(held))

\* The lists of the Timelines have sizes.
LEMMA SizesType ==
  ASSUME NEW lists, \A t \in Timelines : IsFiniteSet(lists[t])
  PROVE  Sizes(lists) \in [Timelines -> Int] /\ \A t \in Timelines : Sizes(lists)[t] \in Nat
<1>1. \A t \in Timelines : Cardinality(lists[t]) \in Nat
  BY FS_CardinalityType, Zenon
<1> QED
  BY <1>1 DEF Sizes

\* The balance of the invariant is the one of NoEventLost.
LEMMA HeldInTwoLists == TypeOK /\ EventsInv => NoEventLost
<1> SUFFICES ASSUME TypeOK, EventsInv
             PROVE  NoEventLost
  BY Zenon
<1>1. \A t \in Timelines : IsFiniteSet(events[t]) /\ IsFiniteSet(window_list[t])
  BY Zenon DEF EventsInv
<1>2. ASSUME NEW t \in Timelines
      PROVE  /\ IsFiniteSet(held[t])
             /\ Sizes(held)[t] = Sizes(events)[t] + Sizes(window_list)[t]
  <2>1. IsFiniteSet(events[t]) /\ IsFiniteSet(window_list[t]) /\ events[t] \cap window_list[t] = {}
    BY Zenon DEF EventsInv
  <2>2. held[t] = events[t] \cup window_list[t]
    BY Zenon DEF held
  <2>3. /\ IsFiniteSet(held[t])
        /\ Cardinality(held[t]) = Cardinality(events[t]) + Cardinality(window_list[t])
    BY <2>1, <2>2, DisjointSize, Zenon
  <2> QED
    BY <2>3, Zenon DEF Sizes
<1>3. /\ Sizes(events) \in [Timelines -> Int] /\ Sizes(window_list) \in [Timelines -> Int]
      /\ Sizes(held) \in [Timelines -> Int]
  BY <1>1, <1>2, SizesType, Zenon
<1>4. Total(Sizes(held)) = Total(Sizes(events)) + Total(Sizes(window_list))
  BY <1>2, <1>3, TotalAdd, Zenon
<1>5. evtnum \in [Timelines -> Int] /\ executed \in [Timelines -> Int]
  BY DEF TypeOK
<1>6. /\ Total(evtnum) \in Int /\ Total(executed) \in Int
      /\ Total(Sizes(events)) \in Int /\ Total(Sizes(window_list)) \in Int
  BY <1>3, <1>5, TotalType, Zenon
<1>7. Total(evtnum) = Total(executed) + Total(Sizes(held))
  BY Zenon DEF EventsInv
<1> QED
  BY <1>4, <1>6, <1>7 DEF NoEventLost

\* Initially nothing has been created.
LEMMA EventsInit == Init => EventsInv
<1> SUFFICES ASSUME Init
             PROVE  EventsInv
  BY Zenon
<1> DEFINE z == [t \in Timelines |-> 0]
<1>1. /\ events = [t \in Timelines |-> {}] /\ window_list = [t \in Timelines |-> {}]
      /\ evtnum = z /\ executed = z
  BY Zenon DEF Init
<1>2. \A t \in Timelines : events[t] = {} /\ window_list[t] = {} /\ held[t] = {}
  BY <1>1, Zenon DEF held
<1>3. Sizes(held) = z
  BY <1>2, FS_EmptySet, Zenon DEF Sizes
<1>4. z \in [Timelines -> Int] /\ \A t \in Timelines : z[t] = z[t] + z[t]
  OBVIOUS
<1> HIDE DEF z
<1>5. Total(z) = Total(z) + Total(z)
  BY <1>4, TotalAdd, Zenon
<1>6. Total(evtnum) = Total(executed) + Total(Sizes(held))
  BY <1>1, <1>3, <1>5, Zenon
<1>7. IsFiniteSet({})
  BY FS_EmptySet, Zenon
<1> QED
  BY <1>2, <1>6, <1>7, Zenon DEF EventsInv

\* A step that keeps the counts and what is held keeps the balance.
LEMMA EventsSame ==
  ASSUME EventsInv, UNCHANGED <<evtnum, executed, held>>,
         \A t \in Timelines : /\ IsFiniteSet(events'[t]) /\ IsFiniteSet(window_list'[t])
                              /\ events'[t] \cap window_list'[t] = {}
  PROVE  EventsInv'
<1>1. Total(evtnum)' = Total(executed)' + Total(Sizes(held))'
  <2>1. evtnum' = evtnum /\ executed' = executed /\ held' = held
    BY Zenon
  <2>2. Total(evtnum') = Total(executed') + Total(Sizes(held'))
    BY <2>1, Zenon DEF EventsInv
  <2> QED
    BY <2>2, Zenon
<1> QED
  BY <1>1, Zenon DEF EventsInv

\* get_cross_timeline_events moves the Events of one list to the other.
LEMMA EventsCollect ==
  ASSUME NEW t \in Timelines, TypeOK, EventsInv, Collect(t)
  PROVE  EventsInv'
<1>1. /\ events' = [events EXCEPT ![t] = @ \cup window_list[t]]
      /\ window_list' = [window_list EXCEPT ![t] = {}]
      /\ UNCHANGED <<evtnum, executed>>
  BY Zenon DEF Collect
<1>2. events \in [Timelines -> SUBSET Event] /\ window_list \in [Timelines -> SUBSET Event]
  BY Zenon DEF TypeOK
<1>3. /\ events'[t] = events[t] \cup window_list[t] /\ window_list'[t] = {}
      /\ \A u \in Timelines : u # t => events'[u] = events[u] /\ window_list'[u] = window_list[u]
  BY <1>1, <1>2, Zenon
<1>4. \A u \in Timelines : events'[u] \cup window_list'[u] = events[u] \cup window_list[u]
  <2> TAKE u \in Timelines
  <2>1. CASE u = t
    BY <1>3, <2>1, Zenon
  <2>2. CASE u # t
    BY <1>3, <2>2, Zenon
  <2> QED
    BY <2>1, <2>2, Zenon
<1>5. held' = held
  BY <1>4, Zenon DEF held
<1>6. IsFiniteSet(events[t] \cup window_list[t]) /\ IsFiniteSet({})
  BY FS_Union, FS_EmptySet, Zenon DEF EventsInv
<1>7. ASSUME NEW u \in Timelines
      PROVE  /\ IsFiniteSet(events'[u]) /\ IsFiniteSet(window_list'[u])
             /\ events'[u] \cap window_list'[u] = {}
  <2>1. CASE u = t
    BY <1>3, <1>6, <2>1, Zenon
  <2>2. CASE u # t
    BY <1>3, <2>2, Zenon DEF EventsInv
  <2> QED
    BY <2>1, <2>2, Zenon
<1> QED
  BY <1>1, <1>5, <1>7, EventsSame, Zenon
-----------------------------------------------------------------------------
(* The steps that create Events.                                           *)

\* What a body creates carries the Timeline's name and its count, and is counted.
LEMMA NewEvents ==
  ASSUME NEW t \in Timelines, NEW b \in Bodies[t] \cup InitBodies[t], NEW now \in Nat, NEW num
  PROVE  /\ Created(t, b, now) \in Nat
         /\ \A x \in Timeouts(t, num, b, now) :
              /\ x.type = "TIMEOUT" /\ x.from = t /\ x.num = num
              /\ Created(t, b, now) > 0
         /\ \A u : \A x \in Activations(t, num, Sent(t, b, now), u) :
              /\ x.type = "ACTIVATE" /\ x.from = t /\ x.num = num
              /\ Created(t, b, now) > 0
<1> DEFINE D == Sent(t, b, now)
<1>1. D \subseteq Deliveries(b, now)
  BY Zenon DEF Sent
<1>2. IsFiniteSet(D) /\ IsFiniteSet(b.timers)
  BY <1>1, DeliveriesFinite, BodyAssumption, Zenon DEF IsBody
<1> HIDE DEF D
<1>3. /\ Cardinality(D) \in Nat /\ Cardinality(b.timers) \in Nat
      /\ Cardinality(D) = 0 <=> D = {}
      /\ Cardinality(b.timers) = 0 <=> b.timers = {}
  BY <1>2, FS_CardinalityType, FS_EmptySet, Zenon
<1>4. Created(t, b, now) = Cardinality(b.timers) + Cardinality(D)
  BY Zenon DEF Created, D
<1>5. ASSUME NEW x \in Timeouts(t, num, b, now)
      PROVE  x.type = "TIMEOUT" /\ x.from = t /\ x.num = num /\ b.timers # {}
  BY DEF Timeouts, NewEvent
<1>6. ASSUME NEW u, NEW x \in Activations(t, num, D, u)
      PROVE  x.type = "ACTIVATE" /\ x.from = t /\ x.num = num /\ D # {}
  BY DEF Activations, NewEvent
<1>7. b.timers # {} \/ D # {} => Created(t, b, now) > 0
  BY <1>3, <1>4
<1>8. Created(t, b, now) \in Nat
  BY <1>3, <1>4
<1> QED
  BY <1>5, <1>6, <1>7, <1>8, Zenon DEF D

\* An Event with the number its Timeline gives next is in no list.
LEMMA NewIsNotHeld ==
  ASSUME TypeOK, EventsInv, NEW t \in Timelines, NEW x, x.from = t, x.num = evtnum[t],
         NEW u \in Timelines
  PROVE  x \notin events[u] /\ x \notin window_list[u]
<1>1. evtnum[t] \in Nat
  BY Zenon DEF TypeOK
<1>2. x \in held[u] => evtnum[t] < evtnum[t]
  BY Zenon DEF EventsInv
<1>3. held[u] = events[u] \cup window_list[u]
  BY Zenon DEF held
<1>4. x \notin held[u]
  BY <1>1, <1>2, SMTT(30)
<1> QED
  BY <1>3, <1>4, Zenon

\* The balance after a step in which the Timelines create made, execute done and
\* end up holding gain more.
LEMMA Balance ==
  ASSUME TypeOK, TypeOK', EventsInv,
         NEW made \in [Timelines -> Int], NEW done \in [Timelines -> Int],
         NEW gain \in [Timelines -> Int],
         \A t \in Timelines : /\ evtnum'[t] = evtnum[t] + made[t]
                              /\ executed'[t] = executed[t] + done[t]
                              /\ IsFiniteSet(held'[t])
                              /\ Cardinality(held'[t]) = Cardinality(held[t]) + gain[t],
         Total(made) = Total(done) + Total(gain)
  PROVE  Total(evtnum') = Total(executed') + Total(Sizes(held'))
<1>1. /\ evtnum \in [Timelines -> Int] /\ executed \in [Timelines -> Int]
      /\ evtnum' \in [Timelines -> Int] /\ executed' \in [Timelines -> Int]
  BY DEF TypeOK
<1>2. \A t \in Timelines : IsFiniteSet(held[t])
  <2> TAKE t \in Timelines
  <2>1. IsFiniteSet(events[t]) /\ IsFiniteSet(window_list[t])
    BY Zenon DEF EventsInv
  <2>2. IsFiniteSet(events[t] \cup window_list[t])
    BY <2>1, FS_Union, Zenon
  <2> QED
    BY <2>2, Zenon DEF held
<1>3. Sizes(held) \in [Timelines -> Int] /\ Sizes(held') \in [Timelines -> Int]
  BY <1>2, SizesType, Zenon
<1>4. \A t \in Timelines : Sizes(held')[t] = Sizes(held)[t] + gain[t]
  BY Zenon DEF Sizes
<1>5. /\ Total(evtnum') = Total(evtnum) + Total(made)
      /\ Total(executed') = Total(executed) + Total(done)
      /\ Total(Sizes(held')) = Total(Sizes(held)) + Total(gain)
  <2>0. /\ \A t \in Timelines : evtnum'[t] = evtnum[t] + made[t]
        /\ \A t \in Timelines : executed'[t] = executed[t] + done[t]
    BY Zenon
  <2>1. Total(evtnum') = Total(evtnum) + Total(made)
    BY <1>1, <2>0, TotalAdd, ZenonT(60)
  <2>2. Total(executed') = Total(executed) + Total(done)
    BY <1>1, <2>0, TotalAdd, Zenon
  <2>3. Total(Sizes(held')) = Total(Sizes(held)) + Total(gain)
    BY <1>3, <1>4, TotalAdd, Zenon
  <2> QED
    BY <2>1, <2>2, <2>3, Zenon
<1>6. /\ Total(evtnum) \in Int /\ Total(executed) \in Int /\ Total(Sizes(held)) \in Int
      /\ Total(made) \in Int /\ Total(done) \in Int /\ Total(gain) \in Int
  BY <1>1, <1>3, TotalType, Zenon
<1>7. Total(evtnum) = Total(executed) + Total(Sizes(held))
  BY Zenon DEF EventsInv
<1> HIDE DEF held
<1> QED
  BY <1>5, <1>6, <1>7, SMTT(30)

\* EVTYPE_ACTIVATE: one Event is executed and one created in its place.
LEMMA EventsActivate ==
  ASSUME NEW t \in Timelines, TypeOK, TypeOK', EventsInv, Activate(t)
  PROVE  EventsInv'
<1>1. PICK e \in events[t] :
        events' = [events EXCEPT ![t] = (@ \ {e}) \cup {ExecActivate(t, evtnum[t], e)}]
  BY ZenonT(60) DEF Activate
<1>2. /\ evtnum' = [evtnum EXCEPT ![t] = @ + 1] /\ executed' = [executed EXCEPT ![t] = @ + 1]
      /\ window_list' = window_list
  BY ZenonT(60) DEF Activate
<1>3. /\ events \in [Timelines -> SUBSET Event] /\ evtnum \in [Timelines -> Nat]
      /\ executed \in [Timelines -> Nat] /\ window_list \in [Timelines -> SUBSET Event]
  BY Zenon DEF TypeOK
<1> DEFINE x == ExecActivate(t, evtnum[t], e)
<1>4. x.from = t /\ x.num = evtnum[t]
  BY Zenon DEF ExecActivate, NewEvent
<1> HIDE DEF x
<1>5. \A u \in Timelines : x \notin events[u] /\ x \notin window_list[u]
  BY <1>4, NewIsNotHeld, Zenon
<1>6. /\ events'[t] = (events[t] \ {e}) \cup {x}
      /\ \A u \in Timelines : u # t => events'[u] = events[u]
  BY <1>1, <1>3, Zenon DEF x
<1>7. ASSUME NEW u \in Timelines
      PROVE  /\ IsFiniteSet(events'[u]) /\ IsFiniteSet(window_list'[u])
             /\ events'[u] \cap window_list'[u] = {}
             /\ IsFiniteSet(held'[u])
             /\ Cardinality(held'[u]) = Cardinality(held[u]) + 0
  <2>1. IsFiniteSet(events[u]) /\ IsFiniteSet(window_list[u]) /\ events[u] \cap window_list[u] = {}
    BY Zenon DEF EventsInv
  <2>2. held[u] = events[u] \cup window_list[u] /\ held'[u] = events'[u] \cup window_list[u]
    BY <1>2, Zenon DEF held
  <2>3. IsFiniteSet(held[u]) /\ Cardinality(held[u]) \in Nat
    <3>1. IsFiniteSet(events[u] \cup window_list[u])
      BY <2>1, FS_Union, Zenon
    <3> QED
      BY <2>2, <3>1, FS_CardinalityType, Zenon
  <2>4. CASE u # t
    <3>1. events'[u] = events[u] /\ window_list'[u] = window_list[u] /\ held'[u] = held[u]
      BY <1>2, <1>6, <2>2, <2>4, Zenon
    <3> QED
      BY <2>1, <2>3, <3>1
  <2>5. CASE u = t
    <3>1. events'[u] = (events[u] \ {e}) \cup {x} /\ window_list'[u] = window_list[u]
      BY <1>2, <1>6, <2>5, Zenon
    <3>2. IsFiniteSet(events'[u])
      <4>1. IsFiniteSet(events[u] \ {e})
        BY <2>1, FS_RemoveElement, Zenon
      <4>2. IsFiniteSet((events[u] \ {e}) \cup {x})
        BY <4>1, FS_AddElement, Zenon
      <4> QED
        BY <3>1, <4>2, Zenon
    <3>3. e \in held[u] /\ x \notin held[u] \ {e} /\ held'[u] = (held[u] \ {e}) \cup {x}
      BY <1>5, <2>1, <2>2, <2>5, <3>1, SMTT(30)
    <3>4. IsFiniteSet(held[u] \ {e}) /\ Cardinality(held[u] \ {e}) = Cardinality(held[u]) - 1
      BY <2>3, <3>3, FS_RemoveElement, Zenon
    <3>5. /\ IsFiniteSet((held[u] \ {e}) \cup {x})
          /\ Cardinality((held[u] \ {e}) \cup {x}) = Cardinality(held[u] \ {e}) + 1
      BY <3>3, <3>4, FS_AddElement, Zenon
    <3>6. Cardinality(held[u]) - 1 + 1 = Cardinality(held[u]) + 0
      BY <2>3
    <3>7. IsFiniteSet(held'[u]) /\ Cardinality(held'[u]) = Cardinality(held[u]) + 0
      BY <3>3, <3>4, <3>5, <3>6, Zenon
    <3>8. events'[u] \cap window_list'[u] = {}
      BY <1>5, <2>1, <3>1, Zenon
    <3> QED
      BY <2>1, <3>1, <3>2, <3>7, <3>8, Zenon
  <2> QED
    BY <2>4, <2>5, Zenon
<1>8. ASSUME NEW u \in Timelines, NEW y \in held'[u]
      PROVE  y.num < evtnum'[y.from]
  <2>1. y = x \/ y \in held[u]
    BY <1>2, <1>6, Zenon DEF held
  <2>2. evtnum'[t] = evtnum[t] + 1 /\ evtnum[t] \in Nat
    BY <1>2, <1>3, Zenon
  <2>3. CASE y = x
    BY <1>4, <2>2, <2>3
  <2>4. CASE y \in held[u]
    <3>1. y.num < evtnum[y.from] /\ y \in Event
      BY <1>3, <2>4, Zenon DEF EventsInv, held
    <3>2. y.num \in Nat /\ y.from \in Timelines /\ evtnum[y.from] \in Nat
      BY <1>3, <3>1, Zenon DEF Event
    <3>3. evtnum'[y.from] = evtnum[y.from] \/ evtnum'[y.from] = evtnum[y.from] + 1
      BY <1>2, <1>3, <3>2, Zenon
    <3> QED
      BY <3>1, <3>2, <3>3, SMTT(30)
  <2> QED
    BY <2>1, <2>3, <2>4, Zenon
<1> DEFINE one == [u \in Timelines |-> IF u = t THEN 1 ELSE 0]
           none == [u \in Timelines |-> 0]
<1>9. /\ one \in [Timelines -> Int] /\ none \in [Timelines -> Int]
      /\ \A u \in Timelines : none[u] = 0
  OBVIOUS
<1>10. \A u \in Timelines : evtnum'[u] = evtnum[u] + one[u] /\ executed'[u] = executed[u] + one[u]
  BY <1>2, <1>3
<1> HIDE DEF one, none
<1>11. Total(none) = 0
  BY <1>9, TotalPoint, Zenon
<1>12. Total(one) = Total(one) + Total(none)
  BY <1>9, <1>11, TotalType
<1>13. Total(evtnum') = Total(executed') + Total(Sizes(held'))
  <2>1. \A u \in Timelines : Cardinality(held'[u]) = Cardinality(held[u]) + none[u]
    BY <1>7, <1>9, Zenon
  <2> QED
    BY <1>7, <1>9, <1>10, <1>12, <2>1, Balance, ZenonT(60)
<1> QED
  BY <1>7, <1>8, <1>13, Zenon DEF EventsInv

\* EVTYPE_TIMEOUT and EVTYPE_EXEC_ACTIVATE: one Event is executed, and those the
\* body creates go to the list of the Timeline each of them is for.
LEMMA EventsRunBody ==
  ASSUME NEW t \in Timelines, TypeOK, TypeOK', EventsInv, RunBody(t)
  PROVE  EventsInv'
<1>1. PICK e \in events[t], b \in Bodies[t] :
        /\ events' = [events EXCEPT ![t] =
             (@ \ {e}) \cup Timeouts(t, evtnum[t], b, e.time)
                       \cup Activations(t, evtnum[t], Sent(t, b, e.time), t)]
        /\ window_list' = [u \in Timelines |->
             IF u = t THEN window_list[u]
             ELSE window_list[u] \cup Activations(t, evtnum[t], Sent(t, b, e.time), u)]
        /\ evtnum' = [evtnum EXCEPT ![t] = @ + Created(t, b, e.time)]
  BY ZenonT(60) DEF RunBody
<1>2. executed' = [executed EXCEPT ![t] = @ + 1]
  BY ZenonT(60) DEF RunBody
<1>3. /\ events \in [Timelines -> SUBSET Event] /\ evtnum \in [Timelines -> Nat]
      /\ executed \in [Timelines -> Nat] /\ window_list \in [Timelines -> SUBSET Event]
  BY Zenon DEF TypeOK
<1>4. b \in Bodies[t] \cup InitBodies[t] /\ e.time \in Nat
  BY <1>3 DEF Event
<1> DEFINE A == Timeouts(t, evtnum[t], b, e.time)
           D == Sent(t, b, e.time)
           C(u) == Activations(t, evtnum[t], D, u)
           a == Cardinality(b.timers)
           i == [u \in Timelines |-> Cardinality(To(D, u))]
<1>5. D \subseteq Deliveries(b, e.time)
  BY Zenon DEF Sent
<1>6. IsFiniteSet(D) /\ Created(t, b, e.time) = a + Cardinality(D) /\ a \in Nat
      /\ Cardinality(D) \in Nat
  <2>1. IsFiniteSet(D) /\ a \in Nat
    BY <1>4, <1>5, DeliveriesFinite, TimeoutsSize, Zenon
  <2> QED
    BY <2>1, FS_CardinalityType, Zenon DEF Created
<1>7. IsFiniteSet(A) /\ Cardinality(A) = a
  BY <1>4, TimeoutsSize, ZenonT(60)
<1>8. \A u \in Timelines : IsFiniteSet(C(u)) /\ Cardinality(C(u)) = i[u] /\ i[u] \in Nat
  <2> TAKE u \in Timelines
  <2>1. i[u] = Cardinality(To(D, u))
    BY Zenon
  <2> HIDE DEF D, i
  <2>2. /\ IsFiniteSet(Activations(t, evtnum[t], D, u))
        /\ Cardinality(Activations(t, evtnum[t], D, u)) = Cardinality(To(D, u))
        /\ Cardinality(To(D, u)) \in Nat
    BY <1>4, <1>5, ActivationsSize, Zenon
  <2> QED
    BY <2>1, <2>2, Zenon
<1>9. /\ \A x \in A : x.type = "TIMEOUT" /\ x.from = t /\ x.num = evtnum[t]
                      /\ Created(t, b, e.time) > 0
      /\ \A u : \A x \in C(u) : /\ x.type = "ACTIVATE" /\ x.from = t /\ x.num = evtnum[t]
                                /\ Created(t, b, e.time) > 0
  BY <1>4, NewEvents, Zenon
<1>10. Total(i) = Cardinality(D) /\ i \in [Timelines -> Int]
  <2> DEFINE k == [d \in D |-> Route[d.via].dst]
  <2>1. k \in [D -> Timelines]
    <3>1. \A d \in D : d.via \in Maps
      BY <1>4, <1>5, DeliveryType, Zenon
    <3> QED
      BY <3>1, RouteAssumption, Zenon DEF RouteType
  <2>2. \A u \in Timelines : {d \in D : k[d] = u} = To(D, u)
    BY Zenon DEF To
  <2>3. \A u \in Timelines : i[u] = Cardinality({d \in D : k[d] = u})
    BY <2>2, ZenonT(60)
  <2>4. i \in [Timelines -> Int]
    BY <1>8
  <2> HIDE DEF i, k, D
  <2> QED
    BY <1>6, <2>1, <2>3, <2>4, TotalParts, ZenonT(60)
<1>11. /\ events'[t] = (events[t] \ {e}) \cup A \cup C(t) /\ window_list'[t] = window_list[t]
       /\ \A u \in Timelines : u # t =>
            events'[u] = events[u] /\ window_list'[u] = window_list[u] \cup C(u)
  BY <1>1, <1>3, ZenonT(30)
<1>12. /\ evtnum'[t] = evtnum[t] + (a + Cardinality(D)) /\ executed'[t] = executed[t] + 1
       /\ \A u \in Timelines : u # t => evtnum'[u] = evtnum[u] /\ executed'[u] = executed[u]
  BY <1>1, <1>2, <1>3, <1>6, Zenon
<1> HIDE DEF A, D, C, a, i
<1>13. \A x : x \in A \/ (\E u \in Timelines : x \in C(u)) =>
         \A v \in Timelines : x \notin events[v] /\ x \notin window_list[v]
  BY <1>9, NewIsNotHeld, ZenonT(60)
<1>14. \A u \in Timelines : A \cap C(u) = {}
  BY <1>9, Zenon
<1> DEFINE gain == [u \in Timelines |-> IF u = t THEN i[u] + (a - 1) ELSE i[u]]
<1>15. ASSUME NEW u \in Timelines
       PROVE  /\ IsFiniteSet(events'[u]) /\ IsFiniteSet(window_list'[u])
              /\ events'[u] \cap window_list'[u] = {}
              /\ IsFiniteSet(held'[u])
              /\ Cardinality(held'[u]) = Cardinality(held[u]) + gain[u]
  <2>1. IsFiniteSet(events[u]) /\ IsFiniteSet(window_list[u]) /\ events[u] \cap window_list[u] = {}
    BY Zenon DEF EventsInv
  <2>2. held[u] = events[u] \cup window_list[u] /\ held'[u] = events'[u] \cup window_list'[u]
    BY Zenon DEF held
  <2>3. IsFiniteSet(held[u]) /\ Cardinality(held[u]) \in Nat
    <3>1. IsFiniteSet(events[u] \cup window_list[u])
      BY <2>1, FS_Union, Zenon
    <3> QED
      BY <2>2, <3>1, FS_CardinalityType, Zenon
  <2>4. IsFiniteSet(C(u)) /\ Cardinality(C(u)) = i[u] /\ i[u] \in Nat
    BY <1>8, Zenon
  <2>5. CASE u # t
    <3>1. events'[u] = events[u] /\ window_list'[u] = window_list[u] \cup C(u)
      BY <1>11, <2>5, Zenon
    <3>2. held[u] \cap C(u) = {} /\ events[u] \cap C(u) = {} /\ held'[u] = held[u] \cup C(u)
      BY <1>13, <2>2, <3>1, Zenon
    <3>3. /\ IsFiniteSet(held[u] \cup C(u))
          /\ Cardinality(held[u] \cup C(u)) = Cardinality(held[u]) + Cardinality(C(u))
      BY <2>3, <2>4, <3>2, DisjointSize, Zenon
    <3>4. IsFiniteSet(window_list[u] \cup C(u))
      BY <2>1, <2>4, FS_Union, Zenon
    <3>5. events[u] \cap (window_list[u] \cup C(u)) = {}
      BY <2>1, <3>2, Zenon
    <3>6. gain[u] = i[u]
      BY <2>5, Zenon
    <3> QED
      BY <2>1, <2>4, <3>1, <3>2, <3>3, <3>4, <3>5, <3>6, Zenon
  <2>6. CASE u = t
    <3> DEFINE N == A \cup C(u)
               H == held[u] \ {e}
    <3>1. events'[u] = (events[u] \ {e}) \cup A \cup C(u) /\ window_list'[u] = window_list[u]
      BY <1>11, <2>6, Zenon
    <3>2. IsFiniteSet(N) /\ Cardinality(N) = a + i[u]
      BY <1>7, <1>14, <2>4, DisjointSize, ZenonT(60)
    <3>3. IsFiniteSet(H) /\ Cardinality(H) = Cardinality(held[u]) - 1
      <4>1. e \in held[u]
        BY <2>2, <2>6, Zenon
      <4> QED
        BY <2>3, <4>1, FS_RemoveElement, Zenon
    <3>4. events[u] \cap N = {} /\ window_list[u] \cap N = {}
      BY <1>13, Zenon
    <3>5. H \cap N = {} /\ held'[u] = H \cup N
      BY <2>1, <2>2, <2>6, <3>1, <3>4, SMTT(30)
    <3>6. events'[u] = (events[u] \ {e}) \cup N /\ events'[u] \cap window_list'[u] = {}
      BY <2>1, <3>1, <3>4, Zenon
    <3>7. IsFiniteSet(events'[u])
      <4>1. IsFiniteSet(events[u] \ {e})
        BY <2>1, FS_RemoveElement, Zenon
      <4>2. IsFiniteSet((events[u] \ {e}) \cup N)
        BY <3>2, <4>1, FS_Union, Zenon
      <4> QED
        BY <3>6, <4>2, Zenon
    <3> HIDE DEF H, N
    <3>8. IsFiniteSet(H \cup N) /\ Cardinality(H \cup N) = Cardinality(H) + Cardinality(N)
      BY <3>2, <3>3, <3>5, DisjointSize, ZenonT(60)
    <3>9. gain[u] = i[u] + (a - 1)
      BY <2>6, Zenon
    <3>10. Cardinality(held[u]) - 1 + (a + i[u]) = Cardinality(held[u]) + (i[u] + (a - 1))
      BY <1>6, <2>3, <2>4, SMTT(30)
    <3>11. IsFiniteSet(held'[u]) /\ Cardinality(held'[u]) = Cardinality(held[u]) + gain[u]
      BY <3>2, <3>3, <3>5, <3>8, <3>9, <3>10, ZenonT(60)
    <3> QED
      BY <2>1, <3>1, <3>6, <3>7, <3>11, Zenon
  <2> QED
    BY <2>5, <2>6, Zenon
<1>16. ASSUME NEW u \in Timelines, NEW y \in held'[u]
       PROVE  y.num < evtnum'[y.from]
  <2>1. y \in A \/ y \in C(u) \/ y \in held[u]
    <3>1. CASE u = t
      BY <1>11, <3>1, Zenon DEF held
    <3>2. CASE u # t
      BY <1>11, <3>2, Zenon DEF held
    <3> QED
      BY <3>1, <3>2, Zenon
  <2>2. CASE y \in A \/ y \in C(u)
    <3>1. y.from = t /\ y.num = evtnum[t] /\ a + Cardinality(D) > 0
      BY <1>6, <1>9, <2>2, Zenon
    <3>2. evtnum[t] \in Nat
      BY <1>3, Zenon
    <3> QED
      BY <1>6, <1>12, <3>1, <3>2, SMTT(30)
  <2>3. CASE y \in held[u]
    <3>1. y.num < evtnum[y.from] /\ y \in Event
      BY <1>3, <2>3, Zenon DEF EventsInv, held
    <3>2. y.num \in Nat /\ y.from \in Timelines /\ evtnum[y.from] \in Nat
      BY <1>3, <3>1, Zenon DEF Event
    <3>3. evtnum'[y.from] = evtnum[y.from] \/ evtnum'[y.from] = evtnum[y.from] + (a + Cardinality(D))
      BY <1>12, <3>2, Zenon
    <3> QED
      BY <1>6, <3>1, <3>2, <3>3, SMTT(30)
  <2> QED
    BY <2>1, <2>2, <2>3, Zenon
<1> DEFINE made == [u \in Timelines |-> IF u = t THEN a + Cardinality(D) ELSE 0]
           one == [u \in Timelines |-> IF u = t THEN 1 ELSE 0]
<1>17. /\ made \in [Timelines -> Int] /\ one \in [Timelines -> Int] /\ gain \in [Timelines -> Int]
       /\ made[t] = a + Cardinality(D) /\ one[t] = 1 /\ gain[t] = i[t] + (a - 1)
       /\ \A u \in Timelines : u # t => made[u] = 0 /\ one[u] = 0 /\ gain[u] = i[u]
  BY <1>6, <1>10
<1>18. \A u \in Timelines : evtnum'[u] = evtnum[u] + made[u] /\ executed'[u] = executed[u] + one[u]
  BY <1>3, <1>12
<1> HIDE DEF made, one, gain
<1>19. Total(made) = a + Cardinality(D) /\ Total(one) = 1
  BY <1>17, TotalPoint, Zenon
<1>20. Total(gain) = Total(i) + (a - 1)
  <2>1. a - 1 \in Int
    BY <1>6
  <2> QED
    BY <1>10, <1>17, <2>1, TotalChange
<1>21. Total(made) = Total(one) + Total(gain)
  BY <1>6, <1>10, <1>19, <1>20, SMTT(30)
<1>22. Total(evtnum') = Total(executed') + Total(Sizes(held'))
  <2>1. /\ made \in [Timelines -> Int] /\ one \in [Timelines -> Int]
        /\ gain \in [Timelines -> Int]
    BY <1>17, Zenon
  <2>2. \A u \in Timelines : /\ evtnum'[u] = evtnum[u] + made[u]
                             /\ executed'[u] = executed[u] + one[u]
                             /\ IsFiniteSet(held'[u])
                             /\ Cardinality(held'[u]) = Cardinality(held[u]) + gain[u]
    BY <1>15, <1>18, Zenon
  <2> QED
    BY <1>21, <2>1, <2>2, Balance, Zenon
<1> QED
  BY <1>15, <1>16, <1>22, Zenon DEF EventsInv

\* The activations on Timeline t that the deliveries D of all the Timelines create.
Arriving(num, D, t) == UNION {Activations(u, num[u], D[u], t) : u \in Timelines}

\* Counted by source or by destination, the writes of the init() methods are as many.
LEMMA ArrivingSize ==
  ASSUME NEW body, \A u \in Timelines : body[u] \in Bodies[u] \cup InitBodies[u],
         NEW D, DOMAIN D = Timelines, \A u \in Timelines : D[u] \subseteq Deliveries(body[u], 0),
         NEW num
  PROVE  \E i \in [Timelines -> Int] :
           /\ \A t \in Timelines : /\ IsFiniteSet(Arriving(num, D, t))
                                   /\ Cardinality(Arriving(num, D, t)) = i[t]
           /\ Total(i) = Total(Sizes(D))
<1> DEFINE all == UNION {D[u] : u \in Timelines}
           P == {p \in Timelines \X all : p[2] \in D[p[1]]}
           From(t) == {p \in P : p[1] = t}
           Into(t) == {p \in P : Route[p[2].via].dst = t}
<1>0. \A u \in Timelines : IsFiniteSet(D[u])
  BY DeliveriesFinite, Zenon
<1>1. IsFiniteSet(P)
  <2> DEFINE S == {D[u] : u \in Timelines}
             f == [u \in Timelines |-> D[u]]
  <2>1. f \in Surjection(Timelines, S)
    BY Zenon DEF Surjection
  <2>2. IsFiniteSet(S)
    BY <2>1, RouteAssumption, FS_Surjection, Zenon
  <2>3. IsFiniteSet(UNION S)
    BY <1>0, <2>2, FS_UNION, Zenon
  <2>4. IsFiniteSet(Timelines \X all)
    BY <2>3, RouteAssumption, FS_Product, Zenon
  <2> QED
    BY <2>4, FS_Subset, Zenon
<1>2. \A p \in P : /\ p = <<p[1], p[2]>> /\ p[1] \in Timelines
                   /\ p[2] \in D[p[1]] /\ p[2] \in Deliveries(body[p[1]], 0)
  OBVIOUS
<1>3. \A t \in Timelines : \A d \in D[t] : <<t, d>> \in P
  BY Zenon
<1>4. \A p \in P : p[2].via \in Maps /\ Route[p[2].via].dst \in Timelines
  <2> TAKE p \in P
  <2>1. p[2].via \in Maps
    BY <1>2, DeliveryType, Zenon
  <2> QED
    BY <2>1, RouteAssumption, Zenon DEF RouteType
<1> HIDE DEF P
<1>5. ASSUME NEW t \in Timelines PROVE Cardinality(D[t]) = Cardinality(From(t))
  <2> DEFINE f == [p \in From(t) |-> p[2]]
  <2>1. IsFiniteSet(From(t))
    BY <1>1, FS_Subset, Zenon
  <2>2. f \in [From(t) -> D[t]]
    BY <1>2, Zenon
  <2>3. \A d \in D[t] : \E p \in From(t) : f[p] = d
    <3> TAKE d \in D[t]
    <3>1. <<t, d>> \in From(t) /\ f[<<t, d>>] = d
      BY <1>3, Zenon
    <3> QED
      BY <3>1, Zenon
  <2>4. \A p \in From(t), q \in From(t) : f[p] = f[q] => p = q
    BY <1>2, Zenon
  <2> HIDE DEF f, From
  <2> QED
    BY <2>1, <2>2, <2>3, <2>4, ImageSize, Zenon
<1>6. ASSUME NEW t \in Timelines
      PROVE  /\ IsFiniteSet(Arriving(num, D, t))
             /\ Cardinality(Arriving(num, D, t)) = Cardinality(Into(t))
  <2> DEFINE E(p) == NewEvent(p[1], num[p[1]], "ACTIVATE", p[2].at, p[2].via)
             f == [p \in Into(t) |-> E(p)]
             T == Arriving(num, D, t)
  <2>1. IsFiniteSet(Into(t))
    BY <1>1, FS_Subset, Zenon
  <2>2. \A p \in Into(t) : f[p] \in T
    <3> TAKE p \in Into(t)
    <3>1. p[1] \in Timelines /\ p[2] \in D[p[1]] /\ Route[p[2].via].dst = t
      BY <1>2, Zenon
    <3>2. E(p) \in Activations(p[1], num[p[1]], D[p[1]], t)
      BY <3>1, Zenon DEF Activations
    <3> QED
      BY <3>1, <3>2, ZenonT(60) DEF Arriving
  <2>3. \A y \in T : \E p \in Into(t) : f[p] = y
    <3> TAKE y \in T
    <3>1. PICK u \in Timelines : y \in Activations(u, num[u], D[u], t)
      BY Zenon DEF Arriving
    <3>2. PICK d \in D[u] : /\ Route[d.via].dst = t
                            /\ y = NewEvent(u, num[u], "ACTIVATE", d.at, d.via)
      BY <3>1, Zenon DEF Activations
    <3>3. <<u, d>> \in Into(t)
      BY <1>3, <3>2, Zenon
    <3>4. f[<<u, d>>] = y
      BY <3>2, <3>3, Zenon
    <3> QED
      BY <3>3, <3>4, Zenon
  <2>4. ASSUME NEW p \in Into(t), NEW q \in Into(t), f[p] = f[q] PROVE p = q
    <3>1. E(p).from = p[1] /\ E(p).time = p[2].at /\ E(p).via = p[2].via
      BY Zenon DEF NewEvent
    <3>2. E(q).from = q[1] /\ E(q).time = q[2].at /\ E(q).via = q[2].via
      BY Zenon DEF NewEvent
    <3>3. E(p) = E(q)
      BY <2>4, Zenon
    <3> HIDE DEF E
    <3>4. p[1] = q[1] /\ p[2].at = q[2].at /\ p[2].via = q[2].via
      BY <3>1, <3>2, <3>3, Zenon
    <3>5. /\ p[1] \in Timelines /\ p[2] \in Deliveries(body[p[1]], 0)
          /\ q[2] \in Deliveries(body[q[1]], 0) /\ p = <<p[1], p[2]>> /\ q = <<q[1], q[2]>>
      BY <1>2, Zenon
    <3>6. q[2] \in Deliveries(body[p[1]], 0)
      BY <3>4, <3>5, Zenon
    <3>7. body[p[1]] \in Bodies[p[1]] \cup InitBodies[p[1]] /\ 0 \in Nat
      BY <3>5, Zenon
    <3>8. p[2] = q[2]
      <4> DEFINE v == p[1]
                 c == p[2]
                 d == q[2]
      <4>1. /\ v \in Timelines /\ body[v] \in Bodies[v] \cup InitBodies[v] /\ 0 \in Nat
            /\ c \in Deliveries(body[v], 0) /\ d \in Deliveries(body[v], 0)
            /\ c.via = d.via /\ c.at = d.at
        BY <3>4, <3>5, <3>6, <3>7, Zenon
      <4> HIDE DEF v, c, d
      <4>2. c = d
        BY <4>1, DeliveryByArrival, Zenon
      <4> QED
        BY <4>2, Zenon DEF c, d
    <3> QED
      BY <3>4, <3>5, <3>8, Zenon
  <2>5. f \in [Into(t) -> T]
    BY <2>2, Zenon
  <2> HIDE DEF f, Into
  <2> QED
    BY <2>1, <2>3, <2>4, <2>5, ImageSize, Zenon
<1> DEFINE k1 == [p \in P |-> p[1]]
           k2 == [p \in P |-> Route[p[2].via].dst]
           i == [t \in Timelines |-> Cardinality(Into(t))]
<1>7. k1 \in [P -> Timelines] /\ k2 \in [P -> Timelines]
  BY <1>2, <1>4, Zenon
<1>8. i \in [Timelines -> Int] /\ Sizes(D) \in [Timelines -> Int]
  <2>1. \A t \in Timelines : Cardinality(Into(t)) \in Nat
    <3> TAKE t \in Timelines
    <3>1. IsFiniteSet(Into(t))
      BY <1>1, FS_Subset, Zenon
    <3> HIDE DEF Into
    <3> QED
      BY <3>1, FS_CardinalityType, Zenon
  <2>2. Sizes(D) \in [Timelines -> Int]
    BY <1>0, SizesType, Zenon
  <2> HIDE DEF Into
  <2> QED
    BY <2>1, <2>2
<1>9. \A t \in Timelines : i[t] = Cardinality({p \in P : k2[p] = t})
  <2> TAKE t \in Timelines
  <2>1. Into(t) = {p \in P : k2[p] = t}
    BY Zenon
  <2> QED
    BY <2>1, Zenon
<1>10. \A t \in Timelines : Sizes(D)[t] = Cardinality({p \in P : k1[p] = t})
  <2> TAKE t \in Timelines
  <2>1. From(t) = {p \in P : k1[p] = t}
    BY Zenon
  <2> QED
    BY <1>5, <2>1, Zenon DEF Sizes
<1>11. \A t \in Timelines : i[t] = Cardinality(Into(t))
  BY Zenon
<1> HIDE DEF i, k1, k2, From, Into
<1>12. Total(i) = Cardinality(P)
  BY <1>1, <1>7, <1>8, <1>9, TotalParts, Zenon
<1>13. Total(Sizes(D)) = Cardinality(P)
  BY <1>1, <1>7, <1>8, <1>10, TotalParts, Zenon
<1> QED
  BY <1>6, <1>8, <1>11, <1>12, <1>13, Zenon

\* InitModel: all the init() methods create Events and none is executed.
LEMMA EventsInitModel ==
  ASSUME TypeOK, TypeOK', EventsInv, InitModel
  PROVE  EventsInv'
<1>1. PICK ib \in [Timelines -> UNION {InitBodies[t] : t \in Timelines}] :
        /\ \A t \in Timelines : ib[t] \in InitBodies[t]
        /\ events' = [t \in Timelines |->
             events[t] \cup Timeouts(t, evtnum[t], ib[t], 0)
                       \cup Activations(t, evtnum[t], Sent(t, ib[t], 0), t)]
        /\ window_list' = [t \in Timelines |->
             window_list[t] \cup UNION {Activations(u, evtnum[u], Sent(u, ib[u], 0), t) :
                                          u \in Timelines \ {t}}]
        /\ evtnum' = [t \in Timelines |-> evtnum[t] + Created(t, ib[t], 0)]
  BY Zenon DEF InitModel
<1>2. executed' = executed
  BY Zenon DEF InitModel
<1>3. /\ events \in [Timelines -> SUBSET Event] /\ evtnum \in [Timelines -> Nat]
      /\ executed \in [Timelines -> Nat] /\ window_list \in [Timelines -> SUBSET Event]
  BY Zenon DEF TypeOK
<1> DEFINE A(t) == Timeouts(t, evtnum[t], ib[t], 0)
           D == [t \in Timelines |-> Sent(t, ib[t], 0)]
           C(u, t) == Activations(u, evtnum[u], D[u], t)
           others(t) == UNION {C(u, t) : u \in Timelines \ {t}}
           a == [t \in Timelines |-> Cardinality(ib[t].timers)]
<1>4. \A t \in Timelines : ib[t] \in Bodies[t] \cup InitBodies[t] /\ 0 \in Nat
  BY <1>1, Zenon
<1>5. DOMAIN D = Timelines /\ \A t \in Timelines : D[t] \subseteq Deliveries(ib[t], 0)
  BY Zenon DEF Sent
<1>6. PICK i \in [Timelines -> Int] :
        /\ \A t \in Timelines : /\ IsFiniteSet(Arriving(evtnum, D, t))
                                /\ Cardinality(Arriving(evtnum, D, t)) = i[t]
        /\ Total(i) = Total(Sizes(D))
  <2> HIDE DEF D
  <2> QED
    BY <1>4, <1>5, ArrivingSize, Zenon
<1>7. \A t \in Timelines : IsFiniteSet(A(t)) /\ Cardinality(A(t)) = a[t] /\ a[t] \in Nat
  BY <1>4, TimeoutsSize, Zenon
<1>8. \A t \in Timelines : IsFiniteSet(D[t]) /\ Created(t, ib[t], 0) = a[t] + Sizes(D)[t]
  <2> TAKE t \in Timelines
  <2>1. IsFiniteSet(D[t])
    BY <1>4, <1>5, DeliveriesFinite, Zenon
  <2>2. Sizes(D)[t] = Cardinality(Sent(t, ib[t], 0)) /\ a[t] = Cardinality(ib[t].timers)
    BY Zenon DEF Sizes
  <2> QED
    BY <2>1, <2>2, ZenonT(60) DEF Created
<1>9. ASSUME NEW t \in Timelines
      PROVE  /\ Created(t, ib[t], 0) \in Nat
             /\ \A x \in A(t) : /\ x.type = "TIMEOUT" /\ x.from = t /\ x.num = evtnum[t]
                                /\ Created(t, ib[t], 0) > 0
             /\ \A u : \A x \in C(t, u) : /\ x.type = "ACTIVATE" /\ x.from = t
                                          /\ x.num = evtnum[t] /\ Created(t, ib[t], 0) > 0
  <2>1. \A u : C(t, u) = Activations(t, evtnum[t], Sent(t, ib[t], 0), u)
    BY Zenon
  <2>2. /\ Created(t, ib[t], 0) \in Nat
        /\ \A x \in Timeouts(t, evtnum[t], ib[t], 0) :
             /\ x.type = "TIMEOUT" /\ x.from = t /\ x.num = evtnum[t]
             /\ Created(t, ib[t], 0) > 0
        /\ \A u : \A x \in Activations(t, evtnum[t], Sent(t, ib[t], 0), u) :
             /\ x.type = "ACTIVATE" /\ x.from = t /\ x.num = evtnum[t]
             /\ Created(t, ib[t], 0) > 0
    BY <1>4, NewEvents, Zenon
  <2> HIDE DEF C, D
  <2> QED
    BY <2>1, <2>2, Zenon
<1>10. \A t \in Timelines : /\ events'[t] = events[t] \cup A(t) \cup C(t, t)
                            /\ window_list'[t] = window_list[t] \cup others(t)
                            /\ evtnum'[t] = evtnum[t] + Created(t, ib[t], 0)
  <2> TAKE t \in Timelines
  <2>1. \A u \in Timelines : C(u, t) = Activations(u, evtnum[u], Sent(u, ib[u], 0), t)
    BY Zenon
  <2>2. others(t) = UNION {Activations(u, evtnum[u], Sent(u, ib[u], 0), t) :
                             u \in Timelines \ {t}}
    BY <2>1, ZenonT(60)
  <2> HIDE DEF C, others
  <2> QED
    BY <1>1, <2>1, <2>2, ZenonT(60)
<1>11. ASSUME NEW t \in Timelines
       PROVE  /\ Arriving(evtnum, D, t) = C(t, t) \cup others(t)
              /\ C(t, t) \cap others(t) = {}
              /\ A(t) \cap C(t, t) = {} /\ A(t) \cap others(t) = {}
  <2>1. Arriving(evtnum, D, t) = C(t, t) \cup others(t)
    BY Zenon DEF Arriving
  <2> HIDE DEF A, C, D
  <2>2. \A x \in others(t) : x.from # t /\ x.type = "ACTIVATE"
    <3> TAKE x \in others(t)
    <3>1. PICK u \in Timelines \ {t} : x \in C(u, t)
      BY Zenon
    <3>2. x.from = u /\ x.type = "ACTIVATE"
      BY <1>9, <3>1, ZenonT(60)
    <3> QED
      BY <3>2, ZenonT(60)
  <2>3. /\ \A x \in C(t, t) : x.from = t /\ x.type = "ACTIVATE"
        /\ \A x \in A(t) : x.type = "TIMEOUT"
    BY <1>9, ZenonT(60)
  <2> HIDE DEF others
  <2> QED
    BY <2>1, <2>2, <2>3, Zenon
<1>12. ASSUME NEW t \in Timelines
       PROVE  /\ \A x \in A(t) : x.from = t /\ x.num = evtnum[t] /\ evtnum'[t] > evtnum[t]
              /\ \A x \in Arriving(evtnum, D, t) :
                   /\ x.from \in Timelines /\ x.num = evtnum[x.from]
                   /\ evtnum'[x.from] > evtnum[x.from]
  <2>1. \A u \in Timelines : Created(u, ib[u], 0) > 0 => evtnum'[u] > evtnum[u]
    <3> TAKE u \in Timelines
    <3>1. evtnum[u] \in Nat /\ Created(u, ib[u], 0) \in Nat
          /\ evtnum'[u] = evtnum[u] + Created(u, ib[u], 0)
      BY <1>3, <1>9, <1>10, ZenonT(60)
    <3> QED
      BY <3>1
  <2>2. \A x \in Arriving(evtnum, D, t) : \E u \in Timelines : x \in C(u, t)
    BY Zenon DEF Arriving
  <2> HIDE DEF A, C, D
  <2>3. \A x \in A(t) : x.from = t /\ x.num = evtnum[t] /\ evtnum'[t] > evtnum[t]
    BY <1>9, <2>1, Zenon
  <2>4. ASSUME NEW x \in Arriving(evtnum, D, t)
        PROVE  /\ x.from \in Timelines /\ x.num = evtnum[x.from]
               /\ evtnum'[x.from] > evtnum[x.from]
    <3>1. PICK u \in Timelines : x \in C(u, t)
      BY <2>2, Zenon
    <3>2. x.from = u /\ x.num = evtnum[u] /\ Created(u, ib[u], 0) > 0
      BY <1>9, <3>1, ZenonT(60)
    <3> QED
      BY <2>1, <3>2, Zenon
  <2> QED
    BY <2>3, <2>4, Zenon
<1> HIDE DEF A, C, others, D, a
<1>13. ASSUME NEW t \in Timelines, NEW x, x \in A(t) \/ x \in Arriving(evtnum, D, t)
       PROVE  x \notin events[t] /\ x \notin window_list[t]
  <2>1. \E u \in Timelines : x.from = u /\ x.num = evtnum[u]
    BY <1>12, <1>13, Zenon
  <2> QED
    BY <2>1, NewIsNotHeld, Zenon
<1> DEFINE gain == [t \in Timelines |-> a[t] + i[t]]
           made == [t \in Timelines |-> a[t] + Sizes(D)[t]]
           none == [t \in Timelines |-> 0]
<1>14. ASSUME NEW t \in Timelines
       PROVE  /\ IsFiniteSet(events'[t]) /\ IsFiniteSet(window_list'[t])
              /\ events'[t] \cap window_list'[t] = {}
              /\ held'[t] = held[t] \cup (A(t) \cup Arriving(evtnum, D, t))
              /\ IsFiniteSet(held'[t])
              /\ Cardinality(held'[t]) = Cardinality(held[t]) + gain[t]
  <2> DEFINE N == A(t) \cup Arriving(evtnum, D, t)
  <2>1. IsFiniteSet(events[t]) /\ IsFiniteSet(window_list[t]) /\ events[t] \cap window_list[t] = {}
    BY Zenon DEF EventsInv
  <2>2. held[t] = events[t] \cup window_list[t] /\ held'[t] = events'[t] \cup window_list'[t]
    BY ZenonT(60) DEF held
  <2>3. held'[t] = held[t] \cup N
    BY <1>10, <1>11, <2>2, Zenon
  <2>4. held[t] \cap N = {} /\ A(t) \cap Arriving(evtnum, D, t) = {}
    BY <1>11, <1>13, <2>2, Zenon
  <2>5. events'[t] \cap window_list'[t] = {}
    <3>1. /\ (A(t) \cup C(t, t)) \cap window_list[t] = {}
          /\ others(t) \cap events[t] = {}
      BY <1>11, <1>13, Zenon
    <3> QED
      BY <1>10, <1>11, <2>1, <3>1, Zenon
  <2>6. IsFiniteSet(held[t])
    <3>1. IsFiniteSet(events[t] \cup window_list[t])
      BY <2>1, FS_Union, Zenon
    <3> QED
      BY <2>2, <3>1, Zenon
  <2>7. IsFiniteSet(N) /\ Cardinality(N) = gain[t]
    <3>1. gain[t] = a[t] + i[t]
      BY Zenon
    <3> HIDE DEF gain
    <3>2. /\ IsFiniteSet(N)
          /\ Cardinality(N) = Cardinality(A(t)) + Cardinality(Arriving(evtnum, D, t))
      BY <1>6, <1>7, <2>4, DisjointSize, ZenonT(60)
    <3> QED
      BY <1>6, <1>7, <3>1, <3>2, ZenonT(60)
  <2> HIDE DEF N, gain
  <2>8. IsFiniteSet(held[t] \cup N)
        /\ Cardinality(held[t] \cup N) = Cardinality(held[t]) + Cardinality(N)
    BY <2>4, <2>6, <2>7, DisjointSize, Zenon
  <2>9. IsFiniteSet(held'[t])
    BY <2>3, <2>8, Zenon
  <2>10. IsFiniteSet(events'[t]) /\ IsFiniteSet(window_list'[t])
    <3>1. events'[t] \subseteq held'[t] /\ window_list'[t] \subseteq held'[t]
      BY <2>2, Zenon
    <3> QED
      BY <2>9, <3>1, FS_Subset, Zenon
  <2> QED
    BY <2>3, <2>5, <2>7, <2>8, <2>9, <2>10, Zenon DEF N
<1>15. ASSUME NEW t \in Timelines, NEW y \in held'[t]
       PROVE  y.num < evtnum'[y.from]
  <2>1. y \in A(t) \/ y \in Arriving(evtnum, D, t) \/ y \in held[t]
    BY <1>14, Zenon
  <2>2. CASE y \in A(t) \/ y \in Arriving(evtnum, D, t)
    <3>1. /\ y.from \in Timelines /\ y.num = evtnum[y.from]
          /\ evtnum'[y.from] > evtnum[y.from]
      BY <1>12, <2>2, ZenonT(60)
    <3>2. evtnum[y.from] \in Nat /\ evtnum'[y.from] \in Nat
      BY <1>3, <3>1, ZenonT(60) DEF TypeOK
    <3> QED
      BY <3>1, <3>2, Zenon
  <2>3. CASE y \in held[t]
    <3>1. y.num < evtnum[y.from] /\ y \in Event
      BY <1>3, <2>3, Zenon DEF EventsInv, held
    <3>2. y.num \in Nat /\ y.from \in Timelines /\ evtnum[y.from] \in Nat
      BY <1>3, <3>1, Zenon DEF Event
    <3>3. Created(y.from, ib[y.from], 0) \in Nat
          /\ evtnum'[y.from] = evtnum[y.from] + Created(y.from, ib[y.from], 0)
      BY <1>9, <1>10, <3>2, ZenonT(60)
    <3> QED
      BY <3>1, <3>2, <3>3, SMTT(30)
  <2> QED
    BY <2>1, <2>2, <2>3, Zenon
<1>16. a \in [Timelines -> Int] /\ Sizes(D) \in [Timelines -> Int]
  <2>1. Sizes(D) \in [Timelines -> Int]
    BY <1>8, SizesType, Zenon
  <2>2. a \in [Timelines -> Int]
    BY <1>7, SMTT(30) DEF a
  <2> QED
    BY <2>1, <2>2, Zenon
<1>17. /\ gain \in [Timelines -> Int] /\ made \in [Timelines -> Int] /\ none \in [Timelines -> Int]
       /\ \A t \in Timelines : gain[t] = a[t] + i[t]
       /\ \A t \in Timelines : made[t] = a[t] + Sizes(D)[t]
       /\ \A t \in Timelines : none[t] = 0
  BY <1>16
<1> HIDE DEF gain, made, none
<1>18. Total(none) = 0
  BY <1>17, TotalPoint, RouteAssumption, Zenon
<1>19. Total(gain) = Total(a) + Total(i)
  BY <1>16, <1>17, TotalAdd, ZenonT(60)
<1>20. Total(made) = Total(a) + Total(Sizes(D))
  BY <1>16, <1>17, TotalAdd, ZenonT(60)
<1>21. Total(made) = Total(none) + Total(gain)
  <2>1. Total(a) \in Int /\ Total(i) \in Int
    BY <1>16, TotalType, Zenon
  <2> QED
    BY <1>6, <1>18, <1>19, <1>20, <2>1, SMTT(30)
<1>22. Total(evtnum') = Total(executed') + Total(Sizes(held'))
  <2>1. \A t \in Timelines : evtnum'[t] = evtnum[t] + made[t]
    BY <1>8, <1>10, <1>17, ZenonT(60)
  <2>2. \A t \in Timelines : executed'[t] = executed[t] + none[t]
    BY <1>2, <1>3, <1>17, SMTT(30)
  <2>3. \A t \in Timelines : IsFiniteSet(held'[t])
                             /\ Cardinality(held'[t]) = Cardinality(held[t]) + gain[t]
    BY <1>14, Zenon
  <2>4. \A t \in Timelines : /\ evtnum'[t] = evtnum[t] + made[t]
                             /\ executed'[t] = executed[t] + none[t]
                             /\ IsFiniteSet(held'[t])
                             /\ Cardinality(held'[t]) = Cardinality(held[t]) + gain[t]
    BY <2>1, <2>2, <2>3, Zenon
  <2>5. /\ gain \in [Timelines -> Int] /\ made \in [Timelines -> Int]
        /\ none \in [Timelines -> Int]
    BY <1>17, Zenon
  <2> QED
    BY <1>21, <2>4, <2>5, Balance, ZenonT(60)
<1> QED
  BY <1>14, <1>15, <1>22, Zenon DEF EventsInv
-----------------------------------------------------------------------------
\* Every step keeps the invariant: the others touch no list and no count.
LEMMA EventsStep ==
  ASSUME TypeOK, TypeOK', EventsInv, [Next]_vars
  PROVE  EventsInv'
<1>1. CASE InitModel
  BY <1>1, EventsInitModel, Zenon
<1>2. ASSUME NEW t \in Timelines, RunBody(t) PROVE EventsInv'
  BY <1>2, EventsRunBody, Zenon
<1>3. ASSUME NEW t \in Timelines, Activate(t) PROVE EventsInv'
  BY <1>3, EventsActivate, Zenon
<1>4. ASSUME NEW t \in Timelines, Collect(t) PROVE EventsInv'
  BY <1>4, EventsCollect, Zenon
<1>5. CASE UNCHANGED eventVars
  <2>1. UNCHANGED <<events, window_list, evtnum, executed>>
    BY <1>5, Zenon DEF eventVars
  <2>2. held' = held
    BY <2>1, Zenon DEF held
  <2>3. \A t \in Timelines : /\ IsFiniteSet(events'[t]) /\ IsFiniteSet(window_list'[t])
                             /\ events'[t] \cap window_list'[t] = {}
    BY <2>1, Zenon DEF EventsInv
  <2> QED
    BY <2>1, <2>2, <2>3, EventsSame, Zenon
<1>6. CASE \/ \E na \in NextActions, len \in EpochLengths : Advance(na, len)
           \/ AdvanceReturn \/ Finished
  BY <1>5, <1>6, Zenon DEF Advance, AdvanceReturn, Finished, vars
<1>7. CASE Barriers
  BY <1>5, <1>7, Zenon DEF Barriers, WindowRelease, BottomRelease, TopRelease
<1>8. ASSUME NEW t \in Timelines,
             StartEpoch(t) \/ Offer(t) \/ ReadEdge(t) \/ EndWindow(t) \/ LoopTest(t)
      PROVE  EventsInv'
  <2>1. UNCHANGED eventVars
    BY <1>8, Zenon DEF StartEpoch, Offer, ReadEdge, EndWindow, LoopTest
  <2> QED
    BY <1>5, <2>1, Zenon
<1>9. CASE UNCHANGED vars
  BY <1>5, <1>9, Zenon DEF vars
<1> QED
  BY <1>1, <1>2, <1>3, <1>4, <1>6, <1>7, <1>8, <1>9, Zenon DEF Next, Control, TimelineStep

\* InitModel, sync_window and get_cross_timeline_events: whatever the model, and
\* however the Timelines interleave, every Event ever created has been executed once
\* or is in exactly one list.
THEOREM EventsConserved == Spec => []NoEventLost
<1>1. Init => EventsInv
  BY EventsInit, Zenon
<1>2. TypeOK /\ TypeOK' /\ EventsInv /\ [Next]_vars => EventsInv'
  BY EventsStep, Zenon
<1>3. TypeOK /\ EventsInv => NoEventLost
  BY HeldInTwoLists, Zenon
<1> QED
  BY <1>1, <1>2, <1>3, TypeCorrect, PTL DEF Spec
=============================================================================
