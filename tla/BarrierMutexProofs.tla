------------------------- MODULE BarrierMutexProofs -------------------------
(***************************************************************************)
(* Proof that barrier_mutex_t implements MinBarrier for any number of      *)
(* threads and of rounds.                                                  *)
(*                                                                         *)
(* The argument: a thread is at most one call ahead of the completed       *)
(* rounds; the counter counts the threads that still have to join the      *)
(* round, and min_value is the least offer of those that have joined.      *)
(***************************************************************************)
EXTENDS BarrierMutex, TLAPS, FiniteSetTheorems

\* The threads that have joined the open round.
Joined == {t \in Threads : pc[t] \in {"wait", "woken"} /\ calls[t] = rounds + 1}

RoundInv ==
  /\ counter = threshold - Cardinality(Joined)
  /\ Abstract!IsLeast(min_value, offer, Joined)
  /\ \A t \in Threads :
       /\ calls[t] \in {rounds, rounds + 1}
       /\ pc[t] \in {"out", "back"} => calls[t] = rounds
       /\ pc[t] \in {"lock", "wait"} => calls[t] = rounds + 1
       /\ pc[t] \in {"wait", "woken"} => (my_cycle[t] = cycle <=> calls[t] = rounds + 1)

\* The number of threads is a positive number.
LEMMA ThresholdType == threshold \in Nat \ {0}
BY BarrierAssumption, FS_CardinalityType, FS_EmptySet DEF threshold

\* The counter of joined threads makes sense.
LEMMA JoinedFinite == IsFiniteSet(Joined) /\ Cardinality(Joined) \in Nat
<1>1. Joined \subseteq Threads
  BY DEF Joined
<1> QED
  BY <1>1, BarrierAssumption, FS_Subset, FS_CardinalityType

\* One more offer enters the minimum as wait computes it.
LEMMA ReducedLeast ==
  ASSUME TypeOK, NEW t \in Threads, NEW S \in SUBSET Threads,
         Abstract!IsLeast(min_value, offer, S)
  PROVE  /\ Abstract!IsLeast(Reduced(offer[t]), offer, S \cup {t})
         /\ Reduced(offer[t]) \in Offers \cup {-1}
<1>0. \A x \in Offers \cup {-1} : x \in Int
  BY BarrierAssumption
<1>1. /\ min_value \in Int /\ min_value \in Offers \cup {-1}
      /\ \A u \in Threads : offer[u] \in Int /\ offer[u] \in Offers \cup {-1}
  BY <1>0 DEF TypeOK
<1> QED
  BY <1>1 DEF Reduced, Abstract!IsLeast

\* When the counter is down to one, everybody but the caller has joined.
LEMMA LastOne ==
  ASSUME TypeOK, RoundInv, NEW t \in Threads, pc[t] = "lock", counter = 1
  PROVE  Joined = Threads \ {t}
<1>1. Joined \subseteq Threads \ {t}
  BY DEF Joined
<1>2. IsFiniteSet(Threads \ {t}) /\ Cardinality(Threads \ {t}) = threshold - 1
  BY BarrierAssumption, FS_RemoveElement DEF threshold
<1>3. Cardinality(Joined) = threshold - 1
  BY ThresholdType, JoinedFinite DEF RoundInv
<1> QED
  BY <1>1, <1>2, <1>3, FS_Subset

\* Types are preserved by every step.
LEMMA TypeStep == TypeOK /\ RoundInv /\ [Next]_vars => TypeOK'
<1> SUFFICES ASSUME TypeOK, RoundInv, [Next]_vars
             PROVE  TypeOK'
  OBVIOUS
<1> USE DEF TypeOK
<1>0. threshold \in Nat \ {0}
  BY ThresholdType
<1>1. ASSUME NEW t \in Threads, Call(t) PROVE TypeOK'
  BY <1>1, BarrierAssumption DEF Call, barrierVars
<1>2. ASSUME NEW t \in Threads, Arrive(t) PROVE TypeOK'
  BY <1>2, <1>0 DEF Arrive, Reduced
<1>3. ASSUME NEW t \in Threads, ArriveLast(t) PROVE TypeOK'
  <2>1. rounds + 1 = calls[t]
    BY <1>3 DEF RoundInv, ArriveLast, LastIn
  <2>2. rounds + 1 \in 0 .. MaxRounds
    BY <2>1
  <2> QED
    BY <1>3, <1>0, <2>2 DEF ArriveLast, LastIn, Reduced
<1>4. ASSUME NEW t \in Threads, Recheck(t) PROVE TypeOK'
  BY <1>4 DEF Recheck, barrierVars
<1>5. ASSUME NEW t \in Threads, Leave(t) PROVE TypeOK'
  BY <1>5 DEF Leave, barrierVars
<1>6. ASSUME NEW t \in Threads, Spurious(t) PROVE TypeOK'
  BY <1>6 DEF Spurious, barrierVars
<1>7. CASE UNCHANGED vars
  BY <1>7 DEF vars, barrierVars
<1> QED
  BY <1>1, <1>2, <1>3, <1>4, <1>5, <1>6, <1>7 DEF Next, Step, Finished

\* A thread joins the round: the counter goes down and its offer is taken in.
LEMMA RoundArrive ==
  ASSUME TypeOK, RoundInv, NEW t \in Threads, Arrive(t)
  PROVE  RoundInv'
<1>1. Joined' = Joined \cup {t} /\ t \notin Joined
  BY DEF Arrive, Joined, RoundInv, TypeOK
<1>2. Cardinality(Joined') = Cardinality(Joined) + 1
  BY <1>1, JoinedFinite, FS_AddElement
<1>3. counter' = threshold - Cardinality(Joined')
  BY <1>2, ThresholdType, JoinedFinite DEF Arrive, RoundInv
<1>4. Abstract!IsLeast(Reduced(offer[t]), offer, Joined \cup {t})
  BY ReducedLeast DEF RoundInv, Joined
<1>5. Abstract!IsLeast(min_value', offer', Joined')
  BY <1>1, <1>4 DEF Arrive, Abstract!IsLeast
<1> QED
  BY <1>3, <1>5 DEF RoundInv, Arrive, TypeOK, threshold

\* The last thread closes the round: nobody has joined the next one yet.
LEMMA RoundArriveLast ==
  ASSUME TypeOK, RoundInv, NEW t \in Threads, ArriveLast(t)
  PROVE  RoundInv'
<1>1. Joined = Threads \ {t}
  BY LastOne DEF ArriveLast, LastIn
<1>2. \A u \in Threads : calls'[u] = rounds + 1 /\ (u # t => pc'[u] = "woken" /\ my_cycle'[u] = cycle)
  BY <1>1 DEF Joined, ArriveLast, LastIn, Sleeping, RoundInv, TypeOK
<1>3. rounds' = rounds + 1 /\ pc'[t] = "back" /\ cycle' = 1 - cycle /\ rounds \in Int
  BY DEF ArriveLast, LastIn, TypeOK
<1>4. Joined' = {}
  BY <1>2, <1>3 DEF Joined
<1>5. Abstract!IsLeast(min_value', offer', Joined')
  BY <1>4 DEF ArriveLast, LastIn, Abstract!IsLeast
<1>6. counter' = threshold' - Cardinality(Joined')
  BY <1>4, FS_EmptySet, ThresholdType DEF ArriveLast, LastIn, threshold
<1>7. cycle # cycle'
  BY <1>3 DEF TypeOK
<1> QED
  BY <1>2, <1>3, <1>5, <1>6, <1>7 DEF RoundInv

\* The other steps leave the round as it is.
LEMMA RoundStep == TypeOK /\ RoundInv /\ [Next]_vars => RoundInv'
<1> SUFFICES ASSUME TypeOK, RoundInv, [Next]_vars
             PROVE  RoundInv'
  OBVIOUS
<1>0. ASSUME Joined' = Joined, UNCHANGED <<counter, min_value>>,
             \A u \in Joined : offer'[u] = offer[u]
      PROVE  /\ counter' = threshold' - Cardinality(Joined')
             /\ Abstract!IsLeast(min_value', offer', Joined')
  BY <1>0 DEF RoundInv, threshold, Abstract!IsLeast
<1>1. ASSUME NEW t \in Threads, Call(t) PROVE RoundInv'
  <2>1. Joined' = Joined /\ t \notin Joined
    BY <1>1 DEF Call, Joined, TypeOK
  <2>2. \A u \in Joined : offer'[u] = offer[u]
    BY <1>1, <2>1 DEF Call, Joined, TypeOK
  <2> QED
    BY <1>0, <1>1, <2>1, <2>2 DEF RoundInv, Call, TypeOK, barrierVars
<1>2. ASSUME NEW t \in Threads, Arrive(t) PROVE RoundInv'
  BY <1>2, RoundArrive
<1>3. ASSUME NEW t \in Threads, ArriveLast(t) PROVE RoundInv'
  BY <1>3, RoundArriveLast
<1>4. ASSUME NEW t \in Threads, Recheck(t) PROVE RoundInv'
  <2>1. Joined' = Joined
    BY <1>4 DEF Recheck, Joined, TypeOK, RoundInv
  <2> QED
    BY <1>0, <1>4, <2>1 DEF RoundInv, Recheck, TypeOK, barrierVars
<1>5. ASSUME NEW t \in Threads, Leave(t) PROVE RoundInv'
  <2>1. Joined' = Joined
    BY <1>5 DEF Leave, Joined, TypeOK
  <2> QED
    BY <1>0, <1>5, <2>1 DEF RoundInv, Leave, TypeOK, barrierVars
<1>6. ASSUME NEW t \in Threads, Spurious(t) PROVE RoundInv'
  <2>1. Joined' = Joined
    BY <1>6 DEF Spurious, Joined, TypeOK
  <2> QED
    BY <1>0, <1>6, <2>1 DEF RoundInv, Spurious, TypeOK, barrierVars
<1>7. CASE UNCHANGED vars
  BY <1>7 DEF vars, barrierVars, RoundInv, Joined, threshold, Abstract!IsLeast
<1> QED
  BY <1>1, <1>2, <1>3, <1>4, <1>5, <1>6, <1>7 DEF Next, Step, Finished

\* The rounds are kept apart, for any number of threads and of rounds.
THEOREM RoundsHold == Spec => [](TypeOK /\ RoundInv)
<1>1. Init => TypeOK
  BY ThresholdType, BarrierAssumption DEF Init, TypeOK
<1>2. Init => RoundInv
  <2> SUFFICES ASSUME Init PROVE RoundInv
    OBVIOUS
  <2>1. Joined = {}
    BY DEF Init, Joined
  <2> QED
    BY <2>1, FS_EmptySet, ThresholdType DEF Init, RoundInv, Abstract!IsLeast
<1>3. TypeOK /\ RoundInv /\ [Next]_vars => (TypeOK /\ RoundInv)'
  BY TypeStep, RoundStep
<1> QED
  BY <1>1, <1>2, <1>3, PTL DEF Spec

\* One bit of cycle is enough to tell a thread's own round from the one before and
\* from the one after.
THEOREM CycleSound == Spec => []CycleTellsRounds
<1>1. TypeOK /\ RoundInv => CycleTellsRounds
  BY DEF TypeOK, RoundInv, CycleTellsRounds
<1> QED
  BY <1>1, RoundsHold, PTL

\* One thread has been told that it closed the last round; the others have been told
\* that they did not, or are still on their way out of it.
SerialInv ==
  rounds > 0 =>
    \E w \in Threads :
      /\ status[w] = -1 /\ ~(pc[w] = "woken" /\ calls[w] = rounds)
      /\ \A u \in Threads \ {w} : status[u] = 0 \/ (pc[u] = "woken" /\ calls[u] = rounds)

\* Every step preserves it.
LEMMA SerialStep == TypeOK /\ RoundInv /\ SerialInv /\ [Next]_vars => SerialInv'
<1> SUFFICES ASSUME TypeOK, RoundInv, SerialInv, [Next]_vars
             PROVE  SerialInv'
  OBVIOUS
<1>1. ASSUME NEW t \in Threads, Call(t) PROVE SerialInv'
  <2>1. /\ UNCHANGED <<status, rounds>> /\ pc[t] = "out" /\ pc'[t] = "lock"
        /\ \A u \in Threads : u # t => pc'[u] = pc[u] /\ calls'[u] = calls[u]
    BY <1>1 DEF Call, TypeOK
  <2> QED
    BY <2>1 DEF SerialInv
<1>2. ASSUME NEW t \in Threads, Arrive(t) PROVE SerialInv'
  <2>1. /\ UNCHANGED <<status, rounds, calls>> /\ pc[t] = "lock" /\ pc'[t] = "wait"
        /\ \A u \in Threads : u # t => pc'[u] = pc[u]
    BY <1>2 DEF Arrive, TypeOK
  <2> QED
    BY <2>1 DEF SerialInv
<1>3. ASSUME NEW t \in Threads, ArriveLast(t) PROVE SerialInv'
  <2>1. Joined = Threads \ {t}
    BY <1>3, LastOne DEF ArriveLast, LastIn
  <2>2. /\ rounds' = rounds + 1 /\ UNCHANGED calls /\ pc'[t] = "back" /\ status'[t] = -1
        /\ \A u \in Threads \ {t} : pc'[u] = "woken" /\ calls[u] = rounds + 1
    BY <1>3, <2>1 DEF ArriveLast, LastIn, Sleeping, Joined, TypeOK
  <2> QED
    BY <2>2 DEF SerialInv
<1>4. ASSUME NEW t \in Threads, Recheck(t) PROVE SerialInv'
  <2>1. /\ UNCHANGED <<rounds, calls>> /\ pc[t] = "woken"
        /\ \A u \in Threads : u # t => pc'[u] = pc[u] /\ status'[u] = status[u]
    BY <1>4 DEF Recheck, TypeOK
  <2>2. CASE my_cycle[t] = cycle
    <3>1. calls[t] = rounds + 1 /\ rounds \in Nat /\ pc'[t] = "wait" /\ status'[t] = status[t]
      BY <1>4, <2>1, <2>2 DEF Recheck, TypeOK, RoundInv
    <3>2. calls[t] # rounds
      BY <3>1
    <3> QED
      BY <2>1, <3>1, <3>2 DEF SerialInv
  <2>3. CASE my_cycle[t] # cycle
    <3>1. calls[t] = rounds /\ pc'[t] = "back" /\ status'[t] = 0
      BY <1>4, <2>1, <2>3 DEF Recheck, TypeOK, RoundInv
    <3> QED
      BY <2>1, <3>1 DEF SerialInv
  <2> QED
    BY <2>2, <2>3
<1>5. ASSUME NEW t \in Threads, Leave(t) \/ Spurious(t) PROVE SerialInv'
  <2>1. /\ UNCHANGED <<status, rounds, calls>> /\ pc[t] \in {"back", "wait"}
        /\ pc'[t] = "out" \/ (pc[t] = "wait" /\ pc'[t] = "woken")
        /\ \A u \in Threads : u # t => pc'[u] = pc[u]
    BY <1>5 DEF Leave, Spurious, TypeOK
  <2>2. pc[t] = "wait" => calls[t] # rounds
    <3>1. rounds \in Nat /\ (pc[t] = "wait" => calls[t] = rounds + 1)
      BY DEF RoundInv, TypeOK
    <3> QED
      BY <3>1
  <2> QED
    BY <2>1, <2>2 DEF SerialInv
<1>6. CASE UNCHANGED vars
  BY <1>6 DEF vars, SerialInv
<1> QED
  BY <1>1, <1>2, <1>3, <1>4, <1>5, <1>6 DEF Next, Step, Finished

\* When all are back from a round, exactly one thread got -1 from wait, however the
\* threads were woken: the serial code behind the barrier runs once.
THEOREM SerialOnce == Spec => []OneSerialThread
<1>1. Init => SerialInv
  BY DEF Init, SerialInv
<1>2. TypeOK /\ SerialInv => OneSerialThread
  <2> SUFFICES ASSUME TypeOK, SerialInv, rounds > 0,
                      \A t \in Threads : pc[t] \in {"back", "out"} /\ calls[t] = rounds
               PROVE  Cardinality({t \in Threads : status[t] = -1}) = 1
    BY DEF OneSerialThread
  <2>1. PICK w \in Threads : status[w] = -1 /\ \A u \in Threads \ {w} : status[u] = 0
    BY DEF SerialInv
  <2>2. {t \in Threads : status[t] = -1} = {w}
    BY <2>1
  <2> QED
    BY <2>2, FS_Singleton
<1> QED
  BY <1>1, <1>2, SerialStep, RoundsHold, PTL DEF Spec

\* Every step of the barrier is a step of MinBarrier or invisible to its callers.
LEMMA RefinesStep ==
  TypeOK /\ RoundInv /\ TypeOK' /\ [Next]_vars => [Abstract!Next]_(Abstract!absVars)
<1> SUFFICES ASSUME TypeOK, RoundInv, TypeOK', [Next]_vars
             PROVE  [Abstract!Next]_(Abstract!absVars)
  OBVIOUS
<1> DEFINE returns == [t \in Threads |-> IF pc[t] = "out" THEN calls[t] ELSE calls[t] - 1]
<1>0. ASSUME UNCHANGED <<calls, offer, rounds, reduction_value>>,
             \A u \in Threads : pc'[u] = "out" <=> pc[u] = "out"
      PROVE  UNCHANGED Abstract!absVars
  <2>1. returns' = returns
    BY <1>0
  <2> QED
    BY <1>0, <2>1 DEF Abstract!absVars
<1>1. ASSUME NEW t \in Threads, Call(t) PROVE Abstract!Enter(t)
  <2>1. returns' = returns
    BY <1>1 DEF Call, TypeOK
  <2>2. returns[t] = calls[t]
    BY <1>1 DEF Call
  <2> QED
    BY ZenonT(60), <1>1, <2>1, <2>2 DEF Call, barrierVars, Abstract!Enter
<1>2. ASSUME NEW t \in Threads, Arrive(t) PROVE UNCHANGED Abstract!absVars
  BY <1>0, <1>2 DEF Arrive, TypeOK
<1>3. ASSUME NEW t \in Threads, ArriveLast(t) PROVE Abstract!Complete
  <2>1. Joined = Threads \ {t}
    BY <1>3, LastOne DEF ArriveLast, LastIn
  <2>2. \A u \in Threads : calls[u] = rounds + 1
    BY <1>3, <2>1 DEF Joined, ArriveLast, LastIn, RoundInv
  <2>3. /\ Abstract!IsLeast(Reduced(offer[t]), offer, Joined \cup {t})
        /\ Reduced(offer[t]) \in Offers \cup {-1}
    BY ReducedLeast DEF RoundInv, Joined
  <2>4. Joined \cup {t} = Threads
    BY <2>1
  <2>5. \A u \in Threads : pc'[u] = "out" <=> pc[u] = "out"
    BY <1>3, <2>1 DEF Joined, ArriveLast, LastIn, Sleeping
  <2>6. returns' = returns
    BY <1>3, <2>5 DEF ArriveLast, LastIn
  <2> QED
    BY ZenonT(60), <1>3, <2>2, <2>3, <2>4, <2>6 DEF ArriveLast, LastIn, Abstract!Complete
<1>4. ASSUME NEW t \in Threads, Recheck(t) PROVE UNCHANGED Abstract!absVars
  BY <1>0, <1>4 DEF Recheck, TypeOK, barrierVars
<1>5. ASSUME NEW t \in Threads, Leave(t) PROVE Abstract!Leave(t)
  <2>1. returns[t] = calls[t] - 1 /\ calls[t] = rounds /\ calls[t] \in Int
    BY <1>5 DEF Leave, RoundInv, TypeOK
  <2>2. returns' = [returns EXCEPT ![t] = @ + 1]
    <3>1. calls' = calls /\ \A u \in Threads : pc'[u] = IF u = t THEN "out" ELSE pc[u]
      BY <1>5 DEF Leave, TypeOK
    <3>2. \A u \in Threads : returns'[u] = IF u = t THEN returns[t] + 1 ELSE returns[u]
      BY <2>1, <3>1
    <3> QED
      BY <3>2, Zenon
  <2> QED
    BY <1>5, <2>1, <2>2 DEF Leave, barrierVars, Abstract!Leave
<1>6. ASSUME NEW t \in Threads, Spurious(t) PROVE UNCHANGED Abstract!absVars
  BY <1>0, <1>6 DEF Spurious, TypeOK, barrierVars
<1>7. CASE UNCHANGED vars
  BY <1>0, <1>7 DEF vars, barrierVars
<1> QED
  BY <1>1, <1>2, <1>3, <1>4, <1>5, <1>6, <1>7 DEF Next, Step, Finished, Abstract!Next

\* barrier_mutex_t keeps the promise of MinBarrier.
THEOREM MutexImplements == Spec => ImplementsMinBarrier
<1>1. Init => Abstract!Init
  BY DEF Init, Abstract!Init
<1>2. TypeOK /\ RoundInv /\ TypeOK' /\ [Next]_vars => [Abstract!Next]_(Abstract!absVars)
  BY RefinesStep
<1> QED
  BY <1>1, <1>2, RoundsHold, PTL DEF Spec, Abstract!Spec, ImplementsMinBarrier
=============================================================================
