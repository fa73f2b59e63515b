------------------------- MODULE BarrierYieldProofs -------------------------
(***************************************************************************)
(* Proof that barrier_t implements MinBarrier for any number of threads,   *)
(* without a lock, as long as its int cycle does not overflow.             *)
(*                                                                         *)
(* The argument: a thread is at most one call ahead of the rounds that     *)
(* thread 0 has published; once thread 0 has seen that a thread made its   *)
(* call, that thread spins until the release, so its value stays.          *)
(***************************************************************************)
EXTENDS BarrierYield, TLAPS

\* The rounds thread 0 has published.
Published == IF pc[0] = "release" THEN cycle + 1 ELSE cycle

\* How far a thread may be from the published rounds.
InStep(who) ==
  /\ Called[who] \in {Published, Published + 1}
  /\ pc[who] \in {"out", "back", "release"} => Called[who] = Published
  /\ pc[who] = "count" => Called[who] = Published + 1 /\ calls[who] < MaxRounds
  /\ pc[who] = "release" => who = 0
  /\ pc[who] = "read" => i[who] < count
  /\ Called[who] > 0 => values[who] \in Offers \cup {-1}

\* What thread 0 knows on its way through the loop.
ZeroKnows ==
  /\ pc[0] \in {"count", "scan", "read"} =>
       /\ Called[0] = Published + 1
       /\ Abstract!IsLeast(lt_min_value[0], values, 0 .. i[0] - 1)
       /\ \A j \in 1 .. i[0] - 1 : calls[j] = Published + 1
  /\ pc[0] = "count" => i[0] = 1
  /\ pc[0] = "read" => calls[i[0]] = Published + 1

RoundInv == (\A who \in Threads : InStep(who)) /\ ZeroKnows

\* The threads are numbered from 0.
LEMMA ThreadNumbers ==
  /\ count \in Nat /\ 0 \in Threads
  /\ \A k \in Int : k \in Threads <=> 0 <= k /\ k < count
BY CountAssumption DEF Threads

\* Thread 0 waits for the threads in order.
LEMMA AwaitedByZero ==
  ASSUME TypeOK, i[0] < count
  PROVE  Awaited(0) = i[0]
<1>1. 0 \in Threads
  BY CountAssumption DEF Threads
<1>2. i[0] \in 1 .. count - 1
  BY <1>1, CountAssumption DEF TypeOK
<1> QED
  BY <1>2, CountAssumption DEF Awaited

\* Types of the numbers involved.
LEMMA Numbers ==
  ASSUME TypeOK
  PROVE  /\ 0 \in Threads /\ Published \in Nat /\ cycle \in Nat
         /\ \A who \in Threads : /\ who \in Nat /\ calls[who] \in Nat /\ Called[who] \in Nat
                                 /\ i[who] \in Nat /\ values[who] \in Int
                                 /\ lt_min_value[who] \in Int
<1>1. \A x \in Offers \cup {-1, 0} : x \in Int
  BY CountAssumption
<1>2. \A who \in Threads : values[who] \in Int /\ lt_min_value[who] \in Int
  BY <1>1 DEF TypeOK
<1>3. 0 \in Threads /\ \A who \in Threads : who \in Nat
  BY CountAssumption DEF Threads
<1>4. cycle \in Nat /\ Published \in Nat
  BY CountAssumption DEF TypeOK, Published
<1>5. \A who \in Threads : calls[who] \in Nat /\ i[who] \in Nat
  BY CountAssumption DEF TypeOK
<1>6. \A who \in Threads : Called[who] \in Nat
  BY <1>5 DEF Called
<1> QED
  BY <1>2, <1>3, <1>4, <1>5, <1>6

\* Types are preserved by every step.
LEMMA TypeStep == TypeOK /\ RoundInv /\ [Next]_vars => TypeOK'
<1> SUFFICES ASSUME TypeOK, RoundInv, [Next]_vars
             PROVE  TypeOK'
  OBVIOUS
<1>0. 0 \in Threads /\ cycle \in Nat
  BY Numbers
<1> USE DEF TypeOK, Goto
<1>1. ASSUME NEW who \in Threads, Store(who) PROVE TypeOK'
  BY <1>1, CountAssumption DEF Store
<1>2. ASSUME NEW who \in Threads, Count(who) PROVE TypeOK'
  <2>1. calls[who] + 1 \in 0 .. MaxRounds
    BY <1>2, CountAssumption DEF Count, RoundInv, InStep
  <2> QED
    BY <1>2, <2>1 DEF Count
<1>3. ASSUME NEW who \in Threads, Scan(who) PROVE TypeOK'
  BY <1>3 DEF Scan, sharedVars
<1>4. ASSUME NEW who \in Threads, Read(who) PROVE TypeOK'
  <2>1. i[who] \in Threads /\ i[who] + 1 \in 1 .. count
    <3>1. i[who] \in Nat /\ 1 <= i[who] /\ i[who] < count
      BY <1>4, ThreadNumbers DEF Read, RoundInv, InStep
    <3> QED
      BY <3>1, ThreadNumbers
  <2>2. values[i[who]] \in Offers \cup {-1, 0}
    BY <2>1
  <2> QED
    BY <1>4, <2>1, <2>2 DEF Read, sharedVars
<1>5. CASE Publish
  BY <1>0, <1>5 DEF Publish
<1>6. CASE Release
  <2>1. calls[0] = cycle + 1
    BY <1>0, <1>6 DEF Release, RoundInv, InStep, Published, Called
  <2>2. cycle + 1 \in 0 .. MaxRounds
    BY <1>0, <2>1
  <2> QED
    BY <1>0, <1>6, <2>2 DEF Release
<1>7. ASSUME NEW who \in Threads, AwaitRelease(who) PROVE TypeOK'
  BY <1>7 DEF AwaitRelease, sharedVars
<1>8. ASSUME NEW who \in Threads, Leave(who) PROVE TypeOK'
  BY <1>8 DEF Leave, sharedVars
<1>9. CASE UNCHANGED vars
  BY <1>9 DEF vars, sharedVars
<1> QED
  BY <1>1, <1>2, <1>3, <1>4, <1>5, <1>6, <1>7, <1>8, <1>9 DEF Next, Step

\* Who has called how often, before and after a step of one thread.
LEMMA CalledStep ==
  ASSUME TypeOK, NEW who \in Threads, NEW c, NEW to,
         pc' = [pc EXCEPT ![who] = to], calls' = [calls EXCEPT ![who] = c]
  PROVE  /\ \A u \in Threads : u # who => pc'[u] = pc[u] /\ calls'[u] = calls[u]
                                          /\ Called'[u] = Called[u]
         /\ pc'[who] = to /\ calls'[who] = c
         /\ Called'[who] = IF to = "count" THEN c + 1 ELSE c
BY DEF TypeOK, Called

\* The thread stores its value: thread 0 is not reading it.
LEMMA RoundStore ==
  ASSUME TypeOK, RoundInv, NEW who \in Threads, Store(who)
  PROVE  RoundInv'
<1> USE Numbers
<1>1. pc' = [pc EXCEPT ![who] = "count"] /\ calls' = [calls EXCEPT ![who] = calls[who]]
  BY DEF Store, Goto, TypeOK
<1>2. pc[who] = "out" /\ calls[who] < MaxRounds /\ Called[who] = calls[who]
  BY DEF Store, Goto, Called
<1>3. /\ \A u \in Threads : u # who => pc'[u] = pc[u] /\ calls'[u] = calls[u]
                                       /\ Called'[u] = Called[u]
      /\ pc'[who] = "count" /\ calls'[who] = calls[who] /\ Called'[who] = calls[who] + 1
  BY ZenonT(60), <1>1, CalledStep
<1>4. Published' = Published /\ calls[who] = Published
  BY <1>2, <1>3 DEF Published, RoundInv, InStep, Store
<1>5. PICK t \in Offers \cup {-1} :
        /\ values' = [values EXCEPT ![who] = t]
        /\ lt_min_value' = [lt_min_value EXCEPT ![who] = t]
        /\ i' = [i EXCEPT ![who] = 1]
  BY ZenonT(60) DEF Store
<1>6. /\ values'[who] = t /\ lt_min_value'[who] = t /\ i'[who] = 1
      /\ \A u \in Threads : u # who => /\ values'[u] = values[u] /\ i'[u] = i[u]
                                       /\ lt_min_value'[u] = lt_min_value[u]
  BY <1>5 DEF TypeOK
<1>7. \A u \in Threads : InStep(u)'
  <2> SUFFICES ASSUME NEW u \in Threads PROVE InStep(u)'
    OBVIOUS
  <2>1. CASE u = who
    BY <1>2, <1>3, <1>4, <1>6, <2>1 DEF InStep
  <2>2. CASE u # who
    BY <1>3, <1>4, <1>6, <2>2 DEF RoundInv, InStep
  <2> QED
    BY <2>1, <2>2
<1>8. CASE who = 0
  <2>1. 0 .. i'[0] - 1 = {0} /\ 1 .. i'[0] - 1 = {}
    BY <1>6, <1>8
  <2>2. t \in Int
    BY CountAssumption
  <2>3. Abstract!IsLeast(lt_min_value'[0], values', 0 .. i'[0] - 1)
    BY <1>6, <1>8, <2>1, <2>2 DEF Abstract!IsLeast
  <2> QED
    BY <1>3, <1>4, <1>6, <1>7, <1>8, <2>1, <2>3 DEF RoundInv, ZeroKnows
<1>9. CASE who # 0 /\ pc[0] \in {"count", "scan", "read"}
  <2>0. i[0] <= count
    BY ThreadNumbers DEF TypeOK
  <2>1. \A j \in 1 .. i[0] - 1 : j # who /\ j \in Threads
    BY <1>4, <1>9, <2>0, ThreadNumbers, SMTT(60) DEF RoundInv, ZeroKnows
  <2>2. \A j \in 0 .. i[0] - 1 : values'[j] = values[j]
    BY <1>6, <1>9, <2>1
  <2>3. Abstract!IsLeast(lt_min_value'[0], values', 0 .. i'[0] - 1)
    BY <1>6, <1>9, <2>2 DEF Abstract!IsLeast, RoundInv, ZeroKnows
  <2>4. pc[0] = "read" => i[0] # who /\ i[0] \in Threads
    BY <1>4, <1>9, ThreadNumbers DEF RoundInv, ZeroKnows, InStep
  <2> QED
    BY <1>3, <1>4, <1>6, <1>7, <1>9, <2>1, <2>3, <2>4 DEF RoundInv, ZeroKnows
<1>10. CASE who # 0 /\ pc[0] \notin {"count", "scan", "read"}
  BY <1>3, <1>7, <1>10 DEF RoundInv, ZeroKnows
<1> QED
  BY <1>8, <1>9, <1>10

\* The call is counted: thread 0 has not yet seen it.
LEMMA RoundCount ==
  ASSUME TypeOK, RoundInv, NEW who \in Threads, Count(who)
  PROVE  RoundInv'
<1> USE Numbers
<1>1. pc' = [pc EXCEPT ![who] = "scan"] /\ calls' = [calls EXCEPT ![who] = calls[who] + 1]
  BY DEF Count, Goto
<1>2. pc[who] = "count" /\ Called[who] = calls[who] + 1 /\ Called[who] = Published + 1
  BY DEF Count, Goto, Called, RoundInv, InStep
<1>3. /\ \A u \in Threads : u # who => pc'[u] = pc[u] /\ calls'[u] = calls[u]
                                       /\ Called'[u] = Called[u]
      /\ pc'[who] = "scan" /\ calls'[who] = calls[who] + 1 /\ Called'[who] = calls[who] + 1
  BY ZenonT(60), <1>1, CalledStep
<1>4. UNCHANGED <<i, lt_min_value, values, cycle>> /\ Published' = Published
  BY <1>2, <1>3 DEF Count, Published
<1>5. \A u \in Threads : InStep(u)'
  BY <1>2, <1>3, <1>4 DEF RoundInv, InStep
<1>6. ASSUME NEW j \in Threads, calls[j] = Published + 1 PROVE calls'[j] = Published + 1
  BY <1>2, <1>3, <1>6
<1>7. ASSUME pc[0] \in {"count", "scan", "read"} PROVE ZeroKnows'
  <2>1. i[0] <= count /\ (pc[0] = "read" => i[0] < count)
    BY ThreadNumbers DEF TypeOK, RoundInv, InStep
  <2>2. \A j \in 1 .. i[0] - 1 : j \in Threads
    BY <2>1, ThreadNumbers
  <2>3. pc[0] = "read" => i[0] \in Threads
    BY <2>1, ThreadNumbers
  <2>4. \A j \in 1 .. i[0] - 1 : calls'[j] = Published + 1
    BY <1>6, <1>7, <2>2 DEF RoundInv, ZeroKnows
  <2>5. pc[0] = "read" => calls'[i[0]] = Published + 1
    BY <1>6, <2>3 DEF RoundInv, ZeroKnows
  <2>6. Called'[0] = Published + 1
    BY <1>2, <1>3, <1>7 DEF RoundInv, ZeroKnows
  <2>7. Abstract!IsLeast(lt_min_value'[0], values', 0 .. i'[0] - 1)
    BY <1>4, <1>7 DEF RoundInv, ZeroKnows, Abstract!IsLeast
  <2>8. pc'[0] = "scan" \/ pc'[0] = pc[0]
    BY <1>3
  <2> QED
    BY <1>4, <1>7, <2>4, <2>5, <2>6, <2>7, <2>8 DEF RoundInv, ZeroKnows
<1>8. ASSUME pc[0] \notin {"count", "scan", "read"} PROVE ZeroKnows'
  BY <1>2, <1>3, <1>8 DEF ZeroKnows
<1> QED
  BY <1>5, <1>7, <1>8 DEF RoundInv

\* The thread it spins on has caught up.
LEMMA RoundScan ==
  ASSUME TypeOK, RoundInv, NEW who \in Threads, Scan(who)
  PROVE  RoundInv'
<1> USE Numbers
<1>1. pc[who] = "scan" /\ pc' = [pc EXCEPT ![who] = "read"] /\ i[who] < count
      /\ UNCHANGED <<i, lt_min_value, calls, values, cycle>>
  BY DEF Scan, sharedVars
<1>2. /\ \A u \in Threads : (u # who => pc'[u] = pc[u]) /\ Called'[u] = Called[u]
      /\ pc'[who] = "read"
  BY <1>1 DEF TypeOK, Called
<1>3. Published' = Published
  BY <1>1, <1>2 DEF Published
<1>4. \A u \in Threads : InStep(u)'
  BY <1>1, <1>2, <1>3 DEF RoundInv, InStep
<1>5. ASSUME who = 0 PROVE calls[i[0]] = Published + 1
  <2>1. calls[i[0]] >= calls[0] /\ i[0] \in Threads
    BY <1>1, <1>5, AwaitedByZero, ThreadNumbers DEF Scan
  <2>2. calls[0] = Published + 1
    BY <1>1, <1>5 DEF RoundInv, ZeroKnows, Called
  <2>3. calls[i[0]] <= Published + 1
    BY <2>1 DEF RoundInv, InStep, Called
  <2> QED
    BY <2>1, <2>2, <2>3
<1>6. ZeroKnows'
  BY <1>1, <1>2, <1>3, <1>5 DEF RoundInv, ZeroKnows, Abstract!IsLeast
<1> QED
  BY <1>4, <1>6 DEF RoundInv

\* A value enters a local minimum; only thread 0's matters.
LEMMA RoundRead ==
  ASSUME TypeOK, RoundInv, NEW who \in Threads, Read(who)
  PROVE  RoundInv'
<1> USE Numbers
<1>1. pc[who] = "read" /\ pc' = [pc EXCEPT ![who] = "scan"] /\ UNCHANGED <<calls, values, cycle>>
      /\ i' = [i EXCEPT ![who] = i[who] + 1]
  BY DEF Read, Goto, sharedVars
<1>2. /\ \A u \in Threads : (u # who => pc'[u] = pc[u] /\ i'[u] = i[u]) /\ Called'[u] = Called[u]
      /\ pc'[who] = "scan" /\ i'[who] = i[who] + 1
  BY <1>1 DEF TypeOK, Called
<1>3. Published' = Published
  BY <1>1, <1>2 DEF Published
<1>4. \A u \in Threads : InStep(u)'
  BY <1>1, <1>2, <1>3 DEF RoundInv, InStep
<1>5. CASE who # 0
  <2>1. lt_min_value'[0] = lt_min_value[0]
    BY <1>5 DEF Read, TypeOK
  <2> QED
    BY <1>1, <1>2, <1>3, <1>4, <1>5, <2>1 DEF RoundInv, ZeroKnows, Abstract!IsLeast
<1>6. CASE who = 0
  <2> DEFINE v == values[i[0]]
             m == lt_min_value[0]
  <2>1. i[0] \in Threads /\ i[0] >= 1
    BY <1>1, <1>6, ThreadNumbers DEF RoundInv, InStep, TypeOK
  <2>2. lt_min_value'[0] = IF v >= 0 /\ (m < 0 \/ v < m) THEN v ELSE m
    BY <1>6 DEF Read, TypeOK
  <2>3. 0 .. i'[0] - 1 = (0 .. i[0] - 1) \cup {i[0]}
    BY <1>2, <1>6, <2>1
  <2>4. \A j \in 0 .. i[0] - 1 : values[j] \in Int
    BY <2>1, ThreadNumbers
  <2>5. Abstract!IsLeast(m, values, 0 .. i[0] - 1)
    BY <1>1, <1>6 DEF RoundInv, ZeroKnows
  <2>6. v \in Int /\ m \in Int
    BY <2>1
  <2>7. Abstract!IsLeast(lt_min_value'[0], values, (0 .. i[0] - 1) \cup {i[0]})
    BY <2>2, <2>4, <2>5, <2>6 DEF Abstract!IsLeast
  <2>8. Abstract!IsLeast(lt_min_value'[0], values', 0 .. i'[0] - 1)
    BY ZenonT(60), <1>1, <2>3, <2>7
  <2>9. \A j \in 1 .. i'[0] - 1 : calls'[j] = Published' + 1
    BY <1>1, <1>2, <1>3, <1>6, <2>1 DEF RoundInv, ZeroKnows
  <2>10. Called'[0] = Published' + 1
    BY <1>1, <1>2, <1>3, <1>6 DEF RoundInv, ZeroKnows
  <2> QED
    BY <1>2, <1>4, <1>6, <2>8, <2>9, <2>10 DEF RoundInv, ZeroKnows
<1> QED
  BY <1>5, <1>6

\* When thread 0 is through the loop everyone has made the call.
LEMMA AllCalled ==
  ASSUME TypeOK, RoundInv, Publish
  PROVE  \A u \in Threads : pc[u] # "count" /\ calls[u] = cycle + 1 /\ Called[u] = cycle + 1
<1> USE Numbers
<1>1. pc[0] = "scan" /\ i[0] = count /\ Published = cycle
  BY DEF Publish, Goto, Published
<1>2. calls[0] = cycle + 1
  BY <1>1 DEF RoundInv, ZeroKnows, Called
<1>3. \A j \in 1 .. count - 1 : calls[j] = cycle + 1
  BY <1>1 DEF RoundInv, ZeroKnows
<1>4. \A u \in Threads : calls[u] = cycle + 1
  BY <1>2, <1>3, ThreadNumbers
<1> QED
  BY <1>1, <1>4 DEF RoundInv, InStep, Called

\* Thread 0 publishes the round ...
LEMMA RoundPublish ==
  ASSUME TypeOK, RoundInv, Publish
  PROVE  RoundInv'
<1> USE Numbers
<1>1. pc[0] = "scan" /\ pc' = [pc EXCEPT ![0] = "release"]
      /\ UNCHANGED <<i, lt_min_value, calls, values, cycle>>
  BY DEF Publish, Goto
<1>2. pc'[0] = "release" /\ Published' = cycle + 1 /\ Published = cycle
      /\ \A u \in Threads : (u # 0 => pc'[u] = pc[u]) /\ Called'[u] = Called[u]
  BY <1>1 DEF TypeOK, Called, Published
<1>3. \A u \in Threads : InStep(u)'
  BY <1>1, <1>2, AllCalled DEF RoundInv, InStep
<1>4. ZeroKnows'
  BY <1>2 DEF ZeroKnows
<1> QED
  BY <1>3, <1>4 DEF RoundInv

\* ... and releases the others.
LEMMA RoundRelease ==
  ASSUME TypeOK, RoundInv, Release
  PROVE  RoundInv'
<1> USE Numbers
<1>1. pc[0] = "release" /\ pc' = [pc EXCEPT ![0] = "back"] /\ cycle' = cycle + 1
      /\ UNCHANGED <<i, lt_min_value, calls, values>>
  BY DEF Release, Goto
<1>2. pc'[0] = "back" /\ \A u \in Threads : (u # 0 => pc'[u] = pc[u]) /\ Called'[u] = Called[u]
  BY <1>1 DEF TypeOK, Called
<1>3. Published' = Published
  BY <1>1, <1>2 DEF Published
<1>4. \A u \in Threads : InStep(u)'
  BY <1>1, <1>2, <1>3 DEF RoundInv, InStep
<1>5. ZeroKnows'
  BY <1>2 DEF ZeroKnows
<1> QED
  BY <1>4, <1>5 DEF RoundInv

\* A thread gets out of wait, or back to its caller.
LEMMA RoundLeave ==
  ASSUME TypeOK, RoundInv, NEW who \in Threads, AwaitRelease(who) \/ Leave(who)
  PROVE  RoundInv'
<1> USE Numbers
<1>1. PICK to \in {"back", "out"} : pc' = [pc EXCEPT ![who] = to]
  BY DEF AwaitRelease, Leave, Goto
<1>2. UNCHANGED <<i, lt_min_value, calls, values, cycle>>
      /\ (pc[who] = "back" \/ (pc[who] = "scan" /\ who # 0 /\ cycle >= calls[who]))
  <2>1. CASE AwaitRelease(who)
    BY <2>1 DEF AwaitRelease, Goto, sharedVars
  <2>2. CASE Leave(who)
    BY <2>2 DEF Leave, Goto, sharedVars
  <2> QED
    BY <2>1, <2>2
<1>3. pc'[who] = to /\ \A u \in Threads : (u # who => pc'[u] = pc[u]) /\ Called'[u] = Called[u]
  BY <1>1, <1>2 DEF TypeOK, Called
<1>4. Published' = Published /\ Published >= cycle
  BY <1>2, <1>3 DEF Published
<1>5. Called[who] = Published
  BY <1>2, <1>4 DEF RoundInv, InStep, Called
<1>6. \A u \in Threads : InStep(u)'
  BY <1>2, <1>3, <1>4, <1>5 DEF RoundInv, InStep
<1>7. CASE who = 0
  BY <1>3, <1>6, <1>7 DEF RoundInv, ZeroKnows
<1>8. CASE who # 0
  <2>1. pc'[0] = pc[0] /\ Called'[0] = Called[0]
    BY <1>3, <1>8
  <2>2. ZeroKnows'
    BY <1>2, <1>4, <2>1 DEF RoundInv, ZeroKnows, Abstract!IsLeast
  <2> QED
    BY <1>6, <2>2 DEF RoundInv
<1> QED
  BY <1>7, <1>8

\* The rounds are kept apart, for any number of threads and of rounds.
THEOREM RoundsHold == Spec => [](TypeOK /\ RoundInv)
<1>1. Init => TypeOK
  BY CountAssumption DEF Init, TypeOK
<1>2. Init => RoundInv
  <2> SUFFICES ASSUME Init PROVE RoundInv
    OBVIOUS
  <2>1. 0 \in Threads
    BY ThreadNumbers
  <2>2. Published = 0 /\ \A u \in Threads : pc[u] = "out" /\ Called[u] = 0
    BY <2>1 DEF Init, Published, Called
  <2> QED
    BY <2>1, <2>2 DEF RoundInv, InStep, ZeroKnows
<1>3. TypeOK /\ RoundInv /\ [Next]_vars => RoundInv'
  <2> SUFFICES ASSUME TypeOK, RoundInv, [Next]_vars PROVE RoundInv'
    OBVIOUS
  <2>1. CASE UNCHANGED vars
    BY <2>1 DEF vars, sharedVars, RoundInv, InStep, ZeroKnows, Published, Called, Abstract!IsLeast
  <2> QED
    BY <2>1, RoundStore, RoundCount, RoundScan, RoundRead, RoundPublish, RoundRelease, RoundLeave
       DEF Next, Step
<1> QED
  BY <1>1, <1>2, <1>3, TypeStep, PTL DEF Spec

\* No value is overwritten before thread 0 has read it.
THEOREM ValuesSound == Spec => []ValuesStable
<1>1. ASSUME TypeOK, RoundInv PROVE ValuesStable
  <2> SUFFICES ASSUME pc[0] = "read"
               PROVE  calls[i[0]] = calls[0] /\ pc[i[0]] \in {"scan", "read"}
    BY DEF ValuesStable
  <2>1. i[0] \in Threads
    BY <1>1, Numbers, ThreadNumbers DEF RoundInv, InStep
  <2>2. calls[i[0]] = Published + 1 /\ calls[0] = Published + 1
    BY <1>1, Numbers DEF RoundInv, ZeroKnows, Called
  <2>3. pc[i[0]] \notin {"out", "back", "release", "count"}
    BY <1>1, <2>1, <2>2, Numbers DEF RoundInv, InStep, Called
  <2> QED
    BY <1>1, <2>1, <2>2, <2>3 DEF TypeOK
<1> QED
  BY <1>1, RoundsHold, PTL

\* Every step of the barrier is a step of MinBarrier or invisible to its callers.
LEMMA RefinesStep ==
  ASSUME TypeOK, RoundInv, TypeOK', RoundInv', [Next]_vars
  PROVE  [Abstract!Next]_(Abstract!absVars)
<1> USE Numbers
<1> DEFINE returns == [u \in Threads |-> IF pc[u] = "out" THEN Called[u] ELSE Called[u] - 1]
           offer == [u \in Threads |-> IF Called[u] = 0 THEN -1 ELSE values[u]]
<1>0. ASSUME UNCHANGED <<values, min_reduction_value>>, Published' = Published,
             \A u \in Threads : (pc'[u] = "out" <=> pc[u] = "out") /\ Called'[u] = Called[u]
      PROVE  UNCHANGED Abstract!absVars
  <2>1. Called' = Called
    BY <1>0 DEF Called
  <2>2. returns' = returns /\ offer' = offer
    BY <1>0, <2>1
  <2> QED
    BY <1>0, <2>1, <2>2 DEF Abstract!absVars, Published
<1>1. ASSUME NEW who \in Threads, Store(who) PROVE Abstract!Enter(who)
  <2>1. pc' = [pc EXCEPT ![who] = "count"] /\ calls' = [calls EXCEPT ![who] = calls[who]]
        /\ pc[who] = "out" /\ Called[who] = calls[who] /\ Called[who] < MaxRounds
    BY <1>1 DEF Store, Goto, TypeOK, Called
  <2>2. /\ \A u \in Threads : u # who => pc'[u] = pc[u] /\ Called'[u] = Called[u]
        /\ pc'[who] = "count" /\ Called'[who] = Called[who] + 1
    BY ZenonT(60), <2>1, CalledStep
  <2>3. PICK t \in Offers \cup {-1} : values' = [values EXCEPT ![who] = t]
    BY ZenonT(60), <1>1 DEF Store
  <2>4. Called' = [Called EXCEPT ![who] = @ + 1]
    <3>1. \A u \in Threads : Called'[u] = IF u = who THEN Called[who] + 1 ELSE Called[u]
      BY <2>2
    <3>2. Called = [u \in Threads |-> Called[u]] /\ Called' = [u \in Threads |-> Called'[u]]
      BY DEF Called
    <3> QED
      BY <3>1, <3>2, Zenon
  <2>5. returns' = returns /\ returns[who] = Called[who]
    BY <2>1, <2>2
  <2>6. offer' = [offer EXCEPT ![who] = t]
    <3>1. \A u \in Threads : values'[u] = IF u = who THEN t ELSE values[u]
      BY <2>3 DEF TypeOK
    <3>2. \A u \in Threads : offer'[u] = IF u = who THEN t ELSE offer[u]
      BY <2>2, <3>1
    <3> QED
      BY <3>2, Zenon
  <2>7. UNCHANGED <<min_reduction_value, cycle>> /\ (pc'[0] = "release" <=> pc[0] = "release")
    BY <1>1, <2>1, <2>2 DEF Store
  <2> QED
    BY ZenonT(60), <2>1, <2>4, <2>5, <2>6, <2>7 DEF Abstract!Enter
<1>2. ASSUME NEW who \in Threads, Count(who) PROVE UNCHANGED Abstract!absVars
  <2>1. pc' = [pc EXCEPT ![who] = "scan"] /\ calls' = [calls EXCEPT ![who] = calls[who] + 1]
        /\ pc[who] = "count" /\ Called[who] = calls[who] + 1
    BY <1>2 DEF Count, Goto, Called
  <2>2. /\ \A u \in Threads : u # who => pc'[u] = pc[u] /\ calls'[u] = calls[u]
                                         /\ Called'[u] = Called[u]
        /\ pc'[who] = "scan" /\ calls'[who] = calls[who] + 1 /\ Called'[who] = calls[who] + 1
    BY <2>1 DEF Called, TypeOK
  <2> QED
    BY <1>0, <1>2, <2>1, <2>2 DEF Count, Published
<1>3. ASSUME NEW who \in Threads, Scan(who) \/ Read(who) \/ AwaitRelease(who)
      PROVE  UNCHANGED Abstract!absVars
  <2>1. PICK to \in {"read", "scan", "back"} : pc' = [pc EXCEPT ![who] = to]
    BY <1>3 DEF Scan, Read, AwaitRelease, Goto
  <2>2. UNCHANGED sharedVars /\ pc[who] \in {"scan", "read"}
    <3>1. CASE Scan(who)
      BY <3>1 DEF Scan
    <3>2. CASE Read(who)
      BY <3>2 DEF Read, Goto
    <3>3. CASE AwaitRelease(who)
      BY <3>3 DEF AwaitRelease, Goto
    <3> QED
      BY <1>3, <3>1, <3>2, <3>3
  <2>3. \A u \in Threads : (u # who => pc'[u] = pc[u]) /\ Called'[u] = Called[u] /\ pc'[who] = to
    BY <2>1, <2>2 DEF TypeOK, Called, sharedVars
  <2> QED
    BY <1>0, <2>2, <2>3 DEF sharedVars, Published
<1>4. ASSUME Publish PROVE Abstract!Complete
  <2>1. pc[0] = "scan" /\ pc' = [pc EXCEPT ![0] = "release"] /\ i[0] = count
        /\ UNCHANGED <<calls, values, cycle>> /\ min_reduction_value' = lt_min_value[0]
    BY <1>4 DEF Publish, Goto
  <2>2. \A u \in Threads : (pc'[u] = "out" <=> pc[u] = "out") /\ Called'[u] = Called[u]
    BY <2>1 DEF TypeOK, Called
  <2>3. Called' = Called
    BY <2>2 DEF Called
  <2>4. returns' = returns /\ offer' = offer
    BY <2>1, <2>2, <2>3
  <2>5. \A u \in Threads : Called[u] = cycle + 1 /\ values[u] \in Offers \cup {-1}
    BY <1>4, AllCalled DEF RoundInv, InStep
  <2>6. \A u \in Threads : offer[u] = values[u]
    BY <2>5
  <2>7. Abstract!IsLeast(lt_min_value[0], values, Threads)
    BY <2>1 DEF RoundInv, ZeroKnows, Threads
  <2>8. Abstract!IsLeast(lt_min_value[0], offer, Threads)
    BY <2>6, <2>7 DEF Abstract!IsLeast
  <2>9. lt_min_value[0] \in Offers \cup {-1}
    <3>1. lt_min_value[0] \in Offers \cup {-1, 0}
      BY DEF TypeOK
    <3> QED
      BY <2>5, <2>7, <3>1, CountAssumption DEF Abstract!IsLeast
  <2>10. pc'[0] = "release"
    BY <2>1 DEF TypeOK
  <2> QED
    BY <2>1, <2>3, <2>4, <2>5, <2>8, <2>9, <2>10 DEF Abstract!Complete
<1>5. ASSUME Release PROVE UNCHANGED Abstract!absVars
  <2>1. pc[0] = "release" /\ pc' = [pc EXCEPT ![0] = "back"] /\ cycle' = cycle + 1
        /\ UNCHANGED <<calls, values, min_reduction_value>>
    BY <1>5 DEF Release, Goto
  <2>2. pc'[0] = "back" /\ \A u \in Threads : /\ pc'[u] = "out" <=> pc[u] = "out"
                                             /\ Called'[u] = Called[u]
    BY <2>1 DEF TypeOK, Called
  <2> QED
    BY <1>0, <2>1, <2>2 DEF Published
<1>6. ASSUME NEW who \in Threads, Leave(who) PROVE Abstract!Leave(who)
  <2>1. pc[who] = "back" /\ pc' = [pc EXCEPT ![who] = "out"] /\ UNCHANGED sharedVars
    BY <1>6 DEF Leave, Goto
  <2>2. /\ \A u \in Threads : (u # who => pc'[u] = pc[u]) /\ Called'[u] = Called[u]
        /\ pc'[who] = "out"
    BY <2>1 DEF TypeOK, Called, sharedVars
  <2>3. Called' = Called
    BY <2>2 DEF Called
  <2>4. Called[who] = Published /\ returns[who] = Called[who] - 1
    BY <2>1 DEF RoundInv, InStep
  <2>5. returns' = [returns EXCEPT ![who] = @ + 1]
    <3>1. \A u \in Threads : returns'[u] = IF u = who THEN returns[who] + 1 ELSE returns[u]
      BY <2>2, <2>4
    <3> QED
      BY <3>1, Zenon
  <2>6. offer' = offer
    BY <2>1, <2>3 DEF sharedVars
  <2>7. UNCHANGED <<min_reduction_value, cycle>> /\ (pc'[0] = "release" <=> pc[0] = "release")
    BY <2>1, <2>2 DEF sharedVars
  <2> QED
    BY <2>3, <2>4, <2>5, <2>6, <2>7 DEF Abstract!Leave, Published
<1>7. CASE UNCHANGED vars
  BY <1>7 DEF vars, sharedVars, Abstract!absVars, Called
<1> QED
  BY <1>1, <1>2, <1>3, <1>4, <1>5, <1>6, <1>7 DEF Next, Step, Abstract!Next

\* barrier_t keeps the promise of MinBarrier.
THEOREM YieldImplements == Spec => ImplementsMinBarrier
<1>1. Init => Abstract!Init
  <2> SUFFICES ASSUME Init PROVE Abstract!Init
    OBVIOUS
  <2>1. 0 \in Threads
    BY ThreadNumbers
  <2>2. Called = [u \in Threads |-> 0]
    BY DEF Init, Called
  <2> QED
    BY <2>1, <2>2 DEF Init, Abstract!Init
<1>2. TypeOK /\ RoundInv /\ TypeOK' /\ RoundInv' /\ [Next]_vars
        => [Abstract!Next]_(Abstract!absVars)
  BY RefinesStep
<1> QED
  BY <1>1, <1>2, RoundsHold, PTL DEF Spec, Abstract!Spec, ImplementsMinBarrier
=============================================================================
