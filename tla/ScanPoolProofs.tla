--------------------------- MODULE ScanPoolProofs ---------------------------
(***************************************************************************)
(* ScanAll for any number of cores, candidates and results: types, the     *)
(* ownership of the slots, that every slot is written before it is read,   *)
(* and what the report says. Termination is checked by TLC only.           *)
(***************************************************************************)
EXTENDS ScanPool, FiniteSetTheorems, WellFoundedInduction, TLAPS

\* The goroutines the wait group counts.
Active == {w \in WorkerIds : work[w].pc \in {"receive"} \cup Busy}

\* What the two properties need besides: the counter counts, a worker that was
\* not started does nothing, and ScanAll waits only when all is handed out.
Waiting ==
  /\ wg = Cardinality(Active)
  /\ \A w \in WorkerIds : work[w].pc = "absent" <=> w > spawned
  /\ main \in {"wait", "aggregate", "done"} => next = batch.n + 1
  /\ main \in {"aggregate", "done"} => wg = 0

IInv == TypeOK /\ Waiting /\ SlotsAreOwned

USE ScanPoolAssumption, NoneIsNoResult

\* The active workers are finitely many, at most MaxProcs.
LEMMA ActiveFinite ==
  /\ IsFiniteSet(Active) /\ Cardinality(Active) \in 0..MaxProcs
  /\ Cardinality(Active) = 0 <=> Active = {}
<1>1. IsFiniteSet(WorkerIds) /\ Cardinality(WorkerIds) = MaxProcs
  BY FS_Interval DEF WorkerIds
<1>2. Active \subseteq WorkerIds
  BY DEF Active
<1>3. /\ IsFiniteSet(Active)
      /\ Cardinality(Active) <= MaxProcs
  BY <1>1, <1>2, FS_Subset
<1>4. Cardinality(Active) \in Nat
  BY <1>3, FS_CardinalityType
<1> QED
  BY <1>3, <1>4, FS_EmptySet

\* The clamp never starts more workers than there are cores.
LEMMA ClampBounds ==
  ASSUME NEW n \in Nat, NEW procs \in 1..MaxProcs, NEW parallel \in Int
  PROVE  Workers(n, procs, parallel) \in 0..MaxProcs
  BY DEF Workers

LEMMA InitIInv == Init => IInv
<1> SUFFICES ASSUME Init PROVE IInv
  OBVIOUS
<1>1. PICK n \in 0..MaxBatch, procs \in 1..MaxProcs, parallel \in Parallels :
        \E outcome \in [1..n -> Outcomes] :
          batch = [n |-> n, outcome |-> outcome, workers |-> Workers(n, procs, parallel)]
  BY DEF Init
<1>2. /\ batch.n \in 0..MaxBatch /\ batch.outcome \in [1..batch.n -> Outcomes]
      /\ batch.workers \in 0..MaxProcs
  BY <1>1, ClampBounds
<1>3. TypeOK
  <2>1. spawned \in 0..batch.workers /\ wg \in 0..MaxProcs /\ next \in 1..(batch.n + 1)
    BY <1>2 DEF Init
  <2>2. Absent \in [pc : {"absent", "receive", "exited"} \cup Busy, job : 0..batch.n]
    BY <1>2 DEF Absent
  <2>3. /\ work \in [WorkerIds -> [pc : {"absent", "receive", "exited"} \cup Busy, job : 0..batch.n]]
        /\ \A w \in WorkerIds : work[w].pc \notin Busy
    BY <2>2 DEF Init, Absent, Busy
  <2>4. results \in [1..batch.n -> Outcomes \cup {None}]
    BY DEF Init
  <2> QED
    BY <1>2, <2>1, <2>3, <2>4 DEF Init, TypeOK
<1>4. Waiting
  <2>1. Active = {}
    BY DEF Init, Active, Absent, Busy
  <2> QED
    BY <2>1, ActiveFinite DEF Init, Waiting, Absent, WorkerIds
<1>5. SlotsAreOwned
  BY <1>2 DEF Init, SlotsAreOwned, Owns, Absent, Busy, WorkerIds
<1> QED
  BY <1>3, <1>4, <1>5 DEF IInv

-----------------------------------------------------------------------------
\* Types are kept: an index that is handed out is a candidate's, and the
\* counter stays in range because it counts workers.
LEMMA TypeStep == IInv /\ [Next]_vars => TypeOK'
<1> SUFFICES ASSUME IInv, [Next]_vars PROVE TypeOK'
  OBVIOUS
<1> USE DEF IInv
<1>1. batch' = batch
  BY DEF Next, Main, Worker, Spawn, StartSending, HandOff, Close, Await, Return,
         LoadFails, Load, Record, Exit, Returned, vars
<1> DEFINE Jobs == [pc : {"absent", "receive", "exited"} \cup Busy, job : 0..batch.n]
<1>2. work \in [WorkerIds -> Jobs]
  BY DEF TypeOK
<1>3. Cardinality(Active) \in 0..MaxProcs /\ wg = Cardinality(Active)
  BY ActiveFinite DEF Waiting
<1>4. CASE Spawn
  <2>1. spawned + 1 \in WorkerIds /\ spawned' \in 0..batch'.workers
    BY <1>1, <1>4 DEF Spawn, TypeOK, WorkerIds
  <2>2. work' \in [WorkerIds -> Jobs]
    <3>1. 0 \in 0..batch.n
      BY DEF TypeOK
    <3>2. [pc |-> "receive", job |-> 0] \in Jobs
      BY <3>1
    <3> QED
      BY <1>2, <1>4, <3>2 DEF Spawn
  <2>3. \A w \in WorkerIds : work'[w].pc \in Busy => work'[w].job \in 1..batch.n
    BY <1>2, <1>4 DEF Spawn, TypeOK, Busy
  <2>4. wg' \in 0..MaxProcs
    <3>1. Active \subseteq 1..spawned
      BY <1>3 DEF Waiting, Active, Busy, TypeOK, WorkerIds
    <3>2. spawned \in Nat /\ spawned < MaxProcs
      BY <1>4 DEF Spawn, TypeOK
    <3>3. IsFiniteSet(1..spawned) /\ Cardinality(1..spawned) = spawned
      BY <3>2, FS_Interval
    <3>4. Cardinality(Active) <= spawned
      BY <3>1, <3>3, FS_Subset
    <3> QED
      BY <1>3, <1>4, <3>2, <3>4 DEF Spawn
  <2> QED
    BY <1>1, <1>4, <2>1, <2>2, <2>3, <2>4 DEF Spawn, TypeOK
<1>5. CASE StartSending
  BY <1>1, <1>5 DEF StartSending, TypeOK
<1>6. ASSUME NEW w \in WorkerIds, HandOff(w) PROVE TypeOK'
  <2>1. next \in 1..batch.n /\ next' \in 1..(batch.n + 1)
    BY <1>6 DEF HandOff, TypeOK
  <2>2. work' \in [WorkerIds -> Jobs]
    BY <1>2, <1>6, <2>1 DEF HandOff, Busy
  <2>3. \A v \in WorkerIds : work'[v].pc \in Busy => work'[v].job \in 1..batch.n
    BY <1>2, <1>6, <2>1 DEF HandOff, TypeOK
  <2> QED
    BY <1>1, <1>6, <2>1, <2>2, <2>3 DEF HandOff, TypeOK
<1>7. CASE Close
  BY <1>1, <1>7 DEF Close, TypeOK
<1>8. CASE Await
  BY <1>1, <1>8 DEF Await, TypeOK
<1>9. CASE Return
  BY <1>1, <1>9 DEF Return, TypeOK
<1>10. ASSUME NEW w \in WorkerIds, LoadFails(w) PROVE TypeOK'
  <2>1. work[w].job \in 1..batch.n
    BY <1>10 DEF LoadFails, TypeOK, Busy
  <2>2. work' \in [WorkerIds -> Jobs]
    BY <1>2, <1>10, <2>1 DEF LoadFails, TypeOK
  <2>3. \A v \in WorkerIds : work'[v].pc \in Busy => work'[v].job \in 1..batch.n
    BY <1>2, <1>10 DEF LoadFails, TypeOK, Busy
  <2>4. results' \in [1..batch.n -> Outcomes \cup {None}]
    BY <1>10, <2>1 DEF LoadFails, TypeOK, Outcomes
  <2> QED
    BY <1>1, <1>10, <2>2, <2>3, <2>4 DEF LoadFails, TypeOK
<1>11. ASSUME NEW w \in WorkerIds, Load(w) PROVE TypeOK'
  <2>1. work' \in [WorkerIds -> Jobs]
    BY <1>2, <1>11 DEF Load, Busy
  <2>2. \A v \in WorkerIds : work'[v].pc \in Busy => work'[v].job \in 1..batch.n
    BY <1>2, <1>11 DEF Load, TypeOK, Busy
  <2> QED
    BY <1>1, <1>11, <2>1, <2>2 DEF Load, TypeOK
<1>12. ASSUME NEW w \in WorkerIds, Record(w) PROVE TypeOK'
  <2>1. work[w].job \in 1..batch.n
    BY <1>12 DEF Record, TypeOK, Busy
  <2>2. work' \in [WorkerIds -> Jobs]
    BY <1>2, <1>12, <2>1 DEF Record, TypeOK
  <2>3. \A v \in WorkerIds : work'[v].pc \in Busy => work'[v].job \in 1..batch.n
    BY <1>2, <1>12 DEF Record, TypeOK, Busy
  <2>4. results' \in [1..batch.n -> Outcomes \cup {None}]
    BY <1>12, <2>1 DEF Record, TypeOK
  <2> QED
    BY <1>1, <1>12, <2>2, <2>3, <2>4 DEF Record, TypeOK
<1>13. ASSUME NEW w \in WorkerIds, Exit(w) PROVE TypeOK'
  <2>1. work' \in [WorkerIds -> Jobs]
    BY <1>2, <1>13 DEF Exit, TypeOK
  <2>2. \A v \in WorkerIds : work'[v].pc \in Busy => work'[v].job \in 1..batch.n
    BY <1>2, <1>13 DEF Exit, TypeOK, Busy
  <2>3. w \in Active
    BY <1>13 DEF Exit, Active
  <2>4. wg' \in 0..MaxProcs
    BY <1>3, <1>13, <2>3, ActiveFinite DEF Exit
  <2> QED
    BY <1>1, <1>13, <2>1, <2>2, <2>4 DEF Exit, TypeOK
<1>14. CASE UNCHANGED vars
  BY <1>14 DEF vars, TypeOK
<1> QED
  BY <1>4, <1>5, <1>6, <1>7, <1>8, <1>9, <1>10, <1>11, <1>12, <1>13, <1>14
     DEF Next, Main, Worker, Returned

-----------------------------------------------------------------------------
\* The counter counts, and ScanAll waits only when everything is handed out.
LEMMA WaitingStep == IInv /\ [Next]_vars => Waiting'
<1> SUFFICES ASSUME IInv, [Next]_vars PROVE Waiting'
  OBVIOUS
<1> USE DEF IInv
<1>1. /\ wg = Cardinality(Active) /\ IsFiniteSet(Active) /\ wg \in Nat
      /\ \A w \in WorkerIds : work[w].pc = "absent" <=> w > spawned
      /\ work \in [WorkerIds -> [pc : {"absent", "receive", "exited"} \cup Busy, job : 0..batch.n]]
  BY ActiveFinite DEF Waiting, TypeOK
<1>2. CASE Spawn
  <2>1. spawned \in Nat /\ spawned + 1 \in WorkerIds
    BY <1>2 DEF Spawn, TypeOK, WorkerIds
  <2>2. spawned + 1 \notin Active
    BY <1>1, <2>1 DEF Active, Busy
  <2>3. Active' = Active \cup {spawned + 1}
    BY <1>1, <1>2, <2>1 DEF Spawn, Active
  <2>4. wg' = Cardinality(Active')
    BY <1>1, <1>2, <2>2, <2>3, FS_AddElement DEF Spawn
  <2>5. \A w \in WorkerIds : work'[w].pc = "absent" <=> w > spawned'
    BY <1>1, <1>2, <2>1 DEF Spawn, WorkerIds
  <2> QED
    BY <1>2, <2>4, <2>5 DEF Spawn, Waiting
<1>3. CASE StartSending
  BY <1>3 DEF StartSending, Waiting, Active
<1>4. ASSUME NEW w \in WorkerIds, HandOff(w) PROVE Waiting'
  <2>1. Active' = Active /\ \A v \in WorkerIds : work'[v].pc = "absent" <=> v > spawned
    BY <1>1, <1>4 DEF HandOff, Active, Busy
  <2> QED
    BY <1>1, <1>4, <2>1 DEF HandOff, Waiting
<1>5. CASE Close
  BY <1>5 DEF Close, Waiting, Active, TypeOK
<1>6. CASE Await
  BY <1>6 DEF Await, Waiting, Active
<1>7. CASE Return
  BY <1>7 DEF Return, Waiting, Active
<1>8. ASSUME NEW w \in WorkerIds, LoadFails(w) \/ Load(w) \/ Record(w) PROVE Waiting'
  <2>1. Active' = Active /\ \A v \in WorkerIds : work'[v].pc = "absent" <=> v > spawned
    BY <1>1, <1>8 DEF LoadFails, Load, Record, Active, Busy
  <2> QED
    BY <1>1, <1>8, <2>1 DEF LoadFails, Load, Record, Waiting
<1>9. ASSUME NEW w \in WorkerIds, Exit(w) PROVE Waiting'
  <2>1. w \in Active
    BY <1>9 DEF Exit, Active
  <2>2. Active' = Active \ {w}
    BY <1>1, <1>9 DEF Exit, Active, Busy
  <2>3. wg' = Cardinality(Active')
    BY <1>1, <1>9, <2>1, <2>2, FS_RemoveElement DEF Exit
  <2>4. \A v \in WorkerIds : work'[v].pc = "absent" <=> v > spawned
    BY <1>1, <1>9 DEF Exit
  <2>5. wg # 0
    BY <1>1, <2>1, ActiveFinite
  <2> QED
    BY <1>9, <2>3, <2>4, <2>5 DEF Exit, Waiting
<1>10. CASE UNCHANGED vars
  BY <1>10 DEF vars, Waiting, Active
<1> QED
  BY <1>2, <1>3, <1>4, <1>5, <1>6, <1>7, <1>8, <1>9, <1>10 DEF Next, Main, Worker, Returned

-----------------------------------------------------------------------------
\* A slot changes hands only by a hand-off and by the write of its owner.
LEMMA SlotsStep == IInv /\ [Next]_vars => SlotsAreOwned'
<1> SUFFICES ASSUME IInv, [Next]_vars PROVE SlotsAreOwned'
  OBVIOUS
<1> USE DEF IInv
<1>1. /\ work \in [WorkerIds -> [pc : {"absent", "receive", "exited"} \cup Busy, job : 0..batch.n]]
      /\ results \in [1..batch.n -> Outcomes \cup {None}]
      /\ batch.outcome \in [1..batch.n -> Outcomes] /\ None \notin Outcomes
      /\ batch.n \in Nat /\ next \in Nat
  BY DEF TypeOK, Outcomes
<1>2. \A w \in WorkerIds, i \in 1..batch.n : Owns(w, i) => i < next
  BY DEF SlotsAreOwned
<1>3. CASE Spawn
  <2>1. spawned + 1 \in WorkerIds /\ work[spawned + 1].pc \notin Busy
    BY <1>3 DEF Spawn, TypeOK, Waiting, Busy, WorkerIds
  <2>2. \A v \in WorkerIds, i \in 1..batch.n : Owns(v, i)' <=> Owns(v, i)
    BY <1>1, <1>3, <2>1 DEF Spawn, Owns, Busy
  <2> QED
    BY <1>3, <2>2 DEF Spawn, SlotsAreOwned
<1>4. CASE StartSending
  BY <1>4 DEF StartSending, SlotsAreOwned, Owns
<1>5. ASSUME NEW w \in WorkerIds, HandOff(w) PROVE SlotsAreOwned'
  <2>1. \A v \in WorkerIds, i \in 1..batch.n :
          Owns(v, i)' <=> Owns(v, i) \/ (v = w /\ i = next)
    BY <1>1, <1>5 DEF HandOff, Owns, Busy
  <2>2. \A v \in WorkerIds : ~Owns(v, next)
    BY <1>2, <1>5, <1>1 DEF HandOff, TypeOK
  <2>3. results[next] = None
    BY <1>1, <1>5 DEF HandOff, SlotsAreOwned, TypeOK
  <2> QED
    BY <1>1, <1>5, <2>1, <2>2, <2>3 DEF HandOff, SlotsAreOwned, TypeOK
<1>6. CASE Close
  BY <1>6 DEF Close, SlotsAreOwned, Owns
<1>7. CASE Await
  BY <1>7 DEF Await, SlotsAreOwned, Owns
<1>8. CASE Return
  BY <1>8 DEF Return, SlotsAreOwned, Owns
<1>9. ASSUME NEW w \in WorkerIds, LoadFails(w) \/ Record(w) PROVE SlotsAreOwned'
  <2>1. Owns(w, work[w].job) /\ work[w].job \in 1..batch.n
    BY <1>9 DEF LoadFails, Record, Owns, Busy, TypeOK
  <2>2. results' = [results EXCEPT ![work[w].job] = batch.outcome[work[w].job]]
    BY <1>9 DEF LoadFails, Record
  <2>3. \A v \in WorkerIds, i \in 1..batch.n :
          Owns(v, i)' <=> Owns(v, i) /\ v # w
    BY <1>1, <1>9 DEF LoadFails, Record, Owns, Busy
  <2>4. UNCHANGED <<batch, next>>
    BY <1>9 DEF LoadFails, Record
  <2>5. PICK j \in 1..batch.n : j = work[w].job
    BY <2>1
  <2>6. j < next /\ (\A v \in WorkerIds : Owns(v, j) => v = w) /\ batch.outcome[j] # None
    BY <1>1, <1>2, <2>1, <2>5 DEF SlotsAreOwned
  <2>7. ASSUME NEW i \in 1..batch.n, i # j
        PROVE  results'[i] = results[i] /\ \A v \in WorkerIds : Owns(v, i)' <=> Owns(v, i)
    <3>1. results'[i] = results[i] /\ ~Owns(w, i)
      BY <1>1, <2>2, <2>5, <2>7 DEF Owns
    <3> QED
      BY <2>3, <3>1
  <2>8. results'[j] = batch.outcome[j] /\ \A v \in WorkerIds : ~Owns(v, j)'
    BY <1>1, <2>2, <2>3, <2>5, <2>6
  <2> QED
    BY <2>4, <2>6, <2>7, <2>8 DEF SlotsAreOwned
<1>10. ASSUME NEW w \in WorkerIds, Load(w) PROVE SlotsAreOwned'
  <2>1. \A v \in WorkerIds, i \in 1..batch.n : Owns(v, i)' <=> Owns(v, i)
    BY <1>1, <1>10 DEF Load, Owns, Busy
  <2> QED
    BY <1>10, <2>1 DEF Load, SlotsAreOwned
<1>11. ASSUME NEW w \in WorkerIds, Exit(w) PROVE SlotsAreOwned'
  <2>1. \A v \in WorkerIds, i \in 1..batch.n : Owns(v, i)' <=> Owns(v, i)
    BY <1>1, <1>11 DEF Exit, Owns, Busy
  <2> QED
    BY <1>11, <2>1 DEF Exit, SlotsAreOwned
<1>12. CASE UNCHANGED vars
  BY <1>12 DEF vars, SlotsAreOwned, Owns
<1> QED
  BY <1>3, <1>4, <1>5, <1>6, <1>7, <1>8, <1>9, <1>10, <1>11, <1>12
     DEF Next, Main, Worker, Returned

-----------------------------------------------------------------------------
\* When the counter is zero nobody owns a slot, and every index is handed out.
LEMMA IInvAggregates == IInv => AggregatesAll
<1> SUFFICES ASSUME IInv, main \in {"aggregate", "done"} PROVE results = batch.outcome
  BY DEF AggregatesAll
<1> USE DEF IInv
<1>1. Active = {} /\ next = batch.n + 1 /\ batch.n \in Nat
  BY ActiveFinite DEF Waiting, TypeOK
<1>2. \A w \in WorkerIds, i \in 1..batch.n : ~Owns(w, i)
  BY <1>1 DEF Active, Owns
<1>3. \A i \in 1..batch.n : results[i] = batch.outcome[i]
  BY <1>1, <1>2 DEF SlotsAreOwned
<1>4. /\ results = [i \in 1..batch.n |-> results[i]]
      /\ batch.outcome = [i \in 1..batch.n |-> batch.outcome[i]]
  BY DEF TypeOK
<1> QED
  BY <1>3, <1>4

LEMMA Invariant == Spec => []IInv
<1>1. IInv /\ [Next]_vars => IInv'
  BY TypeStep, WaitingStep, SlotsStep DEF IInv
<1> QED
  BY InitIInv, <1>1, PTL DEF Spec

\* Whatever the schedule, no two goroutines ever write one slot of ScanAll's
\* results, and a slot is empty exactly while its candidate is not finished.
THEOREM SlotsOwned == Spec => []SlotsAreOwned
<1>1. IInv => SlotsAreOwned
  BY DEF IInv
<1> QED
  BY Invariant, <1>1, PTL

\* Whatever the schedule, ScanAll aggregates the outcome of every candidate.
THEOREM AllAggregated == Spec => []AggregatesAll
  BY Invariant, IInvAggregates, PTL

\* Every reachable state of ScanAll is well typed: indices in range, and a
\* wait-group counter that never goes below zero.
THEOREM PoolTypeCorrect == Spec => []TypeOK
<1>1. IInv => TypeOK
  BY DEF IInv
<1> QED
  BY Invariant, <1>1, PTL

-----------------------------------------------------------------------------
(* What Aggregate returns, for any number of results. *)

\* A set of naturals that has 0, and the successor of each of its members.
LEMMA ByInduction ==
  ASSUME NEW S, 0 \in S, \A n \in Nat : n \in S => n + 1 \in S
  PROVE  Nat \subseteq S
<1> DEFINE Less == {ss \in Nat \X Nat : ss[1] < ss[2]}
           Bad == Nat \ S
<1>1. IsWellFoundedOn(Less, Nat)
  BY NatLessThanWellFounded DEF OpToRel
<1>2. ASSUME Bad # {} PROVE FALSE
  <2>1. PICK x \in Bad : \A y \in Bad : <<y, x>> \notin Less
    BY <1>1, <1>2, WFMin
  <2>2. x # 0 /\ x - 1 \in Nat
    BY <2>1
  <2>3. x - 1 \notin Bad
    <3>1. x \in Nat /\ <<x - 1, x>> \in Less
      BY <2>2
    <3> HIDE DEF Less
    <3> QED BY <2>1, <3>1
  <2> QED BY <2>2, <2>3, <2>1
<1> QED BY <1>2

\* The loop's accumulator is defined turn by turn.
LEMMA AggregatedIs ==
  ASSUME NEW n \in Nat, NEW rs, Len(rs) = n
  PROVE  /\ Aggregated(rs)[0] = NoResults
         /\ \A i \in 1..n : Aggregated(rs)[i] = FoldResult(Aggregated(rs)[i - 1], rs[i])
<1> DEFINE E(f) == [i \in 0..n |-> IF i = 0 THEN NoResults ELSE FoldResult(f[i - 1], rs[i])]
           P == {d \in Nat : \E g : \A i \in 0..n : i <= d => g[i] = E(g)[i]}
           T == Aggregated(rs)
<1>1. T = CHOOSE f : f = E(f)
  BY DEF Aggregated
<1> HIDE DEF T
<1>2. 0 \in P
  <2> DEFINE g == [i \in 0..n |-> NoResults]
  <2>1. \A i \in 0..n : i <= 0 => g[i] = E(g)[i]
    OBVIOUS
  <2>2. \E f : \A i \in 0..n : i <= 0 => f[i] = E(f)[i]
    <3> HIDE DEF g, E
    <3> QED BY <2>1
  <2> QED BY <2>2
<1>3. ASSUME NEW d \in Nat, d \in P PROVE d + 1 \in P
  <2>1. PICK g : \A i \in 0..n : i <= d => g[i] = E(g)[i]
    BY <1>3
  <2> DEFINE f == [i \in 0..n |-> E(g)[i]]
  <2>2. ASSUME NEW i \in 0..n, i <= d + 1 PROVE f[i] = E(f)[i]
    <3>1. CASE i = 0
      BY <3>1
    <3>2. CASE i # 0
      <4>1. i - 1 \in 0..n /\ i - 1 <= d
        BY <2>2, <3>2
      <4>2. f[i - 1] = g[i - 1]
        <5>1. f[i - 1] = E(g)[i - 1]
          BY <4>1
        <5> HIDE DEF f, E
        <5> QED BY <2>1, <4>1, <5>1
      <4>3. f[i] = FoldResult(g[i - 1], rs[i]) /\ E(f)[i] = FoldResult(f[i - 1], rs[i])
        BY <3>2
      <4> HIDE DEF f, E
      <4> QED BY <4>2, <4>3
    <3> QED BY <3>1, <3>2
  <2>3. \E k : \A i \in 0..n : i <= d + 1 => k[i] = E(k)[i]
    <3> HIDE DEF f, E
    <3> QED BY <2>2
  <2> HIDE DEF E
  <2> QED BY <2>3
<1>4. n \in P
  <2> HIDE DEF P
  <2> QED BY <1>2, <1>3, ByInduction
<1>5. \E f : f = E(f)
  <2>1. PICK g : \A i \in 0..n : i <= n => g[i] = E(g)[i]
    BY <1>4
  <2> DEFINE f == [i \in 0..n |-> g[i]]
  <2>2. ASSUME NEW i \in 0..n PROVE f[i] = E(f)[i]
    <3>1. f[i] = g[i] /\ g[i] = E(g)[i]
      <4>1. f[i] = g[i] /\ i <= n
        OBVIOUS
      <4> HIDE DEF E, f
      <4> QED BY <2>1, <4>1
    <3>2. E(g)[i] = E(f)[i]
      <4>1. CASE i = 0
        BY <4>1
      <4>2. CASE i # 0
        <5>1. f[i - 1] = g[i - 1]
          BY <4>2
        <5> HIDE DEF f
        <5> QED BY <4>2, <5>1
      <4> QED BY <4>1, <4>2
    <3> HIDE DEF f, E
    <3> QED BY <3>1, <3>2
  <2>3. f = [i \in 0..n |-> f[i]] /\ E(f) = [i \in 0..n |-> E(f)[i]]
    OBVIOUS
  <2>4. f = E(f)
    <3> HIDE DEF f, E
    <3> QED BY <2>2, <2>3
  <2> HIDE DEF f, E
  <2> QED BY <2>4
<1>6. T = E(T)
  <2> HIDE DEF E
  <2> QED BY <1>1, <1>5
<1> HIDE DEF T
<1>7. T[0] = NoResults /\ \A i \in 1..n : T[i] = FoldResult(T[i - 1], rs[i])
  <2>1. E(T)[0] = NoResults /\ \A i \in 1..n : E(T)[i] = FoldResult(T[i - 1], rs[i])
    OBVIOUS
  <2> HIDE DEF E
  <2> QED BY <1>6, <2>1
<1> QED BY <1>7 DEF T

\* What an accumulator says of the first i results.
Says(m, rs, i) ==
  /\ m.errors \in 0..i /\ (m.errors > 0 <=> \E j \in 1..i : rs[j] = LoadError)
  /\ m.verdict \in {"pass", "warn", "fail"}
  /\ m.verdict = "fail" <=> \E j \in 1..i : rs[j].verdict \in {"error", "fail"}
  /\ m.verdict = "pass" <=> \A j \in 1..i : rs[j].verdict = "pass"
  /\ m.risk \in Nat /\ \A j \in 1..i : rs[j].risk <= m.risk
  /\ m.risk = 0 \/ \E j \in 1..i : rs[j].risk = m.risk

LEMMA OneMore ==
  ASSUME NEW n \in Nat, NEW rs \in [1..n -> Outcomes], NEW i \in 1..n, NEW m, Says(m, rs, i - 1),
         m = [errors |-> m.errors, verdict |-> m.verdict, risk |-> m.risk]
  PROVE  LET w == FoldResult(m, rs[i])
         IN Says(w, rs, i) /\ w = [errors |-> w.errors, verdict |-> w.verdict, risk |-> w.risk]
<1> DEFINE r == rs[i]
           w == FoldResult(m, r)
<1>1. r \in Outcomes /\ \A j \in 1..i : j = i \/ j \in 1..(i - 1)
  OBVIOUS
<1>2. 1..(i - 1) \subseteq 1..i /\ i \in 1..i /\ i - 1 \in Nat
  OBVIOUS
<1>3. /\ m.errors \in 0..(i - 1) /\ m.verdict \in {"pass", "warn", "fail"} /\ m.risk \in Nat
  BY DEF Says
<1> HIDE DEF r, w
<1>4. CASE r = LoadError
  <2>1. w = [errors |-> m.errors + 1, verdict |-> "fail", risk |-> m.risk]
    BY <1>4 DEF w, FoldResult
  <2>2. w.errors = m.errors + 1 /\ w.verdict = "fail" /\ w.risk = m.risk /\ r.verdict = "error" /\ r.risk = 0
    BY <1>4, <2>1 DEF LoadError
  <2>3. w.errors \in 0..i /\ w.errors > 0 /\ \E j \in 1..i : rs[j] = LoadError
    BY <1>2, <1>3, <1>4, <2>2 DEF r
  <2>4. /\ \E j \in 1..i : rs[j].verdict \in {"error", "fail"}
        /\ ~\A j \in 1..i : rs[j].verdict = "pass"
    BY <1>2, <2>2 DEF r
  <2>5. \A j \in 1..i : rs[j].risk <= w.risk
    BY <1>1, <1>3, <2>2 DEF r, Says
  <2>6. w.risk = 0 \/ \E j \in 1..i : rs[j].risk = w.risk
    BY <1>2, <2>2 DEF Says
  <2>7. Says(w, rs, i)
    BY <1>3, <2>2, <2>3, <2>4, <2>5, <2>6 DEF Says
  <2> QED BY <2>1, <2>2, <2>7 DEF w, r
<1>5. CASE r # LoadError
  <2>1. r \in Reports /\ r.verdict \in {"pass", "warn", "fail"} /\ r.risk \in Nat
    BY <1>1, <1>5 DEF Outcomes
  <2> DEFINE risk == IF r.risk > m.risk THEN r.risk ELSE m.risk
             verdict == IF VerdictRank(r.verdict) > VerdictRank(m.verdict) THEN r.verdict ELSE m.verdict
  <2>2. w = [errors |-> m.errors, verdict |-> verdict, risk |-> risk]
    BY <1>5 DEF w, FoldResult
  <2>3. risk \in Nat /\ m.risk <= risk /\ r.risk <= risk /\ risk \in {m.risk, r.risk}
    BY <1>3, <2>1
  <2>4. /\ verdict \in {"pass", "warn", "fail"}
        /\ verdict = "fail" <=> m.verdict = "fail" \/ r.verdict = "fail"
        /\ verdict = "pass" <=> m.verdict = "pass" /\ r.verdict = "pass"
    <3>1. VerdictRank("pass") = 0 /\ VerdictRank("warn") = 1 /\ VerdictRank("fail") = 2
      BY DEF VerdictRank
    <3> QED BY <1>3, <2>1, <3>1
  <2> HIDE DEF risk, verdict
  <2>5. w.errors = m.errors /\ w.verdict = verdict /\ w.risk = risk
    BY <2>2
  <2>6. w.errors \in 0..i /\ (w.errors > 0 <=> \E j \in 1..i : rs[j] = LoadError)
    BY <1>1, <1>2, <1>3, <1>5, <2>5 DEF r, Says
  <2>7. w.verdict = "fail" <=> \E j \in 1..i : rs[j].verdict \in {"error", "fail"}
    BY <1>1, <1>2, <2>1, <2>4, <2>5 DEF r, Says
  <2>8. w.verdict = "pass" <=> \A j \in 1..i : rs[j].verdict = "pass"
    BY <1>1, <1>2, <2>1, <2>4, <2>5 DEF r, Says
  <2>9. \A j \in 1..i : rs[j].risk <= w.risk
    <3>1. ASSUME NEW j \in 1..(i - 1) PROVE rs[j].risk <= risk
      <4>1. rs[j].risk <= m.risk
        BY DEF Says
      <4>2. rs[j] \in Outcomes
        OBVIOUS
      <4>3. rs[j].risk \in Nat
        BY <4>2 DEF Outcomes, LoadError
      <4> QED BY <1>3, <2>3, <4>1, <4>3
    <3> QED BY <1>1, <2>3, <2>5, <3>1 DEF r
  <2>10. w.risk = 0 \/ \E j \in 1..i : rs[j].risk = w.risk
    BY <1>2, <2>3, <2>5 DEF r, Says
  <2>11. Says(w, rs, i)
    BY <2>3, <2>4, <2>5, <2>6, <2>7, <2>8, <2>9, <2>10 DEF Says
  <2> QED BY <2>2, <2>5, <2>11 DEF w, r
<1> QED BY <1>4, <1>5

\* The report is the worst of the results, however many there are.
LEMMA AggregateIsWorst ==
  ASSUME NEW n \in Nat, NEW rs \in [1..n -> Outcomes]
  PROVE  Says(Aggregate(rs), rs, n)
<1> DEFINE T == Aggregated(rs)
           Whole(m) == m = [errors |-> m.errors, verdict |-> m.verdict, risk |-> m.risk]
           S == {i \in Nat : i <= n => Says(T[i], rs, i) /\ Whole(T[i])}
<1>1. Len(rs) = n
  OBVIOUS
<1>2. T[0] = NoResults /\ \A i \in 1..n : T[i] = FoldResult(T[i - 1], rs[i])
  BY <1>1, AggregatedIs
<1> HIDE DEF T
<1>3. 0 \in S
  BY <1>2 DEF NoResults, Says
<1>4. ASSUME NEW i \in Nat, i \in S PROVE i + 1 \in S
  <2> SUFFICES ASSUME i + 1 <= n PROVE Says(T[i + 1], rs, i + 1) /\ Whole(T[i + 1])
    OBVIOUS
  <2>1. i + 1 \in 1..n /\ (i + 1) - 1 = i
    OBVIOUS
  <2>2. T[i + 1] = FoldResult(T[i], rs[i + 1])
    BY <1>2, <2>1
  <2>3. Says(T[i], rs, i) /\ Whole(T[i])
    BY <1>4
  <2>4. LET w == FoldResult(T[i], rs[i + 1]) IN Says(w, rs, i + 1) /\ Whole(w)
    BY <2>1, <2>3, OneMore
  <2> QED BY <2>2, <2>4
<1>5. n \in S
  <2> HIDE DEF S
  <2> QED BY <1>3, <1>4, ByInduction
<1> QED BY <1>1, <1>5 DEF Aggregate, T

\* What ScanAll has returned is what Aggregate makes of the outcomes.
Reported == main = "done" => report = Aggregate(batch.outcome)

LEMMA ReportedStep == IInv /\ Reported /\ [Next]_vars => Reported'
<1> SUFFICES ASSUME IInv, Reported, [Next]_vars PROVE Reported'
  OBVIOUS
<1>1. CASE Return
  BY <1>1, IInvAggregates DEF Return, AggregatesAll, Reported
<1>2. CASE ~Return
  <2>1. batch' = batch /\ (main' = "done" => main = "done" /\ report' = report)
    BY <1>2 DEF Next, Main, Worker, Spawn, StartSending, HandOff, Close, Await,
                LoadFails, Load, Record, Exit, Returned, vars
  <2> QED BY <2>1 DEF Reported
<1> QED BY <1>1, <1>2

\* Whatever the schedule and however many bundles: an error fails the batch and
\* is counted, and the verdict and the risk are the worst of any bundle.
THEOREM WorstReported == Spec => []ReportIsWorst
<1>1. Init => Reported
  BY DEF Init, Reported
<1>2. IInv /\ Reported => ReportIsWorst
  <2> SUFFICES ASSUME IInv, Reported, main = "done"
               PROVE  LET all == {batch.outcome[i] : i \in 1..batch.n}
                          bad == {i \in 1..batch.n : batch.outcome[i] = LoadError}
                      IN /\ report.errors > 0 <=> bad # {}
                         /\ report.errors <= batch.n
                         /\ report.verdict = CASE \E r \in all : r.verdict \in {"error", "fail"} -> "fail"
                                               [] \A r \in all : r.verdict = "pass" -> "pass"
                                               [] OTHER -> "warn"
                         /\ \A r \in all : r.risk <= report.risk
                         /\ report.risk \in {r.risk : r \in all} \cup {0}
    BY DEF ReportIsWorst
  <2> DEFINE n == batch.n
             rs == batch.outcome
             m == report
  <2>1. n \in Nat /\ rs \in [1..n -> Outcomes] /\ m = Aggregate(rs)
    BY DEF IInv, TypeOK, Reported
  <2> HIDE DEF n, rs, m
  <2>2. Says(m, rs, n)
    BY <2>1, AggregateIsWorst
  <2> DEFINE all == {rs[i] : i \in 1..n}
             bad == {i \in 1..n : rs[i] = LoadError}
             Failed == \E r \in all : r.verdict \in {"error", "fail"}
             Passed == \A r \in all : r.verdict = "pass"
  <2>3. (m.errors > 0 <=> bad # {}) /\ m.errors <= n
    BY <2>1, <2>2 DEF Says
  <2>4. m.verdict = CASE Failed -> "fail" [] Passed -> "pass" [] OTHER -> "warn"
    <3>1. (m.verdict = "fail" <=> Failed) /\ (m.verdict = "pass" <=> Passed) /\ m.verdict \in {"pass", "warn", "fail"}
      BY <2>2 DEF Says
    <3> HIDE DEF Failed, Passed
    <3> QED BY <3>1
  <2>5. (\A r \in all : r.risk <= m.risk) /\ m.risk \in {r.risk : r \in all} \cup {0}
    BY <2>2 DEF Says
  <2> QED BY <2>3, <2>4, <2>5 DEF n, rs, m
<1>3. IInv /\ Reported /\ [Next]_vars => Reported'
  BY ReportedStep
<1> QED BY <1>1, <1>2, <1>3, Invariant, PTL DEF Spec
=============================================================================
