----------------------------- MODULE GuardProofs -----------------------------
(***************************************************************************)
(* What the verdict cache guarantees, for every set of callers, requests,  *)
(* signature files and changes: stored decisions are the ones their keys   *)
(* ask about, and the clock alone never makes a served one wrong outside   *)
(* the window InGrace names.                                               *)
(***************************************************************************)
EXTENDS Guard, VerifyProofs

\* The instants validUntil looks at are instants.
LEMMA ExpiriesAreTimes ==
  /\ \A s \in Envelopes \cup {Absent} : SgmtExpiries(s) \subseteq Nat
  /\ \A q \in Requests : WaiverExpiries(q.pol) \subseteq Nat
<1>1. \A s \in Envelopes \cup {Absent} : SgmtExpiries(s) \subseteq Nat
  BY GuardAssumption DEF SgmtExpiries, When, Readable
<1>2. \A q \in Requests : WaiverExpiries(q.pol) \subseteq Nat
  BY GuardAssumption DEF WaiverExpiries
<1> QED BY <1>1, <1>2

\* The bound is one of the instants still ahead, and the first of them.
LEMMA BoundIsFirstAhead ==
  ASSUME NEW s \in Envelopes \cup {Absent}, NEW q \in Requests, NEW t \in Nat
  PROVE  /\ ValidUntil(s, q.pol, t) \in Nat \cup {NoExpiry}
         /\ \A e \in Ahead(s, q.pol, t) :
              /\ ValidUntil(s, q.pol, t) # NoExpiry
              /\ ValidUntil(s, q.pol, t) <= e
<1>1. Ahead(s, q.pol, t) \subseteq Nat
  BY ExpiriesAreTimes DEF Ahead
<1>2. CASE Ahead(s, q.pol, t) = {}
  BY <1>2 DEF ValidUntil
<1>3. CASE Ahead(s, q.pol, t) # {}
  <2>1. /\ Earliest(Ahead(s, q.pol, t)) \in Ahead(s, q.pol, t)
        /\ \A e \in Ahead(s, q.pol, t) : Earliest(Ahead(s, q.pol, t)) <= e
    BY <1>1, <1>3, EarliestIsLeast
  <2>2. ValidUntil(s, q.pol, t) = Earliest(Ahead(s, q.pol, t))
    BY <1>3 DEF ValidUntil
  <2>3. NoExpiry \notin Nat
    BY VerifyAssumption
  <2> QED BY <1>1, <2>1, <2>2, <2>3
<1> QED BY <1>2, <1>3

\* decide always answers with one of its three outcomes.
LEMMA JudgeAnswers ==
  ASSUME NEW q, NEW r
  PROVE  Judged(q, r) \in Outcomes
BY DEF Judged, Judge, GateOutcome, Decide, Outcomes

LEMMA DecisionType ==
  ASSUME NEW q \in Requests, NEW r \in Readings
  PROVE  Decision(q, r) \in Decisions
<1>1. ValidUntil(r.sgmt, q.pol, r.bounded) \in Nat \cup {NoExpiry}
  BY BoundIsFirstAhead DEF Readings
<1>2. Judged(q, r) \in Outcomes
  BY JudgeAnswers
<1> QED BY <1>1, <1>2 DEF Decision, Decisions

LEMMA KeyType ==
  ASSUME NEW q \in Requests, NEW b \in Bundle, NEW s \in Envelopes, NEW o \in OmsFiles
  PROVE  Key(q, b, s, o) \in Keys
BY GuardAssumption DEF Key, Keys, Bundle

-----------------------------------------------------------------------------
\* Every variable stays in its type: calls go through their stages with the
\* request, the key and the decision that the stage needs.
LEMMA TypeInit == Init => TypeOK
<1> SUFFICES ASSUME Init PROVE TypeOK
  OBVIOUS
<1>1. Idle \in Calls
  BY DEF Idle, Calls, PCs, Unread, Readings
<1>2. call \in [Callers -> Calls] /\ \A p \in Callers : call[p].pc = "idle"
  BY <1>1 DEF Init, Idle
<1> QED BY <1>2, GuardAssumption DEF Init, TypeOK, Bundle

LEMMA TypeCaller ==
  ASSUME TypeOK, NEW p \in Callers, Caller(p)
  PROVE  TypeOK'
<1>0. call[p] \in Calls /\ now \in Nat
  BY GuardAssumption DEF TypeOK
<1>1. ASSUME NEW q \in Requests, Load(p, q) PROVE TypeOK'
  <2>1. [Unread EXCEPT !.bundle = bundle, !.rules = rules] \in Readings
    BY <1>1 DEF TypeOK, Unread, Readings
  <2>2. call'[p] \in Calls
    BY <1>1, <2>1 DEF Load, Calls, PCs, TypeOK
  <2> QED BY <1>1, <2>1, <2>2, GuardAssumption DEF Load, TypeOK, world, Unread
<1>2. ASSUME Hash(p) PROVE TypeOK'
  <2>1. Key(call[p].q, call[p].read.bundle, sgmt, oms) \in Keys
    BY <1>2, KeyType DEF Hash, TypeOK
  <2>2. call'[p] \in Calls
    BY <1>0, <1>2, <2>1 DEF Hash, Calls, PCs, TypeOK
  <2> QED BY <1>0, <1>2, <2>1, <2>2 DEF Hash, TypeOK, world, Calls
<1>3. ASSUME Hit(p) PROVE TypeOK'
  <2>1. call'[p] \in Calls
    BY <1>0, <1>3 DEF Hit, Calls, PCs, TypeOK
  <2> QED BY <1>0, <1>3, <2>1 DEF Hit, TypeOK, world, Calls
<1>4. ASSUME Miss(p) PROVE TypeOK'
  <2>1. call'[p] \in Calls
    BY <1>0, <1>4 DEF Miss, Calls, PCs, TypeOK
  <2> QED BY <1>0, <1>4, <2>1 DEF Miss, TypeOK, world, Calls
<1>5. ASSUME VerifySgmt(p) PROVE TypeOK'
  <2> DEFINE read == [call[p].read EXCEPT !.sgmt = sgmt, !.verified = now]
  <2>2. read \in Readings /\ read.bundle = call[p].read.bundle
    BY <1>0 DEF Calls, TypeOK, Readings
  <2>3. call'[p] = [call[p] EXCEPT !.pc = "oms", !.read = read]
    BY <1>0, <1>5 DEF VerifySgmt, Calls, TypeOK
  <2> HIDE DEF read
  <2>1. call'[p] \in Calls /\ call'[p].read.bundle = call[p].read.bundle
    BY <1>0, <2>2, <2>3 DEF Calls, PCs
  <2> QED BY <1>0, <1>5, <2>1 DEF VerifySgmt, TypeOK, world, Calls
<1>6. ASSUME VerifyOms(p) PROVE TypeOK'
  <2> DEFINE read == [call[p].read EXCEPT !.oms = oms, !.pool = pool]
  <2>2. read \in Readings /\ read.bundle = call[p].read.bundle
    BY <1>0 DEF Calls, TypeOK, Readings
  <2>3. call'[p] = [call[p] EXCEPT !.pc = "bound", !.read = read]
    BY <1>0, <1>6 DEF VerifyOms, Calls, TypeOK
  <2> HIDE DEF read
  <2>1. call'[p] \in Calls /\ call'[p].read.bundle = call[p].read.bundle
    BY <1>0, <2>2, <2>3 DEF Calls, PCs
  <2> QED BY <1>0, <1>6, <2>1 DEF VerifyOms, TypeOK, world, Calls
<1>7. ASSUME Bound(p) PROVE TypeOK'
  <2> DEFINE read == [call[p].read EXCEPT !.bounded = now]
  <2>2. read \in Readings /\ read.bundle = call[p].read.bundle
    BY <1>0 DEF Calls, TypeOK, Readings
  <2>3. call'[p] = [call[p] EXCEPT !.pc = "scan", !.read = read]
    BY <1>0, <1>7 DEF Bound, Calls, TypeOK
  <2> HIDE DEF read
  <2>1. call'[p] \in Calls /\ call'[p].read.bundle = call[p].read.bundle
    BY <1>0, <2>2, <2>3 DEF Calls, PCs
  <2> QED BY <1>0, <1>7, <2>1 DEF Bound, TypeOK, world, Calls
<1>8. ASSUME ScanAndDecide(p) PROVE TypeOK'
  <2> DEFINE r == [call[p].read EXCEPT !.scanned = now]
  <2>1. r \in Readings /\ r.bundle = call[p].read.bundle
    BY <1>0 DEF Calls, Readings
  <2>2. Decision(call[p].q, r) \in Decisions
    BY <1>8, <2>1, DecisionType DEF ScanAndDecide, TypeOK
  <2> HIDE DEF r
  <2> DEFINE c == [call[p] EXCEPT !.pc = IF call[p].q.useCache THEN "put" ELSE "done",
                                  !.read = r, !.answer = Decision(call[p].q, r)]
  <2>3. call' = [call EXCEPT ![p] = c]
    BY <1>8 DEF ScanAndDecide, r
  <2>4. /\ c \in Calls /\ c.read = r /\ c.answer \in Decisions
        /\ c.pc = IF call[p].q.useCache THEN "put" ELSE "done"
        /\ c.q = call[p].q /\ c.key = call[p].key
    BY <1>0, <1>8, <2>1, <2>2 DEF ScanAndDecide, Calls, PCs, TypeOK
  <2> HIDE DEF c
  <2>5. UNCHANGED <<world, now, cache, changes>> /\ call[p].pc = "scan"
    BY <1>8 DEF ScanAndDecide
  <2> QED BY <2>1, <2>3, <2>4, <2>5 DEF TypeOK, world
<1>9. ASSUME Put(p) PROVE TypeOK'
  <2>1. call'[p] \in Calls
    BY <1>0, <1>9 DEF Put, Calls, PCs, TypeOK
  <2>2. \A k \in DOMAIN cache' : k \in Keys /\ cache'[k] \in Decisions
    BY <1>9 DEF Put, TypeOK
  <2> QED BY <1>0, <1>9, <2>1, <2>2 DEF Put, TypeOK, world, Calls
<1>10. ASSUME Return(p) \/ Killed(p) PROVE TypeOK'
  <2>1. Idle \in Calls
    BY DEF Idle, Calls, PCs, Unread, Readings
  <2> QED BY <1>10, <2>1 DEF Return, Killed, TypeOK, world, Idle
<1> QED BY <1>1, <1>2, <1>3, <1>4, <1>5, <1>6, <1>7, <1>8, <1>9, <1>10 DEF Caller

LEMMA TypeStep == TypeOK /\ [Next]_vars => TypeOK'
<1> SUFFICES ASSUME TypeOK, [Next]_vars PROVE TypeOK'
  OBVIOUS
<1>1. ASSUME NEW p \in Callers, Caller(p) PROVE TypeOK'
  BY <1>1, TypeCaller
<1>2. CASE Change
  BY <1>2, GuardAssumption DEF Change, TypeOK, Bundle
<1>3. CASE Forget
  BY <1>3 DEF Forget, TypeOK, world
<1>4. CASE Tick
  BY <1>4, GuardAssumption DEF Tick, TypeOK, world
<1>5. CASE UNCHANGED vars
  BY <1>5 DEF vars, world, TypeOK
<1> QED BY <1>1, <1>2, <1>3, <1>4, <1>5 DEF Next

\* Type correctness of the cached gate.
THEOREM TypeCorrect == Spec => []TypeOK
BY TypeInit, TypeStep, PTL DEF Spec

-----------------------------------------------------------------------------
(***************************************************************************)
(* The inductive invariant: what a call knows at each stage is what its    *)
(* entry will have to say.                                                 *)
(***************************************************************************)
CallIsSound(c) ==
  /\ c.pc \notin {"idle", "hash"} /\ c.q.useCache =>
       c.key = Key(c.q, c.read.bundle, c.key.sgmt, c.key.oms)
  /\ c.pc \in {"oms", "bound", "scan", "put"} => c.read.verified <= now
  /\ c.pc \in {"scan", "put"} => c.read.verified <= c.read.bounded /\ c.read.bounded <= now
  /\ c.pc = "put" => /\ c.read.bounded <= c.read.scanned /\ c.read.scanned <= now
                     /\ c.answer = Decision(c.q, c.read)

Sound ==
  /\ TypeOK
  /\ EntriesAreForTheirKeys
  /\ \A p \in Callers : CallIsSound(call[p])

\* A decision made for a request is the decision its key asks about: of the
\* request, Judge uses the three fields the key repeats.
LEMMA JudgedByKey ==
  ASSUME NEW q, NEW b, NEW s, NEW o, NEW r
  PROVE  Judged(Key(q, b, s, o), r) = Judged(q, r)
BY DEF Judged, Judge, Key, GateOutcome, SgmtPart, OmsPart, Decide, Denies, Warns

LEMMA SoundInit == Init => Sound
<1> SUFFICES ASSUME Init PROVE Sound
  OBVIOUS
<1>1. \A p \in Callers : call[p].pc = "idle"
  BY DEF Init, Idle
<1> QED BY <1>1, TypeInit DEF Init, Sound, EntriesAreForTheirKeys, CallIsSound

LEMMA SoundCaller ==
  ASSUME Sound, NEW p \in Callers, Caller(p), TypeOK'
  PROVE  Sound'
<1>0. call[p] \in Calls /\ call[p].read \in Readings /\ now \in Nat /\ call \in [Callers -> Calls]
  BY GuardAssumption DEF Sound, TypeOK, Calls
<1>1. ASSUME NEW c, call' = [call EXCEPT ![p] = c], now' = now, cache' = cache,
             CallIsSound(c)
      PROVE  Sound'
  <2>1. \A x \in Callers : CallIsSound(call'[x])
    BY <1>0, <1>1 DEF Sound
  <2>2. \A x \in Callers : CallIsSound(call[x])'
    BY <2>1, <1>1 DEF CallIsSound, Key, Decision, Judged, Judge
  <2>3. EntriesAreForTheirKeys'
    BY <1>1 DEF Sound, EntriesAreForTheirKeys, EntryIsForItsKey
  <2> QED BY <2>2, <2>3 DEF Sound
<1>2. ASSUME NEW q \in Requests, Load(p, q) PROVE Sound'
  <2> DEFINE c == [pc |-> IF q.useCache THEN "hash" ELSE "verify", q |-> q, key |-> Absent,
                   read |-> [Unread EXCEPT !.bundle = bundle, !.rules = rules],
                   answer |-> Absent]
  <2>1. CallIsSound(c)
    BY GuardAssumption DEF CallIsSound
  <2> QED BY <1>1, <1>2, <2>1 DEF Load, world
<1>3. ASSUME Hash(p) PROVE Sound'
  <2> DEFINE k == Key(call[p].q, call[p].read.bundle, sgmt, oms)
  <2> DEFINE c == [call[p] EXCEPT !.pc = "lookup", !.key = k]
  <2>1. k.sgmt = sgmt /\ k.oms = oms
    BY DEF Key
  <2>2. c.pc = "lookup" /\ c.key = k /\ c.q = call[p].q /\ c.read = call[p].read
    BY <1>0 DEF Calls
  <2>3. CallIsSound(c)
    BY <2>1, <2>2 DEF CallIsSound
  <2>4. call' = [call EXCEPT ![p] = c]
    BY <1>0, <1>3 DEF Hash
  <2> QED BY <1>1, <1>3, <2>3, <2>4 DEF Hash, world
<1>4. ASSUME Hit(p) PROVE Sound'
  <2> DEFINE c == [call[p] EXCEPT !.pc = "done", !.answer = cache[call[p].key]]
  <2>1. c.pc = "done" /\ c.key = call[p].key /\ c.q = call[p].q /\ c.read = call[p].read
    BY <1>0 DEF Calls
  <2>2. CallIsSound(c)
    BY <1>4, <2>1 DEF CallIsSound, Sound, Hit
  <2>3. call' = [call EXCEPT ![p] = c]
    BY <1>0, <1>4 DEF Hit
  <2> QED BY <1>1, <1>4, <2>2, <2>3 DEF Hit, world
<1>5. ASSUME Miss(p) PROVE Sound'
  <2> DEFINE c == [call[p] EXCEPT !.pc = "verify"]
  <2>1. c.pc = "verify" /\ c.key = call[p].key /\ c.q = call[p].q /\ c.read = call[p].read
    BY <1>0 DEF Calls
  <2>2. CallIsSound(c)
    BY <1>5, <2>1 DEF CallIsSound, Sound, Miss
  <2>3. call' = [call EXCEPT ![p] = c]
    BY <1>0, <1>5 DEF Miss
  <2> QED BY <1>1, <1>5, <2>2, <2>3 DEF Miss, world
<1>6. ASSUME VerifySgmt(p) PROVE Sound'
  <2> DEFINE r == [call[p].read EXCEPT !.sgmt = sgmt, !.verified = now]
  <2> DEFINE c == [call[p] EXCEPT !.pc = "oms", !.read = r]
  <2>1. /\ c.pc = "oms" /\ c.key = call[p].key /\ c.q = call[p].q /\ c.read = r
        /\ r.verified = now /\ r.bundle = call[p].read.bundle
    BY <1>0 DEF Calls, Readings
  <2>2. CallIsSound(c)
    <3>1. CallIsSound(call[p]) /\ call[p].pc = "verify"
      BY <1>6 DEF VerifySgmt, Sound
    <3>2. call[p].read.verified \in Nat
      BY <1>0 DEF Readings
    <3> HIDE DEF c, r
    <3> QED BY <1>0, <2>1, <3>1, <3>2 DEF CallIsSound
  <2>3. call' = [call EXCEPT ![p] = c]
    BY <1>0, <1>6 DEF VerifySgmt
  <2> QED BY <1>1, <1>6, <2>2, <2>3 DEF VerifySgmt, world
<1>7. ASSUME VerifyOms(p) PROVE Sound'
  <2> DEFINE r == [call[p].read EXCEPT !.oms = oms, !.pool = pool]
  <2> DEFINE c == [call[p] EXCEPT !.pc = "bound", !.read = r]
  <2>1. /\ c.pc = "bound" /\ c.key = call[p].key /\ c.q = call[p].q /\ c.read = r
        /\ r.verified = call[p].read.verified /\ r.bundle = call[p].read.bundle
    BY <1>0 DEF Calls, Readings
  <2>2. CallIsSound(c)
    <3>1. CallIsSound(call[p]) /\ call[p].pc = "oms"
      BY <1>7 DEF VerifyOms, Sound
    <3>2. call[p].read.verified \in Nat
      BY <1>0 DEF Readings
    <3> HIDE DEF c, r
    <3> QED BY <1>0, <2>1, <3>1, <3>2 DEF CallIsSound
  <2>3. call' = [call EXCEPT ![p] = c]
    BY <1>0, <1>7 DEF VerifyOms
  <2> QED BY <1>1, <1>7, <2>2, <2>3 DEF VerifyOms, world
<1>8. ASSUME Bound(p) PROVE Sound'
  <2> DEFINE r == [call[p].read EXCEPT !.bounded = now]
  <2> DEFINE c == [call[p] EXCEPT !.pc = "scan", !.read = r]
  <2>1. /\ c.pc = "scan" /\ c.key = call[p].key /\ c.q = call[p].q /\ c.read = r
        /\ r.verified = call[p].read.verified /\ r.bounded = now
        /\ r.bundle = call[p].read.bundle
    BY <1>0 DEF Calls, Readings
  <2>2. CallIsSound(c)
    <3>1. CallIsSound(call[p]) /\ call[p].pc = "bound"
      BY <1>8 DEF Bound, Sound
    <3>2. call[p].read.verified \in Nat
      BY <1>0 DEF Readings
    <3> HIDE DEF c, r
    <3> QED BY <1>0, <2>1, <3>1, <3>2 DEF CallIsSound
  <2>3. call' = [call EXCEPT ![p] = c]
    BY <1>0, <1>8 DEF Bound
  <2> QED BY <1>1, <1>8, <2>2, <2>3 DEF Bound, world
<1>9. ASSUME ScanAndDecide(p) PROVE Sound'
  <2> DEFINE r == [call[p].read EXCEPT !.scanned = now]
  <2> DEFINE c == [call[p] EXCEPT !.pc = IF call[p].q.useCache THEN "put" ELSE "done",
                                  !.read = r, !.answer = Decision(call[p].q, r)]
  <2>1. /\ c.pc \in {"put", "done"} /\ c.key = call[p].key /\ c.q = call[p].q
        /\ c.read = r /\ c.answer = Decision(call[p].q, r)
    BY <1>0 DEF Calls
  <2>2. /\ r.verified = call[p].read.verified /\ r.bounded = call[p].read.bounded
        /\ r.scanned = now /\ r.bundle = call[p].read.bundle
    BY <1>0 DEF Readings
  <2>3. CallIsSound(c)
    <3> HIDE DEF r, c
    <3> QED BY <1>0, <1>9, <2>1, <2>2 DEF CallIsSound, Sound, ScanAndDecide
  <2>4. call' = [call EXCEPT ![p] = c]
    BY <1>0, <1>9 DEF ScanAndDecide
  <2> QED BY <1>1, <1>9, <2>3, <2>4 DEF ScanAndDecide, world
<1>10. ASSUME Put(p) PROVE Sound'
  <2> DEFINE c == [call[p] EXCEPT !.pc = "done"]
  <2>1. c.pc = "done" /\ c.key = call[p].key /\ c.q = call[p].q /\ c.read = call[p].read
    BY <1>0 DEF Calls
  <2>2. CallIsSound(c)
    BY <1>10, <2>1 DEF CallIsSound, Sound, Put
  <2>3. call' = [call EXCEPT ![p] = c] /\ now' = now
    BY <1>0, <1>10 DEF Put
  <2>4. \A x \in Callers : CallIsSound(call[x])'
    BY <1>0, <2>2, <2>3 DEF Sound, CallIsSound, Key, Decision, Judged, Judge
  <2>5. EntryIsForItsKey(call[p].key, call[p].answer)
    <3>1. /\ call[p].pc = "put" /\ call[p].q.useCache
          /\ call[p].key = Key(call[p].q, call[p].read.bundle, call[p].key.sgmt, call[p].key.oms)
          /\ call[p].answer = Decision(call[p].q, call[p].read)
      BY <1>10 DEF Put, Sound, TypeOK, CallIsSound
    <3>2. Judged(call[p].key, call[p].read) = Judged(call[p].q, call[p].read)
      BY <3>1, JudgedByKey
    <3>3. call[p].key.root = call[p].read.bundle.content /\ call[p].key.pol = call[p].q.pol
      BY <3>1 DEF Key
    <3>4. /\ call[p].read.verified <= call[p].read.bounded
          /\ call[p].read.bounded <= call[p].read.scanned /\ call[p].read.scanned <= now
      BY <3>1 DEF Sound, CallIsSound
    <3> QED BY <3>1, <3>2, <3>3, <3>4 DEF EntryIsForItsKey, Decision
  <2>6. \A k \in DOMAIN cache' : EntryIsForItsKey(k, cache'[k])
    BY <1>10, <2>5 DEF Put, Sound, EntriesAreForTheirKeys
  <2>7. EntriesAreForTheirKeys'
    BY <2>3, <2>6 DEF EntriesAreForTheirKeys, EntryIsForItsKey
  <2> QED BY <2>4, <2>7 DEF Sound
<1>11. ASSUME Return(p) \/ Killed(p) PROVE Sound'
  <2>1. CallIsSound(Idle)
    BY DEF CallIsSound, Idle
  <2> QED BY <1>1, <1>11, <2>1 DEF Return, Killed, world
<1> QED BY <1>2, <1>3, <1>4, <1>5, <1>6, <1>7, <1>8, <1>9, <1>10, <1>11 DEF Caller

LEMMA SoundStep == Sound /\ [Next]_vars => Sound'
<1> SUFFICES ASSUME Sound, [Next]_vars PROVE Sound'
  OBVIOUS
<1>0. TypeOK'
  BY TypeStep DEF Sound
<1>1. ASSUME NEW p \in Callers, Caller(p) PROVE Sound'
  BY <1>0, <1>1, SoundCaller
<1>2. CASE Change
  BY <1>0, <1>2 DEF Change, Sound, EntriesAreForTheirKeys, EntryIsForItsKey, CallIsSound
<1>3. CASE Forget
  BY <1>0, <1>3 DEF Forget, world, Sound, EntriesAreForTheirKeys, EntryIsForItsKey, CallIsSound
<1>4. CASE Tick
  <2>1. now \in Nat /\ now' = now + 1 /\ cache' = cache /\ call' = call
    BY <1>4, GuardAssumption DEF Tick, Sound, TypeOK
  <2>2. \A k \in DOMAIN cache : cache[k].from \in Readings
    BY DEF Sound, TypeOK, Decisions
  <2>3. \A p \in Callers : call[p].read \in Readings
    BY DEF Sound, TypeOK, Calls
  <2>4. EntriesAreForTheirKeys'
    BY <2>1, <2>2 DEF Sound, EntriesAreForTheirKeys, EntryIsForItsKey, Readings
  <2>5. \A p \in Callers : CallIsSound(call[p])'
    BY <2>1, <2>3 DEF Sound, CallIsSound, Readings
  <2> QED BY <1>0, <2>4, <2>5 DEF Sound
<1>5. CASE UNCHANGED vars
  BY <1>0, <1>5 DEF vars, world, Sound, EntriesAreForTheirKeys, EntryIsForItsKey, CallIsSound
<1> QED BY <1>1, <1>2, <1>3, <1>4, <1>5 DEF Next

\* A stored decision is always the one its key asks about, whichever callers
\* raced for it and whatever changed meanwhile.
THEOREM EntriesSound == Spec => []EntriesAreForTheirKeys
<1>1. Sound => EntriesAreForTheirKeys
  BY DEF Sound
<1> QED BY <1>1, SoundInit, SoundStep, PTL DEF Spec

-----------------------------------------------------------------------------
(***************************************************************************)
(* The clock alone does not change a served decision.                      *)
(***************************************************************************)
LEMMA ExpiryIsStable ==
  ASSUME NEW s \in Envelopes \cup {Absent}, NEW verified \in Nat, NEW bounded \in Nat,
         NEW t \in Nat, verified <= bounded, bounded <= t,
         NEW until, \A e \in SgmtExpiries(s) : e > bounded => until # NoExpiry /\ until <= e,
         until # NoExpiry => t < until,
         until \in Nat \cup {NoExpiry},
         \A e \in SgmtExpiries(s) : e <= bounded => SgmtExpired(s, verified)
  PROVE  SgmtExpired(s, t) <=> SgmtExpired(s, verified)
<1>1. CASE ~(Readable(s) /\ s.payloadOk)
  BY <1>1 DEF SgmtExpired
<1>2. CASE Readable(s) /\ s.payloadOk /\ s.expires \in {NoExpiry, BadExpiry}
  BY <1>2 DEF SgmtExpired, Expired
<1>3. CASE Readable(s) /\ s.payloadOk /\ s.expires \notin {NoExpiry, BadExpiry}
  <2>1. s.expires \in Nat /\ Skew \in Nat
    BY <1>3, GuardAssumption, VerifyAssumption DEF Readable
  <2>2. SgmtExpiries(s) = {s.expires}
    BY <1>3 DEF SgmtExpiries, When
  <2>3. \A x \in Nat : SgmtExpired(s, x) <=> x > s.expires + Skew
    BY <1>3 DEF SgmtExpired, Expired
  <2>4. CASE SgmtExpired(s, verified)
    <3>1. t > s.expires + Skew
      BY <2>1, <2>3, <2>4
    <3> QED BY <2>3, <2>4, <3>1
  <2>5. CASE ~SgmtExpired(s, verified)
    <3>1. s.expires > bounded
      BY <2>1, <2>2, <2>5
    <3>2. until \in Nat /\ until <= s.expires /\ t < until
      BY <2>2, <3>1
    <3>3. ~(t > s.expires + Skew)
      BY <2>1, <3>2
    <3>4. ~SgmtExpired(s, t)
      BY <2>3, <3>3
    <3> QED BY <2>5, <3>4
  <2> QED BY <2>4, <2>5
<1> QED BY <1>1, <1>2, <1>3

LEMMA WaiversAreStable ==
  ASSUME NEW q \in Requests, NEW bounded \in Nat, NEW scanned \in Nat, NEW t \in Nat,
         bounded <= scanned, scanned <= t,
         NEW until, \A e \in WaiverExpiries(q.pol) : e > bounded => until # NoExpiry /\ until <= e,
         until # NoExpiry => t < until,
         until \in Nat \cup {NoExpiry},
         \A e \in WaiverExpiries(q.pol) : ~(e = bounded /\ e = scanned)
  PROVE  Honoured(q.pol, t) = Honoured(q.pol, scanned)
<1>1. \A w \in q.pol.waivers : w.expires \in Nat => (t <= w.expires <=> scanned <= w.expires)
  <2> SUFFICES ASSUME NEW w \in q.pol.waivers, w.expires \in Nat, scanned <= w.expires
               PROVE  t <= w.expires
    OBVIOUS
  <2>1. w.expires \in WaiverExpiries(q.pol)
    BY VerifyAssumption DEF WaiverExpiries
  <2>2. w.expires > bounded
    BY <2>1
  <2>3. until \in Nat /\ until <= w.expires /\ t < until
    BY <2>1, <2>2
  <2> QED BY <2>3
<1> QED BY <1>1 DEF Honoured

LEMMA EntryIsTimely ==
  ASSUME Sound, NEW k \in DOMAIN cache, Fresh(cache[k], now), ~InGrace(k, cache[k])
  PROVE  /\ SgmtExpired(cache[k].from.sgmt, now)
              <=> SgmtExpired(cache[k].from.sgmt, cache[k].from.verified)
         /\ Honoured(k.pol, now) = Honoured(k.pol, cache[k].from.scanned)
<1> DEFINE d == cache[k]
           r == d.from
<1>1. /\ r.sgmt \in Envelopes \cup {Absent}
      /\ r.verified \in Nat /\ r.bounded \in Nat /\ r.scanned \in Nat /\ now \in Nat
  BY GuardAssumption DEF Sound, TypeOK, Decisions, Readings
<1>2. PICK q \in Requests : k.pol = q.pol
  BY DEF Sound, TypeOK, Keys
<1>3. /\ r.verified <= r.bounded /\ r.bounded <= r.scanned /\ r.scanned <= now
      /\ d.validUntil = ValidUntil(r.sgmt, q.pol, r.bounded)
  BY <1>2 DEF Sound, EntriesAreForTheirKeys, EntryIsForItsKey
<1>4. /\ d.validUntil \in Nat \cup {NoExpiry}
      /\ \A e \in Ahead(r.sgmt, q.pol, r.bounded) : d.validUntil # NoExpiry /\ d.validUntil <= e
  BY <1>1, <1>3, BoundIsFirstAhead
<1>5. d.validUntil # NoExpiry => now < d.validUntil
  BY DEF Fresh
<1>6. /\ \A e \in SgmtExpiries(r.sgmt) : e <= r.bounded => SgmtExpired(r.sgmt, r.verified)
      /\ \A e \in WaiverExpiries(q.pol) : ~(e = r.bounded /\ e = r.scanned)
  BY <1>2 DEF InGrace
<1>7. /\ \A e \in SgmtExpiries(r.sgmt) :
           e > r.bounded => d.validUntil # NoExpiry /\ d.validUntil <= e
      /\ \A e \in WaiverExpiries(q.pol) :
           e > r.bounded => d.validUntil # NoExpiry /\ d.validUntil <= e
  BY <1>4 DEF Ahead
<1> HIDE DEF d, r
<1>a. r.bounded <= now
  BY <1>1, <1>3
<1>8. SgmtExpired(r.sgmt, now) <=> SgmtExpired(r.sgmt, r.verified)
  BY <1>1, <1>3, <1>4, <1>5, <1>6, <1>7, <1>a, ExpiryIsStable
<1>9. Honoured(q.pol, now) = Honoured(q.pol, r.scanned)
  <2>1. r.bounded \in Nat /\ r.scanned \in Nat /\ now \in Nat
    BY <1>1
  <2>2. r.bounded <= r.scanned /\ r.scanned <= now
    BY <1>3
  <2>3. d.validUntil \in Nat \cup {NoExpiry}
    BY <1>4
  <2>4. /\ \A e \in WaiverExpiries(q.pol) :
             e > r.bounded => d.validUntil # NoExpiry /\ d.validUntil <= e
        /\ \A e \in WaiverExpiries(q.pol) : ~(e = r.bounded /\ e = r.scanned)
    BY <1>6, <1>7
  <2> QED BY <1>2, <1>5, <2>1, <2>2, <2>3, <2>4, WaiversAreStable
<1> QED BY <1>2, <1>8, <1>9 DEF d, r

\* As long as an entry is served, deciding now about the same bytes gives the
\* stored outcome, except for decisions made in the window InGrace names.
THEOREM EntriesTimely == Spec => []EntriesAreTimely
<1>1. Sound => EntriesAreTimely
  <2> SUFFICES ASSUME Sound, NEW k \in DOMAIN cache,
                      Fresh(cache[k], now), ~InGrace(k, cache[k])
               PROVE  cache[k].outcome =
                        Judge(k, cache[k].from.bundle, cache[k].from.sgmt, cache[k].from.oms,
                              cache[k].from.pool, cache[k].from.rules,
                              SgmtExpired(cache[k].from.sgmt, now), Honoured(k.pol, now))
    BY DEF EntriesAreTimely
  <2>1. cache[k].outcome = Judged(k, cache[k].from)
    BY DEF Sound, EntriesAreForTheirKeys, EntryIsForItsKey
  <2>2. SgmtExpired(cache[k].from.sgmt, now)
          = SgmtExpired(cache[k].from.sgmt, cache[k].from.verified)
    BY EntryIsTimely DEF SgmtExpired
  <2>3. Honoured(k.pol, now) = Honoured(k.pol, cache[k].from.scanned)
    BY EntryIsTimely
  <2> QED BY <2>1, <2>2, <2>3 DEF Judged
<1> QED BY <1>1, SoundInit, SoundStep, PTL DEF Spec

-----------------------------------------------------------------------------
(***************************************************************************)
(* Transparency: if no signature file is replaced between a call's hash    *)
(* and its second reading, an entry's decision was made about the very     *)
(* signatures its key names.                                               *)
(***************************************************************************)
EntryIsExact(k, r) == r.sgmt = k.sgmt /\ r.oms = k.oms /\ r.bundle \in Bundle

CallIsExact(c) ==
  c.q.useCache => /\ c.pc \in {"lookup", "verify"} => c.key.sgmt = sgmt
                  /\ c.pc \in {"oms", "bound", "scan", "put"} => c.key.sgmt = c.read.sgmt
                  /\ c.pc \in {"lookup", "verify", "oms"} => c.key.oms = oms
                  /\ c.pc \in {"bound", "scan", "put"} => c.key.oms = c.read.oms

Exact ==
  /\ Sound
  /\ \A k \in DOMAIN cache : EntryIsExact(k, cache[k].from)
  /\ \A p \in Callers : CallIsExact(call[p])

LEMMA ExactInit == Init => Exact
<1> SUFFICES ASSUME Init PROVE Exact
  OBVIOUS
<1>1. \A p \in Callers : call[p].pc = "idle"
  BY DEF Init, Idle
<1> QED BY <1>1, SoundInit DEF Init, Exact, CallIsExact

LEMMA ExactCaller ==
  ASSUME Exact, NEW p \in Callers, Caller(p), Sound'
  PROVE  Exact'
<1>0. /\ call[p] \in Calls /\ call[p].read \in Readings /\ call \in [Callers -> Calls]
      /\ CallIsExact(call[p])
  BY DEF Exact, Sound, TypeOK, Calls
<1>1. ASSUME NEW c, call' = [call EXCEPT ![p] = c], UNCHANGED <<world, cache>>, CallIsExact(c)
      PROVE  Exact'
  <2>1. \A x \in Callers : CallIsExact(call'[x])
    BY <1>0, <1>1 DEF Exact
  <2>2. \A x \in Callers : CallIsExact(call[x])'
    BY <2>1, <1>1 DEF CallIsExact, world
  <2>3. \A k \in DOMAIN cache' : EntryIsExact(k, cache[k].from)'
    BY <1>1 DEF Exact, EntryIsExact, world, Bundle
  <2> QED BY <2>2, <2>3 DEF Exact
<1>2. ASSUME NEW q \in Requests, Load(p, q) PROVE Exact'
  <2> DEFINE r == [Unread EXCEPT !.bundle = bundle, !.rules = rules]
             c == [pc |-> IF q.useCache THEN "hash" ELSE "verify", q |-> q, key |-> Absent,
                   read |-> r, answer |-> Absent]
  <2>1. r.bundle = bundle /\ r.rules = rules
    BY DEF Unread
  <2>2. CallIsExact(c)
    <3> HIDE DEF r
    <3> QED BY <2>1, GuardAssumption DEF CallIsExact
  <2> QED BY <1>1, <1>2, <2>2 DEF Load
<1>3. ASSUME Hash(p) PROVE Exact'
  <2> DEFINE k == Key(call[p].q, call[p].read.bundle, sgmt, oms)
             c == [call[p] EXCEPT !.pc = "lookup", !.key = k]
  <2>1. k.sgmt = sgmt /\ k.oms = oms /\ call[p].pc = "hash"
    BY <1>3 DEF Key, Hash
  <2>2. c.pc = "lookup" /\ c.key = k /\ c.q = call[p].q /\ c.read = call[p].read
    BY <1>0 DEF Calls
  <2>3. CallIsExact(c)
    <3> HIDE DEF c, k
    <3> QED BY <1>0, <2>1, <2>2 DEF CallIsExact
  <2>4. call' = [call EXCEPT ![p] = c]
    BY <1>0, <1>3 DEF Hash
  <2> QED BY <1>1, <1>3, <2>3, <2>4 DEF Hash
<1>4. ASSUME Hit(p) PROVE Exact'
  <2> DEFINE c == [call[p] EXCEPT !.pc = "done", !.answer = cache[call[p].key]]
  <2>1. c.pc = "done" /\ c.key = call[p].key /\ c.q = call[p].q /\ c.read = call[p].read
    BY <1>0 DEF Calls
  <2>2. CallIsExact(c)
    <3> HIDE DEF c
    <3> QED BY <1>0, <1>4, <2>1 DEF CallIsExact, Hit
  <2>3. call' = [call EXCEPT ![p] = c]
    BY <1>0, <1>4 DEF Hit
  <2> QED BY <1>1, <1>4, <2>2, <2>3 DEF Hit
<1>5. ASSUME Miss(p) PROVE Exact'
  <2> DEFINE c == [call[p] EXCEPT !.pc = "verify"]
  <2>1. c.pc = "verify" /\ c.key = call[p].key /\ c.q = call[p].q /\ c.read = call[p].read
    BY <1>0 DEF Calls
  <2>2. CallIsExact(c)
    <3> HIDE DEF c
    <3> QED BY <1>0, <1>5, <2>1 DEF CallIsExact, Miss
  <2>3. call' = [call EXCEPT ![p] = c]
    BY <1>0, <1>5 DEF Miss
  <2> QED BY <1>1, <1>5, <2>2, <2>3 DEF Miss
<1>6. ASSUME VerifySgmt(p) PROVE Exact'
  <2> DEFINE r == [call[p].read EXCEPT !.sgmt = sgmt, !.verified = now]
             c == [call[p] EXCEPT !.pc = "oms", !.read = r]
  <2>1. c.pc = "oms" /\ c.key = call[p].key /\ c.q = call[p].q /\ c.read = r
    BY <1>0 DEF Calls
  <2>2. r.sgmt = sgmt /\ r.rules = call[p].read.rules /\ r.bundle = call[p].read.bundle
    BY <1>0 DEF Readings
  <2>3. CallIsExact(c)
    <3> HIDE DEF c, r
    <3> QED BY <1>0, <1>6, <2>1, <2>2 DEF CallIsExact, VerifySgmt
  <2>4. call' = [call EXCEPT ![p] = c]
    BY <1>0, <1>6 DEF VerifySgmt
  <2> QED BY <1>1, <1>6, <2>3, <2>4 DEF VerifySgmt
<1>7. ASSUME VerifyOms(p) PROVE Exact'
  <2> DEFINE r == [call[p].read EXCEPT !.oms = oms, !.pool = pool]
             c == [call[p] EXCEPT !.pc = "bound", !.read = r]
  <2>1. c.pc = "bound" /\ c.key = call[p].key /\ c.q = call[p].q /\ c.read = r
    BY <1>0 DEF Calls
  <2>2. /\ r.oms = oms /\ r.pool = pool /\ r.sgmt = call[p].read.sgmt
        /\ r.rules = call[p].read.rules /\ r.bundle = call[p].read.bundle
    BY <1>0 DEF Readings
  <2>3. CallIsExact(c)
    <3> HIDE DEF c, r
    <3> QED BY <1>0, <1>7, <2>1, <2>2 DEF CallIsExact, VerifyOms
  <2>4. call' = [call EXCEPT ![p] = c]
    BY <1>0, <1>7 DEF VerifyOms
  <2> QED BY <1>1, <1>7, <2>3, <2>4 DEF VerifyOms
<1>8. ASSUME Bound(p) PROVE Exact'
  <2> DEFINE r == [call[p].read EXCEPT !.bounded = now]
             c == [call[p] EXCEPT !.pc = "scan", !.read = r]
  <2>1. c.pc = "scan" /\ c.key = call[p].key /\ c.q = call[p].q /\ c.read = r
    BY <1>0 DEF Calls
  <2>2. /\ r.oms = call[p].read.oms /\ r.pool = call[p].read.pool /\ r.sgmt = call[p].read.sgmt
        /\ r.rules = call[p].read.rules /\ r.bundle = call[p].read.bundle
    BY <1>0 DEF Readings
  <2>3. CallIsExact(c)
    <3> HIDE DEF c, r
    <3> QED BY <1>0, <1>8, <2>1, <2>2 DEF CallIsExact, Bound
  <2>4. call' = [call EXCEPT ![p] = c]
    BY <1>0, <1>8 DEF Bound
  <2> QED BY <1>1, <1>8, <2>3, <2>4 DEF Bound
<1>9. ASSUME ScanAndDecide(p) PROVE Exact'
  <2> DEFINE r == [call[p].read EXCEPT !.scanned = now]
             c == [call[p] EXCEPT !.pc = IF call[p].q.useCache THEN "put" ELSE "done",
                                  !.read = r, !.answer = Decision(call[p].q, r)]
  <2>1. c.pc \in {"put", "done"} /\ c.key = call[p].key /\ c.q = call[p].q /\ c.read = r
    BY <1>0 DEF Calls
  <2>2. /\ r.oms = call[p].read.oms /\ r.pool = call[p].read.pool /\ r.sgmt = call[p].read.sgmt
        /\ r.rules = call[p].read.rules /\ r.bundle = call[p].read.bundle
    BY <1>0 DEF Readings
  <2>3. CallIsExact(c)
    <3> HIDE DEF c, r
    <3> QED BY <1>0, <1>9, <2>1, <2>2 DEF CallIsExact, ScanAndDecide
  <2>4. call' = [call EXCEPT ![p] = c]
    BY <1>0, <1>9 DEF ScanAndDecide
  <2> QED BY <1>1, <1>9, <2>3, <2>4 DEF ScanAndDecide
<1>10. ASSUME Put(p) PROVE Exact'
  <2> DEFINE c == [call[p] EXCEPT !.pc = "done"]
  <2>1. c.pc = "done" /\ c.key = call[p].key /\ c.q = call[p].q /\ c.read = call[p].read
    BY <1>0 DEF Calls
  <2>2. CallIsExact(c)
    <3> HIDE DEF c
    <3> QED BY <1>0, <1>10, <2>1 DEF CallIsExact, Put
  <2>3. call' = [call EXCEPT ![p] = c] /\ UNCHANGED world
    BY <1>0, <1>10 DEF Put
  <2>4. \A x \in Callers : CallIsExact(call'[x])
    BY <1>0, <2>2, <2>3 DEF Exact
  <2>5. \A x \in Callers : CallIsExact(call[x])'
    BY <2>3, <2>4 DEF CallIsExact, world
  <2>6. EntryIsExact(call[p].key, call[p].answer.from)
    <3>1. /\ call[p].pc = "put" /\ call[p].q.useCache /\ call[p].read.bundle \in Bundle
          /\ call[p].answer = Decision(call[p].q, call[p].read)
      BY <1>10 DEF Put, Exact, Sound, TypeOK, CallIsSound
    <3>2. call[p].answer.from = call[p].read
      BY <3>1 DEF Decision
    <3> QED BY <1>0, <3>1, <3>2 DEF EntryIsExact, CallIsExact
  <2>7. \A k \in DOMAIN cache' : EntryIsExact(k, cache'[k].from)
    BY <1>10, <2>6 DEF Put, Exact
  <2>8. \A k \in DOMAIN cache' : EntryIsExact(k, cache[k].from)'
    BY <2>3, <2>7 DEF EntryIsExact, world, Bundle
  <2> QED BY <2>5, <2>8 DEF Exact
<1>11. ASSUME Return(p) \/ Killed(p) PROVE Exact'
  <2>1. CallIsExact(Idle)
    BY DEF CallIsExact, Idle
  <2> QED BY <1>1, <1>11, <2>1 DEF Return, Killed
<1> QED BY <1>2, <1>3, <1>4, <1>5, <1>6, <1>7, <1>8, <1>9, <1>10, <1>11 DEF Caller

LEMMA ExactChange ==
  ASSUME ~MidCall, Exact, Change, Sound'
  PROVE  Exact'
<1>1. cache' = cache /\ call' = call
  BY DEF Change
<1>2. \A k \in DOMAIN cache' : EntryIsExact(k, cache[k].from)'
  BY <1>1 DEF Exact, EntryIsExact, Bundle
<1>3. \A p \in Callers : call[p].pc \in {"lookup", "verify"} => sgmt' = sgmt
  BY DEF Change, Between
<1>4. \A p \in Callers : call[p].pc \in {"lookup", "verify", "oms"} => oms' = oms
  BY DEF Change, Between
<1>5. \A p \in Callers : CallIsExact(call[p])'
  BY <1>1, <1>3, <1>4 DEF Exact, CallIsExact
<1> QED BY <1>2, <1>5 DEF Exact

LEMMA ExactStep == ~MidCall /\ Exact /\ [Next]_vars => Exact'
<1> SUFFICES ASSUME ~MidCall, Exact, [Next]_vars PROVE Exact'
  OBVIOUS
<1>0. Sound'
  BY SoundStep DEF Exact
<1>1. ASSUME NEW p \in Callers, Caller(p) PROVE Exact'
  BY <1>0, <1>1, ExactCaller
<1>2. CASE Change
  BY <1>0, <1>2, ExactChange
<1>3. CASE Forget
  BY <1>0, <1>3 DEF Forget, world, Exact, EntryIsExact, CallIsExact, Bundle
<1>4. CASE Tick
  BY <1>0, <1>4 DEF Tick, world, Exact, EntryIsExact, CallIsExact, Bundle
<1>5. CASE UNCHANGED vars
  BY <1>0, <1>5 DEF vars, world, Exact, EntryIsExact, CallIsExact, Bundle
<1> QED BY <1>1, <1>2, <1>3, <1>4, <1>5 DEF Next

\* With an exact and timely entry, the cache answers what a caller without a
\* cache would be told.
LEMMA ExactIsTransparent == Exact => ServedAsRecomputed
<1> SUFFICES ASSUME Exact, NEW q \in Requests,
                    Key(q, bundle, sgmt, oms) \in DOMAIN cache,
                    Fresh(cache[Key(q, bundle, sgmt, oms)], now),
                    SameBesideKey(cache[Key(q, bundle, sgmt, oms)]),
                    ~InGrace(Key(q, bundle, sgmt, oms), cache[Key(q, bundle, sgmt, oms)])
             PROVE  cache[Key(q, bundle, sgmt, oms)].outcome = Recomputed(q)
  BY DEF ServedAsRecomputed, Served, When
<1> DEFINE k == Key(q, bundle, sgmt, oms)
           r == cache[k].from
<1>1. /\ r.sgmt = sgmt /\ r.oms = oms /\ r.pool = pool /\ r.rules = rules
      /\ r.bundle \in Bundle /\ r.bundle.stamp = bundle.stamp
  BY DEF Exact, EntryIsExact, Key, SameBesideKey
<1>2. cache[k].outcome = Judged(k, r) /\ r.bundle.content = k.root
  BY DEF Exact, Sound, EntriesAreForTheirKeys, EntryIsForItsKey
<1>3. r.bundle = bundle
  <2>1. bundle \in Bundle /\ r.bundle.content = bundle.content
    BY <1>2 DEF Key, Exact, Sound, TypeOK
  <2> QED BY <1>1, <2>1 DEF Bundle
<1>4. Judged(k, r) = Judged(q, r)
  BY JudgedByKey
<1>5. SgmtExpired(r.sgmt, now) = SgmtExpired(r.sgmt, r.verified)
  BY EntryIsTimely DEF Exact, SgmtExpired
<1>6. Honoured(q.pol, now) = Honoured(q.pol, r.scanned)
  <2>1. k.pol = q.pol
    BY DEF Key
  <2> QED BY <2>1, EntryIsTimely DEF Exact
<1> HIDE DEF k, r
<1>7. cache[k].outcome = Recomputed(q)
  BY <1>1, <1>2, <1>3, <1>4, <1>5, <1>6 DEF Judged, Recomputed
<1> QED BY <1>7 DEF k

\* For the same bytes, whatever else the key leaves out, the cache answers what a
\* caller without one would be told, whoever stored the answer and whenever.
THEOREM CacheIsTransparent ==
  ASSUME ~MidCall
  PROVE  Spec => []ServedAsRecomputed
<1>1. Exact /\ [Next]_vars => Exact'
  BY ExactStep
<1> QED BY <1>1, ExactInit, ExactIsTransparent, PTL DEF Spec
=============================================================================
