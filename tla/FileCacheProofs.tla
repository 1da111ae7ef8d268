--------------------------- MODULE FileCacheProofs ---------------------------
(***************************************************************************)
(* FileCache for any processes, keys, decisions, temporary names and number *)
(* of crashes: types, the ownership of temporary files, and that the        *)
(* directory of files implements VerdictStore.                              *)
(***************************************************************************)
EXTENDS FileCache, TLAPS

\* A Put carries a decision; what is to be renamed is that decision.
Carrying == \A p \in Procs : proc[p].pc \in Putting \cup {"create"} => proc[p].d \in Decisions

\* A Get has no decision before it answers.
Empty == \A p \in Procs : proc[p].pc \in {"read", "remove", "removed"} => proc[p].d = None

IInv == /\ TypeOK /\ Carrying /\ Empty
        /\ TempsAreExclusive /\ NoLitterWithoutCrash /\ TornOnlyByPowerLoss

USE FileCacheAssumption

LEMMA InitIInv == Init => IInv
BY DEF Init, IInv, TypeOK, Carrying, Empty, TempsAreExclusive, NoLitterWithoutCrash,
       TornOnlyByPowerLoss, Resting, Step, Putting, Crashed

\* The steps of Get touch no temporary file.
LEMMA GetStep ==
  ASSUME IInv, NEW p \in Procs,
         \/ \E k \in Keys : StartGet(p, k)
         \/ ReadEntry(p) \/ RemoveEntry(p) \/ MissAfterRemove(p) \/ Return(p)
  PROVE  IInv'
<1> USE DEF IInv, TypeOK, Carrying, Empty, TempsAreExclusive, NoLitterWithoutCrash,
            TornOnlyByPowerLoss, Putting, Step, Resting, At, Goto, Replace, Crashed, crashes
<1>1. ASSUME NEW k \in Keys, StartGet(p, k) PROVE IInv'
  BY <1>1 DEF StartGet
<1>2. ASSUME ReadEntry(p) PROVE IInv'
  BY <1>2 DEF ReadEntry
<1>3. ASSUME RemoveEntry(p) PROVE IInv'
  BY <1>3 DEF RemoveEntry
<1>4. ASSUME MissAfterRemove(p) PROVE IInv'
  BY <1>4 DEF MissAfterRemove
<1>5. ASSUME Return(p) PROVE IInv'
  BY <1>5 DEF Return
<1> QED BY <1>1, <1>2, <1>3, <1>4, <1>5

LEMMA PutStep ==
  ASSUME IInv, NEW p \in Procs,
         \/ \E k \in Keys, d \in Decisions : StartPut(p, k, d)
         \/ \E t \in Temps : CreateTemp(p, t)
         \/ CreateFails(p) \/ WriteTemp(p) \/ CloseTemp(p) \/ RenameTemp(p)
         \/ StepFails(p) \/ RemoveTemp(p)
  PROVE  IInv'
<1> USE DEF IInv, TypeOK, Carrying, Empty, TempsAreExclusive, NoLitterWithoutCrash,
            TornOnlyByPowerLoss, Putting, Step, Resting, At, Goto, Replace, Crashed, crashes
<1>1. ASSUME NEW k \in Keys, NEW d \in Decisions, StartPut(p, k, d) PROVE IInv'
  BY <1>1 DEF StartPut
<1>2. ASSUME NEW t \in Temps, CreateTemp(p, t) PROVE IInv'
  BY <1>2 DEF CreateTemp
<1>3. ASSUME CreateFails(p) PROVE IInv'
  BY <1>3 DEF CreateFails
<1>4. ASSUME WriteTemp(p) PROVE IInv'
  BY <1>4 DEF WriteTemp
<1>5. ASSUME CloseTemp(p) PROVE IInv'
  BY <1>5 DEF CloseTemp
<1>6. ASSUME RenameTemp(p) PROVE IInv'
  BY <1>6 DEF RenameTemp
<1>7. ASSUME StepFails(p) PROVE IInv'
  BY <1>7 DEF StepFails
<1>8. ASSUME RemoveTemp(p) PROVE IInv'
  BY <1>8 DEF RemoveTemp
<1> QED BY <1>1, <1>2, <1>3, <1>4, <1>5, <1>6, <1>7, <1>8

LEMMA CrashStep ==
  ASSUME IInv, (\E p \in Procs : Die(p)) \/ (\E k \in Keys : Flush(k)) \/ PowerLoss \/ UNCHANGED vars
  PROVE  IInv'
<1> USE DEF IInv, TypeOK, Carrying, Empty, TempsAreExclusive, NoLitterWithoutCrash,
            TornOnlyByPowerLoss, Putting, Step, Resting, At, Crashed, crashes
<1>1. ASSUME NEW p \in Procs, Die(p) PROVE IInv'
  BY <1>1 DEF Die
<1>2. ASSUME NEW k \in Keys, Flush(k) PROVE IInv'
  BY <1>2 DEF Flush
<1>3. ASSUME PowerLoss PROVE IInv'
  BY <1>3 DEF PowerLoss
<1>4. ASSUME UNCHANGED vars PROVE IInv'
  BY <1>4 DEF vars, crashes
<1> QED BY <1>1, <1>2, <1>3, <1>4

LEMMA NextIInv == IInv /\ [Next]_vars => IInv'
BY GetStep, PutStep, CrashStep DEF Next

LEMMA Inductive == Spec => []IInv
BY InitIInv, NextIInv, PTL DEF Spec

\* Every reachable state of the cache directory and its users is well typed.
THEOREM CacheTypeCorrect == Spec => []TypeOK
<1>1. IInv => TypeOK
  BY DEF IInv
<1> QED
  BY Inductive, <1>1, PTL

\* Whoever is killed when, two Puts never write one temporary file, and what is
\* renamed over an entry is the whole decision of the Put that renames it.
THEOREM TempsExclusive == Spec => []TempsAreExclusive
<1>1. IInv => TempsAreExclusive
  BY DEF IInv
<1> QED
  BY Inductive, <1>1, PTL

\* On every error path, a Put that returns has removed its temporary file.
THEOREM NoLitter == Spec => []NoLitterWithoutCrash
<1>1. IInv => NoLitterWithoutCrash
  BY DEF IInv
<1> QED
  BY Inductive, <1>1, PTL

\* Kills and failing system calls, however many, never leave an entry torn:
\* that takes a power loss.
THEOREM TornByPowerLoss == Spec => []TornOnlyByPowerLoss
<1>1. IInv => TornOnlyByPowerLoss
  BY DEF IInv
<1> QED
  BY Inductive, <1>1, PTL

-----------------------------------------------------------------------------
(* The refinement: each step is a step of the store, or none. *)

\* The store as the files show it, what it was, and its calls.
Shown == StoreOf(file)
Past == PastOf(was)
Calls == [p \in Procs |-> StoreCall(proc[p])]

LEMMA StoreInitMaps == Init => Store!StoreInit
BY DEF Init, Store!StoreInit, StoreOf, PastOf, Readable, StoreCall, Store!Resting, Store!Call,
       Resting, Step, Putting

\* A step that changes neither files nor history leaves the store alone.
LEMMA StoreStays ==
  ASSUME UNCHANGED <<file, was, losses>>
  PROVE  UNCHANGED <<Shown, Past, losses>>
BY DEF Shown, Past

\* A name given to another file is an entry stored over another.
LEMMA ReplaceMaps ==
  ASSUME TypeOK, NEW k \in Keys, NEW v \in Decisions \cup {None, Torn}, Replace(k, v),
         UNCHANGED losses
  PROVE  Store!Overwrite(k, Readable(v))
<1>1. StoreOf(file') = [StoreOf(file) EXCEPT ![k] = Readable(v)]
  BY DEF StoreOf, Replace, TypeOK
<1>2. PastOf(was') = [PastOf(was) EXCEPT ![k] = @ \cup {StoreOf(file)[k]}]
  <2>1. ASSUME NEW j \in Keys
        PROVE  PastOf(was')[j] = IF j = k THEN PastOf(was)[j] \cup {StoreOf(file)[k]}
                                 ELSE PastOf(was)[j]
    <3>1. CASE j = k
      <4>1. was'[k] = was[k] \cup {file[k]}
        BY DEF Replace, TypeOK
      <4>2. {Readable(x) : x \in was[k] \cup {file[k]}}
              = {Readable(x) : x \in was[k]} \cup {Readable(file[k])}
        OBVIOUS
      <4> QED BY <3>1, <4>1, <4>2 DEF PastOf, StoreOf
    <3>2. CASE j # k
      <4>1. was'[j] = was[j]
        BY <3>2 DEF Replace, TypeOK
      <4> QED BY <3>2, <4>1 DEF PastOf
    <3> QED BY <3>1, <3>2
  <2> QED BY <2>1 DEF PastOf
<1> QED BY <1>1, <1>2 DEF Store!Overwrite

\* A torn file is read as no entry; removing it, or an entry that replaced it,
\* loses the entry.
LEMMA GetMaps ==
  ASSUME IInv, NEW p \in Procs,
         \/ \E k \in Keys : StartGet(p, k)
         \/ ReadEntry(p) \/ RemoveEntry(p) \/ MissAfterRemove(p) \/ Return(p)
  PROVE  [Store!StoreNext]_(Store!storeVars)
<1> USE DEF IInv, TypeOK, Empty, At, Goto, Step, StoreCall, Putting, crashes
<1>1. ASSUME NEW k \in Keys, StartGet(p, k) PROVE Store!BeginGet(p, k)
  <2>1. Calls[p].pc = "idle"
    BY <1>1 DEF StartGet, Calls
  <2>2. Calls' = [Calls EXCEPT ![p] = Store!Call("get", k, None)]
    BY <1>1 DEF StartGet, Calls, Store!Call
  <2>3. UNCHANGED <<file, was, losses>>
    BY <1>1 DEF StartGet
  <2> QED BY <2>1, <2>2, <2>3, StoreStays DEF Store!BeginGet, Calls, Shown, Past
<1>2. ASSUME ReadEntry(p) PROVE Store!AnswerGet(p) \/ UNCHANGED Store!storeVars
  <2>1. CASE file[proc[p].key] = Torn
    BY <1>2, <2>1, StoreStays DEF ReadEntry, Store!storeVars, Shown, Past
  <2>2. CASE file[proc[p].key] # Torn
    <3>1. Calls[p].pc = "get" /\ Calls[p].key = proc[p].key /\ proc[p].key \in Keys
      BY <1>2 DEF ReadEntry, Calls
    <3>2. Shown[proc[p].key] = file[proc[p].key]
      BY <2>2, <3>1 DEF Shown, StoreOf, Readable
    <3>3. Calls' = [Calls EXCEPT ![p] = Store!Call("got", proc[p].key, file[proc[p].key])]
      BY <1>2, <2>2 DEF ReadEntry, Calls, Store!Call
    <3>4. UNCHANGED <<file, was, losses>>
      BY <1>2 DEF ReadEntry
    <3> QED BY <3>1, <3>2, <3>3, <3>4, StoreStays DEF Store!AnswerGet, Calls, Shown, Past
  <2> QED BY <2>1, <2>2
<1>3. ASSUME RemoveEntry(p) PROVE \E k \in Keys : Store!Lose(k)
  <2>1. proc[p].key \in Keys /\ Replace(proc[p].key, None) /\ UNCHANGED losses
    BY <1>3 DEF RemoveEntry
  <2>2. UNCHANGED Calls
    BY <1>3 DEF RemoveEntry, Calls
  <2>3. Readable(None) = None
    BY FileCacheAssumption DEF Readable
  <2>4. Store!Overwrite(proc[p].key, None)
    BY <2>1, <2>3, ReplaceMaps
  <2> QED BY <2>1, <2>2, <2>4 DEF Store!Lose, Calls
<1>4. ASSUME MissAfterRemove(p) PROVE Store!AnswerGet(p)
  <2>1. Calls[p].pc = "get" /\ Calls[p].key = proc[p].key
    BY <1>4 DEF MissAfterRemove, Calls
  <2>2. Calls' = [Calls EXCEPT ![p] = Store!Call("got", proc[p].key, None)]
    BY <1>4 DEF MissAfterRemove, Calls, Store!Call
  <2>3. UNCHANGED <<file, was, losses>>
    BY <1>4 DEF MissAfterRemove
  <2> QED BY <2>1, <2>2, <2>3, StoreStays DEF Store!AnswerGet, Calls, Shown, Past
<1>5. ASSUME Return(p) PROVE Store!EndCall(p)
  <2>1. UNCHANGED <<file, was, losses>>
    BY <1>5 DEF Return
  <2>2. StoreCall(Resting) = Store!Resting
    BY DEF Resting, Store!Resting, Store!Call
  <2>3. Calls' = [Calls EXCEPT ![p] = Store!Resting]
    BY <1>5, <2>2 DEF Return, Calls
  <2> QED BY <2>1, <2>3, StoreStays DEF Store!EndCall, Calls, Shown, Past
<1> QED BY <1>1, <1>2, <1>3, <1>4, <1>5 DEF Store!StoreNext

\* A Put takes effect when its file is renamed over the entry.
LEMMA PutMaps ==
  ASSUME IInv, NEW p \in Procs,
         \/ \E k \in Keys, d \in Decisions : StartPut(p, k, d)
         \/ \E t \in Temps : CreateTemp(p, t)
         \/ CreateFails(p) \/ WriteTemp(p) \/ CloseTemp(p) \/ RenameTemp(p)
         \/ StepFails(p) \/ RemoveTemp(p)
  PROVE  [Store!StoreNext]_(Store!storeVars)
<1> USE DEF IInv, TypeOK, Carrying, At, Goto, Step, StoreCall, Putting, crashes
<1>1. ASSUME NEW k \in Keys, NEW d \in Decisions, StartPut(p, k, d) PROVE Store!BeginPut(p, k, d)
  <2>1. Calls[p].pc = "idle"
    BY <1>1 DEF StartPut, Calls
  <2>2. Calls' = [Calls EXCEPT ![p] = Store!Call("put", k, d)]
    BY <1>1 DEF StartPut, Calls, Store!Call
  <2>3. UNCHANGED <<file, was, losses>>
    BY <1>1 DEF StartPut
  <2> QED BY <2>1, <2>2, <2>3, StoreStays DEF Store!BeginPut, Calls, Shown, Past
<1>2. ASSUME NEW t \in Temps, CreateTemp(p, t) PROVE UNCHANGED Store!storeVars
  BY <1>2, StoreStays DEF CreateTemp, Store!storeVars, Shown, Past
<1>3. ASSUME CreateFails(p) PROVE Store!GiveUpPut(p)
  <2>1. Calls[p].pc = "put"
    BY <1>3 DEF CreateFails, Calls
  <2>2. Calls' = [Calls EXCEPT ![p].pc = "stored"]
    <3>1. proc' = [proc EXCEPT ![p] = [proc[p] EXCEPT !.pc = "stored"]]
      BY <1>3 DEF CreateFails
    <3>2. StoreCall(proc'[p]) = [StoreCall(proc[p]) EXCEPT !.pc = "stored"]
      BY <3>1
    <3> QED BY <3>1, <3>2 DEF Calls
  <2>3. UNCHANGED <<file, was, losses>>
    BY <1>3 DEF CreateFails
  <2> QED BY <2>1, <2>2, <2>3, StoreStays DEF Store!GiveUpPut, Calls, Shown, Past
<1>4. ASSUME WriteTemp(p) PROVE UNCHANGED Store!storeVars
  BY <1>4, StoreStays DEF WriteTemp, Store!storeVars, Shown, Past
<1>5. ASSUME CloseTemp(p) PROVE UNCHANGED Store!storeVars
  BY <1>5, StoreStays DEF CloseTemp, Store!storeVars, Shown, Past
<1>6. ASSUME RenameTemp(p) PROVE Store!DoPut(p)
  <2>1. tmp[proc[p].tmp] = proc[p].d /\ proc[p].d \in Decisions
    BY <1>6 DEF RenameTemp, TempsAreExclusive
  <2>2. proc[p].key \in Keys /\ Replace(proc[p].key, proc[p].d) /\ UNCHANGED losses
    BY <1>6, <2>1 DEF RenameTemp
  <2>3. Readable(proc[p].d) = proc[p].d
    BY <2>1, FileCacheAssumption DEF Readable
  <2>4. Store!Overwrite(proc[p].key, proc[p].d)
    BY <2>1, <2>2, <2>3, ReplaceMaps
  <2>5. Calls[p].pc = "put" /\ Calls[p].key = proc[p].key /\ Calls[p].d = proc[p].d
    BY <1>6 DEF RenameTemp, Calls
  <2>6. Calls' = [Calls EXCEPT ![p].pc = "stored"]
    <3>1. proc' = [proc EXCEPT ![p] = [proc[p] EXCEPT !.pc = "stored"]]
      BY <1>6 DEF RenameTemp
    <3>2. StoreCall(proc'[p]) = [StoreCall(proc[p]) EXCEPT !.pc = "stored"]
      BY <1>6, <3>1 DEF RenameTemp
    <3> QED BY <3>1, <3>2 DEF Calls
  <2> QED BY <2>4, <2>5, <2>6 DEF Store!DoPut, Calls
<1>7. ASSUME StepFails(p) PROVE UNCHANGED Store!storeVars
  BY <1>7, StoreStays DEF StepFails, Store!storeVars, Shown, Past
<1>8. ASSUME RemoveTemp(p) PROVE Store!GiveUpPut(p)
  <2>1. Calls[p].pc = "put"
    BY <1>8 DEF RemoveTemp, Calls
  <2>2. Calls' = [Calls EXCEPT ![p].pc = "stored"]
    <3>1. proc' = [proc EXCEPT ![p] = [proc[p] EXCEPT !.pc = "stored"]]
      BY <1>8 DEF RemoveTemp
    <3>2. StoreCall(proc'[p]) = [StoreCall(proc[p]) EXCEPT !.pc = "stored"]
      BY <3>1
    <3> QED BY <3>1, <3>2 DEF Calls
  <2>3. UNCHANGED <<file, was, losses>>
    BY <1>8 DEF RemoveTemp
  <2> QED BY <2>1, <2>2, <2>3, StoreStays DEF Store!GiveUpPut, Calls, Shown, Past
<1> QED BY <1>1, <1>2, <1>3, <1>4, <1>5, <1>6, <1>7, <1>8 DEF Store!StoreNext

\* What the disk shows of an entry after a power loss is what it was, nothing,
\* or something it was since it was last flushed.
LEMMA DiskMaps ==
  ASSUME NEW k \in Keys, NEW v \in OnDisk(k)
  PROVE  Readable(v) \in {Shown[k], None} \cup Past[k]
<1>1. CASE v = file[k]
  BY <1>1 DEF Shown, StoreOf
<1>2. CASE v \in {None, Torn}
  BY <1>2 DEF Readable
<1>3. CASE v \in was[k]
  BY <1>3 DEF Past, PastOf
<1> QED BY <1>1, <1>2, <1>3 DEF OnDisk

\* Power loss loses the torn entries with the missing ones, may bring back an
\* entry of the past, and ends every call; a flush forgets the past.
LEMMA CrashMaps ==
  ASSUME IInv, (\E p \in Procs : Die(p)) \/ (\E k \in Keys : Flush(k)) \/ PowerLoss
               \/ UNCHANGED vars
  PROVE  [Store!StoreNext]_(Store!storeVars)
<1> USE DEF IInv, TypeOK, StoreCall, Putting, Resting, Step, Store!Resting, Store!Call, crashes
<1>1. ASSUME NEW p \in Procs, Die(p) PROVE Store!EndCall(p)
  BY <1>1, StoreStays DEF Die, Store!EndCall, Shown, Past
<1>2. ASSUME NEW k \in Keys, Flush(k) PROVE Store!WriteBack(k)
  <2>1. was' = [was EXCEPT ![k] = {}] /\ UNCHANGED <<file, proc, losses>>
    BY <1>2 DEF Flush
  <2>2. Past' = [Past EXCEPT ![k] = {}]
    BY <2>1 DEF Past, PastOf
  <2> QED BY <2>1, <2>2 DEF Store!WriteBack, Past
<1>3. ASSUME PowerLoss PROVE Store!LosePower
  <2>1. Calls' = [p \in Procs |-> Store!Resting]
    BY <1>3 DEF PowerLoss, Calls
  <2>2. Past' = [k \in Keys |-> {}]
    BY <1>3 DEF PowerLoss, Past, PastOf
  <2>3. \A k \in Keys : file'[k] \in OnDisk(k)
    BY <1>3 DEF PowerLoss
  <2>4. \A k \in Keys : Shown'[k] = Readable(file'[k])
    BY DEF Shown, StoreOf
  <2>5. \A k \in Keys : Shown'[k] \in {Shown[k], None} \cup Past[k]
    BY <2>3, <2>4, DiskMaps
  <2>6. Shown' \in [Keys -> Decisions \cup {None}]
    BY <1>3 DEF PowerLoss, Shown, StoreOf, Readable
  <2>7. losses' = losses + 1
    BY <1>3 DEF PowerLoss
  <2> HIDE DEF Store!Resting
  <2> QED BY <2>1, <2>2, <2>5, <2>6, <2>7 DEF Store!LosePower, Calls, Shown, Past
<1>4. ASSUME UNCHANGED vars PROVE UNCHANGED Store!storeVars
  BY <1>4, StoreStays DEF vars, Store!storeVars, Shown, Past
<1> QED BY <1>1, <1>2, <1>3, <1>4 DEF Store!StoreNext

LEMMA NextMaps == IInv /\ [Next]_vars => [Store!StoreNext]_(Store!storeVars)
BY GetMaps, PutMaps, CrashMaps DEF Next

\* The directory of files is a VerdictStore: for any processes, keys and number
\* of crashes, Get answers with the last decision put under its key, or misses;
\* an earlier one comes back only in a power loss before the last was flushed.
THEOREM CacheImplementsStore == Spec => ImplementsStore
BY StoreInitMaps, NextMaps, Inductive, PTL DEF Spec, ImplementsStore, Store!StoreSpec
=============================================================================
