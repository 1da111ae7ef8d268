------------------------------ MODULE FileCache ------------------------------
(***************************************************************************)
(* guard.FileCache: decisions as files in one directory, shared by         *)
(* processes that know nothing of each other.                              *)
(*                                                                         *)
(* Put marshals to a temporary file and renames it over the entry; Get     *)
(* reads the entry and removes one it cannot parse. Processes die between  *)
(* any two system calls, system calls of Put fail, and because nothing is  *)
(* flushed a power loss may tear a recently renamed entry, take it away or *)
(* bring back what the rename replaced.                                    *)
(***************************************************************************)
EXTENDS Naturals

CONSTANTS
  Procs,
  Keys,
  Decisions,
  None,
  Torn,         \* a file whose bytes are not a decision
  Temps,        \* names CreateTemp may choose
  MaxCrashes    \* bound on kills and power losses together

ASSUME FileCacheAssumption ==
  /\ None \notin Decisions /\ Torn \notin Decisions /\ None # Torn
  /\ MaxCrashes \in Nat

VARIABLES
  file,      \* key -> decision, Torn, or None when there is no file
  tmp,       \* temporary name -> decision, Torn or None
  was,       \* key -> what the entry was since it was last flushed
  proc,      \* process -> [pc, key, d, tmp]
  kills,     \* processes killed
  losses     \* power losses

crashes == <<kills, losses>>
vars == <<file, tmp, was, proc, crashes>>

Step(pc, k, d, t) == [pc |-> pc, key |-> k, d |-> d, tmp |-> t]
Resting == Step("idle", None, None, None)

Init ==
  /\ file = [k \in Keys |-> None]
  /\ tmp = [t \in Temps |-> None]
  /\ was = [k \in Keys |-> {}]
  /\ proc = [p \in Procs |-> Resting]
  /\ kills = 0 /\ losses = 0

At(p, pc) == proc[p].pc = pc
Goto(p, pc) == proc' = [proc EXCEPT ![p].pc = pc]

\* The directory names another file, or none, for k; the disk may still hold
\* the old one.
Replace(k, v) ==
  /\ file' = [file EXCEPT ![k] = v]
  /\ was' = [was EXCEPT ![k] = @ \cup {file[k]}]

-----------------------------------------------------------------------------
(* Get *)
StartGet(p, k) ==
  /\ At(p, "idle")
  /\ proc' = [proc EXCEPT ![p] = Step("read", k, None, None)]
  /\ UNCHANGED <<file, tmp, was, crashes>>

\* Mutant: bytes that are no decision are returned.
ReadUnparsed(p) ==
  /\ At(p, "read")
  /\ proc' = [proc EXCEPT ![p] = Step("got", proc[p].key, file[proc[p].key], None)]
  /\ UNCHANGED <<file, tmp, was, crashes>>

\* os.ReadFile: the opened file is whole or not there, whatever is renamed
\* over it meanwhile. A file that json.Unmarshal refuses is to be removed.
ReadEntry(p) ==
  /\ At(p, "read")
  /\ LET found == file[proc[p].key]
     IN proc' = [proc EXCEPT ![p] =
          Step(IF found = Torn THEN "remove" ELSE "got", proc[p].key,
               IF found = Torn THEN None ELSE found, None)]
  /\ UNCHANGED <<file, tmp, was, crashes>>

\* os.Remove names the path, not the file that was read.
RemoveEntry(p) ==
  /\ At(p, "remove")
  /\ Replace(proc[p].key, None)
  /\ Goto(p, "removed")
  /\ UNCHANGED <<tmp, crashes>>

MissAfterRemove(p) ==
  /\ At(p, "removed")
  /\ proc' = [proc EXCEPT ![p] = Step("got", proc[p].key, None, None)]
  /\ UNCHANGED <<file, tmp, was, crashes>>

-----------------------------------------------------------------------------
(* Put *)
StartPut(p, k, d) ==
  /\ At(p, "idle")
  /\ proc' = [proc EXCEPT ![p] = Step("create", k, d, None)]
  /\ UNCHANGED <<file, tmp, was, crashes>>

\* Mutant: the name is opened whether or not somebody has it.
CreateShared(p, t) ==
  /\ At(p, "create")
  /\ tmp' = [tmp EXCEPT ![t] = Torn]
  /\ proc' = [proc EXCEPT ![p] = Step("write", proc[p].key, proc[p].d, t)]
  /\ UNCHANGED <<file, was, crashes>>

\* os.CreateTemp makes an empty file under a name nobody has, or fails.
CreateTemp(p, t) ==
  /\ At(p, "create")
  /\ tmp[t] = None
  /\ tmp' = [tmp EXCEPT ![t] = Torn]
  /\ proc' = [proc EXCEPT ![p] = Step("write", proc[p].key, proc[p].d, t)]
  /\ UNCHANGED <<file, was, crashes>>

CreateFails(p) ==
  /\ At(p, "create")
  /\ Goto(p, "stored")
  /\ UNCHANGED <<file, tmp, was, crashes>>

WriteTemp(p) ==
  /\ At(p, "write")
  /\ tmp' = [tmp EXCEPT ![proc[p].tmp] = proc[p].d]
  /\ Goto(p, "close")
  /\ UNCHANGED <<file, was, crashes>>

CloseTemp(p) ==
  /\ At(p, "close")
  /\ Goto(p, "rename")
  /\ UNCHANGED <<file, tmp, was, crashes>>

RenameTemp(p) ==
  /\ At(p, "rename")
  /\ Replace(proc[p].key, tmp[proc[p].tmp])
  /\ tmp' = [tmp EXCEPT ![proc[p].tmp] = None]
  /\ Goto(p, "stored")
  /\ UNCHANGED crashes

\* Mutants: an error is ignored until the rename; nothing is removed.
FailsUnnoticed(p) ==
  /\ proc[p].pc \in {"write", "close", "rename"}
  /\ Goto(p, "rename")
  /\ UNCHANGED <<file, tmp, was, crashes>>
FailsLittering(p) ==
  /\ proc[p].pc \in {"write", "close", "rename"}
  /\ Goto(p, "stored")
  /\ UNCHANGED <<file, tmp, was, crashes>>

\* Write, Close or Rename fails; the temporary file is removed.
StepFails(p) ==
  /\ proc[p].pc \in {"write", "close", "rename"}
  /\ Goto(p, "cleanup")
  /\ UNCHANGED <<file, tmp, was, crashes>>

RemoveTemp(p) ==
  /\ At(p, "cleanup")
  /\ tmp' = [tmp EXCEPT ![proc[p].tmp] = None]
  /\ Goto(p, "stored")
  /\ UNCHANGED <<file, was, crashes>>

Return(p) ==
  /\ proc[p].pc \in {"got", "stored"}
  /\ proc' = [proc EXCEPT ![p] = Resting]
  /\ UNCHANGED <<file, tmp, was, crashes>>

-----------------------------------------------------------------------------
Crashed == kills + losses

\* A process dies; its temporary file stays.
Die(p) ==
  /\ ~At(p, "idle")
  /\ Crashed < MaxCrashes
  /\ kills' = kills + 1
  /\ proc' = [proc EXCEPT ![p] = Resting]
  /\ UNCHANGED <<file, tmp, was, losses>>

\* The file system writes an entry back, data and name.
Flush(k) ==
  /\ was[k] # {}
  /\ was' = [was EXCEPT ![k] = {}]
  /\ UNCHANGED <<file, tmp, proc, crashes>>

\* What the disk may hold of an entry when the power goes: one not flushed
\* since it last changed may be as it is, gone, torn, or as it was before.
OnDisk(k) == {file[k]} \cup (IF was[k] = {} THEN {} ELSE {None, Torn} \cup was[k])

\* The machine loses power. Temporary files may be there or not; what they
\* hold is never read again.
PowerLoss ==
  /\ Crashed < MaxCrashes
  /\ losses' = losses + 1
  /\ file' \in [Keys -> Decisions \cup {None, Torn}]
  /\ \A k \in Keys : file'[k] \in OnDisk(k)
  /\ tmp' \in [Temps -> {None, Torn}]
  /\ proc' = [p \in Procs |-> Resting]
  /\ was' = [k \in Keys |-> {}]
  /\ UNCHANGED kills

Next ==
  \/ \E p \in Procs :
       \/ \E k \in Keys : StartGet(p, k) \/ \E d \in Decisions : StartPut(p, k, d)
       \/ ReadEntry(p) \/ RemoveEntry(p) \/ MissAfterRemove(p)
       \/ \E t \in Temps : CreateTemp(p, t)
       \/ CreateFails(p) \/ WriteTemp(p) \/ CloseTemp(p) \/ RenameTemp(p)
       \/ StepFails(p) \/ RemoveTemp(p) \/ Return(p) \/ Die(p)
  \/ \E k \in Keys : Flush(k)
  \/ PowerLoss

Spec == Init /\ [][Next]_vars

-----------------------------------------------------------------------------
Putting == {"write", "close", "rename", "cleanup"}

TypeOK ==
  /\ file \in [Keys -> Decisions \cup {None, Torn}]
  /\ tmp \in [Temps -> Decisions \cup {None, Torn}]
  /\ was \in [Keys -> SUBSET (Decisions \cup {None, Torn})]
  /\ proc \in [Procs -> [pc : {"idle", "read", "remove", "removed", "got", "create",
                               "stored"} \cup Putting,
                         key : Keys \cup {None}, d : Decisions \cup {None},
                         tmp : Temps \cup {None}]]
  /\ \A p \in Procs :
       /\ proc[p].pc # "idle" => proc[p].key \in Keys
       /\ proc[p].pc \in Putting => proc[p].tmp \in Temps
  /\ kills \in Nat /\ losses \in Nat /\ Crashed <= MaxCrashes

\* Two Puts never write one temporary file, and the file about to be renamed
\* over an entry holds the whole decision of the Put that renames it -- also
\* when another process was killed in the middle of the same key.
TempsAreExclusive ==
  \A p \in Procs : proc[p].pc \in Putting =>
    /\ tmp[proc[p].tmp] # None
    /\ \A o \in Procs : o # p /\ proc[o].pc \in Putting => proc[o].tmp # proc[p].tmp
    /\ proc[p].pc \in {"close", "rename"} => tmp[proc[p].tmp] = proc[p].d

\* Every error path of Put removes its temporary file: without a crash, a
\* temporary file belongs to a Put that is still running.
NoLitterWithoutCrash ==
  Crashed = 0 =>
    \A t \in Temps : tmp[t] # None => \E p \in Procs : proc[p].pc \in Putting /\ proc[p].tmp = t

\* An entry is torn only by a power loss that beat the flush: never by a kill
\* in the middle of a Put, nor by a system call of it that failed.
TornOnlyByPowerLoss == \A k \in Keys : file[k] = Torn => losses > 0

-----------------------------------------------------------------------------
(***************************************************************************)
(* The cache implements the store: an entry that cannot be parsed is none, *)
(* and a Put happens at its rename.                                        *)
(***************************************************************************)
Readable(v) == IF v = Torn THEN None ELSE v
StoreOf(f) == [k \in Keys |-> Readable(f[k])]
PastOf(w) == [k \in Keys |-> {Readable(v) : v \in w[k]}]

StoreCall(c) ==
  [pc  |-> IF c.pc \in {"read", "remove", "removed"} THEN "get"
           ELSE IF c.pc \in Putting \cup {"create"} THEN "put"
           ELSE c.pc,
   key |-> c.key, d |-> c.d]

Store == INSTANCE VerdictStore WITH
           store <- StoreOf(file),
           past <- PastOf(was),
           op <- [p \in Procs |-> StoreCall(proc[p])]

\* FileCache is a VerdictStore: Get never returns a torn decision nor one of
\* another key; it returns one older than the last completed Put only after a
\* power loss that beat the flush of that Put, never after kills, failing
\* system calls or concurrent Gets and Puts alone.
ImplementsStore == Store!StoreSpec
=============================================================================
