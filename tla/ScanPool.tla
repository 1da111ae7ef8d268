------------------------------ MODULE ScanPool ------------------------------
(***************************************************************************)
(* Scanner.ScanAll (pkg/scan/multi.go): several bundles loaded and scanned *)
(* by a pool of goroutines, and Aggregate over what they recorded.         *)
(*                                                                         *)
(* The caller starts the workers one by one, hands out the indices over an *)
(* unbuffered channel (a hand-off is one step of both sides), closes it,   *)
(* waits for the wait group and aggregates. Workers write to the slot of   *)
(* the index they received, with no lock.                                  *)
(***************************************************************************)
EXTENDS Integers, Sequences

CONSTANTS
  MaxProcs,   \* runtime.GOMAXPROCS(0) is at most this
  MaxBatch,   \* bound on the number of candidates
  Parallels,  \* values of the parallel argument
  Reports,    \* what a scan may say: a set of [verdict, risk]
  None        \* a slot not written

ASSUME ScanPoolAssumption ==
  /\ MaxProcs \in Nat \ {0} /\ MaxBatch \in Nat
  /\ Parallels \subseteq Int
  /\ \A r \in Reports : r.verdict \in {"pass", "warn", "fail"} /\ r.risk \in Nat

\* A load error is recorded instead of a report.
LoadError == [verdict |-> "error", risk |-> 0]
ASSUME NoneIsNoResult == None \notin Reports \cup {LoadError}
Outcomes == Reports \cup {LoadError}

VARIABLES
  batch,     \* the call: [n, outcome, workers]; outcome[i] is what loading and
             \* scanning candidate i gives. Does not change.
  main,      \* where ScanAll stands
  spawned,   \* goroutines started
  wg,        \* the wait group's counter
  next,      \* the index to hand out
  closed,    \* jobs is closed
  work,      \* worker -> [pc, job]
  results,   \* the slots
  report     \* what ScanAll returns

vars == <<batch, main, spawned, wg, next, closed, work, results, report>>

WorkerIds == 1..MaxProcs
Absent == [pc |-> "absent", job |-> 0]

\* Mutant: zero is taken as a limit.
WorkersZero(n, procs, parallel) ==
  LET limit == IF parallel < procs THEN parallel ELSE procs
  IN IF limit > n THEN n ELSE limit

\* The clamp: at most GOMAXPROCS, at most parallel when it is positive, at
\* most one per candidate.
Workers(n, procs, parallel) ==
  LET limit == IF parallel > 0 /\ parallel < procs THEN parallel ELSE procs
  IN IF limit > n THEN n ELSE limit

VerdictRank(v) == CASE v = "pass" -> 0 [] v = "warn" -> 1 [] v = "fail" -> 2

\* Mutant: an error is counted, and the verdict is left as it is.
FoldErrorsOnly(m, r) ==
  IF r = LoadError THEN [m EXCEPT !.errors = @ + 1]
  ELSE [m EXCEPT !.risk = IF r.risk > @ THEN r.risk ELSE @,
                 !.verdict = IF VerdictRank(r.verdict) > VerdictRank(@) THEN r.verdict ELSE @]

\* One turn of Aggregate's loop: an error fails the batch.
FoldResult(m, r) ==
  IF r = LoadError THEN [m EXCEPT !.errors = @ + 1, !.verdict = "fail"]
  ELSE [m EXCEPT !.risk = IF r.risk > @ THEN r.risk ELSE @,
                 !.verdict = IF VerdictRank(r.verdict) > VerdictRank(@) THEN r.verdict ELSE @]

NoResults == [errors |-> 0, verdict |-> "pass", risk |-> 0]

\* Aggregate, after each turn and after the last.
Aggregated(rs) ==
  LET total[i \in 0..Len(rs)] == IF i = 0 THEN NoResults ELSE FoldResult(total[i - 1], rs[i])
  IN total
Aggregate(rs) == Aggregated(rs)[Len(rs)]

Init ==
  /\ \E n \in 0..MaxBatch, procs \in 1..MaxProcs, parallel \in Parallels :
       \E outcome \in [1..n -> Outcomes] :
         batch = [n |-> n, outcome |-> outcome, workers |-> Workers(n, procs, parallel)]
  /\ main = "spawn"
  /\ spawned = 0
  /\ wg = 0
  /\ next = 1
  /\ closed = FALSE
  /\ work = [w \in WorkerIds |-> Absent]
  /\ results = [i \in 1..batch.n |-> None]
  /\ report = None

-----------------------------------------------------------------------------
\* wg.Add(1) and the go statement: the worker asks for its first job.
Spawn ==
  /\ main = "spawn" /\ spawned < batch.workers
  /\ spawned' = spawned + 1
  /\ wg' = wg + 1
  /\ work' = [work EXCEPT ![spawned + 1] = [pc |-> "receive", job |-> 0]]
  /\ UNCHANGED <<batch, main, next, closed, results, report>>

StartSending ==
  /\ main = "spawn" /\ spawned = batch.workers
  /\ main' = "send"
  /\ UNCHANGED <<batch, spawned, wg, next, closed, work, results, report>>

\* Mutant: every worker is handed the first index.
HandOffAgain(w) ==
  /\ main = "send" /\ next <= batch.n
  /\ work[w].pc = "receive"
  /\ work' = [work EXCEPT ![w] = [pc |-> "load", job |-> 1]]
  /\ next' = next + 1
  /\ UNCHANGED <<batch, main, spawned, wg, closed, results, report>>

\* jobs <- i meets a worker's receive.
HandOff(w) ==
  /\ main = "send" /\ next <= batch.n
  /\ work[w].pc = "receive"
  /\ work' = [work EXCEPT ![w] = [pc |-> "load", job |-> next]]
  /\ next' = next + 1
  /\ UNCHANGED <<batch, main, spawned, wg, closed, results, report>>

Close ==
  /\ main = "send" /\ next > batch.n
  /\ closed' = TRUE
  /\ main' = "wait"
  /\ UNCHANGED <<batch, spawned, wg, next, work, results, report>>

\* Mutant: ScanAll does not wait.
AwaitNobody ==
  /\ main = "wait"
  /\ main' = "aggregate"
  /\ UNCHANGED <<batch, spawned, wg, next, closed, work, results, report>>

\* wg.Wait returns.
Await ==
  /\ main = "wait" /\ wg = 0
  /\ main' = "aggregate"
  /\ UNCHANGED <<batch, spawned, wg, next, closed, work, results, report>>

Return ==
  /\ main = "aggregate"
  /\ report' = Aggregate(results)
  /\ main' = "done"
  /\ UNCHANGED <<batch, spawned, wg, next, closed, work, results>>

Main == Spawn \/ StartSending \/ (\E w \in WorkerIds : HandOff(w)) \/ Close \/ Await \/ Return

-----------------------------------------------------------------------------
\* scanOne, first half: a candidate that cannot be loaded is recorded.
LoadFails(w) ==
  /\ work[w].pc = "load" /\ batch.outcome[work[w].job] = LoadError
  /\ results' = [results EXCEPT ![work[w].job] = LoadError]
  /\ work' = [work EXCEPT ![w] = [pc |-> "receive", job |-> 0]]
  /\ UNCHANGED <<batch, main, spawned, wg, next, closed, report>>

Load(w) ==
  /\ work[w].pc = "load" /\ batch.outcome[work[w].job] # LoadError
  /\ work' = [work EXCEPT ![w].pc = "scan"]
  /\ UNCHANGED <<batch, main, spawned, wg, next, closed, results, report>>

\* Second half: Scan, the write to the slot, and the bundle is dropped.
Record(w) ==
  /\ work[w].pc = "scan"
  /\ results' = [results EXCEPT ![work[w].job] = batch.outcome[work[w].job]]
  /\ work' = [work EXCEPT ![w] = [pc |-> "receive", job |-> 0]]
  /\ UNCHANGED <<batch, main, spawned, wg, next, closed, report>>

\* The range loop ends on the closed channel; the deferred wg.Done.
Exit(w) ==
  /\ work[w].pc = "receive" /\ closed
  /\ work' = [work EXCEPT ![w] = [pc |-> "exited", job |-> 0]]
  /\ wg' = wg - 1
  /\ UNCHANGED <<batch, main, spawned, next, closed, results, report>>

Worker(w) == LoadFails(w) \/ Load(w) \/ Record(w) \/ Exit(w)

Returned == main = "done" /\ UNCHANGED vars

Next == Main \/ (\E w \in WorkerIds : Worker(w)) \/ Returned

\* Goroutines are scheduled fairly, and a load or a scan that has begun ends.
Fairness == WF_vars(Main) /\ \A w \in WorkerIds : WF_vars(Worker(w))

Spec == Init /\ [][Next]_vars /\ Fairness

-----------------------------------------------------------------------------
Busy == {"load", "scan"}

TypeOK ==
  /\ batch.n \in 0..MaxBatch
  /\ batch.outcome \in [1..batch.n -> Outcomes]
  /\ batch.workers \in 0..MaxProcs
  /\ main \in {"spawn", "send", "wait", "aggregate", "done"}
  /\ spawned \in 0..batch.workers
  /\ wg \in 0..MaxProcs
  /\ next \in 1..(batch.n + 1)
  /\ closed \in BOOLEAN
  /\ work \in [WorkerIds -> [pc : {"absent", "receive", "exited"} \cup Busy, job : 0..batch.n]]
  /\ \A w \in WorkerIds : work[w].pc \in Busy => work[w].job \in 1..batch.n
  /\ results \in [1..batch.n -> Outcomes \cup {None}]

Owns(w, i) == work[w].pc \in Busy /\ work[w].job = i

\* Every index that was handed out is either being worked on, by one worker, or
\* recorded with its own outcome; nothing else is. So no two goroutines ever
\* write one slot, which is all that makes the writes without a lock sound.
SlotsAreOwned ==
  \A i \in 1..batch.n :
    /\ \A v, w \in WorkerIds : Owns(v, i) /\ Owns(w, i) => v = w
    /\ \A w \in WorkerIds : Owns(w, i) => i < next
    /\ results[i] # None <=> i < next /\ \A w \in WorkerIds : ~Owns(w, i)
    /\ results[i] # None => results[i] = batch.outcome[i]

\* When ScanAll reads the slots, every one of them holds its candidate's result.
AggregatesAll ==
  main \in {"aggregate", "done"} => results = batch.outcome

\* The report does not depend on the schedule and fails closed: an error fails
\* the batch, and the verdict and the risk are the worst of any bundle.
ReportIsWorst ==
  main = "done" =>
    LET all == {batch.outcome[i] : i \in 1..batch.n}
        bad == {i \in 1..batch.n : batch.outcome[i] = LoadError}
    IN /\ report.errors > 0 <=> bad # {}
       /\ report.errors <= batch.n
       /\ report.verdict = CASE \E r \in all : r.verdict \in {"error", "fail"} -> "fail"
                             [] \A r \in all : r.verdict = "pass" -> "pass"
                             [] OTHER -> "warn"
       /\ \A r \in all : r.risk <= report.risk
       /\ report.risk \in {r.risk : r \in all} \cup {0}

\* ScanAll returns: no worker waits for a job that will not come, and the
\* caller never offers a job that nobody takes -- for no candidates at all and
\* for every value of parallel.
Terminates == <>(main = "done")
=============================================================================
