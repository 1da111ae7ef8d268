---------------------------- MODULE VerdictStore ----------------------------
(***************************************************************************)
(* What guard.Cache promises its callers: a decision that Get returns is   *)
(* the last one stored under that key and not lost since, a Put either     *)
(* happens at one instant or not at all, and entries may be lost at any    *)
(* time ("a broken one should cost time, never correctness"). A store that *)
(* outlives its processes is written back some time after a Put: only a    *)
(* power loss before that brings an earlier decision back.                 *)
(***************************************************************************)
EXTENDS Naturals

CONSTANTS
  Procs,      \* concurrent users of the cache
  Keys,
  Decisions,
  None        \* a miss; no decision

VARIABLES
  store,      \* key -> decision or None
  past,       \* key -> what was stored since the store was last written back
  op,         \* process -> [pc, key, d]: the call in progress and its decision
  losses      \* power losses

storeVars == <<store, past, op, losses>>

Call(pc, k, d) == [pc |-> pc, key |-> k, d |-> d]
Resting == Call("idle", None, None)

StoreInit ==
  /\ store = [k \in Keys |-> None]
  /\ past = [k \in Keys |-> {}]
  /\ op = [p \in Procs |-> Resting]
  /\ losses = 0

\* An entry is stored over another; the other is not forgotten yet.
Overwrite(k, d) ==
  /\ store' = [store EXCEPT ![k] = d]
  /\ past' = [past EXCEPT ![k] = @ \cup {store[k]}]
  /\ UNCHANGED losses

BeginGet(p, k) ==
  /\ op[p].pc = "idle"
  /\ op' = [op EXCEPT ![p] = Call("get", k, None)]
  /\ UNCHANGED <<store, past, losses>>

\* Get answers with what is stored, or misses.
AnswerGet(p) ==
  /\ op[p].pc = "get"
  /\ \E d \in {None, store[op[p].key]} : op' = [op EXCEPT ![p] = Call("got", op[p].key, d)]
  /\ UNCHANGED <<store, past, losses>>

BeginPut(p, k, d) ==
  /\ op[p].pc = "idle"
  /\ op' = [op EXCEPT ![p] = Call("put", k, d)]
  /\ UNCHANGED <<store, past, losses>>

\* Put takes effect at once, or is given up.
DoPut(p) ==
  /\ op[p].pc = "put"
  /\ Overwrite(op[p].key, op[p].d)
  /\ op' = [op EXCEPT ![p].pc = "stored"]

GiveUpPut(p) ==
  /\ op[p].pc = "put"
  /\ op' = [op EXCEPT ![p].pc = "stored"]
  /\ UNCHANGED <<store, past, losses>>

\* The call returns, or its process dies.
EndCall(p) ==
  /\ op' = [op EXCEPT ![p] = Resting]
  /\ UNCHANGED <<store, past, losses>>

\* An entry disappears.
Lose(k) == Overwrite(k, None) /\ UNCHANGED op

\* An entry is written back: what was stored before is forgotten.
WriteBack(k) ==
  /\ past' = [past EXCEPT ![k] = {}]
  /\ UNCHANGED <<store, op, losses>>

\* A power loss ends every call; each entry stays, is lost, or is an earlier
\* one not yet forgotten.
LosePower ==
  /\ store' \in [Keys -> Decisions \cup {None}]
  /\ \A k \in Keys : store'[k] \in {store[k], None} \cup past[k]
  /\ past' = [k \in Keys |-> {}]
  /\ op' = [p \in Procs |-> Resting]
  /\ losses' = losses + 1

StoreNext ==
  \/ \E p \in Procs :
       \/ \E k \in Keys : BeginGet(p, k) \/ \E d \in Decisions : BeginPut(p, k, d)
       \/ AnswerGet(p) \/ DoPut(p) \/ GiveUpPut(p) \/ EndCall(p)
  \/ \E k \in Keys : Lose(k) \/ WriteBack(k)
  \/ LosePower

StoreSpec == StoreInit /\ [][StoreNext]_storeVars
=============================================================================
