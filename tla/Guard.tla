------------------------------- MODULE Guard -------------------------------
(***************************************************************************)
(* guard.Guard with a verdict cache, called by several processes or        *)
(* goroutines while the skill, its signatures, the pinned-root file and    *)
(* the clock change under them.                                            *)
(*                                                                         *)
(* One call loads the bundle, hashes both signature files into the key,    *)
(* looks the key up, and on a miss re-reads each signature file to verify  *)
(* it, bounds the decision in time, scans, decides and stores. Every file  *)
(* read and every reading of the clock is a step of its own, because the   *)
(* world moves between them. Hashes are injective, so a key is the record  *)
(* of what was hashed.                                                     *)
(*                                                                         *)
(* A policy is [required, warnIfMissing, trust, waivers]; a waiver has an  *)
(* expiry (a time, NoExpiry or BadExpiry). A request is the caller's       *)
(* policy and options: [pol, mode, skip, useCache].                        *)
(***************************************************************************)
EXTENDS Gate

CONSTANTS
  Callers,      \* processes that call Guard
  Requests,     \* what they ask
  Contents,     \* what a bundle's files say: its Merkle root
  Stamps,       \* values of the reserved front-matter lines the root leaves out
  Envelopes,    \* states of SKILL.md.skillsig
  OmsFiles,     \* states of skill.oms.sig
  Pools,        \* states of the files trust.roots names
  RuleSets,     \* built-in rule packs, one per released binary
  Starts,       \* what the files and the binary may be at first
  ScanVerdict(_, _, _),  \* bundle, rules, honoured waivers -> "pass" | "warn" | "fail"
  Changes,      \* what may change: a subset of {"content", "stamp", "sgmt",
                \* "oms", "roots", "rules"}
  MidCall,      \* whether signatures may be replaced between a call's two reads
  MaxTime,      \* bound on the clock
  MaxChanges    \* bound on the changes

ASSUME GuardAssumption ==
  /\ MaxTime \in Nat /\ MaxChanges \in Nat
  /\ MidCall \in BOOLEAN
  /\ Starts \subseteq [bundle : [content : Contents, stamp : Stamps], sgmt : Envelopes,
                       oms : OmsFiles, pool : Pools, rules : RuleSets]
  /\ \A e \in Envelopes : Readable(e) /\ e.payloadOk => e.expires \in Nat \cup {NoExpiry, BadExpiry}
  /\ \A q \in Requests : /\ q.skip \in BOOLEAN /\ q.useCache \in BOOLEAN
                          /\ q.mode \in {"load", "install"}
  /\ \A q \in Requests : \A w \in q.pol.waivers : w.expires \in Nat \cup {NoExpiry, BadExpiry}

VARIABLES
  bundle, sgmt, oms, pool, rules,   \* the files on disk and the installed binary
  now,
  cache,     \* the verdict store: a function from keys to decisions
  call,      \* what each caller is doing
  changes    \* how many changes were made; bounds the model, nothing else

world == <<bundle, sgmt, oms, pool, rules>>
vars == <<world, now, cache, call, changes>>

Bundle == [content : Contents, stamp : Stamps]
Loaded(b) == [root |-> b.content, raw |-> b]

-----------------------------------------------------------------------------
\* WaiverForBundle: an expiry that cannot be read is not honoured; a waiver is
\* honoured until the clock has passed its expiry.
Honoured(pol, t) ==
  {w \in pol.waivers : w.expires = NoExpiry \/ (w.expires \in Nat /\ t <= w.expires)}

\* verifyProvenance's third result: the expiry, when a statement was decoded
\* and its expiry parsed, whether or not its signatures hold.
SgmtExpiries(s) == When(Readable(s) /\ s.payloadOk, {s.expires} \ {NoExpiry, BadExpiry})
WaiverExpiries(pol) == {w.expires : w \in pol.waivers} \ {NoExpiry, BadExpiry}

\* validUntil: the earliest instant still ahead at t.
Ahead(s, pol, t) == {e \in SgmtExpiries(s) \cup WaiverExpiries(pol) : e > t}
ValidUntil(s, pol, t) ==
  IF Ahead(s, pol, t) = {} THEN NoExpiry ELSE Earliest(Ahead(s, pol, t))

\* Mutant: entries last.
FreshAlways(d, t) == TRUE

\* fresh.
Fresh(d, t) == d.validUntil # NoExpiry => t < d.validUntil

SgmtExpired(s, t) == Readable(s) /\ s.payloadOk /\ Expired(s, t)

\* The decision about some bytes. Its dependence on the clock is all in the
\* last two arguments; q is a request or a key, which names one.
Judge(q, b, s, o, pl, rls, expired, honoured) ==
  GateOutcome(Loaded(b), s, o, q.pol, pl, expired,
              IF q.skip THEN "none" ELSE ScanVerdict(b, rls, honoured), q.mode)

\* Mutant: the signature files are left out of the key.
KeyUnsigned(q, b, s, o) ==
  [root |-> b.content, skip |-> q.skip, mode |-> q.mode, pol |-> q.pol,
   sgmt |-> Absent, oms |-> Absent]

\* CacheKey and decisionKey: Merkle root, SkipScan, mode, policy (its directory
\* is one in this model), and the bytes of both signature files. The pinned-root
\* file, the rule packs and the reserved lines of SKILL.md are not in it.
Key(q, b, s, o) ==
  [root |-> b.content, skip |-> q.skip, mode |-> q.mode, pol |-> q.pol, sgmt |-> s, oms |-> o]

-----------------------------------------------------------------------------
(***************************************************************************)
(* What a call has read so far, and when it read the clock. A stored       *)
(* decision keeps it as a history field that no step reads.                *)
(***************************************************************************)
Unread == [bundle |-> Absent, rules |-> Absent, sgmt |-> Absent, oms |-> Absent,
           pool |-> Absent, verified |-> 0, bounded |-> 0, scanned |-> 0]

Idle == [pc |-> "idle", q |-> Absent, key |-> Absent, read |-> Unread, answer |-> Absent]

Judged(q, r) ==
  Judge(q, r.bundle, r.sgmt, r.oms, r.pool, r.rules,
        SgmtExpired(r.sgmt, r.verified), Honoured(q.pol, r.scanned))

Decision(q, r) ==
  [outcome |-> Judged(q, r), validUntil |-> ValidUntil(r.sgmt, q.pol, r.bounded), from |-> r]

Init ==
  /\ \E start \in Starts :
       /\ bundle = start.bundle /\ sgmt = start.sgmt /\ oms = start.oms
       /\ pool = start.pool /\ rules = start.rules
  /\ now = 0
  /\ cache = << >>
  /\ call = [p \in Callers |-> Idle]
  /\ changes = 0

-----------------------------------------------------------------------------
\* A call starts and LoadBundle reads the files; the rules are those of the
\* binary the caller runs.
Load(p, q) ==
  /\ call[p].pc = "idle"
  /\ call' = [call EXCEPT ![p] =
       [pc |-> IF q.useCache THEN "hash" ELSE "verify", q |-> q, key |-> Absent,
        read |-> [Unread EXCEPT !.bundle = bundle, !.rules = rules], answer |-> Absent]]
  /\ UNCHANGED <<world, now, cache, changes>>

\* decisionKey.
Hash(p) ==
  /\ call[p].pc = "hash"
  /\ call' = [call EXCEPT ![p].pc = "lookup",
                          ![p].key = Key(call[p].q, call[p].read.bundle, sgmt, oms)]
  /\ UNCHANGED <<world, now, cache, changes>>

\* Cache.Get, and fresh at this moment's clock.
Hit(p) ==
  /\ call[p].pc = "lookup"
  /\ call[p].key \in DOMAIN cache /\ Fresh(cache[call[p].key], now)
  /\ call' = [call EXCEPT ![p].pc = "done", ![p].answer = cache[call[p].key]]
  /\ UNCHANGED <<world, now, cache, changes>>

Miss(p) ==
  /\ call[p].pc = "lookup"
  /\ ~(call[p].key \in DOMAIN cache /\ Fresh(cache[call[p].key], now))
  /\ call' = [call EXCEPT ![p].pc = "verify"]
  /\ UNCHANGED <<world, now, cache, changes>>

\* verifyProvenance, first half: the envelope is read again, and verify.Verify
\* takes the time.
VerifySgmt(p) ==
  /\ call[p].pc = "verify"
  /\ call' = [call EXCEPT ![p].pc = "oms", ![p].read.sgmt = sgmt, ![p].read.verified = now]
  /\ UNCHANGED <<world, now, cache, changes>>

\* Second half: the OMS signature, and the pinned roots that CertPool reads.
VerifyOms(p) ==
  /\ call[p].pc = "oms"
  /\ call' = [call EXCEPT ![p].pc = "bound", ![p].read.oms = oms, ![p].read.pool = pool]
  /\ UNCHANGED <<world, now, cache, changes>>

\* validUntil takes its own time.
Bound(p) ==
  /\ call[p].pc = "bound"
  /\ call' = [call EXCEPT ![p].pc = "scan", ![p].read.bounded = now]
  /\ UNCHANGED <<world, now, cache, changes>>

\* The scan asks the clock about each waiver; then decide.
ScanAndDecide(p) ==
  /\ call[p].pc = "scan"
  /\ LET r == [call[p].read EXCEPT !.scanned = now]
     IN call' = [call EXCEPT ![p] =
          [@ EXCEPT !.pc = IF call[p].q.useCache THEN "put" ELSE "done",
                    !.read = r, !.answer = Decision(call[p].q, r)]]
  /\ UNCHANGED <<world, now, cache, changes>>

\* Mutant: the decision is stored under what is on disk when it is stored.
PutLate(p) ==
  /\ call[p].pc = "put"
  /\ cache' = LET late == Key(call[p].q, bundle, sgmt, oms)
              IN [k \in DOMAIN cache \cup {late} |-> IF k = late THEN call[p].answer ELSE cache[k]]
  /\ call' = [call EXCEPT ![p].pc = "done"]
  /\ UNCHANGED <<world, now, changes>>

\* Cache.Put: the last writer's decision stays.
Put(p) ==
  /\ call[p].pc = "put"
  /\ cache' = [k \in DOMAIN cache \cup {call[p].key} |->
                 IF k = call[p].key THEN call[p].answer ELSE cache[k]]
  /\ call' = [call EXCEPT ![p].pc = "done"]
  /\ UNCHANGED <<world, now, changes>>

Return(p) ==
  /\ call[p].pc = "done"
  /\ call' = [call EXCEPT ![p] = Idle]
  /\ UNCHANGED <<world, now, cache, changes>>

\* The process is killed, with or without having stored anything.
Killed(p) ==
  /\ call[p].pc \notin {"idle", "done"}
  /\ call' = [call EXCEPT ![p] = Idle]
  /\ UNCHANGED <<world, now, cache, changes>>

Caller(p) ==
  \/ \E q \in Requests : Load(p, q)
  \/ Hash(p) \/ Hit(p) \/ Miss(p)
  \/ VerifySgmt(p) \/ VerifyOms(p) \/ Bound(p) \/ ScanAndDecide(p)
  \/ Put(p) \/ Return(p) \/ Killed(p)

-----------------------------------------------------------------------------
\* A signature file replaced between a call's hash and its second reading.
Between(pcs) == \E p \in Callers : call[p].pc \in pcs

Change ==
  /\ changes < MaxChanges
  /\ changes' = changes + 1
  /\ \/ "content" \in Changes /\ \E c \in Contents : bundle' = [bundle EXCEPT !.content = c]
        /\ UNCHANGED <<sgmt, oms, pool, rules>>
     \/ "stamp" \in Changes /\ \E x \in Stamps : bundle' = [bundle EXCEPT !.stamp = x]
        /\ UNCHANGED <<sgmt, oms, pool, rules>>
     \/ "sgmt" \in Changes /\ (MidCall \/ ~Between({"lookup", "verify"}))
        /\ sgmt' \in Envelopes /\ UNCHANGED <<bundle, oms, pool, rules>>
     \/ "oms" \in Changes /\ (MidCall \/ ~Between({"lookup", "verify", "oms"}))
        /\ oms' \in OmsFiles /\ UNCHANGED <<bundle, sgmt, pool, rules>>
     \/ "roots" \in Changes /\ pool' \in Pools /\ UNCHANGED <<bundle, sgmt, oms, rules>>
     \/ "rules" \in Changes /\ rules' \in RuleSets /\ UNCHANGED <<bundle, sgmt, oms, pool>>
  /\ UNCHANGED <<now, cache, call>>

\* An entry is gone: a corrupt file was removed, or the user emptied the cache.
Forget ==
  /\ \E k \in DOMAIN cache : cache' = [x \in DOMAIN cache \ {k} |-> cache[x]]
  /\ UNCHANGED <<world, now, call, changes>>

Tick ==
  /\ now < MaxTime
  /\ now' = now + 1
  /\ UNCHANGED <<world, cache, call, changes>>

Next ==
  \/ \E p \in Callers : Caller(p)
  \/ Change
  \/ Forget
  \/ Tick

Spec == Init /\ [][Next]_vars

-----------------------------------------------------------------------------
Outcomes == {"allow", "warn", "deny"}
Keys == [root : Contents, skip : BOOLEAN, mode : {"load", "install"},
         pol : {q.pol : q \in Requests}, sgmt : Envelopes, oms : OmsFiles]
Readings == [bundle : Bundle \cup {Absent}, rules : RuleSets \cup {Absent},
             sgmt : Envelopes \cup {Absent}, oms : OmsFiles \cup {Absent},
             pool : Pools \cup {Absent}, verified : Nat, bounded : Nat, scanned : Nat]
Decisions == [outcome : Outcomes, validUntil : Nat \cup {NoExpiry}, from : Readings]
PCs == {"idle", "hash", "lookup", "verify", "oms", "bound", "scan", "put", "done"}
Calls == [pc : PCs, q : Requests \cup {Absent}, key : Keys \cup {Absent},
          read : Readings, answer : Decisions \cup {Absent}]

TypeOK ==
  /\ bundle \in Bundle /\ sgmt \in Envelopes /\ oms \in OmsFiles
  /\ pool \in Pools /\ rules \in RuleSets
  /\ now \in 0..MaxTime
  /\ \A k \in DOMAIN cache : k \in Keys /\ cache[k] \in Decisions
  /\ call \in [Callers -> Calls]
  /\ \A p \in Callers :
       /\ call[p].pc # "idle" => call[p].q \in Requests /\ call[p].read.bundle \in Bundle
       /\ call[p].pc \in {"hash", "lookup", "put"} => call[p].q.useCache
       /\ call[p].pc \notin {"idle", "hash"} /\ call[p].q.useCache => call[p].key \in Keys
       /\ call[p].pc = "put" => call[p].answer \in Decisions
  /\ changes \in 0..MaxChanges

\* Every stored decision is the decision its key asks about: same root, policy,
\* mode and scan choice, whichever caller stored it last and whatever changed
\* while it was being made; its validity bound is the one for what it read.
EntryIsForItsKey(k, d) ==
  /\ d.from.bundle.content = k.root
  /\ d.outcome = Judged(k, d.from)
  /\ d.validUntil = ValidUntil(d.from.sgmt, k.pol, d.from.bounded)
  /\ d.from.verified <= d.from.bounded /\ d.from.bounded <= d.from.scanned
  /\ d.from.scanned <= now

EntriesAreForTheirKeys == \A k \in DOMAIN cache : EntryIsForItsKey(k, cache[k])

\* The window in which the bound misses an instant that still matters:
\* validUntil looked after the attestation's expiry while Verify, with its
\* tolerance, still took it as fresh; or it looked at the very instant a waiver
\* expires.
InGrace(k, d) ==
  \/ /\ ~SgmtExpired(d.from.sgmt, d.from.verified)
     /\ \E e \in SgmtExpiries(d.from.sgmt) : e <= d.from.bounded
  \/ \E w \in WaiverExpiries(k.pol) : w = d.from.bounded /\ w = d.from.scanned

\* As long as an entry is served, the clock alone would not change it: deciding
\* now about the same bytes gives the stored outcome (the promise of
\* Decision.ValidUntil), except for decisions made in that window.
EntriesAreTimely ==
  \A k \in DOMAIN cache :
    LET d == cache[k]
        r == d.from
    IN Fresh(d, now) /\ ~InGrace(k, d) =>
         d.outcome = Judge(k, r.bundle, r.sgmt, r.oms, r.pool, r.rules,
                           SgmtExpired(r.sgmt, now), Honoured(k.pol, now))

\* What the cache would answer now for the files on disk, and what a caller
\* without a cache would be told.
Served(q) ==
  LET k == Key(q, bundle, sgmt, oms)
  IN When(k \in DOMAIN cache /\ Fresh(cache[k], now), {cache[k]})
Recomputed(q) ==
  Judge(q, bundle, sgmt, oms, pool, rules, SgmtExpired(sgmt, now), Honoured(q.pol, now))

\* What the key leaves out is as it was when d was decided.
SameBesideKey(d) ==
  d.from.pool = pool /\ d.from.rules = rules /\ d.from.bundle.stamp = bundle.stamp

\* The cache is transparent (CacheHit's comment: "the same bytes under the same
\* policy yield the same answer either way"), whoever stored what and when, as
\* long as what the key leaves out is the same and no signature file is replaced
\* inside a call (MidCall).
ServedAsRecomputed ==
  \A q \in Requests : \A d \in Served(q) :
    SameBesideKey(d) /\ ~InGrace(Key(q, bundle, sgmt, oms), d) => d.outcome = Recomputed(q)

-----------------------------------------------------------------------------
(***************************************************************************)
(* A statement of the repository that the code does not keep; a run of its *)
(* own refutes it.                                                         *)
(***************************************************************************)
\* README.md: "one changed byte is a miss, so a stale allow is impossible";
\* cache.go: "everything a decision depends on is in" the key.
StaleAllowImpossible ==
  \A q \in Requests : \A d \in Served(q) : d.outcome = "allow" => Recomputed(q) = "allow"
=============================================================================
