----------------------------- MODULE Provenance -----------------------------
(***************************************************************************)
(* The life of one skill on a machine: a publisher signs it (one or both   *)
(* formats, step by step, and may be killed between two writes), others    *)
(* edit it, add a signature, lose or damage a signature file; the consumer *)
(* revokes keys and edits the pinned-root file; time passes. In every      *)
(* state the consumer may ask the gate or run verify (module Gate).        *)
(*                                                                         *)
(* A bundle on disk is its content and the reserved content_hash and       *)
(* signature lines of SKILL.md (its stamp): normalisation drops them from  *)
(* the Merkle root, the raw tree includes them. A reserved line that       *)
(* normalisation keeps (empty, repeated, continued) is content.            *)
(***************************************************************************)
EXTENDS Gate

CONSTANTS
  Contents,     \* what the files say
  Stamps,       \* values of the reserved front-matter lines
  Rewritten,    \* content -> what it is once sign has replaced the reserved lines:
                \* WriteUSFFields drops the ones that normalisation keeps too, and
                \* one that it writes before an indented line is kept from then on
  Signers,      \* roster entries [keyid, material, identity] and outsiders
  Roster,       \* the consumer's entries, a subset of Signers
  IdentityRules,\* trust.identities
  LogKeys,      \* trust.log_keys: [keyid, material]
  Authorities,  \* certificate authorities a pinned-root file may hold
  InlineRoots,  \* the authorities pinned in the policy itself
  Revocable,    \* key ids and identities the consumer may come to revoke
  Ledger,       \* what each log has committed to in the end: a function from
                \* the keys that sign checkpoints to sequences of bodies
  Keyless,      \* the keyless signings that may happen: [place, issuance,
                \* subject, extra, kept]; place is where the log has the
                \* signature, [log, index, size], issuance how the certificate
                \* was issued, [by, rest] with the certificates that follow it,
                \* subject what it binds, [san, issuers], extra other log
                \* entries, kept whether the signature's own entry is kept
  MaxLeaves,    \* bound on the trees of the two properties about MerkleTree
  Formats,      \* the signatures in play: a subset of {"sgmt-1", "key",
                \* "certificate"}; sign always writes sgmt-1
  TTLs,         \* --ttl-days, as it may be given
  MaxTTLDays, Day, DurationBits, \* its bound, clock ticks in a day, width of a duration
  MaxTime       \* bound on the clock

Sequence(x) == x \in Seq({x[i] : i \in DOMAIN x})

\* No one but its owner signs with a log's key, and a log signs only prefixes of
\* what it holds in the end. A pinned key is the key of a log. An entry carries
\* one proof at most.
LogsAppend ==
  /\ {k.material : k \in LogKeys} \subseteq DOMAIN Ledger
  /\ \A l \in DOMAIN Ledger : Sequence(Ledger[l]) /\ \A i \in DOMAIN Ledger[l] : Sequence(Ledger[l][i])
  /\ \A s \in Keyless :
       /\ s.place.log \in DOMAIN Ledger
       /\ s.place.index \in 0..(s.place.size - 1) /\ s.place.size \in 1..Len(Ledger[s.place.log])
       /\ \A e \in s.extra :
            /\ e.time \in Nat /\ Sequence(e.body) /\ \A p, q \in e.proof : p = q
            /\ e.signer \in DOMAIN Ledger => \A c \in e.checkpoint :
                 c.size \in 1..Len(Ledger[e.signer]) /\ c.root = TreeHash(Ledger[e.signer], c.size)

NoStamp == "none"
Bundle == [content : Contents, stamp : Stamps \cup {NoStamp}]
Materials == {k.material : k \in Signers} \cup {Garbage}

\* The envelopes that SKILL.md.skillsig may hold.
Envelopes ==
  [payloadOk : BOOLEAN, sigs : Seq([keyid : {k.keyid : k \in Signers}, by : Materials]),
   root : Contents, expires : Int \cup {NoExpiry, BadExpiry}, scanned : BOOLEAN,
   publisher : {k.identity : k \in Signers}]

\* A signature file cut short by a writer that was killed. ReadEnvelope cannot
\* parse it; the OMS reader hands the bytes on and ParseBundle fails.
TornOms == [json |-> FALSE]

\* Mutant: the manifest lists the normalised SKILL.md.
KeyBoundNormalised(raw, materials) ==
  [json |-> TRUE, material |-> {"publicKey"}, predicate |-> "v1.0", sigs |-> materials,
   raw |-> [raw EXCEPT !.stamp = NoStamp],
   consistent |-> TRUE, certs |-> << >>, entries |-> {}]

KeyBound(raw, materials) ==
  [json |-> TRUE, material |-> {"publicKey"}, predicate |-> "v1.0", sigs |-> materials,
   raw |-> raw, consistent |-> TRUE, certs |-> << >>, entries |-> {}]

ASSUME ProvenanceAssumption ==
  /\ WellFormedRoster([keys |-> Roster])
  /\ Roster \subseteq Signers
  /\ \A k \in Signers : k.material # Garbage
  /\ NoId \notin UNION {r.admits : r \in IdentityRules}

ASSUME RewrittenAssumption == Rewritten \in [Contents -> Contents]

ASSUME LogsAssumption == LogsAppend

ASSUME FilesAssumption ==
  /\ NoRoot \notin Contents
  /\ {Absent, Unreadable} \cap (Envelopes \cup {TornOms}) = {}
  /\ \A b \in Bundle, k \in Signers : KeyBound(b, {k.material}) \notin {Absent, Unreadable}

ASSUME BoundsAssumption ==
  /\ TTLs \subseteq Int /\ MaxTTLDays \in Nat /\ Day \in Nat /\ DurationBits \in Nat \ {0}
  /\ MaxTTLDays * Day < 2 ^ DurationBits \div 2
  /\ MaxTime \in Nat /\ MaxLeaves \in Nat

VARIABLES
  bundle,    \* [content, stamp] on disk
  sgmt,      \* SKILL.md.skillsig
  oms,       \* skill.oms.sig
  revoked,   \* the policy's revocation list
  pool,      \* the authorities in the pinned-root file, or Unreadable
  now,
  pub        \* the sign command in progress

vars == <<bundle, sgmt, oms, revoked, pool, now, pub>>

Loaded(b) == [root |-> b.content, raw |-> b]

\* The trust section under a revocation list.
TrustGiven(rev) ==
  [keys |-> Roster, identities |-> IdentityRules, revoked |-> rev,
   logKeys |-> LogKeys, pinsRoots |-> Authorities \cup InlineRoots # {}]
Trusted == TrustGiven(revoked)

Idle == [pc |-> "idle"]

\* The roots the policy pins: those in the policy, and the file it names.
Pool == CertPool({InlineRoots, pool} \ When(InlineRoots = {}, {InlineRoots}))

\* The entry a log returns for its leaf m when it holds n.
LogEntry(l, m, n, logId, time) ==
  [decodes |-> TRUE, body |-> Ledger[l][m + 1], proof |-> {HonestProof(Ledger[l], m, n)},
   checkpoint |-> {[size |-> n, root |-> TreeHash(Ledger[l], n)]},
   signer |-> l, logId |-> logId, time |-> time]

Init ==
  /\ bundle \in [content : Contents, stamp : {NoStamp}]
  /\ sgmt = Absent
  /\ oms = Absent
  /\ revoked = {}
  /\ pool = Authorities
  /\ now = 0
  /\ pub = Idle

-----------------------------------------------------------------------------
(***************************************************************************)
(* sign: load once, then write each output from that snapshot. os.WriteFile*)
(* truncates before it writes; WriteUSFFields replaces SKILL.md by rename. *)
(***************************************************************************)
\* Mutant: only a validity of no days is refused.
TTLAcceptedAbove(days) == days >= 1

\* Checked before anything is loaded: beyond the bound the duration would wrap.
TTLAccepted(days) == days >= 1 /\ days <= MaxTTLDays

\* A duration is a signed integer of DurationBits bits.
Duration(days) ==
  LET span == 2 ^ DurationBits  bits == (days * Day) % span
  IN IF bits < span \div 2 THEN bits ELSE bits - span

SignLoad(k, withOms, emit, days) ==
  /\ pub = Idle
  /\ TTLAccepted(days)
  /\ Formats # {"certificate"}
  /\ withOms => "key" \in Formats
  /\ emit => Stamps # {}
  /\ pub' = [pc |-> "envelope", loaded |-> bundle, key |-> k,
             withOms |-> withOms, emit |-> emit, ttl |-> days, issued |-> now, expires |-> NoExpiry]
  /\ UNCHANGED <<bundle, sgmt, oms, revoked, pool, now>>

\* BuildStatement fixes the expiry, then the truncating open.
SignOpenEnvelope ==
  /\ pub.pc = "envelope"
  /\ sgmt' = Unreadable
  /\ pub' = [pub EXCEPT !.pc = "write", !.issued = now, !.expires = now + Duration(pub.ttl)]
  /\ UNCHANGED <<bundle, oms, revoked, pool, now>>

SignedEnvelope(k, content, expires) ==
  [payloadOk |-> TRUE, sigs |-> <<[keyid |-> k.keyid, by |-> k.material]>>,
   root |-> content, expires |-> expires, scanned |-> TRUE, publisher |-> k.identity]

SignWriteEnvelope ==
  /\ pub.pc = "write"
  /\ sgmt' = SignedEnvelope(pub.key, pub.loaded.content, pub.expires)
  /\ pub' = [pub EXCEPT !.pc = IF pub.withOms THEN "oms" ELSE IF pub.emit THEN "emit" ELSE "done"]
  /\ UNCHANGED <<bundle, oms, revoked, pool, now>>

SignOpenOms ==
  /\ pub.pc = "oms"
  /\ oms' = TornOms
  /\ pub' = [pub EXCEPT !.pc = "writeoms"]
  /\ UNCHANGED <<bundle, sgmt, revoked, pool, now>>

SignWriteOms ==
  /\ pub.pc = "writeoms"
  /\ oms' = KeyBound(pub.loaded, {pub.key.material})
  /\ pub' = [pub EXCEPT !.pc = IF pub.emit THEN "emit" ELSE "done"]
  /\ UNCHANGED <<bundle, sgmt, revoked, pool, now>>

\* SKILL.md is read again from the disk. Where it cannot be rewritten -- it has no
\* front matter, or the disk is full -- the command ends as if killed here.
SignEmitFields ==
  /\ pub.pc = "emit"
  /\ \E s \in Stamps : bundle' = [content |-> Rewritten[bundle.content], stamp |-> s]
  /\ pub' = [pub EXCEPT !.pc = "done"]
  /\ UNCHANGED <<sgmt, oms, revoked, pool, now>>

SignExit == pub.pc = "done" /\ pub' = Idle /\ UNCHANGED <<bundle, sgmt, oms, revoked, pool, now>>

\* The process dies wherever it stands; its writes stay.
SignKilled ==
  /\ pub.pc \notin {"idle", "done"}
  /\ pub' = Idle
  /\ UNCHANGED <<bundle, sgmt, oms, revoked, pool, now>>

Publish ==
  \/ \E k \in Signers, withOms, emit \in BOOLEAN, days \in TTLs : SignLoad(k, withOms, emit, days)
  \/ SignOpenEnvelope \/ SignWriteEnvelope
  \/ SignOpenOms \/ SignWriteOms
  \/ SignEmitFields \/ SignExit \/ SignKilled

-----------------------------------------------------------------------------
(***************************************************************************)
(* Everyone else. Other tools write multi-signature envelopes, keyless     *)
(* bundles and several log entries; none of them holds another's key.      *)
(***************************************************************************)
Edit ==
  /\ bundle' \in Bundle \ {bundle}
  /\ UNCHANGED <<sgmt, oms, revoked, pool, now, pub>>

CoSign(k) ==
  /\ "sgmt-1" \in Formats
  /\ Readable(sgmt) /\ Len(sgmt.sigs) = 1
  /\ sgmt' = [sgmt EXCEPT !.sigs = Append(@, [keyid |-> k.keyid, by |-> k.material])]
  /\ UNCHANGED <<bundle, oms, revoked, pool, now, pub>>

CoSignOms(k) ==
  /\ "key" \in Formats
  /\ Readable(oms) /\ Parses(oms) /\ SigningMethod(oms) = "key" /\ Cardinality(oms.sigs) = 1
  /\ oms' = [oms EXCEPT !.sigs = @ \cup {k.material}]
  /\ UNCHANGED <<bundle, sgmt, revoked, pool, now, pub>>

\* The payload or its signatures change without the keys: nothing verifies,
\* and the statement now says whatever it says.
DamageEnvelope(ok, c, exp) ==
  /\ "sgmt-1" \in Formats
  /\ Readable(sgmt)
  /\ sgmt' = [sgmt EXCEPT !.payloadOk = ok, !.root = c, !.expires = exp,
                !.sigs = [i \in DOMAIN sgmt.sigs |-> [sgmt.sigs[i] EXCEPT !.by = Garbage]]]
  /\ UNCHANGED <<bundle, oms, revoked, pool, now, pub>>

DamageOms(b, version) ==
  /\ Readable(oms) /\ Parses(oms)
  /\ oms' = [oms EXCEPT !.raw = b, !.sigs = {Garbage}, !.predicate = version]
  /\ UNCHANGED <<bundle, sgmt, revoked, pool, now, pub>>

\* Keyless signing: a short-lived certificate, logged while it is valid; the
\* entry's checkpoint is signed by its log. Further entries may come with it, or
\* replace it.
KeylessCerts(m, s, t) ==
  <<[name |-> NoId, by |-> s.issuance.by, material |-> m, san |-> s.subject.san,
     issuers |-> s.subject.issuers, from |-> t, to |-> t]>> \o s.issuance.rest

OwnEntry(s, t) == LogEntry(s.place.log, s.place.index, s.place.size, NoId, t)

KeylessSign(m, s) ==
  /\ "certificate" \in Formats
  /\ oms' = [json |-> TRUE, material |-> {"certificate"}, predicate |-> "v1.0", sigs |-> {m},
             raw |-> bundle, consistent |-> TRUE, certs |-> KeylessCerts(m, s, now + 1),
             entries |-> s.extra \cup When(s.kept, {OwnEntry(s, now + 1)})]
  /\ UNCHANGED <<bundle, sgmt, revoked, pool, now, pub>>

LoseSignature ==
  /\ \/ sgmt # Absent /\ sgmt' \in {Absent, Unreadable} /\ UNCHANGED oms
     \/ oms # Absent /\ oms' \in {Absent, Unreadable} /\ UNCHANGED sgmt
  /\ UNCHANGED <<bundle, revoked, pool, now, pub>>

Others ==
  \/ Edit \/ LoseSignature
  \/ \E k \in Signers : CoSign(k) \/ CoSignOms(k)
  \/ \E ok \in BOOLEAN, c \in Contents, exp \in {NoExpiry, BadExpiry, MaxTime} :
       DamageEnvelope(ok, c, exp)
  \/ \E b \in Bundle, version \in {"v1.0", "v0.1"} : DamageOms(b, version)
  \/ \E k \in Signers, s \in Keyless : KeylessSign(k.material, s)

-----------------------------------------------------------------------------
Revoke(v) ==
  /\ v \notin revoked
  /\ revoked' = revoked \cup {v}
  /\ UNCHANGED <<bundle, sgmt, oms, pool, now, pub>>

EditRoots ==
  /\ "certificate" \in Formats
  /\ pool' \in ({Unreadable} \cup SUBSET Authorities) \ {pool}
  /\ UNCHANGED <<bundle, sgmt, oms, revoked, now, pub>>

Tick ==
  /\ now < MaxTime
  /\ now' = now + 1
  /\ UNCHANGED <<bundle, sgmt, oms, revoked, pool, pub>>

Next ==
  \/ Publish
  \/ Others
  \/ \E v \in Revocable : Revoke(v)
  \/ EditRoots
  \/ Tick

Spec == Init /\ [][Next]_vars

-----------------------------------------------------------------------------
(***************************************************************************)
(* What the consumer sees now.                                             *)
(***************************************************************************)
SgmtExpired(t) == Readable(sgmt) /\ sgmt.payloadOk /\ Expired(sgmt, t)

\* What the gate makes of the signature files under a revocation list, at a
\* time: all that decide needs from them.
Seen(rev, t) ==
  LET s == SgmtPart(Loaded(bundle), sgmt, TrustGiven(rev), SgmtExpired(t))
      o == OmsPart(Loaded(bundle), oms, TrustGiven(rev), Pool)
  IN [sig |-> SignatureState(s, o), gating |-> Gating(s) \cup Gating(o)]

\* Every policy, scan verdict and mode the gate can be asked with. The verdict
\* "none" (no scan) decides as "pass" does.
Asked == [required : BOOLEAN, warnIfMissing : BOOLEAN,
          verdict : {"none", "warn", "fail"}, mode : {"load", "install"}]
Answer(q, seen) == Decide(q, seen.sig, seen.gating, q.verdict, q.mode)

\* What the gate denies for provenance alone, under the most lenient policy.
Policy(required, warn) == [required |-> required, warnIfMissing |-> warn, trust |-> Trusted]
ProvenanceDenies ==
  GateOutcome(Loaded(bundle), sgmt, oms, Policy(FALSE, FALSE), Pool, SgmtExpired(now),
              "none", "load") = "deny"

Exit(required) == VerifyExit(Loaded(bundle), sgmt, oms, Policy(required, FALSE), Pool, now)
Row(required) == VerifyRow(Loaded(bundle), sgmt, oms, Policy(required, FALSE), Pool, now)
Results ==
  When(Readable(sgmt), {Sgmt1Result(Loaded(bundle), sgmt, Trusted, now)})
  \cup When(Readable(oms), {OmsResult(Loaded(bundle), oms, Trusted, Pool)})

\* What skill.oms.sig may hold when it parses, and what its entries may be.
CertChains ==
  {<< >>} \cup {KeylessCerts(k.material, s, t) : k \in Signers, s \in Keyless, t \in 1..(MaxTime + 1)}
Evidence ==
  {OwnEntry(s, t) : s \in Keyless, t \in 1..(MaxTime + 1)} \cup UNION {s.extra : s \in Keyless}
OmsFiles ==
  [json : {TRUE}, material : {{"publicKey"}, {"certificate"}}, predicate : {"v1.0", "v0.1"},
   sigs : SUBSET Materials, raw : Bundle, consistent : {TRUE}, certs : CertChains,
   entries : SUBSET Evidence]

Signing ==
  [pc : {"envelope", "write", "oms", "writeoms", "emit", "done"}, loaded : Bundle, key : Signers,
   withOms : BOOLEAN, emit : BOOLEAN, ttl : TTLs, issued : 0..MaxTime, expires : Int \cup {NoExpiry}]

TypeOK ==
  /\ bundle \in Bundle
  /\ sgmt \in {Absent, Unreadable} \cup Envelopes
  /\ oms \in {Absent, Unreadable, TornOms} \cup OmsFiles
  /\ revoked \subseteq Revocable
  /\ pool \in {Unreadable} \cup SUBSET Authorities
  /\ now \in 0..MaxTime
  /\ pub \in {Idle} \cup Signing

\* What a sign command that has fixed its expiry has fixed it to.
ExpiryAsAsked ==
  pub # Idle =>
    /\ TTLAccepted(pub.ttl)
    /\ pub.pc # "envelope" => pub.expires = pub.issued + Duration(pub.ttl)

-----------------------------------------------------------------------------
\* Of no state in particular; one is enough to ask in.
AllRootsNameLeaves == RootsNameLeaves(MaxLeaves)
AllProofsHold == ProofsHold(MaxLeaves)

\* Different files give different roots, whatever their number: promoting an
\* odd node (merkle.go:56) confuses no two bundles, as pairing it with itself
\* would, and the level-by-level tree is the one RFC 6962 defines by recursion.
RootNamesItsLeaves == now = 0 => AllRootsNameLeaves

\* For every tree size and every index, the log's own proof is accepted, and
\* whatever is accepted against the root and the size of the log is the leaf the
\* log holds at that index: also where the two parts of the path meet
\* (tlog.go:148).
ProofsAreSound == now = 0 => AllProofsHold

-----------------------------------------------------------------------------
\* Whatever the policy, the mode and the scan say, a bundle beside a readable
\* signature over different content is denied, and verify exits 2: the gate's
\* findings survive the OR that combines two formats (applySignature).
DriftIsDenied ==
  (\/ Readable(sgmt) /\ sgmt.root # bundle.content
   \/ Readable(oms) /\ Parses(oms) /\ oms.raw # bundle)
    => /\ ProvenanceDenies
       /\ Exit(FALSE) = 2

\* A policy that requires an attestation, and install mode whatever the policy,
\* admit a bundle only when a key the consumer lists, has not revoked and admits by identity made a signature
\* over exactly these bytes that is still fresh -- or a pinned authority
\* certified such an identity at a moment the log proves.
Admitted(named, identity, issuer) ==
  /\ revoked \cap (named \ {NoId}) = {}
  /\ \/ IdentityRules = {}
     \/ \E r \in IdentityRules : r.issuer \in {NoId, issuer} /\ identity \in r.admits
KeyAdmitted(k) == Admitted({k.keyid, k.identity}, k.identity, NoId)

BackedBySgmt ==
  /\ Readable(sgmt) /\ sgmt.root = bundle.content
  /\ sgmt.expires \in Int /\ now <= sgmt.expires + Skew
  /\ \E i \in DOMAIN sgmt.sigs, k \in Roster :
       /\ sgmt.sigs[i].keyid = k.keyid /\ sgmt.sigs[i].by = k.material
       /\ KeyAdmitted(k)

BackedByOmsKey ==
  /\ Readable(oms) /\ Parses(oms) /\ SigningMethod(oms) = "key" /\ oms.raw = bundle
  /\ \E k \in Roster : k.material \in oms.sigs /\ KeyAdmitted(k)

\* A log the consumer pins holds the entry's body where the entry says it does.
Logged(e) ==
  \E l \in {k.material : k \in LogKeys} \cap DOMAIN Ledger, p \in e.proof :
    p.index + 1 \in DOMAIN Ledger[l] /\ Ledger[l][p.index + 1] = e.body

BackedByCertificate ==
  /\ Readable(oms) /\ Parses(oms) /\ SigningMethod(oms) = "sigstore" /\ oms.raw = bundle
  /\ pool \notin {Unreadable, {}}
  /\ LET leaf == oms.certs[1]
         named == {CertIdentity(leaf), CertIssuer(leaf)}
     IN /\ leaf.material \in oms.sigs
        /\ CertIdentity(leaf) # NoId
        /\ Admitted(named, CertIdentity(leaf), CertIssuer(leaf))
  /\ \E e \in oms.entries : /\ LogKeys = {} \/ Logged(e)
                            /\ Chains(oms.certs, InlineRoots \cup pool, e.time)

Backed == BackedBySgmt \/ BackedByOmsKey \/ BackedByCertificate

AdmissionIsBacked ==
  \A seen \in {Seen(revoked, now)} :
    (\E q \in Asked : (q.required \/ q.mode = "install") /\ Answer(q, seen) # "deny") => Backed

\* The gate and the verify command agree: leaving attestation.required aside,
\* verify exits 2 exactly when the gate denies for provenance alone.
GateAgreesWithVerify == Exit(FALSE) = 2 <=> ProvenanceDenies

Strictness(outcome) ==
  CASE outcome = "allow" -> 0 [] outcome = "warn" -> 1 [] outcome = "deny" -> 2

\* Revoking a key or an identity, and the passing of time, never make the
\* answer laxer, with several signatures by several keys in the file too.
NeverRelaxes ==
  [][(revoked # revoked' \/ now # now')
       => \A before \in {Seen(revoked, now)}, after \in {Seen(revoked', now')} :
            \A q \in Asked : Strictness(Answer(q, after)) >= Strictness(Answer(q, before))]_vars

\* When sign has finished and nobody has touched its inputs or outputs, the
\* bundle verifies for as many days as were asked for, and loads and installs
\* under every policy, for a consumer who trusts the key -- exactly unless sign's own
\* last step changed what it had signed: --emit-manifest-fields dropped a reserved
\* line that was part of the root (usf.go:64, merkle.go:157), or, with --oms, left
\* other reserved lines in the SKILL.md that the OMS manifest had just covered
\* (commands.go:363). Then verify exits 2 and the gate denies.
SignedBundleVerifies ==
  (/\ pub.pc = "done"
   /\ bundle.content = IF pub.emit THEN Rewritten[pub.loaded.content] ELSE pub.loaded.content
   /\ pub.withOms /\ ~pub.emit => bundle = pub.loaded
   /\ sgmt = SignedEnvelope(pub.key, pub.loaded.content, pub.expires)
   /\ oms = IF pub.withOms THEN KeyBound(pub.loaded, {pub.key.material}) ELSE Absent
   /\ pub.key \in Roster /\ KeyAdmitted(pub.key)
   /\ now <= pub.issued + pub.ttl * Day + Skew)
    => IF pub.emit => /\ Rewritten[pub.loaded.content] = pub.loaded.content
                      /\ pub.withOms => bundle.stamp = pub.loaded.stamp
       THEN /\ \A required \in BOOLEAN : Exit(required) = 0
            /\ \A seen \in {Seen(revoked, now)}, q \in Asked :
                 q.verdict = "none" => Answer(q, seen) = "allow"
       ELSE Exit(FALSE) = 2 /\ ProvenanceDenies

-----------------------------------------------------------------------------
\* A row of the table fails exactly when the single command does, but for two
\* cases in which they differ: an unreadable .skillsig beside an OMS signature
\* fails the row alone, and a required attestation that is absent beside one fails
\* the single command alone.
TableAgreesWithVerify ==
  \A required \in BOOLEAN :
    ~Readable(oms) \/ Readable(sgmt) \/ (sgmt = Absent /\ ~required)
      => (Row(required).failed <=> Exit(required) # 0)
=============================================================================
