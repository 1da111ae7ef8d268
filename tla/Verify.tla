------------------------------- MODULE Verify -------------------------------
(***************************************************************************)
(* pkg/verify: what a signature file says about a bundle under a roster.   *)
(*                                                                         *)
(* Cryptography is symbolic: a signature names the key material it was     *)
(* made with over the bytes it is checked against (Garbage when it verifies*)
(* under no key, undecodable base64 included), a digest is the content it  *)
(* names, a certificate names the authority it chains to.                  *)
(*                                                                         *)
(* A bundle b has b.root, its SGMT-1 Merkle root (NoRoot for the empty leaf*)
(* set), and b.raw, the tree of its raw files: the root is taken over the  *)
(* normalised SKILL.md, the OMS manifest over the raw one.                 *)
(*                                                                         *)
(* An SGMT-1 envelope (SKILL.md.skillsig) is a record                      *)
(*   payloadOk  payloadType is attest.PayloadType and the statement decodes*)
(*   sigs       sequence of [keyid, by]                                    *)
(*   root       the signed merkle_root                                     *)
(*   expires    a time, NoExpiry (omitted) or BadExpiry (not RFC3339)      *)
(*   scanned    whether a scan summary was signed                          *)
(*   publisher  the self-asserted identity                                 *)
(* An OMS bundle (skill.oms.sig) is a record                               *)
(*   json       the file is a bundle with an envelope                      *)
(*   material   the kinds of verification material it has, a subset of     *)
(*              {"publicKey", "chain", "certificate"}                      *)
(*   predicate  the statement's predicate type, "v1.0" or another          *)
(*   sigs       the key materials of its decodable signatures (a set)      *)
(*   raw        the tree its manifest lists                                *)
(*   consistent its manifest can be checked and agrees with its subject    *)
(*   certs      its certificates, the leaf first; empty when one does not  *)
(*              decode. Each is [name, by, material, san, issuers, from,   *)
(*              to]; san holds the URI, the e-mail and the DNS name,       *)
(*              issuers the old and the new extension, NoId for none       *)
(*   entries    set of transparency-log entries, see below                 *)
(***************************************************************************)
EXTENDS Trust, MerkleTree, FiniteSets

CONSTANTS
  NoRoot,       \* MerkleRoot of no leaves: "no tree", not a root
  NoExpiry,     \* predicate.expires_at omitted
  BadExpiry,    \* predicate.expires_at not a timestamp
  Garbage,      \* bytes that verify under no key
  Absent,       \* the file does not exist
  Unreadable,   \* the file exists and cannot be read or parsed
  Skew          \* the two-minute tolerance, in clock ticks

ASSUME VerifyAssumption ==
  /\ Skew \in Nat
  /\ NoExpiry \notin Int /\ BadExpiry \notin Int
  /\ Absent # Unreadable

When(cond, S) == IF cond THEN S ELSE {}

-----------------------------------------------------------------------------
\* The fields of verify.Result that any caller reads, before a check has run.
Blank == [present |-> FALSE, valid |-> FALSE, trusted |-> FALSE,
          revoked |-> FALSE, rejected |-> FALSE, expired |-> FALSE,
          match |-> FALSE, certError |-> FALSE, findings |-> {}]

\* verifySignature: a signature verifies under an entry when that entry's key
\* made it. The algorithm comes from the entry, never from the signature.
Verifies(k, by) == by = k.material /\ by # Garbage

\* The standings that the verifying signatures of an SGMT-1 envelope have.
\* The roster is indexed by the signature's keyid, so an unknown id is skipped.
EnvelopeStandings(t, env) ==
  {KeyStanding(t, k) : k \in
     {x \in t.keys : \E i \in DOMAIN env.sigs :
        env.sigs[i].keyid = x.keyid /\ Verifies(x, env.sigs[i].by)}}

\* verifyKeyBound: OMS carries no keyid, so every roster key is tried against
\* every signature.
OmsKeyStandings(t, o) ==
  {KeyStanding(t, k) : k \in {x \in t.keys : \E s \in o.sigs : Verifies(x, s)}}

\* What the signature loop leaves in the result.
Flagged(r, standings) ==
  [r EXCEPT !.valid = standings # {},
            !.trusted = "trusted" \in standings,
            !.revoked = "revoked" \in standings,
            !.rejected = "rejected" \in standings]

\* The switch over the flags, shared by both formats (certError is always
\* FALSE for SGMT-1). Revocation is reported whenever nothing is trusted and
\* it happened; the rejected identity is reported beside it.
SignatureFindings(r, t) ==
  When(~r.valid /\ (r.certError \/ t.keys = {}), {"SG-PRV-005"})
  \cup When(~r.valid /\ ~r.certError /\ t.keys # {}, {"SG-PRV-002"})
  \cup When(r.valid /\ ~r.trusted /\ r.revoked, {"SG-PRV-004"})
  \cup When(r.valid /\ ~r.trusted /\ r.rejected, {"SG-PRV-005"})
  \cup When(r.valid /\ ~r.trusted /\ ~r.revoked /\ ~r.rejected, {"SG-PRV-002"})

\* Mutant: the comparison is turned round.
ExpiredReversed(env, now) ==
  \/ env.expires \in {NoExpiry, BadExpiry}
  \/ env.expires > now + Skew

\* Freshness fails closed: an expiry that cannot be read has passed.
Expired(env, now) ==
  \/ env.expires \in {NoExpiry, BadExpiry}
  \/ now > env.expires + Skew

\* Verify: the result for SKILL.md.skillsig. Expiry enters as an argument so
\* that everything else the result depends on is visibly free of the clock.
Sgmt1ResultGiven(b, env, t, expired) ==
  IF env = Absent THEN [Blank EXCEPT !.findings = {"SG-PRV-001"}]
  ELSE IF ~env.payloadOk
  THEN [Blank EXCEPT !.present = TRUE, !.findings = {"SG-PRV-002"}]
  ELSE LET r == [Flagged(Blank, EnvelopeStandings(t, env)) EXCEPT
                   !.present = TRUE,
                   !.expired = expired,
                   !.match = b.root # NoRoot /\ b.root = env.root]
       IN [r EXCEPT !.findings =
             SignatureFindings(r, t)
             \cup When(r.expired, {"SG-PRV-004"})
             \cup When(~r.match, {"SG-PRV-003"})
             \cup When(~env.scanned, {"SG-PRV-006"})]

Sgmt1Result(b, env, t, now) ==
  Sgmt1ResultGiven(b, env, t,
    env # Absent /\ env.payloadOk /\ Expired(env, now))

-----------------------------------------------------------------------------
(***************************************************************************)
(* The transparency log. An entry is a record                              *)
(*   decodes    its JSON and base64 can be read                            *)
(*   body       the canonicalized body the log hashed into its leaf        *)
(*   proof      {} or {[index, size, root, hashes]}                        *)
(*   checkpoint {} when it does not parse, or {[size, root]}               *)
(*   signer     the key that signed the checkpoint                         *)
(*   logId      the log's key id, NoId for none                            *)
(*   time       integratedTime; 0 when the entry has none                  *)
(* A pinned log key is [keyid, material]; the key id may be left out.      *)
(***************************************************************************)
Included(e) == \E p \in e.proof : VerifyInclusion(e.body, p)

\* Mutant: only the roots are compared.
MatchesProofRoot(e) == \E c \in e.checkpoint, p \in e.proof : c.root = p.root

\* Checkpoint.MatchesProof: the signed tree is the tree of the proof.
MatchesProof(e) ==
  \E c \in e.checkpoint, p \in e.proof : c.size = p.size /\ c.root = p.root

\* A broken proof, or a checkpoint that commits to another tree, ends the loop
\* whichever entry it is in.
Refuted(e) ==
  \/ e.proof # {} /\ ~Included(e)
  \/ e.proof # {} /\ e.checkpoint # {} /\ ~MatchesProof(e)

\* verifyCheckpointSignature: a pinned key with another log's id is passed
\* over, unless either side leaves the id out.
VouchedFor(t, e) ==
  \E k \in t.logKeys :
    /\ k.keyid = NoId \/ e.logId = NoId \/ k.keyid = e.logId
    /\ k.material = e.signer /\ e.signer # Garbage

\* Mutant: a checkpoint counts whoever signed it.
EntryPassesUnpinned(t, e) == Included(e) /\ MatchesProof(e)

\* Nothing an entry says counts before its proof and its checkpoint hold and,
\* when any log key is pinned, a pinned key signed that checkpoint.
EntryPasses(t, e) ==
  Included(e) /\ MatchesProof(e) /\ (t.logKeys = {} \/ VouchedFor(t, e))

\* TlogEntries: there are entries, and every one of them can be read.
TlogEntries(o) == o.entries # {} /\ \A e \in o.entries : e.decodes

\* verifyTransparency's error: the entries cannot all be read, one of them is
\* refuted, none has a proof, or log keys are pinned and none vouches.
LogError(t, o) ==
  \/ ~TlogEntries(o)
  \/ \E e \in o.entries : Refuted(e)
  \/ \A e \in o.entries : e.proof = {}
  \/ t.logKeys # {} /\ \A e \in o.entries : ~EntryPasses(t, e)

\* Mutant: a time counts whether or not its entry passed.
ProvenTimesClaimed(t, o) == {e.time : e \in {x \in o.entries : x.time > 0}}

\* The times a certificate may be anchored on; the earliest is used.
ProvenTimes(t, o) == {e.time : e \in {x \in o.entries : EntryPasses(t, x) /\ x.time > 0}}

Earliest(S) == CHOOSE m \in S : \A x \in S : m <= x

-----------------------------------------------------------------------------
(***************************************************************************)
(* Certificates. CertPool reads the files trust.roots names: the pool is a *)
(* set of authorities, or Unreadable.                                      *)
(***************************************************************************)
\* Mutant: roots that cannot be read are left out.
CertPoolLenient(roots) == UNION (roots \ {Unreadable})

\* CertPool over the contents of the pinned roots, inline or in files: one
\* that cannot be read, or holds no certificate, is an error for all of them.
CertPool(roots) ==
  IF roots \cap {Unreadable, {}} # {} THEN Unreadable ELSE UNION roots

\* CertIdentity: the URI before the e-mail before the DNS name, and the
\* current issuer extension before the original one.
FirstOf(values) ==
  IF values[1] # NoId THEN values[1] ELSE IF values[2] # NoId THEN values[2] ELSE values[3]
CertIdentity(c) == FirstOf(<<c.san.uri, c.san.email, c.san.dns>>)
CertIssuer(c) == FirstOf(<<c.issuers.current, c.issuers.original, NoId>>)

\* leaf.Verify at a time: the leaf, or one intermediate that issued it, was
\* issued by a pooled authority, and each was valid then.
ValidAt(c, when) == when \in c.from .. c.to
Chains(certs, pool, when) ==
  /\ ValidAt(certs[1], when)
  /\ \/ certs[1].by \in pool
     \/ \E i \in 2..Len(certs) :
          certs[i].name = certs[1].by /\ certs[i].by \in pool /\ ValidAt(certs[i], when)

\* verifyCertBound up to the signature itself.
ChainHolds(t, o, pool) ==
  /\ o.certs # << >>
  /\ ~LogError(t, o)
  /\ t.pinsRoots /\ pool # Unreadable
  /\ ProvenTimes(t, o) # {}
  /\ Chains(o.certs, pool, Earliest(ProvenTimes(t, o)))

CertSignatureValid(t, o, pool) ==
  ChainHolds(t, o, pool) /\ o.certs[1].material \in o.sigs \ {Garbage}

\* A certificate without an identity is a CertError with a valid signature.
CertStandings(t, o, pool) ==
  IF CertSignatureValid(t, o, pool) /\ CertIdentity(o.certs[1]) # NoId
  THEN LET id == CertIdentity(o.certs[1])  issuer == CertIssuer(o.certs[1])
       IN {Standing(t, {id, issuer}, id, issuer)}
  ELSE {}

-----------------------------------------------------------------------------
\* SigningMethod: read off the material; a lone certificate needs a log entry.
SigningMethod(o) ==
  CASE "publicKey" \in o.material -> "key"
    [] "publicKey" \notin o.material /\ "chain" \in o.material -> "certificate"
    [] o.material = {"certificate"} /\ o.entries # {} -> "sigstore"
    [] OTHER -> "unknown"

\* ParseBundle, Statement, SignedPAE and Signatures succeed: the bundle has a
\* signature that decodes, a known method, and a statement of version 1.0.
ParseBundle(o) == o.json /\ o.sigs # {} /\ SigningMethod(o) # "unknown"
Parses(o) == ParseBundle(o) /\ o.predicate = "v1.0"

OmsFlags(r, o, t, pool) ==
  IF SigningMethod(o) = "key" THEN Flagged(r, OmsKeyStandings(t, o))
  ELSE LET valid == CertSignatureValid(t, o, pool)
           standings == CertStandings(t, o, pool)
       IN [Flagged(r, standings) EXCEPT !.valid = valid, !.certError = (standings = {})]

\* VerifyOMSAt: the result for skill.oms.sig. OMS attests no scan, so
\* SG-PRV-006 is unconditional.
OmsResult(b, o, t, pool) ==
  IF o = Absent THEN [Blank EXCEPT !.findings = {"SG-PRV-001"}]
  ELSE IF ~Parses(o)
  THEN [Blank EXCEPT !.present = TRUE, !.findings = {"SG-PRV-002"}]
  ELSE LET r == [OmsFlags(Blank, o, t, pool) EXCEPT
                   !.present = TRUE,
                   !.match = o.consistent /\ b.raw = o.raw]
       IN [r EXCEPT !.findings =
             SignatureFindings(r, t)
             \cup When(~r.match, {"SG-PRV-003"})
             \cup {"SG-PRV-006"}]
=============================================================================
