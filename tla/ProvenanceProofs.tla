-------------------------- MODULE ProvenanceProofs --------------------------
(***************************************************************************)
(* What the gate and verify make of a bundle, for every roster, every set  *)
(* of contents, keys, logs and certificates, and every length of a         *)
(* signature's life.                                                       *)
(***************************************************************************)
EXTENDS Provenance, VerifyProofs

-----------------------------------------------------------------------------
(* Two pieces of code, one judgement: of any state, reachable or not. *)

\* Which answer the gate gives for provenance alone.
LEMMA DeniedForProvenance ==
  ProvenanceDenies <=>
    \/ Readable(sgmt) /\ Gating(Sgmt1ResultGiven(Loaded(bundle), sgmt, Trusted, SgmtExpired(now))) # {}
    \/ Readable(oms) /\ Gating(OmsResult(Loaded(bundle), oms, Trusted, Pool)) # {}
<1> DEFINE s == SgmtPart(Loaded(bundle), sgmt, Trusted, SgmtExpired(now))
           o == OmsPart(Loaded(bundle), oms, Trusted, Pool)
<1>1. Gating(Blank) = {}
  BY DEF Gating, Blank
<1>2. ProvenanceDenies <=> Gating(s) \cup Gating(o) # {}
  BY DEF ProvenanceDenies, GateOutcome, Decide, Denies, Warns, Policy
<1>3. /\ ~Readable(sgmt) => s = Blank
      /\ Readable(sgmt) => s = Sgmt1ResultGiven(Loaded(bundle), sgmt, Trusted, SgmtExpired(now))
  BY DEF SgmtPart
<1>4. /\ ~Readable(oms) => o = Blank
      /\ Readable(oms) => o = OmsResult(Loaded(bundle), oms, Trusted, Pool)
  BY DEF OmsPart
<1> HIDE DEF s, o
<1> QED BY <1>1, <1>2, <1>3, <1>4

\* The clock enters both alike.
LEMMA SameResult ==
  Readable(sgmt) => Sgmt1Result(Loaded(bundle), sgmt, Trusted, now)
                      = Sgmt1ResultGiven(Loaded(bundle), sgmt, Trusted, SgmtExpired(now))
<1> SUFFICES ASSUME Readable(sgmt)
             PROVE  (sgmt # Absent /\ sgmt.payloadOk /\ Expired(sgmt, now)) = SgmtExpired(now)
  BY DEF Sgmt1Result
<1> QED BY DEF SgmtExpired, Readable, Expired

\* An attestation that is not there is a finding, but none that gates.
LEMMA AbsentIsHarmless == sgmt = Absent => Gating(Sgmt1Result(Loaded(bundle), sgmt, Trusted, now)) = {}
BY DEF Sgmt1Result, Sgmt1ResultGiven, Gating, GatingIds, Blank

LEMMA FailedWhenOptional ==
  ASSUME NEW r
  PROVE  VerificationFailed(r, Policy(FALSE, FALSE)) <=> Gating(r) # {}
BY DEF VerificationFailed, Policy

LEMMA ExitCodes ==
  /\ Exit(FALSE) \in {0, 2, 3}
  /\ Exit(FALSE) = 2 <=>
       \/ Readable(sgmt) /\ Gating(Sgmt1ResultGiven(Loaded(bundle), sgmt, Trusted, SgmtExpired(now))) # {}
       \/ Readable(oms) /\ Gating(OmsResult(Loaded(bundle), oms, Trusted, Pool)) # {}
<1> DEFINE e == Exit(FALSE)
           G == Gating(Sgmt1Result(Loaded(bundle), sgmt, Trusted, now)) # {}
           H == Gating(Sgmt1ResultGiven(Loaded(bundle), sgmt, Trusted, SgmtExpired(now))) # {}
           O == Gating(OmsResult(Loaded(bundle), oms, Trusted, Pool)) # {}
<1>1. Policy(FALSE, FALSE).trust = Trusted
  BY DEF Policy
<1>2. e = IF sgmt = Unreadable /\ ~Readable(oms) THEN 3
                    ELSE IF (sgmt # Unreadable /\ G) \/ (Readable(oms) /\ O) THEN 2 ELSE 0
  BY <1>1, FailedWhenOptional DEF Exit, VerifyExit
<1>3. sgmt = Absent => ~G
  BY AbsentIsHarmless
<1>4. Readable(sgmt) => G = H
  BY SameResult
<1>5. Readable(sgmt) <=> sgmt \notin {Absent, Unreadable}
  BY DEF Readable
<1> HIDE DEF e, G, H, O
<1>6. e \in {0, 2, 3}
  BY <1>2
<1>7. e = 2 <=> (sgmt # Unreadable \/ Readable(oms)) /\ ((sgmt # Unreadable /\ G) \/ (Readable(oms) /\ O))
  BY <1>2
<1>8. e = 2 <=> (Readable(sgmt) /\ H) \/ (Readable(oms) /\ O)
  BY <1>3, <1>4, <1>5, <1>7
<1> QED BY <1>6, <1>8 DEF e, G, H, O

\* The gate and the verify command judge a bundle's provenance alike, whatever
\* its signature files are and whoever wrote them.
THEOREM GateIsVerify == Spec => []GateAgreesWithVerify
<1>1. GateAgreesWithVerify
  BY DeniedForProvenance, ExitCodes DEF GateAgreesWithVerify
<1> QED BY <1>1, PTL

-----------------------------------------------------------------------------
(* Drift. *)

\* A statement that does not decode, and a root that is not the bundle's, gate.
LEMMA MismatchGates ==
  ASSUME NEW b, NEW env, NEW t, NEW expired \in BOOLEAN, env # Absent, b.root # env.root
  PROVE  Gating(Sgmt1ResultGiven(b, env, t, expired)) # {}
<1>1. CASE env.payloadOk
  BY <1>1, Sgmt1Facts DEF Gating, GatingIds
<1>2. CASE ~env.payloadOk
  BY <1>2 DEF Sgmt1ResultGiven, Blank, Gating, GatingIds
<1> QED BY <1>1, <1>2

LEMMA OmsMismatchGates ==
  ASSUME NEW b, NEW o, NEW t, NEW p, o # Absent, Parses(o), b.raw # o.raw
  PROVE  Gating(OmsResult(b, o, t, p)) # {}
BY OmsFacts DEF Gating, GatingIds

\* It holds of any two files, not only of those that were ever signed.
LEMMA DriftShows == DriftIsDenied
<1> SUFFICES ASSUME \/ Readable(sgmt) /\ sgmt.root # bundle.content
                    \/ Readable(oms) /\ Parses(oms) /\ oms.raw # bundle
             PROVE  ProvenanceDenies /\ Exit(FALSE) = 2
  BY DEF DriftIsDenied
<1>1. Loaded(bundle).root = bundle.content /\ Loaded(bundle).raw = bundle
  BY DEF Loaded
<1>2. SgmtExpired(now) \in BOOLEAN
  BY DEF SgmtExpired
<1>3. CASE Readable(sgmt) /\ sgmt.root # bundle.content
  <2>1. sgmt # Absent
    BY <1>3 DEF Readable
  <2> QED BY <1>1, <1>2, <1>3, <2>1, MismatchGates, DeniedForProvenance, ExitCodes
<1>4. CASE Readable(oms) /\ Parses(oms) /\ oms.raw # bundle
  <2>1. oms # Absent
    BY <1>4 DEF Readable
  <2> QED BY <1>1, <1>4, <2>1, OmsMismatchGates, DeniedForProvenance, ExitCodes
<1> QED BY <1>3, <1>4

\* The files of a bundle differ from what a readable signature covers: the gate
\* denies and verify exits 2, under every roster and whatever the other format
\* says.
THEOREM DriftDenied == Spec => []DriftIsDenied
BY DriftShows, PTL

-----------------------------------------------------------------------------
(* One bundle and many. *)

\* A row of the table fails exactly when the command for one bundle would, but
\* for the two cases TableAgreesWithVerify names.
THEOREM TableIsVerify == Spec => []TableAgreesWithVerify
<1>1. TableAgreesWithVerify
  <2> SUFFICES ASSUME NEW required \in BOOLEAN,
                      ~Readable(oms) \/ Readable(sgmt) \/ (sgmt = Absent /\ ~required)
               PROVE  Row(required).failed <=> Exit(required) # 0
    BY DEF TableAgreesWithVerify
  <2> DEFINE pol == Policy(required, FALSE)
             S == Sgmt1Result(Loaded(bundle), sgmt, Trusted, now)
             O == OmsResult(Loaded(bundle), oms, Trusted, Pool)
             x == Exit(required)
  <2>1. pol.trust = Trusted /\ pol.required = required
    BY DEF Policy
  <2>2. x = IF sgmt = Unreadable /\ ~Readable(oms) THEN 3
            ELSE IF \/ sgmt # Unreadable /\ VerificationFailed(S, pol)
                    \/ Readable(oms) /\ VerificationFailed(O, pol) THEN 2 ELSE 0
    BY <2>1 DEF Exit, VerifyExit
  <2>3. x # 0 <=> \/ sgmt = Unreadable /\ ~Readable(oms)
                  \/ sgmt # Unreadable /\ VerificationFailed(S, pol)
                  \/ Readable(oms) /\ VerificationFailed(O, pol)
    <3> HIDE DEF x, S, O, pol
    <3> QED BY <2>2
  <2>4. sgmt = Absent => (VerificationFailed(S, pol) <=> required)
    <3>1. ASSUME sgmt = Absent PROVE ~S.present
      BY <3>1 DEF Sgmt1Result, Sgmt1ResultGiven, Blank
    <3> QED BY <2>1, <3>1, AbsentIsHarmless DEF VerificationFailed
  <2>5. Row(required).failed <=>
          IF sgmt = Unreadable THEN TRUE
          ELSE IF ~Readable(sgmt) /\ ~Readable(oms) THEN required
          ELSE \/ Readable(sgmt) /\ VerificationFailed(S, pol)
               \/ Readable(oms) /\ VerificationFailed(O, pol)
    <3> DEFINE results == When(Readable(sgmt), {S}) \cup When(Readable(oms), {O})
               worst == WorstState({StateOf(r) : r \in results} \cup {"verified"})
    <3>1. Row(required) = IF sgmt = Unreadable THEN [state |-> "invalid", failed |-> TRUE]
                          ELSE IF results = {} THEN [state |-> "unsigned", failed |-> required]
                          ELSE [state |-> worst, failed |-> \E r \in results : VerificationFailed(r, pol)]
      BY <2>1 DEF Row, VerifyRow
    <3>2. results = {} <=> ~Readable(sgmt) /\ ~Readable(oms)
      BY DEF When
    <3>3. (\E r \in results : VerificationFailed(r, pol)) <=>
            (Readable(sgmt) /\ VerificationFailed(S, pol)) \/ (Readable(oms) /\ VerificationFailed(O, pol))
      BY DEF When
    <3> HIDE DEF results, worst, S, O, pol
    <3> QED BY <3>1, <3>2, <3>3
  <2>6. Readable(sgmt) <=> sgmt \notin {Absent, Unreadable}
    BY DEF Readable
  <2> DEFINE failed == Row(required).failed
             SFails == VerificationFailed(S, pol)
             OFails == VerificationFailed(O, pol)
             one == Readable(sgmt)
             other == Readable(oms)
  <2>7. failed <=> x # 0
    <3>1. sgmt = Unreadable => sgmt # Absent /\ ~one
      BY <2>6, VerifyAssumption
    <3> HIDE DEF x, failed, SFails, OFails, one, other
    <3> QED BY <2>3, <2>4, <2>5, <2>6, <3>1 DEF failed, SFails, OFails, one, other
  <2> QED BY <2>7
<1> QED BY <1>1, PTL

-----------------------------------------------------------------------------
(* The validity of a signature. *)

LEMMA Remainders ==
  ASSUME NEW x \in Int, NEW span \in Nat, span > 0
  PROVE  x % span \in 0..(span - 1) /\ (0 <= x /\ x < span => x % span = x)
OBVIOUS

LEMMA DurationIsInt ==
  ASSUME NEW days \in Int
  PROVE  Duration(days) \in Int
<1> DEFINE span == 2 ^ DurationBits
           x == days * Day
<1>1. span \in Nat /\ span > 0
  BY PowerOfTwo, BoundsAssumption
<1>2. x \in Int
  BY BoundsAssumption
<1>3. Duration(days) = IF x % span < span \div 2 THEN x % span ELSE (x % span) - span
  BY DEF Duration
<1> HIDE DEF x, span
<1>4. x % span \in Int
  BY <1>1, <1>2, Remainders
<1> QED BY <1>1, <1>3, <1>4

\* The bound on --ttl-days keeps the duration from wrapping: the statement
\* expires as many days after it was issued as were asked for.
LEMMA DurationIsAsked ==
  ASSUME NEW days \in Int, TTLAccepted(days)
  PROVE  Duration(days) = days * Day
<1> DEFINE span == 2 ^ DurationBits
           x == days * Day
<1>1. span \in Nat /\ span > 0
  BY PowerOfTwo, BoundsAssumption
<1>2. x \in Int /\ 0 <= x
  BY BoundsAssumption DEF TTLAccepted
<1>3. x <= MaxTTLDays * Day
  <2>1. ASSUME NEW i \in Nat, NEW j \in Nat, NEW k \in Nat, i <= j PROVE i * k <= j * k
    BY <2>1
  <2> QED BY <2>1, BoundsAssumption DEF TTLAccepted
<1>4. MaxTTLDays * Day < span \div 2 /\ MaxTTLDays * Day \in Int
  BY BoundsAssumption
<1>5. Duration(days) = IF x % span < span \div 2 THEN x % span ELSE (x % span) - span
  BY DEF Duration
<1> DEFINE most == MaxTTLDays * Day
<1> HIDE DEF x, span, most
<1>6. x < span \div 2 /\ x < span
  BY <1>1, <1>2, <1>3, <1>4 DEF most
<1>7. x % span = x
  BY <1>1, <1>2, <1>6, Remainders
<1>8. Duration(days) = x
  BY <1>5, <1>6, <1>7
<1> QED BY <1>8 DEF x

-----------------------------------------------------------------------------
(* The inductive invariant: what the files and the sign command may hold. *)

Inv == TypeOK /\ ExpiryAsAsked

LEMMA InitInv == Init => Inv
<1> SUFFICES ASSUME Init PROVE Inv
  OBVIOUS
<1>1. bundle \in Bundle
  BY DEF Init, Bundle
<1>2. now \in 0..MaxTime
  BY BoundsAssumption DEF Init
<1> QED BY <1>1, <1>2 DEF Inv, TypeOK, ExpiryAsAsked, Init

LEMMA PublishInv == Inv /\ Publish => Inv'
<1> SUFFICES ASSUME Inv, Publish PROVE Inv'
  OBVIOUS
<1> USE DEF Inv, TypeOK
<1>1. ASSUME NEW k \in Signers, NEW withOms \in BOOLEAN, NEW emit \in BOOLEAN, NEW days \in TTLs,
             SignLoad(k, withOms, emit, days)
      PROVE  Inv'
  <2>1. pub' \in Signing
    BY <1>1, BoundsAssumption DEF SignLoad, Signing
  <2>2. pub'.pc = "envelope" /\ TTLAccepted(pub'.ttl)
    BY <1>1 DEF SignLoad
  <2> QED BY <1>1, <2>1, <2>2 DEF SignLoad, ExpiryAsAsked
<1> DEFINE busy == pub \in Signing
<1>2. pub # Idle => busy
  OBVIOUS
<1>3. pub.pc # "idle" => pub # Idle
  BY DEF Idle
<1>4. CASE SignOpenEnvelope
  <2>1. busy
    BY <1>2, <1>3, <1>4 DEF SignOpenEnvelope
  <2>2. now + Duration(pub.ttl) \in Int
    <3>1. pub.ttl \in Int
      BY <2>1, BoundsAssumption DEF Signing
    <3>2. Duration(pub.ttl) \in Int
      BY <3>1, DurationIsInt
    <3> QED BY <3>2, BoundsAssumption
  <2>3. pub' \in Signing
    BY <1>4, <2>1, <2>2 DEF SignOpenEnvelope, Signing
  <2>4. pub'.issued = now /\ pub'.expires = now + Duration(pub.ttl) /\ pub'.ttl = pub.ttl
    BY <1>4, <2>1 DEF SignOpenEnvelope, Signing
  <2>5. TTLAccepted(pub.ttl)
    BY <1>3, <1>4 DEF SignOpenEnvelope, ExpiryAsAsked
  <2> QED BY <1>4, <2>3, <2>4, <2>5 DEF SignOpenEnvelope, ExpiryAsAsked
<1>5. ASSUME NEW next, busy, pub.pc # "envelope", pub.pc # "idle",
             next \in {"oms", "writeoms", "emit", "done"}, pub' = [pub EXCEPT !.pc = next]
      PROVE  pub' \in Signing /\ ExpiryAsAsked'
  <2>1. pub' \in Signing
    BY <1>5 DEF Signing
  <2>2. pub'.ttl = pub.ttl /\ pub'.expires = pub.expires /\ pub'.issued = pub.issued
    BY <1>5 DEF Signing
  <2> QED BY <1>3, <1>5, <2>1, <2>2 DEF ExpiryAsAsked
<1>6. CASE SignWriteEnvelope
  <2>1. busy
    BY <1>2, <1>3, <1>6 DEF SignWriteEnvelope
  <2>2. sgmt' \in Envelopes
    BY <1>6, <2>1 DEF SignWriteEnvelope, SignedEnvelope, Envelopes, Signing, Bundle, Materials
  <2> DEFINE next == IF pub.withOms THEN "oms" ELSE IF pub.emit THEN "emit" ELSE "done"
  <2>3. pub' = [pub EXCEPT !.pc = next] /\ next \in {"oms", "writeoms", "emit", "done"}
    BY <1>6 DEF SignWriteEnvelope
  <2> HIDE DEF next
  <2>4. pub' \in Signing /\ ExpiryAsAsked'
    BY <1>5, <1>6, <2>1, <2>3 DEF SignWriteEnvelope
  <2> QED BY <1>6, <2>2, <2>4 DEF SignWriteEnvelope
<1>7. CASE SignOpenOms
  <2>1. pub' \in Signing /\ ExpiryAsAsked'
    BY <1>2, <1>3, <1>5, <1>7 DEF SignOpenOms
  <2> QED BY <1>7, <2>1 DEF SignOpenOms
<1>8. CASE SignWriteOms
  <2>1. busy
    BY <1>2, <1>3, <1>8 DEF SignWriteOms
  <2>2. oms' \in OmsFiles
    BY <1>8, <2>1 DEF SignWriteOms, KeyBound, OmsFiles, Signing, Materials, CertChains
  <2> DEFINE next == IF pub.emit THEN "emit" ELSE "done"
  <2>3. pub' = [pub EXCEPT !.pc = next] /\ next \in {"oms", "writeoms", "emit", "done"}
    BY <1>8 DEF SignWriteOms
  <2> HIDE DEF next
  <2>4. pub' \in Signing /\ ExpiryAsAsked'
    BY <1>5, <1>8, <2>1, <2>3 DEF SignWriteOms
  <2> QED BY <1>8, <2>2, <2>4 DEF SignWriteOms
<1>9. CASE SignEmitFields
  <2>1. bundle' \in Bundle
    BY <1>9, RewrittenAssumption DEF SignEmitFields, Bundle
  <2>2. pub' \in Signing /\ ExpiryAsAsked'
    BY <1>2, <1>3, <1>5, <1>9 DEF SignEmitFields
  <2> QED BY <1>9, <2>1, <2>2 DEF SignEmitFields
<1>10. CASE SignExit
  BY <1>10 DEF SignExit, ExpiryAsAsked
<1>11. CASE SignKilled
  BY <1>11 DEF SignKilled, ExpiryAsAsked
<1> QED BY <1>1, <1>4, <1>6, <1>7, <1>8, <1>9, <1>10, <1>11 DEF Publish

LEMMA OthersInv == Inv /\ Others => Inv'
<1> SUFFICES ASSUME Inv, Others PROVE Inv'
  OBVIOUS
<1>1. pub' = pub => ExpiryAsAsked'
  BY DEF Inv, ExpiryAsAsked
<1> USE DEF Inv, TypeOK
<1>2. CASE Edit
  BY <1>1, <1>2 DEF Edit
<1>3. CASE LoseSignature
  BY <1>1, <1>3 DEF LoseSignature
<1>4. ASSUME NEW k \in Signers, CoSign(k)
      PROVE  Inv'
  <2>1. sgmt \in Envelopes
    BY <1>4 DEF CoSign, Readable
  <2> DEFINE one == [keyid |-> k.keyid, by |-> k.material]
             Sig == [keyid : {x.keyid : x \in Signers}, by : Materials]
  <2>2. one \in Sig
    BY DEF Materials
  <2>3. sgmt.sigs \in Seq(Sig) /\ sgmt' = [sgmt EXCEPT !.sigs = Append(sgmt.sigs, one)]
    BY <1>4, <2>1 DEF CoSign, Envelopes
  <2> HIDE DEF one, Sig
  <2>4. Append(sgmt.sigs, one) \in Seq(Sig)
    BY <2>2, <2>3
  <2>5. sgmt' \in Envelopes
    BY <2>1, <2>3, <2>4 DEF Envelopes, Sig
  <2> QED BY <1>1, <1>4, <2>5 DEF CoSign
<1>5. ASSUME NEW k \in Signers, CoSignOms(k)
      PROVE  Inv'
  <2>1. oms \in OmsFiles
    BY <1>5 DEF CoSignOms, Readable, TornOms, Parses, ParseBundle
  <2>2. oms' \in OmsFiles
    BY <1>5, <2>1 DEF CoSignOms, OmsFiles, Materials
  <2> QED BY <1>1, <1>5, <2>2 DEF CoSignOms
<1>6. ASSUME NEW ok \in BOOLEAN, NEW c \in Contents, NEW exp \in {NoExpiry, BadExpiry, MaxTime},
             DamageEnvelope(ok, c, exp)
      PROVE  Inv'
  <2>1. sgmt \in Envelopes
    BY <1>6 DEF DamageEnvelope, Readable
  <2> DEFINE Sig == [keyid : {x.keyid : x \in Signers}, by : Materials]
             spoilt == [i \in DOMAIN sgmt.sigs |-> [sgmt.sigs[i] EXCEPT !.by = Garbage]]
  <2>2. spoilt \in Seq(Sig)
    <3>1. sgmt.sigs \in Seq(Sig)
      BY <2>1 DEF Envelopes
    <3>2. ASSUME NEW i \in DOMAIN sgmt.sigs PROVE [sgmt.sigs[i] EXCEPT !.by = Garbage] \in Sig
      <4>1. sgmt.sigs[i] \in Sig
        <5> HIDE DEF Sig
        <5> QED BY <3>1
      <4>2. Garbage \in Materials
        BY DEF Materials
      <4> QED BY <4>1, <4>2
    <3>3. DOMAIN sgmt.sigs = 1..Len(sgmt.sigs) /\ Len(sgmt.sigs) \in Nat
      BY <3>1
    <3> HIDE DEF Sig
    <3> QED BY <3>2, <3>3
  <2>3. sgmt' = [sgmt EXCEPT !.payloadOk = ok, !.root = c, !.expires = exp, !.sigs = spoilt]
    BY <1>6 DEF DamageEnvelope
  <2>4. exp \in Int \cup {NoExpiry, BadExpiry}
    <3>1. MaxTime \in Int
      BY BoundsAssumption
    <3> QED BY <3>1
  <2> HIDE DEF spoilt
  <2>5. sgmt' \in Envelopes
    BY <2>1, <2>2, <2>3, <2>4 DEF Envelopes
  <2> QED BY <1>1, <1>6, <2>5 DEF DamageEnvelope
<1>7. ASSUME NEW b \in Bundle, NEW version \in {"v1.0", "v0.1"}, DamageOms(b, version)
      PROVE  Inv'
  <2>1. oms \in OmsFiles
    BY <1>7 DEF DamageOms, Readable, TornOms, Parses, ParseBundle
  <2>2. oms' \in OmsFiles
    BY <1>7, <2>1 DEF DamageOms, OmsFiles, Materials
  <2> QED BY <1>1, <1>7, <2>2 DEF DamageOms
<1>8. ASSUME NEW k \in Signers, NEW s \in Keyless, KeylessSign(k.material, s)
      PROVE  Inv'
  <2>1. now + 1 \in 1..(MaxTime + 1)
    BY BoundsAssumption
  <2>2. KeylessCerts(k.material, s, now + 1) \in CertChains
    BY <2>1 DEF CertChains
  <2>3. s.extra \cup When(s.kept, {OwnEntry(s, now + 1)}) \subseteq Evidence
    <3>1. s.extra \subseteq Evidence
      BY DEF Evidence
    <3>2. OwnEntry(s, now + 1) \in Evidence
      BY <2>1 DEF Evidence
    <3>3. When(s.kept, {OwnEntry(s, now + 1)}) \subseteq {OwnEntry(s, now + 1)}
      BY DEF When
    <3> QED BY <3>1, <3>2, <3>3
  <2> DEFINE entries == s.extra \cup When(s.kept, {OwnEntry(s, now + 1)})
             certs == KeylessCerts(k.material, s, now + 1)
  <2>4. oms' = [json |-> TRUE, material |-> {"certificate"}, predicate |-> "v1.0", sigs |-> {k.material},
                raw |-> bundle, consistent |-> TRUE, certs |-> certs, entries |-> entries]
    BY <1>8 DEF KeylessSign
  <2>5. {k.material} \subseteq Materials
    BY DEF Materials
  <2> HIDE DEF entries, certs
  <2>6. oms' \in OmsFiles
    BY <2>2, <2>3, <2>4, <2>5 DEF OmsFiles, entries, certs
  <2> QED BY <1>1, <1>8, <2>6 DEF KeylessSign
<1> QED BY <1>2, <1>3, <1>4, <1>5, <1>6, <1>7, <1>8 DEF Others

\* The files and the sign command keep their shape, and a signature's expiry is
\* what was asked for, whoever writes and whenever the signer is killed.
THEOREM TypeCorrect == Spec => []Inv
<1>1. Inv /\ [Next]_vars => Inv'
  <2> SUFFICES ASSUME Inv, [Next]_vars PROVE Inv'
    OBVIOUS
  <2>1. CASE Publish
    BY <2>1, PublishInv
  <2>2. CASE Others
    BY <2>2, OthersInv
  <2>3. ASSUME NEW v \in Revocable, Revoke(v)
        PROVE  Inv'
    BY <2>3 DEF Inv, TypeOK, ExpiryAsAsked, Revoke
  <2>4. CASE EditRoots
    <3>1. pool' \in {Unreadable} \cup SUBSET Authorities
      BY <2>4 DEF EditRoots
    <3> QED BY <2>4, <3>1 DEF Inv, TypeOK, ExpiryAsAsked, EditRoots
  <2>5. CASE Tick
    <3>1. now' \in 0..MaxTime
      BY <2>5, BoundsAssumption DEF Inv, TypeOK, Tick
    <3> QED BY <2>5, <3>1 DEF Inv, TypeOK, ExpiryAsAsked, Tick
  <2>6. CASE UNCHANGED vars
    BY <2>6 DEF Inv, TypeOK, ExpiryAsAsked, vars
  <2> QED BY <2>1, <2>2, <2>3, <2>4, <2>5, <2>6 DEF Next
<1> QED BY <1>1, InitInv, PTL DEF Spec

-----------------------------------------------------------------------------
(* Keys, certificates and the roster. *)

LEMMA TrustedIsAdmitted ==
  ASSUME NEW named, NEW identity, NEW issuer
  PROVE  /\ Standing(Trusted, named, identity, issuer) \in {"revoked", "rejected", "trusted"}
         /\ Standing(Trusted, named, identity, issuer) = "trusted" <=> Admitted(named, identity, issuer)
<1> DEFINE R == Revokes(Trusted, named)
           A == Allows(Trusted, identity, issuer)
           x == Standing(Trusted, named, identity, issuer)
<1>1. x = CASE R -> "revoked" [] ~R /\ ~A -> "rejected" [] OTHER -> "trusted"
  BY DEF Standing
<1>2. R <=> ~(revoked \cap (named \ {NoId}) = {})
  BY DEF Revokes, Trusted, TrustGiven
<1>3. A <=> \/ IdentityRules = {}
            \/ \E r \in IdentityRules : r.issuer \in {NoId, issuer} /\ identity \in r.admits
  BY DEF Allows, Trusted, TrustGiven
<1>4. Admitted(named, identity, issuer) <=> ~R /\ A
  BY <1>2, <1>3 DEF Admitted
<1> HIDE DEF R, A, x
<1>5. x \in {"revoked", "rejected", "trusted"} /\ (x = "trusted" <=> ~R /\ A)
  BY <1>1
<1> QED BY <1>4, <1>5 DEF x

LEMMA TrustedKeyIsAdmitted ==
  ASSUME NEW k
  PROVE  KeyStanding(Trusted, k) = "trusted" <=> KeyAdmitted(k)
BY TrustedIsAdmitted DEF KeyStanding, KeyAdmitted

\* A signature over the bundle's own root, by a key the consumer lists and
\* admits, that has not expired: trusted, and nothing gates.
LEMMA SignedEnvelopeTrusted ==
  ASSUME NEW k \in Roster, KeyAdmitted(k), NEW b, b.root # NoRoot, NEW expires,
         SignedEnvelope(k, b.root, expires) # Absent
  PROVE  LET r == Sgmt1ResultGiven(b, SignedEnvelope(k, b.root, expires), Trusted, FALSE)
         IN r.present = TRUE /\ r.trusted = TRUE /\ Gating(r) = {}
<1> DEFINE env == SignedEnvelope(k, b.root, expires)
           r == Sgmt1ResultGiven(b, env, Trusted, FALSE)
           S == EnvelopeStandings(Trusted, env)
<1>1. env.payloadOk /\ env.root = b.root /\ env.sigs = <<[keyid |-> k.keyid, by |-> k.material]>>
  BY DEF SignedEnvelope
<1>2. k \in Trusted.keys /\ Verifies(k, k.material)
  BY ProvenanceAssumption DEF Trusted, TrustGiven, Verifies
<1>3. KeyStanding(Trusted, k) \in S
  <2>1. 1 \in DOMAIN env.sigs /\ env.sigs[1].keyid = k.keyid /\ env.sigs[1].by = k.material
    BY <1>1
  <2> HIDE DEF env
  <2> QED BY <1>2, <2>1 DEF EnvelopeStandings
<1>4. "trusted" \in S
  BY <1>3, TrustedKeyIsAdmitted
<1>5. env # Absent
  OBVIOUS
<1> HIDE DEF env, S
<1>6. /\ r.present = TRUE /\ r.trusted = TRUE
      /\ "SG-PRV-002" \notin r.findings /\ "SG-PRV-003" \notin r.findings /\ "SG-PRV-004" \notin r.findings
  BY <1>1, <1>4, <1>5, Sgmt1Facts DEF S
<1> QED BY <1>6 DEF Gating, GatingIds, env

\* The OMS bundle sign writes beside it.
LEMMA KeyBoundTrusted ==
  ASSUME NEW k \in Roster, KeyAdmitted(k), NEW b, NEW p, KeyBound(b.raw, {k.material}) # Absent
  PROVE  LET r == OmsResult(b, KeyBound(b.raw, {k.material}), Trusted, p)
         IN r.present = TRUE /\ r.trusted = TRUE /\ Gating(r) = {}
<1> DEFINE o == KeyBound(b.raw, {k.material})
           r == OmsResult(b, o, Trusted, p)
           S == OmsStandings(Trusted, o, p)
<1>1. /\ o.json = TRUE /\ o.material = {"publicKey"} /\ o.predicate = "v1.0" /\ o.sigs = {k.material}
      /\ o.raw = b.raw /\ o.consistent = TRUE
  BY DEF KeyBound
<1>2. o # Absent
  OBVIOUS
<1> HIDE DEF o
<1>3. SigningMethod(o) = "key" /\ Parses(o)
  BY <1>1 DEF SigningMethod, Parses, ParseBundle
<1>4. k \in Trusted.keys /\ Verifies(k, k.material)
  BY ProvenanceAssumption DEF Trusted, TrustGiven, Verifies
<1>5. KeyStanding(Trusted, k) \in OmsKeyStandings(Trusted, o)
  BY <1>1, <1>4 DEF OmsKeyStandings
<1>6. "trusted" \in S /\ OmsValid(Trusted, o, p)
  BY <1>3, <1>5, TrustedKeyIsAdmitted DEF OmsStandings, OmsValid
<1> HIDE DEF S
<1>7. /\ r.present = TRUE /\ r.trusted = TRUE
      /\ "SG-PRV-002" \notin r.findings /\ "SG-PRV-003" \notin r.findings /\ "SG-PRV-004" \notin r.findings
  BY <1>1, <1>2, <1>3, <1>6, OmsFacts DEF S
<1> QED BY <1>7 DEF Gating, GatingIds, o

LEMMA SigningNumbers ==
  ASSUME NEW p \in Signing
  PROVE  p.ttl \in Int /\ p.issued \in Int
<1>1. p.ttl \in TTLs /\ p.issued \in 0..MaxTime
  BY DEF Signing
<1>2. p.ttl \in Int
  BY <1>1, BoundsAssumption
<1>3. p.issued \in Int
  BY <1>1, BoundsAssumption
<1> QED BY <1>2, <1>3

\* The files are those that were signed, beside what sign wrote of them.
LEMMA FreshlySigned ==
  ASSUME Inv, pub.pc = "done",
         bundle.content = pub.loaded.content, pub.withOms => bundle = pub.loaded,
         sgmt = SignedEnvelope(pub.key, pub.loaded.content, pub.expires),
         oms = IF pub.withOms THEN KeyBound(pub.loaded, {pub.key.material}) ELSE Absent,
         pub.key \in Roster, KeyAdmitted(pub.key),
         now <= pub.issued + pub.ttl * Day + Skew
  PROVE  /\ \A required \in BOOLEAN : Exit(required) = 0
         /\ \A seen \in {Seen(revoked, now)}, q \in Asked :
              q.verdict = "none" => Answer(q, seen) = "allow"
<1> DEFINE b == Loaded(bundle)
           s == Sgmt1ResultGiven(b, sgmt, Trusted, FALSE)
           o == OmsResult(b, oms, Trusted, Pool)
<1>1. pub \in Signing /\ bundle \in Bundle /\ b.root = bundle.content /\ b.raw = bundle
  BY DEF Inv, TypeOK, Idle, Loaded
<1>2. pub.expires = pub.issued + pub.ttl * Day /\ pub.expires \in Int
  <2>1. pub.expires = pub.issued + Duration(pub.ttl) /\ TTLAccepted(pub.ttl)
    BY DEF Inv, ExpiryAsAsked, Idle
  <2>2. pub.ttl \in Int /\ pub.issued \in Int
    BY <1>1, SigningNumbers
  <2>3. Duration(pub.ttl) = pub.ttl * Day /\ Duration(pub.ttl) \in Int
    BY <2>1, <2>2, DurationIsAsked, DurationIsInt
  <2> QED BY <2>1, <2>2, <2>3
<1>3. Readable(sgmt) /\ sgmt.payloadOk = TRUE /\ sgmt.expires = pub.expires
  <2>1. sgmt \in Envelopes
    BY <1>1, <1>2 DEF SignedEnvelope, Envelopes, Signing, Bundle, Materials
  <2>2. Absent \notin Envelopes /\ Unreadable \notin Envelopes
    BY FilesAssumption
  <2> QED BY <2>1, <2>2 DEF Readable, SignedEnvelope
<1>4. SgmtExpired(now) = FALSE
  <2>1. now \in Int /\ now <= sgmt.expires + Skew /\ sgmt.expires \in Int
    BY <1>2, <1>3 DEF Inv, TypeOK
  <2>2. ~Expired(sgmt, now)
    BY <2>1, VerifyAssumption DEF Expired
  <2> QED BY <2>2 DEF SgmtExpired
<1>5. s.present = TRUE /\ s.trusted = TRUE /\ Gating(s) = {}
  <2>1. b.root # NoRoot
    BY <1>1, FilesAssumption DEF Bundle
  <2>2. sgmt = SignedEnvelope(pub.key, b.root, pub.expires) /\ sgmt # Absent
    BY <1>1, <1>3 DEF Readable
  <2> HIDE DEF b
  <2> QED BY <2>1, <2>2, SignedEnvelopeTrusted
<1>6. Readable(oms) => o.present = TRUE /\ o.trusted = TRUE /\ Gating(o) = {}
  <2> SUFFICES ASSUME Readable(oms) PROVE o.present = TRUE /\ o.trusted = TRUE /\ Gating(o) = {}
    OBVIOUS
  <2>1. oms # Absent /\ pub.withOms
    BY DEF Readable
  <2>2. oms = KeyBound(b.raw, {pub.key.material})
    BY <1>1, <2>1
  <2> HIDE DEF b
  <2> QED BY <2>1, <2>2, KeyBoundTrusted
<1>7. ASSUME NEW required \in BOOLEAN
      PROVE  Exit(required) = 0
  <2> DEFINE pol == Policy(required, FALSE)
  <2>1. pol.trust = Trusted
    BY DEF Policy
  <2>2. Sgmt1Result(b, sgmt, Trusted, now) = s
    BY <1>3, <1>4, SameResult
  <2>3. ~VerificationFailed(s, pol)
    BY <1>5 DEF VerificationFailed
  <2>4. Readable(oms) => ~VerificationFailed(o, pol)
    BY <1>6 DEF VerificationFailed
  <2>5. sgmt # Unreadable
    BY <1>3 DEF Readable
  <2> HIDE DEF b, s, o, pol
  <2>6. VerifyExit(b, sgmt, oms, pol, Pool, now) = 0
    BY <2>1, <2>2, <2>3, <2>4, <2>5 DEF VerifyExit, o
  <2> QED BY <2>6 DEF Exit, b, pol
<1>8. ASSUME NEW q \in Asked, q.verdict = "none"
      PROVE  Answer(q, Seen(revoked, now)) = "allow"
  <2> DEFINE sp == SgmtPart(b, sgmt, Trusted, SgmtExpired(now))
             op == OmsPart(b, oms, Trusted, Pool)
             seen == Seen(revoked, now)
  <2>1. sp = s
    BY <1>3, <1>4 DEF SgmtPart
  <2>2. op = IF Readable(oms) THEN o ELSE Blank
    BY DEF OmsPart
  <2>3. Gating(op) = {}
    <3>1. Gating(Blank) = {}
      BY DEF Gating, Blank
    <3> HIDE DEF o, op
    <3> QED BY <1>6, <2>2, <3>1
  <2>4. seen = [sig |-> SignatureState(sp, op), gating |-> Gating(sp) \cup Gating(op)]
    BY DEF Seen, Trusted
  <2> HIDE DEF sp, op, seen, b, s, o
  <2>5. seen.gating = {}
    BY <1>5, <2>1, <2>3, <2>4
  <2>6. seen.sig.trusted
    BY <1>5, <2>1, <2>4 DEF SignatureState
  <2>7. Answer(q, seen) = "allow"
    BY <1>8, <2>5, <2>6 DEF Answer, Decide, Denies, Warns
  <2> QED BY <2>7 DEF seen
<1> QED BY <1>7, <1>8

\* The two files that sign writes can be read.
LEMMA WrittenIsReadable ==
  ASSUME Inv, pub.pc = "done"
  PROVE  /\ Readable(SignedEnvelope(pub.key, pub.loaded.content, pub.expires))
         /\ Readable(KeyBound(pub.loaded, {pub.key.material}))
         /\ Parses(KeyBound(pub.loaded, {pub.key.material}))
<1> DEFINE env == SignedEnvelope(pub.key, pub.loaded.content, pub.expires)
           o == KeyBound(pub.loaded, {pub.key.material})
<1>1. pub \in Signing /\ pub # Idle
  BY DEF Inv, TypeOK, Idle
<1>2. pub.expires \in Int
  <2>1. pub.expires = pub.issued + Duration(pub.ttl)
    BY <1>1 DEF Inv, ExpiryAsAsked
  <2>2. pub.ttl \in Int /\ pub.issued \in Int
    BY <1>1, SigningNumbers
  <2>3. Duration(pub.ttl) \in Int
    BY <2>2, DurationIsInt
  <2> QED BY <2>1, <2>2, <2>3
<1>3. env \in Envelopes
  BY <1>1, <1>2 DEF SignedEnvelope, Envelopes, Signing, Bundle, Materials
<1>4. Absent \notin Envelopes /\ Unreadable \notin Envelopes
  BY FilesAssumption
<1>5. Readable(env)
  <2> HIDE DEF env
  <2> QED BY <1>3, <1>4 DEF Readable
<1>6. o # Absent /\ o # Unreadable
  <2>1. pub.loaded \in Bundle /\ pub.key \in Signers
    BY <1>1 DEF Signing
  <2> QED BY <2>1, FilesAssumption
<1>7. Parses(o)
  <2>1. /\ o.json = TRUE /\ o.material = {"publicKey"} /\ o.predicate = "v1.0"
        /\ o.sigs # {} /\ o.consistent = TRUE
    BY DEF KeyBound
  <2> HIDE DEF o
  <2>2. SigningMethod(o) = "key"
    BY <2>1 DEF SigningMethod
  <2> QED BY <2>1, <2>2 DEF Parses, ParseBundle
<1>8. Readable(o)
  <2> HIDE DEF o
  <2> QED BY <1>6 DEF Readable
<1> QED BY <1>5, <1>7, <1>8

\* sign, then verify: what was signed verifies, loads and installs for as many
\* days as were asked for -- exactly unless the fields that sign itself wrote
\* last changed what it had signed; then verify fails and the gate denies.
THEOREM SignThenVerify == Spec => []SignedBundleVerifies
<1>1. Inv => SignedBundleVerifies
  <2> DEFINE written == pub.emit => /\ Rewritten[pub.loaded.content] = pub.loaded.content
                                    /\ pub.withOms => bundle.stamp = pub.loaded.stamp
  <2> SUFFICES ASSUME Inv,
                      pub.pc = "done",
                      bundle.content = IF pub.emit THEN Rewritten[pub.loaded.content] ELSE pub.loaded.content,
                      pub.withOms /\ ~pub.emit => bundle = pub.loaded,
                      sgmt = SignedEnvelope(pub.key, pub.loaded.content, pub.expires),
                      oms = IF pub.withOms THEN KeyBound(pub.loaded, {pub.key.material}) ELSE Absent,
                      pub.key \in Roster, KeyAdmitted(pub.key),
                      now <= pub.issued + pub.ttl * Day + Skew
               PROVE  IF written
                      THEN /\ \A required \in BOOLEAN : Exit(required) = 0
                           /\ \A seen \in {Seen(revoked, now)}, q \in Asked :
                                q.verdict = "none" => Answer(q, seen) = "allow"
                      ELSE Exit(FALSE) = 2 /\ ProvenanceDenies
    BY DEF SignedBundleVerifies
  <2>1. pub \in Signing /\ bundle \in Bundle /\ pub.loaded \in Bundle /\ pub.emit \in BOOLEAN
    BY DEF Inv, TypeOK, Idle, Signing
  <2>2. CASE written
    <3>1. bundle.content = pub.loaded.content
      BY <2>1, <2>2
    <3>2. pub.withOms => bundle = pub.loaded
      BY <2>1, <2>2, <3>1 DEF Bundle
    <3> QED BY <2>2, <3>1, <3>2, FreshlySigned
  <2>3. CASE ~written
    <3>1. pub.emit
      BY <2>3
    <3>2. CASE Rewritten[pub.loaded.content] # pub.loaded.content
      <4>1. Readable(sgmt) /\ sgmt.root = pub.loaded.content
        BY WrittenIsReadable DEF SignedEnvelope
      <4>2. bundle.content # pub.loaded.content
        BY <3>1, <3>2
      <4> QED BY <2>3, <4>1, <4>2, DriftShows DEF DriftIsDenied
    <3>3. CASE pub.withOms /\ bundle.stamp # pub.loaded.stamp
      <4>1. Readable(oms) /\ Parses(oms) /\ oms.raw = pub.loaded
        BY <3>3, WrittenIsReadable DEF KeyBound
      <4>2. bundle # pub.loaded
        BY <3>3
      <4> QED BY <2>3, <4>1, <4>2, DriftShows DEF DriftIsDenied
    <3> QED BY <2>3, <3>2, <3>3
  <2> QED BY <2>2, <2>3
<1> QED BY <1>1, TypeCorrect, PTL

-----------------------------------------------------------------------------
(* Revocation and time. *)

\* What a larger revocation list does to the standings of verified signatures.
Worse(S, W) ==
  /\ S \subseteq {"revoked", "rejected", "trusted"} /\ W \subseteq {"revoked", "rejected", "trusted"}
  /\ S = {} <=> W = {}
  /\ "trusted" \in W => "trusted" \in S
  /\ "revoked" \in S => "revoked" \in W

LEMMA StandingWorsens ==
  ASSUME NEW rev, NEW more, rev \subseteq more, NEW values, NEW identity, NEW issuer
  PROVE  LET x == Standing(TrustGiven(rev), values, identity, issuer)
             y == Standing(TrustGiven(more), values, identity, issuer)
         IN /\ {x, y} \subseteq {"revoked", "rejected", "trusted"}
            /\ y = "trusted" => x = "trusted"
            /\ x = "revoked" => y = "revoked"
<1> DEFINE x == Standing(TrustGiven(rev), values, identity, issuer)
           y == Standing(TrustGiven(more), values, identity, issuer)
           R == Revokes(TrustGiven(rev), values)
           R2 == Revokes(TrustGiven(more), values)
           A == Allows(TrustGiven(rev), identity, issuer)
           A2 == Allows(TrustGiven(more), identity, issuer)
<1>1. x = CASE R -> "revoked" [] ~R /\ ~A -> "rejected" [] OTHER -> "trusted"
  BY DEF Standing
<1>2. y = CASE R2 -> "revoked" [] ~R2 /\ ~A2 -> "rejected" [] OTHER -> "trusted"
  BY DEF Standing
<1>3. R => R2
  BY DEF Revokes, TrustGiven
<1>4. A <=> A2
  BY DEF Allows, TrustGiven
<1> HIDE DEF R, R2, A, A2, x, y
<1>5. x \in {"revoked", "rejected", "trusted"} /\ (x = "trusted" <=> ~R /\ A) /\ (x = "revoked" <=> R)
  BY <1>1
<1>6. y \in {"revoked", "rejected", "trusted"} /\ (y = "trusted" <=> ~R2 /\ A2) /\ (y = "revoked" <=> R2)
  BY <1>2
<1>7. {x, y} \subseteq {"revoked", "rejected", "trusted"}
  BY <1>5, <1>6
<1> QED BY <1>3, <1>4, <1>5, <1>6, <1>7 DEF x, y

\* Of the keys whose signatures verified, whatever made them verify.
LEMMA KeysWorsen ==
  ASSUME NEW rev, NEW more, rev \subseteq more, NEW K
  PROVE  Worse({KeyStanding(TrustGiven(rev), k) : k \in K}, {KeyStanding(TrustGiven(more), k) : k \in K})
<1>1. ASSUME NEW k
      PROVE  /\ KeyStanding(TrustGiven(rev), k) \in {"revoked", "rejected", "trusted"}
             /\ KeyStanding(TrustGiven(more), k) \in {"revoked", "rejected", "trusted"}
             /\ KeyStanding(TrustGiven(more), k) = "trusted" => KeyStanding(TrustGiven(rev), k) = "trusted"
             /\ KeyStanding(TrustGiven(rev), k) = "revoked" => KeyStanding(TrustGiven(more), k) = "revoked"
  BY StandingWorsens DEF KeyStanding
<1> QED BY <1>1 DEF Worse

\* The log, the chain and the certificate's signature know of no revocation.
LEMMA CertificatesAgnostic ==
  ASSUME NEW rev, NEW more, NEW o, NEW p
  PROVE  CertSignatureValid(TrustGiven(rev), o, p) = CertSignatureValid(TrustGiven(more), o, p)
<1> DEFINE t == TrustGiven(rev)
           u == TrustGiven(more)
<1>1. t.logKeys = u.logKeys /\ t.pinsRoots = u.pinsRoots
  BY DEF TrustGiven
<1> HIDE DEF t, u
<1>2. ASSUME NEW e PROVE EntryPasses(t, e) <=> EntryPasses(u, e)
  BY <1>1 DEF EntryPasses, VouchedFor
<1>3. LogError(t, o) <=> LogError(u, o)
  BY <1>1, <1>2 DEF LogError
<1>4. ProvenTimes(t, o) = ProvenTimes(u, o)
  BY <1>2 DEF ProvenTimes
<1>5. ChainHolds(t, o, p) = ChainHolds(u, o, p)
  BY <1>1, <1>3, <1>4 DEF ChainHolds
<1>6. CertSignatureValid(t, o, p) = CertSignatureValid(u, o, p)
  BY <1>5 DEF CertSignatureValid
<1> QED BY <1>6 DEF t, u

\* What a result with standings S says, in terms of the checks that it made.
Judged(r, S, valid, unknown, match, expired) ==
  /\ r.trusted <=> "trusted" \in S
  /\ "SG-PRV-002" \in r.findings <=>
       unknown \/ (valid /\ "trusted" \notin S /\ "revoked" \notin S /\ "rejected" \notin S)
  /\ "SG-PRV-003" \in r.findings <=> ~match
  /\ "SG-PRV-004" \in r.findings <=> expired \/ (valid /\ "trusted" \notin S /\ "revoked" \in S)

\* The gating findings of a result never go when the list grows or the
\* signature expires, and the trust never comes.
LEMMA JudgedWorsens ==
  ASSUME NEW r, NEW w, NEW S, NEW W, Worse(S, W), NEW valid, NEW unknown, NEW match,
         NEW before, NEW after, before => after,
         Judged(r, S, valid, unknown, match, before), Judged(w, W, valid, unknown, match, after)
  PROVE  (Gating(r) # {} => Gating(w) # {}) /\ (w.trusted => r.trusted)
<1>1. /\ "SG-PRV-002" \in r.findings => "SG-PRV-002" \in w.findings \/ "SG-PRV-004" \in w.findings
      /\ "SG-PRV-003" \in r.findings => "SG-PRV-003" \in w.findings
      /\ "SG-PRV-004" \in r.findings => "SG-PRV-004" \in w.findings
  BY DEF Judged, Worse
<1>2. w.trusted => r.trusted
  BY DEF Judged, Worse
<1> QED BY <1>1, <1>2 DEF Gating, GatingIds

LEMMA SgmtJudged ==
  ASSUME NEW b, NEW env, NEW t, NEW expired \in BOOLEAN, env # Absent, env.payloadOk
  PROVE  LET S == EnvelopeStandings(t, env)
         IN Judged(Sgmt1ResultGiven(b, env, t, expired), S, S # {}, S = {} /\ t.keys # {},
                   b.root # NoRoot /\ b.root = env.root, expired)
<1> DEFINE S == EnvelopeStandings(t, env)
           r == Sgmt1ResultGiven(b, env, t, expired)
<1>1. r.trusted <=> "trusted" \in S
  BY DEF Sgmt1ResultGiven, Flagged, Blank
<1>2. "SG-PRV-002" \in r.findings <=>
        (S = {} /\ t.keys # {}) \/ (S # {} /\ "trusted" \notin S /\ "revoked" \notin S /\ "rejected" \notin S)
  BY Sgmt1Facts, ZenonT(40)
<1>3. "SG-PRV-003" \in r.findings <=> b.root = NoRoot \/ b.root # env.root
  BY Sgmt1Facts, ZenonT(40)
<1>4. "SG-PRV-004" \in r.findings <=> expired \/ (S # {} /\ "trusted" \notin S /\ "revoked" \in S)
  BY Sgmt1Facts, ZenonT(40)
<1> HIDE DEF S, r
<1> QED BY <1>1, <1>2, <1>3, <1>4 DEF Judged, S, r

LEMMA OmsJudged ==
  ASSUME NEW b, NEW o, NEW t, NEW p, o # Absent, Parses(o)
  PROVE  Judged(OmsResult(b, o, t, p), OmsStandings(t, o, p), OmsValid(t, o, p),
                SigningMethod(o) = "key" /\ ~OmsValid(t, o, p) /\ t.keys # {},
                o.consistent /\ b.raw = o.raw, FALSE)
<1> DEFINE S == OmsStandings(t, o, p)
           r == OmsResult(b, o, t, p)
           valid == OmsValid(t, o, p)
<1>1. r.trusted <=> "trusted" \in S
  BY DEF OmsResult, OmsFlags, OmsStandings, Flagged, Blank
<1>2. "SG-PRV-002" \in r.findings <=>
        \/ SigningMethod(o) = "key" /\ ~valid /\ t.keys # {}
        \/ valid /\ "trusted" \notin S /\ "revoked" \notin S /\ "rejected" \notin S
  BY OmsFacts
<1>3. "SG-PRV-003" \in r.findings <=> ~(o.consistent /\ b.raw = o.raw)
  BY OmsFacts
<1>4. "SG-PRV-004" \in r.findings <=> valid /\ "trusted" \notin S /\ "revoked" \in S
  BY OmsFacts
<1> HIDE DEF S, r, valid
<1> QED BY <1>1, <1>2, <1>3, <1>4 DEF Judged, S, r, valid

LEMMA SgmtWorsens ==
  ASSUME NEW rev, NEW more, rev \subseteq more, NEW b, NEW env, env # Absent,
         NEW before \in BOOLEAN, NEW after \in BOOLEAN, before => after
  PROVE  LET r == Sgmt1ResultGiven(b, env, TrustGiven(rev), before)
             w == Sgmt1ResultGiven(b, env, TrustGiven(more), after)
         IN (Gating(r) # {} => Gating(w) # {}) /\ (w.trusted => r.trusted)
<1> DEFINE t == TrustGiven(rev)
           u == TrustGiven(more)
           S == EnvelopeStandings(t, env)
           W == EnvelopeStandings(u, env)
<1>1. CASE env.payloadOk
  <2>1. t.keys = u.keys
    BY DEF TrustGiven
  <2>2. Worse(S, W)
    <3> DEFINE K == {x \in t.keys : \E i \in DOMAIN env.sigs :
                      env.sigs[i].keyid = x.keyid /\ Verifies(x, env.sigs[i].by)}
    <3>1. S = {KeyStanding(t, k) : k \in K} /\ W = {KeyStanding(u, k) : k \in K}
      BY <2>1 DEF EnvelopeStandings
    <3> HIDE DEF K, S, W
    <3> QED BY <3>1, KeysWorsen
  <2> DEFINE valid == S # {}
             unknown == S = {} /\ t.keys # {}
             match == b.root # NoRoot /\ b.root = env.root
  <2>3. Judged(Sgmt1ResultGiven(b, env, t, before), S, valid, unknown, match, before)
    BY <1>1, SgmtJudged
  <2>4. Judged(Sgmt1ResultGiven(b, env, u, after), W, W # {}, W = {} /\ u.keys # {}, match, after)
    BY <1>1, SgmtJudged
  <2>5. (W # {}) = valid /\ (W = {} /\ u.keys # {}) = unknown
    BY <2>1, <2>2 DEF Worse
  <2> HIDE DEF S, W, valid, unknown, match
  <2>6. Judged(Sgmt1ResultGiven(b, env, u, after), W, valid, unknown, match, after)
    BY <2>4, <2>5
  <2> QED BY <2>2, <2>3, <2>6, JudgedWorsens
<1>2. CASE ~env.payloadOk
  BY <1>2 DEF Sgmt1ResultGiven, Blank, Gating, GatingIds
<1> QED BY <1>1, <1>2

LEMMA OmsWorsens ==
  ASSUME NEW rev, NEW more, rev \subseteq more, NEW b, NEW o, o # Absent, NEW p
  PROVE  LET r == OmsResult(b, o, TrustGiven(rev), p)
             w == OmsResult(b, o, TrustGiven(more), p)
         IN (Gating(r) # {} => Gating(w) # {}) /\ (w.trusted => r.trusted)
<1> DEFINE t == TrustGiven(rev)
           u == TrustGiven(more)
           S == OmsStandings(t, o, p)
           W == OmsStandings(u, o, p)
           valid == OmsValid(t, o, p)
           key == SigningMethod(o) = "key"
<1>1. CASE Parses(o)
  <2>1. t.keys = u.keys
    BY DEF TrustGiven
  <2>2. Worse(S, W)
    <3>1. CASE key
      <4> DEFINE K == {x \in t.keys : \E s \in o.sigs : Verifies(x, s)}
      <4>1. S = {KeyStanding(t, k) : k \in K} /\ W = {KeyStanding(u, k) : k \in K}
        BY <3>1, <2>1 DEF OmsStandings, OmsKeyStandings
      <4> HIDE DEF K, S, W
      <4> QED BY <4>1, KeysWorsen
    <3>2. CASE ~key
      <4> DEFINE id == CertIdentity(o.certs[1])
                 issuer == CertIssuer(o.certs[1])
                 x == Standing(t, {id, issuer}, id, issuer)
                 y == Standing(u, {id, issuer}, id, issuer)
                 known == CertSignatureValid(t, o, p) /\ id # NoId
      <4>1. S = (IF known THEN {x} ELSE {}) /\ W = (IF known THEN {y} ELSE {})
        BY <3>2, CertificatesAgnostic DEF OmsStandings, CertStandings
      <4>2. /\ {x, y} \subseteq {"revoked", "rejected", "trusted"}
            /\ y = "trusted" => x = "trusted"
            /\ x = "revoked" => y = "revoked"
        BY StandingWorsens
      <4> HIDE DEF known, x, y, S, W
      <4> QED BY <4>1, <4>2 DEF Worse
    <3> QED BY <3>1, <3>2
  <2>3. OmsValid(u, o, p) = valid
    <3>1. CASE key
      BY <2>2, <3>1 DEF OmsValid, OmsStandings, Worse
    <3>2. CASE ~key
      BY <3>2, CertificatesAgnostic DEF OmsValid
    <3> QED BY <3>1, <3>2
  <2> DEFINE unknown == key /\ ~valid /\ t.keys # {}
             match == o.consistent /\ b.raw = o.raw
  <2>4. Judged(OmsResult(b, o, t, p), S, valid, unknown, match, FALSE)
    BY <1>1, OmsJudged
  <2>5. Judged(OmsResult(b, o, u, p), W, OmsValid(u, o, p), key /\ ~OmsValid(u, o, p) /\ u.keys # {}, match, FALSE)
    BY <1>1, OmsJudged
  <2>6. Judged(OmsResult(b, o, u, p), W, valid, unknown, match, FALSE)
    BY <2>1, <2>3, <2>5
  <2> HIDE DEF S, W, valid, unknown, match
  <2> QED BY <2>2, <2>4, <2>6, JudgedWorsens
<1>2. CASE ~Parses(o)
  BY <1>2 DEF OmsResult, Blank, Gating, GatingIds
<1> QED BY <1>1, <1>2

LEMMA ExpiryStays ==
  ASSUME NEW m \in Int, NEW n \in Int, m <= n, TypeOK, SgmtExpired(m)
  PROVE  SgmtExpired(n)
<1>1. sgmt \in Envelopes /\ Expired(sgmt, m)
  BY DEF TypeOK, SgmtExpired, Readable
<1>2. sgmt.expires \in Int \cup {NoExpiry, BadExpiry}
  BY <1>1 DEF Envelopes
<1>3. Expired(sgmt, n)
  BY <1>1, <1>2, VerifyAssumption DEF Expired
<1> QED BY <1>3 DEF SgmtExpired

\* What the gate sees under a longer revocation list, or later.
LEMMA SeenWorsens ==
  ASSUME NEW rev, NEW more, rev \subseteq more, NEW m \in Int, NEW n \in Int, m <= n, TypeOK
  PROVE  LET before == Seen(rev, m)
             after == Seen(more, n)
         IN (before.gating # {} => after.gating # {}) /\ (after.sig.trusted => before.sig.trusted)
<1> DEFINE b == Loaded(bundle)
           s == SgmtPart(b, sgmt, TrustGiven(rev), SgmtExpired(m))
           o == OmsPart(b, oms, TrustGiven(rev), Pool)
           s2 == SgmtPart(b, sgmt, TrustGiven(more), SgmtExpired(n))
           o2 == OmsPart(b, oms, TrustGiven(more), Pool)
<1>1. (Gating(s) # {} => Gating(s2) # {}) /\ (s2.trusted => s.trusted)
  <2>1. CASE Readable(sgmt)
    <3>1. SgmtExpired(m) \in BOOLEAN /\ SgmtExpired(n) \in BOOLEAN
      BY DEF SgmtExpired
    <3>2. SgmtExpired(m) => SgmtExpired(n)
      BY ExpiryStays
    <3>3. sgmt # Absent
      BY <2>1 DEF Readable
    <3> DEFINE before == SgmtExpired(m)
               after == SgmtExpired(n)
    <3>4. s = Sgmt1ResultGiven(b, sgmt, TrustGiven(rev), before) /\ s2 = Sgmt1ResultGiven(b, sgmt, TrustGiven(more), after)
      BY <2>1 DEF SgmtPart
    <3> HIDE DEF b, s, s2, before, after
    <3>5. before \in BOOLEAN /\ after \in BOOLEAN /\ (before => after)
      BY <3>1, <3>2 DEF before, after
    <3> QED BY <3>3, <3>4, <3>5, SgmtWorsens
  <2>2. CASE ~Readable(sgmt)
    BY <2>2 DEF SgmtPart
  <2> QED BY <2>1, <2>2
<1>2. (Gating(o) # {} => Gating(o2) # {}) /\ (o2.trusted => o.trusted)
  <2>1. CASE Readable(oms)
    <3>1. oms # Absent
      BY <2>1 DEF Readable
    <3>2. o = OmsResult(b, oms, TrustGiven(rev), Pool) /\ o2 = OmsResult(b, oms, TrustGiven(more), Pool)
      BY <2>1 DEF OmsPart
    <3> HIDE DEF b, o, o2
    <3> QED BY <3>1, <3>2, OmsWorsens
  <2>2. CASE ~Readable(oms)
    BY <2>2 DEF OmsPart
  <2> QED BY <2>1, <2>2
<1>3. Seen(rev, m) = [sig |-> SignatureState(s, o), gating |-> Gating(s) \cup Gating(o)]
  BY DEF Seen
<1>4. Seen(more, n) = [sig |-> SignatureState(s2, o2), gating |-> Gating(s2) \cup Gating(o2)]
  BY DEF Seen
<1> HIDE DEF b, s, o, s2, o2
<1>5. /\ Seen(rev, m).gating = Gating(s) \cup Gating(o) /\ Seen(more, n).gating = Gating(s2) \cup Gating(o2)
      /\ Seen(rev, m).sig.trusted = (s.trusted \/ o.trusted)
      /\ Seen(more, n).sig.trusted = (s2.trusted \/ o2.trusted)
  BY <1>3, <1>4 DEF SignatureState
<1> QED BY <1>1, <1>2, <1>5

LEMMA AnswerWorsens ==
  ASSUME NEW q, NEW before, NEW after,
         before.gating # {} => after.gating # {}, after.sig.trusted => before.sig.trusted
  PROVE  Strictness(Answer(q, after)) >= Strictness(Answer(q, before))
<1> DEFINE x == Answer(q, before)
           y == Answer(q, after)
           D == Denies(q, before.sig, before.gating, q.verdict, q.mode)
           E == Denies(q, after.sig, after.gating, q.verdict, q.mode)
           V == Warns(q, before.sig, q.verdict)
           W == Warns(q, after.sig, q.verdict)
<1>1. x = (IF D THEN "deny" ELSE IF V THEN "warn" ELSE "allow") /\ y = (IF E THEN "deny" ELSE IF W THEN "warn" ELSE "allow")
  BY DEF Answer, Decide
<1>2. D => E
  BY DEF Denies
<1>3. V => W
  BY DEF Warns
<1> HIDE DEF x, y, D, E, V, W
<1>4. \/ y = "deny" /\ x \in {"allow", "warn", "deny"}
      \/ y = "warn" /\ x \in {"allow", "warn"}
      \/ y = "allow" /\ x = "allow"
  BY <1>1, <1>2, <1>3
<1>5. Strictness("allow") = 0 /\ Strictness("warn") = 1 /\ Strictness("deny") = 2
  BY DEF Strictness
<1>6. Strictness(y) >= Strictness(x)
  BY <1>4, <1>5
<1> QED BY <1>6 DEF x, y

\* Revocation and time only ever make the gate stricter, under every policy,
\* verdict and mode, whatever signatures the two files hold.
THEOREM NothingRelaxes == Spec => NeverRelaxes
<1>1. Inv /\ [Next]_vars =>
        [(revoked # revoked' \/ now # now')
          => \A before \in {Seen(revoked, now)}, after \in {Seen(revoked', now')} :
               \A q \in Asked : Strictness(Answer(q, after)) >= Strictness(Answer(q, before))]_vars
  <2> SUFFICES ASSUME Inv, [Next]_vars, NEW q \in Asked
               PROVE  Strictness(Answer(q, Seen(revoked', now'))) >= Strictness(Answer(q, Seen(revoked, now)))
    OBVIOUS
  <2>1. now \in Int
    BY DEF Inv, TypeOK
  <2>2. revoked \subseteq revoked' /\ now' \in Int /\ now <= now'
    <3>1. CASE Publish
      BY <2>1, <3>1 DEF Publish, SignLoad, SignOpenEnvelope, SignWriteEnvelope, SignOpenOms,
         SignWriteOms, SignEmitFields, SignExit, SignKilled
    <3>2. CASE Others
      <4>1. ASSUME NEW k, CoSign(k) \/ CoSignOms(k) PROVE UNCHANGED <<revoked, now>>
        BY <4>1 DEF CoSign, CoSignOms
      <4>2. ASSUME NEW ok, NEW c, NEW exp, DamageEnvelope(ok, c, exp) PROVE UNCHANGED <<revoked, now>>
        BY <4>2 DEF DamageEnvelope
      <4>3. ASSUME NEW b, NEW version, DamageOms(b, version) PROVE UNCHANGED <<revoked, now>>
        BY <4>3 DEF DamageOms
      <4>4. ASSUME NEW m, NEW s, KeylessSign(m, s) PROVE UNCHANGED <<revoked, now>>
        BY <4>4 DEF KeylessSign
      <4>5. Edit \/ LoseSignature => UNCHANGED <<revoked, now>>
        BY DEF Edit, LoseSignature
      <4> QED BY <2>1, <3>2, <4>1, <4>2, <4>3, <4>4, <4>5 DEF Others
    <3>3. CASE (\E v \in Revocable : Revoke(v)) \/ EditRoots \/ Tick \/ UNCHANGED vars
      BY <2>1, <3>3 DEF Revoke, EditRoots, Tick, vars
    <3> QED BY <3>1, <3>2, <3>3 DEF Next
  <2> QED BY <2>1, <2>2, SeenWorsens, AnswerWorsens DEF Inv
<1> QED BY <1>1, TypeCorrect, PTL DEF Spec, NeverRelaxes

-----------------------------------------------------------------------------
(* What a tree's root and a proof of inclusion say. *)

\* However many files a bundle has, its root is RFC 6962's and names them all.
THEOREM RootsName == Spec => []RootNamesItsLeaves
<1>1. MaxLeaves \in Nat
  BY BoundsAssumption DEF BoundsAssumption
<1>2. RootNamesItsLeaves
  BY <1>1, RootsNameLeavesAlways DEF RootNamesItsLeaves, AllRootsNameLeaves
<1> QED BY <1>2, PTL

\* The same of the log's proofs: every honest one is accepted, and what is
\* accepted names a leaf, for as many leaves as one asks about.
THEOREM ProofsSound == Spec => []ProofsAreSound
<1>1. MaxLeaves \in Nat
  BY BoundsAssumption DEF BoundsAssumption
<1>2. ProofsAreSound
  BY <1>1, ProofsHoldAlways DEF ProofsAreSound, AllProofsHold
<1> QED BY <1>2, PTL

-----------------------------------------------------------------------------
(* What an admission rests on. *)

\* An entry that a skill.oms.sig may carry has a time and a body, and its
\* checkpoint is over a prefix of what the log that signed it holds.
EntryTyped(e) ==
  /\ e.time \in Nat /\ Sequence(e.body) /\ \A p, q \in e.proof : p = q
  /\ e.signer \in DOMAIN Ledger => \A c \in e.checkpoint :
       c.size \in 1..Len(Ledger[e.signer]) /\ c.root = TreeHash(Ledger[e.signer], c.size)

LEMMA EvidenceTyped ==
  ASSUME NEW e \in Evidence
  PROVE  EntryTyped(e)
<1>1. CASE e \in UNION {s.extra : s \in Keyless}
  BY <1>1, LogsAssumption DEF LogsAppend, EntryTyped
<1>2. ASSUME NEW s \in Keyless, NEW t \in 1..(MaxTime + 1), e = OwnEntry(s, t) PROVE EntryTyped(e)
  <2> DEFINE l == s.place.log
             m == s.place.index
             n == s.place.size
  <2>1. l \in DOMAIN Ledger /\ m \in 0..(n - 1) /\ n \in 1..Len(Ledger[l]) /\ Sequence(Ledger[l])
    BY LogsAssumption DEF LogsAppend
  <2>2. Sequence(Ledger[l][m + 1])
    <3>1. DOMAIN Ledger[l] = 1..Len(Ledger[l]) /\ Len(Ledger[l]) \in Nat
      BY <2>1 DEF Sequence
    <3>2. m + 1 \in DOMAIN Ledger[l]
      BY <2>1, <3>1
    <3> QED BY <2>1, <3>2, LogsAssumption DEF LogsAppend
  <2>3. t \in Nat
    BY BoundsAssumption
  <2>4. /\ e.time = t /\ e.body = Ledger[l][m + 1] /\ e.proof = {HonestProof(Ledger[l], m, n)}
        /\ e.signer = l /\ e.checkpoint = {[size |-> n, root |-> TreeHash(Ledger[l], n)]}
    BY <1>2 DEF OwnEntry, LogEntry
  <2> HIDE DEF l, m, n
  <2> QED BY <2>1, <2>2, <2>3, <2>4 DEF EntryTyped
<1> QED BY <1>1, <1>2 DEF Evidence

\* A prefix of a log has the log's own tree of that size.
LEMMA PrefixHash ==
  ASSUME NEW s, NEW u, NEW n \in Nat, \A i \in 1..n : u[i] = s[i]
  PROVE  TreeHash(u, n) = TreeHash(s, n)
<1>1. LeafHashes(u, n) = LeafHashes(s, n)
  BY DEF LeafHashes
<1> QED BY <1>1 DEF TreeHash

\* An entry whose proof and checkpoint pass, vouched for by a pinned key, is in
\* that key's log.
LEMMA PassedIsLogged ==
  ASSUME NEW e \in Evidence, EntryPasses(Trusted, e), LogKeys # {}
  PROVE  Logged(e)
<1>1. EntryTyped(e)
  BY EvidenceTyped
<1>2. PICK p \in e.proof : VerifyInclusion(e.body, p)
  BY DEF EntryPasses, Included
<1>3. PICK c \in e.checkpoint : c.size = p.size /\ c.root = p.root
  BY <1>1, <1>2 DEF EntryPasses, MatchesProof, EntryTyped
<1>4. PICK k \in LogKeys : k.material = e.signer
  BY DEF EntryPasses, VouchedFor, Trusted, TrustGiven
<1> DEFINE l == e.signer
           n == c.size
           log == Ledger[l]
<1>5. l \in {x.material : x \in LogKeys} \cap DOMAIN Ledger
  BY <1>4, LogsAssumption DEF LogsAppend
<1>6. n \in 1..Len(log) /\ c.root = TreeHash(log, n)
  BY <1>1, <1>3, <1>5 DEF EntryTyped
<1>7. Sequence(log) /\ \A i \in DOMAIN log : Sequence(log[i])
  BY <1>5, LogsAssumption DEF LogsAppend
<1> HIDE DEF l, n, log
<1>8. Len(log) \in Nat /\ DOMAIN log = 1..Len(log) /\ n \in Nat /\ n >= 1
  BY <1>6, <1>7 DEF Sequence
<1> DEFINE s == [i \in 1..n |-> log[i]]
           B == {e.body[i] : i \in DOMAIN e.body} \cup UNION {{log[j][i] : i \in DOMAIN log[j]} : j \in DOMAIN log}
<1>9. e.body \in Seq(B)
  <2>1. e.body \in Seq({e.body[i] : i \in DOMAIN e.body})
    BY <1>1 DEF EntryTyped, Sequence
  <2>2. {e.body[i] : i \in DOMAIN e.body} \subseteq B
    OBVIOUS
  <2> HIDE DEF B
  <2> QED BY <2>1, <2>2
<1>10. ASSUME NEW j \in 1..n PROVE log[j] \in Seq(B)
  <2>1. j \in DOMAIN log
    BY <1>6, <1>8
  <2>2. log[j] \in Seq({log[j][i] : i \in DOMAIN log[j]})
    BY <1>7, <2>1 DEF Sequence
  <2>3. {log[j][i] : i \in DOMAIN log[j]} \subseteq B
    BY <2>1
  <2> HIDE DEF B
  <2> QED BY <2>2, <2>3
<1> HIDE DEF B
<1>11. s \in [1..n -> Seq(B)] /\ \A i \in 1..n : s[i] = log[i]
  BY <1>10
<1> HIDE DEF s
<1>12. TreeHash(s, n) = TreeHash(log, n)
  BY <1>8, <1>11, PrefixHash
<1>13. p.size = n /\ p.root = TreeHash(s, n)
  BY <1>3, <1>6, <1>12 DEF n
<1>14. p.index \in 0..(n - 1) /\ e.body = s[p.index + 1]
  BY ONLY <1>2, <1>8, <1>9, <1>11, <1>13, InclusionNamesLeaf
<1>15. p.index + 1 \in DOMAIN log /\ log[p.index + 1] = e.body
  BY <1>6, <1>8, <1>11, <1>14
<1> QED BY <1>2, <1>5, <1>15 DEF Logged, log

LEMMA SgmtBacks ==
  ASSUME Inv, Readable(sgmt),
         NEW r, r = Sgmt1ResultGiven(Loaded(bundle), sgmt, Trusted, SgmtExpired(now)), r.trusted, Gating(r) = {}
  PROVE  BackedBySgmt
<1> DEFINE S == EnvelopeStandings(Trusted, sgmt)
           b == Loaded(bundle)
           expired == SgmtExpired(now)
<1>1. sgmt # Absent /\ sgmt \in Envelopes
  BY DEF Inv, TypeOK, Readable
<1>2. sgmt.payloadOk
  BY <1>1 DEF Sgmt1ResultGiven, Blank
<1>3. expired \in BOOLEAN /\ b.root = bundle.content
  BY DEF SgmtExpired, Loaded
<1> HIDE DEF S, b, expired
<1>4. /\ r.trusted <=> "trusted" \in S
      /\ "SG-PRV-003" \in r.findings <=> ~(b.root # NoRoot /\ b.root = sgmt.root)
      /\ "SG-PRV-004" \in r.findings <=> expired \/ (S # {} /\ "trusted" \notin S /\ "revoked" \in S)
  <2>1. Judged(Sgmt1ResultGiven(b, sgmt, Trusted, expired), S, S # {}, S = {} /\ Trusted.keys # {},
               b.root # NoRoot /\ b.root = sgmt.root, expired)
    BY <1>1, <1>2, <1>3, SgmtJudged DEF S
  <2>2. r = Sgmt1ResultGiven(b, sgmt, Trusted, expired)
    BY DEF b, expired
  <2> QED BY <2>1, <2>2 DEF Judged
<1>5. "SG-PRV-003" \notin r.findings /\ "SG-PRV-004" \notin r.findings
  BY DEF Gating, GatingIds
<1>6. sgmt.root = bundle.content /\ "trusted" \in S
  BY <1>3, <1>4, <1>5
<1>7. ~Expired(sgmt, now)
  BY <1>2, <1>4, <1>5 DEF expired, SgmtExpired
<1>8. sgmt.expires \in Int /\ now <= sgmt.expires + Skew
  <2>1. sgmt.expires \in Int
    BY <1>1, <1>7 DEF Envelopes, Expired
  <2>2. now \in Int
    BY BoundsAssumption DEF Inv, TypeOK
  <2> QED BY <1>7, <2>1, <2>2, VerifyAssumption DEF Expired
<1>9. \E i \in DOMAIN sgmt.sigs, k \in Roster :
        sgmt.sigs[i].keyid = k.keyid /\ sgmt.sigs[i].by = k.material /\ KeyAdmitted(k)
  <2>1. PICK k \in Trusted.keys : /\ \E i \in DOMAIN sgmt.sigs :
                                       sgmt.sigs[i].keyid = k.keyid /\ Verifies(k, sgmt.sigs[i].by)
                                  /\ KeyStanding(Trusted, k) = "trusted"
    BY <1>6 DEF S, EnvelopeStandings
  <2>2. k \in Roster
    BY DEF Trusted, TrustGiven
  <2> QED BY <2>1, <2>2, TrustedKeyIsAdmitted DEF Verifies
<1> QED BY <1>6, <1>8, <1>9 DEF BackedBySgmt

\* The pool that a chain was checked against: every root it had could be read,
\* and holds a certificate.
LEMMA PoolIs ==
  ASSUME Pool # Unreadable, Pool # {}
  PROVE  pool \notin {Unreadable, {}} /\ Pool = InlineRoots \cup pool
<1>1. CASE InlineRoots = {}
  <2>1. Pool = CertPool({InlineRoots, pool} \ {InlineRoots})
    BY <1>1 DEF Pool, When
  <2>2. CASE pool = {}
    <3>1. {InlineRoots, pool} \ {InlineRoots} = {}
      BY <1>1, <2>2
    <3>2. CertPool({}) = {}
      BY DEF CertPool
    <3> QED BY <2>1, <3>1, <3>2
  <2>3. CASE pool # {}
    <3>1. {InlineRoots, pool} \ {InlineRoots} = {pool}
      BY <1>1, <2>3
    <3>2. Pool = IF pool \in {Unreadable, {}} THEN Unreadable ELSE pool
      BY <2>1, <3>1 DEF CertPool
    <3> QED BY <1>1, <3>2
  <2> QED BY <2>2, <2>3
<1>2. CASE InlineRoots # {}
  <2>1. Pool = CertPool({InlineRoots, pool})
    BY <1>2 DEF Pool, When
  <2>2. Pool = IF {InlineRoots, pool} \cap {Unreadable, {}} # {} THEN Unreadable ELSE InlineRoots \cup pool
    BY <2>1 DEF CertPool
  <2> QED BY <2>2
<1> QED BY <1>1, <1>2

LEMMA OmsBacks ==
  ASSUME Inv, Readable(oms),
         NEW r, r = OmsResult(Loaded(bundle), oms, Trusted, Pool), r.trusted, Gating(r) = {}
  PROVE  BackedByOmsKey \/ BackedByCertificate
<1> DEFINE S == OmsStandings(Trusted, oms, Pool)
           b == Loaded(bundle)
<1>1. oms # Absent
  BY DEF Readable
<1>2. Parses(oms)
  BY <1>1 DEF OmsResult, Blank
<1>3. oms \in OmsFiles
  BY <1>2 DEF Inv, TypeOK, Readable, TornOms, Parses, ParseBundle
<1>4. b.raw = bundle
  BY DEF Loaded
<1> HIDE DEF S, b
<1>5. /\ r.trusted <=> "trusted" \in S
      /\ "SG-PRV-003" \in r.findings <=> ~(oms.consistent /\ b.raw = oms.raw)
  <2> DEFINE valid == OmsValid(Trusted, oms, Pool)
  <2>1. Judged(OmsResult(b, oms, Trusted, Pool), S, valid, SigningMethod(oms) = "key" /\ ~valid /\ Trusted.keys # {},
               oms.consistent /\ b.raw = oms.raw, FALSE)
    BY <1>1, <1>2, OmsJudged DEF S
  <2>2. r = OmsResult(b, oms, Trusted, Pool)
    BY DEF b
  <2> HIDE DEF valid
  <2> QED BY <2>1, <2>2 DEF Judged
<1>6. "trusted" \in S /\ oms.raw = bundle
  BY <1>4, <1>5 DEF Gating, GatingIds
<1>7. CASE SigningMethod(oms) = "key"
  <2>1. "trusted" \in OmsKeyStandings(Trusted, oms)
    BY <1>6, <1>7 DEF S, OmsStandings
  <2>2. PICK k \in Trusted.keys : (\E s \in oms.sigs : Verifies(k, s)) /\ KeyStanding(Trusted, k) = "trusted"
    BY <2>1 DEF OmsKeyStandings
  <2>3. k \in Roster
    BY DEF Trusted, TrustGiven
  <2>4. k.material \in oms.sigs /\ KeyAdmitted(k)
    BY <2>2, TrustedKeyIsAdmitted DEF Verifies
  <2> QED BY <1>2, <1>6, <1>7, <2>3, <2>4 DEF BackedByOmsKey
<1>8. CASE SigningMethod(oms) # "key"
  <2> DEFINE leaf == oms.certs[1]
             id == CertIdentity(leaf)
             issuer == CertIssuer(leaf)
             T == ProvenTimes(Trusted, oms)
  <2>1. SigningMethod(oms) = "sigstore"
    <3>1. oms.material \in {{"publicKey"}, {"certificate"}}
      BY <1>3 DEF OmsFiles
    <3> QED BY <1>2, <1>8, <3>1 DEF SigningMethod, Parses, ParseBundle
  <2>2. "trusted" \in CertStandings(Trusted, oms, Pool)
    BY <1>6, <1>8 DEF S, OmsStandings
  <2>3. CertSignatureValid(Trusted, oms, Pool) /\ id # NoId /\ Standing(Trusted, {id, issuer}, id, issuer) = "trusted"
    BY <2>2 DEF CertStandings
  <2> HIDE DEF id, issuer
  <2>4. Admitted({id, issuer}, id, issuer)
    BY <2>3, TrustedIsAdmitted
  <2>5. ChainHolds(Trusted, oms, Pool) /\ leaf.material \in oms.sigs
    BY <2>3 DEF CertSignatureValid
  <2> HIDE DEF T, leaf
  <2>6. Pool # Unreadable /\ T # {} /\ Chains(oms.certs, Pool, Earliest(T))
    BY <2>5 DEF ChainHolds, T
  <2>7. Pool # {}
    BY <2>6 DEF Chains
  <2>8. pool \notin {Unreadable, {}} /\ Pool = InlineRoots \cup pool
    BY <2>6, <2>7, PoolIs
  <2>9. oms.entries \subseteq Evidence
    BY <1>3 DEF OmsFiles
  <2>10. T \subseteq Nat
    <3>1. ASSUME NEW e \in oms.entries PROVE e.time \in Nat
      BY <2>9, EvidenceTyped DEF EntryTyped
    <3> QED BY <3>1 DEF T, ProvenTimes
  <2>11. Earliest(T) \in T
    BY <2>6, <2>10, EarliestIsLeast
  <2>12. PICK e \in oms.entries : EntryPasses(Trusted, e) /\ e.time = Earliest(T)
    BY <2>11 DEF T, ProvenTimes
  <2>13. LogKeys = {} \/ Logged(e)
    BY <2>9, <2>12, PassedIsLogged
  <2>14. Chains(oms.certs, InlineRoots \cup pool, e.time)
    BY <2>6, <2>8, <2>12
  <2> QED BY <1>2, <1>6, <2>1, <2>3, <2>4, <2>5, <2>8, <2>13, <2>14 DEF BackedByCertificate, id, issuer, leaf
<1> QED BY <1>7, <1>8

\* Where an attestation is required or a skill installed, nothing is admitted that
\* a listed, admitted and unrevoked key or a certified identity did not sign, as
\* it is now; and the log that proved the time of a certificate holds its entry.
THEOREM AdmittedIsBacked == Spec => []AdmissionIsBacked
<1>1. Inv => AdmissionIsBacked
  <2> SUFFICES ASSUME Inv, NEW q \in Asked, q.required \/ q.mode = "install",
                      Answer(q, Seen(revoked, now)) # "deny"
               PROVE  Backed
    BY DEF AdmissionIsBacked
  <2> DEFINE b == Loaded(bundle)
             s == SgmtPart(b, sgmt, Trusted, SgmtExpired(now))
             o == OmsPart(b, oms, Trusted, Pool)
             seen == Seen(revoked, now)
  <2>1. seen = [sig |-> SignatureState(s, o), gating |-> Gating(s) \cup Gating(o)]
    BY DEF Seen, Trusted
  <2>2. ~Denies(q, seen.sig, seen.gating, q.verdict, q.mode)
    BY DEF Answer, Decide
  <2> HIDE DEF b, s, o, seen
  <2>3. seen.gating = {} /\ seen.sig.trusted
    BY <2>2 DEF Denies
  <2>4. seen.gating = Gating(s) \cup Gating(o) /\ seen.sig.trusted = (s.trusted \/ o.trusted)
    BY <2>1 DEF SignatureState
  <2>5. Gating(s) = {} /\ Gating(o) = {} /\ (s.trusted \/ o.trusted)
    BY <2>3, <2>4
  <2>6. CASE s.trusted
    <3>1. Readable(sgmt) /\ s = Sgmt1ResultGiven(Loaded(bundle), sgmt, Trusted, SgmtExpired(now))
      BY <2>6 DEF s, b, SgmtPart, Blank
    <3> QED BY <2>5, <2>6, <3>1, SgmtBacks DEF Backed
  <2>7. CASE o.trusted
    <3>1. Readable(oms) /\ o = OmsResult(Loaded(bundle), oms, Trusted, Pool)
      BY <2>7 DEF o, b, OmsPart, Blank
    <3> QED BY <2>5, <2>7, <3>1, OmsBacks DEF Backed
  <2> QED BY <2>5, <2>6, <2>7
<1> QED BY <1>1, TypeCorrect, PTL
=============================================================================
