-------------------------------- MODULE Gate --------------------------------
(***************************************************************************)
(* What is done with verification results: pkg/guard's decision and the    *)
(* verify command's exit code, for one bundle and for many.                *)
(*                                                                         *)
(* A policy is a record [required, warnIfMissing, trust, ...] (the rest of *)
(* its fields belong to scanning). sgmt and oms are the two signature      *)
(* files: Absent, Unreadable or a record of module Verify.                 *)
(***************************************************************************)
EXTENDS Verify

\* The findings that gate: invalid, mismatch, revoked or expired. Absent, no
\* roster and integrity-only are the policy's business.
GatingIds == {"SG-PRV-002", "SG-PRV-003", "SG-PRV-004"}
Gating(r) == r.findings \cap GatingIds

\* A signature file is consulted when it could be read; both the gate and the
\* commands ignore an OMS file they cannot read.
Readable(f) == f \notin {Absent, Unreadable}

-----------------------------------------------------------------------------
\* verifyProvenance: the results of the signatures the bundle carries. An
\* unreadable .skillsig is passed over as if it were absent.
SgmtPart(b, sgmt, t, expired) ==
  IF Readable(sgmt) THEN Sgmt1ResultGiven(b, sgmt, t, expired) ELSE Blank
OmsPart(b, oms, t, pool) ==
  IF Readable(oms) THEN OmsResult(b, oms, t, pool) ELSE Blank

\* applySignature over the two results: present, valid and trusted are ORed.
SignatureState(s, o) ==
  [present |-> s.present \/ o.present,
   format  |-> CASE s.present /\ o.present -> "both"
                 [] s.present /\ ~o.present -> "sgmt-1"
                 [] ~s.present /\ o.present -> "oms"
                 [] OTHER -> "none",
   valid   |-> s.valid \/ o.valid,
   trusted |-> s.trusted \/ o.trusted]

\* Mutant: one good signature excuses every provenance finding.
DeniesUntrusted(pol, sig, gating, verdict, mode) ==
  \/ gating # {} /\ ~sig.trusted
  \/ pol.required /\ ~sig.trusted
  \/ verdict = "fail"
  \/ ~sig.trusted /\ mode = "install"

\* decide. verdict is "none" when the caller skipped the scan.
Denies(pol, sig, gating, verdict, mode) ==
  \/ gating # {}
  \/ pol.required /\ ~sig.trusted
  \/ verdict = "fail"
  \/ ~sig.trusted /\ mode = "install"

Warns(pol, sig, verdict) ==
  \/ verdict = "warn"
  \/ ~sig.trusted /\ pol.warnIfMissing

Decide(pol, sig, gating, verdict, mode) ==
  IF Denies(pol, sig, gating, verdict, mode) THEN "deny"
  ELSE IF Warns(pol, sig, verdict) THEN "warn"
  ELSE "allow"

\* Mutant: the first format that is present has the last word.
GateOutcomeFirst(b, sgmt, oms, pol, pool, expired, verdict, mode) ==
  LET s == SgmtPart(b, sgmt, pol.trust, expired)
      o == OmsPart(b, oms, pol.trust, pool)
  IN Decide(pol, SignatureState(s, o), IF s.present THEN Gating(s) ELSE Gating(o), verdict, mode)

\* Guard's provenance and decision for one bundle, given whether its
\* attestation has expired and what the scan said.
GateOutcome(b, sgmt, oms, pol, pool, expired, verdict, mode) ==
  LET s == SgmtPart(b, sgmt, pol.trust, expired)
      o == OmsPart(b, oms, pol.trust, pool)
  IN Decide(pol, SignatureState(s, o), Gating(s) \cup Gating(o), verdict, mode)

-----------------------------------------------------------------------------
\* verificationFailed: exit code 2 for one format's result.
VerificationFailed(r, pol) ==
  \/ pol.required /\ ~r.present
  \/ Gating(r) # {}

\* Mutant: the OMS result replaces that of SGMT-1.
VerifyExitLast(b, sgmt, oms, pol, pool, now) ==
  IF sgmt = Unreadable /\ ~Readable(oms) THEN 3
  ELSE IF IF Readable(oms)
          THEN VerificationFailed(OmsResult(b, oms, pol.trust, pool), pol)
          ELSE VerificationFailed(Sgmt1Result(b, sgmt, pol.trust, now), pol)
  THEN 2
  ELSE 0

\* `verify <one bundle>`: the exit code. An attestation that cannot be read is
\* a usage error, but only when there is no OMS signature to report instead.
VerifyExit(b, sgmt, oms, pol, pool, now) ==
  IF sgmt = Unreadable /\ ~Readable(oms) THEN 3
  ELSE IF \/ sgmt # Unreadable
             /\ VerificationFailed(Sgmt1Result(b, sgmt, pol.trust, now), pol)
          \/ Readable(oms)
             /\ VerificationFailed(OmsResult(b, oms, pol.trust, pool), pol)
  THEN 2
  ELSE 0

\* stateOf: the word one result gets in the multi-bundle table.
StateOf(r) ==
  IF ~r.present THEN "unsigned"
  ELSE IF "SG-PRV-003" \in r.findings THEN "merkle-mismatch"
  ELSE IF r.revoked THEN "revoked"
  ELSE IF r.expired THEN "expired"
  ELSE IF r.findings \cap {"SG-PRV-002", "SG-PRV-004"} # {} THEN "invalid"
  ELSE IF r.trusted THEN "verified"
  ELSE "unverified"

VerifyStates == <<"error", "merkle-mismatch", "invalid", "revoked", "expired",
                  "unverified", "unsigned", "verified">>
StateRank(s) == CHOOSE i \in DOMAIN VerifyStates : VerifyStates[i] = s
WorstState(S) == CHOOSE s \in S : \A x \in S : StateRank(s) <= StateRank(x)

\* verifyOne: a row of the multi-bundle table. An attestation that is there
\* and cannot be read fails the bundle before OMS is looked at.
VerifyRow(b, sgmt, oms, pol, pool, now) ==
  LET results == When(Readable(sgmt), {Sgmt1Result(b, sgmt, pol.trust, now)})
                 \cup When(Readable(oms), {OmsResult(b, oms, pol.trust, pool)})
  IN IF sgmt = Unreadable THEN [state |-> "invalid", failed |-> TRUE]
     ELSE IF results = {} THEN [state |-> "unsigned", failed |-> pol.required]
     ELSE [state  |-> WorstState({StateOf(r) : r \in results} \cup {"verified"}),
           failed |-> \E r \in results : VerificationFailed(r, pol)]
=============================================================================
