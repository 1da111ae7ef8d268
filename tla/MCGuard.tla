------------------------------- MODULE MCGuard -------------------------------
(* Values for model checking Guard: one trusted key, signatures over the     *)
(* first content (fresh until 1; for OMS, the first stamp), a waiver           *)
(* that hides the first content's findings until 1.                          *)
EXTENDS Guard, TLC

K1 == [keyid |-> "k1", material |-> "m1", identity |-> "i1"]

Signed ==
  [payloadOk |-> TRUE, sigs |-> <<[keyid |-> "k1", by |-> "m1"]>>, root |-> "c1",
   expires |-> 1, scanned |-> TRUE, publisher |-> "i1"]

KeyBound == [json |-> TRUE, material |-> {"publicKey"}, predicate |-> "v1.0", sigs |-> {"m1"},
             raw |-> [content |-> "c1", stamp |-> "s1"], consistent |-> TRUE,
             certs |-> << >>, entries |-> {}]

\* A certificate's signature, in a log of one entry.
Logged(body) ==
  [decodes |-> TRUE, body |-> body, proof |-> {HonestProof(<<body>>, 0, 1)},
   checkpoint |-> {[size |-> 1, root |-> TreeHash(<<body>>, 1)]},
   signer |-> "l1", logId |-> "", time |-> 1]
CertBound ==
  [KeyBound EXCEPT
     !.material = {"certificate"},
     !.certs = <<[name |-> "", by |-> "a1", material |-> "m1",
                  san |-> [uri |-> "", email |-> "e", dns |-> ""],
                  issuers |-> [current |-> "g", original |-> ""], from |-> 1, to |-> 1]>>,
     !.entries = {Logged(<<1>>)}]

Trust1 == [keys |-> {K1}, identities |-> {}, revoked |-> {}, logKeys |-> {}, pinsRoots |-> TRUE]
Policy1(required, waivers) ==
  [required |-> required, warnIfMissing |-> FALSE, trust |-> Trust1, waivers |-> waivers]
Ask(pol, mode, skip, useCache) ==
  [pol |-> pol, mode |-> mode, skip |-> skip, useCache |-> useCache]

Waiving == Ask(Policy1(FALSE, {[expires |-> 1]}), "load", FALSE, TRUE)

\* The second content fails; the first has a finding that the waiver hides, and
\* the second release's rules find something nothing hides.
MCVerdict(b, rls, honoured) ==
  CASE b.content = "c2" \/ rls = "r2" -> "fail"
    [] b.content = "c1" /\ rls = "r1" /\ honoured = {} -> "warn"
    [] OTHER -> "pass"

SignedOrAbsent == {Absent, Signed}
NoEnvelope == {Absent}
NoOms == {Absent}
OmsOrNot == {Absent, CertBound}
OnlyKeyBound == {KeyBound}
OnePool == {{"a1"}}
TwoPools == {{"a2"}, {"a1"}}
OnlyWaiving == {Waiving}
Skipping == {Ask(Policy1(TRUE, {}), "load", TRUE, TRUE)}

AllStarts == [bundle : Bundle, sgmt : Envelopes, oms : OmsFiles, pool : Pools, rules : RuleSets]

\* A bundle signed in both formats.
BothSigned ==
  {[bundle |-> [content |-> "c1", stamp |-> "s1"], sgmt |-> Signed, oms |-> CertBound,
    pool |-> {"a1"}, rules |-> "r1"]}

CallerSymmetry == Permutations(Callers)
=============================================================================
