------------------------------- MODULE Trust -------------------------------
(***************************************************************************)
(* The consumer's roster (pkg/policy): which keys and identities a policy  *)
(* knows, which it revokes and which it admits.                            *)
(*                                                                         *)
(* A roster t is a record                                                  *)
(*   keys        roster entries [keyid, material, identity]                *)
(*   identities  rules [issuer, admits]; admits is the set of identities   *)
(*               the rule's glob matches (matchIdentity never matches the  *)
(*               empty identity, so NoId is in no rule)                    *)
(*   revoked     key ids and identities, in one set as in the source       *)
(*   logKeys     pinned transparency-log keys                              *)
(*   pinsRoots   whether trust.roots is non-empty                          *)
(* Load rejects two entries with one keyid, so keyid identifies an entry.  *)
(***************************************************************************)
EXTENDS Naturals

CONSTANTS
  NoId    \* the empty string: no identity, no issuer, no key id

\* Trust.Revokes: any non-empty value that the one revocation list names.
Revokes(t, values) == \E v \in values \ {NoId} : v \in t.revoked

\* Trust.Allows: no rules admit everyone; an issuer is compared only by the
\* rules that name one.
Allows(t, identity, issuer) ==
  \/ t.identities = {}
  \/ \E r \in t.identities :
       /\ r.issuer \in {NoId, issuer}
       /\ identity \in r.admits

\* The switch both verifiers apply to a signature that verified: revocation
\* is asked first, then the identity rules, and only then is it trusted.
Standing(t, values, identity, issuer) ==
  CASE Revokes(t, values) -> "revoked"
    [] ~Revokes(t, values) /\ ~Allows(t, identity, issuer) -> "rejected"
    [] OTHER -> "trusted"

\* Mutant: the bound identity is not asked about.
KeyStandingById(t, k) == Standing(t, {k.keyid}, k.identity, NoId)

\* A roster entry's own standing: its key id and bound identity are asked
\* together, and a roster key has no issuer.
KeyStanding(t, k) == Standing(t, {k.keyid, k.identity}, k.identity, NoId)

\* validate: a key id names one entry.
WellFormedRoster(t) ==
  \A j, k \in t.keys : j.keyid = k.keyid => j = k
=============================================================================
