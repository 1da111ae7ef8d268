----------------------------- MODULE PolicyFile -----------------------------
(***************************************************************************)
(* The policy file (pkg/policy): what .surfaceguard.yaml may say, and what *)
(* the program hears of it. Whatever would not be heard is refused.        *)
(*                                                                         *)
(* A file is a sequence of documents; a document is a function from the    *)
(* keys it sets, nested ones dotted, to what it says (an empty document is *)
(* <<>>). In a document                                                    *)
(*   waivers           [rule, path, reason, expires, bundle, root]; path is *)
(*                     <<>> when left out, expires at most one day         *)
(*   trust.keys        [keyid, algorithm, key, identity]; key is [text,     *)
(*                     bytes, p256]: blank, broken or base64 of that many   *)
(*                     bytes, and whether they are a key on that curve      *)
(*   trust.roots       [pem, path]                                         *)
(*   trust.log_keys    [keyid, key]                                        *)
(*   trust.identities  [pattern, issuer]; a pattern is its characters       *)
(***************************************************************************)
EXTENDS Packs, Trust

Severities == DOMAIN ParseSeverity

Lists == {"waivers", "allowlists.domains", "allowlists.paths", "trust.include", "trust.keys",
          "trust.pack_keys", "trust.identities", "trust.roots", "trust.log_keys", "trust.revoked",
          "scoring"}
Unread == {"trust.include", "trust.pack_keys", "scoring", "allowlists.domains", "allowlists.paths"}

Default ==
  [key \in Lists |-> <<>>] @@
  [key \in {"apiVersion"} |-> ""] @@
  [key \in {"attestation.required"} |-> FALSE] @@ [key \in {"attestation.warn_if_missing"} |-> TRUE] @@
  [key \in {"fail_on"} |-> "high"] @@ [key \in {"warn_on"} |-> "medium"]

-----------------------------------------------------------------------------
BadDay == -1
BadGlob == <<"[">>
IsRoot(root) == root \in {"sha256:1", "sha256:2"}
Blank(text) == text \in {"", " "}

\* Mutant: without a rule a waiver is for all of them.
WaiverFitsAnyRule(w) ==
  /\ IF w.root # "" THEN IsRoot(w.root) /\ ~Blank(w.reason) ELSE w.bundle = ""
  /\ w.path # BadGlob /\ BadDay \notin w.expires

WaiverFits(w) ==
  /\ IF w.root # "" THEN IsRoot(w.root) /\ ~Blank(w.reason) ELSE w.bundle = "" /\ w.rule # ""
  /\ w.path # BadGlob /\ BadDay \notin w.expires

\* strings.ToLower(strings.TrimSpace(algorithm)); ed25519 when left out.
AlgorithmOf(k) ==
  CASE k.algorithm \in {"", " ", "ed25519", " Ed25519"} -> "ed25519"
    [] k.algorithm \in {"ecdsa-p256", "ECDSA-P256"} -> "ecdsa-p256"
    [] OTHER -> "unknown"

Ed25519PublicKeySize == 32

\* validateKeyMaterial: the entry is one that could verify a signature.
KeyFits(k) ==
  /\ AlgorithmOf(k) # "unknown"
  /\ k.key.text = "base64"
  /\ AlgorithmOf(k) = "ed25519" => k.key.bytes = Ed25519PublicKeySize

\* verifySignature: whether a signature can verify under the entry at all.
CanVerify(k) ==
  /\ k.key.text = "base64"
  /\ \/ AlgorithmOf(k) = "ed25519" /\ k.key.bytes = Ed25519PublicKeySize
     \/ AlgorithmOf(k) = "ecdsa-p256" /\ k.key.p256

Fits(p) ==
  /\ p["fail_on"] \in Severities /\ p["warn_on"] \in Severities
  /\ \A w \in ToSet(p["waivers"]) : WaiverFits(w)
  /\ \A i \in DOMAIN p["trust.keys"] : LET k == p["trust.keys"][i] IN
       /\ k.keyid # NoId /\ KeyFits(k)
       /\ \A j \in 1..(i - 1) : p["trust.keys"][j].keyid # k.keyid
  /\ \A r \in ToSet(p["trust.roots"]) : (r.pem = "") # (r.path = "")
  /\ \A k \in ToSet(p["trust.log_keys"]) : k.key # ""
  /\ \A r \in ToSet(p["trust.identities"]) : r.pattern # <<>> /\ ToSet(r.pattern) \cap {"?", "["} = {}
  /\ \A key \in Unread : p[key] = <<>>

\* What the first document says, over the defaults.
First(file) == IF file = <<>> THEN <<>> ELSE Head(file)

Threshold(said, default) == IF said = "" THEN default ELSE said

Decoded(file) ==
  [First(file) @@ Default EXCEPT !["fail_on"] = Threshold(@, "high"), !["warn_on"] = Threshold(@, "medium")]

\* Mutant: what follows the first document is not looked at.
OneDocumentRead(file) == TRUE

\* Documents after the first say nothing.
OneDocument(file) == \A i \in DOMAIN file \ {1} : file[i] = <<>>

\* Load: at most one policy; none when a key is unknown or something does not fit.
Load(file) ==
  {p \in {Decoded(file)} : DOMAIN First(file) \subseteq DOMAIN Default /\ OneDocument(file) /\ Fits(p)}

-----------------------------------------------------------------------------
\* A waiver as WaiverForBundle takes it; it ends when its last day begins.
WaiverOf(w, today) ==
  [pinned |-> {w.root} \ {""}, bundle |-> {w.bundle} \ {""}, rules |-> {w.rule} \ {""},
   live |-> \A day \in w.expires : today < day, path |-> w.path]

StarsOf(pattern) == {i \in DOMAIN pattern : pattern[i] = "*"}

\* The parts between the stars, the first being 0.
Part(pattern, n) ==
  LET stars == StarsOf(pattern) \cup {0, Len(pattern) + 1}
      Star(m) == CHOOSE i \in stars : Cardinality({j \in stars : j < i}) = m
  IN SubSeq(pattern, Star(n) + 1, Star(n + 1) - 1)

Beyond(n, text) == SubSeq(text, n + 1, Len(text))

\* What is left of a text after the first place where a part stands in it.
AfterFirst(part, text) ==
  LET at == {i \in 0..Len(text) : IsPrefix(part, Beyond(i, text))}
  IN IF at = {} THEN {} ELSE {Beyond(Min(at) + Len(part), text)}

\* What is left of an identity after all parts of a pattern but the last.
Left(pattern, identity) ==
  LET left[n \in 0..(Cardinality(StarsOf(pattern)) - 1)] ==
        IF n = 0 THEN {Beyond(Len(Part(pattern, 0)), text) : text \in {text \in {identity} : IsPrefix(Part(pattern, 0), text)}}
        ELSE UNION {AfterFirst(Part(pattern, n), text) : text \in left[n - 1]}
  IN left[Cardinality(StarsOf(pattern)) - 1]

\* Mutant: the last part may overlap what the others have used.
matchIdentityWhole(pattern, identity) ==
  IF StarsOf(pattern) = {} THEN pattern # <<>> /\ pattern = identity
  ELSE /\ identity # <<>> /\ Left(pattern, identity) # {}
       /\ IsSuffix(Part(pattern, Cardinality(StarsOf(pattern))), identity)

\* matchIdentity: a star is any run of characters. The parts between the stars are
\* taken where they come first, one after another, and the last one at the end.
matchIdentity(pattern, identity) ==
  IF StarsOf(pattern) = {} THEN pattern # <<>> /\ pattern = identity
  ELSE /\ identity # <<>>
       /\ \E rest \in Left(pattern, identity) : IsSuffix(Part(pattern, Cardinality(StarsOf(pattern))), rest)

\* The roster that verification sees (module Trust).
RosterOf(p, identities) ==
  [keys |-> {[keyid |-> k.keyid, material |-> k.key, identity |-> k.identity] : k \in ToSet(p["trust.keys"])},
   identities |-> {[issuer |-> r.issuer, admits |-> {id \in identities : matchIdentity(r.pattern, id)}] :
                     r \in ToSet(p["trust.identities"])},
   revoked |-> ToSet(p["trust.revoked"]),
   logKeys |-> {[keyid |-> k.keyid, material |-> k.key] : k \in ToSet(p["trust.log_keys"])},
   pinsRoots |-> p["trust.roots"] # <<>>]

-----------------------------------------------------------------------------
(***************************************************************************)
(* What a policy is expected to do.                                        *)
(***************************************************************************)
\* What a pattern covers, one character after the other.
Covers(pattern, identity) ==
  LET covers[i \in 1..(Len(pattern) + 1), j \in 1..(Len(identity) + 1)] ==
        IF i > Len(pattern) THEN j > Len(identity)
        ELSE IF pattern[i] = "*" THEN covers[i + 1, j] \/ (j <= Len(identity) /\ covers[i, j + 1])
        ELSE j <= Len(identity) /\ pattern[i] = identity[j] /\ covers[i + 1, j + 1]
  IN covers[1, 1]

\* The findings and bundles that a waiver may name.
Finding(rule, file) == [rule |-> rule, file |-> file]
BundlesOf(w) == {[name |-> name, root |-> root] : name \in {"", w.bundle}, root \in {"sha256:1", "sha256:2"}}

\* It waives something, nothing of another rule, and pinned nothing of another bundle.
WaiverIsHeard(w, today) ==
  LET waives(rule, id) ==
        Waives(WaiverOf(w, today), Finding(rule, IF w.path = <<>> THEN <<"file">> ELSE w.path), id)
      rule == IF w.rule = "" THEN "some" ELSE w.rule
  IN /\ (\A day \in w.expires : today < day) => \E id \in BundlesOf(w) : waives(rule, id)
     /\ \A id \in BundlesOf(w) :
          /\ waives("another", id) => w.rule = "" /\ id.root = w.root
          /\ waives(rule, id) /\ w.root # "" => id.root = w.root /\ w.bundle \in {"", id.name}

PolicyIsHeard(file, p, today, identities) ==
  LET roster == RosterOf(p, identities)
  IN /\ \A i \in DOMAIN file : \A key \in DOMAIN file[i] :
          /\ p[key] = file[i][key] \/ (key \in {"fail_on", "warn_on"} /\ file[i][key] = "")
          /\ key \in Unread => file[i][key] = <<>>
     /\ \A w \in ToSet(p["waivers"]) : WaiverIsHeard(w, today)
     /\ WellFormedRoster(roster)
     /\ \A k \in ToSet(p["trust.keys"]) : CanVerify(k) \/ AlgorithmOf(k) = "ecdsa-p256"
     /\ \A r \in ToSet(p["trust.identities"]) :
          \E admits \in {{id \in identities : Covers(r.pattern, id)}} :
            admits # {} /\ [issuer |-> r.issuer, admits |-> admits] \in roster.identities
=============================================================================
