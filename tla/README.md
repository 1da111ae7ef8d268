# SurfaceGuard in TLA+

SurfaceGuard decides whether an agent may load a *skill*, a directory with a
`SKILL.md`. It scans the files with rules, verifies the signatures beside them
(`SKILL.md.skillsig`, called SGMT-1, and `skill.oms.sig`, called OMS) against the
consumer's roster, and folds both into one answer: allow, warn or deny. These
modules model the part of the program where that answer can be wrong in a way a
unit test hardly reaches: several signatures under one roster, files that change
between two reads, clocks read three times, caches shared by processes that die,
worker pools, configuration that a repository may only tighten, files that load and
are not heard, and reports that could hide what was found.

## 1. Inventory

| Part | State | Operations | What makes it correct |
|---|---|---|---|
| Policy and roster, `pkg/policy` | the loaded policy; pinned-root files | `Load`, `Revokes`, `Allows`, `CertPool`, `WaiverForBundle` | what a file says is heard or the file is refused; revocation is asked before identity, identity before trust; a key id names one key; an unreadable expiry is not honoured |
| SGMT-1 verification, `pkg/verify/verify.go` | none (reads the clock) | `Verify` | a trusted result needs a fresh signature by an admitted key over these bytes |
| OMS verification, `pkg/verify/oms.go`, `pkg/attest/oms` | none | `VerifyOMSAt`, key-bound, certificate-bound, transparency log | the certificate chains to a pinned authority at a time that a pinned log proves; an inclusion proof is accepted for one leaf only |
| The gate, `pkg/guard/guard.go` | one call's readings | `Guard` | nothing one format finds is hidden by the other; a decision carries the instant it stops being true |
| Verdict cache, `pkg/guard/cache.go` | in memory, or one file per key | `Get`, `Put` | a decision is served only for the question it answers; a broken cache costs time, never correctness |
| Signing, `pkg/attest`, `sign` | the files of the bundle | load, write envelope, write OMS, rewrite `SKILL.md` | what a finished run wrote verifies; what an unfinished one left is not trusted |
| `verify`, one and many bundles | none | exit codes, table states | agrees with the gate; one bundle gets one answer |
| Merkle tree, `pkg/attest/merkle.go` | none | `MerkleRoot` | two bundles never have one root |
| Bundle loading, `pkg/skill/skill.go`, `pkg/attest/merkle.go`, `pkg/attest/oms` | none | `LoadBundle`, `NormalizeSkillMD`, `BundleLeaves`, `Enumerate`, `VerifyManifest` | three cuts through `SKILL.md` fit together: what a root or a manifest covers determines what the loader hands on |
| Scanner, `pkg/scan`, `pkg/rules` | findings of one scan; the results of a batch | `Scan`, `ScanAll`, `Aggregate` | every line is scanned, under its own number; context rules only lower; every bundle of a batch is scanned once and reported at its place, whatever the schedule |
| Rule packs, `pkg/rules/loader.go` | none | `LoadPack`, compile | a pack that loads means what it says |
| Discovery, `pkg/skill/discover.go` | visited directories, bundles by real path | `Discover` | every skill is found once under its first path, links do not loop, what is cut off is noted |
| `scan`, one, many or `--installed` | none | discover, scan all, attribute agents, write | exit code 0 means that everything named was looked at |
| Agent locations, `pkg/locations` | the registry | `Parse`, `Resolve` | every folder an agent reads is found, once, for every agent that reads it |
| Reports, `pkg/report` | none | SARIF, text of one and of many, source frames | an alert keeps its identity through edits; a marker stands under what matched; no failure is hidden |
| Agent hook, `hooks/` | the merged configuration | `load_config`, `evaluate` | a project may only tighten; every failure follows `on_error` |
| Keyless signing, `keyless/` | none | OIDC, Fulcio, Rekor, then an OMS bundle | external services |
| Hook installer, key files, evaluation scripts | a settings file; PEM files | edit, read, write | not modelled, see section 7 |

Interactions: the hook runs the `guard` command as a subprocess; `guard`, `scan`,
`verify` and `installed` call the same packages on the same files; `guard`
processes share the cache directory and nothing else; `sign` and any editor
write the files that all of them read, without locks.

The hard behaviours, each at its line, are the `hazards` of `PROJECT.json`.

## 2. Modules

Every module is written to be both checked and proved about: parameters are
constants with named assumptions, and there is one action per operation or system
call. No module has a RECURSIVE operator, under which the prover would lose its
arithmetic: what the code does by recursion is a recursive function. Over match trees
(`Eval`, `Compiles`, `compileCond`) its domain is a constant, the trees level by level
(`TreeLevels`, `CondLevels`): a rule file nests its conditions to some finite depth.

| Module | Models |
|---|---|
| `Trust` | the roster: `Revokes`, `Allows`, and the switch that gives a verified signature its standing |
| `MerkleTree` | the SGMT-1 tree, level by level; the tree of a log, and an inclusion proof rebuilt step by step as `tlog.go` does |
| `Verify` | both verifiers as operators from files, roster, root pool and time to a result record; certificate chains, log entries and checkpoints |
| `Gate` | what is done with results: the gate's decision, `verify`'s exit code, a row of the multi-bundle table |
| `Provenance` | the life of one skill: a signer step by step, other writers, revocation, root edits, time; asks `Gate` in every state |
| `VerdictStore` | the abstract promise of `guard.Cache` |
| `FileCache` | `guard.FileCache` one system call at a time, with kills and power loss; implements `VerdictStore` |
| `Guard` | `guard.Guard` with a cache, several callers, one file read or clock reading per step, the world changing in between |
| `ScanPool` | `scan.ScanAll` and `Aggregate`: the goroutine that hands out work, the workers, the wait group, the report |
| `Hook` | the agent hook: `load_config` over user, project and environment, then one event from tool call to answer |
| `Discovery` | `skill.Discover`: the walk, one directory entry per step, and the candidates it returns |
| `Locations` | the registry of agents, and the folders it resolves to on a machine |
| `Audit` | the `scan` and `locations` commands around `Locations` and `Discovery`, from arguments to exit code and the text of many bundles |
| `Manifest` | `SKILL.md` as lines: what the loader, the SGMT-1 normaliser and the field writer make of it, and what a YAML parser reads |
| `Bundle` | a directory and what is loaded from it, with roles; the leaves of the root; the OMS manifest, made and checked |
| `Scan` | rules, context rules, deduplication, waivers, verdict and score as operators from a bundle to a report |
| `Packs` | a rule pack from what is written to the rules and context rules of `Scan`, or its refusal |
| `PolicyFile` | a policy file from its documents to policy, roster and waivers, or its refusal |
| `Sarif` | the order of the findings, the SARIF log of one bundle and of many, fingerprints |
| `Frame` | line and columns of a match, the printed window and its marker, wrapped prose |
| `Review` | one directory signed and edited line by line, under built-in rules and a pack; relates `Bundle`, `Manifest`, `Scan`, `Packs`, `PolicyFile`, `Sarif` and `Frame` |
| `VerifyProofs` | the theorems about `MerkleTree`, roots and proofs of inclusion, and lemmas about the verifiers: what a result that verifies says; used by the next two |
| `GuardProofs`, `ProvenanceProofs` | the theorems about the cached gate, and about the life of a skill |
| `FileCacheProofs`, `ScanPoolProofs`, `HookProofs`, `AuditProofs`, `ReviewProofs` | the theorems about these modules |
| `MC*` | values for TLC |

`ScanPool` and `Hook` stand alone: the pool treats a scan as one step of unknown
result, the hook treats the `guard` command as a process that answers, fails or
does not return.

`Provenance` and `Guard` both extend `Gate`, which extends `Verify`, which
extends `Trust`: the same definitions of the verifiers are judged over time, and
cached. `Verify` takes log proofs from `MerkleTree`. `PolicyFile` extends `Trust` as
well, whose rosters it yields. `Audit` extends `Locations`, which extends
`Discovery`.

### How state and actions correspond to the code

* *Cryptography is symbolic.* A signature names the key it was made with, or is
  `Garbage`; it verifies under a roster entry when they agree (`Verifies`). A
  hash is injective: a cache key is the record of what was hashed, and in
  `MerkleTree` a hash is the tuple of its inputs. Elsewhere a Merkle root is the
  content (`Provenance`, `Guard`) or the function from paths to leaves (`Bundle`),
  which `RootNamesItsLeaves` justifies. A certificate names
  who issued it and its validity interval; `Chains` looks for a way over the
  certificates in the file to a pinned authority, all valid at the anchor time.
* *A transparency log* is the sequence of bodies it holds in the end (`Ledger`). An
  entry offers a proof and a checkpoint, each possibly missing or of another tree;
  the proof is rebuilt by `RootFromInclusionProof` against the checkpoint's root.
  That a log only appends is an assumption (`LogsAppend`): a checkpoint signed by a
  log's key is the root of a prefix of what that log holds. It also says that bodies
  are sequences and that an entry carries at most one proof, as `TlogEntry` has one
  field for it. The entry's time is not
  authenticated by the code, so it is free in the model.
* *A bundle* is `[content, stamp]`. `stamp` stands for the reserved
  `content_hash`/`signature` lines that `NormalizeSkillMD` drops: the SGMT-1 root
  is the content alone, the OMS manifest covers both. Reserved lines that it keeps
  (empty, repeated, continued) are content. `--emit-manifest-fields` removes those as
  well and may write its own before an indented line, so it may change the content;
  which content becomes which is a constant (`Rewritten`).
* *Roster rules* are sets: a rule admits the identities its glob matches.
* *Signature loops* become sets of standings (`EnvelopeStandings`,
  `OmsKeyStandings`): the loop sets one flag per verifying signature and never
  clears one, so only which standings occur matters. `verifyTransparency` is a
  set as well: an entry that is refuted ends the loop with an error wherever it
  stands, and otherwise the earliest accepted time is used. A duration wraps as a
  signed integer of `DurationBits` bits (`Duration`), a day is `Day` ticks.
* *A `sign` run* (`SignLoad` to `SignExit`) loads once; each signature file is
  truncated and then written (two actions), `SKILL.md` is replaced by a rename
  (one action); the process may be killed before any of them.
* *A guard call* is `Load`, `Hash`, `Hit` or `Miss`, `VerifySgmt`, `VerifyOms`,
  `Bound`, `ScanAndDecide`, `Put`, `Return`. The signature files are read by
  `Hash` and again by `VerifySgmt` and `VerifyOms`; the clock by `Hit`/`Miss`,
  `VerifySgmt`, `Bound` and `ScanAndDecide`. The decision record keeps what was
  read as a history field (`from`) that no step uses.
* *`Put` of the file cache* is `CreateTemp`, `WriteTemp`, `CloseTemp`,
  `RenameTemp`, each of which may fail; `Get` is one read and, for bytes that do
  not parse, a removal by name. The code flushes nothing: an entry that was renamed
  or removed reaches the disk when the file system writes it back (`Flush`), and a
  `PowerLoss` before that leaves it as it is, torn, gone, or as it was at any time
  since the last write-back (`was`, `OnDisk`). The store it implements has the same
  in its own terms (`past`, `WriteBack`, `LosePower`), and no other way back.

* *A batch* (`ScanPool`): the channel is unbuffered, so handing over an index is
  one step of the producer and of the worker that receives it. A worker loads,
  scans and stores its own slot in separate steps; the wait group is a counter of
  its own beside the workers it counts, because the two may disagree in code.
* *A hook process* answers one event. A configuration file is a partial function
  from keys to values, one of which (`Bad`) has a type the code does not accept;
  merging, the guard run and the answer are steps. A traceback is modelled by
  what the host does with it: the tool call proceeds.

* *A file system* (`Discovery`) is a set of directories, those among them that
  hold a `SKILL.md`, those that cannot be read, and symlinks with the path each
  resolves to; it stands still during a walk. `RootFile`, `RootDir`, `Link`,
  `SkipName`, `Prune`, `Descend` and `Leave` are the branches of `walk`; a frame
  of the stack is an open call. `seen` is `seenDir`, `order` and `reach` are
  `byReal`. `Audit` calls it with the command's paths and then scans all it found
  in one step (the pool's schedule is `ScanPool`'s), each bundle giving an error
  or a verdict. A machine (`Locations`) is a home directory, variables, a system and
  the directories with a `.git`; a registry path is a sequence of texts and
  variables with defaults, so that expansion, `~` and joining are what they are in
  `expand`. `MultiText` is the text of many bundles: which row stands in which
  agent's table in which order, and which is told in detail. A list that the code
  sorts is a sequence of the same members in that order (`InOrder`), and what is
  computed from one sorting is a set of one (`Candidates`, `Resolve`, `MultiText`):
  nothing depends on how the sorting is done.

* *A line* (`Manifest`, `Bundle`, `Scan`) has a key, the shape of its value, an
  indentation, and marks. A rule's pattern is a mark and matches the lines that
  carry it; the program's own patterns (fence, heading, documentary keyword, NUL
  byte, shebang) are marks as well, and so are windows of bytes lines. `YamlStep`
  is the part of yaml.v3 that decides which lines a value is made of, for a front
  matter whose keys stand at the margin: blank and comment lines, block scalars with
  and without kept blank lines, plain values and quotes that go on, children, list
  items at the margin or indented, repeated keys. A value is the sequence of its
  lines; blank lines inside one are left out of it unless the block keeps them, and
  what is nested in one is taken to be readable.
* *Offsets.* `Targets` carries the offset of each target, `Evaluate` and `Spans`
  add it, as `Scan` in Go does. Confidence is in hundredths.
* *Findings are sets.* `Surer` keeps the tie-break of `dedup`, which is the order
  of the rules; `Sarif` sorts them (`Precedes`: stable, so the order of the rules
  decides last) and counts equal fingerprints in that order. A fingerprint is the
  record of what is hashed.
* *A pack* (`Packs`) is a record per rule as it is written, empty where a key was
  left out; `Compiled` refuses or yields rules of `Scan`. *A policy file*
  (`PolicyFile`) is a sequence of documents, each a function from the keys it sets;
  what the YAML decoder does with an unknown key or a second document is part of
  it, and `Fits` is translated check by check. Severity names, which the code
  trims and folds in case, are taken in their normal spelling. Identity patterns
  are sequences of characters, matched as `matchIdentity` does.
* *A line on the screen* (`Frame`) is a sequence of runes of which only the columns
  they take matter.
* *`Review`* keeps the directory and what was signed last. `Sign` computes root
  and manifest from one load and then writes the envelopes and the fields, in one
  step (its steps are `Provenance`'s).

Actions of others (`Edit`, `InsertLine`, `CoSign`, `DamageEnvelope`, `Change`, `Die`, ...) have
no line in the source; they are the environment that its comments name.

## 3. Runs

| Run | Question | Bounds, and why they are enough |
|---|---|---|
| `Provenance_Sgmt` | with SGMT-1 alone, is every admission backed, do gate and `verify` agree, can revocation or time relax an answer? | two roster keys, of which the rules admit one, and an outsider; two signatures per file (trusted beside revoked, rejected or forged); expiry one tick, tolerance one tick, clock to 3, so every side of both borders occurs; nothing for `sign` to clean up; Merkle trees of up to six leaves, so odd nodes occur on each of three levels |
| `Provenance_Oms` | both formats: is drift under either denied, does a finished `sign` verify? | two contents, one stamp beside none; the rewriting by `sign` turns one content into the other and keeps the other, so both branches of `SignedBundleVerifies` are reached; revocable key and identity; clock still (expiry is the other run's); validities of 0, 1 and 5 days with two days the bound and durations of four bits, so the bound is passed and a duration wraps |
| `Provenance_Certificate` | keyless: is the anchor time proven by a pinned log under a pinned root? | two authorities, an intermediate that is there, expired or missing; two logs, one pinned; extra entries that are broken, mismatched, unpinned, unproven, time-less, outside the window, under a false index, with a cut path or beside another tree's checkpoint; logs of up to six leaves, with every index and every path of a smaller log offered as evidence |
| `Guard` | are two concurrent callers served what they would compute; does every entry belong to its key and end in time, whatever changes? | two callers suffice for every pair of interleaved reads and for overwriting; clock to 3 passes expiry and tolerance; one change of any kind at any point; starts from a bundle signed in both formats. `MidCall` is off, because replacing a signature inside a call is one of the ways to a stale answer; the proofs cover it on |
| `FileCache` | does the directory of files implement the store? | two processes, one key, two decisions, three temporary names, two crashes (kills and power losses together): a power loss over an entry that replaced another, a second one over what the first left, and a kill before either |
| `ScanPool` | is every slot written once, by one worker, and does the batch end with the aggregate of all, whatever the schedule? | three processors and batches of up to four, so there are more and fewer bundles than workers; load and scan each may fail; deadlock is checked |
| `Hook` | may a project configuration loosen anything, and does every failure follow `on_error`? | 16 user, 13 project and 2 environment configurations with absent, good and ill-typed values of every merged key; all events, bundles and outcomes of the guard run; deadlock is checked |
| `Audit` | does exit code 0 mean that everything was looked at, are the rows what the folders hold, is every agent that reads a bundle told, does the text hide no failure? | nine directories three deep, one of them vendored; every placing of four skills; ten link sets (to a folder, to a bundle, from inside and beside, meeting, cyclic, dangling); one unreadable directory; both limits hit and not hit; four agents with shared, moved, linked, legacy and system-bound folders, two levels of walk-up; 69 command lines; deadlock is checked |
| `Review` | is every line scanned under its number, do context rules and inserted lines hide nothing, does what a root or an OMS manifest covers determine manifest and findings, do alerts survive edits, and does a pack or a policy file that loads mean what it says? | front matter of up to two lines out of nine kinds (plain, empty, open and closing quotes, indented, reserved in both spellings) with up to two edits after a signing, so a reserved line can be placed before, between and after signed ones, twice, and around them; twelve more with values of several lines (blocks, kept blank lines, gaps and remarks inside values, lists at the margin and below) with one edit; one bundle with every role, nested and ignored files, fences, headings and keywords, with every single-line edit and six added files; four rules (leaf, `any`, `all`, `not`), five contexts of the three scopes, one of which lowers a whole file for a line of its front matter. Packs of one rule: every combination of a few values of every field, of which those that load are starting states. 4921 policy files, of which 486 load: waivers, identity patterns of up to five characters and keys one at a time, keys in pairs, everything else in one document or two. Lines of up to 28 columns with wide runes near both cuts |
| `Finding_CacheStamp` | "one changed byte is a miss" (`README.md:1146`) | refuted |
| `Finding_PlaceholderField` | "without altering the Merkle leaf" (`merkle.go:124`) | refuted |
| `Finding_HookLog` | "never fail the hook on a log write" (`surfaceguard_hook.py:519`) | refuted |

Deadlock is not checked where a bounded clock and bounded changes let the model
stop (a `guard` call is always able to return; it is the callers that may not
call again). Symmetry is used for contents, callers, processes, decisions and
temporary names, which are only compared for equality, and only in runs whose
properties are invariants or mention them symmetrically.

Fairness is assumed in `ScanPool` and `Audit`: in the second, of the one process
that runs the command; in the first, weak fairness of the goroutine that runs
`ScanAll` and of each worker. Go's scheduler runs every runnable goroutine, and a
load or a scan of one bundle ends (the walk is bounded in depth, a file in size).
`guard`, `sign` and the hook promise nothing about when a caller proceeds, and
their specifications state safety only.

### What the refuting runs show

* **A changed byte that is not a miss.** The cache key holds the SGMT-1 root,
  which leaves out the reserved lines of `SKILL.md`. A bundle signed with OMS
  alone is allowed and cached; change one reserved line, and recomputing finds a
  manifest mismatch while the cache serves the allow. The same property fails
  when the certificates in a `trust.roots` file or the rule packs change, since
  neither is in the key, and when an attestation is replaced between
  `decisionKey` and `verifyProvenance` (set `Changes` and `MidCall`).
* **A signature that its own run invalidates.** With an empty placeholder such as
  `signature:` in the front matter, `sign --emit-manifest-fields` hashes the line
  into the leaf, because its value is not a scalar that `stripSafeReserved` drops,
  and then `WriteUSFFields` removes it, because its own expression takes any value.
  The root in the fresh `.skillsig` is not that of the bundle. The same happens with
  a reserved key that occurs twice and with one whose next line is indented.
  `CleanSigningVerifies` is the positive half: with reserved lines the leaf leaves
  out, signing keeps the root.
* **A denial that is never given.** `audit_log` runs between the decision and the
  answer and expands `log_file` outside its `try`: a `log_file` that is not a
  string (such as `null`) raises there, outside `evaluate_safely`, and the hook
  ends with a traceback and no answer, so the host lets the tool call proceed.

Refuted when checked, kept in their positive form: `verify` of one bundle and of
many disagree about an unreadable `.skillsig` beside a good OMS signature, and
about a required attestation that is absent beside one, against
`verify_many.go:111` (`TableAgreesWithVerify` leaves these two out); when one
agent's skill directory is a link to another's, `walk` returns at once for the
second root and its agent is not listed, against `commands.go:75`, and a requested
path inside a bundle, below a skipped name or behind a link of some agent's folder is
attributed to that agent by its name, although a walk of the folder does not come by
there (`EachAgentIsTold` leaves out both: of the first it claims that nobody is named
wrongly, not that nobody is missing; `ComesBy` is the second). The second was
stated too weakly at first, for folders alone and not for paths named beside
`--installed`; its proof did not go through, and such a command line is now among
those that TLC runs.

Refuted by a proof attempt: that a scan finds the same below the front matter while the
root is the signed one, for every context rule. One of scope `file` that looks at the
manifest reads the front matter with the reserved lines in it, which the root leaves
out, so an edit of one can lower every finding of `SKILL.md`. No built-in context is of
that kind (those of scope `file` in `context.yaml:118-132` go by path), but a pack may
bring one. `RootCoversScan` is about the others (`InPlace`); with such a context beside
them, TLC refutes it without that restriction.

Whether a reserved line is continued, and so belongs to the leaf, is decided by the next
physical line alone (`startsIndented`, `merkle.go:170-178`), while a YAML value may go on
below a line that does not look like it. A reserved line is therefore left out of the leaf
before the blank line of a signed value of two paragraphs, before a comment below which the
value goes on, before an item of a list that stands at its key's margin, and before the
blank lines that a `|+` block keeps. In YAML it ends the signed value there and takes over
the rest, or the front matter becomes unreadable: one root, two manifests, against
`merkle.go:86-93`. `FirmFront` says that the signed front matter has none of these shapes;
without any one of its conditions TLC refutes `ManifestIsSigned`.

Seen while modelling, not kept as runs: a front matter of nothing but reserved
lines has the leaf of an empty one, which the loader does not take for a front
matter, so with one root the body starts at different lines; a signed value whose
quote stays open over several unindented lines can take in a reserved line that
the leaf leaves out (`FirmFront` names both, and each is needed); within two minutes after `expires_at` an
attestation still verifies, but `validUntil` no longer sees the instant ahead and
stores the decision without a bound (`InGrace`), so it is served for ever, against
`README.md:538`; a link whose target cannot be searched is passed over as if it
dangled, without a note (`discover.go:193`); a bundle in table state `revoked` need
not fail (a trusted co-signature), against `verify_many.go:21`; the fail-closed
floor at `oms.go:136` is reached by a certificate without an identity; a forged
certificate-bound OMS signature yields only SG-PRV-005, which does not gate,
against `guard.go:312`; `verify_timeout_seconds` is never honoured, because the
defaults always hold a `timeout_seconds`; an unknown mode in the user's file ranks
lowest, so a project's `log` replaces it; an unhashable entry in a project's
allowlist ends `load_config` outside `evaluate_safely`, and the call proceeds
whatever `on_error` says; `mode: log` blocks all the same when `on_error` is
`deny` and the guard run fails; a match in the last two columns of a line that is cut
behind it is hidden by the second mark of a cut (`MarksMatch` leaves it out); a
fingerprint joins its base and its counter with `|` and `#`, so an excerpt that ends
in `|#1` could share one with another (an excerpt is one value here); an inserted
line between a documentary keyword and a match may change which match of its line is
the surest, and with it the excerpt (`Idle` leaves it out).

Of files that load and are not heard in full: a pack accepts a condition with an empty
branch, an effect of `critical`, which lowers nothing, unknown targets, two rules
with one id, and several shapes in one condition, of which the first counts, against
`rules.go:30`; a detection made of `not` alone without a confidence stays below the
threshold on prose; an empty condition would by `loader.go:179` "load and never fire",
while as a context rule over the file it holds for all of it. An ECDSA key is
checked for base64 when it is loaded and may never verify; the day of `expires` is the
first on which a waiver no longer holds. `PacksAreHeard` and `PoliciesAreHeard`
state what is promised beside these.

## 4. Properties

* `AdmissionIsBacked` (Provenance). A policy that requires an attestation, and
  install mode under any policy, never admit a bundle without a signature by an
  admitted key over these bytes that is fresh, or its certificate counterpart.
  "Backed" is written from the consumer's point of view, without the verifiers.
* `DriftIsDenied`. Content that differs from what a readable signature covers is
  denied by the gate and by `verify`, whatever the other format says.
* `GateAgreesWithVerify`. Two pieces of code, one judgement.
* `NeverRelaxes`. A step that revokes or that passes time never makes any answer
  laxer, under any policy, verdict and mode.
* `SignedBundleVerifies`. A finished `sign` run verifies, loads and installs, for as
  many days as were asked for, exactly unless its own last step changed what it had
  signed: `--emit-manifest-fields` removed a reserved line that the root covers, or,
  with `--oms`, left other reserved lines than the OMS manifest covers. Such a run
  reports success and its bundle fails at once, in `verify` and at the gate.
* `RootNamesItsLeaves` (MerkleTree, asked by Provenance). Different leaves, of whatever
  number, have different roots, and the tree built level by level is the one that
  RFC 6962 defines by recursion.
* `ProofsAreSound`. The log's own proof is accepted for every size and index, and
  whatever is accepted against the log's root is the leaf at that index.
* `EntriesAreForTheirKeys`, `EntriesAreTimely`, `ServedAsRecomputed` (Guard): what
  is stored answers its key's question; while served, the clock alone would not
  change it; and for the same bytes, roots and rules it is what a caller without
  a cache would be told. The one window left out, `InGrace`, is the tolerance
  after an attestation's expiry and the very instant a waiver ends.
* `TempsAreExclusive`, `NoLitterWithoutCrash`, `TornOnlyByPowerLoss`,
  `ImplementsStore` (FileCache): no two Puts share a temporary file; a failing Put
  leaves none behind; neither a kill nor a failing system call tears an entry; and
  what Get returns is the last decision stored, or nothing, except that a power loss
  may bring back one that was stored before it, if it beat the flush.
* `SlotsAreOwned`, `AggregatesAll`, `ReportIsWorst`, `Terminates` (ScanPool): no two
  workers ever hold one slot; `ScanAll` returns only when every slot is written
  with the outcome of its own bundle; the report's verdict is the worst of all,
  a bundle that could not be loaded included; the batch ends.
* `ProjectOnlyTightens`, `StrictestAdmitsOnlyAllowed`, `ErrorsFollowOnError` (Hook):
  with the project's file present, the hook never permits what it would have
  refused without it; under the strictest settings only a bundle the guard
  allowed is loaded; a failed guard run ends as `on_error` says.

* `AuditFailsClosed`, `RowsAreTheFolders`, `Terminates` (Audit): exit code 0 only when
  every bundle below every named path was loaded and did not fail, or a note
  says why it was not looked at; without limits and unreadable directories the
  rows are exactly the bundles the folders hold, written without a walk, once
  each, in order, each under its first path; the command ends although links may
  form cycles.
* `EachAgentIsTold`: a row names the agents that read a folder it is in: no other, but
  one in whose folder a requested path is by its name alone, and all of them, unless
  the way to the bundle leads over a link (section 3); `locations` lists the folders of the chosen agents, each with the
  number of skills a scan of it finds. The folders are written from the registry
  without the calls that collect them.
* `ReportHidesNothing`: in the text of many bundles each row stands in the table of every
  agent that loads it, what failed stands above what did not and is told in
  detail, and exit code 1 means that something is.

* `EveryLineIsScanned` (Review): each line of each file that is no asset is in
  exactly one target, at its own number.
* `CapsNeverErase`: with and without context rules the same findings stay, reported
  or waived, with the same confidence; severity, verdict and score are never higher.
* `DecoysDoNotHide`: inserting a line without meaning to the program keeps every
  finding of a rule without `not`, no less sure.
* `ManifestIsSigned`, `RootCoversScan`: while the root is the signed one, and the signed
  front matter is firm (`FirmFront`: in YAML no value reaches over a place where the
  next line does not show it), the manifest says what it said, and a scan finds the same below the front matter,
  with the same severities and waivers, under the context rules that lower no whole
  file for what its front matter says (`InPlace`), as those of the built-in pack.
* `OmsCovers`: while the OMS manifest is clean, the manifest and the findings in
  every file outside the ignored paths are those of the signed bundle.
* `LogsAreStable`: no two results are one alert, in a log of one bundle or of many; a
  finding keeps its fingerprint whatever the order of the rules, and in a log of many
  under its bundle's path; the rules of a log do not depend on waivers and contexts.
* `AlertsSurviveEdits`: inserting a line that no rule knows moves the alerts below it,
  and neither closes nor opens one.
* `FramesHold`: the columns of a match are those of its first line, a printed line
  fits, the marker stands under the match and nothing else, wrapping loses no word.
* `PacksAreHeard`: a context rule that loads lowers some finding, a detection reports
  some text, and what says how to lower is no detection.
* `PoliciesAreHeard`: a policy file that loads is honoured in every key it sets: each
  waiver waives something and only what it names, the roster has one key for an id,
  an identity rule admits what its pattern covers, character by character.
* `TableAgreesWithVerify` (Provenance): see section 3.

Type invariants are `TypeOK` of `Guard`, `Provenance`, `FileCache`, `ScanPool` and `Hook`; those
of the first four are theorems. In `Audit` and `Review` the shapes are part of the invariants
of their proofs.

## 5. Proofs

`tlapm` checks every theorem for every value of the constants: any callers, requests,
contents, signers, rosters, logs, files, pools, rule sets, scan verdicts and bounds; any
processes, keys, temporary files and number of crashes; any batch and any number of
processors; any configurations; trees of any number of leaves; any file system, registry
and command line; any directory of texts, rule packs and number of edits.

The cached gate (`GuardProofs`):

* `TypeCorrect`: `Spec => []TypeOK`.
* `EntriesSound`: `Spec => []EntriesAreForTheirKeys`. Not inductive alone: the
  invariant `IInv` adds that a call in progress has read its bundle before it
  hashed it, that its key names what it asked, that clock readings are ordered
  and past, and that an answer about to be stored is the judgement of what the
  call has read.
* `EntriesTimely`: from `EntriesSound`, by the argument of `validUntil`: no expiry
  and no waiver lies between the bound reading and the bound, so neither
  `Expired` nor `Honoured` changes before it. Rests on `EarliestIsLeast`.
* `CacheIsTransparent`: `ServedAsRecomputed`, provided that no signature file is
  replaced inside a call (`~MidCall`). The invariant `Exact` adds that a call's key
  names the signatures it verified, or is about to.

The life of a skill (`ProvenanceProofs`):

* `GateIsVerify`, `DriftDenied`, `TableIsVerify`: `GateAgreesWithVerify`, `DriftIsDenied` and
  `TableAgreesWithVerify`. These need no invariant: they hold of any two signature
  files, not only of those that the actions can write, so no tool that leaves other
  bytes behind can break them. Both sides are reduced to the same facts about one
  result per format (`DeniedForProvenance`, `ExitCodes`).
* `NothingRelaxes`: `Spec => NeverRelaxes`, the action property, again of any files.
  Revoking more ids, or passing time, moves each signature down the order of its
  standings (`StandingWorsens`), hence each format's result (`SgmtWorsens`,
  `OmsWorsens`: a set of flags where trust can only go and rejection only come), hence
  what the gate sees of both (`SeenWorsens`) and its answer (`AnswerWorsens`). Certificates
  are judged at the time their log proved, so time alone does not touch them.
* `TypeCorrect`: `Spec => []Inv` with `Inv == TypeOK /\ ExpiryAsAsked`. `TypeOK` says of
  `skill.oms.sig` that its certificates and log entries come from a keyless signing
  that may happen (`CertChains`, `Evidence`); `ExpiryAsAsked` that a sign command that has
  fixed an expiry has fixed it to the validity that was asked for.
* `SignThenVerify`: `SignedBundleVerifies`, from `Inv`. One case per branch: where the
  rewriting kept what was signed, both fresh signatures verify (`FreshlySigned`); where it
  did not, one of them shows drift, and drift is denied whatever the other says
  (`DriftShows`). The expiry is known only through
  `ExpiryAsAsked`, and `Duration(d) = d * Day` only because `TTLAccepted` bounds the days
  below where the duration wraps (`DurationIsAsked`, from `BoundsAssumption`).
* `AdmittedIsBacked`: `AdmissionIsBacked`, from `Inv`. For SGMT-1 and key-bound OMS a
  trusted result names its signature (`SgmtBacks`, `TrustedKeyIsAdmitted`). For a
  certificate, a trusted result has a log entry that passed; its checkpoint was signed
  with a pinned log's key, so by `LogsAppend` its root is that of a prefix of the log,
  and by `InclusionNamesLeaf` the log holds the entry's body there (`PassedIsLogged`).
  Without the type invariant an entry could be anything, and its body no sequence.
* `RootsName` and `ProofsSound` lift the theorems about trees, below, to the two invariants that TLC
  evaluates up to `MaxLeaves`.

The trees (in `VerifyProofs`). `MerkleTree` has recursive functions, not
RECURSIVE operators, so what they compute can be proved: induction is stated over sets of
numbers (`ByInduction`: a set that holds 0 and is closed under successor is Nat), which
needs no operator parameter.

* `RootIsTreeHash`: the root that `merkle.go` builds level by level, promoting an odd
  last node, is the tree that RFC 6962 defines by splitting at the largest power of two
  below the number of leaves. One level up keeps the hash of the tree over it
  (`SubtreesOfAbove`), because the split of 2k and of 2k - 1 is twice that of k
  (`SplitHalves`).
* `RootNamesLeaves`: two lists of leaves with one root are one list, of whatever
  lengths. Leaves and interior nodes are hashed under different prefixes, so the hash of
  a leaf is no interior node and each interior node gives its children back.
* `InclusionNamesLeaf` (soundness): a proof that `tlog.go` accepts for size and root of a
  log names the leaf at its index, for any list of hashes in the proof and any body. The
  fold climbs the levels of the tree one by one: a prefix of the hashes (`Used`) has been
  consumed at each, and by going down from the root the node there is the log's.
* `HonestProofHolds` (completeness): the path RFC 6962 defines by recursion from the root
  has `Inner + Border` hashes and is accepted. The path over a level is the sibling there,
  if the node has one, followed by the path over the level above (`PathsOfAbove`).

Discovery and the commands around it (`AuditProofs`):

* `AuditInvariant`: `Spec => []AuditInv`, the invariant the others rest on, in three parts.
  `WalkInv` is about the walk: whatever a root holds is reached, is still to be looked
  at below an open frame, or is cut off by a limit or an unreadable directory that is
  noted (`Handled`, `Looked`, `FrameOK`, `RootDone`); the open frames are a path from
  their root (`OnTheWay`); and what is reached is a bundle of some root under the name
  it was reached by, each real path once (`OrderOK`, `EntryOK`). One lemma says what a
  discoverer may gain and never loses (`Grows`), and each branch of `walk` is a lemma
  over it. `Control` is about the command: which roots it searches, what it wrote, and
  which exit codes go with it; `CommandOK` that the folders are those resolved.
* `ExitZeroIsAnAudit`: `AuditFailsClosed`. A walk that is over has reached what its roots
  hold (`Reached`), except below what a note names.
* `RowsAreWhatRootsHold`: `RowsAreTheFolders`. The order of the rows is that of
  `InOrder`, about which `Less` is a strict order of paths (`StrictOrder`) and the
  place of a member is the number of those before it.
* `TextHidesNothing`: `ReportHidesNothing`, from `Control` and the same lemmas on sorting,
  for the tables and the order of the details.
* `EachAgentHears`: `EachAgentIsTold`, with the two exceptions of section 3. The folders that `Resolve` collects by its nested
  calls are those the registry says agents read (`FoldersAgree`: the merge by path
  keeps every agent). The counts need a second invariant, `CountInv`: within the
  limits a walk of one folder meets no obstacle (`Unhindered`), so it returns all.

What was signed and what is scanned (`ReviewProofs`):

* `NoLineEscapesTheScan`: `EveryLineIsScanned`, from `TextsOK` (every file is a finite
  sequence of lines, which every edit and the field writer keep). `SKILL.md` splits at
  its first closing delimiter (`ParsedIs`), and the two targets made of it meet there.
* `CapsLowerAndNothingElse`: `CapsNeverErase`, from `RulesetOK` (what compiling yields
  has severities and trees in range; induction over packs and their rules). A lowered
  finding still carries its severity of origin, so lowering is undone by a function
  (`CapIsUndone`) and is a bijection; the score is a sum over it
  (`LoweredScoresLess`), for which the findings must be finite (`HitsAreFinite`).
* `CleanManifestCoversScan`: `OmsCovers`. A finding, its deduplication and its caps
  depend on the targets of its own file alone (`HitsAreLocal`, `CapsAreLocal`,
  `DedupIsLocal`), and a clean manifest says that the covered files are the same.
* `RootSignsTheManifest`: `ManifestIsSigned`. Two texts with one leaf have front matters
  that differ in reserved lines. YAML reads the block with and without them
  step by step to documents that differ in those keys only. The simulation knows two
  relations: the documents are equally readable and say the same but for those keys
  (`Alike`), and besides what follows goes on the same value in both (`AtOneKey`). A
  reserved line that the second reading passes over leaves the first only; `FirmFront`
  brings the other back, because the next line that says anything then starts a field,
  or there is none.
* `RootCoversWhatIsScanned`: `RootCoversScan`, from `ManifestIsSigned`. The body is a suffix
  of the leaf, so the targets of the two bundles are equal, or the body's at another
  offset (`Paired`, `OneRootPairs`); every finding below one front matter has a twin
  below the other (`TwinHits`), which is as sure, survives deduplication (`TwinDedup`),
  is lowered alike (`TwinLowers`, which is where `InPlace` is needed) and waived alike.
* `CleanSigningKeepsTheRoot`: `CleanSigningVerifies`, the action property. The two fresh
  fields are the second and third line of the new text and all that its leaf leaves
  out (`WrittenIs`): the other reserved lines are gone, and the line that comes to
  stand behind the fields continues none. Without the fields it is what the leaf of
  the old text keeps (`KeptBehindTheFirst`, `KeptAroundTwo`).
* `LogsStay`: `LogsAreStable` for rule sets whose ids are distinct (`Distinct`); no pack is
  refused for an id it repeats, and of two rules with one id the earlier wins a tie, so
  the order of those two matters. Findings of one scan differ in file, line or rule and
  are therefore strictly ordered (`OrderlyIsStrict`), so `sortFindings` lists each once
  (`FindingsAreSorted`) and the number in a fingerprint counts the findings of its base
  that come before it (`FingerprintCounts`). Findings of one base lie in different lines,
  so the order of the rules never decides between them (`AlertIsTurned`), and under two
  prefixes they have two bases (`CountsBehindNames`).

The rest:

* `ScanPoolProofs`: type correctness, `SlotsAreOwned`, `AggregatesAll`, and `ReportIsWorst`
  (`WorstReported`), which adds to the invariant that a report, once made, is the aggregate
  of the results; the aggregate of any results is the worst of them by induction over
  its fold (`AggregateIsWorst`). The invariant says that the wait group equals the number of workers that have not
  ended (`Cardinality(Active)`), that an index handed out is in exactly one
  worker's hands or in its slot, and that a written slot holds its own bundle's
  outcome; without the first, `Wait` could return early in some unreachable state.
* `FileCacheProofs`: the three invariants, and `CacheImplementsStore`: each step of the
  file cache is a step of `VerdictStore` or none. A torn file counts as no entry, so
  removing it is a `Lose` of nothing, while removing a whole entry that replaced it
  meanwhile loses that; a Put takes effect at its rename, and what an entry was since
  the last flush is the `past` of the store, torn files again as none. The mapping needs the invariant that the
  file about to be renamed holds the decision of the Put that renames it
  (`TempsAreExclusive`) and that a Get carries no decision before it has read one.
* `HookProofs`: `OnlyTightens` (merging a project configuration, of any shape,
  gives one at least as strict; `TightenIsStricter` and `StricterBlocks` lift it
  from fields to answers), `OnlyAllowedProceed` and `FailuresFollow`, from the
  invariant that a process answers what its merged configuration decides.

Assumptions on constants, each evaluated by TLC in the runs of its module:
`VerifyAssumption` (the sentinels for no file, an unreadable file and no expiry are not
values), `RewrittenAssumption` (`sign` rewrites content to content), `ProvenanceAssumption` (the roster loads, forged bytes verify under nobody's
key), `LogsAssumption` (see section 2), `FilesAssumption` (sentinels again),
`BoundsAssumption` (the greatest accepted validity fits a duration, as `maxTTLDays` in
`commands.go` does), `GuardAssumption`, `FileCacheAssumption`, `HookAssumption`,
`ScanPoolAssumption` and `NoneIsNoResult`; `RegistryIsParsed`, `RegistryIsTyped`,
`CommandsAreTyped` and `DefaultsAreNumbers` (shapes, and that a home directory is at most
one), `FileSystemsAreTrees` (finitely many directories, each in its parent; a link is in a
directory and is none); `PolicyIsTyped`, `TextsAreLines`, `PacksAreTyped` (shapes, and that
a directory is finite), `PathsAreOrdered` (every path a file can have has a place in the order
by which findings are sorted, as every two strings have in the code), `TreesAreFinite` and `ConditionsAreFinite` (a tree's branches are
trees of a lower level; the loader refuses an `all` without branches) and
`TreesOfConditions` (what conditions compile to is among the trees). The theorems about
`MerkleTree` rest on none.

Model-checked only:

* `Terminates` of `ScanPool` and `Audit`: liveness under fairness.
* `DecoysDoNotHide` and `AlertsSurviveEdits` do not hold of every line and every rule,
  but of the lines given: one mark can make a data file a configuration, or a text a
  binary one, and with its role a file changes its targets.
* `PacksAreHeard` and `PoliciesAreHeard` look for a witness, a text or a bundle that a
  rule or a waiver speaks about, among the lines and identities of the instance.
* `FramesHold` is arithmetic over lines up to a bound, compared with a definition.
* Of `FileCache`, `Guard`, `Hook`, `Provenance`, `ScanPool` and `Audit` every safety and
  action property that a run checks is proved, apart from the refuted ones.

## 6. Plan

1. Trust, verification, the gate, the cache, signing: done.
2. The worker pool, with liveness and its safety proof: done.
3. The hook, and the proof that a project configuration never loosens: done.
4. Loading, normalisation, the OMS manifest comparison and the scan engine: done.
5. Discovery over a graph of directories and links, agent locations, and the
   commands around them: done.
6. Merkle roots, log proofs and certificate chains: done.
7. Rule packs and policy files as they are written: done.
8. Reports: the SARIF log, frames, the text of many bundles: done.
9. Proofs of the file cache and its refinement: done.
10. Proofs of `Provenance`, of the Merkle tree and of inclusion proofs, and of the pool's
    report: done.
11. Proofs of `Audit`, and of what `Review` says about roots, manifests, scans and logs: done.
12. Left: that `matchIdentity` admits what a pattern covers, for patterns of any length.

## 7. Not modelled

* *The hook installer* (`hooks/install.py`) edits one entry of a settings file that
  nothing else in the repository reads or writes, in a process a person starts.
* *Key files* (`pkg/attest/key.go`): encodings and file modes; a signer is a key and an
  identity.
* *The keyless flow* up to the bundle: OIDC, Fulcio and Rekor are services. The bundle
  they lead to is modelled, with chains, proofs and checkpoints.
* *Matchers* (regular expressions, Unicode scanners, homoglyphs, hosts): a pattern is
  a mark on a line. *Capability cards*, JSON output, colours and wording: the same
  data once more.
* *YAML beside the lines of a value*: a front matter that is indented as a whole, flow
  collections over several lines, anchors and tags, `...`.
* *A power loss under a running gate*: the cache of `Guard` keeps what it was given;
  that a `FileCache` may go back to an earlier entry is `VerdictStore`'s. An entry that
  comes back answered its key when it was stored and bears its own bound.
* *Bytes* of YAML, JSON, DER, PEM and the note format: a file parses or does not.
* *External references and single-file mode* of the loader.
* *Evaluation scripts* (`evaluation/`): measurement beside the product.
