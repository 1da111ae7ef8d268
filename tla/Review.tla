------------------------------- MODULE Review -------------------------------
(***************************************************************************)
(* One skill's directory over time: its files are edited line by line,     *)
(* `sign` takes the Merkle root and the OMS manifest and may write fields  *)
(* into SKILL.md. In every state it can be loaded, scanned, and compared   *)
(* with what was signed. What was signed and what is scanned are computed  *)
(* by different code from the same files: the properties relate the two.   *)
(***************************************************************************)
EXTENDS Sarif, Frame, PolicyFile

CONSTANTS Worlds,       \* starting directories, each with rule packs and a number of edits
          FieldLines,   \* lines to insert into the front matter
          TextLines,    \* lines to insert anywhere else
          Additions,    \* files to add: pairs of path and entry
          Builtin,      \* the rule packs of the program
          Policy,
          PolicyFiles,  \* policy files, as they are written
          Today, Identities,
          MaxColumns    \* of a line in a report

ASSUME PolicyIsTyped ==
  DOMAIN Policy = {"failOn", "warnOn", "waivers"} /\ Policy.failOn \in Int /\ Policy.warnOn \in Int

\* A directory has finitely many files, and a text finitely many lines.
ASSUME TextsAreLines ==
  /\ \A w \in Worlds : IsFiniteSet(DOMAIN w.dir) /\ \A p \in DOMAIN w.dir : IsSeq(w.dir[p].text)
  /\ \A a \in Additions : IsSeq(a.entry.text)

\* Every path a file of a world can have has a place in the order of the paths.
ASSUME PathsAreOrdered ==
  /\ IsSeq(PathOrder) /\ \A p \in ToSet(PathOrder) : IsSeq(p)
  /\ \A w \in Worlds : Files(w.dir) \subseteq ToSet(PathOrder)
  /\ \A a \in Additions : a.path \in ToSet(PathOrder)

IsRule(r) == r.severity \in Info..Critical /\ r.confidence \in Int /\ r.match \in Trees
IsContext(c) == c.scope \in {"line", "file", "section"} /\ c.max \in Info..Critical /\ c.match \in Trees

ASSUME PacksAreTyped ==
  /\ IsSeq(Builtin)
  /\ \A p \in ToSet(Builtin) :
       IsSeq(p.rules) /\ (\A r \in ToSet(p.rules) : IsRule(r)) /\ \A c \in p.contexts : IsContext(c)
  /\ \A w \in Worlds : IsSeq(w.packs) /\ \A p \in ToSet(w.packs) :
       IsSeq(p.rules) /\ \A rd \in ToSet(p.rules) : rd.confidence \in Int /\ rd.match \in Conditions

VARIABLES dir,      \* path -> entry
          packs,    \* the rule packs that are named, as they are written
          ruleset,  \* what they and the built-in ones are compiled to, once
          signed,   \* {} or what was signed last
          budget    \* edits and further signings still to come; the bound

vars == <<dir, packs, ruleset, signed, budget>>

File(text) == [type |-> "file", text |-> text]
Over(entries, below) ==
  [p \in DOMAIN entries \cup DOMAIN below |-> IF p \in DOMAIN entries THEN entries[p] ELSE below[p]]
Text == dir[SkillMD].text
Loaded == LoadBundle(dir)

Rules == ruleset.rules
Contexts == ruleset.contexts

\* Without its rules nothing is scanned.
Init ==
  \E w \in Worlds :
    /\ ruleset \in loadRuleset(Builtin, w.packs)
    /\ dir = w.dir /\ packs = w.packs /\ budget = w.edits /\ signed = {}

-----------------------------------------------------------------------------
\* `sign` loads the bundle once; root and OMS manifest are those of the files
\* as loaded. The fields go into SKILL.md last; without front matter it fails
\* there, after the signatures were written.
Sign(emit) ==
  /\ Loads(dir)
  /\ signed' = {[dir |-> dir, leaves |-> BundleLeaves(Loaded), oms |-> BuildStatement(Loaded)]}
  /\ LET envelopes == [p \in SignatureFileNames |-> File(<<>>)]
         skill == IF emit /\ HasBlock(Text)
                  THEN [p \in {SkillMD} |-> File(WriteUSFFields(Text))] ELSE <<>>
     IN dir' = Over(skill, Over(envelopes, dir))
  /\ IF signed = {} THEN UNCHANGED budget ELSE budget > 0 /\ budget' = budget - 1

\* Edits come after a signing: what comes before it is a starting directory. An
\* edit outside the front matter is the last one.
Edits(left) == signed # {} /\ budget > 0 /\ budget' = left /\ UNCHANGED signed

Rewrite(p, text) == dir' = [dir EXCEPT ![p] = File(text)]

InFront(p, i) == p = SkillMD /\ HasBlock(Text) /\ i - 1 \in {1} \cup Block(Text)

InsertLine(p, i, line) ==
  /\ Edits(IF InFront(p, i) THEN budget - 1 ELSE 0)
  /\ line \in (IF InFront(p, i) THEN FieldLines ELSE TextLines)
  /\ Rewrite(p, InsertAt(dir[p].text, i, line))

DeleteLine(p, i) ==
  /\ Edits(IF InFront(p, i) THEN budget - 1 ELSE 0)
  /\ Rewrite(p, RemoveAt(dir[p].text, i))

AddFile(a) == Edits(0) /\ dir' = Over([p \in {a.path} |-> a.entry], dir)

RemoveFile(p) == Edits(0) /\ dir' = [q \in DOMAIN dir \ {p} |-> dir[q]]

Step ==
  \/ \E emit \in BOOLEAN : Sign(emit)
  \/ \E p \in Files(dir) : \E i \in 1..(Len(dir[p].text) + 1), line \in FieldLines \cup TextLines :
       InsertLine(p, i, line)
  \/ \E p \in Files(dir) : \E i \in DOMAIN dir[p].text : DeleteLine(p, i)
  \/ \E a \in Additions : AddFile(a)
  \/ \E p \in DOMAIN dir : RemoveFile(p)

Next == Step /\ UNCHANGED <<packs, ruleset>>

Spec == Init /\ [][Next]_vars

-----------------------------------------------------------------------------
(***************************************************************************)
(* Properties.                                                             *)
(***************************************************************************)
\* Every line of a bundle that is no asset is scanned exactly once, under its
\* own number, the two delimiters of the front matter apart: what the loader
\* splits, the scanner puts together again.
EveryLineIsScanned ==
  Loads(dir) =>
    LET b == Loaded
        targets == Targets(b)
    IN \A p \in DOMAIN b.files : \A i \in DOMAIN b.files[p] :
      LET seen == {t \in targets : t.file = p /\ i - t.offset \in DOMAIN t.text}
          delimits == p = SkillMD /\ b.skill.present /\ i \in {1, b.skill.bodyOffset}
      IN IF b.role[p] = "asset" \/ delimits THEN seen = {}
         ELSE \E t \in seen : seen = {t} /\ t.text[i - t.offset] = dir[p].text[i]

Rank == [pass |-> 0, warn |-> 1, fail |-> 2]

\* A context rule only lowers what is reported: the same findings with the same
\* confidence stay, reported or waived, and severity, verdict and score are
\* nowhere higher than they are without context rules.
CapsNeverErase ==
  Loads(dir) =>
    \A capped \in {Scan(Loaded, Rules, Contexts, Policy)}, bare \in {Scan(Loaded, Rules, {}, Policy)} :
      LET Uncapped(fs) == {[f EXCEPT !.severity = f.original] : f \in fs}
      IN /\ Uncapped(capped.findings) = bare.findings
         /\ Uncapped(capped.waived) = bare.waived
         /\ \A f \in capped.findings : f.severity <= f.original
         /\ Rank[capped.verdict] <= Rank[bare.verdict]
         /\ capped.score <= bare.score

\* A line without meaning to the program: no delimiter, fence, keyword or byte
\* that changes what a file is.
Neutral(line) == line # Delimiter /\ line.marks \cap {"fence", "never", "NUL"} = {}

\* Inserting a neutral line below the first one hides nothing: every finding of a
\* rule without `not` is still found, on its line, no less sure.
StillFound(p, i) ==
  LET old == Scan(Loaded, Rules, Contexts, Policy)
      new == Scan(LoadBundle(dir'), Rules, Contexts, Policy)
      Moved(f) == IF f.file = p /\ f.line >= i THEN f.line + 1 ELSE f.line
  IN \A f \in old.findings \cup old.waived : Rules[f.nth].match.op # "not" =>
       \E g \in new.findings \cup new.waived :
         g.rule = f.rule /\ g.file = f.file /\ g.line = Moved(f) /\ g.confidence >= f.confidence

DecoysDoNotHide ==
  [][\A p \in Files(dir) : \A i \in 2..(Len(dir[p].text) + 1) :
       \A line \in {line \in FieldLines \cup TextLines : Neutral(line)} :
         InsertLine(p, i, line) /\ Loads(dir) /\ Loads(dir') => StillFound(p, i)]_vars

Alert(r) == <<r.rule, r.file, r.line, r.fingerprint>>
Alerts(log) == {Alert(log.results[i]) : i \in DOMAIN log.results}
Apart(log) == Cardinality({log.results[i].fingerprint : i \in DOMAIN log.results}) = Len(log.results)

\* The alerts of a log in a log of many bundles; and a log of a scan twice, once
\* of its directory and once of a single file, with a bundle between that failed.
Shifted(a, prefix) == <<a[1], prefix \o a[2], a[3], [a[4] EXCEPT !.base[2] = prefix \o @]>>
AlertsUnder(log, prefix) == {Shifted(a, prefix) : a \in Alerts(log)}
LogOfTwo(scan) ==
  MultiSARIF(<< [dir |-> <<"a">>, single |-> FALSE, scan |-> {scan}],
                [dir |-> <<"b">>, single |-> FALSE, scan |-> {}],
                [dir |-> <<"c", "note.md">>, single |-> TRUE, scan |-> {scan}] >>)

\* No two results of a log are one alert; how a rule is described depends neither
\* on context rules nor on waivers; and a finding is the same alert whatever the
\* order of the rules, and under its prefix in a log of many bundles.
\* (scan.go:307-317, sarif.go:270-348, 412-421, 577-597)
LogsAreStable ==
  Loads(dir) =>
    \A scan \in {Scan(Loaded, Rules, Contexts, Policy)} :
    \A log \in {SARIF(scan)}, many \in {LogOfTwo(scan)} :
      /\ Apart(log) /\ Apart(many)
      /\ log.rules = SARIF(Scan(Loaded, Rules, {}, [Policy EXCEPT !.waivers = {}])).rules
      /\ many.rules = log.rules
      /\ Alerts(SARIF(Scan(Loaded, Reverse(Rules), Contexts, Policy))) = Alerts(log)
      /\ Alerts(many) = AlertsUnder(log, <<"a">>) \cup AlertsUnder(log, <<"c">>)

\* Of no state in particular; one is enough to ask in.
FramesOfAllLines == FramesHoldUpTo(MaxColumns)

\* Columns, frames and wrapping are right for every line of up to MaxColumns runes:
\* what a reader is pointed at is what was matched. (location.go, snippet.go)
FramesHold == signed = {} => FramesOfAllLines

\* A line that no rule knows, away from words that lower confidence.
Idle(p, i, line) ==
  /\ line # Delimiter /\ line.marks = {}
  /\ \A j \in {i - 2, i - 1, i, i + 1} \cap DOMAIN dir[p].text : "never" \notin dir[p].text[j].marks

\* Inserting such a line closes no alert and opens none: every finding of a rule
\* without `not` moves with its line and keeps its fingerprint. (sarif.go:577-584)
AlertsSurviveEdits ==
  [][\A p \in Files(dir) : \A i \in 2..(Len(dir[p].text) + 1) :
       \A line \in {line \in FieldLines \cup TextLines : Idle(p, i, line)} :
         InsertLine(p, i, line) /\ Loads(dir) /\ Loads(dir') =>
           LET Not == {Rules[n].id : n \in {n \in DOMAIN Rules : Rules[n].match.op = "not"}}
               Of(bundle) == {a \in Alerts(SARIF(Scan(bundle, Rules, Contexts, Policy))) : a[1] \notin Not}
           IN Of(LoadBundle(dir')) =
                {[a EXCEPT ![3] = IF a[2] = p /\ @ >= i THEN @ + 1 ELSE @] : a \in Of(Loaded)}]_vars

\* What is under the root.
SameRoot(s) == Loads(dir) /\ BundleLeaves(Loaded) = s.leaves
\* Front matter under the root that lines left out of it cannot disturb: no quote is
\* left open, no value keeps blank lines, no list stands as far left as its key, and
\* no value goes on below a blank line or a comment. Whether a reserved line may be
\* left out is decided by the next line alone (merkle.go:170), so where a value goes on
\* in one of those ways, a reserved line that the root does not see cuts it short.
FirmFront(leaf) ==
  /\ Block(leaf) # {}
  /\ \A i \in Block(leaf) :
       /\ leaf[i].value \notin {"open", "keep"}
       /\ leaf[i].value = "item" => leaf[i].indented
       /\ Void(leaf[i]) /\ ~leaf[i].indented => ~Continued(leaf, i)

\* While the root is that of the signed bundle, and its front matter is firm, the
\* manifest says what it said when it was signed, whatever became of the reserved
\* lines, which the root leaves out. (merkle.go:86-93)
ManifestIsSigned ==
  \A s \in signed : SameRoot(s) /\ FirmFront(s.leaves[SkillMD]) =>
    ManifestFields(Loaded.skill.front) = ManifestFields(ParseSkillMD(s.dir[SkillMD].text).front)

\* The context rules that lower no whole file for what its front matter says. One
\* that does reads reserved lines as well: which it finds, the root does not tell.
InPlace ==
  {c \in Contexts : c.scope = "file" =>
     c.match = PathOnly \/ (c.targets # {} /\ "manifest" \notin c.targets)}

\* What a scan says outside the front matter, lines counted from its end, under
\* the policy's waivers and one pinned to the root r and to the name n.
Outside(b, r, n) ==
  LET pin == [pinned |-> {r}, bundle |-> {n}, rules |-> {}, live |-> TRUE, path |-> <<>>]
      scan == Scan(b, Rules, InPlace, [Policy EXCEPT !.waivers = @ \cup {pin}])
      Below(fs) == {[f EXCEPT !.line = IF f.file = SkillMD THEN @ - b.skill.bodyOffset ELSE @] :
                      f \in {f \in fs : f.file = SkillMD => f.line > b.skill.bodyOffset}}
  IN [findings |-> Below(scan.findings), waived |-> Below(scan.waived)]

\* While the root is that of the signed bundle, a scan finds the same outside the
\* front matter, with the same severities, and a waiver pinned to root and name
\* still waives it: what the root leaves out reaches the rest through no rule but
\* a context rule that is not in place; no built-in one is that.
\* (context.yaml:118-132, context.go:88-110)
RootCoversScan ==
  \A s \in signed : SameRoot(s) /\ FirmFront(s.leaves[SkillMD]) =>
    LET then == LoadBundle(s.dir)
        now == Loaded
    IN Outside(now, s.leaves, Name(then)) = Outside(then, s.leaves, Name(then))

\* While the OMS manifest is clean, a scan finds the same in every file that the
\* manifest does not exclude by path, and the manifest says the same.
OmsCovers ==
  \A s \in signed : Loads(dir) /\ Clean(VerifyManifest(Loaded, s.oms)) =>
    LET then == LoadBundle(s.dir)
        now == Loaded
        Covered(b) == {f \in Scan(b, Rules, Contexts, [Policy EXCEPT !.waivers = {}]).findings :
                         ~Excluded(f.file, s.oms.ignores)}
    IN /\ Covered(now) = Covered(then)
       /\ now.skill = then.skill

Signs == \E emit \in BOOLEAN : Sign(emit)

\* Signing a bundle whose front matter can be read does not change what was signed:
\* what `sign` leaves behind has the root that it signed. (merkle.go:124-126)
SigningKeepsRoot ==
  [][Signs /\ Loads(dir') /\ Yaml(Loaded.skill.front) # <<>> =>
       \A s \in signed' : BundleLeaves(LoadBundle(dir')) = s.leaves]_vars

\* All reserved lines are ones the root leaves out, and what follows the fields
\* that `sign` puts on top does not continue them.
CleanFront ==
  /\ {i \in Block(Text) : Reserved(Text[i])} = Dropped(Text)
  /\ \A i \in Block(Text) : ~Reserved(Text[i]) /\ Text[i].indented =>
       \E j \in Block(Text) : j < i /\ ~Reserved(Text[j])

\* Signing a bundle whose front matter is clean does not change what was signed.
CleanSigningVerifies ==
  [][Signs /\ CleanFront /\ Loads(dir')
       => \A s \in signed' : BundleLeaves(LoadBundle(dir')) = s.leaves]_vars

-----------------------------------------------------------------------------
(***************************************************************************)
(* A rule is live when there is a text that it reports, or a finding that  *)
(* it lowers.                                                              *)
(***************************************************************************)
Lines == [key : {NoKey}, value : {"text"}, indented : {FALSE}, marks : SUBSET {"curl", "# heading"}]

LiveIn(targets, places) ==
  {Target(n, IF n = "scripts" THEN "bash" ELSE "", place \o <<"file">>, <<line>>, 4) :
     n \in IF targets = {} THEN {"body"} ELSE targets, line \in Lines,
     place \in IF places = {} THEN {<<>>} ELSE places}

Lowers(c) ==
  \E t \in LiveIn(c.targets, c.paths), layer \in (IF c.layers = {} THEN {"code"} ELSE c.layers) :
    ApplyCaps(ContextCaps({c}, {t}),
              [file |-> t.file, line |-> 5, layer |-> layer, severity |-> Critical]).severity < Critical

Reports(r) == \E t \in LiveIn(r.targets, {}) : AppliesTo(r, t) /\ Evaluate(r, 1, t) # {}

\* No branch of a condition is empty.
Whole(cd) ==
  LET whole[c \in Conditions] ==
        (Branches(c) # {} \/ c.mark # {}) /\ \A sub \in Branches(c) : whole[sub]
  IN whole[cd]

\* A pack that loads means what it says: a context rule whose condition has no
\* empty branch lowers some finding, and a detection reports something when its
\* confidence reaches the threshold, or is left out and nothing is negated. A rule
\* that says how to lower a severity is a context rule.
\* (loader.go:108-111 "failing loudly beats silently ignoring the field", 137)
PacksAreHeard ==
  \A i \in DOMAIN packs : \A p \in LoadPack(packs[i]), rd \in ToSet(packs[i].rules) :
    /\ (rd.effect # {} \/ rd.scope # "" \/ rd.paths # {}) => p.rules = <<>>
    /\ (Whole(rd.match) \/ IsEmptyCond(rd.match)) => \A c \in p.contexts : Lowers(c)
    /\ (Whole(rd.match) /\ (rd.confidence = EmitThreshold \/ (rd.confidence = 0 /\ rd.match.not = <<>>)))
         => \A r \in ToSet(p.rules) : Reports(r)

AllFilesAreHeard ==
  \A file \in PolicyFiles : \A p \in Load(file) : PolicyIsHeard(file, p, Today, Identities)

\* A policy file that loads means what it says, all of it: every waiver that has
\* not ended waives something, and only what it names; the roster names a key by
\* one id, and only an ECDSA key that is none can never verify; an identity rule
\* admits what its pattern covers. (policy.go:267-275 "every way it can be wrong
\* must be loud", 339-349, 439-451)
PoliciesAreHeard == signed = {} => AllFilesAreHeard

=============================================================================
