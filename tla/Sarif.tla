------------------------------- MODULE Sarif --------------------------------
(***************************************************************************)
(* What a scan says, in order: the findings as they are sorted             *)
(* (pkg/scan/scan.go), the SARIF log of one bundle and of many             *)
(* (pkg/report/sarif.go), and what the text report shows                   *)
(* (pkg/report/report.go, multi.go).                                       *)
(*                                                                         *)
(* A log is what code scanning keeps alerts by: the fingerprint of a       *)
(* result. A hash stands for what is hashed. Rules are described by id; the *)
(* index of a rule in the log is its id here.                              *)
(***************************************************************************)
EXTENDS Scan

CONSTANT PathOrder   \* the paths that findings can name, in the order of their names

PlaceOf(path) == CHOOSE i \in DOMAIN PathOrder : PathOrder[i] = path

-----------------------------------------------------------------------------
(***************************************************************************)
(* The order of a report. The sort is stable: what agrees in severity, file *)
(* and line keeps the order of the rules.                                   *)
(***************************************************************************)
Precedes(f, g) ==
  LET SameFile == f.file = g.file
  IN \/ f.severity > g.severity
     \/ f.severity = g.severity /\ ~SameFile /\ PlaceOf(f.file) < PlaceOf(g.file)
     \/ f.severity = g.severity /\ SameFile /\ f.line < g.line
     \/ f.severity = g.severity /\ SameFile /\ f.line = g.line /\ f.nth < g.nth

sortFindings(findings) ==
  [i \in 1..Cardinality(findings) |->
     CHOOSE f \in findings : Cardinality({g \in findings : Precedes(g, f)}) = i - 1]

Ordered(scan) ==
  [findings |-> sortFindings(scan.findings), waived |-> sortFindings(scan.waived)]

-----------------------------------------------------------------------------
(***************************************************************************)
(* One log.                                                                *)
(***************************************************************************)
sarifLevel(severity) ==
  CASE severity \in {High, Critical} -> "error"
    [] severity = Medium -> "warning"
    [] severity \in {Info, Low} -> "note"

Demoted(f) == f.severity # f.original

\* Mutant: the severity of the finding, capped or not.
RuleSeverityCapped(f) == f.severity

ruleSeverity(f) == IF Demoted(f) THEN f.original ELSE f.severity

\* A rule is described once, by the worst it was without context rules.
sarifRules(all) ==
  [id \in {all[i].rule : i \in DOMAIN all} |->
     sarifLevel(Max({ruleSeverity(all[i]) : i \in {i \in DOMAIN all : all[i].rule = id}}))]

\* Mutant: the fingerprint of a finding forgets its rule.
BaseUnruled(f) == <<f.file, f.excerpt>>

\* Mutant: the fingerprint counts lines in.
BaseByLine(f) == <<f.rule, f.file, f.line, f.excerpt>>

Base(f) == <<f.rule, f.file, f.excerpt>>

\* Findings of one base are told apart by how many came before; no line number.
fingerprint(all, i) ==
  [base |-> Base(all[i]), nth |-> Cardinality({j \in 1..(i - 1) : Base(all[j]) = Base(all[i])})]

sarifResultFor(all, i, isWaived) ==
  [rule |-> all[i].rule, level |-> sarifLevel(all[i].severity), fingerprint |-> fingerprint(all, i),
   file |-> all[i].file, line |-> all[i].line, suppressed |-> isWaived,
   demotedFrom |-> IF Demoted(all[i]) THEN {all[i].original} ELSE {}]

resultsOf(rep, all) == [i \in DOMAIN all |-> sarifResultFor(all, i, i > Len(rep.findings))]

\* Waived findings come last and are suppressed, not dropped.
logOf(rep, verdict) ==
  LET all == rep.findings \o rep.waived
  IN [rules |-> sarifRules(all), results |-> resultsOf(rep, all), verdict |-> verdict]

SARIF(scan) == logOf(Ordered(scan), scan.verdict)

-----------------------------------------------------------------------------
(***************************************************************************)
(* One log for many bundles: [dir, single, scan], where scan is {} for a    *)
(* bundle that could not be loaded. Paths start at the root of the          *)
(* discovery; a single file's findings name SKILL.md, wherever it lies.     *)
(***************************************************************************)
bundlePrefix(b) == IF b.single THEN Front(b.dir) ELSE b.dir

\* Mutant: findings keep the path below their bundle.
EntriesBare(rep, prefix) ==
  LET all == rep.findings \o rep.waived
  IN [i \in DOMAIN all |-> [bundle |-> prefix, waived |-> i > Len(rep.findings), finding |-> all[i]]]

Entries(rep, prefix) ==
  LET all == rep.findings \o rep.waived
  IN [i \in DOMAIN all |-> [bundle |-> prefix, waived |-> i > Len(rep.findings),
                            finding |-> [all[i] EXCEPT !.file = prefix \o @]]]

BundleFindings(b) ==
  IF b.scan = {} THEN << >> ELSE Entries(Ordered(CHOOSE s \in b.scan : TRUE), bundlePrefix(b))

logOfMany(bundles, entries, all) ==
  LET failed == {i \in DOMAIN bundles : bundles[i].scan = {}}
  IN [rules |-> sarifRules(all),
      results |-> [i \in DOMAIN all |-> sarifResultFor(all, i, entries[i].waived)],
      bundles |-> [i \in DOMAIN all |-> entries[i].bundle],
      notScanned |-> {bundlePrefix(bundles[i]) : i \in failed},
      successful |-> failed = {}]

MultiSARIF(bundles) ==
  LET entries == FlattenSeq([i \in DOMAIN bundles |-> BundleFindings(bundles[i])])
  IN logOfMany(bundles, entries, [i \in DOMAIN entries |-> entries[i].finding])

=============================================================================
