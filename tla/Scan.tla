-------------------------------- MODULE Scan --------------------------------
(***************************************************************************)
(* The scanner: rules run over the targets of a bundle (pkg/rules), context *)
(* rules lower the severity of what they find, duplicates are folded,       *)
(* waivers take findings out, and what is left gives verdict and score      *)
(* (pkg/scan).                                                             *)
(*                                                                         *)
(* A pattern is a mark: it matches on the lines that carry it. Confidence   *)
(* is in hundredths, severity in 0..4. Findings are sets; a finding keeps   *)
(* the place of its rule in the list (nth), which decides ties.             *)
(***************************************************************************)
EXTENDS Bundle

Info == 0
Low == 1
Medium == 2
High == 3
Critical == 4

CONSTANT TreeLevels   \* match trees; the branches of a tree are on lower levels

EmitThreshold == 50
CodeExample == -40
Documentary == -40
Instruction == 15

-----------------------------------------------------------------------------
(***************************************************************************)
(* Targets: the texts that rules run on, with the offset of their lines.   *)
(***************************************************************************)
TargetOf == [script |-> "scripts", config |-> "configs", doc |-> "refs"]

Target(name, lang, file, text, offset) ==
  [name |-> name, lang |-> lang, file |-> file, text |-> text, offset |-> offset]

Targets(b) ==
  (IF b.skill.present
   THEN {Target("manifest", "", SkillMD, b.skill.front, b.skill.frontOffset)} ELSE {})
  \cup {Target("body", "", SkillMD, b.skill.body, b.skill.bodyOffset)}
  \cup {Target(TargetOf[b.role[p]], IF b.role[p] = "script" THEN LanguageOf(p) ELSE "",
               p, b.files[p], 0) :
          p \in {p \in DOMAIN b.role : b.role[p] \in DOMAIN TargetOf}}

IsProse(target) == target \in {"manifest", "body", "refs"}

\* Reference documents are a kind of body, never the other way round.
AppliesTo(r, t) ==
  /\ \/ r.targets = {} \/ t.name \in r.targets
     \/ t.name = "refs" /\ "body" \in r.targets
  /\ r.languages = {} \/ "*" \in r.languages \/ t.lang = "" \/ t.lang \in r.languages

-----------------------------------------------------------------------------
(***************************************************************************)
(* The match tree. A leaf matches on every line with its mark; `any` joins, *)
(* `all` gives all matches of its first branch when no branch is without,   *)
(* `not` gives line 1 when every branch is without. A match keeps its place  *)
(* in the tree (at), which decides between equally sure ones of a line.     *)
(***************************************************************************)
Leaf(mark, confidence, structural) ==
  [op |-> "leaf", mark |-> mark, confidence |-> confidence, structural |-> structural]
Tree(op, branches) == [op |-> op, of |-> branches]
PathOnly == Tree("any", <<>>)

Trees == UNION {TreeLevels[n] : n \in DOMAIN TreeLevels}

ASSUME TreesAreFinite ==
  /\ Len(TreeLevels) \in Nat /\ DOMAIN TreeLevels = 1..Len(TreeLevels) /\ PathOnly \in Trees
  /\ \A n \in DOMAIN TreeLevels : \A c \in TreeLevels[n] :
       \/ c.op = "leaf" /\ c.confidence \in Int
       \/ /\ c.op \in {"any", "all", "not"} /\ IsSeq(c.of) /\ (c.op = "all" => c.of # <<>>)
          /\ \A i \in DOMAIN c.of : \E m \in DOMAIN TreeLevels : m < n /\ c.of[i] \in TreeLevels[m]

EvalLeaf(c, confidence, text) ==
  LET own == IF c.confidence = 0 THEN confidence ELSE c.confidence
  IN {[line |-> i, structural |-> c.structural, excerpt |-> c.mark, at |-> <<>>,
       confidence |-> IF own = 0 THEN EmitThreshold ELSE own] :
        i \in {i \in DOMAIN text : c.mark \in text[i].marks}}

Eval(c, confidence, text) ==
  LET matches[tree \in Trees] ==
        LET Sub(i) == matches[tree.of[i]]
        IN CASE tree.op = "leaf" -> EvalLeaf(tree, confidence, text)
             [] tree.op = "any"  ->
                  UNION {{[m EXCEPT !.at = <<i>> \o @] : m \in Sub(i)} : i \in DOMAIN tree.of}
             [] tree.op = "all"  -> IF \E i \in DOMAIN tree.of : Sub(i) = {} THEN {} ELSE Sub(1)
             [] tree.op = "not"  -> IF \E i \in DOMAIN tree.of : Sub(i) # {} THEN {}
                                    ELSE {[line |-> 1, structural |-> FALSE, excerpt |-> "", at |-> <<>>,
                                           confidence |-> confidence]}
  IN matches[c]

\* An odd number of fence markers stands before the line.
InFence(text, i) == Cardinality({j \in 1..(i - 1) : "fence" \in text[j].marks}) % 2 = 1
\* The window of 80 bytes before and 40 after a match, in lines.
NearDocKeyword(text, i) ==
  \E j \in {i - 1, i, i + 1} \cap DOMAIN text : "never" \in text[j].marks

Modifier(t, m) ==
  IF ~IsProse(t.name) THEN 0
  ELSE Instruction + (IF m.structural THEN 0
                      ELSE IF InFence(t.text, m.line) THEN CodeExample
                      ELSE IF NearDocKeyword(t.text, m.line) THEN Documentary ELSE 0)
Confidence(t, m) == Max({0, Min({100, m.confidence + Modifier(t, m)})})

Suppressed(r, line) == r.suppress \cap line.marks # {}

Earlier(p, q) ==
  \E k \in DOMAIN p \cap DOMAIN q : p[k] < q[k] /\ \A j \in 1..(k - 1) : p[j] = q[j]

\* The surest match of a set, and of those the first in the tree.
Surest(t, matches) ==
  CHOOSE m \in matches : \A n \in matches :
    \/ Confidence(t, m) > Confidence(t, n)
    \/ Confidence(t, m) = Confidence(t, n) /\ ~Earlier(n.at, m.at)

\* Mutant: of a conjunction only the first match is kept.
EvaluateFirst(r, nth, t) ==
  LET all == Eval(r.match, r.confidence, t.text)
      hits == IF r.match.op # "all" \/ all = {} THEN all
              ELSE {m \in all : m.line = Min({n.line : n \in all})}
  IN {[rule |-> r.id, nth |-> nth, severity |-> r.severity, original |-> r.severity,
       layer |-> r.layer, file |-> t.file, line |-> m.line + t.offset, excerpt |-> m.excerpt,
       confidence |-> Confidence(t, m)] :
         m \in {m \in hits : Confidence(t, m) >= EmitThreshold /\ m.line \in DOMAIN t.text
                            /\ ~Suppressed(r, t.text[m.line])}}

FindingAt(r, nth, t, m) ==
  [rule |-> r.id, nth |-> nth, severity |-> r.severity, original |-> r.severity,
   layer |-> r.layer, file |-> t.file, line |-> m.line + t.offset, excerpt |-> m.excerpt,
   confidence |-> Confidence(t, m)]

\* One finding for each line with a match that is sure enough and not carved out.
Evaluate(r, nth, t) ==
  LET sure == {m \in Eval(r.match, r.confidence, t.text) :
                 /\ Confidence(t, m) >= EmitThreshold
                 /\ m.line \in DOMAIN t.text => ~Suppressed(r, t.text[m.line])}
  IN {FindingAt(r, nth, t, Surest(t, {n \in sure : n.line = m.line})) : m \in sure}

-----------------------------------------------------------------------------
(***************************************************************************)
(* Context rules: where they match, findings are capped, never removed.    *)
(***************************************************************************)
Level(text, i) ==
  IF InFence(text, i) THEN 0
  ELSE IF "# heading" \in text[i].marks THEN 1
  ELSE IF "## heading" \in text[i].marks THEN 2 ELSE 0

\* From a heading to the line before the next one of the same or a higher level.
SectionLines(text, at) ==
  {n \in DOMAIN text : \E i \in at : /\ Level(text, i) # 0 /\ i <= n
      /\ \A j \in (i + 1)..n : Level(text, j) = 0 \/ Level(text, j) > Level(text, i)}

\* The lines of a target that a context rule covers; 0 stands for the whole file.
Spans(c, t) ==
  LET at == {m.line : m \in Eval(c.match, 100, t.text)}
  IN CASE c.scope = "file"    -> IF c.match = PathOnly \/ at # {} THEN {0} ELSE {}
       [] c.scope = "line"    -> {n + t.offset : n \in at}
       [] c.scope = "section" -> IF IsProse(t.name)
                                 THEN {n + t.offset : n \in SectionLines(t.text, at)} ELSE {}

AppliesToPath(c, file) == c.paths = {} \/ \E dir \in c.paths : IsPrefix(dir, file)

\* Mutant: the lines covered are those of the target, not of its file.
ContextCapsLocal(contexts, targets) ==
  {[max |-> ct[1].max, layers |-> ct[1].layers, file |-> ct[2].file,
    lines |-> {n - ct[2].offset : n \in Spans(ct[1], ct[2])}] :
     ct \in {ct \in contexts \X targets :
               AppliesTo(ct[1], ct[2]) /\ AppliesToPath(ct[1], ct[2].file)}}

ContextCaps(contexts, targets) ==
  {[max |-> ct[1].max, layers |-> ct[1].layers, file |-> ct[2].file,
    lines |-> Spans(ct[1], ct[2])] :
     ct \in {ct \in contexts \X targets :
               AppliesTo(ct[1], ct[2]) /\ AppliesToPath(ct[1], ct[2].file)}}

\* Mutant: a ceiling above the severity raises it.
ApplyCeilings(caps, f) ==
  LET ceilings == {cap.max : cap \in {cap \in caps :
                     /\ cap.file = f.file
                     /\ {0, f.line} \cap cap.lines # {}
                     /\ cap.layers = {} \/ f.layer \in cap.layers}}
  IN IF ceilings = {} THEN f ELSE [f EXCEPT !.severity = Min(ceilings)]

\* The lowest ceiling that covers the finding and its layer.
ApplyCaps(caps, f) ==
  LET ceilings == {cap.max : cap \in {cap \in caps :
                     /\ cap.file = f.file
                     /\ {0, f.line} \cap cap.lines # {}
                     /\ cap.layers = {} \/ f.layer \in cap.layers}}
  IN IF ceilings = {} \/ f.severity <= Min(ceilings) THEN f
     ELSE [f EXCEPT !.severity = Min(ceilings)]

-----------------------------------------------------------------------------
(***************************************************************************)
(* Duplicates: of the findings of one id on one line the surest stays, and *)
(* of those the first.                                                     *)
(***************************************************************************)
SameKey(f, g) == f.file = g.file /\ f.line = g.line /\ f.rule = g.rule
Surer(f, g) == f.confidence > g.confidence \/ (f.confidence = g.confidence /\ f.nth < g.nth)

Dedup(findings) ==
  {f \in findings : \A g \in findings \ {f} : SameKey(f, g) => Surer(f, g)}

-----------------------------------------------------------------------------
(***************************************************************************)
(* Waivers, verdict and score.                                             *)
(***************************************************************************)
\* Fields of a waiver that are left out are empty; the name counts only with a root.
Waives(w, f, id) ==
  /\ w.pinned # {} => id.root \in w.pinned /\ (w.bundle = {} \/ id.name \in w.bundle)
  /\ w.rules = {} \/ f.rule \in w.rules
  /\ w.live
  /\ w.path = <<>> \/ w.path = f.file

Name(b) ==
  LET says == ManifestFields(b.skill.front)
  IN IF "name" \in DOMAIN says THEN says["name"] ELSE <<>>
BundleID(b) == [name |-> Name(b), root |-> BundleLeaves(b)]

Verdict(findings, policy) ==
  IF \E f \in findings : f.severity >= policy.failOn THEN "fail"
  ELSE IF \E f \in findings : f.severity >= policy.warnOn THEN "warn" ELSE "pass"

Points == [s \in Info..Critical |-> CASE s = Critical -> 40 [] s = High -> 15 [] s = Medium -> 5
                                      [] s = Low -> 1 [] s = Info -> 0]
RiskScore(findings) ==
  LET sum == MapThenSumSet(LAMBDA f : Points[f.severity] * f.confidence, findings)
  IN (Min({sum, 10000}) + 50) \div 100
Tier(score) == Cardinality({t \in {10, 30, 60} : score >= t})

\* What the rules report, before and after context rules.
Hits(rules, targets) ==
  UNION {Evaluate(rules[nt[1]], nt[1], nt[2]) :
           nt \in {nt \in (DOMAIN rules) \X targets : AppliesTo(rules[nt[1]], nt[2])}}
Capped(hits, caps) == {ApplyCaps(caps, f) : f \in hits}

Report(kept, id, policy) ==
  LET waived == {f \in kept : \E w \in policy.waivers : Waives(w, f, id)}
      findings == kept \ waived
  IN [findings |-> findings, waived |-> waived,
      verdict |-> Verdict(findings, policy), score |-> RiskScore(findings)]

Scan(b, rules, contexts, policy) ==
  LET targets == Targets(b)
  IN Report(Dedup(Capped(Hits(rules, targets), ContextCaps(contexts, targets))),
            BundleID(b), policy)

=============================================================================
